------------------------ MODULE MCParentIncremental ------------------------
(* Instances of ParentIncremental for TLC.                                 *)
EXTENDS ParentIncremental

(* The first parent has two children, the second one.                      *)
TwoAndOne == [c \in Children |-> IF c = 3 THEN 2 ELSE 1]

(* All children but one of the first parent; none of the second parent.    *)
SomeTables == {[c \in Children |-> IF c = 2 THEN 0 ELSE 1],
               [c \in Children |-> IF c = 3 THEN 0 ELSE 1]}

(* Two equal windows of days; two deep ones; one of each.                  *)
ThreeConfigurations == {[lookback |-> TRUE, either |-> FALSE],
                        [lookback |-> FALSE, either |-> TRUE],
                        [lookback |-> FALSE, either |-> FALSE]}
=============================================================================
