----------------------------- MODULE MCFullLoad -----------------------------
(* Instances of FullLoad for TLC.                                          *)
EXTENDS FullLoad

OtherOrder == [k \in Keys |-> IF k = MaxKey THEN 0 ELSE k]
=============================================================================
