--------------------------- MODULE AtomicReplace ---------------------------
(***************************************************************************)
(* What a full load promises to those who read the target: at any moment   *)
(* they see one complete copy of the source.  A copy is complete when it   *)
(* has every row that was in the source all along while it was read, and   *)
(* no row that was never there.  A failed load changes nothing.            *)
(***************************************************************************)
CONSTANT Keys

VARIABLES
    rows,       \* the source
    visible,    \* the target as its readers see it
    lo,         \* rows present since the last look at the source began
    hi          \* rows present at some moment since then

vars == <<rows, visible, lo, hi>>

Init ==
    /\ rows \in SUBSET Keys
    /\ visible = {}
    /\ lo = {}
    /\ hi = {}

Insert(k) ==
    /\ k \notin rows
    /\ rows' = rows \cup {k}
    /\ hi' = hi \cup {k}
    /\ UNCHANGED <<visible, lo>>

Delete(k) ==
    /\ k \in rows
    /\ rows' = rows \ {k}
    /\ lo' = lo \ {k}
    /\ UNCHANGED <<visible, hi>>

Look ==
    /\ lo' = rows
    /\ hi' = rows
    /\ UNCHANGED <<rows, visible>>

Replace ==
    /\ visible' \in SUBSET hi
    /\ lo \subseteq visible'
    /\ UNCHANGED <<rows, lo, hi>>

Next ==
    \/ \E k \in Keys : Insert(k) \/ Delete(k)
    \/ Look
    \/ Replace

Spec == Init /\ [][Next]_vars
=============================================================================
