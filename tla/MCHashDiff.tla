----------------------------- MODULE MCHashDiff -----------------------------
(* Instances of HashDiff for TLC.                                          *)
EXTENDS HashDiff

(* The second row has a NULL where the others have an integer.             *)
SecondRow == {2}
=============================================================================
