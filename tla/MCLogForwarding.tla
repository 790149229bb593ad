--------------------------- MODULE MCLogForwarding ---------------------------
(* Runs and host threads of one process; the threads are interchangeable.  *)
EXTENDS LogForwarding, TLC

ThreadSymmetry == Permutations(Threads)
=============================================================================
