--------------------------- MODULE MCFullBySource ---------------------------
(* Instances of FullBySource for TLC.                                      *)
EXTENDS FullBySource

(* Every change gives new rows; version 1 is the empty table.              *)
DistinctContents == Versions
DistinctContent == [v \in Versions |-> v]
IdentityFingerprint == [c \in DistinctContents |-> c]

(* A plain target, the table counted for its own, no empty target.         *)
Plain == [fingerprint |-> TRUE, knownTotalRows |-> FALSE,
          partitionBySource |-> FALSE, emptyRowsOk |-> FALSE, uniquePk |-> TRUE]

(* A partition for each source, the count of the fingerprint taken for the *)
(* estimate, an empty target allowed.                                      *)
Partitioned == [fingerprint |-> TRUE, knownTotalRows |-> TRUE,
                partitionBySource |-> TRUE, emptyRowsOk |-> TRUE, uniquePk |-> TRUE]

PlainAndPartitioned == {Plain, Partitioned}
=============================================================================
