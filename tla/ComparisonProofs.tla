-------------------------- MODULE ComparisonProofs --------------------------
(***************************************************************************)
(* The two comparisons of what two databases hold: hash_diff, which        *)
(* compares to know what to fetch (HashDiff), and the golden test, which   *)
(* compares to say whether two tables are the same (Golden).               *)
(*                                                                         *)
(* A run of hash_diff that commits brings every row that was in the source *)
(* all along, and marks as deleted only what was absent at some moment of  *)
(* it, for every number of keys, versions, batch size and limit of faults, *)
(* and whichever side hashes.  The argument: a hash in the snapshot is of  *)
(* a version the row has had during the run (SnapshotInv); what the open   *)
(* read has passed and has not brought was absent for a moment (PassedInv);*)
(* a stored hash is that of the row it is stored with (HashInv); so a row  *)
(* whose hash matches has a version of this run, and the others are        *)
(* fetched (FetchInv).                                                     *)
(*                                                                         *)
(* The golden test, for any two tables, options and number of arrivals.    *)
(* The argument: how far the comparison is says how many levels the report *)
(* has (PlaceInv); until a pipeline arrives the columns seen are those of  *)
(* the tables (SeenInv), so a level says what there is to say of them      *)
(* (FoundInv): the deviations it accepts are those Accepted names, and     *)
(* level 5 passes only if the rows agree, which pairs them off when the    *)
(* key is one.  The other way round, tables that hold the same have rows   *)
(* that are paired off, which no sum, extreme or count can tell apart, so  *)
(* that no level reports anything (EqualInv).  The sum of a column is the  *)
(* one thing here that is computed by recursion; it is the same over       *)
(* partners by an induction whose hypothesis is a set and not an operator  *)
(* (InductionInASet).                                                      *)
(***************************************************************************)
EXTENDS HashDiff, Golden, FiniteSetTheorems, SequenceTheorems, WellFoundedInduction, TLAPS

(* hash_diff.                                                              *)

HeldInv == step # "idle" => \A k \in Keys : src[k] \in held[k]

SnapshotInv ==
    step \in {"scan", "download"} =>
        \A k \in Keys : \/ snapshot[k] = NoHash
                        \/ snapshot[k].v # 0 /\ snapshot[k].v \in held[k]

PassedInv ==
    \A k \in Keys : 0 \notin held[k] =>
        /\ step = "scan" /\ k <= pos => snapshot[k] # NoHash
        /\ step = "download" => snapshot[k] # NoHash
        /\ step = "full" /\ k <= pos => staged[k].v # 0

HashInv ==
    \A k \in Keys :
        /\ target[k].hash = NoHash \/ target[k].hash.v = target[k].v
        /\ staged[k].hash = NoHash \/ staged[k].hash.v = staged[k].v

StagedInv ==
    \A k \in Keys :
        /\ ~staged[k].deleted
        /\ step # "idle" /\ staged[k].v # 0 => staged[k].v \in held[k]

FetchInv ==
    step = "download" =>
        \A k \in Keys : 0 \notin held[k] /\ k \notin todo /\ staged[k].v = 0 =>
            target[k].v # 0 /\ target[k].hash = snapshot[k]

IInv == TypeOK /\ HeldInv /\ SnapshotInv /\ PassedInv /\ HashInv /\ StagedInv /\ FetchInv

-----------------------------------------------------------------------------
(* Types.                                                                  *)

LEMMA KeysAreIntegers == Keys \subseteq Int /\ Keys \subseteq 0..MaxKey
  BY HashAssumption DEF Keys, HashAssumption

LEMMA NoRowType == /\ NoHash \in Hashes /\ NoRow \in Rows /\ NoRows \in [Keys -> Rows]
                   /\ NoRow.v = 0 /\ NoRow.hash = NoHash /\ NoRow.deleted = FALSE
  BY HashAssumption DEF HashAssumption, NoHash, NoRow, NoRows, Rows, Hashes, Routes

LEMMA HashType == ASSUME TypeOK, NEW b, NEW k \in Keys
                  PROVE  /\ HashIn(b, k) \in Hashes
                         /\ HashIn(b, k).v = src[k]
                         /\ src[k] # 0 => HashIn(b, k) # NoHash
  BY DEF TypeOK, HashIn, RouteIn, Hashes, Routes, NoHash

LEMMA PreparedType == ASSUME TypeOK, NEW b, NEW k \in Keys
                      PROVE  /\ Prepared(b, k) \in Rows
                             /\ Prepared(b, k).v = src[k]
                             /\ Prepared(b, k).hash.v = src[k]
                             /\ Prepared(b, k).deleted = FALSE
  BY HashType DEF TypeOK, Prepared, Rows

LEMMA WithRowsType == ASSUME TypeOK, NEW t \in [Keys -> Rows], NEW b
                      PROVE  WithRows(t, b) \in [Keys -> Rows]
  BY PreparedType DEF WithRows

LEMMA MarkDeletedType == ASSUME NEW t \in [Keys -> Rows]
                         PROVE  MarkDeleted(t) \in [Keys -> Rows]
  BY DEF MarkDeleted, Rows

LEMMA NextBatchKeys == NextBatch \subseteq Live /\ Live \subseteq Keys
  BY DEF NextBatch, Live

LEMMA LastOfType == ASSUME NEW b \in SUBSET Keys, NEW p \in LastOf(b)
                    PROVE  p \in b /\ p \in 0..MaxKey /\ \A k \in b : k <= p
  BY KeysAreIntegers DEF LastOf

(* A batch has no hole: it takes the live rows in the order of the key.    *)
LEMMA NextBatchHasNoHole ==
    ASSUME NEW k \in NextBatch, NEW j \in Live, pos < j, j <= k, pos \in Int
    PROVE  j \in NextBatch
  <1> DEFINE Up(i) == {l \in Live : pos < l /\ l <= i}
  <1>1. k \in Int /\ j \in Int /\ \A l \in Live : l \in Int
    BY NextBatchKeys, KeysAreIntegers
  <1>2. Up(j) \subseteq Up(k)
    <2>1. ASSUME NEW l \in Live, l <= j PROVE l <= k
      <3>1. l \in Int
        BY <1>1
      <3> QED
        BY <1>1, <2>1, <3>1
    <2> QED
      BY <2>1
  <1>3. IsFiniteSet(Up(k))
    <2>1. MaxKey \in Int
      BY HashAssumption DEF HashAssumption
    <2>2. IsFiniteSet(1..MaxKey)
      BY <2>1, FS_Interval
    <2>3. Up(k) \subseteq 1..MaxKey
      BY NextBatchKeys DEF Keys
    <2> QED
      BY <2>2, <2>3, FS_Subset
  <1>4. Cardinality(Up(j)) <= Cardinality(Up(k)) /\ IsFiniteSet(Up(j))
    BY <1>2, <1>3, FS_Subset
  <1>5. Cardinality(Up(j)) \in Int /\ Cardinality(Up(k)) \in Int /\ BatchSize \in Int
    BY <1>3, <1>4, FS_CardinalityType, HashAssumption DEF HashAssumption
  <1>6. Cardinality(Up(k)) <= BatchSize
    BY DEF NextBatch
  <1>7. Cardinality(Up(j)) <= BatchSize
    BY <1>4, <1>5, <1>6
  <1> QED
    BY <1>7 DEF NextBatch

-----------------------------------------------------------------------------
LEMMA HashDiffInit == Init => IInv
  <1> SUFFICES ASSUME Init PROVE IInv
    OBVIOUS
  <1>1. 1 \in 0..MaxVersion /\ 0 \in 0..MaxVersion /\ 0 \in 0..MaxKey
        /\ 0 \in 0..MaxChanges /\ 0 \in 0..MaxFaults
    BY HashAssumption DEF HashAssumption
  <1>2. PICK route \in [Keys -> {"absent", "none", "old"}] :
          target = [k \in Keys |->
                       IF route[k] = "absent" THEN NoRow
                       ELSE [v |-> 1, deleted |-> FALSE,
                             hash |-> IF route[k] = "none" THEN NoHash
                                      ELSE [v |-> 1, route |-> "old"]]]
    BY DEF Init
  <1>3. \A k \in Keys : /\ target[k] \in Rows
                        /\ target[k].hash = NoHash \/ target[k].hash.v = target[k].v
    BY <1>1, <1>2, NoRowType DEF Rows, Hashes, Routes
  <1>4. target \in [Keys -> Rows]
    BY <1>2, <1>3
  <1>5. TypeOK
    BY <1>1, <1>4, NoRowType DEF Init, TypeOK
  <1>6. \A k \in Keys : staged[k] = NoRow
    BY DEF Init, NoRows
  <1> QED
    BY <1>3, <1>5, <1>6, NoRowType
       DEF Init, IInv, HeldInv, SnapshotInv, PassedInv, HashInv, StagedInv, FetchInv

LEMMA HashDiffTypes == ASSUME TypeOK, [Next]_vars PROVE TypeOK'
  <1> USE DEF runVars
  <1>1. ASSUME NEW k \in Keys, NEW v \in 0..MaxVersion, Change(k, v) PROVE TypeOK'
    <2>1. changes + 1 \in 0..MaxChanges
      BY <1>1, HashAssumption DEF TypeOK, Change, HashAssumption
    <2> QED
      BY <1>1, <2>1 DEF TypeOK, Change
  <1>2. CASE StartRun \/ CompareDrifted
    <2>1. 0 \in 0..MaxKey
      BY HashAssumption DEF HashAssumption
    <2> QED
      BY <1>2, <2>1, NoRowType DEF TypeOK, StartRun, CompareDrifted, FallBack, FullOrNothing
  <1>3. CASE ScanFails
    <2>1. 0 \in 0..MaxKey /\ faults + 1 \in 0..MaxFaults
      BY <1>3, HashAssumption DEF HashAssumption, ScanFails, TypeOK
    <2> QED
      BY <1>3, <2>1, NoRowType DEF TypeOK, ScanFails, FallBack, FullOrNothing
  <1>4. CASE RunDies
    <2>1. faults + 1 \in 0..MaxFaults
      BY <1>4, HashAssumption DEF HashAssumption, RunDies, TypeOK
    <2> QED
      BY <1>4, <2>1 DEF TypeOK, RunDies
  <1>5. CASE ScanBatch
    <2>1. pos' \in 0..MaxKey
      BY <1>5, LastOfType, NextBatchKeys DEF ScanBatch
    <2>2. snapshot' \in [Keys -> Hashes]
      BY <1>5, HashType DEF ScanBatch, TypeOK
    <2> QED
      BY <1>5, <2>1, <2>2 DEF TypeOK, ScanBatch
  <1>6. CASE FullBatch
    <2>1. pos' \in 0..MaxKey
      BY <1>6, LastOfType, NextBatchKeys DEF FullBatch
    <2>2. staged' \in [Keys -> Rows]
      BY <1>6, WithRowsType DEF FullBatch, TypeOK
    <2> QED
      BY <1>6, <2>1, <2>2 DEF TypeOK, FullBatch
  <1>7. CASE Compare
    BY <1>7 DEF TypeOK, Compare, ToFetch, Added, Changed, Scanned
  <1>8. ASSUME NEW b \in SUBSET todo, Download(b) PROVE TypeOK'
    <2>1. staged' \in [Keys -> Rows]
      BY <1>8, WithRowsType DEF Download, TypeOK
    <2> QED
      BY <1>8, <2>1 DEF TypeOK, Download
  <1>9. CASE Apply
    <2> DEFINE t == [k \in Keys |-> IF staged[k].v # 0 THEN staged[k] ELSE target[k]]
    <2>1. t \in [Keys -> Rows]
      BY DEF TypeOK
    <2>2. target' \in [Keys -> Rows]
      BY <1>9, <2>1, MarkDeletedType DEF Apply
    <2> QED
      BY <1>9, <2>2 DEF TypeOK, Apply
  <1>10. CASE FullSwap \/ UNCHANGED vars
    BY <1>10 DEF TypeOK, FullSwap, vars
  <1> QED
    BY <1>1, <1>2, <1>3, <1>4, <1>5, <1>6, <1>7, <1>8, <1>9, <1>10 DEF Next, Progress
-----------------------------------------------------------------------------
(* The source changes: the versions a row has had only grow.               *)
LEMMA ChangeKeeps ==
    ASSUME IInv, NEW k \in Keys, NEW v \in 0..MaxVersion, Change(k, v)
    PROVE  HeldInv' /\ SnapshotInv' /\ PassedInv' /\ HashInv' /\ StagedInv' /\ FetchInv'
  <1> USE DEF IInv
  <1>1. UNCHANGED <<target, runVars>>
    BY DEF Change
  <1>2. \A i \in Keys : held[i] \subseteq held'[i]
    BY DEF Change, TypeOK
  <1>3. \A i \in Keys : src'[i] = src[i] \/ src'[i] \in held'[i]
    BY DEF Change, TypeOK
  <1>4. HeldInv'
    BY <1>1, <1>2, <1>3 DEF HeldInv, runVars
  <1>5. SnapshotInv'
    BY <1>1, <1>2 DEF SnapshotInv, runVars
  <1>6. PassedInv'
    BY <1>1, <1>2 DEF PassedInv, runVars
  <1>7. HashInv' /\ StagedInv' /\ FetchInv'
    BY <1>1, <1>2 DEF HashInv, StagedInv, FetchInv, runVars
  <1> QED
    BY <1>4, <1>5, <1>6, <1>7

(* A run or its full load begins: nothing is passed, nothing is staged.    *)
LEMMA BeginKeeps ==
    ASSUME IInv, step' \in {"idle", "scan", "full"}, pos' = 0, staged' = NoRows,
           held' = [k \in Keys |-> {src[k]}], src' = src, target' = target,
           snapshot' = [k \in Keys |-> NoHash] \/ step' # "scan"
    PROVE  HeldInv' /\ SnapshotInv' /\ PassedInv' /\ HashInv' /\ StagedInv' /\ FetchInv'
  <1> USE DEF IInv
  <1>1. \A k \in Keys : ~(k <= 0)
    BY DEF Keys
  <1>2. \A k \in Keys : staged'[k] = NoRow
    BY DEF NoRows
  <1>3. HeldInv' /\ SnapshotInv' /\ FetchInv'
    BY DEF HeldInv, SnapshotInv, FetchInv
  <1>4. PassedInv'
    BY <1>1 DEF PassedInv
  <1>5. HashInv' /\ StagedInv'
    BY <1>2, NoRowType DEF HashInv, StagedInv
  <1> QED
    BY <1>3, <1>4, <1>5

(* What a batch passes and was there all along is in the batch.            *)
LEMMA BatchPasses ==
    ASSUME IInv, step # "idle", NEW p \in LastOf(NextBatch),
           NEW k \in Keys, 0 \notin held[k], k <= p, ~(k <= pos)
    PROVE  k \in NextBatch
  <1>1. src[k] # 0
    BY DEF IInv, HeldInv
  <1>2. k \in Live
    BY <1>1 DEF Live
  <1>3. pos \in Int /\ k \in Int
    BY KeysAreIntegers DEF IInv, TypeOK
  <1>4. p \in NextBatch
    BY LastOfType, NextBatchKeys
  <1> QED
    BY <1>2, <1>3, <1>4, NextBatchHasNoHole

LEMMA ScanBatchKeeps ==
    ASSUME IInv, ScanBatch
    PROVE  HeldInv' /\ SnapshotInv' /\ PassedInv' /\ HashInv' /\ StagedInv' /\ FetchInv'
  <1> USE DEF IInv
  <1>1. \A k \in NextBatch : k \in Keys /\ src[k] # 0
    BY DEF NextBatch, Live
  <1>2. \A k \in Keys : snapshot'[k] = IF k \in NextBatch THEN HashIn(NextBatch, k)
                                       ELSE snapshot[k]
    BY DEF ScanBatch
  <1>3. \A k \in NextBatch : /\ snapshot'[k].v = src[k]
                             /\ snapshot'[k] # NoHash
    BY <1>1, <1>2, HashType
  <1>4. SnapshotInv'
    BY <1>1, <1>2, <1>3 DEF SnapshotInv, HeldInv, ScanBatch
  <1>5. PassedInv'
    <2>1. \A k \in Keys : 0 \notin held[k] /\ k <= pos' => snapshot'[k] # NoHash
      BY <1>2, <1>3, BatchPasses DEF ScanBatch, PassedInv
    <2> QED
      BY <2>1 DEF PassedInv, ScanBatch
  <1>6. HeldInv' /\ HashInv' /\ StagedInv' /\ FetchInv'
    BY DEF ScanBatch, HeldInv, HashInv, StagedInv, FetchInv
  <1> QED
    BY <1>4, <1>5, <1>6

LEMMA FullBatchKeeps ==
    ASSUME IInv, FullBatch
    PROVE  HeldInv' /\ SnapshotInv' /\ PassedInv' /\ HashInv' /\ StagedInv' /\ FetchInv'
  <1> USE DEF IInv
  <1>1. \A k \in NextBatch : k \in Keys /\ src[k] # 0
    BY DEF NextBatch, Live
  <1>2. \A k \in Keys : staged'[k] = IF k \in NextBatch THEN Prepared(NextBatch, k)
                                     ELSE staged[k]
    BY DEF FullBatch, WithRows
  <1>3. \A k \in NextBatch : /\ staged'[k].v = src[k]
                             /\ staged'[k].hash.v = src[k]
                             /\ ~staged'[k].deleted
    BY <1>1, <1>2, PreparedType
  <1>4. HashInv' /\ StagedInv'
    BY <1>1, <1>2, <1>3 DEF HashInv, StagedInv, HeldInv, FullBatch
  <1>5. PassedInv'
    <2>1. \A k \in Keys : 0 \notin held[k] /\ k <= pos' => staged'[k].v # 0
      BY <1>1, <1>2, <1>3, BatchPasses DEF FullBatch, PassedInv
    <2> QED
      BY <2>1 DEF PassedInv, FullBatch
  <1>6. HeldInv' /\ SnapshotInv' /\ FetchInv'
    BY DEF FullBatch, HeldInv, SnapshotInv, FetchInv
  <1> QED
    BY <1>4, <1>5, <1>6

(* A row that is in the source all along is scanned when nothing is left.  *)
LEMMA CompareKeeps ==
    ASSUME IInv, Compare
    PROVE  HeldInv' /\ SnapshotInv' /\ PassedInv' /\ HashInv' /\ StagedInv' /\ FetchInv'
  <1> USE DEF IInv
  <1>1. \A k \in Keys : 0 \notin held[k] => snapshot[k] # NoHash
    BY DEF Compare, NothingLeft, Live, HeldInv, PassedInv
  <1>2. FetchInv'
    BY <1>1 DEF Compare, FetchInv, ToFetch, Added, Changed, Scanned, Differs, InTable
  <1>3. HeldInv' /\ SnapshotInv' /\ PassedInv' /\ HashInv' /\ StagedInv'
    BY <1>1 DEF Compare, HeldInv, SnapshotInv, PassedInv, HashInv, StagedInv
  <1> QED
    BY <1>2, <1>3

LEMMA DownloadKeeps ==
    ASSUME IInv, NEW b \in SUBSET todo, Download(b)
    PROVE  HeldInv' /\ SnapshotInv' /\ PassedInv' /\ HashInv' /\ StagedInv' /\ FetchInv'
  <1> USE DEF IInv
  <1>1. \A k \in Keys : staged'[k] = IF k \in b \cap Live THEN Prepared(b \cap Live, k)
                                     ELSE staged[k]
    BY DEF Download, WithRows
  <1>2. \A k \in b \cap Live : /\ k \in Keys /\ src[k] # 0
                               /\ staged'[k].v = src[k]
                               /\ staged'[k].hash.v = src[k]
                               /\ ~staged'[k].deleted
    <2>1. \A k \in Live : k \in Keys /\ src[k] # 0
      BY DEF Live
    <2>2. \A k \in Keys : /\ Prepared(b \cap Live, k).v = src[k]
                          /\ Prepared(b \cap Live, k).hash.v = src[k]
                          /\ Prepared(b \cap Live, k).deleted = FALSE
      BY PreparedType
    <2> QED
      BY <1>1, <2>1, <2>2
  <1>3. HashInv' /\ StagedInv'
    BY <1>1, <1>2 DEF HashInv, StagedInv, HeldInv, Download
  <1>4. FetchInv'
    <2> SUFFICES ASSUME NEW k \in Keys, 0 \notin held[k], k \notin todo', staged'[k].v = 0
                 PROVE  target[k].v # 0 /\ target[k].hash = snapshot[k]
      BY DEF FetchInv, Download
    <2>1. k \in Live
      BY DEF HeldInv, Live, Download
    <2>2. k \notin b
      BY <1>2, <2>1
    <2>3. k \notin todo /\ staged[k].v = 0
      BY <1>1, <2>2 DEF Download
    <2> QED
      BY <2>3 DEF FetchInv, Download
  <1>5. HeldInv' /\ SnapshotInv' /\ PassedInv'
    BY DEF Download, HeldInv, SnapshotInv, PassedInv
  <1> QED
    BY <1>3, <1>4, <1>5

(* What the run leaves when it commits.                                    *)
Merged == [k \in Keys |-> IF staged[k].v # 0 THEN staged[k] ELSE target[k]]

LEMMA ApplyLeaves ==
    ASSUME IInv, Apply, NEW k \in Keys
    PROVE  /\ target'[k].v = Merged[k].v
           /\ target'[k].hash = Merged[k].hash
           /\ target'[k].deleted = IF Merged[k].v # 0 THEN k \notin Scanned ELSE target[k].deleted
  <1>1. target' = MarkDeleted(Merged)
    BY DEF Apply, Merged
  <1>2. Merged \in [Keys -> Rows]
    BY DEF IInv, TypeOK, Merged
  <1>3. Merged[k].v = 0 => Merged[k] = target[k]
    BY DEF Merged
  <1> QED
    BY <1>1, <1>2, <1>3 DEF MarkDeleted, Rows

LEMMA CommitKeeps ==
    ASSUME IInv, Apply \/ FullSwap
    PROVE  HeldInv' /\ SnapshotInv' /\ PassedInv' /\ HashInv' /\ StagedInv' /\ FetchInv'
  <1> USE DEF IInv
  <1>1. step' = "idle" /\ staged' = staged
    BY DEF Apply, FullSwap
  <1>2. \A k \in Keys : target'[k].hash = NoHash \/ target'[k].hash.v = target'[k].v
    <2>1. CASE Apply
      <3>1. \A k \in Keys : Merged[k].hash = NoHash \/ Merged[k].hash.v = Merged[k].v
        BY DEF HashInv, Merged
      <3> QED
        BY <2>1, <3>1, ApplyLeaves
    <2>2. CASE FullSwap
      BY <2>2 DEF FullSwap, HashInv
    <2> QED
      BY <2>1, <2>2
  <1> QED
    BY <1>1, <1>2 DEF HeldInv, SnapshotInv, PassedInv, HashInv, StagedInv, FetchInv

LEMMA HashDiffStep == IInv /\ [Next]_vars => IInv'
  <1> SUFFICES ASSUME IInv, [Next]_vars PROVE IInv'
    OBVIOUS
  <1>1. TypeOK'
    BY HashDiffTypes DEF IInv
  <1> DEFINE Kept == HeldInv' /\ SnapshotInv' /\ PassedInv' /\ HashInv' /\ StagedInv' /\ FetchInv'
  <1>2. ASSUME StartRun PROVE Kept
    BY <1>2, BeginKeeps DEF StartRun, FullOrNothing
  <1>3. ASSUME CompareDrifted \/ ScanFails PROVE Kept
    BY <1>3, BeginKeeps DEF CompareDrifted, ScanFails, FallBack, FullOrNothing
  <1>4. ASSUME RunDies PROVE Kept
    BY <1>4 DEF RunDies, IInv, HeldInv, SnapshotInv, PassedInv, HashInv, StagedInv, FetchInv
  <1>5. ASSUME UNCHANGED vars PROVE Kept
    BY <1>5 DEF vars, runVars, IInv, HeldInv, SnapshotInv, PassedInv, HashInv, StagedInv, FetchInv
  <1>6. ASSUME NEW k \in Keys, NEW v \in 0..MaxVersion, Change(k, v) PROVE Kept
    BY <1>6, ChangeKeeps
  <1>7. ASSUME NEW b \in SUBSET todo, Download(b) PROVE Kept
    BY <1>7, DownloadKeeps
  <1>8. ASSUME ScanBatch \/ FullBatch \/ Compare \/ Apply \/ FullSwap PROVE Kept
    BY <1>8, ScanBatchKeeps, FullBatchKeeps, CompareKeeps, CommitKeeps
  <1> HIDE DEF Kept
  <1>9. Kept
    BY <1>2, <1>3, <1>4, <1>5, <1>6, <1>7, <1>8 DEF Next, Progress
  <1> QED
    BY <1>1, <1>9 DEF IInv, Kept

LEMMA HashDiffInvariant == Spec => []IInv
  BY HashDiffInit, HashDiffStep, PTL DEF Spec

-----------------------------------------------------------------------------
(* Every variable keeps its type: the position of the scan stays among the *)
(* keys, and what is staged and stored are rows with their hashes.         *)
THEOREM HashDiffTypeCorrect == Spec => []TypeOK
  <1>1. IInv => TypeOK
    BY DEF IInv
  <1> QED
    BY <1>1, HashDiffInvariant, PTL

(* Nothing is marked as deleted that was in the source all along, however  *)
(* the source changes under the scan and wherever the scan fails.          *)
THEOREM DeletionsAreTrue == Spec => NoFalseDeletion
  <1> DEFINE Marks == \A k \in Keys :
                 target'[k].deleted /\ ~target[k].deleted => 0 \in held[k]
  <1>1. ASSUME IInv, [Next]_vars PROVE [Marks]_vars
    <2>1. CASE Apply
      <3>1. \A k \in Keys : k \notin Scanned => 0 \in held[k]
        BY <1>1, <2>1 DEF IInv, PassedInv, Scanned, Apply
      <3> QED
        BY <1>1, <2>1, <3>1, ApplyLeaves
    <2>2. CASE FullSwap
      BY <1>1, <2>2 DEF IInv, StagedInv, FullSwap
    <2>3. CASE UNCHANGED target
      BY <2>3
    <2> QED
      BY <1>1, <2>1, <2>2, <2>3 DEF Next, Progress, vars, Change, StartRun, ScanBatch, Compare,
         CompareDrifted, FallBack, ScanFails, Download, FullBatch, RunDies, runVars
  <1> QED
    BY <1>1, HashDiffInvariant, PTL DEF Spec, NoFalseDeletion

(* A committed run, of the comparison or of the full load, leaves every    *)
(* row that was in the source all along in the target, as it was at some   *)
(* moment of the run: a matching hash is never stale, and a row that       *)
(* changes between its scan and its download is still brought.             *)
THEOREM CommittedRunIsComplete == Spec => RunBringsRows
  <1> DEFINE Brings == Apply \/ FullSwap =>
                 \A k \in Keys : 0 \notin held[k] =>
                     target'[k].v \in held[k] /\ ~target'[k].deleted
  <1>1. ASSUME IInv, Apply, NEW k \in Keys, 0 \notin held[k]
        PROVE  target'[k].v \in held[k] /\ ~target'[k].deleted
    <2>1. k \in Scanned /\ snapshot[k] # NoHash
      BY <1>1 DEF IInv, PassedInv, Scanned, Apply
    <2>2. Merged[k].v # 0 /\ Merged[k].v \in held[k]
      <3>1. CASE staged[k].v # 0
        BY <1>1, <3>1 DEF IInv, StagedInv, Merged, Apply
      <3>2. CASE staged[k].v = 0
        <4>1. target[k].v # 0 /\ target[k].hash = snapshot[k]
          BY <1>1, <3>2 DEF IInv, FetchInv, Apply
        <4>2. target[k].hash.v = target[k].v
          BY <1>1, <2>1, <4>1 DEF IInv, HashInv
        <4>3. snapshot[k].v \in held[k]
          BY <1>1, <2>1 DEF IInv, SnapshotInv, Apply
        <4> QED
          BY <3>2, <4>1, <4>2, <4>3 DEF Merged
      <3> QED
        BY <3>1, <3>2
    <2> QED
      BY <1>1, <2>1, <2>2, ApplyLeaves
  <1>2. ASSUME IInv, FullSwap, NEW k \in Keys, 0 \notin held[k]
        PROVE  target'[k].v \in held[k] /\ ~target'[k].deleted
    <2>1. k <= pos
      BY <1>2 DEF IInv, HeldInv, FullSwap, NothingLeft, Live
    <2>2. staged[k].v # 0
      BY <1>2, <2>1 DEF IInv, PassedInv, FullSwap
    <2> QED
      BY <1>2, <2>2 DEF IInv, StagedInv, FullSwap
  <1>3. IInv => Brings
    BY <1>1, <1>2
  <1> QED
    BY <1>3, HashDiffInvariant, PTL DEF Spec, RunBringsRows

-----------------------------------------------------------------------------
(* The golden test.                                                        *)

(* A sequence of whatever it holds.                                        *)
IsSequence(s) == s \in Seq(ToSet(s))

(* How far the comparison is says how many levels there are.               *)
PlaceInv ==
    /\ IsSequence(levels) /\ Len(levels) <= 5
    /\ \A i \in 1..Len(levels) : levels[i].level = i
    /\ pc \in {"existence", "count", "next", "exit", "broken"} => levels = <<>>
    /\ pc \in {"columns", "names"} => Len(levels) = 1
    /\ pc = "types" => Len(levels) = 2
    /\ pc = "checksums" => Len(levels) = 3
    /\ pc \in {"rows", "samples"} => Len(levels) = 4
    /\ pc = "done" /\ ~error => Len(levels) = 5
    /\ pc \in {"existence", "count", "columns", "names", "types", "checksums", "rows",
               "samples", "done", "next", "exit", "broken"}
    /\ error => pc = "done"
    /\ arrivals \in 0..MaxArrivals
    /\ verdicts \in Seq(Verdicts) /\ Len(verdicts) <= Entries
    /\ pc # "exit" => Len(verdicts) < Entries

(* The pair is one of tables, until a pipeline replaces the right one.     *)
PairInv ==
    pc \notin {"next", "exit", "broken"} =>
        /\ IsLayout(left) /\ IsSequence(left.rows)
        /\ arrivals = 0 => IsLayout(right) /\ IsSequence(right.rows)

(* Both tables were there, as far as the report goes.                      *)
BothThere == pc = "names" \/ (Len(levels) >= 2 /\ levels[1].passed)

(* What the catalogue has answered is what the tables are.                 *)
SeenInv ==
    /\ BothThere => seen.leftCols = left.cols /\ seen.leftTypes = left.types
    /\ BothThere /\ arrivals = 0 => seen.rightCols = right.cols /\ seen.rightTypes = right.types

(* What a level says is what there is to say of the tables.                *)
FoundInv ==
    /\ Len(levels) >= 1 => ~levels[1].skipped
    /\ Len(levels) >= 1 /\ levels[1].passed /\ arrivals = 0 => Len(left.rows) = Len(right.rows)
    /\ Len(levels) >= 2 /\ levels[1].passed =>
          levels[2] = AcceptDeviations(2, NameDifferences(seen.leftCols, seen.rightCols))
    /\ Len(levels) >= 3 /\ levels[1].passed => levels[3] = AcceptDeviations(3, TypeDifferences)
    /\ Len(levels) = 5 /\ levels[1].passed /\ levels[5].passed /\ ~levels[5].skipped
          /\ arrivals = 0 => RowsAgree /\ ToSet(KeyColumns) \subseteq Common

ErrorInv == error \in BOOLEAN

GoldenInv == ErrorInv /\ PlaceInv /\ PairInv /\ SeenInv /\ FoundInv

-----------------------------------------------------------------------------
(* Sequences, and the levels.                                              *)

(* The elements of a sequence.                                             *)
LEMMA SequenceIs ==
    ASSUME NEW s, IsSequence(s)
    PROVE /\ Len(s) \in Nat /\ DOMAIN s = 1..Len(s)
          /\ \A e : e \in ToSet(s) <=> \E i \in 1..Len(s) : s[i] = e
  <1>1. Len(s) \in Nat /\ DOMAIN s = 1..Len(s)
    BY DEF IsSequence
  <1> QED
    BY <1>1 DEF ToSet

(* A function on 1..n is a sequence.                                       *)
LEMMA IsOne ==
    ASSUME NEW S, NEW s \in Seq(S)
    PROVE IsSequence(s)
  <1>1. Len(s) \in Nat /\ s \in [1..Len(s) -> S] /\ DOMAIN s = 1..Len(s)
    OBVIOUS
  <1>2. \A i \in 1..Len(s) : s[i] \in ToSet(s)
    BY <1>1 DEF ToSet
  <1>3. s \in [1..Len(s) -> ToSet(s)]
    BY <1>1, <1>2
  <1> QED
    BY <1>1, <1>3 DEF IsSequence

(* A sequence with one more element.                                       *)
LEMMA OneMore ==
    ASSUME NEW s, IsSequence(s), NEW e
    PROVE LET t == Append(s, e)
          IN  /\ IsSequence(t) /\ Len(t) = Len(s) + 1 /\ t[Len(s) + 1] = e
              /\ \A i \in 1..Len(s) : t[i] = s[i]
  <1> DEFINE S == ToSet(s) \cup {e}
             t == Append(s, e)
  <1>1. s \in Seq(S) /\ e \in S
    BY DEF IsSequence
  <1>2. t \in Seq(S) /\ Len(t) = Len(s) + 1 /\ t[Len(s) + 1] = e
        /\ \A i \in 1..Len(s) : t[i] = s[i]
    BY <1>1
  <1> QED
    BY <1>2, IsOne

(* A table that is missing ends the report: level 1 has failed, the others *)
(* are left out.                                                           *)
LEMMA MissingTable ==
    LET t == <<Failed(1)>> \o [i \in 1..4 |-> [Skipped(i + 1) EXCEPT !.passed = FALSE]]
    IN  /\ IsSequence(t) /\ Len(t) = 5 /\ ~t[1].passed /\ ~t[1].skipped
        /\ \A i \in 1..5 : t[i].level = i
  <1> DEFINE rest == [i \in 1..4 |-> [Skipped(i + 1) EXCEPT !.passed = FALSE]]
             S == {Failed(1)} \cup {rest[i] : i \in 1..4}
             one == <<Failed(1)>>
             t == one \o rest
  <1>1. /\ rest \in Seq(S) /\ Len(rest) = 4
        /\ one \in Seq(S) /\ Len(one) = 1 /\ one[1] = Failed(1)
    OBVIOUS
  <1>2. /\ t \in Seq(S) /\ Len(t) = 5 /\ t[1] = Failed(1)
        /\ \A i \in 2..5 : t[i] = [Skipped(i) EXCEPT !.passed = FALSE]
    <2>1. \A i \in 1..4 : rest[i] = [Skipped(i + 1) EXCEPT !.passed = FALSE]
      OBVIOUS
    <2> HIDE DEF rest, S, one
    <2>2. /\ t \in Seq(S) /\ Len(t) = 5
          /\ \A i \in 1..5 : t[i] = IF i <= 1 THEN one[i] ELSE rest[i - 1]
      <3>1. one \in Seq(S) /\ rest \in Seq(S) /\ Len(one) = 1 /\ Len(rest) = 4
        BY <1>1
      <3>2. /\ t \in Seq(S) /\ Len(t) = Len(one) + Len(rest)
            /\ \A i \in 1..Len(one) + Len(rest) :
                  t[i] = IF i <= Len(one) THEN one[i] ELSE rest[i - Len(one)]
        BY <3>1, ConcatProperties
      <3> QED
        BY <3>1, <3>2
    <2>3. t[1] = Failed(1)
      BY <1>1, <2>2
    <2>4. \A i \in 2..5 : i - 1 \in 1..4 /\ t[i] = rest[i - 1] /\ (i - 1) + 1 = i
      BY <2>2
    <2> QED
      BY <2>1, <2>2, <2>3, <2>4
  <1> HIDE DEF t
  <1>3. IsSequence(t)
    BY <1>2, IsOne
  <1>4. ~t[1].passed /\ ~t[1].skipped /\ \A i \in 1..5 : t[i].level = i
    <2>1. t[1].level = 1 /\ ~t[1].passed /\ ~t[1].skipped
      BY <1>2 DEF Failed, Passed
    <2>2. \A i \in 2..5 : t[i].level = i
      BY <1>2 DEF Skipped, Passed
    <2> QED
      BY <2>1, <2>2
  <1> QED
    BY <1>2, <1>3, <1>4 DEF t

(* What a level says is of that level.                                     *)
LEMMA OfItsLevel ==
    ASSUME NEW n, NEW differences
    PROVE /\ Passed(n).level = n /\ Passed(n).passed /\ ~Passed(n).skipped
          /\ Failed(n).level = n /\ ~Failed(n).passed /\ ~Failed(n).skipped
          /\ Skipped(n).level = n /\ Skipped(n).skipped
          /\ AcceptDeviations(n, differences).level = n
  BY DEF Passed, Failed, Skipped, AcceptDeviations

(* A set of levels has a first one.                                        *)
LEMMA FirstOfSome ==
    ASSUME NEW S \in SUBSET (1..5), S # {}
    PROVE Min(S) \in S
  <1>1. \E x \in S : \A y \in S : x =< y
    <2>1. CASE 1 \in S
      BY <2>1
    <2>2. CASE 1 \notin S /\ 2 \in S
      BY <2>2
    <2>3. CASE 1 \notin S /\ 2 \notin S /\ 3 \in S
      BY <2>3
    <2>4. CASE 1 \notin S /\ 2 \notin S /\ 3 \notin S /\ 4 \in S
      BY <2>4
    <2>5. CASE S \subseteq {5}
      <3>1. 5 \in S /\ \A y \in S : y = 5
        BY <2>5
      <3> QED
        BY <3>1
    <2>6. 1 \in S \/ 2 \in S \/ 3 \in S \/ 4 \in S \/ S \subseteq {5}
      <3>1. \A x \in S : x = 1 \/ x = 2 \/ x = 3 \/ x = 4 \/ x = 5
        OBVIOUS
      <3> QED
        BY <3>1
    <2> QED
      BY <2>1, <2>2, <2>3, <2>4, <2>5, <2>6
  <1> QED
    BY <1>1 DEF Min

(* No failed level, and all of them have passed or were left out.          *)
LEMMA NoneFailed ==
    ASSUME PlaceInv, FirstFailedLevel(levels) = 0, NEW i \in 1..Len(levels)
    PROVE levels[i].passed \/ levels[i].skipped
  <1> DEFINE broken == {r \in ToSet(levels) : ~r.passed /\ ~r.skipped}
             S == {r.level : r \in broken}
  <1>1. Len(levels) \in Nat /\ DOMAIN levels = 1..Len(levels)
    BY SequenceIs DEF PlaceInv
  <1>2. S \subseteq 1..5
    <2> SUFFICES ASSUME NEW r \in broken PROVE r.level \in 1..5
      OBVIOUS
    <2>1. IsSequence(levels) /\ r \in ToSet(levels)
      BY DEF PlaceInv
    <2>2. PICK n \in 1..Len(levels) : levels[n] = r
      BY <2>1, SequenceIs
    <2>3. Len(levels) <= 5 /\ levels[n].level = n
      BY DEF PlaceInv
    <2> QED
      BY <1>1, <2>2, <2>3
  <1>3. broken = {}
    <2> SUFFICES ASSUME broken # {} PROVE FALSE
      OBVIOUS
    <2>1. S # {}
      OBVIOUS
    <2>2. Min(S) \in 1..5
      BY <1>2, <2>1, FirstOfSome
    <2> QED
      BY <2>2 DEF FirstFailedLevel
  <1> QED
    BY <1>1, <1>3 DEF ToSet

(* A pair has one of four verdicts.                                        *)
LEMMA OneVerdict == Verdict \in Verdicts
  BY DEF Verdict, Verdicts

-----------------------------------------------------------------------------
(* Step by step.                                                           *)

(* No level yet.                                                           *)
LEMMA Empty == Len(<<>>) = 0
  OBVIOUS

(* A level is reported in its place.                                       *)
LEMMA InItsPlace ==
    ASSUME PlaceInv, NEW result, Len(levels) < 5, result.level = Len(levels) + 1,
           levels' = Append(levels, result)
    PROVE /\ IsSequence(levels') /\ Len(levels') = Len(levels) + 1 /\ Len(levels) \in Nat
          /\ \A i \in 1..Len(levels') : levels'[i].level = i
          /\ \A i \in 1..Len(levels) : levels'[i] = levels[i]
          /\ levels'[Len(levels) + 1] = result
  <1>1. IsSequence(levels) /\ \A i \in 1..Len(levels) : levels[i].level = i
    BY DEF PlaceInv
  <1>2. Len(levels) \in Nat
    BY <1>1, SequenceIs
  <1>3. /\ IsSequence(levels') /\ Len(levels') = Len(levels) + 1
        /\ \A i \in 1..Len(levels) : levels'[i] = levels[i]
        /\ levels'[Len(levels) + 1] = result
    BY <1>1, OneMore
  <1>4. ASSUME NEW i \in 1..Len(levels') PROVE levels'[i].level = i
    <2>1. i \in 1..Len(levels) \/ i = Len(levels) + 1
      BY <1>2, <1>3
    <2> QED
      BY <1>1, <1>3, <2>1
  <1> QED
    BY <1>2, <1>3, <1>4

(* What the levels are about stays the same with the tables.               *)
LEMMA SameTables ==
    ASSUME UNCHANGED <<left, right, options, seen>>
    PROVE /\ TypeDifferences' = TypeDifferences /\ (RowsAgree <=> RowsAgree')
          /\ KeyColumns' = KeyColumns /\ Common' = Common
  BY DEF TypeDifferences, RowsAgree, KeyColumns, Common, SameType, SameKey, StoredDiffers,
     ContentDiffers, Payload, Stored, Comparable, TypeMismatch, TextCoerced

(* The two tables of the manifest's next entry.                            *)
LEMMA PairIsPaired ==
    ASSUME NEW case \in Cases, NEW l \in LeftRows, NEW r \in RightRows
    PROVE /\ IsLayout(Table(case.left, l)) /\ IsSequence(Table(case.left, l).rows)
          /\ IsLayout(Table(case.right, r)) /\ IsSequence(Table(case.right, r).rows)
  BY GoldenAssumption DEF GoldenAssumption, IsLayout, IsSequence, Table

(* Before the first pair.                                                  *)
LEMMA GoldenStarts == GoldenInit => GoldenInv
  <1> SUFFICES ASSUME GoldenInit PROVE GoldenInv
    OBVIOUS
  <1>1. IsSequence(<<>>) /\ Len(<<>>) = 0 /\ <<>> \in Seq(Verdicts)
    <2>1. <<>> \in Seq(Verdicts)
      OBVIOUS
    <2> QED
      BY <2>1, IsOne
  <1>2. PlaceInv
    BY <1>1, GoldenAssumption DEF GoldenAssumption, GoldenInit, PlaceInv
  <1>3. PairInv
    BY DEF GoldenInit, PairInv
  <1>4. SeenInv /\ FoundInv
    BY <1>1 DEF GoldenInit, SeenInv, FoundInv, BothThere
  <1>5. ErrorInv
    BY DEF GoldenInit, ErrorInv
  <1> QED
    BY <1>2, <1>3, <1>4, <1>5 DEF GoldenInv

(* Level 1, when a table is missing: the others are left out.              *)
LEMMA ExistenceKeeps == ASSUME GoldenInv, Existence PROVE GoldenInv'
  <1> DEFINE missing == <<Failed(1)>> \o
                          [i \in 1..4 |-> [Skipped(i + 1) EXCEPT !.passed = FALSE]]
  <1>1. /\ pc = "existence" /\ UNCHANGED <<left, right, options, verdicts, arrivals, seen, error>>
        /\ pc' \in {"count", "done"}
    BY DEF Existence, TablesAlone
  <1>0. \/ pc' = "count" /\ levels' = levels
        \/ pc' = "done" /\ levels' = missing
    BY Zenon DEF Existence
  <1>2. /\ IsSequence(missing) /\ Len(missing) = 5 /\ ~missing[1].passed /\ ~missing[1].skipped
        /\ \A i \in 1..5 : missing[i].level = i
    BY MissingTable
  <1> HIDE DEF missing
  <1>3. Len(levels) = 0
    BY <1>1, Empty DEF GoldenInv, PlaceInv
  <1>4. PlaceInv'
    <2>1. CASE pc' = "count" /\ levels' = levels
      BY <1>1, <2>1 DEF GoldenInv, PlaceInv
    <2>2. CASE pc' = "done" /\ levels' = missing
      <3>1. IsSequence(levels') /\ Len(levels') = 5 /\ \A i \in 1..5 : levels'[i].level = i
        BY <1>2, <2>2
      <3>2. pc' = "done"
        BY <2>2
      <3> QED
        BY <1>1, <3>1, <3>2 DEF GoldenInv, PlaceInv
    <2> QED
      BY <1>0, <2>1, <2>2
  <1>5. PairInv'
    BY <1>1 DEF GoldenInv, PairInv, IsLayout, IsSequence
  <1>6. /\ ~BothThere' /\ Len(levels') \in {0, 5}
        /\ Len(levels') = 5 => ~levels'[1].passed /\ ~levels'[1].skipped
    <2>1. /\ Len(levels') \in {0, 5}
          /\ Len(levels') = 5 => ~levels'[1].passed /\ ~levels'[1].skipped
      BY <1>0, <1>2, <1>3
    <2> QED
      BY <1>1, <2>1 DEF BothThere
  <1>7. SeenInv' /\ FoundInv'
    BY <1>6 DEF SeenInv, FoundInv
  <1> QED
    BY <1>1, <1>4, <1>5, <1>7 DEF GoldenInv, ErrorInv

(* Level 1, the number of rows.                                            *)
LEMMA RowCountKeeps == ASSUME GoldenInv, RowCount PROVE GoldenInv'
  <1> DEFINE result == IF Len(left.rows) = Len(right.rows) THEN Passed(1) ELSE Failed(1)
  <1>1. /\ pc = "count" /\ UNCHANGED <<left, right, options, verdicts, arrivals, seen, error>>
        /\ pc' = "columns"
    BY DEF RowCount, TablesAlone, Goto
  <1>0. levels' = Append(levels, result)
    BY DEF RowCount, Goto
  <1>2. Len(levels) = 0
    BY <1>1, Empty DEF GoldenInv, PlaceInv
  <1>3. /\ result.level = 1 /\ ~result.skipped
        /\ result.passed => Len(left.rows) = Len(right.rows)
    BY OfItsLevel
  <1> HIDE DEF result
  <1>4. /\ IsSequence(levels') /\ Len(levels') = 1 /\ levels'[1] = result
        /\ \A i \in 1..Len(levels') : levels'[i].level = i
    <2>1. PlaceInv /\ Len(levels) < 5 /\ result.level = Len(levels) + 1
      BY <1>2, <1>3 DEF GoldenInv
    <2> QED
      BY <1>0, <1>2, <2>1, InItsPlace
  <1>5. PlaceInv'
    BY <1>1, <1>4 DEF GoldenInv, PlaceInv
  <1>6. PairInv'
    BY <1>1 DEF GoldenInv, PairInv, IsLayout, IsSequence
  <1>7. ~BothThere'
    BY <1>1, <1>4 DEF BothThere
  <1>8. SeenInv' /\ FoundInv'
    BY <1>1, <1>3, <1>4, <1>7 DEF SeenInv, FoundInv
  <1> QED
    BY <1>1, <1>5, <1>6, <1>8 DEF GoldenInv, ErrorInv

(* The catalogue is asked.                                                 *)
LEMMA ColumnsKeep == ASSUME GoldenInv, Columns PROVE GoldenInv'
  <1>1. /\ pc = "columns" /\ UNCHANGED <<left, right, options, verdicts, arrivals, levels, error>>
        /\ pc' = "names" /\ Len(levels) = 1
        /\ seen' = [leftCols |-> left.cols, leftTypes |-> left.types,
                    rightCols |-> right.cols, rightTypes |-> right.types]
    BY DEF Columns, TablesAlone, GoldenInv, PlaceInv
  <1>2. PlaceInv'
    BY <1>1 DEF GoldenInv, PlaceInv, IsSequence
  <1>3. PairInv'
    BY <1>1 DEF GoldenInv, PairInv, IsLayout, IsSequence
  <1>4. SeenInv' /\ FoundInv'
    BY <1>1 DEF GoldenInv, SeenInv, FoundInv
  <1> QED
    BY <1>1, <1>2, <1>3, <1>4 DEF GoldenInv, ErrorInv

(* Levels 2 and 3, the columns.                                            *)
LEMMA ColumnNamesKeep == ASSUME GoldenInv, ColumnNames PROVE GoldenInv'
  <1> DEFINE result == AcceptDeviations(2, NameDifferences(seen.leftCols, seen.rightCols))
  <1>1. /\ pc = "names" /\ UNCHANGED <<left, right, options, verdicts, arrivals, seen, error>>
        /\ pc' = "types"
    BY DEF ColumnNames, TablesAlone, Goto
  <1>2. levels' = Append(levels, result)
    BY DEF ColumnNames, Goto
  <1>3. Len(levels) = 1 /\ result.level = 2
    BY <1>1, OfItsLevel DEF GoldenInv, PlaceInv
  <1>4. seen' = seen
    BY <1>1
  <1> HIDE DEF result
  <1>5. /\ IsSequence(levels') /\ Len(levels') = 2
        /\ levels'[1] = levels[1] /\ levels'[2] = result
        /\ \A i \in 1..Len(levels') : levels'[i].level = i
    <2>1. PlaceInv /\ Len(levels) < 5 /\ result.level = Len(levels) + 1
      BY <1>3 DEF GoldenInv
    <2> QED
      BY <1>2, <1>3, <2>1, InItsPlace
  <1>6. PlaceInv'
    BY <1>1, <1>5 DEF GoldenInv, PlaceInv
  <1>7. PairInv'
    BY <1>1 DEF GoldenInv, PairInv, IsLayout, IsSequence
  <1>8. SeenInv'
    BY <1>1 DEF GoldenInv, SeenInv, BothThere
  <1>9. FoundInv'
    BY <1>1, <1>3, <1>5 DEF GoldenInv, FoundInv, result
  <1> QED
    BY <1>1, <1>6, <1>7, <1>8, <1>9 DEF GoldenInv, ErrorInv

LEMMA ColumnTypesKeep == ASSUME GoldenInv, ColumnTypes PROVE GoldenInv'
  <1> DEFINE result == AcceptDeviations(3, TypeDifferences)
  <1>1. /\ pc = "types" /\ UNCHANGED <<left, right, options, verdicts, arrivals, seen, error>>
        /\ pc' = "checksums"
    BY DEF ColumnTypes, TablesAlone, Goto
  <1>2. levels' = Append(levels, result)
    BY DEF ColumnTypes, Goto
  <1>3. Len(levels) = 2 /\ result.level = 3
    BY <1>1, OfItsLevel DEF GoldenInv, PlaceInv
  <1>4. TypeDifferences' = TypeDifferences
    BY <1>1, SameTables
  <1> HIDE DEF result
  <1>5. /\ IsSequence(levels') /\ Len(levels') = 3
        /\ levels'[1] = levels[1] /\ levels'[2] = levels[2] /\ levels'[3] = result
        /\ \A i \in 1..Len(levels') : levels'[i].level = i
    <2>1. PlaceInv /\ Len(levels) < 5 /\ result.level = Len(levels) + 1
      BY <1>3 DEF GoldenInv
    <2> QED
      BY <1>2, <1>3, <2>1, InItsPlace
  <1>6. PlaceInv'
    BY <1>1, <1>5 DEF GoldenInv, PlaceInv
  <1>7. PairInv'
    BY <1>1 DEF GoldenInv, PairInv, IsLayout, IsSequence
  <1>8. SeenInv'
    BY <1>1, <1>3, <1>5 DEF GoldenInv, SeenInv, BothThere
  <1>9. FoundInv'
    BY <1>1, <1>3, <1>4, <1>5 DEF GoldenInv, FoundInv, result
  <1> QED
    BY <1>1, <1>6, <1>7, <1>8, <1>9 DEF GoldenInv, ErrorInv

(* Level 4: a checksum says nothing the others rest on.                    *)
LEMMA ChecksumsKeep == ASSUME GoldenInv, Checksums PROVE GoldenInv'
  <1>1. /\ pc = "checksums" /\ UNCHANGED <<left, right, options, verdicts, arrivals, seen, error>>
        /\ pc' = "rows"
    BY DEF Checksums, TablesAlone, Goto
  <1>2. PICK result : levels' = Append(levels, result) /\ result.level = 4
    <2> DEFINE agree == \A c \in Comparable : Checksum(left, c) = Checksum(right, c)
               full == [Passed(4) EXCEPT !.passed = agree, !.approximate = TextCoerced # {}]
    <2>1. levels' = Append(levels, Skipped(4)) \/ levels' = Append(levels, full)
      BY Zenon DEF Checksums, Goto
    <2>2. full.level = 4
      BY DEF Passed
    <2> HIDE DEF full
    <2> QED
      BY <2>1, <2>2, OfItsLevel
  <1>3. Len(levels) = 3
    BY <1>1 DEF GoldenInv, PlaceInv
  <1>4. TypeDifferences' = TypeDifferences
    BY <1>1, SameTables
  <1>5. /\ IsSequence(levels') /\ Len(levels') = 4
        /\ levels'[1] = levels[1] /\ levels'[2] = levels[2] /\ levels'[3] = levels[3]
        /\ \A i \in 1..Len(levels') : levels'[i].level = i
    <2>1. PlaceInv /\ Len(levels) < 5 /\ result.level = Len(levels) + 1
      BY <1>2, <1>3 DEF GoldenInv
    <2> QED
      BY <1>2, <1>3, <2>1, InItsPlace
  <1>6. PlaceInv'
    BY <1>1, <1>5 DEF GoldenInv, PlaceInv
  <1>7. PairInv'
    BY <1>1 DEF GoldenInv, PairInv, IsLayout, IsSequence
  <1>8. SeenInv'
    BY <1>1, <1>3, <1>5 DEF GoldenInv, SeenInv, BothThere
  <1>9. FoundInv'
    BY <1>1, <1>3, <1>4, <1>5 DEF GoldenInv, FoundInv
  <1> QED
    BY <1>1, <1>6, <1>7, <1>8, <1>9 DEF GoldenInv, ErrorInv

(* Level 5, and the sample of a pair that differs.                         *)
LEMMA RowHashesKeep == ASSUME GoldenInv, RowHashes PROVE GoldenInv'
  <1> DEFINE full == [Passed(5) EXCEPT !.passed = RowsAgree,
                                       !.approximate = Payload = {} \/ TextCoerced # {}]
  <1>1. /\ pc = "rows" /\ UNCHANGED <<left, right, options, verdicts, arrivals, seen, error>>
    BY DEF RowHashes, TablesAlone
  <1>2. Len(levels) = 4
    BY <1>1 DEF GoldenInv, PlaceInv
  <1>3. \/ pc' = "samples" /\ levels' = levels
        \/ pc' = "done" /\ levels' = Append(levels, Skipped(5))
        \/ pc' = "done" /\ levels' = Append(levels, full) /\ RowsAgree /\ ~RowLevelSkipped
    <2> HIDE DEF full
    <2>1. \/ levels' = Append(levels, Skipped(5)) /\ pc' = "done"
          \/ /\ ~RowLevelSkipped
             /\ IF RowsAgree THEN levels' = Append(levels, full) /\ pc' = "done"
                ELSE pc' = "samples" /\ UNCHANGED levels
      BY Zenon DEF RowHashes, Goto, full
    <2> QED
      BY Zenon, <2>1
  <1>4. full.level = 5
    BY DEF Passed
  <1> HIDE DEF full
  <1>5. TypeDifferences' = TypeDifferences /\ (RowsAgree => RowsAgree')
        /\ KeyColumns' = KeyColumns /\ Common' = Common
    BY <1>1, SameTables
  <1>6. ErrorInv' /\ PairInv'
    BY <1>1 DEF GoldenInv, ErrorInv, PairInv, IsLayout, IsSequence
  <1>7. CASE pc' = "samples" /\ levels' = levels
    <2>1. PlaceInv'
      BY <1>1, <1>7 DEF GoldenInv, PlaceInv
    <2>2. SeenInv'
      BY <1>1, <1>7 DEF GoldenInv, SeenInv, BothThere
    <2>3. FoundInv'
      BY <1>1, <1>2, <1>5, <1>7 DEF GoldenInv, FoundInv
    <2> QED
      BY <1>6, <2>1, <2>2, <2>3 DEF GoldenInv
  <1>8. ASSUME NEW result, levels' = Append(levels, result), result.level = 5, pc' = "done",
               result.skipped \/ (RowsAgree /\ ~RowLevelSkipped)
        PROVE GoldenInv'
    <2>1. /\ IsSequence(levels') /\ Len(levels') = 5 /\ levels'[5] = result
          /\ levels'[1] = levels[1] /\ levels'[2] = levels[2] /\ levels'[3] = levels[3]
          /\ \A i \in 1..Len(levels') : levels'[i].level = i
      <3>1. PlaceInv /\ Len(levels) < 5 /\ result.level = Len(levels) + 1
        BY <1>2, <1>8 DEF GoldenInv
      <3> QED
        BY <1>2, <1>8, <3>1, InItsPlace
    <2>2. pc' = "done"
      BY <1>8
    <2>3. PlaceInv'
      BY <1>1, <2>1, <2>2 DEF GoldenInv, PlaceInv
    <2>4. SeenInv'
      BY <1>1, <1>2, <2>1, <2>2 DEF GoldenInv, SeenInv, BothThere
    <2>5. result.skipped \/ (RowsAgree /\ ToSet(KeyColumns) \subseteq Common)
      BY <1>8 DEF RowLevelSkipped
    <2>6. FoundInv'
      BY <1>1, <1>2, <1>5, <2>1, <2>5 DEF GoldenInv, FoundInv
    <2> QED
      BY <1>6, <2>3, <2>4, <2>6 DEF GoldenInv
  <1> QED
    BY <1>3, <1>4, <1>7, <1>8, OfItsLevel

LEMMA SamplesKeep == ASSUME GoldenInv, Samples PROVE GoldenInv'
  <1> DEFINE result == [Failed(5) EXCEPT !.approximate = Payload = {} \/ TextCoerced # {}]
  <1>1. /\ pc = "samples" /\ UNCHANGED <<left, right, options, verdicts, arrivals, seen, error>>
        /\ pc' = "done"
    BY DEF Samples, TablesAlone, Goto
  <1>2. levels' = Append(levels, result)
    BY Zenon DEF Samples, Goto
  <1>3. Len(levels) = 4 /\ result.level = 5 /\ ~result.passed
    <2>1. Len(levels) = 4
      BY <1>1 DEF GoldenInv, PlaceInv
    <2>2. result.level = 5 /\ ~result.passed
      BY DEF Failed, Passed
    <2> QED
      BY <2>1, <2>2
  <1> HIDE DEF result
  <1>4. TypeDifferences' = TypeDifferences
    BY <1>1, SameTables
  <1>5. /\ IsSequence(levels') /\ Len(levels') = 5 /\ levels'[5] = result
        /\ levels'[1] = levels[1] /\ levels'[2] = levels[2] /\ levels'[3] = levels[3]
        /\ \A i \in 1..Len(levels') : levels'[i].level = i
    <2>1. PlaceInv /\ Len(levels) < 5 /\ result.level = Len(levels) + 1
      BY <1>3 DEF GoldenInv
    <2> QED
      BY <1>2, <1>3, <2>1, InItsPlace
  <1>6. PlaceInv'
    BY <1>1, <1>5 DEF GoldenInv, PlaceInv
  <1>7. PairInv'
    BY <1>1 DEF GoldenInv, PairInv, IsLayout, IsSequence
  <1>8. SeenInv'
    BY <1>1, <1>3, <1>5 DEF GoldenInv, SeenInv, BothThere
  <1>9. FoundInv'
    BY <1>1, <1>3, <1>4, <1>5 DEF GoldenInv, FoundInv
  <1> QED
    BY <1>1, <1>6, <1>7, <1>8, <1>9 DEF GoldenInv, ErrorInv

(* A statement that fails leaves the levels there are.                     *)
LEMMA QueryFailsKeeps == ASSUME GoldenInv, QueryFails PROVE GoldenInv'
  <1>1. /\ pc \in {"existence", "count", "columns", "checksums", "rows", "samples"}
        /\ UNCHANGED <<left, right, options, verdicts, arrivals, seen, levels>>
        /\ pc' = "done"
    BY DEF QueryFails, TablesAlone
  <1>2. error'
    BY DEF QueryFails
  <1>3. ErrorInv'
    BY DEF QueryFails, ErrorInv
  <1>4. TypeDifferences' = TypeDifferences
    BY <1>1, SameTables
  <1>5. PlaceInv'
    BY <1>1, <1>2 DEF GoldenInv, PlaceInv
  <1>6. PairInv'
    BY <1>1 DEF GoldenInv, PairInv, IsLayout, IsSequence
  <1>7. SeenInv'
    BY <1>1 DEF GoldenInv, SeenInv, BothThere
  <1>8. FoundInv'
    <2>1. Len(levels) < 5
      BY <1>1, Empty DEF GoldenInv, PlaceInv
    <2> QED
      BY <1>1, <1>4, <2>1 DEF GoldenInv, FoundInv
  <1> QED
    BY <1>3, <1>5, <1>6, <1>7, <1>8 DEF GoldenInv

(* The verdict joins the others, and the batch goes on or ends.            *)
LEMMA ReportKeeps == ASSUME GoldenInv, Report PROVE GoldenInv'
  <1>1. /\ pc = "done" /\ levels' = <<>> /\ error' = FALSE /\ arrivals' = 0
        /\ verdicts' = Append(verdicts, Verdict)
        /\ pc' = IF Len(verdicts') < Entries THEN "next" ELSE "exit"
    BY DEF Report
  <1>2. /\ verdicts \in Seq(Verdicts) /\ Len(verdicts) < Entries /\ Entries \in Nat
    BY <1>1, GoldenAssumption DEF GoldenAssumption, GoldenInv, PlaceInv
  <1>3. verdicts' \in Seq(Verdicts) /\ Len(verdicts') = Len(verdicts) + 1
    BY <1>1, <1>2, OneVerdict, AppendProperties
  <1>4. IsSequence(levels') /\ Len(levels') = 0
    <2>1. <<>> \in Seq({}) /\ Len(<<>>) = 0
      OBVIOUS
    <2> QED
      BY <1>1, <2>1, IsOne
  <1>5. pc' \in {"next", "exit"} /\ (pc' = "next" => Len(verdicts') < Entries)
    BY <1>1
  <1>6. ~error' /\ levels' = <<>> /\ arrivals' \in 0..MaxArrivals
    BY <1>1, GoldenAssumption DEF GoldenAssumption
  <1>7. Len(verdicts') <= Entries /\ \A i \in 1..Len(levels') : levels'[i].level = i
    BY <1>2, <1>3, <1>4
  <1>8. PlaceInv'
    BY <1>3, <1>4, <1>5, <1>6, <1>7 DEF PlaceInv
  <1>9. PairInv' /\ SeenInv' /\ FoundInv'
    BY <1>4, <1>5 DEF PairInv, SeenInv, FoundInv, BothThere
  <1> QED
    BY <1>1, <1>8, <1>9 DEF GoldenInv, ErrorInv

(* The next pair.                                                          *)
LEMMA NextPairKeeps == ASSUME GoldenInv, NextPair PROVE GoldenInv'
  <1>1. /\ pc = "next" /\ pc' = "existence"
        /\ UNCHANGED <<seen, levels, error, verdicts, arrivals>>
    BY DEF NextPair
  <1>2. PlaceInv' /\ Len(levels) = 0
    BY <1>1, Empty DEF GoldenInv, PlaceInv
  <1>3. PairInv'
    <2>1. PICK case \in Cases, l \in LeftRows, r \in RightRows :
            left' = Table(case.left, l) /\ right' = Table(case.right, r)
      BY DEF NextPair
    <2>2. /\ IsLayout(left') /\ IsSequence(left'.rows)
          /\ IsLayout(right') /\ IsSequence(right'.rows)
      BY <2>1, PairIsPaired
    <2> QED
      BY <2>2 DEF PairInv, IsLayout, IsSequence
  <1>4. SeenInv' /\ FoundInv'
    BY <1>1, <1>2 DEF SeenInv, FoundInv, BothThere
  <1> QED
    BY <1>1, <1>2, <1>3, <1>4 DEF GoldenInv, ErrorInv

(* An entry that names no tables ends the batch.                           *)
LEMMA MalformedKeeps == ASSUME GoldenInv, MalformedEntry PROVE GoldenInv'
  <1>1. /\ pc = "next" /\ pc' = "broken" /\ Len(levels) = 0
        /\ UNCHANGED <<left, right, options, seen, levels, error, verdicts, arrivals>>
    BY Empty DEF MalformedEntry, GoldenInv, PlaceInv
  <1>2. PlaceInv'
    BY <1>1 DEF GoldenInv, PlaceInv
  <1>3. PairInv' /\ SeenInv' /\ FoundInv'
    BY <1>1 DEF PairInv, SeenInv, FoundInv, BothThere
  <1> QED
    BY <1>1, <1>2, <1>3 DEF GoldenInv, ErrorInv

(* A pipeline arrives: from here on the report is of more than one table.  *)
LEMMA ArriveKeeps == ASSUME GoldenInv, Arrive PROVE GoldenInv'
  <1>1. /\ UNCHANGED <<left, options, seen, levels, error, verdicts, pc>>
        /\ arrivals < MaxArrivals /\ arrivals' = arrivals + 1
    BY DEF Arrive
  <1>2. arrivals' \in 0..MaxArrivals /\ arrivals' # 0
    BY <1>1, GoldenAssumption DEF GoldenAssumption, GoldenInv, PlaceInv
  <1>3. TypeDifferences' = TypeDifferences
    BY <1>1 DEF TypeDifferences, Common, SameType
  <1>4. PlaceInv'
    BY <1>1, <1>2 DEF GoldenInv, PlaceInv
  <1>5. PairInv'
    BY <1>1, <1>2 DEF GoldenInv, PairInv, IsLayout, IsSequence
  <1>6. SeenInv'
    BY <1>1, <1>2 DEF GoldenInv, SeenInv, BothThere
  <1>7. FoundInv'
    BY <1>1, <1>2, <1>3 DEF GoldenInv, FoundInv
  <1> QED
    BY <1>1, <1>4, <1>5, <1>6, <1>7 DEF GoldenInv, ErrorInv

(* The steps together.                                                     *)
LEMMA GoldenInvariant == GoldenSpec => []GoldenInv
  <1>1. ASSUME GoldenInv, UNCHANGED goldenVars PROVE GoldenInv'
    <2>1. UNCHANGED <<left, right, options, seen, levels, error, verdicts, arrivals, pc>>
      BY <1>1 DEF goldenVars
    <2>2. TypeDifferences' = TypeDifferences /\ (RowsAgree => RowsAgree')
          /\ KeyColumns' = KeyColumns /\ Common' = Common
      BY <2>1, SameTables
    <2>3. PlaceInv'
      BY <1>1, <2>1 DEF GoldenInv, PlaceInv
    <2>4. PairInv'
      BY <1>1, <2>1 DEF GoldenInv, PairInv, IsLayout, IsSequence
    <2>5. SeenInv'
      BY <1>1, <2>1 DEF GoldenInv, SeenInv, BothThere
    <2>6. FoundInv'
      BY <1>1, <2>1, <2>2 DEF GoldenInv, FoundInv
    <2> QED
      BY <1>1, <2>1, <2>3, <2>4, <2>5, <2>6 DEF GoldenInv, ErrorInv
  <1>2. GoldenInv /\ [GoldenNext]_goldenVars => GoldenInv'
    BY <1>1, ExistenceKeeps, RowCountKeeps, ColumnsKeep, ColumnNamesKeep, ColumnTypesKeep,
       ChecksumsKeep, RowHashesKeep, SamplesKeep, QueryFailsKeeps, ReportKeeps, NextPairKeeps,
       MalformedKeeps, ArriveKeeps DEF GoldenNext, CompareTables
  <1> QED
    BY <1>2, GoldenStarts, PTL DEF GoldenSpec

-----------------------------------------------------------------------------
(* What the golden test promises.                                          *)

(* A report without an error in which no level broke is one of two tables  *)
(* that were there, and each of its levels is what there is to say.        *)
LEMMA CleanReport ==
    ASSUME GoldenInv, Undisturbed, Verdict \in {"MATCH", "MATCH*"}
    PROVE /\ Len(levels) = 5 /\ \A i \in 1..5 : levels[i].passed \/ levels[i].skipped
          /\ levels[1].passed /\ BothThere
  <1>1. pc = "done" /\ ~error /\ Len(levels) = 5
    BY DEF GoldenInv, PlaceInv, Undisturbed
  <1>2. FirstFailedLevel(levels) = 0
    BY Zenon, <1>1 DEF Verdict
  <1>3. \A i \in 1..5 : levels[i].passed \/ levels[i].skipped
    BY <1>1, <1>2, NoneFailed DEF GoldenInv
  <1>4. levels[1].passed
    BY <1>1, <1>3 DEF GoldenInv, FoundInv
  <1> QED
    BY <1>1, <1>3, <1>4 DEF BothThere

(* A level that has passed has no difference that is not accepted.         *)
LEMMA AllAccepted ==
    ASSUME NEW n, NEW differences, LET result == AcceptDeviations(n, differences)
                                   IN  result.passed \/ result.skipped
    PROVE \A d \in differences : Accepted(n, d)
  <1> DEFINE accepted == {d \in differences : Accepted(n, d)}
             result == [Passed(n) EXCEPT !.passed = differences \subseteq accepted,
                                         !.deviations = accepted]
  <1>1. result.passed = (differences \subseteq accepted) /\ ~result.skipped
    BY DEF Passed
  <1>2. AcceptDeviations(n, differences) = result
    BY Zenon DEF AcceptDeviations
  <1> HIDE DEF result
  <1>3. differences \subseteq accepted
    BY <1>1, <1>2
  <1> QED
    BY <1>3

(* And one without deviations has none.                                    *)
LEMMA NoneToAccept ==
    ASSUME NEW n, NEW differences, LET result == AcceptDeviations(n, differences)
                                   IN  (result.passed \/ result.skipped) /\ result.deviations = {}
    PROVE differences = {}
  <1> DEFINE accepted == {d \in differences : Accepted(n, d)}
             result == [Passed(n) EXCEPT !.passed = differences \subseteq accepted,
                                         !.deviations = accepted]
  <1>1. result.deviations = accepted
    BY DEF Passed
  <1>2. AcceptDeviations(n, differences) = result
    BY Zenon DEF AcceptDeviations
  <1> HIDE DEF result
  <1>3. accepted = {}
    BY <1>1, <1>2
  <1> QED
    BY <1>3, AllAccepted

(* What levels 2 and 3 of such a report have compared.                     *)
LEMMA ColumnsCompared ==
    ASSUME GoldenInv, Undisturbed, Verdict \in {"MATCH", "MATCH*"}
    PROVE /\ levels[2] = AcceptDeviations(2, NameDifferences(left.cols, right.cols))
          /\ levels[3] = AcceptDeviations(3, TypeDifferences)
          /\ seen.leftCols = left.cols /\ seen.leftTypes = left.types
          /\ seen.rightCols = right.cols /\ seen.rightTypes = right.types
  <1>1. Len(levels) = 5 /\ levels[1].passed /\ BothThere /\ arrivals = 0
    BY CleanReport DEF Undisturbed
  <1>2. /\ seen.leftCols = left.cols /\ seen.leftTypes = left.types
        /\ seen.rightCols = right.cols /\ seen.rightTypes = right.types
    BY <1>1 DEF GoldenInv, SeenInv
  <1>3. /\ levels[2] = AcceptDeviations(2, NameDifferences(seen.leftCols, seen.rightCols))
        /\ levels[3] = AcceptDeviations(3, TypeDifferences)
    BY <1>1 DEF GoldenInv, FoundInv
  <1> QED
    BY <1>2, <1>3

(* A difference, field by field.                                           *)
LEMMA DifferenceIs ==
    ASSUME NEW what, NEW l, NEW r, NEW where
    PROVE LET d == Difference(what, l, r, where)
          IN  d.what = what /\ d.left = l /\ d.right = r /\ d.where = where
  BY DEF Difference

(* The columns behind a MATCH or a MATCH*.                                 *)
LEMMA NamesAgreed ==
    ASSUME GoldenInv, Undisturbed, Verdict \in {"MATCH", "MATCH*"}
    PROVE /\ ToSet(left.cols) \subseteq ToSet(right.cols)
          /\ ToSet(right.cols) \ ToSet(left.cols) \subseteq Mandatory
          /\ ToSet(right.cols) = ToSet(left.cols) =>
               \A i \in DOMAIN left.cols :
                   left.cols[i] \notin Managed => right.cols[i] = left.cols[i]
  <1> DEFINE l == left.cols
             r == right.cols
  <1>1. \A d \in NameDifferences(l, r) : Accepted(2, d)
    <2>1. levels[2].passed \/ levels[2].skipped
      BY CleanReport
    <2> QED
      BY <2>1, ColumnsCompared, AllAccepted
  <1>2. ASSUME NEW c \in ToSet(l), c \notin ToSet(r) PROVE FALSE
    <2>1. Difference("missing", c, Null, c) \in NameDifferences(l, r)
      BY <1>2 DEF NameDifferences
    <2> QED
      BY <1>1, <2>1, DifferenceIs DEF Accepted, MandatoryColumnAdded, ManagedColumnsReordered
  <1>3. ASSUME NEW c \in ToSet(r), c \notin ToSet(l) PROVE c \in Mandatory
    <2>1. Difference("surplus", Null, c, c) \in NameDifferences(l, r)
      BY <1>3 DEF NameDifferences
    <2> QED
      BY <1>1, <2>1, DifferenceIs DEF Accepted, MandatoryColumnAdded, ManagedColumnsReordered
  <1>4. ASSUME ToSet(r) = ToSet(l), NEW i \in DOMAIN l, r[i] # l[i] PROVE l[i] \in Managed
    <2>1. Difference("order", l[i], r[i], Null) \in NameDifferences(l, r)
      BY <1>4 DEF NameDifferences
    <2> QED
      BY <1>1, <2>1, DifferenceIs DEF Accepted, MandatoryColumnAdded, ManagedColumnsReordered
  <1> HIDE DEF l, r
  <1>5. /\ ToSet(l) \subseteq ToSet(r) /\ ToSet(r) \ ToSet(l) \subseteq Mandatory
        /\ ToSet(r) = ToSet(l) => \A i \in DOMAIN l : l[i] \notin Managed => r[i] = l[i]
    BY <1>2, <1>3, <1>4
  <1> QED
    BY <1>5 DEF l, r

(* And their types.                                                        *)
LEMMA TypesAgreed ==
    ASSUME GoldenInv, Undisturbed, Verdict \in {"MATCH", "MATCH*"}, NEW c \in ToSet(left.cols)
    PROVE /\ left.types[c].base # right.types[c].base => left.types[c].base = Inferred
          /\ left.types[c].null # right.types[c].null => c = "_deleted_in_source"
          /\ left.types[c] # right.types[c] => Prefixed(c)
  <1> DEFINE l == left.types[c]
             r == right.types[c]
  <1>1. CASE l = r
    BY <1>1
  <1>2. CASE l # r
    <2>1. levels[3].passed \/ levels[3].skipped
      BY CleanReport
    <2>2. \A d \in TypeDifferences : Accepted(3, d)
      BY <2>1, ColumnsCompared, AllAccepted
    <2>3. c \in Common /\ seen.leftTypes[c] = l /\ seen.rightTypes[c] = r
      BY NamesAgreed, ColumnsCompared DEF Common
    <2> HIDE DEF l, r
    <2>4. Difference("type", l, r, c) \in TypeDifferences
      BY <1>2, <2>3 DEF TypeDifferences, SameType
    <2>5. LET d == Difference("type", l, r, c)
          IN  DeletedInSourceNullability(d) \/ ReservedColumnLostItsType(d)
      BY <2>2, <2>4 DEF Accepted
    <2>6. \/ /\ c = "_deleted_in_source"
             /\ l = [base |-> "boolean", null |-> TRUE] /\ r = [base |-> "boolean", null |-> FALSE]
          \/ Prefixed(c) /\ l.base = Inferred /\ l.null = r.null
      BY <2>5, DifferenceIs DEF DeletedInSourceNullability, ReservedColumnLostItsType
    <2>7. /\ l.base # r.base => l.base = Inferred
          /\ l.null # r.null => c = "_deleted_in_source"
          /\ Prefixed(c)
      BY <2>6 DEF Prefixed
    <2> QED
      BY <2>7 DEF l, r
  <1> QED
    BY <1>1, <1>2

(* The exit code is that of the worst pair.                                *)
LEMMA WorstIsTold ==
    ASSUME verdicts \in Seq(Verdicts)
    PROVE ExitTellsTheWorst
  <1>1. ToSet(verdicts) \subseteq Verdicts
    BY DEF ToSet
  <1>2. BatchVerdict(verdicts) = "MATCH" <=> "ERROR" \notin ToSet(verdicts) /\ "DIFF" \notin ToSet(verdicts)
    BY DEF BatchVerdict
  <1>3. BatchVerdict(verdicts) \in {"MATCH", "DIFF", "ERROR"}
    BY DEF BatchVerdict
  <1>4. ExitCode(BatchVerdict(verdicts)) = 0 <=> BatchVerdict(verdicts) = "MATCH"
    BY <1>3 DEF ExitCode
  <1> QED
    BY <1>1, <1>2, <1>4 DEF ExitTellsTheWorst, Verdicts

(* The report has at most the five levels, and the batch a verdict a pair. *)
LEMMA GoldenTypes == GoldenInv => GoldenTypeOK
  <1> SUFFICES ASSUME GoldenInv PROVE GoldenTypeOK
    OBVIOUS
  <1>1. verdicts \in Seq(Verdicts) /\ Len(verdicts) <= Entries /\ Entries \in Nat
    BY GoldenAssumption DEF GoldenAssumption, GoldenInv, PlaceInv
  <1>2. verdicts \in BoundedSeq(Verdicts, Entries)
    <2>1. Len(verdicts) \in 0..Entries /\ verdicts \in [1..Len(verdicts) -> Verdicts]
      BY <1>1
    <2> QED
      BY <2>1 DEF BoundedSeq, SeqOf
  <1>3. IsSequence(levels)
    BY DEF GoldenInv, PlaceInv
  <1>4. \A i \in DOMAIN levels : levels[i].level = i
    BY <1>3, SequenceIs DEF GoldenInv, PlaceInv
  <1>5. /\ pc \in {"existence", "count", "columns", "names", "types", "checksums", "rows",
                   "samples", "done", "next", "exit", "broken"}
        /\ Len(levels) <= 5 /\ arrivals \in 0..MaxArrivals
    BY DEF GoldenInv, PlaceInv
  <1> QED
    BY <1>2, <1>4, <1>5 DEF GoldenTypeOK, GoldenInv, ErrorInv

(* A report says what was found and leaves out no level, an agreed         *)
(* deviation covers no more than it says, and the exit code is that of the *)
(* worst pair, for any tables and any number of them (compare_tables,      *)
(* deviations.match, BatchReport.verdict).                                 *)
THEOREM ReportsAreWhole == GoldenSpec => []ReportsTellTheWhole
  <1>1. GoldenInv => ReportsTellTheWhole
    <2> SUFFICES ASSUME GoldenInv PROVE ReportsTellTheWhole
      OBVIOUS
    <2>1. EveryLevelIsReported
      BY DEF GoldenInv, PlaceInv, EveryLevelIsReported
    <2>2. DeviationsAreNarrow
      BY NamesAgreed, TypesAgreed DEF DeviationsAreNarrow
    <2>3. ExitTellsTheWorst
      BY WorstIsTold DEF GoldenInv, PlaceInv
    <2> QED
      BY <2>1, <2>2, <2>3, GoldenTypes DEF ReportsTellTheWhole
  <1> QED
    BY <1>1, GoldenInvariant, PTL

(* Two texts are the same of the same value only.                          *)
LEMMA SameText ==
    ASSUME NEW t, NEW u, NEW l, NEW r, NEW cols, NEW c \in cols,
           TextOf(t, l, cols) = TextOf(u, r, cols)
    PROVE l[c] = r[c]
  <1>1. /\ TextOf(t, l, cols)[c] = AsText(l[c], t.types[c])
        /\ TextOf(u, r, cols)[c] = AsText(r[c], u.types[c])
    BY DEF TextOf
  <1>2. AsText(l[c], t.types[c])[1] = l[c] /\ AsText(r[c], u.types[c])[1] = r[c]
    BY DEF AsText
  <1> QED
    BY <1>1, <1>2

(* Rows that have one key and do not differ hold the same.                 *)
LEMMA PartnersHoldTheSame ==
    ASSUME RowsAgree, ToSet(KeyColumns) \subseteq Common,
           NEW l \in ToSet(left.rows), NEW r \in ToSet(right.rows), SameKey(l, r),
           NEW c \in Common \ Volatile, SameType(c)
    PROVE l[c] = r[c]
  <1>1. ~StoredDiffers(l, r) /\ ~ContentDiffers(l, r)
    BY DEF RowsAgree
  <1>2. CASE c \in ToSet(KeyColumns)
    BY <1>2, SameText DEF SameKey
  <1>3. CASE c = HashColumn
    BY <1>1, <1>3 DEF StoredDiffers, Stored
  <1>4. CASE c \notin ToSet(KeyColumns) /\ c # HashColumn
    <2>1. c \in Payload
      BY <1>4 DEF Payload, Comparable
    <2> QED
      BY <1>1, <2>1, SameText DEF ContentDiffers
  <1> QED
    BY <1>2, <1>3, <1>4

(* Rows that pass level 5 are the same rows at that statement, whatever a  *)
(* pipeline does around it (_level_row_hashes).                            *)
THEOREM RowsAreCompared == GoldenSpec => LevelFiveIsSound
  <1> DEFINE cols == {c \in Common \ Volatile : SameType(c)}
             holds == {[c \in cols |-> l[c]] : l \in ToSet(left.rows)} =
                      {[c \in cols |-> r[c]] : r \in ToSet(right.rows)}
  <1>1. ASSUME GoldenInv, [GoldenNext]_goldenVars,
               pc = "rows", Len(levels') = 5, levels'[5].passed, ~levels'[5].skipped
        PROVE holds
    <2>1. Len(levels) = 4
      BY <1>1 DEF GoldenInv, PlaceInv
    <2>2. RowHashes
      <3>1. levels' # levels
        BY <1>1, <2>1
      <3> QED
        BY <1>1, <3>1 DEF GoldenNext, CompareTables, Existence, RowCount, Columns, ColumnNames,
           ColumnTypes, Checksums, Samples, QueryFails, Report, NextPair,
           MalformedEntry, Arrive, goldenVars
    <2>3. RowsAgree /\ ~RowLevelSkipped
      <3>1. \/ levels' = Append(levels, Skipped(5))
            \/ ~RowLevelSkipped /\ (RowsAgree \/ UNCHANGED levels)
        BY Zenon, <2>2 DEF RowHashes, Goto
      <3>2. levels' # Append(levels, Skipped(5))
        <4>1. IsSequence(levels)
          BY <1>1 DEF GoldenInv, PlaceInv
        <4>2. Append(levels, Skipped(5))[Len(levels) + 1] = Skipped(5)
          BY <4>1, OneMore
        <4>3. Append(levels, Skipped(5))[5].skipped
          BY <2>1, <4>2, OfItsLevel
        <4> QED
          BY <1>1, <4>3
      <3>3. levels' # levels
        BY <1>1, <2>1
      <3> QED
        BY <3>1, <3>2, <3>3
    <2>4. ToSet(KeyColumns) \subseteq Common
      BY <2>3 DEF RowLevelSkipped
    <2>5. ASSUME NEW l \in ToSet(left.rows), NEW r \in ToSet(right.rows), SameKey(l, r)
          PROVE [c \in cols |-> l[c]] = [c \in cols |-> r[c]]
      BY <2>3, <2>4, <2>5, PartnersHoldTheSame
    <2>6. /\ \A l \in ToSet(left.rows) : \E r \in ToSet(right.rows) : SameKey(l, r)
          /\ \A r \in ToSet(right.rows) : \E l \in ToSet(left.rows) : SameKey(l, r)
      BY <2>3 DEF RowsAgree
    <2> HIDE DEF cols
    <2>7. \A l \in ToSet(left.rows) : \E r \in ToSet(right.rows) :
            [c \in cols |-> l[c]] = [c \in cols |-> r[c]]
      BY <2>5, <2>6
    <2>8. \A r \in ToSet(right.rows) : \E l \in ToSet(left.rows) :
            [c \in cols |-> l[c]] = [c \in cols |-> r[c]]
      BY <2>5, <2>6
    <2> QED
      BY <2>7, <2>8
  <1>2. GoldenInv /\ [GoldenNext]_goldenVars =>
          [pc = "rows" /\ Len(levels') = 5 /\ levels'[5].passed /\ ~levels'[5].skipped
             => holds]_goldenVars
    BY <1>1
  <1> QED
    BY <1>2, GoldenInvariant, PTL DEF GoldenSpec, LevelFiveIsSound

-----------------------------------------------------------------------------
(* A clean match.                                                          *)

(* Columns of one set, of which the left ones are in their places, are the *)
(* same columns.                                                           *)
LEMMA SameColumns ==
    ASSUME NEW l \in Seq(STRING), IsInjective(l), NEW r \in Seq(STRING), IsInjective(r),
           ToSet(l) = ToSet(r), \A i \in DOMAIN l : l[i] = r[i]
    PROVE l = r
  <1>1. /\ Len(l) \in Nat /\ DOMAIN l = 1..Len(l) /\ Len(r) \in Nat /\ DOMAIN r = 1..Len(r)
    OBVIOUS
  <1>2. /\ \A i, j \in 1..Len(l) : l[i] = l[j] => i = j
        /\ \A i, j \in 1..Len(r) : r[i] = r[j] => i = j
    BY <1>1 DEF IsInjective
  <1>3. /\ \A i \in 1..Len(l) : \E j \in 1..Len(r) : l[i] = r[j]
        /\ \A j \in 1..Len(r) : \E i \in 1..Len(l) : l[i] = r[j]
    BY <1>1 DEF ToSet
  <1>4. CASE Len(l) > Len(r)
    <2>1. Len(r) + 1 \in 1..Len(l)
      BY <1>1, <1>4
    <2>2. PICK j \in 1..Len(r) : l[Len(r) + 1] = r[j]
      BY <1>3, <2>1
    <2>3. j \in 1..Len(l) /\ l[j] = r[j] /\ j # Len(r) + 1
      BY <1>1, <1>4
    <2> QED
      BY <1>2, <2>1, <2>2, <2>3
  <1>5. CASE Len(l) < Len(r)
    <2>1. Len(l) + 1 \in 1..Len(r)
      BY <1>1, <1>5
    <2>2. PICK i \in 1..Len(l) : l[i] = r[Len(l) + 1]
      BY <1>3, <2>1
    <2>3. i \in 1..Len(r) /\ l[i] = r[i] /\ i # Len(l) + 1
      BY <1>1, <1>5
    <2> QED
      BY <1>2, <2>1, <2>2, <2>3
  <1>6. CASE Len(l) = Len(r)
    BY <1>1, <1>6
  <1>7. \A a, b \in Nat : a > b \/ a < b \/ a = b
    OBVIOUS
  <1>8. Len(l) > Len(r) \/ Len(l) < Len(r) \/ Len(l) = Len(r)
    BY Zenon, <1>1, <1>7
  <1> QED
    BY <1>4, <1>5, <1>6, <1>8

(* What the places of a list of m hold, and how often they hold a value.   *)
Held(p, m) == {p[i] : i \in 1..m}
Often(p, m, x) == Cardinality({i \in 1..m : p[i] = x})
Bag(p, m) == [x \in Held(p, m) |-> Often(p, m, x)]

(* Where rows are paired off and partners hold the same, either side holds *)
(* a value as often as the other.                                          *)
LEMMA HeldAsOften ==
    ASSUME NEW m \in Nat, NEW g \in Surjection(1..m, 1..m),
           NEW p, NEW q, \A j \in 1..m : q[j] = p[g[j]], NEW x
    PROVE Often(q, m, x) = Often(p, m, x)
  <1> DEFINE A == {i \in 1..m : p[i] = x}
             B == {j \in 1..m : q[j] = x}
             h == [j \in B |-> g[j]]
  <1>1. IsFiniteSet(1..m)
    BY FS_Interval
  <1>2. IsFiniteSet(B)
    BY <1>1, FS_Subset
  <1>3. g \in Injection(1..m, 1..m)
    BY <1>1, FS_SurjSameCardinalityImpliesInj
  <1>4. /\ \A j \in 1..m : g[j] \in 1..m
        /\ \A i \in 1..m : \E j \in 1..m : g[j] = i
        /\ \A i, j \in 1..m : g[i] = g[j] => i = j
    <2>1. DOMAIN g = 1..m
      BY DEF Surjection
    <2> QED
      BY <1>3, <2>1 DEF Surjection, Injection, IsInjective
  <1>5. h \in [B -> A]
    BY <1>4
  <1>6. \A i, j \in B : h[i] = h[j] => i = j
    BY <1>4
  <1>7. ASSUME NEW i \in A PROVE \E j \in B : h[j] = i
    <2>1. PICK j \in 1..m : g[j] = i
      BY <1>4
    <2>2. j \in B
      BY <2>1
    <2>3. h[j] = i
      BY <2>1, <2>2
    <2> QED
      BY Zenon, <2>2, <2>3
  <1> HIDE DEF A, B, h
  <1>8. h \in Bijection(B, A)
    BY <1>5, <1>6, <1>7 DEF Bijection, Injection, Surjection, IsInjective
  <1>9. ExistsBijection(B, A)
    BY <1>8 DEF ExistsBijection
  <1>10. Cardinality(A) = Cardinality(B)
    BY <1>2, <1>9, FS_Bijection
  <1> QED
    BY <1>10 DEF A, B, Often

(* A MATCH has no deviation, so no difference of names or of types.        *)
LEMMA NoDifference ==
    ASSUME GoldenInv, Undisturbed, Verdict = "MATCH"
    PROVE NameDifferences(left.cols, right.cols) = {} /\ TypeDifferences = {}
  <1>1. /\ Len(levels) = 5 /\ IsSequence(levels)
        /\ \A i \in 1..5 : levels[i].passed \/ levels[i].skipped
    BY CleanReport DEF GoldenInv, PlaceInv
  <1>2. ~error /\ FirstFailedLevel(levels) = 0
    <2>1. ~error
      BY DEF Undisturbed
    <2> QED
      BY Zenon, <2>1 DEF Verdict
  <1>3. \A r \in ToSet(levels) : r.deviations = {}
    BY Zenon, <1>2 DEF Verdict
  <1>4. levels[2] \in ToSet(levels) /\ levels[3] \in ToSet(levels)
    BY <1>1, SequenceIs
  <1> QED
    BY <1>1, <1>3, <1>4, ColumnsCompared, NoneToAccept

(* What columns of a table hold, counted row by row.                       *)
LEMMA HoldingIs ==
    ASSUME NEW t, NEW cols, NEW m, DOMAIN t.rows = 1..m,
           NEW p, \A i \in 1..m : p[i] = [c \in cols |-> t.rows[i][c]]
    PROVE Holding(t, cols) = Bag(p, m)
  <1>1. {[c \in cols |-> t.rows[i][c]] : i \in DOMAIN t.rows} = {p[i] : i \in 1..m}
    BY Zenon
  <1>2. ASSUME NEW r
        PROVE {i \in DOMAIN t.rows : [c \in cols |-> t.rows[i][c]] = r} = {i \in 1..m : p[i] = r}
    BY Zenon
  <1> QED
    BY Zenon, <1>1, <1>2 DEF Holding, Bag, Held, Often

(* And the columns are the same, in one order and of one type each.        *)
LEMMA ColumnsAreIdentical ==
    ASSUME GoldenInv, Undisturbed, Verdict = "MATCH"
    PROVE left.cols = right.cols /\ left.types = right.types
  <1>1. IsLayout(left) /\ IsLayout(right)
    BY DEF GoldenInv, PairInv, Undisturbed
  <1>2. NameDifferences(left.cols, right.cols) = {} /\ TypeDifferences = {}
    BY NoDifference
  <1>3. left.cols = right.cols
    <2> DEFINE l == left.cols
               r == right.cols
    <2>1. \A c \in ToSet(l) : c \in ToSet(r)
      <3> SUFFICES ASSUME NEW c \in ToSet(l) \ ToSet(r) PROVE FALSE
        OBVIOUS
      <3>1. Difference("missing", c, Null, c) \in NameDifferences(l, r)
        BY DEF NameDifferences
      <3> QED
        BY <1>2, <3>1
    <2>2. \A c \in ToSet(r) : c \in ToSet(l)
      <3> SUFFICES ASSUME NEW c \in ToSet(r) \ ToSet(l) PROVE FALSE
        OBVIOUS
      <3>1. Difference("surplus", Null, c, c) \in NameDifferences(l, r)
        BY DEF NameDifferences
      <3> QED
        BY <1>2, <3>1
    <2>3. \A i \in DOMAIN l : l[i] = r[i]
      <3> SUFFICES ASSUME NEW i \in DOMAIN l, l[i] # r[i] PROVE FALSE
        OBVIOUS
      <3>1. ToSet(l) = ToSet(r)
        BY <2>1, <2>2
      <3>2. Difference("order", l[i], r[i], Null) \in NameDifferences(l, r)
        BY <3>1 DEF NameDifferences
      <3> QED
        BY <1>2, <3>2
    <2>4. l \in Seq(STRING) /\ IsInjective(l) /\ r \in Seq(STRING) /\ IsInjective(r)
      BY <1>1 DEF IsLayout
    <2> HIDE DEF l, r
    <2>5. ToSet(l) = ToSet(r)
      BY <2>1, <2>2
    <2>6. l = r
      BY Zenon, <2>3, <2>4, <2>5, SameColumns
    <2> QED
      BY <2>6 DEF l, r
  <1>4. \A c \in ToSet(left.cols) : left.types[c] = right.types[c]
    <2> SUFFICES ASSUME NEW c \in ToSet(left.cols), left.types[c] # right.types[c] PROVE FALSE
      OBVIOUS
    <2>1. c \in Common /\ seen.leftTypes[c] = left.types[c] /\ seen.rightTypes[c] = right.types[c]
      BY <1>3, ColumnsCompared DEF Common
    <2>2. Difference("type", left.types[c], right.types[c], c) \in TypeDifferences
      BY <2>1 DEF TypeDifferences, SameType
    <2> QED
      BY <1>2, <2>2
  <1>5. /\ left.types = [c \in ToSet(left.cols) |-> left.types[c]]
        /\ right.types = [c \in ToSet(right.cols) |-> right.types[c]]
    BY <1>1 DEF IsLayout
  <1>6. left.types = right.types
    BY <1>3, <1>4, <1>5
  <1> QED
    BY <1>3, <1>6

(* Level 5 pairs the rows off.                                             *)
LEMMA RowsAreIdentical ==
    ASSUME GoldenInv, Undisturbed, Verdict = "MATCH", FiveCompared, KeyIsUnique(left, KeyColumns)
    PROVE LET cols == ToSet(left.cols) \ Volatile
          IN  Holding(left, cols) = Holding(right, cols)
  <1> DEFINE cols == ToSet(left.cols) \ Volatile
             m == Len(left.rows)
             p == [i \in 1..m |-> [c \in cols |-> left.rows[i][c]]]
             q == [j \in 1..m |-> [c \in cols |-> right.rows[j][c]]]
             g == [j \in 1..m |-> CHOOSE i \in 1..m : SameKey(left.rows[i], right.rows[j])]
  <1>1. /\ Len(levels) = 5 /\ levels[1].passed /\ arrivals = 0
        /\ levels[5].passed /\ ~levels[5].skipped
    BY CleanReport DEF FiveCompared, Undisturbed
  <1>2. RowsAgree /\ ToSet(KeyColumns) \subseteq Common /\ Len(right.rows) = m
    BY <1>1 DEF GoldenInv, FoundInv
  <1>3. IsSequence(left.rows) /\ IsSequence(right.rows)
    BY <1>1 DEF GoldenInv, PairInv, Undisturbed
  <1>4. /\ m \in Nat /\ DOMAIN left.rows = 1..m /\ DOMAIN right.rows = 1..m
        /\ \A i \in 1..m : left.rows[i] \in ToSet(left.rows) /\ right.rows[i] \in ToSet(right.rows)
        /\ \A l \in ToSet(left.rows) : \E i \in 1..m : left.rows[i] = l
        /\ \A r \in ToSet(right.rows) : \E j \in 1..m : right.rows[j] = r
    BY <1>2, <1>3, SequenceIs
  <1>5. /\ \A j \in 1..m : \E i \in 1..m : SameKey(left.rows[i], right.rows[j])
        /\ \A i \in 1..m : \E j \in 1..m : SameKey(left.rows[i], right.rows[j])
    <2> HIDE DEF m, p, q, g, cols
    <2>1. /\ \A l \in ToSet(left.rows) : \E r \in ToSet(right.rows) : SameKey(l, r)
          /\ \A r \in ToSet(right.rows) : \E l \in ToSet(left.rows) : SameKey(l, r)
      BY Zenon, <1>2 DEF RowsAgree
    <2>2. ASSUME NEW j \in 1..m PROVE \E i \in 1..m : SameKey(left.rows[i], right.rows[j])
      <3>1. PICK l \in ToSet(left.rows) : SameKey(l, right.rows[j])
        BY Zenon, <1>4, <2>1
      <3>2. PICK i \in 1..m : left.rows[i] = l
        BY Zenon, <1>4
      <3> QED
        BY Zenon, <3>1, <3>2
    <2>3. ASSUME NEW i \in 1..m PROVE \E j \in 1..m : SameKey(left.rows[i], right.rows[j])
      <3>1. PICK r \in ToSet(right.rows) : SameKey(left.rows[i], r)
        BY Zenon, <1>4, <2>1
      <3>2. PICK j \in 1..m : right.rows[j] = r
        BY Zenon, <1>4
      <3> QED
        BY Zenon, <3>1, <3>2
    <2> QED
      BY Zenon, <2>2, <2>3
  <1>6. ASSUME NEW j \in 1..m PROVE g[j] \in 1..m /\ SameKey(left.rows[g[j]], right.rows[j])
    BY <1>5
  <1>7. ASSUME NEW i \in 1..m PROVE \E j \in 1..m : g[j] = i
    <2>1. PICK j \in 1..m : SameKey(left.rows[i], right.rows[j])
      BY <1>5
    <2>2. g[j] \in 1..m /\ SameKey(left.rows[g[j]], right.rows[j])
      BY <1>6
    <2> HIDE DEF g
    <2>3. g[j] = i
      BY <1>4, <2>1, <2>2 DEF SameKey, KeyIsUnique
    <2> QED
      BY <2>3
  <1>8. g \in Surjection(1..m, 1..m)
    BY <1>6, <1>7 DEF Surjection
  <1>9. \A c \in cols : c \in Common \ Volatile /\ SameType(c)
    BY ColumnsAreIdentical, ColumnsCompared DEF Common, SameType
  <1>10. \A j \in 1..m : q[j] = p[g[j]]
    <2> SUFFICES ASSUME NEW j \in 1..m PROVE q[j] = p[g[j]]
      OBVIOUS
    <2>1. g[j] \in 1..m /\ SameKey(left.rows[g[j]], right.rows[j])
      BY <1>6
    <2> HIDE DEF g
    <2>2. left.rows[g[j]] \in ToSet(left.rows) /\ right.rows[j] \in ToSet(right.rows)
      BY Zenon, <1>4, <2>1
    <2>3. [c \in cols |-> left.rows[g[j]][c]] = [c \in cols |-> right.rows[j][c]]
      <3> HIDE DEF cols
      <3> QED
        BY Zenon, <1>2, <1>9, <2>1, <2>2, PartnersHoldTheSame
    <2> QED
      BY Zenon, <2>1, <2>3
  <1>11. \A i \in 1..m : p[i] = [c \in cols |-> left.rows[i][c]]
    OBVIOUS
  <1>12. \A j \in 1..m : q[j] = [c \in cols |-> right.rows[j][c]]
    OBVIOUS
  <1> HIDE DEF m, p, q, g, cols
  <1>13. ASSUME NEW x PROVE Often(q, m, x) = Often(p, m, x)
    <2>1. m \in Nat
      BY <1>4
    <2> QED
      BY <2>1, <1>8, <1>10, HeldAsOften
  <1>14. Held(p, m) = Held(q, m)
    <2>1. ASSUME NEW j \in 1..m PROVE q[j] \in Held(p, m)
      BY <1>6, <1>10 DEF Held
    <2>2. ASSUME NEW i \in 1..m PROVE p[i] \in Held(q, m)
      BY <1>7, <1>10 DEF Held
    <2> QED
      BY <2>1, <2>2 DEF Held
  <1>15. Bag(p, m) = Bag(q, m)
    BY Zenon, <1>13, <1>14 DEF Bag
  <1>16. Holding(left, cols) = Bag(p, m)
    <2>1. DOMAIN left.rows = 1..m
      BY <1>4
    <2>2. \A i \in 1..m : p[i] = [c \in cols |-> left.rows[i][c]]
      BY <1>11
    <2>3. (\A i \in 1..m : p[i] = [c \in cols |-> left.rows[i][c]]) => Holding(left, cols) = Bag(p, m)
      BY <2>1, HoldingIs
    <2> QED
      BY Zenon, <2>2, <2>3
  <1>17. Holding(right, cols) = Bag(q, m)
    <2>1. DOMAIN right.rows = 1..m
      BY <1>4
    <2> QED
      BY <2>1, <1>12, HoldingIs
  <1> QED
    BY <1>15, <1>16, <1>17 DEF cols

(* A clean MATCH that compared the rows means the same table, for any two  *)
(* tables whose key is one: the same columns in the same order, of the     *)
(* same types, and every row as often (TableReport.verdict).               *)
THEOREM MatchesAreIdentical == GoldenSpec => []MatchMeansIdentical
  <1>1. GoldenInv => MatchMeansIdentical
    BY ColumnsAreIdentical, RowsAreIdentical DEF MatchMeansIdentical
  <1> QED
    BY <1>1, GoldenInvariant, PTL

-----------------------------------------------------------------------------
(* Sums, and rows that are paired off.                                     *)

(* Induction, over a set instead of an operator: what is in a set with 0   *)
(* and with the successor of each of its elements.                         *)
LEMMA InductionInASet ==
    ASSUME NEW P, 0 \in P, \A n \in Nat : n \in P => n + 1 \in P
    PROVE \A n \in Nat : n \in P
  <1> DEFINE T == Nat \ P
             R == OpToRel(<, Nat)
  <1>1. \A a, b \in Nat : a < b => <<a, b>> \in R
    BY DEF OpToRel
  <1>2. IsWellFoundedOn(R, Nat)
    BY NatLessThanWellFounded
  <1> HIDE DEF R
  <1>3. SUFFICES ASSUME T # {} PROVE FALSE
    OBVIOUS
  <1>4. T \subseteq Nat
    OBVIOUS
  <1> HIDE DEF T
  <1>5. \E n \in T : \A k \in T : <<k, n>> \notin R
    BY <1>2, <1>3, <1>4, WFMin
  <1>6. PICK n \in T : \A k \in T : <<k, n>> \notin R
    BY <1>5
  <1>7. n \in Nat /\ n # 0 /\ n \notin P
    BY DEF T
  <1>8. n - 1 \in Nat /\ n - 1 < n /\ n - 1 \notin T
    <2>1. n - 1 \in Nat /\ n - 1 < n
      BY <1>7
    <2>2. <<n - 1, n>> \in R
      BY <1>1, <1>7, <2>1
    <2> QED
      BY <1>6, <2>1, <2>2
  <1>9. n - 1 \in P
    BY <1>8 DEF T
  <1> QED
    BY <1>7, <1>8, <1>9

(* The sum of a column over some rows, as Checksum takes it.               *)
ColumnSum(rows, c, S) == MapThenSumSet(LAMBDA i : rows[i][c], S)

(* The element MapThenSumSet takes next, and what it computes.             *)
Drawn(s) == CHOOSE x \in s : TRUE

IsSum(g, rows, c, S) ==
    g = [s \in SUBSET S |-> IF s = {} THEN 0
                            ELSE rows[Drawn(s)][c] + g[s \ {Drawn(s)}]]

(* The sum is one of its elements and the sum of the others.               *)
LEMMA ColumnSumIs ==
    ASSUME NEW rows, NEW c, NEW S
    PROVE ColumnSum(rows, c, S) = (CHOOSE g : IsSum(g, rows, c, S))[S]
  BY DEF ColumnSum, MapThenSumSet, MapThenFoldSet, IsSum, Drawn

SumStep(h, rows, c, s) == IF s = {} THEN 0 ELSE rows[Drawn(s)][c] + h[s \ {Drawn(s)}]

(* What is left of a finite set without one of its elements.               *)
LEMMA OneLess ==
    ASSUME NEW S, IsFiniteSet(S), NEW s \in SUBSET S
    PROVE /\ IsFiniteSet(s) /\ Cardinality(s) \in Nat /\ (Cardinality(s) = 0 <=> s = {})
          /\ Cardinality(s) <= Cardinality(S)
          /\ \A x \in s : /\ s \ {x} \in SUBSET S
                          /\ Cardinality(s \ {x}) = Cardinality(s) - 1
  BY FS_Subset, FS_CardinalityType, FS_EmptySet, FS_RemoveElement

(* It is one of them.                                                      *)
LEMMA IsDrawn == ASSUME NEW s, s # {} PROVE Drawn(s) \in s
  BY DEF Drawn

(* The sum of a finite set of numbers is one.                              *)
LEMMA SumExists ==
    ASSUME NEW rows, NEW c, NEW S, IsFiniteSet(S), \A i \in S : rows[i][c] \in Int
    PROVE \E g : IsSum(g, rows, c, S)
  <1> DEFINE Good(h, n) == \A s \in SUBSET S : Cardinality(s) <= n => h[s] = SumStep(h, rows, c, s)
             P == {n \in Nat : \E h \in [SUBSET S -> Int] : Good(h, n)}
  <1>1. 0 \in P
    <2> DEFINE h == [s \in SUBSET S |-> 0]
    <2>1. h \in [SUBSET S -> Int]
      OBVIOUS
    <2>2. Good(h, 0)
      <3> SUFFICES ASSUME NEW s \in SUBSET S, Cardinality(s) <= 0
                   PROVE h[s] = SumStep(h, rows, c, s)
        OBVIOUS
      <3>1. s = {}
        BY OneLess
      <3> QED
        BY <3>1 DEF SumStep
    <2> HIDE DEF h
    <2> QED
      BY <2>1, <2>2
  <1>2. ASSUME NEW n \in Nat, n \in P PROVE n + 1 \in P
    <2>1. PICK h \in [SUBSET S -> Int] : Good(h, n)
      BY <1>2
    <2> DEFINE k == [s \in SUBSET S |->
                       IF Cardinality(s) <= n THEN h[s] ELSE SumStep(h, rows, c, s)]
    <2>2. \A s \in SUBSET S : SumStep(h, rows, c, s) \in Int
      <3> TAKE s \in SUBSET S
      <3>1. CASE s = {}
        BY <3>1 DEF SumStep
      <3>2. CASE s # {}
        <4>1. Drawn(s) \in s /\ s \ {Drawn(s)} \in SUBSET S
          BY <3>2, IsDrawn
        <4> QED
          BY <3>2, <4>1 DEF SumStep
      <3> QED
        BY <3>1, <3>2
    <2>3. k \in [SUBSET S -> Int]
      BY <2>2
    <2>4. Good(k, n + 1)
      <3> SUFFICES ASSUME NEW s \in SUBSET S, Cardinality(s) <= n + 1
                   PROVE k[s] = SumStep(k, rows, c, s)
        OBVIOUS
      <3>1. k[s] = SumStep(h, rows, c, s)
        BY <2>1
      <3>2. CASE s = {}
        BY <3>1, <3>2 DEF SumStep
      <3>3. CASE s # {}
        <4> DEFINE r == s \ {Drawn(s)}
        <4>1. Drawn(s) \in s
          BY <3>3, IsDrawn
        <4>2. r \in SUBSET S /\ Cardinality(r) = Cardinality(s) - 1 /\ Cardinality(s) \in Nat
          BY <4>1, OneLess
        <4>3. Cardinality(r) <= n
          BY <4>2
        <4> HIDE DEF r
        <4>4. k[r] = h[r]
          BY <4>2, <4>3
        <4> HIDE DEF k
        <4> QED
          BY <3>1, <3>3, <4>4 DEF SumStep, r
      <3> QED
        BY <3>2, <3>3
    <2> HIDE DEF k
    <2> QED
      BY <2>3, <2>4
  <1>3. Cardinality(S) \in Nat
    BY FS_CardinalityType
  <1>4. Cardinality(S) \in P
    <2> HIDE DEF P
    <2> QED
      BY <1>1, <1>2, <1>3, InductionInASet
  <1>5. PICK h \in [SUBSET S -> Int] : Good(h, Cardinality(S))
    BY <1>4
  <1>6. \A s \in SUBSET S : h[s] = SumStep(h, rows, c, s)
    BY <1>5, OneLess
  <1>7. h = [s \in SUBSET S |-> SumStep(h, rows, c, s)]
    BY <1>6
  <1>8. IsSum(h, rows, c, S)
    BY <1>7 DEF IsSum, SumStep
  <1> QED
    BY <1>8

(* In whichever order the elements are taken.                              *)
TakesAny(g, rows, c, s) ==
    /\ g[s] \in Int
    /\ \A x \in s : g[s] = rows[x][c] + g[s \ {x}]

LEMMA SumTakes ==
    ASSUME NEW rows, NEW c, NEW S, IsFiniteSet(S), \A i \in S : rows[i][c] \in Int,
           NEW g, IsSum(g, rows, c, S)
    PROVE g[{}] = 0 /\ \A s \in SUBSET S : TakesAny(g, rows, c, s)
  <1> DEFINE P == {n \in Nat : \A s \in SUBSET S : Cardinality(s) <= n => TakesAny(g, rows, c, s)}
  <1>1. \A s \in SUBSET S : g[s] = IF s = {} THEN 0 ELSE rows[Drawn(s)][c] + g[s \ {Drawn(s)}]
    BY DEF IsSum
  <1>0. g[{}] = 0
    <2>1. {} \in SUBSET S
      OBVIOUS
    <2> QED
      BY <1>1, <2>1
  <1>2. 0 \in P
    <2>1. ASSUME NEW s \in SUBSET S, Cardinality(s) <= 0 PROVE TakesAny(g, rows, c, s)
      <3>1. s = {}
        BY <2>1, OneLess
      <3> QED
        BY <1>0, <3>1 DEF TakesAny
    <2> QED
      BY <2>1
  <1>3. ASSUME NEW n \in Nat, n \in P PROVE n + 1 \in P
    <2>1. ASSUME NEW s \in SUBSET S, Cardinality(s) <= n + 1, s # {}
          PROVE TakesAny(g, rows, c, s)
      <3> DEFINE d == Drawn(s)
      <3>1. d \in s /\ g[s] = rows[d][c] + g[s \ {d}]
        BY <1>1, <2>1, IsDrawn
      <3> HIDE DEF d
      <3>2. \A x \in s : /\ s \ {x} \in SUBSET S /\ Cardinality(s \ {x}) <= n
                         /\ Cardinality(s \ {x}) \in Nat
        BY <2>1, OneLess
      <3>3. \A x \in s : TakesAny(g, rows, c, s \ {x})
        BY <1>3, <3>2
      <3>4. \A x \in s : rows[x][c] \in Int
        OBVIOUS
      <3>5. g[s \ {d}] \in Int
        BY <3>1, <3>3 DEF TakesAny
      <3>6. g[s] \in Int
        BY <3>1, <3>4, <3>5
      <3>7. ASSUME NEW x \in s PROVE g[s] = rows[x][c] + g[s \ {x}]
        <4>1. CASE x = d
          BY <3>1, <4>1
        <4>2. CASE x # d
          <5> DEFINE r == (s \ {x}) \ {d}
          <5>1. d \in s \ {x} /\ x \in s \ {d} /\ r = (s \ {d}) \ {x}
            BY <3>1, <4>2
          <5>2. r \in SUBSET S /\ Cardinality(r) <= n
            <6>1. s \ {x} \in SUBSET S /\ Cardinality(s \ {x}) <= n /\ Cardinality(s \ {x}) \in Nat
              BY <3>2
            <6>2. Cardinality(r) = Cardinality(s \ {x}) - 1
              BY <5>1, <6>1, OneLess
            <6> QED
              BY <6>1, <6>2
          <5>3. TakesAny(g, rows, c, r)
            BY <1>3, <5>2
          <5>4. TakesAny(g, rows, c, s \ {x}) /\ TakesAny(g, rows, c, s \ {d})
            BY <3>1, <3>3
          <5>5. g[s \ {x}] = rows[d][c] + g[r]
            BY <5>1, <5>4 DEF TakesAny
          <5>6. g[s \ {d}] = rows[x][c] + g[r]
            BY <5>1, <5>4 DEF TakesAny
          <5>7. g[r] \in Int
            BY <5>3 DEF TakesAny
          <5> HIDE DEF r
          <5>8. rows[x][c] \in Int /\ rows[d][c] \in Int
            BY <3>1, <3>4
          <5> QED
            BY <3>1, <5>5, <5>6, <5>7, <5>8
        <4> QED
          BY <4>1, <4>2
      <3> QED
        BY <3>6, <3>7 DEF TakesAny
    <2>2. TakesAny(g, rows, c, {})
      BY <1>0 DEF TakesAny
    <2>3. \A s \in SUBSET S : Cardinality(s) <= n + 1 => TakesAny(g, rows, c, s)
      BY <2>1, <2>2
    <2> QED
      BY <2>3
  <1>4. \A n \in Nat : n \in P
    <2> HIDE DEF P
    <2> QED
      BY <1>2, <1>3, InductionInASet
  <1>5. \A s \in SUBSET S : TakesAny(g, rows, c, s)
    <2>1. Cardinality(S) \in P
      BY <1>4, FS_CardinalityType
    <2> QED
      BY <2>1, OneLess
  <1> QED
    BY <1>0, <1>5

(* A sum is the same over whatever holds the same.                         *)
LEMMA SameSum ==
    ASSUME NEW c, NEW rows, NEW S, IsFiniteSet(S), \A i \in S : rows[i][c] \in Int,
           NEW others, NEW T, IsFiniteSet(T), NEW pi \in Bijection(S, T),
           \A i \in S : others[pi[i]][c] = rows[i][c]
    PROVE ColumnSum(rows, c, S) = ColumnSum(others, c, T)
  <1> DEFINE g == CHOOSE x : IsSum(x, rows, c, S)
             h == CHOOSE x : IsSum(x, others, c, T)
             Image(s) == {pi[i] : i \in s}
             P == {n \in Nat : \A s \in SUBSET S : Cardinality(s) = n => g[s] = h[Image(s)]}
  <1>1. /\ pi \in [S -> T] /\ \A t \in T : \E i \in S : pi[i] = t
        /\ \A i, j \in S : pi[i] = pi[j] => i = j
    BY DEF Bijection, Injection, Surjection, IsInjective
  <1>2. \A t \in T : others[t][c] \in Int
    BY <1>1
  <1>3. IsSum(g, rows, c, S)
    BY SumExists
  <1>4. IsSum(h, others, c, T)
    BY <1>2, SumExists
  <1>5. ColumnSum(rows, c, S) = g[S] /\ ColumnSum(others, c, T) = h[T]
    BY ColumnSumIs
  <1> HIDE DEF g, h
  <1>6. g[{}] = 0 /\ \A s \in SUBSET S : TakesAny(g, rows, c, s)
    BY <1>3, SumTakes
  <1>7. h[{}] = 0 /\ \A t \in SUBSET T : TakesAny(h, others, c, t)
    BY <1>2, <1>4, SumTakes
  <1>8. 0 \in P
    <2>1. ASSUME NEW s \in SUBSET S, Cardinality(s) = 0 PROVE g[s] = h[Image(s)]
      <3>1. s = {} /\ Image(s) = {}
        BY <2>1, OneLess
      <3> HIDE DEF Image
      <3> QED
        BY <1>6, <1>7, <3>1
    <2> HIDE DEF Image
    <2> QED
      BY <2>1
  <1>9. ASSUME NEW n \in Nat, n \in P PROVE n + 1 \in P
    <2>1. ASSUME NEW s \in SUBSET S, Cardinality(s) = n + 1 PROVE g[s] = h[Image(s)]
      <3>1. PICK x \in s : TRUE
        BY <2>1, OneLess
      <3> DEFINE r == s \ {x}
                 y == pi[x]
      <3>2. r \in SUBSET S /\ Cardinality(r) = n
        BY <2>1, <3>1, OneLess
      <3>3. g[r] = h[Image(r)]
        <4> HIDE DEF r, Image
        <4> QED
          BY <1>9, <3>2
      <3>4. Image(s) \in SUBSET T /\ y \in Image(s) /\ Image(s) \ {y} = Image(r)
        BY <1>1, <3>1
      <3>5. others[y][c] = rows[x][c]
        BY <3>1
      <3>6. g[s] = rows[x][c] + g[r]
        BY <1>6, <3>1 DEF TakesAny
      <3> HIDE DEF r, y, Image
      <3>7. h[Image(s)] = others[y][c] + h[Image(r)]
        BY <1>7, <3>4 DEF TakesAny
      <3> QED
        BY <3>3, <3>5, <3>6, <3>7
    <2> HIDE DEF Image
    <2> QED
      BY <2>1
  <1>10. Cardinality(S) \in P
    <2>1. Cardinality(S) \in Nat
      BY FS_CardinalityType
    <2> HIDE DEF P
    <2> QED
      BY <1>8, <1>9, <2>1, InductionInASet
  <1>11. Image(S) = T
    BY <1>1
  <1> HIDE DEF Image
  <1>12. g[S] = h[T]
    BY <1>10, <1>11
  <1> QED
    BY <1>5, <1>12
(* The places of S at which f holds x.                                     *)
Places(S, f, x) == {i \in S : f[i] = x}

(* Where either of two finite lists holds a value as often as the other,   *)
(* their places are paired off, and partners hold the same.                *)
LEMMA PairedOff ==
    ASSUME NEW S, IsFiniteSet(S), NEW T, IsFiniteSet(T), NEW f, NEW k,
           \A x : Cardinality(Places(S, f, x)) = Cardinality(Places(T, k, x))
    PROVE \E pi \in Bijection(S, T) : \A i \in S : k[pi[i]] = f[i]
  <1> DEFINE A(x) == Places(S, f, x)
             B(x) == Places(T, k, x)
             beta(x) == CHOOSE b : b \in Bijection(A(x), B(x))
             pi == [i \in S |-> beta(f[i])[i]]
  <1>1. ASSUME NEW x
        PROVE /\ beta(x) \in [A(x) -> B(x)]
              /\ \A i, j \in A(x) : beta(x)[i] = beta(x)[j] => i = j
              /\ \A j \in B(x) : \E i \in A(x) : beta(x)[i] = j
    <2>1. IsFiniteSet(A(x)) /\ IsFiniteSet(B(x))
      BY FS_Subset DEF Places
    <2>2. Cardinality(A(x)) = Cardinality(B(x))
      OBVIOUS
    <2> HIDE DEF A, B
    <2>3. ExistsBijection(A(x), B(x))
      BY <2>1, <2>2, FS_SameCardinalityBij
    <2>4. beta(x) \in Bijection(A(x), B(x))
      BY <2>3 DEF ExistsBijection
    <2> HIDE DEF beta
    <2> QED
      BY <2>4 DEF Bijection, Injection, Surjection, IsInjective
  <1> HIDE DEF beta
  <1>2. ASSUME NEW i \in S
        PROVE i \in A(f[i]) /\ pi[i] \in T /\ k[pi[i]] = f[i] /\ pi[i] = beta(f[i])[i]
    <2>1. i \in A(f[i]) /\ pi[i] = beta(f[i])[i]
      BY DEF Places
    <2>2. beta(f[i])[i] \in B(f[i])
      BY <1>1, <2>1
    <2> QED
      BY <2>1, <2>2 DEF Places
  <1>3. ASSUME NEW i \in S, NEW j \in S, pi[i] = pi[j] PROVE i = j
    <2>1. f[i] = f[j]
      BY <1>2, <1>3
    <2>2. i \in A(f[i]) /\ j \in A(f[i]) /\ beta(f[i])[i] = beta(f[i])[j]
      BY <1>2, <1>3, <2>1
    <2> HIDE DEF A, B, pi
    <2> QED
      BY <1>1, <2>2
  <1>4. ASSUME NEW j \in T PROVE \E i \in S : pi[i] = j
    <2>1. j \in B(k[j])
      BY DEF Places
    <2>2. PICK i \in A(k[j]) : beta(k[j])[i] = j
      BY <1>1, <2>1
    <2>3. i \in S /\ f[i] = k[j]
      BY DEF Places
    <2>4. pi[i] = j
      BY <1>2, <2>2, <2>3
    <2> QED
      BY <2>3, <2>4
  <1>5. pi \in [S -> T]
    BY <1>2
  <1> HIDE DEF pi
  <1>6. pi \in Bijection(S, T)
    BY <1>3, <1>4, <1>5 DEF Bijection, Injection, Surjection, IsInjective
  <1> QED
    BY <1>2, <1>6

(* A part of the places and its partners.                                  *)
LEMMA PartPairedOff ==
    ASSUME NEW S, IsFiniteSet(S), NEW T, NEW pi \in Bijection(S, T),
           NEW A \in SUBSET S, NEW B \in SUBSET T, \A i \in S : i \in A <=> pi[i] \in B
    PROVE /\ Restrict(pi, A) \in Bijection(A, B)
          /\ IsFiniteSet(A) /\ IsFiniteSet(B) /\ Cardinality(A) = Cardinality(B)
  <1> DEFINE f == Restrict(pi, A)
  <1>1. /\ \A i, j \in S : pi[i] = pi[j] => i = j
        /\ \A j \in T : \E i \in S : pi[i] = j
    BY DEF Bijection, Injection, Surjection, IsInjective
  <1>0. \A i \in A : f[i] = pi[i]
    BY DEF Restrict
  <1>2. f \in [A -> B]
    BY <1>0 DEF Restrict
  <1>3. \A i, j \in A : f[i] = f[j] => i = j
    BY <1>0, <1>1
  <1>4. ASSUME NEW j \in B PROVE \E i \in A : f[i] = j
    <2>1. PICK i \in S : pi[i] = j
      BY <1>1
    <2>2. i \in A /\ f[i] = j
      BY <1>0, <2>1
    <2> QED
      BY <2>2
  <1> HIDE DEF f
  <1>5. f \in Bijection(A, B)
    BY <1>2, <1>3, <1>4 DEF Bijection, Injection, Surjection, IsInjective
  <1>6. IsFiniteSet(A) /\ ExistsBijection(A, B)
    BY <1>5, FS_Subset DEF ExistsBijection
  <1>7. IsFiniteSet(B) /\ Cardinality(A) = Cardinality(B)
    BY <1>6, FS_Bijection
  <1> QED
    BY <1>5, <1>6, <1>7 DEF f

(* The rows of two tables are paired off.                                  *)
Partners(pi, cols) ==
    /\ pi \in Bijection(DOMAIN left.rows, DOMAIN right.rows)
    /\ \A i \in DOMAIN left.rows : \A c \in cols : right.rows[pi[i]][c] = left.rows[i][c]

(* Tables that hold the same have rows that are partners.                  *)
LEMMA RowsAreOfTwo ==
    ASSUME NEW cols, IsSequence(left.rows), IsSequence(right.rows),
           Holding(left, cols) = Holding(right, cols)
    PROVE \E pi : Partners(pi, cols)
  <1> DEFINE m == Len(left.rows)
             n == Len(right.rows)
             p == [i \in 1..m |-> [c \in cols |-> left.rows[i][c]]]
             q == [j \in 1..n |-> [c \in cols |-> right.rows[j][c]]]
  <1>1. m \in Nat /\ DOMAIN left.rows = 1..m /\ n \in Nat /\ DOMAIN right.rows = 1..n
    BY SequenceIs
  <1>2. /\ \A i \in 1..m : p[i] = [c \in cols |-> left.rows[i][c]]
        /\ \A j \in 1..n : q[j] = [c \in cols |-> right.rows[j][c]]
    OBVIOUS
  <1> HIDE DEF m, n, p, q
  <1>3. Holding(left, cols) = Bag(p, m)
    BY <1>1, <1>2, HoldingIs
  <1>4. Holding(right, cols) = Bag(q, n)
    BY <1>1, <1>2, HoldingIs
  <1>5. Held(p, m) = Held(q, n) /\ \A x \in Held(p, m) : Often(p, m, x) = Often(q, n, x)
    BY <1>3, <1>4 DEF Bag
  <1>6. ASSUME NEW x PROVE Often(p, m, x) = Often(q, n, x)
    <2>1. CASE x \in Held(p, m)
      BY <1>5, <2>1
    <2>2. CASE x \notin Held(p, m)
      <3>1. {i \in 1..m : p[i] = x} = {} /\ {j \in 1..n : q[j] = x} = {}
        BY <1>5, <2>2 DEF Held
      <3> QED
        BY <3>1 DEF Often
    <2> QED
      BY <2>1, <2>2
  <1>7. IsFiniteSet(1..m) /\ IsFiniteSet(1..n)
    BY <1>1, FS_Interval
  <1>8. \E pi \in Bijection(1..m, 1..n) : \A i \in 1..m : q[pi[i]] = p[i]
    <2>1. \A x : Cardinality(Places(1..m, p, x)) = Cardinality(Places(1..n, q, x))
      BY <1>6 DEF Often, Places
    <2> DEFINE M == 1..m
               N == 1..n
    <2>2. /\ IsFiniteSet(M) /\ IsFiniteSet(N)
          /\ \A x : Cardinality(Places(M, p, x)) = Cardinality(Places(N, q, x))
      BY <1>7, <2>1
    <2> HIDE DEF M, N
    <2>3. \E pi \in Bijection(M, N) : \A i \in M : q[pi[i]] = p[i]
      BY <2>2, PairedOff
    <2> QED
      BY <2>3 DEF M, N
  <1>9. PICK pi \in Bijection(1..m, 1..n) : \A i \in 1..m : q[pi[i]] = p[i]
    BY <1>8
  <1>10. ASSUME NEW i \in 1..m, NEW c \in cols PROVE right.rows[pi[i]][c] = left.rows[i][c]
    <2>1. pi[i] \in 1..n
      BY DEF Bijection, Injection
    <2>2. q[pi[i]][c] = right.rows[pi[i]][c] /\ p[i][c] = left.rows[i][c]
      BY <1>2, <2>1
    <2> QED
      BY <1>9, <2>2
  <1> QED
    BY <1>1, <1>10 DEF Partners

(* Partners are as many on either side.                                    *)
LEMMA AsManyRows ==
    ASSUME NEW pi, NEW cols, Partners(pi, cols), IsSequence(left.rows), IsSequence(right.rows)
    PROVE Len(left.rows) = Len(right.rows)
  <1>1. /\ Len(left.rows) \in Nat /\ DOMAIN left.rows = 1..Len(left.rows)
        /\ Len(right.rows) \in Nat /\ DOMAIN right.rows = 1..Len(right.rows)
    BY SequenceIs
  <1>2. ExistsBijection(1..Len(left.rows), 1..Len(right.rows))
    BY <1>1 DEF Partners, ExistsBijection
  <1>3. ASSUME NEW m \in Nat PROVE IsFiniteSet(1..m) /\ Cardinality(1..m) = m
    BY FS_Interval
  <1> QED
    BY <1>1, <1>2, <1>3, FS_Bijection

(* Level 4 finds no difference in a column they share.                     *)
LEMMA SameChecksum ==
    ASSUME NEW cols, NEW c \in cols, NEW pi, Partners(pi, cols),
           IsSequence(left.rows), IsSequence(right.rows), left.types[c] = right.types[c],
           \A i \in DOMAIN left.rows : left.rows[i][c] = Null \/ left.rows[i][c] \in Int
    PROVE Checksum(left, c) = Checksum(right, c)
  <1> DEFINE Filled(rows) == {i \in DOMAIN rows : rows[i][c] # Null}
             Values(rows) == {rows[i][c] : i \in Filled(rows)}
             Same(rows, t) == {i \in Filled(rows) : AsText(rows[i][c], left.types[c]) = t}
             S == Filled(left.rows)
             T == Filled(right.rows)
  <1>1. /\ pi \in Bijection(DOMAIN left.rows, DOMAIN right.rows)
        /\ \A i \in DOMAIN left.rows : right.rows[pi[i]][c] = left.rows[i][c]
        /\ \A i \in DOMAIN left.rows : pi[i] \in DOMAIN right.rows
        /\ \A j \in DOMAIN right.rows : \E i \in DOMAIN left.rows : pi[i] = j
    BY DEF Partners, Bijection, Injection, Surjection
  <1>2. IsFiniteSet(DOMAIN left.rows)
    <2>1. Len(left.rows) \in Nat /\ DOMAIN left.rows = 1..Len(left.rows)
      BY SequenceIs
    <2>2. ASSUME NEW m \in Nat PROVE IsFiniteSet(1..m)
      BY FS_Interval
    <2> QED
      BY <2>1, <2>2
  <1>3. \A i \in DOMAIN left.rows : i \in S <=> pi[i] \in T
    BY <1>1
  <1>4. /\ Restrict(pi, S) \in Bijection(S, T)
        /\ IsFiniteSet(S) /\ IsFiniteSet(T) /\ Cardinality(S) = Cardinality(T)
    <2> DEFINE M == DOMAIN left.rows
               N == DOMAIN right.rows
    <2>1. S \in SUBSET M /\ T \in SUBSET N
      OBVIOUS
    <2>2. pi \in Bijection(M, N) /\ IsFiniteSet(M) /\ \A i \in M : i \in S <=> pi[i] \in T
      BY <1>1, <1>2, <1>3
    <2> HIDE DEF M, N, S, T
    <2> QED
      BY <2>1, <2>2, PartPairedOff
  <1>5. Values(left.rows) = Values(right.rows) /\ (S = {} <=> T = {})
    BY <1>1, <1>3
  <1>6. ColumnSum(left.rows, c, S) = ColumnSum(right.rows, c, T)
    <2> DEFINE f == Restrict(pi, S)
    <2>1. \A i \in S : left.rows[i][c] \in Int /\ right.rows[f[i]][c] = left.rows[i][c]
      BY <1>1 DEF Restrict
    <2> HIDE DEF S, T, f
    <2> QED
      BY <1>4, <2>1, SameSum DEF f
  <1>7. ASSUME NEW t PROVE Cardinality(Same(left.rows, t)) = Cardinality(Same(right.rows, t))
    <2> DEFINE A == Same(left.rows, t)
               B == Same(right.rows, t)
    <2>1. A \in SUBSET DOMAIN left.rows /\ B \in SUBSET DOMAIN right.rows
      OBVIOUS
    <2>2. \A i \in DOMAIN left.rows : i \in A <=> pi[i] \in B
      BY <1>1
    <2> HIDE DEF A, B
    <2>3. Cardinality(A) = Cardinality(B)
      BY <1>1, <1>2, <2>1, <2>2, PartPairedOff
    <2> QED
      BY <2>3 DEF A, B
  <1>8. Len(left.rows) = Len(right.rows)
    BY AsManyRows
  <1> DEFINE number == seen.leftTypes[c].base \in {"integer", "numeric"} /\ c \notin TextCoerced
             Texts(rows) == {AsText(v, left.types[c]) : v \in Values(rows)}
             Sum(rows) == [nulls |-> Len(rows) - Cardinality(Filled(rows)),
                           numbers |-> IF number /\ Filled(rows) # {}
                                       THEN <<ColumnSum(rows, c, Filled(rows)),
                                              Min(Values(rows)), Max(Values(rows))>>
                                       ELSE <<>>,
                           digest |-> [t \in IF number THEN {} ELSE Texts(rows) |->
                                         Cardinality(Same(rows, t))]]
  <1>9. Checksum(left, c) = Sum(left.rows)
    BY DEF Checksum, ColumnSum
  <1>10. Checksum(right, c) = Sum(right.rows)
    BY DEF Checksum, ColumnSum
  <1>11. Sum(left.rows) = Sum(right.rows)
    <2>1. Texts(left.rows) = Texts(right.rows)
      <3> HIDE DEF Values
      <3> QED
        BY <1>5
    <2>2. [t \in IF number THEN {} ELSE Texts(left.rows) |-> Cardinality(Same(left.rows, t))] =
          [t \in IF number THEN {} ELSE Texts(right.rows) |-> Cardinality(Same(right.rows, t))]
      <3> HIDE DEF Same, Texts, number
      <3> QED
        BY <1>7, <2>1
    <2> HIDE DEF Same, Texts, number, Values, Filled
    <2> QED
      BY <1>4, <1>5, <1>6, <1>8, <2>2
  <1> HIDE DEF Sum
  <1> QED
    BY <1>9, <1>10, <1>11

(* Level 5 finds that partners agree, and no row has another partner.      *)
LEMMA PartnersAgree ==
    ASSUME NEW cols, NEW pi, Partners(pi, cols), IsSequence(left.rows), IsSequence(right.rows),
           KeyIsUnique(left, KeyColumns), ToSet(KeyColumns) \subseteq cols,
           \A c \in cols : left.types[c] = right.types[c], Payload \cup Stored \subseteq cols
    PROVE RowsAgree
  <1> DEFINE I == DOMAIN left.rows
             J == DOMAIN right.rows
  <1>1. /\ \A i \in I : left.rows[i] \in ToSet(left.rows)
        /\ \A j \in J : right.rows[j] \in ToSet(right.rows)
        /\ \A l \in ToSet(left.rows) : \E i \in I : left.rows[i] = l
        /\ \A r \in ToSet(right.rows) : \E j \in J : right.rows[j] = r
    BY DEF ToSet
  <1>2. /\ \A i \in I : pi[i] \in J
        /\ \A j \in J : \E i \in I : pi[i] = j
        /\ \A i \in I : \A c \in cols : right.rows[pi[i]][c] = left.rows[i][c]
    BY DEF Partners, Bijection, Injection, Surjection
  <1> HIDE DEF I, J
  <1>3. ASSUME NEW i \in I, NEW D \in SUBSET cols
        PROVE TextOf(left, left.rows[i], D) = TextOf(right, right.rows[pi[i]], D)
    BY <1>2 DEF TextOf
  <1>4. ASSUME NEW i \in I PROVE SameKey(left.rows[i], right.rows[pi[i]])
    BY <1>3 DEF SameKey
  <1>5. ASSUME NEW i \in I, NEW k \in I, SameKey(left.rows[i], right.rows[pi[k]]) PROVE i = k
    <2>1. TextOf(left, left.rows[i], ToSet(KeyColumns)) =
          TextOf(left, left.rows[k], ToSet(KeyColumns))
      BY <1>4, <1>5 DEF SameKey
    <2> QED
      BY <2>1 DEF KeyIsUnique, I
  <1>6. ASSUME NEW i \in I
        PROVE /\ ~StoredDiffers(left.rows[i], right.rows[pi[i]])
              /\ ~ContentDiffers(left.rows[i], right.rows[pi[i]])
    BY <1>2, <1>3 DEF StoredDiffers, ContentDiffers
  <1>7. \A l \in ToSet(left.rows) : \E r \in ToSet(right.rows) : SameKey(l, r)
    BY <1>1, <1>2, <1>4
  <1>8. \A r \in ToSet(right.rows) : \E l \in ToSet(left.rows) : SameKey(l, r)
    BY <1>1, <1>2, <1>4
  <1>9. ASSUME NEW l \in ToSet(left.rows), NEW r \in ToSet(right.rows), SameKey(l, r)
        PROVE ~StoredDiffers(l, r) /\ ~ContentDiffers(l, r)
    <2>1. PICK i \in I : left.rows[i] = l
      BY <1>1
    <2>2. PICK j \in J : right.rows[j] = r
      BY <1>1
    <2>3. PICK k \in I : pi[k] = j
      BY <1>2
    <2>4. i = k
      BY <1>5, <1>9, <2>1, <2>2, <2>3
    <2> QED
      BY <1>6, <2>1, <2>2, <2>3, <2>4
  <1> QED
    BY <1>7, <1>8, <1>9 DEF RowsAgree

-----------------------------------------------------------------------------
(* No false alarm.                                                         *)

(* A cell of the left table is a number, or empty.                         *)
NumbersInv == pc \notin {"next", "exit", "broken"} => HoldNumbers(left.rows, left.cols)

(* Of equal tables every level so far has passed or was left out, and level *)
(* 5 has nothing to take a sample of.                                      *)
EqualInv ==
    pc \notin {"next", "exit", "broken"} /\ arrivals = 0 /\ EqualTables =>
        /\ \A i \in 1..Len(levels) : levels[i].passed /\ levels[i].deviations = {}
        /\ pc # "samples"

(* A level that found nothing at all.                                      *)
Clean(result) == result.passed /\ result.deviations = {}

(* The columns that are compared of equal tables are all but the volatile. *)
LEMMA AllAreCompared ==
    ASSUME EqualTables, seen.leftCols = left.cols, seen.leftTypes = left.types,
           seen.rightCols = right.cols, seen.rightTypes = right.types
    PROVE /\ Common = ToSet(left.cols) /\ TextCoerced = {}
          /\ Comparable = ToSet(left.cols) \ Volatile
          /\ Payload \cup Stored \subseteq ToSet(left.cols) \ Volatile
          /\ TypeDifferences = {} /\ NameDifferences(seen.leftCols, seen.rightCols) = {}
  <1>1. left.cols = right.cols /\ left.types = right.types
    BY DEF EqualTables
  <1>2. Common = ToSet(left.cols) /\ \A c \in Common : SameType(c)
    BY <1>1 DEF Common, SameType
  <1>3. TypeMismatch = {} /\ TypeDifferences = {}
    BY <1>2 DEF TypeMismatch, TypeDifferences
  <1>4. TextCoerced = {}
    BY <1>3 DEF TextCoerced
  <1>5. Comparable = ToSet(left.cols) \ Volatile
    BY <1>2, <1>4 DEF Comparable
  <1>6. Payload \subseteq Comparable
    BY DEF Payload
  <1>7. Stored \subseteq ToSet(left.cols) \ Volatile
    BY <1>2 DEF Stored, HashColumn, Volatile
  <1>8. NameDifferences(seen.leftCols, seen.rightCols) = {}
    BY <1>1 DEF NameDifferences
  <1> QED
    BY <1>2, <1>3, <1>4, <1>5, <1>6, <1>7, <1>8

(* No difference is none that is not accepted.                             *)
LEMMA NothingToAccept == ASSUME NEW n PROVE Clean(AcceptDeviations(n, {}))
  BY DEF Clean, AcceptDeviations, Passed

(* What is compared of tables of which nothing has been reported but that  *)
(* they are equal.                                                         *)
LEMMA EqualSeen ==
    ASSUME GoldenInv, EqualInv, EqualTables, arrivals = 0,
           pc \in {"names", "types", "checksums", "rows"}
    PROVE /\ seen.leftCols = left.cols /\ seen.leftTypes = left.types
          /\ seen.rightCols = right.cols /\ seen.rightTypes = right.types
  <1>1. BothThere
    <2>1. CASE pc = "names"
      BY <2>1 DEF BothThere
    <2>2. CASE pc # "names"
      <3>1. Len(levels) \in 2..4
        BY <2>2 DEF GoldenInv, PlaceInv
      <3>2. levels[1].passed
        BY <3>1 DEF EqualInv
      <3> QED
        BY <3>1, <3>2 DEF BothThere
    <2> QED
      BY <2>1, <2>2
  <1> QED
    BY <1>1 DEF GoldenInv, SeenInv

(* The rows of equal tables are partners.                                  *)
LEMMA EqualPartners ==
    ASSUME GoldenInv, EqualTables, arrivals = 0, pc \notin {"next", "exit", "broken"}
    PROVE /\ IsSequence(left.rows) /\ IsSequence(right.rows)
          /\ \E pi : Partners(pi, ToSet(left.cols) \ Volatile)
  <1>1. IsSequence(left.rows) /\ IsSequence(right.rows)
    BY DEF GoldenInv, PairInv
  <1>2. Holding(left, ToSet(left.cols) \ Volatile) = Holding(right, ToSet(left.cols) \ Volatile)
    BY DEF EqualTables
  <1> QED
    BY <1>1, <1>2, RowsAreOfTwo

(* There is a level to come.                                               *)
LEMMA OneToCome ==
    ASSUME GoldenInv, pc \in {"count", "names", "types", "checksums", "rows", "samples"}
    PROVE Len(levels) < 5
  BY Empty DEF GoldenInv, PlaceInv

(* A level that finds nothing is reported.                                 *)
LEMMA OneMoreClean ==
    ASSUME GoldenInv, EqualInv, pc \notin {"next", "exit", "broken"}, NEW result, NEW place,
           Goto(result, place), place # "samples", TablesAlone, Len(levels) < 5,
           arrivals = 0 /\ EqualTables => Clean(result)
    PROVE EqualInv'
  <1>1. /\ UNCHANGED <<left, right, options, arrivals>> /\ pc' = place
        /\ levels' = Append(levels, result)
    BY DEF Goto, TablesAlone
  <1>2. EqualTables' <=> EqualTables
    BY <1>1 DEF EqualTables, KeyIsUnique, KeyColumns, Holding, TextOf
  <1>3. IsSequence(levels)
    BY DEF GoldenInv, PlaceInv
  <1>4. /\ Len(levels) \in Nat /\ Len(levels') = Len(levels) + 1
        /\ levels'[Len(levels) + 1] = result
        /\ \A i \in 1..Len(levels) : levels'[i] = levels[i]
    BY <1>1, <1>3, OneMore, SequenceIs
  <1>5. ASSUME arrivals = 0, EqualTables, NEW i \in 1..Len(levels')
        PROVE levels'[i].passed /\ levels'[i].deviations = {}
    <2>1. i \in 1..Len(levels) \/ i = Len(levels) + 1
      BY <1>4
    <2>2. CASE i \in 1..Len(levels)
      BY <1>4, <1>5, <2>2 DEF EqualInv
    <2>3. CASE i = Len(levels) + 1
      BY <1>4, <1>5, <2>3 DEF Clean
    <2> QED
      BY <2>1, <2>2, <2>3
  <1> QED
    BY <1>1, <1>2, <1>5 DEF EqualInv

(* A level that is not reported yet, of tables that stay what they are.    *)
LEMMA NoMoreLevel ==
    ASSUME EqualInv, UNCHANGED <<left, right, options, arrivals, levels>>,
           pc \notin {"next", "exit", "broken"}, arrivals = 0 /\ EqualTables => pc' # "samples"
    PROVE EqualInv'
  <1>1. EqualTables' <=> EqualTables
    BY DEF EqualTables, KeyIsUnique, KeyColumns, Holding, TextOf
  <1> QED
    BY <1>1 DEF EqualInv

(* Both tables are there.                                                  *)
LEMMA EqualExistence == ASSUME GoldenInv, EqualInv, Existence PROVE EqualInv'
  <1>1. pc = "existence" /\ UNCHANGED <<left, right, options, verdicts, arrivals, seen, error>>
    BY DEF Existence, TablesAlone
  <1>2. CASE left.exists /\ right.exists
    <2>1. pc' = "count" /\ UNCHANGED levels
      BY <1>2 DEF Existence
    <2> QED
      BY <1>1, <2>1, NoMoreLevel
  <1>3. CASE ~(left.exists /\ right.exists)
    <2>1. ~EqualTables'
      BY <1>1, <1>3 DEF EqualTables
    <2> QED
      BY <2>1 DEF EqualInv
  <1> QED
    BY <1>2, <1>3

(* Partners are as many on either side.                                   *)
LEMMA EqualRowCount == ASSUME GoldenInv, EqualInv, RowCount PROVE EqualInv'
  <1> DEFINE result == IF Len(left.rows) = Len(right.rows) THEN Passed(1) ELSE Failed(1)
  <1>1. pc = "count" /\ Goto(result, "columns") /\ TablesAlone /\ Len(levels) < 5
    BY OneToCome DEF RowCount
  <1>2. ASSUME arrivals = 0, EqualTables PROVE Clean(result)
    <2>1. Len(left.rows) = Len(right.rows)
      BY <1>1, <1>2, EqualPartners, AsManyRows
    <2> QED
      BY <2>1 DEF Clean, Passed
  <1> HIDE DEF result
  <1> QED
    BY <1>1, <1>2, OneMoreClean

(* The catalogue answers the same for both.                                *)
LEMMA EqualColumns == ASSUME EqualInv, Columns PROVE EqualInv'
  <1>1. /\ pc = "columns" /\ pc' = "names" /\ UNCHANGED <<left, right, options, arrivals, levels>>
    BY DEF Columns, TablesAlone
  <1> QED
    BY <1>1, NoMoreLevel

(* No name is missing, in surplus or in another place.                     *)
LEMMA EqualColumnNames == ASSUME GoldenInv, EqualInv, ColumnNames PROVE EqualInv'
  <1> DEFINE result == AcceptDeviations(2, NameDifferences(seen.leftCols, seen.rightCols))
  <1>1. pc = "names" /\ Goto(result, "types") /\ TablesAlone /\ Len(levels) < 5
    BY OneToCome DEF ColumnNames
  <1>2. ASSUME arrivals = 0, EqualTables PROVE Clean(result)
    <2>1. NameDifferences(seen.leftCols, seen.rightCols) = {}
      BY <1>1, <1>2, EqualSeen, AllAreCompared
    <2> QED
      BY <2>1, NothingToAccept
  <1> HIDE DEF result
  <1> QED
    BY <1>1, <1>2, OneMoreClean

(* No type differs.                                                        *)
LEMMA EqualColumnTypes == ASSUME GoldenInv, EqualInv, ColumnTypes PROVE EqualInv'
  <1> DEFINE result == AcceptDeviations(3, TypeDifferences)
  <1>1. pc = "types" /\ Goto(result, "checksums") /\ TablesAlone /\ Len(levels) < 5
    BY OneToCome DEF ColumnTypes
  <1>2. ASSUME arrivals = 0, EqualTables PROVE Clean(result)
    <2>1. TypeDifferences = {}
      BY <1>1, <1>2, EqualSeen, AllAreCompared
    <2> QED
      BY <2>1, NothingToAccept
  <1> HIDE DEF result
  <1> QED
    BY <1>1, <1>2, OneMoreClean

(* No checksum differs.                                                    *)
LEMMA EqualChecksums == ASSUME GoldenInv, NumbersInv, EqualInv, Checksums PROVE EqualInv'
  <1> DEFINE agree == \A c \in Comparable : Checksum(left, c) = Checksum(right, c)
             result == [Passed(4) EXCEPT !.passed = agree, !.approximate = TextCoerced # {}]
  <1>1. pc = "checksums" /\ TablesAlone /\ Len(levels) < 5
    BY OneToCome DEF Checksums
  <1>2. Goto(Skipped(4), "rows") \/ Goto(result, "rows")
    BY Zenon DEF Checksums
  <1>3. ASSUME arrivals = 0, EqualTables PROVE agree
    <2> DEFINE cols == ToSet(left.cols) \ Volatile
    <2>1. Comparable = cols
      BY <1>1, <1>3, EqualSeen, AllAreCompared
    <2>2. IsSequence(left.rows) /\ IsSequence(right.rows) /\ \E pi : Partners(pi, cols)
      BY <1>1, <1>3, EqualPartners
    <2>3. ASSUME NEW c \in cols PROVE Checksum(left, c) = Checksum(right, c)
      <3>1. left.types[c] = right.types[c]
        BY <1>3 DEF EqualTables
      <3>2. \A i \in DOMAIN left.rows : left.rows[i][c] = Null \/ left.rows[i][c] \in Int
        <4> SUFFICES ASSUME NEW i \in DOMAIN left.rows
                     PROVE left.rows[i][c] = Null \/ left.rows[i][c] \in Int
          OBVIOUS
        <4>1. left.rows[i] \in ToSet(left.rows) /\ c \in ToSet(left.cols)
          BY DEF ToSet
        <4> QED
          BY <1>1, <4>1 DEF NumbersInv, HoldNumbers
      <3> HIDE DEF cols
      <3> QED
        BY <2>2, <3>1, <3>2, SameChecksum
    <2> QED
      BY <2>1, <2>3
  <1>4. agree \in BOOLEAN
    OBVIOUS
  <1> HIDE DEF agree
  <1>5. ASSUME arrivals = 0, EqualTables PROVE Clean(result)
    BY <1>3, <1>5 DEF Clean, Passed
  <1>6. Clean(Skipped(4))
    BY DEF Clean, Skipped, Passed
  <1> HIDE DEF result
  <1> QED
    BY <1>1, <1>2, <1>5, <1>6, OneMoreClean

(* Partners agree on the key, on the stored hash and on the content.       *)
LEMMA EqualRowHashes == ASSUME GoldenInv, EqualInv, RowHashes PROVE EqualInv'
  <1> DEFINE result == [Passed(5) EXCEPT !.passed = RowsAgree,
                           !.approximate = Payload = {} \/ TextCoerced # {}]
  <1>1. pc = "rows" /\ TablesAlone /\ Len(levels) < 5
    BY OneToCome DEF RowHashes
  <1>2. \/ Goto(Skipped(5), "done")
        \/ ~RowLevelSkipped /\ RowsAgree /\ Goto(result, "done")
        \/ ~RowLevelSkipped /\ ~RowsAgree /\ pc' = "samples" /\ UNCHANGED levels
    BY Zenon DEF RowHashes
  <1>3. ASSUME arrivals = 0, EqualTables, ~RowLevelSkipped PROVE RowsAgree
    <2> DEFINE cols == ToSet(left.cols) \ Volatile
    <2>1. Common = ToSet(left.cols) /\ Payload \cup Stored \subseteq cols
      BY <1>1, <1>3, EqualSeen, AllAreCompared
    <2>2. IsSequence(left.rows) /\ IsSequence(right.rows) /\ \E pi : Partners(pi, cols)
      BY <1>1, <1>3, EqualPartners
    <2>3. ToSet(KeyColumns) \subseteq cols
      BY <1>3, <2>1 DEF RowLevelSkipped, EqualTables
    <2>4. KeyIsUnique(left, KeyColumns) /\ \A c \in cols : left.types[c] = right.types[c]
      BY <1>3 DEF EqualTables
    <2> HIDE DEF cols
    <2> QED
      BY <2>1, <2>2, <2>3, <2>4, PartnersAgree
  <1>4. CASE Goto(Skipped(5), "done")
    <2>1. Clean(Skipped(5))
      BY DEF Clean, Skipped, Passed
    <2> QED
      BY <1>1, <1>4, <2>1, OneMoreClean
  <1>5. CASE RowsAgree /\ Goto(result, "done")
    <2>1. Clean(result)
      BY <1>5 DEF Clean, Passed
    <2> HIDE DEF result
    <2> QED
      BY <1>1, <1>5, <2>1, OneMoreClean
  <1>6. CASE ~RowLevelSkipped /\ ~RowsAgree /\ pc' = "samples" /\ UNCHANGED levels
    <2>1. ~(arrivals = 0 /\ EqualTables)
      BY <1>3, <1>6
    <2>2. UNCHANGED <<left, right, options, arrivals, levels>>
      BY <1>1, <1>6 DEF TablesAlone
    <2> QED
      BY <1>1, <2>1, <2>2, NoMoreLevel
  <1> QED
    BY <1>2, <1>4, <1>5, <1>6

(* Nothing to take a sample of.                                            *)
LEMMA EqualSamples == ASSUME GoldenInv, EqualInv, Samples PROVE EqualInv'
  <1> DEFINE result == [Failed(5) EXCEPT !.approximate = Payload = {} \/ TextCoerced # {}]
  <1>1. pc = "samples" /\ Goto(result, "done") /\ TablesAlone /\ Len(levels) < 5
    BY OneToCome DEF Samples
  <1>2. ~(arrivals = 0 /\ EqualTables)
    BY <1>1 DEF EqualInv
  <1> HIDE DEF result
  <1> QED
    BY <1>1, <1>2, OneMoreClean

(* A statement fails; the next pair is taken up, or none; a pipeline       *)
(* arrives.                                                                *)
LEMMA EqualOthers ==
    ASSUME GoldenInv, EqualInv, QueryFails \/ Report \/ NextPair \/ MalformedEntry \/ Arrive
    PROVE EqualInv'
  <1>1. CASE QueryFails
    <2>1. /\ pc \notin {"next", "exit", "broken"} /\ pc' = "done"
          /\ UNCHANGED <<left, right, options, arrivals, levels>>
      BY <1>1 DEF QueryFails, TablesAlone
    <2> QED
      BY <2>1, NoMoreLevel
  <1>2. CASE Report \/ MalformedEntry
    <2>1. pc' \in {"next", "exit", "broken"}
      BY <1>2 DEF Report, MalformedEntry
    <2> QED
      BY <2>1 DEF EqualInv
  <1>3. CASE NextPair
    <2>1. pc' = "existence" /\ levels' = <<>>
      BY <1>3 DEF NextPair, GoldenInv, PlaceInv
    <2> QED
      BY <2>1, Empty DEF EqualInv
  <1>4. CASE Arrive
    <2>1. arrivals' # 0
      BY <1>4 DEF Arrive, GoldenInv, PlaceInv
    <2> QED
      BY <2>1 DEF EqualInv
  <1> QED
    BY <1>1, <1>2, <1>3, <1>4

(* The left table's cells.                                                 *)
LEMMA NumbersStay == ASSUME NumbersInv, [GoldenNext]_goldenVars PROVE NumbersInv'
  <1>1. CASE NextPair
    <2>1. PICK case \in Cases, l \in LeftRows, r \in RightRows : left' = Table(case.left, l)
      BY <1>1 DEF NextPair
    <2>2. HoldNumbers(l, case.left.cols)
      BY GoldenAssumption DEF GoldenAssumption
    <2>3. left'.rows = l /\ left'.cols = case.left.cols
      BY <2>1 DEF Table
    <2> QED
      BY <2>2, <2>3 DEF NumbersInv, HoldNumbers
  <1>2. CASE Report
    BY <1>2 DEF Report, NumbersInv
  <1>3. CASE ~NextPair /\ ~Report
    <2>1. UNCHANGED left /\ (pc \in {"next", "exit", "broken"} => pc' \in {"next", "exit", "broken"})
      BY <1>3 DEF GoldenNext, CompareTables, Existence, RowCount, Columns, ColumnNames, ColumnTypes,
         Checksums, RowHashes, Samples, QueryFails, MalformedEntry, Arrive, TablesAlone,
         goldenVars
    <2> QED
      BY <2>1 DEF NumbersInv, HoldNumbers
  <1> QED
    BY <1>1, <1>2, <1>3

(* The invariant of equal tables.                                          *)
LEMMA EqualInvariant == GoldenSpec => [](GoldenInv /\ NumbersInv /\ EqualInv)
  <1>1. GoldenInit => NumbersInv /\ EqualInv
    BY DEF GoldenInit, NumbersInv, EqualInv
  <1>2. GoldenInv /\ NumbersInv /\ EqualInv /\ [GoldenNext]_goldenVars => NumbersInv' /\ EqualInv'
    <2> SUFFICES ASSUME GoldenInv, NumbersInv, EqualInv, [GoldenNext]_goldenVars PROVE EqualInv'
      BY NumbersStay
    <2>1. CASE UNCHANGED goldenVars
      <3>1. UNCHANGED <<left, right, options, arrivals, levels, pc>>
        BY <2>1 DEF goldenVars
      <3>2. EqualTables' <=> EqualTables
        BY <3>1 DEF EqualTables, KeyIsUnique, KeyColumns, Holding, TextOf
      <3> QED
        BY <3>1, <3>2 DEF EqualInv
    <2>2. CASE GoldenNext
      BY <2>2, EqualExistence, EqualRowCount, EqualColumns, EqualColumnNames, EqualColumnTypes,
         EqualChecksums, EqualRowHashes, EqualSamples, EqualOthers DEF GoldenNext, CompareTables
    <2> QED
      BY <2>1, <2>2
  <1> QED
    BY <1>1, <1>2, GoldenInvariant, PTL DEF GoldenSpec

(* No false alarm, for any two tables and in whatever order their rows     *)
(* come: equal tables get MATCH (compare_tables).                          *)
THEOREM EqualTablesMatch == GoldenSpec => []EqualIsMatch
  <1>1. ASSUME GoldenInv, EqualInv, Undisturbed, EqualTables PROVE Verdict = "MATCH"
    <2>1. IsSequence(levels) /\ ~error
      BY <1>1 DEF GoldenInv, PlaceInv, Undisturbed
    <2>2. \A i \in 1..Len(levels) : levels[i].passed /\ levels[i].deviations = {}
      BY <1>1 DEF EqualInv, Undisturbed
    <2>3. \A r \in ToSet(levels) : r.passed /\ r.deviations = {}
      BY <2>1, <2>2, SequenceIs
    <2>4. FirstFailedLevel(levels) = 0
      <3>1. {r \in ToSet(levels) : ~r.passed /\ ~r.skipped} = {}
        BY <2>3
      <3> QED
        BY <3>1 DEF FirstFailedLevel
    <2> QED
      BY <2>1, <2>3, <2>4 DEF Verdict
  <1>2. GoldenInv /\ EqualInv => EqualIsMatch
    BY <1>1 DEF EqualIsMatch
  <1> QED
    BY <1>2, EqualInvariant, PTL

(* The verdict a migration rests on, in both directions: what is the same  *)
(* gets MATCH, and a clean MATCH that compared the rows is of the same     *)
(* tables (compare_tables, TableReport.verdict).                           *)
THEOREM MatchIsSame == GoldenSpec => []MatchIffSame
  <1>1. EqualIsMatch /\ MatchMeansIdentical => MatchIffSame
    BY DEF MatchIffSame
  <1> QED
    BY <1>1, EqualTablesMatch, MatchesAreIdentical, PTL
=============================================================================
