------------------------------ MODULE HashDiff ------------------------------
(***************************************************************************)
(* The strategy `hash_diff`: the hashes of all source rows are read into a *)
(* temporary table of the target (SourceHashSnapshot), compared with the   *)
(* hashes stored in the target, and only the rows that differ are fetched. *)
(* The same table is the list of live keys: rows that are not in it are    *)
(* marked `_deleted_in_source`.  A target that cannot be compared is       *)
(* loaded in full instead.                                                 *)
(*                                                                         *)
(* A row is the version it has; 0 is an absent row.  A hash is the version *)
(* it was computed from and the route it was computed along.  Where the    *)
(* source hashes, the route is always "plain".  Where pandas hashes        *)
(* (PostgreSQL), an integer column of a batch that has a NULL in it is     *)
(* read as floats, and its values hash as "1.0" instead of "1".            *)
(*                                                                         *)
(* Every batch is read as the source is when it is fetched; a query that   *)
(* sees one moment throughout is the case in which the source changes      *)
(* after the last batch.  All writes of a run are one transaction.         *)
(***************************************************************************)
EXTENDS Integers, FiniteSets

CONSTANTS
    MaxKey,         \* keys are 1..MaxKey
    MaxVersion,     \* versions of a row are 1..MaxVersion
    BatchSize,      \* rows of a batch of the scan and of the full load
    KeyBatch,       \* hash_download_batch_size: keys in one IN (...)
    NullKeys,       \* rows that have a NULL in a hashed integer column
    MaxChanges,     \* bound: changes of the source
    MaxFaults       \* bound: failed scans and dead runs

Keys == 1..MaxKey
Versions == 1..MaxVersion

ASSUME HashAssumption ==
    /\ MaxKey \in Nat \ {0}
    /\ MaxVersion \in Nat \ {0}
    /\ BatchSize \in Nat \ {0}
    /\ KeyBatch \in Nat \ {0}
    /\ NullKeys \subseteq Keys
    /\ MaxChanges \in Nat
    /\ MaxFaults \in Nat

VARIABLES
    inPandas,   \* the dialect's hash_in_pandas, which never changes
    src,        \* the version of each row of the source
    target,     \* the rows of the target
    step,       \* "idle", "scan", "download", "full"
    pos,        \* the last key of the open read
    snapshot,   \* SourceHashSnapshot: the hash of each scanned row
    todo,       \* changed_keys that have not been fetched
    staged,     \* the staging table, or the shadow of the full load
    held,       \* versions each row has had since the run began (history)
    changes,
    faults

runVars == <<step, pos, snapshot, todo, staged>>
vars == <<inPandas, src, target, runVars, held, changes, faults>>

Routes == {"none", "old", "plain", "float"}
Hashes == [v: 0..MaxVersion, route: Routes]
NoHash == [v |-> 0, route |-> "none"]

Rows == [v: 0..MaxVersion, hash: Hashes, deleted: BOOLEAN]
NoRow == [v |-> 0, hash |-> NoHash, deleted |-> FALSE]
NoRows == [k \in Keys |-> NoRow]

InTable(t) == {k \in Keys : t[k].v # 0}
Live == {k \in Keys : src[k] # 0}

TypeOK ==
    /\ inPandas \in BOOLEAN
    /\ src \in [Keys -> 0..MaxVersion]
    /\ target \in [Keys -> Rows]
    /\ step \in {"idle", "scan", "download", "full"}
    /\ pos \in 0..MaxKey
    /\ snapshot \in [Keys -> Hashes]
    /\ todo \subseteq Keys
    /\ staged \in [Keys -> Rows]
    /\ held \in [Keys -> SUBSET (0..MaxVersion)]
    /\ changes \in 0..MaxChanges
    /\ faults \in 0..MaxFaults

(* The target as an earlier extractor may have left it: rows without a     *)
(* hash, or with one computed along a route that is no longer taken.       *)
Init ==
    /\ inPandas \in BOOLEAN
    /\ src \in [Keys -> {0, 1}]
    /\ \E route \in [Keys -> {"absent", "none", "old"}] :
          target = [k \in Keys |->
                       IF route[k] = "absent" THEN NoRow
                       ELSE [v |-> 1, deleted |-> FALSE,
                             hash |-> IF route[k] = "none" THEN NoHash
                                      ELSE [v |-> 1, route |-> "old"]]]
    /\ step = "idle"
    /\ pos = 0
    /\ snapshot = [k \in Keys |-> NoHash]
    /\ todo = {}
    /\ staged = NoRows
    /\ held = [k \in Keys |-> {}]
    /\ changes = 0
    /\ faults = 0

-----------------------------------------------------------------------------
(* The source: a row is inserted, updated or deleted.                      *)

Change(k, v) ==
    /\ changes < MaxChanges
    /\ v # src[k]
    /\ src' = [src EXCEPT ![k] = v]
    /\ held' = [held EXCEPT ![k] = @ \cup {v}]
    /\ changes' = changes + 1
    /\ UNCHANGED <<inPandas, target, runVars, faults>>

-----------------------------------------------------------------------------
(* Reading.                                                                *)

(* The next batch of a read ordered by the key.                            *)
NextBatch ==
    {k \in Live : pos < k /\ Cardinality({j \in Live : pos < j /\ j <= k}) <= BatchSize}

(* The next query of the read comes back empty.                            *)
NothingLeft == \A k \in Live : k <= pos

(* The largest key of a batch, where the next one goes on.                 *)
LastOf(b) == {k \in b : \A j \in b : j <= k}

(* compute_row_hashes on one batch.  The text of a NULL is "" in any type. *)
RouteIn(b, k) ==
    IF inPandas /\ k \notin NullKeys /\ b \cap NullKeys # {} THEN "float" ELSE "plain"

HashIn(b, k) == [v |-> src[k], route |-> RouteIn(b, k)]

(* Mutant of Prepared: a fetched row is hashed along another route.        *)
PreparedElsewhere(b, k) ==
    [v |-> src[k], hash |-> [v |-> src[k], route |-> "float"], deleted |-> FALSE]

(* `_prepare`: the row, its hash, and _deleted_in_source = FALSE.          *)
Prepared(b, k) == [v |-> src[k], hash |-> HashIn(b, k), deleted |-> FALSE]

WithRows(t, b) == [k \in Keys |-> IF k \in b THEN Prepared(b, k) ELSE t[k]]

-----------------------------------------------------------------------------
(* The run.                                                                *)

(* `_precheck`: the target is empty, or has no hash at all.                *)
NothingToCompare == \A k \in InTable(target) : target[k].hash = NoHash

(* A full load begins with a count; over an empty source it ends there.    *)
FullOrNothing == IF Live = {} THEN "idle" ELSE "full"

StartRun ==
    /\ step = "idle"
    /\ step' = IF NothingToCompare THEN FullOrNothing ELSE "scan"
    /\ pos' = 0
    /\ snapshot' = [k \in Keys |-> NoHash]
    /\ todo' = {}
    /\ staged' = NoRows
    /\ held' = [k \in Keys |-> {src[k]}]
    /\ UNCHANGED <<inPandas, src, target, changes, faults>>

ScanBatch ==
    /\ step = "scan"
    /\ NextBatch # {}
    /\ snapshot' = [k \in Keys |-> IF k \in NextBatch THEN HashIn(NextBatch, k) ELSE snapshot[k]]
    /\ pos' \in LastOf(NextBatch)
    /\ UNCHANGED <<inPandas, src, target, step, todo, staged, held, changes, faults>>

Scanned == {k \in Keys : snapshot[k] # NoHash}
Added == Scanned \ InTable(target)

(* Mutant of Differs: `<>` instead of IS DISTINCT FROM.                    *)
DiffersByInequality(k) == target[k].hash # NoHash /\ target[k].hash # snapshot[k]

(* IS DISTINCT FROM: a stored NULL differs from every hash.                *)
Differs(k) == target[k].hash # snapshot[k]

Changed == {k \in Scanned \cap InTable(target) : Differs(k)}
Matched == {k \in Scanned \cap InTable(target) : ~Differs(k)}

(* `_reseed_reason`: drifted hashes, or more to fetch than the target has. *)
HasNullHash == \E k \in InTable(target) : target[k].hash = NoHash
Reseed ==
    /\ InTable(target) # {}
    /\ \/ /\ 100 * Cardinality(Changed) >= 95 * Cardinality(InTable(target))
          /\ Matched = {}
       \/ /\ Cardinality(Added) + Cardinality(Changed) >= Cardinality(InTable(target))
          /\ HasNullHash

(* changed_keys                                                            *)
ToFetch == Added \cup Changed

(* fallback_full                                                           *)
FallBack ==
    /\ step' = FullOrNothing
    /\ pos' = 0
    /\ staged' = NoRows
    /\ held' = [k \in Keys |-> {src[k]}]
    /\ UNCHANGED <<inPandas, src, target, snapshot, todo, changes>>

(* The scan is complete: `diff` and the choice it leads to.                *)
Compare ==
    /\ step = "scan"
    /\ NothingLeft
    /\ ~Reseed
    /\ step' = "download"
    /\ todo' = ToFetch
    /\ UNCHANGED <<inPandas, src, target, pos, snapshot, staged, held, changes, faults>>

CompareDrifted ==
    /\ step = "scan"
    /\ NothingLeft
    /\ Reseed
    /\ FallBack
    /\ UNCHANGED faults

(* Mutant of ScanFails: what has been scanned is taken for the source.     *)
ScanStopsShort ==
    /\ step = "scan"
    /\ faults < MaxFaults
    /\ step' = "download"
    /\ todo' = ToFetch
    /\ faults' = faults + 1
    /\ UNCHANGED <<inPandas, src, target, pos, snapshot, staged, held, changes>>

(* `_scan` gives a reason: the source failed and could not be resumed.     *)
ScanFails ==
    /\ step = "scan"
    /\ faults < MaxFaults
    /\ FallBack
    /\ faults' = faults + 1

(* `_read_keys`: one IN (...), in no particular order of the keys.         *)
Download(b) ==
    /\ step = "download"
    /\ b # {}
    /\ Cardinality(b) = KeyBatch \/ (Cardinality(b) < KeyBatch /\ b = todo)
    /\ todo' = todo \ b
    /\ staged' = WithRows(staged, b \cap Live)
    /\ UNCHANGED <<inPandas, src, target, step, pos, snapshot, held, changes, faults>>

(* Mutant of MarkDeleted: only vanished rows are marked, none is revived.  *)
MarkVanished(t) ==
    [k \in Keys |-> IF t[k].v # 0 /\ k \notin Scanned THEN [t[k] EXCEPT !.deleted = TRUE] ELSE t[k]]

(* mark_deleted_in_source marks what vanished and revives what came back.  *)
MarkDeleted(t) ==
    [k \in Keys |-> IF t[k].v # 0 THEN [t[k] EXCEPT !.deleted = (k \notin Scanned)] ELSE t[k]]

(* The upsert from the staging table, mark_deleted_in_source, and commit.  *)
Apply ==
    /\ step = "download"
    /\ todo = {}
    /\ target' = MarkDeleted([k \in Keys |->
                                 IF staged[k].v # 0 THEN staged[k] ELSE target[k]])
    /\ step' = "idle"
    /\ UNCHANGED <<inPandas, src, pos, snapshot, todo, staged, held, changes, faults>>

(* The full load reads batch by batch and swaps the shadow in.             *)
FullBatch ==
    /\ step = "full"
    /\ NextBatch # {}
    /\ staged' = WithRows(staged, NextBatch)
    /\ pos' \in LastOf(NextBatch)
    /\ UNCHANGED <<inPandas, src, target, step, snapshot, todo, held, changes, faults>>

FullSwap ==
    /\ step = "full"
    /\ NothingLeft
    /\ target' = staged
    /\ step' = "idle"
    /\ UNCHANGED <<inPandas, src, pos, snapshot, todo, staged, held, changes, faults>>

(* The run raises or dies: its transaction is rolled back.                 *)
RunDies ==
    /\ step # "idle"
    /\ faults < MaxFaults
    /\ step' = "idle"
    /\ faults' = faults + 1
    /\ UNCHANGED <<inPandas, src, target, pos, snapshot, todo, staged, held, changes>>

Progress ==
    \/ ScanBatch \/ Compare \/ CompareDrifted
    \/ \E b \in SUBSET todo : Download(b)
    \/ Apply \/ FullBatch \/ FullSwap

Next ==
    \/ \E k \in Keys, v \in 0..MaxVersion : Change(k, v)
    \/ StartRun
    \/ Progress
    \/ ScanFails
    \/ RunDies

Spec == Init /\ [][Next]_vars

(* The scheduler starts run after run, and a run that is started goes on.  *)
FairSpec == Spec /\ WF_vars(StartRun) /\ WF_vars(Progress)

-----------------------------------------------------------------------------
(* Properties.                                                             *)

(* A row is marked as deleted only when it was absent from the source at   *)
(* some moment of the run.  The live keys are those of the scan, so a scan *)
(* that ended early and was believed would mark the rest of the table.     *)
NoFalseDeletion ==
    [][\A k \in Keys :
          target'[k].deleted /\ ~target[k].deleted => 0 \in held[k]]_vars

(* After a run that wrote, every row that was in the source all along is   *)
(* in the target, not deleted, as it was at some moment of the run: a      *)
(* match of the hashes, which skips the row, is never wrong, and a row     *)
(* that changes between the scan and its download is not lost.             *)
RunBringsRows ==
    [][Apply \/ FullSwap =>
          \A k \in Keys : 0 \notin held[k] =>
              target'[k].v \in held[k] /\ ~target'[k].deleted]_vars

Mirrored(k) ==
    IF src[k] = 0 THEN target[k].v = 0 \/ target[k].deleted
    ELSE target[k].v = src[k] /\ ~target[k].deleted

(* When the source, which is not empty, rests and the faults end, the runs *)
(* bring the target to mirror it, from any hashes an earlier extractor may *)
(* have left: no row is skipped for ever, and rows come back from deleted. *)
Convergence == <>[](Live # {} => \A k \in Keys : Mirrored(k))

(* And where the source hashes, in the end nothing is fetched any more: a  *)
(* hash that is stored is the one the next scan computes (_read_keys:      *)
(* otherwise "the same rows would be transferred forever").  Where pandas  *)
(* hashes this fails: the route depends on the other rows of the batch.    *)
Settles == ~inPandas => <>[](step = "download" => todo = {})
=============================================================================
