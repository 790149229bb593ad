--------------------------- MODULE WatermarkLoad ---------------------------
(***************************************************************************)
(* The strategies `id_watermark` and `abra_watermark`: rows are only ever  *)
(* added to the source, and a run reads those above the watermark, which   *)
(* is stored nowhere: it is the maximum found in the target.  The target   *)
(* is therefore right only as long as it has no hole below its maximum.    *)
(*                                                                         *)
(* Each row has a counter that grows with every new row and belongs to a   *)
(* suffix (the database identifier of ABRA).  For id_watermark there is    *)
(* one suffix and the counter is the key.  For ABRA the counter is written *)
(* least significant digit first, so that the order of the keys, which is  *)
(* the order of the read, is not the order of the counter.                 *)
(***************************************************************************)
EXTENDS ReadWithResume

CONSTANTS
    Suffixes,
    SuffixOf,         \* Keys -> Suffixes
    Counter,          \* Keys -> Nat
    Configured,       \* abra_id_suffixes; for id_watermark all there is
    EstimatesDelta,   \* id_watermark counts the new rows first, abra_watermark does not
    CheckpointRows,   \* checkpoint_rows; 0 is off
    CommitInOrder,    \* the source commits the rows in the order of their counters
    MaxFaults         \* bound: source errors and crashes

ASSUME WatermarkAssumption ==
    /\ SuffixOf \in [Keys -> Suffixes]
    /\ Counter \in [Keys -> Nat]
    /\ Configured \subseteq Suffixes
    /\ EstimatesDelta \in BOOLEAN
    /\ CheckpointRows \in Nat
    /\ CommitInOrder \in BOOLEAN
    /\ MaxFaults \in Nat

VARIABLES
    assigned,   \* keys the source has ever given out
    inFlight,   \* keys of transactions of the source that are not committed
    target,     \* the rows committed in the target
    staged,     \* the rows in the staging table, in the open transaction
    step,       \* the step of the run
    faults

loadVars == <<target, staged, step, faults>>
writerVars == <<assigned, inFlight>>
vars == <<allReadVars, writerVars, loadVars>>

TypeOK ==
    /\ ReadTypeOK
    /\ assigned \subseteq Keys
    /\ inFlight \subseteq assigned
    /\ target \subseteq Keys
    /\ staged \subseteq Keys
    /\ step \in {"idle", "full", "delta", "checkpoint"}
    /\ faults \in 0..MaxFaults

Init ==
    /\ ReadInit
    /\ assigned = rows
    /\ inFlight = {}
    /\ target = {}
    /\ staged = {}
    /\ step = "idle"
    /\ faults = 0

Older(j, k) == SuffixOf[j] = SuffixOf[k] /\ Counter[j] < Counter[k]

-----------------------------------------------------------------------------
(* The source.                                                             *)

(* A transaction of the source takes the next counter.                     *)
Assign(k) ==
    /\ k \notin assigned
    /\ \A j \in assigned : SuffixOf[j] = SuffixOf[k] => Older(j, k)
    /\ assigned' = assigned \cup {k}
    /\ inFlight' = inFlight \cup {k}
    /\ UNCHANGED <<allReadVars, loadVars>>

CommitRow(k) ==
    /\ k \in inFlight
    /\ CommitInOrder => ~\E j \in inFlight : Older(j, k)
    /\ Insert(k)
    /\ inFlight' = inFlight \ {k}
    /\ UNCHANGED <<assigned, loadVars>>

DeleteRow(k) ==
    /\ Delete(k)
    /\ UNCHANGED <<writerVars, loadVars>>

-----------------------------------------------------------------------------
(* The run.                                                                *)

(* The condition of the read: per suffix, above the maximum of the target. *)
AboveWatermark(k) ==
    /\ SuffixOf[k] \in Configured
    /\ \A t \in target : SuffixOf[t] = SuffixOf[k] => Counter[t] < Counter[k]

Delta == {k \in Keys : AboveWatermark(k)}

(* The target is empty (fallback_full), or forced_full_load rewrites the   *)
(* strategy.  An estimate of no rows leaves the target alone.              *)
StartFull(forced) ==
    /\ step = "idle"
    /\ target = {} \/ forced
    /\ rows # {}
    /\ Begin(Keys)
    /\ step' = "full"
    /\ UNCHANGED <<writerVars, target, staged, faults>>

StartDelta ==
    /\ step = "idle"
    /\ target # {}
    /\ EstimatesDelta => rows \cap Delta # {}
    /\ Begin(Delta)
    /\ step' = "delta"
    /\ UNCHANGED <<writerVars, target, staged, faults>>

(* The estimate counts no rows: the run ends where it began.               *)
NothingNew ==
    /\ step = "idle"
    /\ \/ rows = {}
       \/ target # {} /\ EstimatesDelta /\ rows \cap Delta = {}
    /\ UNCHANGED vars

(* Checkpoints are off for a surrogate key, whose read is not ordered.     *)
CheckpointDue(n) == step = "delta" /\ CheckpointRows > 0 /\ HasKey /\ n >= CheckpointRows

LoadBatch(b) ==
    /\ step \in {"full", "delta"}
    /\ Deliver(b)
    /\ staged' = staged \cup b
    /\ step' = IF CheckpointDue(Cardinality(staged')) THEN "checkpoint" ELSE step
    /\ UNCHANGED <<writerVars, target, faults>>

(* The staging table is upserted into the target and dropped, one commit.  *)
Checkpoint ==
    /\ step = "checkpoint"
    /\ target' = target \cup staged
    /\ staged' = {}
    /\ step' = "delta"
    /\ UNCHANGED <<allReadVars, writerVars, faults>>

(* The generator goes on without a batch for the load to keep.             *)
ReadOn ==
    /\ step \in {"full", "delta"}
    /\ OpenQuery \/ DeliverEmptyFrame \/ Exhaust
    /\ UNCHANGED <<writerVars, loadVars>>

(* Mutant of FinishDelta: what was staged since the last checkpoint is     *)
(* dropped with the staging table.                                         *)
FinishWithoutTail ==
    /\ step = "delta"
    /\ phase = "done"
    /\ Abandon
    /\ staged' = {}
    /\ step' = "idle"
    /\ UNCHANGED <<writerVars, target, faults>>

(* The last upsert, DROP of the staging table, and commit.                 *)
FinishDelta ==
    /\ step = "delta"
    /\ phase = "done"
    /\ Abandon
    /\ target' = target \cup staged
    /\ staged' = {}
    /\ step' = "idle"
    /\ UNCHANGED <<writerVars, faults>>

(* The full load swaps its shadow into the target.                         *)
FinishFull ==
    /\ step = "full"
    /\ phase = "done"
    /\ Abandon
    /\ target' = staged
    /\ staged' = {}
    /\ step' = "idle"
    /\ UNCHANGED <<writerVars, faults>>

Drop(temporary) ==
    /\ step \in {"full", "delta"}
    /\ faults < MaxFaults
    /\ SourceError(temporary)
    /\ faults' = faults + 1
    /\ UNCHANGED <<writerVars, target, staged, step>>

RollBack ==
    /\ Abandon
    /\ staged' = {}
    /\ step' = "idle"
    /\ UNCHANGED <<writerVars, target>>

(* The error of the read comes through; what was staged is rolled back.    *)
RunFails ==
    /\ step # "idle"
    /\ phase = "failed"
    /\ RollBack
    /\ UNCHANGED faults

(* The process dies, or the target raises, at any point of the run.        *)
RunDies ==
    /\ step # "idle"
    /\ faults < MaxFaults
    /\ RollBack
    /\ faults' = faults + 1

SourceChanges == \E k \in Keys : Assign(k) \/ CommitRow(k) \/ DeleteRow(k)

Progress ==
    \/ \E b \in SUBSET pending : LoadBatch(b)
    \/ Checkpoint \/ ReadOn \/ FinishDelta \/ FinishFull \/ RunFails

Start == StartDelta \/ \E forced \in BOOLEAN : StartFull(forced)

Next ==
    \/ SourceChanges
    \/ Start
    \/ NothingNew
    \/ Progress
    \/ \E temporary \in BOOLEAN : Drop(temporary)
    \/ RunDies

Spec == Init /\ [][Next]_vars

(* The scheduler starts run after run, and a run that is started goes on.  *)
FairSpec == Spec /\ WF_vars(Start) /\ WF_vars(Progress)

-----------------------------------------------------------------------------
(* Properties.                                                             *)

Covers(rs, t) ==
    \A k \in rs : SuffixOf[k] = SuffixOf[t] /\ Counter[k] <= Counter[t] => k \in target

(* No row that is in the source lies at or below the watermark of its      *)
(* suffix without being in the target: such a row would never be read      *)
(* again.  Checkpoints, failed runs and resumed reads all leave the target *)
(* with its maximum moved, and each of them could move it past a row.      *)
NoHole == \A t \in target : SuffixOf[t] \in Configured => Covers(rows, t)

(* When the source rests and the faults end, the repeated runs bring every *)
(* row of the configured suffixes into the target.                         *)
Convergence == <>[](\A k \in rows : SuffixOf[k] \in Configured => k \in target)
=============================================================================
