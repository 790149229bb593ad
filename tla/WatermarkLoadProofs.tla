------------------------ MODULE WatermarkLoadProofs -------------------------
(***************************************************************************)
(* A watermark that is found as the maximum of the target never passes a   *)
(* row, for any number of rows, batch size, checkpoint size, attempts and  *)
(* faults, when the counter is the key the read is ordered by              *)
(* (id_watermark) and the source commits its rows in that order.           *)
(*                                                                         *)
(* The argument: a row that appears is above everything that was committed *)
(* before it (SourceInv), so what has been handed over of a window stays   *)
(* closed below, even for rows that appear during the read (ClosedInv);    *)
(* and what lies below the window was in the target when the run began     *)
(* (RunInv).  Target and staging together are then closed below at every   *)
(* step, whatever part of it a checkpoint, a failure or a death commits.   *)
(***************************************************************************)
EXTENDS WatermarkLoad, ReadWithResumeProofs

(* id_watermark over a source that commits its rows in the order of their  *)
(* keys.  With a counter that is not the key (ABRA) NoHole is false: the   *)
(* run WatermarkLoad_abracheckpoint.                                       *)
CounterIsKey ==
    /\ HasKey
    /\ CommitInOrder
    /\ \A j, k \in Keys : Older(j, k) <=> j < k
    /\ \A k \in Keys : SuffixOf[k] \in Configured

Committed == assigned \ inFlight

SourceInv ==
    /\ rows \subseteq Committed
    /\ pending \subseteq Committed
    /\ got \subseteq Committed
    /\ target \subseteq Committed
    /\ \A r \in Committed, k \in inFlight : r < k

ClosedInv ==
    /\ sawRow => lastKey \in got /\ \A g \in got : g <= lastKey
    /\ ~sawRow => got = {}
    /\ \A g \in got, p \in pending : g < p
    /\ \A g \in got, k \in rows \cap window : k <= g => k \in got
    /\ \A p \in pending, k \in rows \cap window : k <= p => k \in got \cup pending

RunInv ==
    /\ staged \subseteq got
    /\ step \in {"delta", "checkpoint"} =>
           /\ got \subseteq target \cup staged
           /\ \A k \in Keys \ window : \E t \in target : k <= t
    /\ step = "full" => staged = got /\ window = Keys
    /\ step = "idle" => staged = {}

BelowTarget == \A t \in target, k \in rows : k <= t => k \in target

IInv == TypeOK /\ SourceInv /\ ClosedInv /\ RunInv /\ BelowTarget

-----------------------------------------------------------------------------
(* The load is a caller of the reader.                                     *)

StepsInv == step = "idle" <=> phase = "off"

(* Every step of a load is a step of the reader or leaves it alone: what   *)
(* holds for the reader with any caller holds within the load.             *)
LEMMA LoadStepsAreReadSteps ==
    ASSUME StepsInv, [Next]_vars PROVE [ReadNext]_allReadVars /\ StepsInv'
  <1> USE DEF StepsInv
  <1>1. CASE SourceChanges
    BY <1>1 DEF SourceChanges, Assign, CommitRow, DeleteRow, Insert, Delete, ReadNext, SourceStep,
       allReadVars, readVars, loadVars
  <1>2. CASE Start
    <2>1. Keys \in SUBSET Keys /\ Delta \in SUBSET Keys
      BY DEF Delta
    <2> QED
      BY <1>2, <2>1 DEF Start, StartDelta, StartFull, Begin, ReadNext
  <1>3. ASSUME NEW b \in SUBSET pending, LoadBatch(b)
        PROVE  [ReadNext]_allReadVars /\ StepsInv'
    BY <1>3 DEF LoadBatch, Deliver, ReadNext, ReadStep, CheckpointDue
  <1>4. CASE Checkpoint
    BY <1>4 DEF Checkpoint, allReadVars, readVars
  <1>5. CASE ReadOn
    BY <1>5 DEF ReadOn, OpenQuery, DeliverEmptyFrame, Exhaust, ReadNext, ReadStep, loadVars
  <1>6. CASE FinishDelta \/ FinishFull \/ RunFails \/ RunDies
    BY <1>6 DEF FinishDelta, FinishFull, RunFails, RunDies, RollBack, Abandon, ReadNext
  <1>7. ASSUME NEW temporary \in BOOLEAN, Drop(temporary)
        PROVE  [ReadNext]_allReadVars /\ StepsInv'
    BY <1>7 DEF Drop, SourceError, ReadNext
  <1>8. CASE NothingNew \/ UNCHANGED vars
    BY <1>8 DEF NothingNew, vars, allReadVars, readVars, loadVars
  <1> QED
    BY <1>1, <1>2, <1>3, <1>4, <1>5, <1>6, <1>7, <1>8 DEF Next, Progress

(* A watermark load uses the reader as the reader may be used              *)
(* (read_with_resume called by _download of the two strategies).           *)
THEOREM LoadIsACaller == Spec => ReadSpec
  <1>1. Init => ReadInit /\ StepsInv
    BY DEF Init, ReadInit, StepsInv
  <1>2. StepsInv /\ [Next]_vars => StepsInv' /\ [ReadNext]_allReadVars
    BY LoadStepsAreReadSteps
  <1> QED
    BY <1>1, <1>2, PTL DEF Spec, ReadSpec

-----------------------------------------------------------------------------
(* Types.                                                                  *)

LEMMA TypesKept == ASSUME TypeOK, [Next]_vars, ReadTypeOK' PROVE TypeOK'
  <1> USE DEF TypeOK
  <1>1. faults < MaxFaults => faults + 1 \in 0..MaxFaults
    BY WatermarkAssumption DEF WatermarkAssumption
  <1>2. CASE SourceChanges
    BY <1>2 DEF SourceChanges, Assign, CommitRow, DeleteRow, loadVars, writerVars
  <1>3. CASE Start \/ NothingNew
    BY <1>3 DEF Start, StartDelta, StartFull, NothingNew, writerVars, vars, loadVars
  <1>4. ASSUME NEW b \in SUBSET pending, LoadBatch(b) PROVE TypeOK'
    BY <1>4 DEF LoadBatch, writerVars, ReadTypeOK
  <1>5. CASE Checkpoint
    BY <1>5 DEF Checkpoint, writerVars
  <1>10. CASE ReadOn
    BY <1>10 DEF ReadOn, writerVars, loadVars
  <1>6. CASE FinishDelta \/ FinishFull \/ RunFails
    BY <1>6 DEF FinishDelta, FinishFull, RunFails, RollBack, writerVars
  <1>7. CASE RunDies
    BY <1>1, <1>7 DEF RunDies, RollBack, writerVars
  <1>8. ASSUME NEW temporary \in BOOLEAN, Drop(temporary) PROVE TypeOK'
    BY <1>1, <1>8 DEF Drop, writerVars
  <1>9. CASE UNCHANGED vars
    BY <1>9 DEF vars, writerVars, loadVars
  <1> QED
    BY <1>2, <1>3, <1>4, <1>5, <1>6, <1>7, <1>8, <1>9, <1>10 DEF Next, Progress

LEMMA FirstTypes == Init => TypeOK
  <1>1. 0 \in 0..MaxFaults
    BY WatermarkAssumption DEF WatermarkAssumption
  <1> QED
    BY <1>1, CoverInit DEF Init, TypeOK, CoverInv, ReadInit

(* The variables of a watermark load keep their types.                     *)
THEOREM WatermarkTypeCorrect == Spec => []TypeOK
  <1>1. TypeOK /\ [Next]_vars /\ ReadTypeOK' => TypeOK'
    BY TypesKept
  <1> QED
    BY <1>1, FirstTypes, LoadIsACaller, ReadTypeCorrect, PTL DEF Spec

(* Within a load, too, no row is skipped, whatever the order of the keys   *)
(* (read_with_resume).                                                     *)
THEOREM LoadSkipsNothing == Spec => []NothingSkipped
  BY LoadIsACaller, NoRowIsSkipped, PTL

(* Within a load no row is handed over twice (read_with_resume), so the    *)
(* staging table holds each key once.                                      *)
THEOREM LoadRepeatsNothing == ASSUME OrdersAgree PROVE Spec => []NeverRepeated
  <1>1. ReadSpec => []NeverRepeated
    BY NoRowIsRepeated
  <1> QED
    BY <1>1, LoadIsACaller, PTL

(* Within a load what is in the staging table is a prefix of the read      *)
(* (_download, which commits it at a checkpoint).                          *)
THEOREM LoadHandsOverAPrefix == ASSUME OrdersAgree PROVE Spec => []HandedOverIsAPrefix
  <1>1. ReadSpec => []HandedOverIsAPrefix
    BY PrefixHandedOver
  <1> QED
    BY <1>1, LoadIsACaller, PTL

-----------------------------------------------------------------------------
(* Every step keeps the target closed below.                               *)

LEMMA IntegerKeys == ASSUME TypeOK
                     PROVE  /\ \A k \in Keys : k \in Int
                            /\ rows \subseteq Keys /\ pending \subseteq Keys /\ got \subseteq Keys
                            /\ target \subseteq Keys /\ assigned \subseteq Keys
                            /\ inFlight \subseteq assigned /\ window \subseteq Keys
                            /\ lastKey \in Int
  BY DEF TypeOK, ReadTypeOK, Keys

LEMMA CounterOrdersKeys ==
    ASSUME CounterIsKey, NEW j \in Keys, NEW k \in Keys
    PROVE  /\ Older(j, k) <=> j < k
           /\ SuffixOf[j] = SuffixOf[k]
           /\ Counter[j] <= Counter[k] <=> j <= k
  <1>1. /\ Older(j, k) <=> j < k
        /\ Older(k, j) <=> k < j
    BY DEF CounterIsKey
  <1>2. j \in Int /\ k \in Int /\ Counter[j] \in Int /\ Counter[k] \in Int
    BY WatermarkAssumption DEF WatermarkAssumption, Keys
  <1>3. CASE j = k
    BY <1>1, <1>2, <1>3
  <1>4. CASE j < k
    BY <1>1, <1>2, <1>4 DEF Older
  <1>5. CASE k < j
    BY <1>1, <1>2, <1>5 DEF Older
  <1> QED
    BY <1>2, <1>3, <1>4, <1>5

LEMMA BelowMeansNoHole == CounterIsKey /\ TypeOK /\ BelowTarget => NoHole
  BY CounterOrdersKeys, IntegerKeys DEF NoHole, Covers, BelowTarget

LEMMA DeltaIsAbove ==
    ASSUME CounterIsKey, TypeOK, NEW k \in Keys
    PROVE  k \in Delta <=> \A t \in target : t < k
  <1>1. \A t \in target : /\ t \in Keys /\ t \in Int /\ k \in Int
                          /\ SuffixOf[t] = SuffixOf[k]
                          /\ Older(t, k) <=> t < k
    BY CounterOrdersKeys, IntegerKeys
  <1>2. SuffixOf[k] \in Configured
    BY DEF CounterIsKey
  <1> QED
    BY <1>1, <1>2 DEF Delta, AboveWatermark, Older

LEMMA FirstIInv == CounterIsKey /\ Init => IInv
  <1> SUFFICES ASSUME CounterIsKey, Init PROVE IInv
    OBVIOUS
  <1>1. TypeOK
    BY FirstTypes
  <1> QED
    BY <1>1, IntegerKeys DEF Init, ReadInit, IInv, SourceInv, ClosedInv, RunInv, BelowTarget,
       Committed

(* The source: what appears is above all that was committed before.        *)
LEMMA SourceKeeps == ASSUME CounterIsKey, IInv, TypeOK', SourceChanges PROVE IInv'
  <1> USE DEF IInv
  <1>1. ASSUME NEW k \in Keys, Assign(k) PROVE IInv'
    <2>1. \A j \in assigned : j < k
      BY <1>1, CounterOrdersKeys, IntegerKeys DEF Assign
    <2>2. Committed' = Committed
      BY <1>1, IntegerKeys DEF Assign, Committed
    <2>3. SourceInv'
      BY <1>1, <2>1, <2>2 DEF Assign, SourceInv, Committed, allReadVars, readVars,
         sourceVars, loadVars
    <2>4. ClosedInv' /\ RunInv' /\ BelowTarget'
      BY <1>1 DEF Assign, ClosedInv, RunInv, BelowTarget, allReadVars, readVars, sourceVars,
         loadVars
    <2> QED
      BY <2>3, <2>4
  <1>2. ASSUME NEW k \in Keys, CommitRow(k) PROVE IInv'
    <2>1. \A j \in inFlight : k <= j
      BY <1>2, CounterOrdersKeys, IntegerKeys DEF CommitRow, CounterIsKey
    <2>2. \A r \in Committed : r < k
      BY <1>2 DEF CommitRow, SourceInv
    <2>3. Committed' = Committed \cup {k}
      BY <1>2, IntegerKeys DEF CommitRow, Committed
    <2>4. SourceInv'
      BY <1>2, <2>1, <2>2, <2>3, IntegerKeys DEF CommitRow, Insert, SourceInv, readVars, loadVars,
         Committed
    <2>5. \A r \in got \cup pending \cup target : r \in Int /\ r < k /\ k \in Int
      BY <2>2, IntegerKeys DEF SourceInv
    <2>6. ClosedInv' /\ RunInv' /\ BelowTarget'
      BY <1>2, <2>5, IntegerKeys DEF CommitRow, Insert, ClosedInv, RunInv, BelowTarget,
         readVars, loadVars
    <2> QED
      BY <2>4, <2>6
  <1>3. ASSUME NEW k \in Keys, DeleteRow(k) PROVE IInv'
    BY <1>3 DEF DeleteRow, Delete, SourceInv, ClosedInv, RunInv, BelowTarget, readVars, loadVars,
       writerVars, Committed
  <1> QED
    BY <1>1, <1>2, <1>3 DEF SourceChanges

LEMMA StartKeeps == ASSUME CounterIsKey, IInv, TypeOK', Start PROVE IInv'
  <1> USE DEF IInv
  <1>1. SourceInv' /\ ClosedInv' /\ BelowTarget'
    BY DEF Start, StartDelta, StartFull, Begin, SourceInv, ClosedInv, BelowTarget, writerVars,
       Committed
  <1>2. ASSUME NEW forced \in BOOLEAN, StartFull(forced) PROVE RunInv'
    BY <1>2 DEF StartFull, Begin, RunInv
  <1>3. ASSUME StartDelta PROVE RunInv'
    <2>1. ASSUME NEW k \in Keys \ Delta PROVE \E t \in target : k <= t
      <3>1. PICK t \in target : ~(t < k)
        BY <2>1, DeltaIsAbove
      <3> QED
        BY <3>1, IntegerKeys
    <2> QED
      BY <1>3, <2>1 DEF StartDelta, Begin, RunInv
  <1> QED
    BY <1>1, <1>2, <1>3 DEF Start

(* The reader: what has been handed over stays closed below.               *)
LEMMA BatchKeeps ==
    ASSUME CounterIsKey, OrdersAgree, IInv, TypeOK', NEW b \in SUBSET pending, LoadBatch(b)
    PROVE  IInv'
  <1> USE DEF IInv
  <1>1. /\ Deliver(b) /\ pending' = pending \ b /\ got' = got \cup b
        /\ rows' = rows /\ window' = window /\ target' = target /\ staged' = staged \cup b
        /\ assigned' = assigned /\ inFlight' = inFlight
        /\ step' \in {step, "checkpoint"} /\ step \in {"full", "delta"}
        /\ step' # step => step = "delta"
    BY DEF LoadBatch, Deliver, CheckpointDue, sourceVars, writerVars
  <1>2. b \subseteq pending /\ \A k \in pending \cup got : k \in Int /\ k \in Keys
    BY IntegerKeys
  <1>3. /\ sawRow' = TRUE /\ lastKey' \in b /\ \A k \in b : k <= lastKey'
        /\ \A j \in b, k \in pending \ b : j < k
    BY <1>1, <1>2 DEF CounterIsKey, OrdersAgree, Deliver, IsBatch, LargestInPandas
  <1>4. SourceInv'
    BY <1>1 DEF SourceInv, Committed
  <1>5. ClosedInv'
    <2>1. \A g \in got' : g <= lastKey'
      BY <1>1, <1>2, <1>3 DEF ClosedInv
    <2>2. \A g \in got', p \in pending' : g < p
      BY <1>1, <1>2, <1>3 DEF ClosedInv
    <2>3. ASSUME NEW g \in got', NEW k \in rows \cap window, k <= g PROVE k \in got'
      <3>1. CASE g \in got
        BY <1>1, <2>3, <3>1 DEF ClosedInv
      <3>2. CASE g \in b
        <4>1. k \in got \cup pending
          BY <2>3, <3>2 DEF ClosedInv
        <4>2. k \notin pending \ b
          BY <1>2, <1>3, <2>3, <3>2
        <4> QED
          BY <1>1, <4>1, <4>2
      <3> QED
        BY <1>1, <2>3, <3>1, <3>2
    <2>4. \A p \in pending', k \in rows \cap window : k <= p => k \in got' \cup pending'
      BY <1>1 DEF ClosedInv
    <2> QED
      BY <1>1, <1>3, <2>1, <2>2, <2>3, <2>4 DEF ClosedInv
  <1>6. RunInv' /\ BelowTarget'
    BY <1>1 DEF RunInv, BelowTarget
  <1> QED
    BY <1>4, <1>5, <1>6

LEMMA ReadOnKeeps == ASSUME CounterIsKey, IInv, TypeOK', ReadOn PROVE IInv'
  <1> USE DEF IInv
  <1>1. ASSUME OpenQuery PROVE IInv'
    <2>1. /\ pending' = {k \in rows : k \in window /\ (sawRow => k > lastKey)}
          /\ UNCHANGED <<rows, window, got, sawRow, lastKey, assigned, inFlight, target, staged,
                         step>>
      BY <1>1 DEF ReadOn, OpenQuery, Selected, sourceVars, writerVars, loadVars
    <2>2. SourceInv' /\ RunInv' /\ BelowTarget'
      BY <2>1 DEF SourceInv, RunInv, BelowTarget, Committed
    <2>3. \A g \in got, p \in pending' : g < p
      BY <2>1, IntegerKeys DEF ClosedInv
    <2>4. \A k \in rows \cap window : k \in got \cup pending'
      BY <2>1, IntegerKeys DEF ClosedInv
    <2> QED
      BY <2>1, <2>2, <2>3, <2>4 DEF ClosedInv
  <1>2. ASSUME DeliverEmptyFrame \/ Exhaust PROVE IInv'
    BY <1>2 DEF ReadOn, DeliverEmptyFrame, Exhaust, SourceInv, ClosedInv, RunInv, BelowTarget,
       Committed, sourceVars, writerVars, loadVars
  <1> QED
    BY <1>1, <1>2 DEF ReadOn

LEMMA DropKeeps == ASSUME CounterIsKey, IInv, TypeOK', NEW temporary \in BOOLEAN, Drop(temporary)
                   PROVE  IInv'
  BY DEF IInv, Drop, SourceError, SourceInv, ClosedInv, RunInv, BelowTarget, Committed, sourceVars,
     writerVars

(* The target: what a checkpoint or the end of a run commits is closed     *)
(* below, and a run that fails leaves the last commit.                     *)
LEMMA UnionIsBelow ==
    ASSUME IInv, step \in {"delta", "checkpoint"},
           NEW t \in target \cup staged, NEW k \in rows, k <= t
    PROVE  k \in target \cup staged
  <1> USE DEF IInv
  <1>1. CASE t \in target
    BY <1>1 DEF BelowTarget
  <1>2. CASE t \in staged /\ k \in window
    BY <1>2 DEF RunInv, ClosedInv
  <1>3. CASE k \notin window
    BY <1>3, IntegerKeys DEF RunInv, BelowTarget
  <1> QED
    BY <1>1, <1>2, <1>3

LEMMA CommitsKeep == ASSUME CounterIsKey, IInv, TypeOK', Checkpoint \/ FinishDelta PROVE IInv'
  <1> USE DEF IInv
  <1>1. /\ step \in {"delta", "checkpoint"} /\ target' = target \cup staged /\ staged' = {}
        /\ step' \in {"delta", "idle"} /\ pending' \in {pending, {}}
        /\ UNCHANGED <<rows, window, got, sawRow, lastKey, assigned, inFlight>>
    BY DEF Checkpoint, FinishDelta, Abandon, allReadVars, readVars, sourceVars, writerVars
  <1>2. BelowTarget'
    BY <1>1, UnionIsBelow DEF BelowTarget
  <1>3. SourceInv'
    BY <1>1 DEF SourceInv, RunInv, Committed
  <1>4. ClosedInv'
    BY <1>1 DEF ClosedInv
  <1>5. RunInv'
    BY <1>1 DEF RunInv
  <1> QED
    BY <1>2, <1>3, <1>4, <1>5

LEMMA FullKeeps == ASSUME CounterIsKey, IInv, TypeOK', FinishFull PROVE IInv'
  <1> USE DEF IInv
  <1>1. /\ step = "full" /\ target' = got /\ staged' = {} /\ step' = "idle" /\ pending' = {}
        /\ window = Keys
        /\ UNCHANGED <<rows, window, got, sawRow, lastKey, assigned, inFlight>>
    BY DEF FinishFull, Abandon, sourceVars, writerVars, RunInv
  <1>2. BelowTarget'
    BY <1>1, IntegerKeys DEF ClosedInv, BelowTarget
  <1> QED
    BY <1>1, <1>2 DEF SourceInv, ClosedInv, RunInv, Committed

LEMMA FailuresKeep == ASSUME CounterIsKey, IInv, TypeOK', RunFails \/ RunDies PROVE IInv'
  BY DEF IInv, RunFails, RunDies, RollBack, Abandon, SourceInv, ClosedInv, RunInv, BelowTarget,
     Committed, sourceVars, writerVars

LEMMA StepKeeps == CounterIsKey /\ OrdersAgree /\ IInv /\ [Next]_vars /\ TypeOK' => IInv'
  <1> SUFFICES ASSUME CounterIsKey, OrdersAgree, IInv, [Next]_vars, TypeOK' PROVE IInv'
    OBVIOUS
  <1>1. ASSUME NothingNew \/ UNCHANGED vars PROVE IInv'
    BY <1>1 DEF NothingNew, vars, IInv, SourceInv, ClosedInv, RunInv, BelowTarget, Committed,
       allReadVars, readVars, sourceVars, writerVars, loadVars
  <1> QED
    BY <1>1, SourceKeeps, StartKeeps, BatchKeeps, ReadOnKeeps, DropKeeps, CommitsKeep, FullKeeps,
       FailuresKeep DEF Next, Progress

(* No row of the source lies below the watermark without being in the      *)
(* target: checkpoints, failures, deaths and resumed reads may leave the   *)
(* maximum of the target anywhere (id_watermark.py, _watermark).           *)
THEOREM WatermarkHasNoHole == ASSUME CounterIsKey, OrdersAgree PROVE Spec => []NoHole
  <1>1. Init => IInv
    BY FirstIInv
  <1>2. IInv /\ [Next]_vars /\ TypeOK' => IInv'
    BY StepKeeps
  <1>3. IInv => NoHole
    BY BelowMeansNoHole DEF IInv
  <1> QED
    BY <1>1, <1>2, <1>3, WatermarkTypeCorrect, PTL DEF Spec
=============================================================================
