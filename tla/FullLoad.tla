------------------------------ MODULE FullLoad ------------------------------
(***************************************************************************)
(* The strategy `full`: the source is read into a shadow table, and the    *)
(* shadow's rows are swapped into the target (TRUNCATE and INSERT in one   *)
(* transaction, so that views on the target keep working).                 *)
(*                                                                         *)
(* `session` is the target as the open transaction of the run sees it,     *)
(* `committed` as everybody else does.  What a row holds does not matter   *)
(* here; a table is the set of its keys, and the keys it holds twice.      *)
(***************************************************************************)
EXTENDS ReadWithResume

CONSTANTS
    SkipEstimate,   \* LOAD_SETTINGS.skip_size_estimate
    EmptyRowsOk,    \* the table's empty_rows_ok
    Partitioned,    \* LOAD_SETTINGS.partition_by is set
    HasPk,          \* a primary key is configured: deduplication and unique index
    MaxFaults       \* bound: source errors, target errors and crashes

ASSUME FullAssumption ==
    /\ SkipEstimate \in BOOLEAN
    /\ EmptyRowsOk \in BOOLEAN
    /\ Partitioned \in BOOLEAN
    /\ HasPk \in BOOLEAN
    /\ HasKey => HasPk
    /\ MaxFaults \in Nat

VARIABLES
    committed,
    session,
    step,       \* "idle", "read", "swap", "insert", "finish"
    shadowed,   \* a shadow table exists
    shadow,     \* the keys in it
    twice,      \* the keys in it more than once
    seen,       \* the keys in SeenKeys
    spec,       \* a partition spec is passed to swap_shadow_table
    faults

loadVars == <<committed, session, step, shadowed, shadow, twice, seen, spec>>
vars == <<allReadVars, loadVars, faults>>

Table == [exists: BOOLEAN,
          partitioned: BOOLEAN,
          rows: SUBSET Keys,
          twice: SUBSET Keys,
          index: {"none", "invalid", "valid"}]

NoTable == [exists |-> FALSE, partitioned |-> FALSE, rows |-> {}, twice |-> {},
            index |-> "none"]

TypeOK ==
    /\ ReadTypeOK
    /\ committed \in Table
    /\ session \in Table
    /\ step \in {"idle", "read", "swap", "insert", "finish"}
    /\ shadowed \in BOOLEAN
    /\ shadow \subseteq Keys
    /\ twice \subseteq Keys
    /\ seen \subseteq Keys
    /\ spec \in BOOLEAN
    /\ faults \in 0..MaxFaults

Init ==
    /\ ReadInit
    /\ committed = NoTable
    /\ session = NoTable
    /\ step = "idle"
    /\ shadowed = FALSE
    /\ shadow = {}
    /\ twice = {}
    /\ seen = {}
    /\ spec = FALSE
    /\ faults = 0

(* effective_spec: for an existing table, the table decides.               *)
EffectiveSpec(db) == Partitioned /\ (db.exists => db.partitioned)

-----------------------------------------------------------------------------
(* The estimate.                                                           *)

(* Rows, or no estimate at all: the read begins.  (A count of no rows      *)
(* without empty_rows_ok ends the run before it has changed anything.)     *)
StartRead ==
    /\ step = "idle"
    /\ SkipEstimate \/ rows # {}
    /\ Begin(Keys)
    /\ step' = "read"
    /\ shadowed' = FALSE
    /\ shadow' = {}
    /\ twice' = {}
    /\ seen' = {}
    /\ spec' = EffectiveSpec(session)
    /\ UNCHANGED <<committed, session, faults>>

(* `_empty_target` with empty_rows_ok: an empty shadow is made, and        *)
(* swap_shadow_table is called without a partition spec.                   *)
StartEmpty ==
    /\ step = "idle"
    /\ ~SkipEstimate /\ rows = {}
    /\ EmptyRowsOk
    /\ step' = "swap"
    /\ shadowed' = TRUE
    /\ shadow' = {}
    /\ twice' = {}
    /\ spec' = FALSE
    /\ stable' = {}
    /\ appeared' = {}
    /\ UNCHANGED <<rows, readVars, committed, session, seen, faults>>

-----------------------------------------------------------------------------
(* The read.                                                               *)

(* Mutant of FilterNew: the keys are compared in two types and never match *)
(* (as in the predecessor, see the docstring of SeenKeys).                 *)
FilterNothing(b) == b

(* SeenKeys.filter_new: what no earlier batch has brought.                 *)
FilterNew(b) == IF HasPk THEN b \ seen ELSE b

LoadBatch(b) ==
    /\ step = "read"
    /\ Deliver(b)
    /\ shadowed' = TRUE
    /\ shadow' = shadow \cup FilterNew(b)
    /\ twice' = twice \cup (shadow \cap FilterNew(b))
    /\ seen' = seen \cup b
    /\ UNCHANGED <<committed, session, step, spec, faults>>

(* The shadow is created from the first batch, the empty frame of an empty *)
(* result included.                                                        *)
LoadEmptyFrame ==
    /\ step = "read"
    /\ DeliverEmptyFrame
    /\ shadowed' = TRUE
    /\ UNCHANGED <<committed, session, step, shadow, twice, seen, spec, faults>>

ReadOn ==
    /\ step = "read"
    /\ OpenQuery \/ Exhaust
    /\ UNCHANGED <<loadVars, faults>>

(* The loop over the batches is over.  Without a shadow (not one batch     *)
(* came, not even an empty frame) the transaction is rolled back and the   *)
(* target left as it is.                                                   *)
ReadDone ==
    /\ step = "read"
    /\ phase = "done"
    /\ Abandon
    /\ step' = IF shadowed THEN "swap" ELSE "idle"
    /\ session' = IF shadowed THEN session ELSE committed
    /\ UNCHANGED <<committed, shadowed, shadow, twice, seen, spec, faults>>

-----------------------------------------------------------------------------
(* swap_shadow_table.                                                      *)

NewTable(part) == [NoTable EXCEPT !.exists = TRUE, !.partitioned = part]
Filled(table) == [table EXCEPT !.rows = shadow, !.twice = twice]

(* The target does not exist and no partitioning is asked for.             *)
RenameShadow ==
    /\ step = "swap"
    /\ ~session.exists /\ ~spec
    /\ session' = Filled(NewTable(FALSE))
    /\ committed' = session'
    /\ shadowed' = FALSE
    /\ step' = "finish"
    /\ UNCHANGED <<allReadVars, shadow, twice, seen, spec, faults>>

(* Mutant of KeepTransactionOpen: autocommit is on.                        *)
Autocommit == committed' = session'

(* swap_shadow_table refuses to run with autocommit on.                    *)
KeepTransactionOpen == UNCHANGED committed

(* TRUNCATE, after create_parent when a partitioned target is missing.  It *)
(* stays in the transaction: autocommit is off.                            *)
Truncate ==
    /\ step = "swap"
    /\ session.exists \/ spec
    /\ session' = IF session.exists
                  THEN [session EXCEPT !.rows = {}, !.twice = {}]
                  ELSE NewTable(TRUE)
    /\ step' = "insert"
    /\ KeepTransactionOpen
    /\ UNCHANGED <<allReadVars, shadowed, shadow, twice, seen, spec, faults>>

(* INSERT ... SELECT, and commit.                                          *)
InsertFromShadow ==
    /\ step = "insert"
    /\ session' = Filled(session)
    /\ committed' = session'
    /\ shadowed' = FALSE
    /\ step' = "finish"
    /\ UNCHANGED <<allReadVars, shadow, twice, seen, spec, faults>>

-----------------------------------------------------------------------------
(* `_finish`.                                                              *)

(* CREATE UNIQUE INDEX IF NOT EXISTS.  A failed CONCURRENTLY leaves an     *)
(* invalid index, which the next run takes for the index.                  *)
AfterBuild(fails) ==
    IF session.index # "none" THEN session.index
    ELSE IF ~fails /\ session.twice = {} THEN "valid"
    ELSE IF session.partitioned THEN "none"
    ELSE "invalid"

Finish(fails) ==
    /\ step = "finish"
    /\ fails => HasPk /\ faults < MaxFaults
    /\ session' = IF HasPk THEN [session EXCEPT !.index = AfterBuild(fails)] ELSE session
    /\ committed' = session'
    /\ step' = "idle"
    /\ faults' = IF fails THEN faults + 1 ELSE faults
    /\ UNCHANGED <<allReadVars, shadowed, shadow, twice, seen, spec>>

-----------------------------------------------------------------------------
(* Failures.                                                               *)

Drop(temporary) ==
    /\ step = "read"
    /\ faults < MaxFaults
    /\ SourceError(temporary)
    /\ faults' = faults + 1
    /\ UNCHANGED loadVars

(* Mutant of RollBack: the connection is handed on with the transaction of *)
(* the failed run still open.                                              *)
NoRollBack ==
    /\ Abandon
    /\ shadowed' = FALSE
    /\ step' = "idle"
    /\ UNCHANGED <<committed, session, shadow, twice, seen, spec>>

RollBack ==
    /\ Abandon
    /\ session' = committed
    /\ shadowed' = FALSE
    /\ step' = "idle"
    /\ UNCHANGED <<committed, shadow, twice, seen, spec>>

(* The error of the read comes through: rollback, and the shadow is gone.  *)
RunFails ==
    /\ step = "read"
    /\ phase = "failed"
    /\ RollBack
    /\ UNCHANGED faults

(* The target raises or the process dies, at any point of the run.         *)
RunDies ==
    /\ step # "idle"
    /\ faults < MaxFaults
    /\ RollBack
    /\ faults' = faults + 1

SourceChanges == SourceStep /\ UNCHANGED <<loadVars, faults>>

Start == StartRead \/ StartEmpty

Progress ==
    \/ \E b \in SUBSET pending : LoadBatch(b)
    \/ LoadEmptyFrame \/ ReadOn \/ ReadDone
    \/ RenameShadow \/ Truncate \/ InsertFromShadow
    \/ \E fails \in BOOLEAN : Finish(fails)
    \/ RunFails

Next ==
    \/ SourceChanges
    \/ Start
    \/ Progress
    \/ \E temporary \in BOOLEAN : Drop(temporary)
    \/ RunDies

Spec == Init /\ [][Next]_vars

(* A started load goes on.                                                 *)
FairSpec == Spec /\ WF_vars(Progress)

-----------------------------------------------------------------------------
(* Properties.                                                             *)

Target == INSTANCE AtomicReplace WITH
    visible <- committed.rows, lo <- stable, hi <- appeared

(* Readers of the target see one complete copy of the source after the     *)
(* other and nothing in between: not the moment between TRUNCATE and       *)
(* INSERT, not a copy with the rows of a dropped connection missing.       *)
ReplacesAtomically == Target!Spec

(* The rows that go into the target have no key twice, even over a source  *)
(* whose key order differs from that of pandas, where a resumed read hands *)
(* rows over again: SeenKeys drops them.  Otherwise the unique index of    *)
(* the target would refuse the INSERT, or could not be built.              *)
NoKeyTwice == step = "insert" /\ HasPk => twice = {}

(* Every load ends, and gives up what it holds in the target.              *)
LoadEnds == step # "idle" ~> (step = "idle" /\ session = committed)

=============================================================================
