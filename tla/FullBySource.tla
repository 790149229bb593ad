---------------------------- MODULE FullBySource ----------------------------
(***************************************************************************)
(* The strategy `full_by_source`: one run of the extractor visits a list   *)
(* of source databases and replaces, in one target table, the slice of     *)
(* rows that belongs to each of them.  A ledger of fingerprints in the     *)
(* target lets a run skip a database that has not changed.                 *)
(*                                                                         *)
(* The target connection has autocommit off, so what the run has written   *)
(* is in `session` until a commit makes it `committed`; closing the        *)
(* connection with an open transaction throws it away.                     *)
(*                                                                         *)
(* The rows of a slice are abstracted to the version of the source they    *)
(* were read at.  Two versions may have the same content (a change that is *)
(* undone), and the fingerprint sees only the content.                     *)
(***************************************************************************)
EXTENDS Integers

CONSTANTS
    NumSources,         \* databases of the run, visited in the order 1, 2, ...
    MaxVersion,         \* bound: changes of one source database
    Content,            \* Versions -> Contents: the rows of the table at a version
    Contents,
    EmptyContent,       \* no rows at all
    Fingerprint,        \* Contents -> Fingerprints: what render_fingerprint returns
    Fingerprints,
    NoFp,               \* `None`: off, failed, or no row in the ledger
    Settings,           \* the configurations, see SettingsType
    MaxFaults           \* bound: failed queries and crashes

Sources == 1..NumSources
Versions == 0..MaxVersion
NoRows == -1

SettingsType ==
    [fingerprint : BOOLEAN,         \* the fingerprint mode is not "off"
     knownTotalRows : BOOLEAN,      \* its count serves the dialect as the estimate
     partitionBySource : BOOLEAN,   \* LOAD_SETTINGS.partition_by_source
     emptyRowsOk : BOOLEAN,         \* the table's empty_rows_ok
     uniquePk : BOOLEAN]            \* the primary key is among the target's columns

ASSUME ConstantsAssumption ==
    /\ NumSources \in Nat \ {0}
    /\ MaxVersion \in Nat
    /\ Content \in [Versions -> Contents]
    /\ Fingerprint \in [Contents -> Fingerprints]
    /\ NoFp \notin Fingerprints
    /\ Settings \subseteq SettingsType
    /\ MaxFaults \in Nat

VARIABLES
    settings,   \* those of the pipeline, which never change
    src,        \* the version of each source database
    committed,  \* the target database as every other session sees it
    session,    \* the target database as the open transaction of the run sees it
    pc,         \* the step of the run
    cur,        \* the source the run is at
    forced,     \* force_reload of this run
    fp,         \* what _fingerprint returned
    fpv,        \* the version it was computed from (history)
    est,        \* the version the estimate counted (history)
    staged,     \* the version in the staging table
    since,      \* the version when the run opened this source (history)
    result,     \* the load_method the strategy is about to return
    status,     \* the status row of each source in the last run
    faults      \* failures so far

runVars == <<pc, cur, forced, fp, fpv, est, staged, since, result, status>>
vars == <<settings, src, committed, session, runVars, faults>>

Steps == {"idle", "fingerprint", "check", "estimate", "empty", "stream",
          "swap", "finish", "index", "close"}

Database == [exists: BOOLEAN,
             partitioned: BOOLEAN,
             slice: [Sources -> Versions \cup {NoRows}],
             ledger: [Sources -> Fingerprints \cup {NoFp}],
             index: {"none", "invalid", "valid"}]

NoTarget == [exists |-> FALSE,
             partitioned |-> FALSE,
             slice |-> [s \in Sources |-> NoRows],
             ledger |-> [s \in Sources |-> NoFp],
             index |-> "none"]

IsEmpty(v) == Content[v] = EmptyContent
FingerprintAt(v) == Fingerprint[Content[v]]

TypeOK ==
    /\ settings \in Settings
    /\ src \in [Sources -> Versions]
    /\ committed \in Database
    /\ session \in Database
    /\ pc \in Steps
    /\ cur \in Sources
    /\ forced \in BOOLEAN
    /\ fp \in Fingerprints \cup {NoFp}
    /\ fpv \in Versions
    /\ est \in Versions
    /\ staged \in Versions
    /\ since \in Versions
    /\ result \in {"unchanged", "full_by_source", "error"}
    /\ status \in [Sources -> {"none", "unchanged", "full_by_source", "error"}]
    /\ faults \in 0..MaxFaults

Init ==
    /\ settings \in Settings
    /\ src \in [Sources -> Versions]
    /\ committed = NoTarget
    /\ session = NoTarget
    /\ pc = "idle"
    /\ cur = 1
    /\ forced = FALSE
    /\ fp = NoFp
    /\ fpv = 0 /\ est = 0 /\ staged = 0 /\ since = 0
    /\ result = "error"
    /\ status = [s \in Sources |-> "none"]
    /\ faults = 0

-----------------------------------------------------------------------------
(* The environment.                                                        *)

Change(s) ==
    /\ src[s] < MaxVersion
    /\ src' = [src EXCEPT ![s] = @ + 1]
    /\ UNCHANGED <<settings, committed, session, runVars, faults>>

(* An operator drops the target between two runs; the ledger stays.        *)
DropTarget ==
    /\ pc = "idle"
    /\ committed.exists
    /\ faults < MaxFaults
    /\ committed' = [NoTarget EXCEPT !.ledger = committed.ledger]
    /\ session' = committed'
    /\ faults' = faults + 1
    /\ UNCHANGED <<settings, src, runVars>>

(* The process is killed: the server rolls its transaction back and the    *)
(* sources it had not reached get no status row.                           *)
Crash ==
    /\ pc # "idle"
    /\ faults < MaxFaults
    /\ pc' = "idle"
    /\ session' = committed
    /\ faults' = faults + 1
    /\ UNCHANGED <<settings, src, committed, cur, forced, fp, fpv, est, staged, since, result, status>>

-----------------------------------------------------------------------------
(* The run.                                                                *)

StartRun(force) ==
    /\ pc = "idle"
    /\ pc' = "fingerprint"
    /\ cur' = 1
    /\ forced' = force
    /\ since' = src[1]
    /\ status' = [s \in Sources |-> "none"]
    /\ UNCHANGED <<settings, src, committed, session, fp, fpv, est, staged, result, faults>>

(* `_fingerprint`: a failed query is swallowed and means "no fingerprint". *)
TakeFingerprint ==
    /\ pc = "fingerprint"
    /\ pc' = "check"
    /\ fpv' = src[cur]
    /\ \/ /\ fp' = IF settings.fingerprint THEN FingerprintAt(src[cur]) ELSE NoFp
          /\ UNCHANGED faults
       \/ /\ settings.fingerprint /\ faults < MaxFaults
          /\ fp' = NoFp
          /\ faults' = faults + 1
    /\ UNCHANGED <<settings, src, committed, session, cur, forced, est, staged, since, result, status>>

HoldsSource(s) == session.exists /\ session.slice[s] # NoRows

(* Mutants of CanSkip: the target is not asked whether it holds the slice; *)
(* any fingerprint in the ledger will do.                                  *)
CanSkipOnLedger == /\ fp # NoFp
                   /\ ~forced
                   /\ session.ledger[cur] = fp
CanSkipWhatIsKnown == /\ fp # NoFp
                      /\ ~forced
                      /\ session.ledger[cur] # NoFp
                      /\ HoldsSource(cur)

CanSkip == /\ fp # NoFp
           /\ ~forced
           /\ session.ledger[cur] = fp
           /\ HoldsSource(cur)

Skip ==
    /\ pc = "check"
    /\ CanSkip
    /\ result' = "unchanged"
    /\ pc' = "close"
    /\ UNCHANGED <<settings, src, committed, session, cur, forced, fp, fpv, est, staged, since,
                   status, faults>>

(* The source has to be fetched.  A ledger that cannot be read is rolled   *)
(* back and counts as "changed".                                           *)
DoNotSkip ==
    /\ pc = "check"
    /\ \/ ~CanSkip /\ UNCHANGED faults
       \/ /\ CanSkip /\ faults < MaxFaults
          /\ faults' = faults + 1
    /\ session' = committed
    /\ pc' = "estimate"
    /\ UNCHANGED <<settings, src, committed, cur, forced, fp, fpv, est, staged, since, result, status>>

(* estimate_size: the count of the fingerprint when the dialect is given   *)
(* it as known_total_rows, a COUNT of its own otherwise.                   *)
CountedVersion == IF settings.knownTotalRows /\ fp # NoFp THEN fpv ELSE src[cur]

Estimate ==
    /\ pc = "estimate"
    /\ est' = CountedVersion
    /\ pc' = IF IsEmpty(est') THEN "empty" ELSE "stream"
    /\ UNCHANGED <<settings, src, committed, session, cur, forced, fp, fpv, staged, since, result,
                   status, faults>>

(* `_empty_source`, target missing, empty_rows_ok: an empty target of the  *)
(* configured shape is created and committed.                              *)
CreateEmptyTarget ==
    /\ pc = "empty"
    /\ ~session.exists
    /\ settings.emptyRowsOk
    /\ session' = [session EXCEPT !.exists = TRUE, !.partitioned = settings.partitionBySource]
    /\ committed' = session'
    /\ pc' = "finish"
    /\ UNCHANGED <<settings, src, cur, forced, fp, fpv, est, staged, since, result, status, faults>>

(* `_empty_source`, target missing: StrategyError.                         *)
RefuseEmptyTarget ==
    /\ pc = "empty"
    /\ ~session.exists
    /\ ~settings.emptyRowsOk
    /\ result' = "error"
    /\ pc' = "close"
    /\ UNCHANGED <<settings, src, committed, session, cur, forced, fp, fpv, est, staged, since,
                   status, faults>>

(* `_empty_source`, target present: TRUNCATE of the partition or DELETE of *)
(* the slice, inside the open transaction.                                 *)
EmptySlice ==
    /\ pc = "empty"
    /\ session.exists
    /\ session' = [session EXCEPT !.slice[cur] = NoRows]
    /\ pc' = "finish"
    /\ UNCHANGED <<settings, src, committed, cur, forced, fp, fpv, est, staged, since, result, status,
                   faults>>

(* Mutant of StreamRows: no rows are swapped in like any other number.     *)
StreamAnything ==
    /\ pc = "stream"
    /\ staged' = src[cur]
    /\ pc' = "swap"
    /\ UNCHANGED <<settings, src, committed, session, cur, forced, fp, fpv, est, since, result, status,
                   faults>>

(* The source is streamed into a staging table.                            *)
StreamRows ==
    /\ pc = "stream"
    /\ ~IsEmpty(src[cur])
    /\ staged' = src[cur]
    /\ pc' = "swap"
    /\ UNCHANGED <<settings, src, committed, session, cur, forced, fp, fpv, est, since, result, status,
                   faults>>

(* rows_read = 0 although the estimate was positive: StrategyError.        *)
StreamNothing ==
    /\ pc = "stream"
    /\ IsEmpty(src[cur])
    /\ result' = "error"
    /\ pc' = "close"
    /\ session' = committed
    /\ UNCHANGED <<settings, src, committed, cur, forced, fp, fpv, est, staged, since, status, faults>>

(* Mutant of CommitSlice: the commit after the swap is forgotten.          *)
LeaveSliceOpen == UNCHANGED committed

(* conn.commit() at the end of _replace_slice.                             *)
CommitSlice == committed' = session'

(* `_prepare_target`, `replace_source_slice`, DROP of the staging, commit. *)
SwapSlice ==
    /\ pc = "swap"
    /\ session' = [session EXCEPT
                     !.exists = TRUE,
                     !.partitioned = IF session.exists THEN @ ELSE settings.partitionBySource,
                     !.slice[cur] = staged]
    /\ CommitSlice
    /\ pc' = "finish"
    /\ UNCHANGED <<settings, src, cur, forced, fp, fpv, est, staged, since, result, status, faults>>

(* Mutant of FpToWrite: the fingerprint is taken again after the load.     *)
FpOfNow == IF fp = NoFp THEN NoFp ELSE FingerprintAt(src[cur])

(* The fingerprint taken before the source was read.                       *)
FpToWrite == fp

(* Mutant of WriteFingerprint: the ledger has a connection of its own.     *)
WriteFingerprintApart ==
    /\ pc = "finish"
    /\ committed' = [committed EXCEPT !.ledger[cur] = FpToWrite]
    /\ session' = [session EXCEPT !.ledger[cur] = FpToWrite]
    /\ result' = "full_by_source"
    /\ pc' = IF cur = NumSources /\ settings.uniquePk THEN "index" ELSE "close"
    /\ UNCHANGED <<settings, src, cur, forced, fp, fpv, est, staged, since, status, faults>>

(* `_finish`, first part: the ledger row, in a transaction of its own when *)
(* the slice was swapped, together with the deletion when it was emptied.  *)
WriteFingerprint ==
    /\ pc = "finish"
    /\ IF fp # NoFp
       THEN /\ session' = [session EXCEPT !.ledger[cur] = FpToWrite]
            /\ committed' = session'
       ELSE UNCHANGED <<session, committed>>
    /\ result' = "full_by_source"
    /\ pc' = IF cur = NumSources /\ settings.uniquePk THEN "index" ELSE "close"
    /\ UNCHANGED <<settings, src, cur, forced, fp, fpv, est, staged, since, status, faults>>

IndexAfterBuild(built) == IF session.index = "none" THEN built ELSE session.index

(* create_unique_pk_index on a plain table: commit, then CONCURRENTLY in   *)
(* autocommit.  A failed build is only logged and leaves an invalid index. *)
IndexPlain ==
    /\ pc = "index"
    /\ ~session.partitioned
    /\ \/ /\ session' = [session EXCEPT !.index = IndexAfterBuild("valid")]
          /\ UNCHANGED faults
       \/ /\ faults < MaxFaults
          /\ session' = [session EXCEPT !.index = IndexAfterBuild("invalid")]
          /\ faults' = faults + 1
    /\ committed' = session'
    /\ pc' = "close"
    /\ UNCHANGED <<settings, src, cur, forced, fp, fpv, est, staged, since, result, status>>

(* create_unique_pk_index on a partitioned table: in the caller's          *)
(* transaction; a failure rolls back.                                      *)
IndexPartitioned ==
    /\ pc = "index"
    /\ session.partitioned
    /\ \/ /\ session' = [session EXCEPT !.index = IndexAfterBuild("valid")]
          /\ UNCHANGED faults
       \/ /\ faults < MaxFaults
          /\ session' = committed
          /\ faults' = faults + 1
    /\ pc' = "close"
    /\ UNCHANGED <<settings, src, committed, cur, forced, fp, fpv, est, staged, since, result, status>>

(* An exception out of the strategy: the source or the target failed.      *)
Fail ==
    /\ pc \in {"check", "estimate", "empty", "stream", "swap", "finish"}
    /\ faults < MaxFaults
    /\ session' = committed
    /\ result' = "error"
    /\ pc' = "close"
    /\ faults' = faults + 1
    /\ UNCHANGED <<settings, src, committed, cur, forced, fp, fpv, est, staged, since, status>>

(* The `finally` of _run_one closes the connection, which rolls back, and  *)
(* _run goes on with the next database whatever happened to this one.      *)
CloseConnection ==
    /\ pc = "close"
    /\ session' = committed
    /\ status' = [status EXCEPT ![cur] = result]
    /\ IF cur < NumSources
       THEN /\ cur' = cur + 1
            /\ since' = src[cur + 1]
            /\ pc' = "fingerprint"
       ELSE /\ pc' = "idle"
            /\ UNCHANGED <<cur, since>>
    /\ UNCHANGED <<settings, src, committed, forced, fp, fpv, est, staged, result, faults>>

Progress ==
    \/ TakeFingerprint \/ Skip \/ DoNotSkip \/ Estimate
    \/ CreateEmptyTarget \/ RefuseEmptyTarget \/ EmptySlice
    \/ StreamRows \/ StreamNothing \/ SwapSlice
    \/ WriteFingerprint \/ IndexPlain \/ IndexPartitioned \/ CloseConnection

Next ==
    \/ \E s \in Sources : Change(s)
    \/ DropTarget
    \/ Crash
    \/ \E force \in BOOLEAN : StartRun(force)
    \/ Progress
    \/ Fail

Spec == Init /\ [][Next]_vars

(* The scheduler starts the pipeline again and again and a started run     *)
(* makes progress; nothing is assumed of the sources and of the faults,    *)
(* which are bounded.                                                      *)
FairSpec == Spec /\ WF_vars(StartRun(FALSE)) /\ WF_vars(Progress)

-----------------------------------------------------------------------------
(* Properties.                                                             *)

HoldsNoRows(db, s) == db.slice[s] = NoRows \/ IsEmpty(db.slice[s])

SameRows(v, w) ==
    (IF v = NoRows THEN EmptyContent ELSE Content[v])
      = (IF w = NoRows THEN EmptyContent ELSE Content[w])

(* A database is reported "unchanged" only when the slice everybody sees   *)
(* holds exactly the rows the fingerprint of this run was computed over.   *)
(* The hazard is a ledger and a slice that come from different moments:    *)
(* _fingerprint is taken before the stream, and the ledger row is          *)
(* committed after the slice, with crashes in between.                     *)
SkipIsSound ==
    pc = "close" /\ result = "unchanged" =>
        SameRows(committed.slice[cur], fpv)

(* The ledger never runs ahead of the data: a fingerprint in the ledger is *)
(* that of a version at or before the one in the slice, so that a lost run *)
(* costs a reload and never a wrong skip (write_fingerprint is called      *)
(* after the transfer; a missing slice is caught by target_holds_source).  *)
LedgerBehindSlice ==
    \A s \in Sources :
        committed.ledger[s] # NoFp /\ committed.slice[s] # NoRows =>
            \E v \in 0..committed.slice[s] : committed.ledger[s] = FingerprintAt(v)

(* A slice loses all its rows only when the estimate of this run counted   *)
(* none, or an operator dropped the table: a source that reports rows and  *)
(* streams none must not empty its slice (_replace_slice raises), and no   *)
(* other source's load may touch it (the WHERE of replace_source_slice).   *)
EmptiedOnlyWhenCountedEmpty ==
    \A s \in Sources :
        committed.slice[s] # NoRows /\ committed'.exists /\ HoldsNoRows(committed', s)
            => cur = s /\ IsEmpty(est)

(* A source that ends with load_method full_by_source and a positive       *)
(* estimate has its rows in the target, as they were at some moment after  *)
(* the run opened it, whatever happened to the other sources.              *)
LoadedSliceIsFresh ==
    pc = "close" /\ result = "full_by_source" /\ ~IsEmpty(est) =>
        committed.slice[cur] \in since..src[cur]

(* A run that counted no rows and reports success leaves none of that      *)
(* source's rows in the target (_empty_source: "the database was emptied   *)
(* and its slice should disappear").  The deletion has no commit of its    *)
(* own: it rides on that of the ledger row, so the promise is kept for a   *)
(* run that has a fingerprint, and for no other.                           *)
EmptiedSliceDisappears ==
    CloseConnection /\ result = "full_by_source" /\ IsEmpty(est) /\ fp # NoFp =>
        HoldsNoRows(committed', cur)

(* So a slice is emptied when its database was counted empty, and only     *)
(* then: what everybody sees never vanishes by an accident of a read, and  *)
(* never outlives its source (_empty_source against _replace_slice).       *)
EmptiedAsCounted ==
    [][EmptiedOnlyWhenCountedEmpty /\ EmptiedSliceDisappears]_vars

(* Once the sources stop changing and faults stop, the repeated runs make  *)
(* every slice equal to its source.                                        *)
Convergence ==
    <>[](\A s \in Sources : SameRows(committed.slice[s], src[s]))

=============================================================================
