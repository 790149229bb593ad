----------------------------- MODULE Entrypoint -----------------------------
(***************************************************************************)
(* entrypoint.py: one call of `run` after another.  The configuration is   *)
(* parsed and validated (core/config.py), the strategy resolved            *)
(* (core/strategies/base.py), the databases chosen, the tunnel opened      *)
(* around the loop (Tunnel), each database loaded with a target connection *)
(* of its own, and the rows of the status frame collected (core/status.py).*)
(*                                                                         *)
(* What a strategy does to the target is reduced to what the entry point   *)
(* decides: which databases' rows a load may replace, whether it may trust *)
(* what the target remembers, and whether it reports data.  The target     *)
(* holds some state of a database, which may be that of an empty one, or   *)
(* nothing of it.  The strategies have modules of their own.               *)
(***************************************************************************)
EXTENDS Tunnel, Sequences, FiniteSets

CONSTANTS
    Databases,      \* the databases of the source server
    Home,           \* SOURCE_DB.database
    Configs,        \* the configurations explored, with the fields of Config
    Pipelines,      \* the pairs of a configuration and a SOURCE_DB explored
    Selections,     \* the values of DATABASES: Absent, or a sequence
    Absent,
    MaxChanges,     \* bound: changes of each source database
    MaxRuns         \* bound: calls of run

Methods == {"full", "full_by_source", "incremental", "hash_diff", "typo"}

Config == [method: Methods,
           multi: {"unset", "yes", "no"},   \* multi_source
           resume: BOOLEAN,                 \* resume_full_load
           parent: BOOLEAN,                 \* incremental_parent_table
           named: BOOLEAN]                  \* SOURCE_DB.database is filled in

ASSUME EntrypointAssumption ==
    /\ Home \in Databases
    /\ Configs \subseteq Config
    /\ Pipelines \subseteq Configs \X SourceDbs
    /\ Selections \subseteq {Absent} \cup Seq(Databases)
    /\ MaxChanges \in Nat /\ MaxRuns \in Nat

VARIABLES
    config,     \* the pipeline's configuration, DATABASES aside
    version,    \* the state of each source database
    target,     \* whose rows the target table holds, and how old
    phase,
    run,        \* the run: what it was told and what it decided
    statuses,   \* status rows: the database, success, data_present
    conn,       \* an open connection to the target
    outcome,    \* of the last run
    runs

entryVars == <<config, version, target, phase, run, statuses, conn, outcome, runs>>
allEntryVars == <<entryVars, tunnelVars>>

NoRows == -1

NoRun == [databases |-> <<>>, strategy |-> "none", forced |-> FALSE,
          multi |-> "no", asof |-> [d \in Databases |-> 0]]

EntryTypeOK ==
    /\ TunnelTypeOK
    /\ config \in Configs
    /\ version \in [Databases -> 0..MaxChanges]
    /\ target \in [Databases -> NoRows..MaxChanges]
    /\ phase \in {"idle", "run"}
    /\ run.databases \in Seq(Databases)
    /\ run.strategy \in {"none", "full", "full_by_source", "id_watermark",
                         "incremental", "parent_incremental", "hash_diff"}
    /\ run.forced \in BOOLEAN /\ run.multi \in {"yes", "no"}
    /\ run.asof \in [Databases -> 0..MaxChanges]
    /\ statuses \in Seq([database: Databases, success: BOOLEAN, present: BOOLEAN])
    /\ conn \in BOOLEAN
    /\ outcome \in {"none", "refused", "nothing", "green", "red", "notunnel", "killed"}
    /\ runs \in 0..MaxRuns

EntryInit ==
    /\ TunnelInit
    /\ config \in Configs /\ <<config, source>> \in Pipelines
    /\ version = [d \in Databases |-> 0]
    /\ target = [d \in Databases |-> NoRows]
    /\ phase = "idle" /\ run = NoRun /\ statuses = <<>> /\ conn = FALSE
    /\ outcome = "none" /\ runs = 0

-----------------------------------------------------------------------------
(* What is decided before anything is touched.                             *)

(* validate: an empty DATABASES counts as a missing one.                   *)
Valid(selection) ==
    /\ config.named \/ selection \notin {Absent, <<>>}
    /\ source.mode = "direct" => source.host
    /\ source.mode = "ssh" => source.ssh

(* Mutant of StrategyName: forced_full_load rewrites every strategy.       *)
StrategyNameRewritten(forced) == IF forced THEN "full" ELSE config.method

(* _strategy_name: a typo is rewritten as well.                            *)
StrategyName(forced) ==
    IF forced /\ config.method # "full_by_source" THEN "full" ELSE config.method

(* Mutant of ResumeIsWatermark: force_reload is not asked about.           *)
ResumeIsWatermarkForced(name, forced) == name = "full" /\ config.resume

(* _settings_dict turns forced_full_load into force_reload.                *)
ResumeIsWatermark(name, forced) == name = "full" /\ config.resume /\ ~forced

(* resolve_strategy                                                        *)
Strategy(forced) ==
    LET name == StrategyName(forced)
    IN  CASE ResumeIsWatermark(name, forced) -> "id_watermark"
          [] name = "incremental" /\ config.parent -> "parent_incremental"
          [] OTHER -> name

ResolveDatabases(selection) == IF selection = Absent THEN <<Home>> ELSE selection

(* Decided once for the whole run.                                         *)
MultiSource(databases) ==
    IF config.multi # "unset" THEN config.multi
    ELSE IF Len(databases) > 1 THEN "yes" ELSE "no"

-----------------------------------------------------------------------------
(* The run.                                                                *)

Call == phase = "idle" /\ tunnel \in {"closed", "failed"} /\ runs < MaxRuns /\ runs' = runs + 1

(* ConfigError, or an unknown load_method: nothing has been touched.       *)
Refuse(selection, forced) ==
    /\ Call
    /\ ~Valid(selection) \/ Strategy(forced) = "typo"
    /\ outcome' = "refused" /\ run' = NoRun /\ statuses' = <<>>
    /\ UNCHANGED <<config, version, target, phase, conn, tunnelVars>>

(* The control layer selected nothing: a green frame, and no tunnel.       *)
NothingSelected(selection, forced) ==
    /\ Call
    /\ Valid(selection) /\ Strategy(forced) # "typo"
    /\ selection = <<>>
    /\ outcome' = "nothing" /\ run' = NoRun /\ statuses' = <<>>
    /\ UNCHANGED <<config, version, target, phase, conn, tunnelVars>>

BeginRun(selection, forced) ==
    /\ Call
    /\ Valid(selection) /\ Strategy(forced) # "typo"
    /\ selection # <<>>
    /\ run' = [databases |-> ResolveDatabases(selection),
               strategy |-> Strategy(forced),
               forced |-> forced,
               multi |-> MultiSource(ResolveDatabases(selection)),
               asof |-> version]
    /\ phase' = "run" /\ statuses' = <<>> /\ outcome' = "none"
    /\ tunnel' = "enter"
    /\ UNCHANGED <<config, version, target, conn,
                   source, ssh, armed, signal, listener, address, leftover, tfaults>>

Current == run.databases[Len(statuses) + 1]

Looping == phase = "run" /\ tunnel = "open" /\ Len(statuses) < Len(run.databases)

(* The source answers unless its tunnel is gone.                           *)
SourceAnswers == address = "ssh" => listener

(* _run_one: build_context, whose last step is the target connection.      *)
BuildContext ==
    /\ Looping /\ ~conn
    /\ SourceAnswers
    /\ conn' = TRUE
    /\ UNCHANGED <<config, version, target, phase, run, statuses, outcome, runs, tunnelVars>>

-----------------------------------------------------------------------------
(* What a strategy may leave in the target, and report as data_present.    *)

TargetAbsent == \A d \in Databases : target[d] = NoRows

Loaded == [target EXCEPT ![Current] = version[Current]]

OnlyThis == [d \in Databases |-> IF d = Current THEN version[d] ELSE NoRows]

Result(table, present) == [table |-> table, present |-> present]

(* full replaces the table, by nothing too with empty_rows_ok; without it, *)
(* a source counted empty leaves the target as it is.                      *)
FullResults ==
    {Result(OnlyThis, TRUE), Result(OnlyThis, FALSE), Result(target, FALSE)}

(* _can_skip: the fingerprint matches, and the target holds the slice.     *)
MaySkip == ~run.forced /\ run.multi = "yes" /\ target[Current] # NoRows

(* full_by_source replaces the slice of its label or, without one,         *)
(* everything.  An empty source empties its slice, or leaves it: there is  *)
(* no label, or no fingerprint, and the closed connection rolls back.      *)
SliceResults ==
    {Result(IF run.multi = "yes" THEN Loaded ELSE OnlyThis, TRUE), Result(target, FALSE)}
      \cup (IF run.multi = "yes" THEN {Result(Loaded, FALSE)} ELSE {})
      \cup (IF MaySkip THEN {Result(target, TRUE)} ELSE {})

(* The others read what the target makes them believe is missing, whoever  *)
(* brought it, or fall back to full over whatever is there.                *)
TrustingResults ==
    FullResults
      \cup (IF TargetAbsent THEN {}
            ELSE {Result(table, present) : table \in {target, Loaded}, present \in BOOLEAN})

Results ==
    CASE run.strategy = "full" -> FullResults
      [] run.strategy = "full_by_source" -> SliceResults
      [] OTHER -> TrustingResults

(* A strategy that ends early may have committed before, or not.           *)
LeftByFailure ==
    {target} \cup (IF Looping /\ conn THEN {result.table : result \in Results} ELSE {})

-----------------------------------------------------------------------------
(* The turn of a database, and the end.                                    *)

Report(success, present) ==
    statuses' = Append(statuses, [database |-> Current, success |-> success,
                                  present |-> present])

(* Mutant of Fail: the connection is closed after the strategy only.       *)
FailWithoutClose ==
    /\ Looping
    /\ target' \in LeftByFailure
    /\ Report(FALSE, FALSE)
    /\ UNCHANGED <<config, version, phase, run, conn, outcome, runs, tunnelVars>>

(* Any exception below _run_one, before the target connection or after it, *)
(* be it after a checkpoint, a slice or a swap has been committed.         *)
Fail ==
    /\ Looping
    /\ target' \in LeftByFailure
    /\ Report(FALSE, FALSE)
    /\ conn' = FALSE
    /\ UNCHANGED <<config, version, phase, run, outcome, runs, tunnelVars>>

(* strategy.run, conn.close and status_row.                                *)
Load ==
    /\ Looping /\ conn
    /\ SourceAnswers
    /\ \E result \in Results : target' = result.table /\ Report(TRUE, result.present)
    /\ conn' = FALSE
    /\ UNCHANGED <<config, version, phase, run, outcome, runs, tunnelVars>>

(* The end of the loop leaves the tunnel.                                  *)
EndLoop ==
    /\ phase = "run" /\ Len(statuses) = Len(run.databases)
    /\ LeaveBlock
    /\ UNCHANGED entryVars

(* Mutant of Summarise: green as soon as something came.                   *)
SummariseAny ==
    /\ phase = "run" /\ tunnel = "closed"
    /\ outcome' = IF \E i \in 1..Len(statuses) : statuses[i].success THEN "green" ELSE "red"
    /\ phase' = "idle"
    /\ UNCHANGED <<config, version, target, run, statuses, conn, runs, tunnelVars>>

(* SourceExtractionError, or the frame.                                    *)
Summarise ==
    /\ phase = "run" /\ tunnel = "closed"
    /\ outcome' = IF \E i \in 1..Len(statuses) : ~statuses[i].success THEN "red" ELSE "green"
    /\ phase' = "idle"
    /\ UNCHANGED <<config, version, target, run, statuses, conn, runs, tunnelVars>>

(* open_tunnel raised: no database has been tried.                         *)
NoTunnel ==
    /\ phase = "run" /\ tunnel = "failed"
    /\ outcome' = "notunnel"
    /\ phase' = "idle"
    /\ UNCHANGED <<config, version, target, run, statuses, conn, runs, tunnelVars>>

(* The process of the run is killed; PostgreSQL rolls its session back to  *)
(* the last commit.                                                        *)
Killed ==
    /\ phase = "run"
    /\ ParentDies
    /\ target' \in LeftByFailure
    /\ phase' = "idle" /\ conn' = FALSE /\ outcome' = "killed"
    /\ run' = NoRun /\ statuses' = <<>>
    /\ UNCHANGED <<config, version, runs>>

Change(d) ==
    /\ version[d] < MaxChanges
    /\ version' = [version EXCEPT ![d] = @ + 1]
    /\ UNCHANGED <<config, target, phase, run, statuses, conn, outcome, runs, tunnelVars>>

OpenStep ==
    (Direct \/ Fork \/ ForkFails \/ NoWayIn \/ Exec \/ PortAnswers \/ PortTimeout
       \/ Drained \/ DrainTimeout) /\ UNCHANGED entryVars

CloseStep ==
    (Terminate \/ Terminated \/ TerminateTimeout) /\ UNCHANGED entryVars

SshStep ==
    /\ \/ SshListens \/ SshRefused \/ SshBreaks \/ SshExits
       \/ \E kind \in {"dying", "deaf"} : LeftoverDies(kind)
    /\ UNCHANGED entryVars

RunStep ==
    \/ OpenStep \/ BuildContext \/ Load \/ Fail \/ EndLoop \/ CloseStep
    \/ Summarise \/ NoTunnel

EntryNext ==
    \/ \E selection \in Selections, forced \in BOOLEAN :
         \/ Refuse(selection, forced)
         \/ NothingSelected(selection, forced)
         \/ BeginRun(selection, forced)
    \/ RunStep \/ Killed \/ SshStep
    \/ \E d \in Databases : Change(d)

(* A run goes on, and SIGKILL arrives, as does SIGTERM where it is obeyed. *)
Fairness ==
    /\ WF_allEntryVars(RunStep)
    /\ WF_allEntryVars(SshExits /\ signal = "kill" /\ UNCHANGED entryVars)
    /\ WF_allEntryVars(LeftoverDies("dying") /\ UNCHANGED entryVars)

EntrySpec == EntryInit /\ [][EntryNext]_allEntryVars /\ Fairness

-----------------------------------------------------------------------------
(* Properties.                                                             *)

(* A database whose rows no later turn of the run may replace.             *)
Kept(i) ==
    \/ i = Len(run.databases)
    \/ run.strategy = "full_by_source" /\ run.multi = "yes"

(* The strategies that write without asking what the target holds.         *)
Replaces == run.strategy \in {"full", "full_by_source"}

(* The funnel of _run: a database that fails leaves its row in the status  *)
(* and takes no other's turn; the run is red exactly when one failed; and  *)
(* of a strategy that replaces, what is reported as loaded, with data, is  *)
(* in the target.  The others may lose it again: several databases in one  *)
(* target share its maximum, and a fallback to full takes them all.        *)
EveryDatabaseIsTried ==
    outcome \in {"green", "red"} =>
        /\ Len(statuses) = Len(run.databases)
        /\ outcome = "green" <=> \A i \in 1..Len(statuses) : statuses[i].success
        /\ \A i \in 1..Len(statuses) :
             /\ statuses[i].database = run.databases[i]
             /\ statuses[i].success /\ statuses[i].present /\ Replaces /\ Kept(i)
                  => target[statuses[i].database] # NoRows

(* forced_full_load trusts nothing the target remembers: neither a rewrite *)
(* of the strategy, nor a resumed load, nor a fingerprint leaves a row of  *)
(* a green forced run older than the run, where it reports data.  (Where a *)
(* source is counted empty it reports none, and older rows may stay.)      *)
ForcedBringsEverything ==
    outcome = "green" /\ run.forced =>
        \A i \in 1..Len(run.databases) :
          statuses[i].present /\ Kept(i)
            => target[run.databases[i]] >= run.asof[run.databases[i]]

(* With multi_source set, whatever a run selects, forces or fails at, the  *)
(* slices of the other databases stay where they are.                      *)
SlicesSurvive ==
    [][config.method = "full_by_source" /\ config.multi = "yes" =>
         \A d \in Databases : target[d] # NoRows => target'[d] # NoRows]_allEntryVars

(* The target connection belongs to one database's turn: none outlives it, *)
(* and none is open while the tunnel is not.                               *)
OneConnectionPerTurn == conn => Looping

(* The address handed over is served by the tunnel, until its ssh process  *)
(* dies by itself; the run never signals a tunnel it still reads through.  *)
AddressIsServed ==
    tunnel = "open" /\ address = "ssh" =>
        signal = "none" /\ (tfaults = 0 => ssh = "listening" /\ listener)

(* One turn after the other, whatever fails in one: the statuses, the      *)
(* connection and the address are those of the turn the loop is in.        *)
TurnsInv == EntryTypeOK /\ EveryDatabaseIsTried /\ OneConnectionPerTurn /\ AddressIsServed

(* A run ends, however ssh hangs.                                          *)
RunEnds == phase = "run" ~> phase = "idle"

(* No ssh process stays on the host, be the run left normally, by an       *)
(* exception, or by the death of its process; except one that ignores the  *)
(* SIGTERM the kernel sends when that happens, for nobody sends SIGKILL.   *)
HostIsLeftClean ==
    ssh \in Alive \/ leftover # {} ~> ssh \notin Alive /\ leftover \subseteq {"deaf"}

(* Both ends of what open_tunnel starts: the run that waits for ssh, and   *)
(* the ssh process the run may leave behind.                               *)
NothingHangsOrStays == RunEnds /\ HostIsLeftClean
=============================================================================
