------------------------------ MODULE RunProofs -----------------------------
(***************************************************************************)
(* What run() promises around its strategies: the turns of the databases   *)
(* (Entrypoint), and the log records (LogForwarding).                      *)
(*                                                                         *)
(* The turns, for every number of databases, of runs, of calls that fail,  *)
(* and every configuration.  The argument: the tunnel is left with every   *)
(* turn served, or before the first one (LoopInv), which needs what the    *)
(* steps of the context manager say of ssh (TunnelInv); a run does what    *)
(* the configuration and forced_full_load made of it (DecidedInv); and     *)
(* what a kept turn reports is there, whoever comes after (TurnsKept).     *)
(*                                                                         *)
(* The records, for every number of threads and every depth of runs inside *)
(* one another.  The argument: only the holder of the lock is between two  *)
(* statements that change the logger (LockInv), and where it is says what  *)
(* the logger looks like (StageInv): as the host has left it, or with the  *)
(* handler and without propagation, or on the way.  The level serves every *)
(* target but one that has just been pushed (Served), so a record is       *)
(* checked against a level its own target is served by.  A record that is  *)
(* calm has not seen the logger on the way (HostRecord).                   *)
(***************************************************************************)
EXTENDS Entrypoint, LogForwarding, SequenceTheorems, TLAPS

(* The turns.                                                              *)

(* What the steps of the context manager say of the ssh process: none      *)
(* before the fork and after the end, unsignalled while the run waits for  *)
(* it or reads through it, and alone in serving the port.                  *)
TunnelInv ==
    /\ tunnel \in {"closed", "enter", "failed"} =>
          ssh = "none" /\ ~armed /\ signal = "none" /\ address = "none"
    /\ ssh = "forked" => tunnel = "spawn"
    /\ tunnel \in {"spawn", "wait"} => signal = "none" /\ address = "none"
    /\ tunnel \in {"drain", "drainkill"} => address = "none"
    /\ tunnel = "open" => address # "none" /\ signal = "none"
    /\ tunnel = "open" /\ address = "direct" => ssh = "none" /\ ~armed
    /\ tunnel = "open" /\ address = "ssh" /\ tfaults = 0 => ssh = "listening"
    /\ listener <=> ssh = "listening"

(* Where the loop is: no run, no tunnel; and a tunnel that has served and  *)
(* is being closed, or is closed, has served every turn.                   *)
LoopInv ==
    /\ phase = "idle" => tunnel \in {"closed", "failed"} /\ ~conn
    /\ phase = "run" => outcome = "none"
    /\ phase = "run" /\ tunnel \in {"closed", "term", "termwait", "termkill"}
          /\ (tunnel = "closed" \/ address # "none") => Len(statuses) = Len(run.databases)
    /\ conn => Looping
    /\ outcome \in {"green", "red"} =>
          /\ Len(statuses) = Len(run.databases)
          /\ outcome = "green" <=> \A i \in 1..Len(statuses) : statuses[i].success

(* A run does what the configuration and forced_full_load made of it; a    *)
(* forced one replaces.                                                    *)
DecidedInv ==
    /\ phase = "run" => /\ run.strategy = Strategy(run.forced)
                        /\ run.strategy # "typo"
                        /\ config.multi # "unset" => run.multi = config.multi
    /\ run.forced => Replaces
    /\ \A d \in Databases : run.asof[d] <= version[d]

(* The turns so far, each with the database it was for; of a strategy that *)
(* replaces, what a kept turn reports as loaded with data is there, and of *)
(* this run if the run is forced.                                          *)
Brought(t, d) == t[d] # NoRows /\ (run.forced => t[d] >= run.asof[d])

TurnsKept ==
    /\ Len(statuses) <= Len(run.databases)
    /\ \A i \in 1..Len(statuses) :
         /\ statuses[i].database = run.databases[i]
         /\ statuses[i].success /\ statuses[i].present /\ Replaces /\ Kept(i)
              => Brought(target, run.databases[i])

EntryInv == EntryTypeOK /\ TunnelInv /\ LoopInv /\ DecidedInv /\ TurnsKept

-----------------------------------------------------------------------------
(* The tunnel.                                                             *)

TunnelOK == TunnelTypeOK /\ TunnelInv

(* Opening the tunnel, step by step, keeps what is said of ssh.            *)
LEMMA OpenKeepsTunnel ==
    ASSUME TunnelOK,
           \/ Direct \/ Fork \/ ForkFails \/ NoWayIn \/ Exec \/ PortAnswers
           \/ PortTimeout \/ Drained \/ DrainTimeout
    PROVE TunnelOK'
  <1> USE DEF TunnelOK, TunnelTypeOK, TunnelInv, Alive
  <1>1. CASE Direct
    BY <1>1 DEF Direct, HandOver
  <1>2. CASE Fork
    BY <1>2 DEF Fork
  <1>3. CASE NoWayIn
    BY <1>3 DEF NoWayIn
  <1>4. CASE Exec
    BY <1>4 DEF Exec
  <1>5. CASE PortAnswers
    BY <1>5 DEF PortAnswers, HandOver
  <1>6. CASE PortTimeout
    BY <1>6 DEF PortTimeout
  <1>7. CASE Drained
    BY <1>7 DEF Drained
  <1>8. CASE DrainTimeout
    BY <1>8 DEF DrainTimeout
  <1>9. CASE ForkFails
    BY <1>9 DEF ForkFails
  <1> QED
    BY <1>1, <1>2, <1>3, <1>4, <1>5, <1>6, <1>7, <1>8, <1>9

(* So does leaving it.                                                     *)
LEMMA CloseKeepsTunnel ==
    ASSUME TunnelOK, LeaveBlock \/ Terminate \/ Terminated \/ TerminateTimeout
    PROVE TunnelOK'
  <1> USE DEF TunnelOK, TunnelTypeOK, TunnelInv, Alive
  <1>1. CASE LeaveBlock
    BY <1>1 DEF LeaveBlock
  <1>2. CASE Terminate
    BY <1>2 DEF Terminate
  <1>3. CASE Terminated
    BY <1>3 DEF Terminated, Close
  <1>4. CASE TerminateTimeout
    <2>1. CASE tunnel = "termwait"
      <3>1. /\ tunnel' = "termkill" /\ signal' = "kill"
            /\ UNCHANGED <<source, ssh, armed, listener, address, leftover, tfaults>>
        BY <1>4, <2>1 DEF TerminateTimeout
      <3> QED
        BY <2>1, <3>1
    <2>2. CASE tunnel = "termkill"
      <3>1. tunnel' \in {"failed", "closed"} /\ leftover' = leftover \cup {"dying"}
        BY <1>4, <2>2 DEF TerminateTimeout, Close
      <3> QED
        BY <1>4, <2>2, <3>1 DEF TerminateTimeout, Close
    <2> QED
      BY <1>4, <2>1, <2>2 DEF TerminateTimeout
  <1> QED
    BY <1>1, <1>2, <1>3, <1>4

(* And so does whatever ssh, the network and the kernel do.                *)
LEMMA SshKeepsTunnel ==
    ASSUME TunnelOK, \/ SshListens \/ SshRefused \/ SshBreaks \/ SshExits \/ ParentDies
                     \/ \E kind \in {"dying", "deaf"} : LeftoverDies(kind)
    PROVE TunnelOK'
  <1>0. ASSUME tfaults < MaxTunnelFaults
        PROVE tfaults + 1 \in 0..MaxTunnelFaults /\ tfaults + 1 # 0
    BY <1>0, TunnelAssumption DEF TunnelAssumption, TunnelOK, TunnelTypeOK
  <1> USE DEF TunnelOK, TunnelTypeOK, TunnelInv, Alive
  <1>1. CASE SshListens
    BY <1>1 DEF SshListens
  <1>2. CASE SshRefused
    BY <1>2 DEF SshRefused
  <1>3. CASE SshBreaks
    BY <1>0, <1>3 DEF SshBreaks
  <1>4. CASE SshExits
    BY <1>4 DEF SshExits
  <1>5. ASSUME NEW kind \in {"dying", "deaf"}, LeftoverDies(kind) PROVE TunnelOK'
    BY <1>5 DEF LeftoverDies
  <1>6. CASE ParentDies
    <2>1. Orphaned \in {"dying", "deaf", "orphan"}
      BY DEF Orphaned
    <2> QED
      BY <1>0, <1>6, <2>1 DEF ParentDies
  <1> QED
    BY <1>1, <1>2, <1>3, <1>4, <1>5, <1>6

(* A step of the run leaves the tunnel where it is.                        *)
LEMMA StillTunnel == TunnelOK /\ UNCHANGED tunnelVars => TunnelOK'
  BY DEF TunnelOK, TunnelTypeOK, TunnelInv, Alive, tunnelVars

(* Every step of the entry point keeps what is said of the tunnel.         *)
LEMMA NextKeepsTunnel == ASSUME EntryInv, [EntryNext]_allEntryVars PROVE TunnelOK'
  <1>0. TunnelOK
    BY DEF EntryInv, EntryTypeOK, TunnelOK
  <1>1. ASSUME NEW selection \in Selections, NEW forced \in BOOLEAN,
               BeginRun(selection, forced)
        PROVE TunnelOK'
    BY <1>0, <1>1 DEF BeginRun, Call, TunnelOK, TunnelTypeOK, TunnelInv, Alive
  <1>2. CASE OpenStep
    BY <1>0, <1>2, OpenKeepsTunnel DEF OpenStep
  <1>3. CASE CloseStep \/ EndLoop
    BY <1>0, <1>3, CloseKeepsTunnel DEF CloseStep, EndLoop
  <1>4. CASE SshStep \/ Killed
    BY <1>0, <1>4, SshKeepsTunnel DEF SshStep, Killed
  <1>5. CASE UNCHANGED tunnelVars
    BY <1>0, <1>5, StillTunnel
  <1>6. ASSUME NEW selection \in Selections, NEW forced \in BOOLEAN,
               Refuse(selection, forced) \/ NothingSelected(selection, forced)
        PROVE UNCHANGED tunnelVars
    BY <1>6 DEF Refuse, NothingSelected
  <1>7. ASSUME \/ BuildContext \/ Load \/ Fail \/ Summarise \/ NoTunnel
               \/ (\E d \in Databases : Change(d)) \/ UNCHANGED allEntryVars
        PROVE UNCHANGED tunnelVars
    BY <1>7 DEF BuildContext, Load, Fail, Summarise, NoTunnel, Change, allEntryVars
  <1> QED
    BY <1>1, <1>2, <1>3, <1>4, <1>5, <1>6, <1>7 DEF EntryNext, RunStep

-----------------------------------------------------------------------------
(* What is decided before anything is touched.                             *)

Status == [database : Databases, success : BOOLEAN, present : BOOLEAN]

(* What a configuration says of the method and of multi_source.            *)
LEMMA ConfigType == ASSUME config \in Configs
                    PROVE /\ config.method \in Methods
                          /\ config.multi \in {"unset", "yes", "no"}
  BY EntrypointAssumption DEF EntrypointAssumption, Config

(* What resolve_strategy makes of a load_method that is no typo.           *)
LEMMA StrategyType ==
    ASSUME config \in Configs, NEW forced \in BOOLEAN, Strategy(forced) # "typo"
    PROVE Strategy(forced) \in {"full", "full_by_source", "id_watermark", "incremental",
                                "parent_incremental", "hash_diff"}
  BY ConfigType DEF Strategy, StrategyName, ResumeIsWatermark, Methods

(* A forced run replaces, and never resumes or compares.                   *)
LEMMA ForcedReplaces ==
    ASSUME config \in Configs
    PROVE Strategy(TRUE) \in {"full", "full_by_source"}
  BY ConfigType DEF Strategy, StrategyName, ResumeIsWatermark, Methods

(* full_by_source stays what it is, forced or not.                         *)
LEMMA SlicesAreAsked ==
    ASSUME config.method = "full_by_source", NEW forced \in BOOLEAN
    PROVE Strategy(forced) = "full_by_source"
  BY DEF Strategy, StrategyName, ResumeIsWatermark

(* What resolve_databases gives is a sequence of databases.                *)
LEMMA ResolvedType ==
    ASSUME NEW selection \in Selections
    PROVE ResolveDatabases(selection) \in Seq(Databases)
  <1>1. CASE selection = Absent
    <2>1. <<Home>> \in Seq(Databases)
      BY EntrypointAssumption DEF EntrypointAssumption
    <2> QED
      BY <1>1, <2>1 DEF ResolveDatabases
  <1>2. CASE selection # Absent
    <2>1. selection \in Seq(Databases)
      BY <1>2, EntrypointAssumption DEF EntrypointAssumption
    <2> QED
      BY <1>2, <2>1 DEF ResolveDatabases
  <1> QED
    BY <1>1, <1>2

(* Whether a run is one of several sources.                                *)
LEMMA MultiType ==
    ASSUME config \in Configs, NEW databases \in Seq(Databases)
    PROVE /\ MultiSource(databases) \in {"yes", "no"}
          /\ config.multi # "unset" => MultiSource(databases) = config.multi
  BY ConfigType DEF MultiSource

(* The record of a run that begins.                                        *)
LEMMA RunType ==
    ASSUME EntryTypeOK, NEW selection \in Selections, NEW forced \in BOOLEAN,
           BeginRun(selection, forced)
    PROVE /\ run'.databases \in Seq(Databases)
          /\ run'.strategy = Strategy(forced)
          /\ run'.strategy \in {"full", "full_by_source", "id_watermark", "incremental",
                                "parent_incremental", "hash_diff"}
          /\ run'.forced = forced
          /\ run'.multi \in {"yes", "no"}
          /\ config.multi # "unset" => run'.multi = config.multi
          /\ run'.asof = version
  BY ResolvedType, MultiType, StrategyType DEF BeginRun, EntryTypeOK

(* Between two runs.                                                       *)
LEMMA NoRunType ==
    /\ NoRun.databases = <<>> /\ NoRun.databases \in Seq(Databases)
    /\ NoRun.strategy = "none" /\ NoRun.forced = FALSE /\ NoRun.multi = "no"
    /\ NoRun.asof \in [Databases -> 0..MaxChanges]
    /\ \A d \in Databases : NoRun.asof[d] = 0
  BY EntrypointAssumption DEF EntrypointAssumption, NoRun

-----------------------------------------------------------------------------
(* A turn.                                                                 *)

(* The database whose turn it is, and the row its turn leaves.             *)
LEMMA TurnType ==
    ASSUME EntryInv, Looping
    PROVE /\ Len(statuses) \in Nat /\ Len(run.databases) \in Nat
          /\ Len(statuses) + 1 \in 1..Len(run.databases)
          /\ Current \in Databases
          /\ Current = run.databases[Len(statuses) + 1]
  BY DEF EntryInv, EntryTypeOK, Looping, Current

(* The status rows with one more.                                          *)
LEMMA RowAdded ==
    ASSUME EntryInv, Looping, NEW success \in BOOLEAN, NEW present \in BOOLEAN,
           Report(success, present)
    PROVE /\ statuses' \in Seq(Status)
          /\ Len(statuses') = Len(statuses) + 1
          /\ statuses'[Len(statuses) + 1] = [database |-> Current, success |-> success,
                                              present |-> present]
          /\ \A i \in 1..Len(statuses) : statuses'[i] = statuses[i]
  <1>1. statuses \in Seq(Status)
    BY DEF EntryInv, EntryTypeOK, Status
  <1>2. [database |-> Current, success |-> success, present |-> present] \in Status
    BY TurnType DEF Status
  <1> QED
    BY <1>1, <1>2, AppendProperties DEF Report

(* The table that a full load leaves (swap_shadow_table).                  *)
LEMMA OnlyThisType ==
    ASSUME EntryInv, Looping
    PROVE /\ OnlyThis \in [Databases -> NoRows..MaxChanges]
          /\ OnlyThis[Current] = version[Current]
  <1>1. version \in [Databases -> 0..MaxChanges] /\ MaxChanges \in Nat
    BY EntrypointAssumption DEF EntrypointAssumption, EntryInv, EntryTypeOK
  <1>2. \A d \in Databases : version[d] \in NoRows..MaxChanges /\ NoRows \in NoRows..MaxChanges
    BY <1>1 DEF NoRows
  <1> QED
    BY <1>1, <1>2, TurnType DEF OnlyThis

(* The table with the slice of one database replaced.                      *)
LEMMA LoadedType ==
    ASSUME EntryInv, Looping
    PROVE /\ Loaded \in [Databases -> NoRows..MaxChanges]
          /\ Loaded[Current] = version[Current]
          /\ \A d \in Databases : d # Current => Loaded[d] = target[d]
  <1>1. version \in [Databases -> 0..MaxChanges] /\ MaxChanges \in Nat
    BY EntrypointAssumption DEF EntrypointAssumption, EntryInv, EntryTypeOK
  <1>2. target \in [Databases -> NoRows..MaxChanges]
    BY DEF EntryInv, EntryTypeOK
  <1>3. version[Current] \in NoRows..MaxChanges
    BY <1>1, TurnType DEF NoRows
  <1> QED
    BY <1>2, <1>3, TurnType DEF Loaded

(* What is loaded now is no older than the run.                            *)
LEMMA NowIsFresh ==
    ASSUME EntryInv, NEW d \in Databases
    PROVE version[d] # NoRows /\ version[d] >= run.asof[d]
  <1>1. version[d] \in Nat /\ run.asof[d] \in Nat /\ run.asof[d] <= version[d]
    BY DEF EntryInv, EntryTypeOK, DecidedInv
  <1> QED
    BY <1>1 DEF NoRows

(* What a turn leaves and reports, in its two parts.                       *)
LEMMA ResultParts ==
    \A table, present : /\ Result(table, present).table = table
                        /\ Result(table, present).present = present
  BY DEF Result

(* A report of data or of none.                                            *)
LEMMA ResultReports == ASSUME NEW result \in Results PROVE result.present \in BOOLEAN
  <1>1. \E table : \E present \in BOOLEAN : result = Result(table, present)
    <2>1. CASE result \in FullResults
      BY <2>1 DEF FullResults
    <2>2. CASE result \in SliceResults
      BY <2>2 DEF SliceResults
    <2>3. CASE result \in TrustingResults
      BY <2>1, <2>3 DEF TrustingResults
    <2> QED
      BY <2>1, <2>2, <2>3 DEF Results
  <1>2. PICK table, present : present \in BOOLEAN /\ result = Result(table, present)
    BY <1>1
  <1> QED
    BY <1>2, ResultParts

(* The tables a turn may leave, whatever becomes of it.                    *)
LEMMA ResultTables ==
    ASSUME EntryInv, Looping, NEW result \in Results
    PROVE \/ result.table = target
          \/ result.table = Loaded
          \/ /\ result.table = OnlyThis
             /\ ~(run.strategy = "full_by_source" /\ run.multi = "yes")
  <1>1. CASE run.strategy = "full"
    BY <1>1, ResultParts DEF Results, FullResults
  <1>2. CASE run.strategy = "full_by_source"
    BY <1>2, ResultParts DEF Results, SliceResults
  <1>3. CASE run.strategy \notin {"full", "full_by_source"}
    <2>1. result \in TrustingResults
      BY <1>3 DEF Results
    <2>2. result \in FullResults
          \/ \E table \in {target, Loaded}, present \in BOOLEAN :
                result = Result(table, present)
      BY <2>1 DEF TrustingResults
    <2>3. CASE result \in FullResults
      BY <1>3, <2>3, ResultParts DEF FullResults
    <2>4. ASSUME NEW table \in {target, Loaded}, NEW present \in BOOLEAN,
                 result = Result(table, present)
          PROVE result.table = target \/ result.table = Loaded
      BY <2>4, ResultParts
    <2> QED
      BY <2>2, <2>3, <2>4
  <1> QED
    BY <1>1, <1>2, <1>3

(* A strategy that replaces brings what it reports.                        *)
LEMMA ResultBrings ==
    ASSUME EntryInv, Looping, NEW result \in Results, Replaces, result.present
    PROVE Brought(result.table, Current)
  <1>1. /\ Current \in Databases
        /\ version[Current] # NoRows /\ version[Current] >= run.asof[Current]
    BY TurnType, NowIsFresh
  <1>2. Brought(Loaded, Current) /\ Brought(OnlyThis, Current)
    BY <1>1, LoadedType, OnlyThisType DEF Brought
  <1>3. CASE run.strategy = "full"
    <2>1. result.table = OnlyThis
      BY <1>3 DEF Results, FullResults, Result
    <2> QED
      BY <1>2, <2>1
  <1>4. CASE run.strategy = "full_by_source"
    <2>1. \/ result.table \in {Loaded, OnlyThis}
          \/ result.table = target /\ MaySkip
      BY <1>4 DEF Results, SliceResults, Result
    <2> QED
      BY <1>2, <2>1 DEF Brought, MaySkip
  <1> QED
    BY <1>3, <1>4 DEF Replaces

(* No turn takes a kept one's rows away,                                   *)
LEMMA ResultKeeps ==
    ASSUME EntryInv, Looping, NEW result \in Results
    PROVE /\ result.table \in [Databases -> NoRows..MaxChanges]
          /\ \A i \in 1..Len(statuses) :
               Kept(i) /\ Brought(target, run.databases[i])
                 => Brought(result.table, run.databases[i])
  <1>0. /\ Current \in Databases
        /\ target \in [Databases -> NoRows..MaxChanges]
        /\ version[Current] # NoRows /\ version[Current] >= run.asof[Current]
    BY TurnType, NowIsFresh DEF EntryInv, EntryTypeOK
  <1>1. \A i \in 1..Len(statuses) : run.databases[i] \in Databases /\ i # Len(run.databases)
    <2>1. run.databases \in Seq(Databases)
      BY DEF EntryInv, EntryTypeOK
    <2> QED
      BY <2>1, TurnType
  <1>2. CASE /\ result.table = OnlyThis
             /\ ~(run.strategy = "full_by_source" /\ run.multi = "yes")
    <2>1. \A i \in 1..Len(statuses) : ~Kept(i)
      BY <1>1, <1>2 DEF Kept
    <2> QED
      BY <1>2, <2>1, OnlyThisType
  <1>3. CASE result.table = Loaded
    BY <1>0, <1>1, <1>3, LoadedType DEF Brought
  <1>4. CASE result.table = target
    BY <1>0, <1>4
  <1> QED
    BY <1>2, <1>3, <1>4, ResultTables

(* nor does one that ends early.                                           *)
LEMMA FailureKeeps ==
    ASSUME EntryInv, NEW table \in LeftByFailure
    PROVE /\ table \in [Databases -> NoRows..MaxChanges]
          /\ \A i \in 1..Len(statuses) :
               Kept(i) /\ Brought(target, run.databases[i])
                 => Brought(table, run.databases[i])
  <1>1. CASE table = target
    BY <1>1 DEF EntryInv, EntryTypeOK
  <1>2. CASE table # target
    <2>1. Looping /\ table \in {result.table : result \in Results}
      BY <1>2 DEF LeftByFailure
    <2>2. PICK result \in Results : table = result.table
      BY <2>1
    <2> QED
      BY <2>1, <2>2, ResultKeeps
  <1> QED
    BY <1>1, <1>2

-----------------------------------------------------------------------------
(* Steps of the run.                                                       *)

RunOK == EntryTypeOK /\ LoopInv /\ DecidedInv /\ TurnsKept

(* No tunnel at first.                                                     *)
LEMMA TunnelStarts == TunnelInit => TunnelOK
  <1> SUFFICES ASSUME TunnelInit PROVE TunnelOK
    OBVIOUS
  <1>1. TunnelInv
    BY DEF TunnelInit, TunnelInv
  <1>2. tfaults \in 0..MaxTunnelFaults
    BY TunnelAssumption DEF TunnelAssumption, TunnelInit
  <1>3. TunnelTypeOK
    BY <1>2 DEF TunnelInit, TunnelTypeOK, Alive
  <1> QED
    BY <1>1, <1>3 DEF TunnelOK

(* Nothing has happened yet.                                               *)
LEMMA EntryStarts == EntryInit => EntryInv
  <1> SUFFICES ASSUME EntryInit PROVE EntryInv
    OBVIOUS
  <1>2. TunnelOK
    BY TunnelStarts DEF EntryInit
  <1> USE EntrypointAssumption, NoRunType DEF EntryInit, TunnelInit, EntrypointAssumption
  <1>0. <<>> \in Seq([database : Databases, success : BOOLEAN, present : BOOLEAN])
    OBVIOUS
  <1>1. EntryTypeOK
    <2>1. TunnelTypeOK
      BY <1>2 DEF TunnelOK
    <2>2. /\ version \in [Databases -> 0..MaxChanges] /\ runs \in 0..MaxRuns
          /\ target \in [Databases -> NoRows..MaxChanges]
      BY DEF NoRows
    <2>3. statuses \in Seq([database : Databases, success : BOOLEAN, present : BOOLEAN])
      BY <1>0
    <2>4. /\ run.databases \in Seq(Databases) /\ run.asof \in [Databases -> 0..MaxChanges]
          /\ run.strategy = "none" /\ run.forced = FALSE /\ run.multi = "no"
      OBVIOUS
    <2> QED
      BY <2>1, <2>2, <2>3, <2>4 DEF EntryTypeOK
  <1>3. LoopInv /\ DecidedInv
    BY DEF LoopInv, DecidedInv, Replaces
  <1>4. TurnsKept
    BY DEF TurnsKept
  <1> QED
    BY <1>1, <1>2, <1>3, <1>4 DEF EntryInv, TunnelOK

(* A call that ends before the tunnel is opened.                           *)
LEMMA RefusedKeeps ==
    ASSUME EntryInv, TunnelOK', NEW selection \in Selections, NEW forced \in BOOLEAN,
           Refuse(selection, forced) \/ NothingSelected(selection, forced)
    PROVE RunOK'
  <1> USE DEF Refuse, NothingSelected, Call
  <1>1. runs' \in 0..MaxRuns
    BY EntrypointAssumption DEF EntrypointAssumption, EntryInv, EntryTypeOK
  <1>2. run' = NoRun /\ statuses' = <<>> /\ outcome' \in {"refused", "nothing"}
        /\ UNCHANGED <<config, version, target, phase, conn, tunnel>>
    BY DEF tunnelVars
  <1>3. phase' = "idle" /\ conn' = FALSE /\ tunnel' \in {"closed", "failed"}
    BY <1>2 DEF EntryInv, LoopInv
  <1>4. EntryTypeOK'
    <2>1. statuses' \in Seq([database : Databases, success : BOOLEAN, present : BOOLEAN])
      BY <1>2
    <2>2. run'.databases \in Seq(Databases) /\ run'.asof \in [Databases -> 0..MaxChanges]
          /\ run'.strategy = "none" /\ run'.forced = FALSE /\ run'.multi = "no"
      BY <1>2, NoRunType
    <2> QED
      BY <1>1, <1>2, <2>1, <2>2 DEF EntryInv, EntryTypeOK, TunnelOK
  <1>5. LoopInv'
    BY <1>2, <1>3 DEF LoopInv
  <1>6. DecidedInv'
    BY <1>2, <1>3, NoRunType DEF EntryInv, EntryTypeOK, DecidedInv, Replaces
  <1>7. TurnsKept'
    BY <1>2, NoRunType DEF TurnsKept
  <1> QED
    BY <1>4, <1>5, <1>6, <1>7 DEF RunOK

(* A run that begins: no turn yet.                                         *)
LEMMA BeginRunKeeps ==
    ASSUME EntryInv, TunnelOK', NEW selection \in Selections, NEW forced \in BOOLEAN,
           BeginRun(selection, forced)
    PROVE RunOK'
  <1> USE DEF BeginRun, Call
  <1>0. EntryTypeOK
    BY DEF EntryInv
  <1>1. runs' \in 0..MaxRuns
    BY EntrypointAssumption DEF EntrypointAssumption, EntryInv, EntryTypeOK
  <1>2. conn' = FALSE
    BY DEF EntryInv, LoopInv
  <1>3. EntryTypeOK'
    <2>1. run'.strategy \in {"none", "full", "full_by_source", "id_watermark",
                             "incremental", "parent_incremental", "hash_diff"}
      BY <1>0, RunType
    <2>2. run'.databases \in Seq(Databases) /\ run'.forced \in BOOLEAN
          /\ run'.multi \in {"yes", "no"} /\ run'.asof \in [Databases -> 0..MaxChanges]
      BY <1>0, RunType DEF EntryTypeOK
    <2> QED
      BY <1>0, <1>1, <1>2, <2>1, <2>2 DEF EntryTypeOK, TunnelOK
  <1>4. LoopInv'
    BY <1>2 DEF LoopInv
  <1>5. DecidedInv'
    <2>1. Strategy(forced)' = Strategy(forced)
      BY DEF Strategy, StrategyName, ResumeIsWatermark
    <2>2. \A d \in Databases : version[d] \in Int
      BY <1>0, EntrypointAssumption DEF EntrypointAssumption, EntryTypeOK
    <2>3. forced => Strategy(forced) \in {"full", "full_by_source"}
      BY <1>0, ForcedReplaces DEF EntryTypeOK
    <2> QED
      BY <1>0, <2>1, <2>2, <2>3, RunType DEF DecidedInv, Replaces
  <1>6. TurnsKept'
    <2>1. statuses' = <<>> /\ run'.databases \in Seq(Databases)
      BY <1>0, RunType
    <2> QED
      BY <2>1 DEF TurnsKept
  <1> QED
    BY <1>3, <1>4, <1>5, <1>6 DEF RunOK

(* Opening, closing and the environment change nothing of the run.         *)
LEMMA TunnelStepKeeps ==
    ASSUME EntryInv, TunnelOK', OpenStep \/ CloseStep \/ SshStep
    PROVE RunOK'
  <1>1. UNCHANGED <<config, version, target, phase, run, statuses, conn, outcome, runs>>
    BY DEF OpenStep, CloseStep, SshStep, entryVars
  <1>2. EntryTypeOK' /\ TurnsKept'
    BY <1>1 DEF EntryInv, EntryTypeOK, TunnelOK, TurnsKept, Kept, Replaces, Brought
  <1>3. DecidedInv'
    BY <1>1 DEF EntryInv, DecidedInv, Replaces, Strategy, StrategyName, ResumeIsWatermark
  <1>4. phase = "idle" => UNCHANGED tunnel
    <2> SUFFICES ASSUME phase = "idle" PROVE UNCHANGED tunnel
      OBVIOUS
    <2>1. tunnel \in {"closed", "failed"} /\ ssh = "none" /\ phase = "idle"
      BY DEF EntryInv, LoopInv, TunnelInv
    <2> QED
      BY <2>1 DEF OpenStep, CloseStep, SshStep, Direct, Fork, ForkFails, NoWayIn, Exec, PortAnswers,
            PortTimeout, Drained, DrainTimeout, Terminate, Terminated, TerminateTimeout,
            SshListens, SshRefused, SshBreaks, SshExits, LeftoverDies, Alive
  <1>5. tunnel = "open" => tunnel' = "open"
    BY DEF EntryInv, TunnelInv, OpenStep, CloseStep, SshStep, Direct, Fork, ForkFails, NoWayIn, Exec,
        PortAnswers, PortTimeout, Drained, DrainTimeout, Terminate, Terminated,
        TerminateTimeout, SshListens, SshRefused, SshBreaks, SshExits, LeftoverDies,
        HandOver, Close
  <1>6. ASSUME tunnel' \in {"closed", "term", "termwait", "termkill"},
               tunnel' = "closed" \/ address' # "none"
        PROVE /\ tunnel \in {"closed", "term", "termwait", "termkill"}
              /\ tunnel = "closed" \/ address # "none"
    BY <1>6 DEF EntryInv, TunnelInv, OpenStep, CloseStep, SshStep, Direct, Fork, ForkFails, NoWayIn, Exec,
        PortAnswers, PortTimeout, Drained, DrainTimeout, Terminate, Terminated,
        TerminateTimeout, SshListens, SshRefused, SshBreaks, SshExits, LeftoverDies,
        HandOver, Close
  <1>7. LoopInv'
    BY <1>1, <1>4, <1>5, <1>6 DEF EntryInv, LoopInv, Looping
  <1> QED
    BY <1>2, <1>3, <1>7 DEF RunOK

(* The connection of a turn is opened within it.                           *)
LEMMA BuildKeeps == ASSUME EntryInv, TunnelOK', BuildContext PROVE RunOK'
  <1> USE DEF BuildContext, tunnelVars
  <1>1. EntryTypeOK' /\ TurnsKept'
    BY DEF EntryInv, EntryTypeOK, TunnelOK, TurnsKept, Kept, Replaces, Brought
  <1>2. DecidedInv'
    BY DEF EntryInv, DecidedInv, Replaces, Strategy, StrategyName, ResumeIsWatermark
  <1>3. LoopInv'
    BY DEF EntryInv, LoopInv, Looping
  <1> QED
    BY <1>1, <1>2, <1>3 DEF RunOK

(* A turn ends: one more row, and the connection is closed.                *)
LEMMA TurnEnds ==
    ASSUME EntryInv, TunnelOK', Looping, NEW success \in BOOLEAN, NEW present \in BOOLEAN,
           Report(success, present),
           conn' = FALSE,
           target' \in [Databases -> NoRows..MaxChanges],
           success /\ present /\ Replaces => Brought(target', Current),
           \A i \in 1..Len(statuses) :
               Kept(i) /\ Brought(target, run.databases[i]) => Brought(target', run.databases[i]),
           UNCHANGED <<config, version, phase, run, outcome, runs, tunnelVars>>
    PROVE RunOK'
  <1>1. /\ statuses' \in Seq(Status)
        /\ Len(statuses') = Len(statuses) + 1
        /\ statuses'[Len(statuses) + 1] = [database |-> Current, success |-> success,
                                            present |-> present]
        /\ \A i \in 1..Len(statuses) : statuses'[i] = statuses[i]
    BY RowAdded
  <1>2. /\ Len(statuses) \in Nat /\ Len(run.databases) \in Nat
        /\ Len(statuses) + 1 <= Len(run.databases)
        /\ Current = run.databases[Len(statuses) + 1]
    BY TurnType
  <1>3. EntryTypeOK'
    BY <1>1 DEF EntryInv, EntryTypeOK, TunnelOK, Status
  <1>4. LoopInv'
    BY <1>1, <1>2 DEF EntryInv, LoopInv, Looping, tunnelVars
  <1>5. DecidedInv'
    BY DEF EntryInv, DecidedInv, Replaces, Strategy, StrategyName, ResumeIsWatermark
  <1>6. ASSUME NEW i \in 1..Len(statuses')
        PROVE /\ statuses'[i].database = run.databases[i]
              /\ statuses'[i].success /\ statuses'[i].present /\ Replaces /\ Kept(i)
                   => Brought(target', run.databases[i])
    <2>1. CASE i \in 1..Len(statuses)
      BY <1>1, <2>1 DEF EntryInv, TurnsKept
    <2>2. CASE i = Len(statuses) + 1
      BY <1>1, <1>2, <2>2
    <2> QED
      BY <1>1, <1>2, <2>1, <2>2
  <1>7. Len(statuses') <= Len(run'.databases)
    BY <1>1, <1>2
  <1>8. TurnsKept'
    BY <1>6, <1>7 DEF TurnsKept, Kept, Replaces, Brought
  <1> QED
    BY <1>3, <1>4, <1>5, <1>8 DEF RunOK

(* A turn that fails, whatever it has committed.                           *)
LEMMA FailKeeps == ASSUME EntryInv, TunnelOK', Fail PROVE RunOK'
  <1>1. target' \in LeftByFailure /\ Looping /\ Report(FALSE, FALSE) /\ conn' = FALSE
        /\ UNCHANGED <<config, version, phase, run, outcome, runs, tunnelVars>>
    BY DEF Fail
  <1>2. /\ target' \in [Databases -> NoRows..MaxChanges]
        /\ \A i \in 1..Len(statuses) :
             Kept(i) /\ Brought(target, run.databases[i]) => Brought(target', run.databases[i])
    BY <1>1, FailureKeeps
  <1> QED
    BY <1>1, <1>2, TurnEnds

(* A turn that loads: what it reports is there.                            *)
LEMMA LoadKeeps == ASSUME EntryInv, TunnelOK', Load PROVE RunOK'
  <1>1. Looping /\ conn' = FALSE
        /\ UNCHANGED <<config, version, phase, run, outcome, runs, tunnelVars>>
    BY DEF Load
  <1>2. PICK result \in Results : target' = result.table /\ Report(TRUE, result.present)
    BY DEF Load
  <1>3. result.present \in BOOLEAN
    BY <1>2, ResultReports
  <1>4. /\ target' \in [Databases -> NoRows..MaxChanges]
        /\ \A i \in 1..Len(statuses) :
             Kept(i) /\ Brought(target, run.databases[i]) => Brought(target', run.databases[i])
    BY <1>1, <1>2, ResultKeeps
  <1>5. result.present /\ Replaces => Brought(target', Current)
    BY <1>1, <1>2, ResultBrings
  <1> QED
    BY <1>1, <1>2, <1>3, <1>4, <1>5, TurnEnds

(* The loop is over: every database has had its turn.                      *)
LEMMA EndLoopKeeps == ASSUME EntryInv, TunnelOK', EndLoop PROVE RunOK'
  <1> USE DEF EndLoop, LeaveBlock, entryVars
  <1>1. EntryTypeOK' /\ TurnsKept'
    BY DEF EntryInv, EntryTypeOK, TunnelOK, TurnsKept, Kept, Replaces, Brought
  <1>2. DecidedInv'
    BY DEF EntryInv, DecidedInv, Replaces, Strategy, StrategyName, ResumeIsWatermark
  <1>3. ~conn
    BY DEF EntryInv, EntryTypeOK, LoopInv, Looping
  <1>4. LoopInv'
    BY <1>3 DEF EntryInv, LoopInv
  <1> QED
    BY <1>1, <1>2, <1>4 DEF RunOK

(* A run ends, with a frame, with an exception, or without having tried.   *)
LEMMA EndKeeps == ASSUME EntryInv, TunnelOK', Summarise \/ NoTunnel PROVE RunOK'
  <1> USE DEF Summarise, NoTunnel, tunnelVars
  <1>1. EntryTypeOK' /\ TurnsKept'
    BY DEF EntryInv, EntryTypeOK, TunnelOK, TurnsKept, Kept, Replaces, Brought
  <1>2. DecidedInv'
    BY DEF EntryInv, DecidedInv, Replaces, Strategy, StrategyName, ResumeIsWatermark
  <1>3. conn = FALSE /\ conn' = FALSE /\ phase' = "idle"
    BY DEF EntryInv, EntryTypeOK, LoopInv, Looping
  <1>4. ASSUME NoTunnel PROVE LoopInv'
    BY <1>3, <1>4 DEF EntryInv, LoopInv
  <1>5. ASSUME Summarise PROVE LoopInv'
    <2>1. Len(statuses) = Len(run.databases) /\ outcome' \in {"green", "red"}
          /\ UNCHANGED <<statuses, run, tunnel>> /\ tunnel = "closed"
      BY <1>5 DEF EntryInv, LoopInv
    <2>2. \A i \in 1..Len(statuses) : statuses[i].success \in BOOLEAN
      <3>1. statuses \in Seq(Status)
        BY DEF EntryInv, EntryTypeOK, Status
      <3>2. \A i \in 1..Len(statuses) : statuses[i] \in Status
        BY <3>1
      <3> QED
        BY <3>2 DEF Status
    <2>3. outcome' = "green" <=> \A i \in 1..Len(statuses) : statuses[i].success
      BY <1>5, <2>2
    <2> QED
      BY <1>3, <2>1, <2>3 DEF LoopInv
  <1>6. LoopInv'
    BY <1>4, <1>5
  <1> QED
    BY <1>1, <1>2, <1>6 DEF RunOK

(* The process of the run dies.                                            *)
LEMMA KilledKeeps == ASSUME EntryInv, TunnelOK', Killed PROVE RunOK'
  <1> USE DEF Killed, ParentDies
  <1>1. statuses' = <<>> /\ statuses' \in Seq([database : Databases, success : BOOLEAN, present : BOOLEAN])
    OBVIOUS
  <1>2. run' = NoRun
    OBVIOUS
  <1>3. EntryTypeOK'
    <2>1. target' \in [Databases -> NoRows..MaxChanges]
      BY FailureKeeps
    <2> QED
      BY <1>1, <1>2, <2>1, NoRunType DEF EntryInv, EntryTypeOK, TunnelOK
  <1>4. LoopInv' /\ TurnsKept'
    BY <1>1, <1>2, NoRunType DEF LoopInv, TurnsKept
  <1>5. DecidedInv'
    BY <1>2, NoRunType DEF EntryInv, EntryTypeOK, DecidedInv, Replaces
  <1> QED
    BY <1>3, <1>4, <1>5 DEF RunOK

(* A source database changes.                                              *)
LEMMA ChangeDbKeeps ==
    ASSUME EntryInv, TunnelOK', NEW d \in Databases, Change(d)
    PROVE RunOK'
  <1> USE DEF Change, tunnelVars
  <1>1. version \in [Databases -> 0..MaxChanges] /\ MaxChanges \in Nat
    BY EntrypointAssumption DEF EntrypointAssumption, EntryInv, EntryTypeOK
  <1>2. /\ version' \in [Databases -> 0..MaxChanges]
        /\ \A e \in Databases : version[e] <= version'[e]
    BY <1>1
  <1>3. EntryTypeOK' /\ TurnsKept'
    BY <1>2 DEF EntryInv, EntryTypeOK, TunnelOK, TurnsKept, Kept, Replaces, Brought
  <1>4. LoopInv'
    BY DEF EntryInv, LoopInv, Looping
  <1>5. DecidedInv'
    <2>1. \A e \in Databases : run.asof[e] \in Int /\ version[e] \in Int /\ version'[e] \in Int
                                 /\ run.asof[e] <= version[e]
      BY <1>1, <1>2 DEF EntryInv, EntryTypeOK, DecidedInv
    <2>2. \A e \in Databases : run.asof[e] <= version'[e]
      BY <1>2, <2>1
    <2> QED
      BY <2>2 DEF EntryInv, DecidedInv, Replaces, Strategy, StrategyName, ResumeIsWatermark
  <1> QED
    BY <1>3, <1>4, <1>5 DEF RunOK

(* Nothing happens.                                                        *)
LEMMA StutterKeeps == ASSUME EntryInv, TunnelOK', UNCHANGED allEntryVars PROVE RunOK'
  <1> USE DEF allEntryVars, entryVars, tunnelVars
  <1>1. EntryTypeOK' /\ TurnsKept'
    BY DEF EntryInv, EntryTypeOK, TunnelOK, TurnsKept, Kept, Replaces, Brought
  <1>2. DecidedInv'
    BY DEF EntryInv, DecidedInv, Replaces, Strategy, StrategyName, ResumeIsWatermark
  <1>3. LoopInv'
    BY DEF EntryInv, LoopInv, Looping
  <1> QED
    BY <1>1, <1>2, <1>3 DEF RunOK

(* The invariant is inductive.                                             *)
LEMMA EntryNextKeeps == EntryInv /\ [EntryNext]_allEntryVars => EntryInv'
  <1> SUFFICES ASSUME EntryInv, [EntryNext]_allEntryVars PROVE EntryInv'
    OBVIOUS
  <1>1. TunnelOK'
    BY NextKeepsTunnel
  <1>2. RunOK'
    BY <1>1, RefusedKeeps, BeginRunKeeps, TunnelStepKeeps, BuildKeeps, FailKeeps, LoadKeeps,
       EndLoopKeeps, EndKeeps, KilledKeeps, ChangeDbKeeps, StutterKeeps DEF EntryNext, RunStep
  <1> QED
    BY <1>1, <1>2 DEF RunOK, TunnelOK, EntryInv

(* The steps together.                                                     *)
LEMMA EntryInvariant == EntrySpec => []EntryInv
  BY EntryStarts, EntryNextKeeps, PTL DEF EntrySpec

(* One turn after the other, whatever fails in one: a status row for every *)
(* database, a connection in its turn only, an address that is served, and *)
(* in the target what full and full_by_source report as loaded with data,  *)
(* unless a later turn replaced the table (_run, _run_one, open_tunnel).   *)
THEOREM TurnsAreKept == EntrySpec => []TurnsInv
  <1>1. EntryInv => TurnsInv
    <2> SUFFICES ASSUME EntryInv PROVE TurnsInv
      OBVIOUS
    <2>1. EveryDatabaseIsTried
      BY DEF EntryInv, LoopInv, TurnsKept, Brought, EveryDatabaseIsTried
    <2>2. OneConnectionPerTurn
      BY DEF EntryInv, LoopInv, OneConnectionPerTurn
    <2>3. AddressIsServed
      BY DEF EntryInv, TunnelInv, AddressIsServed
    <2> QED
      BY <2>1, <2>2, <2>3 DEF EntryInv, TurnsInv
  <1> QED
    BY <1>1, EntryInvariant, PTL

(* forced_full_load trusts nothing the target remembers, for any number of *)
(* databases, runs, changes and deaths: what a green forced run reports    *)
(* with data is no older than the run (_strategy_name, resolve_strategy).  *)
THEOREM ForcedRunsBringEverything == EntrySpec => []ForcedBringsEverything
  <1>1. EntryInv => ForcedBringsEverything
    <2> SUFFICES ASSUME EntryInv, outcome = "green", run.forced,
                        NEW i \in 1..Len(run.databases), statuses[i].present, Kept(i)
                 PROVE target[run.databases[i]] >= run.asof[run.databases[i]]
      BY DEF ForcedBringsEverything
    <2>1. i \in 1..Len(statuses) /\ statuses[i].success
      BY DEF EntryInv, LoopInv
    <2>2. Replaces
      BY DEF EntryInv, DecidedInv
    <2> QED
      BY <2>1, <2>2 DEF EntryInv, TurnsKept, Brought
  <1> QED
    BY <1>1, EntryInvariant, PTL

(* With multi_source set, no step takes the slice of a database away that  *)
(* is not the one being loaded, whatever is selected, forced or fails.     *)
THEOREM SlicesAreLeftAlone == EntrySpec => SlicesSurvive
  <1>1. ASSUME EntryInv, [EntryNext]_allEntryVars,
               config.method = "full_by_source", config.multi = "yes",
               NEW d \in Databases, target[d] # NoRows
        PROVE target'[d] # NoRows
    <2>1. ASSUME Looping, NEW result \in Results, target' = result.table
          PROVE target'[d] # NoRows
      <3>1. run.strategy = "full_by_source" /\ run.multi = "yes"
        BY <1>1, <2>1, SlicesAreAsked DEF EntryInv, EntryTypeOK, DecidedInv, Looping
      <3>2. target' = Loaded \/ target' = target
        BY <1>1, <2>1, <3>1, ResultTables
      <3>3. Loaded[Current] # NoRows /\ (d # Current => Loaded[d] = target[d])
        BY <1>1, <2>1, TurnType, LoadedType, NowIsFresh
      <3> QED
        BY <1>1, <3>2, <3>3
    <2>2. CASE Load
      <3>1. Looping /\ \E result \in Results : target' = result.table
        BY <2>2 DEF Load
      <3> QED
        BY <2>1, <3>1
    <2>3. CASE Fail \/ Killed
      <3>1. target' \in LeftByFailure
        BY <2>3 DEF Fail, Killed
      <3>2. CASE target' # target
        <4>1. Looping /\ target' \in {result.table : result \in Results}
          BY <3>1, <3>2 DEF LeftByFailure
        <4> QED
          BY <2>1, <4>1
      <3> QED
        BY <1>1, <3>2
    <2>4. CASE ~(Load \/ Fail \/ Killed)
      <3>1. UNCHANGED target
        BY <1>1, <2>4 DEF EntryNext, RunStep, Refuse, NothingSelected, BeginRun, OpenStep,
           CloseStep, SshStep, BuildContext, EndLoop, Summarise, NoTunnel, Change,
           allEntryVars, entryVars
      <3> QED
        BY <1>1, <3>1
    <2> QED
      BY <2>2, <2>3, <2>4
  <1>2. EntryInv /\ [EntryNext]_allEntryVars
          => [config.method = "full_by_source" /\ config.multi = "yes" =>
                \A d \in Databases : target[d] # NoRows => target'[d] # NoRows]_allEntryVars
    BY <1>1
  <1> QED
    BY <1>2, EntryInvariant, PTL DEF EntrySpec, SlicesSurvive

-----------------------------------------------------------------------------
(* The records.                                                            *)

Critical == {"push", "apply", "pop"} \cup Changing

(* The logger is neither as it was nor fully taken over.                   *)
Midway == {"install", "silence", "relevel", "restore", "forget"}

Logging == {"enabled", "handlers", "emit", "quiet", "propagate", "done"}

LockInv == \A t \in Threads : pc[t] \in Critical <=> lock = t

Bare == package = [level |-> host.level, propagate |-> host.propagate, handler |-> FALSE]

Installed == package.handler /\ ~package.propagate /\ saved = host

StageOf(t) ==
    /\ pc[t] \in {"save", "install", "silence", "remove", "relevel", "restore", "forget"}
          => Forwarding = {}
    /\ pc[t] \in {"save", "install", "silence", "push"} => Len(targets[t]) < MaxDepth
    /\ pc[t] = "save" => Bare /\ saved = NotSaved
    /\ pc[t] = "install" => Bare /\ saved = host
    /\ pc[t] = "silence" => package.handler /\ saved = host
    /\ pc[t] \in {"push", "remove"} => Installed
    /\ pc[t] = "apply" => Forwarding # {}
    /\ pc[t] = "pop" => targets[t] # <<>>
    /\ pc[t] = "relevel" => ~package.handler /\ saved = host
    /\ pc[t] = "restore" => ~package.handler /\ package.level = host.level /\ saved = host
    /\ pc[t] = "forget" => Bare

StageInv ==
    /\ lock = Nobody /\ Forwarding = {} => Bare /\ saved = NotSaved
    /\ Forwarding # {} => Installed
    /\ \A t \in Threads : StageOf(t)

Served ==
    \A t \in Forwarding : pc[t] # "apply" =>
        \A i \in 1..Len(targets[t]) : package.level \in 1..targets[t][i]

CountsOf(t) ==
    /\ pc[t] \in {"enabled", "handlers", "emit", "quiet"} =>
          record[t].own = 0 /\ record[t].root = 0
    /\ pc[t] = "propagate" => record[t].own \in 0..1 /\ record[t].root \in 0..1

Counts == \A t \in Threads : CountsOf(t)

(* The record of a thread that forwards, if it names the thread.           *)
RunRecord(t) ==
    Stack(t) # <<>> =>
        /\ pc[t] # "quiet"
        /\ pc[t] \in {"propagate", "done"} =>
              /\ record[t].own = Times(record[t].level >= Last(Stack(t)))
              /\ record[t].root = 0

Expected(t) == Times(host.propagate /\ record[t].level >= Effective(host.level))

(* Any other record, with no first and no last run beginning or ending     *)
(* meanwhile.                                                              *)
HostRecord(t) ==
    Stack(t) = <<>> /\ pc[t] \in Logging /\ record[t].calm =>
        /\ \A u \in Threads : pc[u] \notin Midway
        /\ pc[t] \in {"emit", "quiet"} => package.handler
        /\ pc[t] = "handlers" /\ ~package.handler => record[t].level >= Effective(host.level)
        /\ pc[t] = "propagate" =>
              /\ record[t].own = 0
              /\ package.handler => record[t].root = Expected(t)
              /\ ~package.handler => /\ record[t].root = 0
                                     /\ record[t].level >= Effective(host.level)
        /\ pc[t] = "done" /\ ~record[t].raised =>
              record[t].own = 0 /\ record[t].root = Expected(t)

RecordInv == \A t \in Threads : RunRecord(t) /\ HostRecord(t)

IInv == TypeOK /\ LockInv /\ StageInv /\ Served /\ Counts /\ RecordInv

-----------------------------------------------------------------------------
(* Stacks of targets.                                                      *)

LEMMA StackType ==
    ASSUME NEW s
    PROVE s \in BoundedSeq(Levels, MaxDepth) <=> s \in Seq(Levels) /\ Len(s) <= MaxDepth
  <1>1. MaxDepth \in Nat
    BY ForwardAssumption DEF ForwardAssumption
  <1>2. ASSUME s \in BoundedSeq(Levels, MaxDepth)
        PROVE s \in Seq(Levels) /\ Len(s) <= MaxDepth
    <2>1. PICK m \in 0..MaxDepth : s \in [1..m -> Levels]
      BY <1>2 DEF BoundedSeq, SeqOf
    <2> QED
      BY <1>1, <2>1
  <1>3. ASSUME s \in Seq(Levels), Len(s) <= MaxDepth
        PROVE s \in BoundedSeq(Levels, MaxDepth)
    <2>1. s \in [1..Len(s) -> Levels] /\ Len(s) \in 0..MaxDepth
      BY <1>1, <1>3
    <2> QED
      BY <2>1 DEF BoundedSeq, SeqOf
  <1> QED
    BY <1>2, <1>3

LEMMA Pushed ==
    ASSUME NEW s \in Seq(Levels), NEW l \in Levels
    PROVE /\ Append(s, l) \in Seq(Levels)
          /\ Len(Append(s, l)) = Len(s) + 1
          /\ Append(s, l) # <<>>
  BY AppendProperties

LEMMA Beginning ==
    ASSUME NEW s \in Seq(Levels), NEW n \in Nat, n <= Len(s)
    PROVE SubSeq(s, 1, n) \in Seq(Levels) /\ Len(SubSeq(s, 1, n)) = n
  OBVIOUS

LEMMA Popped ==
    ASSUME NEW s \in Seq(Levels), s # <<>>
    PROVE /\ Front(s) \in Seq(Levels)
          /\ Len(Front(s)) = Len(s) - 1
          /\ Front(s) = <<>> <=> Len(s) <= 1
  <1>1. Len(s) \in Nat \ {0}
    BY EmptySeq
  <1>2. Len(s) - 1 \in Nat /\ Len(s) - 1 <= Len(s)
    BY <1>1
  <1>3. Front(s) \in Seq(Levels) /\ Len(Front(s)) = Len(s) - 1
    BY <1>2, Beginning DEF Front
  <1>4. Len(Front(s)) = 0 <=> Front(s) = <<>>
    BY <1>3, EmptySeq
  <1> QED
    BY <1>1, <1>3, <1>4

LEMMA Innermost ==
    ASSUME NEW s \in Seq(Levels), s # <<>>
    PROVE Len(s) \in 1..Len(s) /\ Last(s) \in Levels /\ Last(s) = s[Len(s)]
  <1>1. Len(s) \in Nat \ {0}
    BY EmptySeq
  <1> QED
    BY <1>1, ElementOfSeq DEF Last

LEMMA StacksAre ==
    ASSUME TypeOK, NEW t \in Threads
    PROVE /\ targets[t] \in Seq(Levels) /\ Len(targets[t]) \in 0..MaxDepth
          /\ \A i \in 1..Len(targets[t]) : targets[t][i] \in Levels
          /\ targets[t] # <<>> => Len(targets[t]) >= 1
  <1>1. targets[t] \in Seq(Levels) /\ Len(targets[t]) <= MaxDepth
    BY StackType DEF TypeOK
  <1>2. Len(targets[t]) \in Nat /\ (targets[t] # <<>> => Len(targets[t]) \in Nat \ {0})
    BY <1>1, EmptySeq, LenProperties
  <1> QED
    BY <1>1, <1>2, ElementOfSeq, ForwardAssumption DEF ForwardAssumption

(* The level Apply sets lets through what any target wants.                *)
LEMMA LowestServes ==
    ASSUME TypeOK, Forwarding # {}
    PROVE /\ LowestLevel \in Levels
          /\ \A t \in Forwarding : \A i \in 1..Len(targets[t]) : LowestLevel <= targets[t][i]
  <1> DEFINE Wanted(l) ==
                \E t \in Forwarding, i \in 1..MaxDepth : i <= Len(targets[t]) /\ targets[t][i] = l
             Lower(l) == \A t \in Forwarding : \A i \in 1..Len(targets[t]) : l <= targets[t][i]
  <1>1. \A t \in Forwarding : /\ Len(targets[t]) \in 1..MaxDepth
                              /\ \A i \in 1..Len(targets[t]) : targets[t][i] \in Levels
    BY StacksAre, ForwardAssumption DEF Forwarding, ForwardAssumption
  <1>2. \A t \in Forwarding : \A i \in 1..Len(targets[t]) : Wanted(targets[t][i])
    BY <1>1, ForwardAssumption DEF ForwardAssumption
  <1>3. \E l \in Levels : Wanted(l)
    <2>1. PICK t \in Forwarding : TRUE
      OBVIOUS
    <2>2. 1 \in 1..Len(targets[t])
      BY <1>1, <2>1, ForwardAssumption DEF ForwardAssumption
    <2>3. targets[t][1] \in Levels /\ Wanted(targets[t][1])
      BY <1>1, <1>2, <2>1, <2>2
    <2> HIDE DEF Wanted
    <2> QED
      BY <2>3
  <1>4. \E l \in Levels : Wanted(l) /\ Lower(l)
    <2>1. \A l \in Levels : (\A m \in Levels : Wanted(m) => l <= m) => Lower(l)
      BY <1>1, <1>2
    <2> HIDE DEF Wanted, Lower
    <2>2. CASE Wanted(1)
      BY <2>1, <2>2 DEF Levels
    <2>3. CASE ~Wanted(1) /\ Wanted(2)
      <3>1. \A m \in Levels : Wanted(m) => 2 <= m
        BY <2>3 DEF Levels
      <3> QED
        BY <2>1, <2>3, <3>1 DEF Levels
    <2>4. CASE ~Wanted(1) /\ ~Wanted(2)
      <3>1. Wanted(3) /\ \A m \in Levels : Wanted(m) => 3 <= m
        BY <1>3, <2>4 DEF Levels
      <3> QED
        BY <2>1, <3>1 DEF Levels
    <2> QED
      BY <2>2, <2>3, <2>4
  <1>5. LowestLevel = CHOOSE l \in Levels : Wanted(l) /\ Lower(l)
    BY DEF LowestLevel
  <1> HIDE DEF Wanted
  <1> QED
    BY <1>4, <1>5

-----------------------------------------------------------------------------
(* Types.                                                                  *)

LEMMA FreshType ==
    ASSUME NEW level \in Levels, NEW named \in BOOLEAN, NEW calm \in BOOLEAN
    PROVE Fresh(level, named, calm) \in Record
  BY DEF Fresh, Record

LEMMA RecordTypes ==
    ASSUME record \in [Threads -> Record], NEW t \in Threads
    PROVE /\ [u \in Threads |-> [record[u] EXCEPT !.calm = FALSE]] \in [Threads -> Record]
          /\ \A r \in Record : [record EXCEPT ![t] = r] \in [Threads -> Record]
          /\ \A b \in BOOLEAN : [record EXCEPT ![t].raised = b] \in [Threads -> Record]
          /\ record[t].own \in 0..1 =>
                [record EXCEPT ![t].own = @ + 1] \in [Threads -> Record]
          /\ record[t].root \in 0..1 =>
                [record EXCEPT ![t].root = @ + 1] \in [Threads -> Record]
  <1>1. [u \in Threads |-> [record[u] EXCEPT !.calm = FALSE]] \in [Threads -> Record]
    BY DEF Record
  <1>2. \A r \in Record : [record EXCEPT ![t] = r] \in [Threads -> Record]
    OBVIOUS
  <1>3. \A b \in BOOLEAN : [record EXCEPT ![t].raised = b] \in [Threads -> Record]
    BY DEF Record
  <1>4. ASSUME record[t].own \in 0..1
        PROVE [record EXCEPT ![t].own = @ + 1] \in [Threads -> Record]
    BY <1>4 DEF Record
  <1>5. ASSUME record[t].root \in 0..1
        PROVE [record EXCEPT ![t].root = @ + 1] \in [Threads -> Record]
    BY <1>5 DEF Record
  <1> QED
    BY <1>1, <1>2, <1>3, <1>4, <1>5

(* Every step keeps the types: a counter is raised at most twice, at the   *)
(* dispatcher and on the way to the root.                                  *)
LEMMA TypesKept ==
    ASSUME TypeOK, Counts, StageInv, [Next]_vars
    PROVE TypeOK'
  <1> USE DEF Goto, Disturb, Steps, Changing
  <1>1. ASSUME NEW t \in Threads, NEW kind \in Kinds, Begin(t, kind) PROVE TypeOK'
    BY <1>1, ForwardAssumption DEF Begin, TypeOK, TargetLevel, Levels, ForwardAssumption
  <1>2. ASSUME NEW t \in Threads, Save(t) PROVE TypeOK'
    BY <1>2, RecordTypes DEF Save, TypeOK, Settings
  <1>3. ASSUME NEW t \in Threads, Install(t) PROVE TypeOK'
    BY <1>3, RecordTypes DEF Install, TypeOK
  <1>4. ASSUME NEW t \in Threads, Silence(t) PROVE TypeOK'
    BY <1>4, RecordTypes DEF Silence, TypeOK
  <1>5. ASSUME NEW t \in Threads, Push(t) PROVE TypeOK'
    <2>1. Append(targets[t], asked[t]) \in BoundedSeq(Levels, MaxDepth)
      <3>1. Len(targets[t]) < MaxDepth /\ asked[t] \in Levels
        BY <1>5 DEF Push, StageInv, StageOf, TypeOK
      <3>2. Len(targets[t]) \in Nat /\ MaxDepth \in Nat
        BY StacksAre, ForwardAssumption DEF ForwardAssumption
      <3> QED
        <4>1. /\ Append(targets[t], asked[t]) \in Seq(Levels)
              /\ Len(Append(targets[t], asked[t])) = Len(targets[t]) + 1
          BY <3>1, StacksAre, Pushed
        <4>2. Len(Append(targets[t], asked[t])) <= MaxDepth
          BY <3>1, <3>2, <4>1
        <4> QED
          BY <4>1, <4>2, StackType, Zenon
    <2> QED
      BY <1>5, <2>1 DEF Push, TypeOK
  <1>6. ASSUME NEW t \in Threads, Apply(t) PROVE TypeOK'
    BY <1>6, LowestServes DEF Apply, TypeOK, StageInv, StageOf, Levels
  <1>7. ASSUME NEW t \in Threads, End(t) PROVE TypeOK'
    BY <1>7 DEF End, TypeOK
  <1>8. ASSUME NEW t \in Threads, Pop(t) PROVE TypeOK'
    <2>1. Front(targets[t]) \in BoundedSeq(Levels, MaxDepth)
      <3>1. targets[t] # <<>>
        BY <1>8 DEF Pop, StageInv, StageOf
      <3>2. Len(targets[t]) \in 0..MaxDepth /\ MaxDepth \in Nat
        BY StacksAre, ForwardAssumption DEF ForwardAssumption
      <3> QED
        BY <3>1, <3>2, StacksAre, Popped, StackType
    <2> QED
      BY <1>8, <2>1 DEF Pop, TypeOK
  <1>9. ASSUME NEW t \in Threads, RemoveHandler(t) PROVE TypeOK'
    BY <1>9, RecordTypes DEF RemoveHandler, TypeOK
  <1>10. ASSUME NEW t \in Threads, RestoreLevel(t) PROVE TypeOK'
    BY <1>10, RecordTypes DEF RestoreLevel, TypeOK, StageInv, StageOf, Settings
  <1>11. ASSUME NEW t \in Threads, RestorePropagation(t) PROVE TypeOK'
    BY <1>11, RecordTypes DEF RestorePropagation, TypeOK, StageInv, StageOf, Settings
  <1>12. ASSUME NEW t \in Threads, Forget(t) PROVE TypeOK'
    BY <1>12, RecordTypes DEF Forget, TypeOK
  <1>13. ASSUME NEW t \in Threads, NEW level \in Levels, NEW named \in BOOLEAN,
                Log(t, level, named)
         PROVE TypeOK'
    <2> DEFINE calm == \A u \in Threads : pc[u] \notin Changing
    <2>1. calm \in BOOLEAN
      OBVIOUS
    <2> HIDE DEF calm
    <2>2. Fresh(level, named, calm) \in Record
      BY <2>1, FreshType
    <2>3. record' = [record EXCEPT ![t] = Fresh(level, named, calm)]
      BY <1>13 DEF Log, calm
    <2>4. record' \in [Threads -> Record]
      BY <2>2, <2>3, RecordTypes DEF TypeOK
    <2> QED
      BY <1>13, <2>4 DEF Log, TypeOK
  <1>14. ASSUME NEW t \in Threads, CheckLevel(t) PROVE TypeOK'
    <2>1. record' \in [Threads -> Record]
      <3>1. (Effective(package.level) > Effective(host.level)) \in BOOLEAN
        OBVIOUS
      <3> QED
        BY <1>14, <3>1, RecordTypes, Zenon DEF CheckLevel, TypeOK
    <2> QED
      BY <1>14, <2>1 DEF CheckLevel, TypeOK
  <1>15. ASSUME NEW t \in Threads, CallHandlers(t) PROVE TypeOK'
    BY <1>15 DEF CallHandlers, TypeOK
  <1>16. ASSUME NEW t \in Threads, Emit(t) PROVE TypeOK'
    <2>1. record[t].own \in 0..1
      BY <1>16 DEF Emit, Counts, CountsOf
    <2>2. record' \in {record, [record EXCEPT ![t].own = @ + 1]}
      BY <1>16 DEF Emit
    <2>3. record' \in [Threads -> Record]
      <3>1. record \in [Threads -> Record]
        BY DEF TypeOK
      <3>2. [record EXCEPT ![t].own = @ + 1] \in [Threads -> Record]
        BY <2>1, <3>1, RecordTypes
      <3> QED
        BY <2>2, <3>1, <3>2
    <2> QED
      BY <1>16, <2>3 DEF Emit, TypeOK
  <1>17. ASSUME NEW t \in Threads, EmitQuietly(t) \/ Propagate(t) PROVE TypeOK'
    <2>1. record[t].root \in 0..1
      BY <1>17 DEF EmitQuietly, Propagate, Counts, CountsOf
    <2>2. record' \in {record, [record EXCEPT ![t].root = @ + 1]}
      BY <1>17 DEF EmitQuietly, Propagate
    <2>3. record' \in [Threads -> Record]
      <3>1. record \in [Threads -> Record]
        BY DEF TypeOK
      <3>2. [record EXCEPT ![t].root = @ + 1] \in [Threads -> Record]
        BY <2>1, <3>1, RecordTypes
      <3> QED
        BY <2>2, <3>1, <3>2
    <2> QED
      BY <1>17, <2>3 DEF EmitQuietly, Propagate, TypeOK
  <1>18. ASSUME NEW t \in Threads, Logged(t) PROVE TypeOK'
    <2>1. NoRecord \in Record
      <3>1. 1 \in Levels /\ TRUE \in BOOLEAN
        BY DEF Levels
      <3> QED
        BY <3>1, FreshType DEF NoRecord
    <2> QED
      BY <1>18, <2>1, RecordTypes DEF Logged, TypeOK
  <1>19. CASE UNCHANGED vars
    BY <1>19 DEF vars, TypeOK
  <1> QED
    BY <1>1, <1>2, <1>3, <1>4, <1>5, <1>6, <1>7, <1>8, <1>9, <1>10, <1>11, <1>12, <1>13,
       <1>14, <1>15, <1>16, <1>17, <1>18, <1>19 DEF Next

-----------------------------------------------------------------------------
(* The logger.                                                             *)

(* Nobody enters between the statements of another: there is one lock.     *)
LEMMA LockKept ==
    ASSUME TypeOK, LockInv, [Next]_vars
    PROVE LockInv'
  <1> USE ForwardAssumption DEF Goto, LockInv, Critical, Changing, TypeOK, ForwardAssumption
  <1>1. ASSUME NEW t \in Threads, NEW kind \in Kinds, Begin(t, kind) PROVE LockInv'
    BY <1>1 DEF Begin
  <1>2. ASSUME NEW t \in Threads, Save(t) \/ Install(t) \/ Silence(t) \/ Push(t) PROVE LockInv'
    BY <1>2 DEF Save, Install, Silence, Push
  <1>3. ASSUME NEW t \in Threads, Apply(t) PROVE LockInv'
    BY <1>3 DEF Apply
  <1>4. ASSUME NEW t \in Threads, End(t) PROVE LockInv'
    BY <1>4 DEF End
  <1>5. ASSUME NEW t \in Threads, Pop(t) PROVE LockInv'
    BY <1>5 DEF Pop
  <1>6. ASSUME NEW t \in Threads, RemoveHandler(t) \/ RestoreLevel(t) \/ RestorePropagation(t)
        PROVE LockInv'
    BY <1>6 DEF RemoveHandler, RestoreLevel, RestorePropagation
  <1>7. ASSUME NEW t \in Threads, Forget(t) PROVE LockInv'
    BY <1>7 DEF Forget
  <1>8. ASSUME NEW t \in Threads, NEW level \in Levels, NEW named \in BOOLEAN,
               Log(t, level, named)
        PROVE LockInv'
    BY <1>8 DEF Log
  <1>9. ASSUME NEW t \in Threads, CheckLevel(t) \/ CallHandlers(t) PROVE LockInv'
    BY <1>9 DEF CheckLevel, CallHandlers
  <1>10. ASSUME NEW t \in Threads, Emit(t) \/ EmitQuietly(t) PROVE LockInv'
    BY <1>10 DEF Emit, EmitQuietly
  <1>11. ASSUME NEW t \in Threads, Propagate(t) \/ Logged(t) PROVE LockInv'
    BY <1>11 DEF Propagate, Logged
  <1>12. CASE UNCHANGED vars
    BY <1>12 DEF vars
  <1> HIDE DEF Goto, LockInv, Critical, Changing, TypeOK, ForwardAssumption
  <1> QED
    BY <1>1, <1>2, <1>3, <1>4, <1>5, <1>6, <1>7, <1>8, <1>9, <1>10, <1>11, <1>12 DEF Next

(* Who logs leaves the logger and the stacks alone, and takes no lock.     *)
LogStep(t) ==
    /\ pc[t] \notin Critical /\ pc' = [pc EXCEPT ![t] = pc'[t]]
    /\ pc'[t] \in Logging \cup {"idle"}
    /\ UNCHANGED <<host, package, saved, targets, lock, asked>>

LEMMA LoggingSteps ==
    ASSUME TypeOK, NEW t \in Threads,
           \/ \E level \in Levels, named \in BOOLEAN : Log(t, level, named)
           \/ CheckLevel(t) \/ CallHandlers(t) \/ Emit(t) \/ EmitQuietly(t)
           \/ Propagate(t) \/ Logged(t)
    PROVE LogStep(t)
  <1> USE DEF LogStep, Goto, Logging, Critical, Changing, TypeOK
  <1>1. CASE \E level \in Levels, named \in BOOLEAN : Log(t, level, named)
    BY <1>1 DEF Log
  <1>2. CASE CheckLevel(t) \/ CallHandlers(t)
    BY <1>2 DEF CheckLevel, CallHandlers
  <1>3. CASE Emit(t) \/ EmitQuietly(t)
    BY <1>3 DEF Emit, EmitQuietly
  <1>4. CASE Propagate(t) \/ Logged(t)
    BY <1>4 DEF Propagate, Logged
  <1> QED
    BY <1>1, <1>2, <1>3, <1>4

(* What one thread leaves for the others to find.                          *)
LEMMA StageOfOne ==
    ASSUME LockInv', NEW t \in Threads, lock' \in {t, Nobody}, StageOf(t)',
           lock' = Nobody /\ Forwarding' = {} => Bare' /\ saved' = NotSaved,
           Forwarding' # {} => Installed'
    PROVE StageInv'
  <1>1. ASSUME NEW u \in Threads, u # t PROVE StageOf(u)'
    <2>1. pc'[u] \notin Critical
      BY <1>1, ForwardAssumption DEF LockInv, ForwardAssumption
    <2> QED
      BY <2>1 DEF StageOf, Critical, Changing
  <1> QED
    BY <1>1 DEF StageInv

LEMMA StageOfHolder ==
    ASSUME LockInv', NEW t \in Threads, lock' = t, StageOf(t)', Forwarding' = {}
    PROVE StageInv'
  BY StageOfOne, ForwardAssumption DEF ForwardAssumption

LEMMA StageKept ==
    ASSUME TypeOK, LockInv, StageInv, LockInv', [Next]_vars
    PROVE StageInv'
  <1>1. ASSUME NEW t \in Threads, pc[t] \in Critical
        PROVE StageOf(t) /\ lock = t /\ t # Nobody
    BY <1>1, ForwardAssumption DEF StageInv, LockInv, ForwardAssumption
  <1>2. (UNCHANGED targets) => Forwarding' = Forwarding
    BY DEF Forwarding
  <1> USE DEF Goto
  <1>3. ASSUME NEW t \in Threads, NEW kind \in Kinds, Begin(t, kind) PROVE StageInv'
    <2>1. /\ lock = Nobody /\ lock' = t /\ Len(targets[t]) < MaxDepth
          /\ UNCHANGED <<host, package, saved, targets>>
          /\ pc'[t] = IF saved = NotSaved THEN "save" ELSE "push"
      BY <1>3 DEF Begin, TypeOK
    <2>2. host # NotSaved
      BY DEF TypeOK, Settings, NotSaved
    <2>3. StageOf(t)'
      BY <1>2, <2>1, <2>2 DEF StageInv, StageOf, Bare, Installed
    <2>4. lock' # Nobody /\ (Forwarding' # {} => Installed')
      BY <1>2, <2>1, ForwardAssumption DEF StageInv, Installed, ForwardAssumption
    <2> QED
      BY <2>1, <2>3, <2>4, StageOfOne
  <1>4. ASSUME NEW t \in Threads, Save(t) PROVE StageInv'
    <2>1. /\ pc'[t] = "install" /\ UNCHANGED <<host, package, targets, lock>>
          /\ Forwarding = {} /\ Bare /\ lock = t /\ Len(targets[t]) < MaxDepth
      BY <1>1, <1>4 DEF Save, TypeOK, StageOf, Critical, Changing
    <2>2. saved' = host
      BY <1>4, <2>1 DEF Save, Bare, TypeOK, Settings
    <2>3. StageOf(t)' /\ Forwarding' = {} /\ lock' = t
      BY <1>2, <2>1, <2>2 DEF StageOf, Bare
    <2> QED
      BY <2>3, StageOfHolder
  <1>5. ASSUME NEW t \in Threads, Install(t) PROVE StageInv'
    <2>1. /\ pc'[t] = "silence" /\ UNCHANGED <<host, saved, targets, lock>>
          /\ package' = [package EXCEPT !.handler = TRUE]
          /\ Forwarding = {} /\ saved = host /\ lock = t /\ Len(targets[t]) < MaxDepth
      BY <1>1, <1>5 DEF Install, TypeOK, StageOf, Critical, Changing
    <2>2. package'.handler
      BY <2>1 DEF TypeOK
    <2>3. StageOf(t)' /\ Forwarding' = {} /\ lock' = t
      BY <1>2, <2>1, <2>2 DEF StageOf
    <2> QED
      BY <2>3, StageOfHolder
  <1>6. ASSUME NEW t \in Threads, Silence(t) PROVE StageInv'
    <2>1. /\ pc'[t] = "push" /\ UNCHANGED <<host, saved, targets, lock>>
          /\ package' = [package EXCEPT !.propagate = FALSE]
          /\ Forwarding = {} /\ saved = host /\ package.handler /\ lock = t
          /\ Len(targets[t]) < MaxDepth
      BY <1>1, <1>6 DEF Silence, TypeOK, StageOf, Critical, Changing
    <2>2. package'.handler /\ ~package'.propagate
      BY <2>1 DEF TypeOK
    <2>3. StageOf(t)' /\ Forwarding' = {} /\ lock' = t
      BY <1>2, <2>1, <2>2 DEF StageOf, Installed
    <2> QED
      BY <2>3, StageOfHolder
  <1>7. ASSUME NEW t \in Threads, Push(t) PROVE StageInv'
    <2>1. /\ pc'[t] = "apply" /\ UNCHANGED <<host, package, saved, lock>>
          /\ targets' = [targets EXCEPT ![t] = Append(targets[t], asked[t])]
          /\ Installed /\ lock = t
      BY <1>1, <1>7 DEF Push, TypeOK, StageOf, Critical, Changing
    <2>2. Append(targets[t], asked[t]) # <<>>
      BY StacksAre, Pushed DEF TypeOK
    <2>3. t \in Forwarding'
      BY <2>1, <2>2 DEF Forwarding, TypeOK
    <2> QED
      BY <1>1, <2>1, <2>3, StageOfOne DEF StageOf, Installed, Critical, Changing
  <1>8. ASSUME NEW t \in Threads, Apply(t) PROVE StageInv'
    <2>1. /\ pc'[t] = "idle" /\ lock' = Nobody /\ UNCHANGED <<host, saved, targets>>
          /\ package' = [package EXCEPT !.level = LowestLevel]
          /\ Forwarding # {}
      BY <1>1, <1>8 DEF Apply, TypeOK, StageOf, Critical, Changing
    <2>2. Installed'
      BY <2>1 DEF Installed, StageInv, TypeOK
    <2> QED
      BY <1>2, <2>1, <2>2, StageOfOne DEF StageOf
  <1>9. ASSUME NEW t \in Threads, End(t) PROVE StageInv'
    <2>1. /\ pc'[t] = "pop" /\ lock' = t /\ UNCHANGED <<host, package, saved, targets>>
          /\ t \in Forwarding /\ targets[t] # <<>>
      BY <1>9 DEF End, TypeOK, Forwarding
    <2> QED
      BY <1>2, <2>1, StageOfOne, ForwardAssumption
         DEF StageInv, StageOf, Installed, ForwardAssumption
  <1>10. ASSUME NEW t \in Threads, Pop(t) PROVE StageInv'
    <2>1. /\ UNCHANGED <<host, package, saved, lock>> /\ lock = t /\ t # Nobody
          /\ targets' = [targets EXCEPT ![t] = Front(targets[t])]
          /\ pc'[t] = IF OthersForward(t) THEN "apply" ELSE "remove"
          /\ targets[t] # <<>>
      BY <1>1, <1>10 DEF Pop, TypeOK, StageOf, Critical, Changing
    <2>2. Front(targets[t]) = <<>> <=> Len(targets[t]) <= 1
      BY <2>1, StacksAre, Popped
    <2>3. \A u \in Threads : targets'[u] # <<>> <=>
             IF u = t THEN Len(targets[t]) > 1 ELSE targets[u] # <<>>
      BY <2>1, <2>2, StacksAre DEF TypeOK
    <2>4. OthersForward(t) <=> Forwarding' # {}
      BY <2>3 DEF OthersForward, Forwarding
    <2>5. Installed'
      BY <2>1 DEF StageInv, Installed, Forwarding
    <2> QED
      BY <2>1, <2>4, <2>5, StageOfOne DEF StageOf
  <1>11. ASSUME NEW t \in Threads, RemoveHandler(t) PROVE StageInv'
    <2>1. /\ pc'[t] = "relevel" /\ UNCHANGED <<host, saved, targets, lock>>
          /\ package' = [package EXCEPT !.handler = FALSE]
          /\ Forwarding = {} /\ saved = host /\ lock = t
      BY <1>1, <1>11 DEF RemoveHandler, TypeOK, StageOf, Installed, Critical, Changing
    <2>2. ~package'.handler
      BY <2>1 DEF TypeOK
    <2>3. StageOf(t)' /\ Forwarding' = {} /\ lock' = t
      BY <1>2, <2>1, <2>2 DEF StageOf
    <2> QED
      BY <2>3, StageOfHolder
  <1>12. ASSUME NEW t \in Threads, RestoreLevel(t) PROVE StageInv'
    <2>1. /\ pc'[t] = "restore" /\ UNCHANGED <<host, saved, targets, lock>>
          /\ package' = [package EXCEPT !.level = saved.level]
          /\ Forwarding = {} /\ saved = host /\ ~package.handler /\ lock = t
      BY <1>1, <1>12 DEF RestoreLevel, TypeOK, StageOf, Critical, Changing
    <2>2. ~package'.handler /\ package'.level = host'.level
      BY <2>1 DEF TypeOK
    <2>3. StageOf(t)' /\ Forwarding' = {} /\ lock' = t
      BY <1>2, <2>1, <2>2 DEF StageOf
    <2> QED
      BY <2>3, StageOfHolder
  <1>13. ASSUME NEW t \in Threads, RestorePropagation(t) PROVE StageInv'
    <2>1. /\ pc'[t] = "forget" /\ UNCHANGED <<host, saved, targets, lock>>
          /\ package' = [package EXCEPT !.propagate = saved.propagate]
          /\ Forwarding = {} /\ saved = host /\ lock = t
          /\ ~package.handler /\ package.level = host.level
      BY <1>1, <1>13 DEF RestorePropagation, TypeOK, StageOf, Critical, Changing
    <2>2. Bare'
      BY <2>1 DEF Bare, TypeOK
    <2>3. StageOf(t)' /\ Forwarding' = {} /\ lock' = t
      BY <1>2, <2>1, <2>2 DEF StageOf
    <2> QED
      BY <2>3, StageOfHolder
  <1>14. ASSUME NEW t \in Threads, Forget(t) PROVE StageInv'
    <2>1. /\ pc'[t] = "idle" /\ lock' = Nobody /\ UNCHANGED <<host, package, targets>>
          /\ saved' = NotSaved /\ Forwarding = {} /\ Bare
      BY <1>1, <1>14 DEF Forget, TypeOK, StageOf, Critical, Changing
    <2> QED
      BY <1>2, <2>1, StageOfOne DEF StageOf, Bare
  <1>15. ASSUME NEW t \in Threads, LogStep(t) PROVE StageInv'
    <2>1. \A u \in Threads : pc'[u] \in Critical => pc'[u] = pc[u]
      BY <1>15 DEF LogStep, Logging, Critical, Changing, TypeOK
    <2>2. ASSUME NEW u \in Threads PROVE StageOf(u)'
      BY <1>2, <1>15, <2>1 DEF StageInv, StageOf, LogStep, Bare, Installed, Critical, Changing
    <2> QED
      BY <1>2, <1>15, <2>2 DEF StageInv, LogStep, Bare, Installed
  <1>16. CASE UNCHANGED vars
    BY <1>16 DEF vars, StageInv, StageOf, Forwarding, Bare, Installed
  <1> QED
    BY <1>3, <1>4, <1>5, <1>6, <1>7, <1>8, <1>9, <1>10, <1>11, <1>12, <1>13, <1>14,
       <1>15, <1>16, LoggingSteps DEF Next

(* A target that has just been pushed is served by the time its thread     *)
(* goes on; the others never stop being served.                            *)
LEMMA ServedKept ==
    ASSUME TypeOK, LockInv, StageInv, Served, StageInv', [Next]_vars
    PROVE Served'
  <1>1. ASSUME NEW t \in Threads, pc[t] # "apply",
               pc' = [pc EXCEPT ![t] = pc'[t]], UNCHANGED targets,
               package'.level = package.level
        PROVE Served'
    BY <1>1 DEF Served, Forwarding, TypeOK
  <1>2. ASSUME Forwarding' = {} PROVE Served'
    BY <1>2 DEF Served
  <1>3. (UNCHANGED targets) => Forwarding' = Forwarding
    BY DEF Forwarding
  <1> USE DEF Goto
  <1>4. ASSUME NEW t \in Threads, NEW kind \in Kinds, Begin(t, kind) PROVE Served'
    BY <1>1, <1>4 DEF Begin, TypeOK
  <1>5. ASSUME NEW t \in Threads, Save(t) PROVE Served'
    BY <1>1, <1>5 DEF Save, TypeOK
  <1>6. ASSUME NEW t \in Threads, Install(t) PROVE Served'
    BY <1>1, <1>6 DEF Install, TypeOK
  <1>7. ASSUME NEW t \in Threads, Silence(t) PROVE Served'
    BY <1>1, <1>7 DEF Silence, TypeOK
  <1>8. ASSUME NEW t \in Threads, Push(t) PROVE Served'
    BY <1>8 DEF Push, Served, Forwarding, TypeOK
  <1>9. ASSUME NEW t \in Threads, Apply(t) PROVE Served'
    <2>1. Forwarding # {} /\ Forwarding' = Forwarding /\ package'.level = LowestLevel
      BY <1>3, <1>9 DEF Apply, StageInv, StageOf, TypeOK
    <2>2. \A u \in Forwarding : \A i \in 1..Len(targets[u]) : LowestLevel \in 1..targets[u][i]
      <3>1. \A u \in Forwarding : \A i \in 1..Len(targets[u]) : targets[u][i] \in Levels
        BY StacksAre DEF Forwarding
      <3> QED
        BY <2>1, <3>1, LowestServes DEF Levels
    <2> QED
      BY <1>9, <2>1, <2>2 DEF Apply, Served
  <1>10. ASSUME NEW t \in Threads, End(t) PROVE Served'
    BY <1>1, <1>10 DEF End, TypeOK
  <1>11. ASSUME NEW t \in Threads, Pop(t) PROVE Served'
    <2>1. CASE pc'[t] = "remove"
      BY <1>2, <2>1 DEF StageInv, StageOf
    <2>2. CASE pc'[t] = "apply"
      BY <1>11, <2>2 DEF Pop, Served, Forwarding, TypeOK
    <2> QED
      BY <1>11, <2>1, <2>2 DEF Pop, TypeOK
  <1>12. ASSUME NEW t \in Threads,
                \/ RemoveHandler(t) \/ RestoreLevel(t) \/ RestorePropagation(t) \/ Forget(t)
         PROVE Served'
    <2>1. Forwarding = {} /\ UNCHANGED targets
      BY <1>12 DEF RemoveHandler, RestoreLevel, RestorePropagation, Forget, StageInv, StageOf
    <2> QED
      BY <1>2, <1>3, <2>1
  <1>13. ASSUME NEW t \in Threads, LogStep(t) PROVE Served'
    BY <1>1, <1>13 DEF LogStep, Logging, Critical
  <1>14. CASE UNCHANGED vars
    BY <1>14 DEF vars, Served, Forwarding
  <1> QED
    BY <1>4, <1>5, <1>6, <1>7, <1>8, <1>9, <1>10, <1>11, <1>12, <1>13, <1>14, LoggingSteps
       DEF Next

-----------------------------------------------------------------------------
(* What has been logged.                                                   *)

(* Between the first and the last run the logger is the host's, or fully   *)
(* taken over.                                                             *)
LEMMA OneOrTheOther ==
    ASSUME TypeOK, LockInv, StageInv, \A u \in Threads : pc[u] \notin Midway
    PROVE (package.handler => Installed) /\ (~package.handler => Bare)
  <1>1. CASE lock = Nobody
    BY <1>1 DEF StageInv, Bare, Installed
  <1>2. ASSUME NEW t \in Threads, lock = t
        PROVE (package.handler => Installed) /\ (~package.handler => Bare)
    <2>1. pc[t] \in {"save", "push", "apply", "pop", "remove"}
      BY <1>2 DEF LockInv, Critical, Changing, Midway
    <2>2. StageOf(t) /\ (pc[t] = "pop" => t \in Forwarding)
      BY DEF StageInv, StageOf, Forwarding
    <2> QED
      BY <2>1, <2>2 DEF StageInv, StageOf, Bare, Installed
  <1> QED
    BY <1>1, <1>2 DEF TypeOK

(* The targets a record has are its thread's, or none.                     *)
LEMMA StackIs ==
    ASSUME NEW t
    PROVE /\ Stack(t) # <<>> => Stack(t) = targets[t] /\ targets[t] # <<>>
          /\ targets'[t] = targets[t] /\ record'[t].named = record[t].named
               => Stack(t)' = Stack(t)
  BY DEF Stack

(* A step that changes nothing a record depends on.                        *)
Unseen(t) ==
    /\ pc' = [pc EXCEPT ![t] = pc'[t]] /\ pc'[t] \notin Midway \cup Logging
    /\ \A u \in Threads : u # t => targets'[u] = targets[u]
    /\ package'.handler = package.handler
    /\ UNCHANGED <<host, record>>

(* A step after which no record is calm any more.                          *)
Seen(t) ==
    /\ pc' = [pc EXCEPT ![t] = pc'[t]] /\ pc'[t] \notin Logging
    /\ UNCHANGED <<host, targets>>
    /\ Disturb

LEMMA ChangingSteps ==
    ASSUME TypeOK, NEW t \in Threads
    PROVE /\ \A kind \in Kinds : Begin(t, kind) => Unseen(t)
          /\ Push(t) \/ Apply(t) \/ End(t) \/ Pop(t) => Unseen(t)
          /\ Save(t) \/ Install(t) \/ Silence(t) => Seen(t)
          /\ RemoveHandler(t) \/ RestoreLevel(t) \/ RestorePropagation(t) \/ Forget(t) => Seen(t)
  <1> USE DEF TypeOK, Goto, Midway, Logging
  <1>1. \A kind \in Kinds : Begin(t, kind) => Unseen(t)
    BY DEF Begin, Unseen
  <1>2. Push(t) => Unseen(t)
    BY DEF Push, Unseen
  <1>3. Apply(t) => Unseen(t)
    BY DEF Apply, Unseen
  <1>4. End(t) => Unseen(t)
    BY DEF End, Unseen
  <1>5. Pop(t) => Unseen(t)
    BY DEF Pop, Unseen
  <1>6. Save(t) \/ Install(t) \/ Silence(t) => Seen(t)
    BY DEF Save, Install, Silence, Seen
  <1>7. RemoveHandler(t) \/ RestoreLevel(t) \/ RestorePropagation(t) \/ Forget(t) => Seen(t)
    BY DEF RemoveHandler, RestoreLevel, RestorePropagation, Forget, Seen
  <1> QED
    BY <1>1, <1>2, <1>3, <1>4, <1>5, <1>6, <1>7

LEMMA UnseenKeeps ==
    ASSUME TypeOK, Counts, RecordInv, NEW t \in Threads, Unseen(t)
    PROVE Counts' /\ RecordInv'
  <1>1. ASSUME NEW u \in Threads, u # t
        PROVE pc'[u] = pc[u] /\ targets'[u] = targets[u] /\ record'[u] = record[u]
    BY <1>1 DEF Unseen, TypeOK
  <1>2. pc'[t] \notin Midway \cup Logging /\ \A u \in Threads : u # t => pc'[u] = pc[u]
    BY <1>1 DEF Unseen
  <1>3. ASSUME NEW u \in Threads PROVE CountsOf(u)'
    BY <1>1, <1>2 DEF Counts, CountsOf, Logging
  <1>4. ASSUME NEW u \in Threads PROVE RunRecord(u)'
    BY <1>1, <1>2, StackIs DEF RecordInv, RunRecord, Logging, Times
  <1>5. ASSUME NEW u \in Threads PROVE HostRecord(u)'
    <2>1. CASE u = t
      BY <1>2, <2>1 DEF HostRecord
    <2>2. CASE u # t
      BY <1>1, <1>2, <2>2, StackIs DEF RecordInv, HostRecord, Unseen, Expected
    <2> QED
      BY <2>1, <2>2
  <1> QED
    BY <1>3, <1>4, <1>5 DEF Counts, RecordInv

LEMMA SeenKeeps ==
    ASSUME TypeOK, Counts, RecordInv, NEW t \in Threads, Seen(t)
    PROVE Counts' /\ RecordInv'
  <1>1. ASSUME NEW u \in Threads, u # t PROVE pc'[u] = pc[u]
    BY <1>1 DEF Seen, TypeOK
  <1>2. ASSUME NEW u \in Threads
        PROVE /\ targets'[u] = targets[u]
              /\ record'[u].own = record[u].own /\ record'[u].root = record[u].root
              /\ record'[u].level = record[u].level /\ ~record'[u].calm
              /\ record'[u].named = record[u].named
    BY DEF Seen, Disturb, TypeOK, Record
  <1>3. pc'[t] \notin Logging
    BY DEF Seen
  <1>4. ASSUME NEW u \in Threads PROVE CountsOf(u)'
    BY <1>1, <1>2, <1>3 DEF Counts, CountsOf, Logging
  <1>5. ASSUME NEW u \in Threads PROVE RunRecord(u)'
    BY <1>1, <1>2, <1>3, StackIs DEF RecordInv, RunRecord, Logging, Times
  <1>6. ASSUME NEW u \in Threads PROVE HostRecord(u)'
    BY <1>2 DEF HostRecord
  <1> QED
    BY <1>4, <1>5, <1>6 DEF Counts, RecordInv

(* A step of logging keeps what is known of its own record, and leaves the *)
(* others alone.                                                           *)
LEMMA OwnRecordOnly ==
    ASSUME TypeOK, Counts, RecordInv, NEW t \in Threads, LogStep(t),
           \A u \in Threads : u # t => record'[u] = record[u],
           CountsOf(t)', RunRecord(t)', HostRecord(t)'
    PROVE Counts' /\ RecordInv'
  <1>1. ASSUME NEW u \in Threads, u # t
        PROVE pc'[u] = pc[u] /\ targets'[u] = targets[u] /\ record'[u] = record[u]
    BY <1>1 DEF LogStep, TypeOK
  <1>2. pc'[t] \notin Midway
    BY DEF LogStep, Midway, Logging
  <1>3. ASSUME NEW u \in Threads, u # t PROVE CountsOf(u)'
    BY <1>1, <1>3 DEF Counts, CountsOf
  <1>4. ASSUME NEW u \in Threads, u # t PROVE RunRecord(u)'
    BY <1>1, <1>4, StackIs DEF RecordInv, RunRecord, Times
  <1>5. ASSUME NEW u \in Threads, u # t PROVE HostRecord(u)'
    <2>1. \A v \in Threads : pc[v] \notin Midway => pc'[v] \notin Midway
      BY <1>1, <1>2
    <2>2. package' = package /\ host' = host
      BY DEF LogStep
    <2> QED
      BY <1>1, <1>5, <2>1, <2>2, StackIs DEF RecordInv, HostRecord, Expected
  <1> QED
    BY <1>3, <1>4, <1>5 DEF Counts, RecordInv

LEMMA LogKeeps ==
    ASSUME TypeOK, Counts, RecordInv, NEW t \in Threads,
           NEW level \in Levels, NEW named \in BOOLEAN, Log(t, level, named)
    PROVE Counts' /\ RecordInv'
  <1>1. LogStep(t)
    BY LoggingSteps
  <1>2. /\ pc' = [pc EXCEPT ![t] = "enabled"] /\ pc'[t] = "enabled"
        /\ record'[t] = Fresh(level, named, \A u \in Threads : pc[u] \notin Changing)
        /\ \A u \in Threads : u # t => record'[u] = record[u]
    BY DEF Log, Goto, TypeOK
  <1>3. /\ record'[t].own = 0 /\ record'[t].root = 0
        /\ record'[t].calm = \A u \in Threads : pc[u] \notin Changing
    BY <1>2 DEF Fresh
  <1>4. CountsOf(t)' /\ RunRecord(t)'
    BY <1>2, <1>3 DEF CountsOf, RunRecord
  <1>5. HostRecord(t)'
    <2>1. record'[t].calm => \A u \in Threads : pc'[u] \notin Midway
      BY <1>2, <1>3 DEF Midway, Changing, TypeOK
    <2> QED
      BY <1>2, <2>1 DEF HostRecord
  <1> QED
    BY <1>1, <1>2, <1>4, <1>5, OwnRecordOnly

LEMMA CheckKeeps ==
    ASSUME IInv, NEW t \in Threads, CheckLevel(t)
    PROVE Counts' /\ RecordInv'
  <1> USE DEF IInv
  <1>1. LogStep(t)
    BY LoggingSteps
  <1> DEFINE raised == Effective(package.level) > Effective(host.level)
  <1>2. /\ pc[t] = "enabled"
        /\ pc' = [pc EXCEPT ![t] = pc'[t]]
        /\ pc'[t] = IF record[t].level >= Effective(package.level) THEN "handlers" ELSE "done"
        /\ UNCHANGED <<host, package, targets>>
        /\ \A u \in Threads : u # t => record'[u] = record[u]
    BY DEF CheckLevel, Goto, TypeOK
  <1>3. /\ record'[t].own = record[t].own /\ record'[t].root = record[t].root
        /\ record'[t].level = record[t].level /\ record'[t].calm = record[t].calm
        /\ record'[t].raised = raised /\ Stack(t)' = Stack(t)
    <2>1. record'[t].named = record[t].named
      BY DEF CheckLevel, TypeOK, Record
    <2> QED
      BY <1>2, <2>1, StackIs DEF CheckLevel, TypeOK, Record
  <1>4. record[t].own = 0 /\ record[t].root = 0 /\ record[t].level \in Levels
    BY <1>2 DEF Counts, CountsOf, TypeOK, Record
  <1>5. CountsOf(t)'
    BY <1>2, <1>3, <1>4 DEF CountsOf
  <1>6. Effective(package.level) \in Levels /\ Effective(host.level) \in Levels
    BY DEF Effective, TypeOK, Settings, Levels, RootLevel
  <1>7. RunRecord(t)'
    <2>1. ASSUME Stack(t) # <<>>, pc'[t] = "done" PROVE ~(record[t].level >= Last(Stack(t)))
      <3>1. Last(Stack(t)) \in Levels /\ package.level \in 1..Last(Stack(t))
        BY <1>2, <2>1, StackIs, StacksAre, Innermost DEF Served, Forwarding
      <3>2. record[t].level < package.level
        BY <1>2, <1>4, <2>1, <3>1 DEF Effective, Levels, RootLevel
      <3> QED
        BY <1>4, <3>1, <3>2 DEF Levels
    <2> QED
      BY <1>2, <1>3, <1>4, <2>1 DEF RunRecord, Times
  <1>8. HostRecord(t)'
    <2>1. ASSUME Stack(t) = <<>>, record[t].calm
          PROVE \A u \in Threads : pc[u] \notin Midway /\ pc'[u] \notin Midway
      BY <1>2, <2>1 DEF RecordInv, HostRecord, Logging, Midway, TypeOK
    <2>2. ASSUME Stack(t) = <<>>, record[t].calm, pc'[t] = "handlers", ~package.handler
          PROVE record[t].level >= Effective(host.level)
      BY <1>2, <2>1, <2>2, OneOrTheOther DEF Bare
    <2>3. ASSUME pc'[t] = "done", ~raised PROVE Expected(t)' = 0
      BY <1>2, <1>3, <1>4, <1>6, <2>3 DEF Expected, Times, Levels, Effective
    <2> HIDE DEF raised
    <2> QED
      BY <1>2, <1>3, <1>4, <2>1, <2>2, <2>3 DEF HostRecord
  <1> QED
    BY <1>1, <1>2, <1>5, <1>7, <1>8, OwnRecordOnly

LEMMA CallKeeps ==
    ASSUME IInv, NEW t \in Threads, CallHandlers(t)
    PROVE Counts' /\ RecordInv'
  <1> USE DEF IInv
  <1>1. LogStep(t)
    BY LoggingSteps
  <1>2. /\ pc[t] = "handlers" /\ pc' = [pc EXCEPT ![t] = pc'[t]]
        /\ pc'[t] = IF package.handler THEN "emit" ELSE "propagate"
        /\ UNCHANGED <<host, package, targets, record>> /\ Stack(t)' = Stack(t)
    BY StackIs DEF CallHandlers, Goto, TypeOK
  <1>3. record[t].own = 0 /\ record[t].root = 0
    BY <1>2 DEF Counts, CountsOf
  <1>4. CountsOf(t)'
    BY <1>2, <1>3 DEF CountsOf
  <1>5. RunRecord(t)'
    BY <1>2, StackIs DEF RunRecord, StageInv, Installed, Forwarding
  <1>6. HostRecord(t)'
    <2>1. ASSUME Stack(t) = <<>>, record[t].calm
          PROVE /\ \A u \in Threads : pc'[u] \notin Midway
                /\ ~package.handler => record[t].level >= Effective(host.level)
      BY <1>2, <2>1 DEF RecordInv, HostRecord, Logging, Midway, TypeOK
    <2> QED
      BY <1>2, <1>3, <2>1 DEF HostRecord
  <1> QED
    BY <1>1, <1>2, <1>4, <1>5, <1>6, OwnRecordOnly

LEMMA EmitKeeps ==
    ASSUME IInv, NEW t \in Threads, Emit(t)
    PROVE Counts' /\ RecordInv'
  <1> USE DEF IInv
  <1>1. LogStep(t)
    BY LoggingSteps
  <1>2. /\ pc[t] = "emit" /\ pc' = [pc EXCEPT ![t] = pc'[t]]
        /\ pc'[t] = IF Stack(t) = <<>> THEN "quiet" ELSE "propagate"
        /\ UNCHANGED <<host, package, targets>>
        /\ \A u \in Threads : u # t => record'[u] = record[u]
    BY DEF Emit, Goto, TypeOK
  <1>3. record[t].own = 0 /\ record[t].root = 0
    BY <1>2 DEF Counts, CountsOf
  <1>4. /\ record'[t].root = 0 /\ record'[t].level = record[t].level
        /\ record'[t].calm = record[t].calm /\ record'[t].named = record[t].named
        /\ Stack(t) = <<>> => record'[t].own = 0
        /\ Stack(t) # <<>> => record'[t].own = Times(~(record[t].level < Last(Stack(t))))
    BY <1>3 DEF Emit, TypeOK, Record, Times
  <1>5. Stack(t)' = Stack(t)
    BY <1>2, <1>4, StackIs
  <1>6. Stack(t) # <<>> =>
           (~(record[t].level < Last(Stack(t))) <=> record[t].level >= Last(Stack(t)))
    <2>1. record[t].level \in Levels
      BY DEF TypeOK, Record
    <2>2. Stack(t) # <<>> => Last(Stack(t)) \in Levels
      BY StackIs, StacksAre, Innermost
    <2> QED
      BY <2>1, <2>2 DEF Levels
  <1>7. CountsOf(t)'
    BY <1>2, <1>4 DEF CountsOf, Times
  <1>8. RunRecord(t)'
    BY <1>2, <1>4, <1>5, <1>6 DEF RunRecord, Times
  <1>9. HostRecord(t)'
    <2>1. ASSUME Stack(t) = <<>>, record[t].calm
          PROVE (\A u \in Threads : pc'[u] \notin Midway) /\ package.handler
      BY <1>2, <2>1 DEF RecordInv, HostRecord, Logging, Midway, TypeOK
    <2> QED
      BY <1>2, <1>4, <1>5, <2>1 DEF HostRecord
  <1> QED
    BY <1>1, <1>2, <1>7, <1>8, <1>9, OwnRecordOnly

LEMMA EmitQuietlyKeeps ==
    ASSUME IInv, NEW t \in Threads, EmitQuietly(t)
    PROVE Counts' /\ RecordInv'
  <1> USE DEF IInv
  <1>1. LogStep(t)
    BY LoggingSteps
  <1>2. /\ pc[t] = "quiet" /\ pc' = [pc EXCEPT ![t] = "propagate"] /\ pc'[t] = "propagate"
        /\ UNCHANGED <<host, package, targets>>
        /\ \A u \in Threads : u # t => record'[u] = record[u]
    BY DEF EmitQuietly, Goto, TypeOK
  <1>3. record[t].own = 0 /\ record[t].root = 0 /\ Stack(t) = <<>>
    BY <1>2 DEF Counts, CountsOf, RecordInv, RunRecord
  <1>4. /\ record'[t].own = 0 /\ record'[t].level = record[t].level
        /\ record'[t].calm = record[t].calm
        /\ record'[t].root = Times(PassesAsBefore(record[t].level))
        /\ record'[t].named = record[t].named
    BY <1>3 DEF EmitQuietly, TypeOK, Record, Times
  <1>5. Stack(t)' = <<>>
    BY <1>2, <1>3, <1>4, StackIs
  <1>6. CountsOf(t)'
    BY <1>2, <1>4 DEF CountsOf, Times
  <1>7. RunRecord(t)'
    BY <1>5 DEF RunRecord
  <1>8. HostRecord(t)'
    <2>1. ASSUME record[t].calm
          PROVE /\ \A u \in Threads : pc[u] \notin Midway /\ pc'[u] \notin Midway
                /\ package.handler
      BY <1>2, <1>3, <2>1 DEF RecordInv, HostRecord, Logging, Midway, TypeOK
    <2>2. ASSUME record[t].calm PROVE record'[t].root = Expected(t)'
      <3>1. saved = host /\ saved # NotSaved
        BY <2>1, <2>2, OneOrTheOther DEF Installed, TypeOK, Settings, NotSaved
      <3>2. PassesAsBefore(record[t].level) <=>
               host.propagate /\ record[t].level >= Effective(host.level)
        BY <3>1 DEF PassesAsBefore
      <3> QED
        BY <1>2, <1>4, <3>2 DEF Expected, Times
    <2> QED
      BY <1>2, <1>4, <2>1, <2>2 DEF HostRecord
  <1> QED
    BY <1>1, <1>2, <1>6, <1>7, <1>8, OwnRecordOnly

LEMMA PropagateKeeps ==
    ASSUME IInv, NEW t \in Threads, Propagate(t)
    PROVE Counts' /\ RecordInv'
  <1> USE DEF IInv
  <1>1. LogStep(t)
    BY LoggingSteps
  <1>2. /\ pc[t] = "propagate" /\ pc' = [pc EXCEPT ![t] = "done"] /\ pc'[t] = "done"
        /\ UNCHANGED <<host, package, targets>>
        /\ \A u \in Threads : u # t => record'[u] = record[u]
    BY DEF Propagate, Goto, TypeOK
  <1>3. /\ record'[t].own = record[t].own /\ record'[t].level = record[t].level
        /\ record'[t].calm = record[t].calm /\ record'[t].raised = record[t].raised
        /\ record'[t].named = record[t].named
        /\ package.propagate => record'[t].root = record[t].root + 1
        /\ ~package.propagate => record'[t].root = record[t].root
    BY DEF Propagate, TypeOK, Record
  <1>4. Stack(t)' = Stack(t)
    BY <1>2, <1>3, StackIs
  <1>5. CountsOf(t)'
    BY <1>2 DEF CountsOf
  <1>6. RunRecord(t)'
    <2>1. Stack(t) # <<>> => ~package.propagate
      BY StackIs DEF StageInv, Installed, Forwarding
    <2> QED
      BY <1>2, <1>3, <1>4, <2>1 DEF RecordInv, RunRecord, Times
  <1>7. HostRecord(t)'
    <2>1. ASSUME Stack(t) = <<>>, record[t].calm
          PROVE /\ \A u \in Threads : pc[u] \notin Midway /\ pc'[u] \notin Midway
                /\ record[t].own = 0
                /\ package.handler => record[t].root = Expected(t)
                /\ ~package.handler => record[t].root = 0
                                       /\ record[t].level >= Effective(host.level)
      BY <1>2, <2>1 DEF RecordInv, HostRecord, Logging, Midway, TypeOK
    <2>2. ASSUME Stack(t) = <<>>, record[t].calm PROVE record'[t].root = Expected(t)'
      <3>1. Expected(t)' = Expected(t)
        BY <1>2, <1>3 DEF Expected
      <3>2. CASE package.handler
        BY <1>3, <2>1, <2>2, <3>1, <3>2, OneOrTheOther DEF Installed
      <3>3. CASE ~package.handler
        <4>1. package.propagate = host.propagate
          BY <2>1, <2>2, <3>3, OneOrTheOther DEF Bare
        <4> QED
          BY <1>3, <2>1, <2>2, <3>1, <3>3, <4>1 DEF Expected, Times
      <3> QED
        BY <3>2, <3>3
    <2> QED
      BY <1>2, <1>3, <1>4, <2>1, <2>2 DEF HostRecord
  <1> QED
    BY <1>1, <1>2, <1>5, <1>6, <1>7, OwnRecordOnly

LEMMA LoggedKeeps ==
    ASSUME IInv, NEW t \in Threads, Logged(t)
    PROVE Counts' /\ RecordInv'
  <1> USE DEF IInv
  <1>1. LogStep(t)
    BY LoggingSteps
  <1>2. pc'[t] = "idle" /\ \A u \in Threads : u # t => record'[u] = record[u]
    BY DEF Logged, Goto, TypeOK
  <1>3. CountsOf(t)' /\ RunRecord(t)' /\ HostRecord(t)'
    BY <1>2 DEF CountsOf, RunRecord, HostRecord, Logging
  <1> QED
    BY <1>1, <1>2, <1>3, OwnRecordOnly

LEMMA RecordsKept ==
    ASSUME IInv, [Next]_vars
    PROVE Counts' /\ RecordInv'
  <1> USE DEF IInv
  <1>1. CASE UNCHANGED vars
    BY <1>1 DEF vars, Counts, CountsOf, RecordInv, RunRecord, HostRecord, Expected, Times, Stack
  <1>2. CASE Next
    BY <1>2, ChangingSteps, UnseenKeeps, SeenKeeps, LogKeeps, CheckKeeps, CallKeeps, EmitKeeps,
       EmitQuietlyKeeps, PropagateKeeps, LoggedKeeps DEF Next
  <1> QED
    BY <1>1, <1>2

LEMMA FirstHolds == Init => IInv
  <1> SUFFICES ASSUME Init PROVE IInv
    OBVIOUS
  <1>1. Forwarding = {}
    BY DEF Init, Forwarding
  <1>2. TypeOK
    <2>1. <<>> \in BoundedSeq(Levels, MaxDepth)
      <3>1. <<>> \in Seq(Levels) /\ Len(<<>>) = 0
        BY EmptySeq
      <3>2. Len(<<>>) <= MaxDepth
        BY <3>1, ForwardAssumption DEF ForwardAssumption
      <3> QED
        BY <3>1, <3>2, StackType, Zenon
    <2>2. 1 \in Levels /\ NoRecord \in Record
      <3>1. 1 \in Levels /\ TRUE \in BOOLEAN
        BY DEF Levels
      <3> QED
        BY <3>1, FreshType DEF NoRecord
    <2> QED
      BY <2>1, <2>2 DEF Init, TypeOK, Settings, Steps
  <1>3. LockInv
    BY ForwardAssumption DEF Init, LockInv, Critical, Changing, ForwardAssumption
  <1>4. StageInv
    BY <1>1 DEF Init, StageInv, StageOf, Bare
  <1>5. Served
    BY <1>1 DEF Served
  <1>6. Counts
    BY DEF Init, Counts, CountsOf
  <1>7. RecordInv
    BY DEF Init, RecordInv, RunRecord, HostRecord, Logging
  <1> QED
    BY <1>2, <1>3, <1>4, <1>5, <1>6, <1>7 DEF IInv

LEMMA StepKeeps == IInv /\ [Next]_vars => IInv'
  BY TypesKept, LockKept, StageKept, ServedKept, RecordsKept DEF IInv

LEMMA InvariantHolds == Spec => []IInv
  BY FirstHolds, StepKeeps, PTL DEF Spec

-----------------------------------------------------------------------------
(* Theorems.                                                               *)

(* Whenever the lock is free the host has its logger back, if nobody       *)
(* forwards, or else the level lets through what any target wants          *)
(* (forward_to, _apply_level).                                             *)
THEOREM LoggerIsSound == Spec => []LoggerInv
  <1>1. IInv => HostGetsItBack
    BY DEF IInv, StageInv, HostGetsItBack, Bare
  <1>2. IInv => LevelServesAll
    <2> SUFFICES ASSUME IInv, lock = Nobody,
                        NEW t \in Forwarding, NEW i \in 1..Len(targets[t])
                 PROVE package.level \in 1..targets[t][i]
      BY DEF LevelServesAll
    <2>1. t \in Threads /\ pc[t] # "apply"
      BY ForwardAssumption DEF IInv, LockInv, Critical, Forwarding, ForwardAssumption
    <2> QED
      BY <2>1 DEF IInv, Served
  <1>3. IInv => LoggerInv
    BY <1>1, <1>2 DEF IInv, LoggerInv
  <1> QED
    BY <1>3, InvariantHolds, PTL

(* What a run logs, in a record that names its thread, arrives at the      *)
(* innermost target of that thread, once, and nowhere else, whatever other *)
(* threads begin and end meanwhile (_Dispatcher.emit).                     *)
THEOREM RunsGetTheirRecords == Spec => []ForwardedOnce
  <1>1. IInv => ForwardedOnce
    BY DEF IInv, RecordInv, RunRecord, ForwardedOnce
  <1> QED
    BY <1>1, InvariantHolds, PTL

(* What the host logs meanwhile arrives where the host has sent it         *)
(* (_propagate_as_before), unless the first run begins or the last ends    *)
(* under it, or the targets have raised the level.                         *)
THEOREM HostGetsItsRecords == Spec => []QuietWhileOthersForward
  <1>1. IInv => QuietWhileOthersForward
    BY DEF IInv, RecordInv, HostRecord, QuietWhileOthersForward, WhereItWouldGo,
           Expected, Logging
  <1> QED
    BY <1>1, InvariantHolds, PTL

=============================================================================
