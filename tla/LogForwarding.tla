---------------------------- MODULE LogForwarding ----------------------------
(***************************************************************************)
(* core/logging.py: `forward_to`, with several runs in the threads of one  *)
(* process, and threads of the host that log while they run.  A level is   *)
(* 0 (NOTSET), 1 (DEBUG), 2 (INFO) or 3 (WARNING, the root's).             *)
(*                                                                         *)
(* Beginning and ending are done under `_lock`, statement by statement;    *)
(* logging does not take the lock and sees what is there between them.     *)
(***************************************************************************)
EXTENDS Integers, Sequences, SequencesExt

CONSTANTS
    Threads,    \* threads of the process
    Nobody,     \* the lock is free
    MaxDepth,   \* bound: runs begun inside one another in a thread
    Kinds       \* kinds of targets that are forwarded to

RootLevel == 3
Levels == 1..3

ASSUME ForwardAssumption ==
    /\ Nobody \notin Threads
    /\ MaxDepth \in Nat \ {0}
    /\ Kinds \subseteq {"notset", "warning", "plain"}

VARIABLES
    host,       \* level and propagation the host gave the package logger
    package,    \* the logger `dbextractors`: level, propagation, handler
    saved,      \* _saved, or NotSaved
    targets,    \* _targets: the levels of the targets, the innermost last
    lock,       \* who holds _lock
    pc,         \* what each thread does next
    asked,      \* the level of the target a thread is about to forward to
    record      \* what each thread logs, and where it has arrived

vars == <<host, package, saved, targets, lock, pc, asked, record>>

Settings == [level: 0..3, propagate: BOOLEAN]
NotSaved == [level |-> -1, propagate |-> FALSE]

(* A record on its way: whether it names its thread, how often it has      *)
(* arrived at the target of its thread and at the root, and what has       *)
(* happened to the logger meanwhile.                                       *)
Record == [level: Levels, named: BOOLEAN, own: 0..2, root: 0..2,
           calm: BOOLEAN, raised: BOOLEAN]
Fresh(level, named, calm) ==
    [level |-> level, named |-> named, own |-> 0, root |-> 0, calm |-> calm, raised |-> FALSE]
NoRecord == Fresh(1, TRUE, TRUE)

Changing == {"save", "install", "silence", "remove", "relevel", "restore", "forget"}
Steps == {"idle", "push", "apply", "pop"} \cup Changing
         \cup {"enabled", "handlers", "emit", "quiet", "propagate", "done"}

TypeOK ==
    /\ host \in Settings
    /\ package \in [level: 0..3, propagate: BOOLEAN, handler: BOOLEAN]
    /\ saved \in Settings \cup {NotSaved}
    /\ targets \in [Threads -> BoundedSeq(Levels, MaxDepth)]
    /\ lock \in Threads \cup {Nobody}
    /\ pc \in [Threads -> Steps]
    /\ asked \in [Threads -> Levels]
    /\ record \in [Threads -> Record]

Init ==
    /\ host \in [level: 0..2, propagate: BOOLEAN]
    /\ package = [level |-> host.level, propagate |-> host.propagate, handler |-> FALSE]
    /\ saved = NotSaved
    /\ targets = [t \in Threads |-> <<>>]
    /\ lock = Nobody
    /\ pc = [t \in Threads |-> "idle"]
    /\ asked = [t \in Threads |-> 1]
    /\ record = [t \in Threads |-> NoRecord]

Forwarding == {t \in Threads : targets[t] # <<>>}
Effective(level) == IF level = 0 THEN RootLevel ELSE level

(* From here on the step of the thread t is `step`.                        *)
Goto(t, step) == pc' = [pc EXCEPT ![t] = step]

(* The logger changes hands under the records that are on their way.       *)
Disturb == record' = [t \in Threads |-> [record[t] EXCEPT !.calm = FALSE]]

-----------------------------------------------------------------------------
(* Beginning: the first part of forward_to.                                *)

(* _target_level: NOTSET wants everything, what is no logger wants INFO.   *)
TargetLevel(kind) ==
    CASE kind = "notset" -> 1
      [] kind = "plain" -> 2
      [] kind = "warning" -> 3

(* Mutant of Begin: every run saves what it finds, not only the first.     *)
BeginSaving(t, kind) ==
    /\ pc[t] = "idle" /\ lock = Nobody
    /\ Len(targets[t]) < MaxDepth
    /\ lock' = t
    /\ asked' = [asked EXCEPT ![t] = TargetLevel(kind)]
    /\ Goto(t, "save")
    /\ UNCHANGED <<host, package, saved, targets, record>>

Begin(t, kind) ==
    /\ pc[t] = "idle" /\ lock = Nobody
    /\ Len(targets[t]) < MaxDepth
    /\ lock' = t
    /\ asked' = [asked EXCEPT ![t] = TargetLevel(kind)]
    /\ Goto(t, IF saved = NotSaved THEN "save" ELSE "push")
    /\ UNCHANGED <<host, package, saved, targets, record>>

Save(t) ==
    /\ pc[t] = "save"
    /\ saved' = [level |-> package.level, propagate |-> package.propagate]
    /\ Goto(t, "install")
    /\ Disturb
    /\ UNCHANGED <<host, package, targets, lock, asked>>

Install(t) ==
    /\ pc[t] = "install"
    /\ package' = [package EXCEPT !.handler = TRUE]
    /\ Goto(t, "silence")
    /\ Disturb
    /\ UNCHANGED <<host, saved, targets, lock, asked>>

Silence(t) ==
    /\ pc[t] = "silence"
    /\ package' = [package EXCEPT !.propagate = FALSE]
    /\ Goto(t, "push")
    /\ Disturb
    /\ UNCHANGED <<host, saved, targets, lock, asked>>

Push(t) ==
    /\ pc[t] = "push"
    /\ targets' = [targets EXCEPT ![t] = Append(@, asked[t])]
    /\ Goto(t, "apply")
    /\ UNCHANGED <<host, package, saved, lock, asked, record>>

(* Mutant of LowestLevel: the highest level any target asks for.           *)
HighestLevel ==
    CHOOSE l \in Levels :
        /\ \E t \in Forwarding, i \in 1..MaxDepth : i <= Len(targets[t]) /\ targets[t][i] = l
        /\ \A t \in Forwarding : \A i \in 1..Len(targets[t]) : l >= targets[t][i]

LowestLevel ==
    CHOOSE l \in Levels :
        /\ \E t \in Forwarding, i \in 1..MaxDepth : i <= Len(targets[t]) /\ targets[t][i] = l
        /\ \A t \in Forwarding : \A i \in 1..Len(targets[t]) : l <= targets[t][i]

(* _apply_level, and the lock is released.                                 *)
Apply(t) ==
    /\ pc[t] = "apply"
    /\ package' = [package EXCEPT !.level = LowestLevel]
    /\ lock' = Nobody
    /\ Goto(t, "idle")
    /\ UNCHANGED <<host, saved, targets, asked, record>>

-----------------------------------------------------------------------------
(* Ending: the `finally` of forward_to.                                    *)

End(t) ==
    /\ pc[t] = "idle" /\ lock = Nobody
    /\ targets[t] # <<>>
    /\ lock' = t
    /\ Goto(t, "pop")
    /\ UNCHANGED <<host, package, saved, targets, asked, record>>

(* Mutant of OthersForward: a run that ends takes the handler with it.     *)
SelfForwards(t) == Len(targets[t]) > 1

(* `_targets` is not empty once this run's entry is off the stack.         *)
OthersForward(t) == Len(targets[t]) > 1 \/ Forwarding \ {t} # {}

Pop(t) ==
    /\ pc[t] = "pop"
    /\ targets' = [targets EXCEPT ![t] = Front(@)]
    /\ Goto(t, IF OthersForward(t) THEN "apply" ELSE "remove")
    /\ UNCHANGED <<host, package, saved, lock, asked, record>>

RemoveHandler(t) ==
    /\ pc[t] = "remove"
    /\ package' = [package EXCEPT !.handler = FALSE]
    /\ Goto(t, "relevel")
    /\ Disturb
    /\ UNCHANGED <<host, saved, targets, lock, asked>>

RestoreLevel(t) ==
    /\ pc[t] = "relevel"
    /\ package' = [package EXCEPT !.level = saved.level]
    /\ Goto(t, "restore")
    /\ Disturb
    /\ UNCHANGED <<host, saved, targets, lock, asked>>

RestorePropagation(t) ==
    /\ pc[t] = "restore"
    /\ package' = [package EXCEPT !.propagate = saved.propagate]
    /\ Goto(t, "forget")
    /\ Disturb
    /\ UNCHANGED <<host, saved, targets, lock, asked>>

Forget(t) ==
    /\ pc[t] = "forget"
    /\ saved' = NotSaved
    /\ lock' = Nobody
    /\ Goto(t, "idle")
    /\ Disturb
    /\ UNCHANGED <<host, package, targets, asked>>

-----------------------------------------------------------------------------
(* Logging, by a thread that forwards or by one that does not; a record    *)
(* names no thread when the host has switched logging.logThreads off.      *)

Log(t, level, named) ==
    /\ pc[t] = "idle"
    /\ record' = [record EXCEPT ![t] =
                     Fresh(level, named, \A u \in Threads : pc[u] \notin Changing)]
    /\ Goto(t, "enabled")
    /\ UNCHANGED <<host, package, saved, targets, lock, asked>>

(* Logger.isEnabledFor                                                     *)
CheckLevel(t) ==
    /\ pc[t] = "enabled"
    /\ Goto(t, IF record[t].level >= Effective(package.level) THEN "handlers" ELSE "done")
    /\ record' = [record EXCEPT ![t].raised =
                     Effective(package.level) > Effective(host.level)]
    /\ UNCHANGED <<host, package, saved, targets, lock, asked>>

(* Logger.callHandlers at the package logger: the dispatcher may be there. *)
CallHandlers(t) ==
    /\ pc[t] = "handlers"
    /\ Goto(t, IF package.handler THEN "emit" ELSE "propagate")
    /\ UNCHANGED <<host, package, saved, targets, lock, asked, record>>

(* The targets a record is found to have.                                  *)
Stack(t) == IF record[t].named THEN targets[t] ELSE <<>>

(* _Dispatcher.emit: the innermost target of the thread, if there is one.  *)
Emit(t) ==
    /\ pc[t] = "emit"
    /\ IF Stack(t) = <<>>
       THEN Goto(t, "quiet") /\ UNCHANGED record
       ELSE /\ Goto(t, "propagate")
            /\ record' = IF record[t].level < Last(Stack(t)) THEN record
                         ELSE [record EXCEPT ![t].own = @ + 1]
    /\ UNCHANGED <<host, package, saved, targets, lock, asked>>

(* Mutant of PassesAsBefore: at the level that forwarding has set.         *)
PassesAsNow(level) ==
    saved # NotSaved /\ saved.propagate /\ level >= Effective(package.level)

PassesAsBefore(level) ==
    saved # NotSaved /\ saved.propagate /\ level >= Effective(saved.level)

(* _propagate_as_before                                                    *)
EmitQuietly(t) ==
    /\ pc[t] = "quiet"
    /\ record' = IF PassesAsBefore(record[t].level) THEN [record EXCEPT ![t].root = @ + 1]
                 ELSE record
    /\ Goto(t, "propagate")
    /\ UNCHANGED <<host, package, saved, targets, lock, asked>>

(* Logger.callHandlers goes on to the root, or not.                        *)
Propagate(t) ==
    /\ pc[t] = "propagate"
    /\ record' = IF package.propagate THEN [record EXCEPT ![t].root = @ + 1] ELSE record
    /\ Goto(t, "done")
    /\ UNCHANGED <<host, package, saved, targets, lock, asked>>

Logged(t) ==
    /\ pc[t] = "done"
    /\ record' = [record EXCEPT ![t] = NoRecord]
    /\ Goto(t, "idle")
    /\ UNCHANGED <<host, package, saved, targets, lock, asked>>

Next ==
    \E t \in Threads :
        \/ \E kind \in Kinds : Begin(t, kind)
        \/ Save(t) \/ Install(t) \/ Silence(t) \/ Push(t) \/ Apply(t)
        \/ End(t) \/ Pop(t)
        \/ RemoveHandler(t) \/ RestoreLevel(t) \/ RestorePropagation(t) \/ Forget(t)
        \/ \E level \in Levels, named \in BOOLEAN : Log(t, level, named)
        \/ CheckLevel(t) \/ CallHandlers(t) \/ Emit(t) \/ EmitQuietly(t)
        \/ Propagate(t) \/ Logged(t)

Spec == Init /\ [][Next]_vars

-----------------------------------------------------------------------------
(* Properties.                                                             *)

Times(condition) == IF condition THEN 1 ELSE 0

(* Whatever other runs begin and end around it, a record of a run goes to  *)
(* the innermost target of its own thread, once, if the target wants it,   *)
(* and not to the host's handlers as well ("see every line twice").        *)
ForwardedOnce ==
    \A t \in Threads : pc[t] = "done" /\ Stack(t) # <<>> =>
        /\ record[t].own = Times(record[t].level >= Last(Stack(t)))
        /\ record[t].root = 0

(* A record of a thread that forwards nothing, or that names no thread,    *)
(* goes where it would go if nobody forwarded, at the level the host has   *)
(* set, while runs of other threads go on - as long as none of them is the *)
(* first or the last, and their targets have not raised the level of the   *)
(* logger.                                                                 *)
WhereItWouldGo(t) ==
    /\ record[t].own = 0
    /\ record[t].root = Times(host.propagate /\ record[t].level >= Effective(host.level))

QuietWhileOthersForward ==
    \A t \in Threads :
        pc[t] = "done" /\ Stack(t) = <<>> /\ record[t].calm /\ ~record[t].raised
          => WhereItWouldGo(t)

(* When nobody forwards any more the logger is as the host has left it, in *)
(* whatever order the runs have begun and ended.                           *)
HostGetsItBack ==
    lock = Nobody /\ Forwarding = {} =>
        /\ package = [level |-> host.level, propagate |-> host.propagate, handler |-> FALSE]
        /\ saved = NotSaved

(* The level of the logger is never NOTSET while somebody forwards, and    *)
(* lets through what any of the targets wants.                             *)
LevelServesAll ==
    lock = Nobody =>
        \A t \in Forwarding : \A i \in 1..Len(targets[t]) :
            package.level \in 1..targets[t][i]

(* Between two changes of the logger, which the lock makes one of: the     *)
(* runs and the host each have what forward_to promises them.              *)
LoggerInv == TypeOK /\ HostGetsItBack /\ LevelServesAll
=============================================================================
