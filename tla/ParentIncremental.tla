------------------------- MODULE ParentIncremental -------------------------
(***************************************************************************)
(* Two pipelines over one source: `incremental` copies the parents that    *)
(* changed since a cutoff, and `parent_incremental` replaces the children  *)
(* of those parents, which have no date of their own.  The child run looks *)
(* for its window twice: in the source, over the source's parents, to read *)
(* it, and in the target, over the copy of the parents the other pipeline  *)
(* has left there, to delete it.  The two may differ.                      *)
(*                                                                         *)
(* Dates are days, and a date column holds at most one: {} is NULL, or the *)
(* zero date that NULLIF makes NULL.  A parent is its two dates, without   *)
(* either it is not there; a child is its version, 0 when it is absent.  A *)
(* change of a child stamps its parent, to which it belongs for good.  Both*)
(* targets have been loaded in full before, neither is empty, and the      *)
(* children have a unique index.                                           *)
(***************************************************************************)
EXTENDS Integers, FiniteSets

CONSTANTS
    Parents,
    Children,
    ParentOf,       \* Children -> Parents: the foreign key
    Configurations,     \* what the settings may be
    InitialChildren,    \* the children there may be at first, of versions 0 and 1
    MaxVersion,     \* versions of a child are 1..MaxVersion
    Lookback,       \* incremental_lookback_hours, and days_back, in days
    HalfYear,       \* days from January to June, and from July to December
    MaxDay,         \* bound: days
    MaxChanges,     \* bound: changes of the children
    MaxFaults       \* bound: failed or dead runs

(* lookback: incremental_lookback_hours is set, for both pipelines.        *)
(* either: the parents have incremental_date_column, not updated_at_column.*)
ASSUME ParentAssumption ==
    /\ ParentOf \in [Children -> Parents]
    /\ Configurations \subseteq [lookback : BOOLEAN, either : BOOLEAN]
    /\ InitialChildren \subseteq [Children -> {0, 1}]
    /\ \A initial \in InitialChildren : \E c \in Children : initial[c] # 0
    /\ MaxVersion \in Nat \ {0}
    /\ Lookback \in Nat
    /\ HalfYear \in Nat \ {0}
    /\ MaxDay \in Nat
    /\ MaxChanges \in Nat
    /\ MaxFaults \in Nat

VARIABLES
    settings,   \* of the two pipelines
    today,
    parent,     \* the source's parents
    child,      \* the source's children
    copied,     \* the target's copy of the parents
    target,     \* the target's children
    pstep,      \* the parent run: "idle", "upsert"
    pstaged,    \* its staging table: the parents read, with their dates
    cstep,      \* the child run: "idle", "estimate", "read", "replace"
    cutoff,     \* its cutoff
    staged,     \* its staging table: the children read, with their versions
    failed,     \* the last child run hit the unique index
    steady,     \* parents that have not changed since it began (history)
    ran,        \* of today's child runs one has "begun", or come through: "yes"
    changes,
    faults

sourceVars == <<parent, child, changes>>
parentRunVars == <<copied, pstep, pstaged>>
childRunVars == <<target, cstep, cutoff, staged, failed, ran>>
vars == <<settings, today, sourceVars, parentRunVars, childRunVars, steady, faults>>

Days == 0..MaxDay
Versions == 0..MaxVersion

Row == [created : SUBSET Days, updated : SUBSET Days]
NoRow == [created |-> {}, updated |-> {}]

TypeOK ==
    /\ settings \in Configurations
    /\ today \in Days
    /\ parent \in [Parents -> Row]
    /\ child \in [Children -> Versions]
    /\ copied \in [Parents -> Row]
    /\ target \in [Children -> Versions]
    /\ pstep \in {"idle", "upsert"}
    /\ pstaged \subseteq Parents \X Row
    /\ cstep \in {"idle", "estimate", "read", "replace"}
    /\ cutoff \in Int
    /\ staged \subseteq Children \X (1..MaxVersion)
    /\ failed \in BOOLEAN
    /\ steady \subseteq Parents
    /\ ran \in {"no", "begun", "yes"}
    /\ changes \in 0..MaxChanges
    /\ faults \in 0..MaxFaults

Init ==
    /\ today = 0
    /\ settings \in Configurations
    /\ child \in InitialChildren
    /\ parent = [p \in Parents |->
                    IF \E c \in Children : ParentOf[c] = p /\ child[c] # 0
                    THEN [created |-> {0}, updated |-> {}] ELSE NoRow]
    /\ copied = parent
    /\ target = child
    /\ pstep = "idle"
    /\ pstaged = {}
    /\ cstep = "idle"
    /\ cutoff = 0
    /\ staged = {}
    /\ failed = FALSE
    /\ steady = {}
    /\ ran = "no"
    /\ changes = 0
    /\ faults = 0

-----------------------------------------------------------------------------
(* The source, and the calendar.                                           *)

Stamped(row) == IF row = NoRow THEN [row EXCEPT !.created = {today}]
                ELSE [row EXCEPT !.updated = {today}]

(* A child is inserted, updated or deleted; with the first child a parent  *)
(* comes into being.                                                       *)
Change(c, v) ==
    /\ changes < MaxChanges
    /\ v # child[c]
    /\ child' = [child EXCEPT ![c] = v]
    /\ parent' = [parent EXCEPT ![ParentOf[c]] = Stamped(parent[ParentOf[c]])]
    /\ changes' = changes + 1
    /\ steady' = steady \ {ParentOf[c]}
    /\ UNCHANGED <<settings, today, parentRunVars, childRunVars, faults>>

(* The pipelines are run at least once a day: the day of a lost run does   *)
(* not end before it has been repeated.                                    *)
NextDay ==
    /\ today < MaxDay
    /\ ran = "yes"
    /\ today' = today + 1
    /\ ran' = "no"
    /\ UNCHANGED <<settings, sourceVars, parentRunVars, target, cstep, cutoff, staged, failed,
                   faults, steady>>

-----------------------------------------------------------------------------
(* The window.                                                             *)

(* Mutant of DeepCutoff: always the current year.                          *)
ThisYear(day) == (day \div (2 * HalfYear)) * 2 * HalfYear

(* 1 January of the previous year until the end of June, then of this one. *)
DeepCutoff(day) ==
    LET january == (day \div (2 * HalfYear)) * 2 * HalfYear
    IN  IF day - january < HalfYear THEN january - 2 * HalfYear ELSE january

(* window_mode, of a configuration with or without the keys that           *)
(* _deep_cutoff_applies looks for; days_back is never None.                *)
Mode(deepKeys) ==
    IF settings.lookback THEN "lookback" ELSE IF deepKeys THEN "deep" ELSE "days_back"

CutoffOf(mode, day) == IF mode = "deep" THEN DeepCutoff(day) ELSE day - Lookback

(* The children have incremental_parent_table.                             *)
ParentCutoff == CutoffOf(Mode(settings.either), today)
ChildCutoff == CutoffOf(Mode(TRUE), today)

Reaches(date, limit) == \E d \in date : d >= limit

(* Mutant of InWindow: the first of the two columns only.                  *)
InWindowOfUpdated(row, limit) == Reaches(row.updated, limit)

(* `_parent_condition`, and the window of incremental_date_column          *)
InWindow(row, limit) == Reaches(row.updated, limit) \/ Reaches(row.created, limit)

(* `_build_where`                                                          *)
InParentWindow(row, limit) ==
    IF settings.either THEN InWindow(row, limit)
    ELSE Reaches(IF row.updated # {} THEN row.updated ELSE row.created, limit)

-----------------------------------------------------------------------------
(* The run of the parents: `incremental`.                                  *)

ReadParents ==
    /\ pstep = "idle"
    /\ pstaged' = {<<p, parent[p]>> : p \in {q \in Parents :
                                          InParentWindow(parent[q], ParentCutoff)}}
    /\ pstep' = IF pstaged' = {} THEN "idle" ELSE "upsert"
    /\ UNCHANGED <<settings, today, sourceVars, copied, childRunVars, faults, steady>>

(* `_upsert_from_staging`                                                  *)
UpsertParents ==
    /\ pstep = "upsert"
    /\ copied' = [p \in Parents |->
                     IF \E s \in pstaged : s[1] = p
                     THEN (CHOOSE s \in pstaged : s[1] = p)[2]
                     ELSE copied[p]]
    /\ pstep' = "idle"
    /\ pstaged' = {}
    /\ UNCHANGED <<settings, today, sourceVars, childRunVars, faults, steady>>

ParentRunDies ==
    /\ pstep # "idle"
    /\ faults < MaxFaults
    /\ pstep' = "idle"
    /\ pstaged' = {}
    /\ faults' = faults + 1
    /\ UNCHANGED <<settings, today, sourceVars, copied, childRunVars, steady>>

-----------------------------------------------------------------------------
(* The run of the children: `parent_incremental`.                          *)

StartChildren ==
    /\ cstep = "idle"
    /\ cstep' = "estimate"
    /\ cutoff' = ChildCutoff
    /\ failed' = FALSE
    /\ steady' = Parents
    /\ ran' = (IF ran = "no" THEN "begun" ELSE ran)
    /\ UNCHANGED <<settings, today, sourceVars, parentRunVars, target, staged, faults>>

(* The staging table is dropped.                                           *)
ChildRunEnds ==
    /\ cstep' = "idle"
    /\ cutoff' = 0
    /\ staged' = {}
    /\ steady' = {}
    /\ UNCHANGED <<settings, today, sourceVars, parentRunVars>>

(* Mutant of SourceWindow: the day of the cutoff is read no more.          *)
SourceWindowAfter ==
    {c \in Children : child[c] # 0 /\ InWindow(parent[ParentOf[c]], cutoff + 1)}

(* `_source_where`: the children whose parent falls inside the window.     *)
SourceWindow == {c \in Children : child[c] # 0 /\ InWindow(parent[ParentOf[c]], cutoff)}

CameThrough == ran' = (IF ran = "begun" THEN "yes" ELSE ran)
FellThrough == ran' = (IF ran = "begun" THEN "no" ELSE ran)

(* The estimate counts no rows: the run ends, and nothing is deleted.      *)
NoChildren ==
    /\ cstep = "estimate"
    /\ SourceWindow = {}
    /\ CameThrough
    /\ ChildRunEnds
    /\ UNCHANGED <<target, failed, faults>>

SomeChildren ==
    /\ cstep = "estimate"
    /\ SourceWindow # {}
    /\ cstep' = "read"
    /\ UNCHANGED <<settings, today, sourceVars, parentRunVars, target, cutoff, staged, failed,
                   ran, faults, steady>>

(* The window as it is now, which need not be the one that was counted.    *)
ReadChildren ==
    /\ cstep = "read"
    /\ staged' = {<<c, child[c]>> : c \in SourceWindow}
    /\ cstep' = "replace"
    /\ UNCHANGED <<settings, today, sourceVars, parentRunVars, target, cutoff, failed, ran,
                   faults, steady>>

Staged == {c \in Children : \E v \in Versions : <<c, v>> \in staged}

(* Mutant of Deleted: the window of the target alone, as it once was.      *)
DeletedByCopy(c) == InWindow(copied[ParentOf[c]], cutoff)

(* Mutant of Deleted: what is about to be inserted, and no more.           *)
DeletedByStaging(c) == \E s \in Staged : ParentOf[s] = ParentOf[c]

(* `_delete_window`: the parents in the window of the target's copy, and   *)
(* those that have a child in the staging table.                           *)
Deleted(c) ==
    \/ InWindow(copied[ParentOf[c]], cutoff)
    \/ \E s \in Staged : ParentOf[s] = ParentOf[c]

Kept == {c \in Children : target[c] # 0 /\ ~Deleted(c)}

(* The INSERT hits the unique index.                                       *)
Conflict == Kept \cap Staged # {}

(* DELETE, INSERT without ON CONFLICT, and commit; or a rollback.          *)
ReplaceChildren ==
    /\ cstep = "replace"
    /\ failed' = Conflict
    /\ target' = [c \in Children |->
                     IF Conflict \/ c \in Kept \ Staged THEN target[c]
                     ELSE IF c \in Staged THEN CHOOSE v \in Versions : <<c, v>> \in staged
                     ELSE 0]
    /\ IF Conflict THEN FellThrough ELSE CameThrough
    /\ ChildRunEnds
    /\ UNCHANGED faults

ChildRunDies ==
    /\ cstep # "idle"
    /\ faults < MaxFaults
    /\ faults' = faults + 1
    /\ FellThrough
    /\ ChildRunEnds
    /\ UNCHANGED <<target, failed>>

ParentRun == ReadParents \/ UpsertParents
ChildRun == StartChildren \/ NoChildren \/ SomeChildren \/ ReadChildren \/ ReplaceChildren

Next ==
    \/ \E c \in Children, v \in Versions : Change(c, v)
    \/ NextDay
    \/ ParentRun
    \/ ParentRunDies
    \/ ChildRun
    \/ ChildRunDies

Spec == Init /\ [][Next]_vars

(* The scheduler starts both pipelines again and again.                    *)
FairSpec == Spec /\ WF_vars(ParentRun) /\ WF_vars(ChildRun)

-----------------------------------------------------------------------------
(* Properties.                                                             *)

(* A child run never hits the unique index, however far the copy of the    *)
(* parents is behind the source: `_delete_window` takes its window from    *)
(* the staging table as well, "which is what closes the race".             *)
NeverConflicts == ~failed

(* Every child of the source arrives, in its last version, although each   *)
(* change leaves the window again, after Lookback days or when the deep    *)
(* cutoff jumps: after the changes end nothing of the source is missing or *)
(* old in the target (_source_where, compute_incremental_cutoff).          *)
ChildrenArrive ==
    <>[](\A c \in Children : child[c] # 0 => target[c] = child[c])

(* No child whose parent has changed since the run began is judged by the  *)
(* two properties below: it is the next run that has to bring it.          *)
Steady(c) == ParentOf[c] \in steady

(* A child run never spoils what is right: a child that the target has in  *)
(* the version of the source is still so after it, whatever the parents'   *)
(* run does between the read and the delete.  The window is read by the    *)
(* source's parents and deleted by the target's copy of them, and what is  *)
(* deleted has to be among what was read.                                  *)
NothingTakenAway ==
    [][\A c \in Children :
          Steady(c) /\ child[c] # 0 /\ target[c] = child[c] => target'[c] = child[c]]_vars

(* A replacement leaves no child in the target that has vanished from the  *)
(* source before the run and whose parent is in the window of the copy,    *)
(* although nothing was read for it (_delete_window: of a parent whose     *)
(* children have all vanished "its stale rows still have to go").          *)
StaleRowsGo ==
    [][ReplaceChildren /\ ~failed' =>
          \A c \in Children :
              Steady(c) /\ child[c] = 0 /\ InWindow(copied[ParentOf[c]], cutoff)
              => target'[c] = 0]_vars
=============================================================================
