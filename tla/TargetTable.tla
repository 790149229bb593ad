---------------------------- MODULE TargetTable -----------------------------
(***************************************************************************)
(* core/target_pg.py and core/partitioning.py: one table of the target and *)
(* the runs that write it one after another, by a pipeline whose           *)
(* partition_by may be edited and over a source that moves rows and gains  *)
(* a column.                                                               *)
(*                                                                         *)
(* A run alters the table (and commits that), then writes in a single      *)
(* transaction: the whole table from a shadow (`full`), the staged rows by *)
(* key (`upsert`: incremental, id_watermark, hash_diff) or the slice of    *)
(* one source label (`slice`: full_by_source).  Who reads what meanwhile,  *)
(* and the index, are in FullLoad and FullBySource.                        *)
(*                                                                         *)
(* An operator that PostgreSQL may refuse returns the set of tables it can *)
(* leave behind: empty when the statement raises.                          *)
(***************************************************************************)
EXTENDS Calendar, FiniteSets

CONSTANTS
    Keys,
    Days,           \* the dates in the partition column
    CalendarDays,   \* the dates the calendar is checked over
    Labels,         \* the source labels of full_by_source
    SlugOf(_),      \* re.sub('[^0-9a-z]+', '_', ...) of a label or a date
    Null,
    Absent,         \* of a key that is not in the source
    NoSpec,         \* partition_by is not set, or does not apply
    Specs,          \* the values of partition_by explored
    MaxRuns,        \* bound: runs
    MaxEdits,       \* bound: edits of partition_by
    MaxMoves        \* bound: changes of the source

(* PartitionSpec; `column` is the column it names.                         *)
PartitionSpec == [column: {"day", "_source", "other"},
                  mode: Modes \cup {"list"}, default: BOOLEAN]

ASSUME TargetAssumption ==
    /\ Days \cup CalendarDays \subseteq Date /\ Null \notin Days \cup Labels
    /\ Specs \subseteq PartitionSpec /\ NoSpec \notin PartitionSpec
    /\ MaxRuns \in Nat /\ MaxEdits \in Nat /\ MaxMoves \in Nat

VARIABLES
    layout,     \* "day" or "_source": what the partition column is
    source,     \* the value of the partition column of each key
    gained,     \* the source has gained a column
    spec,       \* partition_by
    edited,     \* edits of it
    moves,
    table,      \* the table, as committed
    pc,
    run,        \* the run: its kind, its columns and the rows it has staged
    outcome,    \* of the last run
    runs

vars == <<layout, source, gained, spec, edited, moves, table, pc, run, outcome, runs>>

Columns == {"data", "managed", "gained"}

Values == IF layout = "day" THEN Days \cup {Null} ELSE Labels

Row == [key: Keys, value: Days \cup Labels \cup {Null}]

(* `by` is the partition column of a partitioned table, `listed` says      *)
(* whether it is PARTITION BY LIST or RANGE.                               *)
NoTable == [exists |-> FALSE, by |-> "plain", listed |-> FALSE, columns |-> {},
            parts |-> {}, default |-> FALSE, rows |-> {}]

(* One that an older extractor has left: without the managed columns.      *)
LegacyTable == [NoTable EXCEPT !.exists = TRUE, !.columns = {"data"}]

NoRun == [kind |-> "none", label |-> Null, columns |-> {}, staged |-> {}, before |-> {}]

(* partition_suffix                                                        *)
Name(s, v) == IF s.mode = "list" THEN SlugOf(v) ELSE PeriodSuffix(s.mode, v)

(* The values a partition of that spec takes, out of those there are.      *)
Bounds(s, v) ==
    IF s.mode = "list" THEN {v}
    ELSE {d \in Days : Within(d, PeriodBounds(s.mode, d)) /\ Within(d, PeriodBounds(s.mode, v))}

TypeOK ==
    /\ layout \in {"day", "_source"}
    /\ source \in [Keys -> Days \cup Labels \cup {Null, Absent}]
    /\ gained \in BOOLEAN
    /\ spec \in Specs \cup {NoSpec}
    /\ edited \in 0..MaxEdits /\ moves \in 0..MaxMoves /\ runs \in 0..MaxRuns
    /\ table.exists \in BOOLEAN /\ table.by \in {"plain", "day", "_source"}
    /\ table.listed \in BOOLEAN /\ table.default \in BOOLEAN
    /\ table.columns \subseteq Columns
    /\ table.rows \subseteq Row
    /\ \A p \in table.parts : p.takes # {} /\ p.takes \subseteq Days \cup Labels
    /\ pc \in {"idle", "manage", "adopt", "stage", "write"}
    /\ run.kind \in {"none", "full", "upsert", "slice"}
    /\ run.columns \subseteq Columns /\ run.staged \subseteq Row
    /\ outcome \in {"none", "green", "red", "fault"}

Init ==
    /\ layout \in {"day", "_source"}
    /\ source \in [Keys -> Values]
    /\ gained = FALSE
    /\ spec \in {s \in Specs : s.column = layout} \cup {NoSpec}
    /\ edited = 0 /\ moves = 0 /\ runs = 0
    /\ table \in {NoTable, LegacyTable}
    /\ pc = "idle" /\ run = NoRun /\ outcome = "none"

-----------------------------------------------------------------------------
(* PostgreSQL.                                                             *)

(* A partition is refused when it is of the other kind than its parent,    *)
(* when its bounds are empty or taken, or when the default partition holds *)
(* rows that belong to it.                                                 *)
Creatable(t, s, new) ==
    /\ new = {} \/ t.listed = (s.mode = "list")
    /\ \A p \in new : p.takes # {}
    /\ \A p \in new : \A q \in t.parts \cup new :
         p # q => p.takes \cap q.takes = {}
    /\ \A r \in t.rows : \A p \in new : r.value \notin p.takes

(* A row goes to the partition that takes it, to the default one, or       *)
(* nowhere: the INSERT raises.                                             *)
Accepts(t, r) ==
    \/ t.by = "plain"
    \/ t.default
    \/ \E p \in t.parts : r.value \in p.takes

Insert(t, rows) ==
    IF \A r \in rows : Accepts(t, r) THEN {[t EXCEPT !.rows = @ \cup rows]} ELSE {}

-----------------------------------------------------------------------------
(* partitioning.py                                                         *)

(* effective_spec: a set of at most one spec; empty when it raises.        *)
EffectiveSpec(t, s) ==
    CASE ~t.exists -> {s}
      [] t.exists /\ (s = NoSpec \/ t.by = "plain") -> {NoSpec}
      [] OTHER -> {s} \cap {c \in PartitionSpec : c.column = t.by}

(* create_parent, which wants the column in the table it is created like.  *)
CreateParent(t, s, columns) ==
    IF s.column # layout THEN {}
    ELSE {[t EXCEPT !.exists = TRUE, !.by = s.column, !.listed = (s.mode = "list"),
                       !.columns = columns]}

EnsureDefault(t, s) == [t EXCEPT !.default = @ \/ s.default]

(* ensure_partition_for, for each of the values in any order: one whose    *)
(* name is there already gets no partition of its own.                     *)
EnsurePartitions(t, s, values) ==
    LET there == {p.name : p \in t.parts}
        missing == {Name(s, v) : v \in values} \ there
        firsts == {f \in [missing -> values] : \A n \in missing : Name(s, f[n]) = n}
        new(f) == {[name |-> n, takes |-> Bounds(s, f[n])] : n \in missing}
    IN  {[t EXCEPT !.parts = @ \cup new(f)] : f \in {g \in firsts : Creatable(t, s, new(g))}}

(* ensure_partitions_from_table: NULL is left to the default partition.    *)
EnsureFromTable(t, s, rows) ==
    EnsurePartitions(EnsureDefault(t, s), s, {r.value : r \in rows} \ {Null})

-----------------------------------------------------------------------------
(* target_pg.py: the three ways to write.                                  *)

(* swap_shadow_table                                                       *)
Swap(t, s, columns, rows) ==
    IF ~t.exists /\ s = NoSpec
    THEN {[t EXCEPT !.exists = TRUE, !.columns = columns, !.rows = rows]}
    ELSE LET parents == IF t.exists THEN {t} ELSE CreateParent(t, s, columns)
             ready == UNION {IF s = NoSpec \/ p.by = "plain" THEN {p}
                             ELSE EnsureFromTable(p, s, rows) : p \in parents}
         IN  UNION {IF p.columns \subseteq columns
                    THEN Insert([p EXCEPT !.rows = {}], rows) ELSE {} : p \in ready}

KeysOf(rows) == {r.key : r \in rows}

(* Mutant of ReplaceByKey: ON CONFLICT over the key and the partition      *)
(* column, which is what the unique index of a partitioned table spans.    *)
UpsertOnConflict(t, rows) ==
    Insert([t EXCEPT !.rows = {r \in @ : \A n \in rows : r.key # n.key \/ r.value # n.value}],
           rows)

(* replace_by_key; over a plain table ON CONFLICT (pk) DO UPDATE, to the   *)
(* same end.                                                               *)
ReplaceByKey(t, rows) ==
    Insert([t EXCEPT !.rows = {r \in @ : r.key \notin KeysOf(rows)}], rows)

(* _upsert_from_staging: the table decides, not the configuration.         *)
Upsert(t, s, rows) ==
    IF t.by = "plain" THEN ReplaceByKey(t, rows)
    ELSE UNION {ReplaceByKey(p, rows) :
                  p \in IF s = NoSpec THEN {t} ELSE EnsureFromTable(t, s, rows)}

(* _source_spec                                                            *)
SourceSpec == [column |-> "_source", mode |-> "list", default |-> FALSE]

(* TRUNCATE of the partition that has the label's name.                    *)
TruncatePartition(t, label) ==
    LET part == CHOOSE p \in t.parts : p.name = Name(SourceSpec, label)
    IN  [t EXCEPT !.rows = {r \in @ : r.value \notin part.takes}]

(* Mutant of DeleteSlice: the old slice stays under the new one.           *)
KeepSlice(t, label) == t

DeleteSlice(t, label) == [t EXCEPT !.rows = {r \in @ : r.value # label}]

(* Mutant of ReplaceSlice: the whole table goes.                           *)
ReplaceEverything(t, label, rows) == Insert([t EXCEPT !.rows = {}], rows)

(* replace_source_slice                                                    *)
ReplaceSlice(t, label, rows) ==
    IF t.by = "plain" THEN Insert(DeleteSlice(t, label), rows)
    ELSE UNION {Insert(TruncatePartition(p, label), rows) :
                  p \in EnsurePartitions(t, SourceSpec, {label})}

(* _prepare_target and replace_source_slice of full_by_source.             *)
Slice(t, s, columns, label, rows) ==
    LET parents == CASE t.exists -> {t}
                     [] ~t.exists /\ s = NoSpec ->
                          {[t EXCEPT !.exists = TRUE, !.columns = columns]}
                     [] OTHER -> CreateParent(t, SourceSpec, columns)
    IN  UNION {ReplaceSlice(p, label, rows) : p \in parents}

-----------------------------------------------------------------------------
(* A run.                                                                  *)

Sent == {"data"} \cup (IF gained THEN {"gained"} ELSE {})

Present == {[key |-> k, value |-> source[k]] : k \in {j \in Keys : source[j] # Absent}}

(* full_by_source loads by label; the other strategies load any layout.  A *)
(* delta strategy without a target is a full load.                         *)
Start(kind, label) ==
    /\ pc = "idle" /\ runs < MaxRuns
    /\ IF layout = "_source" THEN kind = "slice" ELSE kind # "slice" /\ label = Null
    /\ kind = "slice" => label \in Labels
    /\ kind = "upsert" => table.exists
    /\ run' = [kind |-> kind, label |-> label, columns |-> Sent, staged |-> {},
               before |-> table.rows]
    /\ pc' = "manage" /\ outcome' = "none" /\ runs' = runs + 1
    /\ UNCHANGED <<layout, source, gained, spec, edited, moves, table>>

(* Mutant of Manage: left to the end of the run, as in the predecessors.   *)
ManageLater ==
    /\ pc = "manage"
    /\ pc' = "adopt"
    /\ UNCHANGED <<layout, source, gained, spec, edited, moves, table, run, outcome, runs>>

(* ensure_generated_columns, committed.                                    *)
Manage ==
    /\ pc = "manage"
    /\ table' = IF table.exists THEN [table EXCEPT !.columns = @ \cup {"managed"}] ELSE table
    /\ pc' = "adopt"
    /\ UNCHANGED <<layout, source, gained, spec, edited, moves, run, outcome, runs>>

AdoptNewSourceColumns(t, columns) ==
    IF t.exists THEN [t EXCEPT !.columns = @ \cup columns] ELSE t

DropColumnsMissingInTarget(t, columns) == columns \cap t.columns

(* The loads that rewrite all they have adopt the source's columns, and    *)
(* commit; the others send what the target knows.                          *)
Adopt ==
    /\ pc = "adopt"
    /\ \/ /\ run.kind # "upsert"
          /\ table' = AdoptNewSourceColumns(table, run.columns)
          /\ UNCHANGED run
       \/ /\ run.kind = "upsert"
          /\ run' = [run EXCEPT !.columns = DropColumnsMissingInTarget(table, @)]
          /\ UNCHANGED table
    /\ pc' = "stage"
    /\ UNCHANGED <<layout, source, gained, spec, edited, moves, outcome, runs>>

(* The columns of create_shadow_table: LIKE the target, if there is one.   *)
ShadowColumns == IF table.exists THEN table.columns ELSE run.columns \cup {"managed"}

(* What the source may send to a run of that kind.                         *)
Sendable ==
    CASE run.kind = "full" -> {Present}
      [] run.kind = "slice" -> {{r \in Present : r.value = run.label}}
      [] run.kind = "upsert" -> SUBSET Present

End(how) == outcome' = how /\ pc' = "idle"

ShadowHasColumns == run.columns \cup {"managed"} \subseteq ShadowColumns

(* COPY into the shadow, which has to have every column.  A full load      *)
(* stages nothing when the source is empty and empty_rows_ok says to go on.*)
Stage ==
    /\ pc = "stage"
    /\ ShadowHasColumns
    /\ \E rows \in IF run.kind = "full" THEN Sendable ELSE Sendable \ {{}} :
         run' = [run EXCEPT !.staged = rows]
    /\ pc' = "write"
    /\ UNCHANGED <<layout, source, gained, spec, edited, moves, table, outcome, runs>>

(* No batch: the target is left as it is.                                  *)
StageNothing ==
    /\ pc = "stage"
    /\ {} \in Sendable
    /\ End("fault")
    /\ UNCHANGED <<layout, source, gained, spec, edited, moves, table, run, runs>>

(* The tables the transaction may commit.  _empty_target swaps without the *)
(* spec: a table it creates comes out plain.                               *)
Written ==
    UNION {CASE run.kind = "full" ->
                  Swap(table, IF run.staged = {} THEN NoSpec ELSE s, ShadowColumns, run.staged)
             [] run.kind = "upsert" -> Upsert(table, s, run.staged)
             [] run.kind = "slice" -> Slice(table, s, ShadowColumns, run.label, run.staged)
             : s \in EffectiveSpec(table, spec)}

(* _empty_source: the source of the label counts no row, before the run    *)
(* looks at the columns.  Without a target it goes on only with            *)
(* empty_rows_ok.                                                          *)
Emptied ==
    LET columns == run.columns \cup {"managed"}
    IN  CASE ~table.exists -> Slice(table, spec, columns, run.label, {})
          [] table.exists /\ table.by = "plain" -> {DeleteSlice(table, run.label)}
          [] OTHER -> {TruncatePartition(p, run.label) :
                         p \in EnsurePartitions(table, SourceSpec, {run.label})}

EmptySource ==
    /\ pc = "manage" /\ run.kind = "slice"
    /\ {r \in Present : r.value = run.label} = {}
    /\ table' \in Emptied
    /\ End("green")
    /\ UNCHANGED <<layout, source, gained, spec, edited, moves, run, runs>>

Write ==
    /\ pc = "write"
    /\ table' \in Written
    /\ End("green")
    /\ UNCHANGED <<layout, source, gained, spec, edited, moves, run, runs>>

(* COPY or a statement after it raises: the transaction is rolled back.    *)
Refused ==
    /\ IF pc = "stage" THEN ~ShadowHasColumns ELSE pc = "write" /\ Written = {}
    /\ End("red")
    /\ UNCHANGED <<layout, source, gained, spec, edited, moves, table, run, runs>>

(* The source, the server or the process fails.                            *)
Fault ==
    /\ pc # "idle"
    /\ End("fault")
    /\ UNCHANGED <<layout, source, gained, spec, edited, moves, table, run, runs>>

-----------------------------------------------------------------------------
(* The source, and the operator.                                           *)

(* Between the last read of a run and its end a move changes nothing that  *)
(* one right after it does not.                                            *)
Move(k, v) ==
    /\ pc # "write" /\ moves < MaxMoves /\ source[k] # v
    /\ source' = [source EXCEPT ![k] = v]
    /\ moves' = moves + 1
    /\ UNCHANGED <<layout, gained, spec, edited, table, pc, run, outcome, runs>>

GainColumn ==
    /\ pc = "idle" /\ ~gained
    /\ gained' = TRUE
    /\ UNCHANGED <<layout, source, spec, edited, moves, table, pc, run, outcome, runs>>

Edit(s) ==
    /\ pc = "idle" /\ edited < MaxEdits /\ s # spec
    /\ layout = "_source" => s \in {SourceSpec, NoSpec}
    /\ spec' = s
    /\ edited' = edited + 1
    /\ UNCHANGED <<layout, source, gained, moves, table, pc, run, outcome, runs>>

Next ==
    \/ \E kind \in {"full", "upsert", "slice"}, label \in Labels \cup {Null} : Start(kind, label)
    \/ Manage \/ Adopt \/ EmptySource \/ Stage \/ StageNothing \/ Write \/ Refused \/ Fault
    \/ \E k \in Keys, v \in Values \cup {Absent} : Move(k, v)
    \/ GainColumn
    \/ \E s \in Specs \cup {NoSpec} : Edit(s)

Spec == Init /\ [][Next]_vars

-----------------------------------------------------------------------------
(* Properties.                                                             *)

(* A row whose partition value changes is moved, not doubled, whatever     *)
(* partition_by said when the table was created and says now.              *)
OneRowPerKey ==
    layout = "day" => \A r, n \in table.rows : r.key = n.key => r = n

(* The partition a label would have is that of another label.              *)
SlugTaken(label) ==
    \E p \in table.parts : p.name = SlugOf(label) /\ label \notin p.takes

(* A green run has brought every row it staged, into whichever partition.  *)
GreenRunHoldsStaged ==
    outcome = "green" =>
        /\ run.staged \subseteq table.rows
        /\ run.kind = "full" => table.rows = run.staged
        /\ run.kind = "slice" => {r \in table.rows : r.value = run.label} = run.staged

(* What a run has not staged it leaves alone: the other labels' slices,    *)
(* the other keys, and everything when it fails.  But a source that counts *)
(* no row empties the partition of its label's slug, whosever rows it has. *)
OthersUntouched ==
    pc # "idle" \/ outcome # "none" =>
        LET mine == IF outcome # "green" THEN {}
                    ELSE {r \in run.before \cup table.rows :
                            CASE run.kind = "full" -> TRUE
                              [] run.kind = "upsert" -> r.key \in KeysOf(run.staged)
                              [] run.kind = "slice" ->
                                   \/ r.value = run.label
                                   \/ run.staged = {} /\ SlugOf(r.value) = SlugOf(run.label)}
        IN  table.rows \ mine = run.before \ mine

(* A run over a table it or a run with the same partition_by has built is  *)
(* never refused by PostgreSQL, whatever dates and columns the source      *)
(* comes up with; but for a NULL that no catch-all partition takes, and a  *)
(* label whose slug has given its partition's name to another one.         *)
RefusedOnlyWhenEdited ==
    outcome = "red" =>
        \/ edited > 0
        \/ run.kind = "slice" /\ SlugTaken(run.label)
        \/ spec \in PartitionSpec /\ ~spec.default /\ \E r \in run.staged : r.value = Null

(* period_bounds, over every day of the years explored: a day lies in its  *)
(* period, and the next day either lies in the same one or opens the next  *)
(* where it ends; two periods have two names.                              *)
PeriodsTile ==
    \A mode \in Modes, d \in CalendarDays :
        LET next == PlusDays(d, 1)
            period == PeriodBounds(mode, d)
        IN  /\ Within(d, period)
            /\ IF Within(next, period) THEN PeriodBounds(mode, next) = period
                                       ELSE PeriodStart(mode, next) = period.to
            /\ Within(next, period) <=> PeriodSuffix(mode, next) = PeriodSuffix(mode, d)

(* A run writes its own rows and no others, wherever partition_by has put  *)
(* them, and every date has one partition to be put in.                    *)
TableInv == TypeOK /\ GreenRunHoldsStaged /\ OthersUntouched /\ PeriodsTile
=============================================================================
