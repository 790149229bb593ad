------------------------- MODULE TargetTableProofs --------------------------
(***************************************************************************)
(* A run over a table of the target writes its own rows and no others, for *)
(* every number of keys, runs, moves and edits of partition_by, and every  *)
(* value of it.  The argument is in what a statement leaves of the rows:   *)
(* partitions are only added (EnsureAdds), so the three ways to write      *)
(* differ in the rows they remove and in nothing else (Rewritten); until   *)
(* then the table holds what it held when the run began (RunInv).          *)
(*                                                                         *)
(* Two labels may have one slug.  A slug still names one partition, of one *)
(* label (Sliced): TRUNCATE of it removes that label's rows or, where the  *)
(* name was taken by another label, the other's (TruncateLeaves) - and     *)
(* then no row of the run's own label is accepted any more, so that only a *)
(* run that stages nothing commits such a loss (SliceFilled, Left).        *)
(*                                                                         *)
(* And as long as partition_by is not edited a run writes its rows, unless *)
(* NULL has no partition or the label's name is taken: every partition     *)
(* there is was made by one rule, so that a date either has its own or     *)
(* belongs to none (Built, UneditedInv), and a label without one gets one  *)
(* (SliceIsReady).                                                         *)
(***************************************************************************)
EXTENDS TargetTable, TLAPS

(* The calendar is explored over days there are.                           *)
RealDays == \A d \in CalendarDays : d.day <= DaysInMonth(d.year, d.month)

Things == Days \cup Labels

Part == [name: {Name(s, v) : s \in PartitionSpec, v \in Things}, takes: (SUBSET Things) \ {{}}]

Table == [exists: BOOLEAN, by: {"plain", "day", "_source"}, listed: BOOLEAN,
          columns: SUBSET Columns, parts: SUBSET Part, default: BOOLEAN, rows: SUBSET Row]

Run == [kind: {"none", "full", "upsert", "slice"}, label: Labels \cup {Null},
        columns: SUBSET Columns, staged: SUBSET Row, before: SUBSET Row]

Unique(rows) == \A r, n \in rows : r.key = n.key => r = n

PartOf(p, label) == p.name = SlugOf(label) /\ p.takes = {label}

(* A table of slices: a partition takes the rows of one label, a slug      *)
(* names one partition, and each row is in the one of its label.           *)
Sliced(t) ==
    /\ t.default = FALSE
    /\ \A p \in t.parts : \E label \in Labels : PartOf(p, label)
    /\ \A p, q \in t.parts : p.name = q.name => p = q
    /\ t.by # "plain" => \A r \in t.rows : \E p \in t.parts : r.value \in p.takes
    /\ ~t.exists => t.rows = {}

(* The other labels' rows.                                                 *)
Others(rows, label) == {r \in rows : r.value # label}

(* What the writing of one slice leaves of the rows: its own new ones, and *)
(* the other labels', but for those of a label with the same slug where it *)
(* stages none.                                                            *)
Left(before, label, staged, after) ==
    /\ staged \subseteq after /\ after \subseteq before \cup staged
    /\ \A r \in after : r.value = label => r \in staged
    /\ \A r \in before :
         r.value # label /\ (staged = {} => SlugOf(r.value) # SlugOf(label)) => r \in after

(* What a run that has written leaves of them.                             *)
Rewritten(rows) ==
    /\ run.kind = "full" => rows = run.staged
    /\ run.kind = "upsert" =>
         rows = {r \in run.before : r.key \notin KeysOf(run.staged)} \cup run.staged
    /\ run.kind = "slice" => Left(run.before, run.label, run.staged, rows)

KindInv ==
    run.kind # "none" =>
        /\ layout = "_source" <=> run.kind = "slice"
        /\ run.kind = "slice" => run.label \in Labels
        /\ run.kind = "slice" => \A r \in run.staged : r.value = run.label

RunInv ==
    /\ pc # "idle" => outcome = "none" /\ run.kind # "none" /\ table.rows = run.before
    /\ pc \in {"manage", "adopt", "stage"} => run.staged = {}
    /\ outcome \in {"red", "fault"} => table.rows = run.before
    /\ outcome = "green" => run.kind # "none" /\ Rewritten(table.rows)
    /\ layout = "_source" => Sliced(table)

UniqueInv == layout = "day" => Unique(table.rows) /\ Unique(run.staged)

Scalars ==
    /\ layout \in {"day", "_source"}
    /\ source \in [Keys -> Days \cup Labels \cup {Null, Absent}]
    /\ gained \in BOOLEAN
    /\ spec \in Specs \cup {NoSpec}
    /\ edited \in 0..MaxEdits /\ moves \in 0..MaxMoves /\ runs \in 0..MaxRuns
    /\ pc \in {"idle", "manage", "adopt", "stage", "write"}
    /\ outcome \in {"none", "green", "red", "fault"}

IInv == Scalars /\ table \in Table /\ run \in Run /\ KindInv /\ RunInv /\ UniqueInv

-----------------------------------------------------------------------------
(* The calendar.                                                           *)

Tiles(mode, d) ==
    LET next == PlusDays(d, 1)
        period == PeriodBounds(mode, d)
    IN  /\ Within(d, period)
        /\ IF Within(next, period) THEN PeriodBounds(mode, next) = period
                                   ELSE PeriodStart(mode, next) = period.to
        /\ Within(next, period) <=> PeriodSuffix(mode, next) = PeriodSuffix(mode, d)

LEMMA MonthLength == ASSUME NEW y \in Nat, NEW m \in 1..12 PROVE DaysInMonth(y, m) \in 28..31
  BY DEF DaysInMonth

LEMMA FirstOfNext ==
    ASSUME NEW y \in Nat, NEW m \in 1..12
    PROVE NextMonth([year |-> y, month |-> m, day |-> 1]) =
             [year |-> IF m = 12 THEN y + 1 ELSE y, month |-> IF m = 12 THEN 1 ELSE m + 1,
              day |-> 1]
  BY MonthLength DEF PlusDays, NextMonth

LEMMA ADayOn ==
    ASSUME NEW d \in Date, d.day <= DaysInMonth(d.year, d.month)
    PROVE /\ PlusDays(d, 1) \in Date
          /\ \/ d.day < DaysInMonth(d.year, d.month) /\ PlusDays(d, 1) = [d EXCEPT !.day = @ + 1]
             \/ d.month < 12 /\ PlusDays(d, 1) = [year |-> d.year, month |-> d.month + 1, day |-> 1]
             \/ d.month = 12 /\ PlusDays(d, 1) = [year |-> d.year + 1, month |-> 1, day |-> 1]
  <1>1. DaysInMonth(d.year, d.month) \in 28..31
    BY MonthLength DEF Date
  <1>2. CASE d.day < DaysInMonth(d.year, d.month)
    BY <1>1, <1>2 DEF PlusDays, Date
  <1>3. CASE d.day = DaysInMonth(d.year, d.month)
    BY <1>1, <1>3 DEF PlusDays, Date
  <1> QED
    BY <1>1, <1>2, <1>3 DEF Date

LEMMA DaysTile ==
    ASSUME NEW d \in Date, d.day <= DaysInMonth(d.year, d.month)
    PROVE Tiles("range_day", d)
  <1> DEFINE n == PlusDays(d, 1)
  <1>1. /\ n \in Date
        /\ \/ n = [d EXCEPT !.day = @ + 1]
           \/ n = [year |-> d.year, month |-> d.month + 1, day |-> 1] /\ d.month < 12
           \/ n = [year |-> d.year + 1, month |-> 1, day |-> 1]
    BY ADayOn
  <1>2. PeriodBounds("range_day", d) = [from |-> d, to |-> n]
    BY DEF PeriodBounds, PeriodStart
  <1>3. /\ PeriodSuffix("range_day", d) = <<d.year, d.month, d.day>>
        /\ PeriodSuffix("range_day", n) = <<n.year, n.month, n.day>>
        /\ PeriodStart("range_day", n) = n
    BY DEF PeriodSuffix, PeriodStart
  <1> HIDE DEF n
  <1>4. Within(d, [from |-> d, to |-> n]) /\ ~Within(n, [from |-> d, to |-> n])
    BY <1>1 DEF Within, Before, Date
  <1>5. <<n.year, n.month, n.day>> # <<d.year, d.month, d.day>>
    BY <1>1 DEF Date
  <1> QED
    BY <1>2, <1>3, <1>4, <1>5 DEF Tiles, n

LEMMA MonthsTile ==
    ASSUME NEW d \in Date, d.day <= DaysInMonth(d.year, d.month)
    PROVE Tiles("range_month", d)
  <1> DEFINE n == PlusDays(d, 1)
             start == [year |-> d.year, month |-> d.month, day |-> 1]
             end == [year |-> IF d.month = 12 THEN d.year + 1 ELSE d.year,
                     month |-> IF d.month = 12 THEN 1 ELSE d.month + 1, day |-> 1]
  <1>1. PeriodStart("range_month", d) = start
    BY DEF PeriodStart, Date
  <1>2. PeriodBounds("range_month", d) = [from |-> start, to |-> end]
    BY <1>1, FirstOfNext DEF PeriodBounds, Date
  <1>3. PeriodSuffix("range_month", d) = <<d.year, d.month>>
    BY <1>1 DEF PeriodSuffix
  <1>4. Within(d, [from |-> start, to |-> end])
    BY DEF Within, Before, Date
  <1>5. CASE n = [d EXCEPT !.day = @ + 1] /\ n \in Date
    <2>1. PeriodStart("range_month", n) = start
      BY <1>5 DEF PeriodStart, Date
    <2>2. PeriodBounds("range_month", n) = [from |-> start, to |-> end]
      BY <2>1, <1>1, <1>2 DEF PeriodBounds
    <2>3. PeriodSuffix("range_month", n) = <<d.year, d.month>>
      BY <2>1 DEF PeriodSuffix
    <2>4. Within(n, [from |-> start, to |-> end])
      BY <1>5 DEF Within, Before, Date
    <2> QED
      BY <1>2, <1>3, <1>4, <2>2, <2>3, <2>4 DEF Tiles
  <1>6. CASE n = end
    <2>1. PeriodStart("range_month", n) = end
      BY <1>6 DEF PeriodStart
    <2>2. PeriodSuffix("range_month", n) = <<end.year, end.month>>
      BY <2>1 DEF PeriodSuffix
    <2>3. <<end.year, end.month>> # <<d.year, d.month>> /\ ~Within(end, [from |-> start, to |-> end])
      BY DEF Within, Before, Date
    <2> QED
      BY <1>2, <1>3, <1>4, <1>6, <2>1, <2>2, <2>3 DEF Tiles
  <1> QED
    BY <1>5, <1>6, ADayOn DEF Date

LEMMA YearsTile ==
    ASSUME NEW d \in Date, d.day <= DaysInMonth(d.year, d.month)
    PROVE Tiles("range_year", d)
  <1> DEFINE n == PlusDays(d, 1)
             start == [year |-> d.year, month |-> 1, day |-> 1]
             end == [year |-> d.year + 1, month |-> 1, day |-> 1]
  <1>1. PeriodStart("range_year", d) = start
    BY DEF PeriodStart, Date
  <1>2. PeriodBounds("range_year", d) = [from |-> start, to |-> end]
    BY <1>1 DEF PeriodBounds, Date
  <1>3. PeriodSuffix("range_year", d) = <<d.year>>
    BY <1>1 DEF PeriodSuffix
  <1>4. Within(d, [from |-> start, to |-> end])
    BY DEF Within, Before, Date
  <1>5. CASE n.year = d.year /\ n \in Date
    <2>1. PeriodStart("range_year", n) = start
      BY <1>5 DEF PeriodStart, Date
    <2>2. PeriodBounds("range_year", n) = [from |-> start, to |-> end]
      BY <2>1, <1>1, <1>2 DEF PeriodBounds
    <2>3. PeriodSuffix("range_year", n) = <<d.year>>
      BY <2>1 DEF PeriodSuffix
    <2>4. Within(n, [from |-> start, to |-> end])
      BY <1>5 DEF Within, Before, Date
    <2> QED
      BY <1>2, <1>3, <1>4, <2>2, <2>3, <2>4 DEF Tiles
  <1>6. CASE n = end
    <2>1. PeriodStart("range_year", n) = end
      <3>1. PeriodStart("range_year", end) = end
        BY DEF PeriodStart, Date
      <3> QED
        BY <1>6, <3>1
    <2>2. PeriodSuffix("range_year", n) = <<end.year>>
      BY <2>1 DEF PeriodSuffix
    <2>3. <<end.year>> # <<d.year>>
      BY DEF Date
    <2>4. ~Within(end, [from |-> start, to |-> end])
      BY DEF Within, Before, Date
    <2> QED
      BY <1>2, <1>3, <1>4, <1>6, <2>1, <2>2, <2>3, <2>4 DEF Tiles
  <1> QED
    BY <1>5, <1>6, ADayOn DEF Date

LEMMA EveryPeriodTiles == ASSUME RealDays PROVE PeriodsTile
  BY DaysTile, MonthsTile, YearsTile, TargetAssumption
     DEF PeriodsTile, Tiles, RealDays, Modes, TargetAssumption

-----------------------------------------------------------------------------
(* Partitions.                                                             *)

LEMMA BoundsAre ==
    ASSUME NEW s \in PartitionSpec, NEW v \in Things
    PROVE Bounds(s, v) \subseteq Things
  BY DEF Bounds, Things

(* Partitions are added, with the bounds of one of the values, and every   *)
(* value has one of its name in the end.                                   *)
LEMMA EnsureAdds ==
    ASSUME NEW t \in Table, NEW s \in PartitionSpec, NEW values \in SUBSET Things,
           NEW u \in EnsurePartitions(t, s, values)
    PROVE /\ u \in Table /\ u.rows = t.rows /\ u.by = t.by /\ t.parts \subseteq u.parts
          /\ u.exists = t.exists /\ u.default = t.default
          /\ \A v \in values : \E p \in u.parts : p.name = Name(s, v)
          /\ \A p \in u.parts :
               \/ p \in t.parts
               \/ /\ p.name \notin {q.name : q \in t.parts}
                  /\ \E v \in values : p.name = Name(s, v) /\ p.takes = Bounds(s, v)
  <1> DEFINE there == {p.name : p \in t.parts}
             missing == {Name(s, v) : v \in values} \ there
             firsts == {f \in [missing -> values] : \A n \in missing : Name(s, f[n]) = n}
             new(f) == {[name |-> n, takes |-> Bounds(s, f[n])] : n \in missing}
  <1>1. PICK f \in firsts : Creatable(t, s, new(f)) /\ u = [t EXCEPT !.parts = @ \cup new(f)]
    BY DEF EnsurePartitions
  <1>2. \A n \in missing : f[n] \in values /\ Name(s, f[n]) = n
    OBVIOUS
  <1>3. new(f) \subseteq Part
    <2> SUFFICES ASSUME NEW n \in missing
                 PROVE [name |-> n, takes |-> Bounds(s, f[n])] \in Part
      OBVIOUS
    <2>1. Bounds(s, f[n]) \subseteq Things /\ f[n] \in Things
      BY <1>2, BoundsAre
    <2>2. Bounds(s, f[n]) # {}
      <3>1. [name |-> n, takes |-> Bounds(s, f[n])] \in new(f)
        OBVIOUS
      <3>2. \A p \in new(f) : p.takes # {}
        BY <1>1 DEF Creatable
      <3> QED
        BY <3>1, <3>2
    <2>3. n \in {Name(q, v) : q \in PartitionSpec, v \in Things}
      BY <1>2, <2>1
    <2> QED
      BY <2>1, <2>2, <2>3 DEF Part
  <1>4. /\ u.parts = t.parts \cup new(f) /\ u \in Table /\ u.rows = t.rows /\ u.by = t.by
        /\ u.exists = t.exists /\ u.default = t.default
    BY <1>1, <1>3 DEF Table
  <1>5. ASSUME NEW v \in values PROVE \E p \in u.parts : p.name = Name(s, v)
    <2>1. CASE Name(s, v) \in there
      BY <1>4, <2>1
    <2>2. CASE Name(s, v) \in missing
      <3>1. [name |-> Name(s, v), takes |-> Bounds(s, f[Name(s, v)])] \in new(f)
        BY <2>2
      <3> HIDE DEF new
      <3> QED
        BY <1>4, <3>1
    <2> QED
      BY <2>1, <2>2
  <1>6. ASSUME NEW p \in new(f)
        PROVE /\ p.name \notin there
              /\ \E v \in values : p.name = Name(s, v) /\ p.takes = Bounds(s, v)
    BY <1>2, <1>6
  <1> QED
    BY <1>4, <1>5, <1>6

LEMMA EnsureFromTableAdds ==
    ASSUME NEW t \in Table, NEW s \in PartitionSpec, NEW rows \in SUBSET Row,
           NEW u \in EnsureFromTable(t, s, rows)
    PROVE u \in Table /\ u.rows = t.rows /\ u.by = t.by
  <1>1. /\ EnsureDefault(t, s) \in Table
        /\ EnsureDefault(t, s).rows = t.rows /\ EnsureDefault(t, s).by = t.by
    BY DEF EnsureDefault, Table, PartitionSpec
  <1>2. {r.value : r \in rows} \ {Null} \subseteq Things
    BY DEF Row, Things
  <1> HIDE DEF Table
  <1> QED
    BY <1>1, <1>2, EnsureAdds DEF EnsureFromTable

LEMMA InsertAdds ==
    ASSUME NEW t \in Table, NEW rows \in SUBSET Row, NEW u \in Insert(t, rows)
    PROVE /\ u \in Table /\ u.rows = t.rows \cup rows /\ u.parts = t.parts
          /\ u.by = t.by /\ u.exists = t.exists /\ u.default = t.default
          /\ \A r \in rows : Accepts(t, r)
  BY DEF Insert, Table

(* Without the label's rows a table of slices is still one.                *)
LEMMA ThinnedIsSliced ==
    ASSUME NEW t \in Table, Sliced(t), NEW rest \in SUBSET t.rows
    PROVE LET u == [t EXCEPT !.rows = rest]
          IN  /\ u \in Table /\ Sliced(u) /\ u.rows = rest /\ u.parts = t.parts
              /\ u.by = t.by /\ u.exists = t.exists /\ u.default = t.default
  BY DEF Table, Sliced

(* TRUNCATE of the partition of the label's slug leaves none of the        *)
(* label's rows, and all those that have another slug; the label's own     *)
(* partition has no rows but its own.                                      *)
LEMMA TruncateLeaves ==
    ASSUME NEW t \in Table, Sliced(t), t.by # "plain", NEW label \in Labels,
           \E p \in t.parts : p.name = Name(SourceSpec, label)
    PROVE \E rest \in SUBSET t.rows :
             /\ TruncatePartition(t, label) = [t EXCEPT !.rows = rest]
             /\ Left(t.rows, label, {}, rest)
             /\ (\E p \in t.parts : label \in p.takes) => rest = Others(t.rows, label)
  <1> DEFINE part == CHOOSE p \in t.parts : p.name = Name(SourceSpec, label)
             rest == {r \in t.rows : r.value \notin part.takes}
  <1>1. part \in t.parts /\ part.name = SlugOf(label)
    BY DEF Name, SourceSpec
  <1>2. TruncatePartition(t, label) = [t EXCEPT !.rows = rest]
    BY DEF TruncatePartition
  <1> HIDE DEF part
  <1>3. PICK other \in Labels : SlugOf(other) = SlugOf(label) /\ part.takes = {other}
    BY <1>1 DEF Sliced, PartOf
  <1>4. \A p \in t.parts : label \in p.takes => p = part /\ other = label
    <2> SUFFICES ASSUME NEW p \in t.parts, label \in p.takes
                 PROVE p = part /\ other = label
      OBVIOUS
    <2>1. p.name = SlugOf(label)
      BY DEF Sliced, PartOf
    <2>2. p = part
      BY <1>1, <2>1 DEF Sliced
    <2> QED
      BY <1>3, <2>2
  <1>5. \A r \in rest : r.value # label
    <2> SUFFICES ASSUME NEW r \in rest, r.value = label PROVE FALSE
      OBVIOUS
    <2>1. \E p \in t.parts : label \in p.takes
      BY DEF Sliced
    <2> QED
      BY <1>3, <1>4, <2>1
  <1>6. \A r \in t.rows : SlugOf(r.value) # SlugOf(label) => r \in rest
    BY <1>3
  <1>7. (\E p \in t.parts : label \in p.takes) => rest = Others(t.rows, label)
    BY <1>3, <1>4 DEF Others
  <1>8. Left(t.rows, label, {}, rest)
    BY <1>5, <1>6 DEF Left
  <1>9. rest \in SUBSET t.rows
    OBVIOUS
  <1> HIDE DEF rest
  <1> QED
    BY <1>2, <1>7, <1>8, <1>9

(* The partition of a label is added to a sliced table.                    *)
LEMMA EnsureSlice ==
    ASSUME NEW t \in Table, Sliced(t), NEW label \in Labels,
           NEW u \in EnsurePartitions(t, SourceSpec, {label})
    PROVE /\ u \in Table /\ u.rows = t.rows /\ u.by = t.by /\ u.exists = t.exists
          /\ Sliced(u)
          /\ \E p \in u.parts : p.name = Name(SourceSpec, label)
  <1>1. SourceSpec \in PartitionSpec
    BY DEF SourceSpec, PartitionSpec
  <1>2. {label} \in SUBSET Things
    BY DEF Things
  <1>3. /\ u \in Table /\ u.rows = t.rows /\ u.by = t.by /\ t.parts \subseteq u.parts
        /\ u.exists = t.exists /\ u.default = t.default
        /\ \E p \in u.parts : p.name = Name(SourceSpec, label)
        /\ \A p \in u.parts : \/ p \in t.parts
                              \/ /\ p.name \notin {q.name : q \in t.parts}
                                 /\ p.name = Name(SourceSpec, label)
                                 /\ p.takes = Bounds(SourceSpec, label)
    BY <1>1, <1>2, EnsureAdds
  <1>4. Name(SourceSpec, label) = SlugOf(label) /\ Bounds(SourceSpec, label) = {label}
    BY DEF Name, Bounds, SourceSpec
  <1>5. \A p \in u.parts : \E l \in Labels : PartOf(p, l)
    BY <1>3, <1>4 DEF Sliced, PartOf
  <1>6. \A p, q \in u.parts : p.name = q.name => p = q
    <2> SUFFICES ASSUME NEW p \in u.parts, NEW q \in u.parts, p.name = q.name
                 PROVE p = q
      OBVIOUS
    <2>1. CASE p \in t.parts /\ q \in t.parts
      BY <2>1 DEF Sliced
    <2>2. CASE p \notin t.parts /\ q \notin t.parts
      <3>1. p.takes = q.takes /\ p \in Part /\ q \in Part
        BY <1>3, <2>2 DEF Table
      <3> QED
        BY <3>1 DEF Part
    <2>3. CASE p \in t.parts <=> q \notin t.parts
      BY <1>3, <2>3
    <2> QED
      BY <2>1, <2>2, <2>3
  <1> QED
    BY <1>3, <1>5, <1>6 DEF Sliced

-----------------------------------------------------------------------------
(* The three ways to write.                                                *)

LEMMA CreatedParent ==
    ASSUME NEW t \in Table, NEW s \in PartitionSpec, NEW columns \in SUBSET Columns,
           layout \in {"day", "_source"}, NEW u \in CreateParent(t, s, columns)
    PROVE /\ u \in Table /\ u.rows = t.rows /\ u.parts = t.parts
          /\ u.exists /\ u.default = t.default
  BY DEF CreateParent, Table

(* A specification that holds for a table is that of the settings, if any. *)
LEMMA EffectiveIs ==
    ASSUME NEW t, NEW s \in EffectiveSpec(t, spec), spec \in Specs \cup {NoSpec}
    PROVE s = NoSpec \/ s \in PartitionSpec
  BY TargetAssumption DEF EffectiveSpec, TargetAssumption

LEMMA SwapWrites ==
    ASSUME NEW t \in Table, NEW s, s = NoSpec \/ s \in PartitionSpec,
           NEW columns \in SUBSET Columns, NEW rows \in SUBSET Row,
           layout \in {"day", "_source"}, NEW u \in Swap(t, s, columns, rows)
    PROVE u \in Table /\ u.rows = rows
  <1>1. CASE ~t.exists /\ s = NoSpec
    BY <1>1 DEF Swap, Table
  <1>2. CASE t.exists \/ s # NoSpec
    <2> DEFINE parents == IF t.exists THEN {t} ELSE CreateParent(t, s, columns)
               readied(p) == IF s = NoSpec \/ p.by = "plain" THEN {p}
                             ELSE EnsureFromTable(p, s, rows)
    <2>1. PICK p \in parents :
             \E q \in readied(p) : u \in Insert([q EXCEPT !.rows = {}], rows)
      BY <1>2 DEF Swap
    <2>5. PICK q \in readied(p) : u \in Insert([q EXCEPT !.rows = {}], rows)
      BY <2>1
    <2>2. p \in Table
      BY <1>2, CreatedParent
    <2>3. q \in Table
      BY <2>2, EnsureFromTableAdds
    <2>4. [q EXCEPT !.rows = {}] \in Table /\ [q EXCEPT !.rows = {}].rows = {}
      BY <2>3 DEF Table
    <2> DEFINE empty == [q EXCEPT !.rows = {}]
    <2>6. empty \in Table /\ empty.rows = {} /\ u \in Insert(empty, rows)
      BY <2>4, <2>5
    <2> HIDE DEF empty
    <2> QED
      BY <2>6, InsertAdds
  <1> QED
    BY <1>1, <1>2

LEMMA ReplaceWrites ==
    ASSUME NEW t \in Table, NEW rows \in SUBSET Row, NEW u \in ReplaceByKey(t, rows)
    PROVE u \in Table /\ u.rows = {r \in t.rows : r.key \notin KeysOf(rows)} \cup rows
  <1> DEFINE kept == {r \in t.rows : r.key \notin KeysOf(rows)}
             rest == [t EXCEPT !.rows = kept]
  <1>1. rest \in Table /\ rest.rows = kept
    BY DEF Table
  <1>2. u \in Insert(rest, rows)
    BY DEF ReplaceByKey
  <1> HIDE DEF rest
  <1> QED
    BY <1>1, <1>2, InsertAdds

LEMMA UpsertWrites ==
    ASSUME NEW t \in Table, NEW s, s = NoSpec \/ s \in PartitionSpec,
           NEW rows \in SUBSET Row, NEW u \in Upsert(t, s, rows)
    PROVE u \in Table /\ u.rows = {r \in t.rows : r.key \notin KeysOf(rows)} \cup rows
  <1>1. CASE t.by = "plain"
    BY <1>1, ReplaceWrites DEF Upsert
  <1>2. CASE t.by # "plain"
    <2>1. PICK p \in (IF s = NoSpec THEN {t} ELSE EnsureFromTable(t, s, rows)) :
             u \in ReplaceByKey(p, rows)
      BY <1>2 DEF Upsert
    <2>2. p \in Table /\ p.rows = t.rows
      BY <2>1, EnsureFromTableAdds
    <2> QED
      BY <2>1, <2>2, ReplaceWrites
  <1> QED
    BY <1>1, <1>2

(* Rows of one label that are accepted into the rest of a sliced table.    *)
LEMMA SliceFilled ==
    ASSUME NEW t \in Table, Sliced(t), t.exists, NEW label \in Labels,
           NEW rest \in SUBSET t.rows, Left(t.rows, label, {}, rest),
           t.by = "plain" \/ (\E p \in t.parts : label \in p.takes)
              => rest = Others(t.rows, label),
           NEW rows \in SUBSET Row, \A r \in rows : r.value = label,
           NEW u \in Insert([t EXCEPT !.rows = rest], rows)
    PROVE u \in Table /\ Sliced(u) /\ Left(t.rows, label, rows, u.rows)
  <1> DEFINE c == [t EXCEPT !.rows = rest]
  <1>1. /\ c \in Table /\ Sliced(c) /\ c.rows = rest /\ c.parts = t.parts
        /\ c.by = t.by /\ c.exists = t.exists /\ c.default = t.default
    BY ThinnedIsSliced
  <1>2. u \in Insert(c, rows)
    OBVIOUS
  <1> HIDE DEF c
  <1>3. /\ u \in Table /\ u.rows = rest \cup rows /\ u.parts = t.parts
        /\ u.by = t.by /\ u.exists = t.exists /\ u.default = t.default
        /\ \A r \in rows : Accepts(c, r)
    <2>1. /\ u \in Table /\ u.rows = c.rows \cup rows /\ u.parts = c.parts
          /\ u.by = c.by /\ u.exists = c.exists /\ u.default = c.default
          /\ \A r \in rows : Accepts(c, r)
      <3>1. c \in Table
        BY <1>1
      <3> QED
        BY <1>2, <3>1, InsertAdds
    <2> QED
      BY <1>1, <2>1
  <1>4. t.by = "plain" \/ \A r \in rows : \E p \in t.parts : label \in p.takes
    BY <1>1, <1>3 DEF Accepts, Sliced
  <1>5. rows # {} => rest = Others(t.rows, label)
    BY <1>4
  <1>6. Left(t.rows, label, rows, u.rows)
    BY <1>3, <1>5 DEF Left, Others
  <1>7. Sliced(u)
    <2>1. t.by # "plain" => \A r \in u.rows : \E p \in t.parts : r.value \in p.takes
      BY <1>3, <1>4 DEF Sliced
    <2> QED
      BY <1>3, <2>1 DEF Sliced
  <1> QED
    BY <1>3, <1>6, <1>7

LEMMA SliceReplaced ==
    ASSUME NEW t \in Table, Sliced(t), t.exists, NEW label \in Labels,
           NEW rows \in SUBSET Row, \A r \in rows : r.value = label,
           NEW u \in ReplaceSlice(t, label, rows)
    PROVE u \in Table /\ Sliced(u) /\ Left(t.rows, label, rows, u.rows)
  <1>1. CASE t.by = "plain"
    <2> DEFINE rest == Others(t.rows, label)
    <2>1. u \in Insert([t EXCEPT !.rows = rest], rows)
      BY <1>1 DEF ReplaceSlice, DeleteSlice, Others
    <2>2. rest \in SUBSET t.rows /\ Left(t.rows, label, {}, rest)
      BY DEF Left, Others
    <2>3. t.by = "plain" \/ (\E p \in t.parts : label \in p.takes)
             => rest = Others(t.rows, label)
      OBVIOUS
    <2> HIDE DEF rest
    <2> QED
      BY <2>1, <2>2, <2>3, SliceFilled
  <1>2. CASE t.by # "plain"
    <2>1. PICK p \in EnsurePartitions(t, SourceSpec, {label}) :
             u \in Insert(TruncatePartition(p, label), rows)
      BY <1>2 DEF ReplaceSlice
    <2>2. /\ p \in Table /\ p.rows = t.rows /\ p.by # "plain" /\ p.exists /\ Sliced(p)
          /\ \E o \in p.parts : o.name = Name(SourceSpec, label)
      BY <1>2, EnsureSlice
    <2>3. PICK rest \in SUBSET p.rows :
             /\ TruncatePartition(p, label) = [p EXCEPT !.rows = rest]
             /\ Left(p.rows, label, {}, rest)
             /\ (\E o \in p.parts : label \in o.takes) => rest = Others(p.rows, label)
      BY <2>2, TruncateLeaves
    <2> QED
      BY <2>1, <2>2, <2>3, SliceFilled
  <1> QED
    BY <1>1, <1>2

LEMMA SliceWrites ==
    ASSUME NEW t \in Table, Sliced(t), NEW s, NEW columns \in SUBSET Columns,
           NEW label \in Labels, NEW rows \in SUBSET Row, \A r \in rows : r.value = label,
           layout \in {"day", "_source"}, NEW u \in Slice(t, s, columns, label, rows)
    PROVE u \in Table /\ Sliced(u) /\ Left(t.rows, label, rows, u.rows)
  <1> DEFINE new == [t EXCEPT !.exists = TRUE, !.columns = columns]
  <1>1. PICK p \in (IF t.exists THEN {t} ELSE {new} \cup CreateParent(t, SourceSpec, columns)) :
           u \in ReplaceSlice(p, label, rows)
    BY DEF Slice
  <1>2. /\ new \in Table /\ new.rows = t.rows /\ new.parts = t.parts
        /\ new.exists /\ new.default = t.default
    BY DEF Table
  <1>3. SourceSpec \in PartitionSpec
    BY DEF SourceSpec, PartitionSpec
  <1> HIDE DEF new
  <1>4. /\ p \in Table /\ p.rows = t.rows /\ p.parts = t.parts /\ p.exists
        /\ p.default = t.default
    <2>1. CASE p \in CreateParent(t, SourceSpec, columns)
      BY <2>1, <1>3, CreatedParent
    <2>2. CASE (t.exists /\ p = t) \/ p = new
      BY <2>2, <1>2
    <2> QED
      BY <1>1, <2>1, <2>2
  <1>5. p = t \/ p.rows = {}
    BY <1>1, <1>4 DEF Sliced
  <1>6. Sliced(p)
    BY <1>4, <1>5 DEF Sliced
  <1> QED
    BY <1>1, <1>4, <1>6, SliceReplaced

-----------------------------------------------------------------------------
(* What a run sends, and what it commits.                                  *)

LEMMA TypesFollow ==
    ASSUME Scalars, table \in Table, run \in Run
    PROVE TypeOK
  BY DEF Scalars, Table, Run, Part, Things, TypeOK

LEMMA ShadowIs ==
    ASSUME table \in Table, run \in Run
    PROVE ShadowColumns \subseteq Columns /\ run.columns \cup {"managed"} \subseteq Columns
  BY DEF ShadowColumns, Table, Run, Columns

(* The source has one row of a key.                                        *)
LEMMA PresentIs ==
    ASSUME Scalars
    PROVE Present \subseteq Row /\ Unique(Present)
  BY DEF Scalars, Present, Row, Unique

LEMMA SendableIs ==
    ASSUME Scalars, run \in Run, run.kind # "none", NEW rows \in Sendable
    PROVE rows \subseteq Row /\ Unique(rows)
          /\ (run.kind = "slice" => \A r \in rows : r.value = run.label)
  <1>1. rows \subseteq Present
    BY DEF Sendable, Run
  <1>2. run.kind = "slice" => rows = {r \in Present : r.value = run.label}
    BY DEF Sendable
  <1> QED
    BY <1>1, <1>2, PresentIs DEF Unique

LEMMA WrittenIs ==
    ASSUME IInv, pc = "write", NEW u \in Written
    PROVE u \in Table /\ Rewritten(u.rows) /\ (layout = "_source" => Sliced(u))
  <1>1. /\ table \in Table /\ table.rows = run.before /\ run \in Run /\ run.kind # "none"
        /\ run.staged \subseteq Row /\ layout \in {"day", "_source"}
        /\ layout = "_source" => Sliced(table)
    BY DEF IInv, RunInv, Run, Scalars
  <1>2. ShadowColumns \subseteq Columns
    BY <1>1, ShadowIs
  <1>3. PICK s \in EffectiveSpec(table, spec) :
           u \in CASE run.kind = "full" ->
                        Swap(table, IF run.staged = {} THEN NoSpec ELSE s, ShadowColumns, run.staged)
                   [] run.kind = "upsert" -> Upsert(table, s, run.staged)
                   [] run.kind = "slice" ->
                        Slice(table, s, ShadowColumns, run.label, run.staged)
    BY DEF Written
  <1>4. s = NoSpec \/ s \in PartitionSpec
    BY EffectiveIs DEF IInv, Scalars
  <1>5. CASE run.kind = "full"
    <2> DEFINE c == IF run.staged = {} THEN NoSpec ELSE s
    <2>1. u \in Swap(table, c, ShadowColumns, run.staged)
      BY <1>3, <1>5
    <2>2. c = NoSpec \/ c \in PartitionSpec
      BY <1>4
    <2>3. layout # "_source"
      BY <1>1, <1>5 DEF IInv, KindInv
    <2> HIDE DEF c
    <2>4. u \in Table /\ u.rows = run.staged
      BY <1>1, <1>2, <2>1, <2>2, SwapWrites
    <2> QED
      BY <1>5, <2>3, <2>4 DEF Rewritten
  <1>6. CASE run.kind = "upsert"
    <2>1. u \in Upsert(table, s, run.staged)
      BY <1>3, <1>6
    <2>2. layout # "_source"
      BY <1>1, <1>6 DEF IInv, KindInv
    <2>3. /\ u \in Table
          /\ u.rows = {r \in table.rows : r.key \notin KeysOf(run.staged)} \cup run.staged
      BY <1>1, <1>4, <2>1, UpsertWrites
    <2> QED
      BY <1>1, <1>6, <2>2, <2>3 DEF Rewritten
  <1>7. CASE run.kind = "slice"
    <2>1. u \in Slice(table, s, ShadowColumns, run.label, run.staged)
      BY <1>3, <1>7
    <2>2. layout = "_source" /\ run.label \in Labels
      BY <1>1, <1>7 DEF IInv, KindInv
    <2>3. u \in Table /\ Sliced(u) /\ Left(table.rows, run.label, run.staged, u.rows)
      <3> DEFINE shadow == ShadowColumns
                 label == run.label
                 rows == run.staged
      <3>1. /\ rows \in SUBSET Row /\ shadow \in SUBSET Columns /\ label \in Labels
            /\ table \in Table /\ Sliced(table) /\ layout \in {"day", "_source"}
            /\ \A r \in rows : r.value = label
        BY <1>1, <1>2, <1>7, <2>2 DEF IInv, KindInv
      <3>2. u \in Slice(table, s, shadow, label, rows)
        BY <2>1
      <3> HIDE DEF shadow, label, rows
      <3>3. u \in Table /\ Sliced(u) /\ Left(table.rows, label, rows, u.rows)
        BY ONLY <3>1, <3>2, SliceWrites
      <3> QED
        BY <3>3 DEF label, rows
    <2> QED
      BY <1>1, <1>7, <2>3 DEF Rewritten
  <1> QED
    BY <1>1, <1>5, <1>6, <1>7 DEF Run

LEMMA EmptiedIs ==
    ASSUME IInv, pc = "manage", run.kind = "slice", NEW u \in Emptied
    PROVE u \in Table /\ Rewritten(u.rows) /\ Sliced(u)
  <1>1. /\ table \in Table /\ table.rows = run.before /\ run \in Run /\ run.staged = {}
        /\ layout \in {"day", "_source"} /\ layout = "_source" /\ run.label \in Labels
        /\ Sliced(table)
    BY DEF IInv, RunInv, Run, Scalars, KindInv
  <1>2. Left(table.rows, run.label, {}, u.rows) => Rewritten(u.rows)
    BY <1>1 DEF Rewritten
  <1>3. CASE ~table.exists
    <2> DEFINE columns == run.columns \cup {"managed"}
               label == run.label
               none == {}
    <2>1. u \in Slice(table, spec, columns, label, none)
      BY <1>3 DEF Emptied
    <2>2. /\ columns \in SUBSET Columns /\ label \in Labels /\ none \in SUBSET Row
          /\ table \in Table /\ Sliced(table) /\ layout \in {"day", "_source"}
          /\ \A r \in none : r.value = label
      BY <1>1, ShadowIs
    <2> HIDE DEF columns, label, none
    <2>3. u \in Table /\ Sliced(u) /\ Left(table.rows, label, none, u.rows)
      BY ONLY <2>1, <2>2, SliceWrites
    <2> QED
      BY <1>2, <2>3 DEF label, none
  <1>4. CASE table.exists /\ table.by = "plain"
    <2>1. u = [table EXCEPT !.rows = Others(table.rows, run.label)]
      BY <1>4 DEF Emptied, DeleteSlice, Others
    <2>2. /\ Others(table.rows, run.label) \in SUBSET table.rows
          /\ Left(table.rows, run.label, {}, Others(table.rows, run.label))
      BY DEF Left, Others
    <2> QED
      BY <1>1, <1>2, <2>1, <2>2, ThinnedIsSliced
  <1>5. CASE table.exists /\ table.by # "plain"
    <2>1. PICK p \in EnsurePartitions(table, SourceSpec, {run.label}) :
             u = TruncatePartition(p, run.label)
      BY <1>5 DEF Emptied
    <2>2. /\ p \in Table /\ p.rows = table.rows /\ p.by # "plain" /\ Sliced(p)
          /\ \E o \in p.parts : o.name = Name(SourceSpec, run.label)
      BY <1>1, <1>5, <2>1, EnsureSlice
    <2>3. PICK rest \in SUBSET p.rows :
             /\ TruncatePartition(p, run.label) = [p EXCEPT !.rows = rest]
             /\ Left(p.rows, run.label, {}, rest)
      BY <1>1, <2>2, TruncateLeaves
    <2>4. u \in Table /\ Sliced(u) /\ u.rows = rest
      BY <2>1, <2>2, <2>3, ThinnedIsSliced
    <2> QED
      BY <1>2, <2>2, <2>3, <2>4
  <1> QED
    BY <1>3, <1>4, <1>5

(* Upserting one row of a key into rows with one of each leaves one.       *)
LEMMA RewrittenUnique ==
    ASSUME IInv, layout = "day", run.kind # "none", Unique(run.before), Unique(run.staged),
           NEW rows, Rewritten(rows)
    PROVE Unique(rows)
  <1>1. run.kind \in {"full", "upsert"}
    BY DEF IInv, Run, KindInv
  <1> QED
    BY <1>1 DEF Rewritten, Unique, KeysOf

-----------------------------------------------------------------------------
(* The invariant.                                                          *)

LEMMA InitIInv == Init => IInv
  <1> SUFFICES ASSUME Init PROVE IInv
    OBVIOUS
  <1> USE DEF Init
  <1>1. Scalars
    <2>1. source \in [Keys -> Days \cup Labels \cup {Null, Absent}]
      BY DEF Values
    <2>2. spec \in Specs \cup {NoSpec} /\ layout \in {"day", "_source"} /\ gained \in BOOLEAN
      OBVIOUS
    <2>3. edited \in 0..MaxEdits /\ moves \in 0..MaxMoves /\ runs \in 0..MaxRuns
      BY TargetAssumption DEF TargetAssumption
    <2>4. pc = "idle" /\ outcome = "none"
      OBVIOUS
    <2> HIDE DEF Init
    <2> QED
      BY <2>1, <2>2, <2>3, <2>4 DEF Scalars
  <1>2. table \in Table /\ table.rows = {} /\ table.parts = {} /\ table.default = FALSE
    <2>1. NoTable \in Table /\ NoTable.rows = {} /\ NoTable.parts = {}
          /\ NoTable.default = FALSE
      BY DEF NoTable, Table
    <2>2. LegacyTable \in Table /\ LegacyTable.rows = {} /\ LegacyTable.parts = {}
          /\ LegacyTable.default = FALSE
      BY <2>1 DEF LegacyTable, Table, Columns
    <2> QED
      BY <2>1, <2>2
  <1>3. run \in Run /\ run.kind = "none" /\ run.staged = {}
    BY DEF NoRun, Run
  <1>4. KindInv
    BY <1>3 DEF KindInv
  <1>5. RunInv
    BY <1>2 DEF RunInv, Sliced
  <1>6. UniqueInv
    BY <1>2, <1>3 DEF UniqueInv, Unique
  <1> QED
    BY <1>1, <1>2, <1>3, <1>4, <1>5, <1>6 DEF IInv

LEMMA StartKeeps ==
    ASSUME IInv, NEW kind \in {"full", "upsert", "slice"}, NEW label \in Labels \cup {Null},
           Start(kind, label)
    PROVE IInv'
  <1> USE DEF Start
  <1>1. Scalars'
    <2>1. runs' \in 0..MaxRuns
      BY TargetAssumption DEF IInv, Scalars, TargetAssumption
    <2>2. pc' = "manage" /\ outcome' = "none"
      OBVIOUS
    <2>3. UNCHANGED <<layout, source, gained, spec, edited, moves>>
      OBVIOUS
    <2> HIDE DEF Start
    <2> QED
      BY <2>1, <2>2, <2>3 DEF IInv, Scalars
  <1>2. table' = table /\ table' \in Table
    BY DEF IInv
  <1>3. /\ run' = [kind |-> kind, label |-> label, columns |-> Sent, staged |-> {},
                   before |-> table.rows]
        /\ table.rows \subseteq Row
    BY DEF IInv, Table
  <1>4. run' \in Run
    <2>1. Sent \subseteq Columns
      BY DEF Sent, Columns
    <2> QED
      BY <1>3, <2>1 DEF Run
  <1>5. KindInv'
    BY <1>3 DEF KindInv
  <1>6. RunInv'
    BY <1>2, <1>3 DEF IInv, RunInv
  <1>7. UniqueInv'
    BY <1>2, <1>3 DEF IInv, UniqueInv, Unique
  <1> QED
    BY <1>1, <1>2, <1>4, <1>5, <1>6, <1>7 DEF IInv

(* A step before the writing that leaves the rows and the partitions of    *)
(* the table, and what the run has staged.                                 *)
Prepares ==
    /\ pc \in {"manage", "adopt"} /\ pc' \in {"adopt", "stage"}
    /\ table' \in Table /\ table'.rows = table.rows /\ table'.parts = table.parts
    /\ UNCHANGED <<table.by, table.default, table.exists>>
    /\ run' \in Run /\ run'.kind = run.kind /\ run'.label = run.label
    /\ run'.staged = run.staged /\ run'.before = run.before
    /\ UNCHANGED <<layout, source, gained, spec, edited, moves, outcome, runs>>

LEMMA PreparingKeeps ==
    ASSUME IInv, Prepares
    PROVE IInv'
  <1> USE DEF Prepares
  <1>1. Scalars'
    BY DEF IInv, Scalars
  <1>2. KindInv'
    BY DEF IInv, KindInv
  <1>3. RunInv'
    BY DEF IInv, RunInv, Sliced
  <1>4. UniqueInv'
    BY DEF IInv, UniqueInv
  <1> QED
    BY <1>1, <1>2, <1>3, <1>4 DEF IInv

LEMMA ManageKeeps ==
    ASSUME IInv, Manage
    PROVE IInv'
  <1>1. /\ table' \in Table /\ table'.rows = table.rows /\ table'.parts = table.parts
        /\ UNCHANGED <<table.by, table.default, table.exists>>
    BY DEF Manage, IInv, Table, Columns
  <1>2. Prepares
    BY <1>1 DEF Manage, Prepares, IInv
  <1> QED
    BY <1>2, PreparingKeeps

LEMMA AdoptKeeps ==
    ASSUME IInv, Adopt
    PROVE IInv'
  <1>1. CASE /\ table' = AdoptNewSourceColumns(table, run.columns)
             /\ UNCHANGED run
    <2>1. /\ table' \in Table /\ table'.rows = table.rows /\ table'.parts = table.parts
          /\ UNCHANGED <<table.by, table.default, table.exists>>
      BY <1>1 DEF AdoptNewSourceColumns, IInv, Table, Run
    <2>2. Prepares
      BY <1>1, <2>1 DEF Adopt, Prepares, IInv
    <2> QED
      BY <2>2, PreparingKeeps
  <1>2. CASE /\ run' = [run EXCEPT !.columns = DropColumnsMissingInTarget(table, @)]
             /\ UNCHANGED table
    <2>1. /\ run' \in Run /\ run'.kind = run.kind /\ run'.label = run.label
          /\ run'.staged = run.staged /\ run'.before = run.before
      BY <1>2 DEF DropColumnsMissingInTarget, IInv, Run
    <2>2. Prepares
      BY <1>2, <2>1 DEF Adopt, Prepares, IInv
    <2> QED
      BY <2>2, PreparingKeeps
  <1> QED
    BY <1>1, <1>2 DEF Adopt

LEMMA StageKeeps ==
    ASSUME IInv, Stage
    PROVE IInv'
  <1>1. run.kind # "none" /\ run \in Run /\ Scalars
    BY DEF Stage, IInv, RunInv
  <1>2. PICK rows \in Sendable : run' = [run EXCEPT !.staged = rows]
    BY DEF Stage
  <1>3. /\ rows \subseteq Row /\ Unique(rows)
        /\ run.kind = "slice" => \A r \in rows : r.value = run.label
    BY <1>1, SendableIs
  <1>4. /\ run' \in Run /\ run'.kind = run.kind /\ run'.label = run.label
        /\ run'.staged = rows /\ run'.before = run.before
    BY <1>1, <1>2, <1>3 DEF Run
  <1>5. Scalars'
    BY DEF Stage, IInv, Scalars
  <1>6. KindInv'
    BY <1>3, <1>4 DEF Stage, IInv, KindInv
  <1>7. RunInv'
    BY <1>4 DEF Stage, IInv, RunInv
  <1>8. UniqueInv'
    BY <1>3, <1>4 DEF Stage, IInv, UniqueInv
  <1> QED
    BY <1>4, <1>5, <1>6, <1>7, <1>8 DEF Stage, IInv

(* A run that ends without a commit.                                       *)
LEMMA EndsWithoutCommit ==
    ASSUME IInv, pc # "idle", End("red") \/ End("fault"),
           UNCHANGED <<layout, source, gained, spec, edited, moves, table, run, runs>>
    PROVE IInv'
  <1>1. Scalars'
    BY DEF End, IInv, Scalars
  <1>2. KindInv'
    BY DEF IInv, KindInv
  <1>3. RunInv'
    BY DEF End, IInv, RunInv
  <1>4. UniqueInv'
    BY DEF IInv, UniqueInv
  <1> QED
    BY <1>1, <1>2, <1>3, <1>4 DEF IInv

(* And one that ends with it.                                              *)
LEMMA EndsWithCommit ==
    ASSUME IInv, pc # "idle", End("green"),
           NEW rows, table'.rows = rows, Rewritten(rows),
           table' \in Table, layout = "_source" => Sliced(table)',
           UNCHANGED <<layout, source, gained, spec, edited, moves, run, runs>>
    PROVE IInv'
  <1>1. Scalars'
    BY DEF End, IInv, Scalars
  <1>2. KindInv'
    BY DEF IInv, KindInv
  <1>3. Rewritten(table.rows)' /\ run.kind # "none"
    BY DEF Rewritten, IInv, RunInv
  <1>4. RunInv'
    BY <1>3 DEF End, IInv, RunInv
  <1>5. UniqueInv'
    <2> SUFFICES ASSUME layout = "day" PROVE Unique(rows) /\ Unique(run.staged)
      BY DEF UniqueInv
    <2>1. Unique(run.before) /\ Unique(run.staged)
      BY DEF IInv, UniqueInv, RunInv
    <2> QED
      BY <1>3, <2>1, RewrittenUnique
  <1> QED
    BY <1>1, <1>2, <1>4, <1>5 DEF IInv

LEMMA NextKeeps ==
    ASSUME IInv, [Next]_vars
    PROVE IInv'
  <1>1. ASSUME NEW kind \in {"full", "upsert", "slice"}, NEW label \in Labels \cup {Null},
               Start(kind, label)
        PROVE IInv'
    BY <1>1, StartKeeps
  <1>2. CASE Manage
    BY <1>2, ManageKeeps
  <1>3. CASE Adopt
    BY <1>3, AdoptKeeps
  <1>4. CASE EmptySource
    <2>1. table' \in Table /\ Rewritten(table'.rows) /\ Sliced(table')
      BY <1>4, EmptiedIs DEF EmptySource
    <2>2. pc # "idle" /\ End("green")
          /\ UNCHANGED <<layout, source, gained, spec, edited, moves, run, runs>>
      BY <1>4 DEF EmptySource
    <2>3. Sliced(table)'
      BY <2>1 DEF Sliced
    <2> QED
      BY <2>1, <2>2, <2>3, EndsWithCommit
  <1>5. CASE Stage
    BY <1>5, StageKeeps
  <1>6. CASE StageNothing
    BY <1>6, EndsWithoutCommit DEF StageNothing
  <1>7. CASE Write
    <2>1. table' \in Table /\ Rewritten(table'.rows) /\ (layout = "_source" => Sliced(table'))
      BY <1>7, WrittenIs DEF Write
    <2>2. pc # "idle" /\ End("green")
          /\ UNCHANGED <<layout, source, gained, spec, edited, moves, run, runs>>
      BY <1>7 DEF Write
    <2>3. layout = "_source" => Sliced(table)'
      BY <2>1 DEF Sliced
    <2> QED
      BY <2>1, <2>2, <2>3, EndsWithCommit
  <1>8. CASE Refused
    <2>1. pc # "idle"
      BY <1>8 DEF Refused
    <2> QED
      BY <1>8, <2>1, EndsWithoutCommit DEF Refused
  <1>9. CASE Fault
    BY <1>9, EndsWithoutCommit DEF Fault
  <1>10. ASSUME NEW k \in Keys, NEW v \in Values \cup {Absent}, Move(k, v)
         PROVE IInv'
    <2>1. /\ source' = [source EXCEPT ![k] = v] /\ moves < MaxMoves /\ moves' = moves + 1
          /\ UNCHANGED <<layout, gained, spec, edited, table, pc, run, outcome, runs>>
      BY <1>10 DEF Move
    <2>2. v \in Days \cup Labels \cup {Null, Absent}
      BY DEF Values
    <2>3. source' \in [Keys -> Days \cup Labels \cup {Null, Absent}]
      BY <2>1, <2>2 DEF IInv, Scalars
    <2>4. moves' \in 0..MaxMoves
      BY <2>1, TargetAssumption DEF IInv, Scalars, TargetAssumption
    <2>5. Scalars'
      BY <2>1, <2>3, <2>4 DEF IInv, Scalars
    <2> QED
      BY <2>1, <2>5 DEF IInv, KindInv, RunInv, Sliced, UniqueInv, Rewritten
  <1>11. CASE GainColumn
    <2>1. UNCHANGED <<layout, source, spec, edited, moves, table, pc, run, outcome, runs>>
      BY <1>11 DEF GainColumn
    <2>2. Scalars'
      BY <1>11 DEF GainColumn, IInv, Scalars
    <2> QED
      BY <2>1, <2>2 DEF IInv, KindInv, RunInv, Sliced, UniqueInv, Rewritten
  <1>12. ASSUME NEW s \in Specs \cup {NoSpec}, Edit(s)
         PROVE IInv'
    <2>1. UNCHANGED <<layout, source, gained, moves, table, pc, run, outcome, runs>>
          /\ spec' = s /\ edited < MaxEdits /\ edited' = edited + 1
      BY <1>12 DEF Edit
    <2>2. edited' \in 0..MaxEdits
      BY <2>1, TargetAssumption DEF IInv, Scalars, TargetAssumption
    <2>3. Scalars'
      BY <2>1, <2>2 DEF IInv, Scalars
    <2> QED
      BY <2>1, <2>3 DEF IInv, KindInv, RunInv, Sliced, UniqueInv, Rewritten
  <1>13. CASE UNCHANGED vars
    <2>1. UNCHANGED <<layout, source, gained, spec, edited, moves, table, pc, run, outcome, runs>>
      BY <1>13 DEF vars
    <2> QED
      BY <2>1 DEF IInv, Scalars, KindInv, RunInv, Sliced, UniqueInv, Rewritten
  <1> QED
    BY <1>1, <1>2, <1>3, <1>4, <1>5, <1>6, <1>7, <1>8, <1>9, <1>10, <1>11, <1>12, <1>13
       DEF Next

LEMMA InvariantHolds == Spec => []IInv
  <1>1. IInv /\ [Next]_vars => IInv'
    BY NextKeeps
  <1> QED
    BY <1>1, InitIInv, PTL DEF Spec

(* No key twice in a table partitioned by a date, whatever partition_by    *)
(* said when it was created, says now, and wherever its rows have moved.   *)
THEOREM KeysAreNotDoubled == Spec => []OneRowPerKey
  <1>1. IInv => OneRowPerKey
    BY DEF IInv, UniqueInv, Unique, OneRowPerKey
  <1> QED
    BY <1>1, InvariantHolds, PTL

(* A run writes its own rows, all of them and no others: the other keys,   *)
(* the other labels, and everything when it fails, are as they were; but a *)
(* slice whose source counts no row may empty that of a label with the     *)
(* same slug (partition_ref, clear_slice), and of no other.                *)
THEOREM RunWritesItsOwn ==
    ASSUME RealDays
    PROVE Spec => []TableInv
  <1>1. IInv => TypeOK
    BY TypesFollow DEF IInv
  <1>2. IInv => GreenRunHoldsStaged
    <2> SUFFICES ASSUME IInv, outcome = "green" PROVE GreenRunHoldsStaged
      BY DEF GreenRunHoldsStaged
    <2>1. run.kind \in {"full", "upsert", "slice"} /\ Rewritten(table.rows)
      BY DEF IInv, RunInv, Run
    <2>2. run.kind = "slice" => \A r \in run.staged : r.value = run.label
      BY DEF IInv, KindInv
    <2>3. CASE run.kind = "full"
      BY <2>1, <2>3 DEF Rewritten, GreenRunHoldsStaged
    <2>4. CASE run.kind = "upsert"
      BY <2>1, <2>4 DEF Rewritten, GreenRunHoldsStaged
    <2>5. CASE run.kind = "slice"
      BY <2>1, <2>2, <2>5 DEF Rewritten, Left, GreenRunHoldsStaged
    <2> QED
      BY <2>1, <2>3, <2>4, <2>5
  <1>3. IInv => OthersUntouched
    <2> SUFFICES ASSUME IInv, pc # "idle" \/ outcome # "none" PROVE OthersUntouched
      BY DEF OthersUntouched
    <2>1. CASE outcome # "green"
      <3>1. table.rows = run.before
        BY <2>1 DEF IInv, RunInv, Scalars
      <3> QED
        BY <2>1, <3>1 DEF OthersUntouched
    <2>2. CASE outcome = "green"
      <3>1. run.kind \in {"full", "upsert", "slice"} /\ Rewritten(table.rows)
        BY <2>2 DEF IInv, RunInv, Run
      <3>2. run.kind = "slice" => \A r \in run.staged : r.value = run.label
        BY <3>1 DEF IInv, KindInv
      <3>3. CASE run.kind = "full"
        BY <2>2, <3>3 DEF OthersUntouched
      <3>4. CASE run.kind = "upsert"
        BY <2>2, <3>1, <3>4 DEF OthersUntouched, Rewritten, KeysOf
      <3>5. CASE run.kind = "slice"
        BY <2>2, <3>1, <3>2, <3>5 DEF OthersUntouched, Rewritten, Left
      <3> QED
        BY <3>1, <3>3, <3>4, <3>5
    <2> QED
      BY <2>1, <2>2
  <1>4. PeriodsTile
    BY EveryPeriodTiles
  <1> QED
    BY <1>1, <1>2, <1>3, <1>4, InvariantHolds, PTL DEF TableInv

-----------------------------------------------------------------------------
(* Nothing is refused as long as partition_by is not edited: the rows of   *)
(* the table have the partitions one rule gives them, so a value either    *)
(* has its partition or belongs to none there is (Built).                  *)

(* The dates of a column are real, and its text tells them apart.          *)
SoundDates ==
    /\ \A d \in Days : d.day <= DaysInMonth(d.year, d.month)
    /\ \A v, w \in Days : SlugOf(v) = SlugOf(w) => v = w

(* The specification partitions are made by, and the values they are for.  *)
Ours == IF layout = "_source" THEN SourceSpec ELSE spec

Taken == IF layout = "day" THEN Days ELSE Labels

(* Every partition is the one of a value, and every row has its own.       *)
Ruled(t) ==
    /\ t.listed = (Ours.mode = "list")
    /\ \A p \in t.parts : \E v \in Taken : p.name = Name(Ours, v) /\ p.takes = Bounds(Ours, v)
    /\ \A r \in t.rows : r.value # Null =>
          r.value \in Taken /\ \E p \in t.parts : p.name = Name(Ours, r.value)

Built(t) == t.by = "plain" \/ (t.exists /\ spec # NoSpec /\ t.by = layout /\ Ruled(t))

Unbuilt(t) == ~t.exists => t.by = "plain" /\ t.parts = {} /\ t.rows = {}

AskedFor == spec = NoSpec \/ (spec \in PartitionSpec /\ spec.column = layout)

ColumnsInv ==
    /\ pc \in {"adopt", "stage"} /\ table.exists => "managed" \in table.columns
    /\ pc = "stage" /\ table.exists => run.columns \subseteq table.columns

ValuesInv ==
    /\ \A k \in Keys : source[k] \in Values \cup {Absent}
    /\ \A r \in run.staged : r.value \in Values

UneditedInv ==
    /\ ColumnsInv /\ ValuesInv
    /\ pc # "idle" /\ run.kind = "upsert" => table.exists
    /\ edited = 0 => AskedFor /\ Built(table) /\ Unbuilt(table)
    /\ RefusedOnlyWhenEdited

(* A date lies in the period of another when the two have one name.        *)
LEMMA DayMates ==
    ASSUME NEW v \in Date, v.day <= DaysInMonth(v.year, v.month),
           NEW w \in Date, w.day <= DaysInMonth(w.year, w.month)
    PROVE Within(w, PeriodBounds("range_day", v))
             <=> PeriodSuffix("range_day", w) = PeriodSuffix("range_day", v)
  <1> DEFINE n == PlusDays(v, 1)
  <1>1. /\ n \in Date
        /\ \/ v.day < DaysInMonth(v.year, v.month) /\ n = [v EXCEPT !.day = @ + 1]
           \/ v.month < 12 /\ n = [year |-> v.year, month |-> v.month + 1, day |-> 1]
           \/ v.month = 12 /\ n = [year |-> v.year + 1, month |-> 1, day |-> 1]
    BY ADayOn
  <1>2. PeriodBounds("range_day", v) = [from |-> v, to |-> n]
    BY DEF PeriodBounds, PeriodStart
  <1>3. /\ PeriodSuffix("range_day", v) = <<v.year, v.month, v.day>>
        /\ PeriodSuffix("range_day", w) = <<w.year, w.month, w.day>>
    BY DEF PeriodSuffix, PeriodStart
  <1>4. n # [v EXCEPT !.day = @ + 1] => v.day = DaysInMonth(v.year, v.month)
    <2>1. v.day >= DaysInMonth(v.year, v.month) => v.day = DaysInMonth(v.year, v.month)
      BY MonthLength DEF Date
    <2>2. v.day < DaysInMonth(v.year, v.month) => n = [v EXCEPT !.day = @ + 1]
      BY MonthLength DEF PlusDays, Date
    <2> QED
      BY <2>1, <2>2, MonthLength DEF Date
  <1> HIDE DEF n
  <1>5. CASE n = [v EXCEPT !.day = @ + 1]
    <2>1. Within(w, [from |-> v, to |-> n])
             <=> w.year = v.year /\ w.month = v.month /\ w.day = v.day
      BY <1>5 DEF Within, Before, Date
    <2> QED
      BY <1>2, <1>3, <2>1
  <1>6. CASE n # [v EXCEPT !.day = @ + 1]
    <2>1. w.year = v.year /\ w.month = v.month => w.day <= v.day
      BY <1>4, <1>6
    <2>2. Within(w, [from |-> v, to |-> n])
             <=> w.year = v.year /\ w.month = v.month /\ w.day = v.day
      BY <1>1, <1>6, <2>1 DEF Within, Before, Date
    <2> QED
      BY <1>2, <1>3, <2>2
  <1> QED
    BY <1>5, <1>6

(* The same of months.                                                     *)
LEMMA MonthMates ==
    ASSUME NEW v \in Date, NEW w \in Date
    PROVE Within(w, PeriodBounds("range_month", v))
             <=> PeriodSuffix("range_month", w) = PeriodSuffix("range_month", v)
  <1> DEFINE start == [year |-> v.year, month |-> v.month, day |-> 1]
             end == [year |-> IF v.month = 12 THEN v.year + 1 ELSE v.year,
                     month |-> IF v.month = 12 THEN 1 ELSE v.month + 1, day |-> 1]
  <1>1. /\ PeriodStart("range_month", v) = start
        /\ PeriodStart("range_month", w) = [year |-> w.year, month |-> w.month, day |-> 1]
    BY DEF PeriodStart, Date
  <1>2. PeriodBounds("range_month", v) = [from |-> start, to |-> end]
    BY <1>1, FirstOfNext DEF PeriodBounds, Date
  <1>3. /\ PeriodSuffix("range_month", v) = <<v.year, v.month>>
        /\ PeriodSuffix("range_month", w) = <<w.year, w.month>>
    BY <1>1 DEF PeriodSuffix
  <1>4. Within(w, [from |-> start, to |-> end]) <=> w.year = v.year /\ w.month = v.month
    BY DEF Within, Before, Date
  <1> QED
    BY <1>2, <1>3, <1>4

(* The same of years.                                                      *)
LEMMA YearMates ==
    ASSUME NEW v \in Date, NEW w \in Date
    PROVE Within(w, PeriodBounds("range_year", v))
             <=> PeriodSuffix("range_year", w) = PeriodSuffix("range_year", v)
  <1> DEFINE start == [year |-> v.year, month |-> 1, day |-> 1]
             end == [year |-> v.year + 1, month |-> 1, day |-> 1]
  <1>1. /\ PeriodStart("range_year", v) = start
        /\ PeriodStart("range_year", w) = [year |-> w.year, month |-> 1, day |-> 1]
    BY DEF PeriodStart, Date
  <1>2. PeriodBounds("range_year", v) = [from |-> start, to |-> end]
    BY <1>1 DEF PeriodBounds, Date
  <1>3. /\ PeriodSuffix("range_year", v) = <<v.year>>
        /\ PeriodSuffix("range_year", w) = <<w.year>>
    BY <1>1 DEF PeriodSuffix
  <1>4. Within(w, [from |-> start, to |-> end]) <=> w.year = v.year
    BY DEF Within, Before, Date
  <1> QED
    BY <1>2, <1>3, <1>4

(* The values a partition takes are those that give it its name.           *)
LEMMA TakesNamesakes ==
    ASSUME SoundDates, layout = "day",
           spec \in PartitionSpec, spec.column = layout,
           NEW v \in Taken, NEW w \in Taken
    PROVE w \in Bounds(Ours, v) <=> Name(Ours, w) = Name(Ours, v)
  <1>1. Ours \in PartitionSpec
    BY DEF Ours, SourceSpec, PartitionSpec
  <1>2. CASE Ours.mode = "list"
    <2>1. SlugOf(w) = SlugOf(v) => w = v
      BY DEF Taken, SoundDates
    <2> QED
      BY <1>2, <2>1 DEF Bounds, Name
  <1>3. CASE Ours.mode # "list"
    <2>1. layout = "day" /\ Ours.mode \in Modes
      BY <1>1, <1>3 DEF Ours, SourceSpec, PartitionSpec
    <2>2. /\ v \in Days /\ v \in Date /\ v.day <= DaysInMonth(v.year, v.month)
          /\ w \in Days /\ w \in Date /\ w.day <= DaysInMonth(w.year, w.month)
      BY <2>1, TargetAssumption DEF Taken, SoundDates, TargetAssumption
    <2>3. /\ Within(w, PeriodBounds(Ours.mode, w))
          /\ Within(w, PeriodBounds(Ours.mode, v))
                <=> PeriodSuffix(Ours.mode, w) = PeriodSuffix(Ours.mode, v)
      BY <2>1, <2>2, DayMates, MonthMates, YearMates DEF Modes
    <2> QED
      BY <1>3, <2>2, <2>3 DEF Bounds, Name
  <1> QED
    BY <1>2, <1>3

(* A partition takes values of the column only.                            *)
LEMMA BoundsTaken ==
    ASSUME layout \in {"day", "_source"}, spec \in PartitionSpec, spec.column = layout,
           NEW v \in Taken
    PROVE Bounds(Ours, v) \subseteq Taken
  BY DEF Bounds, Ours, Taken, SourceSpec

(* A table under the rule, and a specification that is asked for.          *)
LEMMA EnsureIsReady ==
    ASSUME SoundDates, layout = "day",
           spec \in PartitionSpec, spec.column = layout,
           NEW t \in Table, Ruled(t), NEW values \in SUBSET Taken
    PROVE EnsurePartitions(t, Ours, values) # {}
  <1> DEFINE there == {p.name : p \in t.parts}
             missing == {Name(Ours, v) : v \in values} \ there
             firsts == {g \in [missing -> values] : \A n \in missing : Name(Ours, g[n]) = n}
             new(g) == {[name |-> n, takes |-> Bounds(Ours, g[n])] : n \in missing}
             f == [n \in missing |-> CHOOSE v \in values : Name(Ours, v) = n]
  <1>1. \A n \in missing : f[n] \in values /\ Name(Ours, f[n]) = n
    OBVIOUS
  <1>2. f \in firsts
    BY <1>1
  <1> HIDE DEF f
  <1>3. ASSUME NEW p \in new(f)
        PROVE \E v \in Taken : /\ p = [name |-> Name(Ours, v), takes |-> Bounds(Ours, v)]
                               /\ p.name \notin there
    BY <1>1, <1>3
  <1>4. ASSUME NEW p \in t.parts
        PROVE \E v \in Taken : p = [name |-> Name(Ours, v), takes |-> Bounds(Ours, v)]
    <2>1. p \in Part
      BY DEF Table
    <2>2. PICK v \in Taken : p.name = Name(Ours, v) /\ p.takes = Bounds(Ours, v)
      BY DEF Ruled
    <2> QED
      BY <2>1, <2>2 DEF Part
  <1>5. \A v \in Taken : Bounds(Ours, v) # {}
    BY TakesNamesakes
  <1>6. ASSUME NEW p, NEW q, p # q,
               \E v \in Taken : p = [name |-> Name(Ours, v), takes |-> Bounds(Ours, v)],
               \E v \in Taken : q = [name |-> Name(Ours, v), takes |-> Bounds(Ours, v)]
        PROVE p.takes \cap q.takes = {}
    <2>1. PICK v \in Taken : p = [name |-> Name(Ours, v), takes |-> Bounds(Ours, v)]
      BY <1>6
    <2>2. PICK w \in Taken : q = [name |-> Name(Ours, w), takes |-> Bounds(Ours, w)]
      BY <1>6
    <2>3. Bounds(Ours, v) \subseteq Taken /\ Bounds(Ours, w) \subseteq Taken
      BY BoundsTaken
    <2>4. SUFFICES ASSUME NEW x \in Bounds(Ours, v), x \in Bounds(Ours, w) PROVE FALSE
      BY <2>1, <2>2
    <2>5. Name(Ours, v) = Name(Ours, x) /\ Name(Ours, w) = Name(Ours, x)
      BY <2>3, <2>4, TakesNamesakes
    <2>6. Bounds(Ours, v) = Bounds(Ours, w)
      BY <2>3, <2>5, TakesNamesakes
    <2> QED
      BY <1>6, <2>1, <2>2, <2>5, <2>6
  <1>7. ASSUME NEW r \in t.rows, NEW p \in new(f), r.value \in p.takes PROVE FALSE
    <2>1. PICK v \in Taken : /\ p = [name |-> Name(Ours, v), takes |-> Bounds(Ours, v)]
                             /\ p.name \notin there
      BY <1>3
    <2>2. r.value \in Taken /\ r.value # Null
      BY <1>7, <2>1, BoundsTaken, TargetAssumption DEF Taken, TargetAssumption
    <2>3. Name(Ours, r.value) = Name(Ours, v)
      BY <1>7, <2>1, <2>2, TakesNamesakes
    <2>4. Name(Ours, r.value) \in there
      BY <2>2 DEF Ruled
    <2> QED
      BY <2>1, <2>3, <2>4
  <1>8. Creatable(t, Ours, new(f))
    <2>1. t.listed = (Ours.mode = "list")
      BY DEF Ruled
    <2>2. \A p \in new(f) : p.takes # {}
      BY <1>3, <1>5
    <2>3. \A p \in new(f) : \A q \in t.parts \cup new(f) : p # q => p.takes \cap q.takes = {}
      BY <1>3, <1>4, <1>6
    <2> HIDE DEF new
    <2> QED
      BY <1>7, <2>1, <2>2, <2>3 DEF Creatable
  <1>9. f \in {g \in firsts : Creatable(t, Ours, new(g))}
    BY <1>2, <1>8
  <1>10. EnsurePartitions(t, Ours, values) =
            {[t EXCEPT !.parts = @ \cup new(g)] : g \in {h \in firsts : Creatable(t, Ours, new(h))}}
    BY DEF EnsurePartitions
  <1> HIDE DEF new, firsts
  <1> QED
    BY <1>9, <1>10

(* And the partitions that are added keep to the rule.                     *)
LEMMA EnsureKeepsRule ==
    ASSUME layout \in {"day", "_source"}, spec \in PartitionSpec, spec.column = layout,
           NEW t \in Table, Ruled(t), NEW values \in SUBSET Taken,
           NEW u \in EnsurePartitions(t, Ours, values)
    PROVE /\ u \in Table /\ u.rows = t.rows /\ u.by = t.by /\ u.exists = t.exists
          /\ u.default = t.default /\ u.columns = t.columns
          /\ Ruled(u)
          /\ \A v \in values : \E p \in u.parts : p.name = Name(Ours, v)
  <1>1. Ours \in PartitionSpec /\ values \in SUBSET Things
    BY DEF Ours, SourceSpec, PartitionSpec, Taken, Things
  <1>2. /\ u \in Table /\ u.rows = t.rows /\ u.by = t.by /\ t.parts \subseteq u.parts
        /\ \A v \in values : \E p \in u.parts : p.name = Name(Ours, v)
        /\ \A p \in u.parts : \/ p \in t.parts
                              \/ \E v \in values : /\ p.name = Name(Ours, v)
                                                   /\ p.takes = Bounds(Ours, v)
    BY <1>1, EnsureAdds
  <1>3. /\ u.exists = t.exists /\ u.default = t.default /\ u.columns = t.columns
        /\ u.listed = t.listed
    BY DEF EnsurePartitions, Table
  <1>4. \A p \in u.parts : \E v \in Taken : p.name = Name(Ours, v) /\ p.takes = Bounds(Ours, v)
    <2> SUFFICES ASSUME NEW p \in u.parts
                 PROVE \E v \in Taken : p.name = Name(Ours, v) /\ p.takes = Bounds(Ours, v)
      OBVIOUS
    <2>1. CASE p \in t.parts
      BY <2>1 DEF Ruled
    <2>2. CASE p \notin t.parts
      BY <1>2, <2>2
    <2> QED
      BY <2>1, <2>2
  <1>5. Ruled(u)
    BY <1>2, <1>3, <1>4 DEF Ruled
  <1> QED
    BY <1>2, <1>3, <1>5

(* Of dates, each value then has a partition that takes it.                *)
LEMMA EnsureTakes ==
    ASSUME SoundDates, layout = "day", spec \in PartitionSpec, spec.column = layout,
           NEW t \in Table, Ruled(t), NEW values \in SUBSET Taken,
           NEW u \in EnsurePartitions(t, Ours, values), NEW v \in values
    PROVE \E p \in u.parts : p.name = Name(Ours, v) /\ v \in p.takes
  <1>1. Ruled(u) /\ \E p \in u.parts : p.name = Name(Ours, v)
    BY EnsureKeepsRule
  <1>2. PICK p \in u.parts : p.name = Name(Ours, v)
    BY <1>1
  <1>3. PICK w \in Taken : p.name = Name(Ours, w) /\ p.takes = Bounds(Ours, w)
    BY <1>1 DEF Ruled
  <1>4. v \in Bounds(Ours, w)
    BY <1>2, <1>3, TakesNamesakes
  <1> QED
    BY <1>2, <1>3, <1>4

(* Of labels, the one that has no partition yet gets it.                   *)
LEMMA SliceIsReady ==
    ASSUME NEW t \in Table, Sliced(t), t.by # "plain", t.listed = TRUE, NEW label \in Labels
    PROVE EnsurePartitions(t, SourceSpec, {label}) # {}
  <1> DEFINE there == {p.name : p \in t.parts}
             missing == {Name(SourceSpec, v) : v \in {label}} \ there
             firsts == {g \in [missing -> {label}] : \A n \in missing : Name(SourceSpec, g[n]) = n}
             new(g) == {[name |-> n, takes |-> Bounds(SourceSpec, g[n])] : n \in missing}
             f == [n \in missing |-> label]
  <1>1. f \in firsts
    OBVIOUS
  <1>2. /\ Name(SourceSpec, label) = SlugOf(label) /\ Bounds(SourceSpec, label) = {label}
        /\ SourceSpec.mode = "list"
    BY DEF Name, Bounds, SourceSpec
  <1>3. ASSUME NEW p \in new(f)
        PROVE /\ p = [name |-> SlugOf(label), takes |-> {label}]
              /\ SlugOf(label) \notin there
    BY <1>2, <1>3
  <1>4. ASSUME NEW p \in t.parts, label \in p.takes PROVE SlugOf(label) \in there
    BY <1>4 DEF Sliced, PartOf
  <1>5. ASSUME NEW p \in new(f), NEW q \in t.parts \cup new(f), p # q
        PROVE p.takes \cap q.takes = {}
    <2>1. q \in t.parts /\ p.takes = {label}
      BY <1>3, <1>5
    <2> QED
      BY <1>3, <1>4, <2>1
  <1>6. ASSUME NEW r \in t.rows, NEW p \in new(f), r.value \in p.takes PROVE FALSE
    <2>1. r.value = label
      BY <1>3, <1>6
    <2>2. \E q \in t.parts : label \in q.takes
      BY <2>1 DEF Sliced
    <2> QED
      BY <1>3, <1>4, <2>2
  <1>7. ASSUME NEW p \in new(f) PROVE p.takes # {}
    BY <1>3
  <1> HIDE DEF new, f
  <1>8. Creatable(t, SourceSpec, new(f))
    BY <1>2, <1>5, <1>6, <1>7 DEF Creatable
  <1>9. f \in {g \in firsts : Creatable(t, SourceSpec, new(g))}
    BY <1>1, <1>8
  <1>10. EnsurePartitions(t, SourceSpec, {label}) =
           {[t EXCEPT !.parts = @ \cup new(g)] :
               g \in {h \in firsts : Creatable(t, SourceSpec, new(h))}}
    BY DEF EnsurePartitions, new
  <1> HIDE DEF firsts
  <1> QED
    BY <1>9, <1>10

(* Rows that are accepted go in, and nothing else of the table changes.    *)
LEMMA InsertIs ==
    ASSUME NEW t \in Table, NEW rows \in SUBSET Row
    PROVE /\ (\A r \in rows : Accepts(t, r)) => Insert(t, rows) # {}
          /\ \A u \in Insert(t, rows) :
               /\ u.rows = t.rows \cup rows
               /\ u.exists = t.exists /\ u.by = t.by /\ u.listed = t.listed /\ u.parts = t.parts
  BY DEF Insert, Table

(* The same of the partitions made from the staged rows: a row that is not *)
(* NULL is accepted, and NULL is if the specification asks for a default.  *)
LEMMA EnsureFromTableRules ==
    ASSUME SoundDates, layout = "day",
           spec \in PartitionSpec, spec.column = layout,
           NEW t \in Table, Ruled(t), NEW rows \in SUBSET Row,
           \A r \in rows : r.value \in Taken \cup {Null}
    PROVE /\ EnsureFromTable(t, spec, rows) # {}
          /\ \A u \in EnsureFromTable(t, spec, rows) :
               /\ u \in Table /\ u.rows = t.rows /\ u.by = t.by /\ u.exists = t.exists
               /\ u.columns = t.columns /\ Ruled(u)
               /\ spec.default => u.default
               /\ \A r \in rows : r.value # Null =>
                    \E p \in u.parts : p.name = Name(Ours, r.value) /\ r.value \in p.takes
  <1> DEFINE d == EnsureDefault(t, spec)
             values == {r.value : r \in rows} \ {Null}
  <1>1. Ours = spec /\ values \in SUBSET Taken
    BY DEF Ours
  <1>2. /\ d \in Table /\ d.rows = t.rows /\ d.by = t.by /\ d.exists = t.exists
        /\ d.columns = t.columns /\ d.listed = t.listed /\ d.parts = t.parts
        /\ spec.default => d.default
    BY DEF EnsureDefault, Table, PartitionSpec
  <1>3. Ruled(d)
    BY <1>2 DEF Ruled
  <1>4. EnsureFromTable(t, spec, rows) = EnsurePartitions(d, Ours, values)
    BY <1>1 DEF EnsureFromTable
  <1>5. EnsurePartitions(d, Ours, values) # {}
    BY <1>1, <1>2, <1>3, EnsureIsReady
  <1>6. ASSUME NEW u \in EnsurePartitions(d, Ours, values)
        PROVE /\ u \in Table /\ u.rows = d.rows /\ u.by = d.by /\ u.exists = d.exists
              /\ u.default = d.default /\ u.columns = d.columns /\ Ruled(u)
              /\ \A v \in values : \E p \in u.parts : p.name = Name(Ours, v) /\ v \in p.takes
    <2> HIDE DEF d, values
    <2>1. layout \in {"day", "_source"}
      OBVIOUS
    <2> QED
      BY <1>1, <1>2, <1>3, <2>1, EnsureKeepsRule, EnsureTakes
  <1>7. \A r \in rows : r.value # Null => r.value \in values
    OBVIOUS
  <1> HIDE DEF d, values
  <1> QED
    BY <1>2, <1>4, <1>5, <1>6, <1>7

(* A table that is created is empty, and under the rule.                   *)
LEMMA ParentIsRuled ==
    ASSUME layout \in {"day", "_source"}, spec \in PartitionSpec, spec.column = layout,
           NEW t \in Table, ~t.exists, Unbuilt(t), NEW columns \in SUBSET Columns
    PROVE \E p \in Table : /\ CreateParent(t, Ours, columns) = {p}
                           /\ p.exists /\ p.by = layout /\ p.rows = {} /\ p.columns = columns
                           /\ Ruled(p)
  <1> DEFINE p == [t EXCEPT !.exists = TRUE, !.by = Ours.column, !.listed = (Ours.mode = "list"),
                            !.columns = columns]
  <1>1. Ours.column = layout
    BY DEF Ours, SourceSpec
  <1>2. CreateParent(t, Ours, columns) = {p}
    BY <1>1 DEF CreateParent
  <1>3. /\ p \in Table /\ p.exists /\ p.by = layout /\ p.rows = {} /\ p.columns = columns
        /\ p.parts = {} /\ p.listed = (Ours.mode = "list")
    BY <1>1 DEF Table, Unbuilt
  <1>4. Ruled(p)
    BY <1>3 DEF Ruled
  <1> QED
    BY <1>2, <1>3, <1>4

(* The specification a run goes by: that of the settings, unless the table *)
(* is there and plain.                                                     *)
LEMMA EffectiveIsOurs ==
    ASSUME NEW t \in Table, AskedFor, Built(t)
    PROVE EffectiveSpec(t, spec) = {IF t.exists /\ t.by = "plain" THEN NoSpec ELSE spec}
  BY DEF EffectiveSpec, AskedFor, Built

(* NULL has somewhere to go, or is not there.                              *)
NullsFit(rows) == spec # NoSpec => spec.default \/ \A r \in rows : r.value # Null

Fitting(rows) == rows \subseteq Row /\ \A r \in rows : r.value \in Taken \cup {Null}

(* Rows into a table whose partitions have been made ready for them.       *)
LEMMA FilledIsBuilt ==
    ASSUME spec \in PartitionSpec, layout \in {"day", "_source"},
           NEW t \in Table, t.exists, t.by = layout, Ruled(t), NEW rows, Fitting(rows),
           \A r \in rows : r.value # Null => \E p \in t.parts : p.name = Name(Ours, r.value)
    PROVE /\ /\ t.default \/ \A r \in rows : r.value # Null
             /\ \A r \in rows : r.value # Null => \E p \in t.parts : r.value \in p.takes
             => Insert(t, rows) # {}
          /\ \A u \in Insert(t, rows) : u.exists /\ Built(u)
  <1>1. rows \in SUBSET Row
    BY DEF Fitting
  <1>2. /\ t.default \/ \A r \in rows : r.value # Null
        /\ \A r \in rows : r.value # Null => \E p \in t.parts : r.value \in p.takes
        => \A r \in rows : Accepts(t, r)
    BY DEF Accepts
  <1>3. ASSUME NEW u \in Insert(t, rows) PROVE u.exists /\ Built(u)
    <2>1. /\ u.rows = t.rows \cup rows
          /\ u.exists = t.exists /\ u.by = t.by /\ u.listed = t.listed /\ u.parts = t.parts
      BY <1>1, InsertIs
    <2>2. \A r \in u.rows : r.value # Null =>
             r.value \in Taken /\ \E p \in u.parts : p.name = Name(Ours, r.value)
      BY <2>1 DEF Ruled, Fitting
    <2>3. Ruled(u)
      BY <2>1, <2>2 DEF Ruled
    <2> QED
      BY <2>1, <2>3, TargetAssumption DEF Built, TargetAssumption
  <1> QED
    BY <1>1, <1>2, <1>3, InsertIs

(* A plain table takes everything.                                         *)
LEMMA PlainTakesAll ==
    ASSUME NEW t \in Table, t.by = "plain", t.exists, NEW rows \in SUBSET Row
    PROVE /\ Insert(t, rows) # {}
          /\ \A u \in Insert(t, rows) : u.exists /\ Built(u)
  BY InsertIs DEF Accepts, Built

(* A table that loses rows keeps the rule.                                 *)
LEMMA Cleared ==
    ASSUME NEW t \in Table, NEW rest \in SUBSET t.rows
    PROVE LET c == [t EXCEPT !.rows = rest]
          IN  /\ c \in Table /\ c.rows = rest
              /\ c.exists = t.exists /\ c.by = t.by /\ c.listed = t.listed
              /\ c.parts = t.parts /\ c.default = t.default /\ c.columns = t.columns
              /\ Ruled(t) => Ruled(c)
  BY DEF Table, Ruled

(* The shadow replaces a table of any kind.                                *)
LEMMA SwapBuilds ==
    ASSUME SoundDates, layout = "day", AskedFor,
           NEW t \in Table, Built(t), Unbuilt(t),
           NEW columns \in SUBSET Columns, t.exists => t.columns \subseteq columns,
           NEW rows, Fitting(rows),
           NEW s, s = NoSpec \/ s = spec,
           t.exists /\ t.by = "plain" => s = NoSpec,
           s = NoSpec /\ t.exists /\ t.by # "plain" => rows = {}
    PROVE /\ (s = NoSpec \/ NullsFit(rows)) => Swap(t, s, columns, rows) # {}
          /\ \A u \in Swap(t, s, columns, rows) : u.exists /\ Built(u)
  <1>0. rows \in SUBSET Row /\ {} \in SUBSET t.rows
    BY DEF Fitting
  <1>1. CASE ~t.exists /\ s = NoSpec
    <2>1. t.by = "plain"
      BY <1>1 DEF Unbuilt
    <2> QED
      BY <1>1, <2>1 DEF Swap, Built, Table
  <1>2. CASE t.exists /\ s = NoSpec
    <2> DEFINE c == [t EXCEPT !.rows = {}]
    <2>1. Swap(t, s, columns, rows) = Insert(c, rows)
      BY <1>2 DEF Swap
    <2>2. /\ c \in Table /\ c.exists /\ c.by = t.by /\ c.rows = {}
          /\ Ruled(t) => Ruled(c)
      BY <1>0, <1>2, Cleared
    <2> HIDE DEF c
    <2>3. CASE t.by = "plain"
      BY <1>0, <2>1, <2>2, <2>3, PlainTakesAll
    <2>4. CASE t.by # "plain"
      <3>1. rows = {} /\ spec \in PartitionSpec /\ layout = c.by /\ Ruled(c)
        BY <1>2, <2>2, <2>4 DEF Built, AskedFor
      <3>2. Fitting(rows)
        OBVIOUS
      <3> QED
        BY <2>1, <2>2, <3>1, <3>2, FilledIsBuilt
    <2> QED
      BY <2>3, <2>4
  <1>3. CASE s # NoSpec
    <2>1. s = spec /\ spec \in PartitionSpec /\ spec.column = layout /\ Ours = spec
      BY <1>3 DEF AskedFor, Ours
    <2>2. PICK p \in Table : /\ (IF t.exists THEN {t} ELSE CreateParent(t, s, columns)) = {p}
                             /\ p.exists /\ p.by = layout /\ p.columns \subseteq columns
                             /\ Ruled(p)
      <3>1. CASE t.exists
        BY <1>3, <3>1 DEF Built
      <3>2. CASE ~t.exists
        BY <2>1, <3>2, ParentIsRuled
      <3> QED
        BY <3>1, <3>2
    <2> DEFINE ready == EnsureFromTable(p, spec, rows)
               filled(q) == IF q.columns \subseteq columns
                            THEN Insert([q EXCEPT !.rows = {}], rows) ELSE {}
    <2>3. Swap(t, s, columns, rows) = UNION {filled(q) : q \in ready}
      <3> DEFINE parents == IF t.exists THEN {t} ELSE CreateParent(t, s, columns)
                 readied(o) == IF s = NoSpec \/ o.by = "plain" THEN {o}
                               ELSE EnsureFromTable(o, s, rows)
      <3>1. Swap(t, s, columns, rows) = UNION {filled(q) : q \in UNION {readied(o) : o \in parents}}
        BY <1>3 DEF Swap
      <3>2. parents = {p} /\ readied(p) = ready
        BY <1>3, <2>1, <2>2
      <3> HIDE DEF parents, readied, filled, ready
      <3>3. UNION {readied(o) : o \in parents} = ready
        BY <3>2
      <3> QED
        BY <3>1, <3>3
    <2>4. /\ ready # {}
          /\ \A q \in ready :
               /\ q \in Table /\ q.exists /\ q.by = layout /\ q.columns \subseteq columns
               /\ Ruled(q) /\ (spec.default => q.default)
               /\ \A r \in rows : r.value # Null =>
                    \E o \in q.parts : o.name = Name(Ours, r.value) /\ r.value \in o.takes
      BY <1>0, <2>1, <2>2, EnsureFromTableRules DEF Fitting
    <2> HIDE DEF ready
    <2>5. ASSUME NEW q \in ready
          PROVE /\ NullsFit(rows) => filled(q) # {}
                /\ \A u \in filled(q) : u.exists /\ Built(u)
      <3> DEFINE c == [q EXCEPT !.rows = {}]
      <3>1. {} \in SUBSET q.rows
        OBVIOUS
      <3>2. /\ c \in Table /\ c.exists /\ c.by = layout /\ Ruled(c) /\ c.parts = q.parts
            /\ c.default = q.default
        <4>1. q \in Table /\ q.exists /\ q.by = layout /\ Ruled(q)
          BY <2>4
        <4> QED
          BY <3>1, <4>1, Cleared
      <3>3. filled(q) = Insert(c, rows)
        BY <2>4
      <3>4. NullsFit(rows) => (c.default = TRUE \/ \A r \in rows : r.value # Null)
        <4>1. q.default \in BOOLEAN
          BY <2>4 DEF Table
        <4> QED
          BY <2>1, <2>4, <3>2, <4>1, <1>3 DEF NullsFit
      <3> HIDE DEF c, filled
      <3>5. \A r \in rows : r.value # Null =>
               \E o \in c.parts : o.name = Name(Ours, r.value) /\ r.value \in o.takes
        BY <2>4, <3>2
      <3> QED
        BY <2>1, <3>2, <3>3, <3>4, <3>5, FilledIsBuilt
    <2> HIDE DEF filled
    <2> QED
      BY <1>3, <2>3, <2>4, <2>5
  <1> QED
    BY <1>1, <1>2, <1>3

(* The staged rows go into the table by key.                               *)
LEMMA UpsertBuilds ==
    ASSUME SoundDates, layout = "day", AskedFor,
           NEW t \in Table, t.exists, Built(t), NEW rows, Fitting(rows),
           NEW s, s = IF t.by = "plain" THEN NoSpec ELSE spec
    PROVE /\ (t.by = "plain" \/ NullsFit(rows)) => Upsert(t, s, rows) # {}
          /\ \A u \in Upsert(t, s, rows) : u.exists /\ Built(u)
  <1> DEFINE left(q) == {r \in q.rows : r.key \notin KeysOf(rows)}
  <1>0. rows \in SUBSET Row /\ \A q : left(q) \in SUBSET q.rows
    BY DEF Fitting
  <1>1. CASE t.by = "plain"
    <2> DEFINE c == [t EXCEPT !.rows = left(t)]
    <2>1. Upsert(t, s, rows) = Insert(c, rows)
      BY <1>1 DEF Upsert, ReplaceByKey
    <2>2. c \in Table /\ c.exists /\ c.by = "plain"
      BY <1>0, <1>1, Cleared
    <2> HIDE DEF c
    <2> QED
      BY <1>0, <2>1, <2>2, PlainTakesAll
  <1>2. CASE t.by # "plain"
    <2>1. s = spec /\ spec # NoSpec /\ spec \in PartitionSpec /\ spec.column = layout
          /\ Ours = spec /\ t.by = layout /\ Ruled(t)
      BY <1>2 DEF AskedFor, Ours, Built
    <2> DEFINE ready == EnsureFromTable(t, spec, rows)
    <2>2. Upsert(t, s, rows) = UNION {ReplaceByKey(q, rows) : q \in ready}
      BY <1>2, <2>1 DEF Upsert
    <2>3. /\ ready # {}
          /\ \A q \in ready :
               /\ q \in Table /\ q.exists /\ q.by = layout
               /\ Ruled(q) /\ (spec.default => q.default)
               /\ \A r \in rows : r.value # Null =>
                    \E o \in q.parts : o.name = Name(Ours, r.value) /\ r.value \in o.takes
      BY <1>0, <2>1, EnsureFromTableRules DEF Fitting
    <2> HIDE DEF ready
    <2>4. ASSUME NEW q \in ready
          PROVE /\ NullsFit(rows) => ReplaceByKey(q, rows) # {}
                /\ \A u \in ReplaceByKey(q, rows) : u.exists /\ Built(u)
      <3> DEFINE c == [q EXCEPT !.rows = left(q)]
      <3>1. left(q) \in SUBSET q.rows
        BY <1>0
      <3>2. /\ c \in Table /\ c.exists /\ c.by = layout /\ Ruled(c) /\ c.parts = q.parts
            /\ c.default = q.default
        <4>1. q \in Table /\ q.exists /\ q.by = layout /\ Ruled(q)
          BY <2>3
        <4> HIDE DEF left
        <4> QED
          BY <3>1, <4>1, Cleared
      <3>3. ReplaceByKey(q, rows) = Insert(c, rows)
        BY DEF ReplaceByKey
      <3>4. NullsFit(rows) => (c.default = TRUE \/ \A r \in rows : r.value # Null)
        <4>1. q.default \in BOOLEAN
          BY <2>3 DEF Table
        <4> QED
          BY <2>1, <2>3, <3>2, <4>1 DEF NullsFit
      <3> HIDE DEF c
      <3>5. \A r \in rows : r.value # Null =>
               \E o \in c.parts : o.name = Name(Ours, r.value) /\ r.value \in o.takes
        BY <2>3, <3>2
      <3> QED
        BY <2>1, <3>2, <3>3, <3>4, <3>5, FilledIsBuilt
    <2> QED
      BY <1>2, <2>2, <2>3, <2>4
  <1> QED
    BY <1>1, <1>2

(* The rows of one label go into its slice.                                *)
LEMMA ReplaceSliceBuilds ==
    ASSUME layout = "_source", AskedFor,
           NEW t \in Table, t.exists, Built(t), Sliced(t), NEW label \in Labels,
           NEW rows, Fitting(rows), \A r \in rows : r.value = label
    PROVE /\ (\A p \in t.parts : p.name = SlugOf(label) => label \in p.takes)
                => ReplaceSlice(t, label, rows) # {}
          /\ \A u \in ReplaceSlice(t, label, rows) : u.exists /\ Built(u)
  <1>0. rows \in SUBSET Row /\ label \in Taken /\ label # Null
    BY TargetAssumption DEF Fitting, Taken, TargetAssumption
  <1>1. CASE t.by = "plain"
    <2> DEFINE c == DeleteSlice(t, label)
    <2>1. ReplaceSlice(t, label, rows) = Insert(c, rows)
      BY <1>1 DEF ReplaceSlice
    <2>2. c \in Table /\ c.exists /\ c.by = "plain"
      BY <1>1 DEF DeleteSlice, Table
    <2> HIDE DEF c
    <2> QED
      BY <1>0, <2>1, <2>2, PlainTakesAll
  <1>2. CASE t.by # "plain"
    <2>1. spec \in PartitionSpec /\ spec.column = layout
          /\ Ours = SourceSpec /\ t.by = layout /\ Ruled(t)
      BY <1>2 DEF AskedFor, Ours, Built
    <2> DEFINE ready == EnsurePartitions(t, SourceSpec, {label})
               free == \A p \in t.parts : p.name = SlugOf(label) => label \in p.takes
    <2>2. ReplaceSlice(t, label, rows) = UNION {Insert(TruncatePartition(q, label), rows) : q \in ready}
      BY <1>2 DEF ReplaceSlice
    <2>3. {label} \in SUBSET Taken /\ Name(SourceSpec, label) = SlugOf(label)
          /\ Bounds(SourceSpec, label) = {label}
      BY <1>0 DEF Name, Bounds, SourceSpec
    <2>4. ready # {}
      <3>1. t.listed = TRUE
        BY <2>1 DEF Ruled, SourceSpec
      <3> QED
        BY <1>2, <3>1, SliceIsReady
    <2>5. ASSUME NEW q \in ready
          PROVE /\ q \in Table /\ q.exists /\ q.by = layout /\ Ruled(q)
                /\ \E p \in q.parts : p.name = Name(Ours, label)
                /\ free => \E p \in q.parts : label \in p.takes
      <3>1. /\ q \in Table /\ q.by = t.by /\ q.exists = t.exists /\ Ruled(q)
            /\ \A v \in {label} : \E p \in q.parts : p.name = Name(Ours, v)
        BY <2>1, <2>3, EnsureKeepsRule
      <3>2. SourceSpec \in PartitionSpec /\ {label} \in SUBSET Things
        BY DEF SourceSpec, PartitionSpec, Things
      <3>3. \A p \in q.parts : p \in t.parts \/ p.takes = {label}
        BY <2>3, <3>2, EnsureAdds
      <3> QED
        BY <2>1, <2>3, <3>1, <3>3
    <2> HIDE DEF ready
    <2>6. ASSUME NEW q \in ready
          PROVE /\ free => Insert(TruncatePartition(q, label), rows) # {}
                /\ \A u \in Insert(TruncatePartition(q, label), rows) : u.exists /\ Built(u)
      <3> DEFINE rest == {r \in q.rows :
                            r.value \notin (CHOOSE p \in q.parts : p.name = Name(SourceSpec, label)).takes}
                 c == [q EXCEPT !.rows = rest]
      <3>1. rest \in SUBSET q.rows /\ q \in Table /\ q.exists /\ q.by = layout /\ Ruled(q)
        BY <2>5
      <3>2. TruncatePartition(q, label) = c
        BY DEF TruncatePartition
      <3> HIDE DEF rest
      <3>3. c \in Table /\ c.exists /\ c.by = layout /\ Ruled(c) /\ c.parts = q.parts
        BY <3>1, Cleared
      <3> HIDE DEF c
      <3>4. \A r \in rows : r.value # Null => \E o \in c.parts : o.name = Name(Ours, r.value)
        BY <2>5, <3>3
      <3>5. \A r \in rows : r.value # Null
        BY <1>0
      <3>6. free => \A r \in rows : r.value # Null => \E o \in c.parts : r.value \in o.takes
        BY <2>5, <3>3
      <3> HIDE DEF free
      <3> QED
        BY <2>1, <3>2, <3>3, <3>4, <3>5, <3>6, FilledIsBuilt
    <2> QED
      BY <2>2, <2>4, <2>6
  <1> QED
    BY <1>1, <1>2

(* A slice is written: the table is created first when there is none.      *)
LEMMA SliceBuilds ==
    ASSUME layout = "_source", AskedFor,
           NEW t \in Table, Built(t), Unbuilt(t), Sliced(t), NEW columns \in SUBSET Columns,
           NEW label \in Labels, NEW rows, Fitting(rows), \A r \in rows : r.value = label,
           NEW s, ~t.exists => s = spec
    PROVE /\ (\A p \in t.parts : p.name = SlugOf(label) => label \in p.takes)
                => Slice(t, s, columns, label, rows) # {}
          /\ \A u \in Slice(t, s, columns, label, rows) : u.exists /\ Built(u)
  <1> DEFINE parents == CASE t.exists -> {t}
                          [] ~t.exists /\ s = NoSpec ->
                               {[t EXCEPT !.exists = TRUE, !.columns = columns]}
                          [] OTHER -> CreateParent(t, SourceSpec, columns)
  <1>1. PICK p \in Table : /\ parents = {p} /\ p.exists /\ Built(p) /\ Sliced(p)
                           /\ p.parts = t.parts
    <2>1. CASE t.exists
      BY <2>1
    <2>2. CASE ~t.exists /\ s = NoSpec
      <3> DEFINE new == [t EXCEPT !.exists = TRUE, !.columns = columns]
      <3>1. /\ new \in Table /\ new.exists /\ new.by = "plain" /\ parents = {new}
            /\ new.parts = t.parts /\ new.default = t.default /\ new.rows = t.rows
        BY <2>2 DEF Unbuilt, Table
      <3> HIDE DEF new
      <3> QED
        BY <3>1 DEF Built, Sliced
    <2>3. CASE ~t.exists /\ s # NoSpec
      <3>1. spec \in PartitionSpec /\ spec.column = layout /\ Ours = SourceSpec /\ spec # NoSpec
        BY <2>3 DEF AskedFor, Ours
      <3>2. parents = CreateParent(t, Ours, columns)
        BY <2>3, <3>1
      <3>3. PICK p \in Table : /\ CreateParent(t, Ours, columns) = {p}
                               /\ p.exists /\ p.by = layout /\ Ruled(p) /\ p.rows = {}
        BY <2>3, <3>1, ParentIsRuled
      <3>4. p.parts = t.parts /\ p.default = t.default
        <4>1. SourceSpec \in PartitionSpec /\ layout \in {"day", "_source"}
          BY DEF SourceSpec, PartitionSpec
        <4>2. p \in CreateParent(t, SourceSpec, columns)
          BY <3>1, <3>3
        <4> QED
          BY <4>1, <4>2, CreatedParent
      <3> HIDE DEF parents
      <3> QED
        BY <3>1, <3>2, <3>3, <3>4 DEF Built, Sliced
    <2> QED
      BY <2>1, <2>2, <2>3
  <1>2. Slice(t, s, columns, label, rows) = UNION {ReplaceSlice(q, label, rows) : q \in parents}
    BY DEF Slice
  <1> HIDE DEF parents
  <1>3. Slice(t, s, columns, label, rows) = ReplaceSlice(p, label, rows)
    BY <1>1, <1>2
  <1> QED
    BY <1>1, <1>3, ReplaceSliceBuilds

(* The slice of a source that counts no row.                               *)
LEMMA EmptiedBuilds ==
    ASSUME IInv, UneditedInv, edited = 0,
           pc = "manage", run.kind = "slice", NEW u \in Emptied
    PROVE u.exists /\ Built(u)
  <1>1. /\ table \in Table /\ run \in Run /\ layout = "_source" /\ run.label \in Labels
        /\ AskedFor /\ Built(table) /\ Unbuilt(table) /\ Sliced(table)
    BY DEF IInv, KindInv, RunInv, UneditedInv
  <1>2. CASE ~table.exists
    <2> DEFINE columns == run.columns \cup {"managed"}
               label == run.label
               none == {}
    <2>1. columns \in SUBSET Columns /\ Fitting(none) /\ \A r \in none : r.value = label
      BY <1>1, ShadowIs DEF Fitting
    <2>2. u \in Slice(table, spec, columns, label, none) /\ label \in Labels
      BY <1>1, <1>2 DEF Emptied
    <2> HIDE DEF columns, label, none
    <2> QED
      BY <1>1, <2>1, <2>2, SliceBuilds
  <1>3. CASE table.exists /\ table.by = "plain"
    <2>1. u = DeleteSlice(table, run.label)
      BY <1>3 DEF Emptied
    <2> QED
      BY <1>1, <1>3, <2>1 DEF DeleteSlice, Table, Built
  <1>4. CASE table.exists /\ table.by # "plain"
    <2>1. PICK p \in EnsurePartitions(table, SourceSpec, {run.label}) :
             u = TruncatePartition(p, run.label)
      BY <1>4 DEF Emptied
    <2>2. spec \in PartitionSpec /\ spec.column = layout /\ spec # NoSpec
          /\ Ours = SourceSpec /\ table.by = layout /\ Ruled(table)
      BY <1>1, <1>4 DEF AskedFor, Ours, Built
    <2>3. {run.label} \in SUBSET Taken
      BY <1>1 DEF Taken
    <2>4. p \in Table /\ p.exists /\ p.by = layout /\ Ruled(p)
      BY <1>1, <1>4, <2>1, <2>2, <2>3, EnsureKeepsRule
    <2> DEFINE rest == {r \in p.rows :
                  r.value \notin (CHOOSE o \in p.parts : o.name = Name(SourceSpec, run.label)).takes}
    <2>5. u = [p EXCEPT !.rows = rest] /\ rest \in SUBSET p.rows
      BY <2>1 DEF TruncatePartition
    <2> HIDE DEF rest
    <2>6. u.exists /\ u.by = layout /\ Ruled(u)
      BY <2>4, <2>5, Cleared
    <2> QED
      BY <2>2, <2>6 DEF Built
  <1> QED
    BY <1>2, <1>3, <1>4

(* What a run commits, and that there is something to commit.              *)
LEMMA WrittenBuilds ==
    ASSUME SoundDates, IInv, UneditedInv, edited = 0, pc = "write"
    PROVE /\ NullsFit(run.staged) /\ ~(run.kind = "slice" /\ SlugTaken(run.label)) => Written # {}
          /\ \A u \in Written : u.exists /\ Built(u)
  <1> DEFINE rows == run.staged
             shadow == ShadowColumns
             label == run.label
             s == IF table.exists /\ table.by = "plain" THEN NoSpec ELSE spec
             c == IF rows = {} THEN NoSpec ELSE s
  <1>1. /\ table \in Table /\ run \in Run /\ run.kind # "none" /\ layout \in {"day", "_source"}
        /\ AskedFor /\ Built(table) /\ Unbuilt(table)
        /\ layout = "_source" <=> run.kind = "slice"
    BY DEF IInv, RunInv, Scalars, KindInv, UneditedInv
  <1>2. shadow \in SUBSET Columns /\ (table.exists => table.columns \subseteq shadow)
    BY <1>1, ShadowIs DEF ShadowColumns
  <1>3. Fitting(rows)
    <2>1. Values \subseteq Taken \cup {Null}
      BY DEF Values, Taken
    <2>2. rows \subseteq Row /\ \A r \in rows : r.value \in Values
      BY <1>1 DEF Run, UneditedInv, ValuesInv
    <2> QED
      BY <2>1, <2>2 DEF Fitting
  <1>4. EffectiveSpec(table, spec) = {s}
    BY <1>1, EffectiveIsOurs
  <1>5. Written = CASE run.kind = "full" -> Swap(table, c, shadow, rows)
                    [] run.kind = "upsert" -> Upsert(table, s, rows)
                    [] run.kind = "slice" -> Slice(table, s, shadow, label, rows)
    <2> HIDE DEF s, shadow, label, rows
    <2> QED
      BY <1>4 DEF Written, rows, shadow, label
  <1>6. CASE run.kind = "full"
    <2>1. Written = Swap(table, c, shadow, rows) /\ layout = "day"
      BY <1>1, <1>5, <1>6
    <2>2. /\ c = NoSpec \/ c = spec
          /\ table.exists /\ table.by = "plain" => c = NoSpec
          /\ c = NoSpec /\ table.exists /\ table.by # "plain" => rows = {}
      BY <1>1 DEF Built
    <2> HIDE DEF c, shadow, rows
    <2>3. /\ (c = NoSpec \/ NullsFit(rows)) => Swap(table, c, shadow, rows) # {}
          /\ \A u \in Swap(table, c, shadow, rows) : u.exists /\ Built(u)
      BY <1>1, <1>2, <1>3, <2>1, <2>2, SwapBuilds
    <2> QED
      BY <2>1, <2>3 DEF rows
  <1>7. CASE run.kind = "upsert"
    <2>1. Written = Upsert(table, s, rows) /\ layout = "day" /\ table.exists
      BY <1>1, <1>5, <1>7 DEF UneditedInv
    <2>2. s = IF table.by = "plain" THEN NoSpec ELSE spec
      BY <2>1
    <2> HIDE DEF s, rows
    <2>3. /\ (table.by = "plain" \/ NullsFit(rows)) => Upsert(table, s, rows) # {}
          /\ \A u \in Upsert(table, s, rows) : u.exists /\ Built(u)
      BY <1>1, <1>3, <2>1, <2>2, UpsertBuilds
    <2> QED
      BY <2>1, <2>3 DEF rows
  <1>8. CASE run.kind = "slice"
    <2>1. Written = Slice(table, s, shadow, label, rows) /\ layout = "_source"
      BY <1>1, <1>5, <1>8
    <2>2. label \in Labels /\ \A r \in rows : r.value = label
      BY <1>8 DEF IInv, KindInv
    <2>3. (~table.exists => s = spec) /\ Sliced(table)
      BY <2>1 DEF IInv, RunInv
    <2>4. ~SlugTaken(label) => \A p \in table.parts : p.name = SlugOf(label) => label \in p.takes
      BY DEF SlugTaken
    <2> HIDE DEF s, shadow, label, rows
    <2>5. /\ ~SlugTaken(label) => Slice(table, s, shadow, label, rows) # {}
          /\ \A u \in Slice(table, s, shadow, label, rows) : u.exists /\ Built(u)
      BY <1>1, <1>2, <1>3, <2>1, <2>2, <2>3, <2>4, SliceBuilds
    <2> QED
      BY <1>8, <2>1, <2>5 DEF label
  <1> QED
    BY <1>1, <1>6, <1>7, <1>8 DEF Run

-----------------------------------------------------------------------------
(* Step by step.                                                           *)

(* The rule is about partitions and rows, not about columns.               *)
LEMMA SameBuild ==
    ASSUME NEW t, NEW u, t.exists = u.exists, t.by = u.by, t.listed = u.listed,
           t.parts = u.parts, t.rows = u.rows
    PROVE (Built(t) => Built(u)) /\ (Unbuilt(t) => Unbuilt(u))
  BY DEF Built, Ruled, Unbuilt

(* The extractor's first run finds no table, or a plain one without rows.  *)
LEMMA UneditedStarts == Init => UneditedInv
  <1> SUFFICES ASSUME Init PROVE UneditedInv
    OBVIOUS
  <1>1. ColumnsInv /\ ValuesInv
    BY DEF Init, ColumnsInv, ValuesInv, NoRun
  <1>2. pc = "idle" /\ outcome = "none"
    BY DEF Init
  <1>3. AskedFor
    <2>1. spec = NoSpec \/ (spec \in Specs /\ spec.column = layout)
      BY DEF Init
    <2> QED
      BY <2>1, TargetAssumption DEF AskedFor, TargetAssumption
  <1>4. Built(table) /\ Unbuilt(table)
    <2>1. table \in {NoTable, LegacyTable}
      BY DEF Init
    <2>2. Built(LegacyTable) /\ Unbuilt(LegacyTable)
      <3>1. NoTable \in Table /\ NoTable.by = "plain"
        BY DEF NoTable, Table
      <3> QED
        BY <3>1 DEF LegacyTable, Table, Built, Unbuilt
    <2> QED
      BY <2>1, <2>2 DEF Built, Unbuilt, NoTable
  <1> QED
    BY <1>1, <1>2, <1>3, <1>4 DEF UneditedInv, RefusedOnlyWhenEdited

(* A step of a run that leaves what there is of partitions and rows.       *)
LEMMA PreparingStaysUnedited ==
    ASSUME IInv, UneditedInv, Manage \/ Adopt \/ Stage \/ (\E kind, label : Start(kind, label))
    PROVE UneditedInv'
  <1>1. /\ UNCHANGED <<layout, source, spec, edited>> /\ outcome' = "none"
        /\ table \in Table /\ run \in Run
    BY DEF Manage, Adopt, Stage, Start, IInv, RunInv
  <1>2. /\ table'.exists = table.exists /\ table'.by = table.by /\ table'.listed = table.listed
        /\ table'.parts = table.parts /\ table'.rows = table.rows
    BY <1>1 DEF Manage, Adopt, Stage, Start, AdoptNewSourceColumns, Table
  <1>3. ColumnsInv'
    <2>1. CASE Manage
      BY <1>1, <2>1 DEF Manage, ColumnsInv, Table
    <2>2. CASE Adopt
      BY <1>1, <2>2 DEF Adopt, AdoptNewSourceColumns, DropColumnsMissingInTarget, UneditedInv,
         ColumnsInv, Table, Run
    <2>3. CASE Stage \/ (\E kind, label : Start(kind, label))
      BY <2>3 DEF Stage, Start, ColumnsInv
    <2> QED
      BY <2>1, <2>2, <2>3
  <1>4. ValuesInv'
    <2>1. Values' = Values
      BY <1>1 DEF Values
    <2>2. \A r \in run'.staged : r.value \in Values
      <3>1. CASE Manage \/ Adopt
        BY <1>1, <3>1 DEF Manage, Adopt, UneditedInv, ValuesInv, Run
      <3>2. CASE \E kind, label : Start(kind, label)
        BY <3>2 DEF Start
      <3>3. CASE Stage
        <4>1. PICK rows \in Sendable : run' = [run EXCEPT !.staged = rows]
          BY <3>3 DEF Stage
        <4>2. rows \subseteq Present
          BY <1>1, <4>1, <3>3 DEF Sendable, Run, Stage, IInv, RunInv
        <4>3. \A r \in Present : r.value \in Values
          BY DEF Present, UneditedInv, ValuesInv
        <4> QED
          BY <1>1, <4>1, <4>2, <4>3 DEF Run
      <3> QED
        BY <3>1, <3>2, <3>3
    <2> QED
      BY <1>1, <2>1, <2>2 DEF UneditedInv, ValuesInv
  <1>5. run'.kind = "upsert" => table'.exists
    BY <1>1, <1>2 DEF Manage, Adopt, Stage, Start, UneditedInv, Run
  <1>6. edited' = 0 => AskedFor' /\ Built(table)' /\ Unbuilt(table)'
    <2>1. edited = 0 => AskedFor /\ Built(table') /\ Unbuilt(table')
      BY <1>2, SameBuild DEF UneditedInv
    <2>2. Built(table') => Built(table)'
      BY <1>1 DEF Built, Ruled, Ours, Taken
    <2> QED
      BY <1>1, <2>1, <2>2 DEF AskedFor, Unbuilt
  <1> QED
    BY <1>1, <1>3, <1>4, <1>5, <1>6 DEF UneditedInv, RefusedOnlyWhenEdited

(* A run that ends, and what it has committed.                             *)
LEMMA EndStaysUnedited ==
    ASSUME SoundDates, IInv, UneditedInv,
           EmptySource \/ StageNothing \/ Write \/ Refused \/ Fault
    PROVE UneditedInv'
  <1>1. /\ UNCHANGED <<layout, source, spec, edited, run>> /\ pc' = "idle"
    BY DEF EmptySource, StageNothing, Write, Refused, Fault, End
  <1>2. ColumnsInv' /\ ValuesInv'
    BY <1>1 DEF UneditedInv, ColumnsInv, ValuesInv, Values
  <1>3. edited' = 0 => AskedFor' /\ Built(table)' /\ Unbuilt(table)'
    <2> SUFFICES ASSUME edited = 0 PROVE AskedFor /\ Built(table') /\ Unbuilt(table')
      BY <1>1 DEF AskedFor, Built, Unbuilt, Ruled, Ours, Taken
    <2>1. CASE EmptySource
      BY <2>1, EmptiedBuilds DEF EmptySource, UneditedInv, Unbuilt
    <2>2. CASE Write
      BY <2>2, WrittenBuilds DEF Write, UneditedInv, Unbuilt
    <2>3. CASE StageNothing \/ Refused \/ Fault
      BY <2>3 DEF StageNothing, Refused, Fault, UneditedInv
    <2> QED
      BY <2>1, <2>2, <2>3
  <1>4. RefusedOnlyWhenEdited'
    <2>1. CASE Refused
      <3>1. ShadowHasColumns \/ pc # "stage"
        BY DEF UneditedInv, ColumnsInv, ShadowHasColumns, ShadowColumns
      <3>2. pc = "write" /\ Written = {}
        BY <2>1, <3>1 DEF Refused
      <3>3. edited = 0 => /\ AskedFor
                          /\ ~NullsFit(run.staged) \/ (run.kind = "slice" /\ SlugTaken(run.label))
        BY <3>2, WrittenBuilds DEF UneditedInv
      <3>4. edited \in Nat
        BY DEF IInv, Scalars
      <3> QED
        BY <1>1, <2>1, <3>3, <3>4 DEF Refused, NullsFit, AskedFor, RefusedOnlyWhenEdited, SlugTaken
    <2>2. CASE EmptySource \/ StageNothing \/ Write \/ Fault
      BY <2>2 DEF EmptySource, StageNothing, Write, Fault, End, RefusedOnlyWhenEdited
    <2> QED
      BY <2>1, <2>2
  <1> QED
    BY <1>1, <1>2, <1>3, <1>4 DEF UneditedInv

(* Between the runs: the source moves, and partition_by is edited.         *)
LEMMA OutsideStaysUnedited ==
    ASSUME IInv, UneditedInv,
           \/ \E k \in Keys, v \in Values \cup {Absent} : Move(k, v)
           \/ GainColumn \/ (\E s \in Specs \cup {NoSpec} : Edit(s)) \/ UNCHANGED vars
    PROVE UneditedInv'
  <1>1. UNCHANGED <<layout, table, pc, run, outcome>>
    BY DEF Move, GainColumn, Edit, vars
  <1>2. ColumnsInv'
    BY <1>1 DEF UneditedInv, ColumnsInv
  <1>3. ValuesInv'
    <2>1. \A k \in Keys : source'[k] \in Values \cup {Absent}
      <3>1. CASE \E k \in Keys, v \in Values \cup {Absent} : Move(k, v)
        BY <3>1 DEF Move, IInv, Scalars, UneditedInv, ValuesInv
      <3>2. CASE UNCHANGED source
        BY <3>2 DEF UneditedInv, ValuesInv
      <3> QED
        BY <3>1, <3>2 DEF GainColumn, Edit, vars
    <2> QED
      BY <1>1, <2>1 DEF UneditedInv, ValuesInv, Values
  <1>4. edited \in Nat /\ (UNCHANGED <<edited, spec>> \/ edited' = edited + 1)
    BY DEF Move, GainColumn, Edit, vars, IInv, Scalars
  <1>5. edited' = 0 => edited = 0 /\ UNCHANGED spec
    BY <1>4
  <1>6. edited' = 0 => AskedFor' /\ Built(table)' /\ Unbuilt(table)'
    BY <1>1, <1>5 DEF UneditedInv, AskedFor, Built, Unbuilt, Ruled, Ours, Taken
  <1>7. RefusedOnlyWhenEdited'
    BY <1>1, <1>4 DEF UneditedInv, RefusedOnlyWhenEdited, SlugTaken
  <1> QED
    BY <1>1, <1>2, <1>3, <1>6, <1>7 DEF UneditedInv

(* A run over a table built with the same partition_by is never refused,   *)
(* whatever dates, columns and NULLs the source comes up with, unless a    *)
(* NULL has no catch-all partition (ensure_partitions_from_table) or the   *)
(* partition of a label's slug is another label's (partition_ref).         *)
THEOREM NothingIsRefused ==
    ASSUME SoundDates
    PROVE Spec => []RefusedOnlyWhenEdited
  <1>1. IInv /\ UneditedInv /\ [Next]_vars => UneditedInv'
    BY PreparingStaysUnedited, EndStaysUnedited, OutsideStaysUnedited DEF Next
  <1>2. UneditedInv => RefusedOnlyWhenEdited
    BY DEF UneditedInv
  <1>3. Spec => []UneditedInv
    BY <1>1, UneditedStarts, InvariantHolds, PTL DEF Spec
  <1> QED
    BY <1>2, <1>3, PTL

=============================================================================
