------------------------------- MODULE Golden -------------------------------
(***************************************************************************)
(* The golden test (golden/compare.py): a manifest of table pairs, the left *)
(* one written by the predecessor and the right one by this package, each   *)
(* compared on five levels.  The levels are separate statements of an       *)
(* autocommit session, so a pipeline that runs meanwhile may replace the    *)
(* right table between any two of them (Arrive), and any statement may fail *)
(* (QueryFails).  md5 is taken for injective, and a cell for a number, its  *)
(* text being the number and how its type spells it.                       *)
(***************************************************************************)
EXTENDS Integers, FiniteSetsExt, SequencesExt

CONSTANTS
    Null,
    Cases,       \* [left |-> layout, right |-> layout, options |-> options]
    LeftRows,    \* what the left table may hold: sequences of rows
    RightRows,   \* what the right table may hold
    Arrivals,    \* tables a running pipeline may put in the right one's place
    MaxArrivals, \* bound: how often it does so in one comparison
    Entries      \* bound: the table pairs of the manifest

\* The columns of a table have one name and one type each.
IsLayout(table) ==
    /\ table.cols \in Seq(STRING) /\ IsInjective(table.cols)
    /\ table.types = [c \in ToSet(table.cols) |-> table.types[c]]

\* Every row has every column, and a cell is a number unless it is empty.
HoldNumbers(rows, cols) ==
    \A row \in ToSet(rows), c \in ToSet(cols) : row[c] = Null \/ row[c] \in Int

ASSUME GoldenAssumption ==
    /\ Entries \in Nat \ {0} /\ MaxArrivals \in Nat
    /\ \A case \in Cases : IsLayout(case.left) /\ IsLayout(case.right)
    /\ \A rows \in LeftRows \cup RightRows : rows \in Seq(ToSet(rows))
    /\ \A case \in Cases : /\ \A rows \in LeftRows : HoldNumbers(rows, case.left.cols)
                           /\ \A rows \in RightRows : HoldNumbers(rows, case.right.cols)

VARIABLES
    left, right, \* tables: [exists, cols, types, key, rows]
    options,     \* CompareOptions
    seen,        \* _Context.left_columns and right_columns, as introspected
    levels,      \* TableReport.levels
    error,       \* TableReport.error is set
    verdicts,    \* the verdicts of BatchReport.reports
    arrivals,    \* how often the right table was replaced in this comparison
    pc

goldenVars == <<left, right, options, seen, levels, error, verdicts, arrivals, pc>>

Volatile == {"_timestamp"}
HashColumn == "row_hash"
Managed == {"row_hash", "_timestamp", "_deleted_in_source", "_source"}
Mandatory == {"row_hash", "_timestamp", "_deleted_in_source"}
Inferred == "text"
Prefixed(c) == c \in {"_date", "_timestamp", "_deleted_in_source", "_source"}

NoTable == [exists |-> FALSE, cols |-> <<>>, types |-> <<>>, key |-> <<>>, rows |-> <<>>]
NoOptions == [key |-> <<>>, skipRowLevel |-> FALSE, asText |-> FALSE]
NothingSeen == [leftCols |-> <<>>, rightCols |-> <<>>, leftTypes |-> <<>>, rightTypes |-> <<>>]

Table(layout, rows) ==
    [exists |-> layout.exists, cols |-> layout.cols, types |-> layout.types,
     key |-> layout.key, rows |-> rows]

-----------------------------------------------------------------------------
(* What a level says, and which differences are accepted                   *)

Passed(n) == [level |-> n, passed |-> TRUE, skipped |-> FALSE, approximate |-> FALSE,
              deviations |-> {}]
Failed(n) == [Passed(n) EXCEPT !.passed = FALSE]
Skipped(n) == [Passed(n) EXCEPT !.skipped = TRUE]

Difference(what, l, r, where) == [what |-> what, left |-> l, right |-> r, where |-> where]

DeletedInSourceNullability(d) ==
    /\ d.where = "_deleted_in_source"
    /\ d.left = [base |-> "boolean", null |-> TRUE]
    /\ d.right = [base |-> "boolean", null |-> FALSE]

ReservedColumnLostItsType(d) ==
    /\ Prefixed(d.where) /\ d.where # "_deleted_in_source"
    /\ d.left.base = Inferred /\ d.right.base # Inferred
    /\ d.left.null = d.right.null

\* Mutant of MandatoryColumnAdded: any column the package adds.
ManagedColumnAdded(d) == d.what = "surplus" /\ d.right \in Managed

MandatoryColumnAdded(d) == d.what = "surplus" /\ d.right \in Mandatory


ManagedColumnsReordered(d) ==
    d.what = "order" /\ d.left \in Managed /\ d.right \in Managed

Accepted(level, d) ==
    \/ level = 3 /\ (DeletedInSourceNullability(d) \/ ReservedColumnLostItsType(d))
    \/ level = 2 /\ (MandatoryColumnAdded(d) \/ ManagedColumnsReordered(d))

\* A level whose differences are all accepted has passed after all.
AcceptDeviations(n, differences) ==
    LET accepted == {d \in differences : Accepted(n, d)} IN
    [Passed(n) EXCEPT !.passed = differences \subseteq accepted, !.deviations = accepted]

FirstFailedLevel(results) ==
    LET broken == {r \in ToSet(results) : ~r.passed /\ ~r.skipped} IN
    IF broken = {} THEN 0 ELSE Min({r.level : r \in broken})

Verdict ==
    CASE error -> "ERROR"
      [] ~error /\ FirstFailedLevel(levels) # 0 -> "DIFF"
      [] ~error /\ FirstFailedLevel(levels) = 0 /\ (\E r \in ToSet(levels) : r.deviations # {})
            -> "MATCH*"
      [] OTHER -> "MATCH"

\* Mutant of BatchVerdict: the last pair decides.
LastVerdict(reports) == IF Last(reports) \in {"ERROR", "DIFF"} THEN Last(reports) ELSE "MATCH"

\* BatchReport.verdict, and the exit code of `dbx-golden batch`.
BatchVerdict(reports) ==
    IF "ERROR" \in ToSet(reports) THEN "ERROR"
    ELSE IF "DIFF" \in ToSet(reports) THEN "DIFF" ELSE "MATCH"

ExitCode(verdict) == CASE verdict = "MATCH" -> 0 [] verdict = "DIFF" -> 1 [] OTHER -> 2

-----------------------------------------------------------------------------
(* The columns that are compared, as compare_tables sorts them             *)

Common == ToSet(seen.leftCols) \cap ToSet(seen.rightCols)
SameType(c) == seen.leftTypes[c] = seen.rightTypes[c]
TypeMismatch == {c \in Common \ Volatile : ~SameType(c)}
TextCoerced == IF options.asText THEN TypeMismatch ELSE {}
\* Mutant of Comparable: when the row was loaded is compared, too.
ComparableAndVolatile == {c \in Common : SameType(c)} \cup TextCoerced

Comparable == {c \in Common \ Volatile : SameType(c)} \cup TextCoerced

\* Mutant of NameDifferences: the sets are compared, not the sequences.
NameSetDifferences(l, r) ==
    {Difference("missing", c, Null, c) : c \in ToSet(l) \ ToSet(r)} \cup
    {Difference("surplus", Null, c, c) : c \in ToSet(r) \ ToSet(l)}

NameDifferences(l, r) ==
    LET missing == {Difference("missing", c, Null, c) : c \in ToSet(l) \ ToSet(r)}
        surplus == {Difference("surplus", Null, c, c) : c \in ToSet(r) \ ToSet(l)}
        moved == {i \in DOMAIN l : ToSet(l) = ToSet(r) /\ l[i] # r[i]}
    IN  missing \cup surplus \cup {Difference("order", l[i], r[i], Null) : i \in moved}

TypeDifferences ==
    {Difference("type", seen.leftTypes[c], seen.rightTypes[c], c) :
        c \in {x \in Common : ~SameType(x)}}

AsText(v, type) == <<v, IF v # Null /\ type.base = "numeric" THEN "scaled" ELSE "plain">>
TextOf(table, row, cols) == [c \in cols |-> AsText(row[c], table.types[c])]

\* One column's aggregates: sums and extremes of a number, and of any other
\* type the sum of its texts' digests, which forgets only their order.
Checksum(table, c) ==
    LET filled == {i \in DOMAIN table.rows : table.rows[i][c] # Null}
        values == {table.rows[i][c] : i \in filled}
        texts == {AsText(v, table.types[c]) : v \in values}
        number == seen.leftTypes[c].base \in {"integer", "numeric"} /\ c \notin TextCoerced
    IN  [nulls |-> Len(table.rows) - Cardinality(filled),
         numbers |-> IF number /\ filled # {}
                     THEN <<MapThenSumSet(LAMBDA i : table.rows[i][c], filled),
                            Min(values), Max(values)>>
                     ELSE <<>>,
         digest |-> [t \in IF number THEN {} ELSE texts |->
                       Cardinality({i \in filled : AsText(table.rows[i][c], table.types[c]) = t})]]


KeyColumns == IF options.key # <<>> THEN options.key ELSE left.key
Payload == (Comparable \ ToSet(KeyColumns)) \ {HashColumn}
Stored == Common \cap {HashColumn}

SameKey(l, r) == TextOf(left, l, ToSet(KeyColumns)) = TextOf(right, r, ToSet(KeyColumns))
StoredDiffers(l, r) == \E c \in Stored : l[c] # r[c]
ContentDiffers(l, r) == TextOf(left, l, Payload) # TextOf(right, r, Payload)

\* Mutant of RowsAgree: the join on the key is an inner one.
RowsAgreeInner ==
    \A l \in ToSet(left.rows), r \in ToSet(right.rows) :
        SameKey(l, r) => ~StoredDiffers(l, r) /\ ~ContentDiffers(l, r)

\* The counts of the FULL OUTER JOIN on the key are all zero.
RowsAgree ==
    LET L == ToSet(left.rows)
        R == ToSet(right.rows)
    IN  /\ \A l \in L : \E r \in R : SameKey(l, r)
        /\ \A r \in R : \E l \in L : SameKey(l, r)
        /\ \A l \in L, r \in R : SameKey(l, r) => ~StoredDiffers(l, r) /\ ~ContentDiffers(l, r)

Answers(cols) == right.exists /\ cols \subseteq ToSet(right.cols)

-----------------------------------------------------------------------------
GoldenInit ==
    /\ left = NoTable /\ right = NoTable /\ options = NoOptions
    /\ seen = NothingSeen /\ levels = <<>> /\ error = FALSE /\ verdicts = <<>>
    /\ arrivals = 0 /\ pc = "next"

Goto(result, next) ==
    /\ levels' = Append(levels, result)
    /\ pc' = next

TablesAlone == UNCHANGED <<left, right, options, verdicts, arrivals>>

Existence ==
    /\ pc = "existence"
    /\ IF left.exists /\ right.exists
       THEN pc' = "count" /\ UNCHANGED levels
       ELSE /\ levels' = <<Failed(1)>> \o
                         [i \in 1..4 |-> [Skipped(i + 1) EXCEPT !.passed = FALSE]]
            /\ pc' = "done"
    /\ UNCHANGED <<seen, error>> /\ TablesAlone

RowCount ==
    /\ pc = "count" /\ Answers({})
    /\ Goto(IF Len(left.rows) = Len(right.rows) THEN Passed(1) ELSE Failed(1), "columns")
    /\ UNCHANGED <<seen, error>> /\ TablesAlone

\* The catalogue answers for a table that is gone, too: with no columns.
Columns ==
    /\ pc = "columns"
    /\ seen' = [leftCols |-> left.cols, leftTypes |-> left.types,
                rightCols |-> right.cols, rightTypes |-> right.types]
    /\ pc' = "names"
    /\ UNCHANGED <<levels, error>> /\ TablesAlone

\* Mutant of ColumnNames: the comparison ends where it broke.
ColumnNamesOrStop ==
    /\ pc = "names"
    /\ LET result == AcceptDeviations(2, NameDifferences(seen.leftCols, seen.rightCols)) IN
       Goto(result, IF result.passed THEN "types" ELSE "done")
    /\ UNCHANGED <<seen, error>> /\ TablesAlone

ColumnNames ==
    /\ pc = "names"
    /\ Goto(AcceptDeviations(2, NameDifferences(seen.leftCols, seen.rightCols)), "types")
    /\ UNCHANGED <<seen, error>> /\ TablesAlone

ColumnTypes ==
    /\ pc = "types"
    /\ Goto(AcceptDeviations(3, TypeDifferences), "checksums")
    /\ UNCHANGED <<seen, error>> /\ TablesAlone

Checksums ==
    /\ pc = "checksums"
    /\ \/ Comparable = {} /\ Goto(Skipped(4), "rows")
       \/ /\ Comparable # {} /\ Answers(Comparable)
          /\ LET agree == \A c \in Comparable : Checksum(left, c) = Checksum(right, c) IN
             Goto([Passed(4) EXCEPT !.passed = agree, !.approximate = TextCoerced # {}], "rows")
    /\ UNCHANGED <<seen, error>> /\ TablesAlone

RowLevelSkipped ==
    \/ options.skipRowLevel
    \/ KeyColumns = <<>>
    \/ ~(ToSet(KeyColumns) \subseteq Common)

RowHashes ==
    /\ pc = "rows"
    /\ \/ RowLevelSkipped /\ Goto(Skipped(5), "done")
       \/ /\ ~RowLevelSkipped
          /\ Answers(ToSet(KeyColumns) \cup Payload \cup Stored)
          /\ LET result == [Passed(5) EXCEPT !.passed = RowsAgree,
                                !.approximate = Payload = {} \/ TextCoerced # {}] IN
             IF RowsAgree THEN Goto(result, "done")
             ELSE pc' = "samples" /\ UNCHANGED levels
    /\ UNCHANGED <<seen, error>> /\ TablesAlone

\* A differing pair is asked once more, for a sample of the differing keys.
Samples ==
    /\ pc = "samples"
    /\ Answers(ToSet(KeyColumns) \cup Payload \cup Stored)
    /\ Goto([Failed(5) EXCEPT !.approximate = Payload = {} \/ TextCoerced # {}], "done")
    /\ UNCHANGED <<seen, error>> /\ TablesAlone

\* A statement fails, or the table it names is no longer what it was: the
\* comparison ends with the levels it has.
QueryFails ==
    /\ pc \in {"existence", "count", "columns", "checksums", "rows", "samples"}
    /\ error' = TRUE
    /\ pc' = "done"
    /\ UNCHANGED <<seen, levels>> /\ TablesAlone

\* Mutant of Report: a pair that cannot be compared ends the batch.
ReportOrAbort ==
    /\ pc = "done"
    /\ verdicts' = Append(verdicts, Verdict)
    /\ pc' = IF Len(verdicts') < Entries /\ ~error THEN "next" ELSE "exit"
    /\ left' = NoTable /\ right' = NoTable /\ options' = NoOptions
    /\ seen' = NothingSeen /\ levels' = <<>> /\ error' = FALSE /\ arrivals' = 0

\* The report joins the others; the next entry of the manifest, or the end.
Report ==
    /\ pc = "done"
    /\ verdicts' = Append(verdicts, Verdict)
    /\ pc' = IF Len(verdicts') < Entries THEN "next" ELSE "exit"
    /\ left' = NoTable /\ right' = NoTable /\ options' = NoOptions
    /\ seen' = NothingSeen /\ levels' = <<>> /\ error' = FALSE /\ arrivals' = 0

\* An entry that names two tables, whether or not they exist.
NextPair ==
    /\ pc = "next"
    /\ \E case \in Cases, l \in LeftRows, r \in RightRows :
        left' = Table(case.left, l) /\ right' = Table(case.right, r) /\ options' = case.options
    /\ pc' = "existence"
    /\ UNCHANGED <<seen, levels, error, verdicts, arrivals>>

\* An entry without a table, or with a bare name: Relation.parse raises before
\* anything is compared, and the batch ends with its reports unwritten.
MalformedEntry ==
    /\ pc = "next"
    /\ pc' = "broken"
    /\ UNCHANGED <<left, right, options, seen, levels, error, verdicts, arrivals>>

\* A pipeline that runs meanwhile replaces, empties or drops the right table.
Arrive ==
    /\ pc \notin {"next", "done", "exit", "broken"}
    /\ arrivals < MaxArrivals
    /\ \E table \in Arrivals : table # right /\ right' = table
    /\ arrivals' = arrivals + 1
    /\ UNCHANGED <<left, options, seen, levels, error, verdicts, pc>>

CompareTables ==
    \/ Existence \/ RowCount \/ Columns \/ ColumnNames \/ ColumnTypes
    \/ Checksums \/ RowHashes \/ Samples \/ QueryFails \/ Report \/ NextPair
    \/ MalformedEntry

GoldenNext == CompareTables \/ Arrive

\* The harness runs its statements one after another; nothing makes a
\* pipeline arrive.
GoldenSpec == GoldenInit /\ [][GoldenNext]_goldenVars /\ WF_goldenVars(CompareTables)

-----------------------------------------------------------------------------
(* What the golden test promises                                           *)

Verdicts == {"MATCH", "MATCH*", "DIFF", "ERROR"}

\* Type correctness: the report has at most the five levels, in their order,
\* and the batch at most one verdict per pair (model.py).
GoldenTypeOK ==
    /\ pc \in {"existence", "count", "columns", "names", "types", "checksums", "rows",
               "samples", "done", "next", "exit", "broken"}
    /\ \A i \in DOMAIN levels : levels[i].level = i
    /\ Len(levels) <= 5
    /\ verdicts \in BoundedSeq(Verdicts, Entries)
    /\ arrivals \in 0..MaxArrivals /\ error \in BOOLEAN

Undisturbed == pc = "done" /\ arrivals = 0 /\ ~error
FiveCompared == Len(levels) = 5 /\ levels[5].passed /\ ~levels[5].skipped
KeyIsUnique(table, key) ==
    \A i, j \in DOMAIN table.rows :
        TextOf(table, table.rows[i], ToSet(key)) = TextOf(table, table.rows[j], ToSet(key))
            => i = j

\* The rows of two tables as bags of what their columns `cols` hold.
Holding(table, cols) ==
    [r \in {[c \in cols |-> table.rows[i][c]] : i \in DOMAIN table.rows} |->
        Cardinality({i \in DOMAIN table.rows : [c \in cols |-> table.rows[i][c]] = r})]

\* Rows that pass level 5 are the same rows at that statement, whatever a
\* pipeline does around it: in every column that has one type on both sides,
\* the ones row_hash does not cover included (_level_row_hashes).
LevelFiveIsSound ==
    [][pc = "rows" /\ Len(levels') = 5 /\ levels'[5].passed /\ ~levels'[5].skipped
          => LET cols == {c \in Common \ Volatile : SameType(c)} IN
             {[c \in cols |-> l[c]] : l \in ToSet(left.rows)} =
             {[c \in cols |-> r[c]] : r \in ToSet(right.rows)}]_goldenVars

\* Two tables that differ only in the order of their rows and in when they
\* were loaded, and a key that does not tell them apart by that.
EqualTables ==
    /\ left.exists /\ right.exists
    /\ left.cols = right.cols /\ left.types = right.types
    /\ KeyIsUnique(left, KeyColumns) /\ ToSet(KeyColumns) \cap Volatile = {}
    /\ Holding(left, ToSet(left.cols) \ Volatile) = Holding(right, ToSet(left.cols) \ Volatile)

\* No false alarm: such tables get MATCH (compare_tables).
EqualIsMatch == Undisturbed /\ EqualTables => Verdict = "MATCH"

\* A clean MATCH that compared the rows means the same table: the same
\* columns in the same order, of the same types, and the same rows.
MatchMeansIdentical ==
    Undisturbed /\ Verdict = "MATCH" /\ FiveCompared /\ KeyIsUnique(left, KeyColumns)
    => /\ left.cols = right.cols /\ left.types = right.types
       /\ Holding(left, ToSet(left.cols) \ Volatile) = Holding(right, ToSet(left.cols) \ Volatile)

\* The verdict a migration rests on, in both directions.
MatchIffSame == EqualIsMatch /\ MatchMeansIdentical

\* Deviations are narrow (golden/deviations.py): behind a MATCH* no column is
\* missing, only a mandatory one is added, a table without additions keeps
\* every source column in its place, and a type changes only where it is agreed.
DeviationsAreNarrow ==
    Undisturbed /\ Verdict = "MATCH*"
    => /\ ToSet(left.cols) \subseteq ToSet(right.cols)
       /\ ToSet(right.cols) \ ToSet(left.cols) \subseteq Mandatory
       /\ ToSet(right.cols) = ToSet(left.cols) =>
            \A i \in DOMAIN left.cols :
                left.cols[i] \notin Managed => right.cols[i] = left.cols[i]
       /\ \A c \in ToSet(left.cols) :
            /\ left.types[c].base # right.types[c].base => left.types[c].base = Inferred
            /\ left.types[c].null # right.types[c].null => c = "_deleted_in_source"
            /\ left.types[c] # right.types[c] => Prefixed(c)

\* The levels do not stop at the first mismatch: a report without an error
\* has all five, whichever broke first (compare_tables).
EveryLevelIsReported == pc = "done" /\ ~error => Len(levels) = 5

\* The exit code a migration script acts on is 0 only when no pair differed and
\* none failed, at whatever place in the manifest (BatchReport.verdict).
ExitTellsTheWorst ==
    pc = "exit" => (ExitCode(BatchVerdict(verdicts)) = 0
                        <=> ToSet(verdicts) \subseteq {"MATCH", "MATCH*"})

\* What a report of a pair and of a batch says, no more and no less, is what
\* was found: no level is left out, no agreed deviation covers more than it
\* says, and the exit code is that of the worst pair.
ReportsTellTheWhole == GoldenTypeOK /\ EveryLevelIsReported /\ DeviationsAreNarrow /\ ExitTellsTheWorst

\* Every pair of the manifest gets its verdict, though comparing another one
\* failed and the tables change meanwhile, unless an entry names no tables: that
\* ends the whole batch (_cmd_batch).
EveryPairIsReported == <>(pc = "broken" \/ (pc = "exit" /\ Len(verdicts) = Entries))
=============================================================================
