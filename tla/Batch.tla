------------------------------- MODULE Batch --------------------------------
(***************************************************************************)
(* core/strategies/full.py (_promote_types, _prepare) and                  *)
(* core/target_pg.py (load_pg_schema, prepare_export_df, copy_from_stdin): *)
(* one column of a table on its way from the driver to PostgreSQL, batch   *)
(* by batch.  What happens to a cell depends on the other cells of its     *)
(* batch, on the first batch of the run and on the table already there,    *)
(* which is why a test of one value says little.                           *)
(*                                                                         *)
(* Numbers are scaled down (see Cells).  The chunk reader hands PostgreSQL *)
(* two pieces of every row, so that a row can be split between two reads.  *)
(***************************************************************************)
EXTENDS Cells, FiniteSets, Sequences, SequencesExt

CONSTANTS
    Rows,                   \* the keys of the source, in reading order: 1..n
    Columns,                \* the columns and settings a run is started with
    CellsOf(_),             \* what a column of a kind may hold
    BatchSizes,
    ReadSizes,              \* what psycopg2 asks the chunk reader for
    IntPromotionThreshold,  \* INT_PROMOTION_THRESHOLD
    CopyChunkRows           \* COPY_CHUNK_ROWS

ASSUME BatchAssumption ==
    /\ IsFiniteSet(Rows) /\ Rows = 1..Cardinality(Rows)
    /\ BatchSizes \subseteq Nat \ {0} /\ BatchSizes # {}
    /\ ReadSizes \subseteq Nat \ {0}
    /\ IntPromotionThreshold \in Nat /\ IntPromotionThreshold < IntMax
    /\ CopyChunkRows \in Nat \ {0}

VARIABLES
    job,        \* the column, its name, the settings, the target and the source
    types,      \* the type the run takes the column for; "none": not yet
    unread,     \* the rows the driver has not returned
    batch,      \* the prepared rows of the batch under COPY
    hashes,     \* their row_hash
    reader,     \* the _CsvChunkReader of the COPY
    sent,       \* what PostgreSQL has received of it
    copied,     \* the rows it has taken, as it stores them
    status      \* "idle", "followed", "read", "copy", "green" or "red"

batchVars == <<job, types, unread, batch, hashes, reader, sent, copied, status>>

NoCells == [k \in {} |-> Null]

MinOf(S) == CHOOSE n \in S : \A m \in S : n <= m

(* The next rows of the driver, size of them.                              *)
NextRows(rows, size) == {k \in rows : k < MinOf(rows) + size}

-----------------------------------------------------------------------------
(* The types.                                                              *)

Kinds == {"int", "enum", "varchar", "octets", "binary", "clock", "span", "date"}

(* column_types: the type map of the dialect.                              *)
Declared(kind) ==
    CASE kind = "int" -> "INTEGER"
      [] kind = "date" -> "TIMESTAMP"
      [] kind = "binary" -> "BYTEA"
      [] kind \in {"clock", "span"} -> "TIME"
      [] kind \in {"enum", "varchar", "octets"} -> "TEXT"

(* update_stats, of one batch.                                             *)
NonNull(col) == {k \in DOMAIN col : col[k] # Null}

NumericLike(c) == IsNumber(c) \/ c.as = "text"

HasNonNumeric(col) == \E k \in NonNull(col) : ~NumericLike(col[k])

Values(col) ==
    IF HasNonNumeric(col) THEN {} ELSE {col[k].n : k \in NonNull(col)}

(* Mutants of PromoteTypes: a number is promoted only once it no longer    *)
(* fits; and the texts of the batch are not looked at.                     *)
PromoteTooLate(kind, col) ==
    IF /\ kind = "int"
       /\ \E n \in Values(col) : n > FloatExact
    THEN "BIGINT"
    ELSE IF /\ kind = "enum"
            /\ Values(col) = {0, 1}
    THEN "BOOLEAN" ELSE Declared(kind)

PromoteWords(kind, col) ==
    IF /\ kind = "int"
       /\ \E n \in Values(col) : n > IntPromotionThreshold
    THEN "BIGINT"
    ELSE IF /\ kind = "enum"
            /\ {0, 1} \subseteq {col[k].n : k \in NonNull(col)}
    THEN "BOOLEAN" ELSE Declared(kind)

(* _promote_types, from the first batch of a full load.                    *)
PromoteTypes(kind, col) ==
    IF /\ kind = "int"
       /\ \E n \in Values(col) : n > IntPromotionThreshold
    THEN "BIGINT"
    ELSE IF /\ kind = "enum"
            /\ Values(col) = {0, 1}
    THEN "BOOLEAN" ELSE Declared(kind)

(* load_pg_schema: a text or bytea column of the target overrides nothing. *)
LoadPgSchema(declared, existing) ==
    IF existing \in {"INTEGER", "BIGINT", "BOOLEAN", "TIMESTAMP"}
    THEN existing ELSE declared

(* The column PostgreSQL has: a shadow table is LIKE the existing one.     *)
TargetType == IF job.existing = "none" THEN types ELSE job.existing

(* What a table of this package has for a column of the kind: the type of  *)
(* the type map, the one it is promoted to, or a text.                     *)
TypesFor(kind) ==
    {Declared(kind)} \cup (CASE kind = "int" -> {"BIGINT"}
                             [] kind = "enum" -> {"BOOLEAN"}
                             [] OTHER -> {"TEXT"})

(* What a driver returns for it.                                           *)
Forms(kind) ==
    CASE kind = "int" -> {"int"}
      [] kind = "enum" -> {"text", "letters"}
      [] kind = "varchar" -> {"letters", "written"}
      [] kind = "octets" -> {"bytes"}
      [] kind = "binary" -> {"bytes", "view"}
      [] kind = "clock" -> {"clock"}
      [] kind = "span" -> {"span"}
      [] kind = "date" -> {"moment", "far", "written", "zero", "letters"}

IsCellOf(kind, c) ==
    \/ c = Null
    \/ /\ c \in [as : Forms(kind), n : Int]
       /\ c.as \in {"letters", "clock", "far", "zero"} => c.n = 0
       /\ c.as = "span" => c.n \in {0, 1}

(* A slice strategy runs over a table that is there.                       *)
ASSUME ColumnAssumption ==
    /\ \A c \in Columns :
          /\ c.kind \in Kinds /\ c.method \in {"full", "slice"}
          /\ c.existing \in {"none"} \cup TypesFor(c.kind)
          /\ c.existing = "none" => c.method = "full"
    /\ \A kind \in Kinds : \A c \in CellsOf(kind) : IsCellOf(kind, c)

-----------------------------------------------------------------------------
(* prepare_export_df.                                                      *)

(* extract_date_columns, and the guess of fix_invalid_dates by the name    *)
(* when no column of the table has a date type.                            *)
TakenForDates(j) == j.kind = "date" \/ (j.hinted /\ ~j.dated)

(* _prepare, before prepare_export_df: the values the hash is computed of. *)
Normalized(col) == Map(col, NormalizeMemoryview)

(* Mutant of Hashes: the bytes are decoded first.                          *)
HashesOfDecoded(col) == Map(Map(Normalized(col), DecodeValue), AsText)

Hashes(col) == Map(Normalized(col), AsText)

Decoded(col, type) ==
    IF type = "BYTEA" THEN Map(Normalized(col), ToPgHex)
    ELSE Map(Normalized(col), DecodeValue)

Dated(j, col) == IF TakenForDates(j) THEN FixInvalidDates(col) ELSE col

(* _TIME_TYPES, or "TIME" itself.                                          *)
Timed(j, type) == type = "TIME" \/ j.kind \in {"clock", "span"}

Converted(j, col, type) ==
    LET dated == Dated(j, ReplacePdnaWithNone(Decoded(col, type)))
        timed == ConvertTimeColumns(ReplacePdnaWithNone(dated), Timed(j, type))
    IN  ConvertIntegerColumns(timed, type)

(* Mutant of Checked: the check comes before the third replace.            *)
CheckedTooEarly(j, col, type) == Converted(j, col, type)

(* What check_integer_precision is given.                                  *)
Checked(j, col, type) == ReplacePdnaWithNone(Converted(j, col, type))

(* fix_column_values, sanitize_integer_columns and fmt_int_for_csv.        *)
Exported(j, col, type) ==
    LET fixed == FixColumnValues(ReplacePdnaWithNone(Converted(j, col, type)), type)
    IN  IF type \in IntegerTypes THEN Map(Map(fixed, ToInt), FmtIntForCsv)
        ELSE fixed

-----------------------------------------------------------------------------
(* _CsvChunkReader over the rows of the batch.                             *)

(* The rows of a batch are consecutive.                                    *)
RowsInOrder(S) == [i \in 1..Cardinality(S) |-> MinOf(S) + i - 1]

(* Their CSV, in pieces.                                                   *)
Pieces(S) ==
    [i \in 1..(2 * Cardinality(S)) |->
        <<RowsInOrder(S)[(i + 1) \div 2], IF i % 2 = 1 THEN "cell" ELSE "end">>]

(* _iter_csv_chunks: what it yields next, and all it has not yielded.      *)
Chunk(r) ==
    SubSeq(Pieces(r.df), 2 * r.start + 1,
           2 * MinOf({r.start + CopyChunkRows, Cardinality(r.df)}))

Unserialised(r) == SubSeq(Pieces(r.df), 2 * r.start + 1, 2 * Cardinality(r.df))

NewReader(S, size) ==
    [df |-> S, start |-> 0, buffer |-> <<>>, offset |-> 0,
     exhausted |-> FALSE, size |-> size]

NoReader == NewReader({}, 1)

Rest(r) == SubSeq(r.buffer, r.offset + 1, Len(r.buffer))

(* Mutant of Compact: the buffer keeps what has been read.                 *)
CompactKeepsRead(r) == [r EXCEPT !.offset = 0]

(* _compact                                                                *)
Compact(r) == [r EXCEPT !.buffer = Rest(r), !.offset = 0]

-----------------------------------------------------------------------------
(* A column of a table, with its cells and the settings it is loaded by.   *)
Job(c, cells, s) ==
    [kind |-> c.kind,
     hinted |-> c.hinted,       \* its name hints at a date
     dated |-> c.dated,         \* the table has a date column
     strict |-> c.strict,       \* strict_integer_precision
     existing |-> c.existing,   \* the target's type, or "none"
     method |-> c.method,       \* "full", or "slice"
     source |-> cells, size |-> s]

BatchInit ==
    /\ \E c \in Columns, s \in BatchSizes :
          \E cells \in [Rows -> CellsOf(c.kind)] : job = Job(c, cells, s)
    /\ types = "none" /\ unread = Rows
    /\ batch = NoCells /\ hashes = NoCells
    /\ reader = NoReader /\ sent = <<>>
    /\ copied = NoCells /\ status = "read"

(* The driver returns a batch, which is prepared; the first one decides    *)
(* the types of a full load.  A refusal of the strict check ends the run.  *)
PrepareBatch ==
    /\ status = "read" /\ unread # {}
    /\ LET rows == NextRows(unread, job.size)
           col == AsPandasInfers([k \in rows |-> job.source[k]])
           type == IF types # "none" THEN types
                   ELSE IF job.method = "full" THEN PromoteTypes(job.kind, col)
                   ELSE LoadPgSchema(Declared(job.kind), job.existing)
       IN  /\ types' = type
           /\ unread' = unread \ rows
           /\ IF job.strict /\ ~PrecisionHolds(Checked(job, col, type), type)
              THEN status' = "red" /\ UNCHANGED <<batch, hashes, reader>>
              ELSE /\ status' = "copy"
                   /\ batch' = Exported(job, col, type)
                   /\ hashes' = Hashes(col)
                   /\ \E size \in ReadSizes : reader' = NewReader(rows, size)
    /\ sent' = <<>>
    /\ UNCHANGED <<job, copied>>

(* _fill: one chunk more, or the end of them.                              *)
Short == Len(Rest(reader)) < reader.size /\ ~reader.exhausted

Fill ==
    /\ status = "copy" /\ Short
    /\ reader' = IF reader.start >= Cardinality(reader.df)
                 THEN [Compact(reader) EXCEPT !.exhausted = TRUE]
                 ELSE [Compact(reader) EXCEPT !.buffer = @ \o Chunk(reader),
                                              !.start = @ + CopyChunkRows]
    /\ UNCHANGED <<job, types, unread, batch, hashes, sent, copied, status>>

(* Mutant of Read: the offset moves by what was asked for.                 *)
ReadPastTheEnd ==
    /\ status = "copy" /\ ~Short /\ Rest(reader) # <<>>
    /\ sent' = sent \o SubSeq(Rest(reader), 1, MinOf({reader.size, Len(Rest(reader))}))
    /\ reader' = [reader EXCEPT !.offset = @ + reader.size]
    /\ UNCHANGED <<job, types, unread, batch, hashes, copied, status>>

(* read(size), of a buffer that is filled.                                 *)
Read ==
    /\ status = "copy" /\ ~Short /\ Rest(reader) # <<>>
    /\ LET out == SubSeq(Rest(reader), 1, MinOf({reader.size, Len(Rest(reader))}))
           after == [reader EXCEPT !.offset = @ + Len(out)]
       IN  /\ sent' = sent \o out
           /\ reader' = IF after.offset >= Len(after.buffer)
                        THEN [after EXCEPT !.buffer = <<>>, !.offset = 0] ELSE after
    /\ UNCHANGED <<job, types, unread, batch, hashes, copied, status>>

(* What a CSV field is to a column of PostgreSQL.                          *)
CsvField(c) == IF c.as = "bool" THEN Word(c.n) ELSE c

Accepts(type, c) ==
    \/ c = Null \/ type = "TEXT"
    \/ type = "INTEGER" /\ c.as = "text" /\ c.n <= IntMax
    \/ type = "BIGINT" /\ c.as = "text"
    \/ type = "BOOLEAN" /\ (c.as = "word" \/ (c.as = "text" /\ c.n \in {0, 1}))
    \/ type = "TIMESTAMP" /\ c.as = "written"
    \/ type = "TIME" /\ c = HourText(0)
    \/ type = "BYTEA" /\ c.as = "hex"

Stored(type, c) == IF type = "BOOLEAN" /\ c # Null THEN Bool(c.n) ELSE c

(* read returns an empty text: PostgreSQL has the rows it was sent in      *)
(* full, and takes all of them or none.                                    *)
EndCopy ==
    /\ status = "copy" /\ ~Short /\ Rest(reader) = <<>>
    /\ LET rows == {k \in Rows : \E i \in 1..Len(sent) : sent[i] = <<k, "end">>}
           fields == [k \in rows |-> CsvField(batch[k])]
       IN  IF \A k \in rows : Accepts(TargetType, fields[k])
           THEN /\ copied' = [k \in rows \cup DOMAIN copied |->
                                IF k \in rows THEN Stored(TargetType, fields[k])
                                ELSE copied[k]]
                /\ status' = IF unread = {} THEN "green" ELSE "read"
           ELSE status' = "red" /\ UNCHANGED copied
    /\ UNCHANGED <<job, types, unread, batch, hashes, reader, sent>>

Done == status \in {"green", "red"} /\ UNCHANGED batchVars

BatchNext == PrepareBatch \/ Fill \/ Read \/ EndCopy \/ Done

BatchSpec == BatchInit /\ [][BatchNext]_batchVars

-----------------------------------------------------------------------------
BatchTypeOK ==
    /\ job.size \in BatchSizes /\ DOMAIN job.source = Rows
    /\ types \in Types \cup {"none"} /\ unread \subseteq Rows
    /\ DOMAIN batch \subseteq Rows \ unread /\ DOMAIN hashes = DOMAIN batch
    /\ reader.size \in ReadSizes \cup {1} /\ reader.exhausted \in BOOLEAN
    /\ reader.offset \in 0..Len(reader.buffer)
    /\ DOMAIN copied \subseteq Rows
    /\ status \in {"idle", "followed", "read", "copy", "green", "red"}

(* Whatever the sizes of the chunks and of the reads, PostgreSQL has been  *)
(* sent the rows of the batch up to where the reader is, each piece once   *)
(* and in order; a green run has copied every row of the source.  The      *)
(* offset into the buffer, which replaces slicing it, is what could slip.  *)
NothingLostInTheBuffer ==
    /\ status = "copy" =>
           sent \o Rest(reader) \o Unserialised(reader) = Pieces(DOMAIN batch)
    /\ status = "green" => DOMAIN copied = Rows

(* An integer that a float64 can hold arrives as it was, whatever is NULL  *)
(* beside it; with strict_integer_precision a green run has written every  *)
(* integer as it was, but for the first one past the limit, which rounds   *)
(* to the limit and passes the check.                                      *)
NumbersSurvive ==
    status = "green" /\ job.kind = "int" =>
        \A k \in Rows :
            LET c == job.source[k]
            IN  /\ c = Null => copied[k] = Null
                /\ \/ IsNumber(c) /\ c.n <= FloatExact
                   \/ IsNumber(c) /\ job.strict /\ c.n # FloatExact + 1
                   => copied[k] = Digits(c.n)

(* A number too large for INTEGER fails the COPY into a table of this run  *)
(* only when the first batch showed nothing above the threshold: what that *)
(* batch holds, the promotion makes room for.                              *)
PromotionCoversTheFirstBatch ==
    status = "red" /\ job.kind = "int" /\ job.existing = "none" /\ ~job.strict =>
        /\ \A k \in Rows : k <= job.size => job.source[k].n <= IntPromotionThreshold
        /\ \E k \in Rows : k > job.size /\ job.source[k].n > IntMax

(* A text arrives as it was, or as the boolean it spells where the column  *)
(* was promoted.  Only a text the promotion could not know of is lost: one *)
(* of a later batch, or one bound for a column promoted by an earlier run. *)
TextSurvives ==
    /\ status = "green" /\ job.kind \in {"enum", "varchar", "octets"}
    /\ ~TakenForDates(job)
    => \A k \in Rows :
          LET c == DecodeValue(job.source[k])
          IN  \/ copied[k] = c
              \/ c.as = "text" /\ copied[k] \in {Bool(c.n), Word(c.n)}
              \/ types = "BOOLEAN" /\ (k > job.size \/ job.method = "slice")

(* A date the target can hold is stored whatever stands beside it in its   *)
(* batch: zero dates, texts that are no dates, moments out of range, or in *)
(* several zones.  What is no date is never stored.                        *)
DatesSurvive ==
    status = "green" /\ job.kind = "date" =>
        \A k \in Rows :
            /\ job.source[k].as \in {"moment", "written"} => copied[k] = Written(0)
            /\ job.source[k] \in {ZeroDate, Letters, Null} => copied[k] = Null

(* A time is stored as the clock reads it.  One past the day or below zero, *)
(* which MySQL has and a TIME of PostgreSQL has not, is never cut to the   *)
(* clock: it is stored whole in a text, or else it alone ends the run.     *)
TimesSurvive ==
    job.kind \in {"clock", "span"} /\ ~TakenForDates(job) =>
        /\ status = "green" =>
              \A k \in Rows :
                 copied[k] = IF job.source[k] = Null THEN Null
                             ELSE HourText(job.source[k].n)
        /\ status = "red" => Span(1) \in {job.source[k] : k \in Rows}

(* Every value the target column can hold survives the company it is read  *)
(* in: the NULLs, the texts and the zones of its batch, and the type the   *)
(* first batch has settled.                                                *)
ValuesSurvive ==
    /\ NumbersSurvive /\ PromotionCoversTheFirstBatch
    /\ TextSurvives /\ DatesSurvive /\ TimesSurvive

(* The row hash of a value other than a number is that of the value as the *)
(* driver returned it, in every run: not of where a memoryview lies in     *)
(* memory, nor of what decoding makes of the bytes.                        *)
HashIsOfTheRowAlone ==
    job.kind # "int" =>
        \A k \in DOMAIN hashes :
            hashes[k] = IF job.source[k].as = "view" THEN Bytes(job.source[k].n)
                        ELSE job.source[k]

(* "When ``date_like_columns`` is not supplied, the columns are guessed    *)
(* from their names" (fix_invalid_dates): supplied with the date columns   *)
(* of a table, it makes no NULL of a text or of a time, whatever the name  *)
(* of the column.                                                          *)
TextIsNotGuessedAway ==
    status = "green" /\ job.kind \in {"varchar", "clock", "span"} =>
        \A k \in Rows : job.source[k] # Null => copied[k] # Null
=============================================================================
