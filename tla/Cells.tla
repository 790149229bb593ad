------------------------------- MODULE Cells --------------------------------
(***************************************************************************)
(* core/coerce.py: what becomes of one cell, and of one column of a batch, *)
(* on its way to PostgreSQL.                                               *)
(*                                                                         *)
(* A cell is what Python or PostgreSQL holds (`as`) and what it reads as   *)
(* (`n`).  Only what the code tells apart is kept: the number of digits of *)
(* a number, the letters of a text and the hour of a moment are not.       *)
(***************************************************************************)
EXTENDS Integers

CONSTANTS
    IntMax,         \* 2**31 - 1
    FloatExact      \* 2**53: FLOAT64_EXACT_INTEGER_LIMIT

ASSUME CellsAssumption ==
    /\ IntMax \in Nat /\ FloatExact \in Nat
    /\ IntMax < FloatExact /\ FloatExact % 4 = 0

Null == [as |-> "null", n |-> 0]

Int_(n) == [as |-> "int", n |-> n]
Float(n) == [as |-> "float", n |-> n]
Digits(n) == [as |-> "text", n |-> n]       \* the text of a number
Letters == [as |-> "letters", n |-> 0]      \* a text that is no number, no date
Bool(n) == [as |-> "bool", n |-> n]         \* n = 0: false
Word(n) == [as |-> "word", n |-> n]         \* the text "True" or "False"
Bytes(n) == [as |-> "bytes", n |-> n]       \* n: the text in them, or 0
View(n) == [as |-> "view", n |-> n]         \* a memoryview over such bytes
Hex(n) == [as |-> "hex", n |-> n]           \* how PostgreSQL reads bytea
Address == [as |-> "address", n |-> 0]      \* "<memory at 0x...>"
Moment(zone) == [as |-> "moment", n |-> zone]   \* a datetime; 0: without a zone
Far == [as |-> "far", n |-> 0]              \* outside of datetime64[ns]
Written(zone) == [as |-> "written", n |-> zone] \* the text of a datetime
ZeroDate == [as |-> "zero", n |-> 0]        \* '0000-00-00' and the like
Clock == [as |-> "clock", n |-> 0]          \* a datetime.time
Span(days) == [as |-> "span", n |-> days]   \* a Timedelta; 1: no time of a day
HourText(days) == [as |-> "hours", n |-> days]  \* hh:mm:ss; 1: past 24 hours

(* The nearest float64 of an integer below 2**54, a tie to the even one.   *)
Rounded(n) ==
    IF n <= FloatExact \/ n % 2 = 0 THEN n
    ELSE IF n % 4 = 1 THEN n - 1 ELSE n + 1

Types == {"INTEGER", "BIGINT", "BOOLEAN", "TEXT", "TIMESTAMP", "TIME", "BYTEA"}

IntegerTypes == {"INTEGER", "BIGINT"}

-----------------------------------------------------------------------------
(* One cell.                                                               *)

IsNumber(c) == c.as \in {"int", "float"}

(* to_int_or_na and to_int_or_none, which differ in nothing kept here: a   *)
(* text is read through float().                                           *)
ToInt(c) ==
    CASE IsNumber(c) -> Int_(c.n)
      [] c.as = "text" -> Int_(Rounded(c.n))
      [] OTHER -> Null

ToBool(c) ==
    CASE c.as = "bool" -> c
      [] IsNumber(c) -> Bool(IF c.n = 0 THEN 0 ELSE 1)
      [] c.as = "text" /\ c.n \in {0, 1} -> Bool(c.n)
      [] OTHER -> Null

(* to_str_or_none                                                          *)
ToStr(c) ==
    CASE IsNumber(c) -> Digits(c.n)
      [] c.as = "bool" -> Word(c.n)
      [] c.as \in {"moment", "far"} -> Written(c.n)
      [] c.as = "bytes" -> Letters
      [] c.as = "view" -> Address
      [] OTHER -> c

(* to_datetime_str: the zone is not written.                               *)
ToDatetimeStr(c) ==
    IF c.as \in {"moment", "far", "written"} THEN Written(0) ELSE Null

(* _fast_temporal_series, of a text: the zero dates are taken out before.  *)
FastTemporal(c) == IF c.as = "written" THEN Written(0) ELSE Null

(* Mutants of ToTimeStr: the seconds of a Timedelta leave out its days; and *)
(* a datetime.time has no total_seconds.                                   *)
OnlyTheSeconds(c) ==
    CASE c.as \in {"clock", "span"} -> HourText(0)
      [] c.as = "hours" -> c
      [] OTHER -> Null

OnlyTimedeltas(c) ==
    CASE c.as = "span" -> HourText(c.n)
      [] c.as = "hours" -> c
      [] OTHER -> Null

(* to_time_str, of what a driver returns for a TIME column: MySQL has it   *)
(* as a Timedelta, which may exceed a day or be negative.                  *)
ToTimeStr(c) ==
    CASE c.as = "clock" -> HourText(0)
      [] c.as = "span" -> HourText(c.n)
      [] c.as = "hours" -> c
      [] OTHER -> Null

(* str() of a value, which the row hash is computed from.                  *)
AsText(c) == IF c.as = "view" THEN Address ELSE c

NormalizeMemoryview(c) == IF c.as = "view" THEN Bytes(c.n) ELSE c

(* decode_value: the last encoding takes any bytes.                        *)
DecodeValue(c) ==
    CASE c.as # "bytes" -> c
      [] c.as = "bytes" /\ c.n = 0 -> Letters
      [] c.as = "bytes" /\ c.n # 0 -> Digits(c.n)

ToPgHex(c) == IF c.as \in {"bytes", "view"} THEN Hex(c.n) ELSE c

FmtIntForCsv(c) == IF c = Null THEN c ELSE Digits(c.n)

(* clean_invalid_date: as pd.to_datetime takes it alone.                   *)
CleanInvalidDate(c) ==
    IF c.as \in {"moment", "written", "int", "float"} THEN c ELSE Null

-----------------------------------------------------------------------------
(* One column of a batch: a function from the rows of the batch.           *)

Map(col, f(_)) == [k \in DOMAIN col |-> f(col[k])]

(* pandas builds a column of numbers in which one is missing as float64.   *)
AsPandasInfers(col) ==
    IF /\ \A k \in DOMAIN col : IsNumber(col[k]) \/ col[k] = Null
       /\ \E k \in DOMAIN col : col[k] = Null
    THEN [k \in DOMAIN col |->
            IF col[k] = Null THEN Null ELSE Float(Rounded(col[k].n))]
    ELSE col

(* replace_pdna_with_none: the dtype is inferred again.                    *)
ReplacePdnaWithNone(col) == AsPandasInfers(col)

ConvertIntegerColumns(col, type) ==
    IF type \in IntegerTypes THEN Map(col, ToInt) ELSE col

(* convert_time_columns: by the type of the target or that of the source.  *)
ConvertTimeColumns(col, timed) == IF timed THEN Map(col, ToTimeStr) ELSE col

(* check_integer_precision does not raise.                                 *)
PrecisionHolds(col, type) ==
    type \in IntegerTypes =>
        \A k \in DOMAIN col : col[k].as = "float" => col[k].n <= FloatExact

StripSentinelDate(c) == IF c = ZeroDate THEN Null ELSE c

(* The texts of a column parse to one dtype, or to objects.                *)
OffsetsMixed(col) ==
    \E j, k \in DOMAIN col :
        col[j].as = "written" /\ col[k].as = "written" /\ col[j].n # col[k].n

(* Aware and naive datetimes together, or aware ones in two zones.         *)
ZonesMixed(col) ==
    \E j, k \in DOMAIN col :
        col[j].as = "moment" /\ col[k].as = "moment" /\ col[j].n # col[k].n

(* _accepted_as_dates, where it does not raise: the rows it accepts.       *)
AcceptedAsDates(col) ==
    {k \in DOMAIN col :
       \/ col[k].as \in {"moment", "written"}
       \/ col[k].as = "far" /\ OffsetsMixed(col)
       \/ IsNumber(col[k]) /\ ~\E j \in DOMAIN col : col[j].as \in {"moment", "far"}}

(* Mutant of FixInvalidDates: pandas keeps the first zone and drops the    *)
(* rest of the column.                                                     *)
FixDatesNoFallback(col) ==
    LET stripped == Map(col, StripSentinelDate)
    IN  IF ZonesMixed(stripped) THEN [k \in DOMAIN col |-> Null]
        ELSE [k \in DOMAIN col |->
                IF k \in AcceptedAsDates(stripped) THEN stripped[k] ELSE Null]

(* fix_invalid_dates, of a column it takes for dates: as a whole, or row   *)
(* by row when that raises.                                                *)
FixInvalidDates(col) ==
    LET stripped == Map(col, StripSentinelDate)
    IN  IF ZonesMixed(stripped) THEN Map(stripped, CleanInvalidDate)
        ELSE [k \in DOMAIN col |->
                IF k \in AcceptedAsDates(stripped) THEN stripped[k] ELSE Null]

(* to_datetime_str_series: at once, where all values are texts and parse   *)
(* to one dtype, or else one by one.                                       *)
IsText(c) == c.as \in {"text", "letters", "written", "zero"}

ToDatetimeStrSeries(col) ==
    IF /\ \A k \in DOMAIN col : col[k] = Null \/ IsText(col[k])
       /\ ~OffsetsMixed(col)
    THEN Map(col, FastTemporal) ELSE Map(col, ToDatetimeStr)

FixColumnValues(col, type) ==
    CASE type \in IntegerTypes -> Map(col, ToInt)
      [] type = "BOOLEAN" -> Map(col, ToBool)
      [] type = "TIMESTAMP" -> ToDatetimeStrSeries(col)
      [] type = "TIME" -> col
      [] OTHER -> Map(col, ToStr)
=============================================================================
