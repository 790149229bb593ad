------------------------------ MODULE Calendar ------------------------------
(***************************************************************************)
(* core/partitioning.py: the period a date belongs to, its bounds and its  *)
(* name, with the arithmetic of datetime.date it is written in.            *)
(***************************************************************************)
EXTENDS Integers

Date == [year: Nat, month: 1..12, day: 1..31]

Modes == {"range_day", "range_month", "range_year"}

IsLeapYear(y) == y % 4 = 0 /\ (y % 100 # 0 \/ y % 400 = 0)

DaysInMonth(y, m) ==
    CASE m = 2 -> IF IsLeapYear(y) THEN 29 ELSE 28
      [] m \in {4, 6, 9, 11} -> 30
      [] OTHER -> 31

(* date + timedelta(days=k), for k of at most a month.                     *)
PlusDays(d, k) ==
    IF d.day + k <= DaysInMonth(d.year, d.month) THEN [d EXCEPT !.day = @ + k]
    ELSE [year |-> IF d.month = 12 THEN d.year + 1 ELSE d.year,
          month |-> IF d.month = 12 THEN 1 ELSE d.month + 1,
          day |-> d.day + k - DaysInMonth(d.year, d.month)]

Before(a, b) ==
    \/ a.year < b.year
    \/ a.year = b.year /\ a.month < b.month
    \/ a.year = b.year /\ a.month = b.month /\ a.day < b.day

(* period_start                                                            *)
PeriodStart(mode, d) ==
    CASE mode = "range_day" -> d
      [] mode = "range_month" -> [d EXCEPT !.day = 1]
      [] mode = "range_year" -> [d EXCEPT !.month = 1, !.day = 1]

(* Mutant of NextMonth: one day short.                                     *)
NextMonthShort(start) == [PlusDays([start EXCEPT !.day = 28], 3) EXCEPT !.day = 1]

(* From the 28th, four days reach the next month of every month.           *)
NextMonth(start) == [PlusDays([start EXCEPT !.day = 28], 4) EXCEPT !.day = 1]

(* period_bounds: from, and to (not included).                             *)
PeriodBounds(mode, d) ==
    LET start == PeriodStart(mode, d)
    IN  [from |-> start,
         to |-> CASE mode = "range_day" -> PlusDays(start, 1)
                  [] mode = "range_month" -> NextMonth(start)
                  [] mode = "range_year" -> [start EXCEPT !.year = @ + 1]]

Within(d, bounds) == ~Before(d, bounds.from) /\ Before(d, bounds.to)

(* partition_suffix: as many of the fields as the mode has.                *)
PeriodSuffix(mode, d) ==
    LET start == PeriodStart(mode, d)
    IN  CASE mode = "range_day" -> <<start.year, start.month, start.day>>
          [] mode = "range_month" -> <<start.year, start.month>>
          [] mode = "range_year" -> <<start.year>>
=============================================================================
