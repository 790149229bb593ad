--------------------------- MODULE MCTargetTable ----------------------------
(* Instances of TargetTable for TLC.                                       *)
EXTENDS TargetTable, TLC

CONSTANTS k1, k2, a, b, c

MCKeys == {k1, k2}

(* The keys are not told apart.                                            *)
MCSymmetry == Permutations(MCKeys)

(* Two days of one month and a third of the month before, which is long,   *)
(* and in the year before.                                                 *)
MCDays == {[year |-> 2023, month |-> 12, day |-> 31],
           [year |-> 2024, month |-> 2, day |-> 28],
           [year |-> 2024, month |-> 2, day |-> 29]}

MCCalendarDays ==
    {d \in [year: {2023, 2024, 2100}, month: 1..12, day: 1..31] :
       d.day <= DaysInMonth(d.year, d.month)}

MCLabels == {a, b, c}

(* A date has its own slug; two of the labels differ in case or in         *)
(* punctuation only.                                                       *)
MCSlug(v) ==
    CASE v = c -> <<b>>
      [] v \in {a, b} -> <<v>>
      [] v \notin Labels -> <<v.year, v.month, v.day>>

MCSpecs == {[column |-> "day", mode |-> "range_month", default |-> TRUE],
            [column |-> "day", mode |-> "range_year", default |-> FALSE],
            [column |-> "day", mode |-> "list", default |-> TRUE],
            [column |-> "other", mode |-> "list", default |-> TRUE],
            [column |-> "_source", mode |-> "list", default |-> FALSE]}
=============================================================================
