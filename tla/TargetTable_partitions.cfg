\* Three runs over two keys and three days, or over three labels of which two
\* share a slug; partition_by is edited once and a row of the source moves.
CONSTANTS
    k1 = k1
    k2 = k2
    a = a
    b = b
    c = c
    Keys <- MCKeys
    Days <- MCDays
    CalendarDays <- MCCalendarDays
    Labels <- MCLabels
    SlugOf <- MCSlug
    Null = Null
    Absent = Absent
    NoSpec = NoSpec
    Specs <- MCSpecs
    MaxRuns = 3
    MaxEdits = 1
    MaxMoves = 2
SYMMETRY MCSymmetry
SPECIFICATION Spec
INVARIANTS TableInv OneRowPerKey RefusedOnlyWhenEdited
CHECK_DEADLOCK FALSE
