------------------------------ MODULE MCBatch -------------------------------
EXTENDS Preparation

CONSTANT MaxRow     \* bound: the rows of the source

MCRows == 1..MaxRow

(* Numbers around the threshold, INT_MAX and 2**53, all scaled down; texts *)
(* that are booleans, numbers and neither; bytes of a text and others.     *)
MCCellsOf(kind) ==
    CASE kind = "int" -> {Null, Int_(1), Int_(7), Int_(9), Int_(11)}
      [] kind = "enum" -> {Null, Digits(0), Digits(1), Digits(2), Letters}
      [] kind = "varchar" -> {Null, Letters, Written(0)}
      [] kind = "octets" -> {Null, Bytes(0), Bytes(7)}
      [] kind = "binary" -> {Null, Bytes(0), View(7)}
      [] kind = "clock" -> {Null, Clock}
      [] kind = "span" -> {Null, Span(0), Span(1)}
      [] kind = "date" -> {Null, Moment(0), Moment(1), Far, Written(0),
                           Written(1), ZeroDate, Letters}

(* How a target came to have its column: not at all, as declared, or as an *)
(* earlier run promoted it.  A slice strategy runs over an existing target.*)
Targets(declared, promoted) ==
    {<<"none", "full">>} \cup ({declared, promoted} \X {"full", "slice"})

Column(kind, hints, strict, targets) ==
    {[kind |-> kind, hinted |-> h[1], dated |-> h[2], strict |-> s,
      existing |-> t[1], method |-> t[2]] :
        h \in hints, s \in strict, t \in targets}

Unhinted == {<<FALSE, FALSE>>}

Texts == Column("varchar", BOOLEAN \X BOOLEAN, {FALSE}, Targets("TEXT", "TEXT"))

MCColumns ==
    UNION {Column("int", {<<FALSE, FALSE>>, <<TRUE, FALSE>>}, BOOLEAN,
                  Targets("INTEGER", "BIGINT")),
           Column("enum", Unhinted, {FALSE}, Targets("TEXT", "BOOLEAN")),
           Texts,
           Column("octets", Unhinted, {FALSE}, Targets("TEXT", "TEXT")),
           Column("binary", Unhinted, {FALSE}, Targets("BYTEA", "TEXT")),
           Column("clock", BOOLEAN \X BOOLEAN, {FALSE}, Targets("TIME", "TEXT")),
           Column("span", BOOLEAN \X BOOLEAN, {FALSE}, Targets("TIME", "TEXT")),
           Column("date", {<<FALSE, TRUE>>}, {FALSE}, Targets("TIMESTAMP", "TEXT"))}

-----------------------------------------------------------------------------
(* The tables the columns come from.                                       *)

Plain(w) == [word |-> w, spelling |-> "plain"]
Mixed(w) == [word |-> w, spelling |-> "mixed"]
Lowered(w) == [word |-> w, spelling |-> "lower"]

(* A source as it was; with its columns in another order and one more; as  *)
(* many, one renamed; two of a name; one named like a managed column; one  *)
(* in lower case where names are folded to upper case, be it a managed one. *)
MCCatalogues ==
    {<<Plain("id"), Plain("note")>>,
     <<Plain("note"), Plain("id"), Plain("updated_at")>>,
     <<Plain("id"), Mixed("note"), Plain("updated_at")>>,
     <<Plain("id"), Mixed("note"), Plain("note")>>,
     <<Plain("timestamp"), Plain("id"), Plain("updated_at")>>,
     <<Lowered("timestamp"), Plain("id"), Plain("updated_at")>>,
     <<Lowered("note"), Plain("id"), Plain("updated_at")>>,
     <<>>}

(* No table; one of an older extractor, without the managed columns or     *)
(* with some of them in between; one with a column quoted by hand.         *)
MCOldTargets ==
    {<<>>,
     <<InTarget("note", FALSE), InTarget("id", FALSE)>>,
     <<InTarget("timestamp", TRUE), InTarget("id", FALSE)>>,
     <<[InTarget("note", FALSE) EXCEPT !.upper = TRUE], InTarget("id", FALSE)>>}

Settings(methods, hashing, primaries) ==
    [method : methods, hashed : hashing, primary : primaries,
     date : {Plain("updated_at")},
     only : {TRUE}, selected : {{}, {Plain("note"), Plain("timestamp")}},
     excluded : {{}, {Plain("id")}, {Mixed("note")}}]

MCColumnSettings ==
    Settings({"full", "incremental"}, BOOLEAN, {Plain("id")})
        \cup Settings({"full"}, {TRUE}, {NoName})
=============================================================================
