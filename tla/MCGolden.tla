------------------------------ MODULE MCGolden ------------------------------
(* Small tables for TLC: at most two rows, and the layouts the five levels  *)
(* and the accepted deviations tell apart.                                 *)
EXTENDS Golden

Nullable(base) == [base |-> base, null |-> TRUE]
Required(base) == [base |-> base, null |-> FALSE]

Usual == [id |-> Required("integer"), a |-> Nullable("integer"), _date |-> Nullable("integer"),
          row_hash |-> Nullable("text"), _timestamp |-> Nullable("timestamp"),
          _deleted_in_source |-> Required("boolean"), _source |-> Nullable("text")]

Layout(cols, types, key) ==
    [exists |-> TRUE, cols |-> cols, types |-> [c \in ToSet(cols) |-> types[c]], key |-> key]
Missing == [exists |-> FALSE, cols |-> <<>>, types |-> <<>>, key |-> <<>>]

Options(key, skip, asText) == [key |-> key, skipRowLevel |-> skip, asText |-> asText]
Default == Options(<<>>, FALSE, FALSE)
AsTexts == Options(<<>>, FALSE, TRUE)

Loaded == <<"id", "a", "row_hash", "_timestamp">>
Plain == Layout(Loaded, Usual, <<"id">>)
Unkeyed == Layout(Loaded, Usual, <<>>)
Managers == <<"id", "a", "_deleted_in_source", "row_hash", "_timestamp">>
Old == Layout(Managers, [Usual EXCEPT !["_deleted_in_source"].null = TRUE], <<"id">>)
Bare == Layout(<<"id", "a", "_date">>, Usual, <<"id">>)
Guessed == Layout(<<"id", "a", "_date">>, [Usual EXCEPT !["_date"] = Nullable("text")], <<"id">>)
Fractions == Layout(Loaded, [Usual EXCEPT !["a"] = Nullable("numeric")], <<"id">>)
Texts == Layout(Loaded, [Usual EXCEPT !["a"] = Nullable("text")], <<"id">>)

Pair(l, r, o) == [left |-> l, right |-> r, options |-> o]

MCCases == {
    Pair(Plain, Plain, Default),
    Pair(Plain, Plain, Options(<<"a">>, FALSE, FALSE)),
    Pair(Plain, Plain, Options(<<"id">>, TRUE, FALSE)),
    Pair(Unkeyed, Plain, Default),
    Pair(Plain, Missing, Default),
    Pair(Texts, Plain, Default), Pair(Texts, Plain, AsTexts), Pair(Fractions, Plain, AsTexts),
    Pair(Old, Layout(<<"id", "a", "row_hash", "_timestamp", "_deleted_in_source">>, Usual,
                     <<"id">>), Default),
    Pair(Bare, Layout(<<"a", "id", "_date">>, Usual, <<"id">>), Default),
    Pair(Bare, Layout(<<"id", "a", "_date", "_timestamp">>, Usual, <<"id">>), Default),
    Pair(Bare, Layout(<<"a", "id", "_date", "_timestamp">>, Usual, <<"id">>), Default),
    Pair(Bare, Layout(<<"id", "a", "_date", "_source">>, Usual, <<"id">>), Default),
    Pair(Plain, Layout(<<"id", "row_hash", "_timestamp">>, Usual, <<"id">>), Default),
    Pair(Guessed, Bare, Default) }

Row(id, a, hash, time) == [id |-> id, a |-> a, _date |-> 0, row_hash |-> hash,
    _timestamp |-> time, _deleted_in_source |-> 0, _source |-> 0]

MCLeftRows == {<<>>} \cup {<<Row(1, a, 0, 0)>> : a \in {Null, 0, 1}}
    \cup {<<Row(1, a, 0, 0), Row(2, b, 0, 0)>> : a \in {Null, 0, 1}, b \in {Null, 1}}
RightRecords == {Row(1, a, 0, 1) : a \in {Null, 0, 1}} \cup {Row(2, a, 0, 1) : a \in {Null, 1}}
    \cup {Row(1, 0, 1, 1)}
MCRightRows == BoundedSeq(RightRecords, 2)

MCArrivals == {NoTable, Table(Plain, <<Row(1, 1, 0, 1)>>),
               Table(Layout(<<"id">>, Usual, <<"id">>), <<Row(2, 0, 0, 1), Row(1, 0, 0, 1)>>)}
=============================================================================
