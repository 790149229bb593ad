---------------------------- MODULE ColumnNames -----------------------------
(***************************************************************************)
(* core/naming.py, entrypoint.build_context and the column handling of     *)
(* full and incremental: which columns of the source a run loads, what     *)
(* they are called in the target, and how a target that an earlier run, or *)
(* an older extractor, left behind comes to have them.                     *)
(*                                                                         *)
(* A name is a word in some spelling.  Normalising it loses the spelling   *)
(* and puts an underscore before a reserved word; that is all the          *)
(* properties tell apart.  The hash column of the settings is taken to be  *)
(* in its normalised form, and not to be a column of the source.           *)
(***************************************************************************)
EXTENDS Naturals, FiniteSets, Sequences, SequencesExt

CONSTANTS
    Words,              \* what names are made of
    Catalogues,         \* the columns the source may have, in order; <<>>: no table
    OldTargets,         \* the tables to start over: <<>>, or their columns
    ColumnSettings,     \* TABLE and LOAD_SETTINGS, as far as columns go
    ReservedWords       \* SQL_RESERVED_WORDS

VARIABLES
    source,     \* the columns of the source table
    target,     \* those of the target, in its order; <<>>: there is no table
    held,       \* for each of them, the source columns its rows hold values of
    load,       \* the run: its settings, columns, names and path
    listed,     \* the columns COPY is given
    stage       \* "idle", "refused", "context", "ensured", "adopted", "written"
                \* or "red"

(* A catalogue names a column once, and so does a table.                   *)
ColumnName == [word : Words, prefixed : BOOLEAN, upper : BOOLEAN]
SourceName == [word : Words, spelling : {"plain", "mixed", "lower"}]

ASSUME ColumnNamesAssumption ==
    /\ {"row_hash", "timestamp", "deleted_in_source"} \subseteq Words
    /\ \A c \in Catalogues :
          /\ c \in Seq(SourceName) /\ IsInjective(c)
          /\ \A i \in DOMAIN c : c[i].word # "row_hash"
    /\ \A t \in OldTargets : t \in Seq(ColumnName) /\ IsInjective(t)
    /\ \A s \in ColumnSettings : s.method \in {"full", "incremental"} /\ s.hashed \in BOOLEAN

colVars == <<source, target, held, load, listed, stage>>

-----------------------------------------------------------------------------
(* The elements of a sequence that are in a set, or not in it, in order.   *)
Select(s, S) ==
    LET places == {i \in DOMAIN s : s[i] \in S}
        Place(n) == CHOOSE i \in places : Cardinality({j \in places : j <= i}) = n
    IN  [n \in 1..Cardinality(places) |-> s[Place(n)]]

Without(s, S) == Select(s, Range(s) \ S)

-----------------------------------------------------------------------------
(* core/naming.py                                                          *)

(* A column of the target; upper: quoted with capitals, by hand.           *)
InTarget(word, prefixed) == [word |-> word, prefixed |-> prefixed, upper |-> FALSE]

HashColumn == InTarget("row_hash", FALSE)

(* METADATA_COLUMNS                                                        *)
MetadataColumns == <<InTarget("timestamp", TRUE), InTarget("deleted_in_source", TRUE)>>

(* create_column_mapping keeps the word of a name and no more of it.       *)
Normalised(name) == name.word

(* clean_column_name, apply_reserved_word_prefix                           *)
CleanColumnName(word) == InTarget(word, word \in ReservedWords)

Generated(hashed) == (IF hashed THEN <<HashColumn>> ELSE <<>>) \o MetadataColumns

(* Mutant of TargetColumnNames: a name taken already is skipped, as it is  *)
(* for the generated ones.                                                 *)
SkipTaken(columns, hashed) ==
    LET own == [i \in 1..Len(columns) |-> CleanColumnName(Normalised(columns[i]))]
        first == Select([i \in 1..Len(columns) |-> i],
                        {i \in 1..Len(columns) : \A j \in 1..(i - 1) : own[j] # own[i]})
    IN  [i \in 1..Len(first) |-> own[first[i]]] \o Without(Generated(hashed), Range(own))

(* target_column_names; <<>> stands for ColumnNameCollision.               *)
TargetColumnNames(columns, hashed) ==
    LET own == [i \in 1..Len(columns) |-> CleanColumnName(Normalised(columns[i]))]
    IN  IF IsInjective(own)
        THEN own \o Without(Generated(hashed), Range(own))
        ELSE <<>>

(* reconcile_with_existing                                                 *)
ReconcileWithExisting(desired, existing) ==
    Select(existing, Range(desired)) \o Without(desired, Range(existing))

-----------------------------------------------------------------------------
(* entrypoint.build_context                                                *)

(* introspect_columns: in the order of the source's catalogue.  Of a table  *)
(* that is not there it finds none, and the run ends.                      *)
IntrospectColumns == source

(* Mutant of RequiredColumns: the date column of the window is not there.  *)
OnlyTheKey(columns, s) ==
    (IF s.method = "incremental" THEN {s.primary} ELSE {}) \cap Range(columns)

(* _required_columns, of a source that has no column for the hash.         *)
RequiredColumns(columns, s) ==
    (IF s.method = "incremental" THEN {s.primary, s.date} ELSE {}) \cap Range(columns)

(* _select_columns                                                         *)
SelectColumns(columns, s) ==
    LET required == RequiredColumns(columns, s)
        kept == IF s.only /\ s.selected # {} THEN s.selected \cup required
                ELSE Range(columns)
    IN  Select(columns, kept \ (s.excluded \ required))

(* _with_target_names: the columns and their names, side by side.          *)
NameMap(run) == [i \in 1..Len(run.columns) |-> run.names[i]]

NoLoad == [method |-> "none", columns |-> <<>>, names |-> <<>>,
           hashed |-> FALSE, window |-> {}]

-----------------------------------------------------------------------------
(* validate, of the strategies: before the source or the target is touched *)

NoName == [word |-> "", spelling |-> "none"]    \* not configured

(* _resolved_pk is among target_names.                                     *)
KeyIsLoaded(columns, names, s) ==
    \E i \in 1..Len(columns) : names[i] = CleanColumnName(Normalised(s.primary))

FullIsValid(columns, names, s) == s.primary = NoName \/ KeyIsLoaded(columns, names, s)

IncrementalIsValid(columns, names, s) ==
    KeyIsLoaded(columns, names, s) /\ s.date \in Range(columns)

(* An incremental run checks its columns before it looks for the table.    *)
IsValid(columns, names, s) ==
    IF s.method = "incremental" THEN IncrementalIsValid(columns, names, s)
    ELSE FullIsValid(columns, names, s)

-----------------------------------------------------------------------------
(* core/target_pg.py                                                       *)

Lower(t) == [t EXCEPT !.upper = FALSE]

(* columns_missing_in_target                                               *)
MissingInTarget(columns) ==
    IF target = <<>> THEN <<>>
    ELSE Without(columns, {Lower(u) : u \in Range(target)})

(* ALTER TABLE ADD COLUMN: at the end, and empty.                          *)
AddColumns(columns) ==
    /\ target' = target \o columns
    /\ held' = [t \in Range(target \o columns) |-> IF t \in DOMAIN held THEN held[t] ELSE {}]

(* Mutant of GeneratedMissing: the hash is taken to be there.              *)
NotTheHash == Without(MetadataColumns, Range(target))

(* ensure_generated_columns, which tells names apart by their case.        *)
GeneratedMissing == Without(Generated(load.hashed), Range(target))

(* _all_columns: what the run wants, in the order the target has.          *)
AllColumns == ReconcileWithExisting(TargetColumnNames(load.columns, load.hashed), target)

(* What the source's driver calls a column.  "plain" is the case a source  *)
(* folds names to; where that is upper case (Firebird), SQLAlchemy hands   *)
(* plain names over in lower case, as it does one quoted in lower case.    *)
FromDriver(name) == IF name.spelling = "plain" THEN [name EXCEPT !.spelling = "lower"]
                    ELSE name

(* Mutant of Denormalized: the names stay as the driver returns them.      *)
AsFromDriver(name) == FromDriver(name)

(* _denormalize_columns                                                    *)
Denormalized(name) ==
    IF FromDriver(name).spelling = "lower" THEN [name EXCEPT !.spelling = "plain"]
    ELSE name

(* Computed: the package makes the value of the column.                    *)
Computed == [word |-> "computed", spelling |-> "none"]

(* The columns of a batch after the rename to target names.                *)
Renamed ==
    LET map == NameMap(load)
        At(c) == {i \in DOMAIN map : load.columns[i] = c}
    IN  [c \in {Denormalized(c) : c \in Range(load.columns)} |->
            IF At(c) = {} THEN {} ELSE {map[i] : i \in At(c)}]

(* Where the values of a column come from: of those the batch does not     *)
(* have, the package computes its own, and prepare_export_df makes the     *)
(* others of NULLs.                                                        *)
Origin(t) ==
    LET sent == {c \in DOMAIN Renamed : t \in Renamed[c]}
    IN  IF sent = {} /\ t \in Range(Generated(load.hashed)) THEN {Computed} ELSE sent

(* compute_row_hashes finds every column it hashes in the batch.           *)
HashedAreThere ==
    load.hashed => Range(NameMap(load)) \subseteq UNION {Renamed[c] : c \in DOMAIN Renamed}

-----------------------------------------------------------------------------
ColumnsInit ==
    /\ source \in Catalogues
    /\ target \in OldTargets
    /\ held = [t \in Range(target) |-> {}]
    /\ load = NoLoad /\ listed = <<>> /\ stage = "idle"

Ended == stage \in {"idle", "refused", "written", "red"}

(* External: someone alters, drops or renames the table of the source      *)
(* between two runs.                                                       *)
AlterSource ==
    /\ Ended
    /\ source' \in Catalogues
    /\ load' = NoLoad /\ listed' = <<>> /\ stage' = "idle"
    /\ UNCHANGED <<target, held>>

(* build_context, validate, and the choice of the path: an incremental run *)
(* without a table is a full one.  No column left, two of a name, or one   *)
(* the strategy cannot do without: the run is refused, nothing is touched. *)
BuildContext(s) ==
    LET columns == SelectColumns(IntrospectColumns, s)
        names == TargetColumnNames(columns, s.hashed)
        window == IF s.method = "incremental" THEN {s.primary, s.date} ELSE {}
    IN  /\ Ended
        /\ listed' = <<>>
        /\ \/ /\ columns # <<>> /\ names # <<>> /\ IsValid(columns, names, s)
              /\ load' = [method |-> IF target = <<>> THEN "full" ELSE s.method,
                          columns |-> columns, names |-> names,
                          hashed |-> s.hashed, window |-> window]
              /\ stage' = "context"
           \/ /\ columns # <<>> /\ names # <<>> /\ ~IsValid(columns, names, s)
              /\ load' = [NoLoad EXCEPT !.window = window]
              /\ stage' = "refused"
           \/ /\ columns = <<>> \/ names = <<>>
              /\ load' = NoLoad /\ stage' = "idle"
        /\ UNCHANGED <<source, target, held>>

(* _ensure_managed_columns; an incremental run has taken its columns       *)
(* before, and drops those the target lacks after.                         *)
EnsureManagedColumns ==
    /\ stage = "context" /\ stage' = "ensured"
    /\ AddColumns(IF target = <<>> THEN <<>> ELSE GeneratedMissing)
    /\ listed' = AllColumns
    /\ UNCHANGED <<source, load>>

(* Mutant of DropColumnsMissingInTarget: the columns are kept.             *)
KeepColumnsMissingInTarget ==
    /\ stage = "ensured" /\ stage' = "adopted" /\ load.method = "incremental"
    /\ UNCHANGED <<source, target, held, load, listed>>

DropColumnsMissingInTarget ==
    /\ stage = "ensured" /\ stage' = "adopted" /\ load.method = "incremental"
    /\ listed' = Without(listed, Range(MissingInTarget(listed)))
    /\ UNCHANGED <<source, target, held, load>>

(* _adopt_new_columns, of the first batch, in a transaction of its own.    *)
AdoptNewColumns ==
    /\ stage = "ensured" /\ stage' = "adopted" /\ load.method = "full"
    /\ AddColumns(MissingInTarget(AllColumns))
    /\ listed' = ReconcileWithExisting(load.names, target')
    /\ UNCHANGED <<source, load>>

(* COPY into a table LIKE the target, and from there into it: a full run   *)
(* replaces the rows, an incremental one adds to them and leaves others    *)
(* as they are.  COPY fails on a column the table does not have.           *)
Write ==
    /\ stage = "adopted" /\ HashedAreThere
    /\ IF target # <<>> /\ ~(Range(listed) \subseteq Range(target))
       THEN stage' = "red" /\ UNCHANGED <<target, held>>
       ELSE /\ stage' = "written"
            /\ target' = IF target = <<>> THEN listed ELSE target
            /\ held' = [t \in Range(target') |->
                           (IF t \in DOMAIN held /\ load.method = "incremental"
                            THEN held[t] ELSE {})
                           \cup (IF t \in Range(listed) THEN Origin(t) ELSE {})]
    /\ UNCHANGED <<source, load, listed>>

(* The source fails or the run is killed between two steps; or the batch   *)
(* lacks a column to be hashed (KeyError).                                 *)
Fail ==
    /\ stage \in {"ensured", "adopted"}
    /\ load' = NoLoad /\ listed' = <<>> /\ stage' = "idle"
    /\ UNCHANGED <<source, target, held>>

ColumnsNext ==
    \/ AlterSource
    \/ \E s \in ColumnSettings : BuildContext(s)
    \/ EnsureManagedColumns \/ DropColumnsMissingInTarget \/ AdoptNewColumns
    \/ Write \/ Fail

-----------------------------------------------------------------------------
ColumnsTypeOK ==
    /\ source \in Catalogues
    /\ IsInjective(target) /\ DOMAIN held = Range(target)
    /\ load.method \in {"none", "full", "incremental"}
    /\ Len(load.names) >= Len(load.columns)
    /\ stage \in {"idle", "refused", "context", "ensured", "adopted", "written", "red"}

(* A column of the target holds the values of the source column its name   *)
(* is made from, and of no other: not of its neighbour in the list, not of *)
(* one that would be called the same.  One run fills it from one column.   *)
NoValueUnderAnothersName ==
    \A t \in DOMAIN held :
        /\ \A o \in held[t] :
              IF o = Computed THEN t \in Range(Generated(TRUE))
              ELSE CleanColumnName(Normalised(o)) = t
        /\ stage = "written" /\ t \in Range(listed) => \A o, p \in Origin(t) : o = p

(* No run fails in COPY for a column the table does not have, whatever an  *)
(* older extractor left out of it and whatever the source has gained       *)
(* since; only a column that differs in its case alone, which counts as    *)
(* there, makes it fail.                                                   *)
CopyFindsItsColumns ==
    stage = "red" =>
        \E t \in Range(target) : t.upper /\ Lower(t) \in Range(listed)

(* A full load makes up what incremental ones have dropped: every column   *)
(* it selects is in the target and holds the values of this run alone; or  *)
(* none of the source, if its name is quoted in lower case in a source     *)
(* that folds to upper case and no hash is computed that would miss it.    *)
FullMakesUp ==
    stage = "written" /\ load.method = "full" =>
        /\ \A i \in 1..Len(load.columns) :
              /\ load.names[i] \in Range(target)
              /\ \/ held[load.names[i]] = {load.columns[i]}
                 \/ held[load.names[i]] \subseteq {Computed} /\ load.columns[i].spelling = "lower"
        /\ \A t \in Range(target) \ Range(listed) : held[t] = {}

(* Every run, full or incremental, fills the columns the package keeps up, *)
(* over a table that had none of them too: the hash, without which the     *)
(* next comparison takes every row for changed, is not among those an      *)
(* incremental run drops.                                                  *)
ManagedColumnsFilled ==
    stage = "written" =>
        \A g \in Range(Generated(load.hashed)) :
            g \in Range(target) /\ held[g] # {}

(* What an incremental run finds its rows by is among its columns if the   *)
(* source has it, whatever is selected or excluded: it is refused only     *)
(* over a source that has lost its key or its date column.                 *)
RequiredSurvive ==
    stage = "refused" /\ load.window # {} => ~(load.window \subseteq Range(source))

(* What a run reads, what COPY names and what the table has agree, however *)
(* source, settings and target have drifted apart between the runs.        *)
ColumnsAgree ==
    CopyFindsItsColumns /\ FullMakesUp /\ ManagedColumnsFilled /\ RequiredSurvive
=============================================================================
