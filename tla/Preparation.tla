---------------------------- MODULE Preparation -----------------------------
(***************************************************************************)
(* A table from its catalogue to PostgreSQL: the runs over it settle which *)
(* columns are loaded and under which names (ColumnNames), and of the run  *)
(* that is about to write, one column is followed through the preparation  *)
(* of its batches (Batch).  The name a column has been given decides there *)
(* whether its values are taken for dates.                                 *)
(*                                                                         *)
(* Following a column leaves the table's further life behind: its runs are *)
(* followed on the other branches.                                         *)
(***************************************************************************)
EXTENDS ColumnNames, Batch

CONSTANT DateHints      \* the words fix_invalid_dates takes for a date column

colAndVars == <<colVars, batchVars>>

IdleJob ==
    [kind |-> "none", hinted |-> FALSE, dated |-> FALSE, strict |-> FALSE,
     existing |-> "none", method |-> "full",
     source |-> [k \in Rows |-> Null], size |-> CHOOSE s \in BatchSizes : TRUE]

(* No column is followed yet.                                              *)
Idle ==
    /\ job = IdleJob /\ types = "none" /\ unread = Rows
    /\ batch = NoCells /\ hashes = NoCells
    /\ reader = NoReader /\ sent = <<>>
    /\ copied = NoCells /\ status = "idle"

PrepInit == ColumnsInit /\ Idle

(* The run writes: one of its columns from the source is followed.  Of the *)
(* table, what matters to the column is its name, whether there is a       *)
(* column of that name already, and the path of the run.                   *)
Follow ==
    /\ status = "idle" /\ stage = "adopted"
    /\ \E i \in 1..Len(load.columns) :
          /\ load.names[i] \in Range(listed)
          /\ job' = [IdleJob EXCEPT
                !.hinted = load.names[i].word \in DateHints,
                !.existing = IF target = <<>> THEN "none" ELSE "some",
                !.method = IF load.method = "full" THEN "full" ELSE "slice"]
    /\ status' = "followed"
    /\ source' = CHOOSE c \in Catalogues : TRUE
    /\ target' = <<>> /\ held' = [t \in {} |-> {}]
    /\ load' = NoLoad /\ listed' = <<>> /\ stage' = "idle"
    /\ UNCHANGED <<types, unread, batch, hashes, reader, sent, copied>>

(* External: the type of the column, and what the source has in it.        *)
ReadColumn ==
    /\ status = "followed" /\ status' = "read"
    /\ \E c \in Columns, s \in BatchSizes :
          /\ c.hinted = job.hinted /\ c.method = job.method
          /\ c.existing = "none" <=> job.existing = "none"
          /\ \E cells \in [Rows -> CellsOf(c.kind)] : job' = Job(c, cells, s)
    /\ UNCHANGED <<types, unread, batch, hashes, reader, sent, copied>>

PrepNext ==
    \/ status = "idle" /\ ColumnsNext /\ UNCHANGED batchVars
    \/ Follow
    \/ ReadColumn /\ UNCHANGED colVars
    \/ BatchNext /\ UNCHANGED colVars

PrepSpec == PrepInit /\ [][PrepNext]_colAndVars

-----------------------------------------------------------------------------
(* Types of both parts, through the whole of the preparation; and the      *)
(* chunk reader's promise, which its offset into the buffer is part of.    *)
BufferInv == BatchTypeOK /\ ColumnsTypeOK /\ NothingLostInTheBuffer
=============================================================================
