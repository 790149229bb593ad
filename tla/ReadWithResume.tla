--------------------------- MODULE ReadWithResume ---------------------------
(***************************************************************************)
(* `reading.read_with_resume`: the one way every strategy reads a source.  *)
(* One ordered query is streamed in batches; after a dropped connection a  *)
(* new query continues above the last key the caller has received, or, as  *)
(* long as nothing has been handed over, starts again from scratch.        *)
(*                                                                         *)
(* A row is its key.  The server orders and compares keys as numbers; the  *)
(* largest key of a batch is picked by pandas (`batch[pk].max()`), whose   *)
(* order is PyRank: for text keys it is the order of code points, which    *)
(* need not be the collation the server sorts by.                          *)
(*                                                                         *)
(* Each query sees the table as it is when the query is opened, and the    *)
(* table may change at any moment.                                         *)
(***************************************************************************)
EXTENDS Integers, FiniteSets

CONSTANTS
    MaxKey,      \* keys are 1..MaxKey
    BatchSize,   \* rows of a full batch
    Attempts,    \* read_retry_attempts
    HasKey,      \* pk_in_batch is not None: the read is ordered by the key
    PyRank       \* Keys -> Nat, the order of the keys in pandas

Keys == 1..MaxKey

ASSUME ReadAssumption ==
    /\ MaxKey \in Nat
    /\ BatchSize \in Nat \ {0}
    /\ Attempts \in Nat \ {0}
    /\ HasKey \in BOOLEAN
    /\ PyRank \in [Keys -> Nat]

VARIABLES
    rows,       \* the keys in the source table now
    phase,      \* the generator: "off", "query", "stream", "done", "failed"
    window,     \* the keys that satisfy the caller's WHERE
    attempt,    \* the attempt the generator is in
    pending,    \* rows of the open query that have not been fetched
    started,    \* the open query has already given a batch
    lastKey,    \* last_key
    sawRow,     \* saw_row
    yielded,    \* yielded_any
    got,        \* rows handed over so far
    repeated,   \* rows handed over more than once (history)
    stable,     \* rows present since the read began (history)
    appeared    \* rows present at some moment of the read (history)

readVars == <<phase, window, attempt, pending, started, lastKey, sawRow, yielded,
              got, repeated>>
sourceVars == <<rows, stable, appeared>>
allReadVars == <<readVars, sourceVars>>

ReadTypeOK ==
    /\ rows \subseteq Keys
    /\ phase \in {"off", "query", "stream", "done", "failed"}
    /\ window \subseteq Keys
    /\ attempt \in 1..Attempts
    /\ pending \subseteq Keys
    /\ started \in BOOLEAN
    /\ lastKey \in 0..MaxKey
    /\ sawRow \in BOOLEAN
    /\ yielded \in BOOLEAN
    /\ got \subseteq Keys
    /\ repeated \subseteq Keys
    /\ stable \subseteq Keys
    /\ appeared \subseteq Keys

ReadInit ==
    /\ rows \in SUBSET Keys
    /\ phase = "off"
    /\ window = {}
    /\ attempt = 1
    /\ pending = {}
    /\ started = FALSE
    /\ lastKey = 0
    /\ sawRow = FALSE
    /\ yielded = FALSE
    /\ got = {}
    /\ repeated = {}
    /\ stable = {}
    /\ appeared = {}

-----------------------------------------------------------------------------
(* The source table.                                                       *)

Insert(k) ==
    /\ k \notin rows
    /\ rows' = rows \cup {k}
    /\ appeared' = appeared \cup {k}
    /\ UNCHANGED <<stable, readVars>>

Delete(k) ==
    /\ k \in rows
    /\ rows' = rows \ {k}
    /\ stable' = stable \ {k}
    /\ UNCHANGED <<appeared, readVars>>

-----------------------------------------------------------------------------
(* The generator.                                                          *)

(* The caller makes a new generator over the rows its condition selects.   *)
Begin(where) ==
    /\ phase' = "query"
    /\ window' = where
    /\ attempt' = 1
    /\ pending' = {}
    /\ started' = FALSE
    /\ lastKey' = 0
    /\ sawRow' = FALSE
    /\ yielded' = FALSE
    /\ got' = {}
    /\ repeated' = {}
    /\ stable' = rows
    /\ appeared' = rows
    /\ UNCHANGED rows

(* Mutant of Selected: the last key is read again.                         *)
SelectedFromLastKey(k) == k \in window /\ (sawRow => k >= lastKey)

(* build_sql: the caller's condition, and the keyset bound on a resume.    *)
Selected(k) == k \in window /\ (sawRow => k > lastKey)

OpenQuery ==
    /\ phase = "query"
    /\ phase' = "stream"
    /\ pending' = {k \in rows : Selected(k)}
    /\ started' = FALSE
    /\ UNCHANGED <<window, attempt, lastKey, sawRow, yielded, got, repeated, sourceVars>>

(* Mutant of IsBatch: a query without ORDER BY.                            *)
IsBatchUnordered(b) ==
    /\ b # {}
    /\ Cardinality(b) = BatchSize \/ (Cardinality(b) < BatchSize /\ b = pending)

(* iter_batches: full batches and a shorter last one, in the order of the  *)
(* query.                                                                  *)
IsBatch(b) ==
    /\ b # {}
    /\ HasKey => \A j \in b, k \in pending \ b : j < k
    /\ Cardinality(b) = BatchSize \/ (Cardinality(b) < BatchSize /\ b = pending)

LargestInPandas(b) == {k \in b : \A j \in b : PyRank[j] <= PyRank[k]}

Deliver(b) ==
    /\ phase = "stream"
    /\ IsBatch(b)
    /\ pending' = pending \ b
    /\ got' = got \cup b
    /\ repeated' = repeated \cup (got \cap b)
    /\ yielded' = TRUE
    /\ started' = TRUE
    /\ IF HasKey
       THEN sawRow' = TRUE /\ lastKey' \in LargestInPandas(b)
       ELSE UNCHANGED <<sawRow, lastKey>>
    /\ UNCHANGED <<phase, window, attempt, sourceVars>>

(* A result without rows is handed over as one empty frame.                *)
DeliverEmptyFrame ==
    /\ phase = "stream"
    /\ pending = {} /\ ~started
    /\ yielded' = TRUE
    /\ started' = TRUE
    /\ UNCHANGED <<phase, window, attempt, pending, lastKey, sawRow, got, repeated, sourceVars>>

Exhaust ==
    /\ phase = "stream"
    /\ pending = {} /\ started
    /\ phase' = "done"
    /\ UNCHANGED <<window, attempt, pending, started, lastKey, sawRow, yielded, got, repeated,
                   sourceVars>>

(* _why_cannot_resume gives no reason.                                     *)
CanResume(temporary) ==
    /\ temporary
    /\ attempt < Attempts
    /\ sawRow \/ ~yielded

(* The query or a fetch raises; `temporary` is is_temporary_error.         *)
SourceError(temporary) ==
    /\ phase \in {"query", "stream"}
    /\ pending' = {}
    /\ IF CanResume(temporary)
       THEN /\ phase' = "query"
            /\ attempt' = attempt + 1
       ELSE /\ phase' = "failed"
            /\ UNCHANGED attempt
    /\ UNCHANGED <<window, started, lastKey, sawRow, yielded, got, repeated, sourceVars>>

(* The caller drops the generator (an exception of its own, or its death). *)
Abandon ==
    /\ phase' = "off"
    /\ pending' = {}
    /\ UNCHANGED <<window, attempt, started, lastKey, sawRow, yielded, got, repeated,
                   sourceVars>>

SourceStep ==
    \/ \E k \in Keys : Insert(k)
    \/ \E k \in Keys : Delete(k)

ReadStep ==
    \/ OpenQuery
    \/ \E b \in SUBSET pending : Deliver(b)
    \/ DeliverEmptyFrame
    \/ Exhaust

(* The component on its own: one read after another, by any caller.        *)
ReadNext ==
    \/ SourceStep
    \/ /\ phase \in {"off", "done", "failed"}
       /\ \E where \in SUBSET Keys : Begin(where)
    \/ ReadStep
    \/ \E temporary \in BOOLEAN : SourceError(temporary)
    \/ phase # "off" /\ Abandon

ReadSpec == ReadInit /\ [][ReadNext]_allReadVars

(* The caller keeps pulling: a started read takes its next step.           *)
FairReadSpec == ReadSpec /\ WF_allReadVars(ReadStep)

-----------------------------------------------------------------------------
(* Properties.                                                             *)

(* No row is handed over twice, whatever number of drops, resumes and      *)
(* restarts, and whatever the source does in between ("Yielded batches are *)
(* never repeated"): every caller copies the batches into a staging table  *)
(* without looking for duplicates.                                         *)
NeverRepeated == repeated = {}

(* A read that ends normally has handed over every row that was in the     *)
(* table all along and passes the caller's condition: a resume loses none. *)
NothingSkipped ==
    phase = "done" => stable \cap window \subseteq got

(* At every moment the rows handed over are, among the stable ones, all up *)
(* to the last key: what a caller commits half-way is a prefix of the read *)
(* (id_watermark's checkpoints rely on it).                                *)
HandedOverIsAPrefix ==
    HasKey /\ phase # "off" =>
        \A k \in stable \cap window : (\E j \in got : k <= j) => k \in got

(* Only rows that the table held during the read are handed over.          *)
NothingInvented == phase # "off" => got \subseteq appeared \cap window
=============================================================================
