# dbextractors in TLA+

`dbextractors` copies tables from source databases (MySQL, MSSQL, PostgreSQL,
Firebird) into one PostgreSQL target. A run is started by a scheduler for one
table: it opens the source (directly or over an SSH tunnel), chooses a *load
strategy*, reads the source in batches, coerces them, and writes the target
through a connection that has autocommit off. Nothing is kept between runs
except what is in the target itself: the rows, their hashes and deletion marks,
the columns and partitions, the unique index, and a ledger of fingerprints.

The modules here model what happens between these moments: a source that
changes while it is read, a connection that drops, a process that dies between
two statements, a second pipeline over the same target, a configuration that is
edited between two runs, a cell whose batch decides what becomes of it, a thread
that logs while another one's run ends - and the run after that.

`PROJECT.json` maps every definition to the lines it models and lists the runs,
the mutants that show each property can fail, the hazards and the theorems.

## 1. Inventory

| component | state | operations | interacts with |
|---|---|---|---|
| `core/reading.py` | generator: attempt, last key, what was handed over | open query, deliver batch, resume, restart, give up | dialects (`iter_batches`), every strategy |
| `strategies/full.py` | shadow table, `SeenKeys`, open transaction | estimate, read, prepare a batch, deduplicate, swap, index | reading, `coerce`, `target_pg`, partitioning |
| `strategies/full_by_source.py` | the same, and the ledger of fingerprints | fingerprint, skip, replace or empty a slice | entrypoint (loop over databases), `target_pg` |
| `strategies/id_watermark.py`, `abra_watermark.py` | staging table; the watermark is `MAX` in the target | delta read, checkpoint, upsert | reading, `full` (fallback) |
| `strategies/hash_diff.py` | temporary table of scanned hashes | precheck, scan, diff, download, mark deleted | source or pandas hashing, `full` (fallback) |
| `strategies/incremental.py`, `parent_incremental.py` | staging table, cutoff | window read, upsert; window read, delete, insert | each other, through the target's copy of the parents |
| `core/target_pg.py`, `partitioning.py` | the target database | shadow, swap, upsert, slice, partitions, columns, index, ledger, marks | all strategies |
| `core/coerce.py`, `hashing.py` | the first batch's types, warnings | promote, coerce, hash, serialise for COPY | `full` and every strategy that stages |
| `core/naming.py`, column handling | the target's columns | select, exclude, require, rename, adopt, drop | entrypoint, strategies |
| `entrypoint.py` | the databases of a run, their status rows | one run per database, isolation of errors | strategies, tunnel, connections |
| `core/tunnel.py` | the ssh process, its listener | probe, start, wait, terminate, kill | entrypoint, the kernel, the network |
| `core/logging.py` | per-thread stack of targets, saved logger state | forward, restore, emit | host application, threads |
| `core/config.py`, `status.py`, `retry.py`, dialects | none of their own | validate, render, wait | entrypoint, strategies |
| `golden/compare.py` and its neighbours | a comparison session, reports | five levels, deviations, verdict | the tables the pipelines write |

What is hard: the source changes during a read and between two reads of the
same run (estimate, fingerprint, scan, download); drops and resumes in the
middle of a stream; transactions of which a part is committed early (checkpoint,
added columns, `CREATE INDEX CONCURRENTLY`) or not at all; state taken from the
target that an earlier, failed run has left; two pipelines over one pair of
tables; rows that move between partitions; the type of a column decided by a
batch that did not have the value yet; statements of two threads between which
a logger is neither the host's nor the package's; a child process that outlives
its parent; a table that is replaced between two statements that compare it.

What makes each part correct: a read repeats and skips nothing; a full load
shows readers one complete copy after the other; a ledger never claims more than
the slice holds; a watermark never passes a missing row; a deletion mark is
never set on a row that was there; a replaced window never collides with what it
left and takes nothing it has not read; a run writes its own rows and no others,
wherever they are partitioned to; a value that can survive the way to PostgreSQL
does, in its own column; one failing database costs no other its turn; no ssh that
obeys a signal stays behind; a record goes to its own run, once; a golden match means that the
tables are the same. And, after the faults end, every strategy brings the target
to its source.

## 2. Modules

| module | models | uses |
|---|---|---|
| `ReadWithResume` | `reading.read_with_resume` over a changing table | |
| `AtomicReplace` | what a reader of the target may see: an abstract specification | |
| `FullLoad` | the strategy `full` | extends `ReadWithResume`, implements `AtomicReplace` |
| `FullBySource` | `full_by_source` and the multi-source loop | |
| `WatermarkLoad` | `id_watermark` and `abra_watermark` | extends `ReadWithResume`, implements its `ReadSpec` |
| `HashDiff` | `hash_diff`, with its fallbacks to a full load | |
| `ParentIncremental` | an `incremental` pipeline of parents and a `parent_incremental` pipeline of their children | |
| `Calendar` | periods, bounds, names and the date arithmetic of `partitioning.py` | |
| `TargetTable` | partitions, the three ways to write, added columns | extends `Calendar` |
| `Cells` | `coerce.py`, per cell and per column of a batch | |
| `Batch` | `_promote_types`, `_prepare`, `prepare_export_df`, the COPY reader | extends `Cells` |
| `ColumnNames` | `naming.py`, `build_context`, the columns a run loads and a target has | |
| `Preparation` | a table from its catalogue to PostgreSQL | extends `ColumnNames` and `Batch` |
| `Tunnel` | `open_tunnel` and the ssh process | |
| `Entrypoint` | `run`, `run_one`, validation and strategy selection | extends `Tunnel` |
| `LogForwarding` | `forward_to` in several threads | |
| `Golden` | the five levels of the golden test, over a table that may be replaced | |
| `RunProofs` | the theorems about `Entrypoint` and `LogForwarding` (section 5) | extends both |
| `ComparisonProofs` | the theorems about `HashDiff` and `Golden` | extends both |
| `LoadProofs` | the theorems about `FullLoad` and `Preparation` | extends both |
| other `...Proofs` | the theorems about the module of that name | |
| `MC...` | values of constants for TLC | the module of that name |

How state and actions correspond to the code:

**ReadWithResume.** A row is its key. `Begin` makes a generator, `OpenQuery`
fixes the snapshot the query streams from, `Deliver` hands over a batch in key
order, `SourceError` is the `except` branch with `_why_cannot_resume`. The key
the resume starts from is the largest of the batch *in the order of pandas*
(`PyRank`), the comparison is the server's. `stable`, `appeared`, `got` and
`repeated` are history.

**FullLoad** composes it with the shadow table, `SeenKeys`, the swap and the
index. `session` is the target inside the transaction and `committed` outside
of it, so that what a crash takes back is a consequence and not an assumption.
A read that has made no shadow rolls back and ends with the target as it was
(`ReadDone`, `full.py:136`); since every dialect hands an empty result over as one
empty batch (`LoadEmptyFrame`), no read ends that way.

**FullBySource** has the databases one after the other, each with a connection
of its own, and abstracts the rows of a slice to the version of the source they
were read at; the fingerprint sees only the content. `settings` holds the
configuration (partitioned, estimate, empty rows allowed), one per behaviour.

**WatermarkLoad** composes the read with the watermark of the target and the
checkpoints. Keys are assigned in order and committed by source transactions, in
that order (`CommitInOrder`) or any other. `step` is where the load is, `phase`
where the read inside it is; every step of a load is a step of the reader or
leaves the reader alone, which is a theorem (`LoadIsACaller`).

**HashDiff** has the hash of a row as its version and the route the hash was
computed along, so that two routes never agree by chance. The initial target is
anything an older extractor may have left: no rows, rows without a hash, rows
hashed along another route.

**ParentIncremental** has dates as days, and a half-year as a number of them.
The window is looked for in the source's parents to read and in the target's
copy of them to delete; both `incremental` shapes (one date column or either of
two) and both cutoffs (days back, deep) are configurations.

**TargetTable** is one target table and the runs over it: `Manage` and `Adopt`
are the two pieces of DDL committed ahead, `Stage` the COPY, `Write` the one
transaction with `Swap`, `Upsert` or `Slice` in it. An operator PostgreSQL may
refuse returns the set of tables it can leave, empty when the statement raises.
The table keeps rows and partitions apart: a partition has a name and the values
it takes, and a row is in the one that takes its value.

**Cells, Batch.** A cell is what Python or PostgreSQL holds and the number it
reads as. `Batch` follows one column: the first batch infers and promotes the
type or the target's schema is loaded, every batch is coerced, hashed and
serialised, and the chunk reader (`reader`: the rows `df` it iterates over, how
many it has serialised, its buffer and its offset into it) hands COPY pieces of
rows; `copied` is what PostgreSQL has of the column. Sizes are scaled down:
`IntMax` for the largest `INTEGER`, `FloatExact` for 2^53, and a time is one of
the day or not.

**ColumnNames, Preparation.** A name is a word in some spelling. A run selects,
excludes and requires columns, names them, is refused by `validate` or drops or
adopts what the target lacks; `Preparation` follows the runs of a table and, at
the moment one is about to write, hands one column with the name it got to
`Batch`.

**Tunnel, Entrypoint.** The tunnel is a context manager around the loop and ssh
a process of its own, which may start, listen, exit, be signalled, and lose its
parent between fork and `prctl`. `Entrypoint` has one action per step of `run`:
configuration, strategy, databases, tunnel, one turn per database, statuses.
What a turn may leave in the target, and whether it reports data, is the set
`Results` of its strategy: `full` takes the whole table or, over a source counted
empty, leaves it; `full_by_source` replaces its slice, keeps it, or falls back to
the whole table without a label; the others bring their rows, find nothing to
bring, or fall back to a full load over whatever there is. A turn that fails, or
is killed, may leave any of these as well, since a checkpoint, a slice or a swap
may be committed by then (`LeftByFailure`).

**LogForwarding** has one action per statement under `_lock`, and a record that
is created, checked against the level, handed to the handlers and propagated in
steps between which another thread may do anything.

A record may name no thread (`logging.logThreads` off): the dispatcher then takes
it for one of the host's, also when a run has logged it, and the run's target
does not get it; `ForwardedOnce` is about the others.

**Golden** has one action per level of a pair, and `Arrive`, which replaces the
compared table between two of them. An entry of the manifest that names no tables
ends the batch where it stands (`MalformedEntry`).

## 3. Runs

| run | question | bounds |
|---|---|---|
| `FullLoad_replace` | does a full load show readers anything but complete copies, put a key in twice, or not end, where pandas orders keys unlike the server? | 3 keys in batches of 2, so that a batch has an inside and a border; 2 attempts, 2 faults: a drop inside a resume, or a drop and a crash |
| `FullBySource_slices` | can a slice be skipped wrongly, be stale, vanish uncounted, or fail to converge? | 2 databases with versions 0..2, the middle one empty; 2 faults; plain and partitioned; 0.7 million states |
| `WatermarkLoad_id` | can the watermark pass a missing row; does the read repeat, skip or reorder; do all rows arrive? | 4 keys in batches of 2, 3 attempts, checkpoint every 2 rows, 3 faults: two drops and a crash; 0.5 million states |
| `WatermarkLoad_abracheckpoint` | is a committed checkpoint of `abra_watermark` a prefix of its delta? (violated) | 4 keys, one suffix outside the configuration |
| `HashDiff_source` | false deletion marks, lost changes, convergence, rows fetched for ever | 3 keys in batches of 2, one key with a NULL, 2 changes, 1 fault; both kinds of hashing |
| `ParentIncremental_daily` | does the insert collide, does a replacement take what it has not read or leave what is gone, do all children arrive? | 3 children of 2 parents, 3 days, half-year of 1 day, 2 changes, 1 dead run; 3 configurations; 1 million states |
| `TargetTable_partitions` | is a key doubled across partitions, does a run write what is not its own, is a run refused without an edit? | 3 runs, 1 edit, 2 moves; 2 keys, 3 days over a month's and a year's border, 3 labels of which two share a slug, 5 values of `partition_by`; 3 million states; the calendar over every day of 2023, 2024 and 2100 |
| `Batch_columns` | which columns and values of a table arrive, and in the right place? | catalogues, old targets and settings of `MCBatch`, over a few words; columns of every kind of cell, 3 rows in batches of 1 or 2; 0.6 million states |
| `Batch_guessed` | are texts nulled because of their column's name? (violated) | a text column in a table without dates |
| `Entrypoint_runs` | does each database get its turn and each forced run all rows, are other slices left alone, does a run end without ssh left? | 2 runs over 2 databases, 1 fault of tunnel or process, 1 change of each database |
| `LogForwarding_threads` | where does a record go, and does the host get its logger back? | 2 threads with two runs inside one another, targets with no level, with WARNING and with a plain handler, records with and without a thread |
| `Golden_compare` | is a match a match, an error always seen, a deviation no wider than agreed? | every pair of small tables in 15 layouts, 2 entries in a batch, 1 replacement, failing statements, entries without tables |

The bounds are small because the hazards are: each needs two batches, one drop,
one change between two statements and one crash, and a second run to see what
the first has left. One more key, version or fault adds states and no new order
of these events; where an instance depends on a relation of two numbers (the
batch size and the keys, the checkpoint and the batch, a number and the limits
of its type) both sides of it occur. Symmetry is used for the keys of
`TargetTable` and for threads, which no operator tells apart and over which no
liveness is checked.

What each passing run shows, property by property:

* `FullLoad_replace`: `NoKeyTwice`; `ReplacesAtomically` (the refinement of
  `AtomicReplace`); `LoadEnds` (a started load ends, with nothing left open,
  whether the read made a shadow or not).
* `FullBySource_slices`: `SkipIsSound` (a skipped slice is that of the source's
  content), `LedgerBehindSlice` (the ledger never names a version newer than
  the slice), `LoadedSliceIsFresh`, `EmptiedAsCounted` (a slice is emptied only
  when the source counted no row, and then is), `Convergence`.
* `WatermarkLoad_id`: `NoHole`, and the reader's `NeverRepeated`,
  `NothingSkipped`, `HandedOverIsAPrefix` inside a load; `Convergence`.
* `HashDiff_source`: `NoFalseDeletion`, `RunBringsRows`, `Convergence`,
  `Settles` (where the source hashes, in the end nothing is fetched any more).
* `ParentIncremental_daily`: `NeverConflicts` (the unique index),
  `NothingTakenAway`, `StaleRowsGo`, `ChildrenArrive`.
* `TargetTable_partitions`: `OneRowPerKey`, `TableInv` (a green run holds what
  it staged, others are untouched, periods tile), `RefusedOnlyWhenEdited`. Two
  labels with one slug are the exception both name: a run that counts no row
  truncates its namesake's partition and ends green (`OthersUntouched`), and one
  that brings rows is refused by PostgreSQL (`SlugTaken`).
* `Batch_columns`: `BufferInv` (COPY gets every row once, in order),
  `ValuesSurvive`, `HashIsOfTheRowAlone`, `NoValueUnderAnothersName`,
  `ColumnsAgree`.
* `Entrypoint_runs`: `TurnsInv` (every database gets its row and its turn, the run
  is red exactly when one failed, a connection and an address belong to a turn;
  of `full` and `full_by_source`, what is reported with data and no later turn
  replaces is in the target), `ForcedBringsEverything` (of a green forced run it
  is no older than the run), `SlicesSurvive`, `NothingHangsOrStays` (no ssh is
  left, but one that ignores the SIGTERM of the kernel).
* `LogForwarding_threads`: `LoggerInv`, `ForwardedOnce`,
  `QuietWhileOthersForward`.
* `Golden_compare`: `MatchIffSame`, `ReportsTellTheWhole`, `LevelFiveIsSound`,
  `EveryPairIsReported`.

Deadlock is checked where the system goes on for ever (the scheduler can always
start a run). `CHECK_DEADLOCK FALSE` is in `Entrypoint_runs` and
`TargetTable_partitions`, whose number of runs is bounded, and in
`Golden_compare`, where the batch of pairs ends.

## 4. Fairness

* A started run takes its next step (`WF` of `Progress` in `FullLoad`,
  `FullBySource`, `WatermarkLoad` and `HashDiff`): the strategies are sequential
  and have no wait that another process must end; the waits between attempts
  are finite.
* The scheduler starts runs again and again (`WF` of `Start`, `StartRun`,
  `ParentRun`, `ChildRun`), which is how the package is used: there is no retry
  of its own around a run.
* `Entrypoint`: `WF` of `RunStep`, as every wait for ssh has a timeout; of the
  exit of a process that has been sent SIGKILL, and of one whose parent is dead,
  which has asked for a signal of it and does not hang (`LeftoverDies("dying")`).
  That signal is SIGTERM (`tunnel.py:188`): a process that hangs may ignore it, and
  nothing is assumed of it (`LeftoverDies("deaf")` may happen or not).
* `Golden`: `WF` of `CompareTables`; statements return or fail.
* No fairness for changes, drops, faults or crashes, which are bounded; liveness
  is about what happens after the last of them. In `ParentIncremental` a day
  does not end before a child run of that day has come through: the lookback
  promises nothing to a pipeline that is not run within it.

## 5. Proved

By TLAPS, for every value of the constants that satisfies the modules'
assumptions (`ReadAssumption`, `FullAssumption`, `ConstantsAssumption`,
`WatermarkAssumption`, `HashAssumption`, `ParentAssumption`,
`ForwardAssumption`, `TargetAssumption`, `GoldenAssumption`,
`EntrypointAssumption`, `TunnelAssumption`, `ColumnNamesAssumption`,
`CellsAssumption`, `BatchAssumption`, `ColumnAssumption`; TLC evaluates each of
them on the runs' instances). A further assumption is a hypothesis of the
theorem, and named here. None of the properties is inductive; what follows is
the strengthening and why it is needed.

* `ReadWithResumeProofs`: type correctness, no row invented
  (`NoRowIsInvented`), no stable row skipped (`NoRowIsSkipped`). Under
  `OrdersAgree` - pandas and the server order keys alike - no row is repeated
  (`NoRowIsRepeated`) and what has been handed over is a prefix
  (`PrefixHandedOver`). `NothingSkipped` does not need `OrdersAgree`: the last
  key in pandas' order is one of the keys of the batch, so a resume starts
  within what has been delivered. The strengthening says where the rows of the
  window are: at or below the last key (delivered), or pending in the open
  query, or not there when the query was opened; and that the last key has been
  delivered. `NoRowIsRepeated` needs in addition that everything delivered is at
  or below the last key, which is where the order of pandas comes in.
* `LoadProofs`, of `FullLoad`: type correctness, `NoKeyTwice` (with `seen` a superset of
  the shadow as the strengthening) and that `FullLoad` implements
  `AtomicReplace`: every step is a replacement by rows between the stable and
  the appeared ones, a change of the source, a new look, or a stutter.
* `LoadProofs`, of `Preparation`: all that `Batch_columns` checks, for every
  catalogue, old target and setting, every number of rows, every cell a column
  of its kind may hold (`ColumnAssumption`) and every size of batches, chunks and
  reads. Of the columns (`NoValueUnderAnothersName`, `ColumnsAgree`): the names
  of a run are made of its columns, one by one and in their order, through
  selection, exclusion, dropping and adoption (`ColumnsInv`), so that a place in
  the one is a place in the other; the lemmas say where a selection leaves each
  element (`SelectIs`, on the rank of its place). Of the batches (`BufferInv`,
  `HashIsOfTheRowAlone`): the rows of a batch follow one another, what is unread
  are the last ones, and what was sent, what the buffer holds behind its offset
  and what is not serialised are together the pieces of the batch (`BatchInv`).
  Of the values (`ValuesSurvive`): whatever has been copied was coerced in *some*
  batch of the source, to the type the first one has settled, was precise enough
  there, and was accepted (`ValueInv`). What remains is about the operators, cell
  by cell and for any company: a column without numbers is inferred as it is
  (`InferredSame`), texts, times and dates come out as themselves
  (`TextExported`, `TimeExported`, `DateExported`), and an integer is itself or
  its nearest float64, the latter only beside a NULL (`Carries`,
  `NumberExported`) and, checked strictly, only where the two are one or the first
  is 2^53 + 1.
* `FullBySourceProofs`: type correctness, `LedgerBehindSlice`,
  `LoadedSliceIsFresh`, `EmptiedAsCounted`, and `SkipIsSound` under
  `NeverReturns` (between two versions with one fingerprint nothing has
  changed). Until a slice is emptied or swapped the open transaction holds
  nothing of its own (`SyncInv`); every fingerprint in the ledger is that of a
  version at or before the one in the slice (`Behind`), also the one this run is
  about to write, since it was taken before the rows were read (`MomentInv`).
  Without `NeverReturns` a fingerprint that comes back skips a change: a weakness
  of the fingerprint, not of the protocol.
* `WatermarkLoadProofs`: a load is a caller of the reader (`LoadIsACaller`:
  `Spec => ReadSpec`), so the reader's theorems hold within it
  (`LoadSkipsNothing`, and under `OrdersAgree` `LoadRepeatsNothing`,
  `LoadHandsOverAPrefix`); type correctness; and `NoHole` under `CounterIsKey`
  (the watermark is the key the read is ordered by, and rows are committed in
  key order) and `OrdersAgree`. A row that appears is above everything committed
  before it (`SourceInv`), so what has been handed over stays closed below even
  for rows that appear during the read (`ClosedInv`), and what lies below the
  window was in the target when the run began (`RunInv`, `BelowTarget`): target
  and staging together are closed below at every step, whatever part of them a
  checkpoint, a failure or a death commits.
* `ComparisonProofs`, of `HashDiff`: type correctness, `NoFalseDeletion` and
  `RunBringsRows`. The invariant has what neither property says: a hash in the
  snapshot is of a version the row has had since the run began (`SnapshotInv`);
  what the open read has passed without bringing was absent for a moment
  (`PassedInv`, on the lemma that a batch has no hole below its last key); a
  stored hash is that of the row it stands with (`HashInv`); and a row that was
  scanned and will not be fetched has the hash that is in the snapshot
  (`FetchInv`). The proof does not use how a hash is routed: a difference in
  routing costs a download, never a row.
* `ParentIncrementalProofs`: type correctness, `NeverConflicts`,
  `NothingTakenAway` and `StaleRowsGo`, for every foreign key and configuration
  of the windows. The copy of a parent is never newer than the source's parent
  (`CopyInv`), so a parent inside the window of the copy is inside that of the
  source; and of a parent that has not changed since the run began the staging
  table holds all children or none, in the versions they have now (`ReadInv`).
* `ComparisonProofs`, of `Golden`: for any two tables whose columns have one name
  and one type each and whose cells are numbers or empty (`GoldenAssumption`), any
  options, any number of rows, arrivals and pairs, all that `Golden_compare`
  checks but its liveness: `ReportsTellTheWhole`, `LevelFiveIsSound` and
  `MatchIffSame`. Where the comparison is says how many levels the
  report has (`PlaceInv`); until a pipeline arrives, what the catalogue has
  answered is what the tables are (`SeenInv`), and so each level says what there
  is to say of them (`FoundInv`): names and types differ by accepted deviations
  only, and level 5 has passed only over as many rows that agree.
  No false match (`MatchesAreIdentical`): that the rows are the same *as often*
  is a step of its own. Agreement gives every right row a left partner, a key
  that is one makes that a surjection of the places of the one onto those of the
  other, and between as many places it is a bijection (`HeldAsOften`). The
  checksums of level 4 are not used: what they add is found by level 5 too.
  No false alarm (`EqualTablesMatch`): tables that hold the same as often have
  rows that are paired off (`RowsAreOfTwo`), so that every level so far is clean
  and none has a sample to take (`EqualInv`). Level 5 finds that partners agree
  and nothing else has the same key (`PartnersAgree`); in level 4 counts, extremes
  and digests are those of the partners (`SameChecksum`). The sum of a column is
  recursive in `MapThenSumSet`, which takes the rows in an order of its own:
  that it is the sum of *any* row and the others (`SumTakes`), and the same over
  partners (`SameSum`), is an induction. The library's principles take an operator
  as a parameter, so this one is stated over a set that has 0 and the successor of
  each of its numbers (`InductionInASet`, from the order of the naturals being
  well founded).
* `RunProofs`, of `Entrypoint`: `TurnsInv`, `ForcedBringsEverything` and
  `SlicesSurvive`, for any number of databases, runs, calls that fail and
  changes. The tunnel is left with every turn served or before the first one
  (`LoopInv`), which needs what each step of the context manager says of the ssh
  process (`TunnelInv`); a run does what the configuration and
  `forced_full_load` made of it (`DecidedInv`); what a kept turn reports is there
  whoever comes after (`TurnsKept`). The promise about the target is made where
  the code keeps it: for `full` and `full_by_source`, of a turn that reports data
  and is the last one, or has a slice of its own.
* `RunProofs`, of `LogForwarding`: `LoggerInv`, `ForwardedOnce` and
  `QuietWhileOthersForward`, for any number of threads and any depth. Only the
  holder of the lock is between two statements that change the logger
  (`LockInv`), and where it is says what the logger looks like (`StageInv`); the
  level serves every target but one that has just been pushed (`Served`); a
  record is checked against a level its own target is served by, and a record
  that is calm has not seen the logger on the way (`RecordInv`).
* `TargetTableProofs`: `OneRowPerKey` without a hypothesis, `TableInv` under
  `RealDays` (the days the calendar is checked over exist), and
  `RefusedOnlyWhenEdited` under `SoundDates` (the days are real, and no two of them
  share a slug, which `partitioning.py` guarantees by writing them out); labels may
  share one. The argument is in what a statement leaves of the rows: partitions
  are only added (`EnsureAdds`), so the ways to write differ in the rows they
  remove and in nothing else (`Rewritten`); until then the table holds what it
  held when the run began (`RunInv`). A slug names one partition, of one label
  (`Sliced`), so TRUNCATE of a label's partition removes that label's rows or, where
  the name was taken by another, the other's (`TruncateLeaves`) - and then no row
  of the run's own label is accepted any more, so only a run that stages nothing
  commits the loss (`Left`). `RealDays` gives that periods tile, by the arithmetic
  of months and leap years. The invariant of `RefusedOnlyWhenEdited`
  (`UneditedInv`) is about every partition there is: while `partition_by` is not
  edited, each is the one of a value, named and bounded by one rule, and every row
  has its own (`Ruled`); a table that is not there has none (`Unbuilt`), and the
  specification asks for the layout there is (`AskedFor`). Two dates share a
  partition exactly if they share its name (`TakesNamesakes`, on the calendar), so
  creating what is missing never overlaps, and what is then routed or upserted
  finds its place; a label whose name is free gets its partition
  (`SliceIsReady`).

Only model-checked:

* all liveness (`LoadEnds`, `Convergence`, `Settles`, `ChildrenArrive`,
  `NothingHangsOrStays`, `EveryPairIsReported`), which is out of the prover's
  reach. Every other property of a passing run is stated by a theorem.

Data defined by recursion (dates of arbitrary years, sequences of batches) is
checked over bounded inputs.

## 6. Where the code and its documentation disagree

Two have a run TLC must find violated:

1. `WatermarkLoad_abracheckpoint`: `abra_watermark` inherits checkpoints that
   are right only for a read ordered by the watermark.
2. `Batch_guessed`: a text column whose name hints at a date, or a `TIME` column
   called `start_time`, loses its values in a table without a date column, in a
   green run: the guess that a docstring
   keeps for callers that name no columns is taken whenever they name none.

Seen while modelling, without a run of their own:

* `full_by_source`: with no fingerprint the deletion of an emptied database's
  slice is never committed, and the run reports success (`EmptiedAsCounted` is
  stated for runs with a fingerprint). The ledger row is committed after the
  slice, not "in the same transaction" (`status.py`). The index of a partitioned
  target is not committed.
* `full`: without an estimate an empty source replaces the target by nothing
  although `empty_rows_ok` is off (`README.md:354`); an empty result is handed
  over as one empty frame, so the branch that should prevent it is not reached.
  `_empty_target` swaps without the partition specification: a first, empty run
  makes a plain table.
* `abra_watermark`: with checkpoints off a drop and a resume leave the same hole.
* Over a text key whose collation is not the order of code points a resume
  repeats rows; `SeenKeys` drops the duplicates in `full`, the upsert elsewhere.
* `parent_incremental`: a window with no child rows at all ends the run before
  the delete that its docstring calls the point of the strategy (`StaleRowsGo`
  is about runs that reach it). A parents' run that commits between read and
  delete widens the delete window, and takes unread children of a parent that
  has changed (`NothingTakenAway` is about those that have not). Parents with
  `updated_at_column` use `days_back` while their children use the deep cutoff,
  although the docstring says that the windows match.
* `hash_diff` transfers rows for ever where pandas hashes and a NULL makes a
  column of one batch a float (`hashing.py` concedes it); `Settles` is stated for
  sources that hash. The branch of `compute_hash_columns` for
  `only_selected_columns` is dead.
* Columns: `incremental` drops a column the target lacks while its row hash
  includes it; a difference only in case makes COPY fail; `_hash_column` is not
  normalised; a source column `timestamp` becomes `_timestamp` with a warning
  that its values are overwritten, which are kept (`naming.py:227`,
  `hashing.py:265`); a key can be excluded for other methods than `incremental`
  and `hash`, which `validate` then refuses to run; a
  quoted lower-case column of Firebird is taken for upper case.
* `coerce.py`: 2^53 + 1, which is said not to pass (`coerce.py:1109`), passes as
  the float 2^53; digits in a text
  column go through `float()` unreported; `_promote_types` says what is not so
  for `full`; a MySQL `TIME` past 24 hours or below zero, which `to_time_str` is
  made for, is written as it is and ends the run, since the target column is a
  `TIME`.
* Partitioning: two labels with one slug share the name of a partition. A load of
  one that counts no row truncates the other's and is green (the exception in
  `OthersUntouched`); a load with rows fails for good.
* `id_watermark` and `hash_diff` over several databases in one target: the first
  reads above `MAX` of the whole table, and either falls back to a full load that
  takes the other databases' rows, in a green run (`hash_diff.py:185`, `217`;
  `base.py:331`). No document promises more, and `TurnsInv` does not; `full` over
  several databases keeps the last one's rows only.
* A forced `full` over a source counted empty, with `empty_rows_ok` off, is green
  and leaves the older rows (`full.py:217`); `ForcedBringsEverything` is about what
  is reported with data.
* Tunnel: an ssh process that hangs ignores the kernel's SIGTERM and stays after
  its parent was killed, although `tunnel.py` means it to go.
* Golden: one malformed entry of a manifest ends the batch, and the reports of the
  pairs before it are not written (`cli.py:205`).
* Logging: with `logging.logThreads` off a run's own records go to the host and not
  to the run's target (`logging.py:79`).
* `CREATE INDEX CONCURRENTLY` that fails leaves an invalid index that later runs
  accept.
* Logging: a target at WARNING raises the level the host sees (`logging.py:43`).
* Configuration: an empty `DATABASES` is refused without `SOURCE_DB.database`;
  `multi_source` left unset is decided by the length of the list, unlike
  `README.md:368`.
* Golden: a key that names `_timestamp` tells rows apart by when they were loaded,
  so level 5 differs for every reload; `EqualTables` is about other keys.
* Golden: an added mandatory column hides a reordering (`compare.py:149`); the
  exit code and the count of matches differ from `model.py:45`; NULL keys are
  joined as equal; "same key and row_hash, different data" counts other pairs
  too; "all five levels match" is printed when level 5 was skipped; a right table
  dropped meanwhile reads as one without columns. `leftovers --clean` drops the
  scratch schemas of a test that is running.
* `find_stale_shadows`, `align_df_columns_to_db`, `apply_live_pk_snapshot` and
  `retry.with_retry` are called by nothing.

## 7. Not modelled

* `target_conn` (resolving a DSN), `secrets` (redaction of text), the running
  and reporting half of `golden`, and the scripts: configuration, text and
  input or output, without a state that steps could disturb.
* In part: `abra_watermark` (its textual counter is a constant function; its
  safety is the violated run), strategy selection (`resolve_batch_size` is
  arithmetic on sizes), `status` (rows, without progress lines), dialects (what
  their readers hand over and how they fold names, without the SQL text), `retry`
  (`wait_for_port`), `config` (what validation refuses, without the parsing of
  each key) and `naming` (a name is a word and a spelling, and the reserved words
  are a set).
* Left out of modelled components: children that move to another parent or have
  no foreign key; the type and spelling of a date text; a free port another
  process takes before ssh binds it; the error of a `DROP` in an aborted
  transaction that replaces the first error. The last three hazards without a
  property in `PROJECT.json` say what stands in the way.

## 8. Plan

Done: the strategies (`FullLoad`, `FullBySource`, `WatermarkLoad`, `HashDiff`,
`ParentIncremental`) over the reader, with proofs of their safety; the target
(`TargetTable`, `Calendar`) with its proofs; the way of a column (`ColumnNames`,
`Cells`, `Batch`, `Preparation`) with its proofs; the run (`Entrypoint`, `Tunnel`) and
`LogForwarding` with their proofs; the golden comparison (`Golden`) with its proofs.

Left, in this order:

1. The aborted transaction: `SeenKeys.close`, `SourceHashSnapshot.close` and
   `checkpoint` after a failed COPY, and the index in its three states, as a
   module the strategies' commits are stated over.
2. Children that change their parent, in `ParentIncremental`.
3. The free port of the tunnel, with a second process on the host.
