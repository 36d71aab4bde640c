# Formal model of agent-spreadsheet

agent-spreadsheet lets programs read and write spreadsheets: by resident
sessions whose every change is a commit record in a durable stream, by forks of a
workbook in a server, by a command line that replaces files, and by canonical
operations that are the same on all of them.  This directory holds TLA+ models of
these parts, the TLC configurations that check them on small instances, and TLAPS
proofs that hold for every instance.

Source paths below are relative to `src/crates/agent-spreadsheet/src/` unless
they start with another directory.  `PROJECT.json` maps every definition to the
lines it models and lists runs, mutants, hazards and theorems.

    tlc -workers 2 -config ResidentJournal.cfg MCResidentJournal
    tlapm ResidentJournal_proofs.tla

Sections: 1 the system, 2 the modules, 3 the runs, 4 the theorems, 5 the finding,
6 known deviations, 7 what is not modelled, 8 what remains.

## 1. The system

### Parts, their state and their operations

| Part | State | Operations | Modelled in |
|---|---|---|---|
| Commit storage contract, trait `ResidentCommitStorage` (`core/resident_storage.rs`) | the stream of records | `load`, `commit`, `reconcile` | `DurableLog` |
| Native journal `NativeResidentJournal` (same file) | one JSON-lines file and a lock file per session, shared by processes | the same three, by system calls | `ResidentJournal` |
| Replay `PortableHistoryState` (same file) | head, branches, staged changes, checkpoints, generation, revision, calculation status | one transition per kind of record | `ResidentHistory` |
| Owner `ResidentWriteSession` (`canonical_write.rs`) | document, revision, generation, staged changes, stamp, poisoned flag | writes, staging, undo, redo, checkout, branches, checkpoints, calculation, lifecycle receipts, recovery | `ResidentOwner` |
| Resident workbook (`recalc/resident.rs`) | document, retained evaluator, revision, calculation stamp, cached capture | publishing cells, replacing the document, calculation, snapshot, recovery | `ResidentWorkbook` |
| Session runtime (`session.rs`, `canonical_outcome.rs`) | the owner, the responses retained in the records, whether the resource is discarded, the poisoning request | every durable operation, repeats, outcome query, terminal session | `SessionRuntime` |
| File export (`resident_export.rs`, `native_export.rs`) | retained captures, plan and result receipts, the destination file | `export_file`, `authorize`, `retain`, `publish`, `file_export_outcome` | `FileExport` |
| Resource bindings and creation (`native_resident.rs`, `native_host.rs`) | directories, pending or active, with base, binding and journal | prepare, receipt, activation, reconciliation, restart | `ResourceCreation` |
| Native host (`native_host.rs`, `native_resident.rs`) | owner table, admission mutex, lane threads with bounded queues, closing flag | execute, attach, detach, discard, create, bind, list, verify, shutdown | `NativeHost` |
| Fork registry (`fork.rs`) | table of forks, a mutex around it and one per fork | create, use, snapshot, discard, expiry | `ForkRegistry` |
| A fork (`canonical_lifecycle.rs`, `tools/fork.rs`, `state.rs`) | work file, tokens, staged changes, checkpoints, history, recalculation flag, workbook cache, calculation ledger | canonical operations, batch tools, lifecycle tools, cached reads | `ForkLifecycle` |
| Legacy sessions (`core/session_store.rs`, `core/binlog.rs`, import in `canonical_write.rs`) | event log, `HEAD`, `CURRENT_BRANCH`, `branches.json`, lock | append, undo, redo, checkout, branches, freeze, import | `LegacySession` |
| Command line (`cli/mod.rs`, `cli/commands/`) | files of a directory | every command that writes a file | `CliFiles` |
| Canonical writes (`canonical_write.rs`, `tools/mutate_batch.rs`, `core/session.rs`) | one document and its revision | preview, stage, apply; general, resident, batch and session paths | `WriteTransaction`, `WriteOps` |
| Structure edits (`tools/fork.rs`, `tools/structure_impact.rs`, `formula/pattern.rs`) | a workbook with formulas, names, merges, validations | rows, columns, sheets, ranges, pattern fill; impact preview | `StructureEdit`, `A1Refs` |
| Write planner (`core/write_planner.rs`) | none; plans over a workbook | append to a region or table, clone a row or a band | `WritePlanner` |
| Diff and verification (`diff/`, `cli/commands/diff.rs`, `verification.rs`) | none; two workbooks | change set, groups, filters, verdict | `WorkbookDiff` |
| Paged and bounded reads (`canonical_reads.rs`, `tools/mod.rs`, `core/session.rs`) | none; cursors in the client | pages by cursor, offset or row; bounded analyses | `PagedReads` |
| Browser runtime, SDK, recalculation backends, MCP server, renderer | see section 7 | | no |

### How they interact

A client call reaches the owner of a resource through the host's lane for it (one
thread, so one operation at a time).  The runtime checks discard and poison, looks
for the request in the journal, and otherwise lets the owner load the stream,
compare it with what it holds and prepare one record; the response is prepared too
and put into the same record.  The storage appends it under a file lock, replays the
whole stream with the record to validate it, makes it durable and answers.  Only then
does the owner publish into its workbook.  When `commit` fails the owner asks
`reconcile`; when that fails too the outcome is unknown and the owner is *poisoned*:
it refuses everything but diagnostics until it is recovered from the stream.  Recovery
ends with a `Restart` record, which makes every other owner of the stream stale.

    client -> NativeHost (table, admission, lanes) -> SessionRuntime
                 |                                       |  prepare, commit, publish
                 +- create: ResourceCreation             v
                 |                         ResidentOwner -- load/commit/reconcile --> DurableLog
                 +- export: FileExport        |   |                                     ^ implements
                                              |   +- replay: ResidentHistory     ResidentJournal
                                              +- publish: ResidentWorkbook   (files, flock, fsync)

    client -> server -> ForkLifecycle (one fork) in ForkRegistry (all forks, mutexes)
    shell  -> CliFiles (temporary file, fsync, rename), LegacySession -- import --> ResidentHistory

    every surface -> WriteTransaction -> WriteOps, StructureEdit <- WritePlanner
                     WorkbookDiff (what changed, is it the same), PagedReads (looking)

### What is hard

* *Crash recovery.*  Between write, fsync of the file and fsync of the directory
  the machine may stop; afterwards everything reported must be there, and
  everything reported absent must stay absent.
* *Unknown outcomes.*  A commit may succeed and its answer be lost.  Retries with
  the same request identity, from this or another process, must get one outcome.
* *Stale owners.*  Several processes may hold the same session.  An owner compares
  two tokens, revision and catalog generation, and nothing else.
* *Two implementations of one semantics.*  The owner predicts the effect of each
  record, replay recomputes it, recovery rebuilds it; the resident fast path computes
  from touched cells what the general transaction computes from the workbook; the
  dry run says what the application does.
* *Derived state.*  Evaluator, stamp, cached capture, workbook cache and
  `recalc_needed` must follow every edit, including the ones that fail half way.
* *Locks and queues.*  Detach holds the owner table across an await, a discard takes
  the registry holding a context, snapshots hold several contexts.
* *A file system shared with other programs.*  Destinations and sources may change
  at any time, and a rename is no compare-and-set.
* *References.*  A range that straddles, ends in or lies behind a deleted band, a plan
  computed before the insertion that shifts it, a text table that another sheet's edit
  renumbers.
* *Pages.*  A walk goes on while the document is written.

The complete list, at its lines and with the properties that watch over it, is
under `hazards` in `PROJECT.json`.

### What makes each part correct

* Storage: one chain of records, one record per request identity, `Committed` is
  for ever, `NotFound` is for ever.  Journal: it is such a storage, whatever fails;
  every call returns.
* Replay and owner: predictions hold; an owner that passes the token check is equal
  to the stream; no owner goes on beside its own unpublished commit; at most one owner
  is in step; a token names one state for ever; documents that were seen stay
  reachable.
* Workbook: capture, evaluator and stamp agree with the document.
* Runtime: a repeated request is answered as the first time and takes effect once;
  a runtime that serves holds what its journal replays to.
* Creation: an answered creation is complete, durable and the only one of its request.
* Export: a request places one content, a reported file is on disk, a published file
  can be acknowledged, newer data is not lost.
* Host: one owner per resource, accepted work is executed, nothing follows a discard,
  everybody is answered.
* Forks: tokens name states, files match the table, a lowered flag is true; registry
  and files agree, no circle of waits.
* Files of the CLI and of legacy sessions: whole at every moment, and as reported.
* Writes: one meaning on all paths, an answer that explains the document, an exact
  diff, verdicts that are proofs, references and copies that keep their cells, plans
  that are what happens.
* Reads: a walk is whole and ends.

## 2. The modules

**`DurableLog`** is the contract: `log` (what readers see), `firm` (how much of it
survives), and the answers given so far (`told`, `refuted`).  Append is a
compare-and-set on the last commit; only firm records may be told; a loss takes a
suffix above `firm`.

**`ResidentJournal`** is the file at the granularity of system calls.  `lines` and
`tail` are the file, `entry` its directory entry, `synced` what the last fsync
covers, `lock` the flock, `pc`, `call` and `loaded` the locals of the call each
process is in.  `LockAndLoad`, `OpenForAppend`, `SyncCut`, `WritePart`,
`WriteRest`, `SyncFile`, `SyncDirectory` and the answers are the steps of `commit`
and `reconcile` in the order of the code; `Refuse` is their early returns;
`IoError` is any `?`.  The byte quota counts lines.  A power loss keeps a prefix of
the lines that were not synced, possibly a torn one, and may undo a truncation
that was not synced.  `Log` instantiates `DurableLog` with `log <- lines` and
`firm <- IF entry = "durable" THEN synced ELSE 0`.

**`ResidentHistory`** has no variables: `After(h, r)` is the state replay computes
after a record and `Accepts(h, r)` the test the record must pass, for all kinds of
transition: it names the last commit as its parent, and `Follows(h, r)`, everything the
test asks of its contents.  Commits are numbers, `Lineage` is `active_ancestry`, `RedoTarget` is
`redo_target`.

**`ResidentOwner`** composes an arbitrary number of owners with the log (by
instantiating `DurableLog`) and with replay (by extending `ResidentHistory`).
Every durable operation of `canonical_write.rs` is an action that ends in a
prepared record (`Prepare`), and then shares the steps `Reload`, `CommitAppend`,
`CommitBarrier`, `FindExisting`, `CommitRefuses`, `CommitFails`,
`ReconcileNotFound`, `ReconcileFails`, `Publish`, `PublishFails`,
`PublishOriginal`.  `Recover` and `Recovered` are
`recover_durable_resident_session`.  Choices worth knowing:

* A document is the sequence of write commits applied to the base.
* Operations other than writes and staging load the stream several times.  The
  model has the first load (the operation's guard) and the last one (`Reload`);
  whatever could differ between two loads is a new tip, which the last one or
  the compare-and-set notices.
* Records carry two fields the code does not store: `by`, the owner that appended
  it, and `post`, the state replay reaches with it.  Replay always starts at the
  first record, so its state after a prefix depends on that prefix alone.
* A control operation that finds its request already recorded keeps going only if
  revision and generation are unchanged, and poisons the owner otherwise; a write
  returns the recorded outcome and stays usable.

**`ResidentWorkbook`** keeps the variables of the struct.  Content is abstracted to
inputs, looks and the inputs its cached results were computed from; an evaluator
is the inputs it holds.  `broken` marks an operation that failed half way, after
which the owner is poisoned and reopens the workbook.

**`SessionRuntime`** is the layer above one owner: a step is a whole call of
`execute` on the lane, with what its storage calls answered.  A record carries the
request, the transition, the item it is about, the revision and the retained
response; `Replay` computes what a session can tell of the stream, and the `Valid…`
operators are `canonical_outcome::validate`, which the journal applies to every
record.  `Perform` is a new request; `OutcomeUnknown`, `PublicationFails` and
`CalculationFails` poison the owner; `Repeat` and `QueryOutcome` answer from the
journal; `Attach`, `AttachTerminal`, `Detach`, `KilledInCommit` and `LosePower` are
the life of the process.  Calls that only fail change nothing and are left out, and
so is the artifact an `export_fork` publishes before its receipt.  `Replays(log)` is
the sequence of states a replay goes through, a recursive function on the numbers, so
that it can be proved about.

**`ResourceCreation`** has the directories below the bindings' root (`active`: under
the resource's name, `kept`: what a power loss leaves of that name, `parts` and
`synced`: base, binding and journal), one creation at a time (the admission mutex and
`catalog.lock`), and the source, which other programs save.

**`FileExport`** is one owner (the lane serialises operations, the ownership lock
keeps other processes out) and its exports.  `seen[p]` is what a reader finds at a
path, `kept[p]` the contents a power loss may leave there, `captures[d]` the
retained file of a document ("none", "part", "full", "durable").  The actions
follow `export_file` and `publish` step by step; `ForeignWrite` is another program.
The window between the last look and the rename is observed by `op.raced`.  Checks
of paths and permissions, which only refuse, are left out; so is `expected_revision`.

**`NativeHost`** has the owner table, the admission mutex, lanes with their threads
and queues, and one section of the code between two awaits per step.  Requests are
tasks of the executor (dropped with their connection at any await) or jobs on a
blocking worker (which outlive it).  A workload says which resources exist, which are
active, the capacities, and what clients ask for.

**`ForkRegistry`** has the mutex of the table and one per context; handles are taken
under one and used under the other.  `Admit`, `Copy` and `Insert` are the three parts of
`create_fork`, and each may fail; a copy or a context that fails leaves the work file
(`LeftBehind`).  **`ForkLifecycle`** is one fork: a content is a
number (bytes and hash at once), with the set of edits in it and whether its cached
results belong to them.  The canonical surface compares tokens under the mutex; the
batch tools read, change and write the work file outside of it.  `CallFails` is a tool
that returns an error between its copy and the listing or the save, `CheckpointFails` a
checkpoint whose copy fails; `failed` remembers the snapshot files that stay.  Not
modelled are failures of the best-effort removals, of reading back a file just written,
and writes over the work file in place that stop half way (the `fs::copy` of a restore,
`fork.rs:561`, and an evaluation in place).

**`LegacySession`** writes each pointer file in two steps (`fs::write` truncates
first), with a kill between any two; `Imported` is the stream the import makes, which
`ResidentHistory` replays.  An event carries the hash the code gives it, none when HEAD
was empty, and `Sound` is the test of `read_events`, so that a log the code appends to and
then refuses is in the model.

**`CliFiles`** runs one command per process, system call by system call, in one of
three ways: staged (temporary copy, fsync, rename, fsync of the directory), machine
(a canonical operation on a private fork), direct.  A workbook is the set of commands
whose effect it contains.

**`WriteOps`** has each operation of a write as a function from a document to
`[ok, doc]`: it works in place and may fail half way.  **`WorkbookDiff`** saves two
documents (shared text table, parts) and computes change set, groups, filters and
verdict as the code does.  **`WriteTransaction`** puts both together: one request, one
action, on each of the five paths.  `mutate_batch` runs its groups one by one through the
tool of their family (`RunGroup`); `transform_batch` looks at the formulas of fills and
matrices first and fails, leaves them out or writes them, by the parse policy.  **`A1Refs`** is the arithmetic of references (the
rewriter, the impact preview, the pattern shift); **`StructureEdit`** the batches with
the rewriting that follows each operation; **`WritePlanner`** plans over that
workbook, carried out with its operations.  The grid of the models is 7 by 3, so the
last row and column are within reach.

**`PagedReads`** is a client that walks the pages of one request, while writes and a
changed request come in between.  `Answer(d, q)` is what the request asks for, stated
without pages; each read is the function of the code, with its budgets.

The `MC…` modules combine components that share a run but not their state: a
behaviour chooses its part at the beginning (`MCSessions`, `MCFiles`, `MCLocks`,
`MCWrites`).

Definitions that begin with the comment `Mutant:` are plausible mistakes in the
definition after them.  They are not part of any specification; each shows that the
property it breaks is about the code.

Modelled from how the code uses them, and assumed: `flock` excludes other holders
and is released with its handle; a successful `fsync` makes the file's content
durable and one on the directory its entry; a retry of a failed fsync that succeeds
is truthful; `rename` replaces atomically and `hard_link` fails on an existing
name; fresh UUIDs (epochs, commit identities) never repeat; results of the external
evaluator belong to the inputs it was given.  Of the workbook library: cells are
iterated in a fixed order; the writer emits empty cells as empty elements, numbers
shared texts in the order it meets them, and style numbers name the same style in
both files of a comparison; inserting rows leaves table areas alone.

## 3. Runs

State counts are distinct states; each run takes less than four minutes on two
workers.

| Run | Instance | Checks | States |
|---|---|---|---|
| `journal` | 2 processes, 2 requests with 2 fingerprints, 2 lines, 2 attempts, 1 kill or power loss | `AcknowledgedSurvives`, `NotFoundIsFinal`, `ImplementsDurableLog` | 369,200 |
| `owner_alone` | 1 owner; three workloads: 5 records of writes and navigation; 4 records of every other operation with a failure; 6 attempts of writes, staging and undo with 2 failures | `TokenCheckSuffices`, `PredictionsHold`, `HistoryNavigable`, `TokenNamesOneState` | 647,610 |
| `owner_rivals` | 2 owners, 3 attempts, 3 records; staging with 1 failure, and writes with 3 | `OwnersAreFenced`, `ToldAndSeenStand` | 740,120 |
| `sessions` | one workbook (2 inputs, 2 looks, 2 epochs, 4 state numbers); or one runtime with 3 request identities, 5 records, 2 failures and three mixes of operations; or 2 creations of 2 source generations, 3 directories, 2 failures | `SnapshotCoherent`, `EvaluatorFollowsDocument`, `CurrentMeansComputed`; `RepeatedRequestsAgree`, `RuntimeMatchesJournal`; `AnsweredCreationStands` | 201,818 |
| `files` | exports (2 requests, 2 plans, 2 captures, 1 edit, 2 foreign writes, 3 failures); or 2 commands, any beside four rivals, 1 failure; or a legacy session of 2 processes with a kill, or 1 process with 4 events on 3 branches, frozen and imported | `OneContentPerRequest`, `ReportedFileSurvives`, `ResultCanBeRecorded`, `NoNewerDataLost`; `CommandsKeepTheirWord`; `LegacyHistoryStands` | 3,066,935 |
| `host_lanes` | 3 requests, 2 resources, room for 1 owner, queues of 1 and 2 | `OneOwnerPerResource`, `AcceptedIsSettled`, `DiscardIsLast` | 1,177,726 |
| `host_liveness` | 2 requests of what waits for several lanes, fair threads | `EveryRequestEnds` | 135,850 |
| `fork` | five mixes: two clients of the canonical surface (longer, and shorter with a call that fails after its copy), reads beside writes, two clients of the tools and one client of every batch tool, each with such a call | `TokensAreReliable`, `FilesMatchTheRecords`, `LoweredFlagIsFresh` | 2,269,691 |
| `locks` | 3 calls on a registry of 2 forks at its limit, any creation may fail; or 2 processes on one journal; fair | `RegistryHolds`, `EveryLockIsReleased`, `DiscardedStaysAsItWas` | 173,980 |
| `writes` | requests of 1 or 2 operations on 3 documents, on five paths; batches of 2 structure edits on 27 workbooks and of 3 sheet operations; every planned insertion on 24 workbooks | `PathsAgree`, `AnswerExplainsDocument`, `DiffIsExact`, `ProvedMeansSame`, `ReferencesFollowTheEdit`, `CopiesKeepTheirMeaning`, `PlanIsWhatHappens` | 319,909 |
| `reads` | every paged read on documents of up to 3 rows, 1 write during the walk | `WalksAreWhole`, `EveryWalkEnds` | 55,926 |
| `styles_coverage` | style analyses only | `BoundedIsReported`, violated (section 5) | |

Why the bounds are enough to be interesting:

* Journal: two lines reach the quota; two attempts allow a failed commit and its
  retry or a competitor; one loss separates an answer from the next call.  Errors
  of system calls are not bounded.
* Owner: five records are enough to write, move back, branch, write there and
  navigate between the two lines of history; three failures give commit failed,
  reconcile failed, power lost.
* Sessions: five records hold a creation, a staged change, its application, a
  restart and one more; two failures poison the owner and then lose the power.
  Three directories are a failed preparation, its repetition and the quota.
* Export: three failures leave a capture, a plan and a file behind at different
  stages, one edit makes the document differ from the plan, two foreign writes
  hit both the time before and the window at the swap.
* Files: two processes (`Procs`, `Calls`) and one failure (`MaxCliFaults`) are enough for
  every pair of a look and a replacement; the legacy import sees every history of four
  events (`Histories`).
* Host: one owner's room makes every second resource wait for a closed lane; a queue
  of one fills.
* Forks: the limits of staged changes and checkpoints are 1 and 2, so the oldest is
  evicted; the clock allows four to six changes.  One call that fails after its copy
  (`MaxFailures`) leaves a file that every later eviction, restore and discard meets.
* Writes: the grid has seven rows and three columns, so every relation of a reference
  to an edited band happens, the border included; two operations are enough for one
  to read what the other wrote, and for a formula that does not parse to stand beside a
  good one in the same group, before or after it.
* Reads: pages of one to three items on three rows, a row larger than the budget
  included.

Symmetry is used for identities that are only compared (processes, requests,
fingerprints, owners, contents, epochs, tasks), never with liveness.  Deadlock is not
checked where clients, attempts and failures are bounded, so that a behaviour may
simply end; it is checked in `journal`, whose calls can always go on, and in `reads`.

Fairness is assumed in three places.  `locks`: weak fairness of the steps of a call
(the scheduler runs every thread), strong fairness of taking the file lock (a blocked
`flock` is served when the lock is released over and over).  `host_liveness`: weak
fairness of tasks, lane threads and the shutdown, which is what a multi-threaded
executor gives; none of clients, which may vanish at any await.  `reads`: weak fairness
of the client's next page, since the property is about the server's continuations.
Errors and kills remain possible at every step.

## 4. Theorems

For all values of the constants, with the assumptions named in the modules (bounds
are naturals, sentinels are not members of the sets they complete):

| Module | Theorems |
|---|---|
| `DurableLog_proofs` | `TypeCorrect`; `LogSafety`: chain, identities and both kinds of answer |
| `ResidentJournal_proofs` | `JournalTypes`; `JournalImplementsLog`: the refinement; `AcknowledgedRecordsSurvive`, `NotFoundStays`, `OneOutcome` |
| `Files_proofs` | exports: `ExportInvariant` (with types); `CapturesSurvive`, `OneContent`, `ReportedFilesSurvive`, `ResultsRecordable`, `NewerDataKept`, of `FileExport`, and `ExportAlone`: `MCFiles` adds nothing to it; commands: `CommandInvariant` (with types), `CommandsKept`; legacy sessions: `LegacyInvariant` (with types), `LegacyLogHolds` |
| `ResidentOwner_proofs` | `OwnerInvariant`; `OwnersFenced`, `OutcomesKept`; `HistoryInvariant`; `TokenChecked`, `PredictionsTrue`, `Navigable`; `SeenInvariant`; `TokensNameStates`, `ToldAndSeen` |
| `Sessions_proofs` | the runtime: `SessionInvariant`; `RequestsAgree`, `RuntimeMatches`; the creation of its resource: `CreationInvariant`, `CreationStands`; its workbook: `WorkbookTypes`, `WorkbookCoherent`, `SnapshotsAreCoherent`, `EvaluatorFollows`, `CurrentIsComputed` |
| `NativeHost_proofs` | `HostInvariant` (with types); `HostOwnersUnique`, `AcceptedWorkSettled`, `NothingAfterDiscard` |
| `ForkRegistry_proofs` | `RegistryInvariant` (with types); `RegistrySafe`, `DiscardedContextsStay` |
| `ForkLifecycle_proofs` | `LifecycleInvariant` (with types); `TokensReliable`, `FilesMatch`, `LoweredFlagFresh` |

*Journal.*  The properties are about answers and files and are not inductive.
`JournalInv` adds what the code relies on: the process past flock holds the lock
(`LockHeldByOne`); commit identities are handed out once, lines are somebody's
attempts, and an attempt in progress is none that was refuted (`IdentitiesFresh`);
under the lock the loaded lines are the file's, up to the record being written,
and a call that reaches its answer has everything synced (`ViewIsExact`).  From it
every step is a step of `DurableLog` or leaves it unchanged: the write of the line
ending is the append, an fsync of an entered file (or entering a synced one)
hardens, an answer tells, a power loss loses.  The guarantees then come from
`LogSafety`, applied to the journal's view of the log.

*Workbook.*  `Coherent` adds to the three properties that a capture is never ahead
of the revision, that there is none before the identity is restored, that a
recovering workbook claims no calculation, and that results waiting for their
commit fit the document.

*Export.*  `ExportInv` adds that an export in progress follows its plan and that its
identity is used by nothing else (`PlanStands`), that a capture is written only
when it is new and synced before its plan (`CapturesKept`), that what was placed is
what was planned (`PlacedAsPlanned`), that a file is visible until the barrier and
on disk after it even when the result was recorded but never returned
(`FilesKept`), and that at the swap the last look still holds unless another program
wrote since (`LastLookHolds`).

*Commands.*  `CliInv` is about any number of processes, each with any command line the
argument parser lets through (`FilesAssumption`).  `Route` says at which calls a command of
each way and mode can be; a dry run leaves its way before the target.  `TempsApart`: until
its rename a temporary file is under no path, now or after a power loss, and no other
process has it.  `EntriesSturdy` is what `FilesStayWhole` needs: what may be under a path
is whole and on disk, or was renamed without a sync by a machine operation or a
recalculation, or is written over in place, and these are the cases the property names.
The comment of each part of the property names its exceptions, and section 6 lists them
against the documents.  `LogsReach`: once the directory is synced, every entry a power loss may leave came with or
after the command's own, so that a report survives.  `LooksStand`: without `--force` the
first look found nothing, and only the two ways without a last look replace what appeared
since.  `DryRunsApart` and `Delivered` tie what is in a file to what its command read and
did: the effect of a dry run is in its own temporary file, the result of a machine
operation is the revision it named and its own effect, and a staged file that does not
count as changed is the source, merges aside.

*Legacy sessions.*  `LegacyInv` says that an event is known by its place in the log and
sealed against the line before it, or against nothing when it is rooted at the base
(`LogOrdered`); from it follows when `read_events` refuses a complete log: exactly when an
event other than the first is rooted at the base.  It says further that a process about to append holds the
lock and what it read under it still stands (`Sealing`), and that no pointer, in a file or
in a process on its way to one, is ahead of the log as long as the last line is whole
(`PointersFollow`).  The last is about pointers in memory because undo, redo, checkout and
the branch calls write without the lock: what they carry was read from the log, which only
grows.

*Owners.*  That the token check lets at most one owner through needs more than the
tokens.  `LastOwnerHolds` sorts the owners that may work into three: those the last
record has passed (another epoch or an earlier state number) and that did not append it;
those recovered from a discarded resource, which are no part of the stream; and the
author of the last record, which is in step with it or in flight with exactly that
record.  `NothingSlippedIn` is what keeps it so across the window between an owner's last
load and its commit: a record of somebody else on top of the owner's own has passed it,
and an operation whose parent is still the tip is in step, because the append is a
compare-and-set on the tip.  A restart is a record of its own that raises the state
number, so a recovered owner leaves the others behind for good; a session over an empty
stream has an epoch nobody else has.  The proof assumes that clients do not use the
identities of restart records and that no sentinel is a revision, a commit or a document
(`OwnerBounds`).

*History.*  `HistoryInv` relates what owners hold in memory to what replay derives from
the stream, and has three parts.  `RecordsStand` speaks of the state after every record,
not only the last, since a power loss may make any record the last one: parents are older
than their commits, head, branch tips and checkpoints are commits that carry a document,
no token that was seen is ahead of the last one, and the generation counts the records that
changed the catalog, so that it tells two states of the stream apart that share a revision.
`PlansStand` speaks of an operation in flight: publishing it reaches the revision and
generation its record claims; a record that can still be appended is one replay accepts
(`Follows`) and its outcome in memory is the state replay reaches with it; a record that
was appended has that outcome already.  `InStepAgrees` is `TokenCheckSuffices` also for
owners in the middle of an operation.  An append by one owner keeps the part about the
others because of fencing (`OwnerInv` of the next state): nobody else is in step with the
new record, so nothing is claimed of them.  A lineage is a recursive function of the
commits; that it unfolds, and that later commits do not change it, is proved by well-founded
induction over the numbers of the commits.

*Seen.*  `TokenNamesOneState` relates all states clients have ever seen, also those seen
through owners that are gone, so `SeenInv` ties every view to the stream.  `Seen` says
that a view is the one after a record that has been made durable (`ViewAt`), or the base
of its epoch; the prefix of durable records only grows, so a view stays one.  Views of
one epoch are then views of one stream, and `StreamContinues` compares any two of its
records, not only neighbours: revision and generation never go back, commits keep their
parents, and where the revision is the same so are head and stamp, and with the same
generation the catalog.  Two things need care.  The calculation stamp is not in the
stream: `StampAt` derives it from the records that reset it (`Resets`), and publication in
memory resets it exactly then.  And a session recovered from a discarded resource shows a
revision that is in no record (`Reattached`): the discard may be lost with the power, so
`DiscardOrRestart` keeps, for such a view, that the next record is that discard or, once
it was lost with every session of the epoch, a restart, which has exactly the revision
and the view that were shown.  `Settled` and `Shows` say what an owner in step and an
operation in flight will show; an append keeps them for the others because it has passed
them.  That a document can be reached again follows since commits keep their parents.

*Sessions.*  `RequestsAgree` needs only that answers come from records below `settled`
and that `Accepts` refuses an identity it has seen.  `RuntimeMatches` is about the state
a replay of the journal reaches, which is a recursive function of the journal.  A power
loss may leave any prefix, so `HistoryStands` speaks of every prefix: no record after a
discard, revisions that never go back, checkpoints named by requests in the prefix (so
that a new one is one more), responses that name the revision before them.
`RuntimeStands` says that the runtime equals the replayed state, or is poisoned and
equals the state without the record of the request that poisoned it.  From both,
`PreparedIsAccepted` shows operation by operation that the response the runtime prepares
from memory is the one the journal's comparison expects.  Facts about the recursive
function are proved without an induction scheme: the naturals are well founded (a library
theorem without operator parameters), so a set of numbers has a least one
(`LeastNumber`), so a set with 0 that is closed under successor is everything
(`Induction`); with it, a replay exists and is unique, which is the unfolding of
`Replays` (`ReplaysUnfold`), and journals with the same first records replay alike
(`ReplaysAgree`).

*Creation.*  `CreationInv` adds to the property that directories are numbered and
numbers never come back (`DirectoriesStand`), that a name on disk is a name now and two
directories never have the same (`ActiveIsWhole`), and for each step of a creation what
it has done so far (`JobStands`): up to the rename nobody has the name, the parts are
synced before the receipt, the receipt is in the journal before the rename, the name is
on disk before the answer.  The steps that change one directory, a sync of the root and
the loss of power are each shown to keep the numbers apart, hence the count of
directories, from which the next number comes.

*Host.*  `HostInv` has the route of every task (`TasksStand`), who holds the admission
mutex and has room in the table because of it (`AdmissionHeld`), the lock file of every
lane that lives (`LocksHeld`), which references to a lane exist while it starts, is
found, and is taken out (`References`), that a detach is the last message of its lane
(`DetachIsLast`), and that a waiting task has its message in the queue
(`WaitersQueued`).  One evaluator per resource then follows from the lock file, the
capacity from the admission mutex, and that no request waits for a lane that is gone
from `WaitersQueued`.

*Registry.*  `RegistryInv` ties handles to mutexes (`HandlesHeld`), keeps forks being
created apart (`CreationsApart`) and accounts for every work file without an entry by
the call that will enter or remove it, or by the creation that failed and left it
(`FilesAccounted`, `CopiesKept`).

*Fork.*  `LifecycleInv` is one invariant for every mix of requests (a workload is a value
of `load`); it has four parts.  `Shapes` types the state and says that a content a task is
about to write from, or a snapshot holds, exists.  `Lists` holds on both surfaces and is
what `SnapshotsMatchTheList` needs: identifiers are handed out once, so that no two listed
entries share one and a preview in progress has its own (`IdentifiersOnce`), and every file
belongs to a checkpoint, to a staged change that is no bundle, to a preview that copied it
or to a call that failed after its copy (`FilesListed`); without the first, removing one entry by its identifier could take the
file of another.  `PointsInOrder` is about restores: the history is never shorter than at
the time of a listed checkpoint, and a later checkpoint has at least as long a one, so
truncating to one checkpoint cuts nothing that another that stays counts on.
`OnTheCanonicalSurface` says that every token is older than the next one (`NamedOnce`, so a
fresh one names nothing yet), that the context and the work file agree, that the edits in
the work file and in the file of each checkpoint are those of the history up to it
(`Explained`), and for a recalculation that is evaluated on a copy outside the mutex: while
its token is still the context's, its copy is the work file; that is why the second
comparison suffices.  `LoneTasks` follows a read that is alone step by step through cache,
load, identification and answer, each with what the cache then holds; the cache may hold
something stale left by a slow load, and the comparison in `identify` throws it out.
`Flags` is about `recalc_needed`: for a client that uses the tools one at a time nobody
changes the work file between a load and its save (`OneRequest`), a tool that makes results
stale is on its way to raise the flag, and the flags kept with the checkpoints are true of
their files, since a restore brings back both (`FlagsAreTrue`).  The proof has one lemma per
action; what an action does to a list is said once, by its entries and their identifiers
(`AppendedList`, `RemovedEntry`, and what `Retained` leaves, by induction over its length).
`ForkLifecycleAssumption` asks that the set of tasks is finite, that the limits of staged
changes, of checkpoints and of recalculations are positive, as the code's constants are, and
that the batch tools are those of the code.

All inductive invariants were checked by TLC, on the instances of section 3, before
they were proved.

*Only model-checked:*

* everything about liveness (`EveryRequestEnds`, `EveryLockIsReleased`,
  `EveryWalkEnds`), which is outside the prover;
* of `LegacyHistoryStands` the import (`ImportIsFaithful`): the flattening of the tree of
  branches is a fold over lineages, compared with the replay of `ResidentHistory`, and what
  a fold computes needs induction over data;
* the functions on workbooks (`PathsAgree`, `AnswerExplainsDocument`, `DiffIsExact`,
  `ProvedMeansSame`) and the paged reads (`WalksAreWhole`), which compare recursive
  functions with reference definitions: TLC evaluates them over bounded inputs, and the
  prover cannot reason about recursive operators.

## 5. Finding

`BoundedIsReported` (run `styles_coverage`).  `docs/architecture/surface-boundary-rules.md:71`
says "Derived metrics report coverage/sampling and never flatten into exact
metadata."  For the scope of the whole workbook, `execute_analyze_styles`
(`canonical_reads.rs:2474`) computes `bounded` from the scan and the local limits only
and never looks at `styles_truncated`, which the scope of a sheet does: a workbook with
more styles than the tool lists is reported as complete.

## 6. Known deviations

What the code does and a reader may not expect.  The models have these behaviours; the
properties of section 3 name the exception where one touches them.

*Sessions.*
* `advance_metadata_state` (`recalc/resident.rs:397`) moves the state number and leaves
  the calculation stamp, so a view may carry coverage that names an earlier revision;
  the results are right (`CurrentMeansComputed`).
* A repeated request whose reconciliation fails gets a plain error although it is
  committed.  Previews, failed and rolled-back writes are not retained, so their
  identity can be used again.
* At the byte quota even the restart record of a recovery is refused
  (`core/resident_storage.rs:1011`): a full journal can no longer be attached.
* A kill between creating and writing a retained capture leaves an incomplete file
  under the hash of its content, and later exports of that content are refused
  (`native_export.rs:166`).
* After a failed barrier on the root (`native_resident.rs:782`) the resource is there
  under its name and can be attached, though its activation is not durable;
  `AnsweredCreationStands` speaks of answered creations only.  Directories of failed
  preparations count toward the quota and nothing removes them.

*Forks.*
* `execute_operation` (`operations.rs:2242`) reads the revision it reports apart from
  the read itself, so a token may be newer than the content when a write comes between.
* `edit_batch` (`tools/fork.rs:268`) does not advance the state revision; the preview
  of `replace_in_formulas` (`tools/fork.rs:5208`) cannot be applied.
* The batch tools work outside the mutex, so two of them can lose an update
  (`tools/fork.rs:2163`); `grid_import` keeps the part it wrote before it failed
  (`tools/fork.rs:6796`); a copy of cells without formulas leaves a lowered
  `recalc_needed` (`tools/fork.rs:1962`).
* Nothing removes a copy when the call after it fails.  `create_fork` returns by `?` when
  the copy (`fork.rs:345`) or the context (`fork.rs:347`) fails and leaves the work file
  without an entry.  A preview whose apply fails, for an unknown sheet say, leaves its
  snapshot without a staged change (`tools/fork.rs:172-196`, `608-619`, `1016-1028`,
  `1297-1308`, `1438-1466`, `2036-2048`, `5194`, `7044`, `tools/rules_batch.rs:208`,
  `tools/sheet_layout.rs:124`), and so does the copy of a checkpoint (`fork.rs:515`).  The
  properties say that these are the only files without an entry.

*Command line and legacy sessions.*
* Merges and unmerges alone report `changed: false` (`cli/commands/write.rs:2499`).
* `recalculate --output` removes an existing target before it persists the new file, and
  syncs nothing; the comment at `cli/commands/recalc.rs:175` says "then atomically move
  into place.  This keeps an existing target untouched if recalc fails", which holds of a
  failing recalculation, not of a failing rename.  In place it works on the file itself.
* The machine operation has no fsync and renames over a file that appeared late, where
  `docs/architecture/surface-boundary-rules.md:22` says it "exports/replaces atomically":
  no reader sees a part of the file, but after a power loss there may be one.
* `create-workbook`, `copy` and the renderer write straight to their target, and `copy`
  replaces without asking.  Name commands do not compare source and output; concurrent
  in-place commands can lose updates.
* The last line of a legacy binlog may be torn by a kill (`core/binlog.rs:42`).
* After an undo to the base, `append_event` seals the next event with no previous hash
  although the log has lines (`core/session_store.rs:406-412`).  `read_events` asks for the
  hash of the line before in every line (`core/session_store.rs:455-459`) and refuses the
  session from then on as corrupt.

*Writes.*
* The impact preview leaves formulas on the edited sheet out (`structure_impact.rs:68`,
  `455`; `tools/fork.rs:3777`), and a deleted single cell keeps its column in the preview
  (`structure_impact.rs:562`) where the rewriter writes `#REF!` (`tools/fork.rs:3938`).
* `set_print_area` twice makes a union; `define_name` does not look for duplicates, and
  diff and verification then see the last one.
* `mutate_batch` with the policy "warn" leaves out fills and matrix cells whose formula
  does not parse (`tools/fork.rs:506-604`) and still calls the operation "applied"
  (`tools/mutate_batch.rs:655`); the dropped formulas are in the diagnostics of the detail,
  which an error in a later group loses.  With "off" it writes formulas that the
  canonical write refuses.
* The resident fast path calls an emptied cell modified, the diff of the files deleted;
  the diff of a failed preview shows the half-done candidate.
* The diff names the scope of a name by the base's sheet order, sees no change in a
  table moved to another sheet with its range, drops the style of an added and the
  formula of a deleted cell, and does not show a change of style of an empty cell.
* `verify_workbook` compares sheet-scoped names only when a sheet is given,
  `verify_workbook_bytes` all.

*Plans.*
* The likely inputs to patch may be formula cells that a validation covers, where the
  comment speaks of empty cells; the preview of adjacent sums ignores the order of
  the sum's rows.
* Clones inside a taller merge get merges that overlap it; `append_at_end` with the
  footer just below the region inserts before it; tables other than the target stay.

*Reads.*
* A row larger than the byte budget never comes (`sheet_page`, `range_values`,
  `read_table`, `formula_map`), and `scan_volatiles` stops there silently.
* A limit of 0 is accepted by the lists, `read_table`, `find_value` and
  `sheet_formula_map`; `find_*` apply their limit to each sheet.
* Sampled pages repeat and miss rows; a label search repeats matches; groups of equal
  rank come in the order of a hash map; the cursor of a trace covers the first layer
  that was cut; a page of one blank line of VBA source is lost;
  `sheet_statistics` and `table_profile` drop columns silently.

## 7. What is not modelled

* *Browser runtime and memory journal* (`src/crates/agent-spreadsheet-wasm`): one
  thread, no crash, no file; the journal is `DurableLog` with a byte cap.
* *SDK worker and client* (`src/npm/agent-spreadsheet-sdk`): TypeScript around the
  runtime.
* *Recalculation backends*: adapters of external evaluators.  That results belong to
  the inputs given is an assumption.
* *MCP server*: transport and routing, without state beyond the components above.
* *Renderer*: layout and drawing, pure functions of a sheet.
* Of the modelled parts: JSON shapes, schemas, argument parsing and output formats;
  detection of regions and headers, classification and statistics (heuristics without
  state, whose results the plans take as given); cell styles in structure edits and
  plans; the authentication of the host's requests (cryptography), a panicking lane
  thread and the pinned configuration; checks of paths, permissions and symbolic links,
  and corrupted lines other than an incomplete last one, which only refuse; snapshots of
  legacy sessions, which are written and never read; the edit log of the wide surface;
  the artifact of `export_fork`; the non-durable variants of the owner's operations.

## 8. What remains

1. Proofs: interval lemmas of `A1Refs`.
2. `MemoryJournal` of the browser as a second implementation of `DurableLog`, with the
   correlation of requests in the SDK worker.
3. The runtime composed with several owners of one stream.
