--------------------------- MODULE ForkLifecycle ---------------------------
(***************************************************************************)
(* One fork of a workbook in the server process: the work file on disk,    *)
(* the ForkContext behind its mutex (fork.rs), the cache of parsed         *)
(* workbooks and the calculation ledger (state.rs), and the two surfaces   *)
(* that change them.  Canonical operations (canonical_lifecycle.rs,        *)
(* canonical_write.rs) compare a revision token under the mutex; the       *)
(* batch tools of the wide surface (tools/fork.rs) read, change and write  *)
(* the work file outside of it and touch the context afterwards.           *)
(*                                                                         *)
(* A content is a number: its place in docs, which stands for the bytes    *)
(* and for their hash.  What a client can tell apart in a content is the   *)
(* set of edits in it and whether its cached results belong to them.       *)
(***************************************************************************)
EXTENDS Naturals, Sequences, FiniteSets, SequencesExt

CONSTANTS
    Tasks,          \* requests in progress at the same time
    Workloads,      \* the mixes of operations and limits considered
    MaxBytes,       \* DEFAULT_MAX_CHECKPOINT_TOTAL_BYTES
    MaxRecalcs      \* permits of the recalculation semaphore

BatchTools ==
    {"edit_batch", "transform_batch", "apply_formula_pattern", "grid_import", "style_batch",
     "column_size_batch", "sheet_layout_batch", "rules_batch", "structure_batch", "move_values",
     "replace_in_formulas", "name"}

ASSUME ForkLifecycleAssumption ==
    /\ IsFiniteSet(Tasks)
    /\ MaxRecalcs \in Nat \ {0}
    /\ \A w \in Workloads : /\ w.maxStaged \in Nat \ {0} /\ w.maxCheckpoints \in Nat \ {0}
                            /\ w.batches \subseteq BatchTools

VARIABLES
    load,       \* the workload of this behaviour
    docs,       \* every content written so far
    work,       \* the content of the work file
    files,      \* snapshot files: identifier -> content
    ctx,        \* the ForkContext
    gone,       \* the fork was discarded
    cache,      \* content of the cached workbook, or None
    ledger,     \* evaluation coverage by revision token
    clock,      \* source of identifiers, random tokens and timestamps
    task,       \* per task: what it does and what it holds
    named,      \* history: each token a response carried, with the state it named
    reads,      \* history: reads answered, with their token and what they saw
    failed      \* history: identifiers of the calls that failed after their copy

fork == <<docs, work, files, ctx, gone>>
shared == <<cache, ledger>>
vars == <<load, fork, shared, clock, task, named, reads, failed>>

Canonical == load.canonical             \* canonical operations offered
Batches == load.batches                 \* batch tools offered
Lifecycle == load.lifecycle             \* lifecycle tools of the wide surface offered
MaxClock == load.maxClock               \* bound on edits, tokens and identifiers handed out
MaxFailures == load.maxFailures         \* bound on the calls that fail after their copy
MaxStaged == load.maxStaged             \* DEFAULT_MAX_STAGED_CHANGES_PER_FORK
MaxCheckpoints == load.maxCheckpoints   \* DEFAULT_MAX_CHECKPOINTS_PER_FORK

None == 0
Hash(c) == <<"hash", c>>
Random(n) == <<"state", n>>
Idle == [pc |-> "idle", op |-> "none", kind |-> "none", tok |-> Hash(None), doc |-> None, id |-> None,
         raise |-> FALSE, alone |-> FALSE]
Size(c) == 1 + Cardinality(docs[c].edits)

(***************************************************************************)
(* What a batch tool does beside editing: open the cached workbook first   *)
(* to resolve regions, make cached results stale, raise recalc_needed.     *)
(***************************************************************************)
Tool(opens, stales, flags) == [opens |-> opens, stales |-> stales, flags |-> flags]
EditBatch == Tool(FALSE, TRUE, TRUE)
TransformBatch == Tool(TRUE, TRUE, TRUE)
ApplyFormulaPattern == Tool(TRUE, TRUE, TRUE)
GridImport == Tool(TRUE, TRUE, TRUE)
StyleBatch == Tool(TRUE, FALSE, FALSE)
ColumnSizeBatch == Tool(TRUE, FALSE, FALSE)
SheetLayoutBatch == Tool(TRUE, FALSE, FALSE)
RulesBatch == Tool(TRUE, FALSE, FALSE)
StructureBatch == Tool(FALSE, TRUE, TRUE)       \* rows, columns, names, formulas
MoveValues == Tool(FALSE, TRUE, FALSE)          \* copies and moves without formulas
ReplaceInFormulas == Tool(FALSE, TRUE, TRUE)
NameTool == Tool(FALSE, TRUE, TRUE)             \* define_name, update_name, delete_name

Handler(k) ==
    CASE k = "edit_batch" -> EditBatch
      [] k = "transform_batch" -> TransformBatch
      [] k = "apply_formula_pattern" -> ApplyFormulaPattern
      [] k = "grid_import" -> GridImport
      [] k = "style_batch" -> StyleBatch
      [] k = "column_size_batch" -> ColumnSizeBatch
      [] k = "sheet_layout_batch" -> SheetLayoutBatch
      [] k = "rules_batch" -> RulesBatch
      [] k = "structure_batch" -> StructureBatch
      [] k = "move_values" -> MoveValues
      [] k = "replace_in_formulas" -> ReplaceInFormulas
      [] k = "name" -> NameTool

\* apply_staged_change knows the payload of each of these kinds
Replayable ==
    {"canonical_write_bundle", "edit_batch", "style_batch", "column_size_batch",
     "transform_batch", "grid_import", "apply_formula_pattern", "structure_batch",
     "move_values", "sheet_layout_batch", "rules_batch"}

----------------------------------------------------------------------------
(* The context. *)

Init ==
    /\ load \in Workloads
    /\ docs = <<[edits |-> {}, fresh |-> TRUE]>>
    /\ work = 1 /\ files = << >> /\ gone = FALSE
    /\ ctx = [state |-> Hash(1), content |-> 1, staged |-> << >>,
              checkpoints |-> << >>, ops |-> << >>, recalc |-> FALSE]
    /\ cache = None /\ ledger = << >> /\ clock = 1
    /\ task = [t \in Tasks |-> Idle]
    /\ named = {<<Hash(1), [content |-> 1, staged |-> {}, checkpoints |-> {},
                            ops |-> 0, recalc |-> FALSE]>>}
    /\ reads = {} /\ failed = {}

Ids(s) == {s[i].id : i \in DOMAIN s}
Kept(fs, ids) == [i \in (DOMAIN fs) \ ids |-> fs[i]]        \* remove_file
With(fs, i, c) == [j \in (DOMAIN fs) \cup {i} |-> IF j = i THEN c ELSE fs[j]]

\* The entries at these places, in their order; the others are removed
Retained(s, places) ==
    LET kept[n \in Nat] ==
            IF n = 0 THEN << >>
            ELSE IF n \in places THEN Append(kept[n - 1], s[n]) ELSE kept[n - 1]
    IN  kept[Len(s)]

Synced == IF work = ctx.content THEN ctx
          ELSE [ctx EXCEPT !.content = work, !.state = Hash(work)]
Advanced(c) == [c EXCEPT !.state = Random(clock)]
Pushed(c, edit) ==
    [c EXCEPT !.ops = Append(@, [seq |-> IF @ = << >> THEN 1 ELSE Last(@).seq + 1, edit |-> edit])]

\* enforce_staged_limits: the oldest changes go
StagedKept(s) == IF Len(s) <= MaxStaged THEN s ELSE SubSeq(s, Len(s) - MaxStaged + 1, Len(s))

\* enforce_checkpoint_limits: by number, then by bytes, the last one always stays
Bytes(s, fs) == FoldSeq(LAMBDA p, sum : sum + Size(fs[p.id]), 0, s)
CheckpointsKept(s, fs) ==
    LET recent == IF Len(s) <= MaxCheckpoints THEN s
                  ELSE SubSeq(s, Len(s) - MaxCheckpoints + 1, Len(s))
        fits(k) == k = Len(recent) \/ Bytes(SubSeq(recent, k, Len(recent)), fs) <= MaxBytes
        first == CHOOSE k \in DOMAIN recent : fits(k) /\ \A j \in 1..(k - 1) : ~fits(j)
    IN  SubSeq(recent, first, Len(recent))

View(c, w) == [content |-> w, staged |-> Ids(c.staged), checkpoints |-> Ids(c.checkpoints),
               ops |-> Len(c.ops), recalc |-> c.recalc]

\* A canonical response carries the token of the state it leaves
Respond(c, w) == ctx' = c /\ named' = named \cup {<<c.state, View(c, w)>>}

\* A client may present any token a response carried; another is a conflict,
\* which leaves what a listing leaves
Known == Synced.state \in {n[1] : n \in named}

Tick == clock' = clock + 1
Active == {t \in Tasks : task[t].pc # "idle"}
Free(t) == task[t].pc = "idle" /\ Cardinality(Active) < load.clients /\ clock < MaxClock
Offered(op) == op \in Canonical /\ ~gone
Busy(t) == \E u \in Tasks \ {t} : task[u].pc # "idle"

\* A task leaves or changes; the others learn that they were not alone
Enter(t, rec) ==
    task' = [u \in Tasks |-> IF u = t THEN [rec EXCEPT !.alone = ~Busy(t)]
                             ELSE [task[u] EXCEPT !.alone = FALSE]]
Move(t, pc) == task' = [task EXCEPT ![t].pc = pc]
Leave(t) == task' = [task EXCEPT ![t] = Idle]
\* An operation of one section: whoever is in progress is no longer alone
Instant(t) == task' = [u \in Tasks |-> [task[u] EXCEPT !.alone = FALSE]]

NewDoc(base, edit, stale) ==
    Append(docs, [edits |-> docs[base].edits \cup edit, fresh |-> docs[base].fresh /\ ~stale])

----------------------------------------------------------------------------
(* Canonical operations: each is one section under the fork's mutex, with  *)
(* the compare of the token inside it; a write drops the ledger and the    *)
(* cached workbook after it has let go of the mutex.                       *)

\* Listings, previews, rolled back writes, history pages, snapshots, conflicts
Observe(t) ==
    /\ Offered("observe") /\ Free(t)
    /\ Respond(Synced, work)
    /\ Instant(t)
    /\ UNCHANGED <<docs, work, files, gone, shared, clock, reads>>

Write(t) ==
    /\ Offered("write") /\ Free(t) /\ Known
    /\ LET c == Pushed(Advanced([Synced EXCEPT !.content = Len(docs) + 1, !.recalc = TRUE]), clock)
       IN  Respond(c, Len(docs) + 1)
    /\ docs' = NewDoc(work, {clock}, TRUE)
    /\ work' = Len(docs) + 1
    /\ Enter(t, [Idle EXCEPT !.pc = "revoke", !.op = "write"])
    /\ Tick /\ UNCHANGED <<files, gone, shared, reads>>

Stage(t) ==
    /\ Offered("stage") /\ Free(t) /\ Known
    /\ LET s == Append(ctx.staged, [id |-> clock, at |-> clock, kind |-> "canonical_write_bundle",
                                    base |-> Synced.content])
       IN  /\ Respond(Advanced([Synced EXCEPT !.staged = StagedKept(s)]), work)
           /\ files' = Kept(files, Ids(s) \ Ids(StagedKept(s)))
    /\ Instant(t) /\ Tick
    /\ UNCHANGED <<docs, work, gone, shared, reads>>

\* Only a bundle staged on the current content applies; it is consumed
StagedApply(t) ==
    /\ Offered("staged_apply") /\ Free(t) /\ Known
    /\ \E i \in DOMAIN ctx.staged :
          LET c == [Synced EXCEPT !.content = Len(docs) + 1, !.recalc = TRUE]
          IN  /\ ctx.staged[i].kind = "canonical_write_bundle"
              /\ ctx.staged[i].base = Synced.content
              /\ Respond([Pushed(Advanced(c), clock) EXCEPT !.staged = RemoveAt(@, i)], Len(docs) + 1)
              /\ files' = Kept(files, {ctx.staged[i].id})
    /\ docs' = NewDoc(work, {clock}, TRUE)
    /\ work' = Len(docs) + 1
    /\ cache' = None /\ ledger' = << >>
    /\ Instant(t) /\ Tick /\ UNCHANGED <<gone, reads>>

\* Mutant: a discarded change leaves the token as it was.
StagedDiscardSilently(t) ==
    /\ Offered("staged_discard") /\ Free(t) /\ Known
    /\ \E i \in DOMAIN ctx.staged :
          /\ Respond([Synced EXCEPT !.staged = RemoveAt(@, i)], work)
          /\ files' = Kept(files, {ctx.staged[i].id})
    /\ Instant(t) /\ Tick
    /\ UNCHANGED <<docs, work, gone, shared, reads>>

StagedDiscard(t) ==
    /\ Offered("staged_discard") /\ Free(t) /\ Known
    /\ \E i \in DOMAIN ctx.staged :
          /\ Respond(Advanced([Synced EXCEPT !.staged = RemoveAt(@, i)]), work)
          /\ files' = Kept(files, {ctx.staged[i].id})
    /\ Instant(t) /\ Tick
    /\ UNCHANGED <<docs, work, gone, shared, reads>>

Checkpoint == [id |-> clock, at |-> clock, recalc |-> ctx.recalc, ops |-> Len(ctx.ops)]

CheckpointCreate(t) ==
    /\ Offered("checkpoint") /\ Free(t) /\ Known
    /\ LET fs == With(files, clock, work)
           s == Append(ctx.checkpoints, Checkpoint)
           k == CheckpointsKept(s, fs)
       IN  /\ Respond(Advanced([Synced EXCEPT !.checkpoints = k]), work)
           /\ files' = Kept(fs, Ids(s) \ Ids(k))
    /\ Instant(t) /\ Tick
    /\ UNCHANGED <<docs, work, gone, shared, reads>>

CheckpointDelete(t) ==
    /\ Offered("checkpoint_delete") /\ Free(t) /\ Known
    /\ \E i \in DOMAIN ctx.checkpoints :
          /\ Respond(Advanced([Synced EXCEPT !.checkpoints = RemoveAt(@, i)]), work)
          /\ files' = Kept(files, {ctx.checkpoints[i].id})
    /\ Instant(t) /\ Tick
    /\ UNCHANGED <<docs, work, gone, shared, reads>>

\* Back to the checkpoint: what is newer goes, with its file
Since(s, at) == {s[i].id : i \in {j \in DOMAIN s : s[j].at > at}}
Until(s, at) == Retained(s, {i \in DOMAIN s : s[i].at <= at})
\* Mutant: the flag of the checkpoint is not restored.
RestoreForgetsFlag(t) ==
    /\ Offered("checkpoint_restore") /\ Free(t) /\ Known
    /\ \E i \in DOMAIN ctx.checkpoints :
          LET p == ctx.checkpoints[i]
              c == [Synced EXCEPT !.staged = Until(@, p.at), !.checkpoints = Until(@, p.at),
                                  !.ops = SubSeq(@, 1, p.ops),
                                  !.content = files[p.id]]
          IN  /\ Respond(Advanced(c), files[p.id])
              /\ work' = files[p.id]
              /\ files' = Kept(files, Since(ctx.staged, p.at) \cup Since(ctx.checkpoints, p.at))
    /\ cache' = None /\ ledger' = << >>
    /\ Instant(t) /\ Tick /\ UNCHANGED <<docs, gone, reads>>

CheckpointRestore(t) ==
    /\ Offered("checkpoint_restore") /\ Free(t) /\ Known
    /\ \E i \in DOMAIN ctx.checkpoints :
          LET p == ctx.checkpoints[i]
              c == [Synced EXCEPT !.staged = Until(@, p.at), !.checkpoints = Until(@, p.at),
                                  !.ops = SubSeq(@, 1, p.ops), !.recalc = p.recalc,
                                  !.content = files[p.id]]
          IN  /\ Respond(Advanced(c), files[p.id])
              /\ work' = files[p.id]
              /\ files' = Kept(files, Since(ctx.staged, p.at) \cup Since(ctx.checkpoints, p.at))
    /\ cache' = None /\ ledger' = << >>
    /\ Instant(t) /\ Tick /\ UNCHANGED <<docs, gone, reads>>

Export(t) ==
    /\ Offered("export") /\ Free(t) /\ Known
    /\ Respond(Advanced(Synced), work)
    /\ Instant(t) /\ Tick
    /\ UNCHANGED <<docs, work, files, gone, shared, reads>>

\* The context is marked, the table forgets it, the files are removed
Cleaned == files' = << >> /\ work' = None /\ gone' = TRUE
Discard(t) ==
    /\ Offered("discard") /\ Free(t) /\ Known
    /\ ctx' = Synced /\ Cleaned /\ cache' = None
    /\ Instant(t) /\ Tick
    /\ UNCHANGED <<docs, ledger, named, reads>>

\* recalculate: compare, copy, evaluate the copy, compare again and replace
RecalcBegin(t) ==
    /\ Offered("recalculate") /\ Free(t) /\ Known
    /\ ctx' = Synced
    /\ Enter(t, [Idle EXCEPT !.pc = "copy", !.op = "recalculate", !.tok = Synced.state])
    /\ Tick /\ UNCHANGED <<docs, work, files, gone, shared, named, reads>>

RecalcCopy(t) ==
    /\ task[t].pc = "copy"
    /\ IF work = None THEN Leave(t)
       ELSE task' = [task EXCEPT ![t].pc = "permit", ![t].doc = work]
    /\ UNCHANGED <<fork, shared, clock, named, reads>>

Acquire(t) ==
    /\ task[t].pc = "permit"
    /\ Cardinality({u \in Tasks : task[u].pc \in {"evaluate", "evaluate_work"}}) < MaxRecalcs
    /\ Move(t, IF task[t].op = "recalculate" THEN "evaluate" ELSE "evaluate_work")
    /\ UNCHANGED <<fork, shared, clock, named, reads>>

\* Mutant: the token is not compared again before the replacement.
RecalcOverwrites(t) ==
    /\ task[t].pc = "evaluate"
    /\ IF gone THEN Leave(t) /\ UNCHANGED <<fork, clock, named>>
       ELSE \E complete \in BOOLEAN :
              LET c == Pushed(Advanced([Synced EXCEPT !.content = Len(docs) + 1,
                                                      !.recalc = ~complete]), None)
              IN  /\ docs' = Append(docs, [docs[task[t].doc] EXCEPT !.fresh = complete])
                  /\ work' = Len(docs) + 1
                  /\ Respond(c, Len(docs) + 1)
                  /\ task' = [task EXCEPT ![t].pc = "record", ![t].tok = c.state,
                                          ![t].id = IF complete THEN 1 ELSE None]
                  /\ Tick /\ UNCHANGED <<files, gone>>
    /\ UNCHANGED <<shared, reads>>

RecalcCommit(t) ==
    /\ task[t].pc = "evaluate"
    /\ IF gone THEN Leave(t) /\ UNCHANGED <<fork, clock, named>>
       ELSE IF Synced.state # task[t].tok
       THEN Leave(t) /\ ctx' = Synced /\ UNCHANGED <<docs, work, files, gone, clock, named>>
       ELSE \E complete \in BOOLEAN :
              LET c == Pushed(Advanced([Synced EXCEPT !.content = Len(docs) + 1,
                                                      !.recalc = ~complete]), None)
              IN  /\ docs' = Append(docs, [docs[task[t].doc] EXCEPT !.fresh = complete])
                  /\ work' = Len(docs) + 1
                  /\ Respond(c, Len(docs) + 1)
                  /\ task' = [task EXCEPT ![t].pc = "record", ![t].tok = c.state,
                                          ![t].id = IF complete THEN 1 ELSE None]
                  /\ Tick /\ UNCHANGED <<files, gone>>
    /\ UNCHANGED <<shared, reads>>

\* record_calculation, under the token of the commit
Record(t) ==
    /\ task[t].pc = "record"
    /\ ledger' = With(ledger, task[t].tok, task[t].id = 1)
    /\ Move(t, "close")
    /\ UNCHANGED <<fork, cache, clock, named, reads>>

Revoke(t) ==
    /\ task[t].pc = "revoke"
    /\ ledger' = << >>                          \* invalidate_calculation
    /\ Move(t, "close")
    /\ UNCHANGED <<fork, cache, clock, named, reads>>

\* close_workbook resolves the fork first: a discarded one keeps its entry
Close(t) ==
    /\ task[t].pc = "close"
    /\ cache' = IF gone THEN cache ELSE None
    /\ Leave(t)
    /\ UNCHANGED <<fork, ledger, clock, named, reads>>

----------------------------------------------------------------------------
(* A canonical read: identify opens the workbook, takes the token, reopens *)
(* when the cached content is another one; the read then opens again.      *)

\* The tasks that open a workbook, and where they go when they have it
Opening == {"open1", "open2", "open3", "open"}
Then(pc) == CASE pc = "open1" -> "identify" [] pc = "open2" -> "open3"
              [] pc = "open3" -> "answer" [] pc = "open" -> "load"
Putting == {"put1", "put2", "put3", "put"}
PutFor(pc) == CASE pc = "open1" -> "put1" [] pc = "open2" -> "put2"
                [] pc = "open3" -> "put3" [] pc = "open" -> "put"
OpenFor(pc) == CASE pc = "put1" -> "open1" [] pc = "put2" -> "open2"
                 [] pc = "put3" -> "open3" [] pc = "put" -> "open"

ReadBegin(t) ==
    /\ Offered("read") /\ Free(t)
    /\ Enter(t, [Idle EXCEPT !.pc = "open1", !.op = "read"])
    /\ Tick /\ UNCHANGED <<fork, shared, named, reads>>

\* open_workbook: resolve, then the cache, or a load without any lock
Open(t) ==
    /\ task[t].pc \in Opening
    /\ IF gone THEN Leave(t)
       ELSE IF cache # None
       THEN task' = [task EXCEPT ![t].pc = Then(@), ![t].doc = cache]
       ELSE task' = [task EXCEPT ![t].pc = PutFor(@), ![t].doc = work]
    /\ UNCHANGED <<fork, shared, clock, named, reads>>

Put(t) ==
    /\ task[t].pc \in Putting
    /\ cache' = task[t].doc
    /\ Move(t, Then(OpenFor(task[t].pc)))
    /\ UNCHANGED <<fork, ledger, clock, named, reads>>

Identify(t) ==
    /\ task[t].pc = "identify"
    /\ IF gone THEN Leave(t) /\ UNCHANGED <<ctx, cache, named>>
       ELSE /\ Respond(Synced, work)
            /\ IF task[t].doc # Synced.content
               THEN cache' = None /\ task' = [task EXCEPT ![t].pc = "open2", ![t].tok = Synced.state]
               ELSE UNCHANGED cache /\ task' = [task EXCEPT ![t].pc = "open3", ![t].tok = Synced.state]
    /\ UNCHANGED <<docs, work, files, gone, ledger, clock, reads>>

Answer(t) ==
    /\ task[t].pc = "answer"
    /\ reads' = reads \cup {[tok |-> task[t].tok, doc |-> task[t].doc, alone |-> task[t].alone]}
    /\ Leave(t)
    /\ UNCHANGED <<fork, shared, clock, named>>

----------------------------------------------------------------------------
(* The wide surface: batch tools on the work file. *)

\* get_fork; the tools that resolve regions open the workbook first
BatchBegin(t) ==
    /\ ~gone /\ Free(t)
    /\ \E k \in Batches, mode \in {"apply", "preview"} :
       /\ k = "name" => mode = "apply"
       /\ Enter(t, [Idle EXCEPT !.pc = IF Handler(k).opens THEN "open" ELSE "load",
                                !.op = mode, !.kind = k, !.id = clock,
                                !.raise = k \in {"structure_batch", "move_values"} /\ ctx.recalc])
    /\ Tick /\ UNCHANGED <<fork, shared, named, reads>>

Kind(t) == Handler(task[t].kind)

\* Reading the work file; a preview copies it to the snapshot of the change
Load(t) ==
    /\ task[t].pc = "load"
    /\ IF work = None THEN Leave(t) /\ UNCHANGED files
       ELSE /\ task' = [task EXCEPT ![t].pc = IF task[t].op = "preview" THEN "stage" ELSE "save",
                                    ![t].doc = work]
            /\ files' = IF task[t].op = "preview" THEN With(files, task[t].id, work) ELSE files
    /\ UNCHANGED <<docs, work, ctx, gone, shared, clock, named, reads>>

\* add_staged_change: the change is listed with its snapshot
AddStaged(t) ==
    /\ task[t].pc = "stage"
    /\ IF gone THEN UNCHANGED <<ctx, files, clock>>
       ELSE LET s == Append(ctx.staged, [id |-> task[t].id, at |-> clock,
                                         kind |-> task[t].kind, base |-> task[t].doc])
            IN  /\ ctx' = Advanced([ctx EXCEPT !.staged = StagedKept(s)])
                /\ files' = Kept(files, Ids(s) \ Ids(StagedKept(s)))
                /\ Tick
    /\ Leave(t)
    /\ UNCHANGED <<docs, work, gone, shared, named, reads>>

\* Writing what was read, changed; grid_import writes in several steps and
\* may fail between two of them
Save(t) ==
    /\ task[t].pc = "save"
    /\ docs' = NewDoc(task[t].doc, {task[t].id}, Kind(t).stales)
    /\ work' = Len(docs) + 1
    /\ \/ Move(t, IF Kind(t).flags \/ task[t].raise THEN "flag"
                  ELSE IF task[t].op = "replay" THEN "consume" ELSE "close")
       \/ task[t].kind = "grid_import" /\ Leave(t)
    /\ UNCHANGED <<files, ctx, gone, shared, clock, named, reads>>

\* with_fork_mut: the flag, in a section of its own
Flag(t) ==
    /\ task[t].pc = "flag"
    /\ IF gone THEN Leave(t) /\ UNCHANGED ctx
       ELSE /\ ctx' = [ctx EXCEPT !.recalc = TRUE]
            /\ Move(t, IF task[t].op = "replay" THEN "consume" ELSE "close")
    /\ UNCHANGED <<docs, work, files, gone, shared, clock, named, reads>>

\* apply_staged_change: looks the change up, replays its tool on whatever the
\* work file holds, and removes it from the list at the end
ApplyStaged(t) ==
    /\ "apply_staged" \in Lifecycle /\ ~gone /\ Free(t)
    /\ \E i \in DOMAIN ctx.staged :
          /\ ctx.staged[i].kind \in Replayable \ {"canonical_write_bundle"}
          /\ Enter(t, [Idle EXCEPT !.pc = "load", !.op = "replay", !.kind = ctx.staged[i].kind,
                                   !.id = ctx.staged[i].id, !.raise = ctx.recalc])
    /\ Tick /\ UNCHANGED <<fork, shared, named, reads>>

\* A canonical bundle is replayed under the mutex, on its base only
ApplyBundle(t) ==
    /\ "apply_staged" \in Lifecycle /\ ~gone /\ Free(t)
    /\ \E i \in DOMAIN ctx.staged :
          /\ ctx.staged[i].kind = "canonical_write_bundle"
          /\ ctx.staged[i].base = work
          /\ ctx' = Advanced([Synced EXCEPT !.content = Len(docs) + 1, !.recalc = TRUE])
          /\ Enter(t, [Idle EXCEPT !.pc = IF ctx.recalc THEN "flag" ELSE "consume",
                                   !.op = "replay", !.kind = "canonical_write_bundle",
                                   !.id = ctx.staged[i].id])
    /\ docs' = NewDoc(work, {clock}, TRUE)
    /\ work' = Len(docs) + 1
    /\ Tick /\ UNCHANGED <<files, gone, shared, named, reads>>

Consume(t) ==
    /\ task[t].pc = "consume"
    /\ IF gone \/ task[t].id \notin Ids(ctx.staged)
       THEN Leave(t) /\ UNCHANGED <<ctx, files, clock>>
       ELSE /\ ctx' = Advanced([ctx EXCEPT !.staged = Retained(@, {i \in DOMAIN @ : @[i].id # task[t].id})])
            /\ files' = Kept(files, {task[t].id})
            /\ Move(t, "close") /\ Tick
    /\ UNCHANGED <<docs, work, gone, shared, named, reads>>

\* The tool recalculate evaluates the work file in place, then clears the flag
EvaluateBegin(t) ==
    /\ "evaluate" \in Lifecycle /\ ~gone /\ Free(t)
    /\ Enter(t, [Idle EXCEPT !.pc = "permit", !.op = "evaluate"])
    /\ Tick /\ UNCHANGED <<fork, shared, named, reads>>

EvaluateWork(t) ==
    /\ task[t].pc = "evaluate_work"
    /\ IF work = None THEN Leave(t) /\ UNCHANGED <<docs, work>>
       ELSE \E complete \in BOOLEAN :
              /\ docs' = Append(docs, [docs[work] EXCEPT !.fresh = complete])
              /\ work' = Len(docs) + 1
              /\ task' = [task EXCEPT ![t].pc = "settle", ![t].id = IF complete THEN 1 ELSE None]
    /\ UNCHANGED <<files, ctx, gone, shared, clock, named, reads>>

EvaluateFlag(t) ==
    /\ task[t].pc = "settle"
    /\ IF gone THEN Leave(t) /\ UNCHANGED ctx
       ELSE ctx' = [ctx EXCEPT !.recalc = task[t].id = None] /\ Move(t, "close")
    /\ UNCHANGED <<docs, work, files, gone, shared, clock, named, reads>>

\* restore_checkpoint of the registry keeps later checkpoints and operations
RestoreCheckpoint(t) ==
    /\ "restore" \in Lifecycle /\ ~gone /\ Free(t)
    /\ \E i \in DOMAIN ctx.checkpoints :
          LET p == ctx.checkpoints[i]
              c == [ctx EXCEPT !.staged = Until(@, p.at), !.recalc = p.recalc,
                               !.content = files[p.id]]
          IN  /\ ctx' = Advanced(c)
              /\ work' = files[p.id]
              /\ files' = Kept(files, Since(ctx.staged, p.at))
    /\ Enter(t, [Idle EXCEPT !.pc = "close", !.op = "restore"])
    /\ Tick /\ UNCHANGED <<docs, gone, shared, named, reads>>

\* create_checkpoint, delete_checkpoint and discard_staged_change of the registry
CheckpointFork(t) ==
    /\ "checkpoint" \in Lifecycle /\ ~gone /\ Free(t)
    /\ LET fs == With(files, clock, work)
           s == Append(ctx.checkpoints, Checkpoint)
           k == CheckpointsKept(s, fs)
       IN  /\ ctx' = Advanced([Synced EXCEPT !.checkpoints = k])
           /\ files' = Kept(fs, Ids(s) \ Ids(k))
    /\ Instant(t) /\ Tick
    /\ UNCHANGED <<docs, work, gone, shared, named, reads>>

DeleteCheckpoint(t) ==
    /\ "delete" \in Lifecycle /\ ~gone /\ Free(t)
    /\ \E i \in DOMAIN ctx.checkpoints :
          /\ ctx' = Advanced([ctx EXCEPT !.checkpoints = RemoveAt(@, i)])
          /\ files' = Kept(files, {ctx.checkpoints[i].id})
    /\ Instant(t) /\ Tick
    /\ UNCHANGED <<docs, work, gone, shared, named, reads>>

DiscardStaged(t) ==
    /\ "discard_staged" \in Lifecycle /\ ~gone /\ Free(t)
    /\ \E i \in DOMAIN ctx.staged :
          /\ ctx' = Advanced([ctx EXCEPT !.staged = RemoveAt(@, i)])
          /\ files' = Kept(files, {ctx.staged[i].id})
    /\ Instant(t) /\ Tick
    /\ UNCHANGED <<docs, work, gone, shared, named, reads>>

\* save_fork copies the work file out and may drop the fork
SaveFork(t) ==
    /\ "save" \in Lifecycle /\ ~gone /\ Free(t)
    /\ Cleaned
    /\ Instant(t) /\ Tick
    /\ UNCHANGED <<docs, ctx, shared, named, reads>>

----------------------------------------------------------------------------
(* Calls that return an error.  Nothing is undone: a file that was copied   *)
(* for an entry stays without it.                                           *)

\* The tool fails on the copy or on what it read, before anything is listed or
\* written: an unknown sheet, a bad range, an evaluation that fails
CallFails(t) ==
    /\ task[t].pc \in {"load", "stage", "save", "evaluate", "evaluate_work"}
    /\ IF task[t].pc # "stage" THEN UNCHANGED failed
       ELSE Cardinality(failed) < MaxFailures /\ failed' = failed \cup {task[t].id}
    /\ Leave(t)
    /\ UNCHANGED <<fork, shared, clock, named, reads>>

\* The copy of a checkpoint fails half way, on either surface
CheckpointFails(t) ==
    /\ (Offered("checkpoint") /\ Known) \/ ("checkpoint" \in Lifecycle /\ ~gone)
    /\ Free(t) /\ Cardinality(failed) < MaxFailures
    /\ ctx' = Synced
    /\ files' = With(files, clock, work)
    /\ failed' = failed \cup {clock}
    /\ Instant(t) /\ Tick
    /\ UNCHANGED <<docs, work, gone, shared, named, reads>>

----------------------------------------------------------------------------
CanonicalStep(t) ==
    \/ Observe(t) \/ Write(t) \/ Stage(t) \/ StagedApply(t) \/ StagedDiscard(t)
    \/ CheckpointCreate(t) \/ CheckpointDelete(t) \/ CheckpointRestore(t)
    \/ Export(t) \/ Discard(t)
    \/ RecalcBegin(t) \/ RecalcCopy(t) \/ Acquire(t) \/ RecalcCommit(t) \/ Record(t)
    \/ Revoke(t) \/ Close(t)
    \/ ReadBegin(t) \/ Open(t) \/ Put(t) \/ Identify(t) \/ Answer(t)

ToolStep(t) ==
    \/ BatchBegin(t) \/ Load(t) \/ AddStaged(t) \/ Save(t) \/ Flag(t)
    \/ ApplyStaged(t) \/ ApplyBundle(t) \/ Consume(t)
    \/ EvaluateBegin(t) \/ EvaluateWork(t) \/ EvaluateFlag(t)
    \/ RestoreCheckpoint(t) \/ CheckpointFork(t) \/ DeleteCheckpoint(t)
    \/ DiscardStaged(t) \/ SaveFork(t)

Succeeds(t) == (CanonicalStep(t) \/ ToolStep(t)) /\ UNCHANGED failed
Fails(t) == CallFails(t) \/ CheckpointFails(t)

Next == (\E t \in Tasks : Succeeds(t) \/ Fails(t)) /\ UNCHANGED load

Spec == Init /\ [][Next]_vars

----------------------------------------------------------------------------
(* Properties. *)

\* A token names one state: two responses that carried the same revision saw
\* the same content, staged changes, checkpoints, history length and flag
\* (sync_revisions and advance_state_revision in every canonical section).
\* Where only the canonical surface is used: the batch tools write outside of it.
CanonicalOnly == Batches = {} /\ Lifecycle = {}
TokenNamesOneState ==
    CanonicalOnly => \A n, m \in named : n[1] = m[1] => n[2] = m[2]

\* The recorded operations explain the content: the edits in the work file are
\* the ones get_changes reports, through writes, staged bundles, restores that
\* truncate the history, and recalculations of a copy taken outside the mutex.
HistoryExplainsContent ==
    CanonicalOnly /\ ~gone => docs[work].edits = {ctx.ops[i].edit : i \in DOMAIN ctx.ops} \ {None}

\* A lowered recalc_needed is true: the cached results of the work file belong
\* to its edits, also after a restore and after an incomplete evaluation, on the
\* canonical surface and for a client that uses the tools one at a time.  Not with
\* move_values, which leaves the flag as it was, nor with grid_import, which may
\* fail after it wrote and before it raises the flag.
OneAtATime == load.clients = 1 /\ Batches \cap {"move_values", "grid_import"} = {}
LoweredFlagIsFresh ==
    (CanonicalOnly \/ OneAtATime) /\ ~gone /\ ~ctx.recalc /\ (\A t \in Tasks : task[t].pc \notin {"flag", "settle"})
        => docs[work].fresh

\* A read that shared its time with no other request returns the content its
\* token names, whatever a slow load left in the cache before (identify).
LoneReadsAreCurrent ==
    CanonicalOnly => \A r \in reads : r.alone => \A n \in named : n[1] = r.tok => n[2].content = r.doc

\* Snapshot files and listed checkpoints and staged previews belong together:
\* limits, restores and discards leave no file behind and take none away that
\* a listed entry still needs.  A file that no entry lists is the copy of a
\* preview in progress, or of a preview or checkpoint whose call returned an
\* error after it had begun to copy: those are never removed while the fork
\* lives (the batch tools and create_checkpoint return by ? after fs::copy).
SnapshotsMatchTheList ==
    LET listed == Ids(ctx.checkpoints)
                  \cup {ctx.staged[i].id : i \in {j \in DOMAIN ctx.staged :
                                        ctx.staged[j].kind # "canonical_write_bundle"}}
        previews == {task[t].id : t \in {u \in Tasks : task[u].pc = "stage"}}
    IN  ~gone => listed \subseteq DOMAIN files /\ DOMAIN files \subseteq listed \cup previews \cup failed

\* A token can be relied on: it names one state, and a read that nothing else
\* ran beside returned the content of the state its token names.
TokensAreReliable == TokenNamesOneState /\ LoneReadsAreCurrent

\* The files on disk are what the registry says of them: the work file holds the
\* recorded edits, and the snapshots are those of the listed entries and of calls
\* in progress or failed.
FilesMatchTheRecords == HistoryExplainsContent /\ SnapshotsMatchTheList

----------------------------------------------------------------------------
(* Why it works: the inductive invariant of the proofs.                     *)

Tokens == {"hash", "state"} \X Nat
Contents == [edits : SUBSET Nat, fresh : BOOLEAN]
Changes == [id : Nat, at : Nat, kind : BatchTools \cup {"canonical_write_bundle"}, base : Nat]
Points == [id : Nat, at : Nat, recalc : BOOLEAN, ops : Nat]
Operations == [seq : Nat, edit : Nat]
Contexts == [state : Tokens, content : Nat, staged : Seq(Changes), checkpoints : Seq(Points),
             ops : Seq(Operations), recalc : BOOLEAN]
CanonicalPlaces ==
    {"idle", "copy", "permit", "evaluate", "record", "revoke", "close", "open1", "open2", "open3",
     "put1", "put2", "put3", "identify", "answer"}
Places == CanonicalPlaces \cup {"open", "put", "load", "stage", "save", "flag", "consume", "evaluate_work", "settle"}
Work == {"none", "write", "recalculate", "read", "apply", "preview", "replay", "evaluate", "restore"}
Requests == [pc : Places, op : Work, kind : BatchTools \cup {"none", "canonical_write_bundle"}, tok : Tokens, doc : Nat, id : Nat,
             raise : BOOLEAN, alone : BOOLEAN]

\* A content that a task is about to write from, or a snapshot holds, exists,
\* and a task that edits knows its tool
Shapes ==
    /\ load \in Workloads /\ gone \in BOOLEAN /\ clock \in Nat \ {0}
    /\ docs \in Seq(Contents) /\ work \in 0..Len(docs) /\ (gone \/ work # None)
    /\ cache \in 0..Len(docs) /\ ctx \in Contexts
    /\ \A i \in DOMAIN files : files[i] \in 1..Len(docs)
    /\ task \in [Tasks -> Requests]
    /\ \A t \in Tasks : task[t].doc \in 0..Len(docs)
    /\ \A t \in Tasks : task[t].pc \in {"save", "evaluate"} => task[t].doc # None
    /\ \A t \in Tasks : task[t].pc = "permit" /\ task[t].op = "recalculate" => task[t].doc # None
    /\ \A t \in Tasks : task[t].pc \in {"open", "put", "load", "save"} => task[t].kind \in BatchTools

\* Identifiers are handed out once: entries differ in theirs, and no preview in
\* progress has the identifier of an entry or of another preview.
Entries(s) == {s[i] : i \in DOMAIN s}
Once(s) == \A i, j \in DOMAIN s : s[i].id = s[j].id => i = j
Bundle(e) == e.kind = "canonical_write_bundle"
IdentifiersOnce(changes, points, tasks, now) ==
    /\ \A e \in changes : e.id < now /\ e.at < now
    /\ \A p \in points : p.id < now /\ p.at < now
    /\ \A e \in changes, p \in points : e.id # p.id
    /\ \A e, f \in changes : e.id = f.id => e = f
    /\ \A t \in Tasks : tasks[t].op = "preview" =>
          /\ tasks[t].id < now
          /\ tasks[t].pc \in {"open", "put", "load", "stage"} /\ tasks[t].kind \in BatchTools
          /\ \A e \in changes : tasks[t].id # e.id
          /\ \A p \in points : tasks[t].id # p.id
          /\ \A u \in Tasks : tasks[u].op = "preview" /\ tasks[t].id = tasks[u].id => t = u

\* The files are those of the checkpoints, of the changes that are no bundles, of
\* the previews that have copied theirs and of the calls that failed.
FilesListed(changes, points, tasks, names) ==
    /\ \A t \in Tasks : tasks[t].pc = "stage" => tasks[t].op = "preview" /\ tasks[t].id \in names
    /\ \A p \in points : p.id \in names
    /\ \A e \in changes : ~Bundle(e) => e.id \in names
    /\ \A n \in names : \/ \E p \in points : p.id = n
                        \/ \E e \in changes : ~Bundle(e) /\ e.id = n
                        \/ \E t \in Tasks : tasks[t].pc = "stage" /\ tasks[t].id = n
                        \/ n \in failed

\* The history is not shorter than when a checkpoint was made, and a later one
\* was made with at least as long a history.
PointsInOrder(points, length) ==
    \A p \in points : /\ p.ops <= length
                      /\ \A q \in points : q.at <= p.at => q.ops <= p.ops

Lists ==
    ~gone => /\ PointsInOrder(Entries(ctx.checkpoints), Len(ctx.ops))
             /\ Once(ctx.staged) /\ Once(ctx.checkpoints)
             /\ IdentifiersOnce(Entries(ctx.staged), Entries(ctx.checkpoints), task, clock)
             /\ FilesListed(Entries(ctx.staged), Entries(ctx.checkpoints), task, DOMAIN files)

\* On the canonical surface a task is where canonical operations go, every token
\* is older than the clock, and the context and the work file agree.
Old(token) == token[1] = "state" => token[2] < clock
CanonicalTasks ==
    \A t \in Tasks : /\ task[t].pc \in CanonicalPlaces /\ Old(task[t].tok)
                     /\ task[t].pc \in {"copy", "permit"} => task[t].op = "recalculate"
NamedOnce ==
    /\ Old(ctx.state) /\ \A n \in named : n[1] \in Tokens /\ Old(n[1])
    /\ \A n, m \in named : n[1] = m[1] => n[2] = m[2]
    /\ ~gone => /\ ctx.content = work
                /\ \A n \in named : n[1] = ctx.state => n[2] = View(ctx, work)

\* The edits after the first n operations; those of a checkpoint are in its file
EditsOf(ops, n) == {ops[i].edit : i \in 1..n} \ {None}
Explained ==
    ~gone => /\ docs[work].edits = EditsOf(ctx.ops, Len(ctx.ops))
             /\ \A p \in Entries(ctx.checkpoints) :
                   docs[files[p.id]].edits = EditsOf(ctx.ops, p.ops)
             /\ \A t \in Tasks : task[t].pc \in {"permit", "evaluate"} /\ task[t].tok = ctx.state
                                    => task[t].doc = work

\* A task that is alone is the only one, and then a read holds what is current
Told(token, content) == \E n \in named : n[1] = token /\ n[2].content = content
LoneTasks ==
    /\ \A t, u \in Tasks : task[t].alone /\ task[t].pc # "idle" /\ task[u].pc # "idle" => t = u
    /\ \A t \in Tasks : task[t].alone /\ task[t].op = "read" =>
          /\ task[t].pc \in {"put1", "put2", "put3"} => task[t].doc = work
          /\ task[t].pc = "identify" => cache = task[t].doc
          /\ task[t].pc = "open2" => cache = None
          /\ task[t].pc = "open3" => cache = work
          /\ task[t].pc = "answer" => task[t].doc = work
          /\ task[t].pc \in {"open2", "put2", "open3", "put3", "answer"} => Told(task[t].tok, work)
          /\ task[t].pc # "idle" => ~gone
    /\ \A t \in Tasks : task[t].pc \in {"put1", "put2", "put3", "identify", "open1", "open2", "open3", "answer"}
                           => task[t].op = "read"
    /\ \A r \in reads : r.alone => Told(r.tok, r.doc)

OnTheCanonicalSurface ==
    CanonicalOnly => CanonicalTasks /\ NamedOnce /\ Explained /\ LoneTasks

\* One request at a time: nobody changes the work file between a load and its
\* save, and what makes results stale goes on to raise the flag.
OneRequest ==
    /\ \A t, u \in Tasks : task[t].pc # "idle" /\ task[u].pc # "idle" => t = u
    /\ \A t \in Tasks : /\ task[t].pc = "save" => task[t].doc = work
                        /\ task[t].pc \in {"open", "put", "load", "stage", "save"} => task[t].kind \in Batches
    /\ \A t \in Tasks : task[t].pc = "settle" /\ task[t].id # None => gone \/ docs[work].fresh
    /\ \A e \in Entries(ctx.staged) : Bundle(e) \/ e.kind \in Batches

FlagIsTrue(flag, content) == flag \/ docs[content].fresh
FlagsAreTrue ==
    ~gone => /\ \/ \E t \in Tasks : task[t].pc \in {"flag", "settle"}
                \/ FlagIsTrue(ctx.recalc, work)
             /\ \A p \in Entries(ctx.checkpoints) : FlagIsTrue(p.recalc, files[p.id])

Flags == (OneAtATime => OneRequest) /\ (CanonicalOnly \/ OneAtATime => FlagsAreTrue)

LifecycleInv == Shapes /\ Lists /\ OnTheCanonicalSurface /\ Flags

=============================================================================
