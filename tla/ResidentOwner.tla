--------------------------- MODULE ResidentOwner ---------------------------
(***************************************************************************)
(* The owner of a resident session (`ResidentWriteSession` and the durable *)
(* operations of canonical_write.rs) over the log its storage implements.  *)
(*                                                                         *)
(* Every durable operation goes the same way: load the stream, refuse to   *)
(* go on if it differs from the owner, answer a known request from its     *)
(* record, prepare one record, load and compare again (all but the writes),*)
(* commit, reconcile when the commit failed, and only then publish into    *)
(* the workbook in memory.  Unknown outcomes poison the owner until it is  *)
(* recovered from the stream.                                              *)
(*                                                                         *)
(* Several owners may be attached to one stream; calls fail, processes are *)
(* killed, power is lost.  The document in memory is the sequence of       *)
(* commits applied to the base; a revision is its epoch, document and      *)
(* state numbers.  Each record in the log keeps, next to what the code     *)
(* stores, who appended it (by) and the state replay reaches with it       *)
(* (post): replay always starts from the first record, and its state after *)
(* a prefix depends on that prefix alone.                                  *)
(***************************************************************************)
EXTENDS ResidentHistory, FiniteSets

CONSTANTS
    Owners,         \* processes that can own the session
    Requests,       \* request identities clients use
    Workloads,      \* the mixes of operations, branch names and bounds considered
    NoRecord,       \* no operation in progress
    NoBytes,        \* an operation that does not replace the document
    MaxAttempts     \* bound: the prepared records of any workload

ASSUME OwnerBounds ==
    /\ MaxAttempts \in Nat /\ NoCommit \notin Nat
    /\ NoRevision \notin [epoch : Nat, doc : Nat, state : Nat]
    /\ NoBytes \notin Seq(Nat)
    /\ Requests \cap Nat = {}      \* clients never use the identities of restarts
    /\ \A w \in Workloads : w.attempts \in 0..MaxAttempts /\ w.records \in Nat /\ w.faults \in Nat

VARIABLES
    load,       \* the workload of this behaviour
    log, firm, told, refuted,   \* the storage, as in DurableLog
    own,        \* per owner: the session in memory
    pc,         \* per owner: the step its operation has reached
    prop,       \* per owner: the prepared record and the materialized document
    got,        \* per owner: the commit the storage answered with
    attempts,   \* records prepared so far; also the source of fresh identities
    epochs,     \* workbooks opened from the base so far
    faults,     \* failures so far
    observed    \* observer: the states clients could read or were told of

storage == <<log, firm, told, refuted>>
vars == <<load, storage, own, pc, prop, got, attempts, epochs, faults, observed>>

BranchNames == load.branches    \* names for new branches
Offered == load.offered         \* the operations clients call
MaxRecords == load.records      \* the journal's lifetime quota
MaxFaults == load.faults        \* bound: failed calls, kills and power losses

Log == INSTANCE DurableLog WITH Records <- {}, Ids <- 1..MaxAttempts

Replayed == IF log = << >> THEN Empty ELSE log[Len(log)].post

-----------------------------------------------------------------------------
(* The session in memory.                                                  *)

Stamps == {"NotEvaluated", "Dirty", "Current"}

Down ==
    [up |-> FALSE, poisoned |-> FALSE, rev |-> NoRevision, doc |-> << >>,
     staged |-> << >>, gen |-> 0, stamp |-> "Dirty"]

\* Mutant: the epoch is derived from the base workbook.
FromBytesSameEpoch(e) ==
    [Down EXCEPT !.up = TRUE, !.stamp = "NotEvaluated",
                 !.rev = [epoch |-> 1, doc |-> 0, state |-> 0]]

\* from_bytes: the base workbook under a new epoch.
FromBytes(e) ==
    [Down EXCEPT !.up = TRUE, !.stamp = "NotEvaluated",
                 !.rev = [epoch |-> e, doc |-> 0, state |-> 0]]

Bump(v, d, s) == [v EXCEPT !.doc = @ + d, !.state = @ + s]

\* Mutant: recovery stages every change again, the discarded ones too.
RecoverForgetsDiscards ==
    LET h == Replayed
        stages == {k \in DOMAIN log : log[k].kind = "CatalogStage"}
    IN  [up |-> TRUE, poisoned |-> FALSE,
         rev |-> Bump(h.rev, 0, 1),
         doc |-> Lineage(h, h.head),
         staged |-> [c \in {log[k].item : k \in stages} |-> h.rev],
         gen |-> Cardinality({k \in DOMAIN log : log[k].kind \in CatalogKinds}),
         stamp |-> "Dirty"]

\* recover_from_records: the active commits over the base, the catalog from
\* the whole stream, the last revision, and a restart boundary.
RecoverFromRecords ==
    LET h == Replayed
        stagedBy(c) == CHOOSE k \in DOMAIN log : log[k].kind = "CatalogStage" /\ log[k].item = c
    IN  [up |-> TRUE, poisoned |-> FALSE,
         rev |-> Bump(h.rev, 0, 1),
         doc |-> Lineage(h, h.head),
         staged |-> [c \in h.catalog |-> log[stagedBy(c)].before],
         gen |-> Cardinality({k \in DOMAIN log : log[k].kind \in CatalogKinds}),
         stamp |-> "Dirty"]

\* The publication of a committed record into memory: cells or a snapshot
\* (publishes), a materialized head (bytes), formula caches, or metadata.
Published(o, r, bytes) ==
    LET moves == r.publishes \/ bytes # NoBytes
        still == CatalogOnly(r) \/ (r.kind = "CalculationInvalidate" /\ o.stamp = "Dirty")
    IN  [o EXCEPT
           !.doc = IF r.publishes THEN Append(@, r.id) ELSE IF moves THEN bytes ELSE @,
           !.rev = IF moves THEN Bump(@, 1, 1) ELSE IF still THEN @ ELSE Bump(@, 0, 1),
           !.stamp = CASE moves /\ ~(r.publishes /\ r.preserve) -> "Dirty"
                       [] r.kind = "CalculationInvalidate"      -> "Dirty"
                       [] r.kind = "CalculationPublish"         -> "Current"
                       [] OTHER                                 -> @,
           !.staged = CASE r.kind = "CatalogStage" -> Put(@, r.item, r.before)
                        [] r.kind \in {"CatalogDiscard", "StageApply"} -> Drop(@, r.item)
                        [] OTHER -> @,
           !.gen = IF r.kind \in CatalogKinds THEN @ + 1 ELSE @]

Usable(i) == own[i].up /\ ~own[i].poisoned /\ pc[i] = "idle"

\* The staleness test of every operation: revision and catalog generation.
InSync(i) ==
    /\ Replayed.rev # NoRevision => Replayed.rev = own[i].rev
    /\ Replayed.gen = own[i].gen

ViewOf(o) == [rev |-> o.rev, gen |-> o.gen, doc |-> o.doc,
              staged |-> DOMAIN o.staged, stamp |-> o.stamp]

-----------------------------------------------------------------------------
Steps == {"idle", "reload", "commit", "barrier", "reconcile", "publish"}

TypeOK ==
    /\ firm \in 0..Len(log)
    /\ Len(log) <= MaxRecords
    /\ \A i \in Owners : /\ pc[i] \in Steps
                         /\ own[i].up \in BOOLEAN /\ own[i].poisoned \in BOOLEAN
                         /\ own[i].stamp \in Stamps
                         /\ own[i].gen \in 0..MaxRecords
                         /\ pc[i] # "idle" => prop[i] # NoRecord
    /\ load \in Workloads
    /\ attempts \in 0..load.attempts
    /\ faults \in 0..MaxFaults

Init ==
    /\ load \in Workloads
    /\ Log!Init
    /\ own = [i \in Owners |-> Down]
    /\ pc = [i \in Owners |-> "idle"]
    /\ prop = [i \in Owners |-> NoRecord]
    /\ got = [i \in Owners |-> NoCommit]
    /\ attempts = 0
    /\ epochs = 0
    /\ faults = 0
    /\ observed = {}

-----------------------------------------------------------------------------
(* Preparing a record.                                                     *)

RequestsIn == {log[k].req : k \in DOMAIN log}

\* Bound: clients keep this many request identities in use.
InUse == Requests \cap (RequestsIn \cup {prop[i].rec.req : i \in {j \in Owners : pc[j] # "idle"}})
MayUse(q) == q \in InUse \/ Cardinality(InUse) < load.requests

\* What every operation checks first: the owner is usable and in step with the
\* stream, the request is new, and the resource has not been discarded.
Ready(i, q, op) ==
    /\ op \in Offered
    /\ Usable(i)
    /\ InSync(i)
    /\ q \notin RequestsIn
    /\ ~Replayed.discarded
    /\ attempts < load.attempts

\* A record that changes nothing, on the owner's revision and the loaded state.
Blank(i, q) ==
    LET h == Replayed
    IN  [id |-> attempts + 1, req |-> q, fp |-> NoRecord, parent |-> h.tip,
         kind |-> "WriteNothing", item |-> NoRecord, target |-> NoCommit,
         publishes |-> FALSE, preserve |-> FALSE, hparent |-> NoCommit,
         before |-> own[i].rev, head |-> h.head, branch |-> h.branch,
         branches |-> h.branches, gen |-> own[i].gen, rev |-> own[i].rev,
         by |-> i, post |-> Empty]

\* What the request fingerprint covers: writes, recalculations, discards and
\* restarts are bound to a revision, the others to the state they lead to.
Fingerprint(r) ==
    LET bound == r.kind \in PreparedKinds \cup {"CalculationPublish", "CatalogDiscard", "Restart"}
    IN  [kind |-> r.kind, item |-> IF r.kind = "CatalogStage" THEN NoRecord ELSE r.item,
         change |-> <<r.publishes, r.preserve>>,
         on |-> IF bound THEN r.before ELSE NoRevision,
         head |-> IF bound THEN NoCommit ELSE r.head,
         branches |-> IF bound THEN << >> ELSE r.branches]

Prepare(i, r, bytes, step) ==
    /\ prop' = [prop EXCEPT ![i] = [rec |-> [r EXCEPT !.fp = Fingerprint(r)], bytes |-> bytes]]
    /\ pc' = [pc EXCEPT ![i] = step]
    /\ attempts' = attempts + 1
    /\ UNCHANGED <<storage, own, got, epochs, faults, observed>>

\* Everything but a plain write loads the stream once more before it commits.
Submit(i, r, bytes) == Prepare(i, r, bytes, "reload")

\* Mutant: the deletion of a checkpoint does not count as a catalog change.
ControlForgetsDeletion(i, q, kind) ==
    [Blank(i, q) EXCEPT !.kind = kind,
        !.rev = IF kind \in Receipts \/ kind \in CatalogKinds THEN @ ELSE Bump(@, 0, 1),
        !.gen = IF kind = "Checkpoint" THEN @ + 1 ELSE @]

\* A record of the control path: commit_portable_control_transition predicts
\* the revision from the kind of publication.
Control(i, q, kind) ==
    [Blank(i, q) EXCEPT !.kind = kind,
        !.rev = IF kind \in Receipts \/ kind \in CatalogKinds THEN @ ELSE Bump(@, 0, 1),
        !.gen = IF kind \in {"Checkpoint", "CheckpointDelete"} THEN @ + 1 ELSE @]

\* A receipt for an operation that had nothing to do.
Receipt(i, q, kind, item) ==
    Submit(i, [Control(i, q, kind) EXCEPT !.item = item], NoBytes)

\* Commits an owner takes for document commits: those of its write records,
\* among them staged applies that published nothing.
WriteCommits == {log[k].id : k \in {j \in DOMAIN log : log[j].kind \in {"Mutation", "StageApply"}}}

\* materialize_portable_head: the document at a commit, from the records.
Materialize(t) == IF t \in Known(Replayed) THEN Lineage(Replayed, t) ELSE << >>

\* move_head_durable and the restore of a checkpoint.
MoveHead(i, q, kind, t) ==
    Submit(i, [Control(i, q, kind) EXCEPT !.head = t, !.rev = Bump(own[i].rev, 1, 1)],
           Materialize(t))

-----------------------------------------------------------------------------
(* The operations.                                                         *)

\* A record that also publishes the prepared document change.
Publishing(r) ==
    [r EXCEPT !.publishes = TRUE, !.hparent = r.head, !.head = r.id,
              !.branches = Put(@, r.branch, r.id), !.rev = Bump(@, 1, 1)]

\* A write publishes cells or a snapshot, or changes nothing.
Write(i, q) ==
    /\ Ready(i, q, "write")
    /\ LET m == Publishing([Blank(i, q) EXCEPT !.kind = "Mutation"])
       IN  \/ \E keep \in BOOLEAN : Prepare(i, [m EXCEPT !.preserve = keep], NoBytes, "commit")
           \/ Prepare(i, Blank(i, q), NoBytes, "commit")

Stage(i, q) ==
    /\ Ready(i, q, "stage")
    /\ Prepare(i, [Blank(i, q) EXCEPT !.kind = "CatalogStage",
                      !.item = attempts + 1, !.gen = @ + 1], NoBytes, "commit")

\* apply_staged_durable: only on the revision it was staged on.
ApplyStaged(i, q) ==
    /\ Ready(i, q, "apply_staged")
    /\ \E c \in DOMAIN own[i].staged :
          /\ own[i].staged[c] = own[i].rev
          /\ LET r == [Blank(i, q) EXCEPT !.kind = "StageApply", !.item = c, !.gen = @ + 1]
             IN  Submit(i, Publishing(r), NoBytes) \/ Submit(i, r, NoBytes)

\* discard_staged_durable: a record when the change is there, a receipt when
\* it is not.
DiscardStaged(i, q) ==
    /\ Ready(i, q, "discard_staged")
    /\ \E c \in 1..attempts :
          IF c \in DOMAIN own[i].staged
             THEN Submit(i, [Blank(i, q) EXCEPT !.kind = "CatalogDiscard",
                                !.item = c, !.gen = @ + 1], NoBytes)
             ELSE Receipt(i, q, "DiscardNothing", c)

Recalculate(i, q) ==
    /\ Ready(i, q, "recalculate")
    /\ Submit(i, Control(i, q, "CalculationPublish"), NoBytes)

\* The evaluation fails before anything is prepared.
RecalculateFails(i, q) ==
    /\ Ready(i, q, "recalculate")
    /\ faults < MaxFaults
    /\ faults' = faults + 1
    /\ own' = [own EXCEPT ![i].poisoned = TRUE]
    /\ UNCHANGED <<storage, pc, prop, got, attempts, epochs, observed>>

RevokeCalculation(i, q) ==
    /\ Ready(i, q, "revoke")
    /\ IF own[i].stamp = "Dirty"
          THEN Receipt(i, q, "InvalidateNothing", NoRecord)
          ELSE Submit(i, Control(i, q, "CalculationInvalidate"), NoBytes)

CreateCheckpoint(i, q) ==
    /\ Ready(i, q, "checkpoint")
    /\ Submit(i, Control(i, q, "Checkpoint"), NoBytes)

RestoreCheckpoint(i, q) ==
    /\ Ready(i, q, "restore")
    /\ \E c \in DOMAIN Replayed.checkpoints :
          MoveHead(i, q, "Checkout", Replayed.checkpoints[c])

DeleteCheckpoint(i, q) ==
    /\ Ready(i, q, "delete_checkpoint")
    /\ \E c \in DOMAIN Replayed.checkpoints :
          Submit(i, [Control(i, q, "CheckpointDelete") EXCEPT !.item = c],
                 NoBytes)

CreateBranch(i, q) ==
    /\ Ready(i, q, "branch")
    /\ \E b \in BranchNames \ DOMAIN Replayed.branches,
          t \in WriteCommits \cup {Replayed.head, NoCommit} :
          Submit(i, [Control(i, q, "BranchCreate") EXCEPT !.item = b, !.target = t,
                        !.branches = Put(@, b, t)], NoBytes)

\* The document is materialized only when the head changes.
SwitchBranch(i, q) ==
    /\ Ready(i, q, "switch")
    /\ \E b \in DOMAIN Replayed.branches :
          LET t == Replayed.branches[b]
              moves == t # Replayed.head
              r == [Control(i, q, "BranchSwitch") EXCEPT !.item = b, !.branch = b, !.head = t]
          IN  Submit(i, IF moves THEN [r EXCEPT !.rev = Bump(own[i].rev, 1, 1)] ELSE r,
                     IF moves THEN Materialize(t) ELSE NoBytes)

Undo(i, q) ==
    /\ Ready(i, q, "undo")
    /\ IF Replayed.head = NoCommit
          THEN Receipt(i, q, "UndoNothing", NoRecord)
          ELSE MoveHead(i, q, "Undo", ParentOfHead(Replayed))

Redo(i, q) ==
    /\ Ready(i, q, "redo")
    /\ IF RedoTarget(Replayed) = NoCommit
          THEN Receipt(i, q, "RedoNothing", NoRecord)
          ELSE MoveHead(i, q, "Redo", RedoTarget(Replayed))

Checkout(i, q) ==
    /\ Ready(i, q, "checkout")
    /\ \E t \in WriteCommits : MoveHead(i, q, "Checkout", t)

\* Lifecycle receipts: creation only on an empty stream.
Lifecycle(i, q) ==
    \/ /\ Ready(i, q, "create") /\ log = << >>
       /\ Receipt(i, q, "Creation", NoRecord)
    \/ /\ Ready(i, q, "export")
       /\ Receipt(i, q, "ResourceExport", NoRecord)
    \/ /\ Ready(i, q, "discard")
       /\ Receipt(i, q, "ResourceDiscard", NoRecord)

\* A write on a stream that moved on without this owner poisons it.
StaleWrite(i) ==
    /\ "write" \in Offered
    /\ Usable(i) /\ ~InSync(i)
    /\ own' = [own EXCEPT ![i].poisoned = TRUE]
    /\ UNCHANGED <<storage, pc, prop, got, attempts, epochs, faults, observed>>

-----------------------------------------------------------------------------
(* Committing it.                                                          *)

\* The second load: the stream may have moved on since the first.
Reload(i) ==
    /\ pc[i] = "reload"
    /\ IF InSync(i)
          THEN /\ prop' = [prop EXCEPT ![i].rec.parent = Replayed.tip]
               /\ pc' = [pc EXCEPT ![i] = "commit"]
               /\ UNCHANGED own
          ELSE /\ prop' = [prop EXCEPT ![i] = NoRecord]
               /\ pc' = [pc EXCEPT ![i] = "idle"]
               /\ own' = [own EXCEPT ![i].poisoned = TRUE]
    /\ UNCHANGED <<storage, got, attempts, epochs, faults, observed>>

\* Position of the record under the request identity of the operation.
Position(i) == {k \in DOMAIN log : log[k].req = prop[i].rec.req}
SameInput(i) == {k \in Position(i) : log[k].fp = prop[i].rec.fp}

Stamped(r) == [r EXCEPT !.post = After(Replayed, r)]

\* The storage accepts the record and appends it; it is visible from here on.
CommitAppend(i) ==
    /\ pc[i] = "commit"
    /\ Accepts(Replayed, prop[i].rec)
    /\ Len(log) < MaxRecords
    /\ Log!AppendRecord(Stamped(prop[i].rec))
    /\ pc' = [pc EXCEPT ![i] = "barrier"]
    /\ UNCHANGED <<own, prop, got, attempts, epochs, faults, observed>>

\* Mutant: commit answers before the barriers.
AnswerBeforeBarrier(i) ==
    /\ pc[i] = "barrier"
    /\ got' = [got EXCEPT ![i] = prop[i].rec.id]
    /\ pc' = [pc EXCEPT ![i] = "publish"]
    /\ UNCHANGED <<storage, own, prop, attempts, epochs, faults, observed>>

\* The barriers complete and commit answers with the record's own identity.
CommitBarrier(i) ==
    /\ pc[i] = "barrier"
    /\ Log!Harden
    /\ got' = [got EXCEPT ![i] = prop[i].rec.id]
    /\ pc' = [pc EXCEPT ![i] = "publish"]
    /\ UNCHANGED <<own, prop, attempts, epochs, faults, observed>>

\* Commit answers an exact retry, or reconcile a lost answer, from the record
\* that is there already.
FindExisting(i) ==
    /\ pc[i] \in {"commit", "reconcile"}
    /\ \E k \in SameInput(i) : got' = [got EXCEPT ![i] = log[k].id]
    /\ Log!Harden
    /\ pc' = [pc EXCEPT ![i] = "publish"]
    /\ UNCHANGED <<own, prop, attempts, epochs, faults, observed>>

\* Commit refuses the record: the stream moved on, replay rejects it, the quota
\* is reached, or the request identity has another input.
CommitRefuses(i) ==
    /\ pc[i] = "commit"
    /\ SameInput(i) = {}
    /\ \/ Position(i) # {} \/ ~Accepts(Replayed, prop[i].rec) \/ Len(log) >= MaxRecords
    /\ pc' = [pc EXCEPT ![i] = "reconcile"]
    /\ UNCHANGED <<storage, own, prop, got, attempts, epochs, faults, observed>>

\* A system call of commit fails, before or after the record became visible;
\* or everything was done and only the answer is lost.
CommitFails(i) ==
    /\ faults < MaxFaults
    /\ faults' = faults + 1
    /\ \/ pc[i] \in {"commit", "barrier"} /\ UNCHANGED storage
       \/ pc[i] = "barrier" /\ Log!Harden
    /\ pc' = [pc EXCEPT ![i] = "reconcile"]
    /\ UNCHANGED <<own, prop, got, attempts, epochs, observed>>

\* The operation ends; a recovery that failed leaves no session behind.
Finish(i, o) ==
    /\ own' = [own EXCEPT ![i] = IF @.up THEN o ELSE Down]
    /\ pc' = [pc EXCEPT ![i] = "idle"]
    /\ prop' = [prop EXCEPT ![i] = NoRecord]
    /\ got' = [got EXCEPT ![i] = NoCommit]

\* Reconcile answers NotFound: an error, without effect, and the owner goes on.
ReconcileNotFound(i) ==
    /\ pc[i] = "reconcile"
    /\ Position(i) = {}
    /\ Log!TellNotFound({prop[i].rec.id})
    /\ Finish(i, own[i])
    /\ UNCHANGED <<attempts, epochs, faults, observed>>

\* Reconcile fails as well: the outcome is unknown.
ReconcileFails(i) ==
    /\ pc[i] = "reconcile"
    /\ \/ faults < MaxFaults /\ faults' = faults + 1
       \/ Position(i) # {} /\ SameInput(i) = {} /\ UNCHANGED faults
    /\ Finish(i, [own[i] EXCEPT !.poisoned = TRUE])
    /\ UNCHANGED <<storage, attempts, epochs, observed>>

-----------------------------------------------------------------------------
(* Publishing it.                                                          *)

\* The caller gets the outcome of the record the storage answered with.
TellOutcome(i) ==
    /\ told' = told \cup {[seq |-> k, rec |-> log[k]] : k \in {j \in DOMAIN log : log[j].id = got[i]}}
    /\ UNCHANGED <<log, firm, refuted>>

\* The record is the one this operation prepared: publish exactly that.  The
\* revision and generation reached must be the committed ones.  A discard does
\* not ask whose record it was: the fingerprint fixes change and revision.
Publish(i) ==
    /\ pc[i] = "publish"
    /\ own[i].up
    /\ got[i] = prop[i].rec.id \/ prop[i].rec.kind = "CatalogDiscard"
    /\ LET r == prop[i].rec
           o == Published(own[i], r, prop[i].bytes)
           ok == o.rev = r.rev /\ o.gen = r.gen
       IN  IF ok THEN /\ TellOutcome(i)
                      /\ Finish(i, o)
                      /\ observed' = observed \cup {ViewOf(o)}
                 ELSE /\ Finish(i, [own[i] EXCEPT !.poisoned = TRUE])
                      /\ UNCHANGED <<storage, observed>>
    /\ UNCHANGED <<attempts, epochs, faults>>

\* Publication fails after the commit: the outcome stands, the owner is lost.
PublishFails(i) ==
    /\ pc[i] = "publish"
    /\ own[i].up
    /\ faults < MaxFaults
    /\ faults' = faults + 1
    /\ Finish(i, [own[i] EXCEPT !.poisoned = TRUE])
    /\ UNCHANGED <<storage, attempts, epochs, observed>>

\* The request had been committed before: its original outcome is returned and
\* nothing is published.  A write leaves the owner usable, a control operation
\* only when the owner is where that record left the stream.
PublishOriginal(i) ==
    /\ pc[i] = "publish"
    /\ own[i].up
    /\ got[i] # prop[i].rec.id /\ prop[i].rec.kind # "CatalogDiscard"
    /\ \E k \in SameInput(i) :
          IF \/ prop[i].rec.kind \in PreparedKinds
             \/ own[i].rev = log[k].rev /\ own[i].gen = log[k].gen
             THEN TellOutcome(i) /\ Finish(i, own[i])
             ELSE Finish(i, [own[i] EXCEPT !.poisoned = TRUE]) /\ UNCHANGED storage
    /\ UNCHANGED <<attempts, epochs, faults, observed>>

\* A retry of a request the stream already holds, on an owner in step with it.
Retry(i, q) ==
    /\ Usable(i) /\ InSync(i)
    /\ \E k \in DOMAIN log :
          /\ log[k].req = q
          /\ told' = told \cup {[seq |-> k, rec |-> log[k]]}
    /\ firm' = Len(log)
    /\ UNCHANGED <<log, refuted, own, pc, prop, got, attempts, epochs, faults, observed>>

-----------------------------------------------------------------------------
(* Recovery and failures.                                                  *)

\* recover_durable_resident_session: nothing to record for an empty stream or
\* a discarded resource; otherwise the restart is committed before the session
\* may be used.
RecoverIdle(i) ==
    /\ pc[i] = "idle" /\ ~own[i].up
    /\ IF log = << >>
          THEN /\ epochs < load.attempts
               /\ epochs' = epochs + 1
               /\ own' = [own EXCEPT ![i] = FromBytes(epochs + 1)]
          ELSE /\ Replayed.discarded
               /\ own' = [own EXCEPT ![i] = RecoverFromRecords]
               /\ UNCHANGED epochs
    /\ observed' = observed \cup {ViewOf(own'[i])}
    /\ UNCHANGED <<storage, pc, prop, got, attempts, faults>>

Recover(i) ==
    /\ pc[i] = "idle" /\ ~own[i].up
    /\ log # << >> /\ ~Replayed.discarded
    /\ attempts < load.attempts
    /\ LET o == RecoverFromRecords
       IN  Prepare(i, [Blank(i, attempts + 1) EXCEPT !.kind = "Restart", !.item = Replayed.tip,
                          !.before = o.rev, !.rev = o.rev, !.gen = o.gen],
                   o, "commit")

\* The restart is committed: the recovered session is handed out.
Recovered(i) ==
    /\ pc[i] = "publish"
    /\ ~own[i].up
    /\ own' = [own EXCEPT ![i] = prop[i].bytes]
    /\ pc' = [pc EXCEPT ![i] = "idle"]
    /\ prop' = [prop EXCEPT ![i] = NoRecord]
    /\ got' = [got EXCEPT ![i] = NoCommit]
    /\ observed' = observed \cup {ViewOf(prop[i].bytes)}
    /\ UNCHANGED <<storage, attempts, epochs, faults>>

\* The owner goes away: detached, poisoned and closed, or killed in the middle.
Leave(i) ==
    /\ own[i].up \/ pc[i] # "idle"
    /\ IF own[i].poisoned THEN UNCHANGED faults ELSE faults < MaxFaults /\ faults' = faults + 1
    /\ own' = [own EXCEPT ![i] = Down]
    /\ pc' = [pc EXCEPT ![i] = "idle"]
    /\ prop' = [prop EXCEPT ![i] = NoRecord]
    /\ got' = [got EXCEPT ![i] = NoCommit]
    /\ UNCHANGED <<storage, attempts, epochs, observed>>

PowerLoss ==
    /\ faults < MaxFaults
    /\ faults' = faults + 1
    /\ \E n \in 0..Len(log) : Log!Lose(n)
    /\ own' = [i \in Owners |-> Down]
    /\ pc' = [i \in Owners |-> "idle"]
    /\ prop' = [i \in Owners |-> NoRecord]
    /\ got' = [i \in Owners |-> NoCommit]
    /\ UNCHANGED <<attempts, epochs, observed>>

-----------------------------------------------------------------------------
Operation(i, q) ==
    \/ Write(i, q) \/ Stage(i, q) \/ ApplyStaged(i, q) \/ DiscardStaged(i, q)
    \/ Recalculate(i, q) \/ RecalculateFails(i, q) \/ RevokeCalculation(i, q)
    \/ CreateCheckpoint(i, q) \/ RestoreCheckpoint(i, q) \/ DeleteCheckpoint(i, q)
    \/ CreateBranch(i, q) \/ SwitchBranch(i, q)
    \/ Undo(i, q) \/ Redo(i, q) \/ Checkout(i, q)
    \/ Lifecycle(i, q) \/ Retry(i, q)

Continue(i) ==
    \/ Reload(i) \/ CommitAppend(i) \/ CommitBarrier(i) \/ FindExisting(i) \/ CommitRefuses(i)
    \/ CommitFails(i) \/ ReconcileNotFound(i) \/ ReconcileFails(i)
    \/ Publish(i) \/ PublishFails(i) \/ PublishOriginal(i) \/ Recovered(i)

Next ==
    /\ \/ \E i \in Owners, q \in Requests : MayUse(q) /\ Operation(i, q)
       \/ \E i \in Owners : Continue(i) \/ StaleWrite(i) \/ RecoverIdle(i) \/ Recover(i) \/ Leave(i)
       \/ PowerLoss
    /\ UNCHANGED load

Spec == Init /\ [][Next]_vars

-----------------------------------------------------------------------------
(* Properties.                                                             *)

\* A session holds what replay derives: the document, the staged changes and
\* the calculation status.
Agrees(o, h) ==
    /\ o.doc = Lineage(h, h.head)
    /\ DOMAIN o.staged = h.catalog
    /\ (o.stamp = "Current") <=> h.calc

\* Revision and catalog generation are all an owner compares with the stream
\* before it prepares a record.  That is enough: an owner that passes holds the
\* document, the staged changes and the calculation status that replay derives
\* from the stream, whatever other owners did in the meantime.
TokenCheckSuffices ==
    \A i \in Owners : Usable(i) /\ InSync(i) /\ log # << >> => Agrees(own[i], Replayed)

\* The commit a Checkout or BranchCreate points to.
TargetOf(r) ==
    CASE r.kind = "Checkout" -> r.head [] r.kind = "BranchCreate" -> r.target [] OTHER -> NoCommit

\* What an owner predicts is what happens.  Replay accepts a record whose parent
\* is still the last commit (head, branches, catalog generation, revision, ABA),
\* unless its target commit turned out not to carry a document, which only
\* replay notices; and its publication in memory reaches the committed revision
\* and generation: "durable publication invariant failed" and "history
\* publication revision mismatch" are dead branches.
PredictionsHold ==
    \A i \in Owners :
        /\ /\ pc[i] = "commit"
           /\ prop[i].rec.parent = Replayed.tip
           /\ TargetOf(prop[i].rec) \in Known(Replayed) \cup {NoCommit}
           => Accepts(Replayed, prop[i].rec)
        /\ pc[i] = "publish" /\ own[i].up /\ got[i] = prop[i].rec.id =>
              LET o == Published(own[i], prop[i].rec, prop[i].bytes)
              IN  o.rev = prop[i].rec.rev /\ o.gen = prop[i].rec.gen

\* An owner whose own record is the last one in the stream is in step with it
\* or refuses to work: no error path lets it go on beside a commit it made
\* without having published it.
NeverBehindItself ==
    \A i \in Owners :
        /\ Usable(i) /\ log # << >> /\ ~Replayed.discarded
        /\ log[Len(log)].by = i
        => InSync(i)

\* Fencing: among the owners that may work at most one is in step with a
\* stream that has records, since an epoch belongs to one owner and every
\* recovery commits a restart before it hands the session out.
OneOwnerInStep ==
    log # << >> => \A i, j \in Owners :
        Usable(i) /\ InSync(i) /\ Usable(j) /\ InSync(j) => i = j

\* A revision names one document and one calculation status, and together with
\* the generation one catalog, for ever: across restarts, competing owners and
\* records that were visible and then lost, no two states clients have seen
\* share a token.
TokenNamesOneState ==
    \A v, w \in observed :
        v.rev = w.rev =>
            /\ v.doc = w.doc /\ v.stamp = w.stamp
            /\ v.gen = w.gen => v.staged = w.staged

\* Every document a client has seen, of a session with an acknowledged record,
\* is the base or can be checked out from the stream, after any crash, head
\* move or branch switch.
SeenDocumentsStayReachable ==
    \A v \in observed : v.doc # << >> =>
        \E c \in Known(Replayed) : Lineage(Replayed, c) = v.doc

\* The history stays navigable: head, branch tips and checkpoints are commits
\* that carry a document, and undo is undone by redo wherever the head is on
\* the selected branch.
HistoryNavigable ==
    LET h == Replayed
        points == {h.head} \cup {h.branches[b] : b \in DOMAIN h.branches}
                    \cup {h.checkpoints[c] : c \in DOMAIN h.checkpoints}
    IN  /\ points \subseteq Known(h) \cup {NoCommit}
        /\ h.branch \in DOMAIN h.branches
        /\ h.head \in OnLineage(h, h.branches[h.branch]) =>
              RedoTarget([h EXCEPT !.head = ParentOfHead(h)]) = h.head

\* Outcomes returned to clients stay in the stream, and an error without effect
\* has none, ever.
OutcomesStand == Log!ToldIsKept /\ Log!RefutedStaysOut

\* What clients were told stands, whichever owners compete, crash and recover:
\* outcomes, the states their tokens name, and the documents they saw.
ToldAndSeenStand == OutcomesStand /\ TokenNamesOneState /\ SeenDocumentsStayReachable

\* Fencing, in both directions: one owner in step, and no owner that works on
\* beside a commit of its own that it has not published.
OwnersAreFenced == OneOwnerInStep /\ NeverBehindItself

-----------------------------------------------------------------------------
(* What fencing rests on.  Owners compare tokens, never who wrote; that a  *)
(* token belongs to one owner is a fact about every way it is handed on.   *)

Revisions == [epoch : Nat, doc : Nat, state : Nat]
Last == log[Len(log)]
InFlight(i) == pc[i] # "idle"
Works(i) == own[i].up /\ ~own[i].poisoned

\* Sessions and records have their fields, whatever these hold.
IsSession(o) == DOMAIN o = {"up", "poisoned", "rev", "doc", "staged", "gen", "stamp"}
IsRecord(r) ==
    DOMAIN r = {"id", "req", "fp", "parent", "kind", "item", "target", "publishes", "preserve", "hparent",
                "before", "head", "branch", "branches", "gen", "rev", "by", "post"}

SessionsStand ==
    /\ pc \in [Owners -> Steps]
    /\ DOMAIN own = Owners /\ DOMAIN prop = Owners /\ DOMAIN got = Owners
    /\ attempts \in Nat /\ epochs \in Nat
    /\ \A i \in Owners :
          /\ IsSession(own[i]) /\ own[i].up \in BOOLEAN /\ own[i].poisoned \in BOOLEAN
          /\ own[i].up => own[i].rev \in Revisions /\ own[i].rev.epoch \in 1..epochs
    /\ log = << >> => \A i, j \in Owners :
          own[i].up /\ own[j].up /\ own[i].rev.epoch = own[j].rev.epoch => i = j

\* The identity of a record is a number handed out before; its request is a
\* client's or its own.
StreamStands ==
    /\ log \in Seq({log[k] : k \in DOMAIN log})
    /\ firm \in 0..Len(log)
    /\ \A k \in DOMAIN log :
          /\ log[k].id \in 1..attempts /\ log[k].req \in Requests \cup {log[k].id}
          /\ log[k].rev \in Revisions /\ log[k].rev.epoch \in 1..epochs
          /\ log[k].post.tip = log[k].id /\ log[k].post.rev = log[k].rev /\ log[k].post.gen = log[k].gen
    /\ Log!OncePerIdentity(log)

\* A prepared record, alone or as it is in the stream.
Prepared(i, r) ==
    /\ DOMAIN prop[i] = {"rec", "bytes"} /\ r = prop[i].rec
    /\ IsRecord(r) /\ r.by = i /\ r.id \in 1..attempts
    /\ r.rev \in Revisions /\ r.rev.epoch \in 1..epochs
    /\ \A j \in Owners \ {i} : InFlight(j) => prop[j].rec.id # r.id
    /\ \A k \in DOMAIN log : log[k].id = r.id =>
          /\ pc[i] \notin {"reload", "commit"}
          /\ <<log[k].req, log[k].fp, log[k].rev, log[k].gen, log[k].by>> = <<r.req, r.fp, r.rev, r.gen, i>>
    /\ pc[i] = "commit" => r.parent \in Log!IdsOf(log) \cup {NoCommit}
    /\ pc[i] = "barrier" => r.id \in Log!IdsOf(log)
    /\ pc[i] = "publish" => \E k \in SameInput(i) : got[i] = log[k].id /\ k <= firm

\* An operation continues its owner's epoch; a restart has its session ready.
OfOperation(i, r) ==
    /\ ~own[i].poisoned /\ r.req \in Requests
    /\ r.rev.epoch = own[i].rev.epoch /\ own[i].rev.state <= r.rev.state
    /\ r.kind = "CatalogDiscard" => r.rev = own[i].rev
OfRestart(i, r) ==
    /\ r.kind = "Restart" /\ r.req = r.id /\ r.parent # NoCommit /\ pc[i] # "reload"
    /\ LET o == prop[i].bytes
       IN  IsSession(o) /\ o.up = TRUE /\ o.poisoned = FALSE /\ o.rev = r.rev /\ o.gen = r.gen

ProposalsStand ==
    \A i \in Owners : InFlight(i) =>
        /\ Prepared(i, prop[i].rec)
        /\ IF own[i].up THEN OfOperation(i, prop[i].rec) ELSE OfRestart(i, prop[i].rec)

\* The stream has gone past a revision.
Passed(v) == v.epoch # Replayed.rev.epoch \/ v.state < Replayed.rev.state
\* A session recovered from a discarded resource is no part of the stream.
Apart(i) ==
    /\ Replayed.discarded /\ pc[i] = "idle"
    /\ own[i].rev.epoch = Replayed.rev.epoch /\ own[i].rev.state > Replayed.rev.state

\* The stream has passed everybody but the owner of the last record, which is
\* in step with it or about to publish it.
LastOwnerHolds ==
    log # << >> => \A i \in Owners : Works(i) =>
        \/ Last.by # i /\ Passed(own[i].rev)
        \/ Apart(i)
        \/ /\ Last.by = i
           /\ own[i].rev.state <= Replayed.rev.state
           /\ InSync(i) \/ (InFlight(i) /\ Last.id = prop[i].rec.id)

\* A record of somebody else on top of an owner's own, or under its request,
\* has passed it.
NothingSlippedIn ==
    \A i \in Owners : InFlight(i) =>
        LET r == prop[i].rec
        IN  /\ log # << >> /\ Last.by = i => Position(i) = {} \/ Last.id = r.id
            /\ \A k \in DOMAIN log : log[k].id = r.id /\ k # Len(log) => Last.by # i /\ Passed(r.rev)
            /\ pc[i] = "commit" /\ own[i].up /\ r.parent = Replayed.tip => InSync(i)

OwnerInv ==
    /\ SessionsStand /\ StreamStands /\ ProposalsStand
    /\ LastOwnerHolds /\ NothingSlippedIn /\ OutcomesStand

-----------------------------------------------------------------------------
(* What the token check and navigation rest on.  The state replay reaches  *)
(* is sound at every record, since a loss of power may make any the last;  *)
(* a prepared record fits it for as long as its owner is in step.          *)

\* Parents are older commits, head, branches and checkpoints are commits, and
\* tokens that were seen are not ahead of the last one.
HistoryStands(h) ==
    /\ DOMAIN h = {"tip", "head", "parents", "branch", "branches", "checkpoints", "catalog", "gen",
                   "rev", "calc", "discarded", "seen"}
    /\ \A c \in Known(h) :
          c \in Nat /\ (h.parents[c] = NoCommit \/ (h.parents[c] \in Known(h) /\ h.parents[c] < c))
    /\ h.head \in Known(h) \cup {NoCommit}
    /\ h.branch \in DOMAIN h.branches
    /\ \A b \in DOMAIN h.branches : h.branches[b] \in Known(h) \cup {NoCommit}
    /\ \A c \in DOMAIN h.checkpoints : h.checkpoints[c] \in Known(h) \cup {NoCommit}
    /\ h.gen \in Nat /\ h.calc \in BOOLEAN
    /\ \A t \in h.seen :
          /\ t[1] \in Revisions /\ t[2] \in Nat /\ t[1].epoch = h.rev.epoch
          /\ t[1].state < h.rev.state \/ (t[1].state = h.rev.state /\ t[2] <= h.gen)

RecordsStand ==
    \A k \in DOMAIN log :
        LET h == log[k].post
        IN  /\ HistoryStands(h)
            /\ \A c \in Known(h) : \E j \in 1..k : log[j].id = c
            /\ h.catalog \subseteq 1..attempts
            /\ h.gen = Cardinality({j \in 1..k : log[j].kind \in CatalogKinds})

\* The session an operation leaves behind when its record is committed.
Outcome(i) == IF own[i].up THEN Published(own[i], prop[i].rec, prop[i].bytes) ELSE prop[i].bytes

\* Publication reaches what the record claims, and a record names what exists.
PlanStands(i, r) ==
    /\ r.publishes => r.hparent \in {NoCommit} \cup 1..(r.id - 1)
    /\ r.kind = "CatalogStage" => r.item \in 1..attempts
    /\ own[i].up => r.kind # "Restart" /\ Outcome(i).rev = r.rev /\ Outcome(i).gen = r.gen
    /\ r.fp.kind = r.kind /\ (r.kind = "CatalogDiscard" => r.fp.on = r.rev)

\* A record that may still be appended is one replay accepts, and its outcome
\* in memory is the state replay reaches with it, before and after the append.
CommitStands(i, r) ==
    /\ /\ pc[i] \in {"reload", "commit"}
       /\ IF own[i].up THEN InSync(i) ELSE r.parent = Replayed.tip
       /\ TargetOf(r) \in Known(Replayed) \cup {NoCommit}
       => /\ Follows(Replayed, r) /\ Agrees(Outcome(i), After(Replayed, r))
          /\ own[i].up => r.rev = RevAfter(Replayed, r, own[i].rev)
    /\ log # << >> /\ Last.id = r.id => Agrees(Outcome(i), Replayed)

PlansStand ==
    \A i \in Owners : InFlight(i) => PlanStands(i, prop[i].rec) /\ CommitStands(i, prop[i].rec)

InStepAgrees == \A i \in Owners : Works(i) /\ InSync(i) => Agrees(own[i], Replayed)

HistoryInv == RecordsStand /\ PlansStand /\ InStepAgrees

-----------------------------------------------------------------------------
(* What clients have seen.  A view belongs to a record that no loss of     *)
(* power takes, or to the base; only a session that was recovered from a   *)
(* discarded resource shows a revision that is in no record.               *)

\* The state after k records of a stream of an epoch.
StateAt(e, k) ==
    IF k = 0 THEN [Empty EXCEPT !.rev = [epoch |-> e, doc |-> 0, state |-> 0]] ELSE log[k].post

\* A record that leaves no stamp of before.
Resets(h, r) ==
    \/ r.kind \in {"CalculationPublish", "CalculationInvalidate", "Restart"}
    \/ DocumentChange(h, r) /\ ~(r.publishes /\ r.preserve)

StampAt(k) ==
    IF StateAt(0, k).calc THEN "Current"
    ELSE IF \E j \in 1..k : Resets(StateAt(0, j - 1), log[j]) THEN "Dirty" ELSE "NotEvaluated"

ViewAt(e, k) ==
    LET h == StateAt(e, k)
    IN  [rev |-> h.rev, gen |-> h.gen, doc |-> Lineage(h, h.head), staged |-> h.catalog, stamp |-> StampAt(k)]

\* Every record continues the one before it, the first one the base.
FollowsOn(h, r) ==
    /\ ~h.discarded
    /\ r.publishes => r.kind \in {"Mutation", "StageApply"}
    /\ r.rev = RevAfter(h, r, h.rev)
    /\ r.post = After(h, r)

\* A token that comes back is the same state.
Continues(j, k) ==
    LET g == StateAt(log[1].rev.epoch, j)
        h == StateAt(log[1].rev.epoch, k)
    IN  /\ g.rev.epoch = h.rev.epoch /\ g.rev.state <= h.rev.state /\ g.gen <= h.gen
        /\ \A c \in Known(g) : c \in Known(h) /\ h.parents[c] = g.parents[c]
        /\ g.rev.state = h.rev.state =>
              /\ g.head = h.head /\ StampAt(j) = StampAt(k)
              /\ g.gen = h.gen => g.catalog = h.catalog

StreamContinues ==
    /\ \A k \in DOMAIN log : FollowsOn(StateAt(log[k].rev.epoch, k - 1), log[k])
    /\ \A j, k \in 0..Len(log) : log # << >> /\ j <= k => Continues(j, k)
    /\ \A k \in DOMAIN log : log[k].fp.kind = "CatalogDiscard" => log[k].fp.on = log[k].rev
    /\ Replayed.discarded => firm >= Len(log) - 1

\* A session over an empty stream shows the base, and one in step has nothing
\* in front of it that may be lost but its own record.
Settled(i) ==
    /\ log = << >> /\ own[i].up => ViewOf(own[i]) = ViewAt(own[i].rev.epoch, 0)
    /\ log # << >> /\ Works(i) /\ InSync(i) =>
          /\ own[i].stamp = StampAt(Len(log))
          /\ firm = Len(log) \/ (InFlight(i) /\ Last.id = prop[i].rec.id)

\* An operation whose record is in the stream will show what the record left;
\* another record under its request has passed its owner.
Shows(i) ==
    InFlight(i) =>
        /\ ~own[i].up => Outcome(i).stamp = "Dirty"
        /\ \A k \in DOMAIN log :
              /\ log[k].id = prop[i].rec.id => ViewOf(Outcome(i)) = ViewAt(log[k].rev.epoch, k)
              /\ own[i].up /\ k \in Position(i) /\ log[k].id # prop[i].rec.id =>
                    log[k].rev.epoch # own[i].rev.epoch \/ log[k].rev.state > own[i].rev.state

\* The view of a discarded resource, from the record before the discard.
Reattached(e, k) == [ViewAt(e, k) EXCEPT !.rev = Bump(@, 0, 1), !.stamp = "Dirty"]

\* When the discard is lost nobody is left to write but a recovery.
Away(i, e) == IF own[i].up THEN own[i].rev.epoch # e ELSE InFlight(i) => Position(i) = {}
DiscardOrRestart(e, k) ==
    /\ ~StateAt(e, k).discarded
    /\ k < Len(log) /\ log[1].rev.epoch = e => log[k + 1].kind \in {"ResourceDiscard", "Restart"}
    /\ k = Len(log) => \A i \in Owners : Away(i, e)

Seen(v) ==
    \E e \in 1..epochs, k \in 0..firm :
        /\ v.rev.epoch = e
        /\ v = ViewAt(e, k) \/ (v = Reattached(e, k) /\ DiscardOrRestart(e, k))

SeenInv ==
    /\ StreamContinues
    /\ \A i \in Owners : Settled(i) /\ Shows(i)
    /\ \A v \in observed : Seen(v)

=============================================================================
