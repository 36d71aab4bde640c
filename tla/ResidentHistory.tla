-------------------------- MODULE ResidentHistory --------------------------
(***************************************************************************)
(* `PortableHistoryState` (core/resident_storage.rs): the state a stream   *)
(* of commit records stands for.  Replay goes through the stream record by *)
(* record; it computes the state after each one from the state before it   *)
(* and refuses the stream unless the record claims exactly that state.     *)
(* Accepts is the test, After the new state.                               *)
(*                                                                         *)
(* A record is what PreparedResidentCommit carries: its identities, its    *)
(* transition (kind) with its argument (item, target), whether it          *)
(* publishes a document and keeps the calculation, the revision it was     *)
(* prepared on (before), and the resulting head, branch, branches, catalog *)
(* generation and revision it claims.  File-export receipts are module     *)
(* FileExport's.                                                           *)
(***************************************************************************)
EXTENDS Naturals, Sequences

CONSTANTS
    NoCommit,   \* the immutable base: no commit
    NoRevision, \* an empty stream has no revision
    Main        \* the branch every history starts on

\* Receipts persist an outcome and change neither document nor catalog.
Receipts == {"UndoNothing", "RedoNothing", "DiscardNothing", "InvalidateNothing",
             "WriteNothing", "Creation", "ResourceDiscard", "ResourceExport"}

\* Transitions whose argument lives in the catalog, not in the workbook.
CatalogKinds ==
    {"CatalogStage", "CatalogDiscard", "StageApply", "Checkpoint", "CheckpointDelete"}

HeadMoves == {"Undo", "Redo", "Checkout"}

\* Transitions that carry a prepared write.
PreparedKinds == {"Mutation", "StageApply", "CatalogStage", "WriteNothing"}

Empty ==
    [tip |-> NoCommit, head |-> NoCommit, parents |-> << >>,
     branch |-> Main, branches |-> [b \in {Main} |-> NoCommit],
     checkpoints |-> << >>, catalog |-> {}, gen |-> 0, rev |-> NoRevision,
     calc |-> FALSE, discarded |-> FALSE, seen |-> {}]

Put(f, k, v) == [x \in DOMAIN f \cup {k} |-> IF x = k THEN v ELSE f[x]]
Drop(f, k) == [x \in DOMAIN f \ {k} |-> f[x]]

Known(h) == DOMAIN h.parents

\* `active_ancestry`: the commits from the base to c, oldest first.
Lineage(h, c) ==
    LET path[x \in Known(h) \cup {NoCommit}] ==
            IF x = NoCommit THEN << >> ELSE Append(path[h.parents[x]], x)
    IN  path[c]

OnLineage(h, c) == LET s == Lineage(h, c) IN {s[i] : i \in DOMAIN s}

\* Mutant: redo always follows the first branch.
RedoTargetOnMain(h) ==
    LET next == {c \in OnLineage(h, h.branches[Main]) : h.parents[c] = h.head}
    IN  IF next = {} THEN NoCommit ELSE CHOOSE c \in next : TRUE

\* `redo_target`: the child of the head on the way to the tip of the selected
\* branch, or nothing.
RedoTarget(h) ==
    LET next == {c \in OnLineage(h, h.branches[h.branch]) : h.parents[c] = h.head}
    IN  IF next = {} THEN NoCommit ELSE CHOOSE c \in next : TRUE

ParentOfHead(h) == IF h.head = NoCommit THEN NoCommit ELSE h.parents[h.head]

-----------------------------------------------------------------------------
(* The state after a record.                                               *)

HeadAfter(h, r) ==
    CASE r.publishes             -> r.id
      [] r.kind = "Undo"         -> ParentOfHead(h)
      [] r.kind \in {"Redo", "Checkout"} -> r.head
      [] r.kind = "BranchSwitch" -> h.branches[r.item]
      [] OTHER                   -> h.head

BranchAfter(h, r) == IF r.kind = "BranchSwitch" THEN r.item ELSE h.branch

BranchesAfter(h, r) ==
    CASE r.publishes             -> Put(h.branches, h.branch, r.id)
      [] r.kind = "BranchCreate" -> Put(h.branches, r.item, r.target)
      [] OTHER                   -> h.branches

CatalogAfter(h, r) ==
    CASE r.kind = "CatalogStage" -> h.catalog \cup {r.item}
      [] r.kind \in {"CatalogDiscard", "StageApply"} -> h.catalog \ {r.item}
      [] OTHER                   -> h.catalog

CheckpointsAfter(h, r) ==
    CASE r.kind = "Checkpoint"       -> Put(h.checkpoints, r.req, h.head)
      [] r.kind = "CheckpointDelete" -> Drop(h.checkpoints, r.item)
      [] OTHER                       -> h.checkpoints

GenAfter(h, r) == h.gen + (IF r.kind \in CatalogKinds THEN 1 ELSE 0)

\* The document number moves with the document, the state number with
\* everything but receipts and catalog-only transitions.
CatalogOnly(r) ==
    \/ r.kind \in CatalogKinds \ {"StageApply"}
    \/ r.kind \in Receipts
    \/ r.kind = "StageApply" /\ ~r.publishes

DocumentChange(h, r) ==
    \/ r.publishes
    \/ r.kind \in HeadMoves
    \/ r.kind = "BranchSwitch" /\ h.head # r.head

RevAfter(h, r, previous) ==
    [epoch |-> previous.epoch,
     doc   |-> previous.doc + (IF DocumentChange(h, r) THEN 1 ELSE 0),
     state |-> previous.state + (IF CatalogOnly(r) THEN 0 ELSE 1)]

CalcAfter(h, r) ==
    CASE r.kind = "CalculationPublish" -> TRUE
      [] r.kind \in {"CalculationInvalidate", "Restart"} \cup HeadMoves -> FALSE
      [] r.kind = "BranchSwitch" /\ h.head # r.head -> FALSE
      [] r.publishes /\ ~r.preserve -> FALSE
      [] OTHER -> h.calc

After(h, r) ==
    [tip         |-> r.id,
     head        |-> HeadAfter(h, r),
     parents     |-> IF r.publishes THEN Put(h.parents, r.id, r.hparent) ELSE h.parents,
     branch      |-> BranchAfter(h, r),
     branches    |-> BranchesAfter(h, r),
     checkpoints |-> CheckpointsAfter(h, r),
     catalog     |-> CatalogAfter(h, r),
     gen         |-> GenAfter(h, r),
     rev         |-> r.rev,
     calc        |-> CalcAfter(h, r),
     discarded   |-> h.discarded \/ r.kind = "ResourceDiscard",
     seen        |-> IF r.kind \in Receipts THEN h.seen ELSE h.seen \cup {<<r.rev, r.gen>>}]

-----------------------------------------------------------------------------
(* The test.                                                               *)

\* validate_portable_prepared_record: what a prepared write must look like.
PreparedShape(h, r) ==
    /\ r.publishes => r.kind \in {"Mutation", "StageApply"}
    /\ r.kind = "Mutation" => r.publishes
    /\ r.kind \in PreparedKinds /\ h.rev # NoRevision => r.before = h.rev

\* The arm of the match for the record's transition.
Permits(h, r) ==
    /\ r.hparent = (IF r.publishes THEN h.head ELSE NoCommit)
    /\ r.kind = "UndoNothing" => h.head = NoCommit
    /\ r.kind = "RedoNothing" => RedoTarget(h) = NoCommit
    /\ r.kind = "DiscardNothing" => r.item \notin h.catalog
    /\ r.kind = "Creation" => h.tip = NoCommit
    /\ r.kind = "CatalogStage" => r.item \notin h.catalog
    /\ r.kind \in {"CatalogDiscard", "StageApply"} => r.item \in h.catalog
    /\ r.kind = "CheckpointDelete" => r.item \in DOMAIN h.checkpoints
    /\ r.kind \in {"Redo", "Checkout"} => r.head \in Known(h) \cup {NoCommit}
    /\ r.kind = "Redo" =>
          /\ r.head = RedoTarget(h)
          /\ h.head = (IF r.head = NoCommit THEN NoCommit ELSE h.parents[r.head])
    /\ r.kind = "BranchCreate" => /\ r.item \notin DOMAIN h.branches
                                  /\ r.target \in Known(h) \cup {NoCommit}
    /\ r.kind = "BranchSwitch" => r.item \in DOMAIN h.branches

\* The record claims the state that replay computes.
ClaimsMatch(h, r) ==
    /\ r.head = HeadAfter(h, r)
    /\ r.branch = BranchAfter(h, r)
    /\ r.branches = BranchesAfter(h, r)
    /\ r.gen = GenAfter(h, r)

\* The revision follows from the one before it: the stream's, or for the first
\* record the one its prepared write was made on.
RevisionFollows(h, r) ==
    LET previous == IF h.rev # NoRevision THEN h.rev
                    ELSE IF r.kind \in PreparedKinds THEN r.before ELSE NoRevision
    IN  previous # NoRevision => r.rev = RevAfter(h, r, previous)

\* "resident observable state ABA detected"
NoAba(h, r) == r.kind \notin Receipts => <<r.rev, r.gen>> \notin h.seen

\* Everything but the place of the record in the stream.
Follows(h, r) ==
    /\ ~h.discarded
    /\ PreparedShape(h, r)
    /\ Permits(h, r)
    /\ ClaimsMatch(h, r)
    /\ RevisionFollows(h, r)
    /\ NoAba(h, r)

Accepts(h, r) == r.parent = h.tip /\ Follows(h, r)

=============================================================================
