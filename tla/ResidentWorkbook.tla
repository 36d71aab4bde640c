-------------------------- MODULE ResidentWorkbook --------------------------
(***************************************************************************)
(* `ResidentWorkbook` (recalc/resident.rs): the authoritative document of  *)
(* a session together with everything that is derived from it and kept for *)
(* speed: the retained evaluator, the calculation stamp with its coverage, *)
(* and the cached XLSX capture.  Each operation updates some of them, and  *)
(* errors end it half way; the owner then stops using the workbook.        *)
(*                                                                         *)
(* The content of a document is its inputs (values and formulas), its      *)
(* looks (styles, sizes, print setup) and the formula results cached in it,*)
(* named by the inputs they were computed from.                            *)
(***************************************************************************)
EXTENDS Naturals

CONSTANTS
    Inputs,     \* values and formulas of a whole workbook
    Looks,      \* what operations with effect Preserve may change
    Unknown,    \* cached results nobody vouches for
    None,       \* no evaluator, no capture, no prepared calculation
    Epochs,     \* epochs of opened workbooks
    MaxState    \* bound: state revisions of one epoch

ASSUME WorkbookConstants ==
    /\ Unknown \notin Inputs
    /\ None \notin Inputs
    /\ MaxState \in Nat

VARIABLES
    document,   \* the authoritative content
    evaluator,  \* None, or the inputs the retained evaluator holds
    rev,        \* the revision: epoch, document and state number
    stamp,      \* the calculation stamp: kind, document number, revision of its coverage
    snapshot,   \* None, or the cached capture with its revision
    prepared,   \* None, or the inputs behind results that wait for their commit
    phase,      \* "opened", "recovering" or "live"
    broken      \* an operation failed half way; the owner is poisoned

vars == <<document, evaluator, rev, stamp, snapshot, prepared, phase, broken>>

Contents == [inputs : Inputs, looks : Looks, caches : Inputs \cup {Unknown}]
Revisions == [epoch : Epochs, doc : Nat, state : Nat]
Stamps == [kind : {"NotEvaluated", "Dirty", "Current"}, doc : Nat, at : Revisions]
Captures == [rev : Revisions, content : Contents]

TypeOK ==
    /\ document \in Contents
    /\ evaluator \in Inputs \cup {None}
    /\ rev \in Revisions
    /\ stamp \in Stamps
    /\ snapshot \in Captures \cup {None}
    /\ prepared \in Inputs \cup {None}
    /\ phase \in {"opened", "recovering", "live"}
    /\ broken \in BOOLEAN

First(e) == [epoch |-> e, doc |-> 0, state |-> 0]
NotEvaluated(e) == [kind |-> "NotEvaluated", doc |-> 0, at |-> First(e)]

\* from_bytes
Opened(content, e) ==
    /\ document = content
    /\ evaluator = content.inputs
    /\ rev = First(e)
    /\ stamp = NotEvaluated(e)
    /\ snapshot = None
    /\ prepared = None
    /\ phase = "opened"
    /\ broken = FALSE

Init == \E content \in Contents, e \in Epochs : Opened(content, e)

-----------------------------------------------------------------------------
Usable == ~broken /\ prepared = None
Live == Usable /\ phase \in {"opened", "live"}

Bump(d, s) == [epoch |-> rev.epoch, doc |-> rev.doc + d, state |-> rev.state + s]
Dirty(r) == [kind |-> "Dirty", doc |-> r.doc, at |-> r]
Current(r) == [kind |-> "Current", doc |-> r.doc, at |-> r]

\* Mutant: the cache is keyed by the document number.
CapturedByDocument ==
    IF snapshot # None /\ snapshot.rev.doc = rev.doc THEN snapshot.content ELSE document

\* snapshot_bytes: the capture of exactly this revision, or a new one.
Captured == IF snapshot # None /\ snapshot.rev = rev THEN snapshot.content ELSE document
Capture == [rev |-> rev, content |-> Captured]

\* ensure_evaluator: the retained one, or one built from a capture.
Ensured == IF evaluator # None THEN evaluator ELSE Captured.inputs
CaptureForEvaluator == IF evaluator # None THEN snapshot ELSE Capture

\* An operation uses up state numbers below the bound.
Room == rev.state < MaxState

\* "live" begins with the first operation after opening or recovery.
Works == phase' = IF phase = "opened" THEN "live" ELSE phase

-----------------------------------------------------------------------------
(* Reading.                                                                *)

\* snapshot_bytes and export_bytes.
TakeSnapshot ==
    /\ Usable
    /\ snapshot' = Capture
    /\ Works
    /\ UNCHANGED <<document, evaluator, rev, stamp, prepared, broken>>

-----------------------------------------------------------------------------
(* Editing.                                                                *)

\* Mutant: an evaluator that misses an update is kept.
PublishCellsKeepingEvaluator ==
    /\ Usable /\ Room
    /\ \E x \in Inputs :
          /\ document' = [document EXCEPT !.inputs = x]
          /\ evaluator' \in {evaluator, x}
    /\ rev' = Bump(1, 1)
    /\ stamp' = Dirty(rev')
    /\ Works
    /\ UNCHANGED <<snapshot, prepared, broken>>

\* Mutant: an edit leaves the stamp alone.
PublishCellsKeepingStamp ==
    /\ Usable /\ Room
    /\ \E x \in Inputs :
          /\ document' = [document EXCEPT !.inputs = x]
          /\ evaluator' \in IF evaluator = None THEN {None} ELSE {None, x}
    /\ rev' = Bump(1, 1)
    /\ stamp' = [stamp EXCEPT !.doc = rev'.doc]
    /\ Works
    /\ UNCHANGED <<snapshot, prepared, broken>>

\* publish_prepared_cells, recover_prepared_cells and apply_write_matrices: the
\* document first, then the revision and the stamp, then each cell into the
\* evaluator, which is dropped when it cannot follow.
PublishCells ==
    /\ Usable /\ Room
    /\ \E x \in Inputs :
          /\ document' = [document EXCEPT !.inputs = x]
          /\ evaluator' \in IF evaluator = None THEN {None} ELSE {None, x}
    /\ rev' = Bump(1, 1)
    /\ stamp' = Dirty(rev')
    /\ Works
    /\ UNCHANGED <<snapshot, prepared, broken>>

\* A precondition fails, or an assignment in the middle of the batch: then the
\* document has changed and the revision has not.
PublishCellsFails ==
    /\ Usable
    /\ \E x \in Inputs : document' = [document EXCEPT !.inputs = x]
    /\ broken' = TRUE
    /\ UNCHANGED <<evaluator, rev, stamp, snapshot, prepared, phase>>

\* Publication of a prepared snapshot with effect Preserve.  It was made from
\* the capture of this revision, which is compared once more before; during
\* recovery the recorded bytes come with the results cached then.
ReplacePreserving ==
    /\ Usable /\ Room
    /\ \E l \in Looks, c \in Inputs \cup {Unknown} :
          /\ phase # "recovering" => c = Captured.caches
          /\ document' = [inputs |-> Captured.inputs, looks |-> l, caches |-> c]
    /\ snapshot' = Capture
    /\ rev' = Bump(1, 1)
    /\ stamp' = [kind |-> stamp.kind, doc |-> rev'.doc, at |-> rev']
    /\ Works
    /\ UNCHANGED <<evaluator, prepared, broken>>

\* The same with effect Invalidate, and the materialized document of an undo,
\* redo, checkout or branch switch (no capture needed).
ReplaceInvalidating ==
    /\ Usable /\ Room
    /\ document' \in Contents
    /\ snapshot' \in {snapshot, Capture}
    /\ rev' = Bump(1, 1)
    /\ stamp' = Dirty(rev')
    /\ evaluator' = None
    /\ Works
    /\ UNCHANGED <<prepared, broken>>

\* The bytes do not parse, or the capture is not the one it was prepared from.
ReplaceFails ==
    /\ Usable
    /\ snapshot' \in {snapshot, Capture}
    /\ broken' = TRUE
    /\ UNCHANGED <<document, evaluator, rev, stamp, prepared, phase>>

\* invalidate_after_unsupported_change
InvalidateAfterUnsupportedChange ==
    /\ Live /\ Room
    /\ rev' = Bump(1, 1)
    /\ stamp' = Dirty(rev')
    /\ evaluator' = None
    /\ Works
    /\ UNCHANGED <<document, snapshot, prepared, broken>>

\* advance_metadata_state: a new branch, or a switch to a branch with the same
\* head.  The stamp and its coverage stay as they are.
AdvanceMetadataState ==
    /\ Live /\ Room
    /\ rev' = Bump(0, 1)
    /\ Works
    /\ UNCHANGED <<document, evaluator, stamp, snapshot, prepared, broken>>

-----------------------------------------------------------------------------
(* Calculating.                                                            *)

\* prepare_calculation, or the external engine on a capture in a temporary
\* file, which leaves no evaluator behind.
PrepareCalculation ==
    /\ Live
    /\ \/ /\ prepared' = Ensured
          /\ evaluator' = Ensured
          /\ snapshot' = CaptureForEvaluator
       \/ /\ prepared' = Captured.inputs
          /\ evaluator' = None
          /\ snapshot' = Capture
    /\ Works
    /\ UNCHANGED <<document, rev, stamp, broken>>

\* The evaluation fails or times out: the evaluator is dropped, and the owner
\* poisons itself.
PrepareCalculationFails ==
    /\ Live
    /\ evaluator' = None
    /\ snapshot' \in {CaptureForEvaluator, Capture}
    /\ broken' = TRUE
    /\ UNCHANGED <<document, rev, stamp, prepared, phase>>

\* publish_prepared_calculation, after the commit.
PublishCalculation ==
    /\ ~broken /\ prepared # None /\ Room
    /\ document' = [document EXCEPT !.caches = prepared]
    /\ rev' = Bump(0, 1)
    /\ stamp' = Current(rev')
    /\ prepared' = None
    /\ UNCHANGED <<evaluator, snapshot, phase, broken>>

\* The commit had no effect: the results are dropped.
AbandonCalculation ==
    /\ ~broken /\ prepared # None
    /\ prepared' = None
    /\ UNCHANGED <<document, evaluator, rev, stamp, snapshot, phase, broken>>

\* invalidate_calculation_proof, with its test for an already dirty document.
Invalidated ==
    /\ evaluator' = None
    /\ IF stamp.kind = "Dirty" /\ stamp.doc = rev.doc
          THEN UNCHANGED <<rev, stamp>>
          ELSE rev' = Bump(0, 1) /\ stamp' = Dirty(rev')

\* The caches cannot be written: checked before the first one is, and the proof
\* is gone.  The owner poisons itself.
PublishCalculationFails ==
    /\ ~broken /\ prepared # None /\ Room
    /\ Invalidated
    /\ prepared' = None
    /\ broken' = TRUE
    /\ UNCHANGED <<document, snapshot, phase>>

\* recalculate without a journal, which publishes at once.
Recalculate ==
    /\ Live /\ Room
    /\ document' = [document EXCEPT !.caches = Ensured]
    /\ evaluator' = Ensured
    /\ snapshot' = CaptureForEvaluator
    /\ rev' = Bump(0, 1)
    /\ stamp' = Current(rev')
    /\ Works
    /\ UNCHANGED <<prepared, broken>>

\* It fails in the evaluation or in the caches: the workbook stays in use.
RecalculateFails ==
    /\ Live /\ Room
    /\ snapshot' = CaptureForEvaluator
    /\ Invalidated
    /\ Works
    /\ UNCHANGED <<document, prepared, broken>>

\* revoke_calculation_proof
RevokeCalculation ==
    /\ Live /\ Room
    /\ Invalidated
    /\ Works
    /\ UNCHANGED <<document, snapshot, prepared, broken>>

-----------------------------------------------------------------------------
(* Recovery.                                                               *)

\* The owner gives the workbook up and opens the base again.
Reopen ==
    /\ \E content \in Contents, e \in Epochs :
          /\ document' = content
          /\ evaluator' = content.inputs
          /\ rev' = First(e)
          /\ stamp' = NotEvaluated(e)
    /\ snapshot' = None
    /\ prepared' = None
    /\ phase' = "opened"
    /\ broken' = FALSE

\* restore_revision_identity: the revision before the first prepared record.
StartRecovery ==
    /\ Usable /\ phase = "opened"
    /\ \E e \in Epochs, d, n \in 0..MaxState : rev' = [epoch |-> e, doc |-> d, state |-> n]
    /\ stamp' = Dirty(rev')
    /\ evaluator' = None
    /\ phase' = "recovering"
    /\ UNCHANGED <<document, snapshot, prepared, broken>>

\* restore_revision_identity to the last revision of the stream, followed at
\* once by mark_restart_boundary.  The stream's revision is never behind the
\* replayed commits: each of them counted once when it was committed.
FinishRecovery ==
    /\ Usable /\ phase = "recovering" /\ Room
    /\ \E d \in rev.doc..MaxState, n \in rev.state..(MaxState - 1) :
          rev' = [epoch |-> rev.epoch, doc |-> d, state |-> n + 1]
    /\ stamp' = Dirty(rev')
    /\ evaluator' = None
    /\ phase' = "live"
    /\ UNCHANGED <<document, snapshot, prepared, broken>>

Next ==
    \/ TakeSnapshot
    \/ PublishCells \/ PublishCellsFails
    \/ ReplacePreserving \/ ReplaceInvalidating \/ ReplaceFails
    \/ InvalidateAfterUnsupportedChange \/ AdvanceMetadataState
    \/ PrepareCalculation \/ PrepareCalculationFails
    \/ PublishCalculation \/ PublishCalculationFails \/ AbandonCalculation
    \/ Recalculate \/ RecalculateFails \/ RevokeCalculation
    \/ Reopen \/ StartRecovery \/ FinishRecovery

Spec == Init /\ [][Next]_vars

-----------------------------------------------------------------------------
(* Properties.                                                             *)

\* The cached capture served for a revision is the document of that revision,
\* whichever operations, failed calculations and recoveries came in between.
SnapshotCoherent ==
    ~broken /\ snapshot # None /\ snapshot.rev = rev => snapshot.content = document

\* A retained evaluator holds the inputs of the document: an incremental
\* recalculation starts from what is really there.
EvaluatorFollowsDocument ==
    ~broken /\ evaluator # None => evaluator = document.inputs

\* A stamp Current is never wrong: the results cached in the document were
\* computed from its present inputs, and the stamp names its document number.
CurrentMeansComputed ==
    ~broken /\ stamp.kind = "Current" =>
        document.caches = document.inputs /\ stamp.doc = rev.doc

\* Why they hold together: a capture is never ahead of the revision, there is
\* none before the identity is restored, a recovering workbook claims no
\* calculation, and results that wait for their commit fit the document.
Coherent ==
    /\ SnapshotCoherent /\ EvaluatorFollowsDocument /\ CurrentMeansComputed
    /\ ~broken /\ snapshot # None => snapshot.rev.state <= rev.state
    /\ ~broken /\ phase = "opened" => snapshot = None
    /\ phase = "recovering" => stamp.kind # "Current"
    /\ ~broken /\ prepared # None => prepared = document.inputs /\ phase = "live"

=============================================================================
