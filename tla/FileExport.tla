----------------------------- MODULE FileExport -----------------------------
(***************************************************************************)
(* Export of a resident session into a file (`export_file` of              *)
(* resident_export.rs with the native sink of native_export.rs): a durable *)
(* capture of the document, a plan receipt that pins it together with what *)
(* was found at the destination, the publication of the file, and a result *)
(* receipt.  Every step may fail, the process may be killed and the power  *)
(* may go between any two of them; the client then retries with the same   *)
(* request identity.  Meanwhile other programs write the same files.       *)
(*                                                                         *)
(* The owner runs one operation at a time and has recovered before it is   *)
(* used again (module ResidentOwner); a committed receipt is durable       *)
(* (module DurableLog).  A document is named by its number of edits, and   *)
(* file content by the document it was captured from.                      *)
(***************************************************************************)
EXTENDS Naturals, FiniteSets

CONSTANTS
    Requests,       \* request identities of clients
    Source, Output, \* the two kinds of destination
    Base,           \* content of the source file the session was opened from
    Foreign,        \* content other programs write
    Missing,        \* there is no file
    NoRequest,      \* no export in progress
    MaxPlans,       \* lifetime quota of plans
    MaxCaptures,    \* lifetime quota of retained captures
    MaxEdits,       \* bound: edits of the document
    MaxForeign,     \* bound: writes by other programs
    MaxFaults       \* bound: failed calls, kills and power losses

ASSUME ExportBounds ==
    /\ {MaxPlans, MaxCaptures, MaxEdits, MaxForeign, MaxFaults} \subseteq Nat
    /\ Source # Output
    /\ NoRequest \notin Requests

VARIABLES
    seen,       \* per path: what a reader finds there
    kept,       \* per path: what may be there after a power loss
    captures,   \* per document: its retained capture
    plans,      \* the journal: plan receipts by request
    results,    \* the journal: requests with a result receipt
    elsewhere,  \* the journal: requests of other operations
    discarded,  \* the journal: the resource has been discarded
    doc,        \* the document the owner holds
    usable,     \* the owner may be used
    pc,         \* the step the export in progress has reached
    op,         \* the export in progress
    told,       \* observer: requests whose result was returned
    placed,     \* observer: content put into place, by request
    holder,     \* observer: per path, the request whose file nobody else overwrote
    foreign,    \* writes by other programs so far
    faults      \* failures so far

files == <<seen, kept>>
journal == <<plans, results, elsewhere, discarded>>
observers == <<told, placed, holder>>
vars == <<files, captures, journal, doc, usable, pc, op, observers, foreign, faults>>

Paths == {Source, Output}
Documents == 0..MaxEdits
Content == Documents \cup Foreign \cup {Base, Missing}
Intents == [path : Paths, force : BOOLEAN]
Plans == [intent : Intents, bytes : Documents, gen : Content]
NoExport == [req |-> NoRequest]

Steps == {"idle", "generation", "retain", "write", "check", "plan",
          "publish", "temp", "recheck", "swap", "parent", "result"}

TypeOK ==
    /\ seen \in [Paths -> Content]
    /\ kept \in [Paths -> SUBSET Content]
    /\ captures \in [Documents -> {"none", "part", "full", "durable"}]
    /\ DOMAIN plans \subseteq Requests /\ \A q \in DOMAIN plans : plans[q] \in Plans
    /\ Cardinality(DOMAIN plans) <= MaxPlans
    /\ results \subseteq DOMAIN plans
    /\ elsewhere \subseteq Requests
    /\ discarded \in BOOLEAN /\ usable \in BOOLEAN
    /\ doc \in Documents
    /\ pc \in Steps
    /\ pc # "idle" => usable /\ op.req \in Requests
    /\ told \subseteq results
    /\ placed \subseteq Requests \X Documents
    /\ holder \in [Paths -> Requests \cup {NoRequest}]

Init ==
    /\ seen = [p \in Paths |-> IF p = Source THEN Base ELSE Missing]
    /\ kept = [p \in Paths |-> {seen[p]}]
    /\ captures = [d \in Documents |-> "none"]
    /\ plans = << >> /\ results = {} /\ elsewhere = {} /\ discarded = FALSE
    /\ doc = 0
    /\ usable = TRUE
    /\ pc = "idle"
    /\ op = NoExport
    /\ told = {} /\ placed = {} /\ holder = [p \in Paths |-> NoRequest]
    /\ foreign = 0
    /\ faults = 0

-----------------------------------------------------------------------------
Goto(step) == pc' = step

\* The call returns, with an answer or an error.
Return ==
    /\ pc' = "idle"
    /\ op' = NoExport

Path == op.plan.intent.path
Bytes == op.plan.bytes

\* The part of `authorize` that can change its mind: a plain output must not
\* exist, an unforced source must still be the one the session was opened from.
Authorized(t) ==
    \/ t.force
    \/ t.path = Output /\ seen[Output] = Missing
    \/ t.path = Source /\ seen[Source] = Base

\* What replay requires of the two receipts, beyond their shape.
PlanFits(q) ==
    /\ ~discarded
    /\ q \notin elsewhere \cup DOMAIN plans
    /\ Cardinality(DOMAIN plans) < MaxPlans

ResultFits(q) ==
    /\ ~discarded
    /\ q \in DOMAIN plans
    /\ q \notin elsewhere \cup results

-----------------------------------------------------------------------------
(* export_file up to the plan.                                             *)

\* A new request: `authorize`.
Begin(q, t) ==
    /\ pc = "idle" /\ usable
    /\ q \notin elsewhere \cup DOMAIN plans
    /\ Cardinality(DOMAIN plans) < MaxPlans
    /\ Authorized(t)
    /\ op' = [req |-> q, plan |-> [intent |-> t, bytes |-> doc, gen |-> Missing]]
    /\ Goto("generation")
    /\ UNCHANGED <<files, captures, journal, doc, usable, observers, foreign, faults>>

\* destination_generation, a second look at the destination; then the snapshot.
ReadGeneration ==
    /\ pc = "generation"
    /\ op' = [op EXCEPT !.plan.gen = seen[Path]]
    /\ Goto("retain")
    /\ UNCHANGED <<files, captures, journal, doc, usable, observers, foreign, faults>>

\* `retain`: a capture that is already there is used as it is.
RetainOpen ==
    /\ pc = "retain"
    /\ IF captures[Bytes] # "none"
          THEN Goto("check") /\ UNCHANGED captures
          ELSE /\ Cardinality({d \in Documents : captures[d] # "none"}) < MaxCaptures
               /\ captures' = [captures EXCEPT ![Bytes] = "part"]
               /\ Goto("write")
    /\ UNCHANGED <<files, journal, doc, usable, op, observers, foreign, faults>>

RetainWrite ==
    /\ pc = "write"
    /\ captures' = [captures EXCEPT ![Bytes] = "full"]
    /\ Goto("check")
    /\ UNCHANGED <<files, journal, doc, usable, op, observers, foreign, faults>>

\* The capture is read back, and in either case the barriers follow.
RetainCheck ==
    /\ pc = "check"
    /\ captures[Bytes] \in {"full", "durable"}
    /\ captures' = [captures EXCEPT ![Bytes] = "durable"]
    /\ Goto("plan")
    /\ UNCHANGED <<files, journal, doc, usable, op, observers, foreign, faults>>

CommitPlan ==
    /\ pc = "plan"
    /\ PlanFits(op.req)
    /\ plans' = [q \in DOMAIN plans \cup {op.req} |-> IF q = op.req THEN op.plan ELSE plans[q]]
    /\ Goto("publish")
    /\ UNCHANGED <<files, captures, results, elsewhere, discarded, doc, usable, op, observers,
                   foreign, faults>>

\* Mutant: a retry plans again, with the document as it is now.
ResumeWithNewPlan(q) ==
    /\ pc = "idle" /\ usable
    /\ q \in DOMAIN plans \ results
    /\ ~discarded
    /\ captures[doc] = "durable"
    /\ plans' = [plans EXCEPT ![q].bytes = doc]
    /\ op' = [req |-> q, plan |-> plans'[q]]
    /\ Goto("publish")
    /\ UNCHANGED <<files, captures, results, elsewhere, discarded, doc, usable, observers,
                   foreign, faults>>

\* A retry of a planned request goes on from its plan, never from the document.
Resume(q) ==
    /\ pc = "idle" /\ usable
    /\ q \in DOMAIN plans \ results
    /\ ~discarded
    /\ op' = [req |-> q, plan |-> plans[q]]
    /\ Goto("publish")
    /\ UNCHANGED <<files, captures, journal, doc, usable, observers, foreign, faults>>

\* A retry of a finished one returns its result: export_file, or
\* file_export_outcome without an owner.
Answer(q) ==
    /\ pc = "idle"
    /\ q \in results
    /\ told' = told \cup {q}
    /\ UNCHANGED <<files, captures, journal, doc, usable, pc, op, placed, holder, foreign, faults>>

-----------------------------------------------------------------------------
(* NativeFileExportSink::publish.                                          *)

\* The file is in place for the request of the export in progress.
InPlace == holder' = [holder EXCEPT ![Path] = op.req]

\* The retained capture is read and verified before anything else.
CaptureReadable == captures[Bytes] \in {"full", "durable"}

\* Mutant: a file that is there already needs no barrier.
FindPublishedUnsynced ==
    /\ pc = "publish"
    /\ CaptureReadable
    /\ seen[Path] = Bytes
    /\ InPlace
    /\ Goto("result")
    /\ UNCHANGED <<files, captures, journal, doc, usable, op, told, placed, foreign, faults>>

\* The destination holds the bytes already, of an earlier try perhaps; only the
\* barriers are left.
FindPublished ==
    /\ pc = "publish"
    /\ CaptureReadable
    /\ seen[Path] = Bytes
    /\ InPlace
    /\ Goto("parent")
    /\ UNCHANGED <<files, captures, journal, doc, usable, op, told, placed, foreign, faults>>

\* Otherwise it must be authorized again and hold what the plan found there.
Admissible == Authorized(op.plan.intent) /\ seen[Path] = op.plan.gen

Admit ==
    /\ pc = "publish"
    /\ CaptureReadable
    /\ seen[Path] # Bytes
    /\ Admissible
    /\ Goto("temp")
    /\ UNCHANGED <<files, captures, journal, doc, usable, op, observers, foreign, faults>>

\* The temporary file is written and synced.
WriteTemporary ==
    /\ pc = "temp"
    /\ Goto("recheck")
    /\ UNCHANGED <<files, captures, journal, doc, usable, op, observers, foreign, faults>>

\* Mutant: the destination is not looked at again.
RecheckNothing ==
    /\ pc = "recheck"
    /\ op' = [req |-> op.req, plan |-> op.plan, raced |-> FALSE]
    /\ Goto("swap")
    /\ UNCHANGED <<files, captures, journal, doc, usable, observers, foreign, faults>>

\* The last look at the destination (and, for an unforced source, at the source,
\* which is the destination).
Recheck ==
    /\ pc = "recheck"
    /\ Path = Source /\ ~op.plan.intent.force => seen[Source] = Base
    /\ seen[Path] = op.plan.gen
    /\ op' = [req |-> op.req, plan |-> op.plan, raced |-> FALSE]
    /\ Goto("swap")
    /\ UNCHANGED <<files, captures, journal, doc, usable, observers, foreign, faults>>

\* rename replaces whatever is there, hard_link only makes a new file.
Swap ==
    /\ pc = "swap"
    /\ op.plan.intent.force \/ Path = Source \/ seen[Path] = Missing
    /\ seen' = [seen EXCEPT ![Path] = Bytes]
    /\ kept' = [kept EXCEPT ![Path] = @ \cup {Bytes}]
    /\ placed' = placed \cup {<<op.req, Bytes>>}
    /\ InPlace
    /\ Goto("parent")
    /\ UNCHANGED <<captures, journal, doc, usable, op, told, foreign, faults>>

\* The barriers on the file that was found, or on the directory of the new one.
SyncParent ==
    /\ pc = "parent"
    /\ kept' = [kept EXCEPT ![Path] = {seen[Path]}]
    /\ Goto("result")
    /\ UNCHANGED <<seen, captures, journal, doc, usable, op, observers, foreign, faults>>

CommitResult ==
    /\ pc = "result"
    /\ ResultFits(op.req)
    /\ results' = results \cup {op.req}
    /\ told' = told \cup {op.req}
    /\ Return
    /\ UNCHANGED <<files, captures, plans, elsewhere, discarded, doc, usable, placed, holder,
                   foreign, faults>>

-----------------------------------------------------------------------------
(* Failures.                                                               *)

\* Conditions that end the call with an error.
Refused ==
    \/ pc = "retain" /\ captures[Bytes] = "none"
          /\ Cardinality({d \in Documents : captures[d] # "none"}) >= MaxCaptures
    \/ pc = "check" /\ captures[Bytes] = "part"
    \/ pc = "plan" /\ ~PlanFits(op.req)
    \/ pc = "publish" /\ (~CaptureReadable \/ (seen[Path] # Bytes /\ ~Admissible))
    \/ pc = "recheck" /\ seen[Path] # op.plan.gen
    \/ pc = "swap" /\ ~op.plan.intent.force /\ Path # Source /\ seen[Path] # Missing

Refuse ==
    /\ Refused
    /\ Return
    /\ UNCHANGED <<files, captures, journal, doc, usable, observers, foreign, faults>>

\* A system call fails, or a commit that reconcile finds to have had no effect.
Fail ==
    /\ faults < MaxFaults
    /\ faults' = faults + 1
    /\ pc # "idle"
    /\ Return
    /\ UNCHANGED <<files, captures, journal, doc, usable, observers, foreign>>

\* A receipt whose outcome stays unknown: it may be in the journal, and the
\* owner must be recovered.
OutcomeUnknown ==
    /\ faults < MaxFaults
    /\ faults' = faults + 1
    /\ \/ /\ pc = "plan" /\ PlanFits(op.req)
          /\ plans' = [q \in DOMAIN plans \cup {op.req} |->
                          IF q = op.req THEN op.plan ELSE plans[q]]
          /\ UNCHANGED results
       \/ /\ pc = "result" /\ ResultFits(op.req)
          /\ results' = results \cup {op.req}
          /\ UNCHANGED plans
       \/ /\ pc \in {"plan", "result"}
          /\ UNCHANGED <<plans, results>>
    /\ usable' = FALSE
    /\ Return
    /\ UNCHANGED <<files, captures, elsewhere, discarded, doc, observers, foreign>>

\* The process is killed.
Kill ==
    /\ faults < MaxFaults
    /\ faults' = faults + 1
    /\ pc # "idle"
    /\ usable' = FALSE
    /\ Return
    /\ UNCHANGED <<files, captures, journal, doc, observers, foreign>>

\* The machine stops: files fall back to something that may have been on disk,
\* captures without a barrier may be gone or incomplete.
PowerLoss ==
    /\ faults < MaxFaults
    /\ faults' = faults + 1
    /\ seen' \in [Paths -> UNION {kept[p] : p \in Paths}]
    /\ \A p \in Paths : seen'[p] \in kept[p]
    /\ kept' = [p \in Paths |-> {seen'[p]}]
    /\ \E gone, part \in SUBSET {d \in Documents : captures[d] \in {"part", "full"}} :
          captures' = [d \in Documents |-> IF d \in gone THEN "none"
                                           ELSE IF d \in part THEN "part" ELSE captures[d]]
    /\ usable' = FALSE
    /\ Return
    /\ UNCHANGED <<journal, doc, observers, foreign>>

\* Recovery rebuilds the same document from the journal.
Recover ==
    /\ ~usable
    /\ usable' = TRUE
    /\ UNCHANGED <<files, captures, journal, doc, pc, op, observers, foreign, faults>>

-----------------------------------------------------------------------------
(* What happens around it.                                                 *)

Edit ==
    /\ pc = "idle" /\ usable /\ ~discarded
    /\ doc < MaxEdits
    /\ doc' = doc + 1
    /\ UNCHANGED <<files, captures, journal, usable, pc, op, observers, foreign, faults>>

\* Mutant: request identities of pending exports are not reserved.
UseRequestUnreserved(q) ==
    /\ pc = "idle" /\ usable /\ ~discarded
    /\ q \notin elsewhere \cup results
    /\ elsewhere' = elsewhere \cup {q}
    /\ UNCHANGED <<files, captures, plans, results, discarded, doc, usable, pc, op, observers,
                   foreign, faults>>

\* Another operation is committed under a request identity of its own:
\* "request identity reserved by a pending file export".
UseRequest(q) ==
    /\ pc = "idle" /\ usable /\ ~discarded
    /\ q \notin elsewhere \cup DOMAIN plans
    /\ elsewhere' = elsewhere \cup {q}
    /\ UNCHANGED <<files, captures, plans, results, discarded, doc, usable, pc, op, observers,
                   foreign, faults>>

DiscardResource ==
    /\ pc = "idle" /\ usable /\ ~discarded
    /\ discarded' = TRUE
    /\ UNCHANGED <<files, captures, plans, results, elsewhere, doc, usable, pc, op, observers,
                   foreign, faults>>

\* Another program replaces or removes a file, at any time.
ForeignWrite(p, x) ==
    /\ foreign < MaxForeign
    /\ foreign' = foreign + 1
    /\ x # seen[p]
    /\ seen' = [seen EXCEPT ![p] = x]
    /\ kept' = [kept EXCEPT ![p] = @ \cup {x}]
    /\ holder' = [holder EXCEPT ![p] = NoRequest]
    /\ op' = IF pc = "swap" THEN [op EXCEPT !.raced = TRUE] ELSE op
    /\ UNCHANGED <<captures, journal, doc, usable, pc, told, placed, faults>>

Publication ==
    \/ FindPublished \/ Admit \/ WriteTemporary \/ Recheck \/ Swap \/ SyncParent \/ CommitResult

Next ==
    \/ \E q \in Requests, t \in Intents : Begin(q, t)
    \/ ReadGeneration \/ RetainOpen \/ RetainWrite \/ RetainCheck \/ CommitPlan
    \/ \E q \in Requests : Resume(q) \/ Answer(q) \/ UseRequest(q)
    \/ Publication
    \/ Refuse \/ Fail \/ OutcomeUnknown \/ Kill \/ PowerLoss \/ Recover
    \/ Edit \/ DiscardResource
    \/ \E p \in Paths, x \in Foreign \cup {Missing} : ForeignWrite(p, x)

Spec == Init /\ [][Next]_vars

-----------------------------------------------------------------------------
(* Properties.                                                             *)

\* A planned capture can be published whenever the client comes back: its file
\* survives every failure after the plan was committed.
PlannedCaptureSurvives == \A q \in DOMAIN plans : captures[plans[q].bytes] = "durable"

\* "Retry never captures newer work": whatever was edited, lost or retried in
\* between, one request puts one content into place.
OneContentPerRequest == \A e, f \in placed : e[1] = f[1] => e[2] = f[2]

\* "pending capture will not overwrite newer data": the publication replaces
\* what the plan found at the destination, or what another program put there
\* after the last look; a plain output never replaces anything.
NoNewerDataLost ==
    [][pc = "swap" /\ pc' = "parent" =>
          /\ seen[Path] = op.plan.gen \/ op.raced
          /\ Path = Output /\ ~op.plan.intent.force => seen[Path] = Missing]_vars

\* A result that was returned means a file on disk: unless somebody wrote the
\* destination since, no failure takes the exported bytes away.
ReportedFileSurvives ==
    \A q \in told :
        LET p == plans[q].intent.path
        IN  holder[p] = q => kept[p] = {plans[q].bytes}

\* Once the file is in place the journal accepts its result receipt: no export
\* ends with a published file that can never be acknowledged.
ResultCanBeRecorded == pc = "result" => ResultFits(op.req)

-----------------------------------------------------------------------------
(* Why it works: the inductive invariant of the proofs.                     *)

Exports == [req : Requests, plan : Plans]
LastLooks == [req : Requests, plan : Plans, raced : BOOLEAN]

\* The export in progress; from the last look at the destination to the swap
\* it is known whether another program wrote there.
ExportTypes ==
    /\ IsFiniteSet(DOMAIN plans)
    /\ pc # "idle" => op \in Exports \cup LastLooks
    /\ pc = "swap" => op \in LastLooks

Publishing == {"publish", "temp", "recheck", "swap", "parent", "result"}

\* From its plan to its result the export follows its plan, and nothing else
\* uses its identity.
PlanStands ==
    /\ DOMAIN plans \cap elsewhere = {}
    /\ pc \in Publishing =>
          op.req \in DOMAIN plans \ results /\ op.plan = plans[op.req] /\ ~discarded

CapturesKept ==
    /\ PlannedCaptureSurvives
    /\ pc = "write" => captures[Bytes] = "part"
    /\ pc = "plan" => captures[Bytes] = "durable"

PlacedAsPlanned == \A e \in placed : e[1] \in DOMAIN plans /\ e[2] = plans[e[1]].bytes

\* A file whose result is recorded, returned or not, is on disk.
RecordedFileSurvives ==
    \A q \in results :
        LET p == plans[q].intent.path
        IN  holder[p] = q => kept[p] = {plans[q].bytes}

\* A file put into place is visible until the barrier and on disk after it,
\* unless another program wrote there.
InProgress ==
    /\ pc = "parent" /\ holder[Path] = op.req => seen[Path] = Bytes
    /\ pc = "result" /\ holder[Path] = op.req => kept[Path] = {Bytes}

FilesKept ==
    /\ \A p \in Paths : seen[p] \in kept[p]
    /\ InProgress
    /\ RecordedFileSurvives

LastLookHolds == pc = "swap" => seen[Path] = op.plan.gen \/ op.raced

ExportInv ==
    /\ ExportTypes /\ PlanStands /\ CapturesKept /\ PlacedAsPlanned /\ FilesKept
    /\ LastLookHolds

=============================================================================
