--------------------------- MODULE SessionRuntime ---------------------------
(***************************************************************************)
(* The runtime of a resident session (`ResidentSessionRuntime`,            *)
(* session.rs) and the outcomes it retains (canonical_outcome.rs): the     *)
(* layer between the clients, who name every request and repeat those they *)
(* got no answer to, and the owner with its journal (ResidentOwner).       *)
(*                                                                         *)
(* The response of a durable operation is prepared before its commit and   *)
(* stored in the same record, together with the hash of the whole request; *)
(* a repeated request is answered from there.  The journal replays every   *)
(* record before it takes it, and compares the response with the state it  *)
(* reaches.                                                                *)
(*                                                                         *)
(* A lane serves one request at a time, so a step is a whole call of       *)
(* `execute` with what its storage calls answered.  Calls that only fail   *)
(* change nothing and are left out, except where they poison the owner.    *)
(* The session starts as `prepare_creation` leaves it: with the receipt of *)
(* its creation in the journal and the owner kept in memory.               *)
(***************************************************************************)
EXTENDS Naturals, Sequences, FiniteSets, SequencesExt

CONSTANTS
    Clients,    \* the request identities clients choose
    Creation,   \* the identity of the request that created the resource
    Own,        \* identities the host makes up: restarts, export plans
    Nothing,    \* no argument, no item, nobody
    Mixes,      \* the mixes of operations considered
    MaxLog,     \* bound: records in the journal
    MaxFailures \* bound: kills, power losses and failed calls

VARIABLES
    offered,    \* the operations clients ask for in this behaviour
    records,    \* the journal
    settled,    \* how many of its records survive a power loss
    runtime,    \* the runtime in memory
    answers,    \* observer: what clients were answered with success
    failures    \* failures so far

session == <<offered, records, settled, runtime, answers, failures>>

-----------------------------------------------------------------------------
(* Requests, records and responses.                                        *)

\* What a write or a staged change does to the document and to the proof of
\* its calculation.
Effects == {"Invalidate", "Preserve", "None"}
Moves == {"Undo", "BranchCreate", "Receipt"}

\* A request is its operation, its argument and the revision it expects; its
\* fingerprint is the hash of the three.
OnStaged == {"apply_staged", "discard_staged"}
OnCheckpoints == {"create_checkpoint", "delete_checkpoint", "restore_checkpoint"}
OnItems == OnStaged \cup (OnCheckpoints \ {"create_checkpoint"})
Requested ==
    LET any == 1..MaxLog IN
    [op : {"write", "stage"} \cap offered, arg : Effects, expected : any]
    \cup [op : {"session_history"} \cap offered, arg : Moves, expected : any]
    \cup [op : OnItems \cap offered, arg : Clients, expected : any]
    \cup [op : {"recalculate", "create_checkpoint", "export_fork", "discard_fork"} \cap offered,
          arg : {Nothing}, expected : any]

CatalogOnly == {"CatalogStage", "CatalogDiscard", "Checkpoint", "CheckpointDelete", "Receipt"}

\* PreparedResidentCommit, as far as a session can tell: the request, the
\* transition, the staged change or checkpoint it is about, its effect on the
\* document, the revision it reaches and the response retained with it.
Committed(q, input, transition, item, effect, revision, response) ==
    [request |-> q, input |-> input, transition |-> transition, item |-> item,
     effect |-> effect, revision |-> revision, response |-> response]

\* CanonicalResponse: revisions, the item it names, a count, a flag and a list
\* of identities.
Response(op, before, after, item, count, flag, kept) ==
    [op |-> op, before |-> before, after |-> after, item |-> item, count |-> count,
     flag |-> flag, kept |-> kept]

NoResponse == Response("none", 0, 0, Nothing, 0, FALSE, {})
NoInput == [op |-> "none", arg |-> Nothing, expected |-> 0]

Tombstone == 0      \* the revision "discarded:<commit>"

-----------------------------------------------------------------------------
(* Replay.                                                                 *)

Start == [revision |-> 1, staged |-> {}, checkpoints |-> {}, current |-> FALSE,
          discarded |-> FALSE, reserved |-> {}]

\* The catalog of staged changes after a record; the bundle keeps the
\* operations and the revision it was staged at.
StagedAfter(staged, r) ==
    IF r.transition = "CatalogStage"
    THEN staged \cup {[id |-> r.item, effect |-> r.effect, base |-> r.revision]}
    ELSE IF r.transition \in {"CatalogDiscard", "StageApply"}
    THEN {s \in staged : s.id # r.item}
    ELSE staged

\* Whether the results in the document are proved current after a record.
CurrentAfter(current, r) ==
    CASE r.transition = "CalculationPublish" -> TRUE
      [] r.transition \in {"Restart", "Undo", "Checkout"} -> FALSE
      [] r.transition \in {"Mutation", "StageApply"} -> current /\ r.effect # "Invalidate"
      [] OTHER -> current

\* One record in PortableHistoryState::replay.
Replay(h, r) ==
    [revision |-> r.revision,
     staged |-> StagedAfter(h.staged, r),
     checkpoints |->
        IF r.transition = "Checkpoint" THEN h.checkpoints \cup {[id |-> r.request, at |-> r.revision]}
        ELSE IF r.transition = "CheckpointDelete" THEN {c \in h.checkpoints : c.id # r.item}
        ELSE h.checkpoints,
     current |-> CurrentAfter(h.current, r),
     discarded |-> h.discarded \/ r.input.op = "discard_fork",
     reserved |-> IF r.input.op = "file_export" THEN h.reserved \cup {r.item} ELSE h.reserved]

\* The states a replay goes through, and the one it reaches.
Replays(log) ==
    LET h[k \in Nat] == IF k = 0 THEN Start ELSE Replay(h[k - 1], log[k])
    IN  h
State(log) == Replays(log)[Len(log)]

Ids(items) == {i.id : i \in items}

\* The comparison of a retained response with the state its record reaches
\* (canonical_outcome::validate): the revisions of every response, and then
\* what each operation claims.  h is the state before the record, after the one
\* it reaches.
ValidRevisions(h, r) ==
    /\ r.response.op = r.input.op
    /\ r.response.before = h.revision
    /\ r.response.after = IF r.response.op = "discard_fork" THEN Tombstone ELSE r.revision

ValidLifecycle(r) == r.transition = "Receipt" /\ r.input.expected = r.revision

ValidWrite(r) ==
    r.transition \in {"Mutation", "CatalogStage", "Receipt"} /\ r.response.item = r.item

ValidCalculation(r) == r.transition = "CalculationPublish"

ValidCheckpoint(r, after) ==
    LET a == r.response IN
    CASE a.op = "create_checkpoint" ->
           /\ r.transition = "Checkpoint" /\ a.item = r.request
           /\ a.count = Cardinality(after.checkpoints)
      [] a.op = "delete_checkpoint" -> r.transition = "CheckpointDelete" /\ a.item = r.item
      [] OTHER ->
           /\ r.transition = "Checkout" /\ a.item = r.item
           /\ \E c \in after.checkpoints : c.id = a.item /\ c.at = a.count
           /\ a.kept = Ids(after.checkpoints)

ValidStaged(r, after) ==
    /\ r.response.item = r.item
    /\ IF r.response.op = "apply_staged"
       THEN r.transition = "StageApply" /\ r.response.flag = ~after.current
       ELSE /\ r.transition \in {"CatalogDiscard", "Receipt"}
            /\ r.response.flag = (r.transition = "CatalogDiscard")

ValidHistory(r) == r.transition \in Moves

Validated(h, r) ==
    LET after == Replay(h, r) op == r.response.op IN
    /\ ValidRevisions(h, r)
    /\ CASE op \in {"export_fork", "discard_fork"} -> ValidLifecycle(r)
         [] op \in {"write", "stage"} -> ValidWrite(r)
         [] op = "recalculate" -> ValidCalculation(r)
         [] op \in OnCheckpoints -> ValidCheckpoint(r, after)
         [] op \in OnStaged -> ValidStaged(r, after)
         [] op = "session_history" -> ValidHistory(r)
         [] OTHER -> FALSE

\* What the journal takes: nothing after a tombstone, no identity twice or
\* reserved by a file export, and only a response that fits.
Accepts(log, r) ==
    LET h == State(log) IN
    /\ ~h.discarded
    /\ r.request \notin h.reserved
    /\ r.request # Own => \A k \in DOMAIN log : log[k].request # r.request
    /\ r.response # NoResponse => Validated(h, r)

-----------------------------------------------------------------------------
(* The runtime.                                                            *)

Down == [st |-> "down", revision |-> 0, staged |-> {}, current |-> FALSE,
         discarded |-> "unread", poison |-> "none", culprit |-> Nothing]

\* ResidentSessionRuntime::new around an owner in this state.
New(h) == [st |-> "up", revision |-> h.revision, staged |-> h.staged, current |-> h.current,
           discarded |-> "unread", poison |-> "none", culprit |-> Nothing]

\* prepare_creation
CreationReceipt ==
    Committed(Creation, [NoInput EXCEPT !.op = "create_fork"], "Receipt", Nothing, "None", 1,
              Response("create_fork", 0, 1, Nothing, 0, FALSE, {}))

SessionInit ==
    /\ offered \in Mixes
    /\ records = <<CreationReceipt>>
    /\ settled = 1
    /\ runtime = New(Start)
    /\ answers = {}
    /\ failures = 0

Discarded == State(records).discarded

\* The runtime reads once whether the resource is discarded, and keeps it.
KnownDiscarded ==
    IF runtime.discarded = "unread" THEN (IF Discarded THEN "yes" ELSE "no") ELSE runtime.discarded

Recorded(q) == {k \in DOMAIN records : records[k].request = q}

\* Mutant: a repeated identity is answered whatever its request says.
RetainedByIdentity(q, input) == {k \in Recorded(q) : q \notin State(records).reserved}

\* The outcome of a request in the journal; an identity that plans of file
\* exports reserve is refused before anything else.
Retained(q, input) ==
    {k \in Recorded(q) : records[k].input = input /\ q \notin State(records).reserved}

Usable == runtime.st = "up" /\ runtime.poison = "none" /\ KnownDiscarded = "no"

\* The staged change the runtime has in memory under an identity.
Bundle(id) == {s \in runtime.staged : s.id = id}

\* check_revision for a request that is not in the journal, and what each
\* operation wants to find.
Admissible(q, input) ==
    /\ input.expected = runtime.revision
    /\ Recorded(q) = {} /\ Usable /\ q \notin State(records).reserved
    /\ input.op = "apply_staged" => \E s \in Bundle(input.arg) : s.base = runtime.revision
    /\ input.op \in {"delete_checkpoint", "restore_checkpoint"} =>
          input.arg \in Ids(State(records).checkpoints)

\* The transition each operation asks for.
Transition(input) ==
    CASE input.op = "write" -> IF input.arg = "None" THEN "Receipt" ELSE "Mutation"
      [] input.op = "stage" -> "CatalogStage"
      [] input.op = "apply_staged" -> "StageApply"
      [] input.op = "discard_staged" -> IF Bundle(input.arg) = {} THEN "Receipt" ELSE "CatalogDiscard"
      [] input.op = "recalculate" -> "CalculationPublish"
      [] input.op = "session_history" -> input.arg
      [] input.op = "create_checkpoint" -> "Checkpoint"
      [] input.op = "delete_checkpoint" -> "CheckpointDelete"
      [] input.op = "restore_checkpoint" -> "Checkout"
      [] OTHER -> "Receipt"

EffectOf(input) ==
    CASE input.op \in {"write", "stage"} -> input.arg
      [] input.op = "apply_staged" -> (CHOOSE s \in Bundle(input.arg) : TRUE).effect
      [] OTHER -> "None"

\* predicted_resident_revision
Predicted(transition, effect) ==
    IF transition \in CatalogOnly \/ (transition = "StageApply" /\ effect = "None")
    THEN runtime.revision ELSE runtime.revision + 1

\* A checkpoint is named by its request, a staged change by a fresh identity that
\* is kept with the request.
ItemOf(q, input) ==
    IF input.op \in {"stage", "create_checkpoint"} THEN q
    ELSE IF input.op \in OnItems THEN input.arg ELSE Nothing

\* Mutant: every applied change asks for a recalculation.
RecalcAlwaysNeeded(effect) == TRUE

\* `dirty` before the operation decides whether a staged change that preserves
\* the proof, or changes nothing, still needs a recalculation.
RecalcNeeded(effect) == effect = "Invalidate" \/ ~runtime.current

\* The responses the operations prepare from memory and from the records they
\* have just loaded (the `prepare` closures of session.rs): here one per kind,
\* each naming the revisions before and after.
WriteResponse(q, input, after) ==
    Response(input.op, input.expected, after, ItemOf(q, input), 0, FALSE, {})

RecalculateResponse(input, after) ==
    Response(input.op, input.expected, after, Nothing, 0, FALSE, {})

HistoryResponse(input, after) ==
    Response(input.op, input.expected, after, Nothing, 0, FALSE, {})

LifecycleResponse(input, after) ==
    Response(input.op, input.expected, IF input.op = "discard_fork" THEN Tombstone ELSE after,
             Nothing, 0, FALSE, {})

CheckpointResponse(q, input, after) ==
    LET marks == State(records).checkpoints
        count == CASE input.op = "create_checkpoint" -> Cardinality(marks) + 1
                   [] input.op = "restore_checkpoint" -> (CHOOSE c \in marks : c.id = input.arg).at
                   [] OTHER -> 0
    IN  Response(input.op, input.expected, after, ItemOf(q, input), count, FALSE,
                 IF input.op = "restore_checkpoint" THEN Ids(marks) ELSE {})

StagedResponse(q, input, transition, effect, after) ==
    Response(input.op, input.expected, after, ItemOf(q, input), 0,
             IF input.op = "apply_staged" THEN RecalcNeeded(effect)
             ELSE transition = "CatalogDiscard", {})

PreparedResponse(q, input, transition, effect, after) ==
    CASE input.op \in {"write", "stage"} -> WriteResponse(q, input, after)
      [] input.op = "recalculate" -> RecalculateResponse(input, after)
      [] input.op = "session_history" -> HistoryResponse(input, after)
      [] input.op \in OnCheckpoints -> CheckpointResponse(q, input, after)
      [] input.op \in OnStaged -> StagedResponse(q, input, transition, effect, after)
      [] OTHER -> LifecycleResponse(input, after)

Prepared(q, input) ==
    LET transition == Transition(input)
        effect == EffectOf(input)
        after == Predicted(transition, effect)
    IN  Committed(q, input, transition, ItemOf(q, input), effect, after,
                  PreparedResponse(q, input, transition, effect, after))

\* The publication of a committed record into the owner.
PublishedIn(run, r) ==
    [run EXCEPT !.revision = r.revision,
                !.staged = StagedAfter(@, r),
                !.current = CurrentAfter(@, r),
                !.discarded = IF r.input.op = "discard_fork" THEN "yes" ELSE "no"]

-----------------------------------------------------------------------------
(* Calls of execute.                                                       *)

Fail == failures < MaxFailures /\ failures' = failures + 1

Answer(q, input, response) ==
    answers' = answers \cup {[request |-> q, input |-> input, response |-> response]}

Poisoned(reason, q) ==
    [runtime EXCEPT !.discarded = KnownDiscarded, !.poison = reason,
                    !.culprit = IF @ = Nothing THEN q ELSE @]

\* A new request: prepared, committed (at the first attempt or found by the
\* reconciliation after it), published and answered.
Perform(q, input) ==
    /\ Admissible(q, input)
    /\ Len(records) < MaxLog
    /\ LET r == Prepared(q, input) IN
          /\ Accepts(records, r)
          /\ records' = Append(records, r)
          /\ settled' = Len(records')
          /\ runtime' = PublishedIn(runtime, r)
          /\ Answer(q, input, r.response)
    /\ UNCHANGED failures

\* The commit fails and so does the reconciliation: the record may be there.
OutcomeUnknown(q, input) ==
    /\ Admissible(q, input) /\ Fail
    /\ \/ records' = records
       \/ /\ Len(records) < MaxLog
          /\ Accepts(records, Prepared(q, input))
          /\ records' = Append(records, Prepared(q, input))
    /\ runtime' = Poisoned("outcome unknown", q)
    /\ UNCHANGED <<settled, answers>>

\* The record is committed and its publication fails.
PublicationFails(q, input) ==
    /\ Admissible(q, input) /\ Fail
    /\ Len(records) < MaxLog
    /\ Transition(input) \notin CatalogOnly
    /\ Accepts(records, Prepared(q, input))
    /\ records' = Append(records, Prepared(q, input))
    /\ settled' = Len(records')
    /\ runtime' = Poisoned("publication", q)
    /\ UNCHANGED answers

\* The calculation fails or times out before there is anything to commit.
CalculationFails(q, input) ==
    /\ Admissible(q, input) /\ Fail
    /\ input.op = "recalculate"
    /\ runtime' = Poisoned("calculation", q)
    /\ UNCHANGED <<records, settled, answers>>

\* A request whose record is in the journal: `load` and `reconcile` of the
\* storage capture the retained response, and refuse another input.  A discard
\* is reconciled before everything else, an export also when the resource is
\* discarded, and a terminal journal answers those two without a workbook.
Repeat(q, input) ==
    /\ Retained(q, input) # {}
    /\ \/ Usable
       \/ runtime.st = "up" /\ input.op = "discard_fork"
       \/ runtime.st = "up" /\ input.op = "export_fork" /\ KnownDiscarded = "yes"
       \/ runtime.st = "terminal" /\ input.op \in {"discard_fork", "export_fork"}
    /\ settled' = Len(records)
    /\ \E k \in Retained(q, input) : Answer(q, input, records[k].response)
    /\ runtime' = IF runtime.st = "terminal" THEN runtime
                  ELSE [runtime EXCEPT !.discarded = IF input.op = "discard_fork" THEN "yes"
                                                     ELSE KnownDiscarded]
    /\ UNCHANGED <<records, failures>>

\* session_history with Outcome, which a poisoned owner and a terminal journal
\* answer too: the retained response of a request, by its identity alone.
QueryOutcome(q) ==
    /\ runtime.st # "down"
    /\ \E k \in Recorded(q) : Answer(q, records[k].input, records[k].response)
    /\ settled' = Len(records)
    /\ runtime' = IF runtime.st = "up" THEN [runtime EXCEPT !.discarded = KnownDiscarded] ELSE runtime
    /\ UNCHANGED <<records, failures>>

\* The plan of a file export on the same lane reserves its request identity.
PlanFileExport(q) ==
    /\ "file_export" \in offered
    /\ Usable
    /\ Recorded(q) = {} /\ q \notin State(records).reserved
    /\ Len(records) < MaxLog
    /\ records' = Append(records, Committed(Own, [NoInput EXCEPT !.op = "file_export"], "Receipt",
                                            q, "None", runtime.revision, NoResponse))
    /\ settled' = Len(records')
    /\ UNCHANGED <<runtime, answers, failures>>

-----------------------------------------------------------------------------
(* The life of the runtime.                                                *)

\* recover_durable_resident_session: replay and a restart record.  The stamp of
\* the calculation starts again.
Attach ==
    /\ runtime.st = "down" /\ ~Discarded
    /\ Len(records) < MaxLog
    /\ LET restart == Committed(Own, NoInput, "Restart", Nothing, "None",
                                State(records).revision + 1, NoResponse) IN
          /\ records' = Append(records, restart)
          /\ settled' = Len(records')
          /\ runtime' = New(State(records'))
    /\ UNCHANGED <<answers, failures>>

\* A discarded resource is served from its journal alone.
AttachTerminal ==
    /\ runtime.st = "down" /\ Discarded
    /\ runtime' = [Down EXCEPT !.st = "terminal"]
    /\ UNCHANGED <<records, settled, answers, failures>>

\* The lane ends, or the process is killed between two requests.
Detach ==
    /\ runtime.st # "down" /\ Fail
    /\ runtime' = Down
    /\ UNCHANGED <<records, settled, answers>>

\* The process is killed with a record appended and nobody answered.
KilledInCommit(q, input) ==
    /\ Admissible(q, input) /\ Fail
    /\ Len(records) < MaxLog
    /\ Accepts(records, Prepared(q, input))
    /\ records' = Append(records, Prepared(q, input))
    /\ runtime' = Down
    /\ UNCHANGED <<settled, answers>>

\* The machine stops: records nobody was told of may be gone.
LosePower ==
    /\ Fail
    /\ \E n \in settled..Len(records) : /\ records' = SubSeq(records, 1, n)
                                        /\ settled' = n
    /\ runtime' = Down
    /\ UNCHANGED answers

Execute(q) ==
    \/ \E input \in Requested :
          \/ Perform(q, input) \/ Repeat(q, input)
          \/ OutcomeUnknown(q, input) \/ PublicationFails(q, input)
          \/ CalculationFails(q, input) \/ KilledInCommit(q, input)
    \/ QueryOutcome(q)
    \/ PlanFileExport(q)

SessionNext ==
    /\ (\E q \in Clients : Execute(q)) \/ Attach \/ AttachTerminal \/ Detach \/ LosePower
    /\ UNCHANGED offered

-----------------------------------------------------------------------------
(* What clients see of the records.                                        *)

\* get_changes: calculations and applied writes by their place in the journal,
\* each with the revision before it, from its retained response or from the
\* record before it.
OperationHistory ==
    [k \in {n \in DOMAIN records : \/ records[n].transition = "CalculationPublish"
                                  \/ records[n].input.op \in {"write", "apply_staged"}} |->
        [before |-> IF records[k].response # NoResponse THEN records[k].response.before
                    ELSE records[k - 1].revision,
         after |-> records[k].revision]]

\* resident_catalog_descriptor: what the catalog shows of a live resource.
Descriptor ==
    LET h == State(records) IN
    [operation_count |-> Cardinality({k \in DOMAIN records :
        records[k].transition = "CalculationPublish" \/ records[k].input.op \in {"write", "apply_staged"}}),
     staged_change_count |-> Cardinality(h.staged),
     checkpoint_count |-> Cardinality(h.checkpoints),
     recalc_needed |-> ~runtime.current]

-----------------------------------------------------------------------------
(* Properties.                                                             *)

\* Whatever was answered with success stays so: one record, which no power loss
\* takes, holds the request with that very response.  So a request repeated
\* after a lost answer, a poisoned owner, a restart, later edits or the discard
\* is answered as the first time and takes effect once, and another request
\* under its identity is refused (execute, OutcomeStorage).
AnswersStand ==
    /\ \A a \in answers : \E k \in 1..settled :
          /\ records[k].request = a.request
          /\ records[k].input = a.input
          /\ records[k].response = a.response
    /\ \A i, j \in DOMAIN records :
          records[i].request = records[j].request => i = j \/ records[i].request = Own

\* What the journal would replay to without the record of a request.
StateWithout(q) ==
    IF Recorded(q) = {} THEN State(records)
    ELSE State(RemoveAt(records, CHOOSE k \in Recorded(q) : TRUE))

\* A runtime that serves requests holds what a replay of its journal reaches,
\* after every failure that did not poison it; so every response it prepares
\* passes the journal's comparison, and a poisoned or discarded one never
\* commits.  What a poisoned one lacks is the record of the request that
\* `status` names.  The operations it lists (get_changes) account for the
\* revisions in order, and the catalog counts them.
RecordsExplainTheSession ==
    LET h == State(records)
        without == StateWithout(runtime.culprit)
        shown == OperationHistory
    IN  /\ Usable => /\ runtime.revision = h.revision /\ runtime.staged = h.staged
                     /\ runtime.current = h.current /\ ~h.discarded
                     /\ Descriptor.operation_count = Cardinality(DOMAIN shown)
                     /\ Descriptor.recalc_needed = ~h.current
        /\ runtime.poison # "none" =>
              runtime.revision = without.revision /\ runtime.staged = without.staged
        /\ \A q \in Clients, input \in Requested :
              Admissible(q, input) => Accepts(records, Prepared(q, input))
        /\ \A k \in DOMAIN records : Replays(records)[k].discarded => k = Len(records)
        /\ \A i, j \in DOMAIN shown : i < j => shown[i].after <= shown[j].before
                                               /\ shown[i].before <= shown[i].after


-----------------------------------------------------------------------------
(* What these rest on.                                                     *)

\* Every prefix of the journal, since a power loss may leave it: no record after
\* a discard, revisions that never go back, checkpoints named by the requests
\* that made them, and responses that name the revision before their record.
HistoryStands ==
    \A k \in DOMAIN records :
        LET h == Replays(records)[k]
            r == records[k]
        IN  /\ h.current \in BOOLEAN /\ h.discarded \in BOOLEAN
            /\ h.discarded => k = Len(records)
            /\ IsFiniteSet(h.checkpoints)
            /\ Ids(h.checkpoints) \subseteq {records[j].request : j \in 1..k}
            /\ r.revision \in Nat
            /\ \A j \in 1..k : records[j].revision <= r.revision
            /\ k \in DOMAIN OperationHistory =>
                  k > 1 /\ OperationHistory[k].before = records[k - 1].revision

\* The runtime in memory: in step with the journal, or poisoned and behind it by
\* the record of the request that poisoned it.
RuntimeStands ==
    LET h == State(records) IN
    /\ DOMAIN runtime = {"st", "revision", "staged", "current", "discarded", "poison", "culprit"}
    /\ runtime.st \in {"up", "down", "terminal"} /\ runtime.discarded \in {"unread", "yes", "no"}
    /\ runtime.poison = "none" => runtime.culprit = Nothing
    /\ runtime.poison # "none" =>
          /\ runtime.st = "up"
          /\ runtime.revision = StateWithout(runtime.culprit).revision
          /\ runtime.staged = StateWithout(runtime.culprit).staged
    /\ runtime.st = "up" /\ runtime.poison = "none" =>
          /\ runtime.revision = h.revision /\ runtime.staged = h.staged /\ runtime.current = h.current
          /\ runtime.discarded = "yes" => h.discarded
          /\ runtime.discarded = "no" => ~h.discarded

SessionInv ==
    /\ records \in Seq({records[k] : k \in DOMAIN records})
    /\ settled \in 1..Len(records)
    /\ AnswersStand /\ HistoryStands /\ RuntimeStands

=============================================================================
