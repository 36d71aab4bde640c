----------------------------- MODULE NativeHost -----------------------------
(***************************************************************************)
(* The native host: one process that owns the resident sessions of a       *)
(* workspace (native_host.rs) and the lane threads behind them             *)
(* (native_resident.rs).                                                   *)
(*                                                                         *)
(* A request is a task of the HTTP executor, or, for creations, listings,  *)
(* verifications of files and bindings, a job on a blocking worker that    *)
(* outlives its connection.  It looks its resource up in the owner table,  *)
(* attaches a lane when there is none (under the admission mutex), puts a  *)
(* message into the lane's bounded queue and waits for the reply.  Every   *)
(* step below is one section of the code between two awaits; a client may  *)
(* vanish at any of them.  Most sections lock the owner table only inside  *)
(* the step; a detach and the shutdown keep it while they wait for a lane. *)
(***************************************************************************)
EXTENDS Naturals, Sequences, FiniteSets, SequencesExt

CONSTANTS
    Resources,      \* identities of resident resources
    Requests,       \* requests clients send, one each
    Workloads,      \* the resources, operations and capacities considered
    NoLane, Nobody, NoResource

Host == "host"
Operations == {"write", "discard", "compare", "materialize", "diagnostics", "create", "list",
               "verify", "bind", "detach", "shutdown"}

ASSUME HostAssumption ==
    /\ NoResource \notin Resources /\ NoLane \notin Nat
    /\ Nobody \notin Requests \cup {Host} /\ Host \notin Requests
    /\ \A w \in Workloads : /\ w.initial \subseteq w.known /\ w.known \subseteq Resources
                            /\ IsFiniteSet(w.initial) /\ w.offered \subseteq Operations
                            /\ w.owners \in Nat \ {0} /\ w.queue \in Nat \ {0}

VARIABLES
    load,       \* the workload of this behaviour
    req,        \* per request: operation, resource and second resource
    pc,         \* per request: the section it has reached
    held,       \* per request: the lane it holds a reference to
    raising,    \* per request: the lane it is starting
    left,       \* per request: the lanes it still has to visit
    answer,     \* per request: what it was answered
    vanished,   \* requests whose client went away
    table,      \* the owner table: resource -> lane
    admission,  \* holder of the owner_admission mutex
    guard,      \* holder of the owner table's mutex across awaits
    phase,      \* of the host: serving, draining, closing, detaching, down, failed
    doomed,     \* lanes the shutdown still has to detach
    parting,    \* the lane the shutdown is waiting for
    lanes,      \* the lane threads, in the order they were started
    lockOf,     \* the owner.lock file of each resource
    journal,    \* the records of each resource
    bound       \* resources with an active directory

tasks == <<req, pc, held, raising, left, answer, vanished>>
host == <<phase, doomed, parting>>
disk == <<journal, bound>>
vars == <<load, tasks, table, admission, guard, host, lanes, lockOf, disk>>

Initial == load.initial         \* resources whose directory is active at the start
Offered == load.offered         \* the operations clients ask for
MaxOwners == load.owners        \* capacity of the owner table
QueueCapacity == load.queue     \* capacity of a lane's queue

Blocking == {"create", "list", "verify", "bind"}    \* jobs on a worker thread
Executes == {"write", "discard", "compare"}         \* HostRequest::Execute on a lane
Terminal(x) == \E k \in DOMAIN journal[x] : journal[x][k].kind = "discard"
Closed(l) == lanes[l].st \in {"closed", "gone"}     \* NativeOwnerLane::is_closed
Owned == {x \in Resources : table[x] # NoLane}
Held(l) == {r \in Requests : held[r] = l}
Senders(l) ==
    Held(l) \cup {r \in Requests : raising[r] = l} \cup {x \in Owned : table[x] = l}
    \cup (IF l \in doomed \/ parting = l THEN {Host} ELSE {})
Target(r) == Head(left[r])
Closing == phase \in {"closing", "detaching", "down", "failed"}
Exited == phase \in {"down", "failed"}

Steps == {"new", "prune", "peek", "judge", "call", "find", "admit", "recheck", "vet", "starting",
          "insert", "send", "wait", "replied", "unlist", "outcome", "fence", "grab", "detaching",
          "join", "settle", "trim", "prepare", "look", "publish", "done"}
Messages == [from : Requests \cup {Host}, kind : Operations \cup {"read", "creation"}]
Lanes == [res : Resources, st : {"starting", "open", "closed", "gone"}, queue : Seq(Messages),
          by : Requests \cup {Nobody}]

TypeOK ==
    /\ load \in Workloads
    /\ req \in [Requests -> [op : Operations \cup {"none"}, res : Resources \cup {NoResource},
                            other : Resources \cup {NoResource}]]
    /\ pc \in [Requests -> Steps]
    /\ held \in [Requests -> DOMAIN lanes \cup {NoLane}]
    /\ raising \in [Requests -> DOMAIN lanes \cup {NoLane}]
    /\ left \in [Requests -> Seq(Resources \cup {NoResource})]
    /\ table \in [Resources -> DOMAIN lanes \cup {NoLane}]
    /\ admission \in Requests \cup {Nobody, Host}
    /\ guard \in Requests \cup {Nobody, Host}
    /\ phase \in {"serving", "draining", "closing", "detaching", "down", "failed"}
    /\ doomed \subseteq DOMAIN lanes /\ parting \in DOMAIN lanes \cup {NoLane}
    /\ lanes \in Seq(Lanes)
    /\ \A l \in DOMAIN lanes : Len(lanes[l].queue) <= QueueCapacity
    /\ lockOf \in [Resources -> DOMAIN lanes \cup {NoLane}]
    /\ journal \in [Resources -> Seq(Messages)]
    /\ bound \subseteq Resources /\ IsFiniteSet(bound)

Init ==
    /\ load \in Workloads
    /\ req = [r \in Requests |-> [op |-> "none", res |-> NoResource, other |-> NoResource]]
    /\ pc = [r \in Requests |-> "new"]
    /\ held = [r \in Requests |-> NoLane]
    /\ raising = [r \in Requests |-> NoLane]
    /\ left = [r \in Requests |-> << >>]
    /\ answer = [r \in Requests |-> "none"]
    /\ vanished = {}
    /\ table = [x \in Resources |-> NoLane]
    /\ admission = Nobody /\ guard = Nobody
    /\ phase = "serving" /\ doomed = {} /\ parting = NoLane
    /\ lanes = << >>
    /\ lockOf = [x \in Resources |-> NoLane]
    /\ journal = [x \in Resources |-> << >>]
    /\ bound = Initial

-----------------------------------------------------------------------------
(* Steps of a task.                                                        *)

Goto(r, step) == pc' = [pc EXCEPT ![r] = step]
Release(m, r) == IF m = r THEN Nobody ELSE m

\* The handler returns: its references and locks are dropped.
Finish(r, what) ==
    /\ answer' = [answer EXCEPT ![r] = what]
    /\ Goto(r, "done")
    /\ held' = [held EXCEPT ![r] = NoLane]
    /\ raising' = [raising EXCEPT ![r] = NoLane]
    /\ left' = [left EXCEPT ![r] = << >>]
    /\ admission' = Release(admission, r)
    /\ guard' = Release(guard, r)
    /\ UNCHANGED <<req, vanished>>

\* Only the program counter of the task changes.
Advance(r, step) ==
    /\ Goto(r, step)
    /\ UNCHANGED <<req, held, raising, left, answer, vanished>>

\* What a request has to visit: a verification and a foreign baseline are
\* two messages to a lane (catalog, capture), a creation identifies its parent
\* first, a listing visits every fork.
Route(op, x, y) ==
    CASE op = "verify"  -> <<x, x>>
      [] op = "compare" -> <<y, y, x>>
      [] op = "create"  -> IF x = NoResource THEN << >> ELSE <<x, x>>
      [] op \notin {"verify", "compare", "create"} -> <<x>>

Start(op) ==
    CASE op \in Executes -> "prune"
      [] op \in {"materialize", "verify"} -> "call"
      [] op = "diagnostics" -> "find"
      [] op = "create" -> "outcome"
      [] op \in {"list", "bind", "detach"} -> "fence"

Arrive(r, op, x, y) ==
    /\ phase = "serving" /\ pc[r] = "new"
    /\ op \in Offered \ {"shutdown"}
    /\ op = "compare" => x # y /\ y # NoResource
    /\ op = "create" => y \in load.known \ Initial
    /\ op \notin {"compare", "create"} => y = NoResource
    /\ x = NoResource => op \in {"create", "list"}
    /\ op = "list" => x = NoResource
    /\ req' = [req EXCEPT ![r] = [op |-> op, res |-> x, other |-> y]]
    /\ left' = [left EXCEPT ![r] = Route(op, x, y)]
    /\ Goto(r, Start(op))
    /\ UNCHANGED <<held, raising, answer, vanished, table, admission, guard, host, lanes, lockOf, disk>>

\* The connection is gone.  A task is dropped where it waits; a job goes on.
Vanish(r) ==
    /\ pc[r] \notin {"new", "done"} /\ r \notin vanished /\ ~Exited
    /\ IF req[r].op \in Blocking
          THEN /\ vanished' = vanished \cup {r}
               /\ UNCHANGED <<req, pc, held, raising, left, answer, admission, guard>>
          ELSE Finish(r, "vanished")
    /\ UNCHANGED <<table, host, lanes, lockOf, disk>>

-----------------------------------------------------------------------------
(* Finding the lane of a resource.                                         *)

Pruned == [x \in Resources |-> IF table[x] # NoLane /\ Closed(table[x]) THEN NoLane ELSE table[x]]

\* prune_closed_lanes, at the start of Execute and of owner().
Prune(r) ==
    /\ pc[r] \in {"prune", "call"} /\ guard = Nobody
    /\ table' = Pruned
    /\ Advance(r, IF pc[r] = "prune" THEN "peek" ELSE "find")
    /\ UNCHANGED <<admission, guard, host, lanes, lockOf, disk>>

\* A resource without binding is unknown; one without owner may be terminal.
Peek(r) ==
    /\ pc[r] = "peek" /\ guard = Nobody
    /\ IF req[r].res \notin bound
          THEN Finish(r, "absent")
          ELSE /\ Advance(r, IF table[req[r].res] = NoLane THEN "judge"
                             ELSE IF req[r].op = "compare" THEN "call" ELSE "find")
               /\ UNCHANGED <<admission, guard>>
    /\ UNCHANGED <<table, host, lanes, lockOf, disk>>

\* The terminal journal answers without an owner.
Judge(r) ==
    /\ pc[r] = "judge"
    /\ IF Terminal(req[r].res)
          THEN Finish(r, "terminal")
          ELSE /\ Advance(r, IF req[r].op = "compare" THEN "call" ELSE "find")
               /\ UNCHANGED <<admission, guard>>
    /\ UNCHANGED <<table, host, lanes, lockOf, disk>>

\* With a lane in hand: a creation on its second visit takes the admission
\* mutex before it uses the lane, every other request sends at once.
Equip(r, l) ==
    /\ held' = [held EXCEPT ![r] = l]
    /\ Goto(r, IF req[r].op = "create" /\ Len(left[r]) = 1 THEN "fence" ELSE "send")
    /\ UNCHANGED <<req, left, answer, vanished>>

Find(r) ==
    /\ pc[r] = "find" /\ guard = Nobody
    /\ LET l == table[Target(r)]
       IN  \/ /\ l # NoLane
              /\ Equip(r, l)
              /\ UNCHANGED <<raising, admission, guard>>
           \/ /\ l = NoLane /\ req[r].op # "diagnostics"
              /\ Advance(r, "admit")
              /\ UNCHANGED <<admission, guard>>
           \/ /\ l = NoLane /\ req[r].op = "diagnostics"
              /\ Finish(r, "absent")
    /\ UNCHANGED <<table, host, lanes, lockOf, disk>>

Admit(r) ==
    /\ pc[r] = "admit" /\ admission = Nobody
    /\ IF Closing
          THEN Finish(r, "refused")
          ELSE /\ admission' = r
               /\ Advance(r, "recheck")
               /\ UNCHANGED guard
    /\ UNCHANGED <<table, host, lanes, lockOf, disk>>

\* Another request may have attached the resource in the meantime.
Recheck(r) ==
    /\ pc[r] = "recheck" /\ guard = Nobody
    /\ IF table[Target(r)] # NoLane
          THEN /\ Equip(r, table[Target(r)])
               /\ admission' = Nobody
               /\ UNCHANGED raising
          ELSE /\ Advance(r, "vet")
               /\ UNCHANGED admission
    /\ UNCHANGED <<table, guard, host, lanes, lockOf, disk>>

Full == Cardinality(Owned) >= MaxOwners

\* start_lane: a thread that will recover the owner in the directory, with the
\* creation it prepares there or without one.
StartLane(r, x, by) ==
    /\ lanes' = Append(lanes, [res |-> x, st |-> "starting", queue |-> << >>, by |-> by])
    /\ raising' = [raising EXCEPT ![r] = Len(lanes) + 1]
    /\ Goto(r, "starting")
    /\ UNCHANGED <<req, held, left, answer, vanished, admission, guard>>

\* The tests under the admission mutex, then the attach.  Execute asks for the
\* terminal journal before the capacity, owner() the other way round.
Vet(r) ==
    /\ pc[r] = "vet" /\ guard = Nobody
    /\ LET x == Target(r)
           first == req[r].op \in Executes /\ x = req[r].res
       IN  \/ /\ x \notin bound
              /\ Finish(r, "absent") /\ UNCHANGED lanes
           \/ /\ x \in bound /\ Terminal(x) /\ (first \/ ~Full)
              /\ Finish(r, "terminal") /\ UNCHANGED lanes
           \/ /\ x \in bound /\ Full /\ ~(first /\ Terminal(x))
              /\ Finish(r, "refused") /\ UNCHANGED lanes
           \/ /\ x \in bound /\ ~Terminal(x) /\ ~Full
              /\ StartLane(r, x, Nobody)
    /\ UNCHANGED <<table, host, lockOf, disk>>

\* The start of the lane is over.
Started(r) ==
    /\ pc[r] = "starting"
    /\ \/ /\ lanes[raising[r]].st = "open"
          /\ Advance(r, "insert")
          /\ UNCHANGED <<admission, guard>>
       \/ /\ lanes[raising[r]].st = "gone"
          /\ Finish(r, "recovery")
    /\ UNCHANGED <<table, host, lanes, lockOf, disk>>

\* The new lane enters the table and the admission mutex is released; the
\* creation is answered, an attached lane is used.
Insert(r) ==
    /\ pc[r] = "insert" /\ guard = Nobody
    /\ LET l == raising[r]
       IN  /\ table' = [table EXCEPT ![lanes[l].res] = l]
           /\ IF lanes[l].by = r
                 THEN Finish(r, "ok")
                 ELSE /\ raising' = [raising EXCEPT ![r] = NoLane]
                      /\ Equip(r, l)
                      /\ admission' = Nobody
                      /\ UNCHANGED guard
    /\ UNCHANGED <<host, lanes, lockOf, disk>>

-----------------------------------------------------------------------------
(* Using it.                                                               *)

\* The message of a visit: only the last one of an Execute carries its operation.
MessageOf(r) ==
    IF req[r].op \in {"write", "discard", "materialize"} \/ (req[r].op = "compare" /\ Len(left[r]) = 1)
       THEN req[r].op ELSE "read"

\* try_send: a full or closed queue refuses, an accepted message is answered.
Send(r) ==
    /\ pc[r] = "send"
    /\ LET l == held[r]
       IN  IF Closed(l) \/ Len(lanes[l].queue) >= QueueCapacity
              THEN Finish(r, "refused") /\ UNCHANGED lanes
              ELSE /\ lanes' = [lanes EXCEPT ![l].queue = Append(@, [from |-> r, kind |-> MessageOf(r)])]
                   /\ Advance(r, "wait")
                   /\ UNCHANGED <<admission, guard>>
    /\ UNCHANGED <<table, host, lockOf, disk>>

\* Where a request goes on after a reply: the next visit, the removal of a
\* discarded owner, the publication of a child, or the answer.
AfterReply(r) ==
    LET op == req[r].op
        rest == Tail(left[r])
    IN  CASE op = "detach"                    -> "join"
          [] op = "discard"                   -> "unlist"
          [] op = "create" /\ rest = << >>    -> "prepare"
          [] op = "create" /\ rest # << >>    -> "call"
          [] op = "list" /\ rest # << >>      -> "look"
          [] op \notin {"detach", "discard", "create"} /\ rest = << >> -> "done"
          [] op \in {"verify", "compare"} /\ rest # << >> ->
                IF Head(rest) = Target(r) THEN "send" ELSE "find"

\* A reference is dropped with the visit it was for.
Onward(r, step) ==
    IF step = "done"
       THEN Finish(r, "ok")
       ELSE /\ Goto(r, step)
            /\ left' = [left EXCEPT ![r] = Tail(@)]
            /\ held' = [held EXCEPT ![r] = IF step \in {"call", "look", "find"} THEN NoLane ELSE @]
            /\ UNCHANGED <<req, raising, answer, vanished, admission, guard>>

Continue(r) ==
    /\ pc[r] = "replied"
    /\ IF answer[r] = "terminal" /\ req[r].op # "list"
          THEN Finish(r, "terminal")
          ELSE Onward(r, AfterReply(r))
    /\ UNCHANGED <<table, host, lanes, lockOf, disk>>

\* After a successful discard the owner leaves the table.
Unlist(r) ==
    /\ pc[r] = "unlist" /\ guard = Nobody
    /\ table' = [table EXCEPT ![req[r].res] = NoLane]
    /\ Finish(r, "ok")
    /\ UNCHANGED <<host, lanes, lockOf, disk>>

-----------------------------------------------------------------------------
(* Requests that take the admission mutex first.                           *)

\* creation_outcome before anything else: a known creation is answered again.
Outcome(r) ==
    /\ pc[r] = "outcome"
    /\ IF req[r].other \in bound
          THEN Finish(r, "ok")
          ELSE /\ Advance(r, IF req[r].res = NoResource THEN "fence" ELSE "call")
               /\ UNCHANGED <<admission, guard>>
    /\ UNCHANGED <<table, host, lanes, lockOf, disk>>

\* A listing reads the catalog of active resources once it has the mutex.
Fence(r) ==
    /\ pc[r] = "fence" /\ admission = Nobody
    /\ IF (Closing /\ req[r].op \in {"create", "bind"}) \/ (req[r].op = "list" /\ bound = {})
          THEN Finish(r, IF req[r].op = "list" THEN "ok" ELSE "refused")
          ELSE /\ admission' = r
               /\ left' = [left EXCEPT ![r] = IF req[r].op = "list" THEN SetToSeq(bound) ELSE @]
               /\ Goto(r, CASE req[r].op = "create" -> "settle"
                            [] req[r].op = "list"   -> "look"
                            [] req[r].op = "bind"   -> "publish"
                            [] req[r].op = "detach" -> "grab")
               /\ UNCHANGED <<req, held, raising, answer, vanished, guard>>
    /\ UNCHANGED <<table, host, lanes, lockOf, disk>>

\* create_fork under the mutex: the outcome again, closed lanes, capacity.
Settle(r) ==
    /\ pc[r] = "settle"
    /\ IF req[r].other \in bound
          THEN Finish(r, "ok")
          ELSE /\ Advance(r, "trim")
               /\ UNCHANGED <<admission, guard>>
    /\ UNCHANGED <<table, host, lanes, lockOf, disk>>

Trim(r) ==
    /\ pc[r] = "trim" /\ guard = Nobody
    /\ table' = Pruned
    /\ IF Cardinality({x \in Resources : Pruned[x] # NoLane}) >= MaxOwners
          THEN Finish(r, "refused")
          ELSE /\ Advance(r, IF req[r].res = NoResource THEN "prepare" ELSE "send")
               /\ UNCHANGED <<admission, guard>>
    /\ UNCHANGED <<host, lanes, lockOf, disk>>

\* prepare_bytes and start_lane with the creation: the lane activates it.
PrepareChild(r) ==
    /\ pc[r] = "prepare"
    /\ IF req[r].other \in bound
          THEN Finish(r, "refused") /\ UNCHANGED lanes
          ELSE StartLane(r, req[r].other, r)
    /\ UNCHANGED <<table, host, lockOf, disk>>

\* list_forks: every active fork in turn; without an owner its journal is read.
Look(r) ==
    /\ pc[r] = "look" /\ guard = Nobody
    /\ IF table[Target(r)] # NoLane
          THEN /\ held' = [held EXCEPT ![r] = table[Target(r)]]
               /\ Goto(r, "send")
               /\ UNCHANGED <<req, raising, left, answer, vanished, admission, guard>>
          ELSE Onward(r, AfterReply(r))
    /\ UNCHANGED <<table, host, lanes, lockOf, disk>>

\* Bind: the directory of a new resource becomes active.
Publish(r) ==
    /\ pc[r] = "publish"
    /\ Finish(r, IF req[r].res \in bound THEN "refused" ELSE "ok")
    /\ bound' = bound \cup {req[r].res}
    /\ UNCHANGED <<table, host, lanes, lockOf, journal>>

\* Detach takes the lane out of the table if nobody else holds it; the table
\* stays locked until the lane is gone.
Grab(r) ==
    /\ pc[r] = "grab" /\ guard = Nobody
    /\ LET l == table[req[r].res]
       IN  IF l = NoLane \/ Held(l) # {}
              THEN Finish(r, IF l = NoLane THEN "ok" ELSE "refused") /\ UNCHANGED table
              ELSE /\ table' = [table EXCEPT ![req[r].res] = NoLane]
                   /\ held' = [held EXCEPT ![r] = l]
                   /\ guard' = r
                   /\ Goto(r, "detaching")
                   /\ UNCHANGED <<req, raising, left, answer, vanished, admission>>
    /\ UNCHANGED <<host, lanes, lockOf, disk>>

\* Mutant: a detach goes on waiting for room in a queue that has closed.
SendDetachStubbornly(r) ==
    /\ pc[r] = "detaching"
    /\ ~Closed(held[r]) /\ Len(lanes[held[r]].queue) < QueueCapacity
    /\ lanes' = [lanes EXCEPT ![held[r]].queue = Append(@, [from |-> r, kind |-> "detach"])]
    /\ Advance(r, "wait")
    /\ UNCHANGED <<table, admission, guard, host, lockOf, disk>>

\* send().await waits for room, and gives up when the lane closes.
SendDetach(r) ==
    /\ pc[r] = "detaching"
    /\ LET l == held[r]
       IN  IF Closed(l)
              THEN Advance(r, "join") /\ UNCHANGED lanes
              ELSE /\ Len(lanes[l].queue) < QueueCapacity
                   /\ lanes' = [lanes EXCEPT ![l].queue = Append(@, [from |-> r, kind |-> "detach"])]
                   /\ Advance(r, "wait")
    /\ UNCHANGED <<table, admission, guard, host, lockOf, disk>>

Join(r) ==
    /\ pc[r] = "join" /\ lanes[held[r]].st = "gone"
    /\ Finish(r, "ok")
    /\ UNCHANGED <<table, host, lanes, lockOf, disk>>

Task(r) ==
    \/ Prune(r) \/ Peek(r) \/ Judge(r) \/ Find(r) \/ Admit(r) \/ Recheck(r) \/ Vet(r)
    \/ Started(r) \/ Insert(r) \/ Send(r) \/ Continue(r) \/ Unlist(r)
    \/ Outcome(r) \/ Fence(r) \/ Settle(r) \/ Trim(r) \/ PrepareChild(r)
    \/ Look(r) \/ Publish(r) \/ Grab(r) \/ SendDetach(r) \/ Join(r)

-----------------------------------------------------------------------------
(* A lane thread.                                                          *)

\* Mutant: the owner lock is taken by force.
RecoverWithoutLock(l) ==
    /\ lanes[l].st = "starting"
    /\ lanes' = [lanes EXCEPT ![l].st = "open"]
    /\ lockOf' = [lockOf EXCEPT ![lanes[l].res] = l]
    /\ IF lanes[l].by # Nobody
          THEN /\ bound' = bound \cup {lanes[l].res}
               /\ journal' = [journal EXCEPT ![lanes[l].res] = <<[from |-> lanes[l].by, kind |-> "creation"]>>]
          ELSE UNCHANGED disk
    /\ UNCHANGED <<tasks, table, admission, guard, host>>

\* recover_at takes the owner lock or fails; a creation commits its receipt and
\* activates the directory, lock included, before the lane reports ready.
Recover(l) ==
    /\ lanes[l].st = "starting"
    /\ \/ /\ lockOf[lanes[l].res] = NoLane
          /\ lanes' = [lanes EXCEPT ![l].st = "open"]
          /\ lockOf' = [lockOf EXCEPT ![lanes[l].res] = l]
          /\ IF lanes[l].by # Nobody
                THEN /\ bound' = bound \cup {lanes[l].res}
                     /\ journal' = [journal EXCEPT ![lanes[l].res] =
                                      <<[from |-> lanes[l].by, kind |-> "creation"]>>]
                ELSE UNCHANGED disk
       \/ /\ lockOf[lanes[l].res] # NoLane
          /\ lanes' = [lanes EXCEPT ![l].st = "gone"]
          /\ UNCHANGED <<lockOf, disk>>
    /\ UNCHANGED <<tasks, table, admission, guard, host>>

Reply(m, what) ==
    IF m.from \in Requests /\ pc[m.from] = "wait"
       THEN /\ answer' = [answer EXCEPT ![m.from] = what]
            /\ Goto(m.from, "replied")
            /\ UNCHANGED <<req, held, raising, left, vanished>>
       ELSE UNCHANGED tasks

Unlock(l) == lockOf' = [x \in Resources |-> IF lockOf[x] = l THEN NoLane ELSE lockOf[x]]

\* What happens to the journal and the thread when message m is executed.
Executed(l, m, rest, refuse, drained) ==
    LET x == lanes[l].res
        ends == m.kind = "detach" \/ (m.kind = "discard" /\ ~drained)
        writes == m.kind \in {"write", "discard", "materialize"}
    IN  /\ journal' = IF writes /\ ~(refuse /\ Terminal(x))
                         THEN [journal EXCEPT ![x] = Append(@, m)] ELSE journal
        /\ lanes' = [lanes EXCEPT ![l].queue = rest,
                        ![l].st = IF ends THEN "gone"
                                  ELSE IF m.kind = "discard" \/ (m.kind \in Executes /\ Terminal(x))
                                     THEN "closed" ELSE @]
        /\ IF ends THEN Unlock(l) ELSE UNCHANGED lockOf
        /\ Reply(m, IF Terminal(x) /\ m.kind # "detach" THEN "terminal" ELSE "ok")

\* Mutant: a discard ends the lane instead of draining it.
ServeAndStop(l) ==
    /\ lanes[l].st \in {"open", "closed"} /\ lanes[l].queue # << >>
    /\ Executed(l, Head(lanes[l].queue), Tail(lanes[l].queue), TRUE, FALSE)
    /\ UNCHANGED <<table, admission, guard, host, bound>>

\* Mutant: requests accepted before the discard are executed after it.
ServeDiscarded(l) ==
    /\ lanes[l].st \in {"open", "closed"} /\ lanes[l].queue # << >>
    /\ Executed(l, Head(lanes[l].queue), Tail(lanes[l].queue), FALSE, TRUE)
    /\ UNCHANGED <<table, admission, guard, host, bound>>

\* One message of the queue.  On a discarded resource every operation but the
\* replay of the discard is refused; executing one there closes the queue, and
\* what was accepted before is still drained.  A detach ends the thread.
Serve(l) ==
    /\ lanes[l].st \in {"open", "closed"} /\ lanes[l].queue # << >>
    /\ Executed(l, Head(lanes[l].queue), Tail(lanes[l].queue), TRUE, TRUE)
    /\ UNCHANGED <<table, admission, guard, host, bound>>

\* recv() returns None: the queue is drained and closed, or nobody can send.
Exit(l) ==
    /\ lanes[l].st \in {"open", "closed"} /\ lanes[l].queue = << >>
    /\ lanes[l].st = "closed" \/ Senders(l) = {}
    /\ lanes' = [lanes EXCEPT ![l].st = "gone"]
    /\ Unlock(l)
    /\ UNCHANGED <<tasks, table, admission, guard, host, disk>>

Lane(l) == ~Exited /\ (Recover(l) \/ Serve(l) \/ Exit(l))

-----------------------------------------------------------------------------
(* Shutdown.                                                               *)

BeginShutdown ==
    /\ phase = "serving" /\ "shutdown" \in Offered
    /\ phase' = "draining"
    /\ UNCHANGED <<tasks, table, admission, guard, doomed, parting, lanes, lockOf, disk>>

\* Graceful shutdown of the server waits for the connections it still has.
CloseAdmission ==
    /\ phase = "draining"
    /\ \A r \in Requests : pc[r] \in {"new", "done"} \/ r \in vanished
    /\ phase' = "closing"
    /\ UNCHANGED <<tasks, table, admission, guard, doomed, parting, lanes, lockOf, disk>>

TakeLanes ==
    /\ phase = "closing" /\ admission = Nobody /\ guard = Nobody
    /\ admission' = Host /\ guard' = Host
    /\ doomed' = {table[x] : x \in Owned}
    /\ table' = [x \in Resources |-> NoLane]
    /\ phase' = "detaching"
    /\ UNCHANGED <<tasks, parting, lanes, lockOf, disk>>

\* A lane still referenced by a request makes the shutdown fail.
Part(l) ==
    /\ phase = "detaching" /\ parting = NoLane /\ l \in doomed
    /\ IF Held(l) # {}
          THEN phase' = "failed" /\ UNCHANGED <<doomed, parting, lanes>>
          ELSE IF Closed(l)
             THEN doomed' = doomed \ {l} /\ parting' = l /\ UNCHANGED <<phase, lanes>>
             ELSE /\ Len(lanes[l].queue) < QueueCapacity
                  /\ lanes' = [lanes EXCEPT ![l].queue = Append(@, [from |-> Host, kind |-> "detach"])]
                  /\ doomed' = doomed \ {l} /\ parting' = l
                  /\ UNCHANGED phase
    /\ UNCHANGED <<tasks, table, admission, guard, lockOf, disk>>

Parted ==
    /\ phase = "detaching" /\ parting # NoLane /\ lanes[parting].st = "gone"
    /\ parting' = NoLane
    /\ UNCHANGED <<tasks, table, admission, guard, phase, doomed, lanes, lockOf, disk>>

\* The discovery file is removed and the host lock released.
GoDown ==
    /\ phase = "detaching" /\ doomed = {} /\ parting = NoLane
    /\ phase' = "down"
    /\ UNCHANGED <<tasks, table, admission, guard, doomed, parting, lanes, lockOf, disk>>

Shutdown ==
    \/ CloseAdmission \/ TakeLanes \/ Parted \/ GoDown
    \/ \E l \in doomed : Part(l)

-----------------------------------------------------------------------------
Next ==
    /\ \/ \E r \in Requests :
             \/ \E op \in Offered, x, y \in load.known \cup {NoResource} : Arrive(r, op, x, y)
             \/ Vanish(r)
             \/ ~Exited /\ Task(r)
       \/ \E l \in DOMAIN lanes : Lane(l)
       \/ BeginShutdown
       \/ Shutdown
    /\ UNCHANGED load

\* Tasks and threads are scheduled fairly; clients need not send or shut down.
Spec ==
    /\ Init /\ [][Next]_vars
    /\ \A r \in Requests : WF_vars(~Exited /\ Task(r) /\ UNCHANGED load)
    /\ \A l \in 1..(3 * Cardinality(Requests)) : WF_vars(l \in DOMAIN lanes /\ Lane(l) /\ UNCHANGED load)
    /\ WF_vars(Shutdown /\ UNCHANGED load)

-----------------------------------------------------------------------------
(* Properties.                                                             *)

Live(l) == lanes[l].st \in {"open", "closed"}

\* At most one lane thread has an evaluator on a resource, whatever handlers
\* were dropped while they attached or detached one; and the table never holds
\* more owners than its capacity, although the test and the insertion are
\* separate steps.
OneOwnerPerResource ==
    /\ \A l, m \in DOMAIN lanes :
          Live(l) /\ Live(m) /\ lanes[l].res = lanes[m].res => l = m
    /\ Cardinality(Owned) <= MaxOwners

\* What the queue of a lane accepted is executed: no thread ends with messages
\* left, and no request waits for a reply that cannot come any more (it would be
\* told that its outcome is unknown).
AcceptedIsSettled ==
    /\ \A l \in DOMAIN lanes : lanes[l].st = "gone" => lanes[l].queue = << >>
    /\ \A r \in Requests : pc[r] = "wait" => lanes[held[r]].st # "gone"

\* Nothing is recorded after the discard of a resource, not even by requests
\* accepted before it or by a lane attached while it was being discarded.
DiscardIsLast ==
    \A x \in Resources : \A k \in DOMAIN journal[x] :
        journal[x][k].kind = "discard" => k = Len(journal[x])

-----------------------------------------------------------------------------
(* What these rest on.                                                     *)

\* A task that visits lanes knows where it is going; only operations of
\* several visits have more than one to make.
Visiting == {"prune", "peek", "judge", "call", "find", "admit", "recheck", "vet", "send", "wait",
             "replied", "look", "grab", "detaching"}
Routed(r) ==
    /\ left[r] \in Seq(Resources) /\ left[r] # << >>
    /\ req[r].op \notin {"verify", "compare", "create", "list"} => Len(left[r]) = 1

\* The operations that reach a step.
Fits(r) ==
    LET op == req[r].op
    IN  /\ op = "none" => pc[r] = "new"
        /\ pc[r] \in {"prune", "peek", "judge"} => op \in Executes
        /\ pc[r] \in {"call", "find", "admit", "recheck", "vet", "starting", "insert"} =>
              op \in Executes \cup {"materialize", "verify", "diagnostics", "create"}
        /\ pc[r] \in {"send", "wait", "replied"} => op \notin {"bind", "shutdown"}
        /\ pc[r] \in {"outcome", "settle", "trim", "prepare"} => op = "create"
        /\ pc[r] = "fence" => op \in {"create", "list", "bind", "detach"}
        /\ pc[r] \in {"grab", "detaching", "join"} => op = "detach"
        /\ pc[r] = "look" => op = "list"
        /\ pc[r] = "publish" => op = "bind"
        /\ pc[r] = "unlist" => op = "discard"

TaskStands(r) ==
    /\ Fits(r)
    /\ pc[r] # "new" /\ req[r].op \notin {"create", "list"} => req[r].res \in Resources
    /\ pc[r] # "new" /\ req[r].op = "create" => req[r].other \in Resources
    /\ pc[r] \in Visiting => Routed(r)
    /\ pc[r] \in {"send", "wait", "replied", "detaching", "join"} => held[r] # NoLane
    /\ pc[r] = "fence" /\ req[r].op = "detach" => Routed(r)
    /\ pc[r] = "outcome" /\ req[r].res # NoResource => Routed(r)
    /\ pc[r] \in {"fence", "settle", "trim"} /\ req[r].op = "create" /\ req[r].res # NoResource =>
          Routed(r) /\ Len(left[r]) = 1 /\ held[r] # NoLane
    /\ (raising[r] # NoLane) <=> (pc[r] \in {"starting", "insert"})
    /\ raising[r] # NoLane => Routed(r) \/ lanes[raising[r]].by = r
    /\ pc[r] = "insert" => lanes[raising[r]].st # "starting"
TasksStand == \A r \in Requests : TaskStands(r)

\* The last visit of a creation, to its parent.
LastVisit(r) == pc[r] \in {"send", "wait", "replied"} /\ req[r].op = "create" /\ Len(left[r]) = 1

\* Who holds the admission mutex, and who has room in the table because of it.
Admitted(r) ==
    \/ pc[r] \in {"recheck", "vet", "starting", "insert", "settle", "trim", "prepare", "publish",
                  "look", "grab", "detaching", "join"}
    \/ pc[r] \in {"send", "wait", "replied"} /\ req[r].op \in {"list", "detach"}
    \/ LastVisit(r)
HasRoom(r) == pc[r] \in {"starting", "insert", "prepare"} \/ LastVisit(r)
AdmissionHeld ==
    /\ \A r \in Requests : Admitted(r) => admission = r
    /\ IsFiniteSet(Owned) /\ Cardinality(Owned) <= MaxOwners
    /\ \A r \in Requests : HasRoom(r) => Cardinality(Owned) < MaxOwners

\* A lane with an evaluator holds the owner lock of its resource.
LocksHeld == \A l \in DOMAIN lanes : Live(l) => lockOf[lanes[l].res] = l

\* Once the shutdown has taken the lanes the table stays empty and locked.
HostHolds ==
    IF phase \in {"detaching", "down", "failed"}
       THEN guard = Host /\ Owned = {}
       ELSE doomed = {} /\ parting = NoLane

\* A lane is referred to by the task that starts it, then by the table and the
\* tasks that found it there, and once taken out by a detach, by nobody else.
Unlisted(l) == l \notin doomed /\ \A x \in Resources : table[x] # l
Unraised(l) == \A r \in Requests : raising[r] # l
References ==
    /\ \A x \in Resources : table[x] # NoLane => lanes[table[x]].res = x /\ Unraised(table[x])
    /\ \A l \in doomed : Unraised(l)
    /\ \A r \in Requests : held[r] # NoLane => Unraised(held[r])
    /\ \A l \in DOMAIN lanes : lanes[l].st = "starting" =>
          lanes[l].queue = << >> /\ Unlisted(l) /\ Held(l) = {}
    /\ \A r \in Requests : pc[r] = "detaching" => Unlisted(held[r]) /\ Held(held[r]) = {r}

\* A detach is the last message of a lane: nobody is left who could send one.
DetachIsLast ==
    \A l \in DOMAIN lanes : \A k \in DOMAIN lanes[l].queue :
        lanes[l].queue[k].kind = "detach" =>
            /\ k = Len(lanes[l].queue)
            /\ Unlisted(l) /\ Unraised(l)
            /\ \A r \in Held(l) : pc[r] \in {"wait", "replied", "join"} /\ req[r].op = "detach"

\* A task that waits has its message in the queue of its lane.
WaitersQueued ==
    /\ \A r \in Requests : pc[r] = "wait" =>
          \E k \in DOMAIN lanes[held[r]].queue : lanes[held[r]].queue[k].from = r
    /\ \A l \in DOMAIN lanes : lanes[l].st = "gone" => lanes[l].queue = << >>

HostInv == TypeOK /\ TasksStand /\ AdmissionHeld /\ LocksHeld /\ HostHolds /\ References /\ DetachIsLast
           /\ WaitersQueued /\ DiscardIsLast

-----------------------------------------------------------------------------
\* A lane that keeps its resource locked although nobody can reach it.
Stranded(l) == lanes[l].st = "open" /\ lanes[l].queue = << >> /\ Senders(l) = {}

\* Every request that arrived is answered or its client is gone: neither the
\* table locked across a detach nor two verifications of each other's resource
\* make everyone wait.  And every lane that nobody refers to any more gives its
\* resource back, so that it can be attached again.
EveryRequestEnds ==
    /\ \A r \in Requests : (pc[r] # "new") ~> (pc[r] = "done" \/ Exited)
    /\ \A l \in 1..(3 * Cardinality(Requests)) :
          (l \in DOMAIN lanes /\ Stranded(l)) ~> (Exited \/ (l \in DOMAIN lanes /\ lanes[l].st = "gone"))

=============================================================================
