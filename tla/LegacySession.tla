--------------------------- MODULE LegacySession ---------------------------
(***************************************************************************)
(* A session of the legacy store (core/session_store.rs, core/binlog.rs):  *)
(* a directory with an append-only event log and three pointer files, HEAD,*)
(* CURRENT_BRANCH and branches.json, used by several processes.  append    *)
(* holds the session's lock; undo, redo, checkout, switch_branch and       *)
(* create_branch do not take it.  fs::write empties a file before it fills *)
(* it, so each pointer is written in two steps, and a process may be       *)
(* killed between any two.                                                 *)
(*                                                                         *)
(* Imported is import_legacy_session (canonical_write.rs): the stream of   *)
(* commit records made from a frozen session, which ResidentHistory        *)
(* replays.                                                                *)
(***************************************************************************)
EXTENDS Naturals, Sequences, FiniteSets, SequencesExt

CONSTANTS
    Tasks,      \* processes that use the session
    Workloads,  \* the mixes of calls, branch names (numbers) and bounds considered
    Main        \* the branch "main"

VARIABLES
    load,       \* the workload of this behaviour
    log,        \* events.jsonl: events in the order they were appended
    torn,       \* its last line is incomplete
    head,       \* HEAD: an event, or None when empty (the base)
    current,    \* CURRENT_BRANCH, or None when empty
    branches,   \* branches.json: name -> tip; empty while it is written
    lock,       \* holder of locks/session.lock, or None
    frozen,     \* resident-import-frozen.json exists
    task,       \* per task: where it is and what it holds
    kills

session == <<log, torn, head, current, branches>>
vars == <<load, session, lock, frozen, task, kills>>

Offered == load.offered     \* the calls the processes make
Names == load.names         \* branch names, numbers: ordered like the strings
MaxEvents == load.events    \* bound on the events logged
MaxKills == load.kills      \* bound on the processes killed

None == 0
Idle == [pc |-> "idle", call |-> "none", id |-> None, parent |-> None, prev |-> None,
         tips |-> << >>]
Unreadable == << >>

Init ==
    /\ load \in Workloads
    /\ log = << >> /\ torn = FALSE /\ head = None /\ current = Main
    /\ branches = [b \in {Main} |-> None]
    /\ lock = None /\ frozen = FALSE /\ kills = 0
    /\ task = [t \in Tasks |-> Idle]

----------------------------------------------------------------------------
(* Reading the log. *)

Ids == {log[i].id : i \in DOMAIN log}
Event(e) == log[CHOOSE i \in DOMAIN log : log[i].id = e]

\* From the base to e, oldest first
Ancestry(e) ==
    LET path[x \in Ids \cup {None}] ==
            IF x = None THEN << >> ELSE Append(path[Event(x).parent], x)
    IN  path[e]

Chained(s) == \A i \in DOMAIN s : s[i].prev = IF i = 1 THEN None ELSE s[i - 1].id

\* What read_events insists on before it returns anything
Sound ==
    /\ ~torn /\ branches # Unreadable
    /\ Chained(log)
    /\ \A i \in DOMAIN log : log[i].parent \in Ids \cup {None}
    /\ head \in Ids \cup {None}
    /\ \A b \in DOMAIN branches : branches[b] \in Ids \cup {None}

\* The events some branch or HEAD reaches
Tips == {head} \cup {branches[b] : b \in DOMAIN branches}
Committed == UNION {ToSet(Ancestry(e)) : e \in Tips}
ReadEvents == SelectSeq(log, LAMBDA e : e.id \in Committed)
Returned == {i \in DOMAIN log : log[i].id \in Committed}     \* their places in the log

----------------------------------------------------------------------------
(* Tasks.  A call that fails returns and leaves the files as they are.     *)

Working == {t \in Tasks : task[t].pc # "idle"}
Free(t) == task[t].pc = "idle" /\ ~frozen /\ Cardinality(Working) < load.processes
Begin(t, rec) == rec.call \in Offered /\ task' = [task EXCEPT ![t] = rec]
Move(t, pc) == task' = [task EXCEPT ![t].pc = pc]
Return(t) == task' = [task EXCEPT ![t] = Idle]
Unlocked(t) == lock' = IF lock = t THEN None ELSE lock

\* append_event: the lock, the compare of the parent with HEAD.  A client
\* names the parent it read earlier: any event it knows, or the base.
Lock(t) ==
    /\ Free(t) /\ lock = None /\ Len(log) < MaxEvents
    /\ \E parent \in Ids \cup {None} :
          /\ head = parent
          /\ Begin(t, [Idle EXCEPT !.pc = "seal", !.call = "append", !.parent = parent])
    /\ lock' = t
    /\ UNCHANGED <<session, frozen, kills>>

\* The hash of the tip, unless HEAD was empty: then none, whatever the log has
Seal(t) ==
    /\ task[t].pc = "seal"
    /\ IF task[t].parent = None THEN Move(t, "line") /\ UNCHANGED lock
       ELSE IF torn THEN Return(t) /\ Unlocked(t)
       ELSE task' = [task EXCEPT ![t].pc = "line", ![t].prev = Last(log).id] /\ UNCHANGED lock
    /\ UNCHANGED <<session, frozen, kills>>

\* The event's preconditions do not hold on the materialized workbook
Precondition(t) ==
    /\ task[t].pc = "seal"
    /\ Return(t) /\ Unlocked(t)
    /\ UNCHANGED <<session, frozen, kills>>

\* Mutant: HEAD is advanced before the event is in the log.
LineAfterHead(t) ==
    /\ task[t].pc = "line"
    /\ task' = [task EXCEPT ![t].pc = "write_head", ![t].id = Len(log) + 1]
    /\ head' = Len(log) + 1
    /\ UNCHANGED <<log, torn, current, branches, lock, frozen, kills>>

\* BinlogWriter::append: one line, synced; behind a torn line it is lost in it
Line(t) ==
    /\ task[t].pc = "line"
    /\ log' = IF torn THEN log
              ELSE Append(log, [id |-> Len(log) + 1, parent |-> task[t].parent, prev |-> task[t].prev])
    /\ task' = [task EXCEPT ![t].pc = "empty_head", ![t].id = Len(log) + 1]
    /\ UNCHANGED <<torn, head, current, branches, lock, frozen, kills>>

\* write_head, clear_head
EmptyHead(t) ==
    /\ task[t].pc = "empty_head"
    /\ head' = None
    /\ Move(t, "write_head")
    /\ UNCHANGED <<log, torn, current, branches, lock, frozen, kills>>

WriteHead(t) ==
    /\ task[t].pc = "write_head"
    /\ head' = task[t].id
    /\ IF task[t].call = "append" THEN Move(t, "load") ELSE Return(t)
    /\ UNCHANGED <<log, torn, current, branches, lock, frozen, kills>>

\* The tip of the current branch: load branches.json, change it, save it
Load(t) ==
    /\ task[t].pc = "load"
    /\ IF branches = Unreadable THEN Return(t) /\ Unlocked(t)
       ELSE /\ task' = [task EXCEPT ![t].pc = "empty_branches",
                          ![t].tips = IF current \in DOMAIN branches
                                      THEN [branches EXCEPT ![current] = task[t].id] ELSE branches]
            /\ UNCHANGED lock
    /\ UNCHANGED <<session, frozen, kills>>

EmptyBranches(t) ==
    /\ task[t].pc = "empty_branches"
    /\ branches' = Unreadable
    /\ Move(t, "write_branches")
    /\ UNCHANGED <<log, torn, head, current, lock, frozen, kills>>

WriteBranches(t) ==
    /\ task[t].pc = "write_branches"
    /\ branches' = task[t].tips
    /\ Return(t) /\ Unlocked(t)
    /\ UNCHANGED <<log, torn, head, current, frozen, kills>>

\* create_branch: load, then save, without the lock; clients name a fork point
\* they have read, which the store does not check
CreateBranch(t) ==
    /\ Free(t) /\ branches # Unreadable
    /\ \E b \in Names \ DOMAIN branches, point \in Ids \cup {None} :
          Begin(t, [Idle EXCEPT !.pc = "empty_branches", !.call = "create_branch",
                                !.tips = [n \in DOMAIN branches \cup {b} |->
                                            IF n = b THEN point ELSE branches[n]]])
    /\ UNCHANGED <<session, lock, frozen, kills>>

\* switch_branch: CURRENT_BRANCH, then HEAD to the tip that was loaded
SwitchBranch(t) ==
    /\ Free(t) /\ branches # Unreadable
    /\ \E b \in DOMAIN branches :
          Begin(t, [Idle EXCEPT !.pc = "empty_current", !.call = "switch_branch", !.parent = b,
                                !.id = branches[b]])
    /\ UNCHANGED <<session, lock, frozen, kills>>

EmptyCurrent(t) ==
    /\ task[t].pc = "empty_current"
    /\ current' = None
    /\ Move(t, "write_current")
    /\ UNCHANGED <<log, torn, head, branches, lock, frozen, kills>>

WriteCurrent(t) ==
    /\ task[t].pc = "write_current"
    /\ current' = task[t].parent
    /\ Move(t, "empty_head")
    /\ UNCHANGED <<log, torn, head, branches, lock, frozen, kills>>

\* undo: HEAD, then the events, then the parent of what HEAD was
Undo(t) ==
    /\ Free(t) /\ Sound /\ head # None
    /\ Begin(t, [Idle EXCEPT !.pc = "empty_head", !.call = "undo", !.id = Event(head).parent])
    /\ UNCHANGED <<session, lock, frozen, kills>>

\* redo: the first event in the log whose parent is HEAD, or the first of all
RedoTarget ==
    LET next == {i \in Returned : head = None \/ log[i].parent = head}
    IN  IF next = {} THEN None ELSE log[Min(next)].id
Redo(t) ==
    /\ Free(t) /\ Sound /\ RedoTarget # None
    /\ Begin(t, [Idle EXCEPT !.pc = "empty_head", !.call = "redo", !.id = RedoTarget])
    /\ UNCHANGED <<session, lock, frozen, kills>>

Checkout(t) ==
    /\ Free(t) /\ Sound
    /\ \E i \in Returned :
          Begin(t, [Idle EXCEPT !.pc = "empty_head", !.call = "checkout", !.id = log[i].id])
    /\ UNCHANGED <<session, lock, frozen, kills>>

\* A killed process leaves its lock to the operating system, and what it was
\* writing as it is; a line may be cut short
Kill(t) ==
    /\ kills < MaxKills /\ task[t].pc # "idle"
    /\ kills' = kills + 1
    /\ Return(t) /\ Unlocked(t)
    /\ torn' \in IF task[t].pc = "line" THEN {torn, TRUE} ELSE {torn}
    /\ UNCHANGED <<log, head, current, branches, frozen>>

\* The host freezes a copy made while every writer was kept out
Freeze ==
    /\ "freeze" \in Offered /\ ~frozen /\ \A t \in Tasks : task[t].pc = "idle"
    /\ frozen' = TRUE
    /\ UNCHANGED <<session, lock, task, kills>>

Next ==
    /\ \/ \E t \in Tasks :
             \/ Lock(t) \/ Seal(t) \/ Precondition(t) \/ Line(t) \/ EmptyHead(t) \/ WriteHead(t)
             \/ Load(t) \/ EmptyBranches(t) \/ WriteBranches(t)
             \/ CreateBranch(t) \/ SwitchBranch(t) \/ EmptyCurrent(t) \/ WriteCurrent(t)
             \/ Undo(t) \/ Redo(t) \/ Checkout(t) \/ Kill(t)
       \/ Freeze
    /\ UNCHANGED load

Spec == Init /\ [][Next]_vars

----------------------------------------------------------------------------
(* The import: main's events first, then those of the other branches in    *)
(* the order of their names; control records carry the moves in between.   *)

H == INSTANCE ResidentHistory WITH NoCommit <- None, NoRevision <- [doc |-> 0, state |-> 0, epoch |-> 0]

\* The events of a path that are not in s yet, behind s
Extended(s, path) == s \o SelectSeq(path, LAMBDA e : e \notin ToSet(s))
Others == SetToSortSeq(DOMAIN branches \ {Main}, <)
Ordered == FoldLeft(LAMBDA s, b : Extended(s, Ancestry(branches[b])), Ancestry(branches[Main]), Others)

\* The refusals of import_legacy_session
Importable ==
    /\ frozen /\ Sound /\ Chained(ReadEvents)
    /\ current \in DOMAIN branches
    /\ Len(Ordered) = Len(ReadEvents)

\* The branch an event is imported on
OwnerOf(e) ==
    LET owners == {b \in DOMAIN branches \ {Main} : e \in ToSet(Ancestry(branches[b]))}
    IN  IF e \in ToSet(Ancestry(branches[Main])) THEN Main
        ELSE CHOOSE b \in owners : \A c \in owners : b <= c

\* What the import has made so far
Start == [records |-> << >>, branch |-> Main, head |-> None, tips |-> [b \in {Main} |-> None],
          rev |-> [epoch |-> 1, doc |-> 0, state |-> 0]]
TipOf(s) == IF s = << >> THEN None ELSE Last(s).id
HeadOf(s) == IF s = << >> THEN None ELSE Last(s).head
Stamp(rev, doc) == [rev EXCEPT !.doc = @ + (IF doc THEN 1 ELSE 0), !.state = @ + 1]

\* append_control: a record without a document
Control(st, kind, item, target) ==
    LET rev == Stamp(st.rev, \/ kind \in {"Undo", "Checkout"}
                             \/ kind = "BranchSwitch" /\ HeadOf(st.records) # st.head)
        r == [id |-> 100 + rev.state, parent |-> TipOf(st.records), hparent |-> None,
              kind |-> kind, item |-> item, target |-> target, req |-> 100 + rev.state,
              publishes |-> FALSE, preserve |-> FALSE, before |-> st.rev,
              head |-> st.head, branch |-> st.branch, branches |-> st.tips, gen |-> 0, rev |-> rev]
    IN  [st EXCEPT !.records = Append(@, r), !.rev = rev]

GotoHead(st, e, kind) == IF st.head = e THEN st ELSE Control([st EXCEPT !.head = e], kind, None, e)
MakeBranch(st, b, tip) ==
    IF b \in DOMAIN st.tips THEN st
    ELSE Control([st EXCEPT !.tips = H!Put(@, b, tip)], "BranchCreate", b, st.head)
SwitchTo(st, b) ==
    IF b = st.branch THEN st
    ELSE Control([st EXCEPT !.branch = b, !.head = st.tips[b]], "BranchSwitch", b, None)

\* One event: to its branch, made at its parent, and its snapshot as a mutation
ImportEvent(st, e) ==
    LET parent == Event(e).parent
        on == IF OwnerOf(e) = st.branch THEN st
              ELSE SwitchTo(MakeBranch(GotoHead(st, parent, "Checkout"), OwnerOf(e), parent), OwnerOf(e))
        rev == Stamp(on.rev, TRUE)
        tips == H!Put(on.tips, on.branch, e)
        r == [id |-> e, parent |-> TipOf(on.records), hparent |-> parent,
              kind |-> "Mutation", item |-> None, target |-> None, req |-> e,
              publishes |-> TRUE, preserve |-> FALSE, before |-> on.rev,
              head |-> e, branch |-> on.branch, branches |-> tips, gen |-> 0, rev |-> rev]
    IN  [on EXCEPT !.records = Append(@, r), !.rev = rev, !.tips = tips, !.head = e]

\* Branches without events of their own, then the selected branch, then HEAD
ImportAlias(st, b) == IF b \in DOMAIN st.tips THEN st
                      ELSE MakeBranch(GotoHead(st, branches[b], "Checkout"), b, branches[b])
Selected(st) ==
    LET on == SwitchTo(st, current)
        undone == on.head # None /\ Event(on.head).parent = head
    IN  GotoHead(on, head, IF undone THEN "Undo" ELSE "Checkout")

Imported ==
    LET events == FoldLeft(ImportEvent, Start, Ordered)
        aliases == FoldLeft(ImportAlias, events, Others)
    IN  Selected(aliases).records

\* The history the stream stands for, as ResidentHistory computes it
Replayed(s) == FoldLeft(LAMBDA h, r : H!After(h, r), H!Empty, s)
ReplayAccepts(s) ==
    \A i \in DOMAIN s : H!Accepts(Replayed(SubSeq(s, 1, i - 1)), s[i])

----------------------------------------------------------------------------
(* Properties. *)

\* The log holds together, whoever is killed where.  HEAD and the tips name
\* logged events, since the line is in the log before a pointer names it; every
\* event's parent comes before it; an event that is not rooted at the base
\* carries the hash of the line before it (append_event seals under the lock).
\* One that is rooted at the base carries none, also behind other lines, and
\* read_events asks for the hash in every line: it refuses a session whose log and
\* branches are complete exactly when an event other than the first is rooted at
\* the base, which an undo to the base and an append leave behind.
LogHoldsTogether ==
    /\ ~torn => /\ Tips \subseteq Ids \cup {None}
                /\ \A i \in DOMAIN log : log[i].parent < log[i].id
    /\ \A i \in 2..Len(log) : log[i].parent # None => log[i].prev = log[i - 1].id
    /\ ~torn /\ branches # Unreadable =>
          (Sound <=> \A i \in 2..Len(log) : log[i].parent # None)

\* A frozen session that the import accepts becomes a stream that replays to
\* the same HEAD, selected branch, branch tips and parents
\* (import_legacy_session, PortableHistoryState::replay).
ImportIsFaithful ==
    Importable =>
        LET s == Imported
            h == Replayed(s)
        IN  /\ ReplayAccepts(s)
            /\ h.head = head /\ h.branch = current /\ h.branches = branches
            /\ h.parents = [e \in Committed |-> Event(e).parent]

----------------------------------------------------------------------------
(* Why the log holds together: the inductive invariant of the proofs.      *)

Places == 0..Len(log)       \* the base and the events
Tables == UNION {[S -> Nat] : S \in SUBSET Nat}
Events == [id : Nat, parent : Nat, prev : Nat]
Stages == {"idle", "seal", "line", "empty_head", "write_head", "load", "empty_branches",
           "write_branches", "empty_current", "write_current"}
Kinds == {"none", "append", "create_branch", "switch_branch", "undo", "redo", "checkout"}
TaskStates == [pc : Stages, call : Kinds, id : Nat, parent : Nat, prev : Nat, tips : Tables]

LegacyTypes ==
    /\ load \in Workloads /\ log \in Seq(Events) /\ torn \in BOOLEAN /\ head \in Nat /\ branches \in Tables
    /\ lock \in Tasks \cup {None} /\ task \in [Tasks -> TaskStates]

\* An event is known by its place, and sealed against the line before it, or
\* against none when it is rooted at the base
LogOrdered ==
    \A i \in DOMAIN log :
        /\ log[i].id = i /\ log[i].parent < i
        /\ i # 1 /\ log[i].parent # None => log[i].prev = i - 1
        /\ log[i].parent = None => log[i].prev = None

\* Whoever is about to append holds the lock, and what it read still stands
Sealing ==
    \A t \in Tasks :
        /\ task[t].pc \in {"seal", "line"} => lock = t /\ task[t].parent \in Places
        /\ task[t].pc = "line" /\ task[t].parent # None => task[t].prev = Len(log)
        /\ task[t].pc = "seal" \/ (task[t].pc = "line" /\ task[t].parent = None) => task[t].prev = None

\* No pointer, and none on its way to a file, is ahead of the log
PointersFollow ==
    ~torn =>
        /\ head \in Places /\ \A b \in DOMAIN branches : branches[b] \in Places
        /\ \A t \in Tasks :
              task[t].id \in Places /\ \A b \in DOMAIN task[t].tips : task[t].tips[b] \in Places

LegacyInv == LegacyTypes /\ LogOrdered /\ Sealing /\ PointersFollow
=============================================================================
