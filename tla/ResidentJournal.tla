-------------------------- MODULE ResidentJournal --------------------------
(***************************************************************************)
(* `NativeResidentJournal` (core/resident_storage.rs, module native): the  *)
(* file behind one resident session.  Several processes, each with its own *)
(* handle, call `load`, `commit` and `reconcile` on the same file; every   *)
(* system call of a call is a step of its own, any of them may fail, a     *)
(* process may be killed between two of them, and the machine may lose its *)
(* power, which undoes whatever no completed fsync covers.                 *)
(*                                                                         *)
(* The file is its complete lines plus a possible incomplete last line.    *)
(* The byte quota is a quota of lines (MaxLines).  What replay demands of  *)
(* a record beyond its identity and its parent is module ResidentHistory.  *)
(***************************************************************************)
EXTENDS Naturals, Sequences, FiniteSets

CONSTANTS
    Procs,          \* processes that hold a handle on the journal
    Requests,       \* request identities
    Fingerprints,   \* fingerprints of the canonical request
    NoCommit,       \* parent of the first record
    NoProc,         \* nobody holds the lock
    MaxLines,       \* the lifetime quota of the journal
    MaxAttempts,    \* bound: calls of commit
    MaxLosses       \* bound: kills and power losses

ASSUME BoundsAssumption == MaxLines \in Nat /\ MaxAttempts \in Nat /\ MaxLosses \in Nat
ASSUME SentinelAssumption == NoProc \notin Procs /\ NoCommit \notin Nat

VARIABLES
    lines,      \* complete lines every process sees, one record each
    tail,       \* what follows them: "none", "torn", or "cut" (truncated, not yet synced)
    entry,      \* the directory entry: "absent", "visible", "durable"
    synced,     \* how many lines the last completed fsync covers
    lock,       \* holder of the advisory lock on <session>.lock
    pc,         \* per process: the step its call has reached
    call,       \* per process: the call in progress
    loaded,     \* per process: the lines read under the lock
    tip,        \* per process: last commit seen by `load`; the parent of what it prepares
    attempts,   \* commit identities handed out so far
    losses,     \* kills and power losses so far
    tried,      \* observer: per process, the records it tried to commit
    told,       \* observer: answers Committed
    refuted     \* observer: attempts covered by an answer NotFound

disk == <<lines, tail, entry, synced>>
observers == <<tried, told, refuted>>
vars == <<disk, lock, pc, call, loaded, tip, attempts, losses, observers>>

Ids == 1..MaxAttempts

Record == [id : Ids, req : Requests, fp : Fingerprints, parent : Ids \cup {NoCommit}]

NoCall == [op |-> "none"]

Calls ==
    [op : {"commit"}, rec : Record]
        \cup [op : {"reconcile"}, req : Requests, fp : Fingerprints]
        \cup {NoCall}

\* Steps at which the process holds the lock.
Locked == {"decide", "cutsync", "write", "writing", "syncfile", "syncdir", "answer"}

Steps == {"idle", "lock"} \cup Locked

Log == INSTANCE DurableLog WITH
    Records <- Record,
    log <- lines,
    firm <- IF entry = "durable" THEN synced ELSE 0

-----------------------------------------------------------------------------
TypeOK ==
    /\ lines \in Seq(Record)
    /\ tail \in {"none", "torn", "cut"}
    /\ entry \in {"absent", "visible", "durable"}
    /\ synced \in 0..Len(lines)
    /\ lock \in Procs \cup {NoProc}
    /\ pc \in [Procs -> Steps]
    /\ call \in [Procs -> Calls]
    /\ loaded \in [Procs -> Seq(Record)]
    /\ tip \in [Procs -> Ids \cup {NoCommit}]
    /\ attempts \in 0..MaxAttempts
    /\ losses \in 0..MaxLosses
    /\ tried \in [Procs -> SUBSET Record]
    /\ told \subseteq [seq : Nat \ {0}, rec : Record]
    /\ refuted \subseteq Ids

Init ==
    /\ lines = <<>>
    /\ tail = "none"
    /\ entry = "absent"
    /\ synced = 0
    /\ lock = NoProc
    /\ pc = [p \in Procs |-> "idle"]
    /\ call = [p \in Procs |-> NoCall]
    /\ loaded = [p \in Procs |-> <<>>]
    /\ tip = [p \in Procs |-> NoCommit]
    /\ attempts = 0
    /\ losses = 0
    /\ tried = [p \in Procs |-> {}]
    /\ told = {}
    /\ refuted = {}

-----------------------------------------------------------------------------
(* Helpers.                                                                *)

\* Mutant: a line counts as the answer only when the fingerprint agrees too.
MatchesRequestAndFingerprint(s, c) ==
    {i \in DOMAIN s : /\ s[i].req = (IF c.op = "commit" THEN c.rec.req ELSE c.req)
                     /\ s[i].fp = (IF c.op = "commit" THEN c.rec.fp ELSE c.fp)}

Goto(p, step) == pc' = [pc EXCEPT ![p] = step]

\* A call ends: its locals are dropped, and with the lock file its lock.
Return(p) ==
    /\ pc' = [pc EXCEPT ![p] = "idle"]
    /\ call' = [call EXCEPT ![p] = NoCall]
    /\ loaded' = [loaded EXCEPT ![p] = <<>>]
    /\ lock' = IF lock = p THEN NoProc ELSE lock

RequestOf(c) == IF c.op = "commit" THEN c.rec.req ELSE c.req
FingerprintOf(c) == IF c.op = "commit" THEN c.rec.fp ELSE c.fp

\* Positions of the lines that carry the request identity of a call.
Matches(s, c) == {i \in DOMAIN s : s[i].req = RequestOf(c)}

\* The part of PortableHistoryState::replay that is about identities.
Replays(s) == Log!Chained(s) /\ Log!OncePerIdentity(s)

-----------------------------------------------------------------------------
(* Calls.                                                                  *)

\* `load`: no lock, no fsync; the incomplete tail is ignored.
Load(p) ==
    /\ pc[p] = "idle"
    /\ tip[p] # Log!Tip(lines)
    /\ tip' = [tip EXCEPT ![p] = Log!Tip(lines)]
    /\ UNCHANGED <<disk, lock, pc, call, loaded, attempts, losses, observers>>

\* A caller prepares a record on the tip it loaded, with a fresh commit
\* identity, and calls `commit`.
StartCommit(p) ==
    /\ pc[p] = "idle"
    /\ attempts < MaxAttempts
    /\ attempts' = attempts + 1
    /\ \E q \in Requests, f \in Fingerprints :
          LET r == [id |-> attempts + 1, req |-> q, fp |-> f, parent |-> tip[p]]
          IN  /\ call' = [call EXCEPT ![p] = [op |-> "commit", rec |-> r]]
              /\ tried' = [tried EXCEPT ![p] = @ \cup {r}]
    /\ Goto(p, "lock")
    /\ UNCHANGED <<disk, lock, loaded, tip, losses, told, refuted>>

StartReconcile(p) ==
    /\ pc[p] = "idle"
    /\ \E q \in Requests, f \in Fingerprints :
          call' = [call EXCEPT ![p] = [op |-> "reconcile", req |-> q, fp |-> f]]
    /\ Goto(p, "lock")
    /\ UNCHANGED <<disk, lock, loaded, tip, attempts, losses, observers>>

\* Mutant: the lock file is opened but not locked.
LoadWithoutLock(p) ==
    /\ pc[p] = "lock"
    /\ lock' = p
    /\ loaded' = [loaded EXCEPT ![p] = lines]
    /\ Goto(p, "decide")
    /\ UNCHANGED <<disk, call, tip, attempts, losses, observers>>

\* `lock` blocks in flock; then load_envelopes_with_boundary reads the file.
LockAndLoad(p) ==
    /\ pc[p] = "lock"
    /\ lock = NoProc
    /\ lock' = p
    /\ loaded' = [loaded EXCEPT ![p] = lines]
    /\ Goto(p, "decide")
    /\ UNCHANGED <<disk, call, tip, attempts, losses, observers>>

\* The request is new, and every check before the first write passes.
Admits(p) ==
    /\ call[p].op = "commit"
    /\ Matches(loaded[p], call[p]) = {}
    /\ call[p].rec.parent = Log!Tip(loaded[p])
    /\ Replays(Append(loaded[p], call[p].rec))
    /\ Len(loaded[p]) < MaxLines

\* The lines to answer from: an exact retry of `commit`, or a `reconcile`.
AnswersFrom(p) ==
    \/ call[p].op = "reconcile"
    \/ \E i \in Matches(loaded[p], call[p]) : loaded[p][i].fp = FingerprintOf(call[p])

\* Early returns of `commit` before any write: another fingerprint under the
\* same request identity, a lost compare-and-set, replay, the quota.
Refuse(p) ==
    /\ pc[p] = "decide"
    /\ ~Admits(p) /\ ~AnswersFrom(p)
    /\ Return(p)
    /\ UNCHANGED <<disk, tip, attempts, losses, observers>>

\* `commit` of a new request opens (or creates) the file and drops a torn tail.
OpenForAppend(p) ==
    /\ pc[p] = "decide"
    /\ Admits(p)
    /\ entry' = IF entry = "absent" THEN "visible" ELSE entry
    /\ tail' = IF tail = "torn" THEN "cut" ELSE tail
    /\ Goto(p, IF tail = "torn" THEN "cutsync" ELSE "write")
    /\ UNCHANGED <<lines, synced, lock, call, loaded, tip, attempts, losses, observers>>

\* The fsync after that truncation.
SyncCut(p) ==
    /\ pc[p] = "cutsync"
    /\ tail' = "none"
    /\ synced' = Len(lines)
    /\ Goto(p, "write")
    /\ UNCHANGED <<lines, entry, lock, call, loaded, tip, attempts, losses, observers>>

\* writeln! is more than one write: first bytes of the line, then the rest of
\* it with the newline.
WritePart(p) ==
    /\ pc[p] = "write"
    /\ tail' = "torn"
    /\ Goto(p, "writing")
    /\ UNCHANGED <<lines, entry, synced, lock, call, loaded, tip, attempts, losses, observers>>

WriteRest(p) ==
    /\ pc[p] = "writing"
    /\ lines' = Append(lines, call[p].rec)
    /\ tail' = "none"
    /\ Goto(p, "syncfile")
    /\ UNCHANGED <<entry, synced, lock, call, loaded, tip, attempts, losses, observers>>

\* Mutant: an answer from a visible line, without the barriers.
AnswerWithoutBarrier(p) ==
    /\ pc[p] = "decide"
    /\ AnswersFrom(p)
    /\ Goto(p, "answer")
    /\ UNCHANGED <<disk, lock, call, loaded, tip, attempts, losses, observers>>

\* A retry or a `reconcile` opens the file and drops a torn tail; without a
\* file there is nothing to make durable.
OpenForAnswer(p) ==
    /\ pc[p] = "decide"
    /\ AnswersFrom(p)
    /\ IF entry = "absent"
          THEN Goto(p, "answer") /\ UNCHANGED tail
          ELSE Goto(p, "syncfile") /\ tail' = IF tail = "torn" THEN "cut" ELSE tail
    /\ UNCHANGED <<lines, entry, synced, lock, call, loaded, tip, attempts, losses, observers>>

SyncFile(p) ==
    /\ pc[p] = "syncfile"
    /\ synced' = Len(lines)
    /\ tail' = IF tail = "cut" THEN "none" ELSE tail
    /\ Goto(p, "syncdir")
    /\ UNCHANGED <<lines, entry, lock, call, loaded, tip, attempts, losses, observers>>

SyncDirectory(p) ==
    /\ pc[p] = "syncdir"
    /\ entry' = "durable"
    /\ Goto(p, "answer")
    /\ UNCHANGED <<lines, tail, synced, lock, call, loaded, tip, attempts, losses, observers>>

\* `commit` returns the sequence number of its own new record.
AnswerNew(p) ==
    /\ pc[p] = "answer"
    /\ call[p].op = "commit" /\ Matches(loaded[p], call[p]) = {}
    /\ told' = told \cup {[seq |-> Len(loaded[p]) + 1, rec |-> call[p].rec]}
    /\ Return(p)
    /\ UNCHANGED <<disk, tip, attempts, losses, tried, refuted>>

\* A retry or a `reconcile` returns the outcome recorded first.
AnswerExisting(p) ==
    /\ pc[p] = "answer"
    /\ \E i \in Matches(loaded[p], call[p]) :
          /\ loaded[p][i].fp = FingerprintOf(call[p])
          /\ told' = told \cup {[seq |-> i, rec |-> loaded[p][i]]}
    /\ Return(p)
    /\ UNCHANGED <<disk, tip, attempts, losses, tried, refuted>>

\* `reconcile` finds another fingerprint under the request identity.
AnswerMismatch(p) ==
    /\ pc[p] = "answer"
    /\ \E i \in Matches(loaded[p], call[p]) : loaded[p][i].fp # FingerprintOf(call[p])
    /\ Return(p)
    /\ UNCHANGED <<disk, tip, attempts, losses, observers>>

\* `reconcile` finds nothing: the attempts of this process under that request
\* identity had no effect.
AnswerNotFound(p) ==
    /\ pc[p] = "answer"
    /\ call[p].op = "reconcile" /\ Matches(loaded[p], call[p]) = {}
    /\ refuted' = refuted \cup {a.id : a \in {b \in tried[p] : b.req = call[p].req}}
    /\ Return(p)
    /\ UNCHANGED <<disk, tip, attempts, losses, tried, told>>

-----------------------------------------------------------------------------
(* Failures.                                                               *)

\* A system call fails and `?` returns the error: what the call did so far
\* stays in the file, the lock goes with the dropped handle.  At "answer" the
\* lost acknowledgement (fail_after_commit_once).
IoError(p) ==
    /\ pc[p] # "idle"
    /\ Return(p)
    /\ UNCHANGED <<disk, tip, attempts, losses, observers>>

\* The process is killed; the kernel keeps the file and drops the lock.
Kill(p) ==
    /\ losses < MaxLosses
    /\ pc[p] # "idle"
    /\ losses' = losses + 1
    /\ tip' = [tip EXCEPT ![p] = NoCommit]
    /\ Return(p)
    /\ UNCHANGED <<disk, attempts, observers>>

\* The machine stops.  An entry that was never synced may be gone with the
\* file; of the lines after the last fsync a prefix is left, the next one
\* perhaps in part; a truncation that was not synced may be undone.
PowerLoss ==
    /\ losses < MaxLosses
    /\ losses' = losses + 1
    /\ \/ /\ entry = "visible"
          /\ entry' = "absent"
          /\ lines' = <<>> /\ tail' = "none" /\ synced' = 0
       \/ /\ entry # "absent"
          /\ entry' = "durable"
          /\ \E n \in synced..Len(lines) :
                /\ lines' = SubSeq(lines, 1, n)
                /\ synced' = n
                /\ tail' \in IF n < Len(lines) \/ tail # "none"
                                THEN {"none", "torn"} ELSE {"none"}
    /\ lock' = NoProc
    /\ pc' = [p \in Procs |-> "idle"]
    /\ call' = [p \in Procs |-> NoCall]
    /\ loaded' = [p \in Procs |-> <<>>]
    /\ tip' = [p \in Procs |-> NoCommit]
    /\ UNCHANGED <<attempts, observers>>

-----------------------------------------------------------------------------
Call(p) ==
    \/ LockAndLoad(p) \/ Refuse(p)
    \/ OpenForAppend(p) \/ SyncCut(p) \/ WritePart(p) \/ WriteRest(p)
    \/ OpenForAnswer(p) \/ SyncFile(p) \/ SyncDirectory(p)
    \/ AnswerNew(p) \/ AnswerExisting(p) \/ AnswerMismatch(p) \/ AnswerNotFound(p)

Next ==
    \/ \E p \in Procs :
          \/ Load(p) \/ StartCommit(p) \/ StartReconcile(p)
          \/ Call(p) \/ IoError(p) \/ Kill(p)
    \/ PowerLoss

Spec == Init /\ [][Next]_vars

-----------------------------------------------------------------------------
(* Properties.                                                             *)

\* Whoever got Committed from `commit` or `reconcile` can rely on it: that
\* record stays at that sequence number through every later error, kill and
\* power loss (both barriers come before the answer).
AcknowledgedSurvives == Log!ToldIsKept

\* NotFound from `reconcile` settles an unknown outcome: no earlier attempt of
\* that process under the request identity is in the file then or later, so
\* the caller may go on as if it had never called `commit`.
NotFoundIsFinal == Log!RefutedStaysOut

\* One request identity is acknowledged with one commit and one sequence
\* number for ever: retries, after whatever failure and from whatever process,
\* get the outcome that was recorded first.
OneOutcomePerRequest ==
    \A t, u \in told : t.rec.req = u.rec.req => t = u

\* The journal is the log an owner relies on: single chain, one record per
\* identity, answers only about what survives.
ImplementsDurableLog == Log!Spec

\* Every call comes back, with an answer or an error: no path leaves the lock
\* held and the other processes waiting on it.
CallsReturn == \A p \in Procs : pc[p] # "idle" ~> pc[p] = "idle"

-----------------------------------------------------------------------------
(* Why it works: the inductive invariant of the proofs.                     *)

\* The process past flock is the one holder of the lock.
LockHeldByOne == \A p \in Procs : pc[p] \in Locked <=> lock = p

\* Commit identities are handed out once; the lines are attempts of somebody,
\* and an attempt in progress is not one that was answered NotFound.
IdentitiesFresh ==
    /\ \A p \in Procs : \A a \in tried[p] : a.id <= attempts
    /\ \A p, q \in Procs : \A a \in tried[p], b \in tried[q] : a.id = b.id => p = q /\ a = b
    /\ \A p \in Procs : call[p].op = "commit" =>
          call[p].rec \in tried[p] /\ call[p].rec.id \notin refuted
    /\ \A i \in DOMAIN lines : \E p \in Procs : lines[i] \in tried[p]
    /\ \A x \in refuted : x <= attempts

\* The call answers from the lines it loaded, which are still those of the file.
FoundByLoad(p) == AnswersFrom(p) /\ loaded[p] = lines

\* The call wrote the one line that follows those it loaded.
WrittenByCall(p) ==
    /\ call[p].op = "commit"
    /\ Matches(loaded[p], call[p]) = {}
    /\ lines = Append(loaded[p], call[p].rec)

\* What a call that holds the lock knows of the file: the lines it loaded are
\* those of the file, up to its own record, and no answer is given before what
\* it rests on is on disk.
View(p) ==
    /\ pc[p] # "idle" => call[p].op \in {"commit", "reconcile"}
    /\ pc[p] \in {"decide", "cutsync", "write", "writing"} => loaded[p] = lines
    /\ pc[p] \in {"cutsync", "write", "writing"} => Admits(p)
    /\ pc[p] \in {"syncfile", "syncdir", "answer"} => FoundByLoad(p) \/ WrittenByCall(p)
    /\ pc[p] \in {"cutsync", "write", "writing", "syncfile", "syncdir"} => entry # "absent"
    /\ pc[p] \in {"syncdir", "answer"} => synced = Len(lines)
    /\ pc[p] = "answer" => entry = "durable" \/ lines = <<>>

ViewIsExact ==
    /\ entry = "absent" => lines = <<>>
    /\ \A p \in Procs : View(p)

JournalInv == LockHeldByOne /\ IdentitiesFresh /\ ViewIsExact

=============================================================================
