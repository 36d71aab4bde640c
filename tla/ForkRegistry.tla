---------------------------- MODULE ForkRegistry ----------------------------
(***************************************************************************)
(* The registry of forks (fork.rs): a mutex around the table of forks and  *)
(* one around each ForkContext.  A call takes a handle out of the table,   *)
(* lets the table go and locks the context, so a fork may be discarded or  *)
(* expire between the two; a discard holds the context while it takes the  *)
(* table again; a snapshot of several forks holds all their contexts.      *)
(***************************************************************************)
EXTENDS Naturals, Sequences, FiniteSets, SequencesExt

CONSTANTS
    ForkIds,        \* fork identifiers, numbers: sorted like the strings
    Callers,        \* concurrent calls
    Workloads,      \* the forks present at the start and what each call does
    MaxForks,       \* config.max_forks
    Nobody

ASSUME RegistryAssumption ==
    /\ Nobody \notin Callers /\ MaxForks \in Nat
    /\ \A w \in Workloads :
          /\ w.existing \subseteq ForkIds /\ IsFiniteSet(w.existing) /\ Cardinality(w.existing) <= MaxForks
          /\ w.wanted \in [Callers -> {"use", "snapshot", "discard", "create"}]

VARIABLES
    table,      \* forks in the table
    discarded,  \* contexts marked discarded
    files,      \* work files on disk
    changes,    \* per fork: changes made to its context
    lock,       \* per fork: holder of its context's mutex
    pc, want, targets, held, outcome

disk == <<files, changes>>
calls == <<pc, want, targets, held, outcome>>
vars == <<table, discarded, disk, lock, calls>>

Init ==
    /\ \E w \in Workloads :
          /\ table = w.existing
          /\ want = w.wanted
    /\ files = table /\ discarded = {}
    /\ changes = [f \in ForkIds |-> 0]
    /\ lock = [f \in ForkIds |-> Nobody]
    /\ pc = [c \in Callers |-> "start"]
    /\ targets = [c \in Callers |-> << >>] /\ held = [c \in Callers |-> {}]
    /\ outcome = [c \in Callers |-> "none"]

Goto(c, l) == pc' = [pc EXCEPT ![c] = l]
Return(c, o) == Goto(c, "done") /\ outcome' = [outcome EXCEPT ![c] = o]

Sorted(fs) == SetToSortSeq(fs, <)

\* get_fork, with_fork_mut, discard_fork, snapshot_forks, evict_expired:
\* which forks the call is about; a snapshot sorts and deduplicates its request
Begin(c) ==
    /\ pc[c] = "start" /\ want[c] # "create"
    /\ \E fs \in {S \in SUBSET ForkIds : S # {}} :
          /\ want[c] # "snapshot" => Cardinality(fs) = 1
          /\ targets' = [targets EXCEPT ![c] = Sorted(fs)]
    /\ Goto(c, "handles")
    /\ UNCHANGED <<table, discarded, disk, lock, want, held, outcome>>

\* The handles are taken under the table's mutex
Handles(c) ==
    /\ pc[c] = "handles"
    /\ IF ToSet(targets[c]) \subseteq table
       THEN Goto(c, "lock") /\ UNCHANGED outcome
       ELSE Return(c, "not_found")
    /\ UNCHANGED <<table, discarded, disk, lock, want, targets, held>>

\* handle.lock(), one context after the other
Remaining(c) == {k \in DOMAIN targets[c] : targets[c][k] \notin held[c]}
LockContext(c) ==
    /\ pc[c] = "lock"
    /\ \E k \in Remaining(c) :
          LET f == targets[c][k]
          IN  /\ \A j \in Remaining(c) : k <= j
              /\ lock[f] = Nobody
              /\ lock' = [lock EXCEPT ![f] = c]
              /\ held' = [held EXCEPT ![c] = @ \cup {f}]
    /\ UNCHANGED <<table, discarded, disk, pc, want, targets, outcome>>

\* Mutant: a call that returns keeps the contexts locked.
ReleaseNothing(c) == held' = [held EXCEPT ![c] = {}] /\ UNCHANGED lock

Release(c) ==
    /\ lock' = [f \in ForkIds |-> IF f \in held[c] THEN Nobody ELSE lock[f]]
    /\ held' = [held EXCEPT ![c] = {}]

\* Mutant: the context is used without a look at its mark.
UseUnmarked(c) ==
    /\ pc[c] = "lock" /\ Remaining(c) = {} /\ want[c] # "discard"
    /\ changes' = [f \in ForkIds |-> changes[f] + IF f \in held[c] THEN 1 ELSE 0]
    /\ Return(c, "ok") /\ Release(c)
    /\ UNCHANGED <<table, discarded, files, want, targets>>

\* The closure of with_fork_mut, or the copies of a snapshot: a context that
\* was discarded meanwhile counts as not found
Use(c) ==
    /\ pc[c] = "lock" /\ Remaining(c) = {} /\ want[c] # "discard"
    /\ IF held[c] \cap discarded # {}
       THEN Return(c, "not_found") /\ UNCHANGED changes
       ELSE /\ Return(c, "ok")
            /\ changes' = [f \in ForkIds |-> changes[f] + IF f \in held[c] THEN 1 ELSE 0]
    /\ Release(c)
    /\ UNCHANGED <<table, discarded, files, want, targets>>

\* Mark, take the table again while the context is held, remove the files;
\* a context that is marked already expired or was discarded by another call
Mark(c) ==
    /\ pc[c] = "lock" /\ Remaining(c) = {} /\ want[c] = "discard"
    /\ IF held[c] \subseteq discarded
       THEN Return(c, "not_found") /\ Release(c) /\ UNCHANGED discarded
       ELSE Goto(c, "remove") /\ discarded' = discarded \cup held[c] /\ UNCHANGED <<lock, held, outcome>>
    /\ UNCHANGED <<table, disk, want, targets>>

Forget(c) ==
    /\ pc[c] = "remove"
    /\ table' = table \ held[c]
    /\ Goto(c, "cleanup")
    /\ UNCHANGED <<discarded, disk, lock, want, targets, held, outcome>>

Cleanup(c) ==
    /\ pc[c] = "cleanup"
    /\ files' = files \ held[c]
    /\ Return(c, "ok") /\ Release(c)
    /\ UNCHANGED <<table, discarded, changes, want, targets>>

\* create_fork: a first look at the capacity, the checks of the base file and a
\* fresh identifier, either of which may fail, then the copy without any lock
Admit(c) ==
    /\ pc[c] = "start" /\ want[c] = "create"
    /\ IF Cardinality(table) >= MaxForks THEN Return(c, "full") /\ UNCHANGED targets
       ELSE \/ Return(c, "failed") /\ UNCHANGED targets
            \/ \E f \in ForkIds \ (table \cup files \cup discarded) :
                  /\ \A d \in Callers \ {c} : want[d] = "create" => f \notin ToSet(targets[d])
                  /\ targets' = [targets EXCEPT ![c] = <<f>>]
                  /\ Goto(c, "copy") /\ UNCHANGED outcome
    /\ UNCHANGED <<table, discarded, disk, lock, want, held>>

\* fs::copy: a failure may leave the work file, or a part of it
Copy(c) ==
    /\ pc[c] = "copy"
    /\ \/ /\ files' = files \cup ToSet(targets[c])
          /\ Goto(c, "insert") /\ UNCHANGED outcome
       \/ /\ \E left \in SUBSET ToSet(targets[c]) : files' = files \cup left
          /\ Return(c, "failed")
    /\ UNCHANGED <<table, discarded, changes, lock, want, targets, held>>

\* Mutant: the capacity is not looked at again.
InsertAnyway(c) ==
    /\ pc[c] = "insert"
    /\ table' = table \cup ToSet(targets[c]) /\ Return(c, "ok")
    /\ UNCHANGED <<discarded, disk, lock, want, targets, held>>

\* ForkContext::new hashes both files and may fail, which leaves the work
\* file; then the capacity again, in the section that inserts
Insert(c) ==
    /\ pc[c] = "insert"
    /\ \/ Return(c, "failed") /\ UNCHANGED table
       \/ IF Cardinality(table) >= MaxForks
          THEN Goto(c, "withdraw") /\ UNCHANGED <<table, outcome>>
          ELSE table' = table \cup ToSet(targets[c]) /\ Return(c, "ok")
    /\ UNCHANGED <<discarded, disk, lock, want, targets, held>>

Withdraw(c) ==
    /\ pc[c] = "withdraw"
    /\ files' = files \ ToSet(targets[c])
    /\ Return(c, "full")
    /\ UNCHANGED <<table, discarded, changes, lock, want, targets, held>>

Step(c) ==
    \/ Begin(c) \/ Handles(c) \/ LockContext(c) \/ Use(c) \/ Mark(c) \/ Forget(c)
    \/ Cleanup(c) \/ Admit(c) \/ Copy(c) \/ Insert(c) \/ Withdraw(c)
Done == (\A c \in Callers : pc[c] = "done") /\ UNCHANGED vars
Next == (\E c \in Callers : Step(c)) \/ Done

\* Every thread of the process goes on running.
Fairness == \A c \in Callers : WF_vars(Step(c))
Spec == Init /\ [][Next]_vars /\ Fairness

----------------------------------------------------------------------------
Steps == {"start", "handles", "lock", "remove", "cleanup", "copy", "insert", "withdraw", "done"}
TypeOK ==
    /\ table \subseteq ForkIds /\ discarded \subseteq ForkIds /\ files \subseteq ForkIds
    /\ changes \in [ForkIds -> Nat]
    /\ lock \in [ForkIds -> Callers \cup {Nobody}]
    /\ pc \in [Callers -> Steps]
    /\ want \in [Callers -> {"use", "snapshot", "discard", "create"}]
    /\ held \in [Callers -> SUBSET ForkIds]
    /\ DOMAIN targets = Callers /\ DOMAIN outcome = Callers

\* The work files of the creations that returned an error other than the
\* capacity's: create_fork returns by ? after the copy without removing them
LeftBehind == UNION {ToSet(targets[c]) : c \in {d \in Callers : outcome[d] = "failed"}}

\* The table never exceeds max_forks, though the copy of a new fork is made
\* between two looks at it.  And when no call is in progress every listed fork
\* has its work file, and a work file that is not listed is the one of a
\* creation whose copy or context failed: creations refused for the capacity
\* and discards that met other calls leave none behind (create_fork,
\* discard_fork).
RegistryHolds ==
    /\ Cardinality(table) <= MaxForks
    /\ (\A c \in Callers : pc[c] \in {"start", "done"}) =>
          table \subseteq files /\ files \subseteq table \cup LeftBehind

\* A context marked discarded never changes again, though calls may still hold
\* a handle they took before the mark (with_fork_mut, snapshot_forks).
DiscardedStaysAsItWas ==
    [][\A f \in discarded : changes'[f] = changes[f]]_vars

-----------------------------------------------------------------------------
(* What these rest on.                                                     *)

\* A call holds the contexts whose mutexes it locked, only between its first
\* lock and its return, and only of forks it has handles of; these are in the
\* table or were discarded.
HandlesHeld ==
    \A c \in Callers :
        /\ held[c] = {f \in ForkIds : lock[f] = c}
        /\ pc[c] \notin {"lock", "remove", "cleanup"} => held[c] = {}
        /\ pc[c] = "lock" => ToSet(targets[c]) \subseteq table \cup discarded /\ held[c] \subseteq ToSet(targets[c])
        /\ pc[c] \in {"remove", "cleanup"} => held[c] \subseteq discarded
        /\ pc[c] = "cleanup" => held[c] \cap table = {}

\* A fork being created is nobody else's business.
Creating(c) == pc[c] \in {"copy", "insert", "withdraw"}
CreationsApart ==
    \A c \in Callers : Creating(c) =>
        /\ want[c] = "create"
        /\ ToSet(targets[c]) \subseteq ForkIds \ (table \cup discarded)
        /\ \A f, g \in ToSet(targets[c]) : f = g
        /\ \A d \in Callers \ {c} : Creating(d) => ToSet(targets[c]) \cap ToSet(targets[d]) = {}

\* A file without an entry is one that a call in progress will enter or remove,
\* or the one of a creation that failed.
Answers(c, f) ==
    \/ pc[c] \in {"insert", "withdraw"} /\ f \in ToSet(targets[c])
    \/ pc[c] = "cleanup" /\ f \in held[c]
    \/ pc[c] = "done" /\ outcome[c] = "failed" /\ f \in ToSet(targets[c])
FilesAccounted ==
    /\ table \subseteq files
    /\ \A f \in files \ table : \E c \in Callers : Answers(c, f)

\* A creation that has made its copy still has it.
CopiesKept ==
    \A c \in Callers : pc[c] \in {"insert", "withdraw"} => ToSet(targets[c]) \subseteq files

RegistryInv ==
    /\ TypeOK /\ HandlesHeld /\ CreationsApart /\ FilesAccounted /\ CopiesKept
    /\ IsFiniteSet(table) /\ Cardinality(table) <= MaxForks

-----------------------------------------------------------------------------
\* Every call returns: the contexts and the table are never waited for in a
\* circle (discard_fork takes the table while it holds a context,
\* snapshot_forks holds several contexts).
EveryCallReturns == \A c \in Callers : <>(pc[c] = "done")
=============================================================================
