------------------------------ MODULE MCLocks ------------------------------
(* The two lock protocols of the project: three concurrent calls on a fork *)
(* registry (the table's mutex and one per context), and two processes on  *)
(* one journal (the advisory file lock).  They do not interact, so a       *)
(* behaviour is a behaviour of one of them.                                *)
EXTENDS ForkRegistry

CONSTANTS Procs, NoCommit, NoProc

\* What three calls do; nothing else tells them apart, so one order is enough.
Mixes(kinds) ==
    {[c \in 1..3 |-> kinds[i[c]]] : i \in {j \in [1..3 -> 1..3] : j[1] <= j[2] /\ j[2] <= j[3]}}

Mixed ==
    {[existing |-> {1, 2}, wanted |-> w] : w \in Mixes(<<"use", "discard", "snapshot">>)}
        \cup {[existing |-> {1}, wanted |-> w] : w \in Mixes(<<"create", "use", "discard">>)}

VARIABLES
    part,       \* the component of this behaviour
    jLines, jTail, jEntry, jSynced, jLock, jPc, jCall, jLoaded, jTip, jAttempts, jLosses,
    jTried, jTold, jRefuted

journal == <<jLines, jTail, jEntry, jSynced, jLock, jPc, jCall, jLoaded, jTip, jAttempts,
             jLosses, jTried, jTold, jRefuted>>
all == <<part, vars, journal>>

J == INSTANCE ResidentJournal WITH
        Requests <- {"q"}, Fingerprints <- {"f"}, MaxLines <- 2, MaxAttempts <- 2, MaxLosses <- 1,
        lines <- jLines, tail <- jTail, entry <- jEntry, synced <- jSynced, lock <- jLock,
        pc <- jPc, call <- jCall, loaded <- jLoaded, tip <- jTip, attempts <- jAttempts,
        losses <- jLosses, tried <- jTried, told <- jTold, refuted <- jRefuted

LocksInit ==
    /\ Init /\ J!Init
    /\ part \in {"registry", "journal"}
    \* which calls the registry serves matters in its own behaviours only
    /\ part = "journal" => table = {1} /\ want = [c \in Callers |-> "use"]

InRegistry == part = "registry" /\ UNCHANGED <<part, journal>>
InJournal == part = "journal" /\ UNCHANGED <<part, vars>>

LocksNext == (InRegistry /\ Next) \/ (InJournal /\ J!Next)

\* The fairness each component states for itself.
LocksSpec ==
    /\ LocksInit /\ [][LocksNext]_all
    /\ \A c \in Callers : WF_all(InRegistry /\ Step(c))
    /\ \A p \in Procs : /\ WF_all(InJournal /\ J!Call(p))
                        /\ SF_all(InJournal /\ J!LockAndLoad(p))

\* Every call returns, with an answer or an error.  No path leaves the journal's
\* file lock held and the other processes waiting on it (NativeResidentJournal);
\* and although a discard takes the table while it holds a context and a
\* snapshot holds several contexts, nobody waits in a circle (discard_fork,
\* snapshot_forks).
EveryLockIsReleased == J!CallsReturn /\ (part = "registry" => EveryCallReturns)
=============================================================================
