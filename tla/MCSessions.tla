----------------------------- MODULE MCSessions -----------------------------
(* Three parts of a session that do not interact within one step: the      *)
(* workbook with what is derived from it, the runtime that answers requests*)
(* and repeated requests, and the creation of the resource it is bound to. *)
(* A behaviour is a behaviour of one of them.                              *)
EXTENDS ResidentWorkbook, TLC

CONSTANTS Clients, Creation, Own, Nothing, MaxLog, MaxFailures,
          Creations, Generations, NoGeneration, MaxDirectories, MaxTrouble

ASSUME SessionsAssumption == NoGeneration \notin Generations

\* Staged changes and calculations; checkpoints; history, exports to a name and
\* to a file, and the discard.
Mixes ==
    {{"write", "stage", "apply_staged", "discard_staged", "recalculate"},
     {"write", "create_checkpoint", "delete_checkpoint", "restore_checkpoint", "discard_fork"},
     {"write", "session_history", "export_fork", "discard_fork", "file_export"}}

VARIABLES
    part,       \* the component of this behaviour
    offered, records, settled, runtime, answers, failures,
    source, dirs, job, serving, created, trouble

S == INSTANCE SessionRuntime
C == INSTANCE ResourceCreation

session == <<offered, records, settled, runtime, answers, failures>>
creation == <<source, dirs, job, serving, created, trouble>>
all == <<part, vars, session, creation>>

SessionsInit ==
    /\ Init /\ S!SessionInit /\ C!CreationInit
    /\ part \in {"workbook", "runtime", "creation"}
    \* the choices of one part matter in its own behaviours only
    /\ part # "workbook" => document.caches = Unknown
    /\ part # "runtime" => offered = {"write", "session_history", "export_fork",
                                      "discard_fork", "file_export"}

SessionsNext ==
    \/ part = "workbook" /\ Next /\ UNCHANGED <<part, session, creation>>
    \/ part = "runtime" /\ S!SessionNext /\ UNCHANGED <<part, vars, creation>>
    \/ part = "creation" /\ C!CreationNext /\ UNCHANGED <<part, vars, session>>

SessionsSpec == SessionsInit /\ [][SessionsNext]_all

\* These are only compared with one another.
Interchangeable ==
    Permutations(Inputs) \cup Permutations(Looks) \cup Permutations(Epochs)
        \cup Permutations(Clients) \cup Permutations(Generations) \cup Permutations(Creations)

\* Whatever a client was answered stays so: a request repeated after a lost
\* answer, a poisoned owner, a restart, later edits or the discard of the
\* resource is answered from the record that holds it, and takes effect once
\* (ResidentSessionRuntime::execute, OutcomeStorage).
RepeatedRequestsAgree == part = "runtime" => S!AnswersStand

\* A runtime that serves requests holds what its journal replays to, so the
\* journal accepts every response it prepares, and its lists account for the
\* revisions (session.rs, canonical_outcome.rs).
RuntimeMatchesJournal == part = "runtime" => S!RecordsExplainTheSession

\* A creation request makes one whole resource, and an answered one is there for
\* good, wherever a failure, a kill or a power loss hits (create_canonical,
\* create_child, creation_outcome).
AnsweredCreationStands == part = "creation" => C!CreatedOnce
=============================================================================
