-------------------------- MODULE ResourceCreation --------------------------
(***************************************************************************)
(* The creation of a durable resource (native_resident.rs, and create_fork *)
(* of native_host.rs): a directory below the bindings' root with the       *)
(* captured base, the binding and a journal whose first record is the      *)
(* receipt of the request.  It is prepared under a pending name and        *)
(* activated by one rename, which a sync of the root makes durable.        *)
(*                                                                         *)
(* The host's admission mutex and catalog.lock let one creation run at a   *)
(* time.  Between any two steps the source may change, a call may fail     *)
(* (the client repeats the request, perhaps with another revision), the    *)
(* process may be killed, or the machine may stop, which undoes renames    *)
(* and file entries that no sync has covered.                              *)
(***************************************************************************)
EXTENDS Naturals, FiniteSets

CONSTANTS
    Creations,      \* request identities of creations; each names its resource
    Generations,    \* contents of the source, named by their hash
    NoGeneration,
    MaxDirectories, \* the quota of directories, pending ones included
    MaxTrouble      \* bound: failures, kills and power losses

VARIABLES
    source,     \* the content of the source now
    dirs,       \* the directories below the root
    job,        \* the creation in progress
    serving,    \* the host is up
    created,    \* observer: creations answered with success
    trouble     \* failures so far

creation == <<source, dirs, job, serving, created, trouble>>

\* What a preparation writes, in this order: base.xlsx, binding.json, journal.
Complete == 3

\* Mutant: the resource is built under its own name.
DirectoryInPlace(id, base) ==
    [for |-> id, active |-> TRUE, kept |-> TRUE, parts |-> 0, synced |-> 0,
     base |-> base, receipt |-> NoGeneration, number |-> Cardinality(dirs)]

\* A directory: the resource it is for, whether it has the resource's name (or
\* a pending one) now and on disk, how many of its parts are there now and on
\* disk, the captured base and the request in the journal's receipt.
Directory(id, base) ==
    [for |-> id, active |-> FALSE, kept |-> FALSE, parts |-> 0, synced |-> 0,
     base |-> base, receipt |-> NoGeneration, number |-> Cardinality(dirs)]

Idle == [pc |-> "idle", id |-> NoGeneration, expected |-> NoGeneration]

CreationInit ==
    /\ source \in Generations
    /\ dirs = {} /\ job = Idle /\ serving = TRUE /\ created = {} /\ trouble = 0

-----------------------------------------------------------------------------
Active(id) == {d \in dirs : d.active /\ d.for = id}
Mine == CHOOSE d \in dirs : d.number = job.at
Step(pc) == job' = [job EXCEPT !.pc = pc]
Update(d) == dirs' = (dirs \ {Mine}) \cup {d}
RootSynced == {[d EXCEPT !.kept = d.active] : d \in dirs}

\* An error: the lane ends and whatever was prepared stays where it is.
GiveUp == job' = Idle

At(pc) == serving /\ job.pc = pc
Trouble == trouble < MaxTrouble /\ trouble' = trouble + 1

Answered(id, expected) == created' = created \cup {[id |-> id, expected |-> expected]}

\* A client asks for a fork of the source at a revision.
Submit(id, expected) ==
    /\ At("idle")
    /\ job' = [pc |-> "outcome", id |-> id, expected |-> expected]
    /\ UNCHANGED <<source, dirs, serving, created, trouble>>

\* creation_outcome: the directory with the resource's name decides, after a
\* sync of the root; the receipt answers the same request and refuses another.
Outcome ==
    /\ At("outcome")
    /\ IF Active(job.id) = {}
       THEN Step("admit") /\ UNCHANGED <<dirs, created>>
       ELSE /\ dirs' = RootSynced
            /\ GiveUp
            /\ IF \E d \in Active(job.id) : d.receipt = job.expected
               THEN Answered(job.id, job.expected) ELSE UNCHANGED created
    /\ UNCHANGED <<source, serving, trouble>>

\* open_workbook, or the parent's revision: the first comparison.
Admit ==
    /\ At("admit")
    /\ IF source = job.expected THEN Step("capture") ELSE GiveUp
    /\ UNCHANGED <<source, dirs, serving, created, trouble>>

\* prepare and prepare_bytes up to the pending directory: the source is read
\* and compared again, and the quota counts every directory.
Capture ==
    /\ At("capture")
    /\ IF source = job.expected /\ Active(job.id) = {} /\ Cardinality(dirs) < MaxDirectories
       THEN /\ dirs' = {[d EXCEPT !.kept = d.active] : d \in dirs} \cup {Directory(job.id, source)}
            /\ job' = [pc |-> "write", id |-> job.id, expected |-> job.expected,
                       at |-> Cardinality(dirs)]
       ELSE GiveUp /\ UNCHANGED dirs
    /\ UNCHANGED <<source, serving, created, trouble>>

\* base.xlsx and binding.json, each synced as a file; the directory of the
\* journal comes last and syncs the pending directory.
WritePart ==
    /\ At("write")
    /\ LET n == Mine.parts + 1 IN
          /\ Update([Mine EXCEPT !.parts = n, !.synced = IF n = Complete THEN n ELSE @])
          /\ IF n = Complete THEN Step("receipt") ELSE UNCHANGED job
    /\ UNCHANGED <<source, serving, created, trouble>>

\* The owner opens the pending directory and commits the receipt.
CommitReceipt ==
    /\ At("receipt")
    /\ Update([Mine EXCEPT !.receipt = job.expected])
    /\ Step("rename")
    /\ UNCHANGED <<source, serving, created, trouble>>

Activate ==
    /\ At("rename")
    /\ Update([Mine EXCEPT !.active = TRUE])
    /\ Step("sync")
    /\ UNCHANGED <<source, serving, created, trouble>>

SyncRoot ==
    /\ At("sync")
    /\ dirs' = RootSynced
    /\ Step("answer")
    /\ UNCHANGED <<source, serving, created, trouble>>

\* The journal is opened under its new name and the client is answered.
AnswerCreated ==
    /\ At("answer")
    /\ Answered(job.id, job.expected)
    /\ GiveUp
    /\ UNCHANGED <<source, dirs, serving, trouble>>

\* Any call fails; a receipt or a rename may have happened all the same.
CreationFails ==
    /\ serving /\ job.pc # "idle" /\ Trouble
    /\ GiveUp
    /\ dirs' \in {dirs}
          \cup (IF job.pc = "receipt" THEN {(dirs \ {Mine}) \cup {[Mine EXCEPT !.receipt = job.expected]}}
                ELSE IF job.pc = "rename" THEN {(dirs \ {Mine}) \cup {[Mine EXCEPT !.active = TRUE]}}
                ELSE {})
    /\ UNCHANGED <<source, serving, created>>

KillHost ==
    /\ serving /\ Trouble
    /\ serving' = FALSE /\ GiveUp
    /\ UNCHANGED <<source, dirs, created>>

\* NativeBindings::open
RestartHost ==
    /\ ~serving
    /\ serving' = TRUE
    /\ dirs' = RootSynced
    /\ UNCHANGED <<source, job, created, trouble>>

\* A directory after the machine stopped: what is there now is on disk.
Survivor(d, name, n) == [d EXCEPT !.active = name, !.kept = name, !.parts = n, !.synced = n]
Survivors(d) == {Survivor(d, name, n) : name \in {d.active, d.kept}, n \in d.synced..d.parts}

StopMachine ==
    /\ Trouble
    /\ \E after \in [dirs -> UNION {Survivors(d) : d \in dirs}] :
          /\ \A d \in dirs : after[d] \in Survivors(d)
          /\ dirs' = {after[d] : d \in dirs}
    /\ serving' = FALSE /\ GiveUp
    /\ UNCHANGED <<source, created>>

\* Another program saves the source.
ChangeSource ==
    /\ source' \in Generations
    /\ UNCHANGED <<dirs, job, serving, created, trouble>>

CreationNext ==
    \/ \E id \in Creations, g \in Generations : Submit(id, g)
    \/ Outcome \/ Admit \/ Capture \/ WritePart \/ CommitReceipt
    \/ Activate \/ SyncRoot \/ AnswerCreated \/ CreationFails
    \/ KillHost \/ RestartHost \/ StopMachine \/ ChangeSource

-----------------------------------------------------------------------------
\* A request creates at most one resource, from the generation it names, and
\* an answered creation is there for good: no failure, kill or power loss
\* between the receipt, the rename and the sync of the root leaves a resource
\* without its base, binding or receipt, or takes one back that a client was
\* told of; repeating the request with another revision is never answered.
CreatedOnce ==
    /\ \A d \in dirs : d.active => /\ d.parts = Complete /\ d.synced = Complete
                                   /\ d.receipt = d.base /\ d.base # NoGeneration
    /\ \A id \in Creations : Cardinality(Active(id)) <= 1
    /\ \A c \in created : \E d \in Active(c.id) : d.kept /\ d.base = c.expected


-----------------------------------------------------------------------------
(* What this rests on.                                                     *)

\* Directories are numbered and never removed; a name on disk is a name now, and
\* no part is on disk that is not there.
DirectoriesStand ==
    /\ IsFiniteSet(dirs)
    /\ \A d \in dirs :
          /\ DOMAIN d = {"for", "active", "kept", "parts", "synced", "base", "receipt", "number"}
          /\ d.number \in Nat /\ d.number < Cardinality(dirs)
          /\ d.active \in BOOLEAN /\ d.kept \in BOOLEAN /\ (d.kept => d.active)
          /\ d.parts \in 0..Complete /\ d.synced \in 0..d.parts
    /\ \A d, e \in dirs : d.number = e.number => d = e

\* A resource has its name only when it is whole, and one directory has it.
ActiveIsWhole ==
    /\ \A d \in dirs : d.active => /\ d.parts = Complete /\ d.synced = Complete
                                   /\ d.receipt = d.base /\ d.base # NoGeneration
    /\ \A d, e \in dirs : d.active /\ e.active /\ d.for = e.for => d = e
    /\ \A c \in created : \E d \in dirs : d.active /\ d.for = c.id /\ d.kept /\ d.base = c.expected

\* What the creation in progress has done so far.
Building == {"write", "receipt", "rename", "sync", "answer"}
JobStands ==
    /\ job.pc \in {"idle", "outcome", "admit", "capture"} \cup Building
    /\ {"pc", "id", "expected"} \subseteq DOMAIN job
    /\ job.pc # "idle" => job.expected \in Generations
    /\ job.pc \in Building => \E d \in dirs :
          /\ d.number = job.at /\ d.for = job.id /\ d.base = job.expected
          /\ job.pc \in {"write", "receipt", "rename"} => Active(job.id) = {}
          /\ job.pc = "write" => d.parts < Complete
          /\ job.pc # "write" => d.synced = Complete
          /\ job.pc \in {"rename", "sync", "answer"} => d.receipt = job.expected
          /\ job.pc \in {"sync", "answer"} => d.active
          /\ job.pc = "answer" => d.kept

CreationInv == DirectoriesStand /\ ActiveIsWhole /\ JobStands /\ source \in Generations

=============================================================================
