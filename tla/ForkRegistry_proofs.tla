------------------------ MODULE ForkRegistry_proofs ------------------------
(***************************************************************************)
(* The fork registry for any number of calls, forks and places: capacity   *)
(* and work files, and the contexts of discarded forks.                    *)
(***************************************************************************)
EXTENDS ForkRegistry, FiniteSetTheorems, TLAPS

LEMMA RegistryInit == Init => RegistryInv
<1> SUFFICES ASSUME Init PROVE RegistryInv
  OBVIOUS
<1> USE RegistryAssumption DEF Init
<1>1. TypeOK
  BY DEF TypeOK, Steps
<1>2. HandlesHeld /\ CreationsApart /\ FilesAccounted /\ CopiesKept
  BY DEF HandlesHeld, CreationsApart, Creating, FilesAccounted, CopiesKept
<1>3. IsFiniteSet(table) /\ Cardinality(table) <= MaxForks
  OBVIOUS
<1> QED
  BY <1>1, <1>2, <1>3 DEF RegistryInv

\* What a call answers for is its own business: other calls' steps leave it.
LEMMA OthersAnswer ==
  ASSUME NEW d \in Callers, NEW f, Answers(d, f), pc'[d] = pc[d], targets'[d] = targets[d],
         held'[d] = held[d], outcome'[d] = outcome[d]
  PROVE  Answers(d, f)'
BY DEF Answers

\* A call returns, or goes on without an answer.
LEMMA OutcomeMoves ==
  ASSUME TypeOK, NEW c \in Callers,
         outcome' = outcome \/ \E o : outcome' = [outcome EXCEPT ![c] = o]
  PROVE  DOMAIN outcome' = Callers /\ \A d \in Callers \ {c} : outcome'[d] = outcome[d]
BY DEF TypeOK

-----------------------------------------------------------------------------
(* Calls on forks that exist.                                              *)

\* A call moves on without a lock of its own, or returns; table and files stay.
LEMMA CallMoves ==
  ASSUME RegistryInv, NEW c \in Callers, NEW p \in {"handles", "lock", "done"},
         pc' = [pc EXCEPT ![c] = p], pc[c] \in {"start", "handles"},
         p = "lock" => ToSet(targets'[c]) \subseteq table,
         \A d \in Callers \ {c} : targets'[d] = targets[d], DOMAIN targets' = Callers,
         outcome' = outcome \/ \E o : outcome' = [outcome EXCEPT ![c] = o],
         UNCHANGED <<table, discarded, disk, lock, want, held>>
  PROVE  RegistryInv'
<1> USE RegistryAssumption DEF RegistryInv
<1>1. pc'[c] = p /\ \A d \in Callers \ {c} : pc'[d] = pc[d]
  BY DEF TypeOK
<1>o. DOMAIN outcome' = Callers /\ \A d \in Callers \ {c} : outcome'[d] = outcome[d]
  BY OutcomeMoves
<1>2. TypeOK'
  BY <1>o DEF TypeOK, Steps, disk
<1>3. HandlesHeld'
  <2> SUFFICES ASSUME NEW d \in Callers
               PROVE  /\ held[d] = {g \in ForkIds : lock[g] = d}
                      /\ pc'[d] \notin {"lock", "remove", "cleanup"} => held[d] = {}
                      /\ pc'[d] = "lock" => /\ ToSet(targets'[d]) \subseteq table \cup discarded
                                            /\ held[d] \subseteq ToSet(targets'[d])
                      /\ pc'[d] \in {"remove", "cleanup"} => held[d] \subseteq discarded
                      /\ pc'[d] = "cleanup" => held[d] \cap table = {}
    BY DEF HandlesHeld
  <2>1. CASE d = c
    <3>1. held[c] = {} /\ held[c] = {g \in ForkIds : lock[g] = c}
      BY DEF HandlesHeld
    <3> QED
      BY <1>1, <2>1, <3>1
  <2>2. CASE d # c
    BY <1>1, <2>2 DEF HandlesHeld
  <2> QED
    BY <2>1, <2>2
<1>4. CreationsApart'
  BY <1>1 DEF CreationsApart, Creating
<1>5. FilesAccounted'
  <2>1. table' \subseteq files'
    BY DEF FilesAccounted, disk
  <2>2. ASSUME NEW f \in files \ table
        PROVE  \E d \in Callers : Answers(d, f)'
    <3>1. PICK d \in Callers : Answers(d, f)
      BY DEF FilesAccounted
    <3>2. d # c
      BY <3>1 DEF Answers
    <3> QED
      BY <1>1, <1>o, <3>1, <3>2, OthersAnswer
  <2> QED
    BY <2>1, <2>2 DEF FilesAccounted, disk
<1>6. CopiesKept'
  BY <1>1 DEF CopiesKept, disk
<1> QED
  BY <1>2, <1>3, <1>4, <1>5, <1>6

LEMMA BeginKeeps ==
  ASSUME RegistryInv, NEW c \in Callers, Begin(c)
  PROVE  RegistryInv'
<1>1. PICK q : targets' = [targets EXCEPT ![c] = q]
  BY DEF Begin
<1>2. /\ pc' = [pc EXCEPT ![c] = "handles"] /\ pc[c] = "start"
      /\ UNCHANGED <<table, discarded, disk, lock, want, held, outcome>>
  BY DEF Begin, Goto
<1> QED
  BY <1>1, <1>2, CallMoves DEF RegistryInv, TypeOK

LEMMA HandlesKeeps ==
  ASSUME RegistryInv, NEW c \in Callers, Handles(c)
  PROVE  RegistryInv'
<1>1. PICK p \in {"lock", "done"} : pc' = [pc EXCEPT ![c] = p] /\ (p = "lock" => ToSet(targets[c]) \subseteq table)
  BY DEF Handles, Goto, Return
<1>2. outcome' = outcome \/ \E o : outcome' = [outcome EXCEPT ![c] = o]
  BY DEF Handles, Return
<1> QED
  BY <1>1, <1>2, CallMoves DEF Handles, RegistryInv, TypeOK

LEMMA LockContextKeeps ==
  ASSUME RegistryInv, NEW c \in Callers, LockContext(c)
  PROVE  RegistryInv'
<1> USE RegistryAssumption DEF RegistryInv
<1>1. PICK f \in ToSet(targets[c]) : /\ lock[f] = Nobody /\ lock' = [lock EXCEPT ![f] = c]
                                     /\ held' = [held EXCEPT ![c] = @ \cup {f}]
  BY DEF LockContext, Remaining, ToSet
<1>2. pc[c] = "lock" /\ UNCHANGED <<table, discarded, files, changes, pc, want, targets, outcome>>
  BY DEF LockContext, disk
<1>3. f \in ForkIds
  BY <1>1, <1>2 DEF HandlesHeld, TypeOK
<1>4. TypeOK'
  BY <1>1, <1>2, <1>3 DEF TypeOK
<1>5. HandlesHeld'
  <2> SUFFICES ASSUME NEW d \in Callers
               PROVE  /\ held'[d] = {g \in ForkIds : lock'[g] = d}
                      /\ pc[d] \notin {"lock", "remove", "cleanup"} => held'[d] = {}
                      /\ pc[d] = "lock" => /\ ToSet(targets[d]) \subseteq table \cup discarded
                                           /\ held'[d] \subseteq ToSet(targets[d])
                      /\ pc[d] \in {"remove", "cleanup"} => held'[d] \subseteq discarded
                      /\ pc[d] = "cleanup" => held'[d] \cap table = {}
    BY <1>2 DEF HandlesHeld
  <2>1. CASE d = c
    <3>1. held'[c] = held[c] \cup {f}
      BY <1>1 DEF TypeOK
    <3>2. held[c] = {g \in ForkIds : lock[g] = c} /\ held[c] \subseteq ToSet(targets[c])
      BY <1>2 DEF HandlesHeld
    <3>3. \A g \in ForkIds : lock'[g] = IF g = f THEN c ELSE lock[g]
      BY <1>1 DEF TypeOK
    <3>4. held'[c] = {g \in ForkIds : lock'[g] = c}
      BY <1>3, <3>1, <3>2, <3>3
    <3> QED
      BY <1>1, <1>2, <2>1, <3>1, <3>2, <3>4 DEF HandlesHeld
  <2>2. CASE d # c
    <3>1. held'[d] = held[d] /\ \A g \in ForkIds : lock'[g] = d <=> lock[g] = d
      BY <1>1, <1>3, <2>2 DEF TypeOK
    <3> QED
      BY <1>2, <3>1 DEF HandlesHeld
  <2> QED
    BY <2>1, <2>2
<1>6. CreationsApart'
  BY <1>2 DEF CreationsApart, Creating
<1>7. FilesAccounted'
  <2>1. \A d \in Callers : pc[d] = "cleanup" => held'[d] = held[d]
    BY <1>1, <1>2 DEF TypeOK
  <2>2. ASSUME NEW d \in Callers, NEW g, Answers(d, g) PROVE Answers(d, g)'
    BY <1>2, <2>1, <2>2 DEF Answers
  <2> QED
    BY <1>2, <2>2 DEF FilesAccounted
<1>8. CopiesKept'
  BY <1>2 DEF CopiesKept
<1> QED
  BY <1>2, <1>4, <1>5, <1>6, <1>7, <1>8

\* The call returns and its contexts are unlocked.
LEMMA ReturnKeeps ==
  ASSUME RegistryInv, NEW c \in Callers, Release(c), pc' = [pc EXCEPT ![c] = "done"],
         pc[c] = "lock" \/ (pc[c] = "cleanup" /\ files' = files \ held[c]),
         pc[c] = "lock" => files' = files,
         changes' \in [ForkIds -> Nat],
         \E o : outcome' = [outcome EXCEPT ![c] = o],
         UNCHANGED <<table, discarded, want, targets>>
  PROVE  RegistryInv'
<1> USE RegistryAssumption DEF RegistryInv
<1>1. pc'[c] = "done" /\ \A d \in Callers \ {c} : pc'[d] = pc[d]
  BY DEF TypeOK
<1>2. /\ held'[c] = {} /\ \A d \in Callers \ {c} : held'[d] = held[d]
      /\ held' \in [Callers -> SUBSET ForkIds]
  BY DEF Release, TypeOK
<1>3. \A f \in ForkIds : lock'[f] = IF lock[f] = c THEN Nobody ELSE lock[f]
  <2>1. \A f \in ForkIds : f \in held[c] <=> lock[f] = c
    BY DEF HandlesHeld
  <2> QED
    BY <2>1 DEF Release
<1>4. TypeOK'
  <2>1. lock' \in [ForkIds -> Callers \cup {Nobody}]
    BY DEF Release, TypeOK
  <2>2. DOMAIN outcome' = Callers
    BY OutcomeMoves
  <2> QED
    BY <1>2, <2>1, <2>2 DEF TypeOK, Steps
<1>5. HandlesHeld'
  <2> SUFFICES ASSUME NEW d \in Callers
               PROVE  /\ held'[d] = {g \in ForkIds : lock'[g] = d}
                      /\ pc'[d] \notin {"lock", "remove", "cleanup"} => held'[d] = {}
                      /\ pc'[d] = "lock" => /\ ToSet(targets[d]) \subseteq table \cup discarded
                                            /\ held'[d] \subseteq ToSet(targets[d])
                      /\ pc'[d] \in {"remove", "cleanup"} => held'[d] \subseteq discarded
                      /\ pc'[d] = "cleanup" => held'[d] \cap table = {}
    BY DEF HandlesHeld
  <2>1. CASE d = c
    BY <1>1, <1>2, <1>3, <2>1
  <2>2. CASE d # c
    <3>1. held[d] = {g \in ForkIds : lock[g] = d}
      BY DEF HandlesHeld
    <3>2. held'[d] = {g \in ForkIds : lock'[g] = d}
      BY <1>2, <1>3, <2>2, <3>1
    <3> QED
      BY <1>1, <1>2, <2>2, <3>2 DEF HandlesHeld
  <2> QED
    BY <2>1, <2>2
<1>6. CreationsApart'
  BY <1>1, SMTT(60) DEF CreationsApart, Creating
<1>7. FilesAccounted'
  <2>1. table' \subseteq files'
    BY DEF FilesAccounted, HandlesHeld
  <2>2. ASSUME NEW f \in files' \ table'
        PROVE  \E d \in Callers : Answers(d, f)'
    <3>1. PICK d \in Callers : Answers(d, f)
      BY DEF FilesAccounted
    <3>2. d # c
      BY <3>1 DEF Answers
    <3>3. outcome'[d] = outcome[d]
      BY <3>2, OutcomeMoves
    <3> QED
      BY <1>1, <1>2, <3>1, <3>2, <3>3, OthersAnswer
  <2> QED
    BY <2>1, <2>2 DEF FilesAccounted
<1>8. CopiesKept'
  <2> SUFFICES ASSUME NEW d \in Callers, pc'[d] \in {"insert", "withdraw"}
               PROVE  ToSet(targets[d]) \subseteq files'
    BY DEF CopiesKept
  <2>1. d # c /\ pc[d] \in {"insert", "withdraw"}
    BY <1>1
  <2>2. ToSet(targets[d]) \subseteq files /\ ToSet(targets[d]) \subseteq ForkIds \ (table \cup discarded)
    BY <2>1 DEF CopiesKept, CreationsApart, Creating
  <2>3. pc[c] = "cleanup" => held[c] \subseteq discarded
    BY DEF HandlesHeld
  <2> QED
    BY <2>2, <2>3
<1> QED
  BY <1>4, <1>5, <1>6, <1>7, <1>8

LEMMA UseKeeps ==
  ASSUME RegistryInv, NEW c \in Callers, Use(c)
  PROVE  RegistryInv'
<1>1. changes' \in [ForkIds -> Nat]
  BY DEF Use, RegistryInv, TypeOK
<1> QED
  BY <1>1, ReturnKeeps DEF Use, Return, Goto

LEMMA MarkKeeps ==
  ASSUME RegistryInv, NEW c \in Callers, Mark(c)
  PROVE  RegistryInv'
<1> USE DEF RegistryInv
<1>1. CASE held[c] \subseteq discarded
  BY <1>1, ReturnKeeps DEF Mark, Return, Goto, disk, TypeOK
<1>2. CASE ~(held[c] \subseteq discarded)
  <2>1. /\ pc' = [pc EXCEPT ![c] = "remove"] /\ pc[c] = "lock" /\ discarded' = discarded \cup held[c]
        /\ UNCHANGED <<lock, held, outcome, table, files, changes, want, targets>>
    BY <1>2 DEF Mark, Goto, disk
  <2>2. pc'[c] = "remove" /\ \A d \in Callers \ {c} : pc'[d] = pc[d]
    BY <2>1 DEF TypeOK
  <2>3. TypeOK'
    BY <2>1 DEF TypeOK, Steps
  <2>4. HandlesHeld'
    BY <2>1, <2>2 DEF HandlesHeld
  <2>5. CreationsApart'
    <3>1. held[c] \subseteq table \cup discarded
      BY <2>1 DEF HandlesHeld
    <3> QED
      BY <2>1, <2>2, <3>1 DEF CreationsApart, Creating
  <2>6. FilesAccounted' /\ CopiesKept'
    <3>1. ASSUME NEW d \in Callers, NEW g, Answers(d, g) PROVE Answers(d, g)'
      BY <2>1, <2>2, <3>1 DEF Answers
    <3> QED
      BY <2>1, <2>2, <3>1 DEF FilesAccounted, CopiesKept
  <2> QED
    BY <2>1, <2>3, <2>4, <2>5, <2>6
<1> QED
  BY <1>1, <1>2

LEMMA ForgetKeeps ==
  ASSUME RegistryInv, NEW c \in Callers, Forget(c)
  PROVE  RegistryInv'
<1> USE RegistryAssumption DEF RegistryInv
<1>1. /\ pc' = [pc EXCEPT ![c] = "cleanup"] /\ pc[c] = "remove" /\ table' = table \ held[c]
      /\ UNCHANGED <<discarded, files, changes, lock, want, targets, held, outcome>>
  BY DEF Forget, Goto, disk
<1>2. pc'[c] = "cleanup" /\ \A d \in Callers \ {c} : pc'[d] = pc[d]
  BY <1>1 DEF TypeOK
<1>3. TypeOK'
  BY <1>1 DEF TypeOK, Steps
<1>4. held[c] \subseteq discarded
  BY <1>1 DEF HandlesHeld
<1>5. HandlesHeld'
  BY <1>1, <1>2, <1>4 DEF HandlesHeld
<1>6. CreationsApart'
  BY <1>1, <1>2 DEF CreationsApart, Creating
<1>7. FilesAccounted'
  <2>1. table' \subseteq files'
    BY <1>1 DEF FilesAccounted
  <2>2. ASSUME NEW f \in files' \ table'
        PROVE  \E d \in Callers : Answers(d, f)'
    <3>1. CASE f \in held[c]
      BY <1>1, <1>2, <3>1 DEF Answers
    <3>2. CASE f \notin held[c]
      <4>1. f \in files \ table
        BY <1>1, <3>2
      <4>2. PICK d \in Callers : Answers(d, f)
        BY <4>1 DEF FilesAccounted
      <4>3. d # c
        BY <1>1, <4>2 DEF Answers
      <4> QED
        BY <1>1, <1>2, <4>2, <4>3, OthersAnswer
    <3> QED
      BY <3>1, <3>2
  <2> QED
    BY <2>1, <2>2 DEF FilesAccounted
<1>8. IsFiniteSet(table') /\ Cardinality(table') <= MaxForks
  <2>1. table' \in SUBSET table
    BY <1>1
  <2>2. IsFiniteSet(table') /\ Cardinality(table') <= Cardinality(table)
    BY <2>1, FS_Subset
  <2>3. Cardinality(table') \in Nat /\ Cardinality(table) \in Nat
    BY <2>2, FS_CardinalityType
  <2> QED
    BY <2>2, <2>3
<1>9. CopiesKept'
  BY <1>1, <1>2 DEF CopiesKept
<1> QED
  BY <1>3, <1>5, <1>6, <1>7, <1>8, <1>9

LEMMA CleanupKeeps ==
  ASSUME RegistryInv, NEW c \in Callers, Cleanup(c)
  PROVE  RegistryInv'
BY ReturnKeeps DEF Cleanup, Return, Goto, RegistryInv, TypeOK

-----------------------------------------------------------------------------
(* Creations.                                                              *)

LEMMA AdmitKeeps ==
  ASSUME RegistryInv, NEW c \in Callers, Admit(c)
  PROVE  RegistryInv'
<1> USE DEF RegistryInv
<1>1. CASE Cardinality(table) >= MaxForks
  BY <1>1, CallMoves DEF Admit, Return, Goto, TypeOK
<1>2. CASE ~(Cardinality(table) >= MaxForks) /\ Return(c, "failed") /\ UNCHANGED targets
  BY <1>2, CallMoves DEF Admit, Return, Goto, TypeOK
<1>3. CASE ~(Cardinality(table) >= MaxForks) /\ ~(Return(c, "failed") /\ UNCHANGED targets)
  <2>1. PICK f \in ForkIds \ (table \cup files \cup discarded) :
          /\ \A d \in Callers \ {c} : want[d] = "create" => f \notin ToSet(targets[d])
          /\ targets' = [targets EXCEPT ![c] = <<f>>]
    BY <1>3 DEF Admit
  <2>2. /\ pc' = [pc EXCEPT ![c] = "copy"] /\ pc[c] = "start" /\ want[c] = "create"
        /\ UNCHANGED <<table, discarded, files, changes, lock, want, held, outcome>>
    BY <1>3 DEF Admit, Goto, disk
  <2>3. /\ pc'[c] = "copy" /\ \A d \in Callers \ {c} : pc'[d] = pc[d] /\ targets'[d] = targets[d]
        /\ targets'[c] = <<f>>
    BY <2>1, <2>2 DEF TypeOK
  <2>4. ToSet(<<f>>) = {f}
    BY DEF ToSet
  <2>5. TypeOK'
    BY <2>1, <2>2 DEF TypeOK, Steps
  <2>6. HandlesHeld'
    BY <2>2, <2>3 DEF HandlesHeld
  <2>7. CreationsApart'
    <3> SUFFICES ASSUME NEW d \in Callers, Creating(d)'
                 PROVE  /\ want[d] = "create"
                        /\ ToSet(targets'[d]) \subseteq ForkIds \ (table \cup discarded)
                        /\ \A g, h \in ToSet(targets'[d]) : g = h
                        /\ \A e \in Callers \ {d} : Creating(e)' => ToSet(targets'[d]) \cap ToSet(targets'[e]) = {}
      BY <2>2 DEF CreationsApart
    <3>1. \A e \in Callers \ {c} : Creating(e)' => Creating(e) /\ f \notin ToSet(targets[e])
      BY <2>1, <2>3 DEF CreationsApart, Creating
    <3>2. CASE d = c
      BY <2>1, <2>2, <2>3, <2>4, <3>1, <3>2
    <3>3. CASE d # c
      BY <2>3, <2>4, <3>1, <3>3 DEF CreationsApart
    <3> QED
      BY <3>2, <3>3
  <2>8. FilesAccounted'
    <3>1. ASSUME NEW g \in files \ table
          PROVE  \E d \in Callers : Answers(d, g)'
      <4>1. PICK d \in Callers : Answers(d, g)
        BY DEF FilesAccounted
      <4>2. d # c
        BY <2>2, <4>1 DEF Answers
      <4> QED
        BY <2>2, <2>3, <4>1, <4>2, OthersAnswer
    <3> QED
      BY <2>2, <3>1 DEF FilesAccounted
  <2>9. CopiesKept'
    BY <2>2, <2>3 DEF CopiesKept
  <2> QED
    BY <2>2, <2>5, <2>6, <2>7, <2>8, <2>9
<1> QED
  BY <1>1, <1>2, <1>3

LEMMA CopyKeeps ==
  ASSUME RegistryInv, NEW c \in Callers, Copy(c)
  PROVE  RegistryInv'
<1> USE DEF RegistryInv
<1>1. PICK p \in {"insert", "done"}, left \in SUBSET ToSet(targets[c]) :
        /\ pc' = [pc EXCEPT ![c] = p] /\ files' = files \cup left
        /\ p = "insert" => left = ToSet(targets[c])
        /\ p = "done" => outcome' = [outcome EXCEPT ![c] = "failed"]
        /\ p = "insert" => outcome' = outcome
  <2>1. CASE Goto(c, "insert") /\ files' = files \cup ToSet(targets[c]) /\ UNCHANGED outcome
    BY <2>1 DEF Goto
  <2>2. CASE Return(c, "failed") /\ \E left \in SUBSET ToSet(targets[c]) : files' = files \cup left
    BY <2>2 DEF Return, Goto
  <2> QED
    BY <2>1, <2>2 DEF Copy
<1>2. pc[c] = "copy" /\ UNCHANGED <<table, discarded, changes, lock, want, targets, held>>
  BY DEF Copy
<1>3. pc'[c] = p /\ \A d \in Callers \ {c} : pc'[d] = pc[d]
  BY <1>1 DEF TypeOK
<1>4. ToSet(targets[c]) \subseteq ForkIds
  BY <1>2 DEF CreationsApart, Creating
<1>5. DOMAIN outcome' = Callers /\ \A d \in Callers \ {c} : outcome'[d] = outcome[d]
  BY <1>1, OutcomeMoves
<1>6. TypeOK'
  BY <1>1, <1>2, <1>4, <1>5 DEF TypeOK, Steps
<1>7. HandlesHeld'
  BY <1>1, <1>2, <1>3 DEF HandlesHeld
<1>8. CreationsApart'
  BY <1>1, <1>2, <1>3 DEF CreationsApart, Creating
<1>9. FilesAccounted'
  <2>1. table' \subseteq files'
    BY <1>1, <1>2 DEF FilesAccounted
  <2>2. ASSUME NEW f \in files' \ table'
        PROVE  \E d \in Callers : Answers(d, f)'
    <3>1. CASE f \in left
      <4>1. p = "done" => outcome'[c] = "failed"
        BY <1>1 DEF TypeOK
      <4> QED
        BY <1>1, <1>2, <1>3, <3>1, <4>1 DEF Answers
    <3>2. CASE f \notin left
      <4>1. PICK d \in Callers : Answers(d, f)
        BY <1>1, <1>2, <3>2 DEF FilesAccounted
      <4>2. d # c
        BY <1>2, <4>1 DEF Answers
      <4> QED
        BY <1>2, <1>3, <1>5, <4>1, <4>2, OthersAnswer
    <3> QED
      BY <3>1, <3>2
  <2> QED
    BY <2>1, <2>2 DEF FilesAccounted
<1>10. CopiesKept'
  BY <1>1, <1>2, <1>3 DEF CopiesKept
<1> QED
  BY <1>2, <1>6, <1>7, <1>8, <1>9, <1>10

LEMMA InsertKeeps ==
  ASSUME RegistryInv, NEW c \in Callers, Insert(c)
  PROVE  RegistryInv'
<1> USE RegistryAssumption DEF RegistryInv
<1>1. /\ pc[c] = "insert" /\ UNCHANGED <<discarded, files, changes, lock, want, targets, held>>
  BY DEF Insert, disk
<1>o. DOMAIN outcome' = Callers /\ \A d \in Callers \ {c} : outcome'[d] = outcome[d]
  <2>1. outcome' = outcome \/ \E o : outcome' = [outcome EXCEPT ![c] = o]
    BY DEF Insert, Return
  <2> QED
    BY <2>1, OutcomeMoves
<1>2. CASE Goto(c, "withdraw") /\ UNCHANGED <<table, outcome>>
  <2>1. pc' = [pc EXCEPT ![c] = "withdraw"] /\ UNCHANGED table
    BY <1>2 DEF Goto
  <2>2. pc'[c] = "withdraw" /\ \A d \in Callers \ {c} : pc'[d] = pc[d]
    BY <2>1 DEF TypeOK
  <2>3. TypeOK'
    BY <1>1, <1>o, <2>1 DEF TypeOK, Steps
  <2>4. HandlesHeld' /\ CreationsApart'
    BY <1>1, <2>1, <2>2 DEF HandlesHeld, CreationsApart, Creating
  <2>5. FilesAccounted' /\ CopiesKept'
    <3>1. ASSUME NEW d \in Callers, NEW g, Answers(d, g) PROVE Answers(d, g)'
      BY <1>1, <1>o, <2>2, <3>1 DEF Answers
    <3> QED
      BY <1>1, <2>1, <2>2, <3>1 DEF FilesAccounted, CopiesKept
  <2> QED
    BY <2>1, <2>3, <2>4, <2>5
<1>f. CASE Return(c, "failed") /\ UNCHANGED table
  <2>1. /\ pc' = [pc EXCEPT ![c] = "done"] /\ UNCHANGED table
        /\ outcome' = [outcome EXCEPT ![c] = "failed"]
    BY <1>f DEF Return, Goto
  <2>2. pc'[c] = "done" /\ outcome'[c] = "failed" /\ \A d \in Callers \ {c} : pc'[d] = pc[d]
    BY <2>1 DEF TypeOK
  <2>3. TypeOK'
    BY <1>1, <1>o, <2>1 DEF TypeOK, Steps
  <2>4. HandlesHeld' /\ CreationsApart'
    BY <1>1, <2>1, <2>2 DEF HandlesHeld, CreationsApart, Creating
  <2>5. FilesAccounted' /\ CopiesKept'
    <3>1. ASSUME NEW d \in Callers, NEW g, Answers(d, g) PROVE Answers(d, g)'
      BY <1>1, <1>o, <2>2, <3>1 DEF Answers
    <3> QED
      BY <1>1, <2>1, <2>2, <3>1 DEF FilesAccounted, CopiesKept
  <2> QED
    BY <2>1, <2>3, <2>4, <2>5
<1>3. CASE ~(Cardinality(table) >= MaxForks) /\ table' = table \cup ToSet(targets[c]) /\ Return(c, "ok")
  <2>1. pc' = [pc EXCEPT ![c] = "done"] /\ table' = table \cup ToSet(targets[c])
    BY <1>3 DEF Return, Goto
  <2>2. pc'[c] = "done" /\ \A d \in Callers \ {c} : pc'[d] = pc[d]
    BY <2>1 DEF TypeOK
  <2>3. /\ ToSet(targets[c]) \subseteq ForkIds \ (table \cup discarded)
        /\ \A f, g \in ToSet(targets[c]) : f = g
        /\ \A d \in Callers \ {c} : Creating(d) => ToSet(targets[c]) \cap ToSet(targets[d]) = {}
    BY <1>1 DEF CreationsApart, Creating
  <2>4. TypeOK'
    BY <1>1, <1>o, <2>1, <2>3 DEF TypeOK, Steps
  <2>5. HandlesHeld'
    BY <1>1, <2>1, <2>2, <2>3 DEF HandlesHeld
  <2>6. CreationsApart'
    BY <1>1, <2>1, <2>2, <2>3 DEF CreationsApart, Creating
  <2>7. FilesAccounted' /\ CopiesKept'
    <3>1. ToSet(targets[c]) \subseteq files
      BY <1>1 DEF CopiesKept
    <3>2. CopiesKept'
      BY <1>1, <2>2 DEF CopiesKept
    <3>3. ASSUME NEW f \in files' \ table' PROVE \E d \in Callers : Answers(d, f)'
      <4>1. f \in files \ table /\ f \notin ToSet(targets[c])
        BY <1>1, <2>1
      <4>2. PICK d \in Callers : Answers(d, f)
        BY <4>1 DEF FilesAccounted
      <4>3. d # c
        BY <1>1, <4>1, <4>2 DEF Answers
      <4> QED
        BY <1>1, <1>o, <2>2, <4>2, <4>3, OthersAnswer
    <3> QED
      BY <1>1, <2>1, <3>1, <3>2, <3>3 DEF FilesAccounted
  <2>8. IsFiniteSet(table') /\ Cardinality(table') <= MaxForks
    <3>1. Cardinality(table) \in Nat /\ Cardinality(table) < MaxForks
      BY <1>3, FS_CardinalityType
    <3>2. CASE ToSet(targets[c]) = {}
      BY <2>1, <3>1, <3>2
    <3>3. ASSUME NEW f \in ToSet(targets[c]) PROVE IsFiniteSet(table') /\ Cardinality(table') <= MaxForks
      <4>1. table' = table \cup {f}
        BY <2>1, <2>3
      <4>2. IsFiniteSet(table \cup {f})
            /\ Cardinality(table \cup {f}) = IF f \in table THEN Cardinality(table) ELSE Cardinality(table) + 1
        BY FS_AddElement
      <4> QED
        BY <3>1, <4>1, <4>2
    <3> QED
      BY <3>2, <3>3
  <2> QED
    BY <2>4, <2>5, <2>6, <2>7, <2>8
<1> QED
  BY <1>2, <1>f, <1>3 DEF Insert

LEMMA WithdrawKeeps ==
  ASSUME RegistryInv, NEW c \in Callers, Withdraw(c)
  PROVE  RegistryInv'
<1> USE DEF RegistryInv
<1>1. /\ pc' = [pc EXCEPT ![c] = "done"] /\ pc[c] = "withdraw" /\ files' = files \ ToSet(targets[c])
      /\ UNCHANGED <<table, discarded, changes, lock, want, targets, held>>
      /\ outcome' = [outcome EXCEPT ![c] = "full"]
  BY DEF Withdraw, Return, Goto
<1>o. DOMAIN outcome' = Callers /\ \A d \in Callers \ {c} : outcome'[d] = outcome[d]
  BY <1>1, OutcomeMoves
<1>2. pc'[c] = "done" /\ \A d \in Callers \ {c} : pc'[d] = pc[d]
  BY <1>1 DEF TypeOK
<1>3. /\ ToSet(targets[c]) \subseteq ForkIds \ (table \cup discarded)
      /\ \A d \in Callers \ {c} : Creating(d) => ToSet(targets[c]) \cap ToSet(targets[d]) = {}
  BY <1>1 DEF CreationsApart, Creating
<1>4. TypeOK'
  BY <1>1, <1>o DEF TypeOK, Steps
<1>5. HandlesHeld' /\ CreationsApart'
  BY <1>1, <1>2 DEF HandlesHeld, CreationsApart, Creating
<1>6. FilesAccounted'
  <2>1. table' \subseteq files'
    BY <1>1, <1>3 DEF FilesAccounted
  <2>2. ASSUME NEW f \in files' \ table'
        PROVE  \E d \in Callers : Answers(d, f)'
    <3>1. PICK d \in Callers : Answers(d, f)
      BY <1>1 DEF FilesAccounted
    <3>2. d # c
      BY <1>1, <3>1 DEF Answers
    <3> QED
      BY <1>1, <1>2, <1>o, <3>1, <3>2, OthersAnswer
  <2> QED
    BY <2>1, <2>2 DEF FilesAccounted
<1>7. CopiesKept'
  <2> SUFFICES ASSUME NEW d \in Callers, pc'[d] \in {"insert", "withdraw"}
               PROVE  ToSet(targets[d]) \subseteq files'
    BY <1>1 DEF CopiesKept
  <2>1. d # c /\ pc[d] \in {"insert", "withdraw"}
    BY <1>2
  <2>2. ToSet(targets[d]) \subseteq files /\ ToSet(targets[c]) \cap ToSet(targets[d]) = {}
    BY <1>3, <2>1 DEF CopiesKept, Creating
  <2> QED
    BY <1>1, <2>2
<1> QED
  BY <1>1, <1>4, <1>5, <1>6, <1>7

-----------------------------------------------------------------------------
LEMMA RegistryNext == RegistryInv /\ [Next]_vars => RegistryInv'
<1> SUFFICES ASSUME RegistryInv, [Next]_vars PROVE RegistryInv'
  OBVIOUS
<1>1. ASSUME NEW c \in Callers, Step(c) PROVE RegistryInv'
  BY <1>1, BeginKeeps, HandlesKeeps, LockContextKeeps, UseKeeps, MarkKeeps, ForgetKeeps,
     CleanupKeeps, AdmitKeeps, CopyKeeps, InsertKeeps, WithdrawKeeps DEF Step
<1>2. CASE UNCHANGED vars
  <2>1. UNCHANGED <<table, discarded, files, changes, lock, pc, want, targets, held, outcome>>
    BY <1>2 DEF vars, disk, calls
  <2> QED
    BY <2>1 DEF RegistryInv, TypeOK, HandlesHeld, CreationsApart, Creating, FilesAccounted,
       Answers, CopiesKept
<1> QED
  BY <1>1, <1>2 DEF Next, Done

\* However many calls meet on however many forks: a context is locked by the
\* call that holds it and only while the call runs, a fork being created is no
\* other call's, and a work file without an entry is one that a creation or a
\* discard in progress answers for, or was left by a creation whose copy or
\* context failed (create_fork, discard_fork, with_fork_mut).
THEOREM RegistryInvariant == Spec => []RegistryInv
<1>1. Init => RegistryInv
  BY RegistryInit
<1>2. RegistryInv /\ [Next]_vars => RegistryInv'
  BY RegistryNext
<1> QED
  BY <1>1, <1>2, PTL DEF Spec

\* create_fork never passes max_forks, though it copies the workbook between
\* its two looks at the table, and once no call is running the work files are
\* those of the forks in the table and those that creations left which returned
\* an error after they had begun to copy.
THEOREM RegistrySafe == Spec => []RegistryHolds
<1>1. RegistryInv => RegistryHolds
  <2> SUFFICES ASSUME RegistryInv, \A c \in Callers : pc[c] \in {"start", "done"}
               PROVE  table \subseteq files /\ files \subseteq table \cup LeftBehind
    BY DEF RegistryHolds, RegistryInv
  <2>1. table \subseteq files
    BY DEF RegistryInv, FilesAccounted
  <2>2. ASSUME NEW f \in files, f \notin table PROVE f \in LeftBehind
    <3>1. PICK c \in Callers : Answers(c, f)
      BY <2>2 DEF RegistryInv, FilesAccounted
    <3>2. outcome[c] = "failed" /\ f \in ToSet(targets[c])
      BY <3>1 DEF Answers
    <3> QED
      BY <3>2 DEF LeftBehind
  <2> QED
    BY <2>1, <2>2
<1> QED
  BY <1>1, RegistryInvariant, PTL

\* A context that is marked discarded is never changed again by a call that
\* took its handle before the mark: with_fork_mut and snapshot_forks look at
\* the mark once they hold the context's mutex.
THEOREM DiscardedContextsStay == Spec => DiscardedStaysAsItWas
<1>1. RegistryInv /\ [Next]_vars => [\A f \in discarded : changes'[f] = changes[f]]_vars
  <2> SUFFICES ASSUME RegistryInv, Next, NEW f \in discarded
               PROVE  changes'[f] = changes[f]
    OBVIOUS
  <2>1. f \in ForkIds /\ changes \in [ForkIds -> Nat]
    BY DEF RegistryInv, TypeOK
  <2>2. ASSUME NEW c \in Callers, Use(c) PROVE changes'[f] = changes[f]
    <3>1. CASE held[c] \cap discarded # {}
      BY <2>2, <3>1 DEF Use
    <3>2. CASE held[c] \cap discarded = {}
      BY <2>1, <2>2, <3>2 DEF Use
    <3> QED
      BY <3>1, <3>2
  <2>3. ASSUME NEW c \in Callers, Step(c), ~Use(c) PROVE changes' = changes
    BY <2>3 DEF Step, Begin, Handles, LockContext, Mark, Forget, Cleanup, Admit, Copy, Insert, Withdraw, disk
  <2>4. CASE UNCHANGED vars
    BY <2>4 DEF vars, disk
  <2> QED
    BY <2>2, <2>3, <2>4 DEF Next, Done
<1> QED
  BY <1>1, RegistryInvariant, PTL DEF Spec, DiscardedStaysAsItWas

=============================================================================
