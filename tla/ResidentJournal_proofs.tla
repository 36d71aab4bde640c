----------------------- MODULE ResidentJournal_proofs -----------------------
(***************************************************************************)
(* The journal file implements the log its callers rely on, for any number *)
(* of processes, request identities, fingerprints, attempts and failures.  *)
(***************************************************************************)
EXTENDS ResidentJournal, TLAPS

\* What is proved of the log, at the journal's view of it.
LogProofs == INSTANCE DurableLog_proofs WITH
    Records <- Record,
    log <- lines,
    firm <- IF entry = "durable" THEN synced ELSE 0

\* The shapes of the two calls.
LEMMA CallParts ==
  ASSUME NEW c \in Calls
  PROVE  /\ c.op = "commit" => c.rec \in Record /\ RequestOf(c) = c.rec.req
         /\ c.op = "reconcile" => RequestOf(c) = c.req
BY DEF Calls, NoCall, RequestOf

LEMMA RecordParts ==
  ASSUME NEW r \in Record
  PROVE  r.id \in Nat /\ r.id \in Ids
BY BoundsAssumption DEF Record, Ids

LEMMA Prefix ==
  ASSUME NEW S, NEW s \in Seq(S), NEW n \in 0..Len(s)
  PROVE  /\ SubSeq(s, 1, n) \in Seq(S)
         /\ Len(SubSeq(s, 1, n)) = n
         /\ \A i \in 1..n : SubSeq(s, 1, n)[i] = s[i]
OBVIOUS

LEMMA TipTypes ==
  ASSUME NEW s \in Seq(Record)
  PROVE  Log!Tip(s) \in Ids \cup {NoCommit}
<1>1. CASE s = <<>>
  BY <1>1 DEF Log!Tip
<1>2. CASE s # <<>>
  <2>1. s[Len(s)] \in Record
    BY <1>2
  <2>2. QED BY <2>1, <1>2, RecordParts DEF Log!Tip
<1>3. QED BY <1>1, <1>2

\* Return resets the call of one process and releases the lock it holds.
LEMMA ReturnTypes ==
  ASSUME TypeOK, NEW p \in Procs, Return(p)
  PROVE  /\ pc' \in [Procs -> Steps] /\ call' \in [Procs -> Calls]
         /\ loaded' \in [Procs -> Seq(Record)] /\ lock' \in Procs \cup {NoProc}
<1>1. <<>> \in Seq(Record)
  OBVIOUS
<1>2. QED
  BY <1>1 DEF TypeOK, Return, Steps, Calls, NoCall

\* Every step keeps the types of the file, the calls and the observers.
LEMMA TypeStep == TypeOK /\ ViewIsExact /\ [Next]_vars => TypeOK'
<1> SUFFICES ASSUME TypeOK, ViewIsExact, [Next]_vars PROVE TypeOK'
  OBVIOUS
<1> USE BoundsAssumption
<1>1. ASSUME NEW p \in Procs, Load(p) PROVE TypeOK'
  <2>1. Log!Tip(lines) \in Ids \cup {NoCommit}
    BY TipTypes DEF TypeOK
  <2>2. QED
    BY <1>1, <2>1 DEF Load, TypeOK, disk, observers
<1>2. ASSUME NEW p \in Procs, StartCommit(p) PROVE TypeOK'
  <2>1. attempts + 1 \in Ids /\ attempts' \in 0..MaxAttempts
    BY <1>2 DEF StartCommit, TypeOK, Ids
  <2>2. PICK q \in Requests, f \in Fingerprints :
          LET r == [id |-> attempts + 1, req |-> q, fp |-> f, parent |-> tip[p]]
          IN  /\ call' = [call EXCEPT ![p] = [op |-> "commit", rec |-> r]]
              /\ tried' = [tried EXCEPT ![p] = @ \cup {r}]
    BY <1>2 DEF StartCommit
  <2> DEFINE r == [id |-> attempts + 1, req |-> q, fp |-> f, parent |-> tip[p]]
  <2>3. r \in Record
    BY <2>1 DEF Record, TypeOK
  <2>4. [op |-> "commit", rec |-> r] \in Calls
    BY <2>3 DEF Calls
  <2>5. call' \in [Procs -> Calls] /\ tried' \in [Procs -> SUBSET Record]
    <3> HIDE DEF r
    <3>1. /\ call' = [call EXCEPT ![p] = [op |-> "commit", rec |-> r]]
          /\ tried' = [tried EXCEPT ![p] = @ \cup {r}]
      BY <2>2 DEF r
    <3>2. QED BY <3>1, <2>3, <2>4 DEF TypeOK
  <2>6. pc' \in [Procs -> Steps]
    BY <1>2 DEF StartCommit, Goto, Steps, TypeOK
  <2>7. QED
    BY <1>2, <2>1, <2>5, <2>6 DEF StartCommit, TypeOK, disk
<1>3. ASSUME NEW p \in Procs, StartReconcile(p) PROVE TypeOK'
  <2>1. call' \in [Procs -> Calls]
    BY <1>3 DEF StartReconcile, TypeOK, Calls
  <2>2. QED
    BY <1>3, <2>1 DEF StartReconcile, TypeOK, Goto, Steps, disk, observers
<1>4. ASSUME NEW p \in Procs, LockAndLoad(p) PROVE TypeOK'
  BY <1>4 DEF LockAndLoad, TypeOK, Goto, Steps, Locked, disk, observers
<1>5. ASSUME NEW p \in Procs, Refuse(p) PROVE TypeOK'
  BY <1>5, ReturnTypes DEF Refuse, TypeOK, disk, observers
<1>6. ASSUME NEW p \in Procs, OpenForAppend(p) PROVE TypeOK'
  BY <1>6 DEF OpenForAppend, TypeOK, Goto, Steps, Locked, observers
<1>7. ASSUME NEW p \in Procs, SyncCut(p) PROVE TypeOK'
  BY <1>7 DEF SyncCut, TypeOK, Goto, Steps, Locked, observers
<1>8. ASSUME NEW p \in Procs, WritePart(p) PROVE TypeOK'
  BY <1>8 DEF WritePart, TypeOK, Goto, Steps, Locked, observers
<1>9. ASSUME NEW p \in Procs, WriteRest(p) PROVE TypeOK'
  <2>1. call[p].rec \in Record
    BY <1>9, CallParts DEF WriteRest, ViewIsExact, View, Admits, TypeOK
  <2>2. lines' \in Seq(Record) /\ Len(lines') = Len(lines) + 1
    BY <1>9, <2>1 DEF WriteRest, TypeOK
  <2>3. QED
    BY <1>9, <2>2 DEF WriteRest, TypeOK, Goto, Steps, Locked, observers
<1>10. ASSUME NEW p \in Procs, OpenForAnswer(p) PROVE TypeOK'
  BY <1>10 DEF OpenForAnswer, TypeOK, Goto, Steps, Locked, observers
<1>11. ASSUME NEW p \in Procs, SyncFile(p) PROVE TypeOK'
  BY <1>11 DEF SyncFile, TypeOK, Goto, Steps, Locked, observers
<1>12. ASSUME NEW p \in Procs, SyncDirectory(p) PROVE TypeOK'
  BY <1>12 DEF SyncDirectory, TypeOK, Goto, Steps, Locked, observers
<1>13. ASSUME NEW p \in Procs, AnswerNew(p) PROVE TypeOK'
  <2>1. call[p].rec \in Record
    BY <1>13, CallParts DEF AnswerNew, TypeOK
  <2>2. Len(loaded[p]) + 1 \in Nat \ {0}
    BY DEF TypeOK
  <2>3. told' \subseteq [seq : Nat \ {0}, rec : Record]
    BY <1>13, <2>1, <2>2 DEF AnswerNew, TypeOK
  <2>4. QED
    BY <1>13, <2>3, ReturnTypes DEF AnswerNew, TypeOK, disk
<1>14. ASSUME NEW p \in Procs, AnswerExisting(p) PROVE TypeOK'
  <2>1. PICK i \in Matches(loaded[p], call[p]) :
          told' = told \cup {[seq |-> i, rec |-> loaded[p][i]]}
    BY <1>14 DEF AnswerExisting
  <2>2. i \in Nat \ {0} /\ loaded[p][i] \in Record
    BY <2>1 DEF Matches, TypeOK
  <2>3. told' \subseteq [seq : Nat \ {0}, rec : Record]
    BY <2>1, <2>2 DEF TypeOK
  <2>4. QED
    BY <1>14, <2>3, ReturnTypes DEF AnswerExisting, TypeOK, disk
<1>15. ASSUME NEW p \in Procs, AnswerMismatch(p) PROVE TypeOK'
  BY <1>15, ReturnTypes DEF AnswerMismatch, TypeOK, disk, observers
<1>16. ASSUME NEW p \in Procs, AnswerNotFound(p) PROVE TypeOK'
  <2>1. refuted' \subseteq Ids
    BY <1>16, RecordParts DEF AnswerNotFound, TypeOK
  <2>2. QED
    BY <1>16, <2>1, ReturnTypes DEF AnswerNotFound, TypeOK, disk
<1>17. ASSUME NEW p \in Procs, IoError(p) PROVE TypeOK'
  BY <1>17, ReturnTypes DEF IoError, TypeOK, disk, observers
<1>18. ASSUME NEW p \in Procs, Kill(p) PROVE TypeOK'
  BY <1>18, ReturnTypes DEF Kill, TypeOK, disk, observers
<1>19. CASE PowerLoss
  <2>1. /\ lines' \in Seq(Record) /\ synced' \in 0..Len(lines')
        /\ tail' \in {"none", "torn", "cut"} /\ entry' \in {"absent", "visible", "durable"}
    <3>1. CASE entry' = "absent" /\ lines' = <<>> /\ tail' = "none" /\ synced' = 0
      BY <3>1
    <3>2. CASE /\ entry' = "durable"
               /\ \E n \in synced..Len(lines) :
                    /\ lines' = SubSeq(lines, 1, n)
                    /\ synced' = n
                    /\ tail' \in {"none", "torn"}
      <4>1. PICK n \in synced..Len(lines) :
              lines' = SubSeq(lines, 1, n) /\ synced' = n /\ tail' \in {"none", "torn"}
        BY <3>2
      <4>2. n \in 0..Len(lines)
        BY <4>1 DEF TypeOK
      <4>3. lines' \in Seq(Record) /\ Len(lines') = n
        BY <4>1, <4>2, Prefix DEF TypeOK
      <4>4. QED BY <4>1, <4>2, <4>3, <3>2
    <3>3. QED BY <1>19, <3>1, <3>2 DEF PowerLoss
  <2>2. QED
    BY <1>19, <2>1 DEF PowerLoss, TypeOK, Steps, Calls, NoCall, observers
<1>20. CASE UNCHANGED vars
  BY <1>20 DEF vars, disk, observers, TypeOK
<1>21. QED
  BY <1>1, <1>2, <1>3, <1>4, <1>5, <1>6, <1>7, <1>8, <1>9, <1>10, <1>11, <1>12, <1>13, <1>14,
     <1>15, <1>16, <1>17, <1>18, <1>19, <1>20 DEF Next, Call

-----------------------------------------------------------------------------
(* Mutual exclusion.                                                       *)

\* A call that ends leaves the lock free, or with whoever holds it.
LEMMA ReturnLock ==
  ASSUME TypeOK, LockHeldByOne, NEW p \in Procs, Return(p)
  PROVE  LockHeldByOne'
BY SentinelAssumption DEF TypeOK, LockHeldByOne, Return, Locked

\* A process without the lock has no step that needs it, and flock gives it to
\* one process at a time.
LEMMA LockStep == TypeOK /\ LockHeldByOne /\ [Next]_vars => LockHeldByOne'
<1> SUFFICES ASSUME TypeOK, LockHeldByOne, [Next]_vars PROVE LockHeldByOne'
  OBVIOUS
<1>1. ASSUME NEW p \in Procs, LockAndLoad(p) PROVE LockHeldByOne'
  BY <1>1, SentinelAssumption DEF LockAndLoad, TypeOK, LockHeldByOne, Goto, Locked
<1>2. ASSUME NEW p \in Procs, StartCommit(p) \/ StartReconcile(p) PROVE LockHeldByOne'
  BY <1>2 DEF StartCommit, StartReconcile, TypeOK, LockHeldByOne, Goto, Locked
<1>3. ASSUME NEW p \in Procs,
             \/ OpenForAppend(p) \/ SyncCut(p) \/ WritePart(p) \/ WriteRest(p)
             \/ OpenForAnswer(p) \/ SyncFile(p) \/ SyncDirectory(p)
      PROVE  LockHeldByOne'
  <2>1. pc[p] \in Locked /\ lock' = lock /\ \E s \in Locked : pc' = [pc EXCEPT ![p] = s]
    BY <1>3 DEF OpenForAppend, SyncCut, WritePart, WriteRest, OpenForAnswer, SyncFile,
                SyncDirectory, Goto, Locked
  <2>2. QED
    BY <2>1 DEF TypeOK, LockHeldByOne
<1>4. ASSUME NEW p \in Procs,
             \/ Refuse(p) \/ AnswerNew(p) \/ AnswerExisting(p) \/ AnswerMismatch(p)
             \/ AnswerNotFound(p) \/ IoError(p) \/ Kill(p)
      PROVE  LockHeldByOne'
  BY <1>4, ReturnLock DEF Refuse, AnswerNew, AnswerExisting, AnswerMismatch, AnswerNotFound,
                          IoError, Kill
<1>5. CASE PowerLoss
  BY <1>5, SentinelAssumption DEF PowerLoss, LockHeldByOne, Locked
<1>6. ASSUME NEW p \in Procs, Load(p) PROVE LockHeldByOne'
  BY <1>6 DEF Load, LockHeldByOne
<1>7. CASE UNCHANGED vars
  BY <1>7 DEF vars, LockHeldByOne
<1>8. QED
  BY <1>1, <1>2, <1>3, <1>4, <1>5, <1>6, <1>7 DEF Next, Call

-----------------------------------------------------------------------------
(* Identities.                                                             *)

\* A call that ends is no longer an attempt in progress.
LEMMA ReturnFresh ==
  ASSUME TypeOK, IdentitiesFresh, NEW p \in Procs, Return(p),
         UNCHANGED <<lines, attempts, tried, refuted>>
  PROVE  IdentitiesFresh'
<1>1. \A q \in Procs : call'[q].op = "commit" => call'[q] = call[q]
  BY DEF Return, TypeOK, NoCall
<1>2. QED
  BY <1>1 DEF IdentitiesFresh

\* Commit identities stay unique, and NotFound never covers an attempt still
\* in progress: the caller that asks has none.
LEMMA FreshStep == TypeOK /\ IdentitiesFresh /\ ViewIsExact /\ [Next]_vars => IdentitiesFresh'
<1> SUFFICES ASSUME TypeOK, IdentitiesFresh, ViewIsExact, [Next]_vars PROVE IdentitiesFresh'
  OBVIOUS
<1>1. ASSUME NEW p \in Procs, StartCommit(p) PROVE IdentitiesFresh'
  <2>1. PICK q \in Requests, f \in Fingerprints :
          LET r == [id |-> attempts + 1, req |-> q, fp |-> f, parent |-> tip[p]]
          IN  /\ call' = [call EXCEPT ![p] = [op |-> "commit", rec |-> r]]
              /\ tried' = [tried EXCEPT ![p] = @ \cup {r}]
    BY <1>1 DEF StartCommit
  <2> DEFINE r == [id |-> attempts + 1, req |-> q, fp |-> f, parent |-> tip[p]]
  <2>2. /\ call' = [call EXCEPT ![p] = [op |-> "commit", rec |-> r]]
        /\ tried' = [tried EXCEPT ![p] = @ \cup {r}]
        /\ r.id = attempts + 1
    BY <2>1
  <2> HIDE DEF r
  <2>3. /\ attempts \in Nat /\ attempts' = attempts + 1
        /\ lines' = lines /\ refuted' = refuted
    BY <1>1, BoundsAssumption DEF StartCommit, TypeOK, disk
  <2>4. \A s \in Procs : tried'[s] = IF s = p THEN tried[p] \cup {r} ELSE tried[s]
    BY <2>2 DEF TypeOK
  <2>5. \A s \in Procs : \A a \in tried[s] : a.id \in Nat /\ a.id <= attempts
    BY RecordParts DEF TypeOK, IdentitiesFresh
  <2>6. \A s \in Procs : \A a \in tried'[s] : a.id <= attempts'
    BY <2>2, <2>3, <2>4, <2>5
  <2>7. ASSUME NEW s \in Procs, NEW t \in Procs, NEW a \in tried'[s], NEW b \in tried'[t], a.id = b.id
        PROVE  s = t /\ a = b
    <3>1. CASE a = r /\ b = r
      <4>1. \A u \in Procs : r \in tried'[u] => u = p
        BY <2>2, <2>3, <2>4, <2>5
      <4>2. QED BY <3>1, <4>1
    <3>2. CASE a # r /\ b = r
      BY <3>2, <2>2, <2>3, <2>4, <2>5, <2>7
    <3>3. CASE a = r /\ b # r
      BY <3>3, <2>2, <2>3, <2>4, <2>5, <2>7
    <3>4. CASE a # r /\ b # r
      <4>1. a \in tried[s] /\ b \in tried[t]
        BY <3>4, <2>4
      <4>2. QED BY <4>1, <2>7 DEF IdentitiesFresh
    <3>5. QED BY <3>1, <3>2, <3>3, <3>4
  <2>8. ASSUME NEW s \in Procs, call'[s].op = "commit"
        PROVE  call'[s].rec \in tried'[s] /\ call'[s].rec.id \notin refuted'
    <3>1. CASE s = p
      <4>1. call'[s].rec = r /\ r \in tried'[s]
        BY <3>1, <2>2, <2>4 DEF TypeOK
      <4>2. r.id \notin refuted
        BY <2>2, <2>3 DEF IdentitiesFresh
      <4>3. QED BY <4>1, <4>2, <2>3
    <3>2. CASE s # p
      BY <3>2, <2>2, <2>3, <2>4, <2>8 DEF TypeOK, IdentitiesFresh
    <3>3. QED BY <3>1, <3>2
  <2>9. \A i \in DOMAIN lines' : \E s \in Procs : lines'[i] \in tried'[s]
    BY <2>3, <2>4 DEF IdentitiesFresh
  <2>10. \A x \in refuted' : x <= attempts'
    BY <2>3, BoundsAssumption DEF IdentitiesFresh, TypeOK, Ids
  <2>11. QED
    BY <2>6, <2>7, <2>8, <2>9, <2>10 DEF IdentitiesFresh
<1>2. ASSUME NEW p \in Procs, StartReconcile(p) PROVE IdentitiesFresh'
  <2>1. \A q \in Procs : call'[q].op = "commit" => call'[q] = call[q]
    BY <1>2 DEF StartReconcile, TypeOK
  <2>2. QED
    BY <1>2, <2>1 DEF StartReconcile, IdentitiesFresh, disk, observers
<1>3. ASSUME NEW p \in Procs, WriteRest(p) PROVE IdentitiesFresh'
  <2>1. call[p].op = "commit" /\ call[p].rec \in tried[p]
    BY <1>3 DEF WriteRest, ViewIsExact, View, Admits, IdentitiesFresh
  <2>2. call[p].rec \in Record
    BY <2>1, CallParts DEF TypeOK
  <2>3. /\ DOMAIN lines' = 1..(Len(lines) + 1) /\ DOMAIN lines = 1..Len(lines) /\ Len(lines) \in Nat
        /\ lines'[Len(lines) + 1] = call[p].rec
        /\ \A i \in 1..Len(lines) : lines'[i] = lines[i]
    BY <1>3, <2>2 DEF WriteRest, TypeOK
  <2>4. \A i \in DOMAIN lines' : \E s \in Procs : lines'[i] \in tried[s]
    BY <2>1, <2>3 DEF IdentitiesFresh
  <2>5. QED
    BY <1>3, <2>4 DEF WriteRest, IdentitiesFresh, observers
<1>4. ASSUME NEW p \in Procs, AnswerNotFound(p) PROVE IdentitiesFresh'
  <2>1. /\ refuted' = refuted \cup {a.id : a \in {b \in tried[p] : b.req = call[p].req}}
        /\ UNCHANGED <<lines, attempts, tried>>
        /\ call[p].op = "reconcile"
    BY <1>4 DEF AnswerNotFound, disk
  <2>2. ASSUME NEW q \in Procs, call'[q].op = "commit"
        PROVE  call'[q] = call[q] /\ q # p
    BY <1>4, <2>2 DEF AnswerNotFound, Return, TypeOK, NoCall
  <2>3. ASSUME NEW q \in Procs, call'[q].op = "commit"
        PROVE  call'[q].rec \in tried'[q] /\ call'[q].rec.id \notin refuted'
    <3>1. call[q].op = "commit" /\ q # p /\ call'[q].rec = call[q].rec
      BY <2>2, <2>3
    <3>2. call[q].rec \in tried[q] /\ call[q].rec.id \notin refuted
      BY <3>1 DEF IdentitiesFresh
    <3>3. \A a \in tried[p] : a.id # call[q].rec.id
      BY <3>1, <3>2 DEF IdentitiesFresh
    <3>4. QED BY <2>1, <3>1, <3>2, <3>3
  <2>4. \A x \in refuted' : x <= attempts'
    BY <2>1 DEF IdentitiesFresh
  <2>5. QED
    BY <2>1, <2>3, <2>4 DEF IdentitiesFresh
<1>5. ASSUME NEW p \in Procs,
             \/ Refuse(p) \/ AnswerNew(p) \/ AnswerExisting(p) \/ AnswerMismatch(p)
             \/ IoError(p) \/ Kill(p)
      PROVE  IdentitiesFresh'
  BY <1>5, ReturnFresh DEF Refuse, AnswerNew, AnswerExisting, AnswerMismatch, IoError, Kill,
                           disk, observers
<1>6. ASSUME NEW p \in Procs,
             \/ Load(p) \/ LockAndLoad(p) \/ OpenForAppend(p) \/ SyncCut(p) \/ WritePart(p)
             \/ OpenForAnswer(p) \/ SyncFile(p) \/ SyncDirectory(p)
      PROVE  IdentitiesFresh'
  <2>1. UNCHANGED <<lines, call, attempts, tried, refuted>>
    BY <1>6 DEF Load, LockAndLoad, OpenForAppend, SyncCut, WritePart, OpenForAnswer, SyncFile,
                SyncDirectory, disk, observers
  <2>2. QED
    BY <2>1 DEF IdentitiesFresh
<1>7. CASE PowerLoss
  <2>1. \A i \in DOMAIN lines' : i \in DOMAIN lines /\ lines'[i] = lines[i]
    <3>1. CASE lines' = <<>>
      BY <3>1
    <3>2. CASE \E n \in synced..Len(lines) : lines' = SubSeq(lines, 1, n)
      <4>1. PICK n \in synced..Len(lines) : lines' = SubSeq(lines, 1, n)
        BY <3>2
      <4>2. n \in 0..Len(lines)
        BY DEF TypeOK
      <4>3. /\ DOMAIN lines' = 1..n /\ DOMAIN lines = 1..Len(lines)
            /\ \A i \in 1..n : lines'[i] = lines[i]
        BY <4>1, <4>2, Prefix DEF TypeOK
      <4>4. QED BY <4>2, <4>3
    <3>3. QED BY <1>7, <3>1, <3>2 DEF PowerLoss
  <2>2. \A q \in Procs : call'[q].op # "commit"
    BY <1>7 DEF PowerLoss, NoCall
  <2>3. UNCHANGED <<attempts, tried, refuted>>
    BY <1>7 DEF PowerLoss, observers
  <2>4. QED
    BY <2>1, <2>2, <2>3 DEF IdentitiesFresh
<1>8. CASE UNCHANGED vars
  BY <1>8 DEF vars, disk, observers, IdentitiesFresh
<1>9. QED
  BY <1>1, <1>2, <1>3, <1>4, <1>5, <1>6, <1>7, <1>8 DEF Next, Call

-----------------------------------------------------------------------------
(* What a call knows of the file.                                          *)

\* A process that does not hold the lock claims nothing about the file.
LEMMA OutsideView ==
  ASSUME NEW q \in Procs, pc'[q] \notin Locked,
         pc'[q] # "idle" => call'[q].op \in {"commit", "reconcile"}
  PROVE  View(q)'
BY DEF View, Locked

\* A process keeps its view while the file and its own call stay as they are.
LEMMA SameView ==
  ASSUME NEW q \in Procs, View(q), pc'[q] = pc[q], call'[q] = call[q], loaded'[q] = loaded[q],
         UNCHANGED <<lines, entry, synced>>
  PROVE  View(q)'
BY DEF View, Admits, AnswersFrom, FoundByLoad, WrittenByCall, Matches

\* While a process holds the lock nobody else looks at the file.
LEMMA OthersView ==
  ASSUME TypeOK, LockHeldByOne, ViewIsExact, NEW p \in Procs, pc[p] \in Locked,
         NEW s, pc' = [pc EXCEPT ![p] = s], call' = call,
         NEW q \in Procs, q # p
  PROVE  View(q)'
<1>1. pc'[q] = pc[q] /\ pc[q] \notin Locked
  BY DEF TypeOK, LockHeldByOne
<1>2. QED
  BY <1>1, OutsideView DEF ViewIsExact, View

\* The end of a call takes nothing from the views of the others.
LEMMA ReturnView ==
  ASSUME TypeOK, ViewIsExact, NEW p \in Procs, Return(p), UNCHANGED <<lines, entry, synced>>
  PROVE  ViewIsExact'
<1>1. View(p)'
  BY OutsideView DEF Return, TypeOK, Locked
<1>2. ASSUME NEW q \in Procs, q # p PROVE View(q)'
  BY <1>2, SameView DEF Return, TypeOK, ViewIsExact
<1>3. QED
  BY <1>1, <1>2 DEF ViewIsExact

\* Every step of the holder keeps its view exact, up to the record it writes.
LEMMA ViewStep == TypeOK /\ LockHeldByOne /\ ViewIsExact /\ [Next]_vars => ViewIsExact'
<1> SUFFICES ASSUME TypeOK, LockHeldByOne, ViewIsExact, [Next]_vars PROVE ViewIsExact'
  OBVIOUS
<1>1. ASSUME NEW p \in Procs, Load(p) PROVE ViewIsExact'
  BY <1>1, SameView DEF Load, ViewIsExact, disk
<1>2. ASSUME NEW p \in Procs, StartCommit(p) \/ StartReconcile(p) PROVE ViewIsExact'
  <2>1. /\ UNCHANGED <<lines, entry, synced, loaded>>
        /\ pc' = [pc EXCEPT ![p] = "lock"]
        /\ call'[p].op \in {"commit", "reconcile"}
        /\ \A q \in Procs \ {p} : call'[q] = call[q]
    BY <1>2 DEF StartCommit, StartReconcile, Goto, TypeOK, disk
  <2>2. View(p)'
    BY <2>1, OutsideView DEF TypeOK, Locked
  <2>3. ASSUME NEW q \in Procs, q # p PROVE View(q)'
    BY <2>1, <2>3, SameView DEF TypeOK, ViewIsExact
  <2>4. QED
    BY <2>1, <2>2, <2>3 DEF ViewIsExact
<1>3. ASSUME NEW p \in Procs, LockAndLoad(p) PROVE ViewIsExact'
  <2>1. /\ UNCHANGED <<lines, entry, synced, call>>
        /\ pc[p] = "lock" /\ pc' = [pc EXCEPT ![p] = "decide"]
        /\ loaded' = [loaded EXCEPT ![p] = lines]
    BY <1>3 DEF LockAndLoad, Goto, disk
  <2>2. View(p)'
    <3>1. pc'[p] = "decide" /\ loaded'[p] = lines'
      BY <2>1 DEF TypeOK
    <3>2. call'[p].op \in {"commit", "reconcile"}
      BY <2>1 DEF ViewIsExact, View
    <3>3. QED BY <3>1, <3>2 DEF View
  <2>3. ASSUME NEW q \in Procs, q # p PROVE View(q)'
    BY <2>1, <2>3, SameView DEF TypeOK, ViewIsExact
  <2>4. QED
    BY <2>1, <2>2, <2>3 DEF ViewIsExact
<1>4. ASSUME NEW p \in Procs,
             \/ Refuse(p) \/ AnswerNew(p) \/ AnswerExisting(p) \/ AnswerMismatch(p)
             \/ AnswerNotFound(p) \/ IoError(p) \/ Kill(p)
      PROVE  ViewIsExact'
  BY <1>4, ReturnView DEF Refuse, AnswerNew, AnswerExisting, AnswerMismatch, AnswerNotFound,
                          IoError, Kill, disk
<1>5. ASSUME NEW p \in Procs, OpenForAppend(p) PROVE ViewIsExact'
  <2>1. /\ pc[p] = "decide" /\ Admits(p) /\ View(p)
        /\ \E s \in {"cutsync", "write"} : pc' = [pc EXCEPT ![p] = s]
        /\ entry' # "absent" /\ UNCHANGED <<lines, synced, call, loaded>>
    BY <1>5 DEF OpenForAppend, Goto, ViewIsExact
  <2>2. View(p)'
    <3>1. pc'[p] \in {"cutsync", "write"}
      BY <2>1 DEF TypeOK
    <3>2. Admits(p)'
      BY <2>1 DEF Admits, Matches
    <3>3. QED BY <2>1, <3>1, <3>2 DEF View
  <2>3. ASSUME NEW q \in Procs, q # p PROVE View(q)'
    BY <2>1, <2>3, OthersView DEF Locked
  <2>4. QED
    BY <2>1, <2>2, <2>3 DEF ViewIsExact
<1>6. ASSUME NEW p \in Procs, SyncCut(p) \/ WritePart(p) PROVE ViewIsExact'
  <2>1. /\ pc[p] \in {"cutsync", "write"} /\ View(p)
        /\ \E s \in {"write", "writing"} : pc' = [pc EXCEPT ![p] = s]
        /\ UNCHANGED <<lines, entry, call, loaded>>
    BY <1>6 DEF SyncCut, WritePart, Goto, ViewIsExact
  <2>2. View(p)'
    <3>1. pc'[p] \in {"write", "writing"}
      BY <2>1 DEF TypeOK
    <3>2. Admits(p)'
      BY <2>1 DEF View, Admits, Matches
    <3>3. QED BY <2>1, <3>1, <3>2 DEF View
  <2>3. ASSUME NEW q \in Procs, q # p PROVE View(q)'
    BY <2>1, <2>3, OthersView DEF Locked
  <2>4. QED
    BY <2>1, <2>2, <2>3 DEF ViewIsExact
<1>7. ASSUME NEW p \in Procs, WriteRest(p) PROVE ViewIsExact'
  <2>1. /\ pc[p] = "writing" /\ View(p)
        /\ pc' = [pc EXCEPT ![p] = "syncfile"]
        /\ lines' = Append(lines, call[p].rec)
        /\ UNCHANGED <<entry, call, loaded>>
    BY <1>7 DEF WriteRest, Goto, ViewIsExact
  <2>2. Admits(p) /\ loaded[p] = lines /\ entry # "absent"
    BY <2>1 DEF View
  <2>3. WrittenByCall(p)'
    BY <2>1, <2>2 DEF WrittenByCall, Admits, Matches
  <2>4. View(p)'
    <3>1. pc'[p] = "syncfile"
      BY <2>1 DEF TypeOK
    <3>2. QED BY <2>1, <2>2, <2>3, <3>1 DEF View
  <2>5. ASSUME NEW q \in Procs, q # p PROVE View(q)'
    BY <2>1, <2>5, OthersView DEF Locked
  <2>6. QED
    BY <2>1, <2>2, <2>4, <2>5 DEF ViewIsExact
<1>8. ASSUME NEW p \in Procs, OpenForAnswer(p) PROVE ViewIsExact'
  <2>1. /\ pc[p] = "decide" /\ AnswersFrom(p) /\ View(p)
        /\ UNCHANGED <<lines, entry, synced, call, loaded>>
        /\ pc' = [pc EXCEPT ![p] = IF entry = "absent" THEN "answer" ELSE "syncfile"]
    BY <1>8 DEF OpenForAnswer, Goto, ViewIsExact
  <2>2. FoundByLoad(p)'
    BY <2>1 DEF View, FoundByLoad, AnswersFrom, Matches
  <2>3. entry = "absent" => lines = <<>> /\ synced = Len(lines)
    BY DEF ViewIsExact, TypeOK
  <2>4. View(p)'
    <3>1. pc'[p] = IF entry = "absent" THEN "answer" ELSE "syncfile"
      BY <2>1 DEF TypeOK
    <3>2. QED BY <2>1, <2>2, <2>3, <3>1 DEF View
  <2>5. ASSUME NEW q \in Procs, q # p PROVE View(q)'
    BY <2>1, <2>5, OthersView DEF Locked
  <2>6. QED
    BY <2>1, <2>4, <2>5 DEF ViewIsExact
<1>9. ASSUME NEW p \in Procs, SyncFile(p) \/ SyncDirectory(p) PROVE ViewIsExact'
  <2>1. /\ pc[p] \in {"syncfile", "syncdir"} /\ View(p)
        /\ UNCHANGED <<lines, call, loaded>> /\ synced' = Len(lines')
    BY <1>9 DEF SyncFile, SyncDirectory, ViewIsExact, View
  <2>2. \/ pc' = [pc EXCEPT ![p] = "syncdir"] /\ entry' = entry
        \/ pc' = [pc EXCEPT ![p] = "answer"] /\ entry' = "durable"
    BY <1>9 DEF SyncFile, SyncDirectory, Goto
  <2>3. entry' # "absent"
    BY <2>1, <2>2 DEF View
  <2>4. View(p)'
    <3>1. (FoundByLoad(p) \/ WrittenByCall(p))'
      BY <2>1 DEF View, FoundByLoad, WrittenByCall, AnswersFrom, Matches
    <3>2. \/ pc'[p] = "syncdir" /\ entry' = entry
          \/ pc'[p] = "answer" /\ entry' = "durable"
      BY <2>2 DEF TypeOK
    <3>3. call'[p].op \in {"commit", "reconcile"}
      BY <2>1 DEF View
    <3>4. QED BY <2>1, <2>3, <3>1, <3>2, <3>3 DEF View
  <2>5. ASSUME NEW q \in Procs, q # p PROVE View(q)'
    BY <2>1, <2>2, <2>5, OthersView DEF Locked
  <2>6. QED
    BY <2>3, <2>4, <2>5 DEF ViewIsExact
<1>10. CASE PowerLoss
  <2>1. \A q \in Procs : View(q)'
    BY <1>10, OutsideView DEF PowerLoss, Locked
  <2>2. entry' = "absent" => lines' = <<>>
    BY <1>10 DEF PowerLoss
  <2>3. QED
    BY <2>1, <2>2 DEF ViewIsExact
<1>11. CASE UNCHANGED vars
  BY <1>11, SameView DEF vars, disk, ViewIsExact
<1>12. QED
  BY <1>1, <1>2, <1>3, <1>4, <1>5, <1>6, <1>7, <1>8, <1>9, <1>10, <1>11 DEF Next, Call

-----------------------------------------------------------------------------
(* The invariant.                                                          *)

\* The types and the inductive invariant, for every run of the journal.
THEOREM JournalInvariant == Spec => [](TypeOK /\ JournalInv)
<1>1. Init => TypeOK /\ JournalInv
  <2> SUFFICES ASSUME Init PROVE TypeOK /\ JournalInv
    OBVIOUS
  <2>1. TypeOK
    BY BoundsAssumption DEF Init, TypeOK, Steps, Calls, NoCall
  <2>2. LockHeldByOne
    BY SentinelAssumption DEF Init, LockHeldByOne, Locked
  <2>3. IdentitiesFresh
    BY DEF Init, IdentitiesFresh, NoCall
  <2>4. ViewIsExact
    BY DEF Init, ViewIsExact, View
  <2>5. QED BY <2>1, <2>2, <2>3, <2>4 DEF JournalInv
<1>2. TypeOK /\ JournalInv /\ [Next]_vars => (TypeOK /\ JournalInv)'
  BY TypeStep, LockStep, FreshStep, ViewStep DEF JournalInv
<1>3. QED
  BY <1>1, <1>2, PTL DEF Spec

\* Type correctness, for every number of processes, requests and failures.
THEOREM JournalTypes == Spec => []TypeOK
BY JournalInvariant, PTL

-----------------------------------------------------------------------------
(* The refinement.                                                         *)

\* Steps that leave the visible lines, what is durable and the answers alone.
LEMMA Stutters ==
  ASSUME UNCHANGED <<lines, entry, synced, told, refuted>>
  PROVE  UNCHANGED Log!vars
BY DEF Log!vars

\* Writing the end of the line is the append of the log.
LEMMA WriteIsAppend ==
  ASSUME TypeOK, JournalInv, NEW p \in Procs, WriteRest(p)
  PROVE  Log!Next
<1> DEFINE r == call[p].rec
<1>1. /\ Admits(p) /\ loaded[p] = lines /\ call[p].op = "commit"
  BY DEF WriteRest, JournalInv, ViewIsExact, View, Admits
<1>2. r \in Record /\ r.id \notin refuted
  BY <1>1, CallParts DEF TypeOK, JournalInv, IdentitiesFresh
<1>3. r.parent = Log!Tip(lines) /\ Log!OncePerIdentity(Append(lines, r))
  BY <1>1 DEF Admits, Replays
<1> HIDE DEF r
<1>4. \A i \in DOMAIN lines : lines[i].id # r.id /\ lines[i].req # r.req
  <2> TAKE i \in DOMAIN lines
  <2> DEFINE t == Append(lines, r)
  <2>1. /\ i \in DOMAIN t /\ Len(lines) + 1 \in DOMAIN t /\ i # Len(lines) + 1
        /\ t[i] = lines[i] /\ t[Len(lines) + 1] = r
    BY <1>2 DEF TypeOK
  <2>2. QED BY <1>3, <2>1 DEF Log!OncePerIdentity
<1>5. lines' = Append(lines, r) /\ UNCHANGED <<entry, synced, told, refuted>>
  BY DEF WriteRest, observers, r
<1>6. Log!AppendRecord(r)
  BY <1>2, <1>3, <1>4, <1>5 DEF Log!AppendRecord
<1>7. QED
  BY <1>2, <1>6 DEF Log!Next

\* A completed fsync of an entered file hardens the log; so does entering a
\* file whose lines are synced.
LEMMA SyncIsHarden ==
  ASSUME TypeOK, JournalInv, NEW p \in Procs, SyncCut(p) \/ SyncFile(p) \/ SyncDirectory(p)
  PROVE  Log!Next \/ UNCHANGED Log!vars
<1>1. UNCHANGED <<lines, told, refuted>>
  BY DEF SyncCut, SyncFile, SyncDirectory, observers
<1>2. CASE SyncDirectory(p)
  <2>1. synced = Len(lines) /\ synced' = synced /\ entry' = "durable"
    BY <1>2 DEF SyncDirectory, JournalInv, ViewIsExact, View
  <2>2. Log!Harden
    BY <1>1, <2>1 DEF Log!Harden
  <2>3. QED BY <2>2 DEF Log!Next
<1>3. CASE SyncCut(p) \/ SyncFile(p)
  <2>1. synced' = Len(lines) /\ entry' = entry
    BY <1>3 DEF SyncCut, SyncFile
  <2>2. CASE entry = "durable"
    BY <1>1, <2>1, <2>2 DEF Log!Harden, Log!Next
  <2>3. CASE entry # "durable"
    BY <1>1, <2>1, <2>3 DEF Log!vars
  <2>4. QED BY <2>2, <2>3
<1>4. QED BY <1>2, <1>3

\* Committed is answered only of a record that survives.
LEMMA AnswerIsTold ==
  ASSUME TypeOK, JournalInv, NEW p \in Procs, AnswerNew(p) \/ AnswerExisting(p)
  PROVE  Log!Next
<1>1. /\ pc[p] = "answer" /\ View(p)
      /\ UNCHANGED <<lines, entry, synced, refuted>>
  BY DEF AnswerNew, AnswerExisting, JournalInv, ViewIsExact, disk
<1>2. \E i \in DOMAIN lines : told' = told \cup {[seq |-> i, rec |-> lines[i]]}
  <2>1. CASE AnswerNew(p)
    <3>1. WrittenByCall(p)
      BY <2>1, <1>1 DEF AnswerNew, View, FoundByLoad, AnswersFrom
    <3>2. call[p].rec \in Record
      BY <2>1, CallParts DEF AnswerNew, TypeOK
    <3>3. /\ Len(loaded[p]) + 1 \in DOMAIN lines
          /\ lines[Len(loaded[p]) + 1] = call[p].rec
      BY <3>1, <3>2 DEF WrittenByCall, TypeOK
    <3>4. QED BY <2>1, <3>3 DEF AnswerNew
  <2>2. CASE AnswerExisting(p)
    <3>1. PICK i \in Matches(loaded[p], call[p]) :
            told' = told \cup {[seq |-> i, rec |-> loaded[p][i]]}
      BY <2>2 DEF AnswerExisting
    <3>2. loaded[p] = lines
      BY <1>1, <3>1 DEF View, FoundByLoad, WrittenByCall
    <3>3. QED BY <3>1, <3>2 DEF Matches
  <2>3. QED BY <2>1, <2>2
<1>3. PICK i \in DOMAIN lines : told' = told \cup {[seq |-> i, rec |-> lines[i]]}
  BY <1>2
<1>4. entry = "durable" /\ synced = Len(lines) /\ i <= Len(lines)
  BY <1>1, <1>3 DEF View, TypeOK
<1>5. Log!TellCommitted(i)
  BY <1>1, <1>3, <1>4 DEF Log!TellCommitted
<1>6. QED
  BY <1>3, <1>5 DEF Log!Next

\* NotFound is answered only of attempts that are not in the file: a line with
\* the identity of one of them would be that attempt, and carry its request.
LEMMA NotFoundIsTold ==
  ASSUME TypeOK, JournalInv, NEW p \in Procs, AnswerNotFound(p)
  PROVE  Log!Next
<1> DEFINE ids == {a.id : a \in {b \in tried[p] : b.req = call[p].req}}
<1>1. /\ pc[p] = "answer" /\ View(p) /\ call[p].op = "reconcile"
      /\ Matches(loaded[p], call[p]) = {}
      /\ refuted' = refuted \cup ids
      /\ UNCHANGED <<lines, entry, synced, told>>
  BY DEF AnswerNotFound, JournalInv, ViewIsExact, disk
<1>2. loaded[p] = lines /\ RequestOf(call[p]) = call[p].req
  BY <1>1, CallParts DEF View, FoundByLoad, WrittenByCall, TypeOK
<1>3. \A i \in DOMAIN lines : lines[i].req # call[p].req
  BY <1>1, <1>2 DEF Matches
<1>4. ASSUME NEW i \in DOMAIN lines, NEW a \in tried[p], lines[i].id = a.id
      PROVE  lines[i] = a
  BY <1>4 DEF JournalInv, IdentitiesFresh
<1>5. ids \cap Log!IdsOf(lines) = {}
  BY <1>3, <1>4 DEF Log!IdsOf
<1>6. ids \in SUBSET Ids
  BY RecordParts DEF TypeOK
<1> HIDE DEF ids
<1>7. Log!TellNotFound(ids)
  BY <1>1, <1>5 DEF Log!TellNotFound
<1>8. QED
  BY <1>6, <1>7 DEF Log!Next

\* A power loss takes a suffix that no answer rests on.
LEMMA PowerLossIsLoss ==
  ASSUME TypeOK, JournalInv, PowerLoss
  PROVE  Log!Next
<1>1. UNCHANGED <<told, refuted>> /\ Len(lines) \in Nat
  BY DEF PowerLoss, observers, TypeOK
<1>2. CASE entry = "visible" /\ entry' = "absent" /\ lines' = <<>>
  <2>1. SubSeq(lines, 1, 0) = <<>> /\ 0 \in 0..Len(lines)
    BY <1>1 DEF TypeOK
  <2>2. Log!Lose(0)
    BY <1>1, <1>2, <2>1 DEF Log!Lose
  <2>3. QED BY <2>1, <2>2 DEF Log!Next
<1>3. CASE /\ entry' = "durable"
           /\ \E n \in synced..Len(lines) : lines' = SubSeq(lines, 1, n) /\ synced' = n
  <2>1. PICK n \in synced..Len(lines) : lines' = SubSeq(lines, 1, n) /\ synced' = n
    BY <1>3
  <2>2. n \in 0..Len(lines) /\ n >= (IF entry = "durable" THEN synced ELSE 0)
    BY DEF TypeOK
  <2>3. Log!Lose(n)
    BY <1>1, <1>3, <2>1, <2>2 DEF Log!Lose
  <2>4. QED BY <2>2, <2>3 DEF Log!Next
<1>4. QED
  BY <1>2, <1>3 DEF PowerLoss

\* Every step of the journal is a step of the log or changes nothing in it.
LEMMA StepRefines ==
  TypeOK /\ JournalInv /\ [Next]_vars => [Log!Next]_(Log!vars)
<1> SUFFICES ASSUME TypeOK, JournalInv, [Next]_vars
             PROVE  Log!Next \/ UNCHANGED Log!vars
  OBVIOUS
<1>1. ASSUME NEW p \in Procs,
             \/ Load(p) \/ StartCommit(p) \/ StartReconcile(p) \/ LockAndLoad(p) \/ Refuse(p)
             \/ WritePart(p) \/ OpenForAnswer(p) \/ AnswerMismatch(p) \/ IoError(p) \/ Kill(p)
      PROVE  UNCHANGED Log!vars
  BY <1>1, Stutters DEF Load, StartCommit, StartReconcile, LockAndLoad, Refuse, WritePart,
                        OpenForAnswer, AnswerMismatch, IoError, Kill, disk, observers
<1>2. ASSUME NEW p \in Procs, OpenForAppend(p) PROVE UNCHANGED Log!vars
  BY <1>2 DEF OpenForAppend, observers, Log!vars
<1>3. CASE UNCHANGED vars
  BY <1>3, Stutters DEF vars, disk, observers
<1>4. QED
  BY <1>1, <1>2, <1>3, WriteIsAppend, SyncIsHarden, AnswerIsTold, NotFoundIsTold, PowerLossIsLoss
  DEF Next, Call

\* NativeResidentJournal implements ResidentCommitStorage: whatever processes,
\* errors, kills and power losses do, callers see the durable log.
THEOREM JournalImplementsLog == Spec => ImplementsDurableLog
<1>1. Init => Log!Init
  BY DEF Init, Log!Init
<1>2. QED
  BY <1>1, StepRefines, JournalInvariant, PTL DEF Spec, Log!Spec, ImplementsDurableLog

\* The guarantees of the log hold of the journal.
LEMMA LogSafe == Spec => []Log!Safe
<1>1. Log!Init => LogProofs!Init
  BY DEF Log!Init, LogProofs!Init
<1>2. [Log!Next]_(Log!vars) => [LogProofs!Next]_(LogProofs!vars)
  BY DEF Log!Next, Log!vars, LogProofs!Next, LogProofs!vars,
         Log!AppendRecord, Log!Harden, Log!TellCommitted, Log!TellNotFound, Log!Lose,
         LogProofs!AppendRecord, LogProofs!Harden, LogProofs!TellCommitted,
         LogProofs!TellNotFound, LogProofs!Lose, Log!Tip, LogProofs!Tip,
         Log!IdsOf, LogProofs!IdsOf
<1>3. LogProofs!Safe => Log!Safe
  BY DEF LogProofs!Safe, Log!Safe, LogProofs!Chained, Log!Chained, LogProofs!OncePerIdentity,
         Log!OncePerIdentity, LogProofs!ToldIsKept, Log!ToldIsKept,
         LogProofs!RefutedStaysOut, Log!RefutedStaysOut, LogProofs!IdsOf, Log!IdsOf
<1>4. QED
  BY <1>1, <1>2, <1>3, JournalImplementsLog, LogProofs!LogSafety, PTL
  DEF ImplementsDurableLog, Log!Spec, LogProofs!Spec

\* An acknowledged record survives every later error, kill and power loss.
THEOREM AcknowledgedRecordsSurvive == Spec => []AcknowledgedSurvives
<1>1. Log!Safe => AcknowledgedSurvives
  BY DEF Log!Safe, AcknowledgedSurvives
<1>2. QED BY <1>1, LogSafe, PTL

\* NotFound is final: the attempt it covers never becomes visible.
THEOREM NotFoundStays == Spec => []NotFoundIsFinal
<1>1. Log!Safe => NotFoundIsFinal
  BY DEF Log!Safe, NotFoundIsFinal
<1>2. QED BY <1>1, LogSafe, PTL

\* A request identity is acknowledged with one commit, for ever.
THEOREM OneOutcome == Spec => []OneOutcomePerRequest
<1>1. TypeOK /\ Log!Safe => OneOutcomePerRequest
  <2> SUFFICES ASSUME TypeOK, Log!Safe, NEW t \in told, NEW u \in told, t.rec.req = u.rec.req
               PROVE  t = u
    BY DEF OneOutcomePerRequest
  <2>1. /\ t.seq \in DOMAIN lines /\ lines[t.seq] = t.rec
        /\ u.seq \in DOMAIN lines /\ lines[u.seq] = u.rec
    BY DEF Log!Safe, Log!ToldIsKept, TypeOK
  <2>2. t.seq = u.seq
    BY <2>1 DEF Log!Safe, Log!OncePerIdentity
  <2>3. t.rec = u.rec
    BY <2>1, <2>2
  <2>4. t \in [seq : Nat \ {0}, rec : Record] /\ u \in [seq : Nat \ {0}, rec : Record]
    BY DEF TypeOK
  <2>5. QED
    BY <2>2, <2>3, <2>4
<1>2. QED BY <1>1, LogSafe, JournalTypes, PTL

=============================================================================
