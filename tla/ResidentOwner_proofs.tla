----------------------- MODULE ResidentOwner_proofs -----------------------
(***************************************************************************)
(* For any number of owners, operations, failures and power losses.        *)
(*                                                                         *)
(* First, fencing: who is in step with the stream wrote its last record.   *)
(* Then the history: what an owner in step holds is what replay derives,   *)
(* what it prepares is what replay accepts, and the history it works on    *)
(* stays navigable.  The lineage of a commit is a recursive function, so   *)
(* what it returns is shown by induction over the commits.  Last, what     *)
(* clients have seen: every view is that of a record no power loss takes.  *)
(***************************************************************************)
EXTENDS ResidentOwner, TLAPS, WellFoundedInduction, FiniteSetTheorems

-----------------------------------------------------------------------------
(* The stream.                                                             *)

LEMMA OfItsElements ==
  ASSUME NEW S, NEW t \in Seq(S)
  PROVE  t \in Seq({t[k] : k \in DOMAIN t})
OBVIOUS

LEMMA AppendOf ==
  ASSUME NEW S, NEW s \in Seq(S), NEW e \in S
  PROVE  /\ Append(s, e) \in Seq(S)
         /\ Len(s) \in Nat /\ Len(Append(s, e)) = Len(s) + 1
         /\ DOMAIN s = 1..Len(s) /\ DOMAIN Append(s, e) = 1..(Len(s) + 1)
         /\ \A k \in 1..Len(s) : Append(s, e)[k] = s[k]
         /\ Append(s, e)[Len(s) + 1] = e
OBVIOUS

LEMMA PrefixOf ==
  ASSUME NEW S, NEW s \in Seq(S), NEW n \in 0..Len(s)
  PROVE  /\ SubSeq(s, 1, n) \in Seq(S)
         /\ Len(SubSeq(s, 1, n)) = n /\ DOMAIN SubSeq(s, 1, n) = 1..n
         /\ DOMAIN s = 1..Len(s)
         /\ \A k \in 1..n : SubSeq(s, 1, n)[k] = s[k]
OBVIOUS

LEMMA Appending ==
  ASSUME NEW s, s \in Seq({s[k] : k \in DOMAIN s}), NEW e, NEW t, t = Append(s, e)
  PROVE  /\ t \in Seq({t[k] : k \in DOMAIN t})
         /\ Len(s) \in Nat /\ Len(t) = Len(s) + 1 /\ DOMAIN s = 1..Len(s) /\ DOMAIN t = 1..(Len(s) + 1)
         /\ \A k \in 1..Len(s) : t[k] = s[k]
         /\ t[Len(s) + 1] = e
<1> DEFINE S == {s[k] : k \in DOMAIN s} \cup {e}
<1>1. s \in Seq(S) /\ e \in S
  OBVIOUS
<1> HIDE DEF S
<1>2. t \in Seq(S)
  BY <1>1, AppendOf
<1>3. t \in Seq({t[k] : k \in DOMAIN t})
  BY ONLY <1>2, OfItsElements, Zenon
<1>4. /\ Len(s) \in Nat /\ Len(t) = Len(s) + 1 /\ DOMAIN s = 1..Len(s) /\ DOMAIN t = 1..(Len(s) + 1)
      /\ \A k \in 1..Len(s) : t[k] = s[k]
      /\ t[Len(s) + 1] = e
  BY <1>1, AppendOf
<1> QED
  BY ONLY <1>3, <1>4, Zenon

LEMMA Prefixing ==
  ASSUME NEW s, s \in Seq({s[k] : k \in DOMAIN s}), NEW n \in 0..Len(s), NEW t, t = SubSeq(s, 1, n)
  PROVE  /\ t \in Seq({t[k] : k \in DOMAIN t})
         /\ Len(t) = n /\ DOMAIN s = 1..Len(s) /\ DOMAIN t = 1..n
         /\ \A k \in 1..n : t[k] = s[k]
<1> DEFINE S == {s[k] : k \in DOMAIN s}
<1>1. s \in Seq(S)
  OBVIOUS
<1> HIDE DEF S
<1>2. t \in Seq(S)
  BY <1>1, PrefixOf
<1>3. t \in Seq({t[k] : k \in DOMAIN t})
  BY ONLY <1>2, OfItsElements, Zenon
<1>4. /\ Len(t) = n /\ DOMAIN s = 1..Len(s) /\ DOMAIN t = 1..n
      /\ \A k \in 1..n : t[k] = s[k]
  BY <1>1, PrefixOf
<1> QED
  BY ONLY <1>3, <1>4, Zenon

\* What replay reaches with the stream, in terms of its last record.
LEMMA Replay ==
  ASSUME StreamStands
  PROVE  /\ Len(log) \in Nat /\ DOMAIN log = 1..Len(log)
         /\ log = << >> => Replayed = Empty /\ Replayed.tip = NoCommit
         /\ log # << >> => /\ Len(log) \in DOMAIN log /\ Len(log) > 0
                           /\ Replayed = Last.post
                           /\ Replayed.tip = Last.id /\ Replayed.rev = Last.rev /\ Replayed.gen = Last.gen
                           /\ Replayed.rev \in Revisions /\ Replayed.rev # NoRevision
                           /\ \A i : InSync(i) <=> own[i].rev = Last.rev /\ own[i].gen = Last.gen
<1>1. Len(log) \in Nat /\ DOMAIN log = 1..Len(log)
  BY DEF StreamStands
<1>2. CASE log = << >>
  BY <1>1, <1>2 DEF Replayed, Empty
<1>3. CASE log # << >>
  <2>1. Len(log) \in DOMAIN log /\ Len(log) > 0
    BY <1>1, <1>3 DEF StreamStands
  <2>2. Replayed = Last.post
    BY <1>3 DEF Replayed, Last
  <2>3. Replayed.tip = Last.id /\ Replayed.rev = Last.rev /\ Replayed.gen = Last.gen /\ Last.rev \in Revisions
    BY <2>1, <2>2 DEF StreamStands, Last
  <2>4. Replayed.rev # NoRevision
    BY <2>3, OwnerBounds DEF Revisions
  <2> QED
    BY <1>1, <1>3, <2>1, <2>2, <2>3, <2>4 DEF InSync
<1> QED
  BY <1>2, <1>3

LEMMA OwnerInit == Init => OwnerInv
<1> SUFFICES ASSUME Init PROVE OwnerInv
  OBVIOUS
<1>1. /\ log = << >> /\ firm = 0 /\ told = {} /\ refuted = {} /\ attempts = 0 /\ epochs = 0
      /\ pc = [i \in Owners |-> "idle"] /\ own = [i \in Owners |-> Down]
      /\ DOMAIN prop = Owners /\ DOMAIN got = Owners
  BY DEF Init, Log!Init
<1>2. SessionsStand
  BY <1>1 DEF SessionsStand, Steps, IsSession, Down
<1>3. StreamStands
  BY <1>1 DEF StreamStands, Log!OncePerIdentity
<1>4. ProposalsStand /\ LastOwnerHolds /\ NothingSlippedIn
  BY <1>1 DEF ProposalsStand, LastOwnerHolds, NothingSlippedIn, InFlight
<1>5. OutcomesStand
  BY <1>1 DEF OutcomesStand, Log!ToldIsKept, Log!RefutedStaysOut, Log!IdsOf
<1> QED
  BY <1>2, <1>3, <1>4, <1>5 DEF OwnerInv

-----------------------------------------------------------------------------
(* Steps that leave the stream as it is.                                   *)

\* Replay and the staleness test depend on the stream and on the session.
LEMMA SameStream ==
  ASSUME log' = log
  PROVE  /\ Replayed' = Replayed /\ Last' = Last
         /\ \A i : own'[i] = own[i] => (InSync(i)' <=> InSync(i))
BY DEF Replayed, Last, InSync

\* Barriers and answers: the stream only gets firmer.
LEMMA StreamKept ==
  ASSUME StreamStands, log' = log, firm' \in firm..Len(log),
         attempts' \in Nat, attempts \in Nat, attempts' >= attempts,
         epochs' \in Nat, epochs \in Nat, epochs' >= epochs
  PROVE  StreamStands'
<1>1. firm' \in 0..Len(log)
  BY Replay DEF StreamStands
<1>2. \A k \in DOMAIN log : log[k].id \in 1..attempts' /\ log[k].rev.epoch \in 1..epochs'
  BY SMTT(60) DEF StreamStands
<1> QED
  BY <1>1, <1>2 DEF StreamStands, Log!OncePerIdentity

\* What the other owners' proposals say does not depend on this owner.
LEMMA OthersKept ==
  ASSUME OwnerInv, log' = log, firm' \in firm..Len(log),
         attempts' \in Nat, attempts' >= attempts, epochs' \in Nat, epochs' >= epochs,
         NEW i \in Owners, NEW j \in Owners \ {i}, InFlight(j),
         \A m \in Owners \ {i} : pc'[m] = pc[m] /\ own'[m] = own[m] /\ prop'[m] = prop[m] /\ got'[m] = got[m],
         InFlight(i)' => prop'[i].rec.id # prop[j].rec.id
  PROVE  /\ Prepared(j, prop[j].rec)'
         /\ IF own[j].up THEN OfOperation(j, prop[j].rec)' ELSE OfRestart(j, prop[j].rec)'
<1>1. /\ Prepared(j, prop[j].rec)
      /\ IF own[j].up THEN OfOperation(j, prop[j].rec) ELSE OfRestart(j, prop[j].rec)
  BY DEF OwnerInv, ProposalsStand
<1>2. pc'[j] = pc[j] /\ own'[j] = own[j] /\ prop'[j] = prop[j] /\ got'[j] = got[j]
  OBVIOUS
<1>3. SameInput(j)' = SameInput(j)
  BY <1>2 DEF SameInput, Position
<1>4. attempts \in Nat /\ epochs \in Nat /\ firm \in Nat /\ Len(log) \in Nat /\ DOMAIN log = 1..Len(log)
  BY Replay DEF OwnerInv, SessionsStand, StreamStands
<1>5. Prepared(j, prop[j].rec)'
  <2> DEFINE r == prop[j].rec
  <2>1. r.id \in 1..attempts' /\ r.rev.epoch \in 1..epochs'
    BY <1>1, <1>4, SMTT(60) DEF Prepared
  <2>2. \A m \in Owners \ {j} : InFlight(m)' => prop'[m].rec.id # r.id
    BY <1>1 DEF Prepared, InFlight
  <2>3. pc[j] = "publish" => \E k \in SameInput(j) : got[j] = log[k].id /\ k <= firm'
    <3> SUFFICES ASSUME pc[j] = "publish" PROVE \E k \in SameInput(j) : got[j] = log[k].id /\ k <= firm'
      OBVIOUS
    <3>1. PICK k \in SameInput(j) : got[j] = log[k].id /\ k <= firm
      BY <1>1 DEF Prepared
    <3>2. k \in 1..Len(log)
      BY <1>4 DEF SameInput, Position
    <3> QED
      BY <1>4, <3>1, <3>2
  <2> QED
    BY <1>1, <1>2, <1>3, <2>1, <2>2, <2>3 DEF Prepared, Log!IdsOf
<1>6. IF own[j].up THEN OfOperation(j, prop[j].rec)' ELSE OfRestart(j, prop[j].rec)'
  BY <1>1, <1>2 DEF OfOperation, OfRestart
<1> QED
  BY <1>5, <1>6

\* An operation ends, or a session comes or goes: the owner is idle, with a
\* session o that is passed, apart, or in step with its own last record.
LEMMA Settles ==
  ASSUME OwnerInv, log' = log, firm' \in firm..Len(log), attempts' = attempts,
         epochs' \in Nat, epochs' >= epochs, OutcomesStand',
         NEW i \in Owners, NEW o,
         DOMAIN own' = Owners, DOMAIN prop' = Owners, DOMAIN got' = Owners,
         pc' \in [Owners -> Steps], pc'[i] = "idle", own'[i] = o,
         \A m \in Owners \ {i} : pc'[m] = pc[m] /\ own'[m] = own[m] /\ prop'[m] = prop[m] /\ got'[m] = got[m],
         IsSession(o), o.up \in BOOLEAN, o.poisoned \in BOOLEAN,
         o.up => o.rev \in Revisions /\ o.rev.epoch \in 1..epochs',
         log = << >> /\ o.up => \A j \in Owners \ {i} : own[j].up => own[j].rev.epoch # o.rev.epoch,
         log # << >> /\ o.up /\ ~o.poisoned =>
           \/ Last.by # i /\ Passed(o.rev)
           \/ Replayed.discarded /\ o.rev.epoch = Replayed.rev.epoch /\ o.rev.state > Replayed.rev.state
           \/ Last.by = i /\ o.rev = Last.rev /\ o.gen = Last.gen
  PROVE  OwnerInv'
<1> USE DEF OwnerInv
<1>1. attempts \in Nat /\ epochs \in Nat
  BY DEF SessionsStand
<1>2. Replayed' = Replayed /\ Last' = Last /\ \A j \in Owners \ {i} : InSync(j)' <=> InSync(j)
  BY SameStream
<1>3. SessionsStand'
  <2>1. ASSUME NEW j \in Owners
        PROVE  /\ IsSession(own'[j]) /\ own'[j].up \in BOOLEAN /\ own'[j].poisoned \in BOOLEAN
               /\ own'[j].up => own'[j].rev \in Revisions /\ own'[j].rev.epoch \in 1..epochs'
    <3>1. CASE j = i
      BY <3>1
    <3>2. CASE j # i
      BY <1>1, <3>2 DEF SessionsStand
    <3> QED
      BY <3>1, <3>2
  <2>2. ASSUME log = << >>, NEW j \in Owners, NEW m \in Owners,
               own'[j].up, own'[m].up, own'[j].rev.epoch = own'[m].rev.epoch
        PROVE  j = m
    <3>1. CASE j # i /\ m # i
      BY <2>2, <3>1 DEF SessionsStand
    <3>2. CASE j = i \/ m = i
      BY <2>2, <3>2
    <3> QED
      BY <3>1, <3>2
  <2> QED
    BY <1>1, <2>1, <2>2 DEF SessionsStand, IsSession
<1>4. StreamStands'
  BY <1>1, StreamKept
<1>5. ProposalsStand'
  <2> SUFFICES ASSUME NEW j \in Owners, InFlight(j)'
               PROVE  /\ Prepared(j, prop[j].rec)'
                      /\ IF own'[j].up THEN OfOperation(j, prop[j].rec)' ELSE OfRestart(j, prop[j].rec)'
    BY DEF ProposalsStand
  <2>1. j \in Owners \ {i} /\ InFlight(j) /\ own'[j] = own[j]
    BY DEF InFlight
  <2>2. ~InFlight(i)'
    BY DEF InFlight
  <2> QED
    BY <1>1, <2>1, <2>2, OthersKept
<1>6. LastOwnerHolds'
  <2> SUFFICES ASSUME log # << >>, NEW j \in Owners, own'[j].up, ~own'[j].poisoned
               PROVE  \/ Last'.by # j /\ Passed(own[j].rev)'
                      \/ Apart(j)'
                      \/ /\ Last'.by = j
                         /\ own'[j].rev.state <= Replayed'.rev.state
                         /\ InSync(j)' \/ (InFlight(j)' /\ Last'.id = prop'[j].rec.id)
    BY DEF LastOwnerHolds, Works
  <2>1. CASE j # i
    BY <1>2, <2>1 DEF LastOwnerHolds, Works, Passed, Apart, InFlight
  <2>2. CASE j = i
    <3>1. CASE Last.by # i /\ Passed(o.rev)
      BY <1>2, <2>2, <3>1 DEF Passed
    <3>2. CASE Replayed.discarded /\ o.rev.epoch = Replayed.rev.epoch /\ o.rev.state > Replayed.rev.state
      BY <1>2, <2>2, <3>2 DEF Apart
    <3>3. CASE Last.by = i /\ o.rev = Last.rev /\ o.gen = Last.gen
      <4>1. Replayed.rev = Last.rev /\ Replayed.gen = Last.gen
        BY Replay
      <4>2. InSync(i)'
        BY <1>2, <3>3, <4>1 DEF InSync
      <4>3. o.rev.state <= Replayed.rev.state
        BY <2>2, <3>3, <4>1 DEF Revisions
      <4> QED
        BY <1>2, <2>2, <3>3, <4>2, <4>3
    <3> QED
      BY <2>2, <3>1, <3>2, <3>3
  <2> QED
    BY <2>1, <2>2
<1>7. NothingSlippedIn'
  <2> SUFFICES ASSUME NEW j \in Owners, InFlight(j)'
               PROVE  /\ log # << >> /\ Last'.by = j => Position(j)' = {} \/ Last'.id = prop'[j].rec.id
                      /\ \A k \in DOMAIN log : log[k].id = prop'[j].rec.id /\ k # Len(log) => Last'.by # j /\ Passed(prop[j].rec.rev)'
                      /\ pc'[j] = "commit" /\ own'[j].up /\ prop'[j].rec.parent = Replayed'.tip => InSync(j)'
    BY DEF NothingSlippedIn
  <2>1. j # i /\ InFlight(j) /\ own'[j] = own[j] /\ prop'[j] = prop[j] /\ pc'[j] = pc[j]
    BY DEF InFlight
  <2>2. Position(j)' = Position(j)
    BY <2>1 DEF Position
  <2> QED
    BY <1>2, <2>1, <2>2 DEF NothingSlippedIn, Passed
<1> QED
  BY <1>3, <1>4, <1>5, <1>6, <1>7

\* Down is a session of nobody.
LEMMA DownIsSession == IsSession(Down) /\ Down.up = FALSE /\ Down.poisoned = FALSE
BY DEF Down, IsSession

\* A session that is poisoned keeps its revision.
LEMMA PoisonedSession ==
  ASSUME NEW o, IsSession(o)
  PROVE  LET p == [o EXCEPT !.poisoned = TRUE]
         IN  IsSession(p) /\ p.up = o.up /\ p.poisoned = TRUE /\ p.rev = o.rev /\ p.gen = o.gen
BY DEF IsSession

LEMMA Finishing ==
  ASSUME SessionsStand, NEW i \in Owners, NEW o, Finish(i, o)
  PROVE  /\ DOMAIN own' = Owners /\ DOMAIN prop' = Owners /\ DOMAIN got' = Owners
         /\ pc' \in [Owners -> Steps] /\ pc'[i] = "idle"
         /\ own'[i] = IF own[i].up THEN o ELSE Down
         /\ \A m \in Owners \ {i} : pc'[m] = pc[m] /\ own'[m] = own[m] /\ prop'[m] = prop[m] /\ got'[m] = got[m]
BY DEF Finish, SessionsStand, Steps

\* Answers about firm records and absent ones stand.
LEMMA AnswersStand ==
  ASSUME StreamStands, OutcomesStand, log' = log, firm' \in firm..Len(log),
         \A t \in told' : t \in told \/ \E k \in 1..firm' : t = [seq |-> k, rec |-> log[k]],
         \A x \in refuted' : x \in refuted \/ x \notin Log!IdsOf(log)
  PROVE  OutcomesStand'
<1>1. firm \in Nat /\ Len(log) \in Nat /\ firm' \in Nat /\ firm' >= firm
  BY Replay DEF StreamStands
<1>2. ASSUME NEW t \in told' PROVE t.seq \in 1..firm' /\ log[t.seq] = t.rec
  <2>1. CASE t \in told
    BY <1>1, <2>1 DEF OutcomesStand, Log!ToldIsKept
  <2>2. ASSUME NEW k \in 1..firm', t = [seq |-> k, rec |-> log[k]] PROVE t.seq \in 1..firm' /\ log[t.seq] = t.rec
    BY <2>2
  <2> QED
    BY <2>1, <2>2
<1>3. Log!IdsOf(log)' = Log!IdsOf(log)
  BY DEF Log!IdsOf
<1> QED
  BY <1>2, <1>3 DEF OutcomesStand, Log!ToldIsKept, Log!RefutedStaysOut

\* An operation that ends in an error, and a session that is poisoned.
LEMMA PoisonKeeps ==
  ASSUME OwnerInv, NEW i \in Owners, NEW o,
         o = Down \/ o = [own[i] EXCEPT !.poisoned = TRUE],
         DOMAIN own' = Owners, DOMAIN prop' = Owners, DOMAIN got' = Owners,
         pc' \in [Owners -> Steps], pc'[i] = "idle", own'[i] = o,
         \A m \in Owners \ {i} : pc'[m] = pc[m] /\ own'[m] = own[m] /\ prop'[m] = prop[m] /\ got'[m] = got[m],
         UNCHANGED <<storage, attempts, epochs>>
  PROVE  OwnerInv'
<1> USE DEF OwnerInv
<1>1. log' = log /\ firm' = firm /\ told' = told /\ refuted' = refuted /\ attempts' = attempts /\ epochs' = epochs
  BY DEF storage
<1>2. firm \in Nat /\ Len(log) \in Nat /\ firm <= Len(log) /\ epochs \in Nat /\ firm' \in firm..Len(log)
  BY <1>1, Replay DEF StreamStands, SessionsStand
<1>3. OutcomesStand'
  BY <1>1, <1>2, AnswersStand
<1>4. /\ IsSession(o) /\ o.up \in BOOLEAN /\ o.poisoned \in BOOLEAN
      /\ o.up => o.poisoned /\ own[i].up /\ o.rev = own[i].rev
  <2>1. IsSession(own[i]) /\ own[i].up \in BOOLEAN
    BY DEF SessionsStand
  <2>2. CASE o = Down
    BY <2>2, DownIsSession
  <2>3. CASE o = [own[i] EXCEPT !.poisoned = TRUE]
    BY <2>1, <2>3, PoisonedSession
  <2> QED
    BY <2>2, <2>3
<1>5. o.up => o.rev \in Revisions /\ o.rev.epoch \in 1..epochs'
  BY <1>1, <1>4 DEF SessionsStand
<1>6. log = << >> /\ o.up => \A j \in Owners \ {i} : own[j].up => own[j].rev.epoch # o.rev.epoch
  BY <1>4 DEF SessionsStand
<1> QED
  BY <1>1, <1>2, <1>3, <1>4, <1>5, <1>6, Settles

LEMMA LeaveKeeps ==
  ASSUME OwnerInv, NEW i \in Owners, Leave(i)
  PROVE  OwnerInv'
<1>1. /\ DOMAIN own' = Owners /\ DOMAIN prop' = Owners /\ DOMAIN got' = Owners
      /\ pc' \in [Owners -> Steps] /\ pc'[i] = "idle" /\ own'[i] = Down
      /\ \A m \in Owners \ {i} : pc'[m] = pc[m] /\ own'[m] = own[m] /\ prop'[m] = prop[m] /\ got'[m] = got[m]
  BY DEF Leave, OwnerInv, SessionsStand, Steps
<1> QED
  BY <1>1, PoisonKeeps DEF Leave

LEMMA PoisoningKeeps ==
  ASSUME OwnerInv, NEW i \in Owners, pc[i] = "idle", own' = [own EXCEPT ![i].poisoned = TRUE],
         UNCHANGED <<storage, pc, prop, got, attempts, epochs>>
  PROVE  OwnerInv'
<1>1. /\ DOMAIN own' = Owners /\ own'[i] = [own[i] EXCEPT !.poisoned = TRUE]
      /\ \A m \in Owners \ {i} : own'[m] = own[m]
  BY DEF OwnerInv, SessionsStand
<1>2. pc' \in [Owners -> Steps] /\ DOMAIN prop' = Owners /\ DOMAIN got' = Owners
  BY DEF OwnerInv, SessionsStand
<1> QED
  BY <1>1, <1>2, PoisonKeeps

LEMMA StaleWriteKeeps ==
  ASSUME OwnerInv, NEW i \in Owners, StaleWrite(i)
  PROVE  OwnerInv'
BY PoisoningKeeps DEF StaleWrite, Usable

LEMMA RecalculateFailsKeeps ==
  ASSUME OwnerInv, NEW i \in Owners, NEW q, RecalculateFails(i, q)
  PROVE  OwnerInv'
BY PoisoningKeeps DEF RecalculateFails, Ready, Usable

LEMMA FailureKeeps ==
  ASSUME OwnerInv, NEW i \in Owners, Finish(i, [own[i] EXCEPT !.poisoned = TRUE]),
         UNCHANGED <<storage, attempts, epochs>>
  PROVE  OwnerInv'
<1>1. SessionsStand
  BY DEF OwnerInv
<1> QED
  BY <1>1, Finishing, PoisonKeeps

LEMMA ReconcileFailsKeeps ==
  ASSUME OwnerInv, NEW i \in Owners, ReconcileFails(i) \/ PublishFails(i)
  PROVE  OwnerInv'
BY FailureKeeps DEF ReconcileFails, PublishFails

\* An operation ends and its owner goes on as it was: its record did not
\* become the last one.
LEMMA GoesOn ==
  ASSUME OwnerInv, NEW i \in Owners, InFlight(i), Finish(i, own[i]),
         log' = log, firm' \in firm..Len(log), OutcomesStand', UNCHANGED <<attempts, epochs>>,
         log # << >> /\ Last.by = i => Last.id # prop[i].rec.id
  PROVE  OwnerInv'
<1> USE DEF OwnerInv
<1>0. /\ DOMAIN own' = Owners /\ DOMAIN prop' = Owners /\ DOMAIN got' = Owners
      /\ pc' \in [Owners -> Steps] /\ pc'[i] = "idle"
      /\ own'[i] = IF own[i].up THEN own[i] ELSE Down
      /\ \A m \in Owners \ {i} : pc'[m] = pc[m] /\ own'[m] = own[m] /\ prop'[m] = prop[m] /\ got'[m] = got[m]
      /\ attempts' = attempts /\ epochs' = epochs /\ epochs' \in Nat /\ epochs' >= epochs
  BY Finishing DEF SessionsStand
<1> HIDE DEF OwnerInv
<1>1. CASE ~own[i].up
  <2>1. own'[i] = Down
    BY <1>0, <1>1
  <2> QED
    BY <1>0, <2>1, Settles, DownIsSession
<1>2. CASE own[i].up
  <2>1. own'[i] = own[i]
    BY <1>0, <1>2
  <2>2. IsSession(own[i]) /\ own[i].rev \in Revisions /\ own[i].rev.epoch \in 1..epochs /\ own[i].poisoned = FALSE
    BY <1>2 DEF OwnerInv, SessionsStand, ProposalsStand, OfOperation
  <2>3. log = << >> => \A j \in Owners \ {i} : own[j].up => own[j].rev.epoch # own[i].rev.epoch
    BY <1>2 DEF OwnerInv, SessionsStand
  <2>4. log # << >> => (Last.by # i /\ Passed(own[i].rev)) \/ (Last.by = i /\ own[i].rev = Last.rev /\ own[i].gen = Last.gen)
    <3> SUFFICES ASSUME log # << >>
                 PROVE  (Last.by # i /\ Passed(own[i].rev)) \/ (Last.by = i /\ own[i].rev = Last.rev /\ own[i].gen = Last.gen)
      OBVIOUS
    <3>1. (Last.by # i /\ Passed(own[i].rev)) \/ (Last.by = i /\ InSync(i))
      BY <1>2, <2>2 DEF OwnerInv, LastOwnerHolds, Works, Apart, InFlight
    <3> QED
      BY <3>1, Replay DEF OwnerInv
  <2> QED
    BY <1>0, <1>2, <2>1, <2>2, <2>3, <2>4, Settles
<1> QED
  BY <1>1, <1>2

\* The record in the stream under the request of an operation is unique.
LEMMA OnePosition ==
  ASSUME StreamStands, NEW i \in Owners, NEW k \in Position(i), NEW m \in Position(i)
  PROVE  k = m /\ k \in DOMAIN log
BY DEF StreamStands, Log!OncePerIdentity, Position

LEMMA ReconcileNotFoundKeeps ==
  ASSUME OwnerInv, NEW i \in Owners, ReconcileNotFound(i)
  PROVE  OwnerInv'
<1> USE DEF OwnerInv
<1>1. /\ InFlight(i) /\ Position(i) = {} /\ Finish(i, own[i]) /\ UNCHANGED <<attempts, epochs>>
      /\ log' = log /\ firm' = firm /\ told' = told
      /\ refuted' = refuted \cup {prop[i].rec.id} /\ {prop[i].rec.id} \cap Log!IdsOf(log) = {}
  BY DEF ReconcileNotFound, Log!TellNotFound, InFlight
<1>2. firm' \in firm..Len(log)
  BY <1>1, Replay DEF StreamStands
<1>3. OutcomesStand'
  BY <1>1, <1>2, AnswersStand
<1>4. log # << >> => Last.id # prop[i].rec.id
  BY <1>1, Replay DEF Log!IdsOf, Last
<1> QED
  BY <1>1, <1>2, <1>3, <1>4, GoesOn

\* The caller's outcome: a firm record.
LEMMA TellingKeeps ==
  ASSUME OwnerInv, NEW i \in Owners, pc[i] = "publish", TellOutcome(i)
  PROVE  OutcomesStand' /\ log' = log /\ firm' = firm /\ firm' \in firm..Len(log)
<1> USE DEF OwnerInv
<1>1. log' = log /\ firm' = firm /\ refuted' = refuted
  BY DEF TellOutcome
<1>2. firm' \in firm..Len(log) /\ firm \in Nat
  BY <1>1, Replay DEF StreamStands
<1>3. PICK k \in SameInput(i) : got[i] = log[k].id /\ k <= firm
  BY DEF ProposalsStand, Prepared, InFlight
<1>4. k \in DOMAIN log /\ k \in 1..firm
  BY <1>2, <1>3, Replay DEF SameInput, Position
<1>5. \A j \in DOMAIN log : log[j].id = got[i] => j = k
  BY <1>3, <1>4 DEF StreamStands, Log!OncePerIdentity
<1>6. \A t \in told' : t \in told \/ \E j \in 1..firm' : t = [seq |-> j, rec |-> log[j]]
  BY <1>1, <1>4, <1>5 DEF TellOutcome
<1> QED
  BY <1>1, <1>2, <1>6, AnswersStand

LEMMA PublishOriginalKeeps ==
  ASSUME OwnerInv, NEW i \in Owners, PublishOriginal(i)
  PROVE  OwnerInv'
<1> USE DEF OwnerInv
<1>1. /\ pc[i] = "publish" /\ InFlight(i) /\ got[i] # prop[i].rec.id /\ UNCHANGED <<attempts, epochs>>
      /\ \/ TellOutcome(i) /\ Finish(i, own[i])
         \/ Finish(i, [own[i] EXCEPT !.poisoned = TRUE]) /\ UNCHANGED storage
  BY DEF PublishOriginal, InFlight
<1>2. CASE Finish(i, [own[i] EXCEPT !.poisoned = TRUE]) /\ UNCHANGED storage
  BY <1>1, <1>2, FailureKeeps
<1>3. CASE TellOutcome(i) /\ Finish(i, own[i])
  <2>1. PICK k \in SameInput(i) : got[i] = log[k].id
    BY <1>1 DEF ProposalsStand, Prepared
  <2>2. ASSUME log # << >>, Last.id = prop[i].rec.id PROVE FALSE
    <3>1. Len(log) \in DOMAIN log /\ log[Len(log)].id = prop[i].rec.id
      BY <2>2, Replay DEF Last
    <3>2. log[Len(log)].req = prop[i].rec.req
      BY <1>1, <3>1 DEF ProposalsStand, Prepared
    <3>3. Len(log) \in Position(i) /\ k \in Position(i)
      BY <2>1, <3>1, <3>2 DEF SameInput, Position
    <3>4. k = Len(log)
      BY <3>3, OnePosition
    <3> QED
      BY <1>1, <2>1, <3>1, <3>4
  <2> QED
    BY <1>1, <1>3, <2>2, TellingKeeps, GoesOn
<1> QED
  BY <1>1, <1>2, <1>3

\* Publication keeps a session a session.
LEMMA PublishedSession ==
  ASSUME NEW o, IsSession(o), NEW r, NEW b
  PROVE  LET p == Published(o, r, b) IN IsSession(p) /\ p.up = o.up /\ p.poisoned = o.poisoned
BY DEF IsSession, Published

\* Where an operation's own record is in the stream, its revision is the last
\* or has been passed.
LEMMA OwnRecord ==
  ASSUME OwnerInv, NEW i \in Owners, InFlight(i), prop[i].rec.id \in Log!IdsOf(log)
  PROVE  /\ log # << >>
         /\ \/ Last.by # i /\ Passed(prop[i].rec.rev)
            \/ Last.by = i /\ prop[i].rec.rev = Last.rev /\ prop[i].rec.gen = Last.gen
<1> USE DEF OwnerInv
<1>1. PICK k \in DOMAIN log : log[k].id = prop[i].rec.id
  BY DEF Log!IdsOf
<1>2. log # << >>
  BY <1>1
<1>3. log[k].rev = prop[i].rec.rev /\ log[k].gen = prop[i].rec.gen /\ log[k].by = i
  BY <1>1 DEF ProposalsStand, Prepared
<1>4. CASE k = Len(log)
  BY <1>2, <1>3, <1>4 DEF Last
<1>5. CASE k # Len(log)
  BY <1>1, <1>2, <1>5 DEF NothingSlippedIn
<1> QED
  BY <1>2, <1>4, <1>5

LEMMA PublishKeeps ==
  ASSUME OwnerInv, NEW i \in Owners, Publish(i)
  PROVE  OwnerInv'
<1> DEFINE r == prop[i].rec
           o == Published(own[i], r, prop[i].bytes)
<1>1. /\ pc[i] = "publish" /\ InFlight(i) /\ own[i].up /\ UNCHANGED <<attempts, epochs>>
      /\ got[i] = r.id \/ r.kind = "CatalogDiscard"
      /\ \/ o.rev = r.rev /\ o.gen = r.gen /\ TellOutcome(i) /\ Finish(i, o)
         \/ Finish(i, [own[i] EXCEPT !.poisoned = TRUE]) /\ UNCHANGED storage
  BY DEF Publish, InFlight
<1>2. CASE Finish(i, [own[i] EXCEPT !.poisoned = TRUE]) /\ UNCHANGED storage
  BY <1>1, <1>2, FailureKeeps
<1>3. CASE o.rev = r.rev /\ o.gen = r.gen /\ TellOutcome(i) /\ Finish(i, o)
  <2>1. /\ Prepared(i, r) /\ OfOperation(i, r) /\ IsSession(own[i]) /\ epochs \in Nat
        /\ SessionsStand /\ StreamStands
    BY <1>1 DEF OwnerInv, ProposalsStand, SessionsStand
  <2>2. IsSession(o) /\ o.up = own[i].up /\ o.poisoned = FALSE
    BY <2>1, PublishedSession DEF OwnerInv, SessionsStand, OfOperation
  <2>3. o.rev = r.rev /\ o.gen = r.gen
    BY <1>3
  <2>4. Finish(i, o) /\ TellOutcome(i)
    BY <1>3
  <2> HIDE DEF o
  <2>5. /\ DOMAIN own' = Owners /\ DOMAIN prop' = Owners /\ DOMAIN got' = Owners
        /\ pc' \in [Owners -> Steps] /\ pc'[i] = "idle" /\ own'[i] = o
        /\ \A m \in Owners \ {i} : pc'[m] = pc[m] /\ own'[m] = own[m] /\ prop'[m] = prop[m] /\ got'[m] = got[m]
    BY <1>1, <2>1, <2>4, Finishing
  <2>6. PICK k \in SameInput(i) : got[i] = log[k].id /\ k \in DOMAIN log
    BY <1>1, <2>1 DEF Prepared, SameInput, Position
  <2>7. log # << >>
    BY <2>6
  <2>8. \/ Last.by # i /\ Passed(o.rev)
        \/ Last.by = i /\ o.rev = Last.rev /\ o.gen = Last.gen
    <3>1. CASE r.id \in Log!IdsOf(log)
      BY <1>1, <2>3, <3>1, OwnRecord
    <3>2. CASE r.id \notin Log!IdsOf(log)
      <4>1. r.kind = "CatalogDiscard" /\ o.rev = own[i].rev
        BY <1>1, <2>1, <2>3, <2>6, <3>2 DEF OfOperation, Log!IdsOf
      <4>2. Position(i) # {} /\ Last.id # r.id
        BY <2>1, <2>6, <2>7, <3>2, Replay DEF SameInput, Log!IdsOf, Last
      <4>3. Last.by # i
        BY <1>1, <2>7, <4>2 DEF OwnerInv, NothingSlippedIn
      <4> QED
        BY <1>1, <2>1, <2>7, <4>1, <4>3 DEF OwnerInv, LastOwnerHolds, Works, OfOperation, Apart, InFlight
    <3> QED
      BY <3>1, <3>2
  <2>9. o.rev \in Revisions /\ o.rev.epoch \in 1..epochs'
    BY <1>1, <2>1, <2>3 DEF Prepared
  <2>10. /\ OutcomesStand' /\ log' = log /\ firm' \in firm..Len(log)
         /\ attempts' = attempts /\ epochs' \in Nat /\ epochs' >= epochs
    BY <1>1, <2>1, <2>4, TellingKeeps
  <2> QED
    BY <2>2, <1>1, <2>5, <2>7, <2>8, <2>9, <2>10, Settles
<1> QED
  BY <1>1, <1>2, <1>3

LEMMA RecoveredKeeps ==
  ASSUME OwnerInv, NEW i \in Owners, Recovered(i)
  PROVE  OwnerInv'
<1> DEFINE r == prop[i].rec
           o == prop[i].bytes
<1>1. /\ pc[i] = "publish" /\ InFlight(i) /\ ~own[i].up /\ UNCHANGED <<attempts, epochs>>
      /\ log' = log /\ firm' = firm /\ told' = told /\ refuted' = refuted
  BY DEF Recovered, InFlight, storage
<1>2. Prepared(i, r) /\ OfRestart(i, r) /\ SessionsStand /\ StreamStands /\ OutcomesStand
  BY <1>1 DEF OwnerInv, ProposalsStand
<1>3. /\ DOMAIN own' = Owners /\ DOMAIN prop' = Owners /\ DOMAIN got' = Owners
      /\ pc' \in [Owners -> Steps] /\ pc'[i] = "idle" /\ own'[i] = o
      /\ \A m \in Owners \ {i} : pc'[m] = pc[m] /\ own'[m] = own[m] /\ prop'[m] = prop[m] /\ got'[m] = got[m]
  BY <1>2 DEF Recovered, SessionsStand, Steps
<1>4. PICK k \in SameInput(i) : got[i] = log[k].id /\ k \in DOMAIN log
  BY <1>1, <1>2 DEF Prepared, SameInput, Position
<1>5. log[k].id = r.id
  <2>1. log[k].req = r.id /\ log[k].req \in Requests \cup {log[k].id}
    BY <1>2, <1>4 DEF OfRestart, SameInput, Position, StreamStands
  <2>2. r.id \in Nat
    BY <1>2 DEF Prepared, SessionsStand
  <2> QED
    BY <2>1, <2>2, OwnerBounds
<1>6. r.id \in Log!IdsOf(log)
  BY <1>4, <1>5 DEF Log!IdsOf
<1>7. /\ log # << >>
      /\ \/ Last.by # i /\ Passed(o.rev)
         \/ Last.by = i /\ o.rev = Last.rev /\ o.gen = Last.gen
  BY <1>1, <1>2, <1>6, OwnRecord DEF OfRestart
<1>8. IsSession(o) /\ o.up = TRUE /\ o.poisoned = FALSE /\ o.rev \in Revisions /\ o.rev.epoch \in 1..epochs
  BY <1>2 DEF OfRestart, Prepared
<1>9. firm' \in firm..Len(log) /\ epochs \in Nat
  BY <1>1, <1>2, Replay DEF StreamStands, SessionsStand
<1>10. OutcomesStand'
  BY <1>1, <1>2, <1>9, AnswersStand
<1>11. attempts' = attempts /\ epochs' = epochs /\ epochs' \in Nat /\ epochs' >= epochs
  BY <1>1, <1>9
<1> HIDE DEF o, r
<1> QED
  BY <1>1, <1>3, <1>7, <1>8, <1>9, <1>10, <1>11, Settles

LEMMA Bumped ==
  ASSUME NEW v \in Revisions, NEW d \in 0..1, NEW s \in 0..1
  PROVE  LET w == Bump(v, d, s)
         IN  w \in Revisions /\ w.epoch = v.epoch /\ w.state = v.state + s
<1>1. v.doc + d \in Nat /\ v.state + s \in Nat
  BY DEF Revisions
<1>2. Bump(v, d, s) = [v EXCEPT !.doc = v.doc + d, !.state = v.state + s]
  BY DEF Bump, Revisions
<1> QED
  BY <1>1, <1>2 DEF Revisions

\* A recovered session has the epoch of the stream and a state of its own.
LEMMA RecoveredSession ==
  ASSUME StreamStands, log # << >>
  PROVE  LET o == RecoverFromRecords
         IN  /\ IsSession(o) /\ o.up = TRUE /\ o.poisoned = FALSE /\ o.rev \in Revisions
             /\ o.rev.epoch = Replayed.rev.epoch /\ o.rev.state = Replayed.rev.state + 1
             /\ o.rev.epoch \in 1..epochs
<1> DEFINE o == RecoverFromRecords
<1>1. Replayed.rev \in Revisions /\ Replayed.rev.epoch \in 1..epochs
  BY Replay DEF StreamStands, Last
<1>2. IsSession(o) /\ o.up = TRUE /\ o.poisoned = FALSE /\ o.rev = Bump(Replayed.rev, 0, 1)
  BY DEF RecoverFromRecords, IsSession
<1> HIDE DEF o
<1>3. o.rev \in Revisions /\ o.rev.epoch = Replayed.rev.epoch /\ o.rev.state = Replayed.rev.state + 1
  BY <1>1, <1>2, Bumped
<1> QED
  BY <1>1, <1>2, <1>3 DEF o

LEMMA RecoverIdleKeeps ==
  ASSUME OwnerInv, NEW i \in Owners, RecoverIdle(i)
  PROVE  OwnerInv'
<1>1. /\ pc[i] = "idle" /\ log' = log /\ firm' = firm /\ told' = told /\ refuted' = refuted
      /\ pc' = pc /\ prop' = prop /\ got' = got /\ attempts' = attempts
  BY DEF RecoverIdle, storage
<1>2. SessionsStand /\ StreamStands /\ OutcomesStand /\ epochs \in Nat
  BY DEF OwnerInv, SessionsStand
<1>3. firm' \in firm..Len(log)
  BY <1>1, <1>2, Replay DEF StreamStands
<1>4. OutcomesStand'
  BY <1>1, <1>2, <1>3, AnswersStand
<1>5. DOMAIN prop' = Owners /\ DOMAIN got' = Owners /\ pc' \in [Owners -> Steps] /\ pc'[i] = "idle"
  BY <1>1, <1>2 DEF SessionsStand
<1>6. CASE log = << >>
  <2> DEFINE o == FromBytes(epochs + 1)
  <2>1. own' = [own EXCEPT ![i] = o] /\ epochs' = epochs + 1
    BY <1>6 DEF RecoverIdle
  <2>2. IsSession(o) /\ o.up = TRUE /\ o.poisoned = FALSE /\ o.rev \in Revisions /\ o.rev.epoch = epochs + 1
    BY <1>2 DEF FromBytes, Down, IsSession, Revisions
  <2> HIDE DEF o
  <2>3. DOMAIN own' = Owners /\ own'[i] = o /\ \A m \in Owners \ {i} : own'[m] = own[m]
    BY <1>2, <2>1 DEF SessionsStand
  <2>4. \A j \in Owners \ {i} : own[j].up => own[j].rev.epoch # o.rev.epoch
    BY <1>2, <2>2 DEF SessionsStand
  <2>5. epochs' \in Nat /\ epochs' >= epochs /\ o.rev.epoch \in 1..epochs'
    BY <1>2, <2>1, <2>2
  <2> QED
    BY <1>1, <1>3, <1>4, <1>5, <1>6, <2>2, <2>3, <2>4, <2>5, Settles
<1>7. CASE log # << >>
  <2> DEFINE o == RecoverFromRecords
  <2>1. own' = [own EXCEPT ![i] = o] /\ epochs' = epochs /\ Replayed.discarded
    BY <1>7 DEF RecoverIdle
  <2>2. /\ IsSession(o) /\ o.up = TRUE /\ o.poisoned = FALSE /\ o.rev \in Revisions /\ o.rev.epoch \in 1..epochs
        /\ o.rev.epoch = Replayed.rev.epoch /\ o.rev.state > Replayed.rev.state
    <3>1. Replayed.rev.state \in Nat
      BY <1>2, <1>7, Replay DEF Revisions
    <3>2. o.rev.state = Replayed.rev.state + 1
      BY <1>2, <1>7, RecoveredSession
    <3>3. o.rev.state > Replayed.rev.state
      BY ONLY <3>1, <3>2
    <3>4. /\ IsSession(o) /\ o.up = TRUE /\ o.poisoned = FALSE /\ o.rev \in Revisions /\ o.rev.epoch \in 1..epochs
          /\ o.rev.epoch = Replayed.rev.epoch
      BY <1>2, <1>7, RecoveredSession
    <3> QED
      BY ONLY <3>3, <3>4
  <2> HIDE DEF o
  <2>3. DOMAIN own' = Owners /\ own'[i] = o /\ \A m \in Owners \ {i} : own'[m] = own[m]
    BY <1>2, <2>1 DEF SessionsStand
  <2>5. epochs' \in Nat /\ epochs' >= epochs
    BY <1>2, <2>1
  <2> QED
    BY <1>1, <1>3, <1>4, <1>5, <1>7, <2>1, <2>2, <2>3, <2>5, Settles
<1> QED
  BY <1>6, <1>7

-----------------------------------------------------------------------------
(* Steps of an operation that leave the stream as it is.                   *)

\* The operation goes on: its record is the same but for the parent that the
\* second load gives it, and a commit it is answered with is firm.
LEMMA Advances ==
  ASSUME OwnerInv, NEW i \in Owners, InFlight(i), NEW r, NEW p \in {"commit", "reconcile", "publish"},
         UNCHANGED <<log, told, refuted, own, attempts, epochs>>, firm' \in firm..Len(log),
         pc' = [pc EXCEPT ![i] = p],
         DOMAIN prop' = Owners, DOMAIN got' = Owners,
         prop'[i].rec = r, DOMAIN prop'[i] = {"rec", "bytes"}, prop'[i].bytes = prop[i].bytes,
         \A m \in Owners \ {i} : prop'[m] = prop[m] /\ got'[m] = got[m],
         IsRecord(r), r.parent = prop[i].rec.parent \/ own[i].up,
         <<r.id, r.req, r.fp, r.rev, r.gen, r.by, r.kind>> =
            <<prop[i].rec.id, prop[i].rec.req, prop[i].rec.fp, prop[i].rec.rev, prop[i].rec.gen,
              prop[i].rec.by, prop[i].rec.kind>>,
         p = "commit" => pc[i] = "reload" /\ own[i].up /\ InSync(i) /\ r.parent = Replayed.tip,
         p = "publish" => \E k \in SameInput(i) : got'[i] = log[k].id /\ k <= firm'
  PROVE  OwnerInv'
<1>0. /\ SessionsStand /\ StreamStands /\ OutcomesStand /\ Prepared(i, prop[i].rec)
      /\ IF own[i].up THEN OfOperation(i, prop[i].rec) ELSE OfRestart(i, prop[i].rec)
  BY DEF OwnerInv, ProposalsStand
<1>1. /\ pc' \in [Owners -> Steps] /\ pc'[i] = p /\ \A m \in Owners \ {i} : pc'[m] = pc[m]
      /\ InFlight(i)' /\ \A m \in Owners : InFlight(m)' <=> InFlight(m)
  BY <1>0 DEF SessionsStand, Steps, InFlight
<1>2. Replayed' = Replayed /\ Last' = Last /\ \A j \in Owners : InSync(j)' <=> InSync(j)
  BY SameStream
<1>3. SessionsStand'
  BY <1>0, <1>1 DEF SessionsStand, IsSession
<1>4. StreamStands'
  BY <1>0, StreamKept DEF SessionsStand
<1>5. OutcomesStand'
  BY <1>0, AnswersStand
<1>6. /\ r.id = prop[i].rec.id /\ r.req = prop[i].rec.req /\ r.fp = prop[i].rec.fp /\ r.rev = prop[i].rec.rev
      /\ r.gen = prop[i].rec.gen /\ r.by = prop[i].rec.by /\ r.kind = prop[i].rec.kind
  OBVIOUS
<1>7. Position(i)' = Position(i) /\ SameInput(i)' = SameInput(i)
  BY <1>6 DEF Position, SameInput
<1>8. Prepared(i, prop[i].rec)'
  <2>1. /\ IsRecord(r) /\ r.by = i /\ r.id \in 1..attempts /\ r.rev \in Revisions /\ r.rev.epoch \in 1..epochs
        /\ \A j \in Owners \ {i} : InFlight(j) => prop[j].rec.id # r.id
        /\ \A k \in DOMAIN log : log[k].id = r.id =>
             /\ pc[i] \notin {"reload", "commit"}
             /\ <<log[k].req, log[k].fp, log[k].rev, log[k].gen, log[k].by>> = <<r.req, r.fp, r.rev, r.gen, i>>
    BY <1>0, <1>6 DEF Prepared
  <2>2. p = "commit" => r.parent \in Log!IdsOf(log) \cup {NoCommit}
    BY <1>0, Replay DEF Log!IdsOf, Last
  <2>3. \A k \in DOMAIN log : log[k].id = r.id => p # "commit"
    BY <2>1
  <2>4. Log!IdsOf(log)' = Log!IdsOf(log)
    BY DEF Log!IdsOf
  <2>5. \A j \in Owners \ {i} : InFlight(j)' => prop'[j].rec.id # r.id
    BY <1>1, <2>1
  <2> QED
    BY <1>1, <1>7, <2>1, <2>2, <2>3, <2>4, <2>5 DEF Prepared
<1>9. IF own[i].up THEN OfOperation(i, prop[i].rec)' ELSE OfRestart(i, prop[i].rec)'
  BY <1>0, <1>1, <1>6 DEF OfOperation, OfRestart
<1>10. ProposalsStand'
  <2> SUFFICES ASSUME NEW j \in Owners, InFlight(j)'
               PROVE  /\ Prepared(j, prop[j].rec)'
                      /\ IF own'[j].up THEN OfOperation(j, prop[j].rec)' ELSE OfRestart(j, prop[j].rec)'
    BY DEF ProposalsStand
  <2>1. CASE j = i
    BY <1>8, <1>9, <2>1
  <2>2. CASE j # i
    <3>1. InFlight(j) /\ prop'[i].rec.id # prop[j].rec.id
      BY <1>0, <1>1, <1>6, <2>2 DEF Prepared
    <3>2. attempts' \in Nat /\ attempts' >= attempts /\ epochs' \in Nat /\ epochs' >= epochs
      BY <1>0 DEF SessionsStand
    <3> QED
      BY <1>1, <2>2, <3>1, <3>2, OthersKept
  <2> QED
    BY <2>1, <2>2
<1>11. LastOwnerHolds'
  <2> SUFFICES ASSUME log # << >>, NEW j \in Owners, Works(j)
               PROVE  \/ Last'.by # j /\ Passed(own[j].rev)'
                      \/ Apart(j)'
                      \/ /\ Last'.by = j
                         /\ own'[j].rev.state <= Replayed'.rev.state
                         /\ InSync(j)' \/ (InFlight(j)' /\ Last'.id = prop'[j].rec.id)
    BY DEF LastOwnerHolds, Works
  <2>1. \/ (Last.by # j /\ Passed(own[j].rev)) \/ Apart(j)
        \/ Last.by = j /\ own[j].rev.state <= Replayed.rev.state /\ (InSync(j) \/ (InFlight(j) /\ Last.id = prop[j].rec.id))
    BY DEF OwnerInv, LastOwnerHolds
  <2>2. prop'[j].rec.id = prop[j].rec.id
    BY <1>6
  <2>3. Apart(j) => Apart(j)'
    BY <1>1, <1>2 DEF Apart, InFlight
  <2>4. Passed(own[j].rev) => Passed(own[j].rev)'
    BY <1>2 DEF Passed
  <2> QED
    BY <1>1, <1>2, <2>1, <2>2, <2>3, <2>4
<1>12. NothingSlippedIn'
  <2> SUFFICES ASSUME NEW j \in Owners, InFlight(j)
               PROVE  /\ log # << >> /\ Last'.by = j => Position(j)' = {} \/ Last'.id = prop'[j].rec.id
                      /\ \A k \in DOMAIN log : log[k].id = prop'[j].rec.id /\ k # Len(log) => Last'.by # j /\ Passed(prop[j].rec.rev)'
                      /\ pc'[j] = "commit" /\ own'[j].up /\ prop'[j].rec.parent = Replayed'.tip => InSync(j)'
    BY <1>1 DEF NothingSlippedIn
  <2>1. Position(j)' = Position(j) /\ prop'[j].rec.id = prop[j].rec.id /\ prop'[j].rec.rev = prop[j].rec.rev
    BY <1>6, <1>7 DEF Position
  <2>2. j # i => pc'[j] = pc[j] /\ prop'[j] = prop[j]
    BY <1>1
  <2>3. pc'[j] = "commit" /\ own'[j].up /\ prop'[j].rec.parent = Replayed'.tip => InSync(j)'
    BY <1>1, <1>2, <2>2 DEF OwnerInv, NothingSlippedIn
  <2> QED
    BY <1>2, <2>1, <2>3 DEF OwnerInv, NothingSlippedIn, Passed
<1> QED
  BY <1>3, <1>4, <1>5, <1>10, <1>11, <1>12 DEF OwnerInv

LEMMA ReloadKeeps ==
  ASSUME OwnerInv, NEW i \in Owners, Reload(i)
  PROVE  OwnerInv'
<1>1. /\ pc[i] = "reload" /\ InFlight(i)
      /\ UNCHANGED <<log, firm, told, refuted, storage, got, attempts, epochs>>
  BY DEF Reload, InFlight, storage
<1>2. SessionsStand /\ StreamStands /\ Prepared(i, prop[i].rec) /\ own[i].up
  BY <1>1 DEF OwnerInv, ProposalsStand, OfRestart
<1>3. CASE InSync(i)
  <2> DEFINE r == [prop[i].rec EXCEPT !.parent = Replayed.tip]
  <2>1. prop' = [prop EXCEPT ![i].rec.parent = Replayed.tip] /\ pc' = [pc EXCEPT ![i] = "commit"] /\ own' = own
    BY <1>3 DEF Reload
  <2>2. /\ DOMAIN prop' = Owners /\ prop'[i].rec = r /\ DOMAIN prop'[i] = {"rec", "bytes"} /\ prop'[i].bytes = prop[i].bytes
        /\ \A m \in Owners \ {i} : prop'[m] = prop[m]
    BY <1>2, <2>1 DEF SessionsStand, Prepared
  <2>3. /\ IsRecord(r) /\ r.parent = Replayed.tip
        /\ r.id = prop[i].rec.id /\ r.req = prop[i].rec.req /\ r.fp = prop[i].rec.fp /\ r.rev = prop[i].rec.rev
        /\ r.gen = prop[i].rec.gen /\ r.by = prop[i].rec.by /\ r.kind = prop[i].rec.kind
    BY <1>2 DEF Prepared, IsRecord
  <2> HIDE DEF r
  <2>4. firm' \in firm..Len(log) /\ DOMAIN got' = Owners
    BY <1>1, <1>2, Replay DEF StreamStands, SessionsStand
  <2> QED
    BY <1>1, <1>2, <1>3, <2>1, <2>2, <2>3, <2>4, Advances
<1>4. CASE ~InSync(i)
  <2>1. /\ DOMAIN own' = Owners /\ DOMAIN prop' = Owners /\ DOMAIN got' = Owners
        /\ pc' \in [Owners -> Steps] /\ pc'[i] = "idle" /\ own'[i] = [own[i] EXCEPT !.poisoned = TRUE]
        /\ \A m \in Owners \ {i} : pc'[m] = pc[m] /\ own'[m] = own[m] /\ prop'[m] = prop[m] /\ got'[m] = got[m]
    BY <1>1, <1>2, <1>4 DEF Reload, SessionsStand, Steps
  <2> QED
    BY <1>1, <2>1, PoisonKeeps
<1> QED
  BY <1>3, <1>4

\* A step that only moves the operation on, and maybe makes the stream firm.
LEMMA Moves ==
  ASSUME OwnerInv, NEW i \in Owners, InFlight(i), NEW p \in {"reconcile", "publish"},
         UNCHANGED <<log, told, refuted, own, prop, attempts, epochs>>, firm' \in firm..Len(log),
         pc' = [pc EXCEPT ![i] = p],
         DOMAIN got' = Owners, \A m \in Owners \ {i} : got'[m] = got[m],
         p = "publish" => \E k \in SameInput(i) : got'[i] = log[k].id /\ k <= firm'
  PROVE  OwnerInv'
<1>1. Prepared(i, prop[i].rec) /\ DOMAIN prop = Owners
  BY DEF OwnerInv, ProposalsStand, SessionsStand
<1>2. IsRecord(prop[i].rec) /\ DOMAIN prop[i] = {"rec", "bytes"}
  BY <1>1 DEF Prepared
<1> QED
  BY <1>1, <1>2, Advances

LEMMA CommitBarrierKeeps ==
  ASSUME OwnerInv, NEW i \in Owners, CommitBarrier(i)
  PROVE  OwnerInv'
<1>1. /\ pc[i] = "barrier" /\ InFlight(i) /\ pc' = [pc EXCEPT ![i] = "publish"]
      /\ firm' = Len(log) /\ got' = [got EXCEPT ![i] = prop[i].rec.id]
      /\ UNCHANGED <<log, told, refuted, own, prop, attempts, epochs>>
  BY DEF CommitBarrier, Log!Harden, InFlight
<1>2. SessionsStand /\ StreamStands /\ Prepared(i, prop[i].rec)
  BY <1>1 DEF OwnerInv, ProposalsStand
<1>3. DOMAIN got' = Owners /\ got'[i] = prop[i].rec.id /\ \A m \in Owners \ {i} : got'[m] = got[m]
  BY <1>1, <1>2 DEF SessionsStand
<1>4. firm' \in firm..Len(log) /\ \A k \in DOMAIN log : k <= firm'
  BY <1>1, <1>2, Replay DEF StreamStands
<1>5. PICK k \in DOMAIN log : log[k].id = prop[i].rec.id
  BY <1>1, <1>2 DEF Prepared, Log!IdsOf
<1>6. k \in SameInput(i)
  BY <1>2, <1>5 DEF Prepared, SameInput, Position
<1> QED
  BY <1>1, <1>3, <1>4, <1>5, <1>6, Moves

LEMMA FindExistingKeeps ==
  ASSUME OwnerInv, NEW i \in Owners, FindExisting(i)
  PROVE  OwnerInv'
<1>1. PICK k \in SameInput(i) : got' = [got EXCEPT ![i] = log[k].id]
  BY DEF FindExisting
<1>2. /\ InFlight(i) /\ pc' = [pc EXCEPT ![i] = "publish"] /\ firm' = Len(log)
      /\ UNCHANGED <<log, told, refuted, own, prop, attempts, epochs>>
  BY DEF FindExisting, Log!Harden, InFlight
<1>3. SessionsStand /\ StreamStands
  BY DEF OwnerInv
<1>4. DOMAIN got' = Owners /\ got'[i] = log[k].id /\ \A m \in Owners \ {i} : got'[m] = got[m]
  BY <1>1, <1>3 DEF SessionsStand
<1>5. firm' \in firm..Len(log) /\ k <= firm'
  BY <1>1, <1>2, <1>3, Replay DEF StreamStands, SameInput, Position
<1> QED
  BY <1>1, <1>2, <1>4, <1>5, Moves

LEMMA CommitRefusesKeeps ==
  ASSUME OwnerInv, NEW i \in Owners, CommitRefuses(i) \/ CommitFails(i)
  PROVE  OwnerInv'
<1>1. /\ InFlight(i) /\ pc' = [pc EXCEPT ![i] = "reconcile"] /\ firm' \in {firm, Len(log)}
      /\ UNCHANGED <<log, told, refuted, own, prop, got, attempts, epochs>>
  BY DEF CommitRefuses, CommitFails, Log!Harden, InFlight, storage
<1>2. SessionsStand /\ StreamStands
  BY DEF OwnerInv
<1>3. firm' \in firm..Len(log) /\ DOMAIN got' = Owners
  BY <1>1, <1>2, Replay DEF StreamStands, SessionsStand
<1> QED
  BY <1>1, <1>3, Moves

LEMMA RetryKeeps ==
  ASSUME OwnerInv, NEW i \in Owners, NEW q, Retry(i, q)
  PROVE  OwnerInv'
<1>1. /\ pc[i] = "idle" /\ firm' = Len(log)
      /\ UNCHANGED <<log, refuted, own, pc, prop, got, attempts, epochs>>
  BY DEF Retry, Usable
<1>2. SessionsStand /\ StreamStands /\ OutcomesStand
  BY DEF OwnerInv
<1>3. firm' \in firm..Len(log) /\ attempts \in Nat /\ epochs \in Nat /\ DOMAIN log = 1..firm'
  BY <1>1, <1>2, Replay DEF StreamStands, SessionsStand
<1>4. OutcomesStand'
  BY <1>1, <1>2, <1>3, AnswersStand DEF Retry
<1>5. StreamStands'
  BY <1>1, <1>2, <1>3, StreamKept
<1>6. SessionsStand'
  BY <1>1, <1>2 DEF SessionsStand, IsSession
<1>7. ProposalsStand'
  <2> SUFFICES ASSUME NEW j \in Owners, InFlight(j)'
               PROVE  /\ Prepared(j, prop[j].rec)'
                      /\ IF own'[j].up THEN OfOperation(j, prop[j].rec)' ELSE OfRestart(j, prop[j].rec)'
    BY DEF ProposalsStand
  <2>1. j \in Owners \ {i} /\ InFlight(j) /\ ~InFlight(i)'
    BY <1>1 DEF InFlight
  <2> QED
    BY <1>1, <1>3, <2>1, OthersKept
<1>8. LastOwnerHolds' /\ NothingSlippedIn'
  BY <1>1 DEF OwnerInv, LastOwnerHolds, NothingSlippedIn, Works, Passed, Apart, InSync, InFlight, Position, Last, Replayed
<1> QED
  BY <1>4, <1>5, <1>6, <1>7, <1>8 DEF OwnerInv

-----------------------------------------------------------------------------
(* Preparing a record.                                                     *)

LEMMA PrepareKeeps ==
  ASSUME OwnerInv, NEW i \in Owners, pc[i] = "idle", NEW r, NEW b, NEW step \in {"reload", "commit"},
         Prepare(i, r, b, step),
         IsRecord(r), r.by = i, r.id = attempts + 1, r.parent = Replayed.tip, r.req \notin RequestsIn,
         r.rev \in Revisions, r.rev.epoch \in 1..epochs,
         own[i].up => /\ ~own[i].poisoned /\ InSync(i) /\ ~Replayed.discarded /\ r.req \in Requests
                      /\ r.rev.epoch = own[i].rev.epoch /\ own[i].rev.state <= r.rev.state
                      /\ r.kind = "CatalogDiscard" => r.rev = own[i].rev,
         ~own[i].up => /\ step = "commit" /\ r.kind = "Restart" /\ r.req = r.id /\ r.parent # NoCommit
                       /\ IsSession(b) /\ b.up = TRUE /\ b.poisoned = FALSE /\ b.rev = r.rev /\ b.gen = r.gen
  PROVE  OwnerInv'
<1> DEFINE f == [r EXCEPT !.fp = Fingerprint(r)]
<1>0. /\ SessionsStand /\ StreamStands /\ OutcomesStand /\ attempts \in Nat /\ epochs \in Nat
      /\ Len(log) \in Nat /\ firm \in 0..Len(log)
  BY Replay DEF OwnerInv, SessionsStand, StreamStands
<1>1. /\ IsRecord(f) /\ f.by = i /\ f.id = attempts + 1 /\ f.parent = r.parent /\ f.req = r.req /\ f.rev = r.rev
      /\ f.kind = r.kind /\ f.gen = r.gen
  BY DEF IsRecord
<1>2. /\ UNCHANGED <<log, firm, told, refuted, own, got, epochs>> /\ attempts' = attempts + 1
      /\ prop' = [prop EXCEPT ![i] = [rec |-> f, bytes |-> b]] /\ pc' = [pc EXCEPT ![i] = step]
  BY DEF Prepare, storage
<1> HIDE DEF f
<1>3. /\ pc' \in [Owners -> Steps] /\ pc'[i] = step /\ InFlight(i)'
      /\ DOMAIN prop' = Owners /\ prop'[i].rec = f /\ prop'[i].bytes = b /\ DOMAIN prop'[i] = {"rec", "bytes"}
      /\ \A m \in Owners \ {i} : pc'[m] = pc[m] /\ prop'[m] = prop[m] /\ (InFlight(m)' <=> InFlight(m))
  BY <1>0, <1>2 DEF SessionsStand, Steps, InFlight
<1>4. Replayed' = Replayed /\ Last' = Last /\ \A j \in Owners : InSync(j)' <=> InSync(j)
  BY <1>2, SameStream
<1>5. SessionsStand'
  BY <1>0, <1>2, <1>3 DEF SessionsStand, IsSession
<1>6. firm' \in firm..Len(log) /\ attempts' \in Nat /\ attempts' >= attempts /\ epochs' \in Nat /\ epochs' >= epochs
  BY <1>0, <1>2
<1>7. StreamStands' /\ OutcomesStand'
  BY <1>0, <1>2, <1>6, StreamKept, AnswersStand
<1>8. /\ \A k \in DOMAIN log : log[k].id # f.id
      /\ \A j \in Owners \ {i} : InFlight(j) => prop[j].rec.id # f.id
  BY <1>0, <1>1 DEF StreamStands, OwnerInv, ProposalsStand, Prepared
<1>9. f.parent \in Log!IdsOf(log) \cup {NoCommit}
  BY <1>0, <1>1, Replay DEF Log!IdsOf, Last
<1>10. Position(i)' = {}
  BY <1>1, <1>2, <1>3 DEF Position, RequestsIn
<1>11. Prepared(i, prop[i].rec)'
  <2>1. f.id \in 1..attempts'
    BY <1>0, <1>1, <1>2
  <2>2. Log!IdsOf(log)' = Log!IdsOf(log)
    BY <1>2 DEF Log!IdsOf
  <2> QED
    BY <1>1, <1>2, <1>3, <1>8, <1>9, <2>1, <2>2 DEF Prepared
<1>12. ProposalsStand'
  <2> SUFFICES ASSUME NEW j \in Owners, InFlight(j)'
               PROVE  /\ Prepared(j, prop[j].rec)'
                      /\ IF own'[j].up THEN OfOperation(j, prop[j].rec)' ELSE OfRestart(j, prop[j].rec)'
    BY DEF ProposalsStand
  <2>1. CASE j = i
    BY <1>1, <1>2, <1>3, <1>11, <2>1 DEF OfOperation, OfRestart
  <2>2. CASE j # i
    <3>1. InFlight(j) /\ prop'[i].rec.id # prop[j].rec.id
      BY <1>3, <1>8, <2>2
    <3> QED
      BY <1>2, <1>3, <1>6, <2>2, <3>1, OthersKept
  <2> QED
    BY <2>1, <2>2
<1>13. LastOwnerHolds'
  <2> SUFFICES ASSUME log # << >>, NEW j \in Owners, Works(j)
               PROVE  \/ Last'.by # j /\ Passed(own[j].rev)'
                      \/ Apart(j)'
                      \/ /\ Last'.by = j
                         /\ own'[j].rev.state <= Replayed'.rev.state
                         /\ InSync(j)' \/ (InFlight(j)' /\ Last'.id = prop'[j].rec.id)
    BY <1>2 DEF LastOwnerHolds, Works
  <2>1. \/ (Last.by # j /\ Passed(own[j].rev)) \/ Apart(j)
        \/ Last.by = j /\ own[j].rev.state <= Replayed.rev.state /\ (InSync(j) \/ (InFlight(j) /\ Last.id = prop[j].rec.id))
    BY DEF OwnerInv, LastOwnerHolds
  <2>2. Passed(own[j].rev) => Passed(own[j].rev)'
    BY <1>2, <1>4 DEF Passed
  <2>3. Apart(j) => Apart(j)'
    BY <1>2, <1>3, <1>4 DEF Apart, Works
  <2>4. InSync(j) \/ (InFlight(j) /\ Last.id = prop[j].rec.id) =>
        InSync(j)' \/ (InFlight(j)' /\ Last'.id = prop'[j].rec.id)
    BY <1>3, <1>4 DEF InFlight
  <2> QED
    BY <1>2, <1>4, <2>1, <2>2, <2>3, <2>4
<1>14. NothingSlippedIn'
  <2> SUFFICES ASSUME NEW j \in Owners, InFlight(j)'
               PROVE  /\ log # << >> /\ Last'.by = j => Position(j)' = {} \/ Last'.id = prop'[j].rec.id
                      /\ \A k \in DOMAIN log : log[k].id = prop'[j].rec.id /\ k # Len(log) => Last'.by # j /\ Passed(prop[j].rec.rev)'
                      /\ pc'[j] = "commit" /\ own'[j].up /\ prop'[j].rec.parent = Replayed'.tip => InSync(j)'
    BY <1>2 DEF NothingSlippedIn
  <2>1. CASE j = i
    BY <1>2, <1>3, <1>4, <1>8, <1>10, <2>1
  <2>2. CASE j # i
    <3>1. Position(j)' = Position(j) /\ prop'[j] = prop[j] /\ pc'[j] = pc[j] /\ InFlight(j)
      BY <1>2, <1>3, <2>2 DEF Position
    <3> QED
      BY <1>2, <1>4, <3>1 DEF OwnerInv, NothingSlippedIn, Passed
  <2> QED
    BY <2>1, <2>2
<1> QED
  BY <1>5, <1>7, <1>12, <1>13, <1>14 DEF OwnerInv

\* A record an operation prepares: on its owner's revision and the loaded tip.
Fit(i, q, r) ==
    /\ IsRecord(r) /\ r.by = i /\ r.id = attempts + 1 /\ r.req = q /\ r.parent = Replayed.tip
    /\ r.rev \in {own[i].rev, Bump(own[i].rev, 0, 1), Bump(own[i].rev, 1, 1)}
    /\ r.kind = "CatalogDiscard" => r.rev = own[i].rev

\* All that an operation does before it commits.
Prepares(i, q) ==
    \E op, r, b, step : Ready(i, q, op) /\ Fit(i, q, r) /\ step \in {"reload", "commit"} /\ Prepare(i, r, b, step)

LEMMA PreparesKeeps ==
  ASSUME OwnerInv, NEW i \in Owners, NEW q \in Requests, Prepares(i, q)
  PROVE  OwnerInv'
<1> PICK op, r, b, step : Ready(i, q, op) /\ Fit(i, q, r) /\ step \in {"reload", "commit"} /\ Prepare(i, r, b, step)
  BY DEF Prepares
<1>1. /\ own[i].up /\ ~own[i].poisoned /\ pc[i] = "idle" /\ InSync(i) /\ ~Replayed.discarded /\ q \notin RequestsIn
  BY DEF Ready, Usable
<1>2. own[i].rev \in Revisions /\ own[i].rev.epoch \in 1..epochs
  BY <1>1 DEF OwnerInv, SessionsStand
<1>3. r.rev \in Revisions /\ r.rev.epoch = own[i].rev.epoch /\ own[i].rev.state <= r.rev.state
  <2>1. own[i].rev.state \in Nat
    BY <1>2 DEF Revisions
  <2> QED
    BY <1>2, <2>1, Bumped DEF Fit
<1> QED
  BY <1>1, <1>2, <1>3, PrepareKeeps DEF Fit

LEMMA Preparing ==
  ASSUME NEW i \in Owners, NEW q \in Requests, NEW op, Ready(i, q, op),
         NEW r, Fit(i, q, r), NEW b, NEW step \in {"reload", "commit"}, Prepare(i, r, b, step)
  PROVE  Prepares(i, q)
BY DEF Prepares

LEMMA BlankFits ==
  ASSUME NEW i, NEW q
  PROVE  /\ Fit(i, q, Blank(i, q))
         /\ Blank(i, q).kind = "WriteNothing" /\ Blank(i, q).rev = own[i].rev
BY DEF Fit, Blank, IsRecord

\* Fields that say what is published do not matter.
LEMMA FitKept ==
  ASSUME NEW i, NEW q, NEW r, Fit(i, q, r), NEW v
  PROVE  /\ Fit(i, q, [r EXCEPT !.item = v]) /\ [r EXCEPT !.item = v].kind = r.kind
         /\ Fit(i, q, [r EXCEPT !.preserve = v])
BY DEF Fit, IsRecord

LEMMA ControlFits ==
  ASSUME NEW i, NEW q, NEW kind, kind # "CatalogDiscard"
  PROVE  Fit(i, q, Control(i, q, kind)) /\ Control(i, q, kind).kind = kind
<1> DEFINE b == Blank(i, q)
           v == IF kind \in Receipts \/ kind \in CatalogKinds THEN b.rev ELSE Bump(b.rev, 0, 1)
           g == IF kind \in {"Checkpoint", "CheckpointDelete"} THEN b.gen + 1 ELSE b.gen
<1>1. Control(i, q, kind) = [b EXCEPT !.kind = kind, !.rev = v, !.gen = g]
  BY DEF Control, Blank
<1>2. v \in {own[i].rev, Bump(own[i].rev, 0, 1)}
  BY BlankFits
<1>3. IsRecord(b) /\ Fit(i, q, b)
  BY BlankFits DEF Fit
<1> HIDE DEF b, v, g
<1> QED
  BY <1>1, <1>2, <1>3 DEF Fit, IsRecord

LEMMA PublishingFits ==
  ASSUME NEW i, NEW q, NEW r, Fit(i, q, r), r.rev = own[i].rev, r.kind # "CatalogDiscard"
  PROVE  Fit(i, q, Publishing(r)) /\ Publishing(r).kind = r.kind
<1> DEFINE b == Put(r.branches, r.branch, r.id)
<1>1. Publishing(r) = [r EXCEPT !.publishes = TRUE, !.hparent = r.head, !.head = r.id,
                                !.branches = b, !.rev = Bump(own[i].rev, 1, 1)]
  BY DEF Publishing, Fit, IsRecord
<1> HIDE DEF b
<1> QED
  BY <1>1 DEF Fit, IsRecord

LEMMA WritePrepares ==
  ASSUME NEW i \in Owners, NEW q \in Requests, Write(i, q)
  PROVE  Prepares(i, q)
<1> DEFINE m == [Blank(i, q) EXCEPT !.kind = "Mutation"]
<1>1. Fit(i, q, m) /\ m.rev = own[i].rev /\ m.kind = "Mutation"
  BY DEF Fit, Blank, IsRecord
<1> HIDE DEF m
<1>2. Fit(i, q, Publishing(m))
  BY <1>1, PublishingFits
<1>3. \A keep : Fit(i, q, [Publishing(m) EXCEPT !.preserve = keep])
  BY <1>2, FitKept
<1>4. /\ Ready(i, q, "write")
      /\ \/ \E keep \in BOOLEAN : Prepare(i, [Publishing(m) EXCEPT !.preserve = keep], NoBytes, "commit")
         \/ Prepare(i, Blank(i, q), NoBytes, "commit")
  BY DEF Write, m
<1> QED
  BY <1>3, <1>4, BlankFits, Preparing

LEMMA StagePrepares ==
  ASSUME NEW i \in Owners, NEW q \in Requests, Stage(i, q)
  PROVE  Prepares(i, q)
<1> DEFINE r == [Blank(i, q) EXCEPT !.kind = "CatalogStage", !.item = attempts + 1, !.gen = @ + 1]
<1>1. Fit(i, q, r)
  BY DEF Fit, Blank, IsRecord
<1>2. Ready(i, q, "stage") /\ Prepare(i, r, NoBytes, "commit")
  BY DEF Stage
<1> HIDE DEF r
<1> QED
  BY <1>1, <1>2, Preparing

LEMMA SubmitPrepares ==
  ASSUME NEW i \in Owners, NEW q \in Requests, NEW op, Ready(i, q, op),
         NEW r, Fit(i, q, r), NEW b, Submit(i, r, b)
  PROVE  Prepares(i, q)
BY Preparing DEF Submit

LEMMA ApplyStagedPrepares ==
  ASSUME NEW i \in Owners, NEW q \in Requests, ApplyStaged(i, q)
  PROVE  Prepares(i, q)
<1>1. PICK c : LET r == [Blank(i, q) EXCEPT !.kind = "StageApply", !.item = c, !.gen = @ + 1]
               IN  Submit(i, Publishing(r), NoBytes) \/ Submit(i, r, NoBytes)
  BY DEF ApplyStaged
<1> DEFINE r == [Blank(i, q) EXCEPT !.kind = "StageApply", !.item = c, !.gen = @ + 1]
<1>2. Fit(i, q, r) /\ r.rev = own[i].rev /\ r.kind = "StageApply"
  BY DEF Fit, Blank, IsRecord
<1>3. Submit(i, Publishing(r), NoBytes) \/ Submit(i, r, NoBytes)
  BY <1>1
<1>4. Ready(i, q, "apply_staged")
  BY DEF ApplyStaged
<1> HIDE DEF r
<1>5. Fit(i, q, Publishing(r))
  BY <1>2, PublishingFits
<1> QED
  BY <1>2, <1>3, <1>4, <1>5, SubmitPrepares

LEMMA ReceiptPrepares ==
  ASSUME NEW i \in Owners, NEW q \in Requests, NEW op, Ready(i, q, op),
         NEW kind \in Receipts, NEW item, Receipt(i, q, kind, item)
  PROVE  Prepares(i, q)
<1>1. Fit(i, q, Control(i, q, kind))
  BY ControlFits DEF Receipts
<1>2. Fit(i, q, [Control(i, q, kind) EXCEPT !.item = item])
  BY <1>1, FitKept
<1> QED
  BY <1>2, SubmitPrepares DEF Receipt

LEMMA DiscardStagedPrepares ==
  ASSUME NEW i \in Owners, NEW q \in Requests, DiscardStaged(i, q)
  PROVE  Prepares(i, q)
<1>1. PICK c : \/ Submit(i, [Blank(i, q) EXCEPT !.kind = "CatalogDiscard", !.item = c, !.gen = @ + 1], NoBytes)
               \/ Receipt(i, q, "DiscardNothing", c)
  BY DEF DiscardStaged
<1>2. Ready(i, q, "discard_staged")
  BY DEF DiscardStaged
<1> DEFINE r == [Blank(i, q) EXCEPT !.kind = "CatalogDiscard", !.item = c, !.gen = @ + 1]
<1>3. Fit(i, q, r)
  BY DEF Fit, Blank, IsRecord
<1>4. Submit(i, r, NoBytes) \/ Receipt(i, q, "DiscardNothing", c)
  BY <1>1
<1> HIDE DEF r
<1>5. CASE Submit(i, r, NoBytes)
  BY <1>2, <1>3, <1>5, SubmitPrepares
<1>6. CASE Receipt(i, q, "DiscardNothing", c)
  BY <1>2, <1>6, ReceiptPrepares DEF Receipts
<1> QED
  BY <1>4, <1>5, <1>6

LEMMA MoveHeadPrepares ==
  ASSUME NEW i \in Owners, NEW q \in Requests, NEW op, Ready(i, q, op),
         NEW kind \in HeadMoves, NEW t, MoveHead(i, q, kind, t)
  PROVE  Prepares(i, q)
<1> DEFINE c == Control(i, q, kind)
           r == [c EXCEPT !.head = t, !.rev = Bump(own[i].rev, 1, 1)]
<1>1. Fit(i, q, c) /\ c.kind = kind /\ kind # "CatalogDiscard"
  BY ControlFits DEF HeadMoves
<1>2. Submit(i, r, Materialize(t))
  BY DEF MoveHead
<1> HIDE DEF c
<1>3. Fit(i, q, r)
  BY <1>1 DEF Fit, IsRecord
<1> HIDE DEF r
<1> QED
  BY <1>2, <1>3, SubmitPrepares

LEMMA HistoryPrepares ==
  ASSUME NEW i \in Owners, NEW q \in Requests,
         Undo(i, q) \/ Redo(i, q) \/ Checkout(i, q) \/ RestoreCheckpoint(i, q) \/ Lifecycle(i, q)
  PROVE  Prepares(i, q)
<1>1. CASE Undo(i, q)
  BY <1>1, ReceiptPrepares, MoveHeadPrepares DEF Undo, Receipts, HeadMoves
<1>2. CASE Redo(i, q)
  BY <1>2, ReceiptPrepares, MoveHeadPrepares DEF Redo, Receipts, HeadMoves
<1>3. CASE Checkout(i, q)
  BY <1>3, MoveHeadPrepares DEF Checkout, HeadMoves
<1>4. CASE RestoreCheckpoint(i, q)
  BY <1>4, MoveHeadPrepares DEF RestoreCheckpoint, HeadMoves
<1>5. CASE Lifecycle(i, q)
  BY <1>5, ReceiptPrepares DEF Lifecycle, Receipts
<1> QED
  BY <1>1, <1>2, <1>3, <1>4, <1>5

LEMMA ControlPrepares ==
  ASSUME NEW i \in Owners, NEW q \in Requests,
         Recalculate(i, q) \/ RevokeCalculation(i, q) \/ CreateCheckpoint(i, q) \/ DeleteCheckpoint(i, q)
  PROVE  Prepares(i, q)
<1>1. CASE Recalculate(i, q)
  BY <1>1, ControlFits, SubmitPrepares DEF Recalculate
<1>2. CASE RevokeCalculation(i, q)
  BY <1>2, ControlFits, SubmitPrepares, ReceiptPrepares DEF RevokeCalculation, Receipts
<1>3. CASE CreateCheckpoint(i, q)
  BY <1>3, ControlFits, SubmitPrepares DEF CreateCheckpoint
<1>4. CASE DeleteCheckpoint(i, q)
  <2>1. Fit(i, q, Control(i, q, "CheckpointDelete"))
    BY ControlFits
  <2>2. \A c : Fit(i, q, [Control(i, q, "CheckpointDelete") EXCEPT !.item = c])
    BY <2>1, FitKept
  <2> QED
    BY <1>4, <2>2, SubmitPrepares DEF DeleteCheckpoint
<1> QED
  BY <1>1, <1>2, <1>3, <1>4

LEMMA BranchPrepares ==
  ASSUME NEW i \in Owners, NEW q \in Requests, CreateBranch(i, q) \/ SwitchBranch(i, q)
  PROVE  Prepares(i, q)
<1>1. CASE CreateBranch(i, q)
  <2> DEFINE c == Control(i, q, "BranchCreate")
  <2>1. PICK b, t : Submit(i, [c EXCEPT !.item = b, !.target = t, !.branches = Put(@, b, t)], NoBytes)
    BY <1>1 DEF CreateBranch
  <2>2. Fit(i, q, c)
    BY ControlFits
  <2> HIDE DEF c
  <2>3. Fit(i, q, [c EXCEPT !.item = b, !.target = t, !.branches = Put(@, b, t)])
    BY <2>2 DEF Fit, IsRecord
  <2>4. Ready(i, q, "branch")
    BY <1>1, ZenonT(60) DEF CreateBranch
  <2> QED
    BY <2>1, <2>3, <2>4, SubmitPrepares
<1>2. CASE SwitchBranch(i, q)
  <2> DEFINE c == Control(i, q, "BranchSwitch")
  <2>1. PICK b \in DOMAIN Replayed.branches :
          LET t == Replayed.branches[b]
              moves == t # Replayed.head
              r == [c EXCEPT !.item = b, !.branch = b, !.head = t]
          IN  Submit(i, IF moves THEN [r EXCEPT !.rev = Bump(own[i].rev, 1, 1)] ELSE r,
                     IF moves THEN Materialize(t) ELSE NoBytes)
    BY <1>2 DEF SwitchBranch
  <2> DEFINE t == Replayed.branches[b]
             r == [c EXCEPT !.item = b, !.branch = b, !.head = t]
             s == IF t # Replayed.head THEN [r EXCEPT !.rev = Bump(own[i].rev, 1, 1)] ELSE r
             m == IF t # Replayed.head THEN Materialize(t) ELSE NoBytes
  <2>2. Submit(i, s, m)
    BY <2>1
  <2>3. Fit(i, q, c) /\ c.kind = "BranchSwitch"
    BY ControlFits
  <2> HIDE DEF c, t
  <2>4. Fit(i, q, r) /\ r.kind = "BranchSwitch"
    BY <2>3 DEF Fit, IsRecord
  <2> HIDE DEF r
  <2>5. Fit(i, q, [r EXCEPT !.rev = Bump(own[i].rev, 1, 1)])
    BY <2>4, SMTT(60) DEF Fit, IsRecord
  <2>6. Fit(i, q, s)
    BY <2>4, <2>5, SMTT(60)
  <2>7. Ready(i, q, "switch")
    BY <1>2 DEF SwitchBranch
  <2> HIDE DEF s, m
  <2> QED
    BY <2>2, <2>6, <2>7, SubmitPrepares, SMTT(60)
<1> QED
  BY <1>1, <1>2

LEMMA OperationPrepares ==
  ASSUME NEW i \in Owners, NEW q \in Requests, Operation(i, q), ~RecalculateFails(i, q), ~Retry(i, q)
  PROVE  Prepares(i, q)
BY WritePrepares, StagePrepares, ApplyStagedPrepares, DiscardStagedPrepares, ControlPrepares,
   HistoryPrepares, BranchPrepares DEF Operation

\* A restart's identity is nobody's, and so is the request it goes under.
LEMMA RecoverKeeps ==
  ASSUME OwnerInv, NEW i \in Owners, Recover(i)
  PROVE  OwnerInv'
<1> DEFINE o == RecoverFromRecords
           b == Blank(i, attempts + 1)
           r == [b EXCEPT !.kind = "Restart", !.item = Replayed.tip,
                          !.before = o.rev, !.rev = o.rev, !.gen = o.gen]
<1>1. pc[i] = "idle" /\ ~own[i].up /\ log # << >> /\ Prepare(i, r, o, "commit")
  BY DEF Recover
<1>2. SessionsStand /\ StreamStands /\ attempts \in Nat
  BY DEF OwnerInv, SessionsStand
<1>3. /\ IsSession(o) /\ o.up = TRUE /\ o.poisoned = FALSE /\ o.rev \in Revisions /\ o.rev.epoch \in 1..epochs
  BY <1>1, <1>2, RecoveredSession
<1>4. /\ IsRecord(b) /\ b.by = i /\ b.id = attempts + 1 /\ b.req = attempts + 1 /\ b.parent = Replayed.tip
  BY BlankFits DEF Fit
<1> HIDE DEF o, b
<1>5. /\ IsRecord(r) /\ r.by = i /\ r.id = attempts + 1 /\ r.req = attempts + 1 /\ r.parent = Replayed.tip
      /\ r.kind = "Restart" /\ r.rev = o.rev /\ r.gen = o.gen
  BY <1>4 DEF IsRecord
<1> HIDE DEF r
<1>6. Replayed.tip # NoCommit
  BY <1>1, <1>2, Replay, OwnerBounds DEF StreamStands, Last
<1>7. r.req \notin RequestsIn
  <2> SUFFICES ASSUME NEW k \in DOMAIN log, log[k].req = attempts + 1 PROVE FALSE
    BY <1>5 DEF RequestsIn
  <2>1. log[k].req \in Requests \cup {log[k].id} /\ log[k].id \in 1..attempts
    BY <1>2 DEF StreamStands
  <2> QED
    BY <1>2, <2>1, OwnerBounds
<1> QED
  BY <1>1, <1>3, <1>5, <1>6, <1>7, PrepareKeeps

-----------------------------------------------------------------------------
(* The stream grows.                                                       *)

LEMMA AfterFields ==
  ASSUME NEW h, NEW r
  PROVE  After(h, r).tip = r.id /\ After(h, r).rev = r.rev /\ After(h, r).gen = GenAfter(h, r)
BY DEF After

LEMMA StampedFields ==
  ASSUME NEW r, IsRecord(r), Accepts(Replayed, r)
  PROVE  LET e == Stamped(r)
         IN  /\ e.id = r.id /\ e.req = r.req /\ e.fp = r.fp /\ e.rev = r.rev /\ e.gen = r.gen /\ e.by = r.by
             /\ e.parent = r.parent
             /\ e.post.tip = r.id /\ e.post.rev = r.rev /\ e.post.gen = r.gen
<1> DEFINE p == After(Replayed, r)
<1>1. p.tip = r.id /\ p.rev = r.rev /\ p.gen = r.gen
  BY AfterFields DEF Accepts, Follows, ClaimsMatch
<1>2. Stamped(r) = [r EXCEPT !.post = p]
  BY DEF Stamped
<1> HIDE DEF p
<1> QED
  BY <1>1, <1>2 DEF IsRecord

\* What replay accepts on a stream with records has their epoch, and a restart
\* a state of its own.
LEMMA RevisionGrows ==
  ASSUME NEW h, NEW r, Accepts(h, r), h.rev \in Revisions
  PROVE  /\ r.rev.epoch = h.rev.epoch /\ r.rev.state \in {h.rev.state, h.rev.state + 1}
         /\ r.kind = "Restart" => r.rev.state = h.rev.state + 1
<1>1. h.rev # NoRevision
  BY OwnerBounds DEF Revisions
<1>2. r.rev = RevAfter(h, r, h.rev)
  BY <1>1 DEF Accepts, Follows, RevisionFollows
<1>3. /\ r.rev.epoch = h.rev.epoch
      /\ r.rev.state = h.rev.state + (IF CatalogOnly(r) THEN 0 ELSE 1)
  BY <1>2 DEF RevAfter
<1>4. h.rev.state \in Nat
  BY DEF Revisions
<1>5. r.kind = "Restart" => ~CatalogOnly(r)
  BY DEF CatalogOnly, CatalogKinds, Receipts
<1> QED
  BY <1>3, <1>4, <1>5

\* What an append changes, in one place.
LEMMA AppendFacts ==
  ASSUME OwnerInv, NEW i \in Owners, CommitAppend(i)
  PROVE  LET r == prop[i].rec
             e == Stamped(r)
         IN  /\ pc[i] = "commit" /\ InFlight(i) /\ Prepared(i, r) /\ Accepts(Replayed, r)
             /\ UNCHANGED <<firm, told, refuted, own, prop, got, attempts, epochs>>
             /\ pc' \in [Owners -> Steps] /\ pc'[i] = "barrier" /\ \A m \in Owners \ {i} : pc'[m] = pc[m]
             /\ \A m \in Owners : InFlight(m)' <=> InFlight(m)
             /\ r.parent = Replayed.tip /\ r.id \notin refuted /\ ~Replayed.discarded
             /\ \A k \in DOMAIN log : log[k].id # r.id /\ log[k].req # r.req
             /\ log' \in Seq({log'[k] : k \in DOMAIN log'})
             /\ Len(log) \in Nat /\ Len(log') = Len(log) + 1 /\ log' # << >>
             /\ DOMAIN log = 1..Len(log) /\ DOMAIN log' = 1..(Len(log) + 1)
             /\ \A k \in DOMAIN log : log'[k] = log[k]
             /\ log'[Len(log) + 1] = e
             /\ Last' = e /\ Replayed' = e.post /\ Replayed'.rev = r.rev /\ Replayed'.tip = r.id
<1> DEFINE r == prop[i].rec
           e == Stamped(r)
<1>1. /\ pc[i] = "commit" /\ InFlight(i) /\ Accepts(Replayed, r) /\ pc' = [pc EXCEPT ![i] = "barrier"]
      /\ UNCHANGED <<firm, told, refuted, own, prop, got, attempts, epochs>>
      /\ log' = Append(log, e) /\ e.id \notin refuted
      /\ \A k \in DOMAIN log : log[k].id # e.id /\ log[k].req # e.req
  BY DEF CommitAppend, Log!AppendRecord, InFlight
<1>2. SessionsStand /\ StreamStands /\ Prepared(i, r)
  BY <1>1 DEF OwnerInv, ProposalsStand
<1>3. e.id = r.id /\ e.req = r.req /\ e.post.rev = r.rev /\ e.post.tip = r.id
  BY <1>1, <1>2, StampedFields DEF Prepared
<1>4. pc' \in [Owners -> Steps] /\ pc'[i] = "barrier" /\ \A m \in Owners \ {i} : pc'[m] = pc[m]
  BY <1>1, <1>2 DEF SessionsStand, Steps
<1>5. \A m \in Owners : InFlight(m)' <=> InFlight(m)
  BY <1>1, <1>4 DEF InFlight
<1> HIDE DEF e
<1>6. log \in Seq({log[k] : k \in DOMAIN log})
  BY <1>2 DEF StreamStands
<1>7. /\ log' \in Seq({log'[k] : k \in DOMAIN log'})
      /\ Len(log) \in Nat /\ Len(log') = Len(log) + 1 /\ DOMAIN log = 1..Len(log) /\ DOMAIN log' = 1..(Len(log) + 1)
      /\ \A k \in 1..Len(log) : log'[k] = log[k]
      /\ log'[Len(log) + 1] = e
  <2>1. log' = Append(log, e)
    BY <1>1
  <2>2. log' \in Seq({log'[k] : k \in DOMAIN log'})
    BY ONLY <2>1, <1>6, Appending, SMTT(60)
  <2>3. /\ Len(log) \in Nat /\ Len(log') = Len(log) + 1 /\ DOMAIN log = 1..Len(log) /\ DOMAIN log' = 1..(Len(log) + 1)
        /\ \A k \in 1..Len(log) : log'[k] = log[k]
        /\ log'[Len(log) + 1] = e
    BY ONLY <2>1, <1>6, Appending, SMT
  <2> QED
    BY ONLY <2>2, <2>3, Zenon
<1>8. log' # << >>
  BY <1>7
<1>9. Last' = e /\ Replayed' = e.post
  BY <1>7, <1>8 DEF Last, Replayed
<1>10. r.parent = Replayed.tip /\ ~Replayed.discarded
  BY <1>1 DEF Accepts, Follows
<1>11. /\ \A k \in DOMAIN log : log[k].id # r.id /\ log[k].req # r.req
       /\ r.id \notin refuted /\ Replayed'.rev = r.rev /\ Replayed'.tip = r.id
  BY <1>1, <1>3, <1>9
<1>12. \A k \in DOMAIN log : log'[k] = log[k]
  BY <1>7
<1> USE DEF e
<1> QED
  BY ONLY <1>1, <1>2, <1>4, <1>5, <1>7, <1>8, <1>9, <1>10, <1>11, <1>12, Zenon

\* Whoever may append wrote the last record, or restarts; others are passed.
LEMMA AppenderIsLast ==
  ASSUME OwnerInv, NEW i \in Owners, CommitAppend(i), log # << >>
  PROVE  /\ own[i].up => Last.by = i /\ own[i].rev = Last.rev
         /\ ~own[i].up => prop[i].rec.kind = "Restart"
         /\ Replayed.rev = Last.rev /\ Last.rev \in Revisions
         /\ prop[i].rec.rev.epoch = Last.rev.epoch
         /\ prop[i].rec.rev.state \in {Last.rev.state, Last.rev.state + 1}
         /\ ~own[i].up => prop[i].rec.rev.state = Last.rev.state + 1
<1>1. /\ pc[i] = "commit" /\ InFlight(i) /\ Accepts(Replayed, prop[i].rec)
      /\ prop[i].rec.parent = Replayed.tip /\ ~Replayed.discarded
  BY AppendFacts
<1>2. Replayed.rev = Last.rev /\ Last.rev \in Revisions /\ \A j : InSync(j) <=> own[j].rev = Last.rev /\ own[j].gen = Last.gen
  BY Replay DEF OwnerInv
<1>3. ~own[i].up => prop[i].rec.kind = "Restart"
  BY <1>1 DEF OwnerInv, ProposalsStand, OfRestart
<1>4. own[i].up => Last.by = i /\ own[i].rev = Last.rev
  <2> SUFFICES ASSUME own[i].up PROVE Last.by = i /\ own[i].rev = Last.rev
    OBVIOUS
  <2>1. InSync(i)
    BY <1>1 DEF OwnerInv, NothingSlippedIn
  <2>2. own[i].rev = Replayed.rev
    BY <1>2, <2>1
  <2>3. ~own[i].poisoned
    BY <1>1 DEF OwnerInv, ProposalsStand, OfOperation
  <2>4. ~Passed(own[i].rev)
    BY <1>2, <2>2 DEF Passed, Revisions
  <2> QED
    BY <1>1, <1>2, <2>2, <2>3, <2>4 DEF OwnerInv, LastOwnerHolds, Works, Apart
<1>5. /\ prop[i].rec.rev.epoch = Replayed.rev.epoch
      /\ prop[i].rec.rev.state \in {Replayed.rev.state, Replayed.rev.state + 1}
      /\ prop[i].rec.kind = "Restart" => prop[i].rec.rev.state = Replayed.rev.state + 1
  BY <1>1, <1>2, RevisionGrows
<1> QED
  BY <1>2, <1>3, <1>4, <1>5

\* A revision that is passed stays passed.
LEMMA PassedStays ==
  ASSUME OwnerInv, NEW i \in Owners, CommitAppend(i), log # << >>, NEW v \in Revisions, Passed(v)
  PROVE  v.epoch # prop[i].rec.rev.epoch \/ v.state < prop[i].rec.rev.state
BY AppenderIsLast, SMTT(60) DEF Passed, Revisions

LEMMA CommitAppendKeeps ==
  ASSUME OwnerInv, NEW i \in Owners, CommitAppend(i)
  PROVE  OwnerInv'
<1> DEFINE r == prop[i].rec
           e == Stamped(r)
           n == Len(log)
<1>0. /\ pc[i] = "commit" /\ InFlight(i) /\ Prepared(i, r) /\ Accepts(Replayed, r)
      /\ UNCHANGED <<firm, told, refuted, own, prop, got, attempts, epochs>>
      /\ r.parent = Replayed.tip /\ r.id \notin refuted /\ ~Replayed.discarded
      /\ \A k \in DOMAIN log : log[k].id # r.id /\ log[k].req # r.req
  BY AppendFacts
<1>1. /\ pc' \in [Owners -> Steps] /\ pc'[i] = "barrier" /\ \A m \in Owners \ {i} : pc'[m] = pc[m]
      /\ \A m \in Owners : InFlight(m)' <=> InFlight(m)
  BY AppendFacts
<1>2. /\ n \in Nat /\ Len(log') = n + 1 /\ log' # << >> /\ DOMAIN log = 1..n /\ DOMAIN log' = 1..(n + 1)
      /\ \A k \in DOMAIN log : log'[k] = log[k]
      /\ log'[n + 1] = e /\ Last' = e /\ Replayed'.rev = r.rev /\ Replayed'.tip = r.id
  BY AppendFacts
<1>3. log' \in Seq({log'[k] : k \in DOMAIN log'})
  BY AppendFacts, Zenon
<1>4. SessionsStand /\ StreamStands /\ OutcomesStand /\ attempts \in Nat /\ epochs \in Nat
  BY DEF OwnerInv, SessionsStand
<1>5. /\ e.id = r.id /\ e.req = r.req /\ e.fp = r.fp /\ e.rev = r.rev /\ e.gen = r.gen /\ e.by = r.by
      /\ e.post.tip = r.id /\ e.post.rev = r.rev /\ e.post.gen = r.gen
  BY <1>0, StampedFields DEF Prepared
<1>6. /\ r.by = i /\ r.id \in 1..attempts /\ r.rev \in Revisions /\ r.rev.epoch \in 1..epochs
      /\ r.req \in Requests \cup {r.id}
      /\ IF own[i].up THEN OfOperation(i, r) ELSE OfRestart(i, r)
  BY <1>0 DEF OwnerInv, ProposalsStand, Prepared, OfOperation, OfRestart
<1>7. log = << >> => own[i].up
  BY <1>0, <1>4, <1>6, Replay DEF OfRestart
<1> HIDE DEF e, n
<1>8. \A k \in DOMAIN log' : k \in DOMAIN log \/ k = n + 1
  BY <1>2
<1>9. SessionsStand'
  BY <1>0, <1>1, <1>2, <1>4 DEF SessionsStand, IsSession
<1>10. StreamStands'
  <2>1. firm' \in 0..Len(log')
    BY <1>0, <1>2, <1>4 DEF StreamStands, n
  <2>2. ASSUME NEW k \in DOMAIN log'
        PROVE  /\ log'[k].id \in 1..attempts /\ log'[k].req \in Requests \cup {log'[k].id}
               /\ log'[k].rev \in Revisions /\ log'[k].rev.epoch \in 1..epochs
               /\ log'[k].post.tip = log'[k].id /\ log'[k].post.rev = log'[k].rev /\ log'[k].post.gen = log'[k].gen
    <3>1. CASE k \in DOMAIN log
      BY <1>2, <1>4, <3>1 DEF StreamStands
    <3>2. CASE k = n + 1
      BY <1>2, <1>5, <1>6, <3>2
    <3> QED
      BY <1>8, <3>1, <3>2
  <2>3. Log!OncePerIdentity(log)'
    <3> SUFFICES ASSUME NEW k \in DOMAIN log', NEW m \in DOMAIN log', k # m
                 PROVE  log'[k].id # log'[m].id /\ log'[k].req # log'[m].req
      BY DEF Log!OncePerIdentity
    <3>1. CASE k \in DOMAIN log /\ m \in DOMAIN log
      BY <1>2, <1>4, <3>1 DEF StreamStands, Log!OncePerIdentity
    <3>2. CASE k = n + 1 \/ m = n + 1
      BY <1>0, <1>2, <1>5, <1>8, <3>2
    <3> QED
      BY <1>8, <3>1, <3>2
  <2> QED
    BY <1>0, <1>3, <2>1, <2>2, <2>3 DEF StreamStands
<1>11. OutcomesStand'
  <2>1. firm \in 0..n
    BY <1>4 DEF StreamStands, n
  <2>2. Log!IdsOf(log)' \cap refuted = {}
    <3> SUFFICES ASSUME NEW k \in DOMAIN log' PROVE log'[k].id \notin refuted
      BY DEF Log!IdsOf
    <3>1. CASE k \in DOMAIN log
      BY <1>2, <1>4, <3>1 DEF OutcomesStand, Log!RefutedStaysOut, Log!IdsOf
    <3>2. CASE k = n + 1
      BY <1>0, <1>2, <1>5, <3>2
    <3> QED
      BY <1>8, <3>1, <3>2
  <2>3. \A t \in told : t.seq \in 1..firm /\ log'[t.seq] = t.rec
    BY <1>2, <1>4, <2>1 DEF OutcomesStand, Log!ToldIsKept
  <2> QED
    BY <1>0, <2>2, <2>3 DEF OutcomesStand, Log!ToldIsKept, Log!RefutedStaysOut
<1> HIDE DEF r
<1>12. ProposalsStand'
  <2> SUFFICES ASSUME NEW j \in Owners, InFlight(j)
               PROVE  /\ Prepared(j, prop[j].rec)'
                      /\ IF own'[j].up THEN OfOperation(j, prop[j].rec)' ELSE OfRestart(j, prop[j].rec)'
    BY <1>1 DEF ProposalsStand
  <2>1. /\ Prepared(j, prop[j].rec)
        /\ IF own[j].up THEN OfOperation(j, prop[j].rec) ELSE OfRestart(j, prop[j].rec)
    BY DEF OwnerInv, ProposalsStand
  <2>2. IF own'[j].up THEN OfOperation(j, prop[j].rec)' ELSE OfRestart(j, prop[j].rec)'
    BY <1>0, <1>1, <2>1 DEF OfOperation, OfRestart
  <2>3. \A k \in DOMAIN log' : log'[k].id = prop[j].rec.id =>
           /\ pc'[j] \notin {"reload", "commit"}
           /\ <<log'[k].req, log'[k].fp, log'[k].rev, log'[k].gen, log'[k].by>>
                = <<prop[j].rec.req, prop[j].rec.fp, prop[j].rec.rev, prop[j].rec.gen, j>>
    <3> SUFFICES ASSUME NEW k \in DOMAIN log', log'[k].id = prop[j].rec.id
                 PROVE  /\ pc'[j] \notin {"reload", "commit"}
                        /\ log'[k].req = prop[j].rec.req /\ log'[k].fp = prop[j].rec.fp
                        /\ log'[k].rev = prop[j].rec.rev /\ log'[k].gen = prop[j].rec.gen /\ log'[k].by = j
      OBVIOUS
    <3>1. CASE k \in DOMAIN log
      <4>1. j # i
        BY <1>0, <1>2, <3>1 DEF r
      <4> QED
        BY <1>1, <1>2, <2>1, <3>1, <4>1 DEF Prepared
    <3>2. CASE k = n + 1
      <4>1. j = i
        BY <1>0, <1>2, <1>5, <2>1, <3>2 DEF Prepared, r
      <4> QED
        BY <1>1, <1>2, <1>5, <1>6, <3>2, <4>1 DEF r
    <3> QED
      BY <1>8, <3>1, <3>2
  <2>4. Log!IdsOf(log) \subseteq Log!IdsOf(log)' /\ r.id \in Log!IdsOf(log)'
    BY <1>2, <1>5 DEF Log!IdsOf
  <2>5. pc'[j] = "publish" => \E k \in SameInput(j)' : got[j] = log'[k].id /\ k <= firm
    <3> SUFFICES ASSUME pc'[j] = "publish" PROVE \E k \in SameInput(j)' : got[j] = log'[k].id /\ k <= firm
      OBVIOUS
    <3>1. pc[j] = "publish"
      BY <1>1
    <3>2. PICK k \in SameInput(j) : got[j] = log[k].id /\ k <= firm
      BY <2>1, <3>1 DEF Prepared
    <3>3. k \in SameInput(j)' /\ log'[k] = log[k]
      BY <1>0, <1>2, <3>2 DEF SameInput, Position
    <3> QED
      BY <3>2, <3>3
  <2>6. pc'[j] = "barrier" => prop[j].rec.id \in Log!IdsOf(log)'
    BY <1>1, <2>1, <2>4 DEF Prepared, r
  <2>7. pc'[j] = "commit" => prop[j].rec.parent \in Log!IdsOf(log)' \cup {NoCommit}
    BY <1>1, <2>1, <2>4 DEF Prepared
  <2>8. Prepared(j, prop[j].rec)'
    BY <1>0, <1>1, <2>1, <2>3, <2>5, <2>6, <2>7 DEF Prepared
  <2> QED
    BY <2>2, <2>8
<1>13. LastOwnerHolds'
  <2> SUFFICES ASSUME NEW j \in Owners, Works(j)
               PROVE  \/ Last'.by # j /\ Passed(own[j].rev)'
                      \/ /\ Last'.by = j
                         /\ own'[j].rev.state <= Replayed'.rev.state
                         /\ InFlight(j)' /\ Last'.id = prop'[j].rec.id
    BY <1>0 DEF LastOwnerHolds, Works
  <2>0. own[j].up /\ own[j].rev \in Revisions /\ own[i].up \in BOOLEAN
    BY <1>4 DEF Works, SessionsStand
  <2>1. CASE j = i
    <3>1. own[i].rev.state <= r.rev.state
      BY <1>6, <2>0, <2>1 DEF OfOperation
    <3> QED
      BY <1>0, <1>1, <1>2, <1>5, <1>6, <2>1, <3>1 DEF r
  <2>2. CASE j # i
    <3>0. Last'.by # j
      BY <1>0, <1>2, <1>5, <1>6, <2>2 DEF r
    <3>1. CASE log = << >>
      <4>1. own[i].up /\ own[i].rev.epoch # own[j].rev.epoch /\ r.rev.epoch = own[i].rev.epoch
        BY <1>4, <1>6, <1>7, <2>0, <2>2, <3>1 DEF SessionsStand, OfOperation
      <4> QED
        BY <1>0, <1>2, <3>0, <4>1 DEF Passed
    <3>2. CASE log # << >>
      <4>1. \/ Passed(own[j].rev)
            \/ Last.by = j /\ own[j].rev.state <= Replayed.rev.state
        BY <1>0, <3>2 DEF OwnerInv, LastOwnerHolds, Apart
      <4>2. CASE Passed(own[j].rev)
        BY <1>0, <1>2, <2>0, <3>0, <3>2, <4>2, PassedStays DEF Passed, r
      <4>3. CASE Last.by = j /\ own[j].rev.state <= Replayed.rev.state
        <5>1. ~own[i].up
          BY <2>2, <3>2, <4>3, AppenderIsLast
        <5>2. Replayed.rev = Last.rev /\ Last.rev \in Revisions /\ r.rev.state = Last.rev.state + 1
          BY <3>2, <5>1, AppenderIsLast DEF r
        <5>3. own[j].rev.state < r.rev.state
          BY <2>0, <4>3, <5>2 DEF Revisions
        <5> QED
          BY <1>0, <1>2, <3>0, <5>3 DEF Passed
      <4> QED
        BY <4>1, <4>2, <4>3
    <3> QED
      BY <3>1, <3>2
  <2> QED
    BY <2>1, <2>2
<1>14. NothingSlippedIn'
  <2> SUFFICES ASSUME NEW j \in Owners, InFlight(j)
               PROVE  /\ Last'.by = j => Last'.id = prop'[j].rec.id
                      /\ \A k \in DOMAIN log' : log'[k].id = prop'[j].rec.id /\ k # Len(log') => Last'.by # j /\ Passed(prop[j].rec.rev)'
                      /\ ~(pc'[j] = "commit" /\ own'[j].up /\ prop'[j].rec.parent = Replayed'.tip)
    BY <1>1 DEF NothingSlippedIn
  <2>1. Prepared(j, prop[j].rec)
    BY DEF OwnerInv, ProposalsStand
  <2>2. Last'.by = j => Last'.id = prop'[j].rec.id
    BY <1>0, <1>2, <1>5, <1>6 DEF r
  <2>3. ~(pc'[j] = "commit" /\ prop'[j].rec.parent = Replayed'.tip)
    <3> SUFFICES ASSUME pc'[j] = "commit", prop'[j].rec.parent = Replayed'.tip PROVE FALSE
      OBVIOUS
    <3>1. j # i /\ pc[j] = "commit"
      BY <1>1
    <3>2. r.id \in Log!IdsOf(log) \cup {NoCommit}
      BY <1>0, <1>2, <2>1, <3>1 DEF Prepared
    <3>3. r.id \notin Log!IdsOf(log)
      BY <1>0 DEF Log!IdsOf
    <3> QED
      BY <1>4, <1>6, <3>2, <3>3, OwnerBounds
  <2>4. ASSUME NEW k \in DOMAIN log', log'[k].id = prop[j].rec.id, k # n + 1
        PROVE  Last'.by # j /\ Passed(prop[j].rec.rev)'
    <3>1. k \in DOMAIN log /\ log[k].id = prop[j].rec.id /\ log # << >>
      BY <1>2, <1>8, <2>4
    <3>2. j # i
      BY <1>0, <3>1 DEF r
    <3>0. Last'.by # j
      BY <1>0, <1>2, <1>5, <1>6, <3>2 DEF r
    <3>3. prop[j].rec.rev \in Revisions /\ log[k].rev = prop[j].rec.rev /\ log[k].by = j
      BY <2>1, <3>1 DEF Prepared
    <3>4. CASE k # n
      <4>1. Passed(prop[j].rec.rev)
        BY <3>1, <3>4 DEF OwnerInv, NothingSlippedIn, n
      <4> QED
        BY <1>0, <1>2, <3>0, <3>1, <3>3, <4>1, PassedStays DEF Passed, r
    <3>5. CASE k = n
      <4>1. Last.by = j /\ Last.rev = prop[j].rec.rev
        BY <3>3, <3>5 DEF Last, n
      <4>2. ~own[i].up
        BY <3>1, <3>2, <4>1, AppenderIsLast
      <4>3. r.rev.state = Last.rev.state + 1 /\ Last.rev \in Revisions
        BY <3>1, <4>2, AppenderIsLast DEF r
      <4>4. prop[j].rec.rev.state < r.rev.state
        BY <4>1, <4>3 DEF Revisions
      <4> QED
        BY <1>0, <1>2, <3>0, <4>4 DEF Passed
    <3> QED
      BY <3>4, <3>5
  <2> QED
    BY <1>0, <1>2, <2>2, <2>3, <2>4
<1> QED
  BY <1>9, <1>10, <1>11, <1>12, <1>13, <1>14 DEF OwnerInv

-----------------------------------------------------------------------------
(* The power goes.                                                         *)

LEMMA PowerLossKeeps == OwnerInv /\ PowerLoss => OwnerInv'
<1> SUFFICES ASSUME OwnerInv, PowerLoss PROVE OwnerInv'
  OBVIOUS
<1>1. PICK n \in 0..Len(log) : n >= firm /\ log' = SubSeq(log, 1, n) /\ firm' = n /\ told' = told /\ refuted' = refuted
  BY DEF PowerLoss, Log!Lose
<1>2. /\ own' = [i \in Owners |-> Down] /\ pc' = [i \in Owners |-> "idle"] /\ DOMAIN prop' = Owners /\ DOMAIN got' = Owners
      /\ attempts' = attempts /\ epochs' = epochs
  BY DEF PowerLoss
<1>3. SessionsStand /\ StreamStands /\ OutcomesStand
  BY DEF OwnerInv
<1>4. log \in Seq({log[k] : k \in DOMAIN log})
  BY <1>3 DEF StreamStands
<1>5. log' = SubSeq(log, 1, n)
  BY <1>1
<1>0. n \in 0..Len(log)
  OBVIOUS
<1>6. log' \in Seq({log'[k] : k \in DOMAIN log'})
  <2> DEFINE S == {log[k] : k \in DOMAIN log}
             t == log'
  <2>1. log \in Seq(S)
    BY <1>4
  <2> HIDE DEF S
  <2>2. t \in Seq(S)
    BY <1>0, <1>5, <2>1, PrefixOf
  <2> HIDE DEF t
  <2>3. t \in Seq({t[k] : k \in DOMAIN t})
    BY ONLY <2>2, OfItsElements, Zenon
  <2> QED
    BY ONLY <2>3, Zenon DEF t
<1>7. /\ Len(log') = n /\ DOMAIN log' = 1..n /\ DOMAIN log = 1..Len(log) /\ \A k \in 1..n : log'[k] = log[k]
  BY ONLY <1>0, <1>4, <1>5, Prefixing, SMT
<1>8. n \in Nat /\ 1..n \subseteq DOMAIN log
  BY <1>3, <1>7, Replay
<1>9. SessionsStand'
  BY <1>2, <1>3, DownIsSession DEF SessionsStand, Steps
<1>10. StreamStands'
  <2>1. firm' \in 0..Len(log')
    BY <1>1, <1>7, <1>8
  <2>2. \A k \in DOMAIN log' : log'[k] = log[k] /\ k \in DOMAIN log
    BY <1>7, <1>8
  <2>3. Log!OncePerIdentity(log)'
    BY <1>3, <2>2 DEF StreamStands, Log!OncePerIdentity
  <2>4. \A k \in DOMAIN log' :
          /\ log'[k].id \in 1..attempts' /\ log'[k].req \in Requests \cup {log'[k].id}
          /\ log'[k].rev \in Revisions /\ log'[k].rev.epoch \in 1..epochs'
          /\ log'[k].post.tip = log'[k].id /\ log'[k].post.rev = log'[k].rev /\ log'[k].post.gen = log'[k].gen
    BY <1>2, <1>3, <2>2 DEF StreamStands
  <2> QED
    BY <1>6, <2>1, <2>3, <2>4 DEF StreamStands
<1>11. OutcomesStand'
  <2>1. firm \in Nat
    BY <1>3 DEF StreamStands
  <2>2. \A t \in told : t.seq \in 1..n /\ log'[t.seq] = t.rec
    BY <1>1, <1>3, <1>7, <1>8, <2>1 DEF OutcomesStand, Log!ToldIsKept
  <2>3. Log!IdsOf(log)' \subseteq Log!IdsOf(log)
    BY <1>7, <1>8 DEF Log!IdsOf
  <2> QED
    BY <1>1, <1>3, <2>2, <2>3 DEF OutcomesStand, Log!ToldIsKept, Log!RefutedStaysOut
<1>12. \A i \in Owners : ~InFlight(i)' /\ ~Works(i)'
  BY <1>2, DownIsSession DEF InFlight, Works
<1>13. ProposalsStand' /\ LastOwnerHolds' /\ NothingSlippedIn'
  BY <1>12 DEF ProposalsStand, LastOwnerHolds, NothingSlippedIn
<1> QED
  BY <1>9, <1>10, <1>11, <1>13 DEF OwnerInv

-----------------------------------------------------------------------------
LEMMA OwnerNext == OwnerInv /\ [Next]_vars => OwnerInv'
<1> SUFFICES ASSUME OwnerInv, [Next]_vars PROVE OwnerInv'
  OBVIOUS
<1>1. ASSUME NEW i \in Owners, NEW q \in Requests, Operation(i, q) PROVE OwnerInv'
  BY <1>1, OperationPrepares, PreparesKeeps, RecalculateFailsKeeps, RetryKeeps
<1>2. ASSUME NEW i \in Owners, Continue(i) PROVE OwnerInv'
  BY <1>2, ReloadKeeps, CommitAppendKeeps, CommitBarrierKeeps, FindExistingKeeps, CommitRefusesKeeps,
     ReconcileNotFoundKeeps, ReconcileFailsKeeps, PublishKeeps, PublishOriginalKeeps, RecoveredKeeps DEF Continue
<1>3. ASSUME NEW i \in Owners, StaleWrite(i) \/ RecoverIdle(i) \/ Recover(i) \/ Leave(i) PROVE OwnerInv'
  BY <1>3, StaleWriteKeeps, RecoverIdleKeeps, RecoverKeeps, LeaveKeeps
<1>4. CASE PowerLoss
  BY <1>4, PowerLossKeeps
<1>5. CASE UNCHANGED vars
  <2>1. UNCHANGED <<log, firm, told, refuted, own, pc, prop, got, attempts, epochs>>
    BY <1>5 DEF vars, storage
  <2>2. SessionsStand' /\ StreamStands' /\ OutcomesStand'
    BY <2>1 DEF OwnerInv, SessionsStand, StreamStands, OutcomesStand, IsSession, Log!OncePerIdentity,
                Log!ToldIsKept, Log!RefutedStaysOut, Log!IdsOf
  <2>3. ProposalsStand'
    BY <2>1 DEF OwnerInv, ProposalsStand, Prepared, OfOperation, OfRestart, InFlight, IsRecord, IsSession,
                SameInput, Position, Log!IdsOf
  <2>4. LastOwnerHolds' /\ NothingSlippedIn'
    BY <2>1 DEF OwnerInv, LastOwnerHolds, NothingSlippedIn, Works, Passed, Apart, InSync, InFlight, Position, Last, Replayed
  <2> QED
    BY <2>2, <2>3, <2>4 DEF OwnerInv
<1> QED
  BY <1>1, <1>2, <1>3, <1>4, <1>5 DEF Next

\* What every owner of a resident session can rely on, however many compete:
\* the revision of the stream's last record has passed everybody but the owner
\* that wrote it, and that owner is in step with it or about to publish it
\* (ResidentWriteSession, recover_durable_resident_session).
THEOREM OwnerInvariant == Spec => []OwnerInv
<1>1. Init => OwnerInv
  BY OwnerInit
<1>2. OwnerInv /\ [Next]_vars => OwnerInv'
  BY OwnerNext
<1> QED
  BY <1>1, <1>2, PTL DEF Spec

\* Fencing: the comparison of revision and catalog generation that every
\* durable operation makes lets at most one owner through, and no error path of
\* commit, reconcile or publication leaves an owner working beside a commit of
\* its own that it has not published.
THEOREM OwnersFenced == Spec => []OwnersAreFenced
<1>1. OwnerInv => OwnersAreFenced
  <2> SUFFICES ASSUME OwnerInv PROVE OneOwnerInStep /\ NeverBehindItself
    BY DEF OwnersAreFenced
  <2>1. ASSUME log # << >>, NEW i \in Owners, Usable(i), InSync(i) PROVE Last.by = i
    <3>1. own[i].rev = Replayed.rev /\ Replayed.rev \in Revisions
      BY <2>1, Replay DEF OwnerInv
    <3>2. ~Passed(own[i].rev) /\ ~Apart(i)
      BY <3>1 DEF Passed, Apart, Revisions
    <3> QED
      BY <2>1, <3>2 DEF OwnerInv, LastOwnerHolds, Works, Usable
  <2>2. OneOwnerInStep
    BY <2>1 DEF OneOwnerInStep
  <2>3. NeverBehindItself
    <3> SUFFICES ASSUME NEW i \in Owners, Usable(i), log # << >>, ~Replayed.discarded, Last.by = i
                 PROVE  InSync(i)
      BY DEF NeverBehindItself, Last
    <3> QED
      BY DEF OwnerInv, LastOwnerHolds, Works, Usable, Apart, InFlight
  <2> QED
    BY <2>2, <2>3
<1> QED
  BY <1>1, OwnerInvariant, PTL

\* An outcome returned to a client is in the stream at the place it was given,
\* and an operation answered with an error without effect never enters it, over
\* every order of barriers, retries, crashes and recoveries (commit_durable,
\* reconcile).
THEOREM OutcomesKept == Spec => []OutcomesStand
<1>1. OwnerInv => OutcomesStand
  BY DEF OwnerInv
<1> QED
  BY <1>1, OwnerInvariant, PTL

-----------------------------------------------------------------------------
(* Induction.                                                              *)

Before == OpToRel(<, Nat)

LEMMA BeforeIsWellFounded == IsWellFoundedOn(Before, Nat)
BY NatLessThanWellFounded DEF Before

LEMMA BeforeMeansLess == \A x, y \in Nat : x < y => <<x, y>> \in Before
BY DEF Before, OpToRel

LEMMA Induction ==
  ASSUME NEW T \in SUBSET Nat, 0 \in T, \A n \in T : n + 1 \in T
  PROVE  T = Nat
<1> SUFFICES ASSUME T # Nat PROVE FALSE
  OBVIOUS
<1> DEFINE R == Nat \ T
<1>1. R # {} /\ R \subseteq Nat
  OBVIOUS
<1>2. PICK x \in R : \A y \in R : ~(<<y, x>> \in Before)
  BY <1>1, BeforeIsWellFounded, WFMin
<1>3. x \in Nat /\ x # 0 /\ x - 1 \in Nat /\ x - 1 < x
  BY <1>2
<1>4. x - 1 \in T
  BY <1>2, <1>3, BeforeMeansLess
<1> QED
  BY <1>2, <1>3, <1>4

-----------------------------------------------------------------------------
(* Lineages.                                                               *)

\* Parents are older commits.
Rooted(h) ==
    \A c \in Known(h) :
        c \in Nat /\ (h.parents[c] = NoCommit \/ (h.parents[c] \in Known(h) /\ h.parents[c] < c))

\* The paths to the commits up to n.
Paths(h, n, f) ==
    /\ f[NoCommit] = << >>
    /\ \A c \in Known(h) : c <= n => f[c] = Append(f[h.parents[c]], c)

\* A history that knows all another one does.
Extended(h, e) == Known(h) \subseteq Known(e) /\ \A c \in Known(h) : e.parents[c] = h.parents[c]

LEMMA PathsAgree ==
  ASSUME NEW h, Rooted(h), NEW e, Extended(h, e), NEW n \in Nat,
         NEW f, Paths(h, n, f), NEW g, Paths(e, n, g)
  PROVE  \A c \in Known(h) : c <= n => f[c] = g[c]
<1> DEFINE T == {m \in Nat : \A c \in Known(h) : c <= m /\ c <= n => f[c] = g[c]}
<1>1. ASSUME NEW c \in Known(h), c <= n,
             \A p \in Known(h) : p < c => f[p] = g[p]
      PROVE  f[c] = g[c]
  <2>1. /\ f[c] = Append(f[h.parents[c]], c) /\ g[c] = Append(g[h.parents[c]], c)
        /\ f[NoCommit] = << >> /\ g[NoCommit] = << >>
    BY <1>1 DEF Paths, Extended
  <2>2. f[h.parents[c]] = g[h.parents[c]]
    BY <1>1, <2>1 DEF Rooted
  <2> QED
    BY <2>1, <2>2
<1>2. 0 \in T
  <2> SUFFICES ASSUME NEW c \in Known(h), c <= 0, c <= n PROVE f[c] = g[c]
    OBVIOUS
  <2> QED
    BY <1>1 DEF Rooted
<1>3. ASSUME NEW m \in T PROVE m + 1 \in T
  <2> SUFFICES ASSUME NEW c \in Known(h), c <= m + 1, c <= n PROVE f[c] = g[c]
    OBVIOUS
  <2>1. m \in Nat /\ \A p \in Known(h) : p <= m /\ p <= n => f[p] = g[p]
    OBVIOUS
  <2>2. \A p \in Known(h) : p < c => f[p] = g[p]
    BY <2>1 DEF Rooted
  <2> QED
    BY <1>1, <2>2
<1> HIDE DEF T
<1>4. T = Nat
  BY <1>2, <1>3, Induction DEF T
<1> QED
  BY <1>4 DEF T, Rooted

LEMMA PathsExist ==
  ASSUME NEW h, Rooted(h)
  PROVE  \A n \in Nat : \E f : Paths(h, n, f)
<1> DEFINE T == {n \in Nat : \E f : Paths(h, n, f)}
           S == Known(h) \cup {NoCommit}
<1>0. \A c \in Known(h) : c # NoCommit /\ c \in Nat
  BY OwnerBounds DEF Rooted
<1>1. 0 \in T
  <2> DEFINE f == [c \in S |-> IF c = NoCommit THEN << >> ELSE Append(<< >>, c)]
  <2>1. f[NoCommit] = << >> /\ \A c \in Known(h) : f[c] = Append(<< >>, c)
    BY <1>0
  <2>2. \A c \in Known(h) : c <= 0 => h.parents[c] = NoCommit
    BY <1>0 DEF Rooted
  <2> HIDE DEF f
  <2>3. Paths(h, 0, f)
    BY <2>1, <2>2 DEF Paths
  <2> QED
    BY <2>3
<1>2. ASSUME NEW n \in T PROVE n + 1 \in T
  <2>1. PICK f : Paths(h, n, f)
    OBVIOUS
  <2> DEFINE e == [c \in S |-> IF c = n + 1 THEN Append(f[h.parents[c]], c) ELSE f[c]]
  <2>2. n \in Nat /\ n + 1 # NoCommit
    BY OwnerBounds
  <2>3. /\ \A c \in S : c # n + 1 => e[c] = f[c]
        /\ \A c \in S : c = n + 1 => e[c] = Append(f[h.parents[c]], c)
    OBVIOUS
  <2> HIDE DEF e
  <2>4. e[NoCommit] = << >>
    BY <2>1, <2>2, <2>3 DEF Paths
  <2>5. ASSUME NEW c \in Known(h), c <= n + 1 PROVE e[c] = Append(e[h.parents[c]], c)
    <3>1. h.parents[c] \in S /\ h.parents[c] # n + 1
      BY <1>0, <2>2, <2>5 DEF Rooted
    <3>2. e[h.parents[c]] = f[h.parents[c]]
      BY <2>3, <3>1
    <3>3. CASE c = n + 1
      BY <2>3, <3>2, <3>3
    <3>4. CASE c # n + 1
      <4>1. c <= n
        BY <1>0, <2>2, <2>5, <3>4
      <4> QED
        BY <2>1, <2>3, <3>2, <3>4, <4>1 DEF Paths
    <3> QED
      BY <3>3, <3>4
  <2>6. Paths(h, n + 1, e)
    BY <2>4, <2>5 DEF Paths
  <2> QED
    BY <2>2, <2>6
<1> HIDE DEF T
<1>3. T = Nat
  BY <1>1, <1>2, Induction DEF T
<1> QED
  BY <1>3 DEF T

\* The recursive definition defines what it says.
LEMMA LineageUnfolds ==
  ASSUME NEW h, Rooted(h)
  PROVE  /\ Lineage(h, NoCommit) = << >>
         /\ \A c \in Known(h) : Lineage(h, c) = Append(Lineage(h, h.parents[c]), c)
<1> DEFINE G(n) == CHOOSE f : Paths(h, n, f)
           S == Known(h) \cup {NoCommit}
           f == [x \in S |-> IF x = NoCommit THEN << >> ELSE G(x)[x]]
<1>0. \A c \in Known(h) : c # NoCommit /\ c \in Nat
  BY OwnerBounds DEF Rooted
<1>1. \A n \in Nat : Paths(h, n, G(n))
  BY PathsExist
<1> HIDE DEF G
<1>2. ASSUME NEW x \in S
      PROVE  f[x] = IF x = NoCommit THEN << >> ELSE Append(f[h.parents[x]], x)
  <2>1. CASE x = NoCommit
    BY <2>1
  <2>2. CASE x # NoCommit
    <3>1. x \in Known(h) /\ x \in Nat /\ f[x] = G(x)[x]
      BY <1>0, <2>2
    <3>2. Paths(h, x, G(x))
      BY <1>1, <3>1
    <3>3. f[x] = Append(G(x)[h.parents[x]], x)
      BY <3>1, <3>2 DEF Paths
    <3>4. f[h.parents[x]] = G(x)[h.parents[x]]
      <4>1. CASE h.parents[x] = NoCommit
        BY <3>2, <4>1 DEF Paths
      <4>2. CASE h.parents[x] # NoCommit
        <5> DEFINE p == h.parents[x]
        <5>1. p \in Known(h) /\ p \in Nat /\ p < x /\ f[p] = G(p)[p]
          BY <1>0, <3>1, <4>2 DEF Rooted
        <5>2. Paths(h, p, G(p))
          BY <1>1, <5>1
        <5>3. Paths(h, p, G(x))
          BY <1>0, <3>1, <3>2, <5>1 DEF Paths
        <5>4. Extended(h, h)
          BY DEF Extended
        <5> HIDE DEF p, f
        <5>5. G(p)[p] = G(x)[p]
          BY <5>1, <5>2, <5>3, <5>4, PathsAgree
        <5> QED
          BY <5>1, <5>5 DEF p
      <4> QED
        BY <4>1, <4>2
    <3> QED
      BY <2>2, <3>3, <3>4
  <2> QED
    BY <2>1, <2>2
<1> DEFINE Path(g) == g = [x \in S |-> IF x = NoCommit THEN << >> ELSE Append(g[h.parents[x]], x)]
           l == CHOOSE g : Path(g)
<1>3. Path(f)
  BY <1>2, ZenonT(60)
<1>4. Path(l)
  BY <1>3
<1>5. \A c : Lineage(h, c) = l[c]
  BY DEF Lineage
<1> HIDE DEF f, l
<1>6. l[NoCommit] = << >> /\ \A c \in Known(h) : l[c] = Append(l[h.parents[c]], c)
  BY <1>0, <1>4
<1> QED
  BY <1>5, <1>6

\* What a history knows more does not change its lineages.
LEMMA LineageExtends ==
  ASSUME NEW h, Rooted(h), NEW e, Rooted(e), Extended(h, e)
  PROVE  \A c \in Known(h) \cup {NoCommit} : Lineage(e, c) = Lineage(h, c)
<1> DEFINE f == [x \in Known(h) \cup {NoCommit} |-> Lineage(h, x)]
           g == [x \in Known(e) \cup {NoCommit} |-> Lineage(e, x)]
<1>1. Lineage(h, NoCommit) = << >> /\ Lineage(e, NoCommit) = << >>
  BY LineageUnfolds
<1>2. f[NoCommit] = << >> /\ g[NoCommit] = << >>
  BY <1>1
<1>3. ASSUME NEW c \in Known(h) PROVE f[c] = Append(f[h.parents[c]], c)
  <2>1. h.parents[c] \in Known(h) \cup {NoCommit} /\ Lineage(h, c) = Append(Lineage(h, h.parents[c]), c)
    BY LineageUnfolds DEF Rooted
  <2> QED
    BY <2>1
<1>4. ASSUME NEW c \in Known(e) PROVE g[c] = Append(g[e.parents[c]], c)
  <2>1. e.parents[c] \in Known(e) \cup {NoCommit} /\ Lineage(e, c) = Append(Lineage(e, e.parents[c]), c)
    BY LineageUnfolds DEF Rooted
  <2> QED
    BY <2>1
<1>5. ASSUME NEW c \in Known(h) PROVE Lineage(e, c) = Lineage(h, c)
  <2>1. c \in Nat /\ c \in Known(e) /\ f[c] = Lineage(h, c) /\ g[c] = Lineage(e, c)
    BY DEF Rooted, Extended
  <2> HIDE DEF f, g
  <2>2. Paths(h, c, f) /\ Paths(e, c, g)
    BY <1>2, <1>3, <1>4 DEF Paths
  <2> QED
    BY <2>1, <2>2, PathsAgree
<1> QED
  BY <1>1, <1>5

LEMMA SequenceGrows ==
  ASSUME NEW s \in Seq(Nat), NEW c \in Nat
  PROVE  /\ Append(s, c) \in Seq(Nat)
         /\ {Append(s, c)[k] : k \in DOMAIN Append(s, c)} = {s[k] : k \in DOMAIN s} \cup {c}
<1> DEFINE t == Append(s, c)
<1>1. /\ t \in Seq(Nat) /\ Len(s) \in Nat /\ DOMAIN s = 1..Len(s) /\ DOMAIN t = 1..(Len(s) + 1)
      /\ \A k \in 1..Len(s) : t[k] = s[k]
      /\ t[Len(s) + 1] = c
  BY AppendOf
<1> HIDE DEF t
<1>2. \A k \in 1..(Len(s) + 1) : k \in 1..Len(s) \/ k = Len(s) + 1
  BY <1>1
<1>3. Len(s) + 1 \in 1..(Len(s) + 1) /\ \A k \in 1..Len(s) : k \in 1..(Len(s) + 1)
  BY <1>1
<1>4. {t[k] : k \in DOMAIN t} = {s[k] : k \in DOMAIN s} \cup {c}
  BY <1>1, <1>2, <1>3
<1> QED
  BY <1>1, <1>4 DEF t

\* A lineage goes back in time, and no two of its commits have the same parent.
LineageStands(h, c) ==
    /\ Lineage(h, c) \in Seq(Nat)
    /\ \A x \in OnLineage(h, c) : c # NoCommit /\ x \in Known(h) /\ x <= c
    /\ \A x, y \in OnLineage(h, c) : h.parents[x] = h.parents[y] => x = y

LEMMA LineagesStand ==
  ASSUME NEW h, Rooted(h)
  PROVE  /\ \A c \in Known(h) \cup {NoCommit} : LineageStands(h, c)
         /\ \A c \in Known(h) : c \in OnLineage(h, c)
<1>0. /\ Lineage(h, NoCommit) = << >> /\ \A c \in Known(h) : Lineage(h, c) = Append(Lineage(h, h.parents[c]), c)
      /\ \A c \in Known(h) : c \in Nat /\ c # NoCommit
  BY LineageUnfolds, OwnerBounds DEF Rooted
<1>1. OnLineage(h, NoCommit) = {} /\ LineageStands(h, NoCommit)
  BY <1>0 DEF OnLineage, LineageStands
<1>2. ASSUME NEW c \in Known(h), LineageStands(h, h.parents[c])
      PROVE  LineageStands(h, c) /\ c \in OnLineage(h, c)
  <2> DEFINE p == h.parents[c]
  <2>1. Lineage(h, c) \in Seq(Nat) /\ OnLineage(h, c) = OnLineage(h, p) \cup {c}
    <3> DEFINE s == Lineage(h, p)
    <3>1. s \in Seq(Nat) /\ c \in Nat /\ Lineage(h, c) = Append(s, c)
      BY <1>0, <1>2 DEF LineageStands
    <3>2. OnLineage(h, p) = {s[k] : k \in DOMAIN s}
      BY DEF OnLineage
    <3>3. OnLineage(h, c) = {Append(s, c)[k] : k \in DOMAIN Append(s, c)}
      BY <3>1 DEF OnLineage
    <3> HIDE DEF s
    <3> QED
      BY <3>1, <3>2, <3>3, SequenceGrows, SMTT(60)
  <2>2. p = NoCommit \/ (p \in Known(h) /\ p \in Nat /\ p < c)
    BY <1>0 DEF Rooted
  <2>3. \A x \in OnLineage(h, p) : p \in Nat /\ p < c /\ x \in Known(h) /\ x \in Nat /\ x <= p
    BY <1>0, <1>2, <2>2 DEF LineageStands
  <2>4. \A x \in OnLineage(h, c) : x \in Known(h) /\ x <= c
    BY <1>0, <2>1, <2>3
  <2>5. \A x \in OnLineage(h, p) : h.parents[x] # p
    BY <2>3, OwnerBounds DEF Rooted
  <2>6. \A x, y \in OnLineage(h, c) : h.parents[x] = h.parents[y] => x = y
    BY <1>2, <2>1, <2>5 DEF LineageStands
  <2> QED
    BY <1>0, <2>1, <2>4, <2>6 DEF LineageStands
<1> DEFINE T == {n \in Nat : \A c \in Known(h) : c <= n => LineageStands(h, c)}
<1>3. ASSUME NEW c \in Known(h), \A x \in Known(h) : x < c => LineageStands(h, x)
      PROVE  LineageStands(h, h.parents[c])
  BY <1>1, <1>3 DEF Rooted
<1>4. 0 \in T
  <2> SUFFICES ASSUME NEW c \in Known(h), c <= 0 PROVE LineageStands(h, c)
    OBVIOUS
  <2>1. \A x \in Known(h) : ~(x < c)
    BY <1>0
  <2> QED
    BY <1>2, <1>3, <2>1
<1>5. ASSUME NEW n \in T PROVE n + 1 \in T
  <2> SUFFICES ASSUME NEW c \in Known(h), c <= n + 1 PROVE LineageStands(h, c)
    OBVIOUS
  <2>1. n \in Nat /\ \A x \in Known(h) : x <= n => LineageStands(h, x)
    OBVIOUS
  <2>2. \A x \in Known(h) : x < c => LineageStands(h, x)
    BY <1>0, <2>1
  <2> QED
    BY <1>2, <1>3, <2>2
<1> HIDE DEF T
<1>6. T = Nat
  BY <1>4, <1>5, Induction DEF T
<1>7. \A c \in Known(h) : LineageStands(h, c)
  BY <1>0, <1>6 DEF T
<1>8. \A c \in Known(h) : LineageStands(h, h.parents[c])
  BY <1>3, <1>7
<1> QED
  BY <1>1, <1>2, <1>7, <1>8

\* Lineages are about parents alone.
LEMMA SameLineages ==
  ASSUME NEW h, NEW e, e.parents = h.parents
  PROVE  Known(e) = Known(h) /\ \A c : Lineage(e, c) = Lineage(h, c) /\ OnLineage(e, c) = OnLineage(h, c)
<1>1. Known(e) = Known(h)
  BY DEF Known
<1>2. \A c : Lineage(e, c) = Lineage(h, c)
  BY <1>1 DEF Lineage
<1> QED
  BY <1>1, <1>2 DEF OnLineage

\* Redo finds a commit whose parent is the head, or nothing.
LEMMA RedoFinds ==
  ASSUME NEW h, HistoryStands(h), RedoTarget(h) # NoCommit
  PROVE  RedoTarget(h) \in Known(h) /\ h.parents[RedoTarget(h)] = h.head
<1> DEFINE next == {c \in OnLineage(h, h.branches[h.branch]) : h.parents[c] = h.head}
<1>1. Rooted(h) /\ h.branches[h.branch] \in Known(h) \cup {NoCommit}
  BY DEF HistoryStands, Rooted
<1>2. next # {} /\ RedoTarget(h) = CHOOSE c \in next : TRUE
  BY DEF RedoTarget
<1>3. RedoTarget(h) \in next
  BY <1>2
<1> QED
  BY <1>1, <1>3, LineagesStand DEF LineageStands

\* Undo is undone by redo.
LEMMA RedoUndoes ==
  ASSUME NEW h, HistoryStands(h), h.head \in OnLineage(h, h.branches[h.branch])
  PROVE  RedoTarget([h EXCEPT !.head = ParentOfHead(h)]) = h.head
<1> DEFINE t == h.branches[h.branch]
           e == [h EXCEPT !.head = ParentOfHead(h)]
           next == {c \in OnLineage(e, e.branches[e.branch]) : e.parents[c] = e.head}
<1>1. Rooted(h) /\ t \in Known(h) \cup {NoCommit}
  BY DEF HistoryStands, Rooted
<1>2. LineageStands(h, t)
  BY <1>1, LineagesStand
<1>3. h.head \in Known(h) /\ h.head # NoCommit
  BY <1>1, <1>2, OwnerBounds DEF LineageStands, Rooted
<1>4. e.head = h.parents[h.head] /\ e.parents = h.parents /\ e.branches = h.branches /\ e.branch = h.branch
  BY <1>3 DEF HistoryStands, ParentOfHead
<1>5. OnLineage(e, t) = OnLineage(h, t)
  BY <1>4, SameLineages
<1>6. RedoTarget(e) = IF next = {} THEN NoCommit ELSE CHOOSE c \in next : TRUE
  BY DEF RedoTarget
<1> HIDE DEF e
<1>7. next = {h.head}
  BY <1>2, <1>4, <1>5 DEF LineageStands
<1> QED
  BY <1>6, <1>7 DEF e

-----------------------------------------------------------------------------
(* The state after a record.                                               *)

\* What a record must be for the state after it to stand.
Sound(h, r) ==
    /\ h = Empty \/ h.rev \in Revisions
    /\ r.rev \in Revisions /\ r.id \in Nat /\ r.id \notin Known(h)
    /\ r.publishes => r.hparent \in {NoCommit} \cup 1..(r.id - 1)

LEMMA EmptyStands == HistoryStands(Empty) /\ Known(Empty) = {} /\ Lineage(Empty, NoCommit) = << >>
<1>1. Known(Empty) = {}
  BY DEF Empty, Known
<1>2. HistoryStands(Empty)
  <2> DEFINE h == Empty
  <2>1. /\ DOMAIN h = {"tip", "head", "parents", "branch", "branches", "checkpoints", "catalog", "gen",
                       "rev", "calc", "discarded", "seen"}
        /\ h.head = NoCommit /\ h.gen = 0 /\ h.calc = FALSE /\ h.seen = {}
        /\ h.branch = Main /\ h.branches = [b \in {Main} |-> NoCommit] /\ h.checkpoints = << >>
    BY DEF Empty
  <2>2. DOMAIN h.branches = {Main} /\ h.branches[Main] = NoCommit /\ DOMAIN h.checkpoints = {}
    BY <2>1
  <2>3. Known(h) = {}
    BY <1>1
  <2> HIDE DEF h
  <2>4. HistoryStands(h)
    <3>1. \A c \in Known(h) :
             c \in Nat /\ (h.parents[c] = NoCommit \/ (h.parents[c] \in Known(h) /\ h.parents[c] < c))
      BY <2>3
    <3>2. h.head \in Known(h) \cup {NoCommit} /\ h.branch \in DOMAIN h.branches
      BY <2>1, <2>2
    <3>3. /\ \A b \in DOMAIN h.branches : h.branches[b] \in Known(h) \cup {NoCommit}
          /\ \A c \in DOMAIN h.checkpoints : h.checkpoints[c] \in Known(h) \cup {NoCommit}
      BY <2>2
    <3>4. h.gen \in Nat /\ h.calc \in BOOLEAN
      <4>1. h.gen \in Nat
        BY <2>1
      <4>2. h.calc \in BOOLEAN
        BY <2>1, Zenon
      <4> QED
        BY <4>1, <4>2
    <3>5. \A t \in h.seen :
             /\ t[1] \in Revisions /\ t[2] \in Nat /\ t[1].epoch = h.rev.epoch
             /\ t[1].state < h.rev.state \/ (t[1].state = h.rev.state /\ t[2] <= h.gen)
      BY <2>1
    <3>6. DOMAIN h = {"tip", "head", "parents", "branch", "branches", "checkpoints", "catalog", "gen",
                       "rev", "calc", "discarded", "seen"}
      BY <2>1
    <3> QED
      BY <3>1, <3>2, <3>3, <3>4, <3>5, <3>6, Zenon DEF HistoryStands
  <2> QED
    BY <2>4 DEF h
<1>3. Rooted(Empty)
  BY <1>1 DEF Rooted
<1> QED
  BY <1>1, <1>2, <1>3, LineageUnfolds

LEMMA StandsIsRooted ==
  ASSUME NEW h, HistoryStands(h)
  PROVE  Rooted(h)
BY DEF HistoryStands, Rooted

LEMMA ParentIsKnown ==
  ASSUME NEW h, HistoryStands(h)
  PROVE  ParentOfHead(h) \in Known(h) \cup {NoCommit}
BY DEF HistoryStands, ParentOfHead

\* A record that publishes adds one commit, the others none.
LEMMA AfterKnows ==
  ASSUME NEW h, HistoryStands(h), NEW r, Sound(h, r), Follows(h, r)
  PROVE  /\ Rooted(After(h, r)) /\ Extended(h, After(h, r))
         /\ Known(After(h, r)) = Known(h) \cup (IF r.publishes THEN {r.id} ELSE {})
         /\ r.publishes => After(h, r).parents[r.id] = h.head
<1> DEFINE e == After(h, r)
<1>1. e.parents = IF r.publishes THEN Put(h.parents, r.id, r.hparent) ELSE h.parents
  BY DEF After
<1>2. Rooted(h)
  BY StandsIsRooted
<1> HIDE DEF e
<1>3. CASE ~r.publishes
  BY <1>1, <1>2, <1>3 DEF e, Rooted, Extended, Known
<1>4. CASE r.publishes
  <2>1. r.hparent = h.head /\ h.head \in Known(h) \cup {NoCommit}
    BY <1>4 DEF Follows, Permits, HistoryStands
  <2>2. /\ DOMAIN e.parents = DOMAIN h.parents \cup {r.id} /\ e.parents[r.id] = h.head
        /\ \A c \in DOMAIN h.parents : e.parents[c] = h.parents[c]
    BY <1>1, <1>4, <2>1 DEF Put, Sound, Known
  <2>3. Known(e) = Known(h) \cup {r.id} /\ Extended(h, e)
    BY <2>2 DEF Known, Extended
  <2>4. h.head = NoCommit \/ (h.head \in Known(h) /\ h.head < r.id)
    BY <1>4, <2>1, OwnerBounds DEF Sound
  <2>5. Rooted(e)
    BY <1>2, <2>2, <2>3, <2>4 DEF Rooted, Sound, Known
  <2> QED
    BY <1>4, <2>2, <2>3, <2>5 DEF e
<1> QED
  BY <1>3, <1>4

LEMMA AfterParts ==
  ASSUME NEW h, NEW r
  PROVE  LET e == After(h, r) IN
         /\ e.head = HeadAfter(h, r) /\ e.branch = BranchAfter(h, r) /\ e.branches = BranchesAfter(h, r)
         /\ e.checkpoints = CheckpointsAfter(h, r) /\ e.catalog = CatalogAfter(h, r) /\ e.gen = GenAfter(h, r)
         /\ e.rev = r.rev /\ e.calc = CalcAfter(h, r)
         /\ e.seen = IF r.kind \in Receipts THEN h.seen ELSE h.seen \cup {<<r.rev, r.gen>>}
         /\ DOMAIN e = {"tip", "head", "parents", "branch", "branches", "checkpoints", "catalog", "gen",
                        "rev", "calc", "discarded", "seen"}
BY DEF After

\* The document, the branches and the checkpoints are there.
LEMMA AfterPoints ==
  ASSUME NEW h, HistoryStands(h), NEW r, Sound(h, r), Follows(h, r)
  PROVE  LET e == After(h, r) IN
         /\ e.head \in Known(e) \cup {NoCommit}
         /\ e.branch \in DOMAIN e.branches
         /\ \A b \in DOMAIN e.branches : e.branches[b] \in Known(e) \cup {NoCommit}
         /\ \A c \in DOMAIN e.checkpoints : e.checkpoints[c] \in Known(e) \cup {NoCommit}
<1> DEFINE e == After(h, r)
           K == Known(e) \cup {NoCommit}
<1>1. /\ Known(h) \cup {NoCommit} \subseteq K /\ (r.publishes => r.id \in K)
  BY AfterKnows DEF Extended
<1>2. /\ e.head = HeadAfter(h, r) /\ e.branch = BranchAfter(h, r) /\ e.branches = BranchesAfter(h, r)
      /\ e.checkpoints = CheckpointsAfter(h, r)
  BY AfterParts
<1> HIDE DEF e, K
<1>3. /\ h.head \in K /\ ParentOfHead(h) \in K /\ h.branch \in DOMAIN h.branches
      /\ \A b \in DOMAIN h.branches : h.branches[b] \in K
      /\ \A c \in DOMAIN h.checkpoints : h.checkpoints[c] \in K
  BY <1>1, ParentIsKnown DEF HistoryStands
<1>4. /\ r.kind = "BranchSwitch" => r.item \in DOMAIN h.branches
      /\ r.kind = "BranchCreate" => r.target \in K
      /\ r.kind \in {"Redo", "Checkout"} => r.head \in K
      /\ r.publishes => r.kind \in {"Mutation", "StageApply"}
  BY <1>1 DEF Follows, Permits, PreparedShape
<1>5. e.head \in K
  BY <1>1, <1>2, <1>3, <1>4 DEF HeadAfter
<1>6. e.branch \in DOMAIN e.branches
  BY <1>2, <1>3, <1>4 DEF BranchAfter, BranchesAfter, Put
<1>7. \A b \in DOMAIN e.branches : e.branches[b] \in K
  BY <1>1, <1>2, <1>3, <1>4 DEF BranchesAfter, Put
<1>8. \A c \in DOMAIN e.checkpoints : e.checkpoints[c] \in K
  BY <1>2, <1>3 DEF CheckpointsAfter, Put, Drop
<1> QED
  BY <1>5, <1>6, <1>7, <1>8 DEF e, K

\* The token grows, or stays with a receipt.
LEMMA TokenGrows ==
  ASSUME NEW h, HistoryStands(h), h.rev \in Revisions, NEW r, RevisionFollows(h, r), r.rev \in Revisions
  PROVE  /\ r.rev.epoch = h.rev.epoch
         /\ r.rev.state = h.rev.state + (IF CatalogOnly(r) THEN 0 ELSE 1)
         /\ GenAfter(h, r) = h.gen + (IF r.kind \in CatalogKinds THEN 1 ELSE 0)
         /\ h.rev.state \in Nat /\ h.gen \in Nat
         /\ CatalogOnly(r) => r.kind \in CatalogKinds \/ r.kind \in Receipts
         /\ r.kind \in Receipts => CatalogOnly(r) /\ r.kind \notin CatalogKinds
<1>1. h.rev # NoRevision
  BY OwnerBounds DEF Revisions
<1>2. r.rev = RevAfter(h, r, h.rev)
  BY <1>1 DEF RevisionFollows
<1>3. h.rev.state \in Nat /\ h.gen \in Nat
  BY DEF Revisions, HistoryStands
<1>4. r.kind \in Receipts => CatalogOnly(r) /\ r.kind \notin CatalogKinds
  BY DEF CatalogOnly, Receipts, CatalogKinds
<1>5. CatalogOnly(r) => r.kind \in CatalogKinds \/ r.kind \in Receipts
  BY DEF CatalogOnly, Receipts, CatalogKinds
<1>6. /\ r.rev.epoch = h.rev.epoch /\ r.rev.state = h.rev.state + (IF CatalogOnly(r) THEN 0 ELSE 1)
  BY <1>2 DEF RevAfter
<1> QED
  BY <1>3, <1>4, <1>5, <1>6 DEF GenAfter

SeenStands(h) ==
    \A t \in h.seen :
        /\ t[1] \in Revisions /\ t[2] \in Nat /\ t[1].epoch = h.rev.epoch
        /\ t[1].state < h.rev.state \/ (t[1].state = h.rev.state /\ t[2] <= h.gen)

LEMMA AfterSeen ==
  ASSUME NEW h, HistoryStands(h), NEW r, Sound(h, r), Follows(h, r)
  PROVE  SeenStands(After(h, r)) /\ r.gen \in Nat /\ After(h, r).gen = r.gen
<1> DEFINE e == After(h, r)
<1>1. /\ e.gen = GenAfter(h, r) /\ e.rev = r.rev
      /\ e.seen = IF r.kind \in Receipts THEN h.seen ELSE h.seen \cup {<<r.rev, r.gen>>}
  BY AfterParts
<1>2. r.gen = GenAfter(h, r) /\ GenAfter(h, r) \in Nat /\ SeenStands(h) /\ RevisionFollows(h, r)
  BY DEF Follows, ClaimsMatch, GenAfter, HistoryStands, SeenStands
<1>3. r.rev \in Revisions /\ r.rev.state \in Nat
  BY DEF Sound, Revisions
<1> DEFINE n == <<r.rev, r.gen>>
<1>4. n[1] = r.rev /\ n[2] = r.gen
  OBVIOUS
<1> HIDE DEF e, n
<1>5. CASE h = Empty
  <2>1. e.seen \subseteq {n}
    BY <1>1, <1>5 DEF Empty, n
  <2> QED
    BY <1>1, <1>2, <1>3, <1>4, <2>1 DEF SeenStands, e
<1>6. CASE h.rev \in Revisions
  <2>1. /\ r.rev.epoch = h.rev.epoch /\ h.rev.state \in Nat /\ h.gen \in Nat
        /\ r.rev.state = h.rev.state + (IF CatalogOnly(r) THEN 0 ELSE 1)
        /\ GenAfter(h, r) = h.gen + (IF r.kind \in CatalogKinds THEN 1 ELSE 0)
    BY <1>2, <1>3, <1>6, TokenGrows
  <2>2. r.rev.state >= h.rev.state /\ r.gen >= h.gen
    BY <1>2, <2>1
  <2>3. ASSUME NEW t \in h.seen
        PROVE  /\ t[1] \in Revisions /\ t[2] \in Nat /\ t[1].epoch = r.rev.epoch
               /\ t[1].state < r.rev.state \/ (t[1].state = r.rev.state /\ t[2] <= r.gen)
    <3>1. /\ t[1] \in Revisions /\ t[1].state \in Nat /\ t[2] \in Nat /\ t[1].epoch = h.rev.epoch
          /\ t[1].state < h.rev.state \/ (t[1].state = h.rev.state /\ t[2] <= h.gen)
      BY <1>2 DEF SeenStands, Revisions
    <3> QED
      BY <1>2, <1>3, <2>1, <2>2, <3>1
  <2>4. e.seen \subseteq h.seen \cup {n}
    BY <1>1 DEF n
  <2>5. \A t \in h.seen \cup {n} :
           /\ t[1] \in Revisions /\ t[2] \in Nat /\ t[1].epoch = r.rev.epoch
           /\ t[1].state < r.rev.state \/ (t[1].state = r.rev.state /\ t[2] <= r.gen)
    BY <1>2, <1>3, <1>4, <2>3
  <2> QED
    BY <1>1, <1>2, <2>4, <2>5 DEF SeenStands, e
<1> QED
  BY <1>5, <1>6 DEF Sound

LEMMA AfterStands ==
  ASSUME NEW h, HistoryStands(h), NEW r, Sound(h, r), Follows(h, r)
  PROVE  HistoryStands(After(h, r))
<1> DEFINE e == After(h, r)
<1>1. Rooted(e) /\ SeenStands(e) /\ e.gen \in Nat
  BY AfterKnows, AfterSeen
<1>2. /\ e.head \in Known(e) \cup {NoCommit}
      /\ e.branch \in DOMAIN e.branches
      /\ \A b \in DOMAIN e.branches : e.branches[b] \in Known(e) \cup {NoCommit}
      /\ \A c \in DOMAIN e.checkpoints : e.checkpoints[c] \in Known(e) \cup {NoCommit}
  BY AfterPoints
<1>3. e.calc \in BOOLEAN
  <2>1. h.calc \in BOOLEAN
    BY DEF HistoryStands
  <2> QED
    BY <2>1, AfterParts DEF CalcAfter
<1>4. DOMAIN e = {"tip", "head", "parents", "branch", "branches", "checkpoints", "catalog", "gen",
                  "rev", "calc", "discarded", "seen"}
  BY AfterParts
<1> HIDE DEF e
<1>5. HistoryStands(e)
  BY <1>1, <1>2, <1>3, <1>4 DEF HistoryStands, Rooted, SeenStands
<1> QED
  BY <1>5 DEF e

-----------------------------------------------------------------------------
(* Publication in memory does what replay does.                            *)

\* The document moves in memory exactly when it does in the history.
MovesAlike(h, r, b) ==
    /\ (r.publishes \/ b # NoBytes) <=> DocumentChange(h, r)
    /\ b # NoBytes => b = Lineage(h, r.head)

LEMMA PublishedFields ==
  ASSUME NEW o, IsSession(o), NEW r, NEW b
  PROVE  LET p == Published(o, r, b)
             moves == r.publishes \/ b # NoBytes
             still == CatalogOnly(r) \/ (r.kind = "CalculationInvalidate" /\ o.stamp = "Dirty")
         IN  /\ IsSession(p) /\ p.up = o.up /\ p.poisoned = o.poisoned
             /\ p.doc = IF r.publishes THEN Append(o.doc, r.id) ELSE IF moves THEN b ELSE o.doc
             /\ p.rev = IF moves THEN Bump(o.rev, 1, 1) ELSE IF still THEN o.rev ELSE Bump(o.rev, 0, 1)
             /\ p.stamp = CASE moves /\ ~(r.publishes /\ r.preserve) -> "Dirty"
                            [] r.kind = "CalculationInvalidate"      -> "Dirty"
                            [] r.kind = "CalculationPublish"         -> "Current"
                            [] OTHER                                 -> o.stamp
             /\ p.staged = CASE r.kind = "CatalogStage" -> Put(o.staged, r.item, r.before)
                             [] r.kind \in {"CatalogDiscard", "StageApply"} -> Drop(o.staged, r.item)
                             [] OTHER -> o.staged
             /\ p.gen = IF r.kind \in CatalogKinds THEN o.gen + 1 ELSE o.gen
BY DEF Published, IsSession

LEMMA PublishedDocument ==
  ASSUME NEW h, HistoryStands(h), NEW o, IsSession(o), o.doc = Lineage(h, h.head),
         NEW r, Sound(h, r), Follows(h, r), NEW b, MovesAlike(h, r, b)
  PROVE  Published(o, r, b).doc = Lineage(After(h, r), After(h, r).head)
<1> DEFINE e == After(h, r)
           p == Published(o, r, b)
<1>1. p.doc = IF r.publishes THEN Append(o.doc, r.id) ELSE IF r.publishes \/ b # NoBytes THEN b ELSE o.doc
  BY PublishedFields
<1>2. e.head = HeadAfter(h, r) /\ e.head = r.head
  BY AfterParts DEF Follows, ClaimsMatch
<1>3. Rooted(h) /\ Rooted(e) /\ Extended(h, e)
  BY AfterKnows, StandsIsRooted
<1>4. r.publishes => r.id \in Known(e) /\ e.parents[r.id] = h.head
  BY AfterKnows
<1>5. ~r.publishes => e.parents = h.parents
  BY DEF After
<1>6. h.head \in Known(h) \cup {NoCommit} /\ (r.publishes => r.kind \in {"Mutation", "StageApply"})
  BY DEF HistoryStands, Follows, PreparedShape
<1> HIDE DEF e, p
<1>7. CASE r.publishes
  <2>1. e.head = r.id
    BY <1>2, <1>6, <1>7 DEF HeadAfter
  <2>2. Lineage(e, r.id) = Append(Lineage(e, h.head), r.id)
    BY <1>3, <1>4, <1>7, LineageUnfolds
  <2>3. Lineage(e, h.head) = Lineage(h, h.head)
    BY <1>3, <1>6, LineageExtends
  <2> QED
    BY <1>1, <1>7, <2>1, <2>2, <2>3 DEF e, p
<1>8. CASE ~r.publishes
  <2>1. Lineage(e, e.head) = Lineage(h, r.head)
    BY <1>2, <1>5, <1>8, SameLineages
  <2>2. CASE b # NoBytes
    BY <1>1, <1>8, <2>1, <2>2 DEF e, p, MovesAlike
  <2>3. CASE b = NoBytes
    <3>1. ~DocumentChange(h, r)
      BY <1>8, <2>3 DEF MovesAlike
    <3>2. r.kind \notin HeadMoves /\ (r.kind = "BranchSwitch" => r.head = h.head)
      BY <3>1 DEF DocumentChange
    <3>3. r.head = h.head
      BY <1>2, <1>8, <3>2 DEF HeadAfter, HeadMoves
    <3> QED
      BY <1>1, <1>8, <2>1, <2>3, <3>3 DEF e, p
  <2> QED
    BY <2>2, <2>3
<1> QED
  BY <1>7, <1>8

LEMMA PublishedStamp ==
  ASSUME NEW h, NEW o, IsSession(o), h.calc \in BOOLEAN, (o.stamp = "Current") <=> h.calc,
         NEW r, Follows(h, r), r.kind # "Restart", NEW b, MovesAlike(h, r, b)
  PROVE  (Published(o, r, b).stamp = "Current") <=> CalcAfter(h, r)
<1> DEFINE moves == r.publishes \/ b # NoBytes
           s == Published(o, r, b).stamp
<1>1. s = CASE moves /\ ~(r.publishes /\ r.preserve) -> "Dirty"
            [] r.kind = "CalculationInvalidate"      -> "Dirty"
            [] r.kind = "CalculationPublish"         -> "Current"
            [] OTHER                                 -> o.stamp
  BY PublishedFields
<1>2. r.publishes => r.kind \in {"Mutation", "StageApply"}
  BY DEF Follows, PreparedShape
<1>3. moves <=> r.publishes \/ r.kind \in HeadMoves \/ (r.kind = "BranchSwitch" /\ h.head # r.head)
  BY DEF MovesAlike, DocumentChange
<1> HIDE DEF s, moves
<1>4. CASE r.publishes
  <2>1. moves /\ r.kind \notin {"CalculationPublish", "CalculationInvalidate", "BranchSwitch", "Restart"} \cup HeadMoves
    BY <1>2, <1>3, <1>4 DEF HeadMoves
  <2>2. CASE r.preserve
    <3>1. s = o.stamp
      BY <1>1, <1>4, <2>1, <2>2
    <3>2. CalcAfter(h, r) = h.calc
      BY <1>4, <2>1, <2>2 DEF CalcAfter, HeadMoves
    <3> QED
      BY <3>1, <3>2 DEF s
  <2>3. CASE ~r.preserve
    <3>1. s = "Dirty"
      BY <1>1, <1>4, <2>1, <2>3
    <3>2. ~CalcAfter(h, r)
      BY <1>4, <2>1, <2>3 DEF CalcAfter, HeadMoves
    <3> QED
      BY <3>1, <3>2 DEF s
  <2> QED
    BY <2>2, <2>3
<1>5. CASE ~r.publishes /\ moves
  <2>1. s = "Dirty"
    BY <1>1, <1>3, <1>5 DEF HeadMoves
  <2>2. ~CalcAfter(h, r)
    BY <1>3, <1>5 DEF CalcAfter, HeadMoves
  <2> QED
    BY <2>1, <2>2 DEF s
<1>6. CASE ~r.publishes /\ ~moves
  <2>1. r.kind \notin HeadMoves /\ ~(r.kind = "BranchSwitch" /\ h.head # r.head)
    BY <1>3, <1>6
  <2>2. s = CASE r.kind = "CalculationInvalidate" -> "Dirty" [] r.kind = "CalculationPublish" -> "Current" [] OTHER -> o.stamp
    BY <1>1, <1>6
  <2>3. CASE r.kind = "CalculationInvalidate"
    BY <2>2, <2>3 DEF CalcAfter, s
  <2>4. CASE r.kind = "CalculationPublish"
    BY <1>6, <2>1, <2>2, <2>4 DEF CalcAfter, s, HeadMoves
  <2>5. CASE r.kind \notin {"CalculationInvalidate", "CalculationPublish"}
    <3>1. s = o.stamp
      BY <2>2, <2>5
    <3>2. CalcAfter(h, r) = h.calc
      BY <1>6, <2>1, <2>5 DEF CalcAfter
    <3> QED
      BY <3>1, <3>2 DEF s
  <2> QED
    BY <2>3, <2>4, <2>5
<1> QED
  BY <1>4, <1>5, <1>6

LEMMA PublishedAgrees ==
  ASSUME NEW h, HistoryStands(h), NEW o, IsSession(o), Agrees(o, h),
         NEW r, Sound(h, r), Follows(h, r), r.kind # "Restart", NEW b, MovesAlike(h, r, b)
  PROVE  Agrees(Published(o, r, b), After(h, r))
<1> DEFINE e == After(h, r)
           p == Published(o, r, b)
<1>1. o.doc = Lineage(h, h.head) /\ DOMAIN o.staged = h.catalog /\ ((o.stamp = "Current") <=> h.calc)
  BY DEF Agrees
<1>2. h.calc \in BOOLEAN
  BY DEF HistoryStands
<1>3. p.doc = Lineage(e, e.head)
  BY <1>1, PublishedDocument
<1>4. (p.stamp = "Current") <=> e.calc
  <2>1. (p.stamp = "Current") <=> CalcAfter(h, r)
    BY <1>1, <1>2, PublishedStamp
  <2>2. e.calc = CalcAfter(h, r)
    BY AfterParts
  <2> HIDE DEF e, p
  <2> QED
    BY <2>1, <2>2
<1>5. DOMAIN p.staged = e.catalog
  <2>1. e.catalog = CatalogAfter(h, r)
    BY AfterParts
  <2>2. p.staged = CASE r.kind = "CatalogStage" -> Put(o.staged, r.item, r.before)
                     [] r.kind \in {"CatalogDiscard", "StageApply"} -> Drop(o.staged, r.item)
                     [] OTHER -> o.staged
    BY PublishedFields
  <2> HIDE DEF e, p
  <2> QED
    BY <1>1, <2>1, <2>2 DEF CatalogAfter, Put, Drop
<1> HIDE DEF e, p
<1>6. Agrees(p, e)
  BY <1>3, <1>4, <1>5 DEF Agrees
<1> QED
  BY <1>6 DEF e, p

-----------------------------------------------------------------------------
(* A prepared record fits the stream it was prepared on.                   *)

LEMMA ReplayedStands ==
  ASSUME OwnerInv, HistoryInv
  PROVE  LET h == Replayed IN
         /\ HistoryStands(h) /\ (h = Empty \/ h.rev \in Revisions) /\ attempts \in Nat
         /\ Known(h) \subseteq 1..attempts /\ h.catalog \subseteq 1..attempts
         /\ \A c \in Known(h) : \E k \in DOMAIN log : log[k].id = c
<1>0. StreamStands /\ attempts \in Nat /\ RecordsStand
  BY DEF OwnerInv, SessionsStand, HistoryInv
<1>1. CASE log = << >>
  <2>1. Replayed = Empty
    BY <1>0, <1>1, Replay
  <2>2. Empty.catalog = {}
    BY DEF Empty
  <2> QED
    BY <1>0, <2>1, <2>2, EmptyStands
<1>2. CASE log # << >>
  <2> DEFINE n == Len(log)
             h == Replayed
  <2>1. n \in DOMAIN log /\ n \in Nat /\ DOMAIN log = 1..n /\ h = log[n].post /\ h.rev \in Revisions
    BY <1>0, <1>2, Replay DEF Last
  <2> HIDE DEF n, h
  <2>2. /\ HistoryStands(h) /\ h.catalog \subseteq 1..attempts
        /\ \A c \in Known(h) : \E k \in 1..n : log[k].id = c
    BY <1>0, <2>1 DEF RecordsStand
  <2>3. \A c \in Known(h) : \E k \in DOMAIN log : log[k].id = c
    BY <2>1, <2>2
  <2>4. \A k \in DOMAIN log : log[k].id \in 1..attempts
    BY <1>0 DEF StreamStands
  <2> QED
    BY <1>0, <2>1, <2>2, <2>3, <2>4 DEF h
<1> QED
  BY <1>1, <1>2

LEMMA InStepFacts ==
  ASSUME OwnerInv, HistoryInv, NEW i \in Owners, Works(i), InSync(i)
  PROVE  LET h == Replayed
             o == own[i] IN
         /\ IsSession(o) /\ o.rev \in Revisions /\ o.gen = h.gen /\ h.gen \in Nat /\ Agrees(o, h)
         /\ h.rev # NoRevision => o.rev = h.rev
         /\ h = Empty => h.rev = NoRevision /\ h.seen = {}
<1>1. IsSession(own[i]) /\ own[i].rev \in Revisions
  BY DEF OwnerInv, SessionsStand, Works
<1>2. Agrees(own[i], Replayed)
  BY DEF HistoryInv, InStepAgrees
<1>3. own[i].gen = Replayed.gen /\ (Replayed.rev # NoRevision => own[i].rev = Replayed.rev)
  BY DEF InSync
<1>4. Replayed.gen \in Nat
  BY ReplayedStands DEF HistoryStands
<1>5. Empty.rev = NoRevision /\ Empty.seen = {}
  BY DEF Empty
<1> QED
  BY <1>1, <1>2, <1>3, <1>4, <1>5

\* What every operation sees to when it prepares a record.
Plan(i, r, b) ==
    LET h == Replayed
    IN  /\ r.id = attempts + 1 /\ r.kind # "Restart" /\ r.before = own[i].rev
        /\ r.rev = RevAfter(h, r, own[i].rev) /\ r.gen = GenAfter(h, r)
        /\ r.publishes => r.kind \in {"Mutation", "StageApply"} /\ b = NoBytes
        /\ r.kind = "Mutation" => r.publishes
        /\ r.kind = "CalculationInvalidate" => own[i].stamp # "Dirty"
        /\ r.kind = "CatalogStage" => r.item = attempts + 1
        /\ (r.publishes \/ b # NoBytes) <=> DocumentChange(h, r)
        /\ b # NoBytes => b = Materialize(r.head)
        /\ r.hparent = IF r.publishes THEN h.head ELSE NoCommit
        /\ TargetOf(r) \in Known(h) \cup {NoCommit} =>
              /\ Permits(h, r) /\ r.head = HeadAfter(h, r)
              /\ r.branch = BranchAfter(h, r) /\ r.branches = BranchesAfter(h, r)

LEMMA PlanSound ==
  ASSUME OwnerInv, HistoryInv, NEW i \in Owners, Works(i), InSync(i), NEW r, NEW b, Plan(i, r, b)
  PROVE  /\ Sound(Replayed, r)
         /\ r.publishes => r.hparent \in {NoCommit} \cup 1..(r.id - 1)
<1> DEFINE h == Replayed
           v == own[i].rev
<1>1. /\ HistoryStands(h) /\ (h = Empty \/ h.rev \in Revisions) /\ attempts \in Nat
      /\ Known(h) \subseteq 1..attempts
  BY ReplayedStands
<1>2. v \in Revisions
  BY InStepFacts
<1>3. r.rev \in Revisions
  <2>1. r.rev = [epoch |-> v.epoch, doc |-> v.doc + (IF DocumentChange(h, r) THEN 1 ELSE 0),
                 state |-> v.state + (IF CatalogOnly(r) THEN 0 ELSE 1)]
    BY DEF Plan, RevAfter
  <2> HIDE DEF v, h
  <2> QED
    BY <1>2, <2>1 DEF Revisions
<1>4. r.id = attempts + 1 /\ (r.publishes => r.hparent = h.head)
  BY DEF Plan
<1>5. h.head \in Known(h) \cup {NoCommit}
  BY <1>1 DEF HistoryStands
<1> HIDE DEF h
<1>6. r.id \in Nat /\ r.id \notin Known(h)
  BY <1>1, <1>4
<1>7. r.publishes => r.hparent \in {NoCommit} \cup 1..(r.id - 1)
  BY <1>1, <1>4, <1>5
<1> QED
  BY <1>1, <1>3, <1>6, <1>7 DEF Sound, h

\* The token is new.
LEMMA PlanIsNew ==
  ASSUME OwnerInv, HistoryInv, NEW i \in Owners, Works(i), InSync(i), NEW r, NEW b, Plan(i, r, b)
  PROVE  RevisionFollows(Replayed, r) /\ NoAba(Replayed, r)
<1> DEFINE h == Replayed
<1>1. /\ HistoryStands(h) /\ (h = Empty \/ h.rev \in Revisions)
      /\ h.rev # NoRevision => own[i].rev = h.rev
      /\ h = Empty => h.rev = NoRevision /\ h.seen = {}
  BY ReplayedStands, InStepFacts
<1>2. r.rev = RevAfter(h, r, own[i].rev) /\ r.before = own[i].rev /\ r.gen = GenAfter(h, r)
  BY DEF Plan
<1>3. r.rev \in Revisions
  BY PlanSound DEF Sound
<1> HIDE DEF h
<1>4. RevisionFollows(h, r)
  BY <1>1, <1>2 DEF RevisionFollows
<1>5. NoAba(h, r)
  <2> SUFFICES ASSUME r.kind \notin Receipts, <<r.rev, r.gen>> \in h.seen PROVE FALSE
    BY DEF NoAba
  <2>1. h.rev \in Revisions
    BY <1>1
  <2>2. /\ r.rev.state = h.rev.state + (IF CatalogOnly(r) THEN 0 ELSE 1)
        /\ r.gen = h.gen + (IF r.kind \in CatalogKinds THEN 1 ELSE 0)
        /\ h.rev.state \in Nat /\ h.gen \in Nat
        /\ CatalogOnly(r) => r.kind \in CatalogKinds
    BY <1>1, <1>2, <1>3, <1>4, <2>1, TokenGrows
  <2> DEFINE t == <<r.rev, r.gen>>
  <2>3. t[1] = r.rev /\ t[2] = r.gen
    OBVIOUS
  <2>4. t \in h.seen
    OBVIOUS
  <2> HIDE DEF t
  <2>5. t[1].state < h.rev.state \/ (t[1].state = h.rev.state /\ t[2] <= h.gen)
    BY <1>1, <2>4 DEF HistoryStands
  <2> QED
    BY <2>2, <2>3, <2>5
<1> QED
  BY <1>4, <1>5 DEF h

LEMMA BumpedIs ==
  ASSUME NEW v \in Revisions, NEW d, NEW s
  PROVE  Bump(v, d, s) = [epoch |-> v.epoch, doc |-> v.doc + d, state |-> v.state + s]
<1>1. Bump(v, d, s) = [v EXCEPT !.doc = v.doc + d, !.state = v.state + s]
  BY DEF Bump, Revisions
<1> DEFINE x == v.doc + d
           y == v.state + s
           w == [v EXCEPT !.doc = x, !.state = y]
           z == [epoch |-> v.epoch, doc |-> x, state |-> y]
<1>2. DOMAIN v = {"epoch", "doc", "state"}
  BY DEF Revisions
<1> HIDE DEF x, y
<1>4. /\ DOMAIN w = {"epoch", "doc", "state"} /\ w.epoch = v.epoch /\ w.doc = x /\ w.state = y
      /\ w = [f \in DOMAIN w |-> w[f]]
  BY <1>2
<1>5. /\ DOMAIN z = {"epoch", "doc", "state"} /\ z.epoch = v.epoch /\ z.doc = x /\ z.state = y
      /\ z = [f \in DOMAIN z |-> z[f]]
  OBVIOUS
<1> HIDE DEF w, z
<1>3. w = z
  BY <1>4, <1>5
<1> QED
  BY <1>1, <1>3 DEF w, z, x, y

\* Publication reaches the revision and the generation the record claims.
LEMMA PlanPublishes ==
  ASSUME OwnerInv, HistoryInv, NEW i \in Owners, Works(i), InSync(i), NEW r, NEW b, Plan(i, r, b)
  PROVE  Published(own[i], r, b).rev = r.rev /\ Published(own[i], r, b).gen = r.gen
<1> DEFINE h == Replayed
           o == own[i]
           p == Published(o, r, b)
           moves == r.publishes \/ b # NoBytes
<1>1. IsSession(o) /\ o.rev \in Revisions /\ o.gen = h.gen /\ h.gen \in Nat
  BY InStepFacts
<1>2. /\ p.rev = IF moves THEN Bump(o.rev, 1, 1)
                 ELSE IF CatalogOnly(r) \/ (r.kind = "CalculationInvalidate" /\ o.stamp = "Dirty")
                 THEN o.rev ELSE Bump(o.rev, 0, 1)
      /\ p.gen = IF r.kind \in CatalogKinds THEN o.gen + 1 ELSE o.gen
  BY <1>1, PublishedFields
<1>3. /\ r.rev = RevAfter(h, r, o.rev) /\ r.gen = GenAfter(h, r)
      /\ moves <=> DocumentChange(h, r)
      /\ ~(r.kind = "CalculationInvalidate" /\ o.stamp = "Dirty")
      /\ r.publishes => r.kind \in {"Mutation", "StageApply"}
  BY DEF Plan
<1>4. moves => ~CatalogOnly(r)
  BY <1>3 DEF DocumentChange, CatalogOnly, CatalogKinds, Receipts, HeadMoves
<1> HIDE DEF p, h, o
<1>5. r.rev = [epoch |-> o.rev.epoch, doc |-> o.rev.doc + (IF moves THEN 1 ELSE 0),
               state |-> o.rev.state + (IF CatalogOnly(r) THEN 0 ELSE 1)]
  BY <1>3 DEF RevAfter
<1> HIDE DEF moves
<1>6. p.rev = r.rev
  <2>1. o.rev = [epoch |-> o.rev.epoch, doc |-> o.rev.doc, state |-> o.rev.state]
        /\ o.rev.doc \in Nat /\ o.rev.state \in Nat
    BY <1>1 DEF Revisions
  <2>2. \A d, s \in Nat : Bump(o.rev, d, s) = [epoch |-> o.rev.epoch, doc |-> o.rev.doc + d, state |-> o.rev.state + s]
    BY <1>1, BumpedIs
  <2>3. CASE moves
    BY <1>2, <1>4, <1>5, <2>2, <2>3
  <2>4. CASE ~moves /\ CatalogOnly(r)
    BY <1>2, <1>5, <2>1, <2>4
  <2>5. CASE ~moves /\ ~CatalogOnly(r)
    BY <1>2, <1>3, <1>5, <2>1, <2>2, <2>5
  <2> QED
    BY <2>3, <2>4, <2>5
<1>7. p.gen = r.gen
  BY <1>1, <1>2, <1>3 DEF GenAfter
<1> QED
  BY <1>6, <1>7 DEF p, o

\* Replay accepts the record, and reaches what publication does.
LEMMA PlanFollows ==
  ASSUME OwnerInv, HistoryInv, NEW i \in Owners, Works(i), InSync(i), ~Replayed.discarded,
         NEW r, NEW b, Plan(i, r, b), TargetOf(r) \in Known(Replayed) \cup {NoCommit}
  PROVE  Follows(Replayed, r) /\ Agrees(Published(own[i], r, b), After(Replayed, r))
<1> DEFINE h == Replayed
           e == After(h, r)
<1>1. HistoryStands(h) /\ IsSession(own[i]) /\ Agrees(own[i], h)
      /\ (h.rev # NoRevision => own[i].rev = h.rev)
  BY ReplayedStands, InStepFacts
<1>2. Sound(h, r) /\ RevisionFollows(h, r) /\ NoAba(h, r)
  BY PlanSound, PlanIsNew
<1>3. /\ Permits(h, r) /\ r.head = HeadAfter(h, r) /\ r.branch = BranchAfter(h, r)
      /\ r.branches = BranchesAfter(h, r) /\ r.gen = GenAfter(h, r)
      /\ r.before = own[i].rev /\ (r.publishes => r.kind \in {"Mutation", "StageApply"})
      /\ (r.kind = "Mutation" => r.publishes)
  BY DEF Plan
<1>4. PreparedShape(h, r)
  BY <1>1, <1>3 DEF PreparedShape
<1>5. ClaimsMatch(h, r)
  BY <1>3 DEF ClaimsMatch
<1>6. Follows(h, r)
  BY <1>2, <1>3, <1>4, <1>5 DEF Follows
<1>7. MovesAlike(h, r, b)
  <2>1. /\ (r.publishes \/ b # NoBytes) <=> DocumentChange(h, r)
        /\ b # NoBytes => b = Materialize(r.head) /\ ~r.publishes
    BY DEF Plan
  <2>2. ~r.publishes => r.head \in Known(h) \cup {NoCommit}
    <3>1. e.head \in Known(e) \cup {NoCommit} /\ e.head = HeadAfter(h, r)
      BY <1>1, <1>2, <1>6, AfterPoints, AfterParts
    <3>2. ~r.publishes => Known(e) = Known(h)
      BY <1>1, <1>2, <1>6, AfterKnows
    <3> QED
      BY <1>3, <3>1, <3>2
  <2>3. Lineage(h, NoCommit) = << >>
    BY <1>1, StandsIsRooted, LineageUnfolds
  <2>4. NoCommit \notin Known(h)
    BY <1>1, OwnerBounds DEF HistoryStands
  <2>5. r.head \in Known(h) \cup {NoCommit} => Materialize(r.head) = Lineage(h, r.head)
    BY <2>3, <2>4 DEF Materialize
  <2> QED
    BY <2>1, <2>2, <2>5 DEF MovesAlike
<1>8. r.kind # "Restart"
  BY DEF Plan
<1>9. Agrees(Published(own[i], r, b), After(h, r))
  BY <1>1, <1>2, <1>6, <1>7, <1>8, PublishedAgrees
<1> QED
  BY <1>6, <1>9

-----------------------------------------------------------------------------
(* Steps that leave the stream as it is.                                   *)

\* Records that differ in fingerprint, place and author at most.
Alike(r, f) ==
    /\ f.id = r.id /\ f.req = r.req /\ f.kind = r.kind /\ f.item = r.item /\ f.target = r.target
    /\ f.publishes = r.publishes /\ f.preserve = r.preserve /\ f.hparent = r.hparent /\ f.before = r.before
    /\ f.head = r.head /\ f.branch = r.branch /\ f.branches = r.branches /\ f.gen = r.gen /\ f.rev = r.rev

LEMMA AlikeAfter ==
  ASSUME NEW h, NEW r, NEW f, Alike(r, f)
  PROVE  After(h, f) = After(h, r)
<1>1. HeadAfter(h, f) = HeadAfter(h, r) /\ BranchAfter(h, f) = BranchAfter(h, r)
  BY DEF Alike, HeadAfter, BranchAfter
<1>2. BranchesAfter(h, f) = BranchesAfter(h, r)
  BY DEF Alike, BranchesAfter
<1>3. CheckpointsAfter(h, f) = CheckpointsAfter(h, r) /\ CatalogAfter(h, f) = CatalogAfter(h, r)
  BY DEF Alike, CheckpointsAfter, CatalogAfter
<1>4. GenAfter(h, f) = GenAfter(h, r)
  BY DEF Alike, GenAfter
<1>5. CalcAfter(h, f) = CalcAfter(h, r)
  BY DEF Alike, CalcAfter
<1> QED
  BY <1>1, <1>2, <1>3, <1>4, <1>5 DEF Alike, After

LEMMA AlikeFollows ==
  ASSUME NEW h, NEW r, NEW f, Alike(r, f), Follows(h, r)
  PROVE  Follows(h, f)
<1>1. PreparedShape(h, f)
  BY DEF Alike, Follows, PreparedShape
<1>2. Permits(h, f)
  BY DEF Alike, Follows, Permits
<1>3. ClaimsMatch(h, f)
  BY DEF Alike, Follows, ClaimsMatch, HeadAfter, BranchAfter, BranchesAfter, GenAfter
<1>4. RevisionFollows(h, f)
  <2>1. \A v : RevAfter(h, f, v) = RevAfter(h, r, v)
    BY DEF Alike, RevAfter, DocumentChange, CatalogOnly
  <2> QED
    BY <2>1 DEF Alike, Follows, RevisionFollows
<1>5. NoAba(h, f)
  BY DEF Alike, Follows, NoAba
<1> QED
  BY <1>1, <1>2, <1>3, <1>4, <1>5 DEF Follows

LEMMA AlikeRevision ==
  ASSUME NEW h, NEW r, NEW f, Alike(r, f), NEW v
  PROVE  RevAfter(h, f, v) = RevAfter(h, r, v)
BY DEF Alike, RevAfter, DocumentChange, CatalogOnly

\* The fingerprint of a discard is bound to the revision.
LEMMA FingerprintBinds ==
  ASSUME NEW r, IsRecord(r)
  PROVE  LET f == [r EXCEPT !.fp = Fingerprint(r)]
         IN  f.fp.kind = r.kind /\ (r.kind = "CatalogDiscard" => f.fp.on = r.before)
<1>1. Fingerprint(r).kind = r.kind /\ (r.kind = "CatalogDiscard" => Fingerprint(r).on = r.before)
  BY DEF Fingerprint
<1> QED
  BY <1>1 DEF IsRecord

LEMMA DiscardKeepsRevision ==
  ASSUME NEW h, NEW r, NEW v \in Revisions, r.kind = "CatalogDiscard", ~r.publishes
  PROVE  RevAfter(h, r, v) = v
<1>1. ~DocumentChange(h, r) /\ CatalogOnly(r)
  BY DEF DocumentChange, CatalogOnly, CatalogKinds, HeadMoves
<1>2. v.doc + 0 = v.doc /\ v.state + 0 = v.state /\ v = [epoch |-> v.epoch, doc |-> v.doc, state |-> v.state]
  BY DEF Revisions
<1> QED
  BY <1>1, <1>2 DEF RevAfter

LEMMA AlikePublished ==
  ASSUME NEW o, NEW r, NEW f, Alike(r, f), NEW b
  PROVE  Published(o, f, b) = Published(o, r, b) /\ TargetOf(f) = TargetOf(r)
<1>1. CatalogOnly(f) <=> CatalogOnly(r)
  BY DEF Alike, CatalogOnly
<1> QED
  BY <1>1 DEF Alike, Published, TargetOf

\* An operation of one owner goes on or ends; the stream stays.
LEMMA HistoryKept ==
  ASSUME OwnerInv, HistoryInv, NEW i, log' = log, attempts \in Nat, attempts' \in Nat, attempts' >= attempts,
         \A m \in Owners \ {i} : own'[m] = own[m] /\ prop'[m] = prop[m] /\ pc'[m] = pc[m],
         i \in Owners /\ InFlight(i)' => PlanStands(i, prop[i].rec)' /\ CommitStands(i, prop[i].rec)',
         i \in Owners /\ Works(i)' /\ InSync(i)' => Agrees(own'[i], Replayed)
  PROVE  HistoryInv'
<1>1. Replayed' = Replayed /\ Last' = Last /\ \A m : own'[m] = own[m] => (InSync(m)' <=> InSync(m))
  BY SameStream
<1>2. RecordsStand'
  <2> SUFFICES ASSUME NEW k \in DOMAIN log
               PROVE  LET h == log[k].post
                      IN  /\ HistoryStands(h) /\ \A c \in Known(h) : \E j \in 1..k : log[j].id = c
                          /\ h.catalog \subseteq 1..attempts'
                          /\ h.gen = Cardinality({j \in 1..k : log[j].kind \in CatalogKinds})
    BY ZenonT(60) DEF RecordsStand
  <2> DEFINE h == log[k].post
  <2>1. /\ HistoryStands(h) /\ (\A c \in Known(h) : \E j \in 1..k : log[j].id = c)
        /\ h.catalog \subseteq 1..attempts
        /\ h.gen = Cardinality({j \in 1..k : log[j].kind \in CatalogKinds})
    BY DEF HistoryInv, RecordsStand
  <2>2. 1..attempts \subseteq 1..attempts'
    OBVIOUS
  <2> HIDE DEF h
  <2>3. h.catalog \subseteq 1..attempts'
    BY <2>1, <2>2
  <2> QED
    BY <2>1, <2>3 DEF h
<1>3. PlansStand'
  <2> SUFFICES ASSUME NEW m \in Owners, InFlight(m)'
               PROVE  PlanStands(m, prop[m].rec)' /\ CommitStands(m, prop[m].rec)'
    BY DEF PlansStand
  <2>1. CASE m = i
    BY <2>1
  <2>2. CASE m # i
    <3>1. own'[m] = own[m] /\ prop'[m] = prop[m] /\ pc'[m] = pc[m] /\ InFlight(m)
      BY <2>2 DEF InFlight
    <3>2. PlanStands(m, prop[m].rec) /\ CommitStands(m, prop[m].rec)
      BY <3>1 DEF HistoryInv, PlansStand
    <3>3. Outcome(m)' = Outcome(m) /\ (InSync(m)' <=> InSync(m))
      BY <1>1, <3>1 DEF Outcome
    <3>4. PlanStands(m, prop[m].rec)'
      BY <3>1, <3>2, <3>3 DEF PlanStands
    <3>5. CommitStands(m, prop[m].rec)'
      BY <1>1, <3>1, <3>2, <3>3 DEF CommitStands
    <3> QED
      BY <3>4, <3>5
  <2> QED
    BY <2>1, <2>2
<1>4. InStepAgrees'
  <2> SUFFICES ASSUME NEW m \in Owners, Works(m)', InSync(m)' PROVE Agrees(own'[m], Replayed')
    BY DEF InStepAgrees
  <2>1. CASE m = i
    BY <1>1, <2>1
  <2>2. CASE m # i
    <3>1. own'[m] = own[m]
      BY <2>2
    <3>2. Works(m) /\ InSync(m)
      BY <1>1, <3>1 DEF Works
    <3> QED
      BY <1>1, <3>1, <3>2 DEF HistoryInv, InStepAgrees
  <2> QED
    BY <2>1, <2>2
<1> QED
  BY <1>2, <1>3, <1>4 DEF HistoryInv

\* An owner that is not moved stays as it agreed before.
LEMMA StillAgrees ==
  ASSUME HistoryInv, NEW i \in Owners, log' = log, own'[i] = own[i]
  PROVE  Works(i)' /\ InSync(i)' => Agrees(own'[i], Replayed)
<1>1. InSync(i)' <=> InSync(i)
  BY SameStream
<1> QED
  BY <1>1 DEF Works, HistoryInv, InStepAgrees

LEMMA PrepareFits ==
  ASSUME OwnerInv, HistoryInv, NEW i \in Owners, Works(i), InSync(i), ~Replayed.discarded,
         NEW r, IsRecord(r), NEW b, Plan(i, r, b), NEW step \in {"reload", "commit"}, Prepare(i, r, b, step)
  PROVE  HistoryInv'
<1> DEFINE f == [r EXCEPT !.fp = Fingerprint(r)]
<1>1. Alike(r, f)
  BY DEF IsRecord, Alike
<1>2. /\ UNCHANGED <<log, own, epochs>> /\ attempts' = attempts + 1
      /\ prop' = [prop EXCEPT ![i] = [rec |-> f, bytes |-> b]] /\ pc' = [pc EXCEPT ![i] = step]
  BY DEF Prepare, storage
<1> HIDE DEF f
<1>3. SessionsStand /\ StreamStands /\ attempts \in Nat /\ own[i].up
  BY DEF OwnerInv, SessionsStand, Works
<1>4. /\ pc'[i] = step /\ prop'[i].rec = f /\ prop'[i].bytes = b
      /\ \A m \in Owners \ {i} : own'[m] = own[m] /\ prop'[m] = prop[m] /\ pc'[m] = pc[m]
  BY <1>2, <1>3 DEF SessionsStand
<1>5. Outcome(i)' = Published(own[i], r, b) /\ TargetOf(f) = TargetOf(r)
  BY <1>1, <1>2, <1>3, <1>4, AlikePublished DEF Outcome
<1>6. PlanStands(i, prop[i].rec)'
  <2>1. Published(own[i], r, b).rev = r.rev /\ Published(own[i], r, b).gen = r.gen
    BY PlanPublishes
  <2>2. /\ r.publishes => r.hparent \in {NoCommit} \cup 1..(r.id - 1)
        /\ r.kind = "CatalogStage" => r.item = attempts + 1
    BY PlanSound DEF Plan
  <2>3. attempts + 1 \in 1..attempts'
    BY <1>2, <1>3
  <2>4. f.fp.kind = f.kind /\ (f.kind = "CatalogDiscard" => f.fp.on = f.rev)
    <3>1. f.fp.kind = r.kind /\ (r.kind = "CatalogDiscard" => f.fp.on = r.before)
      BY FingerprintBinds DEF f
    <3>2. r.kind = "CatalogDiscard" => r.rev = r.before
      BY InStepFacts, DiscardKeepsRevision DEF Plan
    <3> QED
      BY <1>1, <3>1, <3>2 DEF Alike
  <2>5. r.publishes => f.hparent \in {NoCommit} \cup 1..(f.id - 1)
    BY <1>1, <2>2 DEF Alike
  <2>6. f.kind # "Restart"
    <3>1. r.kind # "Restart"
      BY DEF Plan
    <3> QED
      BY <1>1, <3>1 DEF Alike
  <2> QED
    BY <1>1, <1>2, <1>4, <1>5, <2>1, <2>2, <2>3, <2>4, <2>5, <2>6 DEF PlanStands, Alike
<1>7. Replayed' = Replayed /\ Last' = Last
  BY <1>2, SameStream
<1>8. CommitStands(i, prop[i].rec)'
  <2>1. TargetOf(f) \in Known(Replayed) \cup {NoCommit} =>
          Follows(Replayed, f) /\ Agrees(Published(own[i], r, b), After(Replayed, f))
    BY <1>1, <1>5, PlanFollows, AlikeFollows, AlikeAfter
  <2>3. f.rev = RevAfter(Replayed, f, own[i].rev)
    BY <1>1, AlikeRevision DEF Plan, Alike
  <2>2. log # << >> => Last.id # f.id
    <3>1. f.id = attempts + 1
      BY <1>1 DEF Alike, Plan
    <3> QED
      BY <1>3, <3>1, Replay DEF StreamStands, Last
  <2> QED
    BY <1>2, <1>4, <1>5, <1>7, <2>1, <2>2, <2>3 DEF CommitStands
<1>9. Works(i)' /\ InSync(i)' => Agrees(own'[i], Replayed)
  BY <1>2, StillAgrees
<1>10. attempts' \in Nat /\ attempts' >= attempts
  BY <1>2, <1>3
<1> QED
  BY <1>2, <1>3, <1>4, <1>6, <1>8, <1>9, <1>10, HistoryKept

\* The same, from what the operations check first.
LEMMA ReadyFits ==
  ASSUME OwnerInv, HistoryInv, NEW i \in Owners, NEW q, NEW op, Ready(i, q, op),
         NEW r, IsRecord(r), NEW b, Plan(i, r, b),
         Submit(i, r, b) \/ Prepare(i, r, b, "commit")
  PROVE  HistoryInv'
<1>1. Works(i) /\ InSync(i) /\ ~Replayed.discarded
  BY DEF Ready, Usable, Works
<1>2. Prepare(i, r, b, "reload") \/ Prepare(i, r, b, "commit")
  BY DEF Submit
<1> QED
  BY <1>1, <1>2, PrepareFits

-----------------------------------------------------------------------------
(* The operations.                                                         *)

\* A record that does not publish, on the loaded state and the owner's revision.
OnState(i, r) ==
    /\ IsRecord(r) /\ r.id = attempts + 1 /\ r.before = own[i].rev
    /\ ~r.publishes /\ r.hparent = NoCommit
    /\ r.head = Replayed.head /\ r.branch = Replayed.branch /\ r.branches = Replayed.branches

LEMMA BlankOnState ==
  ASSUME NEW i, NEW q
  PROVE  LET r == Blank(i, q)
         IN  /\ OnState(i, r) /\ r.kind = "WriteNothing" /\ r.gen = own[i].gen /\ r.rev = own[i].rev
             /\ r.target = NoCommit
BY DEF Blank, OnState, IsRecord

LEMMA ControlOnState ==
  ASSUME NEW i, NEW q, NEW kind
  PROVE  LET r == Control(i, q, kind)
         IN  /\ OnState(i, r) /\ r.kind = kind /\ r.target = NoCommit
             /\ r.rev = IF kind \in Receipts \/ kind \in CatalogKinds THEN own[i].rev ELSE Bump(own[i].rev, 0, 1)
             /\ r.gen = IF kind \in {"Checkpoint", "CheckpointDelete"} THEN own[i].gen + 1 ELSE own[i].gen
<1> DEFINE b == Blank(i, q)
           v == IF kind \in Receipts \/ kind \in CatalogKinds THEN b.rev ELSE Bump(b.rev, 0, 1)
           g == IF kind \in {"Checkpoint", "CheckpointDelete"} THEN b.gen + 1 ELSE b.gen
<1>1. OnState(i, b) /\ b.gen = own[i].gen /\ b.rev = own[i].rev /\ b.target = NoCommit
  BY BlankOnState
<1>2. Control(i, q, kind) = [b EXCEPT !.kind = kind, !.rev = v, !.gen = g]
  BY <1>1 DEF Control, OnState, IsRecord
<1>3. v = (IF kind \in Receipts \/ kind \in CatalogKinds THEN own[i].rev ELSE Bump(own[i].rev, 0, 1))
      /\ g = IF kind \in {"Checkpoint", "CheckpointDelete"} THEN own[i].gen + 1 ELSE own[i].gen
  BY <1>1
<1> HIDE DEF b, v, g
<1>4. LET r == [b EXCEPT !.kind = kind, !.rev = v, !.gen = g]
      IN  OnState(i, r) /\ r.kind = kind /\ r.target = NoCommit /\ r.rev = v /\ r.gen = g
  BY <1>1 DEF OnState, IsRecord
<1> QED
  BY <1>2, <1>3, <1>4

\* What the arm of an operation that leaves the document alone must see to.
LEMMA PlainPlan ==
  ASSUME OwnerInv, HistoryInv, NEW i \in Owners, Works(i), InSync(i),
         NEW r, OnState(i, r),
         r.kind \notin {"Restart", "Mutation", "BranchSwitch", "BranchCreate"} \cup HeadMoves,
         r.rev = IF CatalogOnly(r) THEN own[i].rev ELSE Bump(own[i].rev, 0, 1),
         r.gen = IF r.kind \in CatalogKinds THEN own[i].gen + 1 ELSE own[i].gen,
         r.kind = "CalculationInvalidate" => own[i].stamp # "Dirty",
         r.kind = "CatalogStage" => r.item = attempts + 1,
         Permits(Replayed, r)
  PROVE  Plan(i, r, NoBytes)
<1> DEFINE h == Replayed
           v == own[i].rev
<1>1. v \in Revisions /\ own[i].gen = h.gen /\ h.gen \in Nat
  BY InStepFacts
<1>2. ~DocumentChange(h, r)
  BY DEF DocumentChange, OnState
<1>3. r.rev = RevAfter(h, r, v)
  <2>1. v.doc \in Nat /\ v.state \in Nat /\ v = [epoch |-> v.epoch, doc |-> v.doc, state |-> v.state]
    BY <1>1 DEF Revisions
  <2>2. RevAfter(h, r, v) = [epoch |-> v.epoch, doc |-> v.doc + 0,
                             state |-> v.state + (IF CatalogOnly(r) THEN 0 ELSE 1)]
    BY <1>2 DEF RevAfter
  <2>3. Bump(v, 0, 1) = [epoch |-> v.epoch, doc |-> v.doc + 0, state |-> v.state + 1]
    BY <1>1, BumpedIs
  <2> HIDE DEF v, h
  <2>4. r.rev = IF CatalogOnly(r) THEN v ELSE Bump(v, 0, 1)
    BY DEF v
  <2>5. v.doc + 0 = v.doc /\ v.state + 0 = v.state
    BY <2>1
  <2>6. CASE CatalogOnly(r)
    BY <2>1, <2>2, <2>4, <2>5, <2>6
  <2>7. CASE ~CatalogOnly(r)
    BY <2>2, <2>3, <2>4, <2>7
  <2> QED
    BY <2>6, <2>7
<1>4. r.gen = GenAfter(h, r)
  BY <1>1 DEF GenAfter
<1>5. r.head = HeadAfter(h, r) /\ r.branch = BranchAfter(h, r) /\ r.branches = BranchesAfter(h, r)
  BY DEF OnState, HeadAfter, BranchAfter, BranchesAfter, HeadMoves
<1> HIDE DEF h, v
<1> QED
  BY <1>2, <1>3, <1>4, <1>5 DEF Plan, OnState, h, v

\* A receipt for nothing to do.
NothingToDo(h, kind, item) ==
    /\ kind \in Receipts \ {"WriteNothing"}
    /\ kind = "UndoNothing" => h.head = NoCommit
    /\ kind = "RedoNothing" => RedoTarget(h) = NoCommit
    /\ kind = "DiscardNothing" => item \notin h.catalog
    /\ kind = "Creation" => h.tip = NoCommit

LEMMA ReceiptFits ==
  ASSUME OwnerInv, HistoryInv, NEW i \in Owners, NEW q, NEW op, Ready(i, q, op),
         NEW kind, NEW item, NothingToDo(Replayed, kind, item), Receipt(i, q, kind, item)
  PROVE  HistoryInv'
<1> DEFINE c == Control(i, q, kind)
           r == [c EXCEPT !.item = item]
<1>1. /\ OnState(i, c) /\ c.kind = kind /\ kind \in Receipts
      /\ c.rev = own[i].rev /\ c.gen = own[i].gen
  BY ControlOnState DEF NothingToDo, Receipts
<1>2. Submit(i, r, NoBytes)
  BY DEF Receipt
<1> HIDE DEF c
<1>3. OnState(i, r) /\ r.kind = kind /\ r.item = item /\ r.rev = own[i].rev /\ r.gen = own[i].gen
  BY <1>1 DEF OnState, IsRecord
<1> HIDE DEF r
<1>4. /\ r.kind \notin {"Restart", "Mutation", "BranchSwitch", "BranchCreate", "CalculationInvalidate", "CatalogStage"}
                \cup HeadMoves
      /\ r.kind \notin CatalogKinds /\ CatalogOnly(r)
  BY <1>1, <1>3 DEF Receipts, CatalogKinds, CatalogOnly, HeadMoves
<1>5. Permits(Replayed, r)
  BY <1>3, <1>4 DEF Permits, OnState, NothingToDo, Receipts, CatalogKinds, HeadMoves
<1>6. Works(i) /\ InSync(i)
  BY DEF Ready, Usable, Works
<1>7. Plan(i, r, NoBytes)
  BY <1>3, <1>4, <1>5, <1>6, PlainPlan
<1>8. IsRecord(r)
  BY <1>3 DEF OnState
<1> QED
  BY <1>2, <1>7, <1>8, ReadyFits

\* Staged changes, calculation and checkpoints.
LEMMA PlainFits ==
  ASSUME OwnerInv, HistoryInv, NEW i \in Owners, NEW q, NEW op, Ready(i, q, op),
         NEW r, OnState(i, r),
         r.kind \in {"WriteNothing", "CatalogStage", "CatalogDiscard", "StageApply", "CalculationPublish",
                     "CalculationInvalidate", "Checkpoint", "CheckpointDelete"},
         r.rev = IF r.kind \in {"CalculationPublish", "CalculationInvalidate"} THEN Bump(own[i].rev, 0, 1) ELSE own[i].rev,
         r.gen = IF r.kind \in CatalogKinds THEN own[i].gen + 1 ELSE own[i].gen,
         r.kind = "CalculationInvalidate" => own[i].stamp # "Dirty",
         r.kind = "CatalogStage" => r.item = attempts + 1,
         r.kind \in {"CatalogDiscard", "StageApply"} => r.item \in DOMAIN own[i].staged,
         r.kind = "CheckpointDelete" => r.item \in DOMAIN Replayed.checkpoints,
         Submit(i, r, NoBytes) \/ Prepare(i, r, NoBytes, "commit")
  PROVE  HistoryInv'
<1>1. Works(i) /\ InSync(i)
  BY DEF Ready, Usable, Works
<1>2. CatalogOnly(r) <=> r.kind \notin {"CalculationPublish", "CalculationInvalidate"}
  BY DEF OnState, CatalogOnly, CatalogKinds, Receipts
<1>3. r.kind \notin {"Restart", "Mutation", "BranchSwitch", "BranchCreate", "Redo", "Undo", "Checkout"}
  OBVIOUS
<1>4. /\ DOMAIN own[i].staged = Replayed.catalog
      /\ r.kind = "CatalogStage" => r.item \notin Replayed.catalog
  <2>1. Agrees(own[i], Replayed)
    BY <1>1, InStepFacts
  <2>2. attempts \in Nat /\ Replayed.catalog \subseteq 1..attempts
    BY ReplayedStands
  <2> QED
    BY <2>1, <2>2 DEF Agrees
<1>5. Permits(Replayed, r)
  BY <1>4 DEF Permits, OnState
<1>6. Plan(i, r, NoBytes)
  BY <1>1, <1>2, <1>3, <1>5, PlainPlan DEF HeadMoves
<1>7. IsRecord(r)
  BY DEF OnState
<1> QED
  BY <1>6, <1>7, ReadyFits

\* A record that publishes the prepared change, on the loaded state.
PublishesOn(i, r) ==
    /\ IsRecord(r) /\ r.id = attempts + 1 /\ r.before = own[i].rev
    /\ r.publishes = TRUE /\ r.hparent = Replayed.head
    /\ r.head = r.id /\ r.branch = Replayed.branch
    /\ r.branches = Put(Replayed.branches, Replayed.branch, r.id)
    /\ r.rev = Bump(own[i].rev, 1, 1)

LEMMA PublishingOn ==
  ASSUME NEW i, NEW r, OnState(i, r), r.rev = own[i].rev
  PROVE  LET p == Publishing(r)
         IN  /\ PublishesOn(i, p) /\ p.kind = r.kind /\ p.item = r.item /\ p.gen = r.gen
<1> DEFINE b == Put(r.branches, r.branch, r.id)
           v == Bump(r.rev, 1, 1)
<1>1. Publishing(r) = [r EXCEPT !.publishes = TRUE, !.hparent = r.head, !.head = r.id, !.branches = b, !.rev = v]
  BY DEF Publishing, OnState, IsRecord
<1>2. b = Put(Replayed.branches, Replayed.branch, r.id) /\ v = Bump(own[i].rev, 1, 1)
  BY DEF OnState
<1> HIDE DEF b, v
<1> QED
  BY <1>1, <1>2 DEF OnState, IsRecord, PublishesOn

\* Writes and staged changes that are applied.
LEMMA ChangeFits ==
  ASSUME OwnerInv, HistoryInv, NEW i \in Owners, NEW q, NEW op, Ready(i, q, op),
         NEW r, PublishesOn(i, r), r.kind \in {"Mutation", "StageApply"},
         r.gen = IF r.kind = "StageApply" THEN own[i].gen + 1 ELSE own[i].gen,
         r.kind = "StageApply" => r.item \in DOMAIN own[i].staged,
         Submit(i, r, NoBytes) \/ Prepare(i, r, NoBytes, "commit")
  PROVE  HistoryInv'
<1> DEFINE h == Replayed
           v == own[i].rev
<1>1. Works(i) /\ InSync(i)
  BY DEF Ready, Usable, Works
<1>2. v \in Revisions /\ own[i].gen = h.gen /\ h.gen \in Nat /\ Agrees(own[i], h)
  BY <1>1, InStepFacts
<1>3. DOMAIN own[i].staged = h.catalog
  BY <1>2 DEF Agrees
<1>4. DocumentChange(h, r) /\ ~CatalogOnly(r)
  BY DEF DocumentChange, PublishesOn, CatalogOnly, CatalogKinds, Receipts
<1>5. r.rev = RevAfter(h, r, v)
  <2>1. Bump(v, 1, 1) = [epoch |-> v.epoch, doc |-> v.doc + 1, state |-> v.state + 1]
    BY <1>2, BumpedIs
  <2>2. r.rev = Bump(v, 1, 1)
    BY DEF PublishesOn
  <2> HIDE DEF h, v
  <2> QED
    BY <1>4, <2>1, <2>2 DEF RevAfter
<1>6. r.gen = GenAfter(h, r)
  BY <1>2 DEF GenAfter, CatalogKinds
<1>7. r.head = HeadAfter(h, r) /\ r.branch = BranchAfter(h, r) /\ r.branches = BranchesAfter(h, r)
  BY DEF PublishesOn, HeadAfter, BranchAfter, BranchesAfter
<1>8. Permits(h, r)
  BY <1>3 DEF Permits, PublishesOn
<1> HIDE DEF h, v
<1>9. Plan(i, r, NoBytes)
  BY <1>4, <1>5, <1>6, <1>7, <1>8 DEF Plan, PublishesOn, h, v
<1>10. IsRecord(r)
  BY DEF PublishesOn
<1> QED
  BY <1>9, <1>10, ReadyFits

LEMMA WriteFits ==
  ASSUME OwnerInv, HistoryInv, NEW i \in Owners, NEW q, Write(i, q)
  PROVE  HistoryInv'
<1> DEFINE b == Blank(i, q)
           c == [b EXCEPT !.kind = "Mutation"]
           m == Publishing(c)
<1>1. Ready(i, q, "write")
  BY DEF Write
<1>2. OnState(i, b) /\ b.kind = "WriteNothing" /\ b.gen = own[i].gen /\ b.rev = own[i].rev
  BY BlankOnState
<1>3. \/ \E keep \in BOOLEAN : Prepare(i, [m EXCEPT !.preserve = keep], NoBytes, "commit")
      \/ Prepare(i, b, NoBytes, "commit")
  BY DEF Write
<1> HIDE DEF b
<1>4. OnState(i, c) /\ c.kind = "Mutation" /\ c.gen = own[i].gen /\ c.rev = own[i].rev
  BY <1>2 DEF OnState, IsRecord
<1> HIDE DEF c
<1>5. PublishesOn(i, m) /\ m.kind = "Mutation" /\ m.gen = own[i].gen
  BY <1>4, PublishingOn
<1> HIDE DEF m
<1>6. ASSUME NEW keep \in BOOLEAN, Prepare(i, [m EXCEPT !.preserve = keep], NoBytes, "commit")
      PROVE  HistoryInv'
  <2> DEFINE r == [m EXCEPT !.preserve = keep]
  <2>1. PublishesOn(i, r) /\ r.kind = "Mutation" /\ r.gen = own[i].gen
    BY <1>5 DEF PublishesOn, IsRecord
  <2>2. Prepare(i, r, NoBytes, "commit")
    BY <1>6
  <2> HIDE DEF r
  <2> QED
    BY <1>1, <2>1, <2>2, ChangeFits
<1>7. CASE Prepare(i, b, NoBytes, "commit")
  <2>1. b.kind \notin CatalogKinds
    BY <1>2 DEF CatalogKinds
  <2> QED
    BY <1>1, <1>2, <1>7, <2>1, PlainFits
<1> QED
  BY <1>3, <1>6, <1>7

LEMMA StageFits ==
  ASSUME OwnerInv, HistoryInv, NEW i \in Owners, NEW q, Stage(i, q)
  PROVE  HistoryInv'
<1> DEFINE b == Blank(i, q)
           g == b.gen + 1
           r == [b EXCEPT !.kind = "CatalogStage", !.item = attempts + 1, !.gen = g]
<1>1. OnState(i, b) /\ b.gen = own[i].gen /\ b.rev = own[i].rev
  BY BlankOnState
<1>2. Ready(i, q, "stage") /\ Prepare(i, r, NoBytes, "commit") /\ g = own[i].gen + 1
  BY <1>1 DEF Stage, OnState, IsRecord
<1> HIDE DEF b, g
<1>3. OnState(i, r) /\ r.kind = "CatalogStage" /\ r.item = attempts + 1 /\ r.gen = g /\ r.rev = own[i].rev
  BY <1>1 DEF OnState, IsRecord
<1> HIDE DEF r
<1>4. r.kind \in CatalogKinds
  BY <1>3 DEF CatalogKinds
<1> QED
  BY <1>2, <1>3, <1>4, PlainFits

LEMMA ApplyFits ==
  ASSUME OwnerInv, HistoryInv, NEW i \in Owners, NEW q, ApplyStaged(i, q)
  PROVE  HistoryInv'
<1> DEFINE b == Blank(i, q)
           g == b.gen + 1
<1>1. OnState(i, b) /\ b.gen = own[i].gen /\ b.rev = own[i].rev
  BY BlankOnState
<1>2. PICK c \in DOMAIN own[i].staged :
         LET r == [Blank(i, q) EXCEPT !.kind = "StageApply", !.item = c, !.gen = @ + 1]
         IN  Submit(i, Publishing(r), NoBytes) \/ Submit(i, r, NoBytes)
  BY DEF ApplyStaged
<1> DEFINE r == [b EXCEPT !.kind = "StageApply", !.item = c, !.gen = g]
<1>3. Submit(i, Publishing(r), NoBytes) \/ Submit(i, r, NoBytes)
  BY <1>1, <1>2 DEF OnState, IsRecord
<1>4. Ready(i, q, "apply_staged") /\ g = own[i].gen + 1
  BY <1>1 DEF ApplyStaged
<1> HIDE DEF b, g
<1>5. OnState(i, r) /\ r.kind = "StageApply" /\ r.item = c /\ r.gen = g /\ r.rev = own[i].rev
  BY <1>1 DEF OnState, IsRecord
<1> HIDE DEF r
<1>6. r.kind \in CatalogKinds
  BY <1>5 DEF CatalogKinds
<1> DEFINE p == Publishing(r)
<1>7. PublishesOn(i, p) /\ p.kind = "StageApply" /\ p.item = c /\ p.gen = g
  BY <1>5, PublishingOn
<1>8. Submit(i, p, NoBytes) \/ Submit(i, r, NoBytes)
  BY <1>3
<1> HIDE DEF p
<1>9. CASE Submit(i, p, NoBytes)
  BY <1>4, <1>7, <1>9, ChangeFits
<1>10. CASE Submit(i, r, NoBytes)
  BY <1>4, <1>5, <1>6, <1>10, PlainFits
<1> QED
  BY <1>8, <1>9, <1>10

LEMMA DiscardFits ==
  ASSUME OwnerInv, HistoryInv, NEW i \in Owners, NEW q, DiscardStaged(i, q)
  PROVE  HistoryInv'
<1> DEFINE b == Blank(i, q)
           g == b.gen + 1
<1>1. OnState(i, b) /\ b.gen = own[i].gen /\ b.rev = own[i].rev
  BY BlankOnState
<1>2. Ready(i, q, "discard_staged") /\ g = own[i].gen + 1
  BY <1>1 DEF DiscardStaged
<1>3. PICK c \in 1..attempts :
         IF c \in DOMAIN own[i].staged
            THEN Submit(i, [Blank(i, q) EXCEPT !.kind = "CatalogDiscard", !.item = c, !.gen = @ + 1], NoBytes)
            ELSE Receipt(i, q, "DiscardNothing", c)
  BY DEF DiscardStaged
<1>4. CASE c \in DOMAIN own[i].staged
  <2> DEFINE r == [b EXCEPT !.kind = "CatalogDiscard", !.item = c, !.gen = g]
  <2>1. Submit(i, r, NoBytes)
    BY <1>1, <1>3, <1>4 DEF OnState, IsRecord
  <2> HIDE DEF b, g
  <2>2. OnState(i, r) /\ r.kind = "CatalogDiscard" /\ r.item = c /\ r.gen = g /\ r.rev = own[i].rev
    BY <1>1 DEF OnState, IsRecord
  <2> HIDE DEF r
  <2>3. r.kind \in CatalogKinds
    BY <2>2 DEF CatalogKinds
  <2> QED
    BY <1>2, <1>4, <2>1, <2>2, <2>3, PlainFits
<1>5. CASE c \notin DOMAIN own[i].staged
  <2>1. Works(i) /\ InSync(i)
    BY <1>2 DEF Ready, Usable, Works
  <2>2. c \notin Replayed.catalog
    BY <1>5, <2>1, InStepFacts DEF Agrees
  <2>3. NothingToDo(Replayed, "DiscardNothing", c)
    BY <2>2 DEF NothingToDo, Receipts
  <2> QED
    BY <1>2, <1>3, <1>5, <2>3, ReceiptFits
<1> QED
  BY <1>4, <1>5

\* What is materialized is a document.
LEMMA MaterializedIs ==
  ASSUME OwnerInv, HistoryInv, NEW t
  PROVE  Materialize(t) # NoBytes
<1>1. Rooted(Replayed)
  BY ReplayedStands, StandsIsRooted
<1>2. t \in Known(Replayed) => Lineage(Replayed, t) \in Seq(Nat)
  BY <1>1, LineagesStand DEF LineageStands
<1>3. << >> \in Seq(Nat)
  OBVIOUS
<1>4. Materialize(t) \in Seq(Nat)
  BY <1>2, <1>3 DEF Materialize
<1> QED
  BY <1>4, OwnerBounds

\* Records that move the head.
LEMMA MovingFits ==
  ASSUME OwnerInv, HistoryInv, NEW i \in Owners, NEW q, NEW op, Ready(i, q, op),
         NEW r, IsRecord(r), r.id = attempts + 1, r.before = own[i].rev, ~r.publishes, r.hparent = NoCommit,
         r.branches = Replayed.branches, r.gen = own[i].gen, r.rev = Bump(own[i].rev, 1, 1),
         r.kind \in HeadMoves \cup {"BranchSwitch"}, DocumentChange(Replayed, r),
         TargetOf(r) \in Known(Replayed) \cup {NoCommit} =>
            Permits(Replayed, r) /\ r.head = HeadAfter(Replayed, r) /\ r.branch = BranchAfter(Replayed, r),
         Submit(i, r, Materialize(r.head))
  PROVE  HistoryInv'
<1> DEFINE h == Replayed
           v == own[i].rev
           b == Materialize(r.head)
<1>1. Works(i) /\ InSync(i)
  BY DEF Ready, Usable, Works
<1>2. v \in Revisions /\ own[i].gen = h.gen /\ h.gen \in Nat
  BY <1>1, InStepFacts
<1>3. ~CatalogOnly(r) /\ r.kind \notin CatalogKinds
  BY DEF CatalogOnly, CatalogKinds, Receipts, HeadMoves
<1>4. r.rev = RevAfter(h, r, v)
  <2>1. Bump(v, 1, 1) = [epoch |-> v.epoch, doc |-> v.doc + 1, state |-> v.state + 1]
    BY <1>2, BumpedIs
  <2>2. r.rev = Bump(v, 1, 1) /\ DocumentChange(h, r)
    OBVIOUS
  <2> HIDE DEF h, v
  <2> QED
    BY <1>3, <2>1, <2>2 DEF RevAfter
<1>5. r.gen = GenAfter(h, r)
  BY <1>2, <1>3 DEF GenAfter
<1>6. r.branches = BranchesAfter(h, r)
  BY DEF BranchesAfter, HeadMoves
<1>7. b # NoBytes
  BY MaterializedIs
<1>8. r.kind \notin {"Restart", "Mutation", "StageApply", "CalculationInvalidate", "CatalogStage"}
  BY DEF HeadMoves
<1>9. /\ DocumentChange(h, r)
      /\ TargetOf(r) \in Known(h) \cup {NoCommit} =>
            Permits(h, r) /\ r.head = HeadAfter(h, r) /\ r.branch = BranchAfter(h, r)
  OBVIOUS
<1> HIDE DEF h, v, b
<1>10. Plan(i, r, b)
  BY <1>4, <1>5, <1>6, <1>7, <1>8, <1>9 DEF Plan, h, v, b
<1>11. Submit(i, r, b)
  BY DEF b
<1> QED
  BY <1>10, <1>11, ReadyFits

LEMMA MoveHeadFits ==
  ASSUME OwnerInv, HistoryInv, NEW i \in Owners, NEW q, NEW op, Ready(i, q, op),
         NEW kind \in HeadMoves, NEW t, MoveHead(i, q, kind, t),
         kind = "Undo" => t = ParentOfHead(Replayed),
         kind = "Redo" => t = RedoTarget(Replayed) /\ t # NoCommit
  PROVE  HistoryInv'
<1> DEFINE c == Control(i, q, kind)
           v == Bump(own[i].rev, 1, 1)
           r == [c EXCEPT !.head = t, !.rev = v]
           h == Replayed
<1>1. OnState(i, c) /\ c.kind = kind /\ c.gen = own[i].gen /\ c.target = NoCommit
  BY ControlOnState DEF HeadMoves
<1>2. Submit(i, r, Materialize(t))
  BY DEF MoveHead
<1> HIDE DEF c, v
<1>3. /\ IsRecord(r) /\ r.id = attempts + 1 /\ r.before = own[i].rev /\ ~r.publishes /\ r.hparent = NoCommit
      /\ r.branches = Replayed.branches /\ r.branch = Replayed.branch /\ r.gen = own[i].gen /\ r.rev = v
      /\ r.kind = kind /\ r.head = t
  BY <1>1 DEF OnState, IsRecord
<1> HIDE DEF r, h
<1>4. DocumentChange(h, r)
  BY <1>3 DEF DocumentChange
<1>5. kind = "Redo" => t \in Known(h) /\ h.parents[t] = h.head
  BY ReplayedStands, RedoFinds DEF h
<1>6. ASSUME TargetOf(r) \in Known(h) \cup {NoCommit}
      PROVE  Permits(h, r) /\ r.head = HeadAfter(h, r) /\ r.branch = BranchAfter(h, r)
  <2>1. kind = "Checkout" => t \in Known(h) \cup {NoCommit}
    BY <1>3, <1>6 DEF TargetOf
  <2>2. r.head = HeadAfter(h, r) /\ r.branch = BranchAfter(h, r)
    BY <1>3 DEF HeadAfter, BranchAfter, HeadMoves, h
  <2>3. Permits(h, r)
    BY <1>3, <1>5, <2>1 DEF Permits, HeadMoves, h
  <2> QED
    BY <2>2, <2>3
<1>7. Submit(i, r, Materialize(r.head))
  BY <1>2, <1>3
<1> QED
  BY <1>3, <1>4, <1>6, <1>7, MovingFits DEF h, v

LEMMA UndoFits ==
  ASSUME OwnerInv, HistoryInv, NEW i \in Owners, NEW q, Undo(i, q)
  PROVE  HistoryInv'
<1>1. CASE Replayed.head = NoCommit
  <2>1. NothingToDo(Replayed, "UndoNothing", NoRecord)
    BY <1>1 DEF NothingToDo, Receipts
  <2> QED
    BY <1>1, <2>1, ReceiptFits DEF Undo
<1>2. CASE Replayed.head # NoCommit
  <2>1. MoveHead(i, q, "Undo", ParentOfHead(Replayed)) /\ Ready(i, q, "undo") /\ "Undo" \in HeadMoves
    BY <1>2 DEF Undo, HeadMoves
  <2> QED
    BY <2>1, MoveHeadFits
<1> QED
  BY <1>1, <1>2

LEMMA RedoFits ==
  ASSUME OwnerInv, HistoryInv, NEW i \in Owners, NEW q, Redo(i, q)
  PROVE  HistoryInv'
<1>1. CASE RedoTarget(Replayed) = NoCommit
  <2>1. NothingToDo(Replayed, "RedoNothing", NoRecord)
    BY <1>1 DEF NothingToDo, Receipts
  <2> QED
    BY <1>1, <2>1, ReceiptFits DEF Redo
<1>2. CASE RedoTarget(Replayed) # NoCommit
  <2>1. MoveHead(i, q, "Redo", RedoTarget(Replayed)) /\ Ready(i, q, "redo") /\ "Redo" \in HeadMoves
    BY <1>2 DEF Redo, HeadMoves
  <2> QED
    BY <1>2, <2>1, MoveHeadFits
<1> QED
  BY <1>1, <1>2

LEMMA CheckoutFits ==
  ASSUME OwnerInv, HistoryInv, NEW i \in Owners, NEW q, Checkout(i, q) \/ RestoreCheckpoint(i, q)
  PROVE  HistoryInv'
<1>1. PICK t : MoveHead(i, q, "Checkout", t)
  BY DEF Checkout, RestoreCheckpoint
<1>2. Ready(i, q, "checkout") \/ Ready(i, q, "restore")
  BY DEF Checkout, RestoreCheckpoint
<1>3. "Checkout" \in HeadMoves
  BY DEF HeadMoves
<1> QED
  BY <1>1, <1>2, <1>3, MoveHeadFits

LEMMA SwitchBranchFits ==
  ASSUME OwnerInv, HistoryInv, NEW i \in Owners, NEW q, SwitchBranch(i, q)
  PROVE  HistoryInv'
<1>0. Ready(i, q, "switch") /\ Works(i) /\ InSync(i)
  BY SMTT(60) DEF SwitchBranch, Ready, Usable, Works
<1>1. PICK b \in DOMAIN Replayed.branches :
         LET t == Replayed.branches[b]
             moves == t # Replayed.head
             r == [Control(i, q, "BranchSwitch") EXCEPT !.item = b, !.branch = b, !.head = t]
         IN  Submit(i, IF moves THEN [r EXCEPT !.rev = Bump(own[i].rev, 1, 1)] ELSE r,
                    IF moves THEN Materialize(t) ELSE NoBytes)
  BY DEF SwitchBranch
<1> DEFINE h == Replayed
           t == h.branches[b]
           c == Control(i, q, "BranchSwitch")
           s == [c EXCEPT !.item = b, !.branch = b, !.head = t]
           v == own[i].rev
<1>2. OnState(i, c) /\ c.kind = "BranchSwitch" /\ c.gen = own[i].gen /\ c.rev = Bump(v, 0, 1)
  BY ControlOnState DEF Receipts, CatalogKinds
<1>3. /\ t # h.head => Submit(i, [s EXCEPT !.rev = Bump(v, 1, 1)], Materialize(t))
      /\ t = h.head => Submit(i, s, NoBytes)
  BY <1>1
<1> HIDE DEF c
<1>4. /\ IsRecord(s) /\ s.id = attempts + 1 /\ s.before = own[i].rev /\ ~s.publishes /\ s.hparent = NoCommit
      /\ s.branches = Replayed.branches /\ s.branch = b /\ s.gen = own[i].gen /\ s.rev = Bump(v, 0, 1)
      /\ s.kind = "BranchSwitch" /\ s.head = t /\ s.item = b
  BY <1>2 DEF OnState, IsRecord
<1> HIDE DEF s
<1>5. ASSUME NEW r, IsRecord(r), r.kind = "BranchSwitch", ~r.publishes, r.hparent = NoCommit,
             r.item = b, r.branch = b, r.head = t
      PROVE  /\ Permits(h, r) /\ r.head = HeadAfter(h, r) /\ r.branch = BranchAfter(h, r)
             /\ BranchesAfter(h, r) = h.branches
  <2>1. r.head = HeadAfter(h, r) /\ r.branch = BranchAfter(h, r) /\ BranchesAfter(h, r) = h.branches
    BY <1>5 DEF HeadAfter, BranchAfter, BranchesAfter
  <2>2. Permits(h, r)
    BY <1>5 DEF Permits
  <2> QED
    BY <2>1, <2>2
<1>6. CASE t # h.head
  <2> DEFINE u == Bump(v, 1, 1)
             r == [s EXCEPT !.rev = u]
  <2>1. Submit(i, r, Materialize(t))
    BY <1>3, <1>6
  <2> HIDE DEF u
  <2>2. /\ IsRecord(r) /\ r.id = attempts + 1 /\ r.before = own[i].rev /\ ~r.publishes /\ r.hparent = NoCommit
        /\ r.branches = Replayed.branches /\ r.branch = b /\ r.gen = own[i].gen /\ r.rev = u
        /\ r.kind = "BranchSwitch" /\ r.head = t /\ r.item = b
    BY <1>4 DEF IsRecord
  <2> HIDE DEF r
  <2>3. DocumentChange(h, r)
    BY <1>6, <2>2 DEF DocumentChange
  <2>4. Permits(h, r) /\ r.head = HeadAfter(h, r) /\ r.branch = BranchAfter(h, r)
    BY <1>5, <2>2
  <2>5. Submit(i, r, Materialize(r.head)) /\ r.kind \in HeadMoves \cup {"BranchSwitch"}
    BY <2>1, <2>2
  <2> QED
    BY <1>0, <2>2, <2>3, <2>4, <2>5, MovingFits DEF u
<1>7. CASE t = h.head
  <2>1. v \in Revisions /\ own[i].gen = h.gen /\ h.gen \in Nat
    BY <1>0, InStepFacts
  <2>2. ~DocumentChange(h, s) /\ ~CatalogOnly(s) /\ s.kind \notin CatalogKinds
    BY <1>4, <1>7 DEF DocumentChange, CatalogOnly, CatalogKinds, Receipts, HeadMoves
  <2>3. s.rev = RevAfter(h, s, v)
    <3>1. Bump(v, 0, 1) = [epoch |-> v.epoch, doc |-> v.doc + 0, state |-> v.state + 1]
      BY <2>1, BumpedIs
    <3>2. s.rev = Bump(v, 0, 1)
      BY <1>4
    <3> HIDE DEF v, h
    <3> QED
      BY <2>2, <3>1, <3>2 DEF RevAfter
  <2>4. s.gen = GenAfter(h, s)
    BY <1>4, <2>1, <2>2 DEF GenAfter
  <2>5. Permits(h, s) /\ s.head = HeadAfter(h, s) /\ s.branch = BranchAfter(h, s) /\ BranchesAfter(h, s) = h.branches
    BY <1>4, <1>5
  <2> HIDE DEF h, v, t
  <2>6. Plan(i, s, NoBytes)
    BY <1>4, <2>2, <2>3, <2>4, <2>5 DEF Plan, h, v
  <2>7. Submit(i, s, NoBytes)
    BY <1>3, <1>7
  <2> QED
    BY <1>0, <1>4, <2>6, <2>7, ReadyFits
<1> QED
  BY <1>6, <1>7

LEMMA CreateBranchFits ==
  ASSUME OwnerInv, HistoryInv, NEW i \in Owners, NEW q, CreateBranch(i, q)
  PROVE  HistoryInv'
<1>0. Ready(i, q, "branch") /\ Works(i) /\ InSync(i)
  BY DEF CreateBranch, Ready, Usable, Works
<1>1. PICK b \in BranchNames \ DOMAIN Replayed.branches, t \in WriteCommits \cup {Replayed.head, NoCommit} :
         Submit(i, [Control(i, q, "BranchCreate") EXCEPT !.item = b, !.target = t, !.branches = Put(@, b, t)], NoBytes)
  BY DEF CreateBranch
<1> DEFINE h == Replayed
           c == Control(i, q, "BranchCreate")
           f == Put(c.branches, b, t)
           r == [c EXCEPT !.item = b, !.target = t, !.branches = f]
           v == own[i].rev
<1>2. OnState(i, c) /\ c.kind = "BranchCreate" /\ c.gen = own[i].gen /\ c.rev = Bump(v, 0, 1)
  BY ControlOnState DEF Receipts, CatalogKinds
<1>3. Submit(i, r, NoBytes) /\ f = Put(h.branches, b, t)
  BY <1>1, <1>2 DEF OnState, IsRecord
<1> HIDE DEF c, f
<1>4. /\ IsRecord(r) /\ r.id = attempts + 1 /\ r.before = own[i].rev /\ ~r.publishes /\ r.hparent = NoCommit
      /\ r.branches = f /\ r.branch = h.branch /\ r.gen = own[i].gen /\ r.rev = Bump(v, 0, 1)
      /\ r.kind = "BranchCreate" /\ r.head = h.head /\ r.item = b /\ r.target = t
  BY <1>2 DEF OnState, IsRecord
<1> HIDE DEF r
<1>5. v \in Revisions /\ own[i].gen = h.gen /\ h.gen \in Nat
  BY <1>0, InStepFacts
<1>6. ~DocumentChange(h, r) /\ ~CatalogOnly(r) /\ r.kind \notin CatalogKinds
  BY <1>4 DEF DocumentChange, CatalogOnly, CatalogKinds, Receipts, HeadMoves
<1>7. r.rev = RevAfter(h, r, v)
  <2>1. Bump(v, 0, 1) = [epoch |-> v.epoch, doc |-> v.doc + 0, state |-> v.state + 1]
    BY <1>5, BumpedIs
  <2>2. r.rev = Bump(v, 0, 1)
    BY <1>4
  <2> HIDE DEF v, h
  <2> QED
    BY <1>6, <2>1, <2>2 DEF RevAfter
<1>8. r.gen = GenAfter(h, r)
  BY <1>4, <1>5, <1>6 DEF GenAfter
<1>9. r.head = HeadAfter(h, r) /\ r.branch = BranchAfter(h, r) /\ r.branches = BranchesAfter(h, r)
  BY <1>3, <1>4 DEF HeadAfter, BranchAfter, BranchesAfter
<1>10. TargetOf(r) \in Known(h) \cup {NoCommit} => Permits(h, r)
  BY <1>4 DEF Permits, TargetOf
<1> HIDE DEF h, v
<1>11. Plan(i, r, NoBytes)
  BY <1>4, <1>6, <1>7, <1>8, <1>9, <1>10 DEF Plan, h, v
<1> QED
  BY <1>0, <1>3, <1>4, <1>11, ReadyFits

LEMMA ControlFitsHistory ==
  ASSUME OwnerInv, HistoryInv, NEW i \in Owners, NEW q,
         Recalculate(i, q) \/ RevokeCalculation(i, q) \/ CreateCheckpoint(i, q) \/ DeleteCheckpoint(i, q)
  PROVE  HistoryInv'
<1>1. CASE Recalculate(i, q)
  <2> DEFINE r == Control(i, q, "CalculationPublish")
  <2>1. OnState(i, r) /\ r.kind = "CalculationPublish" /\ r.rev = Bump(own[i].rev, 0, 1) /\ r.gen = own[i].gen
    BY ControlOnState DEF Receipts, CatalogKinds
  <2>2. Ready(i, q, "recalculate") /\ Submit(i, r, NoBytes)
    BY <1>1 DEF Recalculate
  <2> HIDE DEF r
  <2>3. r.kind \notin CatalogKinds
    BY <2>1 DEF CatalogKinds
  <2> QED
    BY <2>1, <2>2, <2>3, PlainFits
<1>2. CASE RevokeCalculation(i, q)
  <2>1. Ready(i, q, "revoke")
    BY <1>2 DEF RevokeCalculation
  <2>2. CASE own[i].stamp = "Dirty"
    <3>1. NothingToDo(Replayed, "InvalidateNothing", NoRecord)
      BY DEF NothingToDo, Receipts
    <3>2. Receipt(i, q, "InvalidateNothing", NoRecord)
      BY <1>2, <2>2 DEF RevokeCalculation
    <3> QED
      BY <2>1, <3>1, <3>2, ReceiptFits
  <2>3. CASE own[i].stamp # "Dirty"
    <3> DEFINE r == Control(i, q, "CalculationInvalidate")
    <3>1. OnState(i, r) /\ r.kind = "CalculationInvalidate" /\ r.rev = Bump(own[i].rev, 0, 1) /\ r.gen = own[i].gen
      BY ControlOnState DEF Receipts, CatalogKinds
    <3>2. Submit(i, r, NoBytes)
      BY <1>2, <2>3 DEF RevokeCalculation
    <3> HIDE DEF r
    <3>3. r.kind \notin CatalogKinds
      BY <3>1 DEF CatalogKinds
    <3> QED
      BY <2>1, <2>3, <3>1, <3>2, <3>3, PlainFits
  <2> QED
    BY <2>2, <2>3
<1>3. CASE CreateCheckpoint(i, q)
  <2> DEFINE r == Control(i, q, "Checkpoint")
  <2>1. OnState(i, r) /\ r.kind = "Checkpoint" /\ r.rev = own[i].rev /\ r.gen = own[i].gen + 1
    BY ControlOnState DEF Receipts, CatalogKinds
  <2>2. Ready(i, q, "checkpoint") /\ Submit(i, r, NoBytes)
    BY <1>3 DEF CreateCheckpoint
  <2> HIDE DEF r
  <2>3. r.kind \in CatalogKinds
    BY <2>1 DEF CatalogKinds
  <2> QED
    BY <2>1, <2>2, <2>3, PlainFits
<1>4. CASE DeleteCheckpoint(i, q)
  <2>1. PICK c \in DOMAIN Replayed.checkpoints :
           Submit(i, [Control(i, q, "CheckpointDelete") EXCEPT !.item = c], NoBytes)
    BY <1>4 DEF DeleteCheckpoint
  <2> DEFINE d == Control(i, q, "CheckpointDelete")
             r == [d EXCEPT !.item = c]
  <2>2. OnState(i, d) /\ d.kind = "CheckpointDelete" /\ d.rev = own[i].rev /\ d.gen = own[i].gen + 1
    BY ControlOnState DEF Receipts, CatalogKinds
  <2>3. Ready(i, q, "delete_checkpoint") /\ Submit(i, r, NoBytes)
    BY <1>4, <2>1 DEF DeleteCheckpoint
  <2> HIDE DEF d
  <2>4. OnState(i, r) /\ r.kind = "CheckpointDelete" /\ r.rev = own[i].rev /\ r.gen = own[i].gen + 1 /\ r.item = c
    BY <2>2 DEF OnState, IsRecord
  <2> HIDE DEF r
  <2>5. r.kind \in CatalogKinds
    BY <2>4 DEF CatalogKinds
  <2> QED
    BY <2>3, <2>4, <2>5, PlainFits
<1> QED
  BY <1>1, <1>2, <1>3, <1>4

LEMMA LifecycleFits ==
  ASSUME OwnerInv, HistoryInv, NEW i \in Owners, NEW q, Lifecycle(i, q)
  PROVE  HistoryInv'
<1>1. log = << >> => Replayed.tip = NoCommit
  BY DEF Replayed, Empty
<1>2. /\ log = << >> => NothingToDo(Replayed, "Creation", NoRecord)
      /\ NothingToDo(Replayed, "ResourceExport", NoRecord) /\ NothingToDo(Replayed, "ResourceDiscard", NoRecord)
  BY <1>1 DEF NothingToDo, Receipts
<1> QED
  BY <1>2, ReceiptFits DEF Lifecycle

-----------------------------------------------------------------------------
(* Recovery.                                                               *)

\* What recovery puts together is what replay reaches with the restart.
LEMMA RestartFollows ==
  ASSUME OwnerInv, HistoryInv, log # << >>, ~Replayed.discarded, NEW r, IsRecord(r),
         r.kind = "Restart", ~r.publishes, r.hparent = NoCommit, r.head = Replayed.head,
         r.branch = Replayed.branch, r.branches = Replayed.branches,
         r.rev = RecoverFromRecords.rev, r.gen = RecoverFromRecords.gen
  PROVE  Follows(Replayed, r) /\ Agrees(RecoverFromRecords, After(Replayed, r))
<1> DEFINE h == Replayed
           o == RecoverFromRecords
<1>1. StreamStands /\ RecordsStand
  BY DEF OwnerInv, HistoryInv
<1>2. /\ Len(log) \in DOMAIN log /\ DOMAIN log = 1..Len(log) /\ h = log[Len(log)].post
      /\ h.rev \in Revisions /\ h.rev # NoRevision
  BY <1>1, Replay DEF Last
<1>3. /\ o.rev = Bump(h.rev, 0, 1) /\ o.doc = Lineage(h, h.head) /\ DOMAIN o.staged = h.catalog /\ o.stamp = "Dirty"
      /\ o.gen = Cardinality({k \in DOMAIN log : log[k].kind \in CatalogKinds})
  BY DEF RecoverFromRecords
<1>4. r.rev = o.rev /\ r.gen = o.gen /\ r.head = h.head /\ r.branch = h.branch /\ r.branches = h.branches /\ ~h.discarded
  OBVIOUS
<1> HIDE DEF h, o
<1>5. HistoryStands(h) /\ o.gen = h.gen
  BY <1>1, <1>2, <1>3 DEF RecordsStand
<1>6. h.gen \in Nat /\ h.rev.state \in Nat
  BY <1>2, <1>5 DEF HistoryStands, Revisions
<1>7. ~DocumentChange(h, r) /\ ~CatalogOnly(r) /\ r.kind \notin CatalogKinds /\ r.kind \notin PreparedKinds
  BY DEF DocumentChange, CatalogOnly, CatalogKinds, Receipts, HeadMoves, PreparedKinds
<1>8. RevisionFollows(h, r) /\ r.rev.state = h.rev.state + 1
  <2>1. Bump(h.rev, 0, 1) = [epoch |-> h.rev.epoch, doc |-> h.rev.doc + 0, state |-> h.rev.state + 1]
    BY <1>2, BumpedIs
  <2>2. r.rev = RevAfter(h, r, h.rev)
    BY <1>3, <1>4, <1>7, <2>1 DEF RevAfter
  <2>3. r.rev.state = h.rev.state + 1
    BY <1>3, <1>4, <2>1
  <2> QED
    BY <1>2, <2>2, <2>3 DEF RevisionFollows
<1>9. ClaimsMatch(h, r)
  <2>1. r.gen = GenAfter(h, r)
    BY <1>4, <1>5, <1>6, <1>7 DEF GenAfter
  <2> QED
    BY <1>4, <2>1 DEF ClaimsMatch, HeadAfter, BranchAfter, BranchesAfter
<1>10. NoAba(h, r)
  <2> SUFFICES ASSUME <<r.rev, r.gen>> \in h.seen PROVE FALSE
    BY DEF NoAba
  <2> DEFINE t == <<r.rev, r.gen>>
  <2>1. t \in h.seen /\ t[1] = r.rev
    OBVIOUS
  <2> HIDE DEF t
  <2>2. t[1].state < h.rev.state \/ t[1].state = h.rev.state
    BY <1>5, <2>1 DEF HistoryStands
  <2> QED
    BY <1>6, <1>8, <2>1, <2>2
<1>11. PreparedShape(h, r) /\ Permits(h, r)
  BY <1>7 DEF PreparedShape, Permits
<1>12. Follows(h, r)
  BY <1>4, <1>8, <1>9, <1>10, <1>11 DEF Follows
<1>13. Agrees(o, After(h, r))
  <2> DEFINE e == After(h, r)
  <2>1. e.parents = h.parents /\ e.head = h.head /\ e.catalog = h.catalog /\ e.calc = FALSE
    BY DEF After, HeadAfter, CatalogAfter, CalcAfter
  <2> HIDE DEF e
  <2>2. Lineage(e, h.head) = Lineage(h, h.head)
    BY <2>1, SameLineages
  <2>3. Agrees(o, e)
    BY <1>3, <2>1, <2>2 DEF Agrees
  <2> QED
    BY <2>3 DEF e
<1> QED
  BY <1>12, <1>13 DEF h, o

LEMMA RecoverFits ==
  ASSUME OwnerInv, HistoryInv, NEW i \in Owners, Recover(i)
  PROVE  HistoryInv'
<1> DEFINE o == RecoverFromRecords
           c == Blank(i, attempts + 1)
           r == [c EXCEPT !.kind = "Restart", !.item = Replayed.tip, !.before = o.rev, !.rev = o.rev, !.gen = o.gen]
           f == [r EXCEPT !.fp = Fingerprint(r)]
<1>1. pc[i] = "idle" /\ ~own[i].up /\ log # << >> /\ ~Replayed.discarded /\ Prepare(i, r, o, "commit")
  BY DEF Recover
<1>2. OnState(i, c)
  BY BlankOnState
<1> HIDE DEF c
<1>3. /\ IsRecord(r) /\ r.kind = "Restart" /\ ~r.publishes /\ r.hparent = NoCommit /\ r.head = Replayed.head
      /\ r.branch = Replayed.branch /\ r.branches = Replayed.branches /\ r.rev = o.rev /\ r.gen = o.gen
      /\ r.id = attempts + 1
  BY <1>2 DEF OnState, IsRecord
<1> HIDE DEF r
<1>4. Follows(Replayed, r) /\ Agrees(o, After(Replayed, r))
  BY <1>1, <1>3, RestartFollows
<1>5. /\ UNCHANGED <<log, own, epochs>> /\ attempts' = attempts + 1
      /\ prop' = [prop EXCEPT ![i] = [rec |-> f, bytes |-> o]] /\ pc' = [pc EXCEPT ![i] = "commit"]
  BY <1>1 DEF Prepare, storage
<1>6. Alike(r, f) /\ f.fp.kind = r.kind
  BY <1>3, FingerprintBinds DEF IsRecord, Alike
<1> HIDE DEF f, o
<1>7. SessionsStand /\ StreamStands /\ attempts \in Nat
  BY DEF OwnerInv, SessionsStand
<1>8. /\ prop'[i].rec = f /\ prop'[i].bytes = o
      /\ \A m \in Owners \ {i} : own'[m] = own[m] /\ prop'[m] = prop[m] /\ pc'[m] = pc[m]
  BY <1>5, <1>7 DEF SessionsStand
<1>9. Outcome(i)' = o
  BY <1>1, <1>5, <1>8 DEF Outcome
<1>10. f.kind = "Restart" /\ f.fp.kind = "Restart" /\ ~f.publishes /\ f.id = attempts + 1
  BY <1>3, <1>6 DEF Alike
<1>11. PlanStands(i, prop[i].rec)'
  BY <1>1, <1>5, <1>8, <1>10 DEF PlanStands
<1>12. Replayed' = Replayed /\ Last' = Last
  BY <1>5, SameStream
<1>13. CommitStands(i, prop[i].rec)'
  <2>1. Follows(Replayed, f) /\ Agrees(o, After(Replayed, f))
    BY <1>4, <1>6, AlikeFollows, AlikeAfter
  <2>2. log # << >> => Last.id # f.id
    BY <1>7, <1>10, Replay DEF StreamStands, Last
  <2> QED
    BY <1>1, <1>5, <1>8, <1>9, <1>12, <2>1, <2>2 DEF CommitStands
<1>14. Works(i)' /\ InSync(i)' => Agrees(own'[i], Replayed)
  BY <1>5, StillAgrees
<1>15. attempts' \in Nat /\ attempts' >= attempts
  BY <1>5, <1>7
<1> QED
  BY <1>5, <1>7, <1>8, <1>11, <1>13, <1>14, <1>15, HistoryKept

\* An operation ends, or an owner without one changes.
LEMMA EndsFit ==
  ASSUME OwnerInv, HistoryInv, NEW i \in Owners, log' = log, attempts' = attempts, pc'[i] = "idle",
         \A m \in Owners \ {i} : own'[m] = own[m] /\ prop'[m] = prop[m] /\ pc'[m] = pc[m],
         Works(i)' /\ InSync(i)' => Agrees(own'[i], Replayed)
  PROVE  HistoryInv'
<1>1. attempts \in Nat
  BY DEF OwnerInv, SessionsStand
<1>2. attempts' \in Nat /\ attempts' >= attempts
  BY <1>1
<1>3. ~InFlight(i)'
  BY DEF InFlight
<1> QED
  BY <1>1, <1>2, <1>3, HistoryKept

LEMMA RecoverIdleFits ==
  ASSUME OwnerInv, HistoryInv, NEW i \in Owners, RecoverIdle(i)
  PROVE  HistoryInv'
<1>1. log' = log /\ attempts' = attempts /\ pc' = pc /\ prop' = prop /\ pc[i] = "idle"
  BY DEF RecoverIdle, storage
<1>2. SessionsStand /\ StreamStands
  BY DEF OwnerInv
<1>3. Replayed' = Replayed
  BY <1>1, SameStream
<1>4. CASE log = << >>
  <2> DEFINE o == FromBytes(epochs + 1)
  <2>1. own' = [own EXCEPT ![i] = o]
    BY <1>4 DEF RecoverIdle
  <2>2. o.doc = << >> /\ o.staged = << >> /\ o.stamp = "NotEvaluated"
    BY DEF FromBytes, Down
  <2> HIDE DEF o
  <2>3. own'[i] = o /\ \A m \in Owners \ {i} : own'[m] = own[m]
    BY <1>2, <2>1 DEF SessionsStand
  <2>4. Replayed = Empty /\ Empty.head = NoCommit /\ Empty.catalog = {} /\ Empty.calc = FALSE
    BY <1>2, <1>4, Replay DEF Empty
  <2>5. Agrees(o, Replayed)
    BY <2>2, <2>4, EmptyStands DEF Agrees
  <2> QED
    BY <1>1, <2>3, <2>5, EndsFit
<1>5. CASE log # << >>
  <2> DEFINE o == RecoverFromRecords
  <2>1. own' = [own EXCEPT ![i] = o]
    BY <1>5 DEF RecoverIdle
  <2>2. o.rev.state = Replayed.rev.state + 1 /\ Replayed.rev.state \in Nat /\ Replayed.rev # NoRevision
    BY <1>2, <1>5, RecoveredSession, Replay DEF Revisions
  <2> HIDE DEF o
  <2>3. own'[i] = o /\ \A m \in Owners \ {i} : own'[m] = own[m]
    BY <1>2, <2>1 DEF SessionsStand
  <2>4. ~InSync(i)'
    <3>1. o.rev # Replayed.rev
      BY <2>2
    <3> QED
      BY <1>3, <2>2, <2>3, <3>1 DEF InSync
  <2> QED
    BY <1>1, <2>3, <2>4, EndsFit
<1> QED
  BY <1>4, <1>5

\* Ending in an error, or leaving.
LEMMA FinishFits ==
  ASSUME OwnerInv, HistoryInv, NEW i \in Owners, log' = log, attempts' = attempts,
         NEW o, Finish(i, o), o = own[i] \/ o = [own[i] EXCEPT !.poisoned = TRUE]
  PROVE  HistoryInv'
<1>1. SessionsStand /\ IsSession(own[i])
  BY DEF OwnerInv, SessionsStand
<1>2. /\ pc'[i] = "idle" /\ own'[i] = (IF own[i].up THEN o ELSE Down)
      /\ \A m \in Owners \ {i} : pc'[m] = pc[m] /\ own'[m] = own[m] /\ prop'[m] = prop[m]
  BY <1>1, Finishing
<1>3. Works(i)' => own'[i] = own[i]
  <2>1. ~Down.up
    BY DownIsSession
  <2>2. o = [own[i] EXCEPT !.poisoned = TRUE] => o.poisoned = TRUE
    BY <1>1, PoisonedSession
  <2> QED
    BY <1>2, <2>1, <2>2 DEF Works
<1>4. Works(i)' /\ InSync(i)' => Agrees(own'[i], Replayed)
  BY <1>3, StillAgrees
<1> QED
  BY <1>2, <1>4, EndsFit

LEMMA ErrorsFit ==
  ASSUME OwnerInv, HistoryInv, NEW i \in Owners,
         ReconcileNotFound(i) \/ ReconcileFails(i) \/ PublishFails(i) \/ PublishOriginal(i)
  PROVE  HistoryInv'
<1> DEFINE p == [own[i] EXCEPT !.poisoned = TRUE]
<1>1. /\ log' = log /\ attempts' = attempts
      /\ Finish(i, own[i]) \/ Finish(i, p)
  BY DEF ReconcileNotFound, ReconcileFails, PublishFails, PublishOriginal, Log!TellNotFound, TellOutcome, storage
<1> QED
  BY <1>1, FinishFits

LEMMA PoisonFits ==
  ASSUME OwnerInv, HistoryInv, NEW i \in Owners,
         StaleWrite(i) \/ \E q : RecalculateFails(i, q)
  PROVE  HistoryInv'
<1>1. /\ log' = log /\ attempts' = attempts /\ pc' = pc /\ prop' = prop /\ pc[i] = "idle"
      /\ own' = [own EXCEPT ![i].poisoned = TRUE]
  BY DEF StaleWrite, RecalculateFails, Ready, Usable, storage
<1>2. DOMAIN own = Owners /\ IsSession(own[i])
  BY DEF OwnerInv, SessionsStand
<1>3. own'[i].poisoned = TRUE /\ \A m \in Owners \ {i} : own'[m] = own[m]
  BY <1>1, <1>2 DEF IsSession
<1>4. ~Works(i)'
  BY <1>3 DEF Works
<1> QED
  BY <1>1, <1>3, <1>4, EndsFit

LEMMA LeaveFits ==
  ASSUME OwnerInv, HistoryInv, NEW i \in Owners, Leave(i)
  PROVE  HistoryInv'
<1>1. SessionsStand
  BY DEF OwnerInv
<1>2. /\ log' = log /\ attempts' = attempts /\ pc'[i] = "idle" /\ own'[i] = Down
      /\ \A m \in Owners \ {i} : pc'[m] = pc[m] /\ own'[m] = own[m] /\ prop'[m] = prop[m]
  BY <1>1 DEF Leave, storage, SessionsStand
<1>3. ~Works(i)'
  BY <1>2, DownIsSession DEF Works
<1> QED
  BY <1>2, <1>3, EndsFit

\* An answer of the storage, or none: the record is no longer to be appended.
LEMMA AnswerFits ==
  ASSUME OwnerInv, HistoryInv, NEW i \in Owners,
         CommitBarrier(i) \/ FindExisting(i) \/ CommitRefuses(i) \/ CommitFails(i)
  PROVE  HistoryInv'
<1>1. PICK step \in {"publish", "reconcile"} : pc' = [pc EXCEPT ![i] = step]
  BY DEF CommitBarrier, FindExisting, CommitRefuses, CommitFails
<1>2. /\ log' = log /\ attempts' = attempts /\ own' = own /\ prop' = prop /\ InFlight(i)
  BY DEF CommitBarrier, FindExisting, CommitRefuses, CommitFails, Log!Harden, storage, InFlight
<1>3. SessionsStand /\ attempts \in Nat
  BY DEF OwnerInv, SessionsStand
<1>4. pc'[i] = step /\ \A m \in Owners \ {i} : pc'[m] = pc[m]
  BY <1>1, <1>3 DEF SessionsStand
<1>5. Replayed' = Replayed /\ Last' = Last
  BY <1>2, SameStream
<1>6. PlanStands(i, prop[i].rec) /\ CommitStands(i, prop[i].rec)
  BY <1>2 DEF HistoryInv, PlansStand
<1>7. Outcome(i)' = Outcome(i)
  BY <1>2 DEF Outcome
<1>8. PlanStands(i, prop[i].rec)'
  BY <1>2, <1>6, <1>7 DEF PlanStands
<1>9. CommitStands(i, prop[i].rec)'
  BY <1>2, <1>4, <1>5, <1>6, <1>7 DEF CommitStands
<1>10. Works(i)' /\ InSync(i)' => Agrees(own'[i], Replayed)
  BY <1>2, StillAgrees
<1>11. attempts' \in Nat /\ attempts' >= attempts
  BY <1>2, <1>3
<1> QED
  BY <1>2, <1>3, <1>4, <1>8, <1>9, <1>10, <1>11, HistoryKept

\* The second load changes the place of the record only.
LEMMA ReloadFits ==
  ASSUME OwnerInv, HistoryInv, NEW i \in Owners, Reload(i)
  PROVE  HistoryInv'
<1>1. SessionsStand /\ attempts \in Nat /\ pc[i] = "reload" /\ InFlight(i) /\ log' = log /\ attempts' = attempts
  BY DEF OwnerInv, SessionsStand, Reload, InFlight, storage
<1>2. Prepared(i, prop[i].rec) /\ own[i].up
  BY <1>1 DEF OwnerInv, ProposalsStand, OfRestart
<1>3. CASE ~InSync(i)
  <2>1. /\ pc'[i] = "idle" /\ own'[i] = [own[i] EXCEPT !.poisoned = TRUE]
        /\ \A m \in Owners \ {i} : pc'[m] = pc[m] /\ own'[m] = own[m] /\ prop'[m] = prop[m]
    BY <1>1, <1>3 DEF Reload, SessionsStand
  <2>2. IsSession(own[i])
    BY <1>1 DEF SessionsStand
  <2>3. ~Works(i)'
    BY <2>1, <2>2, PoisonedSession DEF Works
  <2> QED
    BY <1>1, <2>1, <2>3, EndsFit
<1>4. CASE InSync(i)
  <2> DEFINE r == prop[i].rec
             f == [r EXCEPT !.parent = Replayed.tip]
  <2>1. own' = own /\ prop' = [prop EXCEPT ![i].rec.parent = Replayed.tip] /\ pc' = [pc EXCEPT ![i] = "commit"]
    BY <1>4 DEF Reload
  <2>2. IsRecord(r) /\ DOMAIN prop[i] = {"rec", "bytes"}
    BY <1>2 DEF Prepared
  <2>3. /\ pc'[i] = "commit" /\ prop'[i].rec = f /\ prop'[i].bytes = prop[i].bytes
        /\ \A m \in Owners \ {i} : pc'[m] = pc[m] /\ own'[m] = own[m] /\ prop'[m] = prop[m]
    BY <1>1, <2>1, <2>2 DEF SessionsStand
  <2>4. Alike(r, f) /\ f.fp = r.fp
    BY <2>2 DEF IsRecord, Alike
  <2>5. PlanStands(i, r) /\ CommitStands(i, r)
    BY <1>1 DEF HistoryInv, PlansStand
  <2> HIDE DEF r, f
  <2>6. Outcome(i)' = Outcome(i) /\ TargetOf(f) = TargetOf(r)
    BY <1>2, <2>1, <2>3, <2>4, AlikePublished DEF Outcome, r
  <2>7. Replayed' = Replayed /\ Last' = Last
    BY <1>1, SameStream
  <2>8. PlanStands(i, prop[i].rec)'
    BY <1>1, <2>1, <2>3, <2>4, <2>5, <2>6 DEF PlanStands, Alike
  <2>9. TargetOf(f) \in Known(Replayed) \cup {NoCommit} =>
           /\ Follows(Replayed, f) /\ Agrees(Outcome(i), After(Replayed, f))
           /\ f.rev = RevAfter(Replayed, f, own[i].rev)
    <3>1. TargetOf(r) \in Known(Replayed) \cup {NoCommit} =>
             /\ Follows(Replayed, r) /\ Agrees(Outcome(i), After(Replayed, r))
             /\ r.rev = RevAfter(Replayed, r, own[i].rev)
      BY <1>1, <1>2, <1>4, <2>5 DEF CommitStands
    <3>2. f.rev = r.rev /\ RevAfter(Replayed, f, own[i].rev) = RevAfter(Replayed, r, own[i].rev)
      BY <2>4, AlikeRevision DEF Alike
    <3> QED
      BY <2>4, <2>6, <3>1, <3>2, AlikeFollows, AlikeAfter
  <2>10. log # << >> /\ Last.id = f.id => Agrees(Outcome(i), Replayed)
    BY <2>4, <2>5 DEF CommitStands, Alike
  <2>11. CommitStands(i, prop[i].rec)'
    BY <1>1, <2>1, <2>3, <2>6, <2>7, <2>9, <2>10 DEF CommitStands
  <2>12. Works(i)' /\ InSync(i)' => Agrees(own'[i], Replayed)
    BY <1>1, <2>1, StillAgrees
  <2>13. attempts' \in Nat /\ attempts' >= attempts
    BY <1>1
  <2> QED
    BY <1>1, <2>3, <2>8, <2>11, <2>12, <2>13, HistoryKept
<1> QED
  BY <1>3, <1>4

LEMMA RetryFits ==
  ASSUME OwnerInv, HistoryInv, NEW i \in Owners, NEW q, Retry(i, q)
  PROVE  HistoryInv'
<1>1. log' = log /\ attempts' = attempts /\ own' = own /\ pc' = pc /\ prop' = prop /\ pc'[i] = "idle"
  BY DEF Retry, Usable
<1>2. Works(i)' /\ InSync(i)' => Agrees(own'[i], Replayed)
  BY <1>1, StillAgrees
<1> QED
  BY <1>1, <1>2, EndsFit

-----------------------------------------------------------------------------
(* Publication.                                                            *)

\* An operation that publishes at the revision of the last record publishes
\* that record.
LEMMA PublishesTheLast ==
  ASSUME OwnerInv, NEW i \in Owners, pc[i] = "publish", log # << >>,
         got[i] = prop[i].rec.id \/ (own[i].up /\ prop[i].rec.kind = "CatalogDiscard"),
         prop[i].rec.rev = Last.rev
  PROVE  Last.id = prop[i].rec.id
<1> DEFINE r == prop[i].rec
<1>1. InFlight(i) /\ StreamStands /\ Prepared(i, r)
  BY DEF OwnerInv, ProposalsStand, InFlight
<1>2. PICK k \in SameInput(i) : got[i] = log[k].id
  BY <1>1 DEF Prepared
<1>3. Position(i) # {} /\ k \in DOMAIN log
  BY <1>2 DEF SameInput, Position
<1>4. Last.by = i => Last.id = r.id
  BY <1>1, <1>3 DEF OwnerInv, NothingSlippedIn
<1>5. ~Passed(Last.rev)
  BY <1>1, Replay DEF Passed, Revisions
<1>6. CASE got[i] = r.id
  BY <1>1, <1>2, <1>3, <1>5, <1>6 DEF OwnerInv, NothingSlippedIn, Last
<1>7. CASE own[i].up /\ r.kind = "CatalogDiscard"
  <2>1. ~own[i].poisoned /\ r.rev = own[i].rev
    BY <1>1, <1>7 DEF OwnerInv, ProposalsStand, OfOperation
  <2>2. ~Apart(i)
    BY DEF Apart
  <2>3. Last.by = i
    BY <1>1, <1>5, <1>7, <2>1, <2>2 DEF OwnerInv, LastOwnerHolds, Works
  <2> QED
    BY <1>4, <2>3
<1> QED
  BY <1>6, <1>7

LEMMA PublishFits ==
  ASSUME OwnerInv, HistoryInv, NEW i \in Owners, Publish(i)
  PROVE  HistoryInv'
<1> DEFINE r == prop[i].rec
           o == Published(own[i], r, prop[i].bytes)
           p == [own[i] EXCEPT !.poisoned = TRUE]
<1>1. /\ pc[i] = "publish" /\ InFlight(i) /\ own[i].up /\ attempts' = attempts
      /\ got[i] = r.id \/ r.kind = "CatalogDiscard"
      /\ \/ o.rev = r.rev /\ o.gen = r.gen /\ TellOutcome(i) /\ Finish(i, o)
         \/ Finish(i, p) /\ UNCHANGED storage
  BY DEF Publish, InFlight
<1>2. CASE Finish(i, p) /\ UNCHANGED storage
  BY <1>1, <1>2, FinishFits DEF storage
<1>3. CASE o.rev = r.rev /\ o.gen = r.gen /\ TellOutcome(i) /\ Finish(i, o)
  <2>1. SessionsStand /\ StreamStands /\ log' = log
    BY <1>3 DEF OwnerInv, TellOutcome
  <2>2. o = Outcome(i) /\ CommitStands(i, r)
    BY <1>1 DEF Outcome, HistoryInv, PlansStand
  <2>3. o.rev = r.rev /\ Finish(i, o)
    BY <1>3
  <2> HIDE DEF o
  <2>4. /\ pc'[i] = "idle" /\ own'[i] = o
        /\ \A m \in Owners \ {i} : pc'[m] = pc[m] /\ own'[m] = own[m] /\ prop'[m] = prop[m]
    BY <1>1, <2>1, <2>3, Finishing
  <2>5. log # << >>
    <3>1. PICK k \in SameInput(i) : got[i] = log[k].id
      BY <1>1 DEF OwnerInv, ProposalsStand, Prepared
    <3> QED
      BY <3>1 DEF SameInput, Position
  <2>6. ASSUME InSync(i)' PROVE Agrees(own'[i], Replayed)
    <3>1. o.rev = Replayed.rev /\ Replayed.rev = Last.rev
      BY <2>1, <2>4, <2>5, <2>6, SameStream, Replay DEF InSync
    <3>2. Last.id = r.id
      BY <1>1, <2>3, <2>5, <3>1, PublishesTheLast
    <3> QED
      BY <2>2, <2>4, <2>5, <3>2 DEF CommitStands
  <2> QED
    BY <1>1, <2>1, <2>4, <2>6, EndsFit
<1> QED
  BY <1>1, <1>2, <1>3

LEMMA RecoveredFits ==
  ASSUME OwnerInv, HistoryInv, NEW i \in Owners, Recovered(i)
  PROVE  HistoryInv'
<1> DEFINE r == prop[i].rec
           o == prop[i].bytes
<1>1. /\ pc[i] = "publish" /\ InFlight(i) /\ ~own[i].up /\ attempts' = attempts /\ log' = log
  BY DEF Recovered, InFlight, storage
<1>2. Prepared(i, r) /\ OfRestart(i, r) /\ SessionsStand /\ StreamStands /\ CommitStands(i, r)
  BY <1>1 DEF OwnerInv, ProposalsStand, HistoryInv, PlansStand
<1>3. /\ pc'[i] = "idle" /\ own'[i] = o
      /\ \A m \in Owners \ {i} : pc'[m] = pc[m] /\ own'[m] = own[m] /\ prop'[m] = prop[m]
  BY <1>2 DEF Recovered, SessionsStand
<1>4. PICK k \in SameInput(i) : got[i] = log[k].id /\ k \in DOMAIN log
  BY <1>1, <1>2 DEF Prepared, SameInput, Position
<1>5. got[i] = r.id
  <2>1. log[k].req = r.id /\ log[k].req \in Requests \cup {log[k].id}
    BY <1>2, <1>4 DEF OfRestart, SameInput, Position, StreamStands
  <2>2. r.id \in Nat
    BY <1>2 DEF Prepared, SessionsStand
  <2> QED
    BY <1>4, <2>1, <2>2, OwnerBounds
<1>6. log # << >> /\ o = Outcome(i) /\ o.rev = r.rev
  BY <1>1, <1>2, <1>4 DEF Outcome, OfRestart
<1> HIDE DEF o, r
<1>7. ASSUME InSync(i)' PROVE Agrees(own'[i], Replayed)
  <2>1. o.rev = Replayed.rev /\ Replayed.rev = Last.rev
    BY <1>1, <1>2, <1>3, <1>6, <1>7, SameStream, Replay DEF InSync
  <2>2. Last.id = r.id
    BY <1>1, <1>5, <1>6, <2>1, PublishesTheLast DEF r
  <2> QED
    BY <1>2, <1>3, <1>6, <2>2 DEF CommitStands
<1> QED
  BY <1>1, <1>3, <1>7, EndsFit

-----------------------------------------------------------------------------
(* The stream grows and is cut.                                            *)

\* A record stands as long as those before it do.
LEMMA RecordsKept ==
  ASSUME RecordsStand, NEW k \in Nat, 1..k \subseteq DOMAIN log, k > 0, attempts' = attempts,
         \A j \in 1..k : log'[j] = log[j]
  PROVE  LET h == log'[k].post
         IN  /\ HistoryStands(h)
             /\ \A c \in Known(h) : \E j \in 1..k : log'[j].id = c
             /\ h.catalog \subseteq 1..attempts'
             /\ h.gen = Cardinality({j \in 1..k : log'[j].kind \in CatalogKinds})
<1> DEFINE h == log[k].post
<1>1. k \in 1..k
  OBVIOUS
<1>2. /\ HistoryStands(h) /\ (\A c \in Known(h) : \E j \in 1..k : log[j].id = c)
      /\ h.catalog \subseteq 1..attempts
      /\ h.gen = Cardinality({j \in 1..k : log[j].kind \in CatalogKinds})
  BY <1>1 DEF RecordsStand
<1>3. log'[k].post = h
  BY <1>1
<1> HIDE DEF h
<1>4. {j \in 1..k : log'[j].kind \in CatalogKinds} = {j \in 1..k : log[j].kind \in CatalogKinds}
  OBVIOUS
<1>5. \A c \in Known(h) : \E j \in 1..k : log'[j].id = c
  BY <1>2
<1> QED
  BY <1>2, <1>3, <1>4, <1>5

\* The generation counts the catalog records.
LEMMA GenerationCounts ==
  ASSUME StreamStands, RecordsStand
  PROVE  /\ Replayed.gen = Cardinality({j \in 1..Len(log) : log[j].kind \in CatalogKinds})
         /\ IsFiniteSet({j \in 1..Len(log) : log[j].kind \in CatalogKinds})
<1> DEFINE S == {j \in 1..Len(log) : log[j].kind \in CatalogKinds}
<1>1. Len(log) \in Nat /\ DOMAIN log = 1..Len(log)
  BY Replay
<1>2. IsFiniteSet(1..Len(log)) /\ S \subseteq 1..Len(log)
  BY <1>1, FS_Interval
<1>3. IsFiniteSet(S)
  BY <1>2, FS_Subset
<1>4. CASE log = << >>
  <2>1. S = {} /\ Replayed.gen = 0
    BY <1>4 DEF Replayed, Empty
  <2> HIDE DEF S
  <2> QED
    BY <1>3, <2>1, FS_EmptySet DEF S
<1>5. CASE log # << >>
  BY <1>3, <1>5, Replay DEF RecordsStand, Last
<1> QED
  BY <1>4, <1>5

\* What replay reaches with the record appended.
LEMMA AppendedStands ==
  ASSUME OwnerInv, HistoryInv, NEW i \in Owners, CommitAppend(i)
  PROVE  RecordsStand'
<1> DEFINE r == prop[i].rec
           e == Stamped(r)
           h == Replayed
           g == After(h, r)
           n == Len(log)
<1>1. /\ Prepared(i, r) /\ Follows(h, r) /\ attempts' = attempts /\ prop' = prop
      /\ n \in Nat /\ DOMAIN log = 1..n /\ DOMAIN log' = 1..(n + 1)
      /\ \A k \in DOMAIN log : log'[k] = log[k] /\ log[k].id # r.id
      /\ log'[n + 1] = e /\ InFlight(i)
  BY AppendFacts DEF Accepts
<1>2. StreamStands /\ RecordsStand /\ PlanStands(i, r)
  BY <1>1 DEF OwnerInv, HistoryInv, PlansStand
<1>3. e.id = r.id /\ e.kind = r.kind /\ e.post = g
  BY <1>1 DEF Stamped, Prepared, IsRecord
<1>4. /\ HistoryStands(h) /\ (h = Empty \/ h.rev \in Revisions) /\ attempts \in Nat
      /\ h.catalog \subseteq 1..attempts
      /\ \A c \in Known(h) : \E k \in DOMAIN log : log[k].id = c
  BY ReplayedStands
<1>5. Sound(h, r)
  <2>1. r.rev \in Revisions /\ r.id \in Nat
    BY <1>1, <1>4 DEF Prepared
  <2>2. r.publishes => r.hparent \in {NoCommit} \cup 1..(r.id - 1)
    BY <1>2 DEF PlanStands
  <2> HIDE DEF r, h
  <2> QED
    BY <1>1, <1>4, <2>1, <2>2 DEF Sound
<1> HIDE DEF h, r, e, n
<1>6. HistoryStands(g)
  BY <1>1, <1>4, <1>5, AfterStands
<1>7. \A c \in Known(g) : \E k \in 1..(n + 1) : log'[k].id = c
  <2> SUFFICES ASSUME NEW c \in Known(g) PROVE \E k \in 1..(n + 1) : log'[k].id = c
    OBVIOUS
  <2>1. Known(g) = Known(h) \cup (IF r.publishes THEN {r.id} ELSE {})
    BY <1>1, <1>4, <1>5, AfterKnows
  <2>2. CASE c \in Known(h)
    <3>1. PICK k \in DOMAIN log : log[k].id = c
      BY <1>4, <2>2
    <3>2. k \in 1..(n + 1) /\ log'[k].id = c
      BY <1>1, <3>1
    <3> QED
      BY <3>2
  <2>3. CASE c = r.id
    <3>1. n + 1 \in 1..(n + 1) /\ log'[n + 1].id = c
      BY <1>1, <1>3, <2>3
    <3> QED
      BY <3>1
  <2> QED
    BY <2>1, <2>2, <2>3
<1>8. g.catalog \subseteq 1..attempts'
  <2>1. g.catalog = CatalogAfter(h, r)
    BY AfterParts
  <2>2. r.kind = "CatalogStage" => r.item \in 1..attempts
    BY <1>2 DEF PlanStands
  <2> QED
    BY <1>1, <1>4, <2>1, <2>2 DEF CatalogAfter
<1>9. g.gen = Cardinality({j \in 1..(n + 1) : log'[j].kind \in CatalogKinds})
  <2> DEFINE S == {j \in 1..n : log[j].kind \in CatalogKinds}
             T == {j \in 1..(n + 1) : log'[j].kind \in CatalogKinds}
  <2>1. h.gen = Cardinality(S) /\ IsFiniteSet(S)
    BY <1>2, GenerationCounts DEF h, n
  <2>2. g.gen = h.gen + (IF r.kind \in CatalogKinds THEN 1 ELSE 0) /\ h.gen \in Nat
    BY <1>4, AfterParts DEF GenAfter, HistoryStands
  <2>3. n + 1 \notin S
    BY <1>1
  <2>4. T = S \cup (IF r.kind \in CatalogKinds THEN {n + 1} ELSE {})
    <3>1. \A j \in 1..n : log'[j] = log[j] /\ j \in 1..(n + 1)
      BY <1>1
    <3>2. \A j \in 1..(n + 1) : j \in 1..n \/ j = n + 1
      BY <1>1
    <3>3. n + 1 \in 1..(n + 1) /\ log'[n + 1].kind = r.kind
      BY <1>1, <1>3
    <3> QED
      BY <3>1, <3>2, <3>3
  <2> HIDE DEF S, T
  <2>5. CASE r.kind \in CatalogKinds
    <3>1. Cardinality(S \cup {n + 1}) = Cardinality(S) + 1
      BY <2>1, <2>3, FS_AddElement
    <3> QED
      BY <2>1, <2>2, <2>4, <2>5, <3>1 DEF T
  <2>6. CASE r.kind \notin CatalogKinds
    <3>1. T = S /\ g.gen = h.gen
      BY <2>2, <2>4, <2>6
    <3>2. g.gen = Cardinality(T)
      BY <2>1, <3>1
    <3> QED
      BY <3>2 DEF T
  <2> QED
    BY <2>5, <2>6
<1> HIDE DEF g
<1> SUFFICES ASSUME NEW k \in DOMAIN log'
             PROVE  LET x == log'[k].post
                    IN  /\ HistoryStands(x) /\ \A c \in Known(x) : \E j \in 1..k : log'[j].id = c
                        /\ x.catalog \subseteq 1..attempts'
                        /\ x.gen = Cardinality({j \in 1..k : log'[j].kind \in CatalogKinds})
  BY DEF RecordsStand
<1>10. CASE k = n + 1
  BY <1>1, <1>3, <1>6, <1>7, <1>8, <1>9, <1>10
<1>11. CASE k # n + 1
  <2>1. k \in Nat /\ k > 0 /\ 1..k \subseteq DOMAIN log
    BY <1>1, <1>11
  <2>2. \A j \in 1..k : log'[j] = log[j]
    BY <1>1, <2>1
  <2>3. attempts' = attempts /\ RecordsStand
    BY <1>1, <1>2
  <2> QED
    BY ONLY <2>1, <2>2, <2>3, RecordsKept
<1> QED
  BY <1>10, <1>11

\* Nobody else is in step with what was appended.
LEMMA OthersAreBehind ==
  ASSUME OwnerInv, OwnerInv', NEW i \in Owners, CommitAppend(i), NEW m \in Owners \ {i}, Works(m)
  PROVE  ~InSync(m)'
<1>1. /\ own' = own /\ log' # << >> /\ Last' = Stamped(prop[i].rec) /\ Prepared(i, prop[i].rec)
      /\ Accepts(Replayed, prop[i].rec)
  BY AppendFacts
<1>2. Last'.by = i
  BY <1>1, StampedFields DEF Prepared
<1>3. /\ Replayed'.rev \in Revisions /\ Replayed'.rev # NoRevision /\ Replayed'.rev.state \in Nat
  BY <1>1, AppendFacts, OwnerBounds, ZenonT(60) DEF Prepared, Revisions
<1>4. Works(m)'
  BY <1>1 DEF Works
<1>5. Passed(own[m].rev)' \/ Apart(m)'
  BY <1>1, <1>2, <1>4 DEF OwnerInv, LastOwnerHolds
<1>6. own'[m].rev # Replayed'.rev
  BY <1>3, <1>5 DEF Passed, Apart
<1> QED
  BY <1>3, <1>6 DEF InSync

\* A publication that reaches no new token changes nothing replay tells apart.
LEMMA SameTokenSameState ==
  ASSUME NEW o, IsSession(o), o.rev \in Revisions, o.gen \in Nat, NEW r, NEW b, NEW h,
         Published(o, r, b).rev = o.rev, Published(o, r, b).gen = o.gen, Agrees(Published(o, r, b), h)
  PROVE  Agrees(o, h)
<1> DEFINE p == Published(o, r, b)
           moves == r.publishes \/ b # NoBytes
           still == CatalogOnly(r) \/ (r.kind = "CalculationInvalidate" /\ o.stamp = "Dirty")
<1>1. /\ p.doc = IF r.publishes THEN Append(o.doc, r.id) ELSE IF moves THEN b ELSE o.doc
      /\ p.rev = IF moves THEN Bump(o.rev, 1, 1) ELSE IF still THEN o.rev ELSE Bump(o.rev, 0, 1)
      /\ p.stamp = CASE moves /\ ~(r.publishes /\ r.preserve) -> "Dirty"
                     [] r.kind = "CalculationInvalidate"      -> "Dirty"
                     [] r.kind = "CalculationPublish"         -> "Current"
                     [] OTHER                                 -> o.stamp
      /\ p.staged = CASE r.kind = "CatalogStage" -> Put(o.staged, r.item, r.before)
                      [] r.kind \in {"CatalogDiscard", "StageApply"} -> Drop(o.staged, r.item)
                      [] OTHER -> o.staged
      /\ p.gen = IF r.kind \in CatalogKinds THEN o.gen + 1 ELSE o.gen
  BY PublishedFields
<1>2. p.rev = o.rev /\ p.gen = o.gen /\ Agrees(p, h)
  OBVIOUS
<1>3. Bump(o.rev, 1, 1) # o.rev /\ Bump(o.rev, 0, 1) # o.rev
  <2>1. Bump(o.rev, 1, 1).state = o.rev.state + 1 /\ Bump(o.rev, 0, 1).state = o.rev.state + 1
    <3>1. 0 \in 0..1 /\ 1 \in 0..1
      OBVIOUS
    <3> QED
      BY <3>1, Bumped
  <2>2. o.rev.state \in Nat
    BY DEF Revisions
  <2> QED
    BY ONLY <2>1, <2>2, SMT
<1> HIDE DEF p
<1>4. ~moves /\ still /\ r.kind \notin CatalogKinds
  BY <1>1, <1>2, <1>3
<1>5. p.doc = o.doc
  BY <1>1, <1>4
<1>6. p.staged = o.staged
  BY <1>1, <1>4 DEF CatalogKinds
<1>7. r.kind \in Receipts \/ (r.kind = "CalculationInvalidate" /\ o.stamp = "Dirty")
  BY <1>4 DEF CatalogOnly, CatalogKinds
<1>8. p.stamp = o.stamp
  BY <1>1, <1>4, <1>7 DEF Receipts
<1> QED
  BY <1>2, <1>5, <1>6, <1>8 DEF Agrees

LEMMA CommitAppendFits ==
  ASSUME OwnerInv, HistoryInv, OwnerInv', NEW i \in Owners, CommitAppend(i)
  PROVE  HistoryInv'
<1> DEFINE r == prop[i].rec
           h == Replayed
<1>1. /\ pc[i] = "commit" /\ InFlight(i) /\ Prepared(i, r) /\ Accepts(h, r)
      /\ own' = own /\ prop' = prop /\ attempts' = attempts /\ pc'[i] = "barrier"
      /\ \A m \in Owners \ {i} : pc'[m] = pc[m]
      /\ r.parent = h.tip /\ \A k \in DOMAIN log : log[k].id # r.id
      /\ Last' = Stamped(r) /\ Replayed' = Stamped(r).post /\ Replayed'.tip = r.id /\ log' # << >>
  BY AppendFacts
<1>2. Follows(h, r)
  BY <1>1 DEF Accepts
<1>3. Stamped(r).post = After(h, r) /\ Stamped(r).id = r.id
  BY <1>1 DEF Stamped, Prepared, IsRecord
<1>4. PlanStands(i, r) /\ CommitStands(i, r)
  BY <1>1 DEF HistoryInv, PlansStand
<1>5. own[i].up => InSync(i) /\ ~own[i].poisoned
  BY <1>1 DEF OwnerInv, NothingSlippedIn, ProposalsStand, OfOperation
<1>6. Agrees(Outcome(i), Replayed')
  <2>1. TargetOf(r) \in Known(h) \cup {NoCommit}
    BY <1>2 DEF Follows, Permits, TargetOf
  <2> QED
    BY <1>1, <1>3, <1>4, <1>5, <2>1 DEF CommitStands
<1>7. RecordsStand'
  BY AppendedStands
<1>8. PlansStand'
  <2> SUFFICES ASSUME NEW m \in Owners, InFlight(m)'
               PROVE  PlanStands(m, prop[m].rec)' /\ CommitStands(m, prop[m].rec)'
    BY DEF PlansStand
  <2>1. Outcome(m)' = Outcome(m)
    BY <1>1 DEF Outcome
  <2>2. CASE m = i
    <3>1. PlanStands(m, prop[m].rec)'
      BY <1>1, <1>4, <2>1, <2>2 DEF PlanStands
    <3>2. CommitStands(m, prop[m].rec)'
      BY <1>1, <1>6, <2>1, <2>2 DEF CommitStands
    <3> QED
      BY <3>1, <3>2
  <2>3. CASE m # i
    <3>1. InFlight(m) /\ pc'[m] = pc[m]
      BY <1>1, <2>3 DEF InFlight
    <3>2. /\ PlanStands(m, prop[m].rec) /\ Prepared(m, prop[m].rec)
          /\ IF own[m].up THEN OfOperation(m, prop[m].rec) ELSE OfRestart(m, prop[m].rec)
      BY <3>1 DEF HistoryInv, PlansStand, OwnerInv, ProposalsStand
    <3>3. PlanStands(m, prop[m].rec)'
      BY <1>1, <2>1, <3>2 DEF PlanStands
    <3>4. Last'.id # prop[m].rec.id
      BY <1>1, <1>3, <2>3, <3>1 DEF Prepared
    <3>5. own[m].up => ~InSync(m)'
      BY <2>3, <3>2, OthersAreBehind DEF Works, OfOperation
    <3>6. ~own[m].up /\ pc[m] \in {"reload", "commit"} => prop[m].rec.parent # Replayed'.tip
      <4>1. Replayed'.tip = r.id /\ r.id \in Nat
        <5>1. attempts \in Nat /\ r.id \in 1..attempts
          BY <1>1 DEF Prepared, OwnerInv, SessionsStand
        <5> QED
          BY <1>1, <5>1
      <4>2. ~own[m].up /\ pc[m] \in {"reload", "commit"} => prop[m].rec.parent \in Log!IdsOf(log) \cup {NoCommit}
        BY <3>2 DEF OfRestart, Prepared
      <4>3. r.id \notin Log!IdsOf(log) \cup {NoCommit}
        BY <1>1, <4>1, OwnerBounds DEF Log!IdsOf
      <4> QED
        BY ONLY <4>1, <4>2, <4>3
    <3>7. CommitStands(m, prop[m].rec)'
      BY <1>1, <3>1, <3>4, <3>5, <3>6 DEF CommitStands
    <3> QED
      BY <3>3, <3>7
  <2> QED
    BY <2>2, <2>3
<1>9. InStepAgrees'
  <2> SUFFICES ASSUME NEW m \in Owners, Works(m)', InSync(m)' PROVE Agrees(own'[m], Replayed')
    BY DEF InStepAgrees
  <2>1. Works(m)
    BY <1>1 DEF Works
  <2>2. m = i
    BY <2>1, OthersAreBehind
  <2>3. own[i].up /\ InSync(i)
    BY <1>5, <2>1, <2>2 DEF Works
  <2>4. IsSession(own[i]) /\ own[i].rev \in Revisions /\ own[i].gen \in Nat
    BY <2>1, <2>2, <2>3, InStepFacts
  <2>5. own[i].rev = r.rev /\ own[i].gen = r.gen
    <3>1. Replayed'.rev = r.rev /\ Replayed'.gen = r.gen /\ r.rev \in Revisions
      BY <1>1, StampedFields DEF Prepared
    <3>2. Replayed'.rev # NoRevision
      BY <3>1, OwnerBounds DEF Revisions
    <3> QED
      BY <1>1, <2>2, <3>1, <3>2 DEF InSync
  <2>6. Outcome(i).rev = r.rev /\ Outcome(i).gen = r.gen /\ Outcome(i) = Published(own[i], r, prop[i].bytes)
    BY <1>4, <2>3 DEF PlanStands, Outcome
  <2>7. Agrees(own[i], Replayed')
    BY <1>6, <2>4, <2>5, <2>6, SameTokenSameState
  <2> QED
    BY <1>1, <2>2, <2>7
<1> QED
  BY <1>7, <1>8, <1>9 DEF HistoryInv

LEMMA PowerLossFits ==
  ASSUME OwnerInv, HistoryInv, PowerLoss
  PROVE  HistoryInv'
<1>1. PICK n \in 0..Len(log) : log' = SubSeq(log, 1, n)
  BY DEF PowerLoss, Log!Lose
<1>2. own' = [i \in Owners |-> Down] /\ pc' = [i \in Owners |-> "idle"] /\ attempts' = attempts
  BY DEF PowerLoss
<1>3. StreamStands /\ RecordsStand
  BY DEF OwnerInv, HistoryInv
<1>4. log \in Seq({log[k] : k \in DOMAIN log})
  BY <1>3 DEF StreamStands
<1>5. n \in 0..Len(log) /\ log' = SubSeq(log, 1, n)
  BY <1>1
<1>6. /\ Len(log') = n /\ DOMAIN log' = 1..n /\ DOMAIN log = 1..Len(log) /\ \A k \in 1..n : log'[k] = log[k]
  BY ONLY <1>4, <1>5, Prefixing, SMT
<1>7. n \in Nat /\ 1..n \subseteq DOMAIN log
  BY <1>3, <1>6, Replay
<1>8. RecordsStand'
  <2> SUFFICES ASSUME NEW k \in DOMAIN log'
               PROVE  LET x == log'[k].post
                      IN  /\ HistoryStands(x) /\ \A c \in Known(x) : \E j \in 1..k : log'[j].id = c
                          /\ x.catalog \subseteq 1..attempts'
                          /\ x.gen = Cardinality({j \in 1..k : log'[j].kind \in CatalogKinds})
    BY DEF RecordsStand
  <2>1. k \in Nat /\ k > 0 /\ k <= n
    BY <1>6, <1>7
  <2>2. 1..k \subseteq 1..n
    BY <1>7, <2>1
  <2>3. 1..k \subseteq DOMAIN log /\ \A j \in 1..k : log'[j] = log[j]
    BY <1>6, <1>7, <2>2
  <2> QED
    BY ONLY <1>2, <1>3, <2>1, <2>3, RecordsKept
<1>9. \A i \in Owners : ~InFlight(i)' /\ ~Works(i)'
  BY <1>2, DownIsSession DEF InFlight, Works
<1> QED
  BY <1>8, <1>9 DEF HistoryInv, PlansStand, InStepAgrees

-----------------------------------------------------------------------------
LEMMA HistoryInit == Init => HistoryInv
<1> SUFFICES ASSUME Init PROVE HistoryInv
  OBVIOUS
<1>1. log = << >> /\ pc = [i \in Owners |-> "idle"] /\ own = [i \in Owners |-> Down]
  BY DEF Init, Log!Init
<1>2. DOMAIN log = {}
  BY <1>1
<1>3. \A i \in Owners : ~InFlight(i) /\ ~Works(i)
  BY <1>1, DownIsSession DEF InFlight, Works
<1> QED
  BY <1>2, <1>3 DEF HistoryInv, RecordsStand, PlansStand, InStepAgrees

LEMMA HistoryNext == OwnerInv /\ OwnerInv' /\ HistoryInv /\ [Next]_vars => HistoryInv'
<1> SUFFICES ASSUME OwnerInv, OwnerInv', HistoryInv, [Next]_vars PROVE HistoryInv'
  OBVIOUS
<1>1. ASSUME NEW i \in Owners, NEW q \in Requests, Operation(i, q) PROVE HistoryInv'
  BY <1>1, WriteFits, StageFits, ApplyFits, DiscardFits, ControlFitsHistory, PoisonFits,
     CheckoutFits, CreateBranchFits, SwitchBranchFits, UndoFits, RedoFits, LifecycleFits, RetryFits DEF Operation
<1>2. ASSUME NEW i \in Owners, Continue(i) PROVE HistoryInv'
  BY <1>2, ReloadFits, CommitAppendFits, AnswerFits, ErrorsFit, PublishFits, RecoveredFits DEF Continue
<1>3. ASSUME NEW i \in Owners, StaleWrite(i) \/ RecoverIdle(i) \/ Recover(i) \/ Leave(i) PROVE HistoryInv'
  BY <1>3, PoisonFits, RecoverIdleFits, RecoverFits, LeaveFits
<1>4. CASE PowerLoss
  BY <1>4, PowerLossFits
<1>5. CASE UNCHANGED vars
  <2>1. log' = log /\ own' = own /\ pc' = pc /\ prop' = prop /\ attempts' = attempts
    BY <1>5 DEF vars, storage
  <2>2. RecordsStand'
    BY <2>1 DEF HistoryInv, RecordsStand
  <2>3. Replayed' = Replayed /\ Last' = Last /\ \A i : InSync(i)' <=> InSync(i)
    BY <2>1, SameStream
  <2>4. InStepAgrees'
    BY <2>1, <2>3 DEF HistoryInv, InStepAgrees, Works
  <2>5. PlansStand'
    <3> SUFFICES ASSUME NEW i \in Owners, InFlight(i)'
                 PROVE  PlanStands(i, prop[i].rec)' /\ CommitStands(i, prop[i].rec)'
      BY DEF PlansStand
    <3>1. Outcome(i)' = Outcome(i)
      BY <2>1 DEF Outcome
    <3>2. PlanStands(i, prop[i].rec) /\ CommitStands(i, prop[i].rec)
      BY <2>1 DEF HistoryInv, PlansStand, InFlight
    <3>3. PlanStands(i, prop[i].rec)'
      BY <2>1, <3>1, <3>2 DEF PlanStands
    <3>4. CommitStands(i, prop[i].rec)'
      BY <2>1, <2>3, <3>1, <3>2 DEF CommitStands
    <3> QED
      BY <3>3, <3>4
  <2> QED
    BY <2>2, <2>4, <2>5 DEF HistoryInv
<1> QED
  BY <1>1, <1>2, <1>3, <1>4, <1>5 DEF Next

\* What replay derives from the stream is sound after every record, and every
\* prepared record and every session in step fits it, whichever owners compete,
\* crash and recover (PortableHistoryState::replay, commit_durable).
THEOREM HistoryInvariant == Spec => [](OwnerInv /\ HistoryInv)
<1>1. Init => OwnerInv /\ HistoryInv
  BY OwnerInit, HistoryInit
<1>2. OwnerInv /\ HistoryInv /\ [Next]_vars => OwnerInv' /\ HistoryInv'
  BY OwnerNext, HistoryNext
<1> QED
  BY <1>1, <1>2, PTL DEF Spec

\* The two numbers every durable operation compares with the stream are enough:
\* an owner that passes the test holds the document, the staged changes and the
\* calculation status that replay derives from the stream.
THEOREM TokenChecked == Spec => []TokenCheckSuffices
<1>1. HistoryInv => TokenCheckSuffices
  BY DEF HistoryInv, InStepAgrees, TokenCheckSuffices, Usable, Works
<1> QED
  BY <1>1, HistoryInvariant, PTL

\* What an owner predicts is what happens: the storage accepts a record whose
\* parent is still the last commit, and its publication in memory reaches the
\* committed revision and generation ("durable publication invariant failed"
\* and "history publication revision mismatch" are never returned).
THEOREM PredictionsTrue == Spec => []PredictionsHold
<1>1. OwnerInv /\ HistoryInv => PredictionsHold
  <2> SUFFICES ASSUME OwnerInv, HistoryInv, NEW i \in Owners
               PROVE  /\ /\ pc[i] = "commit"
                         /\ prop[i].rec.parent = Replayed.tip
                         /\ TargetOf(prop[i].rec) \in Known(Replayed) \cup {NoCommit}
                         => Accepts(Replayed, prop[i].rec)
                      /\ pc[i] = "publish" /\ own[i].up /\ got[i] = prop[i].rec.id =>
                            LET o == Published(own[i], prop[i].rec, prop[i].bytes)
                            IN  o.rev = prop[i].rec.rev /\ o.gen = prop[i].rec.gen
    BY DEF PredictionsHold
  <2>1. InFlight(i) => PlanStands(i, prop[i].rec) /\ CommitStands(i, prop[i].rec)
    BY DEF HistoryInv, PlansStand
  <2>2. ASSUME pc[i] = "commit", prop[i].rec.parent = Replayed.tip,
               TargetOf(prop[i].rec) \in Known(Replayed) \cup {NoCommit}
        PROVE  Accepts(Replayed, prop[i].rec)
    <3>1. InFlight(i)
      BY <2>2 DEF InFlight
    <3>2. own[i].up => InSync(i)
      BY <2>2, <3>1 DEF OwnerInv, NothingSlippedIn
    <3>3. Follows(Replayed, prop[i].rec)
      BY <2>1, <2>2, <3>1, <3>2 DEF CommitStands
    <3> QED
      BY <2>2, <3>3 DEF Accepts
  <2>3. ASSUME pc[i] = "publish", own[i].up
        PROVE  LET o == Published(own[i], prop[i].rec, prop[i].bytes)
               IN  o.rev = prop[i].rec.rev /\ o.gen = prop[i].rec.gen
    BY <2>1, <2>3 DEF InFlight, PlanStands, Outcome
  <2> QED
    BY <2>2, <2>3
<1> QED
  BY <1>1, HistoryInvariant, PTL

\* The history stays navigable: undo, redo, checkout, branches and checkpoints
\* always lead to commits that carry a document, and redo leads back to where
\* undo left the selected branch (redo_target, active_ancestry).
THEOREM Navigable == Spec => []HistoryNavigable
<1>1. OwnerInv /\ HistoryInv => HistoryNavigable
  <2> SUFFICES ASSUME OwnerInv, HistoryInv PROVE HistoryNavigable
    OBVIOUS
  <2> DEFINE h == Replayed
             points == {h.head} \cup {h.branches[b] : b \in DOMAIN h.branches}
                         \cup {h.checkpoints[c] : c \in DOMAIN h.checkpoints}
  <2>1. HistoryStands(h)
    BY ReplayedStands
  <2> HIDE DEF h
  <2>2. points \subseteq Known(h) \cup {NoCommit} /\ h.branch \in DOMAIN h.branches
    BY <2>1 DEF HistoryStands
  <2>3. h.head \in OnLineage(h, h.branches[h.branch]) => RedoTarget([h EXCEPT !.head = ParentOfHead(h)]) = h.head
    BY <2>1, RedoUndoes
  <2> QED
    BY <2>2, <2>3 DEF HistoryNavigable, h
<1> QED
  BY <1>1, HistoryInvariant, PTL

-----------------------------------------------------------------------------
(* What clients have seen.                                                 *)

\* The state before the first record.
LEMMA BaseParts ==
  ASSUME NEW e
  PROVE  LET h == StateAt(e, 0) IN
         /\ h.rev = [epoch |-> e, doc |-> 0, state |-> 0] /\ h.gen = 0 /\ h.head = NoCommit
         /\ h.catalog = {} /\ h.calc = FALSE /\ h.discarded = FALSE /\ h.parents = << >> /\ Known(h) = {}
         /\ h.branch = Empty.branch /\ h.branches = Empty.branches /\ h.checkpoints = Empty.checkpoints
         /\ h.seen = Empty.seen
BY DEF StateAt, Empty, Known

\* The base belongs to its epoch and has no state of its own yet.
LEMMA BaseEpoch ==
  ASSUME NEW e
  PROVE  StateAt(e, 0).rev.epoch = e /\ StateAt(e, 0).rev.state = 0
<1>1. StateAt(e, 0).rev = [epoch |-> e, doc |-> 0, state |-> 0]
  BY BaseParts
<1> QED
  BY <1>1

\* The first record leads where it would lead from the empty history.
LEMMA BaseAfter ==
  ASSUME NEW e, NEW r, NEW v
  PROVE  /\ After(StateAt(e, 0), r) = After(Empty, r)
         /\ RevAfter(StateAt(e, 0), r, v) = RevAfter(Empty, r, v)
<1> DEFINE h == StateAt(e, 0)
<1>1. /\ h.gen = Empty.gen /\ h.head = Empty.head /\ h.catalog = Empty.catalog /\ h.calc = Empty.calc
      /\ h.discarded = Empty.discarded /\ h.parents = Empty.parents
      /\ h.branch = Empty.branch /\ h.branches = Empty.branches /\ h.checkpoints = Empty.checkpoints
      /\ h.seen = Empty.seen
  BY BaseParts DEF Empty
<1> HIDE DEF h
<1>2. /\ HeadAfter(h, r) = HeadAfter(Empty, r) /\ BranchAfter(h, r) = BranchAfter(Empty, r)
      /\ BranchesAfter(h, r) = BranchesAfter(Empty, r)
  BY <1>1 DEF HeadAfter, BranchAfter, BranchesAfter, ParentOfHead
<1>3. /\ CheckpointsAfter(h, r) = CheckpointsAfter(Empty, r) /\ CatalogAfter(h, r) = CatalogAfter(Empty, r)
      /\ GenAfter(h, r) = GenAfter(Empty, r) /\ CalcAfter(h, r) = CalcAfter(Empty, r)
  BY <1>1 DEF CheckpointsAfter, CatalogAfter, GenAfter, CalcAfter
<1>4. After(h, r) = After(Empty, r)
  BY <1>1, <1>2, <1>3 DEF After
<1>5. RevAfter(h, r, v) = RevAfter(Empty, r, v)
  BY <1>1 DEF RevAfter, DocumentChange
<1> QED
  BY <1>4, <1>5 DEF h

\* The stream and what clients see of it do not depend on what comes later.
LEMMA SameStates ==
  ASSUME NEW n \in Nat, \A k \in 1..n : log'[k] = log[k]
  PROVE  \A e, k : k \in 0..n => /\ StateAt(e, k)' = StateAt(e, k) /\ StampAt(k)' = StampAt(k)
                                 /\ ViewAt(e, k)' = ViewAt(e, k) /\ Reattached(e, k)' = Reattached(e, k)
<1>1. \A e, k : k \in 0..n => StateAt(e, k)' = StateAt(e, k)
  BY DEF StateAt
<1>2. \A k : k \in 0..n => StampAt(k)' = StampAt(k)
  <2> SUFFICES ASSUME NEW k \in 0..n PROVE StampAt(k)' = StampAt(k)
    OBVIOUS
  <2>1. \A j \in 1..k : j \in 1..n /\ j - 1 \in 0..n
    OBVIOUS
  <2>2. \A j \in 1..k : Resets(StateAt(0, j - 1)', log'[j]) <=> Resets(StateAt(0, j - 1), log[j])
    BY <1>1, <2>1
  <2> QED
    BY <1>1, <2>2 DEF StampAt
<1>3. \A e, k : k \in 0..n => ViewAt(e, k)' = ViewAt(e, k)
  BY <1>1, <1>2 DEF ViewAt
<1> QED
  BY <1>1, <1>2, <1>3 DEF Reattached

\* The views of a record and of a discarded resource, part by part.
LEMMA ViewParts ==
  ASSUME NEW e, NEW k
  PROVE  LET h == StateAt(e, k)
             v == ViewAt(e, k)
             w == Reattached(e, k) IN
         /\ v.rev = h.rev /\ v.gen = h.gen /\ v.doc = Lineage(h, h.head) /\ v.staged = h.catalog /\ v.stamp = StampAt(k)
         /\ w.rev = Bump(h.rev, 0, 1) /\ w.gen = h.gen /\ w.doc = Lineage(h, h.head) /\ w.staged = h.catalog
         /\ w.stamp = "Dirty"
         /\ w = [rev |-> Bump(h.rev, 0, 1), gen |-> h.gen, doc |-> Lineage(h, h.head), staged |-> h.catalog,
                 stamp |-> "Dirty"]
<1> DEFINE h == StateAt(e, k)
           d == Lineage(h, h.head)
           s == StampAt(k)
           v == [rev |-> h.rev, gen |-> h.gen, doc |-> d, staged |-> h.catalog, stamp |-> s]
           u == Bump(h.rev, 0, 1)
<1>1. ViewAt(e, k) = v
  BY DEF ViewAt
<1>2. Reattached(e, k) = [v EXCEPT !.rev = u, !.stamp = "Dirty"]
  BY <1>1 DEF Reattached
<1> HIDE DEF h, d, s, u
<1>3. [v EXCEPT !.rev = u, !.stamp = "Dirty"]
        = [rev |-> u, gen |-> h.gen, doc |-> d, staged |-> h.catalog, stamp |-> "Dirty"]
  <2> DEFINE g == h.gen
             c == h.catalog
             w == [v EXCEPT !.rev = u, !.stamp = "Dirty"]
             z == [rev |-> u, gen |-> g, doc |-> d, staged |-> c, stamp |-> "Dirty"]
  <2> HIDE DEF g, c
  <2>1. /\ DOMAIN v = {"rev", "gen", "doc", "staged", "stamp"} /\ v.gen = g /\ v.doc = d /\ v.staged = c
    BY DEF g, c
  <2> HIDE DEF v
  <2>2. /\ DOMAIN w = {"rev", "gen", "doc", "staged", "stamp"}
        /\ w.rev = u /\ w.gen = g /\ w.doc = d /\ w.staged = c /\ w.stamp = "Dirty"
        /\ w = [f \in DOMAIN w |-> w[f]]
    BY <2>1
  <2>3. /\ DOMAIN z = {"rev", "gen", "doc", "staged", "stamp"}
        /\ z.rev = u /\ z.gen = g /\ z.doc = d /\ z.staged = c /\ z.stamp = "Dirty"
        /\ z = [f \in DOMAIN z |-> z[f]]
    OBVIOUS
  <2> HIDE DEF w, z
  <2>4. w = z
    BY <2>2, <2>3
  <2> QED
    BY <2>4 DEF w, z, g, c
<1>4. /\ v.rev = h.rev /\ v.gen = h.gen /\ v.doc = d /\ v.staged = h.catalog /\ v.stamp = s
  OBVIOUS
<1> HIDE DEF v
<1> QED
  BY <1>1, <1>2, <1>3, <1>4 DEF h, d, s, u

\* What a state in the stream is.
LEMMA StatesStand ==
  ASSUME OwnerInv, HistoryInv, NEW e \in Nat, NEW k \in 0..Len(log)
  PROVE  LET h == StateAt(e, k) IN
         /\ Rooted(h) /\ h.head \in Known(h) \cup {NoCommit} /\ h.gen \in Nat /\ h.calc \in BOOLEAN
         /\ h.rev \in Revisions /\ h.rev.epoch \in Nat /\ h.rev.state \in Nat
         /\ k > 0 => k \in DOMAIN log /\ h = log[k].post /\ h.rev = log[k].rev
         /\ \A c \in Known(h) : \E j \in 1..k : log[j].id = c
<1>1. StreamStands /\ RecordsStand /\ Len(log) \in Nat /\ DOMAIN log = 1..Len(log)
  BY Replay DEF OwnerInv, HistoryInv
<1>2. CASE k = 0
  <2> DEFINE h == StateAt(e, k)
  <2>1. /\ h.rev = [epoch |-> e, doc |-> 0, state |-> 0] /\ h.gen = 0 /\ h.head = NoCommit
        /\ h.calc = FALSE /\ Known(h) = {}
    BY <1>2, BaseParts
  <2> HIDE DEF h
  <2>2. h.rev \in Revisions /\ h.rev.epoch \in Nat /\ h.rev.state \in Nat
    BY <2>1 DEF Revisions
  <2>3. Rooted(h) /\ \A c \in Known(h) : \E j \in 1..k : log[j].id = c
    BY <2>1 DEF Rooted
  <2>4. ~(k > 0) /\ 0 \in Nat
    BY <1>2
  <2> QED
    BY <2>1, <2>2, <2>3, <2>4 DEF h
<1>3. CASE k > 0
  <2>1. k \in DOMAIN log /\ StateAt(e, k) = log[k].post
    BY <1>1, <1>3 DEF StateAt
  <2> DEFINE h == log[k].post
  <2>2. HistoryStands(h) /\ h.rev = log[k].rev /\ h.rev \in Revisions
    BY <1>1, <2>1 DEF RecordsStand, StreamStands
  <2>3. \A c \in Known(h) : \E j \in 1..k : log[j].id = c
    BY <1>1, <2>1 DEF RecordsStand
  <2> HIDE DEF h
  <2>4. Rooted(h) /\ h.head \in Known(h) \cup {NoCommit} /\ h.gen \in Nat /\ h.calc \in BOOLEAN
    BY <2>2, StandsIsRooted DEF HistoryStands
  <2>5. h.rev.epoch \in Nat /\ h.rev.state \in Nat
    BY <2>2 DEF Revisions
  <2> QED
    BY <2>1, <2>2, <2>3, <2>4, <2>5 DEF h
<1> QED
  BY <1>2, <1>3

\* What one record changes.
LEMMA StepChanges ==
  ASSUME NEW g, g.rev \in Revisions, NEW r, FollowsOn(g, r), r.id \notin Known(g)
  PROVE  LET h == r.post IN
         /\ h.rev = r.rev /\ h.rev.epoch = g.rev.epoch
         /\ h.rev.state = g.rev.state + (IF CatalogOnly(r) THEN 0 ELSE 1)
         /\ h.gen = g.gen + (IF r.kind \in CatalogKinds THEN 1 ELSE 0)
         /\ Extended(g, h)
         /\ CatalogOnly(r) => h.head = g.head /\ h.calc = g.calc /\ ~Resets(g, r)
         /\ r.kind \notin CatalogKinds => h.catalog = g.catalog
         /\ h.discarded <=> r.kind = "ResourceDiscard"
<1> DEFINE h == After(g, r)
<1>1. /\ r.post = h /\ r.rev = RevAfter(g, r, g.rev) /\ ~g.discarded
      /\ r.publishes => r.kind \in {"Mutation", "StageApply"}
  BY DEF FollowsOn
<1>2. /\ h.head = HeadAfter(g, r) /\ h.catalog = CatalogAfter(g, r) /\ h.gen = GenAfter(g, r)
      /\ h.rev = r.rev /\ h.calc = CalcAfter(g, r)
  BY AfterParts
<1>3. /\ h.parents = IF r.publishes THEN Put(g.parents, r.id, r.hparent) ELSE g.parents
      /\ h.discarded <=> g.discarded \/ r.kind = "ResourceDiscard"
  BY DEF After
<1> HIDE DEF h
<1>4. r.rev.epoch = g.rev.epoch /\ r.rev.state = g.rev.state + (IF CatalogOnly(r) THEN 0 ELSE 1)
  BY <1>1 DEF RevAfter
<1>5. h.gen = g.gen + (IF r.kind \in CatalogKinds THEN 1 ELSE 0)
  BY <1>2 DEF GenAfter
<1>6. Extended(g, h)
  BY <1>3 DEF Extended, Known, Put
<1>7. CatalogOnly(r) => h.head = g.head /\ h.calc = g.calc /\ ~Resets(g, r)
  <2> SUFFICES ASSUME CatalogOnly(r) PROVE h.head = g.head /\ h.calc = g.calc /\ ~Resets(g, r)
    OBVIOUS
  <2>1. ~r.publishes
    BY <1>1 DEF CatalogOnly, CatalogKinds, Receipts
  <2>2. r.kind \notin {"CalculationPublish", "CalculationInvalidate", "Restart", "Undo", "Redo", "Checkout", "BranchSwitch"}
    BY DEF CatalogOnly, CatalogKinds, Receipts
  <2>3. ~DocumentChange(g, r)
    BY <2>1, <2>2 DEF DocumentChange, HeadMoves
  <2> QED
    BY <1>2, <2>1, <2>2, <2>3 DEF HeadAfter, CalcAfter, HeadMoves, Resets
<1>8. r.kind \notin CatalogKinds => h.catalog = g.catalog
  BY <1>2 DEF CatalogAfter, CatalogKinds
<1> QED
  BY <1>1, <1>2, <1>3, <1>4, <1>5, <1>6, <1>7, <1>8

\* A discard changes nothing one sees, a restart what the session recovered
\* from a discarded resource has changed too.
LEMMA DiscardAndRestart ==
  ASSUME NEW g, g.rev \in Revisions, g.gen \in Nat, NEW r, FollowsOn(g, r), r.kind \in {"ResourceDiscard", "Restart"}
  PROVE  LET h == r.post IN
         /\ h.rev = (IF r.kind = "Restart" THEN Bump(g.rev, 0, 1) ELSE g.rev)
         /\ h.gen = g.gen /\ h.head = g.head /\ h.parents = g.parents /\ h.catalog = g.catalog
         /\ r.kind = "Restart" => h.calc = FALSE /\ Resets(g, r)
<1> DEFINE h == After(g, r)
<1>1. /\ r.post = h /\ r.rev = RevAfter(g, r, g.rev) /\ ~g.discarded
      /\ ~r.publishes
  BY DEF FollowsOn
<1>2. /\ h.head = HeadAfter(g, r) /\ h.catalog = CatalogAfter(g, r) /\ h.gen = GenAfter(g, r)
      /\ h.rev = r.rev /\ h.calc = CalcAfter(g, r)
  BY AfterParts
<1>3. h.parents = g.parents
  BY <1>1 DEF After
<1> HIDE DEF h
<1>4. h.head = g.head /\ h.catalog = g.catalog
  BY <1>1, <1>2 DEF HeadAfter, CatalogAfter
<1>5. h.gen = g.gen
  BY <1>2 DEF GenAfter, CatalogKinds
<1>6. r.kind = "Restart" => h.calc = FALSE /\ Resets(g, r)
  BY <1>2 DEF CalcAfter, Resets
<1>7. ~DocumentChange(g, r) /\ (CatalogOnly(r) <=> r.kind = "ResourceDiscard")
  BY <1>1 DEF DocumentChange, CatalogOnly, CatalogKinds, Receipts, HeadMoves
<1>8. r.rev = [epoch |-> g.rev.epoch, doc |-> g.rev.doc + 0, state |-> g.rev.state + (IF CatalogOnly(r) THEN 0 ELSE 1)]
  BY <1>1, <1>7 DEF RevAfter
<1>9. Bump(g.rev, 0, 1) = [epoch |-> g.rev.epoch, doc |-> g.rev.doc + 0, state |-> g.rev.state + 1]
  BY BumpedIs
<1>10. /\ g.rev = [epoch |-> g.rev.epoch, doc |-> g.rev.doc, state |-> g.rev.state]
       /\ g.rev.doc + 0 = g.rev.doc /\ g.rev.state + 0 = g.rev.state
  BY DEF Revisions
<1>11. h.rev = (IF r.kind = "Restart" THEN Bump(g.rev, 0, 1) ELSE g.rev)
  BY <1>2, <1>7, <1>8, <1>9, <1>10
<1> QED
  BY <1>1, <1>3, <1>4, <1>5, <1>6, <1>11

\* The records of a stream have one epoch.
LEMMA StreamEpoch ==
  ASSUME OwnerInv, HistoryInv, SeenInv, NEW e \in Nat, NEW k \in 0..Len(log), log # << >>
  PROVE  /\ log[1].rev.epoch \in Nat
         /\ k > 0 => StateAt(e, k).rev.epoch = log[1].rev.epoch
         /\ k > 0 => StateAt(e, k) = StateAt(log[1].rev.epoch, k)
<1> DEFINE e1 == log[1].rev.epoch
<1>1. Len(log) \in Nat /\ DOMAIN log = 1..Len(log) /\ Len(log) > 0 /\ StreamStands
  BY Replay DEF OwnerInv
<1>2. e1 \in Nat
  BY <1>1 DEF StreamStands, Revisions
<1> HIDE DEF e1
<1>3. StateAt(e1, 0).rev.epoch = e1
  BY BaseEpoch
<1>4. Continues(0, k)
  <2>1. 0 \in 0..Len(log) /\ 0 <= k
    BY <1>1
  <2> QED
    BY <2>1 DEF SeenInv, StreamContinues
<1>5. StateAt(e1, 0).rev.epoch = StateAt(e1, k).rev.epoch
  BY <1>4 DEF Continues, e1
<1>6. k > 0 => StateAt(e, k) = StateAt(e1, k)
  BY DEF StateAt
<1> QED
  BY <1>2, <1>3, <1>5, <1>6 DEF e1

\* A revision that two records have is one document and one calculation
\* status, and with the generation one catalog.
LEMMA SameRevision ==
  ASSUME OwnerInv, HistoryInv, SeenInv, NEW e \in Nat, NEW j \in 0..Len(log), NEW k \in 0..Len(log),
         StateAt(e, j).rev = StateAt(e, k).rev
  PROVE  LET g == StateAt(e, j)
             h == StateAt(e, k) IN
         /\ Lineage(g, g.head) = Lineage(h, h.head) /\ StampAt(j) = StampAt(k)
         /\ g.gen = h.gen => g.catalog = h.catalog
<1>1. ASSUME NEW a \in 0..Len(log), NEW b \in 0..Len(log), a < b, StateAt(e, a).rev = StateAt(e, b).rev
      PROVE  LET g == StateAt(e, a)
                 h == StateAt(e, b) IN
             /\ Lineage(g, g.head) = Lineage(h, h.head) /\ StampAt(a) = StampAt(b)
             /\ g.gen = h.gen => g.catalog = h.catalog
  <2> DEFINE e1 == log[1].rev.epoch
             g == StateAt(e, a)
             h == StateAt(e, b)
  <2>1. Len(log) \in Nat /\ log # << >> /\ b > 0
    BY <1>1, Replay DEF OwnerInv
  <2>2. e1 \in Nat /\ h.rev.epoch = e1 /\ h = StateAt(e1, b)
    BY <2>1, StreamEpoch
  <2>3. g = StateAt(e1, a)
    <3>1. CASE a = 0
      <4>1. g.rev.epoch = e
        BY <3>1, BaseEpoch
      <4>2. g.rev.epoch = e1
        BY <1>1, <2>2
      <4> QED
        BY <4>1, <4>2
    <3>2. CASE a > 0
      BY <2>1, <3>2, StreamEpoch
    <3> QED
      BY <3>1, <3>2
  <2>4. Continues(a, b)
    BY <1>1, <2>1 DEF SeenInv, StreamContinues
  <2>5. /\ g.rev.state <= h.rev.state /\ Extended(g, h)
        /\ g.head = h.head /\ StampAt(a) = StampAt(b)
        /\ g.gen = h.gen => g.catalog = h.catalog
    BY <1>1, <2>2, <2>3, <2>4 DEF Continues, Extended
  <2>6. Rooted(g) /\ Rooted(h) /\ g.head \in Known(g) \cup {NoCommit}
    BY StatesStand
  <2> HIDE DEF g, h
  <2>7. Lineage(g, g.head) = Lineage(h, h.head)
    BY <2>5, <2>6, LineageExtends
  <2> QED
    BY <2>5, <2>7 DEF g, h
<1>2. CASE j < k
  BY <1>1, <1>2
<1>3. CASE k < j
  BY <1>1, <1>3
<1>4. CASE j = k
  BY <1>4
<1> QED
  BY <1>2, <1>3, <1>4

\* Where the stream has its own epoch.
LEMMA InTheStream ==
  ASSUME OwnerInv, HistoryInv, SeenInv, log # << >>, NEW e \in Nat, e = log[1].rev.epoch
  PROVE  /\ \A j, k \in 0..Len(log) : j <= k =>
              /\ StateAt(e, j).rev.state <= StateAt(e, k).rev.state
              /\ Extended(StateAt(e, j), StateAt(e, k))
         /\ \A k \in 0..(Len(log) - 1) :
              /\ FollowsOn(StateAt(e, k), log[k + 1]) /\ log[k + 1].id \notin Known(StateAt(e, k))
              /\ k + 1 \in 0..Len(log) /\ StateAt(e, k + 1) = log[k + 1].post
<1>1. Len(log) \in Nat /\ DOMAIN log = 1..Len(log) /\ Len(log) > 0 /\ StreamStands
  BY Replay DEF OwnerInv
<1>2. ASSUME NEW j \in 0..Len(log), NEW k \in 0..Len(log), j <= k
      PROVE  StateAt(e, j).rev.state <= StateAt(e, k).rev.state /\ Extended(StateAt(e, j), StateAt(e, k))
  <2>1. Continues(j, k)
    BY <1>2 DEF SeenInv, StreamContinues
  <2> QED
    BY <2>1 DEF Continues, Extended
<1>3. ASSUME NEW k \in 0..(Len(log) - 1)
      PROVE  /\ FollowsOn(StateAt(e, k), log[k + 1]) /\ log[k + 1].id \notin Known(StateAt(e, k))
             /\ k + 1 \in 0..Len(log) /\ StateAt(e, k + 1) = log[k + 1].post
  <2>1. k + 1 \in 0..Len(log) /\ k + 1 > 0 /\ k + 1 \in DOMAIN log /\ (k + 1) - 1 = k /\ k \in 0..Len(log)
    BY <1>1
  <2>2. StateAt(e, k + 1) = log[k + 1].post /\ StateAt(e, k + 1).rev = log[k + 1].rev
    BY <2>1, StatesStand
  <2>3. log[k + 1].rev.epoch = e
    BY <2>1, <2>2, StreamEpoch
  <2>4. FollowsOn(StateAt(e, k), log[k + 1])
    BY <2>1, <2>3 DEF SeenInv, StreamContinues
  <2>5. \A c \in Known(StateAt(e, k)) : \E j \in 1..k : log[j].id = c
    BY <2>1, StatesStand
  <2>6. \A j \in 1..k : j \in DOMAIN log /\ j # k + 1
    BY <1>1, <2>1
  <2>7. \A j \in 1..k : log[j].id # log[k + 1].id
    BY <1>1, <2>1, <2>6 DEF StreamStands, Log!OncePerIdentity
  <2> QED
    BY <2>1, <2>2, <2>4, <2>5, <2>7
<1> QED
  BY <1>2, <1>3

\* The view of a discarded resource is the one of a restart that came instead,
\* or it is ahead of the stream.
LEMMA ReattachedIsAhead ==
  ASSUME OwnerInv, HistoryInv, SeenInv, NEW e \in Nat, NEW k \in 0..Len(log),
         StateAt(e, k).rev.epoch = e, DiscardOrRestart(e, k)
  PROVE  \/ \E j \in 0..Len(log) : Reattached(e, k) = ViewAt(e, j)
         \/ \A j \in 0..Len(log) : StateAt(e, j).rev.epoch = e => StateAt(e, j).rev.state <= StateAt(e, k).rev.state
<1> DEFINE n == Len(log)
<1>1. n \in Nat /\ k \in 0..n /\ (log = << >> => n = 0) /\ (log # << >> => n > 0) /\ DOMAIN log = 1..n
  BY Replay DEF OwnerInv
<1>2. \A j \in 0..n : StateAt(e, j).rev.state \in Nat
  BY StatesStand
<1> HIDE DEF n
<1>3. CASE log = << >> \/ log[1].rev.epoch # e
  <2>1. \A j \in 0..n : j > 0 => StateAt(e, j).rev.epoch # e
    BY <1>1, <1>3, StreamEpoch DEF n
  <2>2. k = 0
    BY <1>1, <2>1
  <2>3. \A j \in 0..n : StateAt(e, j).rev.epoch = e => j = k
    BY <1>1, <2>1, <2>2
  <2> QED
    BY <1>1, <1>2, <2>3 DEF n
<1>4. CASE log # << >> /\ log[1].rev.epoch = e
  <2>1. \A i, j \in 0..n : i <= j => StateAt(e, i).rev.state <= StateAt(e, j).rev.state
    BY <1>4, InTheStream DEF n
  <2>2. CASE k = n
    <3>1. \A j \in 0..n : j <= k
      BY <1>1, <2>2
    <3> QED
      BY <1>1, <2>1, <3>1 DEF n
  <2>3. CASE k < n
    <3> DEFINE g == StateAt(e, k)
               r == log[k + 1]
               h == r.post
    <3>1. k \in 0..(n - 1) /\ k + 1 \in 0..n
      BY <1>1, <2>3
    <3>2. FollowsOn(g, r) /\ StateAt(e, k + 1) = h
      BY <1>4, <3>1, InTheStream DEF n
    <3>3. r.kind \in {"ResourceDiscard", "Restart"}
      BY <1>4, <2>3 DEF DiscardOrRestart, n
    <3>4. g.rev \in Revisions /\ g.gen \in Nat /\ Rooted(g)
      BY StatesStand DEF n
    <3>5. /\ h.rev = (IF r.kind = "Restart" THEN Bump(g.rev, 0, 1) ELSE g.rev)
          /\ h.gen = g.gen /\ h.head = g.head /\ h.parents = g.parents /\ h.catalog = g.catalog
          /\ r.kind = "Restart" => h.calc = FALSE /\ Resets(g, r)
      BY <3>2, <3>3, <3>4, DiscardAndRestart
    <3>6. CASE r.kind = "Restart"
      <4>1. Lineage(h, h.head) = Lineage(g, g.head)
        BY <3>5, SameLineages
      <4>2. StampAt(k + 1) = "Dirty"
        <5>1. StateAt(0, k + 1) = h /\ h.calc = FALSE
          BY <1>1, <3>1, <3>2, <3>5, <3>6 DEF StateAt
        <5>2. k + 1 \in 1..(k + 1) /\ Resets(StateAt(0, (k + 1) - 1), r)
          BY <1>1, <3>1, <3>6 DEF Resets
        <5> QED
          BY <5>1, <5>2 DEF StampAt
      <4>3. Reattached(e, k) = ViewAt(e, k + 1)
        <5> HIDE DEF g, h, r
        <5>1. Reattached(e, k) = [rev |-> Bump(g.rev, 0, 1), gen |-> g.gen, doc |-> Lineage(g, g.head),
                                  staged |-> g.catalog, stamp |-> "Dirty"]
          BY ViewParts DEF g
        <5>2. ViewAt(e, k + 1) = [rev |-> h.rev, gen |-> h.gen, doc |-> Lineage(h, h.head),
                                  staged |-> h.catalog, stamp |-> StampAt(k + 1)]
          BY <3>2 DEF ViewAt
        <5> QED
          BY <3>5, <3>6, <4>1, <4>2, <5>1, <5>2
      <4> QED
        BY <3>1, <4>3 DEF n
    <3>7. CASE r.kind = "ResourceDiscard"
      <4>1. k + 1 = n
        <5> SUFFICES ASSUME k + 1 # n PROVE FALSE
          OBVIOUS
        <5>1. k + 1 \in 0..(n - 1)
          BY <1>1, <3>1
        <5>2. ~h.discarded
          <6>1. FollowsOn(StateAt(e, k + 1), log[(k + 1) + 1])
            BY <1>4, <5>1, InTheStream DEF n
          <6> QED
            BY <3>2, <6>1 DEF FollowsOn
        <5>3. h.discarded
          <6>1. r.id \notin Known(g)
            BY <1>4, <3>1, InTheStream DEF n
          <6> QED
            BY <3>2, <3>4, <3>7, <6>1, StepChanges
        <5> QED
          BY <5>2, <5>3
      <4>2. \A j \in 0..n : j <= k \/ j = k + 1
        BY <1>1, <4>1
      <4>3. StateAt(e, k + 1).rev.state = g.rev.state
        BY <3>2, <3>5, <3>7
      <4> QED
        BY <1>1, <1>2, <2>1, <4>2, <4>3 DEF n
    <3> QED
      BY <3>3, <3>6, <3>7
  <2> QED
    BY <1>1, <2>2, <2>3
<1> QED
  BY <1>3, <1>4

\* A token names one state.
LEMMA TokensName ==
  ASSUME OwnerInv, HistoryInv, SeenInv
  PROVE  TokenNamesOneState
<1> SUFFICES ASSUME NEW v \in observed, NEW w \in observed, v.rev = w.rev
             PROVE  /\ v.doc = w.doc /\ v.stamp = w.stamp
                    /\ v.gen = w.gen => v.staged = w.staged
  BY DEF TokenNamesOneState
<1> DEFINE n == Len(log)
           e == v.rev.epoch
           Ahead(k) == \A j \in 0..n : StateAt(e, j).rev.epoch = e => StateAt(e, j).rev.state <= StateAt(e, k).rev.state
<1>1. n \in Nat /\ firm \in 0..n /\ epochs \in Nat
  BY Replay DEF OwnerInv, StreamStands, SessionsStand
<1>2. e \in Nat
  <2>1. PICK d \in 1..epochs : v.rev.epoch = d
    BY DEF SeenInv, Seen
  <2> QED
    BY <1>1, <2>1
<1>3. ASSUME NEW u \in observed, u.rev = v.rev
      PROVE  \/ \E k \in 0..n : u = ViewAt(e, k)
             \/ \E k \in 0..n : u = Reattached(e, k) /\ StateAt(e, k).rev.epoch = e /\ Ahead(k)
  <2>1. PICK d \in 1..epochs, k \in 0..firm :
           u.rev.epoch = d /\ (u = ViewAt(d, k) \/ (u = Reattached(d, k) /\ DiscardOrRestart(d, k)))
    BY DEF SeenInv, Seen
  <2>2. d = e /\ k \in 0..n
    BY <1>1, <1>3, <2>1
  <2>3. CASE u = ViewAt(e, k)
    BY <2>2, <2>3
  <2>4. CASE u = Reattached(e, k) /\ DiscardOrRestart(e, k)
    <3>1. StateAt(e, k).rev \in Revisions /\ u.rev = Bump(StateAt(e, k).rev, 0, 1)
      BY <1>2, <2>2, <2>4, StatesStand, ViewParts
    <3>2. u.rev.epoch = StateAt(e, k).rev.epoch
      <4>1. 0 \in 0..1 /\ 1 \in 0..1
        OBVIOUS
      <4> QED
        BY <3>1, <4>1, Bumped
    <3>3. StateAt(e, k).rev.epoch = e
      BY <1>3, <3>2
    <3>4. (\E j \in 0..n : Reattached(e, k) = ViewAt(e, j)) \/ Ahead(k)
      BY <1>2, <2>2, <2>4, <3>3, ReattachedIsAhead
    <3> QED
      BY <2>2, <2>4, <3>3, <3>4
  <2> QED
    BY <2>1, <2>2, <2>3, <2>4
<1>4. ASSUME NEW j \in 0..n, NEW k \in 0..n, Ahead(k), StateAt(e, k).rev.epoch = e,
             ViewAt(e, j).rev = Reattached(e, k).rev
      PROVE  FALSE
  <2> DEFINE x == StateAt(e, j).rev
             y == StateAt(e, k).rev
  <2>1. y \in Revisions /\ y.state \in Nat /\ x = Bump(y, 0, 1)
    BY <1>2, <1>4, StatesStand, ViewParts
  <2>2. x.epoch = y.epoch /\ x.state = y.state + 1
    <3>1. 0 \in 0..1 /\ 1 \in 0..1
      OBVIOUS
    <3> QED
      BY <2>1, <3>1, Bumped
  <2>3. x.state <= y.state
    BY <1>4, <2>2
  <2> QED
    BY ONLY <2>1, <2>2, <2>3, SMT
<1>5. ASSUME NEW j \in 0..n, NEW k \in 0..n, Reattached(e, j).rev = Reattached(e, k).rev
      PROVE  StateAt(e, j).rev = StateAt(e, k).rev
  <2> DEFINE x == StateAt(e, j).rev
             y == StateAt(e, k).rev
  <2>1. x \in Revisions /\ y \in Revisions /\ Bump(x, 0, 1) = Bump(y, 0, 1)
    BY <1>2, <1>5, StatesStand, ViewParts
  <2> HIDE DEF x, y
  <2>2. [epoch |-> x.epoch, doc |-> x.doc + 0, state |-> x.state + 1]
          = [epoch |-> y.epoch, doc |-> y.doc + 0, state |-> y.state + 1]
    BY <2>1, BumpedIs
  <2>3. x.epoch = y.epoch /\ x.doc + 0 = y.doc + 0 /\ x.state + 1 = y.state + 1
    BY <2>2
  <2>4. x = [epoch |-> x.epoch, doc |-> x.doc, state |-> x.state] /\ y = [epoch |-> y.epoch, doc |-> y.doc, state |-> y.state]
        /\ x.doc \in Nat /\ y.doc \in Nat /\ x.state \in Nat /\ y.state \in Nat
    BY <2>1 DEF Revisions
  <2>5. x.doc = y.doc /\ x.state = y.state
    BY ONLY <2>3, <2>4, SMT
  <2> QED
    BY <2>3, <2>4, <2>5 DEF x, y
<1> HIDE DEF Ahead, e
<1>6. CASE \E j, k \in 0..n : v = ViewAt(e, j) /\ w = ViewAt(e, k)
  <2>1. PICK j \in 0..n, k \in 0..n : v = ViewAt(e, j) /\ w = ViewAt(e, k)
    BY <1>6
  <2>2. StateAt(e, j).rev = StateAt(e, k).rev
    BY <2>1, ViewParts
  <2> QED
    BY <1>2, <2>1, <2>2, SameRevision, ViewParts
<1>7. CASE \E j, k \in 0..n : v = Reattached(e, j) /\ w = Reattached(e, k)
  <2>1. PICK j \in 0..n, k \in 0..n : v = Reattached(e, j) /\ w = Reattached(e, k)
    BY <1>7
  <2>2. StateAt(e, j).rev = StateAt(e, k).rev
    BY <1>5, <2>1
  <2> QED
    BY <1>2, <2>1, <2>2, SameRevision, ViewParts
<1>8. ASSUME NEW j \in 0..n, NEW k \in 0..n, NEW x \in observed, NEW y \in observed, x.rev = y.rev,
             x = ViewAt(e, j), y = Reattached(e, k), StateAt(e, k).rev.epoch = e, Ahead(k)
      PROVE  FALSE
  BY <1>4, <1>8
<1> QED
  BY <1>3, <1>6, <1>7, <1>8

\* A document that was seen can be reached.
LEMMA SeenReachable ==
  ASSUME OwnerInv, HistoryInv, SeenInv
  PROVE  SeenDocumentsStayReachable
<1> SUFFICES ASSUME NEW v \in observed, v.doc # << >>
             PROVE  \E c \in Known(Replayed) : Lineage(Replayed, c) = v.doc
  BY DEF SeenDocumentsStayReachable
<1> DEFINE n == Len(log)
<1>1. n \in Nat /\ firm \in 0..n /\ epochs \in Nat /\ StreamStands
  BY Replay DEF OwnerInv, StreamStands, SessionsStand
<1>2. PICK d \in 1..epochs, k \in 0..firm : v = ViewAt(d, k) \/ v = Reattached(d, k)
  BY DEF SeenInv, Seen
<1> DEFINE g == StateAt(d, k)
<1>3. d \in Nat /\ k \in 0..n /\ v.doc = Lineage(g, g.head)
  BY <1>1, <1>2, ViewParts
<1>4. Rooted(g) /\ g.head \in Known(g) \cup {NoCommit}
  BY <1>3, StatesStand
<1>5. g.head \in Known(g)
  <2>1. Lineage(g, NoCommit) = << >>
    BY <1>4, LineageUnfolds
  <2> QED
    BY <1>3, <1>4, <2>1
<1>6. k > 0
  <2>1. k # 0
    <3>1. Known(StateAt(d, 0)) = {}
      BY BaseParts
    <3> QED
      BY <1>5, <3>1
  <2> QED
    BY <1>1, <1>3, <2>1
<1>7. log # << >> /\ n > 0 /\ n \in 0..n /\ k <= n
  BY <1>1, <1>3, <1>6, Replay
<1> DEFINE e == log[1].rev.epoch
           h == StateAt(e, n)
<1>8. e \in Nat /\ g = StateAt(e, k)
  BY <1>3, <1>6, <1>7, StreamEpoch
<1>9. h = Replayed
  BY <1>1, <1>7 DEF StateAt, Replayed
<1>10. Extended(g, h)
  BY <1>3, <1>7, <1>8, InTheStream
<1>11. Rooted(h)
  BY <1>7, <1>8, StatesStand
<1> HIDE DEF g, h
<1>12. g.head \in Known(h) /\ Lineage(h, g.head) = Lineage(g, g.head)
  BY <1>4, <1>5, <1>10, <1>11, LineageExtends DEF Extended
<1> QED
  BY <1>3, <1>9, <1>12

\* A step that appends nothing concerns only the owner that takes it.
LEMMA SeenKept ==
  ASSUME OwnerInv, SeenInv, log' = log, firm' \in firm..Len(log), epochs' \in Nat, epochs' >= epochs,
         NEW i \in Owners,
         \A m \in Owners \ {i} : own'[m] = own[m] /\ prop'[m] = prop[m] /\ pc'[m] = pc[m],
         Settled(i)', Shows(i)',
         \A e \in 1..epochs : DiscardOrRestart(e, Len(log)) => Away(i, e)',
         \A v \in observed' : v \in observed \/ Seen(v)'
  PROVE  SeenInv'
<1> DEFINE n == Len(log)
<1>1. StreamStands /\ epochs \in Nat
  BY DEF OwnerInv, SessionsStand
<1>2. n \in Nat /\ DOMAIN log = 1..n /\ firm \in 0..n /\ firm' \in 0..n /\ (log # << >> => n > 0)
  BY <1>1, Replay DEF StreamStands
<1>3. \A e, k : k \in 0..n => /\ StateAt(e, k)' = StateAt(e, k) /\ StampAt(k)' = StampAt(k)
                              /\ ViewAt(e, k)' = ViewAt(e, k) /\ Reattached(e, k)' = Reattached(e, k)
  BY <1>2, SameStates
<1>4. Replayed' = Replayed /\ Last' = Last /\ \A m : own'[m] = own[m] => (InSync(m)' <=> InSync(m))
  BY SameStream
<1>5. StreamContinues'
  <2>1. \A k \in DOMAIN log : FollowsOn(StateAt(log[k].rev.epoch, k - 1), log[k])'
    <3> SUFFICES ASSUME NEW k \in DOMAIN log PROVE FollowsOn(StateAt(log[k].rev.epoch, k - 1), log[k])'
      OBVIOUS
    <3>1. k - 1 \in 0..n
      BY <1>2
    <3>2. StateAt(log[k].rev.epoch, k - 1)' = StateAt(log[k].rev.epoch, k - 1)
      BY <1>3, <3>1
    <3> QED
      BY <3>2 DEF SeenInv, StreamContinues
  <2>2. \A j, k \in 0..n : log # << >> /\ j <= k => Continues(j, k)'
    BY <1>3 DEF SeenInv, StreamContinues, Continues
  <2>3. Replayed'.discarded => firm' >= n - 1
    BY <1>1, <1>2, <1>4 DEF SeenInv, StreamContinues
  <2>4. \A k \in DOMAIN log : log[k].fp.kind = "CatalogDiscard" => log[k].fp.on = log[k].rev
    BY DEF SeenInv, StreamContinues
  <2> QED
    BY <2>1, <2>2, <2>3, <2>4 DEF StreamContinues
<1>6. ASSUME NEW m \in Owners \ {i} PROVE Settled(m)' /\ Shows(m)'
  <2>1. own'[m] = own[m] /\ prop'[m] = prop[m] /\ pc'[m] = pc[m] /\ Settled(m) /\ Shows(m)
    BY DEF SeenInv
  <2>2. 0 \in 0..n /\ n \in 0..n /\ \A k \in DOMAIN log : k \in 0..n
    BY <1>2
  <2>3. Settled(m)'
    <3>1. log = << >> /\ own[m].up => ViewOf(own[m]) = ViewAt(own[m].rev.epoch, 0)'
      BY <1>3, <2>1, <2>2 DEF Settled
    <3>2. ASSUME log # << >>, Works(m)', InSync(m)'
          PROVE  own[m].stamp = StampAt(n)' /\ (firm' = n \/ (InFlight(m)' /\ Last'.id = prop'[m].rec.id))
      <4>1. Works(m) /\ InSync(m)
        BY <1>4, <2>1, <3>2 DEF Works
      <4>2. own[m].stamp = StampAt(n) /\ (firm = n \/ (InFlight(m) /\ Last.id = prop[m].rec.id))
        BY <2>1, <3>2, <4>1 DEF Settled
      <4> QED
        BY <1>2, <1>3, <1>4, <2>1, <2>2, <4>2 DEF InFlight
    <3> QED
      BY <2>1, <3>1, <3>2 DEF Settled
  <2>4. Shows(m)'
    <3>1. Outcome(m)' = Outcome(m) /\ Position(m)' = Position(m)
      BY <2>1 DEF Outcome, Position
    <3>2. InFlight(m)' <=> InFlight(m)
      BY <2>1 DEF InFlight
    <3> QED
      BY <1>3, <2>1, <2>2, <3>1, <3>2 DEF Shows
  <2> QED
    BY <2>3, <2>4
<1>7. ASSUME NEW e \in 1..epochs, NEW k \in 0..firm, DiscardOrRestart(e, k) PROVE DiscardOrRestart(e, k)'
  <2>1. k \in 0..n /\ StateAt(e, k)' = StateAt(e, k)
    BY <1>2, <1>3
  <2>2. ASSUME k = n, NEW m \in Owners PROVE Away(m, e)'
    <3>1. CASE m = i
      BY <1>7, <2>2, <3>1
    <3>2. CASE m # i
      <4>1. own'[m] = own[m] /\ prop'[m] = prop[m] /\ pc'[m] = pc[m] /\ Away(m, e)
        BY <1>7, <2>2, <3>2 DEF DiscardOrRestart
      <4>2. Position(m)' = Position(m) /\ (InFlight(m)' <=> InFlight(m))
        BY <4>1 DEF Position, InFlight
      <4> QED
        BY <4>1, <4>2 DEF Away
    <3> QED
      BY <3>1, <3>2
  <2> QED
    BY <1>7, <2>1, <2>2 DEF DiscardOrRestart
<1>8. ASSUME NEW v \in observed PROVE Seen(v)'
  <2>1. PICK e \in 1..epochs, k \in 0..firm :
           v.rev.epoch = e /\ (v = ViewAt(e, k) \/ (v = Reattached(e, k) /\ DiscardOrRestart(e, k)))
    BY DEF SeenInv, Seen
  <2>2. e \in 1..epochs' /\ k \in 0..firm' /\ k \in 0..n
    BY <1>1, <1>2
  <2> QED
    BY <1>3, <1>7, <2>1, <2>2 DEF Seen
<1> QED
  BY <1>5, <1>6, <1>8 DEF SeenInv

\* An owner is idle again, as it was, poisoned, or gone.
LEMMA IdleSeen ==
  ASSUME OwnerInv, SeenInv, log' = log, firm' \in firm..Len(log), epochs' = epochs, observed' = observed,
         NEW i \in Owners, pc'[i] = "idle",
         \A m \in Owners \ {i} : own'[m] = own[m] /\ prop'[m] = prop[m] /\ pc'[m] = pc[m],
         \/ own'[i] = Down \/ own'[i] = [own[i] EXCEPT !.poisoned = TRUE]
         \/ own'[i] = own[i] /\ (InFlight(i) /\ log # << >> => Last.id # prop[i].rec.id)
  PROVE  SeenInv'
<1>1. StreamStands /\ epochs \in Nat /\ IsSession(own[i]) /\ Settled(i)
  BY DEF OwnerInv, SessionsStand, SeenInv
<1>2. Len(log) \in Nat /\ firm \in 0..Len(log) /\ epochs' \in Nat /\ epochs' >= epochs
  BY <1>1, Replay DEF StreamStands
<1>3. ~InFlight(i)'
  BY DEF InFlight
<1>4. Shows(i)'
  BY <1>3 DEF Shows
<1>5. own'[i].up => own[i].up /\ own'[i].rev = own[i].rev /\ ViewOf(own'[i]) = ViewOf(own[i])
  <2>1. CASE own'[i] = Down
    BY <2>1, DownIsSession
  <2>2. CASE own'[i] = [own[i] EXCEPT !.poisoned = TRUE]
    BY <1>1, <2>2 DEF IsSession, ViewOf
  <2> QED
    BY <2>1, <2>2
<1>6. Works(i)' => own'[i] = own[i] /\ (InFlight(i) /\ log # << >> => Last.id # prop[i].rec.id)
  BY <1>1, DownIsSession, PoisonedSession DEF Works
<1>7. Settled(i)'
  <2>1. \A e, k : k \in 0..Len(log) => StampAt(k)' = StampAt(k) /\ ViewAt(e, k)' = ViewAt(e, k)
    BY <1>2, SameStates
  <2>2. 0 \in 0..Len(log) /\ Len(log) \in 0..Len(log)
    BY <1>2
  <2>3. log = << >> /\ own'[i].up => ViewOf(own'[i]) = ViewAt(own[i].rev.epoch, 0)'
    BY <1>1, <1>5, <2>1, <2>2 DEF Settled
  <2>4. ASSUME log # << >>, Works(i)', InSync(i)' PROVE own'[i].stamp = StampAt(Len(log))' /\ firm' = Len(log)
    <3>1. own'[i] = own[i] /\ Works(i) /\ InSync(i)
      BY <1>6, <2>4, SameStream DEF Works
    <3>2. own[i].stamp = StampAt(Len(log)) /\ firm = Len(log)
      BY <1>1, <1>6, <2>4, <3>1 DEF Settled
    <3>3. firm' = Len(log)
      BY <1>2, <3>2
    <3>4. StampAt(Len(log))' = StampAt(Len(log))
      BY <2>1, <2>2
    <3> QED
      BY <3>1, <3>2, <3>3, <3>4
  <2> QED
    BY <2>3, <2>4 DEF Settled
<1>8. \A e \in 1..epochs : DiscardOrRestart(e, Len(log)) => Away(i, e)'
  <2> SUFFICES ASSUME NEW e \in 1..epochs, DiscardOrRestart(e, Len(log)) PROVE Away(i, e)'
    OBVIOUS
  <2>1. Away(i, e)
    BY DEF DiscardOrRestart
  <2> QED
    BY <1>3, <1>5, <2>1 DEF Away
<1> QED
  BY <1>2, <1>4, <1>7, <1>8, SeenKept

\* An operation goes on with the record it has prepared.
LEMMA UnderwaySeen ==
  ASSUME OwnerInv, SeenInv, log' = log, firm' \in firm..Len(log), epochs' = epochs, observed' = observed,
         own' = own, NEW i \in Owners, InFlight(i), InFlight(i)',
         \A m \in Owners \ {i} : prop'[m] = prop[m] /\ pc'[m] = pc[m],
         prop'[i].rec.id = prop[i].rec.id, prop'[i].rec.req = prop[i].rec.req, Outcome(i)' = Outcome(i)
  PROVE  SeenInv'
<1>1. StreamStands /\ epochs \in Nat /\ Settled(i) /\ Shows(i)
  BY DEF OwnerInv, SessionsStand, SeenInv
<1>2. Len(log) \in Nat /\ firm \in 0..Len(log) /\ epochs' \in Nat /\ epochs' >= epochs /\ DOMAIN log = 1..Len(log)
  BY <1>1, Replay DEF StreamStands
<1>3. \A e, k : k \in 0..Len(log) => StampAt(k)' = StampAt(k) /\ ViewAt(e, k)' = ViewAt(e, k)
  BY <1>2, SameStates
<1>4. 0 \in 0..Len(log) /\ Len(log) \in 0..Len(log) /\ \A k \in DOMAIN log : k \in 0..Len(log)
  BY <1>2
<1>5. Position(i)' = Position(i)
  BY DEF Position
<1>6. Shows(i)'
  BY <1>1, <1>3, <1>4, <1>5 DEF Shows
<1>7. Settled(i)'
  <2>1. Last' = Last /\ (InSync(i)' <=> InSync(i)) /\ (Works(i)' <=> Works(i))
    BY SameStream DEF Works
  <2>2. log = << >> /\ own[i].up => ViewOf(own[i]) = ViewAt(own[i].rev.epoch, 0)'
    BY <1>1, <1>3, <1>4 DEF Settled
  <2>3. ASSUME log # << >>, Works(i), InSync(i)
        PROVE  own[i].stamp = StampAt(Len(log))' /\ (firm' = Len(log) \/ Last.id = prop[i].rec.id)
    <3>1. own[i].stamp = StampAt(Len(log)) /\ (firm = Len(log) \/ Last.id = prop[i].rec.id)
      BY <1>1, <2>3 DEF Settled
    <3>2. firm = Len(log) => firm' = Len(log)
      BY <1>2
    <3>3. StampAt(Len(log))' = StampAt(Len(log))
      BY <1>3, <1>4
    <3> QED
      BY <3>1, <3>2, <3>3
  <2> QED
    BY <2>1, <2>2, <2>3 DEF Settled
<1>8. \A e \in 1..epochs : DiscardOrRestart(e, Len(log)) => Away(i, e)'
  BY <1>5 DEF DiscardOrRestart, Away
<1> QED
  BY <1>2, <1>6, <1>7, <1>8, SeenKept

LEMMA FinishSeen ==
  ASSUME OwnerInv, SeenInv, log' = log, firm' \in firm..Len(log), epochs' = epochs, observed' = observed,
         NEW i \in Owners, NEW o, Finish(i, o),
         o = [own[i] EXCEPT !.poisoned = TRUE] \/ (o = own[i] /\ (log # << >> => Last.id # prop[i].rec.id))
  PROVE  SeenInv'
<1>1. /\ pc'[i] = "idle" /\ own'[i] = IF own[i].up THEN o ELSE Down
      /\ \A m \in Owners \ {i} : own'[m] = own[m] /\ prop'[m] = prop[m] /\ pc'[m] = pc[m]
  BY Finishing DEF OwnerInv
<1> QED
  BY <1>1, IdleSeen

\* The end of an operation that publishes nothing.
LEMMA ErrorsSeen ==
  ASSUME OwnerInv, SeenInv, NEW i \in Owners,
         ReconcileNotFound(i) \/ ReconcileFails(i) \/ PublishFails(i) \/ PublishOriginal(i)
  PROVE  SeenInv'
<1>1. StreamStands /\ firm \in firm..Len(log)
  <2>1. StreamStands
    BY DEF OwnerInv
  <2> QED
    BY <2>1, Replay DEF StreamStands
<1>2. CASE ReconcileNotFound(i)
  <2>1. /\ Finish(i, own[i]) /\ log' = log /\ firm' = firm /\ epochs' = epochs /\ observed' = observed
        /\ {prop[i].rec.id} \cap Log!IdsOf(log) = {}
    BY <1>2 DEF ReconcileNotFound, Log!TellNotFound
  <2>2. log # << >> => Last.id # prop[i].rec.id
    BY <1>1, <2>1, Replay DEF Log!IdsOf, Last
  <2> QED
    BY <1>1, <2>1, <2>2, FinishSeen
<1>3. CASE ReconcileFails(i) \/ PublishFails(i)
  BY <1>1, <1>3, FinishSeen DEF ReconcileFails, PublishFails, storage
<1>4. CASE PublishOriginal(i)
  <2>1. /\ pc[i] = "publish" /\ InFlight(i) /\ got[i] # prop[i].rec.id /\ epochs' = epochs /\ observed' = observed
        /\ \/ TellOutcome(i) /\ Finish(i, own[i])
           \/ Finish(i, [own[i] EXCEPT !.poisoned = TRUE]) /\ UNCHANGED storage
    BY <1>4 DEF PublishOriginal, InFlight
  <2>2. log' = log /\ firm' = firm
    BY <2>1 DEF TellOutcome, storage
  <2>3. ASSUME log # << >>, Last.id = prop[i].rec.id PROVE FALSE
    <3>1. PICK k \in SameInput(i) : got[i] = log[k].id
      BY <2>1 DEF OwnerInv, ProposalsStand, Prepared
    <3>2. Len(log) \in DOMAIN log /\ log[Len(log)].id = prop[i].rec.id
      BY <1>1, <2>3, Replay DEF Last
    <3>3. log[Len(log)].req = prop[i].rec.req
      BY <2>1, <3>2 DEF OwnerInv, ProposalsStand, Prepared
    <3>4. Len(log) \in Position(i) /\ k \in Position(i)
      BY <3>1, <3>2, <3>3 DEF SameInput, Position
    <3>5. k = Len(log)
      BY <1>1, <3>4, OnePosition
    <3> QED
      BY <2>1, <3>1, <3>2, <3>5
  <2> QED
    BY <1>1, <2>1, <2>2, <2>3, FinishSeen
<1> QED
  BY <1>2, <1>3, <1>4

LEMMA PoisonSeen ==
  ASSUME OwnerInv, SeenInv, NEW i \in Owners,
         StaleWrite(i) \/ (\E q : RecalculateFails(i, q)) \/ Leave(i)
  PROVE  SeenInv'
<1>1. StreamStands /\ SessionsStand
  BY DEF OwnerInv
<1>2. firm \in firm..Len(log)
  BY <1>1, Replay DEF StreamStands
<1>3. CASE StaleWrite(i) \/ (\E q : RecalculateFails(i, q))
  <2>1. /\ pc[i] = "idle" /\ own' = [own EXCEPT ![i].poisoned = TRUE]
        /\ log' = log /\ firm' = firm /\ epochs' = epochs /\ observed' = observed /\ pc' = pc /\ prop' = prop
    BY <1>3 DEF StaleWrite, RecalculateFails, Ready, Usable, storage
  <2>2. own'[i] = [own[i] EXCEPT !.poisoned = TRUE] /\ \A m \in Owners \ {i} : own'[m] = own[m]
    BY <1>1, <2>1 DEF SessionsStand
  <2> QED
    BY <1>2, <2>1, <2>2, IdleSeen
<1>4. CASE Leave(i)
  <2>1. /\ log' = log /\ firm' = firm /\ epochs' = epochs /\ observed' = observed
        /\ own' = [own EXCEPT ![i] = Down] /\ pc' = [pc EXCEPT ![i] = "idle"] /\ prop' = [prop EXCEPT ![i] = NoRecord]
    BY <1>4 DEF Leave, storage
  <2>2. /\ own'[i] = Down /\ pc'[i] = "idle"
        /\ \A m \in Owners \ {i} : own'[m] = own[m] /\ prop'[m] = prop[m] /\ pc'[m] = pc[m]
    BY <1>1, <2>1 DEF SessionsStand
  <2> QED
    BY <1>2, <2>1, <2>2, IdleSeen
<1> QED
  BY <1>3, <1>4

LEMMA RetrySeen ==
  ASSUME OwnerInv, SeenInv, NEW i \in Owners, NEW q, Retry(i, q)
  PROVE  SeenInv'
<1>1. /\ pc[i] = "idle" /\ firm' = Len(log)
      /\ UNCHANGED <<log, own, pc, prop, epochs, observed>>
  BY DEF Retry, Usable
<1>2. StreamStands
  BY DEF OwnerInv
<1>3. firm' \in firm..Len(log)
  BY <1>1, <1>2, Replay DEF StreamStands
<1> QED
  BY <1>1, <1>3, IdleSeen DEF InFlight

LEMMA AnswerSeen ==
  ASSUME OwnerInv, SeenInv, NEW i \in Owners,
         CommitBarrier(i) \/ FindExisting(i) \/ CommitRefuses(i) \/ CommitFails(i)
  PROVE  SeenInv'
<1>1. /\ InFlight(i) /\ pc' \in {[pc EXCEPT ![i] = "publish"], [pc EXCEPT ![i] = "reconcile"]}
      /\ UNCHANGED <<log, own, prop, epochs, observed>> /\ firm' \in {firm, Len(log)}
  BY DEF CommitBarrier, FindExisting, CommitRefuses, CommitFails, Log!Harden, InFlight, storage
<1>2. StreamStands /\ SessionsStand
  BY DEF OwnerInv
<1>3. firm' \in firm..Len(log)
  BY <1>1, <1>2, Replay DEF StreamStands
<1>4. InFlight(i)' /\ \A m \in Owners \ {i} : pc'[m] = pc[m]
  BY <1>1, <1>2 DEF SessionsStand, InFlight
<1>5. Outcome(i)' = Outcome(i)
  BY <1>1 DEF Outcome
<1> QED
  BY <1>1, <1>3, <1>4, <1>5, UnderwaySeen

LEMMA ReloadSeen ==
  ASSUME OwnerInv, SeenInv, NEW i \in Owners, Reload(i)
  PROVE  SeenInv'
<1>1. /\ SessionsStand /\ StreamStands /\ pc[i] = "reload" /\ InFlight(i)
      /\ UNCHANGED <<log, firm, epochs, observed>>
  BY DEF OwnerInv, Reload, InFlight, storage
<1>2. Prepared(i, prop[i].rec) /\ own[i].up
  BY <1>1 DEF OwnerInv, ProposalsStand, OfRestart
<1>3. firm' \in firm..Len(log)
  BY <1>1, Replay DEF StreamStands
<1>4. CASE ~InSync(i)
  <2>1. /\ pc'[i] = "idle" /\ own'[i] = [own[i] EXCEPT !.poisoned = TRUE]
        /\ \A m \in Owners \ {i} : pc'[m] = pc[m] /\ own'[m] = own[m] /\ prop'[m] = prop[m]
    BY <1>1, <1>4 DEF Reload, SessionsStand
  <2> QED
    BY <1>1, <1>3, <2>1, IdleSeen
<1>5. CASE InSync(i)
  <2> DEFINE r == prop[i].rec
             f == [r EXCEPT !.parent = Replayed.tip]
  <2>1. own' = own /\ prop' = [prop EXCEPT ![i].rec.parent = Replayed.tip] /\ pc' = [pc EXCEPT ![i] = "commit"]
    BY <1>5 DEF Reload
  <2>2. IsRecord(r) /\ DOMAIN prop[i] = {"rec", "bytes"}
    BY <1>2 DEF Prepared
  <2>3. /\ pc'[i] = "commit" /\ prop'[i].rec = f /\ prop'[i].bytes = prop[i].bytes
        /\ \A m \in Owners \ {i} : pc'[m] = pc[m] /\ prop'[m] = prop[m]
    BY <1>1, <2>1, <2>2 DEF SessionsStand
  <2>4. Alike(r, f)
    BY <2>2 DEF IsRecord, Alike
  <2> HIDE DEF r, f
  <2>5. Outcome(i)' = Outcome(i)
    BY <1>2, <2>1, <2>3, <2>4, AlikePublished DEF Outcome, r
  <2>6. prop'[i].rec.id = prop[i].rec.id /\ prop'[i].rec.req = prop[i].rec.req /\ InFlight(i)'
    BY <2>3, <2>4 DEF Alike, r, InFlight
  <2> QED
    BY <1>1, <1>3, <2>1, <2>3, <2>5, <2>6, UnderwaySeen
<1> QED
  BY <1>4, <1>5

\* A record that is prepared is new.
LEMMA PreparedSeen ==
  ASSUME OwnerInv, SeenInv, NEW i \in Owners, pc[i] = "idle", NEW r, NEW b, NEW step \in {"reload", "commit"},
         Prepare(i, r, b, step), IsRecord(r), r.id = attempts + 1, r.req \notin RequestsIn,
         ~own[i].up => b.stamp = "Dirty"
  PROVE  SeenInv'
<1> DEFINE f == [r EXCEPT !.fp = Fingerprint(r)]
<1>1. StreamStands /\ SessionsStand /\ Settled(i)
  BY DEF OwnerInv, SeenInv
<1>2. /\ UNCHANGED <<log, firm, own, epochs, observed>>
      /\ prop' = [prop EXCEPT ![i] = [rec |-> f, bytes |-> b]] /\ pc' = [pc EXCEPT ![i] = step]
  BY DEF Prepare, storage
<1>3. f.id = r.id /\ f.req = r.req
  BY DEF IsRecord
<1> HIDE DEF f
<1>4. /\ prop'[i].rec.id = r.id /\ prop'[i].rec.req = r.req /\ prop'[i].bytes = b /\ pc'[i] = step
      /\ \A m \in Owners \ {i} : own'[m] = own[m] /\ prop'[m] = prop[m] /\ pc'[m] = pc[m]
  BY <1>1, <1>2, <1>3 DEF SessionsStand
<1>5. Len(log) \in Nat /\ firm' \in firm..Len(log) /\ epochs' \in Nat /\ epochs' >= epochs
  BY <1>1, <1>2, Replay DEF StreamStands, SessionsStand
<1>6. Position(i)' = {}
  BY <1>2, <1>4 DEF Position, RequestsIn
<1>7. \A k \in DOMAIN log : log[k].id # r.id
  <2>1. \A k \in DOMAIN log : log[k].id \in 1..attempts
    BY <1>1 DEF StreamStands
  <2> QED
    BY <1>1, <2>1 DEF SessionsStand
<1>8. Shows(i)'
  <2>1. ~own[i].up => Outcome(i)'.stamp = "Dirty"
    BY <1>2, <1>4 DEF Outcome
  <2> QED
    BY <1>2, <1>4, <1>6, <1>7, <2>1 DEF Shows
<1>9. Settled(i)'
  <2>1. \A e, k : k \in 0..Len(log) => StampAt(k)' = StampAt(k) /\ ViewAt(e, k)' = ViewAt(e, k)
    BY <1>2, <1>5, SameStates
  <2>2. 0 \in 0..Len(log) /\ Len(log) \in 0..Len(log)
    BY <1>5
  <2>3. log = << >> /\ own[i].up => ViewOf(own[i]) = ViewAt(own[i].rev.epoch, 0)'
    BY <1>1, <1>2, <2>1, <2>2 DEF Settled
  <2>4. log # << >> /\ Works(i) /\ InSync(i) => own[i].stamp = StampAt(Len(log))' /\ firm = Len(log)
    BY <1>1, <1>2, <2>1, <2>2 DEF Settled, InFlight
  <2>5. (InSync(i)' <=> InSync(i)) /\ (Works(i)' <=> Works(i))
    BY <1>2, SameStream DEF Works
  <2> QED
    BY <1>2, <2>3, <2>4, <2>5 DEF Settled
<1>10. \A e \in 1..epochs : DiscardOrRestart(e, Len(log)) => Away(i, e)'
  BY <1>2, <1>6 DEF DiscardOrRestart, Away
<1> QED
  BY <1>2, <1>4, <1>5, <1>8, <1>9, <1>10, SeenKept

LEMMA PreparesSeen ==
  ASSUME OwnerInv, SeenInv, NEW i \in Owners, NEW q \in Requests, Prepares(i, q)
  PROVE  SeenInv'
<1> PICK op, r, b, step : Ready(i, q, op) /\ Fit(i, q, r) /\ step \in {"reload", "commit"} /\ Prepare(i, r, b, step)
  BY DEF Prepares
<1>1. own[i].up /\ pc[i] = "idle" /\ q \notin RequestsIn
  BY DEF Ready, Usable
<1>2. IsRecord(r) /\ r.id = attempts + 1 /\ r.req = q
  BY DEF Fit
<1> QED
  BY <1>1, <1>2, PreparedSeen

LEMMA RecoverSeen ==
  ASSUME OwnerInv, SeenInv, NEW i \in Owners, Recover(i)
  PROVE  SeenInv'
<1> DEFINE o == RecoverFromRecords
           b == Blank(i, attempts + 1)
           r == [b EXCEPT !.kind = "Restart", !.item = Replayed.tip,
                          !.before = o.rev, !.rev = o.rev, !.gen = o.gen]
<1>1. pc[i] = "idle" /\ ~own[i].up /\ Prepare(i, r, o, "commit")
  BY DEF Recover
<1>2. StreamStands /\ attempts \in Nat
  BY DEF OwnerInv, SessionsStand
<1>3. o.stamp = "Dirty"
  BY DEF RecoverFromRecords
<1>4. IsRecord(b) /\ b.id = attempts + 1 /\ b.req = attempts + 1
  BY BlankFits DEF Fit
<1> HIDE DEF o, b
<1>5. IsRecord(r) /\ r.id = attempts + 1 /\ r.req = attempts + 1
  BY <1>4 DEF IsRecord
<1> HIDE DEF r
<1>6. r.req \notin RequestsIn
  <2> SUFFICES ASSUME NEW k \in DOMAIN log, log[k].req = attempts + 1 PROVE FALSE
    BY <1>5 DEF RequestsIn
  <2>1. log[k].req \in Requests \cup {log[k].id} /\ log[k].id \in 1..attempts
    BY <1>2 DEF StreamStands
  <2> QED
    BY <1>2, <2>1, OwnerBounds
<1> QED
  BY <1>1, <1>3, <1>5, <1>6, PreparedSeen

\* The session an operation hands out shows its record, which no loss of power
\* takes any more.
LEMMA HandedOutSeen ==
  ASSUME OwnerInv, HistoryInv, SeenInv, NEW i \in Owners, pc[i] = "publish",
         NEW k \in SameInput(i), k <= firm, got[i] = log[k].id, log[k].id = prop[i].rec.id,
         UNCHANGED <<log, firm, epochs>>, pc'[i] = "idle", own'[i] = Outcome(i),
         \A m \in Owners \ {i} : own'[m] = own[m] /\ prop'[m] = prop[m] /\ pc'[m] = pc[m],
         observed' = observed \cup {ViewOf(Outcome(i))}
  PROVE  SeenInv'
<1> DEFINE n == Len(log)
           r == prop[i].rec
<1> PICK e, o, v : e = log[k].rev.epoch /\ o = Outcome(i) /\ v = ViewOf(o)
  OBVIOUS
<1>1. StreamStands /\ SessionsStand /\ InFlight(i) /\ Prepared(i, r) /\ Shows(i) /\ PlanStands(i, r)
  BY DEF OwnerInv, ProposalsStand, SeenInv, HistoryInv, PlansStand, InFlight
<1>2. /\ n \in Nat /\ DOMAIN log = 1..n /\ k \in DOMAIN log /\ k \in Position(i) /\ firm \in 0..n
      /\ firm' \in firm..n /\ epochs' \in Nat /\ epochs' >= epochs /\ log # << >> /\ k \in 0..firm /\ k \in 0..n
  BY <1>1, Replay DEF StreamStands, SessionsStand, SameInput, Position
<1>3. log[k].rev = r.rev /\ e \in 1..epochs
  BY <1>1, <1>2 DEF Prepared, StreamStands
<1>4. v = ViewAt(e, k)
  BY <1>1, <1>2 DEF Shows
<1>5. o.rev = r.rev
  BY <1>1 DEF PlanStands, OwnerInv, ProposalsStand, OfRestart, Outcome
<1>6. v.rev = o.rev /\ v.stamp = o.stamp
  BY DEF ViewOf
<1>7. \A d, j : j \in 0..n => StampAt(j)' = StampAt(j) /\ ViewAt(d, j)' = ViewAt(d, j)
  BY <1>2, SameStates
<1>8. Seen(v)'
  <2>1. v = ViewAt(e, k)' /\ v.rev.epoch = e
    BY <1>2, <1>3, <1>4, <1>5, <1>6, <1>7
  <2> QED
    BY <1>2, <1>3, <2>1 DEF Seen
<1>9. Shows(i)'
  BY DEF Shows, InFlight
<1>10. Settled(i)'
  <2> SUFFICES ASSUME InSync(i)' PROVE o.stamp = StampAt(n)' /\ firm = n
    BY <1>2 DEF Settled
  <2>1. o.rev = Last.rev
    <3>1. InSync(i)' => o.rev = Replayed.rev
      BY <1>1, <1>2, SameStream, Replay DEF InSync
    <3> QED
      BY <1>1, <1>2, <3>1, Replay
  <2>2. Last.id = r.id
    BY <1>2, <1>5, <2>1, PublishesTheLast
  <2>3. k = n
    BY <1>1, <1>2, <2>2, Replay DEF StreamStands, Log!OncePerIdentity, Last
  <2>4. firm = n
    BY <1>2, <2>3
  <2>5. o.stamp = StampAt(n)
    BY <1>4, <1>6, <2>3, ViewParts
  <2>6. n \in 0..n
    BY <1>2
  <2> QED
    BY <1>7, <2>4, <2>5, <2>6
<1>11. \A d \in 1..epochs : DiscardOrRestart(d, n) => Away(i, d)'
  <2> SUFFICES ASSUME NEW d \in 1..epochs, DiscardOrRestart(d, n) PROVE Away(i, d)'
    OBVIOUS
  <2>1. Away(i, d)
    BY DEF DiscardOrRestart
  <2>2. own[i].up /\ own[i].rev.epoch # d
    BY <1>1, <1>2, <2>1 DEF Away
  <2>3. r.rev.epoch = own[i].rev.epoch
    BY <1>1, <2>2 DEF OwnerInv, ProposalsStand, OfOperation
  <2>4. o.up = TRUE
    <3>1. IsSession(own[i]) /\ own[i].up = TRUE
      BY <1>1, <2>2 DEF SessionsStand
    <3> QED
      BY <3>1, PublishedSession DEF Outcome
  <2> QED
    BY <1>5, <2>2, <2>3, <2>4 DEF Away
<1> QED
  BY <1>2, <1>8, <1>9, <1>10, <1>11, SeenKept

LEMMA PublishSeen ==
  ASSUME OwnerInv, HistoryInv, SeenInv, NEW i \in Owners, Publish(i)
  PROVE  SeenInv'
<1> DEFINE r == prop[i].rec
           o == Published(own[i], r, prop[i].bytes)
           p == [own[i] EXCEPT !.poisoned = TRUE]
<1>1. /\ pc[i] = "publish" /\ InFlight(i) /\ own[i].up /\ epochs' = epochs
      /\ got[i] = r.id \/ r.kind = "CatalogDiscard"
      /\ \/ TellOutcome(i) /\ Finish(i, o) /\ observed' = observed \cup {ViewOf(o)}
         \/ Finish(i, p) /\ UNCHANGED storage /\ observed' = observed
  BY DEF Publish, InFlight
<1>2. StreamStands /\ SessionsStand /\ Prepared(i, r) /\ OfOperation(i, r) /\ PlanStands(i, r) /\ Shows(i)
  BY <1>1 DEF OwnerInv, ProposalsStand, HistoryInv, PlansStand, SeenInv
<1>3. CASE Finish(i, p) /\ UNCHANGED storage /\ observed' = observed
  <2>1. firm \in firm..Len(log) /\ log' = log /\ firm' = firm
    BY <1>2, <1>3, Replay DEF StreamStands, storage
  <2> QED
    BY <1>1, <1>3, <2>1, FinishSeen
<1>4. CASE TellOutcome(i) /\ Finish(i, o) /\ observed' = observed \cup {ViewOf(o)}
  <2>1. PICK k \in SameInput(i) : got[i] = log[k].id /\ k <= firm
    BY <1>1, <1>2 DEF Prepared
  <2>2. k \in DOMAIN log /\ k \in Position(i) /\ log[k].fp = r.fp
    BY <2>1 DEF SameInput, Position
  <2>3. log[k].id = r.id
    <3> SUFFICES ASSUME log[k].id # r.id PROVE FALSE
      OBVIOUS
    <3>1. r.kind = "CatalogDiscard"
      BY <1>1, <2>1
    <3>2. r.fp.kind = "CatalogDiscard" /\ r.fp.on = own[i].rev
      BY <1>2, <3>1 DEF PlanStands, OfOperation
    <3>3. log[k].rev = own[i].rev
      BY <2>2, <3>2 DEF SeenInv, StreamContinues
    <3>4. log[k].rev.epoch # own[i].rev.epoch \/ log[k].rev.state > own[i].rev.state
      BY <1>1, <1>2, <2>2 DEF Shows
    <3>5. own[i].rev.state \in Nat
      BY <1>1, <1>2 DEF SessionsStand, Revisions
    <3> QED
      BY <3>3, <3>4, <3>5
  <2>4. o = Outcome(i) /\ log' = log /\ firm' = firm
    BY <1>1, <1>4 DEF Outcome, TellOutcome
  <2> HIDE DEF o
  <2>5. /\ pc'[i] = "idle" /\ own'[i] = o
        /\ \A m \in Owners \ {i} : pc'[m] = pc[m] /\ own'[m] = own[m] /\ prop'[m] = prop[m]
    BY <1>1, <1>2, <1>4, Finishing
  <2> QED
    BY <1>1, <1>4, <2>1, <2>3, <2>4, <2>5, HandedOutSeen
<1> QED
  BY <1>1, <1>3, <1>4

LEMMA RecoveredSeen ==
  ASSUME OwnerInv, HistoryInv, SeenInv, NEW i \in Owners, Recovered(i)
  PROVE  SeenInv'
<1> DEFINE r == prop[i].rec
           o == prop[i].bytes
<1>1. /\ pc[i] = "publish" /\ InFlight(i) /\ ~own[i].up /\ UNCHANGED <<log, firm, epochs>>
      /\ observed' = observed \cup {ViewOf(o)}
  BY DEF Recovered, InFlight, storage
<1>2. Prepared(i, r) /\ OfRestart(i, r) /\ SessionsStand /\ StreamStands
  BY <1>1 DEF OwnerInv, ProposalsStand
<1>3. /\ pc'[i] = "idle" /\ own'[i] = o
      /\ \A m \in Owners \ {i} : pc'[m] = pc[m] /\ own'[m] = own[m] /\ prop'[m] = prop[m]
  BY <1>2 DEF Recovered, SessionsStand
<1>4. PICK k \in SameInput(i) : got[i] = log[k].id /\ k <= firm
  BY <1>1, <1>2 DEF Prepared
<1>5. log[k].id = r.id
  <2>1. log[k].req = r.id /\ log[k].req \in Requests \cup {log[k].id}
    BY <1>2, <1>4 DEF OfRestart, SameInput, Position, StreamStands
  <2>2. r.id \in Nat
    BY <1>2 DEF Prepared, SessionsStand
  <2> QED
    BY <2>1, <2>2, OwnerBounds
<1>6. o = Outcome(i)
  BY <1>1 DEF Outcome
<1> HIDE DEF o
<1> QED
  BY <1>1, <1>3, <1>4, <1>5, <1>6, HandedOutSeen

\* The base workbook, as it is shown.
LEMMA BaseView ==
  ASSUME NEW e
  PROVE  /\ ViewOf(FromBytes(e)) = ViewAt(e, 0) /\ FromBytes(e).rev.epoch = e
         /\ FromBytes(e).up = TRUE /\ ViewOf(FromBytes(e)).rev.epoch = e
<1> DEFINE h == StateAt(e, 0)
           v == [epoch |-> e, doc |-> 0, state |-> 0]
<1>1. /\ h.rev = v /\ h.gen = 0 /\ h.head = NoCommit
      /\ h.catalog = {} /\ Known(h) = {} /\ Rooted(h)
  BY BaseParts DEF Rooted
<1>2. StampAt(0) = "NotEvaluated"
  <2>1. StateAt(0, 0).calc = FALSE
    BY BaseParts
  <2>2. 1..0 = {}
    OBVIOUS
  <2> QED
    BY <2>1, <2>2 DEF StampAt
<1>3. Lineage(h, h.head) = << >>
  BY <1>1, LineageUnfolds
<1>4. ViewAt(e, 0) = [rev |-> h.rev, gen |-> h.gen, doc |-> Lineage(h, h.head), staged |-> h.catalog, stamp |-> StampAt(0)]
  BY DEF ViewAt
<1> HIDE DEF h
<1>5. ViewAt(e, 0) = [rev |-> v, gen |-> 0, doc |-> << >>, staged |-> {}, stamp |-> "NotEvaluated"]
  BY <1>1, <1>2, <1>3, <1>4
<1>6. /\ FromBytes(e).rev = v /\ FromBytes(e).gen = 0 /\ FromBytes(e).doc = << >> /\ FromBytes(e).staged = << >>
      /\ FromBytes(e).stamp = "NotEvaluated" /\ FromBytes(e).up = TRUE
  BY DEF FromBytes, Down
<1>7. DOMAIN << >> = {}
  OBVIOUS
<1>8. ViewOf(FromBytes(e)) = [rev |-> v, gen |-> 0, doc |-> << >>, staged |-> {}, stamp |-> "NotEvaluated"]
  BY <1>6, <1>7 DEF ViewOf
<1>9. v.epoch = e
  OBVIOUS
<1> HIDE DEF v
<1> QED
  BY <1>5, <1>6, <1>8, <1>9

LEMMA RecoverIdleSeen ==
  ASSUME OwnerInv, HistoryInv, SeenInv, NEW i \in Owners, RecoverIdle(i)
  PROVE  SeenInv'
<1> DEFINE n == Len(log)
<1>1. StreamStands /\ SessionsStand /\ RecordsStand /\ StreamContinues
  BY DEF OwnerInv, HistoryInv, SeenInv
<1>2. /\ pc[i] = "idle" /\ ~own[i].up /\ UNCHANGED <<log, firm, pc, prop>>
      /\ observed' = observed \cup {ViewOf(own'[i])}
      /\ \/ log = << >> /\ epochs' = epochs + 1 /\ own' = [own EXCEPT ![i] = FromBytes(epochs + 1)]
         \/ log # << >> /\ epochs' = epochs /\ own' = [own EXCEPT ![i] = RecoverFromRecords] /\ Replayed.discarded
  BY DEF RecoverIdle, storage
<1>3. /\ n \in Nat /\ DOMAIN log = 1..n /\ firm \in 0..n /\ firm' \in firm..n
      /\ epochs \in Nat /\ epochs' \in Nat /\ epochs' >= epochs /\ (log = << >> => n = 0)
  BY <1>1, <1>2, Replay DEF StreamStands, SessionsStand
<1>4. \A m \in Owners \ {i} : own'[m] = own[m] /\ prop'[m] = prop[m] /\ pc'[m] = pc[m]
  BY <1>1, <1>2 DEF SessionsStand
<1>5. Shows(i)'
  BY <1>2 DEF Shows, InFlight
<1>6. \A e, k : k \in 0..n => /\ StateAt(e, k)' = StateAt(e, k) /\ StampAt(k)' = StampAt(k)
                              /\ ViewAt(e, k)' = ViewAt(e, k) /\ Reattached(e, k)' = Reattached(e, k)
  BY <1>2, <1>3, SameStates
<1>7. CASE log = << >>
  <2> PICK e, o, v : e = epochs + 1 /\ o = FromBytes(e) /\ v = ViewOf(o)
    OBVIOUS
  <2>1. own'[i] = o /\ epochs' = e
    BY <1>1, <1>2, <1>7 DEF SessionsStand
  <2>2. v = ViewAt(e, 0) /\ o.rev.epoch = e /\ o.up = TRUE /\ v.rev.epoch = e
    BY BaseView
  <2>3. e \in 1..epochs' /\ 0 \in 0..firm /\ 0 \in 0..n
    BY <1>3, <2>1
  <2>4. v = ViewAt(e, 0)'
    BY <1>6, <2>2, <2>3
  <2>5. Seen(v)'
    BY <1>2, <2>1, <2>2, <2>3, <2>4 DEF Seen
  <2>6. Settled(i)'
    BY <1>2, <1>7, <2>1, <2>2, <2>4 DEF Settled
  <2>7. \A d \in 1..epochs : Away(i, d)'
    BY <1>3, <2>1, <2>2 DEF Away
  <2> QED
    BY <1>2, <1>3, <1>4, <1>5, <2>1, <2>5, <2>6, <2>7, SeenKept
<1>8. CASE log # << >> /\ Replayed.discarded
  <2> PICK o, v, r, e, m : /\ o = RecoverFromRecords /\ v = ViewOf(o) /\ r = log[n] /\ e = r.rev.epoch
                           /\ m = n - 1
    OBVIOUS
  <2> DEFINE g == StateAt(e, m)
             h == r.post
  <2>1. own'[i] = o /\ epochs' = epochs
    BY <1>1, <1>2, <1>8 DEF SessionsStand
  <2>2. n > 0 /\ n \in DOMAIN log /\ m \in 0..n /\ m # n /\ m + 1 = n /\ Replayed = h /\ h.rev = r.rev /\ Last = r
    <3>1. n > 0 /\ Replayed = Last.post /\ Replayed.rev = Last.rev
      BY <1>1, <1>8, Replay
    <3>2. Last = r
      BY DEF Last
    <3>3. n \in DOMAIN log /\ m \in 0..n /\ m # n /\ m + 1 = n
      BY <1>3, <3>1
    <3> QED
      BY <3>1, <3>2, <3>3
  <2>3. FollowsOn(g, r) /\ m \in 0..firm /\ e \in 1..epochs /\ e \in Nat
    <3>1. FollowsOn(g, r)
      BY <1>1, <2>2 DEF StreamContinues
    <3>2. firm >= m
      BY <1>1, <1>8 DEF StreamContinues
    <3>3. e \in 1..epochs
      BY <1>1, <2>2 DEF StreamStands
    <3>4. m \in 0..firm
      BY <1>3, <2>2, <3>2
    <3>5. e \in Nat
      BY <1>3, <3>3
    <3> QED
      BY <3>1, <3>3, <3>4, <3>5
  <2>4. g.rev \in Revisions /\ g.gen \in Nat
    BY <2>2, <2>3, StatesStand
  <2>5. r.kind = "ResourceDiscard" /\ ~g.discarded
    <3>1. h = After(g, r) /\ ~g.discarded
      BY <2>3 DEF FollowsOn
    <3>2. After(g, r).discarded <=> g.discarded \/ r.kind = "ResourceDiscard"
      BY DEF After
    <3> QED
      BY <1>8, <2>2, <3>1, <3>2
  <2>6. h.rev = g.rev /\ h.gen = g.gen /\ h.head = g.head /\ h.parents = g.parents /\ h.catalog = g.catalog
    <3> HIDE DEF g
    <3>1. r.kind \in {"ResourceDiscard", "Restart"} /\ r.kind # "Restart" /\ FollowsOn(g, r)
      BY <2>3, <2>5
    <3> QED
      BY <2>4, <3>1, DiscardAndRestart
  <2>7. /\ o.rev = Bump(h.rev, 0, 1) /\ o.doc = Lineage(h, h.head) /\ DOMAIN o.staged = h.catalog /\ o.gen = h.gen
        /\ o.stamp = "Dirty"
    <3>1. h.gen = Cardinality({j \in DOMAIN log : log[j].kind \in CatalogKinds})
      BY <1>1, <1>3, <2>2, GenerationCounts
    <3> QED
      BY <2>2, <3>1 DEF RecoverFromRecords
  <2>8. /\ IsSession(o) /\ o.up = TRUE /\ o.rev.epoch = h.rev.epoch /\ o.rev.state = h.rev.state + 1
    BY <1>1, <1>8, <2>2, RecoveredSession
  <2>9. Reattached(e, m) = [rev |-> Bump(g.rev, 0, 1), gen |-> g.gen, doc |-> Lineage(g, g.head),
                                staged |-> g.catalog, stamp |-> "Dirty"]
    BY ViewParts
  <2>10. Lineage(h, h.head) = Lineage(g, g.head)
    BY <2>6, SameLineages
  <2> HIDE DEF g, h
  <2>11. v = Reattached(e, m)
    BY <2>6, <2>7, <2>9, <2>10 DEF ViewOf
  <2>12. DiscardOrRestart(e, m)'
    <3>1. StateAt(e, m)' = g
      BY <1>2, <1>6, <2>2 DEF g
    <3> QED
      BY <1>2, <2>2, <2>5, <3>1 DEF DiscardOrRestart
  <2>13. Seen(v)'
    <3>1. v.rev.epoch = e
      BY <2>2, <2>8 DEF ViewOf
    <3>2. Reattached(e, m)' = Reattached(e, m)
      BY <1>2, <1>6, <2>2
    <3> QED
      BY <1>2, <2>1, <2>3, <2>11, <2>12, <3>1, <3>2 DEF Seen
  <2>14. Settled(i)'
    <3>1. ~InSync(i)'
      <4>1. InSync(i)' => o.rev = h.rev
        BY <1>1, <1>2, <1>8, <2>1, <2>2, SameStream, Replay DEF InSync
      <4>2. h.rev.state \in Nat
        BY <2>4, <2>6 DEF Revisions
      <4> QED
        BY <2>8, <4>1, <4>2
    <3> QED
      BY <1>2, <1>8, <3>1 DEF Settled
  <2>15. \A d \in 1..epochs : ~DiscardOrRestart(d, n)
    <3>1. n # 0 /\ h.discarded
      BY <1>8, <2>2
    <3>2. \A d : StateAt(d, n) = h
      BY <3>1 DEF StateAt, h
    <3> QED
      BY <3>1, <3>2 DEF DiscardOrRestart
  <2> QED
    BY <1>2, <1>3, <1>4, <1>5, <2>1, <2>13, <2>14, <2>15, SeenKept
<1> QED
  BY <1>2, <1>7, <1>8

\* An appended record continues the stream, and its owner shows the end of it.
LEMMA AppendsOn ==
  ASSUME OwnerInv, HistoryInv, SeenInv, NEW i \in Owners, CommitAppend(i)
  PROVE  LET r == prop[i].rec
             s == Stamped(r)
             n == Len(log)
             e == r.rev.epoch
             g == StateAt(e, n) IN
         /\ n \in Nat /\ e \in 1..epochs /\ e \in Nat /\ r.rev \in Revisions
         /\ Alike(r, s) /\ s.fp = r.fp /\ s.post.rev = r.rev /\ s.post.gen = r.gen /\ s.post = After(Replayed, r)
         /\ g.rev \in Revisions /\ g.gen \in Nat /\ g.calc \in BOOLEAN /\ g.rev.epoch = e
         /\ FollowsOn(g, s) /\ s.id \notin Known(g)
         /\ own[i].up => Works(i) /\ InSync(i) /\ ViewOf(own[i]) = ViewAt(e, n) /\ own[i].rev = g.rev
         /\ ~own[i].up => log # << >> /\ r.kind = "Restart"
         /\ log # << >> => e = log[1].rev.epoch
<1> DEFINE r == prop[i].rec
           s == Stamped(r)
           n == Len(log)
           e == r.rev.epoch
           g == StateAt(e, n)
           o == own[i]
<1>1. /\ pc[i] = "commit" /\ InFlight(i) /\ Prepared(i, r) /\ Accepts(Replayed, r) /\ r.parent = Replayed.tip
      /\ n \in Nat /\ DOMAIN log = 1..n /\ ~Replayed.discarded
      /\ \A k \in DOMAIN log : log[k].id # r.id
  BY AppendFacts
<1>2. /\ IsRecord(r) /\ r.rev \in Revisions /\ e \in 1..epochs /\ epochs \in Nat /\ StreamStands
      /\ IF o.up THEN OfOperation(i, r) ELSE OfRestart(i, r)
  BY <1>1 DEF Prepared, OwnerInv, SessionsStand, ProposalsStand
<1>3. e \in Nat
  BY <1>2
<1>4. Alike(r, s) /\ s.fp = r.fp /\ s.post = After(Replayed, r)
  BY <1>2 DEF Stamped, Alike, IsRecord
<1>5. s.post.rev = r.rev /\ s.post.gen = r.gen
  BY <1>1, <1>2, StampedFields
<1>6. log = << >> <=> n = 0
  BY <1>1, <1>2, Replay
<1>7. ~o.up => log # << >> /\ r.kind = "Restart"
  <2>1. log = << >> => Replayed.tip = NoCommit
    BY <1>2, Replay
  <2> QED
    BY <1>1, <1>2, <2>1 DEF OfRestart
<1>8. log # << >> => g = Replayed /\ e = log[1].rev.epoch
  <2> SUFFICES ASSUME log # << >> PROVE g = Replayed /\ e = log[1].rev.epoch
    OBVIOUS
  <2>1. g = Replayed
    BY <1>6 DEF StateAt, Replayed
  <2>2. n \in 0..n /\ n > 0
    BY <1>1, <1>6
  <2>3. g.rev.epoch = log[1].rev.epoch
    BY <1>3, <2>2, StreamEpoch
  <2>4. r.rev.epoch = Replayed.rev.epoch
    BY AppenderIsLast
  <2> QED
    BY <2>1, <2>3, <2>4
<1>9. g.rev \in Revisions /\ g.gen \in Nat /\ g.calc \in BOOLEAN
  <2>1. n \in 0..n
    BY <1>1
  <2> QED
    BY <1>3, <2>1, StatesStand
<1>10. g.rev.epoch = e
  <2>1. CASE log = << >>
    BY <1>6, <2>1, BaseEpoch
  <2>2. CASE log # << >>
    BY <1>8, <2>2, AppenderIsLast
  <2> QED
    BY <2>1, <2>2
<1>11. o.up => Works(i) /\ InSync(i) /\ o.rev.epoch = e
  BY <1>1, <1>2 DEF Works, OfOperation, OwnerInv, NothingSlippedIn
<1>12. o.up => ViewOf(o) = ViewAt(e, n)
  <2> SUFFICES ASSUME o.up PROVE ViewOf(o) = ViewAt(e, n)
    OBVIOUS
  <2>1. Settled(i)
    BY DEF SeenInv
  <2>2. CASE log = << >>
    BY <1>6, <1>11, <2>1, <2>2 DEF Settled
  <2>3. CASE log # << >>
    <3>1. o.rev = g.rev /\ o.gen = g.gen
      BY <1>2, <1>8, <1>11, <2>3, Replay
    <3>2. o.doc = Lineage(g, g.head) /\ DOMAIN o.staged = g.catalog
      BY <1>8, <1>11, <2>3 DEF HistoryInv, InStepAgrees, Agrees
    <3>3. o.stamp = StampAt(n)
      BY <1>11, <2>1, <2>3 DEF Settled
    <3> HIDE DEF o, g, n
    <3>4. ViewOf(o) = [rev |-> g.rev, gen |-> g.gen, doc |-> Lineage(g, g.head), staged |-> g.catalog, stamp |-> StampAt(n)]
      BY <3>1, <3>2, <3>3 DEF ViewOf
    <3> QED
      BY <3>4 DEF ViewAt, g
  <2> QED
    BY <2>2, <2>3
<1>13. o.up => o.rev = g.rev
  <2>1. ViewOf(o).rev = o.rev
    BY DEF ViewOf
  <2> QED
    BY <1>12, <2>1, ViewParts
<1>14. s.id \notin Known(g)
  <2>1. n \in 0..n
    BY <1>1
  <2>2. \A c \in Known(g) : \E j \in 1..n : log[j].id = c
    BY <1>3, <2>1, StatesStand
  <2>3. s.id = r.id
    BY <1>4 DEF Alike
  <2> QED
    BY <1>1, <2>2, <2>3
<1>15. FollowsOn(g, s)
  <2>1. ~g.discarded
    <3>1. CASE log = << >>
      BY <1>6, <3>1, BaseParts
    <3> QED
      BY <1>1, <1>8, <3>1
  <2>2. Follows(Replayed, r)
    BY <1>1 DEF Accepts
  <2>3. s.publishes => s.kind \in {"Mutation", "StageApply"}
    BY <1>4, <2>2 DEF Alike, Follows, PreparedShape
  <2>4. s.post = After(g, s)
    <3>1. s.post = After(Replayed, s)
      BY <1>4, AlikeAfter
    <3>2. CASE log = << >>
      <4>1. Replayed = Empty
        BY <1>2, <3>2, Replay
      <4> QED
        BY <1>6, <3>1, <3>2, <4>1, BaseAfter
    <3> QED
      BY <1>8, <3>1, <3>2
  <2>5. s.rev = RevAfter(g, s, g.rev)
    <3>1. s.rev = r.rev /\ RevAfter(g, s, g.rev) = RevAfter(g, r, g.rev)
      BY <1>4, AlikeRevision DEF Alike
    <3>2. CASE log = << >>
      <4>1. TargetOf(r) \in Known(Replayed) \cup {NoCommit}
        BY <2>2 DEF Follows, Permits, TargetOf
      <4>2. CommitStands(i, r) /\ o.up /\ InSync(i)
        BY <1>1, <1>7, <1>11, <3>2 DEF HistoryInv, PlansStand
      <4>3. r.rev = RevAfter(Replayed, r, o.rev)
        BY <1>1, <4>1, <4>2 DEF CommitStands
      <4>4. Replayed = Empty
        BY <1>2, <3>2, Replay
      <4>5. RevAfter(g, r, o.rev) = RevAfter(Empty, r, o.rev)
        BY <1>6, <3>2, BaseAfter
      <4> QED
        BY <1>13, <3>1, <4>2, <4>3, <4>4, <4>5
    <3>3. CASE log # << >>
      <4>1. Replayed.rev # NoRevision
        BY <1>2, <3>3, Replay
      <4>2. r.rev = RevAfter(Replayed, r, Replayed.rev)
        BY <2>2, <4>1 DEF Follows, RevisionFollows
      <4> QED
        BY <1>8, <3>1, <3>3, <4>2
    <3> QED
      BY <3>2, <3>3
  <2> QED
    BY <2>1, <2>3, <2>4, <2>5 DEF FollowsOn
<1> QED
  BY <1>1, <1>2, <1>3, <1>4, <1>5, <1>7, <1>8, <1>9, <1>10, <1>11, <1>12, <1>13, <1>14, <1>15

\* The calculation status is reset or goes on.
LEMMA CalcGoesOn ==
  ASSUME NEW g, NEW s, FollowsOn(g, s)
  PROVE  /\ ~Resets(g, s) => s.post.calc = g.calc
         /\ Resets(g, s) /\ s.kind = "CalculationPublish" => s.post.calc = TRUE
         /\ Resets(g, s) /\ s.kind # "CalculationPublish" => s.post.calc = FALSE
<1>1. s.post.calc = CalcAfter(g, s)
  <2>1. s.post = After(g, s)
    BY DEF FollowsOn
  <2>2. After(g, s).calc = CalcAfter(g, s)
    BY AfterParts
  <2> QED
    BY <2>1, <2>2
<1>2. s.publishes => s.kind \in {"Mutation", "StageApply"}
  BY DEF FollowsOn
<1>3. CASE s.kind = "CalculationPublish"
  <2>1. /\ s.kind \notin {"CalculationInvalidate", "Restart"} \cup HeadMoves /\ s.kind # "BranchSwitch" /\ ~s.publishes
        /\ Resets(g, s)
    BY <1>2, <1>3 DEF HeadMoves, Resets
  <2>2. CalcAfter(g, s) = TRUE
    BY <1>3, <2>1 DEF CalcAfter
  <2> QED
    BY <1>1, <1>3, <2>1, <2>2
<1>4. CASE s.kind # "CalculationPublish" /\ Resets(g, s)
  <2>1. \/ s.kind \in {"CalculationInvalidate", "Restart"} \cup HeadMoves
        \/ s.kind = "BranchSwitch" /\ g.head # s.head
        \/ s.publishes /\ ~s.preserve
    BY <1>4 DEF Resets, DocumentChange
  <2> QED
    BY <1>1, <1>4, <2>1 DEF CalcAfter
<1>5. CASE s.kind # "CalculationPublish" /\ ~Resets(g, s)
  <2>1. /\ s.kind \notin {"CalculationInvalidate", "Restart"} \cup HeadMoves
        /\ ~(s.kind = "BranchSwitch" /\ g.head # s.head)
        /\ ~(s.publishes /\ ~s.preserve)
    BY <1>2, <1>5 DEF Resets, DocumentChange, HeadMoves
  <2> QED
    BY <1>1, <1>5, <2>1 DEF CalcAfter
<1> QED
  BY <1>3, <1>4, <1>5

\* The stamp after the appended record.
LEMMA StampGoesOn ==
  ASSUME OwnerInv, HistoryInv, SeenInv, NEW i \in Owners, CommitAppend(i)
  PROVE  LET s == Stamped(prop[i].rec)
             n == Len(log)
             g == StateAt(prop[i].rec.rev.epoch, n) IN
         \A x : x = n + 1 => StampAt(x)' = IF ~Resets(g, s) THEN StampAt(n)
                                          ELSE IF s.kind = "CalculationPublish" THEN "Current" ELSE "Dirty"
<1> DEFINE r == prop[i].rec
           e == r.rev.epoch
<1>1. PICK n, s, g, z : n = Len(log) /\ s = Stamped(r) /\ g = StateAt(e, n) /\ z = StateAt(0, n)
  OBVIOUS
<1>2. /\ n \in Nat /\ g.calc \in BOOLEAN /\ FollowsOn(g, s) /\ s.id \notin Known(g)
  BY <1>1, AppendsOn
<1>3. /\ DOMAIN log' = 1..(n + 1) /\ (\A k \in 1..n : log'[k] = log[k]) /\ log'[n + 1] = s
  BY <1>1, AppendFacts
<1>4. g.calc = z.calc /\ g.head = z.head
  BY <1>1, BaseParts DEF StateAt
<1>5. Resets(z, s) <=> Resets(g, s)
  BY <1>4 DEF Resets, DocumentChange
<1>6. \A d, k : k \in 0..n => StateAt(d, k)' = StateAt(d, k)
  BY <1>2, <1>3, SameStates
<1> SUFFICES ASSUME NEW x, x = n + 1
             PROVE  StampAt(x)' = IF ~Resets(g, s) THEN StampAt(n)
                                  ELSE IF s.kind = "CalculationPublish" THEN "Current" ELSE "Dirty"
  BY <1>1
<1>8. StateAt(0, x)' = s.post
  BY <1>2, <1>3 DEF StateAt
<1>9. (\E j \in 1..x : Resets(StateAt(0, j - 1)', log'[j])) <=>
         (\E j \in 1..n : Resets(StateAt(0, j - 1), log[j])) \/ Resets(g, s)
  <2>1. \A j \in 1..x : j \in 1..n \/ j = n + 1
    BY <1>2
  <2>2. n + 1 \in 1..x /\ \A j \in 1..n : j \in 1..x /\ j - 1 \in 0..n
    BY <1>2
  <2>3. (n + 1) - 1 = n /\ n \in 0..n
    BY <1>2
  <2>4. \A j \in 1..n : Resets(StateAt(0, j - 1)', log'[j]) <=> Resets(StateAt(0, j - 1), log[j])
    BY <1>3, <1>6, <2>2
  <2>5. Resets(StateAt(0, (n + 1) - 1)', log'[n + 1]) <=> Resets(g, s)
    BY <1>1, <1>3, <1>5, <1>6, <2>3
  <2> QED
    BY <2>1, <2>2, <2>4, <2>5
<1>10. StampAt(x)' = IF s.post.calc THEN "Current"
                     ELSE IF (\E j \in 1..n : Resets(StateAt(0, j - 1), log[j])) \/ Resets(g, s)
                          THEN "Dirty" ELSE "NotEvaluated"
  BY <1>8, <1>9 DEF StampAt
<1>11. StampAt(n) = IF g.calc THEN "Current"
                    ELSE IF \E j \in 1..n : Resets(StateAt(0, j - 1), log[j]) THEN "Dirty" ELSE "NotEvaluated"
  BY <1>1, <1>4 DEF StampAt
<1>12. /\ ~Resets(g, s) => s.post.calc = g.calc
       /\ Resets(g, s) /\ s.kind = "CalculationPublish" => s.post.calc = TRUE
       /\ Resets(g, s) /\ s.kind # "CalculationPublish" => s.post.calc = FALSE
  BY <1>2, CalcGoesOn
<1> QED
  BY ONLY <1>10, <1>11, <1>12, Zenon

\* The session in memory resets its stamp exactly when the record does.
LEMMA PublishedStampIs ==
  ASSUME NEW o, IsSession(o), o.rev \in Revisions, NEW g, NEW r, NEW s, Alike(r, s), NEW b,
         FollowsOn(g, s), o.rev = g.rev, Published(o, r, b).rev = r.rev, r.kind # "Restart"
  PROVE  Published(o, r, b).stamp = IF ~Resets(g, s) THEN o.stamp
                                    ELSE IF s.kind = "CalculationPublish" THEN "Current" ELSE "Dirty"
<1> DEFINE p == Published(o, r, b)
           moves == r.publishes \/ b # NoBytes
           v == o.rev
<1>1. /\ p.rev = IF moves THEN Bump(v, 1, 1) ELSE IF CatalogOnly(r) \/ (r.kind = "CalculationInvalidate" /\ o.stamp = "Dirty")
                                                  THEN v ELSE Bump(v, 0, 1)
      /\ p.stamp = CASE moves /\ ~(r.publishes /\ r.preserve) -> "Dirty"
                     [] r.kind = "CalculationInvalidate"      -> "Dirty"
                     [] r.kind = "CalculationPublish"         -> "Current"
                     [] OTHER                                 -> o.stamp
  BY PublishedFields
<1>2. r.rev = RevAfter(g, r, v)
  <2>1. s.rev = RevAfter(g, s, g.rev) /\ s.rev = r.rev
    BY DEF FollowsOn, Alike
  <2>2. RevAfter(g, s, g.rev) = RevAfter(g, r, g.rev)
    BY AlikeRevision
  <2> QED
    BY <2>1, <2>2
<1>3. r.rev.doc = v.doc + (IF DocumentChange(g, r) THEN 1 ELSE 0)
  BY <1>2 DEF RevAfter
<1>4. p.rev.doc = v.doc + (IF moves THEN 1 ELSE 0) /\ v.doc \in Nat
  <2>1. v.doc \in Nat
    BY DEF Revisions
  <2>2. Bump(v, 1, 1).doc = v.doc + 1 /\ Bump(v, 0, 1).doc = v.doc + 0
    <3>1. Bump(v, 1, 1) = [epoch |-> v.epoch, doc |-> v.doc + 1, state |-> v.state + 1]
      BY BumpedIs
    <3>2. Bump(v, 0, 1) = [epoch |-> v.epoch, doc |-> v.doc + 0, state |-> v.state + 1]
      BY BumpedIs
    <3> QED
      BY <3>1, <3>2
  <2> HIDE DEF v, p, moves
  <2>3. CASE moves
    BY <1>1, <2>1, <2>2, <2>3
  <2>4. CASE ~moves
    <3>1. p.rev = v \/ p.rev = Bump(v, 0, 1)
      BY <1>1, <2>4
    <3> QED
      BY <2>1, <2>2, <2>4, <3>1
  <2> QED
    BY <2>3, <2>4
<1> HIDE DEF p, v
<1>5. moves <=> DocumentChange(g, r)
  <2>1. v.doc + (IF DocumentChange(g, r) THEN 1 ELSE 0) = v.doc + (IF moves THEN 1 ELSE 0)
    BY <1>3, <1>4 DEF p
  <2> HIDE DEF moves
  <2> QED
    BY <1>4, <2>1
<1>6. /\ s.kind = r.kind /\ s.publishes = r.publishes /\ s.preserve = r.preserve
      /\ DocumentChange(g, s) <=> DocumentChange(g, r)
  BY DEF Alike, DocumentChange
<1>7. s.publishes => s.kind \in {"Mutation", "StageApply"}
  BY DEF FollowsOn
<1>8. CASE r.kind = "CalculationPublish"
  <2>1. ~moves
    BY <1>5, <1>6, <1>7, <1>8 DEF DocumentChange, HeadMoves
  <2>2. Resets(g, s)
    BY <1>6, <1>8 DEF Resets
  <2>3. p.stamp = "Current"
    BY <1>1, <1>8, <2>1
  <2> QED
    BY <1>6, <1>8, <2>2, <2>3 DEF p
<1>9. CASE r.kind # "CalculationPublish" /\ Resets(g, s)
  <2>1. r.kind = "CalculationInvalidate" \/ (moves /\ ~(r.publishes /\ r.preserve))
    BY <1>5, <1>6, <1>9 DEF Resets
  <2>2. p.stamp = "Dirty"
    BY <1>1, <1>9, <2>1
  <2> QED
    BY <1>6, <1>9, <2>2 DEF p
<1>10. CASE ~Resets(g, s)
  <2>1. r.kind \notin {"CalculationInvalidate", "CalculationPublish"} /\ ~(moves /\ ~(r.publishes /\ r.preserve))
    BY <1>5, <1>6, <1>10 DEF Resets
  <2>2. p.stamp = o.stamp
    BY <1>1, <2>1
  <2> QED
    BY <1>10, <2>2 DEF p
<1> QED
  BY <1>8, <1>9, <1>10

\* What an operation will show is the view of its record.
LEMMA OutcomeShows ==
  ASSUME OwnerInv, HistoryInv, SeenInv, NEW i \in Owners, CommitAppend(i)
  PROVE  \A x, d : x = Len(log) + 1 => ViewOf(Outcome(i)) = ViewAt(d, x)'
<1> DEFINE r == prop[i].rec
<1>1. PICK n, s, e, g, o, p : /\ n = Len(log) /\ s = Stamped(r) /\ e = r.rev.epoch /\ g = StateAt(e, n)
                              /\ o = own[i] /\ p = Outcome(i)
  OBVIOUS
<1> SUFFICES ASSUME NEW x, NEW d, x = n + 1 PROVE ViewOf(p) = ViewAt(d, x)'
  BY <1>1
<1>2. /\ n \in Nat /\ Alike(r, s) /\ s.post.rev = r.rev /\ s.post.gen = r.gen /\ s.post = After(Replayed, r)
      /\ FollowsOn(g, s) /\ g.rev \in Revisions /\ r.rev \in Revisions
      /\ o.up => Works(i) /\ InSync(i) /\ ViewOf(o) = ViewAt(e, n) /\ o.rev = g.rev
      /\ ~o.up => r.kind = "Restart"
  BY <1>1, AppendsOn
<1>3. pc[i] = "commit" /\ InFlight(i) /\ Accepts(Replayed, r) /\ r.parent = Replayed.tip /\ log'[n + 1] = s
  BY <1>1, AppendFacts
<1>4. PlanStands(i, r) /\ CommitStands(i, r) /\ Shows(i)
  BY <1>3 DEF HistoryInv, PlansStand, SeenInv
<1>5. StateAt(d, x)' = s.post
  BY <1>2, <1>3 DEF StateAt
<1>6. p.rev = r.rev /\ p.gen = r.gen
  <2>1. CASE o.up
    BY <1>1, <1>4, <2>1 DEF PlanStands
  <2>2. CASE ~o.up
    <3>1. OfRestart(i, r)
      BY <1>1, <1>3, <2>2 DEF OwnerInv, ProposalsStand
    <3> QED
      BY <1>1, <2>2, <3>1 DEF OfRestart, Outcome
  <2> QED
    BY <2>1, <2>2
<1>7. Agrees(p, s.post)
  <2>1. TargetOf(r) \in Known(Replayed) \cup {NoCommit}
    BY <1>3 DEF Accepts, Follows, Permits, TargetOf
  <2> QED
    BY <1>1, <1>2, <1>3, <1>4, <2>1 DEF CommitStands
<1>8. StampAt(x)' = IF ~Resets(g, s) THEN StampAt(n)
                    ELSE IF s.kind = "CalculationPublish" THEN "Current" ELSE "Dirty"
  BY <1>1, StampGoesOn
<1>9. p.stamp = StampAt(x)'
  <2>1. CASE o.up
    <3>1. IsSession(o) /\ p = Published(o, r, prop[i].bytes) /\ r.kind # "Restart"
      BY <1>1, <1>4, <2>1 DEF OwnerInv, SessionsStand, Outcome, PlanStands
    <3>2. o.stamp = StampAt(n)
      <4>1. ViewOf(o).stamp = o.stamp
        BY DEF ViewOf
      <4> QED
        BY <1>2, <2>1, <4>1, ViewParts
    <3>3. p.stamp = IF ~Resets(g, s) THEN o.stamp
                    ELSE IF s.kind = "CalculationPublish" THEN "Current" ELSE "Dirty"
      BY <1>2, <1>6, <2>1, <3>1, PublishedStampIs
    <3> QED
      BY <1>8, <3>2, <3>3
  <2>2. CASE ~o.up
    <3>1. p.stamp = "Dirty"
      BY <1>1, <1>3, <1>4, <2>2 DEF Shows
    <3>2. s.kind = "Restart" /\ Resets(g, s)
      BY <1>2, <2>2 DEF Alike, Resets
    <3> QED
      BY <1>8, <3>1, <3>2
  <2> QED
    BY <2>1, <2>2
<1>10. ViewOf(p) = [rev |-> s.post.rev, gen |-> s.post.gen, doc |-> Lineage(s.post, s.post.head),
                    staged |-> s.post.catalog, stamp |-> StampAt(x)']
  BY <1>2, <1>6, <1>7, <1>9 DEF ViewOf, Agrees
<1>11. ViewAt(d, x)' = [rev |-> s.post.rev, gen |-> s.post.gen, doc |-> Lineage(s.post, s.post.head),
                        staged |-> s.post.catalog, stamp |-> StampAt(x)']
  BY <1>5 DEF ViewAt
<1> QED
  BY <1>10, <1>11

\* One state leads to another: nothing is forgotten, and a token that comes
\* back is the same state.
Leads(g, a, h, b) ==
    /\ g.rev.epoch = h.rev.epoch /\ g.rev.state <= h.rev.state /\ g.gen <= h.gen
    /\ Extended(g, h)
    /\ g.rev.state = h.rev.state => g.head = h.head /\ a = b /\ (g.gen = h.gen => g.catalog = h.catalog)

LEMMA LeadsOn ==
  ASSUME NEW g, NEW a, NEW h, NEW b, NEW u, NEW c, Leads(g, a, h, b), Leads(h, b, u, c),
         g.rev.state \in Nat, h.rev.state \in Nat, u.rev.state \in Nat, g.gen \in Nat, h.gen \in Nat, u.gen \in Nat
  PROVE  Leads(g, a, u, c)
<1>1. Extended(g, u)
  BY DEF Leads, Extended
<1>2. g.rev.epoch = u.rev.epoch /\ g.rev.state <= u.rev.state /\ g.gen <= u.gen
  BY DEF Leads
<1>3. ASSUME g.rev.state = u.rev.state
      PROVE  g.head = u.head /\ a = c /\ (g.gen = u.gen => g.catalog = u.catalog)
  <2>1. g.rev.state = h.rev.state /\ h.rev.state = u.rev.state
    BY <1>3 DEF Leads
  <2>2. g.gen = u.gen => g.gen = h.gen /\ h.gen = u.gen
    BY DEF Leads
  <2> QED
    BY <2>1, <2>2 DEF Leads
<1> QED
  BY <1>1, <1>2, <1>3 DEF Leads

\* An appended record leads on from the state before it.
LEMMA AppendLeads ==
  ASSUME OwnerInv, HistoryInv, SeenInv, NEW i \in Owners, CommitAppend(i)
  PROVE  LET s == Stamped(prop[i].rec)
             n == Len(log)
             g == StateAt(prop[i].rec.rev.epoch, n) IN
         \A x : x = n + 1 => Leads(g, StampAt(n), s.post, StampAt(x)')
<1>1. PICK n, s, g, e : /\ n = Len(log) /\ s = Stamped(prop[i].rec) /\ e = prop[i].rec.rev.epoch /\ g = StateAt(e, n)
  OBVIOUS
<1> SUFFICES ASSUME NEW x, x = n + 1 PROVE Leads(g, StampAt(n), s.post, StampAt(x)')
  BY <1>1
<1>2. /\ n \in Nat /\ g.rev \in Revisions /\ g.gen \in Nat /\ FollowsOn(g, s) /\ s.id \notin Known(g)
  BY <1>1, AppendsOn
<1> DEFINE h == s.post
<1>3. /\ h.rev.epoch = g.rev.epoch
      /\ h.rev.state = g.rev.state + (IF CatalogOnly(s) THEN 0 ELSE 1)
      /\ h.gen = g.gen + (IF s.kind \in CatalogKinds THEN 1 ELSE 0)
      /\ Extended(g, h)
      /\ CatalogOnly(s) => h.head = g.head /\ ~Resets(g, s)
      /\ s.kind \notin CatalogKinds => h.catalog = g.catalog
  BY <1>2, StepChanges
<1>4. g.rev.state \in Nat
  BY <1>2 DEF Revisions
<1> HIDE DEF h
<1>5. g.rev.state <= h.rev.state /\ g.gen <= h.gen
  BY <1>2, <1>3, <1>4
<1>6. g.rev.state = h.rev.state => CatalogOnly(s)
  BY <1>3, <1>4
<1>7. g.gen = h.gen => s.kind \notin CatalogKinds
  BY <1>2, <1>3
<1>8. ~Resets(g, s) => StampAt(x)' = StampAt(n)
  BY <1>1, StampGoesOn
<1>9. Leads(g, StampAt(n), h, StampAt(x)')
  BY ONLY <1>3, <1>5, <1>6, <1>7, <1>8, Zenon DEF Leads
<1> QED
  BY <1>9 DEF h

\* The stream goes on.
LEMMA StreamGoesOn ==
  ASSUME OwnerInv, HistoryInv, SeenInv, NEW i \in Owners, CommitAppend(i)
  PROVE  StreamContinues' /\ log'[1].rev.epoch = prop[i].rec.rev.epoch
<1> DEFINE r == prop[i].rec
<1>1. PICK n, s, g, e, x : /\ n = Len(log) /\ s = Stamped(r) /\ e = r.rev.epoch /\ g = StateAt(e, n) /\ x = n + 1
  OBVIOUS
<1>2. /\ n \in Nat /\ e \in Nat /\ Alike(r, s) /\ s.fp = r.fp
      /\ g.rev \in Revisions /\ g.gen \in Nat /\ FollowsOn(g, s) /\ s.id \notin Known(g)
      /\ own[i].up => Works(i) /\ InSync(i)
      /\ ~own[i].up => r.kind = "Restart"
      /\ log # << >> => e = log[1].rev.epoch
  BY <1>1, AppendsOn
<1>3. /\ DOMAIN log = 1..n /\ DOMAIN log' = 1..(n + 1) /\ Len(log') = n + 1 /\ log' # << >>
      /\ (\A k \in 1..n : log'[k] = log[k] /\ log[k].id # r.id) /\ log'[n + 1] = s
      /\ firm' = firm /\ Replayed' = s.post /\ InFlight(i)
  <2>1. /\ DOMAIN log = 1..Len(log) /\ DOMAIN log' = 1..(Len(log) + 1) /\ Len(log') = Len(log) + 1 /\ log' # << >>
        /\ (\A k \in DOMAIN log : log'[k] = log[k] /\ log[k].id # r.id) /\ log'[Len(log) + 1] = Stamped(r)
        /\ firm' = firm /\ Replayed' = Stamped(r).post /\ InFlight(i)
    BY AppendFacts
  <2> QED
    BY <1>1, <2>1
<1>4. firm \in 0..n /\ (log = << >> <=> n = 0)
  BY <1>1, <1>2, Replay DEF OwnerInv, StreamStands
<1>5. s.rev.epoch = e /\ s.rev = r.rev /\ s.kind = r.kind
  BY <1>1, <1>2 DEF Alike
<1>6. log'[1].rev.epoch = e
  <2>1. CASE n = 0
    BY <1>3, <1>5, <2>1
  <2>2. CASE n # 0
    <3>1. 1 \in 1..n
      BY <1>2, <2>2
    <3> QED
      BY <1>2, <1>3, <1>4, <2>2, <3>1
  <2> QED
    BY <2>1, <2>2
<1>7. \A d, k : k \in 0..n => StateAt(d, k)' = StateAt(d, k) /\ StampAt(k)' = StampAt(k)
  BY <1>2, <1>3, SameStates
<1>8. \A d : StateAt(d, x)' = s.post
  BY <1>1, <1>2, <1>3 DEF StateAt
<1>9. \A k \in DOMAIN log' : FollowsOn(StateAt(log[k].rev.epoch, k - 1), log[k])'
  <2> SUFFICES ASSUME NEW k \in DOMAIN log' PROVE FollowsOn(StateAt(log[k].rev.epoch, k - 1), log[k])'
    OBVIOUS
  <2>1. PICK d, j, t : d = log'[k].rev.epoch /\ j = k - 1 /\ t = log'[k]
    OBVIOUS
  <2>2. FollowsOn(StateAt(d, j)', t)
    <3>1. CASE k = n + 1
      <4>1. j = n /\ n \in 0..n /\ t = s /\ d = e
        BY <1>2, <1>3, <1>5, <2>1, <3>1
      <4>2. StateAt(d, j)' = g
        BY <1>1, <1>7, <4>1
      <4> QED
        BY <1>2, <4>1, <4>2
    <3>2. CASE k \in 1..n
      <4>1. j \in 0..n /\ t = log[k] /\ d = log[k].rev.epoch
        BY <1>2, <1>3, <2>1, <3>2
      <4>2. StateAt(d, j)' = StateAt(d, j)
        BY <1>7, <4>1
      <4>3. FollowsOn(StateAt(log[k].rev.epoch, k - 1), log[k])
        BY <1>3, <3>2 DEF SeenInv, StreamContinues
      <4> QED
        BY <2>1, <4>1, <4>2, <4>3
    <3>3. k = n + 1 \/ k \in 1..n
      BY <1>2, <1>3
    <3> QED
      BY <3>1, <3>2, <3>3
  <2> QED
    BY <2>1, <2>2 DEF FollowsOn
<1>10. \A j, k \in 0..n : j <= k => Leads(StateAt(e, j), StampAt(j), StateAt(e, k), StampAt(k))
  <2> SUFFICES ASSUME NEW j \in 0..n, NEW k \in 0..n, j <= k
               PROVE  Leads(StateAt(e, j), StampAt(j), StateAt(e, k), StampAt(k))
    OBVIOUS
  <2>1. CASE log # << >>
    <3>1. Continues(j, k)
      BY <1>1, <2>1 DEF SeenInv, StreamContinues
    <3> QED
      BY <1>2, <2>1, <3>1 DEF Continues, Leads, Extended
  <2>2. CASE log = << >>
    <3>1. j = 0 /\ k = 0
      BY <1>4, <2>2
    <3>2. StateAt(e, 0).rev.state = 0 /\ StateAt(e, 0).gen = 0
      BY BaseEpoch, BaseParts
    <3> QED
      BY <3>1, <3>2 DEF Leads, Extended
  <2> QED
    BY <2>1, <2>2
<1>11. Leads(g, StampAt(n), s.post, StampAt(x)')
  BY <1>1, AppendLeads
<1>12. \A k \in 0..n : StateAt(e, k).rev.state \in Nat /\ StateAt(e, k).gen \in Nat
  BY <1>1, <1>2, StatesStand
<1>13. s.post.rev.state \in Nat /\ s.post.gen \in Nat
  <2>1. /\ s.post.rev.state = g.rev.state + (IF CatalogOnly(s) THEN 0 ELSE 1)
        /\ s.post.gen = g.gen + (IF s.kind \in CatalogKinds THEN 1 ELSE 0)
    BY <1>2, StepChanges
  <2>2. g.rev.state \in Nat
    BY <1>2 DEF Revisions
  <2> QED
    BY <1>2, <2>1, <2>2
<1>14. \A j, k \in 0..x : j <= k => Leads(StateAt(e, j)', StampAt(j)', StateAt(e, k)', StampAt(k)')
  <2> SUFFICES ASSUME NEW j \in 0..x, NEW k \in 0..x, j <= k
               PROVE  Leads(StateAt(e, j)', StampAt(j)', StateAt(e, k)', StampAt(k)')
    OBVIOUS
  <2>1. n \in 0..n /\ (j \in 0..n \/ j = x) /\ (k \in 0..n \/ k = x) /\ (j = x => k = x)
    BY <1>1, <1>2
  <2>2. CASE k \in 0..n
    <3>1. j \in 0..n
      BY <1>1, <1>2, <2>1, <2>2
    <3>2. Leads(StateAt(e, j), StampAt(j), StateAt(e, k), StampAt(k))
      BY <1>10, <2>2, <3>1
    <3> QED
      BY <1>7, <2>2, <3>1, <3>2
  <2>3. CASE k = x /\ j \in 0..n
    <3>1. Leads(StateAt(e, j), StampAt(j), g, StampAt(n))
      <4>1. j <= n
        BY <1>2, <2>3
      <4> QED
        BY <1>1, <1>10, <2>1, <2>3, <4>1
    <3>2. g.rev.state \in Nat /\ StateAt(e, j).rev.state \in Nat /\ StateAt(e, j).gen \in Nat
      BY <1>1, <1>12, <2>1, <2>3
    <3>3. Leads(StateAt(e, j), StampAt(j), s.post, StampAt(x)')
      BY <1>2, <1>11, <1>13, <3>1, <3>2, LeadsOn
    <3> QED
      BY <1>7, <1>8, <2>3, <3>3
  <2>4. CASE j = x
    <3>1. Leads(s.post, StampAt(x)', s.post, StampAt(x)')
      BY <1>13 DEF Leads, Extended
    <3> QED
      BY <1>8, <2>1, <2>4, <3>1
  <2> QED
    BY <2>1, <2>2, <2>3, <2>4
<1>15. \A j, k \in 0..Len(log') : j <= k => Continues(j, k)'
  <2> SUFFICES ASSUME NEW j \in 0..Len(log'), NEW k \in 0..Len(log'), j <= k PROVE Continues(j, k)'
    OBVIOUS
  <2>1. PICK u, w, a, b : u = StateAt(e, j)' /\ w = StateAt(e, k)' /\ a = StampAt(j)' /\ b = StampAt(k)'
    OBVIOUS
  <2>2. Leads(u, a, w, b)
    BY <1>1, <1>3, <1>14, <2>1
  <2>3. /\ u.rev.epoch = w.rev.epoch /\ u.rev.state <= w.rev.state /\ u.gen <= w.gen
        /\ \A c \in Known(u) : c \in Known(w) /\ w.parents[c] = u.parents[c]
        /\ u.rev.state = w.rev.state => u.head = w.head /\ a = b /\ (u.gen = w.gen => u.catalog = w.catalog)
    BY <2>2 DEF Leads, Extended
  <2> QED
    BY <1>6, <2>1, <2>3 DEF Continues
<1>16. \A k \in DOMAIN log' : log'[k].fp.kind = "CatalogDiscard" => log'[k].fp.on = log'[k].rev
  <2> SUFFICES ASSUME NEW k \in DOMAIN log', log'[k].fp.kind = "CatalogDiscard" PROVE log'[k].fp.on = log'[k].rev
    OBVIOUS
  <2>1. k = n + 1 \/ k \in 1..n
    BY <1>2, <1>3
  <2>2. CASE k = n + 1
    <3>1. PlanStands(i, r)
      BY <1>3 DEF HistoryInv, PlansStand
    <3> QED
      BY <1>2, <1>3, <1>5, <2>2, <3>1 DEF PlanStands
  <2>3. CASE k \in 1..n
    BY <1>3, <2>3 DEF SeenInv, StreamContinues
  <2> QED
    BY <2>1, <2>2, <2>3
<1>17. Replayed'.discarded => firm' >= Len(log') - 1
  <2> SUFFICES ASSUME Replayed'.discarded PROVE firm >= n
    BY <1>2, <1>3, <1>4
  <2>1. s.kind = "ResourceDiscard"
    BY <1>2, <1>3, StepChanges
  <2>2. Works(i) /\ InSync(i)
    BY <1>2, <1>5, <2>1
  <2>3. CASE log = << >>
    BY <1>4, <2>3
  <2>4. CASE log # << >>
    <3>1. firm = n \/ Last.id = r.id
      BY <1>1, <2>2, <2>4 DEF SeenInv, Settled
    <3>2. Last.id # r.id
      <4>1. n \in 1..n
        BY <1>2, <1>4, <2>4
      <4> QED
        BY <1>1, <1>3, <4>1 DEF Last
    <3> QED
      BY <1>2, <3>1, <3>2
  <2> QED
    BY <2>3, <2>4
<1>18. StreamContinues'
  BY <1>9, <1>15, <1>16, <1>17 DEF StreamContinues
<1> QED
  BY <1>1, <1>6, <1>18

\* Owners see their own record; everybody else has been passed.
LEMMA AppendOwners ==
  ASSUME OwnerInv, HistoryInv, SeenInv, OwnerInv', NEW i \in Owners, CommitAppend(i), NEW m \in Owners
  PROVE  Settled(m)' /\ Shows(m)'
<1> DEFINE r == prop[i].rec
<1>1. PICK n, s, g, e, x : /\ n = Len(log) /\ s = Stamped(r) /\ e = r.rev.epoch /\ g = StateAt(e, n) /\ x = n + 1
  OBVIOUS
<1>2. /\ n \in Nat /\ Alike(r, s) /\ r.rev \in Revisions
      /\ g.rev \in Revisions /\ FollowsOn(g, s) /\ s.id \notin Known(g)
      /\ own[i].up => ViewOf(own[i]) = ViewAt(e, n) /\ own[i].rev = g.rev
  BY <1>1, AppendsOn
<1>3. /\ DOMAIN log = 1..n /\ DOMAIN log' = 1..(n + 1) /\ Len(log') = n + 1 /\ log' # << >>
      /\ (\A k \in 1..n : log'[k] = log[k] /\ log[k].id # r.id /\ log[k].req # r.req) /\ log'[n + 1] = s
      /\ own' = own /\ prop' = prop /\ Last' = s /\ Replayed' = s.post /\ Replayed'.rev = r.rev
      /\ InFlight(i) /\ Prepared(i, r) /\ (InFlight(m)' <=> InFlight(m))
  <2>1. /\ DOMAIN log = 1..Len(log) /\ DOMAIN log' = 1..(Len(log) + 1) /\ Len(log') = Len(log) + 1 /\ log' # << >>
        /\ \A k \in DOMAIN log : log'[k] = log[k] /\ log[k].id # r.id /\ log[k].req # r.req
        /\ log'[Len(log) + 1] = Stamped(r)
        /\ own' = own /\ prop' = prop /\ Last' = Stamped(r) /\ Replayed' = Stamped(r).post /\ Replayed'.rev = r.rev
        /\ InFlight(i) /\ Prepared(i, r) /\ (InFlight(m)' <=> InFlight(m))
    BY AppendFacts
  <2> QED
    BY <1>1, <2>1
<1>4. s.id = r.id /\ s.req = r.req /\ s.rev = r.rev /\ s.by = i
  <2>1. s.by = i
    <3>1. IsRecord(r) /\ r.by = i /\ Accepts(Replayed, r)
      BY AppendFacts DEF Prepared
    <3>2. Stamped(r).by = r.by
      BY <3>1, StampedFields
    <3> QED
      BY <1>1, <3>1, <3>2
  <2> QED
    BY <1>2, <2>1 DEF Alike
<1>5. \A d, k : k \in 0..n => ViewAt(d, k)' = ViewAt(d, k)
  BY <1>2, <1>3, SameStates
<1>6. Outcome(m)' = Outcome(m)
  BY <1>3 DEF Outcome
<1>7. \A k \in 1..n : k \in Position(m)' <=> k \in Position(m)
  BY <1>2, <1>3 DEF Position
<1>8. \A k \in DOMAIN log' : k \in 1..n \/ k = x
  BY <1>1, <1>2, <1>3
<1>9. CASE m = i
  <2>1. Settled(m)'
    <3> SUFFICES ASSUME Works(i)', InSync(i)'
                 PROVE  own'[i].stamp = StampAt(Len(log))' /\ InFlight(i)' /\ Last'.id = prop'[i].rec.id
      BY <1>3, <1>9 DEF Settled
    <3>1. own[i].up /\ own[i].rev = r.rev
      <4>1. Replayed'.rev # NoRevision
        BY <1>2, <1>3, OwnerBounds DEF Revisions
      <4> QED
        BY <1>3, <4>1 DEF InSync, Works
    <3>2. CatalogOnly(s)
      <4>1. s.post.rev = s.rev /\ s.post.rev.state = g.rev.state + (IF CatalogOnly(s) THEN 0 ELSE 1)
        BY <1>2, StepChanges
      <4>2. g.rev.state \in Nat /\ s.post.rev.state = g.rev.state
        BY <1>2, <1>4, <3>1, <4>1 DEF Revisions
      <4> QED
        BY <4>1, <4>2
    <3>3. ~Resets(g, s)
      BY <1>2, <3>2, StepChanges
    <3>4. StampAt(x)' = StampAt(n)
      BY <1>1, <3>3, StampGoesOn
    <3>5. own[i].stamp = StampAt(n)
      <4>1. ViewOf(own[i]).stamp = own[i].stamp
        BY DEF ViewOf
      <4> QED
        BY <1>2, <3>1, <4>1, ViewParts
    <3>6. StampAt(Len(log))' = StampAt(x)'
      BY <1>1, <1>3 DEF StampAt
    <3> QED
      BY <1>3, <1>4, <1>9, <3>4, <3>5, <3>6
  <2>2. Shows(m)'
    <3>1. ~own'[i].up => Outcome(i)'.stamp = "Dirty"
      BY <1>3, <1>6, <1>9 DEF SeenInv, Shows
    <3>2. ASSUME NEW k \in DOMAIN log'
          PROVE  /\ log'[k].id = prop'[i].rec.id => ViewOf(Outcome(i))' = ViewAt(log[k].rev.epoch, k)'
                 /\ k \in Position(i)' => log'[k].id = prop'[i].rec.id
      <4>1. CASE k \in 1..n
        BY <1>3, <4>1 DEF Position
      <4>2. CASE k = x
        <5>1. PICK d : d = log'[k].rev.epoch
          OBVIOUS
        <5>2. ViewOf(Outcome(i)) = ViewAt(d, k)'
          BY <1>1, <4>2, OutcomeShows
        <5>3. ViewOf(Outcome(i))' = ViewOf(Outcome(i))
          BY <1>3 DEF Outcome
        <5>4. ViewOf(Outcome(i))' = ViewAt(log[k].rev.epoch, k)'
          BY <5>1, <5>2, <5>3
        <5>5. log'[k].id = prop'[i].rec.id
          BY <1>1, <1>3, <1>4, <4>2
        <5> QED
          BY <5>4, <5>5
      <4> QED
        BY <1>8, <4>1, <4>2
    <3> QED
      BY <1>9, <3>1, <3>2 DEF Shows
  <2> QED
    BY <2>1, <2>2
<1>10. CASE m # i
  <2>1. Settled(m)'
    <3>1. Works(m)' => ~InSync(m)'
      <4>1. Works(m)' <=> Works(m)
        BY <1>3 DEF Works
      <4> QED
        BY <1>10, <4>1, OthersAreBehind
    <3> QED
      BY <1>3, <3>1 DEF Settled
  <2>2. Shows(m)'
    <3> SUFFICES ASSUME InFlight(m)'
                 PROVE  /\ ~own'[m].up => Outcome(m)'.stamp = "Dirty"
                        /\ \A k \in DOMAIN log' :
                              /\ log'[k].id = prop'[m].rec.id => ViewOf(Outcome(m))' = ViewAt(log[k].rev.epoch, k)'
                              /\ own'[m].up /\ k \in Position(m)' /\ log'[k].id # prop'[m].rec.id =>
                                    log'[k].rev.epoch # own'[m].rev.epoch \/ log'[k].rev.state > own'[m].rev.state
      BY DEF Shows
    <3>1. Shows(m) /\ InFlight(m)
      BY <1>3 DEF SeenInv
    <3>2. ~own'[m].up => Outcome(m)'.stamp = "Dirty"
      BY <1>3, <1>6, <3>1 DEF Shows
    <3>3. ASSUME NEW k \in 1..n
          PROVE  /\ log'[k].id = prop'[m].rec.id => ViewOf(Outcome(m))' = ViewAt(log[k].rev.epoch, k)'
                 /\ own'[m].up /\ k \in Position(m)' /\ log'[k].id # prop'[m].rec.id =>
                       log'[k].rev.epoch # own'[m].rev.epoch \/ log'[k].rev.state > own'[m].rev.state
      <4>1. k \in DOMAIN log /\ log'[k] = log[k] /\ k \in 0..n
        BY <1>2, <1>3
      <4>2. PICK d : d = log[k].rev.epoch
        OBVIOUS
      <4>3. ViewAt(log[k].rev.epoch, k)' = ViewAt(d, k)
        BY <1>5, <4>1, <4>2
      <4>4. ViewOf(Outcome(m))' = ViewOf(Outcome(m))
        BY <1>3 DEF Outcome
      <4> QED
        BY <1>3, <1>7, <3>1, <4>1, <4>2, <4>3, <4>4 DEF Shows
    <3>4. log'[x].id # prop'[m].rec.id
      BY <1>1, <1>3, <1>4, <1>10, <3>1 DEF Prepared
    <3>5. own'[m].up => log'[x].rev.epoch # own'[m].rev.epoch \/ log'[x].rev.state > own'[m].rev.state
      <4> SUFFICES ASSUME own'[m].up PROVE log'[x].rev.epoch # own'[m].rev.epoch \/ log'[x].rev.state > own'[m].rev.state
        OBVIOUS
      <4>1. ~own[m].poisoned
        BY <1>3, <3>1 DEF OwnerInv, ProposalsStand, OfOperation
      <4>2. Works(m)'
        BY <1>3, <4>1 DEF Works
      <4>3. ~Apart(m)'
        BY <1>3, <3>1 DEF Apart, InFlight
      <4>4. Last'.by # m
        BY <1>3, <1>4, <1>10
      <4>5. Passed(own[m].rev)'
        BY <1>3, <4>2, <4>3, <4>4 DEF OwnerInv, LastOwnerHolds
      <4>6. own'[m].rev \in Revisions
        BY DEF OwnerInv, SessionsStand
      <4>7. log'[x].rev = Replayed'.rev /\ r.rev.state \in Nat /\ own'[m].rev.state \in Nat
        BY <1>1, <1>2, <1>3, <1>4, <4>6 DEF Revisions
      <4> QED
        BY <1>3, <4>5, <4>7 DEF Passed
    <3> QED
      BY <1>8, <3>2, <3>3, <3>4, <3>5
  <2> QED
    BY <2>1, <2>2
<1> QED
  BY <1>9, <1>10

\* What was seen stays: a record is appended after it.
LEMMA CommitAppendSeen ==
  ASSUME OwnerInv, HistoryInv, SeenInv, OwnerInv', NEW i \in Owners, CommitAppend(i)
  PROVE  SeenInv'
<1> DEFINE r == prop[i].rec
<1>1. PICK n, s, e : n = Len(log) /\ s = Stamped(r) /\ e = r.rev.epoch
  OBVIOUS
<1>2. /\ n \in Nat /\ Alike(r, s) /\ (own[i].up => own[i].rev.epoch = e) /\ (~own[i].up => r.kind = "Restart")
  <2>1. own[i].up => own[i].rev.epoch = e
    BY <1>1, AppendFacts DEF OwnerInv, ProposalsStand, OfOperation
  <2> QED
    BY <1>1, <2>1, AppendsOn
<1>3. /\ DOMAIN log = 1..n /\ Len(log') = n + 1
      /\ (\A k \in 1..n : log'[k] = log[k]) /\ log'[n + 1] = s /\ firm' = firm /\ epochs' = epochs
  BY <1>1, AppendFacts
<1>4. observed' = observed
  BY DEF CommitAppend
<1>5. StreamContinues' /\ log'[1].rev.epoch = e
  BY <1>1, StreamGoesOn
<1>6. \A m \in Owners : Settled(m)' /\ Shows(m)'
  BY AppendOwners
<1>7. \A d, k : k \in 0..n => /\ StateAt(d, k)' = StateAt(d, k) /\ ViewAt(d, k)' = ViewAt(d, k)
                              /\ Reattached(d, k)' = Reattached(d, k)
  BY <1>2, <1>3, SameStates
<1>8. firm \in 0..n
  BY <1>1 DEF OwnerInv, StreamStands
<1>9. ASSUME NEW d \in 1..epochs, NEW k \in 0..firm, DiscardOrRestart(d, k) PROVE DiscardOrRestart(d, k)'
  <2>1. k \in 0..n /\ StateAt(d, k)' = StateAt(d, k)
    BY <1>2, <1>7, <1>8
  <2>2. k # Len(log')
    BY <1>2, <1>3, <2>1
  <2>3. ASSUME log'[1].rev.epoch = d PROVE log'[k + 1].kind \in {"ResourceDiscard", "Restart"}
    <3>1. CASE k < n
      <4>1. 1 \in 1..n /\ k + 1 \in 1..n
        BY <1>2, <2>1, <3>1
      <4> QED
        BY <1>1, <1>3, <1>9, <2>3, <3>1, <4>1 DEF DiscardOrRestart
    <3>2. CASE k = n
      <4>1. Away(i, d)
        BY <1>1, <1>9, <3>2 DEF DiscardOrRestart
      <4>2. ~own[i].up
        BY <1>2, <1>5, <2>3, <4>1 DEF Away
      <4> QED
        BY <1>2, <1>3, <3>2, <4>2 DEF Alike
    <3>3. k < n \/ k = n
      BY <1>2, <2>1
    <3> QED
      BY <3>1, <3>2, <3>3
  <2> QED
    BY <1>9, <2>1, <2>2, <2>3 DEF DiscardOrRestart
<1>10. ASSUME NEW v \in observed PROVE Seen(v)'
  <2>1. PICK d \in 1..epochs, k \in 0..firm :
           v.rev.epoch = d /\ (v = ViewAt(d, k) \/ (v = Reattached(d, k) /\ DiscardOrRestart(d, k)))
    BY DEF SeenInv, Seen
  <2>2. d \in 1..epochs' /\ k \in 0..firm' /\ k \in 0..n
    BY <1>2, <1>3, <1>8
  <2> QED
    BY <1>7, <1>9, <2>1, <2>2 DEF Seen
<1> QED
  BY <1>4, <1>5, <1>6, <1>10 DEF SeenInv

\* Power is lost: what was seen is before what may be lost.
LEMMA PowerLossSeen ==
  ASSUME OwnerInv, HistoryInv, SeenInv, PowerLoss
  PROVE  SeenInv'
<1>1. PICK n \in 0..Len(log) : log' = SubSeq(log, 1, n) /\ n >= firm /\ firm' = n
  BY DEF PowerLoss, Log!Lose
<1>2. own' = [i \in Owners |-> Down] /\ pc' = [i \in Owners |-> "idle"] /\ epochs' = epochs /\ observed' = observed
  BY DEF PowerLoss
<1>3. StreamStands /\ firm \in 0..Len(log) /\ log \in Seq({log[k] : k \in DOMAIN log})
  BY DEF OwnerInv, StreamStands
<1>4. n \in 0..Len(log) /\ log' = SubSeq(log, 1, n)
  BY <1>1
<1>5. /\ Len(log') = n /\ DOMAIN log' = 1..n /\ DOMAIN log = 1..Len(log) /\ \A k \in 1..n : log'[k] = log[k]
  BY ONLY <1>3, <1>4, Prefixing, SMT
<1>6. Len(log) \in Nat /\ n \in Nat /\ 1..n \subseteq DOMAIN log
  BY <1>3, <1>5, Replay
<1>7. \A d, k : k \in 0..n => /\ StateAt(d, k)' = StateAt(d, k) /\ StampAt(k)' = StampAt(k)
                              /\ ViewAt(d, k)' = ViewAt(d, k) /\ Reattached(d, k)' = Reattached(d, k)
  BY <1>5, <1>6, SameStates
<1>8. \A i \in Owners : ~InFlight(i)' /\ ~own'[i].up /\ ~Works(i)'
  BY <1>2, DownIsSession DEF InFlight, Works
<1>9. \A i \in Owners : Settled(i)' /\ Shows(i)'
  BY <1>8 DEF Settled, Shows
<1>10. log' # << >> => log # << >> /\ log'[1] = log[1]
  <2> SUFFICES ASSUME log' # << >> PROVE log # << >> /\ log'[1] = log[1]
    OBVIOUS
  <2>1. n # 0
    <3>1. SubSeq(log, 1, 0) = << >>
      BY <1>3
    <3> QED
      BY <1>1, <3>1
  <2>2. 1 \in 1..n
    BY <1>6, <2>1
  <2> QED
    BY <1>5, <1>6, <2>2
<1>11. StreamContinues'
  <2>1. \A k \in DOMAIN log' : FollowsOn(StateAt(log[k].rev.epoch, k - 1), log[k])'
    <3> SUFFICES ASSUME NEW k \in 1..n PROVE FollowsOn(StateAt(log[k].rev.epoch, k - 1), log[k])'
      BY <1>5
    <3>1. PICK d, j, t : d = log[k].rev.epoch /\ j = k - 1 /\ t = log[k]
      OBVIOUS
    <3>2. k \in DOMAIN log /\ log'[k] = log[k] /\ j \in 0..n
      BY <1>5, <1>6, <3>1
    <3>3. FollowsOn(StateAt(d, j), t)
      BY <3>1, <3>2 DEF SeenInv, StreamContinues
    <3>4. StateAt(d, j)' = StateAt(d, j)
      BY <1>7, <3>2
    <3>5. PICK f, a : f = log'[k].rev.epoch /\ a = k - 1
      OBVIOUS
    <3>6. FollowsOn(StateAt(f, a)', log'[k])
      BY <3>1, <3>2, <3>3, <3>4, <3>5
    <3> QED
      BY <3>5, <3>6 DEF FollowsOn
  <2>2. ASSUME NEW j \in 0..n, NEW k \in 0..n, log' # << >>, j <= k PROVE Continues(j, k)'
    <3>1. j \in 0..Len(log) /\ k \in 0..Len(log) /\ log # << >> /\ log'[1] = log[1]
      BY <1>6, <1>10, <2>2
    <3>2. Continues(j, k)
      BY <2>2, <3>1 DEF SeenInv, StreamContinues
    <3>3. PICK e : e = log[1].rev.epoch
      OBVIOUS
    <3>4. /\ StateAt(e, j)' = StateAt(e, j) /\ StateAt(e, k)' = StateAt(e, k)
          /\ StampAt(j)' = StampAt(j) /\ StampAt(k)' = StampAt(k)
      BY <1>7
    <3> QED
      BY <3>1, <3>2, <3>3, <3>4 DEF Continues
  <2>3. \A k \in DOMAIN log' : log'[k].fp.kind = "CatalogDiscard" => log'[k].fp.on = log'[k].rev
    <3> SUFFICES ASSUME NEW k \in 1..n, log'[k].fp.kind = "CatalogDiscard" PROVE log'[k].fp.on = log'[k].rev
      BY <1>5
    <3>1. k \in DOMAIN log /\ log'[k] = log[k]
      BY <1>5, <1>6
    <3> QED
      BY <3>1 DEF SeenInv, StreamContinues
  <2>4. firm' >= Len(log') - 1
    BY <1>1, <1>5, <1>6
  <2> QED
    BY <1>5, <2>1, <2>2, <2>3, <2>4 DEF StreamContinues
<1>12. ASSUME NEW d \in 1..epochs, NEW k \in 0..firm, DiscardOrRestart(d, k) PROVE DiscardOrRestart(d, k)'
  <2>0. k \in 0..n
    BY <1>1, <1>3, <1>6
  <2>1. k \in 0..n /\ StateAt(d, k)' = StateAt(d, k)
    BY <1>7, <2>0
  <2>2. ASSUME k < n, log'[1].rev.epoch = d PROVE log'[k + 1].kind \in {"ResourceDiscard", "Restart"}
    <3>1. 1 \in 1..n /\ k + 1 \in 1..n /\ k < Len(log)
      BY <1>6, <2>1, <2>2
    <3> QED
      BY <1>5, <1>12, <2>2, <3>1 DEF DiscardOrRestart
  <2>3. \A i \in Owners : Away(i, d)'
    BY <1>8 DEF Away
  <2> QED
    BY <1>5, <1>12, <2>1, <2>2, <2>3 DEF DiscardOrRestart
<1>13. ASSUME NEW v \in observed PROVE Seen(v)'
  <2>1. PICK d \in 1..epochs, k \in 0..firm :
           v.rev.epoch = d /\ (v = ViewAt(d, k) \/ (v = Reattached(d, k) /\ DiscardOrRestart(d, k)))
    BY DEF SeenInv, Seen
  <2>2. d \in 1..epochs' /\ k \in 0..firm' /\ k \in 0..n
    BY <1>1, <1>2, <1>3, <1>6
  <2> QED
    BY <1>7, <1>12, <2>1, <2>2 DEF Seen
<1> QED
  BY <1>2, <1>9, <1>11, <1>13 DEF SeenInv

\* Nothing was seen before the first session was opened.
LEMMA SeenInit == Init => SeenInv
<1> SUFFICES ASSUME Init PROVE SeenInv
  OBVIOUS
<1>1. log = << >> /\ firm = 0 /\ pc = [i \in Owners |-> "idle"] /\ own = [i \in Owners |-> Down] /\ observed = {}
  BY DEF Init, Log!Init
<1>2. DOMAIN log = {} /\ Replayed = Empty /\ Empty.discarded = FALSE
  BY <1>1 DEF Replayed, Empty
<1>3. \A i \in Owners : ~InFlight(i) /\ ~own[i].up /\ ~Works(i)
  BY <1>1, DownIsSession DEF InFlight, Works
<1> QED
  BY <1>1, <1>2, <1>3 DEF SeenInv, StreamContinues, Settled, Shows

\* Every step of the owners, their storage and their clients keeps it.
LEMMA SeenNext == OwnerInv /\ OwnerInv' /\ HistoryInv /\ SeenInv /\ [Next]_vars => SeenInv'
<1> SUFFICES ASSUME OwnerInv, OwnerInv', HistoryInv, SeenInv, [Next]_vars PROVE SeenInv'
  OBVIOUS
<1>1. ASSUME NEW i \in Owners, NEW q \in Requests, Operation(i, q) PROVE SeenInv'
  BY <1>1, OperationPrepares, PreparesSeen, PoisonSeen, RetrySeen
<1>2. ASSUME NEW i \in Owners, Continue(i) PROVE SeenInv'
  BY <1>2, ReloadSeen, CommitAppendSeen, AnswerSeen, ErrorsSeen, PublishSeen, RecoveredSeen DEF Continue
<1>3. ASSUME NEW i \in Owners, StaleWrite(i) \/ RecoverIdle(i) \/ Recover(i) \/ Leave(i) PROVE SeenInv'
  BY <1>3, PoisonSeen, RecoverIdleSeen, RecoverSeen
<1>4. CASE PowerLoss
  BY <1>4, PowerLossSeen
<1>5. CASE UNCHANGED vars
  <2>1. UNCHANGED <<log, firm, own, pc, prop, attempts, epochs, observed>>
    BY <1>5 DEF vars, storage
  <2>2. Replayed' = Replayed /\ Last' = Last /\ \A i : InSync(i)' <=> InSync(i)
    BY <2>1 DEF Replayed, Last, InSync
  <2>3. \A e, k : ViewAt(e, k)' = ViewAt(e, k) /\ StateAt(e, k)' = StateAt(e, k) /\ StampAt(k)' = StampAt(k)
    BY <2>1 DEF ViewAt, StateAt, StampAt
  <2>4. StreamContinues'
    <3>1. \A k \in DOMAIN log : FollowsOn(StateAt(log[k].rev.epoch, k - 1), log[k])'
      <4> SUFFICES ASSUME NEW k \in DOMAIN log PROVE FollowsOn(StateAt(log[k].rev.epoch, k - 1), log[k])'
        OBVIOUS
      <4>1. StateAt(log[k].rev.epoch, k - 1)' = StateAt(log[k].rev.epoch, k - 1)
        BY <2>1, <2>3
      <4> QED
        BY <2>1, <4>1 DEF SeenInv, StreamContinues
    <3>2. \A j, k \in 0..Len(log) : log # << >> /\ j <= k => Continues(j, k)'
      BY <2>1, <2>3 DEF SeenInv, StreamContinues, Continues
    <3> QED
      BY <2>1, <2>2, <3>1, <3>2 DEF SeenInv, StreamContinues
  <2>5. \A i \in Owners : Settled(i)' /\ Shows(i)'
    <3> SUFFICES ASSUME NEW i \in Owners PROVE Settled(i)' /\ Shows(i)'
      OBVIOUS
    <3>1. Settled(i)'
      BY <2>1, <2>2, <2>3 DEF SeenInv, Settled, Works, InFlight
    <3>2. Outcome(i)' = Outcome(i) /\ Position(i)' = Position(i) /\ (InFlight(i)' <=> InFlight(i))
      BY <2>1 DEF Outcome, Position, InFlight
    <3>3. Shows(i)'
      BY <2>1, <2>3, <3>2 DEF SeenInv, Shows
    <3> QED
      BY <3>1, <3>3
  <2>6. \A v \in observed' : Seen(v)'
    <3>1. \A i, e : Away(i, e)' <=> Away(i, e)
      BY <2>1 DEF Away, InFlight, Position
    <3>2. \A e, k : (DiscardOrRestart(e, k)' <=> DiscardOrRestart(e, k)) /\ Reattached(e, k)' = Reattached(e, k)
      BY <2>1, <2>3, <3>1 DEF DiscardOrRestart, Reattached
    <3> QED
      BY <2>1, <2>3, <3>2 DEF SeenInv, Seen
  <2> QED
    BY <2>4, <2>5, <2>6 DEF SeenInv
<1> QED
  BY <1>1, <1>2, <1>3, <1>4, <1>5 DEF Next

\* Every state a client was shown is the state after a record that no loss of
\* power takes, or the base of its epoch, or what a session recovered from a
\* discarded resource shows; in every behaviour of any number of owners of
\* canonical_write.rs, with lost calls, kills, recoveries and power losses.
THEOREM SeenInvariant == Spec => [](OwnerInv /\ HistoryInv /\ SeenInv)
<1>1. Init => OwnerInv /\ HistoryInv /\ SeenInv
  BY OwnerInit, HistoryInit, SeenInit
<1>2. (OwnerInv /\ HistoryInv /\ SeenInv) /\ [Next]_vars => (OwnerInv /\ HistoryInv /\ SeenInv)'
  BY OwnerNext, HistoryNext, SeenNext
<1> QED
  BY <1>1, <1>2, PTL DEF Spec

\* The revision token names one state for ever: two views with the same epoch,
\* document and state numbers have the same document and calculation status,
\* and with the same generation the same staged changes, although every process
\* numbers its revisions itself and a record may be visible and then lost.
THEOREM TokensNameStates == Spec => []TokenNamesOneState
<1>1. OwnerInv /\ HistoryInv /\ SeenInv => TokenNamesOneState
  BY TokensName
<1> QED
  BY <1>1, SeenInvariant, PTL

\* Clients can rely on what the owners told and showed them: outcomes stay in
\* the stream, refuted requests stay out of it, tokens name one state, and
\* every document that was shown can be checked out again.
THEOREM ToldAndSeen == Spec => []ToldAndSeenStand
<1>1. OwnerInv /\ HistoryInv /\ SeenInv => ToldAndSeenStand
  BY TokensName, SeenReachable DEF ToldAndSeenStand, OwnerInv
<1> QED
  BY <1>1, SeenInvariant, PTL

=============================================================================
