-------------------------- MODULE DurableLog_proofs --------------------------
(* Proofs about the abstract log: what an owner may conclude from answers. *)
EXTENDS DurableLog, TLAPS

\* Keeping a prefix of a sequence keeps its elements.
LEMMA PrefixElements ==
    ASSUME NEW S, NEW s \in Seq(S), NEW n \in 0..Len(s)
    PROVE  /\ SubSeq(s, 1, n) \in Seq(S)
           /\ Len(SubSeq(s, 1, n)) = n
           /\ \A i \in 1..n : SubSeq(s, 1, n)[i] = s[i]
  OBVIOUS

\* Every step of the log respects its types; records come from Records only.
THEOREM TypeCorrect == Spec => []TypeOK
<1>1. Init => TypeOK
  BY DEF Init, TypeOK
<1>2. TypeOK /\ [Next]_vars => TypeOK'
  <2> SUFFICES ASSUME TypeOK, [Next]_vars PROVE TypeOK'
    OBVIOUS
  <2> USE DEF TypeOK
  <2>1. ASSUME NEW r \in Records, AppendRecord(r) PROVE TypeOK'
    BY <2>1 DEF AppendRecord
  <2>2. CASE Harden
    BY <2>2 DEF Harden
  <2>3. ASSUME NEW i \in DOMAIN log, TellCommitted(i) PROVE TypeOK'
    BY <2>3 DEF TellCommitted
  <2>4. ASSUME NEW ids \in SUBSET Ids, TellNotFound(ids) PROVE TypeOK'
    BY <2>4 DEF TellNotFound
  <2>5. ASSUME NEW n \in 0..Len(log), Lose(n) PROVE TypeOK'
    <3>1. n \in Nat /\ log' \in Seq(Records) /\ Len(log') = n
      BY <2>5, PrefixElements DEF Lose
    <3>2. QED
      BY <2>5, <3>1 DEF Lose
  <2>6. CASE UNCHANGED vars
    BY <2>6 DEF vars
  <2>7. QED
    BY <2>1, <2>2, <2>3, <2>4, <2>5, <2>6 DEF Next
<1>3. QED
  BY <1>1, <1>2, PTL DEF Spec

\* One step of the log preserves the four facts.
LEMMA SafeStep == TypeOK /\ TypeOK' /\ Safe /\ [Next]_vars => Safe'
<1> SUFFICES ASSUME TypeOK, TypeOK', Safe, [Next]_vars PROVE Safe'
  OBVIOUS
<1> USE DEF TypeOK, Safe
<1>1. ASSUME NEW r \in Records, AppendRecord(r) PROVE Safe'
  <2> DEFINE n == Len(log)
  <2>1. /\ n \in Nat
        /\ Len(log') = n + 1
        /\ log'[n + 1] = r
        /\ \A i \in 1..n : log'[i] = log[i]
        /\ DOMAIN log' = 1..(n + 1) /\ DOMAIN log = 1..n
    BY <1>1 DEF AppendRecord
  <2> HIDE DEF n
  <2>2. Chained(log)'
    <3> SUFFICES ASSUME NEW i \in 1..(n + 1)
                 PROVE  log'[i].parent = (IF i = 1 THEN NoCommit ELSE log'[i - 1].id)
      BY <2>1 DEF Chained
    <3>1. CASE i \in 1..n
      BY <2>1, <3>1 DEF Chained
    <3>2. CASE i = n + 1
      <4>1. r.parent = IF n = 0 THEN NoCommit ELSE log[n].id
        BY <1>1, <2>1 DEF AppendRecord, Tip, n
      <4>2. CASE n = 0
        BY <4>1, <4>2, <2>1, <3>2
      <4>3. CASE n # 0
        <5>1. log'[i - 1] = log[n] /\ i # 1
          BY <4>3, <2>1, <3>2
        <5>2. QED BY <5>1, <4>1, <4>3, <2>1, <3>2
      <4>4. QED BY <4>2, <4>3
    <3>3. QED BY <3>1, <3>2, <2>1
  <2>3. OncePerIdentity(log)'
    <3> SUFFICES ASSUME NEW i \in 1..(n + 1), NEW j \in 1..(n + 1), i # j
                 PROVE  log'[i].id # log'[j].id /\ log'[i].req # log'[j].req
      BY <2>1 DEF OncePerIdentity
    <3>1. \A k \in 1..n : log[k].id # r.id /\ log[k].req # r.req
      BY <1>1, <2>1 DEF AppendRecord
    <3>2. QED
      BY <2>1, <3>1 DEF OncePerIdentity
  <2>4. ToldIsKept'
    BY <1>1, <2>1 DEF AppendRecord, ToldIsKept, n
  <2>5. RefutedStaysOut'
    BY <1>1, <2>1 DEF AppendRecord, RefutedStaysOut, IdsOf
  <2>6. QED BY <2>2, <2>3, <2>4, <2>5
<1>2. CASE Harden
  BY <1>2 DEF Harden, Chained, OncePerIdentity, ToldIsKept, RefutedStaysOut, IdsOf
<1>3. ASSUME NEW i \in DOMAIN log, TellCommitted(i) PROVE Safe'
  BY <1>3 DEF TellCommitted, Chained, OncePerIdentity, ToldIsKept, RefutedStaysOut, IdsOf
<1>4. ASSUME NEW ids \in SUBSET Ids, TellNotFound(ids) PROVE Safe'
  BY <1>4 DEF TellNotFound, Chained, OncePerIdentity, ToldIsKept, RefutedStaysOut, IdsOf
<1>5. ASSUME NEW n \in 0..Len(log), Lose(n) PROVE Safe'
  <2>1. /\ n \in Nat /\ n <= Len(log)
        /\ DOMAIN log' = 1..n /\ DOMAIN log = 1..Len(log)
        /\ \A i \in 1..n : log'[i] = log[i]
    BY <1>5, PrefixElements DEF Lose
  <2>2. Chained(log)' /\ OncePerIdentity(log)'
    BY <2>1 DEF Chained, OncePerIdentity
  <2>3. ToldIsKept'
    BY <1>5, <2>1 DEF Lose, ToldIsKept
  <2>4. RefutedStaysOut'
    BY <1>5, <2>1 DEF Lose, RefutedStaysOut, IdsOf
  <2>5. QED BY <2>2, <2>3, <2>4
<1>6. CASE UNCHANGED vars
  BY <1>6 DEF vars, Chained, OncePerIdentity, ToldIsKept, RefutedStaysOut, IdsOf
<1>7. QED
  BY <1>1, <1>2, <1>3, <1>4, <1>5, <1>6 DEF Next

\* What an owner may conclude from the answers of any storage that implements
\* the log: Committed is kept, NotFound is final, identities are never reused.
THEOREM LogSafety == Spec => []Safe
<1>1. Init => Safe
  BY DEF Init, Safe, Chained, OncePerIdentity, ToldIsKept, RefutedStaysOut, IdsOf
<1>2. QED
  BY <1>1, SafeStep, TypeCorrect, PTL DEF Spec

=============================================================================
