---------------------------- MODULE Files_proofs ----------------------------
(***************************************************************************)
(* What survives on disk.  The file export keeps its promises for any      *)
(* number of requests, plans, captures, edits, failures and writes by      *)
(* other programs; so do command line processes, for any number of them,   *)
(* any command lines, failing calls, kills and power losses; and the log   *)
(* of a legacy session holds together whoever uses it and is killed.       *)
(***************************************************************************)
EXTENDS MCFiles, WellFoundedInduction, FiniteSetTheorems, TLAPS

-----------------------------------------------------------------------------
(* The export of a resident session.                                        *)

\* The parts of an export in progress.
LEMMA OpParts ==
  ASSUME op \in Exports \cup LastLooks
  PROVE  /\ op.req \in Requests /\ op.plan \in Plans
         /\ Path \in Paths /\ Bytes \in Documents
BY DEF Exports, LastLooks, Plans, Intents, Path, Bytes

LEMMA PlanParts ==
  ASSUME NEW x \in Plans
  PROVE  x.intent.path \in Paths /\ x.bytes \in Documents
BY DEF Plans, Intents

\* A plan receipt: the other plans stay as they are.
LEMMA NewPlan ==
  ASSUME TypeOK, ExportTypes, op \in Exports \cup LastLooks, PlanFits(op.req),
         plans' = [q \in DOMAIN plans \cup {op.req} |-> IF q = op.req THEN op.plan ELSE plans[q]]
  PROVE  /\ DOMAIN plans' = DOMAIN plans \cup {op.req}
         /\ DOMAIN plans' \subseteq Requests
         /\ plans'[op.req] = op.plan
         /\ \A q \in DOMAIN plans : plans'[q] = plans[q]
         /\ \A q \in DOMAIN plans' : plans'[q] \in Plans
         /\ IsFiniteSet(DOMAIN plans') /\ Cardinality(DOMAIN plans') <= MaxPlans
<1>1. op.req \notin DOMAIN plans /\ Cardinality(DOMAIN plans) < MaxPlans
  BY DEF PlanFits
<1>2. /\ DOMAIN plans' = DOMAIN plans \cup {op.req}
      /\ plans'[op.req] = op.plan
      /\ \A q \in DOMAIN plans : plans'[q] = plans[q]
  BY <1>1
<1>3. DOMAIN plans' \subseteq Requests /\ \A q \in DOMAIN plans' : plans'[q] \in Plans
  BY <1>2, OpParts DEF TypeOK
<1>4. /\ IsFiniteSet(DOMAIN plans \cup {op.req})
      /\ Cardinality(DOMAIN plans \cup {op.req}) = Cardinality(DOMAIN plans) + 1
  BY <1>1, FS_AddElement DEF ExportTypes
<1>5. Cardinality(DOMAIN plans) \in Nat
  BY FS_CardinalityType DEF ExportTypes
<1>6. QED
  BY <1>1, <1>2, <1>3, <1>4, <1>5, ExportBounds

-----------------------------------------------------------------------------
(* Types.                                                                  *)

LEMMA TypeStep == TypeOK /\ ExportInv /\ [Next]_vars => TypeOK' /\ ExportTypes'
<1> SUFFICES ASSUME TypeOK, ExportInv, [Next]_vars PROVE TypeOK' /\ ExportTypes'
  OBVIOUS
<1> USE DEF ExportInv
<1>0. pc # "idle" => op \in Exports \cup LastLooks
  BY DEF ExportTypes
<1>1. ASSUME NEW q \in Requests, NEW t \in Intents, Begin(q, t) PROVE TypeOK' /\ ExportTypes'
  <2>1. op' \in Exports
    BY <1>1 DEF Begin, Exports, Plans, TypeOK, Content
  <2>2. op'.req \in Requests
    BY <1>1 DEF Begin
  <2>3. QED
    BY <1>1, <2>1, <2>2 DEF Begin, Goto, TypeOK, ExportTypes, Steps, files, journal, observers
<1>2. CASE ReadGeneration
  <2>1. op \in Exports \cup LastLooks /\ seen[Path] \in Content
    BY <1>0, <1>2, OpParts DEF ReadGeneration, TypeOK
  <2>2. op' \in Exports \cup LastLooks /\ op'.req = op.req
    BY <1>2, <2>1 DEF ReadGeneration, Exports, LastLooks, Plans
  <2>3. QED
    BY <1>2, <2>1, <2>2, OpParts
    DEF ReadGeneration, Goto, TypeOK, ExportTypes, Steps, files, journal, observers
<1>3. CASE RetainOpen \/ RetainWrite \/ RetainCheck
  <2>1. Bytes \in Documents
    BY <1>0, <1>3, OpParts DEF RetainOpen, RetainWrite, RetainCheck
  <2>2. captures' \in [Documents -> {"none", "part", "full", "durable"}]
    BY <1>3, <2>1 DEF RetainOpen, RetainWrite, RetainCheck, TypeOK
  <2>3. /\ pc # "idle" /\ pc' \in Steps \ {"idle", "swap"}
        /\ UNCHANGED <<files, journal, doc, usable, op, observers>>
    BY <1>3 DEF RetainOpen, RetainWrite, RetainCheck, Goto, Steps
  <2>4. QED
    BY <2>2, <2>3 DEF TypeOK, ExportTypes, files, journal, observers
<1>4. CASE CommitPlan
  <2>1. op \in Exports \cup LastLooks /\ PlanFits(op.req)
    BY <1>0, <1>4 DEF CommitPlan
  <2>2. /\ DOMAIN plans' \subseteq Requests /\ DOMAIN plans \subseteq DOMAIN plans'
        /\ \A q \in DOMAIN plans' : plans'[q] \in Plans
        /\ IsFiniteSet(DOMAIN plans') /\ Cardinality(DOMAIN plans') <= MaxPlans
    BY <1>4, <2>1, NewPlan DEF CommitPlan
  <2>3. QED
    BY <1>4, <2>1, <2>2 DEF CommitPlan, Goto, TypeOK, ExportTypes, Steps, files, observers
<1>5. ASSUME NEW q \in Requests, Resume(q) PROVE TypeOK' /\ ExportTypes'
  <2>1. op' \in Exports /\ op'.req = q
    BY <1>5 DEF Resume, Exports, TypeOK
  <2>2. QED
    BY <1>5, <2>1 DEF Resume, Goto, TypeOK, ExportTypes, Steps, files, journal, observers
<1>6. ASSUME NEW q \in Requests, Answer(q) \/ UseRequest(q) PROVE TypeOK' /\ ExportTypes'
  BY <1>6 DEF Answer, UseRequest, TypeOK, ExportTypes, files, journal, observers
<1>7. CASE FindPublished
  <2>1. op \in Exports \cup LastLooks
    BY <1>0, <1>7 DEF FindPublished
  <2>2. QED
    BY <1>7, <2>1, OpParts
    DEF FindPublished, InPlace, Goto, TypeOK, ExportTypes, Steps, files, journal
<1>8. CASE Admit \/ WriteTemporary
  BY <1>0, <1>8
  DEF Admit, WriteTemporary, Goto, TypeOK, ExportTypes, Steps, files, journal, observers
<1>9. CASE Recheck
  <2>1. op \in Exports \cup LastLooks
    BY <1>0, <1>9 DEF Recheck
  <2>2. op' \in LastLooks /\ op'.req = op.req
    BY <1>9, <2>1, OpParts DEF Recheck, LastLooks
  <2>3. QED
    BY <1>9, <2>1, <2>2 DEF Recheck, Goto, TypeOK, ExportTypes, Steps, files, journal, observers
<1>10. CASE Swap
  <2>1. op \in Exports \cup LastLooks
    BY <1>0, <1>10 DEF Swap
  <2>2. /\ op.req \in Requests /\ Bytes \in Documents /\ Path \in Paths
        /\ Bytes \in Content
    BY <2>1, OpParts DEF Content
  <2>3. /\ seen' \in [Paths -> Content] /\ kept' \in [Paths -> SUBSET Content]
        /\ placed' \subseteq Requests \X Documents
        /\ holder' \in [Paths -> Requests \cup {NoRequest}]
    BY <1>10, <2>2 DEF Swap, InPlace, TypeOK
  <2>4. QED
    BY <1>10, <2>1, <2>3 DEF Swap, Goto, TypeOK, ExportTypes, Steps, journal
<1>11. CASE SyncParent
  <2>1. op \in Exports \cup LastLooks
    BY <1>0, <1>11 DEF SyncParent
  <2>2. kept' \in [Paths -> SUBSET Content]
    BY <1>11, <2>1, OpParts DEF SyncParent, TypeOK
  <2>3. QED
    BY <1>11, <2>1, <2>2 DEF SyncParent, Goto, TypeOK, ExportTypes, Steps, journal, observers
<1>12. CASE CommitResult
  BY <1>12
  DEF CommitResult, ResultFits, Return, TypeOK, ExportTypes, Steps, files
<1>13. CASE Refuse \/ Fail \/ Kill
  BY <1>13
  DEF Refuse, Fail, Kill, Return, TypeOK, ExportTypes, Steps, files, journal, observers
<1>14. CASE OutcomeUnknown
  <2>1. CASE /\ pc = "plan" /\ PlanFits(op.req) /\ UNCHANGED results
             /\ plans' = [q \in DOMAIN plans \cup {op.req} |->
                            IF q = op.req THEN op.plan ELSE plans[q]]
    <3>1. /\ DOMAIN plans' \subseteq Requests /\ DOMAIN plans \subseteq DOMAIN plans'
          /\ \A q \in DOMAIN plans' : plans'[q] \in Plans
          /\ IsFiniteSet(DOMAIN plans') /\ Cardinality(DOMAIN plans') <= MaxPlans
      BY <1>0, <2>1, NewPlan
    <3>2. /\ pc' = "idle" /\ usable' = FALSE /\ results' = results
          /\ UNCHANGED <<files, captures, elsewhere, discarded, doc, observers>>
      BY <1>14, <2>1 DEF OutcomeUnknown, Return
    <3>3. QED
      BY <3>1, <3>2 DEF TypeOK, ExportTypes, Steps, files, observers
  <2>2. CASE pc = "result" /\ ResultFits(op.req) /\ results' = results \cup {op.req} /\ UNCHANGED plans
    BY <1>14, <2>2
    DEF OutcomeUnknown, ResultFits, Return, TypeOK, ExportTypes, Steps, files, observers
  <2>3. CASE UNCHANGED <<plans, results>>
    BY <1>14, <2>3 DEF OutcomeUnknown, Return, TypeOK, ExportTypes, Steps, files, observers
  <2>4. QED
    BY <1>14, <2>1, <2>2, <2>3 DEF OutcomeUnknown
<1>15. CASE PowerLoss
  <2>1. seen' \in [Paths -> Content] /\ kept' \in [Paths -> SUBSET Content]
    BY <1>15 DEF PowerLoss, TypeOK
  <2>2. captures' \in [Documents -> {"none", "part", "full", "durable"}]
    BY <1>15 DEF PowerLoss, TypeOK
  <2>3. QED
    BY <1>15, <2>1, <2>2 DEF PowerLoss, Return, TypeOK, ExportTypes, Steps, journal, observers
<1>16. CASE Recover \/ Edit \/ DiscardResource
  <2>1. doc' \in Documents
    BY <1>16, ExportBounds DEF Recover, Edit, DiscardResource, TypeOK, Documents
  <2>2. /\ UNCHANGED <<files, captures, plans, results, elsewhere, pc, op, observers>>
        /\ discarded' \in BOOLEAN /\ usable' \in BOOLEAN /\ (usable => usable')
    BY <1>16 DEF Recover, Edit, DiscardResource, TypeOK, journal
  <2>3. QED
    BY <2>1, <2>2 DEF TypeOK, ExportTypes, files, observers
<1>17. ASSUME NEW p \in Paths, NEW x \in Foreign \cup {Missing}, ForeignWrite(p, x)
       PROVE  TypeOK' /\ ExportTypes'
  <2>1. /\ seen' \in [Paths -> Content] /\ kept' \in [Paths -> SUBSET Content]
        /\ holder' \in [Paths -> Requests \cup {NoRequest}]
    BY <1>17 DEF ForeignWrite, TypeOK, Content
  <2>2. CASE pc = "swap"
    <3>1. op' \in LastLooks /\ op'.req \in Requests
      BY <1>17, <2>2 DEF ForeignWrite, ExportTypes, LastLooks
    <3>2. QED
      BY <1>17, <2>1, <2>2, <3>1 DEF ForeignWrite, TypeOK, ExportTypes, journal
  <2>3. CASE pc # "swap"
    BY <1>17, <2>1, <2>3 DEF ForeignWrite, TypeOK, ExportTypes, journal
  <2>4. QED BY <2>2, <2>3
<1>18. CASE UNCHANGED vars
  BY <1>18 DEF vars, TypeOK, ExportTypes, files, journal, observers
<1>19. QED
  BY <1>1, <1>2, <1>3, <1>4, <1>5, <1>6, <1>7, <1>8, <1>9, <1>10, <1>11, <1>12, <1>13, <1>14,
     <1>15, <1>16, <1>17, <1>18 DEF Next, Publication

-----------------------------------------------------------------------------
(* The plan.                                                               *)

\* Another program that writes a file changes nothing of the export but the
\* flag that it did.
LEMMA ForeignKeepsExport ==
  ASSUME ExportTypes, NEW p \in Paths, NEW x \in Foreign \cup {Missing}, ForeignWrite(p, x),
         pc # "idle"
  PROVE  op'.req = op.req /\ op'.plan = op.plan /\ Path' = Path /\ Bytes' = Bytes
<1>1. op'.req = op.req /\ op'.plan = op.plan
  BY DEF ForeignWrite, ExportTypes, LastLooks
<1>2. QED BY <1>1 DEF Path, Bytes

\* From the plan on, the steps of the publication keep request and plan.
LEMMA PublicationKeepsExport ==
  ASSUME FindPublished \/ Admit \/ WriteTemporary \/ Recheck \/ Swap \/ SyncParent
  PROVE  /\ pc \in Publishing /\ pc' \in Publishing
         /\ op'.req = op.req /\ op'.plan = op.plan
         /\ UNCHANGED <<captures, plans, results, elsewhere, discarded, doc, told>>
BY DEF FindPublished, Admit, WriteTemporary, Recheck, Swap, SyncParent, Goto, Publishing,
       journal, observers

\* The steps before the plan and the ones that end a call have no plan to follow.
LEMMA NothingPublishing ==
  ASSUME \/ \E q \in Requests, t \in Intents : Begin(q, t)
         \/ ReadGeneration \/ RetainOpen \/ RetainWrite \/ RetainCheck
         \/ Refuse \/ Fail \/ Kill \/ PowerLoss
  PROVE  pc' \notin Publishing /\ UNCHANGED <<plans, results, elsewhere, discarded>>
BY DEF Begin, ReadGeneration, RetainOpen, RetainWrite, RetainCheck, Refuse, Fail, Kill, PowerLoss,
       Return, Goto, Publishing, journal

\* An export keeps to its plan, and its identity stays its own.
LEMMA PlanStep == TypeOK /\ ExportInv /\ [Next]_vars => PlanStands'
<1> SUFFICES ASSUME TypeOK, ExportInv, [Next]_vars PROVE PlanStands'
  OBVIOUS
<1> USE DEF ExportInv, Publishing
<1>1. CASE \/ \E q \in Requests, t \in Intents : Begin(q, t)
           \/ ReadGeneration \/ RetainOpen \/ RetainWrite \/ RetainCheck
           \/ Refuse \/ Fail \/ Kill \/ PowerLoss
  BY <1>1, NothingPublishing DEF PlanStands
<1>2. CASE CommitPlan
  <2>1. op \in Exports \cup LastLooks /\ PlanFits(op.req)
    BY <1>2 DEF CommitPlan, ExportTypes
  <2>2. DOMAIN plans' = DOMAIN plans \cup {op.req} /\ plans'[op.req] = op.plan
    BY <1>2, <2>1, NewPlan DEF CommitPlan
  <2>3. op.req \notin elsewhere /\ op.req \notin results /\ ~discarded
    BY <2>1 DEF PlanFits, TypeOK
  <2>4. QED
    BY <1>2, <2>2, <2>3 DEF CommitPlan, PlanStands
<1>3. ASSUME NEW q \in Requests, Resume(q) PROVE PlanStands'
  BY <1>3 DEF Resume, PlanStands, journal
<1>4. ASSUME NEW q \in Requests, Answer(q) PROVE PlanStands'
  BY <1>4 DEF Answer, PlanStands, journal
<1>5. ASSUME NEW q \in Requests, UseRequest(q) PROVE PlanStands'
  BY <1>5 DEF UseRequest, PlanStands
<1>6. CASE FindPublished \/ Admit \/ WriteTemporary \/ Recheck \/ Swap \/ SyncParent
  BY <1>6, PublicationKeepsExport DEF PlanStands
<1>7. CASE CommitResult
  BY <1>7 DEF CommitResult, Return, PlanStands
<1>8. CASE OutcomeUnknown
  <2>1. pc' = "idle" /\ UNCHANGED elsewhere
    BY <1>8 DEF OutcomeUnknown, Return
  <2>2. DOMAIN plans' \cap elsewhere = {}
    <3>1. CASE /\ pc = "plan" /\ PlanFits(op.req)
               /\ plans' = [q \in DOMAIN plans \cup {op.req} |->
                              IF q = op.req THEN op.plan ELSE plans[q]]
      <4>1. DOMAIN plans' = DOMAIN plans \cup {op.req}
        BY <3>1, NewPlan DEF ExportTypes
      <4>2. QED BY <3>1, <4>1 DEF PlanFits, PlanStands
    <3>2. CASE plans' = plans
      BY <3>2 DEF PlanStands
    <3>3. QED BY <1>8, <3>1, <3>2 DEF OutcomeUnknown
  <2>3. QED BY <2>1, <2>2 DEF PlanStands
<1>9. CASE Recover \/ Edit \/ DiscardResource
  BY <1>9 DEF Recover, Edit, DiscardResource, PlanStands, journal
<1>10. ASSUME NEW p \in Paths, NEW x \in Foreign \cup {Missing}, ForeignWrite(p, x)
       PROVE  PlanStands'
  <2>1. UNCHANGED <<plans, results, elsewhere, discarded, pc>>
    BY <1>10 DEF ForeignWrite, journal
  <2>2. QED
    BY <1>10, <2>1, ForeignKeepsExport DEF PlanStands
<1>11. CASE UNCHANGED vars
  BY <1>11 DEF vars, journal, PlanStands
<1>12. QED
  BY <1>1, <1>2, <1>3, <1>4, <1>5, <1>6, <1>7, <1>8, <1>9, <1>10, <1>11 DEF Next, Publication

-----------------------------------------------------------------------------
(* The captures.                                                           *)

\* A capture that is durable stays so in every step.
LEMMA DurableStays ==
  ASSUME TypeOK, ExportInv, [Next]_vars, NEW d \in Documents, captures[d] = "durable"
  PROVE  captures'[d] = "durable"
<1> USE DEF ExportInv
<1>1. CASE RetainOpen \/ RetainWrite \/ RetainCheck
  <2>1. pc # "idle" /\ Bytes \in Documents
    BY <1>1, OpParts DEF RetainOpen, RetainWrite, RetainCheck, ExportTypes
  <2>2. QED BY <1>1, <2>1
    DEF RetainOpen, RetainWrite, RetainCheck, TypeOK, CapturesKept
<1>2. CASE PowerLoss
  BY <1>2 DEF PowerLoss, TypeOK
<1>3. CASE UNCHANGED captures
  BY <1>3
<1>4. QED
  BY <1>1, <1>2, <1>3
  DEF Next, Publication, vars, Begin, ReadGeneration, CommitPlan, Resume, Answer, UseRequest,
      FindPublished, Admit, WriteTemporary, Recheck, Swap, SyncParent, CommitResult, Refuse, Fail,
      OutcomeUnknown, Kill, Recover, Edit, DiscardResource, ForeignWrite

\* A plan is committed on a durable capture, and captures are only written when
\* they are new.
LEMMA CaptureStep == TypeOK /\ ExportInv /\ [Next]_vars => CapturesKept'
<1> SUFFICES ASSUME TypeOK, ExportInv, [Next]_vars PROVE CapturesKept'
  OBVIOUS
<1> USE DEF ExportInv
<1>1. \A q \in DOMAIN plans : captures'[plans[q].bytes] = "durable"
  BY DurableStays, PlanParts DEF TypeOK, CapturesKept, PlannedCaptureSurvives
<1>2. CASE CommitPlan
  <2>1. op \in Exports \cup LastLooks /\ PlanFits(op.req) /\ captures' = captures
    BY <1>2 DEF CommitPlan, ExportTypes
  <2>2. /\ DOMAIN plans' = DOMAIN plans \cup {op.req} /\ plans'[op.req] = op.plan
        /\ \A q \in DOMAIN plans : plans'[q] = plans[q]
    BY <1>2, <2>1, NewPlan DEF CommitPlan
  <2>3. captures[op.plan.bytes] = "durable" /\ pc' = "publish"
    BY <1>2 DEF CommitPlan, Goto, CapturesKept, Bytes
  <2>4. QED
    BY <1>1, <2>1, <2>2, <2>3 DEF CapturesKept, PlannedCaptureSurvives
<1>3. CASE OutcomeUnknown
  <2>1. pc' = "idle" /\ captures' = captures
    BY <1>3 DEF OutcomeUnknown, Return
  <2>2. CASE /\ pc = "plan" /\ PlanFits(op.req)
             /\ plans' = [q \in DOMAIN plans \cup {op.req} |->
                            IF q = op.req THEN op.plan ELSE plans[q]]
    <3>1. /\ DOMAIN plans' = DOMAIN plans \cup {op.req} /\ plans'[op.req] = op.plan
          /\ \A q \in DOMAIN plans : plans'[q] = plans[q]
      BY <2>2, NewPlan DEF ExportTypes
    <3>2. captures[op.plan.bytes] = "durable"
      BY <2>2 DEF CapturesKept, Bytes
    <3>3. QED
      BY <1>1, <2>1, <3>1, <3>2 DEF CapturesKept, PlannedCaptureSurvives
  <2>3. CASE plans' = plans
    BY <1>1, <2>1, <2>3 DEF CapturesKept, PlannedCaptureSurvives
  <2>4. QED BY <1>3, <2>2, <2>3 DEF OutcomeUnknown
<1>4. CASE RetainOpen \/ RetainWrite \/ RetainCheck
  <2>1. Bytes \in Documents /\ Bytes' = Bytes /\ plans' = plans
    BY <1>4, OpParts DEF RetainOpen, RetainWrite, RetainCheck, ExportTypes, Bytes, journal
  <2>2. /\ pc' = "write" => captures'[Bytes] = "part"
        /\ pc' = "plan" => captures'[Bytes] = "durable"
    BY <1>4, <2>1 DEF RetainOpen, RetainWrite, RetainCheck, Goto, TypeOK
  <2>3. QED
    BY <1>1, <2>1, <2>2 DEF CapturesKept, PlannedCaptureSurvives
<1>5. CASE pc' \notin {"write", "plan"} /\ plans' = plans
  BY <1>1, <1>5 DEF CapturesKept, PlannedCaptureSurvives
<1>6. CASE pc' = pc /\ UNCHANGED <<captures, plans, Bytes>>
  BY <1>6 DEF CapturesKept, PlannedCaptureSurvives
<1>7. ASSUME NEW p \in Paths, NEW x \in Foreign \cup {Missing}, ForeignWrite(p, x)
      PROVE  CapturesKept'
  <2>1. pc' = pc /\ UNCHANGED <<captures, plans>>
    BY <1>7 DEF ForeignWrite, journal
  <2>2. CASE pc = "idle"
    BY <2>1, <2>2, <1>5
  <2>3. CASE pc # "idle"
    BY <1>7, <2>1, <2>3, <1>6, ForeignKeepsExport
  <2>4. QED BY <2>2, <2>3
<1>8. CASE \/ ReadGeneration \/ Refuse \/ Fail \/ Kill \/ PowerLoss \/ CommitResult
           \/ \E q \in Requests, t \in Intents : Begin(q, t)
           \/ \E q \in Requests : Resume(q)
  BY <1>5, <1>8 DEF ReadGeneration, Refuse, Fail, Kill, PowerLoss, CommitResult, Begin, Resume,
                    Goto, Return, journal
<1>9. CASE FindPublished \/ Admit \/ WriteTemporary \/ Recheck \/ Swap \/ SyncParent
  BY <1>5, <1>9, PublicationKeepsExport DEF Publishing
<1>10. CASE \/ Recover \/ Edit \/ DiscardResource \/ UNCHANGED vars
            \/ \E q \in Requests : Answer(q) \/ UseRequest(q)
  BY <1>6, <1>10 DEF Recover, Edit, DiscardResource, Answer, UseRequest, vars, journal, Bytes
<1>11. QED
  BY <1>2, <1>3, <1>4, <1>7, <1>8, <1>9, <1>10 DEF Next, Publication

-----------------------------------------------------------------------------
(* What is put into place.                                                 *)

\* Whatever is put into place under a request is the content of its plan.
LEMMA PlacedStep == TypeOK /\ ExportInv /\ [Next]_vars => PlacedAsPlanned'
<1> SUFFICES ASSUME TypeOK, ExportInv, [Next]_vars PROVE PlacedAsPlanned'
  OBVIOUS
<1> USE DEF ExportInv
<1>1. ASSUME op \in Exports \cup LastLooks, PlanFits(op.req), placed' = placed,
             plans' = [q \in DOMAIN plans \cup {op.req} |->
                         IF q = op.req THEN op.plan ELSE plans[q]]
      PROVE  PlacedAsPlanned'
  <2>1. /\ DOMAIN plans' = DOMAIN plans \cup {op.req}
        /\ \A q \in DOMAIN plans : plans'[q] = plans[q]
    BY <1>1, NewPlan
  <2>2. QED BY <1>1, <2>1 DEF PlacedAsPlanned
<1>2. CASE UNCHANGED <<plans, placed>>
  BY <1>2 DEF PlacedAsPlanned
<1>3. CASE CommitPlan
  BY <1>1, <1>3 DEF CommitPlan, ExportTypes, observers
<1>4. CASE OutcomeUnknown
  BY <1>1, <1>2, <1>4 DEF OutcomeUnknown, ExportTypes, observers
<1>5. CASE Swap
  <2>1. /\ placed' = placed \cup {<<op.req, Bytes>>} /\ plans' = plans
        /\ op.req \in DOMAIN plans /\ Bytes = plans[op.req].bytes
    BY <1>5 DEF Swap, journal, PlanStands, Publishing, Bytes
  <2>2. QED BY <2>1 DEF PlacedAsPlanned
<1>6. QED
  BY <1>2, <1>3, <1>4, <1>5
  DEF Next, Publication, vars, journal, observers, Begin, ReadGeneration, RetainOpen, RetainWrite,
      RetainCheck, Resume, Answer, UseRequest, FindPublished, Admit, WriteTemporary, Recheck,
      SyncParent, CommitResult, Refuse, Fail, Kill, PowerLoss, Recover, Edit, DiscardResource,
      ForeignWrite

\* The last look: what is there at the swap is what the plan found, unless
\* another program wrote in between.
LEMMA LastLookStep == TypeOK /\ ExportInv /\ [Next]_vars => LastLookHolds'
<1> SUFFICES ASSUME TypeOK, ExportInv, [Next]_vars, pc' = "swap"
             PROVE  (seen[Path] = op.plan.gen \/ op.raced)'
  BY DEF LastLookHolds
<1> USE DEF ExportInv
<1>1. CASE Recheck
  BY <1>1 DEF Recheck, files, Path
<1>2. ASSUME NEW p \in Paths, NEW x \in Foreign \cup {Missing}, ForeignWrite(p, x)
      PROVE  op'.raced
  BY <1>2 DEF ForeignWrite, ExportTypes, LastLooks
<1>3. CASE pc = "swap" /\ UNCHANGED <<seen, op>>
  BY <1>3 DEF LastLookHolds, Path
<1>4. QED
  BY <1>1, <1>2, <1>3
  DEF Next, Publication, vars, files, journal, observers, Begin, ReadGeneration, RetainOpen,
      RetainWrite, RetainCheck, CommitPlan, Resume, Answer, UseRequest, FindPublished, Admit,
      WriteTemporary, Swap, SyncParent, CommitResult, Refuse, Fail, OutcomeUnknown, Kill,
      PowerLoss, Recover, Edit, DiscardResource, Goto, Return

-----------------------------------------------------------------------------
(* What is on disk.                                                        *)

\* What a reader finds is among what may be on disk.
LEMMA SeenStep == TypeOK /\ ExportInv /\ [Next]_vars => (\A p \in Paths : seen[p] \in kept[p])'
<1> SUFFICES ASSUME TypeOK, ExportInv, [Next]_vars, NEW p \in Paths PROVE seen'[p] \in kept'[p]
  OBVIOUS
<1> USE DEF ExportInv
<1>0. seen[p] \in kept[p]
  BY DEF FilesKept
<1>1. CASE Swap \/ SyncParent
  <2>1. Path \in Paths
    BY <1>1, OpParts DEF Swap, SyncParent, ExportTypes
  <2>2. QED BY <1>0, <1>1, <2>1 DEF Swap, SyncParent, TypeOK
<1>2. ASSUME NEW r \in Paths, NEW x \in Foreign \cup {Missing}, ForeignWrite(r, x)
      PROVE  seen'[p] \in kept'[p]
  BY <1>0, <1>2 DEF ForeignWrite, TypeOK
<1>3. CASE PowerLoss
  BY <1>3 DEF PowerLoss
<1>4. CASE UNCHANGED files
  BY <1>0, <1>4 DEF files
<1>5. QED
  BY <1>1, <1>2, <1>3, <1>4
  DEF Next, Publication, vars, Begin, ReadGeneration, RetainOpen, RetainWrite, RetainCheck,
      CommitPlan, Resume, Answer, UseRequest, FindPublished, Admit, WriteTemporary, Recheck,
      CommitResult, Refuse, Fail, OutcomeUnknown, Kill, Recover, Edit, DiscardResource

\* The file of the export in progress is safe until its result is recorded.
LEMMA ProgressStep == TypeOK /\ ExportInv /\ [Next]_vars => InProgress'
<1> SUFFICES ASSUME TypeOK, ExportInv, [Next]_vars PROVE InProgress'
  OBVIOUS
<1> USE DEF ExportInv
<1>1. CASE FindPublished
  BY <1>1 DEF FindPublished, Goto, InProgress, files, Path, Bytes
<1>2. CASE Swap
  <2>1. Path \in Paths
    BY <1>2, OpParts DEF Swap, ExportTypes
  <2>2. Path' = Path /\ Bytes' = Bytes /\ pc' = "parent" /\ seen'[Path] = Bytes
    BY <1>2, <2>1 DEF Swap, Goto, TypeOK, Path, Bytes
  <2>3. QED BY <2>2 DEF InProgress
<1>3. CASE SyncParent
  <2>1. Path \in Paths
    BY <1>3, OpParts DEF SyncParent, ExportTypes
  <2>2. /\ Path' = Path /\ Bytes' = Bytes /\ pc = "parent" /\ pc' = "result"
        /\ kept'[Path] = {seen[Path]} /\ UNCHANGED <<holder, op>>
    BY <1>3, <2>1 DEF SyncParent, Goto, TypeOK, Path, Bytes, observers
  <2>3. QED BY <2>2 DEF InProgress, FilesKept
<1>4. ASSUME NEW p \in Paths, NEW x \in Foreign \cup {Missing}, ForeignWrite(p, x)
      PROVE  InProgress'
  <2> SUFFICES ASSUME pc # "idle" PROVE InProgress'
    BY <1>4 DEF ForeignWrite, InProgress
  <2>1. Path' = Path /\ Bytes' = Bytes /\ op'.req = op.req /\ pc' = pc
    BY <1>4, ForeignKeepsExport DEF ForeignWrite
  <2>2. Path \in Paths /\ op.req \in Requests
    BY OpParts DEF ExportTypes
  <2>3. CASE p = Path
    <3>1. holder'[Path] # op.req
      BY <1>4, <2>2, <2>3, ExportBounds DEF ForeignWrite, TypeOK
    <3>2. QED BY <2>1, <3>1 DEF InProgress
  <2>4. CASE p # Path
    <3>1. holder'[Path] = holder[Path] /\ seen'[Path] = seen[Path] /\ kept'[Path] = kept[Path]
      BY <1>4, <2>2, <2>4 DEF ForeignWrite, TypeOK
    <3>2. QED BY <2>1, <3>1 DEF InProgress, FilesKept
  <2>5. QED BY <2>3, <2>4
<1>5. CASE UNCHANGED <<pc, op, seen, kept, holder>>
  BY <1>5 DEF InProgress, FilesKept, Path, Bytes
<1>6. CASE pc' \notin {"parent", "result"}
  BY <1>6 DEF InProgress
<1>7. QED
  BY <1>1, <1>2, <1>3, <1>4, <1>5, <1>6
  DEF Next, Publication, vars, files, observers, Begin, ReadGeneration, RetainOpen, RetainWrite,
      RetainCheck, CommitPlan, Resume, Answer, UseRequest, Admit, WriteTemporary, Recheck,
      CommitResult, Refuse, Fail, OutcomeUnknown, Kill, PowerLoss, Recover, Edit, DiscardResource,
      Goto, Return

\* A recorded file stays on disk: later exports take over its path under their
\* own name, other programs under none, and a power loss finds it there.
LEMMA RecordedStep == TypeOK /\ ExportInv /\ [Next]_vars => RecordedFileSurvives'
<1> SUFFICES ASSUME TypeOK, ExportInv, [Next]_vars PROVE RecordedFileSurvives'
  OBVIOUS
<1> USE DEF ExportInv
<1> DEFINE Kept(q) == holder[plans[q].intent.path] = q =>
                        kept[plans[q].intent.path] = {plans[q].bytes}
<1>0. \A q \in results : q \in DOMAIN plans /\ plans[q].intent.path \in Paths /\ Kept(q)
  BY PlanParts DEF TypeOK, FilesKept, RecordedFileSurvives
<1>1. CASE FindPublished \/ Swap
  <2>1. /\ Path \in Paths /\ op.req \notin results /\ UNCHANGED <<plans, results>>
        /\ holder' = [holder EXCEPT ![Path] = op.req]
    BY <1>1, OpParts, PublicationKeepsExport
    DEF FindPublished, Swap, InPlace, ExportTypes, PlanStands, Publishing
  <2>2. \A p \in Paths : p # Path => kept'[p] = kept[p]
    BY <1>1 DEF FindPublished, Swap, TypeOK, files
  <2>3. ASSUME NEW q \in results PROVE Kept(q)'
    <3>1. CASE plans[q].intent.path = Path
      <4>1. holder'[Path] = op.req /\ op.req # q
        BY <2>1, <2>3 DEF TypeOK
      <4>2. QED BY <2>1, <3>1, <4>1
    <3>2. CASE plans[q].intent.path # Path
      <4>1. holder'[plans[q].intent.path] = holder[plans[q].intent.path]
        BY <1>0, <2>1, <2>3, <3>2 DEF TypeOK
      <4>2. QED BY <1>0, <2>1, <2>2, <2>3, <3>2, <4>1
    <3>3. QED BY <3>1, <3>2
  <2>4. QED BY <2>1, <2>3 DEF RecordedFileSurvives
<1>2. CASE SyncParent
  <2>1. /\ Path \in Paths /\ UNCHANGED <<plans, results, holder>>
        /\ kept' = [kept EXCEPT ![Path] = {seen[Path]}]
    BY <1>2, OpParts DEF SyncParent, ExportTypes, journal, observers
  <2>2. ASSUME NEW q \in results PROVE Kept(q)'
    <3> DEFINE p == plans[q].intent.path
    <3>1. p \in Paths /\ (holder[p] = q => kept[p] = {plans[q].bytes}) /\ seen[p] \in kept[p]
      BY <1>0, <2>2 DEF FilesKept
    <3>2. kept'[p] = IF p = Path THEN {seen[p]} ELSE kept[p]
      BY <2>1, <3>1 DEF TypeOK
    <3> HIDE DEF p
    <3>3. holder[p] = q => kept'[p] = {plans[q].bytes}
      BY <3>1, <3>2
    <3>4. QED BY <2>1, <3>3 DEF p
  <2>3. QED BY <2>1, <2>2 DEF RecordedFileSurvives
<1>3. ASSUME pc = "result", results' = results \cup {op.req}, UNCHANGED <<plans, kept, holder>>
      PROVE  RecordedFileSurvives'
  <2>1. op.plan = plans[op.req] /\ (holder[Path] = op.req => kept[Path] = {Bytes})
    BY <1>3 DEF PlanStands, Publishing, FilesKept, InProgress
  <2>2. Kept(op.req)
    BY <2>1 DEF Path, Bytes
  <2>3. QED BY <1>0, <1>3, <2>2 DEF RecordedFileSurvives
<1>4. ASSUME op \in Exports \cup LastLooks, PlanFits(op.req), UNCHANGED <<results, kept, holder>>,
             plans' = [q \in DOMAIN plans \cup {op.req} |->
                         IF q = op.req THEN op.plan ELSE plans[q]]
      PROVE  RecordedFileSurvives'
  <2>1. \A q \in results : plans'[q] = plans[q]
    BY <1>0, <1>4, NewPlan
  <2>2. QED BY <1>0, <1>4, <2>1, ZenonT(60) DEF RecordedFileSurvives
<1>5. CASE UNCHANGED <<plans, results, kept, holder>>
  BY <1>0, <1>5 DEF RecordedFileSurvives
<1>6. CASE PowerLoss
  <2>1. /\ UNCHANGED <<plans, results, holder>>
        /\ \A p \in Paths : seen'[p] \in kept[p] /\ kept'[p] = {seen'[p]}
    BY <1>6 DEF PowerLoss, journal, observers
  <2>2. ASSUME NEW q \in results PROVE Kept(q)'
    BY <1>0, <2>1, <2>2
  <2>3. QED BY <2>1, <2>2 DEF RecordedFileSurvives
<1>7. ASSUME NEW p \in Paths, NEW x \in Foreign \cup {Missing}, ForeignWrite(p, x)
      PROVE  RecordedFileSurvives'
  <2>1. /\ UNCHANGED <<plans, results>>
        /\ \A r \in Paths : IF r = p THEN holder'[r] = NoRequest
                             ELSE holder'[r] = holder[r] /\ kept'[r] = kept[r]
    BY <1>7 DEF ForeignWrite, TypeOK, journal
  <2>2. ASSUME NEW q \in results PROVE Kept(q)'
    <3>1. q # NoRequest
      BY <2>2, ExportBounds DEF TypeOK
    <3>2. QED BY <1>0, <2>1, <2>2, <3>1
  <2>3. QED BY <2>1, <2>2 DEF RecordedFileSurvives
<1>8. CASE CommitPlan
  BY <1>4, <1>8 DEF CommitPlan, ExportTypes, files, observers
<1>9. CASE CommitResult
  BY <1>3, <1>9 DEF CommitResult, files
<1>10. CASE OutcomeUnknown
  BY <1>3, <1>4, <1>5, <1>10 DEF OutcomeUnknown, ExportTypes, files, observers
<1>11. QED
  BY <1>1, <1>2, <1>5, <1>6, <1>7, <1>8, <1>9, <1>10
  DEF Next, Publication, vars, files, journal, observers, Begin, ReadGeneration, RetainOpen,
      RetainWrite, RetainCheck, Resume, Answer, UseRequest, Admit, WriteTemporary, Recheck,
      Refuse, Fail, Kill, Recover, Edit, DiscardResource

-----------------------------------------------------------------------------
(* The theorems.                                                           *)

\* The invariant holds in every run.
THEOREM ExportInvariant == Spec => [](TypeOK /\ ExportInv)
<1>1. Init => TypeOK /\ ExportInv
  <2> SUFFICES ASSUME Init PROVE TypeOK /\ ExportInv
    OBVIOUS
  <2>1. DOMAIN plans = {} /\ IsFiniteSet(DOMAIN plans) /\ Cardinality(DOMAIN plans) = 0
    BY FS_EmptySet DEF Init
  <2>2. seen \in [Paths -> Content] /\ kept \in [Paths -> SUBSET Content]
    BY DEF Init, Content
  <2>3. TypeOK
    <3>1. captures \in [Documents -> {"none", "part", "full", "durable"}]
      BY DEF Init
    <3>2. doc \in Documents
      BY ExportBounds DEF Init, Documents
    <3>3. pc \in Steps /\ pc = "idle" /\ discarded \in BOOLEAN /\ usable \in BOOLEAN
      BY DEF Init, Steps
    <3>4. results = {} /\ elsewhere = {} /\ told = {} /\ placed = {}
      BY DEF Init
    <3>5. holder \in [Paths -> Requests \cup {NoRequest}]
      BY DEF Init
    <3>6. Cardinality(DOMAIN plans) <= MaxPlans
      BY <2>1, ExportBounds
    <3>7. QED BY <2>1, <2>2, <3>1, <3>2, <3>3, <3>4, <3>5, <3>6 DEF TypeOK
  <2>4. ExportInv
    BY <2>1 DEF Init, ExportInv, ExportTypes, PlanStands, Publishing, CapturesKept,
                PlannedCaptureSurvives, PlacedAsPlanned, FilesKept, InProgress, RecordedFileSurvives,
                LastLookHolds
  <2>5. QED BY <2>3, <2>4
<1>2. TypeOK /\ ExportInv /\ [Next]_vars => (TypeOK /\ ExportInv)'
  BY TypeStep, PlanStep, CaptureStep, PlacedStep, LastLookStep, SeenStep, ProgressStep, RecordedStep
  DEF ExportInv, FilesKept
<1>3. QED
  BY <1>1, <1>2, PTL DEF Spec

\* A planned capture survives every failure, so the plan can be published.
THEOREM CapturesSurvive == Spec => []PlannedCaptureSurvives
<1>1. ExportInv => PlannedCaptureSurvives
  BY DEF ExportInv, CapturesKept
<1>2. QED BY <1>1, ExportInvariant, PTL

\* One request puts one content into place, however often it is retried.
THEOREM OneContent == Spec => []OneContentPerRequest
<1>1. ExportInv => OneContentPerRequest
  BY DEF ExportInv, PlacedAsPlanned, OneContentPerRequest
<1>2. QED BY <1>1, ExportInvariant, PTL

\* A reported file is on disk unless somebody else wrote the destination since.
THEOREM ReportedFilesSurvive == Spec => []ReportedFileSurvives
<1>1. TypeOK /\ ExportInv => ReportedFileSurvives
  BY DEF ExportInv, FilesKept, RecordedFileSurvives, ReportedFileSurvives, TypeOK
<1>2. QED BY <1>1, ExportInvariant, PTL

\* A published file can always be acknowledged.
THEOREM ResultsRecordable == Spec => []ResultCanBeRecorded
<1>1. TypeOK /\ ExportInv => ResultCanBeRecorded
  BY DEF ExportInv, PlanStands, Publishing, ResultCanBeRecorded, ResultFits, TypeOK
<1>2. QED BY <1>1, ExportInvariant, PTL

\* A pending capture never overwrites newer data, but for a write in the one
\* window a rename cannot close.
THEOREM NewerDataKept == Spec => NoNewerDataLost
<1> DEFINE Keeps == pc = "swap" /\ pc' = "parent" =>
                      /\ seen[Path] = op.plan.gen \/ op.raced
                      /\ Path = Output /\ ~op.plan.intent.force => seen[Path] = Missing
<1>1. TypeOK /\ ExportInv /\ [Next]_vars => [Keeps]_vars
  <2> SUFFICES ASSUME TypeOK, ExportInv, [Next]_vars, pc = "swap", pc' = "parent" PROVE Keeps
    OBVIOUS
  <2>1. Swap
    BY DEF Next, Publication, vars, Begin, ReadGeneration, RetainOpen, RetainWrite, RetainCheck,
           CommitPlan, Resume, Answer, UseRequest, FindPublished, Admit, WriteTemporary, Recheck,
           SyncParent, CommitResult, Refuse, Fail, OutcomeUnknown, Kill, PowerLoss, Recover, Edit,
           DiscardResource, ForeignWrite, Goto, Return
  <2>2. QED
    BY <2>1, ExportBounds DEF Swap, ExportInv, LastLookHolds
<1>2. QED
  BY <1>1, ExportInvariant, PTL DEF Spec, NoNewerDataLost


\* A behaviour of the composed system is, seen from the export, one of its own.
THEOREM ExportAlone == FilesSpec => Spec
<1>1. FilesInit => Init
  BY DEF FilesInit
<1>2. [FilesNext]_all => [Next]_vars
  BY DEF FilesNext, all
<1> QED
  BY <1>1, <1>2, PTL DEF FilesSpec, Spec

-----------------------------------------------------------------------------
(* Command line processes: every step keeps CliInv.                         *)

LEMMA Modes ==
  ASSUME cCall \in Calls, NEW p \in Procs
  PROVE  /\ C!Way(p) \in {"staged", "machine", "recalc", "direct"}
         /\ C!Mode(p) \in {"invalid", "dry_run", "in_place", "output"}
         /\ C!Mode(p) \in {"in_place", "output"} => C!Target(p) \in C!Paths
         /\ C!Mode(p) = "output" => C!Target(p) = cCall[p].output
         /\ C!Way(p) = "direct" => C!Mode(p) = "output"
<1> DEFINE c == cCall[p]
           w == C!Command(c).way
<1>1. C!WellFormed(c)
  BY FilesAssumption
<1>2. w \in {"staged", "machine", "recalc", "direct"}
  BY <1>1 DEF C!WellFormed
<1>3. C!Way(p) = w
  BY DEF C!Way
<1> HIDE DEF c, w
<1>4. C!Mode(p) = C!ModeOf(c)
  BY DEF c, C!Mode
<1>5. c.output \in C!Paths \cup {C!None}
  BY <1>1 DEF C!WellFormed
<1>6. w = "direct" => C!ModeOf(c) = "output"
  BY DEF C!ModeOf, w
<1>7. C!ModeOf(c) \in {"invalid", "dry_run", "in_place", "output"}
  BY <1>2 DEF C!ModeOf, w, C!validate_edit_mode, C!validate_batch_mode, C!machine_mode
<1>8. C!ModeOf(c) = "output" => c.output # C!None
  BY <1>1, <1>2 DEF C!ModeOf, w, C!validate_edit_mode, C!validate_batch_mode, C!machine_mode, C!WellFormed
<1>9. C!Target(p) = IF C!ModeOf(c) = "in_place" THEN "src" ELSE c.output
  BY <1>4 DEF C!Target, c
<1> QED
  BY <1>2, <1>3, <1>4, <1>5, <1>6, <1>7, <1>8, <1>9 DEF C!Paths, C!None, c

LEMMA CallKept ==
  ASSUME cCall' = cCall, NEW p \in Procs
  PROVE  C!Way(p)' = C!Way(p) /\ C!Mode(p)' = C!Mode(p) /\ C!Target(p)' = C!Target(p)
BY DEF C!Way, C!Mode, C!Target

\* What a step of p leaves alone.
Aside(p) ==
    \A q \in Procs : q # p =>
        /\ cPc'[q] = cPc[q] /\ cOutcome'[q] = cOutcome[q]
        /\ cSeen'[q] = cSeen[q] /\ cBased'[q] = cBased[q] /\ cFound'[q] = cFound[q]
SameFiles == cInode' = cInode /\ cDir' = cDir /\ cMight' = cMight /\ cLog' = cLog

LEMMA RoutesAside ==
  ASSUME cCall' = cCall, NEW p \in Procs, Aside(p), \A q \in Procs : C!Route(q), C!Route(p)'
  PROVE  (\A q \in Procs : C!Route(q))'
<1> SUFFICES ASSUME NEW q \in Procs, q # p PROVE C!Route(q)'
  OBVIOUS
<1>1. C!Way(q)' = C!Way(q) /\ C!Mode(q)' = C!Mode(q) /\ C!Route(q) /\ cPc'[q] = cPc[q] /\ cOutcome'[q] = cOutcome[q]
  BY CallKept DEF Aside
<1> QED
  BY <1>1 DEF C!Route

\* Whoever marks a file goes on to do so.
LEMMA MarksStay ==
  ASSUME cCall' = cCall, NEW f, \A q \in Procs : cTemp[q] = f => cTemp'[q] = f
  PROVE  /\ C!Overwritten(f) => C!Overwritten(f)'
         /\ C!Unsynced(f) => C!Unsynced(f)'
         /\ C!Sturdy(f) /\ cInode'[f] = cInode[f] => C!Sturdy(f)'
<1>c. \A q \in Procs : C!Way(q)' = C!Way(q) /\ C!Mode(q)' = C!Mode(q)
  BY CallKept
<1>1. C!Overwritten(f) => C!Overwritten(f)'
  BY <1>c DEF C!Overwritten
<1>2. C!Unsynced(f) => C!Unsynced(f)'
  BY <1>c DEF C!Unsynced
<1> QED
  BY <1>1, <1>2 DEF C!Sturdy

\* A step before the command has a temporary file: it looks, reads or refuses.
LEMMA QuietStep ==
  ASSUME C!CliInv, cCall' = cCall, NEW p \in Procs, Aside(p), SameFiles, cTemp' = cTemp, cUnasked' = cUnasked,
         C!CliTypes', C!Route(p)',
         cPc[p] \in C!Early, cPc'[p] \in C!Early \cup {"done"},
         \A d \in Procs : C!Mode(d) = "dry_run" => d \notin cBased'[p],
         cOutcome'[p] = "ok" => C!Mode(p) = "dry_run",
         cPc'[p] = "stage" /\ C!Mode(p) = "output" /\ ~cCall[p].force => ~cFound'[p],
         cPc'[p] = "export_check" => cBased'[p] = cSeen'[p]
  PROVE  C!CliInv'
<1> USE DEF C!CliInv
<1>c. \A q \in Procs : C!Way(q)' = C!Way(q) /\ C!Mode(q)' = C!Mode(q) /\ C!Target(q)' = C!Target(q)
  BY CallKept
<1>0. cTemp[p] = 0 /\ cPc[p] # "done"
  BY DEF C!TempsApart, C!Early
<1>2. (\A q \in Procs : C!Route(q))'
  BY RoutesAside
<1>3. C!TempsApart'
  BY <1>0 DEF C!TempsApart, C!Early, C!Private, Aside, SameFiles
<1>4. C!EntriesSturdy'
  <2>1. ASSUME NEW f, C!Sturdy(f) PROVE C!Sturdy(f)'
    BY <2>1, MarksStay DEF SameFiles
  <2>2. \A t \in C!Paths : \A f \in cMight[t] : f # 0 => C!Sturdy(f)'
    BY <2>1 DEF C!EntriesSturdy
  <2> QED
    BY <2>2 DEF C!EntriesSturdy, C!Early, C!Private, Aside, SameFiles
<1>5. C!LogsReach'
  <2> SUFFICES ASSUME NEW q \in Procs
               PROVE  /\ cPc'[q] = "fsync_dir" => C!CameBefore(q, cDir[C!Target(q)])'
                      /\ C!Reported(q, "staged")' => \A f \in cMight[C!Target(q)] : C!CameBefore(q, f)'
    BY <1>c DEF C!LogsReach, SameFiles
  <2>1. q # p => cPc'[q] = cPc[q] /\ (C!Reported(q, "staged")' <=> C!Reported(q, "staged"))
    BY <1>c DEF C!Reported, Aside
  <2>2. q = p => cPc'[q] # "fsync_dir" /\ ~C!Reported(q, "staged")'
    BY <1>c DEF C!Reported, C!Early
  <2>3. \A f : C!CameBefore(q, f)' <=> C!CameBefore(q, f)
    BY <1>c DEF C!CameBefore, SameFiles
  <2> QED
    BY <2>1, <2>2, <2>3, <1>c DEF C!LogsReach, SameFiles
<1>6. C!LooksStand'
  <2>1. ASSUME NEW q \in Procs, cPc'[q] \in {"stage", "apply", "remove", "persist", "export"},
               C!Mode(q) = "output", ~cCall[q].force
        PROVE  ~cFound'[q]
    <3>1. CASE q = p
      BY <2>1, <3>1, Zenon DEF C!Early
    <3>2. CASE q # p
      BY <2>1, <3>2 DEF C!LooksStand, Aside
    <3> QED
      BY <3>1, <3>2
  <2>2. ASSUME NEW q \in cUnasked PROVE q \in Procs /\ q # p /\ cPc'[q] = "done" /\ ~cFound'[q]
    BY <1>0 DEF C!LooksStand, C!CliTypes, Aside
  <2> QED
    BY <1>c, <2>1, <2>2 DEF C!LooksStand
<1>7. C!DryRunsApart'
  BY <1>0, <1>c DEF C!DryRunsApart, Aside, SameFiles
<1>8. (\A q \in Procs : C!Delivered(q))'
  <2>1. ASSUME NEW f, C!Overwritten(f) PROVE C!Overwritten(f)'
    BY <2>1, MarksStay
  <2> SUFFICES ASSUME NEW q \in Procs PROVE C!Delivered(q)'
    OBVIOUS
  <2>2. CASE q # p
    <3>1. cPc'[q] = cPc[q] /\ cSeen'[q] = cSeen[q] /\ cBased'[q] = cBased[q]
      BY <2>2 DEF Aside
    <3>2. \A w : C!Reported(q, w)' <=> C!Reported(q, w)
      BY <2>2, <1>c DEF C!Reported, Aside
    <3> QED
      BY <2>1, <3>1, <3>2 DEF C!Delivered, SameFiles
  <2>3. CASE q = p
    <3>1. \A w : ~C!Reported(q, w)'
      BY <2>3, <1>c DEF C!Reported
    <3> QED
      BY <2>3, <3>1 DEF C!Delivered, C!Early
  <2> QED
    BY <2>2, <2>3
<1> QED
  BY <1>2, <1>3, <1>4, <1>5, <1>6, <1>7, <1>8

\* A step that ends the command and changes no file: a refusal, an error, a kill.
\* A temporary file that is dropped was nobody else's.
LEMMA StopStep ==
  ASSUME C!CliInv, cCall' = cCall, NEW p \in Procs, Aside(p), SameFiles, cUnasked' = cUnasked, cBased' = cBased,
         C!CliTypes', cPc[p] # "done", cPc'[p] = "done", cOutcome'[p] \in {"refused", "failed", "killed"},
         \/ cTemp' = cTemp
         \/ cTemp' = [cTemp EXCEPT ![p] = 0] /\ cPc[p] \in C!Private,
         C!Mode(p) = "dry_run" /\ cOutcome'[p] # "killed" => cTemp'[p] = 0
  PROVE  C!CliInv'
<1> USE DEF C!CliInv
<1>c. \A q \in Procs : C!Way(q)' = C!Way(q) /\ C!Mode(q)' = C!Mode(q) /\ C!Target(q)' = C!Target(q)
  BY CallKept
<1>d. \A q \in Procs : (q # p => cTemp'[q] = cTemp[q]) /\ (cTemp'[q] = cTemp[q] \/ cTemp'[q] = 0)
  BY DEF C!CliTypes
<1>w. ASSUME NEW q \in Procs, C!Way(q) = "direct" \/ (C!Way(q) = "recalc" /\ C!Mode(q) = "in_place")
      PROVE  cTemp'[q] = cTemp[q]
  <2>1. q = p => cPc[p] \notin C!Private
    <3>1. C!Route(p)
      OBVIOUS
    <3> QED
      BY <1>w, <3>1 DEF C!Route, C!Private
  <2> QED
    BY <1>d, <2>1
<1>m. ASSUME NEW t \in C!Paths, NEW f \in cMight[t], f # 0 PROVE \A q \in Procs : cTemp[q] = f => cTemp'[q] = f
  BY <1>d DEF C!TempsApart, C!CliTypes
<1>2. (\A q \in Procs : C!Route(q))'
  <2>1. C!Route(p)'
    BY DEF C!Route
  <2> QED
    BY <2>1, RoutesAside
<1>3. C!TempsApart'
  BY <1>d DEF C!TempsApart, C!Early, C!Private, Aside, SameFiles
<1>4. C!EntriesSturdy'
  <2>1. ASSUME NEW t \in C!Paths, NEW f \in cMight[t], f # 0 PROVE C!Sturdy(f)'
    <3>1. \A q \in Procs : cTemp[q] = f => cTemp'[q] = f
      BY <1>m, <2>1
    <3>2. C!Sturdy(f) /\ cInode'[f] = cInode[f]
      BY <2>1 DEF SameFiles, C!EntriesSturdy
    <3> QED
      BY <3>1, <3>2, MarksStay
  <2> QED
    BY <2>1, <1>d DEF C!EntriesSturdy, C!Private, Aside, SameFiles
<1>5. C!LogsReach'
  <2> SUFFICES ASSUME NEW q \in Procs
               PROVE  /\ cPc'[q] = "fsync_dir" => C!CameBefore(q, cDir[C!Target(q)])'
                      /\ C!Reported(q, "staged")' => \A f \in cMight[C!Target(q)] : C!CameBefore(q, f)'
    BY <1>c DEF C!LogsReach, SameFiles
  <2>1. q # p => cPc'[q] = cPc[q] /\ (C!Reported(q, "staged")' <=> C!Reported(q, "staged"))
    BY <1>c DEF C!Reported, Aside
  <2>2. q = p => cPc'[q] # "fsync_dir" /\ ~C!Reported(q, "staged")'
    BY <1>c DEF C!Reported
  <2>3. q # p => \A f : C!CameBefore(q, f)' <=> C!CameBefore(q, f)
    BY <1>c, <1>d DEF C!CameBefore, SameFiles
  <2> QED
    BY <2>1, <2>2, <2>3, <1>c DEF C!LogsReach, SameFiles
<1>6. C!LooksStand'
  <2>1. ASSUME NEW q \in Procs, cPc'[q] \in {"stage", "apply", "remove", "persist", "export"},
               C!Mode(q) = "output", ~cCall[q].force
        PROVE  ~cFound'[q]
    BY <2>1 DEF C!LooksStand, Aside
  <2>2. ASSUME NEW q \in cUnasked PROVE q \in Procs /\ q # p /\ cPc'[q] = "done" /\ ~cFound'[q]
    BY DEF C!LooksStand, C!CliTypes, Aside
  <2> QED
    BY <1>c, <2>1, <2>2 DEF C!LooksStand
<1>7. C!DryRunsApart'
  <2> SUFFICES ASSUME NEW d \in Procs, C!Mode(d) = "dry_run"
               PROVE  /\ \A t \in C!Paths : \A f \in cMight[t] : f # 0 => d \notin cInode[f].doc
                      /\ \A q \in Procs \ {d} : cTemp'[q] # 0 => d \notin cInode[cTemp'[q]].doc
                      /\ \A q \in Procs : d \notin cBased'[q]
                      /\ cPc'[d] = "done" /\ cOutcome'[d] # "killed" => cTemp'[d] = 0
    BY <1>c DEF C!DryRunsApart, SameFiles
  <2>1. \A q \in Procs \ {d} : cTemp'[q] # 0 => d \notin cInode[cTemp'[q]].doc
    BY <1>d DEF C!DryRunsApart
  <2>2. cPc'[d] = "done" /\ cOutcome'[d] # "killed" => cTemp'[d] = 0
    BY <1>d DEF C!DryRunsApart, Aside
  <2> QED
    BY <2>1, <2>2 DEF C!DryRunsApart
<1>8. (\A q \in Procs : C!Delivered(q))'
  <2> SUFFICES ASSUME NEW q \in Procs PROVE C!Delivered(q)'
    OBVIOUS
  <2>1. ASSUME NEW f, C!Overwritten(f) PROVE C!Overwritten(f)'
    BY <2>1, <1>c, <1>w DEF C!Overwritten
  <2>2. CASE q # p
    <3>1. cPc'[q] = cPc[q] /\ cSeen'[q] = cSeen[q] /\ cBased'[q] = cBased[q] /\ cTemp'[q] = cTemp[q]
      BY <2>2, <1>d DEF Aside
    <3>2. \A w : C!Reported(q, w)' <=> C!Reported(q, w)
      BY <2>2, <1>c DEF C!Reported, Aside
    <3> QED
      BY <2>1, <3>1, <3>2 DEF C!Delivered, SameFiles
  <2>3. CASE q = p
    <3>1. \A w : ~C!Reported(q, w)'
      BY <2>3, <1>c DEF C!Reported
    <3> QED
      BY <2>3, <3>1 DEF C!Delivered
  <2> QED
    BY <2>2, <2>3
<1> QED
  BY <1>2, <1>3, <1>4, <1>5, <1>6, <1>7, <1>8

-----------------------------------------------------------------------------
(* The steps before there is a temporary file.                              *)

\* The content of a path that is there.
LEMMA ContentTypes ==
  ASSUME C!CliTypes, NEW t \in C!Paths, C!Exists(t)
  PROVE  cDir[t] \in 1..Len(cInode) /\ cInode[cDir[t]] \in C!Files /\ C!Content(t) \in C!Docs
<1>1. cDir[t] \in 1..Len(cInode)
  BY DEF C!CliTypes, C!Exists
<1>2. cInode[cDir[t]] \in C!Files
  BY <1>1 DEF C!CliTypes
<1> QED
  BY <1>1, <1>2 DEF C!Content, C!Files

LEMMA BeginKeeps ==
  ASSUME C!CliInv, cCall' = cCall, NEW p \in Procs, C!Begin(p)
  PROVE  C!CliInv'
<1> USE DEF C!CliInv
<1>m. /\ C!Way(p) \in {"staged", "machine", "recalc", "direct"}
      /\ C!Mode(p) \in {"invalid", "dry_run", "in_place", "output"}
      /\ C!Way(p)' = C!Way(p) /\ C!Mode(p)' = C!Mode(p)
  BY Modes, CallKept DEF C!CliTypes
<1>n. /\ C!Way(p) = "direct" => C!Mode(p) = "output"
      /\ C!Way(p) = "recalc" => C!Mode(p) # "dry_run"
  BY Modes DEF C!CliTypes, C!Mode, C!ModeOf, C!Way
<1>1. C!CliTypes'
  BY <1>m DEF C!CliTypes, C!Begin, C!Goto, C!Return, C!files, C!observers, C!Steps, C!Early, C!Private, C!None
<1>2. /\ cPc[p] = "begin" /\ cOutcome[p] = C!None
      /\ SameFiles /\ cTemp' = cTemp /\ cUnasked' = cUnasked /\ cBased' = cBased
      /\ Aside(p)
  BY DEF C!CliTypes, C!Begin, C!Goto, C!Return, C!files, C!observers, Aside, SameFiles, C!Route
<1>3. /\ cPc'[p] \in {"done", "resolve", "check", "hash", "rewrite", "direct"}
      /\ cPc'[p] = "done" => cOutcome'[p] = "refused"
      /\ cPc'[p] # "done" => cOutcome'[p] = C!None /\ C!Mode(p) # "invalid"
  BY <1>m, <1>2 DEF C!CliTypes, C!Begin, C!Goto, C!Return
<1>4. /\ cPc'[p] = "resolve" => C!Way(p) = "staged"
      /\ cPc'[p] = "check" => C!Way(p) = "staged" \/ (C!Way(p) = "recalc" /\ C!Mode(p) = "output")
      /\ cPc'[p] = "hash" => C!Way(p) = "machine"
      /\ cPc'[p] = "rewrite" => C!Way(p) = "recalc" /\ C!Mode(p) = "in_place"
      /\ cPc'[p] = "direct" => C!Way(p) = "direct"
  BY <1>m, <1>n, <1>2, <1>3 DEF C!CliTypes, C!Begin, C!Goto, C!Return
<1>5. C!Route(p)'
  BY <1>m, <1>3, <1>4 DEF C!Route, C!None
<1>6. cOutcome'[p] # "ok"
  BY <1>3 DEF C!None
<1>7. \A d \in Procs : C!Mode(d) = "dry_run" => d \notin cBased'[p]
  BY <1>2 DEF C!DryRunsApart
<1> QED
  BY <1>1, <1>2, <1>3, <1>5, <1>6, <1>7, QuietStep DEF C!Early

LEMMA ResolveKeeps ==
  ASSUME C!CliInv, cCall' = cCall, NEW p \in Procs, C!Resolve(p)
  PROVE  C!CliInv'
<1> USE DEF C!CliInv
<1>m. C!Way(p)' = C!Way(p) /\ C!Mode(p)' = C!Mode(p)
  BY CallKept
<1>s. C!Exists("src") => C!Content("src") \in C!Docs
  BY ContentTypes DEF C!Paths
<1>1. C!CliTypes'
  BY <1>s DEF C!CliTypes, C!Resolve, C!Goto, C!Return, C!files, C!observers, C!Steps, C!Early, C!Private, C!None,
              C!Readable
<1>2. /\ cPc[p] = "resolve" /\ cOutcome[p] = C!None
      /\ SameFiles /\ cTemp' = cTemp /\ cUnasked' = cUnasked /\ cBased' = cBased
      /\ Aside(p)
  BY DEF C!CliTypes, C!Resolve, C!Goto, C!Return, C!files, C!observers, Aside, SameFiles, C!Route
<1>3. /\ cPc'[p] \in {"done", "check"}
      /\ cPc'[p] = "done" => cOutcome'[p] = "refused"
      /\ cPc'[p] # "done" => cOutcome'[p] = C!None
  BY <1>2 DEF C!CliTypes, C!Resolve, C!Goto, C!Return
<1>4. C!Route(p)'
  BY <1>m, <1>2, <1>3 DEF C!Route, C!None
<1>5. cOutcome'[p] # "ok"
  BY <1>3 DEF C!None
<1>6. \A d \in Procs : C!Mode(d) = "dry_run" => d \notin cBased'[p]
  BY <1>2 DEF C!DryRunsApart
<1> QED
  BY <1>1, <1>2, <1>3, <1>4, <1>5, <1>6, QuietStep DEF C!Early

LEMMA CheckKeeps ==
  ASSUME C!CliInv, cCall' = cCall, NEW p \in Procs, C!Check(p)
  PROVE  C!CliInv'
<1> USE DEF C!CliInv
<1>m. C!Way(p)' = C!Way(p) /\ C!Mode(p)' = C!Mode(p)
  BY CallKept
<1>1. C!CliTypes'
  BY DEF C!CliTypes, C!Check, C!Goto, C!Return, C!files, C!observers, C!Steps, C!Early, C!Private, C!None
<1>2. /\ cPc[p] = "check" /\ cOutcome[p] = C!None
      /\ SameFiles /\ cTemp' = cTemp /\ cUnasked' = cUnasked /\ cBased' = cBased
      /\ Aside(p)
  BY DEF C!CliTypes, C!Check, C!Goto, C!Return, C!files, C!observers, Aside, SameFiles, C!Route
<1>3. /\ cPc'[p] \in {"done", "stage"}
      /\ cPc'[p] = "done" => cOutcome'[p] = "refused"
      /\ cPc'[p] # "done" => cOutcome'[p] = C!None
  BY <1>2 DEF C!CliTypes, C!Check, C!Goto, C!Return
<1>4. C!Route(p)'
  BY <1>m, <1>2, <1>3 DEF C!Route, C!None
<1>5. cOutcome'[p] # "ok"
  BY <1>3 DEF C!None
<1>6. \A d \in Procs : C!Mode(d) = "dry_run" => d \notin cBased'[p]
  BY <1>2 DEF C!DryRunsApart
<1>7. cPc'[p] = "stage" /\ C!Mode(p) = "output" /\ ~cCall[p].force => ~cFound'[p]
  <2> SUFFICES ASSUME cPc'[p] = "stage", C!Mode(p) = "output", ~cCall[p].force PROVE cFound'[p] = FALSE
    BY Zenon
  <2>1. ~C!Unasked(p)
    BY <1>2 DEF C!CliTypes, C!Check, C!Goto, C!Return
  <2>2. ~C!Exists(C!Target(p))
    BY <2>1 DEF C!Unasked
  <2> QED
    BY <2>2 DEF C!CliTypes, C!Check
<1> QED
  BY <1>1, <1>2, <1>3, <1>4, <1>5, <1>6, <1>7, QuietStep DEF C!Early

LEMMA HashKeeps ==
  ASSUME C!CliInv, cCall' = cCall, NEW p \in Procs, C!Hash(p)
  PROVE  C!CliInv'
<1> USE DEF C!CliInv
<1>m. C!Way(p)' = C!Way(p) /\ C!Mode(p)' = C!Mode(p)
  BY CallKept
<1>s. (IF C!Readable("src") THEN C!Content("src") ELSE {}) \in C!Docs
  BY ContentTypes DEF C!Paths, C!Readable, C!Docs
<1>1. C!CliTypes'
  BY <1>s DEF C!CliTypes, C!Hash, C!Goto, C!files, C!observers, C!Steps, C!Early, C!Private, C!None
<1>2. /\ cPc[p] = "hash" /\ cOutcome[p] = C!None
      /\ SameFiles /\ cTemp' = cTemp /\ cUnasked' = cUnasked /\ cBased' = cBased
      /\ Aside(p) /\ cPc'[p] = "fork" /\ cOutcome'[p] = C!None
  BY DEF C!CliTypes, C!Hash, C!Goto, C!files, C!observers, Aside, SameFiles, C!Route
<1>3. C!Route(p)'
  BY <1>m, <1>2 DEF C!Route, C!None
<1>4. cOutcome'[p] # "ok"
  BY <1>2 DEF C!None
<1>5. \A d \in Procs : C!Mode(d) = "dry_run" => d \notin cBased'[p]
  BY <1>2 DEF C!DryRunsApart
<1> QED
  BY <1>1, <1>2, <1>3, <1>4, <1>5, QuietStep DEF C!Early

\* What the source holds, no dry run has touched.
LEMMA SourceIsNobodysDryRun ==
  ASSUME C!CliInv, NEW t \in C!Paths, C!Exists(t)
  PROVE  \A d \in Procs : C!Mode(d) = "dry_run" => d \notin C!Content(t)
BY DEF C!CliInv, C!CliTypes, C!DryRunsApart, C!Exists, C!Content

LEMMA ExecuteKeeps ==
  ASSUME C!CliInv, cCall' = cCall, NEW p \in Procs, C!Execute(p)
  PROVE  C!CliInv'
<1> USE DEF C!CliInv
<1>m. C!Way(p)' = C!Way(p) /\ C!Mode(p)' = C!Mode(p)
  BY CallKept
<1>s. C!Exists("src") => C!Content("src") \in C!Docs
  BY ContentTypes DEF C!Paths
<1>1. C!CliTypes'
  BY <1>s DEF C!CliTypes, C!Execute, C!Goto, C!Return, C!files, C!observers, C!Steps, C!Early, C!Private, C!None,
              C!Readable
<1>2. /\ cPc[p] = "fork" /\ cOutcome[p] = C!None
      /\ SameFiles /\ cTemp' = cTemp /\ cUnasked' = cUnasked
      /\ Aside(p)
  BY DEF C!CliTypes, C!Execute, C!Goto, C!Return, C!files, C!observers, Aside, SameFiles, C!Route
<1>3. /\ cPc'[p] \in {"done", "export_check"}
      /\ cPc'[p] = "done" => cOutcome'[p] = "refused" \/ (cOutcome'[p] = "ok" /\ C!Mode(p) = "dry_run")
      /\ cPc'[p] # "done" => cOutcome'[p] = C!None /\ C!Mode(p) # "dry_run" /\ cBased'[p] = cSeen'[p]
  BY <1>2 DEF C!CliTypes, C!Execute, C!Goto, C!Return
<1>4. C!Route(p)'
  BY <1>m, <1>2, <1>3 DEF C!Route, C!None
<1>5. cOutcome'[p] = "ok" => C!Mode(p) = "dry_run"
  BY <1>3 DEF C!None
<1>6. \A d \in Procs : C!Mode(d) = "dry_run" => d \notin cBased'[p]
  <2>1. cBased'[p] = cBased[p] \/ (cBased'[p] = C!Content("src") /\ C!Exists("src"))
    BY DEF C!CliTypes, C!Execute, C!Readable
  <2> QED
    BY <2>1, SourceIsNobodysDryRun DEF C!DryRunsApart, C!Paths
<1> QED
  BY <1>1, <1>2, <1>3, <1>4, <1>5, <1>6, QuietStep DEF C!Early

-----------------------------------------------------------------------------
(* Faults of one process.                                                   *)

LEMMA KillKeeps ==
  ASSUME C!CliInv, cCall' = cCall, NEW p \in Procs, C!Kill(p)
  PROVE  C!CliInv'
<1> USE DEF C!CliInv
<1>1. C!CliTypes'
  BY DEF C!CliTypes, C!Kill, C!Return, C!files, C!observers, C!Steps, C!Early, C!Private, C!None
<1>2. /\ cPc[p] # "done" /\ cPc'[p] = "done" /\ cOutcome'[p] = "killed"
      /\ SameFiles /\ cTemp' = cTemp /\ cUnasked' = cUnasked /\ cBased' = cBased
      /\ Aside(p)
  BY DEF C!CliTypes, C!Kill, C!Return, C!files, C!observers, Aside, SameFiles
<1> QED
  BY <1>1, <1>2, StopStep

LEMMA IoErrorKeeps ==
  ASSUME C!CliInv, cCall' = cCall, NEW p \in Procs, C!IoError(p)
  PROVE  C!CliInv'
<1> USE DEF C!CliInv
<1>1. C!CliTypes'
  BY DEF C!CliTypes, C!IoError, C!Return, C!Drop, C!files, C!observers, C!Steps, C!Early, C!Private, C!None
<1>2. /\ cPc[p] # "done" /\ cPc'[p] = "done" /\ cOutcome'[p] = "failed"
      /\ SameFiles /\ cUnasked' = cUnasked /\ cBased' = cBased
      /\ Aside(p)
  BY DEF C!CliTypes, C!IoError, C!Return, C!files, C!observers, Aside, SameFiles
<1>3. \/ cTemp' = cTemp
      \/ cTemp' = [cTemp EXCEPT ![p] = 0] /\ cPc[p] \in C!Private
  <2>1. CASE cPc[p] = "fsync_dir"
    BY <2>1 DEF C!IoError
  <2>2. CASE cPc[p] = "stage"
    BY <2>2 DEF C!IoError, C!Drop, C!TempsApart, C!CliTypes, C!Early
  <2>3. CASE cPc[p] \notin {"stage", "fsync_dir"}
    BY <2>3 DEF C!IoError, C!Drop, C!Private
  <2> QED
    BY <2>1, <2>2, <2>3
<1>4. C!Mode(p) = "dry_run" => cTemp'[p] = 0
  BY DEF C!IoError, C!Drop, C!CliTypes, C!Route
<1> QED
  BY <1>1, <1>2, <1>3, <1>4, StopStep

-----------------------------------------------------------------------------
(* A temporary file is made.                                                *)

LEMMA AppendedFile ==
  ASSUME C!CliTypes, NEW r \in C!Files
  PROVE  /\ Append(cInode, r) \in Seq(C!Files) /\ Len(Append(cInode, r)) = Len(cInode) + 1
         /\ \A f \in 1..Len(cInode) : Append(cInode, r)[f] = cInode[f]
         /\ Append(cInode, r)[Len(cInode) + 1] = r
         /\ Len(cInode) \in Nat
BY DEF C!CliTypes

LEMMA NewTempStep ==
  ASSUME C!CliInv, cCall' = cCall, NEW p \in Procs, Aside(p), NEW r \in C!Files,
         cInode' = Append(cInode, r), cTemp' = [cTemp EXCEPT ![p] = Len(cInode) + 1],
         cDir' = cDir, cMight' = cMight, cLog' = cLog, cUnasked' = cUnasked, cOutcome' = cOutcome,
         C!CliTypes', C!Route(p)',
         cPc[p] \in C!Early, cPc'[p] \in {"apply", "export"},
         \A d \in Procs : C!Mode(d) = "dry_run" => d \notin cBased'[p] /\ d \notin r.doc,
         C!Mode(p) = "output" /\ ~cCall[p].force => ~cFound'[p],
         cPc'[p] = "export" => r.whole /\ r.doc = cSeen'[p] \cup {p}
  PROVE  C!CliInv'
<1> USE DEF C!CliInv
<1> DEFINE new == Len(cInode) + 1
<1>c. \A q \in Procs : C!Way(q)' = C!Way(q) /\ C!Mode(q)' = C!Mode(q) /\ C!Target(q)' = C!Target(q)
  BY CallKept
<1>a. /\ \A f \in 1..Len(cInode) : cInode'[f] = cInode[f]
      /\ cInode'[new] = r /\ new \notin 0..Len(cInode)
  BY AppendedFile
<1>t. /\ cTemp'[p] = new /\ \A q \in Procs : q # p => cTemp'[q] = cTemp[q]
      /\ \A q \in Procs : cTemp[q] \in 0..Len(cInode)
      /\ \A t \in C!Paths : cMight[t] \subseteq 0..Len(cInode)
  BY DEF C!CliTypes
<1> HIDE DEF new
<1>0. cTemp[p] = 0 /\ cPc[p] # "done" /\ cOutcome[p] = C!None
  BY DEF C!TempsApart, C!Early, C!Route
<1>n. new # 0 /\ \A q \in Procs : cTemp[q] # 0 => cTemp[q] \in 1..Len(cInode)
  BY <1>a, <1>t DEF C!CliTypes
<1>m. \A t \in C!Paths : \A f \in cMight[t] : f # 0 => f \in 1..Len(cInode) /\ f # new
  BY <1>a, <1>t
<1>o. ASSUME NEW f, f # 0 PROVE \A q \in Procs : cTemp[q] = f => cTemp'[q] = f
  BY <1>0, <1>t, <1>o
<1>2. (\A q \in Procs : C!Route(q))'
  BY RoutesAside
<1>3. C!TempsApart'
  <2> SUFFICES ASSUME NEW q \in Procs
               PROVE  /\ cPc'[q] \in C!Early => cTemp'[q] = 0
                      /\ cPc'[q] = "rewritten" => cTemp'[q] # 0
                      /\ cPc'[q] \in C!Private =>
                            /\ cTemp'[q] # 0 /\ \A t \in C!Paths : cTemp'[q] \notin cMight[t]
                            /\ \A o \in Procs \ {q} : cTemp'[o] # cTemp'[q]
    BY DEF C!TempsApart
  <2>1. CASE q = p
    BY <2>1, <1>t, <1>n, <1>a DEF C!Early
  <2>2. CASE q # p
    <3>1. cPc'[q] = cPc[q] /\ cTemp'[q] = cTemp[q] /\ cTemp'[q] # new
      BY <2>2, <1>t, <1>a DEF Aside
    <3> QED
      BY <2>2, <3>1, <1>t DEF C!TempsApart
  <2> QED
    BY <2>1, <2>2
<1>4. C!EntriesSturdy'
  <2>1. ASSUME NEW t \in C!Paths, NEW f \in cMight[t], f # 0 PROVE C!Sturdy(f)'
    <3>1. \A q \in Procs : cTemp[q] = f => cTemp'[q] = f
      BY <1>o, <2>1
    <3>2. C!Sturdy(f) /\ cInode'[f] = cInode[f]
      BY <2>1, <1>m, <1>a DEF C!EntriesSturdy
    <3> QED
      BY <3>1, <3>2, MarksStay
  <2>2. ASSUME NEW q \in Procs
        PROVE  /\ cPc'[q] \in C!Private \ {"apply"} => cInode'[cTemp'[q]].whole
               /\ cPc'[q] = "replace" => cInode'[cTemp'[q]].synced
    <3>1. CASE q = p
      BY <3>1, <1>t, <1>a
    <3>2. CASE q # p
      <4>1. cPc'[q] = cPc[q] /\ cTemp'[q] = cTemp[q]
        BY <3>2, <1>t DEF Aside
      <4>2. cPc[q] \in C!Private => cInode'[cTemp[q]] = cInode[cTemp[q]]
        BY <1>n, <1>a DEF C!TempsApart
      <4> QED
        BY <4>1, <4>2 DEF C!EntriesSturdy, C!Private
    <3> QED
      BY <3>1, <3>2
  <2> QED
    BY <2>1, <2>2 DEF C!EntriesSturdy
<1>5. C!LogsReach'
  <2> SUFFICES ASSUME NEW q \in Procs
               PROVE  /\ cPc'[q] = "fsync_dir" => C!CameBefore(q, cDir[C!Target(q)])'
                      /\ C!Reported(q, "staged")' => \A f \in cMight[C!Target(q)] : C!CameBefore(q, f)'
    BY <1>c DEF C!LogsReach
  <2>1. q # p => cPc'[q] = cPc[q] /\ (C!Reported(q, "staged")' <=> C!Reported(q, "staged"))
    BY <1>c DEF C!Reported, Aside
  <2>2. q = p => cPc'[q] # "fsync_dir" /\ ~C!Reported(q, "staged")'
    BY <1>c, <1>0 DEF C!Reported, C!None
  <2>3. q # p => \A f : C!CameBefore(q, f)' <=> C!CameBefore(q, f)
    BY <1>c, <1>t DEF C!CameBefore
  <2> QED
    BY <2>1, <2>2, <2>3, <1>c DEF C!LogsReach
<1>6. C!LooksStand'
  <2>1. ASSUME NEW q \in Procs, cPc'[q] \in {"stage", "apply", "remove", "persist", "export"},
               C!Mode(q) = "output", ~cCall[q].force
        PROVE  ~cFound'[q]
    <3>1. CASE q = p
      BY <2>1, <3>1, Zenon
    <3>2. CASE q # p
      BY <2>1, <3>2 DEF C!LooksStand, Aside
    <3> QED
      BY <3>1, <3>2
  <2>2. ASSUME NEW q \in cUnasked PROVE q \in Procs /\ q # p /\ cPc'[q] = "done" /\ ~cFound'[q]
    BY <1>0 DEF C!LooksStand, C!CliTypes, Aside
  <2> QED
    BY <1>c, <2>1, <2>2 DEF C!LooksStand
<1>7. C!DryRunsApart'
  <2> SUFFICES ASSUME NEW d \in Procs, C!Mode(d) = "dry_run"
               PROVE  /\ \A t \in C!Paths : \A f \in cMight[t] : f # 0 => d \notin cInode'[f].doc
                      /\ \A q \in Procs \ {d} : cTemp'[q] # 0 => d \notin cInode'[cTemp'[q]].doc
                      /\ \A q \in Procs : d \notin cBased'[q]
                      /\ cPc'[d] = "done" /\ cOutcome'[d] # "killed" => cTemp'[d] = 0
    BY <1>c DEF C!DryRunsApart
  <2>1. \A t \in C!Paths : \A f \in cMight[t] : f # 0 => d \notin cInode'[f].doc
    BY <1>m, <1>a DEF C!DryRunsApart
  <2>2. \A q \in Procs \ {d} : cTemp'[q] # 0 => d \notin cInode'[cTemp'[q]].doc
    BY <1>t, <1>n, <1>a DEF C!DryRunsApart
  <2>3. \A q \in Procs : d \notin cBased'[q]
    BY DEF C!DryRunsApart, Aside
  <2>4. cPc'[d] = "done" /\ cOutcome'[d] # "killed" => cTemp'[d] = 0
    BY <1>t DEF C!DryRunsApart, Aside
  <2> QED
    BY <2>1, <2>2, <2>3, <2>4
<1>8. (\A q \in Procs : C!Delivered(q))'
  <2> SUFFICES ASSUME NEW q \in Procs PROVE C!Delivered(q)'
    OBVIOUS
  <2>1. ASSUME NEW f, f # 0, C!Overwritten(f) PROVE C!Overwritten(f)'
    BY <2>1, <1>o, MarksStay
  <2>2. CASE q # p
    <3>1. cPc'[q] = cPc[q] /\ cSeen'[q] = cSeen[q] /\ cBased'[q] = cBased[q] /\ cTemp'[q] = cTemp[q]
      BY <2>2, <1>t DEF Aside
    <3>2. \A w : C!Reported(q, w)' <=> C!Reported(q, w)
      BY <2>2, <1>c DEF C!Reported, Aside
    <3>3. cTemp[q] # 0 => cInode'[cTemp[q]] = cInode[cTemp[q]]
      BY <1>n, <1>a
    <3> QED
      BY ZenonT(60), <2>1, <3>1, <3>2, <3>3 DEF C!Delivered
  <2>3. CASE q = p
    <3>1. \A w : ~C!Reported(q, w)'
      BY <2>3, <1>0 DEF C!Reported, C!None
    <3> QED
      BY <2>3, <3>1, <1>t, <1>a, <1>n DEF C!Delivered
  <2> QED
    BY <2>2, <2>3
<1> QED
  BY <1>2, <1>3, <1>4, <1>5, <1>6, <1>7, <1>8

LEMMA StageKeeps ==
  ASSUME C!CliInv, cCall' = cCall, NEW p \in Procs, C!Stage(p)
  PROVE  C!CliInv'
<1> USE DEF C!CliInv
<1> DEFINE r == [cInode[cDir["src"]] EXCEPT !.synced = FALSE]
<1>m. C!Way(p)' = C!Way(p) /\ C!Mode(p)' = C!Mode(p)
  BY CallKept
<1>s. C!Exists("src") /\ cInode[cDir["src"]] \in C!Files /\ C!Content("src") \in C!Docs
  BY ContentTypes DEF C!Paths, C!Stage
<1>r. r \in C!Files /\ r.doc = C!Content("src")
  BY <1>s DEF C!Files, C!Content
<1> HIDE DEF r
<1>a. Append(cInode, r) \in Seq(C!Files) /\ Len(Append(cInode, r)) = Len(cInode) + 1 /\ Len(cInode) \in Nat
  BY <1>r, AppendedFile
<1>e. /\ cInode' = Append(cInode, r) /\ cTemp' = [cTemp EXCEPT ![p] = Len(cInode) + 1]
      /\ cDir' = cDir /\ cMight' = cMight /\ cLog' = cLog /\ cUnasked' = cUnasked /\ cOutcome' = cOutcome
      /\ cPc' = [cPc EXCEPT ![p] = "apply"] /\ cBased' = [cBased EXCEPT ![p] = C!Content("src")]
      /\ cSeen' = cSeen /\ cFound' = cFound /\ cPc[p] = "stage"
  BY DEF C!Stage, C!Goto, C!observers, r
<1>1. C!CliTypes'
  <2>1. Len(cInode') = Len(cInode) + 1 /\ cInode' \in Seq(C!Files) /\ 0..Len(cInode) \subseteq 0..Len(cInode')
    BY <1>a, <1>e
  <2> QED
    BY <1>e, <1>s, <1>a, <2>1 DEF C!CliTypes, C!Steps, C!Private
<1>2. Aside(p) /\ cPc'[p] = "apply" /\ cPc[p] \in C!Early
  BY <1>e DEF C!CliTypes, Aside, C!Early
<1>3. C!Route(p)'
  BY <1>m, <1>2, <1>e DEF C!Route
<1>4. \A d \in Procs : C!Mode(d) = "dry_run" => d \notin cBased'[p] /\ d \notin r.doc
  BY <1>e, <1>r, <1>s, SourceIsNobodysDryRun DEF C!CliTypes, C!Paths
<1>5. C!Mode(p) = "output" /\ ~cCall[p].force => ~cFound'[p]
  BY <1>e DEF C!LooksStand
<1> QED
  BY <1>r, <1>e, <1>1, <1>2, <1>3, <1>4, <1>5, NewTempStep

LEMMA ExportCheckKeeps ==
  ASSUME C!CliInv, cCall' = cCall, NEW p \in Procs, C!ExportCheck(p)
  PROVE  C!CliInv'
<1> USE DEF C!CliInv
<1>m. C!Way(p)' = C!Way(p) /\ C!Mode(p)' = C!Mode(p)
  BY CallKept
<1>o. cPc[p] = "export_check" /\ cOutcome[p] = C!None /\ C!Mode(p) # "dry_run" /\ cBased[p] = cSeen[p]
  BY DEF C!ExportCheck, C!Route, C!Delivered
<1>f. cFound' = [cFound EXCEPT ![p] = C!Exists(C!Target(p))]
  BY DEF C!ExportCheck
<1>b. cBased' = cBased /\ cSeen' = cSeen /\ cDir' = cDir /\ cMight' = cMight /\ cLog' = cLog /\ cUnasked' = cUnasked
  BY DEF C!ExportCheck, C!observers
<1>d. \A d \in Procs : C!Mode(d) = "dry_run" => d \notin cBased'[p]
  BY <1>b DEF C!DryRunsApart
<1>1. CASE /\ cPc' = [cPc EXCEPT ![p] = "done"] /\ cOutcome' = [cOutcome EXCEPT ![p] = "refused"]
           /\ cInode' = cInode /\ cTemp' = cTemp
  <2>1. C!CliTypes'
    BY <1>1, <1>b, <1>f DEF C!CliTypes, C!Steps, C!Exists
  <2>2. Aside(p) /\ cPc'[p] = "done" /\ cOutcome'[p] = "refused" /\ SameFiles /\ cPc[p] \in C!Early
    BY <1>1, <1>b, <1>f, <1>o DEF C!CliTypes, Aside, SameFiles, C!Early
  <2>3. C!Route(p)'
    BY <1>m, <2>2 DEF C!Route
  <2> QED
    BY <1>1, <1>b, <1>d, <2>1, <2>2, <2>3, QuietStep
<1>2. CASE /\ cInode' = C!NewFile(cBased[p] \cup {p}) /\ cTemp' = [cTemp EXCEPT ![p] = Len(cInode) + 1]
           /\ cPc' = [cPc EXCEPT ![p] = "export"] /\ cOutcome' = cOutcome
           /\ C!Mode(p) = "output" => ~C!Unasked(p)
  <2> DEFINE r == [doc |-> cBased[p] \cup {p}, whole |-> TRUE, synced |-> FALSE]
  <2>r. r \in C!Files /\ r.doc = cBased[p] \cup {p} /\ r.whole
    BY DEF C!Files, C!Docs, C!CliTypes
  <2>n. cInode' = Append(cInode, r)
    BY <1>2 DEF C!NewFile
  <2> HIDE DEF r
  <2>a. Append(cInode, r) \in Seq(C!Files) /\ Len(Append(cInode, r)) = Len(cInode) + 1 /\ Len(cInode) \in Nat
    BY <2>r, AppendedFile
  <2>1. C!CliTypes'
    <3>1. Len(cInode') = Len(cInode) + 1 /\ cInode' \in Seq(C!Files) /\ 0..Len(cInode) \subseteq 0..Len(cInode')
      BY <2>a, <2>n
    <3> QED
      <4>1. cFound' \in [Procs -> BOOLEAN] /\ cPc' \in [Procs -> C!Steps]
        BY <1>2, <1>f DEF C!CliTypes, C!Exists, C!Steps, C!Private
      <4>2. cTemp' \in [Procs -> 0..Len(cInode')]
        <5>1. cTemp \in [Procs -> 0..Len(cInode')] /\ Len(cInode) + 1 \in 0..Len(cInode')
          BY <2>a, <3>1 DEF C!CliTypes
        <5> QED
          BY <1>2, <5>1
      <4>3. cDir \in [C!Paths -> 0..Len(cInode')] /\ cMight \in [C!Paths -> SUBSET (0..Len(cInode'))]
        BY <3>1 DEF C!CliTypes
      <4> QED
        BY <1>2, <1>b, <3>1, <4>1, <4>2, <4>3 DEF C!CliTypes
  <2>2. Aside(p) /\ cPc'[p] = "export" /\ cPc[p] \in C!Early
    BY <1>2, <1>b, <1>f, <1>o DEF C!CliTypes, Aside, C!Early
  <2>3. C!Route(p)'
    BY <1>m, <1>2, <1>o, <2>2 DEF C!Route
  <2>4. \A d \in Procs : C!Mode(d) = "dry_run" => d \notin cBased'[p] /\ d \notin r.doc
    BY <1>b, <1>d, <1>o, <2>r
  <2>5. C!Mode(p) = "output" /\ ~cCall[p].force => ~cFound'[p]
    <3> SUFFICES ASSUME C!Mode(p) = "output", ~cCall[p].force PROVE cFound'[p] = FALSE
      BY Zenon
    <3>1. ~C!Exists(C!Target(p))
      BY <1>2 DEF C!Unasked
    <3> QED
      BY <3>1, <1>f DEF C!CliTypes
  <2>6. r.whole /\ r.doc = cSeen'[p] \cup {p}
    BY <2>r, <1>o, <1>b
  <2> QED
    BY <1>2, <1>b, <2>r, <2>n, <2>1, <2>2, <2>3, <2>4, <2>5, <2>6, NewTempStep
<1> QED
  BY <1>1, <1>2 DEF C!ExportCheck, C!Goto, C!Return

-----------------------------------------------------------------------------
(* A temporary file is written or synced; a dry run then drops it.          *)

LEMMA TempWrittenStep ==
  ASSUME C!CliInv, cCall' = cCall, NEW p \in Procs, Aside(p), NEW r \in C!Files,
         cPc[p] \in {"apply", "fsync"}, cInode' = [cInode EXCEPT ![cTemp[p]] = r],
         cDir' = cDir, cMight' = cMight, cLog' = cLog, cUnasked' = cUnasked, cBased' = cBased, cFound' = cFound,
         C!CliTypes', C!Route(p)',
         \/ cTemp' = cTemp /\ cPc'[p] \in {"fsync", "replace", "remove"} /\ cOutcome' = cOutcome
         \/ cTemp' = [cTemp EXCEPT ![p] = 0] /\ cPc'[p] = "done" /\ cOutcome'[p] = "ok" /\ C!Mode(p) = "dry_run",
         r.whole, cPc'[p] = "replace" => r.synced,
         \A d \in Procs \ {p} : C!Mode(d) = "dry_run" => d \notin r.doc,
         cPc'[p] \in {"fsync", "replace"} =>
            \/ C!Changed(cCall[p]) \/ (\E o \in C!Kept(cCall[p]) : o.kind \in C!Uncounted)
            \/ r.doc = cBased[p] \/ C!Overwritten(cTemp[p])
  PROVE  C!CliInv'
<1> USE DEF C!CliInv
<1>c. \A q \in Procs : C!Way(q)' = C!Way(q) /\ C!Mode(q)' = C!Mode(q) /\ C!Target(q)' = C!Target(q)
  BY CallKept
<1>0. /\ cPc[p] # "done" /\ cOutcome[p] = C!None /\ cTemp[p] # 0
      /\ \A t \in C!Paths : cTemp[p] \notin cMight[t]
      /\ \A q \in Procs : q # p => cTemp[q] # cTemp[p]
  BY DEF C!TempsApart, C!Private, C!Route
<1>a. /\ \A f : f # cTemp[p] => cInode'[f] = cInode[f]
      /\ cInode'[cTemp[p]] = r
  BY <1>0 DEF C!CliTypes
<1>t. \A q \in Procs : (q # p => cTemp'[q] = cTemp[q]) /\ (cTemp'[q] = cTemp[q] \/ cTemp'[q] = 0)
  BY DEF C!CliTypes
<1>w. ASSUME NEW q \in Procs, C!Way(q) = "direct" \/ (C!Way(q) = "recalc" /\ C!Mode(q) = "in_place")
      PROVE  q # p
  <2>1. C!Route(p)
    OBVIOUS
  <2> QED
    BY <1>w, <2>1 DEF C!Route
<1>o. ASSUME NEW t \in C!Paths, NEW f \in cMight[t] PROVE \A q \in Procs : cTemp[q] = f => cTemp'[q] = f
  BY <1>0, <1>t
<1>2. (\A q \in Procs : C!Route(q))'
  BY RoutesAside
<1>3. C!TempsApart'
  <2> SUFFICES ASSUME NEW q \in Procs
               PROVE  /\ cPc'[q] \in C!Early => cTemp'[q] = 0
                      /\ cPc'[q] = "rewritten" => cTemp'[q] # 0
                      /\ cPc'[q] \in C!Private =>
                            /\ cTemp'[q] # 0 /\ \A t \in C!Paths : cTemp'[q] \notin cMight[t]
                            /\ \A o \in Procs \ {q} : cTemp'[o] # cTemp'[q]
    BY DEF C!TempsApart
  <2>1. CASE q = p
    BY <2>1, <1>t, <1>0 DEF C!Early, C!Private
  <2>2. CASE q # p
    <3>1. cPc'[q] = cPc[q] /\ cTemp'[q] = cTemp[q]
      BY <2>2, <1>t DEF Aside
    <3> QED
      BY <2>2, <3>1, <1>t DEF C!TempsApart
  <2> QED
    BY <2>1, <2>2
<1>4. C!EntriesSturdy'
  <2>1. ASSUME NEW t \in C!Paths, NEW f \in cMight[t], f # 0 PROVE C!Sturdy(f)'
    <3>1. \A q \in Procs : cTemp[q] = f => cTemp'[q] = f
      BY <1>o, <2>1
    <3>2. C!Sturdy(f) /\ cInode'[f] = cInode[f]
      BY <2>1, <1>0, <1>a DEF C!EntriesSturdy
    <3> QED
      BY <3>1, <3>2, MarksStay
  <2>2. ASSUME NEW q \in Procs
        PROVE  /\ cPc'[q] \in C!Private \ {"apply"} => cInode'[cTemp'[q]].whole
               /\ cPc'[q] = "replace" => cInode'[cTemp'[q]].synced
    <3>1. CASE q = p
      BY <3>1, <1>t, <1>a DEF C!Private
    <3>2. CASE q # p
      <4>1. cPc'[q] = cPc[q] /\ cTemp'[q] = cTemp[q] /\ cInode'[cTemp[q]] = cInode[cTemp[q]]
        BY <3>2, <1>t, <1>0, <1>a DEF Aside
      <4> QED
        BY <4>1 DEF C!EntriesSturdy, C!Private
    <3> QED
      BY <3>1, <3>2
  <2> QED
    BY <2>1, <2>2 DEF C!EntriesSturdy
<1>5. C!LogsReach'
  <2> SUFFICES ASSUME NEW q \in Procs
               PROVE  /\ cPc'[q] = "fsync_dir" => C!CameBefore(q, cDir[C!Target(q)])'
                      /\ C!Reported(q, "staged")' => \A f \in cMight[C!Target(q)] : C!CameBefore(q, f)'
    BY <1>c DEF C!LogsReach
  <2>1. q # p => cPc'[q] = cPc[q] /\ (C!Reported(q, "staged")' <=> C!Reported(q, "staged"))
    BY <1>c DEF C!Reported, Aside
  <2>2. q = p => cPc'[q] # "fsync_dir" /\ ~C!Reported(q, "staged")'
    BY <1>c, <1>0 DEF C!Reported, C!None
  <2>3. q # p => \A f : C!CameBefore(q, f)' <=> C!CameBefore(q, f)
    BY <1>c, <1>t DEF C!CameBefore
  <2> QED
    BY <2>1, <2>2, <2>3, <1>c DEF C!LogsReach
<1>6. C!LooksStand'
  <2>1. ASSUME NEW q \in Procs, cPc'[q] \in {"stage", "apply", "remove", "persist", "export"},
               C!Mode(q) = "output", ~cCall[q].force
        PROVE  ~cFound[q]
    <3>1. CASE q = p
      <4>1. cPc[q] = "apply" \/ cPc[q] = "fsync"
        BY <3>1
      <4>2. cPc[q] = "fsync" => C!Way(q) = "staged" /\ C!Way(q)' = "staged"
        BY <1>c DEF C!Route
      <4>3. cPc[q] # "fsync"
        BY <2>1, <3>1, <4>2, <1>2 DEF C!Route
      <4> QED
        BY <2>1, <4>1, <4>3 DEF C!LooksStand
    <3>2. CASE q # p
      BY <2>1, <3>2 DEF C!LooksStand, Aside
    <3> QED
      BY <3>1, <3>2
  <2>2. ASSUME NEW q \in cUnasked PROVE q \in Procs /\ q # p /\ cPc'[q] = "done" /\ ~cFound'[q]
    BY <1>0 DEF C!LooksStand, C!CliTypes, Aside
  <2> QED
    BY <1>c, <2>1, <2>2 DEF C!LooksStand
<1>7. C!DryRunsApart'
  <2> SUFFICES ASSUME NEW d \in Procs, C!Mode(d) = "dry_run"
               PROVE  /\ \A t \in C!Paths : \A f \in cMight[t] : f # 0 => d \notin cInode'[f].doc
                      /\ \A q \in Procs \ {d} : cTemp'[q] # 0 => d \notin cInode'[cTemp'[q]].doc
                      /\ \A q \in Procs : d \notin cBased'[q]
                      /\ cPc'[d] = "done" /\ cOutcome'[d] # "killed" => cTemp'[d] = 0
    BY <1>c DEF C!DryRunsApart
  <2>1. \A t \in C!Paths : \A f \in cMight[t] : f # 0 => d \notin cInode'[f].doc
    BY <1>0, <1>a DEF C!DryRunsApart
  <2>2. ASSUME NEW q \in Procs, q # d, cTemp'[q] # 0 PROVE d \notin cInode'[cTemp'[q]].doc
    <3>1. cTemp'[q] = cTemp[q]
      BY <1>t, <2>2
    <3>2. CASE q = p
      BY <2>2, <3>1, <3>2, <1>a
    <3>3. CASE q # p
      BY <2>2, <3>1, <3>3, <1>a, <1>0 DEF C!DryRunsApart
    <3> QED
      BY <3>2, <3>3
  <2>3. cPc'[d] = "done" /\ cOutcome'[d] # "killed" => cTemp'[d] = 0
    <3>1. CASE d = p
      BY <3>1 DEF C!CliTypes
    <3>2. CASE d # p
      BY <3>2, <1>t DEF C!DryRunsApart, Aside
    <3> QED
      BY <3>1, <3>2
  <2> QED
    BY <2>1, <2>2, <2>3 DEF C!DryRunsApart
<1>8. (\A q \in Procs : C!Delivered(q))'
  <2> SUFFICES ASSUME NEW q \in Procs PROVE C!Delivered(q)'
    OBVIOUS
  <2>1. ASSUME NEW f, C!Overwritten(f) PROVE C!Overwritten(f)'
    BY <2>1, <1>c, <1>w, <1>t DEF C!Overwritten
  <2>2. CASE q # p
    <3>1. cPc'[q] = cPc[q] /\ cSeen'[q] = cSeen[q] /\ cBased'[q] = cBased[q] /\ cTemp'[q] = cTemp[q]
      BY <2>2, <1>t DEF Aside
    <3>2. \A w : C!Reported(q, w)' <=> C!Reported(q, w)
      BY <2>2, <1>c DEF C!Reported, Aside
    <3>3. cInode'[cTemp[q]] = cInode[cTemp[q]]
      BY <2>2, <1>0, <1>a
    <3> QED
      BY <2>1, <3>1, <3>2, <3>3 DEF C!Delivered
  <2>3. CASE q = p
    <3>1. \A w : ~C!Reported(q, w)'
      BY <2>3, <1>0, <1>c DEF C!Reported, C!None
    <3>2. cPc'[q] \notin {"export", "export_check", "fsync_dir"}
      BY <2>3
    <3>3. cPc'[q] \in {"fsync", "replace"} => cTemp'[q] = cTemp[q]
      BY <2>3
    <3> QED
      BY <2>1, <2>3, <3>1, <3>2, <3>3, <1>a, <1>0 DEF C!Delivered
  <2> QED
    BY <2>2, <2>3
<1> QED
  BY <1>2, <1>3, <1>4, <1>5, <1>6, <1>7, <1>8

\* A kind of operation that is kept is counted or is known not to be.
LEMMA KeptIsCounted ==
  ASSUME cCall \in Calls, NEW p \in Procs, C!Way(p) = "staged", C!Kept(cCall[p]) # {}
  PROVE  C!Changed(cCall[p]) \/ (\E o \in C!Kept(cCall[p]) : o.kind \in C!Uncounted)
<1> DEFINE c == cCall[p]
<1>1. C!WellFormed(c) /\ C!Command(c).way = "staged"
  BY FilesAssumption DEF C!Way
<1> HIDE DEF c
<1>2. PICK o \in C!Kept(c) : TRUE
  BY DEF c
<1>3. o.kind \in C!Command(c).keys \cup C!Uncounted
  BY <1>1, <1>2 DEF C!Kept, C!WellFormed
<1> QED
  BY <1>2, <1>3 DEF C!Changed, c

LEMMA ApplyKeeps ==
  ASSUME C!CliInv, cCall' = cCall, NEW p \in Procs, C!Apply(p)
  PROVE  C!CliInv'
<1> USE DEF C!CliInv
<1>m. C!Way(p)' = C!Way(p) /\ C!Mode(p)' = C!Mode(p)
  BY CallKept
<1>o. /\ cPc[p] = "apply" /\ cOutcome[p] = C!None /\ cTemp[p] \in 1..Len(cInode) /\ cTemp[p] # 0
      /\ cBased[p] \in C!Docs
  BY DEF C!Apply, C!Route, C!TempsApart, C!Private, C!CliTypes
<1>b. /\ cBased' = cBased /\ cSeen' = cSeen /\ cFound' = cFound /\ cDir' = cDir /\ cMight' = cMight
      /\ cLog' = cLog /\ cUnasked' = cUnasked
  BY DEF C!Apply, C!observers
<1>1. CASE /\ cPc' = [cPc EXCEPT ![p] = "done"] /\ cOutcome' = [cOutcome EXCEPT ![p] = "failed"]
           /\ cInode' = cInode /\ cTemp' = [cTemp EXCEPT ![p] = 0]
  <2>1. C!CliTypes'
    BY <1>1, <1>b DEF C!CliTypes, C!Steps
  <2>2. /\ Aside(p) /\ cPc'[p] = "done" /\ cOutcome'[p] = "failed" /\ SameFiles
        /\ cPc[p] \in C!Private /\ cPc[p] # "done" /\ cTemp'[p] = 0
    BY <1>1, <1>b, <1>o DEF C!CliTypes, Aside, SameFiles, C!Private
  <2> QED
    BY <1>1, <1>b, <2>1, <2>2, StopStep
<1>2. CASE /\ cInode' = C!Write(cTemp[p], cBased[p] \cup (IF C!Kept(cCall[p]) = {} THEN {} ELSE {p}))
           /\ cPc' = [cPc EXCEPT ![p] = IF C!Way(p) = "recalc" THEN "remove" ELSE "fsync"]
           /\ cTemp' = cTemp /\ cOutcome' = cOutcome
  <2> DEFINE e == IF C!Kept(cCall[p]) = {} THEN {} ELSE {p}
             r == [doc |-> cBased[p] \cup e, whole |-> TRUE, synced |-> FALSE]
  <2>e. e \subseteq {p} /\ (e = {} \/ C!Kept(cCall[p]) # {})
    OBVIOUS
  <2>w. cInode' = [cInode EXCEPT ![cTemp[p]] = r]
    BY <1>2 DEF C!Write
  <2>k. (cPc' = [cPc EXCEPT ![p] = "remove"] /\ C!Way(p) = "recalc")
        \/ (cPc' = [cPc EXCEPT ![p] = "fsync"] /\ C!Way(p) # "recalc")
    BY <1>2
  <2> HIDE DEF e
  <2>r. r \in C!Files /\ r.doc = cBased[p] \cup e /\ r.whole
    BY <1>o, <2>e DEF C!Files, C!Docs
  <2> HIDE DEF r
  <2>1. C!CliTypes'
    <3>1. cInode' \in Seq(C!Files) /\ Len(cInode') = Len(cInode)
      BY <1>o, <2>w, <2>r DEF C!CliTypes
    <3> QED
      BY <1>2, <1>b, <3>1, <2>k DEF C!CliTypes, C!Steps, C!Private
  <2>2. /\ Aside(p) /\ cPc'[p] \in {"remove", "fsync"} /\ (cPc'[p] = "remove" <=> C!Way(p) = "recalc")
        /\ cOutcome'[p] = C!None
    BY <1>2, <1>b, <1>o, <2>k DEF C!CliTypes, Aside
  <2>3. C!Route(p)'
    <3>1. C!Route(p)
      OBVIOUS
    <3> QED
      BY <1>m, <1>o, <2>2, <3>1 DEF C!Route
  <2>4. \A d \in Procs \ {p} : C!Mode(d) = "dry_run" => d \notin r.doc
    BY <2>r, <2>e DEF C!DryRunsApart
  <2>5. cPc'[p] \in {"fsync", "replace"} =>
            \/ C!Changed(cCall[p]) \/ (\E o \in C!Kept(cCall[p]) : o.kind \in C!Uncounted)
            \/ r.doc = cBased[p]
    <3> SUFFICES ASSUME cPc'[p] \in {"fsync", "replace"}, e # {}
                 PROVE  C!Changed(cCall[p]) \/ (\E o \in C!Kept(cCall[p]) : o.kind \in C!Uncounted)
      BY <2>r
    <3>1. C!Way(p) = "staged"
      BY <2>2, <1>o DEF C!Route
    <3> QED
      BY <2>e, <3>1, KeptIsCounted DEF C!CliTypes
  <2> QED
    BY <1>2, <1>b, <1>o, <2>w, <2>r, <2>1, <2>2, <2>3, <2>4, <2>5, TempWrittenStep
<1> QED
  BY <1>1, <1>2 DEF C!Apply, C!Goto, C!Return, C!Drop

LEMMA SyncKeeps ==
  ASSUME C!CliInv, cCall' = cCall, NEW p \in Procs, C!Sync(p)
  PROVE  C!CliInv'
<1> USE DEF C!CliInv
<1>m. C!Way(p)' = C!Way(p) /\ C!Mode(p)' = C!Mode(p)
  BY CallKept
<1>o. /\ cPc[p] = "fsync" /\ cOutcome[p] = C!None /\ cTemp[p] \in 1..Len(cInode) /\ cTemp[p] # 0
  BY DEF C!Sync, C!Route, C!TempsApart, C!Private, C!CliTypes
<1>b. /\ cBased' = cBased /\ cSeen' = cSeen /\ cFound' = cFound /\ cDir' = cDir /\ cMight' = cMight
      /\ cLog' = cLog /\ cUnasked' = cUnasked
  BY DEF C!Sync, C!observers
<1> DEFINE r == [cInode[cTemp[p]] EXCEPT !.synced = TRUE]
<1>w. cInode' = [cInode EXCEPT ![cTemp[p]] = r]
  BY <1>o DEF C!Sync
<1>f. cInode[cTemp[p]] \in C!Files /\ cInode[cTemp[p]].whole
  BY <1>o DEF C!CliTypes, C!EntriesSturdy, C!Private
<1>r. r \in C!Files /\ r.doc = cInode[cTemp[p]].doc /\ r.whole /\ r.synced
  BY <1>f DEF C!Files
<1> HIDE DEF r
<1>s. \/ cTemp' = cTemp /\ cPc' = [cPc EXCEPT ![p] = "replace"] /\ cOutcome' = cOutcome /\ C!Mode(p) # "dry_run"
      \/ /\ cTemp' = [cTemp EXCEPT ![p] = 0] /\ cPc' = [cPc EXCEPT ![p] = "done"]
         /\ cOutcome' = [cOutcome EXCEPT ![p] = "ok"] /\ C!Mode(p) = "dry_run"
  BY DEF C!Sync, C!Goto, C!Return, C!Drop
<1>1. C!CliTypes'
  <2>1. cInode' \in Seq(C!Files) /\ Len(cInode') = Len(cInode)
    BY <1>o, <1>w, <1>r DEF C!CliTypes
  <2> QED
    <3>1. cPc' \in [Procs -> C!Steps]
      BY <1>s DEF C!CliTypes, C!Steps, C!Private
    <3>2. cTemp' \in [Procs -> 0..Len(cInode)]
      <4>1. 0 \in 0..Len(cInode) /\ cTemp \in [Procs -> 0..Len(cInode)]
        BY DEF C!CliTypes
      <4> QED
        BY <1>s, <4>1
    <3>3. cOutcome' \in [Procs -> {C!None, "ok", "refused", "failed", "killed"}]
      BY <1>s DEF C!CliTypes
    <3> QED
      BY <1>b, <2>1, <3>1, <3>2, <3>3 DEF C!CliTypes
<1>2. /\ Aside(p)
      /\ \/ cTemp' = cTemp /\ cPc'[p] = "replace" /\ cOutcome' = cOutcome /\ C!Mode(p) # "dry_run"
         \/ /\ cTemp' = [cTemp EXCEPT ![p] = 0] /\ cPc'[p] = "done"
            /\ cOutcome'[p] = "ok" /\ C!Mode(p) = "dry_run"
  BY <1>s, <1>b DEF C!CliTypes, Aside
<1>3. C!Route(p)'
  <2>1. C!Way(p) = "staged" /\ C!Mode(p) # "invalid"
    BY <1>o DEF C!Route
  <2>2. CASE cPc'[p] = "replace" /\ cOutcome' = cOutcome /\ C!Mode(p) # "dry_run"
    <3>1. cOutcome'[p] = C!None
      BY <1>o, <2>2
    <3> HIDE DEF C!CliInv
    <3> QED
      BY <1>m, <2>1, <2>2, <3>1 DEF C!Route
  <2>3. CASE cPc'[p] = "done"
    BY <1>m, <2>1, <2>3 DEF C!Route
  <2> QED
    BY <1>2, <2>2, <2>3
<1>4. \A d \in Procs \ {p} : C!Mode(d) = "dry_run" => d \notin r.doc
  BY <1>r, <1>o DEF C!DryRunsApart
<1>5. \/ C!Changed(cCall[p]) \/ (\E o \in C!Kept(cCall[p]) : o.kind \in C!Uncounted)
      \/ r.doc = cBased[p] \/ C!Overwritten(cTemp[p])
  BY <1>r, <1>o DEF C!Delivered
<1> QED
  BY <1>o, <1>b, <1>w, <1>r, <1>1, <1>2, <1>3, <1>4, <1>5, TempWrittenStep

-----------------------------------------------------------------------------
(* The entry of a path changes.                                             *)

\* What came before comes before, and before a new entry.
LEMMA CameBeforeStays ==
  ASSUME C!CliTypes, cCall' = cCall, NEW t \in C!Paths, NEW f \in Nat,
         cLog' = [cLog EXCEPT ![t] = Append(@, f)],
         NEW q \in Procs, cTemp'[q] = cTemp[q], C!Target(q) \in C!Paths, NEW g, C!CameBefore(q, g)
  PROVE  C!CameBefore(q, g)' /\ (C!Target(q) = t => C!CameBefore(q, f)')
<1> DEFINE s == C!Target(q)
<1>c. C!Target(q)' = s
  BY CallKept
<1> HIDE DEF s
<1>1. PICK i, j \in DOMAIN cLog[s] : cLog[s][i] = cTemp[q] /\ i <= j /\ cLog[s][j] = g
  BY DEF C!CameBefore, s
<1>2. cLog[s] \in Seq(Nat) /\ s \in C!Paths
  BY DEF C!CliTypes, s
<1>3. CASE s # t
  <2>1. cLog'[s] = cLog[s]
    BY <1>2, <1>3 DEF C!CliTypes
  <2>2. C!CameBefore(q, g)'
    BY <1>1, <1>c, <2>1 DEF C!CameBefore
  <2> QED
    BY <1>3, <2>2 DEF s
<1>4. CASE s = t
  <2> DEFINE l == cLog[s]
             n == Len(l) + 1
  <2>1. cLog'[s] = Append(l, f)
    BY <1>2, <1>4 DEF C!CliTypes
  <2>2. l \in Seq(Nat)
    BY <1>2
  <2> HIDE DEF l
  <2>3. /\ DOMAIN Append(l, f) = 1..n /\ DOMAIN l = 1..Len(l) /\ Len(l) \in Nat
        /\ \A k \in 1..Len(l) : Append(l, f)[k] = l[k]
        /\ Append(l, f)[n] = f
    BY <2>2
  <2>4. i \in 1..Len(l) /\ j \in 1..Len(l) /\ l[i] = cTemp[q] /\ i <= j /\ l[j] = g
    BY <1>1, <2>3 DEF l
  <2>5. i \in 1..n /\ j \in 1..n /\ n \in 1..n /\ i <= n
    BY <2>3, <2>4
  <2>6. C!CameBefore(q, g)'
    BY <1>c, <2>1, <2>3, <2>4, <2>5 DEF C!CameBefore
  <2>7. C!CameBefore(q, f)'
    BY <1>c, <2>1, <2>3, <2>4, <2>5 DEF C!CameBefore
  <2> QED
    BY <2>6, <2>7
<1> QED
  BY <1>3, <1>4

LEMMA EnterStep ==
  ASSUME C!CliInv, cCall' = cCall, NEW p \in Procs, Aside(p), NEW t \in C!Paths, NEW f \in {0, cTemp[p]},
         C!Target(p) = t,
         cDir' = [cDir EXCEPT ![t] = f], cMight' = [cMight EXCEPT ![t] = @ \cup {f}],
         cLog' = [cLog EXCEPT ![t] = Append(@, f)],
         cInode' = cInode, cTemp' = cTemp, cSeen' = cSeen, cBased' = cBased, cFound' = cFound,
         C!CliTypes', C!Route(p)', C!Mode(p) # "dry_run",
         \/ /\ f = 0 /\ cPc[p] = "remove" /\ cPc'[p] = "persist" /\ cOutcome' = cOutcome /\ cUnasked' = cUnasked
         \/ /\ f = cTemp[p] /\ cPc[p] = "replace" /\ cPc'[p] = "fsync_dir" /\ cOutcome' = cOutcome
            /\ cUnasked' = cUnasked
         \/ /\ f = cTemp[p] /\ cPc[p] \in {"export", "persist"} /\ cPc'[p] = "done"
            /\ cUnasked' \subseteq cUnasked \cup {p} /\ (p \in cUnasked' => ~cFound[p])
  PROVE  C!CliInv'
<1> USE DEF C!CliInv
<1>c. \A q \in Procs : C!Way(q)' = C!Way(q) /\ C!Mode(q)' = C!Mode(q) /\ C!Target(q)' = C!Target(q)
  BY CallKept
<1>0. /\ cPc[p] \in C!Private \ {"apply"} /\ cPc[p] # "done" /\ cOutcome[p] = C!None /\ cTemp[p] # 0
      /\ \A u \in C!Paths : cTemp[p] \notin cMight[u]
      /\ \A q \in Procs : q # p => cTemp[q] # cTemp[p]
      /\ cInode[cTemp[p]].whole
      /\ p \notin cUnasked
  BY DEF C!TempsApart, C!Private, C!Route, C!EntriesSturdy, C!LooksStand
<1>w. cPc[p] \in {"export", "persist"} => C!Way(p) \in {"machine", "recalc"} /\ C!Way(p) # "staged"
  BY DEF C!Route
<1>f. f \in Nat /\ \A u \in C!Paths : \A g \in cMight'[u] : g \in cMight[u] \/ g = f
  BY DEF C!CliTypes
<1>2. (\A q \in Procs : C!Route(q))'
  BY RoutesAside
<1>3. C!TempsApart'
  <2> SUFFICES ASSUME NEW q \in Procs
               PROVE  /\ cPc'[q] \in C!Early => cTemp[q] = 0
                      /\ cPc'[q] = "rewritten" => cTemp[q] # 0
                      /\ cPc'[q] \in C!Private =>
                            /\ cTemp[q] # 0 /\ \A u \in C!Paths : cTemp[q] \notin cMight'[u]
                            /\ \A o \in Procs \ {q} : cTemp[o] # cTemp[q]
    BY DEF C!TempsApart
  <2>1. CASE q = p
    <3>1. cPc'[p] \in C!Private => f = 0
      BY DEF C!Private
    <3>2. cPc'[p] \notin C!Early /\ cPc'[p] # "rewritten"
      BY DEF C!Early
    <3> QED
      BY <2>1, <3>1, <3>2, <1>0, <1>f
  <2>2. CASE q # p
    <3>1. cPc'[q] = cPc[q]
      BY <2>2 DEF Aside
    <3> QED
      BY <2>2, <3>1, <1>0, <1>f DEF C!TempsApart
  <2> QED
    BY <2>1, <2>2
<1>4. C!EntriesSturdy'
  <2>1. ASSUME NEW g, C!Sturdy(g) PROVE C!Sturdy(g)'
    BY <2>1, MarksStay
  <2>2. f # 0 => C!Sturdy(f)
    <3>1. CASE cPc[p] = "replace"
      BY <3>1, <1>0 DEF C!Sturdy, C!EntriesSturdy
    <3>2. CASE cPc[p] \in {"export", "persist"}
      BY <3>2, <1>0, <1>w DEF C!Sturdy, C!Unsynced
    <3> QED
      BY <3>1, <3>2, <1>0
  <2>3. ASSUME NEW u \in C!Paths, NEW g \in cMight'[u], g # 0 PROVE C!Sturdy(g)'
    <3>1. C!Sturdy(g)
      BY <2>2, <2>3, <1>f DEF C!EntriesSturdy
    <3> QED
      BY <2>1, <3>1
  <2>4. ASSUME NEW q \in Procs
        PROVE  /\ cPc'[q] \in C!Private \ {"apply"} => cInode[cTemp[q]].whole
               /\ cPc'[q] = "replace" => cInode[cTemp[q]].synced
    <3>1. CASE q = p
      BY <3>1, <1>0
    <3>2. CASE q # p
      BY <3>2 DEF C!EntriesSturdy, Aside
    <3> QED
      BY <3>1, <3>2
  <2> QED
    BY <2>3, <2>4 DEF C!EntriesSturdy
<1>5. C!LogsReach'
  <2> SUFFICES ASSUME NEW q \in Procs
               PROVE  /\ cPc'[q] = "fsync_dir" => C!CameBefore(q, cDir[C!Target(q)])'
                      /\ C!Reported(q, "staged")' => \A g \in cMight'[C!Target(q)] : C!CameBefore(q, g)'
    BY <1>c DEF C!LogsReach
  <2>1. CASE q = p
    <3>1. ~C!Reported(q, "staged")'
      <4>1. CASE cPc[p] \in {"export", "persist"}
        BY <2>1, <4>1, <1>c, <1>w DEF C!Reported
      <4>2. CASE cOutcome' = cOutcome
        BY <2>1, <4>2, <1>0 DEF C!Reported, C!None
      <4> QED
        BY <4>1, <4>2
    <3>2. ASSUME cPc'[q] = "fsync_dir" PROVE C!CameBefore(q, cDir[C!Target(q)])'
      <4>1. f = cTemp[p] /\ cDir'[t] = f
        BY <2>1, <3>2 DEF C!CliTypes
      <4>2. cLog'[t] = Append(cLog[t], f) /\ cLog[t] \in Seq(Nat)
        BY DEF C!CliTypes
      <4> DEFINE l == cLog[t]
                 n == Len(l) + 1
      <4>3. n \in DOMAIN Append(l, f) /\ Append(l, f)[n] = f /\ n <= n
        BY <4>2, <1>f
      <4> HIDE DEF l, n
      <4>4. cLog'[t] = Append(l, f)
        BY <4>2 DEF l
      <4> QED
        BY <2>1, <1>c, <4>1, <4>3, <4>4 DEF C!CameBefore
    <3> QED
      BY <3>1, <3>2
  <2>2. CASE q # p
    <3>1. /\ cPc'[q] = cPc[q] /\ cOutcome'[q] = cOutcome[q]
          /\ C!Reported(q, "staged")' <=> C!Reported(q, "staged")
      BY <2>2, <1>c DEF C!Reported, Aside
    <3>2. ASSUME cPc'[q] = "fsync_dir" PROVE C!CameBefore(q, cDir[C!Target(q)])'
      <4> DEFINE s == C!Target(q)
      <4>1. C!CameBefore(q, cDir[s]) /\ s \in C!Paths
        <5>1. cPc[q] = "fsync_dir"
          BY <3>1, <3>2
        <5>2. C!Mode(q) # "invalid" /\ C!Mode(q) # "dry_run"
          BY <5>1 DEF C!Route
        <5> QED
          BY <5>1, <5>2, Modes DEF C!LogsReach, C!CliTypes
      <4> PICK d : d = cDir[s]
        OBVIOUS
      <4>2. C!CameBefore(q, d)' /\ (s = t => C!CameBefore(q, f)')
        BY <4>1, <1>f, CameBeforeStays
      <4>3. (s # t => cDir'[s] = d) /\ (s = t => cDir'[s] = f)
        BY <4>1 DEF C!CliTypes
      <4>4. C!CameBefore(q, cDir[s])' <=> (\E g : g = cDir'[s] /\ C!CameBefore(q, g)')
        BY <1>c DEF C!CameBefore
      <4> QED
        BY <4>2, <4>3, <4>4
    <3>3. ASSUME C!Reported(q, "staged")', NEW g \in cMight'[C!Target(q)] PROVE C!CameBefore(q, g)'
      <4> DEFINE s == C!Target(q)
      <4>1. C!Reported(q, "staged") /\ \A h \in cMight[s] : C!CameBefore(q, h)
        BY <3>1, <3>3 DEF C!LogsReach
      <4>2. s \in C!Paths
        <5>1. C!Mode(q) # "dry_run" /\ C!Mode(q) # "invalid"
          BY <4>1 DEF C!Reported, C!Route
        <5> QED
          BY <5>1, Modes DEF C!CliTypes
      <4>3. cDir[s] \in cMight[s]
        BY <4>2 DEF C!CliTypes
      <4> PICK d : d = cDir[s]
        OBVIOUS
      <4>4. C!CameBefore(q, d)
        BY <4>1, <4>3
      <4>5. CASE g \in cMight[s]
        <5>1. C!CameBefore(q, g)
          BY <4>1, <4>5
        <5> QED
          BY <4>2, <5>1, <1>f, CameBeforeStays
      <4>6. CASE g \notin cMight[s]
        <5>1. s = t /\ g = f
          BY <3>3, <4>2, <4>6 DEF C!CliTypes
        <5> QED
          BY <4>2, <4>4, <5>1, <1>f, CameBeforeStays
      <4> QED
        BY <4>5, <4>6
    <3> QED
      BY <3>2, <3>3
  <2> QED
    BY <2>1, <2>2
<1>6. C!LooksStand'
  <2>1. ASSUME NEW q \in Procs, cPc'[q] \in {"stage", "apply", "remove", "persist", "export"},
               C!Mode(q) = "output", ~cCall[q].force
        PROVE  ~cFound[q]
    <3>1. CASE q = p
      <4>1. cPc[q] = "remove"
        BY <2>1, <3>1
      <4> QED
        BY <2>1, <4>1 DEF C!LooksStand
    <3>2. CASE q # p
      BY <2>1, <3>2 DEF C!LooksStand, Aside
    <3> QED
      BY <3>1, <3>2
  <2>2. ASSUME NEW q \in cUnasked'
        PROVE  q \in Procs /\ cPc'[q] = "done" /\ C!Way(q) \in {"machine", "recalc"} /\ ~cFound[q]
    <3>1. CASE q = p
      BY <2>2, <3>1, <1>0, <1>w
    <3>2. CASE q # p
      BY <2>2, <3>2 DEF C!LooksStand, C!CliTypes, Aside
    <3> QED
      BY <3>1, <3>2
  <2> QED
    BY <1>c, <2>1, <2>2 DEF C!LooksStand
<1>7. C!DryRunsApart'
  <2> SUFFICES ASSUME NEW d \in Procs, C!Mode(d) = "dry_run"
               PROVE  /\ \A u \in C!Paths : \A g \in cMight'[u] : g # 0 => d \notin cInode[g].doc
                      /\ cPc'[d] = "done" /\ cOutcome'[d] # "killed" => cTemp[d] = 0
    BY <1>c DEF C!DryRunsApart
  <2>1. \A u \in C!Paths : \A g \in cMight'[u] : g # 0 => d \notin cInode[g].doc
    BY <1>f, <1>0 DEF C!DryRunsApart
  <2>2. cPc'[d] = "done" /\ cOutcome'[d] # "killed" => cTemp[d] = 0
    BY DEF C!DryRunsApart, Aside
  <2> QED
    BY <2>1, <2>2
<1>8. (\A q \in Procs : C!Delivered(q))'
  <2> SUFFICES ASSUME NEW q \in Procs PROVE C!Delivered(q)'
    OBVIOUS
  <2>1. ASSUME NEW g, C!Overwritten(g) PROVE C!Overwritten(g)'
    BY <2>1, MarksStay
  <2>2. CASE q # p
    <3>1. cPc'[q] = cPc[q]
      BY <2>2 DEF Aside
    <3>2. \A w : C!Reported(q, w)' <=> C!Reported(q, w)
      BY <2>2, <1>c DEF C!Reported, Aside
    <3> QED
      BY <2>1, <3>1, <3>2 DEF C!Delivered
  <2>3. CASE q = p /\ cPc[p] \in {"export", "persist"}
    <3>1. ~C!Reported(q, "staged")' /\ (C!Reported(q, "machine")' => cPc[q] = "export")
      <4>1. cPc[q] = "persist" => C!Way(q) = "recalc"
        BY DEF C!Route
      <4> QED
        BY <2>3, <4>1, <1>c, <1>w DEF C!Reported
    <3>2. cPc'[q] = "done"
      BY <2>3
    <3> QED
      BY <2>1, <2>3, <3>1, <3>2 DEF C!Delivered
  <2>4. CASE q = p /\ cPc[p] \notin {"export", "persist"}
    <3>1. \A w : ~C!Reported(q, w)'
      BY <2>4, <1>0 DEF C!Reported, C!None
    <3>2. cPc'[q] = "persist" \/ (cPc'[q] = "fsync_dir" /\ cPc[q] = "replace")
      BY <2>4
    <3> QED
      BY <2>1, <3>1, <3>2 DEF C!Delivered
  <2> QED
    BY <2>2, <2>3, <2>4
<1> QED
  BY <1>2, <1>3, <1>4, <1>5, <1>6, <1>7, <1>8

\* A path gets an entry that is a file or none.
LEMMA EnterTypes ==
  ASSUME C!CliTypes, NEW t \in C!Paths, NEW f \in 0..Len(cInode), C!Enter(t, f)
  PROVE  /\ cDir' \in [C!Paths -> 0..Len(cInode)] /\ cMight' \in [C!Paths -> SUBSET (0..Len(cInode))]
         /\ \A u \in C!Paths : cDir'[u] \in cMight'[u]
         /\ cLog' \in [C!Paths -> Seq(Nat)]
<1>1. cDir' \in [C!Paths -> 0..Len(cInode)]
  BY DEF C!CliTypes, C!Enter
<1>2. cMight' \in [C!Paths -> SUBSET (0..Len(cInode))] /\ \A u \in C!Paths : cDir'[u] \in cMight'[u]
  BY DEF C!CliTypes, C!Enter
<1>3. cLog' \in [C!Paths -> Seq(Nat)]
  <2>1. f \in Nat
    BY DEF C!CliTypes
  <2>2. cLog[t] \in Seq(Nat)
    BY DEF C!CliTypes
  <2>3. Append(cLog[t], f) \in Seq(Nat)
    BY <2>1, <2>2
  <2> QED
    BY <2>3 DEF C!CliTypes, C!Enter
<1> QED
  BY <1>1, <1>2, <1>3

\* Nothing to remove: only the step counter moves.
LEMMA WaitStep ==
  ASSUME C!CliInv, cCall' = cCall, NEW p \in Procs, Aside(p), SameFiles, cTemp' = cTemp, cUnasked' = cUnasked,
         cSeen' = cSeen, cBased' = cBased, cFound' = cFound, cOutcome' = cOutcome,
         C!CliTypes', C!Route(p)', cPc[p] = "remove", cPc'[p] = "persist"
  PROVE  C!CliInv'
<1> USE DEF C!CliInv
<1>c. \A q \in Procs : C!Way(q)' = C!Way(q) /\ C!Mode(q)' = C!Mode(q) /\ C!Target(q)' = C!Target(q)
  BY CallKept
<1>p. \A q \in Procs : cPc'[q] = cPc[q] \/ (q = p /\ cPc[q] = "remove" /\ cPc'[q] = "persist")
  BY DEF Aside
<1>r. \A q \in Procs : \A w : C!Reported(q, w)' <=> C!Reported(q, w)
  BY <1>c DEF C!Reported
<1>2. (\A q \in Procs : C!Route(q))'
  BY RoutesAside
<1>3. C!TempsApart'
  BY <1>p DEF C!TempsApart, C!Early, C!Private, SameFiles
<1>4. C!EntriesSturdy'
  <2>1. ASSUME NEW f, C!Sturdy(f) PROVE C!Sturdy(f)'
    BY <2>1, MarksStay DEF SameFiles
  <2>2. \A t \in C!Paths : \A f \in cMight[t] : f # 0 => C!Sturdy(f)'
    BY <2>1 DEF C!EntriesSturdy
  <2> QED
    BY <1>p, <2>2 DEF C!EntriesSturdy, C!Private, SameFiles
<1>5. C!LogsReach'
  <2>1. \A q \in Procs : \A f : C!CameBefore(q, f)' <=> C!CameBefore(q, f)
    BY <1>c DEF C!CameBefore, SameFiles
  <2> SUFFICES ASSUME NEW q \in Procs
               PROVE  /\ cPc'[q] = "fsync_dir" => C!CameBefore(q, cDir[C!Target(q)])'
                      /\ C!Reported(q, "staged")' => \A f \in cMight[C!Target(q)] : C!CameBefore(q, f)'
    BY <1>c DEF C!LogsReach, SameFiles
  <2> QED
    BY <1>p, <1>r, <1>c, <2>1 DEF C!LogsReach, SameFiles
<1>6. C!LooksStand'
  BY <1>p, <1>c DEF C!LooksStand, C!CliTypes
<1>7. C!DryRunsApart'
  BY <1>p, <1>c DEF C!DryRunsApart, SameFiles
<1>8. (\A q \in Procs : C!Delivered(q))'
  <2> SUFFICES ASSUME NEW q \in Procs PROVE C!Delivered(q)'
    OBVIOUS
  <2>1. ASSUME NEW f, C!Overwritten(f) PROVE C!Overwritten(f)'
    BY <2>1, MarksStay
  <2> QED
    BY <1>p, <1>r, <2>1 DEF C!Delivered, SameFiles
<1> QED
  BY <1>2, <1>3, <1>4, <1>5, <1>6, <1>7, <1>8


LEMMA ReplaceKeeps ==
  ASSUME C!CliInv, cCall' = cCall, NEW p \in Procs, C!Replace(p)
  PROVE  C!CliInv'
<1> USE DEF C!CliInv
<1>m. C!Way(p)' = C!Way(p) /\ C!Mode(p)' = C!Mode(p)
  BY CallKept
<1>o. /\ cPc[p] = "replace" /\ cOutcome[p] = C!None /\ C!Mode(p) # "dry_run" /\ C!Mode(p) # "invalid"
      /\ C!Way(p) = "staged"
  BY DEF C!Replace, C!Route
<1>t. C!Target(p) \in C!Paths
  BY <1>o, Modes DEF C!CliTypes
<1>b. cInode' = cInode /\ cSeen' = cSeen /\ cBased' = cBased /\ cFound' = cFound /\ cUnasked' = cUnasked
  BY DEF C!Replace
<1>1. CASE /\ cPc' = [cPc EXCEPT ![p] = "done"] /\ cOutcome' = [cOutcome EXCEPT ![p] = "refused"]
           /\ cTemp' = [cTemp EXCEPT ![p] = 0] /\ cDir' = cDir /\ cMight' = cMight /\ cLog' = cLog
  <2>1. C!CliTypes'
    BY <1>1, <1>b DEF C!CliTypes, C!Steps
  <2>2. /\ Aside(p) /\ cPc'[p] = "done" /\ cOutcome'[p] = "refused" /\ SameFiles
        /\ cPc[p] \in C!Private /\ cPc[p] # "done" /\ cTemp'[p] = 0
    BY <1>1, <1>b, <1>o DEF C!CliTypes, Aside, SameFiles, C!Private
  <2> QED
    BY <1>1, <1>b, <2>1, <2>2, StopStep
<1>2. CASE /\ C!Enter(C!Target(p), cTemp[p])
           /\ cPc' = [cPc EXCEPT ![p] = "fsync_dir"] /\ cOutcome' = cOutcome /\ cTemp' = cTemp
  <2>1. C!CliTypes'
    BY <1>2, <1>b, <1>t, EnterTypes DEF C!CliTypes, C!Steps
  <2>2. Aside(p) /\ cPc'[p] = "fsync_dir"
    BY <1>2, <1>b DEF C!CliTypes, Aside
  <2>3. C!Route(p)'
    BY <1>m, <1>o, <1>2, <2>2 DEF C!Route
  <2> QED
    BY <1>2, <1>b, <1>o, <1>t, <2>1, <2>2, <2>3, EnterStep DEF C!Enter
<1> QED
  BY <1>1, <1>2 DEF C!Replace, C!Goto, C!Return, C!Drop

\* The two renames that look at nothing: of an export and of a recalculated copy.
LEMMA RenameKeeps ==
  ASSUME C!CliInv, cCall' = cCall, NEW p \in Procs, C!Export(p) \/ C!Persist(p)
  PROVE  C!CliInv'
<1> USE DEF C!CliInv
<1>m. C!Way(p)' = C!Way(p) /\ C!Mode(p)' = C!Mode(p)
  BY CallKept
<1>o. /\ cPc[p] \in {"export", "persist"} /\ C!Mode(p) # "dry_run" /\ C!Mode(p) # "invalid"
      /\ C!Mode(p) \in {"in_place", "output"} /\ C!Target(p) \in C!Paths
  <2>1. cPc[p] \in {"export", "persist"}
    BY DEF C!Export, C!Persist
  <2>2. C!Mode(p) # "dry_run" /\ C!Mode(p) # "invalid"
    BY <2>1 DEF C!Route
  <2> QED
    BY <2>1, <2>2, Modes DEF C!CliTypes
<1>b. /\ cInode' = cInode /\ cSeen' = cSeen /\ cBased' = cBased /\ cFound' = cFound /\ cTemp' = cTemp
      /\ C!Enter(C!Target(p), cTemp[p])
      /\ cPc' = [cPc EXCEPT ![p] = "done"] /\ cOutcome' = [cOutcome EXCEPT ![p] = "ok"]
      /\ cUnasked' \subseteq cUnasked \cup {p} /\ (C!Unasked(p) \/ cUnasked' \subseteq cUnasked)
  BY DEF C!Export, C!Persist, C!Return
<1>1. C!CliTypes'
  <2>1. cUnasked' \subseteq Procs
    BY <1>b DEF C!CliTypes
  <2>2. cPc' \in [Procs -> C!Steps] /\ cOutcome' \in [Procs -> {C!None, "ok", "refused", "failed", "killed"}]
    BY <1>b DEF C!CliTypes, C!Steps
  <2> QED
    BY <1>b, <1>o, <2>1, <2>2, EnterTypes DEF C!CliTypes
<1>2. Aside(p) /\ cPc'[p] = "done" /\ cOutcome'[p] = "ok"
  BY <1>b DEF C!CliTypes, Aside
<1>3. C!Route(p)'
  BY <1>m, <1>o, <1>2 DEF C!Route
<1>4. p \in cUnasked' => ~cFound[p]
  <2>1. p \notin cUnasked
    BY <1>o DEF C!LooksStand
  <2>2. p \in cUnasked' => C!Unasked(p)
    BY <1>b, <2>1
  <2>3. C!Unasked(p) => C!Mode(p) = "output" /\ ~cCall[p].force
    BY <1>o DEF C!Unasked
  <2> QED
    BY <1>o, <2>2, <2>3 DEF C!LooksStand
<1> QED
  BY <1>b, <1>o, <1>1, <1>2, <1>3, <1>4, EnterStep DEF C!Enter

LEMMA RemoveOutputKeeps ==
  ASSUME C!CliInv, cCall' = cCall, NEW p \in Procs, C!RemoveOutput(p)
  PROVE  C!CliInv'
<1> USE DEF C!CliInv
<1>m. C!Way(p)' = C!Way(p) /\ C!Mode(p)' = C!Mode(p)
  BY CallKept
<1>o. /\ cPc[p] = "remove" /\ cOutcome[p] = C!None /\ C!Mode(p) = "output" /\ C!Way(p) = "recalc"
  BY DEF C!RemoveOutput, C!Route
<1>t. C!Target(p) \in C!Paths
  BY <1>o, Modes DEF C!CliTypes
<1>b. cInode' = cInode /\ cSeen' = cSeen /\ cBased' = cBased /\ cFound' = cFound /\ cUnasked' = cUnasked
  BY DEF C!RemoveOutput
<1>1. CASE /\ cPc' = [cPc EXCEPT ![p] = "done"] /\ cOutcome' = [cOutcome EXCEPT ![p] = "failed"]
           /\ cTemp' = [cTemp EXCEPT ![p] = 0] /\ cDir' = cDir /\ cMight' = cMight /\ cLog' = cLog
  <2>1. C!CliTypes'
    BY <1>1, <1>b DEF C!CliTypes, C!Steps
  <2>2. /\ Aside(p) /\ cPc'[p] = "done" /\ cOutcome'[p] = "failed" /\ SameFiles
        /\ cPc[p] \in C!Private /\ cPc[p] # "done" /\ cTemp'[p] = 0
    BY <1>1, <1>b, <1>o DEF C!CliTypes, Aside, SameFiles, C!Private
  <2> QED
    BY <1>1, <1>b, <2>1, <2>2, StopStep
<1>2. CASE /\ C!Enter(C!Target(p), 0)
           /\ cPc' = [cPc EXCEPT ![p] = "persist"] /\ cOutcome' = cOutcome /\ cTemp' = cTemp
  <2>1. C!CliTypes'
    BY <1>2, <1>b, <1>t, EnterTypes DEF C!CliTypes, C!Steps, C!Private
  <2>2. Aside(p) /\ cPc'[p] = "persist"
    BY <1>2, <1>b DEF C!CliTypes, Aside
  <2>3. C!Route(p)'
    BY <1>m, <1>o, <1>2, <2>2 DEF C!Route
  <2> QED
    BY <1>2, <1>b, <1>o, <1>t, <2>1, <2>2, <2>3, EnterStep DEF C!Enter
<1>3. CASE /\ cDir' = cDir /\ cMight' = cMight /\ cLog' = cLog
           /\ cPc' = [cPc EXCEPT ![p] = "persist"] /\ cOutcome' = cOutcome /\ cTemp' = cTemp
  <2>1. C!CliTypes'
    BY <1>3, <1>b DEF C!CliTypes, C!Steps, C!Private
  <2>2. Aside(p) /\ cPc'[p] = "persist" /\ SameFiles
    BY <1>3, <1>b DEF C!CliTypes, Aside, SameFiles
  <2>3. C!Route(p)'
    BY <1>m, <1>o, <1>3, <2>2 DEF C!Route
  <2> QED
    BY <1>3, <1>b, <1>o, <2>1, <2>2, <2>3, WaitStep
<1> QED
  BY <1>1, <1>2, <1>3 DEF C!RemoveOutput, C!Goto, C!Return, C!Drop


LEMMA SyncDirKeeps ==
  ASSUME C!CliInv, cCall' = cCall, NEW p \in Procs, C!SyncDir(p)
  PROVE  C!CliInv'
<1> USE DEF C!CliInv
<1>c. \A q \in Procs : C!Way(q)' = C!Way(q) /\ C!Mode(q)' = C!Mode(q) /\ C!Target(q)' = C!Target(q)
  BY CallKept
<1>o. /\ cPc[p] = "fsync_dir" /\ C!Mode(p) # "dry_run" /\ C!Mode(p) # "invalid" /\ C!Way(p) = "staged"
  BY DEF C!SyncDir, C!Route
<1>b. /\ cInode' = cInode /\ cDir' = cDir /\ cTemp' = cTemp /\ cSeen' = cSeen /\ cBased' = cBased
      /\ cFound' = cFound /\ cLog' = cLog /\ cUnasked' = cUnasked
      /\ cPc' = [cPc EXCEPT ![p] = "done"] /\ cOutcome' = [cOutcome EXCEPT ![p] = "ok"]
      /\ cMight' = [t \in C!Paths |-> {cDir[t]}]
  BY DEF C!SyncDir, C!Return, C!observers
<1>f. \A t \in C!Paths : cMight'[t] = {cDir[t]} /\ cMight'[t] \subseteq cMight[t]
  BY <1>b DEF C!CliTypes
<1>1. C!CliTypes'
  <2>1. cMight' \in [C!Paths -> SUBSET (0..Len(cInode))] /\ \A t \in C!Paths : cDir[t] \in cMight'[t]
    BY <1>b DEF C!CliTypes
  <2> QED
    BY <1>b, <2>1 DEF C!CliTypes, C!Steps
<1>a. Aside(p) /\ cPc'[p] = "done" /\ cOutcome'[p] = "ok"
  BY <1>b DEF C!CliTypes, Aside
<1>p. \A q \in Procs : q # p => cPc'[q] = cPc[q] /\ cOutcome'[q] = cOutcome[q]
  BY <1>a DEF Aside
<1>2. (\A q \in Procs : C!Route(q))'
  <2>1. C!Route(p)'
    BY <1>a, <1>c, <1>o DEF C!Route
  <2> QED
    BY <1>a, <2>1, RoutesAside
<1>3. C!TempsApart'
  BY <1>p, <1>a, <1>b, <1>f DEF C!TempsApart, C!Early, C!Private
<1>4. C!EntriesSturdy'
  <2>1. ASSUME NEW f, C!Sturdy(f) PROVE C!Sturdy(f)'
    BY <1>b, <2>1, MarksStay
  <2>2. \A t \in C!Paths : \A f \in cMight'[t] : f # 0 => C!Sturdy(f)'
    BY <2>1, <1>f DEF C!EntriesSturdy
  <2> QED
    BY <1>p, <1>a, <1>b, <2>2 DEF C!EntriesSturdy, C!Private
<1>5. C!LogsReach'
  <2>1. \A q \in Procs : \A f : C!CameBefore(q, f)' <=> C!CameBefore(q, f)
    BY <1>b, <1>c DEF C!CameBefore
  <2> SUFFICES ASSUME NEW q \in Procs
               PROVE  /\ cPc'[q] = "fsync_dir" => C!CameBefore(q, cDir[C!Target(q)])'
                      /\ C!Reported(q, "staged")' => \A f \in cMight'[C!Target(q)] : C!CameBefore(q, f)
    BY <1>b, <1>c, <2>1 DEF C!LogsReach
  <2>2. cPc'[q] = "fsync_dir" => C!CameBefore(q, cDir[C!Target(q)])'
    BY <1>p, <1>a, <1>b, <1>c, <2>1 DEF C!LogsReach
  <2>3. ASSUME C!Reported(q, "staged")' PROVE C!Target(q) \in C!Paths /\ C!CameBefore(q, cDir[C!Target(q)])
    <3>1. CASE q = p
      BY <3>1, <1>o, Modes DEF C!LogsReach, C!CliTypes
    <3>2. CASE q # p
      <4>1. C!Reported(q, "staged")
        BY <2>3, <3>2, <1>p, <1>c DEF C!Reported
      <4>2. C!Target(q) \in C!Paths
        BY <4>1, Modes DEF C!Reported, C!Route, C!CliTypes
      <4> QED
        BY <4>1, <4>2 DEF C!LogsReach, C!CliTypes
    <3> QED
      BY <3>1, <3>2
  <2> QED
    BY <2>2, <2>3, <1>f
<1>6. C!LooksStand'
  BY <1>p, <1>a, <1>b, <1>c DEF C!LooksStand, C!CliTypes
<1>7. C!DryRunsApart'
  BY <1>p, <1>b, <1>c, <1>f, <1>o DEF C!DryRunsApart
<1>8. (\A q \in Procs : C!Delivered(q))'
  <2> SUFFICES ASSUME NEW q \in Procs PROVE C!Delivered(q)'
    OBVIOUS
  <2>1. ASSUME NEW f, C!Overwritten(f) PROVE C!Overwritten(f)'
    BY <1>b, <2>1, MarksStay
  <2>2. CASE q # p
    <3>1. \A w : C!Reported(q, w)' <=> C!Reported(q, w)
      BY <2>2, <1>p, <1>c DEF C!Reported
    <3> QED
      BY <1>p, <1>b, <2>1, <2>2, <3>1 DEF C!Delivered
  <2>3. CASE q = p
    <3>1. ~C!Reported(q, "machine")'
      BY <2>3, <1>c, <1>o DEF C!Reported
    <3> QED
      BY <1>a, <1>b, <1>o, <2>1, <2>3, <3>1 DEF C!Delivered
  <2> QED
    BY <2>2, <2>3
<1> QED
  BY <1>1, <1>2, <1>3, <1>4, <1>5, <1>6, <1>7, <1>8

-----------------------------------------------------------------------------
(* A file is written over.                                                  *)

Overwriter(p) == C!Way(p) = "direct" \/ (C!Way(p) = "recalc" /\ C!Mode(p) = "in_place")

LEMMA OverwriteStep ==
  ASSUME C!CliInv, cCall' = cCall, NEW p \in Procs, Aside(p), Overwriter(p), C!Mode(p) # "dry_run",
         NEW g \in 1..Len(cInode), NEW r \in C!Files,
         cInode' = [cInode EXCEPT ![g] = r], cTemp' = [cTemp EXCEPT ![p] = g], cTemp[p] \in {0, g},
         \A q \in Procs : cPc[q] \in C!Private => cTemp[q] # g,
         cDir' = cDir, cMight' = cMight, cLog' = cLog, cUnasked' = cUnasked, cSeen' = cSeen, cFound' = cFound,
         C!CliTypes', C!Route(p)',
         cPc[p] \notin C!Private \cup {"done"}, cPc'[p] \in {"rewritten", "done"},
         \A d \in Procs : C!Mode(d) = "dry_run" => d \notin cBased'[p] /\ d \notin r.doc
  PROVE  C!CliInv'
<1> USE DEF C!CliInv
<1>c. \A q \in Procs : C!Way(q)' = C!Way(q) /\ C!Mode(q)' = C!Mode(q) /\ C!Target(q)' = C!Target(q)
  BY CallKept
<1>a. /\ \A f : f # g => cInode'[f] = cInode[f]
      /\ cInode'[g] = r /\ g # 0
  BY DEF C!CliTypes
<1>t. cTemp'[p] = g /\ \A q \in Procs : q # p => cTemp'[q] = cTemp[q]
  BY DEF C!CliTypes
<1>p. \A q \in Procs : q # p => cPc'[q] = cPc[q] /\ cOutcome'[q] = cOutcome[q] /\ cBased'[q] = cBased[q]
  BY DEF Aside
<1>s. C!Way(p) \notin {"staged", "machine"}
  BY DEF Overwriter
<1>o. ASSUME NEW f, f # 0 PROVE \A q \in Procs : cTemp[q] = f => cTemp'[q] = f
  BY <1>t, <1>o
<1>g. C!Overwritten(g)'
  BY <1>t, <1>c DEF C!Overwritten, Overwriter
<1>2. (\A q \in Procs : C!Route(q))'
  BY RoutesAside
<1>3. C!TempsApart'
  <2> SUFFICES ASSUME NEW q \in Procs
               PROVE  /\ cPc'[q] \in C!Early => cTemp'[q] = 0
                      /\ cPc'[q] = "rewritten" => cTemp'[q] # 0
                      /\ cPc'[q] \in C!Private =>
                            /\ cTemp'[q] # 0 /\ \A t \in C!Paths : cTemp'[q] \notin cMight[t]
                            /\ \A o \in Procs \ {q} : cTemp'[o] # cTemp'[q]
    BY DEF C!TempsApart
  <2>1. CASE q = p
    BY <2>1, <1>t, <1>a DEF C!Early, C!Private
  <2>2. CASE q # p
    BY <2>2, <1>p, <1>t DEF C!TempsApart
  <2> QED
    BY <2>1, <2>2
<1>4. C!EntriesSturdy'
  <2>1. ASSUME NEW t \in C!Paths, NEW f \in cMight[t], f # 0 PROVE C!Sturdy(f)'
    <3>1. CASE f = g
      BY <3>1, <1>g DEF C!Sturdy
    <3>2. CASE f # g
      <4>1. \A q \in Procs : cTemp[q] = f => cTemp'[q] = f
        BY <1>o, <2>1
      <4>2. C!Sturdy(f) /\ cInode'[f] = cInode[f]
        BY <2>1, <3>2, <1>a DEF C!EntriesSturdy
      <4> QED
        BY <4>1, <4>2, MarksStay
    <3> QED
      BY <3>1, <3>2
  <2>2. ASSUME NEW q \in Procs
        PROVE  /\ cPc'[q] \in C!Private \ {"apply"} => cInode'[cTemp'[q]].whole
               /\ cPc'[q] = "replace" => cInode'[cTemp'[q]].synced
    <3>1. CASE q = p
      BY <3>1 DEF C!Private
    <3>2. CASE q # p
      <4>1. cPc'[q] = cPc[q] /\ cTemp'[q] = cTemp[q]
        BY <3>2, <1>t, <1>p
      <4>2. cPc[q] \in C!Private => cInode'[cTemp[q]] = cInode[cTemp[q]]
        BY <1>a
      <4> QED
        BY <4>1, <4>2 DEF C!EntriesSturdy, C!Private
    <3> QED
      BY <3>1, <3>2
  <2> QED
    BY <2>1, <2>2 DEF C!EntriesSturdy
<1>5. C!LogsReach'
  <2> SUFFICES ASSUME NEW q \in Procs
               PROVE  /\ cPc'[q] = "fsync_dir" => C!CameBefore(q, cDir[C!Target(q)])'
                      /\ C!Reported(q, "staged")' => \A f \in cMight[C!Target(q)] : C!CameBefore(q, f)'
    BY <1>c DEF C!LogsReach
  <2>1. q # p => cPc'[q] = cPc[q] /\ (C!Reported(q, "staged")' <=> C!Reported(q, "staged"))
    BY <1>c, <1>p DEF C!Reported
  <2>2. q = p => cPc'[q] # "fsync_dir" /\ ~C!Reported(q, "staged")'
    BY <1>c, <1>s DEF C!Reported
  <2>3. q # p => \A f : C!CameBefore(q, f)' <=> C!CameBefore(q, f)
    BY <1>c, <1>t DEF C!CameBefore
  <2> QED
    BY <2>1, <2>2, <2>3, <1>c DEF C!LogsReach
<1>6. C!LooksStand'
  <2>1. ASSUME NEW q \in cUnasked PROVE q \in Procs /\ q # p
    BY DEF C!LooksStand, C!CliTypes
  <2> QED
    BY <1>c, <1>p, <2>1 DEF C!LooksStand
<1>7. C!DryRunsApart'
  <2> SUFFICES ASSUME NEW d \in Procs, C!Mode(d) = "dry_run"
               PROVE  /\ \A t \in C!Paths : \A f \in cMight[t] : f # 0 => d \notin cInode'[f].doc
                      /\ \A q \in Procs \ {d} : cTemp'[q] # 0 => d \notin cInode'[cTemp'[q]].doc
                      /\ \A q \in Procs : d \notin cBased'[q]
                      /\ cPc'[d] = "done" /\ cOutcome'[d] # "killed" => cTemp'[d] = 0
    BY <1>c DEF C!DryRunsApart
  <2>1. \A t \in C!Paths : \A f \in cMight[t] : f # 0 => d \notin cInode'[f].doc
    BY <1>a DEF C!DryRunsApart
  <2>2. ASSUME NEW q \in Procs, q # d, cTemp'[q] # 0 PROVE d \notin cInode'[cTemp'[q]].doc
    <3>1. CASE cTemp'[q] = g
      BY <3>1, <1>a
    <3>2. CASE cTemp'[q] # g
      BY <2>2, <3>2, <1>a, <1>t DEF C!DryRunsApart
    <3> QED
      BY <3>1, <3>2
  <2>3. \A q \in Procs : d \notin cBased'[q]
    BY <1>p DEF C!DryRunsApart
  <2>4. cPc'[d] = "done" /\ cOutcome'[d] # "killed" => cTemp'[d] = 0
    BY <1>p, <1>t DEF C!DryRunsApart
  <2> QED
    BY <2>1, <2>2, <2>3, <2>4
<1>8. (\A q \in Procs : C!Delivered(q))'
  <2> SUFFICES ASSUME NEW q \in Procs PROVE C!Delivered(q)'
    OBVIOUS
  <2>1. ASSUME NEW f, f # 0, C!Overwritten(f) PROVE C!Overwritten(f)'
    BY <2>1, <1>o, MarksStay
  <2>2. CASE q # p
    <3>1. cPc'[q] = cPc[q] /\ cSeen'[q] = cSeen[q] /\ cBased'[q] = cBased[q] /\ cTemp'[q] = cTemp[q]
      BY <2>2, <1>t, <1>p
    <3>2. \A w : C!Reported(q, w)' <=> C!Reported(q, w)
      BY <2>2, <1>c, <1>p DEF C!Reported
    <3>3. cInode'[cTemp[q]] = cInode[cTemp[q]] \/ C!Overwritten(cTemp[q])'
      <4>1. CASE cTemp[q] = g
        <5>1. cTemp'[q] = g
          BY <4>1, <3>1
        <5>2. C!Overwritten(cTemp[q])' <=> C!Overwritten(g)'
          BY <5>1 DEF C!Overwritten
        <5> QED
          BY <1>g, <5>2
      <4>2. CASE cTemp[q] # g
        BY <4>2, <1>a
      <4> QED
        BY <4>1, <4>2
    <3> QED
      BY ZenonT(60), <2>1, <3>1, <3>2, <3>3 DEF C!Delivered
  <2>3. CASE q = p
    <3>1. ~C!Reported(q, "staged")' /\ ~C!Reported(q, "machine")'
      BY <2>3, <1>s, <1>c DEF C!Reported
    <3> QED
      BY <2>3, <3>1 DEF C!Delivered
  <2> QED
    BY <2>2, <2>3
<1> QED
  BY <1>2, <1>3, <1>4, <1>5, <1>6, <1>7, <1>8


\* What is under a path, or may come back, is no temporary file in use.
LEMMA EntriesAreNotPrivate ==
  ASSUME C!CliInv, NEW t \in C!Paths, C!Exists(t)
  PROVE  /\ cDir[t] \in 1..Len(cInode) /\ \A q \in Procs : cPc[q] \in C!Private => cTemp[q] # cDir[t]
BY ContentTypes DEF C!CliInv, C!CliTypes, C!TempsApart

LEMMA RewriteKeeps ==
  ASSUME C!CliInv, cCall' = cCall, NEW p \in Procs, C!Rewrite(p)
  PROVE  C!CliInv'
<1> USE DEF C!CliInv
<1>m. C!Way(p)' = C!Way(p) /\ C!Mode(p)' = C!Mode(p)
  BY CallKept
<1>o. cPc[p] = "rewrite" /\ cOutcome[p] = C!None /\ C!Way(p) = "recalc" /\ C!Mode(p) = "in_place" /\ cTemp[p] = 0
  BY DEF C!Rewrite, C!Route, C!TempsApart, C!Early
<1>b. /\ cSeen' = cSeen /\ cFound' = cFound /\ cDir' = cDir /\ cMight' = cMight
      /\ cLog' = cLog /\ cUnasked' = cUnasked
  BY DEF C!Rewrite, C!observers
<1>1. CASE /\ cPc' = [cPc EXCEPT ![p] = "done"] /\ cOutcome' = [cOutcome EXCEPT ![p] = "failed"]
           /\ cInode' = cInode /\ cTemp' = cTemp /\ cBased' = cBased
  <2>1. C!CliTypes'
    BY <1>1, <1>b DEF C!CliTypes, C!Steps
  <2>2. Aside(p) /\ cPc'[p] = "done" /\ cOutcome'[p] = "failed" /\ SameFiles /\ cPc[p] # "done"
    BY <1>1, <1>b, <1>o DEF C!CliTypes, Aside, SameFiles
  <2> QED
    BY <1>1, <1>b, <1>o, <2>1, <2>2, StopStep
<1>2. CASE /\ C!Exists("src") /\ cInode' = [cInode EXCEPT ![cDir["src"]] = C!Empty]
           /\ cTemp' = [cTemp EXCEPT ![p] = cDir["src"]]
           /\ cBased' = [cBased EXCEPT ![p] = C!Content("src")]
           /\ cPc' = [cPc EXCEPT ![p] = "rewritten"] /\ cOutcome' = cOutcome
  <2>s. "src" \in C!Paths
    BY DEF C!Paths
  <2>g. /\ cDir["src"] \in 1..Len(cInode) /\ C!Content("src") \in C!Docs
        /\ \A q \in Procs : cPc[q] \in C!Private => cTemp[q] # cDir["src"]
    BY <1>2, <2>s, ContentTypes, EntriesAreNotPrivate
  <2>e. C!Empty \in C!Files /\ C!Empty.doc = {}
    BY DEF C!Empty, C!Files, C!Docs
  <2>1. C!CliTypes'
    <3>1. cInode' \in Seq(C!Files) /\ Len(cInode') = Len(cInode)
      BY <1>2, <2>g, <2>e DEF C!CliTypes
    <3>2. cTemp' \in [Procs -> 0..Len(cInode)]
      BY <1>2, <2>s DEF C!CliTypes
    <3>3. cPc' \in [Procs -> C!Steps] /\ cBased' \in [Procs -> C!Docs]
      BY <1>2, <2>g DEF C!CliTypes, C!Steps
    <3> QED
      BY <1>2, <1>b, <3>1, <3>2, <3>3 DEF C!CliTypes
  <2>2. /\ Aside(p) /\ cPc'[p] = "rewritten" /\ cBased'[p] = C!Content("src")
        /\ cPc[p] \notin C!Private \cup {"done"}
    BY <1>2, <1>b, <1>o DEF C!CliTypes, Aside, C!Private
  <2>3. C!Route(p)'
    BY <1>2, <1>m, <1>o, <2>2 DEF C!Route
  <2>4. \A d \in Procs : C!Mode(d) = "dry_run" => d \notin cBased'[p] /\ d \notin C!Empty.doc
    BY <1>2, <2>s, <2>e, <2>2, SourceIsNobodysDryRun
  <2>5. Overwriter(p) /\ C!Mode(p) # "dry_run"
    BY <1>o DEF Overwriter
  <2> QED
    BY <1>2, <1>b, <1>o, <2>g, <2>e, <2>1, <2>2, <2>3, <2>4, <2>5, OverwriteStep
<1> QED
  BY <1>1, <1>2 DEF C!Rewrite, C!Goto, C!Return, C!Readable

LEMMA RewrittenKeeps ==
  ASSUME C!CliInv, cCall' = cCall, NEW p \in Procs, C!Rewritten(p)
  PROVE  C!CliInv'
<1> USE DEF C!CliInv
<1>m. C!Way(p)' = C!Way(p) /\ C!Mode(p)' = C!Mode(p)
  BY CallKept
<1>o. /\ cPc[p] = "rewritten" /\ Overwriter(p) /\ C!Mode(p) # "invalid" /\ C!Mode(p) # "dry_run"
      /\ cTemp[p] \in 1..Len(cInode)
  <2>1. cPc[p] = "rewritten"
    BY DEF C!Rewritten
  <2>2. Overwriter(p) /\ C!Mode(p) # "invalid"
    BY <2>1 DEF C!Route, Overwriter
  <2>3. C!Mode(p) # "dry_run"
    BY <2>2, Modes DEF C!CliTypes, Overwriter
  <2>4. cTemp[p] \in 1..Len(cInode)
    BY <2>1 DEF C!TempsApart, C!CliTypes
  <2> QED
    BY <2>1, <2>2, <2>3, <2>4
<1>q. \A q \in Procs : cPc[q] \in C!Private => cTemp[q] # cTemp[p]
  BY <1>o DEF C!TempsApart, C!Private
<1> DEFINE e == IF cCall[p].cmd = "copy" THEN {} ELSE {p}
           r == [doc |-> cBased[p] \cup e, whole |-> TRUE, synced |-> FALSE]
<1>e. e \subseteq {p}
  OBVIOUS
<1>b. /\ cSeen' = cSeen /\ cFound' = cFound /\ cDir' = cDir /\ cMight' = cMight /\ cTemp' = cTemp
      /\ cBased' = cBased /\ cLog' = cLog /\ cUnasked' = cUnasked
      /\ cPc' = [cPc EXCEPT ![p] = "done"] /\ cOutcome' = [cOutcome EXCEPT ![p] = "ok"]
      /\ cInode' = [cInode EXCEPT ![cTemp[p]] = r]
  BY DEF C!Rewritten, C!observers, C!Return, C!Write
<1> HIDE DEF e
<1>r. r \in C!Files /\ r.doc = cBased[p] \cup e
  BY <1>e DEF C!Files, C!Docs, C!CliTypes
<1> HIDE DEF r
<1>1. C!CliTypes'
  <2>1. cInode' \in Seq(C!Files) /\ Len(cInode') = Len(cInode)
    BY <1>b, <1>o, <1>r DEF C!CliTypes
  <2>2. cPc' \in [Procs -> C!Steps] /\ cOutcome' \in [Procs -> {C!None, "ok", "refused", "failed", "killed"}]
    BY <1>b DEF C!CliTypes, C!Steps
  <2> QED
    BY <1>b, <2>1, <2>2 DEF C!CliTypes
<1>2. Aside(p) /\ cPc'[p] = "done" /\ cOutcome'[p] = "ok" /\ cPc[p] \notin C!Private \cup {"done"}
  BY <1>b, <1>o DEF C!CliTypes, Aside, C!Private
<1>3. C!Route(p)'
  BY <1>m, <1>o, <1>2 DEF C!Route
<1>4. \A d \in Procs : C!Mode(d) = "dry_run" => d \notin cBased'[p] /\ d \notin r.doc
  BY <1>b, <1>r, <1>e, <1>o DEF C!DryRunsApart
<1>5. cTemp' = [cTemp EXCEPT ![p] = cTemp[p]]
  BY <1>b DEF C!CliTypes
<1> QED
  BY <1>b, <1>o, <1>q, <1>r, <1>1, <1>2, <1>3, <1>4, <1>5, OverwriteStep


\* A file appears where there was none.
LEMMA NewEntryStep ==
  ASSUME C!CliInv, cCall' = cCall, NEW p \in Procs, Aside(p), Overwriter(p), C!Mode(p) # "dry_run",
         NEW t \in C!Paths, NEW r \in C!Files,
         cInode' = Append(cInode, r), cTemp' = [cTemp EXCEPT ![p] = Len(cInode) + 1], cTemp[p] = 0,
         C!Enter(t, Len(cInode) + 1), cUnasked' = cUnasked, cSeen' = cSeen, cFound' = cFound,
         C!CliTypes', C!Route(p)', cPc[p] \in C!Early, cPc'[p] = "rewritten", cOutcome' = cOutcome,
         \A d \in Procs : C!Mode(d) = "dry_run" => d \notin cBased'[p] /\ d \notin r.doc
  PROVE  C!CliInv'
<1> USE DEF C!CliInv
<1> PICK new : new = Len(cInode) + 1
  OBVIOUS
<1>c. \A q \in Procs : C!Way(q)' = C!Way(q) /\ C!Mode(q)' = C!Mode(q) /\ C!Target(q)' = C!Target(q)
  BY CallKept
<1>a. /\ \A f \in 1..Len(cInode) : cInode'[f] = cInode[f]
      /\ cInode'[new] = r /\ new \notin 0..Len(cInode) /\ new \in Nat
  BY AppendedFile
<1>t. /\ cTemp'[p] = new /\ \A q \in Procs : q # p => cTemp'[q] = cTemp[q]
      /\ \A q \in Procs : cTemp[q] \in 0..Len(cInode)
      /\ \A u \in C!Paths : cMight[u] \subseteq 0..Len(cInode)
  BY DEF C!CliTypes
<1>f. /\ cDir' = [cDir EXCEPT ![t] = new] /\ cMight' = [cMight EXCEPT ![t] = @ \cup {new}]
      /\ cLog' = [cLog EXCEPT ![t] = Append(@, new)]
  BY DEF C!Enter
<1>g. \A u \in C!Paths : \A h \in cMight'[u] : h \in cMight[u] \/ h = new
  BY <1>f DEF C!CliTypes
<1>0. cPc[p] # "done" /\ cOutcome[p] = C!None
  BY DEF C!Early, C!Route
<1>n. new # 0 /\ \A q \in Procs : cTemp[q] # 0 => cTemp[q] \in 1..Len(cInode)
  BY <1>a, <1>t DEF C!CliTypes
<1>m. \A u \in C!Paths : \A h \in cMight[u] : h # 0 => h \in 1..Len(cInode) /\ h # new
  BY <1>a, <1>t
<1>p. \A q \in Procs : q # p => cPc'[q] = cPc[q] /\ cOutcome'[q] = cOutcome[q] /\ cBased'[q] = cBased[q]
  BY DEF Aside
<1>s. C!Way(p) \notin {"staged", "machine"}
  BY DEF Overwriter
<1>o. ASSUME NEW f, f # 0 PROVE \A q \in Procs : cTemp[q] = f => cTemp'[q] = f
  BY <1>t, <1>o
<1>w. C!Overwritten(new)'
  BY <1>t, <1>c DEF C!Overwritten, Overwriter
<1>2. (\A q \in Procs : C!Route(q))'
  BY RoutesAside
<1>3. C!TempsApart'
  <2> SUFFICES ASSUME NEW q \in Procs
               PROVE  /\ cPc'[q] \in C!Early => cTemp'[q] = 0
                      /\ cPc'[q] = "rewritten" => cTemp'[q] # 0
                      /\ cPc'[q] \in C!Private =>
                            /\ cTemp'[q] # 0 /\ \A u \in C!Paths : cTemp'[q] \notin cMight'[u]
                            /\ \A o \in Procs \ {q} : cTemp'[o] # cTemp'[q]
    BY DEF C!TempsApart
  <2>1. CASE q = p
    BY <2>1, <1>t, <1>n DEF C!Early, C!Private
  <2>2. CASE q # p
    <3>1. cPc'[q] = cPc[q] /\ cTemp'[q] = cTemp[q] /\ cTemp'[q] # new
      BY <2>2, <1>t, <1>a, <1>p
    <3> QED
      BY <2>2, <3>1, <1>t, <1>g DEF C!TempsApart
  <2> QED
    BY <2>1, <2>2
<1>4. C!EntriesSturdy'
  <2>1. ASSUME NEW u \in C!Paths, NEW f \in cMight'[u], f # 0 PROVE C!Sturdy(f)'
    <3>1. CASE f = new
      BY <3>1, <1>w DEF C!Sturdy
    <3>2. CASE f \in cMight[u]
      <4>1. \A q \in Procs : cTemp[q] = f => cTemp'[q] = f
        BY <1>o, <2>1
      <4>2. C!Sturdy(f) /\ cInode'[f] = cInode[f]
        BY <2>1, <3>2, <1>m, <1>a DEF C!EntriesSturdy
      <4> QED
        BY <4>1, <4>2, MarksStay
    <3> QED
      BY <3>1, <3>2, <1>g
  <2>2. ASSUME NEW q \in Procs
        PROVE  /\ cPc'[q] \in C!Private \ {"apply"} => cInode'[cTemp'[q]].whole
               /\ cPc'[q] = "replace" => cInode'[cTemp'[q]].synced
    <3>1. CASE q = p
      BY <3>1 DEF C!Private
    <3>2. CASE q # p
      <4>1. cPc'[q] = cPc[q] /\ cTemp'[q] = cTemp[q]
        BY <3>2, <1>t, <1>p
      <4>2. cPc[q] \in C!Private => cInode'[cTemp[q]] = cInode[cTemp[q]]
        BY <1>n, <1>a DEF C!TempsApart
      <4> QED
        BY <4>1, <4>2 DEF C!EntriesSturdy, C!Private
    <3> QED
      BY <3>1, <3>2
  <2> QED
    BY <2>1, <2>2 DEF C!EntriesSturdy
<1>5. C!LogsReach'
  <2> SUFFICES ASSUME NEW q \in Procs
               PROVE  /\ cPc'[q] = "fsync_dir" => C!CameBefore(q, cDir[C!Target(q)])'
                      /\ C!Reported(q, "staged")' => \A g \in cMight'[C!Target(q)] : C!CameBefore(q, g)'
    BY <1>c DEF C!LogsReach
  <2>1. CASE q = p
    BY <2>1, <1>c, <1>s DEF C!Reported
  <2>2. CASE q # p
    <3> DEFINE s == C!Target(q)
    <3>1. /\ cPc'[q] = cPc[q] /\ cTemp'[q] = cTemp[q]
          /\ C!Reported(q, "staged")' <=> C!Reported(q, "staged")
      BY <2>2, <1>c, <1>p, <1>t DEF C!Reported
    <3>2. cPc[q] = "fsync_dir" \/ C!Reported(q, "staged") => s \in C!Paths /\ C!CameBefore(q, cDir[s])
      <4>1. cPc[q] = "fsync_dir" \/ C!Reported(q, "staged") => C!Mode(q) # "invalid" /\ C!Mode(q) # "dry_run"
        BY DEF C!Route, C!Reported
      <4>2. cPc[q] = "fsync_dir" \/ C!Reported(q, "staged") => s \in C!Paths
        BY <4>1, Modes DEF C!CliTypes
      <4>3. s \in C!Paths => cDir[s] \in cMight[s]
        BY DEF C!CliTypes
      <4> QED
        BY <4>2, <4>3 DEF C!LogsReach
    <3> PICK d : d = cDir[s]
      OBVIOUS
    <3>3. ASSUME cPc[q] = "fsync_dir" \/ C!Reported(q, "staged")
          PROVE  s \in C!Paths /\ C!CameBefore(q, d)' /\ (s = t => C!CameBefore(q, new)')
      BY <1>a, <1>f, <3>1, <3>2, <3>3, CameBeforeStays
    <3>4. ASSUME cPc'[q] = "fsync_dir" PROVE C!CameBefore(q, cDir[s])'
      <4>1. s \in C!Paths /\ C!CameBefore(q, d)' /\ (s = t => C!CameBefore(q, new)')
        BY <3>1, <3>3, <3>4
      <4>2. (s # t => cDir'[s] = d) /\ (s = t => cDir'[s] = new)
        BY <1>f, <4>1 DEF C!CliTypes
      <4>3. C!CameBefore(q, cDir[s])' <=> (\E g : g = cDir'[s] /\ C!CameBefore(q, g)')
        BY <1>c DEF C!CameBefore
      <4> QED
        BY <4>1, <4>2, <4>3
    <3>5. ASSUME C!Reported(q, "staged")', NEW g \in cMight'[s] PROVE C!CameBefore(q, g)'
      <4>1. s \in C!Paths /\ (s = t => C!CameBefore(q, new)')
        BY <3>1, <3>3, <3>5
      <4>2. CASE g \in cMight[s]
        <5>1. C!CameBefore(q, g)
          BY <3>1, <3>5, <4>2 DEF C!LogsReach
        <5> QED
          BY <1>a, <1>f, <3>1, <4>1, <5>1, CameBeforeStays
      <4>3. CASE g \notin cMight[s]
        <5>1. s = t /\ g = new
          BY <1>f, <3>5, <4>1, <4>3 DEF C!CliTypes
        <5> QED
          BY <4>1, <5>1
      <4> QED
        BY <4>2, <4>3
    <3> QED
      BY <3>4, <3>5
  <2> QED
    BY <2>1, <2>2
<1>6. C!LooksStand'
  <2>1. ASSUME NEW q \in cUnasked PROVE q \in Procs /\ q # p
    BY <1>0 DEF C!LooksStand, C!CliTypes
  <2> QED
    BY <1>c, <1>p, <2>1 DEF C!LooksStand
<1>7. C!DryRunsApart'
  <2> SUFFICES ASSUME NEW d \in Procs, C!Mode(d) = "dry_run"
               PROVE  /\ \A u \in C!Paths : \A f \in cMight'[u] : f # 0 => d \notin cInode'[f].doc
                      /\ \A q \in Procs \ {d} : cTemp'[q] # 0 => d \notin cInode'[cTemp'[q]].doc
                      /\ \A q \in Procs : d \notin cBased'[q]
                      /\ cPc'[d] = "done" /\ cOutcome'[d] # "killed" => cTemp'[d] = 0
    BY <1>c DEF C!DryRunsApart
  <2>1. \A u \in C!Paths : \A f \in cMight'[u] : f # 0 => d \notin cInode'[f].doc
    BY <1>m, <1>a, <1>g DEF C!DryRunsApart
  <2>2. \A q \in Procs \ {d} : cTemp'[q] # 0 => d \notin cInode'[cTemp'[q]].doc
    BY <1>t, <1>n, <1>a DEF C!DryRunsApart
  <2>3. \A q \in Procs : d \notin cBased'[q]
    BY <1>p DEF C!DryRunsApart
  <2>4. cPc'[d] = "done" /\ cOutcome'[d] # "killed" => cTemp'[d] = 0
    BY <1>p, <1>t DEF C!DryRunsApart
  <2> QED
    BY <2>1, <2>2, <2>3, <2>4
<1>8. (\A q \in Procs : C!Delivered(q))'
  <2> SUFFICES ASSUME NEW q \in Procs PROVE C!Delivered(q)'
    OBVIOUS
  <2>1. ASSUME NEW f, f # 0, C!Overwritten(f) PROVE C!Overwritten(f)'
    BY <2>1, <1>o, MarksStay
  <2>2. CASE q # p
    <3>1. cPc'[q] = cPc[q] /\ cSeen'[q] = cSeen[q] /\ cBased'[q] = cBased[q] /\ cTemp'[q] = cTemp[q]
      BY <2>2, <1>t, <1>p
    <3>2. \A w : C!Reported(q, w)' <=> C!Reported(q, w)
      BY <2>2, <1>c, <1>p DEF C!Reported
    <3>3. cTemp[q] # 0 => cInode'[cTemp[q]] = cInode[cTemp[q]]
      BY <1>n, <1>a
    <3> QED
      BY ZenonT(60), <2>1, <3>1, <3>2, <3>3 DEF C!Delivered
  <2>3. CASE q = p
    <3>1. ~C!Reported(q, "staged")' /\ ~C!Reported(q, "machine")'
      BY <2>3, <1>s, <1>c DEF C!Reported
    <3> QED
      BY <2>3, <3>1 DEF C!Delivered
  <2> QED
    BY <2>2, <2>3
<1> QED
  BY <1>2, <1>3, <1>4, <1>5, <1>6, <1>7, <1>8

LEMMA DirectKeeps ==
  ASSUME C!CliInv, cCall' = cCall, NEW p \in Procs, C!Direct(p)
  PROVE  C!CliInv'
<1> USE DEF C!CliInv
<1> DEFINE t == C!Target(p)
           b == IF cCall[p].cmd = "copy" THEN C!Content("src") ELSE {}
<1>m. C!Way(p)' = C!Way(p) /\ C!Mode(p)' = C!Mode(p)
  BY CallKept
<1>o. cPc[p] = "direct" /\ cOutcome[p] = C!None /\ C!Way(p) = "direct" /\ cTemp[p] = 0
  BY DEF C!Direct, C!Route, C!TempsApart, C!Early
<1>n. C!Mode(p) = "output" /\ t \in C!Paths /\ Overwriter(p)
  BY <1>o, Modes DEF C!CliTypes, Overwriter
<1>b. cSeen' = cSeen /\ cFound' = cFound /\ cUnasked' = cUnasked
  BY DEF C!Direct
<1>k. \/ /\ cPc' = [cPc EXCEPT ![p] = "done"] /\ cOutcome' = [cOutcome EXCEPT ![p] = "refused"]
         /\ cInode' = cInode /\ cDir' = cDir /\ cMight' = cMight /\ cLog' = cLog /\ cTemp' = cTemp
         /\ cBased' = cBased
      \/ /\ cPc' = [cPc EXCEPT ![p] = "rewritten"] /\ cOutcome' = cOutcome
         /\ cCall[p].cmd = "copy" => C!Readable("src")
         /\ cBased' = [cBased EXCEPT ![p] = b]
         /\ \/ /\ C!Exists(t) /\ cInode' = [cInode EXCEPT ![cDir[t]] = C!Empty]
               /\ cTemp' = [cTemp EXCEPT ![p] = cDir[t]] /\ cDir' = cDir /\ cMight' = cMight /\ cLog' = cLog
            \/ /\ cInode' = Append(cInode, C!Empty) /\ cTemp' = [cTemp EXCEPT ![p] = Len(cInode) + 1]
               /\ C!Enter(t, Len(cInode) + 1)
  BY DEF C!Direct, C!Goto, C!Return, C!files
<1>e. C!Empty \in C!Files /\ C!Empty.doc = {}
  BY DEF C!Empty, C!Files, C!Docs
<1>1. CASE /\ cPc' = [cPc EXCEPT ![p] = "done"] /\ cOutcome' = [cOutcome EXCEPT ![p] = "refused"]
           /\ cInode' = cInode /\ cDir' = cDir /\ cMight' = cMight /\ cLog' = cLog /\ cTemp' = cTemp
           /\ cBased' = cBased
  <2>1. C!CliTypes'
    BY <1>1, <1>b DEF C!CliTypes, C!Steps
  <2>2. Aside(p) /\ cPc'[p] = "done" /\ cOutcome'[p] = "refused" /\ SameFiles /\ cPc[p] # "done"
    BY <1>1, <1>b, <1>o DEF C!CliTypes, Aside, SameFiles
  <2> QED
    BY <1>1, <1>b, <1>o, <1>n, <2>1, <2>2, StopStep
<1>2. CASE /\ cPc' = [cPc EXCEPT ![p] = "rewritten"] /\ cOutcome' = cOutcome
           /\ cCall[p].cmd = "copy" => C!Readable("src")
           /\ cBased' = [cBased EXCEPT ![p] = b]
           /\ \/ /\ C!Exists(t) /\ cInode' = [cInode EXCEPT ![cDir[t]] = C!Empty]
                 /\ cTemp' = [cTemp EXCEPT ![p] = cDir[t]] /\ cDir' = cDir /\ cMight' = cMight /\ cLog' = cLog
              \/ /\ cInode' = Append(cInode, C!Empty) /\ cTemp' = [cTemp EXCEPT ![p] = Len(cInode) + 1]
                 /\ C!Enter(t, Len(cInode) + 1)
  <2>b. b \in C!Docs /\ \A d \in Procs : C!Mode(d) = "dry_run" => d \notin b
    <3>1. CASE cCall[p].cmd = "copy"
      <4>1. C!Exists("src") /\ "src" \in C!Paths
        BY <1>2, <3>1 DEF C!Readable, C!Paths
      <4> QED
        BY <3>1, <4>1, ContentTypes, SourceIsNobodysDryRun
    <3>2. CASE cCall[p].cmd # "copy"
      BY <3>2 DEF C!Docs
    <3> QED
      BY <3>1, <3>2
  <2> HIDE DEF b
  <2>1. cPc' \in [Procs -> C!Steps] /\ cBased' \in [Procs -> C!Docs]
    BY <1>2, <2>b DEF C!CliTypes, C!Steps
  <2>2. /\ cPc'[p] = "rewritten" /\ cBased'[p] = b /\ cOutcome'[p] = C!None
        /\ cPc[p] \notin C!Private \cup {"done"} /\ cPc[p] \in C!Early
    BY <1>2, <1>o DEF C!CliTypes, C!Private, C!Early
  <2>a. Aside(p)
    BY <1>2, <1>b DEF C!CliTypes, Aside
  <2>3. C!Route(p)'
    BY <1>m, <1>n, <1>o, <2>2 DEF C!Route
  <2>4. \A d \in Procs : C!Mode(d) = "dry_run" => d \notin cBased'[p] /\ d \notin C!Empty.doc
    BY <2>b, <2>2, <1>e
  <2>5. CASE /\ C!Exists(t) /\ cInode' = [cInode EXCEPT ![cDir[t]] = C!Empty]
             /\ cTemp' = [cTemp EXCEPT ![p] = cDir[t]] /\ cDir' = cDir /\ cMight' = cMight /\ cLog' = cLog
    <3>1. cDir[t] \in 1..Len(cInode) /\ \A q \in Procs : cPc[q] \in C!Private => cTemp[q] # cDir[t]
      BY <1>n, <2>5, EntriesAreNotPrivate
    <3>2. cInode' \in Seq(C!Files) /\ Len(cInode') = Len(cInode)
      BY <2>5, <3>1, <1>e DEF C!CliTypes
    <3>3. cTemp' \in [Procs -> 0..Len(cInode)]
      BY <2>5, <1>n DEF C!CliTypes
    <3>4. C!CliTypes'
      BY <1>2, <1>b, <2>1, <2>5, <3>2, <3>3 DEF C!CliTypes
    <3> QED
      BY <1>2, <1>b, <1>e, <1>n, <1>o, <2>2, <2>a, <2>3, <2>4, <2>5, <3>1, <3>4, OverwriteStep
  <2>6. CASE /\ cInode' = Append(cInode, C!Empty) /\ cTemp' = [cTemp EXCEPT ![p] = Len(cInode) + 1]
             /\ C!Enter(t, Len(cInode) + 1)
    <3>1. /\ cInode' \in Seq(C!Files) /\ Len(cInode') = Len(cInode) + 1 /\ Len(cInode) \in Nat
          /\ 0..Len(cInode) \subseteq 0..Len(cInode') /\ Len(cInode) + 1 \in 0..Len(cInode')
          /\ Len(cInode) + 1 \in Nat
      BY <2>6, <1>e, AppendedFile
    <3>2. cTemp' \in [Procs -> 0..Len(cInode')]
      BY <2>6, <3>1 DEF C!CliTypes
    <3>3. /\ cDir' \in [C!Paths -> 0..Len(cInode')] /\ cMight' \in [C!Paths -> SUBSET (0..Len(cInode'))]
          /\ \A u \in C!Paths : cDir'[u] \in cMight'[u]
      BY <1>n, <2>6, <3>1 DEF C!CliTypes, C!Enter
    <3>4. cLog' \in [C!Paths -> Seq(Nat)]
      <4>1. cLog[t] \in Seq(Nat)
        BY <1>n DEF C!CliTypes
      <4>2. Append(cLog[t], Len(cInode) + 1) \in Seq(Nat)
        BY <3>1, <4>1
      <4> QED
        BY <1>n, <2>6, <4>2 DEF C!CliTypes, C!Enter
    <3>5. C!CliTypes'
      BY <1>2, <1>b, <2>1, <3>1, <3>2, <3>3, <3>4 DEF C!CliTypes
    <3> QED
      BY <1>2, <1>b, <1>e, <1>n, <1>o, <2>2, <2>a, <2>3, <2>4, <2>6, <3>5, NewEntryStep
  <2> QED
    BY <1>2, <2>5, <2>6
<1> QED
  BY <1>k, <1>1, <1>2


LEMMA CliStutters ==
  ASSUME C!CliInv, UNCHANGED cli
  PROVE  C!CliInv'
<1> USE DEF C!CliInv
<1>b. /\ cCall' = cCall /\ cPc' = cPc /\ cInode' = cInode /\ cDir' = cDir /\ cMight' = cMight /\ cTemp' = cTemp
      /\ cSeen' = cSeen /\ cBased' = cBased /\ cFound' = cFound /\ cOutcome' = cOutcome /\ cLog' = cLog
      /\ cUnasked' = cUnasked
  BY DEF cli
<1>c. \A q \in Procs : C!Way(q)' = C!Way(q) /\ C!Mode(q)' = C!Mode(q) /\ C!Target(q)' = C!Target(q)
  BY <1>b, CallKept
<1>1. C!CliTypes' /\ C!TempsApart'
  BY <1>b DEF C!CliTypes, C!TempsApart
<1>2. (\A q \in Procs : C!Route(q))'
  BY <1>b, <1>c DEF C!Route
<1>3. C!EntriesSturdy'
  <2>1. ASSUME NEW f, C!Sturdy(f) PROVE C!Sturdy(f)'
    BY <1>b, <2>1, MarksStay
  <2> QED
    BY <1>b, <2>1 DEF C!EntriesSturdy
<1>4. C!LogsReach'
  BY <1>b, <1>c DEF C!LogsReach, C!CameBefore, C!Reported
<1>5. C!LooksStand' /\ C!DryRunsApart'
  BY <1>b, <1>c DEF C!LooksStand, C!DryRunsApart, C!CliTypes
<1>6. (\A q \in Procs : C!Delivered(q))'
  <2> SUFFICES ASSUME NEW q \in Procs PROVE C!Delivered(q)'
    OBVIOUS
  <2>1. ASSUME NEW f, C!Overwritten(f) PROVE C!Overwritten(f)'
    BY <1>b, <2>1, MarksStay
  <2>2. \A w : C!Reported(q, w)' <=> C!Reported(q, w)
    BY <1>b, <1>c DEF C!Reported
  <2> QED
    BY <1>b, <2>1, <2>2 DEF C!Delivered
<1> QED
  BY <1>1, <1>2, <1>3, <1>4, <1>5, <1>6

-----------------------------------------------------------------------------
(* Power loss, the initial states, and every step.                          *)

LEMMA PowerLossKeeps ==
  ASSUME C!CliInv, cCall' = cCall, C!PowerLoss
  PROVE  C!CliInv'
<1> USE DEF C!CliInv
<1>c. \A q \in Procs : C!Way(q)' = C!Way(q) /\ C!Mode(q)' = C!Mode(q) /\ C!Target(q)' = C!Target(q)
  BY CallKept
<1>b. /\ cTemp' = cTemp /\ cSeen' = cSeen /\ cBased' = cBased /\ cFound' = cFound
      /\ cLog' = cLog /\ cUnasked' = cUnasked
  BY DEF C!PowerLoss, C!observers
<1>p. \A q \in Procs : cPc'[q] = "done" /\ cOutcome'[q] = (IF cOutcome[q] = C!None THEN "killed" ELSE cOutcome[q])
  BY DEF C!PowerLoss
<1>d. /\ DOMAIN cDir' = C!Paths /\ cDir' \in [C!Paths -> UNION {cMight[t] : t \in C!Paths}]
      /\ \A t \in C!Paths : cDir'[t] \in cMight[t] /\ cMight'[t] = {cDir'[t]} /\ cMight'[t] \subseteq cMight[t]
      /\ cMight' = [t \in C!Paths |-> {cDir'[t]}]
  BY DEF C!PowerLoss
<1>i. /\ DOMAIN cInode' = DOMAIN cInode
      /\ \A f \in DOMAIN cInode : /\ cInode'[f] \in C!Files /\ cInode'[f].doc = cInode[f].doc
                                  /\ cInode'[f].synced /\ (cInode[f].whole /\ cInode[f].synced => cInode'[f].whole)
      /\ cInode' \in Seq(C!Files) /\ Len(cInode') = Len(cInode)
  <2>1. PICK lost \in SUBSET {f \in DOMAIN cInode : ~cInode[f].synced} :
           cInode' = [f \in DOMAIN cInode |->
                        [cInode[f] EXCEPT !.whole = @ /\ f \notin lost, !.synced = TRUE]]
    BY DEF C!PowerLoss
  <2>2. cInode \in Seq(C!Files) /\ DOMAIN cInode = 1..Len(cInode) /\ Len(cInode) \in Nat
    BY DEF C!CliTypes
  <2>3. DOMAIN cInode' = DOMAIN cInode
    BY <2>1
  <2>4. ASSUME NEW f \in DOMAIN cInode
        PROVE  /\ cInode'[f] \in C!Files /\ cInode'[f].doc = cInode[f].doc
               /\ cInode'[f].synced /\ (cInode[f].whole /\ cInode[f].synced => cInode'[f].whole)
    <3>1. cInode[f] \in C!Files
      BY <2>2
    <3>2. cInode'[f] = [cInode[f] EXCEPT !.whole = @ /\ f \notin lost, !.synced = TRUE]
      BY <2>1
    <3>3. cInode'[f] = [doc |-> cInode[f].doc, whole |-> cInode[f].whole /\ f \notin lost, synced |-> TRUE]
      BY <3>1, <3>2 DEF C!Files
    <3>4. cInode[f].synced => f \notin lost
      BY <2>1
    <3>5. cInode'[f] \in C!Files
      BY <3>1, <3>3 DEF C!Files
    <3>6. cInode'[f].synced
      BY <3>3
    <3>7. cInode'[f].doc = cInode[f].doc
      BY <3>3
    <3>8. cInode[f].whole /\ cInode[f].synced => cInode'[f].whole
      <4>1. cInode'[f].whole = (cInode[f].whole /\ f \notin lost)
        BY <3>3
      <4> QED
        BY <3>4, <4>1, Zenon
    <3> QED
      BY <3>5, <3>6, <3>7, <3>8
  <2>5. cInode' = [f \in 1..Len(cInode) |-> cInode'[f]]
    BY <2>1, <2>2
  <2>6. cInode' \in [1..Len(cInode) -> C!Files]
    BY <2>2, <2>4, <2>5
  <2>7. cInode' \in Seq(C!Files) /\ Len(cInode') = Len(cInode)
    BY <2>2, <2>6
  <2> QED
    BY <2>3, <2>4, <2>7
<1>n. \A f \in 0..Len(cInode) : f # 0 => f \in DOMAIN cInode
  BY DEF C!CliTypes
<1>m. /\ \A t \in C!Paths : cMight[t] \subseteq 0..Len(cInode)
      /\ \A q \in Procs : cTemp[q] \in 0..Len(cInode)
  BY DEF C!CliTypes
<1>1. C!CliTypes'
  <2>1. cPc' \in [Procs -> C!Steps]
    BY DEF C!PowerLoss, C!Steps
  <2>2. cOutcome' \in [Procs -> {C!None, "ok", "refused", "failed", "killed"}]
    BY DEF C!PowerLoss, C!CliTypes
  <2>3. cDir' \in [C!Paths -> 0..Len(cInode')]
    <3>1. \A t \in C!Paths : cDir'[t] \in 0..Len(cInode')
      BY <1>d, <1>i DEF C!CliTypes
    <3> QED
      BY <1>d, <3>1
  <2>4. /\ cMight' \in [C!Paths -> SUBSET (0..Len(cInode'))]
        /\ \A t \in C!Paths : cDir'[t] \in cMight'[t]
    BY <1>d, <2>3
  <2> QED
    BY <1>b, <1>i, <2>1, <2>2, <2>3, <2>4 DEF C!CliTypes
<1>r. \A q \in Procs : \A w : C!Reported(q, w)' <=> C!Reported(q, w)
  BY <1>p, <1>c DEF C!Reported, C!None
<1>2. (\A q \in Procs : C!Route(q))'
  <2> SUFFICES ASSUME NEW q \in Procs PROVE C!Route(q)'
    OBVIOUS
  <2> QED
    BY <1>p, <1>c DEF C!Route, C!None
<1>3. C!TempsApart'
  BY <1>p DEF C!TempsApart, C!Early, C!Private
<1>4. C!EntriesSturdy'
  <2>1. ASSUME NEW t \in C!Paths, NEW f \in cMight'[t], f # 0 PROVE C!Sturdy(f)'
    <3>1. C!Sturdy(f) /\ f \in DOMAIN cInode
      BY <1>d, <1>m, <1>n, <2>1 DEF C!EntriesSturdy
    <3>2. (C!Overwritten(f) => C!Overwritten(f)') /\ (C!Unsynced(f) => C!Unsynced(f)')
      BY <1>b, MarksStay
    <3> QED
      BY <1>i, <3>1, <3>2 DEF C!Sturdy
  <2> QED
    BY <1>p, <2>1 DEF C!EntriesSturdy, C!Private
<1>5. C!LogsReach'
  <2>1. \A q \in Procs : \A f : C!CameBefore(q, f)' <=> C!CameBefore(q, f)
    BY <1>b, <1>c DEF C!CameBefore
  <2> SUFFICES ASSUME NEW q \in Procs, C!Reported(q, "staged"), NEW f \in cMight'[C!Target(q)]
               PROVE  C!CameBefore(q, f)
    BY <1>p, <1>c, <1>r, <2>1 DEF C!LogsReach
  <2>2. C!Target(q) \in C!Paths
    BY Modes DEF C!Reported, C!Route, C!CliTypes
  <2> QED
    BY <1>d, <2>2 DEF C!LogsReach
<1>6. C!LooksStand'
  BY <1>p, <1>b, <1>c DEF C!LooksStand, C!CliTypes
<1>7. C!DryRunsApart'
  <2> SUFFICES ASSUME NEW d \in Procs, C!Mode(d) = "dry_run"
               PROVE  /\ \A t \in C!Paths : \A f \in cMight'[t] : f # 0 => d \notin cInode'[f].doc
                      /\ \A q \in Procs \ {d} : cTemp[q] # 0 => d \notin cInode'[cTemp[q]].doc
                      /\ cOutcome'[d] # "killed" => cTemp[d] = 0
    BY <1>b, <1>c, <1>p DEF C!DryRunsApart
  <2>1. \A t \in C!Paths : \A f \in cMight'[t] : f # 0 => d \notin cInode'[f].doc
    BY ZenonT(60), <1>d, <1>i, <1>m, <1>n DEF C!DryRunsApart
  <2>2. \A q \in Procs \ {d} : cTemp[q] # 0 => d \notin cInode'[cTemp[q]].doc
    BY <1>i, <1>m, <1>n DEF C!DryRunsApart
  <2>3. cOutcome'[d] # "killed" => cTemp[d] = 0
    <3>1. cOutcome'[d] # "killed" => cOutcome[d] # C!None /\ cOutcome[d] # "killed"
      BY <1>p
    <3> QED
      BY <3>1 DEF C!DryRunsApart, C!Route
  <2> QED
    BY <2>1, <2>2, <2>3
<1>8. (\A q \in Procs : C!Delivered(q))'
  <2> SUFFICES ASSUME NEW q \in Procs PROVE C!Delivered(q)'
    OBVIOUS
  <2>1. ASSUME NEW f, C!Overwritten(f) PROVE C!Overwritten(f)'
    BY <1>b, <2>1, MarksStay
  <2>2. cTemp[q] # 0 => cInode'[cTemp[q]].doc = cInode[cTemp[q]].doc
    BY <1>i DEF C!CliTypes
  <2> QED
    BY <1>b, <1>p, <1>r, <2>1, <2>2 DEF C!Delivered
<1> QED
  BY <1>1, <1>2, <1>3, <1>4, <1>5, <1>6, <1>7, <1>8

LEMMA CliStep ==
  ASSUME C!CliInv, C!Next
  PROVE  C!CliInv'
<1>c. cCall' = cCall
  BY DEF C!Next
<1>1. ASSUME NEW p \in Procs, C!Step(p) PROVE C!CliInv'
  BY <1>c, <1>1, BeginKeeps, ResolveKeeps, CheckKeeps, StageKeeps, ApplyKeeps, SyncKeeps, ReplaceKeeps,
     SyncDirKeeps, HashKeeps, ExecuteKeeps, ExportCheckKeeps, RenameKeeps, RemoveOutputKeeps, RewriteKeeps,
     DirectKeeps, RewrittenKeeps DEF C!Step
<1> QED
  BY <1>c, <1>1, IoErrorKeeps, KillKeeps, PowerLossKeeps DEF C!Next

LEMMA CliStart ==
  ASSUME C!Init
  PROVE  C!CliInv
<1> DEFINE a == [doc |-> {}, whole |-> TRUE, synced |-> TRUE]
           b == [doc |-> {0}, whole |-> TRUE, synced |-> TRUE]
<1>1. PICK present \in BOOLEAN :
         /\ cDir = [t \in C!Paths |-> IF t = "src" THEN 1 ELSE IF present THEN 2 ELSE 0]
         /\ cInode = <<a, b>>
  BY DEF C!Init
<1>2. a \in C!Files /\ b \in C!Files /\ a.whole /\ a.synced /\ b.whole /\ b.synced /\ a.doc = {} /\ b.doc = {0}
  BY DEF C!Files, C!Docs
<1> HIDE DEF a, b
<1>3. cInode \in Seq(C!Files) /\ Len(cInode) = 2 /\ cInode[1] = a /\ cInode[2] = b
  BY <1>1, <1>2
<1>4. \A t \in C!Paths : cDir[t] \in {0, 1, 2} /\ cMight[t] = {cDir[t]}
  BY <1>1 DEF C!Init
<1>5. \A p \in Procs : /\ cPc[p] = "begin" /\ cTemp[p] = 0 /\ cSeen[p] = {} /\ cBased[p] = {}
                       /\ cFound[p] = FALSE /\ cOutcome[p] = C!None
  BY DEF C!Init
<1>6. C!CliTypes
  <2>1. cDir \in [C!Paths -> 0..Len(cInode)]
    BY <1>1, <1>3
  <2>2. cMight \in [C!Paths -> SUBSET (0..Len(cInode))] /\ \A t \in C!Paths : cDir[t] \in cMight[t]
    BY <2>1 DEF C!Init
  <2>3. cLog \in [C!Paths -> Seq(Nat)]
    <3>1. \A t \in C!Paths : <<cDir[t]>> \in Seq(Nat)
      BY <1>4
    <3> QED
      BY <3>1 DEF C!Init
  <2>4. cPc \in [Procs -> C!Steps] /\ cTemp \in [Procs -> 0..Len(cInode)] /\ cFound \in [Procs -> BOOLEAN]
    BY <1>3 DEF C!Init, C!Steps, C!Early
  <2>5. cSeen \in [Procs -> C!Docs] /\ cBased \in [Procs -> C!Docs]
    BY DEF C!Init, C!Docs
  <2>6. cOutcome \in [Procs -> {C!None, "ok", "refused", "failed", "killed"}]
    BY DEF C!Init
  <2> QED
    BY <1>3, <2>1, <2>2, <2>3, <2>4, <2>5, <2>6 DEF C!CliTypes, C!Init
<1>7. \A p \in Procs : C!Route(p) /\ C!Delivered(p)
  BY <1>5 DEF C!Route, C!Delivered, C!Reported, C!None
<1>8. C!TempsApart
  BY <1>5 DEF C!TempsApart, C!Private
<1>9. C!EntriesSturdy
  <2>1. \A f \in {1, 2} : C!Sturdy(f)
    BY <1>2, <1>3 DEF C!Sturdy
  <2> QED
    BY <1>4, <1>5, <2>1 DEF C!EntriesSturdy, C!Private
<1>10. C!LogsReach /\ C!LooksStand
  BY <1>5 DEF C!LogsReach, C!LooksStand, C!Reported, C!None, C!Init
<1>11. C!DryRunsApart
  BY <1>2, <1>3, <1>4, <1>5, FilesAssumption DEF C!DryRunsApart
<1> QED
  BY <1>6, <1>7, <1>8, <1>9, <1>10, <1>11 DEF C!CliInv

\* The invariant says what was promised.
LEMMA CliPromises ==
  ASSUME C!CliInv
  PROVE  C!FilesStayWhole /\ C!ReportedWriteSurvives /\ C!NothingReplacedUnasked /\ C!AnswersMatchTheFiles
<1> USE DEF C!CliInv
<1>x. \A f : C!Overwritten(f) => C!Exposed(f)
  BY DEF C!Overwritten, C!Exposed
<1>1. C!FilesStayWhole
  <2> SUFFICES ASSUME NEW t \in C!Paths, C!Exists(t), ~C!Exposed(cDir[t]) PROVE cInode[cDir[t]].whole
    BY DEF C!FilesStayWhole
  <2>1. C!Sturdy(cDir[t])
    BY DEF C!EntriesSturdy, C!CliTypes, C!Exists
  <2>2. C!Unsynced(cDir[t]) /\ cInode[cDir[t]].synced => C!Exposed(cDir[t])
    BY DEF C!Unsynced, C!Exposed
  <2> QED
    BY <1>x, <2>1, <2>2 DEF C!Sturdy
<1>2. C!ReportedWriteSurvives
  <2> SUFFICES ASSUME NEW p \in Procs, C!Reported(p, "staged")
               PROVE  C!CameBefore(p, cDir[C!Target(p)])
    BY DEF C!ReportedWriteSurvives, C!Reported, C!CameBefore
  <2>1. C!Target(p) \in C!Paths
    BY Modes DEF C!Reported, C!Route, C!CliTypes
  <2> QED
    BY <2>1 DEF C!LogsReach, C!CliTypes
<1>3. C!NothingReplacedUnasked
  BY DEF C!NothingReplacedUnasked, C!LooksStand
<1>4. C!AnswersMatchTheFiles
  <2>1. ASSUME NEW p \in Procs, C!Mode(p) = "dry_run"
        PROVE  /\ \A t \in C!Paths : C!Exists(t) => p \notin C!Content(t)
               /\ cPc[p] = "done" /\ cOutcome[p] # "killed" => cTemp[p] = 0
    BY <2>1, SourceIsNobodysDryRun DEF C!DryRunsApart
  <2>2. ASSUME NEW p \in Procs, C!Reported(p, "machine")
        PROVE  cInode[cTemp[p]].doc = cSeen[p] \cup {p} \/ C!Exposed(cTemp[p])
    BY <1>x, <2>2 DEF C!Delivered
  <2>3. ASSUME NEW p \in Procs, C!Reported(p, "staged")
        PROVE  \/ C!Changed(cCall[p]) \/ cInode[cTemp[p]].doc = cBased[p] \/ C!Exposed(cTemp[p])
               \/ \E o \in C!Kept(cCall[p]) : o.kind \in C!Uncounted
    BY <1>x, <2>3 DEF C!Delivered
  <2> QED
    BY <2>1, <2>2, <2>3 DEF C!AnswersMatchTheFiles, C!Reported
<1> QED
  BY <1>1, <1>2, <1>3, <1>4

\* Command line processes: the inductive invariant, and what it is for.
THEOREM CommandInvariant == FilesSpec => [](part = "cli" => C!CliInv)
<1> DEFINE Inv == part = "cli" => C!CliInv
<1>1. FilesInit => Inv
  BY CliStart DEF FilesInit
<1>2. Inv /\ [FilesNext]_all => Inv'
  <2> SUFFICES ASSUME Inv, [FilesNext]_all PROVE Inv'
    OBVIOUS
  <2>1. CASE FilesNext
    BY <2>1, CliStep DEF FilesNext
  <2>2. CASE UNCHANGED all
    <3>1. UNCHANGED <<part, cli>>
      BY <2>2 DEF all
    <3> QED
      BY <3>1, CliStutters
  <2> QED
    BY <2>1, <2>2
<1> QED
  BY <1>1, <1>2, PTL DEF FilesSpec

\* CommandsKeepTheirWord, with the exceptions it names: what a staged command writes is
\* complete, survives once reported and replaces nothing unasked, and what `asp` says of
\* the files is true of them, for any number of processes, command lines, failing calls,
\* kills and power losses.
THEOREM CommandsKept == FilesSpec => []CommandsKeepTheirWord
<1>1. (part = "cli" => C!CliInv) => CommandsKeepTheirWord
  BY CliPromises DEF CommandsKeepTheirWord
<1> QED
  BY <1>1, CommandInvariant, PTL


-----------------------------------------------------------------------------
(* Legacy sessions: every step keeps LegacyInv.                             *)

LEMMA LeastPlace ==
  ASSUME NEW S \in SUBSET Nat, S # {}
  PROVE  L!Min(S) \in S
<1> DEFINE R == OpToRel(<, Nat)
<1>1. IsWellFoundedOn(R, Nat)
  BY NatLessThanWellFounded
<1>2. \E x \in S : \A y \in S : ~(<<y, x>> \in R)
  BY <1>1, WFMin
<1>3. \A x, y \in Nat : y < x => <<y, x>> \in R
  BY DEF OpToRel
<1> HIDE DEF R
<1>4. PICK x \in S : \A y \in S : ~(<<y, x>> \in R)
  BY <1>2
<1>5. ASSUME NEW y \in S PROVE x <= y
  <2>1. ~(<<y, x>> \in R) /\ x \in Nat /\ y \in Nat
    BY <1>4
  <2>2. ~(y < x)
    BY <1>3, <2>1
  <2> QED
    BY <2>1, <2>2
<1> QED
  BY <1>5 DEF L!Min

\* Tables map numbers to numbers.
LEMMA TableParts ==
  ASSUME NEW m
  PROVE  m \in L!Tables <=> /\ DOMAIN m \subseteq Nat /\ m = [b \in DOMAIN m |-> m[b]]
                            /\ \A b \in DOMAIN m : m[b] \in Nat
<1>1. ASSUME m \in L!Tables
      PROVE  /\ DOMAIN m \subseteq Nat /\ m = [b \in DOMAIN m |-> m[b]]
             /\ \A b \in DOMAIN m : m[b] \in Nat
  <2>1. PICK S \in SUBSET Nat : m \in [S -> Nat]
    BY <1>1 DEF L!Tables
  <2> QED
    BY <2>1
<1>2. ASSUME DOMAIN m \subseteq Nat, m = [b \in DOMAIN m |-> m[b]], \A b \in DOMAIN m : m[b] \in Nat
      PROVE  m \in L!Tables
  <2>1. m \in [DOMAIN m -> Nat]
    BY <1>2
  <2> QED
    BY <1>2, <2>1 DEF L!Tables
<1> QED
  BY <1>1, <1>2

\* The events are the numbers up to the length of the log.
LEMMA Numbered ==
  ASSUME L!LegacyTypes, L!LogOrdered
  PROVE  /\ Len(lLog) \in Nat /\ DOMAIN lLog = 1..Len(lLog)
         /\ L!Ids \cup {L!None} = L!Places /\ L!Ids = 1..Len(lLog)
         /\ \A i \in DOMAIN lLog : lLog[i] \in L!Events
         /\ \A e \in L!Ids : L!Event(e).parent \in L!Places
<1>1. Len(lLog) \in Nat /\ DOMAIN lLog = 1..Len(lLog) /\ \A i \in DOMAIN lLog : lLog[i] \in L!Events
  BY DEF L!LegacyTypes
<1>2. L!Ids = 1..Len(lLog)
  BY <1>1 DEF L!Ids, L!LogOrdered
<1>3. ASSUME NEW e \in L!Ids PROVE L!Event(e).parent \in L!Places
  <2> DEFINE i == CHOOSE i \in DOMAIN lLog : lLog[i].id = e
  <2>1. \E j \in DOMAIN lLog : lLog[j].id = e
    BY DEF L!Ids
  <2>2. i \in DOMAIN lLog
    BY <2>1
  <2>3. L!Event(e) = lLog[i]
    BY DEF L!Event
  <2> HIDE DEF i
  <2>4. lLog[i].parent \in Nat /\ lLog[i].parent < i /\ i \in 1..Len(lLog)
    BY <1>1, <2>2 DEF L!LogOrdered, L!Events
  <2> QED
    BY <1>1, <2>3, <2>4 DEF L!Places
<1> QED
  BY <1>1, <1>2, <1>3 DEF L!Places, L!None

LEMMA IdleState ==
  /\ << >> \in L!Tables /\ L!Idle \in L!TaskStates
  /\ L!Idle.pc = "idle" /\ L!Idle.id = 0 /\ L!Idle.tips = << >> /\ L!Idle.parent = 0 /\ L!Idle.prev = L!None
<1> DEFINE e == << >>
<1>1. e \in L!Tables
  <2>1. << >> \in [{} -> Nat]
    OBVIOUS
  <2> QED
    BY <2>1 DEF L!Tables
<1>2. L!Idle = [pc |-> "idle", call |-> "none", id |-> 0, parent |-> 0, prev |-> 0, tips |-> e]
  BY DEF L!Idle, L!None
<1> HIDE DEF e
<1>3. L!Idle \in L!TaskStates
  BY <1>1, <1>2 DEF L!TaskStates, L!Stages, L!Kinds
<1>4. L!Idle.pc = "idle" /\ L!Idle.id = 0 /\ L!Idle.tips = e /\ L!Idle.parent = 0 /\ L!Idle.prev = L!None
  BY <1>2 DEF L!None
<1> QED
  BY <1>1, <1>3, <1>4 DEF e

\* A step of one process that appends nothing: what it leaves behind must not be
\* ahead of the log, and it seals only under the lock.
LEMMA QuietLegacyStep ==
  ASSUME L!LegacyInv, lLoad' = lLoad, lLog' = lLog, NEW t \in Tasks, NEW s \in L!TaskStates,
         lTask' = [lTask EXCEPT ![t] = s],
         lTorn' \in {lTorn, TRUE}, lHead' \in Nat, lBranches' \in L!Tables,
         ~lTorn => lHead' \in L!Places /\ \A b \in DOMAIN lBranches' : lBranches'[b] \in L!Places,
         ~lTorn => s.id \in L!Places /\ \A b \in DOMAIN s.tips : s.tips[b] \in L!Places,
         \/ lLock' = lLock
         \/ lLock = L!None /\ lLock' = t
         \/ lLock = t /\ lLock' = L!None,
         s.pc \in {"seal", "line"} => lLock' = t /\ s.parent \in L!Places,
         s.pc = "line" /\ s.parent # L!None => s.prev = Len(lLog),
         s.pc = "seal" \/ (s.pc = "line" /\ s.parent = L!None) => s.prev = L!None
  PROVE  L!LegacyInv'
<1> USE DEF L!LegacyInv
<1>t. lTask'[t] = s /\ \A q \in Tasks : q # t => lTask'[q] = lTask[q]
  BY DEF L!LegacyTypes
<1>n. \A q \in Tasks : q # L!None
  BY FilesAssumption DEF L!None
<1>p. L!Places' = L!Places
  BY DEF L!Places
<1>1. L!LegacyTypes'
  <2>1. lTask' \in [Tasks -> L!TaskStates]
    BY DEF L!LegacyTypes
  <2>2. lLock' \in Tasks \cup {L!None}
    BY DEF L!LegacyTypes
  <2>3. lTorn' \in BOOLEAN
    BY DEF L!LegacyTypes
  <2> QED
    BY <2>1, <2>2, <2>3 DEF L!LegacyTypes
<1>2. L!LogOrdered'
  BY DEF L!LogOrdered
<1>3. L!Sealing'
  <2> SUFFICES ASSUME NEW q \in Tasks
               PROVE  /\ lTask'[q].pc \in {"seal", "line"} => lLock' = q /\ lTask'[q].parent \in L!Places
                      /\ lTask'[q].pc = "line" /\ lTask'[q].parent # L!None => lTask'[q].prev = Len(lLog)
                      /\ lTask'[q].pc = "seal" \/ (lTask'[q].pc = "line" /\ lTask'[q].parent = L!None) => lTask'[q].prev = L!None
    BY <1>p DEF L!Sealing
  <2>1. CASE q = t
    BY <1>t, <2>1
  <2>2. CASE q # t
    BY <1>t, <1>n, <2>2 DEF L!Sealing
  <2> QED
    BY <2>1, <2>2
<1>4. L!PointersFollow'
  <2> SUFFICES ASSUME lTorn' = FALSE
               PROVE  /\ lHead' \in L!Places /\ \A b \in DOMAIN lBranches' : lBranches'[b] \in L!Places
                      /\ \A q \in Tasks : /\ lTask'[q].id \in L!Places
                                          /\ \A b \in DOMAIN lTask'[q].tips : lTask'[q].tips[b] \in L!Places
    BY <1>p, <1>1 DEF L!PointersFollow, L!LegacyTypes
  <2>1. ~lTorn
    OBVIOUS
  <2> QED
    BY <1>t, <2>1 DEF L!PointersFollow
<1> QED
  BY <1>1, <1>2, <1>3, <1>4

\* The state of a process, and one that moves on to another stage.
LEMMA TaskParts ==
  ASSUME L!LegacyInv, NEW t \in Tasks, NEW x \in L!Stages
  PROVE  /\ lTask[t] \in L!TaskStates /\ [lTask[t] EXCEPT !.pc = x] \in L!TaskStates
         /\ [lTask[t] EXCEPT !.pc = x].pc = x /\ [lTask[t] EXCEPT !.pc = x].id = lTask[t].id
         /\ [lTask[t] EXCEPT !.pc = x].tips = lTask[t].tips /\ [lTask[t] EXCEPT !.pc = x].parent = lTask[t].parent
         /\ [lTask[t] EXCEPT !.pc = x].prev = lTask[t].prev
         /\ lTask[t].id \in Nat /\ lTask[t].parent \in Nat /\ lTask[t].tips \in L!Tables
         /\ ~lTorn => lTask[t].id \in L!Places /\ \A b \in DOMAIN lTask[t].tips : lTask[t].tips[b] \in L!Places
<1>1. lTask[t] \in L!TaskStates
  BY DEF L!LegacyInv, L!LegacyTypes
<1>2. ~lTorn => lTask[t].id \in L!Places /\ \A b \in DOMAIN lTask[t].tips : lTask[t].tips[b] \in L!Places
  BY DEF L!LegacyInv, L!PointersFollow
<1> QED
  BY <1>1, <1>2 DEF L!TaskStates

\* A process ends its call.
LEMMA LegacyReturn ==
  ASSUME L!LegacyInv, lLoad' = lLoad, lLog' = lLog, NEW t \in Tasks, L!Return(t),
         lTorn' \in {lTorn, TRUE}, lHead' \in Nat, lBranches' \in L!Tables,
         ~lTorn => lHead' \in L!Places /\ \A b \in DOMAIN lBranches' : lBranches'[b] \in L!Places,
         lLock' = lLock \/ L!Unlocked(t)
  PROVE  L!LegacyInv'
<1>1. 0 \in L!Places
  BY DEF L!LegacyInv, L!LegacyTypes, L!Places
<1>2. \A b \in DOMAIN << >> : FALSE
  OBVIOUS
<1>3. lTask' = [lTask EXCEPT ![t] = L!Idle]
  BY DEF L!Return
<1>4. lLock' = lLock \/ (lLock = t /\ lLock' = L!None)
  BY DEF L!Unlocked
<1>5. L!Idle.id \in L!Places /\ \A b \in DOMAIN L!Idle.tips : L!Idle.tips[b] \in L!Places
  BY <1>1, <1>2, IdleState
<1> QED
  BY <1>3, <1>4, <1>5, IdleState, QuietLegacyStep

\* A process goes on to another stage.
LEMMA LegacyMove ==
  ASSUME L!LegacyInv, lLoad' = lLoad, lLog' = lLog, NEW t \in Tasks, NEW x \in L!Stages \ {"seal", "line"}, L!Move(t, x),
         lTorn' = lTorn, lLock' = lLock, lHead' \in Nat, lBranches' \in L!Tables,
         ~lTorn => lHead' \in L!Places /\ \A b \in DOMAIN lBranches' : lBranches'[b] \in L!Places
  PROVE  L!LegacyInv'
<1> DEFINE s == [lTask[t] EXCEPT !.pc = x]
<1>1. /\ s \in L!TaskStates /\ s.pc = x
      /\ ~lTorn => s.id \in L!Places /\ \A b \in DOMAIN s.tips : s.tips[b] \in L!Places
  BY TaskParts
<1>2. lTask' = [lTask EXCEPT ![t] = s]
  BY DEF L!Move
<1> HIDE DEF s
<1> QED
  BY <1>1, <1>2, QuietLegacyStep

\* HEAD and the branches as they are.
LEMMA PointersNow ==
  ASSUME L!LegacyInv
  PROVE  /\ lHead \in Nat /\ lBranches \in L!Tables /\ 0 \in L!Places /\ lTorn \in BOOLEAN
         /\ ~lTorn => lHead \in L!Places /\ \A b \in DOMAIN lBranches : lBranches[b] \in L!Places
BY DEF L!LegacyInv, L!LegacyTypes, L!PointersFollow, L!Places


\* A process begins a call.
LEMMA LegacyStart ==
  ASSUME L!LegacyInv, lLoad' = lLoad, NEW t \in Tasks, UNCHANGED L!session, NEW s \in L!TaskStates, L!Begin(t, s),
         lLock' = lLock \/ (lLock = L!None /\ lLock' = t),
         s.pc # "line", s.pc = "seal" => lLock' = t /\ s.parent \in L!Places /\ s.prev = L!None,
         ~lTorn => s.id \in L!Places /\ \A b \in DOMAIN s.tips : s.tips[b] \in L!Places
  PROVE  L!LegacyInv'
<1>1. lTask' = [lTask EXCEPT ![t] = s]
  BY DEF L!Begin
<1>2. lLog' = lLog /\ lTorn' = lTorn /\ lHead' = lHead /\ lBranches' = lBranches
  BY DEF L!session
<1> QED
  BY <1>1, <1>2, PointersNow, QuietLegacyStep

\* A table without entries.
LEMMA NoEntries ==
  << >> \in L!Tables /\ \A b \in DOMAIN << >> : FALSE
BY IdleState

\* The state of a process between calls.
LEMMA IdleParts ==
  L!Idle \in L!TaskStates /\ L!Idle.id = 0 /\ DOMAIN L!Idle.tips = {} /\ L!Idle.prev = L!None
BY IdleState, NoEntries

LEMMA LockKeeps ==
  ASSUME L!LegacyInv, lLoad' = lLoad, NEW t \in Tasks, L!Lock(t)
  PROVE  L!LegacyInv'
<1>1. PICK p \in L!Ids \cup {L!None} : L!Begin(t, [L!Idle EXCEPT !.pc = "seal", !.call = "append", !.parent = p])
  BY DEF L!Lock
<1>2. p \in L!Places /\ p \in Nat
  BY Numbered DEF L!LegacyInv, L!Places
<1>r. PICK r : r = L!Idle
  OBVIOUS
<1>i. r \in L!TaskStates /\ r.id = 0 /\ DOMAIN r.tips = {} /\ r.prev = L!None
  BY <1>r, IdleParts
<1> DEFINE s == [r EXCEPT !.pc = "seal", !.call = "append", !.parent = p]
<1>k. "seal" \in L!Stages /\ "append" \in L!Kinds
  BY DEF L!Stages, L!Kinds
<1>3. s \in L!TaskStates /\ s.pc = "seal" /\ s.parent = p /\ s.id = 0 /\ DOMAIN s.tips = {} /\ s.prev = L!None
  BY <1>2, <1>k, <1>i DEF L!TaskStates
<1>4. L!Begin(t, s)
  BY <1>1, <1>r
<1> HIDE DEF s
<1>5. lLock = L!None /\ lLock' = t /\ UNCHANGED L!session
  BY DEF L!Lock
<1> QED
  BY <1>2, <1>3, <1>4, <1>5, PointersNow, LegacyStart

LEMMA CreateBranchKeeps ==
  ASSUME L!LegacyInv, lLoad' = lLoad, NEW t \in Tasks, L!CreateBranch(t)
  PROVE  L!LegacyInv'
<1>1. PICK b \in L!Names \ DOMAIN lBranches, point \in L!Ids \cup {L!None} :
         L!Begin(t, [L!Idle EXCEPT !.pc = "empty_branches", !.call = "create_branch",
                                   !.tips = [n \in DOMAIN lBranches \cup {b} |->
                                               IF n = b THEN point ELSE lBranches[n]]])
  BY DEF L!CreateBranch
<1> DEFINE m == [n \in DOMAIN lBranches \cup {b} |-> IF n = b THEN point ELSE lBranches[n]]
<1>2. point \in L!Places /\ point \in Nat /\ b \in Nat
  BY Numbered, FilesAssumption DEF L!LegacyInv, L!Places, L!Names, L!LegacyTypes
<1>3. DOMAIN lBranches \subseteq Nat /\ \A n \in DOMAIN lBranches : lBranches[n] \in Nat
  BY PointersNow, TableParts
<1>4. m \in L!Tables
  <2>1. m \in [DOMAIN lBranches \cup {b} -> Nat] /\ DOMAIN lBranches \cup {b} \in SUBSET Nat
    BY <1>2, <1>3
  <2> HIDE DEF m
  <2> QED
    BY <2>1 DEF L!Tables
<1>5. ~lTorn => \A n \in DOMAIN m : m[n] \in L!Places
  BY <1>2, PointersNow
<1>r. PICK r : r = L!Idle
  OBVIOUS
<1>i. r \in L!TaskStates /\ r.id = 0 /\ DOMAIN r.tips = {}
  BY <1>r, IdleParts
<1> DEFINE s == [r EXCEPT !.pc = "empty_branches", !.call = "create_branch", !.tips = m]
<1>6. L!Begin(t, s)
  BY <1>1, <1>r
<1> HIDE DEF m
<1>k. "empty_branches" \in L!Stages /\ "create_branch" \in L!Kinds
  BY DEF L!Stages, L!Kinds
<1>7. s \in L!TaskStates /\ s.pc = "empty_branches" /\ s.id = 0 /\ s.tips = m
  BY <1>4, <1>k, <1>i DEF L!TaskStates
<1> HIDE DEF s
<1>8. lLock' = lLock /\ UNCHANGED L!session
  BY DEF L!CreateBranch
<1> QED
  BY <1>5, <1>6, <1>7, <1>8, PointersNow, LegacyStart

LEMMA SwitchBranchKeeps ==
  ASSUME L!LegacyInv, lLoad' = lLoad, NEW t \in Tasks, L!SwitchBranch(t)
  PROVE  L!LegacyInv'
<1>1. PICK b \in DOMAIN lBranches :
         L!Begin(t, [L!Idle EXCEPT !.pc = "empty_current", !.call = "switch_branch", !.parent = b,
                                   !.id = lBranches[b]])
  BY DEF L!SwitchBranch
<1>2. b \in Nat /\ lBranches[b] \in Nat /\ (~lTorn => lBranches[b] \in L!Places)
  BY PointersNow, TableParts
<1>r. PICK r : r = L!Idle
  OBVIOUS
<1>i. r \in L!TaskStates /\ r.id = 0 /\ DOMAIN r.tips = {}
  BY <1>r, IdleParts
<1> DEFINE s == [r EXCEPT !.pc = "empty_current", !.call = "switch_branch", !.parent = b, !.id = lBranches[b]]
<1>k. "empty_current" \in L!Stages /\ "switch_branch" \in L!Kinds
  BY DEF L!Stages, L!Kinds
<1>3. s \in L!TaskStates /\ s.pc = "empty_current" /\ s.id = lBranches[b] /\ DOMAIN s.tips = {}
  BY <1>2, <1>k, <1>i DEF L!TaskStates
<1>4. L!Begin(t, s)
  BY <1>1, <1>r
<1> HIDE DEF s
<1>5. lLock' = lLock /\ UNCHANGED L!session
  BY DEF L!SwitchBranch
<1> QED
  BY <1>2, <1>3, <1>4, <1>5, LegacyStart

\* undo, redo and checkout go to an event of the log or to its parent.
LEMMA GoKeeps ==
  ASSUME L!LegacyInv, lLoad' = lLoad, NEW t \in Tasks, NEW c \in L!Kinds, NEW i \in L!Places,
         L!Begin(t, [L!Idle EXCEPT !.pc = "empty_head", !.call = c, !.id = i]),
         UNCHANGED L!session, lLock' = lLock
  PROVE  L!LegacyInv'
<1>1. i \in Nat
  BY DEF L!Places
<1>r. PICK r : r = L!Idle
  OBVIOUS
<1>i. r \in L!TaskStates /\ r.id = 0 /\ DOMAIN r.tips = {}
  BY <1>r, IdleParts
<1> DEFINE s == [r EXCEPT !.pc = "empty_head", !.call = c, !.id = i]
<1>k. "empty_head" \in L!Stages
  BY DEF L!Stages
<1>2. s \in L!TaskStates /\ s.pc = "empty_head" /\ s.id = i /\ DOMAIN s.tips = {}
  BY <1>1, <1>k, <1>i DEF L!TaskStates
<1>3. L!Begin(t, s)
  BY <1>r
<1> HIDE DEF s
<1> QED
  BY <1>2, <1>3, LegacyStart

LEMMA UndoKeeps ==
  ASSUME L!LegacyInv, lLoad' = lLoad, NEW t \in Tasks, L!Undo(t)
  PROVE  L!LegacyInv'
<1>1. L!Event(lHead).parent \in L!Places
  BY Numbered DEF L!Undo, L!Sound, L!LegacyInv
<1> QED
  BY <1>1, GoKeeps DEF L!Undo, L!Kinds

LEMMA RedoKeeps ==
  ASSUME L!LegacyInv, lLoad' = lLoad, NEW t \in Tasks, L!Redo(t)
  PROVE  L!LegacyInv'
<1> DEFINE next == {i \in L!Returned : lHead = L!None \/ lLog[i].parent = lHead}
<1>1. L!RedoTarget = IF next = {} THEN L!None ELSE lLog[L!Min(next)].id
  BY DEF L!RedoTarget
<1>2. next \subseteq DOMAIN lLog /\ next \in SUBSET Nat
  BY Numbered DEF L!Returned, L!LegacyInv
<1> HIDE DEF next
<1>3. next # {} => L!Min(next) \in DOMAIN lLog
  BY <1>2, LeastPlace
<1>4. \A i \in DOMAIN lLog : lLog[i].id \in L!Places
  BY Numbered DEF L!LegacyInv, L!LogOrdered, L!Places
<1>5. L!RedoTarget \in L!Places
  BY <1>1, <1>3, <1>4, PointersNow DEF L!None
<1> QED
  BY <1>5, GoKeeps DEF L!Redo, L!Kinds

LEMMA CheckoutKeeps ==
  ASSUME L!LegacyInv, lLoad' = lLoad, NEW t \in Tasks, L!Checkout(t)
  PROVE  L!LegacyInv'
<1>1. PICK i \in L!Returned : L!Begin(t, [L!Idle EXCEPT !.pc = "empty_head", !.call = "checkout", !.id = lLog[i].id])
  BY DEF L!Checkout
<1>2. lLog[i].id \in L!Places
  BY Numbered DEF L!LegacyInv, L!LogOrdered, L!Places, L!Returned
<1> QED
  BY <1>1, <1>2, GoKeeps DEF L!Checkout, L!Kinds


LEMMA SealKeeps ==
  ASSUME L!LegacyInv, lLoad' = lLoad, NEW t \in Tasks, L!Seal(t)
  PROVE  L!LegacyInv'
<1>b. lLog' = lLog /\ lTorn' = lTorn /\ lHead' = lHead /\ lBranches' = lBranches
  BY DEF L!Seal, L!session
<1>o. lTask[t].pc = "seal" /\ lLock = t /\ lTask[t].parent \in L!Places /\ lTask[t].prev = L!None
  BY DEF L!Seal, L!LegacyInv, L!Sealing
<1>n. Len(lLog) \in Nat /\ DOMAIN lLog = 1..Len(lLog) /\ "line" \in L!Stages
  BY Numbered DEF L!LegacyInv, L!Stages
<1>1. CASE L!Return(t) /\ L!Unlocked(t)
  BY <1>1, <1>b, PointersNow, LegacyReturn
<1>2. CASE lTask[t].parent = L!None /\ L!Move(t, "line") /\ lLock' = lLock
  <2>r. PICK r : r = lTask[t]
    OBVIOUS
  <2> DEFINE s == [r EXCEPT !.pc = "line"]
  <2>1. /\ s \in L!TaskStates /\ s.pc = "line" /\ s.parent = L!None /\ s.prev = lTask[t].prev
        /\ ~lTorn => s.id \in L!Places /\ \A b \in DOMAIN s.tips : s.tips[b] \in L!Places
    BY <1>2, <1>n, <2>r, TaskParts
  <2>2. lTask' = [lTask EXCEPT ![t] = s]
    BY <1>2, <2>r DEF L!Move
  <2> HIDE DEF s
  <2>3. s.parent \in L!Places
    BY <2>1, <1>o, <1>2
  <2> QED
    BY <1>2, <1>b, <1>o, <2>1, <2>2, <2>3, PointersNow, QuietLegacyStep
<1>3. CASE /\ lTask[t].parent # L!None /\ lLock' = lLock
           /\ lTask' = [lTask EXCEPT ![t].pc = "line", ![t].prev = L!Last(lLog).id]
  <2>1. lLog # << >> /\ Len(lLog) \in DOMAIN lLog
    BY <1>3, <1>o, <1>n DEF L!Places, L!None
  <2>2. L!Last(lLog).id = Len(lLog)
    BY <2>1 DEF L!Last, L!LegacyInv, L!LogOrdered
  <2>r. PICK r : r = lTask[t]
    OBVIOUS
  <2>p. PICK k : k = Len(lLog)
    OBVIOUS
  <2>i. /\ r \in L!TaskStates /\ r.parent = lTask[t].parent
        /\ ~lTorn => r.id \in L!Places /\ \A b \in DOMAIN r.tips : r.tips[b] \in L!Places
    BY <1>n, <2>r, TaskParts
  <2> DEFINE s == [r EXCEPT !.pc = "line", !.prev = k]
  <2>3. s \in L!TaskStates /\ s.pc = "line" /\ s.parent = r.parent /\ s.prev = k /\ s.id = r.id /\ s.tips = r.tips
    BY <1>n, <2>i, <2>p DEF L!TaskStates
  <2>4. lTask' = [lTask EXCEPT ![t] = [[lTask[t] EXCEPT !.pc = "line"] EXCEPT !.prev = k]]
    BY <1>3, <2>2, <2>p DEF L!LegacyInv, L!LegacyTypes
  <2>5. lTask' = [lTask EXCEPT ![t] = s]
    BY <2>4, <2>r
  <2> HIDE DEF s
  <2> QED
    BY ZenonT(60), <1>3, <1>b, <1>o, <2>i, <2>p, <2>3, <2>5, PointersNow, QuietLegacyStep
<1> QED
  BY <1>1, <1>2, <1>3 DEF L!Seal

LEMMA PreconditionKeeps ==
  ASSUME L!LegacyInv, lLoad' = lLoad, NEW t \in Tasks, L!Precondition(t)
  PROVE  L!LegacyInv'
BY PointersNow, LegacyReturn DEF L!Precondition, L!session

LEMMA EmptyHeadKeeps ==
  ASSUME L!LegacyInv, lLoad' = lLoad, NEW t \in Tasks, L!EmptyHead(t)
  PROVE  L!LegacyInv'
<1>1. "write_head" \in L!Stages \ {"seal", "line"}
  BY DEF L!Stages
<1> QED
  BY <1>1, PointersNow, LegacyMove DEF L!EmptyHead, L!None

LEMMA WriteHeadKeeps ==
  ASSUME L!LegacyInv, lLoad' = lLoad, NEW t \in Tasks, L!WriteHead(t)
  PROVE  L!LegacyInv'
<1>1. "load" \in L!Stages \ {"seal", "line"}
  BY DEF L!Stages
<1>2. lHead' \in Nat /\ (~lTorn => lHead' \in L!Places)
  BY <1>1, TaskParts DEF L!WriteHead
<1> QED
  BY <1>1, <1>2, PointersNow, LegacyMove, LegacyReturn DEF L!WriteHead

LEMMA LoadKeeps ==
  ASSUME L!LegacyInv, lLoad' = lLoad, NEW t \in Tasks, L!Load(t)
  PROVE  L!LegacyInv'
<1>b. lLog' = lLog /\ lTorn' = lTorn /\ lHead' = lHead /\ lBranches' = lBranches
  BY DEF L!Load, L!session
<1> DEFINE m == IF lCurrent \in DOMAIN lBranches THEN [lBranches EXCEPT ![lCurrent] = lTask[t].id] ELSE lBranches
<1>1. CASE L!Return(t) /\ L!Unlocked(t)
  BY <1>1, <1>b, PointersNow, LegacyReturn
<1>2. CASE /\ lTask' = [lTask EXCEPT ![t].pc = "empty_branches", ![t].tips = m]
           /\ lLock' = lLock
  <2>k. "empty_branches" \in L!Stages
    BY DEF L!Stages
  <2>i. /\ lTask[t] \in L!TaskStates /\ lTask[t].id \in Nat
        /\ ~lTorn => lTask[t].id \in L!Places
    BY <2>k, TaskParts
  <2>1. m \in L!Tables
    <3>1. PICK S \in SUBSET Nat : lBranches \in [S -> Nat]
      BY PointersNow DEF L!Tables
    <3>2. m \in [S -> Nat]
      BY <3>1, <2>i
    <3> HIDE DEF m
    <3> QED
      BY <3>2 DEF L!Tables
  <2>2. ~lTorn => \A b \in DOMAIN m : m[b] \in L!Places
    BY <2>i, PointersNow
  <2>r. PICK r : r = lTask[t]
    OBVIOUS
  <2>m. PICK mm : mm = m
    OBVIOUS
  <2> DEFINE s == [r EXCEPT !.pc = "empty_branches", !.tips = mm]
  <2> HIDE DEF m
  <2>3. s \in L!TaskStates /\ s.pc = "empty_branches" /\ s.id = r.id /\ s.tips = mm
    BY <2>k, <2>i, <2>r, <2>m, <2>1 DEF L!TaskStates
  <2>4. lTask' = [lTask EXCEPT ![t] = s]
    <3>1. lTask' = [lTask EXCEPT ![t] = [[lTask[t] EXCEPT !.pc = "empty_branches"] EXCEPT !.tips = m]]
      BY <1>2 DEF L!LegacyInv, L!LegacyTypes
    <3> QED
      BY <3>1, <2>r, <2>m
  <2> HIDE DEF s
  <2> QED
    BY <1>2, <1>b, <2>i, <2>r, <2>m, <2>2, <2>3, <2>4, PointersNow, QuietLegacyStep
<1> QED
  BY <1>1, <1>2 DEF L!Load

LEMMA EmptyBranchesKeeps ==
  ASSUME L!LegacyInv, lLoad' = lLoad, NEW t \in Tasks, L!EmptyBranches(t)
  PROVE  L!LegacyInv'
<1>1. "write_branches" \in L!Stages \ {"seal", "line"}
  BY DEF L!Stages
<1>2. lBranches' \in L!Tables /\ \A b \in DOMAIN lBranches' : FALSE
  BY NoEntries DEF L!EmptyBranches, L!Unreadable
<1> QED
  BY <1>1, <1>2, PointersNow, LegacyMove DEF L!EmptyBranches

LEMMA WriteBranchesKeeps ==
  ASSUME L!LegacyInv, lLoad' = lLoad, NEW t \in Tasks, L!WriteBranches(t)
  PROVE  L!LegacyInv'
<1>1. "idle" \in L!Stages
  BY DEF L!Stages
<1>2. lBranches' \in L!Tables /\ (~lTorn => \A b \in DOMAIN lBranches' : lBranches'[b] \in L!Places)
  BY <1>1, TaskParts DEF L!WriteBranches
<1> QED
  BY <1>2, PointersNow, LegacyReturn DEF L!WriteBranches

LEMMA CurrentKeeps ==
  ASSUME L!LegacyInv, lLoad' = lLoad, NEW t \in Tasks, L!EmptyCurrent(t) \/ L!WriteCurrent(t)
  PROVE  L!LegacyInv'
<1>1. "write_current" \in L!Stages \ {"seal", "line"} /\ "empty_head" \in L!Stages \ {"seal", "line"}
  BY DEF L!Stages
<1> QED
  BY <1>1, PointersNow, LegacyMove DEF L!EmptyCurrent, L!WriteCurrent

LEMMA LegacyKillKeeps ==
  ASSUME L!LegacyInv, lLoad' = lLoad, NEW t \in Tasks, L!Kill(t)
  PROVE  L!LegacyInv'
<1>1. lTorn' \in {lTorn, TRUE}
  BY DEF L!Kill
<1> QED
  BY <1>1, PointersNow, LegacyReturn DEF L!Kill


LEMMA LineKeeps ==
  ASSUME L!LegacyInv, lLoad' = lLoad, NEW t \in Tasks, L!Line(t)
  PROVE  L!LegacyInv'
<1> USE DEF L!LegacyInv
<1>b. lTorn' = lTorn /\ lHead' = lHead /\ lBranches' = lBranches /\ lLock' = lLock
  BY DEF L!Line
<1>o. /\ lTask[t].pc = "line" /\ lLock = t /\ lTask[t].parent \in L!Places
      /\ lTask[t].parent # L!None => lTask[t].prev = Len(lLog)
      /\ lTask[t].parent = L!None => lTask[t].prev = L!None
  BY DEF L!Line, L!Sealing
<1>n. Len(lLog) \in Nat /\ DOMAIN lLog = 1..Len(lLog) /\ "empty_head" \in L!Stages
  BY Numbered DEF L!Stages
<1>r. PICK r : r = lTask[t]
  OBVIOUS
<1>k. PICK n : n = Len(lLog)
  OBVIOUS
<1>i. /\ r \in L!TaskStates /\ r.parent \in Nat
      /\ ~lTorn => r.id \in L!Places /\ \A b \in DOMAIN r.tips : r.tips[b] \in L!Places
  BY <1>n, <1>r, TaskParts
<1> DEFINE s == [r EXCEPT !.pc = "empty_head", !.id = n + 1]
<1>s. s \in L!TaskStates /\ s.pc = "empty_head" /\ s.id = n + 1 /\ s.tips = r.tips
  <2>1. PICK i \in Nat : i = n + 1
    BY <1>n, <1>k
  <2>2. s = [r EXCEPT !.pc = "empty_head", !.id = i]
    BY <2>1
  <2> HIDE DEF s
  <2>3. s \in L!TaskStates /\ s.pc = "empty_head" /\ s.id = i /\ s.tips = r.tips
    BY <1>n, <1>i, <2>2 DEF L!TaskStates
  <2> QED
    BY <2>1, <2>3
<1>t. lTask' = [lTask EXCEPT ![t] = s]
  <2>1. lTask' = [lTask EXCEPT ![t] = [[lTask[t] EXCEPT !.pc = "empty_head"] EXCEPT !.id = n + 1]]
    BY <1>k DEF L!Line, L!LegacyTypes
  <2> QED
    BY <2>1, <1>r
<1> HIDE DEF s
<1>1. CASE lTorn
  <2>1. lLog' = lLog
    BY <1>1 DEF L!Line
  <2> QED
    BY <1>1, <1>b, <1>s, <1>t, <2>1, PointersNow, QuietLegacyStep
<1>2. CASE ~lTorn
  <2> DEFINE e == [id |-> n + 1, parent |-> r.parent, prev |-> r.prev]
  <2>e. /\ e \in L!Events /\ e.id = n + 1 /\ e.parent = r.parent /\ e.prev = r.prev
    BY <1>n, <1>k, <1>i DEF L!Events, L!TaskStates
  <2>l. lLog' = Append(lLog, e)
    BY <1>2, <1>r, <1>k DEF L!Line
  <2> HIDE DEF e
  <2>a. /\ Len(lLog') = n + 1 /\ lLog' \in Seq(L!Events) /\ DOMAIN lLog' = 1..(n + 1)
        /\ \A i \in 1..n : lLog'[i] = lLog[i]
        /\ lLog'[n + 1] = e /\ n \in Nat /\ n = Len(lLog)
    BY <1>n, <1>k, <2>e, <2>l DEF L!LegacyTypes
  <2>p. L!Places \subseteq L!Places' /\ n + 1 \in L!Places'
    BY <2>a DEF L!Places
  <2>q. lTask'[t] = s /\ \A q \in Tasks : q # t => lTask'[q] = lTask[q] /\ lTask[q].pc \notin {"seal", "line"}
    BY <1>t, <1>o DEF L!LegacyTypes, L!Sealing
  <2>1. L!LegacyTypes'
    <3>1. lTask' \in [Tasks -> L!TaskStates]
      BY <1>s, <1>t DEF L!LegacyTypes
    <3> QED
      BY <1>b, <2>a, <3>1 DEF L!LegacyTypes
  <2>2. L!LogOrdered'
    <3> SUFFICES ASSUME NEW i \in 1..(n + 1)
                 PROVE  /\ lLog'[i].id = i /\ lLog'[i].parent < i
                        /\ i # 1 /\ lLog'[i].parent # L!None => lLog'[i].prev = i - 1
                        /\ lLog'[i].parent = L!None => lLog'[i].prev = L!None
      BY <2>a DEF L!LogOrdered
    <3>1. CASE i \in 1..n
      BY <2>a, <3>1, <1>n DEF L!LogOrdered
    <3>2. CASE i = n + 1
      <4>1. lLog'[i] = e
        BY <2>a, <3>2
      <4>2. r.parent < n + 1
        BY <1>o, <1>r, <1>i, <2>a DEF L!Places
      <4>3. (r.parent # L!None => r.prev = i - 1) /\ (r.parent = L!None => r.prev = L!None)
        BY <1>o, <1>r, <2>a, <3>2
      <4> QED
        BY <2>e, <3>2, <4>1, <4>2, <4>3
    <3> QED
      BY <3>1, <3>2, <2>a
  <2>3. L!Sealing'
    BY <1>s, <2>q DEF L!Sealing
  <2>4. L!PointersFollow'
    <3>1. /\ lHead \in L!Places' /\ \A b \in DOMAIN lBranches : lBranches[b] \in L!Places'
      BY <1>2, <2>p, PointersNow
    <3>2. ASSUME NEW q \in Tasks
          PROVE  /\ lTask'[q].id \in L!Places' /\ \A b \in DOMAIN lTask'[q].tips : lTask'[q].tips[b] \in L!Places'
      <4>1. CASE q = t
        BY <4>1, <1>2, <1>s, <1>i, <2>q, <2>p
      <4>2. CASE q # t
        BY <4>2, <1>2, <2>q, <2>p DEF L!PointersFollow
      <4> QED
        BY <4>1, <4>2
    <3> QED
      BY <1>b, <3>1, <3>2 DEF L!PointersFollow
  <2> QED
    BY <2>1, <2>2, <2>3, <2>4
<1> QED
  BY <1>1, <1>2

LEMMA LegacyStutters ==
  ASSUME L!LegacyInv, lLoad' = lLoad, UNCHANGED L!session, lLock' = lLock, lTask' = lTask
  PROVE  L!LegacyInv'
BY DEF L!session, L!LegacyInv, L!LegacyTypes, L!LogOrdered, L!Sealing, L!PointersFollow, L!Places

LEMMA LegacyStep ==
  ASSUME L!LegacyInv, L!Next
  PROVE  L!LegacyInv'
<1>c. lLoad' = lLoad
  BY DEF L!Next
<1>1. CASE L!Freeze
  BY <1>1, <1>c, LegacyStutters DEF L!Freeze
<1> QED
  BY <1>c, <1>1, LockKeeps, SealKeeps, PreconditionKeeps, LineKeeps, EmptyHeadKeeps, WriteHeadKeeps, LoadKeeps,
     EmptyBranchesKeeps, WriteBranchesKeeps, CreateBranchKeeps, SwitchBranchKeeps, CurrentKeeps, UndoKeeps,
     RedoKeeps, CheckoutKeeps, LegacyKillKeeps DEF L!Next

LEMMA LegacyBegins ==
  ASSUME L!Init
  PROVE  L!LegacyInv
<1>1. lLog = << >> /\ lTorn = FALSE /\ lHead = 0 /\ lLock = 0 /\ lLoad \in Histories
  BY DEF L!Init, L!None
<1>2. \A t \in Tasks : lTask[t] = L!Idle
  BY DEF L!Init
<1>3. lLog \in Seq(L!Events) /\ DOMAIN lLog = {} /\ Len(lLog) = 0
  BY <1>1
<1>4. lBranches \in L!Tables /\ \A b \in DOMAIN lBranches : lBranches[b] = 0
  <2>1. lBranches \in [{2} -> Nat] /\ {2} \in SUBSET Nat /\ \A b \in DOMAIN lBranches : lBranches[b] = 0
    BY DEF L!Init, L!None
  <2> QED
    BY <2>1 DEF L!Tables
<1>5. lTask \in [Tasks -> L!TaskStates]
  BY IdleState DEF L!Init
<1>6. 0 \in L!Places
  BY <1>3 DEF L!Places
<1>7. L!LegacyTypes
  BY <1>1, <1>3, <1>4, <1>5 DEF L!LegacyTypes, L!None
<1>8. L!LogOrdered /\ L!Sealing
  BY <1>2, <1>3, IdleState DEF L!LogOrdered, L!Sealing
<1>9. L!PointersFollow
  BY <1>1, <1>2, <1>4, <1>6, IdleParts DEF L!PointersFollow
<1> QED
  BY <1>7, <1>8, <1>9 DEF L!LegacyInv

LEMMA LegacyPromises ==
  ASSUME L!LegacyInv
  PROVE  L!LogHoldsTogether
<1> USE DEF L!LegacyInv
<1>1. /\ Len(lLog) \in Nat /\ DOMAIN lLog = 1..Len(lLog) /\ L!Ids \cup {L!None} = L!Places
  BY Numbered
<1>2. ~lTorn => L!Tips \subseteq L!Ids \cup {L!None}
  BY <1>1, PointersNow DEF L!Tips
<1>3. \A i \in DOMAIN lLog : lLog[i].parent < lLog[i].id
  BY DEF L!LogOrdered
<1>4. ASSUME NEW i \in 2..Len(lLog), lLog[i].parent # L!None PROVE lLog[i].prev = lLog[i - 1].id
  <2>1. i \in DOMAIN lLog /\ i - 1 \in DOMAIN lLog /\ i # 1
    BY <1>1
  <2> QED
    BY <1>4, <2>1 DEF L!LogOrdered
<1>5. ASSUME ~lTorn, lBranches # L!Unreadable PROVE L!Sound <=> \A i \in 2..Len(lLog) : lLog[i].parent # L!None
  <2>1. /\ \A i \in DOMAIN lLog : lLog[i].parent \in L!Ids \cup {L!None}
        /\ lHead \in L!Ids \cup {L!None} /\ \A b \in DOMAIN lBranches : lBranches[b] \in L!Ids \cup {L!None}
    <3>1. \A i \in DOMAIN lLog : lLog[i].parent \in L!Places
      <4> SUFFICES ASSUME NEW i \in DOMAIN lLog PROVE lLog[i].parent \in L!Places
        OBVIOUS
      <4>1. lLog[i].parent \in Nat /\ lLog[i].parent < i /\ i \in 1..Len(lLog)
        BY Numbered DEF L!LogOrdered, L!Events
      <4> QED
        BY <1>1, <4>1 DEF L!Places
    <3> QED
      BY <1>1, <1>5, <3>1, PointersNow
  <2>2. ASSUME NEW i \in 2..Len(lLog), L!Chained(lLog) PROVE lLog[i].parent # L!None
    <3>1. i \in DOMAIN lLog /\ i - 1 \in DOMAIN lLog /\ i # 1 /\ i - 1 # 0
      BY <1>1
    <3>2. lLog[i].prev = lLog[i - 1].id /\ lLog[i - 1].id = i - 1
      BY <2>2, <3>1 DEF L!Chained, L!LogOrdered
    <3> QED
      BY <3>1, <3>2 DEF L!LogOrdered, L!None
  <2>3. ASSUME \A i \in 2..Len(lLog) : lLog[i].parent # L!None, NEW i \in DOMAIN lLog
        PROVE  lLog[i].prev = IF i = 1 THEN L!None ELSE lLog[i - 1].id
    <3>1. CASE i = 1
      <4>1. lLog[i].parent = L!None
        <5>1. lLog[i].parent \in Nat /\ lLog[i].parent < 1
          BY <3>1, Numbered DEF L!LogOrdered, L!Events
        <5> QED
          BY <5>1 DEF L!None
      <4> QED
        BY <3>1, <4>1 DEF L!LogOrdered
    <3>2. CASE i # 1
      BY <1>1, <1>4, <2>3, <3>2
    <3> QED
      BY <3>1, <3>2
  <2> QED
    BY <1>5, <2>1, <2>2, <2>3 DEF L!Sound, L!Chained
<1> QED
  BY <1>2, <1>3, <1>4, <1>5 DEF L!LogHoldsTogether

\* Legacy sessions: the inductive invariant.
THEOREM LegacyInvariant == FilesSpec => [](part = "legacy" => L!LegacyInv)
<1> DEFINE Inv == part = "legacy" => L!LegacyInv
<1>1. FilesInit => Inv
  BY LegacyBegins DEF FilesInit
<1>2. Inv /\ [FilesNext]_all => Inv'
  <2> SUFFICES ASSUME Inv, [FilesNext]_all PROVE Inv'
    OBVIOUS
  <2>1. CASE FilesNext
    BY <2>1, LegacyStep DEF FilesNext
  <2>2. CASE UNCHANGED all
    <3>1. UNCHANGED <<part, legacy>>
      BY <2>2 DEF all
    <3>2. lLoad' = lLoad /\ UNCHANGED L!session /\ lLock' = lLock /\ lTask' = lTask /\ part' = part
      BY <3>1 DEF legacy, L!session
    <3> QED
      BY <3>2, LegacyStutters
  <2> QED
    BY <2>1, <2>2
<1> QED
  BY <1>1, <1>2, PTL DEF FilesSpec

\* The log of a legacy session holds together: no pointer names an event that is
\* not in it, parents come first, and an event that is not rooted at the base is
\* sealed against the line before it, however many processes use the session and
\* are killed (append_event, write_head, save_branches).  read_events refuses a
\* session with complete files exactly when an event other than the first is rooted
\* at the base, since append_event seals that one against nothing.
THEOREM LegacyLogHolds == FilesSpec => [](part = "legacy" => L!LogHoldsTogether)
<1>1. (part = "legacy" => L!LegacyInv) => (part = "legacy" => L!LogHoldsTogether)
  BY LegacyPromises
<1> QED
  BY <1>1, LegacyInvariant, PTL


=============================================================================
