------------------------ MODULE ApprovalClientProofs ------------------------
(***************************************************************************)
(* Theorems about ApprovalClient, for every set of requests and every      *)
(* value of the time constants that satisfies ApprovalAssumption.          *)
(***************************************************************************)
EXTENDS ApprovalClient, TLAPS

-----------------------------------------------------------------------------
(* Type correctness                                                        *)

LEMMA ClampsAreNat ==
    /\ \A i \in Intervals : ClampInterval(i) \in Nat \ {0}
    /\ \A x \in ExpiryTimes : ClampExpiry(x) \in Nat \ {0}
BY ApprovalAssumption DEF ClampInterval, ClampExpiry, Intervals, ExpiryTimes

LEMMA RepliesTyped ==
    /\ NoReply \in Replies
    /\ \A s \in Statuses : StatusReply(s) \in Replies
    /\ \A s \in Statuses, i \in Intervals, x \in ExpiryTimes : Reply(s, i, x) \in Replies
BY DEF NoReply, StatusReply, Reply, Replies, Statuses, Intervals, ExpiryTimes

LEMMA InitType == Init => TypeOK
BY RepliesTyped DEF Init, TypeOK, Records, PCs, Results

LEMMA NextType == TypeOK /\ [Next]_vars => TypeOK'
<1> SUFFICES ASSUME TypeOK, [Next]_vars PROVE TypeOK'
  OBVIOUS
<1> USE DEF TypeOK
<1>1. ASSUME NEW r \in Requests, ClientStep(r) PROVE TypeOK'
  <2> USE DEF PCs, client, history
  <2>1. CASE Submit(r)
    BY <2>1, ApprovalAssumption DEF Submit
  <2>2. CASE TakeEvaluation(r)
    <3> DEFINE i == ClampInterval(reply[r].interval)
               x == ClampExpiry(reply[r].expiry)
    <3>1. i \in Nat /\ x \in Nat
      BY ClampsAreNat DEF Replies
    <3> HIDE DEF i, x
    <3>2. CASE Finish(r, "auto_approved") \/ Finish(r, "error")
      BY <2>2, <3>2, RepliesTyped
         DEF TakeEvaluation, Finish, Results, Decided, Approvals
    <3>3. CASE /\ pc' = [pc EXCEPT ![r] = "sleep"]
               /\ interval' = [interval EXCEPT ![r] = i]
               /\ left' = [left EXCEPT ![r] = x]
               /\ timer' = [timer EXCEPT ![r] = i]
               /\ UNCHANGED result
      BY <2>2, <3>1, <3>3, RepliesTyped DEF TakeEvaluation
    <3> QED  BY <2>2, <3>2, <3>3 DEF TakeEvaluation, i, x
  <2>3. CASE EvaluationFails(r)
    BY <2>3, RepliesTyped DEF EvaluationFails, Finish, Results
  <2>4. CASE Poll(r)
    BY <2>4, ApprovalAssumption DEF Poll
  <2>5. CASE TakeStatus(r)
    <3>1. ASSUME NEW s \in Results, Finish(r, s) PROVE TypeOK'
      BY <2>5, <3>1, RepliesTyped DEF TakeStatus, Finish
    <3>2. CASE LoopTest(r)
      BY <2>5, <3>2, RepliesTyped
         DEF TakeStatus, LoopTest, Finish, GiveUpStatus, Results, Decided, Expiries
    <3> QED  BY <2>5, <3>1, <3>2 DEF TakeStatus, EndsLoop, Results
  <2>6. CASE PollFails(r)
    BY <2>6, RepliesTyped
       DEF PollFails, LoopTest, Finish, GiveUpStatus, Results, Decided, Expiries
  <2> QED  BY <1>1, <2>1, <2>2, <2>3, <2>4, <2>5, <2>6 DEF ClientStep
<1>2. ASSUME NEW r \in Requests, ServiceStep(r) PROVE TypeOK'
  <2> USE DEF client
  <2>1. CASE ServiceEvaluates(r)
    <3>1. PICK i \in Intervals, x \in ExpiryTimes :
            /\ record'[r] \in Records /\ record' = [record EXCEPT ![r] = record'[r]]
            /\ \/ \E s \in Statuses : reply' = [reply EXCEPT ![r] = Reply(s, i, x)]
               \/ \E s \in Statuses : reply' = [reply EXCEPT ![r] = StatusReply(s)]
            /\ faulty' \in [Requests -> BOOLEAN]
      BY <2>1 DEF ServiceEvaluates, Records, Statuses, Decided, Approvals,
                  Refusals, Intervals, ExpiryTimes
    <3>2. reply' \in [Requests -> Replies]
      BY <3>1, RepliesTyped
    <3> QED  BY <2>1, <3>1, <3>2 DEF ServiceEvaluates
  <2>2. CASE ServiceReports(r)
    <3>1. \E s \in Statuses : reply' = [reply EXCEPT ![r] = StatusReply(s)]
      BY <2>2 DEF ServiceReports, Statuses, Records
    <3> QED  BY <2>2, <3>1, RepliesTyped DEF ServiceReports
  <2>3. ASSUME NEW s \in Decided, ServiceDecides(r, s) PROVE TypeOK'
    BY <2>3, ClampsAreNat DEF ServiceDecides, Records, Replies
  <2> QED  BY <1>2, <2>1, <2>2, <2>3 DEF ServiceStep
<1>3. CASE Tick
  BY <1>3 DEF Tick, InFlight
<1>4. CASE UNCHANGED vars
  BY <1>4 DEF vars, client, history
<1> QED  BY <1>1, <1>2, <1>3, <1>4 DEF Next

\* Every variable of the client keeps its type.
THEOREM TypeCorrect == SafeSpec => []TypeOK
BY InitType, NextType, PTL DEF SafeSpec

-----------------------------------------------------------------------------
(* The inductive invariant                                                 *)

LEMMA InitInd == Init => IndInv
BY InitType DEF Init, IndInv, RepliesFaithful, TimeAccounted, LateApprovals,
                ResultIsVerdict, PromptApprovalHonoured, NoReply, Reply,
                Decided, Approvals, Refusals, Expiries

LEMMA ClampsBounded ==
    /\ \A i \in Intervals :
          ClampInterval(i) \in Nat \ {0} /\ ClampInterval(i) <= LongestInterval
    /\ \A x \in ExpiryTimes :
          ClampExpiry(x) \in Nat \ {0} /\ ClampExpiry(x) <= LongestExpiry
BY ClampsAreNat, ApprovalAssumption

LEMMA NextInd == IndInv /\ [Next]_vars => IndInv'
<1> SUFFICES ASSUME IndInv, [Next]_vars PROVE IndInv'
  OBVIOUS
<1>0. TypeOK /\ TypeOK'
  BY NextType DEF IndInv
<1> DEFINE Rest == /\ RepliesFaithful /\ TimeAccounted /\ LateApprovals
                   /\ ResultIsVerdict /\ PromptApprovalHonoured
<1> SUFFICES Rest'
  BY <1>0 DEF IndInv
<1>r. Rest
  BY DEF IndInv
<1> USE <1>0, <1>r, ApprovalAssumption
        DEF TypeOK, RepliesFaithful, TimeAccounted, LateApprovals,
            ResultIsVerdict, PromptApprovalHonoured
<1>1. ASSUME NEW r \in Requests, ClientStep(r) PROVE Rest'
  <2> USE DEF client, history
  <2>1. CASE Submit(r)
    BY <2>1 DEF Submit, NoReply, Reply, StatusReply, Decided, Approvals, Refusals, Expiries
  <2>2. CASE TakeEvaluation(r)
    <3> DEFINE i == ClampInterval(reply[r].interval)
               x == ClampExpiry(reply[r].expiry)
    <3>1. i \in 1..LongestInterval /\ x \in 1..LongestExpiry
      BY ClampsBounded DEF Replies
    <3> HIDE DEF i, x
    <3>2. CASE Finish(r, "auto_approved") /\ reply[r].status = "auto_approved"
      BY <2>2, <3>2 DEF TakeEvaluation, Finish, NoReply, Reply, Decided, Approvals,
                        Refusals, Expiries
    <3>3. CASE Finish(r, "error")
      BY <2>2, <3>3 DEF TakeEvaluation, Finish, NoReply, Reply, Decided, Approvals,
                        Refusals, Expiries
    <3>4. CASE /\ pc' = [pc EXCEPT ![r] = "sleep"]
               /\ interval' = [interval EXCEPT ![r] = i]
               /\ left' = [left EXCEPT ![r] = x]
               /\ timer' = [timer EXCEPT ![r] = i]
               /\ UNCHANGED result
      BY <2>2, <3>1, <3>4 DEF TakeEvaluation, NoReply, Reply, Decided, Approvals,
                              Refusals, Expiries
    <3> QED  BY <2>2, <3>2, <3>3, <3>4 DEF TakeEvaluation, SettledByPolicy, i, x
  <2>3. CASE EvaluationFails(r)
    BY <2>3 DEF EvaluationFails, Finish, NoReply, Reply, Decided, Approvals, Refusals, Expiries
  <2>4. CASE Poll(r)
    BY <2>4 DEF Poll, NoReply, Reply, Decided, Approvals, Refusals, Expiries
  <2>5. CASE TakeStatus(r)
    <3>1. CASE reply[r].status \in Decided /\ Finish(r, reply[r].status)
      BY <2>5, <3>1 DEF TakeStatus, Finish, NoReply, Reply, Decided, Approvals,
                        Refusals, Expiries
    <3>2. CASE reply[r].status \notin Decided /\ LoopTest(r)
      BY <2>5, <3>2 DEF TakeStatus, LoopTest, Finish, GiveUpStatus, NoReply, Reply,
                        Decided, Approvals, Refusals, Expiries
    <3> QED  BY <2>5, <3>1, <3>2 DEF TakeStatus, EndsLoop
  <2>6. CASE PollFails(r)
    BY <2>6 DEF PollFails, LoopTest, Finish, GiveUpStatus, NoReply, Reply,
                Decided, Approvals, Refusals, Expiries
  <2> QED  BY <1>1, <2>1, <2>2, <2>3, <2>4, <2>5, <2>6 DEF ClientStep
<1>2. ASSUME NEW r \in Requests, ServiceStep(r) PROVE Rest'
  <2> USE DEF client, Reply, StatusReply, NoReply, Decided, Approvals, Refusals, Expiries
  <2>1. CASE ServiceEvaluates(r)
    <3>1. PICK i \in Intervals, x \in ExpiryTimes, s \in Statuses :
            /\ reply' = [reply EXCEPT ![r] = Reply(s, i, x)]
            /\ \/ s \in Decided /\ record' = [record EXCEPT ![r] = s] /\ UNCHANGED faulty
               \/ /\ s = "authorization_pending"
                  /\ record' = [record EXCEPT ![r] = "pending"]
                  /\ UNCHANGED faulty
               \/ /\ s \in {"error", "blank"} /\ UNCHANGED record
                  /\ faulty' = [faulty EXCEPT ![r] = TRUE]
      BY <2>1 DEF ServiceEvaluates, Statuses, Intervals, ExpiryTimes
    <3> QED
      BY <2>1, <3>1 DEF ServiceEvaluates
  <2>2. CASE ServiceReports(r)
    BY <2>2 DEF ServiceReports, Records
  <2>3. ASSUME NEW s \in Decided, ServiceDecides(r, s) PROVE Rest'
    BY <2>3 DEF ServiceDecides
  <2> QED  BY <1>2, <2>1, <2>2, <2>3 DEF ServiceStep
<1>3. CASE Tick
  BY <1>3 DEF Tick, InFlight
<1>4. CASE UNCHANGED vars
  BY <1>4 DEF vars, client, history
<1> QED  BY <1>1, <1>2, <1>3, <1>4 DEF Next

\* The inductive invariant: what the service answers is what it recorded, and
\* the time a request takes is accounted for step by step of the poll loop.
THEOREM Invariant == SafeSpec => []IndInv
BY InitInd, NextInd, PTL DEF SafeSpec

-----------------------------------------------------------------------------
(* The safety properties                                                   *)

\* A verdict the client reports is the one the service recorded.
THEOREM VerdictsReported == SafeSpec => []ResultIsVerdict
<1> IndInv => ResultIsVerdict
  BY DEF IndInv
<1> QED  BY Invariant, PTL

\* No request is held longer than one expiry, one interval and two calls.
THEOREM WaitBounded == SafeSpec => []BoundedWait
<1>1. IndInv => BoundedWait
  <2> SUFFICES ASSUME IndInv, NEW r \in Requests, InFlight(r)
               PROVE  elapsed[r] < 2 * HttpTimeout + LongestExpiry + LongestInterval
    BY DEF BoundedWait
  <2> USE ApprovalAssumption DEF IndInv, TypeOK, TimeAccounted, Intervals, ExpiryTimes
  <2>1. LongestExpiry > 0 /\ LongestInterval > 0
    BY ClampsBounded
  <2> QED  BY <2>1 DEF InFlight
<1> QED  BY <1>1, Invariant, PTL

\* Without failed calls only an approval given in the last HTTP timeout
\* before the deadline can be missed.
THEOREM PromptApprovalNoticed == SafeSpec => []PromptApprovalHonoured
<1> IndInv => PromptApprovalHonoured
  BY DEF IndInv
<1> QED  BY Invariant, PTL

-----------------------------------------------------------------------------
(* Refinement                                                              *)

LEMMA VerdictFrame ==
    ASSUME record' = record PROVE VerdictOf' = VerdictOf
BY DEF VerdictOf

LEMMA OutcomeFrame ==
    ASSUME UNCHANGED <<pc, result>> PROVE OutcomeOf' = OutcomeOf
BY DEF OutcomeOf, InFlight

LEMMA StepRefines ==
    IndInv /\ IndInv' /\ [Next]_vars => [Decision!Next]_(Decision!vars)
<1> SUFFICES ASSUME IndInv, IndInv', [Next]_vars
             PROVE  Decision!Next \/ UNCHANGED <<VerdictOf, OutcomeOf>>
  BY DEF Decision!vars
<1> USE DEF IndInv, TypeOK
<1>1. ASSUME NEW r \in Requests, ClientStep(r)
      PROVE  Decision!Next \/ UNCHANGED <<VerdictOf, OutcomeOf>>
  <2> USE DEF client, history
  <2>0. record' = record /\ VerdictOf' = VerdictOf
    BY <1>1, VerdictFrame DEF ClientStep, Submit, TakeEvaluation, EvaluationFails,
                              Poll, TakeStatus, PollFails
  <2>1. CASE Submit(r)
    <3>1. OutcomeOf[r] = "idle" /\ OutcomeOf' = [OutcomeOf EXCEPT ![r] = "waiting"]
      BY <2>1 DEF Submit, OutcomeOf, InFlight
    <3> QED  BY <2>0, <3>1 DEF Decision!Next, Decision!Ask
  <2>2. ASSUME InFlight(r), InFlight(r)',
               \A q \in Requests \ {r} : pc'[q] = pc[q] /\ result'[q] = result[q]
        PROVE  OutcomeOf' = OutcomeOf
    BY <2>2 DEF OutcomeOf, InFlight
  <2>3. ASSUME NEW s \in Results, InFlight(r), Finish(r, s),
               s \in Approvals => record[r] = s
        PROVE  Decision!Next
    <3>1. OutcomeOf[r] = "waiting"
      BY <2>3 DEF OutcomeOf, InFlight
    <3>2. CASE s \in Approvals
      <4>1. VerdictOf[r] = "approve"
        BY <2>3, <3>2 DEF VerdictOf
      <4>2. OutcomeOf' = [OutcomeOf EXCEPT ![r] = "proceed"]
        BY <2>3, <3>2 DEF OutcomeOf, InFlight, Finish
      <4> QED  BY <2>0, <3>1, <4>1, <4>2
                  DEF Decision!Next, Decision!Answer, Decision!Proceed
    <3>3. CASE s \notin Approvals
      <4>1. OutcomeOf' = [OutcomeOf EXCEPT ![r] = "blocked"]
        BY <2>3, <3>3 DEF OutcomeOf, InFlight, Finish
      <4> QED  BY <2>0, <3>1, <4>1 DEF Decision!Next, Decision!Answer, Decision!Block
    <3> QED  BY <3>2, <3>3
  <2>4. CASE TakeEvaluation(r)
    <3>1. CASE pc' = [pc EXCEPT ![r] = "sleep"] /\ UNCHANGED result
      BY <2>0, <2>2, <2>4, <3>1 DEF TakeEvaluation, InFlight
    <3>2. CASE Finish(r, "error")
      BY <2>3, <2>4, <3>2 DEF TakeEvaluation, InFlight, Results, Approvals
    <3>3. CASE Finish(r, "auto_approved") /\ reply[r].status = "auto_approved"
      BY <2>3, <2>4, <3>3 DEF TakeEvaluation, InFlight, Results, Decided, Approvals,
                              RepliesFaithful
    <3> QED  BY <2>4, <3>1, <3>2, <3>3 DEF TakeEvaluation, SettledByPolicy
  <2>5. CASE EvaluationFails(r)
    BY <2>3, <2>5 DEF EvaluationFails, InFlight, Results, Approvals
  <2>6. CASE Poll(r)
    BY <2>0, <2>2, <2>6 DEF Poll, InFlight
  <2>7. ASSUME pc[r] = "poll", LoopTest(r)
        PROVE  Decision!Next \/ UNCHANGED <<VerdictOf, OutcomeOf>>
    <3>1. CASE Finish(r, "timed_out")
      BY <2>3, <2>7, <3>1 DEF InFlight, Results, Decided, Expiries, Approvals
    <3>2. CASE pc' = [pc EXCEPT ![r] = "sleep"] /\ UNCHANGED result
      BY <2>0, <2>2, <2>7, <3>2 DEF InFlight
    <3> QED  BY <2>7, <3>1, <3>2 DEF LoopTest, GiveUpStatus
  <2>8. CASE TakeStatus(r)
    <3>1. CASE reply[r].status \in Decided /\ Finish(r, reply[r].status)
      BY <2>3, <2>8, <3>1 DEF TakeStatus, InFlight, Results, RepliesFaithful
    <3> QED  BY <2>7, <2>8, <3>1 DEF TakeStatus, EndsLoop
  <2>9. CASE PollFails(r)
    BY <2>7, <2>9 DEF PollFails
  <2> QED  BY <1>1, <2>1, <2>4, <2>5, <2>6, <2>8, <2>9 DEF ClientStep
<1>2. ASSUME NEW r \in Requests, ServiceStep(r)
      PROVE  Decision!Next \/ UNCHANGED <<VerdictOf, OutcomeOf>>
  <2> USE DEF client
  <2>0. OutcomeOf' = OutcomeOf
    BY <1>2, OutcomeFrame DEF ServiceStep, ServiceEvaluates, ServiceReports, ServiceDecides
  <2>1. ASSUME NEW s \in Decided, pc[r] # "idle", record[r] \in {"absent", "pending"},
               record' = [record EXCEPT ![r] = s]
        PROVE  Decision!Next
    <3> DEFINE v == IF s \in Approvals THEN "approve" ELSE "refuse"
    <3>1. OutcomeOf[r] # "idle"
      BY <2>1 DEF OutcomeOf, InFlight
    <3>2. VerdictOf[r] = "none"
      BY <2>1 DEF VerdictOf, Decided, Approvals, Refusals, Expiries
    <3>3. VerdictOf' = [VerdictOf EXCEPT ![r] = v]
      BY <2>1 DEF VerdictOf
    <3>4. v \in Decision!Verdicts \ {"none"}
      BY DEF Decision!Verdicts
    <3> HIDE DEF v
    <3> QED  BY <2>0, <3>1, <3>2, <3>3, <3>4 DEF Decision!Next, Decision!Decide
  <2>2. CASE ServiceEvaluates(r)
    <3>1. CASE record' = [record EXCEPT ![r] = "pending"]
      <4>1. VerdictOf' = VerdictOf
        BY <2>2, <3>1 DEF ServiceEvaluates, VerdictOf, Decided, Approvals, Refusals, Expiries
      <4> QED  BY <2>0, <4>1
    <3>2. CASE record' = record
      BY <2>0, <3>2, VerdictFrame
    <3>3. CASE \E s \in Decided : record' = [record EXCEPT ![r] = s]
      BY <2>1, <2>2, <3>3 DEF ServiceEvaluates
    <3> QED  BY <2>2, <3>1, <3>2, <3>3 DEF ServiceEvaluates, Decided, Approvals, Refusals
  <2>3. CASE ServiceReports(r)
    BY <2>0, <2>3, VerdictFrame DEF ServiceReports
  <2>4. ASSUME NEW s \in Decided, ServiceDecides(r, s) PROVE Decision!Next
    <3>1. pc[r] # "idle"
      BY <2>4 DEF ServiceDecides, RepliesFaithful
    <3> QED  BY <2>1, <2>4, <3>1 DEF ServiceDecides
  <2> QED  BY <1>2, <2>2, <2>3, <2>4 DEF ServiceStep
<1>3. CASE Tick
  BY <1>3, VerdictFrame, OutcomeFrame DEF Tick
<1>4. CASE UNCHANGED vars
  BY <1>4, VerdictFrame, OutcomeFrame DEF vars, client
<1> QED  BY <1>1, <1>2, <1>3, <1>4 DEF Next

\* Whatever the service, the approver and the network do, an operation
\* guarded by the approval client proceeds only on its own approval.
THEOREM RefinesDecision == SafeSpec => Decision!SafeSpec
<1>1. Init => Decision!Init
  <2> SUFFICES ASSUME Init PROVE Decision!Init
    OBVIOUS
  <2>1. VerdictOf = [r \in Requests |-> "none"]
    <3>1. \A r \in Requests : record[r] \notin Decided
      BY DEF Init, Decided, Approvals, Refusals, Expiries
    <3> QED  BY <3>1 DEF VerdictOf, Decided
  <2>2. OutcomeOf = [r \in Requests |-> "idle"]
    <3>1. \A r \in Requests : pc[r] = "idle"
      BY DEF Init
    <3> QED  BY <3>1 DEF OutcomeOf, InFlight
  <2> QED  BY <2>1, <2>2 DEF Decision!Init
<1> QED  BY <1>1, StepRefines, Invariant, PTL DEF SafeSpec, Decision!SafeSpec
=============================================================================
