--------------------------- MODULE ApprovalClient ---------------------------
(***************************************************************************)
(* The approval client of the user-space enforcement points                *)
(* (internal/approval/ciba.go): POST the action to the Agent Guard         *)
(* service, then poll its status until a verdict or the client's own       *)
(* deadline. Shims, `shield run`, `shield check` and the MCP proxy call it *)
(* synchronously; the operation goes ahead only on (Approved, nil).        *)
(*                                                                         *)
(* Time is relative: timer[r] is what is left of the current sleep or of   *)
(* the HTTP timeout, left[r] what is left until the deadline; Tick lets    *)
(* one unit pass. The service is external: it records a request, a person  *)
(* or its policy decides, it may expire a request, and any call may fail.  *)
(***************************************************************************)
EXTENDS Naturals

CONSTANTS
    Requests,
    MinInterval, DefaultInterval,     \* ciba.go: 3 and 5 seconds
    MinExpiry, DefaultExpiry,         \* ciba.go: 30 and 300 seconds
    HttpTimeout,                      \* http.Client.Timeout, 30 seconds
    OfferedIntervals, OfferedExpiries,\* what the service may answer
    LongestInterval, LongestExpiry    \* upper bounds of what the client adopts

\* ciba.go:118-125, a value below the minimum is replaced by the default.
ClampInterval(i) == IF i < MinInterval THEN DefaultInterval ELSE i
ClampExpiry(x)   == IF x < MinExpiry THEN DefaultExpiry ELSE x

\* Zero stands for a field missing from the answer.
Intervals == OfferedIntervals \cup {0}
ExpiryTimes == OfferedExpiries \cup {0}

ASSUME ApprovalAssumption ==
    /\ {MinInterval, DefaultInterval, MinExpiry, DefaultExpiry, HttpTimeout}
            \subseteq Nat \ {0}
    /\ OfferedIntervals \subseteq Nat /\ OfferedExpiries \subseteq Nat
    /\ LongestInterval \in Nat /\ LongestExpiry \in Nat
    /\ \A i \in Intervals : ClampInterval(i) <= LongestInterval
    /\ \A x \in ExpiryTimes : ClampExpiry(x) <= LongestExpiry

VARIABLES
    record,    \* the service's record of the request
    pc,        \* where the client is in RequestApproval / pollForDecision
    reply,     \* the answer on its way to the client
    timer,     \* rest of the sleep, or of the HTTP timeout
    interval,  \* poll interval in force
    left,      \* time left until the client's deadline
    result,    \* Result.Status, or "failed" for (nil, err)
    elapsed,   \* history: time since the request was submitted
    faulty,    \* history: some call failed or was answered without a status
    margin     \* history: left[r] when the approver decided

client  == <<pc, timer, interval, left, result>>
history == <<elapsed, faulty, margin>>
vars    == <<record, reply, client, history>>

-----------------------------------------------------------------------------
Approvals  == {"approved", "auto_approved"}
Refusals   == {"denied"}
Expiries   == {"expired", "timed_out"}
Decided    == Approvals \cup Refusals \cup Expiries
Records    == {"absent", "pending"} \cup Decided
Results    == {"none", "error", "failed"} \cup Decided
PCs        == {"idle", "post", "sleep", "poll", "done"}
\* "blank": the answer holds none of the fields the client looks at.
Statuses   == {"none", "error", "authorization_pending", "blank"} \cup Decided

Reply(s, i, x) == [status |-> s, interval |-> i, expiry |-> x]
Replies == [status : Statuses, interval : Intervals, expiry : ExpiryTimes]
NoReply        == Reply("none", 0, 0)
StatusReply(s) == Reply(s, 0, 0)

InFlight(r) == pc[r] \in {"post", "sleep", "poll"}

Init ==
    /\ record   = [r \in Requests |-> "absent"]
    /\ pc       = [r \in Requests |-> "idle"]
    /\ reply    = [r \in Requests |-> NoReply]
    /\ timer    = [r \in Requests |-> 0]
    /\ interval = [r \in Requests |-> 0]
    /\ left     = [r \in Requests |-> 0]
    /\ result   = [r \in Requests |-> "none"]
    /\ elapsed  = [r \in Requests |-> 0]
    /\ faulty   = [r \in Requests |-> FALSE]
    /\ margin   = [r \in Requests |-> 0]

-----------------------------------------------------------------------------
(* The client                                                              *)

Finish(r, s) ==
    /\ pc' = [pc EXCEPT ![r] = "done"]
    /\ result' = [result EXCEPT ![r] = s]
    /\ timer' = [timer EXCEPT ![r] = 0]
    /\ UNCHANGED <<interval, left>>

\* What pollForDecision reports when its own deadline has passed.
\* Mutant: it claims a verdict of the service.
GiveUpStatus_Expired == "expired"
GiveUpStatus == "timed_out"

\* The test at the head of the poll loop: sleep once more before the
\* deadline, give up at or after it.
LoopTest(r) ==
    \/ /\ left[r] > 0
       /\ pc' = [pc EXCEPT ![r] = "sleep"]
       /\ timer' = [timer EXCEPT ![r] = interval[r]]
       /\ UNCHANGED <<interval, left, result>>
    \/ /\ left[r] = 0
       /\ Finish(r, GiveUpStatus)

\* RequestApproval is called: the evaluate request leaves.
Submit(r) ==
    /\ pc[r] = "idle"
    /\ pc' = [pc EXCEPT ![r] = "post"]
    /\ timer' = [timer EXCEPT ![r] = HttpTimeout]
    /\ UNCHANGED <<interval, left, result, record, reply, history>>

\* Mutant: any answer without an error counts as approval by policy.
SettledByPolicy_NoError(s) == s # "error"
SettledByPolicy(s) == s = "auto_approved"

\* The evaluate answer arrives. An answer without error starts the poll
\* loop, whatever its status says, unless it is auto_approved.
TakeEvaluation(r) ==
    LET answer == reply[r] IN
    /\ pc[r] = "post"
    /\ answer # NoReply
    /\ reply' = [reply EXCEPT ![r] = NoReply]
    /\ \/ /\ SettledByPolicy(answer.status)
          /\ Finish(r, "auto_approved")
       \/ /\ answer.status = "error"
          /\ Finish(r, "error")
       \/ /\ ~SettledByPolicy(answer.status)
          /\ answer.status # "error"
          /\ pc' = [pc EXCEPT ![r] = "sleep"]
          /\ interval' = [interval EXCEPT ![r] = ClampInterval(answer.interval)]
          /\ left' = [left EXCEPT ![r] = ClampExpiry(answer.expiry)]
          /\ timer' = [timer EXCEPT ![r] = ClampInterval(answer.interval)]
          /\ UNCHANGED result
    /\ UNCHANGED <<record, history>>

\* No usable evaluate answer: connection error, timeout, status >= 400 or
\* unparsable body. The caller gets (nil, err) and blocks the operation.
EvaluationFails(r) ==
    /\ pc[r] = "post"
    /\ reply' = [reply EXCEPT ![r] = NoReply]
    /\ Finish(r, "failed")
    /\ faulty' = [faulty EXCEPT ![r] = TRUE]
    /\ UNCHANGED <<record, elapsed, margin>>

\* Mutant: the deadline is tested after the sleep, before the last poll.
Poll_DeadlineFirst(r) ==
    /\ pc[r] = "sleep"
    /\ timer[r] = 0
    /\ \/ /\ left[r] > 0
          /\ pc' = [pc EXCEPT ![r] = "poll"]
          /\ timer' = [timer EXCEPT ![r] = HttpTimeout]
          /\ UNCHANGED <<interval, left, result>>
       \/ left[r] = 0 /\ Finish(r, GiveUpStatus)
    /\ UNCHANGED <<record, reply, history>>

\* The sleep ends and the status request leaves.
Poll(r) ==
    /\ pc[r] = "sleep"
    /\ timer[r] = 0
    /\ pc' = [pc EXCEPT ![r] = "poll"]
    /\ timer' = [timer EXCEPT ![r] = HttpTimeout]
    /\ UNCHANGED <<interval, left, result, record, reply, history>>

EndsLoop(s) == s \in Decided

\* The status answer arrives: a verdict ends the loop, anything else is
\* "still pending".
TakeStatus(r) ==
    LET s == reply[r].status IN
    /\ pc[r] = "poll"
    /\ reply[r] # NoReply
    /\ reply' = [reply EXCEPT ![r] = NoReply]
    /\ \/ EndsLoop(s) /\ Finish(r, s)
       \/ ~EndsLoop(s) /\ LoopTest(r)
    /\ UNCHANGED <<record, history>>

\* Mutant: a failed status request is sent again at once.
PollFails_Resends(r) ==
    /\ pc[r] = "poll"
    /\ reply' = [reply EXCEPT ![r] = NoReply]
    /\ timer' = [timer EXCEPT ![r] = HttpTimeout]
    /\ faulty' = [faulty EXCEPT ![r] = TRUE]
    /\ UNCHANGED <<record, pc, interval, left, result, elapsed, margin>>

\* A failed status request is not an error: the loop goes on.
PollFails(r) ==
    /\ pc[r] = "poll"
    /\ reply' = [reply EXCEPT ![r] = NoReply]
    /\ LoopTest(r)
    /\ faulty' = [faulty EXCEPT ![r] = TRUE]
    /\ UNCHANGED <<record, elapsed, margin>>

-----------------------------------------------------------------------------
(* The Agent Guard service and the approver (external)                     *)

\* The evaluate request is handled: decided by policy, refused as invalid,
\* handed to a person, or answered with a body the client cannot use.
ServiceEvaluates(r) ==
    /\ pc[r] = "post"
    /\ reply[r] = NoReply
    /\ record[r] = "absent"
    /\ \E i \in OfferedIntervals, x \in OfferedExpiries :
        \/ /\ record' = [record EXCEPT ![r] = "auto_approved"]
           /\ reply' = [reply EXCEPT ![r] = StatusReply("auto_approved")]
           /\ UNCHANGED faulty
        \/ /\ record' = [record EXCEPT ![r] = "pending"]
           /\ reply' = [reply EXCEPT ![r] = Reply("authorization_pending", i, x)]
           /\ UNCHANGED faulty
        \/ /\ record' = [record EXCEPT ![r] = "denied"]
           /\ reply' = [reply EXCEPT ![r] = Reply("denied", i, x)]
           /\ UNCHANGED faulty
        \/ /\ \E s \in {"error", "blank"} :
                reply' = [reply EXCEPT ![r] = StatusReply(s)]
           /\ faulty' = [faulty EXCEPT ![r] = TRUE]
           /\ UNCHANGED record
    /\ UNCHANGED <<client, elapsed, margin>>

\* The status request is handled. An error body has no status field, and
\* pollForDecision does not look at the HTTP status code.
ServiceReports(r) ==
    /\ pc[r] = "poll"
    /\ reply[r] = NoReply
    /\ \/ /\ record[r] # "absent"
          /\ reply' = [reply EXCEPT ![r] =
                StatusReply(IF record[r] = "pending" THEN "authorization_pending"
                                                     ELSE record[r])]
          /\ UNCHANGED faulty
       \/ /\ reply' = [reply EXCEPT ![r] = StatusReply("blank")]
          /\ faulty' = [faulty EXCEPT ![r] = TRUE]
    /\ UNCHANGED <<record, client, elapsed, margin>>

\* The approver answers, or the service drops the request, whether or not
\* the client still waits.
ServiceDecides(r, s) ==
    /\ record[r] = "pending"
    /\ record' = [record EXCEPT ![r] = s]
    /\ margin' = [margin EXCEPT ![r] =
            IF pc[r] = "post" THEN ClampExpiry(reply[r].expiry) ELSE left[r]]
    /\ UNCHANGED <<reply, client, elapsed, faulty>>

-----------------------------------------------------------------------------
\* One unit of time passes. A sleep ends on time and an HTTP call never
\* outlasts its timeout: time waits for a client whose timer ran out.
Tick ==
    /\ \E r \in Requests : InFlight(r)
    /\ \A r \in Requests : InFlight(r) => timer[r] > 0
    /\ timer' = [r \in Requests |-> IF InFlight(r) THEN timer[r] - 1 ELSE timer[r]]
    /\ left' = [r \in Requests |->
                    IF InFlight(r) /\ left[r] > 0 THEN left[r] - 1 ELSE left[r]]
    /\ elapsed' = [r \in Requests |->
                    IF InFlight(r) THEN elapsed[r] + 1 ELSE elapsed[r]]
    /\ UNCHANGED <<record, pc, reply, interval, result, faulty, margin>>

ClientStep(r) ==
    \/ Submit(r)
    \/ TakeEvaluation(r) \/ EvaluationFails(r)
    \/ Poll(r)
    \/ TakeStatus(r) \/ PollFails(r)

ServiceStep(r) ==
    \/ ServiceEvaluates(r)
    \/ ServiceReports(r)
    \/ \E s \in Decided : ServiceDecides(r, s)

Next ==
    \/ Tick
    \/ \E r \in Requests : ClientStep(r) \/ ServiceStep(r)

SafeSpec == Init /\ [][Next]_vars

\* The clock runs, a sleep ends, and an HTTP call returns (http.Client has a
\* timeout). Nothing is assumed of the service or of the approver.
Fairness ==
    /\ WF_vars(Tick)
    /\ \A r \in Requests :
        /\ WF_vars(TakeEvaluation(r) \/ EvaluationFails(r))
        /\ WF_vars(Poll(r))
        /\ WF_vars(TakeStatus(r) \/ PollFails(r))

Spec == SafeSpec /\ Fairness

-----------------------------------------------------------------------------
(* Properties                                                              *)

\* Type invariant of the client, the service and the history variables.
TypeOK ==
    /\ record \in [Requests -> Records]
    /\ pc \in [Requests -> PCs]
    /\ reply \in [Requests -> Replies]
    /\ timer \in [Requests -> Nat]
    /\ interval \in [Requests -> Nat]
    /\ left \in [Requests -> Nat]
    /\ result \in [Requests -> Results]
    /\ elapsed \in [Requests -> Nat]
    /\ faulty \in [Requests -> BOOLEAN]
    /\ margin \in [Requests -> Nat]

\* A result that names a verdict is the verdict the service recorded for
\* this very request; only the client's own deadline may say timed_out of a
\* request that was decided otherwise (Result.Status of pollForDecision).
ResultIsVerdict ==
    \A r \in Requests :
        result[r] \in Decided \ {"timed_out"} => record[r] = result[r]

\* The blocked command is never held longer than the evaluate call, the
\* expiry, one last sleep begun just before the deadline and one last poll,
\* however many of the calls fail.
BoundedWait ==
    \A r \in Requests :
        InFlight(r) => elapsed[r] < 2 * HttpTimeout + LongestExpiry + LongestInterval

\* If no call failed, the client reports a timeout of an approved request
\* only if the approval came within one HTTP timeout of the deadline: an
\* earlier approval is always noticed.
PromptApprovalHonoured ==
    \A r \in Requests :
        (result[r] = "timed_out" /\ record[r] \in Approvals /\ ~faulty[r])
            => margin[r] <= HttpTimeout

-----------------------------------------------------------------------------
(* The inductive invariant behind the three                                *)

\* A record exists only of a request that was made; an answer is in flight
\* only during a call, and it quotes the record.
RepliesFaithful ==
    \A r \in Requests :
        /\ pc[r] = "idle" => record[r] = "absent"
        /\ pc[r] \in {"idle", "sleep", "done"} => reply[r] = NoReply
        /\ reply[r].status \in Decided => record[r] = reply[r].status
        /\ (pc[r] = "poll" /\ reply[r] # NoReply /\ ~faulty[r])
              => reply[r].status \in Decided \cup {"authorization_pending"}

\* Before the deadline the time spent and the time left stay within the
\* expiry; past it only the last sleep and the last call are added.
TimeAccounted ==
    \A r \in Requests :
        /\ pc[r] = "idle" => elapsed[r] = 0
        /\ pc[r] = "post" => elapsed[r] + timer[r] <= HttpTimeout
        /\ pc[r] \in {"sleep", "poll"} =>
              /\ interval[r] <= LongestInterval
              /\ left[r] > 0 => elapsed[r] + left[r] <= HttpTimeout + LongestExpiry
        /\ pc[r] = "sleep" =>
              elapsed[r] + timer[r] < HttpTimeout + LongestExpiry + LongestInterval
        /\ pc[r] = "poll" =>
              /\ timer[r] <= HttpTimeout
              /\ elapsed[r] + timer[r] < 2 * HttpTimeout + LongestExpiry + LongestInterval

\* An approval that an answer already under way does not show was given
\* during the call that carries this answer.
LateApprovals ==
    \A r \in Requests :
        /\ (pc[r] = "poll" /\ reply[r].status = "authorization_pending"
              /\ record[r] \in Decided)
                => margin[r] + timer[r] <= left[r] + HttpTimeout
        /\ result[r] = "timed_out" =>
              pc[r] = "done" /\ (left[r] = 0 \/ record[r] = "timed_out")

IndInv ==
    /\ TypeOK
    /\ RepliesFaithful
    /\ TimeAccounted
    /\ LateApprovals
    /\ ResultIsVerdict
    /\ PromptApprovalHonoured

-----------------------------------------------------------------------------
(* Refinement                                                              *)

VerdictOf == [r \in Requests |->
                 CASE record[r] \in Approvals -> "approve"
                   [] record[r] \in Decided \ Approvals -> "refuse"
                   [] OTHER -> "none"]

OutcomeOf == [r \in Requests |->
                 CASE pc[r] = "idle" -> "idle"
                   [] InFlight(r) -> "waiting"
                   [] pc[r] = "done" /\ result[r] \in Approvals -> "proceed"
                   [] OTHER -> "blocked"]

Decision == INSTANCE GuardDecision WITH verdict <- VerdictOf, outcome <- OutcomeOf

\* ApprovalClient implements GuardDecision, liveness included (RequestApproval
\* always returns, and returns an approval only if one was given).
ImplementsDecision == Decision!Spec
=============================================================================
