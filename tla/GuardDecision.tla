--------------------------- MODULE GuardDecision ---------------------------
(***************************************************************************)
(* What every enforcement point of AuthSec Shield promises about one risky *)
(* operation, whichever component guards it (the shell shim, the exec      *)
(* monitor, the fanotify daemon, the MCP proxy):                           *)
(*                                                                         *)
(*  - the operation waits while a person, or the policy of the approval    *)
(*    service, makes up their mind;                                        *)
(*  - it goes ahead only on an approval given for this very operation;     *)
(*  - it may be blocked at any time, for any reason: the guard fails       *)
(*    closed;                                                              *)
(*  - whoever waits is answered in the end.                                *)
(*                                                                         *)
(* The detailed modules implement this one through a refinement mapping.   *)
(***************************************************************************)

CONSTANT Requests          \* the guarded operations

VARIABLES
    verdict,               \* what the approver has decided about a request
    outcome                \* what the guard has done with the operation

vars == <<verdict, outcome>>

Verdicts == {"none", "approve", "refuse"}
Outcomes == {"idle", "waiting", "proceed", "blocked"}

TypeOK ==
    /\ verdict \in [Requests -> Verdicts]
    /\ outcome \in [Requests -> Outcomes]

Init ==
    /\ verdict = [r \in Requests |-> "none"]
    /\ outcome = [r \in Requests |-> "idle"]

-----------------------------------------------------------------------------
\* The operation reaches its enforcement point.
Ask(r) ==
    /\ outcome[r] = "idle"
    /\ outcome' = [outcome EXCEPT ![r] = "waiting"]
    /\ UNCHANGED verdict

\* The approver decides, once. The guard may have given up already.
Decide(r, v) ==
    /\ outcome[r] # "idle"
    /\ verdict[r] = "none"
    /\ verdict' = [verdict EXCEPT ![r] = v]
    /\ UNCHANGED outcome

Proceed(r) ==
    /\ outcome[r] = "waiting"
    /\ verdict[r] = "approve"
    /\ outcome' = [outcome EXCEPT ![r] = "proceed"]
    /\ UNCHANGED verdict

Block(r) ==
    /\ outcome[r] = "waiting"
    /\ outcome' = [outcome EXCEPT ![r] = "blocked"]
    /\ UNCHANGED verdict

Answer(r) == Proceed(r) \/ Block(r)

Next ==
    \E r \in Requests :
        \/ Ask(r)
        \/ \E v \in Verdicts \ {"none"} : Decide(r, v)
        \/ Answer(r)

SafeSpec == Init /\ [][Next]_vars

Spec == SafeSpec /\ \A r \in Requests : WF_vars(Answer(r))
=============================================================================
