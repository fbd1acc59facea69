------------------------------ MODULE ExecMon ------------------------------
(***************************************************************************)
(* The Linux exec monitor (kernel/linux/execmon/authsec_execmon.c): every  *)
(* exec on the machine is suspended by the kernel until the daemon answers *)
(* its fanotify event. The main thread reads events and starts one thread  *)
(* per event; a control thread serves PAUSE and ENABLE; SIGTERM runs a     *)
(* handler that asks for a mobile approval on whatever thread took the     *)
(* signal. g_Paused, g_PauseUntil and g_Running are shared without a lock: *)
(* every access to them is a step of its own.                              *)
(*                                                                         *)
(* The call to the approval service (call_agent_guard) is one suspended    *)
(* state here: what it returns is chosen, when it does is not modelled.    *)
(***************************************************************************)
EXTENDS Integers

CONSTANTS
    Execs,          \* exec attempts
    Exempt,         \* those of the daemon's own binary or of pid <= 1
    Risky,          \* those local_risk_score puts above the threshold
    PauseLengths,   \* seconds a PAUSE command may ask for
    Faults,         \* what may fail: "thread", "malloc", "curl", "read", "poll"
    MaxClock,       \* bound on the clock
    MaxSignals,     \* bound on SIGTERM / SIGINT
    MaxRestarts     \* bound on restarts by systemd

ASSUME ExecMonAssumption ==
    /\ Exempt \subseteq Execs /\ Risky \subseteq Execs
    /\ {"main", "control"} \cap Execs = {}
    /\ PauseLengths \subseteq Nat \ {0}
    /\ MaxClock \in Nat /\ MaxSignals \in Nat /\ MaxRestarts \in Nat

VARIABLES
    up,           \* the daemon process exists and holds the fanotify group
    configured,   \* g_ApiBaseURL is set: load_config found a URL
    running,      \* g_Running
    paused,       \* g_Paused
    pauseUntil,   \* g_PauseUntil
    exec,         \* state of each exec, in the kernel or in its thread
    inline,       \* execs handled by the main thread itself
    control,      \* where the control thread is
    stop,         \* per thread: the shutdown request its signal handler made
    verdict,      \* what the approver decided about a risky exec
    clock,
    signals, restarts,
    stopApproved, \* history: a shutdown of this process was approved
    mishap,       \* history: a failure ended this process or passed for a stop
    acked,        \* history: end of the pause last acknowledged, 0 if none
    pauseSeen,    \* history: a pause was in force while the exec was handled
    unwatched     \* history: the daemon was down while the exec was under way

alive   == <<up, configured>>
flags   == <<running, paused, pauseUntil>>
ending  == <<stopApproved, mishap>>
history == <<ending, acked, pauseSeen, unwatched>>
bounds  == <<signals, restarts>>
vars    == <<alive, flags, exec, inline, control, stop, verdict, clock, bounds, history>>

-----------------------------------------------------------------------------
Threads == {"main", "control"} \cup Execs
Verdicts == {"none", "approve", "refuse"}
\* "no": the thread is not in the handler.
Handlers == {"no"} \cup {"none", "approve", "refuse"}

InKernel == {"queued", "buffered", "dropped"}
Working  == {"start", "sawPaused", "recheck", "reset", "judge", "asking"}
Answered == {"allowed", "denied"}
States   == {"idle"} \cup InKernel \cup Working \cup Answered

\* The thread that handles e, and whether a signal handler suspends it.
ThreadOf(e) == IF e \in inline THEN "main" ELSE e
Suspended(t) == stop[t] # "no"
Runs(e) == up /\ ~Suspended(ThreadOf(e))

\* The main thread is at its own code: not in the handler, not busy with an
\* exec it handles inline.
MainFree ==
    /\ up
    /\ ~Suspended("main")
    /\ \A e \in inline : exec[e] \notin Working

Init ==
    /\ up = TRUE
    /\ configured \in BOOLEAN
    /\ running = TRUE
    /\ paused = FALSE
    /\ pauseUntil = 0
    /\ exec = [e \in Execs |-> "idle"]
    /\ inline = {}
    /\ control = "accept"
    /\ stop = [t \in Threads |-> "no"]
    /\ verdict = [e \in Execs |-> "none"]
    /\ clock = 0
    /\ signals = 0
    /\ restarts = 0
    /\ stopApproved = FALSE
    /\ mishap = FALSE
    /\ acked = 0
    /\ pauseSeen = [e \in Execs |-> FALSE]
    /\ unwatched = [e \in Execs |-> FALSE]

-----------------------------------------------------------------------------
(* The kernel (external): an exec is suspended while the group exists, and *)
(* passes when nobody watches.                                             *)

StartExec(e) ==
    /\ exec[e] = "idle"
    /\ exec' = [exec EXCEPT ![e] = IF up THEN "queued" ELSE "allowed"]
    /\ unwatched' = [unwatched EXCEPT ![e] = ~up]
    /\ UNCHANGED <<alive, flags, inline, control, stop, verdict, clock, bounds,
                   ending, acked, pauseSeen>>

\* The process ends, in good order or not. The kernel drops the fanotify
\* group, which lets every exec it still held go ahead.
Terminate ==
    /\ up' = FALSE
    /\ exec' = [e \in Execs |->
                  IF exec[e] \in InKernel \cup Working THEN "allowed" ELSE exec[e]]
    /\ unwatched' = [e \in Execs |->
                  unwatched[e] \/ exec[e] \in InKernel \cup Working]
    /\ stop' = [t \in Threads |-> "no"]
    /\ control' = "accept"
    /\ inline' = {}
    /\ UNCHANGED <<configured, flags, verdict, clock, bounds, stopApproved, acked,
                   pauseSeen>>

\* Killed: nobody pings the watchdog of the unit file (WatchdogSec=30).
Kill ==
    /\ up
    /\ restarts < MaxRestarts
    /\ mishap' = TRUE
    /\ Terminate

\* Restart=always: a new process with fresh globals; load_config reads the
\* environment and the configuration file, which may be gone or half written.
Restart ==
    /\ ~up
    /\ restarts < MaxRestarts
    /\ restarts' = restarts + 1
    /\ up' = TRUE
    /\ configured' \in BOOLEAN
    /\ running' = TRUE
    /\ paused' = FALSE
    /\ pauseUntil' = 0
    /\ stopApproved' = FALSE
    /\ mishap' = FALSE
    /\ UNCHANGED <<exec, inline, control, stop, verdict, clock, signals,
                   acked, pauseSeen, unwatched>>

Tick ==
    /\ clock < MaxClock
    /\ clock' = clock + 1
    /\ UNCHANGED <<alive, flags, exec, inline, control, stop, verdict, bounds, history>>

-----------------------------------------------------------------------------
(* The main thread                                                         *)

\* read(g_FanotifyFd) returns the waiting events.
ReadEvents ==
    /\ MainFree
    /\ running
    /\ \A e \in Execs : exec[e] # "buffered"
    /\ \E e \in Execs : exec[e] = "queued"
    /\ exec' = [e \in Execs |-> IF exec[e] = "queued" THEN "buffered" ELSE exec[e]]
    /\ UNCHANGED <<alive, flags, inline, control, stop, verdict, clock, bounds, history>>

\* One event of the buffer gets its thread; if no thread can be made, the
\* main thread handles it itself; if there is no memory for the argument,
\* nobody does.
Dispatch(e) ==
    /\ MainFree
    /\ exec[e] = "buffered"
    /\ \/ /\ exec' = [exec EXCEPT ![e] = "start"]
          /\ UNCHANGED inline
       \/ /\ "thread" \in Faults
          /\ exec' = [exec EXCEPT ![e] = "start"]
          /\ inline' = inline \cup {e}
       \/ /\ "malloc" \in Faults
          /\ exec' = [exec EXCEPT ![e] = "dropped"]
          /\ UNCHANGED inline
    /\ UNCHANGED <<alive, flags, control, stop, verdict, clock, bounds, history>>

\* The loop ends when g_Running is found 0 between two reads, or when read
\* fails; main closes the descriptor and returns.
LeaveLoop ==
    /\ MainFree
    /\ \A e \in Execs : exec[e] # "buffered"
    /\ ~running \/ "read" \in Faults
    /\ mishap' = (mishap \/ running)
    /\ Terminate

-----------------------------------------------------------------------------
(* handle_exec_event_thread                                                *)

Answer(e, a) == exec' = [exec EXCEPT ![e] = a]

\* The exempt are let through; the others read g_Paused.
Start(e) ==
    /\ exec[e] = "start"
    /\ Runs(e)
    /\ \/ e \in Exempt /\ Answer(e, "allowed")
       \/ /\ e \notin Exempt
          /\ exec' = [exec EXCEPT ![e] = IF paused THEN "sawPaused" ELSE "recheck"]
    /\ pauseSeen' = [pauseSeen EXCEPT ![e] = @ \/ clock < pauseUntil]
    /\ UNCHANGED <<alive, flags, inline, control, stop, verdict, clock, bounds,
                   ending, acked, unwatched>>

\* time(NULL) < g_PauseUntil
ReadPauseUntil(e) ==
    /\ exec[e] = "sawPaused"
    /\ Runs(e)
    /\ \/ clock < pauseUntil /\ Answer(e, "allowed")
       \/ clock >= pauseUntil /\ exec' = [exec EXCEPT ![e] = "recheck"]
    /\ UNCHANGED <<alive, flags, inline, control, stop, verdict, clock, bounds, history>>

\* else if (g_Paused): a second read, whichever half of the condition failed.
ReadPausedAgain(e) ==
    /\ exec[e] = "recheck"
    /\ Runs(e)
    /\ exec' = [exec EXCEPT ![e] = IF paused THEN "reset" ELSE "judge"]
    /\ UNCHANGED <<alive, flags, inline, control, stop, verdict, clock, bounds, history>>

\* g_Paused = 0, "pause expired"
ResetPaused(e) ==
    /\ exec[e] = "reset"
    /\ Runs(e)
    /\ paused' = FALSE
    /\ exec' = [exec EXCEPT ![e] = "judge"]
    /\ UNCHANGED <<alive, running, pauseUntil, inline, control, stop, verdict, clock,
                   bounds, history>>

\* Low risk is let through; without an API URL call_agent_guard denies.
Judge(e) ==
    /\ exec[e] = "judge"
    /\ Runs(e)
    /\ \/ e \notin Risky /\ Answer(e, "allowed")
       \/ e \in Risky /\ ~configured /\ Answer(e, "denied")
       \/ e \in Risky /\ configured /\ exec' = [exec EXCEPT ![e] = "asking"]
    /\ UNCHANGED <<alive, flags, inline, control, stop, verdict, clock, bounds, history>>

\* Mutant: a failed call leaves the exec allowed.
GuardReturns_FailsOpen(e) ==
    /\ exec[e] = "asking"
    /\ Runs(e)
    /\ \/ verdict[e] # "refuse" /\ Answer(e, "allowed")
       \/ Answer(e, "denied")
    /\ UNCHANGED <<alive, flags, inline, control, stop, verdict, clock, bounds, history>>

\* Mutant: polls go on until the approver decides.
GuardReturns_NoTimeout(e) ==
    /\ exec[e] = "asking"
    /\ Runs(e)
    /\ verdict[e] # "none"
    /\ Answer(e, IF verdict[e] = "approve" THEN "allowed" ELSE "denied")
    /\ UNCHANGED <<alive, flags, inline, control, stop, verdict, clock, bounds, history>>

\* call_agent_guard comes back: approved on the approver's verdict, or on
\* whatever the buffer of a failed poll holds, which nobody initialised and
\* whose error nobody looks at; refusal, expiry, 12 polls without an answer
\* and a failed evaluation deny.
GuardReturns(e) ==
    /\ exec[e] = "asking"
    /\ Runs(e)
    /\ \/ /\ verdict[e] = "approve" \/ "poll" \in Faults
          /\ Answer(e, "allowed")
       \/ Answer(e, "denied")
    /\ UNCHANGED <<alive, flags, inline, control, stop, verdict, clock, bounds, history>>

\* The approver decides about a risky exec (external).
DecideExec(e, v) ==
    /\ exec[e] = "asking"
    /\ verdict[e] = "none"
    /\ verdict' = [verdict EXCEPT ![e] = v]
    /\ UNCHANGED <<alive, flags, exec, inline, control, stop, clock, bounds, history>>

-----------------------------------------------------------------------------
(* The control thread                                                      *)

ControlFree == up /\ ~Suspended("control")

\* while (g_Running): the thread accepts again or ends.
NextCommand == control' = IF running THEN "accept" ELSE "ended"

\* PAUSE n writes the end of the pause first ...
PauseCommand(n) ==
    /\ ControlFree
    /\ control = "accept"
    /\ pauseUntil' = clock + n
    /\ control' = "pausing"
    /\ pauseSeen' = [e \in Execs |-> pauseSeen[e] \/ exec[e] \in Working]
    /\ UNCHANGED <<alive, running, paused, exec, inline, stop, verdict, clock, bounds,
                   ending, acked, unwatched>>

\* ... then g_Paused, and replies OK.
PauseDone ==
    /\ ControlFree
    /\ control = "pausing"
    /\ paused' = TRUE
    /\ NextCommand
    /\ acked' = pauseUntil
    /\ UNCHANGED <<alive, running, pauseUntil, exec, inline, stop, verdict, clock, bounds,
                   ending, pauseSeen, unwatched>>

\* ENABLE clears g_Paused first ...
EnableCommand ==
    /\ ControlFree
    /\ control = "accept"
    /\ paused' = FALSE
    /\ control' = "enabling"
    /\ acked' = 0
    /\ UNCHANGED <<alive, running, pauseUntil, exec, inline, stop, verdict, clock, bounds,
                   ending, pauseSeen, unwatched>>

\* ... then the end of the pause.
EnableDone ==
    /\ ControlFree
    /\ control = "enabling"
    /\ pauseUntil' = 0
    /\ NextCommand
    /\ UNCHANGED <<alive, running, paused, exec, inline, stop, verdict, clock, bounds, history>>

-----------------------------------------------------------------------------
(* SIGTERM and SIGINT                                                      *)

\* The signal goes to the main thread, to another thread while the main
\* thread has it masked inside its handler.
Takers == IF ~Suspended("main") THEN {"main"}
          ELSE {t \in Threads \ {"main"} :
                  /\ ~Suspended(t)
                  /\ IF t = "control" THEN control # "ended"
                     ELSE exec[t] \in Working /\ t \notin inline}

\* sig_handler: without an API URL the daemon stops at once; else the
\* handler asks for approval, on the thread it interrupted. It also stops
\* the daemon when curl_easy_init fails.
Signal(t) ==
    /\ up
    /\ signals < MaxSignals
    /\ signals' = signals + 1
    /\ t \in Takers
    /\ \/ /\ ~configured \/ "curl" \in Faults
          /\ running' = FALSE
          /\ mishap' = (mishap \/ configured)
          /\ UNCHANGED stop
       \/ /\ configured
          /\ stop' = [stop EXCEPT ![t] = "none"]
          /\ UNCHANGED <<running, mishap>>
    /\ UNCHANGED <<alive, paused, pauseUntil, exec, inline, control, verdict, clock,
                   restarts, stopApproved, acked, pauseSeen, unwatched>>

\* The approver decides about a shutdown request (external).
DecideStop(t, v) ==
    /\ stop[t] = "none"
    /\ stop' = [stop EXCEPT ![t] = v]
    /\ stopApproved' = (stopApproved \/ v = "approve")
    /\ UNCHANGED <<alive, flags, exec, inline, control, verdict, clock, bounds,
                   mishap, acked, pauseSeen, unwatched>>

\* Mutant: no answer in time counts as consent.
HandlerReturns_TimeoutStops(t) ==
    /\ Suspended(t)
    /\ stop' = [stop EXCEPT ![t] = "no"]
    /\ running' = (running /\ stop[t] = "refuse")
    /\ UNCHANGED <<alive, paused, pauseUntil, exec, inline, control, verdict, clock,
                   bounds, history>>

\* request_shutdown_approval comes back: g_Running is cleared on an approval,
\* or on one that the uninitialised buffer of a failed poll seems to hold;
\* refusal, 12 polls without an answer and errors keep the daemon running.
HandlerReturns(t) ==
    /\ Suspended(t)
    /\ stop' = [stop EXCEPT ![t] = "no"]
    /\ \/ /\ stop[t] = "approve" \/ "poll" \in Faults
          /\ running' = FALSE
          /\ mishap' = (mishap \/ stop[t] # "approve")
       \/ UNCHANGED <<running, mishap>>
    /\ UNCHANGED <<alive, paused, pauseUntil, exec, inline, control, verdict, clock,
                   bounds, stopApproved, acked, pauseSeen, unwatched>>

-----------------------------------------------------------------------------
WorkerStep(e) ==
    \/ Start(e) \/ ReadPauseUntil(e) \/ ReadPausedAgain(e) \/ ResetPaused(e)
    \/ Judge(e) \/ GuardReturns(e)

MainStep == ReadEvents \/ (\E e \in Execs : Dispatch(e)) \/ LeaveLoop

ControlStep ==
    \/ \E n \in PauseLengths : PauseCommand(n)
    \/ PauseDone \/ EnableCommand \/ EnableDone

Approver ==
    \E v \in {"approve", "refuse"} :
        \/ \E e \in Execs : DecideExec(e, v)
        \/ \E t \in Threads : DecideStop(t, v)

Next ==
    \/ \E e \in Execs : StartExec(e) \/ WorkerStep(e)
    \/ MainStep
    \/ ControlStep
    \/ \E t \in Threads : Signal(t) \/ HandlerReturns(t)
    \/ Approver
    \/ Kill \/ Restart \/ Tick

SafeSpec == Init /\ [][Next]_vars

\* The operating system schedules every thread, and every call to the
\* approval service comes back (12 polls with a curl timeout each). Signals,
\* commands, the approver, kills and restarts are not assumed to happen.
Fairness ==
    /\ WF_vars(MainStep)
    /\ \A e \in Execs : WF_vars(WorkerStep(e))
    /\ \A t \in Threads : WF_vars(HandlerReturns(t))

Spec == SafeSpec /\ Fairness

-----------------------------------------------------------------------------
(* Properties                                                              *)

\* Type invariant of the daemon, the kernel and the history variables.
TypeOK ==
    /\ {up, configured, running, paused} \subseteq BOOLEAN
    /\ pauseUntil \in Nat /\ clock \in Nat /\ acked \in Nat
    /\ exec \in [Execs -> States]
    /\ inline \in SUBSET Execs
    /\ control \in {"accept", "pausing", "enabling", "ended"}
    /\ stop \in [Threads -> Handlers]
    /\ verdict \in [Execs -> Verdicts]
    /\ signals \in Nat /\ restarts \in Nat
    /\ {stopApproved, mishap} \subseteq BOOLEAN
    /\ pauseSeen \in [Execs -> BOOLEAN]
    /\ unwatched \in [Execs -> BOOLEAN]

\* A risky exec goes ahead only if the approver approved it, a pause was in
\* force at some moment of its handling, or no daemon held the event (the
\* default deny of call_agent_guard and handle_exec_event_thread), whatever
\* the workers, the control thread and the signals interleave.
NoUnclearedExec ==
    \A e \in Risky \ Exempt :
        exec[e] = "allowed" => verdict[e] = "approve" \/ pauseSeen[e] \/ unwatched[e]

\* With an API URL, the daemon ends its event loop, or is gone, only on an
\* approved shutdown request or on one of these failures: it was killed, a
\* read of the fanotify group failed, a signal found curl_easy_init failing,
\* or a failed poll read as an approval (sig_handler,
\* request_shutdown_approval, main). No timeout, refusal or second signal on
\* another thread stops it.
StopNeedsApproval == configured /\ (~running \/ ~up) => stopApproved \/ mishap

-----------------------------------------------------------------------------
(* The inductive invariants behind the two                                 *)

\* A worker that saw g_Paused set has either seen a pause in force or will
\* find it expired.
ExecInv ==
    /\ TypeOK
    /\ NoUnclearedExec
    /\ \A e \in Execs :
          exec[e] = "sawPaused" => pauseSeen[e] \/ clock >= pauseUntil

\* An approved shutdown request belongs to the process that made it.
StopInv ==
    /\ StopNeedsApproval
    /\ \A t \in Threads : stop[t] = "approve" => stopApproved
    /\ ~up => \A t \in Threads : stop[t] = "no"

-----------------------------------------------------------------------------
\* Every exec the kernel suspended is answered, even while the main thread
\* is inside the signal handler or handles an exec itself; only one whose
\* event found no memory for a worker's argument is left hanging.
EveryExecAnswered ==
    \A e \in Execs : exec[e] = "queued" ~> exec[e] \in Answered \cup {"dropped"}

\* From the OK to PAUSE until its end or the next ENABLE, g_Paused stays set.
PauseHonoured == up /\ clock < acked => paused
=============================================================================
