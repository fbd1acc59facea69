--------------------------- MODULE ExecMonProofs ---------------------------
(***************************************************************************)
(* Theorems about ExecMon, for every set of execs, every clock and any     *)
(* number of signals and restarts. Those about clearances assume that no   *)
(* poll fails: a failed one may read as an approval (run exec_monitor_poll *)
(* shows it).                                                              *)
(***************************************************************************)
EXTENDS ExecMon, TLAPS

-----------------------------------------------------------------------------
(* Type correctness                                                        *)

LEMMA InitType == Init => TypeOK
<1> USE DEF Init, States, InKernel, Working, Answered, Verdicts, Handlers
<1> SUFFICES ASSUME Init PROVE TypeOK
  OBVIOUS
<1>1. exec \in [Execs -> States] /\ verdict \in [Execs -> Verdicts]
  OBVIOUS
<1>2. stop \in [Threads -> Handlers]
  OBVIOUS
<1>3. pauseSeen \in [Execs -> BOOLEAN] /\ unwatched \in [Execs -> BOOLEAN]
  OBVIOUS
<1> QED  BY <1>1, <1>2, <1>3 DEF TypeOK

LEMMA NextType == TypeOK /\ [Next]_vars => TypeOK'
<1> SUFFICES ASSUME TypeOK, [Next]_vars PROVE TypeOK'
  OBVIOUS
<1> USE ExecMonAssumption
    DEF TypeOK, States, InKernel, Working, Answered, Verdicts, Handlers,
        alive, flags, bounds, history, ending
<1>1. ASSUME NEW e \in Execs, StartExec(e) PROVE TypeOK'
  BY <1>1 DEF StartExec
<1>2. ASSUME NEW e \in Execs, WorkerStep(e) PROVE TypeOK'
  <2>1. CASE Start(e)
    BY <2>1 DEF Start, Answer
  <2>2. CASE ReadPauseUntil(e)
    BY <2>2 DEF ReadPauseUntil, Answer
  <2>3. CASE ReadPausedAgain(e)
    BY <2>3 DEF ReadPausedAgain
  <2>4. CASE ResetPaused(e)
    BY <2>4 DEF ResetPaused
  <2>5. CASE Judge(e)
    BY <2>5 DEF Judge, Answer
  <2>6. CASE GuardReturns(e)
    BY <2>6 DEF GuardReturns, Answer
  <2> QED  BY <1>2, <2>1, <2>2, <2>3, <2>4, <2>5, <2>6 DEF WorkerStep
<1>3. CASE MainStep
  <2>1. CASE ReadEvents
    BY <2>1 DEF ReadEvents
  <2>2. ASSUME NEW e \in Execs, Dispatch(e) PROVE TypeOK'
    BY <2>2 DEF Dispatch
  <2>3. CASE LeaveLoop
    BY <2>3 DEF LeaveLoop, Terminate
  <2> QED  BY <1>3, <2>1, <2>2, <2>3 DEF MainStep
<1>4. CASE ControlStep
  <2>1. ASSUME NEW n \in PauseLengths, PauseCommand(n) PROVE TypeOK'
    BY <2>1 DEF PauseCommand
  <2>2. CASE PauseDone
    BY <2>2 DEF PauseDone, NextCommand
  <2>3. CASE EnableCommand
    BY <2>3 DEF EnableCommand
  <2>4. CASE EnableDone
    BY <2>4 DEF EnableDone, NextCommand
  <2> QED  BY <1>4, <2>1, <2>2, <2>3, <2>4 DEF ControlStep
<1>5. ASSUME NEW t \in Threads, Signal(t) PROVE TypeOK'
  <2>1. running' \in BOOLEAN
    BY <1>5, Zenon DEF Signal
  <2>2. signals' \in Nat
    BY <1>5 DEF Signal
  <2>3. stop' \in [Threads -> Handlers]
    BY <1>5 DEF Signal
  <2> QED  BY <1>5, <2>1, <2>2, <2>3 DEF Signal
<1>6. ASSUME NEW t \in Threads, HandlerReturns(t) PROVE TypeOK'
  BY <1>6 DEF HandlerReturns
<1>7. CASE Approver
  <2>1. ASSUME NEW v \in {"approve", "refuse"}, NEW e \in Execs, DecideExec(e, v)
        PROVE  TypeOK'
    BY <2>1 DEF DecideExec
  <2>2. ASSUME NEW v \in {"approve", "refuse"}, NEW t \in Threads, DecideStop(t, v)
        PROVE  TypeOK'
    BY <2>2 DEF DecideStop
  <2> QED  BY <1>7, <2>1, <2>2 DEF Approver
<1>8. CASE Kill \/ Restart \/ Tick
  <2>1. CASE Kill
    BY <2>1 DEF Kill, Terminate
  <2>2. CASE Restart
    <3>1. up' \in BOOLEAN /\ running' \in BOOLEAN /\ paused' \in BOOLEAN
          /\ stopApproved' \in BOOLEAN
      BY <2>2, Zenon DEF Restart
    <3>2. restarts' \in Nat /\ pauseUntil' \in Nat
      BY <2>2 DEF Restart
    <3> QED  BY <2>2, <3>1, <3>2 DEF Restart
  <2>3. CASE Tick
    BY <2>3 DEF Tick
  <2> QED  BY <1>8, <2>1, <2>2, <2>3
<1>9. CASE UNCHANGED vars
  BY <1>9 DEF vars
<1> QED
  BY <1>1, <1>2, <1>3, <1>4, <1>5, <1>6, <1>7, <1>8, <1>9 DEF Next

\* Every variable of the daemon, the kernel and the history keeps its type.
THEOREM TypeCorrect == SafeSpec => []TypeOK
BY InitType, NextType, PTL DEF SafeSpec

-----------------------------------------------------------------------------
(* No risky exec goes ahead without a clearance                            *)

LEMMA InitExec == Init => ExecInv
<1> SUFFICES ASSUME Init PROVE ExecInv
  OBVIOUS
<1>1. \A e \in Execs : exec[e] = "idle"
  BY DEF Init
<1> QED  BY <1>1, InitType, ExecMonAssumption DEF ExecInv, NoUnclearedExec

LEMMA NextExec ==
    ASSUME "poll" \notin Faults
    PROVE  ExecInv /\ [Next]_vars => ExecInv'
<1> SUFFICES ASSUME ExecInv, [Next]_vars PROVE ExecInv'
  OBVIOUS
<1>0. TypeOK /\ TypeOK'
  BY NextType DEF ExecInv
<1> DEFINE Cleared == NoUnclearedExec
           Seen == \A f \in Execs :
                     exec[f] = "sawPaused" => pauseSeen[f] \/ clock >= pauseUntil
<1> SUFFICES Cleared' /\ Seen'
  BY <1>0 DEF ExecInv
<1>i. Cleared /\ Seen
  BY DEF ExecInv
<1> USE <1>0, <1>i, ExecMonAssumption
    DEF TypeOK, NoUnclearedExec, InKernel, Working, Answered, alive, flags, bounds, history, ending
<1>1. ASSUME NEW e \in Execs, StartExec(e) PROVE Cleared' /\ Seen'
  BY <1>1 DEF StartExec
<1>2. ASSUME NEW e \in Execs, WorkerStep(e) PROVE Cleared' /\ Seen'
  <2>1. CASE Start(e)
    BY <2>1 DEF Start, Answer
  <2>2. CASE ReadPauseUntil(e)
    BY <2>2 DEF ReadPauseUntil, Answer
  <2>3. CASE ReadPausedAgain(e)
    BY <2>3 DEF ReadPausedAgain
  <2>4. CASE ResetPaused(e)
    BY <2>4 DEF ResetPaused
  <2>5. CASE Judge(e)
    BY <2>5 DEF Judge, Answer
  <2>6. CASE GuardReturns(e)
    BY <2>6 DEF GuardReturns, Answer
  <2> QED  BY <1>2, <2>1, <2>2, <2>3, <2>4, <2>5, <2>6 DEF WorkerStep
<1>3. CASE MainStep
  <2>1. CASE ReadEvents
    BY <2>1 DEF ReadEvents
  <2>2. ASSUME NEW e \in Execs, Dispatch(e) PROVE Cleared' /\ Seen'
    BY <2>2 DEF Dispatch
  <2>3. CASE LeaveLoop
    BY <2>3 DEF LeaveLoop, Terminate
  <2> QED  BY <1>3, <2>1, <2>2, <2>3 DEF MainStep
<1>4. CASE ControlStep
  <2>1. ASSUME NEW n \in PauseLengths, PauseCommand(n) PROVE Cleared' /\ Seen'
    BY <2>1 DEF PauseCommand
  <2>2. CASE PauseDone \/ EnableCommand \/ EnableDone
    BY <2>2 DEF PauseDone, EnableCommand, EnableDone
  <2> QED  BY <1>4, <2>1, <2>2 DEF ControlStep
<1>5. ASSUME NEW t \in Threads, Signal(t) \/ HandlerReturns(t)
      PROVE  Cleared' /\ Seen'
  BY <1>5 DEF Signal, HandlerReturns
<1>6. CASE Approver
  <2>1. ASSUME NEW v \in {"approve", "refuse"}, NEW e \in Execs, DecideExec(e, v)
        PROVE  Cleared' /\ Seen'
    BY <2>1 DEF DecideExec
  <2>2. ASSUME NEW v \in {"approve", "refuse"}, NEW t \in Threads, DecideStop(t, v)
        PROVE  Cleared' /\ Seen'
    BY <2>2 DEF DecideStop
  <2> QED  BY <1>6, <2>1, <2>2 DEF Approver
<1>7. CASE Kill \/ Restart \/ Tick
  BY <1>7 DEF Kill, Terminate, Restart, Tick
<1>8. CASE UNCHANGED vars
  BY <1>8 DEF vars
<1> QED
  BY <1>1, <1>2, <1>3, <1>4, <1>5, <1>6, <1>7, <1>8 DEF Next

\* The inductive invariant: with it, a worker between two reads of the pause
\* knows that it was in force or will find it expired.
THEOREM ExecInvariant == ASSUME "poll" \notin Faults PROVE SafeSpec => []ExecInv
BY InitExec, NextExec, PTL DEF SafeSpec

\* As long as no poll fails, a risky exec goes ahead only if the approver
\* approved it, a pause was in force while it was handled, or the daemon was
\* not there, in every interleaving of the workers with PAUSE and ENABLE.
THEOREM ExecsCleared == ASSUME "poll" \notin Faults
                        PROVE  SafeSpec => []NoUnclearedExec
<1>1. ExecInv => NoUnclearedExec
  BY DEF ExecInv
<1> QED  BY <1>1, ExecInvariant, PTL

-----------------------------------------------------------------------------
(* The daemon stops only on an approval or a failure                       *)

LEMMA InitStop == Init => StopInv
BY DEF Init, StopInv, StopNeedsApproval

LEMMA NextStop == TypeOK /\ StopInv /\ [Next]_vars => StopInv'
<1> SUFFICES ASSUME TypeOK, StopInv, [Next]_vars PROVE StopInv'
  OBVIOUS
<1> USE ExecMonAssumption DEF StopInv, StopNeedsApproval, alive, flags, bounds,
          history, ending
<1>1. ASSUME NEW e \in Execs, StartExec(e) \/ WorkerStep(e) PROVE StopInv'
  BY <1>1 DEF StartExec, WorkerStep, Start, ReadPauseUntil, ReadPausedAgain,
              ResetPaused, Judge, GuardReturns
<1>2. CASE MainStep
  <2>1. CASE ReadEvents \/ \E e \in Execs : Dispatch(e)
    BY <2>1 DEF ReadEvents, Dispatch
  <2>2. CASE LeaveLoop
    <3>1. mishap' = (mishap \/ running)
      BY <2>2 DEF LeaveLoop
    <3>2. configured' = configured /\ stopApproved' = stopApproved
      BY <2>2 DEF LeaveLoop, Terminate
    <3>3. \A t \in Threads : stop'[t] = "no"
      BY <2>2, Zenon DEF LeaveLoop, Terminate
    <3>4. configured => stopApproved \/ mishap \/ running
      OBVIOUS
    <3>5. configured' => stopApproved' \/ mishap'
      BY <3>1, <3>2, <3>4, Zenon
    <3> QED  BY <3>3, <3>5
  <2> QED  BY <1>2, <2>1, <2>2 DEF MainStep
<1>3. CASE ControlStep
  BY <1>3 DEF ControlStep, PauseCommand, PauseDone, EnableCommand, EnableDone
<1>4. ASSUME NEW t \in Threads, Signal(t) PROVE StopInv'
  BY <1>4 DEF Signal, TypeOK
<1>5. ASSUME NEW t \in Threads, HandlerReturns(t) PROVE StopInv'
  BY <1>5 DEF HandlerReturns, Suspended, TypeOK
<1>6. CASE Approver
  <2>1. ASSUME NEW v \in {"approve", "refuse"}, NEW e \in Execs, DecideExec(e, v)
        PROVE  StopInv'
    BY <2>1 DEF DecideExec
  <2>2. ASSUME NEW v \in {"approve", "refuse"}, NEW t \in Threads, DecideStop(t, v)
        PROVE  StopInv'
    BY <2>2 DEF DecideStop, TypeOK
  <2> QED  BY <1>6, <2>1, <2>2 DEF Approver
<1>7. CASE Kill \/ Restart \/ Tick
  BY <1>7 DEF Kill, Terminate, Restart, Tick
<1>8. CASE UNCHANGED vars
  BY <1>8 DEF vars
<1> QED
  BY <1>1, <1>2, <1>3, <1>4, <1>5, <1>6, <1>7, <1>8 DEF Next

\* The inductive invariant: an approved shutdown request belongs to the process
\* that made it.
THEOREM StopInvariant == SafeSpec => []StopInv
BY InitType, NextType, InitStop, NextStop, PTL DEF SafeSpec

\* Whatever may fail, a daemon with an API URL ends only when its own shutdown
\* request was approved or one of the failures that `mishap` records ended it,
\* however many signals arrive on however many threads.
THEOREM StopsApproved == SafeSpec => []StopNeedsApproval
<1>1. StopInv => StopNeedsApproval
  BY DEF StopInv
<1> QED  BY <1>1, StopInvariant, PTL
=============================================================================
