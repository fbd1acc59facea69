---------------------------- MODULE DaemonProofs ----------------------------
(***************************************************************************)
(* Theorems about Daemon, for any number of concurrent control             *)
(* connections, any backlog and any number of signals, crashes and changes *)
(* of the configuration file.                                              *)
(***************************************************************************)
EXTENDS Daemon, SequenceTheorems, TLAPS


-----------------------------------------------------------------------------
(* Type correctness                                                        *)

LEMMA InitType == Init => TypeOK
<1> USE DEF Init, Configs, Files, NoPause
<1> SUFFICES ASSUME Init PROVE TypeOK
  OBVIOUS
<1>1. task \in [Procs -> Tasks]
  BY DEF Tasks, Idle, Commands, Places
<1>2. link \in Seq(Messages)
  OBVIOUS
<1> QED  BY <1>1, <1>2 DEF TypeOK, Pauses, Monitors

\* The steps that only move one goroutine keep the type of task.
LEMMA GoType ==
    ASSUME TypeOK, NEW p \in Procs, NEW pc \in Places, Go(p, pc)
    PROVE  task' \in [Procs -> Tasks]
<1>1. [task[p] EXCEPT !.at = pc] \in Tasks
  BY DEF TypeOK, Tasks
<1> QED  BY <1>1 DEF Go, TypeOK

LEMMA FinishType ==
    ASSUME TypeOK, NEW p \in Procs, Finish(p)
    PROVE  task' \in [Procs -> Tasks]
<1>1. Idle \in Tasks
  BY DEF Idle, Tasks, Commands, Places, Configs, Files
<1> QED  BY <1>1 DEF Finish, TypeOK

LEMMA NextType == TypeOK /\ [Next]_vars => TypeOK'
<1> SUFFICES ASSUME TypeOK, [Next]_vars PROVE TypeOK'
  OBVIOUS
<1> USE DaemonAssumption DEF TypeOK, outside, kernel, config, bounds
<1>a. ASSUME NEW p \in Procs, Load(p), pending' \in {"none", "HUP", "TERM"}
      PROVE  TypeOK'
  <2>1. CASE file = "unreadable"
    <3>1. task' \in [Procs -> Tasks]
      BY <1>a, <2>1, FinishType DEF Load
    <3> QED  BY <1>a, <2>1, <3>1 DEF Load
  <2>2. CASE file # "unreadable"
    <3>1. file \in Configs
      BY <2>2 DEF Configs
    <3>2. [task[p] EXCEPT !.at = "set", !.loaded = file] \in Tasks
      BY <3>1 DEF Tasks, Places
    <3>4. task' \in [Procs -> Tasks]
      BY <1>a, <2>2, <3>2 DEF Load
    <3>3. lastLoad' = file /\ tangled' \in BOOLEAN
      BY <1>a, <2>2 DEF Load
    <3> QED  BY <1>a, <3>1, <3>3, <3>4 DEF Load
  <2> QED  BY <2>1, <2>2
<1>b. ASSUME NEW p \in Procs, NEW k \in Commands, NEW n \in Nat, Change(p, k, n)
      PROVE  TypeOK'
  <2>1. task' \in [Procs -> Tasks]
    <3>1. [task[p] EXCEPT !.cmd = k, !.n = n, !.at = "send"] \in Tasks
      BY DEF Tasks, Places
    <3>2. task' = [task EXCEPT ![p] = [task[p] EXCEPT !.cmd = k, !.n = n, !.at = "send"]]
      BY <1>b DEF Change
    <3> QED  BY <3>1, <3>2
  <2>2. pause' \in Pauses
    BY <1>b DEF Change, NoPause, Pauses
  <2> QED  BY <1>b, <2>1, <2>2 DEF Change
<1>m. ASSUME MonitorGone
      PROVE  /\ monitor' \in Monitors /\ link' \in Seq(Messages) /\ drift' \in BOOLEAN
             /\ worker' \in [Workers -> {"idle", "recheck", "reset"}]
  <2>1. worker' \in [Workers -> {"idle", "recheck", "reset"}]
    BY <1>m DEF MonitorGone
  <2>2. monitor' \in Monitors /\ link' \in Seq(Messages) /\ drift' \in BOOLEAN
    BY <1>m DEF MonitorGone, NoPause, Monitors, Pauses
  <2> QED  BY <2>1, <2>2
<1>1. ASSUME NEW p \in Conns, Start(p) PROVE TypeOK'
  <2>1. CASE Pause(p)
    BY <2>1, <1>b DEF Pause, Commands, Procs
  <2>2. CASE Enable(p)
    BY <2>2, <1>b DEF Enable, Commands, Procs
  <2>3. CASE Reload(p)
    BY <2>3, <1>a DEF Reload, Procs
  <2>4. CASE Stop(p)
    BY <2>4, GoType DEF Stop, Procs, Places
  <2> QED  BY <1>1, <2>1, <2>2, <2>3, <2>4 DEF Start
<1>2. ASSUME NEW p \in Procs, Step(p) PROVE TypeOK'
  <2>1. CASE Send(p)
    <3>1. task' \in [Procs -> Tasks]
      BY <2>1, FinishType DEF Send
    <3>2. [cmd |-> task[p].cmd, n |-> task[p].n] \in Messages
      BY DEF Tasks, Messages
    <3>3. Append(link, [cmd |-> task[p].cmd, n |-> task[p].n]) \in Seq(Messages)
      BY <3>2
    <3>4. link' \in Seq(Messages)
      BY <2>1, <3>3 DEF Send
    <3>5. drift' \in BOOLEAN
      BY <2>1 DEF Send
    <3> QED  BY <2>1, <3>1, <3>4, <3>5 DEF Send
  <2>2. CASE SetConfig(p)
    <3>1. [Idle EXCEPT !.at = "push"] \in Tasks
      BY DEF Idle, Tasks, Commands, Places, Configs, Files
    <3>2. task[p].loaded \in Configs
      BY DEF Tasks
    <3> QED  BY <2>2, <3>1, <3>2 DEF SetConfig
  <2>3. CASE Push(p)
    <3>1. task' \in [Procs -> Tasks]
      BY <2>3, FinishType DEF Push
    <3> QED  BY <2>3, <3>1, <1>m DEF Push
  <2>4. CASE RequestApproval(p)
    BY <2>4, GoType DEF RequestApproval, Places
  <2>5. CASE Check(p)
    <3>1. task' \in [Procs -> Tasks]
      BY <2>5, GoType, FinishType DEF Check, Places
    <3> QED  BY <2>5, <3>1 DEF Check
  <2>6. CASE Phone(p)
    <3>1. task' \in [Procs -> Tasks]
      BY <2>6, GoType, FinishType DEF Phone, Places
    <3> QED  BY <2>6, <3>1 DEF Phone
  <2>7. CASE Shutdown(p)
    <3>1. task' \in [Procs -> Tasks]
      BY <2>7, GoType DEF Shutdown, Places
    <3> QED  BY <2>7, <3>1, <1>m DEF Shutdown
  <2>8. CASE Exit(p)
    BY <2>8 DEF Exit
  <2> QED  BY <1>2, <2>1, <2>2, <2>3, <2>4, <2>5, <2>6, <2>7, <2>8 DEF Step
<1>3. CASE Signal
  BY <1>3 DEF Signal
<1>4. CASE TakeSignal
  <2>1. CASE Load("main")
    BY <1>4, <2>1, <1>a DEF TakeSignal, Procs
  <2>2. CASE ~Load("main")
    <3>1. Go("main", "stop") \/ Go("main", "shutdown")
      BY <1>4, <2>2 DEF TakeSignal
    <3>2. task' \in [Procs -> Tasks]
      BY <3>1, GoType DEF Procs, Places
    <3> QED  BY <1>4, <2>2, <3>2 DEF TakeSignal
  <2> QED  BY <2>1, <2>2
<1>5. CASE ChangeFile
  <2>1. file' \in Files /\ binary' \in BOOLEAN
    BY <1>5 DEF ChangeFile
  <2>2. ungated' \in BOOLEAN
    BY <1>5 DEF ChangeFile
  <2> QED  BY <1>5, <2>1, <2>2 DEF ChangeFile
<1>6. CASE MonitorTakes
  <2>1. Head(link) \in Messages /\ Tail(link) \in Seq(Messages)
    BY <1>6 DEF MonitorTakes
  <2>2. monitor' \in Monitors
    <3>1. clock + Head(link).n \in Nat
      BY <2>1 DEF Messages
    <3>2. NoPause \in Pauses /\ [on |-> TRUE, until |-> clock + Head(link).n] \in Pauses
      BY <3>1 DEF NoPause, Pauses
    <3>3. \A z \in Pauses : [monitor EXCEPT !.pause = z] \in Monitors
      BY DEF Monitors
    <3> QED  BY <1>6, <3>2, <3>3 DEF MonitorTakes
  <2> QED  BY <1>6, <2>1, <2>2 DEF MonitorTakes
<1>7. ASSUME NEW w \in Workers, FindsNoPause(w) \/ ReadPausedAgain(w) \/ ResetPaused(w)
      PROVE  TypeOK'
  <2>1. worker' \in [Workers -> {"idle", "recheck", "reset"}]
    BY <1>7 DEF FindsNoPause, ReadPausedAgain, ResetPaused
  <2>2. CASE FindsNoPause(w) \/ ReadPausedAgain(w)
    BY <2>1, <2>2 DEF FindsNoPause, ReadPausedAgain
  <2>3. CASE ResetPaused(w)
    <3>1. monitor' \in Monitors
      BY <2>3 DEF ResetPaused, Monitors, Pauses
    <3>2. drift' \in BOOLEAN
      BY <2>3 DEF ResetPaused
    <3> QED  BY <2>1, <2>3, <3>1, <3>2 DEF ResetPaused
  <2> QED  BY <1>7, <2>2, <2>3
<1>8. CASE MonitorDies
  BY <1>8, <1>m DEF MonitorDies
<1>11. CASE MonitorStarts
  <2>1. [up |-> TRUE, pause |-> NoPause] \in Monitors
    BY DEF NoPause, Monitors, Pauses
  <2> QED  BY <1>11, <2>1 DEF MonitorStarts
<1>9. CASE Tick
  BY <1>9 DEF Tick
<1>10. CASE UNCHANGED vars
  BY <1>10 DEF vars
<1> QED
  BY <1>1, <1>2, <1>3, <1>4, <1>5, <1>6, <1>7, <1>8, <1>9, <1>10, <1>11 DEF Next

\* Every variable of the daemon, of its surroundings and of the history keeps
\* its type.
THEOREM TypeCorrect == Spec => []TypeOK
BY InitType, NextType, PTL DEF Spec

-----------------------------------------------------------------------------
(* The daemon stops only on the phone's consent                            *)

LEMMA InitConsent == Init => ConsentInv
<1> SUFFICES ASSUME Init PROVE ConsentInv
  OBVIOUS
<1>1. \A p \in Procs : task[p].at = "idle"
  BY DEF Init, Idle
<1> QED  BY <1>1 DEF Init, ConsentInv, StopNeedsConsent, Reloaders

LEMMA NextConsent == TypeOK /\ ConsentInv /\ [Next]_vars => ConsentInv'
<1> SUFFICES ASSUME TypeOK, ConsentInv, [Next]_vars PROVE ConsentInv'
  OBVIOUS
<1> DEFINE Past(p) == task[p].at \in {"shutdown", "exit"}
<1> USE DEF outside, kernel, config, bounds
<1>t. task \in [Procs -> Tasks] /\ {"main"} \subseteq Procs /\ Conns \subseteq Procs
  BY DEF TypeOK, Procs
\* What a step has to show that changes one goroutine.
<1>a. ASSUME NEW p \in Procs,
             \A q \in Procs \ {p} : task'[q] = task[q],
             UNCHANGED <<file, binary, startCfg, ungated>>,
             consent => consent',
             ~ungated => cfg' = "strict",
             ~ungated /\ task'[p].at = "set" => task'[p].loaded = "strict",
             Past(p)' => consent' \/ ungated,
             life' # "up" => consent' \/ ungated
      PROVE  ConsentInv'
  BY <1>a DEF ConsentInv, StopNeedsConsent, Reloaders
<1>b. ASSUME UNCHANGED <<life, config, file, binary, task, consent, ungated>>
      PROVE  ConsentInv'
  BY <1>b DEF ConsentInv, StopNeedsConsent, Reloaders
<1>c. ASSUME NEW p \in Procs, Load(p) PROVE ConsentInv'
  <2>1. task'[p].at # "shutdown" /\ task'[p].at # "exit"
    <3>1. CASE file = "unreadable"
      BY <1>c, <3>1, <1>t DEF Load, Finish, Idle, Tasks
    <3>2. CASE file # "unreadable"
      BY <1>c, <3>2, <1>t DEF Load, Tasks
    <3> QED  BY <3>1, <3>2
  <2>2. ~ungated /\ task'[p].at = "set" => task'[p].loaded = "strict"
    BY <1>c, <1>t DEF Load, Finish, Idle, ConsentInv, Tasks
  <2>3. \A q \in Procs \ {p} : task'[q] = task[q]
    BY <1>c, <1>t DEF Load, Finish
  <2>4. UNCHANGED <<file, binary, startCfg, ungated, cfg, consent, life>>
    BY <1>c DEF Load
  <2> QED  BY <1>a, <2>1, <2>2, <2>3, <2>4 DEF ConsentInv, StopNeedsConsent
<1>1. ASSUME NEW p \in Conns, Start(p) PROVE ConsentInv'
  <2>1. CASE Pause(p) \/ Enable(p)
    <3>1. PICK k \in Commands, n \in Nat \cup PauseLengths : Change(p, k, n)
      BY <2>1 DEF Pause, Enable, Commands
    <3>2. task'[p].at = "send" /\ \A q \in Procs \ {p} : task'[q] = task[q]
      BY <3>1, <1>t DEF Change, Tasks
    <3> QED  BY <1>a, <1>t, <3>1, <3>2 DEF Change, ConsentInv, StopNeedsConsent
  <2>2. CASE Reload(p)
    BY <2>2, <1>c, <1>t DEF Reload
  <2>3. CASE Stop(p)
    <3>1. task'[p].at = "stop" /\ \A q \in Procs \ {p} : task'[q] = task[q]
      BY <2>3, <1>t DEF Stop, Go, Tasks
    <3> QED  BY <1>a, <1>t, <2>3, <3>1 DEF Stop, ConsentInv, StopNeedsConsent
  <2> QED  BY <1>1, <2>1, <2>2, <2>3 DEF Start
<1>2. ASSUME NEW p \in Procs, Step(p) PROVE ConsentInv'
  <2>o. \A q \in Procs \ {p} : task'[q] = task[q]
    BY <1>2, <1>t DEF Step, Send, SetConfig, Push, RequestApproval, Check, Phone,
                      Shutdown, Exit, Go, Finish
  <2>1. CASE Send(p)
    <3>1. task'[p].at = "idle"
      BY <2>1, <1>t DEF Send, Finish, Idle
    <3> QED  BY <1>a, <2>o, <2>1, <3>1 DEF Send, ConsentInv, StopNeedsConsent
  <2>2. CASE SetConfig(p)
    <3>1. task'[p].at = "push" /\ (~ungated => cfg' = "strict")
      BY <2>2, <1>t DEF SetConfig, Idle, At, Reloaders, ConsentInv
    <3> QED  BY <1>a, <2>o, <2>2, <3>1 DEF SetConfig, ConsentInv, StopNeedsConsent
  <2>3. CASE Push(p)
    <3>1. task'[p].at = "idle"
      BY <2>3, <1>t DEF Push, Finish, Idle
    <3> QED  BY <1>a, <2>o, <2>3, <3>1 DEF Push, ConsentInv, StopNeedsConsent
  <2>4. CASE RequestApproval(p)
    <3>1. task'[p].at = IF Configured(cfg) /\ binary THEN "check" ELSE "shutdown"
      BY <2>4, <1>t DEF RequestApproval, Go, Tasks
    <3>2. ~(Configured(cfg) /\ binary) => ungated
      BY DEF ConsentInv, Configured
    <3> QED  BY <1>a, <2>o, <2>4, <3>1, <3>2 DEF RequestApproval, ConsentInv, StopNeedsConsent
  <2>5. CASE Check(p)
    <3>1. \/ task'[p].at = IF file = "strict" THEN "phone" ELSE "shutdown"
          \/ task'[p].at = "idle"
      BY <2>5, <1>t DEF Check, Go, Finish, Idle, Tasks
    <3>2. file # "strict" => ungated
      BY DEF ConsentInv
    <3> QED  BY <1>a, <2>o, <2>5, <3>1, <3>2 DEF Check, ConsentInv, StopNeedsConsent
  <2>6. CASE Phone(p)
    <3>1. \/ task'[p].at = "shutdown" /\ consent'
          \/ task'[p].at = "idle" /\ consent' = consent
      BY <2>6, <1>t DEF Phone, Go, Finish, Idle, Tasks
    <3> QED  BY <1>a, <2>o, <2>6, <3>1 DEF Phone, ConsentInv, StopNeedsConsent
  <2>7. CASE Shutdown(p)
    <3>1. consent \/ ungated
      BY <2>7 DEF Shutdown, At, ConsentInv
    <3>2. task'[p].at = "exit"
      BY <2>7, <1>t DEF Shutdown, Go, Tasks
    <3> QED  BY <1>a, <2>o, <2>7, <3>1, <3>2 DEF Shutdown, ConsentInv
  <2>8. CASE Exit(p)
    <3>1. consent \/ ungated
      BY <2>8 DEF Exit, At, ConsentInv
    <3> QED  BY <2>8, <3>1 DEF Exit, ConsentInv, StopNeedsConsent, Reloaders
  <2> QED  BY <1>2, <2>1, <2>2, <2>3, <2>4, <2>5, <2>6, <2>7, <2>8 DEF Step
<1>3. CASE TakeSignal
  <2>1. CASE Load("main")
    BY <2>1, <1>c, <1>t
  <2>2. CASE ~Load("main")
    <3>1. /\ task'["main"].at = IF Configured(startCfg) THEN "stop" ELSE "shutdown"
          /\ \A q \in Procs \ {"main"} : task'[q] = task[q]
          /\ UNCHANGED <<life, config, outside, consent, ungated>>
      BY <1>3, <2>2, <1>t DEF TakeSignal, Go, Tasks
    <3>2. ~Configured(startCfg) => ungated
      BY DEF ConsentInv, Configured
    <3> QED  BY <1>a, <1>t, <3>1, <3>2 DEF ConsentInv, StopNeedsConsent
  <2> QED  BY <2>1, <2>2
<1>4. CASE ChangeFile
  BY <1>4 DEF ChangeFile, ConsentInv, StopNeedsConsent, Reloaders
<1>5. CASE \/ Signal \/ MonitorTakes \/ MonitorDies \/ MonitorStarts
           \/ \E w \in Workers : FindsNoPause(w) \/ ReadPausedAgain(w) \/ ResetPaused(w)
           \/ Tick \/ UNCHANGED vars
  BY <1>5, <1>b DEF Signal, MonitorTakes, FindsNoPause, ReadPausedAgain, ResetPaused,
                    MonitorDies, MonitorStarts, Tick, vars
<1> QED  BY <1>1, <1>2, <1>3, <1>4, <1>5 DEF Next

\* No interleaving of STOP, SIGTERM and reloads shuts the daemon down unasked,
\* unless at some time since its start the binary was gone or the file was one
\* that makes no check ask, as the shipped one is.
THEOREM StopsOnConsent == Spec => []StopNeedsConsent
<1>1. ConsentInv => StopNeedsConsent
  BY DEF ConsentInv
<1> QED  BY <1>1, InitType, NextType, InitConsent, NextConsent, PTL DEF Spec

-----------------------------------------------------------------------------
(* The daemon uses what the last reload read                               *)

LEMMA InitReload == Init => ConfigInv
<1> SUFFICES ASSUME Init PROVE ConfigInv
  OBVIOUS
<1>1. \A p \in Procs : task[p].at = "idle"
  BY DEF Init, Idle
<1> QED  BY <1>1 DEF Init, ConfigInv, ConfigFollows, Reloaders

LEMMA NextReload == TypeOK /\ ConfigInv /\ [Next]_vars => ConfigInv'
<1> SUFFICES ASSUME TypeOK, ConfigInv, [Next]_vars PROVE ConfigInv'
  OBVIOUS
<1> USE DEF outside, kernel, config, bounds
<1>t. task \in [Procs -> Tasks] /\ {"main"} \subseteq Procs /\ Conns \subseteq Procs
  BY DEF TypeOK, Procs
\* A step of a goroutine that is in no reload, before and after.
<1>a. ASSUME NEW p \in Procs,
             \A q \in Procs \ {p} : task'[q] = task[q],
             task[p].at # "set", task'[p].at # "set",
             UNCHANGED <<cfg, lastLoad, tangled>>
      PROVE  ConfigInv'
  <2>1. Reloaders' = Reloaders /\ \A q \in Reloaders : task'[q] = task[q]
    BY <1>a DEF Reloaders
  <2> QED  BY <1>a, <2>1 DEF ConfigInv, ConfigFollows
<1>b. ASSUME UNCHANGED <<task, cfg, lastLoad, tangled>>
      PROVE  ConfigInv'
  BY <1>b DEF ConfigInv, ConfigFollows, Reloaders
<1>c. ASSUME NEW p \in Procs, At(p, "idle"), Load(p) PROVE ConfigInv'
  <2>1. CASE file = "unreadable"
    <3>1. /\ task'[p].at = "idle"
          /\ \A q \in Procs \ {p} : task'[q] = task[q]
          /\ UNCHANGED <<cfg, lastLoad, tangled>>
      BY <1>c, <2>1, <1>t DEF Load, Finish, Idle
    <3> QED  BY <1>a, <1>c, <3>1 DEF At
  <2>2. CASE file # "unreadable"
    <3>1. /\ task'[p].at = "set" /\ task'[p].loaded = lastLoad'
          /\ \A q \in Procs \ {p} : task'[q] = task[q]
          /\ tangled' = (Reloaders # {})
      BY <1>c, <2>2, <1>t DEF Load, Tasks
    <3>2. ~tangled' => Reloaders' = {p}
      BY <3>1 DEF Reloaders
    <3>3. Reloaders' # {}
      BY <3>1 DEF Reloaders
    <3> QED  BY <3>1, <3>2, <3>3 DEF ConfigInv, ConfigFollows
  <2> QED  BY <2>1, <2>2
<1>1. ASSUME NEW p \in Conns, Start(p) PROVE ConfigInv'
  <2>1. CASE Reload(p)
    BY <2>1, <1>c, <1>t DEF Reload
  <2>2. CASE Pause(p) \/ Enable(p) \/ Stop(p)
    <3>1. \A q \in Procs \ {p} : task'[q] = task[q]
      BY <2>2, <1>t DEF Pause, Enable, Stop, Change, Go
    <3>2. task[p].at = "idle"
      BY <2>2 DEF Pause, Enable, Stop, At
    <3>4. task'[p].at # "set"
      <4>1. CASE Pause(p) \/ Enable(p)
        <5>1. PICK k \in Commands, n \in Nat \cup PauseLengths : Change(p, k, n)
          BY <4>1 DEF Pause, Enable, Commands
        <5>2. task'[p].at = "send"
          BY <5>1, <1>t DEF Change, Tasks
        <5> QED  BY <5>2
      <4>2. CASE Stop(p)
        BY <4>2, <1>t DEF Stop, Go, Tasks
      <4> QED  BY <2>2, <4>1, <4>2
    <3>3. UNCHANGED <<cfg, lastLoad, tangled>>
      BY <2>2 DEF Pause, Enable, Stop, Change
    <3> QED  BY <1>a, <1>t, <3>1, <3>2, <3>3, <3>4
  <2> QED  BY <1>1, <2>1, <2>2 DEF Start
<1>2. ASSUME NEW p \in Procs, Step(p) PROVE ConfigInv'
  <2>1. CASE SetConfig(p)
    <3>1. /\ p \in Reloaders /\ cfg' = task[p].loaded
          /\ UNCHANGED <<lastLoad, tangled>>
      BY <2>1 DEF SetConfig, At, Reloaders
    <3>2. Reloaders' = Reloaders \ {p} /\ \A q \in Reloaders' : task'[q] = task[q]
      BY <2>1, <1>t DEF SetConfig, Idle, Reloaders
    <3> QED  BY <3>1, <3>2 DEF ConfigInv, ConfigFollows
  <2>2. CASE ~SetConfig(p)
    <3>1. \A q \in Procs \ {p} : task'[q] = task[q]
      BY <1>2, <2>2, <1>t DEF Step, Send, Push, RequestApproval, Check, Phone,
                              Shutdown, Exit, Go, Finish
    <3>2. task[p].at # "set"
      BY <1>2, <2>2 DEF Step, Send, Push, RequestApproval, Check, Phone, Shutdown,
                        Exit, At
    <3>3. task'[p].at # "set"
      <4>1. CASE Exit(p)
        BY <4>1, <3>2 DEF Exit
      <4>2. CASE Send(p) \/ Push(p)
        BY <4>2, <1>t DEF Send, Push, Finish, Idle, Tasks
      <4>3. CASE RequestApproval(p) \/ Shutdown(p)
        BY <4>3, <1>t DEF RequestApproval, Shutdown, Go, Tasks
      <4>4. CASE Check(p)
        BY <4>4, <1>t DEF Check, Go, Finish, Idle, Tasks
      <4>5. CASE Phone(p)
        BY <4>5, <1>t DEF Phone, Go, Finish, Idle, Tasks
      <4> QED  BY <1>2, <2>2, <4>1, <4>2, <4>3, <4>4, <4>5 DEF Step
    <3>4. UNCHANGED <<cfg, lastLoad, tangled>>
      BY <1>2, <2>2 DEF Step, Send, Push, RequestApproval, Check, Phone, Shutdown, Exit
    <3> QED  BY <1>a, <3>1, <3>2, <3>3, <3>4
  <2> QED  BY <2>1, <2>2
<1>3. CASE TakeSignal
  <2>1. CASE Load("main")
    BY <1>3, <2>1, <1>c, <1>t DEF TakeSignal
  <2>2. CASE ~Load("main")
    <3>1. /\ task["main"].at = "idle"
          /\ task'["main"].at \in {"stop", "shutdown"}
          /\ \A q \in Procs \ {"main"} : task'[q] = task[q]
          /\ UNCHANGED <<cfg, lastLoad, tangled>>
      BY <1>3, <2>2, <1>t DEF TakeSignal, Go, Tasks, At
    <3> QED  BY <1>a, <1>t, <3>1
  <2> QED  BY <2>1, <2>2
<1>4. CASE \/ Signal \/ ChangeFile \/ MonitorTakes \/ MonitorDies \/ MonitorStarts
           \/ \E w \in Workers : FindsNoPause(w) \/ ReadPausedAgain(w) \/ ResetPaused(w)
           \/ Tick \/ UNCHANGED vars
  BY <1>4, <1>b DEF Signal, ChangeFile, MonitorTakes, FindsNoPause, ReadPausedAgain,
                    ResetPaused, MonitorDies, MonitorStarts, Tick, vars
<1> QED  BY <1>1, <1>2, <1>3, <1>4 DEF Next

\* With no reload under way and none that overlapped another, the daemon uses
\* the configuration the last reload read: neither a file that fails to parse
\* nor STOP, SIGTERM or another command in between undoes it.
THEOREM ReloadIsFollowed == Spec => []ConfigFollows
<1>1. ConfigInv => ConfigFollows
  BY DEF ConfigInv
<1> QED  BY <1>1, InitType, NextType, InitReload, NextReload, PTL DEF Spec

-----------------------------------------------------------------------------
(* The exec monitor follows PAUSE and ENABLE                               *)

LEMMA InitLink == Init => LinkInv
<1> SUFFICES ASSUME Init PROVE LinkInv
  OBVIOUS
<1>1. Senders = {}
  BY DEF Init, Idle, Senders
<1> QED  BY <1>1 DEF Init, LinkInv, NoPause

LEMMA NextLink == TypeOK /\ LinkInv /\ [Next]_vars => LinkInv'
<1> SUFFICES ASSUME TypeOK, LinkInv, [Next]_vars PROVE LinkInv'
  OBVIOUS
<1> USE DEF outside, kernel, config, bounds
<1>t. task \in [Procs -> Tasks] /\ {"main"} \subseteq Procs /\ Conns \subseteq Procs
  BY DEF TypeOK, Procs
<1>n. /\ clock \in Nat /\ pause.until \in Nat /\ monitor.pause.until \in Nat
      /\ \A p \in Procs : task[p].n \in Nat
      /\ link \in Seq(Messages)
  BY <1>t DEF TypeOK, Tasks, Pauses, Monitors
\* The monitor goes; whoever sends, goes on sending.
<1>m. ASSUME MonitorGone, Senders' = Senders, \A q \in Senders : task'[q] = task[q],
             UNCHANGED <<pause, clock>>
      PROVE  LinkInv'
  BY <1>m DEF MonitorGone, LinkInv, Says
\* A step of a goroutine that sends nothing, before and after.
<1>a. ASSUME NEW p \in Procs,
             \A q \in Procs \ {p} : task'[q] = task[q],
             task[p].at # "send", task'[p].at # "send",
             UNCHANGED <<pause, link, monitor, clock, drift>>
      PROVE  LinkInv'
  <2>1. Senders' = Senders /\ \A q \in Senders : task'[q] = task[q]
    BY <1>a DEF Senders
  <2> QED  BY <1>a, <2>1 DEF LinkInv, Says
<1>b. ASSUME UNCHANGED <<task, pause, link, monitor, clock, drift>>
      PROVE  LinkInv'
  BY <1>b DEF LinkInv, Says, Senders
<1>c. ASSUME NEW p \in Procs, At(p, "idle"), Load(p) PROVE LinkInv'
  <2>1. UNCHANGED <<pause, link, monitor, clock, drift>>
    BY <1>c DEF Load
  <2>2. \A q \in Procs \ {p} : task'[q] = task[q]
    BY <1>c, <1>t DEF Load, Finish
  <2>3. task'[p].at # "send"
    <3>1. CASE file = "unreadable"
      BY <1>c, <3>1, <1>t DEF Load, Finish, Idle, Tasks
    <3>2. CASE file # "unreadable"
      BY <1>c, <3>2, <1>t DEF Load, Tasks
    <3> QED  BY <3>1, <3>2
  <2> QED  BY <1>a, <1>c, <2>1, <2>2, <2>3 DEF At
<1>d. ASSUME NEW p \in Procs, NEW k \in Commands, NEW n \in Nat,
             k = "PAUSE" \/ k = "ENABLE", Change(p, k, n)
      PROVE  LinkInv'
  <2>1. /\ task'[p].cmd = k /\ task'[p].n = n /\ task'[p].at = "send"
        /\ \A q \in Procs \ {p} : task'[q] = task[q]
    BY <1>d, <1>t DEF Change, Tasks
  <2>2. p \in Senders' /\ (~drift' => Senders' = {p})
    BY <1>d, <2>1 DEF Change, Senders
  <2>3. Says(k, n)'
    <3>1. CASE k = "PAUSE"
      BY <1>d, <1>n, <3>1 DEF Change, Says
    <3>2. CASE k = "ENABLE"
      BY <1>d, <1>n, <3>2 DEF Change, Says, NoPause
    <3> QED  BY <1>d, <3>1, <3>2
  <2> QED  BY <2>1, <2>2, <2>3 DEF LinkInv, Says
<1>1. ASSUME NEW p \in Conns, Start(p) PROVE LinkInv'
  <2>1. CASE Pause(p)
    BY <2>1, <1>d, <1>t, DaemonAssumption DEF Pause, Commands
  <2>2. CASE Enable(p)
    BY <2>2, <1>d, <1>t DEF Enable, Commands
  <2>3. CASE Reload(p)
    BY <2>3, <1>c, <1>t DEF Reload
  <2>4. CASE Stop(p)
    <3>1. /\ task[p].at = "idle" /\ task'[p].at = "stop"
          /\ \A q \in Procs \ {p} : task'[q] = task[q]
          /\ UNCHANGED <<pause, link, monitor, clock, drift>>
      BY <2>4, <1>t DEF Stop, Go, At, Tasks
    <3> QED  BY <1>a, <1>t, <3>1
  <2> QED  BY <1>1, <2>1, <2>2, <2>3, <2>4 DEF Start
<1>2. ASSUME NEW p \in Procs, Step(p) PROVE LinkInv'
  <2>o. \A q \in Procs \ {p} : task'[q] = task[q]
    BY <1>2, <1>t DEF Step, Send, SetConfig, Push, RequestApproval, Check, Phone,
                      Shutdown, Exit, Go, Finish
  <2>1. CASE Send(p)
    <3>1. CASE drift'
      BY <3>1 DEF LinkInv
    <3>2. CASE ~drift'
      <4> DEFINE m == [cmd |-> task[p].cmd, n |-> task[p].n]
      <4>1. ~drift /\ link' = Append(link, m) /\ monitor.up /\ monitor' = monitor
        BY <2>1, <3>2 DEF Send
      <4>2. p \in Senders /\ Says(m.cmd, m.n)
        BY <2>1, <4>1 DEF Send, At, Senders, LinkInv
      <4>3. task'[p].at = "idle"
        BY <2>1, <1>t DEF Send, Finish, Idle
      <4>4. Senders' = {}
        BY <2>o, <4>1, <4>2, <4>3 DEF Senders, LinkInv
      <4>5. m \in Messages
        BY <1>t DEF Tasks, Messages
      <4>6. link' # <<>> /\ link'[Len(link')] = m
        BY <4>1, <4>5, <1>n
      <4>7. Says(link[Len(link)].cmd, link[Len(link)].n)'
        BY <2>1, <4>2, <4>6 DEF Send, Says
      <4> QED  BY <4>1, <4>4, <4>6, <4>7 DEF LinkInv
    <3> QED  BY <3>1, <3>2
  <2>2. CASE Push(p) \/ Shutdown(p)
    <3>1. task[p].at # "send"
      BY <2>2 DEF Push, Shutdown, At
    <3>2. task'[p].at # "send"
      <4>1. CASE Push(p)
        BY <4>1, <1>t DEF Push, Finish, Idle, Tasks
      <4>2. CASE Shutdown(p)
        BY <4>2, <1>t DEF Shutdown, Go, Tasks
      <4> QED  BY <2>2, <4>1, <4>2
    <3>3. Senders' = Senders /\ \A q \in Senders : task'[q] = task[q]
      BY <2>o, <3>1, <3>2 DEF Senders
    <3> QED  BY <1>m, <2>2, <3>3 DEF Push, Shutdown
  <2>3. CASE Exit(p)
    BY <2>3, <1>b DEF Exit
  <2>4. CASE SetConfig(p)
    <3>1. task[p].at # "send" /\ task'[p].at # "send"
      BY <2>4, <1>t DEF SetConfig, Idle, At
    <3> QED  BY <1>a, <2>o, <2>4, <3>1 DEF SetConfig
  <2>5. CASE RequestApproval(p)
    <3>1. task[p].at # "send" /\ task'[p].at # "send"
      BY <2>5, <1>t DEF RequestApproval, Go, Tasks, At
    <3> QED  BY <1>a, <2>o, <2>5, <3>1 DEF RequestApproval
  <2>6. CASE Check(p)
    <3>1. task[p].at # "send"
      BY <2>6 DEF Check, At
    <3>2. task'[p].at # "send"
      BY <2>6, <1>t DEF Check, Go, Finish, Idle, Tasks
    <3> QED  BY <1>a, <2>o, <2>6, <3>1, <3>2 DEF Check
  <2>7. CASE Phone(p)
    <3>1. task[p].at # "send"
      BY <2>7 DEF Phone, At
    <3>2. task'[p].at # "send"
      BY <2>7, <1>t DEF Phone, Go, Finish, Idle, Tasks
    <3> QED  BY <1>a, <2>o, <2>7, <3>1, <3>2 DEF Phone
  <2> QED  BY <1>2, <2>1, <2>2, <2>3, <2>4, <2>5, <2>6, <2>7 DEF Step
<1>3. CASE TakeSignal
  <2>1. CASE Load("main")
    BY <1>3, <2>1, <1>c, <1>t DEF TakeSignal
  <2>2. CASE ~Load("main")
    <3>1. /\ task["main"].at = "idle"
          /\ task'["main"].at \in {"stop", "shutdown"}
          /\ \A q \in Procs \ {"main"} : task'[q] = task[q]
          /\ UNCHANGED <<pause, link, monitor, clock, drift>>
      BY <1>3, <2>2, <1>t DEF TakeSignal, Go, Tasks, At
    <3> QED  BY <1>a, <1>t, <3>1
  <2> QED  BY <2>1, <2>2
<1>4. CASE MonitorTakes
  <2>1. /\ Senders' = Senders /\ UNCHANGED <<task, pause, clock, drift>>
        /\ link # <<>> /\ link' = Tail(link) /\ monitor'.up
    BY <1>4 DEF MonitorTakes, Senders, TypeOK, Monitors
  <2>2. CASE Len(link) = 1
    <3>1. link' = <<>> /\ link[Len(link)] = Head(link)
      BY <2>1, <2>2, <1>n
    <3>2. Head(link).n \in Nat
      <4>1. Head(link) \in Messages
        BY <2>1, <1>n
      <4> QED  BY <4>1 DEF Messages
    <3>3. ~drift /\ Senders = {} => Says(Head(link).cmd, Head(link).n)
      BY <2>1, <3>1 DEF LinkInv
    <3>4. monitor'.pause = IF Head(link).cmd = "PAUSE"
                           THEN [on |-> TRUE, until |-> clock + Head(link).n] ELSE NoPause
      BY <1>4 DEF MonitorTakes, TypeOK, Monitors
    <3>5. ~drift /\ Senders = {} =>
            /\ monitor'.pause.on => pause.on
            /\ pause.on => /\ pause.until <= monitor'.pause.until
                           /\ ~monitor'.pause.on => monitor'.pause.until <= clock
      <4>1. CASE Head(link).cmd = "PAUSE"
        BY <3>3, <3>4, <4>1 DEF Says
      <4>2. CASE Head(link).cmd # "PAUSE"
        BY <3>3, <3>4, <4>2 DEF Says, NoPause
      <4> QED  BY <4>1, <4>2
    <3> QED  BY <2>1, <3>1, <3>5 DEF LinkInv, Says
  <2>3. CASE Len(link) # 1
    <3>1. link' # <<>> /\ link'[Len(link')] = link[Len(link)]
      <4>1. Len(link) \in Nat /\ Len(link) > 1
        <5>1. Len(link) \in Nat /\ Len(link) # 0
          BY <2>1, <1>n, EmptySeq
        <5>2. \A n \in Nat : n # 0 /\ n # 1 => n > 1
          OBVIOUS
        <5> QED  BY <2>3, <5>1, <5>2
      <4>2. Len(Tail(link)) = Len(link) - 1
        BY <2>1, <1>n
      <4>3. \A i \in 1 .. Len(link) - 1 : Tail(link)[i] = link[i + 1]
        BY <2>1, <1>n, HeadTailProperties
      <4>4. Tail(link)[Len(link) - 1] = link[Len(link)]
        BY <4>1, <4>3
      <4>5. link' = Tail(link) /\ Len(link') = Len(link) - 1
        BY <2>1, <4>2
      <4>6. link' # <<>>
        <5>1. Len(<<>>) = 0
          OBVIOUS
        <5>2. \A n \in Nat : n > 1 => n - 1 # 0
          OBVIOUS
        <5> QED  BY <4>1, <4>5, <5>1, <5>2
      <4> QED  BY <4>4, <4>5, <4>6
    <3>2. Says(link[Len(link)].cmd, link[Len(link)].n) =>
            Says(link[Len(link)].cmd, link[Len(link)].n)'
      BY <2>1, <3>1 DEF Says
    <3> QED  BY <2>1, <3>1, <3>2 DEF LinkInv, Says
  <2> QED  BY <2>2, <2>3
<1>5. ASSUME NEW w \in Workers, ResetPaused(w) PROVE LinkInv'
  <2>1. /\ Senders' = Senders /\ UNCHANGED <<task, pause, link, clock>>
        /\ monitor'.pause = [monitor.pause EXCEPT !.on = FALSE]
        /\ monitor'.up = monitor.up
    BY <1>5 DEF ResetPaused, Senders, TypeOK, Monitors
  <2>2. ~monitor'.pause.on /\ monitor'.pause.until = monitor.pause.until
    BY <2>1 DEF TypeOK, Monitors, Pauses
  <2>3. drift' = (drift \/ (InForce(monitor.pause) /\ Senders = {} /\ link = <<>>))
    BY <1>5 DEF ResetPaused
  <2>4. CASE drift'
    BY <2>4 DEF LinkInv
  \* No pause in force is undone: it is off or over already.
  <2>5. CASE ~drift'
    <3>1. ~drift /\ (Senders = {} /\ link = <<>> => ~InForce(monitor.pause))
      BY <2>3, <2>5
    <3>2. Senders = {} /\ link = <<>> /\ pause.on => monitor.pause.until <= clock
      BY <3>1, <1>n DEF LinkInv, InForce
    <3> QED  BY <2>1, <2>2, <3>1, <3>2, <1>n DEF LinkInv, Says
  <2> QED  BY <2>4, <2>5
<1>10. ASSUME NEW w \in Workers, FindsNoPause(w) \/ ReadPausedAgain(w) PROVE LinkInv'
  BY <1>10, <1>b DEF FindsNoPause, ReadPausedAgain
<1>6. CASE MonitorDies
  <2>1. Senders' = Senders
    BY <1>6 DEF MonitorDies, Senders
  <2> QED  BY <1>6, <1>m, <2>1 DEF MonitorDies
<1>9. CASE MonitorStarts
  <2>1. /\ Senders' = Senders /\ UNCHANGED <<task, pause, link, clock, drift>>
        /\ ~monitor.up /\ monitor'.up
    BY <1>9 DEF MonitorStarts, Senders
  <2> QED  BY <2>1 DEF LinkInv, Says
<1>7. CASE Tick
  <2>1. /\ Senders' = Senders /\ UNCHANGED <<task, pause, link, monitor, drift>>
        /\ clock' = clock + 1
    BY <1>7 DEF Tick, Senders
  <2>2. \A k \in Commands, n \in Nat : Says(k, n) => Says(k, n)'
    BY <2>1, <1>n DEF Says
  <2>3. \A p \in Senders : task[p].cmd \in Commands
    BY <1>t DEF Tasks, Senders
  <2>4. link # <<>> => link[Len(link)] \in Messages
    BY <1>n
  <2> QED  BY <2>1, <2>2, <2>3, <2>4, <1>n DEF LinkInv, Says, Messages, Senders
<1>8. CASE Signal \/ ChangeFile \/ UNCHANGED vars
  BY <1>8, <1>b DEF Signal, ChangeFile, vars
<1> QED  BY <1>1, <1>2, <1>3, <1>4, <1>5, <1>6, <1>7, <1>8, <1>9, <1>10 DEF Next

\* Once no PAUSE or ENABLE is under way, the exec monitor pauses only while the
\* daemon reports a pause, and throughout a pause the daemon reports, unless
\* the last of them overlapped, got lost, met a restarted monitor or was undone
\* by a worker's late reset, for any number of workers.
THEOREM MonitorIsFollowed == Spec => []MonitorFollows
<1>1. TypeOK /\ LinkInv => MonitorFollows
  BY DEF TypeOK, LinkInv, MonitorFollows, InForce, Pauses, Monitors
<1> QED  BY <1>1, InitType, NextType, InitLink, NextLink, PTL DEF Spec

-----------------------------------------------------------------------------
(* The three together                                                      *)

\* The inductive invariant the run checks: consent, the link to the exec
\* monitor and the loaded configuration hold side by side.
THEOREM Invariant == Spec => []DaemonInv
<1>1. TypeOK /\ ConsentInv /\ LinkInv /\ ConfigInv => DaemonInv
  BY DEF DaemonInv
<1> QED
  BY <1>1, InitType, NextType, InitConsent, NextConsent, InitLink, NextLink,
     InitReload, NextReload, PTL DEF Spec
=============================================================================
