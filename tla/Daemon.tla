------------------------------- MODULE Daemon -------------------------------
(***************************************************************************)
(* The Go daemon (cmd/daemon/main.go). The main goroutine serves signals,  *)
(* every control connection has a goroutine of its own, and STOP goes on   *)
(* in one more. They share DaemonState; PAUSE and ENABLE change it under   *)
(* its lock and forward themselves to the exec monitor outside it.         *)
(*                                                                         *)
(* The exec monitor appears as its side of the control socket: a backlog   *)
(* served in the order of the connections, the pause it is in and those of  *)
(* its workers that find a pause expired and reset it (ExecMon models the  *)
(* rest of it).                                                            *)
(***************************************************************************)
EXTENDS Integers, Sequences

CONSTANTS
    Conns,          \* slots for control connections under way at a time
    PauseLengths,   \* seconds a PAUSE may ask for
    Backlog,        \* of the exec monitor's control socket
    Workers,        \* worker threads of the exec monitor
    MaxClock,       \* bound on the clock
    MaxSignals,     \* bound on signals
    MaxEvents       \* bound on changes by others: file, binary, monitor crash

ASSUME DaemonAssumption ==
    /\ "main" \notin Conns
    /\ PauseLengths \subseteq Nat \ {0}
    /\ Backlog \in Nat
    /\ MaxClock \in Nat /\ MaxSignals \in Nat /\ MaxEvents \in Nat

VARIABLES
    life,       \* of the daemon process
    pause,      \* state.paused, state.pauseUntil
    cfg,        \* state.cfg
    startCfg,   \* cfg of run(), which the signal loop goes on using
    file,       \* the configuration file
    binary,     \* the authsec-shield binary is beside the daemon's
    task,       \* per goroutine: its command, where it is, the cfg it loaded
    pending,    \* the buffered signal of sigCh
    link,       \* commands in the backlog of the monitor's socket
    monitor,    \* the exec monitor: running, g_Paused, g_PauseUntil
    worker,     \* where its workers are between two reads of the pause
    clock, signals, events,
    consent,    \* history: the phone approved a stop
    ungated,    \* history: at some time a check would not have asked, or the binary was gone
    drift,      \* history: the last PAUSE or ENABLE overlapped another one, did
                \* not reach the monitor, or was undone there by a worker's late
                \* reset or a restart
    lastLoad,   \* history: what the last reload read
    tangled     \* history: two reloads overlapped

outside == <<file, binary, events>>
kernel  == <<link, monitor, worker>>
config  == <<cfg, startCfg, lastLoad, tangled>>
bounds  == <<clock, signals>>
vars    == <<life, pause, config, outside, task, pending, kernel, bounds,
             consent, ungated, drift>>

-----------------------------------------------------------------------------
\* A configuration: cannot be loaded; without a token; with one, but `check`
\* does not ask about a stop (disabled, paused, or as shipped: the default
\* dangerous_commands do not name stop-daemon, so that it scores 0); with
\* one, enforcing, and a table or threshold that makes it ask.
Files == {"unreadable", "loggedOut", "lax", "strict"}
Configs == Files \ {"unreadable"}
Configured(c) == c \in {"lax", "strict"}

Procs == Conns \cup {"main"}
Places == {"idle", "send", "set", "push", "stop", "check", "phone",
           "shutdown", "exit"}
Commands == {"none", "PAUSE", "ENABLE"}
Pauses == [on : BOOLEAN, until : Nat]
Messages == [cmd : Commands, n : Nat]
Monitors == [up : BOOLEAN, pause : Pauses]
Tasks == [cmd : Commands, n : Nat, at : Places, loaded : Configs]


\* A slot or the main goroutine that is "idle" takes the next command.
At(p, pc) == life # "exited" /\ task[p].at = pc
Go(p, pc) == task' = [task EXCEPT ![p].at = pc]
Idle == [cmd |-> "none", n |-> 0, at |-> "idle", loaded |-> "strict"]
Finish(p) == task' = [task EXCEPT ![p] = Idle]
Senders == {p \in Procs : task[p].at = "send"}
Reloaders == {p \in Procs : task[p].at = "set"}

NoPause == [on |-> FALSE, until |-> 0]
InForce(z) == z.on /\ clock < z.until

Init ==
    /\ life = "up"
    /\ pause = NoPause
    /\ file \in Configs
    /\ binary \in BOOLEAN
    /\ cfg = file /\ startCfg = file /\ lastLoad = file
    /\ task = [p \in Procs |-> Idle]
    /\ pending = "none"
    /\ link = <<>>
    /\ monitor = [up |-> TRUE, pause |-> NoPause]
    /\ worker = [w \in Workers |-> "idle"]
    /\ clock = 0 /\ signals = 0 /\ events = 0
    /\ consent = FALSE
    /\ ungated = (file # "strict" \/ ~binary)
    /\ drift = FALSE
    /\ tangled = FALSE

-----------------------------------------------------------------------------
(* PAUSE and ENABLE                                                        *)

\* The part under the lock. From here to the send, another one may overtake.
Change(p, k, n) ==
    /\ pause' = IF k = "PAUSE" THEN [on |-> TRUE, until |-> clock + n] ELSE NoPause
    /\ task' = [task EXCEPT ![p].cmd = k, ![p].n = n, ![p].at = "send"]
    /\ drift' = (Senders # {})
    /\ UNCHANGED <<life, config, outside, pending, kernel, bounds, consent, ungated>>

Pause(p) == At(p, "idle") /\ \E n \in PauseLengths : Change(p, "PAUSE", n)
Enable(p) == At(p, "idle") /\ Change(p, "ENABLE", 0)

\* Mutant: every other command is forwarded, ENABLE is not.
Send_PauseOnly(p) ==
    /\ At(p, "send")
    /\ link' = IF task[p].cmd = "ENABLE" \/ ~monitor.up THEN link
               ELSE Append(link, [cmd |-> task[p].cmd, n |-> task[p].n])
    /\ drift' = (drift \/ ~monitor.up)
    /\ Finish(p)
    /\ UNCHANGED <<life, pause, config, outside, pending, monitor, worker, bounds,
                   consent, ungated>>

\* sendKernelControl: errors are dropped, the client is told OK either way.
Send(p) ==
    /\ At(p, "send")
    /\ \/ /\ monitor.up /\ Len(link) <= Backlog
          /\ link' = Append(link, [cmd |-> task[p].cmd, n |-> task[p].n])
          /\ UNCHANGED drift
       \/ /\ ~monitor.up \/ Len(link) > Backlog
          /\ drift' = TRUE
          /\ UNCHANGED link
    /\ Finish(p)
    /\ UNCHANGED <<life, pause, config, outside, pending, monitor, worker, bounds,
                   consent, ungated>>

-----------------------------------------------------------------------------
(* RELOAD and SIGHUP                                                       *)

\* reloadConfig: a file that does not parse leaves everything as it is.
Load(p) ==
    /\ IF file = "unreadable"
       THEN Finish(p) /\ UNCHANGED <<lastLoad, tangled>>
       ELSE /\ task' = [task EXCEPT ![p].at = "set", ![p].loaded = file]
            /\ lastLoad' = file
            /\ tangled' = (Reloaders # {})
    /\ UNCHANGED <<life, pause, cfg, startCfg, outside, kernel, bounds, consent,
                   ungated, drift>>

Reload(p) == At(p, "idle") /\ p # "main" /\ Load(p) /\ UNCHANGED pending

\* Mutant: the configuration of the start is kept.
SetConfig_Keeps(p) ==
    /\ At(p, "set")
    /\ cfg' = startCfg
    /\ Go(p, "push")
    /\ UNCHANGED <<life, pause, startCfg, lastLoad, tangled, outside, pending, kernel,
                   bounds, consent, ungated, drift>>

\* state.cfg = cfg under the lock.
SetConfig(p) ==
    /\ At(p, "set")
    /\ cfg' = task[p].loaded
    /\ task' = [task EXCEPT ![p] = [Idle EXCEPT !.at = "push"]]
    /\ UNCHANGED <<life, pause, startCfg, lastLoad, tangled, outside, pending, kernel,
                   bounds, consent, ungated, drift>>

\* The monitor is gone with the commands it had not taken, and what it knew of
\* a pause: unless one is still on its way, the monitor lags behind the daemon.
MonitorGone ==
    /\ monitor' = [up |-> FALSE, pause |-> NoPause]
    /\ worker' = [w \in Workers |-> "idle"]
    /\ link' = <<>>
    /\ drift' = (drift \/ Senders = {})

\* PushPaths restarts the kernel services; nothing waits for it.
Push(p) ==
    /\ At(p, "push")
    /\ MonitorGone
    /\ Finish(p)
    /\ UNCHANGED <<life, pause, config, outside, pending, bounds, consent, ungated>>

-----------------------------------------------------------------------------
(* STOP, SIGTERM and SIGINT                                                *)

Stop(p) ==
    /\ At(p, "idle")
    /\ p # "main"
    /\ Go(p, "stop")
    /\ UNCHANGED <<life, pause, config, outside, pending, kernel, bounds, consent,
                   ungated, drift>>

\* Mutant: while one request waits for the phone, a second one passes.
RequestApproval_OneAtATime(p) ==
    /\ At(p, "stop")
    /\ Go(p, IF Configured(cfg) /\ binary /\ \A q \in Procs : task[q].at # "phone"
             THEN "check" ELSE "shutdown")
    /\ UNCHANGED <<life, pause, config, outside, pending, kernel, bounds, consent,
                   ungated, drift>>

\* requestShutdownApproval, in the daemon: nothing to ask for without a token
\* or without the binary that asks.
RequestApproval(p) ==
    /\ At(p, "stop")
    /\ Go(p, IF Configured(cfg) /\ binary THEN "check" ELSE "shutdown")
    /\ UNCHANGED <<life, pause, config, outside, pending, kernel, bounds, consent,
                   ungated, drift>>

\* `authsec-shield check`: a process that loads the file itself, and exits 0
\* where nothing is enforced or the command scores low. Its start may fail.
Check(p) ==
    /\ At(p, "check")
    /\ \/ binary /\ Go(p, IF file = "strict" THEN "phone" ELSE "shutdown")
       \/ ~binary /\ Finish(p)
    /\ UNCHANGED <<life, pause, config, outside, pending, kernel, bounds, consent,
                   ungated, drift>>

\* The phone answers, or the polls of the check run out.
Phone(p) ==
    /\ At(p, "phone")
    /\ \/ Go(p, "shutdown") /\ consent' = TRUE
       \/ Finish(p) /\ UNCHANGED consent
    /\ UNCHANGED <<life, pause, config, outside, pending, kernel, bounds, ungated, drift>>

\* shutdown: the kernel services are stopped ...
Shutdown(p) ==
    /\ At(p, "shutdown")
    /\ life' = "stopping"
    /\ MonitorGone
    /\ Go(p, "exit")
    /\ UNCHANGED <<pause, config, outside, pending, bounds, consent, ungated>>

\* ... and the process exits, with every goroutine in it.
Exit(p) ==
    /\ At(p, "exit")
    /\ life' = "exited"
    /\ UNCHANGED <<pause, config, outside, task, pending, kernel, bounds, consent,
                   ungated, drift>>

-----------------------------------------------------------------------------
(* The signal loop                                                         *)

\* sigCh holds one signal; what comes while it is full is dropped.
Signal ==
    /\ life # "exited"
    /\ signals < MaxSignals
    /\ signals' = signals + 1
    /\ pending' \in IF pending = "none" THEN {"HUP", "TERM"} ELSE {pending}
    /\ UNCHANGED <<life, pause, config, outside, task, kernel, clock, consent,
                   ungated, drift>>

\* SIGTERM asks only if the configuration of the start had a token.
TakeSignal ==
    /\ At("main", "idle")
    /\ pending # "none"
    /\ pending' = "none"
    /\ \/ pending = "HUP" /\ Load("main")
       \/ /\ pending = "TERM"
          /\ Go("main", IF Configured(startCfg) THEN "stop" ELSE "shutdown")
          /\ UNCHANGED <<life, pause, config, outside, kernel, bounds, consent,
                         ungated, drift>>

-----------------------------------------------------------------------------
(* Others (external): the command line tool, the exec monitor, the clock   *)

ChangeFile ==
    /\ events < MaxEvents
    /\ events' = events + 1
    /\ \/ /\ file' \in Files \ {file}
          /\ UNCHANGED binary
       \/ /\ binary' = FALSE
          /\ UNCHANGED file
    /\ ungated' = (ungated \/ file' # "strict" \/ ~binary')
    /\ UNCHANGED <<life, pause, config, task, pending, kernel, bounds, consent, drift>>

\* control_thread takes the next connection.
MonitorTakes ==
    /\ monitor.up
    /\ link # <<>>
    /\ link' = Tail(link)
    /\ monitor' = [monitor EXCEPT !.pause =
                     IF Head(link).cmd = "PAUSE"
                     THEN [on |-> TRUE, until |-> clock + Head(link).n] ELSE NoPause]
    /\ UNCHANGED <<life, pause, config, outside, task, pending, worker, bounds,
                   consent, ungated, drift>>

\* A worker looks for a pause in force and finds none: g_Paused is clear, or
\* g_PauseUntil is over. PAUSE writes the second before the first, ENABLE the
\* other way round; what a worker can find between two such writes it can
\* find before or after both.
FindsNoPause(w) ==
    /\ monitor.up
    /\ worker[w] = "idle"
    /\ ~InForce(monitor.pause)
    /\ worker' = [worker EXCEPT ![w] = "recheck"]
    /\ UNCHANGED <<life, pause, config, outside, task, pending, link, monitor, bounds,
                   consent, ungated, drift>>

\* else if (g_Paused): a read of its own, which may see a later PAUSE.
ReadPausedAgain(w) ==
    /\ worker[w] = "recheck"
    /\ worker' = [worker EXCEPT ![w] = IF monitor.pause.on THEN "reset" ELSE "idle"]
    /\ UNCHANGED <<life, pause, config, outside, task, pending, link, monitor, bounds,
                   consent, ungated, drift>>

\* g_Paused = 0, whatever pause is set by now. One in force that no command
\* on its way will set again is lost.
ResetPaused(w) ==
    /\ worker[w] = "reset"
    /\ worker' = [worker EXCEPT ![w] = "idle"]
    /\ monitor' = [monitor EXCEPT !.pause.on = FALSE]
    /\ drift' = (drift \/ (InForce(monitor.pause) /\ Senders = {} /\ link = <<>>))
    /\ UNCHANGED <<life, pause, config, outside, task, pending, link, bounds, consent,
                   ungated>>

MonitorDies ==
    /\ monitor.up
    /\ events < MaxEvents
    /\ events' = events + 1
    /\ MonitorGone
    /\ UNCHANGED <<life, pause, config, file, binary, task, pending, bounds, consent,
                   ungated>>

\* systemd starts the monitor again, unless the daemon has stopped the service.
MonitorStarts ==
    /\ ~monitor.up
    /\ life = "up"
    /\ monitor' = [up |-> TRUE, pause |-> NoPause]
    /\ UNCHANGED <<life, pause, config, outside, task, pending, link, worker, bounds,
                   consent, ungated, drift>>

Tick ==
    /\ clock < MaxClock
    /\ clock' = clock + 1
    /\ UNCHANGED <<life, pause, config, outside, task, pending, kernel, signals,
                   consent, ungated, drift>>

-----------------------------------------------------------------------------
Start(p) == Pause(p) \/ Enable(p) \/ Reload(p) \/ Stop(p)

Step(p) ==
    \/ Send(p) \/ SetConfig(p) \/ Push(p) \/ RequestApproval(p) \/ Check(p)
    \/ Phone(p) \/ Shutdown(p) \/ Exit(p)

Next ==
    \/ \E p \in Conns : Start(p)
    \/ \E p \in Procs : Step(p)
    \/ Signal \/ TakeSignal
    \/ ChangeFile \/ Tick
    \/ MonitorTakes \/ MonitorDies \/ MonitorStarts
    \/ \E w \in Workers : FindsNoPause(w) \/ ReadPausedAgain(w) \/ ResetPaused(w)

Spec == Init /\ [][Next]_vars

-----------------------------------------------------------------------------
(* Properties                                                              *)

\* Type invariant of the daemon, its surroundings and the history.
TypeOK ==
    /\ life \in {"up", "stopping", "exited"}
    /\ pause \in Pauses
    /\ cfg \in Configs /\ startCfg \in Configs /\ lastLoad \in Configs
    /\ file \in Files
    /\ binary \in BOOLEAN /\ consent \in BOOLEAN /\ ungated \in BOOLEAN
    /\ drift \in BOOLEAN /\ tangled \in BOOLEAN
    /\ task \in [Procs -> Tasks]
    /\ pending \in {"none", "HUP", "TERM"}
    /\ link \in Seq(Messages)
    /\ monitor \in Monitors
    /\ worker \in [Workers -> {"idle", "recheck", "reset"}]
    /\ clock \in Nat /\ signals \in Nat /\ events \in Nat

\* The daemon shuts down only after the phone approved, whatever STOP,
\* SIGTERM and reloads interleave (requestShutdownApproval), unless at some
\* time since its start the binary was gone or the file would not have made
\* a check ask. The configuration it ships with is such a file: under it the
\* daemon stops unasked, although main.go:13 and :251 promise an approval.
StopNeedsConsent == life # "up" => consent \/ ungated

\* With no PAUSE or ENABLE under way, the monitor is paused only if the daemon
\* says so, and whenever a pause it reports is in force (handleControl),
\* unless the last of them overlapped another, was lost, met a new monitor,
\* or was undone by a worker that reset an earlier pause late (`drift`). The
\* next one that is alone brings the two together again.
MonitorFollows ==
    Senders = {} /\ link = <<>> /\ ~drift =>
        /\ InForce(monitor.pause) => pause.on
        /\ InForce(pause) => InForce(monitor.pause)

\* With no reload under way and none that overlapped another, the daemon uses
\* what the last reload read (reloadConfig).
ConfigFollows == Reloaders = {} /\ ~tangled => cfg = lastLoad

-----------------------------------------------------------------------------
(* The inductive invariant behind them                                     *)

\* As long as nothing was ungated, every copy of the configuration is strict,
\* and whoever is past the phone has its consent.
ConsentInv ==
    /\ StopNeedsConsent
    /\ ~ungated => /\ {file, cfg, startCfg} = {"strict"} /\ binary
                   /\ \A p \in Reloaders : task[p].loaded = "strict"
    /\ (\E p \in Procs : task[p].at \in {"shutdown", "exit"}) => consent \/ ungated

\* A PAUSE or ENABLE on its way says what the daemon says.
Says(k, n) ==
    /\ k = "PAUSE" <=> pause.on
    /\ pause.on => pause.until <= clock + n

\* Without drift one sender at most is under way; it, else the last command
\* of the backlog, else the monitor agrees with the daemon.
LinkInv ==
    ~drift =>
      /\ \A p, q \in Senders : p = q
      /\ \A p \in Senders : Says(task[p].cmd, task[p].n)
      /\ Senders = {} => monitor.up
      /\ Senders = {} /\ link # <<>> => Says(link[Len(link)].cmd, link[Len(link)].n)
      /\ Senders = {} /\ link = <<>> =>
            /\ monitor.pause.on => pause.on
            /\ pause.on => /\ pause.until <= monitor.pause.until
                           /\ ~monitor.pause.on => monitor.pause.until <= clock

\* Without overlapping reloads, the one under way carries what was read last.
ConfigInv ==
    /\ ConfigFollows
    /\ ~tangled => /\ \A p, q \in Reloaders : p = q
                   /\ \A p \in Reloaders : task[p].loaded = lastLoad

DaemonInv == TypeOK /\ ConsentInv /\ LinkInv /\ ConfigInv
=============================================================================
