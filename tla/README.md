# AuthSec Agent Shield in TLA+

AuthSec Agent Shield asks a person's phone before a risky command runs. This
directory models the parts of it that decide, hold or forget something: the
client that asks, the monitors that suspend every exec and every open of a
protected path, the configuration and the locks the command line shares, the
daemon that ties them together, the proxy in front of MCP servers with the risk
engine behind it, and everything an installation leaves on a machine and has to
take away again. TLC checks small instances of each model; TLAPS proves the safety
results of all nine of them for every size.

`PROJECT.json` lists components, runs, hazards, theorems and, for every
definition, the lines it stands for.

## 1. Inventory

| Component | State | Operations | Hard because |
|---|---|---|---|
| approval client, `internal/approval/ciba.go` | request id, deadline, interval | evaluate, poll, give up | lost, late and failed answers; deadline against approval |
| exec monitor, `kernel/linux/execmon` | `g_Paused`, `g_PauseUntil`, `g_Running`, events in the kernel | event loop, a thread per event, PAUSE / ENABLE, signal handler | unlocked flags shared by all threads; a handler that blocks whatever thread it interrupts; crash with events open |
| command line, `cmd/shield`, `internal/config`, `internal/fsprotect` | `config.json`, immutable flags | setup, login, logout, pause, enable, install, uninstall, doctor; guarded commands | processes without a lock between them, in-place rewrites, kills, programs that fail |
| daemon, `cmd/daemon` | `DaemonState`, pending signal | STATUS, PAUSE, ENABLE, RELOAD, STOP, SIGHUP, SIGTERM | a goroutine per connection, forwarding outside the lock, a configuration that changes underneath |
| risk engine, `internal/risk` | none | score a command or tool call | wrappers in wrappers, options that look like commands, an order of rules |
| shims, `internal/wrappers` | binaries, backups, links on disk | install, uninstall, diagnose, repair | kills between renames, package upgrades, several copies on PATH |
| shell hooks, `internal/hooks` | start-up files of the user | install, diagnose, remove | in-place rewrites of somebody else's file, torn blocks, a binary that goes away |
| kernel manager, `internal/kernel` | services | start, stop, clean up, restart, push paths | errors it ignores, two ways to start a monitor, restarts that lose its pause |
| install, uninstall, doctor, enable, pause, `cmd/shield` | all of the above on one machine, a configuration in each home | up to eight steps in a row | a step fails in part, a kill in between, a boot, a torn configuration, a second home |
| fanotify monitor, `kernel/linux/fanotify` | events read, `g_Running`, buffers of answers | one event at a time, open or close: ask, poll, answer | a minute per event on the only thread; its own opens; answers without a body; a stop or crash with opens waiting |
| MCP proxy, `internal/mcpproxy` | two pipes | forward or block a tool call | order of messages, full pipes, errors sent the wrong way |
| login, `internal/auth` | device code, interval | request code, poll | `slow_down` against the deadline |
| Windows driver and bridge, `kernel/windows/minifilter` | pending list, path table | callbacks, ioctls, pipe | timeout against decision, unsigned lengths |
| argv capture, `execmon` and its eBPF program | ring of records | record, match by pid | pid reuse, counter overflow |
| detection, installers | none | read `/proc`; copy files | |

How they interact. A shim, the hook's `check` and the MCP proxy call the
approval client in their own process and read `config.json` themselves. The
exec monitor calls the service itself. `authsec-shield pause` only writes the
file; the daemon's PAUSE goes to the monitor over a socket; neither tells the
other. RELOAD makes the kernel manager restart the monitor. STOP makes the
daemon run `authsec-shield check` on a made-up command and stop if that exits 0.

What makes each modelled component correct:

* approval client: a reported verdict is the recorded one; a command is held
  for a bounded time; an approval in time is noticed; nothing else proceeds.
* exec monitor: a risky exec goes ahead only if approved, paused or unwatched;
  only an approval stops it, or a failure that has a name; whoever is suspended
  is answered.
* command line: the file is whole and holds what was saved last; a risky command
  gets past `enforceCommand` for named reasons only; no path stays unlocked
  unaccounted for.
* daemon: it stops only on consent, where its configuration makes the check ask;
  the monitor ends where the last command put it; the last reload counts.
* shims: no kill, upgrade or repair loses a program; a shim finds a program to run
  and never itself; install covers every copy; repair and uninstall put right what
  was broken.
* shell hooks: the user's lines stay; a shell asks once; no hook survives the
  binary it calls.
* install, uninstall, doctor: no lock without a list that names it; an uninstall
  leaves no monitor it could remove and no caller of the binary it removed; nothing
  locked or started before a login, a token, an enable or a repair.
* fanotify monitor: an open of a protected path passes only on its own approval,
  unread or misread; every open is answered.
* MCP proxy: a risky call is one request to the guard; messages keep their order
  and none is lost; no wrapper the engine sees through hides anything from it.

## 2. The modules

```
GuardDecision  <--refines--  ApprovalClient       ExecMon        ShieldConfig        Daemon
      ^                      ApprovalClientProofs ExecMonProofs  CommandLineProofs   DaemonProofs
      |                      MCApprovalClient     MCExecMon      MCShieldConfig      MCDaemon
      |
   refines
      |
   McpProxy   extends RiskEngine    Setup   extends KernelServices    Shims         ProfileHooks
   McpProxyProofs                   SetupProofs                       ShimsProofs   CommandLineProofs
   MCMcpProxy                       MCSetup                           MCShims       MCProfileHooks
   Fanotify
   FanotifyProofs
   MCFanotify
```

### GuardDecision
What any enforcement point promises of one operation: it waits, it proceeds only
on an approval given for it, it may be blocked at any time, and it does not wait
for ever. Two variables per request: the verdict and the outcome.

### ApprovalClient (`internal/approval/ciba.go`)
`RequestApproval` is `Submit`, `TakeEvaluation` / `EvaluationFails`;
`pollForDecision` is `LoopTest` within the sleep, `Poll`, `TakeStatus` /
`PollFails`. Time is what is left of the current sleep or HTTP timeout (`timer`)
and of the deadline (`left`). The clamps of interval and expiry (ciba.go:118-125)
are `ClampInterval` and `ClampExpiry`. The service is external: it may record,
decide, expire, answer without a known field, or not answer. A body is a record
of the three fields the client looks at.

### ExecMon (`kernel/linux/execmon/authsec_execmon.c`)
An exec goes `idle` → `queued` (kernel) → `buffered` (one `read` may take several
events) → a worker or, where `pthread_create` fails, the main thread inline.
`handle_exec_event_thread` reads `g_Paused`, then `g_PauseUntil`, then `g_Paused`
again, and may reset it: four actions (`Start`, `ReadPauseUntil`,
`ReadPausedAgain`, `ResetPaused`), because `control_thread` writes the same two
variables in two orders (`PauseCommand` / `PauseDone`, `EnableCommand` /
`EnableDone`). A signal takes any thread that does not hold one (`Signal`); the
thread stays in the handler until `HandlerReturns`. `Terminate`, `Kill` and
`Restart` are systemd's; the kernel allows what a dead monitor left open.
`call_agent_guard` is one state, `asking`; what it returns follows the approver
(`DecideExec`) or a fault. The faults that may happen are the constant `Faults`:
thread, malloc, read, curl, poll. The uninitialised buffer of a failed poll is a
choice of what it holds. The history variable `mishap` says that a failure ended this
process, or passed for a stop: a kill, a failed read (line 979 leaves the loop), a
failed `curl_easy_init` in the signal handler, a failed poll that reads as an
approval.

### ShieldConfig (`cmd/shield`, `internal/config`, `internal/fsprotect`)
Every invocation is a process. An administrative one starts by loading the file
(`Load`), works on its copy, then `Truncate` and `Write` are the two halves of
`os.WriteFile`; then it locks or unlocks the listed paths one by one
(`ChangePath`), or removes the configuration. A guarded command is
`enforceCommand` (`Enforce`, `Approval`) and `runAsShim` (`Unlock`, `RunTarget`,
`Relock`): `os.Exit` on a failing program skips the deferred lock. The first test of
`enforceCommand` lets a command pass whose environment has `AUTHSEC_SHIELD_ACTIVE=1`,
as that of every child of an approved command has: `Exempt`. The contents of
the file are its fields that decide anything, and whether it parses. Doctor's
repair is `Diagnose` and the same path steps. A listed path need not be there: it
cannot be locked then, and `Touch` is anybody who removes an open path or makes it
(again), without a lock.

### Daemon (`cmd/daemon/main.go`)
Each control connection is a slot of `Conns`; the STOP goroutine keeps its slot.
`Change` is what PAUSE and ENABLE do under the lock, `Send` the forwarding after
it. `Load`, `SetConfig` and `Push` are `reloadConfig`. `RequestApproval`, `Check`
and `Phone` are `requestShutdownApproval` and the process it starts; `Shutdown`
and `Exit` the two steps of stopping, between which everybody else still runs.
`TakeSignal` is the loop of `run`, which goes on using the configuration of the
start. A configuration is what a check of `stop-daemon` does with it: it does not
load, has no token, lets it pass (`lax`) or asks (`strict`). The configuration the
shield ships with is lax, since no rule gives `stop-daemon` points. The exec monitor
appears as its socket's backlog, its pause, and the workers that read it:
`MonitorTakes` serves connections in order, `FindsNoPause`, `ReadPausedAgain` and
`ResetPaused` are the reads and the late reset of ExecMon, `MonitorGone` is a restart,
a stop or a crash. The clock counts whole seconds, as the monitor's `time(NULL)` does. The
Linux host has systemd; the `pkill` fallback is left out.

### Shims (`internal/wrappers`)
One command: what is at `dir/command` and at its backup in every directory, and
the program a link leads to. `Visit` to `PlaceShimFails` are `InstallShims` for
one copy, split at each file operation: skip, keep an old backup, rename away,
place, take the rename back. On macOS a protected copy goes through
`installSIPShim` (`Clear`, `LinkBackup`, `PlaceSip`). `FindOrphans` to `Repaired`
are doctor's second half; `RemoveBoth`, `RemoveShim`, `Restore` the cases of
`UninstallShims`. `placeShim` is `Place`: a link, or the bytes of the shield
written over what is there, through a link if it is one. `Killed` may cut such a
write short; `PackagePut` is a package manager renaming a new version into place
at any time. The wrapper of Windows (`Wrap`) records which path it would run.
`Candidates` are the copies `UninstallShims` sees; on Windows the path that
`findBackupBinary` returns lacks its extension, so that a backup with nothing in front
of it is none of them. `removed` remembers what the shield itself takes away: the
user's own program and backup in `/usr/local/bin` (`installSIPShim`), and link and
backup of a linked command (uninstall takes them for a macOS pair).

### ProfileHooks (`internal/hooks/shell.go`)
A start-up file is a sequence of lines: markers, hook body, user lines in the
order they were added. `ReadFile` and `WriteFile` are the two halves of
`removeHookFromFile`, `AppendHook` is `appendHookToFile`, `SedWSL` the sed range
of `InstallWSL`. `RemoveHook` and `Sed` are the code's two ways of cutting the
block, which differ on torn blocks: the first takes what is between the first two
markers, the second goes through the file line by line (`SedLine`). The properties
speak of places in a file: `Keeps` that the user's lines are all there, once and in
order, `OneHook` that there is one whole hook and no piece of another. `WriteFails`, `AppendFails` and `Kill` leave
prefixes. `Begin` and `FilesDone` give the files each invocation visits, one home
or several; `RemoveBinary` is the last step of `cmdUninstall`.

### KernelServices and Setup (`internal/kernel/manager.go`, `cmd/shield/main.go`)
KernelServices gives what a call of the manager may make of each service, because
the code ignores most errors (`StartOutcomes`, `StopOutcomes`, `CleanOutcomes`): a
`systemctl enable --now` that enables and does not start is followed by a process
started directly, and a stop may do half of what it should.
Setup has one action per step of `cmdInstall`, `cmdUninstall`, `cmdDoctor`,
`cmdEnable` and `cmdPause`; `Steps` is their order. Every home has its own
configuration. `home` is the one an invocation runs in and whose file it loads into
`cfg`; `homes` are those it serves, which for an uninstall under sudo include the
home of the user behind it (`targetHomes`): `RemoveConfig` removes the files of all
of them, read or not. Shims, hooks and MCP clients are the callers of the shield's
binary, of one kind and home each; what an uninstall could not unlock or remove is
in `refused` and `left`, and what it removed from the lists although it was not
unlocked in `forgotten`. `Account` is login, logout and `setup`, with or without
`--token`; `Edit` the user's changes, `Deploy` a copied binary or `make
install-artifacts`; `Killed` and `Reboot` interrupt.

### RiskEngine and McpProxy (`internal/risk/engine.go`, `internal/mcpproxy/proxy.go`)
A command is a sequence of words; what the engine reads off one word is a
constant. `Unwrap` is `normalizeWrappedCommand`, `Sum` the rules that hold for
every program, `Escalate` the one that depends on the sum so far, `Score` the
whole of `EvaluateCommand` and `ToolScore` that of `EvaluateToolCall`. The two
thousand lines of rules for single programs only add points: for the program, for
words they look for behind it, and for an empty pair of quotes at the end
(engine.go:1601). `Rules`, a constant, has these points for every program.
The code compares its list of dangerous commands as text without regard to case;
`Dangerous` is the words it matches, so that an entry like `dd if=` stands for one
sequence per word it begins.
The forms of a wrapper that the unwrapping handles are `Wrappers`. Those it does not
are `Overlooked`: of `command -p`, `xargs -0`, `env -u NAME` and `sudo -D dir` it takes
the option or its value for the program, and `rm ./y` behind them scores 20 instead
of 40. MCMcpProxy assumes that they hide it (`OverlookedHide`), so that TLC checks
the exception to be one.
McpProxy extends it with the two goroutines of `Run`. Pipes are sequences that
keep what was written and count what was read; a line too long for a scanner
(`Long`, and any answer at `WriterEnds`) ends its goroutine. A write to the server
begins (`Write`) and returns (`Written`) when all but `PipeSize` messages have been
read, or when the server is gone.

### Fanotify (`kernel/linux/fanotify/authsec_shield_fanotify.c`)
One thread: `ReadEvents` takes some of the kernel's queue into `evBuf`, then
`HandleEvent` to `Respond` are `handle_event` for one event after the other, with
`Evaluate`, `Poll` and `PollsUsedUp` for `call_agent_guard`. The monitor is also told
of closes of files that were written (`Closes`): it asks about them in the same way,
although nobody waits. An answer without a body leaves the buffer for it as it was
allocated, and may show an earlier answer of the same process: `heard` are the events
whose answers are in that memory, `asked` is the event whose id is polled, and `misread`
the events that took the answer to another one. `Answer` is the write
of the response. `Signal` only clears `g_Running`, which the outer loop looks at
(`Exit`); `Kill` and `Restart` are systemd's. The kernel lets pass what a full
queue cannot hold and whoever waits when the descriptor is closed (`LetPass`). Every
open of the marked file systems waits for the monitor, the monitor's own too:
`OwnOpen` is libcurl opening a file there while it asks. The test for the monitor's
own pid (line 348) would have to run on the thread that now waits.

### MC modules
Each `MCx` extends its module, with symmetry on interchangeable processes where
no liveness is checked.

## 3. Runs

| Run | Question | Bounds | Result |
|---|---|---|---|
| `approval_client` | does the client report and wait right, and implement GuardDecision, liveness included? | one request; the seconds of the code scaled to 2..6, offered values on both sides of each minimum | holds |
| `exec_monitor` | can any interleaving of workers, control and signals clear a risky exec, or stop the monitor but on an approval or a mishap? | two execs, one risky; PAUSE of one second, clock to 2 so that it expires and is renewed; two signals, one restart | holds without `poll` faults |
| `exec_monitor_answers` | is everyone answered? | as above, no clock, one exempt exec | holds under fairness |
| `exec_monitor_pause_race` | does an acknowledged PAUSE last (`cmd/daemon/main.go:248`)? | two execs, two PAUSEs, clock to 3 | violated |
| `shield_config` | is the file sound, the command guarded, the lock accounted for? | two administrative commands of eight kinds, two guarded ones on one path that comes and goes, one kill, clock to 1 | holds |
| `shield_login` | does a pause last until its time (`cmd/shield/main.go:325`)? | one login, one pause | violated |
| `daemon` | stop only on consent, monitor and configuration follow? | two connections and the signal loop, one worker of the monitor, PAUSE of one second, clock to 1, one signal, one event from outside, one command waiting at the socket | holds |
| `shims` | does a program survive, a shim find it, and each command do what it promises? | one command, three directories (system, `/usr/local/bin`, the user's own with a link), two versions, all three systems | holds |
| `profile_hooks` | do the user's lines survive, and no dead or double hook? | two homes, the user's own file, root's or the one inside WSL; two lines, one torn write | holds |
| `setup` | is a lock ever forgotten, does an uninstall leave a monitor or a caller, does anything start unasked? | root and a user, one path, one monitor, a shim, a hook and an MCP client of the user's | holds |
| `mcp_proxy` | is everything read and answered in order, and a risky call guarded (GuardDecision, liveness included)? | two messages out of twenty-six, threshold 30, a pipe that one message fills | holds, liveness but for a stuck server |
| `fanotify` | can a guarded open pass without an approval of its own, or any open wait for ever? | two guarded opens, another one and a close of a guarded file, a queue of two, one poll, one restart | holds but for misread answers, liveness but for the monitor's own opens |

Why the bounds suffice to be interesting. Every race above needs two actors that
overlap once; two execs give a worker and a second worker or an inline one, two
commands give overlapping saves in either order, two connections plus the main
loop give three goroutines that ask to stop. Clocks reach one step past the end
of the shortest pause, so that expired, current and renewed pauses meet. One
restart or event separates "before" and "after". Three directories give a copy
that shadows another and one the shield searches last; two versions give an
upgrade before, during and after each command. One torn write is enough for an
open block, and a second fault in another invocation adds nothing new to a file.
Two messages give one that waits behind another in either order, and a pipe of no
length stands for a message longer than the 64 KB of a pipe, so that a write waits
for the server from the first one on; the messages cover every tool, every wrapper
the engine sees through, one it does not, and both sides of the threshold. Three
opens and a close fill a queue of two while another one comes; a second poll would
repeat the step of the first. Two homes give an uninstall under sudo whose own list
and whose other list differ; the default lists are empty there because a path on
them is listed even without a file. The theorems of section 5 remove the bounds
from the safety properties of ApprovalClient, ExecMon, ShieldConfig, Daemon,
Fanotify, Shims, ProfileHooks, Setup and McpProxy, and the bound of its run on the
length of a command.

Deadlock is not checked by TLC: every program here may come to rest (no exec under
way, every command done, the daemon exited). The one deadlock met, a fanotify
monitor that waits for itself, is the exception `EveryOpenAnswered` names.

### What the violated runs show

1. `shield_login`: login saves a copy it loaded minutes before, over a pause.
2. `exec_monitor_pause_race`: a worker that judged the previous pause expired
   clears `g_Paused` of the next one.

The passing runs state the promises of the code and its texts with their exact
exceptions. Several of these are disagreements of the code with its own words; the
exception says how far the words hold.

* `StopNeedsApproval` names the failures that end the exec monitor without an
  approval (`mishap`). `NoUnclearedExec` is checked without the `poll` fault: a failed
  poll leaves its buffer unwritten, and what it holds may read as an approval.
* `RiskyAdmitted` names three ways round an approval: the environment
  (`AUTHSEC_SHIELD_ACTIVE=1`), a configuration that does not enforce, and a file that
  a save has just truncated or left broken (`Config.Save` truncates before it writes,
  and `enforceCommand` lets pass what it cannot load).
* `UnlockedAccounted` excepts a path that pause or uninstall opened, whose shim was
  killed or ran a failing program (`os.Exit` skips the deferred lock, against
  `cmd/shield/main.go:1424`, "Re-protect when done"), or that was removed and made
  anew (`lapsed`). `lapsed` ends when the path is locked again.
* `StopNeedsConsent` excepts a daemon that since its start met a missing binary or a
  configuration under which the check does not ask (`ungated`). The configuration it
  ships with is one of those: the table gives `stop-daemon` no points, `check` exits
  0, and the daemon stops unasked, against `cmd/daemon/main.go:13` and `:251`.
* `MonitorFollows` holds unless the last PAUSE or ENABLE overlapped another, did not
  reach the monitor, was followed by a restart, or was undone by a worker that reset
  an earlier pause late (`drift`); `ConfigFollows` unless two reloads overlapped
  (`tangled`).
* `ProgramKept` excepts what a package wrote over a shim or, through a link, over
  the program (`upgraded`), and what the shield removes itself (`removed`): the
  user's own program in `/usr/local/bin` under macOS, and the link and backup of a
  linked command at an uninstall, although that "restores original binaries"
  (`shim.go:146`).
* `SoleCopyRestored` is about a single plain copy in a standard directory. Uninstall
  restores the first copy it finds although install shimmed all of them, restores no
  linked one, and on Windows none whose shim a kill left missing, against
  `README.md:244`.
* `DoctorFixes` leaves out copies macOS protects, which doctor reports for ever.
* `AskedOnce` leaves out a file that refused a rewrite and took the append right
  after, because `appendHookToFile` ignores the error of the removal; `NoDeadHook`
  names the file inside WSL, which no uninstall visits.
* `LockedListed` excepts `forgotten`: paths that an uninstall failed to unlock before
  it removed their list (`cmd/shield/main.go:783` ignores the errors), and paths of a
  list it had not read, because the file was torn or belongs to the other home.
* `UninstallComplete` is about the monitors for which no step failed, after an
  uninstall that could load its configuration; it excepts a process the shield started
  itself where there is a systemd. `NoDeadCaller` excepts the callers that a step of the
  uninstall could not remove or does not look at.
* `BootstrapIdle` counts `setup --token`, `enable` and `doctor --fix` as admissions
  beside login, although `cmd/shield/main.go:613` says that enforcement "starts
  after login": none of the three waits for one.
* `Answered` is about messages that were passed on: the error of a blocked call goes
  to the server's input although `proxy.go:129` says it goes "back to client", who
  gets no answer at all. `AllRead` and `Ends` leave out a server that is stuck with an
  answer longer than the proxy's buffer: it has stopped reading, and the proxy may
  wait for ever to write to it, or for its end.
* `WrappersHideNothing` leaves out the forms in `Overlooked`, and an empty pair of
  quotes that a rule looks for and `eval` strips (engine.go:1601, 2471).
* `NoUnclearedOpen` leaves out opens nobody read, a monitor that was killed, and an
  open to which an answer without a body came while the memory read in its place
  held the approval of another event (`misread`). `ImplementsGuard` shows the guard
  such an event as a wait without an end. `EveryOpenAnswered` leaves out a monitor
  that waits for an open of its own.

## 4. Fairness

* ApprovalClient: the clock runs, sleeps end, an HTTP call returns (the client
  sets `http.Client.Timeout`). Nothing of the service or the approver.
* ExecMon: the system schedules every thread; a call to the service returns (12
  polls, each with a curl timeout), and so does the handler. Nothing of signals,
  commands, approver, kills, restarts. `EveryExecAnswered` allows `dropped`, the
  event for which `malloc` failed and nobody answers.
* McpProxy: the goroutines run, `RequestApproval` returns (the bounded wait that
  ApprovalClient proves), a write to a pipe returns when there is room or the reader is
  gone, and a server whose answers are read serves its input and ends after it. The
  client reads what it is sent (`PassAnswer` writes to it); it need not send or close
  anything. Nothing of the approver.
* Fanotify: the thread runs and a call of libcurl returns (`CURLOPT_TIMEOUT`, ten
  seconds). Nothing of the approver, signals, kills, restarts. The deadlock with its
  own open needs no unfairness: nothing is left that could answer it.
* ShieldConfig, Daemon, Shims, ProfileHooks, Setup: none; only safety is stated.

## 5. Proofs

All theorems are for every value of the constants under the assumption named in
the module; `tlapm` checks them to the last leaf.

| Module | Theorems | Argument |
|---|---|---|
| ApprovalClientProofs | `TypeCorrect`, `Invariant`, `VerdictsReported`, `WaitBounded`, `PromptApprovalNoticed`, `RefinesDecision` | `IndInv`: an answer in flight quotes the record (`RepliesFaithful`); elapsed time plus what is left is bounded at each place (`TimeAccounted`); an approval that an answer under way misses was given during that call (`LateApprovals`). The refinement maps each step to a step of GuardDecision or a stutter: only `TakeEvaluation` and `TakeStatus` proceed, and by `RepliesFaithful` only on a recorded approval. |
| ExecMonProofs | `TypeCorrect`, `ExecInvariant`, `StopInvariant`, `ExecsCleared`, `StopsApproved` | `ExecInv`: a worker past the first read of `g_Paused` has seen a pause in force or will find it expired. `StopInv`: an approved request belongs to the process that made it, and a process that stopped was approved or met with a mishap. `ExecsCleared` assumes no `poll` fault, with which it is false; `StopsApproved` holds whatever fails. |
| CommandLineProofs, about ShieldConfig | `TypeCorrect`, `Invariant`, `FileIsSound`, `RiskyIsAdmitted`, `UnlockedIsAccounted` | `ShieldInv`: without overlap there is one saver and it finds the file empty; a cleared shim has its reason, an exempt one among them. `UnlockedAccounted` is inductive with the types. |
| CommandLineProofs, about ProfileHooks | `HooksTypeCorrect`, `LinesSurvive`, `ShellAsksOnce`, `InstallLeavesOneHook`, `NoHookIsDead`, `MarkersInOrder` | `HooksInv`, below. |
| DaemonProofs | `TypeCorrect`, `Invariant`, `StopsOnConsent`, `MonitorIsFollowed`, `ReloadIsFollowed` | `ConsentInv`: until something was ungated all copies of the configuration are strict, and whoever is past the phone has its consent. `LinkInv`: without drift at most one sender, and it, else the end of the backlog, else the monitor agrees with the daemon, wherever the workers are between their reads. `ConfigInv`: one reload at a time carries what was read last. |
| FanotifyProofs | `TypeCorrect`, `Invariant`, `OpensCleared`, `RefinesGuard` | `FanotifyInv` adds `OneByOne`: the head of the buffer is the only event asked about, `approved` is false unless it is `Cleared` (by its own approval, or misread and by that of another event), all others of buffer and queue wait, are not asked about and appear once, and an open of the monitor's own is in the queue only while it is held. Every step but `HandleEvent` (an Ask), `Decide` and `Respond` (Proceed or Block) is a stutter of GuardDecision. |
| ShimsProofs | `TypeCorrect`, `Invariant`, `ProgramIsKept`, `ShimFindsProgram`, `InstallLeavesNone`, `DoctorLeavesNothing`, `WrapperRunsProgram`, `UninstallRestores` | `ShimsInv`. Where the program is: `PlainKept` and `LinkedKept` say it of every directory, `ShimsBacked` that no shim is without a backup, `BackedSteps` that the next file operation of an invocation has one to go by. What an invocation has done: `VisitedCovered` and `RepairedFixed` split the directories into those visited and those in `todo`, `SoleBack` starts where `Restore` ends. One lemma says of each kind of file operation (place, move away, put back, remove one or both, upgrade) that it keeps the first three; the others have one step per action that can disturb them. `ShimFindsProgram` needs a first directory in every search order: `FirstExists`, from the well-founded order of the library. |
| SetupProofs | `TypeCorrect`, `Invariant`, `ListedStaysListed`, `UninstallIsComplete`, `NoCallerIsDead`, `BootstrapStaysIdle` | `SetupInv`: the copy of the configuration an invocation works on is the one on the disk of its home until it removes that, and what is still locked of its list after the unlocking was refused (`ConfigCurrent`); what each step of an uninstall could remove stays removed, because no later step brings it back and whatever could comes between invocations, which need the binary (`UninstallSoFar`); systemd runs nothing where there is none (`NoGhosts`); whatever lets a step lock or start has an admission before it (`LoginFirst`). |
| McpProxyProofs | `TypeCorrect`, `Invariant`, `StaysInOrder`, `RiskyCallsApproved`, `RefinesGuard`, `NothingIsHidden` | `ProxyInv`: `OneAtATime` (the message asked about is the last one read, and nothing later has an outcome) and `AllAsked` (every risky call read was asked about, and proceeds on its own verdict). The rules of the engine, the threshold and the size of the pipe are arbitrary, but for `NothingIsHidden`, below. In the refinement `ReadMessage` of a risky call is an Ask, `Decide` the approver's step, `Approved` and `Blocked` are Proceed and Block, and everything else, a blocked write included, stutters. |

The start-up files. The hard case is a file in which a torn hook was left open, by an
append cut short, and to which anything may have been added since. `HooksInv` says
what is true of such files too: every body and every end has its start
(`FilesPaired`), so that a cut takes the lines from the first start to the first end
after it and never runs backwards, which would leave what is between twice
(`MarkersInOrder`). A line of the user's is behind no open start unless it was put
there (`LinesOutside`), so that a cut takes none. There is one end at most, because an
append follows a removal that left none (`EndsOnce`), and a file that was closed when
the invocation began is closed until it is visited and has nothing of a hook when the
append is due (`StillClosed`); from these, `Visited` says that a file is done when it
is left. Each needs those before it: without `FilesPaired` a cut may take or repeat
anything, without `EndsOnce` a file may keep an end after a cut, without `StillClosed`
an uninstall may leave an open hook it does not see. The lemmas in front of them say what a
cut (`CutFile`), a prefix of a cut (`CutShort`), sed (`SedFile`) and an append, whole
(`HookInstalled`) or in part (`HookAppended`), leave of a file of any length. They go by
the places of the lines: `Old` is where a line was before the cut. What `Sed` computes
line by line is had from `UpTo`, induction up to a number in the form this prover can
use, for a set that stands for the property; it rests on `LeastExists`, from the
well-founded order of the library. `PassExists` shows that the recursive function
that defines `Sed` exists.

The wrappers. `NothingIsHidden` says of a command of any length that is not asked about
that none of the `Wrappers` in front of it, in any combination, covers one that would
be. It has three parts. What a
wrapper runs is the command behind it, but for pairs of empty quotes at its end, which
`eval` strips (`WrapperRuns`). Such quotes change nothing but the end of what
unwrapping leaves, or are all it leaves, at no more wrappers than there were
(`UnwrapQuotes`, by `InnerQuotes` for one wrapper); they match no entry of the table
and add no points unless a rule reads them, which the property excepts (`SameSum`,
`DangerousQuotes`). So the command outside has the
rules of the one inside and the twenty points of one wrapper more, and the score below
80 of the one is not less than the score of the other (`WrappersAddPoints`). `Unwrap`
and `SkipWrapperOptions` are recursive functions on commands; that they exist and obey their
equations is proved from `Recursion`, for any function whose argument gets
smaller, and what they compute by `ByLength`, induction on the length of a
command for a set that stands for the property.

The theorem has a hypothesis, `OrdinaryTable`, because the property is not true of every
configuration a user may write. With a threshold of 80 or more the points of a wrapper may
lower the capped score: the engine adds 80 points for a destroy only while there are
fewer than 80 (engine.go:1592), so that 76 points become 100 but 96 stay 96. And an
entry of `dangerous_commands` that begins with a wrapper itself (`env rm`) matches
the command as it was typed, not behind another wrapper. The rest of it says that an empty pair of
quotes is no program and no word that a rule looks for but at the end, as in the
table of the code. The default threshold is 30 and no default entry begins with a
wrapper (config.go:47, 68), which holds of the run too: TLC evaluates the hypothesis
there.

`NoUnclearedExec`, `FileSound`, `StopNeedsConsent`, `MonitorFollows` and
`ConfigFollows` are not inductive: each says nothing of the moment in between (a
worker between two reads, a save between its halves, a goroutine past its check,
a command in the backlog), which is what the invariants add. Nor are
`InstallCovers`, `DoctorFixes`, `SoleCopyRestored` and `UninstallComplete`: they
speak of the end of an invocation only, and the invariants of what holds half way,
with a kill possible after every step. `ProgramKept` is not for another
reason: a state with the program in its place and a shim for its backup satisfies it,
but uninstall removes what is in that place. The invariants
themselves are theorems (`Invariant`, `ExecInvariant`, `StopInvariant`), and so is
the type invariant of every module (`TypeCorrect`): most runs do not repeat them. `SetupInv`, `ProxyInv`, `ShimsInv` and `HooksInv` are defined at the end of their modules;
TLC agrees to each of them on the instance of its run (add it under INVARIANTS).

Only model-checked: `EveryExecAnswered`, `EveryOpenAnswered`, `AllRead`, `Answered`,
`Ends` and the liveness halves of `ImplementsDecision` and `ImplementsGuard` (liveness under
fairness is beyond the prover), and what the violated runs show. Every invariant that
a passing run checks is a theorem.

## 6. Not modelled

* The rules of the risk engine for single programs, and the patterns it looks for
  in the text (pipes, redirections, downloads piped to a shell). Every other
  module takes risky or not as given.
* The text of requests, answers and files beyond the fields that decide.
* `call_agent_guard` from the inside (its own poll loop, its buffers) and the
  lock of the allocator that its signal handler may meet again.
* Overflow of the exec monitor's event queue (the code logs it, the kernel has let
  the execs pass; Fanotify has the case); argv capture, the ring of exec records
  that ExecMon's choice of risk stands for.
* The start of the fanotify monitor (its path list, the marks, its reading of the
  configuration), and what the memory it reads instead of a missing answer may hold
  beside earlier answers of the same process.
* Windows programs with the extension `.cmd` or `.bat`, whose shims and backups are
  named and repaired by rules of their own.
* The Windows driver with its bridge: kernel code whose callers are not in this
  repository. Its `NotifyAndWait` (`AuthSecShield.c:270`) waits for a decision that
  nothing in the driver delivers.
* A daemon killed by SIGKILL: it stops without any code of its own.
* What makes a login fail: `PollForToken` is one choice (`LoginFails` or the edit).
* The AutoRun value of cmd.exe, the user's PATH and the Windows services.
* Programs that run another one and that the unwrapping does not look for (`time`,
  `bash -lc`): to the engine they are programs like any other. Of those it does, one
  word stands for each group: `sudo` for `doas` and `runas`, `command` for
  `builtin`, `sh` for the other shells.
* Paths below the listed ones, on which approved commands leave the lock.
* The end of a pause as an event: it is only a time in the file, and no code locks
  the paths again when it comes.
* Detection, installers, build cache: nothing that decides, or no code of the
  project's own.

## 7. Plan

1. **Proofs**: for the command line and the exec monitor an abstract enforcement point
   with the exceptions their safety properties name (paused, unenforced, unwatched),
   which both implement.
2. **ArgvCapture**: records against events, pid reuse, the ring's index as a
   32-bit counter, in front of ExecMon.
3. **AgentGuardCall**: the exec monitor's `call_agent_guard` with its loop and
   buffers, as Fanotify has it for the other monitor, shown to implement
   GuardDecision where no poll fails.
4. **Composition** of ShieldConfig's file, Daemon and ExecMon's two flags: one
   user-level pause against three places that keep it.
5. **Minifilter** and its bridge: pending list, 60-second timeout, decisions that
   never arrive, the path table's unsigned length.
