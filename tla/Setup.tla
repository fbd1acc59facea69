------------------------------- MODULE Setup --------------------------------
(***************************************************************************)
(* install, uninstall, doctor --fix, enable and pause of the command line  *)
(* tool (cmd/shield/main.go): the order of their steps over what the       *)
(* shield leaves on a machine. A step may fail in part, an invocation may  *)
(* be killed between two steps, a machine may boot again, and the next     *)
(* invocation starts from whatever there is.                               *)
(*                                                                         *)
(* Every home has a configuration of its own. An invocation loads that of  *)
(* the home it runs in; an uninstall under sudo also removes that of the   *)
(* user behind it. Whatever calls the shield's binary, the shim of a       *)
(* command, a shell's hook or an MCP client, is a caller here: the files   *)
(* behind them are those of Shims and ProfileHooks.                        *)
(***************************************************************************)
EXTENDS KernelServices, Sequences

CONSTANTS
    Homes,
    NoHome,
    Paths,         \* protected paths
    DefaultPaths,  \* those of a default configuration in each home
    Callers,       \* what may call the shield's binary
    KindOf,
    HomeOf         \* the home of a hook or a client

ASSUME SetupAssumption ==
    /\ NoHome \notin Homes
    /\ DefaultPaths \in [Homes -> SUBSET Paths]
    /\ KindOf \in [Callers -> {"shim", "hook", "client"}]
    /\ HomeOf \in [Callers -> Homes]

VARIABLES
    config,     \* the configuration file of each home
    locked,     \* the paths with the write protection
    callers,    \* the callers there are
    shield,     \* whether the shield's binary is there
    op, step,   \* the invocation under way and how many steps it has done
    home,       \* the home it runs in
    homes,      \* the homes it serves
    cfg,        \* the configuration it loaded
    admitted,   \* history: who asked for locks or monitors
    refused,    \* history: the paths the invocation could not unlock
    left,       \* history: the callers and monitors it could not remove
    forgotten,  \* history: paths on a list that an uninstall removed, of those it
                \* could not unlock or whose list it had not read
    gone        \* history: the homes served by the uninstall that removed shield

machine == <<config, locked, callers, shield>>
tool    == <<op, step, home, homes, cfg>>
history == <<admitted, refused, left, forgotten, gone>>
vars    == <<systemd, svc, machine, tool, history>>

-----------------------------------------------------------------------------
\* A file that is missing loads as the default configuration; a torn one does
\* not load, and its paths say what was on its list.
Missing(h) == [text |-> "missing", token |-> FALSE, paths |-> DefaultPaths[h]]
Configs    == [text : {"missing", "whole", "torn"}, token : BOOLEAN, paths : SUBSET Paths]
Loads(f)   == f.text # "torn"
NoConfig   == [text |-> "torn", token |-> FALSE, paths |-> {}]
Torn(f)    == [f EXCEPT !.text = "torn", !.token = FALSE]

\* Mutants: uninstall removes the configuration before it unlocks the paths, or
\* the binary before its callers.
ConfigFirst(o) ==
    CASE o = "install"   -> <<"shims", "locks", "hooks", "services">>
      [] o = "doctor"    -> <<"shims", "orphans", "locks", "hooks", "services">>
      [] o = "enable"    -> <<"save", "locks", "services">>
      [] o = "pause"     -> <<"save", "unlock">>
      [] o = "uninstall" -> <<"stop", "config", "unlock", "unshim", "unhook", "clean", "mcp",
                              "binary">>
      [] OTHER           -> <<>>
BinaryFirst(o) ==
    CASE o = "install"   -> <<"shims", "locks", "hooks", "services">>
      [] o = "doctor"    -> <<"shims", "orphans", "locks", "hooks", "services">>
      [] o = "enable"    -> <<"save", "locks", "services">>
      [] o = "pause"     -> <<"save", "unlock">>
      [] o = "uninstall" -> <<"stop", "unlock", "unshim", "binary", "unhook", "clean", "mcp",
                              "config">>
      [] OTHER           -> <<>>
\* The steps of each invocation, in the order of the code.
Steps(o) ==
    CASE o = "install"   -> <<"shims", "locks", "hooks", "services">>
      [] o = "doctor"    -> <<"shims", "orphans", "locks", "hooks", "services">>
      [] o = "enable"    -> <<"save", "locks", "services">>
      [] o = "pause"     -> <<"save", "unlock">>
      [] o = "uninstall" -> <<"stop", "unlock", "unshim", "unhook", "clean", "mcp",
                              "config", "binary">>
      [] OTHER           -> <<>>

Commands == {"install", "doctor", "enable", "pause", "uninstall"}

At(s)   == step < Len(Steps(op)) /\ Steps(op)[step + 1] = s
Done    == op # "idle" /\ step = Len(Steps(op))
Advance == step' = step + 1 /\ UNCHANGED <<op, home, homes, cfg>>

Of(k)         == {c \in Callers : KindOf[c] = k}
Serves(hs, c) == KindOf[c] = "shim" \/ HomeOf[c] \in hs

SetupTypeOK ==
    /\ config \in [Homes -> Configs] /\ locked \subseteq Paths
    /\ callers \subseteq Callers /\ shield \in BOOLEAN
    /\ op \in Commands \cup {"idle"} /\ step \in 0..8
    /\ home \in Homes \cup {NoHome} /\ homes \subseteq Homes /\ cfg \in Configs
    /\ admitted \in BOOLEAN /\ refused \subseteq Paths
    /\ left \subseteq Callers \cup Services
    /\ forgotten \subseteq Paths /\ gone \subseteq Homes

TypeOK == KernelTypeOK /\ SetupTypeOK

Init ==
    /\ KernelInit
    /\ config = [h \in Homes |-> Missing(h)] /\ locked = {} /\ callers = {} /\ shield = TRUE
    /\ op = "idle" /\ step = 0 /\ home = NoHome /\ homes = {} /\ cfg = NoConfig
    /\ admitted = FALSE /\ refused = {} /\ left = {} /\ forgotten = {} /\ gone = {}

-----------------------------------------------------------------------------
(* Beginning and end of an invocation                                      *)

\* All but uninstall give up on a configuration that does not load. uninstall
\* serves the home it runs in and that of the user behind sudo (targetHomes).
Begin(o, h, u) ==
    /\ op = "idle" /\ shield
    /\ o # "uninstall" => Loads(config[h]) /\ u = h
    /\ op' = o /\ step' = 0 /\ home' = h /\ homes' = {h, u}
    /\ cfg' = IF Loads(config[h]) THEN config[h] ELSE NoConfig
    /\ admitted' = (admitted \/ o \in {"doctor", "enable"})
    /\ UNCHANGED <<systemd, svc, machine, refused, left, forgotten, gone>>

Idle ==
    /\ op' = "idle" /\ step' = 0 /\ home' = NoHome /\ homes' = {} /\ cfg' = NoConfig
    /\ refused' = {} /\ left' = IF shield THEN {} ELSE left
    /\ UNCHANGED <<admitted, forgotten, gone>>

Finish ==
    /\ Done /\ Idle
    /\ UNCHANGED <<systemd, svc, machine>>

\* enable and pause save first; a save that is cut short ends them.
SaveConfig ==
    /\ At("save")
    /\ \/ config' = [config EXCEPT ![home].text = "whole"] /\ Advance /\ UNCHANGED history
       \/ config' = [config EXCEPT ![home] = Torn(@)] /\ Idle
    /\ UNCHANGED <<systemd, svc, locked, callers, shield>>

-----------------------------------------------------------------------------
(* The callers                                                             *)

\* InstallShims and RepairOrphan put back the shims they can, hooks.Install
\* writes the hooks it can in the home it runs in.
InstallCallers ==
    /\ \/ (At("shims") \/ At("orphans")) /\ \E cs \in SUBSET Of("shim") : callers' = callers \cup cs
       \/ /\ At("hooks")
          /\ \E cs \in SUBSET {c \in Of("hook") : HomeOf[c] = home} : callers' = callers \cup cs
    /\ Advance
    /\ UNCHANGED <<systemd, svc, config, locked, shield, history>>

\* UninstallShims, hooks.Uninstall and revertMCPProxyConfigs remove what they
\* can of what they look at: a shim they do not come to (of a further copy), a
\* file that cannot be written and an entry of another form are left.
RemoveCallers ==
    /\ \E k \in {"shim", "hook", "client"} :
          /\ At(CASE k = "shim" -> "unshim" [] k = "hook" -> "unhook" [] OTHER -> "mcp")
          /\ \E cs \in SUBSET {c \in callers \cap Of(k) : Serves(homes, c)} :
                /\ callers' = callers \ cs
                /\ left' = left \cup (callers' \cap Of(k))
    /\ Advance
    /\ UNCHANGED <<systemd, svc, config, locked, shield, admitted, refused, forgotten, gone>>

-----------------------------------------------------------------------------
(* Write protection                                                        *)

\* Mutant: install does not wait for a login.
LockAnyway ==
    /\ At("locks")
    /\ \E done \in SUBSET (cfg.paths \ locked) : locked' = locked \cup done
    /\ Advance
    /\ UNCHANGED <<systemd, svc, config, callers, shield, history>>
\* ProtectPaths: of install, for who is logged in, of enable, and of doctor --fix
\* for every path that is open, neither of which asks for a login.
LockPaths ==
    /\ At("locks")
    /\ \E done \in SUBSET (IF op = "install" /\ ~cfg.token THEN {} ELSE cfg.paths \ locked) :
          locked' = locked \cup done
    /\ Advance
    /\ UNCHANGED <<systemd, svc, config, callers, shield, history>>

\* UnprotectPaths of uninstall and pause; without a configuration nothing is
\* unlocked.
UnlockPaths ==
    /\ At("unlock")
    /\ LET wanted == IF Loads(cfg) THEN cfg.paths \cap locked ELSE {} IN
       \E done \in SUBSET wanted :
          /\ locked' = locked \ done
          /\ refused' = wanted \ done /\ forgotten' = forgotten \ done
    /\ Advance
    /\ UNCHANGED <<systemd, svc, config, callers, shield, admitted, left, gone>>

-----------------------------------------------------------------------------
(* Monitors                                                                *)

\* kernel.Start: of install, for who is logged in; of doctor --fix, if the
\* monitors are there and none runs; of enable.
StartMonitors ==
    /\ At("services")
    /\ IF /\ op = "install" => cfg.token
          /\ op = "doctor" => Available /\ ~AnyRunning
       THEN svc' \in StartOutcomes
       ELSE UNCHANGED svc
    /\ Advance
    /\ UNCHANGED <<systemd, machine, history>>

StopMonitors ==
    /\ At("stop")
    /\ IF Loads(cfg) THEN svc' \in StopOutcomes ELSE UNCHANGED svc
    /\ Advance
    /\ UNCHANGED <<systemd, machine, history>>

\* Without a configuration nothing is cleaned.
CleanMonitors ==
    /\ At("clean")
    /\ IF Loads(cfg) THEN svc' \in CleanOutcomes ELSE UNCHANGED svc
    /\ left' = left \cup {s \in Services : svc'[s] # Removed(Halted(svc[s]))}
    /\ Advance
    /\ UNCHANGED <<systemd, machine, admitted, refused, forgotten, gone>>

-----------------------------------------------------------------------------
(* The last steps of uninstall                                             *)

\* removeConfigState: the directories of all homes it serves that it can remove,
\* their lists of protected paths with them, whether it had loaded them or not.
RemoveConfig ==
    /\ At("config")
    /\ \E rs \in SUBSET homes :
          /\ config' = [h \in Homes |-> IF h \in rs THEN Missing(h) ELSE config[h]]
          /\ forgotten' = forgotten \cup
                (IF home \in rs THEN refused ELSE {}) \cup
                UNION {config[h].paths : h \in {x \in rs : x # home \/ ~Loads(cfg)}}
    /\ Advance
    /\ UNCHANGED <<systemd, svc, locked, callers, shield, admitted, refused, left, gone>>

\* removeInstalledBinaries, whatever came of the steps before.
RemoveBinary ==
    /\ At("binary")
    /\ \/ shield' = FALSE /\ gone' = homes
       \/ UNCHANGED <<shield, gone>>
    /\ Advance
    /\ UNCHANGED <<systemd, svc, config, locked, callers, admitted, refused, left, forgotten>>

-----------------------------------------------------------------------------
(* Interruptions, and the world around                                     *)

Killed ==
    /\ op # "idle" /\ ~Done /\ Idle
    /\ UNCHANGED <<systemd, svc, machine>>

Reboot ==
    /\ Boot /\ Idle
    /\ UNCHANGED machine

\* The shield is copied to the machine, with or without the monitors.
Deploy ==
    /\ op = "idle"
    /\ \/ shield' = TRUE /\ left' = {} /\ gone' = {} /\ UNCHANGED <<systemd, svc>>
       \/ (\E s \in Services : InstallArtifacts(s)) /\ UNCHANGED <<shield, left, gone>>
    /\ UNCHANGED <<config, locked, callers, tool, admitted, refused, forgotten>>

\* login writes a token and then starts an install of its own; setup keeps the
\* token there is, or writes that of --token; logout clears it. A save that is
\* cut short leaves a file that does not load.
Account(h) ==
    /\ op = "idle" /\ shield /\ Loads(config[h])
    /\ \/ /\ \E t \in {config[h].token, TRUE, FALSE} :
                config' = [config EXCEPT ![h].text = "whole", ![h].token = t]
          /\ admitted' = (admitted \/ config'[h].token)
       \/ config' = [config EXCEPT ![h] = Torn(@)] /\ UNCHANGED admitted
    /\ UNCHANGED <<systemd, svc, locked, callers, shield, tool, refused, left, forgotten, gone>>

\* The user adds a protected path to the file, or puts an MCP server behind the
\* proxy.
Edit(h) ==
    /\ op = "idle" /\ shield
    /\ \/ /\ Loads(config[h])
          /\ \E p \in Paths :
                config' = [config EXCEPT ![h].text = "whole", ![h].paths = @ \cup {p}]
          /\ UNCHANGED callers
       \/ /\ \E c \in Of("client") : callers' = callers \cup {c}
          /\ UNCHANGED config
    /\ UNCHANGED <<systemd, svc, locked, shield, tool, history>>

Next ==
    \/ \E o \in Commands, h, u \in Homes : Begin(o, h, u)
    \/ SaveConfig
    \/ InstallCallers \/ LockPaths \/ StartMonitors
    \/ StopMonitors \/ UnlockPaths \/ RemoveCallers \/ CleanMonitors
    \/ RemoveConfig \/ RemoveBinary
    \/ Finish \/ Killed \/ Reboot \/ Deploy
    \/ \E h \in Homes : Account(h) \/ Edit(h)

Spec == Init /\ [][Next]_vars

-----------------------------------------------------------------------------
(* Properties                                                              *)

\* As long as a path is locked it is on the list of some home's configuration,
\* whatever is killed, fails or is torn, so that an uninstall or a pause there
\* unlocks it. There are two exceptions, both of an uninstall that removed the
\* list: a path it had failed to unlock (main.go:783 ignores the errors), and a
\* path of a list it had not read, because the file did not load or is the other
\* home's (cmdUninstall loads its own only, removeConfigState removes both).
LockedListed ==
    \A p \in locked : (\E h \in Homes : p \in config[h].paths) \/ p \in forgotten

\* An uninstall that could load its configuration leaves nothing of a monitor of
\* which it could stop, disable and remove everything: no program, no unit, no
\* entry for the next boot and nothing that systemd runs, whatever half starts,
\* kills and boots came before. Only a process the shield started itself goes on
\* running where there is a systemd (stopLinuxService).
UninstallComplete ==
    Done /\ op = "uninstall" /\ Loads(cfg) =>
        \A s \in Services \ left :
            ~svc[s].bin /\ ~Known(svc[s]) /\ (svc[s].direct > 0 => systemd)

\* When the shield's binary is gone, nothing in the homes its uninstall served
\* calls it any more, wherever that uninstall or one before it was killed, except
\* what its own steps could not remove or did not look at.
NoDeadCaller == ~shield => \A c \in callers : Serves(gone, c) => c \in left

\* Bootstrap mode ("active filesystem/kernel enforcement starts after login",
\* main.go:613): install alone locks nothing and starts no monitor. Before
\* anything is locked or running somebody has logged in, passed a token to setup,
\* or run enable or doctor --fix, which do not wait for a login.
BootstrapIdle == locked # {} \/ AnyRunning => admitted

-----------------------------------------------------------------------------
(* What makes the properties inductive                                     *)

Uninstalling == op = "uninstall"
Through(n)   == Uninstalling /\ step >= n

Stopped(r) == ~r.bin /\ ~Known(r) /\ (r.direct > 0 => systemd)

\* An invocation works on the list and the token that are on the disk, until an
\* uninstall has removed them; what is still locked of its list it could not
\* unlock.
ConfigCurrent ==
    /\ op # "idle" => home \in homes
    /\ op = "idle" \/ (Uninstalling /\ ~Loads(cfg)) => refused = {}
    /\ op \notin {"idle", "uninstall"} =>
          Loads(cfg) /\ cfg.paths = config[home].paths /\ cfg.token = config[home].token
    /\ Uninstalling /\ step <= 6 /\ Loads(cfg) => cfg = config[home]
    /\ Through(2) /\ Loads(cfg) => cfg.paths \cap locked \subseteq refused

\* What the steps so far of an uninstall have achieved stays.
UninstallSoFar ==
    LET Cleared(k) == \A c \in callers \cap Of(k) : Serves(homes, c) => c \in left IN
    /\ Through(3) => Cleared("shim")
    /\ Through(4) => Cleared("hook")
    /\ Through(5) /\ Loads(cfg) => \A s \in Services \ left : Stopped(svc[s])
    /\ Through(6) => Cleared("client")
    /\ ~shield => op = "idle" \/ (Through(8) /\ gone = homes)

\* systemd runs nothing where there is none.
NoGhosts == \A s \in Services : svc[s].active \/ svc[s].enabled => systemd

\* Whatever lets a step lock a path or start a monitor has been asked for.
LoginFirst ==
    /\ cfg.token \/ op \in {"doctor", "enable"} => admitted
    /\ \A h \in Homes : config[h].token => admitted
    /\ \A s \in Services : svc[s].enabled => admitted

SetupInv ==
    /\ TypeOK /\ step <= Len(Steps(op))
    /\ LockedListed /\ ConfigCurrent
    /\ UninstallSoFar /\ NoDeadCaller /\ NoGhosts
    /\ BootstrapIdle /\ LoginFirst
=============================================================================
