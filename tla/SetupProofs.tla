---------------------------- MODULE SetupProofs -----------------------------
(***************************************************************************)
(* Safety of install, uninstall, doctor --fix, enable and pause for any    *)
(* homes, paths, callers and services, and any sequence of invocations,    *)
(* failures, kills, edits and boots.                                       *)
(***************************************************************************)
EXTENDS Setup, TLAPS

Ops      == Commands \cup {"idle"}
Forwards == {"install", "doctor", "enable", "pause"}

-----------------------------------------------------------------------------
(* Where an invocation is                                                  *)

\* The step a name stands for; every step is one of an invocation.
LEMMA Position ==
    ASSUME op \in Ops, step \in Nat
    PROVE  /\ At("save") => op \in {"enable", "pause"}
           /\ At("shims") => op \in {"install", "doctor"}
           /\ At("orphans") => op = "doctor"
           /\ At("locks") => op \in {"install", "doctor", "enable"}
           /\ At("hooks") => op \in {"install", "doctor"}
           /\ At("services") => op \in {"install", "doctor", "enable"}
           /\ At("stop") => Uninstalling /\ step = 0
           /\ At("unlock") => op = "pause" \/ (Uninstalling /\ step = 1)
           /\ At("unshim") => Uninstalling /\ step = 2
           /\ At("unhook") => Uninstalling /\ step = 3
           /\ At("clean") => Uninstalling /\ step = 4
           /\ At("mcp") => Uninstalling /\ step = 5
           /\ At("config") => Uninstalling /\ step = 6
           /\ At("binary") => Uninstalling /\ step = 7
<1>1. CASE op = "idle"
  BY <1>1 DEF At, Steps, Uninstalling
<1>2. CASE op = "install"
  <2>1. Steps(op) = <<"shims", "locks", "hooks", "services">>
    BY <1>2 DEF Steps
  <2>2. step < Len(Steps(op)) => step \in {0, 1, 2, 3}
    BY <2>1
  <2> QED  BY <1>2, <2>1, <2>2 DEF At, Uninstalling
<1>3. CASE op = "doctor"
  <2>1. Steps(op) = <<"shims", "orphans", "locks", "hooks", "services">>
    BY <1>3 DEF Steps
  <2>2. step < Len(Steps(op)) => step \in {0, 1, 2, 3, 4}
    BY <2>1
  <2> QED  BY <1>3, <2>1, <2>2 DEF At, Uninstalling
<1>4. CASE op = "enable"
  <2>1. Steps(op) = <<"save", "locks", "services">>
    BY <1>4 DEF Steps
  <2>2. step < Len(Steps(op)) => step \in {0, 1, 2}
    BY <2>1
  <2> QED  BY <1>4, <2>1, <2>2 DEF At, Uninstalling
<1>5. CASE op = "pause"
  <2>1. Steps(op) = <<"save", "unlock">>
    BY <1>5 DEF Steps
  <2>2. step < Len(Steps(op)) => step \in {0, 1}
    BY <2>1
  <2> QED  BY <1>5, <2>1, <2>2 DEF At, Uninstalling
<1>6. CASE op = "uninstall"
  <2>1. Steps(op) = <<"stop", "unlock", "unshim", "unhook", "clean", "mcp",
                      "config", "binary">>
    BY <1>6 DEF Steps
  <2>2. step < Len(Steps(op)) => step \in {0, 1, 2, 3, 4, 5, 6, 7}
    BY <2>1
  <2> QED  BY <1>6, <2>1, <2>2 DEF At, Uninstalling
<1> QED  BY <1>1, <1>2, <1>3, <1>4, <1>5, <1>6 DEF Ops, Commands

LEMMA Lengths ==
    /\ op = "idle" => Len(Steps(op)) = 0
    /\ op = "install" => Len(Steps(op)) = 4
    /\ op = "doctor" => Len(Steps(op)) = 5
    /\ op = "enable" => Len(Steps(op)) = 3
    /\ op = "pause" => Len(Steps(op)) = 2
    /\ op = "uninstall" => Len(Steps(op)) = 8
BY DEF Steps

\* A step of an invocation moves it on by one and stays in its bounds.
LEMMA Advancing ==
    ASSUME TypeOK, step <= Len(Steps(op)), NEW s, At(s), Advance
    PROVE  /\ step' \in 0..8 /\ step' <= Len(Steps(op))'
           /\ step' = step + 1 /\ UNCHANGED <<op, home, homes, cfg>> /\ op # "idle"
<1>1. op \in Ops /\ step \in 0..8
  BY DEF TypeOK, SetupTypeOK, Ops
<1>2. Len(Steps(op)) \in 0..8 /\ (op = "idle" => Len(Steps(op)) = 0)
  BY <1>1, Lengths DEF Ops, Commands
<1>3. step' = step + 1 /\ step < Len(Steps(op)) /\ UNCHANGED <<op, home, homes, cfg>>
  BY DEF Advance, At
<1>4. Len(Steps(op))' = Len(Steps(op))
  BY <1>3 DEF Steps
<1>5. step' \in 0..8 /\ step' <= Len(Steps(op))' /\ op # "idle"
  <2> DEFINE l == Len(Steps(op))
  <2>1. step \in 0..8 /\ l \in 0..8 /\ step < l /\ (op = "idle" => l = 0)
    BY <1>1, <1>2, <1>3
  <2> HIDE DEF l
  <2>2. step + 1 \in 0..8 /\ step + 1 <= l /\ op # "idle"
    BY <2>1
  <2>3. l' = l
    BY <1>4 DEF l
  <2>4. step' <= l'
    BY <1>3, <2>2, <2>3
  <2> QED  BY <1>3, <2>2, <2>4 DEF l
<1> QED  BY <1>3, <1>5

\* One file of the configuration changes.
LEMMA FileChange ==
    ASSUME config \in [Homes -> Configs], NEW h \in Homes, NEW f \in Configs,
           config' = [config EXCEPT ![h] = f]
    PROVE  /\ config' \in [Homes -> Configs] /\ config'[h] = f
           /\ \A x \in Homes : x # h => config'[x] = config[x]
OBVIOUS

-----------------------------------------------------------------------------
(* What the services do                                                    *)

\* Whatever comes of stopping a service, it starts nothing and enables nothing.
LEMMA HaltsLess ==
    ASSUME NEW r \in Records, NEW t \in Halts(r)
    PROVE  /\ t \in Records
           /\ t.active => r.active
           /\ t.enabled => r.enabled
           /\ Running(t) => Running(r)
<1>1. Halted(r) \in {[r EXCEPT !.direct = 0], [r EXCEPT !.active = FALSE, !.enabled = FALSE], r}
  BY DEF Halted
<1>2. /\ Halted(r) \in Records
      /\ (Halted(r).active => r.active) /\ (Halted(r).enabled => r.enabled)
      /\ Halted(r).active \in BOOLEAN /\ Halted(r).enabled \in BOOLEAN
      /\ (Halted(r).direct > 0 => r.direct > 0)
  <2>1. CASE Halted(r) = [r EXCEPT !.direct = 0]
    BY <2>1, KernelAssumption DEF Records
  <2>2. CASE Halted(r) = [r EXCEPT !.active = FALSE, !.enabled = FALSE]
    BY <2>2 DEF Records
  <2>3. CASE Halted(r) = r
    BY <2>3 DEF Records
  <2> QED  BY <1>1, <2>1, <2>2, <2>3
<1>3. CASE t \in {Halted(r), r}
  BY <1>2, <1>3 DEF Running
<1>4. CASE t = [r EXCEPT !.enabled = Halted(r).enabled]
  <2>1. /\ t.bin = r.bin /\ t.unit = r.unit /\ t.direct = r.direct
        /\ t.active = r.active /\ t.enabled = Halted(r).enabled
    BY <1>4 DEF Records
  <2>2. t \in Records
    BY <1>2, <1>4 DEF Records
  <2> QED  BY <1>2, <2>1, <2>2 DEF Running
<1>5. CASE t = [r EXCEPT !.active = Halted(r).active]
  <2>1. /\ t.bin = r.bin /\ t.unit = r.unit /\ t.direct = r.direct
        /\ t.enabled = r.enabled /\ t.active = Halted(r).active
    BY <1>5 DEF Records
  <2>2. t \in Records
    BY <1>2, <1>5 DEF Records
  <2> QED  BY <1>2, <2>1, <2>2 DEF Running
<1> QED  BY <1>3, <1>4, <1>5 DEF Halts

LEMMA CleansLess ==
    ASSUME svc \in [Services -> Records], NEW t \in CleanOutcomes, NEW s \in Services
    PROVE  /\ t[s].active => svc[s].active
           /\ t[s].enabled => svc[s].enabled
           /\ Running(t[s]) => Running(svc[s])
<1>1. PICK r \in Halts(svc[s]) :
          t[s] \in {Removed(r), r, [r EXCEPT !.bin = FALSE], [r EXCEPT !.unit = FALSE]}
  BY DEF CleanOutcomes
<1>2. /\ r \in Records /\ (r.active => svc[s].active)
      /\ (r.enabled => svc[s].enabled) /\ (Running(r) => Running(svc[s]))
  BY HaltsLess
<1>3. t[s].active = r.active /\ t[s].enabled = r.enabled /\ t[s].direct = r.direct
  BY <1>1, <1>2 DEF Removed, Records
<1> QED  BY <1>2, <1>3 DEF Running

\* A monitor is enabled and active in systemd only, and only what is started or
\* running or enabled runs.
LEMMA StartsInSystemd ==
    ASSUME svc \in [Services -> Records], NEW t \in StartOutcomes, NEW s \in Services
    PROVE  t[s].active \/ t[s].enabled => svc[s].active \/ svc[s].enabled \/ systemd
<1>1. /\ svc[s] \in Records
      /\ t[s] \in Starts(svc[s]) \cup (IF svc[s].bin THEN Refused(svc[s]) ELSE {svc[s]})
  BY DEF StartOutcomes
<1> DEFINE e == [svc[s] EXCEPT !.enabled = TRUE]
<1>2. t[s] \in {Forked(svc[s]), svc[s]} \/ (systemd /\ t[s] \in {Forked(e), Enabled(svc[s]), e})
  BY <1>1 DEF Starts, Refused
<1>3. CASE t[s] = Forked(svc[s])
  BY <1>1, <1>3 DEF Forked, Records
<1>4. CASE t[s] = svc[s]
  BY <1>4
<1> QED  BY <1>2, <1>3, <1>4

\* A service that is cleaned without a failure is gone, but for what the shield
\* started itself next to systemd.
LEMMA CleanStops ==
    ASSUME NEW r \in Records, r.active \/ r.enabled => systemd
    PROVE  Stopped(Removed(Halted(r)))
<1>1. CASE ~systemd
  BY <1>1 DEF Halted, Removed, Stopped, Known, Records
<1>2. CASE systemd /\ Known(r)
  BY <1>2 DEF Halted, Removed, Stopped, Known, Records
<1>3. CASE systemd /\ ~Known(r)
  BY <1>3 DEF Halted, Removed, Stopped, Known, Records
<1> QED  BY <1>1, <1>2, <1>3

-----------------------------------------------------------------------------
(* The inductive invariant                                                 *)

LEMMA InitInv == Init => SetupInv
<1> SUFFICES ASSUME Init PROVE SetupInv
  OBVIOUS
<1> USE DEF Init, KernelInit
<1>1. TypeOK
  <2>1. KernelTypeOK
    BY KernelAssumption DEF KernelTypeOK, None, Records
  <2>2. config \in [Homes -> Configs] /\ cfg \in Configs
    BY SetupAssumption DEF Missing, NoConfig, Configs
  <2>3. shield \in BOOLEAN /\ admitted \in BOOLEAN
    BY Zenon
  <2>4. /\ locked \subseteq Paths /\ callers \subseteq Callers
        /\ refused \subseteq Paths /\ left \subseteq Callers \cup Services
        /\ forgotten \subseteq Paths /\ gone \subseteq Homes
        /\ op \in Commands \cup {"idle"} /\ step \in 0..8
        /\ home \in Homes \cup {NoHome} /\ homes \subseteq Homes
    OBVIOUS
  <2> QED  BY ONLY <2>1, <2>2, <2>3, <2>4 DEF TypeOK, SetupTypeOK
<1>2. step <= Len(Steps(op))
  BY Lengths
<1>3. ConfigCurrent /\ UninstallSoFar /\ LockedListed /\ NoDeadCaller
  BY DEF ConfigCurrent, UninstallSoFar, Uninstalling, Through, LockedListed, NoDeadCaller
<1>4. NoGhosts /\ BootstrapIdle /\ LoginFirst
  BY DEF NoGhosts, BootstrapIdle, LoginFirst, None, AnyRunning, Running, Missing, NoConfig
<1> QED  BY <1>1, <1>2, <1>3, <1>4 DEF SetupInv

\* What makes an invocation lock paths and start monitors.
Asked == cfg.token \/ op \in {"doctor", "enable"}

\* An install, doctor --fix, enable or pause: no list and no token of a file
\* changes, what is locked and started has been asked for, and uninstall has no
\* part in it.
LEMMA ForwardKeeps ==
    ASSUME SetupInv, op \in Forwards, NEW s, At(s), Advance, TypeOK',
           UNCHANGED <<shield, admitted, left, gone>>,
           \A h \in Homes : config'[h].token = config[h].token /\ config'[h].paths = config[h].paths,
           locked' \subseteq locked \cup (IF Asked THEN cfg.paths ELSE {}),
           \A p \in locked' : p \in forgotten => p \in forgotten',
           NoGhosts',
           \A x \in Services : svc'[x].enabled \/ Running(svc'[x]) =>
                                svc[x].enabled \/ Running(svc[x]) \/ Asked
    PROVE  SetupInv'
<1> USE DEF SetupInv
<1>1. /\ op' = op /\ cfg' = cfg /\ home' = home /\ homes' = homes
      /\ step' <= Len(Steps(op))' /\ op # "idle" /\ op # "uninstall"
  BY Advancing DEF Forwards
<1>2. /\ home \in homes /\ home \in Homes /\ Loads(cfg)
      /\ cfg.paths = config[home].paths /\ cfg.token = config[home].token
  BY <1>1 DEF ConfigCurrent, TypeOK, SetupTypeOK
<1>3. shield /\ shield'
  BY <1>1 DEF UninstallSoFar, Through, Uninstalling
<1>4. ConfigCurrent' /\ UninstallSoFar' /\ NoDeadCaller'
  BY <1>1, <1>2, <1>3 DEF ConfigCurrent, UninstallSoFar, NoDeadCaller, Through, Uninstalling
<1>5. LockedListed'
  BY <1>2 DEF LockedListed
<1>6. Asked => admitted
  BY DEF LoginFirst, Asked
<1>7. BootstrapIdle'
  BY <1>6 DEF BootstrapIdle, AnyRunning, LoginFirst
<1>8. LoginFirst'
  BY <1>1, <1>6 DEF BootstrapIdle, AnyRunning, LoginFirst
<1> QED  BY <1>1, <1>4, <1>5, <1>7, <1>8

\* A step of an uninstall that unlocks, stops and removes.
LEMMA BackwardKeeps ==
    ASSUME SetupInv, Uninstalling, NEW s, At(s), Advance, TypeOK',
           UninstallSoFar', NoGhosts', LockedListed', ConfigCurrent', NoDeadCaller',
           admitted' = admitted, locked' \subseteq locked,
           \A h \in Homes : config'[h].token => config[h].token,
           \A x \in Services : (svc'[x].enabled => svc[x].enabled)
                             /\ (Running(svc'[x]) => Running(svc[x]))
    PROVE  SetupInv'
<1> USE DEF SetupInv
<1>1. op' = op /\ cfg' = cfg /\ step' <= Len(Steps(op))'
  BY Advancing
<1>2. BootstrapIdle' /\ LoginFirst'
  BY <1>1 DEF BootstrapIdle, AnyRunning, LoginFirst, Uninstalling
<1> QED  BY <1>1, <1>2

\* A step of an uninstall that has nothing to do with the paths.
LEMMA ListsKept ==
    ASSUME SetupInv, Uninstalling, NEW s, At(s), Advance, step \notin {1},
           UNCHANGED <<config, locked, refused, forgotten>>
    PROVE  LockedListed' /\ ConfigCurrent'
<1> USE DEF SetupInv
<1>1. op' = op /\ cfg' = cfg /\ home' = home /\ homes' = homes /\ step' = step + 1
  BY Advancing
<1>2. step \in Nat
  BY DEF TypeOK, SetupTypeOK
<1>3. Through(2)' => Through(2)
  BY <1>1, <1>2 DEF Through, Uninstalling
<1>4. step' <= 6 => step <= 6
  BY <1>1, <1>2
<1> QED  BY <1>1, <1>3, <1>4 DEF LockedListed, ConfigCurrent, Uninstalling

\* The callers and monitors that are left stay accounted for.
Clear(k, hs) == \A c \in callers \cap Of(k) : Serves(hs, c) => c \in left

-----------------------------------------------------------------------------
(* Forward: install, doctor --fix, enable and pause                        *)

LEMMA InstallCallersKeeps == ASSUME SetupInv, InstallCallers PROVE SetupInv'
<1> USE DEF SetupInv
<1>1. PICK s \in {"shims", "orphans", "hooks"} : At(s)
  BY DEF InstallCallers
<1>2. /\ Advance /\ callers' \subseteq Callers
      /\ UNCHANGED <<systemd, svc, config, locked, shield, history>>
  BY DEF InstallCallers, Of, TypeOK, SetupTypeOK
<1>3. op \in Forwards
  BY <1>1, Position DEF TypeOK, SetupTypeOK, Ops, Forwards
<1>4. TypeOK'
  BY <1>1, <1>2, Advancing DEF TypeOK, SetupTypeOK, KernelTypeOK, history
<1>5. NoGhosts'
  BY <1>2 DEF NoGhosts
<1> QED  BY <1>1, <1>2, <1>3, <1>4, <1>5, ForwardKeeps DEF history

LEMMA LockPathsKeeps == ASSUME SetupInv, LockPaths PROVE SetupInv'
<1> USE DEF SetupInv
<1>1. /\ At("locks") /\ Advance
      /\ UNCHANGED <<systemd, svc, config, callers, shield, history>>
  BY DEF LockPaths
<1>2. op \in {"install", "doctor", "enable"}
  BY <1>1, Position DEF TypeOK, SetupTypeOK, Ops
<1>3. PICK done \in SUBSET (IF op = "install" /\ ~cfg.token THEN {} ELSE cfg.paths \ locked) :
          locked' = locked \cup done
  BY DEF LockPaths
<1>4. locked' \subseteq locked \cup (IF Asked THEN cfg.paths ELSE {})
  BY <1>2, <1>3 DEF Asked
<1>5. TypeOK'
  <2>1. locked' \subseteq Paths
    BY <1>3 DEF TypeOK, SetupTypeOK, Configs
  <2> QED  BY <1>1, <2>1, Advancing DEF TypeOK, SetupTypeOK, KernelTypeOK, history
<1>6. NoGhosts'
  BY <1>1 DEF NoGhosts
<1> QED  BY <1>1, <1>2, <1>4, <1>5, <1>6, ForwardKeeps DEF history, Forwards

LEMMA StartMonitorsKeeps == ASSUME SetupInv, StartMonitors PROVE SetupInv'
<1> USE DEF SetupInv
<1>1. At("services") /\ Advance /\ UNCHANGED <<systemd, machine, history>>
  BY DEF StartMonitors
<1>2. op \in {"install", "doctor", "enable"}
  BY <1>1, Position DEF TypeOK, SetupTypeOK, Ops
<1>3. svc' = svc \/ (svc' \in StartOutcomes /\ Asked)
  BY <1>2 DEF StartMonitors, Asked
<1>4. svc' \in [Services -> Records]
  BY <1>3 DEF StartOutcomes, TypeOK, KernelTypeOK
<1>5. TypeOK'
  BY <1>1, <1>4, Advancing DEF TypeOK, SetupTypeOK, KernelTypeOK, machine, history
<1>6. NoGhosts'
  BY <1>1, <1>3, StartsInSystemd DEF NoGhosts, TypeOK, KernelTypeOK
<1> QED  BY <1>1, <1>2, <1>3, <1>5, <1>6, ForwardKeeps DEF machine, history, Forwards

-----------------------------------------------------------------------------
(* Backward: uninstall                                                     *)

LEMMA StopMonitorsKeeps == ASSUME SetupInv, StopMonitors PROVE SetupInv'
<1> USE DEF SetupInv
<1>1. /\ At("stop") /\ Advance /\ UNCHANGED <<systemd, machine, history>>
      /\ svc' = svc \/ svc' \in StopOutcomes
  BY DEF StopMonitors
<1>2. Uninstalling /\ step = 0
  BY <1>1, Position DEF TypeOK, SetupTypeOK, Ops
<1>3. op' = op /\ step' = 1
  BY <1>1, <1>2, Advancing
<1>4. svc' \in [Services -> Records]
  BY <1>1 DEF StopOutcomes, TypeOK, KernelTypeOK
<1>5. TypeOK'
  BY <1>1, <1>4, Advancing DEF TypeOK, SetupTypeOK, KernelTypeOK, machine, history
<1>6. \A x \in Services : /\ svc'[x].active => svc[x].active
                          /\ svc'[x].enabled => svc[x].enabled
                          /\ Running(svc'[x]) => Running(svc[x])
  <2> SUFFICES ASSUME NEW x \in Services, svc' \in StopOutcomes
               PROVE  /\ svc'[x].active => svc[x].active
                      /\ svc'[x].enabled => svc[x].enabled
                      /\ Running(svc'[x]) => Running(svc[x])
    BY <1>1
  <2>1. svc[x] \in Records /\ svc'[x] \in Halts(svc[x])
    BY DEF StopOutcomes, TypeOK, KernelTypeOK
  <2> QED  BY <2>1, HaltsLess
<1>7. NoGhosts'
  BY <1>1, <1>6 DEF NoGhosts
<1>8. shield /\ shield'
  BY <1>1, <1>2 DEF UninstallSoFar, Through, Uninstalling, machine
<1>9. UninstallSoFar' /\ NoDeadCaller'
  BY <1>3, <1>8 DEF UninstallSoFar, Through, NoDeadCaller
<1>10. LockedListed' /\ ConfigCurrent'
  BY <1>1, <1>2, ListsKept DEF machine, history
<1> QED  BY <1>1, <1>2, <1>5, <1>6, <1>7, <1>9, <1>10, BackwardKeeps DEF machine, history

\* What is still locked of its own list afterwards it could not unlock.
LEMMA UnlockPathsKeeps == ASSUME SetupInv, UnlockPaths PROVE SetupInv'
<1> USE DEF SetupInv
<1> DEFINE wanted == IF Loads(cfg) THEN cfg.paths \cap locked ELSE {}
<1>1. PICK done \in SUBSET wanted :
          /\ locked' = locked \ done
          /\ refused' = wanted \ done /\ forgotten' = forgotten \ done
  BY DEF UnlockPaths
<1>2. /\ At("unlock") /\ Advance
      /\ UNCHANGED <<systemd, svc, config, callers, shield, admitted, left, gone>>
  BY DEF UnlockPaths
<1>3. op = "pause" \/ (Uninstalling /\ step = 1)
  BY <1>2, Position DEF TypeOK, SetupTypeOK, Ops
<1>4. /\ op' = op /\ step' = step + 1 /\ cfg' = cfg /\ home' = home /\ homes' = homes
      /\ step' \in 0..8
  BY <1>2, Advancing
<1>5. TypeOK'
  <2>1. locked' \subseteq Paths /\ refused' \subseteq Paths /\ forgotten' \subseteq Paths
    BY <1>1 DEF TypeOK, SetupTypeOK
  <2> QED  BY <1>2, <1>4, <2>1 DEF TypeOK, SetupTypeOK, KernelTypeOK
<1>6. NoGhosts'
  BY <1>2 DEF NoGhosts
<1>7. \A p \in locked' : p \in forgotten => p \in forgotten'
  BY <1>1
<1>8. CASE op = "pause"
  BY <1>1, <1>2, <1>5, <1>6, <1>7, <1>8, ForwardKeeps DEF Forwards
<1>9. CASE Uninstalling /\ step = 1
  <2>1. step' = 2 /\ shield /\ shield'
    BY <1>2, <1>4, <1>9 DEF UninstallSoFar, Through, Uninstalling
  <2>2. UninstallSoFar' /\ NoDeadCaller'
    BY <2>1 DEF UninstallSoFar, Through, NoDeadCaller
  <2>3. LockedListed'
    BY <1>1, <1>2, <1>7 DEF LockedListed
  <2>4. Loads(cfg) => cfg = config[home] /\ cfg.paths \cap locked' \subseteq refused'
    BY <1>1, <1>9 DEF ConfigCurrent
  <2>5. ~Loads(cfg) => refused' = {}
    BY <1>1
  <2>6. ConfigCurrent'
    BY <1>2, <1>4, <1>9, <2>4, <2>5 DEF ConfigCurrent, Uninstalling, Through
  <2> QED  BY <1>1, <1>2, <1>5, <1>6, <1>9, <2>2, <2>3, <2>6, BackwardKeeps
<1> QED  BY <1>3, <1>8, <1>9

\* What could not be removed of a kind of callers is on record.
LEMMA RemoveCallersKeeps == ASSUME SetupInv, RemoveCallers PROVE SetupInv'
<1> USE DEF SetupInv
<1>1. PICK k \in {"shim", "hook", "client"} :
          /\ At(CASE k = "shim" -> "unshim" [] k = "hook" -> "unhook" [] OTHER -> "mcp")
          /\ callers' \subseteq callers /\ left' = left \cup (callers' \cap Of(k))
  BY DEF RemoveCallers
<1>2. /\ Advance
      /\ UNCHANGED <<systemd, svc, config, locked, shield, admitted, refused, forgotten, gone>>
  BY DEF RemoveCallers
<1>3. /\ Uninstalling /\ step = (CASE k = "shim" -> 2 [] k = "hook" -> 3 [] OTHER -> 5)
      /\ step \in {2, 3, 5}
  BY <1>1, Position DEF TypeOK, SetupTypeOK, Ops
<1>4. /\ op' = op /\ step' = step + 1 /\ cfg' = cfg /\ home' = home /\ homes' = homes
      /\ step' \in 0..8
  BY <1>1, <1>2, Advancing
<1>5. TypeOK'
  <2>1. callers' \subseteq Callers /\ left' \subseteq Callers \cup Services
    BY <1>1 DEF TypeOK, SetupTypeOK
  <2> QED  BY <1>2, <1>4, <2>1 DEF TypeOK, SetupTypeOK, KernelTypeOK
<1>6. NoGhosts'
  BY <1>2 DEF NoGhosts
<1>7. shield /\ shield'
  BY <1>2, <1>3 DEF UninstallSoFar, Through, Uninstalling
<1>8. UninstallSoFar'
  <2>1. \A j \in {"shim", "hook", "client"} : Clear(j, homes) => Clear(j, homes)'
    BY <1>1, <1>4 DEF Clear, Of
  <2>2. Clear(k, homes)'
    BY <1>1 DEF Clear
  <2>3. /\ Through(3)' => Clear("shim", homes)'
        /\ Through(4)' => Clear("hook", homes)'
        /\ Through(6)' => Clear("client", homes)'
    <3>1. /\ Through(3) => Clear("shim", homes) /\ (Through(4) => Clear("hook", homes))
          /\ Through(6) => Clear("client", homes)
      BY DEF UninstallSoFar, Clear, Through
    <3>2. /\ Through(3)' => Through(3) \/ k = "shim"
          /\ Through(4)' => (Through(4) \/ k = "hook") /\ Through(3)'
          /\ Through(6)' => Through(6) \/ k = "client"
      BY <1>1, <1>3, <1>4 DEF Through, Uninstalling
    <3>3. Through(4) => Through(3)
      BY <1>3 DEF Through
    <3> QED  BY <2>1, <2>2, <3>1, <3>2, <3>3
  <2>4. Through(5)' /\ Loads(cfg') => \A s \in Services \ left' : Stopped(svc[s])'
    <3>1. Through(5)' => Through(5)
      BY <1>3, <1>4 DEF Through, Uninstalling
    <3> QED  BY <1>1, <1>2, <1>4, <3>1 DEF UninstallSoFar, Stopped
  <2> QED  BY <1>4, <1>7, <2>3, <2>4 DEF UninstallSoFar, Clear
<1>9. NoDeadCaller'
  BY <1>7 DEF NoDeadCaller
<1>10. LockedListed' /\ ConfigCurrent'
  BY <1>1, <1>2, <1>3, ListsKept
<1> QED  BY <1>1, <1>2, <1>3, <1>5, <1>6, <1>8, <1>9, <1>10, BackwardKeeps

LEMMA CleanMonitorsKeeps == ASSUME SetupInv, CleanMonitors PROVE SetupInv'
<1> USE DEF SetupInv
<1>1. /\ At("clean") /\ Advance
      /\ UNCHANGED <<systemd, machine, admitted, refused, forgotten, gone>>
      /\ svc' = svc \/ svc' \in CleanOutcomes
      /\ left' = left \cup {s \in Services : svc'[s] # Removed(Halted(svc[s]))}
  BY DEF CleanMonitors
<1>2. Uninstalling /\ step = 4
  BY <1>1, Position DEF TypeOK, SetupTypeOK, Ops
<1>3. /\ op' = op /\ step' = 5 /\ cfg' = cfg /\ homes' = homes /\ home' = home
      /\ step' \in 0..8
  BY <1>1, <1>2, Advancing
<1>4. svc \in [Services -> Records] /\ svc' \in [Services -> Records]
  BY <1>1 DEF CleanOutcomes, TypeOK, KernelTypeOK
<1>5. TypeOK'
  <2>1. left' \subseteq Callers \cup Services
    BY <1>1 DEF TypeOK, SetupTypeOK
  <2> QED  BY <1>1, <1>3, <1>4, <2>1 DEF TypeOK, SetupTypeOK, KernelTypeOK, machine
<1>6. \A x \in Services : /\ svc'[x].active => svc[x].active
                          /\ svc'[x].enabled => svc[x].enabled
                          /\ Running(svc'[x]) => Running(svc[x])
  BY <1>1, <1>4, CleansLess
<1>7. NoGhosts'
  BY <1>1, <1>6 DEF NoGhosts
<1>8. shield /\ shield'
  BY <1>1, <1>2 DEF UninstallSoFar, Through, Uninstalling, machine
<1>9. UninstallSoFar'
  <2>1. \A x \in Services \ left' : Stopped(svc[x])'
    <3> SUFFICES ASSUME NEW x \in Services, x \notin left' PROVE Stopped(svc[x])'
      OBVIOUS
    <3>1. Stopped(Removed(Halted(svc[x])))
      BY <1>4, CleanStops DEF NoGhosts
    <3>2. svc'[x] = Removed(Halted(svc[x])) /\ systemd' = systemd
      BY <1>1
    <3> QED  BY <3>1, <3>2 DEF Stopped
  <2>2. Through(3) /\ Through(4)
    BY <1>2 DEF Through
  <2>3. Clear("shim", homes) /\ Clear("hook", homes)
    BY <2>2 DEF UninstallSoFar, Clear
  <2>4. Clear("shim", homes)' /\ Clear("hook", homes)'
    BY <1>1, <1>3, <2>3 DEF Clear, machine
  <2>5. ~Through(6)' /\ ~Through(8)'
    BY <1>3 DEF Through
  <2> QED  BY <1>8, <2>1, <2>4, <2>5 DEF UninstallSoFar, Clear
<1>10. NoDeadCaller'
  BY <1>8 DEF NoDeadCaller
<1>11. LockedListed' /\ ConfigCurrent'
  BY <1>1, <1>2, ListsKept DEF machine
<1> QED  BY <1>1, <1>2, <1>5, <1>6, <1>7, <1>9, <1>10, <1>11, BackwardKeeps DEF machine

\* A list that goes with its file takes along only paths that are forgotten.
LEMMA RemoveConfigKeeps == ASSUME SetupInv, RemoveConfig PROVE SetupInv'
<1> USE DEF SetupInv
<1>1. PICK rs \in SUBSET homes :
          /\ config' = [h \in Homes |-> IF h \in rs THEN Missing(h) ELSE config[h]]
          /\ forgotten' = forgotten \cup
                (IF home \in rs THEN refused ELSE {}) \cup
                UNION {config[h].paths : h \in {x \in rs : x # home \/ ~Loads(cfg)}}
  BY DEF RemoveConfig
<1>2. /\ At("config") /\ Advance
      /\ UNCHANGED <<systemd, svc, locked, callers, shield, admitted, refused, left, gone>>
  BY DEF RemoveConfig
<1>3. Uninstalling /\ step = 6
  BY <1>2, Position DEF TypeOK, SetupTypeOK, Ops
<1>4. /\ op' = op /\ step' = 7 /\ step' \in 0..8
      /\ cfg' = cfg /\ homes' = homes /\ home' = home
  BY <1>2, <1>3, Advancing
<1>5. /\ config \in [Homes -> Configs] /\ rs \subseteq Homes
      /\ \A h \in Homes : Missing(h) \in Configs /\ Missing(h).token = FALSE
  BY SetupAssumption DEF Missing, Configs, TypeOK, SetupTypeOK
<1>6. TypeOK'
  <2>1. config' \in [Homes -> Configs]
    BY <1>1, <1>5
  <2>2. \A h \in rs : config[h].paths \subseteq Paths
    BY <1>5 DEF Configs
  <2>3. forgotten' \subseteq Paths
    BY <1>1, <2>2 DEF TypeOK, SetupTypeOK
  <2> QED  BY <1>2, <1>4, <2>1, <2>3 DEF TypeOK, SetupTypeOK, KernelTypeOK
<1>7. NoGhosts'
  BY <1>2 DEF NoGhosts
<1>8. shield /\ shield'
  BY <1>2, <1>3 DEF UninstallSoFar, Through, Uninstalling
<1>9. UninstallSoFar' /\ NoDeadCaller'
  <2>1. Through(3) /\ Through(4) /\ Through(5) /\ Through(6) /\ ~Through(8)'
    BY <1>3, <1>4 DEF Through
  <2> QED  BY <1>2, <1>4, <1>8, <2>1 DEF UninstallSoFar, Stopped, NoDeadCaller
<1>10. LockedListed'
  <2> SUFFICES ASSUME NEW p \in locked, p \notin forgotten'
               PROVE  \E h \in Homes : p \in config'[h].paths
    BY <1>2 DEF LockedListed
  <2>1. PICK h \in Homes : p \in config[h].paths
    BY <1>1 DEF LockedListed
  <2>2. CASE h \notin rs
    BY <1>1, <2>1, <2>2
  <2>3. ASSUME h \in rs, h # home \/ ~Loads(cfg) PROVE FALSE
    BY <1>1, <2>1, <2>3
  <2>4. ASSUME h \in rs, h = home, Loads(cfg) PROVE FALSE
    <3>1. p \in cfg.paths \cap locked
      BY <1>3, <2>1, <2>4 DEF ConfigCurrent
    <3>2. p \in refused
      BY <1>3, <2>4, <3>1 DEF ConfigCurrent, Through
    <3> QED  BY <1>1, <2>4, <3>2
  <2> QED  BY <2>2, <2>3, <2>4
<1>11. ConfigCurrent'
  BY <1>2, <1>3, <1>4 DEF ConfigCurrent, Uninstalling, Through
<1>12. \A h \in Homes : config'[h].token => config[h].token
  BY <1>1, <1>5
<1> QED  BY <1>2, <1>3, <1>6, <1>7, <1>9, <1>10, <1>11, <1>12, BackwardKeeps

\* The binary goes last: every kind of caller has been looked after.
LEMMA RemoveBinaryKeeps == ASSUME SetupInv, RemoveBinary PROVE SetupInv'
<1> USE DEF SetupInv
<1>1. /\ At("binary") /\ Advance
      /\ (shield' = FALSE /\ gone' = homes) \/ UNCHANGED <<shield, gone>>
      /\ UNCHANGED <<systemd, svc, config, locked, callers, admitted, refused, left, forgotten>>
  BY DEF RemoveBinary
<1>2. Uninstalling /\ step = 7
  BY <1>1, Position DEF TypeOK, SetupTypeOK, Ops
<1>3. /\ op' = op /\ step' = 8 /\ step' \in 0..8
      /\ cfg' = cfg /\ homes' = homes /\ home' = home
  BY <1>1, <1>2, Advancing
<1>4. TypeOK'
  <2>1. shield' \in BOOLEAN
    BY <1>1, Zenon DEF TypeOK, SetupTypeOK
  <2>2. gone' \subseteq Homes
    BY <1>1 DEF TypeOK, SetupTypeOK
  <2> QED  BY <1>1, <1>3, <2>1, <2>2 DEF TypeOK, SetupTypeOK, KernelTypeOK
<1>5. NoGhosts'
  BY <1>1 DEF NoGhosts
<1>6. Through(3) /\ Through(4) /\ Through(5) /\ Through(6) /\ Through(8)' /\ shield
  BY <1>2, <1>3 DEF Through, Uninstalling, UninstallSoFar
<1>7. UninstallSoFar'
  BY <1>1, <1>3, <1>6 DEF UninstallSoFar, Stopped
<1>8. NoDeadCaller'
  <2> SUFFICES ASSUME ~shield', NEW c \in callers, Serves(homes, c) PROVE c \in left
    BY <1>1, <1>6 DEF NoDeadCaller
  <2>1. KindOf[c] \in {"shim", "hook", "client"} /\ c \in Callers
    BY SetupAssumption DEF TypeOK, SetupTypeOK
  <2> QED  BY <1>6, <2>1 DEF UninstallSoFar, Of
<1>9. LockedListed' /\ ConfigCurrent'
  BY <1>1, <1>2, ListsKept
<1> QED  BY <1>1, <1>2, <1>4, <1>5, <1>7, <1>8, <1>9, BackwardKeeps

-----------------------------------------------------------------------------
(* Interruptions, and the world around                                     *)

\* An invocation that has ended, in whatever way, has left nothing that only its
\* next step would have mended.
LEMMA IdleKeeps ==
    ASSUME SetupInv, Idle, KernelTypeOK', config' \in [Homes -> Configs],
           \A h \in Homes : /\ config'[h].token => config[h].token
                            /\ config'[h].paths = config[h].paths,
           UNCHANGED <<locked, callers, shield>>, NoGhosts',
           \A x \in Services : /\ svc'[x].enabled => svc[x].enabled
                               /\ Running(svc'[x]) => Running(svc[x]) \/ svc[x].enabled
    PROVE  SetupInv'
<1> USE DEF SetupInv, Idle
<1>1. NoConfig \in Configs /\ NoConfig.token = FALSE
  BY DEF NoConfig, Configs
<1>2. TypeOK'
  <2>1. left' \subseteq Callers \cup Services
    BY DEF TypeOK, SetupTypeOK
  <2> QED  BY <1>1, <2>1 DEF TypeOK, SetupTypeOK
<1>3. (step <= Len(Steps(op)))'
  BY DEF Steps
<1>4. LockedListed'
  BY DEF LockedListed
<1>5. ConfigCurrent' /\ UninstallSoFar'
  BY DEF ConfigCurrent, UninstallSoFar, Through, Uninstalling
<1>6. NoDeadCaller'
  BY DEF NoDeadCaller
<1>7. LoginFirst'
  <2>1. \A x \in Services : svc'[x].enabled => admitted
    BY DEF LoginFirst
  <2>2. \A h \in Homes : config'[h].token => admitted
    BY DEF LoginFirst
  <2> QED  BY <1>1, <2>1, <2>2 DEF LoginFirst
<1>8. BootstrapIdle'
  <2>1. AnyRunning' => AnyRunning \/ \E x \in Services : svc[x].enabled
    BY Zenon DEF AnyRunning
  <2> QED  BY <2>1 DEF BootstrapIdle, LoginFirst
<1> QED  BY <1>2, <1>3, <1>4, <1>5, <1>6, <1>7, <1>8

LEMMA RebootKeeps == ASSUME SetupInv, Reboot PROVE SetupInv'
<1> USE DEF SetupInv
<1>1. /\ Idle /\ UNCHANGED machine /\ systemd' = systemd
      /\ svc' = [s \in Services |->
                   [svc[s] EXCEPT !.active = systemd /\ svc[s].enabled /\ svc[s].bin /\ svc[s].unit,
                                  !.direct = 0]]
  BY DEF Reboot, Boot
<1>2. ASSUME NEW x \in Services
      PROVE  /\ svc'[x] \in Records
             /\ svc'[x].enabled = svc[x].enabled
             /\ svc'[x].active => systemd /\ svc[x].enabled
             /\ svc'[x].direct = 0
  <2> DEFINE a == systemd /\ svc[x].enabled /\ svc[x].bin /\ svc[x].unit
  <2>1. svc[x] \in Records /\ a \in BOOLEAN
    BY DEF TypeOK, KernelTypeOK
  <2>2. svc'[x] = [svc[x] EXCEPT !.active = a, !.direct = 0] /\ (a => systemd /\ svc[x].enabled)
    BY <1>1
  <2> HIDE DEF a
  <2>3. /\ svc'[x].enabled = svc[x].enabled /\ svc'[x].active = a /\ svc'[x].direct = 0
        /\ svc'[x].bin = svc[x].bin /\ svc'[x].unit = svc[x].unit
    BY <2>1, <2>2 DEF Records
  <2>4. svc'[x] \in Records
    <3>1. svc'[x] = [bin |-> svc[x].bin, unit |-> svc[x].unit, enabled |-> svc[x].enabled,
                     active |-> a, direct |-> 0]
      BY <2>1, <2>2 DEF Records
    <3> QED  BY <2>1, <3>1, KernelAssumption DEF Records
  <2> QED  BY <2>2, <2>3, <2>4
<1>3. KernelTypeOK' /\ NoGhosts'
  BY <1>1, <1>2 DEF TypeOK, KernelTypeOK, NoGhosts
<1>4. \A x \in Services : /\ svc'[x].enabled => svc[x].enabled
                          /\ Running(svc'[x]) => Running(svc[x]) \/ svc[x].enabled
  BY <1>2 DEF Running
<1> QED  BY <1>1, <1>3, <1>4, IdleKeeps DEF machine, TypeOK, SetupTypeOK

LEMMA InterruptKeeps == ASSUME SetupInv, Finish \/ Killed PROVE SetupInv'
<1> USE DEF SetupInv
<1>1. Idle /\ UNCHANGED <<systemd, svc, config, locked, callers, shield>>
  BY DEF Finish, Killed, machine
<1> QED  BY <1>1, IdleKeeps DEF TypeOK, SetupTypeOK, KernelTypeOK, NoGhosts

\* A save changes no list and no token, or ends the invocation.
LEMMA SaveConfigKeeps == ASSUME SetupInv, SaveConfig PROVE SetupInv'
<1> USE DEF SetupInv
<1>1. At("save") /\ UNCHANGED <<systemd, svc, locked, callers, shield>>
  BY DEF SaveConfig
<1>2. op \in Forwards /\ op # "idle"
  BY <1>1, Position DEF TypeOK, SetupTypeOK, Ops, Forwards
<1>3. home \in Homes /\ config \in [Homes -> Configs] /\ config[home] \in Configs
  BY <1>2 DEF ConfigCurrent, TypeOK, SetupTypeOK
<1>4. NoGhosts'
  BY <1>1 DEF NoGhosts
<1>5. CASE config' = [config EXCEPT ![home].text = "whole"] /\ Advance /\ UNCHANGED history
  <2> DEFINE f == [config[home] EXCEPT !.text = "whole"]
  <2>1. f \in Configs /\ f.token = config[home].token /\ f.paths = config[home].paths
    BY <1>3 DEF Configs
  <2>2. config' = [config EXCEPT ![home] = f]
    BY <1>3, <1>5
  <2> HIDE DEF f
  <2>3. /\ config' \in [Homes -> Configs]
        /\ \A h \in Homes : /\ config'[h].token = config[h].token
                            /\ config'[h].paths = config[h].paths
    BY <1>3, <2>1, <2>2, FileChange
  <2>4. TypeOK'
    BY <1>1, <1>5, <2>3, Advancing DEF TypeOK, SetupTypeOK, KernelTypeOK, history
  <2> QED  BY <1>1, <1>2, <1>4, <1>5, <2>3, <2>4, ForwardKeeps DEF history
<1>6. CASE config' = [config EXCEPT ![home] = Torn(@)] /\ Idle
  <2> DEFINE f == Torn(config[home])
  <2>1. f \in Configs /\ f.token = FALSE /\ f.paths = config[home].paths
    BY <1>3 DEF Configs, Torn
  <2>2. config' = [config EXCEPT ![home] = f]
    BY <1>3, <1>6
  <2> HIDE DEF f
  <2>3. /\ config' \in [Homes -> Configs]
        /\ \A h \in Homes : /\ config'[h].token => config[h].token
                            /\ config'[h].paths = config[h].paths
    BY <1>3, <2>1, <2>2, FileChange
  <2> QED  BY <1>1, <1>4, <1>6, <2>3, IdleKeeps DEF TypeOK, KernelTypeOK
<1> QED  BY <1>5, <1>6 DEF SaveConfig

LEMMA BeginKeeps ==
    ASSUME SetupInv, NEW o \in Commands, NEW h \in Homes, NEW u \in Homes, Begin(o, h, u)
    PROVE  SetupInv'
<1> USE DEF SetupInv, Begin
<1>1. /\ NoConfig \in Configs /\ NoConfig.token = FALSE /\ ~Loads(NoConfig)
      /\ config[h] \in Configs
  BY DEF NoConfig, Configs, Loads, TypeOK, SetupTypeOK
<1>2. /\ cfg' \in Configs /\ step' = 0 /\ op' = o /\ home' = h /\ homes' = {h, u}
      /\ UNCHANGED <<systemd, svc, config, locked, callers, shield, refused, left,
                     forgotten, gone>>
  BY <1>1 DEF machine
<1>3. admitted' \in BOOLEAN /\ (admitted => admitted') /\ (o \in {"doctor", "enable"} => admitted')
  BY DEF TypeOK, SetupTypeOK
<1>4. TypeOK'
  BY <1>2, <1>3 DEF TypeOK, SetupTypeOK, KernelTypeOK
<1>5. (step <= Len(Steps(op)))'
  BY <1>2, Lengths DEF Steps, Commands
<1>6. ConfigCurrent'
  BY <1>1, <1>2 DEF ConfigCurrent, Uninstalling, Through
<1>7. UninstallSoFar' /\ NoDeadCaller'
  BY <1>2 DEF UninstallSoFar, NoDeadCaller, Through
<1>8. LockedListed' /\ NoGhosts'
  BY <1>2 DEF LockedListed, NoGhosts
<1>9. BootstrapIdle'
  BY <1>2, <1>3 DEF BootstrapIdle, AnyRunning
<1>10. LoginFirst'
  BY <1>1, <1>2, <1>3 DEF LoginFirst
<1> QED  BY <1>4, <1>5, <1>6, <1>7, <1>8, <1>9, <1>10

\* Between two invocations: the files change and programs arrive.
LEMMA BetweenKeeps ==
    ASSUME SetupInv, op = "idle", UNCHANGED <<systemd, locked, tool, refused, forgotten>>,
           callers' \subseteq Callers, config' \in [Homes -> Configs],
           \A h \in Homes : /\ config[h].paths \subseteq config'[h].paths
                            /\ config'[h].token => config[h].token \/ admitted',
           admitted' \in BOOLEAN, admitted => admitted',
           svc' \in [Services -> Records],
           \A x \in Services : /\ svc'[x].enabled = svc[x].enabled
                               /\ svc'[x].active = svc[x].active
                               /\ svc'[x].direct = svc[x].direct,
           left' \subseteq left, gone' \subseteq gone,
           shield' \/ UNCHANGED <<shield, callers, left, gone>>
    PROVE  SetupInv'
<1> USE DEF SetupInv
<1>1. shield' \in BOOLEAN => TypeOK'
  BY DEF TypeOK, SetupTypeOK, KernelTypeOK, tool
<1>2. (step <= Len(Steps(op)))'
  BY DEF Steps, tool
<1>3. LockedListed' /\ ConfigCurrent' /\ UninstallSoFar' /\ NoGhosts'
  BY DEF LockedListed, ConfigCurrent, UninstallSoFar, Through, Uninstalling, NoGhosts, tool
<1>4. NoDeadCaller'
  BY DEF NoDeadCaller
<1>5. BootstrapIdle' /\ LoginFirst'
  BY DEF BootstrapIdle, AnyRunning, Running, LoginFirst, tool
<1> QED  BY <1>1, <1>2, <1>3, <1>4, <1>5 DEF TypeOK, SetupTypeOK

LEMMA DeployKeeps == ASSUME SetupInv, Deploy PROVE SetupInv'
<1> USE DEF SetupInv
<1>1. /\ op = "idle" /\ UNCHANGED <<config, locked, callers, tool, admitted, refused, forgotten>>
      /\ \/ shield' = TRUE /\ left' = {} /\ gone' = {} /\ UNCHANGED <<systemd, svc>>
         \/ (\E s \in Services : InstallArtifacts(s)) /\ UNCHANGED <<shield, left, gone>>
  BY DEF Deploy
<1>2. /\ svc' \in [Services -> Records] /\ systemd' = systemd
      /\ \A x \in Services : /\ svc'[x].enabled = svc[x].enabled
                             /\ svc'[x].active = svc[x].active
                             /\ svc'[x].direct = svc[x].direct
  <2>1. CASE UNCHANGED <<systemd, svc>>
    BY <2>1 DEF TypeOK, KernelTypeOK
  <2>2. ASSUME NEW s \in Services, InstallArtifacts(s)
        PROVE  /\ svc' \in [Services -> Records] /\ systemd' = systemd
               /\ \A x \in Services : /\ svc'[x].enabled = svc[x].enabled
                                      /\ svc'[x].active = svc[x].active
                                      /\ svc'[x].direct = svc[x].direct
    BY <2>2 DEF InstallArtifacts, TypeOK, KernelTypeOK, Records
  <2> QED  BY <1>1, <2>1, <2>2
<1>3. /\ left' \subseteq left /\ gone' \subseteq gone
      /\ shield' \/ UNCHANGED <<shield, callers, left, gone>>
  BY <1>1
<1> QED  BY <1>1, <1>2, <1>3, BetweenKeeps DEF TypeOK, SetupTypeOK

LEMMA AccountKeeps == ASSUME SetupInv, NEW h \in Homes, Account(h) PROVE SetupInv'
<1> USE DEF SetupInv
<1>1. /\ op = "idle" /\ shield
      /\ UNCHANGED <<systemd, svc, locked, callers, shield, tool, refused, left, forgotten, gone>>
  BY DEF Account
<1>2. config \in [Homes -> Configs] /\ config[h] \in Configs /\ admitted \in BOOLEAN
  BY DEF TypeOK, SetupTypeOK
<1>3. CASE /\ \E t \in {config[h].token, TRUE, FALSE} :
                config' = [config EXCEPT ![h].text = "whole", ![h].token = t]
           /\ admitted' = (admitted \/ config'[h].token)
  <2>1. PICK t \in {config[h].token, TRUE, FALSE} :
            config' = [config EXCEPT ![h].text = "whole", ![h].token = t]
    BY <1>3
  <2> DEFINE f == [config[h] EXCEPT !.text = "whole", !.token = t]
  <2>2. f \in Configs /\ f.token \in BOOLEAN /\ f.paths = config[h].paths
    BY <1>2 DEF Configs
  <2>3. config' = [config EXCEPT ![h] = f]
    BY <1>2, <2>1
  <2> HIDE DEF f
  <2>4. /\ config' \in [Homes -> Configs] /\ config'[h] = f
        /\ \A x \in Homes : x # h => config'[x] = config[x]
    BY <1>2, <2>2, <2>3, FileChange
  <2>5. admitted' \in BOOLEAN /\ (admitted => admitted') /\ (f.token => admitted')
    BY <1>2, <1>3, <2>2, <2>4
  <2>6. \A x \in Homes : /\ config[x].paths \subseteq config'[x].paths
                         /\ config'[x].token => config[x].token \/ admitted'
    BY <2>2, <2>4, <2>5
  <2> QED  BY <1>1, <2>4, <2>5, <2>6, BetweenKeeps DEF TypeOK, SetupTypeOK, KernelTypeOK
<1>4. CASE config' = [config EXCEPT ![h] = Torn(@)] /\ UNCHANGED admitted
  <2> DEFINE f == Torn(config[h])
  <2>1. f \in Configs /\ f.token = FALSE /\ f.paths = config[h].paths
    BY <1>2 DEF Configs, Torn
  <2>2. config' = [config EXCEPT ![h] = f]
    BY <1>2, <1>4
  <2> HIDE DEF f
  <2>3. /\ config' \in [Homes -> Configs]
        /\ \A x \in Homes : /\ config[x].paths \subseteq config'[x].paths
                            /\ config'[x].token => config[x].token \/ admitted'
    BY <1>2, <2>1, <2>2, FileChange
  <2> QED  BY <1>1, <1>2, <1>4, <2>3, BetweenKeeps DEF TypeOK, SetupTypeOK, KernelTypeOK
<1> QED  BY <1>3, <1>4 DEF Account

LEMMA EditKeeps == ASSUME SetupInv, NEW h \in Homes, Edit(h) PROVE SetupInv'
<1> USE DEF SetupInv
<1>1. op = "idle" /\ shield /\ UNCHANGED <<systemd, svc, locked, shield, tool, history>>
  BY DEF Edit
<1>2. config \in [Homes -> Configs] /\ config[h] \in Configs
  BY DEF TypeOK, SetupTypeOK
<1>3. callers' \subseteq Callers
  BY DEF Edit, Of, TypeOK, SetupTypeOK
<1>4. /\ config' \in [Homes -> Configs]
      /\ \A x \in Homes : /\ config[x].paths \subseteq config'[x].paths
                          /\ config'[x].token = config[x].token
  <2>1. CASE config' = config
    BY <1>2, <2>1
  <2>2. ASSUME NEW p \in Paths,
               config' = [config EXCEPT ![h].text = "whole", ![h].paths = @ \cup {p}]
        PROVE  /\ config' \in [Homes -> Configs]
               /\ \A x \in Homes : /\ config[x].paths \subseteq config'[x].paths
                                   /\ config'[x].token = config[x].token
    <3> DEFINE f == [config[h] EXCEPT !.text = "whole", !.paths = @ \cup {p}]
    <3>1. f \in Configs /\ f.token = config[h].token /\ config[h].paths \subseteq f.paths
      <4>1. config[h].paths \cup {p} \in SUBSET Paths
        BY <1>2 DEF Configs
      <4> QED  BY <1>2, <4>1 DEF Configs
    <3>2. config' = [config EXCEPT ![h] = f]
      BY <1>2, <2>2
    <3> HIDE DEF f
    <3> QED  BY <1>2, <3>1, <3>2, FileChange
  <2> QED  BY <2>1, <2>2 DEF Edit
<1> QED  BY <1>1, <1>3, <1>4, BetweenKeeps DEF history, TypeOK, SetupTypeOK, KernelTypeOK

LEMMA NextInv == SetupInv /\ [Next]_vars => SetupInv'
<1> SUFFICES ASSUME SetupInv, [Next]_vars PROVE SetupInv'
  OBVIOUS
<1>1. ASSUME NEW o \in Commands, NEW h \in Homes, NEW u \in Homes, Begin(o, h, u)
      PROVE  SetupInv'
  BY <1>1, BeginKeeps
<1>2. CASE SaveConfig \/ InstallCallers \/ LockPaths \/ StartMonitors
  BY <1>2, SaveConfigKeeps, InstallCallersKeeps, LockPathsKeeps, StartMonitorsKeeps
<1>3. CASE \/ StopMonitors \/ UnlockPaths \/ RemoveCallers \/ CleanMonitors
           \/ RemoveConfig \/ RemoveBinary
  BY <1>3, StopMonitorsKeeps, UnlockPathsKeeps, RemoveCallersKeeps, CleanMonitorsKeeps,
     RemoveConfigKeeps, RemoveBinaryKeeps
<1>4. CASE Finish \/ Killed \/ Reboot \/ Deploy
  BY <1>4, InterruptKeeps, RebootKeeps, DeployKeeps
<1>5. ASSUME NEW h \in Homes, Account(h) \/ Edit(h) PROVE SetupInv'
  BY <1>5, AccountKeeps, EditKeeps
<1>6. CASE UNCHANGED vars
  <2>1. TypeOK' /\ (step <= Len(Steps(op)))'
    BY <1>6 DEF vars, machine, tool, history, SetupInv, TypeOK, SetupTypeOK, KernelTypeOK, Steps
  <2>2. LockedListed' /\ ConfigCurrent' /\ NoDeadCaller'
    BY <1>6 DEF vars, machine, tool, history, SetupInv, LockedListed, ConfigCurrent,
       NoDeadCaller, Through, Uninstalling
  <2>3. UninstallSoFar'
    BY <1>6 DEF vars, machine, tool, history, SetupInv, UninstallSoFar, Through, Uninstalling,
       Stopped
  <2>4. NoGhosts' /\ BootstrapIdle' /\ LoginFirst'
    BY <1>6 DEF vars, machine, tool, history, SetupInv, NoGhosts, BootstrapIdle, AnyRunning,
       LoginFirst
  <2> QED  BY <2>1, <2>2, <2>3, <2>4 DEF SetupInv
<1> QED  BY <1>1, <1>2, <1>3, <1>4, <1>5, <1>6 DEF Next

-----------------------------------------------------------------------------
(* Theorems                                                                *)

\* What an invocation has done so far is what its steps up to now account for, in
\* every state of install, doctor --fix, enable, pause and uninstall.
THEOREM Invariant == Spec => []SetupInv
BY InitInv, NextInv, PTL DEF Spec

\* Every variable keeps its type.
THEOREM TypeCorrect == Spec => []TypeOK
<1>1. SetupInv => TypeOK
  BY DEF SetupInv
<1> QED  BY <1>1, Invariant, PTL

\* Whatever the invocations do and wherever they are killed, a locked path is on
\* the list of some home, or an uninstall has removed a list with it: one it could
\* not unlock from, or one it had not read.
THEOREM ListedStaysListed == Spec => []LockedListed
<1>1. SetupInv => LockedListed
  BY DEF SetupInv
<1> QED  BY <1>1, Invariant, PTL

\* An uninstall that could load its configuration leaves nothing of a monitor of
\* which it could stop, disable and remove everything, from whatever state it
\* began, but a process the shield started itself next to systemd.
THEOREM UninstallIsComplete == Spec => []UninstallComplete
<1>1. SetupInv => UninstallComplete
  <2> SUFFICES ASSUME SetupInv, Done, op = "uninstall", Loads(cfg)
               PROVE  \A s \in Services \ left : Stopped(svc[s])
    BY DEF UninstallComplete, Stopped
  <2>1. step = 8
    BY Lengths DEF Done
  <2>2. Through(5)
    BY <2>1 DEF Through, Uninstalling
  <2> QED  BY <2>2 DEF SetupInv, UninstallSoFar
<1> QED  BY <1>1, Invariant, PTL

\* Nothing in the homes that were uninstalled calls a binary that is gone, but
\* what the uninstall could not remove.
THEOREM NoCallerIsDead == Spec => []NoDeadCaller
<1>1. SetupInv => NoDeadCaller
  BY DEF SetupInv
<1> QED  BY <1>1, Invariant, PTL

\* Nothing is locked and no monitor runs on a machine where nobody has logged in,
\* passed a token, or run enable or doctor --fix.
THEOREM BootstrapStaysIdle == Spec => []BootstrapIdle
<1>1. SetupInv => BootstrapIdle
  BY DEF SetupInv
<1> QED  BY <1>1, Invariant, PTL
=============================================================================
