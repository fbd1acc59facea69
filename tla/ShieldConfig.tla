---------------------------- MODULE ShieldConfig ----------------------------
(***************************************************************************)
(* The command line tool (cmd/shield/main.go) around the two things its    *)
(* processes share: the configuration file (internal/config) and the       *)
(* immutable flag of the protected paths (internal/fsprotect).             *)
(*                                                                         *)
(* Every invocation is a process of its own: Cmds are invocations of the   *)
(* administrative commands, Shims are guarded commands run through a shim. *)
(* Nothing locks the file. A command loads it, works on its copy and       *)
(* rewrites it whole: os.WriteFile truncates first and writes then.        *)
(***************************************************************************)
EXTENDS Integers

CONSTANTS
    Cmds,         \* administrative invocations
    Kinds,        \* what they may be
    Shims,        \* guarded commands
    Risky,        \* those scored above the threshold
    Listed,       \* cfg.ProtectedPaths
    Target,       \* the path each guarded command is about, or NoPath
    NoPath,
    Root,         \* the processes that may change the immutable flag
    PauseLength,
    MayFail,      \* guarded commands whose program may exit with an error
    MaxClock,     \* bound on the clock
    MaxKills      \* bound on killed processes

AllKinds == {"setup", "login", "logout", "pause", "enable", "install",
             "uninstall", "doctor"}
Procs == Cmds \cup Shims

ASSUME ShieldAssumption ==
    /\ Cmds \cap Shims = {}
    /\ Kinds \subseteq AllKinds
    /\ Risky \subseteq Shims /\ MayFail \subseteq Shims
    /\ NoPath \notin Listed
    /\ Target \in [Shims -> Listed \cup {NoPath}]
    /\ PauseLength \in Nat \ {0}
    /\ MaxClock \in Nat /\ MaxKills \in Nat

VARIABLES
    file,       \* the configuration file
    fs,         \* the immutable flag of each path
    cmd,        \* what each administrative process does and where it is
    copy,       \* its copy of the configuration
    todo,       \* the paths it has still to lock or unlock
    shim,       \* where each guarded command is
    clock,
    kills,
    saved,      \* history: what the last Save to complete wrote
    tangled,    \* history: two saves overlapped or one was cut short
    reason,     \* history: why each guarded command may run
    lapsed,     \* history: paths let go by pause, uninstall or a shim that was cut short,
                \* or made anew, since they were last locked
    pauseEnd    \* history: end of the pause last acknowledged, 0 after enable

disk    == <<file, fs>>
admin   == <<cmd, copy, todo>>
history == <<saved, tangled, reason, lapsed, pauseEnd>>
vars    == <<disk, admin, shim, clock, kills, history>>

-----------------------------------------------------------------------------
(* The file                                                                *)

\* text tells a file that parses from one that does not: truncated and not
\* yet written, or written over by two processes.
Texts == {"config", "missing", "empty", "torn"}
Contents == [text : Texts, token : BOOLEAN, enabled : BOOLEAN, until : Nat]

\* DefaultConfig
Missing == [text |-> "missing", token |-> FALSE, enabled |-> TRUE, until |-> 0]
Default == [Missing EXCEPT !.text = "config"]

\* config.Load: defaults for a missing file, an error for one that does not
\* parse.
Loads(f) == f.text \in {"config", "missing"}
Loaded(f) == IF f.text = "missing" THEN Default ELSE f

\* The test of cmdCheck and enforceCommand: anything but a readable, active
\* configuration lets the command pass.
Enforcing(f) == Loads(f) /\ f.token /\ f.enabled /\ clock >= f.until

-----------------------------------------------------------------------------
NoCmd == [kind |-> "none", at |-> "idle"]
At(c, pc) == cmd[c].at = pc
Go(c, pc) == cmd' = [cmd EXCEPT ![c].at = pc]

CmdStates == [kind : AllKinds \cup {"none"},
              at : {"idle", "edit", "opened", "orphan", "install", "diagnose", "paths",
                    "remove", "done"}]
Savers == {c \in Cmds : At(c, "opened")}
Saves == {"setup", "login", "logout", "pause", "enable"}
Locks == {"enable", "install", "doctor"}
Unlocks == {"pause", "uninstall"}

ShimStates == {"idle", "asking", "cleared", "unlocked", "running", "relock",
               "done", "blocked", "killed"}
Holding == {"unlocked", "relock"}
Ran == {"unlocked", "running", "relock", "done"}

Init ==
    /\ \/ file = Missing
       \/ \E t, e \in BOOLEAN : file = [Default EXCEPT !.token = t, !.enabled = e]
    /\ fs \in [Listed -> {IF file.token THEN "locked" ELSE "unlocked", "gone"}]
    /\ cmd = [c \in Cmds |-> NoCmd]
    /\ copy = [c \in Cmds |-> Default]
    /\ todo = [c \in Cmds |-> {}]
    /\ shim = [s \in Shims |-> "idle"]
    /\ clock = 0
    /\ kills = 0
    /\ saved = file
    /\ tangled = FALSE
    /\ reason = [s \in Shims |-> "none"]
    /\ lapsed = {p \in Listed : fs[p] = "unlocked"}
    /\ pauseEnd = 0

-----------------------------------------------------------------------------
(* Administrative commands                                                 *)

\* What the command makes of its copy before it saves it.
Edit(k, f) ==
    CASE k = "login"  -> [f EXCEPT !.token = TRUE]
      [] k = "logout" -> [f EXCEPT !.token = FALSE]
      [] k = "pause"  -> [f EXCEPT !.until = clock + PauseLength]
      [] k = "enable" -> [f EXCEPT !.enabled = TRUE, !.until = 0]
      [] OTHER        -> f

\* Load, which ends the command on an error; uninstall then goes on without a
\* configuration. install locks the paths of a logged-in user only.
Load(c, k) ==
    /\ cmd' = [cmd EXCEPT ![c] =
                 [kind |-> k,
                  at |-> IF ~Loads(file) THEN IF k = "uninstall" THEN "remove" ELSE "done"
                         ELSE IF k \in Saves THEN "edit"
                         ELSE IF k = "doctor" THEN "diagnose" ELSE "paths"]]
    /\ copy' = [copy EXCEPT ![c] = IF Loads(file) THEN Loaded(file) ELSE Default]
    /\ todo' = [todo EXCEPT ![c] =
                  IF ~Loads(file) \/ (k = "install" /\ ~file.token) THEN {} ELSE Listed]
    /\ pauseEnd' = IF k = "enable" /\ Loads(file) THEN 0 ELSE pauseEnd
    /\ UNCHANGED <<disk, shim, clock, kills, saved, tangled, reason, lapsed>>

StartCmd(c) == At(c, "idle") /\ \E k \in Kinds : Load(c, k)

\* login polls for a token for minutes; it may fail.
LoginFails(c) ==
    /\ cmd[c] = [kind |-> "login", at |-> "edit"]
    /\ Go(c, "done")
    /\ UNCHANGED <<disk, copy, todo, shim, clock, kills, history>>

\* Mutant: the file is opened without being truncated.
Truncate_Keeps(c) ==
    /\ At(c, "edit")
    /\ copy' = [copy EXCEPT ![c] = Edit(cmd[c].kind, @)]
    /\ Go(c, "opened")
    /\ file' = IF file.text = "missing" THEN [Missing EXCEPT !.text = "empty"] ELSE file
    /\ tangled' = (Savers # {})
    /\ UNCHANGED <<fs, todo, shim, clock, kills, saved, reason, lapsed, pauseEnd>>

\* Save, first half: the command's change to its copy, then open and truncate.
Truncate(c) ==
    /\ At(c, "edit")
    /\ copy' = [copy EXCEPT ![c] = Edit(cmd[c].kind, @)]
    /\ Go(c, "opened")
    /\ file' = [Missing EXCEPT !.text = "empty"]
    /\ tangled' = (Savers # {})
    /\ UNCHANGED <<fs, todo, shim, clock, kills, saved, reason, lapsed, pauseEnd>>

\* Save, second half. Over the text of another process, the tail of a longer
\* one stays. login goes on with `sudo install`, a load of its own.
Write(c) ==
    /\ cmd[c].at \in {"opened", "orphan"}
    /\ \/ /\ At(c, "opened")
          /\ \/ file' = copy[c]
             \/ /\ file.text # "empty" /\ file # copy[c]
                /\ file' = [Missing EXCEPT !.text = "torn"]
          /\ saved' = copy[c]
       \/ /\ At(c, "orphan")
          /\ UNCHANGED <<file, saved>>
    /\ Go(c, CASE cmd[c].kind = "login" -> "install"
               [] cmd[c].kind \in {"pause", "enable"} -> "paths"
               [] OTHER -> "done")
    /\ UNCHANGED <<fs, copy, todo, shim, clock, kills, tangled, reason, lapsed, pauseEnd>>

LoginInstalls(c) == At(c, "install") /\ Load(c, "install")

\* doctor --fix goes on to lock the paths it finds open. IsProtected looks for
\* an i anywhere in what lsattr prints, so an open path may pass for locked.
Diagnose(c) ==
    /\ At(c, "diagnose")
    /\ Go(c, "paths")
    /\ \E open \in SUBSET {p \in Listed : fs[p] = "unlocked"} :
          todo' = [todo EXCEPT ![c] = open]
    /\ UNCHANGED <<disk, copy, shim, clock, kills, history>>

\* ProtectPath and UnprotectPath: chattr, which needs root and the path.
\* Both loops count the paths that fail and go on.
ChangePath(c, p) ==
    /\ At(c, "paths")
    /\ p \in todo[c]
    /\ todo' = [todo EXCEPT ![c] = @ \ {p}]
    /\ IF c \in Root /\ fs[p] # "gone"
       THEN IF cmd[c].kind \in Locks
            THEN fs' = [fs EXCEPT ![p] = "locked"] /\ lapsed' = lapsed \ {p}
            ELSE fs' = [fs EXCEPT ![p] = "unlocked"] /\ lapsed' = lapsed \cup {p}
       ELSE UNCHANGED <<fs, lapsed>>
    /\ UNCHANGED <<file, cmd, copy, shim, clock, kills, saved, tangled, reason, pauseEnd>>

\* The command says what it did: "Shield paused until", "All protections
\* active". uninstall goes on to remove the configuration.
PathsDone(c) ==
    /\ At(c, "paths")
    /\ todo[c] = {}
    /\ Go(c, IF cmd[c].kind = "uninstall" THEN "remove" ELSE "done")
    /\ pauseEnd' = IF cmd[c].kind = "pause" THEN copy[c].until ELSE pauseEnd
    /\ UNCHANGED <<disk, copy, todo, shim, clock, kills, saved, tangled, reason, lapsed>>

\* removeConfigState: a save under way goes on into the unlinked file.
RemoveConfig(c) ==
    /\ At(c, "remove")
    /\ file' = Missing
    /\ saved' = Missing
    /\ tangled' = FALSE
    /\ cmd' = [d \in Cmds |-> IF d = c THEN [cmd[d] EXCEPT !.at = "done"]
                              ELSE IF At(d, "opened") THEN [cmd[d] EXCEPT !.at = "orphan"]
                              ELSE cmd[d]]
    /\ UNCHANGED <<fs, copy, todo, shim, clock, kills, reason, lapsed, pauseEnd>>

-----------------------------------------------------------------------------
(* Guarded commands: runAsShim                                             *)

\* Why the command may run at all: the configuration last saved does not
\* enforce; or a save under way, or one that went wrong, hides it.
ReasonNow ==
    IF ~Enforcing(saved) THEN "notEnforced"
    ELSE IF Savers # {} \/ tangled THEN "raced" ELSE "none"

\* AUTHSEC_SHIELD_ACTIVE=1 in the environment: install sets it for itself and
\* so for every command its steps start, and whoever else sets it is let
\* through the same way.
Exempt(s) ==
    /\ shim' = [shim EXCEPT ![s] = "running"]
    /\ reason' = [reason EXCEPT ![s] = "exempt"]

\* Mutant: a pause counts for as long as the file mentions one.
Enforce_PauseMentioned(s) ==
    /\ shim[s] = "idle"
    /\ \/ Exempt(s)
       \/ /\ shim' = [shim EXCEPT ![s] =
                          IF ~Enforcing(file) \/ file.until # 0 THEN "running"
                          ELSE IF s \in Risky THEN "asking" ELSE "cleared"]
          /\ reason' = [reason EXCEPT ![s] = ReasonNow]
    /\ UNCHANGED <<disk, admin, clock, kills, saved, tangled, lapsed, pauseEnd>>

\* enforceCommand. Without enforcement there is no evaluation, hence no
\* target to unlock.
Enforce(s) ==
    /\ shim[s] = "idle"
    /\ \/ Exempt(s)
       \/ /\ shim' = [shim EXCEPT ![s] = IF ~Enforcing(file) THEN "running"
                                         ELSE IF s \in Risky THEN "asking" ELSE "cleared"]
          /\ reason' = [reason EXCEPT ![s] = ReasonNow]
    /\ UNCHANGED <<disk, admin, clock, kills, saved, tangled, lapsed, pauseEnd>>

\* RequestApproval comes back (ApprovalClient): approved, or anything else.
Approval(s) ==
    /\ shim[s] = "asking"
    /\ \/ /\ shim' = [shim EXCEPT ![s] = "cleared"]
          /\ reason' = [reason EXCEPT ![s] = "approved"]
       \/ /\ shim' = [shim EXCEPT ![s] = "blocked"]
          /\ UNCHANGED reason
    /\ UNCHANGED <<disk, admin, clock, kills, saved, tangled, lapsed, pauseEnd>>

\* A second Load decides whether the target is protected; its failure only
\* means that nothing is unlocked.
Unlock(s) ==
    /\ shim[s] = "cleared"
    /\ IF Target[s] # NoPath /\ Loads(file) /\ s \in Root /\ fs[Target[s]] # "gone"
       THEN /\ fs' = [fs EXCEPT ![Target[s]] = "unlocked"]
            /\ shim' = [shim EXCEPT ![s] = "unlocked"]
       ELSE /\ shim' = [shim EXCEPT ![s] = "running"]
            /\ UNCHANGED fs
    /\ UNCHANGED <<file, admin, clock, kills, history>>

\* The real program ends. An error exit ends the shim with os.Exit, which
\* runs no deferred call.
RunTarget(s) ==
    /\ shim[s] \in {"unlocked", "running"}
    /\ \/ /\ shim' = [shim EXCEPT ![s] = IF @ = "unlocked" THEN "relock" ELSE "done"]
          /\ UNCHANGED lapsed
       \/ /\ s \in MayFail
          /\ shim' = [shim EXCEPT ![s] = "done"]
          /\ lapsed' = IF shim[s] = "unlocked" THEN lapsed \cup {Target[s]} ELSE lapsed
    /\ UNCHANGED <<disk, admin, clock, kills, saved, tangled, reason, pauseEnd>>

\* Mutant: the test for a deleted path is the wrong way round.
Relock_WhenGone(s) ==
    /\ shim[s] = "relock"
    /\ shim' = [shim EXCEPT ![s] = "done"]
    /\ IF fs[Target[s]] # "gone" THEN UNCHANGED <<fs, lapsed>>
       ELSE /\ fs' = [fs EXCEPT ![Target[s]] = "locked"]
            /\ lapsed' = lapsed \ {Target[s]}
    /\ UNCHANGED <<file, admin, clock, kills, saved, tangled, reason, pauseEnd>>

\* The deferred ProtectPath.
Relock(s) ==
    /\ shim[s] = "relock"
    /\ shim' = [shim EXCEPT ![s] = "done"]
    /\ IF fs[Target[s]] = "gone" THEN UNCHANGED <<fs, lapsed>>
       ELSE /\ fs' = [fs EXCEPT ![Target[s]] = "locked"]
            /\ lapsed' = lapsed \ {Target[s]}
    /\ UNCHANGED <<file, admin, clock, kills, saved, tangled, reason, pauseEnd>>

-----------------------------------------------------------------------------
\* A program, guarded or not, or the user removes a path that is open, or
\* makes one that is missing; what is made anew has no flag.
Touch(p) ==
    /\ \/ /\ fs[p] = "unlocked"
          /\ fs' = [fs EXCEPT ![p] = "gone"]
          /\ UNCHANGED lapsed
       \/ /\ fs[p] = "gone"
          /\ fs' = [fs EXCEPT ![p] = "unlocked"]
          /\ lapsed' = lapsed \cup {p}
    /\ UNCHANGED <<file, admin, shim, clock, kills, saved, tangled, reason, pauseEnd>>

\* A process is killed (an interrupt from the terminal, a reboot).
KillCmd(c) ==
    /\ kills < MaxKills
    /\ cmd[c].at \notin {"idle", "done"}
    /\ kills' = kills + 1
    /\ Go(c, "done")
    /\ tangled' = (tangled \/ At(c, "opened"))
    /\ UNCHANGED <<disk, copy, todo, shim, clock, saved, reason, lapsed, pauseEnd>>

KillShim(s) ==
    /\ kills < MaxKills
    /\ shim[s] \in {"asking", "cleared", "unlocked", "running", "relock"}
    /\ kills' = kills + 1
    /\ shim' = [shim EXCEPT ![s] = "killed"]
    /\ lapsed' = IF shim[s] \in Holding THEN lapsed \cup {Target[s]} ELSE lapsed
    /\ UNCHANGED <<disk, admin, clock, saved, tangled, reason, pauseEnd>>

Tick ==
    /\ clock < MaxClock
    /\ clock' = clock + 1
    /\ UNCHANGED <<disk, admin, shim, kills, history>>

CmdStep(c) ==
    \/ LoginFails(c) \/ Truncate(c) \/ Write(c) \/ LoginInstalls(c) \/ Diagnose(c)
    \/ \E p \in Listed : ChangePath(c, p)
    \/ PathsDone(c) \/ RemoveConfig(c)

ShimStep(s) == Approval(s) \/ Unlock(s) \/ RunTarget(s) \/ Relock(s)

Next ==
    \/ \E c \in Cmds : StartCmd(c) \/ CmdStep(c) \/ KillCmd(c)
    \/ \E s \in Shims : Enforce(s) \/ ShimStep(s) \/ KillShim(s)
    \/ (\E p \in Listed : Touch(p)) \/ Tick

Spec == Init /\ [][Next]_vars

-----------------------------------------------------------------------------
(* Properties                                                              *)

\* Type invariant of the file, the flags, the processes and the history.
TypeOK ==
    /\ file \in Contents /\ saved \in Contents
    /\ fs \in [Listed -> {"locked", "unlocked", "gone"}]
    /\ cmd \in [Cmds -> CmdStates]
    /\ copy \in [Cmds -> Contents]
    /\ todo \in [Cmds -> SUBSET Listed]
    /\ shim \in [Shims -> ShimStates]
    /\ clock \in Nat /\ kills \in Nat /\ pauseEnd \in Nat
    /\ tangled \in BOOLEAN
    /\ reason \in [Shims -> {"none", "notEnforced", "raced", "exempt", "approved"}]
    /\ lapsed \in SUBSET (Listed \cup {NoPath})

\* Unless a save is under way, was cut short or overlapped another one, the
\* file holds what the last command saved, whole (Config.Save).
FileSound == Savers = {} /\ ~tangled => file = saved

\* A risky command that nobody approved runs only for one of three reasons,
\* as they were when it started: it was exempt (AUTHSEC_SHIELD_ACTIVE=1), the
\* configuration last saved did not enforce, or the file was in the middle
\* of a save, or left broken by one that overlapped another or was cut
\* short (enforceCommand, which lets pass what it cannot load).
RiskyAdmitted == \A s \in Risky : shim[s] \in Ran => reason[s] # "none"

\* A listed path is open only in the hands of a running shim, unless since it
\* was last locked pause or uninstall opened it, a shim that held it was
\* killed or its program failed (os.Exit skips the lock that runAsShim
\* promises "when done"), or it was removed and made anew, or never locked.
UnlockedAccounted ==
    \A p \in Listed : fs[p] = "unlocked" =>
        p \in lapsed \/ \E s \in Shims : Target[s] = p /\ shim[s] \in Holding

\* The inductive invariant behind FileSound and RiskyAdmitted: as long as
\* nothing is tangled there is one saver at most, and it finds the file empty.
ShieldInv ==
    /\ TypeOK
    /\ FileSound
    /\ RiskyAdmitted
    /\ \A s \in Risky : shim[s] = "cleared" => reason[s] # "none"
    /\ ~tangled => \A c, d \in Savers : c = d
    /\ ~tangled /\ Savers # {} => file.text = "empty"

-----------------------------------------------------------------------------
(* What a message of the program says                                      *)

\* "Shield paused until": from then on and until that time or the next
\* enable, nothing is enforced.
PauseKept == clock < pauseEnd => ~Enforcing(file)
=============================================================================
