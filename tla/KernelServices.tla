--------------------------- MODULE KernelServices ---------------------------
(***************************************************************************)
(* The Linux half of internal/kernel: the monitors as systemd services, or *)
(* as processes the shield starts itself when systemd is not there or      *)
(* refuses. Every call of the manager ignores most errors of the commands  *)
(* it runs, so each has several outcomes. The module gives the outcomes;   *)
(* Setup composes them with the command line tool.                         *)
(***************************************************************************)
EXTENDS Naturals

CONSTANTS
    Services,   \* authsec-shield-execmon and authsec-shield-fanotify
    MaxDirect   \* bound on the processes of a monitor started directly

ASSUME KernelAssumption == Services # {} /\ MaxDirect \in Nat \ {0}

VARIABLES
    systemd,    \* isSystemdAvailable
    svc         \* what there is of each service

Records == [bin : BOOLEAN,       \* its program in /usr/local/sbin
            unit : BOOLEAN,      \* its unit file
            enabled : BOOLEAN,   \* started at boot
            active : BOOLEAN,    \* run by systemd
            direct : 0..MaxDirect]

None == [bin |-> FALSE, unit |-> FALSE, enabled |-> FALSE, active |-> FALSE, direct |-> 0]

\* isLinuxServiceRunning.
Running(r) == r.active \/ r.direct > 0

\* startLinuxService: `systemctl enable --now`, or else directly, whether or not
\* one of its processes is there already. systemctl may fail after it has
\* enabled the service.
Enabled(r) == [r EXCEPT !.enabled = TRUE, !.active = TRUE]
Forked(r)  == [r EXCEPT !.direct = IF @ < MaxDirect THEN @ + 1 ELSE @]
Refused(r) == {r} \cup (IF systemd /\ r.unit THEN {[r EXCEPT !.enabled = TRUE]} ELSE {})
Starts(r) ==
    IF ~r.bin THEN {}
    ELSE {Forked(q) : q \in Refused(r)} \cup (IF systemd /\ r.unit THEN {Enabled(r)} ELSE {})

\* startLinux tries both services; one that does not start may still be enabled.
StartOutcomes ==
    {t \in [Services -> Records] :
        \A s \in Services :
            t[s] \in Starts(svc[s]) \cup (IF svc[s].bin THEN Refused(svc[s]) ELSE {svc[s]})}

\* linuxServiceExists.
Known(r) == r.unit \/ r.enabled \/ r.active

\* Mutant: only systemd is told.
HaltedUnits(r) == IF Known(r) THEN [r EXCEPT !.active = FALSE, !.enabled = FALSE] ELSE r
\* stopLinuxService: systemd is told, or else every process of the program is
\* signalled; a process the shield started itself is left alone where there is
\* a systemd.
Halted(r) ==
    IF ~systemd THEN [r EXCEPT !.direct = 0]
    ELSE IF Known(r) THEN [r EXCEPT !.active = FALSE, !.enabled = FALSE] ELSE r

\* A service that cannot be stopped or disabled stays as it is, half of it or all.
Halts(r) == {Halted(r), r, [r EXCEPT !.enabled = Halted(r).enabled],
             [r EXCEPT !.active = Halted(r).active]}

StopOutcomes == {t \in [Services -> Records] : \A s \in Services : t[s] \in Halts(svc[s])}

\* cleanupLinux: stop, then remove the program and the unit file.
Removed(r) == [r EXCEPT !.bin = FALSE, !.unit = FALSE]
CleanOutcomes ==
    {t \in [Services -> Records] :
        \A s \in Services :
            \E r \in Halts(svc[s]) :
                t[s] \in {Removed(r), r, [r EXCEPT !.bin = FALSE], [r EXCEPT !.unit = FALSE]}}

\* statusLinux.
Available  == \E s \in Services : svc[s].bin
AnyRunning == \E s \in Services : Running(svc[s])

KernelInit == systemd \in BOOLEAN /\ svc = [s \in Services |-> None]

KernelTypeOK == systemd \in BOOLEAN /\ svc \in [Services -> Records]

\* `make install-artifacts` of a monitor.
InstallArtifacts(s) ==
    /\ svc' = [svc EXCEPT ![s].bin = TRUE, ![s].unit = TRUE]
    /\ UNCHANGED systemd

\* The machine starts again: systemd starts what is enabled, nobody the rest.
Boot ==
    /\ svc' = [s \in Services |->
                 [svc[s] EXCEPT !.active = systemd /\ svc[s].enabled /\ svc[s].bin /\ svc[s].unit,
                                !.direct = 0]]
    /\ UNCHANGED systemd
=============================================================================
