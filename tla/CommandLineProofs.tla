------------------------- MODULE CommandLineProofs --------------------------
(***************************************************************************)
(* Theorems about the files that the command line tool rewrites in place:  *)
(* its configuration with the guarded commands that read it                *)
(* (ShieldConfig), for any number of commands, whoever kills them and      *)
(* however they interleave, and the users' start-up files (ProfileHooks),  *)
(* for any number and length of files. The two share no variable.          *)
(***************************************************************************)
EXTENDS ShieldConfig, ProfileHooks, FiniteSetTheorems, SequenceTheorems, TLAPS

-----------------------------------------------------------------------------
(* ShieldConfig: types                                                     *)

LEMMA MissingTyped ==
    /\ Missing \in Contents /\ Default \in Contents
    /\ \A t \in Texts : [Missing EXCEPT !.text = t] \in Contents
    /\ \A t, e \in BOOLEAN : [Default EXCEPT !.token = t, !.enabled = e] \in Contents
BY DEF Missing, Default, Contents, Texts

LEMMA EditTyped ==
    ASSUME NEW k, NEW f \in Contents, clock \in Nat
    PROVE  Edit(k, f) \in Contents
<1>1. clock + PauseLength \in Nat
  BY ShieldAssumption
<1> QED  BY <1>1 DEF Edit, Contents

LEMMA InitType == Init => TypeOK
<1> SUFFICES ASSUME Init PROVE TypeOK
  OBVIOUS
<1>1. file \in Contents /\ saved \in Contents
  <2>1. CASE file = Missing
    BY <2>1, MissingTyped DEF Init
  <2>2. ASSUME NEW t \in BOOLEAN, NEW e \in BOOLEAN,
               file = [Default EXCEPT !.token = t, !.enabled = e]
        PROVE  file \in Contents
    BY <2>2, MissingTyped
  <2>3. /\ saved = file
        /\ \/ file = Missing
           \/ \E t, e \in BOOLEAN : file = [Default EXCEPT !.token = t, !.enabled = e]
    BY Zenon DEF Init
  <2> QED  BY <2>1, <2>2, <2>3
<1>2. fs \in [Listed -> {"locked", "unlocked", "gone"}]
  BY DEF Init
<1>3. cmd \in [Cmds -> CmdStates]
  BY DEF Init, CmdStates, NoCmd, AllKinds
<1>4. /\ copy \in [Cmds -> Contents]
      /\ todo \in [Cmds -> SUBSET Listed]
  BY MissingTyped DEF Init
<1>5. /\ shim \in [Shims -> ShimStates]
      /\ reason \in [Shims -> {"none", "notEnforced", "raced", "exempt", "approved"}]
  BY DEF Init, ShimStates
<1>6. tangled \in BOOLEAN /\ lapsed \in SUBSET (Listed \cup {NoPath})
  BY DEF Init
<1> QED  BY <1>1, <1>2, <1>3, <1>4, <1>5, <1>6 DEF Init, TypeOK

LEMMA LoadType ==
    ASSUME TypeOK, NEW c \in Cmds, NEW k \in AllKinds, Load(c, k)
    PROVE  TypeOK'
<1>1. cmd' \in [Cmds -> CmdStates]
  BY DEF Load, TypeOK, CmdStates
<1>2. copy' \in [Cmds -> Contents]
  BY MissingTyped DEF Load, TypeOK, Loaded
<1>3. todo' \in [Cmds -> SUBSET Listed]
  BY DEF Load, TypeOK
<1>4. pauseEnd' \in Nat
  BY DEF Load, TypeOK
<1> QED  BY <1>1, <1>2, <1>3, <1>4 DEF Load, TypeOK, disk

LEMMA GoType ==
    ASSUME TypeOK, NEW c \in Cmds,
           NEW place \in {"idle", "edit", "opened", "orphan", "install", "diagnose",
                       "paths", "remove", "done"},
           Go(c, place)
    PROVE  cmd' \in [Cmds -> CmdStates]
BY DEF Go, TypeOK, CmdStates

LEMMA NextType == TypeOK /\ [Next]_vars => TypeOK'
<1> SUFFICES ASSUME TypeOK, [Next]_vars PROVE TypeOK'
  OBVIOUS
<1> USE DEF disk, admin, history
<1>1. ASSUME NEW c \in Cmds, StartCmd(c) PROVE TypeOK'
  BY <1>1, LoadType, ShieldAssumption DEF StartCmd
<1>2. ASSUME NEW c \in Cmds, CmdStep(c) PROVE TypeOK'
  <2>1. CASE LoginFails(c)
    BY <2>1, GoType DEF LoginFails, TypeOK
  <2>2. CASE Truncate(c)
    <3>1. cmd' \in [Cmds -> CmdStates]
      BY <2>2, GoType DEF Truncate
    <3>2. copy' \in [Cmds -> Contents] /\ file' \in Contents
      BY <2>2, EditTyped, MissingTyped DEF Truncate, TypeOK, Texts
    <3>3. tangled' \in BOOLEAN
      BY <2>2 DEF Truncate
    <3> QED  BY <2>2, <3>1, <3>2, <3>3 DEF Truncate, TypeOK
  <2>3. CASE Write(c)
    <3>1. cmd' \in [Cmds -> CmdStates]
      <4>1. PICK place \in {"install", "paths", "done"} : Go(c, place)
        BY <2>3 DEF Write
      <4> QED  BY <4>1, GoType
    <3>2. file' \in Contents /\ saved' \in Contents
      <4>1. copy[c] \in Contents /\ [Missing EXCEPT !.text = "torn"] \in Contents
        BY MissingTyped DEF TypeOK, Texts
      <4>2. /\ file' \in {copy[c], [Missing EXCEPT !.text = "torn"], file}
            /\ saved' \in {copy[c], saved}
        BY <2>3 DEF Write
      <4> QED  BY <4>1, <4>2 DEF TypeOK
    <3> QED  BY <2>3, <3>1, <3>2 DEF Write, TypeOK
  <2>4. CASE LoginInstalls(c)
    BY <2>4, LoadType DEF LoginInstalls, AllKinds
  <2>5. ASSUME NEW p \in Listed, ChangePath(c, p) PROVE TypeOK'
    BY <2>5 DEF ChangePath, TypeOK
  <2>6. CASE PathsDone(c)
    <3>1. cmd' \in [Cmds -> CmdStates]
      BY <2>6, GoType DEF PathsDone
    <3>2. pauseEnd' \in Nat
      BY <2>6 DEF PathsDone, TypeOK, Contents
    <3> QED  BY <2>6, <3>1, <3>2 DEF PathsDone, TypeOK
  <2>7. CASE RemoveConfig(c)
    <3>1. cmd' \in [Cmds -> CmdStates]
      BY <2>7 DEF RemoveConfig, TypeOK, CmdStates
    <3> QED  BY <2>7, <3>1, MissingTyped DEF RemoveConfig, TypeOK
  <2>8. CASE Diagnose(c)
    <3>1. cmd' \in [Cmds -> CmdStates]
      BY <2>8, GoType DEF Diagnose
    <3> QED  BY <2>8, <3>1 DEF Diagnose, TypeOK
  <2> QED  BY <1>2, <2>1, <2>2, <2>3, <2>4, <2>5, <2>6, <2>7, <2>8 DEF CmdStep
<1>3. ASSUME NEW c \in Cmds, KillCmd(c) PROVE TypeOK'
  <2>1. cmd' \in [Cmds -> CmdStates]
    BY <1>3, GoType DEF KillCmd
  <2>2. tangled' \in BOOLEAN /\ kills' \in Nat
    <3>1. tangled' \in BOOLEAN
      BY <1>3, Zenon DEF KillCmd, TypeOK, At
    <3>2. kills' \in Nat
      BY <1>3 DEF KillCmd, TypeOK
    <3> QED  BY <3>1, <3>2
  <2> QED  BY <1>3, <2>1, <2>2 DEF KillCmd, TypeOK
<1>4. ASSUME NEW s \in Shims, Enforce(s) PROVE TypeOK'
  <2>1. CASE Exempt(s)
    BY <1>4, <2>1 DEF Enforce, Exempt, TypeOK, ShimStates
  <2>2. CASE ~Exempt(s)
    BY <1>4, <2>2 DEF Enforce, TypeOK, ShimStates, ReasonNow
  <2> QED  BY <2>1, <2>2
<1>5. ASSUME NEW s \in Shims, ShimStep(s) PROVE TypeOK'
  <2>1. CASE Approval(s)
    BY <2>1 DEF Approval, TypeOK, ShimStates
  <2>2. CASE Unlock(s)
    BY <2>2, ShieldAssumption DEF Unlock, TypeOK, ShimStates
  <2>3. CASE RunTarget(s)
    <3>1. shim' \in [Shims -> ShimStates]
      BY <2>3 DEF RunTarget, TypeOK, ShimStates
    <3>2. lapsed' \in SUBSET (Listed \cup {NoPath})
      BY <2>3, ShieldAssumption DEF RunTarget, TypeOK
    <3> QED  BY <2>3, <3>1, <3>2 DEF RunTarget, TypeOK
  <2>4. CASE Relock(s)
    BY <2>4 DEF Relock, TypeOK, ShimStates
  <2> QED  BY <1>5, <2>1, <2>2, <2>3, <2>4 DEF ShimStep
<1>6. ASSUME NEW s \in Shims, KillShim(s) PROVE TypeOK'
  <2>1. kills' \in Nat
    BY <1>6 DEF KillShim, TypeOK
  <2>2. shim' \in [Shims -> ShimStates]
    BY <1>6 DEF KillShim, TypeOK, ShimStates
  <2>3. lapsed' \in SUBSET (Listed \cup {NoPath})
    BY <1>6, ShieldAssumption DEF KillShim, TypeOK
  <2> QED  BY <1>6, <2>1, <2>2, <2>3 DEF KillShim, TypeOK
<1>7. CASE Tick
  BY <1>7 DEF Tick, TypeOK
<1>8. ASSUME NEW p \in Listed, Touch(p) PROVE TypeOK'
  BY <1>8 DEF Touch, TypeOK
<1>9. CASE UNCHANGED vars
  BY <1>9 DEF vars, TypeOK
<1> QED
  BY <1>1, <1>2, <1>3, <1>4, <1>5, <1>6, <1>7, <1>8, <1>9 DEF Next

\* Every variable of the command line tool keeps its type.
THEOREM TypeCorrect == Spec => []TypeOK
BY InitType, NextType, PTL DEF Spec

-----------------------------------------------------------------------------
(* ShieldConfig: the file is sound and risky commands are admitted         *)

LEMMA InitShield == Init => ShieldInv
<1> SUFFICES ASSUME Init PROVE ShieldInv
  OBVIOUS
<1>1. Savers = {}
  BY DEF Init, Savers, At, NoCmd
<1>2. FileSound /\ RiskyAdmitted
  BY ShieldAssumption DEF Init, FileSound, RiskyAdmitted, Ran
<1>3. \A s \in Risky : shim[s] # "cleared"
  BY ShieldAssumption DEF Init
<1> QED  BY InitType, <1>1, <1>2, <1>3 DEF ShieldInv

\* The part of ShieldInv that is about the saves.
Saving == /\ FileSound
          /\ ~tangled => \A c, d \in Savers : c = d
          /\ ~tangled /\ Savers # {} => file.text = "empty"

\* The part that is about the guarded commands.
Guarding == /\ RiskyAdmitted
            /\ \A s \in Risky : shim[s] = "cleared" => reason[s] # "none"

LEMMA NextSaving == ShieldInv /\ [Next]_vars => Saving'
<1> SUFFICES ASSUME ShieldInv, [Next]_vars PROVE Saving'
  OBVIOUS
<1>0. TypeOK /\ TypeOK' /\ Saving
  BY NextType DEF ShieldInv, Saving
<1> USE <1>0 DEF disk, admin, history
<1>a. ASSUME UNCHANGED <<file, saved, tangled>>, Savers' = Savers PROVE Saving'
  BY <1>a DEF Saving, FileSound
<1>1. ASSUME NEW c \in Cmds, NEW k \in AllKinds, Load(c, k), ~At(c, "opened")
      PROVE  Saving'
  <2>1. Savers' = Savers
    BY <1>1 DEF Load, Savers, At, TypeOK, CmdStates
  <2> QED  BY <1>1, <1>a, <2>1 DEF Load
<1>2. ASSUME NEW c \in Cmds, CmdStep(c) PROVE Saving'
  <2>1. CASE LoginFails(c)
    <3>1. Savers' = Savers
      BY <2>1 DEF LoginFails, Go, Savers, At, TypeOK, CmdStates
    <3> QED  BY <2>1, <1>a, <3>1 DEF LoginFails
  <2>2. CASE Truncate(c)
    <3>1. Savers' = Savers \cup {c}
      BY <2>2 DEF Truncate, Go, Savers, At, TypeOK, CmdStates
    <3>2. file'.text = "empty" /\ tangled' = (Savers # {})
      BY <2>2 DEF Truncate, Missing
    <3> QED  BY <3>1, <3>2 DEF Saving, FileSound
  <2>3. CASE Write(c)
    <3>1. Savers' = Savers \ {c}
      BY <2>3 DEF Write, Go, Savers, At, TypeOK, CmdStates
    <3>2. CASE At(c, "opened")
      <4>1. ~tangled => Savers = {c} /\ file.text = "empty"
        BY <3>2 DEF Saving, Savers
      <4>2. ~tangled => file' = copy[c] /\ saved' = copy[c]
        BY <2>3, <3>2, <4>1 DEF Write, At
      <4>3. tangled' = tangled
        BY <2>3 DEF Write
      <4> QED  BY <3>1, <4>1, <4>2, <4>3 DEF Saving, FileSound
    <3>3. CASE At(c, "orphan")
      <4>1. Savers' = Savers
        BY <3>1, <3>3 DEF Savers, At
      <4>2. UNCHANGED <<file, saved, tangled>>
        BY <2>3, <3>3 DEF Write, At
      <4> QED  BY <1>a, <4>1, <4>2
    <3> QED  BY <2>3, <3>2, <3>3 DEF Write
  <2>4. CASE LoginInstalls(c)
    BY <2>4, <1>1 DEF LoginInstalls, At, AllKinds
  <2>5. ASSUME NEW p \in Listed, ChangePath(c, p) PROVE Saving'
    BY <2>5, <1>a DEF ChangePath, Savers, At
  <2>6. CASE PathsDone(c)
    <3>1. Savers' = Savers
      BY <2>6 DEF PathsDone, Go, Savers, At, TypeOK, CmdStates
    <3> QED  BY <2>6, <1>a, <3>1 DEF PathsDone
  <2>7. CASE RemoveConfig(c)
    <3>1. Savers' = {}
      BY <2>7 DEF RemoveConfig, Savers, At, TypeOK, CmdStates
    <3> QED  BY <2>7, <3>1 DEF RemoveConfig, Saving, FileSound
  <2>8. CASE Diagnose(c)
    <3>1. Savers' = Savers
      BY <2>8 DEF Diagnose, Go, Savers, At, TypeOK, CmdStates
    <3> QED  BY <2>8, <1>a, <3>1 DEF Diagnose
  <2> QED  BY <1>2, <2>1, <2>2, <2>3, <2>4, <2>5, <2>6, <2>7, <2>8 DEF CmdStep
<1>3. ASSUME NEW c \in Cmds, StartCmd(c) PROVE Saving'
  BY <1>1, <1>3, ShieldAssumption DEF StartCmd, At
<1>4. ASSUME NEW c \in Cmds, KillCmd(c) PROVE Saving'
  <2>1. Savers' = Savers \ {c}
    BY <1>4 DEF KillCmd, Go, Savers, At, TypeOK, CmdStates
  <2>2. CASE At(c, "opened")
    BY <1>4, <2>2 DEF KillCmd, Saving, FileSound
  <2>3. CASE ~At(c, "opened")
    <3>1. Savers' = Savers
      BY <2>1, <2>3 DEF Savers
    <3>2. tangled' = tangled
      BY <1>4, <2>3, Zenon DEF KillCmd, TypeOK
    <3> QED  BY <1>4, <1>a, <3>1, <3>2 DEF KillCmd
  <2> QED  BY <2>2, <2>3
<1>5. ASSUME NEW s \in Shims, Enforce(s) \/ ShimStep(s) \/ KillShim(s)
      PROVE  Saving'
  <2>1. UNCHANGED <<file, saved, tangled, cmd>>
    BY <1>5 DEF Enforce, ShimStep, Approval, Unlock, RunTarget, Relock, KillShim
  <2> QED  BY <1>a, <2>1 DEF Savers, At
<1>6. CASE (\E p \in Listed : Touch(p)) \/ Tick \/ UNCHANGED vars
  <2>1. UNCHANGED <<file, saved, tangled, cmd>>
    BY <1>6 DEF Touch, Tick, vars
  <2> QED  BY <1>a, <2>1 DEF Savers, At
<1> QED  BY <1>2, <1>3, <1>4, <1>5, <1>6 DEF Next

LEMMA NextGuarding == ShieldInv /\ [Next]_vars => Guarding'
<1> SUFFICES ASSUME ShieldInv, [Next]_vars PROVE Guarding'
  OBVIOUS
<1>0. TypeOK /\ Guarding /\ FileSound
  BY DEF ShieldInv, Guarding
<1> USE <1>0, ShieldAssumption DEF disk, admin, history
<1>a. ASSUME UNCHANGED <<shim, reason>> PROVE Guarding'
  BY <1>a DEF Guarding, RiskyAdmitted
<1>1. ASSUME NEW c \in Cmds, StartCmd(c) \/ CmdStep(c) \/ KillCmd(c)
      PROVE  Guarding'
  <2>1. UNCHANGED <<shim, reason>>
    BY <1>1 DEF StartCmd, CmdStep, KillCmd, Load, LoginFails, Truncate, Write,
                LoginInstalls, Diagnose, ChangePath, PathsDone,
                RemoveConfig
  <2> QED  BY <1>a, <2>1
<1>2. ASSUME NEW s \in Shims, Enforce(s) PROVE Guarding'
  <2>1. ~Enforcing(file) => ReasonNow # "none"
    BY DEF FileSound, ReasonNow
  <2>2. /\ s \in Risky /\ shim'[s] \in Ran \cup {"cleared"} => reason'[s] # "none"
        /\ \A t \in Shims \ {s} : shim'[t] = shim[t] /\ reason'[t] = reason[t]
    <3>1. CASE Exempt(s)
      BY <3>1 DEF Exempt, TypeOK
    <3>2. CASE ~Exempt(s)
      BY <1>2, <2>1, <3>2 DEF Enforce, Ran, TypeOK
    <3> QED  BY <3>1, <3>2
  <2> QED  BY <2>2 DEF Guarding, RiskyAdmitted
<1>3. ASSUME NEW s \in Shims, ShimStep(s) PROVE Guarding'
  <2>1. CASE Approval(s)
    BY <2>1 DEF Approval, Guarding, RiskyAdmitted, Ran, TypeOK
  <2>2. CASE Unlock(s)
    BY <2>2 DEF Unlock, Guarding, RiskyAdmitted, Ran, TypeOK
  <2>3. CASE RunTarget(s)
    BY <2>3 DEF RunTarget, Guarding, RiskyAdmitted, Ran, TypeOK
  <2>4. CASE Relock(s)
    BY <2>4 DEF Relock, Guarding, RiskyAdmitted, Ran, TypeOK
  <2> QED  BY <1>3, <2>1, <2>2, <2>3, <2>4 DEF ShimStep
<1>4. ASSUME NEW s \in Shims, KillShim(s) PROVE Guarding'
  BY <1>4 DEF KillShim, Guarding, RiskyAdmitted, Ran, TypeOK
<1>5. CASE (\E p \in Listed : Touch(p)) \/ Tick \/ UNCHANGED vars
  BY <1>5, <1>a DEF Touch, Tick, vars
<1> QED  BY <1>1, <1>2, <1>3, <1>4, <1>5 DEF Next

LEMMA NextShield == ShieldInv /\ [Next]_vars => ShieldInv'
BY NextType, NextSaving, NextGuarding DEF ShieldInv, Saving, Guarding

\* The inductive invariant: as long as no save overlapped another or was cut
\* short there is one saver at most, and the file is empty until it writes.
THEOREM Invariant == Spec => []ShieldInv
BY InitShield, NextShield, PTL DEF Spec

\* Outside a save, and after saves that neither overlapped nor were cut short,
\* the file holds what was saved last, however many commands run.
THEOREM FileIsSound == Spec => []FileSound
<1>1. ShieldInv => FileSound
  BY DEF ShieldInv
<1> QED  BY <1>1, Invariant, PTL

\* A risky command runs only approved, exempt by its environment, unenforced,
\* or past a file that a save hid or left broken.
THEOREM RiskyIsAdmitted == Spec => []RiskyAdmitted
<1>1. ShieldInv => RiskyAdmitted
  BY DEF ShieldInv
<1> QED  BY <1>1, Invariant, PTL

-----------------------------------------------------------------------------
(* ShieldConfig: an unlocked path is in a shim's hands or was let go       *)

LEMMA InitUnlocked == Init => UnlockedAccounted
BY DEF Init, UnlockedAccounted

LEMMA NextUnlocked == TypeOK /\ UnlockedAccounted /\ [Next]_vars => UnlockedAccounted'
<1> SUFFICES ASSUME TypeOK, UnlockedAccounted, [Next]_vars,
                    NEW p \in Listed, fs'[p] = "unlocked"
             PROVE  (p \in lapsed \/ \E s \in Shims : Target[s] = p /\ shim[s] \in Holding)'
  BY DEF UnlockedAccounted
<1> DEFINE Held == \E s \in Shims : Target[s] = p /\ shim[s] \in Holding
<1>0. fs[p] = "unlocked" => p \in lapsed \/ Held
  BY DEF UnlockedAccounted
<1> USE DEF disk, admin, history
<1>1. ASSUME NEW c \in Cmds, StartCmd(c) \/ CmdStep(c) \/ KillCmd(c)
      PROVE  (p \in lapsed \/ Held)'
  <2>1. shim' = shim
    BY <1>1 DEF StartCmd, CmdStep, KillCmd, Load, LoginFails, Truncate, Write,
                LoginInstalls, Diagnose, ChangePath, PathsDone, RemoveConfig
  <2>2. \/ UNCHANGED <<fs, lapsed>>
        \/ \E q \in Listed : ChangePath(c, q)
    BY <1>1 DEF StartCmd, CmdStep, KillCmd, Load, LoginFails, Truncate, Write,
                LoginInstalls, Diagnose, PathsDone, RemoveConfig
  <2>3. ASSUME NEW q \in Listed, ChangePath(c, q) PROVE (p \in lapsed \/ Held)'
    BY <2>1, <2>3, <1>0 DEF ChangePath, TypeOK
  <2> QED  BY <2>1, <2>2, <2>3, <1>0
<1>2. ASSUME NEW s \in Shims, Enforce(s) PROVE (p \in lapsed \/ Held)'
  <2>1. shim[s] \notin Holding /\ UNCHANGED <<fs, lapsed>>
    BY <1>2 DEF Enforce, Holding
  <2>2. \A t \in Shims \ {s} : shim'[t] = shim[t]
    BY <1>2 DEF Enforce, Exempt, TypeOK
  <2> QED  BY <2>1, <2>2, <1>0
<1>3. ASSUME NEW s \in Shims, ShimStep(s) PROVE (p \in lapsed \/ Held)'
  <2>1. \A t \in Shims \ {s} : shim'[t] = shim[t]
    BY <1>3 DEF ShimStep, Approval, Unlock, RunTarget, Relock, TypeOK
  <2>2. CASE Approval(s)
    BY <2>1, <2>2, <1>0 DEF Approval, Holding
  <2>3. CASE Unlock(s)
    BY <2>1, <2>3, <1>0 DEF Unlock, Holding, TypeOK
  <2>4. CASE RunTarget(s)
    BY <2>1, <2>4, <1>0 DEF RunTarget, Holding, TypeOK
  <2>5. CASE Relock(s)
    BY <2>1, <2>5, <1>0 DEF Relock, Holding, TypeOK
  <2> QED  BY <1>3, <2>2, <2>3, <2>4, <2>5 DEF ShimStep
<1>4. ASSUME NEW s \in Shims, KillShim(s) PROVE (p \in lapsed \/ Held)'
  <2>1. \A t \in Shims \ {s} : shim'[t] = shim[t]
    BY <1>4 DEF KillShim, TypeOK
  <2> QED  BY <1>4, <2>1, <1>0 DEF KillShim
<1>5. CASE Tick \/ UNCHANGED vars
  BY <1>5, <1>0 DEF Tick, vars
<1>6. ASSUME NEW q \in Listed, Touch(q) PROVE (p \in lapsed \/ Held)'
  BY <1>6, <1>0 DEF Touch, TypeOK
<1> QED  BY <1>1, <1>2, <1>3, <1>4, <1>5, <1>6 DEF Next

\* A listed path is open only while a running shim holds it, unless since it
\* was last locked pause, uninstall, a failed program or a kill let it go or
\* it was made anew, for any number of shims on the same path.
THEOREM UnlockedIsAccounted == Spec => []UnlockedAccounted
BY InitType, NextType, InitUnlocked, NextUnlocked, PTL DEF Spec

-----------------------------------------------------------------------------
(* ProfileHooks: lines and files                                           *)

\* A nonempty set of numbers has a least one.
LEMMA LeastExists ==
    ASSUME NEW S \in SUBSET Nat, S # {}
    PROVE  \E n \in S : \A m \in S : n <= m
<1> DEFINE Below(n) == 1..n
           T == {Below(n) : n \in S}
<1>1. \A n \in S : n \in Nat /\ IsFiniteSet(Below(n)) /\ Below(n) \in SUBSET Nat
  BY FS_Interval
<1>2. T \subseteq FiniteSubsetsOf(Nat) /\ T # {}
  BY <1>1 DEF FiniteSubsetsOf
<1>3. IsWellFoundedOn(StrictSubsetOrdering(Nat), FiniteSubsetsOf(Nat))
  BY FS_StrictSubsetOrderingWellFounded
<1>4. PICK x \in T : \A y \in T : <<y, x>> \notin StrictSubsetOrdering(Nat)
  <2> HIDE DEF T
  <2> QED  BY <1>2, <1>3, WFMin
<1>5. PICK n \in S : x = Below(n)
  OBVIOUS
<1>6. \A m \in S : n <= m
  <2> SUFFICES ASSUME NEW m \in S, m < n
               PROVE  FALSE
    BY <1>1
  <2>1. Below(m) \in T /\ Below(m) \subseteq Below(n) /\ n \in Below(n) \ Below(m)
    BY <1>1
  <2>2. <<Below(m), Below(n)>> \in StrictSubsetOrdering(Nat)
    <3> HIDE DEF Below
    <3> QED  BY <1>1, <2>1 DEF StrictSubsetOrdering
  <2> QED  BY <1>4, <1>5, <2>1, <2>2
<1> QED  BY <1>6

\* What holds of 0, and of i + 1 wherever it holds of i < n, holds up to n. The set
\* S stands for the property.
LEMMA UpTo ==
    ASSUME NEW n \in Nat, NEW S,
           0 \in S, \A i \in 0..(n - 1) : i \in S => i + 1 \in S
    PROVE  \A i \in 0..n : i \in S
<1> DEFINE Others == {i \in 0..n : i \notin S}
<1> SUFFICES ASSUME Others # {} PROVE FALSE
  OBVIOUS
<1>1. PICK m \in Others : \A i \in Others : m <= i
  <2>1. Others \in SUBSET Nat
    OBVIOUS
  <2> QED  BY <2>1, LeastExists
<1>2. m # 0 /\ m - 1 \in 0..(n - 1) /\ m - 1 \notin Others
  BY <1>1
<1>3. m - 1 \in S
  BY <1>2
<1> QED  BY <1>1, <1>2, <1>3

\* The six kinds of lines differ.
LEMMA LineKinds ==
    /\ Start # Body /\ Start # End /\ Body # End
    /\ Start # Loose /\ Body # Loose /\ End # Loose
    /\ Start.kind # "line" /\ Body.kind # "line" /\ End.kind # "line" /\ Loose.kind # "line"
    /\ {Start, Body, End, Loose} \subseteq Lines
    /\ \A n \in Nat : /\ Line(n).kind = "line" /\ Line(n).n = n
                      /\ Line(n) \notin {Start, Body, End, Loose}
    /\ \A l \in Lines : l.kind = "line" => l.n \in 1..MaxLines /\ l = Line(l.n)
BY HooksAssumption DEF Start, Body, End, Loose, Line, Lines

\* What the index of a line that occurs is: the first place it has.
LEMMA FirstIndex ==
    ASSUME NEW c \in Seq(Lines), NEW l, Occurs(l, c)
    PROVE  /\ Index(l, c) \in DOMAIN c /\ c[Index(l, c)] = l
           /\ \A j \in 1..(Index(l, c) - 1) : c[j] # l
<1> DEFINE S == {i \in DOMAIN c : c[i] = l}
<1>1. S \in SUBSET Nat /\ S # {}
  BY DEF Occurs
<1>2. PICK n \in S : \A m \in S : n <= m
  BY <1>1, LeastExists
<1>3. \A j \in 1..(n - 1) : j \in DOMAIN c /\ c[j] # l
  BY <1>1, <1>2
<1> QED  BY <1>2, <1>3 DEF Index

\* A file has an open hook if the place behind its last line is within one.
LEMMA OpenIsWithin ==
    ASSUME NEW c \in Seq(Lines)
    PROVE  Open(c) <=> Within(c, Len(c) + 1)
BY DEF Open, Within

\* What one more line does.
LEMMA AppendLine ==
    ASSUME NEW c \in Seq(Lines), NEW l \in Lines
    PROVE  /\ Append(c, l) \in Seq(Lines)
           /\ Open(Append(c, l)) <=> l = Start \/ (Open(c) /\ l # End)
           /\ Paired(c) /\ (l \in {Body, End} => Open(c)) => Paired(Append(c, l))
           /\ Outside(c) /\ (l.kind = "line" => ~Open(c)) => Outside(Append(c, l))
<1> DEFINE d == Append(c, l)
<1>1. /\ d \in Seq(Lines) /\ Len(d) = Len(c) + 1
      /\ \A i \in 1..Len(c) : d[i] = c[i]
      /\ d[Len(c) + 1] = l
      /\ DOMAIN c = 1..Len(c) /\ DOMAIN d = 1..(Len(c) + 1) /\ Len(c) \in Nat
  OBVIOUS
<1> HIDE DEF d
<1>2. \A i \in 1..(Len(c) + 1) : Within(d, i) <=> Within(c, i)
  BY <1>1 DEF Within
<1>3. Within(d, Len(d) + 1) <=> l = Start \/ (Within(c, Len(c) + 1) /\ l # End)
  <2>1. ASSUME l = Start PROVE Within(d, Len(d) + 1)
    BY <1>1, <2>1, LineKinds DEF Within
  <2>2. ASSUME Within(c, Len(c) + 1), l # End PROVE Within(d, Len(d) + 1)
    BY <1>1, <2>2 DEF Within
  <2>3. ASSUME Within(d, Len(d) + 1), l # Start
        PROVE  Within(c, Len(c) + 1) /\ l # End
    BY <1>1, <2>3 DEF Within
  <2> QED  BY <2>1, <2>2, <2>3
<1>4. Open(d) <=> l = Start \/ (Open(c) /\ l # End)
  BY <1>1, <1>3, OpenIsWithin
<1>5. ASSUME Paired(c), l \in {Body, End} => Open(c) PROVE Paired(d)
  BY <1>1, <1>2, <1>5, OpenIsWithin DEF Paired
<1>6. ASSUME Outside(c), l.kind = "line" => ~Open(c) PROVE Outside(d)
  BY <1>1, <1>2, <1>6, OpenIsWithin DEF Outside
<1> QED  BY <1>1, <1>4, <1>5, <1>6 DEF d

\* d is c without the lines s to e, the first start and the first end.
IsCut(c, d, s, e) ==
    /\ s \in 1..Len(c) /\ e \in 1..Len(c) /\ s < e
    /\ c[s] = Start /\ c[e] = End
    /\ \A j \in 1..(s - 1) : c[j] # Start
    /\ \A j \in 1..(e - 1) : c[j] # End
    /\ Len(d) = Len(c) - (e - s + 1)
    /\ \A i \in 1..(s - 1) : d[i] = c[i]
    /\ \A i \in s..Len(d) : d[i] = c[i + (e - s + 1)]

\* Two sequences one behind the other.
LEMMA Concat ==
    ASSUME NEW a \in Seq(Lines), NEW b \in Seq(Lines)
    PROVE  /\ a \o b \in Seq(Lines) /\ Len(a \o b) = Len(a) + Len(b)
           /\ \A i \in 1..Len(a) : (a \o b)[i] = a[i]
           /\ \A i \in 1..Len(b) : (a \o b)[i + Len(a)] = b[i]
OBVIOUS

\* The first start comes before the first end, so that the cut takes one block and
\* leaves the lines before it and those behind it.
LEMMA Cutting ==
    ASSUME NEW c \in Seq(Lines), Paired(c), HasHook(c)
    PROVE  /\ RemoveHook(c) \in Seq(Lines)
           /\ IsCut(c, RemoveHook(c), Index(Start, c), Index(End, c))
<1>1. PICK s, e : s = Index(Start, c) /\ e = Index(End, c)
  OBVIOUS
<1>2. /\ s \in 1..Len(c) /\ c[s] = Start /\ \A j \in 1..(s - 1) : c[j] # Start
      /\ e \in 1..Len(c) /\ c[e] = End /\ \A j \in 1..(e - 1) : c[j] # End
  BY <1>1, FirstIndex DEF HasHook
<1>3. s < e
  <2>1. Within(c, e)
    BY <1>2 DEF Paired
  <2>2. PICK t \in 1..(e - 1) : c[t] = Start
    BY <2>1 DEF Within
  <2> QED  BY <1>2, <2>2
<1>4. PICK a, b : a = SubSeq(c, 1, s - 1) /\ b = SubSeq(c, e + 1, Len(c))
  OBVIOUS
<1>5. a \in Seq(Lines) /\ Len(a) = s - 1 /\ \A i \in 1..(s - 1) : a[i] = c[i]
  BY <1>2, <1>4
<1>6. /\ b \in Seq(Lines) /\ Len(b) = Len(c) - e
      /\ \A i \in 1..(Len(c) - e) : b[i] = c[i + e]
  BY <1>2, <1>4
<1>7. PICK d : d = a \o b
  OBVIOUS
<1>8. /\ d \in Seq(Lines) /\ Len(d) = Len(a) + Len(b)
      /\ \A i \in 1..Len(a) : d[i] = a[i]
      /\ \A i \in 1..Len(b) : d[i + Len(a)] = b[i]
  BY <1>5, <1>6, <1>7, Concat
<1>9. Len(d) = Len(c) - (e - s + 1) /\ Len(c) \in Nat
  BY <1>2, <1>5, <1>6, <1>8
<1>10. \A i \in s..Len(d) : d[i] = c[i + (e - s + 1)]
  <2> TAKE i \in s..Len(d)
  <2>1. PICK k : k = i - (s - 1)
    OBVIOUS
  <2>2. k \in 1..(Len(c) - e) /\ k + Len(a) = i /\ k + e = i + (e - s + 1)
    BY <1>2, <1>5, <1>9, <2>1
  <2>3. d[k + Len(a)] = b[k] /\ b[k] = c[k + e]
    BY <1>6, <1>8, <2>2
  <2> QED  BY <2>2, <2>3
<1>11. RemoveHook(c) = d
  BY <1>1, <1>4, <1>7 DEF RemoveHook
<1>12. \A i \in 1..(s - 1) : d[i] = c[i]
  BY <1>5, <1>8
<1> QED  BY <1>1, <1>2, <1>3, <1>8, <1>9, <1>10, <1>11, <1>12 DEF IsCut

\* Where line i of the rest was before the cut.
Old(s, e, i) == IF i < s THEN i ELSE i + (e - s + 1)

\* The lines of the rest are the lines before and behind the cut, in their order.
LEMMA OldPlace ==
    ASSUME NEW c \in Seq(Lines), NEW d \in Seq(Lines), NEW s, NEW e, IsCut(c, d, s, e)
    PROVE  /\ \A i \in DOMAIN d : Old(s, e, i) \in DOMAIN c /\ d[i] = c[Old(s, e, i)]
           /\ \A i, j \in DOMAIN d : i < j => Old(s, e, i) < Old(s, e, j)
           /\ \A i \in DOMAIN d : Old(s, e, i) # e
           /\ Old(s, e, Len(d) + 1) = Len(c) + 1
           /\ \A k \in DOMAIN c : k < s \/ k > e => \E i \in DOMAIN d : Old(s, e, i) = k
<1>1. /\ DOMAIN c = 1..Len(c) /\ DOMAIN d = 1..Len(d) /\ Len(c) \in Nat /\ Len(d) \in Nat
      /\ s \in 1..Len(c) /\ e \in 1..Len(c) /\ s < e /\ Len(d) = Len(c) - (e - s + 1)
  BY DEF IsCut
<1>2. \A i \in DOMAIN d : Old(s, e, i) \in DOMAIN c
  BY <1>1 DEF Old
<1>3. \A i \in DOMAIN d : d[i] = c[Old(s, e, i)]
  <2> TAKE i \in DOMAIN d
  <2>1. CASE i < s
    BY <1>1, <2>1 DEF Old, IsCut
  <2>2. CASE ~(i < s)
    <3>1. i \in s..Len(d)
      BY <1>1, <2>2
    <3>2. d[i] = c[i + (e - s + 1)]
      BY <3>1 DEF IsCut
    <3> QED  BY <2>2, <3>2 DEF Old
  <2> QED  BY <2>1, <2>2
<1>4. \A k \in DOMAIN c : k < s \/ k > e => \E i \in DOMAIN d : Old(s, e, i) = k
  <2> SUFFICES ASSUME NEW k \in DOMAIN c, k < s \/ k > e
               PROVE  \E i \in DOMAIN d : Old(s, e, i) = k
    OBVIOUS
  <2>1. CASE k < s
    <3>1. k \in DOMAIN d /\ Old(s, e, k) = k
      BY <1>1, <2>1 DEF Old
    <3> QED  BY <3>1
  <2>2. CASE k > e
    <3>1. PICK i : i = k - (e - s + 1)
      OBVIOUS
    <3>2. i \in DOMAIN d /\ ~(i < s) /\ i + (e - s + 1) = k
      BY <1>1, <2>2, <3>1
    <3> QED  BY <3>2 DEF Old
  <2> QED  BY <2>1, <2>2
<1>5. Old(s, e, Len(d) + 1) = Len(c) + 1
  BY <1>1 DEF Old
<1>6. \A i, j \in DOMAIN d : i < j => Old(s, e, i) < Old(s, e, j)
  BY <1>1 DEF Old
<1>7. \A i \in DOMAIN d : Old(s, e, i) # e
  BY <1>1 DEF Old
<1> QED  BY <1>2, <1>3, <1>4, <1>5, <1>6, <1>7

\* A place is inside an unfinished hook after the cut if and only if it was before.
LEMMA CutWithin ==
    ASSUME NEW c \in Seq(Lines), NEW d \in Seq(Lines), NEW s, NEW e, IsCut(c, d, s, e),
           NEW i \in 1..(Len(d) + 1)
    PROVE  Within(d, i) <=> Within(c, Old(s, e, i))
<1>1. /\ Len(c) \in Nat /\ Len(d) \in Nat
      /\ s \in 1..Len(c) /\ e \in 1..Len(c) /\ s < e /\ Len(d) = Len(c) - (e - s + 1)
  BY DEF IsCut
<1>2. CASE i < s
  <2>1. \A k \in 1..(i - 1) : d[k] = c[k]
    BY <1>1, <1>2 DEF IsCut
  <2> QED  BY <1>2, <2>1 DEF Within, Old
<1>3. CASE ~(i < s)
  <2>1. PICK g, p : g = e - s + 1 /\ p = i + g
    OBVIOUS
  <2>2. /\ g \in Nat /\ p \in Nat /\ i \in Nat /\ p <= Len(c) + 1 /\ e < p
        /\ Len(d) + g = Len(c) /\ e = g + s - 1 /\ p = i + g
    BY <1>1, <1>3, <2>1
  <2>3. \A k \in s..Len(d) : d[k] = c[k + g]
    BY <2>1 DEF IsCut
  <2>4. ASSUME Within(d, i) PROVE Within(c, p)
    <3>1. PICK t \in 1..(i - 1) : d[t] = Start /\ \A j \in t..(i - 1) : d[j] # End
      BY <2>4 DEF Within
    <3>2. ~(t < s)
      <4>1. t \in 1..(s - 1) => d[t] = c[t] /\ c[t] # Start
        BY DEF IsCut
      <4> QED  BY <1>1, <3>1, <4>1
    <3>3. t + g \in 1..(p - 1) /\ c[t + g] = Start
      BY <1>1, <2>2, <2>3, <3>1, <3>2
    <3>4. ASSUME NEW j \in (t + g)..(p - 1) PROVE c[j] # End
      <4>1. j - g \in t..(i - 1) /\ j - g \in s..Len(d) /\ j - g + g = j
        BY <1>1, <2>2, <3>2
      <4>2. d[j - g] = c[j - g + g]
        BY <2>3, <4>1
      <4> QED  BY <3>1, <4>1, <4>2
    <3> QED  BY <3>3, <3>4 DEF Within
  <2>5. ASSUME Within(c, p) PROVE Within(d, i)
    <3>1. PICK t \in 1..(p - 1) : c[t] = Start /\ \A j \in t..(p - 1) : c[j] # End
      BY <2>5 DEF Within
    <3>2. t > e
      <4>1. e \in t..(p - 1) => c[e] # End
        BY <3>1
      <4>2. c[e] = End
        BY DEF IsCut
      <4> QED  BY <1>1, <2>2, <3>1, <4>1, <4>2
    <3>3. t - g \in s..Len(d) /\ t - g \in 1..(i - 1) /\ t - g + g = t
      BY <1>1, <2>2, <3>1, <3>2
    <3>4. d[t - g] = c[t - g + g]
      BY <2>3, <3>3
    <3>5. ASSUME NEW j \in (t - g)..(i - 1) PROVE d[j] # End
      <4>1. j \in s..Len(d) /\ j + g \in t..(p - 1)
        BY <1>1, <2>2, <3>1, <3>3
      <4>2. d[j] = c[j + g]
        BY <2>3, <4>1
      <4> QED  BY <3>1, <4>1, <4>2
    <3> QED  BY <3>1, <3>3, <3>4, <3>5 DEF Within
  <2> QED  BY <1>3, <2>1, <2>4, <2>5 DEF Old
<1> QED  BY <1>2, <1>3

\* What is left when a hook is cut out.
LEMMA CutFile ==
    ASSUME NEW c \in Seq(Lines), Paired(c), HasHook(c)
    PROVE  /\ RemoveHook(c) \in Seq(Lines)
           /\ Paired(RemoveHook(c))
           /\ Outside(c) => Outside(RemoveHook(c))
           /\ Open(RemoveHook(c)) => Open(c)
           /\ OneEnd(c) => ~Occurs(End, RemoveHook(c))
           /\ \A n \in Nat : Outside(c) /\ Keeps(c, n) => Keeps(RemoveHook(c), n)
<1>1. PICK s, e, d : /\ s = Index(Start, c) /\ e = Index(End, c)
                     /\ d = RemoveHook(c)
  OBVIOUS
<1>2. d \in Seq(Lines) /\ IsCut(c, d, s, e)
  BY <1>1, Cutting
<1>3. /\ \A i \in DOMAIN d : Old(s, e, i) \in DOMAIN c /\ d[i] = c[Old(s, e, i)]
      /\ \A i, j \in DOMAIN d : i < j => Old(s, e, i) < Old(s, e, j)
      /\ \A i \in DOMAIN d : Old(s, e, i) # e
      /\ Old(s, e, Len(d) + 1) = Len(c) + 1
      /\ \A k \in DOMAIN c : k < s \/ k > e => \E i \in DOMAIN d : Old(s, e, i) = k
  BY <1>2, OldPlace
<1>4. \A i \in 1..(Len(d) + 1) : Within(d, i) <=> Within(c, Old(s, e, i))
  BY <1>2, CutWithin
<1>5. \A i \in DOMAIN d : i \in 1..(Len(d) + 1)
  BY <1>2
<1>6. Paired(d)
  BY <1>3, <1>4, <1>5 DEF Paired
<1>7. Outside(c) => Outside(d)
  BY <1>3, <1>4, <1>5 DEF Outside
<1>8. Open(d) => Open(c)
  <2>1. Len(d) + 1 \in 1..(Len(d) + 1)
    BY <1>2
  <2> QED  BY <1>2, <1>3, <1>4, <2>1, OpenIsWithin
<1>9. OneEnd(c) => ~Occurs(End, d)
  <2>1. e \in DOMAIN c /\ c[e] = End
    BY <1>2 DEF IsCut
  <2> QED  BY <1>3, <2>1 DEF OneEnd, Occurs
<1>10. ASSUME NEW n \in Nat, Outside(c), Keeps(c, n) PROVE Keeps(d, n)
  <2>1. ASSUME NEW m \in 1..n PROVE Occurs(Line(m), d)
    <3>1. PICK i \in DOMAIN c : c[i] = Line(m)
      BY <1>10 DEF Keeps, Occurs
    <3>2. c[i].kind = "line" /\ c[i] # Start /\ c[i] # End
      BY <3>1, LineKinds
    <3>3. ~Within(c, i)
      BY <1>10, <3>2 DEF Outside
    <3>4. i < s \/ i > e
      <4> SUFFICES ASSUME ~(i < s), ~(i > e) PROVE FALSE
        OBVIOUS
      <4>1. s \in 1..(i - 1) /\ i < e /\ c[s] = Start
        BY <1>2, <3>2 DEF IsCut
      <4>2. \A j \in s..(i - 1) : c[j] # End
        BY <1>2, <4>1 DEF IsCut
      <4> QED  BY <3>3, <4>1, <4>2 DEF Within
    <3>5. PICK k \in DOMAIN d : Old(s, e, k) = i
      BY <1>3, <3>4
    <3> QED  BY <1>3, <3>1, <3>5 DEF Occurs
  <2>2. \A i \in DOMAIN d : d[i].kind = "line" => d[i].n \in 1..n
    BY <1>3, <1>10 DEF Keeps
  <2>3. \A i, j \in DOMAIN d :
           i < j /\ d[i].kind = "line" /\ d[j].kind = "line" => d[i].n < d[j].n
    BY <1>3, <1>10 DEF Keeps
  <2> QED  BY <2>1, <2>2, <2>3 DEF Keeps
<1> QED  BY <1>1, <1>2, <1>6, <1>7, <1>8, <1>9, <1>10

\* The first lines of a file have what the file has not more of.
LEMMA CutShort ==
    ASSUME NEW c \in Seq(Lines), NEW p \in Prefixes(c)
    PROVE  /\ p \in Seq(Lines)
           /\ Paired(c) => Paired(p)
           /\ ~Occurs(End, c) => ~Occurs(End, p)
           /\ NoHook(c) => NoHook(p)
<1>1. PICK l \in 0..Len(c) : p = SubSeq(c, 1, l)
  BY DEF Prefixes
<1>2. p \in Seq(Lines) /\ DOMAIN p = 1..l /\ \A i \in 1..l : p[i] = c[i]
  BY <1>1
<1>3. DOMAIN c = 1..Len(c) /\ \A i \in 1..l : i \in DOMAIN c
  OBVIOUS
<1>4. Paired(c) => Paired(p)
  <2>1. \A i \in 1..l : Within(p, i) <=> Within(c, i)
    BY <1>2 DEF Within
  <2> QED  BY <1>2, <1>3, <2>1 DEF Paired
<1> QED  BY <1>2, <1>3, <1>4 DEF Occurs, NoHook

\* What follows when a file has nothing of a hook.
LEMMA NoHookMeans ==
    ASSUME NEW c \in Seq(Lines), NoHook(c)
    PROVE  /\ ~Open(c) /\ Paired(c) /\ Outside(c) /\ OneEnd(c)
           /\ ~Occurs(Start, c) /\ ~Occurs(Body, c) /\ ~Occurs(End, c)
<1>1. DOMAIN c = 1..Len(c) /\ Len(c) \in Nat
  OBVIOUS
<1>2. \A i \in 1..(Len(c) + 1) : ~Within(c, i)
  <2> SUFFICES ASSUME NEW i \in 1..(Len(c) + 1), NEW s \in 1..(i - 1), c[s] = Start
               PROVE  FALSE
    BY DEF Within
  <2>1. s \in DOMAIN c
    BY <1>1
  <2> QED  BY <2>1 DEF NoHook
<1>3. ~Open(c)
  BY DEF Open, NoHook
<1> QED  BY <1>1, <1>2, <1>3 DEF NoHook, Paired, Outside, OneEnd, Occurs

\* A file in which nothing is found to remove, or nothing more, has no hook unless
\* one is open in it.
LEMMA Unhooked ==
    ASSUME NEW c \in Seq(Lines), Paired(c)
    PROVE  /\ ~HasHook(c) => ~Occurs(End, c)
           /\ ~Occurs(End, c) /\ ~Open(c) => NoHook(c)
<1>1. DOMAIN c = 1..Len(c) /\ Len(c) \in Nat
  OBVIOUS
<1>2. \A i \in DOMAIN c : Within(c, i) => Occurs(Start, c)
  <2> SUFFICES ASSUME NEW i \in DOMAIN c, NEW s \in 1..(i - 1), c[s] = Start
               PROVE  Occurs(Start, c)
    BY DEF Within
  <2>1. s \in DOMAIN c
    BY <1>1
  <2> QED  BY <2>1 DEF Occurs
<1>3. \A i \in DOMAIN c : c[i] \in {Body, End} => Occurs(Start, c)
  BY <1>2 DEF Paired
<1>4. ~HasHook(c) => ~Occurs(End, c)
  BY <1>3 DEF HasHook, Occurs
<1>5. ASSUME ~Occurs(End, c), ~Open(c) PROVE NoHook(c)
  <2>1. ~Occurs(Start, c)
    BY <1>1, <1>5 DEF Open, Occurs
  <2> QED  BY <1>3, <1>5, <2>1 DEF NoHook, Occurs
<1> QED  BY <1>4, <1>5

\* What one more line leaves as it was.
LEMMA AppendKeeps ==
    ASSUME NEW c \in Seq(Lines), NEW l \in Lines
    PROVE  /\ \A n \in Nat : Keeps(c, n) /\ l.kind # "line" => Keeps(Append(c, l), n)
           /\ \A n \in Nat : Keeps(c, n) /\ l = Line(n + 1) => Keeps(Append(c, l), n + 1)
           /\ \A x : Occurs(x, Append(c, l)) <=> Occurs(x, c) \/ l = x
           /\ l \notin {Start, Body, End} =>
                 /\ OneEnd(c) => OneEnd(Append(c, l))
                 /\ NoHook(c) => NoHook(Append(c, l))
                 /\ OneHook(c) => OneHook(Append(c, l))
           /\ ~Occurs(End, c) => OneEnd(Append(c, l))
<1>1. PICK d, m : d = Append(c, l) /\ m = Len(c) + 1
  OBVIOUS
<1>2. /\ DOMAIN c = 1..(m - 1) /\ DOMAIN d = 1..m /\ m \in Nat /\ m > 0
      /\ \A i \in DOMAIN c : i \in DOMAIN d /\ d[i] = c[i]
      /\ d[m] = l /\ m \in DOMAIN d
      /\ \A i \in DOMAIN d : i = m \/ i \in DOMAIN c
  BY <1>1
<1>3. \A x : Occurs(x, d) <=> Occurs(x, c) \/ l = x
  BY <1>2 DEF Occurs
<1>4. ASSUME NEW n \in Nat, Keeps(c, n), l.kind # "line" PROVE Keeps(d, n)
  BY <1>2, <1>3, <1>4 DEF Keeps
<1>5. ASSUME NEW n \in Nat, Keeps(c, n), l = Line(n + 1) PROVE Keeps(d, n + 1)
  <2>1. l.n = n + 1 /\ l.kind = "line"
    BY <1>5, LineKinds
  <2>2. ASSUME NEW k \in 1..(n + 1) PROVE Occurs(Line(k), d)
    <3>1. k = n + 1 \/ k \in 1..n
      OBVIOUS
    <3> QED  BY <1>3, <1>5, <3>1 DEF Keeps
  <2>3. \A i \in DOMAIN c : c[i].kind = "line" => c[i].n \in 1..n
    BY <1>5 DEF Keeps
  <2>4. \A i \in DOMAIN d : d[i].kind = "line" => d[i].n \in 1..(n + 1)
    BY <1>2, <2>1, <2>3
  <2>5. ASSUME NEW i \in DOMAIN d, NEW j \in DOMAIN d, i < j,
               d[i].kind = "line", d[j].kind = "line"
        PROVE  d[i].n < d[j].n
    <3>1. i \in DOMAIN c /\ d[i].n \in 1..n
      BY <1>2, <2>3, <2>5
    <3>2. CASE j = m
      BY <1>2, <2>1, <3>1, <3>2
    <3>3. CASE j \in DOMAIN c
      BY <1>2, <1>5, <2>5, <3>1, <3>3 DEF Keeps
    <3> QED  BY <1>2, <3>2, <3>3
  <2> QED  BY <2>2, <2>4, <2>5 DEF Keeps
<1>6. ASSUME l \notin {Start, Body, End}
      PROVE  /\ OneEnd(c) => OneEnd(d)
             /\ NoHook(c) => NoHook(d)
             /\ OneHook(c) => OneHook(d)
  <2>1. OneEnd(c) => OneEnd(d)
    BY <1>2, <1>6 DEF OneEnd
  <2>2. NoHook(c) => NoHook(d)
    BY <1>2, <1>6 DEF NoHook
  <2>3. ASSUME OneHook(c) PROVE OneHook(d)
    <3>1. PICK i, j, k \in DOMAIN c :
            /\ i < j /\ j < k /\ c[i] = Start /\ c[j] = Body /\ c[k] = End
            /\ \A x \in DOMAIN c \ {i, j, k} : c[x] \notin {Start, Body, End}
      BY <2>3 DEF OneHook
    <3>2. \A x \in DOMAIN d \ {i, j, k} : d[x] \notin {Start, Body, End}
      BY <1>2, <1>6, <3>1
    <3>3. i \in DOMAIN d /\ j \in DOMAIN d /\ k \in DOMAIN d
          /\ d[i] = Start /\ d[j] = Body /\ d[k] = End
      BY <1>2, <3>1
    <3> QED  BY <3>1, <3>2, <3>3 DEF OneHook
  <2> QED  BY <2>1, <2>2, <2>3
<1>7. ASSUME ~Occurs(End, c) PROVE OneEnd(d)
  BY <1>2, <1>7 DEF OneEnd, Occurs
<1> QED  BY <1>1, <1>3, <1>4, <1>5, <1>6, <1>7

\* An append that was cut short is one of four.
LEMMA HookLines ==
    ASSUME NEW c \in Seq(Lines)
    PROVE  /\ \A p \in Prefixes(Hook) :
                 c \o p \in {c, Append(c, Start), Append(Append(c, Start), Body),
                             Append(Append(Append(c, Start), Body), End)}
           /\ c \o Hook = Append(Append(Append(c, Start), Body), End)
<1> HIDE DEF Start, Body, End
<1>1. c \o Hook = Append(Append(Append(c, Start), Body), End)
  BY LineKinds DEF Hook
<1>2. ASSUME NEW p \in Prefixes(Hook)
      PROVE  c \o p \in {c, Append(c, Start), Append(Append(c, Start), Body),
                         Append(Append(Append(c, Start), Body), End)}
  <2>1. PICK l \in 0..3 : p = SubSeq(Hook, 1, l)
    BY DEF Prefixes, Hook
  <2>a. /\ Hook \in Seq(Lines) /\ Len(Hook) = 3
        /\ Hook[1] = Start /\ Hook[2] = Body /\ Hook[3] = End
    BY LineKinds DEF Hook
  <2>b. p \in Seq(Lines) /\ Len(p) = l /\ \A i \in 1..l : p[i] = Hook[i]
    BY <2>1, <2>a
  <2>2. CASE l = 0
    <3>1. c \o p = c
      BY <2>1, <2>2 DEF Hook
    <3> QED  BY <3>1
  <2>3. CASE l = 1
    <3>1. p = <<Start>>
      <4>1. /\ <<Start>> \in Seq(Lines) /\ Len(<<Start>>) = l
            /\ \A i \in 1..l : p[i] = <<Start>>[i]
        BY <2>a, <2>b, <2>3, LineKinds
      <4> QED  BY <2>b, <4>1, SeqEqual
    <3>2. c \o p = Append(c, Start)
      BY <3>1, LineKinds
    <3> QED  BY <3>2
  <2>4. CASE l = 2
    <3>1. p = <<Start, Body>>
      <4>1. /\ <<Start, Body>> \in Seq(Lines) /\ Len(<<Start, Body>>) = l
            /\ \A i \in 1..l : p[i] = <<Start, Body>>[i]
        BY <2>a, <2>b, <2>4, LineKinds
      <4> QED  BY <2>b, <4>1, SeqEqual
    <3>2. c \o p = Append(Append(c, Start), Body)
      BY <3>1, LineKinds
    <3> QED  BY <3>2
  <2>5. CASE l = 3
    <3>1. p = Hook
      <4>1. Hook \in Seq(Lines) /\ Len(Hook) = l /\ \A i \in 1..l : p[i] = Hook[i]
        BY <2>a, <2>b, <2>5, LineKinds
      <4> QED  BY <2>b, <4>1, SeqEqual
    <3> QED  BY <1>1, <3>1
  <2> QED  BY <2>2, <2>3, <2>4, <2>5
<1> QED  BY <1>1, <1>2

\* A file to which a hook was appended, all of it or its first lines.
LEMMA HookAppended ==
    ASSUME NEW c \in Seq(Lines), NEW p \in Prefixes(Hook)
    PROVE  /\ c \o p \in Seq(Lines)
           /\ Paired(c) => Paired(c \o p)
           /\ Outside(c) => Outside(c \o p)
           /\ \A n \in Nat : Keeps(c, n) => Keeps(c \o p, n)
           /\ ~Occurs(End, c) => OneEnd(c \o p)
<1>1. PICK c1, c2, c3 : /\ c1 = Append(c, Start) /\ c2 = Append(c1, Body)
                        /\ c3 = Append(c2, End)
  OBVIOUS
<1>2. c \o p \in {c, c1, c2, c3}
  BY <1>1, HookLines
<1>3. /\ c1 \in Seq(Lines) /\ Open(c1)
      /\ Paired(c) => Paired(c1)
      /\ Outside(c) => Outside(c1)
      /\ \A n \in Nat : Keeps(c, n) => Keeps(c1, n)
      /\ ~Occurs(End, c) => ~Occurs(End, c1) /\ OneEnd(c1)
  BY <1>1, LineKinds, AppendLine, AppendKeeps
<1>4. /\ c2 \in Seq(Lines) /\ Open(c2)
      /\ Paired(c1) => Paired(c2)
      /\ Outside(c1) => Outside(c2)
      /\ \A n \in Nat : Keeps(c1, n) => Keeps(c2, n)
      /\ ~Occurs(End, c1) => ~Occurs(End, c2) /\ OneEnd(c2)
  BY <1>1, <1>3, LineKinds, AppendLine, AppendKeeps
<1>5. /\ c3 \in Seq(Lines)
      /\ Paired(c2) => Paired(c3)
      /\ Outside(c2) => Outside(c3)
      /\ \A n \in Nat : Keeps(c2, n) => Keeps(c3, n)
      /\ ~Occurs(End, c2) => OneEnd(c3)
  BY <1>1, <1>4, LineKinds, AppendLine, AppendKeeps
<1>6. ~Occurs(End, c) => OneEnd(c)
  BY DEF Occurs, OneEnd
<1> QED  BY <1>2, <1>3, <1>4, <1>5, <1>6

\* A whole hook appended to a file that has none is the one hook of the file.
LEMMA HookInstalled ==
    ASSUME NEW c \in Seq(Lines), NoHook(c)
    PROVE  c \o Hook \in Seq(Lines) /\ OneHook(c \o Hook)
<1>1. PICK m : m = Len(c)
  OBVIOUS
<1>2. PICK d : d = c \o Hook
  OBVIOUS
<1>3. /\ m \in Nat /\ d \in Seq(Lines) /\ DOMAIN d = 1..(m + 3) /\ DOMAIN c = 1..m
      /\ \A i \in 1..m : d[i] = c[i]
      /\ d[m + 1] = Start /\ d[m + 2] = Body /\ d[m + 3] = End
  BY <1>1, <1>2, LineKinds DEF Hook
<1>4. \A x \in DOMAIN d \ {m + 1, m + 2, m + 3} : d[x] \notin {Start, Body, End}
  BY <1>3 DEF NoHook
<1>5. /\ m + 1 \in DOMAIN d /\ m + 2 \in DOMAIN d /\ m + 3 \in DOMAIN d
      /\ m + 1 < m + 2 /\ m + 2 < m + 3
  BY <1>3
<1> QED  BY <1>2, <1>3, <1>4, <1>5 DEF OneHook

\* The function by which Sed is defined.
IsPass(f, c, n) ==
    f = [i \in 0..n |-> IF i = 0 THEN [on |-> FALSE, out |-> <<>>]
                        ELSE SedLine(f[i - 1], c[i])]

\* There is such a function, however long the file is: without it, Sed would be
\* any value at all.
LEMMA PassExists ==
    ASSUME NEW c \in Seq(Lines)
    PROVE  \E f : IsPass(f, c, Len(c))
<1> DEFINE S == {n \in Nat : \E f : IsPass(f, c, n)}
<1>1. 0 \in S
  <2>1. IsPass([i \in 0..0 |-> [on |-> FALSE, out |-> <<>>]], c, 0)
    BY DEF IsPass
  <2> QED  BY <2>1
<1>2. ASSUME NEW n \in Nat, n \in S PROVE n + 1 \in S
  <2>1. PICK f : IsPass(f, c, n)
    BY <1>2
  <2> DEFINE g == [i \in 0..(n + 1) |-> IF i = n + 1 THEN SedLine(f[n], c[n + 1]) ELSE f[i]]
  <2>2. \A i \in 0..n : g[i] = f[i]
    OBVIOUS
  <2>3. \A i \in 0..(n + 1) : g[i] = IF i = 0 THEN [on |-> FALSE, out |-> <<>>]
                                     ELSE SedLine(g[i - 1], c[i])
    <3> TAKE i \in 0..(n + 1)
    <3>1. CASE i = n + 1
      <4>1. g[i] = SedLine(f[n], c[n + 1]) /\ i - 1 = n /\ i # 0 /\ g[n] = f[n]
        BY <2>2, <3>1
      <4> HIDE DEF g
      <4> QED  BY <3>1, <4>1
    <3>2. CASE i = 0
      <4>1. f[0] = [on |-> FALSE, out |-> <<>>]
        BY <2>1 DEF IsPass
      <4>2. g[i] = f[0]
        BY <2>2, <3>2
      <4> QED  BY <3>2, <4>1, <4>2
    <3>3. CASE i \in 1..n
      <4>1. f[i] = SedLine(f[i - 1], c[i])
        <5>1. i \in 0..n /\ i # 0
          BY <3>3
        <5>2. f[i] = IF i = 0 THEN [on |-> FALSE, out |-> <<>>]
                     ELSE SedLine(f[i - 1], c[i])
          BY <2>1, <5>1, Zenon DEF IsPass
        <5> QED  BY <5>1, <5>2
      <4>2. g[i] = f[i] /\ g[i - 1] = f[i - 1] /\ i # 0
        BY <2>2, <3>3
      <4> HIDE DEF g
      <4> QED  BY <4>1, <4>2
    <3> QED  BY <3>1, <3>2, <3>3
  <2>4. IsPass(g, c, n + 1)
    <3>1. g = [i \in 0..(n + 1) |-> g[i]]
      OBVIOUS
    <3> HIDE DEF g
    <3>2. [i \in 0..(n + 1) |-> g[i]] =
            [i \in 0..(n + 1) |-> IF i = 0 THEN [on |-> FALSE, out |-> <<>>]
                                  ELSE SedLine(g[i - 1], c[i])]
      BY <2>3, Zenon
    <3> QED  BY <3>1, <3>2 DEF IsPass
  <2> HIDE DEF g
  <2> QED  BY <2>4
<1>3. \A n \in 0..Len(c) : n \in S
  <2>1. Len(c) \in Nat /\ \A i \in 0..(Len(c) - 1) : i \in Nat
    OBVIOUS
  <2> HIDE DEF S
  <2> QED  BY <1>1, <1>2, <2>1, UpTo
<1> QED  BY <1>3

\* So Sed is what that function returns for the last line.
LEMMA SedPasses ==
    ASSUME NEW c \in Seq(Lines)
    PROVE  \E f : IsPass(f, c, Len(c)) /\ Sed(c) = f[Len(c)].out
BY PassExists DEF Sed, IsPass

\* Whether a place is inside an unfinished hook, one line further.
LEMMA WithinNext ==
    ASSUME NEW c \in Seq(Lines), NEW i \in 1..Len(c)
    PROVE  /\ Within(c, i + 1) <=> (Within(c, i) \/ c[i] = Start) /\ c[i] # End
           /\ ~Within(c, 1)
<1>1. ASSUME Within(c, i + 1) PROVE (Within(c, i) \/ c[i] = Start) /\ c[i] # End
  <2>1. PICK s \in 1..i : c[s] = Start /\ \A j \in s..i : c[j] # End
    BY <1>1 DEF Within
  <2>2. c[i] # End
    BY <2>1
  <2>3. CASE s = i
    BY <2>1, <2>2, <2>3
  <2>4. CASE s \in 1..(i - 1)
    BY <2>1, <2>2, <2>4 DEF Within
  <2> QED  BY <2>1, <2>3, <2>4
<1>2. ASSUME c[i] = Start, c[i] # End PROVE Within(c, i + 1)
  BY <1>2 DEF Within
<1>3. ASSUME Within(c, i), c[i] # End PROVE Within(c, i + 1)
  <2>1. PICK s \in 1..(i - 1) : c[s] = Start /\ \A j \in s..(i - 1) : c[j] # End
    BY <1>3 DEF Within
  <2>2. \A j \in s..i : c[j] # End
    BY <1>3, <2>1
  <2> QED  BY <2>1, <2>2 DEF Within
<1>4. ~Within(c, 1)
  BY DEF Within
<1> QED  BY <1>1, <1>2, <1>3, <1>4

\* What sed has written after i lines: nothing of a hook, and the user's lines so far.
Written(c, i, out) ==
    /\ out \in Seq(Lines) /\ NoHook(out)
    /\ Outside(c) =>
         /\ \A j \in 1..i : c[j].kind = "line" => Occurs(c[j], out)
         /\ \A k \in DOMAIN out : \E j \in 1..i : out[k] = c[j]
    /\ \A n \in Nat : Outside(c) /\ Keeps(c, n) =>
         \A k, m \in DOMAIN out :
            k < m /\ out[k].kind = "line" /\ out[m].kind = "line" => out[k].n < out[m].n

\* What sed leaves of a file whose hooks are paired: nothing of a hook, and all of
\* the user's lines that were outside of one.
LEMMA SedFile ==
    ASSUME NEW c \in Seq(Lines), Paired(c)
    PROVE  /\ Sed(c) \in Seq(Lines) /\ NoHook(Sed(c))
           /\ \A n \in Nat : Outside(c) /\ Keeps(c, n) => Keeps(Sed(c), n)
<1>1. PICK f : IsPass(f, c, Len(c)) /\ Sed(c) = f[Len(c)].out
  BY SedPasses
<1>2. f[0] = [on |-> FALSE, out |-> <<>>]
  <2>1. 0 \in 0..Len(c)
    OBVIOUS
  <2>2. f[0] = IF 0 = 0 THEN [on |-> FALSE, out |-> <<>>] ELSE SedLine(f[0 - 1], c[0])
    BY <1>1, <2>1, Zenon DEF IsPass
  <2> QED  BY <2>2
<1>3. \A i \in 1..Len(c) : f[i] = SedLine(f[i - 1], c[i])
  <2> TAKE i \in 1..Len(c)
  <2>1. i \in 0..Len(c) /\ i # 0
    OBVIOUS
  <2>2. f[i] = IF i = 0 THEN [on |-> FALSE, out |-> <<>>] ELSE SedLine(f[i - 1], c[i])
    BY <1>1, <2>1, Zenon DEF IsPass
  <2> QED  BY <2>1, <2>2
<1> DEFINE Good == {i \in 0..Len(c) : /\ f[i].on <=> Within(c, i + 1)
                                      /\ Written(c, i, f[i].out)}
<1>4. 0 \in Good
  <2>1. ~Within(c, 1)
    BY DEF Within
  <2>2. Written(c, 0, <<>>)
    BY DEF Written, NoHook
  <2> QED  BY <1>2, <2>1, <2>2
<1>5. ASSUME NEW i \in 0..(Len(c) - 1), i \in Good PROVE i + 1 \in Good
  <2>1. PICK a, l : a = f[i] /\ l = c[i + 1]
    OBVIOUS
  <2>2. /\ i + 1 \in 1..Len(c) /\ i \in Nat /\ i + 1 \in 0..Len(c) /\ l \in Lines
        /\ (i + 1) - 1 = i /\ DOMAIN c = 1..Len(c)
    BY <2>1
  <2>3. f[i + 1] = SedLine(a, l)
    BY <1>3, <2>1, <2>2
  <2>4. (a.on <=> Within(c, i + 1)) /\ Written(c, i, a.out)
    BY <1>5, <2>1
  <2>5. f[i + 1].on <=> Within(c, (i + 1) + 1)
    <3>1. f[i + 1].on = ((a.on \/ l = Start) /\ l # End)
      BY <2>3 DEF SedLine
    <3>2. Within(c, (i + 1) + 1) <=> (Within(c, i + 1) \/ l = Start) /\ l # End
      BY <2>1, <2>2, WithinNext
    <3> QED  BY <2>4, <3>1, <3>2, Zenon
  <2>6. CASE a.on \/ l = Start
    <3>1. f[i + 1].out = a.out
      BY <2>3, <2>6 DEF SedLine
    <3>2. Outside(c) => l.kind # "line"
      BY <2>1, <2>2, <2>4, <2>6, LineKinds DEF Outside
    <3>3. Written(c, i + 1, a.out)
      BY <2>1, <2>2, <2>4, <3>2 DEF Written
    <3> QED  BY <2>2, <2>5, <3>1, <3>3
  <2>7. CASE ~(a.on \/ l = Start)
    <3>1. PICK b : b = Append(a.out, l)
      OBVIOUS
    <3>2. f[i + 1].out = b
      BY <2>3, <2>7, <3>1 DEF SedLine
    <3>3. l \notin {Start, Body, End}
      BY <2>1, <2>2, <2>4, <2>7 DEF Paired
    <3>4. b \in Seq(Lines) /\ NoHook(b) /\ \A x : Occurs(x, b) <=> Occurs(x, a.out) \/ l = x
      BY <2>2, <2>4, <3>1, <3>3, AppendKeeps, AppendLine DEF Written
    <3>5. /\ \A k \in DOMAIN b : k \in DOMAIN a.out \/ (k = Len(a.out) + 1 /\ b[k] = l)
          /\ \A k \in DOMAIN a.out : b[k] = a.out[k] /\ k < Len(a.out) + 1
          /\ \A k \in DOMAIN b : k <= Len(a.out) + 1 /\ k \in Nat
      BY <2>2, <2>4, <3>1 DEF Written
    <3>6. ASSUME Outside(c)
          PROVE  /\ \A j \in 1..(i + 1) : c[j].kind = "line" => Occurs(c[j], b)
                 /\ \A k \in DOMAIN b : \E j \in 1..(i + 1) : b[k] = c[j]
      <4>1. \A j \in 1..(i + 1) : j \in 1..i \/ j = i + 1
        BY <2>2
      <4>2. \A j \in 1..(i + 1) : c[j].kind = "line" => Occurs(c[j], b)
        BY <2>1, <2>4, <3>4, <3>6, <4>1 DEF Written
      <4>3. \A j \in 1..i : j \in 1..(i + 1)
        BY <2>2
      <4>4. \A k \in DOMAIN b : \E j \in 1..(i + 1) : b[k] = c[j]
        BY <2>1, <2>2, <2>4, <3>5, <3>6, <4>3 DEF Written
      <4> QED  BY <4>2, <4>4
    <3>7. ASSUME NEW n \in Nat, Outside(c), Keeps(c, n),
                 NEW k \in DOMAIN b, NEW m \in DOMAIN b,
                 k < m, b[k].kind = "line", b[m].kind = "line"
          PROVE  b[k].n < b[m].n
      <4>1. k \in DOMAIN a.out
        BY <3>5, <3>7
      <4>2. CASE m \in DOMAIN a.out
        BY <2>4, <3>5, <3>7, <4>1, <4>2 DEF Written
      <4>3. CASE b[m] = l
        <5>1. PICK j \in 1..i : a.out[k] = c[j]
          BY <2>4, <3>7, <4>1 DEF Written
        <5>2. j \in DOMAIN c /\ i + 1 \in DOMAIN c /\ j < i + 1
          BY <2>2
        <5> QED  BY <2>1, <3>5, <3>7, <4>1, <4>3, <5>1, <5>2 DEF Keeps
      <4> QED  BY <3>5, <4>2, <4>3
    <3>8. Written(c, i + 1, b)
      BY <3>4, <3>6, <3>7 DEF Written
    <3> QED  BY <2>2, <2>5, <3>2, <3>8
  <2> QED  BY <2>6, <2>7
<1>6. Len(c) \in Good
  <2>1. Len(c) \in Nat /\ Len(c) \in 0..Len(c)
    OBVIOUS
  <2> HIDE DEF Good
  <2> QED  BY <1>4, <1>5, <2>1, UpTo
<1>7. Written(c, Len(c), Sed(c))
  BY <1>1, <1>6
<1>8. ASSUME NEW n \in Nat, Outside(c), Keeps(c, n) PROVE Keeps(Sed(c), n)
  <2>1. PICK d : d = Sed(c)
    OBVIOUS
  <2>2. DOMAIN c = 1..Len(c) /\ Written(c, Len(c), d)
    BY <1>7, <2>1
  <2>3. \A m \in 1..n : Occurs(Line(m), d)
    <3> TAKE m \in 1..n
    <3>1. PICK j \in DOMAIN c : c[j] = Line(m)
      BY <1>8 DEF Keeps, Occurs
    <3>2. c[j].kind = "line"
      BY <3>1, LineKinds
    <3> QED  BY <1>8, <2>2, <3>1, <3>2 DEF Written
  <2>4. \A k \in DOMAIN d : d[k].kind = "line" => d[k].n \in 1..n
    BY <1>8, <2>2 DEF Written, Keeps
  <2>5. \A k, m \in DOMAIN d :
           k < m /\ d[k].kind = "line" /\ d[m].kind = "line" => d[k].n < d[m].n
    BY <1>8, <2>2 DEF Written
  <2> QED  BY <2>1, <2>3, <2>4, <2>5 DEF Keeps
<1> QED  BY <1>7, <1>8 DEF Written

-----------------------------------------------------------------------------
(* ProfileHooks: control, types and the files                              *)

\* Empty files, and no invocation.
LEMMA HooksInitInv == HooksInit => HooksInv
<1> SUFFICES ASSUME HooksInit PROVE HooksInv
  OBVIOUS
<1>1. <<>> \in Seq(Lines) /\ NoHook(<<>>) /\ Keeps(<<>>, 0)
  BY DEF NoHook, Keeps
<1>2. \A f \in Files : rc[f] = <<>>
  BY DEF HooksInit
<1>3. machine \subseteq Files
  BY HooksAssumption DEF HooksInit
<1>4. HooksTypeOK
  BY <1>1, HooksAssumption DEF HooksInit, HooksTypeOK
<1>5. Control
  BY DEF HooksInit, Control
<1>6. FilesPaired /\ LinesOutside /\ EndsOnce
  BY <1>1, <1>2, <1>3, NoHookMeans
     DEF HooksInit, FilesPaired, LinesOutside, EndsOnce
<1>7. StillClosed /\ Visited /\ NoDeadHook
  BY DEF HooksInit, StillClosed, Visited, NoDeadHook
<1> QED  BY <1>4, <1>5, <1>6, <1>7 DEF HooksInv

\* Where invocations are, step by step.
LEMMA ControlNext ==
    ASSUME Control, HooksTypeOK, [HooksNext]_hooksVars
    PROVE  Control'
<1>1. CASE UNCHANGED hooksVars
  BY <1>1 DEF Control, hooksVars, tool, hooksHistory
<1>2. ASSUME NEW o \in {"install", "doctor", "uninstall"},
             NEW h \in Homes, NEW hs \in SUBSET Homes, Begin(o, h, hs)
      PROVE  Control'
  BY <1>2 DEF Control, Begin, FilesOf
<1>3. ASSUME NEW f \in Files, ReadFile(f) PROVE Control'
  BY <1>3 DEF Control, ReadFile, Goto
<1>4. ASSUME NEW f \in Files, SedWSL(f) PROVE Control'
  BY <1>4 DEF Control, SedWSL, Goto, hooksHistory
<1>5. ASSUME NEW f \in Files, AddLine(f) PROVE Control'
  BY <1>5 DEF Control, AddLine, tool
<1>6. CASE WriteFile
  BY <1>6 DEF Control, WriteFile, AfterRewrite, Leave, Goto
<1>7. CASE WriteFails
  BY <1>7 DEF Control, WriteFails, AfterRewrite, Leave, Goto
<1>8. CASE AppendHook
  BY <1>8 DEF Control, AppendHook, Leave, Goto
<1>9. CASE AppendFails
  BY <1>9 DEF Control, AppendFails, Leave, Goto
<1>10. CASE FilesDone
  BY <1>10 DEF Control, FilesDone, Goto, hooksHistory
<1>11. CASE RemoveBinary
  BY <1>11 DEF Control, RemoveBinary, Goto
<1>12. CASE Finish
  BY <1>12 DEF Control, Finish
<1>13. CASE Kill
  BY <1>13 DEF Control, Kill
<1>14. CASE Deploy
  BY <1>14 DEF Control, Deploy, tool
<1> QED  BY <1>1, <1>2, <1>3, <1>4, <1>5, <1>6, <1>7, <1>8, <1>9, <1>10, <1>11, <1>12,
            <1>13, <1>14 DEF HooksNext

\* The writes: what a step may do to the files.
Cuts(p)    == pc = "rewrite" /\ p \in Prefixes(RemoveHook(seen)) /\ Rewrite(p)
Appends(p) == /\ pc = "append" /\ p \in Prefixes(Hook)
              /\ rc' = [rc EXCEPT ![cur] = @ \o p] /\ UNCHANGED torn
              /\ cur \notin round' /\ rest' \subseteq rest

\* The conjuncts that need no other.
Base == HooksTypeOK /\ Control /\ FilesPaired

\* The first lines of a file are among its prefixes, and so is all of it.
LEMMA Whole ==
    ASSUME NEW c \in Seq(Lines)
    PROVE  c \in Prefixes(c)
<1>1. SubSeq(c, 1, Len(c)) = c /\ Len(c) \in 0..Len(c)
  OBVIOUS
<1> QED  BY <1>1 DEF Prefixes

\* A step writes no file, cuts a hook out of one, appends a hook or its first lines to
\* one, or is one of InstallWSL or of another program.
LEMMA WriteSteps ==
    ASSUME Base, [HooksNext]_hooksVars
    PROVE  /\ machine' = machine
           /\ \/ rc' = rc /\ torn' = torn /\ lines' = lines
              \/ \E p : Cuts(p) /\ lines' = lines
              \/ \E p : Appends(p) /\ lines' = lines
              \/ \E f \in Files : SedWSL(f) \/ AddLine(f)
           /\ stuck \subseteq stuck'
<1>1. CASE WriteFile
  <2>1. pc = "rewrite" /\ HasHook(seen) /\ Paired(seen) /\ seen \in Seq(Lines)
    BY <1>1 DEF WriteFile, Base, Control, FilesPaired, HooksTypeOK
  <2>2. RemoveHook(seen) \in Prefixes(RemoveHook(seen))
    BY <2>1, CutFile, Whole
  <2>3. Cuts(RemoveHook(seen))
    BY <1>1, <2>1, <2>2 DEF Cuts, WriteFile
  <2> QED  BY <1>1, <2>3 DEF WriteFile
<1>2. CASE WriteFails
  BY <1>2 DEF WriteFails, Cuts
<1>3. CASE AppendHook
  <2>1. Hook \in Prefixes(Hook)
    <3>1. Hook \in Seq(Lines)
      BY LineKinds DEF Hook
    <3> QED  BY <3>1, Whole
  <2>2. Appends(Hook)
    BY <1>3, <2>1 DEF AppendHook, Appends, Leave
  <2> QED  BY <1>3, <2>2 DEF AppendHook
<1>4. CASE AppendFails
  BY <1>4 DEF AppendFails, Appends, Leave
<1>5. CASE Kill
  BY <1>5 DEF Kill, Cuts, Appends
<1>6. ASSUME NEW f \in Files, SedWSL(f) \/ AddLine(f)
      PROVE  machine' = machine /\ stuck \subseteq stuck'
  BY <1>6 DEF SedWSL, AddLine, hooksHistory
<1>7. CASE \/ \E o \in {"install", "doctor", "uninstall"} :
                 \E h \in Homes, hs \in SUBSET Homes : Begin(o, h, hs)
           \/ \E f \in Files : ReadFile(f)
           \/ FilesDone \/ RemoveBinary \/ Finish \/ Deploy \/ UNCHANGED hooksVars
  BY <1>7 DEF Begin, ReadFile, FilesDone, RemoveBinary, Finish, Deploy, hooksVars, hooksHistory
<1> QED  BY <1>1, <1>2, <1>3, <1>4, <1>5, <1>6, <1>7 DEF HooksNext

\* What is written where, and that it is a file with its markers paired.
LEMMA FilesNext ==
    ASSUME Base, [HooksNext]_hooksVars
    PROVE  rc' \in [Files -> Seq(Lines)] /\ \A f \in Files : Paired(rc'[f])
<1>1. /\ rc \in [Files -> Seq(Lines)] /\ seen \in Seq(Lines)
      /\ \A f \in Files : Paired(rc[f])
      /\ Paired(seen) /\ (pc = "rewrite" => HasHook(seen))
      /\ pc \in {"rewrite", "append"} => cur \in Files
  BY DEF Base, HooksTypeOK, Control, FilesPaired
<1>2. ASSUME NEW p, Cuts(p)
      PROVE  rc' \in [Files -> Seq(Lines)] /\ \A f \in Files : Paired(rc'[f])
  <2>1. p \in Seq(Lines) /\ Paired(p)
    BY <1>1, <1>2, CutFile, CutShort DEF Cuts
  <2> QED  BY <1>1, <1>2, <2>1 DEF Cuts, Rewrite
<1>3. ASSUME NEW p, Appends(p)
      PROVE  rc' \in [Files -> Seq(Lines)] /\ \A f \in Files : Paired(rc'[f])
  <2>1. rc[cur] \o p \in Seq(Lines) /\ Paired(rc[cur] \o p)
    BY <1>1, <1>3, HookAppended DEF Appends
  <2> QED  BY <1>1, <1>3, <2>1 DEF Appends
<1>4. ASSUME NEW f \in Files, SedWSL(f)
      PROVE  rc' \in [Files -> Seq(Lines)] /\ \A g \in Files : Paired(rc'[g])
  <2>1. Sed(rc[f]) \in Seq(Lines) /\ Paired(Sed(rc[f]))
    BY <1>1, SedFile, NoHookMeans
  <2> QED  BY <1>1, <1>4, <2>1 DEF SedWSL
<1>5. ASSUME NEW f \in Files, AddLine(f)
      PROVE  rc' \in [Files -> Seq(Lines)] /\ \A g \in Files : Paired(rc'[g])
  <2>1. PICK l : l \in Lines \ {Start, Body, End} /\ rc' = [rc EXCEPT ![f] = Append(@, l)]
    <3>1. CASE Open(rc[f])
      BY <1>5, <3>1, LineKinds DEF AddLine
    <3>2. CASE ~Open(rc[f])
      <4>1. lines[f] + 1 \in 1..MaxLines /\ lines'[f] = lines[f] + 1
        BY <1>5, <3>2, HooksAssumption DEF AddLine, Base, HooksTypeOK
      <4>2. Line(lines[f] + 1) \in Lines \ {Start, Body, End}
        BY <4>1, LineKinds DEF Lines
      <4> QED  BY <1>5, <3>2, <4>1, <4>2 DEF AddLine
    <3> QED  BY <3>1, <3>2
  <2>2. Append(rc[f], l) \in Seq(Lines) /\ Paired(Append(rc[f], l))
    BY <1>1, <2>1, AppendLine
  <2> QED  BY <1>1, <2>1, <2>2
<1> QED  BY <1>1, <1>2, <1>3, <1>4, <1>5, WriteSteps

\* The types are kept. The files are typed by FilesNext.
LEMMA TypeNext ==
    ASSUME Base, [HooksNext]_hooksVars
    PROVE  HooksTypeOK'
<1>1. rc' \in [Files -> Seq(Lines)]
  BY FilesNext
<1>2. machine \subseteq Files /\ seen \in Seq(Lines) /\ <<>> \in Seq(Lines)
  BY HooksAssumption DEF Base, HooksTypeOK
<1>3. Base
  OBVIOUS
<1>4. CASE UNCHANGED hooksVars
  BY <1>3, <1>4 DEF HooksTypeOK, Base, hooksVars, tool, hooksHistory
<1>5. ASSUME NEW o \in {"install", "doctor", "uninstall"},
             NEW h \in Homes, NEW hs \in SUBSET Homes, Begin(o, h, hs)
      PROVE  HooksTypeOK'
  BY <1>1, <1>2, <1>3, <1>5 DEF HooksTypeOK, Base, Begin, FilesOf
<1>6. ASSUME NEW f \in Files, ReadFile(f) PROVE HooksTypeOK'
  BY <1>1, <1>2, <1>3, <1>6 DEF HooksTypeOK, Base, ReadFile, Goto
<1>7. ASSUME NEW f \in Files, SedWSL(f) PROVE HooksTypeOK'
  BY <1>1, <1>2, <1>3, <1>7 DEF HooksTypeOK, Base, SedWSL, Goto, hooksHistory
<1>8. ASSUME NEW f \in Files, AddLine(f) PROVE HooksTypeOK'
  <2>1. lines' \in [Files -> 0..MaxLines]
    <3>1. lines \in [Files -> 0..MaxLines] /\ MaxLines \in Nat
      BY <1>3, HooksAssumption DEF HooksTypeOK, Base
    <3>2. lines' = lines \/ lines' = [lines EXCEPT ![f] = @ + 1]
      BY <1>8 DEF AddLine
    <3>3. lines[f] < MaxLines
      BY <1>8 DEF AddLine
    <3>4. lines[f] + 1 \in 0..MaxLines
      BY <3>1, <3>3
    <3> QED  BY <3>1, <3>2, <3>4
  <2> QED  BY <1>1, <1>3, <1>8, <2>1 DEF HooksTypeOK, Base, AddLine, tool
<1>9. CASE WriteFile
  <2>1. cur \in Files
    BY <1>3, <1>9 DEF Base, Control, HooksTypeOK, WriteFile
  <2>2. torn' \subseteq Files
    BY <1>3, <1>9, <2>1 DEF Base, HooksTypeOK, WriteFile, Rewrite
  <2> QED  BY <1>1, <1>2, <1>3, <1>9, <2>1, <2>2
           DEF HooksTypeOK, Base, WriteFile, AfterRewrite, Leave, Goto
<1>10. CASE WriteFails
  <2>1. cur \in Files
    BY <1>3, <1>10 DEF Base, Control, HooksTypeOK, WriteFails
  <2>2. torn' \subseteq Files /\ stuck' \subseteq Files
    BY <1>3, <1>10, <2>1 DEF Base, HooksTypeOK, WriteFails, Rewrite
  <2>3. faults' \in 0..MaxFaults
    BY <1>3, <1>10, HooksAssumption DEF Base, HooksTypeOK, WriteFails
  <2> QED  BY <1>1, <1>2, <1>3, <1>10, <2>1, <2>2, <2>3
           DEF HooksTypeOK, Base, WriteFails, AfterRewrite, Leave, Goto
<1>11. CASE AppendHook
  <2>1. cur \in Files
    BY <1>3, <1>11 DEF Base, Control, HooksTypeOK, AppendHook
  <2> QED  BY <1>1, <1>2, <1>3, <1>11, <2>1 DEF HooksTypeOK, Base, AppendHook, Leave, Goto
<1>12. CASE AppendFails
  <2>1. cur \in Files
    BY <1>3, <1>12 DEF Base, Control, HooksTypeOK, AppendFails
  <2>2. faults' \in 0..MaxFaults
    BY <1>3, <1>12, HooksAssumption DEF Base, HooksTypeOK, AppendFails
  <2> QED  BY <1>1, <1>2, <1>3, <1>12, <2>1, <2>2
           DEF HooksTypeOK, Base, AppendFails, Leave, Goto
<1>13. CASE FilesDone
  BY <1>1, <1>3, <1>13 DEF HooksTypeOK, Base, FilesDone, Goto, hooksHistory
<1>14. CASE RemoveBinary
  BY <1>1, <1>2, <1>3, <1>14 DEF HooksTypeOK, Base, RemoveBinary, Goto
<1>15. CASE Finish
  BY <1>1, <1>3, <1>15 DEF HooksTypeOK, Base, Finish
<1>16. CASE Kill
  <2>1. torn' \subseteq Files
    BY <1>3, <1>16 DEF Base, Control, HooksTypeOK, Kill, Rewrite
  <2>2. faults' \in 0..MaxFaults
    BY <1>3, <1>16, HooksAssumption DEF Base, HooksTypeOK, Kill
  <2> QED  BY <1>1, <1>2, <1>3, <1>16, <2>1, <2>2 DEF HooksTypeOK, Base, Kill
<1>17. CASE Deploy
  BY <1>1, <1>3, <1>17 DEF HooksTypeOK, Base, Deploy, tool
<1> QED  BY <1>4, <1>5, <1>6, <1>7, <1>8, <1>9, <1>10, <1>11, <1>12, <1>13, <1>14, <1>15,
            <1>16, <1>17 DEF HooksNext

\* What removeHookFromFile holds in memory is a file it read, or nothing.
LEMMA SeenSteps ==
    ASSUME [HooksNext]_hooksVars
    PROVE  \/ seen' = seen /\ (pc' = "rewrite" => pc = "rewrite" /\ cur' = cur)
           \/ seen' = <<>> /\ pc' # "rewrite"
           \/ \E f \in Files : ReadFile(f) /\ seen' = rc[f] /\ cur' = f
BY DEF HooksNext, Begin, ReadFile, SedWSL, AddLine, WriteFile, WriteFails, AppendHook,
       AppendFails, FilesDone, RemoveBinary, Finish, Kill, Deploy, AfterRewrite, Leave, Goto,
       hooksVars, tool, hooksHistory

\* The types, the control and the pairing are inductive by themselves.
LEMMA BaseNext ==
    ASSUME Base, [HooksNext]_hooksVars
    PROVE  Base'
<1>1. Control'
  BY ControlNext DEF Base
<1>2. Paired(seen')
  <2>1. Paired(<<>>)
    BY DEF Paired
  <2> QED  BY <2>1, SeenSteps DEF Base, FilesPaired
<1> QED  BY <1>1, <1>2, FilesNext, TypeNext DEF Base, FilesPaired

-----------------------------------------------------------------------------
(* ProfileHooks: the user's lines                                          *)

\* No step moves, repeats or drops a line of the user's, or leaves one behind an open
\* start, in a file that is not torn.
LEMMA LinesNext ==
    ASSUME Base, LinesOutside, [HooksNext]_hooksVars
    PROVE  LinesOutside'
<1>1. /\ rc \in [Files -> Seq(Lines)] /\ seen \in Seq(Lines) /\ machine \subseteq Files
      /\ lines \in [Files -> Nat]
      /\ \A f \in Files : Paired(rc[f])
      /\ Paired(seen) /\ (pc = "rewrite" => HasHook(seen))
      /\ pc \in {"rewrite", "append"} => cur \in Files
  BY HooksAssumption DEF Base, HooksTypeOK, Control, FilesPaired
<1>2. machine' = machine
  BY WriteSteps
<1>3. \A f \in machine \ torn : Outside(rc[f]) /\ Keeps(rc[f], lines[f])
  BY DEF LinesOutside
<1>4. CASE rc' = rc /\ torn' = torn /\ lines' = lines
  BY <1>2, <1>4 DEF LinesOutside
<1>5. ASSUME NEW p, Cuts(p), lines' = lines PROVE LinesOutside'
  <2>1. /\ rc' = [rc EXCEPT ![cur] = p] /\ torn \subseteq torn' /\ cur \in Files
        /\ cur \notin torn' => rc[cur] = seen /\ p = RemoveHook(seen) /\ HasHook(seen)
    BY <1>1, <1>5 DEF Cuts, Rewrite
  <2> SUFFICES ASSUME NEW f \in machine \ torn'
               PROVE  Outside(rc'[f]) /\ Keeps(rc'[f], lines[f])
    BY <1>2, <1>5 DEF LinesOutside
  <2>2. CASE f = cur
    <3>1. rc'[f] = RemoveHook(rc[f]) /\ HasHook(rc[f])
      BY <1>1, <2>1, <2>2
    <3>2. f \in Files /\ Outside(rc[f]) /\ Keeps(rc[f], lines[f])
      BY <1>1, <1>3, <2>1
    <3> QED  BY <1>1, <3>1, <3>2, CutFile
  <2>3. CASE f # cur
    BY <1>1, <1>3, <2>1, <2>3
  <2> QED  BY <2>2, <2>3
<1>6. ASSUME NEW p, Appends(p), lines' = lines PROVE LinesOutside'
  <2>1. /\ rc' = [rc EXCEPT ![cur] = rc[cur] \o p] /\ torn' = torn /\ cur \in Files
        /\ p \in Prefixes(Hook)
    BY <1>1, <1>6 DEF Appends
  <2> SUFFICES ASSUME NEW f \in machine \ torn
               PROVE  Outside(rc'[f]) /\ Keeps(rc'[f], lines[f])
    BY <1>2, <1>6, <2>1 DEF LinesOutside
  <2>2. f \in Files /\ Outside(rc[f]) /\ Keeps(rc[f], lines[f])
    BY <1>1, <1>3
  <2>3. CASE f = cur
    BY <1>1, <2>1, <2>2, <2>3, HookAppended
  <2>4. CASE f # cur
    BY <1>1, <2>1, <2>2, <2>4
  <2> QED  BY <2>3, <2>4
<1>7. ASSUME NEW g \in Files, SedWSL(g) PROVE LinesOutside'
  <2>1. rc' = [rc EXCEPT ![g] = Sed(rc[g])] /\ torn' = torn /\ lines' = lines
    BY <1>7 DEF SedWSL, hooksHistory
  <2> SUFFICES ASSUME NEW f \in machine \ torn
               PROVE  Outside(rc'[f]) /\ Keeps(rc'[f], lines[f])
    BY <1>2, <2>1 DEF LinesOutside
  <2>2. f \in Files /\ Outside(rc[f]) /\ Keeps(rc[f], lines[f])
    BY <1>1, <1>3
  <2>3. CASE f = g
    BY <1>1, <2>1, <2>2, <2>3, SedFile, NoHookMeans
  <2>4. CASE f # g
    BY <1>1, <2>1, <2>2, <2>4
  <2> QED  BY <2>3, <2>4
<1>8. ASSUME NEW g \in Files, AddLine(g) PROVE LinesOutside'
  <2>1. torn' = torn
    BY <1>8 DEF AddLine
  <2> SUFFICES ASSUME NEW f \in machine \ torn
               PROVE  Outside(rc'[f]) /\ Keeps(rc'[f], lines'[f])
    BY <1>2, <2>1 DEF LinesOutside
  <2>2. f \in Files /\ Outside(rc[f]) /\ Keeps(rc[f], lines[f]) /\ lines[f] \in Nat
    BY <1>1, <1>3
  <2>3. CASE Open(rc[g])
    <3>1. rc' = [rc EXCEPT ![g] = Append(rc[g], Loose)] /\ lines' = lines
      BY <1>8, <2>3 DEF AddLine
    <3>2. CASE f = g
      BY <1>1, <2>2, <3>1, <3>2, LineKinds, AppendLine, AppendKeeps
    <3>3. CASE f # g
      BY <1>1, <2>2, <3>1, <3>3
    <3> QED  BY <3>2, <3>3
  <2>4. CASE ~Open(rc[g])
    <3>1. /\ lines' = [lines EXCEPT ![g] = lines[g] + 1]
          /\ rc' = [rc EXCEPT ![g] = Append(rc[g], Line(lines'[g]))]
      BY <1>8, <2>4 DEF AddLine
    <3>2. CASE f = g
      <4>1. PICK l : l = Line(lines[f] + 1)
        OBVIOUS
      <4>2. lines'[f] = lines[f] + 1 /\ rc'[f] = Append(rc[f], l)
        BY <1>1, <3>1, <3>2, <4>1
      <4>3. lines[f] + 1 \in 1..MaxLines
        BY <1>8, <2>2, <3>2, HooksAssumption DEF AddLine
      <4>4. l \in Lines
        BY <4>1, <4>3 DEF Lines
      <4> QED  BY <1>1, <2>2, <2>4, <3>2, <4>1, <4>2, <4>4, AppendLine, AppendKeeps
    <3>3. CASE f # g
      BY <1>1, <2>2, <3>1, <3>3
    <3> QED  BY <3>2, <3>3
  <2> QED  BY <2>3, <2>4
<1> QED  BY <1>4, <1>5, <1>6, <1>7, <1>8, WriteSteps

-----------------------------------------------------------------------------
(* ProfileHooks: hooks that are whole, and one at most                     *)

\* How an append comes to be due.
LEMMA AppendDue ==
    ASSUME [HooksNext]_hooksVars, pc' = "append"
    PROVE  \/ WriteFile \/ WriteFails
           \/ \E f \in Files : ReadFile(f) \/ SedWSL(f)
           \/ pc = "append" /\ cur' = cur /\ (rc' = rc \/ \E f \in Files : AddLine(f))
BY DEF HooksNext, Begin, AddLine, AppendHook, AppendFails, FilesDone, RemoveBinary, Finish,
       Kill, Deploy, Leave, Goto, hooksVars, tool, hooksHistory

\* A line that is added is not one of a hook.
LEMMA AddLineMeans ==
    ASSUME Base, NEW f \in Files, AddLine(f)
    PROVE  \E l \in Lines \ {Start, Body, End} : rc' = [rc EXCEPT ![f] = Append(rc[f], l)]
<1>1. CASE Open(rc[f])
  BY <1>1, LineKinds DEF AddLine
<1>2. CASE ~Open(rc[f])
  <2>1. lines[f] + 1 \in 1..MaxLines /\ lines'[f] = lines[f] + 1
    BY <1>2, HooksAssumption DEF AddLine, Base, HooksTypeOK
  <2>2. Line(lines[f] + 1) \in Lines \ {Start, Body, End}
    BY <2>1, LineKinds DEF Lines
  <2> QED  BY <1>2, <2>1, <2>2 DEF AddLine
<1> QED  BY <1>1, <1>2

\* WriteFile and WriteFails leave the file without a hook, or without one more than
\* an append needs.
LEMMA RemovedEnd ==
    ASSUME Base, EndsOnce, pc = "rewrite", cur \notin stuck,
           NEW p \in Prefixes(RemoveHook(seen))
    PROVE  /\ p \in Seq(Lines) /\ ~Occurs(End, p)
           /\ ~Open(seen) => NoHook(p)
<1>1. seen \in Seq(Lines) /\ Paired(seen) /\ HasHook(seen) /\ OneEnd(seen)
  BY DEF Base, HooksTypeOK, Control, FilesPaired, EndsOnce
<1>2. /\ RemoveHook(seen) \in Seq(Lines) /\ ~Occurs(End, RemoveHook(seen))
      /\ Paired(RemoveHook(seen))
      /\ Open(RemoveHook(seen)) => Open(seen)
  BY <1>1, CutFile
<1>3. ~Open(seen) => NoHook(RemoveHook(seen))
  BY <1>2, Unhooked
<1> QED  BY <1>2, <1>3, CutShort

\* WriteFile and WriteFails either write the file or put it on the list of the stuck.
LEMMA Rewrites ==
    ASSUME Base, WriteFile \/ WriteFails
    PROVE  /\ pc = "rewrite" /\ cur \in Files
           /\ \/ cur \in stuck' /\ rc' = rc
              \/ stuck' = stuck /\ \E p : Cuts(p)
           /\ pc' = "append" => cur' = cur
           /\ closed' = closed
<1>1. CASE WriteFile
  <2>1. pc = "rewrite" /\ HasHook(seen) /\ Paired(seen) /\ seen \in Seq(Lines) /\ cur \in Files
    BY <1>1 DEF WriteFile, Base, Control, FilesPaired, HooksTypeOK
  <2>2. RemoveHook(seen) \in Prefixes(RemoveHook(seen))
    BY <2>1, CutFile, Whole
  <2>3. Cuts(RemoveHook(seen))
    BY <1>1, <2>1, <2>2 DEF Cuts, WriteFile
  <2> QED  BY <1>1, <2>1, <2>3 DEF WriteFile, AfterRewrite, Leave, Goto
<1>2. CASE WriteFails
  <2>1. pc = "rewrite" /\ cur \in Files
    BY <1>2 DEF WriteFails, Base, Control, HooksTypeOK
  <2>2. \/ cur \in stuck' /\ rc' = rc
        \/ stuck' = stuck /\ \E p : Cuts(p)
    BY <1>2 DEF WriteFails, Cuts
  <2> QED  BY <1>2, <2>1, <2>2 DEF WriteFails, AfterRewrite, Leave, Goto
<1> QED  BY <1>1, <1>2

\* No step adds a second end.
LEMMA EndsNext ==
    ASSUME Base, EndsOnce, [HooksNext]_hooksVars
    PROVE  EndsOnce'
<1>1. /\ rc \in [Files -> Seq(Lines)] /\ seen \in Seq(Lines)
      /\ \A f \in Files : Paired(rc[f])
      /\ pc \in {"rewrite", "append"} => cur \in Files
      /\ stuck \subseteq stuck'
      /\ \A f \in Files \ stuck : OneEnd(rc[f])
      /\ pc = "append" /\ cur \notin stuck => ~Occurs(End, rc[cur])
  BY WriteSteps DEF Base, HooksTypeOK, Control, FilesPaired, EndsOnce
<1>2. ASSUME NEW f \in Files \ stuck' PROVE OneEnd(rc'[f])
  <2>1. f \in Files \ stuck /\ OneEnd(rc[f]) /\ rc[f] \in Seq(Lines) /\ Paired(rc[f])
    BY <1>1
  <2>2. CASE rc' = rc
    BY <2>1, <2>2
  <2>3. ASSUME NEW p, Cuts(p) PROVE OneEnd(rc'[f])
    <3>1. rc' = [rc EXCEPT ![cur] = p] /\ cur \in Files /\ pc = "rewrite"
      BY <1>1, <2>3 DEF Cuts, Rewrite
    <3>2. CASE f = cur
      <4>1. ~Occurs(End, p)
        BY <2>1, <2>3, <3>1, <3>2, RemovedEnd DEF Cuts
      <4> QED  BY <1>1, <3>1, <3>2, <4>1 DEF OneEnd, Occurs
    <3>3. CASE f # cur
      BY <1>1, <2>1, <3>1, <3>3
    <3> QED  BY <3>2, <3>3
  <2>4. ASSUME NEW p, Appends(p) PROVE OneEnd(rc'[f])
    <3>1. /\ rc' = [rc EXCEPT ![cur] = rc[cur] \o p] /\ cur \in Files /\ p \in Prefixes(Hook)
          /\ pc = "append"
      BY <1>1, <2>4 DEF Appends
    <3>2. CASE f = cur
      BY <1>1, <2>1, <3>1, <3>2, HookAppended
    <3>3. CASE f # cur
      BY <1>1, <2>1, <3>1, <3>3
    <3> QED  BY <3>2, <3>3
  <2>5. ASSUME NEW g \in Files, SedWSL(g) PROVE OneEnd(rc'[f])
    <3>1. rc' = [rc EXCEPT ![g] = Sed(rc[g])]
      BY <2>5 DEF SedWSL
    <3>2. OneEnd(Sed(rc[g]))
      BY <1>1, SedFile, NoHookMeans
    <3> QED  BY <1>1, <2>1, <3>1, <3>2
  <2>6. ASSUME NEW g \in Files, AddLine(g) PROVE OneEnd(rc'[f])
    <3>1. PICK l \in Lines \ {Start, Body, End} : rc' = [rc EXCEPT ![g] = Append(rc[g], l)]
      BY <2>6, AddLineMeans
    <3>2. CASE f = g
      BY <1>1, <2>1, <3>1, <3>2, AppendKeeps
    <3>3. CASE f # g
      BY <1>1, <2>1, <3>1, <3>3
    <3> QED  BY <3>2, <3>3
  <2> QED  BY <2>2, <2>3, <2>4, <2>5, <2>6, WriteSteps
<1>3. ASSUME pc' = "rewrite", cur' \notin stuck' PROVE OneEnd(seen')
  <2>1. CASE seen' = seen /\ pc = "rewrite" /\ cur' = cur
    BY <1>1, <1>3, <2>1 DEF EndsOnce
  <2>2. ASSUME NEW f \in Files, seen' = rc[f], cur' = f PROVE OneEnd(seen')
    BY <1>1, <1>3, <2>2
  <2> QED  BY <1>3, <2>1, <2>2, SeenSteps
<1>4. ASSUME pc' = "append", cur' \notin stuck' PROVE ~Occurs(End, rc'[cur'])
  <2>1. ASSUME WriteFile \/ WriteFails PROVE ~Occurs(End, rc'[cur'])
    <3>1. pc = "rewrite" /\ cur \in Files /\ cur' = cur /\ cur \notin stuck
      BY <1>1, <1>4, <2>1, Rewrites
    <3>2. PICK p : Cuts(p)
      BY <1>4, <2>1, <3>1, Rewrites
    <3>3. rc'[cur] = p /\ p \in Prefixes(RemoveHook(seen))
      BY <1>1, <3>1, <3>2 DEF Cuts, Rewrite
    <3> QED  BY <3>1, <3>3, RemovedEnd
  <2>2. ASSUME NEW f \in Files, ReadFile(f) PROVE ~Occurs(End, rc'[cur'])
    <3>1. ~HasHook(rc[f]) /\ cur' = f /\ rc' = rc
      BY <1>4, <2>2 DEF ReadFile, Goto
    <3> QED  BY <1>1, <3>1, Unhooked
  <2>3. ASSUME NEW f \in Files, SedWSL(f) PROVE ~Occurs(End, rc'[cur'])
    <3>1. rc'[f] = Sed(rc[f]) /\ cur' = f
      BY <1>1, <2>3 DEF SedWSL
    <3> QED  BY <1>1, <3>1, SedFile, NoHookMeans
  <2>4. CASE pc = "append" /\ cur' = cur /\ rc' = rc
    BY <1>1, <1>4, <2>4
  <2>5. ASSUME pc = "append", cur' = cur, NEW f \in Files, AddLine(f)
        PROVE  ~Occurs(End, rc'[cur'])
    <3>1. PICK l \in Lines \ {Start, Body, End} : rc' = [rc EXCEPT ![f] = Append(rc[f], l)]
      BY <2>5, AddLineMeans
    <3>2. ~Occurs(End, rc[cur]) /\ cur \in Files
      BY <1>1, <1>4, <2>5
    <3>3. CASE f = cur
      BY <1>1, <2>5, <3>1, <3>2, <3>3, AppendKeeps
    <3>4. CASE f # cur
      BY <1>1, <2>5, <3>1, <3>2, <3>4
    <3> QED  BY <3>3, <3>4
  <2> QED  BY <1>4, <2>1, <2>2, <2>3, <2>4, <2>5, AppendDue
<1> QED  BY <1>2, <1>3, <1>4 DEF EndsOnce

\* An append is due to a file without a hook, if none was open in it.
LEMMA StillClosedNext ==
    ASSUME Base, EndsOnce, StillClosed, [HooksNext]_hooksVars
    PROVE  StillClosed'
<1>1. /\ rc \in [Files -> Seq(Lines)] /\ seen \in Seq(Lines)
      /\ \A f \in Files : Paired(rc[f])
      /\ pc \in {"rewrite", "append"} => cur \in Files /\ cur \in round
      /\ stuck \subseteq stuck' /\ round \cup rest \subseteq Files
      /\ \A f \in ((round \cup rest) \cap closed) \ stuck : ~Open(rc[f])
      /\ pc = "rewrite" /\ cur \in closed \ stuck => ~Open(seen)
      /\ pc = "append" /\ cur \in closed \ stuck => NoHook(rc[cur])
      /\ pc = "append" => rest = {}
  BY WriteSteps DEF Base, HooksTypeOK, Control, FilesPaired, StillClosed
<1>2. CASE \E o \in {"install", "doctor", "uninstall"} :
              \E h \in Homes, hs \in SUBSET Homes : Begin(o, h, hs)
  BY <1>2 DEF Begin, FilesOf, StillClosed
<1>3. ASSUME ~\E o \in {"install", "doctor", "uninstall"} :
                \E h \in Homes, hs \in SUBSET Homes : Begin(o, h, hs)
      PROVE  closed' \subseteq closed /\ round' \cup rest' \subseteq round \cup rest
  BY <1>3 DEF HooksNext, ReadFile, SedWSL, AddLine, WriteFile, WriteFails, AppendHook,
       AppendFails, FilesDone, RemoveBinary, Finish, Kill, Deploy, AfterRewrite, Leave, Goto,
       hooksVars, tool, hooksHistory
<1>4. ASSUME closed' \subseteq closed, round' \cup rest' \subseteq round \cup rest
      PROVE  StillClosed'
  <2>1. ASSUME NEW f \in ((round' \cup rest') \cap closed') \ stuck' PROVE ~Open(rc'[f])
    <3>1. /\ f \in Files /\ f \in closed \ stuck /\ ~Open(rc[f])
          /\ rc[f] \in Seq(Lines) /\ Paired(rc[f])
      BY <1>1, <1>4
    <3>2. CASE rc' = rc
      BY <3>1, <3>2
    <3>3. ASSUME NEW p, Cuts(p) PROVE ~Open(rc'[f])
      <4>1. rc' = [rc EXCEPT ![cur] = p] /\ cur \in Files /\ pc = "rewrite"
        BY <1>1, <3>3 DEF Cuts, Rewrite
      <4>2. CASE f = cur
        <5>1. p \in Seq(Lines) /\ NoHook(p)
          BY <1>1, <3>1, <3>3, <4>1, <4>2, RemovedEnd DEF Cuts
        <5> QED  BY <1>1, <4>1, <4>2, <5>1, NoHookMeans
      <4>3. CASE f # cur
        BY <1>1, <3>1, <4>1, <4>3
      <4> QED  BY <4>2, <4>3
    <3>4. ASSUME NEW p, Appends(p) PROVE ~Open(rc'[f])
      <4>1. /\ rc' = [rc EXCEPT ![cur] = rc[cur] \o p] /\ cur \in Files
            /\ pc = "append" /\ rest = {}
        BY <1>1, <3>4 DEF Appends
      <4>3. f # cur
        BY <3>4, <4>1 DEF Appends
      <4> QED  BY <1>1, <3>1, <4>1, <4>3
    <3>5. ASSUME NEW g \in Files, SedWSL(g) PROVE ~Open(rc'[f])
      <4>1. rc' = [rc EXCEPT ![g] = Sed(rc[g])]
        BY <3>5 DEF SedWSL
      <4>2. ~Open(Sed(rc[g]))
        BY <1>1, SedFile, NoHookMeans
      <4> QED  BY <1>1, <3>1, <4>1, <4>2
    <3>6. ASSUME NEW g \in Files, AddLine(g) PROVE ~Open(rc'[f])
      <4>1. PICK l \in Lines \ {Start, Body, End} : rc' = [rc EXCEPT ![g] = Append(rc[g], l)]
        BY <3>6, AddLineMeans
      <4>2. CASE f = g
        BY <1>1, <3>1, <4>1, <4>2, AppendLine
      <4>3. CASE f # g
        BY <1>1, <3>1, <4>1, <4>3
      <4> QED  BY <4>2, <4>3
    <3> QED  BY <3>2, <3>3, <3>4, <3>5, <3>6, WriteSteps
  <2>2. ASSUME pc' = "rewrite", cur' \in closed' \ stuck' PROVE ~Open(seen')
    <3>1. CASE seen' = seen /\ pc = "rewrite" /\ cur' = cur
      BY <1>1, <1>4, <2>2, <3>1
    <3>2. ASSUME NEW f \in Files, ReadFile(f), seen' = rc[f], cur' = f PROVE ~Open(seen')
      <4>1. f \in round
        BY <3>2 DEF ReadFile
      <4> QED  BY <1>1, <1>4, <2>2, <3>2, <4>1
    <3> QED  BY <2>2, <3>1, <3>2, SeenSteps
  <2>3. ASSUME pc' = "append", cur' \in closed' \ stuck' PROVE NoHook(rc'[cur'])
    <3>1. ASSUME WriteFile \/ WriteFails PROVE NoHook(rc'[cur'])
      <4>1. pc = "rewrite" /\ cur \in Files /\ cur' = cur /\ cur \in closed \ stuck
        BY <1>1, <1>4, <2>3, <3>1, Rewrites
      <4>2. PICK p : Cuts(p)
        BY <2>3, <3>1, <4>1, Rewrites
      <4>3. rc'[cur] = p /\ p \in Prefixes(RemoveHook(seen))
        BY <1>1, <4>1, <4>2 DEF Cuts, Rewrite
      <4> QED  BY <1>1, <4>1, <4>3, RemovedEnd
    <3>2. ASSUME NEW f \in Files, ReadFile(f) PROVE NoHook(rc'[cur'])
      <4>1. ~HasHook(rc[f]) /\ cur' = f /\ rc' = rc /\ f \in round
        BY <2>3, <3>2 DEF ReadFile, Goto
      <4> QED  BY <1>1, <1>4, <2>3, <4>1, Unhooked
    <3>3. ASSUME NEW f \in Files, SedWSL(f) PROVE NoHook(rc'[cur'])
      <4>1. rc'[f] = Sed(rc[f]) /\ cur' = f
        BY <1>1, <3>3 DEF SedWSL
      <4> QED  BY <1>1, <4>1, SedFile
    <3>4. CASE pc = "append" /\ cur' = cur /\ rc' = rc
      BY <1>1, <1>4, <2>3, <3>4
    <3>5. ASSUME pc = "append", cur' = cur, NEW f \in Files, AddLine(f)
          PROVE  NoHook(rc'[cur'])
      <4>1. PICK l \in Lines \ {Start, Body, End} : rc' = [rc EXCEPT ![f] = Append(rc[f], l)]
        BY <3>5, AddLineMeans
      <4>2. NoHook(rc[cur]) /\ cur \in Files
        BY <1>1, <1>4, <2>3, <3>5
      <4>3. CASE f = cur
        BY <1>1, <3>5, <4>1, <4>2, <4>3, AppendKeeps
      <4>4. CASE f # cur
        BY <1>1, <3>5, <4>1, <4>2, <4>4
      <4> QED  BY <4>3, <4>4
    <3> QED  BY <2>3, <3>1, <3>2, <3>3, <3>4, <3>5, AppendDue
  <2> QED  BY <2>1, <2>2, <2>3 DEF StillClosed
<1> QED  BY <1>2, <1>3, <1>4

\* Installs and uninstalls visit files one by one, and each is done when it is left.
LEMMA VisitedNext ==
    ASSUME Base, EndsOnce, StillClosed, Visited, [HooksNext]_hooksVars
    PROVE  Visited'
<1>1. /\ rc \in [Files -> Seq(Lines)] /\ seen \in Seq(Lines) /\ machine \subseteq Files
      /\ \A f \in Files : Paired(rc[f])
      /\ pc \in {"rewrite", "append"} => cur \in Files /\ cur \in round
      /\ stuck \subseteq stuck' /\ round \cup rest \subseteq Files
      /\ machine' = machine
      /\ pc = "append" => op # "uninstall"
      /\ op # "uninstall" => rest = {}
  BY WriteSteps, HooksAssumption DEF Base, HooksTypeOK, Control, FilesPaired
<1>2. CASE op' = "idle"
  BY <1>2 DEF Visited
<1>3. CASE \E o \in {"install", "doctor", "uninstall"} :
              \E h \in Homes, hs \in SUBSET Homes : Begin(o, h, hs)
  BY <1>3 DEF Begin, FilesOf, Visited
<1>4. CASE rc' = rc /\ missed' = missed /\ round' \cup rest' = round \cup rest
           /\ op' = op /\ homes' = homes /\ closed' = closed
           /\ (op # "uninstall" => rest' = {})
  BY <1>1, <1>4 DEF Visited, FilesOf
<1>5. ASSUME NEW g \in Files, ReadFile(g) PROVE Visited'
  <2>1. CASE UNCHANGED <<round, missed>>
    BY <1>1, <1>4, <1>5, <2>1 DEF ReadFile, Goto
  <2>2. CASE ~HasHook(rc[g]) /\ op = "uninstall" /\ round' = round \ {g} /\ missed' = missed \ {g}
    <3>1. /\ op' = op /\ rc' = rc /\ homes' = homes /\ closed' = closed /\ rest' = rest
          /\ stuck' = stuck /\ g \in round
      BY <1>5, <2>2 DEF ReadFile, Goto
    <3>2. g \in closed \ stuck => NoHook(rc[g])
      BY <1>1, <2>2, <3>1, Unhooked DEF StillClosed
    <3>3. g \in closed \ stuck => ~Calls(rc[g])
      BY <1>1, <3>2, NoHookMeans DEF Calls
    <3> QED  BY <1>1, <2>2, <3>1, <3>3 DEF Visited, FilesOf
  <2> QED  BY <1>5, <2>1, <2>2 DEF ReadFile
<1>6. ASSUME NEW g \in Files, SedWSL(g) PROVE Visited'
  <2>1. /\ rc' = [rc EXCEPT ![g] = Sed(rc[g])] /\ g \in round /\ round' = round /\ rest' = rest
        /\ op' = op /\ homes' = homes /\ closed' = closed /\ missed' = missed
    BY <1>6 DEF SedWSL, Goto, hooksHistory
  <2> QED  BY <1>1, <2>1 DEF Visited, FilesOf
<1>7. ASSUME NEW g \in Files, AddLine(g) PROVE Visited'
  <2>1. PICK l \in Lines \ {Start, Body, End} : rc' = [rc EXCEPT ![g] = Append(rc[g], l)]
    BY <1>7, AddLineMeans
  <2>2. /\ round' = round /\ rest' = rest /\ op' = op /\ homes' = homes /\ closed' = closed
        /\ missed' = missed /\ stuck' = stuck
    BY <1>7 DEF AddLine, tool
  <2>3. \A f \in Files : /\ OneHook(rc[f]) => OneHook(rc'[f])
                         /\ ~Calls(rc[f]) => ~Calls(rc'[f])
    <3> TAKE f \in Files
    <3>1. CASE f = g
      BY <1>1, <2>1, <3>1, AppendKeeps DEF Calls
    <3>2. CASE f # g
      BY <1>1, <2>1, <3>2
    <3> QED  BY <3>1, <3>2
  <2> QED  BY <1>1, <2>2, <2>3 DEF Visited, FilesOf
<1>8. ASSUME WriteFile \/ WriteFails PROVE Visited'
  <2>1. /\ pc = "rewrite" /\ cur \in Files /\ cur \in round /\ closed' = closed
        /\ \/ cur \in stuck' /\ rc' = rc
           \/ stuck' = stuck /\ \E p : Cuts(p)
    BY <1>1, <1>8, Rewrites
  <2>2. \A f \in Files \ {cur} : rc'[f] = rc[f]
    BY <1>1, <2>1 DEF Cuts, Rewrite
  <2>3. /\ op' = op /\ homes' = homes /\ rest' = rest
        /\ \/ op # "uninstall" /\ round' = round /\ missed' = missed
           \/ op = "uninstall" /\ round' = round \ {cur} /\ missed' = missed \cup {cur}
           \/ op = "uninstall" /\ round' = round \ {cur} /\ missed' = missed \ {cur}
    BY <1>8 DEF WriteFile, WriteFails, AfterRewrite, Leave, Goto
  <2>4. cur \in closed' \ stuck' => ~Calls(rc'[cur])
    <3> SUFFICES ASSUME cur \in closed' \ stuck' PROVE ~Calls(rc'[cur])
      OBVIOUS
    <3>1. cur \in closed \ stuck /\ ~Open(seen)
      BY <1>1, <2>1 DEF StillClosed
    <3>2. PICK p : Cuts(p)
      BY <2>1
    <3>3. rc'[cur] = p /\ p \in Prefixes(RemoveHook(seen))
      BY <1>1, <2>1, <3>2 DEF Cuts, Rewrite
    <3>4. p \in Seq(Lines) /\ NoHook(p)
      BY <2>1, <3>1, <3>3, RemovedEnd
    <3> QED  BY <3>3, <3>4, NoHookMeans DEF Calls
  <2> QED  BY <1>1, <2>1, <2>2, <2>3, <2>4 DEF Visited, FilesOf
<1>9. CASE AppendHook
  <2>1. /\ pc = "append" /\ rc' = [rc EXCEPT ![cur] = rc[cur] \o Hook]
        /\ op' = op /\ homes' = homes /\ closed' = closed /\ rest' = rest /\ stuck' = stuck
        /\ round' = round \ {cur} /\ missed' = missed \ {cur}
    BY <1>9 DEF AppendHook, Leave, Goto
  <2>2. cur \in closed \ stuck => OneHook(rc'[cur])
    BY <1>1, <2>1, HookInstalled DEF StillClosed
  <2> QED  BY <1>1, <2>1, <2>2 DEF Visited, FilesOf
<1>10. CASE AppendFails
  <2>1. /\ pc = "append" /\ \A f \in Files \ {cur} : rc'[f] = rc[f]
        /\ op' = op /\ homes' = homes /\ closed' = closed /\ rest' = rest /\ stuck' = stuck
        /\ round' = round \ {cur} /\ missed' = missed \cup {cur}
    BY <1>1, <1>10 DEF AppendFails, Leave, Goto
  <2> QED  BY <1>1, <2>1 DEF Visited, FilesOf
<1>11. CASE FilesDone
  BY <1>1, <1>4, <1>11 DEF FilesDone, Goto, hooksHistory
<1>12. CASE RemoveBinary
  BY <1>1, <1>4, <1>12 DEF RemoveBinary, Goto
<1>13. CASE Deploy \/ UNCHANGED hooksVars
  BY <1>1, <1>4, <1>13 DEF Deploy, hooksVars, tool, hooksHistory
<1>14. CASE Finish \/ Kill
  BY <1>2, <1>14 DEF Finish, Kill
<1> QED  BY <1>3, <1>5, <1>6, <1>7, <1>8, <1>9, <1>10, <1>11, <1>12, <1>13, <1>14 DEF HooksNext

\* The binary goes last, when all files were visited.
LEMMA DeadNext ==
    ASSUME Base, Visited, NoDeadHook, [HooksNext]_hooksVars
    PROVE  NoDeadHook'
<1>1. machine' = machine /\ machine \subseteq Files /\ rc \in [Files -> Seq(Lines)]
  BY WriteSteps, HooksAssumption DEF Base, HooksTypeOK
<1>2. CASE shield'
  BY <1>2 DEF NoDeadHook
<1>3. ASSUME shield, ~shield' PROVE NoDeadHook'
  <2>1. RemoveBinary
    BY <1>3 DEF HooksNext, Begin, ReadFile, SedWSL, AddLine, WriteFile, WriteFails, AppendHook,
                AppendFails, FilesDone, Finish, Kill, Deploy, hooksVars
  <2>2. /\ op = "uninstall" /\ round \cup rest = {} /\ rc' = rc /\ gone' = homes
        /\ skipped' = missed \cup stuck \cup (machine \ closed)
    BY <1>3, <2>1 DEF RemoveBinary, Base, Control
  <2> QED  BY <1>1, <2>2 DEF Visited, NoDeadHook, FilesOf
<1>4. ASSUME ~shield, ~shield' PROVE NoDeadHook'
  <2>1. pc \in {"idle", "done"}
    BY <1>4 DEF Base, Control
  <2>2. gone' = gone /\ skipped' = skipped
    BY <1>4, <2>1 DEF HooksNext, Begin, ReadFile, SedWSL, AddLine, WriteFile, WriteFails,
         AppendHook, AppendFails, FilesDone, RemoveBinary, Finish, Kill, Deploy, hooksVars,
         hooksHistory
  <2>3. \A f \in Files : ~Calls(rc[f]) => ~Calls(rc'[f])
    <3>1. CASE rc' = rc
      BY <3>1
    <3>2. ASSUME NEW g \in Files, AddLine(g) PROVE \A f \in Files : ~Calls(rc[f]) => ~Calls(rc'[f])
      <4>1. PICK l \in Lines \ {Start, Body, End} : rc' = [rc EXCEPT ![g] = Append(rc[g], l)]
        BY <3>2, AddLineMeans
      <4> TAKE f \in Files
      <4>2. CASE f = g
        BY <1>1, <4>1, <4>2, AppendKeeps DEF Calls
      <4>3. CASE f # g
        BY <1>1, <4>1, <4>3
      <4> QED  BY <4>2, <4>3
    <3> QED  BY <2>1, <3>1, <3>2, WriteSteps DEF Cuts, Appends, SedWSL
  <2> QED  BY <1>1, <1>4, <2>2, <2>3 DEF NoDeadHook, FilesOf
<1> QED  BY <1>2, <1>3, <1>4

\* The invariant holds in every state.
LEMMA HooksInvariant == HooksSpec => []HooksInv
<1>1. ASSUME HooksInv, [HooksNext]_hooksVars PROVE HooksInv'
  <2>1. Base /\ LinesOutside /\ EndsOnce /\ StillClosed /\ Visited /\ NoDeadHook
    BY <1>1 DEF HooksInv, Base
  <2>2. Base' /\ LinesOutside' /\ EndsOnce' /\ StillClosed' /\ Visited' /\ NoDeadHook'
    BY <1>1, <2>1, BaseNext, LinesNext, EndsNext, StillClosedNext, VisitedNext, DeadNext
  <2> QED  BY <2>2 DEF HooksInv, Base
<1> QED  BY <1>1, HooksInitInv, PTL DEF HooksSpec

\* Every variable keeps the values the code can give it.
THEOREM HooksTypeCorrect == HooksSpec => []HooksTypeOK
<1>1. HooksInv => HooksTypeOK
  BY DEF HooksInv
<1> QED  BY <1>1, HooksInvariant, PTL

\* Installs, repairs, removals, kills and failed writes in any order lose, repeat and
\* reorder none of the user's lines, but in a file whose rewrite was cut short or
\* overtook the user (removeHookFromFile, appendHookToFile, InstallWSL).
THEOREM LinesSurvive == HooksSpec => []UserLinesKept
<1>1. HooksInv => UserLinesKept
  BY DEF HooksInv, LinesOutside, UserLinesKept
<1> QED  BY <1>1, HooksInvariant, PTL

\* A shell asks once for a command: no file ever holds two whole hooks, unless it once
\* took an append after it had refused the rewrite (appendHookToFile).
THEOREM ShellAsksOnce == HooksSpec => []AskedOnce
<1>1. HooksInv => AskedOnce
  <2> SUFFICES ASSUME HooksInv, NEW f \in machine \ stuck PROVE OneEnd(rc[f])
    BY DEF AskedOnce, OneEnd
  <2>1. machine \subseteq Files
    BY HooksAssumption DEF HooksInv, HooksTypeOK
  <2> QED  BY <2>1 DEF HooksInv, EndsOnce
<1> QED  BY <1>1, HooksInvariant, PTL

\* An install leaves one whole hook in each file it did not fail in and that had no
\* open one (Install, InstallWSL).
THEOREM InstallLeavesOneHook == HooksSpec => []InstallsOneHook
<1>1. HooksInv => InstallsOneHook
  <2> SUFFICES ASSUME HooksInv, pc = "done", op = "install",
                      NEW f \in (FilesOf(homes) \cap closed) \ (missed \cup stuck)
               PROVE  OneHook(rc[f])
    BY DEF InstallsOneHook
  <2>1. round = {}
    BY DEF HooksInv, Control
  <2> QED  BY <2>1 DEF HooksInv, Visited
<1> QED  BY <1>1, HooksInvariant, PTL

\* An uninstall that removes the binary leaves no hook that calls it, but for the
\* exceptions it names (cmdUninstall).
THEOREM NoHookIsDead == HooksSpec => []NoDeadHook
<1>1. HooksInv => NoDeadHook
  BY DEF HooksInv
<1> QED  BY <1>1, HooksInvariant, PTL

\* Wherever removeHookFromFile finds both markers, the start comes first, whatever was
\* cut short before: it never keeps the lines between them twice.
THEOREM MarkersInOrder ==
    HooksSpec => [](\A f \in Files : HasHook(rc[f]) => Index(Start, rc[f]) < Index(End, rc[f]))
<1>1. HooksInv => \A f \in Files : HasHook(rc[f]) => Index(Start, rc[f]) < Index(End, rc[f])
  BY Cutting DEF HooksInv, HooksTypeOK, FilesPaired, IsCut
<1> QED  BY <1>1, HooksInvariant, PTL
=============================================================================
