------------------------------- MODULE Shims --------------------------------
(***************************************************************************)
(* The files of one shimmed command (internal/wrappers): its copies in the *)
(* directories of the search path, their backups, and the PATH wrapper.    *)
(*                                                                         *)
(* InstallShims renames every copy to a backup next to it and puts the     *)
(* shield in its place; UninstallShims goes the other way; `doctor --fix`  *)
(* runs InstallShims again and then puts a shim beside every backup that   *)
(* has none. One invocation runs at a time, each file operation of it is a *)
(* step, and it may be killed between any two. Meanwhile a package manager *)
(* writes new versions where it finds the shims. The commands of           *)
(* ShimmedCommands share no file, so one of them stands for all. Copies on *)
(* Windows are .exe files: those that end in .cmd or .bat are left out.    *)
(***************************************************************************)
EXTENDS Naturals

CONSTANTS
    Dirs,         \* the directories where copies may be
    NoDir,
    Rank,         \* their place in the shield's search order
    Standard,     \* the directories findBackupBinary knows
    LocalBin,     \* /usr/local/bin, where shims of protected commands go
    Protected,    \* the directories macOS protects
    Linked,       \* where the package's file is a link to a program elsewhere
    Platforms,    \* the systems to consider
    MaxVersion    \* bound on the versions a package manager installs

ASSUME ShimsAssumption ==
    /\ Rank \in [Dirs -> Nat]
    /\ \A d, e \in Dirs : Rank[d] = Rank[e] => d = e
    /\ Standard \subseteq Dirs /\ Protected \subseteq Dirs /\ Linked \subseteq Dirs
    /\ Linked \cap Protected = {}
    /\ LocalBin \in Dirs \ (Protected \cup Linked)
    /\ NoDir \notin Dirs
    /\ Platforms \subseteq {"linux", "darwin", "windows"}
    /\ MaxVersion \in Nat \ {0}

VARIABLES
    platform,
    file,       \* what is at dir/command
    backup,     \* what is at dir/.command.shield-real
    store,      \* the program a linked copy leads to
    wrapper,    \* the path the PATH wrapper runs
    op, pc,     \* the invocation under way and its next step
    todo,       \* the directories it has still to visit
    cur,        \* the one it is at
    failed,     \* whether it reported a failure
    latest,     \* history: the version last installed in each directory
    upgraded,   \* history: where a package wrote over a command with a backup
    dirty,      \* history: where a package wrote during the invocation
    removed     \* history: where the shield removed a program or a link to one

disk    == <<file, backup, store>>
tool    == <<op, pc, todo, cur, failed>>
history == <<latest, upgraded, dirty, removed>>
vars    == <<platform, disk, wrapper, tool, history>>

-----------------------------------------------------------------------------
(* Contents of a path                                                      *)

None   == [kind |-> "none", ver |-> 0]
Bin(v) == [kind |-> "bin", ver |-> v]     \* a program
Ref    == [kind |-> "ref", ver |-> 0]     \* a link to the store of the directory
Sip    == [kind |-> "sip", ver |-> 0]     \* a link to a protected program
Shim   == [kind |-> "shim", ver |-> 0]    \* a link to the shield
Copy   == [kind |-> "copy", ver |-> 0]    \* the bytes of the shield
Torn   == [kind |-> "torn", ver |-> 0]    \* a copy of the shield cut short

Versions == 1..MaxVersion
Contents == {None, Ref, Sip, Shim, Copy, Torn} \cup {Bin(v) : v \in Versions}

\* No directory is protected but on macOS.
Sealed == IF platform = "darwin" THEN Protected ELSE {}

\* os.Stat follows links, and every link of the model leads somewhere.
Exists(d)    == file[d] # None
HasBackup(d) == backup[d] # None
Present      == {d \in Dirs : Exists(d)}

\* isShimmed: a link to the shield, or no link and the size of the shield.
\* A program of exactly the shield's size is left out.
IsShimmed(d) == file[d] \in {Shim, Copy}

\* findSystemBinary, findRealBinary: the copy the search order meets first.
IsFirst(d, S) == d \in S /\ \A e \in S : Rank[d] <= Rank[e]

\* DiagnoseShims, for one copy.
Diagnosis(d) ==
    IF ~Exists(d) THEN "absent"
    ELSE IF IsShimmed(d) THEN "ok"
    ELSE IF HasBackup(d) THEN "not in place" ELSE "not shimmed"

\* FindOrphanedBackups.
Orphans == {d \in Dirs : HasBackup(d) /\ ~IsShimmed(d)}

\* GetBackupPath of the shim in directory d: called by path it looks next to
\* itself first; called by name argv[0] has no directory and it takes the first
\* backup of its search order.
BackupFor(d, byName) ==
    IF HasBackup(d) /\ ~byName THEN {d}
    ELSE {e \in Dirs : IsFirst(e, {x \in Dirs : HasBackup(x)})}

Package(d, v) == IF d \in Linked THEN Ref ELSE Bin(v)

\* What runs when content c of directory d is executed.
Program(d, c) == IF c = Ref THEN store[d] ELSE c
IsProgram(d, c) == Program(d, c).kind \in {"bin", "sip"}

-----------------------------------------------------------------------------
TypeOK ==
    /\ platform \in Platforms
    /\ file \in [Dirs -> Contents]
    /\ backup \in [Dirs -> Contents]
    /\ store \in [Dirs -> Contents]
    /\ wrapper \in [dir : Dirs \cup {NoDir}, backup : BOOLEAN]
    /\ op \in {"idle", "install", "uninstall", "doctor"}
    /\ pc \in {"idle", "next", "place", "placeNew", "clear", "link", "placeSip", "wrap",
               "orphans", "repair", "restore", "unwrap", "done"}
    /\ todo \subseteq Dirs
    /\ cur \in Dirs \cup {NoDir}
    /\ failed \in BOOLEAN
    /\ latest \in [Dirs -> 0..MaxVersion]
    /\ upgraded \subseteq Dirs /\ dirty \subseteq Dirs /\ removed \subseteq Dirs

\* Any set of directories has a copy of the command; there is no shim yet.
Init ==
    /\ platform \in Platforms
    /\ latest \in [Dirs -> {0, 1}]
    /\ file = [d \in Dirs |-> IF latest[d] = 0 THEN None ELSE Package(d, 1)]
    /\ backup = [d \in Dirs |-> None]
    /\ store = [d \in Dirs |-> IF d \in Linked /\ latest[d] = 1 THEN Bin(1) ELSE None]
    /\ wrapper = [dir |-> NoDir, backup |-> FALSE]
    /\ op = "idle" /\ pc = "idle" /\ todo = {} /\ cur = NoDir /\ failed = FALSE
    /\ upgraded = {} /\ dirty = {} /\ removed = {}

-----------------------------------------------------------------------------
(* Steps of an invocation                                                  *)

Goto(l) == pc' = l /\ UNCHANGED op
\* Back to the list after the current directory.
Visited(bad) ==
    /\ Goto("next")
    /\ todo' = todo \ {cur}
    /\ cur' = NoDir
    /\ failed' = (failed \/ bad)

Put(d, c)  == file' = [file EXCEPT ![d] = c]
Save(d, c) == backup' = [backup EXCEPT ![d] = c]

\* A command line: install takes the list of copies at its start, doctor
\* installs if a copy lacks its shim and goes on to the orphans.
Start(o) ==
    /\ op = "idle"
    /\ op' = o
    /\ pc' = IF o = "doctor" /\ \A d \in Present : IsShimmed(d) THEN "orphans" ELSE "next"
    /\ todo' = IF o = "uninstall" THEN {} ELSE Present
    /\ cur' = NoDir /\ failed' = FALSE /\ dirty' = {}
    /\ UNCHANGED <<platform, disk, wrapper, latest, upgraded, removed>>

\* InstallShims visits the next copy of its list.
Visit ==
    /\ op \in {"install", "doctor"} /\ pc = "next" /\ cur = NoDir
    /\ \E d \in todo : IsFirst(d, todo) /\ cur' = d
    /\ UNCHANGED <<platform, disk, wrapper, op, pc, todo, failed, history>>

Visiting == op \in {"install", "doctor"} /\ pc = "next" /\ cur # NoDir

\* Nothing to do: the copy is a shim.
SkipShimmed ==
    /\ Visiting /\ IsShimmed(cur)
    /\ Visited(FALSE)
    /\ UNCHANGED <<platform, disk, wrapper, history>>

\* Mutant: the backup is taken for a sign that all is done.
KeepAsIs ==
    /\ Visiting /\ ~IsShimmed(cur) /\ HasBackup(cur)
    /\ Visited(FALSE)
    /\ UNCHANGED <<platform, disk, wrapper, history>>
\* There is a backup: only the shim is missing.
KeepBackup ==
    /\ Visiting /\ ~IsShimmed(cur) /\ HasBackup(cur)
    /\ Goto("place")
    /\ UNCHANGED <<platform, disk, wrapper, todo, cur, failed, history>>

\* Mutant: an older backup is overwritten.
MoveOver ==
    /\ Visiting /\ ~IsShimmed(cur)
    /\ Exists(cur) /\ cur \notin Sealed
    /\ Save(cur, file[cur]) /\ Put(cur, None)
    /\ Goto("placeNew")
    /\ UNCHANGED <<platform, store, wrapper, todo, cur, failed, history>>
\* The copy becomes the backup.
MoveAway ==
    /\ Visiting /\ ~IsShimmed(cur) /\ ~HasBackup(cur)
    /\ Exists(cur) /\ cur \notin Sealed
    /\ Save(cur, file[cur]) /\ Put(cur, None)
    /\ Goto("placeNew")
    /\ UNCHANGED <<platform, store, wrapper, todo, cur, failed, history>>

\* The rename fails: for want of a privilege, or because macOS forbids it.
MoveFails ==
    /\ Visiting /\ ~IsShimmed(cur) /\ ~HasBackup(cur)
    /\ \/ cur \in Sealed /\ Goto("clear") /\ UNCHANGED <<todo, cur, failed>>
       \/ cur \notin Sealed /\ Visited(TRUE)
    /\ UNCHANGED <<platform, disk, wrapper, history>>

\* placeShim: a link if nothing is there, else the shield's bytes written to
\* whatever is, through a link to the program it leads to.
Place(d) ==
    \/ ~Exists(d) /\ Put(d, Shim) /\ UNCHANGED store
    \/ file[d] # Ref /\ Put(d, Copy) /\ UNCHANGED store
    \/ file[d] = Ref /\ store' = [store EXCEPT ![d] = Copy] /\ UNCHANGED file

\* placeShim fails before or in the middle of writing.
PlaceBreaks(d) ==
    \/ UNCHANGED <<file, store>>
    \/ file[d] # Ref /\ Put(d, Torn) /\ UNCHANGED store
    \/ file[d] = Ref /\ store' = [store EXCEPT ![d] = Torn] /\ UNCHANGED file

PlaceShim ==
    /\ pc \in {"place", "placeNew"}
    /\ Place(cur)
    /\ Visited(FALSE)
    /\ UNCHANGED <<platform, backup, wrapper, history>>

\* A shim that cannot be placed; a copy moved away a moment ago comes back.
PlaceShimFails ==
    /\ \/ pc = "place" /\ PlaceBreaks(cur) /\ UNCHANGED backup
       \/ pc = "placeNew" /\ Put(cur, backup[cur]) /\ Save(cur, None) /\ UNCHANGED store
    /\ Visited(TRUE)
    /\ UNCHANGED <<platform, wrapper, history>>

\* installSIPShim: make room in LocalBin, whatever was there, ...
Clear ==
    /\ pc = "clear"
    /\ Put(LocalBin, None) /\ Save(LocalBin, None)
    /\ removed' = removed \cup {LocalBin}
    /\ Goto("link")
    /\ UNCHANGED <<platform, store, wrapper, todo, cur, failed, latest, upgraded, dirty>>

\* ... link a backup to the protected program ...
LinkBackup ==
    /\ pc = "link"
    /\ \/ /\ Save(LocalBin, Sip) /\ removed' = removed \cup {LocalBin}
          /\ Goto("placeSip") /\ UNCHANGED <<todo, cur, failed>>
       \/ Visited(TRUE) /\ UNCHANGED <<backup, removed>>
    /\ UNCHANGED <<platform, file, store, wrapper, latest, upgraded, dirty>>

\* ... and put the shim beside it.
PlaceSip ==
    /\ pc = "placeSip"
    /\ \/ Place(LocalBin) /\ Visited(FALSE) /\ UNCHANGED backup
       \/ PlaceBreaks(LocalBin) /\ Save(LocalBin, None) /\ Visited(TRUE)
    /\ UNCHANGED <<platform, wrapper, history>>

\* Mutant: doctor ends with the install.
ListedDone ==
    /\ op \in {"install", "doctor"} /\ pc = "next" /\ cur = NoDir /\ todo = {}
    /\ Goto(IF platform = "windows" THEN "wrap" ELSE "done")
    /\ UNCHANGED <<platform, disk, wrapper, todo, cur, failed, history>>
\* The list is done: doctor looks for orphans, install ends.
Listed ==
    /\ op \in {"install", "doctor"} /\ pc = "next" /\ cur = NoDir /\ todo = {}
    /\ Goto(IF op = "doctor" THEN "orphans"
            ELSE IF platform = "windows" THEN "wrap" ELSE "done")
    /\ UNCHANGED <<platform, disk, wrapper, todo, cur, failed, history>>

\* Mutant: the wrapper runs the copy, shim or not.
WrapCopy ==
    /\ pc = "wrap"
    /\ IF Present = {} THEN UNCHANGED wrapper
       ELSE \E d \in Present :
                /\ IsFirst(d, Present)
                /\ wrapper' = [dir |-> d, backup |-> FALSE]
    /\ Goto("done")
    /\ UNCHANGED <<platform, disk, todo, cur, failed, history>>
\* createWrapper: the wrapper runs the first copy found, or its backup if that
\* copy is a shim; with no copy the old wrapper stays.
Wrap ==
    /\ pc = "wrap"
    /\ IF Present = {} THEN UNCHANGED wrapper
       ELSE \E d \in Present :
                /\ IsFirst(d, Present)
                /\ wrapper' = [dir |-> d, backup |-> IsShimmed(d) /\ HasBackup(d)]
    /\ Goto("done")
    /\ UNCHANGED <<platform, disk, todo, cur, failed, history>>

\* doctor --fix: find the orphans, remove whatever is in the place of each
\* shim (RepairOrphan), and place it.
FindOrphans ==
    /\ pc = "orphans"
    /\ todo' = Orphans
    /\ Goto("repair")
    /\ UNCHANGED <<platform, disk, wrapper, cur, failed, history>>

RepairOrphan ==
    /\ pc = "repair" /\ cur = NoDir
    /\ \E d \in todo : IsFirst(d, todo) /\ cur' = d /\ Put(d, None)
    /\ UNCHANGED <<platform, backup, store, wrapper, op, pc, todo, failed, history>>

PlaceOrphan ==
    /\ pc = "repair" /\ cur # NoDir
    /\ \/ Place(cur) /\ UNCHANGED failed
       \/ PlaceBreaks(cur) /\ failed' = TRUE
    /\ todo' = todo \ {cur} /\ cur' = NoDir
    /\ UNCHANGED <<platform, backup, wrapper, op, pc, history>>

Repaired ==
    /\ pc = "repair" /\ cur = NoDir /\ todo = {}
    /\ Goto("done")
    /\ UNCHANGED <<platform, disk, wrapper, todo, cur, failed, history>>

-----------------------------------------------------------------------------
(* UninstallShims: one copy, the first one found                           *)

\* Mutant: a command whose shim is gone is not looked for.
CopiesOnly == Present
\* findSystemBinary, or else findBackupBinary; what the latter finds on Windows
\* it returns without the .exe, and UninstallShims then looks for a backup
\* without one and gives up.
Candidates ==
    IF Present # {} THEN Present
    ELSE {d \in Standard : platform # "windows" /\ HasBackup(d)}

\* No copy and no backup, or a first copy that has none.
NothingToRestore ==
    /\ op = "uninstall" /\ pc = "next"
    /\ \A d \in Candidates : IsFirst(d, Candidates) => ~HasBackup(d)
    /\ Goto("unwrap")
    /\ UNCHANGED <<platform, disk, wrapper, todo, cur, failed, history>>

\* Mutant: the backup alone goes.
RemoveBackup ==
    /\ op = "uninstall" /\ pc = "next"
    /\ \E d \in Candidates :
          /\ IsFirst(d, Candidates) /\ backup[d] \in {Ref, Sip}
          /\ Save(d, None)
    /\ Goto("unwrap")
    /\ UNCHANGED <<platform, file, store, wrapper, todo, cur, failed, history>>
\* A backup that is a link is taken for the one of a protected program: both
\* files go.
RemoveBoth ==
    /\ op = "uninstall" /\ pc = "next"
    /\ \E d \in Candidates :
          /\ IsFirst(d, Candidates) /\ backup[d] \in {Ref, Sip}
          /\ Put(d, None) /\ Save(d, None)
          /\ removed' = removed \cup {d}
    /\ Goto("unwrap")
    /\ UNCHANGED <<platform, store, wrapper, todo, cur, failed, latest, upgraded, dirty>>

\* Whatever is in the place of the shim goes ...
RemoveShim ==
    /\ op = "uninstall" /\ pc = "next"
    /\ \E d \in Candidates :
          /\ IsFirst(d, Candidates) /\ HasBackup(d) /\ backup[d] \notin {Ref, Sip}
          /\ Put(d, None) /\ cur' = d
    /\ Goto("restore")
    /\ UNCHANGED <<platform, backup, store, wrapper, todo, failed, history>>

\* ... and the backup comes back, unless the rename fails.
Restore ==
    /\ pc = "restore"
    /\ \/ Put(cur, backup[cur]) /\ Save(cur, None) /\ UNCHANGED failed
       \/ failed' = TRUE /\ UNCHANGED <<file, backup>>
    /\ cur' = NoDir
    /\ Goto("unwrap")
    /\ UNCHANGED <<platform, store, wrapper, todo, history>>

\* wrappers.Uninstall.
Unwrap ==
    /\ pc = "unwrap"
    /\ wrapper' = [dir |-> NoDir, backup |-> FALSE]
    /\ Goto("done")
    /\ UNCHANGED <<platform, disk, todo, cur, failed, history>>

-----------------------------------------------------------------------------
(* The end of an invocation, and the world around it                       *)

End ==
    /\ pc = "done"
    /\ op' = "idle" /\ pc' = "idle" /\ todo' = {} /\ cur' = NoDir
    /\ UNCHANGED <<platform, disk, wrapper, failed, history>>

\* The process is killed; a write under way may be cut short.
Killed ==
    /\ op # "idle" /\ pc # "done"
    /\ op' = "idle" /\ pc' = "idle" /\ todo' = {} /\ cur' = NoDir
    /\ IF pc \in {"place", "placeNew"} \/ (pc = "repair" /\ cur # NoDir)
       THEN PlaceBreaks(cur)
       ELSE IF pc = "placeSip" THEN PlaceBreaks(LocalBin) ELSE UNCHANGED <<file, store>>
    /\ UNCHANGED <<platform, backup, wrapper, failed, history>>

\* A package manager installs or upgrades the command: it renames a new file
\* into place. The system's own programs are not touched.
PackagePut(d) ==
    /\ d \notin Sealed /\ latest[d] < MaxVersion
    /\ latest' = [latest EXCEPT ![d] = @ + 1]
    /\ Put(d, Package(d, latest'[d]))
    /\ store' = IF d \in Linked THEN [store EXCEPT ![d] = Bin(latest'[d])] ELSE store
    /\ upgraded' = IF HasBackup(d) THEN upgraded \cup {d} ELSE upgraded
    /\ dirty' = IF op = "idle" THEN dirty ELSE dirty \cup {d}
    /\ removed' = IF HasBackup(d) THEN removed ELSE removed \ {d}
    /\ UNCHANGED <<platform, backup, wrapper, tool>>

Tool ==
    \/ Visit \/ SkipShimmed \/ KeepBackup \/ MoveAway \/ MoveFails
    \/ PlaceShim \/ PlaceShimFails \/ Clear \/ LinkBackup \/ PlaceSip
    \/ Listed \/ Wrap \/ FindOrphans \/ RepairOrphan \/ PlaceOrphan \/ Repaired
    \/ NothingToRestore \/ RemoveBoth \/ RemoveShim \/ Restore \/ Unwrap
    \/ End \/ Killed

Next ==
    \/ \E o \in {"install", "uninstall", "doctor"} : Start(o)
    \/ Tool
    \/ \E d \in Dirs : PackagePut(d)

Spec == Init /\ [][Next]_vars

-----------------------------------------------------------------------------
(* Properties                                                              *)

\* No sequence of commands, kills and failures loses the program: the version
\* last installed in a directory is in its place, in its backup or where its
\* link leads, and the link is still there. The exceptions are all of them the
\* code's: a package that wrote over a shim (then an older version survives, or
\* a linked program is overwritten through its link); the user's own program
\* and backup in LocalBin, which installSIPShim removes; and the link and the
\* backup of a linked command, which uninstall takes for a macOS pair and
\* removes although it "restores original binaries" (shim.go:146).
ProgramKept ==
    \A d \in Dirs : latest[d] > 0 =>
        /\ d \notin Linked \cup upgraded \cup removed =>
              Bin(latest[d]) \in {file[d], backup[d]}
        /\ d \notin Linked \cup removed =>
              \E v \in Versions : Bin(v) \in {file[d], backup[d]}
        /\ d \in Linked \ upgraded => store[d] = Bin(latest[d])
        /\ d \in Linked \ removed => Ref \in {file[d], backup[d]}

\* installSIPShim does not put its shims in d.
Spared(d) == ~(d = LocalBin /\ platform = "darwin")

\* A command that has been replaced by the shield finds a program to run once
\* approved (GetBackupPath), whether it is called by its path or by its name:
\* never nothing, never the shield itself, which would ask again, and never a
\* half written file, but for what a failed installSIPShim left in LocalBin and
\* a linked command that was upgraded.
ShimRuns ==
    \A d \in Dirs, byName \in BOOLEAN : IsShimmed(d) =>
        \E e \in BackupFor(d, byName) :
            \/ IsProgram(e, backup[e])
            \/ e \in Linked \cap upgraded
            \/ ~Spared(e) /\ backup[e] = Torn

\* An install that reports no failure has shimmed every copy it can, so that no
\* copy on the search path bypasses the shield; the exceptions are the copies
\* macOS protects, those a package wrote meanwhile, and linked ones that had a
\* backup already.
InstallCovers ==
    pc = "done" /\ op = "install" /\ ~failed =>
        \A d \in Present \ (Sealed \cup dirty) :
            IsShimmed(d) \/ (d \in Linked /\ HasBackup(d))

\* After `doctor --fix` without a failure `doctor` finds nothing more to fix,
\* whatever kills and upgrades came before; macOS's own copies it reports for
\* ever.
DoctorFixes ==
    pc = "done" /\ op = "doctor" /\ ~failed =>
        \A d \in Dirs \ (Sealed \cup dirty) :
            Diagnosis(d) \in {"ok", "absent"} /\ d \notin Orphans

\* A command that had a single plain copy in a standard directory is a program
\* again after any uninstall without a failure, whatever happened before: what
\* README.md:244 ("restores all original binaries") comes down to. It does not
\* hold of further copies, of linked ones, under macOS, or on Windows when a
\* kill has left a backup with nothing in front of it (findBackupBinary).
SoleCopyRestored ==
    pc = "done" /\ op = "uninstall" /\ ~failed /\ platform # "darwin" =>
        \A d \in Standard \ Linked :
            latest[d] > 0 /\ (\A e \in Dirs \ {d} : latest[e] = 0) =>
                file[d].kind = "bin" \/ (platform = "windows" /\ ~Exists(d))

\* Right after an install without a failure the PATH wrapper runs a program and
\* no shim, "to avoid double-enforcement when both a shim and a wrapper exist"
\* (pathwrap.go:164), unless there was no copy to write a wrapper for.
WrapperAsksOnce ==
    pc = "done" /\ op = "install" /\ ~failed /\ Present \ dirty # {} =>
        LET d == wrapper.dir IN
        d \in Dirs \ (dirty \cup (Linked \cap upgraded)) =>
            IsProgram(d, IF wrapper.backup THEN backup[d] ELSE file[d])

-----------------------------------------------------------------------------
(* What makes the properties inductive                                     *)

\* Where an invocation is: which one has which steps, and at which directory.
Listing == op \in {"install", "doctor"} /\
           pc \in {"next", "place", "placeNew", "clear", "link", "placeSip"}
StepsInOrder ==
    /\ pc = "idle" <=> op = "idle"
    /\ pc \in {"place", "placeNew", "clear", "link", "placeSip"} =>
          op \in {"install", "doctor"} /\ cur # NoDir
    /\ pc \in {"clear", "link", "placeSip"} => platform = "darwin" /\ cur \in Sealed
    /\ pc = "wrap" => op = "install" /\ platform = "windows"
    /\ pc \in {"orphans", "repair"} => op = "doctor"
    /\ pc \in {"restore", "unwrap"} => op = "uninstall"
    /\ pc = "restore" => cur # NoDir
    /\ pc \in {"idle", "orphans", "wrap", "unwrap", "done"} \/ (pc = "next" /\ op = "uninstall") =>
          cur = NoDir
    /\ cur # NoDir /\ op \in {"install", "doctor"} => cur \in todo
    /\ pc = "wrap" \/ (pc = "done" /\ op \in {"install", "doctor"}) => todo = {}

\* A step that puts a shim in place, or the backup back, has a backup to go by.
BackedSteps ==
    /\ pc \in {"place", "placeNew", "restore"} => HasBackup(cur)
    /\ pc = "placeNew" => backup[cur] # Sip
    /\ pc = "restore" => backup[cur] \notin {Ref, Sip}
    /\ pc = "repair" => \A d \in todo : HasBackup(d)
    /\ pc \in {"link", "placeSip"} => ~IsShimmed(LocalBin)
    /\ pc = "placeSip" => backup[LocalBin] = Sip

\* c is a version of the program in d: the last one, if no package wrote over a
\* shim there.
VersionOf(d, c) == \E v \in Versions : c = Bin(v) /\ (d \notin upgraded => v = latest[d])

\* A plain copy is in its backup, if it has one, or else in its place.
PlainKept ==
    \A d \in Dirs \ Linked :
        /\ file[d] \notin {Ref, Sip} /\ backup[d] # Ref
        /\ d \notin removed =>
              /\ HasBackup(d) => latest[d] > 0 /\ VersionOf(d, backup[d])
              /\ ~HasBackup(d) =>
                    IF latest[d] = 0 THEN file[d] = None ELSE VersionOf(d, file[d])

\* A linked copy is where its link leads, unless a package put the link back in
\* front of the backup.
LinkedKept ==
    \A d \in Linked :
        /\ backup[d] \in {None, Ref} /\ file[d] \in {None, Ref, Shim, Copy, Torn}
        /\ file[d] \in {Shim, Copy, Torn} => HasBackup(d)
        /\ HasBackup(d) \/ Exists(d) => latest[d] > 0
        /\ HasBackup(d) /\ file[d] = Ref => d \in upgraded
        /\ latest[d] > 0 /\ d \notin removed => HasBackup(d) \/ Exists(d)
        /\ d \notin upgraded /\ latest[d] > 0 => store[d] = Bin(latest[d])

\* Behind every shim is a backup; the one in LocalBin is a program, or what a
\* failed installSIPShim had left there. Nothing of macOS is ever moved, and
\* nothing removed but links and what was in its LocalBin.
ShimsBacked ==
    /\ \A d \in removed : d \in Linked \/ ~Spared(d)
    /\ \A d \in Dirs : IsShimmed(d) => HasBackup(d)
    /\ \A d \in Sealed : ~HasBackup(d)
    /\ ~Spared(LocalBin) => backup[LocalBin] \in {None, Sip, Torn} \cup {Bin(v) : v \in Versions}

\* What an install or a doctor without a failure has visited is a shim, or a link
\* in front of a backup.
Covered(d) == IsShimmed(d) \/ (d \in Linked /\ file[d] = Ref /\ HasBackup(d))
VisitedCovered ==
    ~failed /\ (Listing \/ pc \in {"wrap", "orphans"} \/ (pc = "done" /\ op = "install")) =>
        \A d \in Present \ (Sealed \cup dirty) : Covered(d) \/ (pc # "orphans" /\ d \in todo)

\* What the repair of a doctor without a failure has visited is as it should be.
Fixed(d) == IsShimmed(d) \/ (~Exists(d) /\ ~HasBackup(d))
RepairedFixed ==
    /\ ~failed /\ (pc = "repair" \/ (pc = "done" /\ op = "doctor")) =>
          \A d \in Dirs \ (Sealed \cup dirty) : Fixed(d) \/ d \in todo
    /\ pc = "repair" /\ cur # NoDir /\ cur \notin dirty => file[cur] = None

\* Only Windows has a wrapper.
WrapperKnown == platform # "windows" => wrapper.dir = NoDir

\* The sole copy of a command is back once its uninstall is past the restoring.
Sole(d) == latest[d] > 0 /\ \A e \in Dirs \ {d} : latest[e] = 0
SoleBack ==
    op = "uninstall" /\ pc \in {"unwrap", "done"} /\ ~failed /\ platform # "darwin" =>
        \A d \in Standard \ Linked : Sole(d) =>
            file[d].kind = "bin" \/ (platform = "windows" /\ ~Exists(d))

ShimsInv ==
    /\ TypeOK /\ StepsInOrder /\ BackedSteps
    /\ PlainKept /\ LinkedKept /\ ShimsBacked
    /\ VisitedCovered /\ RepairedFixed
    /\ WrapperKnown /\ WrapperAsksOnce
    /\ SoleBack
=============================================================================
