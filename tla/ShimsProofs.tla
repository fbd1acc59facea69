---------------------------- MODULE ShimsProofs -----------------------------
(***************************************************************************)
(* Safety of the shims and of the PATH wrapper for any directories, search *)
(* order, links and protected directories, any number of package versions, *)
(* and any sequence of invocations, failures, kills and upgrades.          *)
(***************************************************************************)
EXTENDS Shims, FiniteSetTheorems, TLAPS

-----------------------------------------------------------------------------
(* Contents and versions                                                   *)

\* No two kinds of content are equal, and a program is only itself.
LEMMA Distinct ==
    /\ None \notin {Ref, Sip, Shim, Copy, Torn}
    /\ Ref \notin {Sip, Shim, Copy, Torn}
    /\ Sip \notin {Shim, Copy, Torn}
    /\ Shim \notin {Copy, Torn}
    /\ Copy # Torn
    /\ \A v \in Versions : Bin(v) \notin {None, Ref, Sip, Shim, Copy, Torn}
    /\ \A v, w \in Versions : Bin(v) = Bin(w) => v = w
    /\ \A v \in Versions : Bin(v).kind = "bin"
    /\ Sip.kind = "sip"
BY DEF None, Ref, Sip, Shim, Copy, Torn, Bin

LEMMA AllContents ==
    /\ {None, Ref, Sip, Shim, Copy, Torn} \subseteq Contents
    /\ \A v \in Versions : Bin(v) \in Contents
BY DEF Contents

LEMMA Numbers == \A n \in 0..MaxVersion : n > 0 <=> n \in Versions
BY ShimsAssumption DEF Versions

\* Only what macOS seals is out of reach, and LocalBin is not sealed.
LEMMA SealedDirs ==
    /\ Sealed \subseteq Dirs /\ Sealed \cap Linked = {}
    /\ LocalBin \in Dirs \ (Sealed \cup Linked)
    /\ Sealed # {} => platform = "darwin"
BY ShimsAssumption DEF Sealed

\* A nonempty set of directories has one the search order meets first.
LEMMA FirstExists ==
    ASSUME NEW S \in SUBSET Dirs, S # {}
    PROVE  \E d \in S : IsFirst(d, S)
<1> DEFINE Below(d) == 1..Rank[d]
           T == {Below(d) : d \in S}
<1>1. \A d \in S : Rank[d] \in Nat /\ IsFiniteSet(Below(d)) /\ Below(d) \in SUBSET Nat
  <2> TAKE d \in S
  <2>1. Rank[d] \in Nat  BY ShimsAssumption
  <2> QED  BY <2>1, FS_Interval
<1>2. T \subseteq FiniteSubsetsOf(Nat) /\ T # {}
  BY <1>1 DEF FiniteSubsetsOf
<1>3. IsWellFoundedOn(StrictSubsetOrdering(Nat), FiniteSubsetsOf(Nat))
  BY FS_StrictSubsetOrderingWellFounded
<1>4. PICK x \in T : \A y \in T : <<y, x>> \notin StrictSubsetOrdering(Nat)
  <2> HIDE DEF T
  <2> QED  BY <1>2, <1>3, WFMin
<1>5. PICK d \in S : x = Below(d)
  OBVIOUS
<1>6. \A e \in S : Rank[d] <= Rank[e]
  <2> SUFFICES ASSUME NEW e \in S, Rank[e] < Rank[d]
               PROVE  FALSE
    BY <1>1
  <2>1. Below(e) \in T /\ Below(e) \subseteq Below(d) /\ Rank[d] \in Below(d) \ Below(e)
    BY <1>1
  <2>2. <<Below(e), Below(d)>> \in StrictSubsetOrdering(Nat)
    <3> HIDE DEF Below
    <3> QED  BY <1>1, <2>1 DEF StrictSubsetOrdering
  <2> QED  BY <1>4, <1>5, <2>1, <2>2
<1> QED  BY <1>6 DEF IsFirst

-----------------------------------------------------------------------------
(* Types                                                                   *)

LEMMA PlaceType ==
    ASSUME TypeOK, NEW d \in Dirs, Place(d) \/ PlaceBreaks(d)
    PROVE  file' \in [Dirs -> Contents] /\ store' \in [Dirs -> Contents]
BY AllContents DEF TypeOK, Place, PlaceBreaks, Put

\* The steps that leave the files alone.
Quiet == UNCHANGED <<platform, disk, latest, upgraded, removed>>

LEMMA QuietOrNot ==
    Next => \/ Quiet
            \/ MoveAway \/ PlaceShim \/ PlaceShimFails \/ Clear \/ LinkBackup \/ PlaceSip
            \/ RepairOrphan \/ PlaceOrphan \/ RemoveBoth \/ RemoveShim \/ Restore \/ Killed
            \/ \E d \in Dirs : PackagePut(d)
BY DEF Next, Tool, Quiet, Start, Visit, SkipShimmed, KeepBackup, MoveFails, Listed, Wrap,
       FindOrphans, Repaired, NothingToRestore, Unwrap, End, history

\* The directory of each step that places a shim.
LEMMA AtDir ==
    ASSUME TypeOK, StepsInOrder, BackedSteps
    PROVE  /\ pc \in {"place", "placeNew", "restore"} => cur \in Dirs /\ HasBackup(cur)
           /\ pc = "repair" /\ cur # NoDir => cur \in Dirs /\ cur \in todo /\ HasBackup(cur)
           /\ pc = "placeSip" => HasBackup(LocalBin) /\ ~IsShimmed(LocalBin)
           /\ pc \in {"clear", "link", "placeSip"} => platform = "darwin" /\ ~Spared(LocalBin)
BY Distinct DEF TypeOK, StepsInOrder, BackedSteps, HasBackup, Spared

LEMMA DiskTypes ==
    ASSUME TypeOK, StepsInOrder, BackedSteps, Next
    PROVE  /\ file' \in [Dirs -> Contents]
           /\ backup' \in [Dirs -> Contents]
           /\ store' \in [Dirs -> Contents]
           /\ latest' \in [Dirs -> 0..MaxVersion]
           /\ upgraded' \subseteq Dirs /\ removed' \subseteq Dirs
           /\ platform' = platform
<1>1. CASE Quiet
  BY <1>1 DEF TypeOK, Quiet, disk
<1>2. CASE MoveAway
  BY <1>2, AllContents DEF TypeOK, MoveAway, Put, Save, history
<1>3. CASE PlaceShim
  BY <1>3, AtDir, PlaceType DEF TypeOK, PlaceShim, history
<1>4. CASE PlaceShimFails
  BY <1>4, AtDir, PlaceType, AllContents DEF TypeOK, PlaceShimFails, Put, Save, history
<1>5. CASE Clear
  BY <1>5, AllContents, SealedDirs DEF TypeOK, Clear, Put, Save
<1>6. CASE LinkBackup
  <2>1. /\ UNCHANGED <<platform, file, store, latest, upgraded>>
        /\ \/ Save(LocalBin, Sip) /\ removed' = removed \cup {LocalBin}
           \/ UNCHANGED <<backup, removed>>
    BY <1>6 DEF LinkBackup
  <2>2. backup' \in [Dirs -> Contents]
    BY <2>1, AllContents DEF TypeOK, Save
  <2>3. removed' \subseteq Dirs
    BY <2>1, SealedDirs DEF TypeOK
  <2> QED  BY <2>1, <2>2, <2>3 DEF TypeOK
<1>7. CASE PlaceSip
  BY <1>7, SealedDirs, PlaceType, AllContents DEF TypeOK, PlaceSip, Save, history
<1>8. CASE RepairOrphan
  BY <1>8, AllContents DEF TypeOK, RepairOrphan, Put, history
<1>9. CASE PlaceOrphan
  BY <1>9, AtDir, PlaceType DEF TypeOK, PlaceOrphan, history
<1>10. CASE RemoveBoth
  BY <1>10, AllContents, ShimsAssumption DEF TypeOK, RemoveBoth, Put, Save, Candidates, Present
<1>11. CASE RemoveShim
  BY <1>11, AllContents DEF TypeOK, RemoveShim, Put, history
<1>12. CASE Restore
  BY <1>12, AllContents DEF TypeOK, Restore, Put, Save, history
<1>13. CASE Killed
  BY <1>13, AtDir, SealedDirs, PlaceType DEF TypeOK, Killed, history
<1>14. CASE \E d \in Dirs : PackagePut(d)
  <2>1. PICK d \in Dirs : PackagePut(d)
    BY <1>14
  <2>2. latest[d] + 1 \in Versions /\ latest'[d] = latest[d] + 1
    BY <2>1, ShimsAssumption DEF TypeOK, PackagePut, Versions
  <2>3. Package(d, latest'[d]) \in Contents /\ Bin(latest'[d]) \in Contents
    BY <2>2, AllContents DEF Package
  <2> QED  BY <2>1, <2>2, <2>3 DEF TypeOK, PackagePut, Put, Versions
<1> QED  BY <1>1, <1>2, <1>3, <1>4, <1>5, <1>6, <1>7, <1>8, <1>9, <1>10, <1>11, <1>12,
            <1>13, <1>14, QuietOrNot

-----------------------------------------------------------------------------
(* The program is kept                                                     *)

\* Where the program of each directory may be.
DiskInv == PlainKept /\ LinkedKept /\ ShimsBacked

\* A shim that is placed, or left half written, beside a backup harms nothing.
LEMMA PlaceKeeps ==
    ASSUME TypeOK, DiskInv, NEW d \in Dirs, HasBackup(d),
           Place(d) \/ PlaceBreaks(d),
           UNCHANGED <<platform, backup, latest, upgraded, removed>>
    PROVE  DiskInv'
<1>1. /\ \A e \in Dirs \ {d} : file'[e] = file[e] /\ store'[e] = store[e]
      /\ file'[d] # Ref => store'[d] = store[d]
      /\ file[d] = Ref => file'[d] = Ref
      /\ file[d] # Ref => file'[d] \in {file[d], Shim, Copy, Torn}
  BY Distinct DEF TypeOK, Place, PlaceBreaks, Put, Exists
<1>2. PlainKept'
  BY <1>1, Distinct DEF DiskInv, PlainKept, Spared, HasBackup, VersionOf
<1>3. LinkedKept'
  BY <1>1, Distinct, ShimsAssumption DEF DiskInv, LinkedKept, HasBackup, Exists
<1>4. ShimsBacked'
  BY <1>1, Distinct, ShimsAssumption DEF DiskInv, ShimsBacked, IsShimmed, Sealed, Spared, HasBackup
<1> QED  BY <1>2, <1>3, <1>4 DEF DiskInv

\* A copy and its backup change places, or both go.
LEMMA MoveAwayKeeps ==
    ASSUME TypeOK, DiskInv, MoveAway, cur \in Dirs
    PROVE  DiskInv'
<1>0. \A e \in Dirs : latest[e] \in Nat
  BY DEF TypeOK
<1>1. /\ ~IsShimmed(cur) /\ ~HasBackup(cur) /\ Exists(cur) /\ cur \notin Sealed
      /\ \A e \in Dirs \ {cur} : file'[e] = file[e] /\ backup'[e] = backup[e]
      /\ backup'[cur] = file[cur] /\ file'[cur] = None
      /\ UNCHANGED <<platform, store, latest, upgraded, removed>>
  BY DEF TypeOK, MoveAway, Put, Save, history
<1>2. PlainKept'
  BY <1>1, <1>0, Distinct DEF DiskInv, PlainKept, Spared, HasBackup, Exists, VersionOf
<1>3. LinkedKept'
  BY <1>1, Distinct, ShimsAssumption DEF DiskInv, LinkedKept, HasBackup, Exists, IsShimmed
<1>4. ShimsBacked'
  BY <1>1, Distinct, ShimsAssumption DEF DiskInv, ShimsBacked, PlainKept, LinkedKept,
     IsShimmed, Sealed, Spared, HasBackup, TypeOK, Contents
<1> QED  BY <1>2, <1>3, <1>4 DEF DiskInv

LEMMA BackInPlace ==
    ASSUME TypeOK, DiskInv, NEW d \in Dirs, HasBackup(d), backup[d] # Sip,
           Put(d, backup[d]), Save(d, None),
           UNCHANGED <<platform, store, latest, upgraded, removed>>
    PROVE  DiskInv'
<1>1. /\ \A e \in Dirs \ {d} : file'[e] = file[e] /\ backup'[e] = backup[e]
      /\ file'[d] = backup[d] /\ backup'[d] = None
  BY DEF TypeOK, Put, Save
<1>2. PlainKept'
  BY <1>1, Distinct DEF DiskInv, PlainKept, Spared, HasBackup, VersionOf
<1>3. LinkedKept'
  BY <1>1, Distinct, ShimsAssumption DEF DiskInv, LinkedKept, HasBackup, Exists
<1>4. d \notin Linked /\ Spared(d) => \E v \in Versions : backup[d] = Bin(v)
  BY DEF DiskInv, PlainKept, ShimsBacked, VersionOf
<1>5. ShimsBacked'
  BY <1>1, <1>4, Distinct, ShimsAssumption DEF DiskInv, ShimsBacked, LinkedKept, IsShimmed,
     Sealed, Spared, HasBackup
<1> QED  BY <1>2, <1>3, <1>5 DEF DiskInv

\* The two files of a directory go: in LocalBin under macOS, or where the
\* command is a link.
LEMMA BothGone ==
    ASSUME TypeOK, DiskInv, NEW d \in Dirs, d \in Linked \/ ~Spared(d),
           Put(d, None), Save(d, None),
           removed' = removed \cup {d},
           UNCHANGED <<platform, store, latest, upgraded>>
    PROVE  DiskInv'
<1>1. /\ \A e \in Dirs \ {d} : file'[e] = file[e] /\ backup'[e] = backup[e]
      /\ file'[d] = None /\ backup'[d] = None
  BY DEF TypeOK, Put, Save
<1>2. PlainKept'
  BY <1>1, Distinct DEF DiskInv, PlainKept, Spared, HasBackup, VersionOf
<1>3. LinkedKept'
  BY <1>1, Distinct, ShimsAssumption DEF DiskInv, LinkedKept, HasBackup, Exists
<1>4. ShimsBacked'
  BY <1>1, Distinct, ShimsAssumption DEF DiskInv, ShimsBacked, IsShimmed, Sealed, Spared, HasBackup
<1> QED  BY <1>2, <1>3, <1>4 DEF DiskInv

\* Whatever is in front of a backup goes.
LEMMA FrontGone ==
    ASSUME TypeOK, DiskInv, NEW d \in Dirs, HasBackup(d),
           Put(d, None),
           UNCHANGED <<platform, backup, store, latest, upgraded, removed>>
    PROVE  DiskInv'
<1>1. /\ \A e \in Dirs \ {d} : file'[e] = file[e]
      /\ file'[d] = None
  BY DEF TypeOK, Put
<1>2. PlainKept'
  BY <1>1, Distinct DEF DiskInv, PlainKept, Spared, HasBackup, VersionOf
<1>3. LinkedKept'
  BY <1>1, Distinct, ShimsAssumption DEF DiskInv, LinkedKept, HasBackup, Exists
<1>4. ShimsBacked'
  BY <1>1, Distinct, ShimsAssumption DEF DiskInv, ShimsBacked, IsShimmed, Sealed, Spared, HasBackup
<1> QED  BY <1>2, <1>3, <1>4 DEF DiskInv

\* A new version in front of a backup is remembered as an upgrade.
LEMMA PackageKeeps ==
    ASSUME TypeOK, DiskInv, NEW d \in Dirs, PackagePut(d)
    PROVE  DiskInv'
<1>1. /\ d \notin Sealed
      /\ latest'[d] = latest[d] + 1 /\ latest'[d] \in Versions /\ latest'[d] > 0
      /\ \A e \in Dirs \ {d} : file'[e] = file[e] /\ store'[e] = store[e] /\ latest'[e] = latest[e]
      /\ \A e \in Dirs \ {d} : e \in upgraded' <=> e \in upgraded
      /\ UNCHANGED <<platform, backup>>
  BY ShimsAssumption DEF TypeOK, PackagePut, Put, Versions
<1>2. /\ d \in upgraded \/ HasBackup(d) => d \in upgraded'
      /\ d \in Linked => file'[d] = Ref /\ store'[d] = Bin(latest'[d])
      /\ d \notin Linked => file'[d] = Bin(latest'[d])
      /\ removed' = IF HasBackup(d) THEN removed ELSE removed \ {d}
  BY DEF TypeOK, PackagePut, Put, Package
<1>3. PlainKept'
  <2> SUFFICES ASSUME NEW e \in Dirs \ Linked
               PROVE  /\ file'[e] \notin {Ref, Sip} /\ backup'[e] # Ref
                      /\ e \notin removed' =>
                            /\ HasBackup(e)' => latest'[e] > 0 /\ VersionOf(e, backup[e])'
                            /\ ~HasBackup(e)' =>
                                  IF latest'[e] = 0 THEN file'[e] = None ELSE VersionOf(e, file[e])'
    BY DEF PlainKept
  <2>1. CASE e = d
    BY <2>1, <1>1, <1>2, Distinct DEF DiskInv, PlainKept, Spared, HasBackup, VersionOf
  <2>2. CASE e # d
    BY <2>2, <1>1, <1>2, Distinct DEF DiskInv, PlainKept, Spared, HasBackup, VersionOf
  <2> QED  BY <2>1, <2>2
<1>4. LinkedKept'
  BY <1>1, <1>2, Distinct, ShimsAssumption DEF DiskInv, LinkedKept, HasBackup, Exists
<1>5. ShimsBacked'
  BY <1>1, <1>2, Distinct, ShimsAssumption DEF DiskInv, ShimsBacked, IsShimmed, Sealed,
     Spared, HasBackup
<1> QED  BY <1>3, <1>4, <1>5 DEF DiskInv

LEMMA DiskStep ==
    ASSUME TypeOK, StepsInOrder, BackedSteps, DiskInv, Next
    PROVE  DiskInv'
<1>1. CASE Quiet
  BY <1>1 DEF Quiet, disk, DiskInv, PlainKept, LinkedKept, ShimsBacked, Spared, HasBackup,
              Exists, IsShimmed, Sealed, VersionOf
<1>2. CASE MoveAway
  <2>1. cur \in Dirs
    BY <1>2 DEF MoveAway, Visiting, TypeOK
  <2> QED  BY <1>2, <2>1, MoveAwayKeeps
<1>3. CASE PlaceShim
  BY <1>3, AtDir, PlaceKeeps DEF PlaceShim, history
<1>4. CASE PlaceShimFails
  <2>1. CASE pc = "place"
    BY <1>4, <2>1, AtDir, PlaceKeeps DEF PlaceShimFails, history
  <2>2. CASE pc = "placeNew"
    <3>1. cur \in Dirs /\ HasBackup(cur) /\ backup[cur] # Sip
      BY <2>2, AtDir DEF BackedSteps
    <3> QED  BY <1>4, <2>2, <3>1, BackInPlace DEF PlaceShimFails, history
  <2> QED  BY <1>4, <2>1, <2>2 DEF PlaceShimFails
<1>5. CASE Clear
  BY <1>5, AtDir, SealedDirs, BothGone DEF Clear
<1>6. CASE LinkBackup
  <2>1. UNCHANGED <<platform, file, store, latest, upgraded>>
    BY <1>6 DEF LinkBackup
  <2>2. LocalBin \in Dirs \ (Linked \cup Sealed) /\ ~Spared(LocalBin) /\ platform = "darwin"
        /\ ~IsShimmed(LocalBin)
    BY <1>6, AtDir, SealedDirs DEF LinkBackup, BackedSteps
  <2>3. /\ \/ backup'[LocalBin] = backup[LocalBin] /\ removed' = removed
           \/ backup'[LocalBin] = Sip /\ removed' = removed \cup {LocalBin}
        /\ \A e \in Dirs \ {LocalBin} : backup'[e] = backup[e]
    BY <1>6, <2>2 DEF LinkBackup, Save, TypeOK
  <2>4. PlainKept'
    BY <2>1, <2>2, <2>3, Distinct DEF DiskInv, PlainKept, Spared, HasBackup, VersionOf
  <2>5. LinkedKept'
    BY <2>1, <2>2, <2>3, Distinct, ShimsAssumption DEF DiskInv, LinkedKept, HasBackup, Exists
  <2>6. ShimsBacked'
    BY <2>1, <2>2, <2>3, Distinct, ShimsAssumption DEF DiskInv, ShimsBacked, IsShimmed,
       Sealed, Spared, HasBackup
  <2> QED  BY <2>4, <2>5, <2>6 DEF DiskInv
<1>7. CASE PlaceSip
  <2>1. /\ LocalBin \in Dirs /\ LocalBin \notin Linked /\ HasBackup(LocalBin)
        /\ ~Spared(LocalBin) /\ ~IsShimmed(LocalBin)
    BY <1>7, AtDir, SealedDirs DEF PlaceSip
  <2>2. CASE UNCHANGED backup
    BY <1>7, <2>1, <2>2, PlaceKeeps DEF PlaceSip, history
  <2>3. CASE PlaceBreaks(LocalBin) /\ Save(LocalBin, None)
    <3>1. /\ file[LocalBin] # Ref
          /\ UNCHANGED <<platform, latest, upgraded, removed>>
      BY <1>7, <2>1 DEF PlaceSip, history, DiskInv, PlainKept
    <3>2. /\ file'[LocalBin] \in {file[LocalBin], Torn} /\ backup'[LocalBin] = None
          /\ \A e \in Dirs \ {LocalBin} : file'[e] = file[e] /\ backup'[e] = backup[e]
          /\ store' = store
      BY <2>1, <2>3, <3>1 DEF PlaceBreaks, Put, Save, TypeOK
    <3>0. LocalBin \in removed
      BY <1>7, <2>1, Distinct DEF PlaceSip, BackedSteps, DiskInv, PlainKept, VersionOf
    <3>3. PlainKept'
      BY <2>1, <3>0, <3>1, <3>2, Distinct DEF DiskInv, PlainKept, Spared, HasBackup, VersionOf
    <3>4. LinkedKept'
      BY <2>1, <3>1, <3>2, Distinct, ShimsAssumption DEF DiskInv, LinkedKept, HasBackup, Exists
    <3>5. ShimsBacked'
      BY <2>1, <3>1, <3>2, Distinct, ShimsAssumption DEF DiskInv, ShimsBacked, IsShimmed,
         Sealed, Spared, HasBackup
    <3> QED  BY <3>3, <3>4, <3>5 DEF DiskInv
  <2> QED  BY <1>7, <2>2, <2>3 DEF PlaceSip
<1>8. CASE RepairOrphan
  <2>1. PICK d \in todo : Put(d, None)
    BY <1>8 DEF RepairOrphan
  <2>2. d \in Dirs /\ HasBackup(d)
    BY <1>8, <2>1 DEF RepairOrphan, TypeOK, BackedSteps
  <2> QED  BY <1>8, <2>1, <2>2, FrontGone DEF RepairOrphan, history
<1>9. CASE PlaceOrphan
  BY <1>9, AtDir, PlaceKeeps DEF PlaceOrphan, history
<1>10. CASE RemoveBoth
  <2>1. PICK d \in Dirs : /\ backup[d] \in {Ref, Sip} /\ Put(d, None) /\ Save(d, None)
                          /\ removed' = removed \cup {d}
    BY <1>10, ShimsAssumption DEF RemoveBoth, Candidates, Present
  <2>2. d \in Linked \/ ~Spared(d)
    BY <2>1, Distinct DEF DiskInv, PlainKept, ShimsBacked, VersionOf, HasBackup
  <2> QED  BY <1>10, <2>1, <2>2, BothGone DEF RemoveBoth
<1>11. CASE RemoveShim
  <2>1. PICK d \in Dirs : HasBackup(d) /\ Put(d, None)
    BY <1>11, ShimsAssumption DEF RemoveShim, Candidates, Present
  <2> QED  BY <1>11, <2>1, FrontGone DEF RemoveShim, history
<1>12. CASE Restore
  <2>1. CASE UNCHANGED <<file, backup>>
    <3>1. Quiet
      BY <1>12, <2>1 DEF Restore, Quiet, disk, history
    <3> QED  BY <1>1, <3>1
  <2>2. CASE Put(cur, backup[cur]) /\ Save(cur, None)
    <3>1. cur \in Dirs /\ HasBackup(cur) /\ backup[cur] # Sip
      BY <1>12, AtDir DEF Restore, BackedSteps
    <3> QED  BY <1>12, <2>2, <3>1, BackInPlace DEF Restore, history
  <2> QED  BY <1>12, <2>1, <2>2 DEF Restore
<1>13. CASE Killed
  <2>1. CASE pc \in {"place", "placeNew"} \/ (pc = "repair" /\ cur # NoDir)
    BY <1>13, <2>1, AtDir, PlaceKeeps DEF Killed, history
  <2>2. CASE pc = "placeSip"
    BY <1>13, <2>2, AtDir, SealedDirs, PlaceKeeps DEF Killed, history
  <2>3. CASE pc # "placeSip" /\ ~(pc \in {"place", "placeNew"} \/ (pc = "repair" /\ cur # NoDir))
    <3>1. Quiet
      BY <1>13, <2>3 DEF Killed, Quiet, disk, history
    <3> QED  BY <1>1, <3>1
  <2> QED  BY <2>1, <2>2, <2>3
<1>14. CASE \E d \in Dirs : PackagePut(d)
  BY <1>14, PackageKeeps
<1> QED  BY <1>1, <1>2, <1>3, <1>4, <1>5, <1>6, <1>7, <1>8, <1>9, <1>10, <1>11, <1>12,
            <1>13, <1>14, QuietOrNot

-----------------------------------------------------------------------------
(* Where an invocation is                                                  *)

\* The position keeps its type.
LEMMA ToolTypes ==
    ASSUME TypeOK, Next
    PROVE  /\ wrapper' \in [dir : Dirs \cup {NoDir}, backup : BOOLEAN]
           /\ op' \in {"idle", "install", "uninstall", "doctor"}
           /\ pc' \in {"idle", "next", "place", "placeNew", "clear", "link", "placeSip",
                       "wrap", "orphans", "repair", "restore", "unwrap", "done"}
           /\ todo' \subseteq Dirs
           /\ cur' \in Dirs \cup {NoDir}
           /\ failed' \in BOOLEAN
           /\ dirty' \subseteq Dirs
<1>1. CASE \E o \in {"install", "uninstall", "doctor"} : Start(o)
  BY <1>1 DEF TypeOK, tool, history, Start, Present
<1>2. CASE Visit
  BY <1>2 DEF TypeOK, tool, history, Visit
<1>3. CASE SkipShimmed
  BY <1>3 DEF TypeOK, tool, history, SkipShimmed, Visiting, Goto, Visited
<1>4. CASE KeepBackup
  BY <1>4 DEF TypeOK, tool, history, KeepBackup, Visiting, Goto
<1>5. CASE MoveAway
  BY <1>5 DEF TypeOK, tool, history, MoveAway, Visiting, Goto
<1>6. CASE MoveFails
  BY <1>6 DEF TypeOK, tool, history, MoveFails, Visiting, Goto, Visited
<1>7. CASE PlaceShim
  BY <1>7 DEF TypeOK, tool, history, PlaceShim, Goto, Visited
<1>8. CASE PlaceShimFails
  BY <1>8 DEF TypeOK, tool, history, PlaceShimFails, Goto, Visited
<1>9. CASE Clear
  BY <1>9 DEF TypeOK, tool, history, Clear, Goto
<1>10. CASE LinkBackup
  BY <1>10 DEF TypeOK, tool, history, LinkBackup, Goto, Visited
<1>11. CASE PlaceSip
  BY <1>11 DEF TypeOK, tool, history, PlaceSip, Goto, Visited
<1>12. CASE Listed
  BY <1>12 DEF TypeOK, tool, history, Listed, Goto
<1>13. CASE Wrap
  <2>1. wrapper' \in [dir : Dirs \cup {NoDir}, backup : BOOLEAN]
    <3>1. CASE Present = {}
      BY <1>13, <3>1 DEF TypeOK, Wrap
    <3>2. CASE Present # {}
      <4>1. PICK d \in Present :
                wrapper' = [dir |-> d, backup |-> IsShimmed(d) /\ HasBackup(d)]
        BY <1>13, <3>2 DEF Wrap
      <4>2. (IsShimmed(d) /\ HasBackup(d)) \in BOOLEAN
        BY DEF IsShimmed, HasBackup
      <4> QED  BY <4>1, <4>2 DEF Present
    <3> QED  BY <3>1, <3>2
  <2> QED  BY <1>13, <2>1 DEF TypeOK, tool, history, Wrap, Goto
<1>14. CASE FindOrphans
  BY <1>14 DEF TypeOK, tool, history, FindOrphans, Goto, Orphans
<1>15. CASE RepairOrphan
  BY <1>15 DEF TypeOK, tool, history, RepairOrphan
<1>16. CASE PlaceOrphan
  BY <1>16 DEF TypeOK, tool, history, PlaceOrphan
<1>17. CASE Repaired
  BY <1>17 DEF TypeOK, tool, history, Repaired, Goto
<1>18. CASE NothingToRestore
  BY <1>18 DEF TypeOK, tool, history, NothingToRestore, Goto
<1>19. CASE RemoveBoth
  BY <1>19 DEF TypeOK, tool, history, RemoveBoth, Goto, Candidates, Present
<1>20. CASE RemoveShim
  BY <1>20, ShimsAssumption DEF TypeOK, tool, history, RemoveShim, Goto, Candidates, Present
<1>21. CASE Restore
  BY <1>21 DEF TypeOK, tool, history, Restore, Goto
<1>22. CASE Unwrap
  BY <1>22 DEF TypeOK, tool, history, Unwrap, Goto
<1>23. CASE End
  BY <1>23 DEF TypeOK, tool, history, End
<1>24. CASE Killed
  BY <1>24 DEF TypeOK, tool, history, Killed
<1>25. CASE \E d \in Dirs : PackagePut(d)
  BY <1>25 DEF TypeOK, tool, history, PackagePut
<1> QED  BY <1>1, <1>2, <1>3, <1>4, <1>5, <1>6, <1>7, <1>8, <1>9, <1>10, <1>11, <1>12,
            <1>13, <1>14, <1>15, <1>16, <1>17, <1>18, <1>19, <1>20, <1>21, <1>22, <1>23,
            <1>24, <1>25 DEF Next, Tool

\* The order of the steps is kept.
LEMMA OrderKept ==
    ASSUME TypeOK, StepsInOrder, Next
    PROVE  StepsInOrder'
<1>1. CASE \E o \in {"install", "uninstall", "doctor"} : Start(o)
  BY <1>1 DEF TypeOK, StepsInOrder, Sealed, tool, Start
<1>2. CASE Visit
  BY <1>2 DEF TypeOK, StepsInOrder, Sealed, tool, Visit
<1>3. CASE SkipShimmed
  BY <1>3 DEF TypeOK, StepsInOrder, Sealed, tool, SkipShimmed, Visiting,
     Goto, Visited
<1>4. CASE KeepBackup
  BY <1>4 DEF TypeOK, StepsInOrder, Sealed, tool, KeepBackup, Visiting, Goto
<1>5. CASE MoveAway
  BY <1>5 DEF TypeOK, StepsInOrder, Sealed, tool, MoveAway, Visiting, Goto
<1>6. CASE MoveFails
  BY <1>6 DEF TypeOK, StepsInOrder, Sealed, tool, MoveFails, Visiting,
     Goto, Visited
<1>7. CASE PlaceShim
  BY <1>7 DEF TypeOK, StepsInOrder, Sealed, tool, PlaceShim, Goto, Visited
<1>8. CASE PlaceShimFails
  BY <1>8 DEF TypeOK, StepsInOrder, Sealed, tool, PlaceShimFails, Goto, Visited
<1>9. CASE Clear
  BY <1>9 DEF TypeOK, StepsInOrder, Sealed, tool, Clear, Goto
<1>10. CASE LinkBackup
  BY <1>10 DEF TypeOK, StepsInOrder, Sealed, tool, LinkBackup, Goto, Visited
<1>11. CASE PlaceSip
  BY <1>11 DEF TypeOK, StepsInOrder, Sealed, tool, PlaceSip, Goto, Visited
<1>12. CASE Listed
  BY <1>12 DEF TypeOK, StepsInOrder, Sealed, tool, Listed, Goto
<1>13. CASE Wrap
  BY <1>13 DEF TypeOK, StepsInOrder, Sealed, tool, Wrap, Goto
<1>14. CASE FindOrphans
  BY <1>14 DEF TypeOK, StepsInOrder, Sealed, tool, FindOrphans, Goto
<1>15. CASE RepairOrphan
  BY <1>15 DEF TypeOK, StepsInOrder, Sealed, tool, RepairOrphan
<1>16. CASE PlaceOrphan
  BY <1>16 DEF TypeOK, StepsInOrder, Sealed, tool, PlaceOrphan
<1>17. CASE Repaired
  BY <1>17 DEF TypeOK, StepsInOrder, Sealed, tool, Repaired, Goto
<1>18. CASE NothingToRestore
  BY <1>18 DEF TypeOK, StepsInOrder, Sealed, tool, NothingToRestore, Goto
<1>19. CASE RemoveBoth
  BY <1>19 DEF TypeOK, StepsInOrder, Sealed, tool, RemoveBoth, Goto,
     Candidates, Present
<1>20. CASE RemoveShim
  BY <1>20, ShimsAssumption DEF TypeOK, StepsInOrder, Sealed, tool, RemoveShim, Goto,
     Candidates, Present
<1>21. CASE Restore
  BY <1>21 DEF TypeOK, StepsInOrder, Sealed, tool, Restore, Goto
<1>22. CASE Unwrap
  BY <1>22 DEF TypeOK, StepsInOrder, Sealed, tool, Unwrap, Goto
<1>23. CASE End
  BY <1>23 DEF TypeOK, StepsInOrder, Sealed, tool, End
<1>24. CASE Killed
  BY <1>24 DEF TypeOK, StepsInOrder, Sealed, tool, Killed
<1>25. CASE \E d \in Dirs : PackagePut(d)
  BY <1>25 DEF TypeOK, StepsInOrder, Sealed, tool, PackagePut
<1> QED  BY <1>1, <1>2, <1>3, <1>4, <1>5, <1>6, <1>7, <1>8, <1>9, <1>10, <1>11, <1>12,
            <1>13, <1>14, <1>15, <1>16, <1>17, <1>18, <1>19, <1>20, <1>21, <1>22, <1>23,
            <1>24, <1>25 DEF Next, Tool

\* A step that puts a shim in place, or the backup back, still has its backup.
LEMMA BackedStepsKept ==
    ASSUME TypeOK, StepsInOrder, BackedSteps, DiskInv, Next
    PROVE  BackedSteps'
<1>1. CASE pc' \in {"idle", "next", "clear", "orphans", "wrap", "unwrap", "done"}
  BY <1>1 DEF BackedSteps
<1>2. CASE KeepBackup
  BY <1>2 DEF KeepBackup, Goto, BackedSteps, HasBackup, disk
<1>3. CASE MoveAway
  <2>1. cur \in Dirs /\ file[cur] \notin {None, Sip}
    BY <1>3, Distinct DEF MoveAway, Visiting, Exists, TypeOK, DiskInv, PlainKept, LinkedKept
  <2> QED  BY <1>3, <2>1, ShimsAssumption DEF MoveAway, Goto, Save, TypeOK, BackedSteps, HasBackup
<1>4. CASE MoveFails
  <2>1. pc' \in {"clear", "next"}
    BY <1>4 DEF MoveFails, Goto, Visited
  <2> QED  BY <1>1, <2>1
<1>5. CASE Clear
  BY <1>5, Distinct, ShimsAssumption DEF Clear, Goto, Put, TypeOK, BackedSteps, IsShimmed
<1>6. CASE LinkBackup
  BY <1>6, ShimsAssumption DEF LinkBackup, Goto, Visited, Save, TypeOK, BackedSteps, IsShimmed
<1>7. CASE FindOrphans
  BY <1>7 DEF FindOrphans, Goto, Orphans, disk, BackedSteps, HasBackup
<1>8. CASE RepairOrphan \/ PlaceOrphan
  BY <1>8 DEF RepairOrphan, PlaceOrphan, BackedSteps, HasBackup
<1>9. CASE RemoveShim
  BY <1>9 DEF RemoveShim, Goto, BackedSteps, HasBackup
<1>10. CASE \E d \in Dirs : PackagePut(d)
  <2>1. PICK d \in Dirs : PackagePut(d)
    BY <1>10
  <2>2. UNCHANGED <<backup, pc, todo, cur>>
    BY <2>1 DEF PackagePut, tool
  <2>3. file'[LocalBin] \in {file[LocalBin]} \cup {Bin(v) : v \in Versions}
    BY <2>1, ShimsAssumption DEF PackagePut, Put, Package, TypeOK, Versions
  <2> QED  BY <2>2, <2>3, Distinct DEF BackedSteps, HasBackup, IsShimmed
<1> QED
  BY <1>1, <1>2, <1>3, <1>4, <1>5, <1>6, <1>7, <1>8, <1>9, <1>10
  DEF Next, Tool, Start, Visit, Visiting, SkipShimmed, PlaceShim, PlaceShimFails, PlaceSip,
     Listed, Wrap,
      Repaired, NothingToRestore, RemoveBoth, Restore, Unwrap, End, Killed, Visited, Goto

-----------------------------------------------------------------------------
(* Install and doctor                                                      *)

\* What has been visited stays covered, and a package that undoes it is noted.
LEMMA VisitedKept ==
    ASSUME TypeOK, StepsInOrder, BackedSteps, DiskInv, VisitedCovered, Next
    PROVE  VisitedCovered'
<1> DEFINE Kept == ~failed /\ (Listing \/ pc \in {"wrap", "orphans"} \/ (pc = "done" /\ op = "install"))
           Done(d) == Covered(d) \/ (pc # "orphans" /\ d \in todo)
<1>1. CASE ~Kept'
  BY <1>1 DEF VisitedCovered
<1>2. CASE \E o \in {"install", "uninstall", "doctor"} : Start(o)
  BY <1>2 DEF Start, VisitedCovered, Listing, Present, Exists, Covered, IsShimmed, disk
<1>3. CASE Visit \/ KeepBackup \/ Listed \/ Wrap
  BY <1>3 DEF Visit, Visiting, KeepBackup, Listed, Wrap, Goto, StepsInOrder, VisitedCovered,
     Listing,
              Present, Exists, Covered, IsShimmed, HasBackup, disk, history, Sealed
<1>4. CASE SkipShimmed
  BY <1>4 DEF SkipShimmed, Visiting, Visited, Goto, VisitedCovered, Listing,
              Present, Exists, Covered, IsShimmed, HasBackup, disk, history, Sealed
<1>5. CASE MoveAway
  BY <1>5 DEF MoveAway, Visiting, Goto, Put, Save, TypeOK, VisitedCovered, Listing,
              Present, Exists, Covered, IsShimmed, HasBackup, history, Sealed
<1>6. CASE MoveFails
  <2>1. failed' \/ (pc' = "clear" /\ UNCHANGED <<op, todo, failed>>)
    BY <1>6 DEF MoveFails, Visited, Goto
  <2> QED
    BY <1>6, <2>1 DEF MoveFails, Visiting, VisitedCovered, Listing,
       Present, Exists, Covered, IsShimmed, HasBackup, disk, history, Sealed
<1>7. CASE PlaceShim
  <2>1. cur \in Dirs /\ HasBackup(cur)
    BY <1>7, AtDir DEF PlaceShim
  <2>2. file'[cur] \in {Shim, Copy} \/ (file'[cur] = Ref /\ file[cur] = Ref)
    BY <1>7, <2>1 DEF PlaceShim, Place, Put, TypeOK
  <2>3. file[cur] = Ref => cur \in Linked
    BY <2>1 DEF DiskInv, PlainKept
  <2>4. \A d \in Dirs \ {cur} : file'[d] = file[d]
    BY <1>7, <2>1 DEF PlaceShim, Place, Put, TypeOK
  <2> QED
    BY <1>7, <2>1, <2>2, <2>3, <2>4 DEF PlaceShim, Visited, Goto, StepsInOrder,
       VisitedCovered, Listing,
       Present, Exists, Covered, IsShimmed, HasBackup, history, Sealed
<1>8. CASE Clear
  BY <1>8 DEF Clear, Goto, Put, Save, TypeOK, StepsInOrder, VisitedCovered, Listing,
              Present, Exists, Covered, IsShimmed, HasBackup, history, Sealed
<1>9. CASE LinkBackup
  <2>1. ~IsShimmed(LocalBin) /\ LocalBin \notin Linked
    BY <1>9, SealedDirs DEF LinkBackup, BackedSteps
  <2> QED
    BY <1>9, <2>1 DEF LinkBackup, Visited, Goto, Save, TypeOK, StepsInOrder, VisitedCovered,
       Listing,
       Present, Exists, Covered, IsShimmed, HasBackup, history, Sealed
<1>10. CASE PlaceSip
  <2>1. LocalBin \in Dirs \ Linked /\ cur \in Sealed
    BY <1>10, SealedDirs DEF PlaceSip, StepsInOrder
  <2>2. file[LocalBin] # Ref
    BY <2>1 DEF DiskInv, PlainKept
  <2>3. failed' \/ (Place(LocalBin) /\ UNCHANGED backup)
    BY <1>10 DEF PlaceSip, Visited
  <2>4. failed' \/ ( /\ file'[LocalBin] \in {Shim, Copy}
                     /\ \A d \in Dirs \ {LocalBin} : file'[d] = file[d])
    BY <2>1, <2>2, <2>3 DEF Place, Put, TypeOK
  <2> QED
    BY <1>10, <2>1, <2>3, <2>4 DEF PlaceSip, Visited, Goto, StepsInOrder, VisitedCovered, Listing,
       Present, Exists, Covered, IsShimmed, HasBackup, history, Sealed
<1>11. CASE \E d \in Dirs : PackagePut(d)
  <2>1. PICK d \in Dirs : PackagePut(d)
    BY <1>11
  <2>2. /\ \A e \in Dirs \ {d} : file'[e] = file[e]
        /\ UNCHANGED <<platform, backup, op, pc, todo, failed>>
        /\ op # "idle" => dirty' = dirty \cup {d}
    BY <2>1 DEF PackagePut, Put, TypeOK, tool
  <2> QED
    BY <2>2 DEF StepsInOrder, VisitedCovered, Listing, Present, Exists, Covered, IsShimmed,
       HasBackup, Sealed
<1> QED
  <2>1. PlaceShimFails \/ FindOrphans \/ RepairOrphan \/ PlaceOrphan \/ Repaired \/ NothingToRestore \/ RemoveBoth
          \/ RemoveShim \/ Restore \/ Unwrap \/ End \/ Killed => ~Kept'
    BY DEF PlaceShimFails, FindOrphans, RepairOrphan, PlaceOrphan, Repaired,
       NothingToRestore, RemoveBoth,
           RemoveShim, Restore, Unwrap, End, Killed, Goto, Visited, StepsInOrder, Listing
  <2> QED  BY <1>1, <1>2, <1>3, <1>4, <1>5, <1>6, <1>7, <1>8, <1>9, <1>10, <1>11, <2>1 DEF
              Next, Tool

\* What has been repaired stays as it should be.
LEMMA RepairedKept ==
    ASSUME TypeOK, StepsInOrder, DiskInv, VisitedCovered, RepairedFixed, Next
    PROVE  RepairedFixed'
<1> DEFINE Repairing == pc = "repair" \/ (pc = "done" /\ op = "doctor")
<1>1. CASE ~Repairing'
  BY <1>1 DEF RepairedFixed
<1>2. CASE FindOrphans
  <2>1. /\ cur' = NoDir /\ todo' = Orphans /\ ~(pc' = "done")
        /\ UNCHANGED <<platform, file, backup, failed, dirty>>
    BY <1>2 DEF FindOrphans, Goto, StepsInOrder, disk, history
  <2>2. \A d \in Dirs \ (Sealed \cup dirty) : ~failed => Fixed(d) \/ d \in Orphans
    BY <1>2 DEF FindOrphans, VisitedCovered, Covered, Present, Exists, Fixed, Orphans,
       IsShimmed, HasBackup
  <2> QED
    BY <2>1, <2>2 DEF RepairedFixed, Fixed, Exists, IsShimmed, HasBackup, Sealed
<1>3. CASE RepairOrphan
  <2>1. PICK d \in todo : cur' = d /\ Put(d, None)
    BY <1>3 DEF RepairOrphan
  <2>2. /\ file'[cur'] = None /\ cur' \in todo
        /\ \A e \in Dirs \ {cur'} : file'[e] = file[e]
    BY <2>1 DEF Put, TypeOK
  <2> QED
    BY <1>3, <2>2 DEF RepairOrphan, RepairedFixed, Fixed, Exists, IsShimmed, HasBackup,
       Sealed, history
<1>4. CASE PlaceOrphan
  <2>1. cur \in Dirs
    BY <1>4 DEF PlaceOrphan, TypeOK
  <2>2. /\ \A e \in Dirs \ {cur} : file'[e] = file[e]
        /\ ~failed' /\ cur \notin dirty => file'[cur] \in {Shim, Copy}
    BY <1>4, <2>1, Distinct DEF PlaceOrphan, Place, PlaceBreaks, Put, TypeOK, RepairedFixed, Exists
  <2> QED
    BY <1>4, <2>1, <2>2 DEF PlaceOrphan, RepairedFixed, Fixed, Exists, IsShimmed, HasBackup,
       Sealed, history
<1>5. CASE Repaired
  BY <1>5 DEF Repaired, Goto, RepairedFixed, Fixed, Exists, IsShimmed, HasBackup, Sealed,
     disk, history
<1>6. CASE \E d \in Dirs : PackagePut(d)
  <2>1. PICK d \in Dirs : PackagePut(d)
    BY <1>6
  <2>2. /\ \A e \in Dirs \ {d} : file'[e] = file[e]
        /\ UNCHANGED <<platform, backup, op, pc, todo, cur, failed>>
        /\ op # "idle" => dirty' = dirty \cup {d}
    BY <2>1 DEF PackagePut, Put, TypeOK, tool
  <2>3. pc = "repair" /\ cur # NoDir => cur \in Dirs
    BY DEF TypeOK
  <2> QED
    BY <2>2, <2>3 DEF StepsInOrder, RepairedFixed, Fixed, Exists, IsShimmed, HasBackup, Sealed
<1> QED
  <2>1. (\E o \in {"install", "uninstall", "doctor"} : Start(o)) => ~Repairing'
    BY DEF Start
  <2>2. Visit \/ SkipShimmed \/ KeepBackup \/ MoveAway \/ MoveFails \/ PlaceShim \/ PlaceShimFails \/ Clear \/ LinkBackup
          \/ PlaceSip \/ Listed \/ Wrap \/ NothingToRestore \/ RemoveBoth \/ RemoveShim \/ Restore \/ Unwrap
          \/ End \/ Killed => ~Repairing'
    BY DEF Visit, SkipShimmed, KeepBackup, MoveAway, MoveFails, PlaceShim, PlaceShimFails,
       Clear, LinkBackup,
           PlaceSip, Listed, Wrap, NothingToRestore, RemoveBoth, RemoveShim, Restore, Unwrap, End, Killed,
           Goto, Visited, StepsInOrder
  <2> QED  BY <1>1, <1>2, <1>3, <1>4, <1>5, <1>6, <2>1, <2>2 DEF Next, Tool

-----------------------------------------------------------------------------
(* The PATH wrapper, and the sole copy                                     *)

\* Only a directory that has had a version of the command has a copy or a backup.
LEMMA HasVersion ==
    ASSUME TypeOK, DiskInv, NEW d \in Dirs, Spared(d), Exists(d) \/ HasBackup(d)
    PROVE  latest[d] > 0
BY DEF TypeOK, DiskInv, PlainKept, LinkedKept, ShimsBacked, Exists, HasBackup

\* What a backup leads to, unless it is a link that was written through.
LEMMA BackupRuns ==
    ASSUME TypeOK, DiskInv, NEW d \in Dirs, HasBackup(d)
    PROVE  \/ IsProgram(d, backup[d])
           \/ d \in Linked \cap upgraded
           \/ ~Spared(d) /\ backup[d] = Torn
<1>1. CASE d \in Linked
  <2>1. backup[d] = Ref /\ latest[d] \in Versions
    BY <1>1, Numbers DEF DiskInv, LinkedKept, HasBackup, TypeOK
  <2>2. d \notin upgraded => store[d] = Bin(latest[d])
    BY <1>1, <2>1, Numbers DEF DiskInv, LinkedKept, TypeOK
  <2> QED  BY <1>1, <2>1, <2>2, Distinct DEF IsProgram, Program
<1>2. CASE d \notin Linked /\ Spared(d)
  <2>1. PICK v \in Versions : backup[d] = Bin(v)
    BY <1>2 DEF DiskInv, PlainKept, ShimsBacked, VersionOf
  <2> QED  BY <2>1, Distinct DEF IsProgram, Program
<1>3. CASE d \notin Linked /\ ~Spared(d)
  <2>1. backup[d] \in {Sip, Torn} \cup {Bin(v) : v \in Versions}
    BY <1>3 DEF DiskInv, ShimsBacked, Spared, HasBackup
  <2> QED  BY <1>3, <2>1, Distinct DEF IsProgram, Program
<1> QED  BY <1>1, <1>2, <1>3

LEMMA WrapperKept ==
    ASSUME TypeOK, StepsInOrder, WrapperKnown, Next
    PROVE  WrapperKnown'
<1>1. CASE Wrap
  BY <1>1 DEF Wrap, StepsInOrder, WrapperKnown
<1>2. CASE Unwrap
  BY <1>2 DEF Unwrap, WrapperKnown
<1>3. CASE UNCHANGED <<platform, wrapper>>
  BY <1>3 DEF WrapperKnown
<1> QED
  BY <1>1, <1>2, <1>3
  DEF Next, Tool, Start, Visit, SkipShimmed, KeepBackup, MoveAway, MoveFails, PlaceShim,
     PlaceShimFails, Clear,
      LinkBackup, PlaceSip, Listed, FindOrphans, RepairOrphan, PlaceOrphan, Repaired, NothingToRestore,
      RemoveBoth, RemoveShim, Restore, End, Killed, PackagePut

\* The wrapper is written of a copy that is covered, so that it finds a program.
LEMMA WrapperAsksKept ==
    ASSUME TypeOK, StepsInOrder, DiskInv, VisitedCovered, WrapperKnown, WrapperAsksOnce, Next
    PROVE  WrapperAsksOnce'
<1> DEFINE Runs(d) == IsProgram(d, IF wrapper.backup THEN backup[d] ELSE file[d])
<1>1. CASE ~(pc = "done" /\ op = "install" /\ ~failed /\ Present \ dirty # {})'
  BY <1>1 DEF WrapperAsksOnce
<1>2. CASE Listed
  <2>1. (pc' = "done" /\ op' = "install") => platform # "windows"
    BY <1>2 DEF Listed, Goto
  <2>2. platform # "windows" => wrapper'.dir \notin Dirs
    BY <1>2, ShimsAssumption DEF Listed, WrapperKnown
  <2> QED  BY <2>1, <2>2 DEF WrapperAsksOnce
<1>3. CASE Wrap
  <2> SUFFICES ASSUME ~failed, Present \ dirty # {},
                      wrapper'.dir \in Dirs \ (dirty \cup (Linked \cap upgraded))
               PROVE  Runs(wrapper.dir)'
    BY <1>3 DEF Wrap, WrapperAsksOnce, Present, Exists, disk, history
  <2>1. /\ pc = "wrap" /\ todo = {} /\ platform = "windows"
        /\ UNCHANGED <<file, backup, store>>
    BY <1>3 DEF Wrap, StepsInOrder, disk
  <2>2. PICK d \in Present :
            wrapper' = [dir |-> d, backup |-> IsShimmed(d) /\ HasBackup(d)]
    BY <1>3 DEF Wrap
  <2>3. d \in Dirs /\ d \notin dirty /\ d \notin Linked \cap upgraded /\ Spared(d)
        /\ wrapper'.dir = d /\ d \notin Sealed
    BY <2>1, <2>2, SealedDirs DEF Present, Spared
  <2>4. Covered(d)
    BY <2>1, <2>2, <2>3 DEF VisitedCovered
  <2>5. IsShimmed(d) /\ HasBackup(d)
    BY <2>3, <2>4 DEF Covered, DiskInv, LinkedKept, ShimsBacked
  <2>6. wrapper'.backup = TRUE
    <3>1. (IsShimmed(d) /\ HasBackup(d)) = TRUE
      BY <2>5 DEF IsShimmed, HasBackup
    <3> QED  BY <2>2, <3>1
  <2>7. IsProgram(d, backup[d])
    BY <2>3, <2>5, BackupRuns
  <2> QED  BY <2>1, <2>3, <2>6, <2>7 DEF IsProgram, Program
<1>4. CASE \E d \in Dirs : PackagePut(d)
  <2>1. PICK d \in Dirs : PackagePut(d)
    BY <1>4
  <2>2. /\ \A e \in Dirs \ {d} : file'[e] = file[e] /\ store'[e] = store[e]
        /\ UNCHANGED <<backup, wrapper, op, pc, failed>>
        /\ op # "idle" => dirty' = dirty \cup {d}
        /\ upgraded \subseteq upgraded'
    BY <2>1 DEF PackagePut, Put, TypeOK, tool
  <2> SUFFICES ASSUME pc = "done", op = "install", ~failed, (Present \ dirty)' # {},
                      wrapper.dir \in Dirs \ (dirty' \cup (Linked \cap upgraded'))
               PROVE  Runs(wrapper.dir)'
    BY <2>2 DEF WrapperAsksOnce
  <2>3. Present \ dirty # {}
    BY <2>2 DEF Present, Exists
  <2>4. wrapper.dir # d /\ wrapper.dir \in Dirs \ (dirty \cup (Linked \cap upgraded))
    BY <2>2
  <2>5. Runs(wrapper.dir)
    BY <2>3, <2>4 DEF WrapperAsksOnce
  <2> QED  BY <2>2, <2>4, <2>5 DEF IsProgram, Program
<1> QED
  <2>1. Visit \/ SkipShimmed \/ KeepBackup \/ MoveAway \/ MoveFails \/ PlaceShim \/ PlaceShimFails \/ Clear \/ LinkBackup
          \/ PlaceSip \/ FindOrphans \/ RepairOrphan \/ PlaceOrphan \/ Repaired \/ NothingToRestore \/ RemoveBoth
          \/ RemoveShim \/ Restore \/ Unwrap \/ End \/ Killed \/ (\E o \in {"install", "uninstall", "doctor"} : Start(o))
          => ~(pc' = "done" /\ op' = "install")
    BY DEF Visit, SkipShimmed, KeepBackup, MoveAway, MoveFails, PlaceShim, PlaceShimFails,
       Clear, LinkBackup,
           PlaceSip, FindOrphans, RepairOrphan, PlaceOrphan, Repaired, NothingToRestore, RemoveBoth, RemoveShim,
           Restore, Unwrap, End, Killed, Start, Goto, Visited, StepsInOrder
  <2> QED  BY <1>1, <1>2, <1>3, <1>4, <2>1 DEF Next, Tool

\* Off macOS, the sole copy of a command is the only candidate of its uninstall.
LEMMA SoleCandidate ==
    ASSUME TypeOK, DiskInv, platform # "darwin", NEW d \in Standard \ Linked, Sole(d)
    PROVE  /\ d \in Dirs
           /\ Candidates = {d} \/ (Candidates = {} /\ platform = "windows" /\ ~Exists(d))
           /\ HasBackup(d) \/ (\E v \in Versions : file[d] = Bin(v))
           /\ HasBackup(d) => \E v \in Versions : backup[d] = Bin(v)
<1>1. d \in Dirs /\ \A e \in Dirs : Spared(e)
  BY ShimsAssumption DEF Spared
<1>2. \A e \in Dirs : Exists(e) \/ HasBackup(e) => e = d
  BY <1>1, HasVersion DEF Sole, TypeOK
<1>3. /\ HasBackup(d) \/ (\E v \in Versions : file[d] = Bin(v))
      /\ HasBackup(d) => \E v \in Versions : backup[d] = Bin(v)
  BY <1>1 DEF Sole, TypeOK, DiskInv, PlainKept, ShimsBacked, VersionOf
<1>4. Exists(d) \/ HasBackup(d)
  BY <1>3, Distinct DEF Exists
<1> QED  BY <1>1, <1>2, <1>3, <1>4, ShimsAssumption DEF Candidates, Present

LEMMA SoleBackKept ==
    ASSUME TypeOK, StepsInOrder, BackedSteps, DiskInv, SoleBack, Next
    PROVE  SoleBack'
<1> SUFFICES ASSUME op' = "uninstall", pc' \in {"unwrap", "done"}, ~failed', platform' # "darwin",
                    NEW d \in Standard \ Linked, Sole(d)'
             PROVE  file'[d].kind = "bin" \/ (platform' = "windows" /\ ~Exists(d)')
  BY DEF SoleBack
<1>1. d \in Dirs
  BY ShimsAssumption
<1>2. CASE NothingToRestore
  <2>1. Sole(d) /\ platform # "darwin" /\ UNCHANGED <<platform, file>>
    BY <1>2 DEF NothingToRestore, Sole, disk, history
  <2>2. CASE Candidates = {d}
    <3>1. IsFirst(d, Candidates)
      BY <1>1, <2>2, ShimsAssumption DEF IsFirst
    <3>2. ~HasBackup(d)
      BY <1>2, <2>2, <3>1 DEF NothingToRestore
    <3> QED  BY <2>1, <3>2, SoleCandidate, Distinct
  <2>3. CASE platform = "windows" /\ ~Exists(d)
    BY <2>1, <2>3 DEF Exists
  <2> QED  BY <2>1, <2>2, <2>3, SoleCandidate
<1>3. CASE RemoveBoth
  <2>1. Sole(d) /\ platform # "darwin"
    BY <1>3 DEF RemoveBoth, Sole, history
  <2>2. backup[d] \in {Ref, Sip}
    BY <1>3, <2>1, SoleCandidate DEF RemoveBoth
  <2> QED  BY <2>1, <2>2, SoleCandidate, Distinct DEF HasBackup
<1>4. CASE Restore
  <2>1. Sole(d) /\ platform # "darwin" /\ cur \in Dirs /\ HasBackup(cur)
    BY <1>4, AtDir DEF Restore, Sole, history
  <2>2. cur = d
    BY <2>1, HasVersion DEF Sole, Spared, TypeOK
  <2>3. CASE failed' = TRUE
    BY <2>3
  <2>4. CASE Put(cur, backup[cur])
    BY <2>1, <2>2, <2>4, SoleCandidate, Distinct DEF Put, TypeOK
  <2> QED  BY <1>4, <2>3, <2>4 DEF Restore
<1>5. CASE Unwrap
  BY <1>5 DEF Unwrap, Goto, SoleBack, Sole, Exists, disk, history
<1>6. CASE \E e \in Dirs : PackagePut(e)
  <2>1. PICK e \in Dirs : PackagePut(e)
    BY <1>6
  <2>2. /\ latest[e] \in Nat /\ latest'[e] = latest[e] + 1 /\ latest'[e] \in Versions
        /\ \A x \in Dirs \ {e} : file'[x] = file[x] /\ latest'[x] = latest[x]
        /\ UNCHANGED <<platform, op, pc, failed>>
        /\ e \notin Linked => file'[e] = Bin(latest'[e])
    BY <2>1, ShimsAssumption DEF PackagePut, Put, Package, TypeOK, Versions, tool
  <2>3. CASE e = d
    BY <2>2, <2>3, Distinct
  <2>4. CASE e # d
    BY <1>1, <2>2, <2>4 DEF Sole
  <2> QED  BY <2>3, <2>4
<1> QED
  <2>1. (\E o \in {"install", "uninstall", "doctor"} : Start(o)) => pc' \notin {"unwrap", "done"}
    BY DEF Start
  <2>2. Visit \/ SkipShimmed \/ KeepBackup \/ MoveAway \/ MoveFails \/ PlaceShim \/ PlaceShimFails \/ Clear \/ LinkBackup
          \/ PlaceSip \/ Listed \/ Wrap \/ FindOrphans \/ RepairOrphan \/ PlaceOrphan \/ Repaired \/ RemoveShim
          \/ End \/ Killed => ~(op' = "uninstall" /\ pc' \in {"unwrap", "done"})
    BY DEF Visit, SkipShimmed, KeepBackup, MoveAway, MoveFails, PlaceShim, PlaceShimFails,
       Clear, LinkBackup,
           PlaceSip, Listed, Wrap, FindOrphans, RepairOrphan, PlaceOrphan, Repaired, RemoveShim, End, Killed,
           Visiting, Goto, Visited, StepsInOrder
  <2> QED  BY <1>2, <1>3, <1>4, <1>5, <1>6, <2>1, <2>2 DEF Next, Tool

-----------------------------------------------------------------------------
(* The theorems                                                            *)

LEMMA InitInv == Init => ShimsInv
<1> SUFFICES ASSUME Init PROVE ShimsInv
  OBVIOUS
<1>1. \A d \in Dirs : latest[d] \in {0, 1}
  BY DEF Init
<1>2. 1 \in Versions /\ 1 \in 0..MaxVersion /\ 0 \in 0..MaxVersion
  BY ShimsAssumption DEF Versions
<1>3. TypeOK
  <2>1. \A d \in Dirs : Package(d, 1) \in Contents /\ None \in Contents /\ Bin(1) \in Contents
    BY <1>2, AllContents DEF Package
  <2> QED  BY <1>2, <2>1 DEF Init, TypeOK
<1>4. /\ \A d \in Dirs : backup[d] = None
      /\ \A d \in Dirs : file[d] = IF latest[d] = 0 THEN None ELSE Package(d, 1)
      /\ \A d \in Linked : store[d] = IF latest[d] = 1 THEN Bin(1) ELSE None
  BY ShimsAssumption DEF Init
<1>5. PlainKept
  BY <1>1, <1>2, <1>4, Distinct DEF PlainKept, Package, HasBackup, VersionOf
<1>6. LinkedKept
  <2> SUFFICES ASSUME NEW d \in Linked
               PROVE  /\ backup[d] = None /\ file[d] \in {None, Ref}
                      /\ Exists(d) => latest[d] > 0
                      /\ latest[d] > 0 => store[d] = Bin(latest[d]) /\ Exists(d)
    BY Distinct DEF LinkedKept, HasBackup
  <2>1. d \in Dirs /\ latest[d] \in {0, 1} /\ Package(d, 1) = Ref
    BY <1>1, ShimsAssumption DEF Package
  <2>2. CASE latest[d] = 0
    BY <1>4, <2>1, <2>2 DEF Exists
  <2>3. CASE latest[d] = 1
    BY <1>4, <2>1, <2>3, Distinct DEF Exists
  <2> QED  BY <2>1, <2>2, <2>3
<1>7. ShimsBacked
  <2>1. removed = {}
    BY DEF Init
  <2> QED
    BY <1>2, <1>4, <2>1, Distinct, SealedDirs DEF ShimsBacked, Package, HasBackup, IsShimmed
<1>8. /\ op = "idle" /\ pc = "idle" /\ cur = NoDir
      /\ wrapper.dir = NoDir
  BY DEF Init
<1>9. StepsInOrder /\ BackedSteps
  BY <1>8 DEF StepsInOrder, BackedSteps
<1>10. VisitedCovered /\ RepairedFixed /\ WrapperKnown /\ WrapperAsksOnce /\ SoleBack
  BY <1>8 DEF VisitedCovered, Listing, RepairedFixed, WrapperKnown, WrapperAsksOnce, SoleBack
<1> QED  BY <1>3, <1>5, <1>6, <1>7, <1>9, <1>10 DEF ShimsInv

LEMMA StepInv == ShimsInv /\ [Next]_vars => ShimsInv'
<1> SUFFICES ASSUME ShimsInv, [Next]_vars PROVE ShimsInv'
  OBVIOUS
<1>1. CASE Next
  <2>1. TypeOK /\ StepsInOrder /\ BackedSteps /\ DiskInv
    BY DEF ShimsInv, DiskInv
  <2>2. TypeOK'
    BY <1>1, <2>1, DiskTypes, ToolTypes DEF TypeOK
  <2>3. StepsInOrder' /\ BackedSteps' /\ DiskInv'
    BY <1>1, <2>1, OrderKept, BackedStepsKept, DiskStep
  <2>4. VisitedCovered' /\ RepairedFixed' /\ WrapperKnown' /\ WrapperAsksOnce' /\ SoleBack'
    BY <1>1, <2>1, VisitedKept, RepairedKept, WrapperKept, WrapperAsksKept, SoleBackKept DEF
       ShimsInv
  <2> QED  BY <2>2, <2>3, <2>4 DEF ShimsInv, DiskInv
<1>2. CASE UNCHANGED vars
  BY <1>2 DEF vars, disk, tool, history, ShimsInv, TypeOK, StepsInOrder, BackedSteps,
     PlainKept, LinkedKept,
     ShimsBacked, VisitedCovered, RepairedFixed, WrapperKnown, WrapperAsksOnce, SoleBack, Sealed, HasBackup,
     IsShimmed, Exists, Present, Spared, VersionOf, Listing, Covered, Fixed, Sole, IsProgram, Program
<1> QED  BY <1>1, <1>2

\* Where an invocation is, where each program is, and what has been visited fit
\* together, whatever was killed, failed or upgraded before.
THEOREM Invariant == Spec => []ShimsInv
BY InitInv, StepInv, PTL DEF Spec

\* Every variable keeps its type.
THEOREM TypeCorrect == Spec => []TypeOK
<1>1. ShimsInv => TypeOK
  BY DEF ShimsInv
<1> QED  BY <1>1, Invariant, PTL

\* No sequence of installs, uninstalls and repairs, each of which may fail or be
\* killed between any two file operations, loses the program or the link to it
\* (the renames of InstallShims and UninstallShims), but where a package wrote
\* over a shim and where installSIPShim or UninstallShims removes it.
THEOREM ProgramIsKept == Spec => []ProgramKept
<1>1. ShimsInv => ProgramKept
  <2> SUFFICES ASSUME ShimsInv, NEW d \in Dirs, latest[d] > 0
               PROVE  /\ d \notin Linked \cup upgraded \cup removed =>
                            Bin(latest[d]) \in {file[d], backup[d]}
                      /\ d \notin Linked \cup removed =>
                            \E v \in Versions : Bin(v) \in {file[d], backup[d]}
                      /\ d \in Linked \ upgraded => store[d] = Bin(latest[d])
                      /\ d \in Linked \ removed => Ref \in {file[d], backup[d]}
    BY DEF ProgramKept
  <2>1. TypeOK /\ PlainKept /\ LinkedKept
    BY DEF ShimsInv
  <2>2. d \in Linked \ removed => Ref \in {file[d], backup[d]}
    BY <2>1 DEF LinkedKept, HasBackup, Exists
  <2> QED  BY <2>1, <2>2 DEF TypeOK, PlainKept, LinkedKept, HasBackup, VersionOf
<1> QED  BY <1>1, Invariant, PTL

\* A shim finds a program behind it (GetBackupPath) whether it is called by its
\* path or by its name, in any search order.
THEOREM ShimFindsProgram == Spec => []ShimRuns
<1>1. ShimsInv => ShimRuns
  <2> SUFFICES ASSUME ShimsInv, NEW d \in Dirs, NEW byName \in BOOLEAN, IsShimmed(d)
               PROVE  \E e \in BackupFor(d, byName) :
                          \/ IsProgram(e, backup[e])
                          \/ e \in Linked \cap upgraded
                          \/ ~Spared(e) /\ backup[e] = Torn
    BY DEF ShimRuns
  <2>1. TypeOK /\ DiskInv
    BY DEF ShimsInv, DiskInv
  <2>2. HasBackup(d)
    BY <2>1 DEF DiskInv, ShimsBacked
  <2>3. PICK e \in Dirs : e \in BackupFor(d, byName) /\ HasBackup(e)
    <3>1. CASE byName
      <4>1. PICK e \in {x \in Dirs : HasBackup(x)} : IsFirst(e, {x \in Dirs : HasBackup(x)})
        BY <2>2, FirstExists
      <4> QED  BY <3>1, <4>1 DEF BackupFor
    <3>2. CASE ~byName
      BY <2>2, <3>2 DEF BackupFor
    <3> QED  BY <3>1, <3>2
  <2> QED  BY <2>1, <2>3, BackupRuns
<1> QED  BY <1>1, Invariant, PTL

\* An install that reports no failure leaves no copy that bypasses the shield,
\* but for those it cannot or need not shim (InstallShims).
THEOREM InstallLeavesNone == Spec => []InstallCovers
<1>1. ShimsInv => InstallCovers
  <2> SUFFICES ASSUME ShimsInv, pc = "done", op = "install", ~failed,
                      NEW d \in Present \ (Sealed \cup dirty)
               PROVE  IsShimmed(d) \/ (d \in Linked /\ HasBackup(d))
    BY DEF InstallCovers
  <2>1. StepsInOrder /\ VisitedCovered
    BY DEF ShimsInv
  <2> QED  BY <2>1 DEF StepsInOrder, VisitedCovered, Covered
<1> QED  BY <1>1, Invariant, PTL

\* After a `doctor --fix` without a failure there is nothing more to fix
\* (FindOrphanedBackups and RepairOrphanedBackup).
THEOREM DoctorLeavesNothing == Spec => []DoctorFixes
<1>1. ShimsInv => DoctorFixes
  <2> SUFFICES ASSUME ShimsInv, pc = "done", op = "doctor", ~failed,
                      NEW d \in Dirs \ (Sealed \cup dirty)
               PROVE  Diagnosis(d) \in {"ok", "absent"} /\ d \notin Orphans
    BY DEF DoctorFixes
  <2>1. StepsInOrder /\ RepairedFixed
    BY DEF ShimsInv
  <2>2. Fixed(d)
    BY <2>1 DEF StepsInOrder, RepairedFixed
  <2> QED  BY <2>2 DEF Fixed, Diagnosis, Orphans
<1> QED  BY <1>1, Invariant, PTL

\* The PATH wrapper runs a program and no shim, so that one command asks for one
\* approval (createWrapper).
THEOREM WrapperRunsProgram == Spec => []WrapperAsksOnce
<1>1. ShimsInv => WrapperAsksOnce
  BY DEF ShimsInv
<1> QED  BY <1>1, Invariant, PTL

\* The sole plain copy of a command is a program again after its uninstall,
\* whatever happened before (UninstallShims), under Linux, and under Windows
\* unless nothing is left in front of the backup.
THEOREM UninstallRestores == Spec => []SoleCopyRestored
<1>1. ShimsInv => SoleCopyRestored
  BY DEF ShimsInv, SoleBack, Sole, SoleCopyRestored
<1> QED  BY <1>1, Invariant, PTL
=============================================================================
