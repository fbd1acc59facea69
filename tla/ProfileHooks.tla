---------------------------- MODULE ProfileHooks ----------------------------
(***************************************************************************)
(* The shell hooks (internal/hooks): a block between two marker lines that *)
(* install appends to the user's own start-up files and uninstall cuts out *)
(* again. The files are rewritten in place, the user's other programs add  *)
(* lines to them at any time, and the invocation may be killed between two *)
(* steps or in the middle of a write. The block calls the shield's binary, *)
(* which the last step of an uninstall removes.                            *)
(*                                                                         *)
(* A file is a sequence of lines: the two markers, the body of a hook, and *)
(* the user's lines, numbered in the order they were added. Blank lines    *)
(* and the text of the body are left out.                                  *)
(***************************************************************************)
EXTENDS Naturals, Sequences, SequencesExt

CONSTANTS
    Homes,
    Files,        \* the start-up files hooks go to
    NoFile,
    HomeOf,       \* the home each file is in
    Machines,     \* the sets of files a machine may have
    ShellOf,      \* the shell that reads it; "wsl" for the one InstallWSL writes
    Diagnosed,    \* the shells DiagnoseHooks looks for on this system
    MaxLines,     \* bound on the lines the user adds to a file
    MaxFaults       \* bound on the writes that fail or are cut short

ASSUME HooksAssumption ==
    /\ HomeOf \in [Files -> Homes]
    /\ ShellOf \in [Files -> {"bash", "zsh", "powershell", "wsl"}]
    /\ Diagnosed \subseteq {"bash", "zsh", "powershell"}
    /\ NoFile \notin Files
    /\ Machines \subseteq SUBSET Files
    /\ MaxLines \in Nat /\ MaxFaults \in Nat

VARIABLES
    machine,    \* the files of this machine
    rc,         \* the lines of each file
    shield,     \* whether the shield's binary is there
    op, homes,  \* the invocation under way and the homes it serves
    pc, round,  \* its next step and the files it has still to visit
    rest,       \* the files of its second round
    cur, seen,  \* the file it is at and what it read there
    lines,      \* history: how many lines the user added outside an open hook
    torn,       \* history: files whose rewrite was cut short or overtook the user
    stuck,      \* history: files that took an append but not a rewrite
    missed,     \* history: files in which the current invocation failed
    closed,     \* history: files without an open hook when it started
    gone,       \* history: the homes the uninstall served that removed the shield
    skipped,    \* history: files that uninstall failed in, or found an open hook in
    faults      \* history: how many writes failed half way or were cut short

tool         == <<op, homes, pc, round, rest, cur, seen>>
hooksHistory == <<lines, torn, stuck, missed, closed, gone, skipped, faults>>
hooksVars    == <<machine, rc, shield, tool, hooksHistory>>

-----------------------------------------------------------------------------
(* Lines                                                                   *)

Start   == [kind |-> "start", n |-> 0]   \* hookMarkerStart
Body    == [kind |-> "body", n |-> 0]
End     == [kind |-> "end", n |-> 0]     \* hookMarkerEnd
Line(n) == [kind |-> "line", n |-> n]    \* the user's n-th line
Loose   == [kind |-> "loose", n |-> 0]   \* a line the user added after an open hook

Hook  == <<Start, Body, End>>
Lines == {Start, Body, End, Loose} \cup {Line(n) : n \in 1..MaxLines}

Occurs(l, c) == \E i \in DOMAIN c : c[i] = l
\* strings.Index; only used where the line occurs.
Index(l, c) == CHOOSE i \in DOMAIN c : c[i] = l /\ \A j \in 1..(i - 1) : c[j] # l

\* removeHookFromFile: from the first start to the first end. With either
\* marker missing it leaves the file alone.
\* Mutants: the start marker stays; what follows the block goes with it.
RemoveAfterStart(c) == SubSeq(c, 1, Index(Start, c))
                          \o SubSeq(c, Index(End, c) + 1, Len(c))
RemoveToTheEnd(c)   == SubSeq(c, 1, Index(Start, c) - 1)
HasHook(c)    == Occurs(Start, c) /\ Occurs(End, c)
RemoveHook(c) == SubSeq(c, 1, Index(Start, c) - 1)
                     \o SubSeq(c, Index(End, c) + 1, Len(c))

\* The sed range of InstallWSL: from each start to the next end, or to the end
\* of the file. What a line makes of a, whether sed is in a range and what it has
\* written.
SedLine(a, l) ==
    [on  |-> (a.on \/ l = Start) /\ l # End,
     out |-> IF a.on \/ l = Start THEN a.out ELSE Append(a.out, l)]
Sed(c) ==
    LET pass[i \in 0..Len(c)] == IF i = 0 THEN [on |-> FALSE, out |-> <<>>]
                                 ELSE SedLine(pass[i - 1], c[i])
    IN  pass[Len(c)].out

\* A start marker with no end after it: an append was cut short.
Open(c) == \E i \in DOMAIN c : c[i] = Start /\ \A j \in i..Len(c) : c[j] # End

\* c has the user's lines 1 to n, none of them twice, and in their order.
Keeps(c, n) ==
    /\ \A m \in 1..n : Occurs(Line(m), c)
    /\ \A i \in DOMAIN c : c[i].kind = "line" => c[i].n \in 1..n
    /\ \A i, j \in DOMAIN c :
          i < j /\ c[i].kind = "line" /\ c[j].kind = "line" => c[i].n < c[j].n
\* c has one hook, whole, and nothing else of one.
OneHook(c) ==
    \E i, j, k \in DOMAIN c :
        /\ i < j /\ j < k /\ c[i] = Start /\ c[j] = Body /\ c[k] = End
        /\ \A x \in DOMAIN c \ {i, j, k} : c[x] \notin {Start, Body, End}
\* The shell that reads the file calls the shield before every command.
Calls(c)     == Occurs(Body, c)
FilesOf(hs)  == {f \in machine : HomeOf[f] \in hs}

-----------------------------------------------------------------------------
HooksTypeOK ==
    /\ machine \in Machines
    /\ rc \in [Files -> Seq(Lines)]
    /\ shield \in BOOLEAN
    /\ op \in {"idle", "install", "doctor", "uninstall"}
    /\ homes \subseteq Homes
    /\ pc \in {"idle", "next", "rewrite", "append", "binary", "done"}
    /\ round \subseteq Files /\ rest \subseteq Files /\ cur \in Files \cup {NoFile}
    /\ seen \in Seq(Lines)
    /\ lines \in [Files -> 0..MaxLines]
    /\ torn \subseteq Files /\ stuck \subseteq Files /\ missed \subseteq Files /\ closed \subseteq Files
    /\ gone \subseteq Homes /\ skipped \subseteq Files
    /\ faults \in 0..MaxFaults

HooksInit ==
    /\ machine \in Machines
    /\ rc = [f \in Files |-> <<>>]
    /\ shield = TRUE
    /\ op = "idle" /\ homes = {} /\ pc = "idle" /\ round = {} /\ rest = {}
    /\ cur = NoFile /\ seen = <<>>
    /\ lines = [f \in Files |-> 0]
    /\ torn = {} /\ stuck = {} /\ missed = {} /\ closed = {}
    /\ gone = {} /\ skipped = {} /\ faults = 0

-----------------------------------------------------------------------------
(* The invocations                                                         *)

\* DiagnoseHooks: a shell has its hook when one of its files has a start marker.
Hooked(h) == {ShellOf[f] : f \in {g \in FilesOf({h}) : Occurs(Start, rc[g])}}

\* Mutant: uninstall serves the home of who runs it only.
BeginAtHome(o, h, hs) ==
    /\ op = "idle" /\ shield
    /\ h \in hs /\ (o # "uninstall" => hs = {h})
    /\ op' = o /\ homes' = hs
    /\ pc' = IF o = "doctor" /\ Diagnosed \subseteq Hooked(h) THEN "done" ELSE "next"
    /\ round' = {f \in FilesOf({h}) : o # "install" => ShellOf[f] # "wsl"}
    /\ rest' = IF o = "uninstall" THEN round' ELSE {}
    /\ closed' = {f \in machine : ~Open(rc[f])}
    /\ UNCHANGED missed
    /\ UNCHANGED <<machine, rc, shield, cur, seen, lines, torn, stuck, gone, skipped, faults>>
\* install serves the home h of who runs it, doctor --fix too if a shell lacks
\* its hook. uninstall serves h, and then all of targetHomes: h again and the
\* home of the user behind sudo. Only install reaches the file inside WSL.
Begin(o, h, hs) ==
    /\ op = "idle" /\ shield
    /\ h \in hs /\ (o # "uninstall" => hs = {h})
    /\ op' = o /\ homes' = hs
    /\ pc' = IF o = "doctor" /\ Diagnosed \subseteq Hooked(h) THEN "done" ELSE "next"
    /\ round' = IF o = "install" THEN FilesOf({h})
               ELSE {f \in FilesOf({h}) : ShellOf[f] # "wsl"}
    /\ rest' = IF o = "uninstall"
               THEN {f \in FilesOf(hs) : ShellOf[f] # "wsl"} ELSE {}
    /\ closed' = {f \in machine : ~Open(rc[f])}
    /\ UNCHANGED missed
    /\ UNCHANGED <<machine, rc, shield, cur, seen, lines, torn, stuck, gone, skipped, faults>>

Goto(l) == pc' = l /\ UNCHANGED <<op, homes>>
\* To the next file of the list.
Leave(bad) ==
    /\ Goto("next")
    /\ round' = round \ {cur} /\ cur' = NoFile /\ seen' = <<>> /\ UNCHANGED rest
    /\ missed' = IF bad THEN missed \cup {cur} ELSE missed \ {cur}

\* Mutant: install appends without looking for an earlier hook.
ReadNothing(f) ==
    /\ pc = "next" /\ f \in round /\ ShellOf[f] # "wsl"
    /\ IF op = "uninstall" /\ HasHook(rc[f])
       THEN Goto("rewrite") /\ cur' = f /\ seen' = rc[f] /\ UNCHANGED <<round, missed>>
       ELSE IF op = "uninstall"
       THEN /\ Goto("next") /\ round' = round \ {f}
            /\ missed' = missed \ {f} /\ UNCHANGED <<cur, seen>>
       ELSE Goto("append") /\ cur' = f /\ UNCHANGED <<round, seen, missed>>
    /\ UNCHANGED <<machine, rc, shield, rest, lines, torn, stuck, closed, gone, skipped, faults>>
\* removeHookFromFile reads a file.
ReadFile(f) ==
    /\ pc = "next" /\ f \in round /\ ShellOf[f] # "wsl"
    /\ IF HasHook(rc[f])
       THEN Goto("rewrite") /\ cur' = f /\ seen' = rc[f] /\ UNCHANGED <<round, missed>>
       ELSE IF op = "uninstall"
       THEN /\ Goto("next") /\ round' = round \ {f}
            /\ missed' = missed \ {f} /\ UNCHANGED <<cur, seen>>
       ELSE Goto("append") /\ cur' = f /\ UNCHANGED <<round, seen, missed>>
    /\ UNCHANGED <<machine, rc, shield, rest, lines, torn, stuck, closed, gone, skipped, faults>>

\* ... and writes it back without the hook: what was added since is lost, and a
\* write that fails half way leaves half a file.
Rewrite(c) ==
    /\ rc' = [rc EXCEPT ![cur] = c]
    /\ torn' = IF rc[cur] = seen /\ c = RemoveHook(seen)
               THEN torn ELSE torn \cup {cur}

AfterRewrite(bad) ==
    IF op = "uninstall" THEN Leave(bad)
    ELSE /\ Goto("append") /\ seen' = <<>> /\ UNCHANGED <<round, rest, cur, missed>>

WriteFile ==
    /\ pc = "rewrite"
    /\ Rewrite(RemoveHook(seen))
    /\ AfterRewrite(FALSE)
    /\ UNCHANGED <<machine, shield, lines, stuck, closed, gone, skipped, faults>>

WriteFails ==
    /\ pc = "rewrite"
    /\ faults < MaxFaults /\ faults' = faults + 1
    /\ \/ stuck' = stuck \cup {cur} /\ UNCHANGED <<rc, torn>>
       \/ (\E c \in Prefixes(RemoveHook(seen)) : Rewrite(c)) /\ UNCHANGED stuck
    /\ AfterRewrite(TRUE)
    /\ UNCHANGED <<machine, shield, lines, closed, gone, skipped>>

\* InstallWSL: sed replaces the file by its output.
SedWSL(f) ==
    /\ pc = "next" /\ f \in round /\ ShellOf[f] = "wsl"
    /\ rc' = [rc EXCEPT ![f] = Sed(@)]
    /\ Goto("append") /\ cur' = f
    /\ UNCHANGED <<machine, shield, round, rest, seen, hooksHistory>>

\* appendHookToFile, or the second half of InstallWSL.
AppendHook ==
    /\ pc = "append"
    /\ rc' = [rc EXCEPT ![cur] = @ \o Hook]
    /\ Leave(FALSE)
    /\ UNCHANGED <<machine, shield, lines, torn, stuck, closed, gone, skipped, faults>>

AppendFails ==
    /\ pc = "append"
    /\ \/ UNCHANGED <<rc, faults>>
       \/ /\ faults < MaxFaults /\ faults' = faults + 1
          /\ \E c \in Prefixes(Hook) : rc' = [rc EXCEPT ![cur] = @ \o c]
    /\ Leave(TRUE)
    /\ UNCHANGED <<machine, shield, lines, torn, stuck, closed, gone, skipped>>

FilesDone ==
    /\ pc = "next" /\ round = {}
    /\ Goto(IF op # "uninstall" THEN "done" ELSE IF rest = {} THEN "binary" ELSE "next")
    /\ round' = rest /\ rest' = {}
    /\ UNCHANGED <<machine, rc, shield, cur, seen, hooksHistory>>

\* removeInstalledBinaries, the last step of an uninstall; without the privilege
\* the binary stays.
RemoveBinary ==
    /\ pc = "binary"
    /\ \/ /\ shield' = FALSE /\ gone' = homes
          /\ skipped' = missed \cup stuck \cup (machine \ closed)
       \/ UNCHANGED <<shield, gone, skipped>>
    /\ Goto("done")
    /\ UNCHANGED <<machine, rc, round, rest, cur, seen, lines, torn, stuck, missed, closed, faults>>

Finish ==
    /\ pc = "done"
    /\ op' = "idle" /\ pc' = "idle" /\ homes' = {} /\ missed' = {} /\ closed' = {}
    /\ UNCHANGED <<machine, rc, shield, round, rest, cur, seen>>
    /\ UNCHANGED <<lines, torn, stuck, gone, skipped, faults>>

\* The invocation is killed, between two steps or in the middle of a write.
Kill ==
    /\ op # "idle"
    /\ op' = "idle" /\ pc' = "idle" /\ homes' = {} /\ round' = {} /\ rest' = {}
    /\ cur' = NoFile /\ seen' = <<>> /\ missed' = {} /\ closed' = {}
    /\ \/ UNCHANGED <<rc, torn, faults>>
       \/ /\ faults < MaxFaults /\ faults' = faults + 1
          /\ \/ pc = "rewrite" /\ \E c \in Prefixes(RemoveHook(seen)) : Rewrite(c)
             \/ /\ pc = "append" /\ UNCHANGED torn
                /\ \E c \in Prefixes(Hook) : rc' = [rc EXCEPT ![cur] = @ \o c]
    /\ UNCHANGED <<machine, shield, lines, stuck, gone, skipped>>

-----------------------------------------------------------------------------
(* The world around them                                                   *)

\* A line is added at the end of a file: by the user, or by another installer.
\* Behind an open hook one such line is as good as many.
AddLine(f) ==
    /\ f \in machine /\ lines[f] < MaxLines
    /\ IF Open(rc[f])
       THEN /\ ~Occurs(Loose, rc[f])
            /\ rc' = [rc EXCEPT ![f] = Append(@, Loose)] /\ UNCHANGED lines
       ELSE /\ lines' = [lines EXCEPT ![f] = @ + 1]
            /\ rc' = [rc EXCEPT ![f] = Append(@, Line(lines'[f]))]
    /\ UNCHANGED <<machine, shield, tool, torn, stuck, missed, closed, gone, skipped, faults>>

\* The shield is put on the machine again.
Deploy ==
    /\ ~shield /\ op = "idle"
    /\ shield' = TRUE /\ gone' = {} /\ skipped' = {}
    /\ UNCHANGED <<machine, rc, tool, lines, torn, stuck, missed, closed, faults>>

HooksNext ==
    \/ \E o \in {"install", "doctor", "uninstall"} :
          \E h \in Homes, hs \in SUBSET Homes : Begin(o, h, hs)
    \/ \E f \in Files : ReadFile(f) \/ SedWSL(f) \/ AddLine(f)
    \/ WriteFile \/ WriteFails \/ AppendHook \/ AppendFails
    \/ FilesDone \/ RemoveBinary \/ Finish \/ Kill \/ Deploy

HooksSpec == HooksInit /\ [][HooksNext]_hooksVars

-----------------------------------------------------------------------------
(* Properties                                                              *)

\* Whatever is installed, removed, repaired, killed or half written, the user's
\* lines stay in the file and in their order, with two exceptions only: a rewrite
\* that was cut short or overtook the user, and lines added after a hook whose
\* own append had been cut short.
UserLinesKept ==
    \A f \in machine \ torn : Keeps(rc[f], lines[f])

\* No sequence of installs, repairs and kills makes a shell ask twice for one
\* command: a file holds two complete hooks only if it once took an append
\* right after it had refused a rewrite, whose error appendHookToFile ignores.
AskedOnce ==
    \A f \in machine \ stuck : \A i, j \in DOMAIN rc[f] :
        rc[f][i] = End /\ rc[f][j] = End => i = j

\* An install leaves one whole hook in every file it did not fail in and that
\* had no open one, and nothing of an earlier hook beside it.
InstallsOneHook ==
    pc = "done" /\ op = "install" =>
        \A f \in (FilesOf(homes) \cap closed) \ (missed \cup stuck) : OneHook(rc[f])

\* A hook that calls a removed shield makes the shell interrupt every command.
\* An uninstall that removes the binary leaves none in the homes it serves, but
\* for the file inside WSL, which no uninstall visits, a file that it or an
\* earlier invocation failed to rewrite, and a file with an open hook, which it
\* does not recognise.
NoDeadHook ==
    ~shield =>
        \A f \in FilesOf(gone) :
            Calls(rc[f]) => ShellOf[f] = "wsl" \/ f \in skipped

-----------------------------------------------------------------------------
(* The inductive invariant that the properties above follow from           *)

\* Line i of c comes behind a start that no end has closed.
Within(c, i) == \E s \in 1..(i - 1) : c[s] = Start /\ \A j \in s..(i - 1) : c[j] # End

\* Every body and every end has its start; no line of the user's is behind an open
\* start; there is one end at most; there is nothing of a hook.
Paired(c)  == \A i \in DOMAIN c : c[i] \in {Body, End} => Within(c, i)
Outside(c) == \A i \in DOMAIN c : c[i].kind = "line" => ~Within(c, i)
OneEnd(c)  == \A i, j \in DOMAIN c : c[i] = End /\ c[j] = End => i = j
NoHook(c)  == \A i \in DOMAIN c : c[i] \notin {Start, Body, End}

\* Where an invocation is, and which files it may still have before it.
Control ==
    /\ pc = "idle" <=> op = "idle"
    /\ op = "idle" => closed = {}
    /\ pc \in {"rewrite", "append"} => cur \in round
    /\ round \cup rest \subseteq machine
    /\ op # "uninstall" => rest = {}
    /\ op = "uninstall" => \A f \in round \cup rest : ShellOf[f] # "wsl"
    /\ pc = "append" => op # "uninstall"
    /\ pc = "rewrite" => HasHook(seen)
    /\ pc = "binary" => op = "uninstall"
    /\ pc \in {"binary", "done"} /\ op # "doctor" => round \cup rest = {}
    /\ ~shield => pc \in {"idle", "done"}

\* A cut takes one block: in no file, and in none held in memory, is there a body or
\* an end without its start.
FilesPaired == (\A f \in Files : Paired(rc[f])) /\ Paired(seen)

\* A cut takes no line of the user's: none is behind an open start.
LinesOutside == \A f \in machine \ torn : Outside(rc[f]) /\ Keeps(rc[f], lines[f])

\* An append follows a removal that left no end.
EndsOnce ==
    /\ \A f \in Files \ stuck : OneEnd(rc[f])
    /\ pc = "rewrite" /\ cur \notin stuck => OneEnd(seen)
    /\ pc = "append" /\ cur \notin stuck => ~Occurs(End, rc[cur])

\* A file that had no open hook when the invocation began has none until it is visited,
\* and nothing of a hook when the append is due.
StillClosed ==
    /\ \A f \in ((round \cup rest) \cap closed) \ stuck : ~Open(rc[f])
    /\ pc = "rewrite" /\ cur \in closed \ stuck => ~Open(seen)
    /\ pc = "append" /\ cur \in closed \ stuck => NoHook(rc[cur])

\* A file is done when it is left.
Visited ==
    /\ op = "install" =>
         \A f \in (FilesOf(homes) \cap closed) \ (missed \cup stuck \cup round) :
             OneHook(rc[f])
    /\ op = "uninstall" =>
         \A f \in (FilesOf(homes) \cap closed) \ (missed \cup stuck \cup round \cup rest) :
             ShellOf[f] # "wsl" => ~Calls(rc[f])

HooksInv ==
    /\ HooksTypeOK /\ Control /\ FilesPaired /\ LinesOutside
    /\ EndsOnce /\ StillClosed /\ Visited /\ NoDeadHook
=============================================================================
