----------------------------- MODULE RiskEngine -----------------------------
(***************************************************************************)
(* The risk engine (internal/risk): a score and a level for a shell        *)
(* command or a tool call.                                                 *)
(*                                                                         *)
(* A command is a sequence of words. What the engine reads off the text of *)
(* a word (is it a program of the table, a path, a sensitive one) is given *)
(* by constants; the order of its steps is the code's: unwrap the command, *)
(* add the points of every rule that applies, cap the sum. The table's two *)
(* thousand lines of rules for single programs only ever add points, for   *)
(* the program, for words behind it and for an empty pair of quotes at the *)
(* end; they are the constant Rules.                                       *)
(***************************************************************************)
EXTENDS Integers, SequencesExt

CONSTANTS
    Words,          \* what commands are made of
    Base,           \* commandBase: the program a word names
    Backups,        \* words that name a shim's backup (isShieldRealPath)
    Dangerous,      \* cfg.DangerousCommands: what a risky command begins with
    Destructive,    \* isDestructiveVerb
    Known,          \* isKnownCommand
    Interpreters,   \* isInterpreter
    PathWords,      \* looksLikePath
    Sensitive,      \* isSensitivePath
    System,         \* isSystemPath
    Rules,          \* the points the table gives a program and its words
    Escalated,      \* programs with a rule that applies below 80 points only
    AutoApproveRead

\* The words the unwrapping knows; "A=b" is an assignment, "-u" an option of
\* sudo that takes a value, "-D" one of which the engine does not know that it
\* does, "NAME" such a value and "''" a pair of quotes with nothing inside.
ShellWords == {"env", "sudo", "command", "eval", "xargs", "sh",
               "-c", "-i", "-u", "-D", "A=b", "NAME", "''"}
FlagWords  == {"-f", "-r", "-rf"}

ASSUME EngineAssumption ==
    /\ ShellWords \cup FlagWords \subseteq Words
    /\ Base \in [Words -> Words] /\ \A w \in Words : Base[Base[w]] = Base[w]
    /\ \A w \in ShellWords \cup FlagWords : Base[w] = w
    /\ Sensitive \cup System \subseteq PathWords
    /\ PathWords \cap (ShellWords \cup FlagWords) = {}
    /\ Rules \in [Words -> [always : Nat, words : SUBSET Words, found : Nat, empty : Nat]]
    /\ AutoApproveRead \in BOOLEAN

Commands == Seq(Words)

-----------------------------------------------------------------------------
(* Unwrapping                                                              *)

From(c, i) == SubSeq(c, i, Len(c))
\* c without its first words as long as they are in S.
DropAll(c, S) ==
    LET rest == {i \in DOMAIN c : c[i] \notin S}
    IN  IF rest = {} THEN <<>> ELSE From(c, Min(rest))

\* Mutant: the assignments are taken for the command.
SkipEnvOptions(c) == DropAll(c, {"-i", "-u"})
SkipEnvAssignments(c) == DropAll(c, {"A=b", "-i", "-u"})

IsOption(w) == w \in FlagWords \cup {"-c", "-i", "-u", "-D"}
SkipWrapperOptions[c \in Commands] ==
    IF c = <<>> \/ ~IsOption(Head(c)) THEN c
    ELSE SkipWrapperOptions[From(c, IF Head(c) = "-u" /\ Len(c) > 1 THEN 3 ELSE 2)]

\* eval joins its words and strips the quotes around them.
Unquoted(c) ==
    LET words == {i \in DOMAIN c : c[i] # "''"}
    IN  IF words = {} THEN <<>> ELSE SubSeq(c, Min(words), Max(words))

\* What the wrapper at the head of a command runs; the command itself if it has
\* no wrapper, or a wrapper with nothing to run.
OrSelf(inner, c) == IF inner = <<>> THEN c ELSE inner
Inner(c) ==
    LET base == Base[Head(c)]
        t    == Tail(c)
    IN
    CASE base = "env"  -> OrSelf(SkipEnvAssignments(t), c)
      [] base = "sudo" -> OrSelf(SkipWrapperOptions[t], c)
      [] base \in {"command", "xargs"} -> OrSelf(t, c)
      [] base = "eval" -> IF t = <<>> THEN c ELSE Unquoted(t)
      [] base = "sh"   ->
           LET at == {i \in 2..(Len(c) - 1) : c[i] = "-c"}
           IN  IF at = {} THEN c ELSE From(c, Min(at) + 1)
      [] OTHER -> c

\* normalizeWrappedCommand: the words that remain and the number of wrappers.
Unwrap[c \in Commands] ==
    IF c = <<>> \/ Inner(c) = c THEN [parts |-> c, wrappers |-> 0]
    ELSE LET u == Unwrap[Inner(c)] IN [u EXCEPT !.wrappers = @ + 1]

-----------------------------------------------------------------------------
(* Scoring                                                                 *)

Points(condition, n) == IF condition THEN n ELSE 0
HasFlag(c, S) == \E i \in DOMAIN c : c[i] \in S
HasArg(c, S)  == \E i \in DOMAIN c \ {1} : c[i] \in S

\* An unknown program with the flags of rm -rf.
RenamedPoints(c) ==
    LET recursive == HasFlag(c, {"-r", "-rf"})
        force     == HasFlag(c, {"-f", "-rf"})
    IN  IF Base[Head(c)] \in Known \cup Interpreters \/ ~(recursive /\ force) THEN 0
        ELSE IF HasArg(c, PathWords) THEN 55 ELSE 35

\* The rules of the program of c: points for it, for the words they look for
\* behind it, and for a value that is left empty (`pulumi config set ... ''`).
RulePoints(c) ==
    LET r == Rules[Base[Head(c)]] IN
      r.always
    + Points(HasArg(c, r.words), r.found)
    + Points(Len(c) > 1 /\ Last(c) = "''", r.empty)

\* normalizeCommandString: the words with the program by its name.
Named(c) == IF c = <<>> THEN <<>> ELSE <<Base[Head(c)]>> \o Tail(c)

\* The list is compared with what remains of a command and with its own text.
IsDangerous(c, parts) ==
    \E p \in Dangerous : IsPrefix(Named(p), Named(parts)) \/ IsPrefix(p, c)

Sum(c) ==
    LET base == Base[Head(c)] IN
      Points(Head(c) \in Backups, 80)
    + Points(base \in Destructive, 40)
    + Points(HasFlag(c, {"-f"}), 20)
    + Points(HasFlag(c, {"-r", "-rf"}), 15)
    + Points(HasArg(c, Sensitive), 25)
    + Points(HasArg(c, System), 30)
    + Points(base = "sudo", 15)
    + Points(base \in Interpreters /\ HasFlag(c, {"-c"}), 40)
    + RenamedPoints(c)
    + RulePoints(c)

\* terraform destroy: 80 more unless there are as many already.
Escalate(parts, n) == n + Points(Base[Head(parts)] \in Escalated /\ n < 80, 80)

Cap(n) == IF n > 100 THEN 100 ELSE n

\* EvaluateCommand: a command that is nothing but wrappers is not capped.
Score(c) ==
    LET u == Unwrap[c] IN
    IF u.parts = <<>> THEN 20 * u.wrappers
    ELSE LET n == 20 * u.wrappers + Points(IsDangerous(c, u.parts), 60) + Sum(u.parts)
         IN  Cap(Escalate(u.parts, n))

ScoreToLevel(n) ==
    CASE n <= 10      -> "none"
      [] n \in 11..30 -> "low"
      [] n \in 31..60 -> "medium"
      [] n \in 61..80 -> "high"
      [] OTHER        -> "critical"

-----------------------------------------------------------------------------
(* Tool calls                                                              *)

Tools == {"write_file", "delete_file", "execute_command", "read_file",
          "git_push", "http_request", "kubectl", "other"}

\* EvaluateToolCall: arg is the command or the path among the call's arguments,
\* or <<>> if there is none.
ToolScore(tool, arg) ==
    LET sensitive == HasFlag(arg, Sensitive) IN
    CASE tool = "write_file"      -> 30 + Points(sensitive, 25)
      [] tool = "delete_file"     -> 60 + Points(sensitive, 25)
      [] tool = "execute_command" -> IF arg = <<>> THEN 50 ELSE Score(arg)
      [] tool = "read_file"       -> Points(~AutoApproveRead, 5)
      [] tool = "git_push"        -> 40
      [] tool = "http_request"    -> 20
      [] tool = "kubectl"         -> 60
      [] OTHER                    -> 25

-----------------------------------------------------------------------------
(* What the score is for                                                   *)

\* The ways to have a command run by another that the unwrapping sees through.
Wrappers == {<<"env">>, <<"env", "A=b">>, <<"sudo">>, <<"sudo", "-u", "A=b">>,
             <<"command">>, <<"xargs">>, <<"sh", "-c">>, <<"eval">>}

\* Ways it does not: it keeps the options of command and xargs (`command -p`,
\* `xargs -0`), drops an option of env without its value (`env -u NAME`, `env -C
\* dir`), and does not know all options of sudo that take one (`sudo -D dir`).
Overlooked == {<<"command", "-i">>, <<"xargs", "-i">>, <<"env", "-u", "NAME">>,
               <<"sudo", "-D", "NAME">>}

\* The command begins with a program, not with an option or an assignment.
IsCommand(c) == c # <<>> /\ ~IsOption(Head(c)) /\ Head(c) \notin {"A=b", "''"}

\* Quotes at the end of what is left of c give it points.
ReadsQuotes(c) ==
    LET parts == Unwrap[c].parts IN
    parts # <<>> /\ Last(parts) = "''" /\ Rules[Base[Head(parts)]].empty > 0

\* The commands that c runs through one of Wrappers.
Wrapped(c) == {From(c, Len(w) + 1) : w \in {v \in Wrappers : IsPrefix(v, c)}}
=============================================================================
