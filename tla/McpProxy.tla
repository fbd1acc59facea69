------------------------------ MODULE McpProxy ------------------------------
(***************************************************************************)
(* The MCP proxy (internal/mcpproxy) between a client and the server it    *)
(* spawned: one goroutine reads the client's messages, has the tool calls  *)
(* above the threshold approved and writes what passes to the server; the  *)
(* other copies the server's messages to the client. Pipes are FIFO, and a *)
(* write waits while its pipe is full; either side may end at any time, and*)
(* a line longer than the scanner's buffer ends a goroutine.               *)
(***************************************************************************)
EXTENDS RiskEngine

CONSTANTS
    Calls,          \* the tool calls a client may make: [tool, arg]
    Threshold,      \* cfg.RiskThreshold
    PipeSize,       \* how many messages fit the server's input unread
    MaxMessages     \* bound on the messages of a client

ASSUME ProxyAssumption ==
    /\ Calls \subseteq [tool : Tools, arg : Commands]
    /\ Threshold \in Nat /\ PipeSize \in Nat /\ MaxMessages \in Nat

VARIABLES
    sent,       \* the client's messages, in order; it makes them up as it goes
    read,       \* how many of them the proxy has read
    reader,     \* the goroutine that reads them
    verdict,    \* what the approver decided on each message
    outcome,    \* what the proxy did with each message
    inbox,      \* the server's input: messages and errors
    taken,      \* how much of it the server has read
    outbox,     \* the server's answers, in order
    passed,     \* how many of them the proxy has passed on
    writer,     \* the goroutine that passes them on
    client,     \* whether the client's end is open
    server      \* whether the server runs

pipes == <<inbox, taken, outbox, passed>>
vars  == <<sent, read, reader, verdict, outcome, pipes, writer, client, server>>

-----------------------------------------------------------------------------
Ids == 1..MaxMessages

\* A message is a tool call or anything else; a line may be too long to read.
Other == [tool |-> "none", arg |-> <<>>]
Long  == [tool |-> "long", arg |-> <<>>]
Messages == Calls \cup {Other, Long}

Forward(i) == [kind |-> "message", id |-> i]
Error(i)   == [kind |-> "error", id |-> i]

IsToolCall(m) == m.tool \in Tools
\* The proxy asks about a call whose level is not none and whose score is above
\* the threshold.
Asks(m) ==
    /\ IsToolCall(m)
    /\ LET n == ToolScore(m.tool, m.arg)
       IN  ScoreToLevel(n) # "none" /\ n > Threshold
Risky == {m \in Messages : Asks(m)}

TypeOK ==
    /\ sent \in Seq(Messages) /\ Len(sent) <= MaxMessages
    /\ read \in 0..Len(sent)
    /\ reader \in {"scan", "asking", "writing", "done"}
    /\ verdict \in [Ids -> {"none", "approve", "refuse"}]
    /\ outcome \in [Ids -> {"idle", "waiting", "proceed", "blocked"}]
    /\ inbox \in Seq([kind : {"message", "error"}, id : Ids])
    /\ taken \in 0..Len(inbox)
    /\ outbox \in Seq(Ids)
    /\ passed \in 0..Len(outbox)
    /\ writer \in {"scan", "done"}
    /\ client \in BOOLEAN /\ server \in BOOLEAN

Init ==
    /\ sent = <<>> /\ read = 0 /\ reader = "scan"
    /\ verdict = [i \in Ids |-> "none"] /\ outcome = [i \in Ids |-> "idle"]
    /\ inbox = <<>> /\ taken = 0 /\ outbox = <<>> /\ passed = 0
    /\ writer = "scan" /\ client = TRUE /\ server = TRUE

-----------------------------------------------------------------------------
(* The client, the server and the approver                                 *)

Send(m) ==
    /\ client /\ Len(sent) < MaxMessages
    /\ sent' = Append(sent, m)
    /\ UNCHANGED <<read, reader, verdict, outcome, pipes, writer, client, server>>

CloseClient ==
    /\ client /\ client' = FALSE
    /\ UNCHANGED <<sent, read, reader, verdict, outcome, pipes, writer, server>>

\* Nobody reads the server's answers any more: it may be stuck writing one.
Unread == writer = "done" /\ passed < Len(outbox)

\* The server reads its next message and answers it if it is one of the
\* client's; an error it did not ask for it ignores.
Serve ==
    /\ server /\ taken < Len(inbox)
    /\ taken' = taken + 1
    /\ outbox' = IF inbox[taken'].kind = "message"
                 THEN Append(outbox, inbox[taken'].id) ELSE outbox
    /\ UNCHANGED <<sent, read, reader, verdict, outcome, inbox, passed, writer, client, server>>

\* The server ends when its input has ended, or dies.
ServerEnds ==
    /\ server /\ server' = FALSE
    /\ UNCHANGED <<sent, read, reader, verdict, outcome, pipes, writer, client>>

Decide(i, v) ==
    /\ outcome[i] # "idle" /\ verdict[i] = "none"
    /\ verdict' = [verdict EXCEPT ![i] = v]
    /\ UNCHANGED <<sent, read, reader, outcome, pipes, writer, client, server>>

-----------------------------------------------------------------------------
(* The proxy                                                               *)

\* fmt.Fprintln(server, ...) begins: once the server is gone the write fails, and
\* nobody looks at the error.
Write(e) == inbox' = IF server THEN Append(inbox, e) ELSE inbox

\* It returns when what the server has not read fits the pipe.
Written ==
    /\ reader = "writing"
    /\ ~server \/ Len(inbox) - taken <= PipeSize
    /\ reader' = "scan"
    /\ UNCHANGED <<sent, read, verdict, outcome, pipes, writer, client, server>>

\* pipeClientToServer reads a message: it asks about a risky call and forwards
\* everything else.
ReadMessage ==
    /\ reader = "scan" /\ read < Len(sent)
    /\ LET i == read + 1 IN
       /\ sent[i] # Long
       /\ read' = i
       /\ IF sent[i] \in Risky
          THEN /\ outcome' = [outcome EXCEPT ![i] = "waiting"]
               /\ reader' = "asking" /\ UNCHANGED inbox
          ELSE Write(Forward(i)) /\ reader' = "writing" /\ UNCHANGED outcome
    /\ UNCHANGED <<sent, verdict, taken, outbox, passed, writer, client, server>>

\* Mutant: the client's error is looked at, its verdict is not.
ApprovedWithoutError ==
    /\ reader = "asking" /\ verdict[read] # "none"
    /\ outcome' = [outcome EXCEPT ![read] = "proceed"]
    /\ Write(Forward(read))
    /\ reader' = "writing"
    /\ UNCHANGED <<sent, read, verdict, taken, outbox, passed, writer, client, server>>

\* RequestApproval returns an approval: the call goes on.
Approved ==
    /\ reader = "asking" /\ verdict[read] = "approve"
    /\ outcome' = [outcome EXCEPT ![read] = "proceed"]
    /\ Write(Forward(read))
    /\ reader' = "writing"
    /\ UNCHANGED <<sent, read, verdict, taken, outbox, passed, writer, client, server>>

\* Mutant: the call is forwarded after its error.
BlockedGoesOn ==
    /\ reader = "asking"
    /\ outcome' = [outcome EXCEPT ![read] = "blocked"]
    /\ inbox' = inbox \o (IF server THEN <<Error(read), Forward(read)>> ELSE <<>>)
    /\ reader' = "writing"
    /\ UNCHANGED <<sent, read, verdict, taken, outbox, passed, writer, client, server>>
\* Mutant: a blocked call ends the goroutine.
BlockedReturns ==
    /\ reader = "asking"
    /\ outcome' = [outcome EXCEPT ![read] = "blocked"]
    /\ Write(Error(read))
    /\ reader' = "done"
    /\ UNCHANGED <<sent, read, verdict, taken, outbox, passed, writer, client, server>>

\* It returns a refusal, or fails, or gives up: sendErrorResponse, to the server.
Blocked ==
    /\ reader = "asking"
    /\ outcome' = [outcome EXCEPT ![read] = "blocked"]
    /\ Write(Error(read))
    /\ reader' = "writing"
    /\ UNCHANGED <<sent, read, verdict, taken, outbox, passed, writer, client, server>>

\* Mutant: the end of the client is noticed after the server's only.
ReaderWaits ==
    /\ reader = "scan" /\ ~server
    /\ \/ read = Len(sent) /\ ~client
       \/ read < Len(sent) /\ sent[read + 1] = Long
    /\ reader' = "done"
    /\ UNCHANGED <<sent, read, verdict, outcome, pipes, writer, client, server>>

\* The scanner ends: at the end of the client's messages or at a line that is
\* too long. The server's input is closed.
ReaderEnds ==
    /\ reader = "scan"
    /\ \/ read = Len(sent) /\ ~client
       \/ read < Len(sent) /\ sent[read + 1] = Long
    /\ reader' = "done"
    /\ UNCHANGED <<sent, read, verdict, outcome, pipes, writer, client, server>>

\* Mutant: the answers are passed on when the client's messages have ended.
PassAnswerAfterwards ==
    /\ writer = "scan" /\ passed < Len(outbox) /\ reader = "done"
    /\ passed' = passed + 1
    /\ UNCHANGED <<sent, read, reader, verdict, outcome, inbox, taken, outbox, writer, client, server>>
\* Mutant: it reads on at the end of the server's output.
PassAnswerTwice ==
    /\ writer = "scan" /\ Len(outbox) > 0 /\ passed <= Len(outbox)
    /\ passed' = passed + 1
    /\ UNCHANGED <<sent, read, reader, verdict, outcome, inbox, taken, outbox, writer, client, server>>

\* pipeServerToClient passes an answer on, ...
PassAnswer ==
    /\ writer = "scan" /\ passed < Len(outbox)
    /\ passed' = passed + 1
    /\ UNCHANGED <<sent, read, reader, verdict, outcome, inbox, taken, outbox, writer, client, server>>

\* ... and ends with the server's output, or at an answer that is too long.
WriterEnds ==
    /\ writer = "scan"
    /\ (~server /\ passed = Len(outbox)) \/ passed < Len(outbox)
    /\ writer' = "done"
    /\ UNCHANGED <<sent, read, reader, verdict, outcome, pipes, client, server>>

\* Run returns when both goroutines have ended.
Returned == reader = "done" /\ writer = "done" /\ ~server

Next ==
    \/ \E m \in Messages : Send(m)
    \/ CloseClient \/ Serve \/ ServerEnds
    \/ \E i \in Ids, v \in {"approve", "refuse"} : Decide(i, v)
    \/ ReadMessage \/ Approved \/ Blocked \/ Written \/ ReaderEnds
    \/ PassAnswer \/ WriterEnds

SafeSpec == Init /\ [][Next]_vars

\* The goroutines run and RequestApproval returns. The client reads what it is
\* sent. The server, as long as its answers are read, serves its input and ends
\* with it.
Spec ==
    /\ SafeSpec
    /\ WF_vars(ReadMessage) /\ WF_vars(Approved \/ Blocked) /\ WF_vars(Written)
    /\ WF_vars(ReaderEnds)
    /\ WF_vars(PassAnswer) /\ WF_vars(WriterEnds /\ ~server /\ passed = Len(outbox))
    /\ WF_vars(Serve /\ ~Unread)
    /\ WF_vars(ServerEnds /\ ~Unread /\ reader = "done" /\ taken = Len(inbox))

-----------------------------------------------------------------------------
(* Properties                                                              *)

\* The ids of the messages the server was sent.
Passed == {inbox[k].id : k \in {k \in DOMAIN inbox : inbox[k].kind = "message"}}

\* What the proxy did with the messages it has read, in their order, is what the
\* server has in its input: every one of them, once, and an error in the place
\* of each blocked call. Only a server that has ended gets less, and then it
\* gets a beginning.
InOrder ==
    LET settled == read - (IF reader = "asking" THEN 1 ELSE 0)
        all == [i \in 1..settled |->
                   IF outcome[i] = "blocked" THEN Error(i) ELSE Forward(i)]
    IN  IF server THEN inbox = all ELSE IsPrefix(inbox, all)

\* A command that goes to the server unasked would do so without its wrapper as
\* well: the forms of env, sudo, command, eval, xargs and sh -c in Wrappers hide
\* nothing, in whatever order they are combined. There are two exceptions: the
\* forms in Overlooked, of which the engine takes an option or its value for the
\* program, and an empty pair of quotes that a rule looks for and eval strips.
WrappersHideNothing ==
    \A i \in Passed :
        sent[i].tool = "execute_command" /\ sent[i] \notin Risky =>
            \A c \in Wrapped(sent[i].arg) :
                IsCommand(c) /\ ~ReadsQuotes(c) => ~Asks([sent[i] EXCEPT !.arg = c])

\* A tool call above the threshold is one request to the abstract guard: it waits
\* for the approver, goes on only if approved, and is always answered.
Guard == INSTANCE GuardDecision WITH Requests <- Ids
ImplementsGuard == Guard!Spec

\* The messages of a client are all read and written out, in spite of refusals and
\* of a server that dies, as long as no line is too long - unless the server is
\* stuck with an answer that nobody reads, and the reader with it: the server has
\* stopped reading, and the write to it does not return (proxy.go:106, 139, 211).
AllRead ==
    \A i \in Ids :
        (i <= Len(sent) /\ \A j \in 1..i : sent[j] # Long)
            ~> (read > i \/ (read = i /\ reader \in {"scan", "done"}) \/ (server /\ Unread))

\* A message the server got is answered to the client, unless the server ends or
\* the proxy has stopped reading its answers.
Answered ==
    \A i \in Ids :
        i \in Passed ~> (~server \/ writer = "done" \/ \E k \in 1..passed : outbox[k] = i)

\* When the client closes its end the proxy returns, unless the server is stuck
\* with an answer that is too long for the proxy.
Ends == ~client ~> (Returned \/ Unread)

-----------------------------------------------------------------------------
(* What makes the properties inductive                                     *)

\* The proxy asks about one message at a time, the last one it has read, and has
\* done nothing about those it has not read yet.
OneAtATime ==
    /\ reader = "asking" => read >= 1 /\ outcome[read] = "waiting"
    /\ \A i \in Ids : outcome[i] = "waiting" => reader = "asking" /\ i = read
    /\ \A i \in Ids : i > read => outcome[i] = "idle"

\* It has asked about every risky call it has read, and a call goes ahead on its
\* own approval only.
AllAsked ==
    \A i \in Ids :
        /\ i <= read /\ sent[i] \in Risky => outcome[i] # "idle"
        /\ outcome[i] = "proceed" => verdict[i] = "approve"

ProxyInv == TypeOK /\ OneAtATime /\ AllAsked /\ InOrder

\* What WrappersHideNothing rests on, besides: no entry of the table begins with a
\* wrapper or has an empty pair of quotes, such a pair is no program and no word a
\* rule looks for but at the end, and the threshold is below the points from which
\* on the engine adds none for a destroy.
WrapperNames == {"env", "sudo", "command", "xargs", "eval", "sh"}
OrdinaryTable ==
    /\ Threshold < 80
    /\ \A p \in Dangerous :
          /\ p \in Commands /\ p # <<>> /\ \A i \in DOMAIN p : p[i] # "''"
          /\ Base[Head(p)] \notin WrapperNames \cup {"''"}
    /\ "''" \notin Backups \cup Destructive \cup Escalated
    /\ Rules["''"] = [always |-> 0, words |-> {}, found |-> 0, empty |-> 0]
    /\ \A w \in Words : "''" \notin Rules[w].words
=============================================================================
