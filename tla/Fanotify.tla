------------------------------ MODULE Fanotify ------------------------------
(***************************************************************************)
(* The fanotify monitor (kernel/linux/fanotify): one thread that reads the *)
(* opens of files the kernel holds, asks about those of protected paths    *)
(* and answers every one of them in turn. It may be told to stop, killed   *)
(* and restarted; the kernel lets pass what nobody answers any more.       *)
(*                                                                         *)
(* Every open of the marked file systems waits for the monitor, the        *)
(* monitor's own included: what libcurl opens while it asks waits for the  *)
(* thread that opened it. The monitor is told of closes of files that were *)
(* written as well and asks about them in the same way, though nobody waits*)
(* for its answer.                                                         *)
(***************************************************************************)
EXTENDS Naturals, Sequences

CONSTANTS
    Opens,       \* opens of other programs
    Closes,      \* closes of files that were open for writing
    Own,         \* an open of the monitor's own
    Guarded,     \* the events whose path is found and is a protected one
    OwnOpens,    \* whether libcurl opens files on a marked file system
    MaxPolls,    \* MAX_POLL_ATTEMPTS
    MaxQueue,    \* the events the kernel keeps
    MaxRestarts  \* bound on the restarts by systemd

ASSUME FanotifyAssumption ==
    /\ Opens \cap Closes = {} /\ Own \notin Opens \cup Closes
    /\ Guarded \subseteq Opens \cup Closes /\ OwnOpens \in BOOLEAN
    /\ MaxPolls \in Nat \ {0} /\ MaxQueue \in Nat \ {0} /\ MaxRestarts \in Nat

VARIABLES
    open,      \* the kernel's view of each open; of a close, whether it is answered
    queue,     \* the events not yet read
    buffer,    \* evBuf: the events read and not yet answered
    pc,        \* where the thread is
    running,   \* g_Running
    approved,  \* what call_agent_guard returns
    polls,     \* its attempts
    heard,     \* the events whose answers were in the memory of this process
    asked,     \* the event whose id is polled
    verdict,   \* what the approver decided about each open
    outcome,   \* what the monitor did with it
    unread,    \* history: opens let pass before the monitor read them
    misread,   \* history: events about which it took the answer to another one
    killed,    \* history: whether a monitor was killed
    restarts

kernel  == <<open, queue>>
memory  == <<heard, asked, misread>>
history == <<unread, killed, restarts>>
vars    == <<kernel, buffer, pc, running, approved, polls, memory, verdict, outcome, history>>

Events == Opens \cup Closes

-----------------------------------------------------------------------------
TypeOK ==
    /\ open \in [Events -> {"new", "waiting", "allowed", "denied"}]
    /\ queue \in Seq(Events \cup {Own}) /\ Len(queue) <= MaxQueue
    /\ buffer \in Seq(Events)
    /\ pc \in {"down", "read", "handle", "evaluate", "poll", "respond", "held"}
    /\ running \in BOOLEAN /\ approved \in BOOLEAN
    /\ polls \in 0..MaxPolls
    /\ heard \subseteq Guarded /\ asked \in Guarded \cup {Own} /\ misread \subseteq Guarded
    /\ verdict \in [Events -> {"none", "approve", "refuse"}]
    /\ outcome \in [Events -> {"idle", "waiting", "proceed", "blocked"}]
    /\ unread \subseteq Events /\ killed \in BOOLEAN /\ restarts \in 0..MaxRestarts

Init ==
    /\ open = [o \in Events |-> "new"] /\ queue = <<>> /\ buffer = <<>>
    /\ pc = "read" /\ running = TRUE /\ approved = FALSE /\ polls = 0
    /\ heard = {} /\ asked = Own /\ misread = {}
    /\ verdict = [o \in Events |-> "none"] /\ outcome = [o \in Events |-> "idle"]
    /\ unread = {} /\ killed = FALSE /\ restarts = 0

-----------------------------------------------------------------------------
(* The kernel and the approver                                             *)

Waiting == {o \in Events : open[o] = "waiting"}
Read    == {buffer[k] : k \in DOMAIN buffer}

\* An open waits in the queue, or passes where the queue is full or nobody reads; a
\* close is queued or forgotten.
Open(o) ==
    /\ open[o] = "new"
    /\ IF pc = "down" \/ Len(queue) = MaxQueue
       THEN /\ open' = [open EXCEPT ![o] = "allowed"]
            /\ unread' = unread \cup {o} /\ UNCHANGED queue
       ELSE /\ open' = [open EXCEPT ![o] = "waiting"]
            /\ queue' = Append(queue, o) /\ UNCHANGED unread
    /\ UNCHANGED <<buffer, pc, running, approved, polls, memory, verdict, outcome, killed, restarts>>

\* The end of the monitor's descriptor: the kernel lets pass whoever waits.
LetPass ==
    /\ open' = [o \in Events |-> IF o \in Waiting THEN "allowed" ELSE open[o]]
    /\ unread' = unread \cup (Waiting \ Read)
    /\ queue' = <<>> /\ buffer' = <<>>
    /\ pc' = "down" /\ approved' = FALSE /\ polls' = 0 /\ heard' = {} /\ asked' = Own
    /\ UNCHANGED <<misread, verdict, outcome>>

Decide(o, v) ==
    /\ outcome[o] # "idle" /\ verdict[o] = "none"
    /\ verdict' = [verdict EXCEPT ![o] = v]
    /\ UNCHANGED <<kernel, buffer, pc, running, approved, polls, memory, outcome, history>>

-----------------------------------------------------------------------------
(* The event loop                                                          *)

Goto(l) == pc' = l

\* read() returns some of the events.
ReadEvents ==
    /\ pc = "read" /\ running
    /\ \E n \in 1..Len(queue) :
          /\ buffer' = SubSeq(queue, 1, n)
          /\ queue' = SubSeq(queue, n + 1, Len(queue))
    /\ Goto("handle")
    /\ UNCHANGED <<open, running, approved, polls, memory, verdict, outcome, history>>

\* Mutant: the next read overwrites what is left of the buffer.
AnswerFirst(o, ok) ==
    /\ open' = [open EXCEPT ![o] = IF ok THEN "allowed" ELSE "denied"]
    /\ buffer' = <<>>
    /\ Goto("handle")
\* The response to one event, after which the next one in the buffer has its turn. The
\* one to a close the kernel refuses, and nobody looks at the error.
Answer(o, ok) ==
    /\ open' = [open EXCEPT ![o] = IF ok THEN "allowed" ELSE "denied"]
    /\ buffer' = Tail(buffer)
    /\ Goto("handle")

\* Mutant: the default is set by whoever declared the variable.
HandleKeepsApproval ==
    /\ pc = "handle" /\ buffer # <<>>
    /\ IF Head(buffer) \in Guarded
       THEN /\ outcome' = [outcome EXCEPT ![Head(buffer)] = "waiting"]
            /\ Goto("evaluate") /\ UNCHANGED <<open, buffer, approved>>
       ELSE Answer(Head(buffer), TRUE) /\ UNCHANGED <<outcome, approved>>
    /\ UNCHANGED <<queue, running, polls, memory, verdict, history>>
\* handle_event: an open of a protected path is asked about, the default being
\* to deny it; any other one is allowed at once. Its test for an open of its own
\* comes too late: see OwnOpen.
HandleEvent ==
    /\ pc = "handle" /\ buffer # <<>>
    /\ IF Head(buffer) \in Guarded
       THEN /\ outcome' = [outcome EXCEPT ![Head(buffer)] = "waiting"]
            /\ approved' = FALSE
            /\ Goto("evaluate") /\ UNCHANGED <<open, buffer>>
       ELSE Answer(Head(buffer), TRUE) /\ UNCHANGED <<outcome, approved>>
    /\ UNCHANGED <<queue, running, polls, memory, verdict, history>>

\* All that was read is answered, signal or no signal.
BufferDone ==
    /\ pc = "handle" /\ buffer = <<>>
    /\ Goto("read")
    /\ UNCHANGED <<kernel, buffer, running, approved, polls, memory, verdict, outcome, history>>

\* An answer is about the event that was asked about - or, if it has no body, about
\* one whose answer is still in the memory that curl_write_cb would have written:
\* malloc does not clear it, and the code reads it all the same.
About(e, f) ==
    /\ f \in {e} \cup heard
    /\ heard' = heard \cup {f}
    /\ misread' = IF f = Head(buffer) THEN misread ELSE misread \cup {Head(buffer)}

Finds(f) == verdict[f] = "approve" /\ approved' = TRUE /\ Goto("respond")

\* call_agent_guard: the request is answered at once, is given an id to poll, or
\* fails for want of a configuration, of memory, of an answer or of an id.
Evaluate ==
    /\ pc = "evaluate"
    /\ \/ Goto("respond") /\ UNCHANGED <<approved, polls, memory>>
       \/ \E f \in Guarded :
             /\ About(Head(buffer), f)
             /\ \/ Finds(f) /\ UNCHANGED <<polls, asked>>
                \/ Goto("poll") /\ polls' = 0 /\ asked' = f /\ UNCHANGED approved
    /\ UNCHANGED <<kernel, buffer, running, verdict, outcome, history>>

\* Mutant: one attempt more.
PollOnceMore ==
    /\ pc = "poll" /\ polls <= MaxPolls
    /\ polls' = polls + 1
    /\ \/ UNCHANGED <<pc, approved, memory>>
       \/ \E f \in Guarded : About(asked, f) /\ Finds(f) /\ UNCHANGED asked
       \/ Goto("respond") /\ UNCHANGED <<approved, memory>>
    /\ UNCHANGED <<kernel, buffer, running, verdict, outcome, history>>
\* One attempt: it fails or finds nothing new, it finds an approval, or it ends
\* the wait: a refusal, an expiry, no memory.
Poll ==
    /\ pc = "poll" /\ polls < MaxPolls
    /\ polls' = polls + 1
    /\ \/ UNCHANGED <<pc, approved, memory>>
       \/ \E f \in Guarded : About(asked, f) /\ Finds(f) /\ UNCHANGED asked
       \/ Goto("respond") /\ UNCHANGED <<approved, memory>>
    /\ UNCHANGED <<kernel, buffer, running, verdict, outcome, history>>

PollsUsedUp ==
    /\ pc = "poll" /\ polls = MaxPolls
    /\ Goto("respond")
    /\ UNCHANGED <<kernel, buffer, running, approved, polls, memory, verdict, outcome, history>>

Respond ==
    /\ pc = "respond"
    /\ Answer(Head(buffer), approved)
    /\ outcome' = [outcome EXCEPT ![Head(buffer)] =
                      IF approved THEN "proceed" ELSE "blocked"]
    /\ polls' = 0 /\ asked' = Own
    /\ UNCHANGED <<queue, running, approved, heard, misread, verdict, history>>

\* libcurl opens a file of a marked file system: the kernel queues the event and
\* holds the thread that would have to read it, for good. A full queue lets the
\* open pass.
OwnOpen ==
    /\ OwnOpens /\ pc \in {"evaluate", "poll"} /\ Len(queue) < MaxQueue
    /\ queue' = Append(queue, Own)
    /\ Goto("held")
    /\ UNCHANGED <<open, buffer, running, approved, polls, memory, verdict, outcome, history>>

-----------------------------------------------------------------------------
(* Stop, crash and restart                                                 *)

\* sig_handler, for SIGINT, SIGTERM and SIGHUP; a held thread takes no signal.
Signal ==
    /\ pc \notin {"down", "held"} /\ running
    /\ running' = FALSE
    /\ UNCHANGED <<kernel, buffer, pc, approved, polls, memory, verdict, outcome, history>>

\* Mutant: the signal ends the loop over the buffer as well.
ExitAtOnce ==
    /\ pc \in {"read", "handle"} /\ ~running
    /\ LetPass
    /\ UNCHANGED <<running, killed, restarts>>
\* The loop ends after a signal, or because the read fails.
Exit ==
    /\ pc = "read" /\ (running => queue # <<>>)
    /\ LetPass
    /\ UNCHANGED <<running, killed, restarts>>

Kill ==
    /\ pc # "down"
    /\ LetPass
    /\ killed' = TRUE
    /\ UNCHANGED <<running, restarts>>

Restart ==
    /\ pc = "down" /\ restarts < MaxRestarts
    /\ restarts' = restarts + 1
    /\ running' = TRUE /\ Goto("read")
    /\ UNCHANGED <<kernel, buffer, approved, polls, memory, verdict, outcome, unread, killed>>

Next ==
    \/ \E o \in Events : Open(o)
    \/ \E o \in Events, v \in {"approve", "refuse"} : Decide(o, v)
    \/ ReadEvents \/ HandleEvent \/ BufferDone
    \/ Evaluate \/ Poll \/ PollsUsedUp \/ Respond \/ OwnOpen
    \/ Signal \/ Exit \/ Kill \/ Restart

SafeSpec == Init /\ [][Next]_vars

\* The thread runs; every call of libcurl has a timeout of ten seconds.
Spec ==
    /\ SafeSpec
    /\ WF_vars(ReadEvents \/ Exit) /\ WF_vars(HandleEvent) /\ WF_vars(BufferDone)
    /\ WF_vars(Evaluate) /\ WF_vars(Poll) /\ WF_vars(PollsUsedUp) /\ WF_vars(Respond)

-----------------------------------------------------------------------------
(* Properties                                                              *)

\* Each guarded event is a request to the abstract guard: it waits for the approver
\* from the moment the monitor asks, and goes ahead only on an approval of its own.
\* Those that the monitor misread are left out of the promise: of them the guard is
\* shown a wait without an end, as they may go ahead on another one's approval.
GuardOutcome ==
    [o \in Events |-> IF o \in misread /\ outcome[o] = "proceed" THEN "waiting" ELSE outcome[o]]
Guard == INSTANCE GuardDecision WITH Requests <- Events, outcome <- GuardOutcome
ImplementsGuard == Guard!SafeSpec

\* A guarded open goes ahead without an approval only if the monitor never read
\* it (the queue was full, the monitor gone or on its way out) or was killed - or
\* if an answer to it had no body, and an approval of another event was left in the
\* memory that was read in its place (fanotify.c:240, 251, 290). A signal alone
\* never lets an open pass that the monitor has read.
NoUnclearedOpen ==
    \A o \in Guarded \cap Opens :
        open[o] = "allowed" =>
            \/ verdict[o] = "approve" \/ o \in unread \/ killed
            \/ o \in misread /\ \E p \in Guarded : verdict[p] = "approve"

\* The inductive invariant behind the two. The thread asks about the head of the
\* buffer, which waits; nothing else in buffer or queue has been asked about, and
\* no event is in two places; what is approved so far is approved by the approver, or
\* has been misread and another one is.
Cleared(o) ==
    verdict[o] = "approve" \/ (o \in misread /\ \E p \in Guarded : verdict[p] = "approve")
Asking == pc \in {"evaluate", "poll", "respond"}

OneByOne ==
    /\ \A o \in Events : open[o] = "new" => outcome[o] = "idle"
    /\ \A o \in misread : outcome[o] # "idle"
    /\ pc \in {"read", "down"} => buffer = <<>>
    /\ Asking => /\ buffer # <<>> /\ Head(buffer) \in Guarded
                 /\ outcome[Head(buffer)] = "waiting"
                 /\ approved => Cleared(Head(buffer))
    /\ pc = "poll" => asked = Head(buffer) \/ (asked \in Guarded /\ Head(buffer) \in misread)
    /\ \A k \in DOMAIN buffer :
          /\ open[buffer[k]] = "waiting"
          /\ (k = 1 /\ pc # "handle") \/ outcome[buffer[k]] = "idle"
          /\ \A j \in DOMAIN buffer : buffer[j] = buffer[k] => j = k
    /\ \A k \in DOMAIN queue :
          \/ queue[k] = Own /\ pc = "held"
          \/ /\ queue[k] \in Events
             /\ open[queue[k]] = "waiting" /\ outcome[queue[k]] = "idle"
             /\ \A j \in DOMAIN queue : queue[j] = queue[k] => j = k
             /\ \A j \in DOMAIN buffer : buffer[j] # queue[k]

FanotifyInv == TypeOK /\ OneByOne /\ NoUnclearedOpen

\* Every open is answered, guarded or not, although each of them may wait behind
\* a decision on another one, or on a close that nobody waits for; the only thing
\* that can hold them for ever is an open of the monitor's own.
EveryOpenAnswered ==
    \A o \in Opens : open[o] = "waiting" ~> (open[o] # "waiting" \/ pc = "held")
=============================================================================
