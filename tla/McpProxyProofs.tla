--------------------------- MODULE McpProxyProofs ---------------------------
(***************************************************************************)
(* Safety of the MCP proxy for any messages, any threshold and table of    *)
(* the risk engine, and any behaviour of client, server and approver.      *)
(***************************************************************************)
EXTENDS McpProxy, FiniteSetTheorems, SequenceTheorems, TLAPS

Entries == [kind : {"message", "error"}, id : Ids]

-----------------------------------------------------------------------------
(* The log of what the proxy did, and prefixes of it                       *)

\* How many messages the proxy has done with, and what it did with each.
Settled   == read - (IF reader = "asking" THEN 1 ELSE 0)
Did(o, i) == IF o[i] = "blocked" THEN Error(i) ELSE Forward(i)
Log       == [i \in 1..Settled |-> Did(outcome, i)]

LEMMA InOrderIsLog == InOrder <=> IF server THEN inbox = Log ELSE IsPrefix(inbox, Log)
BY DEF InOrder, Log, Settled, Did

\* A prefix, element by element.
LEMMA PrefixElements ==
    ASSUME NEW S, NEW s \in Seq(S), NEW t \in Seq(S)
    PROVE  IsPrefix(s, t) <=> Len(s) <= Len(t) /\ \A i \in 1..Len(s) : s[i] = t[i]
<1>1. /\ Len(s) \in Nat /\ \A i \in 1..Len(s) : s[i] \in S
      /\ Len(t) \in Nat /\ \A i \in 1..Len(t) : t[i] \in S
  BY LenProperties, ElementOfSeq
<1>2. SubSeq(s, 1, Len(s)) = s
  BY SubSeqFull
<1>3. ASSUME Len(s) <= Len(t)
      PROVE  /\ SubSeq(t, 1, Len(s)) \in Seq(S) /\ Len(SubSeq(t, 1, Len(s))) = Len(s)
             /\ \A i \in 1..Len(s) : SubSeq(t, 1, Len(s))[i] = t[i]
  <2>1. 1 \in Int /\ Len(s) \in Int /\ \A i \in 1..Len(s) : t[i] \in S
    BY <1>1, <1>3
  <2> DEFINE u == SubSeq(t, 1, Len(s))
  <2>2. /\ u \in Seq(S) /\ Len(u) = IF 1 <= Len(s) THEN Len(s) - 1 + 1 ELSE 0
        /\ \A i \in 1..(Len(s) - 1 + 1) : u[i] = t[1 + i - 1]
    BY <2>1, SubSeqProperties
  <2> HIDE DEF u
  <2>3. Len(u) = Len(s) /\ \A i \in 1..Len(s) : u[i] = t[i]
    BY <1>1, <2>2
  <2> QED  BY <2>2, <2>3 DEF u
<1>4. CASE Len(s) <= Len(t)
  <2>1. (s = SubSeq(t, 1, Len(s))) <=> \A i \in 1..Len(s) : s[i] = SubSeq(t, 1, Len(s))[i]
    BY <1>3, <1>4, SeqEqual
  <2> QED  BY <1>2, <1>3, <1>4, <2>1 DEF IsPrefix
<1>5. CASE ~(Len(s) <= Len(t))
  BY <1>5 DEF IsPrefix
<1> QED  BY <1>4, <1>5

LEMMA Ranges ==
    ASSUME TypeOK
    PROVE  /\ Len(sent) \in Nat /\ Len(inbox) \in Nat /\ Len(outbox) \in Nat
           /\ MaxMessages \in Nat /\ read \in Nat
           /\ read <= Len(sent) /\ Len(sent) <= MaxMessages
           /\ \A i \in 1..Len(sent) : sent[i] \in Messages /\ i \in Ids
BY ProxyAssumption, LenProperties, ElementOfSeq DEF TypeOK, Ids

\* The log is a sequence of what the proxy did, in order.
LEMMA LogElements ==
    ASSUME TypeOK, OneAtATime
    PROVE  /\ Settled \in Nat /\ Settled <= read
           /\ Log \in Seq(Entries) /\ Len(Log) = Settled
           /\ \A i \in 1..Settled : i \in Ids /\ Log[i] = Did(outcome, i)
<1>1. /\ Settled \in Nat /\ Settled <= read /\ \A i \in 1..Settled : i \in Ids
  BY Ranges DEF Settled, OneAtATime, Ids
<1>2. \A i \in 1..Settled : Did(outcome, i) \in Entries
  BY <1>1 DEF Did, Error, Forward, Entries
<1>3. Log \in [1..Settled -> Entries] /\ \A i \in 1..Settled : Log[i] = Did(outcome, i)
  BY <1>2 DEF Log
<1>4. Log \in Seq(Entries)
  BY <1>1, <1>3, SeqDef
<1>5. Len(Log) \in Nat /\ 1..Len(Log) = 1..Settled
  BY <1>3, <1>4, LenProperties
<1>6. Len(Log) = Settled
  BY <1>1, <1>5
<1> QED  BY <1>1, <1>3, <1>4, <1>6

\* InOrder, element by element.
LEMMA InOrderElements ==
    ASSUME TypeOK, OneAtATime
    PROVE  InOrder <=> /\ Len(inbox) <= Settled /\ (server => Len(inbox) = Settled)
                       /\ \A i \in 1..Len(inbox) : inbox[i] = Did(outcome, i)
<1>1. /\ Log \in Seq(Entries) /\ Len(Log) = Settled /\ Settled \in Nat
      /\ \A i \in 1..Settled : Log[i] = Did(outcome, i)
      /\ inbox \in Seq(Entries) /\ Len(inbox) \in Nat
  BY LogElements, Ranges DEF TypeOK, Entries
<1>2. IsPrefix(inbox, Log) <=> Len(inbox) <= Settled /\ \A i \in 1..Len(inbox) : inbox[i] = Log[i]
  BY <1>1, PrefixElements
<1>3. inbox = Log <=> Len(inbox) = Settled /\ \A i \in 1..Len(inbox) : inbox[i] = Log[i]
  BY <1>1, SeqEqual
<1>4. Len(inbox) <= Settled =>
         ((\A i \in 1..Len(inbox) : inbox[i] = Log[i])
             <=> \A i \in 1..Len(inbox) : inbox[i] = Did(outcome, i))
  BY <1>1
<1>5. CASE server
  BY <1>1, <1>3, <1>4, <1>5, InOrderIsLog
<1>6. CASE ~server
  BY <1>1, <1>2, <1>4, <1>6, InOrderIsLog
<1> QED  BY <1>5, <1>6

-----------------------------------------------------------------------------
(* How a step changes the log                                              *)

\* A step that neither settles a message nor writes to the server.
LEMMA SameLog ==
    ASSUME ProxyInv, TypeOK', OneAtATime', Settled' = Settled, inbox' = inbox, server' => server,
           \A i \in Ids : i <= Settled => Did(outcome', i) = Did(outcome, i)
    PROVE  InOrder'
<1>1. /\ Len(inbox) <= Settled /\ (server => Len(inbox) = Settled)
      /\ \A i \in 1..Len(inbox) : inbox[i] = Did(outcome, i)
  BY InOrderElements DEF ProxyInv
<1>2. /\ Settled \in Nat /\ Len(inbox) \in Nat /\ \A i \in 1..Settled : i \in Ids
  BY LogElements, Ranges DEF ProxyInv
<1>3. (InOrder <=> /\ Len(inbox) <= Settled /\ (server => Len(inbox) = Settled)
                   /\ \A i \in 1..Len(inbox) : inbox[i] = Did(outcome, i))'
  BY InOrderElements, PTL
<1>4. \A i \in 1..Len(inbox') : inbox'[i] = Did(outcome', i)
  BY <1>1, <1>2
<1> QED  BY <1>1, <1>3, <1>4

\* A step that settles the next message and writes what it did with it.
LEMMA Settles ==
    ASSUME ProxyInv, TypeOK', OneAtATime', Settled' = Settled + 1, server' = server,
           Write(Did(outcome', Settled + 1)),
           Did(outcome', Settled + 1) \in Entries,
           \A i \in Ids : i <= Settled => Did(outcome', i) = Did(outcome, i)
    PROVE  InOrder'
<1> DEFINE e == Did(outcome', Settled + 1)
<1>1. /\ Len(inbox) <= Settled /\ (server => Len(inbox) = Settled)
      /\ \A i \in 1..Len(inbox) : inbox[i] = Did(outcome, i)
  BY InOrderElements DEF ProxyInv
<1>2. /\ Settled \in Nat /\ Len(inbox) \in Nat /\ \A i \in 1..Settled : i \in Ids
      /\ inbox \in Seq(Entries)
  BY LogElements, Ranges DEF ProxyInv, TypeOK, Entries
<1>3. (InOrder <=> /\ Len(inbox) <= Settled /\ (server => Len(inbox) = Settled)
                   /\ \A i \in 1..Len(inbox) : inbox[i] = Did(outcome, i))'
  BY InOrderElements, PTL
<1>4. \A i \in 1..Len(inbox) : inbox[i] = Did(outcome', i)
  BY <1>1, <1>2
<1>5. CASE ~server
  <2>1. inbox' = inbox
    BY <1>5 DEF Write
  <2>2. Len(inbox) <= Settled + 1
    BY <1>1, <1>2
  <2> QED  BY <1>3, <1>4, <1>5, <2>1, <2>2
<1>6. CASE server
  <2>1. inbox' = Append(inbox, e)
    BY <1>6 DEF Write
  <2>2. /\ Len(inbox') = Len(inbox) + 1 /\ inbox'[Len(inbox) + 1] = e
        /\ \A i \in 1..Len(inbox) : inbox'[i] = inbox[i]
    BY <1>2, <2>1, AppendProperties
  <2>3. \A i \in 1..Len(inbox') : i = Settled + 1 \/ i \in 1..Len(inbox)
    BY <1>1, <1>2, <1>6, <2>2
  <2>4. \A i \in 1..Len(inbox') : inbox'[i] = Did(outcome', i)
    <3> SUFFICES ASSUME NEW i \in 1..Len(inbox') PROVE inbox'[i] = Did(outcome', i)
      OBVIOUS
    <3>1. CASE i = Settled + 1
      <4>1. inbox'[i] = e
        BY <1>1, <1>6, <2>2, <3>1
      <4> QED  BY <3>1, <4>1
    <3>2. CASE i \in 1..Len(inbox)
      BY <1>4, <2>2, <3>2
    <3> QED  BY <2>3, <3>1, <3>2
  <2>5. Len(inbox') = Settled'
    BY <1>1, <1>6, <2>2
  <2> QED  BY <1>2, <1>3, <2>4, <2>5
<1> QED  BY <1>5, <1>6

-----------------------------------------------------------------------------
(* The inductive invariant                                                 *)

LEMMA InitInv == Init => ProxyInv
<1> SUFFICES ASSUME Init PROVE ProxyInv
  OBVIOUS
<1> USE DEF Init
<1>1. TypeOK
  <2>1. \A S : <<>> \in Seq(S) /\ Len(<<>>) = 0
    OBVIOUS
  <2>2. /\ sent \in Seq(Messages) /\ Len(sent) <= MaxMessages /\ read \in 0..Len(sent)
        /\ inbox \in Seq([kind : {"message", "error"}, id : Ids]) /\ taken \in 0..Len(inbox)
        /\ outbox \in Seq(Ids) /\ passed \in 0..Len(outbox)
    BY <2>1, ProxyAssumption
  <2>3. /\ verdict \in [Ids -> {"none", "approve", "refuse"}]
        /\ outcome \in [Ids -> {"idle", "waiting", "proceed", "blocked"}]
        /\ reader \in {"scan", "asking", "writing", "done"} /\ writer \in {"scan", "done"}
    OBVIOUS
  <2>4. client \in BOOLEAN /\ server \in BOOLEAN
    BY Zenon
  <2> QED  BY ONLY <2>2, <2>3, <2>4 DEF TypeOK
<1>2. OneAtATime
  BY DEF OneAtATime
<1>3. AllAsked
  BY DEF AllAsked, Ids
<1>4. InOrder
  <2>1. Len(inbox) = 0 /\ Settled = 0
    BY DEF Settled
  <2> QED  BY <1>1, <1>2, <2>1, InOrderElements
<1> QED  BY <1>1, <1>2, <1>3, <1>4 DEF ProxyInv

\* The client, the server, the approver, the writer and the end of the reader do
\* nothing about the messages read.
LEMMA OthersKeep ==
    ASSUME ProxyInv, TypeOK',
           UNCHANGED <<read, outcome, inbox>>, server' => server,
           reader' = "asking" <=> reader = "asking",
           \A i \in 1..read : sent'[i] = sent[i],
           \A i \in Ids : verdict[i] = "approve" => verdict'[i] = "approve"
    PROVE  ProxyInv'
<1> USE DEF ProxyInv
<1>1. OneAtATime'
  BY DEF OneAtATime
<1>2. AllAsked'
  <2>1. \A i \in Ids : i <= read => i \in 1..read
    BY Ranges DEF Ids
  <2> QED  BY <2>1 DEF AllAsked
<1>3. InOrder'
  BY <1>1, SameLog DEF Settled, Did
<1> QED  BY <1>1, <1>2, <1>3

LEMMA ReadKeeps == ASSUME ProxyInv, ReadMessage PROVE ProxyInv'
<1> USE DEF ProxyInv
<1> DEFINE i == read + 1
<1>1. /\ reader = "scan" /\ read < Len(sent) /\ read' = i
      /\ UNCHANGED <<sent, verdict, taken, outbox, passed, writer, client, server>>
  BY DEF ReadMessage
<1>2. /\ i \in Ids /\ i <= Len(sent) /\ outcome[i] = "idle" /\ read \in Nat
      /\ read' \in 0..Len(sent')
  BY <1>1, Ranges DEF Ids, OneAtATime
<1>3. CASE sent[i] \in Risky
  <2>1. /\ outcome' = [outcome EXCEPT ![i] = "waiting"] /\ reader' = "asking"
        /\ inbox' = inbox
    BY <1>3 DEF ReadMessage
  <2>2. TypeOK'
    BY <1>1, <1>2, <2>1 DEF TypeOK
  <2>3. outcome'[i] = "waiting" /\ \A j \in Ids \ {i} : outcome'[j] = outcome[j]
    BY <1>2, <2>1 DEF TypeOK
  <2>4. OneAtATime'
    BY <1>1, <1>2, <2>1, <2>3 DEF OneAtATime, Ids
  <2>5. AllAsked'
    BY <1>1, <1>2, <2>3 DEF AllAsked, Ids
  <2>6. InOrder'
    <3>1. Settled' = Settled /\ Settled = read
      BY <1>1, <1>2, <2>1 DEF Settled
    <3>2. \A j \in Ids : j <= Settled => Did(outcome', j) = Did(outcome, j)
      BY <1>2, <2>3, <3>1 DEF Did, Ids
    <3> QED  BY <1>1, <2>1, <2>2, <2>4, <3>1, <3>2, SameLog
  <2> QED  BY <2>2, <2>4, <2>5, <2>6
<1>4. CASE sent[i] \notin Risky
  <2>1. Write(Forward(i)) /\ reader' = "writing" /\ UNCHANGED outcome
    BY <1>4 DEF ReadMessage
  <2>2. TypeOK'
    <3>1. /\ Forward(i) \in Entries /\ inbox \in Seq(Entries) /\ Len(inbox) \in Nat
      BY <1>2, Ranges DEF Forward, Entries, TypeOK
    <3>2. inbox' \in Seq(Entries) /\ Len(inbox') \in Nat /\ Len(inbox) <= Len(inbox')
      BY <2>1, <3>1, AppendProperties DEF Write
    <3>3. taken' \in 0..Len(inbox')
      BY <1>1, <3>1, <3>2 DEF TypeOK
    <3> QED  BY <1>1, <1>2, <2>1, <3>2, <3>3 DEF TypeOK, Entries
  <2>3. OneAtATime'
    BY <1>1, <1>2, <2>1 DEF OneAtATime, Ids
  <2>4. AllAsked'
    BY <1>1, <1>2, <1>4, <2>1 DEF AllAsked, Ids
  <2>5. InOrder'
    <3>1. Settled' = Settled + 1 /\ Settled = read
      BY <1>1, <1>2, <2>1 DEF Settled
    <3>2. Did(outcome', Settled + 1) = Forward(i)
      BY <1>2, <2>1, <3>1 DEF Did
    <3>3. Forward(i) \in Entries
      BY <1>2 DEF Forward, Entries
    <3> QED  BY <1>1, <2>1, <2>2, <2>3, <3>1, <3>2, <3>3, Settles DEF Did
  <2> QED  BY <2>2, <2>3, <2>4, <2>5
<1> QED  BY <1>3, <1>4

\* An answer settles the message that was asked about.
LEMMA AnswerKeeps ==
    ASSUME ProxyInv, reader = "asking", NEW o \in {"proceed", "blocked"},
           outcome' = [outcome EXCEPT ![read] = o],
           o = "proceed" => verdict[read] = "approve",
           Write(IF o = "blocked" THEN Error(read) ELSE Forward(read)), reader' = "writing",
           UNCHANGED <<sent, read, verdict, taken, outbox, passed, writer, client, server>>
    PROVE  ProxyInv'
<1> USE DEF ProxyInv
<1>1. read \in Ids /\ read <= Len(sent) /\ read \in Nat /\ read >= 1
  BY Ranges DEF OneAtATime, Ids
<1>2. outcome'[read] = o /\ \A j \in Ids \ {read} : outcome'[j] = outcome[j]
  BY <1>1 DEF TypeOK
<1>3. Did(outcome', read) \in Entries /\ Write(Did(outcome', read))
  BY <1>1, <1>2 DEF Did, Error, Forward, Entries
<1>4. TypeOK'
  <2>1. inbox \in Seq(Entries) /\ Len(inbox) \in Nat
    BY Ranges DEF Entries, TypeOK
  <2>2. inbox' \in Seq(Entries) /\ Len(inbox') \in Nat /\ Len(inbox) <= Len(inbox')
    BY <1>3, <2>1, AppendProperties DEF Write
  <2>3. taken' \in 0..Len(inbox')
    BY <2>1, <2>2 DEF TypeOK
  <2>4. outcome' \in [Ids -> {"idle", "waiting", "proceed", "blocked"}]
    BY <1>1 DEF TypeOK
  <2> QED  BY <2>2, <2>3, <2>4 DEF TypeOK, Entries
<1>5. OneAtATime'
  BY <1>1, <1>2 DEF OneAtATime, Ids
<1>6. AllAsked'
  BY <1>1, <1>2 DEF AllAsked, Ids
<1>7. InOrder'
  <2>1. Settled' = Settled + 1 /\ Settled + 1 = read
    BY <1>1 DEF Settled
  <2>2. \A j \in Ids : j <= Settled => Did(outcome', j) = Did(outcome, j)
    <3>1. \A j \in Ids : j <= Settled => j \in Ids \ {read}
      BY <1>1, <2>1, LogElements DEF Ids
    <3> QED  BY <1>2, <3>1 DEF Did
  <2> QED  BY <1>3, <1>4, <1>5, <2>1, <2>2, Settles
<1> QED  BY <1>4, <1>5, <1>6, <1>7

LEMMA NextInv == ProxyInv /\ [Next]_vars => ProxyInv'
<1> SUFFICES ASSUME ProxyInv, [Next]_vars PROVE ProxyInv'
  OBVIOUS
<1> USE DEF ProxyInv
<1>1. ASSUME NEW m \in Messages, Send(m) PROVE ProxyInv'
  <2>1. /\ sent \in Seq(Messages) /\ Len(sent) \in Nat /\ Len(sent) < MaxMessages
        /\ sent' = Append(sent, m) /\ read \in 0..Len(sent)
    BY <1>1, Ranges DEF Send, TypeOK
  <2>2. /\ sent' \in Seq(Messages) /\ Len(sent') = Len(sent) + 1
        /\ \A i \in 1..Len(sent) : sent'[i] = sent[i]
    BY <2>1, AppendProperties
  <2>3. Len(sent') <= MaxMessages /\ read \in 0..Len(sent')
    BY <2>1, <2>2, ProxyAssumption
  <2>4. TypeOK'
    BY <1>1, <2>2, <2>3 DEF Send, TypeOK, pipes
  <2>5. \A i \in 1..read : sent'[i] = sent[i]
    BY <2>1, <2>2
  <2> QED  BY <1>1, <2>4, <2>5, OthersKeep DEF Send, pipes
<1>2. CASE CloseClient \/ ServerEnds
  <2>1. TypeOK'
    BY <1>2 DEF CloseClient, ServerEnds, TypeOK, pipes
  <2> QED  BY <1>2, <2>1, OthersKeep DEF CloseClient, ServerEnds, pipes
<1>3. CASE Serve
  <2>1. /\ taken' \in 1..Len(inbox) /\ inbox \in Seq(Entries) /\ Len(inbox) \in Nat
        /\ outbox \in Seq(Ids) /\ Len(outbox) \in Nat
    BY <1>3, Ranges DEF Serve, TypeOK, Entries
  <2>2. inbox[taken'].id \in Ids
    <3>1. inbox[taken'] \in Entries
      BY <2>1, ElementOfSeq
    <3> QED  BY <3>1 DEF Entries
  <2>3. outbox' \in Seq(Ids) /\ Len(outbox') \in Nat /\ Len(outbox) <= Len(outbox')
    BY <1>3, <2>1, <2>2, AppendProperties DEF Serve
  <2>4. passed' \in 0..Len(outbox') /\ taken' \in 0..Len(inbox')
    BY <1>3, <2>1, <2>3 DEF Serve, TypeOK
  <2>5. TypeOK'
    BY <1>3, <2>3, <2>4 DEF Serve, TypeOK
  <2> QED  BY <1>3, <2>5, OthersKeep DEF Serve
<1>4. ASSUME NEW i \in Ids, NEW v \in {"approve", "refuse"}, Decide(i, v) PROVE ProxyInv'
  <2>1. TypeOK' /\ \A j \in Ids : verdict[j] = "approve" => verdict'[j] = "approve"
    BY <1>4 DEF Decide, TypeOK, pipes
  <2> QED  BY <1>4, <2>1, OthersKeep DEF Decide, pipes
<1>5. CASE ReadMessage
  BY <1>5, ReadKeeps
<1>6. CASE Approved
  BY <1>6, AnswerKeeps DEF Approved
<1>7. CASE Blocked
  BY <1>7, AnswerKeeps DEF Blocked
<1>8. CASE ReaderEnds \/ WriterEnds
  <2>1. TypeOK'
    BY <1>8 DEF ReaderEnds, WriterEnds, TypeOK, pipes
  <2> QED  BY <1>8, <2>1, OthersKeep DEF ReaderEnds, WriterEnds, pipes
<1>9. CASE PassAnswer
  <2>1. passed' \in 0..Len(outbox)
    BY <1>9, Ranges DEF PassAnswer, TypeOK
  <2>2. TypeOK'
    BY <1>9, <2>1 DEF PassAnswer, TypeOK
  <2> QED  BY <1>9, <2>2, OthersKeep DEF PassAnswer
<1>10. CASE Written
  <2>1. TypeOK'
    BY <1>10 DEF Written, TypeOK, pipes
  <2> QED  BY <1>10, <2>1, OthersKeep DEF Written, pipes
<1>11. CASE UNCHANGED vars
  <2>1. TypeOK'
    BY <1>11 DEF vars, pipes, TypeOK
  <2> QED  BY <1>11, <2>1, OthersKeep DEF vars, pipes
<1> QED
  BY <1>1, <1>2, <1>3, <1>4, <1>5, <1>6, <1>7, <1>8, <1>9, <1>10, <1>11 DEF Next

-----------------------------------------------------------------------------
(* Theorems                                                                *)

\* The proxy's reader asks about one message at a time, after it has settled every
\* earlier one and before it touches a later one (pipeClientToServer).
THEOREM Invariant == SafeSpec => []ProxyInv
BY InitInv, NextInv, PTL DEF SafeSpec

\* Every variable keeps its type.
THEOREM TypeCorrect == SafeSpec => []TypeOK
<1>1. ProxyInv => TypeOK
  BY DEF ProxyInv
<1> QED  BY <1>1, Invariant, PTL

\* Whatever approvers answer and whenever server and client end, the server's
\* input is what the proxy did with the messages, in their order, none twice and
\* none missing.
THEOREM StaysInOrder == SafeSpec => []InOrder
<1>1. ProxyInv => InOrder
  BY DEF ProxyInv
<1> QED  BY <1>1, Invariant, PTL

\* No message the server gets is a risky call without an approval of its own.
NoUnaskedCall == \A i \in Passed : sent[i] \in Risky => verdict[i] = "approve"

\* So it is for every sequence of messages (pipeClientToServer).
THEOREM RiskyCallsApproved == SafeSpec => []NoUnaskedCall
<1>1. ProxyInv => NoUnaskedCall
  <2> SUFFICES ASSUME ProxyInv, NEW k \in DOMAIN inbox, inbox[k].kind = "message",
                      sent[inbox[k].id] \in Risky
               PROVE  verdict[inbox[k].id] = "approve"
    BY DEF NoUnaskedCall, Passed
  <2> USE DEF ProxyInv
  <2>1. /\ k \in 1..Len(inbox) /\ k \in 1..Settled /\ inbox[k] = Did(outcome, k)
    <3>1. inbox \in Seq(Entries) /\ Len(inbox) <= Settled /\ Len(inbox) \in Nat
      BY InOrderElements, Ranges DEF TypeOK, Entries
    <3>2. DOMAIN inbox = 1..Len(inbox)
      BY <3>1, LenProperties
    <3> QED  BY <3>1, <3>2, InOrderElements, LogElements
  <2>2. inbox[k].id = k /\ outcome[k] # "blocked" /\ k \in Ids /\ k <= read
    BY <2>1, LogElements, Ranges DEF Did, Error, Forward
  <2>3. outcome[k] # "waiting"
    BY <2>1, <2>2, Ranges DEF OneAtATime, Settled
  <2>4. outcome[k] = "proceed"
    BY <2>2, <2>3 DEF AllAsked, TypeOK
  <2> QED  BY <2>2, <2>4 DEF AllAsked
<1> QED  BY <1>1, Invariant, PTL

-----------------------------------------------------------------------------
(* The refinement of GuardDecision                                         *)

LEMMA StepRefines ==
    ProxyInv /\ [Next]_vars => [Guard!Next]_(Guard!vars)
<1> SUFFICES ASSUME ProxyInv, [Next]_vars
             PROVE  Guard!Next \/ UNCHANGED <<verdict, outcome>>
  BY DEF Guard!vars
<1> USE DEF ProxyInv
<1>1. ASSUME NEW i \in Ids, NEW v \in {"approve", "refuse"}, Decide(i, v) PROVE Guard!Next
  BY <1>1 DEF Decide, Guard!Next, Guard!Decide, Guard!Verdicts
<1>2. CASE ReadMessage
  <2>1. read + 1 \in Ids /\ outcome[read + 1] = "idle"
    BY <1>2, Ranges DEF ReadMessage, OneAtATime, Ids
  <2> QED  BY <1>2, <2>1 DEF ReadMessage, Guard!Next, Guard!Ask
<1>3. CASE Approved
  <2>1. read \in Ids /\ outcome[read] = "waiting"
    BY <1>3, Ranges DEF Approved, OneAtATime, Ids
  <2> QED  BY <1>3, <2>1 DEF Approved, Guard!Next, Guard!Answer, Guard!Proceed
<1>4. CASE Blocked
  <2>1. read \in Ids /\ outcome[read] = "waiting"
    BY <1>4, Ranges DEF Blocked, OneAtATime, Ids
  <2> QED  BY <1>4, <2>1 DEF Blocked, Guard!Next, Guard!Answer, Guard!Block
<1>5. CASE \/ \E m \in Messages : Send(m)
           \/ CloseClient \/ Serve \/ ServerEnds
           \/ Written \/ ReaderEnds \/ PassAnswer \/ WriterEnds
  BY <1>5 DEF Send, CloseClient, Serve, ServerEnds, Written, ReaderEnds, PassAnswer, WriterEnds
<1>6. CASE UNCHANGED vars
  BY <1>6 DEF vars
<1> QED  BY <1>1, <1>2, <1>3, <1>4, <1>5, <1>6 DEF Next

\* A risky tool call is a request to the guard: it waits, goes ahead on its own
\* approval only, and is blocked at most once, whatever else the proxy, the
\* client and the server do.
THEOREM RefinesGuard == SafeSpec => Guard!SafeSpec
<1>1. Init => Guard!Init
  BY DEF Init, Guard!Init
<1> QED  BY <1>1, StepRefines, Invariant, PTL DEF Guard!SafeSpec, SafeSpec

-----------------------------------------------------------------------------
(* Recursion that comes to an end                                          *)

\* A nonempty set of numbers has a least one.
LEMMA LeastExists ==
    ASSUME NEW S \in SUBSET Nat, S # {}
    PROVE  \E n \in S : \A m \in S : n <= m
<1> DEFINE Below(n) == 1..n
           T == {Below(n) : n \in S}
<1>1. \A n \in S : n \in Nat /\ IsFiniteSet(Below(n)) /\ Below(n) \in SUBSET Nat
  BY FS_Interval
<1>2. T \subseteq FiniteSubsetsOf(Nat) /\ T # {}
  BY <1>1 DEF FiniteSubsetsOf
<1>3. IsWellFoundedOn(StrictSubsetOrdering(Nat), FiniteSubsetsOf(Nat))
  BY FS_StrictSubsetOrderingWellFounded
<1>4. PICK x \in T : \A y \in T : <<y, x>> \notin StrictSubsetOrdering(Nat)
  <2> HIDE DEF T
  <2> QED  BY <1>2, <1>3, WFMin
<1>5. PICK n \in S : x = Below(n)
  OBVIOUS
<1>6. \A m \in S : n <= m
  <2> SUFFICES ASSUME NEW m \in S, m < n
               PROVE  FALSE
    BY <1>1
  <2>1. Below(m) \in T /\ Below(m) \subseteq Below(n) /\ n \in Below(n) \ Below(m)
    BY <1>1
  <2>2. <<Below(m), Below(n)>> \in StrictSubsetOrdering(Nat)
    <3> HIDE DEF Below
    <3> QED  BY <1>1, <2>1 DEF StrictSubsetOrdering
  <2> QED  BY <1>4, <1>5, <2>1, <2>2
<1> QED  BY <1>6

\* What a run of next from c ends in, and after how many steps.
Ending(h, next, stop, c) ==
    IF c \in stop THEN [parts |-> c, wrappers |-> 0]
    ELSE [parts |-> h[next[c]].parts, wrappers |-> h[next[c]].wrappers + 1]
\* The results of such a function, and the arguments of a measure below n.
Results(D) == [parts : D, wrappers : Nat]
Small(D, size, n) == {c \in D : size[c] < n}
\* h does so for every argument; ...
Computes(h, D, next, stop) == /\ h \in [D -> Results(D)]
                              /\ \A c \in D : h[c] = Ending(h, next, stop, c)
\* ... for those of a measure below n.
ComputesBelow(h, D, size, next, stop, n) ==
    /\ h \in [Small(D, size, n) -> Results(D)]
    /\ \A c \in Small(D, size, n) : h[c] = Ending(h, next, stop, c)

\* Such a function exists if every step makes the argument smaller.
LEMMA Recursion ==
    ASSUME NEW D, NEW stop, NEW next \in [D -> D], NEW size \in [D -> Nat],
           \A c \in D \ stop : size[next[c]] < size[c]
    PROVE  \E h : Computes(h, D, next, stop)
<1> DEFINE Good(n, h) == ComputesBelow(h, D, size, next, stop, n)
<1>1. \A n \in Nat : \E h : Good(n, h)
  <2> DEFINE Bad == {n \in Nat : ~\E h : Good(n, h)}
  <2> SUFFICES ASSUME Bad # {} PROVE FALSE
    OBVIOUS
  <2>1. PICK m \in Bad : \A n \in Bad : m <= n
    <3>1. Bad \in SUBSET Nat
      OBVIOUS
    <3> HIDE DEF Bad
    <3> QED  BY <3>1, LeastExists
  <2>2. m # 0
    <3>1. Small(D, size, 0) = {}
      BY DEF Small
    <3>2. Good(0, [c \in Small(D, size, 0) |-> 0])
      BY <3>1 DEF ComputesBelow
    <3> QED  BY <3>2
  <2>3. m \in Nat /\ m - 1 \in Nat /\ m - 1 \notin Bad
    BY <2>1, <2>2
  <2>4. PICK h : Good(m - 1, h)
    BY <2>3
  <2> DEFINE g == [c \in Small(D, size, m) |-> Ending(h, next, stop, c)]
  <2>5. \A c \in Small(D, size, m) \ stop : next[c] \in Small(D, size, m - 1)
    BY <2>3 DEF Small
  <2>6. \A c \in Small(D, size, m) : Ending(h, next, stop, c) \in Results(D)
    BY <2>4, <2>5 DEF ComputesBelow, Ending, Results, Small
  <2>7. \A c \in Small(D, size, m - 1) : c \in Small(D, size, m) /\ g[c] = h[c]
    BY <2>3, <2>4 DEF ComputesBelow, Small
  <2>8. \A c \in Small(D, size, m) : g[c] = Ending(g, next, stop, c)
    BY <2>5, <2>7 DEF Ending
  <2>9. Good(m, g)
    BY <2>6, <2>8 DEF ComputesBelow
  <2> QED  BY <2>1, <2>9
<1>2. ASSUME NEW n \in Nat, NEW m \in Nat, NEW g, NEW h, Good(n, g), Good(m, h)
      PROVE  \A c \in Small(D, size, n) \cap Small(D, size, m) : g[c] = h[c]
  <2> DEFINE Both == Small(D, size, n) \cap Small(D, size, m)
             Odd  == {c \in Both : g[c] # h[c]}
             Sizes == {size[c] : c \in Odd}
  <2> SUFFICES ASSUME Odd # {} PROVE FALSE
    OBVIOUS
  <2>1. PICK k \in Sizes : \A l \in Sizes : k <= l
    <3>1. Sizes \in SUBSET Nat /\ Sizes # {}
      BY DEF Small
    <3> HIDE DEF Sizes
    <3> QED  BY <3>1, LeastExists
  <2>2. PICK c \in Odd : size[c] = k
    OBVIOUS
  <2>3. c \in D /\ g[c] = Ending(g, next, stop, c) /\ h[c] = Ending(h, next, stop, c)
    BY <1>2, <2>2 DEF ComputesBelow, Small
  <2>4. c \notin stop
    BY <2>2, <2>3 DEF Ending
  <2>5. next[c] \in D /\ size[next[c]] < k
    BY <2>2, <2>3, <2>4
  <2>6. next[c] \in Both
    BY <2>2, <2>3, <2>5 DEF Small
  <2>7. next[c] \notin Odd
    <3>1. k \in Nat /\ size[next[c]] \in Nat
      BY <2>2, <2>3, <2>5
    <3>2. size[next[c]] \notin Sizes
      <4> HIDE DEF Sizes
      <4> QED  BY <2>1, <2>5, <3>1
    <3>3. ASSUME next[c] \in Odd PROVE size[next[c]] \in Sizes
      BY <3>3
    <3> QED  BY <3>2, <3>3
  <2> QED  BY <2>2, <2>3, <2>4, <2>6, <2>7 DEF Ending
<1> DEFINE H(n) == CHOOSE h : Good(n, h)
           f == [c \in D |-> H(size[c] + 1)[c]]
<1>3. \A n \in Nat : Good(n, H(n))
  BY <1>1
<1>4. ASSUME NEW c \in D PROVE f[c] = Ending(f, next, stop, c) /\ f[c] \in Results(D)
  <2>1. PICK n : n = size[c] + 1
    OBVIOUS
  <2>2. n \in Nat /\ c \in Small(D, size, n) /\ Good(n, H(n)) /\ f[c] = H(n)[c]
    BY <1>3, <2>1 DEF Small
  <2>3. f[c] = Ending(H(n), next, stop, c) /\ f[c] \in Results(D)
    BY <2>2 DEF ComputesBelow
  <2>4. CASE c \in stop
    BY <2>3, <2>4 DEF Ending
  <2>5. CASE c \notin stop
    <3>1. PICK d, m : d = next[c] /\ m = size[next[c]] + 1
      OBVIOUS
    <3>2. /\ d \in D /\ m \in Nat /\ d \in Small(D, size, n) /\ d \in Small(D, size, m)
          /\ Good(m, H(m)) /\ f[d] = H(m)[d]
      BY <1>3, <2>1, <2>5, <3>1 DEF Small
    <3>3. H(n)[d] = H(m)[d]
      BY <1>2, <2>2, <3>2
    <3> HIDE DEF f, H
    <3> QED  BY <2>3, <2>5, <3>1, <3>2, <3>3 DEF Ending
  <2> QED  BY <2>4, <2>5
<1>5. Computes(f, D, next, stop)
  BY <1>4 DEF Computes
<1> QED  BY <1>5

-----------------------------------------------------------------------------
(* Sequences of words                                                      *)

\* Induction on the length of a command, for a set P that stands for the property.
LEMMA ByLength ==
    ASSUME NEW P,
           \A c \in Commands : (\A d \in Commands : Len(d) < Len(c) => d \in P) => c \in P
    PROVE  \A c \in Commands : c \in P
<1> DEFINE Sizes == {Len(c) : c \in Commands \ P}
<1> SUFFICES ASSUME NEW b \in Commands, b \notin P PROVE FALSE
  OBVIOUS
<1>1. Sizes \in SUBSET Nat /\ Sizes # {}
  <2>1. \A c \in Commands : Len(c) \in Nat
    BY DEF Commands
  <2>2. Sizes \in SUBSET Nat
    BY <2>1
  <2>3. Len(b) \in Sizes
    OBVIOUS
  <2> HIDE DEF Sizes
  <2> QED  BY <2>2, <2>3
<1>2. PICK n \in Sizes : \A m \in Sizes : n <= m
  <2> HIDE DEF Sizes
  <2> QED  BY <1>1, LeastExists
<1>3. PICK c \in Commands \ P : Len(c) = n
  OBVIOUS
<1>4. ASSUME NEW d \in Commands, Len(d) < Len(c) PROVE d \in P
  <2>1. Len(d) \in Nat /\ Len(c) \in Nat
    BY <1>3 DEF Commands
  <2>2. Len(d) \notin Sizes
    <3> HIDE DEF Sizes
    <3> QED  BY <1>2, <1>3, <1>4, <2>1
  <2> QED  BY <2>2
<1> QED  BY <1>3, <1>4

\* Min and Max of sets of places.
LEMMA Lowest ==
    ASSUME NEW S \in SUBSET Nat, S # {}
    PROVE  Min(S) \in S /\ \A m \in S : Min(S) <= m
BY LeastExists DEF Min

LEMMA Highest ==
    ASSUME NEW n \in Nat, NEW S \in SUBSET (1..n), S # {}
    PROVE  Max(S) \in S /\ \A m \in S : Max(S) >= m
<1> DEFINE T == {n - i : i \in S}
<1>1. T \in SUBSET Nat /\ T # {}
  <2>1. \A i \in S : n - i \in Nat
    OBVIOUS
  <2> QED  BY <2>1
<1>2. PICK k \in T : \A m \in T : k <= m
  <2> HIDE DEF T
  <2> QED  BY <1>1, LeastExists
<1>3. PICK i \in S : k = n - i
  OBVIOUS
<1>4. \A m \in S : i >= m
  <2> TAKE m \in S
  <2>1. n - m \in T /\ m \in Nat /\ i \in Nat
    OBVIOUS
  <2> QED  BY <1>2, <1>3, <2>1
<1> QED  BY <1>4 DEF Max

\* The words of c from the i-th on.
LEMMA FromIs ==
    ASSUME NEW c \in Commands, NEW i \in 1..(Len(c) + 1)
    PROVE  /\ From(c, i) \in Commands /\ Len(From(c, i)) = Len(c) - i + 1
           /\ \A j \in 1..(Len(c) - i + 1) : From(c, i)[j] = c[i + j - 1]
           /\ From(c, 1) = c
BY DEF From, Commands

\* Two commands are the same if they are as long and agree on every word.
LEMMA SameWords ==
    ASSUME NEW c \in Commands, NEW d \in Commands, Len(c) = Len(d),
           \A i \in 1..Len(c) : c[i] = d[i]
    PROVE  c = d
BY SeqEqual DEF Commands

\* The words of one command behind those of another.
LEMMA Joined ==
    ASSUME NEW c \in Commands, NEW d \in Commands
    PROVE  /\ c \o d \in Commands /\ Len(c \o d) = Len(c) + Len(d)
           /\ \A i \in 1..Len(c) : (c \o d)[i] = c[i]
           /\ \A i \in 1..Len(d) : (c \o d)[i + Len(c)] = d[i]
           /\ c # <<>> => c \o d # <<>> /\ Head(c \o d) = Head(c) /\ Tail(c \o d) = Tail(c) \o d
BY DEF Commands

\* The first word and those behind it.
LEMMA HeadTail ==
    ASSUME NEW c \in Commands, c # <<>>
    PROVE  /\ Len(c) \in Nat /\ Len(c) >= 1 /\ Head(c) = c[1] /\ Head(c) \in Words
           /\ Base[Head(c)] \in Words
           /\ Tail(c) \in Commands /\ Len(Tail(c)) = Len(c) - 1
           /\ \A i \in 1..(Len(c) - 1) : Tail(c)[i] = c[i + 1]
BY EngineAssumption DEF Commands

\* Dropping words leaves the command from the first that is not in S on.
LEMMA Drop ==
    ASSUME NEW c \in Commands, NEW S
    PROVE  \/ /\ DropAll(c, S) = <<>> /\ \A i \in 1..Len(c) : c[i] \in S
           \/ \E i \in 1..Len(c) : /\ DropAll(c, S) = From(c, i) /\ c[i] \notin S
                                   /\ \A j \in 1..(i - 1) : c[j] \in S
<1> DEFINE rest == {i \in DOMAIN c : c[i] \notin S}
<1>1. DOMAIN c = 1..Len(c) /\ Len(c) \in Nat
  BY DEF Commands
<1>2. CASE rest = {}
  BY <1>1, <1>2 DEF DropAll
<1>3. CASE rest # {}
  <2>1. rest \in SUBSET Nat
    BY <1>1
  <2>2. PICK i : i = Min(rest)
    OBVIOUS
  <2>3. i \in rest /\ \A m \in rest : i <= m
    <3> HIDE DEF rest
    <3> QED  BY <1>3, <2>1, <2>2, Lowest
  <2>4. \A j \in 1..(i - 1) : c[j] \in S
    BY <1>1, <2>3
  <2>5. DropAll(c, S) = From(c, i)
    BY <1>3, <2>2 DEF DropAll
  <2> QED  BY <1>1, <2>3, <2>4, <2>5
<1> QED  BY <1>2, <1>3

\* What skipWrapperOptions goes on with after an option, and where it stops.
Rest(c) == From(c, IF Head(c) = "-u" /\ Len(c) > 1 THEN 3 ELSE 2)
Plain   == {c \in Commands : c = <<>> \/ ~IsOption(Head(c))}

\* That is shorter, ...
LEMMA RestIs ==
    ASSUME NEW c \in Commands, c # <<>>
    PROVE  Rest(c) \in Commands /\ Len(Rest(c)) < Len(c)
<1>1. PICK i : i = (IF Head(c) = "-u" /\ Len(c) > 1 THEN 3 ELSE 2)
  OBVIOUS
<1>2. i \in 2..(Len(c) + 1) /\ Len(c) \in Nat
  BY <1>1, HeadTail
<1> QED  BY <1>1, <1>2, FromIs DEF Rest

\* ... so that the function which the recursion defines exists.
LEMMA SkipIs ==
    \A c \in Commands :
        SkipWrapperOptions[c] = IF c \in Plain THEN c ELSE SkipWrapperOptions[Rest(c)]
<1> DEFINE next == [c \in Commands |-> IF c \in Plain THEN c ELSE Rest(c)]
           size == [c \in Commands |-> Len(c)]
<1>1. next \in [Commands -> Commands] /\ size \in [Commands -> Nat]
  BY RestIs DEF Plain, Commands
<1>2. \A c \in Commands \ Plain : size[next[c]] < size[c]
  BY RestIs DEF Plain
<1>3. PICK h : Computes(h, Commands, next, Plain)
  <2> HIDE DEF next, size
  <2> QED  BY <1>1, <1>2, Recursion
<1> DEFINE g == [c \in Commands |-> h[c].parts]
           IsSkip(f) == f = [c \in Commands |-> IF c = <<>> \/ ~IsOption(Head(c)) THEN c
                            ELSE f[From(c, IF Head(c) = "-u" /\ Len(c) > 1 THEN 3 ELSE 2)]]
<1>4. \A c \in Commands : g[c] = IF c \in Plain THEN c ELSE g[Rest(c)]
  <2> TAKE c \in Commands
  <2>1. h[c] = Ending(h, next, Plain, c)
    BY <1>3 DEF Computes
  <2>2. CASE c \in Plain
    BY <2>1, <2>2 DEF Ending
  <2>3. CASE c \notin Plain
    <3>1. next[c] = Rest(c) /\ Rest(c) \in Commands
      BY <2>3, RestIs DEF Plain
    <3>2. h[c].parts = h[Rest(c)].parts
      BY <2>1, <2>3, <3>1 DEF Ending
    <3> QED  BY <2>3, <3>1, <3>2
  <2> QED  BY <2>2, <2>3
<1>5. IsSkip(g)
  <2>1. g = [c \in Commands |-> g[c]]
    OBVIOUS
  <2> HIDE DEF g
  <2>2. \A c \in Commands : g[c] = IF c = <<>> \/ ~IsOption(Head(c)) THEN c
                            ELSE g[From(c, IF Head(c) = "-u" /\ Len(c) > 1 THEN 3 ELSE 2)]
    BY <1>4, Zenon DEF Plain, Rest
  <2>3. [c \in Commands |-> g[c]] = [c \in Commands |-> IF c = <<>> \/ ~IsOption(Head(c)) THEN c
                            ELSE g[From(c, IF Head(c) = "-u" /\ Len(c) > 1 THEN 3 ELSE 2)]]
    BY <2>2, Zenon
  <2> QED  BY <2>1, <2>3
<1>6. IsSkip(SkipWrapperOptions)
  <2> HIDE DEF g
  <2>1. \E f : IsSkip(f)
    BY <1>5
  <2> QED  BY <2>1, Zenon DEF SkipWrapperOptions
<1>7. \A c \in Commands : SkipWrapperOptions[c] =
         IF c = <<>> \/ ~IsOption(Head(c)) THEN c
         ELSE SkipWrapperOptions[From(c, IF Head(c) = "-u" /\ Len(c) > 1 THEN 3 ELSE 2)]
  BY <1>6, Zenon
<1> QED  BY <1>7, Zenon DEF Plain, Rest

-----------------------------------------------------------------------------
(* One wrapper                                                             *)

\* What it leaves is a command and no longer.
Skipped == {c \in Commands : /\ SkipWrapperOptions[c] \in Commands
                             /\ Len(SkipWrapperOptions[c]) <= Len(c)}

LEMMA SkipShortens ==
    \A c \in Commands : /\ SkipWrapperOptions[c] \in Commands
                        /\ Len(SkipWrapperOptions[c]) <= Len(c)
<1>1. ASSUME NEW c \in Commands, \A d \in Commands : Len(d) < Len(c) => d \in Skipped
      PROVE  c \in Skipped
  <2>0. Len(c) \in Nat
    BY DEF Commands
  <2>1. CASE c \in Plain
    BY <2>0, <2>1, SkipIs DEF Skipped
  <2>2. CASE c \notin Plain
    <3>1. Rest(c) \in Commands /\ Len(Rest(c)) < Len(c) /\ Rest(c) \in Skipped
      BY <1>1, <2>2, RestIs DEF Plain
    <3>2. Len(Rest(c)) \in Nat /\ Len(SkipWrapperOptions[Rest(c)]) \in Nat
      BY <3>1 DEF Skipped, Commands
    <3>3. SkipWrapperOptions[c] = SkipWrapperOptions[Rest(c)]
      BY <2>2, SkipIs
    <3> QED  BY <2>0, <3>1, <3>2, <3>3 DEF Skipped
  <2> QED  BY <2>1, <2>2
<1>2. \A c \in Commands : c \in Skipped
  BY <1>1, ByLength, Zenon
<1> QED  BY <1>2 DEF Skipped

\* Where sh finds a -c with a command behind it, and what env skips.
DashC(c) == {i \in 2..(Len(c) - 1) : c[i] = "-c"}
Assigned == {"A=b", "-i", "-u"}

\* What each wrapper runs.
LEMMA InnerIs ==
    ASSUME NEW c \in Commands, c # <<>>
    PROVE  /\ Base[Head(c)] = "env" => Inner(c) = OrSelf(DropAll(Tail(c), Assigned), c)
           /\ Base[Head(c)] = "sudo" => Inner(c) = OrSelf(SkipWrapperOptions[Tail(c)], c)
           /\ Base[Head(c)] \in {"command", "xargs"} => Inner(c) = OrSelf(Tail(c), c)
           /\ Base[Head(c)] = "eval" =>
                Inner(c) = IF Tail(c) = <<>> THEN c ELSE Unquoted(Tail(c))
           /\ Base[Head(c)] = "sh" =>
                Inner(c) = IF DashC(c) = {} THEN c ELSE From(c, Min(DashC(c)) + 1)
           /\ Base[Head(c)] \notin WrapperNames => Inner(c) = c
<1>1. ASSUME Base[Head(c)] = "env" PROVE Inner(c) = OrSelf(DropAll(Tail(c), Assigned), c)
  BY <1>1 DEF Inner, SkipEnvAssignments, Assigned
<1>2. ASSUME Base[Head(c)] = "sudo" PROVE Inner(c) = OrSelf(SkipWrapperOptions[Tail(c)], c)
  BY <1>2 DEF Inner
<1>3. ASSUME Base[Head(c)] \in {"command", "xargs"} PROVE Inner(c) = OrSelf(Tail(c), c)
  BY <1>3 DEF Inner
<1>4. ASSUME Base[Head(c)] = "eval"
      PROVE  Inner(c) = IF Tail(c) = <<>> THEN c ELSE Unquoted(Tail(c))
  BY <1>4 DEF Inner
<1>5. ASSUME Base[Head(c)] = "sh"
      PROVE  Inner(c) = IF DashC(c) = {} THEN c ELSE From(c, Min(DashC(c)) + 1)
  BY <1>5 DEF Inner, DashC
<1>6. ASSUME Base[Head(c)] \notin WrapperNames PROVE Inner(c) = c
  BY <1>6 DEF Inner, WrapperNames
<1> QED  BY <1>1, <1>2, <1>3, <1>4, <1>5, <1>6

\* So is what is left when words are dropped, ...
LEMMA DropShortens ==
    ASSUME NEW c \in Commands, NEW S
    PROVE  DropAll(c, S) \in Commands /\ Len(DropAll(c, S)) <= Len(c)
<1>1. Len(c) \in Nat /\ <<>> \in Commands /\ Len(<<>>) = 0
  BY DEF Commands
<1>2. ASSUME NEW i \in 1..Len(c) PROVE From(c, i) \in Commands /\ Len(From(c, i)) <= Len(c)
  <2>1. i \in 1..(Len(c) + 1)
    BY <1>1
  <2> QED  BY <1>1, <2>1, FromIs
<1> QED  BY <1>1, <1>2, Drop

\* ... and when quotes are stripped.
LEMMA UnquotedShortens ==
    ASSUME NEW c \in Commands
    PROVE  Unquoted(c) \in Commands /\ Len(Unquoted(c)) <= Len(c)
<1> DEFINE words == {i \in DOMAIN c : c[i] # "''"}
<1>1. DOMAIN c = 1..Len(c) /\ Len(c) \in Nat /\ <<>> \in Commands /\ Len(<<>>) = 0
  BY DEF Commands
<1>2. CASE words = {}
  BY <1>1, <1>2 DEF Unquoted
<1>3. CASE words # {}
  <2>1. PICK a, b : a = Min(words) /\ b = Max(words)
    OBVIOUS
  <2>2. a \in words /\ b \in words /\ a <= b
    <3>1. words \in SUBSET Nat /\ words \in SUBSET (1..Len(c))
      BY <1>1
    <3> HIDE DEF words
    <3> QED  BY <1>1, <1>3, <2>1, <3>1, Lowest, Highest
  <2>3. a \in 1..Len(c) /\ b \in 1..Len(c)
    BY <1>1, <2>2
  <2>4. SubSeq(c, a, b) \in Commands /\ Len(SubSeq(c, a, b)) <= Len(c)
    BY <1>1, <2>2, <2>3 DEF Commands
  <2> QED  BY <1>3, <2>1, <2>4 DEF Unquoted
<1> QED  BY <1>2, <1>3

\* The -c after which sh finds its command is the first with a word behind it.
LEMMA DashCIs ==
    ASSUME NEW c \in Commands, DashC(c) # {}
    PROVE  /\ Min(DashC(c)) \in 2..(Len(c) - 1) /\ c[Min(DashC(c))] = "-c"
           /\ \A i \in 2..(Min(DashC(c)) - 1) : c[i] # "-c"
<1>1. DashC(c) \in SUBSET Nat
  BY DEF DashC, Commands
<1>2. PICK n : n = Min(DashC(c))
  OBVIOUS
<1>3. n \in DashC(c) /\ \A m \in DashC(c) : n <= m
  BY <1>1, <1>2, Lowest
<1>4. n \in 2..(Len(c) - 1) /\ c[n] = "-c" /\ Len(c) \in Nat
  BY <1>3 DEF DashC, Commands
<1>5. ASSUME NEW i \in 2..(n - 1) PROVE c[i] # "-c"
  <2>1. i \notin DashC(c) /\ i \in 2..(Len(c) - 1)
    BY <1>3, <1>4
  <2> QED  BY <2>1 DEF DashC
<1> QED  BY <1>2, <1>4, <1>5

\* What is run is a shorter command, or there is no wrapper.
LEMMA InnerShortens ==
    ASSUME NEW c \in Commands, c # <<>>
    PROVE  /\ Inner(c) \in Commands
           /\ Inner(c) = c \/ Len(Inner(c)) < Len(c)
           /\ Inner(c) # c => Base[Head(c)] \in WrapperNames
<1>1. /\ Len(c) \in Nat /\ Tail(c) \in Commands /\ Len(Tail(c)) = Len(c) - 1
  BY HeadTail
<1>2. ASSUME NEW d \in Commands, Len(d) <= Len(Tail(c))
      PROVE  OrSelf(d, c) \in Commands /\ (OrSelf(d, c) = c \/ Len(OrSelf(d, c)) < Len(c))
  <2>1. Len(d) \in Nat
    BY DEF Commands
  <2> QED  BY <1>1, <1>2, <2>1 DEF OrSelf
<1>3. CASE Base[Head(c)] = "env"
  BY <1>1, <1>2, <1>3, InnerIs, DropShortens DEF WrapperNames
<1>4. CASE Base[Head(c)] = "sudo"
  BY <1>1, <1>2, <1>4, InnerIs, SkipShortens DEF WrapperNames
<1>5. CASE Base[Head(c)] \in {"command", "xargs"}
  <2>1. PICK d : d = Tail(c)
    OBVIOUS
  <2>3. d \in Commands /\ Len(d) <= Len(Tail(c))
    BY <1>1, <2>1
  <2>2. /\ OrSelf(d, c) \in Commands
        /\ OrSelf(d, c) = c \/ Len(OrSelf(d, c)) < Len(c)
    BY <1>2, <2>3
  <2> QED  BY <1>5, <2>1, <2>2, InnerIs DEF WrapperNames
<1>6. CASE Base[Head(c)] = "eval"
  <2>1. Unquoted(Tail(c)) \in Commands /\ Len(Unquoted(Tail(c))) <= Len(Tail(c))
    BY <1>1, UnquotedShortens
  <2>2. Len(Unquoted(Tail(c))) \in Nat
    BY <2>1 DEF Commands
  <2> QED  BY <1>1, <1>6, <2>1, <2>2, InnerIs DEF WrapperNames
<1>7. CASE Base[Head(c)] = "sh"
  <2>1. CASE DashC(c) = {}
    BY <1>7, <2>1, InnerIs DEF WrapperNames
  <2>2. CASE DashC(c) # {}
    <3>1. PICK n : n = Min(DashC(c)) + 1
      OBVIOUS
    <3>2. n \in 2..(Len(c) + 1) /\ n \in 1..(Len(c) + 1)
      BY <1>1, <2>2, <3>1, DashCIs
    <3>3. From(c, n) \in Commands /\ Len(From(c, n)) < Len(c)
      BY <1>1, <3>2, FromIs
    <3> QED  BY <1>7, <2>2, <3>1, <3>3, InnerIs DEF WrapperNames
  <2> QED  BY <2>1, <2>2
<1>8. CASE Base[Head(c)] \notin WrapperNames
  BY <1>8, InnerIs
<1> QED  BY <1>3, <1>4, <1>5, <1>6, <1>7, <1>8 DEF WrapperNames

\* Commands without a wrapper, and normalizeWrappedCommand by its recursion.
Bare == {c \in Commands : c = <<>> \/ Inner(c) = c}

LEMMA UnwrapIs ==
    \A c \in Commands :
        Unwrap[c] = IF c \in Bare THEN [parts |-> c, wrappers |-> 0]
                    ELSE [Unwrap[Inner(c)] EXCEPT !.wrappers = @ + 1]
<1> DEFINE next == [c \in Commands |-> IF c \in Bare THEN c ELSE Inner(c)]
           size == [c \in Commands |-> Len(c)]
<1>1. next \in [Commands -> Commands] /\ size \in [Commands -> Nat]
  BY InnerShortens DEF Bare, Commands
<1>2. \A c \in Commands \ Bare : size[next[c]] < size[c]
  BY InnerShortens DEF Bare
<1>3. PICK h : Computes(h, Commands, next, Bare)
  <2> HIDE DEF next, size
  <2> QED  BY <1>1, <1>2, Recursion
<1> DEFINE IsUnwrap(f) ==
             f = [c \in Commands |-> IF c = <<>> \/ Inner(c) = c
                                     THEN [parts |-> c, wrappers |-> 0]
                                     ELSE LET u == f[Inner(c)]
                                          IN  [u EXCEPT !.wrappers = @ + 1]]
<1>4. \A c \in Commands : h[c] = IF c \in Bare THEN [parts |-> c, wrappers |-> 0]
                                 ELSE [h[Inner(c)] EXCEPT !.wrappers = @ + 1]
  <2> TAKE c \in Commands
  <2>1. h[c] = Ending(h, next, Bare, c)
    BY <1>3 DEF Computes
  <2>2. CASE c \in Bare
    BY <2>1, <2>2 DEF Ending
  <2>3. CASE c \notin Bare
    <3>1. next[c] = Inner(c) /\ Inner(c) \in Commands
      BY <2>3, InnerShortens DEF Bare
    <3>2. PICK r : r = h[Inner(c)]
      OBVIOUS
    <3>3. r \in Results(Commands) /\ h[c] = [parts |-> r.parts, wrappers |-> r.wrappers + 1]
      BY <1>3, <2>1, <2>3, <3>1, <3>2 DEF Ending, Computes
    <3>4. [r EXCEPT !.wrappers = @ + 1] = [parts |-> r.parts, wrappers |-> r.wrappers + 1]
      BY <3>3 DEF Results
    <3> QED  BY <2>3, <3>2, <3>3, <3>4
  <2> QED  BY <2>2, <2>3
<1>5. IsUnwrap(h)
  <2>1. h = [c \in Commands |-> h[c]]
    BY <1>3 DEF Computes
  <2>2. \A c \in Commands : h[c] = IF c = <<>> \/ Inner(c) = c
                                     THEN [parts |-> c, wrappers |-> 0]
                                     ELSE LET u == h[Inner(c)]
                                          IN  [u EXCEPT !.wrappers = @ + 1]
    BY <1>4, Zenon DEF Bare
  <2>3. [c \in Commands |-> h[c]] =
          [c \in Commands |-> IF c = <<>> \/ Inner(c) = c
                                     THEN [parts |-> c, wrappers |-> 0]
                                     ELSE LET u == h[Inner(c)]
                                          IN  [u EXCEPT !.wrappers = @ + 1]]
    BY <2>2, Zenon
  <2> QED  BY <2>1, <2>3
<1>6. IsUnwrap(Unwrap)
  <2>1. \E f : IsUnwrap(f)
    BY <1>5
  <2> QED  BY <2>1, Zenon DEF Unwrap
<1>7. \A c \in Commands : Unwrap[c] =
         IF c = <<>> \/ Inner(c) = c THEN [parts |-> c, wrappers |-> 0]
         ELSE LET u == Unwrap[Inner(c)] IN [u EXCEPT !.wrappers = @ + 1]
  BY <1>6, Zenon
<1> QED  BY <1>7, Zenon DEF Bare

-----------------------------------------------------------------------------
(* Quotes behind a command                                                 *)

\* It returns words and a number.
Unwrapped == {c \in Commands : Unwrap[c] \in Results(Commands)}

LEMMA UnwrapTyped == \A c \in Commands : Unwrap[c] \in Results(Commands)
<1>1. ASSUME NEW c \in Commands, \A d \in Commands : Len(d) < Len(c) => d \in Unwrapped
      PROVE  c \in Unwrapped
  <2>1. CASE c \in Bare
    <3>1. Unwrap[c] = [parts |-> c, wrappers |-> 0]
      BY <2>1, UnwrapIs
    <3>2. [parts |-> c, wrappers |-> 0] \in Results(Commands)
      BY DEF Results
    <3> QED  BY <3>1, <3>2 DEF Unwrapped
  <2>2. CASE c \notin Bare
    <3>1. Inner(c) \in Unwrapped
      BY <1>1, <2>2, InnerShortens DEF Bare
    <3>2. PICK r \in Results(Commands) : r = Unwrap[Inner(c)]
      BY <3>1 DEF Unwrapped
    <3>3. [r EXCEPT !.wrappers = @ + 1] \in Results(Commands)
      BY DEF Results
    <3> QED  BY <2>2, <3>2, <3>3, UnwrapIs DEF Unwrapped
  <2> QED  BY <2>1, <2>2
<1>2. \A c \in Commands : c \in Unwrapped
  BY <1>1, ByLength, Zenon
<1> QED  BY <1>2 DEF Unwrapped

\* One wrapper more.
LEMMA UnwrapOnce ==
    ASSUME NEW c \in Commands, c # <<>>, Inner(c) # c
    PROVE  /\ Inner(c) \in Commands
           /\ Unwrap[c].parts = Unwrap[Inner(c)].parts
           /\ Unwrap[c].wrappers = Unwrap[Inner(c)].wrappers + 1
<1>1. Inner(c) \in Commands
  BY InnerShortens
<1>2. PICK r \in Results(Commands) : r = Unwrap[Inner(c)]
  BY <1>1, UnwrapTyped
<1>3. /\ [r EXCEPT !.wrappers = @ + 1].parts = r.parts
      /\ [r EXCEPT !.wrappers = @ + 1].wrappers = r.wrappers + 1
  BY DEF Results
<1>4. Unwrap[c] = [r EXCEPT !.wrappers = @ + 1]
  BY <1>2, UnwrapIs DEF Bare
<1> QED  BY <1>1, <1>2, <1>3, <1>4

\* No wrapper, nothing to take off.
LEMMA UnwrapBare ==
    ASSUME NEW c \in Commands, c = <<>> \/ Inner(c) = c
    PROVE  Unwrap[c].parts = c /\ Unwrap[c].wrappers = 0
<1>1. c \in Bare
  BY DEF Bare
<1>2. Unwrap[c] = [parts |-> c, wrappers |-> 0]
  BY <1>1, UnwrapIs
<1> QED  BY <1>2

\* Words that are pairs of quotes with nothing inside.
Quotes == {q \in Commands : \A i \in 1..Len(q) : q[i] = "''"}

\* Quotes are no option, no assignment, no wrapper and no program of their own.
LEMMA QuotesAre ==
    /\ <<>> \in Quotes
    /\ "''" \in Words /\ Base["''"] = "''" /\ ~IsOption("''") /\ "''" \notin Assigned
    /\ "''" \notin WrapperNames
    /\ \A q \in Quotes : q # <<>> => Head(q) = "''" /\ Tail(q) \in Quotes
    /\ \A q \in Quotes : \A i \in 1..(Len(q) + 1) : From(q, i) \in Quotes
<1>1. /\ <<>> \in Quotes
      /\ "''" \in Words /\ Base["''"] = "''" /\ ~IsOption("''") /\ "''" \notin Assigned
      /\ "''" \notin WrapperNames
  BY EngineAssumption
     DEF Quotes, Commands, ShellWords, IsOption, FlagWords, Assigned, WrapperNames
<1>2. ASSUME NEW q \in Quotes, q # <<>> PROVE Head(q) = "''" /\ Tail(q) \in Quotes
  <2>1. q \in Commands
    BY DEF Quotes
  <2>2. /\ Len(q) \in Nat /\ Len(q) >= 1 /\ Head(q) = q[1]
        /\ Tail(q) \in Commands /\ Len(Tail(q)) = Len(q) - 1
        /\ \A i \in 1..(Len(q) - 1) : Tail(q)[i] = q[i + 1]
    BY <1>2, <2>1, HeadTail
  <2>3. Head(q) = "''" /\ \A i \in 1..(Len(q) - 1) : Tail(q)[i] = "''"
    BY <2>2 DEF Quotes
  <2> QED  BY <2>2, <2>3 DEF Quotes
<1>3. ASSUME NEW q \in Quotes, NEW i \in 1..(Len(q) + 1) PROVE From(q, i) \in Quotes
  <2>1. q \in Commands /\ Len(q) \in Nat
    BY DEF Quotes, Commands
  <2>2. /\ From(q, i) \in Commands /\ Len(From(q, i)) = Len(q) - i + 1
        /\ \A j \in 1..(Len(q) - i + 1) : From(q, i)[j] = q[i + j - 1]
    BY <2>1, FromIs
  <2>3. \A j \in 1..(Len(q) - i + 1) : i + j - 1 \in 1..Len(q)
    BY <2>1
  <2> QED  BY <2>2, <2>3 DEF Quotes
<1> QED  BY <1>1, <1>2, <1>3

\* Taking words off the front and putting words behind it does not interfere.
LEMMA JoinedLater ==
    ASSUME NEW c \in Commands, NEW d \in Commands, NEW i \in 1..(Len(c) + 1)
    PROVE  From(c \o d, i) = From(c, i) \o d
<1>1. PICK e : e = c \o d
  OBVIOUS
<1>2. /\ e \in Commands /\ Len(e) = Len(c) + Len(d) /\ Len(c) \in Nat /\ Len(d) \in Nat
      /\ \A j \in 1..Len(c) : e[j] = c[j]
      /\ \A j \in 1..Len(d) : e[j + Len(c)] = d[j]
  BY <1>1, Joined DEF Commands
<1>3. PICK a, b, f : a = From(e, i) /\ b = From(c, i) /\ f = b \o d
  OBVIOUS
<1>4. /\ a \in Commands /\ Len(a) = Len(e) - i + 1
      /\ \A j \in 1..(Len(e) - i + 1) : a[j] = e[i + j - 1]
  <2>1. i \in 1..(Len(e) + 1)
    BY <1>2
  <2> QED  BY <1>2, <1>3, <2>1, FromIs
<1>5. /\ b \in Commands /\ Len(b) = Len(c) - i + 1
      /\ \A j \in 1..(Len(c) - i + 1) : b[j] = c[i + j - 1]
  BY <1>3, FromIs
<1>6. /\ f \in Commands /\ Len(f) = Len(b) + Len(d)
      /\ \A j \in 1..Len(b) : f[j] = b[j]
      /\ \A j \in 1..Len(d) : f[j + Len(b)] = d[j]
  <2>1. /\ b \o d \in Commands /\ Len(b \o d) = Len(b) + Len(d)
        /\ \A j \in 1..Len(b) : (b \o d)[j] = b[j]
        /\ \A j \in 1..Len(d) : (b \o d)[j + Len(b)] = d[j]
    BY <1>5, Joined
  <2> QED  BY <1>3, <2>1
<1>7. Len(a) = Len(f)
  BY <1>2, <1>4, <1>5, <1>6
<1>8. ASSUME NEW j \in 1..Len(a) PROVE a[j] = f[j]
  <2>1. a[j] = e[i + j - 1]
    BY <1>4
  <2>2. CASE j <= Len(b)
    <3>1. j \in 1..Len(b) /\ i + j - 1 \in 1..Len(c)
      BY <1>2, <1>5, <2>2
    <3> QED  BY <1>2, <1>5, <1>6, <2>1, <3>1
  <2>3. CASE ~(j <= Len(b))
    <3>1. PICK k : k = j - Len(b)
      OBVIOUS
    <3>2. k \in 1..Len(d) /\ k + Len(b) = j /\ k + Len(c) = i + j - 1
      BY <1>2, <1>4, <1>5, <2>3, <3>1
    <3>3. f[k + Len(b)] = d[k] /\ e[k + Len(c)] = d[k]
      BY <1>2, <1>6, <3>2
    <3> QED  BY <2>1, <3>2, <3>3
  <2> QED  BY <1>4, <1>5, <2>2, <2>3
<1> QED  BY <1>1, <1>3, <1>4, <1>6, <1>7, <1>8, SameWords

\* What is dropped does not change when quotes follow, unless all is dropped.
LEMMA DropQuotes ==
    ASSUME NEW c \in Commands, NEW q \in Quotes, NEW S, "''" \notin S
    PROVE  \/ /\ DropAll(c, S) # <<>> /\ DropAll(c \o q, S) = DropAll(c, S) \o q
           \/ /\ DropAll(c, S) = <<>> /\ DropAll(c \o q, S) = q
<1>0. q \in Commands /\ Len(q) \in Nat /\ Len(c) \in Nat
  BY DEF Quotes, Commands
<1>1. PICK e : e = c \o q
  OBVIOUS
<1>2. /\ e \in Commands /\ Len(e) = Len(c) + Len(q)
      /\ \A j \in 1..Len(c) : e[j] = c[j]
      /\ \A j \in 1..Len(q) : e[j + Len(c)] = q[j]
  BY <1>0, <1>1, Joined
<1>3. \A j \in 1..Len(q) : e[j + Len(c)] = "''"
  BY <1>2 DEF Quotes
<1>4. CASE DropAll(c, S) = <<>> /\ \A i \in 1..Len(c) : c[i] \in S
  <2>1. CASE DropAll(e, S) = <<>> /\ \A i \in 1..Len(e) : e[i] \in S
    <3>1. Len(q) = 0
      <4> SUFFICES ASSUME Len(q) # 0 PROVE FALSE
        OBVIOUS
      <4>1. 1 \in 1..Len(q) /\ 1 + Len(c) \in 1..Len(e)
        BY <1>0, <1>2
      <4> QED  BY <1>3, <2>1, <4>1
    <3>2. q = <<>>
      BY <1>0, <3>1 DEF Commands
    <3> QED  BY <1>1, <1>4, <2>1, <3>2
  <2>2. CASE \E i \in 1..Len(e) : /\ DropAll(e, S) = From(e, i) /\ e[i] \notin S
                                  /\ \A j \in 1..(i - 1) : e[j] \in S
    <3>1. PICK i \in 1..Len(e) : /\ DropAll(e, S) = From(e, i) /\ e[i] \notin S
                                 /\ \A j \in 1..(i - 1) : e[j] \in S
      BY <2>2
    <3>2. i \notin 1..Len(c)
      BY <1>2, <1>4, <3>1
    <3>3. ~(i > Len(c) + 1)
      <4> SUFFICES ASSUME i > Len(c) + 1 PROVE FALSE
        OBVIOUS
      <4>1. 1 \in 1..Len(q) /\ 1 + Len(c) \in 1..(i - 1)
        BY <1>0, <1>2
      <4> QED  BY <1>3, <3>1, <4>1
    <3>4. i = Len(c) + 1
      BY <1>0, <3>2, <3>3
    <3>5. From(e, i) = From(c, i) \o q /\ From(c, i) \in Commands /\ Len(From(c, i)) = 0
      <4>1. i \in 1..(Len(c) + 1) /\ Len(c) - i + 1 = 0
        BY <1>0, <3>4
      <4>2. From(c, i) \in Commands /\ Len(From(c, i)) = 0
        BY <4>1, FromIs
      <4> QED  BY <1>0, <1>1, <4>1, <4>2, JoinedLater
    <3>6. From(c, i) \o q = q
      BY <1>0, <3>5 DEF Commands
    <3> QED  BY <1>1, <1>4, <3>1, <3>5, <3>6
  <2> QED  BY <1>2, <2>1, <2>2, Drop
<1>5. CASE \E i \in 1..Len(c) : /\ DropAll(c, S) = From(c, i) /\ c[i] \notin S
                                /\ \A j \in 1..(i - 1) : c[j] \in S
  <2>1. PICK i \in 1..Len(c) : /\ DropAll(c, S) = From(c, i) /\ c[i] \notin S
                               /\ \A j \in 1..(i - 1) : c[j] \in S
    BY <1>5
  <2>2. i \in 1..Len(e) /\ e[i] \notin S /\ \A j \in 1..(i - 1) : e[j] \in S
    BY <1>0, <1>2, <2>1
  <2>3. DropAll(e, S) = From(e, i)
    <3>1. ~(\A j \in 1..Len(e) : e[j] \in S)
      BY <2>2
    <3>2. PICK k \in 1..Len(e) : /\ DropAll(e, S) = From(e, k) /\ e[k] \notin S
                                 /\ \A j \in 1..(k - 1) : e[j] \in S
      BY <1>2, <3>1, Drop
    <3>3. ~(k < i) /\ ~(i < k)
      BY <1>0, <2>2, <3>2
    <3>4. k = i
      BY <1>0, <3>3
    <3> QED  BY <3>2, <3>4
  <2>4. i \in 1..(Len(c) + 1) /\ Len(From(c, i)) # 0
    BY <1>0, FromIs
  <2>5. From(e, i) = From(c, i) \o q /\ From(c, i) # <<>>
    BY <1>0, <1>1, <2>4, JoinedLater, FromIs
  <2> QED  BY <1>1, <2>1, <2>3, <2>5
<1> QED  BY <1>4, <1>5, Drop

\* Quotes as a command.
LEMMA QuotesTyped ==
    ASSUME NEW q \in Quotes
    PROVE  /\ q \in Commands /\ Len(q) \in Nat /\ \A i \in 1..Len(q) : q[i] = "''"
           /\ <<>> \o q = q /\ (q = <<>> <=> Len(q) = 0)
BY DEF Quotes, Commands

\* What is left of a command with quotes behind it once its own words are gone.
LEMMA QuotesBehind ==
    ASSUME NEW c \in Commands, NEW q \in Quotes,
           NEW i \in (Len(c) + 1)..(Len(c) + Len(q) + 1)
    PROVE  From(c \o q, i) \in Quotes
<1>1. PICK e : e = c \o q
  OBVIOUS
<1>2. /\ e \in Commands /\ Len(e) = Len(c) + Len(q) /\ Len(c) \in Nat /\ Len(q) \in Nat
      /\ \A j \in 1..Len(q) : e[j + Len(c)] = q[j]
  BY <1>1, QuotesTyped, Joined DEF Commands
<1>3. /\ From(e, i) \in Commands /\ Len(From(e, i)) = Len(e) - i + 1
      /\ \A j \in 1..(Len(e) - i + 1) : From(e, i)[j] = e[i + j - 1]
  <2>1. i \in 1..(Len(e) + 1)
    BY <1>2
  <2> QED  BY <1>2, <2>1, FromIs
<1>4. ASSUME NEW j \in 1..Len(From(e, i)) PROVE From(e, i)[j] = "''"
  <2>1. PICK k : k = i + j - 1 - Len(c)
    OBVIOUS
  <2>2. k \in 1..Len(q) /\ k + Len(c) = i + j - 1
    BY <1>2, <1>3, <2>1
  <2>3. e[k + Len(c)] = "''"
    BY <1>2, <2>2, QuotesTyped
  <2> QED  BY <1>3, <2>2, <2>3
<1> QED  BY <1>1, <1>3, <1>4 DEF Quotes

\* skipWrapperOptions leaves quotes alone, ...
LEMMA SkipOfQuotes ==
    ASSUME NEW q \in Quotes
    PROVE  SkipWrapperOptions[q] = q
<1>1. q \in Plain
  BY QuotesTyped, QuotesAre DEF Plain
<1> QED  BY <1>1, QuotesTyped, SkipIs

\* ... and quotes behind a command stay behind what it leaves, or are all of it.
SameSkip(c, q) ==
    \/ /\ SkipWrapperOptions[c] # <<>>
       /\ SkipWrapperOptions[c \o q] = SkipWrapperOptions[c] \o q
    \/ SkipWrapperOptions[c] = <<>> /\ SkipWrapperOptions[c \o q] \in Quotes
SkipsSame == {c \in Commands : \A q \in Quotes : SameSkip(c, q)}

\* So for every command, by its length.
LEMMA SkipQuotes ==
    \A c \in Commands : \A q \in Quotes : SameSkip(c, q)
<1>1. ASSUME NEW c \in Commands, \A d \in Commands : Len(d) < Len(c) => d \in SkipsSame,
             NEW q \in Quotes
      PROVE  SameSkip(c, q)
  <2>1. q \in Commands /\ Len(q) \in Nat /\ Len(c) \in Nat
    BY QuotesTyped DEF Commands
  <2>2. CASE c = <<>>
    <3>1. c \o q = q /\ c \in Plain
      BY <2>2, QuotesTyped DEF Plain
    <3> QED  BY <2>2, <3>1, SkipOfQuotes, SkipIs DEF SameSkip
  <2>3. CASE c # <<>>
    <3>1. PICK e : e = c \o q
      OBVIOUS
    <3>2. e \in Commands /\ e # <<>> /\ Head(e) = Head(c) /\ Len(e) = Len(c) + Len(q)
      BY <2>1, <2>3, <3>1, Joined
    <3>3. CASE ~IsOption(Head(c))
      <4>1. c \in Plain /\ e \in Plain
        BY <3>2, <3>3 DEF Plain
      <4>2. SkipWrapperOptions[c] = c /\ SkipWrapperOptions[e] = e
        BY <4>1, <3>2, SkipIs
      <4> QED  BY <2>3, <3>1, <4>2 DEF SameSkip
    <3>4. CASE IsOption(Head(c))
      <4>1. /\ SkipWrapperOptions[c] = SkipWrapperOptions[Rest(c)]
            /\ SkipWrapperOptions[e] = SkipWrapperOptions[Rest(e)]
        <5>1. c \notin Plain /\ e \notin Plain
          BY <2>3, <3>2, <3>4 DEF Plain
        <5> QED  BY <3>2, <5>1, SkipIs
      <4>2. PICK i, j : /\ i = (IF Head(c) = "-u" /\ Len(c) > 1 THEN 3 ELSE 2)
                        /\ j = (IF Head(e) = "-u" /\ Len(e) > 1 THEN 3 ELSE 2)
        OBVIOUS
      <4>3. Rest(c) = From(c, i) /\ Rest(e) = From(e, j)
        BY <4>2 DEF Rest
      <4>4. Len(c) >= 1
        BY <2>3, HeadTail
      <4>5. CASE Len(c) > 1
        <5>1. i = j /\ i \in 1..(Len(c) + 1)
          BY <2>1, <3>2, <4>2, <4>5
        <5>2. Rest(e) = Rest(c) \o q
          BY <2>1, <3>1, <4>3, <5>1, JoinedLater
        <5>3. Rest(c) \in SkipsSame
          BY <1>1, <2>3, RestIs
        <5> QED  BY <3>1, <4>1, <5>2, <5>3 DEF SkipsSame, SameSkip
      <4>6. CASE Len(c) = 1
        <5>1. Rest(c) = <<>>
          <6>1. i = 2 /\ i \in 1..(Len(c) + 1) /\ Len(c) - i + 1 = 0
            BY <4>2, <4>6
          <6>2. From(c, i) \in Commands /\ Len(From(c, i)) = 0
            BY <6>1, FromIs
          <6> QED  BY <4>3, <6>2 DEF Commands
        <5>2. Rest(e) \in Quotes
          <6>1. j \in (Len(c) + 1)..(Len(c) + Len(q) + 1)
            BY <2>1, <3>2, <4>2, <4>6
          <6> QED  BY <3>1, <4>3, <6>1, QuotesBehind
        <5>3. SkipWrapperOptions[<<>>] = <<>>
          BY QuotesAre, SkipOfQuotes
        <5> QED  BY <3>1, <4>1, <5>1, <5>2, <5>3, SkipOfQuotes DEF SameSkip
      <4>7. Len(c) > 1 \/ Len(c) = 1
        <5>1. PICK n : n = Len(c)
          OBVIOUS
        <5>2. n \in Nat /\ n >= 1
          BY <2>1, <4>4, <5>1
        <5>3. n > 1 \/ n = 1
          BY <5>2
        <5> QED  BY <5>1, <5>3
      <4> QED  BY <4>5, <4>6, <4>7
    <3> QED  BY <3>3, <3>4
  <2> QED  BY <2>2, <2>3
<1>2. \A c \in Commands : c \in SkipsSame
  <2>1. ASSUME NEW c \in Commands, \A d \in Commands : Len(d) < Len(c) => d \in SkipsSame
        PROVE  c \in SkipsSame
    BY <1>1, <2>1 DEF SkipsSame
  <2> QED  BY <2>1, ByLength, Zenon
<1> QED  BY <1>2 DEF SkipsSame

\* eval strips quotes from the end, however many.
LEMMA UnquotedQuotes ==
    ASSUME NEW c \in Commands, NEW q \in Quotes
    PROVE  Unquoted(c \o q) = Unquoted(c)
<1>1. PICK e : e = c \o q
  OBVIOUS
<1>2. /\ e \in Commands /\ Len(e) = Len(c) + Len(q) /\ Len(c) \in Nat /\ Len(q) \in Nat
      /\ \A j \in 1..Len(c) : e[j] = c[j]
      /\ \A j \in 1..Len(q) : e[j + Len(c)] = "''"
      /\ DOMAIN e = 1..Len(e) /\ DOMAIN c = 1..Len(c)
  <2>1. q \in Commands /\ Len(q) \in Nat
    BY QuotesTyped
  <2>2. /\ e \in Commands /\ Len(e) = Len(c) + Len(q)
        /\ \A j \in 1..Len(c) : e[j] = c[j]
        /\ \A j \in 1..Len(q) : e[j + Len(c)] = q[j]
    BY <1>1, <2>1, Joined
  <2>3. \A j \in 1..Len(q) : q[j] = "''"
    BY QuotesTyped
  <2>4. Len(c) \in Nat /\ DOMAIN e = 1..Len(e) /\ DOMAIN c = 1..Len(c)
    BY <2>2 DEF Commands
  <2> QED  BY <2>1, <2>2, <2>3, <2>4
<1> DEFINE words(d) == {i \in DOMAIN d : d[i] # "''"}
<1>3. words(e) = words(c)
  <2>1. ASSUME NEW i \in 1..Len(e), ~(i \in 1..Len(c)) PROVE e[i] = "''"
    <3>1. PICK k : k = i - Len(c)
      OBVIOUS
    <3>2. k \in 1..Len(q) /\ k + Len(c) = i
      BY <1>2, <2>1, <3>1
    <3> QED  BY <1>2, <3>2
  <2>2. \A i \in 1..Len(c) : i \in 1..Len(e)
    BY <1>2
  <2> QED  BY <1>2, <2>1, <2>2
<1>4. CASE words(c) = {}
  BY <1>1, <1>3, <1>4 DEF Unquoted
<1>5. CASE words(c) # {}
  <2>1. PICK a, b : a = Min(words(c)) /\ b = Max(words(c))
    OBVIOUS
  <2>2. a \in words(c) /\ b \in words(c) /\ a <= b
    <3>1. words(c) \in SUBSET Nat /\ words(c) \in SUBSET (1..Len(c))
      BY <1>2
    <3> HIDE DEF words
    <3> QED  BY <1>2, <1>5, <2>1, <3>1, Lowest, Highest
  <2>3. a \in 1..Len(c) /\ b \in 1..Len(c)
    BY <1>2, <2>2
  <2>4. SubSeq(e, a, b) = SubSeq(c, a, b)
    <3>1. /\ SubSeq(c, a, b) \in Commands /\ Len(SubSeq(c, a, b)) = b - a + 1
          /\ \A j \in 1..(b - a + 1) : SubSeq(c, a, b)[j] = c[a + j - 1]
      BY <1>2, <2>2, <2>3 DEF Commands
    <3>2. a \in 1..Len(e) /\ b \in 1..Len(e)
      BY <1>2, <2>3
    <3>3. /\ SubSeq(e, a, b) \in Commands /\ Len(SubSeq(e, a, b)) = b - a + 1
          /\ \A j \in 1..(b - a + 1) : SubSeq(e, a, b)[j] = e[a + j - 1]
      BY <1>2, <2>2, <3>2 DEF Commands
    <3>4. \A j \in 1..(b - a + 1) : a + j - 1 \in 1..Len(c)
      BY <1>2, <2>2, <2>3
    <3>5. \A j \in 1..(b - a + 1) : SubSeq(e, a, b)[j] = SubSeq(c, a, b)[j]
      BY <1>2, <3>1, <3>3, <3>4
    <3> QED  BY <3>1, <3>3, <3>5, SameWords
  <2>5. Unquoted(c) = SubSeq(c, a, b)
    BY <1>5, <2>1 DEF Unquoted
  <2>6. Unquoted(e) = SubSeq(e, a, b)
    <3>1. words(e) # {} /\ a = Min(words(e)) /\ b = Max(words(e))
      BY <1>3, <1>5, <2>1
    <3> QED  BY <3>1 DEF Unquoted
  <2> QED  BY <1>1, <2>4, <2>5, <2>6
<1> QED  BY <1>4, <1>5

\* The -c that counts stays the same when quotes follow, unless it was the last word.
LEMMA DashCQuotes ==
    ASSUME NEW c \in Commands, NEW q \in Quotes
    PROVE  \/ /\ DashC(c) # {} /\ DashC(c \o q) # {}
              /\ Min(DashC(c \o q)) = Min(DashC(c))
           \/ DashC(c) = {} /\ DashC(c \o q) = {}
           \/ DashC(c) = {} /\ DashC(c \o q) # {} /\ Min(DashC(c \o q)) = Len(c)
<1>1. PICK e : e = c \o q
  OBVIOUS
<1>2. /\ e \in Commands /\ Len(e) = Len(c) + Len(q) /\ Len(c) \in Nat /\ Len(q) \in Nat
      /\ \A j \in 1..Len(c) : e[j] = c[j]
  BY <1>1, QuotesTyped, Joined DEF Commands
<1>3. ASSUME NEW i \in DashC(e) PROVE i \in 1..Len(c)
  <2>1. i \in 2..(Len(e) - 1) /\ e[i] = "-c"
    BY DEF DashC
  <2> SUFFICES ASSUME i > Len(c) PROVE FALSE
    BY <1>2, <2>1
  <2>2. PICK k : k = i - Len(c)
    OBVIOUS
  <2>3. k \in 1..Len(q) /\ k + Len(c) = i
    BY <1>2, <2>1, <2>2
  <2>4. e[k + Len(c)] = q[k]
    BY <1>1, <2>3, QuotesTyped, Joined
  <2>5. q[k] = "''"
    BY <2>3, QuotesTyped
  <2> QED  BY <2>1, <2>3, <2>4, <2>5
<1>4. ASSUME NEW i \in DashC(c) PROVE i \in DashC(e) /\ i < Len(c)
  <2>1. i \in 2..(Len(c) - 1) /\ c[i] = "-c"
    BY DEF DashC
  <2> QED  BY <1>2, <2>1 DEF DashC
<1>5. ASSUME NEW i \in DashC(e), i # Len(c) PROVE i \in DashC(c)
  <2>1. i \in 2..(Len(e) - 1) /\ e[i] = "-c" /\ i \in 1..Len(c)
    BY <1>3 DEF DashC
  <2>2. i \in 2..(Len(c) - 1)
    BY <1>2, <1>5, <2>1
  <2> QED  BY <1>2, <2>1, <2>2 DEF DashC
<1>6. DashC(c) \in SUBSET Nat /\ DashC(e) \in SUBSET Nat
  BY DEF DashC
<1>7. CASE DashC(c) # {}
  <2>1. PICK n, m : n = Min(DashC(c)) /\ m = Min(DashC(e))
    OBVIOUS
  <2>2. n \in DashC(c) /\ \A i \in DashC(c) : n <= i
    BY <1>6, <1>7, <2>1, Lowest
  <2>3. n \in DashC(e) /\ n < Len(c)
    BY <1>4, <2>2
  <2>4. m \in DashC(e) /\ \A i \in DashC(e) : m <= i
    BY <1>6, <2>1, <2>3, Lowest
  <2>5. m \in Nat /\ n \in Nat /\ m <= n
    BY <1>6, <2>2, <2>3, <2>4
  <2>6. m \in DashC(c)
    BY <1>2, <1>5, <2>3, <2>4, <2>5
  <2>7. m = n
    BY <2>2, <2>5, <2>6
  <2> QED  BY <1>1, <1>7, <2>1, <2>3, <2>7
<1>8. CASE DashC(c) = {} /\ DashC(e) # {}
  <2>1. Min(DashC(e)) \in DashC(e)
    BY <1>6, <1>8, Lowest
  <2> QED  BY <1>1, <1>5, <1>8, <2>1
<1> QED  BY <1>1, <1>7, <1>8

\* Quotes change nothing but the end of what a wrapper runs, unless it runs only them.
Alike(c, q) ==
    \/ /\ Inner(c) # c /\ Inner(c \o q) # c \o q
       /\ Inner(c \o q) = Inner(c) \o q \/ Inner(c \o q) = Inner(c)
    \/ Inner(c) = c /\ Inner(c \o q) = c \o q
    \/ Inner(c) = c /\ Inner(c \o q) # c \o q /\ Inner(c \o q) \in Quotes

\* A command that fewer words follow is another command.
LEMMA Shorter ==
    ASSUME NEW c \in Commands, NEW d \in Commands, NEW q \in Quotes, Len(d) < Len(c)
    PROVE  d # c /\ d \o q # c \o q /\ d # c \o q
<1>1. q \in Commands /\ Len(q) \in Nat /\ Len(c) \in Nat /\ Len(d) \in Nat
  BY QuotesTyped DEF Commands
<1>2. Len(d \o q) = Len(d) + Len(q) /\ Len(c \o q) = Len(c) + Len(q)
  BY <1>1, Joined
<1> QED  BY <1>1, <1>2

\* Quotes behind a command change what its wrapper runs by quotes behind it only.
LEMMA InnerQuotes ==
    ASSUME NEW c \in Commands, c # <<>>, NEW q \in Quotes
    PROVE  Alike(c, q)
<1>1. PICK e, t : e = c \o q /\ t = Tail(c)
  OBVIOUS
<1>2. /\ q \in Commands /\ Len(q) \in Nat /\ Len(c) \in Nat /\ Len(c) >= 1
      /\ t \in Commands /\ Len(t) = Len(c) - 1 /\ Len(t) < Len(c)
  BY <1>1, QuotesTyped, HeadTail
<1>3. /\ e \in Commands /\ e # <<>> /\ Head(e) = Head(c) /\ Tail(e) = t \o q
      /\ Len(e) = Len(c) + Len(q)
  BY <1>1, <1>2, Joined
<1>4. CASE Base[Head(c)] = "env"
  <2>1. /\ Inner(c) = OrSelf(DropAll(t, Assigned), c)
        /\ Inner(e) = OrSelf(DropAll(t \o q, Assigned), e)
    BY <1>1, <1>3, <1>4, InnerIs
  <2>2. PICK d : d = DropAll(t, Assigned)
    OBVIOUS
  <2>3. d \in Commands /\ Len(d) < Len(c)
    <3>1. d \in Commands /\ Len(d) <= Len(t)
      BY <1>2, <2>2, DropShortens
    <3>2. Len(d) \in Nat
      BY <3>1 DEF Commands
    <3> QED  BY <1>2, <3>1, <3>2
  <2>4. CASE d # <<>> /\ DropAll(t \o q, Assigned) = d \o q
    <3>1. d \o q # <<>>
      BY <1>2, <2>3, <2>4, Joined
    <3>2. Inner(c) = d /\ Inner(e) = d \o q
      BY <2>1, <2>2, <2>4, <3>1 DEF OrSelf
    <3> QED  BY <1>1, <2>3, <3>2, Shorter DEF Alike
  <2>5. CASE d = <<>> /\ DropAll(t \o q, Assigned) = q
    BY <1>1, <2>1, <2>2, <2>5 DEF OrSelf, Alike
  <2>6. \/ d # <<>> /\ DropAll(t \o q, Assigned) = d \o q
        \/ d = <<>> /\ DropAll(t \o q, Assigned) = q
    <3>1. "''" \notin Assigned
      BY QuotesAre
    <3>2. \/ /\ DropAll(t, Assigned) # <<>>
             /\ DropAll(t \o q, Assigned) = DropAll(t, Assigned) \o q
          \/ DropAll(t, Assigned) = <<>> /\ DropAll(t \o q, Assigned) = q
      BY <1>2, <3>1, DropQuotes, Zenon
    <3> QED  BY <2>2, <3>2
  <2> QED  BY <2>4, <2>5, <2>6
<1>5. CASE Base[Head(c)] = "sudo"
  <2>1. /\ Inner(c) = OrSelf(SkipWrapperOptions[t], c)
        /\ Inner(e) = OrSelf(SkipWrapperOptions[t \o q], e)
    BY <1>1, <1>3, <1>5, InnerIs
  <2>2. PICK d : d = SkipWrapperOptions[t]
    OBVIOUS
  <2>3. d \in Commands /\ Len(d) < Len(c)
    <3>1. d \in Commands /\ Len(d) <= Len(t)
      BY <1>2, <2>2, SkipShortens
    <3>2. Len(d) \in Nat
      BY <3>1 DEF Commands
    <3> QED  BY <1>2, <3>1, <3>2
  <2>4. SameSkip(t, q)
    BY <1>2, SkipQuotes
  <2>5. CASE d # <<>> /\ SkipWrapperOptions[t \o q] = d \o q
    <3>1. d \o q # <<>>
      BY <1>2, <2>3, <2>5, Joined
    <3>2. Inner(c) = d /\ Inner(e) = d \o q
      BY <2>1, <2>2, <2>5, <3>1 DEF OrSelf
    <3> QED  BY <1>1, <2>3, <3>2, Shorter DEF Alike
  <2>6. CASE d = <<>> /\ SkipWrapperOptions[t \o q] \in Quotes
    BY <1>1, <2>1, <2>2, <2>6 DEF OrSelf, Alike
  <2> QED  BY <2>2, <2>4, <2>5, <2>6 DEF SameSkip
<1>6. CASE Base[Head(c)] \in {"command", "xargs"}
  <2>1. Inner(c) = OrSelf(t, c) /\ Inner(e) = OrSelf(t \o q, e)
    BY <1>1, <1>3, <1>6, InnerIs
  <2>2. CASE t = <<>>
    <3>1. t \o q = q
      BY <2>2, QuotesTyped
    <3> QED  BY <1>1, <2>1, <2>2, <3>1 DEF OrSelf, Alike
  <2>3. CASE t # <<>>
    <3>1. t \o q # <<>>
      BY <1>2, <2>3, Joined
    <3>2. Inner(c) = t /\ Inner(e) = t \o q
      BY <2>1, <2>3, <3>1 DEF OrSelf
    <3> QED  BY <1>1, <1>2, <3>2, Shorter DEF Alike
  <2> QED  BY <2>2, <2>3
<1>7. CASE Base[Head(c)] = "eval"
  <2>1. /\ Inner(c) = IF t = <<>> THEN c ELSE Unquoted(t)
        /\ Inner(e) = IF t \o q = <<>> THEN e ELSE Unquoted(t)
    <3>1. Inner(c) = IF t = <<>> THEN c ELSE Unquoted(t)
      BY <1>1, <1>7, InnerIs
    <3>2. Inner(e) = IF t \o q = <<>> THEN e ELSE Unquoted(t \o q)
      BY <1>3, <1>7, InnerIs
    <3>3. Unquoted(t \o q) = Unquoted(t)
      BY <1>2, UnquotedQuotes
    <3> QED  BY <3>1, <3>2, <3>3
  <2>2. CASE t = <<>>
    <3>1. t \o q = q
      BY <2>2, QuotesTyped
    <3>2. Unquoted(t) \in Quotes
      <4>1. {i \in DOMAIN <<>> : <<>>[i] # "''"} = {}
        OBVIOUS
      <4>2. Unquoted(<<>>) = <<>>
        BY <4>1 DEF Unquoted
      <4> QED  BY <2>2, <4>2, QuotesAre
    <3> QED  BY <1>1, <2>1, <2>2, <3>1, <3>2 DEF Alike
  <2>3. CASE t # <<>>
    <3>1. t \o q # <<>>
      BY <1>2, <2>3, Joined
    <3>2. Unquoted(t) \in Commands /\ Len(Unquoted(t)) < Len(c)
      <4>1. Unquoted(t) \in Commands /\ Len(Unquoted(t)) <= Len(t)
        BY <1>2, UnquotedShortens
      <4>2. Len(Unquoted(t)) \in Nat
        BY <4>1 DEF Commands
      <4> QED  BY <1>2, <4>1, <4>2
    <3> QED  BY <1>1, <2>1, <2>3, <3>1, <3>2, Shorter DEF Alike
  <2> QED  BY <2>2, <2>3
<1>8. CASE Base[Head(c)] = "sh"
  <2>1. /\ Inner(c) = IF DashC(c) = {} THEN c ELSE From(c, Min(DashC(c)) + 1)
        /\ Inner(e) = IF DashC(e) = {} THEN e ELSE From(e, Min(DashC(e)) + 1)
    BY <1>3, <1>8, InnerIs
  <2>2. CASE DashC(c) # {} /\ DashC(e) # {} /\ Min(DashC(e)) = Min(DashC(c))
    <3>1. PICK n : n = Min(DashC(c)) + 1
      OBVIOUS
    <3>2. n \in 3..Len(c) /\ n \in 1..(Len(c) + 1)
      BY <1>2, <2>2, <3>1, DashCIs
    <3>3. /\ From(e, n) = From(c, n) \o q
          /\ From(c, n) \in Commands /\ Len(From(c, n)) = Len(c) - n + 1
      BY <1>1, <1>2, <3>2, FromIs, JoinedLater
    <3>4. Len(From(c, n)) < Len(c)
      BY <1>2, <3>2, <3>3
    <3> QED  BY <1>1, <2>1, <2>2, <3>1, <3>3, <3>4, Shorter DEF Alike
  <2>3. CASE DashC(c) = {} /\ DashC(e) = {}
    BY <1>1, <2>1, <2>3 DEF Alike
  <2>4. CASE DashC(c) = {} /\ DashC(e) # {} /\ Min(DashC(e)) = Len(c)
    <3>1. Len(c) + 1 \in (Len(c) + 1)..(Len(c) + Len(q) + 1)
      BY <1>2
    <3>2. Inner(c) = c /\ Inner(e) \in Quotes
      BY <1>1, <2>1, <2>4, <3>1, QuotesBehind
    <3> QED  BY <1>1, <3>2 DEF Alike
  <2> QED  BY <1>1, <2>2, <2>3, <2>4, DashCQuotes
<1>9. CASE Base[Head(c)] \notin WrapperNames
  BY <1>1, <1>3, <1>9, InnerIs DEF Alike
<1> QED  BY <1>4, <1>5, <1>6, <1>7, <1>8, <1>9 DEF WrapperNames

\* What unwrapping makes of a command with quotes behind it.
SameParts(c, q) ==
    \/ /\ Unwrap[c].parts # <<>>
       /\ Unwrap[c \o q].wrappers = Unwrap[c].wrappers
       /\ \E r \in Quotes : Unwrap[c \o q].parts = Unwrap[c].parts \o r
    \/ /\ Unwrap[c \o q].parts \in Quotes
       /\ Unwrap[c \o q].wrappers <= Unwrap[c].wrappers + 1
\* The commands for which it is so, whatever quotes follow.
UnwrapsSame == {c \in Commands : \A q \in Quotes : SameParts(c, q)}

\* Quotes have no wrapper.
LEMMA UnwrapOfQuotes ==
    ASSUME NEW q \in Quotes
    PROVE  Unwrap[q].parts = q /\ Unwrap[q].wrappers = 0
<1>1. q = <<>> \/ Inner(q) = q
  BY QuotesTyped, QuotesAre, InnerIs
<1> QED  BY <1>1, QuotesTyped, UnwrapBare

\* It is so for every command, by its length.
LEMMA UnwrapQuotes ==
    \A c \in Commands : \A q \in Quotes : SameParts(c, q)
<1>1. ASSUME NEW c \in Commands, \A d \in Commands : Len(d) < Len(c) => d \in UnwrapsSame,
             NEW q \in Quotes
      PROVE  SameParts(c, q)
  <2>1. CASE c = <<>>
    <3>1. c \o q = q /\ Unwrap[c].wrappers = 0
      BY <2>1, QuotesTyped, UnwrapBare
    <3> QED  BY <3>1, UnwrapOfQuotes DEF SameParts
  <2>2. CASE c # <<>>
    <3>1. PICK e : e = c \o q
      OBVIOUS
    <3>2. e \in Commands /\ e # <<>>
      BY <2>2, <3>1, QuotesTyped, Joined
    <3>3. CASE /\ Inner(c) # c /\ Inner(e) # e
               /\ Inner(e) = Inner(c) \o q \/ Inner(e) = Inner(c)
      <4>1. PICK d, f : d = Inner(c) /\ f = Inner(e)
        OBVIOUS
      <4>2. d \in Commands /\ d \in UnwrapsSame /\ f \in Commands
        BY <1>1, <2>2, <3>2, <3>3, <4>1, InnerShortens
      <4>3. PICK r \in Quotes : f = d \o r
        <5>1. d \o <<>> = d
          BY <4>2 DEF Commands
        <5> QED  BY <3>3, <4>1, <5>1, QuotesAre
      <4>4. SameParts(d, r)
        BY <4>2 DEF UnwrapsSame
      <4>5. /\ Unwrap[c].parts = Unwrap[d].parts /\ Unwrap[c].wrappers = Unwrap[d].wrappers + 1
            /\ Unwrap[e].parts = Unwrap[f].parts /\ Unwrap[e].wrappers = Unwrap[f].wrappers + 1
        BY <2>2, <3>2, <3>3, <4>1, UnwrapOnce
      <4>6. Unwrap[d].wrappers \in Nat /\ Unwrap[f].wrappers \in Nat
        BY <4>2, UnwrapTyped DEF Results
      <4>7. CASE /\ Unwrap[d].parts # <<>> /\ Unwrap[f].wrappers = Unwrap[d].wrappers
                 /\ \E s \in Quotes : Unwrap[f].parts = Unwrap[d].parts \o s
        BY <3>1, <4>5, <4>7 DEF SameParts
      <4>8. CASE Unwrap[f].parts \in Quotes /\ Unwrap[f].wrappers <= Unwrap[d].wrappers + 1
        <5>1. Unwrap[e].wrappers <= Unwrap[c].wrappers + 1
          BY <4>5, <4>6, <4>8
        <5> QED  BY <3>1, <4>5, <4>8, <5>1 DEF SameParts
      <4> QED  BY <4>3, <4>4, <4>7, <4>8 DEF SameParts
    <3>4. CASE Inner(c) = c /\ Inner(e) = e
      <4>1. /\ Unwrap[c].parts = c /\ Unwrap[c].wrappers = 0
            /\ Unwrap[e].parts = e /\ Unwrap[e].wrappers = 0
        BY <3>2, <3>4, UnwrapBare
      <4> QED  BY <2>2, <3>1, <4>1 DEF SameParts
    <3>5. CASE Inner(c) = c /\ Inner(e) # e /\ Inner(e) \in Quotes
      <4>1. Unwrap[c].wrappers = 0
        BY <3>5, UnwrapBare
      <4>2. Unwrap[e].parts = Inner(e) /\ Unwrap[e].wrappers = 0 + 1
        BY <3>2, <3>5, UnwrapOnce, UnwrapOfQuotes
      <4> QED  BY <3>1, <3>5, <4>1, <4>2 DEF SameParts
    <3> QED  BY <2>2, <3>1, <3>3, <3>4, <3>5, InnerQuotes DEF Alike
  <2> QED  BY <2>1, <2>2
<1>2. \A c \in Commands : c \in UnwrapsSame
  <2>1. ASSUME NEW c \in Commands, \A d \in Commands : Len(d) < Len(c) => d \in UnwrapsSame
        PROVE  c \in UnwrapsSame
    BY <1>1, <2>1 DEF UnwrapsSame
  <2> QED  BY <2>1, ByLength, Zenon
<1> QED  BY <1>2 DEF UnwrapsSame

-----------------------------------------------------------------------------
(* What a wrapper runs                                                     *)

\* The words from a place on, counted without the first.
LEMMA FromTail ==
    ASSUME NEW c \in Commands, c # <<>>, NEW i \in 1..Len(c)
    PROVE  From(Tail(c), i) = From(c, i + 1)
<1>1. PICK t : t = Tail(c)
  OBVIOUS
<1>2. /\ Len(c) \in Nat /\ t \in Commands /\ Len(t) = Len(c) - 1
      /\ \A j \in 1..(Len(c) - 1) : t[j] = c[j + 1]
  BY <1>1, HeadTail
<1>3. /\ From(t, i) \in Commands /\ Len(From(t, i)) = Len(t) - i + 1
      /\ \A j \in 1..(Len(t) - i + 1) : From(t, i)[j] = t[i + j - 1]
  <2>1. i \in 1..(Len(t) + 1)
    BY <1>2
  <2> QED  BY <1>2, <2>1, FromIs
<1>4. PICK k : k = i + 1
  OBVIOUS
<1>5. /\ From(c, k) \in Commands /\ Len(From(c, k)) = Len(c) - k + 1
      /\ \A j \in 1..(Len(c) - k + 1) : From(c, k)[j] = c[k + j - 1]
  <2>1. k \in 1..(Len(c) + 1)
    BY <1>2, <1>4
  <2> QED  BY <2>1, FromIs
<1>6. ASSUME NEW j \in 1..Len(From(t, i)) PROVE From(t, i)[j] = From(c, k)[j]
  <2>1. PICK m : m = i + j - 1
    OBVIOUS
  <2>2. m \in 1..(Len(c) - 1) /\ m + 1 = k + j - 1 /\ j \in 1..(Len(c) - k + 1)
    BY <1>2, <1>3, <1>4, <2>1
  <2>3. From(t, i)[j] = t[m] /\ From(c, k)[j] = c[m + 1] /\ t[m] = c[m + 1]
    BY <1>2, <1>3, <1>5, <2>1, <2>2
  <2> QED  BY <2>3
<1>7. Len(From(t, i)) = Len(From(c, k))
  BY <1>2, <1>3, <1>4, <1>5
<1> QED  BY <1>1, <1>3, <1>4, <1>5, <1>6, <1>7, SameWords

\* eval takes the quotes off the end of a command that begins with none.
LEMMA UnquotedIs ==
    ASSUME NEW c \in Commands, c # <<>>, Head(c) # "''"
    PROVE  \E q \in Quotes : c = Unquoted(c) \o q
<1> DEFINE words == {i \in DOMAIN c : c[i] # "''"}
<1>1. DOMAIN c = 1..Len(c) /\ Len(c) \in Nat /\ 1 \in 1..Len(c) /\ c[1] # "''"
  <2>1. DOMAIN c = 1..Len(c)
    BY DEF Commands
  <2> QED  BY <2>1, HeadTail
<1>2. 1 \in words /\ words \in SUBSET Nat /\ words \in SUBSET (1..Len(c))
  BY <1>1
<1>3. PICK a, b : a = Min(words) /\ b = Max(words)
  OBVIOUS
<1>4. /\ a \in words /\ \A i \in words : a <= i
      /\ b \in words /\ \A i \in words : b >= i
  <2> HIDE DEF words
  <2> QED  BY <1>1, <1>2, <1>3, Lowest, Highest
<1>5. a = 1 /\ b \in 1..Len(c)
  BY <1>1, <1>2, <1>4
<1>6. PICK u, q : u = SubSeq(c, 1, b) /\ q = From(c, b + 1)
  OBVIOUS
<1>7. Unquoted(c) = u
  BY <1>2, <1>3, <1>5, <1>6 DEF Unquoted
<1>8. /\ u \in Commands /\ Len(u) = b /\ \A i \in 1..b : u[i] = c[i]
  BY <1>1, <1>5, <1>6 DEF Commands
<1>9. /\ q \in Commands /\ Len(q) = Len(c) - b
      /\ \A i \in 1..(Len(c) - b) : q[i] = c[i + b]
  <2>1. PICK k : k = b + 1
    OBVIOUS
  <2>2. k \in 1..(Len(c) + 1) /\ Len(c) - k + 1 = Len(c) - b
    BY <1>1, <1>5, <2>1
  <2>3. /\ q \in Commands /\ Len(q) = Len(c) - k + 1
        /\ \A i \in 1..(Len(c) - k + 1) : q[i] = c[k + i - 1]
    BY <1>6, <2>1, <2>2, FromIs
  <2>4. \A i \in 1..(Len(c) - b) : k + i - 1 = i + b
    BY <1>1, <1>5, <2>1
  <2> QED  BY <2>2, <2>3, <2>4
<1>10. q \in Quotes
  <2>1. ASSUME NEW i \in 1..Len(q) PROVE q[i] = "''"
    <3>1. i + b \in 1..Len(c) /\ ~(b >= i + b)
      BY <1>1, <1>5, <1>9
    <3>2. i + b \notin words
      BY <1>4, <3>1
    <3> QED  BY <1>1, <1>9, <3>1, <3>2
  <2> QED  BY <1>9, <2>1 DEF Quotes
<1>11. PICK f : f = u \o q
  OBVIOUS
<1>12. c = f
  <2>1. /\ f \in Commands /\ Len(f) = Len(u) + Len(q)
        /\ \A i \in 1..Len(u) : f[i] = u[i]
        /\ \A i \in 1..Len(q) : f[i + Len(u)] = q[i]
    BY <1>8, <1>9, <1>11, Joined
  <2>2. Len(c) = Len(f)
    BY <1>1, <1>5, <1>8, <1>9, <2>1
  <2>3. ASSUME NEW i \in 1..Len(c) PROVE c[i] = f[i]
    <3>1. CASE i \in 1..b
      BY <1>8, <2>1, <3>1
    <3>2. CASE i \notin 1..b
      <4>1. PICK k : k = i - b
        OBVIOUS
      <4>2. k \in 1..(Len(c) - b) /\ k + b = i
        BY <1>1, <1>5, <3>2, <4>1
      <4>3. f[k + b] = q[k] /\ q[k] = c[k + b]
        BY <1>8, <1>9, <2>1, <4>2
      <4> QED  BY <4>2, <4>3
    <3> QED  BY <3>1, <3>2
  <2> QED  BY <2>1, <2>2, <2>3, SameWords
<1> QED  BY <1>7, <1>10, <1>11, <1>12

\* What is in front of a wrapped command.
LEMMA Behind ==
    ASSUME NEW a \in Commands, NEW w \in Commands, IsPrefix(w, a), NEW c,
           c = From(a, Len(w) + 1), IsCommand(c)
    PROVE  /\ c \in Commands /\ c # <<>> /\ Len(w) \in Nat
           /\ Len(a) \in Nat /\ Len(a) >= Len(w) + 1 /\ Len(c) = Len(a) - Len(w)
           /\ \A i \in 1..Len(w) : a[i] = w[i]
           /\ a[Len(w) + 1] = Head(c)
           /\ ~IsOption(Head(c)) /\ Head(c) \notin Assigned /\ Head(c) # "''"
<1>1. Len(w) <= Len(a) /\ \A i \in 1..Len(w) : w[i] = a[i]
  BY PrefixElements DEF Commands
<1>2. Len(w) \in Nat /\ Len(a) \in Nat
  BY DEF Commands
<1>3. PICK k : k = Len(w) + 1
  OBVIOUS
<1>4. k \in 1..(Len(a) + 1)
  BY <1>1, <1>2, <1>3
<1>5. /\ c \in Commands /\ Len(c) = Len(a) - k + 1
      /\ \A j \in 1..(Len(a) - k + 1) : c[j] = a[k + j - 1]
  BY <1>3, <1>4, FromIs
<1>6. c # <<>> /\ ~IsOption(Head(c)) /\ Head(c) \notin {"A=b", "''"}
  BY DEF IsCommand
<1>7. Len(c) \in Nat /\ Len(c) >= 1 /\ Head(c) = c[1]
  BY <1>5, <1>6, HeadTail
<1>8. c[1] = a[k]
  <2>1. 1 \in 1..(Len(a) - k + 1) /\ k + 1 - 1 = k
    BY <1>2, <1>4, <1>5, <1>7
  <2> QED  BY <1>5, <2>1
<1>9. Head(c) \notin Assigned
  BY <1>6 DEF Assigned, IsOption
<1> QED  BY <1>1, <1>2, <1>3, <1>4, <1>5, <1>6, <1>7, <1>8, <1>9

\* A wrapper runs the command behind it, but for quotes at its end.
LEMMA WrapperRuns ==
    ASSUME NEW a \in Commands, NEW c \in Wrapped(a), IsCommand(c)
    PROVE  /\ a # <<>> /\ Inner(a) # a /\ Inner(a) \in Commands /\ c \in Commands
           /\ \E q \in Quotes : c = Inner(a) \o q
<1>1. PICK w \in Wrappers : IsPrefix(w, a) /\ c = From(a, Len(w) + 1)
  BY DEF Wrapped
<1>2. w \in Commands /\ Len(w) \in {1, 2, 3}
  <2>1. {"env", "A=b", "sudo", "-u", "command", "xargs", "sh", "-c", "eval"} \subseteq Words
    BY EngineAssumption DEF ShellWords
  <2>2. CASE w \in {<<"env">>, <<"sudo">>, <<"command">>, <<"xargs">>, <<"eval">>}
    <3>1. PICK x \in Words : w = <<x>>
      BY <2>1, <2>2
    <3> QED  BY <3>1 DEF Commands
  <2>3. CASE w = <<"env", "A=b">>
    BY <2>1, <2>3 DEF Commands
  <2>4. CASE w = <<"sh", "-c">>
    BY <2>1, <2>4 DEF Commands
  <2>5. CASE w = <<"sudo", "-u", "A=b">>
    BY <2>1, <2>5 DEF Commands
  <2> QED  BY <1>1, <2>2, <2>3, <2>4, <2>5 DEF Wrappers
<1>3. /\ c \in Commands /\ c # <<>> /\ Len(w) \in Nat
      /\ Len(a) \in Nat /\ Len(a) >= Len(w) + 1 /\ Len(c) = Len(a) - Len(w)
      /\ \A i \in 1..Len(w) : a[i] = w[i]
      /\ a[Len(w) + 1] = Head(c)
      /\ ~IsOption(Head(c)) /\ Head(c) \notin Assigned /\ Head(c) # "''"
  BY <1>1, <1>2, Behind
<1>4. PICK t : t = Tail(a)
  OBVIOUS
<1>5. /\ a # <<>> /\ Head(a) = w[1] /\ t \in Commands /\ Len(t) = Len(a) - 1
      /\ \A i \in 1..(Len(a) - 1) : t[i] = a[i + 1]
  <2>1. a # <<>>
    BY <1>2, <1>3 DEF Commands
  <2>2. 1 \in 1..Len(w)
    BY <1>2
  <2> QED  BY <1>3, <1>4, <2>1, <2>2, HeadTail
<1>6. Base[Head(a)] = w[1]
  <2>1. w[1] \in {"env", "sudo", "command", "xargs", "sh", "eval"}
    BY <1>1 DEF Wrappers
  <2>2. w[1] \in ShellWords \cup FlagWords
    BY <2>1 DEF ShellWords
  <2> QED  BY <1>5, <2>2, EngineAssumption
<1>7. \A i \in 1..Len(a) : From(t, i) = From(a, i + 1)
  BY <1>4, <1>5, FromTail
<1>8. Len(w) = 1 => t = c
  <2>1. 1 \in 1..Len(a) /\ 1 \in 1..(Len(t) + 1)
    BY <1>2, <1>3, <1>5
  <2>2. From(t, 1) = From(a, 1 + 1) /\ From(t, 1) = t
    BY <1>5, <1>7, <2>1, FromIs
  <2> QED  BY <1>1, <2>2
<1>9. Inner(a) = c \/ (\E q \in Quotes : c = Inner(a) \o q)
  <2>1. CASE w = <<"env">>
    <3>1. Inner(a) = OrSelf(DropAll(c, Assigned), a)
      BY <1>4, <1>5, <1>6, <1>8, <2>1, InnerIs
    <3>2. 1 \in 1..Len(c) /\ c[1] \notin Assigned
      BY <1>3, HeadTail
    <3>3. PICK i \in 1..Len(c) : /\ DropAll(c, Assigned) = From(c, i)
                                 /\ \A j \in 1..(i - 1) : c[j] \in Assigned
      BY <1>3, <3>2, Drop
    <3>4. i = 1
      <4> SUFFICES ASSUME i # 1 PROVE FALSE
        OBVIOUS
      <4>1. 1 \in 1..(i - 1)
        OBVIOUS
      <4> QED  BY <3>2, <3>3, <4>1
    <3>5. 1 \in 1..(Len(c) + 1)
      BY <3>2
    <3>6. DropAll(c, Assigned) = c
      BY <1>3, <3>3, <3>4, <3>5, FromIs
    <3> QED  BY <1>3, <3>1, <3>6 DEF OrSelf
  <2>2. CASE w = <<"env", "A=b">>
    <3>1. Inner(a) = OrSelf(DropAll(t, Assigned), a)
      BY <1>4, <1>5, <1>6, <2>2, InnerIs
    <3>2. t[1] = "A=b" /\ t[2] = Head(c) /\ 2 \in 1..Len(t) /\ Len(w) = 2
      <4>1. /\ Len(w) = 2 /\ w[2] = "A=b" /\ 1 \in 1..(Len(a) - 1) /\ 2 \in 1..(Len(a) - 1)
            /\ 2 \in 1..Len(w)
        BY <1>3, <2>2
      <4>2. t[1] = a[1 + 1] /\ t[2] = a[2 + 1] /\ a[2] = w[2]
        BY <1>3, <1>5, <4>1
      <4> QED  BY <1>3, <1>5, <4>1, <4>2
    <3>3. PICK i \in 1..Len(t) : /\ DropAll(t, Assigned) = From(t, i) /\ t[i] \notin Assigned
                                 /\ \A j \in 1..(i - 1) : t[j] \in Assigned
      BY <1>3, <1>5, <3>2, Drop
    <3>4. i = 2
      <4>1. i # 1
        BY <3>2, <3>3 DEF Assigned
      <4>2. ~(i > 2)
        <5> SUFFICES ASSUME i > 2 PROVE FALSE
          OBVIOUS
        <5>1. 2 \in 1..(i - 1)
          OBVIOUS
        <5> QED  BY <1>3, <3>2, <3>3, <5>1
      <4> QED  BY <4>1, <4>2
    <3>5. From(t, 2) = c
      <4>1. 2 \in 1..Len(a)
        BY <1>3, <3>2
      <4>2. From(t, 2) = From(a, 2 + 1)
        BY <1>7, <4>1
      <4> QED  BY <1>1, <3>2, <4>2
    <3> QED  BY <1>3, <3>1, <3>3, <3>4, <3>5 DEF OrSelf
  <2>3. CASE w = <<"sudo">>
    <3>1. Inner(a) = OrSelf(SkipWrapperOptions[c], a)
      BY <1>4, <1>5, <1>6, <1>8, <2>3, InnerIs
    <3>2. SkipWrapperOptions[c] = c
      BY <1>3, SkipIs DEF Plain
    <3> QED  BY <1>3, <3>1, <3>2 DEF OrSelf
  <2>4. CASE w = <<"sudo", "-u", "A=b">>
    <3>1. Inner(a) = OrSelf(SkipWrapperOptions[t], a)
      BY <1>4, <1>5, <1>6, <2>4, InnerIs
    <3>2. t # <<>> /\ Head(t) = "-u" /\ Len(t) > 1 /\ Len(w) = 3
      <4>1. Len(w) = 3 /\ w[2] = "-u" /\ 1 \in 1..(Len(a) - 1) /\ 2 \in 1..Len(w)
        BY <1>3, <2>4
      <4>2. t[1] = a[1 + 1] /\ a[2] = w[2] /\ Len(t) > 1
        BY <1>3, <1>5, <4>1
      <4>3. t # <<>>
        BY <4>2 DEF Commands
      <4> QED  BY <1>5, <4>1, <4>2, <4>3, HeadTail
    <3>3. t \notin Plain
      BY <3>2 DEF Plain, IsOption
    <3>4. SkipWrapperOptions[t] = SkipWrapperOptions[From(t, 3)]
      BY <1>5, <3>2, <3>3, SkipIs DEF Rest
    <3>5. From(t, 3) = c
      <4>1. 3 \in 1..Len(a)
        BY <1>3, <3>2
      <4>2. From(t, 3) = From(a, 3 + 1)
        BY <1>7, <4>1
      <4> QED  BY <1>1, <3>2, <4>2
    <3>6. SkipWrapperOptions[c] = c
      BY <1>3, SkipIs DEF Plain
    <3> QED  BY <1>3, <3>1, <3>4, <3>5, <3>6 DEF OrSelf
  <2>5. CASE w \in {<<"command">>, <<"xargs">>}
    <3>1. Base[Head(a)] \in {"command", "xargs"} /\ t = c
      BY <1>6, <1>8, <2>5
    <3>2. Inner(a) = OrSelf(c, a)
      BY <1>4, <1>5, <3>1, InnerIs
    <3> QED  BY <1>3, <3>2 DEF OrSelf
  <2>6. CASE w = <<"sh", "-c">>
    <3>1. Inner(a) = IF DashC(a) = {} THEN a ELSE From(a, Min(DashC(a)) + 1)
      BY <1>5, <1>6, <2>6, InnerIs
    <3>2. Len(w) = 2 /\ 2 \in DashC(a)
      <4>1. Len(w) = 2 /\ w[2] = "-c" /\ 2 \in 1..Len(w)
        BY <2>6
      <4>2. a[2] = "-c" /\ 2 \in 2..(Len(a) - 1)
        BY <1>3, <4>1
      <4> QED  BY <4>1, <4>2 DEF DashC
    <3>3. Min(DashC(a)) = 2
      <4>1. PICK n : n = Min(DashC(a))
        OBVIOUS
      <4>2. n \in 2..(Len(a) - 1)
        BY <3>2, <4>1, DashCIs
      <4>3. DashC(a) \in SUBSET Nat
        BY DEF DashC
      <4>4. n <= 2
        BY <3>2, <4>1, <4>3, Lowest
      <4> QED  BY <4>1, <4>2, <4>4
    <3> QED  BY <1>1, <3>1, <3>2, <3>3
  <2>7. CASE w = <<"eval">>
    <3>1. Inner(a) = Unquoted(c)
      BY <1>3, <1>4, <1>5, <1>6, <1>8, <2>7, InnerIs
    <3> QED  BY <1>3, <3>1, UnquotedIs
  <2> QED  BY <1>1, <2>1, <2>2, <2>3, <2>4, <2>5, <2>6, <2>7 DEF Wrappers
<1>10. \E q \in Quotes : c = Inner(a) \o q
  <2>1. c \o <<>> = c
    BY <1>3 DEF Commands
  <2> QED  BY <1>9, <2>1, QuotesAre
<1>11. Inner(a) \in Commands
  BY <1>5, InnerShortens
<1>12. Inner(a) # a
  <2>1. PICK q \in Quotes : c = Inner(a) \o q
    BY <1>10
  <2>2. Len(c) = Len(Inner(a)) + Len(q) /\ Len(q) \in Nat /\ Len(Inner(a)) \in Nat
    BY <1>11, <2>1, QuotesTyped, Joined DEF Commands
  <2>3. PICK k, l, m, n : k = Len(c) /\ l = Len(Inner(a)) /\ m = Len(a) /\ n = Len(w)
    OBVIOUS
  <2>4. l # m
    BY <1>2, <1>3, <2>2, <2>3
  <2> QED  BY <2>3, <2>4
<1> QED  BY <1>3, <1>5, <1>10, <1>11, <1>12

-----------------------------------------------------------------------------
(* The points of what remains                                              *)

\* Points are natural numbers, ...
LEMMA RenamedTyped == \A c : RenamedPoints(c) \in Nat
BY DEF RenamedPoints

LEMMA RulesTyped ==
    ASSUME NEW w \in Words
    PROVE  /\ Base[w] \in Words /\ Rules[w].always \in Nat /\ Rules[w].words \in SUBSET Words
           /\ Rules[w].found \in Nat /\ Rules[w].empty \in Nat
<1>1. Rules[w] \in [always : Nat, words : SUBSET Words, found : Nat, empty : Nat]
  BY EngineAssumption
<1> QED  BY <1>1, EngineAssumption

\* ... and so is their sum.
LEMMA SumIs ==
    ASSUME NEW c \in Commands, c # <<>>
    PROVE  Sum(c) \in Nat
<1>1. RulePoints(c) \in Nat
  <2>1. PICK r : r = Rules[Base[Head(c)]]
    OBVIOUS
  <2>2. r.always \in Nat /\ r.found \in Nat /\ r.empty \in Nat
    BY <2>1, HeadTail, RulesTyped
  <2>3. PICK x, y : /\ x = Points(HasArg(c, r.words), r.found)
                    /\ y = Points(Len(c) > 1 /\ Last(c) = "''", r.empty)
    OBVIOUS
  <2>4. x \in {0, r.found} /\ y \in {0, r.empty}
    BY <2>3, Zenon DEF Points
  <2>5. RulePoints(c) = r.always + x + y
    BY <2>1, <2>3, Zenon DEF RulePoints
  <2>6. PICK k, m, n : k = r.always /\ m = r.found /\ n = r.empty
    OBVIOUS
  <2>7. k + x + y \in Nat
    BY <2>2, <2>4, <2>6
  <2> QED  BY <2>5, <2>6, <2>7
<1>2. RenamedPoints(c) \in Nat
  BY RenamedTyped
<1>3. PICK p1, p2, p3, p4, p5, p6, p7, p8 :
         /\ p1 = Points(Head(c) \in Backups, 80)
         /\ p2 = Points(Base[Head(c)] \in Destructive, 40)
         /\ p3 = Points(HasFlag(c, {"-f"}), 20)
         /\ p4 = Points(HasFlag(c, {"-r", "-rf"}), 15)
         /\ p5 = Points(HasArg(c, Sensitive), 25)
         /\ p6 = Points(HasArg(c, System), 30)
         /\ p7 = Points(Base[Head(c)] = "sudo", 15)
         /\ p8 = Points(Base[Head(c)] \in Interpreters /\ HasFlag(c, {"-c"}), 40)
  OBVIOUS
<1>4. /\ p1 \in Nat /\ p2 \in Nat /\ p3 \in Nat /\ p4 \in Nat
      /\ p5 \in Nat /\ p6 \in Nat /\ p7 \in Nat /\ p8 \in Nat
  BY <1>3, Zenon DEF Points
<1>5. Sum(c) = p1 + p2 + p3 + p4 + p5 + p6 + p7 + p8 + RenamedPoints(c) + RulePoints(c)
  BY <1>3, Zenon DEF Sum
<1>6. PICK m, n : m = RenamedPoints(c) /\ n = RulePoints(c)
  OBVIOUS
<1>7. p1 + p2 + p3 + p4 + p5 + p6 + p7 + p8 + m + n \in Nat
  BY <1>1, <1>2, <1>4, <1>6
<1> QED  BY <1>5, <1>6, <1>7

\* Quotes are no flags and no arguments that count.
LEMMA QuotesDoNotCount ==
    ASSUME NEW c \in Commands, NEW q \in Quotes, NEW S, "''" \notin S, c # <<>>
    PROVE  /\ HasFlag(c \o q, S) <=> HasFlag(c, S)
           /\ HasArg(c \o q, S) <=> HasArg(c, S)
<1>1. PICK e : e = c \o q
  OBVIOUS
<1>2. /\ DOMAIN e = 1..Len(e) /\ DOMAIN c = 1..Len(c) /\ Len(c) \in Nat /\ Len(c) >= 1
      /\ Len(e) = Len(c) + Len(q) /\ Len(q) \in Nat
      /\ \A j \in 1..Len(c) : e[j] = c[j]
  <2>1. q \in Commands /\ Len(q) \in Nat
    BY QuotesTyped
  <2>2. e \in Commands /\ Len(e) = Len(c) + Len(q) /\ \A j \in 1..Len(c) : e[j] = c[j]
    BY <1>1, <2>1, Joined
  <2>3. DOMAIN e = 1..Len(e) /\ DOMAIN c = 1..Len(c)
    BY <2>2 DEF Commands
  <2> QED  BY <2>1, <2>2, <2>3, HeadTail
<1>3. ASSUME NEW i \in 1..Len(e), i \notin 1..Len(c) PROVE e[i] \notin S
  <2>1. PICK k : k = i - Len(c)
    OBVIOUS
  <2>2. k \in 1..Len(q) /\ k + Len(c) = i
    BY <1>2, <1>3, <2>1
  <2>3. e[k + Len(c)] = "''"
    BY <1>1, <2>2, QuotesTyped, Joined
  <2> QED  BY <2>2, <2>3
<1>4. \A i \in 1..Len(c) : i \in 1..Len(e)
  BY <1>2
<1> QED  BY <1>1, <1>2, <1>3, <1>4 DEF HasFlag, HasArg

\* The flags and paths that count are not quotes.
LEMMA CountedSets ==
    /\ "''" \notin PathWords /\ "''" \notin Sensitive /\ "''" \notin System
    /\ "''" \notin {"-f"} /\ "''" \notin {"-r", "-rf"} /\ "''" \notin {"-f", "-rf"}
    /\ "''" \notin {"-c"}
BY EngineAssumption DEF ShellWords

\* Quotes behind what remains of a command add no points, if no rule reads them, ...
LEMMA SameSum ==
    ASSUME OrdinaryTable, NEW c \in Commands, c # <<>>, NEW q \in Quotes,
           q = <<>> \/ Rules[Base[Head(c)]].empty = 0
    PROVE  Sum(c \o q) = Sum(c)
<1>1. PICK e : e = c \o q
  OBVIOUS
<1>2. Head(e) = Head(c)
  BY <1>1, QuotesTyped, Joined
<1>3. /\ HasFlag(e, {"-f"}) <=> HasFlag(c, {"-f"})
      /\ HasFlag(e, {"-r", "-rf"}) <=> HasFlag(c, {"-r", "-rf"})
      /\ HasFlag(e, {"-f", "-rf"}) <=> HasFlag(c, {"-f", "-rf"})
      /\ HasFlag(e, {"-c"}) <=> HasFlag(c, {"-c"})
      /\ HasArg(e, PathWords) <=> HasArg(c, PathWords)
      /\ HasArg(e, Sensitive) <=> HasArg(c, Sensitive)
      /\ HasArg(e, System) <=> HasArg(c, System)
  BY <1>1, QuotesDoNotCount, CountedSets, Zenon
<1>4. RenamedPoints(e) = RenamedPoints(c)
  BY <1>2, <1>3 DEF RenamedPoints
<1>5. RulePoints(e) = RulePoints(c)
  <2>1. CASE q = <<>>
    <3>1. e = c
      BY <1>1, <2>1 DEF Commands
    <3> QED  BY <3>1
  <2>2. CASE Rules[Base[Head(c)]].empty = 0
    <3>1. PICK r : r = Rules[Base[Head(c)]]
      OBVIOUS
    <3>2. Base[Head(c)] \in Words
      BY HeadTail, RulesTyped
    <3>3. "''" \notin r.words
      BY <3>1, <3>2 DEF OrdinaryTable
    <3>4. HasArg(e, r.words) <=> HasArg(c, r.words)
      BY <1>1, <3>3, QuotesDoNotCount, Zenon
    <3>5. Points(HasArg(e, r.words), r.found) = Points(HasArg(c, r.words), r.found)
      BY <3>4 DEF Points
    <3>6. /\ Points(Len(e) > 1 /\ Last(e) = "''", r.empty) = 0
          /\ Points(Len(c) > 1 /\ Last(c) = "''", r.empty) = 0
      BY <2>2, <3>1, Zenon DEF Points
    <3>7. Rules[Base[Head(e)]] = r
      BY <1>2, <3>1
    <3> QED  BY <3>1, <3>5, <3>6, <3>7, Zenon DEF RulePoints
  <2> QED  BY <2>1, <2>2
<1>6. /\ Points(HasFlag(e, {"-f"}), 20) = Points(HasFlag(c, {"-f"}), 20)
      /\ Points(HasFlag(e, {"-r", "-rf"}), 15) = Points(HasFlag(c, {"-r", "-rf"}), 15)
      /\ Points(HasArg(e, Sensitive), 25) = Points(HasArg(c, Sensitive), 25)
      /\ Points(HasArg(e, System), 30) = Points(HasArg(c, System), 30)
      /\ Points(Base[Head(e)] \in Interpreters /\ HasFlag(e, {"-c"}), 40)
           = Points(Base[Head(c)] \in Interpreters /\ HasFlag(c, {"-c"}), 40)
  BY <1>2, <1>3 DEF Points
<1> QED  BY <1>1, <1>2, <1>4, <1>5, <1>6 DEF Sum

\* ... and have none themselves.
LEMMA SumOfQuotes ==
    ASSUME OrdinaryTable, NEW q \in Quotes, q # <<>>
    PROVE  Sum(q) = 0
<1>1. Head(q) = "''" /\ Base[Head(q)] = "''" /\ "''" # "sudo"
  BY QuotesAre
<1>2. q \in Commands /\ DOMAIN q = 1..Len(q) /\ \A i \in 1..Len(q) : q[i] = "''"
  <2>1. q \in Commands /\ \A i \in 1..Len(q) : q[i] = "''"
    BY QuotesTyped
  <2> QED  BY <2>1 DEF Commands
<1>3. /\ ~HasFlag(q, {"-f"}) /\ ~HasFlag(q, {"-r", "-rf"}) /\ ~HasFlag(q, {"-c"})
      /\ ~HasArg(q, Sensitive) /\ ~HasArg(q, System)
  BY <1>2, CountedSets DEF HasFlag, HasArg
<1>4. RenamedPoints(q) = 0
  BY <1>3 DEF RenamedPoints
<1>5. RulePoints(q) = 0
  <2>1. PICK r : r = Rules["''"]
    OBVIOUS
  <2>2. r.always = 0 /\ r.found = 0 /\ r.empty = 0
    BY <2>1 DEF OrdinaryTable
  <2>3. /\ Points(HasArg(q, r.words), r.found) = 0
        /\ Points(Len(q) > 1 /\ Last(q) = "''", r.empty) = 0
    BY <2>2, Zenon DEF Points
  <2>4. Rules[Base[Head(q)]] = r
    BY <1>1, <2>1
  <2>5. RulePoints(q) = 0 + 0 + 0
    BY <2>2, <2>3, <2>4, Zenon DEF RulePoints
  <2> QED  BY <2>5
<1>6. /\ Points(Head(q) \in Backups, 80) = 0 /\ Points(Base[Head(q)] \in Destructive, 40) = 0
      /\ Points(HasFlag(q, {"-f"}), 20) = 0 /\ Points(HasFlag(q, {"-r", "-rf"}), 15) = 0
      /\ Points(HasArg(q, Sensitive), 25) = 0 /\ Points(HasArg(q, System), 30) = 0
      /\ Points(Base[Head(q)] = "sudo", 15) = 0
      /\ Points(Base[Head(q)] \in Interpreters /\ HasFlag(q, {"-c"}), 40) = 0
  BY <1>1, <1>3 DEF Points, OrdinaryTable
<1> QED  BY <1>4, <1>5, <1>6 DEF Sum

\* An entry of the table does not begin with a wrapper, so that it matches nothing but
\* what remains of a command.
LEMMA NoWrapperIsDangerous ==
    ASSUME OrdinaryTable, NEW c \in Commands, c # <<>>, Inner(c) # c, NEW p \in Dangerous
    PROVE  ~IsPrefix(p, c)
<1> SUFFICES ASSUME IsPrefix(p, c) PROVE FALSE
  OBVIOUS
<1>1. p \in Commands /\ p # <<>> /\ Base[Head(p)] \notin WrapperNames
  BY DEF OrdinaryTable
<1>2. Len(p) <= Len(c) /\ \A i \in 1..Len(p) : p[i] = c[i]
  BY <1>1, PrefixElements DEF Commands
<1>3. Len(p) \in Nat /\ Len(p) >= 1 /\ Head(p) = p[1] /\ Head(c) = c[1]
  BY <1>1, HeadTail
<1>4. Head(p) = Head(c)
  <2>1. 1 \in 1..Len(p)
    BY <1>3
  <2> QED  BY <1>2, <1>3, <2>1
<1> QED  BY <1>1, <1>4, InnerShortens

-----------------------------------------------------------------------------
(* The table                                                               *)

\* normalizeCommandString changes the first word at most.
LEMMA NamedIs ==
    ASSUME NEW c \in Commands, c # <<>>
    PROVE  /\ Named(c) \in Commands /\ Len(Named(c)) = Len(c)
           /\ Named(c)[1] = Base[Head(c)]
           /\ \A i \in 2..Len(c) : Named(c)[i] = c[i]
<1>1. PICK b, t : b = <<Base[Head(c)]>> /\ t = Tail(c)
  OBVIOUS
<1>2. /\ b \in Commands /\ Len(b) = 1 /\ b[1] = Base[Head(c)]
      /\ t \in Commands /\ Len(t) = Len(c) - 1 /\ Len(c) \in Nat /\ Len(c) >= 1
      /\ \A i \in 1..(Len(c) - 1) : t[i] = c[i + 1]
  BY <1>1, HeadTail DEF Commands
<1>3. PICK n : n = b \o t
  OBVIOUS
<1>4. /\ n \in Commands /\ Len(n) = Len(b) + Len(t)
      /\ \A i \in 1..Len(b) : n[i] = b[i]
      /\ \A i \in 1..Len(t) : n[i + Len(b)] = t[i]
  BY <1>2, <1>3, Joined
<1>5. ASSUME NEW i \in 2..Len(c) PROVE n[i] = c[i]
  <2>1. PICK j : j = i - 1
    OBVIOUS
  <2>2. j \in 1..(Len(c) - 1) /\ j \in 1..Len(t) /\ j + 1 = i
    BY <1>2, <2>1
  <2>3. n[j + 1] = t[j] /\ t[j] = c[j + 1]
    BY <1>2, <1>4, <2>2
  <2> QED  BY <2>2, <2>3
<1>6. 1 \in 1..Len(b) /\ Len(n) = Len(c)
  BY <1>2, <1>4
<1> QED  BY <1>1, <1>2, <1>3, <1>4, <1>5, <1>6 DEF Named

\* An entry of the table has no quotes, named or not.
LEMMA TableWords ==
    ASSUME OrdinaryTable, NEW p \in Dangerous
    PROVE  /\ p \in Commands /\ p # <<>>
           /\ Named(p) \in Commands /\ Len(Named(p)) = Len(p) /\ Len(p) \in Nat /\ Len(p) >= 1
           /\ \A i \in 1..Len(Named(p)) : Named(p)[i] # "''"
<1>1. /\ p \in Commands /\ p # <<>> /\ Base[Head(p)] # "''"
      /\ \A i \in 1..Len(p) : p[i] # "''"
  BY DEF OrdinaryTable, Commands
<1>2. /\ Named(p) \in Commands /\ Len(Named(p)) = Len(p) /\ Named(p)[1] = Base[Head(p)]
      /\ \A i \in 2..Len(p) : Named(p)[i] = p[i]
  BY <1>1, NamedIs
<1>3. Len(p) \in Nat /\ Len(p) >= 1
  BY <1>1, HeadTail
<1>4. \A i \in 1..Len(p) : i = 1 \/ i \in 2..Len(p)
  BY <1>3
<1> QED  BY <1>1, <1>2, <1>3, <1>4

\* What begins with the words of another command still does when both are named.
LEMMA NamedPrefix ==
    ASSUME NEW p \in Commands, p # <<>>, NEW c \in Commands, c # <<>>, IsPrefix(p, c)
    PROVE  IsPrefix(Named(p), Named(c))
<1>1. Len(p) <= Len(c) /\ \A i \in 1..Len(p) : p[i] = c[i]
  BY PrefixElements DEF Commands
<1>2. /\ Len(p) \in Nat /\ Len(p) >= 1 /\ Head(p) = p[1] /\ Head(c) = c[1]
      /\ Len(c) \in Nat
  BY HeadTail
<1>3. Head(p) = Head(c)
  <2>1. 1 \in 1..Len(p)
    BY <1>2
  <2> QED  BY <1>1, <1>2, <2>1
<1>4. /\ Named(c) \in Commands /\ Len(Named(c)) = Len(c) /\ Named(c)[1] = Base[Head(c)]
      /\ \A i \in 2..Len(c) : Named(c)[i] = c[i]
  BY NamedIs
<1>5. /\ Named(p) \in Commands /\ Len(Named(p)) = Len(p) /\ Named(p)[1] = Base[Head(p)]
      /\ \A i \in 2..Len(p) : Named(p)[i] = p[i]
  BY NamedIs
<1>6. ASSUME NEW i \in 1..Len(p) PROVE Named(p)[i] = Named(c)[i]
  <2>1. CASE i = 1
    BY <1>3, <1>4, <1>5, <2>1
  <2>2. CASE i # 1
    <3>1. i \in 2..Len(p) /\ i \in 2..Len(c)
      BY <1>1, <1>2, <2>2
    <3> QED  BY <1>1, <1>4, <1>5, <3>1
  <2> QED  BY <2>1, <2>2
<1>7. /\ Named(p) \in Seq(Words) /\ Named(c) \in Seq(Words)
      /\ Len(Named(p)) <= Len(Named(c))
  BY <1>1, <1>4, <1>5 DEF Commands
<1>8. \A i \in 1..Len(Named(p)) : Named(p)[i] = Named(c)[i]
  BY <1>5, <1>6
<1> QED  BY <1>7, <1>8, PrefixElements

\* Only what remains of a command is to be compared with the table.
LEMMA DangerousIs ==
    ASSUME OrdinaryTable, NEW c \in Commands, c # <<>>, NEW x \in Commands, x # <<>>,
           x = c \/ Inner(c) # c
    PROVE  IsDangerous(c, x) <=> \E p \in Dangerous : IsPrefix(Named(p), Named(x))
<1>1. ASSUME NEW p \in Dangerous, IsPrefix(p, c) PROVE IsPrefix(Named(p), Named(x))
  <2>1. x = c
    BY <1>1, NoWrapperIsDangerous
  <2> QED  BY <1>1, <2>1, TableWords, NamedPrefix
<1> QED  BY <1>1 DEF IsDangerous

\* Quotes behind the words make no command dangerous.
LEMMA DangerousQuotes ==
    ASSUME OrdinaryTable, NEW x \in Commands, x # <<>>, NEW r \in Quotes,
           NEW e \in Dangerous, IsPrefix(Named(e), Named(x \o r))
    PROVE  IsPrefix(Named(e), Named(x))
<1>1. PICK y, p : y = x \o r /\ p = Named(e)
  OBVIOUS
<1>2. /\ r \in Commands /\ Len(r) \in Nat /\ Len(x) \in Nat /\ Len(x) >= 1
      /\ \A i \in 1..Len(r) : r[i] = "''"
  BY QuotesTyped, HeadTail
<1>3. /\ y \in Commands /\ y # <<>> /\ Head(y) = Head(x) /\ Len(y) = Len(x) + Len(r)
      /\ \A i \in 1..Len(x) : y[i] = x[i]
      /\ \A i \in 1..Len(r) : y[i + Len(x)] = r[i]
  BY <1>1, <1>2, Joined
<1>4. p \in Commands /\ \A i \in 1..Len(p) : p[i] # "''"
  BY <1>1, TableWords
<1>5. /\ Named(y) \in Commands /\ Len(Named(y)) = Len(y) /\ Named(y)[1] = Base[Head(y)]
      /\ \A i \in 2..Len(y) : Named(y)[i] = y[i]
  BY <1>3, NamedIs
<1>6. /\ Named(x) \in Commands /\ Len(Named(x)) = Len(x) /\ Named(x)[1] = Base[Head(x)]
      /\ \A i \in 2..Len(x) : Named(x)[i] = x[i]
  BY NamedIs
<1>7. Len(p) <= Len(Named(y)) /\ \A i \in 1..Len(p) : p[i] = Named(y)[i]
  <2>1. p \in Seq(Words) /\ Named(y) \in Seq(Words) /\ IsPrefix(p, Named(y))
    BY <1>1, <1>4, <1>5 DEF Commands
  <2> QED  BY <2>1, PrefixElements
<1>8. Len(p) \in Nat
  BY <1>4 DEF Commands
<1>9. Len(p) <= Len(x)
  <2> SUFFICES ASSUME Len(p) > Len(x) PROVE FALSE
    BY <1>2, <1>8
  <2>1. PICK k : k = 1 + Len(x)
    OBVIOUS
  <2>2. k \in 1..Len(p) /\ k \in 2..Len(y) /\ 1 \in 1..Len(r)
    BY <1>2, <1>3, <1>5, <1>7, <1>8, <2>1
  <2>3. p[k] = y[k] /\ y[k] = r[1] /\ r[1] = "''"
    BY <1>2, <1>3, <1>5, <1>7, <2>1, <2>2
  <2> QED  BY <1>4, <2>2, <2>3
<1>10. ASSUME NEW i \in 1..Len(p) PROVE p[i] = Named(x)[i]
  <2>1. CASE i = 1
    BY <1>3, <1>5, <1>6, <1>7, <2>1
  <2>2. CASE i # 1
    <3>1. i \in 1..Len(x) /\ i \in 2..Len(x) /\ i \in 2..Len(y)
      BY <1>2, <1>3, <1>8, <1>9, <2>2
    <3> QED  BY <1>3, <1>5, <1>6, <1>7, <3>1
  <2> QED  BY <2>1, <2>2
<1> QED
  <2>1. p \in Seq(Words) /\ Named(x) \in Seq(Words) /\ Len(p) <= Len(Named(x))
    BY <1>4, <1>6, <1>9 DEF Commands
  <2> QED  BY <1>1, <1>10, <2>1, PrefixElements

\* Nothing but quotes is not dangerous.
LEMMA QuotesAreNotDangerous ==
    ASSUME OrdinaryTable, NEW q \in Quotes, q # <<>>, NEW p \in Dangerous
    PROVE  ~IsPrefix(Named(p), Named(q))
<1> SUFFICES ASSUME IsPrefix(Named(p), Named(q)) PROVE FALSE
  OBVIOUS
<1>1. q \in Commands /\ Base[Head(q)] = "''"
  BY QuotesTyped, QuotesAre
<1>2. Named(q) \in Commands /\ Named(q)[1] = "''"
  BY <1>1, NamedIs
<1>3. Named(p) \in Seq(Words) /\ Named(q) \in Seq(Words)
  BY <1>2, TableWords DEF Commands
<1>4. \A i \in 1..Len(Named(p)) : Named(p)[i] = Named(q)[i]
  BY <1>3, PrefixElements
<1>5. 1 \in 1..Len(Named(p))
  BY TableWords
<1> QED  BY <1>2, <1>4, <1>5, TableWords

-----------------------------------------------------------------------------
(* The score                                                               *)

\* The score of a command in whose wrappers something is left.
LEMMA ScoreIs ==
    ASSUME NEW c \in Commands, NEW x, x = Unwrap[c].parts, x # <<>>,
           NEW v, v = Unwrap[c].wrappers, NEW d, d = Points(IsDangerous(c, x), 60),
           NEW s, s = Sum(x), NEW n, n = 20 * v + d + s
    PROVE  /\ n \in Nat /\ v \in Nat /\ d \in {0, 60} /\ s \in Nat /\ x \in Commands
           /\ Base[Head(x)] \in Escalated /\ n < 80 => Score(c) = Cap(n + 80)
           /\ ~(Base[Head(x)] \in Escalated /\ n < 80) => Score(c) = Cap(n)
<1>1. x \in Commands /\ v \in Nat
  BY UnwrapTyped DEF Results
<1>2. d \in {0, 60}
  BY DEF Points
<1>3. s \in Nat
  BY <1>1, SumIs
<1>4. n \in Nat
  BY <1>1, <1>2, <1>3
<1>5. Score(c) = Cap(Escalate(x, n))
  BY Zenon DEF Score
<1>6. ASSUME Base[Head(x)] \in Escalated, n < 80 PROVE Escalate(x, n) = n + 80
  BY <1>6 DEF Escalate, Points
<1>7. ASSUME ~(Base[Head(x)] \in Escalated /\ n < 80) PROVE Escalate(x, n) = n
  <2>1. Escalate(x, n) = n + 0
    BY <1>7, Zenon DEF Escalate, Points
  <2> QED  BY <1>4, <2>1
<1> QED  BY <1>1, <1>2, <1>3, <1>4, <1>5, <1>6, <1>7

\* A score is a natural number.
LEMMA ScoreTyped == ASSUME NEW c \in Commands PROVE Score(c) \in Nat
<1>1. PICK x, v : x = Unwrap[c].parts /\ v = Unwrap[c].wrappers
  OBVIOUS
<1>2. v \in Nat
  BY <1>1, UnwrapTyped DEF Results
<1>3. CASE x = <<>>
  <2>1. Score(c) = 20 * v
    BY <1>1, <1>3, Zenon DEF Score
  <2> QED  BY <1>2, <2>1
<1>4. CASE x # <<>>
  <2>1. PICK d, s, n : /\ d = Points(IsDangerous(c, x), 60) /\ s = Sum(x)
                       /\ n = 20 * v + d + s
    OBVIOUS
  <2>2. n \in Nat /\ (Score(c) = Cap(n + 80) \/ Score(c) = Cap(n))
    BY <1>1, <1>4, <2>1, ScoreIs
  <2>3. Cap(n) \in Nat /\ Cap(n + 80) \in Nat
    BY <2>2 DEF Cap
  <2> QED  BY <2>2, <2>3
<1> QED  BY <1>3, <1>4

\* The score of nothing but wrappers and quotes is that of the wrappers.
LEMMA ScoreOfQuotes ==
    ASSUME OrdinaryTable, NEW c \in Commands, IsCommand(c), Unwrap[c].parts \in Quotes
    PROVE  Score(c) <= 20 * Unwrap[c].wrappers
<1>1. PICK x, v : x = Unwrap[c].parts /\ v = Unwrap[c].wrappers
  OBVIOUS
<1>2. v \in Nat
  BY <1>1, UnwrapTyped DEF Results
<1>3. CASE x = <<>>
  <2>1. Score(c) = 20 * v
    BY <1>1, <1>3, Zenon DEF Score
  <2> QED  BY <1>1, <1>2, <2>1
<1>4. CASE x # <<>>
  <2>1. x \in Quotes /\ x \in Commands /\ Head(x) = "''" /\ Base[Head(x)] = "''"
    BY <1>1, <1>4, QuotesTyped, QuotesAre
  <2>2. c # <<>> /\ Head(c) # "''"
    BY DEF IsCommand
  <2>3. Inner(c) # c
    BY <1>1, <2>1, <2>2, UnwrapBare
  <2>4. ~IsDangerous(c, x)
    BY <1>4, <2>1, <2>2, <2>3, DangerousIs, QuotesAreNotDangerous
  <2>5. PICK d, s, n : /\ d = Points(IsDangerous(c, x), 60) /\ s = Sum(x)
                       /\ n = 20 * v + d + s
    OBVIOUS
  <2>6. d = 0 /\ s = 0 /\ n = 20 * v
    <3>1. d = 0
      BY <2>4, <2>5 DEF Points
    <3>2. s = 0
      BY <1>4, <2>1, <2>5, SumOfQuotes
    <3> QED  BY <1>2, <2>5, <3>1, <3>2
  <2>7. Base[Head(x)] \notin Escalated
    BY <2>1 DEF OrdinaryTable
  <2>8. Score(c) = Cap(n)
    BY <1>1, <1>4, <2>5, <2>7, ScoreIs
  <2>9. Cap(n) <= n
    BY <1>2, <2>6 DEF Cap
  <2> QED  BY <1>1, <2>6, <2>8, <2>9
<1> QED  BY <1>3, <1>4

\* A command runs at least its wrappers.
LEMMA ScoreOfWrappers ==
    ASSUME NEW a \in Commands, Score(a) < 80
    PROVE  20 * Unwrap[a].wrappers <= Score(a)
<1>1. PICK x, v : x = Unwrap[a].parts /\ v = Unwrap[a].wrappers
  OBVIOUS
<1>2. v \in Nat
  BY <1>1, UnwrapTyped DEF Results
<1>3. CASE x = <<>>
  <2>1. Score(a) = 20 * v
    BY <1>1, <1>3, Zenon DEF Score
  <2> QED  BY <1>1, <1>2, <2>1
<1>4. CASE x # <<>>
  <2>1. PICK d, s, n : /\ d = Points(IsDangerous(a, x), 60) /\ s = Sum(x)
                       /\ n = 20 * v + d + s
    OBVIOUS
  <2>2. /\ n \in Nat /\ d \in {0, 60} /\ s \in Nat
        /\ Score(a) = Cap(n + 80) \/ Score(a) = Cap(n)
    BY <1>1, <1>4, <2>1, ScoreIs
  <2>3. 20 * v <= n
    BY <1>2, <2>1, <2>2
  <2>4. Cap(n) < 80 => Cap(n) = n
    BY <2>2 DEF Cap
  <2>5. ~(Cap(n + 80) < 80)
    BY <2>2 DEF Cap
  <2>6. Score(a) = n
    BY <2>2, <2>4, <2>5
  <2> QED  BY <1>1, <2>3, <2>6
<1> QED  BY <1>3, <1>4

\* What a command runs through a wrapper has no higher score than the command, as
\* long as that one has less than 80 points.
LEMMA WrappersAddPoints ==
    ASSUME OrdinaryTable, NEW a \in Commands, NEW c \in Wrapped(a), IsCommand(c),
           ~ReadsQuotes(c), Score(a) < 80
    PROVE  c \in Commands /\ c # <<>> /\ a # <<>> /\ Score(c) <= Score(a) /\ Score(c) < 80
<1>1. /\ a # <<>> /\ Inner(a) # a /\ Inner(a) \in Commands /\ c \in Commands
      /\ \E q \in Quotes : c = Inner(a) \o q
  BY WrapperRuns
<1>2. PICK b : b = Inner(a)
  OBVIOUS
<1>3. PICK q \in Quotes : c = b \o q
  BY <1>1, <1>2
<1>4. /\ Unwrap[a].parts = Unwrap[b].parts /\ Unwrap[a].wrappers = Unwrap[b].wrappers + 1
  BY <1>1, <1>2, UnwrapOnce
<1>5. SameParts(b, q)
  BY <1>1, <1>2, UnwrapQuotes
<1>6. PICK x, v, w : x = Unwrap[b].parts /\ v = Unwrap[b].wrappers /\ w = Unwrap[c].wrappers
  OBVIOUS
<1>7. x \in Commands /\ v \in Nat /\ w \in Nat
  BY <1>1, <1>2, <1>6, UnwrapTyped DEF Results
<1>8. c # <<>>
  BY DEF IsCommand
<1>9. CASE /\ x # <<>> /\ w = v /\ \E r \in Quotes : Unwrap[c].parts = x \o r
  <2>1. PICK r \in Quotes : Unwrap[c].parts = x \o r
    BY <1>9
  <2>2. PICK y : y = x \o r
    OBVIOUS
  <2>3. y # <<>> /\ Head(y) = Head(x) /\ y \in Commands
    BY <1>7, <1>9, <2>2, QuotesTyped, Joined
  <2>4. y = c \/ Inner(c) # c
    BY <1>1, <1>8, <2>1, <2>2, UnwrapBare
  <2>5. IsDangerous(c, y) => IsDangerous(a, x)
    <3>1. IsDangerous(c, y) <=> \E p \in Dangerous : IsPrefix(Named(p), Named(y))
      BY <1>1, <1>8, <2>3, <2>4, DangerousIs
    <3>2. IsDangerous(a, x) <=> \E p \in Dangerous : IsPrefix(Named(p), Named(x))
      BY <1>1, <1>7, <1>9, DangerousIs
    <3>3. \A p \in Dangerous : IsPrefix(Named(p), Named(y)) => IsPrefix(Named(p), Named(x))
      BY <1>7, <1>9, <2>2, DangerousQuotes
    <3> QED  BY <3>1, <3>2, <3>3
  <2>6. Sum(y) = Sum(x)
    <3>1. CASE r = <<>>
      BY <1>7, <1>9, <2>2, <3>1, SameSum
    <3>2. CASE r # <<>>
      <4>1. Last(y) = "''"
        <5>1. r \in Commands /\ Len(r) \in Nat /\ Len(r) >= 1 /\ \A i \in 1..Len(r) : r[i] = "''"
          BY <3>2, QuotesTyped, HeadTail
        <5>2. Len(x) \in Nat
          BY <1>7 DEF Commands
        <5>3. Len(y) = Len(x) + Len(r) /\ \A i \in 1..Len(r) : y[i + Len(x)] = r[i]
          BY <1>7, <2>2, <5>1, Joined
        <5>4. Len(r) \in 1..Len(r) /\ Len(r) + Len(x) = Len(y)
          BY <5>1, <5>2, <5>3
        <5>5. y[Len(y)] = "''"
          BY <5>1, <5>3, <5>4
        <5> QED  BY <5>5 DEF Last
      <4>2. ~(Rules[Base[Head(x)]].empty > 0)
        BY <2>1, <2>2, <2>3, <4>1 DEF ReadsQuotes
      <4>3. Rules[Base[Head(x)]].empty \in Nat
        BY <1>7, <1>9, HeadTail, RulesTyped
      <4>4. Rules[Base[Head(x)]].empty = 0
        BY <4>2, <4>3
      <4> QED  BY <1>7, <1>9, <2>2, <4>4, SameSum
    <3> QED  BY <3>1, <3>2
  <2>7. PICK d, e, s, m, n : /\ d = Points(IsDangerous(a, x), 60)
                             /\ e = Points(IsDangerous(c, y), 60) /\ s = Sum(x)
                             /\ m = 20 * (v + 1) + d + s /\ n = 20 * v + e + s
    OBVIOUS
  <2>8. e <= d
    <3>1. CASE IsDangerous(c, y)
      BY <2>5, <2>7, <3>1 DEF Points
    <3>2. CASE ~IsDangerous(c, y)
      BY <2>7, <3>2 DEF Points
    <3> QED  BY <3>1, <3>2
  <2>9. /\ m \in Nat /\ d \in {0, 60} /\ s \in Nat
        /\ Base[Head(x)] \in Escalated /\ m < 80 => Score(a) = Cap(m + 80)
        /\ ~(Base[Head(x)] \in Escalated /\ m < 80) => Score(a) = Cap(m)
    <3>1. x = Unwrap[a].parts /\ v + 1 = Unwrap[a].wrappers
      BY <1>4, <1>6
    <3> QED  BY <1>9, <2>7, <3>1, ScoreIs
  <2>10. /\ n \in Nat /\ e \in {0, 60}
         /\ ~(Base[Head(y)] \in Escalated /\ n < 80) => Score(c) = Cap(n)
    <3>1. y = Unwrap[c].parts /\ v = Unwrap[c].wrappers /\ s = Sum(y)
      BY <1>6, <1>9, <2>1, <2>2, <2>6, <2>7
    <3> QED  BY <1>1, <2>3, <2>7, <3>1, ScoreIs
  <2>11. /\ n <= m
    BY <1>7, <2>7, <2>8, <2>9, <2>10
  <2>12. m < 80 /\ Base[Head(x)] \notin Escalated
    <3>1. ~(Cap(m + 80) < 80)
      BY <2>9 DEF Cap
    <3>2. Cap(m) < 80 => m < 80
      BY <2>9 DEF Cap
    <3> QED  BY <2>9, <3>1, <3>2
  <2>13. Score(a) = m /\ Score(c) = n
    <3>1. Cap(m) = m /\ Cap(n) = n
      BY <2>9, <2>10, <2>11, <2>12 DEF Cap
    <3> QED  BY <2>3, <2>9, <2>10, <2>12, <3>1
  <2> QED  BY <1>1, <1>8, <2>9, <2>10, <2>11, <2>12, <2>13
<1>10. CASE Unwrap[c].parts \in Quotes /\ w <= v + 1
  <2>1. Score(c) <= 20 * w
    BY <1>1, <1>6, <1>10, ScoreOfQuotes
  <2>2. 20 * (v + 1) <= Score(a)
    BY <1>4, <1>6, ScoreOfWrappers
  <2> QED
    <3>1. PICK m, n : m = Score(a) /\ n = Score(c)
      OBVIOUS
    <3>2. m \in Nat /\ n \in Nat
      BY <1>1, <3>1, ScoreTyped
    <3> QED  BY <1>1, <1>7, <1>8, <1>10, <2>1, <2>2, <3>1, <3>2
<1> QED  BY <1>3, <1>5, <1>6, <1>9, <1>10 DEF SameParts

-----------------------------------------------------------------------------
(* Nothing is hidden                                                       *)

\* A command the proxy does not ask about runs nothing it would ask about.
LEMMA UnaskedRunsUnasked ==
    ASSUME OrdinaryTable, NEW m \in Messages, m.tool = "execute_command", ~Asks(m),
           NEW c \in Wrapped(m.arg), IsCommand(c), ~ReadsQuotes(c)
    PROVE  ~Asks([m EXCEPT !.arg = c])
<1>1. m \in Calls /\ m.arg \in Commands /\ m = [tool |-> m.tool, arg |-> m.arg]
  BY ProxyAssumption DEF Messages, Other, Long
<1>2. PICK a, e : a = m.arg /\ e = [m EXCEPT !.arg = c]
  OBVIOUS
<1>3. e.tool = "execute_command" /\ e.arg = c
  BY <1>1, <1>2
<1>4. a \in Commands /\ c \in Wrapped(a) /\ a # <<>> /\ c # <<>>
  <2>1. a \in Commands /\ c \in Wrapped(a)
    BY <1>1, <1>2
  <2> QED  BY <2>1, WrapperRuns DEF IsCommand
<1>5. ToolScore("execute_command", a) = Score(a) /\ ToolScore("execute_command", c) = Score(c)
  BY <1>4 DEF ToolScore
<1>6. ASSUME NEW n \in Nat PROVE (ScoreToLevel(n) # "none") <=> n > 10
  <2>1. CASE n <= 10
    BY <2>1 DEF ScoreToLevel
  <2>2. CASE n > 10
    BY <2>2 DEF ScoreToLevel
  <2> QED  BY <2>1, <2>2
<1>7. PICK i, j : i = Score(a) /\ j = Score(c)
  OBVIOUS
<1>8. i \in Nat /\ j \in Nat /\ c \in Commands
  BY <1>4, <1>7, ScoreTyped, WrapperRuns
<1>9. ~(i > 10 /\ i > Threshold)
  <2>1. IsToolCall(m)
    BY DEF IsToolCall, Tools
  <2>2. ToolScore(m.tool, m.arg) = i
    BY <1>2, <1>5, <1>7
  <2>3. ~(ScoreToLevel(i) # "none" /\ i > Threshold)
    BY <2>1, <2>2, Zenon DEF Asks
  <2> QED  BY <1>6, <1>8, <2>3
<1>10. Threshold \in Nat /\ Threshold < 80
  BY ProxyAssumption DEF OrdinaryTable
<1>11. i < 80
  BY <1>8, <1>9, <1>10
<1>12. j <= i
  BY <1>4, <1>7, <1>11, WrappersAddPoints
<1>13. ~(j > 10 /\ j > Threshold)
  BY <1>8, <1>9, <1>10, <1>12
<1>14. ~(ScoreToLevel(j) # "none" /\ j > Threshold)
  BY <1>6, <1>8, <1>13
<1>15. ToolScore(e.tool, e.arg) = j
  BY <1>3, <1>5, <1>7
<1>16. ~Asks(e)
  BY <1>14, <1>15, Zenon DEF Asks
<1> QED  BY <1>2, <1>16

\* What the server was sent is one of the client's messages.
LEMMA PassedAreSent ==
    ASSUME ProxyInv, NEW i \in Passed
    PROVE  i \in 1..Len(sent) /\ sent[i] \in Messages
<1> USE DEF ProxyInv
<1>1. PICK k \in DOMAIN inbox : inbox[k].kind = "message" /\ inbox[k].id = i
  BY DEF Passed
<1>2. /\ Len(inbox) <= Settled /\ \A j \in 1..Len(inbox) : inbox[j] = Did(outcome, j)
      /\ Settled \in Nat /\ Settled <= read /\ read <= Len(sent)
      /\ read \in Nat /\ Len(sent) \in Nat /\ Len(inbox) \in Nat
  BY InOrderElements, LogElements, Ranges
<1>3. k \in 1..Len(inbox)
  BY <1>1 DEF TypeOK
<1>4. inbox[k].id = k
  <2>1. inbox[k] = Did(outcome, k)
    BY <1>2, <1>3
  <2>2. Error(k).id = k /\ Forward(k).id = k
    BY DEF Error, Forward
  <2> QED  BY <2>1, <2>2 DEF Did
<1>5. k \in 1..Len(sent)
  BY <1>2, <1>3
<1> QED  BY <1>1, <1>4, <1>5, Ranges

\* A command that goes to the server unasked runs nothing, through the forms of
\* wrappers the engine sees through and in any combination of them, that the proxy
\* would have asked about - except by an empty pair of quotes that a rule reads.
THEOREM NothingIsHidden ==
    ASSUME OrdinaryTable
    PROVE  SafeSpec => []WrappersHideNothing
<1>1. ProxyInv => WrappersHideNothing
  <2> SUFFICES ASSUME ProxyInv, NEW i \in Passed, sent[i].tool = "execute_command",
                      sent[i] \notin Risky, NEW c \in Wrapped(sent[i].arg), IsCommand(c),
                      ~ReadsQuotes(c)
               PROVE  ~Asks([sent[i] EXCEPT !.arg = c])
    BY DEF WrappersHideNothing
  <2>1. sent[i] \in Messages
    BY PassedAreSent
  <2>2. ~Asks(sent[i])
    BY <2>1 DEF Risky
  <2> QED  BY <2>1, <2>2, UnaskedRunsUnasked
<1> QED  BY <1>1, Invariant, PTL
=============================================================================
