--------------------------- MODULE FanotifyProofs ---------------------------
(***************************************************************************)
(* Safety of the fanotify monitor for any number of opens, any queue and   *)
(* any number of polls and restarts.                                       *)
(***************************************************************************)
EXTENDS Fanotify, SequenceTheorems, TLAPS

Keys == {"new", "waiting", "allowed", "denied"}

LEMMA GuardedEvents == Guarded \subseteq Events /\ Own \notin Events
BY FanotifyAssumption DEF Events

\* NoUnclearedOpen by its name for what an open goes ahead on, and an event goes on
\* being cleared.
LEMMA ClearedIs ==
    NoUnclearedOpen <=> \A o \in Guarded \cap Opens :
                            open[o] = "allowed" => Cleared(o) \/ o \in unread \/ killed
BY DEF NoUnclearedOpen, Cleared

LEMMA ClearedStays ==
    ASSUME misread \subseteq misread',
           \A o \in Events : verdict[o] = "approve" => verdict'[o] = "approve"
    PROVE  \A o \in Events : Cleared(o) => Cleared(o)'
BY GuardedEvents DEF Cleared

LEMMA InitInv == Init => FanotifyInv
<1> SUFFICES ASSUME Init PROVE FanotifyInv
  OBVIOUS
<1> USE DEF Init
<1>1. TypeOK
  <2>1. <<>> \in Seq(Events) /\ <<>> \in Seq(Events \cup {Own}) /\ Len(<<>>) = 0
    OBVIOUS
  <2>2. queue \in Seq(Events \cup {Own}) /\ Len(queue) <= MaxQueue /\ buffer \in Seq(Events)
    BY <2>1, FanotifyAssumption
  <2>3. /\ open \in [Events -> Keys]
        /\ verdict \in [Events -> {"none", "approve", "refuse"}]
        /\ outcome \in [Events -> {"idle", "waiting", "proceed", "blocked"}]
    BY DEF Keys
  <2>4. polls \in 0..MaxPolls /\ restarts \in 0..MaxRestarts
    BY FanotifyAssumption
  <2>5. heard \subseteq Guarded /\ asked \in Guarded \cup {Own} /\ misread \subseteq Guarded
    OBVIOUS
  <2> QED  BY <2>2, <2>3, <2>4, <2>5 DEF TypeOK, Keys
<1>2. OneByOne
  BY DEF OneByOne, Asking
<1>3. NoUnclearedOpen
  BY GuardedEvents DEF NoUnclearedOpen
<1> QED  BY <1>1, <1>2, <1>3 DEF FanotifyInv

\* A step that leaves buffer, queue and the state of the opens alone, and what
\* has been asked about waiting.
LEMMA Frame ==
    ASSUME FanotifyInv, TypeOK', UNCHANGED <<kernel, buffer, outcome>>,
           pc' = "handle" => pc = "handle", pc # "held",
           pc' \in {"read", "down"} => buffer = <<>>,
           Asking' => Asking /\ (approved' => Cleared(Head(buffer))'),
           pc' = "poll" => asked' = Head(buffer)
                             \/ (asked' \in Guarded /\ Head(buffer) \in misread'),
           misread \subseteq misread', \A o \in misread' : outcome[o] # "idle",
           \A o \in Events : verdict[o] = "approve" => verdict'[o] = "approve",
           UNCHANGED <<unread, killed>>
    PROVE  FanotifyInv'
<1> USE DEF FanotifyInv, kernel
<1>1. OneByOne'
  BY DEF OneByOne
<1>2. NoUnclearedOpen'
  <2>1. \A o \in Guarded \cap Opens :
           open[o] = "allowed" => Cleared(o) \/ o \in unread \/ killed
    BY ClearedIs
  <2>2. \A o \in Events : Cleared(o) => Cleared(o)'
    BY ClearedStays
  <2> QED  BY <2>1, <2>2, GuardedEvents DEF NoUnclearedOpen, Cleared
<1> QED  BY <1>1, <1>2

\* An answer takes the head of the buffer out of every obligation.
LEMMA AnswerKeeps ==
    ASSUME FanotifyInv, pc # "held", buffer # <<>>, NEW ok \in BOOLEAN,
           Answer(Head(buffer), ok),
           ok /\ Head(buffer) \in Guarded => Cleared(Head(buffer)),
           \A o \in Events \ {Head(buffer)} : outcome'[o] = outcome[o],
           outcome' \in [Events -> {"idle", "waiting", "proceed", "blocked"}],
           Head(buffer) \in misread => outcome'[Head(buffer)] # "idle",
           polls' \in {0, polls}, asked' \in {Own, asked},
           UNCHANGED <<queue, running, approved, heard, misread, verdict, history>>
    PROVE  FanotifyInv'
<1> USE DEF FanotifyInv
<1> DEFINE h == Head(buffer)
<1>1. /\ buffer \in Seq(Events) /\ queue \in Seq(Events \cup {Own})
      /\ open \in [Events -> Keys]
  BY DEF TypeOK, Keys
<1>2. /\ h \in Events /\ h = buffer[1] /\ 1 \in DOMAIN buffer
      /\ Tail(buffer) \in Seq(Events)
      /\ Len(Tail(buffer)) = Len(buffer) - 1 /\ Len(buffer) \in Nat
      /\ \A i \in 1..Len(Tail(buffer)) : Tail(buffer)[i] = buffer[i + 1]
  BY <1>1, HeadTailProperties, EmptySeq, LenProperties
<1>3. /\ buffer' = Tail(buffer) /\ pc' = "handle"
      /\ open' = [open EXCEPT ![h] = IF ok THEN "allowed" ELSE "denied"]
  BY DEF Answer, Goto
<1>4. TypeOK'
  <2>1. polls' \in 0..MaxPolls /\ asked' \in Guarded \cup {Own}
    BY FanotifyAssumption DEF TypeOK
  <2> QED  BY <1>1, <1>2, <1>3, <2>1 DEF TypeOK, history, Keys
<1>5. ASSUME NEW k \in DOMAIN buffer'
      PROVE  /\ k + 1 \in DOMAIN buffer /\ k + 1 # 1 /\ buffer'[k] = buffer[k + 1]
             /\ buffer'[k] \in Events \ {h}
  <2>1. k \in 1..Len(Tail(buffer)) /\ DOMAIN buffer = 1..Len(buffer)
    BY <1>1, <1>2, <1>3, <1>5, LenProperties
  <2>2. k + 1 \in DOMAIN buffer /\ k + 1 # 1 /\ buffer'[k] = buffer[k + 1]
    BY <1>2, <1>3, <2>1
  <2>3. buffer[k + 1] \in Events
    BY <1>1, <2>1, <2>2, ElementOfSeq
  <2>4. buffer[k + 1] # h
    BY <1>2, <2>2 DEF OneByOne
  <2> QED  BY <2>2, <2>3, <2>4
<1>6. OneByOne'
  <2>1. ASSUME NEW k \in DOMAIN buffer'
        PROVE  /\ open'[buffer'[k]] = "waiting" /\ outcome'[buffer'[k]] = "idle"
               /\ \A j \in DOMAIN buffer' : buffer'[j] = buffer'[k] => j = k
    <3>1. open[buffer[k + 1]] = "waiting" /\ outcome[buffer[k + 1]] = "idle"
      BY <1>5, <2>1 DEF OneByOne
    <3>2. open'[buffer'[k]] = "waiting" /\ outcome'[buffer'[k]] = "idle"
      BY <1>1, <1>3, <1>5, <2>1, <3>1
    <3>3. ASSUME NEW j \in DOMAIN buffer', buffer'[j] = buffer'[k] PROVE j = k
      <4>1. j + 1 = k + 1
        BY <1>5, <2>1, <3>3 DEF OneByOne
      <4>2. j \in Nat /\ k \in Nat
        BY <1>2, <1>3, <2>1, <3>3, LenProperties
      <4> QED  BY <4>1, <4>2
    <3> QED  BY <3>2, <3>3
  <2>2. ASSUME NEW k \in DOMAIN queue'
        PROVE  /\ queue'[k] \in Events
               /\ open'[queue'[k]] = "waiting" /\ outcome'[queue'[k]] = "idle"
               /\ \A j \in DOMAIN queue' : queue'[j] = queue'[k] => j = k
               /\ \A j \in DOMAIN buffer' : buffer'[j] # queue'[k]
    <3>1. /\ queue[k] \in Events /\ open[queue[k]] = "waiting"
          /\ outcome[queue[k]] = "idle"
          /\ \A j \in DOMAIN queue : queue[j] = queue[k] => j = k
          /\ \A j \in DOMAIN buffer : buffer[j] # queue[k]
      BY <2>2 DEF OneByOne
    <3>2. queue[k] # h
      BY <1>2, <3>1
    <3>3. \A j \in DOMAIN buffer' : buffer'[j] # queue[k]
      BY <1>5, <3>1
    <3> QED  BY <1>1, <1>3, <3>1, <3>2, <3>3
  <2>3. \A o \in misread' : outcome'[o] # "idle"
    BY GuardedEvents DEF OneByOne, TypeOK
  <2>4. \A o \in Events : open'[o] = "new" => outcome'[o] = "idle"
    BY <1>1, <1>2, <1>3 DEF OneByOne
  <2>5. ~Asking' /\ pc' \notin {"read", "down", "poll", "held"}
    BY <1>3 DEF Asking
  <2> QED  BY <1>3, <2>1, <2>2, <2>3, <2>4, <2>5 DEF OneByOne
<1>7. NoUnclearedOpen'
  <2>1. \A o \in Guarded \cap Opens :
           open[o] = "allowed" => Cleared(o) \/ o \in unread \/ killed
    BY ClearedIs
  <2>2. \A o \in Guarded \cap Opens :
           open'[o] = "allowed" => Cleared(o) \/ o \in unread \/ killed
    BY <1>1, <1>2, <1>3, <2>1, GuardedEvents
  <2> QED  BY <2>2 DEF NoUnclearedOpen, Cleared, history
<1> QED  BY <1>4, <1>6, <1>7

\* When the descriptor is closed nothing is left to be answered.
LEMMA LetPassKeeps ==
    ASSUME FanotifyInv, LetPass, running' \in BOOLEAN, UNCHANGED restarts,
           killed' \/ (buffer = <<>> /\ killed' = killed), killed' \in BOOLEAN
    PROVE  FanotifyInv'
<1> USE DEF FanotifyInv, LetPass
<1>1. TypeOK'
  <2>1. open' \in [Events -> {"new", "waiting", "allowed", "denied"}]
    BY DEF TypeOK
  <2>2. /\ queue' \in Seq(Events \cup {Own}) /\ Len(queue') <= MaxQueue
        /\ buffer' \in Seq(Events)
    BY FanotifyAssumption, EmptySeq
  <2>3. /\ polls' \in 0..MaxPolls /\ approved' \in BOOLEAN /\ pc' = "down"
        /\ heard' \subseteq Guarded /\ asked' \in Guarded \cup {Own} /\ misread' \subseteq Guarded
    <3>1. polls' \in 0..MaxPolls /\ pc' = "down" /\ misread' \subseteq Guarded
      BY FanotifyAssumption DEF TypeOK
    <3>2. heard' \subseteq Guarded /\ asked' \in Guarded \cup {Own}
      OBVIOUS
    <3>3. approved' \in BOOLEAN
      BY Zenon
    <3> QED  BY <3>1, <3>2, <3>3
  <2>4. unread' \subseteq Events
    BY DEF TypeOK, Waiting
  <2>5. /\ UNCHANGED <<verdict, outcome, restarts>> /\ running' \in BOOLEAN
        /\ killed' \in BOOLEAN
    OBVIOUS
  <2> HIDE DEF LetPass
  <2> QED  BY <2>1, <2>2, <2>3, <2>4, <2>5 DEF TypeOK
<1>2. OneByOne'
  <2>1. \A o \in Events : open'[o] = "new" => outcome'[o] = "idle"
    BY DEF OneByOne, Waiting
  <2>2. buffer' = <<>> /\ queue' = <<>> /\ pc' = "down" /\ ~Asking'
    BY DEF Asking
  <2>3. \A o \in misread' : outcome'[o] # "idle"
    BY DEF OneByOne
  <2> QED  BY <2>1, <2>2, <2>3 DEF OneByOne
<1>3. NoUnclearedOpen'
  <2> SUFFICES ASSUME NEW o \in Guarded \cap Opens, open'[o] = "allowed", ~killed'
               PROVE  Cleared(o) \/ o \in unread'
    BY DEF NoUnclearedOpen, Cleared
  <2>1. o \in Events /\ buffer = <<>> /\ killed' = killed
    BY GuardedEvents
  <2>2. CASE open[o] = "waiting"
    BY <2>1, <2>2 DEF Waiting, Read
  <2>3. CASE open[o] # "waiting"
    BY <2>1, <2>3, ClearedIs DEF Waiting
  <2> QED  BY <2>2, <2>3
<1> QED  BY <1>1, <1>2, <1>3


LEMMA OpenKeeps == ASSUME FanotifyInv, NEW o \in Events, Open(o) PROVE FanotifyInv'
<1> USE DEF FanotifyInv
<1>1. /\ queue \in Seq(Events \cup {Own}) /\ buffer \in Seq(Events)
      /\ open \in [Events -> Keys] /\ open[o] = "new" /\ Len(queue) \in Nat
  BY LenProperties DEF TypeOK, Keys, Open
<1>2. CASE /\ open' = [open EXCEPT ![o] = "allowed"]
           /\ unread' = unread \cup {o} /\ UNCHANGED queue
  <2>1. TypeOK'
    BY <1>2 DEF Open, TypeOK, memory
  <2>2. \A q \in Events : open[q] = "waiting" => open'[q] = "waiting"
    BY <1>1, <1>2
  <2>3. \A k \in DOMAIN buffer : buffer[k] \in Events
    BY <1>1, LenProperties, ElementOfSeq
  <2>4. OneByOne'
    <3>1. \A q \in Events : open'[q] = "new" => open[q] = "new"
      BY <1>1, <1>2
    <3> QED  BY <1>2, <2>2, <2>3, <3>1 DEF Open, OneByOne, Asking, Cleared, memory
  <2>5. NoUnclearedOpen'
    BY <1>1, <1>2, GuardedEvents DEF Open, NoUnclearedOpen, memory
  <2> QED  BY <2>1, <2>4, <2>5
<1>3. CASE /\ open' = [open EXCEPT ![o] = "waiting"] /\ Len(queue) < MaxQueue
           /\ queue' = Append(queue, o) /\ UNCHANGED unread
  <2>1. /\ queue' \in Seq(Events \cup {Own}) /\ Len(queue') = Len(queue) + 1
        /\ \A i \in 1..Len(queue) : queue'[i] = queue[i]
        /\ queue'[Len(queue) + 1] = o
        /\ DOMAIN queue = 1..Len(queue) /\ DOMAIN queue' = 1..(Len(queue) + 1)
    BY <1>1, <1>3, AppendProperties, LenProperties
  <2>2. TypeOK'
    <3>1. Len(queue') <= MaxQueue
      BY <1>1, <1>3, <2>1, FanotifyAssumption
    <3>2. open' \in [Events -> {"new", "waiting", "allowed", "denied"}]
      BY <1>1, <1>3 DEF Keys
    <3> QED  BY <1>3, <2>1, <3>1, <3>2 DEF Open, TypeOK, memory
  <2>3. \A q \in Events : open[q] = "waiting" => open'[q] = "waiting" /\ q # o
    BY <1>1, <1>3
  <2>4. \A k \in DOMAIN buffer : buffer[k] \in Events /\ buffer[k] # o
    BY <1>1, <2>3, LenProperties, ElementOfSeq DEF OneByOne
  <2>5. \A k \in DOMAIN queue : queue[k] # o
    BY <1>1, GuardedEvents DEF OneByOne
  <2>6. open'[o] = "waiting" /\ outcome[o] = "idle"
    BY <1>1, <1>3 DEF OneByOne
  <2>7. OneByOne'
    <3>1. \A k \in DOMAIN buffer' :
             /\ open'[buffer'[k]] = "waiting"
             /\ (k = 1 /\ pc' # "handle") \/ outcome'[buffer'[k]] = "idle"
             /\ \A j \in DOMAIN buffer' : buffer'[j] = buffer'[k] => j = k
      BY <2>3, <2>4 DEF Open, OneByOne
    <3>2. ASSUME NEW k \in DOMAIN queue, queue[k] # Own
          PROVE  /\ queue'[k] \in Events
                 /\ open'[queue'[k]] = "waiting" /\ outcome'[queue'[k]] = "idle"
                 /\ \A j \in DOMAIN queue' : queue'[j] = queue'[k] => j = k
                 /\ \A j \in DOMAIN buffer' : buffer'[j] # queue'[k]
      BY <2>1, <2>3, <2>5, <3>2 DEF Open, OneByOne
    <3>3. ASSUME NEW k \in DOMAIN queue, queue[k] = Own
          PROVE  queue'[k] = Own /\ pc' = "held"
      BY <2>1, <3>3, GuardedEvents DEF Open, OneByOne
    <3>4. /\ \A j \in DOMAIN queue' : queue'[j] = o => j = Len(queue) + 1
          /\ \A j \in DOMAIN buffer' : buffer'[j] # o
      BY <2>1, <2>4, <2>5 DEF Open
    <3>5. \A q \in Events : open'[q] = "new" => outcome'[q] = "idle"
      BY <1>1, <1>3 DEF Open, OneByOne
    <3> QED
      BY <2>1, <2>6, <3>1, <3>2, <3>3, <3>4, <3>5
      DEF Open, OneByOne, Asking, Cleared, memory
  <2>8. NoUnclearedOpen'
    BY <1>1, <1>3, GuardedEvents DEF Open, NoUnclearedOpen, memory
  <2> QED  BY <2>2, <2>7, <2>8
<1>4. Len(queue) <= MaxQueue /\ MaxQueue \in Nat
  BY FanotifyAssumption DEF TypeOK
<1>5. Len(queue) # MaxQueue => Len(queue) < MaxQueue
  BY <1>1, <1>4
<1> QED  BY <1>2, <1>3, <1>5 DEF Open

LEMMA AtEnd ==
    ASSUME NEW l \in Nat, NEW n \in Nat, n <= l, ~(n + 1 <= l) PROVE l - n = 0
OBVIOUS

LEMMA Beyond ==
    ASSUME NEW l \in Nat, NEW n \in 1..l, NEW k \in 1..(l - n) PROVE n + k \in 1..l
OBVIOUS

\* What is read leaves the queue in order and has not been asked about.
LEMMA ReadKeeps == ASSUME FanotifyInv, ReadEvents PROVE FanotifyInv'
<1> USE DEF FanotifyInv
<1>1. PICK n \in 1..Len(queue) : /\ buffer' = SubSeq(queue, 1, n)
                                 /\ queue' = SubSeq(queue, n + 1, Len(queue))
  BY DEF ReadEvents
<1>2. /\ queue \in Seq(Events \cup {Own}) /\ Len(queue) \in Nat
      /\ DOMAIN queue = 1..Len(queue) /\ pc = "read" /\ buffer = <<>>
  BY LenProperties DEF TypeOK, ReadEvents, OneByOne
<1>3. \A k \in 1..Len(queue) :
          /\ queue[k] \in Events /\ open[queue[k]] = "waiting" /\ outcome[queue[k]] = "idle"
          /\ \A j \in 1..Len(queue) : queue[j] = queue[k] => j = k
  BY <1>2 DEF OneByOne
<1>4. /\ buffer' \in Seq(Events) /\ Len(buffer') = n
      /\ \A i \in 1..n : buffer'[i] = queue[i]
  BY <1>1, <1>2, <1>3, SubSeqProperties
<1>5. /\ queue' \in Seq(Events \cup {Own}) /\ Len(queue') = Len(queue) - n
      /\ \A i \in 1..(Len(queue) - n) : queue'[i] = queue[n + i]
  <2> DEFINE S == Events \cup {Own}
  <2>1. \A i \in (n + 1)..Len(queue) : queue[i] \in S
    BY <1>2, <1>3
  <2>2. n + 1 \in Int /\ Len(queue) \in Int
    BY <1>1, <1>2
  <2>3. /\ queue' \in Seq(S)
        /\ Len(queue') = IF n + 1 <= Len(queue) THEN Len(queue) - (n + 1) + 1 ELSE 0
        /\ \A i \in 1..(Len(queue) - (n + 1) + 1) : queue'[i] = queue[(n + 1) + i - 1]
    BY <1>1, <2>1, <2>2, SubSeqProperties
  <2>4. /\ Len(queue) - (n + 1) + 1 = Len(queue) - n
        /\ \A i \in 1..(Len(queue) - n) : (n + 1) + i - 1 = n + i
    BY <1>1, <1>2
  <2>5. Len(queue') = Len(queue) - n
    <3>1. n <= Len(queue) /\ n \in Nat
      BY <1>1, <1>2
    <3>2. CASE n + 1 <= Len(queue)
      BY <2>3, <2>4, <3>2
    <3>3. CASE ~(n + 1 <= Len(queue))
      <4>1. Len(queue) - n = 0
        BY <1>2, <3>1, <3>3, AtEnd
      <4>2. Len(queue') = 0
        BY <2>3, <3>3
      <4> QED  BY <4>1, <4>2
    <3> QED  BY <3>2, <3>3
  <2>6. ASSUME NEW i \in 1..(Len(queue) - n) PROVE queue'[i] = queue[n + i]
    <3>1. i \in 1..(Len(queue) - (n + 1) + 1)
      BY <2>4, <2>6
    <3>2. queue'[i] = queue[(n + 1) + i - 1]
      BY <2>3, <3>1
    <3> QED  BY <2>4, <2>6, <3>2
  <2> QED  BY <2>3, <2>5, <2>6
<1>6. TypeOK'
  <2>1. Len(queue) <= MaxQueue /\ MaxQueue \in Nat /\ n \in Nat
    BY <1>1, <1>2, FanotifyAssumption DEF TypeOK
  <2>2. Len(queue') <= MaxQueue
    BY <1>2, <1>5, <2>1
  <2> QED  BY <1>4, <1>5, <2>2 DEF ReadEvents, Goto, TypeOK, memory, history
<1>7. OneByOne'
  <2>1. DOMAIN buffer' = 1..n /\ DOMAIN queue' = 1..(Len(queue) - n)
    BY <1>4, <1>5, LenProperties
  <2>2. UNCHANGED <<open, outcome>> /\ pc' = "handle"
    BY DEF ReadEvents, Goto
  <2>3. ASSUME NEW k \in 1..n
        PROVE  /\ open'[buffer'[k]] = "waiting" /\ outcome'[buffer'[k]] = "idle"
               /\ \A j \in 1..n : buffer'[j] = buffer'[k] => j = k
    BY <1>1, <1>2, <1>3, <1>4, <2>2
  <2>4. ASSUME NEW k \in 1..(Len(queue) - n)
        PROVE  /\ queue'[k] \in Events
               /\ open'[queue'[k]] = "waiting" /\ outcome'[queue'[k]] = "idle"
               /\ \A j \in 1..(Len(queue) - n) : queue'[j] = queue'[k] => j = k
               /\ \A j \in 1..n : buffer'[j] # queue'[k]
    <3>1. n + k \in 1..Len(queue) /\ queue'[k] = queue[n + k]
      BY <1>2, <1>5, <2>4, Beyond
    <3>2. ASSUME NEW j \in 1..(Len(queue) - n), queue'[j] = queue'[k] PROVE j = k
      <4>1. n + j \in 1..Len(queue) /\ queue'[j] = queue[n + j]
        BY <1>2, <1>5, <3>2, Beyond
      <4>2. n + j = n + k
        BY <1>3, <3>1, <3>2, <4>1
      <4> QED  BY <1>1, <1>2, <2>4, <3>2, <4>2
    <3>3. ASSUME NEW j \in 1..n PROVE buffer'[j] # queue'[k]
      <4>1. j \in 1..Len(queue) /\ j # n + k
        BY <1>1, <1>2, <2>4, <3>3
      <4> QED  BY <1>3, <1>4, <3>1, <3>3, <4>1
    <3> QED  BY <1>3, <2>2, <3>1, <3>2, <3>3
  <2>5. \A o \in misread' : outcome'[o] # "idle"
    BY DEF ReadEvents, OneByOne, memory
  <2>6. \A o \in Events : open'[o] = "new" => outcome'[o] = "idle"
    BY <2>2 DEF OneByOne
  <2> QED  BY <2>1, <2>2, <2>3, <2>4, <2>5, <2>6 DEF OneByOne, Asking
<1>8. NoUnclearedOpen'
  BY DEF ReadEvents, NoUnclearedOpen, memory, history
<1> QED  BY <1>6, <1>7, <1>8

LEMMA HandleKeeps == ASSUME FanotifyInv, HandleEvent PROVE FanotifyInv'
<1> USE DEF FanotifyInv
<1>1. /\ buffer \in Seq(Events) /\ buffer # <<>> /\ pc = "handle"
      /\ Head(buffer) \in Events /\ Head(buffer) = buffer[1]
      /\ DOMAIN buffer = 1..Len(buffer) /\ Len(buffer) \in Nat /\ Len(buffer) # 0
  BY HeadTailProperties, LenProperties, EmptySeq DEF HandleEvent, TypeOK
<1>2. CASE Head(buffer) \notin Guarded
  <2>1. /\ Answer(Head(buffer), TRUE) /\ Head(buffer) \notin misread
        /\ UNCHANGED <<queue, running, outcome, approved, polls, memory, verdict, history>>
    BY <1>2 DEF HandleEvent, TypeOK
  <2>2. outcome' \in [Events -> {"idle", "waiting", "proceed", "blocked"}]
    BY <2>1 DEF TypeOK
  <2> QED  BY <1>1, <1>2, <2>1, <2>2, AnswerKeeps DEF memory
<1>3. CASE Head(buffer) \in Guarded
  <2> DEFINE h == Head(buffer)
  <2>1. /\ outcome' = [outcome EXCEPT ![h] = "waiting"] /\ approved' = FALSE
        /\ pc' = "evaluate"
        /\ UNCHANGED <<open, queue, buffer, running, polls, memory, verdict, history>>
    BY <1>3 DEF HandleEvent, Goto
  <2>2. TypeOK'
    BY <1>1, <2>1 DEF TypeOK, memory, history
  <2>3. 1 \in DOMAIN buffer /\ open[h] = "waiting"
    BY <1>1 DEF OneByOne
  <2>4. \A q \in Events \ {h} : outcome'[q] = outcome[q]
    BY <2>1 DEF TypeOK
  <2>5. outcome'[h] = "waiting"
    BY <1>1, <2>1 DEF TypeOK
  <2>6. \A k \in DOMAIN buffer : k # 1 => buffer[k] \in Events \ {h}
    BY <1>1, <2>3, ElementOfSeq DEF OneByOne
  <2>7. \A k \in DOMAIN queue : queue[k] \in Events \ {h}
    BY <1>1, <2>3 DEF OneByOne
  <2>8. OneByOne'
    <3>1. \A q \in Events : open'[q] = "new" => outcome'[q] = "idle"
      BY <2>1, <2>3, <2>4 DEF OneByOne
    <3>2. \A k \in DOMAIN buffer' :
             /\ open'[buffer'[k]] = "waiting"
             /\ (k = 1 /\ pc' # "handle") \/ outcome'[buffer'[k]] = "idle"
             /\ \A j \in DOMAIN buffer' : buffer'[j] = buffer'[k] => j = k
      BY <1>1, <2>1, <2>4, <2>6 DEF OneByOne
    <3>3. \A k \in DOMAIN queue' :
             /\ queue'[k] \in Events
             /\ open'[queue'[k]] = "waiting" /\ outcome'[queue'[k]] = "idle"
             /\ \A j \in DOMAIN queue' : queue'[j] = queue'[k] => j = k
             /\ \A j \in DOMAIN buffer' : buffer'[j] # queue'[k]
      BY <1>1, <2>1, <2>4, <2>7 DEF OneByOne
    <3>4. \A o \in misread' : outcome'[o] # "idle"
      BY <2>1, <2>4, <2>5, GuardedEvents DEF OneByOne, TypeOK, memory
    <3> QED  BY <1>1, <1>3, <2>1, <2>5, <3>1, <3>2, <3>3, <3>4 DEF OneByOne, Asking
  <2>9. NoUnclearedOpen'
    BY <2>1 DEF NoUnclearedOpen, memory, history
  <2> QED  BY <2>2, <2>8, <2>9
<1> QED  BY <1>2, <1>3

LEMMA RespondKeeps == ASSUME FanotifyInv, Respond PROVE FanotifyInv'
<1> USE DEF FanotifyInv
<1>1. /\ buffer # <<>> /\ approved \in BOOLEAN /\ pc = "respond"
      /\ approved => Cleared(Head(buffer))
      /\ Head(buffer) \in Events
  BY GuardedEvents DEF Respond, OneByOne, Asking, TypeOK
<1>2. /\ outcome' \in [Events -> {"idle", "waiting", "proceed", "blocked"}]
      /\ \A o \in Events \ {Head(buffer)} : outcome'[o] = outcome[o]
      /\ outcome'[Head(buffer)] # "idle"
  BY <1>1 DEF Respond, TypeOK
<1> QED  BY <1>1, <1>2, AnswerKeeps DEF Respond

LEMMA OwnKeeps == ASSUME FanotifyInv, OwnOpen PROVE FanotifyInv'
<1> USE DEF FanotifyInv
<1>1. /\ queue \in Seq(Events \cup {Own}) /\ Len(queue) \in Nat /\ Asking
      /\ pc' = "held" /\ queue' = Append(queue, Own)
      /\ UNCHANGED <<open, buffer, running, approved, polls, memory, verdict, outcome, history>>
  BY LenProperties DEF TypeOK, OwnOpen, Goto, Asking
<1>2. /\ queue' \in Seq(Events \cup {Own}) /\ Len(queue') = Len(queue) + 1
      /\ \A i \in 1..Len(queue) : queue'[i] = queue[i]
      /\ queue'[Len(queue) + 1] = Own
      /\ DOMAIN queue = 1..Len(queue) /\ DOMAIN queue' = 1..(Len(queue) + 1)
  BY <1>1, AppendProperties, LenProperties
<1>3. TypeOK'
  BY <1>1, <1>2, FanotifyAssumption DEF OwnOpen, TypeOK, memory, history
<1>4. OneByOne'
  <2>1. \A k \in DOMAIN queue :
           /\ queue[k] \in Events /\ queue[k] # Own
           /\ open[queue[k]] = "waiting" /\ outcome[queue[k]] = "idle"
           /\ \A j \in DOMAIN queue : queue[j] = queue[k] => j = k
           /\ \A j \in DOMAIN buffer : buffer[j] # queue[k]
    BY <1>1, GuardedEvents DEF OneByOne, Asking
  <2>2. ASSUME NEW k \in DOMAIN queue'
        PROVE  \/ queue'[k] = Own /\ pc' = "held"
               \/ /\ queue'[k] \in Events
                  /\ open'[queue'[k]] = "waiting" /\ outcome'[queue'[k]] = "idle"
                  /\ \A j \in DOMAIN queue' : queue'[j] = queue'[k] => j = k
                  /\ \A j \in DOMAIN buffer' : buffer'[j] # queue'[k]
    BY <1>1, <1>2, <2>1
  <2>3. /\ ~Asking' /\ ~(pc' \in {"read", "down"}) /\ pc' # "handle" /\ pc # "handle"
        /\ pc' # "poll" /\ misread' = misread
    BY <1>1 DEF Asking, memory
  <2> QED  BY <1>1, <2>2, <2>3 DEF OneByOne
<1>5. NoUnclearedOpen'
  BY <1>1 DEF NoUnclearedOpen, memory, history
<1> QED  BY <1>3, <1>4, <1>5

\* What an answer is about, the head of the buffer is cleared by if that one is
\* approved.
LEMMA AboutIs ==
    ASSUME FanotifyInv, pc \in {"evaluate", "poll"}, NEW e, NEW f \in Guarded, About(e, f)
    PROVE  /\ heard' \in SUBSET Guarded /\ misread' \in SUBSET Guarded
           /\ Asking /\ buffer # <<>> /\ Head(buffer) \in Guarded
           /\ outcome[Head(buffer)] = "waiting"
           /\ misread \subseteq misread' /\ misread' \subseteq misread \cup {Head(buffer)}
           /\ \A o \in misread' : outcome[o] # "idle"
           /\ f = Head(buffer) \/ Head(buffer) \in misread'
<1> USE DEF FanotifyInv
<1>1. /\ Asking /\ buffer # <<>> /\ Head(buffer) \in Guarded
      /\ outcome[Head(buffer)] = "waiting" /\ heard \subseteq Guarded
      /\ misread \subseteq Guarded /\ \A o \in misread : outcome[o] # "idle"
  BY DEF OneByOne, Asking, TypeOK
<1> QED  BY <1>1 DEF About

\* So an approval that is found clears it.
LEMMA FoundClears ==
    ASSUME FanotifyInv, pc \in {"evaluate", "poll"}, NEW e, NEW f \in Guarded, About(e, f),
           Finds(f), UNCHANGED verdict, UNCHANGED buffer
    PROVE  approved' = TRUE /\ pc' = "respond" /\ Cleared(Head(buffer))'
<1>1. f = Head(buffer) \/ Head(buffer) \in misread'
  BY AboutIs
<1> QED  BY <1>1 DEF Finds, Goto, Cleared

\* A step that reads no answer leaves what is approved so far.
LEMMA UnheardKeeps ==
    ASSUME FanotifyInv, Asking, UNCHANGED <<approved, memory, verdict, buffer>>
    PROVE  approved' => Cleared(Head(buffer))'
BY DEF FanotifyInv, OneByOne, Cleared, memory

LEMMA EvaluateKeeps == ASSUME FanotifyInv, Evaluate PROVE FanotifyInv'
<1> USE DEF FanotifyInv
<1>1. /\ pc = "evaluate" /\ Asking
      /\ UNCHANGED <<kernel, buffer, running, verdict, outcome, history>>
  BY DEF Evaluate, Asking
<1>2. polls \in 0..MaxPolls /\ 0 \in 0..MaxPolls /\ asked \in Guarded \cup {Own}
  BY FanotifyAssumption DEF TypeOK
<1>3. CASE Goto("respond") /\ UNCHANGED <<approved, polls, memory>>
  <2>1. TypeOK'
    BY <1>1, <1>3 DEF Goto, TypeOK, kernel, memory, history
  <2>2. approved' => Cleared(Head(buffer))'
    BY <1>1, <1>3, UnheardKeeps
  <2> QED  BY <1>1, <1>3, <2>1, <2>2, Frame DEF Goto, OneByOne, memory, history
<1>4. ASSUME NEW f \in Guarded, About(Head(buffer), f),
             \/ Finds(f) /\ UNCHANGED <<polls, asked>>
             \/ Goto("poll") /\ polls' = 0 /\ asked' = f /\ UNCHANGED approved
      PROVE  FanotifyInv'
  <2>1. /\ heard' \in SUBSET Guarded /\ misread' \in SUBSET Guarded
        /\ misread \subseteq misread' /\ \A o \in misread' : outcome[o] # "idle"
        /\ f = Head(buffer) \/ Head(buffer) \in misread'
    BY <1>1, <1>4, AboutIs
  <2>2. /\ polls' \in 0..MaxPolls /\ asked' \in Guarded \cup {Own}
        /\ pc' \in {"respond", "poll"}
    BY <1>2, <1>4 DEF Finds, Goto
  <2>3. approved' \in BOOLEAN
    BY <1>4, Zenon DEF Finds, TypeOK
  <2>4. TypeOK'
    BY <1>1, <2>1, <2>2, <2>3 DEF TypeOK, kernel, history
  <2>5. approved' => Cleared(Head(buffer))'
    <3>1. CASE Finds(f)
      BY <1>1, <1>4, <3>1, FoundClears
    <3>2. CASE UNCHANGED approved
      <4>1. approved => Cleared(Head(buffer))
        BY <1>1 DEF OneByOne
      <4>2. Head(buffer) \in Events
        BY <1>1, GuardedEvents DEF OneByOne
      <4>3. Cleared(Head(buffer)) => Cleared(Head(buffer))'
        BY <1>1, <2>1 DEF Cleared
      <4> QED  BY <3>2, <4>1, <4>3
    <3> QED  BY <1>4, <3>1, <3>2
  <2>6. pc' = "poll" => asked' = Head(buffer)
                           \/ (asked' \in Guarded /\ Head(buffer) \in misread')
    BY <1>4, <2>1 DEF Finds, Goto
  <2> QED  BY <1>1, <2>1, <2>2, <2>4, <2>5, <2>6, Frame DEF history
<1> QED  BY <1>3, <1>4 DEF Evaluate

LEMMA PollKeeps == ASSUME FanotifyInv, Poll PROVE FanotifyInv'
<1> USE DEF FanotifyInv
<1>1. /\ pc = "poll" /\ Asking
      /\ UNCHANGED <<kernel, buffer, running, verdict, outcome, history>>
  BY DEF Poll, Asking
<1>2. polls' \in 0..MaxPolls
  BY FanotifyAssumption DEF Poll, TypeOK
<1>3. asked = Head(buffer) \/ (asked \in Guarded /\ Head(buffer) \in misread)
  BY <1>1 DEF OneByOne
<1>4. CASE pc' \in {"poll", "respond"} /\ UNCHANGED <<approved, memory>>
  <2>1. TypeOK'
    BY <1>1, <1>2, <1>4 DEF TypeOK, kernel, memory, history
  <2>2. approved' => Cleared(Head(buffer))'
    BY <1>1, <1>4, UnheardKeeps
  <2> QED  BY <1>1, <1>3, <1>4, <2>1, <2>2, Frame DEF OneByOne, memory, history
<1>5. ASSUME NEW f \in Guarded, About(asked, f), Finds(f), UNCHANGED asked
      PROVE  FanotifyInv'
  <2>1. /\ heard' \in SUBSET Guarded /\ misread' \in SUBSET Guarded
        /\ misread \subseteq misread' /\ \A o \in misread' : outcome[o] # "idle"
    BY <1>1, <1>5, AboutIs
  <2>2. approved' = TRUE /\ pc' = "respond" /\ Cleared(Head(buffer))'
    BY <1>1, <1>5, FoundClears
  <2>3. TypeOK'
    BY <1>1, <1>2, <1>5, <2>1, <2>2 DEF TypeOK, kernel, history
  <2> QED  BY <1>1, <2>1, <2>2, <2>3, Frame DEF history
<1> QED  BY <1>1, <1>4, <1>5 DEF Poll, Goto

LEMMA NextInv == FanotifyInv /\ [Next]_vars => FanotifyInv'
<1> SUFFICES ASSUME FanotifyInv, [Next]_vars PROVE FanotifyInv'
  OBVIOUS
<1> USE DEF FanotifyInv
<1>1. ASSUME NEW o \in Events, Open(o) PROVE FanotifyInv'
  BY <1>1, OpenKeeps
<1>2. ASSUME NEW o \in Events, NEW v \in {"approve", "refuse"}, Decide(o, v)
      PROVE  FanotifyInv'
  <2>1. \A q \in Events : verdict[q] = "approve" => verdict'[q] = "approve"
    BY <1>2 DEF Decide, TypeOK
  <2>2. TypeOK'
    BY <1>2 DEF Decide, TypeOK, kernel, memory, history
  <2>3. \A q \in Events : Cleared(q) => Cleared(q)'
    BY <1>2, <2>1, ClearedStays DEF Decide, memory
  <2>4. OneByOne'
    BY <1>2, <2>3, GuardedEvents DEF Decide, OneByOne, Asking, kernel, memory
  <2>5. NoUnclearedOpen'
    <3>1. \A q \in Guarded \cap Opens :
             open[q] = "allowed" => Cleared(q) \/ q \in unread \/ killed
      BY ClearedIs
    <3>2. UNCHANGED <<open, unread, killed>>
      BY <1>2 DEF Decide, kernel, history
    <3> QED  BY <2>3, <3>1, <3>2, GuardedEvents DEF NoUnclearedOpen, Cleared
  <2> QED  BY <2>2, <2>4, <2>5
<1>3. CASE ReadEvents
  BY <1>3, ReadKeeps
<1>4. CASE HandleEvent
  BY <1>4, HandleKeeps
<1>5. CASE BufferDone
  <2>1. TypeOK'
    BY <1>5 DEF BufferDone, TypeOK, Goto, kernel, memory, history
  <2> QED  BY <1>5, <2>1, Frame DEF BufferDone, Goto, Asking, OneByOne, memory, history
<1>6. CASE Evaluate
  BY <1>6, EvaluateKeeps
<1>7. CASE Poll
  BY <1>7, PollKeeps
<1>8. CASE PollsUsedUp
  <2>1. TypeOK'
    BY <1>8 DEF PollsUsedUp, TypeOK, Goto, kernel, memory, history
  <2>2. Asking /\ (approved => Cleared(Head(buffer)))
    BY <1>8 DEF PollsUsedUp, OneByOne, Asking
  <2>3. Asking /\ (approved' => Cleared(Head(buffer))')
    BY <1>8, <2>2 DEF PollsUsedUp, Cleared, memory, kernel
  <2> QED  BY <1>8, <2>1, <2>3, Frame DEF PollsUsedUp, Goto, OneByOne, memory, history
<1>9. CASE Respond
  BY <1>9, RespondKeeps
<1>10. CASE OwnOpen
  BY <1>10, OwnKeeps
<1>11. CASE Signal
  <2>1. TypeOK'
    BY <1>11 DEF Signal, TypeOK, kernel, memory, history
  <2>2. OneByOne' /\ NoUnclearedOpen'
    BY <1>11 DEF Signal, OneByOne, Asking, Cleared, NoUnclearedOpen, kernel, memory, history
  <2> QED  BY <2>1, <2>2
<1>12. CASE Exit
  <2>1. buffer = <<>> /\ running' \in BOOLEAN /\ killed' \in BOOLEAN
    BY <1>12 DEF Exit, OneByOne, TypeOK
  <2> QED  BY <1>12, <2>1, LetPassKeeps DEF Exit
<1>13. CASE Kill
  <2>1. running' \in BOOLEAN
    BY <1>13 DEF Kill, TypeOK
  <2> QED  BY <1>13, <2>1, LetPassKeeps DEF Kill
<1>14. CASE Restart
  <2>1. TypeOK'
    BY <1>14, FanotifyAssumption DEF Restart, TypeOK, Goto, kernel, memory
  <2>2. OneByOne' /\ NoUnclearedOpen'
    BY <1>14 DEF Restart, OneByOne, Asking, Goto, NoUnclearedOpen, kernel, memory
  <2> QED  BY <2>1, <2>2
<1>15. CASE UNCHANGED vars
  BY <1>15
  DEF vars, kernel, memory, history, TypeOK, OneByOne, Asking, Cleared, NoUnclearedOpen
<1> QED  BY <1>1, <1>2, <1>3, <1>4, <1>5, <1>6, <1>7, <1>8, <1>9, <1>10, <1>11,
            <1>12, <1>13, <1>14, <1>15 DEF Next

\* The monitor handles one open at a time, and the rest of its buffer and of the
\* kernel's queue waits untouched (handle_event, main).
THEOREM Invariant == SafeSpec => []FanotifyInv
BY InitInv, NextInv, PTL DEF SafeSpec

\* Every variable keeps its type.
THEOREM TypeCorrect == SafeSpec => []TypeOK
<1>1. FanotifyInv => TypeOK
  BY DEF FanotifyInv
<1> QED  BY <1>1, Invariant, PTL

\* However opens, approvals, empty answers, signals, kills and restarts interleave, a
\* guarded open passes only on an approval - its own, or if an answer to it had no
\* body that of another one -, unread, or past a killed monitor.
THEOREM OpensCleared == SafeSpec => []NoUnclearedOpen
<1>1. FanotifyInv => NoUnclearedOpen
  BY DEF FanotifyInv
<1> QED  BY <1>1, Invariant, PTL

-----------------------------------------------------------------------------
(* The refinement of GuardDecision                                         *)

\* What the guard is shown does not change by misreading about an event that waits.
LEMMA SameGuard ==
    ASSUME FanotifyInv, UNCHANGED <<verdict, outcome>>, misread \subseteq misread',
           \A o \in misread' \ misread : outcome[o] # "proceed"
    PROVE  UNCHANGED <<verdict, GuardOutcome>>
BY DEF GuardOutcome

LEMMA StepRefines ==
    FanotifyInv /\ [Next]_vars => [Guard!Next]_(Guard!vars)
<1> SUFFICES ASSUME FanotifyInv, [Next]_vars
             PROVE  Guard!Next \/ UNCHANGED <<verdict, GuardOutcome>>
  BY DEF Guard!vars
<1> USE DEF FanotifyInv
<1>1. ASSUME NEW o \in Events, Open(o) PROVE UNCHANGED <<verdict, GuardOutcome>>
  BY <1>1, SameGuard DEF Open, memory
<1>2. ASSUME NEW o \in Events, NEW v \in {"approve", "refuse"}, Decide(o, v)
      PROVE  Guard!Next
  <2>1. UNCHANGED GuardOutcome /\ GuardOutcome[o] # "idle"
    BY <1>2 DEF Decide, memory, GuardOutcome
  <2> QED  BY <1>2, <2>1 DEF Decide, Guard!Next, Guard!Decide, Guard!Verdicts
<1>3. CASE HandleEvent
  <2>1. buffer \in Seq(Events) /\ buffer # <<>>
    BY <1>3 DEF HandleEvent, TypeOK
  <2>2. Head(buffer) \in Events /\ Head(buffer) = buffer[1] /\ 1 \in DOMAIN buffer
    BY <2>1, HeadTailProperties, LenProperties, EmptySeq
  <2>3. outcome[Head(buffer)] = "idle" /\ UNCHANGED <<verdict, misread>>
    BY <1>3, <2>2 DEF HandleEvent, OneByOne, memory
  <2>4. CASE outcome' = [outcome EXCEPT ![Head(buffer)] = "waiting"]
    <3>1. GuardOutcome[Head(buffer)] = "idle"
      BY <2>2, <2>3 DEF GuardOutcome
    <3>2. GuardOutcome' = [GuardOutcome EXCEPT ![Head(buffer)] = "waiting"]
      BY <2>2, <2>3, <2>4 DEF GuardOutcome, TypeOK
    <3> QED  BY <2>2, <2>3, <3>1, <3>2 DEF Guard!Next, Guard!Ask
  <2>5. CASE UNCHANGED outcome
    BY <2>3, <2>5, SameGuard
  <2> QED  BY <1>3, <2>4, <2>5 DEF HandleEvent
<1>4. CASE Respond
  <2>1. /\ Head(buffer) \in Events /\ outcome[Head(buffer)] = "waiting"
        /\ approved => Cleared(Head(buffer))
        /\ UNCHANGED <<verdict, misread>>
    BY <1>4, GuardedEvents DEF Respond, OneByOne, Asking
  <2>2. outcome' = [outcome EXCEPT ![Head(buffer)] = IF approved THEN "proceed" ELSE "blocked"]
    BY <1>4 DEF Respond
  <2>3. GuardOutcome[Head(buffer)] = "waiting"
    BY <2>1 DEF GuardOutcome
  <2>4. CASE approved /\ Head(buffer) \notin misread
    <3>1. GuardOutcome' = [GuardOutcome EXCEPT ![Head(buffer)] = "proceed"]
      BY <2>1, <2>2, <2>4 DEF GuardOutcome, TypeOK
    <3>2. verdict[Head(buffer)] = "approve"
      BY <2>1, <2>4 DEF Cleared
    <3> QED  BY <2>1, <2>3, <3>1, <3>2 DEF Guard!Next, Guard!Answer, Guard!Proceed
  <2>5. CASE approved /\ Head(buffer) \in misread
    BY <2>1, <2>2, <2>5 DEF GuardOutcome, TypeOK
  <2>6. CASE ~approved
    <3>1. GuardOutcome' = [GuardOutcome EXCEPT ![Head(buffer)] = "blocked"]
      BY <2>1, <2>2, <2>6 DEF GuardOutcome, TypeOK
    <3> QED  BY <2>1, <2>3, <3>1 DEF Guard!Next, Guard!Answer, Guard!Block
  <2> QED  BY <2>4, <2>5, <2>6
<1>5. CASE Evaluate \/ Poll
  <2>1. UNCHANGED <<verdict, outcome>> /\ pc \in {"evaluate", "poll"}
    BY <1>5 DEF Evaluate, Poll
  <2>2. CASE UNCHANGED misread
    BY <2>1, <2>2, SameGuard
  <2>3. ASSUME NEW e, NEW f \in Guarded, About(e, f) PROVE UNCHANGED <<verdict, GuardOutcome>>
    <3>1. /\ misread \subseteq misread' /\ misread' \subseteq misread \cup {Head(buffer)}
          /\ outcome[Head(buffer)] = "waiting"
      BY <2>1, <2>3, AboutIs
    <3> QED  BY <2>1, <3>1, SameGuard
  <2> QED  BY <1>5, <2>2, <2>3 DEF Evaluate, Poll, memory
<1>6. CASE ReadEvents \/ BufferDone \/ PollsUsedUp \/ OwnOpen \/ Signal \/ Restart
  <2>1. UNCHANGED <<verdict, outcome, misread>>
    BY <1>6 DEF ReadEvents, BufferDone, PollsUsedUp, OwnOpen, Signal, Restart, memory
  <2> QED  BY <2>1, SameGuard
<1>7. CASE Exit \/ Kill
  <2>1. UNCHANGED <<verdict, outcome, misread>>
    BY <1>7 DEF Exit, Kill, LetPass
  <2> QED  BY <2>1, SameGuard
<1>8. CASE UNCHANGED vars
  BY <1>8, SameGuard DEF vars, memory
<1> QED  BY <1>1, <1>2, <1>3, <1>4, <1>5, <1>6, <1>7, <1>8 DEF Next

\* Whatever the kernel, the approver and the signals do, a guarded event goes ahead
\* in the monitor only on an approval of its own, unless an answer without a body
\* made the monitor read an earlier one again.
THEOREM RefinesGuard == SafeSpec => ImplementsGuard
<1>1. Init => Guard!Init
  BY DEF Init, Guard!Init, GuardOutcome
<1> QED  BY <1>1, StepRefines, Invariant, PTL DEF SafeSpec, ImplementsGuard, Guard!SafeSpec
=============================================================================
