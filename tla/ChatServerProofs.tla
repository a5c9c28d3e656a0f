-------------------------- MODULE ChatServerProofs --------------------------
(***************************************************************************)
(* Theorems about ChatServer for every set of sessions, every history      *)
(* length MaxRecent > 0 and every number of posted messages.               *)
(***************************************************************************)
EXTENDS ChatServer, SequenceTheorems, TLAPS

\* push_back on a queue of messages.
LEMMA AppendFacts ==
    ASSUME NEW q \in Seq(Message), NEW m \in Message
    PROVE  /\ Append(q, m) \in Seq(Message)
           /\ Append(q, m) # <<>>
           /\ Len(Append(q, m)) = Len(q) + 1
           /\ \A i \in 1..Len(q) : Append(q, m)[i] = q[i]
           /\ Append(q, m)[Len(q) + 1] = m
OBVIOUS

\* do_write's handler looks for a next message after it popped one.
LEMMA MoreIffTail ==
    ASSUME NEW q \in Seq(Message), q # <<>>
    PROVE  Len(q) > 1 <=> Tail(q) # <<>>
<1>1. Tail(q) \in Seq(Message) /\ Len(Tail(q)) = Len(q) - 1 /\ Len(q) \in Nat \ {0}
  BY HeadTailProperties, EmptySeq
<1>2. Tail(q) # <<>> => Len(Tail(q)) # 0
  BY <1>1, EmptySeq
<1>3. Tail(q) = <<>> => Len(Tail(q)) = 0
  <2>1. Len(<<>>) = 0
    OBVIOUS
  <2>. QED
    BY <2>1, Zenon
<1> DEFINE a == Len(q)
           b == Len(Tail(q))
<1>4. a \in Nat \ {0} /\ b = a - 1
  BY <1>1
<1> HIDE DEF a, b
<1>5. a > 1 <=> b # 0
  BY <1>4
<1>. QED
  BY <1>2, <1>3, <1>5 DEF a, b

\* What RoomDeliver relies on: the history never exceeds MaxRecent.
LEMMA RememberType ==
    ASSUME NEW q \in Seq(Message), NEW m \in Message, Len(q) <= MaxRecent
    PROVE  /\ Remember(q, m) \in Seq(Message)
           /\ Len(Remember(q, m)) = IF Len(q) < MaxRecent THEN Len(q) + 1
                                                           ELSE MaxRecent
<1> USE ChatAssumption
<1>1. CASE Len(q) < MaxRecent
  BY <1>1 DEF Remember
<1>2. CASE Len(q) = MaxRecent
  <2>1. q # <<>> /\ Remember(q, m) = Append(Tail(q), m)
    BY <1>2 DEF Remember
  <2>2. Tail(q) \in Seq(Message) /\ Len(Tail(q)) = MaxRecent - 1
    BY <1>2, <2>1, HeadTailProperties
  <2>. QED
    BY <1>2, <2>1, <2>2, AppendFacts
<1>. QED
  BY <1>1, <1>2

\* A slice of the log stays one when the log grows.
LEMMA SliceOfLonger ==
    ASSUME NEW q \in Seq(Message), NEW l \in Seq(Message), NEW k \in Nat,
           NEW m \in Message, Slice(q, l, k)
    PROVE  Slice(q, Append(l, m), k)
<1>1. \A i \in 1..Len(q) : k + i \in 1..Len(l)
  BY DEF Slice
<1>. QED
  BY <1>1, AppendFacts DEF Slice

\* A slice that reaches to the log's end grows with the log (deliver).
LEMMA SliceGrows ==
    ASSUME NEW q \in Seq(Message), NEW l \in Seq(Message), NEW k \in Nat,
           NEW m \in Message, Slice(q, l, k), k + Len(q) = Len(l)
    PROVE  Slice(Append(q, m), Append(l, m), k)
<1>1. Len(Append(q, m)) = Len(q) + 1 /\ Len(Append(l, m)) = Len(l) + 1
  OBVIOUS
<1>2. ASSUME NEW i \in 1..Len(Append(q, m))
      PROVE  Append(q, m)[i] = Append(l, m)[k + i]
  <2>1. CASE i = Len(q) + 1
    BY <2>1
  <2>2. CASE i \in 1..Len(q)
    BY <2>2 DEF Slice
  <2>. QED
    BY <1>1, <2>1, <2>2
<1>. QED
  BY <1>1, <1>2 DEF Slice

\* The rest of a slice is the slice after its first message.
LEMMA SliceTail ==
    ASSUME NEW q \in Seq(Message), NEW l \in Seq(Message), NEW k \in Nat,
           Slice(q, l, k), q # <<>>
    PROVE  /\ Slice(Tail(q), l, k + 1)
           /\ Head(q) = l[k + 1]
           /\ k + 1 <= Len(l)
<1>1. /\ Tail(q) \in Seq(Message) /\ Len(Tail(q)) = Len(q) - 1
      /\ \A i \in 1..Len(Tail(q)) : Tail(q)[i] = q[i + 1]
  BY HeadTailProperties
<1>2. Len(q) \in Nat \ {0} /\ Head(q) = q[1]
  BY EmptySeq
<1>3. \A i \in 1..Len(Tail(q)) : q[i + 1] = l[(k + 1) + i]
  BY <1>1, <1>2 DEF Slice
<1>. QED
  BY <1>1, <1>2, <1>3 DEF Slice

\* A slice followed by the log's next message is a slice.
LEMMA SliceNext ==
    ASSUME NEW q \in Seq(Message), NEW l \in Seq(Message), NEW k \in Nat,
           Slice(q, l, k), k + Len(q) + 1 <= Len(l)
    PROVE  Slice(Append(q, l[k + Len(q) + 1]), l, k)
<1> DEFINE m == l[k + Len(q) + 1]
<1>1. m \in Message
  OBVIOUS
<1> HIDE DEF m
<1>2. Len(Append(q, m)) = Len(q) + 1
  BY <1>1
<1>3. ASSUME NEW i \in 1..Len(Append(q, m))
      PROVE  Append(q, m)[i] = l[k + i]
  <2>1. CASE i = Len(q) + 1
    BY <1>1, <2>1 DEF m
  <2>2. CASE i \in 1..Len(q)
    BY <1>1, <2>2 DEF Slice
  <2>. QED
    BY <1>2, <2>1, <2>2
<1>4. Slice(Append(q, m), l, k)
  BY <1>2, <1>3 DEF Slice
<1>. QED
  BY <1>4 DEF m
\* chat_room::deliver keeps the history the end of the log.
LEMMA RememberSlice ==
    ASSUME NEW q \in Seq(Message), NEW l \in Seq(Message), NEW m \in Message,
           Len(q) <= MaxRecent, Len(q) <= Len(l), Slice(q, l, Len(l) - Len(q))
    PROVE  Slice(Remember(q, m), Append(l, m), Len(Append(l, m)) - Len(Remember(q, m)))
<1> USE ChatAssumption
<1>1. Len(Append(l, m)) = Len(l) + 1 /\ Len(l) - Len(q) \in Nat
  OBVIOUS
<1>2. CASE Len(q) < MaxRecent
  <2>1. Slice(Append(q, m), Append(l, m), Len(l) - Len(q))
    BY <1>1, SliceGrows
  <2>2. Len(Append(l, m)) - Len(Append(q, m)) = Len(l) - Len(q)
    BY <1>1
  <2>. QED
    BY <1>2, <2>1, <2>2 DEF Remember
<1>3. CASE Len(q) = MaxRecent
  <2> DEFINE k == (Len(l) - Len(q)) + 1
  <2>1. q # <<>> /\ Remember(q, m) = Append(Tail(q), m)
    BY <1>3 DEF Remember
  <2>2. Slice(Tail(q), l, k) /\ k \in Nat
    BY <1>1, <2>1, SliceTail
  <2>3. Tail(q) \in Seq(Message) /\ Len(Tail(q)) = Len(q) - 1
    BY <2>1, HeadTailProperties
  <2>4. k + Len(Tail(q)) = Len(l)
    BY <2>3
  <2> HIDE DEF k
  <2>5. Slice(Append(Tail(q), m), Append(l, m), k)
    BY <2>2, <2>3, <2>4, SliceGrows
  <2>6. Len(Append(l, m)) - Len(Append(Tail(q), m)) = k
    BY <1>1, <2>3 DEF k
  <2>. QED
    BY <2>1, <2>5, <2>6
<1>. QED
  BY <1>2, <1>3

-----------------------------------------------------------------------------
\* StreamIsWindow, of one session.
Window(s) ==
    /\ Slice(sent[s], log, from[s])
    /\ Slice(write_msgs[s], log, from[s] + Len(sent[s]))
    /\ s \in participants
         => from[s] + Len(sent[s]) + Len(write_msgs[s]) = Len(log)

\* The inductive invariant.  No part is inductive alone: WriteDone stays in
\* the types because a write in progress has a message to pop (WriteChain), a
\* replayed queue is a window because the history is the log's end.
IInv == TypeOK /\ WriteChain /\ NoDeafParticipant /\ RecentIsTail /\ StreamIsWindow

LEMMA InitIInv == Init => IInv
BY ChatAssumption
   DEF Init, IInv, TypeOK, WriteChain, NoDeafParticipant, RecentIsTail, StreamIsWindow, Slice

LEMMA AcceptIInv ==
    ASSUME NEW s \in Session, IInv, Accept(s) PROVE IInv'
<1> USE ChatAssumption DEF IInv
<1>1. TypeOK'
  BY DEF Accept, TypeOK, RecentIsTail
<1>2. WriteChain'
  BY DEF Accept, TypeOK, WriteChain
<1>3. NoDeafParticipant'
  BY DEF Accept, TypeOK, NoDeafParticipant
<1>4. RecentIsTail'
  BY DEF Accept, RecentIsTail
<1>5. StreamIsWindow'
  <2> SUFFICES ASSUME NEW t \in Session PROVE Window(t)'
    BY DEF StreamIsWindow, Window
  <2>1. CASE t = s
    <3>1. /\ sent'[t] = <<>> /\ write_msgs'[t] = recent_msgs
          /\ from'[t] = Len(log) - Len(recent_msgs) /\ log' = log
      BY <2>1 DEF Accept, TypeOK
    <3>2. Len(log) \in Nat /\ Len(recent_msgs) \in Nat /\ Len(recent_msgs) <= Len(log)
      BY DEF TypeOK, RecentIsTail
    <3>3. Slice(sent[t], log, from[t])'
      BY <3>1, <3>2 DEF Slice
    <3>4. Slice(write_msgs[t], log, from[t] + Len(sent[t]))'
      BY <3>1, <3>2 DEF RecentIsTail
    <3>5. from'[t] + Len(sent'[t]) + Len(write_msgs'[t]) = Len(log')
      BY <3>1, <3>2
    <3>. QED
      BY <3>3, <3>4, <3>5 DEF Window
  <2>2. CASE t # s
    <3>1. /\ sent'[t] = sent[t] /\ write_msgs'[t] = write_msgs[t]
          /\ from'[t] = from[t] /\ log' = log
          /\ t \in participants' <=> t \in participants
      BY <2>2 DEF Accept, TypeOK
    <3>. QED
      BY <3>1 DEF Window, StreamIsWindow, Slice
  <2>. QED
    BY <2>1, <2>2
<1>. QED
  BY <1>1, <1>2, <1>3, <1>4, <1>5

\* chat_room::deliver inside do_read_body's handler, of any message m.
LEMMA DeliverIInv ==
    ASSUME IInv, NEW s \in Session, NEW m \in Message, RoomDeliver(m),
           reading' = [reading EXCEPT ![s] = "header"],
           UNCHANGED <<participants, connected, from, sent>>
    PROVE  IInv'
<1> USE ChatAssumption DEF IInv
<1>1. /\ log \in Seq(Message) /\ log' = Append(log, m)
      /\ log' \in Seq(Message) /\ Len(log') = Len(log) + 1
  BY DEF RoomDeliver, TypeOK
<1>2. /\ recent_msgs' \in Seq(Message)
      /\ Len(recent_msgs') = IF Len(recent_msgs) < MaxRecent
                             THEN Len(recent_msgs) + 1 ELSE MaxRecent
  BY RememberType DEF RoomDeliver, TypeOK
<1>3. /\ \A t \in Session : /\ t \in participants => write_msgs'[t] = Append(write_msgs[t], m)
                            /\ t \notin participants => write_msgs'[t] = write_msgs[t]
      /\ \A t \in Session : /\ t \in participants /\ write_msgs[t] = <<>>
                               => writing'[t] = writing[t] + 1
                            /\ t \notin participants \/ write_msgs[t] # <<>>
                               => writing'[t] = writing[t]
  BY DEF RoomDeliver, QueueFor
<1>4. TypeOK'
  <2>1. \A t \in Session : Append(write_msgs[t], m) \in Seq(Message)
    BY AppendFacts DEF TypeOK
  <2>2. write_msgs' \in [Session -> Seq(Message)]
    BY <2>1 DEF RoomDeliver, QueueFor, TypeOK
  <2>3. writing' \in [Session -> Nat]
    BY DEF RoomDeliver, QueueFor, TypeOK
  <2>4. /\ participants' \in SUBSET Session /\ connected' \in SUBSET Session
        /\ reading' \in [Session -> {"none", "header", "body"}]
        /\ from' \in [Session -> Nat] /\ sent' \in [Session -> Seq(Message)]
    BY DEF TypeOK
  <2>5. Len(recent_msgs') <= MaxRecent
    BY <1>2 DEF TypeOK
  <2>. QED
    BY <1>1, <1>2, <2>2, <2>3, <2>4, <2>5 DEF TypeOK
<1>5. WriteChain'
  <2> SUFFICES ASSUME NEW t \in Session
               PROVE  /\ writing'[t] <= 1
                      /\ writing'[t] = 1 => write_msgs'[t] # <<>>
                      /\ t \in participants /\ write_msgs'[t] # <<>> => writing'[t] = 1
    BY DEF WriteChain
  <2>1. /\ write_msgs[t] \in Seq(Message) /\ writing[t] \in Nat
        /\ Append(write_msgs[t], m) # <<>>
    BY AppendFacts DEF TypeOK
  <2>. QED
    BY <1>3, <2>1 DEF WriteChain
<1>6. NoDeafParticipant'
  BY DEF TypeOK, NoDeafParticipant
<1>7. RecentIsTail'
  <2>1. /\ recent_msgs \in Seq(Message) /\ Len(recent_msgs) <= MaxRecent
        /\ Len(recent_msgs) <= Len(log) /\ Slice(recent_msgs, log, Len(log) - Len(recent_msgs))
    BY <1>1 DEF TypeOK, RecentIsTail
  <2>2. Slice(recent_msgs, log, Len(log) - Len(recent_msgs))'
    BY <1>1, <2>1, RememberSlice DEF RoomDeliver
  <2>3. Len(recent_msgs') = IF Len(log') < MaxRecent THEN Len(log') ELSE MaxRecent
    BY <1>1, <1>2 DEF RecentIsTail, TypeOK
  <2>. QED
    BY <2>2, <2>3 DEF RecentIsTail
<1>8. StreamIsWindow'
  <2> SUFFICES ASSUME NEW t \in Session PROVE Window(t)'
    BY DEF StreamIsWindow, Window
  <2>1. /\ Window(t) /\ sent'[t] = sent[t] /\ from'[t] = from[t]
        /\ from[t] \in Nat /\ Len(sent[t]) \in Nat
        /\ sent[t] \in Seq(Message) /\ write_msgs[t] \in Seq(Message)
        /\ t \in participants' <=> t \in participants
    BY DEF TypeOK, StreamIsWindow, Window
  <2>2. Slice(sent[t], log, from[t])'
    BY <1>1, <2>1, SliceOfLonger DEF Window
  <2>3. from[t] + Len(sent[t]) \in Nat
    BY <2>1
  <2>4. CASE t \in participants
    <3>1. Slice(write_msgs[t], log, from[t] + Len(sent[t]))'
      BY <1>1, <1>3, <2>1, <2>3, <2>4, SliceGrows DEF Window
    <3>2. Len(write_msgs'[t]) = Len(write_msgs[t]) + 1
      BY <1>3, <2>1, <2>4, AppendFacts
    <3>3. from[t] + Len(sent[t]) + Len(write_msgs[t]) = Len(log)
      BY <2>1, <2>4 DEF Window
    <3>4. /\ from[t] \in Nat /\ Len(sent[t]) \in Nat /\ Len(write_msgs[t]) \in Nat
          /\ sent'[t] = sent[t] /\ from'[t] = from[t]
      BY <2>1
    <3>5. from'[t] + Len(sent'[t]) + Len(write_msgs'[t]) = Len(log')
      <4> DEFINE a == from[t]
                 b == Len(sent[t])
                 c == Len(write_msgs[t])
                 l == Len(log)
      <4>1. a \in Nat /\ b \in Nat /\ c \in Nat /\ a + b + c = l
        BY <3>3, <3>4
      <4>2. /\ from'[t] = a /\ Len(sent'[t]) = b
            /\ Len(write_msgs'[t]) = c + 1 /\ Len(log') = l + 1
        BY <1>1, <3>2, <3>4
      <4> HIDE DEF a, b, c, l
      <4>3. a + b + (c + 1) = l + 1
        BY <4>1
      <4>. QED
        BY <4>2, <4>3
    <3>. QED
      BY <2>2, <3>1, <3>5 DEF Window
  <2>5. CASE t \notin participants
    <3>1. Slice(write_msgs[t], log, from[t] + Len(sent[t]))'
      BY <1>1, <1>3, <2>1, <2>3, <2>5, SliceOfLonger DEF Window
    <3>. QED
      BY <2>1, <2>2, <2>5, <3>1 DEF Window
  <2>. QED
    BY <2>4, <2>5
<1>. QED
  BY <1>4, <1>5, <1>6, <1>7, <1>8

LEMMA ReadBodyIInv ==
    ASSUME NEW s \in Session, IInv, ReadBody(s) PROVE IInv'
<1>1. [from |-> s, n |-> Len(log)] \in Message
  BY ChatAssumption DEF IInv, TypeOK, ReadBody, Message
<1>. QED
  BY <1>1, DeliverIInv DEF ReadBody

LEMMA WriteDoneIInv ==
    ASSUME NEW s \in Session, IInv, WriteDone(s) PROVE IInv'
<1> USE DEF IInv
<1>1. /\ writing[s] = 1
      /\ write_msgs[s] \in Seq(Message) /\ write_msgs[s] # <<>>
  BY DEF TypeOK, WriteChain, WriteDone
<1>2. /\ Tail(write_msgs[s]) \in Seq(Message)
      /\ Len(Tail(write_msgs[s])) = Len(write_msgs[s]) - 1
      /\ Head(write_msgs[s]) \in Message
      /\ Len(write_msgs[s]) \in Nat \ {0}
  BY <1>1, HeadTailProperties, EmptySeq
<1>3. TypeOK'
  BY <1>1, <1>2, AppendFacts DEF WriteDone, TypeOK
<1>4. WriteChain'
  <2> SUFFICES ASSUME NEW t \in Session
               PROVE  /\ writing'[t] <= 1
                      /\ writing'[t] = 1 => write_msgs'[t] # <<>>
                      /\ t \in participants /\ write_msgs'[t] # <<>> => writing'[t] = 1
    BY DEF WriteChain, WriteDone
  <2>1. CASE t = s
    <3>1. /\ write_msgs'[t] = Tail(write_msgs[t])
          /\ writing'[t] = IF Len(write_msgs[t]) > 1 THEN 1 ELSE 0
      BY <1>1, <2>1 DEF WriteDone, TypeOK
    <3>2. Len(write_msgs[t]) > 1 <=> Tail(write_msgs[t]) # <<>>
      BY <1>1, <2>1, MoreIffTail
    <3>. QED
      BY <3>1, <3>2
  <2>2. CASE t # s
    BY <2>2 DEF WriteDone, TypeOK, WriteChain
  <2>. QED
    BY <2>1, <2>2
<1>5. NoDeafParticipant' /\ RecentIsTail'
  BY DEF WriteDone, NoDeafParticipant, RecentIsTail
<1>6. StreamIsWindow'
  <2> SUFFICES ASSUME NEW t \in Session PROVE Window(t)'
    BY DEF StreamIsWindow, Window
  <2>1. /\ Window(t) /\ from'[t] = from[t] /\ log' = log /\ log \in Seq(Message)
        /\ from[t] \in Nat /\ sent[t] \in Seq(Message) /\ Len(sent[t]) \in Nat
        /\ t \in participants' <=> t \in participants
    BY DEF TypeOK, WriteDone, StreamIsWindow, Window
  <2>2. CASE t = s
    <3> DEFINE k == from[t] + Len(sent[t])
    <3>1. /\ sent'[t] = Append(sent[t], Head(write_msgs[t]))
          /\ write_msgs'[t] = Tail(write_msgs[t])
      BY <2>2 DEF WriteDone, TypeOK
    <3>2. Slice(write_msgs[t], log, k) /\ k \in Nat
      BY <2>1 DEF Window
    <3>3. /\ Slice(Tail(write_msgs[t]), log, k + 1)
          /\ Head(write_msgs[t]) = log[k + 1] /\ k + 1 <= Len(log)
      BY <1>1, <2>1, <2>2, <3>2, SliceTail
    <3>4. Slice(sent[t], log, from[t])'
      BY <2>1, <3>1, <3>3, SliceNext DEF Window
    <3>5. Len(sent'[t]) = Len(sent[t]) + 1
      BY <1>2, <2>1, <2>2, <3>1, AppendFacts
    <3>6. Slice(write_msgs[t], log, from[t] + Len(sent[t]))'
      <4>1. from[t] \in Nat /\ Len(sent[t]) \in Nat
        BY <2>1
      <4>2. from[t] + (Len(sent[t]) + 1) = k + 1
        BY <4>1
      <4>. QED
        BY <2>1, <3>1, <3>3, <3>5, <4>2
    <3>7. from'[t] + Len(sent'[t]) + Len(write_msgs'[t]) = k + Len(write_msgs[t])
      <4>1. from[t] \in Nat /\ Len(sent[t]) \in Nat /\ from'[t] = from[t]
        BY <2>1
      <4>2. /\ Len(write_msgs[t]) \in Nat /\ write_msgs'[t] = Tail(write_msgs[t])
            /\ Len(Tail(write_msgs[t])) = Len(write_msgs[t]) - 1
        BY <1>2, <2>2, <3>1
      <4>3. from[t] + (Len(sent[t]) + 1) + (Len(write_msgs[t]) - 1)
               = k + Len(write_msgs[t])
        <5> DEFINE a == from[t]
                   b == Len(sent[t])
                   c == Len(write_msgs[t])
        <5>1. a \in Nat /\ b \in Nat /\ c \in Nat
          BY <4>1, <4>2
        <5> HIDE DEF a, b, c
        <5>2. a + (b + 1) + (c - 1) = a + b + c
          BY <5>1
        <5>. QED
          BY <5>2 DEF a, b, c
      <4>. QED
        BY <3>5, <4>1, <4>2, <4>3, Zenon
    <3>. QED
      BY <2>1, <3>4, <3>6, <3>7 DEF Window
  <2>3. CASE t # s
    <3>1. sent'[t] = sent[t] /\ write_msgs'[t] = write_msgs[t]
      BY <2>3 DEF WriteDone, TypeOK
    <3>. QED
      BY <2>1, <3>1 DEF Window, Slice
  <2>. QED
    BY <2>2, <2>3
<1>. QED
  BY <1>3, <1>4, <1>5, <1>6

\* The handlers that only move a session through its read chain or out of the
\* room, and the client's disappearance.
LEMMA OtherIInv ==
    ASSUME NEW s \in Session, IInv,
           ReadHeader(s) \/ ReadFails(s) \/ WriteFails(s) \/ ClientGone(s)
    PROVE  IInv'
<1> USE DEF IInv
<1>1. /\ UNCHANGED <<recent_msgs, write_msgs, log, from, sent>>
      /\ participants' \subseteq participants
  BY DEF ReadHeader, ReadFails, WriteFails, ClientGone, RoomLeave
<1>2. TypeOK'
  <2>1. reading' \in [Session -> {"none", "header", "body"}]
    BY DEF TypeOK, ReadHeader, ReadFails, WriteFails, ClientGone
  <2>2. writing' \in [Session -> Nat]
    <3>1. CASE UNCHANGED writing
      BY <3>1 DEF TypeOK
    <3>2. CASE WriteFails(s)
      <4>1. writing[s] - 1 \in Nat
        BY <3>2 DEF TypeOK, WriteFails
      <4>. QED
        BY <3>2, <4>1 DEF TypeOK, WriteFails
    <3>. QED
      BY <3>1, <3>2 DEF ReadHeader, ReadFails, ClientGone
  <2>3. participants' \in SUBSET Session /\ connected' \in SUBSET Session
    BY <1>1 DEF TypeOK, ReadHeader, ReadFails, WriteFails, ClientGone
  <2>. QED
    BY <1>1, <2>1, <2>2, <2>3 DEF TypeOK
<1>3. WriteChain'
  <2>1. CASE UNCHANGED writing
    BY <1>1, <2>1 DEF WriteChain
  <2>2. CASE WriteFails(s)
    BY <1>1, <2>2 DEF WriteChain, WriteFails, RoomLeave, TypeOK
  <2>. QED
    BY <2>1, <2>2 DEF ReadHeader, ReadFails, ClientGone
<1>4. NoDeafParticipant'
  BY DEF TypeOK, NoDeafParticipant, ReadHeader, ReadFails, WriteFails, ClientGone, RoomLeave
<1>5. RecentIsTail'
  BY <1>1 DEF RecentIsTail
<1>6. StreamIsWindow'
  BY <1>1 DEF StreamIsWindow
<1>. QED
  BY <1>2, <1>3, <1>4, <1>5, <1>6

LEMMA StepIInv == IInv /\ [Next]_vars => IInv'
<1>1. ASSUME IInv, NEW s \in Session,
             \/ Accept(s) \/ ReadHeader(s) \/ ReadBody(s) \/ ReadFails(s)
             \/ WriteDone(s) \/ WriteFails(s) \/ ClientGone(s)
      PROVE  IInv'
  BY <1>1, AcceptIInv, ReadBodyIInv, WriteDoneIInv, OtherIInv
<1>2. ASSUME IInv, UNCHANGED vars PROVE IInv'
  BY <1>2 DEF vars, IInv, TypeOK, WriteChain, NoDeafParticipant, RecentIsTail, StreamIsWindow
<1>. QED
  BY <1>1, <1>2 DEF Next

LEMMA Invariance == Spec => []IInv
BY InitIInv, StepIInv, PTL DEF Spec

\* The state of the chat server keeps its types, the history its bound.
THEOREM TypeCorrect == Spec => []TypeOK
BY Invariance, PTL DEF IInv

\* Never two async_writes on a socket, never one without its buffer, and no
\* participant's queue is left without a write that drains it.
THEOREM WriteChainCorrect == Spec => []WriteChain
BY Invariance, PTL DEF IInv

\* No participant is without an outstanding read.
THEOREM ParticipantsListen == Spec => []NoDeafParticipant
BY Invariance, PTL DEF IInv

\* Every client's stream is a gap-free window of the one log.
THEOREM StreamsAreWindows == Spec => []StreamIsWindow
BY Invariance, PTL DEF IInv

-----------------------------------------------------------------------------
\* What LeftForGood says of one step.
LeftStays ==
    \A s \in Session :
        Alive(s) /\ s \notin participants
          => s \notin participants' /\ Len(write_msgs'[s]) <= Len(write_msgs[s])

LEMMA StepLeftStays == IInv /\ [Next]_vars => [LeftStays]_vars
<1> SUFFICES ASSUME IInv, Next, NEW t \in Session, Alive(t), t \notin participants
             PROVE  t \notin participants' /\ Len(write_msgs'[t]) <= Len(write_msgs[t])
  BY DEF LeftStays
<1>1. write_msgs[t] \in Seq(Message) /\ Len(write_msgs[t]) \in Nat
  BY DEF IInv, TypeOK
<1>2. PICK s \in Session : \/ Accept(s) \/ ReadHeader(s) \/ ReadBody(s) \/ ReadFails(s)
                           \/ WriteDone(s) \/ WriteFails(s) \/ ClientGone(s)
  BY DEF Next
<1>3. CASE Accept(s)
  BY <1>1, <1>3 DEF Accept, IInv, TypeOK
<1>4. CASE ReadBody(s)
  BY <1>1, <1>4 DEF ReadBody, RoomDeliver, QueueFor, IInv, TypeOK
<1>5. CASE WriteDone(s)
  <2>1. CASE t = s
    <3>1. write_msgs[t] # <<>> /\ write_msgs'[t] = Tail(write_msgs[t])
      BY <1>5, <2>1 DEF WriteDone, IInv, TypeOK, WriteChain
    <3>2. Len(Tail(write_msgs[t])) = Len(write_msgs[t]) - 1
      BY <1>1, <3>1, HeadTailProperties
    <3>. QED
      BY <1>1, <1>5, <3>1, <3>2 DEF WriteDone
  <2>2. CASE t # s
    BY <1>1, <1>5, <2>2 DEF WriteDone, IInv, TypeOK
  <2>. QED
    BY <2>1, <2>2
<1>6. CASE ReadHeader(s) \/ ReadFails(s) \/ WriteFails(s) \/ ClientGone(s)
  BY <1>1, <1>6 DEF ReadHeader, ReadFails, WriteFails, ClientGone, RoomLeave
<1>. QED
  BY <1>2, <1>3, <1>4, <1>5, <1>6

\* A session that left the room is out of it, and is queued nothing more.
THEOREM LeavingIsFinal == Spec => LeftForGood
<1>1. Spec => [][LeftStays]_vars
  BY Invariance, StepLeftStays, PTL DEF Spec
<1>. QED
  BY <1>1 DEF LeftForGood, LeftStays

-----------------------------------------------------------------------------
\* Refinement of ChatBroadcast: where a session's window ends.
Upto == [s \in Session |-> from[s] + Len(sent[s]) + Len(write_msgs[s])]

LEMMA InitBroadcast == Init => Broadcast!Init
<1> SUFFICES ASSUME Init PROVE Broadcast!Init
  OBVIOUS
<1>1. \A s \in Session : from[s] + Len(sent[s]) + Len(write_msgs[s]) = 0
  <2>1. Len(<<>>) = 0
    OBVIOUS
  <2>2. ASSUME NEW s \in Session
        PROVE  from[s] = 0 /\ Len(sent[s]) = 0 /\ Len(write_msgs[s]) = 0
    <3>1. from[s] = 0 /\ sent[s] = <<>> /\ write_msgs[s] = <<>>
      BY DEF Init
    <3>. QED
      BY <2>1, <3>1, Zenon
  <2>3. 0 + 0 + 0 = 0
    OBVIOUS
  <2>. QED
    BY <2>2, <2>3, Zenon
<1>. QED
  BY <1>1 DEF Init, Broadcast!Init

\* A handler that leaves the log, the windows and the streams alone moves the
\* broadcast at most by a Leave.
LEMMA QuietStep ==
    ASSUME NEW s \in Session, RoomLeave(s) \/ UNCHANGED participants,
           UNCHANGED <<write_msgs, log, from, sent>>
    PROVE  [Broadcast!Next]_(Broadcast!bvars)
<1>1. UNCHANGED Upto
  BY DEF Upto
<1>2. CASE UNCHANGED participants
  BY <1>1, <1>2 DEF Broadcast!bvars, Upto
<1>3. CASE RoomLeave(s) /\ s \in participants
  <2>1. Broadcast!Leave(s)
    BY <1>1, <1>3 DEF Broadcast!Leave, RoomLeave, Upto
  <2>. QED
    BY <2>1 DEF Broadcast!Next
<1>4. CASE RoomLeave(s) /\ s \notin participants
  BY <1>1, <1>4 DEF Broadcast!bvars, Upto, RoomLeave
<1>. QED
  BY <1>2, <1>3, <1>4

LEMMA AcceptBroadcast ==
    ASSUME IInv, NEW s \in Session, Accept(s)
    PROVE  Broadcast!Join(s)
<1> USE ChatAssumption DEF IInv
<1>1. s \notin participants /\ participants' = participants \cup {s}
  BY DEF Accept, Alive
<1>2. /\ Len(log) \in Nat /\ Len(recent_msgs) \in Nat
      /\ Len(log) - Len(recent_msgs) = Broadcast!WindowStart(Len(log))
  <2>1. Len(log) \in Nat /\ Len(recent_msgs) \in Nat
    BY DEF TypeOK
  <2> DEFINE l == Len(log)
             n == Len(recent_msgs)
  <2>2. l \in Nat /\ n = IF l < MaxRecent THEN l ELSE MaxRecent
    BY <2>1 DEF RecentIsTail
  <2> HIDE DEF l, n
  <2>3. l - n = IF l > MaxRecent THEN l - MaxRecent ELSE 0
    BY <2>2
  <2>. QED
    BY <2>1, <2>3, Zenon DEF Broadcast!WindowStart, l, n
<1>3. /\ from' = [from EXCEPT ![s] = Broadcast!WindowStart(Len(log))]
      /\ sent' = [sent EXCEPT ![s] = <<>>] /\ log' = log
  BY <1>2 DEF Accept
<1>4. ASSUME NEW t \in Session
      PROVE  Upto'[t] = [Upto EXCEPT ![s] = Len(log)][t]
  <2>1. CASE t = s
    <3>1. /\ from'[t] = Len(log) - Len(recent_msgs) /\ sent'[t] = <<>>
          /\ write_msgs'[t] = recent_msgs
      BY <2>1 DEF Accept, TypeOK
    <3>2. from'[t] + Len(sent'[t]) + Len(write_msgs'[t]) = Len(log)
      BY <1>2, <3>1
    <3>. QED
      BY <2>1, <3>2 DEF Upto
  <2>2. CASE t # s
    <3>1. from'[t] = from[t] /\ sent'[t] = sent[t] /\ write_msgs'[t] = write_msgs[t]
      BY <2>2 DEF Accept, TypeOK
    <3>. QED
      BY <2>2, <3>1 DEF Upto
  <2>. QED
    BY <2>1, <2>2
<1>5. Upto' = [Upto EXCEPT ![s] = Len(log)]
  BY <1>4 DEF Upto
<1>. QED
  BY <1>1, <1>3, <1>5 DEF Broadcast!Join, Upto

LEMMA ReadBodyBroadcast ==
    ASSUME IInv, NEW s \in Session, ReadBody(s)
    PROVE  \E m \in Message : Broadcast!Publish(m)
<1> USE ChatAssumption DEF IInv
<1> DEFINE m == [from |-> s, n |-> Len(log)]
<1>1. m \in Message
  BY DEF TypeOK, ReadBody, Message
<1>2. log' = Append(log, m) /\ UNCHANGED <<participants, from, sent>>
  BY DEF ReadBody, RoomDeliver
<1>3. ASSUME NEW t \in Session
      PROVE  Upto'[t] = IF t \in participants THEN Len(log) + 1 ELSE Upto[t]
  <2>1. CASE t \in participants
    <3>1. /\ from[t] + Len(sent[t]) + Len(write_msgs[t]) = Len(log)
          /\ from[t] \in Nat /\ Len(sent[t]) \in Nat
          /\ write_msgs[t] \in Seq(Message) /\ Len(write_msgs[t]) \in Nat
      BY <2>1 DEF StreamIsWindow, TypeOK
    <3>2. write_msgs'[t] = Append(write_msgs[t], m)
      BY <2>1 DEF ReadBody, RoomDeliver, QueueFor
    <3>3. Len(write_msgs'[t]) = Len(write_msgs[t]) + 1
      BY <1>1, <3>1, <3>2, AppendFacts
    <3>4. from[t] + Len(sent[t]) + (Len(write_msgs[t]) + 1) = Len(log) + 1
      <4> DEFINE a == from[t]
                 b == Len(sent[t])
                 c == Len(write_msgs[t])
                 l == Len(log)
      <4>1. a \in Nat /\ b \in Nat /\ c \in Nat /\ a + b + c = l
        BY <3>1
      <4> HIDE DEF a, b, c, l
      <4>2. a + b + (c + 1) = l + 1
        BY <4>1
      <4>. QED
        BY <4>2 DEF a, b, c, l
    <3>. QED
      BY <1>2, <2>1, <3>3, <3>4 DEF Upto
  <2>2. CASE t \notin participants
    <3>1. write_msgs'[t] = write_msgs[t]
      BY <2>2 DEF ReadBody, RoomDeliver, QueueFor
    <3>. QED
      BY <1>2, <2>2, <3>1 DEF Upto
  <2>. QED
    BY <2>1, <2>2
<1>4. Upto' = [t \in Session |-> IF t \in participants THEN Len(log) + 1 ELSE Upto[t]]
  BY <1>3 DEF Upto
<1>5. Broadcast!Publish(m)
  BY <1>2, <1>4 DEF Broadcast!Publish, Upto
<1> HIDE DEF m
<1>. QED
  BY <1>1, <1>5 DEF Broadcast!Publish

LEMMA WriteDoneBroadcast ==
    ASSUME IInv, NEW s \in Session, WriteDone(s)
    PROVE  Broadcast!Hand(s)
<1> USE DEF IInv
<1> DEFINE w == write_msgs[s]
           k == from[s] + Len(sent[s])
<1>1. /\ w \in Seq(Message) /\ w # <<>> /\ k \in Nat /\ sent[s] \in Seq(Message)
      /\ from[s] \in Nat /\ Len(sent[s]) \in Nat /\ log \in Seq(Message)
  BY DEF TypeOK, WriteChain, WriteDone
<1>2. /\ Len(Tail(w)) = Len(w) - 1 /\ Len(w) \in Nat \ {0} /\ Head(w) \in Message
  BY <1>1, HeadTailProperties, EmptySeq
<1>3. Head(w) = log[k + 1]
  <2>1. Slice(w, log, k)
    BY DEF StreamIsWindow
  <2>. QED
    BY <1>1, <2>1, SliceTail
<1>4. /\ sent' = [sent EXCEPT ![s] = Append(@, log[k + 1])]
      /\ UNCHANGED <<participants, log, from>>
  BY <1>3 DEF WriteDone
<1>5. k + 1 <= Upto[s]
  <2>1. Upto[s] = k + Len(w)
    BY DEF Upto
  <2>. QED
    BY <1>1, <1>2, <2>1
<1>6. ASSUME NEW t \in Session PROVE Upto'[t] = Upto[t]
  <2>1. CASE t = s
    <3>1. /\ sent'[t] = Append(sent[t], Head(w)) /\ write_msgs'[t] = Tail(w)
          /\ from'[t] = from[t]
      BY <2>1 DEF WriteDone, TypeOK
    <3>2. Len(sent'[t]) = Len(sent[t]) + 1
      BY <1>1, <1>2, <2>1, <3>1, AppendFacts
    <3>3. from[t] + (Len(sent[t]) + 1) + (Len(w) - 1) = from[t] + Len(sent[t]) + Len(w)
      <4> DEFINE a == from[t]
                 b == Len(sent[t])
                 c == Len(w)
      <4>1. a \in Nat /\ b \in Nat /\ c \in Nat
        BY <1>1, <1>2, <2>1
      <4> HIDE DEF a, b, c
      <4>2. a + (b + 1) + (c - 1) = a + b + c
        BY <4>1
      <4>. QED
        BY <4>2 DEF a, b, c
    <3>. QED
      BY <1>2, <2>1, <3>1, <3>2, <3>3, Zenon DEF Upto
  <2>2. CASE t # s
    <3>1. from'[t] = from[t] /\ sent'[t] = sent[t] /\ write_msgs'[t] = write_msgs[t]
      BY <2>2 DEF WriteDone, TypeOK
    <3>. QED
      BY <3>1 DEF Upto
  <2>. QED
    BY <2>1, <2>2
<1>7. Upto' = Upto
  BY <1>6 DEF Upto
<1>. QED
  BY <1>4, <1>5, <1>7 DEF Broadcast!Hand, Upto

LEMMA StepBroadcast == IInv /\ [Next]_vars => [Broadcast!Next]_(Broadcast!bvars)
<1> SUFFICES ASSUME IInv, [Next]_vars PROVE [Broadcast!Next]_(Broadcast!bvars)
  OBVIOUS
<1>1. ASSUME NEW s \in Session, Accept(s) PROVE Broadcast!Next
  BY <1>1, AcceptBroadcast DEF Broadcast!Next
<1>2. ASSUME NEW s \in Session, ReadBody(s) PROVE Broadcast!Next
  BY <1>2, ReadBodyBroadcast DEF Broadcast!Next
<1>3. ASSUME NEW s \in Session, WriteDone(s) PROVE Broadcast!Next
  BY <1>3, WriteDoneBroadcast DEF Broadcast!Next
<1>4. ASSUME NEW s \in Session,
             ReadHeader(s) \/ ReadFails(s) \/ WriteFails(s) \/ ClientGone(s)
      PROVE  [Broadcast!Next]_(Broadcast!bvars)
  <2>1. /\ RoomLeave(s) \/ UNCHANGED participants
        /\ UNCHANGED <<write_msgs, log, from, sent>>
    BY <1>4 DEF ReadHeader, ReadFails, WriteFails, ClientGone
  <2>. QED
    BY <2>1, QuietStep
<1>5. CASE UNCHANGED vars
  BY <1>5 DEF vars, Broadcast!bvars
<1>. QED
  BY <1>1, <1>2, <1>3, <1>4, <1>5 DEF Next

\* chat_server implements the ordered broadcast with bounded replay: every
\* handler is one of its steps or a stutter.
THEOREM Refinement == Spec => ImplementsBroadcast
BY InitBroadcast, StepBroadcast, Invariance, PTL
   DEF Spec, ImplementsBroadcast, Broadcast!Spec
=============================================================================
