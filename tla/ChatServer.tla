----------------------------- MODULE ChatServer -----------------------------
(***************************************************************************)
(* advanced/chat_server.cpp: a chat_room, its chat_sessions and the        *)
(* acceptor, all run by one thread in one io_context.  An action is one    *)
(* completion handler, run to its end; between two handlers the network    *)
(* decides which outstanding operation completes next and how.             *)
(*                                                                         *)
(* A session object lives as long as something holds its shared_ptr: the   *)
(* room's set, or the `self` captured by an outstanding read or write.     *)
(* Its name may then be taken by a later connection.                       *)
(***************************************************************************)
EXTENDS Naturals, Sequences

CONSTANTS Session,    \* chat_session objects that exist at the same time
          MaxRecent,  \* chat_room::max_recent_msgs (100 in the code)
          MaxLog      \* bound: messages posted in a behaviour

ASSUME ChatAssumption == /\ MaxRecent \in Nat \ {0}
                         /\ MaxLog \in Nat

VARIABLES
  participants,  \* chat_room::participants_
  recent_msgs,   \* chat_room::recent_msgs_
  reading,       \* reading[s]: the outstanding async_read of s
  write_msgs,    \* write_msgs[s]: chat_session::write_msgs_
  writing,       \* writing[s]: outstanding async_writes of s
  connected,     \* sessions whose client has not gone away
  log,           \* history: every message chat_room::deliver was given
  from,          \* history: messages delivered before s's first one
  sent           \* history: messages whose async_write succeeded

vars == <<participants, recent_msgs, reading, write_msgs, writing,
          connected, log, from, sent>>

\* A message is told apart by who posted it and when.
Message == [from : Session, n : 0..MaxLog]

\* Something still holds the session's shared_ptr.
Alive(s) == s \in participants \/ reading[s] # "none" \/ writing[s] > 0

Init ==
    /\ participants = {}
    /\ recent_msgs = <<>>
    /\ reading = [s \in Session |-> "none"]
    /\ write_msgs = [s \in Session |-> <<>>]
    /\ writing = [s \in Session |-> 0]
    /\ connected = {}
    /\ log = <<>>
    /\ from = [s \in Session |-> 0]
    /\ sent = [s \in Session |-> <<>>]
-----------------------------------------------------------------------------
\* push_back, then pop_front while there are too many.
Remember(q, m) ==
    IF Len(q) < MaxRecent THEN Append(q, m) ELSE Append(Tail(q), m)

\* Faulty form of QueueFor: write_in_progress is not looked at.
QueueForAlwaysWrites(S, m) ==
    /\ write_msgs' = [s \in Session |-> IF s \in S THEN Append(write_msgs[s], m)
                                                   ELSE write_msgs[s]]
    /\ writing' = [s \in Session |-> writing[s] + (IF s \in S THEN 1 ELSE 0)]

\* chat_session::deliver on every session of S: queue the message and start
\* writing unless a write is in progress.
QueueFor(S, m) ==
    /\ write_msgs' = [s \in Session |-> IF s \in S THEN Append(write_msgs[s], m)
                                                   ELSE write_msgs[s]]
    /\ writing' = [s \in Session |-> IF s \in S /\ write_msgs[s] = <<>>
                                     THEN writing[s] + 1 ELSE writing[s]]

\* chat_room::deliver: one message into the history and to everybody.
RoomDeliver(m) ==
    /\ log' = Append(log, m)
    /\ recent_msgs' = Remember(recent_msgs, m)
    /\ QueueFor(participants, m)

\* Faulty form of RoomLeave: the participant is not erased.
RoomLeaveKeeps(s) == participants' = participants

\* chat_room::leave; erasing an absent session changes nothing.
RoomLeave(s) == participants' = participants \ {s}

\* Faulty form of Accept: join forgets the recent messages.
AcceptNoReplay(s) ==
    /\ ~Alive(s)
    /\ connected' = connected \cup {s}
    /\ participants' = participants \cup {s}
    /\ write_msgs' = [write_msgs EXCEPT ![s] = <<>>]
    /\ writing' = [writing EXCEPT ![s] = 0]
    /\ reading' = [reading EXCEPT ![s] = "header"]
    /\ from' = [from EXCEPT ![s] = Len(log) - Len(recent_msgs)]
    /\ sent' = [sent EXCEPT ![s] = <<>>]
    /\ UNCHANGED <<recent_msgs, log>>

\* The accept handler: a fresh session joins, is delivered the recent
\* messages one by one (the first starts the write chain) and starts reading.
Accept(s) ==
    /\ ~Alive(s)
    /\ connected' = connected \cup {s}
    /\ participants' = participants \cup {s}
    /\ write_msgs' = [write_msgs EXCEPT ![s] = recent_msgs]
    /\ writing' = [writing EXCEPT ![s] = IF recent_msgs = <<>> THEN 0 ELSE 1]
    /\ reading' = [reading EXCEPT ![s] = "header"]
    /\ from' = [from EXCEPT ![s] = Len(log) - Len(recent_msgs)]
    /\ sent' = [sent EXCEPT ![s] = <<>>]
    /\ UNCHANGED <<recent_msgs, log>>

\* do_read_header's handler, header read and decodable: read the body.
ReadHeader(s) ==
    /\ reading[s] = "header"
    /\ reading' = [reading EXCEPT ![s] = "body"]
    /\ UNCHANGED <<participants, recent_msgs, write_msgs, writing,
                   connected, log, from, sent>>

\* Faulty form of ReadBody: the sender is always queued its own message.
ReadBodyEchoes(s) ==
    /\ reading[s] = "body"
    /\ Len(log) < MaxLog
    /\ LET m == [from |-> s, n |-> Len(log)]
       IN  /\ log' = Append(log, m)
           /\ recent_msgs' = Remember(recent_msgs, m)
           /\ QueueFor(participants \cup {s}, m)
    /\ reading' = [reading EXCEPT ![s] = "header"]
    /\ UNCHANGED <<participants, connected, from, sent>>

\* do_read_body's handler: the room delivers the message (to the sender too
\* if it is still a participant) and the next header is read.
ReadBody(s) ==
    /\ reading[s] = "body"
    /\ Len(log) < MaxLog
    /\ RoomDeliver([from |-> s, n |-> Len(log)])
    /\ reading' = [reading EXCEPT ![s] = "header"]
    /\ UNCHANGED <<participants, connected, from, sent>>

\* Either read handler with an error, or a header that does not decode: the
\* session leaves the room and reads no more.
ReadFails(s) ==
    /\ reading[s] # "none"
    /\ RoomLeave(s)
    /\ reading' = [reading EXCEPT ![s] = "none"]
    /\ UNCHANGED <<recent_msgs, write_msgs, writing, connected, log, from, sent>>

\* Faulty form of WriteDone: the chain ends after one message.
WriteDoneStops(s) ==
    /\ writing[s] > 0
    /\ write_msgs' = [write_msgs EXCEPT ![s] = Tail(@)]
    /\ writing' = [writing EXCEPT ![s] = @ - 1]
    /\ sent' = [sent EXCEPT ![s] = Append(@, Head(write_msgs[s]))]
    /\ UNCHANGED <<participants, recent_msgs, reading, connected, log, from>>

\* do_write's handler: the front message is out, go on with the next one.
WriteDone(s) ==
    /\ writing[s] > 0
    /\ write_msgs' = [write_msgs EXCEPT ![s] = Tail(@)]
    /\ writing' = [writing EXCEPT ![s] = IF Len(write_msgs[s]) > 1
                                         THEN @ ELSE @ - 1]
    /\ sent' = [sent EXCEPT ![s] = Append(@, Head(write_msgs[s]))]
    /\ UNCHANGED <<participants, recent_msgs, reading, connected, log, from>>

\* Faulty form of WriteFails: a message is popped although it was not sent,
\* and the chain goes on.
WriteFailsPops(s) ==
    /\ writing[s] > 0
    /\ write_msgs' = [write_msgs EXCEPT ![s] = Tail(@)]
    /\ writing' = [writing EXCEPT ![s] = IF Len(write_msgs[s]) > 1
                                         THEN @ ELSE @ - 1]
    /\ UNCHANGED <<participants, recent_msgs, reading, connected, log, from, sent>>

\* do_write's handler with an error: the session leaves the room.  Its queue
\* stays as it is, and so does its outstanding read.
WriteFails(s) ==
    /\ writing[s] > 0
    /\ RoomLeave(s)
    /\ writing' = [writing EXCEPT ![s] = @ - 1]
    /\ UNCHANGED <<recent_msgs, reading, write_msgs, connected, log, from, sent>>

\* The client closes its end or its host disappears.
ClientGone(s) ==
    /\ s \in connected
    /\ Alive(s)
    /\ connected' = connected \ {s}
    /\ UNCHANGED <<participants, recent_msgs, reading, write_msgs, writing,
                   log, from, sent>>

Next ==
    \E s \in Session :
        \/ Accept(s)
        \/ ReadHeader(s)
        \/ ReadBody(s)
        \/ ReadFails(s)
        \/ WriteDone(s)
        \/ WriteFails(s)
        \/ ClientGone(s)

Spec == Init /\ [][Next]_vars

\* A write completes: the client takes its bytes in the end, or is gone (one
\* that stays and never reads would block it for ever, the code has no
\* timeout).  A read of a connection whose other end is gone completes.
\* Nothing makes a connected client send, or stay, or leave.
Fairness ==
    \A s \in Session :
        /\ WF_vars(WriteDone(s) \/ WriteFails(s))
        /\ WF_vars(s \notin connected /\ (ReadHeader(s) \/ ReadBody(s) \/ ReadFails(s)))

FairSpec == Spec /\ Fairness
-----------------------------------------------------------------------------
TypeOK ==
    /\ participants \in SUBSET Session
    /\ recent_msgs \in Seq(Message)
    /\ Len(recent_msgs) <= MaxRecent
    /\ reading \in [Session -> {"none", "header", "body"}]
    /\ write_msgs \in [Session -> Seq(Message)]
    /\ writing \in [Session -> Nat]
    /\ connected \in SUBSET Session
    /\ log \in Seq(Message)
    /\ from \in [Session -> Nat]
    /\ sent \in [Session -> Seq(Message)]

\* The write chain (deliver, do_write and its handler).  At most one
\* async_write is outstanding, and then its buffer, the front of write_msgs_,
\* is there; a participant's queue never waits with no write to drain it.
WriteChain ==
    \A s \in Session :
        /\ writing[s] <= 1
        /\ writing[s] = 1 => write_msgs[s] # <<>>
        /\ s \in participants /\ write_msgs[s] # <<>> => writing[s] = 1

\* A participant always has a read outstanding (do_read_header, do_read_body):
\* a client that goes away while it is in the room is always noticed.
NoDeafParticipant ==
    \A s \in participants : reading[s] # "none"

\* q is the part of l that follows its first k messages.
Slice(q, l, k) ==
    /\ k + Len(q) <= Len(l)
    /\ \A i \in 1..Len(q) : q[i] = l[k + i]

\* chat_room::recent_msgs_ is the end of the log: all of it while it is short,
\* its last MaxRecent messages from then on.
RecentIsTail ==
    /\ Len(recent_msgs) = IF Len(log) < MaxRecent THEN Len(log) ELSE MaxRecent
    /\ Slice(recent_msgs, log, Len(log) - Len(recent_msgs))

\* What a client was sent, followed by what is still queued for it, is a
\* gap-free part of the one log, in order and without repetition; for a
\* participant it reaches to the end of the log.  It ties together the replay
\* in join, the broadcast in deliver and the pop in do_write's handler.
StreamIsWindow ==
    \A s \in Session :
        /\ Slice(sent[s], log, from[s])
        /\ Slice(write_msgs[s], log, from[s] + Len(sent[s]))
        /\ s \in participants
             => from[s] + Len(sent[s]) + Len(write_msgs[s]) = Len(log)

\* A session that left stays out of the room and is queued nothing more as
\* long as the object lives, whatever its outstanding operations still do.
LeftForGood ==
    [][\A s \in Session :
          Alive(s) /\ s \notin participants
            => s \notin participants' /\ Len(write_msgs'[s]) <= Len(write_msgs[s])]_vars

\* chat_server implements the ordered broadcast with a bounded replay.
Broadcast == INSTANCE ChatBroadcast
    WITH members <- participants,
         upto <- [s \in Session |-> from[s] + Len(sent[s]) + Len(write_msgs[s])]

ImplementsBroadcast == Broadcast!Spec

\* Every message a participant is due is written to it, or it leaves.
Delivered ==
    \A s \in Session : \A i \in 1..MaxLog :
        (s \in participants /\ from[s] < i /\ i <= Len(log))
            ~> (s \notin participants \/ from[s] + Len(sent[s]) >= i)

\* The session of a client that went away is destroyed: every chain of
\* handlers that holds its shared_ptr ends.
TornDown == \A s \in Session : (s \notin connected) ~> ~Alive(s)
=============================================================================
