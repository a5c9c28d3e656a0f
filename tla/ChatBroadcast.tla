---------------------------- MODULE ChatBroadcast ----------------------------
(***************************************************************************)
(* What the chat room of advanced/chat_server.cpp promises to its          *)
(* participants, without queues, sockets or handlers: one total order of   *)
(* messages (log), of which every member is handed a gap-free window.  The *)
(* window opens at most MaxRecent messages before the member joined and    *)
(* stops growing when it leaves.  ChatServer is shown to implement this.   *)
(***************************************************************************)
EXTENDS Naturals, Sequences

CONSTANTS Session,    \* chat_session objects
          Message,    \* what a client may post
          MaxRecent   \* chat_room::max_recent_msgs

VARIABLES log,        \* every message the room ever delivered, in order
          members,    \* sessions that are in the room
          from,       \* from[s]: messages of the log before s's window
          upto,       \* upto[s]: last position of s's window
          sent        \* sent[s]: what was handed to s's socket so far

bvars == <<log, members, from, upto, sent>>

WindowStart(n) == IF n > MaxRecent THEN n - MaxRecent ELSE 0

Init ==
    /\ log = <<>>
    /\ members = {}
    /\ from = [s \in Session |-> 0]
    /\ upto = [s \in Session |-> 0]
    /\ sent = [s \in Session |-> <<>>]

\* A new member's window starts with the recent history.
Join(s) ==
    /\ s \notin members
    /\ members' = members \cup {s}
    /\ from' = [from EXCEPT ![s] = WindowStart(Len(log))]
    /\ upto' = [upto EXCEPT ![s] = Len(log)]
    /\ sent' = [sent EXCEPT ![s] = <<>>]
    /\ UNCHANGED log

\* Anybody's message enters the one order and every member's window.
Publish(m) ==
    /\ log' = Append(log, m)
    /\ upto' = [s \in Session |->
                  IF s \in members THEN Len(log) + 1 ELSE upto[s]]
    /\ UNCHANGED <<members, from, sent>>

\* The next message of the window, whether or not s is still a member.
Hand(s) ==
    LET next == from[s] + Len(sent[s]) + 1
    IN  /\ next <= upto[s]
        /\ sent' = [sent EXCEPT ![s] = Append(@, log[next])]
        /\ UNCHANGED <<log, members, from, upto>>

Leave(s) ==
    /\ s \in members
    /\ members' = members \ {s}
    /\ UNCHANGED <<log, from, upto, sent>>

Next ==
    \/ \E s \in Session : Join(s) \/ Hand(s) \/ Leave(s)
    \/ \E m \in Message : Publish(m)

Spec == Init /\ [][Next]_bvars
=============================================================================
