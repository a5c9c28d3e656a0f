------------------------------ MODULE Datagrams ------------------------------
(***************************************************************************)
(* The programs that speak udp: advanced/blocking_udp_echo_server.cpp and  *)
(* examples/udpdaytimesrv.cpp with their clients.  A client sends one      *)
(* datagram from a port the system gives it and waits, for ever, for any   *)
(* datagram to that port; the server answers one datagram after another.   *)
(* The network loses, repeats and reorders datagrams.  A behaviour is of   *)
(* one server.                                                             *)
(***************************************************************************)
EXTENDS Naturals

CONSTANTS Peer,      \* runs of the client program, each with a request of its own
          Port,      \* ports the system gives to clients
          MaxCopies  \* bound: datagrams delivered once more than they were sent

\* What the server's address is called is no port of a client.
ASSUME DatagramsAssumption == "server" \notin Port

UdpPrograms == {"blocking_udp_echo_server", "udpdaytimesrv"}

VARIABLES
  udp_program, \* the server that is run
  server,   \* "receiving", "sending" or "down"
  buf,      \* the client whose request is in buf, or was answered last
  ep,       \* the port it came from
  peer,     \* peer[c]: "away", "waiting", "done" or "gone"
  port,     \* port[c]: the port of c's socket
  answer,   \* answer[c]: the client whose request c has an answer to
  net,      \* datagrams under way
  copies,   \* history: how many datagrams were delivered twice
  lost      \* history: clients a datagram of whose exchange was lost

udpVars == <<udp_program, server, buf, ep, peer, port, answer, net, copies, lost>>
serverVars == <<udp_program, server, buf, ep>>
peerVars == <<peer, port, answer>>

None == "none"

\* What an answer holds is told by the request that it answers: the request
\* itself, or the time of it.
Request(p, c) == [to |-> "server", from |-> p, of |-> c]
Reply(p, c) == [to |-> p, from |-> "server", of |-> c]

UdpInit ==
    /\ udp_program \in UdpPrograms
    /\ server = "receiving"
    /\ buf = None /\ ep = None
    /\ peer = [c \in Peer |-> "away"]
    /\ port = [c \in Peer |-> None]
    /\ answer = [c \in Peer |-> None]
    /\ net = {}
    /\ copies = 0
    /\ lost = {}
-----------------------------------------------------------------------------
(* The network. *)

\* A datagram is received; it may come once more later.
Delivered(d) ==
    \/ net' = net \ {d} /\ copies' = copies
    \/ copies < MaxCopies /\ net' = net /\ copies' = copies + 1

Lose(d) ==
    /\ d \in net
    /\ net' = net \ {d}
    /\ lost' = lost \cup {d.of}
    /\ UNCHANGED copies /\ UNCHANGED serverVars /\ UNCHANGED peerVars
-----------------------------------------------------------------------------
(* The clients. *)

\* The request is sent from a port that no socket has.
Send(c) ==
    /\ peer[c] = "away"
    /\ \E p \in Port :
          /\ \A d \in Peer : port[d] = p => peer[d] # "waiting"
          /\ port' = [port EXCEPT ![c] = p]
          /\ net' = net \cup {Request(p, c)}
    /\ peer' = [peer EXCEPT ![c] = "waiting"]
    /\ UNCHANGED <<answer, copies, lost>> /\ UNCHANGED serverVars

\* receive_from: any datagram to the port; sender_endpoint is not looked at.
PeerReceives(c) ==
    /\ peer[c] = "waiting"
    /\ \E d \in net :
          /\ d.to = port[c]
          /\ Delivered(d)
          /\ answer' = [answer EXCEPT ![c] = d.of]
    /\ peer' = [peer EXCEPT ![c] = "done"]
    /\ UNCHANGED <<port, lost>> /\ UNCHANGED serverVars

\* Nothing but being killed ends the wait.
PeerKilled(c) ==
    /\ peer[c] = "waiting"
    /\ peer' = [peer EXCEPT ![c] = "gone"]
    /\ UNCHANGED <<port, answer, net, copies, lost>> /\ UNCHANGED serverVars
-----------------------------------------------------------------------------
(* The server. *)

\* Faulty form of ServerReceives: the endpoint is filled in only once.
ServerReceivesStale ==
    /\ server = "receiving"
    /\ \E d \in net :
          /\ d.to = "server"
          /\ Delivered(d)
          /\ buf' = d.of
          /\ ep' = IF ep = None THEN d.from ELSE ep
    /\ server' = "sending"
    /\ UNCHANGED <<udp_program, lost>> /\ UNCHANGED peerVars

\* receive_from fills in the buffer and the endpoint.
ServerReceives ==
    /\ server = "receiving"
    /\ \E d \in net :
          /\ d.to = "server"
          /\ Delivered(d)
          /\ buf' = d.of
          /\ ep' = d.from
    /\ server' = "sending"
    /\ UNCHANGED <<udp_program, lost>> /\ UNCHANGED peerVars

\* It throws, and nothing catches that.
ReceiveFails ==
    /\ server = "receiving"
    /\ server' = "down"
    /\ UNCHANGED <<udp_program, buf, ep, net, copies, lost>> /\ UNCHANGED peerVars

\* Faulty form of ServerSends: the loop is left.
ServerSendsOnce ==
    /\ server = "sending"
    /\ net' = net \cup {Reply(ep, buf)}
    /\ server' = "finished"
    /\ UNCHANGED <<udp_program, buf, ep, copies, lost>> /\ UNCHANGED peerVars

\* send_to, and on to the next datagram.
ServerSends ==
    /\ server = "sending"
    /\ net' = net \cup {Reply(ep, buf)}
    /\ server' = "receiving"
    /\ UNCHANGED <<udp_program, buf, ep, copies, lost>> /\ UNCHANGED peerVars

\* send_to fails: the echo server ends by the exception, the daytime server has
\* an error code that it ignores.
SendFails ==
    /\ server = "sending"
    /\ server' = IF udp_program = "udpdaytimesrv" THEN "receiving" ELSE "down"
    /\ lost' = lost \cup {buf}
    /\ UNCHANGED <<udp_program, buf, ep, net, copies>> /\ UNCHANGED peerVars

UdpNext ==
    \/ \E c \in Peer : Send(c) \/ PeerReceives(c) \/ PeerKilled(c)
    \/ ServerReceives \/ ReceiveFails \/ ServerSends \/ SendFails
    \/ \E d \in net : Lose(d)

UdpSpec == UdpInit /\ [][UdpNext]_udpVars

\* Whoever has a datagram to take takes it; the server goes on.
UdpFairSpec ==
    /\ UdpSpec
    /\ WF_udpVars(ServerReceives) /\ WF_udpVars(ServerSends \/ SendFails)
    /\ \A c \in Peer : WF_udpVars(PeerReceives(c))
-----------------------------------------------------------------------------
\* An answer goes to the port its request came from, and is the answer to the
\* request of the very client, unless a datagram came twice or an earlier client
\* at that port did not wait for its answer: no sender is checked.
OwnReply ==
    \A c \in Peer : peer[c] = "done" =>
        /\ port[answer[c]] = port[c]
        /\ \/ answer[c] = c
           \/ copies > 0
           \/ \E d \in Peer \ {c} : port[d] = port[c] /\ peer[d] = "gone"

\* A client waits for ever only for an exchange of which a datagram was lost, or
\* for a server that has ended: one lost reply holds up nobody else.
PeersAnswered ==
    \A c \in Peer :
        (peer[c] = "waiting") ~>
            (peer[c] \in {"done", "gone"} \/ c \in lost \/ server = "down")
=============================================================================
