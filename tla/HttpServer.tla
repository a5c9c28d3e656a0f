----------------------------- MODULE HttpServer -----------------------------
(***************************************************************************)
(* http/: server, connection_manager and connection, run by one thread.    *)
(* An operation on a socket or on the acceptor is started, completes with  *)
(* a result, and later its handler is run with that result; in between     *)
(* other handlers run, the signal handler among them.  Closing a socket    *)
(* or the acceptor aborts what is started and not yet complete.            *)
(***************************************************************************)
EXTENDS Naturals

CONSTANTS Conn   \* connection objects that exist at the same time

VARIABLES
  acceptor,   \* acceptor_: "open" or "closed"
  accepting,  \* async_accept: a Status
  signals,    \* async_wait on signals_: "started", "ready" or "none"
  managed,    \* connection_manager::connections_
  sock,       \* sock[c]: socket_ is "open" or "closed"
  reading,    \* reading[c]: async_read_some, a Status
  writing,    \* writing[c]: async_write, a Status
  reply,      \* reply[c]: how often reply_ was filled in
  peer,       \* peers that have not gone away
  run         \* io_context::run(): "running" or "returned"

vars == <<acceptor, accepting, signals, managed, sock, reading, writing, reply,
          peer, run>>
server == <<acceptor, accepting, signals>>

\* An operation that is outstanding, or complete with its handler queued.
Status == {"none", "started", "ok", "error", "aborted"}

\* Something holds the connection's shared_ptr.
Alive(c) == c \in managed \/ reading[c] # "none" \/ writing[c] # "none"

\* The constructor of server: both waits are started.
Init ==
    /\ acceptor = "open"
    /\ accepting = "started"
    /\ signals = "started"
    /\ managed = {}
    /\ sock = [c \in Conn |-> "closed"]
    /\ reading = [c \in Conn |-> "none"]
    /\ writing = [c \in Conn |-> "none"]
    /\ reply = [c \in Conn |-> 0]
    /\ peer = {}
    /\ run = "running"
-----------------------------------------------------------------------------
\* Closing aborts a started operation; a complete one keeps its result.
Aborted(op) == IF op = "started" THEN "aborted" ELSE op

\* An operation started on a closed socket completes with an error at once.
StartOn(c) == IF sock[c] = "open" THEN "started" ELSE "error"

\* connection_manager::stop: erase and close.  Nothing else is outstanding on
\* the socket: it is called from the handler of its only operation.
ManagerStop(c) ==
    /\ managed' = managed \ {c}
    /\ sock' = [sock EXCEPT ![c] = "closed"]

\* Faulty form of StopAll: the set is cleared before it is walked.
StopAllCleared ==
    /\ managed' = {}
    /\ UNCHANGED <<sock, reading, writing>>

\* connection_manager::stop_all: close every managed connection, forget all.
StopAll ==
    /\ sock' = [c \in Conn |-> IF c \in managed THEN "closed" ELSE sock[c]]
    /\ reading' = [c \in Conn |-> IF c \in managed THEN Aborted(reading[c]) ELSE reading[c]]
    /\ writing' = [c \in Conn |-> IF c \in managed THEN Aborted(writing[c]) ELSE writing[c]]
    /\ managed' = {}
-----------------------------------------------------------------------------
(* The network and the operating system: outstanding operations complete.  *)

AcceptCompletes ==
    /\ accepting = "started"
    /\ accepting' \in {"ok", "error"}
    /\ UNCHANGED <<acceptor, signals, managed, sock, reading, writing, reply, peer, run>>

ReadCompletes(c) ==
    /\ reading[c] = "started"
    /\ \E r \in {"ok", "error"} : reading' = [reading EXCEPT ![c] = r]
    /\ UNCHANGED <<managed, sock, writing, reply, peer, run>> /\ UNCHANGED server

WriteCompletes(c) ==
    /\ writing[c] = "started"
    /\ \E r \in {"ok", "error"} : writing' = [writing EXCEPT ![c] = r]
    /\ UNCHANGED <<managed, sock, reading, reply, peer, run>> /\ UNCHANGED server

PeerGone(c) ==
    /\ c \in peer
    /\ peer' = peer \ {c}
    /\ UNCHANGED <<managed, sock, reading, writing, reply, run>> /\ UNCHANGED server

SignalArrives ==
    /\ signals = "started"
    /\ signals' = "ready"
    /\ UNCHANGED <<acceptor, accepting, managed, sock, reading, writing, reply, peer, run>>
-----------------------------------------------------------------------------
(* The handlers. *)

\* Faulty form of Accepted: acceptor_.is_open() is not asked.
AcceptedAnyway(c) ==
    /\ run = "running"
    /\ accepting = "ok"
    /\ ~Alive(c)
    /\ accepting' = IF acceptor = "open" THEN "started" ELSE "error"
    /\ managed' = managed \cup {c}
    /\ sock' = [sock EXCEPT ![c] = "open"]
    /\ reading' = [reading EXCEPT ![c] = "started"]
    /\ reply' = [reply EXCEPT ![c] = 0]
    /\ peer' = peer \cup {c}
    /\ UNCHANGED <<acceptor, signals, writing, run>>

\* do_accept's handler with a socket, the acceptor open: the new connection is
\* managed and starts reading, and the next accept is started.
Accepted(c) ==
    /\ run = "running"
    /\ accepting = "ok" /\ acceptor = "open"
    /\ ~Alive(c)
    /\ accepting' = "started"
    /\ managed' = managed \cup {c}
    /\ sock' = [sock EXCEPT ![c] = "open"]
    /\ reading' = [reading EXCEPT ![c] = "started"]
    /\ reply' = [reply EXCEPT ![c] = 0]
    /\ peer' = peer \cup {c}
    /\ UNCHANGED <<acceptor, signals, writing, run>>

\* do_accept's handler without a socket to keep: an error is ignored and the
\* next accept started; with the acceptor closed the chain of accepts ends and
\* a socket that was just accepted is dropped.
NotAccepted ==
    /\ run = "running"
    /\ accepting = "error" \/ (acceptor = "closed" /\ accepting \in {"ok", "aborted"})
    /\ accepting' = IF acceptor = "open" THEN "started" ELSE "none"
    /\ UNCHANGED <<acceptor, signals, managed, sock, reading, writing, reply, peer, run>>

\* do_await_stop's handler.
Stop ==
    /\ run = "running"
    /\ signals = "ready"
    /\ signals' = "none"
    /\ acceptor' = "closed"
    /\ accepting' = Aborted(accepting)
    /\ StopAll
    /\ UNCHANGED <<reply, peer, run>>

\* Faulty form of RequestRead: the connection goes on reading, as for a next
\* request, while the reply is written.
RequestReadOn(c) ==
    /\ run = "running"
    /\ reading[c] = "ok"
    /\ reading' = [reading EXCEPT ![c] = StartOn(c)]
    /\ reply' = [reply EXCEPT ![c] = IF @ < 2 THEN @ + 1 ELSE @]
    /\ writing' = [writing EXCEPT ![c] = StartOn(c)]
    /\ UNCHANGED <<managed, sock, peer, run>> /\ UNCHANGED server

\* do_read's handler, the parser's result good or bad: the reply is filled in
\* and its write started.
RequestRead(c) ==
    /\ run = "running"
    /\ reading[c] = "ok"
    /\ reading' = [reading EXCEPT ![c] = "none"]
    /\ reply' = [reply EXCEPT ![c] = @ + 1]
    /\ writing' = [writing EXCEPT ![c] = StartOn(c)]
    /\ UNCHANGED <<managed, sock, peer, run>> /\ UNCHANGED server

\* do_read's handler, the parser's result indeterminate: read on.
ReadMore(c) ==
    /\ run = "running"
    /\ reading[c] = "ok"
    /\ reading' = [reading EXCEPT ![c] = StartOn(c)]
    /\ UNCHANGED <<managed, sock, writing, reply, peer, run>> /\ UNCHANGED server

\* Faulty form of ReadFails: any error is taken for an abort.
ReadFailsIgnored(c) ==
    /\ run = "running"
    /\ reading[c] = "error"
    /\ reading' = [reading EXCEPT ![c] = "none"]
    /\ UNCHANGED <<managed, sock, writing, reply, peer, run>> /\ UNCHANGED server

\* do_read's handler with an error other than operation_aborted.
ReadFails(c) ==
    /\ run = "running"
    /\ reading[c] = "error"
    /\ reading' = [reading EXCEPT ![c] = "none"]
    /\ ManagerStop(c)
    /\ UNCHANGED <<writing, reply, peer, run>> /\ UNCHANGED server

\* do_write's handler, not aborted: shut the connection down if the reply was
\* sent, and stop it in any case.
Replied(c) ==
    /\ run = "running"
    /\ writing[c] \in {"ok", "error"}
    /\ writing' = [writing EXCEPT ![c] = "none"]
    /\ ManagerStop(c)
    /\ UNCHANGED <<reading, reply, peer, run>> /\ UNCHANGED server

\* Either handler with operation_aborted: the last shared_ptr goes away.
Abandoned(c) ==
    /\ run = "running"
    /\ \/ /\ reading[c] = "aborted"
          /\ reading' = [reading EXCEPT ![c] = "none"]
          /\ UNCHANGED writing
       \/ /\ writing[c] = "aborted"
          /\ writing' = [writing EXCEPT ![c] = "none"]
          /\ UNCHANGED reading
    /\ UNCHANGED <<managed, sock, reply, peer, run>> /\ UNCHANGED server

\* io_context::run() returns when no operation and no handler is left.
RunReturns ==
    /\ run = "running"
    /\ accepting = "none" /\ signals = "none"
    /\ \A c \in Conn : reading[c] = "none" /\ writing[c] = "none"
    /\ run' = "returned"
    /\ UNCHANGED <<managed, sock, reading, writing, reply, peer>> /\ UNCHANGED server

ConnHandler(c) ==
    RequestRead(c) \/ ReadMore(c) \/ ReadFails(c) \/ Replied(c) \/ Abandoned(c)

Next ==
    \/ AcceptCompletes \/ SignalArrives
    \/ NotAccepted \/ Stop \/ RunReturns
    \/ \E c \in Conn : \/ ReadCompletes(c) \/ WriteCompletes(c) \/ PeerGone(c)
                       \/ Accepted(c) \/ ConnHandler(c)

Spec == Init /\ [][Next]_vars

\* The thread in run() runs every queued handler.  A peer that is gone ends the
\* read and the write of its connection, once what it had sent is consumed; one
\* that stays need not send, nor take the reply.
FairSpec ==
    /\ Spec
    /\ WF_vars(NotAccepted) /\ WF_vars(Stop) /\ WF_vars(RunReturns)
    /\ WF_vars(\E c \in Conn : Accepted(c))
    /\ \A c \in Conn :
          /\ WF_vars(ConnHandler(c))
          /\ SF_vars(c \notin peer /\ ReadCompletes(c) /\ reading'[c] = "error")
          /\ WF_vars(c \notin peer /\ WriteCompletes(c))
-----------------------------------------------------------------------------
TypeOK ==
    /\ acceptor \in {"open", "closed"}
    /\ accepting \in Status
    /\ signals \in {"started", "ready", "none"}
    /\ managed \subseteq Conn
    /\ sock \in [Conn -> {"open", "closed"}]
    /\ reading \in [Conn -> Status]
    /\ writing \in [Conn -> Status]
    /\ reply \in [Conn -> 0..1]
    /\ peer \subseteq Conn
    /\ run \in {"running", "returned"}

\* The manager knows exactly the connections whose socket is open: stop_all
\* reaches every one, and an entry never outlives its socket.
ManagedIsOpen == \A c \in Conn : c \in managed <=> sock[c] = "open"

\* A managed connection is waiting for something or has a handler queued, on
\* one operation only: none is forgotten in the set.
ManagedIsBusy ==
    \A c \in Conn :
        /\ c \in managed => reading[c] # "none" \/ writing[c] # "none"
        /\ reading[c] = "none" \/ writing[c] = "none"
        /\ c \notin managed => reading[c] # "started" /\ writing[c] # "started"

\* Once the stop handler ran no connection is managed again, although accepts,
\* reads and writes may complete that were under way when it ran.
NothingAfterStop == acceptor = "closed" => managed = {}

\* reply.hpp: the reply object must not be changed until the write operation
\* has completed.
ReplyStable ==
    [][\A c \in Conn : writing[c] # "none" => reply'[c] = reply[c]]_vars

\* A signal ends the server: whatever is outstanding, run() returns.
StopsWhenSignalled == (signals = "ready") ~> (run = "returned")

\* The connection of a peer that went away is released.
Released == \A c \in Conn : (c \notin peer) ~> ~Alive(c)

-----------------------------------------------------------------------------
\* How far a connection is, for HttpService.
Turn(c) == IF ~Alive(c) THEN "none" ELSE IF reply[c] = 0 THEN "request" ELSE "reply"

Service == INSTANCE HttpService WITH
    turn <- [c \in Conn |-> Turn(c)], serves <- acceptor = "open"

\* One request and one reply for a connection, and no connection after the stop,
\* whatever completes in between.
ImplementsService == Service!Spec
=============================================================================
