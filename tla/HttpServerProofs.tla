-------------------------- MODULE HttpServerProofs --------------------------
(***************************************************************************)
(* Theorems about HttpServer for every set of connections.                 *)
(***************************************************************************)
EXTENDS HttpServer, TLAPS

\* The inductive invariant, of one connection: what it says of a connection
\* depends on that connection, so a handler disturbs one at a time.  Beyond the
\* checked invariants it needs that an aborted operation is one of a connection
\* that stop_all forgot, and that a connection that reads has not replied yet.
IConn(c) ==
    /\ c \in managed <=> sock[c] = "open"
    /\ c \in managed => reading[c] # "none" \/ writing[c] # "none"
    /\ reading[c] = "none" \/ writing[c] = "none"
    /\ c \notin managed => reading[c] # "started" /\ writing[c] # "started"
    /\ reading[c] = "aborted" \/ writing[c] = "aborted" => c \notin managed
    /\ reading[c] # "none" => reply[c] = 0

IInv == TypeOK /\ NothingAfterStop /\ \A c \in Conn : IConn(c)

LEMMA InitIInv == Init => IInv
BY DEF Init, IInv, IConn, TypeOK, NothingAfterStop, Status

\* A step that changes the operations of connection c only keeps IConn of the
\* others.
LEMMA OthersKept ==
    ASSUME IInv, NEW c \in Conn,
           \A d \in Conn \ {c} :
              /\ d \in managed' <=> d \in managed
              /\ sock'[d] = sock[d] /\ reading'[d] = reading[d]
              /\ writing'[d] = writing[d] /\ reply'[d] = reply[d],
           IConn(c)'
    PROVE  \A d \in Conn : IConn(d)'
BY DEF IInv, IConn

LEMMA NetworkIInv ==
    ASSUME IInv, AcceptCompletes \/ SignalArrives \/ NotAccepted \/ RunReturns
    PROVE  IInv'
<1>1. UNCHANGED <<managed, sock, reading, writing, reply, acceptor>>
  BY DEF AcceptCompletes, SignalArrives, NotAccepted, RunReturns, server
<1>2. TypeOK'
  BY DEF IInv, TypeOK, Status, AcceptCompletes, SignalArrives, NotAccepted, RunReturns, server
<1>. QED
  BY <1>1, <1>2 DEF IInv, IConn, NothingAfterStop

LEMMA StopIInv ==
    ASSUME IInv, Stop
    PROVE  IInv'
<1>1. TypeOK'
  BY DEF IInv, TypeOK, Status, Stop, StopAll, Aborted
<1>2. ASSUME NEW c \in Conn PROVE IConn(c)'
  BY DEF IInv, IConn, TypeOK, Status, Stop, StopAll, Aborted
<1>3. NothingAfterStop'
  BY DEF NothingAfterStop, Stop, StopAll
<1>. QED
  BY <1>1, <1>2, <1>3 DEF IInv

LEMMA AcceptedIInv ==
    ASSUME IInv, NEW c \in Conn, Accepted(c)
    PROVE  IInv'
<1>1. TypeOK'
  BY DEF IInv, TypeOK, Status, Accepted
<1>2. IConn(c)'
  BY DEF IInv, TypeOK, IConn, Accepted, Alive
<1>3. \A d \in Conn : IConn(d)'
  BY <1>2, OthersKept DEF IInv, TypeOK, Accepted
<1>4. NothingAfterStop'
  BY DEF NothingAfterStop, Accepted
<1>. QED
  BY <1>1, <1>3, <1>4 DEF IInv

\* The steps of one connection, the peer's included.
LEMMA ConnectionIInv ==
    ASSUME IInv, NEW c \in Conn,
           ReadCompletes(c) \/ WriteCompletes(c) \/ PeerGone(c) \/ ConnHandler(c)
    PROVE  IInv'
<1> USE DEF ConnHandler, ReadCompletes, WriteCompletes, PeerGone, RequestRead,
            ReadMore, ReadFails, Replied, Abandoned, ManagerStop, StartOn, server
<1>1. TypeOK'
  <2>1. reply'[c] \in 0..1
    BY DEF IInv, TypeOK, IConn
  <2>. QED
    BY <2>1 DEF IInv, TypeOK, Status
<1>2. IConn(c)'
  <2>1. TypeOK /\ IConn(c)
    BY DEF IInv
  <2>. QED
    BY <2>1 DEF TypeOK, Status, IConn
<1>3. \A d \in Conn : IConn(d)'
  <2>1. \A d \in Conn \ {c} : /\ d \in managed' <=> d \in managed
                              /\ sock'[d] = sock[d] /\ reading'[d] = reading[d]
                              /\ writing'[d] = writing[d] /\ reply'[d] = reply[d]
    BY DEF IInv, TypeOK
  <2>. QED
    BY <1>2, <2>1, OthersKept
<1>4. NothingAfterStop'
  BY DEF IInv, NothingAfterStop
<1>. QED
  BY <1>1, <1>3, <1>4 DEF IInv

LEMMA StepIInv == IInv /\ [Next]_vars => IInv'
<1> SUFFICES ASSUME IInv, [Next]_vars PROVE IInv'
  OBVIOUS
<1>1. CASE AcceptCompletes \/ SignalArrives \/ NotAccepted \/ RunReturns
  BY <1>1, NetworkIInv
<1>2. CASE Stop
  BY <1>2, StopIInv
<1>3. ASSUME NEW c \in Conn, Accepted(c) PROVE IInv'
  BY <1>3, AcceptedIInv
<1>4. ASSUME NEW c \in Conn,
             ReadCompletes(c) \/ WriteCompletes(c) \/ PeerGone(c) \/ ConnHandler(c)
      PROVE  IInv'
  BY <1>4, ConnectionIInv
<1>5. CASE UNCHANGED vars
  BY <1>5 DEF vars, IInv, IConn, TypeOK, NothingAfterStop
<1>. QED
  BY <1>1, <1>2, <1>3, <1>4, <1>5 DEF Next

LEMMA Invariance == Spec => []IInv
BY InitIInv, StepIInv, PTL DEF Spec

\* Every status and set keeps its type; at most one reply per connection.
THEOREM HttpTypeCorrect == Spec => []TypeOK
BY Invariance, PTL DEF IInv

\* connections_ is the set of connections with an open socket.
THEOREM HttpManagedIsOpen == Spec => []ManagedIsOpen
<1>1. IInv => ManagedIsOpen
  BY DEF IInv, IConn, ManagedIsOpen
<1>. QED
  BY <1>1, Invariance, PTL

\* No managed connection is without an outstanding operation, none has two.
THEOREM HttpManagedIsBusy == Spec => []ManagedIsBusy
<1>1. IInv => ManagedIsBusy
  BY DEF IInv, IConn, ManagedIsBusy
<1>. QED
  BY <1>1, Invariance, PTL

\* After the stop handler nothing is ever managed again.
THEOREM HttpNothingAfterStop == Spec => []NothingAfterStop
BY Invariance, PTL DEF IInv

\* The reply is left alone from the start of its write to its completion.
THEOREM HttpReplyStable == Spec => ReplyStable
<1>1. IInv /\ [Next]_vars
        => [\A c \in Conn : writing[c] # "none" => reply'[c] = reply[c]]_vars
  <2> SUFFICES ASSUME IInv, Next, NEW c \in Conn, writing[c] # "none"
               PROVE  reply'[c] = reply[c]
    OBVIOUS
  <2>1. reading[c] = "none"
    BY DEF IInv, IConn
  <2>2. ASSUME NEW d \in Conn, Accepted(d) PROVE reply'[c] = reply[c]
    BY <2>2 DEF Accepted, Alive, IInv, TypeOK
  <2>3. ASSUME NEW d \in Conn, RequestRead(d) PROVE reply'[c] = reply[c]
    BY <2>1, <2>3 DEF RequestRead, IInv, TypeOK
  <2>4. ASSUME NEW d \in Conn,
               \/ ReadCompletes(d) \/ WriteCompletes(d) \/ PeerGone(d)
               \/ ReadMore(d) \/ ReadFails(d) \/ Replied(d) \/ Abandoned(d)
        PROVE  reply'[c] = reply[c]
    BY <2>4 DEF ReadCompletes, WriteCompletes, PeerGone, ReadMore, ReadFails, Replied, Abandoned
  <2>5. CASE AcceptCompletes \/ SignalArrives \/ NotAccepted \/ Stop \/ RunReturns
    BY <2>5 DEF AcceptCompletes, SignalArrives, NotAccepted, Stop, RunReturns
  <2>. QED
    BY <2>2, <2>3, <2>4, <2>5 DEF Next, ConnHandler
<1>. QED
  BY <1>1, Invariance, PTL DEF Spec, ReplyStable
-----------------------------------------------------------------------------
(* The refinement of HttpService. *)

Turns == [c \in Conn |-> Turn(c)]

LEMMA InitService == Init => Service!Init
<1> SUFFICES ASSUME Init PROVE Service!Init
  OBVIOUS
<1>1. \A c \in Conn : Turn(c) = "none"
  BY DEF Init, Turn, Alive
<1>. QED
  BY <1>1 DEF Init, Service!Init

LEMMA QuietService ==
    ASSUME \A d \in Conn : (Alive(d)' <=> Alive(d)) /\ reply'[d] = reply[d]
    PROVE  UNCHANGED Turns
BY DEF Turns, Turn

\* Closing the sockets leaves every connection to the handler of its operation.
LEMMA StopService ==
    ASSUME IInv, Stop
    PROVE  Service!Stop
<1>1. ASSUME NEW d \in Conn PROVE (Alive(d)' <=> Alive(d)) /\ reply'[d] = reply[d]
  <2>1. TypeOK /\ IConn(d)
    BY DEF IInv
  <2>. QED
    BY <2>1 DEF Stop, StopAll, Aborted, Alive, IConn, TypeOK, Status
<1>2. UNCHANGED Turns
  BY <1>1, QuietService
<1>3. acceptor' = "closed"
  BY DEF Stop
<1>. QED
  BY <1>2, <1>3 DEF Service!Stop, Turns

LEMMA AcceptedService ==
    ASSUME IInv, NEW c \in Conn, Accepted(c)
    PROVE  Service!Open(c)
<1>1. \A d \in Conn \ {c} : (Alive(d)' <=> Alive(d)) /\ reply'[d] = reply[d]
  BY DEF Accepted, Alive, IInv, TypeOK
<1>2. \A d \in Conn \ {c} : Turn(d)' = Turn(d)
  BY <1>1 DEF Turn
<1>3. Turn(c) = "none" /\ Turn(c)' = "request"
  BY DEF Accepted, Turn, Alive, IInv, TypeOK
<1>. QED
  BY <1>2, <1>3 DEF Service!Open, Accepted

LEMMA RequestReadService ==
    ASSUME IInv, NEW c \in Conn, RequestRead(c)
    PROVE  Service!Answer(c)
<1>1. \A d \in Conn \ {c} : (Alive(d)' <=> Alive(d)) /\ reply'[d] = reply[d]
  BY DEF RequestRead, Alive, IInv, TypeOK
<1>2. \A d \in Conn \ {c} : Turn(d)' = Turn(d)
  BY <1>1 DEF Turn
<1>3. Turn(c) = "request" /\ Turn(c)' = "reply"
  BY DEF RequestRead, StartOn, Turn, Alive, IInv, IConn, TypeOK
<1>. QED
  BY <1>2, <1>3 DEF Service!Answer, RequestRead, server

\* The handlers that end a connection leave nothing that holds it.
LEMMA EndsService ==
    ASSUME IInv, NEW c \in Conn, ReadFails(c) \/ Replied(c) \/ Abandoned(c)
    PROVE  Service!Close({c})
<1>1. \A d \in Conn \ {c} : (Alive(d)' <=> Alive(d)) /\ reply'[d] = reply[d]
  BY DEF ReadFails, Replied, Abandoned, ManagerStop, Alive, IInv, TypeOK
<1>2. \A d \in Conn \ {c} : Turn(d)' = Turn(d)
  BY <1>1 DEF Turn
<1>3. ~Alive(c)'
  <2>1. TypeOK /\ IConn(c)
    BY DEF IInv
  <2>. QED
    BY <2>1 DEF ReadFails, Replied, Abandoned, ManagerStop, Alive, IConn, TypeOK
<1>4. Turn(c)' = "none"
  BY <1>3 DEF Turn
<1>5. UNCHANGED acceptor
  BY DEF ReadFails, Replied, Abandoned, server
<1>. QED
  BY <1>2, <1>4, <1>5 DEF Service!Close

\* The other steps of one connection change neither what holds it nor its reply.
LEMMA QuietConnection ==
    ASSUME IInv, NEW c \in Conn,
           ReadCompletes(c) \/ WriteCompletes(c) \/ PeerGone(c) \/ ReadMore(c)
    PROVE  UNCHANGED Service!vars
<1>1. \A d \in Conn : (Alive(d)' <=> Alive(d)) /\ reply'[d] = reply[d]
  BY DEF ReadCompletes, WriteCompletes, PeerGone, ReadMore, StartOn, Alive, IInv, TypeOK
<1>2. UNCHANGED <<Turns, acceptor>>
  BY <1>1, QuietService
     DEF ReadCompletes, WriteCompletes, PeerGone, ReadMore, server
<1>. QED
  BY <1>2 DEF Service!vars, Turns

LEMMA StepService == IInv /\ [Next]_vars => [Service!Next]_(Service!vars)
<1> SUFFICES ASSUME IInv, [Next]_vars PROVE [Service!Next]_(Service!vars)
  OBVIOUS
<1>1. ASSUME UNCHANGED <<managed, reading, writing, reply, acceptor>>
      PROVE  UNCHANGED Service!vars
  <2>1. UNCHANGED Turns
    BY <1>1, QuietService DEF Alive
  <2>. QED
    BY <1>1, <2>1 DEF Service!vars, Turns
<1>2. CASE \/ AcceptCompletes \/ SignalArrives \/ NotAccepted \/ RunReturns
           \/ UNCHANGED vars
  BY <1>1, <1>2 DEF AcceptCompletes, SignalArrives, NotAccepted, RunReturns, server, vars
<1>3. CASE Stop
  BY <1>3, StopService DEF Service!Next
<1>4. ASSUME NEW c \in Conn, Accepted(c) PROVE Service!Next
  BY <1>4, AcceptedService DEF Service!Next
<1>5. ASSUME NEW c \in Conn, RequestRead(c) PROVE Service!Next
  BY <1>5, RequestReadService DEF Service!Next
<1>6. ASSUME NEW c \in Conn, ReadFails(c) \/ Replied(c) \/ Abandoned(c)
      PROVE  Service!Next
  <2>1. Service!Close({c})
    BY <1>6, EndsService
  <2>2. {c} \in SUBSET Conn
    OBVIOUS
  <2>. QED
    BY <2>1, <2>2 DEF Service!Next
<1>7. ASSUME NEW c \in Conn,
             ReadCompletes(c) \/ WriteCompletes(c) \/ PeerGone(c) \/ ReadMore(c)
      PROVE  UNCHANGED Service!vars
  BY <1>7, QuietConnection
<1>. QED
  BY <1>2, <1>3, <1>4, <1>5, <1>6, <1>7 DEF Next, ConnHandler

\* The server of http/ implements HttpService: one request and one reply for a
\* connection, none opened after the stop, for every set of connections.
THEOREM HttpImplementsService == Spec => ImplementsService
BY InitService, StepService, Invariance, PTL
   DEF Spec, ImplementsService, Service!Spec
=============================================================================
