--------------------------- MODULE HttpPoolProofs ---------------------------
(***************************************************************************)
(* Theorems about HttpPool for every size of the pool and every number of  *)
(* connections.                                                            *)
(***************************************************************************)
EXTENDS HttpPool, TLAPS

\* The inductive invariant: only a thread that runs is inside a handler, and main
\* leaves run() when every thread has returned; a thread returns between
\* handlers, and nothing spawns it again.
IInv ==
    /\ thread \in [Context -> {"none", "running", "returned"}]
    /\ at \in [Context -> {"idle", "start", "accept", "stop"}]
    /\ main \in {"spawn", "join", "joined", "destroyed"}
    /\ \A i \in Context : at[i] # "idle" => thread[i] = "running"
    /\ main \in {"joined", "destroyed"} => \A i \in Context : thread[i] = "returned"

LEMMA Contexts == SignalCtx \in Context /\ AcceptCtx \in Context
BY PoolAssumption DEF SignalCtx, AcceptCtx, Context

LEMMA InitIInv == Init => IInv
BY DEF Init, IInv

\* What main does.
LEMMA MainIInv ==
    ASSUME IInv, Main
    PROVE  IInv'
<1>1. CASE Join
  BY <1>1 DEF IInv, Join, conns
<1>2. CASE Destroy
  BY <1>2 DEF IInv, Destroy
<1>3. CASE \E i \in Context : Spawn(i)
  BY <1>3 DEF IInv, Spawn, conns
<1>. QED
  BY <1>1, <1>2, <1>3 DEF Main

\* A step that neither spawns, enters, leaves nor ends anything.
LEMMA OthersIInv ==
    ASSUME IInv, UNCHANGED <<thread, at, main>>
    PROVE  IInv'
BY DEF IInv

\* A step of a running thread i within a handler, into one or out of one.
LEMMA InsideIInv ==
    ASSUME IInv, NEW i \in Context, thread[i] = "running",
           NEW p \in {"idle", "start", "accept", "stop"},
           at' = [at EXCEPT ![i] = p], UNCHANGED <<thread, main>>
    PROVE  IInv'
BY DEF IInv

LEMMA AcceptorIInv ==
    ASSUME IInv, AcceptHandler \/ Start \/ Accept
    PROVE  IInv'
<1>1. CASE AcceptHandler
  BY <1>1, Contexts, InsideIInv DEF AcceptHandler, Takes
<1>2. CASE Start
  <2>1. thread[AcceptCtx] = "running"
    BY <1>2, Contexts DEF IInv, Start
  <2>. QED
    BY <1>2, <2>1, Contexts, InsideIInv DEF Start
<1>3. CASE Accept
  <2>1. thread[AcceptCtx] = "running"
    BY <1>3, Contexts DEF IInv, Accept
  <2>. QED
    BY <1>3, <2>1, Contexts, InsideIInv DEF Accept
<1>. QED
  BY <1>1, <1>2, <1>3

LEMMA SignalIInv ==
    ASSUME IInv, StopHandler \/ Stop
    PROVE  IInv'
<1>1. CASE StopHandler
  BY <1>1, Contexts, InsideIInv DEF StopHandler, Takes
<1>2. CASE Stop
  <2>1. thread[SignalCtx] = "running" /\ UNCHANGED <<thread, main>>
    BY <1>2, Contexts DEF IInv, Stop
  <2>2. at' = at \/ at' = [at EXCEPT ![SignalCtx] = "idle"]
    BY <1>2 DEF Stop
  <2>. QED
    BY <2>1, <2>2, Contexts, InsideIInv, OthersIInv
<1>. QED
  BY <1>1, <1>2

LEMMA RunReturnsIInv ==
    ASSUME IInv, NEW i \in Context, RunReturns(i)
    PROVE  IInv'
BY DEF IInv, RunReturns

LEMMA NextIInv == IInv /\ [Next]_vars => IInv'
<1> SUFFICES ASSUME IInv, [Next]_vars PROVE IInv'
  OBVIOUS
<1>1. CASE UNCHANGED vars
  BY <1>1, OthersIInv DEF vars
<1>2. CASE AcceptCompletes \/ SignalArrives \/ \E c \in Conn : SocketCompletes(c)
  BY <1>2, OthersIInv DEF AcceptCompletes, SignalArrives, SocketCompletes, pool
<1>3. ASSUME NEW i \in Context, Thread(i) PROVE IInv'
  <2>1. CASE \E c \in Conn : ReadHandler(c) \/ WriteHandler(c)
    BY <2>1, OthersIInv DEF ReadHandler, WriteHandler, pool
  <2>. QED
    BY <1>3, <2>1, RunReturnsIInv, AcceptorIInv, SignalIInv DEF Thread
<1>. QED
  BY <1>1, <1>2, <1>3, MainIInv DEF Next

LEMMA Invariance == Spec => []IInv
BY InitIInv, NextIInv, PTL DEF Spec
-----------------------------------------------------------------------------
\* The server and the pool go away after all their threads are out of every
\* handler, whenever the signal came.
THEOREM PoolDestroyedLast == Spec => []DestroyedLast
<1>1. IInv => DestroyedLast
  BY DEF IInv, DestroyedLast
<1>. QED
  BY <1>1, Invariance, PTL
-----------------------------------------------------------------------------
(* The refinement of HttpService. *)

\* new_connection_ is not started: not while the accept into it is outstanding or
\* complete, nor before start() is called on it.
NewIsFresh ==
    /\ op \in [Conn -> {"fresh", "none", "reading", "read", "failed", "writing", "written"}]
    /\ made \in Conn
    /\ \A c \in Conn : c > made => op[c] = "fresh"
    /\ accepting # "none" \/ at[AcceptCtx] = "start" => op[made] = "fresh"
    /\ at[AcceptCtx] \in {"start", "accept"} => accepting = "none" /\ made < MaxConn

LEMMA InitNewIsFresh == Init => NewIsFresh
<1> SUFFICES ASSUME Init PROVE NewIsFresh
  OBVIOUS
<1>1. at[AcceptCtx] = "idle" /\ made = 1 /\ op = [c \in Conn |-> "fresh"]
  BY Contexts DEF Init
<1>2. 1 \in Conn
  BY PoolAssumption DEF Conn
<1>. QED
  BY <1>1, <1>2 DEF NewIsFresh

\* A step that is not one of the acceptor's chain.
LEMMA OthersNewIsFresh ==
    ASSUME NewIsFresh, made' = made,
           op' = op \/ \E c \in Conn, o \in {"none", "reading", "read", "failed", "writing", "written"} :
                          op[c] # "fresh" /\ op' = [op EXCEPT ![c] = o],
           accepting' = accepting \/ (accepting # "none" /\ accepting' \in {"ok", "error"}),
           at'[AcceptCtx] = at[AcceptCtx] \/ at'[AcceptCtx] \in {"idle", "stop"}
    PROVE  NewIsFresh'
BY DEF NewIsFresh

LEMMA AcceptorNewIsFresh ==
    ASSUME IInv, NewIsFresh, AcceptHandler \/ Start \/ Accept
    PROVE  NewIsFresh'
<1>1. CASE AcceptHandler
  <2>1. at'[AcceptCtx] \in {"start", "accept"}
    BY <1>1, Contexts DEF IInv, AcceptHandler
  <2>. QED
    BY <1>1, <2>1 DEF NewIsFresh, AcceptHandler
<1>2. CASE Start
  <2>1. at'[AcceptCtx] = "accept"
    BY <1>2, Contexts DEF IInv, Start
  <2>. QED
    BY <1>2, <2>1 DEF NewIsFresh, Start, Conn
<1>3. CASE Accept
  <2>1. at'[AcceptCtx] = "idle" /\ made < MaxConn
    BY <1>3, Contexts DEF IInv, NewIsFresh, Accept
  <2>2. made' \in Conn
    BY <1>3, <2>1, PoolAssumption DEF NewIsFresh, Accept, Conn
  <2>. QED
    BY <1>3, <2>1, <2>2 DEF NewIsFresh, Accept, Conn
<1>. QED
  BY <1>1, <1>2, <1>3

LEMMA NextNewIsFresh == IInv /\ NewIsFresh /\ [Next]_vars => NewIsFresh'
<1> SUFFICES ASSUME IInv, NewIsFresh, [Next]_vars PROVE NewIsFresh'
  OBVIOUS
<1>1. CASE UNCHANGED vars
  BY <1>1, OthersNewIsFresh DEF vars
<1>2. CASE AcceptCompletes \/ SignalArrives
  BY <1>2, OthersNewIsFresh DEF AcceptCompletes, SignalArrives, conns, pool
<1>3. ASSUME NEW c \in Conn, SocketCompletes(c) \/ ReadHandler(c) \/ WriteHandler(c)
      PROVE  NewIsFresh'
  <2>1. /\ UNCHANGED <<made, accepting, at>>
        /\ \E o \in {"none", "reading", "read", "failed", "writing", "written"} :
              op[c] # "fresh" /\ op' = [op EXCEPT ![c] = o]
    BY <1>3 DEF SocketCompletes, ReadHandler, WriteHandler, pool
  <2>. QED
    BY <2>1, OthersNewIsFresh
<1>4. CASE Destroy
  <2>1. at[AcceptCtx] = "idle"
    BY <1>4, Contexts DEF IInv, Destroy
  <2>. QED
    BY <1>4, <2>1 DEF NewIsFresh, Destroy
<1>5. CASE Join \/ \E i \in Context : Spawn(i) \/ RunReturns(i)
  BY <1>5, OthersNewIsFresh DEF Join, Spawn, RunReturns, conns
<1>6. CASE StopHandler \/ Stop
  <2>1. UNCHANGED <<made, op, accepting>>
    BY <1>6 DEF StopHandler, Stop, conns
  <2>2. at'[AcceptCtx] = at[AcceptCtx] \/ at'[AcceptCtx] \in {"idle", "stop"}
    BY <1>6, Contexts DEF IInv, StopHandler, Stop
  <2>. QED
    BY <2>1, <2>2, OthersNewIsFresh
<1>7. CASE AcceptHandler \/ Start \/ Accept
  BY <1>7, AcceptorNewIsFresh
<1>. QED
  BY <1>1, <1>2, <1>3, <1>4, <1>5, <1>6, <1>7 DEF Next, Main, Thread

LEMMA FreshInvariance == Spec => []NewIsFresh
BY InitNewIsFresh, NextNewIsFresh, Invariance, PTL DEF Spec

Serves == AcceptCtx \notin stopped \/ at[AcceptCtx] # "idle"

LEMMA InitService == Init => Service!Init
BY Contexts DEF Init, Service!Init, Turn

\* A step that changes no turn, and at most ends the opening of connections.
LEMMA QuietService ==
    ASSUME \A c \in Conn : Turn(c)' = Turn(c), Serves' => Serves
    PROVE  Service!Next \/ UNCHANGED Service!vars
<1>1. CASE Serves' <=> Serves
  BY <1>1 DEF Service!vars, Serves
<1>2. CASE ~Serves'
  <2>1. Service!Stop
    BY <1>2 DEF Service!Stop, Serves
  <2>. QED
    BY <2>1 DEF Service!Next
<1>. QED
  BY <1>1, <1>2

\* The steps that leave every connection as it is.
LEMMA OutsideService ==
    ASSUME IInv,
           \/ AcceptCompletes \/ SignalArrives \/ Join \/ AcceptHandler \/ Accept
           \/ StopHandler \/ Stop \/ \E i \in Context : Spawn(i) \/ RunReturns(i)
    PROVE  Service!Next \/ UNCHANGED Service!vars
<1> USE DEF AcceptCompletes, SignalArrives, Join, AcceptHandler, Accept,
            StopHandler, Stop, Spawn, RunReturns, Takes, conns, pool
<1>1. op' = op
  OBVIOUS
<1>2. \A c \in Conn : Turn(c)' = Turn(c)
  BY <1>1 DEF Turn
<1>3. Serves' => Serves
  BY Contexts DEF Serves, IInv
<1>. QED
  BY <1>2, <1>3, QuietService

LEMMA StartService ==
    ASSUME IInv, NewIsFresh, Start
    PROVE  Service!Next
<1>1. made \in Conn /\ op[made] = "fresh" /\ op' = [op EXCEPT ![made] = "reading"]
  BY DEF NewIsFresh, Start
<1>2. Turn(made) = "none" /\ \A c \in Conn : Turn(c)' = IF c = made THEN "request" ELSE Turn(c)
  BY <1>1 DEF NewIsFresh, Turn
<1>3. Serves /\ Serves'
  BY Contexts DEF Start, Serves, IInv
<1>4. Service!Open(made)
  BY <1>1, <1>2, <1>3 DEF Service!Open, Serves
<1>. QED
  BY <1>1, <1>4 DEF Service!Next

\* A completion or a handler of connection c: its turn stays, goes from request
\* to reply or ends, and no other connection's changes.
LEMMA ConnectionService ==
    ASSUME NewIsFresh, NEW c \in Conn,
           SocketCompletes(c) \/ ReadHandler(c) \/ WriteHandler(c)
    PROVE  Service!Next \/ UNCHANGED Service!vars
<1>1. UNCHANGED <<stopped, at>>
  BY DEF SocketCompletes, ReadHandler, WriteHandler, pool
<1>2. \A d \in Conn \ {c} : op'[d] = op[d]
  BY DEF SocketCompletes, ReadHandler, WriteHandler, NewIsFresh
<1>3. \A d \in Conn \ {c} : Turn(d)' = Turn(d)
  BY <1>2 DEF Turn
<1>4. Serves' <=> Serves
  BY <1>1 DEF Serves
<1>5. \/ Turn(c)' = Turn(c)
      \/ Turn(c) = "request" /\ Turn(c)' = "reply"
      \/ Turn(c)' = "none"
  BY DEF SocketCompletes, ReadHandler, WriteHandler, NewIsFresh, Turn
<1>6. CASE Turn(c)' = Turn(c)
  BY <1>3, <1>4, <1>6, QuietService
<1>7. CASE Turn(c) = "request" /\ Turn(c)' = "reply"
  <2>1. Service!Answer(c)
    BY <1>3, <1>4, <1>7 DEF Service!Answer, Serves
  <2>. QED
    BY <2>1 DEF Service!Next
<1>8. CASE Turn(c)' = "none"
  <2>1. Service!Close({c})
    BY <1>3, <1>4, <1>8 DEF Service!Close, Serves
  <2>2. {c} \in SUBSET Conn
    OBVIOUS
  <2>. QED
    BY <2>1, <2>2 DEF Service!Next
<1>. QED
  BY <1>5, <1>6, <1>7, <1>8

\* What is still open in the end goes away with the io_contexts.
LEMMA DestroyService ==
    ASSUME Destroy
    PROVE  Service!Next
<1>1. ASSUME NEW c \in Conn PROVE Turn(c)' = "none"
  BY DEF Destroy, Turn
<1>2. UNCHANGED <<stopped, at>>
  BY DEF Destroy
<1>3. Service!Close(Conn)
  BY <1>1, <1>2 DEF Service!Close
<1>4. Conn \in SUBSET Conn
  OBVIOUS
<1>. QED
  BY <1>3, <1>4 DEF Service!Next

LEMMA StepService == IInv /\ NewIsFresh /\ [Next]_vars => [Service!Next]_(Service!vars)
<1> SUFFICES ASSUME IInv, NewIsFresh, [Next]_vars
             PROVE  Service!Next \/ UNCHANGED Service!vars
  OBVIOUS
<1>1. CASE UNCHANGED vars
  BY <1>1 DEF vars, Service!vars, Turn
<1>2. CASE Main
  BY <1>2, OutsideService, DestroyService DEF Main
<1>3. ASSUME NEW i \in Context, Thread(i)
      PROVE  Service!Next \/ UNCHANGED Service!vars
  BY <1>3, OutsideService, StartService, ConnectionService DEF Thread
<1>. QED
  BY <1>1, <1>2, <1>3, OutsideService, ConnectionService DEF Next

\* The server of http2/ implements HttpService: one request and one reply for a
\* connection and none opened after the stop, for any size of the pool.
THEOREM PoolImplementsService == Spec => ImplementsService
BY InitService, StepService, Invariance, FreshInvariance, PTL
   DEF Spec, ImplementsService, Service!Spec
=============================================================================
