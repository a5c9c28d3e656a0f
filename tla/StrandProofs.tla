---------------------------- MODULE StrandProofs ----------------------------
(***************************************************************************)
(* Theorems about the two programs that bind handlers to a strand and one  *)
(* of them not: HttpStrand, the server on a pool of threads whose start()  *)
(* runs outside the strand, for every number of threads and connections,   *)
(* and then Timers, whose second timer starts on another strand, for every *)
(* limit of the count and every number of threads.                         *)
(***************************************************************************)
EXTENDS HttpStrand, Timers, FiniteSetTheorems, TLAPS

Types ==
    /\ op \in [Conn -> {"none", "reading", "has read", "failed", "writing", "has written"}]
    /\ doing \in [Thread -> {"unborn", "idle", "start", "started", "accept", "read",
                             "write", "leave", "returned"}]
    /\ on \in [Thread -> Conn \cup {NoConn}]

\* A thread holds a connection exactly while it is with it.
Holds(t) == on[t] # NoConn <=> doing[t] \in {"start", "started", "read", "write", "leave"}

\* The inductive invariant, of one connection.  A thread in start() is the only
\* one that holds the connection, which is why the strand is not needed there;
\* at most one thread is in the strand; and as long as a thread still works on
\* the connection it has not started the next operation.
IConn(c) ==
    /\ \A t, u \in Thread :
          on[t] = c /\ on[u] = c /\ doing[t] = "start" => t = u
    /\ \A t, u \in Thread :
          /\ on[t] = c /\ doing[t] \in {"read", "write", "leave"}
          /\ on[u] = c /\ doing[u] \in {"read", "write", "leave"}
          => t = u
    /\ \A t \in Thread :
          on[t] = c /\ doing[t] \in {"start", "read", "write"} => op[c] = "none"

IInv ==
    /\ Types
    /\ \A t \in Thread : Holds(t)
    /\ \A c \in Conn : IConn(c)

LEMMA InitIInv == Init => IInv
BY StrandAssumption DEF Init, IInv, Types, Holds, IConn

LEMMA NothingMoves ==
    ASSUME IInv, UNCHANGED <<op, doing, on>>
    PROVE  IInv'
<1>1. Types'
  BY DEF IInv, Types
<1>2. ASSUME NEW t \in Thread PROVE Holds(t)'
  <2>1. Holds(t) /\ on'[t] = on[t] /\ doing'[t] = doing[t]
    BY DEF IInv
  <2>. QED
    BY <2>1 DEF Holds
<1>3. ASSUME NEW c \in Conn PROVE IConn(c)'
  <2>1. IConn(c)
    BY DEF IInv
  <2>. QED
    BY <2>1 DEF IConn
<1>. QED
  BY <1>1, <1>2, <1>3 DEF IInv

\* The network and the signal start nothing and take nothing away that a thread
\* works on.
LEMMA NetworkIInv ==
    ASSUME IInv, AcceptCompletes \/ SignalArrives \/ \E c \in Conn : SocketCompletes(c)
    PROVE  IInv'
<1>1. CASE AcceptCompletes \/ SignalArrives
  <2>1. UNCHANGED <<op, doing, on>>
    BY <1>1 DEF AcceptCompletes, SignalArrives
  <2>. QED
    BY <2>1, NothingMoves
<1>2. ASSUME NEW c \in Conn, SocketCompletes(c) PROVE IInv'
  <2>1. PICK r \in {"has read", "failed", "has written"} : op' = [op EXCEPT ![c] = r]
    BY <1>2 DEF SocketCompletes
  <2>2. op[c] # "none" /\ UNCHANGED <<doing, on>>
    BY <1>2 DEF SocketCompletes
  <2>3. Types'
    BY <2>1, <2>2 DEF IInv, Types
  <2>4. \A d \in Conn \ {c} : op'[d] = op[d]
    BY <2>1 DEF IInv, Types
  <2>5. ASSUME NEW d \in Conn PROVE IConn(d)'
    <3>1. IConn(d)
      BY DEF IInv
    <3>2. op[d] = "none" => op'[d] = "none"
      BY <2>2, <2>4
    <3>. QED
      BY <2>2, <3>1, <3>2 DEF IConn
  <2>. QED
    BY <2>2, <2>3, <2>5 DEF IInv, Holds
<1>. QED
  BY <1>1, <1>2

\* A thread that holds no connection before or after the step.
LEMMA IdleIInv ==
    ASSUME IInv, NEW t \in Thread, Spawn(t) \/ RunReturns(t) \/ Stop(t) \/ Accept(t)
    PROVE  IInv'
<1>1. op' = op /\ on' = on
  BY DEF Spawn, RunReturns, Stop, Accept, server
<1>2. /\ \E d \in {"idle", "returned", doing[t]} : doing' = [doing EXCEPT ![t] = d]
      /\ doing[t] \in {"unborn", "idle", "accept"}
  BY DEF IInv, Types, Spawn, RunReturns, Stop, Accept, Takes
<1>3. on[t] = NoConn
  BY <1>2 DEF IInv, Types, Holds
<1>4. Types'
  BY <1>1, <1>2 DEF IInv, Types
<1>5. \A u \in Thread : Holds(u)'
  BY <1>1, <1>2, <1>3 DEF IInv, Types, Holds
<1>6. ASSUME NEW c \in Conn PROVE IConn(c)'
  <2>1. c # on[t]
    BY <1>3, StrandAssumption
  <2>2. \A u \in Thread : on[u] = c => doing'[u] = doing[u]
    BY <1>2, <2>1 DEF IInv, Types
  <2>. QED
    BY <1>1, <2>2 DEF IInv, IConn
<1>. QED
  BY <1>4, <1>5, <1>6 DEF IInv

\* The accept handler takes a connection that nobody holds.
LEMMA AcceptHandlerIInv ==
    ASSUME IInv, NEW t \in Thread, AcceptHandler(t)
    PROVE  IInv'
<1>1. Types /\ doing[t] = "idle" /\ on[t] = NoConn /\ op' = op
  BY DEF IInv, Types, Holds, AcceptHandler, Takes
<1>2. CASE accepting = "ok"
  <2>1. PICK d \in Conn : /\ ~Alive(d)
                          /\ on' = [on EXCEPT ![t] = d]
                          /\ doing' = [doing EXCEPT ![t] = "start"]
    BY <1>2 DEF AcceptHandler
  <2>2. op[d] = "none" /\ \A u \in Thread : on[u] # d
    BY <2>1 DEF Alive
  <2>3. Types'
    BY <1>1, <2>1 DEF Types
  <2>4. ASSUME NEW u \in Thread PROVE Holds(u)'
    <3>1. Holds(u) /\ d # NoConn
      BY StrandAssumption DEF IInv
    <3>. QED
      BY <1>1, <2>1, <3>1 DEF Types, Holds
  <2>5. ASSUME NEW c \in Conn PROVE IConn(c)'
    <3>1. CASE c = d
      BY <1>1, <2>1, <2>2, <3>1 DEF IConn, Types
    <3>2. CASE c # d
      <4>1. \A u \in Thread : on'[u] = c => on[u] = c /\ doing'[u] = doing[u]
        BY <1>1, <2>1, <3>2 DEF Types
      <4>. QED
        BY <1>1, <4>1 DEF IInv, IConn
    <3>. QED
      BY <3>1, <3>2
  <2>. QED
    BY <2>3, <2>4, <2>5 DEF IInv
<1>3. CASE accepting # "ok"
  <2>1. on' = on /\ doing' = [doing EXCEPT ![t] = "accept"]
    BY <1>3 DEF AcceptHandler
  <2>2. Types'
    BY <1>1, <2>1 DEF Types
  <2>3. ASSUME NEW u \in Thread PROVE Holds(u)'
    BY <1>1, <2>1 DEF IInv, Types, Holds
  <2>4. ASSUME NEW c \in Conn PROVE IConn(c)'
    <3>1. \A u \in Thread : on[u] = c => doing'[u] = doing[u]
      BY <1>1, <2>1, StrandAssumption DEF Types
    <3>. QED
      BY <1>1, <2>1, <3>1 DEF IInv, IConn
  <2>. QED
    BY <2>2, <2>3, <2>4 DEF IInv
<1>. QED
  BY <1>2, <1>3

\* A step of a thread with a connection, that may start an operation on it and
\* goes on to where it does not use the connection any more.
LEMMA GoesOn ==
    ASSUME IInv, NEW t \in Thread, NEW c \in Conn, on[t] = c,
           NEW d \in {"started", "leave", "accept", "idle"},
           d = "leave" => doing[t] \in {"read", "write"},
           doing' = [doing EXCEPT ![t] = d],
           \/ on' = on /\ d \in {"started", "leave"}
           \/ on' = [on EXCEPT ![t] = NoConn] /\ d \in {"accept", "idle"},
           \/ op' = op
           \/ /\ doing[t] \in {"start", "read"}
              /\ \E o \in {"reading", "writing"} : op' = [op EXCEPT ![c] = o]
    PROVE  IInv'
<1>1. Types'
  BY DEF IInv, Types
<1>2. ASSUME NEW u \in Thread PROVE Holds(u)'
  <2>1. Holds(u) /\ c # NoConn
    BY StrandAssumption DEF IInv
  <2>. QED
    BY <2>1 DEF IInv, Types, Holds
<1>3. /\ \A u \in Thread \ {t} : on'[u] = on[u] /\ doing'[u] = doing[u]
      /\ doing'[t] = d /\ on'[t] \in {c, NoConn}
      /\ \A e \in Conn \ {c} : op'[e] = op[e]
  BY DEF IInv, Types
<1>4. ASSUME NEW e \in Conn, e # c PROVE IConn(e)'
  <2>1. \A u \in Thread : on'[u] = e => on[u] = e /\ doing'[u] = doing[u]
    BY <1>3, <1>4, StrandAssumption
  <2>. QED
    BY <1>3, <1>4, <2>1 DEF IInv, IConn
<1>5. IConn(c)'
  <2>1. IConn(c)
    BY DEF IInv
  <2>2. ASSUME NEW u \in Thread, on'[u] = c, doing'[u] \in {"start", "read", "write"}
        PROVE  op' = op
    <3>1. u # t /\ on[u] = c /\ doing[u] \in {"start", "read", "write"}
      BY <1>3, <2>2
    <3>2. doing[t] # "start" /\ doing[t] # "read"
      BY <2>1, <3>1 DEF IConn
    <3>. QED
      BY <3>2
  <2>3. ASSUME NEW u, NEW v \in Thread, u \in Thread,
               on'[u] = c, on'[v] = c, doing'[u] = "start"
        PROVE  u = v
    BY <1>3, <2>1, <2>3 DEF IConn
  <2>4. ASSUME NEW u \in Thread, NEW v \in Thread,
               on'[u] = c, doing'[u] \in {"read", "write", "leave"},
               on'[v] = c, doing'[v] \in {"read", "write", "leave"}
        PROVE  u = v
    BY <1>3, <2>1, <2>4 DEF IConn
  <2>5. ASSUME NEW u \in Thread, on'[u] = c, doing'[u] \in {"start", "read", "write"}
        PROVE  op'[c] = "none"
    <3>1. u # t /\ on[u] = c /\ doing[u] \in {"start", "read", "write"}
      BY <1>3, <2>5
    <3>. QED
      BY <2>1, <2>2, <2>5, <3>1 DEF IConn
  <2>. QED
    BY <2>3, <2>4, <2>5 DEF IConn
<1>. QED
  BY <1>1, <1>2, <1>4, <1>5 DEF IInv

LEMMA HandlerIInv ==
    ASSUME IInv, NEW t \in Thread, Start(t) \/ Started(t) \/ Read(t) \/ Write(t) \/ Leave(t)
    PROVE  IInv'
<1>1. PICK c \in Conn : on[t] = c
  BY DEF IInv, Types, Holds, Start, Started, Read, Write, Leave
<1>2. CASE Start(t)
  BY <1>1, <1>2, GoesOn DEF Start
<1>3. CASE Started(t)
  BY <1>1, <1>3, GoesOn DEF Started
<1>4. CASE Read(t)
  BY <1>1, <1>4, GoesOn DEF Read
<1>5. CASE Write(t)
  BY <1>1, <1>5, GoesOn DEF Write
<1>6. CASE Leave(t)
  BY <1>1, <1>6, GoesOn DEF Leave
<1>. QED
  BY <1>2, <1>3, <1>4, <1>5, <1>6

\* The strand of the connection was free.
LEMMA EnterIInv ==
    ASSUME IInv, NEW t \in Thread, NEW c \in Conn, Enter(t, c)
    PROVE  IInv'
<1>1. /\ Types /\ IConn(c) /\ on[t] = NoConn /\ op[c] # "none"
      /\ op' = [op EXCEPT ![c] = "none"] /\ on' = [on EXCEPT ![t] = c]
  BY DEF IInv, Types, Holds, Enter, Takes
<1>2. PICK d \in {"read", "write", "leave"} : doing' = [doing EXCEPT ![t] = d]
  BY DEF Enter
<1>3. \A u \in Thread : on[u] = c => doing[u] \notin {"start", "read", "write", "leave"}
  BY <1>1 DEF Enter, InStrand, IConn
<1>4. Types'
  BY <1>1, <1>2 DEF Types
<1>5. ASSUME NEW u \in Thread PROVE Holds(u)'
  <2>1. Holds(u) /\ c # NoConn
    BY StrandAssumption DEF IInv
  <2>. QED
    BY <1>1, <1>2, <2>1 DEF Types, Holds
<1>6. ASSUME NEW e \in Conn PROVE IConn(e)'
  <2>1. CASE e = c
    BY <1>1, <1>2, <1>3, <2>1 DEF IConn, Types
  <2>2. CASE e # c
    <3>1. /\ op'[e] = op[e]
          /\ \A u \in Thread : on'[u] = e => on[u] = e /\ doing'[u] = doing[u]
      BY <1>1, <1>2, <2>2 DEF Types
    <3>. QED
      BY <3>1 DEF IInv, IConn
  <2>. QED
    BY <2>1, <2>2
<1>. QED
  BY <1>4, <1>5, <1>6 DEF IInv

LEMMA JoinIInv ==
    ASSUME IInv, Join
    PROVE  IInv'
BY DEF IInv, Types, Holds, IConn, Join

LEMMA NextIInv == IInv /\ [Next]_vars => IInv'
<1> SUFFICES ASSUME IInv, [Next]_vars PROVE IInv'
  OBVIOUS
<1>1. CASE UNCHANGED vars
  BY <1>1, NothingMoves DEF vars
<1>2. CASE Next
  <2>1. ASSUME NEW t \in Thread, InHandler(t) PROVE IInv'
    BY <2>1, HandlerIInv, IdleIInv DEF InHandler
  <2>. QED
    BY <1>2, <2>1, NetworkIInv, IdleIInv, AcceptHandlerIInv, EnterIInv, JoinIInv DEF Next
<1>. QED
  BY <1>1, <1>2

LEMMA Invariance == Spec => []IInv
BY InitIInv, NextIInv, PTL DEF Spec
-----------------------------------------------------------------------------
\* A connection's buffer, parser, request and reply are used by one thread at a
\* time, and not while an operation on them is outstanding.
THEOREM StrandAlone == Spec => []Alone
<1>1. ASSUME IInv, NEW c \in Conn, Using(c) # {}
      PROVE  Cardinality(Using(c)) = 1 /\ op[c] = "none"
  <2>1. IConn(c)
    BY <1>1 DEF IInv
  <2>2. PICK t \in Thread : on[t] = c /\ doing[t] \in {"start", "read", "write"}
    BY <1>1 DEF Using
  <2>3. Using(c) = {t}
    BY <2>1, <2>2 DEF IConn, Using
  <2>4. Cardinality({t}) = 1
    BY FS_Singleton
  <2>. QED
    BY <2>1, <2>2, <2>3, <2>4 DEF IConn
<1>2. IInv => Alone
  BY <1>1 DEF Alone
<1>. QED
  BY <1>2, Invariance, PTL
-----------------------------------------------------------------------------
(* The refinement of HttpService. *)

Serves == ~stopped \/ \E t \in Thread : doing[t] \in {"start", "started"}

\* What the turn of a connection depends on.
SameFor(c) ==
    /\ op'[c] = op[c]
    /\ \A t \in Thread : \A w \in {"read", "write"} :
          on'[t] = c /\ doing'[t] = w <=> on[t] = c /\ doing[t] = w

LEMMA SameTurn ==
    ASSUME NEW c \in Conn, SameFor(c)
    PROVE  Turn(c)' = Turn(c)
<1>1. /\ In(c, "read")' <=> In(c, "read")
      /\ In(c, "write")' <=> In(c, "write")
  BY DEF SameFor, In
<1>. QED
  BY <1>1 DEF SameFor, Turn

LEMMA InitService == Init => Service!Init
<1> SUFFICES ASSUME Init PROVE Service!Init
  OBVIOUS
<1>1. ASSUME NEW c \in Conn PROVE Turn(c) = "none"
  BY DEF Init, Turn, In
<1>. QED
  BY <1>1 DEF Init, Service!Init

\* A step that changes no turn, and at most ends the opening of connections.
LEMMA QuietService ==
    ASSUME \A c \in Conn : Turn(c)' = Turn(c), Serves' => Serves
    PROVE  Service!Stop \/ UNCHANGED Service!vars
<1>1. CASE Serves' <=> Serves
  BY <1>1 DEF Service!vars, Serves
<1>2. CASE ~Serves'
  BY <1>2 DEF Service!Stop, Serves
<1>. QED
  BY <1>1, <1>2

\* Nobody is in the handler of a read or a write before or after the step.
LEMMA OutsideService ==
    ASSUME IInv,
           \/ AcceptCompletes \/ SignalArrives
           \/ \E t \in Thread : \/ Spawn(t) \/ RunReturns(t) \/ Stop(t) \/ AcceptHandler(t)
                                \/ Started(t) \/ Accept(t) \/ Leave(t)
    PROVE  Service!Stop \/ UNCHANGED Service!vars
<1>1. CASE AcceptCompletes \/ SignalArrives
  <2>1. UNCHANGED <<op, on, doing, stopped>>
    BY <1>1 DEF AcceptCompletes, SignalArrives
  <2>2. \A c \in Conn : Turn(c)' = Turn(c)
    BY <2>1, SameTurn DEF SameFor
  <2>. QED
    BY <2>1, <2>2, QuietService DEF Serves
<1>2. ASSUME NEW t \in Thread,
             \/ Spawn(t) \/ RunReturns(t) \/ Stop(t) \/ AcceptHandler(t)
             \/ Started(t) \/ Accept(t) \/ Leave(t)
      PROVE  Service!Stop \/ UNCHANGED Service!vars
  <2> USE DEF Spawn, RunReturns, Stop, AcceptHandler, Started, Accept, Leave, Takes, server
  <2>1. doing[t] \notin {"read", "write"} /\ doing'[t] \notin {"read", "write"}
    BY <1>2 DEF IInv, Types
  <2>2. \A u \in Thread \ {t} : on'[u] = on[u] /\ doing'[u] = doing[u]
    BY <1>2 DEF IInv, Types
  <2>3. op' = op
    BY <1>2
  <2>4. \A c \in Conn : Turn(c)' = Turn(c)
    BY <2>1, <2>2, <2>3, SameTurn DEF SameFor
  <2>5. Serves' => Serves
    <3>1. stopped' = stopped \/ ~stopped
      BY <1>2
    <3>2. ~stopped \/ (doing'[t] \in {"start", "started"} => doing[t] \in {"start", "started"})
      BY <1>2 DEF IInv, Types
    <3>. QED
      BY <2>2, <3>1, <3>2 DEF Serves
  <2>. QED
    BY <2>4, <2>5, QuietService
<1>. QED
  BY <1>1, <1>2

\* The thread that made the connection is the only one that holds it.
LEMMA StartService ==
    ASSUME IInv, NEW t \in Thread, Start(t)
    PROVE  \E c \in Conn : Service!Open(c)
<1>1. PICK c \in Conn : on[t] = c
  BY DEF IInv, Types, Holds, Start
<1>2. /\ op[c] = "none" /\ op'[c] = "reading" /\ on' = on
      /\ \A e \in Conn \ {c} : op'[e] = op[e]
      /\ doing[t] = "start" /\ doing'[t] = "started"
      /\ \A u \in Thread \ {t} : doing'[u] = doing[u]
  BY <1>1 DEF IInv, Types, IConn, Start
<1>3. \A u \in Thread : on[u] = c => u = t
  BY <1>1, <1>2 DEF IInv, IConn
<1>4. Turn(c) = "none" /\ Turn(c)' = "request"
  BY <1>2, <1>3 DEF Turn, In
<1>5. \A e \in Conn \ {c} : Turn(e)' = Turn(e)
  BY <1>2, SameTurn DEF SameFor
<1>6. Serves /\ Serves'
  BY <1>2 DEF Serves
<1>. QED
  BY <1>4, <1>5, <1>6 DEF Service!Open, Serves

\* The handlers bound to the strand: what one of them does to the connection.
LEMMA StrandStep ==
    ASSUME IInv, NEW t \in Thread, NEW c \in Conn,
           \/ (Read(t) /\ on[t] = c)
           \/ (Write(t) /\ on[t] = c)
           \/ Enter(t, c)
    PROVE  /\ \A e \in Conn \ {c} : Turn(e)' = Turn(e)
           /\ Serves' <=> Serves
<1>1. /\ \A e \in Conn \ {c} : op'[e] = op[e]
      /\ \A u \in Thread \ {t} : on'[u] = on[u] /\ doing'[u] = doing[u]
      /\ on[t] \in {c, NoConn} /\ on'[t] = c
      /\ doing[t] \notin {"start", "started"} /\ doing'[t] \notin {"start", "started"}
      /\ stopped' = stopped
  BY DEF IInv, Types, Holds, Read, Write, Enter, Takes, server
<1>2. ASSUME NEW e \in Conn, e # c PROVE SameFor(e)
  <2>1. e # NoConn
    BY StrandAssumption
  <2>. QED
    BY <1>1, <1>2, <2>1 DEF SameFor
<1>3. \A e \in Conn \ {c} : Turn(e)' = Turn(e)
  BY <1>2, SameTurn
<1>. QED
  BY <1>1, <1>3 DEF Serves

LEMMA ReadService ==
    ASSUME IInv, NEW t \in Thread, Read(t)
    PROVE  Service!Next \/ UNCHANGED Service!vars
<1>1. PICK c \in Conn : on[t] = c
  BY DEF IInv, Types, Holds, Read
<1>2. PICK o \in {"reading", "writing"} : op' = [op EXCEPT ![c] = o]
  BY <1>1 DEF Read
<1>3. op[c] = "none" /\ op'[c] = o
  BY <1>1, <1>2 DEF IInv, Types, IConn, Read
<1>4. Turn(c) = "request" /\ Turn(c)' = IF o = "reading" THEN "request" ELSE "reply"
  <2>1. In(c, "read")
    BY <1>1 DEF In, Read
  <2>2. ~In(c, "write")
    BY <1>1 DEF In, Read, IInv, IConn
  <2>3. Turn(c) = "request"
    BY <1>3, <2>1, <2>2 DEF Turn
  <2>. QED
    BY <1>3, <2>3 DEF Turn
<1>5. (\A e \in Conn \ {c} : Turn(e)' = Turn(e)) /\ (Serves' <=> Serves)
  BY <1>1, StrandStep
<1>6. CASE o = "reading"
  BY <1>4, <1>5, <1>6, QuietService DEF Service!Next
<1>7. CASE o = "writing"
  <2>1. Service!Answer(c)
    BY <1>4, <1>5, <1>7 DEF Service!Answer, Serves
  <2>. QED
    BY <2>1 DEF Service!Next
<1>. QED
  BY <1>6, <1>7

\* A step that leaves a connection to nobody.
LEMMA CloseService ==
    ASSUME NEW c \in Conn, Turn(c)' = "none",
           \A e \in Conn \ {c} : Turn(e)' = Turn(e), Serves' <=> Serves
    PROVE  Service!Next
<1>1. Service!Close({c})
  BY DEF Service!Close, Serves
<1>2. {c} \in SUBSET Conn
  OBVIOUS
<1>. QED
  BY <1>1, <1>2 DEF Service!Next

LEMMA WriteService ==
    ASSUME IInv, NEW t \in Thread, Write(t)
    PROVE  Service!Next
<1>1. PICK c \in Conn : on[t] = c
  BY DEF IInv, Types, Holds, Write
<1>2. op'[c] = "none" /\ on' = on /\ doing' = [doing EXCEPT ![t] = "leave"]
  BY <1>1 DEF IInv, IConn, Write
<1>3. ASSUME NEW u \in Thread, on'[u] = c PROVE doing'[u] \notin {"read", "write"}
  <2>1. doing'[t] = "leave" /\ (u # t => doing'[u] = doing[u])
    BY <1>2 DEF IInv, Types
  <2>2. IConn(c) /\ on[u] = c /\ doing[t] = "write"
    BY <1>2, <1>3 DEF IInv, Write
  <2>3. doing[u] \in {"read", "write"} => u = t
    BY <1>1, <2>2 DEF IConn
  <2>. QED
    BY <2>1, <2>3
<1>4. Turn(c)' = "none"
  BY <1>2, <1>3 DEF Turn, In
<1>. QED
  BY <1>1, <1>4, StrandStep, CloseService

\* The handler goes on with what its operation was for, or the read has failed.
LEMMA EnterService ==
    ASSUME IInv, NEW t \in Thread, NEW c \in Conn, Enter(t, c)
    PROVE  Service!Next \/ UNCHANGED Service!vars
<1>1. op'[c] = "none" /\ on'[t] = c
  BY DEF IInv, Types, Enter
<1>2. /\ \A u \in Thread \ {t} : on'[u] = c => doing'[u] \notin {"read", "write"}
      /\ doing'[t] = CASE op[c] = "has read" -> "read"
                       [] op[c] = "has written" -> "write"
                       [] OTHER -> "leave"
  BY DEF IInv, Types, Enter, InStrand
<1>3. (\A e \in Conn \ {c} : Turn(e)' = Turn(e)) /\ (Serves' <=> Serves)
  BY StrandStep
<1>4. CASE op[c] = "failed"
  <2>1. doing'[t] = "leave"
    BY <1>2, <1>4
  <2>2. Turn(c)' = "none"
    BY <1>1, <1>2, <2>1 DEF Turn, In
  <2>. QED
    BY <1>3, <2>2, CloseService
<1>5. CASE op[c] \in {"has read", "has written"}
  <2>1. Turn(c)' = Turn(c)
    BY <1>1, <1>2, <1>5 DEF Turn, In
  <2>. QED
    BY <1>3, <2>1, QuietService DEF Service!Next
<1>. QED
  BY <1>4, <1>5 DEF Enter

\* What is still open in the end goes away with the io_context.
LEMMA JoinService ==
    ASSUME IInv, Join
    PROVE  Service!Close(Conn)
<1>1. ASSUME NEW c \in Conn PROVE Turn(c)' = "none"
  BY DEF Join, Turn, In
<1>2. UNCHANGED <<stopped, doing>>
  BY DEF Join
<1>. QED
  BY <1>1, <1>2 DEF Service!Close

LEMMA CompletesService ==
    ASSUME IInv, NEW c \in Conn, SocketCompletes(c)
    PROVE  Service!Stop \/ UNCHANGED Service!vars
<1>1. /\ UNCHANGED <<doing, on, stopped>>
      /\ \A e \in Conn \ {c} : op'[e] = op[e]
      /\ \/ op[c] = "reading" /\ op'[c] \in {"has read", "failed"}
         \/ op[c] = "writing" /\ op'[c] = "has written"
  BY DEF IInv, Types, SocketCompletes, server
<1>2. Turn(c)' = Turn(c)
  BY <1>1 DEF Turn
<1>3. \A e \in Conn \ {c} : Turn(e)' = Turn(e)
  BY <1>1, SameTurn DEF SameFor
<1>. QED
  BY <1>1, <1>2, <1>3, QuietService DEF Serves

LEMMA StepService == IInv /\ [Next]_vars => [Service!Next]_(Service!vars)
<1> SUFFICES ASSUME IInv, [Next]_vars PROVE Service!Next \/ UNCHANGED Service!vars
  OBVIOUS
<1>1. CASE UNCHANGED vars
  <2>1. UNCHANGED <<op, on, doing, stopped>>
    BY <1>1 DEF vars
  <2>2. \A c \in Conn : Turn(c)' = Turn(c)
    BY <2>1, SameTurn DEF SameFor
  <2>. QED
    BY <2>1, <2>2, QuietService DEF Serves, Service!Next
<1>2. CASE \/ AcceptCompletes \/ SignalArrives
           \/ \E t \in Thread : \/ Spawn(t) \/ RunReturns(t) \/ Stop(t) \/ AcceptHandler(t)
                                \/ Started(t) \/ Accept(t) \/ Leave(t)
  BY <1>2, OutsideService DEF Service!Next
<1>3. CASE Join
  <2>1. Conn \in SUBSET Conn
    OBVIOUS
  <2>. QED
    BY <1>3, <2>1, JoinService DEF Service!Next
<1>4. ASSUME NEW c \in Conn, SocketCompletes(c)
      PROVE  Service!Next \/ UNCHANGED Service!vars
  BY <1>4, CompletesService DEF Service!Next
<1>5. ASSUME NEW t \in Thread, Start(t) PROVE Service!Next
  BY <1>5, StartService DEF Service!Next
<1>6. ASSUME NEW t \in Thread, Read(t) \/ Write(t)
      PROVE  Service!Next \/ UNCHANGED Service!vars
  BY <1>6, ReadService, WriteService
<1>7. ASSUME NEW t \in Thread, NEW c \in Conn, Enter(t, c)
      PROVE  Service!Next \/ UNCHANGED Service!vars
  BY <1>7, EnterService
<1>. QED
  BY <1>1, <1>2, <1>3, <1>4, <1>5, <1>6, <1>7 DEF Next, InHandler

\* The server of http3/ implements HttpService: one request and one reply for a
\* connection and none opened after the stop, whichever threads run its handlers.
THEOREM StrandImplementsService == Spec => ImplementsService
BY InitService, StepService, Invariance, PTL
   DEF Spec, ImplementsService, Service!Spec
-----------------------------------------------------------------------------
(* The timers. *)

TimerTypes ==
    /\ count \in Nat
    /\ wait \in [Timer -> {"none", "started", "ready"}]
    /\ strand \in [Timer -> {"strand_", "strand2_"}]
    /\ strand["timer1_"] = "strand_"
    /\ at \in [Runner -> {"unborn", "idle", "check", "load", "store", "wait", "returned"}]
    /\ of \in [Runner -> Timer \cup {NoTimer}]
    /\ loaded \in [Runner -> Nat]

\* Thread t is with a handler exactly while it is at one of its steps, and two
\* handlers that run are bound to different strands.
TimerHandlers ==
    /\ \A t \in Runner : of[t] # NoTimer <=> at[t] \in {"check", "load", "store", "wait"}
    /\ \A t, u \in Runner : of[t] # NoTimer /\ of[u] # NoTimer /\ t # u
                              => strand[of[t]] # strand[of[u]]

\* The first handler of timer2_ is still to come, or has not counted yet.
FirstToCome ==
    /\ strand["timer2_"] = "strand2_"
    /\ \A u \in Runner : of[u] = "timer2_" => at[u] # "wait"

\* timer2_ has ended.
Timer2Ended == wait["timer2_"] = "none" /\ \A t \in Runner : of[t] # "timer2_"

\* What a thread may rely on that has seen a count below the limit, or has loaded
\* the count.
TimerCounting(t) ==
    /\ at[t] \in {"load", "store"} => count <= Max
    /\ at[t] \in {"load", "store"} /\ of[t] = "timer1_" /\ FirstToCome => count < Max
    /\ at[t] = "store" => loaded[t] <= Max
    /\ at[t] = "store" /\ FirstToCome => loaded[t] <= count
    /\ at[t] = "store" /\ FirstToCome /\ of[t] = "timer1_" => loaded[t] = count
    /\ at[t] = "store" /\ of[t] = "timer1_" => count <= loaded[t] + 1
    /\ at[t] = "store" /\ of[t] = "timer2_" /\ ~FirstToCome => loaded[t] = count

\* The inductive invariant.  timer2_ outlasts whatever its first handler did to
\* the count, and when it has ended nobody counts any more.
TimersIInv ==
    /\ TimerTypes
    /\ TimerHandlers
    /\ count <= Max + 1
    /\ \A t \in Runner : TimerCounting(t)
    /\ Timer2Ended => count >= Max /\ \A t \in Runner : at[t] \notin {"load", "store"}
    /\ \A t \in Runner : at[t] = "returned" =>
          /\ \A m \in Timer : wait[m] = "none"
          /\ \A u \in Runner : of[u] = NoTimer

LEMMA InitTimers ==
    TimersInit => TimersIInv
<1> USE TimersAssumption DEF Timer
<1>. SUFFICES ASSUME TimersInit PROVE TimersIInv
  OBVIOUS
<1>1. TimerTypes /\ TimerHandlers
  BY DEF TimersInit, TimerTypes, TimerHandlers
<1>. QED
  BY <1>1 DEF TimersInit, TimersIInv, TimerCounting, Timer2Ended

\* Two threads with a handler each: one runs the first handler of timer2_.
LEMMA TwoTimerHandlers ==
    ASSUME TimersIInv, NEW t \in Runner, NEW u \in Runner, t # u,
           of[t] # NoTimer, of[u] # NoTimer
    PROVE  /\ strand["timer2_"] = "strand2_"
           /\ \/ of[t] = "timer1_" /\ of[u] = "timer2_"
              \/ of[t] = "timer2_" /\ of[u] = "timer1_"
<1>1. of[t] \in Timer /\ of[u] \in Timer /\ strand[of[t]] # strand[of[u]]
  BY DEF TimersIInv, TimerTypes, TimerHandlers
<1>. QED
  BY <1>1 DEF TimersIInv, TimerTypes, Timer

\* A thread at one of the steps of a handler has one.
LEMMA HasTimer ==
    ASSUME TimersIInv, NEW t \in Runner, at[t] \in {"check", "load", "store", "wait"}
    PROVE  of[t] \in Timer /\ at[t] # "returned"
BY DEF TimersIInv, TimerTypes, TimerHandlers

\* As long as the first handler of timer2_ runs and has not counted, FirstToCome holds.
LEMMA FirstStays ==
    ASSUME TimersIInv, NEW t \in Runner, of[t] = "timer2_", at[t] # "wait",
           strand["timer2_"] = "strand2_"
    PROVE  FirstToCome
<1>1. ASSUME NEW u \in Runner, of[u] = "timer2_" PROVE u = t
  BY <1>1, TwoTimerHandlers, TimersAssumption DEF Timer
<1>. QED
  BY <1>1 DEF FirstToCome

\* A step that takes no handler in or out and does not count.
LEMMA SpawnTimers ==
    ASSUME TimersIInv, NEW t \in Runner, StartRun(t)
    PROVE  TimersIInv'
<1>1. /\ UNCHANGED <<count, wait, strand, of, loaded>>
      /\ at' = [at EXCEPT ![t] = "idle"] /\ at[t] = "unborn"
  BY DEF StartRun
<1>2. TimerTypes'
  BY <1>1 DEF TimersIInv, TimerTypes
<1>3. of[t] = NoTimer
  BY <1>1 DEF TimersIInv, TimerHandlers
<1>4. TimerHandlers'
  BY <1>1, <1>3 DEF TimersIInv, TimerHandlers, TimerTypes
<1>5. FirstToCome' <=> FirstToCome
  BY <1>1, <1>3, TimersAssumption DEF FirstToCome, TimersIInv, TimerTypes, Timer
<1>6. ASSUME NEW u \in Runner PROVE TimerCounting(u)'
  BY <1>1, <1>5 DEF TimersIInv, TimerCounting, TimerTypes
<1>7. Timer2Ended' => count' >= Max /\ \A u \in Runner : at'[u] \notin {"load", "store"}
  BY <1>1 DEF TimersIInv, Timer2Ended, TimerTypes
<1>. QED
  BY <1>1, <1>2, <1>4, <1>6, <1>7 DEF TimersIInv, TimerTypes

LEMMA ExpiresTimers ==
    ASSUME TimersIInv, NEW m \in Timer, Expires(m)
    PROVE  TimersIInv'
<1>1. /\ UNCHANGED <<count, strand, at, of, loaded>> /\ wait[m] = "started"
      /\ wait' = [wait EXCEPT ![m] = "ready"]
  BY DEF Expires
<1>2. TimerTypes'
  BY <1>1 DEF TimersIInv, TimerTypes
<1>3. TimerHandlers'
  BY <1>1 DEF TimersIInv, TimerHandlers
<1>4. ASSUME NEW u \in Runner PROVE TimerCounting(u)'
  <2>1. FirstToCome' <=> FirstToCome
    BY <1>1 DEF FirstToCome
  <2>. QED
    BY <1>1, <2>1 DEF TimersIInv, TimerCounting
<1>5. Timer2Ended' => Timer2Ended
  BY <1>1 DEF TimersIInv, Timer2Ended, TimerTypes, Timer
<1>6. \A u \in Runner : at[u] # "returned"
  BY <1>1 DEF TimersIInv
<1>. QED
  BY <1>1, <1>2, <1>3, <1>4, <1>5, <1>6 DEF TimersIInv

LEMMA EnterTimers ==
    ASSUME TimersIInv, NEW t \in Runner, NEW m \in Timer, TakeHandler(t, m)
    PROVE  TimersIInv'
<1>1. /\ UNCHANGED <<count, strand, loaded>> /\ at[t] = "idle" /\ wait[m] = "ready"
      /\ wait' = [wait EXCEPT ![m] = "none"]
      /\ at' = [at EXCEPT ![t] = "check"] /\ of' = [of EXCEPT ![t] = m]
      /\ \A u \in Runner : of[u] # NoTimer => strand[of[u]] # strand[m]
  BY DEF TakeHandler, Handling
<1>2. TimerTypes'
  BY <1>1 DEF TimersIInv, TimerTypes
<1>3. m # NoTimer /\ of[t] = NoTimer
  BY <1>1, TimersAssumption DEF TimersIInv, TimerHandlers
<1>4. TimerHandlers'
  <2>1. \A u \in Runner : of'[u] # NoTimer <=> at'[u] \in {"check", "load", "store", "wait"}
    BY <1>1, <1>3 DEF TimersIInv, TimerHandlers, TimerTypes
  <2>2. ASSUME NEW u \in Runner, NEW v \in Runner, of'[u] # NoTimer, of'[v] # NoTimer, u # v
        PROVE  strand'[of'[u]] # strand'[of'[v]]
    BY <1>1, <1>3, <2>2 DEF TimersIInv, TimerHandlers, TimerTypes
  <2>. QED
    BY <2>1, <2>2 DEF TimerHandlers
<1>5. FirstToCome' <=> FirstToCome
  BY <1>1, <1>3, TimersAssumption DEF FirstToCome, TimersIInv, TimerTypes, Timer
<1>6. ASSUME NEW u \in Runner PROVE TimerCounting(u)'
  <2>1. CASE u = t
    BY <1>1, <2>1 DEF TimerCounting, TimersIInv, TimerTypes
  <2>2. CASE u # t
    BY <1>1, <1>5, <2>2 DEF TimerCounting, TimersIInv, TimerTypes
  <2>. QED
    BY <2>1, <2>2
<1>7. Timer2Ended' => Timer2Ended
  BY <1>1, <1>3, TimersAssumption DEF TimersIInv, Timer2Ended, TimerTypes, Timer
<1>8. \A u \in Runner : at'[u] # "returned"
  BY <1>1 DEF TimersIInv, TimerTypes
<1>9. \A u \in Runner : at'[u] \in {"load", "store"} => at[u] \in {"load", "store"}
  BY <1>1 DEF TimersIInv, TimerTypes
<1>. QED
  BY <1>1, <1>2, <1>4, <1>6, <1>7, <1>8, <1>9 DEF TimersIInv

LEMMA CheckTimers ==
    ASSUME TimersIInv, NEW t \in Runner, Check(t)
    PROVE  TimersIInv'
<1>1. /\ UNCHANGED <<count, wait, strand, loaded>> /\ at[t] = "check"
      /\ of[t] \in Timer /\ of[t] # NoTimer
  BY HasTimer, TimersAssumption DEF Check
<1>2. CASE count < Max
  <2>1. at' = [at EXCEPT ![t] = "load"] /\ of' = of
    BY <1>2 DEF Check
  <2>2. TimerTypes'
    BY <1>1, <2>1 DEF TimersIInv, TimerTypes
  <2>3. TimerHandlers'
    BY <1>1, <2>1 DEF TimersIInv, TimerHandlers, TimerTypes
  <2>4. FirstToCome' <=> FirstToCome
    BY <1>1, <2>1 DEF FirstToCome, TimersIInv, TimerTypes
  <2>5. ASSUME NEW u \in Runner PROVE TimerCounting(u)'
    <3>1. CASE u = t
      BY <1>1, <1>2, <2>1, <3>1, TimersAssumption DEF TimerCounting, TimersIInv, TimerTypes
    <3>2. CASE u # t
      BY <1>1, <2>1, <2>4, <3>2 DEF TimerCounting, TimersIInv, TimerTypes
    <3>. QED
      BY <3>1, <3>2
  <2>6. ~Timer2Ended
    BY <1>2, TimersAssumption DEF TimersIInv, TimerTypes
  <2>7. ~Timer2Ended'
    BY <1>1, <2>1, <2>6 DEF Timer2Ended
  <2>8. \A u \in Runner : at'[u] # "returned"
    BY <1>1, <2>1 DEF TimersIInv, TimerTypes
  <2>. QED
    BY <1>1, <2>2, <2>3, <2>5, <2>7, <2>8 DEF TimersIInv
<1>3. CASE ~(count < Max)
  <2>1. at' = [at EXCEPT ![t] = "idle"] /\ of' = [of EXCEPT ![t] = NoTimer]
    BY <1>3 DEF Check
  <2>2. TimerTypes'
    BY <1>1, <2>1 DEF TimersIInv, TimerTypes
  <2>3. TimerHandlers'
    <3>1. \A u \in Runner : of'[u] # NoTimer <=> at'[u] \in {"check", "load", "store", "wait"}
      BY <2>1 DEF TimersIInv, TimerHandlers, TimerTypes
    <3>2. \A u \in Runner : of'[u] # NoTimer => u # t /\ of'[u] = of[u]
      BY <2>1 DEF TimersIInv, TimerTypes
    <3>. QED
      BY <1>1, <3>1, <3>2 DEF TimersIInv, TimerHandlers
  <2>4. FirstToCome' <=> FirstToCome
    BY <1>1, <2>1, TimersAssumption DEF FirstToCome, TimersIInv, TimerTypes, Timer
  <2>5. ASSUME NEW u \in Runner PROVE TimerCounting(u)'
    <3>1. CASE u = t
      BY <2>1, <3>1 DEF TimerCounting, TimersIInv, TimerTypes
    <3>2. CASE u # t
      BY <1>1, <2>1, <2>4, <3>2 DEF TimerCounting, TimersIInv, TimerTypes
    <3>. QED
      BY <3>1, <3>2
  <2>6. ASSUME of[t] = "timer2_", NEW u \in Runner PROVE at'[u] \notin {"load", "store"}
    <3>1. SUFFICES ASSUME u # t, at[u] \in {"load", "store"} PROVE FALSE
      BY <2>1 DEF TimersIInv, TimerTypes
    <3>2. of[u] \in Timer
      BY <3>1, HasTimer
    <3>3. strand["timer2_"] = "strand2_" /\ of[u] = "timer1_"
      BY <1>1, <2>6, <3>1, <3>2, TwoTimerHandlers, TimersAssumption
    <3>4. FirstToCome
      BY <1>1, <2>6, <3>3, FirstStays
    <3>5. count < Max
      BY <3>1, <3>3, <3>4 DEF TimersIInv, TimerCounting
    <3>. QED
      BY <1>3, <3>5
  <2>7. ASSUME of[t] # "timer2_", Timer2Ended' PROVE Timer2Ended
    BY <1>1, <2>1, <2>7 DEF Timer2Ended, TimersIInv, TimerTypes
  <2>8. count' >= Max
    BY <1>1, <1>3, TimersAssumption DEF TimersIInv, TimerTypes
  <2>9. Timer2Ended' => \A u \in Runner : at'[u] \notin {"load", "store"}
    <3>1. CASE of[t] = "timer2_"
      BY <2>6, <3>1
    <3>2. CASE of[t] # "timer2_"
      BY <2>1, <2>7, <3>2 DEF TimersIInv, TimerTypes
    <3>. QED
      BY <3>1, <3>2
  <2>10. \A u \in Runner : at'[u] # "returned"
    BY <1>1, <2>1 DEF TimersIInv, TimerTypes
  <2>. QED
    BY <1>1, <2>2, <2>3, <2>5, <2>8, <2>9, <2>10 DEF TimersIInv
<1>. QED
  BY <1>2, <1>3

LEMMA LoadTimers ==
    ASSUME TimersIInv, NEW t \in Runner, Load(t)
    PROVE  TimersIInv'
<1>1. /\ UNCHANGED <<count, wait, strand, of>> /\ at[t] = "load"
      /\ at' = [at EXCEPT ![t] = "store"] /\ loaded' = [loaded EXCEPT ![t] = count]
      /\ of[t] \in Timer
  BY HasTimer DEF Load
<1>2. TimerTypes'
  BY <1>1 DEF TimersIInv, TimerTypes
<1>3. TimerHandlers'
  BY <1>1 DEF TimersIInv, TimerHandlers, TimerTypes
<1>4. FirstToCome' <=> FirstToCome
  BY <1>1 DEF FirstToCome, TimersIInv, TimerTypes
<1>5. ASSUME NEW u \in Runner PROVE TimerCounting(u)'
  <2>1. CASE u = t
    <3>1. at'[t] = "store" /\ loaded'[t] = count /\ count \in Nat
      BY <1>1 DEF TimersIInv, TimerTypes
    <3>. QED
      BY <1>1, <1>4, <2>1, <3>1 DEF TimerCounting, TimersIInv
  <2>2. CASE u # t
    BY <1>1, <1>4, <2>2 DEF TimerCounting, TimersIInv, TimerTypes
  <2>. QED
    BY <2>1, <2>2
<1>6. ~Timer2Ended
  BY <1>1 DEF TimersIInv
<1>7. ~Timer2Ended'
  BY <1>1, <1>6 DEF Timer2Ended
<1>8. \A u \in Runner : at'[u] # "returned"
  BY <1>1, HasTimer, TimersAssumption DEF TimersIInv, TimerTypes
<1>. QED
  BY <1>1, <1>2, <1>3, <1>5, <1>7, <1>8 DEF TimersIInv

\* The count never falls behind what another thread will store by more than the
\* one increment of the first handler of timer2_.
LEMMA StoreTimers ==
    ASSUME TimersIInv, NEW t \in Runner, Store(t)
    PROVE  TimersIInv'
<1>1. /\ UNCHANGED <<wait, strand, of, loaded>> /\ at[t] = "store"
      /\ at' = [at EXCEPT ![t] = "wait"] /\ count' = loaded[t] + 1
      /\ of[t] \in Timer /\ of[t] # NoTimer /\ loaded[t] \in Nat /\ loaded[t] <= Max
  BY HasTimer, TimersAssumption DEF Store, TimersIInv, TimerTypes, TimerCounting
<1>2. TimerTypes'
  BY <1>1 DEF TimersIInv, TimerTypes
<1>3. TimerHandlers'
  BY <1>1 DEF TimersIInv, TimerHandlers, TimerTypes
<1>4. count' <= Max + 1
  BY <1>1, TimersAssumption
<1>5. ASSUME NEW u \in Runner PROVE TimerCounting(u)'
  <2>1. CASE u = t
    BY <1>1, <2>1 DEF TimerCounting, TimersIInv, TimerTypes
  <2>2. CASE u # t /\ at[u] \notin {"load", "store"}
    BY <1>1, <2>2 DEF TimerCounting, TimersIInv, TimerTypes
  <2>3. CASE u # t /\ at[u] \in {"load", "store"}
    <3>1. of[u] \in Timer /\ of[u] # NoTimer
      BY <2>3, HasTimer, TimersAssumption
    <3>2. strand["timer2_"] = "strand2_"
      BY <1>1, <2>3, <3>1, TwoTimerHandlers
    <3>3. CASE of[t] = "timer1_" /\ of[u] = "timer2_"
      <4>1. FirstToCome
        BY <2>3, <3>2, <3>3, FirstStays
      <4>2. loaded[t] = count /\ count < Max /\ count \in Nat
        BY <1>1, <3>3, <4>1 DEF TimersIInv, TimerCounting, TimerTypes
      <4>3. FirstToCome' /\ at'[u] = at[u]
        BY <1>1, <2>3, <3>3, <4>1 DEF FirstToCome, TimersIInv, TimerTypes
      <4>4. at[u] = "store" => loaded[u] <= count /\ loaded[u] \in Nat
        BY <4>1 DEF TimersIInv, TimerCounting, TimerTypes
      <4>. QED
        BY <1>1, <3>3, <4>2, <4>3, <4>4, TimersAssumption DEF TimerCounting
    <3>4. CASE of[t] = "timer2_" /\ of[u] = "timer1_"
      <4>1. FirstToCome
        BY <1>1, <3>2, <3>4, FirstStays
      <4>2. count < Max /\ count \in Nat /\ loaded[t] <= count
        BY <1>1, <2>3, <3>4, <4>1 DEF TimersIInv, TimerCounting, TimerTypes
      <4>3. ~FirstToCome' /\ at'[u] = at[u]
        BY <1>1, <2>3, <3>4 DEF FirstToCome, TimersIInv, TimerTypes
      <4>4. at[u] = "store" => loaded[u] = count
        BY <3>4, <4>1 DEF TimersIInv, TimerCounting
      <4>. QED
        BY <1>1, <3>4, <4>2, <4>3, <4>4, TimersAssumption DEF TimerCounting
    <3>. QED
      BY <1>1, <2>3, <3>1, <3>3, <3>4, TwoTimerHandlers
  <2>. QED
    BY <2>1, <2>2, <2>3
<1>6. ~Timer2Ended
  BY <1>1 DEF TimersIInv
<1>7. ~Timer2Ended'
  BY <1>1, <1>6 DEF Timer2Ended
<1>8. \A u \in Runner : at'[u] # "returned"
  BY <1>1 DEF TimersIInv, TimerTypes
<1>. QED
  BY <1>1, <1>2, <1>3, <1>4, <1>5, <1>7, <1>8 DEF TimersIInv

LEMMA WaitTimers ==
    ASSUME TimersIInv, NEW t \in Runner, Wait(t)
    PROVE  TimersIInv'
<1>1. PICK m \in Timer : of[t] = m
  BY HasTimer DEF Wait
<1>2. /\ UNCHANGED <<count, loaded>> /\ at[t] = "wait" /\ m # NoTimer
      /\ wait' = [wait EXCEPT ![m] = "started"]
      /\ strand' = [strand EXCEPT ![m] = "strand_"]
      /\ at' = [at EXCEPT ![t] = "idle"] /\ of' = [of EXCEPT ![t] = NoTimer]
  BY <1>1, TimersAssumption DEF Wait
<1>3. TimerTypes'
  BY <1>2 DEF TimersIInv, TimerTypes
<1>4. \A u \in Runner : of'[u] # NoTimer => u # t /\ of'[u] = of[u] /\ of[u] # m
  BY <1>1, <1>2 DEF TimersIInv, TimerTypes, TimerHandlers
<1>5. TimerHandlers'
  <2>1. \A u \in Runner : of'[u] # NoTimer <=> at'[u] \in {"check", "load", "store", "wait"}
    BY <1>2 DEF TimersIInv, TimerHandlers, TimerTypes
  <2>2. \A u \in Runner : of'[u] # NoTimer => strand'[of'[u]] = strand[of[u]]
    BY <1>2, <1>4 DEF TimersIInv, TimerTypes
  <2>. QED
    BY <1>4, <2>1, <2>2 DEF TimersIInv, TimerHandlers
<1>6. m = "timer2_" => ~FirstToCome /\ ~FirstToCome'
  BY <1>1, <1>2 DEF FirstToCome, TimersIInv, TimerTypes
<1>7. m # "timer2_" => (FirstToCome' <=> FirstToCome)
  BY <1>1, <1>2, TimersAssumption DEF FirstToCome, TimersIInv, TimerTypes, Timer
<1>8. FirstToCome' <=> FirstToCome
  BY <1>6, <1>7
<1>9. ASSUME NEW u \in Runner PROVE TimerCounting(u)'
  <2>1. CASE u = t
    BY <1>2, <2>1 DEF TimerCounting, TimersIInv, TimerTypes
  <2>2. CASE u # t
    BY <1>2, <1>8, <2>2 DEF TimerCounting, TimersIInv, TimerTypes
  <2>. QED
    BY <2>1, <2>2
<1>10. Timer2Ended' => Timer2Ended
  BY <1>1, <1>2, TimersAssumption DEF Timer2Ended, TimersIInv, TimerTypes, Timer
<1>11. \A u \in Runner : at'[u] # "returned"
  BY <1>1, <1>2 DEF TimersIInv, TimerTypes
<1>12. \A u \in Runner : at'[u] \in {"load", "store"} => at[u] \in {"load", "store"}
  BY <1>2 DEF TimersIInv, TimerTypes
<1>. QED
  BY <1>2, <1>3, <1>5, <1>9, <1>10, <1>11, <1>12 DEF TimersIInv

LEMMA RunReturnsTimers ==
    ASSUME TimersIInv, NEW t \in Runner, RunEnds(t)
    PROVE  TimersIInv'
<1>1. /\ UNCHANGED <<count, wait, strand, of, loaded>>
      /\ at[t] = "idle" /\ at' = [at EXCEPT ![t] = "returned"]
      /\ \A m \in Timer : wait[m] = "none"
      /\ \A u \in Runner : of[u] = NoTimer
  BY DEF RunEnds, Handling
<1>2. TimerTypes'
  BY <1>1 DEF TimersIInv, TimerTypes
<1>3. TimerHandlers'
  BY <1>1 DEF TimersIInv, TimerHandlers, TimerTypes
<1>4. ASSUME NEW u \in Runner PROVE at'[u] \notin {"load", "store"} /\ TimerCounting(u)'
  <2>1. at'[u] \notin {"load", "store"}
    BY <1>1, <1>3 DEF TimerHandlers
  <2>. QED
    BY <2>1 DEF TimerCounting
<1>5. Timer2Ended' => Timer2Ended
  BY <1>1 DEF Timer2Ended
<1>. QED
  BY <1>1, <1>2, <1>3, <1>4, <1>5 DEF TimersIInv

LEMMA NextTimers ==
    TimersIInv /\ [TimersNext]_timersVars => TimersIInv'
<1> SUFFICES ASSUME TimersIInv, [TimersNext]_timersVars PROVE TimersIInv'
  OBVIOUS
<1>1. CASE UNCHANGED timersVars
  <2>1. TimerTypes' /\ TimerHandlers' /\ (FirstToCome' <=> FirstToCome) /\ (Timer2Ended' <=> Timer2Ended)
    BY <1>1 DEF TimersIInv, TimerTypes, TimerHandlers, FirstToCome, Timer2Ended,
       timersVars
  <2>2. ASSUME NEW u \in Runner PROVE TimerCounting(u)'
    BY <1>1, <2>1 DEF TimersIInv, TimerCounting, timersVars
  <2>. QED
    BY <1>1, <2>1, <2>2 DEF TimersIInv, timersVars
<1>2. CASE TimersNext
  <2>1. ASSUME NEW t \in Runner, Step(t) PROVE TimersIInv'
    BY <2>1, SpawnTimers, CheckTimers, LoadTimers, StoreTimers, WaitTimers,
       RunReturnsTimers DEF Step
  <2>. QED
    BY <1>2, <2>1, ExpiresTimers, EnterTimers DEF TimersNext
<1>. QED
  BY <1>1, <1>2

LEMMA TimersInvariance ==
    TimersSpec => []TimersIInv
BY InitTimers, NextTimers, PTL DEF TimersSpec
-----------------------------------------------------------------------------
\* printer: whatever the race on count_ loses, the count ends at the limit or one
\* above it.
THEOREM FinalCountCorrect ==
    TimersSpec => []FinalCount
<1>1. ASSUME TimersIInv, \A t \in Runner : at[t] = "returned" PROVE count \in {Max, Max + 1}
  <2>1. PICK t \in Runner : TRUE
    BY TimersAssumption
  <2>2. /\ \A m \in Timer : wait[m] = "none"
        /\ \A u \in Runner : of[u] = NoTimer
    BY <1>1, <2>1 DEF TimersIInv
  <2>3. Timer2Ended
    BY <2>2, TimersAssumption DEF Timer2Ended, Timer
  <2>4. count >= Max /\ count <= Max + 1 /\ count \in Nat
    BY <1>1, <2>3 DEF TimersIInv, TimerTypes
  <2>. QED
    BY <2>4, TimersAssumption
<1>2. TimersIInv => FinalCount
  BY <1>1 DEF FinalCount
<1>. QED
  BY <1>2, TimersInvariance, PTL

\* Once timer2_ is bound to strand_ the count never goes back.
THEOREM CountNeverBack ==
    TimersSpec => NeverBack
<1>1. ASSUME TimersIInv, [TimersNext]_timersVars
      PROVE  [strand["timer2_"] = "strand_" => count' >= count]_timersVars
  <2>1. CASE \E t \in Runner : Store(t)
    <3>1. PICK t \in Runner : Store(t)
      BY <2>1
    <3>2. /\ at[t] = "store" /\ count' = loaded[t] + 1 /\ of[t] \in Timer
          /\ loaded[t] \in Nat /\ count \in Nat
      BY <1>1, <3>1, HasTimer DEF Store, TimersIInv, TimerTypes
    <3>3. ASSUME strand["timer2_"] = "strand_" PROVE count' >= count
      <4>1. ~FirstToCome
        BY <3>3 DEF FirstToCome
      <4>2. CASE of[t] = "timer1_"
        BY <1>1, <3>2, <4>2 DEF TimersIInv, TimerCounting
      <4>3. CASE of[t] = "timer2_"
        BY <1>1, <3>2, <4>1, <4>3 DEF TimersIInv, TimerCounting
      <4>. QED
        BY <3>2, <4>2, <4>3 DEF Timer
    <3>. QED
      BY <3>3
  <2>2. CASE ~\E t \in Runner : Store(t)
    <3>1. count' = count
      BY <1>1, <2>2 DEF TimersNext, Step, StartRun, Expires,
         TakeHandler, Check, Load, Wait, RunEnds,
         timersVars
    <3>2. count \in Nat
      BY <1>1 DEF TimersIInv, TimerTypes
    <3>. QED
      BY <3>1, <3>2
  <2>. QED
    BY <2>1, <2>2
<1>2. [][strand["timer2_"] = "strand_" => count' >= count]_timersVars <=> NeverBack
  BY PTL DEF NeverBack
<1>. QED
  BY <1>1, <1>2, TimersInvariance, PTL DEF TimersSpec
=============================================================================
