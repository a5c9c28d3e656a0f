----------------------------- MODULE HttpStrand -----------------------------
(***************************************************************************)
(* http3/: server and connection, one io_context run by a pool of threads. *)
(* Any thread runs any handler; those of a connection are bound to its     *)
(* strand, except start(), which the handler of the accept calls.  A       *)
(* handler is taken, works on the connection, starts the next operation    *)
(* and leaves; the operation may complete before it has left.              *)
(***************************************************************************)
EXTENDS FiniteSets, Naturals

CONSTANTS Thread,  \* the threads of the pool, thread_pool_size_ of them
          Conn,    \* connection objects that exist at the same time
          NoConn   \* no connection

ASSUME StrandAssumption == NoConn \notin Conn

VARIABLES
  op,        \* op[c]: the operation on the socket of c, or its result
  accepting, \* async_accept: "none", "started", "ok" or "error"
  signals,   \* async_wait on signals_: "started", "ready" or "none"
  stopped,   \* io_context_.stop() was called
  doing,     \* doing[t]: where thread t is
  on,        \* on[t]: the connection whose shared_ptr thread t holds
  main       \* main "waits" in run() for the threads, or has "ended"

vars == <<op, accepting, signals, stopped, doing, on, main>>
server == <<accepting, signals, stopped, main>>

\* Threads that run a handler bound to the strand of c, and threads that read or
\* write members of c.
InStrand(c) == {t \in Thread : on[t] = c /\ doing[t] \in {"read", "write", "leave"}}
Using(c) == {t \in Thread : on[t] = c /\ doing[t] \in {"start", "read", "write"}}

\* Something holds the connection's shared_ptr.
Alive(c) == op[c] # "none" \/ \E t \in Thread : on[t] = c

\* The constructor of server started both waits; run() spawns the threads.
Init ==
    /\ op = [c \in Conn |-> "none"]
    /\ accepting = "started"
    /\ signals = "started"
    /\ stopped = FALSE
    /\ doing = [t \in Thread |-> "unborn"]
    /\ on = [t \in Thread |-> NoConn]
    /\ main = "waits"

Spawn(t) ==
    /\ doing[t] = "unborn"
    /\ doing' = [doing EXCEPT ![t] = "idle"]
    /\ UNCHANGED <<op, on>> /\ UNCHANGED server
-----------------------------------------------------------------------------
(* The network *)

AcceptCompletes ==
    /\ accepting = "started"
    /\ accepting' \in {"ok", "error"}
    /\ UNCHANGED <<op, signals, stopped, doing, on, main>>

SignalArrives ==
    /\ signals = "started"
    /\ signals' = "ready"
    /\ UNCHANGED <<op, accepting, stopped, doing, on, main>>

SocketCompletes(c) ==
    /\ \/ op[c] = "reading" /\ \E r \in {"has read", "failed"} : op' = [op EXCEPT ![c] = r]
       \/ op[c] = "writing" /\ op' = [op EXCEPT ![c] = "has written"]
    /\ UNCHANGED <<doing, on>> /\ UNCHANGED server
-----------------------------------------------------------------------------
(* The threads *)

\* Thread t is in run() and takes the next handler.
Takes(t) == doing[t] = "idle" /\ ~stopped

\* do_accept's handler is entered, and the connection made.
AcceptHandler(t) ==
    /\ Takes(t)
    /\ accepting \in {"ok", "error"}
    /\ accepting' = "none"
    /\ IF accepting = "ok"
       THEN \E c \in Conn : /\ ~Alive(c)
                            /\ on' = [on EXCEPT ![t] = c]
                            /\ doing' = [doing EXCEPT ![t] = "start"]
       ELSE doing' = [doing EXCEPT ![t] = "accept"] /\ UNCHANGED on
    /\ UNCHANGED <<op, signals, stopped, main>>

\* start(): the read is started, outside the strand.
Start(t) ==
    /\ doing[t] = "start"
    /\ op' = [op EXCEPT ![on[t]] = "reading"]
    /\ doing' = [doing EXCEPT ![t] = "started"]
    /\ UNCHANGED on /\ UNCHANGED server

\* The shared_ptr made by the handler goes away.
Started(t) ==
    /\ doing[t] = "started"
    /\ on' = [on EXCEPT ![t] = NoConn]
    /\ doing' = [doing EXCEPT ![t] = "accept"]
    /\ UNCHANGED op /\ UNCHANGED server

\* do_accept.
Accept(t) ==
    /\ doing[t] = "accept"
    /\ accepting' = "started"
    /\ doing' = [doing EXCEPT ![t] = "idle"]
    /\ UNCHANGED <<op, signals, stopped, on, main>>

\* A handler of c is entered, when no other one bound to its strand is running.
\* The handler of a failed read leaves at once.
Enter(t, c) ==
    /\ Takes(t)
    /\ InStrand(c) = {}
    /\ op[c] \in {"has read", "failed", "has written"}
    /\ op' = [op EXCEPT ![c] = "none"]
    /\ on' = [on EXCEPT ![t] = c]
    /\ doing' = [doing EXCEPT ![t] = CASE op[c] = "has read" -> "read"
                                       [] op[c] = "has written" -> "write"
                                       [] OTHER -> "leave"]
    /\ UNCHANGED server

\* Faulty form of Read: the next read is started before the request at hand is
\* parsed and replied to.
ReadAhead(t) ==
    /\ doing[t] = "read"
    /\ \/ /\ op[on[t]] = "none"
          /\ op' = [op EXCEPT ![on[t]] = "reading"]
          /\ UNCHANGED doing
       \/ /\ doing' = [doing EXCEPT ![t] = "leave"]
          /\ UNCHANGED op
    /\ UNCHANGED on /\ UNCHANGED server

\* Faulty form of Read: the handler waits itself for the operation it started.
ReadWaits(t) ==
    /\ doing[t] = "read"
    /\ op[on[t]] = "none"
    /\ \E o \in {"reading", "writing"} : op' = [op EXCEPT ![on[t]] = o]
    /\ UNCHANGED <<doing, on>> /\ UNCHANGED server

\* do_read's handler parses what was read and starts the next operation: a read
\* if the request is incomplete, otherwise the write of the reply.
Read(t) ==
    /\ doing[t] = "read"
    /\ \E o \in {"reading", "writing"} : op' = [op EXCEPT ![on[t]] = o]
    /\ doing' = [doing EXCEPT ![t] = "leave"]
    /\ UNCHANGED on /\ UNCHANGED server

\* Faulty form of Write: the connection is kept for another request.
WriteKeeps(t) ==
    /\ doing[t] = "write"
    /\ op' = [op EXCEPT ![on[t]] = "reading"]
    /\ doing' = [doing EXCEPT ![t] = "leave"]
    /\ UNCHANGED on /\ UNCHANGED server

\* do_write's handler shuts the connection down.
Write(t) ==
    /\ doing[t] = "write"
    /\ doing' = [doing EXCEPT ![t] = "leave"]
    /\ UNCHANGED <<op, on>> /\ UNCHANGED server

\* The handler returns and is destroyed, its shared_ptr with it.
Leave(t) ==
    /\ doing[t] = "leave"
    /\ on' = [on EXCEPT ![t] = NoConn]
    /\ doing' = [doing EXCEPT ![t] = "idle"]
    /\ UNCHANGED op /\ UNCHANGED server

\* do_await_stop's handler.
Stop(t) ==
    /\ Takes(t)
    /\ signals = "ready"
    /\ signals' = "none"
    /\ stopped' = TRUE
    /\ UNCHANGED <<op, accepting, doing, on, main>>

\* io_context::run() returns in thread t: it does not run out of work, since an
\* accept is always outstanding or in a handler.
RunReturns(t) ==
    /\ doing[t] = "idle" /\ stopped
    /\ doing' = [doing EXCEPT ![t] = "returned"]
    /\ UNCHANGED <<op, on>> /\ UNCHANGED server

\* run() has joined all threads; the io_context is destroyed, and with it the
\* handlers it holds.
Join ==
    /\ main = "waits"
    /\ \A t \in Thread : doing[t] = "returned"
    /\ main' = "ended"
    /\ op' = [c \in Conn |-> "none"]
    /\ accepting' = "none"
    /\ signals' = "none"
    /\ UNCHANGED <<stopped, doing, on>>

InHandler(t) == Start(t) \/ Started(t) \/ Accept(t) \/ Read(t) \/ Write(t) \/ Leave(t)

Next ==
    \/ AcceptCompletes \/ SignalArrives \/ Join
    \/ \E c \in Conn : SocketCompletes(c)
    \/ \E t \in Thread :
          \/ Spawn(t) \/ RunReturns(t) \/ Stop(t)
          \/ AcceptHandler(t) \/ InHandler(t)
          \/ \E c \in Conn : Enter(t, c)

Spec == Init /\ [][Next]_vars

\* Every thread goes on, and the queues of the io_context and of the strands are
\* first in, first out: no handler waits forever for its turn.
FairSpec ==
    /\ Spec
    /\ WF_vars(Join)
    /\ \A t \in Thread :
          WF_vars(Spawn(t)) /\ WF_vars(RunReturns(t)) /\ WF_vars(InHandler(t))
    /\ SF_vars(\E t \in Thread : AcceptHandler(t))
    /\ SF_vars(\E t \in Thread : Stop(t))
    /\ \A c \in Conn : SF_vars(\E t \in Thread : Enter(t, c))
-----------------------------------------------------------------------------
\* Whoever works on a connection's buffer, parser, request and reply, in a
\* handler or in start(), is alone: no other thread does, and no operation is
\* outstanding that would use the buffer or the reply.
Alone == \A c \in Conn : Using(c) # {} => Cardinality(Using(c)) = 1 /\ op[c] = "none"

\* "Run the server until stopped": after a signal every thread leaves run(), the
\* ones in the middle of a handler included, and main ends.
EndsWhenSignalled == (signals = "ready") ~> (main = "ended")

-----------------------------------------------------------------------------
\* How far a connection is, for HttpService: its operation tells, or else the
\* thread that is in its handler.
In(c, where) == \E t \in Thread : on[t] = c /\ doing[t] = where

Turn(c) ==
    CASE op[c] \in {"reading", "has read", "failed"} -> "request"
      [] op[c] \in {"writing", "has written"} -> "reply"
      [] op[c] = "none" /\ In(c, "read") -> "request"
      [] op[c] = "none" /\ In(c, "write") -> "reply"
      [] OTHER -> "none"

\* A thread that has accepted a connection still starts it after the stop.
Service == INSTANCE HttpService WITH
    turn <- [c \in Conn |-> Turn(c)],
    serves <- ~stopped \/ \E t \in Thread : doing[t] \in {"start", "started"}

\* One request and one reply for a connection, and no connection after the stop,
\* whichever threads run its handlers.
ImplementsService == Service!Spec
=============================================================================
