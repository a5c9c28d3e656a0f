------------------------------ MODULE HttpPool ------------------------------
(***************************************************************************)
(* http2/: server, io_context_pool and connection.  Every io_context is    *)
(* run by one thread; the signal set lives in the first, the acceptor in   *)
(* the next, and connections are dealt out in turn.  main spawns the       *)
(* threads, joins them and destroys the server.  The handlers that other   *)
(* threads can observe half way, the acceptor's and the signal set's, take *)
(* several steps; those of a connection are run by its own thread only.    *)
(***************************************************************************)
EXTENDS Integers

CONSTANTS PoolSize,  \* pool_size
          MaxConn    \* bound: connection objects made (the last is not handled)

ASSUME PoolAssumption == PoolSize \in Nat \ {0} /\ MaxConn \in Nat \ {0}

VARIABLES
  next,      \* next_io_context_
  made,      \* connection objects made; the last is new_connection_
  ctx,       \* ctx[c]: the io_context connection c was made for
  op,        \* op[c]: the operation outstanding on the socket of c, or its result
  accepting, \* async_accept into new_connection_, or its result
  signals,   \* async_wait on signals_: "started", "ready" or "none"
  stopped,   \* io_contexts whose stop() was called
  thread,    \* thread[i]: "none", "running" or "returned"
  at,        \* at[i]: what thread i is in the middle of
  walk,      \* the io_context stop() comes to next
  main       \* what main is doing

vars == <<next, made, ctx, op, accepting, signals, stopped, thread, at,
          walk, main>>

Context == 0 .. PoolSize - 1
Conn == 1 .. MaxConn

\* The io_contexts of the signal set and of the acceptor.
SignalCtx == 0
AcceptCtx == 1 % PoolSize

\* get_io_context: next_io_context_ after it.
Advance(n) == IF n + 1 = PoolSize THEN 0 ELSE n + 1

\* The constructor took an io_context for the signal set, for the acceptor and
\* for the first connection, and started both waits.
Init ==
    /\ next = Advance(Advance(Advance(0)))
    /\ made = 1
    /\ ctx = [c \in Conn |-> IF c = 1 THEN Advance(AcceptCtx) ELSE 0]
    /\ op = [c \in Conn |-> "fresh"]
    /\ accepting = "started"
    /\ signals = "started"
    /\ stopped = {}
    /\ thread = [i \in Context |-> "none"]
    /\ at = [i \in Context |-> "idle"]
    /\ walk = 0
    /\ main = "spawn"

conns == <<next, made, ctx, op, accepting>>
pool == <<signals, stopped, thread, at, walk, main>>
-----------------------------------------------------------------------------
(* io_context_pool::run() and the end of main *)

\* The threads are spawned in order.
Spawn(i) ==
    /\ main = "spawn"
    /\ thread[i] = "none" /\ \A j \in 0 .. i - 1 : thread[j] # "none"
    /\ thread' = [thread EXCEPT ![i] = "running"]
    /\ main' = IF i = PoolSize - 1 THEN "join" ELSE "spawn"
    /\ UNCHANGED <<signals, stopped, at, walk>> /\ UNCHANGED conns

\* Faulty form of Join: only the last thread is waited for.
JoinLast ==
    /\ main = "join"
    /\ thread[PoolSize - 1] = "returned"
    /\ main' = "joined"
    /\ UNCHANGED <<signals, stopped, thread, at, walk>> /\ UNCHANGED conns

\* All threads are joined, one after the other.
Join ==
    /\ main = "join"
    /\ \A i \in Context : thread[i] = "returned"
    /\ main' = "joined"
    /\ UNCHANGED <<signals, stopped, thread, at, walk>> /\ UNCHANGED conns

\* run() of an io_context returns when it was stopped: its work guard is kept.
RunReturns(i) ==
    /\ thread[i] = "running" /\ at[i] = "idle"
    /\ i \in stopped
    /\ thread' = [thread EXCEPT ![i] = "returned"]
    /\ UNCHANGED <<signals, stopped, at, walk, main>> /\ UNCHANGED conns

\* ~server: new_connection_, acceptor_ and signals_, then the pool, whose
\* io_contexts destroy the handlers they still hold.
Destroy ==
    /\ main = "joined"
    /\ main' = "destroyed"
    /\ op' = [c \in Conn |-> IF op[c] = "fresh" THEN "fresh" ELSE "none"]
    /\ accepting' = "none"
    /\ signals' = "none"
    /\ UNCHANGED <<next, made, ctx, stopped, thread, at, walk>>
-----------------------------------------------------------------------------
(* The network *)

AcceptCompletes ==
    /\ accepting = "started"
    /\ accepting' \in {"ok", "error"}
    /\ UNCHANGED <<next, made, ctx, op>> /\ UNCHANGED pool

SignalArrives ==
    /\ signals = "started"
    /\ signals' = "ready"
    /\ UNCHANGED <<stopped, thread, at, walk, main>> /\ UNCHANGED conns

\* A read or a write completes, with a result or an error.
SocketCompletes(c) ==
    /\ \/ op[c] = "reading" /\ \E r \in {"read", "failed"} : op' = [op EXCEPT ![c] = r]
       \/ op[c] = "writing" /\ op' = [op EXCEPT ![c] = "written"]
    /\ UNCHANGED <<next, made, ctx, accepting>> /\ UNCHANGED pool
-----------------------------------------------------------------------------
(* The handlers *)

\* Thread i is in run() and takes the next handler.
Takes(i) == thread[i] = "running" /\ at[i] = "idle" /\ i \notin stopped

\* do_accept's handler is entered; the acceptor is never closed.
AcceptHandler ==
    /\ Takes(AcceptCtx)
    /\ accepting \in {"ok", "error"} /\ made < MaxConn
    /\ at' = [at EXCEPT ![AcceptCtx] = IF accepting = "ok" THEN "start" ELSE "accept"]
    /\ accepting' = "none"
    /\ UNCHANGED <<next, made, ctx, op, signals, stopped, thread, walk, main>>

\* new_connection_->start(), by the thread of the acceptor: from here on the
\* thread of the connection may run the handler of its read.
Start ==
    /\ at[AcceptCtx] = "start"
    /\ op' = [op EXCEPT ![made] = "reading"]
    /\ at' = [at EXCEPT ![AcceptCtx] = "accept"]
    /\ UNCHANGED <<next, made, ctx, accepting, signals, stopped, thread, walk, main>>

\* do_accept: a new connection on the next io_context, and the next accept.
Accept ==
    /\ at[AcceptCtx] = "accept"
    /\ made' = made + 1
    /\ ctx' = [ctx EXCEPT ![made + 1] = next]
    /\ next' = Advance(next)
    /\ accepting' = "started"
    /\ at' = [at EXCEPT ![AcceptCtx] = "idle"]
    /\ UNCHANGED <<op, signals, stopped, thread, walk, main>>

\* do_await_stop's handler is entered.
StopHandler ==
    /\ Takes(SignalCtx)
    /\ signals = "ready"
    /\ signals' = "none"
    /\ at' = [at EXCEPT ![SignalCtx] = "stop"]
    /\ UNCHANGED <<stopped, thread, walk, main>> /\ UNCHANGED conns

\* Faulty form of Stop: the loop ends one io_context early.
StopShort ==
    /\ at[SignalCtx] = "stop"
    /\ stopped' = IF walk < PoolSize - 1 THEN stopped \cup {walk} ELSE stopped
    /\ walk' = walk + 1
    /\ at' = IF walk' = PoolSize THEN [at EXCEPT ![SignalCtx] = "idle"] ELSE at
    /\ UNCHANGED <<signals, thread, main>> /\ UNCHANGED conns

\* io_context_pool::stop() stops the next io_context, whether or not its thread
\* has been spawned.
Stop ==
    /\ at[SignalCtx] = "stop"
    /\ stopped' = stopped \cup {walk}
    /\ walk' = walk + 1
    /\ at' = IF walk' = PoolSize THEN [at EXCEPT ![SignalCtx] = "idle"] ELSE at
    /\ UNCHANGED <<signals, thread, main>> /\ UNCHANGED conns

\* do_read's handler: an error ends the connection, an incomplete request is
\* read on, any other one is replied to.
ReadHandler(c) ==
    /\ Takes(ctx[c])
    /\ \/ op[c] = "read" /\ \E o \in {"reading", "writing"} : op' = [op EXCEPT ![c] = o]
       \/ op[c] = "failed" /\ op' = [op EXCEPT ![c] = "none"]
    /\ UNCHANGED <<next, made, ctx, accepting>> /\ UNCHANGED pool

\* Faulty form of WriteHandler: the connection is kept for another request.
WriteHandlerKeeps(c) ==
    /\ Takes(ctx[c])
    /\ op[c] = "written"
    /\ op' = [op EXCEPT ![c] = "reading"]
    /\ UNCHANGED <<next, made, ctx, accepting>> /\ UNCHANGED pool

\* do_write's handler: shut down, and the last shared_ptr goes away.
WriteHandler(c) ==
    /\ Takes(ctx[c])
    /\ op[c] = "written"
    /\ op' = [op EXCEPT ![c] = "none"]
    /\ UNCHANGED <<next, made, ctx, accepting>> /\ UNCHANGED pool

Main == Join \/ Destroy \/ \E i \in Context : Spawn(i)

Thread(i) ==
    \/ RunReturns(i)
    \/ i = AcceptCtx /\ (AcceptHandler \/ Start \/ Accept)
    \/ i = SignalCtx /\ (StopHandler \/ Stop)
    \/ \E c \in Conn : ctx[c] = i /\ (ReadHandler(c) \/ WriteHandler(c))

Next ==
    \/ Main
    \/ AcceptCompletes \/ SignalArrives
    \/ \E c \in Conn : SocketCompletes(c)
    \/ \E i \in Context : Thread(i)

Spec == Init /\ [][Next]_vars

\* main and every thread go on; run() takes the handlers of its io_context in
\* turn, so none waits forever.  The network and signals need not do anything.
FairSpec ==
    /\ Spec
    /\ WF_vars(Main)
    /\ \A i \in Context : WF_vars(RunReturns(i))
    /\ WF_vars(Start) /\ WF_vars(Accept) /\ WF_vars(Stop)
    /\ SF_vars(AcceptHandler) /\ SF_vars(StopHandler)
    /\ \A c \in Conn : SF_vars(ReadHandler(c) \/ WriteHandler(c))
-----------------------------------------------------------------------------
\* The server is destroyed only when no thread is inside a handler or can enter
\* one: handlers use the acceptor, the pool and the request handler.
DestroyedLast ==
    main = "destroyed" => \A i \in Context : thread[i] = "returned" /\ at[i] = "idle"

\* "Run the server until stopped": a signal ends main, whatever is outstanding,
\* even if it comes before all threads are spawned.
EndsWhenSignalled == (signals = "ready") ~> (main = "destroyed")
-----------------------------------------------------------------------------
\* How far a connection is, for HttpService.
Turn(c) ==
    CASE op[c] \in {"reading", "read", "failed"} -> "request"
      [] op[c] \in {"writing", "written"} -> "reply"
      [] OTHER -> "none"

\* The acceptor's thread opens connections until it is out of its handler with
\* its io_context stopped.
Service == INSTANCE HttpService WITH
    turn <- [c \in Conn |-> Turn(c)],
    serves <- AcceptCtx \notin stopped \/ at[AcceptCtx] # "idle"

\* One request and one reply for a connection, and no connection after the stop,
\* although start() and the handlers of a connection run in different threads.
ImplementsService == Service!Spec
=============================================================================
