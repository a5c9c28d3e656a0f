------------------------------- MODULE Timers -------------------------------
(***************************************************************************)
(* examples/timer1.cpp: two timers whose handlers count together, in one   *)
(* io_context run by two threads.  The handlers are bound to a strand, but *)
(* the first one of the second timer to another strand than the rest.  A   *)
(* handler reads count_, reads it again and writes it for ++count_, and    *)
(* then starts its timer's next wait; another thread may come in between.  *)
(***************************************************************************)
EXTENDS Naturals, FiniteSets

CONSTANTS Runner,  \* the threads in io_context::run(): main's and t
          Max,     \* what the timers count to, 100 in the code
          NoTimer  \* no timer

Timer == {"timer1_", "timer2_"}

ASSUME TimersAssumption ==
    /\ Max \in Nat \ {0} /\ NoTimer \notin Timer
    /\ Runner # {}

VARIABLES
  count,  \* count_
  wait,   \* wait[m]: async_wait of timer m: "none", "started" or "ready"
  strand, \* strand[m]: the strand the handler of timer m is bound to
  at,     \* at[t]: where thread t is
  of,     \* of[t]: the timer whose handler thread t is in
  loaded  \* loaded[t]: count_ as thread t read it for ++count_

timersVars == <<count, wait, strand, at, of, loaded>>

Handling == {t \in Runner : of[t] # NoTimer}

\* The constructor of printer started both waits.
TimersInit ==
    /\ count = 0
    /\ wait = [m \in Timer |-> "started"]
    /\ strand = [m \in Timer |-> IF m = "timer1_" THEN "strand_" ELSE "strand2_"]
    /\ at = [t \in Runner |-> "unborn"]
    /\ of = [t \in Runner |-> NoTimer]
    /\ loaded = [t \in Runner |-> 0]

StartRun(t) ==
    /\ at[t] = "unborn"
    /\ at' = [at EXCEPT ![t] = "idle"]
    /\ UNCHANGED <<count, wait, strand, of, loaded>>

Expires(m) ==
    /\ wait[m] = "started"
    /\ wait' = [wait EXCEPT ![m] = "ready"]
    /\ UNCHANGED <<count, strand, at, of, loaded>>

\* Thread t enters the handler of timer m, when no handler that is bound to the
\* same strand is running.
TakeHandler(t, m) ==
    /\ at[t] = "idle"
    /\ wait[m] = "ready"
    /\ \A u \in Handling : strand[of[u]] # strand[m]
    /\ wait' = [wait EXCEPT ![m] = "none"]
    /\ at' = [at EXCEPT ![t] = "check"]
    /\ of' = [of EXCEPT ![t] = m]
    /\ UNCHANGED <<count, strand, loaded>>

\* count_ < 100, or the handler returns and its timer is not started again.
Check(t) ==
    /\ at[t] = "check"
    /\ IF count < Max
       THEN at' = [at EXCEPT ![t] = "load"] /\ UNCHANGED of
       ELSE at' = [at EXCEPT ![t] = "idle"] /\ of' = [of EXCEPT ![t] = NoTimer]
    /\ UNCHANGED <<count, wait, strand, loaded>>

\* ++count_ reads
Load(t) ==
    /\ at[t] = "load"
    /\ loaded' = [loaded EXCEPT ![t] = count]
    /\ at' = [at EXCEPT ![t] = "store"]
    /\ UNCHANGED <<count, wait, strand, of>>

\* and writes.
Store(t) ==
    /\ at[t] = "store"
    /\ count' = loaded[t] + 1
    /\ at' = [at EXCEPT ![t] = "wait"]
    /\ UNCHANGED <<wait, strand, of, loaded>>

\* Faulty form of Wait: no further wait is started.
WaitNot(t) ==
    /\ at[t] = "wait"
    /\ at' = [at EXCEPT ![t] = "idle"]
    /\ of' = [of EXCEPT ![t] = NoTimer]
    /\ UNCHANGED <<count, wait, strand, loaded>>

\* Faulty form of Wait: the two strands are confused.
WaitOther(t) ==
    /\ at[t] = "wait"
    /\ wait' = [wait EXCEPT ![of[t]] = "started"]
    /\ strand' = [strand EXCEPT ![of[t]] = IF of[t] = "timer1_" THEN "strand2_" ELSE "strand_"]
    /\ at' = [at EXCEPT ![t] = "idle"]
    /\ of' = [of EXCEPT ![t] = NoTimer]
    /\ UNCHANGED <<count, loaded>>

\* expires_at and async_wait, on strand_ for both timers, and the handler returns.
Wait(t) ==
    /\ at[t] = "wait"
    /\ wait' = [wait EXCEPT ![of[t]] = "started"]
    /\ strand' = [strand EXCEPT ![of[t]] = "strand_"]
    /\ at' = [at EXCEPT ![t] = "idle"]
    /\ of' = [of EXCEPT ![t] = NoTimer]
    /\ UNCHANGED <<count, loaded>>

\* io_context::run() returns when no wait and no handler is left.
RunEnds(t) ==
    /\ at[t] = "idle"
    /\ \A m \in Timer : wait[m] = "none"
    /\ Handling = {}
    /\ at' = [at EXCEPT ![t] = "returned"]
    /\ UNCHANGED <<count, wait, strand, of, loaded>>

Step(t) ==
    \/ StartRun(t) \/ Check(t) \/ Load(t) \/ Store(t) \/ Wait(t) \/ RunEnds(t)

TimersNext ==
    \/ \E m \in Timer : Expires(m)
    \/ \E t \in Runner : Step(t) \/ \E m \in Timer : TakeHandler(t, m)

TimersSpec == TimersInit /\ [][TimersNext]_timersVars

\* Timers expire, threads go on, and a strand is first in, first out.
TimersFairSpec ==
    /\ TimersSpec
    /\ \A m \in Timer :
          WF_timersVars(Expires(m)) /\ SF_timersVars(\E t \in Runner : TakeHandler(t, m))
    /\ \A t \in Runner : WF_timersVars(Step(t))
-----------------------------------------------------------------------------
\* The count printed at the end: increments may be lost where the two handlers
\* overlap, but the timers go on until Max, and overshoot it by one at most.
FinalCount == (\A t \in Runner : at[t] = "returned") => count \in {Max, Max + 1}

\* The first handler of timer2_ may set the count back by any number, with a
\* value it read long ago; once that handler is over the count never goes back,
\* not even by a handler of timer1_ that overlapped with it.
NeverBack == [][strand["timer2_"] = "strand_" => count' >= count]_timersVars
=============================================================================
