----------------------------- MODULE ForkServer -----------------------------
(***************************************************************************)
(* advanced/process_per_con.cpp and process_per_connection.cpp: an echo    *)
(* server that forks a process per connection and reaps the children that  *)
(* ended.  The parent and each child run one thread and one io_context; a  *)
(* child starts with a copy of the parent's, the outstanding wait for      *)
(* SIGCHLD included.  The two programs differ in what follows a fork()     *)
(* that fails; a behaviour is of one of them.                              *)
(***************************************************************************)
CONSTANT Child  \* processes that exist at the same time

VARIABLES
  program,     \* "process_per_con" or "process_per_connection"
  prepared,    \* the parent's io_context was left prepared for a fork that failed
  accepting,   \* the parent's async_accept: "none", "started", "ok" or "error"
  wait,        \* the parent's async_wait on signal_: "started" or "ready"
  sigchld,     \* SIGCHLD is pending, for one exit or for several
  undelivered, \* Asio has caught a SIGCHLD that no wait was started for
  proc,        \* proc[p]: "none", "runs" or "zombie"
  childwait,   \* childwait[p]: the wait in the child: "none", "started" or "ready"
  session,     \* session[p]: the operation on the child's socket_, or its result
  client       \* client[p]: the client of the child is "here" or "gone"

vars == <<program, prepared, accepting, wait, sigchld, undelivered, proc, childwait, session, client>>
signal == <<wait, sigchld, undelivered>>
child == <<proc, childwait, session, client>>

\* The constructor of server started both waits.
Init ==
    /\ program \in {"process_per_con", "process_per_connection"}
    /\ prepared = FALSE
    /\ accepting = "started"
    /\ wait = "started"
    /\ sigchld = FALSE
    /\ undelivered = FALSE
    /\ proc = [p \in Child |-> "none"]
    /\ childwait = [p \in Child |-> "none"]
    /\ session = [p \in Child |-> "none"]
    /\ client = [p \in Child |-> "gone"]
-----------------------------------------------------------------------------
(* The network, the kernel and Asio *)

AcceptCompletes ==
    /\ accepting = "started"
    /\ accepting' \in {"ok", "error"}
    /\ UNCHANGED <<program, prepared>> /\ UNCHANGED signal /\ UNCHANGED child

\* The wait completes, or the signal is kept for the next one.
Deliver ==
    /\ sigchld
    /\ sigchld' = FALSE
    /\ IF wait = "started" THEN wait' = "ready" /\ UNCHANGED undelivered
                           ELSE undelivered' = TRUE /\ UNCHANGED wait
    /\ UNCHANGED <<program, prepared, accepting>> /\ UNCHANGED child

ClientGone(p) ==
    /\ client[p] = "here"
    /\ client' = [client EXCEPT ![p] = "gone"]
    /\ UNCHANGED <<program, prepared, accepting, proc, childwait, session>> /\ UNCHANGED signal

\* An operation completes; it fails at last when the client is gone.
SocketCompletes(p) ==
    /\ proc[p] = "runs"
    /\ \/ session[p] = "reading" /\ \E r \in {"read", "failed"} : session' = [session EXCEPT ![p] = r]
       \/ session[p] = "writing" /\ \E r \in {"written", "failed"} : session' = [session EXCEPT ![p] = r]
    /\ UNCHANGED <<program, prepared, accepting, proc, childwait, client>> /\ UNCHANGED signal
-----------------------------------------------------------------------------
(* The parent *)

\* signal_.async_wait, in the handler of the wait: it completes at once when a
\* signal was caught meanwhile, perhaps not the last one.
Rewait ==
    IF undelivered THEN wait' = "ready" /\ undelivered' \in BOOLEAN
                   ELSE wait' = "started" /\ UNCHANGED undelivered

\* Faulty form of Reap: waitpid is called once.
ReapOne ==
    IF \E p \in Child : proc[p] = "zombie"
    THEN \E p \in Child : proc[p] = "zombie" /\ proc' = [proc EXCEPT ![p] = "none"]
    ELSE UNCHANGED proc

\* The loop over waitpid.
Reap == proc' = [p \in Child |-> IF proc[p] = "zombie" THEN "none" ELSE proc[p]]

\* wait_for_signal's handler in the parent, where the acceptor is open.
Signalled ==
    /\ wait = "ready"
    /\ Reap
    /\ Rewait
    /\ UNCHANGED <<program, prepared, accepting, sigchld, childwait, session, client>>

AcceptFails ==
    /\ accepting = "error"
    /\ accepting' = "started"
    /\ UNCHANGED <<program, prepared>> /\ UNCHANGED signal /\ UNCHANGED child

\* accept's handler with a connection: the child closes its acceptor, cancels
\* its copy of the wait, so that the handler of that, too, is queued, and reads;
\* the parent closes the socket and accepts again.
Fork(p) ==
    /\ accepting = "ok"
    /\ proc[p] = "none"
    /\ accepting' = "started"
    /\ proc' = [proc EXCEPT ![p] = "runs"]
    /\ childwait' = [childwait EXCEPT ![p] = "ready"]
    /\ session' = [session EXCEPT ![p] = "reading"]
    /\ client' = [client EXCEPT ![p] = "here"]
    /\ UNCHANGED <<program, prepared>> /\ UNCHANGED signal

\* Faulty form of ForkFails: process_per_con.cpp, too, has no branch for it.
ForkFailsUnseen ==
    /\ accepting = "ok"
    /\ accepting' = "none"
    /\ prepared' = (program = "process_per_connection")
    /\ UNCHANGED program /\ UNCHANGED signal /\ UNCHANGED child

\* accept's handler when fork() fails: as in the parent.  In
\* process_per_connection.cpp neither branch is taken: accept() is not called, nor
\* notify_fork to recreate what fork_prepare has cleaned up.
ForkFails ==
    /\ accepting = "ok"
    /\ accepting' = IF program = "process_per_con" THEN "started" ELSE "none"
    /\ prepared' = (program = "process_per_connection")
    /\ UNCHANGED program /\ UNCHANGED signal /\ UNCHANGED child

Parent == Signalled \/ AcceptFails \/ ForkFails \/ \E p \in Child : Fork(p)
-----------------------------------------------------------------------------
(* A child *)

\* Faulty form of ChildSignalled: the handler waits again, as in the parent.
ChildSignalledAgain(p) ==
    /\ proc[p] = "runs" /\ childwait[p] = "ready"
    /\ childwait' = [childwait EXCEPT ![p] = "started"]
    /\ UNCHANGED <<program, prepared, accepting, proc, session, client>> /\ UNCHANGED signal

\* wait_for_signal's handler in the child, where the acceptor is closed.
ChildSignalled(p) ==
    /\ proc[p] = "runs" /\ childwait[p] = "ready"
    /\ childwait' = [childwait EXCEPT ![p] = "none"]
    /\ UNCHANGED <<program, prepared, accepting, proc, session, client>> /\ UNCHANGED signal

\* The handlers of read and write: on an error nothing more is started.
Echo(p) ==
    /\ proc[p] = "runs"
    /\ \/ session[p] = "read" /\ session' = [session EXCEPT ![p] = "writing"]
       \/ session[p] = "written" /\ session' = [session EXCEPT ![p] = "reading"]
       \/ session[p] = "failed" /\ session' = [session EXCEPT ![p] = "none"]
    /\ UNCHANGED <<program, prepared, accepting, proc, childwait, client>> /\ UNCHANGED signal

\* io_context::run() returns in the child, which ends.
Exit(p) ==
    /\ proc[p] = "runs" /\ childwait[p] = "none" /\ session[p] = "none"
    /\ proc' = [proc EXCEPT ![p] = "zombie"]
    /\ sigchld' = TRUE
    /\ client' = [client EXCEPT ![p] = "gone"]
    /\ UNCHANGED <<program, prepared, accepting, wait, undelivered, childwait, session>>

ChildStep(p) == ChildSignalled(p) \/ Echo(p) \/ Exit(p)

Next ==
    \/ AcceptCompletes \/ Deliver \/ Parent
    \/ \E p \in Child : ClientGone(p) \/ SocketCompletes(p) \/ ChildStep(p)

Spec == Init /\ [][Next]_vars

\* process_per_connection.cpp after a fork() that failed.
Stranded == prepared

\* Every process runs its queued handlers; signals are delivered, but need not be
\* to a parent whose io_context was left prepared for a fork; what a client that
\* is gone had sent is read at last.  Clients need not go, or come.
FairSpec ==
    /\ Spec
    /\ WF_vars(~Stranded /\ Deliver)
    /\ WF_vars(Signalled) /\ WF_vars(AcceptFails)
    /\ WF_vars(ForkFails \/ \E p \in Child : Fork(p))
    /\ \A p \in Child :
          /\ WF_vars(ChildSignalled(p)) /\ WF_vars(Echo(p)) /\ WF_vars(Exit(p))
          /\ SF_vars(client[p] = "gone" /\ SocketCompletes(p) /\ session'[p] = "failed")
-----------------------------------------------------------------------------
\* "Reap completed child processes so that we don't end up with zombies": a fork()
\* that failed in process_per_connection.cpp may end that for good.
Reaped ==
    \A p \in Child : (proc[p] = "zombie") ~> (proc[p] = "none" \/ Stranded)

\* The child of a client that went away ends, although it was born with a wait
\* for a signal that keeps an io_context running.
ChildEnds ==
    \A p \in Child : (proc[p] = "runs" /\ client[p] = "gone") ~> (proc[p] # "runs")

\* The parent accepts again after every accept, whatever became of it; that of
\* process_per_connection.cpp does not once fork() has failed.
KeepsAccepting ==
    (accepting \in {"ok", "error"}) ~> (accepting = "started" \/ Stranded)
=============================================================================
