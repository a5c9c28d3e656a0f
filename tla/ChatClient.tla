----------------------------- MODULE ChatClient -----------------------------
(***************************************************************************)
(* advanced/chat_client.cpp: the main thread reads lines and posts them to *)
(* an io_context that a second thread runs; everything on the socket       *)
(* happens in that second thread.  An operation on the socket completes    *)
(* ("ready") before its handler runs, and close() can come in between.     *)
(***************************************************************************)
EXTENDS Naturals, Sequences

CONSTANTS MaxLine,   \* bound: lines the user types
          MaxRead    \* bound: messages the server sends

ASSUME ClientAssumption == MaxLine \in Nat /\ MaxRead \in Nat

VARIABLES
  main,        \* main thread: "input", "joining" or "done"
  typed,       \* history: lines main passed to write()
  posted,      \* handlers posted to the io_context, oldest first
  io,          \* the thread t: "running" or "returned" from ioc.run()
  conn,        \* sock_: "connecting", "refused", "open" or "closed"
  connecting,  \* async_connect: "started", "ok", "error" or "none"
  reading,     \* async_read: <<what, "started" or "ready">>, or "none"
  received,    \* history: messages read completely
  write_msgs,  \* write_msgs_
  writing,     \* async_writes that are started, and that are ready
  sent         \* history: lines whose async_write succeeded

vars == <<main, typed, posted, io, conn, connecting, reading, received,
          write_msgs, writing, sent>>

None == <<"none", "none">>

Init ==
    /\ main = "input"
    /\ typed = <<>>
    /\ posted = <<>>
    /\ io = "running"
    /\ conn = "connecting"
    /\ connecting = "started"
    /\ reading = None
    /\ received = 0
    /\ write_msgs = <<>>
    /\ writing = [started |-> 0, ready |-> 0]
    /\ sent = <<>>

socket == <<conn, connecting, reading, received, write_msgs, writing, sent>>
-----------------------------------------------------------------------------
(* The main thread. *)

\* A line becomes a message; write() posts it.
TypeLine ==
    /\ main = "input"
    /\ Len(typed) < MaxLine
    /\ typed' = Append(typed, Len(typed) + 1)
    /\ posted' = Append(posted, <<"write", Len(typed) + 1>>)
    /\ UNCHANGED <<main, io>> /\ UNCHANGED socket

\* The input ends: close() posts its handler, then main joins the thread.
EndInput ==
    /\ main = "input"
    /\ main' = "joining"
    /\ posted' = Append(posted, <<"close", 0>>)
    /\ UNCHANGED <<typed, io>> /\ UNCHANGED socket

Joined ==
    /\ main = "joining"
    /\ io = "returned"
    /\ main' = "done"
    /\ UNCHANGED <<typed, posted, io>> /\ UNCHANGED socket
-----------------------------------------------------------------------------
(* The network: outstanding operations complete. *)

\* The connect succeeds, or fails: at once if the socket was closed meanwhile.
ConnectReady ==
    /\ connecting = "started"
    /\ \/ /\ conn = "connecting" /\ conn' = "open" /\ connecting' = "ok"
       \/ /\ conn = "connecting" /\ conn' = "refused" /\ connecting' = "error"
       \/ /\ conn = "closed" /\ conn' = conn /\ connecting' = "error"
    /\ UNCHANGED <<main, typed, posted, io, reading, received, write_msgs,
                   writing, sent>>

ReadReady ==
    /\ reading[2] = "started"
    /\ conn = "open"
    /\ reading[1] = "body" => received < MaxRead
    /\ reading' = <<reading[1], "ready">>
    /\ UNCHANGED <<main, typed, posted, io, conn, connecting, received,
                   write_msgs, writing, sent>>

WriteReady ==
    /\ writing.started > 0
    /\ conn = "open"
    /\ writing' = [started |-> writing.started - 1, ready |-> writing.ready + 1]
    /\ UNCHANGED <<main, typed, posted, io, conn, connecting, reading, received,
                   write_msgs, sent>>
-----------------------------------------------------------------------------
(* The handlers, run by the thread t. *)

\* do_connect's handler: without an error start reading, else do nothing.
Connected ==
    /\ io = "running"
    /\ connecting \in {"ok", "error"}
    /\ connecting' = "none"
    /\ reading' = IF connecting = "ok" THEN <<"header", "started">> ELSE reading
    /\ UNCHANGED <<main, typed, posted, io, conn, received, write_msgs,
                   writing, sent>>

\* do_read_header's handler without an error.
ReadHeader ==
    /\ io = "running"
    /\ reading = <<"header", "ready">>
    /\ reading' = <<"body", "started">>
    /\ UNCHANGED <<main, typed, posted, io, conn, connecting, received,
                   write_msgs, writing, sent>>

\* do_read_body's handler without an error: print and go on.
ReadBody ==
    /\ io = "running"
    /\ reading = <<"body", "ready">>
    /\ reading' = <<"header", "started">>
    /\ received' = received + 1
    /\ UNCHANGED <<main, typed, posted, io, conn, connecting, write_msgs,
                   writing, sent>>

\* A read handler with an error (the server is gone, the header does not
\* decode, the socket was closed) closes the socket.
ReadFails ==
    /\ io = "running"
    /\ reading[2] = "started" \/ reading = <<"header", "ready">>
    /\ reading' = None
    /\ conn' = "closed"
    /\ UNCHANGED <<main, typed, posted, io, connecting, received, write_msgs,
                   writing, sent>>

\* write()'s posted handler: queue the message, start writing unless a write
\* is in progress.
RunWrite ==
    /\ io = "running"
    /\ posted # <<>> /\ Head(posted)[1] = "write"
    /\ posted' = Tail(posted)
    /\ write_msgs' = Append(write_msgs, Head(posted)[2])
    /\ writing' = [writing EXCEPT !.started = IF write_msgs = <<>> THEN @ + 1 ELSE @]
    /\ UNCHANGED <<main, typed, io, conn, connecting, reading, received, sent>>

\* close()'s posted handler.  `sock_,close();` names the socket and calls
\* close(), which posts the handler again.
RunClose ==
    /\ io = "running"
    /\ posted # <<>> /\ Head(posted)[1] = "close"
    /\ posted' = Append(Tail(posted), <<"close", 0>>)
    /\ UNCHANGED <<main, typed, io, conn, connecting, reading, received,
                   write_msgs, writing, sent>>

\* Faulty form of Written: the next write is not started.
WrittenStops ==
    /\ io = "running"
    /\ writing.ready > 0
    /\ sent' = Append(sent, Head(write_msgs))
    /\ write_msgs' = Tail(write_msgs)
    /\ writing' = [writing EXCEPT !.ready = @ - 1]
    /\ UNCHANGED <<main, typed, posted, io, conn, connecting, reading, received>>

\* do_write's handler without an error: go on with the next message.
Written ==
    /\ io = "running"
    /\ writing.ready > 0
    /\ sent' = Append(sent, Head(write_msgs))
    /\ write_msgs' = Tail(write_msgs)
    /\ writing' = [started |-> writing.started + (IF Len(write_msgs) > 1 THEN 1 ELSE 0),
                   ready |-> writing.ready - 1]
    /\ UNCHANGED <<main, typed, posted, io, conn, connecting, reading, received>>

\* Faulty form of WriteFails: the failed message makes room for the next.
WriteFailsPops ==
    /\ io = "running"
    /\ writing.started > 0
    /\ writing' = [writing EXCEPT !.started = @ - 1]
    /\ conn' = "closed"
    /\ write_msgs' = Tail(write_msgs)
    /\ UNCHANGED <<main, typed, posted, io, connecting, reading, received, sent>>

\* do_write's handler with an error closes the socket; the queue keeps the
\* message, so that later ones only queue up behind it.  A write started while
\* the connect goes on fails too when the next endpoint is tried.
WriteFails ==
    /\ io = "running"
    /\ writing.started > 0
    /\ writing' = [writing EXCEPT !.started = @ - 1]
    /\ conn' = "closed"
    /\ UNCHANGED <<main, typed, posted, io, connecting, reading, received,
                   write_msgs, sent>>

\* ioc.run() returns when nothing is posted and nothing outstanding.
RunReturns ==
    /\ io = "running"
    /\ posted = <<>>
    /\ connecting = "none" /\ reading = None
    /\ writing.started = 0 /\ writing.ready = 0
    /\ io' = "returned"
    /\ UNCHANGED <<main, typed, posted>> /\ UNCHANGED socket

Handler == \/ Connected \/ ReadHeader \/ ReadBody \/ ReadFails
           \/ RunWrite \/ RunClose \/ Written \/ WriteFails \/ RunReturns

Next == \/ TypeLine \/ EndInput \/ Joined
        \/ ConnectReady \/ ReadReady \/ WriteReady
        \/ Handler

Spec == Init /\ [][Next]_vars

\* The thread runs what is posted or ready.  The peer, a chat_server, always
\* reads, so that a connect and a write come to an end one way or the other;
\* a read of a closed socket does.  The user ends the input some day.  The steps
\* named together follow one another, one of them is possible at a time.
Fairness ==
    /\ WF_vars(ConnectReady \/ Connected)
    /\ WF_vars(WriteReady \/ WriteFails \/ Written)
    /\ WF_vars(\/ reading[2] = "ready" /\ (ReadHeader \/ ReadBody)
               \/ conn = "closed" /\ ReadFails)
    /\ WF_vars(RunWrite \/ RunClose \/ RunReturns)
    /\ WF_vars(EndInput \/ Joined)

FairSpec == Spec /\ Fairness
-----------------------------------------------------------------------------
\* The lines still posted: once the input has ended close() is posted, too,
\* behind them.
PostedLines ==
    [i \in 1 .. Len(posted) - (IF main = "input" THEN 0 ELSE 1) |-> posted[i][2]]

\* The lines handed from the main thread to the io thread are sent in the order
\* typed, each of them once; those not sent are queued or posted.
LinesInOrder == typed = sent \o write_msgs \o PostedLines

\* main ends with c.close() and t.join(): the client is meant to terminate
\* when its input does.
JoinReturns == (main = "joining") ~> (main = "done")
=============================================================================
