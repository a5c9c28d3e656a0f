----------------------------- MODULE TcpServers -----------------------------
(***************************************************************************)
(* The TCP echo and daytime programs of advanced/ and examples/: four echo *)
(* servers, three daytime servers and the clients that go with them.  A    *)
(* behaviour is of one server program.  The servers differ in how many     *)
(* connections they serve at a time (one, a thread for each, or all in one *)
(* io_context), in what an error does to them, and in what keeps an        *)
(* asynchronous write alive.  A byte is its position in the request or in  *)
(* the string, a connection a stream of bytes each way.                    *)
(***************************************************************************)
EXTENDS Naturals, Sequences

CONSTANTS Client,      \* runs of a client program, one connection each
          MaxRequest,  \* bound: the length of a request
          BufferSize,  \* max_length, or the size of buf
          Time         \* what ctime returns

\* Servers that serve one connection after the other, one with a thread for
\* each connection, and those that run handlers.
Iterative == {"daytimesrv", "echo_server"}
Threaded == {"blocking_tcp_echo_server"}
Handlers == {"async_tcp_echo_server", "async_echo_server", "aync_daytimesrc",
             "async_daytimesrc"}
Programs == Iterative \cup Threaded \cup Handlers

Echo == {"echo_server", "blocking_tcp_echo_server", "async_tcp_echo_server",
         "async_echo_server"}

ASSUME ServersAssumption ==
    /\ MaxRequest \in Nat /\ BufferSize \in Nat \ {0}
    /\ Time \in Seq(Nat) /\ Time # <<>>

VARIABLES
  program,  \* the program that is run
  up,       \* its process has not ended
  client,   \* client[c]: "away", "connected", "asked", "done", "failed" or "gone"
  request,  \* request[c]: what client c sent
  upward,   \* upward[c]: bytes on their way to the server
  buffer,   \* buffer[c]: bytes the server read, or made up, and has not written
  downward, \* downward[c]: bytes on their way to the client
  got,      \* got[c]: what client c received
  stage     \* stage[c]: how far the server is with the connection

tcpVars == <<program, up, client, request, upward, buffer, downward, got, stage>>
streams == <<request, upward, buffer, downward, got>>

Rest(s, k) == SubSeq(s, k + 1, Len(s))
Closed(c) == client[c] \in {"done", "failed", "gone"}

TcpInit ==
    /\ program \in Programs
    /\ up = TRUE
    /\ client = [c \in Client |-> "away"]
    /\ request = [c \in Client |-> <<>>]
    /\ upward = [c \in Client |-> <<>>]
    /\ buffer = [c \in Client |-> <<>>]
    /\ downward = [c \in Client |-> <<>>]
    /\ got = [c \in Client |-> <<>>]
    /\ stage = [c \in Client |-> "none"]
-----------------------------------------------------------------------------
(* The clients *)

\* The connection is queued for the server to accept.  daytimecli asks by
\* connecting, the echo clients wait for a line first.
Connect(c) ==
    /\ up
    /\ client[c] = "away"
    /\ client' = [client EXCEPT ![c] = IF program \in Echo THEN "connected" ELSE "asked"]
    /\ stage' = [stage EXCEPT ![c] = "queued"]
    /\ UNCHANGED <<program, up>> /\ UNCHANGED streams

\* The user types a line; the client writes it all.
Ask(c) ==
    /\ client[c] = "connected"
    /\ client' = [client EXCEPT ![c] = "asked"]
    /\ \E n \in 0 .. MaxRequest :
          /\ request' = [request EXCEPT ![c] = [i \in 1 .. n |-> i]]
          /\ upward' = [upward EXCEPT ![c] = [i \in 1 .. n |-> i]]
    /\ UNCHANGED <<program, up, buffer, downward, got, stage>>

Receive(c) ==
    /\ client[c] = "asked"
    /\ \E k \in 1 .. Len(downward[c]) :
          /\ got' = [got EXCEPT ![c] = @ \o SubSeq(downward[c], 1, k)]
          /\ downward' = [downward EXCEPT ![c] = Rest(@, k)]
    /\ UNCHANGED <<program, up, client, request, upward, buffer, stage>>

\* An echo client reads as many bytes as it sent; daytimecli reads up to the
\* end of the stream, which to an echo client is an error.
Finish(c) ==
    /\ client[c] = "asked"
    /\ \/ /\ program \in Echo /\ Len(got[c]) = Len(request[c])
          /\ client' = [client EXCEPT ![c] = "done"]
       \/ /\ program \notin Echo /\ stage[c] = "closed" /\ downward[c] = <<>>
          /\ client' = [client EXCEPT ![c] = "done"]
    /\ UNCHANGED <<program, up, stage>> /\ UNCHANGED streams

\* The connection ends before that, or is reset before it was accepted.
Fails(c) ==
    /\ client[c] = "asked"
    /\ \/ program \in Echo /\ Len(got[c]) < Len(request[c])
          /\ stage[c] = "closed" /\ downward[c] = <<>>
       \/ stage[c] = "reset"
    /\ client' = [client EXCEPT ![c] = "failed"]
    /\ UNCHANGED <<program, up, stage>> /\ UNCHANGED streams

\* The client is killed, and its connection reset.
Killed(c) ==
    /\ client[c] \in {"connected", "asked"}
    /\ client' = [client EXCEPT ![c] = "gone"]
    /\ UNCHANGED <<program, up, stage>> /\ UNCHANGED streams
-----------------------------------------------------------------------------
(* The servers *)

\* An exception that nothing catches, or that main catches: the process ends
\* and the system closes its connections and resets those not accepted yet.
Dies ==
    /\ up' = FALSE
    /\ stage' = [c \in Client |-> CASE stage[c] = "none" -> "none"
                                   [] stage[c] = "queued" -> "reset"
                                   [] OTHER -> "closed"]

End(c) == up' = up /\ stage' = [stage EXCEPT ![c] = "closed"]

\* A thread is in the loop of session(), or main in the write of daytimesrv.
InSession(c) == stage[c] \in {"reading", "writing", "spinning"}

\* accept, or its handler: a connection is taken if the server is free.
Accepts(c) ==
    /\ up
    /\ stage[c] = "queued"
    /\ program \in Iterative => \A d \in Client : ~InSession(d)

\* start() of an echo session, or the call of session().  async_echo_server
\* prints the peer's address first, which throws if the peer is gone.
StartEcho(c) ==
    /\ Accepts(c) /\ program \in Echo
    /\ \/ up' = up /\ stage' = [stage EXCEPT ![c] = "reading"]
       \/ program = "async_echo_server" /\ client[c] = "gone" /\ Dies
    /\ UNCHANGED <<program, client>> /\ UNCHANGED streams

\* The string is made and its write started; in aync_daytimesrc the string is in
\* the connection, which the handler of the write holds.
StartDaytime(c) ==
    /\ Accepts(c) /\ program \in {"daytimesrv", "aync_daytimesrc"}
    /\ buffer' = [buffer EXCEPT ![c] = Time]
    /\ stage' = [stage EXCEPT ![c] = "writing"]
    /\ UNCHANGED <<program, up, client, request, upward, downward, got>>

\* async_daytimesrc: the string is a temporary and nothing but the handler of
\* the accept holds the connection.  What the socket takes at once is written;
\* then the connection goes away, with a write that waits for the socket
\* aborted and one that has more to write left without both.
StartUnheld(c) ==
    /\ Accepts(c) /\ program = "async_daytimesrc"
    /\ \E k \in 0 .. Len(Time) :
          /\ downward' = [downward EXCEPT ![c] = SubSeq(Time, 1, k)]
          /\ stage' = [stage EXCEPT ![c] = IF k \in {0, Len(Time)} THEN "closed" ELSE "dangling"]
    /\ UNCHANGED <<program, up, client, request, upward, buffer, got>>

\* async_write goes on with a socket and a string that are gone: it fails or
\* the process crashes.
Dangling(c) ==
    /\ up /\ stage[c] = "dangling"
    /\ End(c) \/ Dies
    /\ UNCHANGED <<program, client>> /\ UNCHANGED streams

\* accept throws in the blocking servers.  The handlers of the others go on to
\* the next accept, which changes nothing here.
AcceptFails ==
    /\ up /\ program \in Iterative \cup Threaded
    /\ program \in Iterative => \A d \in Client : ~InSession(d)
    /\ Dies
    /\ UNCHANGED <<program, client>> /\ UNCHANGED streams

\* read_some gives some bytes; all of them are to be written.
Read(c) ==
    /\ up /\ stage[c] = "reading"
    /\ \E k \in 1 .. Len(upward[c]) :
          /\ k <= BufferSize
          /\ buffer' = [buffer EXCEPT ![c] = SubSeq(upward[c], 1, k)]
          /\ upward' = [upward EXCEPT ![c] = Rest(@, k)]
    /\ stage' = [stage EXCEPT ![c] = "writing"]
    /\ UNCHANGED <<program, up, client, request, downward, got>>

\* Faulty form of ReadEnds: echo_server, too, goes on in its loop.
ReadEndsLoops(c) ==
    /\ up /\ stage[c] = "reading"
    /\ Closed(c)
    /\ upward[c] = <<>> \/ client[c] = "gone"
    /\ IF program \in Threaded \cup Iterative
       THEN up' = up /\ stage' = [stage EXCEPT ![c] = "spinning"]
       ELSE End(c)
    /\ UNCHANGED <<program, client>> /\ UNCHANGED streams

\* read_some meets the end of the stream, or an error when the client was
\* killed.  The session ends; that of blocking_tcp_echo_server closes the socket
\* and goes on reading from it.
ReadEnds(c) ==
    /\ up /\ stage[c] = "reading"
    /\ Closed(c)
    /\ upward[c] = <<>> \/ client[c] = "gone"
    /\ IF program \in Threaded
       THEN up' = up /\ stage' = [stage EXCEPT ![c] = "spinning"]
       ELSE End(c)
    /\ UNCHANGED <<program, client>> /\ UNCHANGED streams

\* Faulty form of Write: what is left is taken from the front of the buffer.
WriteRepeats(c) ==
    /\ up /\ stage[c] = "writing"
    /\ \E k \in 1 .. Len(buffer[c]) :
          /\ downward' = [downward EXCEPT ![c] = @ \o SubSeq(buffer[c], 1, k)]
          /\ buffer' = [buffer EXCEPT ![c] = SubSeq(@, 1, Len(@) - k)]
          /\ stage' = [stage EXCEPT ![c] =
                IF k < Len(buffer[c]) THEN "writing"
                ELSE IF program \in Echo THEN "reading" ELSE "closed"]
    /\ UNCHANGED <<program, up, client, request, upward, got>>

\* Faulty form of Write: an echo session is over when it wrote once.
WriteStops(c) ==
    /\ up /\ stage[c] = "writing"
    /\ \E k \in 1 .. Len(buffer[c]) :
          /\ downward' = [downward EXCEPT ![c] = @ \o SubSeq(buffer[c], 1, k)]
          /\ buffer' = [buffer EXCEPT ![c] = Rest(@, k)]
          /\ stage' = [stage EXCEPT ![c] = IF k < Len(buffer[c]) THEN "writing" ELSE "closed"]
    /\ UNCHANGED <<program, up, client, request, upward, got>>

\* write goes on until all is written; then an echo session reads again and the
\* connection of a daytime server is over.
Write(c) ==
    /\ up /\ stage[c] = "writing"
    /\ \E k \in 1 .. Len(buffer[c]) :
          /\ downward' = [downward EXCEPT ![c] = @ \o SubSeq(buffer[c], 1, k)]
          /\ buffer' = [buffer EXCEPT ![c] = Rest(@, k)]
          /\ stage' = [stage EXCEPT ![c] =
                IF k < Len(buffer[c]) THEN "writing"
                ELSE IF program \in Echo THEN "reading" ELSE "closed"]
    /\ UNCHANGED <<program, up, client, request, upward, got>>

\* write fails: an exception, which echo_server catches in the session and
\* blocking_tcp_echo_server nowhere, or an error code that ends the connection.
WriteFails(c) ==
    /\ up /\ stage[c] = "writing"
    /\ client[c] = "gone"
    /\ IF program \in Threaded THEN Dies ELSE End(c)
    /\ UNCHANGED <<program, client>> /\ UNCHANGED streams

Serve(c) == StartEcho(c) \/ StartDaytime(c) \/ StartUnheld(c)

TcpNext ==
    \/ AcceptFails
    \/ \E c \in Client :
          \/ Connect(c) \/ Ask(c) \/ Receive(c) \/ Finish(c) \/ Fails(c) \/ Killed(c)
          \/ Serve(c) \/ Read(c) \/ ReadEnds(c) \/ Write(c) \/ WriteFails(c)
          \/ Dangling(c)

TcpSpec == TcpInit /\ [][TcpNext]_tcpVars

\* Clients read what comes and servers go on with what they can do; a user need
\* not type, and nothing need fail.
TcpFairSpec ==
    /\ TcpSpec
    /\ \A c \in Client :
          /\ WF_tcpVars(Receive(c)) /\ WF_tcpVars(Finish(c)) /\ WF_tcpVars(Fails(c))
          /\ WF_tcpVars(Serve(c)) /\ WF_tcpVars(Dangling(c))
          /\ WF_tcpVars(Read(c) \/ ReadEnds(c)) /\ WF_tcpVars(Write(c) \/ WriteFails(c))
-----------------------------------------------------------------------------
Owed(c) == IF program \in Echo THEN request[c] ELSE Time

\* However the streams are cut into reads and writes, no byte is lost, repeated
\* or swapped on its way through the server's one buffer, and a client that came
\* to its end has all it is owed; but async_daytimesrc may send less.
NoByteLost ==
    \A c \in Client :
        /\ stage[c] \in {"reading", "writing"} =>
              got[c] \o downward[c] \o buffer[c] \o upward[c] = Owed(c)
        /\ client[c] = "done" /\ program # "async_daytimesrc" => got[c] = Owed(c)

\* The server for one client at a time is taken by one whose user has typed
\* nothing yet.
Taken == \E d \in Client : /\ program = "echo_server"
                           /\ stage[d] = "reading" /\ client[d] = "connected"

\* A client that has asked is answered, unless it is killed, the server has
\* ended, or is taken for good.
Answered ==
    \A c \in Client :
        ((client[c] = "asked") ~> (client[c] \in {"done", "gone"} \/ ~up)) \/ <>[]Taken

\* The connection of a client that is gone is given up, and the thread goes on
\* to another one; blocking_tcp_echo_server's does not.
Released ==
    \A c \in Client :
        (Closed(c) /\ stage[c] \in {"reading", "writing"} /\ program \notin Threaded)
            ~> (stage[c] = "closed")
=============================================================================
