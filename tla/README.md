# TLA+ models of asio-examples

The repository is a collection of network programs written on Boost.Asio: a
chat server and its client, three builds of one HTTP server with three ways of
using threads, echo and daytime programs over tcp and udp, a server with its own
handler memory, a server that forks per connection, and small timer programs. This
directory holds TLA+ models of the programs whose behaviour depends on the order in
which handlers, threads, signals, processes and datagrams come, TLC configurations that
check them on small instances, and theorems that hold for every value of the constants:
all safety properties that the runs check and the refinements of the abstract specifications.

Paths below are relative to the repository. `PROJECT.json` lists for every
definition of a model the lines it stands for.

## 1. The system

### What all programs share

A program starts asynchronous operations on sockets, acceptors, timers and signal
sets. An operation *completes* (with a result or an error) at a moment the
network or the kernel chooses; later a thread inside `io_context::run()` takes
its *handler* and runs it with that result. Between the two, other handlers run.
Closing an object aborts the operations on it that have not completed; those
that have keep their result. Objects are kept alive by the `shared_ptr` that the
handler of an outstanding operation captures (`self`). `run()` returns when
nothing is outstanding and nothing queued, or after `stop()`.

The models of section 3 spell out exactly this much of Asio. What Asio, the C++
library and the kernel do is marked `external` in `PROJECT.json` and modelled
from how the programs use it.

### Components

| Component | State | Operations | Interacts with | Hard part | What makes it correct |
|---|---|---|---|---|---|
| chat server (`advanced/chat_server.cpp`) | `chat_room`: participants, the last 100 messages. `chat_session`: socket, message being read, queue of messages to write | accept and join with replay, deliver, leave, header and body reads, writes, their errors | sessions through the room; clients through sockets | `deliver` on a session comes from other sessions' handlers while a write is under way; a session has two chains that fail separately | one write at a time, from the front of the queue; gap-free ordered streams; leaving is final; sessions end |
| chat message (`advanced/chat_message.hpp`) | a 4-character header and a body | `body_length`, `encode_header`, `decode_header` | both chat programs | text, `int` and `size_t` in one conversion | the reader never loses step, never reads beyond its buffer |
| chat client (`advanced/chat_client.cpp`) | queue of lines to write, socket, message being read | `write`, `close` (posted by main), connect, reads, writes | two threads of one process; the server | lines typed before, while and after the connection breaks; the end | lines sent once and in order; the client ends |
| HTTP server, one thread (`http/server`, `connection_manager`, `connection`) | acceptor, signal set, set of connections, per connection a socket, a buffer, a request, a reply | accept, signal, read, reply, `stop`, `stop_all` | the manager holds connections, connections call the manager | handlers of operations that completed before the stop run after it | nothing survives the stop; connections are released; the reply does not change while it is written |
| request parser (`request_parser`) | a state, the request so far | `consume` of one character, `parse` of a chunk | connection | any cut into chunks, any character anywhere | accepts exactly the requests; fields are clean; no access to a header that is not there |
| request handler (`request_handler`, `mime_types`, `reply`) | none | `handle_request`, `url_decode`, `to_buffers` | connection, file system | decode, then check, then open what `c_str()` leaves | what is opened keeps to the checks; the reply frames the whole file |
| HTTP server, a pool of `io_context`s (`http2/`) | a thread and a work guard per context, the round robin | `run`, `stop`, `get_io_context`, accept, `start`, read, write | one thread starts what another handles | stop while threads are being spawned; destruction | the server outlives its threads; a signal ends it; results are handled |
| HTTP server, a pool of threads (`http3/`) | one context, a strand per connection | as above | any thread runs any handler | completion before the starting handler has left; `start` outside the strand | one thread at a time on a connection |
| allocation server (`advanced/allocation_server.cpp`) | per session 1024 bytes of storage and `in_use_` | `allocate`, `deallocate`, read, write | Asio allocates through the handler | the memory is in the object that the handler in that memory keeps alive | storage outlives its block; no heap; no leak |
| process per connection (`advanced/process_per_con.cpp`, `process_per_connection.cpp`) | acceptor, signal set, one socket; a copy of it all in each child | accept and fork, wait for SIGCHLD, read, write | parent and children through signals | signals merge; the child inherits the parent's wait; fork fails | no zombies; children end; the parent goes on accepting |
| timer1 (`examples/timer1.cpp`) | two timers, one count | `print1`, `print2` | two threads | a handler bound to the wrong strand races on the count | the count ends at the limit, give or take what the race allows |
| the other timer programs | a timer, at most a count | | | none: one thread | |
| echo servers and their client (`advanced/async_tcp_echo_server.cpp`, `advanced/blocking_tcp_echo_server.cpp`, `examples/async_echo_server.cpp`, `examples/echo_server.cpp`) | per session a socket and one buffer | accept, read, write, the loops of the blocking ones, `remote_endpoint()` of a peer that is gone | client and server over streams cut anywhere | the buffer is read into again only when all of it was written; what an error ends: a handler, a thread, the process | no byte lost, repeated or swapped; clients answered; connections of lost clients given up |
| daytime servers (`examples/daytimesrv.cpp`, `async_daytimesrc.cpp`, `aync_daytimesrc.cpp`) | the string that is written | accept, one write | client and server | what keeps the string and the socket of an asynchronous write alive | the client gets the whole string |
| udp programs (`advanced/blocking_udp_echo_*.cpp`, `examples/udpdaytime*.cpp`) | a socket; the server one buffer and one sender endpoint | one datagram each way | client and server over a network that loses, repeats and reorders | nobody looks at who sent a datagram; nothing is sent again | a client's answer is its own; only a loss keeps a client waiting |


`request_parser`, `request_handler`, `reply`, `mime_types`, `request.hpp` and
`header.hpp` are byte for byte the same in `http/`, `http2/` and `http3/`.

There are no tests and the repository's own README is empty; comments and the
code are the only statements of intent.

## 2. The plan

Order, most important behaviour first; what is done is marked.

1. **done** `ChatServer`, `ChatBroadcast` and `ChatServerProofs`: the program with
   the richest interleaving, its abstract specification, refinement and theorems.
2. **done** `ChatMessage` and `ChatClient`: the framing and the other end.
3. **done** `HttpServer` and `HttpServerProofs`: stopping with operations under way.
4. **done** `RequestParser` and `RequestHandler`: the pure parts, against reference
   definitions.
5. **done** `HttpPool`, `HttpStrand`: the two threaded servers.
6. **done** `AllocationServer`, `ForkServer`, `Timers`.
7. **done** `HttpPoolProofs`; `StrandProofs`, of the two programs with handlers that a strand
   does not cover (`HttpStrand` and `Timers`).
8. **done** `ChatWire`, which composes the chat client, the message format and the
   session's reader on a connection that breaks.
9. **done** `HttpService`, the abstract specification the three HTTP servers have in
   common, and the three refinements, checked and proved.
10. **done** `TcpServers` (seven echo and daytime servers) and `Datagrams` (the udp
    programs on a lossy network).
11. **done** `Induction`, and with it `ChatWireProofs` (order, framing and the header codec)
    and `RequestProofs` (the language of the parser, decoding, the reply).
12. **done** `EchoProofs`: `AllocationServer`, `TcpServers`, `Datagrams`.

Section 6 says what is out of reach.

Composition. `ChatServer` instantiates `ChatBroadcast` with a refinement mapping, and
`HttpServer`, `HttpPool` and `HttpStrand` each instantiate `HttpService` with theirs.
`ChatWire` extends `ChatClient` and `ChatMessage` and adds the reader of
`chat_server.cpp` at the other end of the connection. The HTTP servers contain the parser
only as its result (good or bad, or indeterminate), and `RequestParser` gives that
result its meaning; likewise `RequestHandler` for the reply. The parser and the
handler share no state: `MCRequest` runs them side by side, a behaviour being of one of
them.

## 3. The modules

**ChatServer.** One action per completion handler of `chat_server.cpp`, run to its
end, since one thread runs them all: `Accept` (accept handler, `start`, `join` with the
replay of the history), `ReadHeader`, `ReadBody` (with `chat_room::deliver` to all
participants), `ReadFails`, `WriteDone`, `WriteFails`. `ClientGone` is the
environment. `writing[s]` counts outstanding writes so that a second one could be
seen. `log`, `from` and `sent` are history variables: the one order in which
`deliver` was called, where a session's part of it begins, and what was written to
its client. A session object is alive while the room or an outstanding operation
holds it; then its name can be used by a later connection, so the bound is on
sessions that exist at the same time, not on those ever made.

**ChatBroadcast.** What the room promises, without queues and handlers: one log,
and for each member a gap-free window that opens at most `MaxRecent` messages before
it joined. `ChatServer!ImplementsBroadcast` is the refinement.

**ChatMessage.** Operators only. `Encode`, `Decode` and `Clip` are `encode_header`,
`decode_header` and `body_length`; `Atoi` is what `std::atoi` does with blanks, a sign,
digits and anything else. Lengths wrap at `WordSize`. `Frame` is the message that
main makes of a line.

**ChatClient.** Two threads: `TypeLine`, `EndInput`, `Joined` are main's; all other
handlers are run by `t`. `posted` is the queue of posted handlers. Operations
complete (`ConnectReady`, `ReadReady`, `WriteReady`) before their handlers run, so
`close` and errors can come in between. An over-long line, which ends the loop in main,
is the same step as the end of the input.

**ChatWire.** Every step of `ChatClient`, with a text chosen for each line typed, the
frame put on the wire when its write completes and a part of it when the connection
breaks (`WriteSome`), and the session's read chain (`SessionHeader`, `SessionBody`,
`SessionFails`). Or, without a client, a peer that sends headers of its own
(`WriteRogue`). `got` is what the session delivered. A break may take bytes that were written and
not yet read (`Truncated`).

**HttpService.** Per connection whose turn it is, and whether new ones are opened: one
request, then one reply, and nothing opened after the stop. `Turn` and `Serves` (or
the formula in its place) are each server's mapping. A connection is "request" from the moment
the server takes it up until the reply is filled in. In `HttpStrand` a `start()` that was
entered before the stop still counts as open service.

**HttpServer.** The operations have a status (`started`, `ok`, `error`, `aborted`), and
closing turns `started` into `aborted` but leaves completed ones: the distinction
`connection.cpp` makes by `operation_aborted`. `Stop` is the whole handler of
`do_await_stop`, `stop_all` included. `RequestRead` and `ReadMore` are the parser's
answers.

**RequestParser.** The switch of `consume` as a table of rules: in a state, on a
character of a set, store it in a field and go on in another state. The character
classes are computed from the code's own tests over one representative of each
class the code distinguishes, bytes above 127 among them. `IsRequest` defines the
language by lines, without states, as the reference. A cut of the input into reads needs no
action of its own: the parser's whole state is in the variables, and every prefix of an
input is a state of the model.

**RequestHandler.** Characters are their codes. A client builds a uri from a path it
means, encoding each character or not, or scribbles one. `Value` is what
`istringstream >> hex` makes of two characters, signs and partial numbers included.
`UriChar` are the characters the parser lets through; any other, the nul among them, comes
from an escape. `Path` is what is really opened: the decoded path, with `index.html` if it ends in a slash
(`Indexed`), up to its first nul (`c_str`). The extension is taken from `Indexed`, as in
the code.
`to_buffers` keeps the order of the buffers, which the framing depends on; `Body` reads
them back as a client does.

**HttpPool.** One thread per `io_context`. Handlers that other threads can observe half
way (the acceptor's, the signal set's) take several steps; the handlers of a connection are
run by one thread and are single steps. `Destroy` is the end of `main`, where `s` goes away.

**HttpStrand.** Handlers are entered, work on the connection, start the next operation and
leave, each a step, so that an operation can complete while the handler that
started it has not left. `Enter` asks for a free strand; `Start` does not.

**AllocationServer.** The steps in which Asio completes an operation: the handler
is moved out (`Move`), the block given back (`Free`), the handler called (`Call`), which
starts the next operation, and destroyed (`Return`), which may end the session and the
storage in it. A composed write allocates anew for its rest (`WriteOn`).

**ForkServer.** The parent, the children and `SIGCHLD`, which is pending once however
many children ended, and which Asio keeps when no wait is started. A child is born with
the wait for the signal, cancelled. `program` says which of the two programs a behaviour is
of: `process_per_connection.cpp` has no branch for a `fork()` that failed, so
that its parent neither accepts again nor tells its io_context that the fork is over
(`prepared`, which only that step sets; `Stranded`).

**TcpServers.** `program` says which server a behaviour is of. `Iterative` ones serve a
connection at a time, `Threaded` ones have a thread for each, `Handlers` run all in one
io_context. A byte is its position in the request or in the string, so
that a loss, a repetition or a swap shows. `Read` takes as many bytes as there are or fit,
`Write` passes on as many as the stream takes. What an error does is where the servers
differ: `Dies` (an exception that nobody catches, in main or in a thread), `End` (of the
connection), or a loop that goes on with a closed socket (`ReadEnds` to "spinning"). Of the two
asynchronous daytime servers one keeps the string in the connection and the connection in
the handler (`StartDaytime`), the other keeps neither (`StartUnheld`): what the
socket does not take at once fails or crashes the process (`Dangling`).

**Datagrams.** `net` is a set of datagrams; delivering one may leave it there
(a copy, bounded by `MaxCopies`) and `Lose` takes one away. A client's port is free again when the
client has ended, so that an answer that was not waited for can meet another client there. `lost` and `copies`
are history variables.

**Timers.** `++count_` is a load and a store, because the first handler of `timer2_` is
bound to `strand2_` and may overlap with those of `timer1_`; all others share `strand_`.
The unsynchronized access is a data race; the model gives it the outcomes of an
interleaved load and store, which is what the compilers of the build make of an `int`.

The `MC*` modules define sets of characters, lines and strings that a `.cfg` cannot express.
Definitions whose comment says "Faulty form of" are plausible bugs in the definition
they precede. No specification uses them; substituted for that definition each of them
makes a property fail, which shows that the property depends on the code.

## 4. The runs

| Run | Bounds | Distinct states | What it shows |
|---|---|---|---|
| chat_server | 2 sessions, history of 1, 2 messages | 13,500 | `WriteChain`, `StreamIsWindow`, `LeftForGood`; `ImplementsBroadcast`; `Delivered` and `TornDown` |
| chat_wire | 2 lines of 5 kinds, 1 message received, 2-character header, bodies to 10 | 83,329 | `LinesInOrder`, `BodyFits`, `Framing`; `LinesArrive` |
| chat_client_join | 2 lines, 1 message | violated | `JoinReturns`: see section 7 |
| http_server | 3 connections | 41,024 | `ManagedIsBusy`, `ReplyStable`; `StopsWhenSignalled`, `Released`; `ImplementsService` |
| request | texts of 25 characters, 4 stored in the request line, 5 in all; uris to 5 of 11 codes, files to 3, buffer of 2 | 1,785,865 | `HasHeader`, `FieldsClean`, `GoodIsRequest`; `DecodesMeaning`, `OpenedClean`, `WholeFile` |
| http_pool | 3 contexts, 3 connections handled | 28,932 | `DestroyedLast`; `EndsWhenSignalled`; `ImplementsService` |
| http_strand | 3 threads, 2 connections | 43,855 | `Alone`; `EndsWhenSignalled`; `ImplementsService` |
| allocation_server | 2 sessions, blocks below, at and above the capacity | 1,672 | `StorageAlive`, `NoHeap`, `NoLeak` |
| fork_server | 2 children, either program | 28,035 | `Reaped`, `ChildEnds`, `KeepsAccepting` |
| timers | 2 threads, count to 5 | 3,560 | `FinalCount`, `NeverBack` |
| tcp_servers | 7 programs, 2 clients, requests to 3, buffer of 2, string of 2 | 66,744 | `NoByteLost`; `Answered`, `Released` |
| datagrams | 2 programs, 3 clients, 2 ports, 1 copy | 219,656 | `OwnReply`; `PeersAnswered` |

Why the bounds are enough:

- *chat_server.* Two sessions let one deliver into the other's write, join while
  messages are in flight, and post after it left; with a history of one message and
  two messages posted the history overflows. Names are reused, so any number of
  sessions come and go. The safety properties and the refinement are proved for all
  values.
- *chat_wire.* A header of two characters is full at 10, as one of four is beyond
  512; the longest line is as long as a body may be. Bodies made of digits and blanks
  read as headers wherever a reader would lose step. Of two lines the second is typed
  while the connection is made, while the first is written or after it broke; of two
  frames a break leaves any prefix. The safety properties are proved for all values.
- *http_server.* Three connections: one that waits, one that completed, one that
  ended, at the moment of the stop. Connections interact only through the manager's
  set, which the proof uses. The safety properties are proved for all values.
- *request.* Shortest complete requests take 15 characters; 25 leave room for
  a header and a folded line. The bounds on stored characters cut the number
  of texts and not the states of the parser. In a uri five characters hold an escape with one
  more character on either side; the eleven codes are those that the handler names, the nul and
  what their escapes are written with; files of 0 to 3 are empty, shorter than, exactly and
  longer than a buffer of 2. The properties are proved for all values.
- *http_pool.* Three contexts separate signals, acceptor and a connection of its own;
  the round robin wraps. `MaxConn` counts the connection that is waiting to be
  accepted into; after it no accept is handled.
- *http_strand.* Three threads for two connections and one accept.
- *allocation_server.* Sessions do not interact but for the one thread.
- *fork_server.* Two children are enough for a merged signal and for one that ends
  between `waitpid` and the next wait.
- *tcp_servers.* A request of three is more than a buffer of two, so that it takes two
  rounds; two clients, of which one can hold a server that the other waits for.
  Sessions share nothing but the process.
- *datagrams.* With three clients on two ports two share a port, one after the other,
  and a third has one of its own; one copy is enough for an answer to a request that was
  answered before.
- *timers.* The first handler of `timer2_` can fall behind by any number of counts up
  to the limit.

The safety properties of http_pool, http_strand, allocation_server, timers, tcp_servers and
datagrams are proved for all values as well, so that their bounds matter for liveness only.

Deadlock is checked where the program can always go on (chat server, allocation server).
Elsewhere the program ends or a bound stops it.

### Fairness

`FairSpec` always says that a thread inside `run()` runs the handlers queued for it;
contexts and strands are first in, first out, which is strong fairness of a handler
that waits for a thread or a strand. Of the network it assumes only this:

- a read of a connection whose peer has gone ends with an error, after finitely many
  bytes the peer had sent;
- a write ends, or (HTTP) ends once the peer has gone. For the chat server it means that a client takes its bytes or goes
  away. One that stays and never reads would block its queue for ever: the code
  has no timeout and no limit;
- timers expire; signals that were sent are delivered, but need not be to the parent of
  `process_per_connection.cpp` whose `fork()` failed (its io_context was prepared for a fork and
  never told that it is over);
- what was sent over tcp is read at last by a peer that waits for it. A datagram may be
  lost, and is then never delivered.

Handlers that exclude each other are under one condition (`Read(c) \/ ReadEnds(c)`): that
one of them runs is assumed, not which. In `TcpServers` no user is assumed to type: a client of
`echo_server.cpp` that stays silent keeps the server from all others, and `Answered`
says so (`Taken`).

No peer is assumed to send, to stay or to leave, no client to come, and no signal to be sent. In
`ChatClient` the user ends the input some day, which only `JoinReturns` uses.

## 5. The theorems

`tlapm` checks them; each is for every value of the constants under the assumptions
that the modules name:

| Assumption | What it says |
|---|---|
| `ChatAssumption` | the history holds at least one message |
| `ClientAssumption` | the bounds are numbers |
| `MessageAssumption` | a header has room for a body (`MaxBody` has no more digits than `HeaderLength`, as 512 and 4 in `chat_message.hpp`), and its largest number is below half of `WordSize` |
| `WireAssumption` | a line fits a body and has no nul character, as `getline` of `char line[max_body_length + 1]` and `strlen` give it; a peer's headers are as long as a header |
| `ParserAssumption` | the characters are among the ones the model names |
| `HandlerAssumption` | the bytes of a uri are 0 to 255, the buffer of a file is not empty |
| `MemoryAssumption` | sizes are numbers |
| `ServersAssumption` | buffer and string are not empty |
| `DatagramsAssumption` | the server's port is no client's |
| `StrandAssumption`, `PoolAssumption` | "no connection" is not one; at least one context and one connection |
| `TimersAssumption` | a limit of at least one, at least one thread |

`HttpServer` has none. A theorem that a run's property holds names the property; `PROJECT.json`
lists them.

**Induction.** Many of the theorems need induction over numbers or texts, and functions that are
defined by recursion. The library states these with operators as parameters, which the
provers cannot use. Here they are stated with sets and functions: `LeastElement` from the library's
`WFMin`; `SetInduction` and `StrongInduction` over a set of numbers; and `RecursionDefines`, that a
recursion along a rank (`Recursion(D, S, rank, F)`) has a function that solves it, built from
the partial solutions up to each rank.

**ChatServerProofs.** The inductive invariant is

    IInv == TypeOK /\ WriteChain /\ NoDeafParticipant /\ RecentIsTail /\ StreamIsWindow

`WriteChain` is needed for `StreamIsWindow` (a write that completes takes the front of a
queue that is not empty), and `RecentIsTail` (the history is the end of the log) for a session
that joins: its queue is then a part of the log that reaches to its end. There is a lemma per
handler. From `IInv` follow `TypeCorrect`, `WriteChainCorrect`, `ParticipantsListen`,
`StreamsAreWindows`, the action property `LeavingIsFinal`, and `Refinement`: every step
maps to a step of `ChatBroadcast` or stutters, the window of a session being given
by its history, its stream and its queue.

**ChatWireProofs.** Four parts.
The client: `LinesInOrder` needs to know what is in `posted`: lines, and behind
them, once the input has ended, one `close()`, which stays the last because it posts
itself again (`CloseLast`), and that a write under way has something in the queue to write
(`OneWrite`). Then a posted line that is handled moves from the front of the posted lines to the
end of the queue, and one whose write completes from the front of the queue to the end of
those sent.
The header: `Decode` returns at most `MaxBody` of any header (`DecodeFits`), and what was
encoded of any length that fits (`Roundtrip`): the blanks that `%4d` pads with are skipped, the
digits behind them read as the number (`Values`, by induction over the places), and nothing wraps.
The stream: `Ends(s, t)` says where each frame of the lines `t` ends, and
`Carries(s, t, w, a)` that `w` is a part of their stream from place `a` on. Appending a frame,
taking a header or a body off the front, and cutting the end each keep it.
The invariant, `WireIInv`: with a client, what is on the way to a session that still reads is the
stream from where the session is, and goes up to what is written unless the connection broke
(`InStep`); what was delivered is the beginning of what was typed, and between header and
body the length read is the next line's (`Got`). With the other peer, only that the
length is in bounds. Results: `LinesInOrderCorrect`, `BodyFitsCorrect`, `FramingCorrect`.

**HttpServerProofs.** `IInv` is `TypeOK`, `NothingAfterStop` and, per connection, `IConn`: the
manager's set is the set of open sockets; a connection has one operation, and a managed
one has one; an aborted operation belongs to a connection that the manager forgot (else a
handler could abandon a managed connection); and one that reads has no reply yet
(that the reply is filled in once). `OthersKept` reduces a handler to the connection it
runs for. Results: `HttpTypeCorrect`, `HttpManagedIsOpen`, `HttpManagedIsBusy`,
`HttpNothingAfterStop`, `HttpReplyStable`, and `HttpImplementsService`: a handler gives at
most one connection another turn, and the stop handler none: a connection that it closes
ends when the last of its handlers has run.

**RequestProofs.** *The fields.* The rule table is shown to consist of good rules (a rule that
appends to a header leads from a state in which there is one; what is stored is in the
field's class), and a good rule preserves `HasHeader` and `FieldsClean`: `ParserHasHeader`,
`ParserFieldsClean`.
*The language.* `GoodIsRequest` is an equivalence between what the states did and what
the text is, so the invariant `TextInv` says of each state what the text read so far is
(`Reading`): the lines that have ended are a request line, headers and continuations, the first of
them no continuation (`Lines`); the last line begins behind the last line end (`Begins`) and is
what the state stands for (`LineShape`, `HeaderShape`, one clause per state); and a text that ends
in "CR" is in a state that waits for "LF", so that no line end goes unnoticed. A rule leads
from one shape to the next (`LineStep`, `HeaderStep`), a line end makes the last line one
of those that ended (`LinesMore`), and the last line end of all makes the text a request
(`Complete`). The other direction is `NotYet`: a request ends with two line ends, and in
every other state the line before is not empty. Result: `ParserAcceptsRequests`.
*The handler.* `url_decode` is a recursive function of the position: `UrlDecode` says by
`RecursionDefines` what a turn of its loop does, and induction from the end of the uri
that decoding an encoded path gives it back, whichever characters were escaped. A path
that passed the checks stays absolute and without ".." when `index.html` is appended (`IndexedClean`)
and when `c_str()` cuts it (`CutAtNul`, from the least position of a nul); it ends in a slash
then only if there was a nul (`PathOpenable`). The reading loop delivers
the file chunk by chunk, by induction over what is left of it, and the buffers of a reply are found
again in the order in which they were laid down (`Framed`). Results: `DecodingCorrect`,
`OpenedPathClean`, `WholeFileCorrect`.

**EchoProofs.** *Allocation server.* `ISession` says of one session what it holds at each point of the
thread's way through a completion: an operation whose handler is in a block and holds the
session (`Held`); after the block was given back, a handler that alone holds the session
(`Between`); after the handler was called, the next operation or nothing (`Over`). That the
block is given back before the handler is called, and that a session goes away only when
nothing of it is outstanding, is what the four properties come from: `LentCorrect`,
`StorageOutlives`, `NeverHeap`, `NothingLeaks`.
*Tcp.* `TcpInv` says of a connection where its bytes are: while it is served, what came back, is on the
way back, in the buffer and still to be read is together what is owed, in order; of one
that ended, what came back is a beginning of it; and a server that returns from a daytime
connection has sent it all. `Passes` is the step they share, bytes moved from the front of
one sequence to the end of the one before it. Result: `NoByteLostCorrect`.
*Udp.* `UdpInv`: every datagram is the request of a client that sent one, or its answer, at the port
it had (`Mail`); two that wait have different ports (`Ports`); and as long as nothing came twice an
exchange is in one place, on the network, in the server or at a client (`Once`), which is why
an answer to another client can only be one that came late or twice. Result: `OwnReplyCorrect`.

**StrandProofs.** *The server of http3.* The strand alone does not give `Alone`, since `start()`
runs outside it. The invariant adds why that is harmless: a thread in `start()` is the only one that
holds the connection, and a thread that still works on a connection has not started its next
operation, so no handler of it can be entered. Results: `StrandAlone`, and
`StrandImplementsService`, in which the steps of a handler that only start the next
operation or leave are stutters.
*The timers.* The two handlers can overlap only while the first handler of `timer2_`, on
`strand2_`, is under way (`TimerHandlers`). `TimerCounting` says what each thread knows between its
test, its load and its store: with the overlap, the count is below the limit by one for the thread of
`timer1_`, which is why the limit is passed by one at most; and `timer2_`, which
outlasts the overlap, goes on until it has seen the limit itself, which is why no lost
increment makes the program end early (`Timer2Ended`). Results: `FinalCountCorrect` and
`CountNeverBack`.

**HttpPoolProofs.** A thread is inside a handler only while it runs, and main passes the join when
every thread has returned; nothing spawns one again. Results: `PoolDestroyedLast`, and
`PoolImplementsService`, which needs that the connection an accept waits to fill was
never in service (`NewIsFresh`).

## 6. What is only model-checked, and what is not modelled

Only model-checked: every liveness property, since fairness and `ENABLED` are out of the
prover's reach. These are `Delivered` and `TornDown` of the chat server, `LinesArrive`,
`StopsWhenSignalled` and `EndsWhenSignalled`, `Released`, `Answered`, `PeersAnswered`, and all of
`ForkServer` (`Reaped`, `ChildEnds`, `KeepsAccepting`). `ParticipantsListen`, `LentCorrect`,
`HttpManagedIsOpen`, `HttpNothingAfterStop` and the type invariants, on the other hand, are
proved and in no run of their own: the proofs of checked properties rest on them.

Not modelled:

- `timer2`, `timer3`, `timer4`, `time3`: one thread and nothing that interleaves, or not
  built.
- In the modelled programs: the addresses and ports, signal registration, what is
  printed, the texts of replies, exceptions of the constructors, allocation failures, and
  an error of `accept` that persists.
- The version numbers of a request are unbounded in the model; the code
  accumulates them in an `int` without a limit and uses them nowhere.
- A directory opened as a file: `std::ifstream` opens it and the first read fails, so the reply is
  `200` with an empty body. In the model a file of length 0 stands for it, and nothing longer is found
  under a path that ends in a slash.

## 7. Finding

`chat_client::close()` posts a handler that reads `sock_,close();`
(`advanced/chat_client.cpp:90`), a comma for the dot. It evaluates `sock_` and calls `close()`
again, which posts the handler again. The socket stays open, `ioc.run()` never runs out
of work, and main, which ends with `c.close(); t.join();` (lines 128-129), waits for ever while
`t` is busy. `JoinReturns` says what these two lines are for, and the run
chat_client_join is the counterexample. All other properties of the client are checked with the code as it is.

The two hazards in `PROJECT.json` without a property are not findings; they are places
where the code has no answer (no limit on the queue of a client that does not read, no
timeout of one that sends nothing). Nor are the exceptions that the properties name, since
what the code does there is the model, and each property says where it does not reach:

- `KeepsAccepting` and `Reaped`: the parent of `process_per_connection.cpp` after a `fork()` that
  failed (lines 59-72; `process_per_con.cpp` has the branch);
- `NoByteLost`: what `async_daytimesrc.cpp` sends from a string that is gone;
- `Released`: the thread of `blocking_tcp_echo_server.cpp` that goes on with a closed socket;
- `OwnReply`: a datagram that came twice or met the next client at its port;
- `OpenedClean`: a uri that stands for something with a nul in it, such as `/%00`.
  `handle_request` adds `index.html` to a path that ends in a slash ("i.e. is a directory",
  `http/request_handler.cpp:42`) and opens `full_path.c_str()` (line 59), which ends at the first
  nul. The decoded path of `/%00` ends in the nul and the path opened in the slash, so that the
  directory is opened and not its index; likewise the extension is that of the whole string and not
  that of the path opened.
  That the path opened is absolute and has no ".." holds there as well.

## 8. Running the checks

    tlc -workers 2 -config MCChatServer.cfg ChatServer.tla
    tlapm ChatServerProofs.tla

`PROJECT.json` names the module and the configuration of each run.
