------------------------------ MODULE ChatWire ------------------------------
(***************************************************************************)
(* A chat_client, the connection, and the chat_session that reads from it: *)
(* ChatClient with the lines made into messages of ChatMessage, and the    *)
(* read chain of chat_server.cpp at the other end, which takes a header,   *)
(* decodes it and takes as many bytes more.  The connection is a stream of *)
(* bytes; when it breaks the end of what is under way may be lost.  A      *)
(* behaviour without a client has a peer that sends headers of its own.    *)
(***************************************************************************)
EXTENDS ChatClient, ChatMessage, SequencesExt

CONSTANTS Line,   \* lines the user types
          Rogue   \* headers that a peer that is no chat_client sends

ASSUME WireAssumption ==
    /\ \A line \in Line : line \in Seq(Char \ {Nul}) /\ Len(line) <= MaxBody
    /\ Rogue \subseteq [1..HeaderLength -> Char]

VARIABLES
  honest,       \* the peer of the session is a chat_client
  text,         \* text[i]: the i-th line typed
  wire,         \* bytes written and not yet read
  phase,        \* the session's read chain: "header", "body" or "closed"
  body_length,  \* body_length_ of its read_msg_
  got           \* history: bodies it delivered

session == <<phase, body_length, got>>
wireVars == <<honest, text, wire, phase, body_length, got>>
allVars == <<vars, wireVars>>

\* No client, as far as its actions go: nothing of it is enabled.
NoClient ==
    /\ main = "done" /\ io = "returned" /\ conn = "open"
    /\ typed = <<>> /\ posted = <<>> /\ connecting = "none" /\ reading = None
    /\ received = 0 /\ write_msgs = <<>> /\ sent = <<>>
    /\ writing = [started |-> 0, ready |-> 0]

WireInit ==
    /\ honest \in BOOLEAN
    /\ IF honest THEN Init ELSE NoClient
    /\ text = <<>>
    /\ wire = <<>>
    /\ phase = "header"
    /\ body_length = 0
    /\ got = <<>>
-----------------------------------------------------------------------------
(* The client's steps that the stream takes part in. *)

\* getline gives a line, which main makes into a message; one that is too long
\* ends the loop like the end of the input, and is not sent.
TypeText ==
    /\ TypeLine
    /\ \E line \in Line : text' = Append(text, line)
    /\ UNCHANGED <<honest, wire>> /\ UNCHANGED session

\* async_write of the front of write_msgs_ is through.
WriteFrame ==
    /\ WriteReady
    /\ wire' = wire \o Frame(text[Head(write_msgs)])
    /\ UNCHANGED <<honest, text>> /\ UNCHANGED session

\* It fails: some bytes of it may be under way, but not all.
WriteSome ==
    /\ WriteFails
    /\ \E k \in 0 .. Len(Frame(text[Head(write_msgs)])) - 1 :
          /\ conn # "open" => k = 0
          /\ wire' = wire \o SubSeq(Frame(text[Head(write_msgs)]), 1, k)
    /\ UNCHANGED <<honest, text>> /\ UNCHANGED session

\* Any other step of the client.
ClientAlone ==
    /\ \/ EndInput \/ Joined \/ ConnectReady \/ ReadReady
       \/ Connected \/ ReadHeader \/ ReadBody \/ ReadFails
       \/ RunWrite \/ RunClose \/ Written \/ RunReturns
    /\ UNCHANGED wireVars
-----------------------------------------------------------------------------
(* The other end, and the stream between. *)

\* do_read_header's handler: decode, and read the body or give up.
SessionHeader ==
    /\ phase = "header"
    /\ Len(wire) >= HeaderLength
    /\ wire' = SubSeq(wire, HeaderLength + 1, Len(wire))
    /\ \E r \in {Decode(h) : h \in {SubSeq(wire, 1, HeaderLength)}} :
          /\ body_length' = r.body_length
          /\ phase' = IF r.ok THEN "body" ELSE "closed"
    /\ UNCHANGED <<honest, text, got>> /\ UNCHANGED vars

\* do_read_body's handler: the message is complete, go on with the next one.
SessionBody ==
    /\ phase = "body"
    /\ Len(wire) >= body_length
    /\ got' = Append(got, SubSeq(wire, 1, body_length))
    /\ wire' = SubSeq(wire, body_length + 1, Len(wire))
    /\ phase' = "header"
    /\ UNCHANGED <<honest, text, body_length>> /\ UNCHANGED vars

\* The connection was closed: what the session waits for does not come any more.
SessionFails ==
    /\ phase \in {"header", "body"}
    /\ conn = "closed"
    /\ Len(wire) < (IF phase = "header" THEN HeaderLength ELSE body_length)
    /\ phase' = "closed"
    /\ UNCHANGED <<honest, text, wire, body_length, got>> /\ UNCHANGED vars

\* A connection that broke loses the end of what is under way.
Truncated ==
    /\ conn = "closed"
    /\ \E k \in 0 .. Len(wire) - 1 : wire' = SubSeq(wire, 1, k)
    /\ UNCHANGED <<honest, text>> /\ UNCHANGED session /\ UNCHANGED vars

\* A peer that is no chat_client sends bytes of its own (bounded: one header
\* under way, up to one message).
WriteRogue(h) ==
    /\ ~honest /\ phase # "closed"
    /\ wire = <<>> /\ got = <<>>
    /\ wire' = h
    /\ UNCHANGED <<honest, text>> /\ UNCHANGED session /\ UNCHANGED vars

WireNext ==
    \/ TypeText \/ WriteFrame \/ WriteSome \/ ClientAlone
    \/ SessionHeader \/ SessionBody \/ SessionFails \/ Truncated
    \/ \E h \in Rogue : WriteRogue(h)

\* The fairness of the client, and of the session, whose handlers are run.
WireSpec ==
    /\ WireInit /\ [][WireNext]_allVars
    /\ Fairness
    /\ WF_allVars(SessionHeader \/ SessionBody)
-----------------------------------------------------------------------------
\* Whatever header a peer sends, the body the reader asks for next fits into
\* data_ behind the header: negative, signed and malformed numbers included.
BodyFits == phase = "body" => body_length \in 0..MaxBody

\* The session never loses step with the client: what it takes for messages are
\* the lines typed, in order, whatever characters they consist of and wherever
\* the connection broke, and it never gives up on what encode_header produced.
Framing ==
    honest => /\ IsPrefix(got, text)
              /\ phase = "closed" => conn = "closed"

\* Every line typed arrives, also one typed before the connection was made,
\* unless the connection is refused or breaks; the client is not asked for more.
LinesArrive ==
    \A i \in 1..MaxLine :
        (Len(typed) >= i) ~> (Len(got) >= i \/ conn \in {"refused", "closed"})
=============================================================================
