--------------------------- MODULE RequestHandler ---------------------------
(***************************************************************************)
(* http/request_handler.cpp, mime_types.cpp and reply.cpp (the same files  *)
(* in http2/ and http3/): from the uri of a request to the buffers of the  *)
(* reply.  Characters are their codes.  A uri is made up by a client that  *)
(* writes the characters it means as they are or encoded, or by one that   *)
(* writes anything.  A file is its length, or there is none.               *)
(***************************************************************************)
EXTENDS Integers, Sequences

CONSTANTS Code,     \* the codes the client writes
          MaxLen,   \* bound: the length of a uri
          MaxFile,  \* bound: the length of a file
          Chunk     \* sizeof(buf)

ASSUME HandlerAssumption ==
    /\ Code \subseteq 0 .. 255
    /\ MaxLen \in Nat /\ MaxFile \in Nat /\ Chunk \in Nat \ {0}

VARIABLES target, \* request::uri
          meant,  \* history: what the client means by it, or "anything"
          opened, \* the path under doc_root_ that is opened, if one is
          file,   \* the length of the file found there, or "none"
          reply   \* the reply, or "none"

handlerVars == <<target, meant, opened, file, reply>>

NoPath == <<>>
Anything == <<-1>>
NoReply == [status |-> "none"]

Slash == 47
Dot == 46
Percent == 37
Plus == 43
Minus == 45
Space == 32
Nul == 0

\* The characters the parser lets into a uri as they are.
UriChar == 33 .. 126 \cup 128 .. 255

DigitCode == 48 .. 57
IsHex(c) == c \in DigitCode \cup 65 .. 70 \cup 97 .. 102
HexVal(c) == IF c \in DigitCode THEN c - 48 ELSE IF c <= 70 THEN c - 55 ELSE c - 87
-----------------------------------------------------------------------------
\* istringstream >> hex >> value, of the two characters after a percent sign: a
\* sign is read, and a number ends at the first character that is none of it.
\* -256 stands for a failure (0x alone is one).  A uri has no blanks.
Value(a, b) ==
    CASE IsHex(a) /\ IsHex(b) -> 16 * HexVal(a) + HexVal(b)
      [] IsHex(a) /\ ~IsHex(b) -> IF a = 48 /\ b \in {88, 120} THEN -256 ELSE HexVal(a)
      [] a = Plus /\ IsHex(b) -> HexVal(b)
      [] a = Minus /\ IsHex(b) -> -HexVal(b)
      [] OTHER -> -256

\* The value of the escape at position i of in, -256 if there is none or it is
\* no number.
Escape(in, i) ==
    IF in[i] = Percent /\ i + 2 <= Len(in) THEN Value(in[i + 1], in[i + 2]) ELSE -256

\* The character that position i stands for.
Decoded(in, i) ==
    IF in[i] = Percent THEN Escape(in, i) % 256 ELSE IF in[i] = Plus THEN Space ELSE in[i]

\* Faulty form of url_decode: after an escape the loop goes on one too early.
url_decode_slow(in) ==
    LET Out[i \in 1 .. Len(in) + 1] ==
            IF i > Len(in) THEN <<TRUE, <<>>>>
            ELSE IF in[i] = Percent /\ Escape(in, i) = -256 THEN <<FALSE, <<>>>>
            ELSE LET rest == Out[IF in[i] = Percent THEN i + 2 ELSE i + 1]
                 IN  <<rest[1], <<Decoded(in, i)>> \o rest[2]>>
    IN  Out[1]

\* url_decode: whether it succeeds, and the path.
url_decode(in) ==
    LET Out[i \in 1 .. Len(in) + 1] ==
            IF i > Len(in) THEN <<TRUE, <<>>>>
            ELSE IF in[i] = Percent /\ Escape(in, i) = -256 THEN <<FALSE, <<>>>>
            ELSE LET rest == Out[IF in[i] = Percent THEN i + 3 ELSE i + 1]
                 IN  <<rest[1], <<Decoded(in, i)>> \o rest[2]>>
    IN  Out[1]

Occurs(s, path) ==
    \E i \in 1 .. Len(path) - Len(s) + 1 : SubSeq(path, i, i + Len(s) - 1) = s

\* Faulty form of Accepted: dots are looked for in the uri.
AcceptedRaw(in) ==
    LET path == url_decode(in)[2]
    IN  /\ url_decode(in)[1]
        /\ path # <<>> /\ path[1] = Slash
        /\ ~Occurs(<<Dot, Dot>>, in)

\* The uris handle_request does not answer with bad_request.
Accepted(in) ==
    LET path == url_decode(in)[2]
    IN  /\ url_decode(in)[1]
        /\ path # <<>> /\ path[1] = Slash
        /\ ~Occurs(<<Dot, Dot>>, path)

\* "index.html"
Index == <<105, 110, 100, 101, 120, 46, 104, 116, 109, 108>>

\* request_path when the file is opened.
Indexed(in) ==
    LET path == url_decode(in)[2]
    IN  IF path[Len(path)] = Slash THEN path \o Index ELSE path

\* What c_str() of a string is to the one who opens the file: it ends at the
\* first nul.
c_str(s) ==
    LET n == CHOOSE k \in 0 .. Len(s) : /\ k < Len(s) => s[k + 1] = Nul
                                       /\ \A i \in 1 .. k : s[i] # Nul
    IN  SubSeq(s, 1, n)

\* The path that is opened, under doc_root_.
Path(in) == c_str(Indexed(in))

\* find_last_of: the last position of c, 0 for npos.
LastOf(c, s) ==
    CHOOSE i \in 0 .. Len(s) : /\ i # 0 => s[i] = c
                               /\ \A j \in i + 1 .. Len(s) : s[j] # c

Extension(path) ==
    IF LastOf(Dot, path) > LastOf(Slash, path)
    THEN SubSeq(path, LastOf(Dot, path) + 1, Len(path)) ELSE <<>>

\* mappings, of which "htm" and "html" are told apart from the rest.
extension_to_type(ext) ==
    IF ext \in {<<104, 116, 109>>, <<104, 116, 109, 108>>} THEN "text/html"
    ELSE "image or text/plain"

\* Faulty form of Appended: the loop ends with the first short read.
AppendedFull(n) == (n \div Chunk) * Chunk

\* How much of a file of length n the loop over is.read appends to the content:
\* the last, short read fails but its gcount is not 0.
Appended(n) ==
    LET Left[k \in 0 .. n] == IF k = 0 THEN 0
                              ELSE IF k < Chunk THEN k ELSE Chunk + Left[k - Chunk]
    IN  Left[n]

\* A reply with its two headers; stock replies have some page as content.
Reply(status, content, type) ==
    [status |-> status, content |-> content, length |-> content, type |-> type]
stock_reply(status) == Reply(status, 1, "text/html")

\* to_buffers; the status line has its own line end.
to_buffers(rep) ==
    <<<<"status line">>,
      <<"Content-Length">>, <<": ">>, <<"number", rep.length>>, <<"crlf">>,
      <<"Content-Type">>, <<": ">>, <<rep.type>>, <<"crlf">>,
      <<"crlf">>, <<"content", rep.content>>>>
-----------------------------------------------------------------------------
HandlerInit ==
    /\ target = <<>>
    /\ meant = <<>>
    /\ opened = NoPath
    /\ file = "none"
    /\ reply = NoReply

\* The hexadecimal digits of n, as they are usually written.
HexDigit(n) == IF n < 10 THEN 48 + n ELSE 55 + n

\* The client adds a character, as it is or encoded.
Encode(c) ==
    /\ reply = NoReply /\ meant # Anything
    /\ \/ c \in UriChar \ {Percent, Plus} /\ target' = Append(target, c)
       \/ c = Space /\ target' = Append(target, Plus)
       \/ target' = target \o <<Percent, HexDigit(c \div 16), HexDigit(c % 16)>>
    /\ meant' = Append(meant, c)
    /\ Len(target') <= MaxLen
    /\ UNCHANGED <<opened, file, reply>>

\* The client adds any character that may stand in a uri.
Scribble(c) ==
    /\ reply = NoReply
    /\ c \in UriChar
    /\ target' = Append(target, c)
    /\ meant' = Anything
    /\ Len(target') <= MaxLen
    /\ UNCHANGED <<opened, file, reply>>

\* handle_request of a uri that is refused.
Refuse ==
    /\ reply = NoReply
    /\ ~Accepted(target)
    /\ reply' = stock_reply("bad_request")
    /\ UNCHANGED <<target, meant, opened, file>>

\* handle_request of any other uri, when there is no such file and when there is.
\* What a path with a slash at its end names is a directory, of which nothing can
\* be read; the extension is that of the whole string.
Serve ==
    /\ reply = NoReply
    /\ Accepted(target)
    /\ opened' = Path(target)
    /\ \/ /\ file' = "none"
          /\ reply' = stock_reply("not_found")
       \/ \E n \in 0 .. MaxFile :
             /\ opened'[Len(opened')] = Slash => n = 0
             /\ file' = n
             /\ reply' = Reply("ok", Appended(n), extension_to_type(Extension(Indexed(target))))
    /\ UNCHANGED <<target, meant>>

HandlerNext == Refuse \/ Serve \/ \E c \in Code : Encode(c) \/ Scribble(c)

HandlerSpec == HandlerInit /\ [][HandlerNext]_handlerVars
-----------------------------------------------------------------------------
\* However a path is written, with whatever characters encoded, decoding gives
\* the path that was meant.
DecodesMeaning ==
    meant # Anything => url_decode(target) = <<TRUE, meant>>

\* "Request path must be absolute and not contain '..'": of the path that is
\* really opened, after decoding and after c_str().  "If path ends in slash (i.e.
\* is a directory) then add index.html": none that ends in a slash is opened,
\* but where the uri stands for something with a nul in it.  There the code looks
\* at the end of the string and opens what c_str() leaves of it.
OpenedClean ==
    opened # NoPath =>
        LET path == url_decode(target)[2]
        IN  /\ opened[1] = Slash
            /\ \A i \in 1 .. Len(opened) - 1 : ~(opened[i] = Dot /\ opened[i + 1] = Dot)
            /\ opened[Len(opened)] = Slash => \E i \in 1 .. Len(path) : path[i] = Nul

\* What a client gets by reading lines up to an empty one and then as many
\* characters as Content-Length says: the whole file.
Body(b) ==
    LET ends == {i \in 1 .. Len(b) - 1 : b[i + 1] = <<"crlf">> /\ b[i] \in {<<"crlf">>, <<"status line">>}}
        first == CHOOSE i \in ends : \A j \in ends : i <= j
    IN  IF ends = {} THEN <<>> ELSE SubSeq(b, first + 2, Len(b))

WholeFile ==
    reply # NoReply =>
        LET b == to_buffers(reply)
            l == CHOOSE i \in 1 .. Len(b) : b[i] = <<"Content-Length">>
        IN  /\ Body(b) = <<<<"content", b[l + 2][2]>>>>
            /\ reply.status = "ok" => reply.content = file
=============================================================================
