---------------------------- MODULE RequestProofs ----------------------------
(***************************************************************************)
(* Theorems about what a connection does with a request: RequestParser,    *)
(* for requests of any length, with fields of any length and any number of *)
(* headers; and RequestHandler, for uris and files of any length and a     *)
(* buffer of any size.                                                     *)
(***************************************************************************)
EXTENDS RequestParser, RequestHandler, SequenceTheorems, Induction, TLAPS
-----------------------------------------------------------------------------
(* The parser. *)

\* The states in which the code may call headers.back().
InHeader == {"header_lws", "header_name", "space_before_header_value",
             "header_value", "expecting_newline_2"}

Fields == {"method", "uri", "major", "minor", "header", "name", "value", "nothing"}

\* What the theorems need of the table, rule by rule: characters go only where
\* they may, and headers.back() is reached only by way of a header.
GoodRule(r) ==
    /\ r.to \in State /\ r.put \in Fields
    /\ r.put \in {"method", "header", "name"} => r.on \subseteq TokenChar
    /\ r.put = "uri" => r.on \subseteq TextChar \ {"SP"}
    /\ r.put = "value" => r.on \subseteq TextChar
    /\ r.put \in {"name", "value"} => r.s \in InHeader
    /\ r.to \in InHeader => r.s \in InHeader \/ r.put = "header" \/ headers # <<>>

LEMMA CharSets ==
    /\ Token \subseteq TokenChar /\ TokenChar \subseteq AllChars
    /\ Text \subseteq TextChar /\ TextChar \subseteq AllChars
    /\ is_digit \subseteq AllChars
BY DEF Token, TokenChar, Text, TextChar, AllChars, is_ctl, is_tspecial, is_char, is_digit

LEMMA GoodRules == \A r \in Rules : GoodRule(r)
<1> SUFFICES ASSUME NEW r \in Rules PROVE GoodRule(r)
  OBVIOUS
<1>1. CASE r \in StartRules
  BY <1>1, CharSets DEF GoodRule, State, Fields, InHeader, Rule, StartRules
<1>2. CASE r \in LineRules
  <2>1. r.to \in State /\ r.put \in Fields
    BY <1>2 DEF State, Fields, Rule, LineRules
  <2>2. r.put \notin {"header", "name", "value"} /\ r.to \notin InHeader
    BY <1>2 DEF InHeader, Rule, LineRules
  <2>4. r.put = "method" => r.on = Token
    BY <1>2 DEF Rule, LineRules
  <2>5. r.put = "uri" => r.on = Text \ {"SP"}
    BY <1>2 DEF Rule, LineRules
  <2>. QED
    BY <2>1, <2>2, <2>4, <2>5, CharSets DEF GoodRule
<1>3. CASE r \in FoldRules
  BY <1>3 DEF GoodRule, State, Fields, InHeader, Rule, FoldRules, AllChars
<1>4. CASE r \in ColonRules
  BY <1>4 DEF GoodRule, State, Fields, InHeader, Rule, ColonRules, AllChars
<1>5. CASE r \in HeaderRules
  <2>1. r.to \in State /\ r.put \in Fields
    BY <1>5 DEF State, Fields, Rule, HeaderRules
  <2>2. /\ r.put \notin {"method", "uri"}
        /\ r.put \in {"name", "value"} => r.s \in InHeader
        /\ r.to \in InHeader => r.s \in InHeader \/ r.put = "header"
    BY <1>5 DEF InHeader, Rule, HeaderRules
  <2>4. r.put \in {"header", "name"} => r.on = Token
    BY <1>5 DEF Rule, HeaderRules
  <2>5. r.put = "value" => r.on \subseteq Text
    BY <1>5 DEF Rule, HeaderRules
  <2>. QED
    BY <2>1, <2>2, <2>4, <2>5, CharSets DEF GoodRule
<1>. QED
  BY <1>1, <1>2, <1>3, <1>4, <1>5 DEF Rules

-----------------------------------------------------------------------------
\* The inductive invariant.
Headers == Seq([name : Seq(TokenChar), value : Seq(TextChar)])

IInv ==
    /\ state \in State
    /\ result \in {"good", "bad", "indeterminate"}
    /\ method \in Seq(TokenChar)
    /\ uri \in Seq(TextChar \ {"SP"})
    /\ version \in [major : Nat, minor : Nat]
    /\ headers \in Headers
    /\ read \in Seq(AllChars)
    /\ stored \in Nat
    /\ state \in InHeader => headers # <<>>

\* Storing a character in the name or the value of headers.back().
LEMMA BackName ==
    ASSUME NEW hs \in Headers, hs # <<>>, NEW c \in TokenChar
    PROVE  LET new == [hs EXCEPT ![Len(hs)].name = Append(@, c)]
           IN  new \in Headers /\ new # <<>>
<1> DEFINE n == Len(hs)
           Header == [name : Seq(TokenChar), value : Seq(TextChar)]
           h == [hs[n] EXCEPT !.name = Append(@, c)]
<1>1. hs \in Seq(Header)
  BY DEF Headers
<1>2. n \in 1..Len(hs) /\ hs[n] \in Header
  <2> HIDE DEF Header
  <2>1. n \in Nat /\ n # 0
    BY <1>1, EmptySeq
  <2>2. n \in 1..Len(hs)
    BY <2>1
  <2>. QED
    BY <2>2, <1>1, ElementOfSeq
<1>3. h \in Header
  <2>1. \A g \in Header : Append(g.name, c) \in Seq(TokenChar)
    OBVIOUS
  <2>. QED
    BY <2>1, <1>2
<1> HIDE DEF h
<1>4. [hs EXCEPT ![n] = h] \in Seq(Header) /\ Len([hs EXCEPT ![n] = h]) = n
  BY <1>1, <1>2, <1>3, ExceptSeq
<1>5. n # 0
  BY <1>2
<1>6. [hs EXCEPT ![n] = h] # <<>>
  BY <1>4, <1>5
<1>. QED
  BY <1>4, <1>6 DEF h, Headers

LEMMA BackValue ==
    ASSUME NEW hs \in Headers, hs # <<>>, NEW c \in TextChar
    PROVE  LET new == [hs EXCEPT ![Len(hs)].value = Append(@, c)]
           IN  new \in Headers /\ new # <<>>
<1> DEFINE n == Len(hs)
           Header == [name : Seq(TokenChar), value : Seq(TextChar)]
           h == [hs[n] EXCEPT !.value = Append(@, c)]
<1>1. hs \in Seq(Header)
  BY DEF Headers
<1>2. n \in 1..Len(hs) /\ hs[n] \in Header
  <2> HIDE DEF Header
  <2>1. n \in Nat /\ n # 0
    BY <1>1, EmptySeq
  <2>2. n \in 1..Len(hs)
    BY <2>1
  <2>. QED
    BY <2>2, <1>1, ElementOfSeq
<1>3. h \in Header
  <2>1. \A g \in Header : Append(g.value, c) \in Seq(TextChar)
    OBVIOUS
  <2>. QED
    BY <2>1, <1>2
<1> HIDE DEF h
<1>4. [hs EXCEPT ![n] = h] \in Seq(Header) /\ Len([hs EXCEPT ![n] = h]) = n
  BY <1>1, <1>2, <1>3, ExceptSeq
<1>5. n # 0
  BY <1>2
<1>6. [hs EXCEPT ![n] = h] # <<>>
  BY <1>4, <1>5
<1>. QED
  BY <1>4, <1>6 DEF h, Headers

\* headers.push_back of a header with a one-character name.
LEMMA PushHeader ==
    ASSUME NEW hs \in Headers, NEW c \in TokenChar
    PROVE  LET new == Append(hs, [name |-> <<c>>, value |-> <<>>])
           IN  new \in Headers /\ new # <<>>
<1> DEFINE Header == [name : Seq(TokenChar), value : Seq(TextChar)]
           h == [name |-> <<c>>, value |-> <<>>]
<1>1. h \in Header
  BY DEF Header
<1>2. hs \in Seq(Header)
  BY DEF Headers
<1> HIDE DEF h, Header
<1>3. Append(hs, h) \in Seq(Header) /\ Len(Append(hs, h)) = Len(hs) + 1
  BY <1>1, <1>2
<1>4. Append(hs, h) # <<>>
  <2>1. Len(Append(hs, h)) # 0
    BY <1>2, <1>3
  <2>2. Len(<<>>) = 0
    OBVIOUS
  <2>. QED
    BY <2>1, <2>2, Zenon
<1>. QED
  BY <1>3, <1>4 DEF h, Headers

LEMMA ConsumeIInv ==
    ASSUME IInv, NEW c \in AllChars, Consume(c) PROVE IInv'
<1>1. PICK r \in Rules : /\ r.s = state /\ c \in r.on /\ state' = r.to
                         /\ Put(r.put, c)
                         /\ stored' = IF r.put = "nothing" THEN stored ELSE stored + 1
  BY DEF Consume
<1>2. GoodRule(r)
  BY GoodRules
<1>3. /\ state' \in State /\ result' \in {"good", "bad", "indeterminate"}
      /\ read' \in Seq(AllChars) /\ stored' \in Nat
  BY <1>1, <1>2 DEF IInv, Consume, GoodRule
<1>4. method' \in Seq(TokenChar)
  BY <1>1, <1>2 DEF IInv, GoodRule, Put
<1>5. uri' \in Seq(TextChar \ {"SP"})
  BY <1>1, <1>2 DEF IInv, GoodRule, Put
<1>6. version' \in [major : Nat, minor : Nat]
  <2>1. Digit(version.major) \in Nat /\ Digit(version.minor) \in Nat
    BY DEF IInv, Digit
  <2>. QED
    BY <1>1, <2>1 DEF IInv, Put
<1>7. headers' \in Headers /\ (state' \in InHeader => headers' # <<>>)
  <2>1. CASE r.put = "header"
    BY <1>1, <1>2, <2>1, PushHeader DEF IInv, GoodRule, Put
  <2>2. CASE r.put = "name"
    BY <1>1, <1>2, <2>2, BackName DEF IInv, GoodRule, Put
  <2>3. CASE r.put = "value"
    BY <1>1, <1>2, <2>3, BackValue DEF IInv, GoodRule, Put
  <2>4. CASE r.put \notin {"header", "name", "value"}
    <3>1. headers' = headers
      BY <1>1, <2>4 DEF Put
    <3>. QED
      BY <1>1, <1>2, <2>4, <3>1 DEF IInv, GoodRule
  <2>. QED
    BY <2>1, <2>2, <2>3, <2>4
<1>. QED
  BY <1>3, <1>4, <1>5, <1>6, <1>7 DEF IInv

LEMMA StepIInv == IInv /\ [Next]_vars => IInv'
<1> SUFFICES ASSUME IInv, [Next]_vars PROVE IInv'
  OBVIOUS
<1>1. ASSUME NEW c \in Char, Consume(c) PROVE IInv'
  BY <1>1, ConsumeIInv, ParserAssumption
<1>2. ASSUME NEW c \in Char, Reject(c) PROVE IInv'
  BY <1>2, ParserAssumption DEF IInv, Reject
<1>3. CASE UNCHANGED vars
  BY <1>3 DEF IInv, vars
<1>. QED
  BY <1>1, <1>2, <1>3 DEF Next

LEMMA Invariance == Spec => []IInv
<1>1. Init => IInv
  BY DEF Init, IInv, State, InHeader, Headers
<1>. QED
  BY <1>1, StepIInv, PTL DEF Spec

\* headers.back() is never taken of an empty vector.
THEOREM ParserHasHeader == Spec => []HasHeader
<1>1. IInv => HasHeader
  BY DEF IInv, HasHeader, InHeader
<1>. QED
  BY <1>1, Invariance, PTL

\* No field of a request holds a character it must not hold.
THEOREM ParserFieldsClean == Spec => []FieldsClean
<1>1. IInv => FieldsClean
  BY DEF IInv, FieldsClean, Headers
<1>. QED
  BY <1>1, Invariance, PTL
-----------------------------------------------------------------------------
(* The language of the parser: a request that has been read so far is cut  *)
(* into lines by the line ends in it, and the state says how much of the   *)
(* last line there is.  Lines are told by their first and last place.      *)

Run(s, i, j, S) == \A x \in i .. j : s[x] \in S

\* A method, a blank at i, a uri, a blank at j.
MethodUri(s, i, j) ==
    /\ 1 < i /\ i < j
    /\ Run(s, 1, i - 1, TokenChar) /\ s[i] = "SP"
    /\ Run(s, i + 1, j - 1, TextChar \ {"SP"}) /\ s[j] = "SP"

\* The first n characters of "HTTP/" behind j.
Http(s, j, n) ==
    /\ n >= 1 => s[j + 1] = "H"
    /\ n >= 2 => s[j + 2] = "T"
    /\ n >= 3 => s[j + 3] = "T"
    /\ n >= 4 => s[j + 4] = "P"
    /\ n >= 5 => s[j + 5] = "/"

RequestAt(s, n) ==
    \E i, j, k \in 1 .. n :
        /\ MethodUri(s, i, j) /\ Http(s, j, 5)
        /\ j + 6 < k /\ k < n
        /\ Run(s, j + 6, k - 1, {"1"}) /\ s[k] = "." /\ Run(s, k + 1, n, {"1"})

HeaderAt(s, b, n) ==
    \E i \in b + 1 .. n - 1 :
        /\ Run(s, b, i - 1, TokenChar) /\ s[i] = ":" /\ s[i + 1] = "SP"
        /\ Run(s, i + 2, n, TextChar)

FoldedAt(s, b, n) ==
    \E i \in b .. n : Run(s, b, i, {"SP", "HT"}) /\ Run(s, i + 1, n, TextChar)

\* There is a line end before the one at i.
Later(s, i) == \E k \in LineEnds(s) : k < i

\* The lines that have ended are the lines of a request.
Lines(s) ==
    /\ \A j \in LineEnds(s) : (\A k \in LineEnds(s) : j <= k) => RequestAt(s, j - 1)
    /\ \A i, j \in LineEnds(s) :
          i < j /\ (\A k \in LineEnds(s) : k <= i \/ j <= k)
          => HeaderAt(s, i + 2, j - 1) \/ (Later(s, i) /\ FoldedAt(s, i + 2, j - 1))

\* The last line, which has not ended, begins at b.
Begins(s, b) ==
    \/ b = 1 /\ LineEnds(s) = {}
    \/ b - 2 \in LineEnds(s) /\ \A k \in LineEnds(s) : k <= b - 2

LineStates == {"method_start", "method", "uri", "http_version_h", "http_version_t_1",
    "http_version_t_2", "http_version_p", "http_version_slash",
    "http_version_major_start", "http_version_major", "http_version_minor_start",
    "http_version_minor", "expecting_newline_1"}

Newline == {"expecting_newline_1", "expecting_newline_2", "expecting_newline_3"}

\* What has been read of the request line, up to n, in each state.
LineShape(st, s, n) ==
    /\ st = "method_start" => n = 0
    /\ st = "method" => n > 0 /\ Run(s, 1, n, TokenChar)
    /\ st = "uri" => \E i \in 2 .. n :
          /\ Run(s, 1, i - 1, TokenChar) /\ s[i] = "SP"
          /\ Run(s, i + 1, n, TextChar \ {"SP"})
    /\ st = "http_version_h" => \E i \in 1 .. n : MethodUri(s, i, n)
    /\ st = "http_version_t_1" => \E i \in 1 .. n : MethodUri(s, i, n - 1) /\ Http(s, n - 1, 1)
    /\ st = "http_version_t_2" => \E i \in 1 .. n : MethodUri(s, i, n - 2) /\ Http(s, n - 2, 2)
    /\ st = "http_version_p" => \E i \in 1 .. n : MethodUri(s, i, n - 3) /\ Http(s, n - 3, 3)
    /\ st = "http_version_slash" => \E i \in 1 .. n : MethodUri(s, i, n - 4) /\ Http(s, n - 4, 4)
    /\ st = "http_version_major_start" => \E i \in 1 .. n : MethodUri(s, i, n - 5) /\ Http(s, n - 5, 5)
    /\ st = "http_version_major" => \E i, j \in 1 .. n :
          MethodUri(s, i, j) /\ Http(s, j, 5) /\ j + 6 <= n /\ Run(s, j + 6, n, {"1"})
    /\ st = "http_version_minor_start" => \E i, j \in 1 .. n :
          /\ MethodUri(s, i, j) /\ Http(s, j, 5)
          /\ j + 6 < n /\ Run(s, j + 6, n - 1, {"1"}) /\ s[n] = "."
    /\ st = "http_version_minor" => RequestAt(s, n)
    /\ st = "expecting_newline_1" => n > 0 /\ s[n] = "CR" /\ RequestAt(s, n - 1)

\* What has been read of a line behind it that begins at b.
HeaderShape(st, s, b, n) ==
    /\ st = "header_line_start" => n = b - 1
    /\ st = "header_lws" => n >= b /\ Later(s, b - 2) /\ Run(s, b, n, {"SP", "HT"})
    /\ st = "header_name" => n >= b /\ Run(s, b, n, TokenChar)
    /\ st = "space_before_header_value" => n > b /\ Run(s, b, n - 1, TokenChar) /\ s[n] = ":"
    /\ st = "header_value" => HeaderAt(s, b, n) \/ (Later(s, b - 2) /\ FoldedAt(s, b, n))
    /\ st = "expecting_newline_2" =>
          /\ n >= b /\ s[n] = "CR"
          /\ HeaderAt(s, b, n - 1) \/ (Later(s, b - 2) /\ FoldedAt(s, b, n - 1))
    /\ st = "expecting_newline_3" => n = b /\ s[n] = "CR"

\* What is known of the text s in state st, with the headers h, while the parser
\* asks for more.
Reading(st, h, s, b) ==
    /\ b \in 1 .. Len(s) + 1 /\ Lines(s) /\ Begins(s, b)
    /\ st \in LineStates => b = 1 /\ h = <<>> /\ LineShape(st, s, Len(s))
    /\ st \notin LineStates => b > 1 /\ HeaderShape(st, s, b, Len(s))
    /\ st = "header_line_start" /\ h # <<>> => Later(s, b - 2)
    /\ Len(s) > 0 /\ s[Len(s)] = "CR" => st \in Newline

TextInv ==
    /\ IInv
    /\ result = "indeterminate" => \E b \in 1 .. Len(read) + 1 : Reading(state, headers, read, b)
    /\ GoodIsRequest
-----------------------------------------------------------------------------
\* What follows about a text s and the text t that agrees with it up to n.
Agree(s, t, n) == \A x \in 1 .. n : t[x] = s[x]

LEMMA CharClasses == Token = TokenChar /\ Text = TextChar /\ is_digit = {"1"}
BY DEF Token, TokenChar, Text, TextChar, AllChars, is_ctl, is_tspecial, is_char, is_digit

LEMMA OneMore ==
    ASSUME NEW s \in Seq(AllChars), NEW c \in AllChars
    PROVE  /\ Append(s, c) \in Seq(AllChars) /\ Len(s) \in Nat /\ Len(Append(s, c)) = Len(s) + 1
           /\ Append(s, c)[Len(s) + 1] = c /\ Agree(s, Append(s, c), Len(s))
BY DEF Agree

LEMMA RunKept ==
    ASSUME NEW s, NEW t, NEW n \in Nat, Agree(s, t, n),
           NEW i \in Nat \ {0}, NEW j \in Int, j <= n, NEW S, Run(s, i, j, S)
    PROVE  Run(t, i, j, S)
BY DEF Run, Agree

LEMMA MethodUriKept ==
    ASSUME NEW s, NEW t, NEW n \in Nat, Agree(s, t, n),
           NEW i \in Nat, NEW j \in Nat, j <= n, MethodUri(s, i, j)
    PROVE  MethodUri(t, i, j)
<1>1. 1 < i /\ i < j
  BY DEF MethodUri
<1>2. Run(t, 1, i - 1, TokenChar) /\ Run(t, i + 1, j - 1, TextChar \ {"SP"})
  BY <1>1, RunKept DEF MethodUri
<1>3. t[i] = s[i] /\ t[j] = s[j]
  BY <1>1 DEF Agree
<1>. QED
  BY <1>1, <1>2, <1>3 DEF MethodUri

LEMMA HttpKept ==
    ASSUME NEW s, NEW t, NEW n \in Nat, Agree(s, t, n),
           NEW j \in Nat, NEW m \in 0 .. 5, j + m <= n, Http(s, j, m)
    PROVE  Http(t, j, m)
BY DEF Http, Agree

LEMMA RequestKept ==
    ASSUME NEW s, NEW t, NEW n \in Nat, Agree(s, t, n), NEW m \in Int, m <= n, RequestAt(s, m)
    PROVE  RequestAt(t, m)
<1>1. PICK i, j, k \in 1 .. m :
        /\ MethodUri(s, i, j) /\ Http(s, j, 5)
        /\ j + 6 < k /\ k < m
        /\ Run(s, j + 6, k - 1, {"1"}) /\ s[k] = "." /\ Run(s, k + 1, m, {"1"})
  BY DEF RequestAt
<1>2. MethodUri(t, i, j) /\ Http(t, j, 5)
  BY <1>1, MethodUriKept, HttpKept
<1>3. Run(t, j + 6, k - 1, {"1"}) /\ Run(t, k + 1, m, {"1"})
  BY <1>1, RunKept
<1>4. t[k] = s[k]
  BY <1>1 DEF Agree
<1>. QED
  BY <1>1, <1>2, <1>3, <1>4 DEF RequestAt

LEMMA HeaderKept ==
    ASSUME NEW s, NEW t, NEW n \in Nat, Agree(s, t, n),
           NEW b \in Nat \ {0}, NEW m \in Int, m <= n, HeaderAt(s, b, m)
    PROVE  HeaderAt(t, b, m)
<1>1. PICK i \in b + 1 .. m - 1 :
        /\ Run(s, b, i - 1, TokenChar) /\ s[i] = ":" /\ s[i + 1] = "SP"
        /\ Run(s, i + 2, m, TextChar)
  BY DEF HeaderAt
<1>2. Run(t, b, i - 1, TokenChar) /\ Run(t, i + 2, m, TextChar)
  BY <1>1, RunKept
<1>3. t[i] = s[i] /\ t[i + 1] = s[i + 1]
  BY <1>1 DEF Agree
<1>. QED
  BY <1>1, <1>2, <1>3 DEF HeaderAt

LEMMA FoldedKept ==
    ASSUME NEW s, NEW t, NEW n \in Nat, Agree(s, t, n),
           NEW b \in Nat \ {0}, NEW m \in Int, m <= n, FoldedAt(s, b, m)
    PROVE  FoldedAt(t, b, m)
<1>1. PICK i \in b .. m : Run(s, b, i, {"SP", "HT"}) /\ Run(s, i + 1, m, TextChar)
  BY DEF FoldedAt
<1>2. Run(t, b, i, {"SP", "HT"}) /\ Run(t, i + 1, m, TextChar)
  BY <1>1, RunKept
<1>. QED
  BY <1>1, <1>2 DEF FoldedAt

\* The line ends after one more character.
LEMMA EndsKept ==
    ASSUME NEW s \in Seq(AllChars), NEW c \in AllChars,
           ~(Len(s) > 0 /\ s[Len(s)] = "CR" /\ c = "LF")
    PROVE  LineEnds(Append(s, c)) = LineEnds(s)
<1> DEFINE t == Append(s, c)
           n == Len(s)
<1>1. n \in Nat /\ Len(t) = n + 1 /\ t[n + 1] = c /\ Agree(s, t, n)
  BY OneMore
<1> HIDE DEF t
<1>2. LineEnds(t) = {i \in 1 .. n : t[i] = "CR" /\ t[i + 1] = "LF"}
  BY <1>1 DEF LineEnds
<1>3. \A i \in 1 .. n : t[i] = s[i] /\ (i < n => t[i + 1] = s[i + 1])
  BY <1>1 DEF Agree
<1> HIDE DEF n
<1>4. LineEnds(s) = {i \in 1 .. n - 1 : s[i] = "CR" /\ s[i + 1] = "LF"}
  BY DEF LineEnds, n
<1>5. n > 0 => s[n] # "CR" \/ c # "LF"
  BY DEF n
<1>. QED
  BY <1>1, <1>2, <1>3, <1>4, <1>5 DEF t

LEMMA EndsMore ==
    ASSUME NEW s \in Seq(AllChars), Len(s) > 0, s[Len(s)] = "CR"
    PROVE  LineEnds(Append(s, "LF")) = LineEnds(s) \cup {Len(s)}
<1> DEFINE t == Append(s, "LF")
           n == Len(s)
<1>0. "LF" \in AllChars
  BY DEF AllChars
<1>1. n \in Nat /\ Len(t) = n + 1 /\ t[n + 1] = "LF" /\ Agree(s, t, n)
  BY <1>0, OneMore
<1> HIDE DEF t
<1>2. LineEnds(t) = {i \in 1 .. n : t[i] = "CR" /\ t[i + 1] = "LF"}
  BY <1>1 DEF LineEnds
<1>3. \A i \in 1 .. n : t[i] = s[i] /\ (i < n => t[i + 1] = s[i + 1])
  BY <1>1 DEF Agree
<1> HIDE DEF n
<1>4. LineEnds(s) = {i \in 1 .. n - 1 : s[i] = "CR" /\ s[i + 1] = "LF"}
  BY DEF LineEnds, n
<1>5. n > 0 /\ s[n] = "CR"
  BY DEF n
<1>6. LineEnds(t) = LineEnds(s) \cup {n}
  BY <1>1, <1>2, <1>3, <1>4, <1>5
<1>. QED
  BY <1>6 DEF t, n

LEMMA EndsPlace ==
    ASSUME NEW s \in Seq(AllChars), NEW i \in LineEnds(s)
    PROVE  i \in 1 .. Len(s) - 1 /\ Len(s) \in Nat
BY DEF LineEnds

\* The lines that have ended are what they were.
LEMMA LinesKept ==
    ASSUME NEW s \in Seq(AllChars), NEW t \in Seq(AllChars),
           Agree(s, t, Len(s)), LineEnds(t) = LineEnds(s), Lines(s)
    PROVE  Lines(t)
<1> DEFINE E == LineEnds(s)
           n == Len(s)
<1>0. n \in Nat /\ \A i \in E : i \in 1 .. n - 1
  BY EndsPlace
<1>1. ASSUME NEW j \in E, \A k \in E : j <= k PROVE RequestAt(t, j - 1)
  <2>1. RequestAt(s, j - 1)
    BY <1>1 DEF Lines
  <2>2. j - 1 \in Int /\ j - 1 <= n
    BY <1>0
  <2> HIDE DEF n
  <2>. QED
    BY <1>0, <2>1, <2>2, RequestKept DEF n
<1>2. ASSUME NEW i \in E, NEW j \in E, i < j, \A k \in E : k <= i \/ j <= k
      PROVE  HeaderAt(t, i + 2, j - 1) \/ (Later(t, i) /\ FoldedAt(t, i + 2, j - 1))
  <2>1. HeaderAt(s, i + 2, j - 1) \/ (Later(s, i) /\ FoldedAt(s, i + 2, j - 1))
    BY <1>2 DEF Lines
  <2>2. i + 2 \in Nat \ {0} /\ j - 1 \in Int /\ j - 1 <= n
    BY <1>0
  <2>3. Later(s, i) => Later(t, i)
    BY DEF Later
  <2>. QED
    BY <1>0, <2>1, <2>2, <2>3, HeaderKept, FoldedKept
<1>. QED
  BY <1>1, <1>2 DEF Lines

\* A line that is one of a request has ended.
Ended(s, b) ==
    /\ b = 1 => RequestAt(s, Len(s) - 1)
    /\ b > 1 => \/ HeaderAt(s, b, Len(s) - 1)
                \/ Later(s, b - 2) /\ FoldedAt(s, b, Len(s) - 1)

LEMMA LinesMore ==
    ASSUME NEW s \in Seq(AllChars), Len(s) > 0, s[Len(s)] = "CR", Lines(s),
           NEW b \in 1 .. Len(s) + 1, Begins(s, b), Ended(s, b)
    PROVE  Lines(Append(s, "LF")) /\ Begins(Append(s, "LF"), Len(s) + 2)
<1> DEFINE t == Append(s, "LF")
           n == Len(s)
           E == LineEnds(s)
           F == LineEnds(t)
<1>0. "LF" \in AllChars
  BY DEF AllChars
<1>1. n \in Nat /\ n > 0 /\ Agree(s, t, n) /\ F = E \cup {n}
  BY <1>0, OneMore, EndsMore
<1>2. \A i \in E : i \in 1 .. n - 1
  BY EndsPlace
<1>3. Begins(s, b) /\ b \in 1 .. n + 1
  OBVIOUS
<1>4. Begins(s, b) <=> (b = 1 /\ E = {}) \/ (b - 2 \in E /\ \A k \in E : k <= b - 2)
  BY DEF Begins
<1>5. \A i : Later(s, i) => Later(t, i)
  BY <1>1 DEF Later
<1>6. Ended(s, b)
  OBVIOUS
<1>7. /\ \A j \in E : (\A k \in E : j <= k) => RequestAt(s, j - 1)
      /\ \A i, j \in E :
            i < j /\ (\A k \in E : k <= i \/ j <= k)
            => HeaderAt(s, i + 2, j - 1) \/ (Later(s, i) /\ FoldedAt(s, i + 2, j - 1))
  BY DEF Lines
<1>8. /\ b = 1 => RequestAt(s, n - 1)
      /\ b > 1 => HeaderAt(s, b, n - 1) \/ (Later(s, b - 2) /\ FoldedAt(s, b, n - 1))
  BY <1>6 DEF Ended
<1> HIDE DEF n, E, F, t
<1>9. ASSUME NEW j \in F, \A k \in F : j <= k PROVE RequestAt(t, j - 1)
  <2>1. RequestAt(s, j - 1) /\ j - 1 \in Int /\ j - 1 <= n
    <3>1. CASE E = {}
      <4>1. b = 1 /\ j = n
        BY <1>1, <1>3, <1>4, <3>1
      <4>. QED
        BY <1>1, <1>8, <4>1
    <3>2. CASE E # {}
      <4>1. j \in E
        BY <1>1, <1>2, <1>9, <3>2
      <4>. QED
        BY <1>1, <1>2, <1>7, <1>9, <4>1
    <3>. QED
      BY <3>1, <3>2
  <2>. QED
    BY <1>1, <2>1, RequestKept
<1>10. ASSUME NEW i \in F, NEW j \in F, i < j, \A k \in F : k <= i \/ j <= k
       PROVE  HeaderAt(t, i + 2, j - 1) \/ (Later(t, i) /\ FoldedAt(t, i + 2, j - 1))
  <2>1. i \in E /\ i \in 1 .. n - 1 /\ j \in 1 .. n
    BY <1>1, <1>2, <1>10
  <2>2. HeaderAt(s, i + 2, j - 1) \/ (Later(s, i) /\ FoldedAt(s, i + 2, j - 1))
    <3>1. CASE j = n
      <4>1. b - 2 \in E /\ \A k \in E : k <= b - 2
        BY <1>3, <1>4, <2>1
      <4>2. b - 2 = i
        BY <1>1, <1>2, <1>10, <2>1, <3>1, <4>1
      <4>3. i + 2 = b /\ b > 1
        BY <1>3, <2>1, <4>2
      <4>. QED
        BY <1>8, <3>1, <4>2, <4>3
    <3>2. CASE j # n
      BY <1>1, <1>7, <1>10, <2>1, <3>2
    <3>. QED
      BY <3>1, <3>2
  <2>3. i + 2 \in Nat \ {0} /\ j - 1 \in Int /\ j - 1 <= n
    BY <1>1, <2>1
  <2>. QED
    BY <1>1, <1>5, <2>2, <2>3, HeaderKept, FoldedKept
<1>11. Lines(t)
  BY <1>9, <1>10 DEF Lines, F
<1>12. Begins(t, n + 2)
  <2>1. (n + 2) - 2 = n /\ n \in F /\ \A k \in F : k <= n
    BY <1>1, <1>2
  <2>. QED
    BY <2>1 DEF Begins, F
<1>. QED
  BY <1>11, <1>12 DEF t, n
-----------------------------------------------------------------------------
\* The rules of the request line, and where a character takes them.
LineMove(st, c, to) ==
    /\ st = "method_start" => c \in TokenChar /\ to = "method"
    /\ st = "method" => (c = "SP" /\ to = "uri") \/ (c \in TokenChar /\ to = "method")
    /\ st = "uri" => \/ c = "SP" /\ to = "http_version_h"
                     \/ c \in TextChar \ {"SP"} /\ to = "uri"
    /\ st = "http_version_h" => c = "H" /\ to = "http_version_t_1"
    /\ st = "http_version_t_1" => c = "T" /\ to = "http_version_t_2"
    /\ st = "http_version_t_2" => c = "T" /\ to = "http_version_p"
    /\ st = "http_version_p" => c = "P" /\ to = "http_version_slash"
    /\ st = "http_version_slash" => c = "/" /\ to = "http_version_major_start"
    /\ st = "http_version_major_start" => c = "1" /\ to = "http_version_major"
    /\ st = "http_version_major" => \/ c = "." /\ to = "http_version_minor_start"
                                    \/ c = "1" /\ to = "http_version_major"
    /\ st = "http_version_minor_start" => c = "1" /\ to = "http_version_minor"
    /\ st = "http_version_minor" => \/ c = "CR" /\ to = "expecting_newline_1"
                                    \/ c = "1" /\ to = "http_version_minor"
    /\ st = "expecting_newline_1" => c = "LF" /\ to = "header_line_start"

\* The rules of the lines behind it.
HeaderMove(st, c, to) ==
    /\ st = "header_line_start" =>
          \/ c = "CR" /\ to = "expecting_newline_3"
          \/ c \in TokenChar /\ to = "header_name"
          \/ c \in {"SP", "HT"} /\ to = "header_lws" /\ headers # <<>>
    /\ st = "header_lws" => \/ c = "CR" /\ to = "expecting_newline_2"
                            \/ c \in {"SP", "HT"} /\ to = "header_lws"
                            \/ c \in TextChar /\ to = "header_value"
    /\ st = "header_name" => \/ c = ":" /\ to = "space_before_header_value"
                             \/ c \in TokenChar /\ to = "header_name"
    /\ st = "space_before_header_value" => c = "SP" /\ to = "header_value"
    /\ st = "header_value" => \/ c = "CR" /\ to = "expecting_newline_2"
                              \/ c \in TextChar /\ to = "header_value"
    /\ st = "expecting_newline_2" => c = "LF" /\ to = "header_line_start"
    /\ st = "expecting_newline_3" => c = "LF" /\ to = "expecting_newline_3"

LEMMA LineMoves ==
    ASSUME NEW r \in Rules, r.s \in LineStates, NEW c \in r.on
    PROVE  /\ LineMove(r.s, c, r.to) /\ c \in AllChars
           /\ r.put \notin {"header", "name", "value"}
<1>1. r \in StartRules \cup LineRules
  <2>1. r \notin FoldRules
    BY DEF FoldRules, Rule, LineStates
  <2>2. r \notin ColonRules
    BY DEF ColonRules, Rule, LineStates
  <2>3. r \notin HeaderRules
    BY DEF HeaderRules, Rule, LineStates
  <2>. QED
    BY <2>1, <2>2, <2>3 DEF Rules
<1>2. CASE r \in StartRules
  BY <1>2, CharClasses DEF StartRules, Rule, LineMove, TokenChar, AllChars
<1>3. CASE r \in LineRules
  <2>1. LineMove(r.s, c, r.to)
    BY <1>3, CharClasses DEF LineRules, Rule, LineMove
  <2>2. r.put \notin {"header", "name", "value"}
    BY <1>3 DEF LineRules, Rule
  <2>3. c \in AllChars
    BY <1>3, CharClasses DEF LineRules, Rule, TokenChar, TextChar, AllChars
  <2>. QED
    BY <2>1, <2>2, <2>3
<1>. QED
  BY <1>1, <1>2, <1>3

LEMMA HeaderMoves ==
    ASSUME NEW r \in Rules, r.s \notin LineStates, NEW c \in r.on
    PROVE  HeaderMove(r.s, c, r.to) /\ c \in AllChars
<1>1. r \in FoldRules \cup ColonRules \cup HeaderRules
  <2>1. r \notin StartRules
    BY DEF StartRules, Rule, LineStates
  <2>2. r \notin LineRules
    BY DEF LineRules, Rule, LineStates
  <2>. QED
    BY <2>1, <2>2 DEF Rules
<1>2. CASE r \in FoldRules \cup ColonRules
  BY <1>2 DEF FoldRules, ColonRules, Rule, HeaderMove, AllChars
<1>3. CASE r \in HeaderRules
  <2>1. HeaderMove(r.s, c, r.to)
    BY <1>3, CharClasses DEF HeaderRules, Rule, HeaderMove
  <2>2. c \in AllChars
    BY <1>3, CharClasses DEF HeaderRules, Rule, TokenChar, TextChar, AllChars
  <2>. QED
    BY <2>1, <2>2
<1>. QED
  BY <1>1, <1>2, <1>3

LEMMA RunMore ==
    ASSUME NEW t, NEW n \in Nat, NEW i \in Nat, NEW S, Run(t, i, n, S), t[n + 1] \in S
    PROVE  Run(t, i, n + 1, S)
BY DEF Run

\* One more character of "HTTP/".
LEMMA HttpStep ==
    ASSUME NEW s \in Seq(AllChars), NEW c \in AllChars, NEW m \in 0 .. 4,
           NEW i \in 1 .. Len(s), MethodUri(s, i, Len(s) - m), Http(s, Len(s) - m, m),
           c = <<"H", "T", "T", "P", "/">>[m + 1]
    PROVE  LET t == Append(s, c)
           IN  /\ i \in 1 .. Len(t)
               /\ MethodUri(t, i, Len(t) - (m + 1)) /\ Http(t, Len(t) - (m + 1), m + 1)
<1> DEFINE t == Append(s, c)
           n == Len(s)
           j == n - m
<1>1. n \in Nat /\ Len(t) = n + 1 /\ t[n + 1] = c /\ Agree(s, t, n)
  BY OneMore
<1>2. i \in 1 .. n /\ MethodUri(s, i, j) /\ Http(s, j, m)
  OBVIOUS
<1> HIDE DEF t, n
<1>3. i < j /\ j \in Nat /\ j <= n /\ j + m = n /\ Len(t) - (m + 1) = j
  BY <1>1, <1>2 DEF MethodUri
<1> HIDE DEF j
<1>4. MethodUri(t, i, j) /\ Http(t, j, m)
  BY <1>1, <1>2, <1>3, MethodUriKept, HttpKept
<1>5. t[j + (m + 1)] = <<"H", "T", "T", "P", "/">>[m + 1]
  BY <1>1, <1>3
<1>6. Http(t, j, m + 1)
  BY <1>3, <1>4, <1>5 DEF Http
<1>. QED
  BY <1>1, <1>2, <1>3, <1>4, <1>6 DEF t, n

\* A character of the request line.
LEMMA LineStep ==
    ASSUME NEW s \in Seq(AllChars), NEW c \in AllChars, NEW st \in LineStates, NEW to \in LineStates,
           LineShape(st, s, Len(s)), LineMove(st, c, to)
    PROVE  LineShape(to, Append(s, c), Len(s) + 1)
<1> DEFINE t == Append(s, c)
           n == Len(s)
<1>1. n \in Nat /\ Len(t) = n + 1 /\ t[n + 1] = c /\ Agree(s, t, n)
  BY OneMore
<1>2. LineShape(st, s, n)
  OBVIOUS
<1>3. ASSUME NEW m \in 0 .. 4, c = <<"H", "T", "T", "P", "/">>[m + 1],
             \E i \in 1 .. n : MethodUri(s, i, n - m) /\ Http(s, n - m, m)
      PROVE  \E i \in 1 .. n + 1 : MethodUri(t, i, n - m) /\ Http(t, n - m, m + 1)
  <2>1. PICK i \in 1 .. n : MethodUri(s, i, n - m) /\ Http(s, n - m, m)
    BY <1>3
  <2>2. i \in 1 .. Len(t) /\ MethodUri(t, i, Len(t) - (m + 1)) /\ Http(t, Len(t) - (m + 1), m + 1)
    BY <1>3, <2>1, HttpStep
  <2> HIDE DEF t, n
  <2>3. Len(t) - (m + 1) = n - m
    BY <1>1
  <2>. QED
    BY <1>1, <2>2, <2>3
<1> HIDE DEF t, n
<1>4. CASE st = "method_start"
  <2>1. n = 0 /\ c \in TokenChar /\ to = "method"
    BY <1>2, <1>4 DEF LineShape, LineMove
  <2>. QED
    BY <1>1, <2>1 DEF LineShape, Run, t, n
<1>5. CASE st = "method"
  <2>1. n > 0 /\ Run(t, 1, n, TokenChar)
    BY <1>1, <1>2, <1>5, RunKept DEF LineShape
  <2>2. CASE c = "SP" /\ to = "uri"
    <3>1. Run(t, 1, (n + 1) - 1, TokenChar) /\ t[n + 1] = "SP" /\ Run(t, (n + 1) + 1, n + 1, TextChar \ {"SP"})
      BY <1>1, <2>1, <2>2 DEF Run
    <3>. QED
      BY <1>1, <2>1, <2>2, <3>1 DEF LineShape, t, n
  <2>3. CASE c \in TokenChar /\ to = "method"
    <3>1. Run(t, 1, n + 1, TokenChar)
      BY <1>1, <2>1, <2>3, RunMore
    <3>. QED
      BY <1>1, <2>3, <3>1 DEF LineShape, t, n
  <2>. QED
    BY <1>5, <2>2, <2>3 DEF LineMove
<1>6. CASE st = "uri"
  <2>1. PICK i \in 2 .. n : /\ Run(s, 1, i - 1, TokenChar) /\ s[i] = "SP"
                            /\ Run(s, i + 1, n, TextChar \ {"SP"})
    BY <1>2, <1>6 DEF LineShape
  <2>2. /\ Run(t, 1, i - 1, TokenChar) /\ t[i] = "SP"
        /\ Run(t, i + 1, n, TextChar \ {"SP"})
    <3>1. t[i] = s[i] /\ i \in Nat
      BY <1>1, <2>1 DEF Agree
    <3>. QED
      BY <1>1, <2>1, <3>1, RunKept
  <2>3. CASE c = "SP" /\ to = "http_version_h"
    <3>1. MethodUri(t, i, n + 1)
      BY <1>1, <2>2, <2>3 DEF MethodUri
    <3>. QED
      BY <1>1, <2>3, <3>1 DEF LineShape, t, n
  <2>4. CASE c \in TextChar \ {"SP"} /\ to = "uri"
    <3>1. Run(t, i + 1, n + 1, TextChar \ {"SP"})
      BY <1>1, <2>2, <2>4, RunMore
    <3>. QED
      BY <1>1, <2>2, <2>4, <3>1 DEF LineShape, t, n
  <2>. QED
    BY <1>6, <2>3, <2>4 DEF LineMove
<1>7. CASE st = "http_version_h"
  <2>1. c = "H" /\ to = "http_version_t_1" /\ \E i \in 1 .. n : MethodUri(s, i, n - 0) /\ Http(s, n - 0, 0)
    BY <1>1, <1>2, <1>7 DEF LineShape, LineMove, Http
  <2>2. \E i \in 1 .. n + 1 : MethodUri(t, i, n - 0) /\ Http(t, n - 0, 0 + 1)
    BY <1>3, <2>1
  <2>3. n - 0 = (n + 1) - 1
    BY <1>1
  <2>. QED
    BY <2>1, <2>2, <2>3 DEF LineShape, t, n
<1>8. CASE st = "http_version_t_1"
  <2>1. c = "T" /\ to = "http_version_t_2" /\ \E i \in 1 .. n : MethodUri(s, i, n - 1) /\ Http(s, n - 1, 1)
    BY <1>1, <1>2, <1>8 DEF LineShape, LineMove
  <2>2. \E i \in 1 .. n + 1 : MethodUri(t, i, n - 1) /\ Http(t, n - 1, 1 + 1)
    BY <1>3, <2>1
  <2>3. n - 1 = (n + 1) - 2
    BY <1>1
  <2>. QED
    BY <2>1, <2>2, <2>3 DEF LineShape, t, n
<1>9. CASE st = "http_version_t_2"
  <2>1. c = "T" /\ to = "http_version_p" /\ \E i \in 1 .. n : MethodUri(s, i, n - 2) /\ Http(s, n - 2, 2)
    BY <1>1, <1>2, <1>9 DEF LineShape, LineMove
  <2>2. \E i \in 1 .. n + 1 : MethodUri(t, i, n - 2) /\ Http(t, n - 2, 2 + 1)
    BY <1>3, <2>1
  <2>3. n - 2 = (n + 1) - 3
    BY <1>1
  <2>. QED
    BY <2>1, <2>2, <2>3 DEF LineShape, t, n
<1>10. CASE st = "http_version_p"
  <2>1. c = "P" /\ to = "http_version_slash" /\ \E i \in 1 .. n : MethodUri(s, i, n - 3) /\ Http(s, n - 3, 3)
    BY <1>1, <1>2, <1>10 DEF LineShape, LineMove
  <2>2. \E i \in 1 .. n + 1 : MethodUri(t, i, n - 3) /\ Http(t, n - 3, 3 + 1)
    BY <1>3, <2>1
  <2>3. n - 3 = (n + 1) - 4
    BY <1>1
  <2>. QED
    BY <2>1, <2>2, <2>3 DEF LineShape, t, n
<1>11. CASE st = "http_version_slash"
  <2>1. c = "/" /\ to = "http_version_major_start" /\ \E i \in 1 .. n : MethodUri(s, i, n - 4) /\ Http(s, n - 4, 4)
    BY <1>1, <1>2, <1>11 DEF LineShape, LineMove
  <2>2. \E i \in 1 .. n + 1 : MethodUri(t, i, n - 4) /\ Http(t, n - 4, 4 + 1)
    BY <1>3, <2>1
  <2>3. n - 4 = (n + 1) - 5
    BY <1>1
  <2>. QED
    BY <2>1, <2>2, <2>3 DEF LineShape, t, n
<1>12. CASE st = "http_version_major_start"
  <2>1. c = "1" /\ to = "http_version_major"
    BY <1>12 DEF LineMove
  <2>2. PICK i \in 1 .. n : MethodUri(s, i, n - 5) /\ Http(s, n - 5, 5)
    BY <1>2, <1>12 DEF LineShape
  <2>3. i < n - 5 /\ n - 5 \in Nat /\ n - 5 >= 1 /\ (n - 5) + 6 = n + 1
    BY <1>1, <2>2 DEF MethodUri
  <2>4. MethodUri(t, i, n - 5) /\ Http(t, n - 5, 5)
    BY <1>1, <2>2, <2>3, MethodUriKept, HttpKept
  <2>5. Run(t, (n - 5) + 6, n + 1, {"1"})
    BY <1>1, <2>1, <2>3 DEF Run
  <2>6. i \in 1 .. n + 1 /\ n - 5 \in 1 .. n + 1 /\ (n - 5) + 6 <= n + 1
    BY <1>1, <2>3
  <2>7. \E i_1, j \in 1 .. n + 1 :
          MethodUri(t, i_1, j) /\ Http(t, j, 5) /\ j + 6 <= n + 1 /\ Run(t, j + 6, n + 1, {"1"})
    BY <2>4, <2>5, <2>6
  <2>. QED
    BY <2>1, <2>7 DEF LineShape, t, n
<1>13. CASE st = "http_version_major"
  <2>1. PICK i, j \in 1 .. n :
          MethodUri(s, i, j) /\ Http(s, j, 5) /\ j + 6 <= n /\ Run(s, j + 6, n, {"1"})
    BY <1>2, <1>13 DEF LineShape
  <2>2. MethodUri(t, i, j) /\ Http(t, j, 5) /\ Run(t, j + 6, n, {"1"})
    BY <1>1, <2>1, MethodUriKept, HttpKept, RunKept
  <2>3. CASE c = "." /\ to = "http_version_minor_start"
    <3>1. Run(t, j + 6, (n + 1) - 1, {"1"}) /\ i \in 1 .. n + 1 /\ j \in 1 .. n + 1 /\ j + 6 < n + 1
      BY <1>1, <2>1, <2>2
    <3>. QED
      BY <1>1, <2>2, <2>3, <3>1 DEF LineShape, t, n
  <2>4. CASE c = "1" /\ to = "http_version_major"
    <3>1. Run(t, j + 6, n + 1, {"1"}) /\ i \in 1 .. n + 1 /\ j \in 1 .. n + 1 /\ j + 6 <= n + 1
      BY <1>1, <2>1, <2>2, <2>4, RunMore
    <3>. QED
      BY <1>1, <2>2, <2>4, <3>1 DEF LineShape, t, n
  <2>. QED
    BY <1>13, <2>3, <2>4 DEF LineMove
<1>14. CASE st = "http_version_minor_start"
  <2>1. c = "1" /\ to = "http_version_minor"
    BY <1>14 DEF LineMove
  <2>2. PICK i, j \in 1 .. n :
          /\ MethodUri(s, i, j) /\ Http(s, j, 5)
          /\ j + 6 < n /\ Run(s, j + 6, n - 1, {"1"}) /\ s[n] = "."
    BY <1>2, <1>14 DEF LineShape
  <2>3. MethodUri(t, i, j) /\ Http(t, j, 5) /\ Run(t, j + 6, n - 1, {"1"}) /\ t[n] = "."
    <3>1. t[n] = s[n]
      BY <1>1, <2>2 DEF Agree
    <3>2. MethodUri(t, i, j) /\ Http(t, j, 5)
      BY <1>1, <2>2, MethodUriKept, HttpKept
    <3>. QED
      BY <1>1, <2>2, <3>1, <3>2, RunKept
  <2>4. Run(t, n + 1, n + 1, {"1"})
    BY <1>1, <2>1 DEF Run
  <2>5. i \in 1 .. n + 1 /\ j \in 1 .. n + 1 /\ n \in 1 .. n + 1 /\ n < n + 1
    BY <1>1, <2>2
  <2>6. RequestAt(t, n + 1)
    BY <2>2, <2>3, <2>4, <2>5 DEF RequestAt
  <2>. QED
    BY <2>1, <2>6 DEF LineShape, t, n
<1>15. CASE st = "http_version_minor"
  <2>1. RequestAt(s, n)
    BY <1>2, <1>15 DEF LineShape
  <2>2. RequestAt(t, n)
    BY <1>1, <2>1, RequestKept
  <2>3. CASE c = "CR" /\ to = "expecting_newline_1"
    <3>1. (n + 1) - 1 = n /\ n + 1 > 0
      BY <1>1
    <3>. QED
      BY <1>1, <2>2, <2>3, <3>1 DEF LineShape, t, n
  <2>4. CASE c = "1" /\ to = "http_version_minor"
    <3>1. PICK i, j, k \in 1 .. n :
            /\ MethodUri(t, i, j) /\ Http(t, j, 5)
            /\ j + 6 < k /\ k < n
            /\ Run(t, j + 6, k - 1, {"1"}) /\ t[k] = "." /\ Run(t, k + 1, n, {"1"})
      BY <2>2 DEF RequestAt
    <3>2. Run(t, k + 1, n + 1, {"1"})
      BY <1>1, <2>4, <3>1, RunMore
    <3>3. i \in 1 .. n + 1 /\ j \in 1 .. n + 1 /\ k \in 1 .. n + 1 /\ k < n + 1
      BY <1>1, <3>1
    <3>4. RequestAt(t, n + 1)
      BY <3>1, <3>2, <3>3 DEF RequestAt
    <3>. QED
      BY <2>4, <3>4 DEF LineShape, t, n
  <2>. QED
    BY <1>15, <2>3, <2>4 DEF LineMove
<1>16. st # "expecting_newline_1"
  BY DEF LineMove, LineStates
<1>. QED
  BY <1>4, <1>5, <1>6, <1>7, <1>8, <1>9, <1>10, <1>11, <1>12, <1>13, <1>14, <1>15, <1>16 DEF LineStates

\* A character of a line behind it, but for the one that ends it.
LEMMA HeaderStep ==
    ASSUME NEW s \in Seq(AllChars), NEW c \in AllChars, NEW st, NEW to,
           NEW b \in 1 .. Len(s) + 1,
           st \in {"header_line_start", "header_lws", "header_name",
                   "space_before_header_value", "header_value"},
           st = "header_line_start" /\ headers # <<>> => Later(s, b - 2),
           HeaderShape(st, s, b, Len(s)), HeaderMove(st, c, to)
    PROVE  HeaderShape(to, Append(s, c), b, Len(s) + 1)
<1> DEFINE t == Append(s, c)
           n == Len(s)
<1>1. n \in Nat /\ Len(t) = n + 1 /\ t[n + 1] = c /\ Agree(s, t, n) /\ b \in 1 .. n + 1
  BY OneMore
<1>2. HeaderShape(st, s, b, n) /\ (st = "header_line_start" /\ headers # <<>> => Later(s, b - 2))
  OBVIOUS
<1>3. Later(s, b - 2) => Later(t, b - 2)
  <2>1. LineEnds(s) \subseteq LineEnds(t)
    <3>1. CASE Len(s) > 0 /\ s[Len(s)] = "CR" /\ c = "LF"
      BY <3>1, EndsMore
    <3>2. CASE ~(Len(s) > 0 /\ s[Len(s)] = "CR" /\ c = "LF")
      BY <3>2, EndsKept
    <3>. QED
      BY <3>1, <3>2
  <2>. QED
    BY <2>1 DEF Later
<1> HIDE DEF t, n
<1>4. (n + 1) - 1 = n
  BY <1>1
<1>5. CASE st = "header_line_start"
  <2>1. n + 1 = b
    BY <1>1, <1>2, <1>5 DEF HeaderShape
  <2>2. \A S : c \in S => Run(t, b, n + 1, S)
    BY <1>1, <2>1 DEF Run
  <2>3. CASE c = "CR" /\ to = "expecting_newline_3"
    BY <1>1, <2>1, <2>3 DEF HeaderShape, t, n
  <2>4. CASE c \in TokenChar /\ to = "header_name"
    BY <1>1, <2>1, <2>2, <2>4 DEF HeaderShape, t, n
  <2>5. CASE c \in {"SP", "HT"} /\ to = "header_lws" /\ headers # <<>>
    BY <1>1, <1>2, <1>3, <1>5, <2>1, <2>2, <2>5 DEF HeaderShape, t, n
  <2>. QED
    BY <1>5, <2>3, <2>4, <2>5 DEF HeaderMove
<1>6. CASE st = "header_lws"
  <2>1. n >= b /\ Later(t, b - 2) /\ Run(t, b, n, {"SP", "HT"})
    BY <1>1, <1>2, <1>3, <1>6, RunKept DEF HeaderShape
  <2>2. CASE c = "CR" /\ to = "expecting_newline_2"
    <3>1. Run(t, n + 1, n, TextChar)
      BY <1>1 DEF Run
    <3>2. FoldedAt(t, b, n)
      BY <1>1, <2>1, <3>1 DEF FoldedAt
    <3>3. HeaderShape(to, t, b, n + 1)
      BY <1>1, <1>4, <2>1, <2>2, <3>2 DEF HeaderShape
    <3>. QED
      BY <3>3 DEF t, n
  <2>3. CASE c \in {"SP", "HT"} /\ to = "header_lws"
    <3>1. Run(t, b, n + 1, {"SP", "HT"})
      BY <1>1, <2>1, <2>3, RunMore
    <3>. QED
      BY <1>1, <2>1, <2>3, <3>1 DEF HeaderShape, t, n
  <2>4. CASE c \in TextChar /\ to = "header_value"
    <3>1. Run(t, n + 1, n + 1, TextChar)
      BY <1>1, <2>4 DEF Run
    <3>2. FoldedAt(t, b, n + 1)
      BY <1>1, <2>1, <3>1 DEF FoldedAt
    <3>. QED
      BY <2>1, <2>4, <3>2 DEF HeaderShape, t, n
  <2>. QED
    BY <1>6, <2>2, <2>3, <2>4 DEF HeaderMove
<1>7. CASE st = "header_name"
  <2>1. n >= b /\ Run(t, b, n, TokenChar)
    BY <1>1, <1>2, <1>7, RunKept DEF HeaderShape
  <2>2. CASE c = ":" /\ to = "space_before_header_value"
    <3>1. HeaderShape(to, t, b, n + 1)
      BY <1>1, <1>4, <2>1, <2>2 DEF HeaderShape
    <3>. QED
      BY <3>1 DEF t, n
  <2>3. CASE c \in TokenChar /\ to = "header_name"
    <3>1. Run(t, b, n + 1, TokenChar)
      BY <1>1, <2>1, <2>3, RunMore
    <3>. QED
      BY <1>1, <2>1, <2>3, <3>1 DEF HeaderShape, t, n
  <2>. QED
    BY <1>7, <2>2, <2>3 DEF HeaderMove
<1>8. CASE st = "space_before_header_value"
  <2>1. c = "SP" /\ to = "header_value"
    BY <1>8 DEF HeaderMove
  <2>2. n > b /\ Run(s, b, n - 1, TokenChar) /\ s[n] = ":"
    BY <1>2, <1>8 DEF HeaderShape
  <2>3. Run(t, b, n - 1, TokenChar) /\ t[n] = ":" /\ t[n + 1] = "SP"
    BY <1>1, <2>1, <2>2, RunKept DEF Agree
  <2>4. Run(t, n + 2, n + 1, TextChar) /\ n \in b + 1 .. (n + 1) - 1
    BY <1>1, <2>2 DEF Run
  <2>5. HeaderAt(t, b, n + 1)
    BY <2>3, <2>4 DEF HeaderAt
  <2>. QED
    BY <2>1, <2>5 DEF HeaderShape, t, n
<1>9. CASE st = "header_value"
  <2>1. HeaderAt(s, b, n) \/ (Later(s, b - 2) /\ FoldedAt(s, b, n))
    BY <1>2, <1>9 DEF HeaderShape
  <2>2. HeaderAt(t, b, n) \/ (Later(t, b - 2) /\ FoldedAt(t, b, n))
    BY <1>1, <1>3, <2>1, HeaderKept, FoldedKept
  <2>3. CASE c = "CR" /\ to = "expecting_newline_2"
    <3>1. n + 1 >= b
      BY <1>1
    <3>. QED
      BY <1>1, <1>4, <2>2, <2>3, <3>1 DEF HeaderShape, t, n
  <2>4. CASE c \in TextChar /\ to = "header_value"
    <3>1. ASSUME HeaderAt(t, b, n) PROVE HeaderAt(t, b, n + 1)
      <4>1. PICK i \in b + 1 .. n - 1 :
              /\ Run(t, b, i - 1, TokenChar) /\ t[i] = ":" /\ t[i + 1] = "SP"
              /\ Run(t, i + 2, n, TextChar)
        BY <3>1 DEF HeaderAt
      <4>2. Run(t, i + 2, n + 1, TextChar) /\ i \in b + 1 .. (n + 1) - 1
        BY <1>1, <2>4, <4>1, RunMore
      <4>. QED
        BY <4>1, <4>2 DEF HeaderAt
    <3>2. ASSUME FoldedAt(t, b, n) PROVE FoldedAt(t, b, n + 1)
      <4>1. PICK i \in b .. n : Run(t, b, i, {"SP", "HT"}) /\ Run(t, i + 1, n, TextChar)
        BY <3>2 DEF FoldedAt
      <4>2. Run(t, i + 1, n + 1, TextChar) /\ i \in b .. n + 1
        BY <1>1, <2>4, <4>1, RunMore
      <4>. QED
        BY <4>1, <4>2 DEF FoldedAt
    <3>3. HeaderAt(t, b, n + 1) \/ (Later(t, b - 2) /\ FoldedAt(t, b, n + 1))
      BY <2>2, <3>1, <3>2
    <3>. QED
      BY <2>4, <3>3 DEF HeaderShape, t, n
  <2>. QED
    BY <1>9, <2>3, <2>4 DEF HeaderMove
<1>. QED
  BY <1>5, <1>6, <1>7, <1>8, <1>9
-----------------------------------------------------------------------------
\* A line told by its places is the line that is cut out of the text.
LEMMA RunAll ==
    ASSUME NEW u \in Seq(AllChars), NEW a \in Nat \ {0}, NEW z \in Int, z <= Len(u),
           NEW S, Run(u, a, z, S)
    PROVE  All(SubSeq(u, a, z), S)
<1>1. \A x \in a .. z : u[x] \in AllChars
  BY ElementOfSeq
<1>2. /\ Len(SubSeq(u, a, z)) = IF a <= z THEN z - a + 1 ELSE 0
      /\ \A x \in 1 .. z - a + 1 : SubSeq(u, a, z)[x] = u[a + x - 1]
  BY <1>1, SubSeqProperties
<1> DEFINE w == SubSeq(u, a, z)
<1>3. \A x \in a .. z : u[x] \in S
  BY DEF Run
<1> HIDE DEF w
<1>4. ASSUME NEW x \in 1 .. Len(w) PROVE w[x] \in S
  <2>1. a <= z /\ x \in 1 .. z - a + 1 /\ (a + x) - 1 \in a .. z
    BY <1>2, <1>4 DEF w
  <2>2. w[x] = u[(a + x) - 1]
    BY <1>2, <2>1 DEF w
  <2>. QED
    BY <1>3, <2>1, <2>2
<1>. QED
  BY <1>4 DEF All, w

LEMMA CutOut ==
    ASSUME NEW s \in Seq(AllChars), NEW b \in Nat \ {0}, NEW n \in Int, b <= n + 1, n <= Len(s)
    PROVE  /\ SubSeq(s, b, n) \in Seq(AllChars)
           /\ Len(SubSeq(s, b, n)) = (n - b) + 1
           /\ \A x \in 1 .. (n - b) + 1 : SubSeq(s, b, n)[x] = s[(b + x) - 1]
<1>1. \A x \in b .. n : s[x] \in AllChars
  BY ElementOfSeq
<1>2. /\ SubSeq(s, b, n) \in Seq(AllChars)
      /\ Len(SubSeq(s, b, n)) = IF b <= n THEN n - b + 1 ELSE 0
      /\ \A x \in 1 .. n - b + 1 : SubSeq(s, b, n)[x] = s[b + x - 1]
  BY <1>1, SubSeqProperties
<1>. QED
  BY <1>2

LEMMA RequestCut ==
    ASSUME NEW s \in Seq(AllChars), NEW n \in Nat, n <= Len(s), RequestAt(s, n)
    PROVE  RequestLine(SubSeq(s, 1, n))
<1> DEFINE u == SubSeq(s, 1, n)
           word == <<"H", "T", "T", "P", "/">>
<1>1. u \in Seq(AllChars) /\ Len(u) = n /\ \A x \in 1 .. n : u[x] = s[x]
  BY CutOut
<1> HIDE DEF u
<1>2. RequestAt(u, n)
  <2>1. Agree(s, u, n)
    BY <1>1 DEF Agree
  <2>. QED
    BY <2>1, RequestKept
<1>3. PICK i, j, k \in 1 .. n :
        /\ MethodUri(u, i, j) /\ Http(u, j, 5)
        /\ j + 6 < k /\ k < n
        /\ Run(u, j + 6, k - 1, {"1"}) /\ u[k] = "." /\ Run(u, k + 1, n, {"1"})
  BY <1>2 DEF RequestAt
<1>4. /\ 1 < i /\ i < j /\ u[i] = "SP" /\ u[j] = "SP"
      /\ Run(u, 1, i - 1, TokenChar) /\ Run(u, i + 1, j - 1, TextChar \ {"SP"})
  BY <1>3 DEF MethodUri
<1>5. /\ All(SubSeq(u, 1, i - 1), TokenChar) /\ All(SubSeq(u, i + 1, j - 1), TextChar \ {"SP"})
      /\ All(SubSeq(u, j + 6, k - 1), {"1"}) /\ All(SubSeq(u, k + 1, Len(u)), {"1"})
  BY <1>1, <1>3, <1>4, RunAll
<1>6. SubSeq(u, j + 1, j + 5) = word
  <2> DEFINE v == SubSeq(u, j + 1, j + 5)
  <2>1. j \in Nat /\ j + 5 <= Len(u) /\ j + 1 <= (j + 5) + 1 /\ ((j + 5) - (j + 1)) + 1 = 5
    BY <1>1, <1>3
  <2>2. /\ v \in Seq(AllChars) /\ Len(v) = ((j + 5) - (j + 1)) + 1
        /\ \A x \in 1 .. ((j + 5) - (j + 1)) + 1 : v[x] = u[((j + 1) + x) - 1]
    BY <1>1, <2>1, CutOut
  <2> HIDE DEF v
  <2>3. \A x \in 1 .. 5 : v[x] = u[j + x]
    <3>1. ASSUME NEW x \in 1 .. 5 PROVE v[x] = u[j + x]
      <4>1. x \in 1 .. ((j + 5) - (j + 1)) + 1 /\ ((j + 1) + x) - 1 = j + x
        BY <2>1
      <4>2. v[x] = u[((j + 1) + x) - 1]
        BY <2>2, <4>1
      <4>. QED
        BY <4>1, <4>2
    <3>. QED
      BY <3>1
  <2>4. v[1] = "H" /\ v[2] = "T" /\ v[3] = "T" /\ v[4] = "P" /\ v[5] = "/"
    BY <1>3, <2>3 DEF Http
  <2>5. word \in Seq(AllChars) /\ Len(word) = 5
    BY DEF AllChars
  <2>6. \A x \in 1 .. 5 : v[x] = word[x]
    BY <2>4
  <2> HIDE DEF word
  <2>7. v = word
    BY <2>1, <2>2, <2>5, <2>6, SeqEqual
  <2>. QED
    BY <2>7 DEF v
<1>. QED
  BY <1>1, <1>3, <1>4, <1>5, <1>6 DEF RequestLine, u

LEMMA RunCut ==
    ASSUME NEW s, NEW u, NEW b \in Nat, NEW n \in Nat,
           \A x \in 1 .. (n - b) + 1 : u[x] = s[(b + x) - 1],
           NEW p \in Int, NEW q \in Int, b <= p, q <= n, NEW S, Run(s, p, q, S)
    PROVE  Run(u, (p - b) + 1, (q - b) + 1, S)
<1>1. \A x \in p .. q : s[x] \in S
  BY DEF Run
<1>2. ASSUME NEW x \in (p - b) + 1 .. (q - b) + 1 PROVE u[x] \in S
  <2>1. x \in 1 .. (n - b) + 1 /\ (b + x) - 1 \in p .. q
    OBVIOUS
  <2>. QED
    BY <1>1, <2>1
<1>. QED
  BY <1>2 DEF Run

LEMMA HeaderCut ==
    ASSUME NEW s \in Seq(AllChars), NEW b \in Nat \ {0}, NEW n \in Nat, n <= Len(s), HeaderAt(s, b, n)
    PROVE  HeaderLine(SubSeq(s, b, n))
<1> DEFINE u == SubSeq(s, b, n)
<1>1. PICK i \in b + 1 .. n - 1 :
        /\ Run(s, b, i - 1, TokenChar) /\ s[i] = ":" /\ s[i + 1] = "SP"
        /\ Run(s, i + 2, n, TextChar)
  BY DEF HeaderAt
<1>2. /\ u \in Seq(AllChars) /\ Len(u) = (n - b) + 1
      /\ \A x \in 1 .. (n - b) + 1 : u[x] = s[(b + x) - 1]
  BY <1>1, CutOut
<1> HIDE DEF u
<1>3. b + 1 <= i /\ i <= n - 1 /\ i \in Nat
  BY <1>1
<1>4. PICK j \in Int : j = (i - b) + 1
  BY <1>3
<1>5. /\ j \in 2 .. Len(u) - 1 /\ j - 1 \in Int /\ j - 1 <= Len(u) /\ j + 2 \in Nat \ {0}
      /\ (b + j) - 1 = i /\ (b + (j + 1)) - 1 = i + 1
      /\ ((i - 1) - b) + 1 = j - 1 /\ ((i + 2) - b) + 1 = j + 2 /\ (n - b) + 1 = Len(u)
      /\ j \in 1 .. (n - b) + 1 /\ j + 1 \in 1 .. (n - b) + 1 /\ Len(u) \in Nat
  BY <1>2, <1>3, <1>4
<1>6. u[j] = ":" /\ u[j + 1] = "SP"
  BY <1>1, <1>2, <1>5
<1>7. Run(u, (b - b) + 1, ((i - 1) - b) + 1, TokenChar)
  <2>1. b \in Int /\ i - 1 \in Int /\ b <= b /\ i - 1 <= n /\ Run(s, b, i - 1, TokenChar)
    BY <1>1, <1>3
  <2>2. \A x \in 1 .. (n - b) + 1 : u[x] = s[(b + x) - 1]
    BY <1>2
  <2>. QED
    BY <2>1, <2>2, RunCut
<1>8. Run(u, ((i + 2) - b) + 1, (n - b) + 1, TextChar)
  <2>1. i + 2 \in Int /\ n \in Int /\ b <= i + 2 /\ n <= n /\ Run(s, i + 2, n, TextChar)
    BY <1>1, <1>3
  <2>2. \A x \in 1 .. (n - b) + 1 : u[x] = s[(b + x) - 1]
    BY <1>2
  <2>. QED
    BY <2>1, <2>2, RunCut
<1>9. Run(u, 1, j - 1, TokenChar) /\ Run(u, j + 2, Len(u), TextChar)
  <2>1. (b - b) + 1 = 1
    OBVIOUS
  <2>. QED
    BY <1>5, <1>7, <1>8, <2>1
<1>10. All(SubSeq(u, 1, j - 1), TokenChar)
  <2>1. 1 \in Nat \ {0} /\ j - 1 \in Int /\ j - 1 <= Len(u) /\ Run(u, 1, j - 1, TokenChar)
    BY <1>5, <1>9
  <2>. QED
    BY <1>2, <2>1, RunAll
<1>11. All(SubSeq(u, j + 2, Len(u)), TextChar)
  BY <1>2, <1>5, <1>9, RunAll
<1>. QED
  BY <1>5, <1>6, <1>10, <1>11 DEF HeaderLine, u

LEMMA FoldedCut ==
    ASSUME NEW s \in Seq(AllChars), NEW b \in Nat \ {0}, NEW n \in Nat, n <= Len(s), FoldedAt(s, b, n)
    PROVE  FoldedLine(SubSeq(s, b, n))
<1> DEFINE u == SubSeq(s, b, n)
<1>1. PICK i \in b .. n : Run(s, b, i, {"SP", "HT"}) /\ Run(s, i + 1, n, TextChar)
  BY DEF FoldedAt
<1>2. /\ u \in Seq(AllChars) /\ Len(u) = (n - b) + 1
      /\ \A x \in 1 .. (n - b) + 1 : u[x] = s[(b + x) - 1]
  BY <1>1, CutOut
<1> HIDE DEF u
<1>3. b <= i /\ i <= n /\ i \in Nat
  BY <1>1
<1>4. PICK j \in Int : j = (i - b) + 1
  BY <1>3
<1>5. /\ j \in 1 .. Len(u) /\ j <= Len(u) /\ j + 1 \in Nat \ {0}
      /\ ((i + 1) - b) + 1 = j + 1 /\ (n - b) + 1 = Len(u) /\ Len(u) \in Nat
  BY <1>2, <1>3, <1>4
<1>6. Run(u, (b - b) + 1, (i - b) + 1, {"SP", "HT"})
  <2>1. b \in Int /\ i \in Int /\ b <= b /\ i <= n /\ Run(s, b, i, {"SP", "HT"})
    BY <1>1, <1>3
  <2>2. \A x \in 1 .. (n - b) + 1 : u[x] = s[(b + x) - 1]
    BY <1>2
  <2>. QED
    BY <2>1, <2>2, RunCut
<1>7. Run(u, ((i + 1) - b) + 1, (n - b) + 1, TextChar)
  <2>1. i + 1 \in Int /\ n \in Int /\ b <= i + 1 /\ n <= n /\ Run(s, i + 1, n, TextChar)
    BY <1>1, <1>3
  <2>2. \A x \in 1 .. (n - b) + 1 : u[x] = s[(b + x) - 1]
    BY <1>2
  <2>. QED
    BY <2>1, <2>2, RunCut
<1>8. Run(u, 1, j, {"SP", "HT"}) /\ Run(u, j + 1, Len(u), TextChar)
  <2>1. (b - b) + 1 = 1
    OBVIOUS
  <2>. QED
    BY <1>4, <1>5, <1>6, <1>7, <2>1
<1>9. All(SubSeq(u, 1, j), {"SP", "HT"})
  BY <1>2, <1>5, <1>8, RunAll
<1>10. All(SubSeq(u, j + 1, Len(u)), TextChar)
  BY <1>2, <1>5, <1>8, RunAll
<1>. QED
  BY <1>5, <1>9, <1>10 DEF FoldedLine, u

\* The empty line behind the lines of a request makes it complete.
LEMMA Complete ==
    ASSUME NEW s \in Seq(AllChars), Lines(s), NEW b \in Nat, b > 1, Begins(s, b),
           Len(s) = b, s[Len(s)] = "CR"
    PROVE  IsRequest(Append(s, "LF"))
<1> DEFINE t == Append(s, "LF")
           n == Len(s)
           E == LineEnds(s)
           F == LineEnds(t)
           first == CHOOSE j \in F : \A k \in F : j <= k
           next(i) == CHOOSE j \in F : j > i /\ \A k \in F : k > i => j <= k
           Line(i) == SubSeq(t, i + 2, next(i) - 1)
<1>0. "LF" \in AllChars
  BY DEF AllChars
<1>1. /\ n \in Nat /\ t \in Seq(AllChars) /\ Len(t) = n + 1 /\ Agree(s, t, n)
      /\ F = E \cup {n}
  BY <1>0, OneMore, EndsMore
<1>2. \A i \in E : i \in 1 .. n - 1
  BY EndsPlace
<1>3. n - 2 \in E /\ \A k \in E : k <= n - 2
  BY DEF Begins
<1>4. Lines(s)
  OBVIOUS
<1>5. \A i : Later(s, i) => \E k \in E : k < i
  BY DEF Later
<1>6. /\ \A j \in E : (\A k \in E : j <= k) => RequestAt(s, j - 1)
      /\ \A i, j \in E :
            i < j /\ (\A k \in E : k <= i \/ j <= k)
            => HeaderAt(s, i + 2, j - 1) \/ (Later(s, i) /\ FoldedAt(s, i + 2, j - 1))
  BY <1>4 DEF Lines
<1> HIDE DEF n, t, E, F
<1>7. F \in SUBSET Nat /\ F # {}
  BY <1>1, <1>2
<1>8. first \in F /\ \A k \in F : first <= k
  BY <1>7, LeastElement
<1> HIDE DEF first
<1>9. first \in E /\ first \in 1 .. n - 1 /\ \A k \in E : first <= k
  BY <1>1, <1>2, <1>3, <1>8
<1>10. RequestLine(SubSeq(t, 1, first - 1))
  <2>1. first - 1 \in Nat /\ first - 1 <= n
    BY <1>1, <1>9
  <2>2. RequestAt(s, first - 1)
    <3>1. \A j \in E : (\A k \in E : j <= k) => RequestAt(s, j - 1)
      BY <1>6
    <3>2. first \in E /\ \A k \in E : first <= k
      BY <1>9
    <3>. QED
      BY <3>1, <3>2, Zenon
  <2>3. RequestAt(t, first - 1)
    BY <1>1, <2>1, <2>2, RequestKept
  <2>4. first - 1 <= Len(t)
    BY <1>1, <1>9
  <2>. QED
    BY <1>1, <2>1, <2>3, <2>4, RequestCut
<1>11. ASSUME NEW i \in F \ {n - 2, n}
       PROVE  HeaderLine(Line(i)) \/ (i # first /\ FoldedLine(Line(i)))
  <2>1. i \in E /\ i < n - 2 /\ i \in Nat
    BY <1>1, <1>2, <1>3, <1>11
  <2>2. next(i) \in F /\ next(i) > i /\ \A k \in F : k > i => next(i) <= k
    <3> DEFINE T == {j \in F : j > i}
    <3>1. T \in SUBSET Nat /\ n - 2 \in T
      BY <1>1, <1>3, <1>7, <2>1
    <3>2. \E m \in T : \A k \in T : m <= k
      BY <3>1, LeastElement
    <3>. QED
      BY <3>2
  <2> DEFINE j == next(i)
  <2> HIDE DEF j
  <2>3. j \in E /\ i < j /\ (\A k \in E : k <= i \/ j <= k) /\ j \in 1 .. n - 1
    <3>1. j \in F /\ j > i /\ \A k \in F : k > i => j <= k
      BY <2>2 DEF j
    <3> HIDE DEF next
    <3>2. n - 2 \in F /\ n - 2 > i /\ n - 2 \in Nat
      BY <1>1, <1>2, <1>3, <2>1
    <3>3. j <= n - 2 /\ j \in Nat
      BY <1>7, <3>1, <3>2
    <3>4. j \in E /\ j \in 1 .. n - 1
      BY <1>1, <1>2, <3>1, <3>3
    <3>5. ASSUME NEW k \in E PROVE k <= i \/ j <= k
      BY <1>1, <1>2, <2>1, <3>1, <3>5
    <3>. QED
      BY <2>1, <3>1, <3>3, <3>4, <3>5
  <2>4. HeaderAt(s, i + 2, j - 1) \/ (Later(s, i) /\ FoldedAt(s, i + 2, j - 1))
    BY <1>6, <2>1, <2>3
  <2>5. i + 2 \in Nat \ {0} /\ j - 1 \in Nat /\ j - 1 <= n /\ j - 1 <= Len(t)
    BY <1>1, <2>1, <2>3
  <2>6. Later(s, i) => i # first
    BY <1>2, <1>5, <1>9, <2>1
  <2>7. HeaderAt(t, i + 2, j - 1) \/ (i # first /\ FoldedAt(t, i + 2, j - 1))
    BY <1>1, <2>4, <2>5, <2>6, HeaderKept, FoldedKept
  <2>8. HeaderLine(SubSeq(t, i + 2, j - 1)) \/ (i # first /\ FoldedLine(SubSeq(t, i + 2, j - 1)))
    BY <1>1, <2>5, <2>7, HeaderCut, FoldedCut
  <2>. QED
    BY <2>8 DEF j
<1>12. Len(t) >= 4 /\ Len(t) - 3 = n - 2 /\ Len(t) - 1 = n /\ n - 2 \in F /\ n \in F
  BY <1>1, <1>2, <1>3
<1> HIDE DEF Line
<1>13. /\ Len(t) >= 4 /\ {Len(t) - 3, Len(t) - 1} \subseteq F
       /\ RequestLine(SubSeq(t, 1, first - 1))
       /\ \A i \in F \ {Len(t) - 3, Len(t) - 1} :
             HeaderLine(Line(i)) \/ (i # first /\ FoldedLine(Line(i)))
  BY <1>10, <1>11, <1>12
<1>14. IsRequest(t)
  BY <1>13, Zenon DEF IsRequest, F, first, Line, next
<1>. QED
  BY <1>14 DEF t

\* A request ends with two line ends.
LEMMA LastOnes ==
    ASSUME NEW s \in Seq(AllChars), NEW c \in AllChars, IsRequest(Append(s, c))
    PROVE  /\ c = "LF" /\ Len(s) >= 3
           /\ s[Len(s)] = "CR" /\ s[Len(s) - 1] = "LF"
<1> DEFINE t == Append(s, c)
           n == Len(s)
<1>1. n \in Nat /\ Len(t) = n + 1 /\ t[n + 1] = c /\ Agree(s, t, n)
  BY OneMore
<1>2. Len(t) >= 4 /\ Len(t) - 3 \in LineEnds(t) /\ Len(t) - 1 \in LineEnds(t)
  BY DEF IsRequest
<1> HIDE DEF t, n
<1>3. t[(n + 1) - 3 + 1] = "LF" /\ t[(n + 1) - 1] = "CR" /\ t[(n + 1) - 1 + 1] = "LF" /\ n >= 3
  BY <1>1, <1>2 DEF LineEnds
<1>4. t[n - 1] = "LF" /\ t[n] = "CR" /\ t[n + 1] = "LF"
  BY <1>1, <1>3
<1>. QED
  BY <1>1, <1>3, <1>4 DEF Agree, n

LEMMA LastOfLine ==
    ASSUME NEW s, NEW n \in Int, NEW b \in Nat,
           RequestAt(s, n) \/ HeaderAt(s, b, n) \/ FoldedAt(s, b, n)
    PROVE  s[n] # "LF"
<1>1. ASSUME RequestAt(s, n) PROVE s[n] # "LF"
  BY <1>1 DEF RequestAt, Run
<1>2. ASSUME HeaderAt(s, b, n) PROVE s[n] # "LF"
  <2>1. PICK i \in b + 1 .. n - 1 : s[i + 1] = "SP" /\ Run(s, i + 2, n, TextChar)
    BY <1>2 DEF HeaderAt
  <2>2. i + 1 = n \/ s[n] \in TextChar
    BY <2>1 DEF Run
  <2>. QED
    BY <2>1, <2>2 DEF TextChar
<1>3. ASSUME FoldedAt(s, b, n) PROVE s[n] # "LF"
  <2>1. PICK i \in b .. n : Run(s, b, i, {"SP", "HT"}) /\ Run(s, i + 1, n, TextChar)
    BY <1>3 DEF FoldedAt
  <2>2. s[n] \in {"SP", "HT"} \/ s[n] \in TextChar
    BY <2>1 DEF Run
  <2>. QED
    BY <2>2 DEF TextChar
<1>. QED
  BY <1>1, <1>2, <1>3
-----------------------------------------------------------------------------
\* While another character than the last line end is expected, no character
\* makes the text a request.
LEMMA NotYet ==
    ASSUME NEW s \in Seq(AllChars), NEW c \in AllChars, NEW st, NEW h, NEW b,
           Reading(st, h, s, b), st # "expecting_newline_3"
    PROVE  ~ IsRequest(Append(s, c))
<1> DEFINE n == Len(s)
<1> SUFFICES ASSUME IsRequest(Append(s, c)) PROVE FALSE
  OBVIOUS
<1>1. n \in Nat /\ n >= 3 /\ s[n] = "CR" /\ s[n - 1] = "LF" /\ n - 1 \in Int
  BY LastOnes
<1>2. /\ b \in Nat
      /\ st \in LineStates => LineShape(st, s, n)
      /\ st \notin LineStates => HeaderShape(st, s, b, n)
      /\ n > 0 /\ s[n] = "CR" => st \in Newline
  BY <1>1 DEF Reading
<1> HIDE DEF n
<1>3. st \in {"expecting_newline_1", "expecting_newline_2"}
  BY <1>1, <1>2 DEF Newline
<1>4. ASSUME st = "expecting_newline_1" PROVE RequestAt(s, n - 1)
  BY <1>2, <1>4 DEF LineStates, LineShape
<1>5. ASSUME st = "expecting_newline_2" PROVE HeaderAt(s, b, n - 1) \/ FoldedAt(s, b, n - 1)
  BY <1>2, <1>5 DEF LineStates, HeaderShape
<1>6. s[n - 1] # "LF"
  BY <1>1, <1>2, <1>3, <1>4, <1>5, LastOfLine
<1>. QED
  BY <1>1, <1>6

\* A character that ends no line.
LEMMA Prolonged ==
    ASSUME NEW s \in Seq(AllChars), NEW c \in AllChars, NEW b, Lines(s), Begins(s, b),
           ~(Len(s) > 0 /\ s[Len(s)] = "CR" /\ c = "LF")
    PROVE  /\ Lines(Append(s, c)) /\ Begins(Append(s, c), b)
           /\ \A i : Later(s, i) => Later(Append(s, c), i)
<1> DEFINE t == Append(s, c)
<1>1. t \in Seq(AllChars) /\ Agree(s, t, Len(s))
  BY OneMore
<1>2. LineEnds(t) = LineEnds(s)
  BY EndsKept
<1>3. Lines(t)
  BY <1>1, <1>2, LinesKept
<1>4. Begins(t, b) /\ \A i : Later(s, i) => Later(t, i)
  BY <1>2 DEF Begins, Later
<1>. QED
  BY <1>3, <1>4


\* A line of a request that ends.
LEMMA EndOfLine ==
    ASSUME NEW s \in Seq(AllChars), Len(s) > 0, s[Len(s)] = "CR",
           NEW h, NEW b \in 1 .. Len(s) + 1, Lines(s), Begins(s, b), Ended(s, b),
           b = 1 => h = <<>>
    PROVE  LET t == Append(s, "LF")
           IN  \E d \in 1 .. Len(t) + 1 : Reading("header_line_start", h, t, d)
<1> DEFINE t == Append(s, "LF")
           n == Len(s)
<1>0. "LF" \in AllChars
  BY DEF AllChars
<1>1. n \in Nat /\ n > 0 /\ Len(t) = n + 1 /\ t[n + 1] = "LF" /\ LineEnds(t) = LineEnds(s) \cup {n}
  BY <1>0, OneMore, EndsMore
<1>2. Lines(t) /\ Begins(t, n + 2)
  BY LinesMore
<1>3. \A k \in LineEnds(s) : k <= n - 1
  BY EndsPlace
<1>4. Begins(s, b) /\ b \in 1 .. n + 1
  OBVIOUS
<1>5. b > 1 => b - 2 \in LineEnds(s)
  BY <1>4 DEF Begins
<1>6. h # <<>> => b > 1
  BY <1>4
<1> HIDE DEF t, n
<1>7. h # <<>> => Later(t, (n + 2) - 2)
  BY <1>1, <1>3, <1>4, <1>5, <1>6 DEF Later
<1>8. HeaderShape("header_line_start", t, n + 2, Len(t))
  BY <1>1 DEF HeaderShape
<1>9. Reading("header_line_start", h, t, n + 2)
  <2>1. n + 2 \in 1 .. Len(t) + 1 /\ n + 2 > 1 /\ "header_line_start" \notin LineStates
    BY <1>1 DEF LineStates
  <2>2. ~(t[Len(t)] = "CR")
    BY <1>1
  <2>. QED
    BY <1>2, <1>7, <1>8, <2>1, <2>2 DEF Reading
<1>10. n + 2 \in 1 .. Len(t) + 1
  BY <1>1
<1>. QED
  BY <1>9, <1>10 DEF t

\* The character of a rule of the request line.
LEMMA ReadLine ==
    ASSUME NEW s \in Seq(AllChars), NEW c \in AllChars, NEW st \in LineStates, NEW to, NEW h, NEW b,
           Reading(st, h, s, b), LineMove(st, c, to)
    PROVE  LET t == Append(s, c) IN \E d \in 1 .. Len(t) + 1 : Reading(to, h, t, d)
<1> DEFINE t == Append(s, c)
           n == Len(s)
<1>1. n \in Nat /\ Len(t) = n + 1 /\ t[n + 1] = c
  BY OneMore
<1>2. /\ b = 1 /\ h = <<>> /\ Lines(s) /\ Begins(s, b) /\ LineShape(st, s, n)
      /\ n > 0 /\ s[n] = "CR" => st \in Newline
  BY DEF Reading
<1>3. CASE st = "expecting_newline_1"
  <2>1. n > 0 /\ s[n] = "CR" /\ RequestAt(s, n - 1)
    BY <1>2, <1>3 DEF LineShape
  <2>2. c = "LF" /\ to = "header_line_start"
    BY <1>3 DEF LineMove
  <2>3. Ended(s, b) /\ b \in 1 .. n + 1
    BY <1>1, <1>2, <2>1 DEF Ended
  <2>. QED
    BY <1>2, <2>1, <2>2, <2>3, EndOfLine
<1>4. CASE st # "expecting_newline_1"
  <2>1. to \in LineStates /\ (c = "CR" => to \in Newline)
    BY <1>4 DEF LineMove, LineStates, Newline, TokenChar, TextChar
  <2>2. LineShape(to, t, n + 1)
    BY <1>2, <2>1, LineStep
  <2>3. ~(n > 0 /\ s[n] = "CR" /\ c = "LF")
    BY <1>2, <1>4 DEF Newline, LineStates
  <2>4. Lines(t) /\ Begins(t, b)
    BY <1>2, <2>3, Prolonged
  <2> HIDE DEF t, n
  <2>5. b \in 1 .. Len(t) + 1 /\ to # "header_line_start"
    BY <1>1, <1>2, <2>1 DEF LineStates
  <2>6. Reading(to, h, t, b)
    BY <1>1, <1>2, <2>1, <2>2, <2>4, <2>5 DEF Reading
  <2>. QED
    BY <2>5, <2>6 DEF t
<1>. QED
  BY <1>3, <1>4

\* The character of a rule of the lines behind it.
LEMMA ReadHeader ==
    ASSUME NEW s \in Seq(AllChars), NEW c \in AllChars,
           NEW st \in State \ LineStates, NEW to, NEW h, NEW b,
           Reading(st, headers, s, b), HeaderMove(st, c, to), st # "expecting_newline_3"
    PROVE  LET t == Append(s, c) IN \E d \in 1 .. Len(t) + 1 : Reading(to, h, t, d)
<1> DEFINE t == Append(s, c)
           n == Len(s)
<1>1. n \in Nat /\ Len(t) = n + 1 /\ t[n + 1] = c
  BY OneMore
<1>2. /\ b \in 1 .. n + 1 /\ b > 1 /\ Lines(s) /\ Begins(s, b) /\ HeaderShape(st, s, b, n)
      /\ st = "header_line_start" /\ headers # <<>> => Later(s, b - 2)
      /\ n > 0 /\ s[n] = "CR" => st \in Newline
  BY DEF Reading
<1>3. CASE st = "expecting_newline_2"
  <2>1. /\ n >= b /\ s[n] = "CR"
        /\ HeaderAt(s, b, n - 1) \/ (Later(s, b - 2) /\ FoldedAt(s, b, n - 1))
    BY <1>2, <1>3 DEF HeaderShape
  <2>2. c = "LF" /\ to = "header_line_start"
    BY <1>3 DEF HeaderMove
  <2>3. Ended(s, b) /\ b # 1 /\ n > 0
    BY <1>1, <1>2, <2>1 DEF Ended
  <2>. QED
    BY <1>2, <2>1, <2>2, <2>3, EndOfLine
<1>4. CASE st # "expecting_newline_2"
  <2>1. st \in {"header_line_start", "header_lws", "header_name",
                "space_before_header_value", "header_value"}
    BY <1>4 DEF State, LineStates
  <2>2. /\ to \notin LineStates /\ to # "header_line_start"
        /\ c = "CR" => to \in Newline
    BY <2>1 DEF HeaderMove, LineStates, Newline, TokenChar, TextChar
  <2>3. HeaderShape(to, t, b, n + 1)
    BY <1>2, <2>1, HeaderStep
  <2>4. ~(n > 0 /\ s[n] = "CR" /\ c = "LF")
    BY <1>2, <2>1 DEF Newline
  <2>5. Lines(t) /\ Begins(t, b)
    BY <1>2, <2>4, Prolonged
  <2> HIDE DEF t, n
  <2>6. b \in 1 .. Len(t) + 1
    BY <1>1, <1>2
  <2>7. Reading(to, h, t, b)
    BY <1>1, <1>2, <2>2, <2>3, <2>5, <2>6 DEF Reading
  <2>. QED
    BY <2>6, <2>7 DEF t
<1>. QED
  BY <1>3, <1>4

LEMMA ConsumeText ==
    ASSUME TextInv, NEW c \in AllChars, Consume(c) PROVE TextInv'
<1>1. PICK r \in Rules : /\ r.s = state /\ c \in r.on /\ state' = r.to
                         /\ Put(r.put, c)
  BY DEF Consume
<1>2. /\ result = "indeterminate" /\ read' = Append(read, c)
      /\ result' = IF state = "expecting_newline_3" THEN "good" ELSE "indeterminate"
  BY DEF Consume
<1>3. IInv' /\ state \in State /\ read \in Seq(AllChars)
  BY ConsumeIInv DEF TextInv, IInv
<1>4. PICK b : Reading(state, headers, read, b)
  BY <1>2 DEF TextInv
<1>5. CASE state = "expecting_newline_3"
  <2>1. c = "LF"
    BY <1>1, <1>5, HeaderMoves DEF HeaderMove, LineStates
  <2>2. /\ b \in Nat /\ b > 1 /\ Lines(read) /\ Begins(read, b)
        /\ Len(read) = b /\ read[Len(read)] = "CR"
    BY <1>3, <1>4, <1>5 DEF Reading, HeaderShape, LineStates
  <2>3. IsRequest(read')
    BY <1>2, <1>3, <2>1, <2>2, Complete
  <2>4. result' = "good"
    BY <1>2, <1>5
  <2>5. GoodIsRequest'
    BY <2>3, <2>4 DEF GoodIsRequest
  <2>. QED
    BY <1>3, <2>4, <2>5 DEF TextInv
<1>6. CASE state # "expecting_newline_3"
  <2>1. ~ IsRequest(read')
    BY <1>2, <1>3, <1>4, <1>6, NotYet
  <2>2. result' = "indeterminate"
    BY <1>2, <1>6
  <2>3. GoodIsRequest'
    BY <2>1, <2>2 DEF GoodIsRequest
  <2>4. CASE state \in LineStates
    <3>1. LineMove(state, c, state') /\ headers' = headers
      BY <1>1, <2>4, LineMoves DEF Put
    <3>. QED
      BY <1>2, <1>3, <1>4, <2>3, <2>4, <3>1, ReadLine DEF TextInv
  <2>5. CASE state \notin LineStates
    <3>1. HeaderMove(state, c, state')
      BY <1>1, <2>5, HeaderMoves
    <3>. QED
      BY <1>2, <1>3, <1>4, <1>6, <2>3, <2>5, <3>1, ReadHeader DEF TextInv
  <2>. QED
    BY <2>4, <2>5
<1>. QED
  BY <1>5, <1>6

LEMMA RejectText ==
    ASSUME TextInv, NEW c \in AllChars, Reject(c) PROVE TextInv'
<1>1. /\ result = "indeterminate" /\ result' = "bad" /\ read' = Append(read, c)
      /\ \A r \in Rules : r.s = state => c \notin r.on
  BY DEF Reject
<1>2. IInv' /\ read \in Seq(AllChars)
  BY DEF TextInv, IInv, Reject
<1>3. PICK b : Reading(state, headers, read, b)
  BY <1>1 DEF TextInv
<1>4. ~ IsRequest(read')
  <2>1. CASE state = "expecting_newline_3"
    <3> DEFINE last == Rule("expecting_newline_3", {"LF"}, "expecting_newline_3", "nothing")
    <3>1. last \in Rules /\ last.s = state /\ last.on = {"LF"}
      BY <2>1 DEF Rules, HeaderRules, Rule
    <3>2. c # "LF"
      BY <1>1, <3>1
    <3>. QED
      BY <1>1, <1>2, <3>2, LastOnes
  <2>2. CASE state # "expecting_newline_3"
    BY <1>1, <1>2, <1>3, <2>2, NotYet
  <2>. QED
    BY <2>1, <2>2
<1>5. GoodIsRequest'
  BY <1>1, <1>4 DEF GoodIsRequest
<1>. QED
  BY <1>1, <1>2, <1>5 DEF TextInv

LEMMA InitText == Init => TextInv
<1> SUFFICES ASSUME Init PROVE TextInv
  OBVIOUS
<1>1. IInv
  BY DEF Init, IInv, State, InHeader, Headers
<1>2. read = <<>> /\ Len(read) = 0 /\ state = "method_start" /\ headers = <<>> /\ result = "indeterminate"
  BY DEF Init
<1>3. LineEnds(read) = {}
  BY <1>2 DEF LineEnds
<1>4. Reading(state, headers, read, 1)
  BY <1>2, <1>3 DEF Reading, Lines, Begins, LineStates, LineShape
<1>5. ~ IsRequest(read)
  BY <1>2 DEF IsRequest
<1>. QED
  BY <1>1, <1>2, <1>4, <1>5 DEF TextInv, GoodIsRequest

LEMMA StepText == TextInv /\ [Next]_vars => TextInv'
<1> SUFFICES ASSUME TextInv, [Next]_vars PROVE TextInv'
  OBVIOUS
<1>1. ASSUME NEW c \in Char, Consume(c) PROVE TextInv'
  BY <1>1, ConsumeText, ParserAssumption
<1>2. ASSUME NEW c \in Char, Reject(c) PROVE TextInv'
  BY <1>2, RejectText, ParserAssumption
<1>3. CASE UNCHANGED vars
  <2>1. IInv'
    BY <1>3 DEF TextInv, IInv, vars
  <2>2. UNCHANGED <<result, read, state, headers>>
    BY <1>3 DEF vars
  <2>3. (result' = "indeterminate" => \E b \in 1 .. Len(read') + 1 : Reading(state', headers', read', b))
    BY <2>2 DEF TextInv
  <2>4. GoodIsRequest'
    BY <2>2 DEF TextInv, GoodIsRequest
  <2>. QED
    BY <2>1, <2>3, <2>4 DEF TextInv
<1>. QED
  BY <1>1, <1>2, <1>3 DEF Next

\* The parser answers good exactly when what it has read is a request: a request
\* line, header lines of which the first continues no other, and an empty line at
\* the very end (request_parser::consume).
THEOREM ParserAcceptsRequests == Spec => []GoodIsRequest
<1>1. TextInv => GoodIsRequest
  BY DEF TextInv
<1>. QED
  BY <1>1, InitText, StepText, PTL DEF Spec
-----------------------------------------------------------------------------
(* The handler: url_decode. *)

Codes == 0 .. 255
Decodings == BOOLEAN \X Seq(Codes)

\* The loop of url_decode, turn by turn: the position after the turn at i, and
\* what is decoded from i on if f tells it of the positions after i.
Bad(in, i) == in[i] = Percent /\ Escape(in, i) = -256
NextAt(in, i) == IF in[i] = Percent THEN i + 3 ELSE i + 1
Turn(in, f, i) ==
    IF i > Len(in) THEN <<TRUE, <<>>>>
    ELSE IF Bad(in, i) THEN <<FALSE, <<>>>>
    ELSE <<f[NextAt(in, i)][1], <<Decoded(in, i)>> \o f[NextAt(in, i)][2]>>
Loop(in) == CHOOSE f : f = [i \in 1 .. Len(in) + 1 |-> Turn(in, f, i)]

LEMMA UrlDecode == ASSUME NEW in PROVE url_decode(in) = Loop(in)[1]
BY DEF url_decode, Loop, Turn, Bad, NextAt

LEMMA ModCodes == ASSUME NEW x \in Int PROVE x % 256 \in Codes
BY DEF Codes

LEMMA Decoding == ASSUME NEW b \in BOOLEAN, NEW s \in Seq(Codes) PROVE <<b, s>> \in Decodings
BY DEF Decodings

LEMMA Pair == ASSUME NEW b, NEW s PROVE <<b, s>>[1] = b /\ <<b, s>>[2] = s
OBVIOUS

LEMMA Between ==
    ASSUME NEW x \in Codes, NEW s \in Seq(Codes), NEW c \in Codes
    PROVE  <<x>> \o (s \o <<c>>) = (<<x>> \o s) \o <<c>>
<1>1. <<x>> \in Seq(Codes) /\ <<c>> \in Seq(Codes)
  OBVIOUS
<1>. QED
  BY <1>1, ConcatAssociative

LEMMA HexDigits == ASSUME NEW a \in Codes, IsHex(a) PROVE HexVal(a) \in 0 .. 15
BY DEF Codes, IsHex, HexVal, DigitCode

LEMMA ValueInt == ASSUME NEW a \in Codes, NEW b \in Codes PROVE Value(a, b) \in Int
<1>1. /\ IsHex(a) => HexVal(a) \in 0 .. 15
      /\ IsHex(b) => HexVal(b) \in 0 .. 15
  BY HexDigits
<1>. QED
  BY <1>1 DEF Value

LEMMA TurnOk ==
    ASSUME NEW in \in Seq(Codes), NEW i \in 1 .. Len(in), ~Bad(in, i)
    PROVE  /\ NextAt(in, i) \in i + 1 .. Len(in) + 1
           /\ Decoded(in, i) \in Codes
<1>1. in[i] \in Codes /\ Len(in) \in Nat
  BY ElementOfSeq
<1>2. CASE in[i] = Percent
  <2>1. i + 2 <= Len(in) /\ Escape(in, i) = Value(in[i + 1], in[i + 2])
    BY <1>2 DEF Bad, Escape
  <2>2. in[i + 1] \in Codes /\ in[i + 2] \in Codes
    BY <2>1, <1>1, ElementOfSeq
  <2>3. Escape(in, i) \in Int
    BY <2>1, <2>2, ValueInt
  <2>4. Decoded(in, i) = Escape(in, i) % 256
    BY <1>2 DEF Decoded
  <2>5. Decoded(in, i) \in Codes
    BY <2>3, <2>4, ModCodes
  <2>. QED
    BY <1>1, <1>2, <2>1, <2>5 DEF NextAt
<1>3. CASE in[i] # Percent
  <2>1. Decoded(in, i) = IF in[i] = Plus THEN Space ELSE in[i]
    BY <1>3 DEF Decoded
  <2>2. Space \in Codes
    BY DEF Codes, Space
  <2>3. NextAt(in, i) = i + 1
    BY <1>3 DEF NextAt
  <2>. QED
    BY <1>1, <2>1, <2>2, <2>3
<1>. QED
  BY <1>2, <1>3

LEMMA TurnType ==
    ASSUME NEW in \in Seq(Codes), NEW i \in 1 .. Len(in) + 1, NEW f,
           ~ (i > Len(in)) /\ ~Bad(in, i) => f[NextAt(in, i)] \in Decodings
    PROVE  Turn(in, f, i) \in Decodings
<1>0. TRUE \in BOOLEAN /\ FALSE \in BOOLEAN /\ <<>> \in Seq(Codes)
  OBVIOUS
<1>1. CASE i > Len(in)
  <2>1. Turn(in, f, i) = <<TRUE, <<>>>>
    BY <1>1 DEF Turn
  <2>. QED
    BY <2>1, <1>0, Decoding
<1>2. CASE ~ (i > Len(in)) /\ Bad(in, i)
  <2>1. Turn(in, f, i) = <<FALSE, <<>>>>
    BY <1>2 DEF Turn
  <2>. QED
    BY <2>1, <1>0, Decoding
<1>3. CASE ~ (i > Len(in)) /\ ~Bad(in, i)
  <2> DEFINE rest == f[NextAt(in, i)]
             c == Decoded(in, i)
  <2>1. Turn(in, f, i) = <<rest[1], <<c>> \o rest[2]>>
    BY <1>3 DEF Turn
  <2>2. c \in Codes
    BY <1>3, TurnOk
  <2>3. rest[1] \in BOOLEAN /\ rest[2] \in Seq(Codes)
    BY <1>3 DEF Decodings
  <2> HIDE DEF rest, c
  <2>4. <<c>> \o rest[2] \in Seq(Codes)
    BY <2>2, <2>3
  <2>. QED
    BY <2>1, <2>3, <2>4, Decoding
<1>. QED
  BY <1>1, <1>2, <1>3

LEMMA LoopEq ==
    ASSUME NEW in \in Seq(Codes)
    PROVE  Loop(in) = [i \in 1 .. Len(in) + 1 |-> Turn(in, Loop(in), i)]
<1> DEFINE D == 1 .. Len(in) + 1
           rank == [i \in D |-> Len(in) + 1 - i]
           F == [i \in D |-> [g \in [D -> Decodings] |-> Turn(in, g, i)]]
<1>1. rank \in [D -> Nat]
  OBVIOUS
<1>2. ASSUME NEW i \in D, NEW g \in [D -> Decodings] PROVE Turn(in, g, i) \in Decodings
  BY TurnOk, TurnType
<1>3. F \in [D -> [[D -> Decodings] -> Decodings]]
  BY <1>2
<1>4. ASSUME NEW i \in D, NEW g \in [D -> Decodings], NEW h \in [D -> Decodings],
             \A j \in D : rank[j] < rank[i] => g[j] = h[j]
      PROVE  F[i][g] = F[i][h]
  <2>1. ~ (i > Len(in)) /\ ~Bad(in, i) => g[NextAt(in, i)] = h[NextAt(in, i)]
    BY <1>4, TurnOk
  <2>. QED
    BY <2>1 DEF Turn
<1>5. Recursion(D, Decodings, rank, F)
  <2> HIDE DEF D, F, rank
  <2>1. \A i \in D : \A g, h \in [D -> Decodings] :
           (\A j \in D : rank[j] < rank[i] => g[j] = h[j]) => F[i][g] = F[i][h]
    BY <1>4
  <2>. QED
    BY <1>1, <1>3, <2>1, Zenon DEF Recursion
<1>6. Decodings # {}
  <2>1. TRUE \in BOOLEAN /\ <<>> \in Seq(Codes)
    OBVIOUS
  <2>. QED
    BY <2>1, Decoding
<1>7. PICK f \in [D -> Decodings] : f = [i \in D |-> F[i][f]]
  <2> HIDE DEF D, F, rank
  <2>. QED
    BY <1>5, <1>6, RecursionDefines
<1>8. f = [i \in D |-> Turn(in, f, i)]
  BY <1>7
<1>. QED
  BY <1>8 DEF Loop

LEMMA LoopAt ==
    ASSUME NEW in \in Seq(Codes), NEW i \in 1 .. Len(in) + 1
    PROVE  Loop(in)[i] = Turn(in, Loop(in), i) /\ Loop(in)[i] \in Decodings
<1> DEFINE at(n) == Len(in) + 1 - n
           T == {n \in Nat : n <= Len(in) => Loop(in)[at(n)] \in Decodings}
<1>1. Len(in) \in Nat
  OBVIOUS
<1>2. \A k \in 1 .. Len(in) + 1 : Loop(in)[k] = Turn(in, Loop(in), k)
  <2>1. Loop(in) = [k \in 1 .. Len(in) + 1 |-> Turn(in, Loop(in), k)]
    BY LoopEq
  <2>. QED
    BY <2>1
<1>3. ASSUME NEW n \in Nat, \A m \in Nat : m < n => m \in T
      PROVE  n \in T
  <2> SUFFICES ASSUME n <= Len(in) PROVE Loop(in)[at(n)] \in Decodings
    OBVIOUS
  <2>1. at(n) \in 1 .. Len(in) + 1
    BY <1>1
  <2>2. ASSUME ~ (at(n) > Len(in)), ~Bad(in, at(n))
        PROVE  Loop(in)[NextAt(in, at(n))] \in Decodings
    <3> DEFINE j == NextAt(in, at(n))
               m == Len(in) + 1 - j
    <3>1. at(n) \in 1 .. Len(in)
      BY <1>1, <2>2
    <3>2. j \in at(n) + 1 .. Len(in) + 1
      BY <3>1, <2>2, TurnOk
    <3> HIDE DEF j
    <3>3. m \in Nat /\ m < n /\ m <= Len(in) /\ at(m) = j
      BY <3>2, <1>1
    <3>. QED
      BY <3>3, <1>3 DEF j
  <2>3. Turn(in, Loop(in), at(n)) \in Decodings
    BY <2>1, <2>2, TurnType
  <2>. QED
    BY <1>2, <2>1, <2>3
<1>4. \A n \in Nat : n \in T
  <2> HIDE DEF T
  <2>. QED
    BY <1>3, StrongInduction
<1>5. Len(in) + 1 - i \in Nat /\ Len(in) + 1 - i <= Len(in) /\ at(Len(in) + 1 - i) = i
  BY <1>1
<1>. QED
  BY <1>2, <1>4, <1>5

\* A turn that succeeds does the same when more characters follow.
LEMMA SameTurn ==
    ASSUME NEW in \in Seq(Codes), NEW w \in Seq(Codes), NEW i \in 1 .. Len(in), ~Bad(in, i)
    PROVE  /\ ~Bad(in \o w, i) /\ NextAt(in \o w, i) = NextAt(in, i)
           /\ Decoded(in \o w, i) = Decoded(in, i)
<1> DEFINE u == in \o w
<1>1. /\ u \in Seq(Codes) /\ Len(in) \in Nat /\ Len(u) \in Nat /\ Len(u) >= Len(in)
      /\ \A k \in 1 .. Len(in) : u[k] = in[k]
  BY ConcatProperties
<1> HIDE DEF u
<1>2. u[i] = in[i]
  BY <1>1
<1>3. CASE in[i] = Percent
  <2>1. i + 2 <= Len(in)
    BY <1>3 DEF Bad, Escape
  <2>2. u[i + 1] = in[i + 1] /\ u[i + 2] = in[i + 2] /\ i + 2 <= Len(u)
    BY <1>1, <2>1
  <2>3. Escape(u, i) = Escape(in, i)
    BY <1>2, <1>3, <2>1, <2>2 DEF Escape
  <2>4. ~Bad(u, i) /\ NextAt(u, i) = NextAt(in, i) /\ Decoded(u, i) = Decoded(in, i)
    BY <1>2, <1>3, <2>3 DEF Bad, NextAt, Decoded
  <2>. QED
    BY <2>4 DEF u
<1>4. CASE in[i] # Percent
  <2>1. ~Bad(u, i) /\ NextAt(u, i) = NextAt(in, i) /\ Decoded(u, i) = Decoded(in, i)
    BY <1>2, <1>4 DEF Bad, NextAt, Decoded
  <2>. QED
    BY <2>1 DEF u
<1>. QED
  BY <1>3, <1>4

\* If w decodes to the one character c after in, then what in decodes to is
\* followed by c.
LEMMA Follows ==
    ASSUME NEW in \in Seq(Codes), NEW w \in Seq(Codes), NEW c \in Codes,
           Loop(in \o w)[Len(in) + 1] = <<TRUE, <<c>>>>,
           NEW m, url_decode(in) = <<TRUE, m>>
    PROVE  url_decode(in \o w) = <<TRUE, m \o <<c>>>>
<1> DEFINE u == in \o w
           at(n) == Len(in) + 1 - n
           T == {n \in Nat : n <= Len(in) /\ Loop(in)[at(n)][1] = TRUE =>
                    Loop(u)[at(n)] = <<TRUE, Loop(in)[at(n)][2] \o <<c>>>>}
<1>1. u \in Seq(Codes) /\ Len(in) \in Nat /\ Len(u) \in Nat /\ Len(u) >= Len(in)
  BY ConcatProperties
<1>2. Loop(u)[Len(in) + 1] = <<TRUE, <<c>>>>
  OBVIOUS
<1>3. \A i \in 1 .. Len(in) : ~Bad(in, i) =>
          /\ ~Bad(u, i) /\ NextAt(u, i) = NextAt(in, i)
          /\ Decoded(u, i) = Decoded(in, i)
  BY SameTurn
<1> HIDE DEF u
<1>4. ASSUME NEW n \in Nat, \A k \in Nat : k < n => k \in T
      PROVE  n \in T
  <2> SUFFICES ASSUME n <= Len(in), Loop(in)[at(n)][1] = TRUE
               PROVE  Loop(u)[at(n)] = <<TRUE, Loop(in)[at(n)][2] \o <<c>>>>
    OBVIOUS
  <2>1. CASE n = 0
    <3>1. at(n) = Len(in) + 1
      BY <2>1, <1>1
    <3>2. Loop(in)[Len(in) + 1] = <<TRUE, <<>>>>
      <4>1. Len(in) + 1 \in 1 .. Len(in) + 1 /\ Len(in) + 1 > Len(in)
        BY <1>1
      <4>. QED
        BY <4>1, LoopAt DEF Turn
    <3>. QED
      <4>1. Loop(in)[Len(in) + 1][2] = <<>>
        BY <3>2, Pair
      <4>2. <<>> \o <<c>> = <<c>>
        OBVIOUS
      <4>. QED
        BY <3>1, <4>1, <4>2, <1>2
  <2>2. CASE n # 0
    <3> DEFINE i == at(n)
               j == NextAt(in, i)
               k == Len(in) + 1 - j
               x == Decoded(in, i)
    <3>1. i \in 1 .. Len(in) /\ i \in 1 .. Len(in) + 1 /\ i \in 1 .. Len(u) + 1
          /\ ~ (i > Len(in)) /\ ~ (i > Len(u))
      BY <1>1, <2>2
    <3>2. Loop(in)[i] = Turn(in, Loop(in), i) /\ Loop(u)[i] = Turn(u, Loop(u), i)
      BY <1>1, <3>1, LoopAt
    <3>3. ~Bad(in, i)
      <4>1. Bad(in, i) => Loop(in)[i] = <<FALSE, <<>>>>
        BY <3>1, <3>2 DEF Turn
      <4>2. <<FALSE, <<>>>>[1] = FALSE
        BY Pair
      <4>. QED
        BY <4>1, <4>2
    <3>4. j \in i + 1 .. Len(in) + 1 /\ x \in Codes
      BY <3>1, <3>3, TurnOk
    <3>5. Loop(in)[i] = <<Loop(in)[j][1], <<x>> \o Loop(in)[j][2]>>
      BY <3>1, <3>2, <3>3 DEF Turn
    <3>6. Loop(u)[i] = <<Loop(u)[j][1], <<x>> \o Loop(u)[j][2]>>
      BY <3>1, <3>2, <3>3, <1>3 DEF Turn
    <3>7. Loop(in)[j] \in Decodings
      BY <3>4, <3>1, LoopAt
    <3>8. Loop(in)[j][2] \in Seq(Codes)
      BY <3>7 DEF Decodings
    <3>9. Loop(u)[j] = <<TRUE, Loop(in)[j][2] \o <<c>>>>
      <4> HIDE DEF j, x
      <4>1. k \in Nat /\ k < n /\ k <= Len(in) /\ at(k) = j
        BY <3>4, <1>1
      <4>2. Loop(in)[j][1] = TRUE
        BY <3>5, Pair
      <4>. QED
        BY <4>1, <4>2, <1>4
    <3> HIDE DEF i, j, x
    <3>10. <<x>> \o (Loop(in)[j][2] \o <<c>>) = (<<x>> \o Loop(in)[j][2]) \o <<c>>
      BY <3>4, <3>8, Between
    <3>11. /\ Loop(u)[j][1] = TRUE /\ Loop(u)[j][2] = Loop(in)[j][2] \o <<c>>
           /\ Loop(in)[i][2] = <<x>> \o Loop(in)[j][2]
      <4>1. Loop(u)[j][1] = TRUE /\ Loop(u)[j][2] = Loop(in)[j][2] \o <<c>>
        <5> DEFINE p == Loop(u)[j]
                   q == Loop(in)[j][2] \o <<c>>
        <5>1. p = <<TRUE, q>>
          BY <3>9
        <5> HIDE DEF p, q
        <5>2. p[1] = TRUE /\ p[2] = q
          BY <5>1, Pair
        <5>. QED
          BY <5>2 DEF p, q
      <4>2. Loop(in)[i][2] = <<x>> \o Loop(in)[j][2]
        BY <3>5, Pair
      <4>. QED
        BY <4>1, <4>2
    <3>12. Loop(u)[i] = <<TRUE, (<<x>> \o Loop(in)[j][2]) \o <<c>>>>
      BY <3>6, <3>10, <3>11
    <3>. QED
      BY <3>11, <3>12 DEF i
  <2>. QED
    BY <2>1, <2>2
<1>5. \A n \in Nat : n \in T
  <2> HIDE DEF T
  <2>. QED
    BY <1>4, StrongInduction
<1>6. Loop(in)[1] = <<TRUE, m>> /\ Loop(in)[1][1] = TRUE /\ Loop(in)[1][2] = m
  <2>1. Loop(in)[1] = <<TRUE, m>>
    BY UrlDecode, Zenon
  <2>. QED
    BY <2>1, Pair
<1>7. at(Len(in)) = 1
  BY <1>1
<1> HIDE DEF at
<1>8. Len(in) \in T /\ Len(in) <= Len(in)
  <2> HIDE DEF T
  <2>. QED
    BY <1>1, <1>5
<1>9. Loop(u)[1] = <<TRUE, m \o <<c>>>>
  BY <1>6, <1>7, <1>8
<1>. QED
  BY <1>9, UrlDecode, Zenon DEF u

\* What follows is one turn that gives c.
LEMMA OneTurn ==
    ASSUME NEW in \in Seq(Codes), NEW w \in Seq(Codes), w # <<>>, NEW c \in Codes,
           ~Bad(in \o w, Len(in) + 1), NextAt(in \o w, Len(in) + 1) = Len(in \o w) + 1,
           Decoded(in \o w, Len(in) + 1) = c
    PROVE  Loop(in \o w)[Len(in) + 1] = <<TRUE, <<c>>>>
<1> DEFINE u == in \o w
           n == Len(in) + 1
<1>1. u \in Seq(Codes) /\ Len(u) \in Nat /\ n \in 1 .. Len(u) /\ Len(u) + 1 \in 1 .. Len(u) + 1
      /\ n \in 1 .. Len(u) + 1
  <2>1. Len(w) # 0 /\ Len(w) \in Nat /\ Len(in) \in Nat
    BY EmptySeq
  <2>2. u \in Seq(Codes) /\ Len(u) = Len(in) + Len(w)
    BY ConcatProperties
  <2>. QED
    BY <2>1, <2>2
<1>2. ~Bad(u, n) /\ NextAt(u, n) = Len(u) + 1 /\ Decoded(u, n) = c
  OBVIOUS
<1> HIDE DEF u, n
<1>3. Loop(u)[Len(u) + 1] = <<TRUE, <<>>>>
  <2>1. Loop(u)[Len(u) + 1] = Turn(u, Loop(u), Len(u) + 1)
    BY <1>1, LoopAt
  <2>2. Len(u) + 1 > Len(u)
    BY <1>1
  <2>. QED
    BY <2>1, <2>2 DEF Turn
<1>4. Loop(u)[n] = Turn(u, Loop(u), n) /\ ~ (n > Len(u))
  <2>1. u \in Seq(Codes) /\ n \in 1 .. Len(u) + 1
    BY <1>1
  <2>2. Loop(u)[n] = Turn(u, Loop(u), n)
    BY <2>1, LoopAt
  <2>. QED
    BY <1>1, <2>2
<1>5. Loop(u)[n] = <<Loop(u)[Len(u) + 1][1], <<c>> \o Loop(u)[Len(u) + 1][2]>>
  BY <1>2, <1>4 DEF Turn
<1>6. Loop(u)[Len(u) + 1][1] = TRUE /\ Loop(u)[Len(u) + 1][2] = <<>>
  BY <1>3, Pair
<1>7. <<c>> \o <<>> = <<c>>
  OBVIOUS
<1>8. Loop(u)[n] = <<TRUE, <<c>>>>
  BY <1>5, <1>6, <1>7
<1>. QED
  BY <1>8 DEF u, n

LEMMA HexWritten ==
    ASSUME NEW n \in 0 .. 15
    PROVE  /\ HexDigit(n) \in Codes /\ IsHex(HexDigit(n))
           /\ HexVal(HexDigit(n)) = n
BY DEF HexDigit, Codes, IsHex, HexVal, DigitCode

\* The three ways of writing a character.
LEMMA AsItIs ==
    ASSUME NEW in \in Seq(Codes), NEW c \in Codes, c \notin {Percent, Plus},
           NEW m, url_decode(in) = <<TRUE, m>>
    PROVE  url_decode(in \o <<c>>) = <<TRUE, m \o <<c>>>>
<1> DEFINE u == in \o <<c>>
<1>1. <<c>> \in Seq(Codes) /\ <<c>> # <<>> /\ Len(in) \in Nat
  OBVIOUS
<1>2. u[Len(in) + 1] = c /\ Len(u) = Len(in) + 1
  OBVIOUS
<1> HIDE DEF u
<1>3. /\ ~Bad(u, Len(in) + 1) /\ NextAt(u, Len(in) + 1) = Len(u) + 1
      /\ Decoded(u, Len(in) + 1) = c
  BY <1>2 DEF Bad, NextAt, Decoded
<1>4. Loop(u)[Len(in) + 1] = <<TRUE, <<c>>>>
  BY <1>1, <1>3, OneTurn DEF u
<1>. QED
  BY <1>1, <1>4, Follows DEF u

LEMMA AsPlus ==
    ASSUME NEW in \in Seq(Codes), NEW m, url_decode(in) = <<TRUE, m>>
    PROVE  url_decode(in \o <<Plus>>) = <<TRUE, m \o <<Space>>>>
<1> DEFINE w == <<Plus>>
           u == in \o w
<1>1. w \in Seq(Codes) /\ w # <<>> /\ Len(in) \in Nat /\ Space \in Codes
  BY DEF Codes, Plus, Space
<1>2. u[Len(in) + 1] = Plus /\ Len(u) = Len(in) + 1 /\ Plus # Percent
  BY DEF Plus, Percent
<1> HIDE DEF u, w
<1>3. /\ ~Bad(u, Len(in) + 1) /\ NextAt(u, Len(in) + 1) = Len(u) + 1
      /\ Decoded(u, Len(in) + 1) = Space
  BY <1>2 DEF Bad, NextAt, Decoded
<1>4. Loop(u)[Len(in) + 1] = <<TRUE, <<Space>>>>
  BY <1>1, <1>3, OneTurn DEF u
<1>5. url_decode(u) = <<TRUE, m \o <<Space>>>>
  BY <1>1, <1>4, Follows DEF u
<1>. QED
  BY <1>5 DEF u, w

LEMMA AsEscape ==
    ASSUME NEW in \in Seq(Codes), NEW c \in Codes,
           NEW m, url_decode(in) = <<TRUE, m>>
    PROVE  LET w == <<Percent, HexDigit(c \div 16), HexDigit(c % 16)>>
           IN  w \in Seq(Codes) /\ url_decode(in \o w) = <<TRUE, m \o <<c>>>>
<1> DEFINE a == HexDigit(c \div 16)
           b == HexDigit(c % 16)
           w == <<Percent, a, b>>
           u == in \o w
           n == Len(in)
<1>1. c \div 16 \in 0 .. 15 /\ (c % 16) \in 0 .. 15 /\ 16 * (c \div 16) + (c % 16) = c
      /\ (c % 256) = c
  <2>1. c \in 0 .. 255
    BY DEF Codes
  <2>. QED
    BY <2>1
<1>2. /\ a \in Codes /\ IsHex(a) /\ HexVal(a) = c \div 16
      /\ b \in Codes /\ IsHex(b) /\ HexVal(b) = c % 16
  BY <1>1, HexWritten
<1>3. w \in Seq(Codes) /\ w # <<>> /\ Len(w) = 3 /\ Len(in) \in Nat
  BY <1>2 DEF Codes, Percent
<1> HIDE DEF a, b
<1>4. Value(a, b) = c
  <2>1. a # Plus /\ a # Minus
    BY <1>2 DEF IsHex, DigitCode, Plus, Minus
  <2>. QED
    BY <1>1, <1>2, <2>1 DEF Value
<1>5. u[n + 1] = Percent /\ u[n + 2] = a /\ u[n + 3] = b /\ Len(u) = n + 3
  <2>1. w[1] = Percent /\ w[2] = a /\ w[3] = b
    OBVIOUS
  <2> HIDE DEF w
  <2>2. /\ Len(in \o w) = Len(in) + Len(w)
        /\ \A i \in 1 .. Len(in) + Len(w) : (in \o w)[i] = IF i <= Len(in) THEN in[i] ELSE w[i - Len(in)]
    BY <1>3, ConcatProperties
  <2>. QED
    BY <2>1, <2>2, <1>3
<1> HIDE DEF u, w, n
<1>6. n \in Nat /\ n = Len(in)
  BY DEF n
<1>7. Escape(u, n + 1) = c
  BY <1>4, <1>5, <1>6 DEF Escape
<1>8. c # -256
  BY DEF Codes
<1>9. ~Bad(u, n + 1) /\ NextAt(u, n + 1) = Len(u) + 1 /\ Decoded(u, n + 1) = c
  BY <1>1, <1>5, <1>6, <1>7, <1>8 DEF Bad, NextAt, Decoded
<1>10. Loop(u)[Len(in) + 1] = <<TRUE, <<c>>>>
  BY <1>3, <1>6, <1>9, OneTurn DEF u
<1>11. url_decode(u) = <<TRUE, m \o <<c>>>>
  BY <1>3, <1>10, Follows DEF u
<1>. QED
  BY <1>3, <1>11 DEF u, w, a, b
-----------------------------------------------------------------------------
LEMMA DecodedEmpty == url_decode(<<>>) = <<TRUE, <<>>>>
<1>1. <<>> \in Seq(Codes) /\ Len(<<>>) = 0 /\ 1 \in 1 .. Len(<<>>) + 1 /\ 1 > Len(<<>>)
  BY EmptySeq
<1>2. Loop(<<>>)[1] = Turn(<<>>, Loop(<<>>), 1)
  BY <1>1, LoopAt
<1>3. Loop(<<>>)[1] = <<TRUE, <<>>>>
  BY <1>1, <1>2 DEF Turn
<1>. QED
  BY <1>3, UrlDecode, Zenon

LEMMA DecodedSeq == ASSUME NEW in \in Seq(Codes) PROVE url_decode(in)[2] \in Seq(Codes)
<1>1. 1 \in 1 .. Len(in) + 1
  OBVIOUS
<1>2. Loop(in)[1] \in Decodings
  BY <1>1, LoopAt
<1>3. url_decode(in) = Loop(in)[1]
  BY UrlDecode
<1>. QED
  BY <1>2, <1>3 DEF Decodings

\* The path is absolute and without "..".
Clean(path) ==
    /\ path[1] = Slash
    /\ \A i \in 1 .. Len(path) - 1 : ~ (path[i] = Dot /\ path[i + 1] = Dot)

HasNul(path) == \E i \in 1 .. Len(path) : path[i] = Nul

\* What may be opened for a uri.
Openable(path, in) ==
    /\ Clean(path)
    /\ path[Len(path)] = Slash => HasNul(url_decode(in)[2])

LEMMA TwoDots ==
    ASSUME NEW p \in Seq(Codes), NEW i \in 1 .. Len(p) - 1,
           p[i] = Dot, p[i + 1] = Dot
    PROVE  Occurs(<<Dot, Dot>>, p)
<1> DEFINE s == <<Dot, Dot>>
<1>1. Len(s) = 2
  OBVIOUS
<1>2. Len(p) \in Nat /\ i \in 1 .. Len(p) - Len(s) + 1 /\ i + Len(s) - 1 = i + 1
  BY <1>1
<1>3. SubSeq(p, i, i + 1) = s
  <2> DEFINE t == SubSeq(p, i, i + 1)
  <2>1. i \in Int /\ i + 1 \in Int /\ i <= i + 1 /\ \A j \in i .. i + 1 : p[j] \in Codes
    BY ElementOfSeq
  <2>2. t \in Seq(Codes) /\ Len(t) = 2 /\ t[1] = p[i] /\ t[2] = p[i + 1]
    BY <2>1, SubSeqProperties
  <2>3. s \in Seq(Codes) /\ Len(s) = 2 /\ s[1] = Dot /\ s[2] = Dot
    BY DEF Dot, Codes
  <2> HIDE DEF s, t
  <2>4. \A k \in 1 .. Len(t) : t[k] = s[k]
    BY <2>2, <2>3
  <2>5. t = s
    BY <2>2, <2>3, <2>4, SeqEqual
  <2>. QED
    BY <2>5 DEF t
<1> HIDE DEF s
<1>4. Occurs(s, p)
  BY <1>2, <1>3 DEF Occurs
<1>. QED
  BY <1>4 DEF s

LEMMA Joined ==
    ASSUME NEW p \in Seq(Codes), NEW x \in Seq(Codes)
    PROVE  /\ Len(p) \in Nat /\ Len(x) \in Nat /\ Len(p \o x) = Len(p) + Len(x)
           /\ \A i \in 1 .. Len(p) : (p \o x)[i] = p[i]
           /\ \A i \in 1 .. Len(x) : (p \o x)[Len(p) + i] = x[i]
<1>1. /\ Len(p) \in Nat /\ Len(x) \in Nat /\ Len(p \o x) = Len(p) + Len(x)
      /\ \A i \in 1 .. Len(p) + Len(x) : (p \o x)[i] = IF i <= Len(p) THEN p[i] ELSE x[i - Len(p)]
  BY ConcatProperties
<1>. QED
  BY <1>1

LEMMA IndexedClean ==
    ASSUME NEW in \in Seq(Codes), Accepted(in)
    PROVE  LET s == Indexed(in)
           IN  /\ s \in Seq(Codes) /\ s # <<>>
               /\ Clean(s)
               /\ s[Len(s)] # Slash
               /\ HasNul(s) => HasNul(url_decode(in)[2])
<1> DEFINE p == url_decode(in)[2]
<1>1. p \in Seq(Codes)
  BY DecodedSeq
<1>2. p # <<>> /\ p[1] = Slash /\ ~Occurs(<<Dot, Dot>>, p)
  BY DEF Accepted
<1>3. Indexed(in) = IF p[Len(p)] = Slash THEN p \o Index ELSE p
  BY DEF Indexed
<1> HIDE DEF p
<1>4. Len(p) \in Nat \ {0}
  BY <1>1, <1>2, EmptySeq
<1>5. \A i \in 1 .. Len(p) - 1 : ~ (p[i] = Dot /\ p[i + 1] = Dot)
  BY <1>1, <1>2, TwoDots
<1>6. CASE p[Len(p)] # Slash
  BY <1>1, <1>2, <1>3, <1>5, <1>6 DEF Clean, p
<1>7. CASE p[Len(p)] = Slash
  <2> DEFINE x == Index
             q == p \o x
  <2>1. /\ x \in Seq(Codes) /\ Len(x) = 10 /\ x[1] = 105 /\ x[10] = 108
        /\ \A i \in 1 .. 10 : x[i] = 46 <=> i = 6
        /\ \A i \in 1 .. 10 : x[i] # 0
    BY DEF Index, Codes
  <2> HIDE DEF x
  <2>2. Len(q) = Len(p) + 10
    <3>1. x \in Seq(Codes)
      BY <2>1
    <3>2. Len(q) = Len(p) + Len(x)
      BY <1>1, <3>1, Joined
    <3>. QED
      BY <2>1, <3>2
  <2>3. ASSUME NEW i \in 1 .. Len(p) PROVE q[i] = p[i]
    BY <1>1, <2>1, Joined
  <2>4. ASSUME NEW i \in 1 .. 10 PROVE q[Len(p) + i] = x[i]
    <3>1. i \in 1 .. Len(x)
      BY <2>1
    <3>2. x \in Seq(Codes)
      BY <2>1
    <3>. QED
      BY <1>1, <3>1, <3>2, Joined
  <2> HIDE DEF q
  <2>5. q[1] = Slash /\ q[Len(q)] # Slash
    <3>1. q[1] = p[1]
      BY <1>4, <2>3
    <3>2. q[Len(p) + 10] = 108
      BY <2>1, <2>4
    <3>. QED
      BY <1>2, <2>2, <3>1, <3>2 DEF Slash
  <2>6. ASSUME NEW i \in 1 .. Len(q) - 1, q[i] = Dot, q[i + 1] = Dot
        PROVE  FALSE
    <3>1. i \in 1 .. Len(p) + 9
      BY <2>2
    <3>2. CASE i < Len(p)
      <4>1. i \in 1 .. Len(p) - 1 /\ i \in 1 .. Len(p) /\ i + 1 \in 1 .. Len(p)
        BY <3>1, <3>2, <1>4
      <4>. QED
        BY <4>1, <1>5, <2>3, <2>6
    <3>3. CASE i = Len(p)
      <4>1. q[i] = p[i]
        BY <3>1, <3>3, <1>4, <2>3
      <4>. QED
        BY <4>1, <3>3, <1>7, <2>6 DEF Dot, Slash
    <3>4. CASE i > Len(p)
      <4> DEFINE k == i - Len(p)
      <4>1. k \in 1 .. 10 /\ k + 1 \in 1 .. 10 /\ i = Len(p) + k /\ i + 1 = Len(p) + (k + 1)
        BY <3>1, <3>4, <1>4
      <4> HIDE DEF k
      <4>2. q[i] = x[k] /\ q[i + 1] = x[k + 1]
        BY <4>1, <2>4
      <4>3. x[k] = 46 /\ x[k + 1] = 46
        BY <4>2, <2>6 DEF Dot
      <4>4. k = 6 /\ k + 1 = 6
        BY <4>1, <4>3, <2>1
      <4>. QED
        BY <4>4
    <3>. QED
      BY <3>1, <3>2, <3>3, <3>4, <1>4
  <2>7. Clean(q)
    BY <2>5, <2>6 DEF Clean
  <2>8. ASSUME NEW i \in 1 .. Len(q), q[i] = Nul
        PROVE  HasNul(p)
    <3>1. i \in 1 .. Len(p) + 10
      BY <2>2
    <3>2. CASE i <= Len(p)
      <4>1. i \in 1 .. Len(p)
        BY <3>1, <3>2, <1>4
      <4>. QED
        BY <4>1, <2>3, <2>8 DEF HasNul
    <3>3. CASE i > Len(p)
      <4> DEFINE k == i - Len(p)
      <4>1. k \in 1 .. 10 /\ i = Len(p) + k
        BY <3>1, <3>3, <1>4
      <4> HIDE DEF k
      <4>2. q[i] = x[k]
        BY <4>1, <2>4
      <4>. QED
        BY <4>1, <4>2, <2>1, <2>8 DEF Nul
    <3>. QED
      BY <3>1, <3>2, <3>3, <1>4
  <2>9. q \in Seq(Codes) /\ q # <<>>
    <3>1. q \in Seq(Codes)
      BY <1>1, <2>1, ConcatProperties DEF q
    <3>2. Len(q) # 0
      BY <2>2, <1>4
    <3>. QED
      BY <3>1, <3>2, EmptySeq
  <2>10. HasNul(q) => HasNul(p)
    BY <2>8 DEF HasNul
  <2>11. Indexed(in) = q
    BY <1>3, <1>7 DEF q, x
  <2>. QED
    BY <2>5, <2>7, <2>9, <2>10, <2>11 DEF p
<1>. QED
  BY <1>6, <1>7

\* c_str() ends a string at its first nul or not at all.
LEMMA CutAtNul ==
    ASSUME NEW s \in Seq(Codes)
    PROVE  \E n \in 0 .. Len(s) :
               /\ n < Len(s) => s[n + 1] = Nul
               /\ n > 0 => s[1] # Nul
               /\ Len(c_str(s)) = n
               /\ \A i \in 1 .. n : c_str(s)[i] = s[i]
<1> DEFINE Ends(k) == /\ k < Len(s) => s[k + 1] = Nul
                      /\ \A i \in 1 .. k : s[i] # Nul
           T == {k \in Nat : k < Len(s) => s[k + 1] = Nul}
           n == CHOOSE k \in 0 .. Len(s) : Ends(k)
<1>1. Len(s) \in Nat
  OBVIOUS
<1>2. PICK m \in T : \A k \in T : m <= k
  <2>1. T \in SUBSET Nat /\ Len(s) \in T
    BY <1>1
  <2> HIDE DEF T
  <2>. QED
    BY <2>1, LeastElement
<1>3. m \in 0 .. Len(s) /\ Ends(m)
  <2>1. m \in Nat /\ m <= Len(s) /\ (m < Len(s) => s[m + 1] = Nul)
    BY <1>1, <1>2
  <2>2. ASSUME NEW i \in 1 .. m, s[i] = Nul PROVE FALSE
    <3>1. i - 1 \in Nat /\ (i - 1) + 1 = i /\ i - 1 < m
      BY <2>1
    <3>2. i - 1 \in T
      BY <3>1, <2>2
    <3>. QED
      BY <3>1, <3>2, <1>2, <2>1
  <2>. QED
    BY <2>1, <2>2
<1>4. n \in 0 .. Len(s) /\ Ends(n)
  BY <1>3
<1>5. c_str(s) = SubSeq(s, 1, n)
  BY DEF c_str
<1> HIDE DEF n
<1>6. \A i \in 1 .. n : s[i] \in Codes
  BY <1>1, <1>4, ElementOfSeq
<1>7. Len(c_str(s)) = n /\ \A i \in 1 .. n : c_str(s)[i] = s[i]
  <2>1. CASE n = 0
    BY <1>5, <2>1, SubSeqProperties
  <2>2. CASE n > 0
    <3>1. 1 \in Int /\ n \in Int /\ 1 <= n /\ \A i \in 1 .. n : s[i] \in Codes
      BY <1>4, <1>6, <2>2
    <3>. QED
      BY <1>5, <3>1, SubSeqProperties
  <2>. QED
    BY <1>4, <2>1, <2>2
<1>8. n > 0 => s[1] # Nul
  BY <1>4
<1>. QED
  BY <1>4, <1>7, <1>8

\* So is what c_str() leaves of an absolute path without "..", and if it ends
\* elsewhere than the path did, there is a nul.
LEMMA PathOpenable ==
    ASSUME NEW in \in Seq(Codes), Accepted(in)
    PROVE  Path(in) # NoPath /\ Openable(Path(in), in)
<1> DEFINE s == Indexed(in)
           path == Path(in)
<1>1. /\ s \in Seq(Codes) /\ s # <<>>
      /\ Clean(s)
      /\ s[Len(s)] # Slash
      /\ HasNul(s) => HasNul(url_decode(in)[2])
  BY IndexedClean
<1>2. path = c_str(s)
  BY DEF Path
<1> HIDE DEF s, path
<1>3. PICK n \in 0 .. Len(s) :
               /\ n < Len(s) => s[n + 1] = Nul
               /\ n > 0 => s[1] # Nul
               /\ Len(path) = n
               /\ \A i \in 1 .. n : path[i] = s[i]
  BY <1>1, <1>2, CutAtNul
<1>4. Len(s) \in Nat \ {0} /\ n \in Nat /\ n <= Len(s)
  BY <1>1, <1>3, EmptySeq
<1>5. n > 0
  <2>1. s[1] # Nul
    BY <1>1 DEF Clean, Slash, Nul
  <2>. QED
    BY <1>3, <1>4, <2>1
<1>6. path[1] = Slash
  BY <1>1, <1>3, <1>4, <1>5 DEF Clean
<1>7. ASSUME NEW i \in 1 .. Len(path) - 1, path[i] = Dot, path[i + 1] = Dot
      PROVE  FALSE
  <2>1. i \in 1 .. n /\ i + 1 \in 1 .. n /\ i \in 1 .. Len(s) - 1
    BY <1>3, <1>4
  <2>2. path[i] = s[i] /\ path[i + 1] = s[i + 1]
    BY <1>3, <2>1
  <2>. QED
    BY <1>1, <1>7, <2>1, <2>2 DEF Clean
<1>8. ASSUME path[Len(path)] = Slash
      PROVE  HasNul(url_decode(in)[2])
  <2>1. s[n] = Slash
    BY <1>3, <1>4, <1>5, <1>8
  <2>2. n # Len(s)
    BY <1>1, <2>1
  <2>3. n + 1 \in 1 .. Len(s) /\ s[n + 1] = Nul
    BY <1>3, <1>4, <2>2
  <2>. QED
    BY <1>1, <2>3 DEF HasNul
<1>9. path # NoPath
  BY <1>3, <1>5 DEF NoPath
<1>. QED
  BY <1>6, <1>7, <1>8, <1>9 DEF Openable, Clean, path
-----------------------------------------------------------------------------
\* The buffers of a reply frame its content.
Framed(rep) ==
    LET b == to_buffers(rep)
        l == CHOOSE i \in 1 .. Len(b) : b[i] = <<"Content-Length">>
    IN  Body(b) = <<<<"content", b[l + 2][2]>>>>

Types == {"text/html", "image or text/plain"}

LEMMA Buffers ==
    /\ \A x, y, z : <<x, y>> # <<z>>
    /\ \A x, y : <<x>> = <<y>> => x = y
<1>1. \A x, y, z : Len(<<x, y>>) = 2 /\ Len(<<z>>) = 1 /\ <<z>>[1] = z
  OBVIOUS
<1>. QED
  BY <1>1

\* Where an empty line starts, and where a name is.
Ends(b, crlf, status) == {i \in 1 .. Len(b) - 1 : b[i + 1] = crlf /\ b[i] \in {crlf, status}}
At(b, name) == CHOOSE i \in 1 .. Len(b) : b[i] = name

\* The buffers in their order, of which only the end of the ninth and the tenth
\* make an empty line.
Laid(b, crlf, status, name, colon, number, other, type, content) ==
    /\ b = <<status, name, colon, number, crlf, other, colon, type, crlf, crlf, content>>
    /\ crlf \notin {status, name, colon, number, other, type, content}
    /\ status \notin {number, type}
    /\ name \notin {status, colon, number, other, type, content}

LEMMA EmptyLine ==
    ASSUME NEW crlf, NEW status, NEW name, NEW colon, NEW number, NEW other, NEW type, NEW content,
           NEW b, Laid(b, crlf, status, name, colon, number, other, type, content)
    PROVE  /\ Len(b) = 11
           /\ Ends(b, crlf, status) = {9}
           /\ At(b, name) = 2
           /\ SubSeq(b, 11, Len(b)) = <<content>>
<1>1. /\ Len(b) = 11
      /\ b[1] = status /\ b[2] = name /\ b[3] = colon /\ b[4] = number /\ b[5] = crlf
      /\ b[6] = other /\ b[7] = colon /\ b[8] = type /\ b[9] = crlf /\ b[10] = crlf
      /\ b[11] = content
  BY DEF Laid
<1> DEFINE S == {status, name, colon, number, crlf, other, type, content}
<1> HIDE DEF S
<1>3. ASSUME NEW i \in 1 .. Len(b) - 1 PROVE b[i + 1] = crlf /\ b[i] \in {crlf, status} <=> i = 9
  <2>1. i \in 1 .. 10
    BY <1>1
  <2>2. b[i + 1] = crlf => i \in {4, 8, 9}
    BY <1>1, <2>1 DEF Laid
  <2>. QED
    BY <1>1, <2>1, <2>2 DEF Laid
<1>4. Ends(b, crlf, status) = {9}
  <2>1. 9 \in 1 .. Len(b) - 1
    BY <1>1
  <2>. QED
    BY <1>3, <2>1 DEF Ends
<1>5. ASSUME NEW i \in 1 .. Len(b) PROVE b[i] = name <=> i = 2
  BY <1>1 DEF Laid
<1>6. At(b, name) = 2
  <2>1. 2 \in 1 .. Len(b)
    BY <1>1
  <2>. QED
    BY <1>5, <2>1 DEF At
<1>7. SubSeq(b, 11, 11) = <<content>>
  <2>1. SubSeq(b, 11, 11) \in Seq(S) /\ Len(SubSeq(b, 11, 11)) = 1 /\ SubSeq(b, 11, 11)[1] = content
    <3>1. \A i \in 11 .. 11 : b[i] \in S
      BY <1>1 DEF S
    <3>. QED
      BY <1>1, <3>1, SubSeqProperties
  <2>2. <<content>> \in Seq(S) /\ Len(<<content>>) = 1 /\ <<content>>[1] = content
    BY DEF S
  <2>3. \A i \in 1 .. Len(SubSeq(b, 11, 11)) : SubSeq(b, 11, 11)[i] = <<content>>[i]
    BY <2>1, <2>2
  <2>. QED
    BY <2>1, <2>2, <2>3, SeqEqual
<1>. QED
  BY <1>1, <1>4, <1>6, <1>7

LEMMA ReplyFramed ==
    ASSUME NEW rep, rep.content = rep.length, rep.type \in Types
    PROVE  Framed(rep)
<1> DEFINE crlf == <<"crlf">>
           status == <<"status line">>
           name == <<"Content-Length">>
           colon == <<": ">>
           number == <<"number", rep.length>>
           other == <<"Content-Type">>
           type == <<rep.type>>
           content == <<"content", rep.content>>
           b == <<status, name, colon, number, crlf, other, colon, type, crlf, crlf, content>>
           ends == Ends(b, crlf, status)
           first == CHOOSE i \in ends : \A j \in ends : i <= j
           l == At(b, name)
<1>1. to_buffers(rep) = b
  BY DEF to_buffers
<1>2. Body(b) = IF ends = {} THEN <<>> ELSE SubSeq(b, first + 2, Len(b))
  BY DEF Body, Ends
<1>3. Framed(rep) <=> Body(b) = <<<<"content", b[l + 2][2]>>>>
  BY <1>1 DEF Framed, At
<1>4. b[4][2] = rep.content /\ content = <<"content", rep.content>>
  OBVIOUS
<1>5. crlf # status /\ crlf # name /\ crlf # colon /\ crlf # other /\ crlf # type
  BY Buffers DEF Types
<1>6. crlf # number /\ crlf # content /\ status # number /\ name # number /\ name # content
  BY Buffers
<1>7. status # type /\ name # status /\ name # colon /\ name # other /\ name # type
  BY Buffers DEF Types
<1> HIDE DEF crlf, status, name, colon, number, other, type, content
<1>8. Len(b) = 11 /\ ends = {9} /\ l = 2 /\ SubSeq(b, 11, Len(b)) = <<content>>
  <2> HIDE DEF b
  <2>1. b = <<status, name, colon, number, crlf, other, colon, type, crlf, crlf, content>>
    BY DEF b
  <2>2. Laid(b, crlf, status, name, colon, number, other, type, content)
    BY <1>5, <1>6, <1>7, <2>1 DEF Laid
  <2>. QED
    BY <2>2, EmptyLine
<1> HIDE DEF b, ends, l
<1>9. first = 9
  <2>1. 9 \in ends /\ \A i \in ends : i = 9
    BY <1>8
  <2>. QED
    BY <2>1
<1> HIDE DEF first
<1>10. Body(b) = <<content>>
  BY <1>2, <1>8, <1>9
<1>. QED
  BY <1>3, <1>4, <1>8, <1>10

\* The loop that copies the file appends all of it.
LEMMA WholeLength ==
    ASSUME NEW n \in Nat
    PROVE  Appended(n) = n
<1> DEFINE Eq(f) == f = [k \in 0 .. n |-> IF k = 0 THEN 0
                                   ELSE IF k < Chunk THEN k ELSE Chunk + f[k - Chunk]]
           Left == CHOOSE f : Eq(f)
<1>0. Chunk \in Nat \ {0}
  BY HandlerAssumption
<1>1. Appended(n) = Left[n]
  BY DEF Appended
<1>2. Eq([k \in 0 .. n |-> k])
  BY <1>0
<1>3. Eq(Left)
  BY <1>2
<1> HIDE DEF Left
<1> DEFINE T == {k \in Nat : k <= n => Left[k] = k}
<1>4. ASSUME NEW k \in Nat, \A j \in Nat : j < k => j \in T PROVE k \in T
  BY <1>0, <1>3, <1>4
<1>5. \A k \in Nat : k \in T
  <2> HIDE DEF T
  <2>. QED
    BY <1>4, StrongInduction
<1>. QED
  BY <1>1, <1>5
-----------------------------------------------------------------------------
\* The inductive invariant: its parts are the properties themselves, with the
\* types of the variables.
Copied ==
    reply # NoReply => /\ Framed(reply)
                       /\ reply.status = "ok" => reply.content = file

HandlerInv ==
    /\ target \in Seq(Codes)
    /\ DecodesMeaning
    /\ opened # NoPath => reply # NoReply /\ Openable(opened, target)
    /\ Copied

LEMMA HandlerStarts == HandlerInit => HandlerInv
<1> SUFFICES ASSUME HandlerInit PROVE HandlerInv
  OBVIOUS
<1>1. /\ target = <<>> /\ meant = <<>> /\ opened = NoPath
      /\ reply = NoReply /\ <<>> \in Seq(Codes)
  BY EmptySeq DEF HandlerInit
<1>2. url_decode(target) = <<TRUE, meant>>
  BY <1>1, DecodedEmpty, Zenon
<1>. QED
  BY <1>1, <1>2 DEF HandlerInv, DecodesMeaning, Copied

LEMMA HandlerEncode ==
    ASSUME HandlerInv, NEW c \in Code, Encode(c)
    PROVE  HandlerInv'
<1>1. c \in Codes
  BY HandlerAssumption DEF Codes
<1>2. target \in Seq(Codes) /\ url_decode(target) = <<TRUE, meant>>
  BY DEF HandlerInv, DecodesMeaning, Encode
<1>3. meant \in Seq(Codes)
  BY <1>2, DecodedSeq, Pair
<1>4. Append(meant, c) = meant \o <<c>> /\ \A d \in Codes : Append(target, d) = target \o <<d>>
  BY <1>1, <1>2, <1>3, AppendIsConcat
<1>5. meant' = meant \o <<c>>
  BY <1>4 DEF Encode
<1>6. target' \in Seq(Codes) /\ url_decode(target)' = <<TRUE, meant'>>
  <2>1. CASE c \in UriChar \ {Percent, Plus} /\ target' = Append(target, c)
    <3>1. target' = target \o <<c>> /\ target' \in Seq(Codes)
      BY <2>1, <1>1, <1>2, <1>4
    <3>. QED
      BY <2>1, <3>1, <1>1, <1>2, <1>5, AsItIs
  <2>2. CASE c = Space /\ target' = Append(target, Plus)
    <3>1. Plus \in Codes
      BY DEF Codes, Plus
    <3>2. target' = target \o <<Plus>> /\ target' \in Seq(Codes)
      BY <2>2, <3>1, <1>2, <1>4
    <3>. QED
      BY <2>2, <3>2, <1>2, <1>5, AsPlus
  <2>3. CASE target' = target \o <<Percent, HexDigit(c \div 16),
                                   HexDigit(c % 16)>>
    <3> DEFINE w == <<Percent, HexDigit(c \div 16), HexDigit(c % 16)>>
    <3>1. w \in Seq(Codes) /\ url_decode(target \o w) = <<TRUE, meant \o <<c>>>>
      BY <1>1, <1>2, AsEscape
    <3> HIDE DEF w
    <3>2. target' = target \o w
      BY <2>3 DEF w
    <3>3. target' \in Seq(Codes)
      BY <3>1, <3>2, <1>2
    <3>. QED
      BY <3>1, <3>2, <3>3, <1>5
  <2>. QED
    BY <2>1, <2>2, <2>3 DEF Encode
<1>7. DecodesMeaning'
  BY <1>6 DEF DecodesMeaning
<1>8. UNCHANGED <<opened, file, reply>> /\ opened = NoPath
  BY DEF Encode, HandlerInv
<1>. QED
  BY <1>6, <1>7, <1>8 DEF HandlerInv, Copied, Framed

LEMMA HandlerScribble ==
    ASSUME HandlerInv, NEW c \in Code, Scribble(c)
    PROVE  HandlerInv'
<1>1. c \in Codes
  BY HandlerAssumption DEF Codes
<1>2. target' \in Seq(Codes) /\ meant' = Anything /\ UNCHANGED <<opened, file, reply>>
  BY <1>1 DEF HandlerInv, Scribble
<1>3. opened = NoPath
  BY DEF HandlerInv, Scribble
<1>. QED
  BY <1>2, <1>3 DEF HandlerInv, Copied, Framed, DecodesMeaning

LEMMA HandlerRefuse ==
    ASSUME HandlerInv, Refuse
    PROVE  HandlerInv'
<1>1. UNCHANGED <<target, meant, opened, file>> /\ reply' = stock_reply("bad_request")
  BY DEF Refuse
<1>2. /\ reply'.content = reply'.length /\ reply'.type \in Types
      /\ reply'.status # "ok"
  BY <1>1 DEF stock_reply, Reply, Types
<1>3. Framed(reply')
  BY <1>2, ReplyFramed
<1>4. opened = NoPath
  BY DEF HandlerInv, Refuse
<1>. QED
  BY <1>1, <1>2, <1>3, <1>4 DEF HandlerInv, Copied, Framed, DecodesMeaning

LEMMA HandlerServe ==
    ASSUME HandlerInv, Serve
    PROVE  HandlerInv'
<1>1. UNCHANGED <<target, meant>> /\ Accepted(target) /\ opened' = Path(target)
  BY DEF Serve
<1>2. Openable(opened', target')
  BY <1>1, PathOpenable DEF HandlerInv
<1>3. CASE reply' = stock_reply("not_found")
  <2>1. /\ reply'.content = reply'.length /\ reply'.type \in Types
        /\ reply'.status # "ok" /\ reply' # NoReply
    BY <1>3 DEF stock_reply, Reply, Types, NoReply
  <2>2. Framed(reply')
    BY <2>1, ReplyFramed
  <2>. QED
    BY <1>1, <1>2, <2>1, <2>2 DEF HandlerInv, Openable, Clean, HasNul, Copied, Framed, DecodesMeaning
<1>4. ASSUME NEW n \in 0 .. MaxFile, file' = n,
             reply' = Reply("ok", Appended(n),
                          extension_to_type(Extension(Indexed(target))))
      PROVE  HandlerInv'
  <2>1. n \in Nat
    BY HandlerAssumption
  <2>2. Appended(n) = n
    BY <2>1, WholeLength
  <2>3. extension_to_type(Extension(Indexed(target))) \in Types
    BY DEF extension_to_type, Types
  <2>4. /\ reply'.content = reply'.length /\ reply'.type \in Types
        /\ reply'.content = file' /\ reply' # NoReply
    BY <1>4, <2>2, <2>3 DEF Reply, NoReply
  <2>5. Framed(reply')
    BY <2>4, ReplyFramed
  <2>. QED
    BY <1>1, <1>2, <2>4, <2>5 DEF HandlerInv, Openable, Clean, HasNul, Copied, Framed, DecodesMeaning
<1>. QED
  BY <1>3, <1>4 DEF Serve

LEMMA HandlerInvariance == HandlerSpec => []HandlerInv
<1>1. ASSUME HandlerInv, [HandlerNext]_handlerVars PROVE HandlerInv'
  <2>1. CASE UNCHANGED handlerVars
    BY <1>1, <2>1 DEF HandlerInv, Openable, Clean, HasNul, Copied, Framed, DecodesMeaning, handlerVars
  <2>2. CASE HandlerNext
    BY <1>1, <2>2, HandlerEncode, HandlerScribble, HandlerRefuse, HandlerServe DEF HandlerNext
  <2>. QED
    BY <1>1, <2>1, <2>2
<1>. QED
  BY <1>1, HandlerStarts, PTL DEF HandlerSpec

\* RequestHandler.DecodesMeaning, for uris of any length over any characters:
\* whatever a client encodes, decoding gives back the path it meant.
THEOREM DecodingCorrect == HandlerSpec => []DecodesMeaning
<1>1. HandlerInv => DecodesMeaning
  BY DEF HandlerInv
<1>. QED
  BY <1>1, HandlerInvariance, PTL

\* RequestHandler.OpenedClean, for every uri: what is opened, after decoding and
\* after c_str(), is an absolute path without "..", and it ends in a slash only if
\* the uri stands for something with a nul in it.
THEOREM OpenedPathClean == HandlerSpec => []OpenedClean
<1>1. HandlerInv => OpenedClean
  BY DEF HandlerInv, Openable, Clean, HasNul, OpenedClean
<1>. QED
  BY <1>1, HandlerInvariance, PTL

\* RequestHandler.WholeFile, for files of any length and a buffer of any size:
\* what the client reads as the body of the reply is all of the file.
THEOREM WholeFileCorrect == HandlerSpec => []WholeFile
<1>1. HandlerInv => WholeFile
  <2>1. WholeFile <=> Copied
    BY Zenon DEF Copied, Framed, WholeFile
  <2>. QED
    BY <2>1 DEF HandlerInv
<1>. QED
  BY <1>1, HandlerInvariance, PTL
=============================================================================
