---------------------------- MODULE RequestParser ----------------------------
(***************************************************************************)
(* http/request_parser.cpp and .hpp (the same files in http2/ and http3/): *)
(* the state machine that consumes a request character by character.       *)
(* Characters are told apart as far as the parser does; the code's switch  *)
(* is a table of rules, and a character with no rule makes the request     *)
(* bad.  The parser is not asked again after it answered good or bad.      *)
(***************************************************************************)
EXTENDS Integers, Sequences

CONSTANTS Char,      \* the characters a client may send
          MaxRead,   \* bound: characters read
          MaxLine,   \* bound: characters stored from the request line
          MaxStored  \* bound: characters stored in fields of the request

\* Every kind of character: "letter" stands for the tchars the parser does not
\* name, "special" for the other tspecials, "ctl" for the other control
\* characters, "high" for a byte above 127 (negative as a char).
AllChars == {"H", "T", "P", "1", ".", "letter", "SP", "HT", "CR", "LF",
             ":", "/", "special", "ctl", "high"}

ASSUME ParserAssumption ==
    /\ Char \subseteq AllChars
    /\ MaxRead \in Nat /\ MaxLine \in Nat /\ MaxStored \in Nat

\* Faulty form of is_ctl: the tabulator is let through.
is_ctl_tab == {"CR", "LF", "ctl"}

is_ctl == {"HT", "CR", "LF", "ctl"}
is_tspecial == {"SP", "HT", ":", "/", "special"}
is_char == AllChars \ {"high"}
is_digit == {"1"}
Token == (is_char \ is_ctl) \ is_tspecial
Text == AllChars \ is_ctl

VARIABLES state,    \* request_parser::state_
          result,   \* the last result of consume
          method, uri,     \* request::method, request::uri
          version,  \* request::http_version_major and _minor
          headers,  \* request::headers
          read,     \* history: the characters consumed
          stored    \* history: how many of them went into a field

vars == <<state, result, method, uri, version, headers, read, stored>>
-----------------------------------------------------------------------------
\* A rule: in state s, a character of the set on is stored in the field put
\* and the parser goes on in state to.
Rule(s, on, to, put) == [s |-> s, on |-> on, to |-> to, put |-> put]

StartRules == {Rule("method_start", Token, "method", "method")}

\* The request line after its first character.
LineRules == {
    Rule("method", {"SP"}, "uri", "nothing"),
    Rule("method", Token, "method", "method"),
    Rule("uri", {"SP"}, "http_version_h", "nothing"),
    Rule("uri", Text \ {"SP"}, "uri", "uri"),
    Rule("http_version_h", {"H"}, "http_version_t_1", "nothing"),
    Rule("http_version_t_1", {"T"}, "http_version_t_2", "nothing"),
    Rule("http_version_t_2", {"T"}, "http_version_p", "nothing"),
    Rule("http_version_p", {"P"}, "http_version_slash", "nothing"),
    Rule("http_version_slash", {"/"}, "http_version_major_start", "nothing"),
    Rule("http_version_major_start", is_digit, "http_version_major", "major"),
    Rule("http_version_major", {"."}, "http_version_minor_start", "nothing"),
    Rule("http_version_major", is_digit, "http_version_major", "major"),
    Rule("http_version_minor_start", is_digit, "http_version_minor", "minor"),
    Rule("http_version_minor", {"CR"}, "expecting_newline_1", "nothing"),
    Rule("http_version_minor", is_digit, "http_version_minor", "minor"),
    Rule("expecting_newline_1", {"LF"}, "header_line_start", "nothing")}

\* Faulty form of FoldRules: !req.headers.empty() is not asked.
FoldRulesAlways == {Rule("header_line_start", {"SP", "HT"}, "header_lws", "nothing")}

\* A line that continues the header above it, if there is one.
FoldRules ==
    {r \in {Rule("header_line_start", {"SP", "HT"}, "header_lws", "nothing")} :
        headers # <<>>}

\* Faulty form of ColonRules: any text may follow the colon.
ColonRulesAny == {Rule("space_before_header_value", Text, "header_value", "nothing")}

ColonRules == {Rule("space_before_header_value", {"SP"}, "header_value", "nothing")}

\* The header lines and the empty line that ends the request.
HeaderRules == {
    Rule("header_line_start", {"CR"}, "expecting_newline_3", "nothing"),
    Rule("header_line_start", Token, "header_name", "header"),
    Rule("header_lws", {"CR"}, "expecting_newline_2", "nothing"),
    Rule("header_lws", {"SP", "HT"}, "header_lws", "nothing"),
    Rule("header_lws", Text \ {"SP"}, "header_value", "value"),
    Rule("header_name", {":"}, "space_before_header_value", "nothing"),
    Rule("header_name", Token, "header_name", "name"),
    Rule("header_value", {"CR"}, "expecting_newline_2", "nothing"),
    Rule("header_value", Text, "header_value", "value"),
    Rule("expecting_newline_2", {"LF"}, "header_line_start", "nothing"),
    Rule("expecting_newline_3", {"LF"}, "expecting_newline_3", "nothing")}

Rules == StartRules \cup LineRules \cup FoldRules \cup ColonRules \cup HeaderRules

\* n * 10 + input - '0', of the one digit there is.
Digit(n) == 10 * n + 1

\* The fields after character c was stored in field put: push_back on a string,
\* headers.push_back, headers.back(), and one more decimal digit.
Put(put, c) ==
    /\ method' = IF put = "method" THEN Append(method, c) ELSE method
    /\ uri' = IF put = "uri" THEN Append(uri, c) ELSE uri
    /\ version' = CASE put = "major" -> [version EXCEPT !.major = Digit(@)]
                    [] put = "minor" -> [version EXCEPT !.minor = Digit(@)]
                    [] OTHER -> version
    /\ headers' = CASE put = "header" -> Append(headers, [name |-> <<c>>, value |-> <<>>])
                    [] put = "name" -> [headers EXCEPT ![Len(headers)].name = Append(@, c)]
                    [] put = "value" -> [headers EXCEPT ![Len(headers)].value = Append(@, c)]
                    [] OTHER -> headers
-----------------------------------------------------------------------------
Init ==
    /\ state = "method_start"
    /\ result = "indeterminate"
    /\ method = <<>>
    /\ uri = <<>>
    /\ version = [major |-> 0, minor |-> 0]
    /\ headers = <<>>
    /\ read = <<>>
    /\ stored = 0

\* consume, of a character some rule is for.
Consume(c) ==
    /\ result = "indeterminate"
    /\ \E r \in Rules :
          /\ r.s = state /\ c \in r.on
          /\ state' = r.to
          /\ Put(r.put, c)
          /\ stored' = IF r.put = "nothing" THEN stored ELSE stored + 1
    /\ result' = IF state = "expecting_newline_3" THEN "good" ELSE "indeterminate"
    /\ read' = Append(read, c)

\* consume, of any other character.
Reject(c) ==
    /\ result = "indeterminate"
    /\ \A r \in Rules : r.s = state => c \notin r.on
    /\ result' = "bad"
    /\ read' = Append(read, c)
    /\ UNCHANGED <<state, method, uri, version, headers, stored>>

Next ==
    \E c \in Char :
        /\ Len(read) < MaxRead
        /\ Consume(c) \/ Reject(c)
        /\ stored' <= IF headers' = <<>> THEN MaxLine ELSE MaxStored

Spec == Init /\ [][Next]_vars
-----------------------------------------------------------------------------
\* The enumeration request_parser::state.
State == {"method_start", "method", "uri", "http_version_h", "http_version_t_1",
    "http_version_t_2", "http_version_p", "http_version_slash",
    "http_version_major_start", "http_version_major", "http_version_minor_start",
    "http_version_minor", "expecting_newline_1", "header_line_start", "header_lws",
    "header_name", "space_before_header_value", "header_value",
    "expecting_newline_2", "expecting_newline_3"}

TypeOK ==
    /\ state \in State
    /\ result \in {"good", "bad", "indeterminate"}
    /\ method \in Seq(AllChars)
    /\ uri \in Seq(AllChars)
    /\ version \in [major : Nat, minor : Nat]
    /\ headers \in Seq([name : Seq(AllChars), value : Seq(AllChars)])
    /\ read \in Seq(AllChars)
    /\ stored \in Nat

\* Wherever the code takes headers.back() there is a header: in particular a
\* request cannot begin its headers with a continuation line.
HasHeader ==
    state \in {"header_lws", "header_name", "space_before_header_value",
               "header_value", "expecting_newline_2"} => headers # <<>>

\* The characters of an HTTP token, and those that are no control characters.
TokenChar == {"H", "T", "P", "1", ".", "letter"}
TextChar == AllChars \ {"HT", "CR", "LF", "ctl"}

\* What the fields may hold, however the request is made up: the method and the
\* header names are tokens, the uri has no blank and, like the header values,
\* no control character; in particular none of them holds a line end.
FieldsClean ==
    /\ method \in Seq(TokenChar)
    /\ uri \in Seq(TextChar \ {"SP"})
    /\ headers \in Seq([name : Seq(TokenChar), value : Seq(TextChar)])

\* The language of requests, defined by cutting the text into lines.
LineEnds(s) == {i \in 1..(Len(s) - 1) : s[i] = "CR" /\ s[i + 1] = "LF"}
All(s, S) == \A i \in 1..Len(s) : s[i] \in S

RequestLine(s) ==
    \E i, j \in 1..Len(s) : \E k \in 1..Len(s) :
        /\ 1 < i /\ i < j /\ j + 6 < k /\ k < Len(s)
        /\ All(SubSeq(s, 1, i - 1), TokenChar) /\ s[i] = "SP"
        /\ All(SubSeq(s, i + 1, j - 1), TextChar \ {"SP"}) /\ s[j] = "SP"
        /\ SubSeq(s, j + 1, j + 5) = <<"H", "T", "T", "P", "/">>
        /\ All(SubSeq(s, j + 6, k - 1), {"1"}) /\ s[k] = "."
        /\ All(SubSeq(s, k + 1, Len(s)), {"1"})

HeaderLine(s) ==
    \E i \in 2..(Len(s) - 1) :
        /\ All(SubSeq(s, 1, i - 1), TokenChar) /\ s[i] = ":" /\ s[i + 1] = "SP"
        /\ All(SubSeq(s, i + 2, Len(s)), TextChar)

FoldedLine(s) ==
    \E i \in 1..Len(s) :
        /\ All(SubSeq(s, 1, i), {"SP", "HT"})
        /\ All(SubSeq(s, i + 1, Len(s)), TextChar)

\* A request line, header lines of which the first is not a continuation, and
\* an empty line at the very end.
IsRequest(s) ==
    LET E == LineEnds(s)
        Line(i) == SubSeq(s, i + 2, (CHOOSE j \in E : j > i /\ \A k \in E : k > i => j <= k) - 1)
        first == CHOOSE j \in E : \A k \in E : j <= k
    IN  /\ Len(s) >= 4 /\ {Len(s) - 3, Len(s) - 1} \subseteq E
        /\ RequestLine(SubSeq(s, 1, first - 1))
        /\ \A i \in E \ {Len(s) - 3, Len(s) - 1} :
              HeaderLine(Line(i)) \/ (i # first /\ FoldedLine(Line(i)))

\* The parser answers good for exactly the requests, and as soon as they are
\* complete.
GoodIsRequest == (result = "good") <=> IsRequest(read)
=============================================================================
