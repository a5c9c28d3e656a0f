----------------------------- MODULE ChatMessage -----------------------------
(***************************************************************************)
(* advanced/chat_message.hpp: a message is a header of HeaderLength        *)
(* characters holding the decimal length of the body, then the body.       *)
(***************************************************************************)
EXTENDS Integers, Sequences

CONSTANTS HeaderLength,  \* chat_message::header_length (4)
          MaxBody,       \* chat_message::max_body_length (512)
          WordSize       \* 2^64: std::size_t counts modulo this

\* Characters, as far as std::atoi tells them apart: the digits are 0..9.
Space == 10
Minus == 11
Plus == 12
Letter == 13
Nul == 14
Char == 0..14

\* Power[k]: 10 to the k.
Power[k \in Nat] == IF k = 0 THEN 1 ELSE 10 * Power[k - 1]

ASSUME MessageAssumption ==
    /\ HeaderLength \in Nat \ {0} /\ MaxBody \in Nat /\ WordSize \in Nat
    /\ MaxBody < Power[HeaderLength] /\ Power[HeaderLength] < WordSize \div 2
-----------------------------------------------------------------------------
\* body_length(new_length): at most MaxBody.
Clip(n) == IF n > MaxBody THEN MaxBody ELSE n

\* Faulty form of Encode: "%d", without the width.
EncodeNarrow(n) ==
    SelectSeq([i \in 1..HeaderLength |->
                 LET p == Power[HeaderLength - i]
                 IN  IF n < p /\ p > 1 THEN Space ELSE (n \div p) % 10],
              LAMBDA c : c # Space)

\* encode_header: "%4d", right-aligned and padded with spaces.
Encode(n) ==
    [i \in 1..HeaderLength |->
        LET p == Power[HeaderLength - i]
        IN  IF n < p /\ p > 1 THEN Space ELSE (n \div p) % 10]

\* h has a character of S at i; the terminating null behind it, which strncat
\* copies, is none of those looked for.
Has(h, i, S) == i <= Len(h) /\ h[i] \in S

\* The first place from i on whose character is not of S.
Past(h, i, S) ==
    CHOOSE j \in i .. Len(h) + 1 : ~Has(h, j, S) /\ \A k \in i .. j - 1 : Has(h, k, S)

\* The number that the digits from i on make.
Number(h, i) ==
    LET value[j \in i - 1 .. Len(h)] == IF j < i THEN 0 ELSE 10 * value[j - 1] + h[j]
    IN  value[Past(h, i, 0..9) - 1]

\* std::atoi: blanks, an optional sign, then digits up to anything else.
Atoi(h) ==
    LET i == Past(h, 1, {Space})
    IN  CASE Has(h, i, {Minus}) -> -Number(h, i + 1)
          [] Has(h, i, {Plus}) -> Number(h, i + 1)
          [] OTHER -> Number(h, i)

\* Faulty form of Decode: compares as int, before the conversion to size_t.
DecodeSigned(h) ==
    IF Atoi(h) > MaxBody THEN [ok |-> FALSE, body_length |-> 0]
    ELSE [ok |-> TRUE, body_length |-> Atoi(h) % WordSize]

\* decode_header: its result, and the body_length_ it leaves.  A negative
\* number becomes a large size_t and is refused with the numbers too large.
Decode(h) ==
    LET n == Atoi(h) % WordSize
    IN  IF n > MaxBody THEN [ok |-> FALSE, body_length |-> 0]
                       ELSE [ok |-> TRUE, body_length |-> n]

\* A line made into a message by main of chat_client, and what do_write writes of
\* it: length() characters of data().
Body(line) == SubSeq(line, 1, Clip(Len(line)))
Frame(line) == Encode(Clip(Len(line))) \o Body(line)
=============================================================================
