----------------------------- MODULE MCChatWire -----------------------------
(***************************************************************************)
(* ChatWire with two-character headers and bodies of up to ten characters: *)
(* an empty line, lines of digits and blanks, which read as headers if the *)
(* session loses step, and one as long as a body may be.                   *)
(***************************************************************************)
EXTENDS ChatWire

MCLine == {<<>>, <<1>>, <<Space, 1>>, <<1, 1, 1>>, [i \in 1..10 |-> 1]}

\* Every two-character header over a few characters of each kind.
MCRogue == [1..2 -> {0, 1, 2, 9, Space, Minus, Plus, Letter, Nul}]
=============================================================================
