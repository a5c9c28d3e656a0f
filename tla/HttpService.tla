---------------------------- MODULE HttpService ----------------------------
(***************************************************************************)
(* What the three servers of http/, http2/ and http3/ have in common: a    *)
(* connection is for one request and one reply, in this order, and none is *)
(* opened once the server has stopped; those that are open then may still  *)
(* be replied to, or are given up.                                         *)
(***************************************************************************)
CONSTANT Conn

VARIABLES turn,   \* turn[c]: "none", "request" or "reply"
          serves  \* connections may be opened

vars == <<turn, serves>>

Init ==
    /\ turn = [c \in Conn |-> "none"]
    /\ serves = TRUE

Open(c) ==
    /\ serves
    /\ turn[c] = "none"
    /\ turn' = [turn EXCEPT ![c] = "request"]
    /\ UNCHANGED serves

Answer(c) ==
    /\ turn[c] = "request"
    /\ turn' = [turn EXCEPT ![c] = "reply"]
    /\ UNCHANGED serves

\* Connections end, one at a time while the server runs, in the end all at once.
Close(S) ==
    /\ turn' = [c \in Conn |-> IF c \in S THEN "none" ELSE turn[c]]
    /\ UNCHANGED serves

Stop ==
    /\ serves' = FALSE
    /\ UNCHANGED turn

Next ==
    \/ \E c \in Conn : Open(c) \/ Answer(c)
    \/ \E S \in SUBSET Conn : Close(S)
    \/ Stop

Spec == Init /\ [][Next]_vars
=============================================================================
