----------------------------- MODULE MCRequest -----------------------------
(***************************************************************************)
(* The two pure parts of a request's way through a connection, the parser  *)
(* and the handler, side by side: a behaviour is of one of them.  The      *)
(* parser gets one character of each kind, but for the kinds it treats     *)
(* like another one that is there; the handler the characters it names,    *)
(* two hexadecimal digits ("2" and "E", of which the codes of "." and "/"  *)
(* are made up), "G", and the nul with "0", of which its code is made up.  *)
(***************************************************************************)
EXTENDS RequestParser, RequestHandler

VARIABLE part    \* the part that is run

MCChar == AllChars \ {"letter", "special", "ctl"}
MCCode == {Slash, Dot, Percent, Plus, Minus, Space, Nul, 48, 50, 69, 71}

MCInit ==
    /\ part \in {"parser", "handler"}
    /\ Init
    /\ HandlerInit

MCNext ==
    \/ part = "parser" /\ Next /\ UNCHANGED part /\ UNCHANGED handlerVars
    \/ part = "handler" /\ HandlerNext /\ UNCHANGED part /\ UNCHANGED vars

MCSpec == MCInit /\ [][MCNext]_<<vars, handlerVars, part>>
=============================================================================
