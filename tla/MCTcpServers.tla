----------------------------- MODULE MCTcpServers -----------------------------
(***************************************************************************)
(* TcpServers with a string of two bytes.                                  *)
(***************************************************************************)
EXTENDS TcpServers

MCTime == <<1, 2>>
=============================================================================
