----------------------------- MODULE MCDhcpServer -----------------------------
(***************************************************************************)
(* DhcpServer with two clients and a table of four host numbers, of which  *)
(* number 1 is the server's.                                               *)
(***************************************************************************)
EXTENDS DhcpServer, TLC

CONSTANTS a, b

MCClients == {a, b}
MCReserved == {1}
MCSymmetry == Permutations(MCClients)
=============================================================================
