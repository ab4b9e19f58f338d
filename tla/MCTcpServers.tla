----------------------------- MODULE MCTcpServers -----------------------------
(***************************************************************************)
(* TcpServers with socket buffers of two bytes, which one echo fills, a    *)
(* mailbox buffer with room for one byte less than they hold, and a ring   *)
(* with room for one message.                                              *)
(***************************************************************************)
EXTENDS TcpServers

(* The loopback needs a third byte to find its transmit buffer full.       *)
MCMaxArrived == [s \in Sockets |-> IF s = Gateway THEN 2 ELSE 3]
=============================================================================
