---------------------------- MODULE MCMailboxRing -----------------------------
(***************************************************************************)
(* MailboxRing on the smallest buffer GetIntercoreBuffers can return: a    *)
(* 128-byte region less the 64-byte header.                                *)
(***************************************************************************)
EXTENDS MailboxRing

MCBufSize == 64

(* Blocks of one slot, of one slot filled to the last byte, of two slots,  *)
(* and of all the ring will take; 45 is one byte too many for any state.   *)
MCSizes == {12, 13, 44, 45}

(* A buffer too small for the larger messages, and one for all of them.    *)
MCCapacities == {12, 64}
=============================================================================
