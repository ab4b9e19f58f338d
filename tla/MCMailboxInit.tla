---------------------------- MODULE MCMailboxInit -----------------------------
(***************************************************************************)
(* MailboxInit with regions no larger than the header and the smallest     *)
(* legal region.                                                           *)
(***************************************************************************)
EXTENDS MailboxInit

MCLogSizes == {6, 7}
=============================================================================
