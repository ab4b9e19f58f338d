-------------------------- MODULE MCMailboxReceiver ---------------------------
(* MailboxReceiver with a ring of three messages. *)
EXTENDS MailboxReceiver

MCUnknown == {TRUE, FALSE}
MCFits == {TRUE}
=============================================================================
