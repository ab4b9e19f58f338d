---------------------------- MODULE MessageChannel ----------------------------
(***************************************************************************)
(* What one direction of the inter-core mailbox promises its two users: a  *)
(* lossless first-in first-out channel of bounded weight.  A message is in *)
(* the channel from the moment it is published until its space is given    *)
(* back.  This is the abstract specification; MailboxRing implements it.   *)
(***************************************************************************)
EXTENDS Integers, Sequences

CONSTANTS
  Weight(_),   (* what a message costs while it is in the channel  *)
  Capacity     (* the weight the channel can hold                  *)

VARIABLES
  sent,        (* every message accepted so far, in order          *)
  received     (* every message handed to the consumer, in order   *)

chanVars == <<sent, received>>

(* The messages accepted and not yet handed over, oldest first. *)
InChannel == SubSeq(sent, Len(received) + 1, Len(sent))

(* The total weight of the messages of s. *)
TotalWeight(s) ==
  LET sum[i \in 0 .. Len(s)] ==
        IF i = 0 THEN 0 ELSE sum[i - 1] + Weight(s[i])
  IN  sum[Len(s)]

Fits(m) == TotalWeight(InChannel) + Weight(m) =< Capacity

-----------------------------------------------------------------------------

Init ==
  /\ sent = <<>>
  /\ received = <<>>

(* A message is accepted only into free space. *)
Enqueue ==
  /\ received' = received
  /\ Len(sent') = Len(sent) + 1
  /\ sent' = Append(sent, sent'[Len(sent')])
  /\ Fits(sent'[Len(sent')])

(* The oldest message leaves, whole. *)
Dequeue ==
  /\ Len(received) < Len(sent)
  /\ received' = Append(received, sent[Len(received) + 1])
  /\ sent' = sent

Next == Enqueue \/ Dequeue

Spec == Init /\ [][Next]_chanVars
=============================================================================
