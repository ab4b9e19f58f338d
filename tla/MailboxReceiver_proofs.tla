------------------------ MODULE MailboxReceiver_proofs ------------------------
(***************************************************************************)
(* Proofs about MailboxReceiver, for every size of the ring below 255      *)
(* messages, every number of messages and whatever the uninitialised       *)
(* buf_len holds.                                                          *)
(***************************************************************************)
EXTENDS MailboxReceiver, Sequences, WellFoundedInduction, TLAPS

(***************************************************************************)
(* The inductive invariant.  NeverMoreNotifiedThanUnread is not inductive: *)
(* while blockDeqSema-- is under way the handler works on a count that the *)
(* store will overwrite, and the bound has to hold for that count as well  *)
(* as for the register.                                                    *)
(***************************************************************************)
RingInv ==
  /\ consumed =< written
  /\ Unread =< MaxUnread

CountInv ==
  /\ pc \in {"loop", "receive"} => blockDeqSema + Tokens =< Unread
  /\ pc \in {"load", "store"} => blockDeqSema - 1 + Tokens =< Unread
  /\ pc # "loop" => blockDeqSema >= 1
  /\ pc = "store" => 1 =< reg /\ reg =< blockDeqSema

StatusInv == isr = "clear" => status \subseteq swintSts

IInv == TypeOK /\ RingInv /\ CountInv /\ StatusInv

(* The u8 arithmetic is exact while the count is not at its ends.          *)
LEMMA NoWrap ==
  /\ \A x \in 0 .. U8 - 2 : (x + 1) % U8 = x + 1
  /\ \A x \in 1 .. U8 - 1 : (x - 1) % U8 = x - 1
  BY DEF U8

(* The invariant holds before the M4 and the A7 have done anything. *)
LEMMA InitInv == Init => IInv
  BY MaxUnreadAssumption
  DEF Init, IInv, TypeOK, RingInv, CountInv, StatusInv, Unread, Tokens, U8

(* Every step of the A7, the handler and the main loop preserves it. *)
LEMMA NextInv == IInv /\ [Next]_vars => IInv'
<1> SUFFICES ASSUME IInv, [Next]_vars PROVE IInv'
  OBVIOUS
<1> USE MaxUnreadAssumption, MaxMessagesAssumption
<1> USE DEF IInv, TypeOK, RingInv, CountInv, StatusInv, Unread, Tokens, U8
<1>1. CASE A7Write
  BY <1>1 DEF A7Write, isrVars, mainVars
<1>2. CASE A7Trigger
  BY <1>2 DEF A7Trigger, isrVars, mainVars
<1>3. CASE A7Read
  BY <1>3 DEF A7Read, a7Vars, isrVars, mainVars
<1>4. CASE IsrEnter
  BY <1>4 DEF IsrEnter, a7Vars, mainVars
<1>5. CASE IsrClear
  BY <1>5 DEF IsrClear, a7Vars, mainVars
<1>6. CASE mbox_swint_cb
  <2>1. CASE "written" \in status
    <3>1. blockDeqSema \in 0 .. U8 - 2
      BY <1>6, <2>1 DEF mbox_swint_cb
    <3>2. blockDeqSema' = blockDeqSema + 1
      BY <1>6, <2>1, <3>1, NoWrap DEF mbox_swint_cb
    <3> QED
      BY <1>6, <2>1, <3>1, <3>2 DEF mbox_swint_cb, a7Vars, mainVars
  <2>2. CASE "written" \notin status
    BY <1>6, <2>2 DEF mbox_swint_cb, a7Vars, mainVars
  <2> QED
    BY <2>1, <2>2
<1>7. CASE MainTest
  BY <1>7 DEF MainTest, a7Vars, isrVars
<1>8. ASSUME NEW fits \in BufferFits, MainReceive(fits) PROVE IInv'
  BY <1>8 DEF MainReceive, a7Vars, isrVars
<1>9. CASE MainLoad
  BY <1>9 DEF MainLoad, a7Vars, isrVars
<1>10. CASE MainStore
  BY <1>10 DEF MainStore, a7Vars, isrVars
<1>11. CASE UNCHANGED vars
  BY <1>11 DEF vars, a7Vars, isrVars, mainVars
<1> QED
  BY <1>1, <1>2, <1>3, <1>4, <1>5, <1>6, <1>7, <1>8, <1>9, <1>10, <1>11
  DEF Next, A7Next, IsrNext, MainNext

(* The invariant holds throughout every behaviour. *)
THEOREM Invariance == Spec => []IInv
  BY InitInv, NextInv, PTL DEF Spec

(* Every variable of the notification path keeps its type; in particular   *)
(* the u8 blockDeqSema and the register that holds it stay in 0 .. 255.    *)
THEOREM TypeCorrect == Spec => []TypeOK
<1>1. IInv => TypeOK
  BY DEF IInv
<1> QED
  BY <1>1, Invariance, PTL

(* mbox_receive_data is only called with a message in the ring, and the    *)
(* count of notifications never exceeds what the ring holds by more than   *)
(* the message just taken out, so that it cannot wrap.                     *)
THEOREM NotificationsBounded == Spec => []NeverMoreNotifiedThanUnread
<1>1. IInv => NeverMoreNotifiedThanUnread
  BY DEF IInv, TypeOK, RingInv, CountInv, NeverMoreNotifiedThanUnread,
         Stranded, EffectiveSema, Tokens, Unread
<1> QED
  BY <1>1, Invariance, PTL

(* A message left without a notification is never caught up with: each     *)
(* step of either core and of the handler leaves as many stranded, or one  *)
(* more.                                                                   *)
THEOREM LossIsPermanent == Spec => StrandedNeverShrinks
<1>1. IInv /\ [Next]_vars => [Stranded' >= Stranded]_vars
  <2> SUFFICES ASSUME IInv, Next PROVE Stranded' >= Stranded
    BY DEF Stranded, EffectiveSema, Tokens, Unread, vars, a7Vars, isrVars, mainVars
  <2> USE MaxUnreadAssumption
  <2> USE DEF IInv, TypeOK, RingInv, CountInv, StatusInv, Unread, Tokens, U8,
              Stranded, EffectiveSema
  <2>1. CASE A7Next
    <3>1. EffectiveSema' = EffectiveSema
      BY <2>1 DEF A7Next, A7Write, A7Trigger, A7Read, a7Vars, isrVars, mainVars
    <3>2. EffectiveSema \in Int
      OBVIOUS
    <3> HIDE DEF EffectiveSema
    <3>3. CASE A7Write
      BY <3>1, <3>2, <3>3 DEF A7Write, a7Vars, isrVars, mainVars
    <3>4. CASE A7Trigger
      BY <3>1, <3>2, <3>4 DEF A7Trigger, a7Vars, isrVars, mainVars
    <3>5. CASE A7Read
      BY <3>1, <3>2, <3>5 DEF A7Read, a7Vars, isrVars, mainVars
    <3> QED
      BY <2>1, <3>3, <3>4, <3>5 DEF A7Next
  <2>2. CASE IsrEnter
    BY <2>2 DEF IsrEnter, a7Vars, mainVars
  <2>3. CASE IsrClear
    BY <2>3, SMTT(30) DEF IsrClear, a7Vars, mainVars
  <2>4. CASE mbox_swint_cb
    <3>1. CASE "written" \in status
      <4>1. blockDeqSema \in 0 .. U8 - 2
        BY <2>4, <3>1 DEF mbox_swint_cb
      <4>2. blockDeqSema' = blockDeqSema + 1
        BY <2>4, <3>1, <4>1, NoWrap DEF mbox_swint_cb
      <4>3. CASE pc \in {"loop", "receive"}
        BY <2>4, <3>1, <4>1, <4>2, <4>3 DEF mbox_swint_cb, a7Vars, mainVars
      <4>4. CASE pc = "load"
        BY <2>4, <3>1, <4>1, <4>2, <4>4 DEF mbox_swint_cb, a7Vars, mainVars
      <4>5. CASE pc = "store"
        BY <2>4, <3>1, <4>1, <4>2, <4>5 DEF mbox_swint_cb, a7Vars, mainVars
      <4> QED
        BY <4>3, <4>4, <4>5
    <3>2. CASE "written" \notin status
      BY <2>4, <3>2, SMTT(30) DEF mbox_swint_cb, a7Vars, mainVars
    <3> QED
      BY <3>1, <3>2
  <2>5. CASE MainTest
    BY <2>5 DEF MainTest, a7Vars, isrVars
  <2>6. ASSUME NEW fits \in BufferFits, MainReceive(fits) PROVE Stranded' >= Stranded
    BY <2>6 DEF MainReceive, a7Vars, isrVars
  <2>7. CASE MainLoad
    BY <2>7 DEF MainLoad, a7Vars, isrVars
  <2>8. CASE MainStore
    <3>1. blockDeqSema' = reg - 1
      BY <2>8, NoWrap DEF MainStore
    <3> QED
      BY <2>8, <3>1 DEF MainStore, a7Vars, isrVars
  <2> QED
    BY <2>1, <2>2, <2>3, <2>4, <2>5, <2>6, <2>7, <2>8 DEF Next, IsrNext, MainNext
<1> QED
  BY <1>1, Invariance, PTL DEF Spec, StrandedNeverShrinks

-----------------------------------------------------------------------------
(***************************************************************************)
(* The account of the losses.  There are three ways to lose a              *)
(* notification, and no step loses more than one.                          *)
(***************************************************************************)
(* Software interrupt 1 is triggered while it is still pending.            *)
Merged == A7Trigger /\ "written" \in swintSts

(* The handler counts one between the load and the store of the decrement. *)
Overwritten == mbox_swint_cb /\ "written" \in status /\ pc = "store"

(* DequeueData refuses the buffer, and the count goes down all the same.   *)
Refused == pc = "receive" /\ pc' = "load" /\ consumed' = consumed

Lost == IF Merged \/ Overwritten \/ Refused THEN 1 ELSE 0

LossStep == Stranded' = Stranded + Lost

LEMMA TriggerLoss ==
  ASSUME IInv, A7Next
  PROVE  LossStep
<1> USE DEF IInv, TypeOK, RingInv, CountInv, StatusInv, Unread, Tokens, U8, Stranded
<1> USE DEF A7Next, A7Write, A7Trigger, A7Read, a7Vars, isrVars, mainVars
<1>1. EffectiveSema' = EffectiveSema
  BY DEF EffectiveSema
<1>2. EffectiveSema \in Int /\ ~Overwritten /\ ~Refused
  BY DEF EffectiveSema, Overwritten, Refused, mbox_swint_cb
<1>3. CASE A7Trigger
  <2>1. Lost = IF "written" \in swintSts THEN 1 ELSE 0
    BY <1>2, <1>3 DEF Lost, Merged
  <2> QED
    BY <1>1, <1>2, <1>3, <2>1 DEF LossStep
<1>4. CASE ~A7Trigger
  <2>1. Lost = 0
    BY <1>2, <1>4 DEF Lost, Merged
  <2> QED
    BY <1>1, <1>2, <1>4, <2>1 DEF LossStep
<1> QED
  BY <1>3, <1>4

LEMMA HandlerLoss ==
  ASSUME IInv, IsrNext
  PROVE  LossStep
<1> USE DEF IInv, TypeOK, RingInv, CountInv, StatusInv, Unread, Tokens, U8, Stranded
<1> USE DEF a7Vars, mainVars
<1>1. ~Merged /\ ~Refused
  BY DEF IsrNext, IsrEnter, IsrClear, mbox_swint_cb, Merged, Refused, A7Trigger, isrVars
<1>2. CASE IsrEnter \/ IsrClear
  <2>1. Lost = 0
    BY <1>1, <1>2 DEF Lost, Overwritten, IsrEnter, IsrClear, mbox_swint_cb
  <2>2. EffectiveSema' = EffectiveSema /\ EffectiveSema \in Int
    BY <1>2 DEF EffectiveSema, IsrEnter, IsrClear
  <2> QED
    BY <1>2, <2>1, <2>2 DEF LossStep, IsrEnter, IsrClear
<1>3. CASE mbox_swint_cb /\ "written" \notin status
  <2>1. Lost = 0
    BY <1>1, <1>3 DEF Lost, Overwritten
  <2>2. EffectiveSema' = EffectiveSema /\ EffectiveSema \in Int
    BY <1>3 DEF EffectiveSema, mbox_swint_cb
  <2> QED
    BY <1>3, <2>1, <2>2 DEF LossStep, mbox_swint_cb
<1>4. CASE mbox_swint_cb /\ "written" \in status
  <2>1. blockDeqSema \in 0 .. U8 - 2
    BY <1>4, MaxUnreadAssumption DEF mbox_swint_cb
  <2>2. blockDeqSema' = blockDeqSema + 1
    BY <1>4, <2>1, NoWrap DEF mbox_swint_cb
  <2>3. Lost = IF pc = "store" THEN 1 ELSE 0
    BY <1>1, <1>4 DEF Lost, Overwritten
  <2>4. EffectiveSema' = EffectiveSema + (IF pc = "store" THEN 0 ELSE 1)
    BY <1>4, <2>1, <2>2 DEF EffectiveSema, mbox_swint_cb
  <2>5. EffectiveSema \in Int
    BY DEF EffectiveSema
  <2>6. Tokens' = Tokens - 1 /\ Tokens \in Int /\ Unread' = Unread
    BY <1>4 DEF mbox_swint_cb
  <2> QED
    BY <2>3, <2>4, <2>5, <2>6 DEF LossStep
<1> QED
  BY <1>2, <1>3, <1>4 DEF IsrNext

LEMMA LoopLoss ==
  ASSUME IInv, MainNext
  PROVE  LossStep
<1> USE MaxUnreadAssumption DEF IInv, TypeOK, RingInv, CountInv, StatusInv, Unread, U8
<1>1. ~Merged /\ ~Overwritten /\ Tokens' = Tokens /\ Tokens \in Int
  BY DEF MainNext, MainTest, MainReceive, MainLoad, MainStore, Merged, Overwritten,
         A7Trigger, mbox_swint_cb, Tokens, a7Vars, isrVars
<1>2. CASE MainTest \/ MainLoad
  <2>1. Lost = 0
    BY <1>1, <1>2 DEF Lost, Refused, MainTest, MainLoad
  <2> QED
    BY <1>1, <1>2, <2>1 DEF LossStep, Stranded, EffectiveSema, MainTest, MainLoad, a7Vars
<1>3. CASE MainStore
  <2>1. Lost = 0
    BY <1>1, <1>3 DEF Lost, Refused, MainStore
  <2>2. blockDeqSema' = reg - 1
    BY <1>3, NoWrap DEF MainStore
  <2> QED
    BY <1>1, <1>3, <2>1, <2>2 DEF LossStep, Stranded, EffectiveSema, MainStore, a7Vars
<1>4. ASSUME NEW fits \in BufferFits, MainReceive(fits) PROVE LossStep
  <2>1. Unread > 0
    BY <1>1, <1>4 DEF MainReceive, Tokens
  <2>2. Lost = IF fits THEN 0 ELSE 1
    BY <1>1, <1>4, <2>1 DEF Lost, Refused, MainReceive
  <2> QED
    BY <1>1, <1>4, <2>1, <2>2 DEF LossStep, Stranded, EffectiveSema, MainReceive, a7Vars
<1> QED
  BY <1>2, <1>3, <1>4 DEF MainNext

(* A message is left in the ring for good by a trigger of software         *)
(* interrupt 1 while it is pending, by the handler's counting in the       *)
(* middle of blockDeqSema--, or by a buf_len too small - one message for   *)
(* each such step, and none by any other step.                             *)
LossAccounted == [][LossStep]_vars

(* mbox_swint_cb and the main loop lose nothing but in those three ways.   *)
THEOREM EveryLossAccounted == Spec => LossAccounted
<1>1. IInv /\ [Next]_vars => [LossStep]_vars
  BY TriggerLoss, HandlerLoss, LoopLoss DEF Next
<1> QED
  BY <1>1, Invariance, PTL DEF Spec, LossAccounted

-----------------------------------------------------------------------------
(***************************************************************************)
(* The two counters stand for a ring that keeps MessageChannel's promise:  *)
(* what MailboxRing implements, with a weight of one for each message.     *)
(***************************************************************************)
Numbers(n) == [i \in 1 .. n |-> i]

Channel == INSTANCE MessageChannel WITH
  Weight   <- LAMBDA m : 1,
  Capacity <- MaxUnread,
  sent     <- Numbers(written),
  received <- Numbers(consumed)

(* A sum of ones is their number: no place is the first one where the      *)
(* running sum is anything else.                                           *)
LEMMA SumOfOnes ==
  ASSUME NEW n \in Nat, NEW f, f[0] = 0, \A i \in 1 .. n : f[i] = f[i - 1] + 1
  PROVE  f[n] = n
<1> SUFFICES ASSUME f[n] # n PROVE FALSE
  OBVIOUS
<1> DEFINE S == {i \in 0 .. n : f[i] # i}
           R == OpToRel(<, Nat)
<1>1. S \in SUBSET Nat /\ n \in S
  OBVIOUS
<1>2. IsWellFoundedOn(R, Nat)
  BY NatLessThanWellFounded
<1>3. \A x, y \in Nat : y < x => <<y, x>> \in R
  BY DEF OpToRel
<1> HIDE DEF R
<1>4. PICK i \in S : \A j \in S : ~(<<j, i>> \in R)
  BY <1>1, <1>2, WFMin
<1>5. i \in 1 .. n
  BY <1>4
<1>6. i - 1 \in Nat /\ i - 1 < i /\ i - 1 \in 0 .. n
  BY <1>5
<1>7. <<i - 1, i>> \in R
  BY <1>3, <1>5, <1>6
<1>8. f[i - 1] = i - 1
  BY <1>4, <1>6, <1>7
<1> QED
  BY <1>4, <1>5, <1>8

LEMMA WeightIsLength ==
  ASSUME NEW s, NEW n \in Nat, Len(s) = n
  PROVE  Channel!TotalWeight(s) = n
<1> DEFINE Sums(f) == f = [i \in 0 .. n |-> IF i = 0 THEN 0 ELSE f[i - 1] + 1]
           g == [i \in 0 .. n |-> i]
           c == CHOOSE f : Sums(f)
<1>1. Sums(g)
  <2> DEFINE h == [i \in 0 .. n |-> IF i = 0 THEN 0 ELSE g[i - 1] + 1]
  <2>1. ASSUME NEW i \in 0 .. n PROVE g[i] = h[i]
    <3>1. CASE i = 0
      BY <3>1
    <3>2. CASE i # 0
      <4>1. i \in 1 .. n /\ i - 1 \in 0 .. n
        BY <3>2
      <4>2. g[i - 1] = i - 1 /\ g[i] = i
        BY <4>1
      <4> QED
        BY <4>1, <4>2
    <3> QED
      BY <3>1, <3>2
  <2>2. g = h
    BY <2>1
  <2> QED
    BY <2>2
<1>2. Sums(c)
  <2> HIDE DEF Sums, g
  <2> QED
    BY <1>1
<1>3. Channel!TotalWeight(s) = c[n]
  BY Zenon DEF Channel!TotalWeight
<1> HIDE DEF c
<1>4. c[0] = 0
  BY <1>2
<1>5. ASSUME NEW i \in 1 .. n PROVE c[i] = c[i - 1] + 1
  <2>1. i \in 0 .. n /\ i # 0
    OBVIOUS
  <2> QED
    BY <1>2, <2>1
<1>6. c[n] = n
  <2> HIDE DEF Sums, g
  <2> QED
    BY <1>4, <1>5, SumOfOnes
<1> QED
  BY <1>3, <1>6

LEMMA NumbersSeq ==
  ASSUME NEW n \in Nat
  PROVE  /\ Numbers(n) \in Seq(Nat) /\ Len(Numbers(n)) = n
         /\ Numbers(n + 1) = Append(Numbers(n), n + 1)
         /\ Numbers(n + 1)[n + 1] = n + 1 /\ Len(Numbers(n + 1)) = n + 1
<1>1. Numbers(n) \in Seq(Nat) /\ Len(Numbers(n)) = n
  BY DEF Numbers
<1>2. Numbers(n + 1) \in Seq(Nat) /\ Len(Numbers(n + 1)) = n + 1
  BY DEF Numbers
<1>3. \A i \in 1 .. n + 1 : Numbers(n + 1)[i] = Append(Numbers(n), n + 1)[i]
  BY DEF Numbers
<1> HIDE DEF Numbers
<1>4. Len(Append(Numbers(n), n + 1)) = n + 1 /\ Append(Numbers(n), n + 1) \in Seq(Nat)
  BY <1>1
<1>5. Numbers(n + 1) = Append(Numbers(n), n + 1)
  BY <1>2, <1>3, <1>4
<1>6. n + 1 \in 1 .. n + 1
  OBVIOUS
<1>7. Numbers(n + 1)[n + 1] = n + 1
  BY <1>6 DEF Numbers
<1> QED
  BY <1>1, <1>2, <1>5, <1>7

(* What the A7 has written and the M4 not taken is what is in the channel. *)
LEMMA InChannelUnread ==
  ASSUME IInv
  PROVE  Channel!TotalWeight(Channel!InChannel) = Unread
<1>1. written \in Nat /\ consumed \in Nat /\ consumed =< written /\ Unread \in Nat
  BY DEF IInv, TypeOK, RingInv, Unread
<1>2. Numbers(written) \in Seq(Nat) /\ Len(Numbers(written)) = written
      /\ Len(Numbers(consumed)) = consumed
  BY <1>1, NumbersSeq
<1>3. Channel!InChannel = SubSeq(Numbers(written), consumed + 1, written)
  BY <1>2 DEF Channel!InChannel
<1>4. Len(SubSeq(Numbers(written), consumed + 1, written)) = written - consumed
  BY <1>1, <1>2
<1> QED
  BY <1>1, <1>3, <1>4, WeightIsLength DEF Unread

LEMMA ChannelEnqueue == IInv /\ A7Write => Channel!Enqueue
<1> SUFFICES ASSUME IInv, A7Write PROVE Channel!Enqueue
  OBVIOUS
<1>1. written \in Nat /\ written' = written + 1 /\ consumed' = consumed
  BY DEF IInv, TypeOK, A7Write, mainVars
<1>2. Unread \in Nat /\ Unread + 1 =< MaxUnread
  BY MaxUnreadAssumption DEF IInv, TypeOK, RingInv, Unread, A7Write
<1>3. /\ Numbers(written)' = Append(Numbers(written), written + 1)
      /\ Numbers(written)'[written + 1] = written + 1
      /\ Len(Numbers(written)) = written
      /\ Len(Numbers(written)') = written + 1
  <2>1. Numbers(written)' = Numbers(written + 1)
    BY <1>1 DEF Numbers
  <2> QED
    BY <1>1, <2>1, NumbersSeq, Zenon
<1>4. Numbers(consumed)' = Numbers(consumed)
  BY <1>1 DEF Numbers
<1>5. Channel!Fits(written + 1)
  BY <1>2, InChannelUnread DEF Channel!Fits
<1> QED
  BY <1>1, <1>3, <1>4, <1>5 DEF Channel!Enqueue

LEMMA ChannelDequeue ==
  ASSUME IInv, NEW fits \in BufferFits, MainReceive(fits), consumed' # consumed
  PROVE  Channel!Dequeue
<1>1. /\ consumed \in Nat /\ written \in Nat /\ consumed' = consumed + 1
      /\ consumed < written /\ written' = written
  BY DEF IInv, TypeOK, MainReceive, Unread, a7Vars
<1>2. /\ Len(Numbers(consumed)) = consumed /\ Len(Numbers(written)) = written
      /\ Numbers(consumed)' = Append(Numbers(consumed), consumed + 1)
  <2>1. Numbers(consumed)' = Numbers(consumed + 1)
    BY <1>1 DEF Numbers
  <2> QED
    BY <1>1, <2>1, NumbersSeq
<1>3. Numbers(written)[consumed + 1] = consumed + 1
  BY <1>1 DEF Numbers
<1>4. Numbers(written)' = Numbers(written)
  BY <1>1 DEF Numbers
<1> QED
  BY <1>1, <1>2, <1>3, <1>4 DEF Channel!Dequeue

LEMMA ChannelStutters ==
  ASSUME UNCHANGED <<written, consumed>>
  PROVE  UNCHANGED Channel!chanVars
  BY DEF Channel!chanVars, Numbers

LEMMA ChannelStep == IInv /\ [Next]_vars => [Channel!Next]_Channel!chanVars
<1> SUFFICES ASSUME IInv, [Next]_vars
             PROVE  Channel!Next \/ UNCHANGED Channel!chanVars
  OBVIOUS
<1>1. CASE A7Write
  BY <1>1, ChannelEnqueue DEF Channel!Next
<1>2. CASE A7Trigger \/ A7Read \/ IsrNext
  BY <1>2, ChannelStutters
  DEF A7Trigger, A7Read, IsrNext, IsrEnter, IsrClear, mbox_swint_cb, a7Vars, mainVars
<1>3. ASSUME NEW fits \in BufferFits, MainReceive(fits)
      PROVE  Channel!Next \/ UNCHANGED Channel!chanVars
  <2>1. CASE consumed' # consumed
    BY <1>3, <2>1, ChannelDequeue DEF Channel!Next
  <2>2. CASE consumed' = consumed
    BY <1>3, <2>2, ChannelStutters DEF MainReceive, a7Vars
  <2> QED
    BY <2>1, <2>2
<1>4. CASE MainTest \/ MainLoad \/ MainStore
  BY <1>4, ChannelStutters DEF MainTest, MainLoad, MainStore, a7Vars
<1>5. CASE UNCHANGED vars
  BY <1>5, ChannelStutters DEF vars, a7Vars, mainVars
<1> QED
  BY <1>1, <1>2, <1>3, <1>4, <1>5 DEF Next, A7Next, MainNext

LEMMA ChannelInit == Init => Channel!Init
  BY DEF Init, Channel!Init, Numbers

(* The ring MailboxReceiver works with is the channel that MailboxRing     *)
(* implements: a message written is taken once, in order, and one is       *)
(* written only while there is room, whatever interrupts come or are lost. *)
THEOREM RingIsAChannel == Spec => Channel!Spec
  BY ChannelInit, ChannelStep, Invariance, PTL DEF Spec, Channel!Spec

-----------------------------------------------------------------------------
(***************************************************************************)
(* That what is not stranded is fetched.  WorkLeft counts the steps that   *)
(* are left to everybody: a message to write is a trigger, a trigger sets  *)
(* a bit, a bit is a turn of the handler, a turn for a written message is  *)
(* a unit of blockDeqSema, and a unit is a round of the main loop.         *)
(***************************************************************************)
One(b) == IF b THEN 1 ELSE 0

(* The bits of SW_INT_STS that the handler under way will not clear.       *)
Unhandled == IF isr = "clear" THEN swintSts \ status ELSE swintSts

A7Work == 9 * (MaxMessages - written) + 8 * One(a7Pc = "ring")

LineWork == 7 * One("written" \in Unhandled) + 3 * One("read" \in Unhandled)

IsrWork ==
  (CASE isr = "clear" -> 2 [] isr = "callback" -> 1 [] OTHER -> 0)
    + 4 * One(isr # "off" /\ "written" \in status)

MainWork ==
  4 * blockDeqSema
    + (CASE pc = "loop" -> 3 [] pc = "receive" -> 2 [] pc = "load" -> 1 [] OTHER -> 0)

WorkLeft == A7Work + LineWork + IsrWork + MainWork

(* A turn of the handler is all that a message the A7 reads costs the M4.  *)
WorkStep ==
  /\ WorkLeft \in Nat /\ WorkLeft' \in Nat
  /\ \/ WorkLeft' < WorkLeft
     \/ A7Read /\ WorkLeft' =< WorkLeft + 3

(* Every other step of the handler, the main loop and the A7 leaves them   *)
(* less to do: none of them goes round for ever on a notification, however *)
(* the count was overwritten.                                              *)
NotificationsRunOut == [][WorkStep]_vars

(* The guards of the steps that fairness makes happen.                     *)
IsrReady == isr # "off" \/ swintSts # {}

MainReady ==
  /\ isr = "off"
  /\ pc = "loop" => blockDeqSema # 0
  /\ pc = "receive" => BufferFits # {}

(* Where the handler, the main loop and a trigger have nothing to do, every*)
(* message has been handed on but the stranded ones.                       *)
RestsWhenSynced ==
  BufferFits # {} /\ a7Pc # "ring" /\ ~IsrReady /\ ~MainReady
    => written - synced = Stranded

(* What these two need besides the first invariant.                        *)
SyncedInv == synced = consumed /\ written =< MaxMessages

LEMMA SyncedStep == IInv /\ SyncedInv /\ [Next]_vars => SyncedInv'
<1> USE MaxMessagesAssumption DEF SyncedInv, IInv, TypeOK
<1> QED
  BY DEF Next, A7Next, IsrNext, MainNext, A7Write, A7Trigger, A7Read, IsrEnter, IsrClear,
         mbox_swint_cb, MainTest, MainReceive, MainLoad, MainStore,
         vars, a7Vars, isrVars, mainVars

LEMMA SyncedInvariance == Spec => []SyncedInv
<1>1. Init => SyncedInv
  BY MaxMessagesAssumption DEF Init, SyncedInv
<1> QED
  BY <1>1, SyncedStep, Invariance, PTL DEF Spec

(* The parts of the count.                                                 *)
Counted == A7Work \in Nat /\ LineWork \in Nat /\ IsrWork \in Nat /\ MainWork \in Nat

LEMMA CountTypes == IInv /\ SyncedInv => Counted
<1> SUFFICES ASSUME IInv, SyncedInv PROVE Counted
  OBVIOUS
<1> USE MaxMessagesAssumption DEF IInv, TypeOK, SyncedInv, One
<1>1. A7Work \in Nat
  BY DEF A7Work
<1>2. LineWork \in Nat
  BY DEF LineWork
<1>3. IsrWork \in Nat
  BY DEF IsrWork
<1>4. MainWork \in Nat
  BY DEF MainWork, U8
<1> QED
  BY <1>1, <1>2, <1>3, <1>4 DEF Counted

LEMMA CountTypesNext == IInv' /\ SyncedInv' => Counted'
BY CountTypes, PTL

(* A trigger that finds the bit set saves work.                            *)
LEMMA A7Less ==
  ASSUME IInv, Counted, Counted', A7Next
  PROVE  WorkStep
<1> USE DEF Counted
<1>1. IsrWork' = IsrWork /\ MainWork' = MainWork
  BY DEF A7Next, A7Write, A7Trigger, A7Read, IsrWork, MainWork, a7Vars, isrVars, mainVars, One
<1>2. CASE A7Write
  <2>1. A7Work' = A7Work - 1
    BY <1>2, MaxMessagesAssumption DEF A7Write, A7Work, One, IInv, TypeOK
  <2>2. LineWork' = LineWork /\ ~A7Read
    BY <1>2 DEF A7Write, A7Read, LineWork, Unhandled, One, isrVars, a7Vars
  <2> QED
    BY <1>1, <2>1, <2>2 DEF WorkLeft, WorkStep
<1>3. CASE A7Trigger
  <2>1. A7Work' = A7Work - 8
    BY <1>3, MaxMessagesAssumption DEF A7Trigger, A7Work, One, IInv, TypeOK
  <2>2. LineWork' = LineWork \/ LineWork' = LineWork + 7
    BY <1>3 DEF A7Trigger, LineWork, Unhandled, One, isrVars
  <2>3. ~A7Read
    BY <1>3 DEF A7Trigger, A7Read, a7Vars
  <2>4. CASE LineWork' = LineWork
    BY <1>1, <2>1, <2>3, <2>4 DEF WorkLeft, WorkStep
  <2>5. CASE LineWork' = LineWork + 7
    BY <1>1, <2>1, <2>3, <2>5 DEF WorkLeft, WorkStep
  <2> QED
    BY <2>2, <2>4, <2>5
<1>4. CASE A7Read
  <2>1. A7Work' = A7Work
    BY <1>4 DEF A7Read, A7Work, a7Vars, One
  <2>2. LineWork' = LineWork \/ LineWork' = LineWork + 3
    BY <1>4 DEF A7Read, LineWork, Unhandled, One, isrVars
  <2>3. CASE LineWork' = LineWork
    BY <1>1, <1>4, <2>1, <2>3 DEF WorkLeft, WorkStep
  <2>4. CASE LineWork' = LineWork + 3
    BY <1>1, <1>4, <2>1, <2>4 DEF WorkLeft, WorkStep
  <2> QED
    BY <2>2, <2>3, <2>4
<1> QED
  BY <1>2, <1>3, <1>4 DEF A7Next

LEMMA IsrLess ==
  ASSUME IInv, Counted, Counted', IsrNext
  PROVE  WorkStep
<1> USE DEF Counted
<1>1. A7Work' = A7Work /\ ~A7Read
  BY DEF IsrNext, IsrEnter, IsrClear, mbox_swint_cb, A7Work, A7Read, a7Vars, isrVars, One
<1>2. CASE IsrEnter
  <2>1. LineWork' = 0 /\ MainWork' = MainWork
    BY <1>2 DEF IsrEnter, LineWork, MainWork, Unhandled, One, mainVars
  <2>2. /\ IsrWork = 0
        /\ \/ LineWork = 3 /\ IsrWork' = 2
           \/ LineWork = 7 /\ IsrWork' = 6
           \/ LineWork = 10 /\ IsrWork' = 6
    BY <1>2 DEF IsrEnter, LineWork, IsrWork, Unhandled, One, IInv, TypeOK
  <2>3. CASE LineWork = 3 /\ IsrWork' = 2
    BY <1>1, <2>1, <2>2, <2>3 DEF WorkLeft, WorkStep
  <2>4. CASE LineWork = 7 /\ IsrWork' = 6
    BY <1>1, <2>1, <2>2, <2>4 DEF WorkLeft, WorkStep
  <2>5. CASE LineWork = 10 /\ IsrWork' = 6
    BY <1>1, <2>1, <2>2, <2>5 DEF WorkLeft, WorkStep
  <2> QED
    BY <2>2, <2>3, <2>4, <2>5
<1>3. CASE IsrClear
  <2>1. LineWork' = LineWork /\ MainWork' = MainWork
    BY <1>3 DEF IsrClear, LineWork, MainWork, Unhandled, One, mainVars
  <2>2. IsrWork' = IsrWork - 1
    BY <1>3 DEF IsrClear, IsrWork, One
  <2> QED
    BY <1>1, <2>1, <2>2 DEF WorkLeft, WorkStep
<1>4. CASE mbox_swint_cb
  <2>1. LineWork' = LineWork
    BY <1>4 DEF mbox_swint_cb, LineWork, Unhandled, One
  <2>2. IsrWork' = 0 /\ IsrWork = 1 + 4 * One("written" \in status)
    BY <1>4 DEF mbox_swint_cb, IsrWork, One
  <2>3. MainWork' = MainWork + 4 * One("written" \in status)
    <3>1. blockDeqSema \in Nat /\ blockDeqSema' = blockDeqSema + One("written" \in status)
      <4>1. "written" \in status => blockDeqSema \in 0 .. U8 - 2
        BY <1>4, MaxUnreadAssumption
        DEF mbox_swint_cb, IInv, TypeOK, RingInv, CountInv, Unread, Tokens, U8
      <4> QED
        BY <1>4, <4>1, NoWrap DEF mbox_swint_cb, One, IInv, TypeOK, U8
    <3>2. One("written" \in status) \in Nat
      BY DEF One
    <3> QED
      BY <1>4, <3>1, <3>2 DEF mbox_swint_cb, MainWork, mainVars
  <2> QED
    BY <1>1, <2>1, <2>2, <2>3 DEF WorkLeft, WorkStep, One
<1> QED
  BY <1>2, <1>3, <1>4 DEF IsrNext

(* The store takes off a unit at least: the register is not above the      *)
(* count it overwrites.                                                    *)
LEMMA MainLess ==
  ASSUME IInv, Counted, Counted', MainNext
  PROVE  WorkStep
<1> USE DEF Counted
<1>1. /\ A7Work' = A7Work /\ LineWork' = LineWork /\ IsrWork' = IsrWork
      /\ ~A7Read
  BY DEF MainNext, MainTest, MainReceive, MainLoad, MainStore, A7Read, A7Work, LineWork,
         IsrWork, Unhandled, One, a7Vars, isrVars, mainVars
<1>2. PICK n \in Nat : n > 0 /\ MainWork' = MainWork - n
  <2>1. CASE MainStore
    <3>1. blockDeqSema' =< blockDeqSema - 1 /\ blockDeqSema' \in Nat /\ blockDeqSema \in Nat
      BY <2>1, NoWrap DEF MainStore, IInv, TypeOK, CountInv, U8
    <3>2. PICK k \in Nat : blockDeqSema' = blockDeqSema - 1 - k
      BY <3>1
    <3>3. MainWork' = MainWork - (4 * k + 1)
      BY <2>1, <3>1, <3>2 DEF MainStore, MainWork
    <3> QED
      BY <3>2, <3>3
  <2>2. CASE MainTest \/ MainLoad \/ \E fits \in BufferFits : MainReceive(fits)
    <3>1. MainWork' = MainWork - 1
      BY <2>2 DEF MainTest, MainReceive, MainLoad, MainWork, IInv, TypeOK, U8
    <3> QED
      BY <3>1
  <2> QED
    BY <2>1, <2>2 DEF MainNext
<1> QED
  BY <1>1, <1>2 DEF WorkLeft, WorkStep

(* The handler and the main loop come to rest, but for the interrupts the  *)
(* A7 raises by reading, each of which is one turn of the handler.         *)
THEOREM ReceiverComesToRest == Spec => NotificationsRunOut
<1>1. IInv /\ IInv' /\ SyncedInv /\ SyncedInv' /\ [Next]_vars => [WorkStep]_vars
  BY CountTypes, CountTypesNext, A7Less, IsrLess, MainLess DEF Next
<1> QED
  BY <1>1, Invariance, SyncedInvariance, PTL DEF Spec, NotificationsRunOut

(* And where they rest, SNTPs_sync_time has had every message that is not  *)
(* stranded for good.                                                      *)
THEOREM ReceiverRestsWhenSynced == Spec => []RestsWhenSynced
<1>1. IInv /\ SyncedInv => RestsWhenSynced
  BY DEF RestsWhenSynced, SyncedInv, IsrReady, MainReady, IInv, TypeOK, Stranded, Unread,
         Tokens, EffectiveSema, U8
<1> QED
  BY <1>1, Invariance, SyncedInvariance, PTL
=============================================================================
