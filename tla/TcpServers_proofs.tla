-------------------------- MODULE TcpServers_proofs ---------------------------
(***************************************************************************)
(* Proofs about TcpServers, for every size of the buffers and of the ring  *)
(* and any number of bytes received.                                       *)
(***************************************************************************)
EXTENDS TcpServers, WellFoundedInduction, TLAPS

(***************************************************************************)
(* The inductive invariant.  Its first part is what each place in the      *)
(* program knows of the socket it serves, whatever chip and peer have done *)
(* since the last register was read.                                       *)
(***************************************************************************)
Receiving == pc \in {"rsr", "sr", "take"}
Sending == pc \in {"send", "sendok", "room", "put"}

(* A receive buffer holds what has arrived and not been taken.             *)
BufferInv ==
  \A s \in Sockets : taken[s] =< arrived[s] /\ arrived[s] - taken[s] =< BufSize

(* Only the program leaves the closed and the initial state, and a timeout *)
(* is pending only on a socket it has closed.                              *)
StateInv ==
  /\ pc = "open" => sr[sn] = "CLOSED"
  /\ pc = "listen" => sr[sn] = "INIT"
  /\ pc = "discon" => sr[sn] \in {"CLOSE_WAIT", "CLOSED"}
  /\ pc \in {"closed?", "timeout?"} => sr[sn] \in {"LAST_ACK", "CLOSED"}
  /\ pc = "size" \/ Receiving \/ Sending => sr[sn] \in Open \union {"CLOSED"}
  /\ \A s \in Sockets : "TIMEOUT" \in ir[s] => sr[s] = "CLOSED"

(* Bytes announced stay in the buffer until they are taken: sock_recv      *)
(* finds at least as many as its caller saw, or none if it reads a torn 0. *)
SizeInv ==
  /\ Receiving => size > 0 /\ taken[sn] + size =< arrived[sn]
  /\ pc = "sr" => recvsize = 0 \/ recvsize >= size
  /\ pc = "take" => recvsize >= size
  /\ pc = "put" => tx[sn] + size =< BufSize

(* What has been taken and is in the data buffer.                          *)
HandInv ==
  /\ pc = "forward" => sn = Gateway
  /\ Sending => sn = Loopback
  /\ pc = "forward" \/ Sending => size > 0 /\ taken[sn] = first + size - 1

OrderInv ==
  /\ RelayInOrder
  /\ pc = "forward" => \A i \in DOMAIN mailed : mailed[i].last < first

(* Bytes unread on a gateway connection that is over, or that sock_listen  *)
(* will close, are a disturbance.                                          *)
EndInv ==
  sr[Gateway] # "ESTABLISHED" \/ (sn = Gateway /\ pc = "check")
    => disturbed \/ arrived[Gateway] = taken[Gateway]

(* The loopback's socket: a new one is empty; on an open one everything    *)
(* taken was echoed, but for what is in the data buffer.                   *)
EchoInv ==
  /\ sr[Loopback] \in {"INIT", "LISTEN", "SYNRECV"} => arrived[Loopback] = taken[Loopback]
  /\ sr[Loopback] \in Open =>
       IF Sending THEN first = echoed + 1 ELSE taken[Loopback] = echoed

IInv == /\ TypeOK /\ BufferInv /\ StateInv /\ SizeInv /\ HandInv
        /\ OrderInv /\ EndInv /\ NothingLostUndisturbed /\ EchoInv

-----------------------------------------------------------------------------
(* From here on: what is expanded wherever it occurs.                      *)
USE BufSizeAssumption DEF Sockets, Gateway, Loopback, Open, Connected, Unread,
  At, GoTo, Receiving, Sending, chipVars, localVars, progVars, mailVars, histVars

(* The invariant holds before the first step.                              *)
LEMMA InitIInv == Init => IInv
<1> SUFFICES ASSUME Init PROVE IInv
  OBVIOUS
<1>1. TypeOK
  BY SMTT(30) DEF Init, TypeOK
<1>2. BufferInv /\ StateInv /\ SizeInv /\ HandInv
  BY DEF Init, BufferInv, StateInv, SizeInv, HandInv
<1>3. OrderInv /\ NothingLostUndisturbed
  BY DEF Init, OrderInv, RelayInOrder, NothingLostUndisturbed, LastMailed
<1>4. EndInv /\ EchoInv
  BY DEF Init, EndInv, EchoInv
<1> QED
  BY <1>1, <1>2, <1>3, <1>4 DEF IInv

(***************************************************************************)
(* What the actions have in common.                                        *)
(***************************************************************************)
Places == {"status", "open", "listen", "check", "discon", "closed?", "timeout?",
           "size", "rsr", "sr", "take", "forward", "send", "sendok", "room", "put",
           "undefined"}

(* A step of the program that gives the chip no command.                   *)
LEMMA NoEffectTypes ==
  ASSUME TypeOK, NoEffect, sn' \in Sockets, pc' \in Places,
         size' \in 0 .. BufSize, recvsize' \in 0 .. BufSize, first' \in Nat \ {0}
  PROVE  TypeOK'
  BY DEF TypeOK, NoEffect, Places

LEMMA ReturnTypes ==
  ASSUME TypeOK, Return
  PROVE  /\ sn' \in Sockets /\ pc' \in Places
         /\ size' \in 0 .. BufSize /\ recvsize' \in 0 .. BufSize
         /\ first' \in Nat \ {0}
  BY DEF TypeOK, Return, Places

LEMMA GoToTypes ==
  ASSUME TypeOK, NEW p \in Places, GoTo(p), UNCHANGED localVars, NoEffect
  PROVE  TypeOK'
  BY NoEffectTypes DEF TypeOK

LEMMA UnreadType ==
  ASSUME TypeOK, BufferInv
  PROVE  \A s \in Sockets : arrived[s] - taken[s] \in 0 .. BufSize
  BY DEF TypeOK, BufferInv

LEMMA MailedTypes ==
  ASSUME TypeOK
  PROVE  \A i \in DOMAIN mailed : mailed[i].first \in Nat /\ mailed[i].last \in Nat
<1> DEFINE Message == [first : Nat, last : Nat]
<1>1. mailed \in Seq(Message)
  BY DEF TypeOK
<1>2. \A i \in DOMAIN mailed : mailed[i] \in Message
  <2> HIDE DEF Message
  <2> QED
    BY <1>1
<1> QED
  BY <1>2

(* A connection of the gateway that ends with bytes unread is noted.       *)
LEMMA EndingNoted ==
  ASSUME TypeOK, BufferInv, Ending(Gateway)
  PROVE  disturbed' \/ arrived[Gateway] = taken[Gateway]
<1>1. CASE arrived[Gateway] - taken[Gateway] > 0
  BY <1>1, Zenon DEF Ending
<1>2. CASE ~(arrived[Gateway] - taken[Gateway] > 0)
  BY <1>2 DEF TypeOK, BufferInv
<1> QED
  BY <1>1, <1>2

(* A server that closes the socket it serves and returns keeps the         *)
(* invariant: it does so when the connection is over, or not yet known.    *)
LEMMA Closing ==
  ASSUME IInv, NEW st \in {"CLOSED", "INIT"}, Cleared(sn, st), Return,
         sr[sn] # "ESTABLISHED" \/ pc = "check", pc # "forward"
  PROVE  IInv'
<1>1. TypeOK'
  BY DEF IInv, TypeOK,
       Cleared, Return
<1>2. BufferInv' /\ StateInv' /\ SizeInv' /\ HandInv'
  BY DEF IInv, TypeOK, BufferInv, StateInv, SizeInv, HandInv,
       Cleared, Return
<1>3. OrderInv'
  <2>1. taken'[Gateway] >= taken[Gateway] /\ taken'[Gateway] \in Nat
    BY DEF IInv, TypeOK, BufferInv, Cleared
  <2>2. mailed' = mailed /\ pc' = "status"
    BY DEF Cleared, Return
  <2>3. \A i \in DOMAIN mailed :
          mailed[i].last \in Nat /\ mailed[i].last =< taken[Gateway]
    BY MailedTypes DEF IInv, OrderInv, RelayInOrder
  <2>4. taken[Gateway] \in Nat
    BY DEF IInv, TypeOK
  <2> QED
    BY <2>1, <2>2, <2>3, <2>4 DEF IInv, OrderInv, RelayInOrder
<1>6. NothingLostUndisturbed'
  <2>1. CASE disturbed
    BY <2>1 DEF NothingLostUndisturbed, Cleared
  <2>2. CASE ~disturbed
    <3>1. taken'[Gateway] = taken[Gateway]
      BY <2>2 DEF IInv, TypeOK, EndInv, Cleared
    <3> QED
      BY <2>2, <3>1 DEF IInv, NothingLostUndisturbed, LastMailed, Cleared, Return
  <2> QED
    BY <2>1, <2>2
<1>4. EndInv'
  BY DEF IInv, TypeOK, BufferInv, StateInv, EndInv,
       Cleared, Return
<1>5. EchoInv'
  BY DEF IInv, TypeOK, BufferInv, StateInv, HandInv, EchoInv, InHand,
       Cleared, Return
<1> QED
  BY <1>1, <1>2, <1>3, <1>4, <1>5, <1>6 DEF IInv

(* So does one that returns with nothing in its data buffer.               *)
LEMMA Returning ==
  ASSUME IInv, NoEffect, Return, pc # "forward", ~Sending
  PROVE  IInv'
<1>1. TypeOK'
  BY DEF IInv, TypeOK,
       NoEffect, Return
<1>2. BufferInv' /\ StateInv' /\ SizeInv' /\ HandInv'
  BY DEF IInv, TypeOK, BufferInv, StateInv, SizeInv, HandInv,
       NoEffect, Return
<1>3. OrderInv' /\ NothingLostUndisturbed'
  BY DEF IInv, TypeOK, BufferInv, StateInv, SizeInv, HandInv, EndInv,
         OrderInv, RelayInOrder, NothingLostUndisturbed, LastMailed, InHand,
       NoEffect, Return
<1>4. EndInv'
  BY DEF IInv, TypeOK, BufferInv, StateInv, EndInv,
       NoEffect, Return
<1>5. EchoInv'
  BY DEF IInv, TypeOK, BufferInv, StateInv, HandInv, EchoInv, InHand,
       NoEffect, Return
<1> QED
  BY <1>1, <1>2, <1>3, <1>4, <1>5 DEF IInv

(* The chip and the peers, and the A7.                                     *)
LEMMA ChipStepKeeps ==
  ASSUME IInv, NEW s \in Sockets, Peer(s) \/ PeerReads(s)
  PROVE  IInv'
<1>1. CASE Syn(s)
  <2>1. TypeOK'
    BY <1>1 DEF IInv, TypeOK,
         Syn, ChipStep
  <2>2. BufferInv' /\ StateInv' /\ SizeInv' /\ HandInv'
    BY <1>1 DEF IInv, TypeOK, BufferInv, StateInv, SizeInv, HandInv,
         Syn, ChipStep
  <2>3. OrderInv' /\ NothingLostUndisturbed'
    BY <1>1 DEF IInv, TypeOK, BufferInv, StateInv, SizeInv, HandInv, EndInv,
         OrderInv, RelayInOrder, NothingLostUndisturbed, LastMailed, InHand,
         Syn, ChipStep
  <2>4. EndInv'
    BY <1>1 DEF IInv, TypeOK, BufferInv, StateInv, EndInv,
         Syn, ChipStep
  <2>5. EchoInv'
    BY <1>1 DEF IInv, TypeOK, BufferInv, StateInv, HandInv, EchoInv, InHand,
         Syn, ChipStep
  <2> QED
    BY <2>1, <2>2, <2>3, <2>4, <2>5 DEF IInv
<1>2. CASE Accept(s)
  <2>1. TypeOK'
    BY <1>2 DEF IInv, TypeOK,
         Accept, ChipStep
  <2>2. BufferInv' /\ StateInv' /\ SizeInv' /\ HandInv'
    BY <1>2 DEF IInv, TypeOK, BufferInv, StateInv, SizeInv, HandInv,
         Accept, ChipStep
  <2>3. OrderInv' /\ NothingLostUndisturbed'
    BY <1>2 DEF IInv, TypeOK, BufferInv, StateInv, SizeInv, HandInv, EndInv,
         OrderInv, RelayInOrder, NothingLostUndisturbed, LastMailed, InHand,
         Accept, ChipStep
  <2>4. EndInv'
    BY <1>2 DEF IInv, TypeOK, BufferInv, StateInv, EndInv,
         Accept, ChipStep
  <2>5. EchoInv'
    BY <1>2 DEF IInv, TypeOK, BufferInv, StateInv, HandInv, EchoInv, InHand,
         Accept, ChipStep
  <2> QED
    BY <2>1, <2>2, <2>3, <2>4, <2>5 DEF IInv
<1>3. CASE Fin(s)
  <2>1. TypeOK'
    BY <1>3 DEF IInv, TypeOK,
         Fin, ChipStep, Ending
  <2>2. BufferInv' /\ StateInv' /\ SizeInv' /\ HandInv'
    BY <1>3 DEF IInv, TypeOK, BufferInv, StateInv, SizeInv, HandInv,
         Fin, ChipStep, Ending
  <2>3. OrderInv' /\ NothingLostUndisturbed'
    BY <1>3 DEF IInv, TypeOK, BufferInv, StateInv, SizeInv, HandInv, EndInv,
         OrderInv, RelayInOrder, NothingLostUndisturbed, LastMailed, InHand,
         Fin, ChipStep, Ending
  <2>4. EndInv'
    BY <1>3, EndingNoted DEF IInv, TypeOK, BufferInv, StateInv, EndInv,
         Fin, ChipStep, Ending
  <2>5. EchoInv'
    BY <1>3 DEF IInv, TypeOK, BufferInv, StateInv, HandInv, EchoInv, InHand,
         Fin, ChipStep, Ending
  <2> QED
    BY <2>1, <2>2, <2>3, <2>4, <2>5 DEF IInv
<1>4. CASE Reset(s)
  <2>1. TypeOK'
    BY <1>4 DEF IInv, TypeOK,
         Reset, ChipStep, Ending
  <2>2. BufferInv' /\ StateInv' /\ SizeInv' /\ HandInv'
    BY <1>4 DEF IInv, TypeOK, BufferInv, StateInv, SizeInv, HandInv,
         Reset, ChipStep, Ending
  <2>3. OrderInv' /\ NothingLostUndisturbed'
    BY <1>4 DEF IInv, TypeOK, BufferInv, StateInv, SizeInv, HandInv, EndInv,
         OrderInv, RelayInOrder, NothingLostUndisturbed, LastMailed, InHand,
         Reset, ChipStep, Ending
  <2>4. EndInv'
    BY <1>4, EndingNoted DEF IInv, TypeOK, BufferInv, StateInv, EndInv,
         Reset, ChipStep, Ending
  <2>5. EchoInv'
    BY <1>4 DEF IInv, TypeOK, BufferInv, StateInv, HandInv, EchoInv, InHand,
         Reset, ChipStep, Ending
  <2> QED
    BY <2>1, <2>2, <2>3, <2>4, <2>5 DEF IInv
<1>5. CASE LastAck(s)
  <2>1. TypeOK'
    BY <1>5 DEF IInv, TypeOK,
         LastAck, ChipStep
  <2>2. BufferInv' /\ StateInv' /\ SizeInv' /\ HandInv'
    BY <1>5 DEF IInv, TypeOK, BufferInv, StateInv, SizeInv, HandInv,
         LastAck, ChipStep
  <2>3. OrderInv' /\ NothingLostUndisturbed'
    BY <1>5 DEF IInv, TypeOK, BufferInv, StateInv, SizeInv, HandInv, EndInv,
         OrderInv, RelayInOrder, NothingLostUndisturbed, LastMailed, InHand,
         LastAck, ChipStep
  <2>4. EndInv'
    BY <1>5 DEF IInv, TypeOK, BufferInv, StateInv, EndInv,
         LastAck, ChipStep
  <2>5. EchoInv'
    BY <1>5 DEF IInv, TypeOK, BufferInv, StateInv, HandInv, EchoInv, InHand,
         LastAck, ChipStep
  <2> QED
    BY <2>1, <2>2, <2>3, <2>4, <2>5 DEF IInv
<1>6. CASE GiveUp(s)
  <2>1. TypeOK'
    BY <1>6 DEF IInv, TypeOK,
         GiveUp, ChipStep, Ending
  <2>2. BufferInv' /\ StateInv' /\ SizeInv' /\ HandInv'
    BY <1>6 DEF IInv, TypeOK, BufferInv, StateInv, SizeInv, HandInv,
         GiveUp, ChipStep, Ending
  <2>3. OrderInv' /\ NothingLostUndisturbed'
    BY <1>6 DEF IInv, TypeOK, BufferInv, StateInv, SizeInv, HandInv, EndInv,
         OrderInv, RelayInOrder, NothingLostUndisturbed, LastMailed, InHand,
         GiveUp, ChipStep, Ending
  <2>4. EndInv'
    BY <1>6, EndingNoted DEF IInv, TypeOK, BufferInv, StateInv, EndInv,
         GiveUp, ChipStep, Ending
  <2>5. EchoInv'
    BY <1>6 DEF IInv, TypeOK, BufferInv, StateInv, HandInv, EchoInv, InHand,
         GiveUp, ChipStep, Ending
  <2> QED
    BY <2>1, <2>2, <2>3, <2>4, <2>5 DEF IInv
<1>7. CASE Arrive(s)
  <2>1. TypeOK'
    <3>1. arrived' \in [Sockets -> Nat] /\ disturbed' \in BOOLEAN
      BY <1>7 DEF IInv, TypeOK, Arrive, Receive
    <3> QED
      BY <1>7, <3>1 DEF IInv, TypeOK, Arrive, Receive
  <2>2. BufferInv' /\ StateInv' /\ SizeInv' /\ HandInv'
    <3>1. BufferInv'
      BY <1>7, SMTT(30) DEF IInv, TypeOK, BufferInv, Arrive, Receive, CanReceive
    <3>2. StateInv' /\ HandInv'
      <4>1. StateInv'
        BY <1>7 DEF IInv, TypeOK, StateInv, Arrive, Receive, CanReceive
      <4>2. HandInv'
        BY <1>7 DEF IInv, TypeOK, HandInv, Arrive, Receive, CanReceive
      <4> QED
        BY <4>1, <4>2
    <3>3. SizeInv'
      BY <1>7, SMTT(30) DEF IInv, TypeOK, BufferInv, SizeInv, Arrive, Receive, CanReceive
    <3> QED
      BY <3>1, <3>2, <3>3
  <2>3. OrderInv' /\ NothingLostUndisturbed'
    BY <1>7 DEF IInv, TypeOK, BufferInv, StateInv, SizeInv, HandInv, EndInv,
         OrderInv, RelayInOrder, NothingLostUndisturbed, LastMailed, InHand,
         Arrive, Receive, CanReceive
  <2>4. EndInv'
    BY <1>7 DEF IInv, TypeOK, BufferInv, StateInv, EndInv,
         Arrive, Receive, CanReceive
  <2>5. EchoInv'
    BY <1>7 DEF IInv, TypeOK, BufferInv, StateInv, HandInv, EchoInv, InHand,
         Arrive, Receive, CanReceive
  <2> QED
    BY <2>1, <2>2, <2>3, <2>4, <2>5 DEF IInv
<1>8. CASE Transmitted(s)
  <2>1. TypeOK'
    BY <1>8 DEF IInv, TypeOK,
         Transmitted
  <2>2. BufferInv' /\ StateInv' /\ SizeInv' /\ HandInv'
    BY <1>8 DEF IInv, TypeOK, BufferInv, StateInv, SizeInv, HandInv,
         Transmitted
  <2>3. OrderInv' /\ NothingLostUndisturbed'
    BY <1>8 DEF IInv, TypeOK, BufferInv, StateInv, SizeInv, HandInv, EndInv,
         OrderInv, RelayInOrder, NothingLostUndisturbed, LastMailed, InHand,
         Transmitted
  <2>4. EndInv'
    BY <1>8 DEF IInv, TypeOK, BufferInv, StateInv, EndInv,
         Transmitted
  <2>5. EchoInv'
    BY <1>8 DEF IInv, TypeOK, BufferInv, StateInv, HandInv, EchoInv, InHand,
         Transmitted
  <2> QED
    BY <2>1, <2>2, <2>3, <2>4, <2>5 DEF IInv
<1>9. CASE Acknowledged(s)
  <2>1. TypeOK'
    BY <1>9 DEF IInv, TypeOK,
         Acknowledged
  <2>2. BufferInv' /\ StateInv' /\ SizeInv' /\ HandInv'
    BY <1>9 DEF IInv, TypeOK, BufferInv, StateInv, SizeInv, HandInv,
         Acknowledged
  <2>3. OrderInv' /\ NothingLostUndisturbed'
    BY <1>9 DEF IInv, TypeOK, BufferInv, StateInv, SizeInv, HandInv, EndInv,
         OrderInv, RelayInOrder, NothingLostUndisturbed, LastMailed, InHand,
         Acknowledged
  <2>4. EndInv'
    BY <1>9 DEF IInv, TypeOK, BufferInv, StateInv, EndInv,
         Acknowledged
  <2>5. EchoInv'
    BY <1>9 DEF IInv, TypeOK, BufferInv, StateInv, HandInv, EchoInv, InHand,
         Acknowledged
  <2> QED
    BY <2>1, <2>2, <2>3, <2>4, <2>5 DEF IInv
<1> QED
  BY <1>1, <1>2, <1>3, <1>4, <1>5, <1>6, <1>7, <1>8, <1>9 DEF Peer, PeerReads, Handshake

(* The A7 takes a message: nothing else of the invariant sees it.          *)
LEMMA A7TakeKeeps ==
  ASSUME IInv, A7Take
  PROVE  IInv'
<1> DEFINE Message == [first : Nat, last : Nat]
<1>1. mailed \in Seq(Message) /\ received \in Seq(Message)
  BY DEF IInv, TypeOK
<1>2. /\ mailed' = mailed
      /\ Len(received) < Len(mailed)
      /\ received' = Append(received, mailed[Len(received) + 1])
  BY DEF A7Take, Mailbox!Dequeue
<1>3. received' \in Seq(Message)
  <2> HIDE DEF Message
  <2>1. Len(received) + 1 \in 1 .. Len(mailed)
    BY <1>1, <1>2
  <2> QED
    BY <1>1, <1>2, <2>1
<1>4. TypeOK'
  BY <1>2, <1>3 DEF IInv, TypeOK, A7Take
<1>5. BufferInv' /\ StateInv' /\ SizeInv' /\ HandInv'
  BY DEF IInv, BufferInv, StateInv, SizeInv, HandInv, A7Take
<1>6. OrderInv' /\ NothingLostUndisturbed'
  BY <1>2 DEF IInv, OrderInv, RelayInOrder, NothingLostUndisturbed, LastMailed, A7Take
<1>7. EndInv' /\ EchoInv'
  BY DEF IInv, EndInv, EchoInv, A7Take
<1> QED
  BY <1>4, <1>5, <1>6, <1>7 DEF IInv

(* The switch, opening, listening and disconnecting.                       *)
LEMMA SwitchKeeps ==
  ASSUME IInv, Status \/ OpenSocket \/ sock_listen \/ sock_disconnect
  PROVE  IInv'
<1>1. CASE Status
  <2>1. TypeOK'
    BY <1>1, NoEffectTypes, ReturnTypes, GoToTypes DEF IInv, TypeOK, Status, Places
  <2>2. BufferInv' /\ StateInv' /\ SizeInv' /\ HandInv'
    BY <1>1 DEF IInv, TypeOK, BufferInv, StateInv, SizeInv, HandInv,
         Status, NoEffect, Return
  <2>3. OrderInv' /\ NothingLostUndisturbed'
    BY <1>1 DEF IInv, TypeOK, BufferInv, StateInv, SizeInv, HandInv, EndInv,
         OrderInv, RelayInOrder, NothingLostUndisturbed, LastMailed, InHand,
         Status, NoEffect, Return
  <2>4. EndInv'
    BY <1>1 DEF IInv, TypeOK, BufferInv, StateInv, EndInv,
         Status, NoEffect, Return
  <2>5. EchoInv'
    BY <1>1 DEF IInv, TypeOK, BufferInv, StateInv, HandInv, EchoInv, InHand,
         Status, NoEffect, Return
  <2> QED
    BY <2>1, <2>2, <2>3, <2>4, <2>5 DEF IInv
<1>2. CASE OpenSocket
  BY <1>2, Closing DEF OpenSocket, wiz_socket, IInv, StateInv
<1>3. CASE Listen
  <2>1. TypeOK'
    BY <1>3 DEF IInv, TypeOK,
         Listen
  <2>2. BufferInv' /\ StateInv' /\ SizeInv' /\ HandInv'
    BY <1>3 DEF IInv, TypeOK, BufferInv, StateInv, SizeInv, HandInv,
         Listen
  <2>3. OrderInv' /\ NothingLostUndisturbed'
    BY <1>3 DEF IInv, TypeOK, BufferInv, StateInv, SizeInv, HandInv, EndInv,
         OrderInv, RelayInOrder, NothingLostUndisturbed, LastMailed, InHand,
         Listen
  <2>4. EndInv'
    BY <1>3 DEF IInv, TypeOK, BufferInv, StateInv, EndInv,
         Listen
  <2>5. EchoInv'
    BY <1>3 DEF IInv, TypeOK, BufferInv, StateInv, HandInv, EchoInv, InHand,
         Listen
  <2> QED
    BY <2>1, <2>2, <2>3, <2>4, <2>5 DEF IInv
<1>4. CASE ListenCheck
  BY <1>4, Closing, Returning DEF ListenCheck, close_socket
<1>5. CASE Disconnect
  <2>1. TypeOK'
    BY <1>5 DEF IInv, TypeOK,
         Disconnect
  <2>2. BufferInv' /\ StateInv' /\ SizeInv' /\ HandInv'
    BY <1>5 DEF IInv, TypeOK, BufferInv, StateInv, SizeInv, HandInv,
         Disconnect
  <2>3. OrderInv' /\ NothingLostUndisturbed'
    BY <1>5 DEF IInv, TypeOK, BufferInv, StateInv, SizeInv, HandInv, EndInv,
         OrderInv, RelayInOrder, NothingLostUndisturbed, LastMailed, InHand,
         Disconnect
  <2>4. EndInv'
    BY <1>5 DEF IInv, TypeOK, BufferInv, StateInv, EndInv,
         Disconnect
  <2>5. EchoInv'
    BY <1>5 DEF IInv, TypeOK, BufferInv, StateInv, HandInv, EchoInv, InHand,
         Disconnect
  <2> QED
    BY <2>1, <2>2, <2>3, <2>4, <2>5 DEF IInv
<1>6. CASE AwaitClosed
  <2>1. TypeOK'
    BY <1>6, NoEffectTypes, ReturnTypes, GoToTypes DEF IInv, TypeOK, AwaitClosed, Places
  <2>2. BufferInv' /\ StateInv' /\ SizeInv' /\ HandInv'
    BY <1>6 DEF IInv, TypeOK, BufferInv, StateInv, SizeInv, HandInv,
         AwaitClosed, NoEffect, Return
  <2>3. OrderInv' /\ NothingLostUndisturbed'
    BY <1>6 DEF IInv, TypeOK, BufferInv, StateInv, SizeInv, HandInv, EndInv,
         OrderInv, RelayInOrder, NothingLostUndisturbed, LastMailed, InHand,
         AwaitClosed, NoEffect, Return
  <2>4. EndInv'
    BY <1>6 DEF IInv, TypeOK, BufferInv, StateInv, EndInv,
         AwaitClosed, NoEffect, Return
  <2>5. EchoInv'
    BY <1>6 DEF IInv, TypeOK, BufferInv, StateInv, HandInv, EchoInv, InHand,
         AwaitClosed, NoEffect, Return
  <2> QED
    BY <2>1, <2>2, <2>3, <2>4, <2>5 DEF IInv
<1>7. CASE AwaitTimeout
  <2>1. CASE "TIMEOUT" \in ir[sn]
    BY <1>7, <2>1, Closing DEF AwaitTimeout, close_socket, IInv, StateInv
  <2>2. CASE "TIMEOUT" \notin ir[sn]
    <3>1. TypeOK'
      BY <1>7, <2>2 DEF IInv, TypeOK,
           AwaitTimeout, NoEffect
    <3>2. BufferInv' /\ StateInv' /\ SizeInv' /\ HandInv'
      BY <1>7, <2>2 DEF IInv, TypeOK, BufferInv, StateInv, SizeInv, HandInv,
           AwaitTimeout, NoEffect
    <3>3. OrderInv' /\ NothingLostUndisturbed'
      BY <1>7, <2>2 DEF IInv, TypeOK, BufferInv, StateInv, SizeInv, HandInv, EndInv,
         OrderInv, RelayInOrder, NothingLostUndisturbed, LastMailed, InHand,
           AwaitTimeout, NoEffect
    <3>4. EndInv'
      BY <1>7, <2>2 DEF IInv, TypeOK, BufferInv, StateInv, EndInv,
           AwaitTimeout, NoEffect
    <3>5. EchoInv'
      BY <1>7, <2>2 DEF IInv, TypeOK, BufferInv, StateInv, HandInv, EchoInv, InHand,
           AwaitTimeout, NoEffect
    <3> QED
      BY <3>1, <3>2, <3>3, <3>4, <3>5 DEF IInv
  <2> QED
    BY <2>1, <2>2
<1> QED
  BY <1>1, <1>2, <1>3, <1>4, <1>5, <1>6, <1>7 DEF sock_listen, sock_disconnect

(* Reading the size, and sock_recv.                                        *)
LEMMA ReceiveKeeps ==
  ASSUME IInv, ReadSize \/ ReadSizeTorn \/ sock_recv
  PROVE  IInv'
<1>1. CASE ReadSize
  <2>1. TypeOK'
    BY <1>1, NoEffectTypes, ReturnTypes, UnreadType DEF IInv, TypeOK, ReadSize, Places
  <2>2. BufferInv' /\ StateInv' /\ SizeInv' /\ HandInv'
    <3>1. CASE arrived[sn] - taken[sn] > 0
      BY <1>1, <3>1 DEF IInv, TypeOK, BufferInv, StateInv, SizeInv, HandInv,
           ReadSize, NoEffect
    <3>2. CASE ~(arrived[sn] - taken[sn] > 0)
      BY <1>1, <3>2, Returning DEF IInv, ReadSize
    <3> QED
      BY <3>1, <3>2
  <2>3. OrderInv' /\ NothingLostUndisturbed'
    BY <1>1 DEF IInv, TypeOK, BufferInv, StateInv, SizeInv, HandInv, EndInv,
         OrderInv, RelayInOrder, NothingLostUndisturbed, LastMailed, InHand,
         ReadSize, NoEffect, Return
  <2>4. EndInv'
    BY <1>1 DEF IInv, TypeOK, BufferInv, StateInv, EndInv,
         ReadSize, NoEffect, Return
  <2>5. EchoInv'
    BY <1>1 DEF IInv, TypeOK, BufferInv, StateInv, HandInv, EchoInv, InHand,
         ReadSize, NoEffect, Return
  <2> QED
    BY <2>1, <2>2, <2>3, <2>4, <2>5 DEF IInv
<1>2. CASE ReadSizeTorn
  <2>1. TypeOK'
    <3>1. arrived' \in [Sockets -> Nat] /\ disturbed' \in BOOLEAN
      BY <1>2 DEF IInv, TypeOK, ReadSizeTorn, Receive
    <3> QED
      BY <1>2, <3>1, SMTT(30) DEF IInv, TypeOK, ReadSizeTorn, Receive, CanReceive, Return
  <2>2. BufferInv' /\ StateInv' /\ SizeInv' /\ HandInv'
    <3>1. BufferInv'
      BY <1>2 DEF IInv, TypeOK,  BufferInv, ReadSizeTorn, Return, Receive, CanReceive
    <3>2. StateInv' /\ HandInv'
      BY <1>2 DEF IInv, TypeOK,  StateInv, HandInv, ReadSizeTorn, Return, Receive, CanReceive
    <3>3. SizeInv'
      BY <1>2 DEF IInv, TypeOK,  BufferInv, SizeInv, ReadSizeTorn, Return, Receive, CanReceive
    <3> QED
      BY <3>1, <3>2, <3>3
  <2>3. OrderInv' /\ NothingLostUndisturbed'
    BY <1>2 DEF IInv, TypeOK, BufferInv, StateInv, SizeInv, HandInv, EndInv,
         OrderInv, RelayInOrder, NothingLostUndisturbed, LastMailed, InHand,
         ReadSizeTorn, Receive, CanReceive, Return
  <2>4. EndInv'
    BY <1>2 DEF IInv, TypeOK, BufferInv, StateInv, EndInv,
         ReadSizeTorn, Receive, CanReceive, Return
  <2>5. EchoInv'
    BY <1>2 DEF IInv, TypeOK, BufferInv, StateInv, HandInv, EchoInv, InHand,
         ReadSizeTorn, Receive, CanReceive, Return
  <2> QED
    BY <2>1, <2>2, <2>3, <2>4, <2>5 DEF IInv
<1>3. CASE ReadRecvSize
  <2>1. TypeOK'
    BY <1>3, NoEffectTypes, UnreadType DEF IInv, TypeOK, ReadRecvSize, Places
  <2>2. BufferInv' /\ StateInv' /\ SizeInv' /\ HandInv'
    BY <1>3 DEF IInv, TypeOK, BufferInv, StateInv, SizeInv, HandInv,
         ReadRecvSize, NoEffect
  <2>3. OrderInv' /\ NothingLostUndisturbed'
    BY <1>3 DEF IInv, TypeOK, BufferInv, StateInv, SizeInv, HandInv, EndInv,
         OrderInv, RelayInOrder, NothingLostUndisturbed, LastMailed, InHand,
         ReadRecvSize, NoEffect
  <2>4. EndInv'
    BY <1>3 DEF IInv, TypeOK, BufferInv, StateInv, EndInv,
         ReadRecvSize, NoEffect
  <2>5. EchoInv'
    BY <1>3 DEF IInv, TypeOK, BufferInv, StateInv, HandInv, EchoInv, InHand,
         ReadRecvSize, NoEffect
  <2> QED
    BY <2>1, <2>2, <2>3, <2>4, <2>5 DEF IInv
<1>4. CASE ReadRecvSizeTorn
  <2>1. TypeOK'
    <3>1. arrived' \in [Sockets -> Nat]
      BY <1>4 DEF IInv, TypeOK, ReadRecvSizeTorn, Receive
    <3>2. recvsize' \in 0 .. BufSize /\ disturbed' \in BOOLEAN
      BY <1>4 DEF ReadRecvSizeTorn, Receive
    <3> QED
      BY <1>4, <3>1, <3>2 DEF IInv, TypeOK, ReadRecvSizeTorn, Receive
  <2>2. BufferInv' /\ StateInv' /\ SizeInv' /\ HandInv'
    <3>1. BufferInv'
      BY <1>4 DEF IInv, TypeOK, BufferInv, ReadRecvSizeTorn, Receive, CanReceive
    <3>2. StateInv' /\ HandInv'
      <4>1. StateInv'
        BY <1>4 DEF IInv, TypeOK, StateInv, ReadRecvSizeTorn, Receive, CanReceive
      <4>2. HandInv'
        BY <1>4 DEF IInv, TypeOK, HandInv, ReadRecvSizeTorn, Receive, CanReceive
      <4> QED
        BY <4>1, <4>2
    <3>3. SizeInv'
      BY <1>4, SMTT(30) DEF IInv, TypeOK, BufferInv, SizeInv, ReadRecvSizeTorn, Receive, CanReceive
    <3> QED
      BY <3>1, <3>2, <3>3
  <2>3. OrderInv' /\ NothingLostUndisturbed'
    BY <1>4 DEF IInv, TypeOK, BufferInv, StateInv, SizeInv, HandInv, EndInv,
         OrderInv, RelayInOrder, NothingLostUndisturbed, LastMailed, InHand,
         ReadRecvSizeTorn, Receive, CanReceive
  <2>4. EndInv'
    BY <1>4 DEF IInv, TypeOK, BufferInv, StateInv, EndInv,
         ReadRecvSizeTorn, Receive, CanReceive
  <2>5. EchoInv'
    BY <1>4 DEF IInv, TypeOK, BufferInv, StateInv, HandInv, EchoInv, InHand,
         ReadRecvSizeTorn, Receive, CanReceive
  <2> QED
    BY <2>1, <2>2, <2>3, <2>4, <2>5 DEF IInv
<1>5. CASE RecvStatus
  <2>1. CASE GoTo("take") \/ GoTo("rsr")
    <3>1. TypeOK'
      BY <1>5, <2>1 DEF IInv, TypeOK,
           RecvStatus, NoEffect, Return
    <3>2. BufferInv' /\ StateInv' /\ SizeInv' /\ HandInv'
      BY <1>5, <2>1 DEF IInv, TypeOK, BufferInv, StateInv, SizeInv, HandInv,
           RecvStatus, NoEffect, Return
    <3>3. OrderInv' /\ NothingLostUndisturbed'
      BY <1>5, <2>1 DEF IInv, TypeOK, BufferInv, StateInv, SizeInv, HandInv, EndInv,
         OrderInv, RelayInOrder, NothingLostUndisturbed, LastMailed, InHand,
           RecvStatus, NoEffect, Return
    <3>4. EndInv'
      BY <1>5, <2>1 DEF IInv, TypeOK, BufferInv, StateInv, EndInv,
           RecvStatus, NoEffect, Return
    <3>5. EchoInv'
      BY <1>5, <2>1 DEF IInv, TypeOK, BufferInv, StateInv, HandInv, EchoInv, InHand,
           RecvStatus, NoEffect, Return
    <3> QED
      BY <3>1, <3>2, <3>3, <3>4, <3>5 DEF IInv
  <2>2. CASE Return /\ close_socket(sn)
    <3>1. sr[sn] # "ESTABLISHED" /\ pc # "forward"
      BY <1>5, <2>2 DEF RecvStatus, Return
    <3> QED
      BY <2>2, <3>1, Closing DEF close_socket
  <2> QED
    BY <1>5, <2>1, <2>2 DEF RecvStatus
<1>6. CASE Take
  <2>1. /\ pc = "take" /\ size > 0 /\ size =< BufSize
        /\ taken[sn] + size =< arrived[sn]
        /\ Length = size
    BY <1>6 DEF IInv, TypeOK, SizeInv, Take, Length
  <2>2. /\ taken' = [taken EXCEPT ![sn] = @ + size]
        /\ size' = size /\ first' = taken[sn] + 1 /\ sn' = sn
        /\ pc' = IF sn = Gateway THEN "forward" ELSE "send"
    BY <1>6, <2>1 DEF Take
  <2>3. UNCHANGED <<sr, ir, arrived, tx, unsent, recvsize, sock_is_sending, mailVars, histVars>>
    BY <1>6 DEF Take
  <2>4. TypeOK'
    <3>1. /\ taken \in [Sockets -> Nat] /\ taken[sn] \in Nat /\ size \in Nat
          /\ sn \in Sockets
      BY DEF IInv, TypeOK
    <3>2. taken' \in [Sockets -> Nat] /\ first' \in Nat \ {0}
      BY <2>2, <3>1
    <3> QED
      BY <2>2, <2>3, <3>2 DEF IInv, TypeOK
  <2>5. CASE sn = Gateway
    <3>7. /\ taken'[Gateway] = taken[Gateway] + size
          /\ \A s \in Sockets \ {Gateway} : taken'[s] = taken[s]
          /\ pc' = "forward"
          /\ taken[Gateway] \in Nat /\ taken[Loopback] \in Nat /\ size \in Nat
      BY <2>2, <2>5 DEF IInv, TypeOK
    <3>8. BufferInv'
      BY <2>1, <2>3, <2>5, <3>7 DEF IInv, TypeOK, BufferInv
    <3>9. StateInv' /\ SizeInv'
      BY <2>1, <2>2, <2>3, <2>5, <3>7 DEF IInv, StateInv, SizeInv
    <3>10. HandInv'
      BY <2>1, <2>2, <2>5, <3>7 DEF HandInv
    <3>1. BufferInv' /\ StateInv' /\ SizeInv' /\ HandInv'
      BY <3>8, <3>9, <3>10
    <3>2. OrderInv'
      <4>1. \A i \in DOMAIN mailed :
              mailed[i].last \in Nat /\ mailed[i].last =< taken[Gateway]
        BY MailedTypes DEF IInv, OrderInv, RelayInOrder
      <4>2. RelayInOrder'
        BY <2>1, <2>3, <3>7, <4>1 DEF IInv, OrderInv, RelayInOrder
      <4>3. \A i \in DOMAIN mailed' : mailed'[i].last < first'
        BY <2>2, <2>3, <2>5, <3>7, <4>1
      <4> QED
        BY <4>2, <4>3 DEF OrderInv
    <3>3. NothingLostUndisturbed'
      <4>1. ~disturbed => taken[Gateway] = LastMailed
        BY <2>1 DEF IInv, NothingLostUndisturbed
      <4>2. LastMailed' = LastMailed
        BY <2>3 DEF LastMailed
      <4>3. ~disturbed => first' = LastMailed' + 1 /\ taken'[Gateway] = first' + size' - 1
        BY <2>2, <2>5, <3>7, <4>1, <4>2
      <4> QED
        BY <2>2, <2>3, <2>5, <3>7, <4>3 DEF IInv, NothingLostUndisturbed
    <3>4. EndInv'
      BY <2>1, <2>2, <2>3, <2>5 DEF IInv, TypeOK, EndInv
    <3>5. EchoInv'
      BY <2>1, <2>2, <2>3, <2>5 DEF IInv, TypeOK, EchoInv
    <3> QED
      BY <2>4, <3>1, <3>2, <3>3, <3>4, <3>5 DEF IInv
  <2>6. CASE sn = Loopback
    <3>7. /\ taken'[Loopback] = taken[Loopback] + size
          /\ \A s \in Sockets \ {Loopback} : taken'[s] = taken[s]
          /\ pc' = "send"
          /\ taken[Gateway] \in Nat /\ taken[Loopback] \in Nat /\ size \in Nat
      BY <2>2, <2>6 DEF IInv, TypeOK
    <3>8. BufferInv'
      BY <2>1, <2>3, <2>6, <3>7 DEF IInv, TypeOK, BufferInv
    <3>9. StateInv' /\ SizeInv'
      BY <2>1, <2>2, <2>3, <2>6, <3>7 DEF IInv, StateInv, SizeInv
    <3>10. HandInv'
      BY <2>1, <2>2, <2>6, <3>7 DEF HandInv
    <3>1. BufferInv' /\ StateInv' /\ SizeInv' /\ HandInv'
      BY <3>8, <3>9, <3>10
    <3>2. OrderInv'
      BY <2>1, <2>2, <2>3, <2>6 DEF IInv, TypeOK, OrderInv, RelayInOrder
    <3>3. NothingLostUndisturbed'
      BY <2>1, <2>2, <2>3, <2>6
      DEF IInv, TypeOK, NothingLostUndisturbed, LastMailed
    <3>4. EndInv'
      BY <2>1, <2>2, <2>3, <2>6 DEF IInv, TypeOK, EndInv
    <3>5. EchoInv'
      BY <2>1, <2>2, <2>3, <2>6 DEF IInv, TypeOK, StateInv, EchoInv
    <3> QED
      BY <2>4, <3>1, <3>2, <3>3, <3>4, <3>5 DEF IInv
  <2> QED
    BY <2>5, <2>6 DEF IInv, TypeOK
<1> QED
  BY <1>1, <1>2, <1>3, <1>4, <1>5, <1>6 DEF sock_recv

(* mbox_send_data_a7.                                                      *)
LEMMA ForwardKeeps ==
  ASSUME IInv, Forward \/ ForwardRefused \/ Overrun
  PROVE  IInv'
<1>1. CASE Forward
  <2>1. TypeOK'
    BY <1>1 DEF IInv, TypeOK,
         Forward, Return, InHand
  <2>2. BufferInv' /\ StateInv' /\ SizeInv' /\ HandInv'
    BY <1>1 DEF IInv, TypeOK, BufferInv, StateInv, SizeInv, HandInv,
         Forward, Return, InHand
  <2>3. OrderInv' /\ NothingLostUndisturbed'
    <3>1. /\ sn = Gateway /\ pc = "forward" /\ pc' = "status"
          /\ size > 0 /\ taken[Gateway] = first + size - 1 /\ taken' = taken
          /\ mailed' = Append(mailed, InHand) /\ disturbed' = disturbed
      BY <1>1 DEF IInv, HandInv, Forward, Return
    <3>2. /\ mailed \in Seq([first : Nat, last : Nat]) /\ InHand \in [first : Nat, last : Nat]
          /\ InHand.first = first /\ InHand.last = taken[Gateway] /\ first =< taken[Gateway]
      BY <3>1 DEF IInv, TypeOK, InHand
    <3>3. /\ Len(mailed') = Len(mailed) + 1 /\ DOMAIN mailed' = 1 .. Len(mailed) + 1
          /\ \A i \in 1 .. Len(mailed) : mailed'[i] = mailed[i]
          /\ mailed'[Len(mailed) + 1] = InHand
      BY <3>1, <3>2
    <3>4. DOMAIN mailed = 1 .. Len(mailed) /\ Len(mailed) \in Nat
      BY <3>2
    <3>5. OrderInv'
      <4>1. \A i \in DOMAIN mailed' :
               mailed'[i].first =< mailed'[i].last /\ mailed'[i].last =< taken[Gateway]
        BY <3>2, <3>3, <3>4, SMTT(30) DEF IInv, OrderInv, RelayInOrder
      <4>2. \A i, j \in DOMAIN mailed' : i < j => mailed'[i].last < mailed'[j].first
        BY <3>1, <3>2, <3>3, <3>4 DEF IInv, OrderInv, RelayInOrder
      <4> QED
        BY <3>1, <4>1, <4>2 DEF OrderInv, RelayInOrder
    <3>6. NothingLostUndisturbed'
      <4> SUFFICES ASSUME ~disturbed PROVE NothingLostUndisturbed'
        BY <3>1 DEF NothingLostUndisturbed
      <4>1. /\ mailed # <<>> => mailed[1].first = 1
            /\ \A i \in 1 .. Len(mailed) : i > 1 => mailed[i].first = mailed[i - 1].last + 1
            /\ first = LastMailed + 1
        BY <3>1, <3>4 DEF IInv, NothingLostUndisturbed
      <4>2. mailed = <<>> => Len(mailed) = 0
        OBVIOUS
      <4>3. mailed # <<>> => Len(mailed) > 0
        BY <3>2
      <4>4. mailed'[1].first = 1
        BY <3>2, <3>3, <3>4, <4>1, <4>2, <4>3 DEF LastMailed
      <4>5. \A i \in DOMAIN mailed' : i > 1 => mailed'[i].first = mailed'[i - 1].last + 1
        <5> TAKE i \in DOMAIN mailed'
        <5> HAVE i > 1
        <5>1. CASE i =< Len(mailed)
          BY <3>3, <3>4, <4>1, <5>1
        <5>2. CASE i = Len(mailed) + 1
          BY <3>2, <3>3, <3>4, <4>1, <4>2, <5>2, SMTT(30) DEF LastMailed
        <5> QED
          BY <3>3, <3>4, <5>1, <5>2
      <4>6. LastMailed' = taken[Gateway] /\ mailed' # <<>>
        BY <3>2, <3>3, <3>4 DEF LastMailed
      <4> QED
        BY <3>1, <4>4, <4>5, <4>6 DEF NothingLostUndisturbed
    <3> QED
      BY <3>5, <3>6
  <2>4. EndInv'
    BY <1>1 DEF IInv, TypeOK, BufferInv, StateInv, EndInv,
         Forward, Return, InHand
  <2>5. EchoInv'
    BY <1>1 DEF IInv, TypeOK, BufferInv, StateInv, HandInv, EchoInv, InHand,
         Forward, Return, InHand
  <2> QED
    BY <2>1, <2>2, <2>3, <2>4, <2>5 DEF IInv
<1>2. CASE ForwardRefused
  <2>1. TypeOK'
    BY <1>2 DEF IInv, TypeOK,
         ForwardRefused, Return
  <2>2. BufferInv' /\ StateInv' /\ SizeInv' /\ HandInv'
    BY <1>2 DEF IInv, TypeOK, BufferInv, StateInv, SizeInv, HandInv,
         ForwardRefused, Return
  <2>3. OrderInv' /\ NothingLostUndisturbed'
    BY <1>2 DEF IInv, TypeOK, BufferInv, StateInv, SizeInv, HandInv, EndInv,
         OrderInv, RelayInOrder, NothingLostUndisturbed, LastMailed, InHand,
         ForwardRefused, Return
  <2>4. EndInv'
    BY <1>2 DEF IInv, TypeOK, BufferInv, StateInv, EndInv,
         ForwardRefused, Return
  <2>5. EchoInv'
    BY <1>2 DEF IInv, TypeOK, BufferInv, StateInv, HandInv, EchoInv, InHand,
         ForwardRefused, Return
  <2> QED
    BY <2>1, <2>2, <2>3, <2>4, <2>5 DEF IInv
<1>3. CASE Overrun
  <2>1. /\ pc = "forward" /\ pc' = "undefined" /\ sn' = sn /\ disturbed' = TRUE
        /\ UNCHANGED <<chipVars, localVars, sock_is_sending, mailVars, echoed>>
    BY <1>3 DEF Overrun
  <2>2. TypeOK'
    BY <2>1 DEF IInv, TypeOK
  <2>3. BufferInv' /\ StateInv' /\ SizeInv' /\ HandInv'
    BY <2>1 DEF IInv, BufferInv, StateInv, SizeInv, HandInv
  <2>4. OrderInv' /\ NothingLostUndisturbed' /\ EndInv'
    BY <2>1 DEF IInv, OrderInv, RelayInOrder, NothingLostUndisturbed, EndInv
  <2>5. EchoInv'
    BY <2>1 DEF IInv, EchoInv
  <2> QED
    BY <2>2, <2>3, <2>4, <2>5 DEF IInv
<1> QED
  BY <1>1, <1>2, <1>3

(* sock_send.                                                              *)
LEMMA SendKeeps ==
  ASSUME IInv, sock_send
  PROVE  IInv'
<1>1. CASE SendStatus
  <2>1. CASE sr[sn] \in Open
    <3>1. TypeOK'
      BY <1>1, <2>1 DEF IInv, TypeOK,
           SendStatus, NoEffect
    <3>2. BufferInv' /\ StateInv' /\ SizeInv' /\ HandInv'
      BY <1>1, <2>1 DEF IInv, TypeOK, BufferInv, StateInv, SizeInv, HandInv,
           SendStatus, NoEffect
    <3>3. OrderInv' /\ NothingLostUndisturbed'
      BY <1>1, <2>1 DEF IInv, TypeOK, BufferInv, StateInv, SizeInv, HandInv, EndInv,
         OrderInv, RelayInOrder, NothingLostUndisturbed, LastMailed, InHand,
           SendStatus, NoEffect
    <3>4. EndInv'
      BY <1>1, <2>1 DEF IInv, TypeOK, BufferInv, StateInv, EndInv,
           SendStatus, NoEffect
    <3>5. EchoInv'
      BY <1>1, <2>1 DEF IInv, TypeOK, BufferInv, StateInv, HandInv, EchoInv, InHand,
           SendStatus, NoEffect
    <3> QED
      BY <3>1, <3>2, <3>3, <3>4, <3>5 DEF IInv
  <2>2. CASE sr[sn] \notin Open
    BY <1>1, <2>2, Closing DEF SendStatus, close_socket
  <2> QED
    BY <1>1, <2>1, <2>2 DEF SendStatus
<1>2. CASE SendBusy
  <2>1. CASE "SENDOK" \in ir[sn]
    <3>1. TypeOK'
      <4>1. ir' \in [Sockets -> SUBSET {"SENDOK", "TIMEOUT"}]
        BY <1>2, <2>1 DEF IInv, TypeOK, SendBusy
      <4> QED
        BY <1>2, <2>1, <4>1 DEF IInv, TypeOK, SendBusy
    <3>2. BufferInv' /\ StateInv' /\ SizeInv' /\ HandInv'
      <4>1. \A s \in Sockets : "TIMEOUT" \in ir'[s] => "TIMEOUT" \in ir[s]
        BY <1>2, <2>1, SMTT(30) DEF IInv, TypeOK, SendBusy
      <4>2. StateInv'
        BY <1>2, <2>1, <4>1 DEF IInv, StateInv, SendBusy
      <4> QED
        BY <1>2, <2>1, <4>2 DEF IInv, BufferInv, SizeInv, HandInv, SendBusy
    <3>3. OrderInv' /\ NothingLostUndisturbed'
      BY <1>2, <2>1 DEF IInv, TypeOK, BufferInv, StateInv, SizeInv, HandInv, EndInv,
         OrderInv, RelayInOrder, NothingLostUndisturbed, LastMailed, InHand,
           SendBusy
    <3>4. EndInv'
      BY <1>2, <2>1 DEF IInv, TypeOK, BufferInv, StateInv, EndInv,
           SendBusy
    <3>5. EchoInv'
      BY <1>2, <2>1 DEF IInv, TypeOK, BufferInv, StateInv, HandInv, EchoInv, InHand,
           SendBusy
    <3> QED
      BY <3>1, <3>2, <3>3, <3>4, <3>5 DEF IInv
  <2>2. CASE "SENDOK" \notin ir[sn] /\ "TIMEOUT" \in ir[sn]
    <3>1. Return /\ close_socket(sn) /\ pc = "sendok"
      BY <1>2, <2>2 DEF SendBusy
    <3>2. sr[sn] # "ESTABLISHED"
      BY <2>2 DEF IInv, TypeOK, StateInv
    <3> QED
      BY <3>1, <3>2, Closing DEF close_socket
  <2>3. CASE ir[sn] \intersect {"SENDOK", "TIMEOUT"} = {}
    <3>1. TypeOK'
      BY <1>2, <2>3 DEF IInv, TypeOK,
           SendBusy, NoEffect
    <3>2. BufferInv' /\ StateInv' /\ SizeInv' /\ HandInv'
      BY <1>2, <2>3 DEF IInv, TypeOK, BufferInv, StateInv, SizeInv, HandInv,
           SendBusy, NoEffect
    <3>3. OrderInv' /\ NothingLostUndisturbed'
      BY <1>2, <2>3 DEF IInv, TypeOK, BufferInv, StateInv, SizeInv, HandInv, EndInv,
         OrderInv, RelayInOrder, NothingLostUndisturbed, LastMailed, InHand,
           SendBusy, NoEffect
    <3>4. EndInv'
      BY <1>2, <2>3 DEF IInv, TypeOK, BufferInv, StateInv, EndInv,
           SendBusy, NoEffect
    <3>5. EchoInv'
      BY <1>2, <2>3 DEF IInv, TypeOK, BufferInv, StateInv, HandInv, EchoInv, InHand,
           SendBusy, NoEffect
    <3> QED
      BY <3>1, <3>2, <3>3, <3>4, <3>5 DEF IInv
  <2> QED
    BY <1>2, <2>1, <2>2, <2>3 DEF SendBusy
<1>3. CASE SendRoom
  <2>1. CASE sr[sn] \in Open
    <3>1. TypeOK'
      BY <1>3, <2>1 DEF IInv, TypeOK,
           SendRoom, NoEffect
    <3>2. BufferInv' /\ StateInv' /\ SizeInv' /\ HandInv'
      BY <1>3, <2>1 DEF IInv, TypeOK, BufferInv, StateInv, SizeInv, HandInv,
           SendRoom, NoEffect
    <3>3. OrderInv' /\ NothingLostUndisturbed'
      BY <1>3, <2>1 DEF IInv, TypeOK, BufferInv, StateInv, SizeInv, HandInv, EndInv,
         OrderInv, RelayInOrder, NothingLostUndisturbed, LastMailed, InHand,
           SendRoom, NoEffect
    <3>4. EndInv'
      BY <1>3, <2>1 DEF IInv, TypeOK, BufferInv, StateInv, EndInv,
           SendRoom, NoEffect
    <3>5. EchoInv'
      BY <1>3, <2>1 DEF IInv, TypeOK, BufferInv, StateInv, HandInv, EchoInv, InHand,
           SendRoom, NoEffect
    <3> QED
      BY <3>1, <3>2, <3>3, <3>4, <3>5 DEF IInv
  <2>2. CASE sr[sn] \notin Open
    BY <1>3, <2>2, Closing DEF SendRoom, close_socket
  <2> QED
    BY <1>3, <2>1, <2>2 DEF SendRoom
<1>4. CASE SendPut
  <2>1. TypeOK'
    <3>3. tx[sn] + size \in 0 .. BufSize
      BY <1>4 DEF IInv, TypeOK, SizeInv, SendPut
    <3>1. tx' \in [Sockets -> 0 .. BufSize] /\ unsent' \subseteq Sockets
      <4>1. CASE sr[sn] \in Open
        <5>1. tx' = [tx EXCEPT ![sn] = @ + size] /\ unsent' = unsent \union {sn}
          BY <1>4, <4>1 DEF SendPut
        <5>2. tx \in [Sockets -> 0 .. BufSize] /\ unsent \subseteq Sockets /\ sn \in Sockets
          BY DEF IInv, TypeOK
        <5>3. tx' \in [Sockets -> 0 .. BufSize]
          BY <3>3, <5>1, <5>2 DEF IInv, TypeOK, SendPut
        <5> QED
          BY <5>1, <5>2, <5>3
      <4>2. CASE sr[sn] \notin Open
        BY <1>4, <4>2 DEF IInv, TypeOK, SendPut
      <4> QED
        BY <4>1, <4>2
    <3>2. echoed' \in Nat
      BY <1>4 DEF IInv, TypeOK, HandInv, SendPut, InHand
    <3> QED
      BY <1>4, <3>1, <3>2, ReturnTypes DEF IInv, TypeOK, SendPut, Places
  <2>2. BufferInv' /\ StateInv' /\ SizeInv' /\ HandInv'
    BY <1>4 DEF IInv, TypeOK, BufferInv, StateInv, SizeInv, HandInv,
         SendPut, Return, InHand
  <2>3. OrderInv' /\ NothingLostUndisturbed'
    BY <1>4 DEF IInv, TypeOK, BufferInv, StateInv, SizeInv, HandInv, EndInv,
         OrderInv, RelayInOrder, NothingLostUndisturbed, LastMailed, InHand,
         SendPut, Return, InHand
  <2>4. EndInv'
    BY <1>4 DEF IInv, TypeOK, BufferInv, StateInv, EndInv,
         SendPut, Return, InHand
  <2>5. EchoInv'
    BY <1>4 DEF IInv, TypeOK, BufferInv, StateInv, HandInv, EchoInv, InHand,
         SendPut, Return, InHand
  <2> QED
    BY <2>1, <2>2, <2>3, <2>4, <2>5 DEF IInv
<1> QED
  BY <1>1, <1>2, <1>3, <1>4 DEF sock_send

(* The invariant is inductive.                                             *)
LEMMA NextIInv == IInv /\ [Next]_vars => IInv'
<1> SUFFICES ASSUME IInv, [Next]_vars PROVE IInv'
  OBVIOUS
<1>1. CASE MainLoop
  BY <1>1, SwitchKeeps, ReceiveKeeps, ForwardKeeps, SendKeeps DEF MainLoop
<1>2. CASE A7Take
  BY <1>2, A7TakeKeeps
<1>3. CASE \E s \in Sockets : Peer(s) \/ PeerReads(s)
  BY <1>3, ChipStepKeeps
<1>4. CASE Undefined \/ UNCHANGED vars
  <2>0. UNCHANGED vars
    BY <1>4 DEF Undefined
  <2>1. TypeOK'
    BY <2>0 DEF IInv, TypeOK, vars
  <2>2. BufferInv' /\ StateInv' /\ SizeInv' /\ HandInv'
    BY <2>0 DEF IInv, TypeOK, BufferInv, StateInv, SizeInv, HandInv, vars
  <2>3. OrderInv' /\ NothingLostUndisturbed'
    BY <2>0 DEF IInv, TypeOK, BufferInv, StateInv, SizeInv, HandInv, EndInv,
         OrderInv, RelayInOrder, NothingLostUndisturbed, LastMailed, InHand, vars
  <2>4. EndInv'
    BY <2>0 DEF IInv, TypeOK, BufferInv, StateInv, EndInv, vars
  <2>5. EchoInv'
    BY <2>0 DEF IInv, TypeOK, BufferInv, StateInv, HandInv, EchoInv, InHand, vars
  <2> QED
    BY <2>1, <2>2, <2>3, <2>4, <2>5 DEF IInv
<1> QED
  BY <1>1, <1>2, <1>3, <1>4 DEF Next

(* IInv holds in every state the servers can reach.                        *)
THEOREM Invariance == Spec => []IInv
  BY InitIInv, NextIInv, PTL DEF Spec

-----------------------------------------------------------------------------
(* Every variable keeps its type, whatever the size of the buffers.        *)
THEOREM TypeCorrect == Spec => []TypeOK
<1>1. IInv => TypeOK
  BY DEF IInv
<1> QED
  BY <1>1, Invariance, PTL

(* The A7 is sent what the gateway's client sent, in order, at most once.  *)
THEOREM RelayedInOrder == Spec => []RelayInOrder
<1>1. IInv => RelayInOrder
  BY DEF IInv, OrderInv
<1> QED
  BY <1>1, Invariance, PTL

(* The gateway loses nothing but what a full ring, the end of a connection *)
(* or an overrun of mbox_send_buf takes away.                              *)
THEOREM NothingLost == Spec => []NothingLostUndisturbed
<1>1. IInv => NothingLostUndisturbed
  BY DEF IInv
<1> QED
  BY <1>1, Invariance, PTL

(* The loopback echoes without a gap and without repeating.  Only SendPut  *)
(* and Accept touch echoed.                                                *)
EchoStep ==
  echoed' # echoed /\ ~(\E s \in Sockets : Accept(s)) => first = echoed + 1

LEMMA EchoStepHolds == IInv /\ [Next]_vars => EchoStep
<1> SUFFICES ASSUME IInv, [Next]_vars, echoed' # echoed,
                    ~(\E s \in Sockets : Accept(s))
             PROVE  first = echoed + 1
  BY DEF EchoStep
<1>1. CASE SendPut
  BY <1>1 DEF SendPut, IInv, HandInv, EchoInv
<1>2. ~(Status \/ OpenSocket \/ sock_listen \/ sock_disconnect)
  BY DEF Status, OpenSocket, wiz_socket, sock_listen, Listen, ListenCheck,
         close_socket, Cleared, sock_disconnect, Disconnect, AwaitClosed,
         AwaitTimeout, NoEffect
<1>3. ~(ReadSize \/ ReadSizeTorn \/ sock_recv \/ Forward \/ ForwardRefused \/ Overrun)
  BY DEF ReadSize, ReadSizeTorn, Receive, sock_recv, ReadRecvSize,
         ReadRecvSizeTorn, RecvStatus, Take, Forward, ForwardRefused, Overrun,
         close_socket, Cleared, NoEffect
<1>4. ~(SendStatus \/ SendBusy \/ SendRoom)
  BY DEF SendStatus, SendBusy, SendRoom, close_socket, Cleared, NoEffect
<1>5. ~A7Take /\ ~Undefined /\ ~UNCHANGED vars
  BY DEF A7Take, Undefined, vars
<1>6. ~(\E s \in Sockets : Peer(s) \/ PeerReads(s))
  BY DEF Peer, Handshake, Syn, Fin, Reset, LastAck, GiveUp, Arrive, Receive,
         PeerReads, Transmitted, Acknowledged
<1> QED
  BY <1>1, <1>2, <1>3, <1>4, <1>5, <1>6 DEF Next, MainLoop, sock_send

(* The loopback sends back what it received, byte after byte, over as many *)
(* calls of sock_send as that takes.                                       *)
THEOREM EchoIsUnbroken == Spec => EchoUnbroken
<1>1. IInv /\ [Next]_vars => [EchoStep]_vars
  BY EchoStepHolds
<1>2. Spec => [][EchoStep]_vars
  BY <1>1, Invariance, PTL DEF Spec
<1> QED
  BY <1>2, PTL DEF EchoUnbroken, EchoStep

(* An established connection outlives the program's steps, but for the     *)
(* window of sock_listen.                                                  *)
KeepStep ==
  \A s \in Sockets :
    /\ sr[s] = "ESTABLISHED"
    /\ sr'[s] \notin Open
    /\ ~(sn = s /\ pc = "check")
    => Reset(s) \/ GiveUp(s)

(* A socket the program closes or opens is not an established one.         *)
LEMMA ClearedNotConnected ==
  ASSUME IInv, NEW st, Cleared(sn, st), sr[sn] # "ESTABLISHED" \/ pc = "check"
  PROVE  KeepStep
  BY DEF IInv, TypeOK, Cleared, KeepStep

LEMMA KeepStepHolds == IInv /\ [Next]_vars => KeepStep
<1> SUFFICES ASSUME IInv, [Next]_vars PROVE KeepStep
  OBVIOUS
<1>0. ASSUME sr' = sr PROVE KeepStep
  BY <1>0 DEF KeepStep
<1>1. CASE Status \/ ReadSize \/ ReadSizeTorn \/ ReadRecvSize \/ ReadRecvSizeTorn \/ Take
  BY <1>0, <1>1 DEF Status, ReadSize, ReadSizeTorn, Receive, ReadRecvSize,
                    ReadRecvSizeTorn, Take, NoEffect
<1>2. CASE Forward \/ ForwardRefused \/ Overrun \/ SendPut \/ A7Take \/ AwaitClosed
  BY <1>0, <1>2 DEF Forward, ForwardRefused, Overrun, SendPut, A7Take, AwaitClosed, NoEffect
<1>3. CASE OpenSocket
  BY <1>3, ClearedNotConnected DEF OpenSocket, wiz_socket, IInv, StateInv
<1>4. CASE ListenCheck
  BY <1>0, <1>4, ClearedNotConnected DEF ListenCheck, close_socket, NoEffect
<1>5. CASE AwaitTimeout
  BY <1>0, <1>5, ClearedNotConnected DEF AwaitTimeout, close_socket, NoEffect, IInv, StateInv
<1>6. CASE RecvStatus
  BY <1>0, <1>6, ClearedNotConnected DEF RecvStatus, close_socket, NoEffect
<1>7. CASE SendStatus
  BY <1>0, <1>7, ClearedNotConnected DEF SendStatus, close_socket, NoEffect
<1>8. CASE SendBusy
  <2>1. CASE sr' = sr
    BY <1>0, <2>1
  <2>2. CASE close_socket(sn) /\ "TIMEOUT" \in ir[sn]
    <3>1. sr[sn] = "CLOSED"
      BY <2>2 DEF IInv, TypeOK, StateInv
    <3> QED
      BY <2>2, <3>1, ClearedNotConnected DEF close_socket
  <2> QED
    BY <1>8, <2>1, <2>2 DEF SendBusy, NoEffect
<1>9. CASE SendRoom
  BY <1>0, <1>9, ClearedNotConnected DEF SendRoom, close_socket, NoEffect
<1>10. CASE Listen
  BY <1>10 DEF Listen, KeepStep, IInv, TypeOK, StateInv
<1>11. CASE Disconnect
  BY <1>11 DEF Disconnect, KeepStep, IInv, TypeOK, StateInv
<1>12. CASE Undefined \/ UNCHANGED vars
  BY <1>0, <1>12 DEF Undefined, vars
<1>13. CASE \E s \in Sockets : Peer(s) \/ PeerReads(s)
  <2> PICK t \in Sockets : Peer(t) \/ PeerReads(t)
    BY <1>13
  <2>1. CASE Arrive(t) \/ PeerReads(t)
    BY <1>0, <2>1 DEF Arrive, Receive, PeerReads, Transmitted, Acknowledged
  <2>2. CASE Handshake(t) \/ Fin(t) \/ LastAck(t)
    BY <2>2 DEF Handshake, Syn, Accept, Fin, LastAck, ChipStep, KeepStep, IInv, TypeOK
  <2>3. CASE Reset(t)
    <3>1. \A s \in Sockets \ {t} : sr'[s] = sr[s]
      BY <2>3 DEF Reset, ChipStep, IInv, TypeOK
    <3> QED
      BY <2>3, <3>1 DEF KeepStep
  <2>4. CASE GiveUp(t)
    <3>1. \A s \in Sockets \ {t} : sr'[s] = sr[s]
      BY <2>4 DEF GiveUp, ChipStep, IInv, TypeOK
    <3> QED
      BY <2>4, <3>1 DEF KeepStep
  <2> QED
    BY <2>1, <2>2, <2>3, <2>4 DEF Peer
<1> QED
  BY <1>1, <1>2, <1>3, <1>4, <1>5, <1>6, <1>7, <1>8, <1>9, <1>10, <1>11, <1>12, <1>13
  DEF Next, MainLoop, sock_listen, sock_disconnect, sock_recv, sock_send

(* Neither server closes an established connection that its client has not *)
(* given up, but for one that comes in the midst of sock_listen.           *)
THEOREM ConnectionsKept == Spec => ConnectionKept
<1>1. IInv /\ [Next]_vars => [KeepStep]_vars
  BY KeepStepHolds
<1>2. Spec => [][KeepStep]_vars
  BY <1>1, Invariance, PTL DEF Spec
<1> QED
  BY <1>2, PTL DEF ConnectionKept, KeepStep

-----------------------------------------------------------------------------
(***************************************************************************)
(* From the client of the gateway to the A7.  The gateway is a user of the *)
(* channel MailboxRing implements, so what the A7 takes is what was mailed;*)
(* with the relay's own invariant every byte the client sent is accounted  *)
(* for at the other end.                                                   *)
(***************************************************************************)
Messages == [first : Nat, last : Nat]

LEMMA MailTypes ==
  ASSUME TypeOK
  PROVE  mailed \in Seq(Messages) /\ received \in Seq(Messages)
  BY DEF TypeOK, Messages

(* Only Forward and A7Take touch the mailbox.                              *)
LEMMA MailUnchanged ==
  ASSUME [Next]_vars, ~Forward, ~A7Take
  PROVE  UNCHANGED <<mailed, received>>
<1>1. CASE Status \/ OpenSocket \/ sock_listen \/ sock_disconnect
  BY <1>1 DEF Status, OpenSocket, wiz_socket, sock_listen, Listen, ListenCheck,
       close_socket, Cleared, sock_disconnect, Disconnect, AwaitClosed,
       AwaitTimeout, NoEffect
<1>2. CASE ReadSize \/ ReadSizeTorn \/ sock_recv \/ ForwardRefused \/ Overrun
  BY <1>2 DEF Overrun, ReadSize, ReadSizeTorn, Receive, sock_recv, ReadRecvSize,
       ReadRecvSizeTorn, RecvStatus, Take, ForwardRefused,
       close_socket, Cleared, NoEffect
<1>3. CASE sock_send
  BY <1>3 DEF sock_send, SendStatus, SendBusy, SendRoom, SendPut, close_socket, Cleared, NoEffect
<1>4. CASE \E s \in Sockets : Peer(s) \/ PeerReads(s)
  BY <1>4 DEF Peer, Handshake, Syn, Accept, Fin, Reset, LastAck, GiveUp, Arrive, Receive,
       ChipStep, PeerReads, Transmitted, Acknowledged
<1>5. CASE Undefined \/ UNCHANGED vars
  BY <1>5 DEF Undefined, vars
<1> QED
  BY <1>1, <1>2, <1>3, <1>4, <1>5 DEF Next, MainLoop

LEMMA ForwardEnqueues ==
  ASSUME IInv, Forward
  PROVE  Mailbox!Enqueue
<1>1. InHand \in Messages
  BY DEF IInv, TypeOK, HandInv, Forward, InHand, Messages
<1>2. mailed \in Seq(Messages) /\ mailed' = Append(mailed, InHand)
  BY MailTypes DEF IInv, Forward
<1>3. Len(mailed') = Len(mailed) + 1 /\ mailed'[Len(mailed')] = InHand
  <2> HIDE DEF InHand
  <2> QED
    BY <1>1, <1>2
<1> QED
  BY <1>2, <1>3 DEF Forward, Mailbox!Enqueue

LEMMA MailboxStep == IInv /\ [Next]_vars => [Mailbox!Next]_Mailbox!chanVars
<1> SUFFICES ASSUME IInv, [Next]_vars
             PROVE  Mailbox!Next \/ UNCHANGED Mailbox!chanVars
  OBVIOUS
<1>1. CASE Forward
  BY <1>1, ForwardEnqueues DEF Mailbox!Next
<1>2. CASE A7Take
  BY <1>2 DEF A7Take, Mailbox!Next
<1>3. CASE ~Forward /\ ~A7Take
  BY <1>3, MailUnchanged DEF Mailbox!chanVars
<1> QED
  BY <1>1, <1>2, <1>3

(* Whatever the program and the chip do, the gateway's end of the mailbox  *)
(* behaves as a user of the channel: it adds whole messages, into free     *)
(* space only, and never touches one it has sent - as long as no overrun   *)
(* of mbox_send_buf has spoiled other memory.                              *)
THEOREM RelayUsesChannel == Spec => Mailbox!Spec
<1>1. Init => Mailbox!Init
  BY DEF Init, Mailbox!Init
<1> QED
  BY <1>1, MailboxStep, Invariance, PTL DEF Spec, Mailbox!Spec

(* What the A7 has is the front part of what it was sent.                  *)
Delivered ==
  Len(received) =< Len(mailed) /\ \A i \in DOMAIN received : received[i] = mailed[i]

LEMMA DeliveredKept == IInv /\ Delivered /\ [Next]_vars => Delivered'
<1> SUFFICES ASSUME IInv, Delivered, [Next]_vars PROVE Delivered'
  OBVIOUS
<1>1. mailed \in Seq(Messages) /\ received \in Seq(Messages)
  BY MailTypes DEF IInv
<1>2. CASE Forward
  <2>1. InHand \in Messages
    BY <1>2 DEF IInv, TypeOK, HandInv, Forward, InHand, Messages
  <2>2. mailed' = Append(mailed, InHand) /\ received' = received
    BY <1>2 DEF Forward
  <2> HIDE DEF InHand
  <2> QED
    BY <1>1, <2>1, <2>2 DEF Delivered
<1>3. CASE A7Take
  <2>1. /\ Len(received) < Len(mailed) /\ mailed' = mailed
        /\ received' = Append(received, mailed[Len(received) + 1])
    BY <1>3 DEF A7Take, Mailbox!Dequeue
  <2>2. mailed[Len(received) + 1] \in Messages
    BY <1>1, <2>1
  <2> QED
    BY <1>1, <2>1, <2>2 DEF Delivered
<1>4. CASE ~Forward /\ ~A7Take
  BY <1>4, MailUnchanged DEF Delivered
<1> QED
  BY <1>2, <1>3, <1>4

(* The messages that hold byte b of the client's.                          *)
Holders(b) == {i \in DOMAIN received : b \in received[i].first .. received[i].last}

LastReceived == IF received = <<>> THEN 0 ELSE received[Len(received)].last

(* The A7 never gets a byte twice.  Undisturbed - the ring was never full  *)
(* when a message came, no connection ended with bytes unread, and nothing *)
(* came of an overrun of mbox_send_buf - it gets each one up to the last   *)
(* it has, and when it has emptied the mailbox that is all the gateway     *)
(* took out of the socket.                                                 *)
EachByteOnce ==
  /\ \A b \in Nat : \A i, j \in Holders(b) : i = j
  /\ ~disturbed => \A b \in 1 .. LastReceived : Holders(b) # {}
  /\ ~disturbed /\ Len(received) = Len(mailed) /\ pc # "forward"
       => LastReceived = taken[Gateway]

(* The messages follow each other without a gap: the first that reaches as *)
(* far as byte b begins no later than b.                                   *)
LEMMA ByteHeld ==
  ASSUME IInv, Delivered, ~disturbed, NEW b \in 1 .. LastReceived
  PROVE  Holders(b) # {}
<1>1. mailed \in Seq(Messages) /\ received \in Seq(Messages)
  BY MailTypes DEF IInv
<1>2. \A i \in DOMAIN received : i \in Nat /\ received[i].first \in Nat /\ received[i].last \in Nat
  <2>1. \A i \in DOMAIN received : i \in Nat /\ received[i] \in Messages
    BY <1>1
  <2> QED
    BY <2>1 DEF Messages
<1> DEFINE n == Len(received)
           S == {i \in 1 .. n : b =< received[i].last}
           R == OpToRel(<, Nat)
<1>3. n \in Nat /\ n # 0 /\ DOMAIN received = 1 .. n /\ n \in 1 .. n
      /\ LastReceived = received[n].last
  <2>1. n \in Nat /\ DOMAIN received = 1 .. n
    BY <1>1
  <2>2. received # <<>>
    BY DEF LastReceived
  <2>3. n # 0
    BY <1>1, <2>2
  <2> QED
    BY <2>1, <2>2, <2>3 DEF LastReceived
<1>4. n \in S /\ S \in SUBSET Nat /\ b \in Nat
  BY <1>2, <1>3
<1>5. IsWellFoundedOn(R, Nat)
  BY NatLessThanWellFounded
<1>6. \A x, y \in Nat : y < x => <<y, x>> \in R
  BY DEF OpToRel
<1> HIDE DEF R
<1>7. PICK i \in S : \A j \in S : ~(<<j, i>> \in R)
  BY <1>4, <1>5, WFMin
<1>8. i \in 1 .. n /\ b =< received[i].last /\ received[i] = mailed[i] /\ i \in DOMAIN mailed
  BY <1>1, <1>3, <1>7 DEF Delivered
<1>9. received[i].first =< b
  <2>1. CASE i = 1
    <3>1. mailed # <<>>
      BY <1>1, <1>8
    <3>2. mailed[1].first = 1
      BY <3>1 DEF IInv, NothingLostUndisturbed
    <3> QED
      BY <1>8, <2>1, <3>2
  <2>2. CASE i # 1
    <3>1. /\ i - 1 \in 1 .. n /\ i - 1 < i /\ i - 1 \in Nat /\ i \in Nat /\ i > 1
          /\ received[i - 1] = mailed[i - 1]
      BY <1>3, <1>8, <2>2 DEF Delivered
    <3>2. <<i - 1, i>> \in R
      BY <1>6, <3>1
    <3>3. ~(b =< received[i - 1].last)
      BY <1>7, <3>1, <3>2
    <3>4. mailed[i].first = mailed[i - 1].last + 1
      BY <1>8, <3>1 DEF IInv, NothingLostUndisturbed
    <3>5. received[i - 1].last \in Nat
      BY <1>2, <1>3, <3>1
    <3> QED
      BY <1>4, <1>8, <3>1, <3>3, <3>4, <3>5
  <2> QED
    BY <2>1, <2>2
<1>10. i \in Holders(b)
  BY <1>2, <1>3, <1>4, <1>8, <1>9 DEF Holders
<1> QED
  BY <1>10

LEMMA ByteHeldOnce ==
  ASSUME IInv, Delivered, NEW b \in Nat, NEW i \in Holders(b), NEW j \in Holders(b)
  PROVE  i = j
<1>1. mailed \in Seq(Messages) /\ received \in Seq(Messages)
  BY MailTypes DEF IInv
<1>2. ASSUME NEW k \in Holders(b)
      PROVE  /\ k \in Nat /\ k \in DOMAIN mailed
             /\ mailed[k].first \in Nat /\ mailed[k].last \in Nat
             /\ mailed[k].first =< b /\ b =< mailed[k].last
  <2>1. k \in DOMAIN received /\ received[k] = mailed[k] /\ k \in DOMAIN mailed /\ k \in Nat
    BY <1>1 DEF Holders, Delivered
  <2>2. mailed[k].first \in Nat /\ mailed[k].last \in Nat
    BY <2>1, MailedTypes DEF IInv
  <2> QED
    BY <2>1, <2>2 DEF Holders
<1>3. ASSUME NEW k \in Holders(b), NEW l \in Holders(b), k < l PROVE FALSE
  <2>1. mailed[k].last < mailed[l].first
    BY <1>2, <1>3 DEF IInv, OrderInv, RelayInOrder
  <2> QED
    BY <1>2, <2>1
<1>4. ~(i < j) /\ ~(j < i)
  BY <1>3
<1> QED
  BY <1>2, <1>4

(* From the gateway's socket through the ring to the A7, in pieces of any  *)
(* size: no byte twice, and undisturbed none left out.                     *)
THEOREM EachByteDelivered == Spec => [](Delivered /\ EachByteOnce)
<1>1. Init => Delivered
  BY DEF Init, Delivered
<1>2. IInv /\ Delivered => EachByteOnce
  <2> SUFFICES ASSUME IInv, Delivered PROVE EachByteOnce
    OBVIOUS
  <2>1. ASSUME ~disturbed, Len(received) = Len(mailed), pc # "forward"
        PROVE  LastReceived = taken[Gateway]
    <3>1. mailed \in Seq(Messages) /\ received \in Seq(Messages)
      BY MailTypes DEF IInv
    <3>2. taken[Gateway] = LastMailed
      BY <2>1 DEF IInv, NothingLostUndisturbed
    <3>3. CASE Len(mailed) = 0
      BY <2>1, <3>1, <3>2, <3>3 DEF LastReceived, LastMailed
    <3>4. CASE Len(mailed) # 0
      <4>1. mailed # <<>> /\ received # <<>> /\ Len(received) \in DOMAIN received
        BY <2>1, <3>1, <3>4
      <4> QED
        BY <2>1, <3>2, <4>1 DEF LastReceived, LastMailed, Delivered
    <3> QED
      BY <3>3, <3>4
  <2> QED
    BY <2>1, ByteHeld, ByteHeldOnce DEF EachByteOnce
<1> QED
  BY <1>1, <1>2, DeliveredKept, Invariance, PTL DEF Spec

-----------------------------------------------------------------------------
(***************************************************************************)
(* What the main loop waits for.  One thread serves both sockets, so every *)
(* loop inside a server keeps the other one waiting, too.  StepsToGo       *)
(* counts what is left of a server's call: a size register that reads as 0 *)
(* although bytes are there is read again, which costs the peer a byte of  *)
(* the receive buffer's room.                                              *)
(***************************************************************************)
RoomLeft == BufSize - Unread(sn)

Place ==
  CASE pc = "status"   -> 12
    [] pc = "size"     -> 11
    [] pc = "rsr"      -> 10
    [] pc = "sr"       -> IF recvsize = 0 THEN 13 ELSE 9
    [] pc = "take"     -> 8
    [] pc = "send"     -> IF sr[sn] \in Open THEN 7 ELSE 3
    [] pc = "sendok"   -> IF sr[sn] \in Open THEN 6 ELSE 4
    [] pc = "room"     -> 2
    [] pc = "forward"  -> 1
    [] pc = "discon"   -> 5
    [] pc = "closed?"  -> IF sr[sn] = "LAST_ACK" THEN 4 ELSE 1
    [] pc = "timeout?" -> IF sr[sn] = "LAST_ACK" THEN 3 ELSE 2
    [] pc = "listen"   -> 1
    [] OTHER           -> 0

Asking == pc \in {"status", "size", "rsr", "sr"}

StepsToGo == IF Asking THEN Place + 4 * RoomLeft ELSE Place

(* What chip and peer have still to do: answer a FIN, carry out a SEND, or *)
(* free the transmit buffer.                                               *)
ChipOwes ==
  \/ pc = "timeout?" /\ sr[sn] = "LAST_ACK"
  \/ pc = "sendok" /\ sr[sn] \in Open /\ sn \in unsent
  \/ pc = "room" /\ sr[sn] \in Open /\ tx[sn] > 0

(* In the course of a server's call each step of the program leaves fewer  *)
(* to its end, and none of the chip's, the peers' or the A7's adds any.    *)
CallStep ==
  sn' = sn =>
    IF MainLoop THEN StepsToGo' < StepsToGo \/ ChipOwes ELSE StepsToGo' =< StepsToGo

OnlyWaitsForChip == [](StepsToGo \in Nat) /\ [][CallStep]_vars

(* The completion of a SEND is not missed: while sock_is_sending says that *)
(* one is to come, the chip is at work on it or SENDOK is there to be read.*)
CompletionToCome ==
  \A s \in sock_is_sending : sr[s] \in Open => s \in unsent \/ "SENDOK" \in ir[s]

(* What that needs: a socket opened anew is not sending.                   *)
SendingInv ==
  /\ CompletionToCome
  /\ \A s \in sock_is_sending : sr[s] \notin {"INIT", "LISTEN", "SYNRECV"}
  /\ pc = "sendok" => sn \in sock_is_sending

LEMMA ClearedSending ==
  ASSUME IInv, SendingInv, NEW st, Cleared(sn, st), pc' # "sendok"
  PROVE  SendingInv'
<1>1. \A s \in sock_is_sending' : s # sn /\ s \in sock_is_sending
  BY DEF Cleared
<1>2. \A s \in Sockets \ {sn} : sr'[s] = sr[s] /\ ir'[s] = ir[s] /\ (s \in unsent => s \in unsent')
  BY DEF Cleared, IInv, TypeOK
<1>3. sock_is_sending \subseteq Sockets
  BY DEF IInv, TypeOK
<1> QED
  BY <1>1, <1>2, <1>3 DEF SendingInv, CompletionToCome

LEMMA ChipSending ==
  ASSUME IInv, SendingInv, NEW s \in Sockets, Peer(s) \/ PeerReads(s)
  PROVE  SendingInv'
<1> USE DEF IInv, TypeOK, SendingInv, CompletionToCome
<1>1. CASE Handshake(s) \/ Fin(s) \/ Reset(s) \/ LastAck(s)
  BY <1>1 DEF Handshake, Syn, Accept, Fin, Reset, LastAck, ChipStep
<1>2. CASE GiveUp(s)
  <2>1. \A t \in Sockets : ir[t] \subseteq ir'[t]
    BY <1>2 DEF GiveUp
  <2>2. \A t \in Sockets : sr'[t] = sr[t] \/ sr'[t] = "CLOSED"
    BY <1>2 DEF GiveUp, ChipStep
  <2> QED
    BY <1>2, <2>1, <2>2 DEF GiveUp, ChipStep
<1>3. CASE Arrive(s) \/ Acknowledged(s)
  BY <1>3 DEF Arrive, Receive, Acknowledged
<1>4. CASE Transmitted(s)
  <2>1. \A t \in Sockets : ir[t] \subseteq ir'[t]
    BY <1>4 DEF Transmitted
  <2>2. "SENDOK" \in ir'[s]
    BY <1>4 DEF Transmitted
  <2> QED
    BY <1>4, <2>1, <2>2 DEF Transmitted
<1> QED
  BY <1>1, <1>2, <1>3, <1>4 DEF Peer, PeerReads

LEMMA ProgramSending ==
  ASSUME IInv, SendingInv, MainLoop
  PROVE  SendingInv'
<1>1. CASE NoEffect /\ (pc' = "sendok" => sn' = sn /\ sn \in sock_is_sending)
  BY <1>1 DEF NoEffect, SendingInv, CompletionToCome
<1>2. ASSUME NEW st, Cleared(sn, st), Return PROVE SendingInv'
  BY <1>2, ClearedSending DEF Return
<1>3. CASE Status \/ ReadSize \/ ReadRecvSize \/ AwaitClosed \/ SendRoom
  BY <1>1, <1>2, <1>3 DEF Status, ReadSize, ReadRecvSize, AwaitClosed, SendRoom, Return,
                          close_socket
<1>4. CASE OpenSocket \/ ListenCheck \/ AwaitTimeout \/ RecvStatus \/ SendStatus
  BY <1>1, <1>2, <1>4 DEF OpenSocket, ListenCheck, AwaitTimeout, RecvStatus, SendStatus,
                          wiz_socket, close_socket, Return
<1>5. CASE ReadSizeTorn \/ ReadRecvSizeTorn \/ Take \/ Forward \/ ForwardRefused \/ Overrun
  BY <1>5 DEF Overrun, ReadSizeTorn, ReadRecvSizeTorn, Receive, Take, Forward, ForwardRefused,
              Return, SendingInv, CompletionToCome
<1>6. CASE Listen
  <2>1. sn \notin sock_is_sending
    BY <1>6 DEF Listen, IInv, StateInv, SendingInv
  <2>2. \A s \in Sockets \ {sn} : sr'[s] = sr[s]
    BY <1>6 DEF Listen, IInv, TypeOK
  <2> QED
    BY <1>6, <2>1, <2>2 DEF Listen, SendingInv, CompletionToCome, IInv, TypeOK
<1>7. CASE Disconnect
  <2>1. \A s \in Sockets \ {sn} : sr'[s] = sr[s]
    BY <1>7 DEF Disconnect, IInv, TypeOK
  <2> QED
    BY <1>7, <2>1 DEF Disconnect, SendingInv, CompletionToCome, IInv, TypeOK
<1>8. CASE SendBusy
  <2>1. CASE "SENDOK" \in ir[sn]
    <3>1. \A s \in Sockets \ {sn} : ir'[s] = ir[s]
      BY <1>8, <2>1 DEF SendBusy, IInv, TypeOK
    <3> QED
      BY <1>8, <2>1, <3>1 DEF SendBusy, SendingInv, CompletionToCome, IInv, TypeOK
  <2>2. CASE "SENDOK" \notin ir[sn]
    BY <1>1, <1>2, <1>8, <2>2 DEF SendBusy, close_socket
  <2> QED
    BY <2>1, <2>2
<1>9. CASE SendPut
  <2>1. sr[sn] \in Open \union {"CLOSED"}
    BY <1>9 DEF SendPut, IInv, StateInv
  <2> QED
    BY <1>9, <2>1 DEF SendPut, Return, SendingInv, CompletionToCome, IInv, TypeOK
<1> QED
  BY <1>3, <1>4, <1>5, <1>6, <1>7, <1>8, <1>9
  DEF MainLoop, sock_listen, sock_disconnect, sock_recv, sock_send

LEMMA SendingInvariance == Spec => []SendingInv
<1>1. Init => SendingInv
  BY DEF Init, SendingInv, CompletionToCome
<1>2. IInv /\ SendingInv /\ [Next]_vars => SendingInv'
  <2>1. IInv /\ SendingInv /\ A7Take => SendingInv'
    BY DEF A7Take, SendingInv, CompletionToCome
  <2>2. SendingInv /\ (Undefined \/ UNCHANGED vars) => SendingInv'
    BY DEF Undefined, vars, SendingInv, CompletionToCome
  <2> QED
    BY <2>1, <2>2, ChipSending, ProgramSending DEF Next
<1> QED
  BY <1>1, <1>2, Invariance, PTL DEF Spec

(* sock_send, which waits for SENDOK before it gives the next SEND, never  *)
(* waits for one that was cleared before it was seen.                      *)
THEOREM SendCompletes == Spec => []CompletionToCome
<1>1. SendingInv => CompletionToCome
  BY DEF SendingInv
<1> QED
  BY <1>1, SendingInvariance, PTL

LEMMA StepsToGoType == IInv => StepsToGo \in Nat
<1> SUFFICES ASSUME IInv PROVE StepsToGo \in Nat
  OBVIOUS
<1>1. RoomLeft \in Nat
  <2>1. sn \in Sockets /\ BufSize \in Nat
    BY DEF IInv, TypeOK
  <2>2. arrived[sn] - taken[sn] \in 0 .. BufSize
    BY <2>1, UnreadType DEF IInv
  <2> QED
    BY <2>1, <2>2 DEF RoomLeft
<1>2. Place \in Nat
  BY DEF Place
<1> QED
  BY <1>1, <1>2 DEF StepsToGo

LEMMA OthersAddNothing ==
  ASSUME IInv, A7Take \/ (\E s \in Sockets : Peer(s) \/ PeerReads(s))
  PROVE  StepsToGo' =< StepsToGo
<1> USE DEF IInv, TypeOK, RoomLeft
<1>1. CASE A7Take \/ \E s \in Sockets : PeerReads(s)
  <2>1. StepsToGo' = StepsToGo
    BY <1>1 DEF A7Take, PeerReads, Transmitted, Acknowledged, StepsToGo, Place, Asking
  <2> QED
    BY <2>1, StepsToGoType
<1>2. ASSUME NEW s \in Sockets, Arrive(s) PROVE StepsToGo' =< StepsToGo
  <2>1. Unread(sn)' = Unread(sn) \/ Unread(sn)' = Unread(sn) + 1
    BY <1>2 DEF Arrive, Receive
  <2>2. Unread(sn) \in Int /\ UNCHANGED <<sr, sn, pc, recvsize>>
    BY <1>2 DEF Arrive, Receive
  <2>3. RoomLeft' = RoomLeft \/ RoomLeft' = RoomLeft - 1
    BY <2>1, <2>2
  <2>4. RoomLeft \in Int
    BY <2>2
  <2> HIDE DEF RoomLeft
  <2>5. Place' = Place /\ Place \in Int /\ Asking' = Asking
    BY <2>2 DEF Place, Asking
  <2>6. CASE RoomLeft' = RoomLeft \/ ~Asking
    <3>1. StepsToGo' = StepsToGo
      BY <2>5, <2>6 DEF StepsToGo
    <3> QED
      BY <3>1, StepsToGoType
  <2>7. CASE RoomLeft' = RoomLeft - 1 /\ Asking
    <3>1. StepsToGo' = StepsToGo - 4
      BY <2>4, <2>5, <2>7 DEF StepsToGo
    <3> QED
      BY <3>1, StepsToGoType
  <2> QED
    BY <2>3, <2>6, <2>7
<1>3. ASSUME NEW s \in Sockets, Peer(s), ~Arrive(s) PROVE StepsToGo' =< StepsToGo
  <2>1. UNCHANGED <<arrived, taken, sn, pc, recvsize>>
    BY <1>3 DEF Peer, Handshake, Syn, Accept, Fin, Reset, LastAck, GiveUp, ChipStep
  <2>2. RoomLeft' = RoomLeft /\ RoomLeft \in Int
    BY <2>1
  <2>3. /\ sr'[sn] = sr[sn] \/ sr[sn] # "CLOSED"
        /\ sr'[sn] \in Open => sr[sn] \in Open \union {"SYNRECV"}
        /\ sr[sn] = "LAST_ACK" => sr'[sn] \in {"LAST_ACK", "CLOSED"}
    BY <1>3 DEF Peer, Handshake, Syn, Accept, Fin, Reset, LastAck, GiveUp, ChipStep
  <2> HIDE DEF RoomLeft
  <2>4. CASE pc \in {"send", "sendok"}
    <3>1. sr[sn] \notin Open => sr'[sn] \notin Open
      BY <2>3, <2>4 DEF StateInv
    <3>2. StepsToGo = Place /\ StepsToGo' = Place'
      BY <2>1, <2>4 DEF StepsToGo, Asking
    <3>3. Place' =< Place
      BY <2>1, <2>4, <3>1 DEF Place
    <3> QED
      BY <3>2, <3>3
  <2>5. CASE pc \in {"closed?", "timeout?"}
    <3>1. sr[sn] # "LAST_ACK" => sr'[sn] # "LAST_ACK"
      BY <2>3, <2>5 DEF StateInv
    <3>2. StepsToGo = Place /\ StepsToGo' = Place'
      BY <2>1, <2>5 DEF StepsToGo, Asking
    <3>3. Place' =< Place
      BY <2>1, <2>5, <3>1 DEF Place
    <3> QED
      BY <3>2, <3>3
  <2>6. CASE pc \notin {"send", "sendok", "closed?", "timeout?"}
    <3>1. StepsToGo' = StepsToGo
      BY <2>1, <2>2, <2>6 DEF StepsToGo, Place, Asking
    <3> QED
      BY <3>1, StepsToGoType
  <2> QED
    BY <2>4, <2>5, <2>6
<1> QED
  BY <1>1, <1>2, <1>3

(* The part of a call in which Sn_RX_RSR is read: reading it as 0 in vain  *)
(* takes a byte that has come in between.                                  *)
LEMMA ReceivingGoesOn ==
  ASSUME IInv, Status \/ ReadSize \/ ReadSizeTorn \/ sock_recv, sn' = sn
  PROVE  StepsToGo' < StepsToGo
<1> USE DEF IInv, TypeOK
<1>1. RoomLeft \in Nat
  BY UnreadType DEF RoomLeft
<1>2. ~Return
  BY DEF Return
<1>3. CASE Status \/ ReadSize
  <2>1. UNCHANGED <<sn, sr, arrived, taken>> /\ RoomLeft' = RoomLeft
    BY <1>2, <1>3 DEF Status, ReadSize, NoEffect, RoomLeft
  <2>2. CASE Status
    <3>1. \/ pc' = "size" \/ pc' = "discon" \/ pc' = "listen" \/ pc' = "open"
      BY <1>2, <2>2 DEF Status
    <3>2. pc = "status" /\ Place = 12 /\ StepsToGo = 12 + 4 * RoomLeft
      BY <2>2 DEF Status, Place, Asking, StepsToGo
    <3>3. CASE pc' = "size"
      <4>1. StepsToGo' = 11 + 4 * RoomLeft
        BY <2>1, <3>3 DEF Place, Asking, StepsToGo
      <4> QED
        BY <1>1, <3>2, <4>1
    <3>4. CASE pc' \in {"discon", "listen", "open"}
      <4>1. StepsToGo' = 5 \/ StepsToGo' = 1 \/ StepsToGo' = 0
        BY <3>4 DEF Place, Asking, StepsToGo
      <4>2. 5 < StepsToGo /\ 1 < StepsToGo /\ 0 < StepsToGo
        BY <1>1, <3>2
      <4> QED
        BY <4>1, <4>2
    <3> QED
      BY <3>1, <3>3, <3>4
  <2>3. CASE ReadSize
    <3>1. pc = "size" /\ pc' = "rsr"
      BY <1>2, <2>3 DEF ReadSize
    <3>2. StepsToGo = 11 + 4 * RoomLeft
      BY <3>1 DEF StepsToGo, Place, Asking
    <3>3. StepsToGo' = 10 + 4 * RoomLeft
      BY <2>1, <3>1 DEF StepsToGo, Place, Asking
    <3> QED
      BY <1>1, <3>2, <3>3
  <2> QED
    BY <1>3, <2>2, <2>3
<1>4. CASE ReadRecvSize
  <2>1. pc = "rsr" /\ pc' = "sr" /\ recvsize' # 0
    BY <1>4 DEF ReadRecvSize, SizeInv, BufferInv
  <2>2. RoomLeft' = RoomLeft
    BY <1>4 DEF ReadRecvSize, NoEffect, RoomLeft
  <2>3. StepsToGo = 10 + 4 * RoomLeft
    BY <2>1 DEF StepsToGo, Place, Asking
  <2>4. StepsToGo' = 9 + 4 * RoomLeft
    BY <2>1, <2>2 DEF StepsToGo, Place, Asking
  <2> QED
    BY <1>1, <2>3, <2>4
<1>5. CASE ReadRecvSizeTorn
  <2>1. pc = "rsr" /\ pc' = "sr" /\ recvsize' = 0
    BY <1>5 DEF ReadRecvSizeTorn
  <2>2. RoomLeft' = RoomLeft - 1
    BY <1>5 DEF ReadRecvSizeTorn, Receive, RoomLeft
  <2>3. StepsToGo = 10 + 4 * RoomLeft
    BY <2>1 DEF Place, Asking, StepsToGo
  <2>4. StepsToGo' = 13 + 4 * (RoomLeft - 1)
    BY <2>1, <2>2 DEF Place, Asking, StepsToGo
  <2> QED
    BY <1>1, <2>3, <2>4
<1>6. CASE RecvStatus
  <2>1. /\ pc = "sr"
        /\ \/ pc' = "take" /\ recvsize # 0
           \/ pc' = "rsr" /\ recvsize = 0
    BY <1>2, <1>6 DEF RecvStatus
  <2>2. RoomLeft' = RoomLeft
    BY <1>2, <1>6 DEF RecvStatus, NoEffect, RoomLeft
  <2>3. CASE pc' = "take" /\ recvsize # 0
    <3>1. StepsToGo = 9 + 4 * RoomLeft /\ StepsToGo' = 8
      BY <2>1, <2>3 DEF Place, Asking, StepsToGo
    <3> QED
      BY <1>1, <3>1
  <2>4. CASE pc' = "rsr" /\ recvsize = 0
    <3>1. StepsToGo = 13 + 4 * RoomLeft
      BY <2>1, <2>4 DEF Place, Asking, StepsToGo
    <3>2. StepsToGo' = 10 + 4 * RoomLeft
      BY <2>2, <2>4 DEF Place, Asking, StepsToGo
    <3> QED
      BY <1>1, <3>1, <3>2
  <2> QED
    BY <2>1, <2>3, <2>4
<1>7. CASE Take
  <2>1. pc = "take" /\ pc' \in {"forward", "send"}
    BY <1>7 DEF Take
  <2> QED
    BY <2>1 DEF StepsToGo, Place, Asking
<1>8. ~ReadSizeTorn
  BY <1>2 DEF ReadSizeTorn
<1> QED
  BY <1>3, <1>4, <1>5, <1>6, <1>7, <1>8 DEF sock_recv

(* sock_send asks for SENDOK and for room as long as the chip owes them.   *)
LEMMA SendingGoesOn ==
  ASSUME IInv, SendingInv, sock_send, sn' = sn
  PROVE  StepsToGo' < StepsToGo \/ ChipOwes
<1> USE DEF IInv, TypeOK
<1>1. ~Return
  BY DEF Return
<1>2. CASE SendStatus
  <2>1. pc = "send" /\ sr[sn] \in Open /\ sr' = sr /\ pc' \in {"sendok", "room"}
    BY <1>1, <1>2 DEF SendStatus, NoEffect
  <2>2. StepsToGo = 7 /\ StepsToGo' \in {2, 6}
    BY <2>1 DEF StepsToGo, Place, Asking
  <2> QED
    BY <2>2
<1>3. CASE SendBusy
  <2>1. /\ pc = "sendok" /\ sr' = sr
        /\ \/ pc' = "room"
           \/ pc' = "send" /\ "SENDOK" \notin ir[sn]
    BY <1>1, <1>3 DEF SendBusy, NoEffect
  <2>2. CASE pc' = "room"
    BY <2>1, <2>2 DEF StepsToGo, Place, Asking
  <2>3. CASE pc' = "send" /\ sr[sn] \in Open
    BY <2>1, <2>3 DEF ChipOwes, SendingInv, CompletionToCome
  <2>4. CASE pc' = "send" /\ sr[sn] \notin Open
    BY <2>1, <2>4 DEF StepsToGo, Place, Asking
  <2> QED
    BY <2>1, <2>2, <2>3, <2>4
<1>4. CASE SendRoom
  <2>1. /\ pc = "room" /\ sr[sn] \in Open
        /\ pc' = "put" \/ (pc' = "room" /\ tx[sn] + size > BufSize)
    BY <1>1, <1>4 DEF SendRoom
  <2>2. CASE pc' = "put"
    BY <2>1, <2>2 DEF StepsToGo, Place, Asking
  <2>3. CASE tx[sn] + size > BufSize
    BY <2>1, <2>3 DEF ChipOwes
  <2> QED
    BY <2>1, <2>2, <2>3
<1>5. ~SendPut
  BY <1>1 DEF SendPut
<1> QED
  BY <1>2, <1>3, <1>4, <1>5 DEF sock_send

(* The rest of a call; sock_disconnect asks for the end of a connection as *)
(* long as the FIN is not answered.                                        *)
LEMMA RestGoesOn ==
  ASSUME IInv, sn' = sn,
         OpenSocket \/ sock_listen \/ sock_disconnect \/ Forward \/ ForwardRefused \/ Overrun
  PROVE  StepsToGo' < StepsToGo \/ ChipOwes
<1> USE DEF IInv, TypeOK
<1>1. ~Return
  BY DEF Return
<1>2. ~(OpenSocket \/ ListenCheck \/ Forward \/ ForwardRefused)
  BY <1>1 DEF OpenSocket, ListenCheck, Forward, ForwardRefused
<1>3. CASE Listen
  BY <1>3 DEF Listen, StepsToGo, Place, Asking
<1>4. CASE Disconnect
  <2>1. pc = "discon" /\ pc' = "closed?"
    BY <1>4 DEF Disconnect
  <2> QED
    BY <2>1 DEF StepsToGo, Place, Asking
<1>5. CASE AwaitClosed
  <2>1. pc = "closed?" /\ pc' = "timeout?" /\ sr' = sr /\ sr[sn] = "LAST_ACK"
    BY <1>1, <1>5 DEF AwaitClosed, NoEffect, StateInv
  <2> QED
    BY <2>1 DEF StepsToGo, Place, Asking
<1>6. CASE AwaitTimeout
  <2>1. pc = "timeout?" /\ pc' = "closed?" /\ sr' = sr
    BY <1>1, <1>6 DEF AwaitTimeout, NoEffect
  <2> QED
    BY <2>1 DEF StepsToGo, Place, Asking, ChipOwes
<1>7. CASE Overrun
  <2>1. pc = "forward" /\ pc' = "undefined"
    BY <1>7 DEF Overrun
  <2> QED
    BY <2>1 DEF StepsToGo, Place, Asking
<1> QED
  BY <1>2, <1>3, <1>4, <1>5, <1>6, <1>7 DEF sock_listen, sock_disconnect

(* A server keeps the other one and the mailbox waiting only for a client  *)
(* that has closed and is to acknowledge, or that does not read its echo.  *)
THEOREM MainLoopOnlyWaitsForChip == Spec => OnlyWaitsForChip
<1>1. IInv /\ SendingInv /\ [Next]_vars => [CallStep]_vars
  <2> SUFFICES ASSUME IInv, SendingInv, Next, sn' = sn
               PROVE  IF MainLoop THEN StepsToGo' < StepsToGo \/ ChipOwes
                                  ELSE StepsToGo' =< StepsToGo
    BY DEF CallStep
  <2>1. CASE MainLoop
    <3>1. StepsToGo' < StepsToGo \/ ChipOwes
      BY <2>1, ReceivingGoesOn, SendingGoesOn, RestGoesOn DEF MainLoop
    <3> QED
      BY <2>1, <3>1
  <2>2. CASE ~MainLoop
    <3>1. StepsToGo' =< StepsToGo
      <4>1. CASE UNCHANGED vars
        <5>1. StepsToGo' = StepsToGo
          BY <4>1 DEF vars, StepsToGo, Place, Asking, RoomLeft
        <5> QED
          BY <5>1, StepsToGoType
      <4>2. CASE ~UNCHANGED vars
        BY <2>2, <4>2, OthersAddNothing DEF Next, Undefined
      <4> QED
        BY <4>1, <4>2
    <3> QED
      BY <2>2, <3>1
  <2> QED
    BY <2>1, <2>2
<1>2. Spec => [][CallStep]_vars
  BY <1>1, Invariance, SendingInvariance, PTL DEF Spec
<1>3. Spec => [](StepsToGo \in Nat)
  BY StepsToGoType, Invariance, PTL
<1> QED
  BY <1>2, <1>3, PTL DEF OnlyWaitsForChip
=============================================================================
