------------------------------ MODULE TcpServers ------------------------------
(***************************************************************************)
(* The two TCP servers of the M4's main loop, on the sockets of a W5500:   *)
(* the gateway on socket 0, which passes what its client sends to the A7   *)
(* through the mailbox, and the loopback on socket 1, which echoes it.     *)
(*   src/Software/ASG210_RTApp_W5500_SPI_BareMetal/main.c                  *)
(*   src/Utils/WIZnet_Driver/ioLibrary_Driver/Application/loopback/loopback.c *)
(*   src/Utils/WIZnet_Driver/ioLibrary_Driver/Ethernet/socket.c            *)
(*                                                                         *)
(* The chip runs TCP by itself and changes its registers at any moment, so *)
(* every register the program reads and every command it gives is a step.  *)
(* A byte is its number in the order in which its socket received it; the  *)
(* unread part of a receive buffer is then the interval from taken + 1 to  *)
(* arrived, and what is passed on is an interval too.  The mailbox is what *)
(* MessageChannel promises.  The socket buffers and DATA_BUF_SIZE are all  *)
(* of one size, so no clipping to it takes place; mbox_send_buf, which the *)
(* gateway copies to on the way to the mailbox, is smaller.                *)
(***************************************************************************)
EXTENDS Integers, Sequences

CONSTANTS
  BufSize,      (* size of socket buffers and DATA_BUF_SIZE: 2048          *)
  PayloadMax,   (* room for payload in mbox_send_buf: 1028                 *)
  RingSize,     (* what the mailbox ring can hold, in bytes                *)
  MaxArrived    (* bound on the bytes each socket receives, a function     *)

Gateway == 0
Loopback == 1
Sockets == {Gateway, Loopback}

ASSUME BufSizeAssumption == BufSize \in Nat \ {0}
ASSUME PayloadMaxAssumption == PayloadMax \in Nat
ASSUME RingSizeAssumption == RingSize \in Nat
ASSUME MaxArrivedAssumption == MaxArrived \in [Sockets -> Nat]

VARIABLES
  (* the chip *)
  sr,              (* Sn_SR, the state of each socket                      *)
  ir,              (* Sn_IR: SENDOK and TIMEOUT                            *)
  arrived,         (* bytes each socket has received                       *)
  taken,           (* bytes that have left its receive buffer              *)
  tx,              (* bytes in its transmit buffer, not acknowledged       *)
  unsent,          (* the sockets with a SEND command under way            *)
  (* the program *)
  sn,              (* the socket the main loop is serving                  *)
  pc,              (* the next register access of that server              *)
  size,            (* the local variable: bytes to receive                 *)
  recvsize,        (* sock_recv's own reading of Sn_RX_RSR                 *)
  first,           (* the first of the size bytes in its data buffer       *)
  sock_is_sending, (* the sockets whose bit is set                         *)
  (* the mailbox to the A7 *)
  mailed, received,
  (* history *)
  echoed,          (* the last byte echoed, or received before Accept      *)
  disturbed        (* something a relay cannot make up for has happened    *)

chipVars == <<sr, ir, arrived, taken, tx, unsent>>
localVars == <<size, recvsize, first>>
progVars == <<sn, pc, localVars, sock_is_sending>>
mailVars == <<mailed, received>>
histVars == <<echoed, disturbed>>
vars == <<chipVars, progVars, mailVars, histVars>>

(* EnqueueData's size word, the component id and the four bytes reserved   *)
(* go before the payload, and a block is rounded up to 16 bytes.           *)
Header == 4 + 16 + 4
Weight(m) == 16 * ((Header + (m.last - m.first + 1) + 15) \div 16)
Mailbox == INSTANCE MessageChannel
             WITH Capacity <- RingSize, sent <- mailed

Unread(s) == arrived[s] - taken[s]        (* Sn_RX_RSR *)
Open == {"ESTABLISHED", "CLOSE_WAIT"}
Connected == Open \union {"SYNRECV", "LAST_ACK"}

Init ==
  /\ sr = [s \in Sockets |-> "CLOSED"]
  /\ ir = [s \in Sockets |-> {}]
  /\ arrived = [s \in Sockets |-> 0]
  /\ taken = [s \in Sockets |-> 0]
  /\ tx = [s \in Sockets |-> 0]
  /\ unsent = {}
  /\ sn = Loopback /\ pc = "status"
  /\ size = 0 /\ recvsize = 0 /\ first = 1
  /\ sock_is_sending = {}
  /\ mailed = <<>> /\ received = <<>>
  /\ echoed = 0 /\ disturbed = FALSE

-----------------------------------------------------------------------------
(***************************************************************************)
(* The chip and the peers at the other end.                                *)
(***************************************************************************)
ChipStep(s, from, to) ==
  /\ sr[s] \in from
  /\ sr' = [sr EXCEPT ![s] = to]
  /\ UNCHANGED <<arrived, taken, tx, unsent, progVars, mailVars>>

(* The end of a connection cannot be undone for what was not read yet.     *)
Ending(s) == disturbed' = (disturbed \/ (s = Gateway /\ Unread(s) > 0))

Syn(s) == ChipStep(s, {"LISTEN"}, "SYNRECV") /\ UNCHANGED <<ir, histVars>>

Accept(s) ==
  /\ ChipStep(s, {"SYNRECV"}, "ESTABLISHED")
  /\ echoed' = IF s = Loopback THEN arrived[s] ELSE echoed
  /\ UNCHANGED <<ir, disturbed>>

Fin(s) ==
  /\ ChipStep(s, {"ESTABLISHED"}, "CLOSE_WAIT")
  /\ Ending(s)
  /\ UNCHANGED <<ir, echoed>>

Reset(s) ==
  /\ ChipStep(s, Connected, "CLOSED")
  /\ Ending(s)
  /\ UNCHANGED <<ir, echoed>>

(* The peer acknowledges the FIN, which follows the last byte to be sent.  *)
LastAck(s) ==
  /\ tx[s] = 0
  /\ ChipStep(s, {"LAST_ACK"}, "CLOSED")
  /\ UNCHANGED <<ir, histVars>>

(* Something was sent again and again and never acknowledged.              *)
GiveUp(s) ==
  /\ sr[s] \in {"SYNRECV", "LAST_ACK"} \/ tx[s] > 0
  /\ ChipStep(s, Connected, "CLOSED")
  /\ ir' = [ir EXCEPT ![s] = @ \union {"TIMEOUT"}]
  /\ Ending(s)
  /\ UNCHANGED echoed

(* The peer's data come in.  A connection made before sock_listen has had  *)
(* its second look at Sn_SR is closed by it, with whatever it received.    *)
CanReceive(s) ==
  /\ sr[s] = "ESTABLISHED"
  /\ arrived[s] < MaxArrived[s]
  /\ Unread(s) < BufSize

Receive(s) ==
  /\ CanReceive(s)
  /\ arrived' = [arrived EXCEPT ![s] = @ + 1]
  /\ disturbed' = (disturbed \/ (s = Gateway /\ sn = s /\ pc = "check"))
  /\ UNCHANGED <<sr, ir, taken, tx, unsent, mailVars, echoed>>

Arrive(s) == Receive(s) /\ UNCHANGED progVars

(* A SEND command is carried out once the peer has room for the data, and  *)
(* the buffer is free again once they are acknowledged.                    *)
Transmitted(s) ==
  /\ s \in unsent /\ sr[s] \in Connected
  /\ unsent' = unsent \ {s}
  /\ ir' = [ir EXCEPT ![s] = @ \union {"SENDOK"}]
  /\ UNCHANGED <<sr, arrived, taken, tx, progVars, mailVars, histVars>>

Acknowledged(s) ==
  /\ s \notin unsent /\ tx[s] > 0 /\ sr[s] \in Connected
  /\ tx' = [tx EXCEPT ![s] = 0]
  /\ UNCHANGED <<sr, ir, arrived, taken, unsent, progVars, mailVars, histVars>>

(* The A7 takes a message out of the mailbox.                              *)
A7Take ==
  /\ Mailbox!Dequeue
  /\ UNCHANGED <<chipVars, progVars, histVars>>

-----------------------------------------------------------------------------
(***************************************************************************)
(* The program.                                                            *)
(***************************************************************************)
At(p) == pc = p
GoTo(p) == pc' = p /\ sn' = sn

(* The server returns, and the main loop calls the other one.              *)
Return ==
  /\ sn' = 1 - sn
  /\ pc' = "status"
  /\ size' = 0 /\ recvsize' = 0 /\ first' = 1

(* The chip after a CLOSE command, the socket having become st.            *)
Cleared(s, st) ==
  /\ sr' = [sr EXCEPT ![s] = st]
  /\ ir' = [ir EXCEPT ![s] = {}]
  /\ taken' = [taken EXCEPT ![s] = arrived[s]]
  /\ tx' = [tx EXCEPT ![s] = 0]
  /\ unsent' = unsent \ {s}
  /\ sock_is_sending' = sock_is_sending \ {s}
  /\ UNCHANGED <<arrived, mailVars, histVars>>

close_socket(s) == Cleared(s, "CLOSED")
wiz_socket(s) == Cleared(s, "INIT")

NoEffect == UNCHANGED <<chipVars, sock_is_sending, mailVars, histVars>>

(* The switch on Sn_SR at the head of both servers.                        *)
Status ==
  /\ At("status")
  /\ \/ sr[sn] = "ESTABLISHED" /\ GoTo("size") /\ UNCHANGED localVars
     \/ sr[sn] = "CLOSE_WAIT" /\ GoTo("discon") /\ UNCHANGED localVars
     \/ sr[sn] = "INIT" /\ GoTo("listen") /\ UNCHANGED localVars
     \/ sr[sn] = "CLOSED" /\ GoTo("open") /\ UNCHANGED localVars
     \/ sr[sn] \in {"LISTEN", "SYNRECV", "LAST_ACK"} /\ Return
  /\ NoEffect

OpenSocket == At("open") /\ wiz_socket(sn) /\ Return

Listen ==
  /\ At("listen")
  /\ sr' = [sr EXCEPT ![sn] = "LISTEN"]
  /\ GoTo("check")
  /\ UNCHANGED <<ir, arrived, taken, tx, unsent, localVars, sock_is_sending,
                 mailVars, histVars>>

(* Mutant: sock_listen waits for the state to become LISTEN. *)
ListenCheckWaits ==
  /\ At("check")
  /\ IF sr[sn] = "LISTEN" THEN Return ELSE UNCHANGED <<sn, pc, localVars>>
  /\ NoEffect

ListenCheck ==
  /\ At("check")
  /\ Return
  /\ IF sr[sn] = "LISTEN" THEN NoEffect ELSE close_socket(sn)

(* sock_disconnect: the command, then Sn_SR and Sn_IR in turn.             *)
(* Mutant: the command is not given. *)
DisconnectNot ==
  /\ At("discon")
  /\ sock_is_sending' = sock_is_sending \ {sn}
  /\ GoTo("closed?")
  /\ UNCHANGED <<chipVars, localVars, mailVars, histVars>>

Disconnect ==
  /\ At("discon")
  /\ sr' = [sr EXCEPT ![sn] = IF @ = "CLOSE_WAIT" THEN "LAST_ACK" ELSE @]
  /\ sock_is_sending' = sock_is_sending \ {sn}
  /\ GoTo("closed?")
  /\ UNCHANGED <<ir, arrived, taken, tx, unsent, localVars, mailVars, histVars>>

AwaitClosed ==
  /\ At("closed?")
  /\ IF sr[sn] = "CLOSED" THEN Return ELSE GoTo("timeout?") /\ UNCHANGED localVars
  /\ NoEffect

AwaitTimeout ==
  /\ At("timeout?")
  /\ IF "TIMEOUT" \in ir[sn]
     THEN Return /\ close_socket(sn)
     ELSE GoTo("closed?") /\ UNCHANGED localVars /\ NoEffect

-----------------------------------------------------------------------------
(* Sn_RX_RSR, read by both servers.                                        *)
ReadSize ==
  /\ At("size")
  /\ IF Unread(sn) > 0
     THEN GoTo("rsr") /\ size' = Unread(sn) /\ UNCHANGED <<recvsize, first>>
     ELSE Return
  /\ NoEffect

(* Sn_RX_RSR is read in two bytes: a byte that comes in between them may   *)
(* make the register look like 0, which is not read again.                 *)
ReadSizeTorn ==
  /\ At("size")
  /\ Unread(sn) > 0
  /\ Receive(sn)
  /\ Return
  /\ UNCHANGED sock_is_sending

(* sock_recv.                                                              *)
ReadRecvSize ==
  /\ At("rsr")
  /\ recvsize' = Unread(sn)
  /\ GoTo("sr")
  /\ UNCHANGED <<size, first>> /\ NoEffect

ReadRecvSizeTorn ==
  /\ At("rsr")
  /\ Unread(sn) > 0
  /\ Receive(sn)
  /\ recvsize' = 0
  /\ GoTo("sr")
  /\ UNCHANGED <<size, first, sock_is_sending>>

(* Mutant: a socket with nothing to receive is closed, connected or not. *)
RecvStatusHasty ==
  /\ At("sr")
  /\ IF sr[sn] \in Open /\ recvsize # 0
     THEN GoTo("take") /\ UNCHANGED localVars /\ NoEffect
     ELSE Return /\ close_socket(sn)

RecvStatus ==
  /\ At("sr")
  /\ \/ /\ sr[sn] \in Open /\ recvsize # 0
        /\ GoTo("take") /\ UNCHANGED localVars /\ NoEffect
     \/ /\ recvsize = 0
        /\ sr[sn] = "ESTABLISHED" \/ (sr[sn] = "CLOSE_WAIT" /\ tx[sn] > 0)
        /\ GoTo("rsr") /\ UNCHANGED localVars /\ NoEffect
     \/ /\ sr[sn] \notin Open \/ (sr[sn] = "CLOSE_WAIT" /\ recvsize = 0 /\ tx[sn] = 0)
        /\ Return /\ close_socket(sn)

(* The bytes received, and the RECV command that frees their space.        *)
Length == IF recvsize < size THEN recvsize ELSE size

(* Mutant: RECV frees all that sock_recv saw, not what it copied. *)
TakeAll ==
  /\ At("take")
  /\ first' = taken[sn] + 1
  /\ taken' = [taken EXCEPT ![sn] = @ + recvsize]
  /\ GoTo(IF sn = Gateway THEN "forward" ELSE "send")
  /\ UNCHANGED <<sr, ir, arrived, tx, unsent, size, recvsize, sock_is_sending,
                 mailVars, histVars>>

(* Mutant: the RECV command is not given. *)
TakeNoRecv ==
  /\ At("take")
  /\ first' = taken[sn] + 1
  /\ GoTo(IF sn = Gateway THEN "forward" ELSE "send")
  /\ UNCHANGED <<chipVars, size, recvsize, sock_is_sending, mailVars, histVars>>

Take ==
  /\ At("take")
  /\ first' = taken[sn] + 1
  /\ taken' = [taken EXCEPT ![sn] = @ + Length]
  /\ size' = IF sn = Gateway THEN size ELSE Length
  /\ GoTo(IF sn = Gateway THEN "forward" ELSE "send")
  /\ UNCHANGED <<sr, ir, arrived, tx, unsent, recvsize, sock_is_sending,
                 mailVars, histVars>>

(* mbox_send_data_a7, with size and not what sock_recv returned.  What     *)
(* EnqueueData refuses is gone.  More than PayloadMax bytes are copied     *)
(* past the end of mbox_send_buf: it may be that nothing comes of that and *)
(* EnqueueData reads them back from there, or that what they overwrote     *)
(* matters, and then no more is said of the program.                       *)
InHand == [first |-> first, last |-> first + size - 1]

Forward ==
  /\ At("forward")
  /\ Mailbox!Fits(InHand)
  /\ mailed' = Append(mailed, InHand) /\ UNCHANGED received
  /\ Return
  /\ UNCHANGED <<chipVars, sock_is_sending, histVars>>

ForwardRefused ==
  /\ At("forward")
  /\ ~Mailbox!Fits(InHand)
  /\ disturbed' = TRUE
  /\ Return
  /\ UNCHANGED <<chipVars, sock_is_sending, mailVars, echoed>>

Overrun ==
  /\ At("forward")
  /\ size > PayloadMax
  /\ GoTo("undefined")
  /\ disturbed' = TRUE
  /\ UNCHANGED <<chipVars, localVars, sock_is_sending, mailVars, echoed>>

Undefined == At("undefined") /\ UNCHANGED vars

-----------------------------------------------------------------------------
(* sock_send, called by the loopback until everything is sent.             *)
SendStatus ==
  /\ At("send")
  /\ IF sr[sn] \in Open
     THEN /\ GoTo(IF sn \in sock_is_sending THEN "sendok" ELSE "room")
          /\ UNCHANGED localVars /\ NoEffect
     ELSE Return /\ close_socket(sn)

(* Mutant: a busy chip is taken to have sent the data. *)
SendBusyIgnored ==
  /\ At("sendok")
  /\ IF "SENDOK" \in ir[sn]
     THEN /\ ir' = [ir EXCEPT ![sn] = @ \ {"SENDOK"}]
          /\ sock_is_sending' = sock_is_sending \ {sn}
          /\ GoTo("room")
          /\ UNCHANGED <<sr, arrived, taken, tx, unsent, localVars, mailVars, histVars>>
     ELSE Return /\ NoEffect

SendBusy ==
  /\ At("sendok")
  /\ \/ /\ "SENDOK" \in ir[sn]
        /\ ir' = [ir EXCEPT ![sn] = @ \ {"SENDOK"}]
        /\ sock_is_sending' = sock_is_sending \ {sn}
        /\ GoTo("room")
        /\ UNCHANGED <<sr, arrived, taken, tx, unsent, localVars, mailVars, histVars>>
     \/ /\ "SENDOK" \notin ir[sn] /\ "TIMEOUT" \in ir[sn]
        /\ Return /\ close_socket(sn)
     \/ /\ ir[sn] \intersect {"SENDOK", "TIMEOUT"} = {}
        /\ GoTo("send") /\ UNCHANGED localVars /\ NoEffect

(* Mutant: the free size is not compared. *)
SendRoomAny ==
  /\ At("room")
  /\ IF sr[sn] \in Open
     THEN GoTo("put") /\ UNCHANGED localVars /\ NoEffect
     ELSE Return /\ close_socket(sn)

SendRoom ==
  /\ At("room")
  /\ \/ /\ sr[sn] \notin Open
        /\ Return /\ close_socket(sn)
     \/ /\ sr[sn] \in Open /\ tx[sn] + size > BufSize
        /\ GoTo("room") /\ UNCHANGED localVars /\ NoEffect
     \/ /\ sr[sn] \in Open /\ tx[sn] + size =< BufSize
        /\ GoTo("put") /\ UNCHANGED localVars /\ NoEffect

(* The SEND command; a socket closed meanwhile ignores it.                 *)
SendPut ==
  /\ At("put")
  /\ IF sr[sn] \in Open
     THEN /\ tx' = [tx EXCEPT ![sn] = @ + size]
          /\ unsent' = unsent \union {sn}
          /\ echoed' = InHand.last
     ELSE UNCHANGED <<tx, unsent, echoed>>
  /\ sock_is_sending' = sock_is_sending \union {sn}
  /\ Return
  /\ UNCHANGED <<sr, ir, arrived, taken, mailVars, disturbed>>

-----------------------------------------------------------------------------
Handshake(s) == Syn(s) \/ Accept(s)
Peer(s) == Handshake(s) \/ Fin(s) \/ Reset(s) \/ LastAck(s) \/ GiveUp(s) \/ Arrive(s)
PeerReads(s) == Transmitted(s) \/ Acknowledged(s)

sock_disconnect == Disconnect \/ AwaitClosed \/ AwaitTimeout
sock_listen == Listen \/ ListenCheck
sock_recv == ReadRecvSize \/ ReadRecvSizeTorn \/ RecvStatus \/ Take
sock_send == SendStatus \/ SendBusy \/ SendRoom \/ SendPut
MainLoop == \/ Status \/ OpenSocket \/ sock_listen \/ sock_disconnect
            \/ ReadSize \/ ReadSizeTorn \/ sock_recv
            \/ Forward \/ ForwardRefused \/ Overrun \/ sock_send

Next == MainLoop \/ Undefined \/ A7Take \/ \E s \in Sockets : Peer(s) \/ PeerReads(s)

Spec == Init /\ [][Next]_vars

(***************************************************************************)
(* The main loop runs, and the chip finishes the closing of a connection:  *)
(* the peer's acknowledgement comes, or the time for it runs out.  Nobody  *)
(* has to connect, send, or close - nor to read what is echoed.            *)
(***************************************************************************)
FinAnswered(s) == LastAck(s) \/ (sr[s] = "LAST_ACK" /\ tx[s] = 0 /\ GiveUp(s))
ChipFair == \A s \in Sockets : WF_vars(FinAnswered(s))
FairSpec == Spec /\ WF_vars(MainLoop) /\ ChipFair

(* The same with a client of the loopback that reads what comes back.      *)
ReadingSpec == FairSpec /\ \A s \in Sockets : WF_vars(Transmitted(s)) /\ WF_vars(Acknowledged(s))

-----------------------------------------------------------------------------
(* Every variable has a value of its type. *)
TypeOK ==
  /\ sr \in [Sockets -> {"CLOSED", "INIT", "LISTEN"} \union Connected]
  /\ ir \in [Sockets -> SUBSET {"SENDOK", "TIMEOUT"}]
  /\ arrived \in [Sockets -> Nat] /\ taken \in [Sockets -> Nat]
  /\ tx \in [Sockets -> 0 .. BufSize]
  /\ unsent \subseteq Sockets /\ sock_is_sending \subseteq Sockets
  /\ sn \in Sockets
  /\ pc \in {"status", "open", "listen", "check", "discon", "closed?", "timeout?",
             "size", "rsr", "sr", "take", "forward", "send", "sendok", "room", "put",
             "undefined"}
  /\ size \in 0 .. BufSize /\ recvsize \in 0 .. BufSize
  /\ first \in Nat \ {0}
  /\ mailed \in Seq([first : Nat, last : Nat])
  /\ received \in Seq([first : Nat, last : Nat])
  /\ echoed \in Nat /\ disturbed \in BOOLEAN

(* What goes to the A7 is what the client sent, in order, each byte at     *)
(* most once and none made up: mbox_tcp_server passes on size bytes of its *)
(* buffer, and sock_recv, which reads Sn_RX_RSR anew, must have filled as  *)
(* many - across connections, resets and refusals of the ring.             *)
RelayInOrder ==
  /\ \A i \in DOMAIN mailed :
       /\ mailed[i].first =< mailed[i].last
       /\ mailed[i].last =< taken[Gateway]
  /\ \A i, j \in DOMAIN mailed : i < j => mailed[i].last < mailed[j].first

(* The last byte handed to the mailbox so far.                             *)
LastMailed == IF mailed = <<>> THEN 0 ELSE mailed[Len(mailed)].last

(* Unless the ring was full, mbox_send_buf was overrun with consequences,  *)
(* or a connection ended (or was made in the middle of sock_listen) with   *)
(* bytes unread, nothing is lost: the messages follow each other without a *)
(* gap, and what has left the receive buffer is in a message or about to   *)
(* be.                                                                     *)
NothingLostUndisturbed ==
  ~disturbed =>
    /\ mailed # <<>> => mailed[1].first = 1
    /\ \A i \in DOMAIN mailed :
         i > 1 => mailed[i].first = mailed[i - 1].last + 1
    /\ IF sn = Gateway /\ pc = "forward"
       THEN first = LastMailed + 1 /\ taken[Gateway] = first + size - 1
       ELSE taken[Gateway] = LastMailed

(* Within a connection the loopback echoes every byte, in order and once:  *)
(* each SEND starts where the last one ended, however many calls of        *)
(* sock_send found the chip busy in between.                               *)
EchoUnbroken ==
  [][echoed' # echoed /\ ~(\E s \in Sockets : Accept(s)) => first = echoed + 1]_vars

(* An established connection is closed by its peer or by the chip, never   *)
(* by the program - except the one that is made between sock_listen's      *)
(* command and its second look at Sn_SR.                                   *)
ConnectionKept ==
  [][\A s \in Sockets :
       /\ sr[s] = "ESTABLISHED"
       /\ sr'[s] \notin Open
       /\ ~(sn = s /\ pc = "check")
       => Reset(s) \/ GiveUp(s)]_vars

(* A server whose client has closed its end listens again, for the next,   *)
(* unless an overrun of mbox_send_buf got in the way.                      *)
ListensAgain ==
  \A s \in Sockets : sr[s] = "CLOSE_WAIT" ~> sr[s] = "LISTEN" \/ At("undefined")

(* The main loop comes round: both servers are called again and again, as  *)
(* LOOPBACK_MAIN_NOBLOCK (loopback.h:31) has it - or mbox_send_buf is      *)
(* overrun with consequences.                                              *)
MainLoopComesRound ==
  \A s \in Sockets : []<>(sn = s /\ pc = "status") \/ <>At("undefined")

(* What the gateway is about to copy to mbox_send_buf has room there, as   *)
(* main.c:84-89 has it, which makes the buffer for messages of at most     *)
(* 1024 bytes.                                                             *)
SendBufferHolds == At("forward") => size =< PayloadMax
=============================================================================
