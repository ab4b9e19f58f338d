----------------------------- MODULE W5500Access -----------------------------
(***************************************************************************)
(* How the program moves bytes to and from one of the W5500's buffers:     *)
(* getSn_RX_RSR, then wiz_recv_data, or getSn_TX_FSR, then wiz_send_data,  *)
(* which have the same text but for the registers and the direction and    *)
(* are one here; and the SPI transfers they are made of.                   *)
(*   src/Utils/WIZnet_Driver/ioLibrary_Driver/Ethernet/W5500/w5500.c       *)
(*   src/Software/OS_HAL/src/os_hal_spim.c                                 *)
(*                                                                         *)
(* The size register grows at any moment, between its two bytes too.  The  *)
(* M4 takes an interrupt at once.  Every transfer first resets the         *)
(* controller, which abandons one still under way.  A transfer on which    *)
(* the program does not wait any more works with a descriptor that is no   *)
(* longer there: whether it counts as completed, and whether it reaches    *)
(* the caller's buffer, is open.  A byte that was never read is anything.  *)
(* The pointer registers, which only the program changes, are read and     *)
(* written in one transfer instead of two.                                 *)
(***************************************************************************)
EXTENDS Integers

CONSTANTS
  Base,          (* a byte is one of 0 .. Base - 1: 256                    *)
  Chunk,         (* RBUF_SIZE_TEST, WBUF_SIZE_TEST: 16                     *)
  Modulus,       (* a pointer is one of 0 .. Modulus - 1: 65536            *)
  MaxLen,        (* the most the caller asks for                           *)
  MaxTimeouts    (* bound on the transfers that time out                   *)

ASSUME BaseAssumption == Base \in Nat \ {0, 1}
ASSUME ChunkAssumption == Chunk \in Nat \ {0}
ASSUME ModulusAssumption == Modulus \in Nat \ {0}
ASSUME MaxLenAssumption == MaxLen \in Nat \ {0}
ASSUME MaxTimeoutsAssumption == MaxTimeouts \in Nat

VARIABLES
  (* the W5500 *)
  size,          (* the size register                                      *)
  rd,            (* the pointer register                                   *)
  (* the SPI controller *)
  busy,          (* a transfer is under way                                *)
  current,       (* ctlr->current_xfer, and what it is to move             *)
  xfer_completion,
  (* the program *)
  pc,            (* the transfer it makes, or waits for, next              *)
  waiting,       (* in _mtk_os_hal_spim_wait_for_completion_timeout        *)
  rb,            (* the byte WIZCHIP_READ returns                          *)
  val1, val,
  ptr,
  total, len,    (* bytes asked for and still to be put into a transfer    *)
  sent_byte,
  buf,           (* for each byte asked for, the place it came from        *)
  (* history *)
  at,            (* what the size register was when val1 was complete      *)
  next,          (* where the byte after the last one moved is, as long as *)
                 (* no transfer has timed out                              *)
  timeouts

chipVars == <<size, rd>>
spiVars == <<busy, current, xfer_completion, waiting, rb>>
sizeVars == <<val1, val>>
bufVars == <<total, len, sent_byte>>
vars == <<chipVars, spiVars, sizeVars, bufVars, pc, ptr, buf, at, next, timeouts>>

Byte == 0 .. Base - 1
Pointer == 0 .. Modulus - 1
Nothing == -1

hi(x) == x \div Base
lo(x) == x % Base

Calls == {"hi1", "lo1", "hi2", "lo2", "getptr", "data", "setptr"}
BytesRead == {"hi1", "lo1", "hi2", "lo2"}

NoTransfer == [op |-> "none", addr |-> 0, from |-> 0, n |-> 0]
Transfers == [op : Calls \union {"none"}, addr : Pointer, from : Nat, n : 0 .. Chunk]

Init ==
  /\ size = 0
  /\ rd \in Pointer /\ next = rd
  /\ busy = FALSE /\ current = NoTransfer /\ xfer_completion = 0
  /\ pc = "idle" /\ waiting = FALSE /\ rb = 0
  /\ val1 = 0 /\ val = 0 /\ at = 0
  /\ ptr = 0 /\ total = 0 /\ len = 0 /\ sent_byte = 0
  /\ buf = [i \in 1 .. MaxLen |-> Nothing]
  /\ timeouts = 0

-----------------------------------------------------------------------------
(* The chip receives bytes, or frees room.                                 *)
Grow ==
  /\ \E n \in 1 .. (Base * Base - 1) : n > size /\ size' = n
  /\ UNCHANGED <<rd, spiVars, sizeVars, bufVars, pc, ptr, buf, at, next, timeouts>>

(* The driver is called, with its local variables at zero.                 *)
Call ==
  /\ pc = "idle"
  /\ pc' = "hi1"
  /\ UNCHANGED <<chipVars, spiVars, sizeVars, bufVars, ptr, buf, at, next, timeouts>>

(* It returns, and its variables are gone.                                 *)
Forget ==
  /\ val' = 0 /\ val1' = 0 /\ at' = 0
  /\ total' = 0 /\ len' = 0 /\ sent_byte' = 0

-----------------------------------------------------------------------------
(***************************************************************************)
(* mtk_os_hal_spim_transfer.                                               *)
(***************************************************************************)
Piece == IF len >= Chunk THEN Chunk ELSE len

Start ==
  /\ pc \in Calls /\ ~waiting
  /\ waiting' = TRUE
  /\ busy' = TRUE
  /\ \/ /\ pc = "data"
        /\ current' = [op |-> pc, addr |-> (ptr + sent_byte) % Modulus,
                       from |-> sent_byte, n |-> Piece]
        /\ len' = len - Piece
     \/ /\ pc # "data"
        /\ current' = [op |-> pc, from |-> 0, n |-> 1,
                       addr |-> IF pc = "setptr" THEN (ptr + total) % Modulus ELSE 0]
        /\ UNCHANGED len
  /\ UNCHANGED <<chipVars, xfer_completion, rb, sizeVars, total, sent_byte, pc, ptr, buf,
                 at, next, timeouts>>

(* What a transfer moves, when it is through.                              *)
Filled ==
  [i \in 1 .. MaxLen |->
     IF i > current.from /\ i =< current.from + current.n
     THEN (current.addr + i - 1 - current.from) % Modulus
     ELSE buf[i]]

ByteMoved ==
  \/ current.op \in {"hi1", "hi2"} /\ rb' = hi(size)
  \/ current.op \in {"lo1", "lo2"} /\ rb' = lo(size)
  \/ current.op \notin BytesRead /\ UNCHANGED rb

PointerMoved ==
  /\ rd' = IF current.op = "setptr" THEN current.addr ELSE rd
  /\ ptr' = IF current.op = "getptr" THEN rd ELSE ptr

DataMoved == buf' = IF current.op = "data" THEN Filled ELSE buf

(* _mtk_os_hal_spim_irq_handler.                                           *)
Interrupt ==
  /\ busy /\ waiting
  /\ busy' = FALSE
  /\ xfer_completion' = xfer_completion + 1
  /\ ByteMoved /\ PointerMoved /\ DataMoved
  /\ at' = IF current.op = "lo1" THEN size ELSE at
  /\ current' = NoTransfer
  /\ UNCHANGED <<size, waiting, sizeVars, bufVars, pc, next, timeouts>>

LateInterrupt ==
  /\ busy /\ ~waiting
  /\ busy' = FALSE
  /\ xfer_completion' \in {xfer_completion, xfer_completion + 1}
  /\ rd' = IF current.op = "setptr" THEN current.addr ELSE rd
  /\ buf' \in {buf, IF current.op = "data" THEN Filled ELSE buf}
  /\ current' = NoTransfer
  /\ UNCHANGED <<size, waiting, rb, sizeVars, bufVars, pc, ptr, at, next, timeouts>>

-----------------------------------------------------------------------------
(***************************************************************************)
(* What the driver does with what a transfer returned.                     *)
(***************************************************************************)
(* Mutant: the loop ends after one reading.                                *)
SameAny(v) == TRUE
Same(v) == v = val1

(* The condition of the loop, with v in val; a size of zero ends the call. *)
TestSizes(v) ==
  /\ val' = v
  /\ UNCHANGED <<val1, at>>
  /\ \/ /\ Same(v)
        /\ pc' = "getptr"
        /\ \E n \in 1 .. MaxLen : n =< v /\ total' = n /\ len' = n
        /\ sent_byte' = 0
     \/ ~Same(v) /\ pc' = "hi1" /\ UNCHANGED bufVars

(* Mutant: zero is read again until it is something else.                  *)
ZeroStandsNot == FALSE
ZeroStands == val = 0

GotByte(b) ==
  \/ /\ pc = "hi1" /\ pc' = "lo1"
     /\ val1' = b * Base
     /\ UNCHANGED <<val, bufVars, at>>
  \/ /\ pc = "lo1" /\ val1 + b # 0
     /\ pc' = "hi2"
     /\ val1' = val1 + b
     /\ UNCHANGED <<val, bufVars, at>>
  \/ /\ pc = "lo1" /\ val1 + b = 0 /\ ZeroStands
     /\ pc' = "idle"
     /\ Forget
  \/ /\ pc = "lo1" /\ val1 + b = 0 /\ ~ZeroStands
     /\ pc' = "hi1"
     /\ val1' = 0
     /\ UNCHANGED <<val, bufVars, at>>
  \/ /\ pc = "hi2" /\ pc' = "lo2"
     /\ val' = b * Base
     /\ UNCHANGED <<val1, bufVars, at>>
  \/ /\ pc = "lo2"
     /\ TestSizes(val + b)

(* Mutant: the completion is not taken.                                    *)
TakeCompletionNot == UNCHANGED xfer_completion
TakeCompletion == xfer_completion' = xfer_completion - 1

(* Mutant: sent_byte goes on by what is left.                              *)
AdvanceLeft == sent_byte' = sent_byte + len
Advance == sent_byte' = sent_byte + Chunk

(* With the transfer still under way, what it was to read has never been   *)
(* written: rb and ptr are whatever the stack holds.                       *)
Complete ==
  /\ waiting /\ xfer_completion > 0
  /\ waiting' = FALSE
  /\ TakeCompletion
  /\ \/ /\ \E b \in IF busy THEN Byte ELSE {rb} : GotByte(b)
        /\ UNCHANGED ptr
     \/ /\ pc = "getptr" /\ pc' = "data"
        /\ ptr' \in IF busy THEN Pointer ELSE {ptr}
        /\ UNCHANGED <<sizeVars, bufVars, at>>
     \/ /\ pc = "data"
        /\ pc' = IF len = 0 THEN "setptr" ELSE "data"
        /\ Advance
        /\ UNCHANGED <<sizeVars, total, len, ptr, at>>
     \/ /\ pc = "setptr" /\ pc' = "command"
        /\ UNCHANGED <<sizeVars, bufVars, ptr, at>>
  /\ rb' = 0
  /\ UNCHANGED <<chipVars, busy, current, buf, next, timeouts>>

(* A transfer that failed reads as ones, and ends a copy for good; but the *)
(* caller learns nothing, and moves the pointer all the same.              *)
Timeout ==
  /\ waiting /\ xfer_completion = 0
  /\ timeouts < MaxTimeouts
  /\ timeouts' = timeouts + 1
  /\ waiting' = FALSE
  /\ \/ GotByte(Base - 1) /\ UNCHANGED ptr
     \/ /\ pc = "getptr" /\ pc' = "data"
        /\ ptr' = Modulus - 1
        /\ UNCHANGED <<sizeVars, bufVars, at>>
     \/ /\ pc = "data" /\ pc' = "setptr"
        /\ UNCHANGED <<sizeVars, bufVars, ptr, at>>
     \/ /\ pc = "setptr" /\ pc' = "command"
        /\ UNCHANGED <<sizeVars, bufVars, ptr, at>>
  /\ next' = 0
  /\ UNCHANGED <<chipVars, busy, current, xfer_completion, rb, buf>>

(* The caller's RECV or SEND, which makes the chip take the new pointer.   *)
Command ==
  /\ pc = "command"
  /\ pc' = "idle"
  /\ IF total =< size THEN size' = size - total ELSE size' \in 0 .. (Base * Base - 1)
  /\ next' = IF timeouts = 0 THEN (next + total) % Modulus ELSE next
  /\ buf' = [i \in 1 .. MaxLen |-> Nothing] /\ ptr' = 0
  /\ Forget
  /\ UNCHANGED <<rd, spiVars, timeouts>>

-----------------------------------------------------------------------------
Driver == Start \/ Complete \/ Command

Next == Grow \/ Call \/ Driver \/ Timeout \/ Interrupt \/ LateInterrupt

Spec == Init /\ [][Next]_vars

(* The program runs, and the controller gets through with a transfer.      *)
FairSpec == Spec /\ WF_vars(Driver) /\ WF_vars(Interrupt)

-----------------------------------------------------------------------------
(* Every variable has its type; and the completions counted and to come    *)
(* never exceed the transfer waited for and those that timed out: the u8   *)
(* does not run away, and without a timeout none is ever left over for the *)
(* next transfer to take for its own.                                      *)
TypeOK ==
  /\ size \in 0 .. (Base * Base - 1) /\ rd \in Pointer
  /\ busy \in BOOLEAN /\ current \in Transfers
  /\ pc \in Calls \union {"idle", "command"} /\ waiting \in BOOLEAN
  /\ rb \in Byte /\ val1 \in Nat /\ val \in Nat
  /\ ptr \in Pointer
  /\ total \in 0 .. MaxLen /\ len \in 0 .. MaxLen /\ sent_byte \in Nat
  /\ buf \in [1 .. MaxLen -> Pointer \union {Nothing}]
  /\ at \in Nat /\ next \in Pointer /\ timeouts \in 0 .. MaxTimeouts
  /\ xfer_completion \in Nat
  /\ xfer_completion + (IF busy THEN 1 ELSE 0) =< timeouts + (IF waiting THEN 1 ELSE 0)

(* Unless a transfer times out, a size the driver goes by is one the       *)
(* register had, although its bytes are read one by one while it grows and *)
(* a reading of it may be torn: two readings alike cannot both be.         *)
SizeTrue ==
  timeouts = 0 /\ pc \in {"getptr", "data", "setptr", "command"}
    => val = at /\ val =< size

(* Unless a transfer times out, the bytes moved are the ones that follow   *)
(* those moved before, each from its place, whatever number of pieces they *)
(* take and wherever the 16-bit pointer wraps; and the chip's pointer is   *)
(* left behind the last of them.                                           *)
BytesExact ==
  timeouts = 0 /\ pc = "command"
    => /\ \A i \in 1 .. total : buf[i] = (next + i - 1) % Modulus
       /\ rd = (next + total) % Modulus

(* The driver returns if no transfer times out, however the register grows *)
(* while it is read.                                                       *)
AccessReturns == (pc # "idle") ~> (pc = "idle" \/ timeouts > 0)
=============================================================================
