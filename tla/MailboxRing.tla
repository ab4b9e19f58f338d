----------------------------- MODULE MailboxRing ------------------------------
(***************************************************************************)
(* One direction of the shared-memory mailbox between the Cortex-M4 and    *)
(* the Cortex-A7: a ring of BufSize bytes with a single producer, which    *)
(* runs EnqueueData, and a single consumer, which runs DequeueData.        *)
(* (src/Software/OS_HAL/src/os_hal_mbox_shared_mem.c).                     *)
(*                                                                         *)
(* The two cores run in parallel: every access to memory the other core    *)
(* also touches is a step of its own, and the steps of the two functions   *)
(* interleave freely.  For the M4-to-A7 ring the consumer is the Azure     *)
(* Sphere kernel, for the A7-to-M4 ring the producer is: it is taken to    *)
(* follow the same protocol, with the roles exchanged.                     *)
(*                                                                         *)
(* A byte in memory is abstracted to what a reader can tell about it:      *)
(* which message it belongs to and its place in that message's block.      *)
(***************************************************************************)
EXTENDS Integers, Sequences, FiniteSets

CONSTANTS
  BufSize,      (* bytes in the data area, as GetIntercoreBuffers returns  *)
  Sizes,        (* the payload sizes the producer may pass                 *)
  Capacities,   (* the sizes of the buffers the consumer may pass          *)
  MaxMessages   (* bound on the number of accepted messages                *)

WORD  == 4      (* sizeof(u32), the size word at the head of a block       *)
ALIGN == 16     (* RINGBUFFER_ALIGNMENT                                    *)

(* 2^k - sizeof(BufferHeader), the header being 64 bytes, is a positive    *)
(* multiple of the alignment.                                              *)
ASSUME BufSizeAssumption == BufSize \in Nat \ {0} /\ BufSize % ALIGN = 0
ASSUME SizesAssumption == Sizes \subseteq Nat /\ Capacities \subseteq Nat
ASSUME MaxMessagesAssumption == MaxMessages \in Nat

VARIABLES
  writePosition, (* written by the producer, read by both                  *)
  readPosition,  (* written by the consumer, read by both                  *)
  mem,           (* the data area                                          *)
  enqPc,         (* where the producer is in EnqueueData                   *)
  enqSize,       (* its dataSize                                           *)
  enqResult,     (* what its last call returned                            *)
  deqPc,         (* where the consumer is in DequeueData                   *)
  deqAvail,      (* its availData                                          *)
  deqResult,     (* what its last call returned                            *)
  dataSize,      (* its in-out parameter *dataSize                         *)
  dest,          (* the bytes copied to the caller's buffer so far         *)
  swint,         (* software interrupts raised and not yet taken           *)
  announced,     (* history: how many messages were published when the     *)
                 (* consumer's core last took an interrupt                 *)
  sent,          (* history: start and size of every block begun           *)
  published,     (* history: how many of them writePosition covers         *)
  received       (* history: the content of every message consumed         *)

prodVars == <<writePosition, enqPc, enqSize, enqResult, sent, published>>
consVars == <<readPosition, deqPc, deqAvail, deqResult, dataSize, dest, received>>
bellVars == <<swint, announced>>
vars == <<prodVars, consVars, bellVars, mem>>

Position == 0 .. BufSize - 1

(***************************************************************************)
(* A byte: number off of the block of message id, the size word being the  *)
(* bytes 0 .. WORD - 1.  Id 0 is memory never written.                     *)
(***************************************************************************)
Byte(id, k) == [id |-> id, off |-> k]
Blank == Byte(0, 0)

Payload(id) == [k \in 0 .. sent[id].size - 1 |-> Byte(id, WORD + k)]

(* Mutant: the rounding up is forgotten. *)
RoundUpNot(value) == value

RoundUp(value) == (value + (ALIGN - 1)) - ((value + (ALIGN - 1)) % ALIGN)

(* The bytes a block with n bytes of payload takes up. *)
Span(n) == RoundUp(WORD + n)

(* Mutant: the wrap is tested with > instead of >=. *)
AdvanceToEnd(p, n) ==
  LET q == RoundUp(p + WORD + n)
  IN  IF q > BufSize THEN q - BufSize ELSE q

(* The position after a block of n bytes that starts at p. *)
Advance(p, n) ==
  LET q == RoundUp(p + WORD + n)
  IN  IF q >= BufSize THEN q - BufSize ELSE q

AvailSpace(r, w) == IF r =< w THEN r - w + BufSize ELSE r - w
AvailData(r, w)  == IF w >= r THEN w - r ELSE w - r + BufSize

(* Mutant: the free slot that keeps a full ring apart from an empty one is *)
(* not asked for.                                                          *)
EnqueueRefusedNoSlack(r, w, n) ==
  \/ r >= BufSize
  \/ AvailSpace(r, w) < WORD + n
  \/ BufSize - w < WORD

(* Mutant: a block that does not fit before the end is refused. *)
EnqueueRefusedAtEnd(r, w, n) ==
  \/ r >= BufSize
  \/ AvailSpace(r, w) < WORD + n + ALIGN
  \/ BufSize - w < WORD + n

(* EnqueueData's three early returns, over the positions it has read. *)
EnqueueRefused(r, w, n) ==
  \/ r >= BufSize
  \/ AvailSpace(r, w) < WORD + n + ALIGN
  \/ BufSize - w < WORD

(* The word DequeueData takes for the block size: BufSize stands for the   *)
(* value of four bytes that are not a size word.                           *)
SizeWordAt(p) ==
  IF mem[p].id \in DOMAIN sent /\ mem[p].off = 0
  THEN sent[mem[p].id].size
  ELSE BufSize

AtMost(a, b) == IF a < b THEN a ELSE b

(* Mutant: the size word is left out of the account. *)
UpToEndNoWord(p, n) == AtMost(n, BufSize - p)

(* How much of n bytes of payload lies before the end of the buffer, for   *)
(* a block that starts at p.                                               *)
UpToEnd(p, n) == AtMost(WORD + n, BufSize - p) - WORD

-----------------------------------------------------------------------------
Init ==
  /\ writePosition = 0 /\ readPosition = 0
  /\ mem = [p \in Position |-> Blank]
  /\ enqPc = "idle" /\ enqSize = 0 /\ enqResult = 0
  /\ deqPc = "idle" /\ deqAvail = 0 /\ deqResult = 0
  /\ dataSize = 0 /\ dest = <<>>
  /\ swint = {} /\ announced = 0
  /\ sent = <<>> /\ published = 0 /\ received = <<>>

(***************************************************************************)
(* EnqueueData.  The other core's readPosition is read once; all decisions *)
(* are taken on that copy.                                                 *)
(***************************************************************************)
EnqRefuse(n) ==
  /\ enqPc = "idle"
  /\ Len(sent) < MaxMessages
  /\ EnqueueRefused(readPosition, writePosition, n)
  /\ enqSize' = n
  /\ enqResult' = -1
  /\ UNCHANGED <<writePosition, enqPc, sent, published, consVars, bellVars, mem>>

EnqAccept(n) ==
  /\ enqPc = "idle"
  /\ Len(sent) < MaxMessages
  /\ ~EnqueueRefused(readPosition, writePosition, n)
  /\ enqPc' = "size"
  /\ enqSize' = n
  /\ sent' = Append(sent, [start |-> writePosition, size |-> n])
  /\ UNCHANGED <<writePosition, enqResult, published, consVars, bellVars, mem>>

(* Memory after bytes first .. first + n - 1 of the block being written    *)
(* have been stored from address p on.                                     *)
Stored(p, first, n) ==
  [q \in Position |-> IF q \in p .. p + n - 1
                      THEN Byte(Len(sent), first + (q - p))
                      ELSE mem[q]]

EnqWriteSize ==
  /\ enqPc = "size"
  /\ mem' = Stored(writePosition, 0, WORD)
  /\ enqPc' = "copy"
  /\ UNCHANGED <<writePosition, enqSize, enqResult, sent, published, consVars, bellVars>>

EnqCopyToEnd ==
  /\ enqPc = "copy"
  /\ mem' = Stored(writePosition + WORD, WORD, UpToEnd(writePosition, enqSize))
  /\ enqPc' = "wrap"
  /\ UNCHANGED <<writePosition, enqSize, enqResult, sent, published, consVars, bellVars>>

(* Mutant: the second copy starts over at the head of the message.         *)
EnqCopyRestFromStart ==
  /\ enqPc = "wrap"
  /\ mem' = Stored(0, WORD, enqSize - UpToEnd(writePosition, enqSize))
  /\ enqPc' = "publish"
  /\ UNCHANGED <<writePosition, enqSize, enqResult, sent, published, consVars, bellVars>>

EnqCopyRest ==
  /\ enqPc = "wrap"
  /\ LET done == UpToEnd(writePosition, enqSize)
     IN  mem' = Stored(0, WORD + done, enqSize - done)
  /\ enqPc' = "publish"
  /\ UNCHANGED <<writePosition, enqSize, enqResult, sent, published, consVars, bellVars>>

EnqPublish ==
  /\ enqPc = "publish"
  /\ writePosition' = Advance(writePosition, enqSize)
  /\ published' = Len(sent)
  /\ enqPc' = "ring"
  /\ UNCHANGED <<enqSize, enqResult, sent, consVars, bellVars, mem>>

EnqRing ==
  /\ enqPc = "ring"
  /\ swint' = swint \union {"written"}
  /\ enqResult' = 0
  /\ enqPc' = "idle"
  /\ UNCHANGED <<writePosition, enqSize, sent, published, consVars, announced, mem>>

(***************************************************************************)
(* DequeueData.  The other core's writePosition is read once.              *)
(***************************************************************************)
DeqRefuse(cap) ==
  /\ deqPc = "idle"
  /\ dataSize' = cap
  /\ \/ writePosition >= BufSize
     \/ AvailData(readPosition, writePosition) < WORD
     \/ BufSize - readPosition < WORD
  /\ deqResult' = -1
  /\ UNCHANGED <<prodVars, readPosition, deqPc, deqAvail, dest, received, bellVars, mem>>

DeqLook(cap) ==
  /\ deqPc = "idle"
  /\ dataSize' = cap
  /\ writePosition < BufSize
  /\ AvailData(readPosition, writePosition) >= WORD
  /\ BufSize - readPosition >= WORD
  /\ deqAvail' = AvailData(readPosition, writePosition)
  /\ deqPc' = "size"
  /\ UNCHANGED <<prodVars, readPosition, deqResult, dest, received, bellVars, mem>>

(* The block size is wrong for the data there is, or for the caller.       *)
DeqBadSize ==
  LET blockSize == SizeWordAt(readPosition) IN
  /\ deqPc = "size"
  /\ blockSize + WORD > deqAvail \/ blockSize > dataSize
  /\ dataSize' = IF blockSize + WORD > deqAvail THEN dataSize ELSE blockSize
  /\ deqResult' = -1
  /\ deqPc' = "idle"
  /\ UNCHANGED <<prodVars, readPosition, deqAvail, dest, received, bellVars, mem>>

DeqReadSize ==
  LET blockSize == SizeWordAt(readPosition) IN
  /\ deqPc = "size"
  /\ blockSize + WORD =< deqAvail
  /\ blockSize =< dataSize
  /\ dataSize' = blockSize
  /\ deqPc' = "copy"
  /\ UNCHANGED <<prodVars, readPosition, deqAvail, deqResult, dest, received, bellVars, mem>>

DeqCopyToEnd ==
  /\ deqPc = "copy"
  /\ dest' = [k \in 0 .. UpToEnd(readPosition, dataSize) - 1 |->
                mem[readPosition + WORD + k]]
  /\ deqPc' = "wrap"
  /\ UNCHANGED <<prodVars, readPosition, deqAvail, deqResult, dataSize, received, bellVars, mem>>

(* Mutant: the second copy reads on from where the first one stopped. *)
DeqCopyRestNoWrap ==
  /\ deqPc = "wrap"
  /\ LET done == UpToEnd(readPosition, dataSize)
     IN  dest' = [k \in 0 .. dataSize - 1 |->
                    IF k < done THEN dest[k] ELSE mem[k]]
  /\ deqPc' = "publish"
  /\ UNCHANGED <<prodVars, readPosition, deqAvail, deqResult, dataSize, received, bellVars, mem>>

DeqCopyRest ==
  /\ deqPc = "wrap"
  /\ LET done == UpToEnd(readPosition, dataSize)
     IN  dest' = [k \in 0 .. dataSize - 1 |->
                    IF k < done THEN dest[k] ELSE mem[k - done]]
  /\ deqPc' = "publish"
  /\ UNCHANGED <<prodVars, readPosition, deqAvail, deqResult, dataSize, received, bellVars, mem>>

(* Mutant: the block is taken to end before its size word is counted. *)
DeqPublishNoWord ==
  /\ deqPc = "publish"
  /\ readPosition' = Advance(readPosition, dataSize - WORD)
  /\ received' = Append(received, dest)
  /\ deqPc' = "ring"
  /\ UNCHANGED <<prodVars, deqAvail, deqResult, dataSize, dest, bellVars, mem>>

DeqPublish ==
  /\ deqPc = "publish"
  /\ readPosition' = Advance(readPosition, dataSize)
  /\ received' = Append(received, dest)
  /\ deqPc' = "ring"
  /\ UNCHANGED <<prodVars, deqAvail, deqResult, dataSize, dest, bellVars, mem>>

DeqRing ==
  /\ deqPc = "ring"
  /\ swint' = swint \union {"read"}
  /\ deqResult' = 0
  /\ deqPc' = "idle"
  /\ dest' = <<>>
  /\ UNCHANGED <<prodVars, readPosition, deqAvail, dataSize, received, announced, mem>>

(***************************************************************************)
(* The interrupt handlers of the two cores: each takes its own bit.  What  *)
(* the consumer makes of its interrupt is not this module's: whether it    *)
(* calls DequeueData, how often and with what buffer is left open.         *)
(* MailboxReceiver has what the M4 does.                                   *)
(***************************************************************************)
ConsumerInterrupt ==
  /\ "written" \in swint
  /\ swint' = swint \ {"written"}
  /\ announced' = published
  /\ UNCHANGED <<prodVars, consVars, mem>>

ProducerInterrupt ==
  /\ "read" \in swint
  /\ swint' = swint \ {"read"}
  /\ UNCHANGED <<prodVars, consVars, announced, mem>>

(* Mutant: the interrupt is raised before the write position is stored. *)
EnqRingEarly ==
  /\ enqPc = "publish"
  /\ swint' = swint \union {"written"}
  /\ enqPc' = "ring"
  /\ UNCHANGED <<writePosition, enqSize, enqResult, sent, published, consVars, announced, mem>>
EnqPublishLate ==
  /\ enqPc = "ring"
  /\ writePosition' = Advance(writePosition, enqSize)
  /\ published' = Len(sent)
  /\ enqResult' = 0
  /\ enqPc' = "idle"
  /\ UNCHANGED <<enqSize, sent, consVars, bellVars, mem>>
EnqStepRingEarly == EnqWriteSize \/ EnqCopyToEnd \/ EnqCopyRest \/ EnqRingEarly \/ EnqPublishLate

EnqStep == EnqWriteSize \/ EnqCopyToEnd \/ EnqCopyRest \/ EnqPublish \/ EnqRing
DeqStep == DeqBadSize \/ DeqReadSize \/ DeqCopyToEnd \/ DeqCopyRest \/ DeqPublish \/ DeqRing

Next ==
  \/ \E n \in Sizes : EnqRefuse(n) \/ EnqAccept(n)
  \/ \E cap \in Capacities : DeqRefuse(cap) \/ DeqLook(cap)
  \/ EnqStep
  \/ DeqStep
  \/ ConsumerInterrupt
  \/ ProducerInterrupt

Spec == Init /\ [][Next]_vars

(***************************************************************************)
(* A core that has entered one of the functions runs on to its end, and a  *)
(* core with an interrupt pending takes it.  Nothing obliges the producer  *)
(* or the consumer to call.                                                *)
(***************************************************************************)
Fairness ==
  /\ WF_vars(EnqStep)
  /\ WF_vars(DeqStep)
  /\ WF_vars(ConsumerInterrupt)

FairSpec == Spec /\ Fairness

-----------------------------------------------------------------------------
(* The messages the consumer has still to read, and the address of byte k  *)
(* of the block of message i.                                              *)
Unread == Len(received) + 1 .. published
Address(i, k) ==
  sent[i].start + k - (IF sent[i].start + k >= BufSize THEN BufSize ELSE 0)

(* Every variable has a value of its type. *)
TypeOK ==
  /\ writePosition \in Position /\ readPosition \in Position
  /\ mem \in [Position -> [id : Nat, off : Nat]]
  /\ enqPc \in {"idle", "size", "copy", "wrap", "publish", "ring"}
  /\ deqPc \in {"idle", "size", "copy", "wrap", "publish", "ring"}
  /\ enqSize \in Nat /\ deqAvail \in Nat /\ dataSize \in Nat
  /\ enqResult \in {0, -1} /\ deqResult \in {0, -1}
  /\ swint \subseteq {"written", "read"}
  /\ announced \in Nat
  /\ sent \in Seq([start : Position, size : Nat])
  /\ published \in Nat
  /\ Len(received) =< published /\ published =< Len(sent)

(* Both positions stay on block boundaries: the size word never straddles  *)
(* the end of the buffer, so the "not enough space for block size",        *)
(* "dataToEnd < 4 bytes" and "position invalid" branches are dead code for *)
(* two ends that follow the protocol.                                      *)
Aligned ==
  /\ writePosition % ALIGN = 0
  /\ readPosition % ALIGN = 0
  /\ \A i \in DOMAIN sent : sent[i].start % ALIGN = 0

(* Equal positions mean an empty ring and nothing else: the producer never *)
(* closes the last gap, whatever sizes were written and however stale the  *)
(* read position was when it looked.                                       *)
EmptyIffEqual == writePosition = readPosition <=> Len(received) = published

(* Every byte of every unread block is what its producer wrote, even while *)
(* the producer is part-way through storing the next one.                  *)
UnreadIntact ==
  \A i \in Unread : \A k \in 0 .. WORD + sent[i].size - 1 :
    mem[Address(i, k)] = Byte(i, k)

(* A block the consumer finds published is always well formed: DequeueData *)
(* never reports a size larger than the available data.                    *)
SizeWordSound ==
  deqPc = "size" => SizeWordAt(readPosition) + WORD =< deqAvail

(* What the consumer has received is what was enqueued first, message for  *)
(* message and byte for byte, although the two memcpy of each side run     *)
(* while the other side works on the same memory.                          *)
ReceivedIntact == \A i \in DOMAIN received : received[i] = Payload(i)

(* The ring is a lossless bounded FIFO channel: what the consumer receives *)
(* is exactly what was enqueued, in order, once, whole.  A message enters  *)
(* the channel when writePosition moves past it and leaves it when         *)
(* readPosition does.                                                      *)
Channel == INSTANCE MessageChannel WITH
  Weight   <- LAMBDA m : Span(Cardinality(DOMAIN m)),
  Capacity <- BufSize - ALIGN,
  sent     <- [i \in 1 .. published |-> Payload(i)],
  received <- received

ImplementsChannel == Channel!Spec

(* EnqueueData refuses only what really does not fit beside the unread     *)
(* messages: its arithmetic on wrapped positions and the extra ALIGN bytes *)
(* it asks for cost no space.                                              *)
RefusedOnlyWhenFull ==
  [][\A n \in Sizes : EnqRefuse(n) =>
       Channel!TotalWeight(Channel!InChannel) + Span(n) > BufSize - ALIGN]_vars

(* Each message is announced: after it was published the consumer's core   *)
(* takes an interrupt, however the interrupts of several messages merge    *)
(* and wherever in EnqueueData the handler runs.  An interrupt raised      *)
(* before the write position is stored would announce the messages before  *)
(* it only.                                                                *)
EventuallyAnnounced ==
  \A i \in 1 .. MaxMessages : published >= i ~> announced >= i
=============================================================================
