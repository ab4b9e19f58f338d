-------------------------- MODULE MailboxRing_proofs --------------------------
(***************************************************************************)
(* Proofs about MailboxRing, for every size of the buffer, every set of    *)
(* payload sizes and consumer buffers and any number of messages.          *)
(***************************************************************************)
EXTENDS MailboxRing, WellFoundedInduction, FiniteSetTheorems, SequenceTheorems, TLAPS

(***************************************************************************)
(* The inductive invariant.  All distances are measured forwards from the  *)
(* read position, with AvailData(readPosition, p), so that the wrap at the *)
(* end of the buffer disappears from everything but the lemmas on AvailData*)
(* and Advance: seen from there, the unread blocks and the one being       *)
(* written follow each other without overlap.                              *)
(***************************************************************************)
Writing == enqPc \in {"size", "copy", "wrap", "publish"}
Holding == deqPc \in {"size", "copy", "wrap", "publish"}
Reading == deqPc \in {"copy", "wrap", "publish"}

Messages == UNION {[0 .. n - 1 -> [id : Nat, off : Nat]] : n \in Nat}

(* Where block i begins: the one after the last begins at writePosition.   *)
Begin(i) == IF i \in DOMAIN sent THEN sent[i].start ELSE writePosition

(* The message DequeueData will return next.                               *)
Oldest == Len(received) + 1

(* How far p lies ahead of the read position.                              *)
Ahead(p) == AvailData(readPosition, p)

(* How many bytes of the block under way have been stored.                 *)
BytesWritten ==
  CASE enqPc = "copy"    -> WORD
    [] enqPc = "wrap"    -> WORD + UpToEnd(writePosition, enqSize)
    [] enqPc = "publish" -> WORD + enqSize
    [] OTHER             -> 0

HistoryInv ==
  /\ received \in Seq(Messages)
  /\ published = IF Writing THEN Len(sent) - 1 ELSE Len(sent)
  /\ Writing => sent[Len(sent)] = [start |-> writePosition, size |-> enqSize]

(* Each published block ends where the next one begins, and the oldest     *)
(* unread one begins at the read position.                                 *)
ChainInv ==
  /\ Begin(Oldest) = readPosition
  /\ \A i \in 1 .. published : Begin(i + 1) = Advance(sent[i].start, sent[i].size)

(* Seen from the read position the unread blocks do not overlap, and end   *)
(* before the write position.                                              *)
OrderInv ==
  \A i \in Unread : \A j \in i + 1 .. published + 1 :
    Ahead(Begin(i)) + Span(sent[i].size) =< Ahead(Begin(j))

(* The block under way leaves a slot free before the oldest unread one.    *)
SpaceInv ==
  Writing => Ahead(writePosition) + Span(enqSize) + ALIGN =< BufSize

(* What has been stored of the block under way is right.                   *)
WriteInv ==
  \A k \in 0 .. BytesWritten - 1 :
    mem[Address(Len(sent), k)] = Byte(Len(sent), k)

(* Where the consumer is in its call.                                      *)
ReadInv ==
  /\ Holding => Len(received) < published
  /\ deqPc = "size" => Span(sent[Oldest].size) =< deqAvail
  /\ Reading => dataSize = sent[Oldest].size
  /\ deqPc = "wrap" =>
       dest = [k \in 0 .. UpToEnd(readPosition, dataSize) - 1 |-> Byte(Oldest, WORD + k)]
  /\ deqPc = "publish" => dest = Payload(Oldest)

PositionInv == HistoryInv /\ ChainInv /\ OrderInv /\ SpaceInv
ContentInv == UnreadIntact /\ WriteInv /\ ReadInv /\ ReceivedIntact
IInv == TypeOK /\ Aligned /\ PositionInv /\ ContentInv

-----------------------------------------------------------------------------
(***************************************************************************)
(* The arithmetic of positions.                                            *)
(***************************************************************************)

(* RoundUp yields the least multiple of the alignment not below v.         *)
LEMMA RoundUpLeast ==
  ASSUME NEW v \in Nat
  PROVE  /\ RoundUp(v) \in Nat
         /\ RoundUp(v) >= v
         /\ RoundUp(v) % ALIGN = 0
         /\ \A m \in Nat : m % ALIGN = 0 /\ m >= v => m >= RoundUp(v)
  BY DEF RoundUp, ALIGN

(* A block takes whole slots, at least one, and no more than it needs.     *)
LEMMA SpanLeast ==
  ASSUME NEW n \in Nat
  PROVE  /\ Span(n) \in Nat
         /\ Span(n) >= WORD + n
         /\ Span(n) > 0
         /\ Span(n) % ALIGN = 0
         /\ \A m \in Nat : m % ALIGN = 0 /\ m >= WORD + n => m >= Span(n)
  BY RoundUpLeast, WORD + n \in Nat DEF Span, WORD

(* From a block boundary, Advance moves on by the block's span, around the *)
(* end of the buffer, to a block boundary.                                 *)
LEMMA AdvanceBySpan ==
  ASSUME NEW p \in Position, NEW n \in Nat, p % ALIGN = 0, Span(n) =< BufSize
  PROVE  /\ Advance(p, n) = IF p + Span(n) >= BufSize
                            THEN p + Span(n) - BufSize ELSE p + Span(n)
         /\ Advance(p, n) \in Position
         /\ Advance(p, n) % ALIGN = 0
<1> USE BufSizeAssumption
<1>1. Span(n) \in Nat /\ Span(n) % ALIGN = 0
  BY SpanLeast
<1>2. RoundUp(p + WORD + n) = p + Span(n)
  <2> DEFINE x == WORD + n + (ALIGN - 1)
  <2>1. x \in Nat /\ p \in Nat
    BY DEF WORD, ALIGN, Position
  <2>2. (p + x) % ALIGN = x % ALIGN
    <3> HIDE DEF x
    <3> QED
      BY <2>1 DEF ALIGN
  <2>3. p + WORD + n + (ALIGN - 1) = p + x
    BY <2>1 DEF WORD, ALIGN
  <2>4. RoundUp(p + WORD + n) = (p + x) - ((p + x) % ALIGN)
    BY <2>3, Zenon DEF RoundUp
  <2>5. Span(n) = x - (x % ALIGN)
    BY Zenon DEF Span, RoundUp
  <2> HIDE DEF x
  <2>6. x % ALIGN \in Nat
    BY <2>1 DEF ALIGN
  <2> QED
    BY <2>1, <2>2, <2>4, <2>5, <2>6
<1>3. Advance(p, n) = IF p + Span(n) >= BufSize
                      THEN p + Span(n) - BufSize ELSE p + Span(n)
  <2> DEFINE q == RoundUp(p + WORD + n)
  <2>1. Advance(p, n) = IF q >= BufSize THEN q - BufSize ELSE q
    BY DEF Advance
  <2>2. q = p + Span(n)
    BY <1>2
  <2>3. p \in Nat
    BY DEF Position
  <2> HIDE DEF q
  <2> QED
    BY <1>1, <2>1, <2>2, <2>3
<1>4. Advance(p, n) \in Position
  BY <1>1, <1>3 DEF Position
<1>5. Advance(p, n) % ALIGN = 0
  BY <1>1, <1>3 DEF ALIGN, Position
<1> QED
  BY <1>3, <1>4, <1>5

(* Whole slots taken from a whole number of slots leave whole slots.       *)
LEMMA SlotsLeft ==
  ASSUME NEW a \in Nat, NEW b \in Nat, a % ALIGN = 0, b % ALIGN = 0
  PROVE  (b - a - ALIGN) % ALIGN = 0
<1>1. PICK x \in Nat : a = 16 * x
  BY DEF ALIGN
<1>2. PICK y \in Nat : b = 16 * y
  BY DEF ALIGN
<1>3. b - a - ALIGN = 16 * (y - x - 1)
  BY <1>1, <1>2 DEF ALIGN
<1> QED
  BY <1>3 DEF ALIGN

(* The distance from r to p, and what is left of the buffer beside it.     *)
LEMMA Distance ==
  ASSUME NEW r \in Position, NEW p \in Position
  PROVE  /\ AvailData(r, p) \in 0 .. BufSize - 1
         /\ AvailData(r, p) = 0 <=> p = r
         /\ AvailSpace(r, p) = BufSize - AvailData(r, p)
         /\ r % ALIGN = 0 /\ p % ALIGN = 0 => AvailData(r, p) % ALIGN = 0
  BY BufSizeAssumption DEF AvailData, AvailSpace, Position, ALIGN

(* Writing a block increases the distance by its span.                     *)
LEMMA DistanceAfterWrite ==
  ASSUME NEW r \in Position, NEW w \in Position, NEW n \in Nat, w % ALIGN = 0,
         AvailData(r, w) + Span(n) < BufSize
  PROVE  AvailData(r, Advance(w, n)) = AvailData(r, w) + Span(n)
<1>1. Span(n) \in Nat
  BY SpanLeast
<1>2. AvailData(r, w) \in 0 .. BufSize - 1
  BY Distance
<1>3. Span(n) =< BufSize
  BY <1>1, <1>2, BufSizeAssumption
<1>4. Advance(w, n) = IF w + Span(n) >= BufSize
                      THEN w + Span(n) - BufSize ELSE w + Span(n)
  BY <1>3, AdvanceBySpan
<1> QED
  BY <1>1, <1>4, BufSizeAssumption DEF AvailData, Position

(* Reading a block decreases the distance to whatever lies behind it.      *)
LEMMA DistanceAfterRead ==
  ASSUME NEW r \in Position, NEW p \in Position, NEW n \in Nat, r % ALIGN = 0,
         Span(n) =< AvailData(r, p)
  PROVE  AvailData(Advance(r, n), p) = AvailData(r, p) - Span(n)
<1>1. Span(n) \in Nat
  BY SpanLeast
<1>2. AvailData(r, p) \in 0 .. BufSize - 1
  BY Distance
<1>3. Span(n) =< BufSize
  BY <1>1, <1>2, BufSizeAssumption
<1>4. Advance(r, n) = IF r + Span(n) >= BufSize
                      THEN r + Span(n) - BufSize ELSE r + Span(n)
  BY <1>3, AdvanceBySpan
<1> QED
  BY <1>1, <1>4, BufSizeAssumption DEF AvailData, Position

(* Byte k of a block that begins at p, k bytes further ahead.              *)
LEMMA DistanceOfByte ==
  ASSUME NEW r \in Position, NEW p \in Position, NEW k \in Nat,
         AvailData(r, p) + k < BufSize
  PROVE  \A a : a = (IF p + k >= BufSize THEN p + k - BufSize ELSE p + k)
                => a \in Position /\ AvailData(r, a) = AvailData(r, p) + k
  BY BufSizeAssumption DEF AvailData, Position

(* An aligned position has room for the size word before the end.          *)
LEMMA WordFits ==
  ASSUME NEW p \in Position, p % ALIGN = 0
  PROVE  p + WORD < BufSize
  BY BufSizeAssumption DEF Position, ALIGN, WORD

(* How many bytes the first memcpy moves: all, or up to the end.           *)
LEMMA FirstCopy ==
  ASSUME NEW p \in Position, p % ALIGN = 0, NEW n \in Nat
  PROVE  /\ UpToEnd(p, n) \in 0 .. n
         /\ p + WORD + UpToEnd(p, n) =< BufSize
         /\ UpToEnd(p, n) < n => p + WORD + UpToEnd(p, n) = BufSize
<1>1. p + WORD < BufSize
  BY WordFits
<1> QED
  BY <1>1, BufSizeAssumption DEF UpToEnd, AtMost, Position, WORD

(* Where byte k of a block that begins at p is stored.                     *)
LEMMA AddressAt ==
  ASSUME NEW i, NEW p \in Position, NEW k \in Nat, sent[i].start = p
  PROVE  Address(i, k) = IF p + k >= BufSize THEN p + k - BufSize ELSE p + k
<1>1. Address(i, k) = p + k - (IF p + k >= BufSize THEN BufSize ELSE 0)
  BY DEF Address
<1> QED
  BY <1>1, BufSizeAssumption DEF Position

-----------------------------------------------------------------------------
(***************************************************************************)
(* What the invariant says of the blocks.                                  *)
(***************************************************************************)
LEMMA Blocks ==
  ASSUME TypeOK, Aligned, HistoryInv
  PROVE  /\ Len(sent) \in Nat /\ Len(received) \in Nat /\ published \in Nat
         /\ Len(received) =< published /\ published =< Len(sent)
         /\ DOMAIN sent = 1 .. Len(sent)
         /\ \A i \in 1 .. Len(sent) : /\ sent[i].start \in Position
                                      /\ sent[i].start % ALIGN = 0
                                      /\ sent[i].size \in Nat
         /\ \A i \in Nat : Begin(i) \in Position /\ Begin(i) % ALIGN = 0
         /\ Begin(published + 1) = writePosition
<1>1. /\ Len(sent) \in Nat /\ Len(received) \in Nat
      /\ DOMAIN sent = 1 .. Len(sent)
      /\ \A i \in 1 .. Len(sent) : sent[i] \in [start : Position, size : Nat]
  <2> DEFINE Block == [start : Position, size : Nat]
  <2>1. sent \in Seq(Block) /\ received \in Seq(Messages)
    BY DEF TypeOK, HistoryInv
  <2> HIDE DEF Block
  <2>2. /\ Len(sent) \in Nat /\ Len(received) \in Nat
        /\ DOMAIN sent = 1 .. Len(sent)
        /\ \A i \in 1 .. Len(sent) : sent[i] \in Block
    BY <2>1
  <2> QED
    BY <2>2 DEF Block
<1>2. \A i \in 1 .. Len(sent) : /\ sent[i].start \in Position
                               /\ sent[i].start % ALIGN = 0
                               /\ sent[i].size \in Nat
  BY <1>1 DEF Aligned
<1>3. \A i \in Nat : Begin(i) \in Position /\ Begin(i) % ALIGN = 0
  BY <1>1, <1>2 DEF Begin, TypeOK, Aligned
<1>4. Begin(published + 1) = writePosition
  <2>1. CASE Writing
    <3>1. published + 1 = Len(sent)
      BY <2>1, <1>1 DEF HistoryInv, TypeOK
    <3>2. sent[Len(sent)].start = writePosition
      BY <2>1 DEF HistoryInv
    <3>3. published + 1 \in DOMAIN sent
      BY <1>1, <3>1 DEF TypeOK
    <3> QED
      BY <3>1, <3>2, <3>3 DEF Begin
  <2>2. CASE ~Writing
    BY <2>2, <1>1 DEF HistoryInv, TypeOK, Begin
  <2> QED
    BY <2>1, <2>2
<1> QED
  BY <1>1, <1>2, <1>3, <1>4 DEF TypeOK

(* A distance is less than the size of the buffer.                         *)
LEMMA AheadRange ==
  ASSUME TypeOK, NEW p \in Position
  PROVE  Ahead(p) \in Nat /\ Ahead(p) < BufSize
<1>1. readPosition \in Position
  BY DEF TypeOK
<1>2. AvailData(readPosition, p) \in 0 .. BufSize - 1
  BY <1>1, Distance
<1> QED
  BY <1>2, BufSizeAssumption DEF Ahead

(* The unread blocks lie between the read and the write position, and the  *)
(* positions are equal exactly if there is none.                           *)
LEMMA UnreadBlocks ==
  ASSUME IInv
  PROVE  /\ \A i \in Unread : Ahead(sent[i].start) + Span(sent[i].size) =< Ahead(writePosition)
         /\ Len(received) < published => sent[Oldest].start = readPosition
         /\ Len(received) = published => writePosition = readPosition
<1> USE DEF IInv, PositionInv
<1>1. ASSUME NEW i \in Unread
      PROVE  Ahead(sent[i].start) + Span(sent[i].size) =< Ahead(writePosition)
  <2>1. Begin(published + 1) = writePosition
    BY Blocks
  <2>2. i \in DOMAIN sent /\ i \in Nat
    BY Blocks DEF Unread
  <2>3. published + 1 \in i + 1 .. published + 1
    BY Blocks DEF Unread
  <2>4. Begin(i) = sent[i].start
    BY <2>2 DEF Begin
  <2>5. Ahead(Begin(i)) + Span(sent[i].size) =< Ahead(Begin(published + 1))
    BY <2>3 DEF OrderInv
  <2> QED
    BY <2>1, <2>4, <2>5
<1>2. Len(received) < published => sent[Oldest].start = readPosition
  BY Blocks DEF ChainInv, Begin, Oldest
<1>3. Len(received) = published => writePosition = readPosition
  BY Blocks DEF ChainInv, Oldest
<1> QED
  BY <1>1, <1>2, <1>3

(* The invariant implies that an empty ring and equal positions are one    *)
(* and the same.                                                           *)
LEMMA EmptyEqual == IInv => EmptyIffEqual
<1> SUFFICES ASSUME IInv, Len(received) < published PROVE writePosition # readPosition
  BY UnreadBlocks, Blocks DEF EmptyIffEqual, IInv, PositionInv
<1>1. Oldest \in Unread
  BY Blocks DEF Oldest, Unread, IInv, PositionInv
<1>2. sent[Oldest].start \in Position /\ sent[Oldest].size \in Nat
  BY <1>1, Blocks DEF Unread, IInv, PositionInv
<1>3. Span(sent[Oldest].size) > 0 /\ Span(sent[Oldest].size) \in Nat
  BY <1>2, SpanLeast
<1>4. Ahead(sent[Oldest].start) + Span(sent[Oldest].size) =< Ahead(writePosition)
  BY <1>1, UnreadBlocks
<1>5. Ahead(sent[Oldest].start) \in Nat /\ Ahead(writePosition) \in Nat
  <2>1. TypeOK /\ writePosition \in Position
    BY DEF IInv, TypeOK
  <2> QED
    BY <1>2, <2>1, AheadRange
<1>6. Ahead(writePosition) # 0
  BY <1>3, <1>4, <1>5
<1> QED
  BY <1>6, Distance DEF Ahead, IInv, TypeOK

(* The bytes of an unread block lie before the write position.             *)
LEMMA UnreadByte ==
  ASSUME IInv, NEW i \in Unread, NEW k \in 0 .. WORD + sent[i].size - 1
  PROVE  Address(i, k) \in Position /\ Ahead(Address(i, k)) < Ahead(writePosition)
<1>1. sent[i].start \in Position /\ sent[i].size \in Nat
  BY Blocks DEF Unread, IInv, PositionInv
<1>2. Span(sent[i].size) >= WORD + sent[i].size /\ Span(sent[i].size) \in Nat
  BY <1>1, SpanLeast
<1>3. Ahead(sent[i].start) + Span(sent[i].size) =< Ahead(writePosition)
  BY UnreadBlocks
<1>4. Ahead(sent[i].start) \in Nat /\ Ahead(writePosition) \in 0 .. BufSize - 1
  <2>1. TypeOK /\ writePosition \in Position
    BY DEF IInv, TypeOK
  <2> QED
    BY <1>1, <2>1, AheadRange, BufSizeAssumption
<1>5. k \in Nat /\ k < WORD + sent[i].size
  BY <1>1 DEF WORD
<1>6. Ahead(sent[i].start) + k < Ahead(writePosition)
  BY <1>1, <1>2, <1>3, <1>4, <1>5 DEF WORD
<1>7. Ahead(sent[i].start) + k < BufSize
  BY <1>4, <1>5, <1>6, BufSizeAssumption
<1>8. /\ Address(i, k) \in Position
      /\ Ahead(Address(i, k)) = Ahead(sent[i].start) + k
  <2>1. Address(i, k) = IF sent[i].start + k >= BufSize
                        THEN sent[i].start + k - BufSize ELSE sent[i].start + k
    BY <1>1, <1>5, BufSizeAssumption DEF Address, Position
  <2>2. readPosition \in Position
    BY DEF IInv, TypeOK
  <2> QED
    BY <1>1, <1>5, <1>7, <2>1, <2>2, DistanceOfByte DEF Ahead
<1> QED
  BY <1>6, <1>8

-----------------------------------------------------------------------------
(***************************************************************************)
(* The steps.                                                              *)
(***************************************************************************)
LEMMA InitInv == Init => IInv
<1> SUFFICES ASSUME Init PROVE IInv
  OBVIOUS
<1> USE BufSizeAssumption DEF Init
<1>1. 0 \in Position /\ 0 % ALIGN = 0
  BY DEF Position, ALIGN
<1>2. TypeOK
  BY <1>1 DEF TypeOK, Blank, Byte
<1>3. Aligned
  BY <1>1 DEF Aligned
<1>4. PositionInv
  BY DEF PositionInv, HistoryInv, ChainInv, OrderInv, SpaceInv, Writing,
         Begin, Oldest, Unread
<1>5. ContentInv
  BY DEF ContentInv, UnreadIntact, Unread, WriteInv, BytesWritten, ReadInv,
         Holding, Reading, ReceivedIntact
<1> QED
  BY <1>2, <1>3, <1>4, <1>5 DEF IInv

(* A step that moves neither position nor history keeps the geometry.      *)
LEMMA SamePositions ==
  ASSUME Aligned, PositionInv,
         UNCHANGED <<writePosition, readPosition, sent, published, received, enqSize>>,
         Writing' = Writing
  PROVE  Aligned' /\ PositionInv'
  BY DEF Aligned, PositionInv, HistoryInv, ChainInv, OrderInv, SpaceInv,
         Begin, Oldest, Unread, Ahead

(* A step that stores nothing either keeps the contents.                   *)
LEMMA SameContents ==
  ASSUME UnreadIntact, ReceivedIntact,
         UNCHANGED <<mem, sent, published, received>>
  PROVE  UnreadIntact' /\ ReceivedIntact'
  BY DEF UnreadIntact, ReceivedIntact, Unread, Address, Payload

(* The producer's calls that are refused.                                  *)
LEMMA EnqRefuseStep ==
  ASSUME IInv, NEW n \in Sizes, EnqRefuse(n)
  PROVE  IInv'
<1> USE DEF EnqRefuse, consVars, bellVars
<1>1. TypeOK'
  BY SizesAssumption DEF IInv, TypeOK
<1>2. ~Writing /\ ~Writing'
  BY DEF Writing
<1>3. Aligned' /\ PositionInv'
  BY <1>2 DEF IInv, Aligned, PositionInv, HistoryInv, ChainInv, OrderInv, SpaceInv,
         Begin, Oldest, Unread, Ahead
<1>4. UnreadIntact' /\ ReceivedIntact'
  BY SameContents DEF IInv, ContentInv
<1>5. WriteInv'
  BY DEF WriteInv, BytesWritten
<1>6. ReadInv'
  BY DEF IInv, ContentInv, ReadInv, Holding, Reading, Oldest, Payload
<1> QED
  BY <1>1, <1>3, <1>4, <1>5, <1>6 DEF IInv, ContentInv

(* The consumer's calls up to the copying move no position and store       *)
(* nothing.                                                                *)
LEMMA ConsumerQuiet ==
  ASSUME IInv, UNCHANGED <<prodVars, readPosition, received, mem>>, TypeOK', ReadInv'
  PROVE  IInv'
<1>1. Writing' = Writing
  BY DEF Writing, prodVars
<1>2. Aligned' /\ PositionInv'
  BY <1>1, SamePositions DEF IInv, prodVars
<1>3. UnreadIntact' /\ ReceivedIntact'
  BY SameContents DEF IInv, ContentInv, prodVars
<1>4. WriteInv'
  BY DEF IInv, ContentInv, WriteInv, BytesWritten, Address, prodVars, UpToEnd, AtMost
<1> QED
  BY <1>2, <1>3, <1>4 DEF IInv, ContentInv

LEMMA DeqRefuseStep ==
  ASSUME IInv, NEW cap \in Capacities, DeqRefuse(cap)
  PROVE  IInv'
<1> USE DEF DeqRefuse, prodVars, bellVars
<1>1. TypeOK'
  BY SizesAssumption DEF IInv, TypeOK
<1>2. ReadInv'
  BY DEF ReadInv, Holding, Reading
<1> QED
  BY <1>1, <1>2, ConsumerQuiet

(* A consumer that finds data to read finds a whole block.                 *)
LEMMA DeqLookStep ==
  ASSUME IInv, NEW cap \in Capacities, DeqLook(cap)
  PROVE  IInv'
<1> USE DEF DeqLook, prodVars, bellVars
<1>1. TypeOK /\ readPosition \in Position /\ writePosition \in Position
  BY DEF IInv, TypeOK
<1>2. deqAvail' = Ahead(writePosition) /\ Ahead(writePosition) >= WORD
  BY DEF Ahead
<1>3. Ahead(writePosition) \in Nat
  BY <1>1, AheadRange
<1>4. TypeOK'
  BY <1>2, <1>3, SizesAssumption DEF IInv, TypeOK
<1>5. Len(received) < published
  <2>1. writePosition # readPosition
    BY <1>1, <1>2, Distance DEF Ahead, WORD
  <2> QED
    BY <2>1, Blocks, UnreadBlocks DEF IInv, PositionInv
<1>6. Oldest \in Unread
  BY <1>5, Blocks DEF Oldest, Unread, IInv, PositionInv
<1>7. sent[Oldest].start = readPosition
  BY <1>5, UnreadBlocks
<1>8. Span(sent[Oldest].size) =< deqAvail'
  <2>1. Ahead(sent[Oldest].start) + Span(sent[Oldest].size) =< Ahead(writePosition)
    BY <1>6, UnreadBlocks
  <2>2. Ahead(readPosition) = 0
    BY <1>1, Distance DEF Ahead
  <2>3. Span(sent[Oldest].size) \in Nat
    <3>1. sent[Oldest].size \in Nat
      BY <1>6, Blocks DEF Unread, IInv, PositionInv
    <3> QED
      BY <3>1, SpanLeast
  <2> QED
    BY <1>2, <1>3, <1>7, <2>1, <2>2, <2>3
<1>9. ReadInv'
  BY <1>5, <1>8 DEF ReadInv, Holding, Reading, Oldest
<1> QED
  BY <1>4, <1>9, ConsumerQuiet

(* While the consumer holds a block, that block is the oldest unread one,  *)
(* it begins at the read position, and its size word is there to be read.  *)
LEMMA HeldBlock ==
  ASSUME IInv, Holding
  PROVE  /\ Oldest \in Unread /\ Oldest \in DOMAIN sent
         /\ readPosition \in Position /\ readPosition % ALIGN = 0
         /\ sent[Oldest].start = readPosition
         /\ sent[Oldest].size \in Nat
         /\ \A k \in 0 .. WORD + sent[Oldest].size - 1 :
              mem[Address(Oldest, k)] = Byte(Oldest, k)
         /\ SizeWordAt(readPosition) = sent[Oldest].size
<1>1. Len(received) < published
  BY DEF IInv, ContentInv, ReadInv
<1>2. Oldest \in Unread /\ Oldest \in DOMAIN sent /\ sent[Oldest].size \in Nat
  BY <1>1, Blocks DEF Oldest, Unread, IInv, PositionInv
<1>3. sent[Oldest].start = readPosition
  BY <1>1, UnreadBlocks
<1>4. \A k \in 0 .. WORD + sent[Oldest].size - 1 :
        mem[Address(Oldest, k)] = Byte(Oldest, k)
  BY <1>2 DEF IInv, ContentInv, UnreadIntact
<1>5. readPosition \in Position /\ readPosition % ALIGN = 0
  BY DEF IInv, TypeOK, Aligned
<1>6. SizeWordAt(readPosition) = sent[Oldest].size
  <2>1. Address(Oldest, 0) = readPosition
    BY <1>3, <1>5, BufSizeAssumption DEF Address, Position
  <2>2. 0 \in 0 .. WORD + sent[Oldest].size - 1
    BY <1>2 DEF WORD
  <2>3. mem[readPosition] = Byte(Oldest, 0)
    BY <1>4, <2>1, <2>2
  <2> QED
    BY <1>2, <2>3 DEF SizeWordAt, Byte
<1> QED
  BY <1>2, <1>3, <1>4, <1>5, <1>6

(* The size word the consumer reads is within the data it has seen.        *)
LEMMA SizeWord == IInv => SizeWordSound
<1> SUFFICES ASSUME IInv, deqPc = "size"
             PROVE  SizeWordAt(readPosition) + WORD =< deqAvail
  BY DEF SizeWordSound
<1>1. SizeWordAt(readPosition) = sent[Oldest].size /\ sent[Oldest].size \in Nat
  BY HeldBlock DEF Holding
<1>2. Span(sent[Oldest].size) \in Nat /\ Span(sent[Oldest].size) >= WORD + sent[Oldest].size
  BY <1>1, SpanLeast
<1>3. Span(sent[Oldest].size) =< deqAvail /\ deqAvail \in Nat
  BY DEF IInv, ContentInv, ReadInv, TypeOK
<1> QED
  BY <1>1, <1>2, <1>3 DEF WORD

LEMMA DeqBadSizeStep ==
  ASSUME IInv, DeqBadSize
  PROVE  IInv'
<1> USE DEF DeqBadSize, prodVars, bellVars
<1>1. SizeWordAt(readPosition) \in Nat
  BY HeldBlock DEF Holding
<1>2. TypeOK'
  BY <1>1 DEF IInv, TypeOK
<1>3. ReadInv'
  BY DEF ReadInv, Holding, Reading
<1> QED
  BY <1>2, <1>3, ConsumerQuiet

LEMMA DeqReadSizeStep ==
  ASSUME IInv, DeqReadSize
  PROVE  IInv'
<1> USE DEF DeqReadSize, prodVars, bellVars
<1>1. SizeWordAt(readPosition) = sent[Oldest].size /\ sent[Oldest].size \in Nat
  BY HeldBlock DEF Holding
<1>2. TypeOK'
  BY <1>1 DEF IInv, TypeOK
<1>3. ReadInv'
  BY <1>1 DEF IInv, ContentInv, ReadInv, Holding, Reading, Oldest
<1> QED
  BY <1>2, <1>3, ConsumerQuiet

(* Both copies take bytes of the oldest block and of no other.             *)
LEMMA DeqCopyToEndStep ==
  ASSUME IInv, DeqCopyToEnd
  PROVE  IInv'
<1> USE DEF DeqCopyToEnd, prodVars, bellVars
<1> DEFINE done == UpToEnd(readPosition, dataSize)
<1>1. Holding /\ Reading /\ dataSize = sent[Oldest].size
  BY DEF Holding, Reading, IInv, ContentInv, ReadInv
<1>2. dataSize \in Nat
  BY <1>1, HeldBlock
<1>3. done \in 0 .. dataSize /\ readPosition + WORD + done =< BufSize
  BY <1>1, <1>2, HeldBlock, FirstCopy
<1>4. ASSUME NEW k \in 0 .. done - 1
      PROVE  mem[readPosition + WORD + k] = Byte(Oldest, WORD + k)
  <2>1. WORD + k \in 0 .. WORD + sent[Oldest].size - 1
    BY <1>1, <1>2, <1>3 DEF WORD
  <2>2. Address(Oldest, WORD + k) = readPosition + WORD + k
    <3>1. /\ readPosition \in Position /\ sent[Oldest].start = readPosition
          /\ WORD + k \in Nat
      BY <1>1, HeldBlock DEF WORD
    <3>2. Address(Oldest, WORD + k) = IF readPosition + (WORD + k) >= BufSize
                                     THEN readPosition + (WORD + k) - BufSize
                                     ELSE readPosition + (WORD + k)
      BY <3>1, AddressAt
    <3>3. k \in Nat /\ k < done /\ done \in Nat
      BY <1>2, <1>3
    <3> HIDE DEF done
    <3> QED
      BY <1>3, <3>1, <3>2, <3>3, BufSizeAssumption DEF Position, WORD
  <2> QED
    BY <1>1, <2>1, <2>2, HeldBlock
<1>5. dest' = [k \in 0 .. done - 1 |-> Byte(Oldest, WORD + k)]
  BY <1>4
<1>6. TypeOK'
  BY DEF IInv, TypeOK
<1>7. ReadInv'
  BY <1>1, <1>5 DEF IInv, ContentInv, ReadInv, Holding, Reading, Oldest, UpToEnd, AtMost
<1> QED
  BY <1>6, <1>7, ConsumerQuiet

LEMMA DeqCopyRestStep ==
  ASSUME IInv, DeqCopyRest
  PROVE  IInv'
<1> USE DEF DeqCopyRest, prodVars, bellVars
<1> DEFINE done == UpToEnd(readPosition, dataSize)
<1>1. Holding /\ Reading /\ dataSize = sent[Oldest].size
  BY DEF Holding, Reading, IInv, ContentInv, ReadInv
<1>2. dataSize \in Nat
  BY <1>1, HeldBlock
<1>3. /\ done \in 0 .. dataSize
      /\ done < dataSize => readPosition + WORD + done = BufSize
  BY <1>1, <1>2, HeldBlock, FirstCopy
<1>4. dest = [k \in 0 .. done - 1 |-> Byte(Oldest, WORD + k)]
  BY DEF IInv, ContentInv, ReadInv
<1>5. ASSUME NEW k \in 0 .. dataSize - 1
      PROVE  (IF k < done THEN dest[k] ELSE mem[k - done]) = Byte(Oldest, WORD + k)
  <2>1. CASE k < done
    BY <1>2, <1>3, <1>4, <2>1
  <2>2. CASE k >= done
    <3>1. WORD + k \in 0 .. WORD + sent[Oldest].size - 1
      BY <1>1, <1>2 DEF WORD
    <3>2. readPosition + WORD + done = BufSize
      BY <1>2, <1>3, <2>2
    <3>3. Address(Oldest, WORD + k) = k - done
      <4>1. /\ readPosition \in Position /\ sent[Oldest].start = readPosition
            /\ WORD + k \in Nat
        BY <1>1, HeldBlock DEF WORD
      <4>2. Address(Oldest, WORD + k) = IF readPosition + (WORD + k) >= BufSize
                                       THEN readPosition + (WORD + k) - BufSize
                                       ELSE readPosition + (WORD + k)
        BY <4>1, AddressAt
      <4>3. k \in Nat /\ done \in Nat
        BY <1>2, <1>3
      <4> HIDE DEF done
      <4> QED
        BY <2>2, <3>2, <4>1, <4>2, <4>3, BufSizeAssumption DEF Position, WORD
    <3>4. mem[k - done] = Byte(Oldest, WORD + k)
      BY <1>1, <3>1, <3>3, HeldBlock
    <3>5. ~(k < done)
      BY <1>2, <1>3, <2>2
    <3> QED
      BY <3>4, <3>5
  <2> QED
    BY <1>2, <1>3, <2>1, <2>2
<1>6. dest' = Payload(Oldest)
  BY <1>1, <1>5 DEF Payload
<1>7. TypeOK'
  BY DEF IInv, TypeOK
<1>8. ReadInv'
  BY <1>1, <1>6 DEF IInv, ContentInv, ReadInv, Holding, Reading, Oldest, Payload
<1> QED
  BY <1>7, <1>8, ConsumerQuiet

LEMMA DeqRingStep ==
  ASSUME IInv, DeqRing
  PROVE  IInv'
<1> USE DEF DeqRing, prodVars
<1>1. TypeOK'
  BY DEF IInv, TypeOK
<1>2. ReadInv'
  BY DEF ReadInv, Holding, Reading
<1> QED
  BY <1>1, <1>2, ConsumerQuiet

LEMMA InterruptStep ==
  ASSUME IInv, ConsumerInterrupt \/ ProducerInterrupt \/ UNCHANGED vars
  PROVE  IInv'
<1> USE DEF ConsumerInterrupt, ProducerInterrupt, vars, prodVars, consVars, bellVars
<1>1. TypeOK'
  <2>1. UNCHANGED <<prodVars, consVars, mem>>
    OBVIOUS
  <2>2. swint' \subseteq {"written", "read"} /\ announced' \in Nat
    BY DEF IInv, TypeOK
  <2> QED
    BY <2>1, <2>2 DEF IInv, TypeOK
<1>2. ReadInv'
  BY DEF IInv, ContentInv, ReadInv, Holding, Reading, Oldest, Payload, UpToEnd, AtMost
<1> QED
  BY <1>1, <1>2, ConsumerQuiet

(***************************************************************************)
(* The producer.                                                           *)
(***************************************************************************)

(* Byte k of the block under way lies k bytes beyond the write position,   *)
(* with a slot to spare.                                                   *)
LEMMA BlockUnderWay ==
  ASSUME IInv, Writing
  PROVE  /\ Len(sent) \in DOMAIN sent /\ Len(sent) \in Nat /\ Len(sent) = published + 1
         /\ sent[Len(sent)].start = writePosition /\ sent[Len(sent)].size = enqSize
         /\ writePosition \in Position /\ writePosition % ALIGN = 0 /\ enqSize \in Nat
         /\ Ahead(writePosition) \in Nat
         /\ Ahead(writePosition) + WORD + enqSize < BufSize
         /\ \A k \in 0 .. WORD + enqSize - 1 :
              /\ Address(Len(sent), k) \in Position
              /\ Ahead(Address(Len(sent), k)) = Ahead(writePosition) + k
<1>1. /\ writePosition \in Position /\ writePosition % ALIGN = 0 /\ enqSize \in Nat
      /\ readPosition \in Position /\ TypeOK
  BY DEF IInv, TypeOK, Aligned
<1>2. /\ published = Len(sent) - 1
      /\ sent[Len(sent)].start = writePosition /\ sent[Len(sent)].size = enqSize
  BY DEF IInv, PositionInv, HistoryInv
<1>3. Len(sent) \in DOMAIN sent /\ Len(sent) \in Nat /\ Len(sent) = published + 1
  BY <1>2, Blocks DEF IInv, PositionInv
<1>4. Ahead(writePosition) \in Nat
  BY <1>1, AheadRange
<1>5. Ahead(writePosition) + WORD + enqSize < BufSize
  <2>1. Ahead(writePosition) + Span(enqSize) + ALIGN =< BufSize
    BY DEF IInv, PositionInv, SpaceInv
  <2>2. Span(enqSize) \in Nat /\ Span(enqSize) >= WORD + enqSize
    BY <1>1, SpanLeast
  <2> QED
    BY <1>1, <1>4, <2>1, <2>2, BufSizeAssumption DEF WORD, ALIGN
<1>6. ASSUME NEW k \in 0 .. WORD + enqSize - 1
      PROVE  /\ Address(Len(sent), k) \in Position
             /\ Ahead(Address(Len(sent), k)) = Ahead(writePosition) + k
  <2>1. k \in Nat /\ k < WORD + enqSize
    BY <1>1 DEF WORD
  <2>2. Ahead(writePosition) + k < BufSize
    BY <1>1, <1>4, <1>5, <2>1, BufSizeAssumption DEF WORD
  <2>3. Address(Len(sent), k) = IF writePosition + k >= BufSize
                                THEN writePosition + k - BufSize ELSE writePosition + k
    BY <1>1, <1>2, <2>1, AddressAt
  <2> QED
    BY <1>1, <2>1, <2>2, <2>3, DistanceOfByte DEF Ahead
<1> QED
  BY <1>1, <1>2, <1>3, <1>4, <1>5, <1>6

(* Storing the next n bytes of the block under way disturbs neither an     *)
(* unread block nor the bytes of this one already stored.                  *)
LEMMA StoreStep ==
  ASSUME IInv, Writing, Writing', enqPc' \in {"copy", "wrap", "publish"},
         NEW p \in Position, NEW n \in Nat,
         BytesWritten \in Nat,
         BytesWritten + n =< WORD + enqSize,
         p + n =< BufSize,
         \A m \in 0 .. n - 1 : Address(Len(sent), BytesWritten + m) = p + m,
         BytesWritten' = BytesWritten + n,
         mem' = Stored(p, BytesWritten, n),
         UNCHANGED <<writePosition, enqSize, enqResult, sent, published, consVars, bellVars>>
  PROVE  IInv'
<1> DEFINE first == BytesWritten
           last  == Len(sent)
<1> USE DEF consVars, bellVars
<1>1. p \in Nat /\ enqSize \in Nat /\ last \in Nat /\ first \in Nat
  BY BlockUnderWay DEF Position
<1>2. \A q \in Position : mem'[q] = IF q \in p .. p + n - 1
                                    THEN Byte(last, first + (q - p)) ELSE mem[q]
  BY DEF Stored
<1>3. ASSUME NEW q \in p .. p + n - 1
      PROVE  Ahead(q) = Ahead(writePosition) + first + (q - p)
  <2>1. q - p \in 0 .. n - 1 /\ q = p + (q - p)
    BY <1>1
  <2>2. Address(last, first + (q - p)) = q
    BY <2>1
  <2>3. first + (q - p) \in 0 .. WORD + enqSize - 1
    BY <1>1, <2>1 DEF WORD
  <2>4. Ahead(Address(last, first + (q - p))) = Ahead(writePosition) + (first + (q - p))
    BY <2>3, BlockUnderWay
  <2>5. Ahead(writePosition) \in Nat
    BY BlockUnderWay
  <2> HIDE DEF first
  <2> QED
    BY <1>1, <2>1, <2>2, <2>4, <2>5
<1>4. TypeOK'
  <2>1. mem' \in [Position -> [id : Nat, off : Nat]]
    <3>1. \A q \in p .. p + n - 1 : Byte(last, first + (q - p)) \in [id : Nat, off : Nat]
      BY <1>1 DEF Byte
    <3> QED
      BY <3>1 DEF Stored, IInv, TypeOK
  <2> QED
    BY <2>1 DEF IInv, TypeOK
<1>5. Aligned' /\ PositionInv'
  BY SamePositions DEF IInv
<1>6. UnreadIntact'
  <2>1. Unread' = Unread /\ \A i, k : Address(i, k)' = Address(i, k)
    BY DEF Unread, Address
  <2>2. SUFFICES ASSUME NEW i \in Unread, NEW k \in 0 .. WORD + sent[i].size - 1
                 PROVE  mem'[Address(i, k)] = Byte(i, k)
    BY <2>1 DEF UnreadIntact
  <2> DEFINE a == Address(i, k)
  <2>3. a \in Position /\ Ahead(a) < Ahead(writePosition)
    BY UnreadByte
  <2>4. mem[a] = Byte(i, k)
    BY DEF IInv, ContentInv, UnreadIntact
  <2>5. a \notin p .. p + n - 1
    <3>1. SUFFICES ASSUME a \in p .. p + n - 1 PROVE FALSE
      OBVIOUS
    <3>2. Ahead(a) = Ahead(writePosition) + first + (a - p)
      BY <1>3, <3>1
    <3>3. Ahead(writePosition) \in Nat /\ a - p \in Nat
      BY <1>1, <3>1, BlockUnderWay
    <3> HIDE DEF a, first
    <3> QED
      BY <1>1, <2>3, <3>2, <3>3
  <2> QED
    BY <1>2, <2>3, <2>4, <2>5
<1>7. WriteInv'
  <2>1. SUFFICES ASSUME NEW k \in 0 .. first + n - 1
                 PROVE  mem'[Address(last, k)] = Byte(last, k)
    BY DEF WriteInv, Address
  <2> DEFINE a == Address(last, k)
  <2>2. k \in Nat /\ k \in 0 .. WORD + enqSize - 1
    BY <1>1, <2>1 DEF WORD
  <2>3. a \in Position /\ Ahead(a) = Ahead(writePosition) + k
    BY <2>2, BlockUnderWay
  <2>4. CASE k < first
    <3>1. mem[a] = Byte(last, k)
      BY <1>1, <2>2, <2>4 DEF IInv, ContentInv, WriteInv
    <3>2. a \notin p .. p + n - 1
      <4>1. SUFFICES ASSUME a \in p .. p + n - 1 PROVE FALSE
        OBVIOUS
      <4>2. Ahead(a) = Ahead(writePosition) + first + (a - p)
        BY <1>3, <4>1
      <4>3. Ahead(writePosition) \in Nat /\ a - p \in Nat
        BY <1>1, <4>1, BlockUnderWay, SMTT(30)
      <4> HIDE DEF a, first
      <4> QED
        BY <1>1, <2>2, <2>3, <2>4, <4>2, <4>3, SMTT(30)
    <3> QED
      BY <1>2, <2>3, <3>1, <3>2
  <2>5. CASE k >= first
    <3>1. k - first \in 0 .. n - 1 /\ k = first + (k - first)
      BY <1>1, <2>2, <2>5
    <3>2. a = p + (k - first)
      BY <3>1
    <3>3. a \in p .. p + n - 1 /\ first + (a - p) = k
      <4> HIDE DEF a, first
      <4> QED
        BY <1>1, <2>2, <3>1, <3>2
    <3> QED
      BY <1>2, <2>3, <3>3
  <2> HIDE DEF first
  <2> QED
    BY <1>1, <2>2, <2>4, <2>5
<1>8. ReadInv' /\ ReceivedIntact'
  BY DEF IInv, ContentInv, ReadInv, ReceivedIntact, Holding, Reading, Oldest, Payload,
         UpToEnd, AtMost
<1> QED
  BY <1>4, <1>5, <1>6, <1>7, <1>8 DEF IInv, ContentInv

LEMMA EnqWriteSizeStep ==
  ASSUME IInv, EnqWriteSize
  PROVE  IInv'
<1> USE DEF EnqWriteSize
<1>1. /\ Writing /\ Writing' /\ BytesWritten = 0 /\ BytesWritten' = BytesWritten + WORD
      /\ enqPc' \in {"copy", "wrap", "publish"}
  BY DEF Writing, BytesWritten, WORD
<1>2. /\ writePosition \in Position /\ enqSize \in Nat
      /\ writePosition % ALIGN = 0 /\ sent[Len(sent)].start = writePosition
  BY <1>1, BlockUnderWay
<1>3. writePosition + WORD < BufSize /\ writePosition \in Nat /\ WORD \in Nat
  BY <1>2, WordFits DEF Position, WORD
<1>4. ASSUME NEW m \in 0 .. WORD - 1
      PROVE  Address(Len(sent), BytesWritten + m) = writePosition + m
  <2>1. BytesWritten + m = m /\ m \in Nat /\ m < WORD
    BY <1>1 DEF WORD
  <2>2. Address(Len(sent), m) = IF writePosition + m >= BufSize
                                THEN writePosition + m - BufSize ELSE writePosition + m
    BY <1>2, <2>1, AddressAt
  <2> QED
    BY <1>3, <2>1, <2>2, BufSizeAssumption
<1>5. /\ BytesWritten + WORD =< WORD + enqSize /\ BytesWritten \in Nat
      /\ writePosition + WORD =< BufSize
  BY <1>1, <1>2, <1>3, BufSizeAssumption DEF WORD
<1> QED
  BY <1>1, <1>2, <1>3, <1>4, <1>5, StoreStep

LEMMA EnqCopyToEndStep ==
  ASSUME IInv, EnqCopyToEnd
  PROVE  IInv'
<1> DEFINE done == UpToEnd(writePosition, enqSize)
<1> USE DEF EnqCopyToEnd
<1>1. /\ Writing /\ Writing' /\ BytesWritten = WORD /\ enqPc' \in {"copy", "wrap", "publish"}
      /\ BytesWritten' = BytesWritten + done
  BY DEF Writing, BytesWritten, UpToEnd, AtMost
<1>2. /\ writePosition \in Position /\ enqSize \in Nat
      /\ writePosition % ALIGN = 0 /\ sent[Len(sent)].start = writePosition
  BY <1>1, BlockUnderWay
<1>3. /\ writePosition + WORD < BufSize /\ writePosition \in Nat
      /\ done \in Nat /\ done =< enqSize /\ writePosition + WORD + done =< BufSize
  BY <1>2, WordFits, FirstCopy DEF Position
<1> HIDE DEF done
<1>4. ASSUME NEW m \in 0 .. done - 1
      PROVE  Address(Len(sent), BytesWritten + m) = writePosition + WORD + m
  <2>1. WORD + m \in Nat /\ m \in Nat /\ m < done
    BY <1>3 DEF WORD
  <2>2. Address(Len(sent), WORD + m) = IF writePosition + (WORD + m) >= BufSize
                                       THEN writePosition + (WORD + m) - BufSize
                                       ELSE writePosition + (WORD + m)
    BY <1>2, <2>1, AddressAt
  <2> QED
    BY <1>1, <1>3, <2>1, <2>2, BufSizeAssumption DEF WORD
<1>5. /\ BytesWritten + done =< WORD + enqSize /\ BytesWritten \in Nat
      /\ writePosition + WORD \in Position
  BY <1>1, <1>2, <1>3, BufSizeAssumption DEF WORD, Position
<1>6. mem' = Stored(writePosition + WORD, BytesWritten, done)
  BY <1>1 DEF done
<1>7. UNCHANGED <<writePosition, enqSize, enqResult, sent, published, consVars, bellVars>>
  OBVIOUS
<1> HIDE DEF EnqCopyToEnd
<1> QED
  BY <1>1, <1>3, <1>4, <1>5, <1>6, <1>7, StoreStep

LEMMA EnqCopyRestStep ==
  ASSUME IInv, EnqCopyRest
  PROVE  IInv'
<1> DEFINE done == UpToEnd(writePosition, enqSize)
           rest == enqSize - done
<1> USE DEF EnqCopyRest
<1>1. /\ Writing /\ Writing' /\ BytesWritten = WORD + done /\ BytesWritten' = WORD + enqSize
      /\ enqPc' \in {"copy", "wrap", "publish"}
  BY DEF Writing, BytesWritten
<1>2. /\ writePosition \in Position /\ enqSize \in Nat
      /\ writePosition % ALIGN = 0 /\ sent[Len(sent)].start = writePosition
      /\ Ahead(writePosition) \in Nat /\ Ahead(writePosition) + WORD + enqSize < BufSize
  BY <1>1, BlockUnderWay
<1>3. /\ writePosition \in Nat /\ done \in Nat /\ done =< enqSize
      /\ done < enqSize => writePosition + WORD + done = BufSize
  BY <1>2, FirstCopy DEF Position
<1>4. mem' = Stored(0, BytesWritten, rest)
  BY <1>1
<1>5. UNCHANGED <<writePosition, enqSize, enqResult, sent, published, consVars, bellVars>>
  OBVIOUS
<1> HIDE DEF done, EnqCopyRest
<1>6. /\ rest \in Nat /\ BytesWritten \in Nat /\ BytesWritten' = BytesWritten + rest
      /\ BytesWritten + rest =< WORD + enqSize
  BY <1>1, <1>2, <1>3 DEF WORD
<1>7. 0 \in Position /\ 0 + rest =< BufSize
  BY <1>2, <1>3, BufSizeAssumption DEF WORD, Position
<1>8. ASSUME NEW m \in 0 .. rest - 1
      PROVE  Address(Len(sent), BytesWritten + m) = 0 + m
  <2>1. BytesWritten + m \in Nat /\ m \in Nat /\ m < rest
    BY <1>6
  <2>2. Address(Len(sent), BytesWritten + m) = IF writePosition + (BytesWritten + m) >= BufSize
                                       THEN writePosition + (BytesWritten + m) - BufSize
                                       ELSE writePosition + (BytesWritten + m)
    BY <1>2, <2>1, AddressAt
  <2>3. writePosition + WORD + done = BufSize
    BY <1>2, <1>3, <2>1
  <2> QED
    BY <1>1, <1>3, <2>1, <2>2, <2>3, BufSizeAssumption DEF WORD
<1> HIDE DEF rest
<1> QED
  BY <1>1, <1>4, <1>5, <1>6, <1>7, <1>8, StoreStep

(* Accepting a message begins a block, for which the slots are free.       *)
LEMMA EnqAcceptStep ==
  ASSUME IInv, NEW n \in Sizes, EnqAccept(n)
  PROVE  IInv'
<1> USE DEF EnqAccept, consVars, bellVars
<1> DEFINE block == [start |-> writePosition, size |-> n]
           L == Len(sent)
<1>1. /\ writePosition \in Position /\ readPosition \in Position /\ n \in Nat
      /\ writePosition % ALIGN = 0 /\ readPosition % ALIGN = 0 /\ TypeOK
  BY SizesAssumption DEF IInv, TypeOK, Aligned
<1>2. ~Writing /\ Writing' /\ published = L
  BY DEF Writing, IInv, PositionInv, HistoryInv
<1>3. /\ L \in Nat /\ Len(received) \in Nat /\ Len(received) =< L
      /\ DOMAIN sent = 1 .. L
  BY <1>2, Blocks DEF IInv, PositionInv
<1>4. /\ Len(sent') = L + 1 /\ DOMAIN sent' = 1 .. L + 1
      /\ sent'[L + 1] = block /\ \A i \in 1 .. L : sent'[i] = sent[i]
      /\ sent' \in Seq([start : Position, size : Nat])
  <2> DEFINE Block == [start : Position, size : Nat]
  <2>1. sent \in Seq(Block) /\ block \in Block
    BY <1>1 DEF TypeOK
  <2>2. sent' = Append(sent, block)
    OBVIOUS
  <2> HIDE DEF block, Block
  <2>3. /\ Len(sent') = Len(sent) + 1 /\ DOMAIN sent' = 1 .. Len(sent) + 1
        /\ sent'[Len(sent) + 1] = block /\ \A i \in 1 .. Len(sent) : sent'[i] = sent[i]
        /\ sent' \in Seq(Block)
    BY <2>1, <2>2
  <2> QED
    BY <2>3 DEF Block
<1>5. TypeOK'
  <2>1. Len(received') =< published' /\ published' =< Len(sent')
    BY <1>2, <1>3, <1>4
  <2> QED
    BY <1>1, <1>4, <2>1 DEF TypeOK
<1>6. Aligned'
  BY <1>1, <1>3, <1>4 DEF IInv, Aligned
<1>7. Unread' = Unread /\ Oldest' = Oldest
  BY DEF Unread, Oldest
<1>8. \A i \in 1 .. L + 1 : Begin(i)' = Begin(i)
  <2> HIDE DEF L
  <2>1. TAKE i \in 1 .. L + 1
  <2>2. CASE i \in 1 .. L
    BY <1>3, <1>4, <2>2 DEF Begin
  <2>3. CASE i = L + 1
    BY <1>3, <1>4, <2>3 DEF Begin
  <2> QED
    BY <1>3, <2>2, <2>3
<1>9. HistoryInv'
  <2>1. sent'[Len(sent')] = [start |-> writePosition', size |-> enqSize']
    BY <1>4
  <2>2. published' = Len(sent') - 1
    BY <1>2, <1>3, <1>4
  <2> QED
    BY <1>2, <2>1, <2>2 DEF IInv, PositionInv, HistoryInv
<1>10. ChainInv'
  <2>1. Begin(Oldest)' = readPosition'
    BY <1>3, <1>7, <1>8 DEF IInv, PositionInv, ChainInv, Oldest
  <2>2. ASSUME NEW i \in 1 .. published
        PROVE  Begin(i + 1)' = Advance(sent'[i].start, sent'[i].size)
    BY <1>2, <1>3, <1>4, <1>8 DEF IInv, PositionInv, ChainInv
  <2> QED
    BY <2>1, <2>2 DEF ChainInv
<1>11. OrderInv'
  <2>1. SUFFICES ASSUME NEW i \in Unread, NEW j \in i + 1 .. published + 1
                 PROVE  Ahead(Begin(i)') + Span(sent'[i].size) =< Ahead(Begin(j)')
    BY <1>7 DEF OrderInv, Ahead
  <2>2. i \in 1 .. L /\ i \in 1 .. L + 1 /\ j \in 1 .. L + 1
    BY <1>2, <1>3 DEF Unread
  <2> QED
    BY <1>4, <1>8, <2>2 DEF IInv, PositionInv, OrderInv
<1>12. SpaceInv'
  <2>1. AvailSpace(readPosition, writePosition) >= WORD + n + ALIGN
    BY <1>1, BufSizeAssumption DEF EnqueueRefused, AvailSpace, Position, WORD, ALIGN
  <2>2. AvailSpace(readPosition, writePosition) = BufSize - Ahead(writePosition)
        /\ Ahead(writePosition) % ALIGN = 0
    BY <1>1, Distance DEF Ahead
  <2>3. Ahead(writePosition) \in Nat /\ Ahead(writePosition) < BufSize
    BY <1>1, AheadRange
  <2> DEFINE free == BufSize - Ahead(writePosition) - ALIGN
  <2>4. free \in Nat /\ free >= WORD + n
    BY <1>1, <2>1, <2>2, <2>3, BufSizeAssumption DEF WORD, ALIGN
  <2>5. free % ALIGN = 0
    BY <2>2, <2>3, BufSizeAssumption, SlotsLeft
  <2>6. Span(n) \in Nat /\ Span(n) =< free
    <3> HIDE DEF free
    <3> QED
      BY <1>1, <2>4, <2>5, SpanLeast
  <2>7. Ahead(writePosition) + Span(n) + ALIGN =< BufSize
    BY <2>3, <2>6, BufSizeAssumption DEF ALIGN
  <2> QED
    BY <2>7 DEF SpaceInv, Ahead
<1>13. \A i \in 1 .. L : \A k : Address(i, k)' = Address(i, k)
  BY <1>4 DEF Address
<1>14. UnreadIntact'
  <2>1. \A i \in Unread : i \in 1 .. L
    BY <1>2, <1>3 DEF Unread
  <2> QED
    BY <1>4, <1>7, <1>13, <2>1 DEF IInv, ContentInv, UnreadIntact
<1>15. WriteInv'
  BY DEF WriteInv, BytesWritten
<1>16. ReadInv'
  <2>1. Holding => Oldest \in 1 .. L
    BY <1>2, <1>3 DEF IInv, ContentInv, ReadInv, Oldest
  <2>2. Holding => sent'[Oldest] = sent[Oldest] /\ Payload(Oldest)' = Payload(Oldest)
    BY <1>4, <2>1, <1>7 DEF Payload
  <2> QED
    BY <1>7, <2>2 DEF IInv, ContentInv, ReadInv, Holding, Reading, UpToEnd, AtMost
<1>17. ReceivedIntact'
  <2>1. \A i \in DOMAIN received : i \in 1 .. L
    <3>1. DOMAIN received = 1 .. Len(received)
      <4>1. received \in Seq(Messages)
        BY DEF IInv, PositionInv, HistoryInv
      <4> QED
        BY <4>1
    <3> QED
      BY <1>3, <3>1
  <2> QED
    BY <1>4, <2>1 DEF IInv, ContentInv, ReceivedIntact, Payload
<1> QED
  BY <1>5, <1>6, <1>9, <1>10, <1>11, <1>12, <1>14, <1>15, <1>16, <1>17
  DEF IInv, PositionInv, ContentInv

(* Moving the write position turns the block under way into an unread one. *)
LEMMA EnqPublishStep ==
  ASSUME IInv, EnqPublish
  PROVE  IInv'
<1> USE DEF EnqPublish, consVars, bellVars
<1> DEFINE L == Len(sent)
           next == Advance(writePosition, enqSize)
<1>1. Writing /\ ~Writing' /\ BytesWritten = WORD + enqSize /\ BytesWritten' = 0
  BY DEF Writing, BytesWritten
<1>2. /\ L \in Nat /\ L = published + 1 /\ L \in DOMAIN sent
      /\ sent[L].start = writePosition /\ sent[L].size = enqSize
      /\ writePosition \in Position /\ writePosition % ALIGN = 0 /\ enqSize \in Nat
      /\ Ahead(writePosition) \in Nat
  BY <1>1, BlockUnderWay
<1>3. /\ readPosition \in Position /\ TypeOK /\ published \in Nat
      /\ Len(received) \in Nat /\ Len(received) =< published
      /\ DOMAIN sent = 1 .. L
  BY Blocks DEF IInv, TypeOK, PositionInv
<1>4. Span(enqSize) \in Nat /\ Ahead(writePosition) + Span(enqSize) + ALIGN =< BufSize
  BY <1>1, <1>2, SpanLeast DEF IInv, PositionInv, SpaceInv
<1>5. Ahead(writePosition) + Span(enqSize) < BufSize /\ Span(enqSize) =< BufSize
  BY <1>2, <1>4, BufSizeAssumption DEF ALIGN
<1>6. next \in Position /\ next % ALIGN = 0
  BY <1>2, <1>5, AdvanceBySpan
<1>7. Ahead(next) = Ahead(writePosition) + Span(enqSize)
  BY <1>2, <1>3, <1>5, DistanceAfterWrite DEF Ahead
<1> HIDE DEF next
<1>8. TypeOK'
  <2>1. writePosition' \in Position
    BY <1>6 DEF next
  <2>2. published' \in Nat /\ Len(received') =< published' /\ published' =< Len(sent')
    BY <1>2, <1>3
  <2> QED
    BY <1>3, <2>1, <2>2 DEF TypeOK
<1>9. Aligned'
  BY <1>6 DEF next, IInv, Aligned
<1>10. HistoryInv'
  BY <1>1 DEF IInv, PositionInv, HistoryInv
<1>11. /\ Begin(L + 1)' = next
       /\ \A i \in 1 .. L : Begin(i)' = sent[i].start /\ Begin(i) = sent[i].start
  BY <1>2, <1>3 DEF Begin, next
<1>12. ChainInv'
  <2>1. Oldest' = Oldest /\ Oldest \in 1 .. L
    BY <1>2, <1>3 DEF Oldest
  <2>2. Begin(Oldest)' = readPosition'
    BY <1>11, <2>1 DEF IInv, PositionInv, ChainInv
  <2>3. ASSUME NEW i \in 1 .. L
        PROVE  Begin(i + 1)' = Advance(sent[i].start, sent[i].size)
    <3>1. CASE i = L
      BY <1>2, <1>11, <3>1 DEF next
    <3>2. CASE i # L
      <4>1. i \in 1 .. published /\ i + 1 \in 1 .. L
        BY <1>2, <1>3, <3>2
      <4> QED
        BY <1>11, <4>1 DEF IInv, PositionInv, ChainInv
    <3> QED
      BY <3>1, <3>2
  <2> QED
    BY <2>2, <2>3 DEF ChainInv
<1>13. Unread' = Len(received) + 1 .. L
  BY DEF Unread
<1>14. OrderInv'
  <2>1. SUFFICES ASSUME NEW i \in Len(received) + 1 .. L, NEW j \in i + 1 .. L + 1
                 PROVE  Ahead(Begin(i)') + Span(sent[i].size) =< Ahead(Begin(j)')
    BY <1>13 DEF OrderInv, Ahead
  <2>2. i \in 1 .. L /\ Begin(i)' = sent[i].start /\ Begin(i) = sent[i].start
    BY <1>3, <1>11
  <2>3. CASE j \in 1 .. L
    <3>1. i \in Unread /\ j \in i + 1 .. published + 1
      BY <1>2, <1>3, <2>3 DEF Unread
    <3>2. Begin(j)' = Begin(j)
      BY <1>11, <2>3
    <3> QED
      BY <2>2, <3>1, <3>2 DEF IInv, PositionInv, OrderInv
  <2>4. CASE j = L + 1 /\ i = L
    BY <1>2, <1>4, <1>7, <1>11, <2>2, <2>4
  <2>5. CASE j = L + 1 /\ i # L
    <3>1. i \in Unread
      BY <1>2, <1>3, <2>5 DEF Unread
    <3>2. Ahead(sent[i].start) + Span(sent[i].size) =< Ahead(writePosition)
      BY <3>1, UnreadBlocks
    <3>3. Ahead(sent[i].start) \in Nat /\ Span(sent[i].size) \in Nat
      <4>1. sent[i].start \in Position /\ sent[i].size \in Nat
        BY <2>2, Blocks DEF IInv, PositionInv
      <4> QED
        BY <1>3, <4>1, AheadRange, SpanLeast
    <3> QED
      BY <1>2, <1>4, <1>7, <1>11, <2>2, <2>5, <3>2, <3>3
  <2> QED
    BY <1>2, <1>3, <2>3, <2>4, <2>5
<1>15. SpaceInv' /\ WriteInv'
  BY <1>1 DEF SpaceInv, WriteInv
<1>16. UnreadIntact'
  <2>1. SUFFICES ASSUME NEW i \in Len(received) + 1 .. L, NEW k \in 0 .. WORD + sent[i].size - 1
                 PROVE  mem[Address(i, k)] = Byte(i, k)
    BY <1>13 DEF UnreadIntact, Address
  <2>2. CASE i = L
    <3>1. k \in 0 .. BytesWritten - 1
      <4>1. sent[i].size = enqSize
        BY <1>2, <2>2
      <4>2. BytesWritten = WORD + enqSize
        BY <1>1
      <4>3. k \in 0 .. WORD + enqSize - 1
        BY <4>1
      <4> QED
        BY <1>2, <4>2, <4>3 DEF WORD
    <3>2. mem[Address(L, k)] = Byte(L, k)
      BY <3>1 DEF IInv, ContentInv, WriteInv
    <3> QED
      BY <2>2, <3>2
  <2>3. CASE i # L
    <3>1. i \in Unread
      BY <1>2, <1>3, <2>3 DEF Unread
    <3> QED
      BY <3>1 DEF IInv, ContentInv, UnreadIntact
  <2> QED
    BY <2>2, <2>3
<1>17. ReadInv' /\ ReceivedIntact'
  <2>1. Len(received) < published => Len(received) < published'
    BY <1>2, <1>3
  <2> QED
    BY <2>1 DEF IInv, ContentInv, ReadInv, ReceivedIntact, Holding, Reading, Oldest, Payload,
                UpToEnd, AtMost
<1> QED
  BY <1>8, <1>9, <1>10, <1>12, <1>14, <1>15, <1>16, <1>17 DEF IInv, PositionInv, ContentInv

LEMMA EnqRingStep ==
  ASSUME IInv, EnqRing
  PROVE  IInv'
<1> USE DEF EnqRing, consVars
<1>1. Writing' = Writing /\ BytesWritten' = 0
  BY DEF Writing, BytesWritten
<1>2. TypeOK'
  BY DEF IInv, TypeOK
<1>3. Aligned' /\ PositionInv'
  BY <1>1, SamePositions DEF IInv
<1>4. UnreadIntact' /\ ReceivedIntact'
  BY SameContents DEF IInv, ContentInv
<1>5. WriteInv'
  BY <1>1 DEF WriteInv
<1>6. ReadInv'
  BY DEF IInv, ContentInv, ReadInv, Holding, Reading, Oldest, Payload, UpToEnd, AtMost
<1> QED
  BY <1>2, <1>3, <1>4, <1>5, <1>6 DEF IInv, ContentInv

(***************************************************************************)
(* The consumer moves on: everything ahead of it comes nearer by the span  *)
(* of the block it has read.                                               *)
(***************************************************************************)
LEMMA DeqPublishStep ==
  ASSUME IInv, DeqPublish
  PROVE  IInv'
<1> USE DEF DeqPublish, prodVars, bellVars
<1> DEFINE size == sent[Oldest].size
           next == Advance(readPosition, size)
<1>1. /\ Holding /\ Reading /\ dataSize = size /\ dest = Payload(Oldest)
      /\ Len(received) < published
  BY DEF Holding, Reading, IInv, ContentInv, ReadInv
<1>2. /\ Oldest \in Unread /\ Oldest \in DOMAIN sent /\ size \in Nat
      /\ readPosition \in Position /\ readPosition % ALIGN = 0
      /\ sent[Oldest].start = readPosition
  BY <1>1, HeldBlock
<1>3. /\ TypeOK /\ writePosition \in Position
      /\ published \in Nat /\ Len(received) \in Nat /\ Len(received) =< published
      /\ published =< Len(sent) /\ DOMAIN sent = 1 .. Len(sent)
      /\ \A i \in Nat : Begin(i) \in Position
      /\ Begin(published + 1) = writePosition
  BY Blocks DEF IInv, TypeOK, PositionInv
<1>4. Span(size) \in Nat
  BY <1>2, SpanLeast
<1>5. \A j \in Oldest + 1 .. published + 1 : Span(size) =< Ahead(Begin(j))
  <2>1. TAKE j \in Oldest + 1 .. published + 1
  <2>2. Ahead(Begin(Oldest)) + Span(size) =< Ahead(Begin(j))
    BY <1>2 DEF IInv, PositionInv, OrderInv
  <2>3. Begin(Oldest) = readPosition
    BY DEF IInv, PositionInv, ChainInv
  <2>4. Ahead(readPosition) = 0
    BY <1>2, Distance DEF Ahead
  <2> QED
    BY <1>4, <2>2, <2>3, <2>4
<1>6. \A j \in Oldest + 1 .. published + 1 :
        AvailData(next, Begin(j)) = Ahead(Begin(j)) - Span(size)
  <2>1. TAKE j \in Oldest + 1 .. published + 1
  <2>2. Begin(j) \in Position
    BY <1>3 DEF Oldest
  <2> QED
    BY <1>2, <1>5, <2>2, DistanceAfterRead DEF Ahead
<1>7. readPosition' = next
  BY <1>1
<1>8. next \in Position /\ next % ALIGN = 0
  <2>1. published + 1 \in Oldest + 1 .. published + 1
    BY <1>1, <1>3 DEF Oldest
  <2>2. Span(size) =< Ahead(writePosition)
    BY <1>3, <1>5, <2>1
  <2>3. Ahead(writePosition) \in Nat /\ Ahead(writePosition) < BufSize
    BY <1>3, AheadRange
  <2>4. Span(size) =< BufSize
    BY <1>4, <2>2, <2>3, BufSizeAssumption
  <2> HIDE DEF size
  <2> QED
    BY <1>2, <2>4, AdvanceBySpan
<1>9. received' \in Seq(Messages) /\ Len(received') = Len(received) + 1
      /\ DOMAIN received = 1 .. Len(received) /\ DOMAIN received' = 1 .. Len(received) + 1
      /\ received'[Len(received) + 1] = Payload(Oldest)
      /\ \A i \in 1 .. Len(received) : received'[i] = received[i]
  <2>1. Payload(Oldest) \in Messages
    <3>1. Payload(Oldest) \in [0 .. size - 1 -> [id : Nat, off : Nat]]
      <4>1. Oldest \in Nat
        BY <1>3 DEF Oldest
      <4>2. \A k \in 0 .. size - 1 : Byte(Oldest, WORD + k) \in [id : Nat, off : Nat]
        BY <1>2, <4>1 DEF Byte, WORD
      <4> QED
        BY <4>2 DEF Payload
    <3> QED
      BY <1>2, <3>1 DEF Messages
  <2>2. received \in Seq(Messages)
    BY DEF IInv, PositionInv, HistoryInv
  <2>3. received' = Append(received, Payload(Oldest))
    BY <1>1
  <2> DEFINE m == Payload(Oldest)
  <2> HIDE DEF m
  <2>4. m \in Messages /\ received' = Append(received, m)
    BY <2>1, <2>3 DEF m
  <2>5. /\ received' \in Seq(Messages) /\ Len(received') = Len(received) + 1
        /\ DOMAIN received = 1 .. Len(received) /\ DOMAIN received' = 1 .. Len(received) + 1
        /\ received'[Len(received) + 1] = m
        /\ \A i \in 1 .. Len(received) : received'[i] = received[i]
    BY <2>2, <2>4
  <2> QED
    BY <2>5 DEF m
<1> HIDE DEF next
<1>10. TypeOK'
  <2>1. Len(received') =< published'
    BY <1>1, <1>3, <1>9
  <2> QED
    BY <1>3, <1>7, <1>8, <2>1 DEF TypeOK
<1>11. Aligned'
  BY <1>7, <1>8 DEF IInv, Aligned
<1>12. Writing' = Writing /\ \A i : Begin(i)' = Begin(i)
  BY DEF Writing, Begin
<1>13. Oldest' = Oldest + 1 /\ Unread' = Oldest + 1 .. published
  BY <1>3, <1>9 DEF Oldest, Unread
<1>14. HistoryInv'
  BY <1>9, <1>12 DEF IInv, PositionInv, HistoryInv
<1>15. ChainInv'
  <2>1. Oldest \in 1 .. published
    BY <1>1, <1>3 DEF Oldest
  <2>2. Begin(Oldest + 1) = next
    BY <1>2, <2>1 DEF IInv, PositionInv, ChainInv, next
  <2> QED
    BY <1>7, <1>12, <1>13, <2>2 DEF IInv, PositionInv, ChainInv
<1>16. OrderInv'
  <2>1. SUFFICES ASSUME NEW i \in Oldest + 1 .. published, NEW j \in i + 1 .. published + 1
                 PROVE  AvailData(next, Begin(i)) + Span(sent[i].size) =< AvailData(next, Begin(j))
    BY <1>7, <1>12, <1>13 DEF OrderInv, Ahead
  <2>2. /\ i \in Unread /\ i \in Oldest + 1 .. published + 1 /\ i \in Nat
        /\ j \in Oldest + 1 .. published + 1 /\ j \in Nat /\ i \in 1 .. Len(sent)
    BY <1>3 DEF Oldest, Unread
  <2>3. Ahead(Begin(i)) + Span(sent[i].size) =< Ahead(Begin(j))
    BY <2>2 DEF IInv, PositionInv, OrderInv
  <2>4. /\ AvailData(next, Begin(i)) = Ahead(Begin(i)) - Span(size)
        /\ AvailData(next, Begin(j)) = Ahead(Begin(j)) - Span(size)
    BY <1>6, <2>2
  <2>5. /\ Ahead(Begin(i)) \in Nat /\ Ahead(Begin(j)) \in Nat
        /\ Span(sent[i].size) \in Nat
    <3>1. Begin(i) \in Position /\ Begin(j) \in Position
      BY <1>3, <2>2
    <3>2. sent[i].size \in Nat
      BY <2>2, Blocks DEF IInv, PositionInv
    <3> QED
      BY <1>3, <3>1, <3>2, AheadRange, SpanLeast
  <2> HIDE DEF size
  <2> QED
    BY <1>4, <2>3, <2>4, <2>5
<1>17. SpaceInv'
  <2>1. published + 1 \in Oldest + 1 .. published + 1
    BY <1>1, <1>3 DEF Oldest
  <2>2. AvailData(next, writePosition) = Ahead(writePosition) - Span(size)
    BY <1>3, <1>6, <2>1
  <2>3. Writing => Ahead(writePosition) + Span(enqSize) + ALIGN =< BufSize
    BY DEF IInv, PositionInv, SpaceInv
  <2>4. Ahead(writePosition) \in Nat /\ Span(enqSize) \in Nat
    <3>1. enqSize \in Nat
      BY <1>3 DEF TypeOK
    <3> QED
      BY <1>3, <3>1, AheadRange, SpanLeast
  <2>5. Writing => AvailData(next, writePosition) + Span(enqSize) + ALIGN =< BufSize
    <3> HIDE DEF size
    <3> QED
      BY <1>4, <2>2, <2>3, <2>4, BufSizeAssumption DEF ALIGN
  <2> QED
    BY <1>7, <1>12, <2>5 DEF SpaceInv, Ahead
<1>18. UnreadIntact'
  <2>1. \A i \in Unread' : i \in Unread
    BY <1>3, <1>13 DEF Unread, Oldest
  <2> QED
    BY <2>1 DEF IInv, ContentInv, UnreadIntact, Address
<1>19. WriteInv'
  BY DEF IInv, ContentInv, WriteInv, BytesWritten, Address, UpToEnd, AtMost
<1>20. ReadInv'
  BY DEF ReadInv, Holding, Reading
<1>21. ReceivedIntact'
  <2>1. \A i : Payload(i)' = Payload(i)
    BY DEF Payload
  <2>2. SUFFICES ASSUME NEW i \in 1 .. Len(received) + 1
                 PROVE  received'[i] = Payload(i)
    BY <1>9, <2>1 DEF ReceivedIntact
  <2>3. CASE i = Len(received) + 1
    BY <1>9, <2>3 DEF Oldest
  <2>4. CASE i # Len(received) + 1
    <3>1. i \in 1 .. Len(received)
      BY <1>3, <2>4
    <3> QED
      BY <1>9, <3>1 DEF IInv, ContentInv, ReceivedIntact
  <2> QED
    BY <2>3, <2>4
<1> QED
  BY <1>10, <1>11, <1>14, <1>15, <1>16, <1>17, <1>18, <1>19, <1>20, <1>21
  DEF IInv, PositionInv, ContentInv

(* Every step, of either end and however they interleave, preserves the    *)
(* invariant.                                                              *)
LEMMA NextInv == IInv /\ [Next]_vars => IInv'
<1> SUFFICES ASSUME IInv, [Next]_vars PROVE IInv'
  OBVIOUS
<1>1. ASSUME NEW n \in Sizes, EnqRefuse(n) PROVE IInv'
  BY <1>1, EnqRefuseStep
<1>2. ASSUME NEW n \in Sizes, EnqAccept(n) PROVE IInv'
  BY <1>2, EnqAcceptStep
<1>3. ASSUME NEW cap \in Capacities, DeqRefuse(cap) PROVE IInv'
  BY <1>3, DeqRefuseStep
<1>4. ASSUME NEW cap \in Capacities, DeqLook(cap) PROVE IInv'
  BY <1>4, DeqLookStep
<1>5. CASE EnqStep
  BY <1>5, EnqWriteSizeStep, EnqCopyToEndStep, EnqCopyRestStep, EnqPublishStep, EnqRingStep
  DEF EnqStep
<1>6. CASE DeqStep
  BY <1>6, DeqBadSizeStep, DeqReadSizeStep, DeqCopyToEndStep, DeqCopyRestStep,
     DeqPublishStep, DeqRingStep
  DEF DeqStep
<1>7. CASE ConsumerInterrupt \/ ProducerInterrupt \/ UNCHANGED vars
  BY <1>7, InterruptStep
<1> QED
  BY <1>1, <1>2, <1>3, <1>4, <1>5, <1>6, <1>7 DEF Next

-----------------------------------------------------------------------------
(***************************************************************************)
(* The theorems.                                                           *)
(***************************************************************************)

(* The ring is well formed at every step of the two cores: blocks chained  *)
(* on slot boundaries from the read to the write position, never           *)
(* overlapping, with a slot to spare.                                      *)
THEOREM Invariance == Spec => []IInv
  BY InitInv, NextInv, PTL DEF Spec

(* Every variable of the mailbox ring keeps its type: the positions are    *)
(* always addresses of the data area.                                      *)
THEOREM TypeCorrect == Spec => []TypeOK
<1>1. IInv => TypeOK
  BY DEF IInv
<1> QED
  BY <1>1, Invariance, PTL

(* EnqueueData and DequeueData keep both positions on slot boundaries, so  *)
(* that no size word straddles the end of the buffer.                      *)
THEOREM StaysAligned == Spec => []Aligned
<1>1. IInv => Aligned
  BY DEF IInv
<1> QED
  BY <1>1, Invariance, PTL

(* Equal positions mean that every message enqueued has been dequeued: the *)
(* slot EnqueueData keeps free tells a full ring from an empty one.        *)
THEOREM FullIsNotEmpty == Spec => []EmptyIffEqual
  BY Invariance, EmptyEqual, PTL

(* EnqueueData never overwrites a byte of a block DequeueData has still to *)
(* read, whatever the message sizes and wherever the block wraps.          *)
THEOREM NoOverwrite == Spec => []UnreadIntact
<1>1. IInv => UnreadIntact
  BY DEF IInv, ContentInv
<1> QED
  BY <1>1, Invariance, PTL

(* The size word DequeueData reads never exceeds the data it has seen.     *)
THEOREM SizeWordInData == Spec => []SizeWordSound
  BY Invariance, SizeWord, PTL

(* Messages are received in the order they were enqueued, none twice and   *)
(* none left out, each byte for byte.                                      *)
THEOREM FirstInFirstOut == Spec => []ReceivedIntact
<1>1. IInv => ReceivedIntact
  BY DEF IInv, ContentInv
<1> QED
  BY <1>1, Invariance, PTL

-----------------------------------------------------------------------------
(***************************************************************************)
(* The channel.  MessageChannel counts what is in it by a sum over the     *)
(* messages, the ring by the distance of its positions.  That they agree   *)
(* is an induction over the unread messages, put here as the choice of the *)
(* first place at which two running sums would differ.                     *)
(***************************************************************************)
(* A set of natural numbers that is not empty has a least member.          *)
LEMMA LeastMember ==
  ASSUME NEW S \in SUBSET Nat, S # {}
  PROVE  \E x \in S : \A y \in S : x =< y
<1> DEFINE R == OpToRel(<, Nat)
<1>1. IsWellFoundedOn(R, Nat)
  BY NatLessThanWellFounded
<1>2. \A x, y \in Nat : y < x => <<y, x>> \in R
  BY DEF OpToRel
<1> HIDE DEF R
<1>3. PICK x \in S : \A y \in S : ~(<<y, x>> \in R)
  BY <1>1, WFMin
<1>4. ASSUME NEW y \in S PROVE x =< y
  <2>1. x \in Nat /\ y \in Nat
    OBVIOUS
  <2>2. ~(y < x)
    BY <1>2, <1>3, <2>1, Zenon
  <2> QED
    BY <2>1, <2>2
<1> QED
  BY <1>4

(* Two functions that start alike and grow alike are alike.                *)
LEMMA SameSums ==
  ASSUME NEW n \in Nat, NEW f, NEW g, f[0] = g[0],
         \A i \in 1 .. n : f[i - 1] = g[i - 1] => f[i] = g[i]
  PROVE  f[n] = g[n]
<1> SUFFICES ASSUME f[n] # g[n] PROVE FALSE
  OBVIOUS
<1> DEFINE S == {i \in 0 .. n : f[i] # g[i]}
<1>1. S \in SUBSET Nat /\ n \in S
  OBVIOUS
<1>2. PICK i \in S : \A j \in S : i =< j
  BY <1>1, LeastMember
<1>3. i \in 1 .. n
  BY <1>2
<1>4. i - 1 \in 0 .. n /\ ~(i =< i - 1)
  BY <1>3
<1>5. f[i - 1] = g[i - 1]
  BY <1>2, <1>4
<1> QED
  BY <1>2, <1>3, <1>5

(* The weight of a sequence is what any running sum of its messages'       *)
(* weights comes to.                                                       *)
LEMMA WeightIsSum ==
  ASSUME NEW s, NEW n \in Nat, Len(s) = n, NEW d,
         d[0] = 0,
         \A i \in 1 .. n : d[i] = d[i - 1] + Span(Cardinality(DOMAIN s[i]))
  PROVE  Channel!TotalWeight(s) = d[n]
<1> DEFINE W(i) == Span(Cardinality(DOMAIN s[i]))
           Sums(f) == f = [i \in 0 .. n |-> IF i = 0 THEN 0 ELSE f[i - 1] + W(i)]
           g == [i \in 0 .. n |-> d[i]]
           c == CHOOSE f : Sums(f)
<1>1. Sums(g)
  <2> DEFINE h == [i \in 0 .. n |-> IF i = 0 THEN 0 ELSE g[i - 1] + W(i)]
  <2>1. ASSUME NEW i \in 0 .. n PROVE g[i] = h[i]
    <3>1. CASE i = 0
      BY <3>1
    <3>2. CASE i # 0
      <4>1. i \in 1 .. n /\ i - 1 \in 0 .. n
        BY <3>2
      <4>2. g[i - 1] = d[i - 1] /\ g[i] = d[i]
        BY <4>1
      <4>3. d[i] = d[i - 1] + W(i)
        BY <4>1
      <4> HIDE DEF W, g
      <4> QED
        BY <3>2, <4>2, <4>3
    <3> QED
      BY <3>1, <3>2
  <2> HIDE DEF W
  <2>2. g = h
    BY <2>1
  <2> QED
    BY <2>2
<1>2. Sums(c)
  <2> HIDE DEF Sums, g
  <2> QED
    BY <1>1
<1>3. Channel!TotalWeight(s) = c[n]
  BY Zenon DEF Channel!TotalWeight
<1> HIDE DEF c
<1>4. c[0] = d[0]
  BY <1>2
<1>5. ASSUME NEW i \in 1 .. n, c[i - 1] = d[i - 1] PROVE c[i] = d[i]
  <2>1. i \in 0 .. n /\ i # 0 /\ d[i] = d[i - 1] + W(i)
    OBVIOUS
  <2> HIDE DEF W
  <2>2. c[i] = c[i - 1] + W(i)
    BY <1>2, <2>1
  <2> QED
    BY <1>5, <2>1, <2>2
<1>6. c[n] = d[n]
  <2> HIDE DEF W, Sums, g
  <2> QED
    BY <1>4, <1>5, SameSums
<1> QED
  BY <1>3, <1>6

(* A block of n bytes of payload weighs what it spans in the ring.         *)
LEMMA PayloadWeight ==
  ASSUME NEW i, sent[i].size \in Nat
  PROVE  Span(Cardinality(DOMAIN Payload(i))) = Span(sent[i].size)
<1> DEFINE n == sent[i].size
<1>1. DOMAIN Payload(i) = 0 .. n - 1
  BY DEF Payload
<1>2. Cardinality(0 .. n - 1) = n
  <2> HIDE DEF n
  <2>1. n \in Nat
    BY DEF n
  <2> QED
    BY <2>1, FS_Interval
<1> QED
  BY <1>1, <1>2

(* From each block that is in the ring, the next begins its span further   *)
(* ahead.                                                                  *)
LEMMA NextBlock ==
  ASSUME IInv, NEW i \in Unread
  PROVE  Ahead(Begin(i + 1)) = Ahead(Begin(i)) + Span(sent[i].size)
<1> USE DEF IInv, PositionInv
<1>1. /\ i \in 1 .. published /\ i \in 1 .. Len(sent) /\ i \in Nat
      /\ sent[i].start \in Position /\ sent[i].start % ALIGN = 0
      /\ sent[i].size \in Nat /\ Begin(i) = sent[i].start
      /\ Begin(i + 1) \in Position
  BY Blocks DEF Unread, Begin
<1>2. i + 1 \in i + 1 .. published + 1
  BY <1>1, Blocks
<1>3. Ahead(Begin(i)) + Span(sent[i].size) =< Ahead(Begin(i + 1))
  BY <1>2 DEF OrderInv
<1>4. Ahead(Begin(i + 1)) < BufSize /\ Ahead(Begin(i + 1)) \in Nat /\ Ahead(Begin(i)) \in Nat
  BY <1>1, AheadRange
<1>5. Begin(i + 1) = Advance(sent[i].start, sent[i].size)
  BY <1>1 DEF ChainInv
<1>6. Span(sent[i].size) \in Nat
  BY <1>1, SpanLeast
<1>7. readPosition \in Position /\ Ahead(Begin(i)) + Span(sent[i].size) < BufSize
  BY <1>3, <1>4, <1>6, BufSizeAssumption DEF TypeOK
<1> QED
  BY <1>1, <1>5, <1>7, DistanceAfterWrite DEF Ahead

(* The messages published, as the channel sees them.                       *)
Published == [i \in 1 .. published |-> Payload(i)]

LEMMA PublishedMessages ==
  ASSUME IInv
  PROVE  /\ Published \in Seq(Messages) /\ Len(Published) = published
         /\ \A i \in 1 .. published : Payload(i) \in Messages
<1>1. ASSUME NEW i \in 1 .. published PROVE Payload(i) \in Messages
  <2>1. i \in Nat /\ sent[i].size \in Nat
    BY Blocks DEF IInv, PositionInv
  <2>2. Payload(i) \in [0 .. sent[i].size - 1 -> [id : Nat, off : Nat]]
    BY <2>1 DEF Payload, Byte, WORD
  <2> QED
    BY <2>1, <2>2 DEF Messages
<1>2. published \in Nat
  BY DEF IInv, TypeOK
<1> HIDE DEF Messages
<1> QED
  BY <1>1, <1>2 DEF Published

(* The weight of the messages in the channel is the distance from the read *)
(* to the write position.                                                  *)
LEMMA WeightInChannel ==
  ASSUME IInv
  PROVE  Channel!TotalWeight(Channel!InChannel) = Ahead(writePosition)
<1> DEFINE r == Len(received)
           n == published - r
           q == SubSeq(Published, r + 1, Len(Published))
           d == [i \in 0 .. n |-> Ahead(Begin(Oldest + i))]
<1>1. /\ published \in Nat /\ r \in Nat /\ r =< published /\ n \in Nat
      /\ Begin(published + 1) = writePosition /\ Begin(Oldest) = readPosition
  BY Blocks DEF IInv, PositionInv, ChainInv
<1>2. q = Channel!InChannel
  BY DEF Channel!InChannel, Published
<1>3. Len(q) = n /\ \A i \in 1 .. n : q[i] = Payload(r + i)
  <2>1. Len(Published) = published /\ \A i \in 1 .. published : Published[i] \in Messages
    BY PublishedMessages DEF Published
  <2>2. \A i \in r + 1 .. published : Published[i] \in Messages /\ Published[i] = Payload(i)
    BY <1>1, <2>1 DEF Published
  <2> HIDE DEF Messages, r
  <2>3. /\ Len(SubSeq(Published, r + 1, published)) =
             IF r + 1 =< published THEN published - (r + 1) + 1 ELSE 0
        /\ \A i \in 1 .. published - (r + 1) + 1 :
             SubSeq(Published, r + 1, published)[i] = Published[r + 1 + i - 1]
    BY <1>1, <2>2, SubSeqProperties
  <2>4. published - (r + 1) + 1 = n /\ \A i \in 1 .. n : r + 1 + i - 1 = r + i
    BY <1>1
  <2>5. \A i \in 1 .. n : r + i \in r + 1 .. published
    BY <1>1
  <2> HIDE DEF n
  <2>6. n = 0 \/ r + 1 =< published
    BY <1>1 DEF n
  <2>7. ~(r + 1 =< published) => n = 0
    BY <1>1 DEF n
  <2> QED
    BY <2>1, <2>2, <2>3, <2>4, <2>5, <2>7
<1>4. d[0] = 0
  <2>1. Ahead(readPosition) = 0
    BY Distance DEF Ahead, IInv, TypeOK
  <2>2. Oldest + 0 = Oldest /\ 0 \in 0 .. n
    BY <1>1 DEF Oldest
  <2> QED
    BY <1>1, <2>1, <2>2
<1>5. ASSUME NEW i \in 1 .. n
      PROVE  d[i] = d[i - 1] + Span(Cardinality(DOMAIN q[i]))
  <2>1. r + i \in Unread /\ r + i \in 1 .. published
    BY <1>1 DEF Unread
  <2>2. sent[r + i].size \in Nat
    BY <2>1, Blocks DEF IInv, PositionInv
  <2>3. Span(Cardinality(DOMAIN q[i])) = Span(sent[r + i].size)
    BY <1>3, <2>2, PayloadWeight
  <2>4. Ahead(Begin((r + i) + 1)) = Ahead(Begin(r + i)) + Span(sent[r + i].size)
    BY <2>1, NextBlock
  <2>5. /\ Oldest + i = (r + i) + 1 /\ Oldest + (i - 1) = r + i
        /\ i \in 0 .. n /\ i - 1 \in 0 .. n
    BY <1>1 DEF Oldest
  <2> HIDE DEF r, n, q
  <2> QED
    BY <2>3, <2>4, <2>5
<1>6. Channel!TotalWeight(q) = d[n]
  <2>1. n \in Nat /\ Len(q) = n
    BY <1>1, <1>3
  <2> HIDE DEF n, d, q, r
  <2> QED
    BY <1>4, <1>5, <2>1, WeightIsSum
<1>7. d[n] = Ahead(writePosition)
  <2>1. Oldest + n = published + 1 /\ n \in 0 .. n
    BY <1>1 DEF Oldest
  <2> HIDE DEF n
  <2> QED
    BY <1>1, <2>1
<1> HIDE DEF q
<1> QED
  BY <1>2, <1>6, <1>7

(***************************************************************************)
(* The ring implements the channel: a message is accepted when             *)
(* writePosition moves past it and is handed over when readPosition does.  *)
(***************************************************************************)
LEMMA ChannelInit == Init => Channel!Init
  BY DEF Init, Channel!Init

(* A step that publishes nothing and returns no message is none of the     *)
(* channel's, even one that begins a block.                                *)
LEMMA ChannelStutters ==
  ASSUME IInv, UNCHANGED <<published, received>>,
         sent' = sent \/ \E n \in Sizes : EnqAccept(n)
  PROVE  UNCHANGED Channel!chanVars
<1>1. /\ published \in Nat /\ published =< Len(sent) /\ DOMAIN sent = 1 .. Len(sent)
      /\ Len(sent) \in Nat
  BY Blocks DEF IInv, PositionInv
<1>2. \A i \in 1 .. published : sent'[i] = sent[i]
  <2>1. CASE sent' = sent
    BY <2>1
  <2>2. CASE \E n \in Sizes : EnqAccept(n)
    <3> DEFINE Block == [start : Position, size : Nat]
    <3>1. PICK b \in Block : sent' = Append(sent, b)
      BY <2>2, SizesAssumption DEF EnqAccept, IInv, TypeOK
    <3>2. sent \in Seq(Block)
      BY DEF IInv, TypeOK
    <3> HIDE DEF Block
    <3>3. \A i \in 1 .. Len(sent) : sent'[i] = sent[i]
      BY <3>1, <3>2, AppendProperties
    <3> QED
      BY <1>1, <3>3
  <2> QED
    BY <2>1, <2>2
<1>3. \A i \in 1 .. published : Payload(i)' = Payload(i)
  BY <1>2 DEF Payload
<1>4. [i \in 1 .. published |-> Payload(i)]' = [i \in 1 .. published |-> Payload(i)]
  BY <1>3
<1> QED
  BY <1>4 DEF Channel!chanVars

(* Publishing a block accepts the message: the room EnqueueData asked for  *)
(* is room in the channel.                                                 *)
LEMMA ChannelEnqueue == IInv /\ EnqPublish => Channel!Enqueue
<1> SUFFICES ASSUME IInv, EnqPublish PROVE Channel!Enqueue
  OBVIOUS
<1> DEFINE p == Published
           m == Payload(published + 1)
<1>1. /\ published \in Nat /\ Len(sent) = published + 1 /\ published' = published + 1
      /\ sent' = sent /\ received' = received
      /\ sent[Len(sent)] = [start |-> writePosition, size |-> enqSize]
      /\ enqSize \in Nat /\ Ahead(writePosition) + Span(enqSize) + ALIGN =< BufSize
  BY Blocks DEF EnqPublish, consVars, IInv, TypeOK, PositionInv, HistoryInv, SpaceInv, Writing
<1>2. p \in Seq(Messages) /\ Len(p) = published
  BY PublishedMessages
<1>3. m \in Messages
  <2>1. m \in [0 .. enqSize - 1 -> [id : Nat, off : Nat]]
    BY <1>1 DEF Payload, Byte, WORD
  <2> QED
    BY <1>1, <2>1 DEF Messages
<1>4. Published' = Append(p, m)
  <2>1. \A i : Payload(i)' = Payload(i)
    BY <1>1 DEF Payload
  <2>2. Published' = [i \in 1 .. published + 1 |-> Payload(i)]
    BY <1>1, <2>1 DEF Published
  <2>3. /\ Append(p, m) \in Seq(Messages) /\ Len(Append(p, m)) = published + 1
        /\ \A i \in 1 .. published : Append(p, m)[i] = p[i]
        /\ Append(p, m)[published + 1] = m
    <3> HIDE DEF Messages, p, m
    <3> QED
      BY <1>2, <1>3, AppendProperties
  <2>4. \A i \in 1 .. published + 1 : Append(p, m)[i] = Payload(i)
    <3>1. \A i \in 1 .. published : p[i] = Payload(i)
      BY DEF Published
    <3> HIDE DEF p
    <3> QED
      BY <1>1, <2>3, <3>1
  <2>5. Append(p, m) = [i \in 1 .. published + 1 |-> Append(p, m)[i]]
    <3>1. Append(p, m) \in [1 .. published + 1 -> Messages]
      <4> HIDE DEF Messages, p, m
      <4> QED
        BY <2>3, LenProperties
    <3> DEFINE q == Append(p, m)
    <3> HIDE DEF Messages, q
    <3>2. q = [i \in 1 .. published + 1 |-> q[i]]
      BY <3>1 DEF q
    <3> QED
      BY <3>2 DEF q
  <2> QED
    BY <2>2, <2>4, <2>5
<1>5. Len(Append(p, m)) = published + 1 /\ Append(p, m)[published + 1] = m
  <2> HIDE DEF Messages, p, m
  <2> QED
    BY <1>2, <1>3, AppendProperties
<1>6. Channel!TotalWeight(Channel!InChannel) + Span(Cardinality(DOMAIN m)) =< BufSize - ALIGN
  <2>1. Channel!TotalWeight(Channel!InChannel) = Ahead(writePosition)
    BY WeightInChannel
  <2>2. Span(Cardinality(DOMAIN m)) = Span(enqSize)
    BY <1>1, PayloadWeight
  <2>3. Ahead(writePosition) \in Nat /\ Span(enqSize) \in Nat
    BY <1>1, AheadRange, SpanLeast DEF IInv, TypeOK
  <2> HIDE DEF m
  <2> QED
    BY <1>1, <2>1, <2>2, <2>3, BufSizeAssumption DEF ALIGN
<1>7. Channel!Fits(m)
  BY <1>6 DEF Channel!Fits
<1> HIDE DEF m
<1> QED
  BY <1>1, <1>2, <1>4, <1>5, <1>7 DEF Channel!Enqueue, Published

(* Moving the read position hands over the oldest message, whole.          *)
LEMMA ChannelDequeue == IInv /\ DeqPublish => Channel!Dequeue
<1> SUFFICES ASSUME IInv, DeqPublish PROVE Channel!Dequeue
  OBVIOUS
<1>1. /\ received' = Append(received, dest) /\ UNCHANGED <<published, sent>>
      /\ Len(received) < published /\ Len(received) \in Nat /\ published \in Nat
      /\ dest = Payload(Oldest)
  BY Blocks DEF DeqPublish, prodVars, IInv, PositionInv, ContentInv, ReadInv, Holding
<1>2. Oldest \in 1 .. published
  BY <1>1 DEF Oldest
<1>3. Published' = Published
  BY <1>1 DEF Published, Payload
<1>4. Len(Published) = published /\ Published[Oldest] = dest
  BY <1>1, <1>2, PublishedMessages DEF Published
<1> QED
  BY <1>1, <1>3, <1>4 DEF Channel!Dequeue, Published, Oldest

(* Every step of the two cores is one of the channel, or none.             *)
LEMMA ChannelStep == IInv /\ [Next]_vars => [Channel!Next]_Channel!chanVars
<1> SUFFICES ASSUME IInv, [Next]_vars PROVE [Channel!Next]_Channel!chanVars
  OBVIOUS
<1>1. CASE EnqPublish
  BY <1>1, ChannelEnqueue DEF Channel!Next
<1>2. CASE DeqPublish
  BY <1>2, ChannelDequeue DEF Channel!Next
<1>3. CASE \E n \in Sizes : EnqRefuse(n) \/ EnqAccept(n)
  <2>1. UNCHANGED <<published, received>> /\ (sent' = sent \/ \E n \in Sizes : EnqAccept(n))
    BY <1>3 DEF EnqRefuse, EnqAccept, consVars
  <2> QED
    BY <2>1, ChannelStutters
<1>4. CASE \E cap \in Capacities : DeqRefuse(cap) \/ DeqLook(cap)
  <2>1. UNCHANGED <<published, received, sent>>
    BY <1>4 DEF DeqRefuse, DeqLook, prodVars
  <2> QED
    BY <2>1, ChannelStutters
<1>5. CASE EnqStep /\ ~EnqPublish
  <2>1. UNCHANGED <<published, received, sent>>
    BY <1>5 DEF EnqStep, EnqWriteSize, EnqCopyToEnd, EnqCopyRest, EnqRing, consVars
  <2> QED
    BY <2>1, ChannelStutters
<1>6. CASE DeqStep /\ ~DeqPublish
  <2>1. UNCHANGED <<published, received, sent>>
    BY <1>6 DEF DeqStep, DeqBadSize, DeqReadSize, DeqCopyToEnd, DeqCopyRest, DeqRing, prodVars
  <2> QED
    BY <2>1, ChannelStutters
<1>7. CASE ConsumerInterrupt \/ ProducerInterrupt \/ UNCHANGED vars
  <2>1. UNCHANGED <<published, received, sent>>
    BY <1>7 DEF ConsumerInterrupt, ProducerInterrupt, vars, prodVars, consVars
  <2> QED
    BY <2>1, ChannelStutters
<1> QED
  BY <1>1, <1>2, <1>3, <1>4, <1>5, <1>6, <1>7 DEF Next

(* The shared-memory ring is a lossless bounded channel: EnqueueData and   *)
(* DequeueData, with all that they do step by step and in parallel,        *)
(* implement MessageChannel.                                               *)
THEOREM RingImplementsChannel == Spec => ImplementsChannel
  BY ChannelInit, ChannelStep, Invariance, PTL DEF Spec, ImplementsChannel, Channel!Spec

(* A refused block really does not fit beside the messages unread.         *)
LEMMA RefusalIsFull ==
  ASSUME IInv, NEW n \in Sizes, EnqRefuse(n)
  PROVE  Channel!TotalWeight(Channel!InChannel) + Span(n) > BufSize - ALIGN
<1>1. /\ readPosition \in Position /\ writePosition \in Position
      /\ writePosition % ALIGN = 0 /\ n \in Nat
  BY SizesAssumption DEF IInv, TypeOK, Aligned
<1>2. Span(n) \in Nat /\ Span(n) >= WORD + n
  BY <1>1, SpanLeast
<1>3. writePosition + WORD < BufSize /\ readPosition < BufSize
  BY <1>1, WordFits, BufSizeAssumption DEF Position
<1>4. AvailSpace(readPosition, writePosition) < WORD + n + ALIGN
  BY <1>1, <1>3, BufSizeAssumption DEF EnqRefuse, EnqueueRefused, Position, WORD
<1>5. AvailSpace(readPosition, writePosition) = BufSize - Ahead(writePosition)
  BY <1>1, Distance DEF Ahead
<1>6. Ahead(writePosition) \in Nat
  BY <1>1, AheadRange DEF IInv
<1> QED
  BY <1>1, <1>2, <1>4, <1>5, <1>6, WeightInChannel, BufSizeAssumption DEF WORD, ALIGN

(* EnqueueData refuses only what really does not fit: its arithmetic on    *)
(* wrapped positions and the extra ALIGN bytes cost no space.              *)
THEOREM OnlyWhenFull == Spec => RefusedOnlyWhenFull
<1>1. IInv /\ [Next]_vars =>
        [\A n \in Sizes : EnqRefuse(n) =>
           Channel!TotalWeight(Channel!InChannel) + Span(n) > BufSize - ALIGN]_vars
  BY RefusalIsFull
<1> QED
  BY <1>1, Invariance, PTL DEF Spec, RefusedOnlyWhenFull

-----------------------------------------------------------------------------
(***************************************************************************)
(* The announcement.  EventuallyAnnounced holds of fair behaviours because *)
(* of this: the consumer's core has been interrupted since the last        *)
(* message was published, or its interrupt is pending, or EnqueueData has  *)
(* still to raise it.  EnqueueData moves writePosition first and raises    *)
(* the interrupt after.                                                    *)
(***************************************************************************)
NeverUnannounced ==
  announced = published \/ "written" \in swint \/ enqPc = "ring"

LEMMA AnnouncementKept ==
  NeverUnannounced /\ [Next]_vars => NeverUnannounced'
<1> SUFFICES ASSUME NeverUnannounced, [Next]_vars
             PROVE  NeverUnannounced'
  OBVIOUS
<1> USE DEF NeverUnannounced, prodVars, consVars, bellVars
<1>1. ASSUME NEW n \in Sizes, EnqRefuse(n) \/ EnqAccept(n)
      PROVE  NeverUnannounced'
  BY <1>1 DEF EnqRefuse, EnqAccept
<1>2. ASSUME NEW cap \in Capacities, DeqRefuse(cap) \/ DeqLook(cap)
      PROVE  NeverUnannounced'
  BY <1>2 DEF DeqRefuse, DeqLook
<1>3. CASE EnqStep
  BY <1>3 DEF EnqStep, EnqWriteSize, EnqCopyToEnd, EnqCopyRest, EnqPublish, EnqRing
<1>4. CASE DeqStep
  BY <1>4 DEF DeqStep, DeqBadSize, DeqReadSize, DeqCopyToEnd, DeqCopyRest, DeqPublish, DeqRing
<1>5. CASE ConsumerInterrupt \/ ProducerInterrupt \/ UNCHANGED vars
  BY <1>5 DEF ConsumerInterrupt, ProducerInterrupt, vars
<1> QED
  BY <1>1, <1>2, <1>3, <1>4, <1>5 DEF Next

(* However EnqueueData's publishing and trigger fall between the steps of  *)
(* the other core, no message is left in the ring with its announcement    *)
(* neither made nor to come.                                               *)
THEOREM NoAnnouncementLost == Spec => []NeverUnannounced
<1>1. Init => NeverUnannounced
  BY DEF Init, NeverUnannounced
<1> QED
  BY <1>1, AnnouncementKept, PTL DEF Spec
=============================================================================
