------------------------- MODULE W5500Access_proofs -------------------------
(***************************************************************************)
(* Proofs about W5500Access, for every base, piece, modulus, length and    *)
(* number of timeouts: no completion is taken twice, the sizes gone by are *)
(* true, the bytes moved are the right ones, and a call that no timeout    *)
(* disturbs comes nearer to its end with every step.                       *)
(*                                                                         *)
(* Without a timeout a transfer is the one waited for (Undisturbed). The   *)
(* first reading of the size is then never above what the register was     *)
(* when it was complete, and the second never below (SizeInv); and a copy  *)
(* has filled the buffer as far as its pieces went (MoveInv).              *)
(***************************************************************************)
EXTENDS W5500Access, TLAPS

(* The transfer waited for is through.                                     *)
Through == waiting /\ ~busy

Undisturbed ==
  /\ waiting => pc \in Calls
  /\ busy => waiting /\ current.op = pc
  /\ xfer_completion > 0 => Through

(* The high byte of a reading may be older than its low byte.              *)
FirstHigh(h) ==
  /\ val1 = h * Base /\ h =< hi(size)
  /\ Through => rb = lo(at) /\ h =< hi(at) /\ at =< size

FirstReading(h) == val1 = h * Base + lo(at) /\ h =< hi(at) /\ at =< size

SecondHigh(g) == val = g * Base /\ hi(at) =< g

SizeInv ==
  /\ pc = "hi1" /\ Through => rb =< hi(size)
  /\ pc = "lo1" => \E h \in Nat : FirstHigh(h)
  /\ pc \in {"hi2", "lo2"} => \E h \in Nat : FirstReading(h)
  /\ pc = "hi2" /\ Through => hi(at) =< rb
  /\ pc = "lo2" => \E g \in Nat : SecondHigh(g)
  /\ pc \in {"getptr", "data", "setptr", "command"} => val = at /\ val =< size

(* The first k bytes have been moved, from the right places.               *)
FilledTo(k) == \A i \in 1 .. MaxLen : i =< k => buf[i] = (next + i - 1) % Modulus

PointerInv ==
  /\ pc = "command" \/ (pc = "setptr" /\ Through) => rd = (next + total) % Modulus
  /\ ~(pc = "command" \/ (pc = "setptr" /\ Through)) => rd = next
  /\ pc = "getptr" /\ Through => ptr = next
  /\ pc \in {"data", "setptr", "command"} => ptr = next
  /\ pc = "setptr" /\ busy => current.addr = (next + total) % Modulus

DataInv ==
  /\ pc = "getptr" => len = total /\ len > 0 /\ sent_byte = 0
  /\ pc = "data" /\ ~waiting =>
       len > 0 /\ sent_byte + len = total /\ FilledTo(sent_byte)
  /\ pc = "data" /\ waiting =>
       /\ sent_byte + len =< total
       /\ len = 0 \/ sent_byte + Chunk + len = total
  /\ pc = "data" /\ busy =>
       /\ current.from = sent_byte
       /\ current.n = total - len - sent_byte
       /\ current.addr = (next + sent_byte) % Modulus
       /\ FilledTo(sent_byte)
  /\ pc = "data" /\ Through => FilledTo(total - len)
  /\ pc \in {"setptr", "command"} => FilledTo(total)

MoveInv == PointerInv /\ DataInv

CleanInv == timeouts = 0 => Undisturbed /\ SizeInv /\ MoveInv

IInv == TypeOK /\ CleanInv
-----------------------------------------------------------------------------
(***************************************************************************)
(* Bytes and pointers.                                                     *)
(***************************************************************************)
LEMMA Digits ==
  ASSUME NEW x \in Nat
  PROVE  hi(x) \in Nat /\ lo(x) \in Byte /\ x = hi(x) * Base + lo(x)
<1>1. Base \in Nat \ {0}
  BY BaseAssumption
<1>2. x \div Base \in Int /\ x % Base \in 0 .. (Base - 1)
  BY <1>1
<1>3. x = Base * (x \div Base) + (x % Base)
  BY <1>1
<1>4. PICK d \in Int : d = x \div Base
  BY <1>2
<1>5. PICK r \in 0 .. (Base - 1) : r = x % Base
  BY <1>2
<1>6. x = Base * d + r
  BY <1>3, <1>4, <1>5
<1>7. ASSUME d =< -1 PROVE Base * d =< -Base
  BY <1>7, <1>1
<1>8. d >= 0
  BY <1>1, <1>6, <1>7
<1>9. Base * d = d * Base
  BY <1>1
<1> QED
  BY <1>4, <1>5, <1>6, <1>8, <1>9 DEF hi, lo, Byte

(* A number in front of another's low byte is ahead by whole bytes.        *)
LEMMA HighByteRules ==
  ASSUME NEW a \in Nat, NEW b \in Nat, a < b
  PROVE  a * Base + Base =< b * Base
<1>1. PICK d \in Nat : d = b - a - 1
  OBVIOUS
<1>2. b = a + 1 + d
  BY <1>1
<1>3. Base \in Nat /\ d * Base \in Nat /\ a * Base \in Nat
  BY BaseAssumption
<1>4. b * Base = a * Base + Base + d * Base
  BY <1>2, <1>3
<1> QED
  BY <1>3, <1>4

LEMMA HighByteMonotone ==
  ASSUME NEW x \in Nat, NEW y \in Nat, x =< y
  PROVE  hi(x) =< hi(y)
<1>1. /\ hi(x) \in Nat /\ lo(x) \in Byte /\ x = hi(x) * Base + lo(x)
      /\ hi(y) \in Nat /\ lo(y) \in Byte /\ y = hi(y) * Base + lo(y)
  BY Digits
<1>2. ASSUME hi(y) < hi(x) PROVE FALSE
  <2>1. hi(y) * Base + Base =< hi(x) * Base
    BY <1>1, <1>2, HighByteRules
  <2>2. hi(x) * Base \in Nat /\ hi(y) * Base \in Nat
    BY <1>1, BaseAssumption
  <2> QED
    BY <1>1, <2>1, <2>2, BaseAssumption DEF Byte
<1> QED
  BY <1>1, <1>2

(* The register's high byte is a byte.                                     *)
LEMMA HighByte ==
  ASSUME NEW x \in 0 .. (Base * Base - 1)
  PROVE  hi(x) \in Byte
<1>1. x \in Nat /\ Base \in Nat /\ Base * Base \in Nat
  BY BaseAssumption
<1>2. hi(x) \in Nat /\ lo(x) \in Byte /\ x = hi(x) * Base + lo(x)
  BY <1>1, Digits
<1>3. PICK d \in Nat : d = hi(x)
  BY <1>2
<1>4. ASSUME d >= Base PROVE d * Base >= Base * Base
  <2>1. PICK k \in Nat : k = d - Base
    BY <1>1, <1>4
  <2>2. d * Base = Base * Base + k * Base /\ k * Base \in Nat
    BY <1>1, <2>1
  <2> QED
    BY <1>1, <2>2
<1>5. d * Base \in Nat
  BY <1>1
<1> QED
  BY <1>1, <1>2, <1>3, <1>4, <1>5 DEF Byte

(* Two readings alike, of which the first is not above what the register   *)
(* was and the second not below, are what it was.                          *)
LEMMA Squeeze ==
  ASSUME NEW a \in Nat, NEW h \in Nat, NEW g \in Nat, NEW r \in Byte,
         h =< hi(a), hi(a) =< g, g * Base + r = h * Base + lo(a)
  PROVE  g * Base + r = a
<1>1. hi(a) \in Nat /\ lo(a) \in Byte /\ a = hi(a) * Base + lo(a)
  BY Digits
<1>2. Base \in Nat /\ g * Base \in Nat /\ h * Base \in Nat
  BY BaseAssumption
<1>3. ASSUME h < g PROVE FALSE
  <2>1. h * Base + Base =< g * Base
    BY <1>3, HighByteRules
  <2> QED
    BY <1>1, <1>2, <2>1 DEF Byte
<1>4. h = hi(a)
  BY <1>1, <1>3
<1> QED
  BY <1>1, <1>4

LEMMA PointerType ==
  ASSUME NEW a \in Nat
  PROVE  a % Modulus \in Pointer
BY ModulusAssumption DEF Pointer

(* Going on from a pointer that has wrapped is going on and wrapping.      *)
LEMMA PointerAdd ==
  ASSUME NEW a \in Nat, NEW b \in Nat
  PROVE  ((a % Modulus) + b) % Modulus = (a + b) % Modulus
<1>1. Modulus \in Nat \ {0}
  BY ModulusAssumption
<1>2. PICK q \in Int : q = a \div Modulus
  BY <1>1
<1>3. PICK r \in 0 .. (Modulus - 1) : r = a % Modulus
  BY <1>1
<1>4. a = Modulus * q + r
  BY <1>1, <1>2, <1>3
<1>5. PICK q2 \in Int : q2 = (r + b) \div Modulus
  BY <1>1
<1>6. PICK r2 \in 0 .. (Modulus - 1) : r2 = (r + b) % Modulus
  BY <1>1
<1>7. r + b = Modulus * q2 + r2
  BY <1>1, <1>5, <1>6
<1>8. PICK q3 \in Int : q3 = (a + b) \div Modulus
  BY <1>1
<1>9. PICK r3 \in 0 .. (Modulus - 1) : r3 = (a + b) % Modulus
  BY <1>1
<1>10. a + b = Modulus * q3 + r3
  BY <1>1, <1>8, <1>9
<1>11. PICK d \in Int : d = q3 - q - q2
  OBVIOUS
<1>12. Modulus * q3 = Modulus * q + Modulus * q2 + Modulus * d
  BY <1>1, <1>11
<1>13. Modulus * d = r2 - r3
  BY <1>1, <1>4, <1>7, <1>10, <1>12
<1>14. ASSUME d >= 1 PROVE Modulus * d >= Modulus
  BY <1>14, <1>1
<1>15. ASSUME d =< -1 PROVE Modulus * d =< -Modulus
  BY <1>15, <1>1
<1>16. d = 0
  BY <1>1, <1>13, <1>14, <1>15
<1>17. r2 = r3
  BY <1>1, <1>13, <1>16
<1> QED
  BY <1>3, <1>6, <1>9, <1>17

-----------------------------------------------------------------------------
(***************************************************************************)
(* Types.                                                                  *)
(***************************************************************************)
LEMMA Ranges ==
  /\ Byte \subseteq Nat /\ 0 \in Byte /\ Base - 1 \in Byte
  /\ Pointer \subseteq Nat /\ 0 \in Pointer /\ Modulus - 1 \in Pointer
  /\ \A b \in Byte : b * Base \in Nat
  /\ Base * Base - 1 \in Nat
<1>1. \A b \in Nat : b * Base \in Nat
  BY BaseAssumption
<1>2. Base * Base >= 1 /\ Base * Base \in Nat
  <2>1. PICK k \in Nat : Base = k + 1
    <3>1. Base - 1 \in Nat /\ Base = (Base - 1) + 1
      BY BaseAssumption
    <3> QED
      BY <3>1
  <2>2. Base * Base = k * k + k + k + 1 /\ k * k \in Nat
    BY <2>1
  <2> QED
    BY <2>1, <2>2
<1> QED
  BY <1>1, <1>2, BaseAssumption, ModulusAssumption DEF Byte, Pointer

LEMMA SizeDigits ==
  ASSUME TypeOK
  PROVE  size \in Nat /\ hi(size) \in Byte /\ lo(size) \in Byte
<1>1. size \in 0 .. (Base * Base - 1)
  BY DEF TypeOK
<1>2. size \in Nat
  BY <1>1, Ranges
<1> QED
  BY <1>1, <1>2, Digits, HighByte

LEMMA FilledType ==
  ASSUME TypeOK
  PROVE  Filled \in [1 .. MaxLen -> Pointer \union {Nothing}]
<1>1. ASSUME NEW i \in 1 .. MaxLen, i > current.from
      PROVE  (current.addr + i - 1 - current.from) % Modulus \in Pointer
  <2>1. current.addr \in Pointer /\ current.from \in Nat
    BY DEF TypeOK, Transfers
  <2>2. PICK a \in Nat, f \in Nat : a = current.addr /\ f = current.from
    BY <2>1, Ranges
  <2>3. i \in Nat /\ i > f
    BY <1>1, <2>2, MaxLenAssumption
  <2>4. a + i - 1 - f \in Nat
    BY <2>2, <2>3
  <2> QED
    BY <2>2, <2>4, PointerType
<1> QED
  BY <1>1 DEF TypeOK, Filled

LEMMA StartType ==
  ASSUME TypeOK, Start
  PROVE  TypeOK'
<1>1. current' \in Transfers /\ len' \in 0 .. MaxLen
  <2>1. CASE pc = "data"
    <3>1. ptr + sent_byte \in Nat
      BY Ranges DEF TypeOK
    <3>2. (ptr + sent_byte) % Modulus \in Pointer
      BY <3>1, PointerType
    <3>3. Piece \in 0 .. Chunk /\ len - Piece \in 0 .. MaxLen
      BY ChunkAssumption, MaxLenAssumption DEF TypeOK, Piece
    <3>4. current' = [op |-> pc, addr |-> (ptr + sent_byte) % Modulus,
                      from |-> sent_byte, n |-> Piece]
          /\ len' = len - Piece
      BY <2>1 DEF Start
    <3> QED
      BY <3>2, <3>3, <3>4, <2>1 DEF TypeOK, Transfers, Calls
  <2>2. CASE pc # "data"
    <3>1. (ptr + total) % Modulus \in Pointer
      BY PointerType, Ranges DEF TypeOK
    <3>2. current' = [op |-> pc, from |-> 0, n |-> 1,
                      addr |-> IF pc = "setptr" THEN (ptr + total) % Modulus ELSE 0]
          /\ len' = len /\ pc \in Calls
      BY <2>2 DEF Start
    <3>3. 1 \in 0 .. Chunk
      BY ChunkAssumption
    <3>4. (IF pc = "setptr" THEN (ptr + total) % Modulus ELSE 0) \in Pointer
      BY <3>1, Ranges
    <3> QED
      BY <3>2, <3>3, <3>4 DEF TypeOK, Transfers
  <2> QED
    BY <2>1, <2>2
<1> QED
  BY <1>1 DEF TypeOK, Start, chipVars, sizeVars

LEMMA InterruptType ==
  ASSUME TypeOK, Interrupt
  PROVE  TypeOK'
<1>1. current' \in Transfers
  BY Ranges, ChunkAssumption DEF Interrupt, Transfers, NoTransfer
<1>2. rb' \in Byte
  BY SizeDigits DEF Interrupt, ByteMoved, TypeOK
<1>3. rd' \in Pointer /\ ptr' \in Pointer
  BY DEF Interrupt, PointerMoved, TypeOK, Transfers
<1>4. buf' \in [1 .. MaxLen -> Pointer \union {Nothing}]
  BY FilledType DEF Interrupt, DataMoved, TypeOK
<1>5. at' \in Nat
  BY SizeDigits DEF Interrupt, TypeOK
<1>6. /\ xfer_completion' \in Nat
      /\ xfer_completion' + (IF busy' THEN 1 ELSE 0)
           =< timeouts' + (IF waiting' THEN 1 ELSE 0)
  BY DEF TypeOK, Interrupt
<1>7. busy' \in BOOLEAN
  BY DEF Interrupt
<1> QED
  BY <1>1, <1>2, <1>3, <1>4, <1>5, <1>6, <1>7 DEF TypeOK, Interrupt, sizeVars, bufVars

LEMMA LateInterruptType ==
  ASSUME TypeOK, LateInterrupt
  PROVE  TypeOK'
<1>1. current' \in Transfers
  BY Ranges, ChunkAssumption DEF LateInterrupt, Transfers, NoTransfer
<1>2. rd' \in Pointer
  BY DEF LateInterrupt, TypeOK, Transfers
<1>3. buf' \in [1 .. MaxLen -> Pointer \union {Nothing}]
  BY FilledType DEF LateInterrupt, TypeOK
<1>4. /\ xfer_completion' \in Nat
      /\ xfer_completion' + (IF busy' THEN 1 ELSE 0)
           =< timeouts' + (IF waiting' THEN 1 ELSE 0)
  <2>1. /\ xfer_completion \in Nat /\ timeouts \in Nat
        /\ xfer_completion + 1 =< timeouts
    BY DEF TypeOK, LateInterrupt
  <2>2. /\ busy' = FALSE /\ waiting' = FALSE /\ timeouts' = timeouts
        /\ xfer_completion' = xfer_completion \/ xfer_completion' = xfer_completion + 1
    BY DEF TypeOK, LateInterrupt
  <2> QED
    BY <2>1, <2>2
<1>5. busy' = FALSE
      /\ UNCHANGED <<size, waiting, rb, val1, val, total, len, sent_byte, pc, ptr, at,
                     next, timeouts>>
  BY DEF LateInterrupt, sizeVars, bufVars
<1> QED
  BY <1>1, <1>2, <1>3, <1>4, <1>5 DEF TypeOK

(* What GotByte changes keeps its type.                                    *)
LEMMA GotByteType ==
  ASSUME TypeOK, NEW b \in Byte, GotByte(b)
  PROVE  /\ pc' \in Calls \union {"idle", "command"}
         /\ val1' \in Nat /\ val' \in Nat /\ at' \in Nat
         /\ total' \in 0 .. MaxLen /\ len' \in 0 .. MaxLen /\ sent_byte' \in Nat
<1>1. b \in Nat /\ b * Base \in Nat
  BY Ranges
<1>2. CASE pc = "lo2"
  BY <1>1, <1>2, MaxLenAssumption, SMTT(30)
     DEF GotByte, TestSizes, TypeOK, Calls, bufVars
<1>3. CASE pc # "lo2"
  BY <1>1, <1>3, MaxLenAssumption, SMTT(30) DEF GotByte, Forget, TypeOK, Calls, bufVars
<1> QED
  BY <1>2, <1>3

LEMMA CompleteType ==
  ASSUME TypeOK, Complete
  PROVE  TypeOK'
<1>1. /\ pc' \in Calls \union {"idle", "command"}
      /\ val1' \in Nat /\ val' \in Nat /\ at' \in Nat
      /\ total' \in 0 .. MaxLen /\ len' \in 0 .. MaxLen /\ sent_byte' \in Nat
      /\ ptr' \in Pointer
  <2>1. CASE (\E b \in IF busy THEN Byte ELSE {rb} : GotByte(b)) /\ ptr' = ptr
    <3>1. PICK b \in Byte : GotByte(b)
      BY <2>1 DEF TypeOK
    <3> QED
      BY <2>1, <3>1, GotByteType DEF TypeOK
  <2>2. CASE pc = "getptr" /\ pc' = "data" /\ ptr' \in (IF busy THEN Pointer ELSE {ptr})
             /\ UNCHANGED <<sizeVars, bufVars, at>>
    BY <2>2 DEF TypeOK, sizeVars, bufVars, Calls
  <2>3. CASE pc = "data" /\ pc' = (IF len = 0 THEN "setptr" ELSE "data") /\ Advance
             /\ UNCHANGED <<sizeVars, total, len, ptr, at>>
    BY <2>3, ChunkAssumption DEF TypeOK, sizeVars, Calls, Advance
  <2>4. CASE pc = "setptr" /\ pc' = "command" /\ UNCHANGED <<sizeVars, bufVars, ptr, at>>
    BY <2>4 DEF TypeOK, sizeVars, bufVars
  <2> QED
    BY <2>1, <2>2, <2>3, <2>4 DEF Complete
<1>2. /\ xfer_completion' \in Nat
      /\ xfer_completion' + (IF busy' THEN 1 ELSE 0)
           =< timeouts' + (IF waiting' THEN 1 ELSE 0)
  BY DEF TypeOK, Complete, TakeCompletion
<1>3. /\ waiting' = FALSE /\ rb' = 0
      /\ UNCHANGED <<size, rd, busy, current, buf, next, timeouts>>
  BY DEF Complete, chipVars
<1> QED
  BY <1>1, <1>2, <1>3, Ranges DEF TypeOK

LEMMA TimeoutType ==
  ASSUME TypeOK, Timeout
  PROVE  TypeOK'
<1>1. /\ pc' \in Calls \union {"idle", "command"}
      /\ val1' \in Nat /\ val' \in Nat /\ at' \in Nat
      /\ total' \in 0 .. MaxLen /\ len' \in 0 .. MaxLen /\ sent_byte' \in Nat
      /\ ptr' \in Pointer
  <2>1. CASE GotByte(Base - 1) /\ ptr' = ptr
    BY <2>1, GotByteType, Ranges DEF TypeOK
  <2>2. CASE pc = "getptr" /\ pc' = "data" /\ ptr' = Modulus - 1
             /\ UNCHANGED <<sizeVars, bufVars, at>>
    BY <2>2, Ranges DEF TypeOK, sizeVars, bufVars, Calls
  <2>3. CASE pc = "data" /\ pc' = "setptr" /\ UNCHANGED <<sizeVars, bufVars, ptr, at>>
    BY <2>3 DEF TypeOK, sizeVars, bufVars, Calls
  <2>4. CASE pc = "setptr" /\ pc' = "command" /\ UNCHANGED <<sizeVars, bufVars, ptr, at>>
    BY <2>4 DEF TypeOK, sizeVars, bufVars
  <2> QED
    BY <2>1, <2>2, <2>3, <2>4 DEF Timeout
<1>2. /\ xfer_completion' \in Nat /\ timeouts' \in 0 .. MaxTimeouts
      /\ xfer_completion' + (IF busy' THEN 1 ELSE 0)
           =< timeouts' + (IF waiting' THEN 1 ELSE 0)
  BY MaxTimeoutsAssumption DEF TypeOK, Timeout
<1>3. /\ waiting' = FALSE /\ next' = 0
      /\ UNCHANGED <<size, rd, busy, current, rb, buf>>
  BY DEF Timeout, chipVars
<1> QED
  BY <1>1, <1>2, <1>3, Ranges DEF TypeOK

LEMMA CommandType ==
  ASSUME TypeOK, Command
  PROVE  TypeOK'
<1>1. size' \in 0 .. (Base * Base - 1)
  BY BaseAssumption DEF TypeOK, Command
<1>2. next' \in Pointer
  BY PointerType, Ranges DEF TypeOK, Command
<1> QED
  BY <1>1, <1>2, Ranges, MaxLenAssumption DEF TypeOK, Command, Forget, spiVars, Calls

LEMMA TypeStep ==
  ASSUME TypeOK, [Next]_vars
  PROVE  TypeOK'
<1>1. CASE Grow
  BY <1>1, BaseAssumption DEF Grow, TypeOK, spiVars, sizeVars, bufVars
<1>2. CASE Call
  BY <1>2 DEF Call, TypeOK, chipVars, spiVars, sizeVars, bufVars, Calls
<1>3. CASE UNCHANGED vars
  BY <1>3 DEF TypeOK, vars, chipVars, spiVars, sizeVars, bufVars
<1> QED
  BY <1>1, <1>2, <1>3, StartType, InterruptType, LateInterruptType,
     CompleteType, TimeoutType, CommandType DEF Next, Driver

-----------------------------------------------------------------------------
(***************************************************************************)
(* Without a timeout.                                                      *)
(***************************************************************************)
(* The steps there are left then.                                          *)
CleanNext == Grow \/ Call \/ Start \/ Interrupt \/ Complete \/ Command

LEMMA CleanSteps ==
  ASSUME TypeOK, [Next]_vars, timeouts' = 0
  PROVE  timeouts = 0 /\ (Undisturbed => CleanNext \/ UNCHANGED vars)
<1>1. CASE Timeout
  BY <1>1 DEF Timeout, TypeOK
<1>2. CASE LateInterrupt
  BY <1>2 DEF LateInterrupt, Undisturbed
<1>3. CASE CleanNext
  BY <1>3 DEF CleanNext, Grow, Call, Start, Interrupt, Complete, Command
<1>4. CASE UNCHANGED vars
  BY <1>4 DEF vars
<1> QED
  BY <1>1, <1>2, <1>3, <1>4 DEF Next, Driver, CleanNext

LEMMA GotByteCalls ==
  ASSUME NEW b, GotByte(b)
  PROVE  pc \in BytesRead
BY DEF GotByte, BytesRead

(* The program goes on with the transfer that is through.                  *)
LEMMA CompleteCases ==
  ASSUME TypeOK, Undisturbed, Complete
  PROVE  /\ Through /\ waiting' = FALSE /\ busy' = FALSE
         /\ UNCHANGED <<size, rd, buf, next>>
         /\ \/ rb \in Byte /\ GotByte(rb) /\ UNCHANGED ptr
            \/ /\ pc = "getptr" /\ pc' = "data"
               /\ UNCHANGED <<val1, val, total, len, sent_byte, ptr, at>>
            \/ /\ pc = "data" /\ pc' = IF len = 0 THEN "setptr" ELSE "data"
               /\ Advance
               /\ UNCHANGED <<val1, val, total, len, ptr, at>>
            \/ /\ pc = "setptr" /\ pc' = "command"
               /\ UNCHANGED <<val1, val, total, len, sent_byte, ptr, at>>
<1>1. Through
  BY DEF Complete, Undisturbed
<1>2. waiting' = FALSE /\ busy' = FALSE /\ UNCHANGED <<size, rd, buf, next>>
  BY <1>1 DEF Complete, Through, chipVars
<1>3. rb \in Byte
  BY DEF TypeOK
<1>4. busy = FALSE
  BY <1>1 DEF Through, TypeOK
<1>5. CASE (\E b \in IF busy THEN Byte ELSE {rb} : GotByte(b)) /\ UNCHANGED ptr
  BY <1>1, <1>2, <1>3, <1>4, <1>5
<1>6. CASE /\ pc = "getptr" /\ pc' = "data"
           /\ ptr' \in IF busy THEN Pointer ELSE {ptr}
           /\ UNCHANGED <<sizeVars, bufVars, at>>
  BY <1>1, <1>2, <1>4, <1>6 DEF sizeVars, bufVars
<1>7. CASE /\ pc = "data"
           /\ pc' = IF len = 0 THEN "setptr" ELSE "data"
           /\ Advance
           /\ UNCHANGED <<sizeVars, total, len, ptr, at>>
  BY <1>1, <1>2, <1>7 DEF sizeVars
<1>8. CASE /\ pc = "setptr" /\ pc' = "command"
           /\ UNCHANGED <<sizeVars, bufVars, ptr, at>>
  BY <1>1, <1>2, <1>8 DEF sizeVars, bufVars
<1> QED
  BY <1>5, <1>6, <1>7, <1>8 DEF Complete

LEMMA UndisturbedStep ==
  ASSUME TypeOK, Undisturbed, CleanNext, timeouts = 0
  PROVE  Undisturbed'
<1>1. xfer_completion \in Nat /\ busy \in BOOLEAN /\ waiting \in BOOLEAN
      /\ xfer_completion + (IF busy THEN 1 ELSE 0) =< (IF waiting THEN 1 ELSE 0)
  BY DEF TypeOK
<1>2. CASE Grow \/ Call
  BY <1>2 DEF Grow, Call, Undisturbed, Through, Calls, spiVars
<1>3. CASE Start
  <2>1. xfer_completion = 0
    BY <1>1, <1>3 DEF Start
  <2>2. current'.op = pc
    BY <1>3 DEF Start
  <2> QED
    BY <2>1, <2>2, <1>3 DEF Start, Undisturbed
<1>4. CASE Interrupt
  BY <1>1, <1>4 DEF Interrupt, Undisturbed, Through
<1>5. CASE Complete
  <2>1. xfer_completion' = 0
    BY <1>1, <1>5 DEF Complete, TakeCompletion
  <2>2. ~(xfer_completion' > 0)
    BY <2>1
  <2>3. ~waiting' /\ ~busy'
    BY <1>5, CompleteCases
  <2> QED
    BY <2>2, <2>3 DEF Undisturbed
<1>6. CASE Command
  BY <1>6 DEF Command, Undisturbed, Through, Calls, spiVars
<1> QED
  BY <1>2, <1>3, <1>4, <1>5, <1>6 DEF CleanNext

-----------------------------------------------------------------------------
(***************************************************************************)
(* Sizes.                                                                  *)
(***************************************************************************)
LEMMA SizeGrow ==
  ASSUME TypeOK, SizeInv, Grow
  PROVE  SizeInv'
<1>1. size \in Nat /\ size' \in Nat /\ size =< size' /\ val \in Nat
  BY SizeDigits, BaseAssumption DEF Grow, TypeOK
<1>2. hi(size) \in Nat /\ hi(size') \in Nat /\ hi(size) =< hi(size')
  BY <1>1, Digits, HighByteMonotone
<1>3. UNCHANGED <<pc, waiting, busy, rb, val1, val, at>> /\ rb \in Nat /\ at \in Nat
  BY Ranges DEF Grow, spiVars, sizeVars, TypeOK
<1>4. Through' = Through
  BY <1>3 DEF Through
<1>5. ASSUME NEW h \in Nat, FirstHigh(h) PROVE FirstHigh(h)'
  BY <1>1, <1>2, <1>3, <1>4, <1>5 DEF FirstHigh
<1>6. ASSUME NEW h \in Nat, FirstReading(h) PROVE FirstReading(h)'
  BY <1>1, <1>2, <1>3, <1>4, <1>6 DEF FirstReading
<1>7. ASSUME NEW g \in Nat, SecondHigh(g) PROVE SecondHigh(g)'
  BY <1>3, <1>7 DEF SecondHigh
<1> QED
  BY <1>1, <1>2, <1>3, <1>4, <1>5, <1>6, <1>7 DEF SizeInv

LEMMA SizeStart ==
  ASSUME TypeOK, SizeInv, Start
  PROVE  SizeInv'
<1>1. UNCHANGED <<size, pc, val1, val, at>> /\ ~Through'
  BY DEF Start, Through, chipVars, sizeVars
<1>2. ASSUME NEW h \in Nat, FirstHigh(h) PROVE FirstHigh(h)'
  BY <1>1, <1>2 DEF FirstHigh
<1>3. ASSUME NEW h \in Nat, FirstReading(h) PROVE FirstReading(h)'
  BY <1>1, <1>3 DEF FirstReading
<1>4. ASSUME NEW g \in Nat, SecondHigh(g) PROVE SecondHigh(g)'
  BY <1>1, <1>4 DEF SecondHigh
<1> QED
  BY <1>1, <1>2, <1>3, <1>4 DEF SizeInv

LEMMA SizeInterrupt ==
  ASSUME TypeOK, Undisturbed, SizeInv, Interrupt
  PROVE  SizeInv'
<1>1. /\ current.op = pc
      /\ UNCHANGED <<size, pc, val1, val>>
      /\ at' = IF pc = "lo1" THEN size ELSE at
  BY DEF Undisturbed, Interrupt, sizeVars
<1>2. size \in Nat /\ hi(size) \in Nat /\ at \in Nat
  BY SizeDigits, Digits DEF TypeOK
<1>3. /\ pc \in {"hi1", "hi2"} => rb' = hi(size)
      /\ pc = "lo1" => rb' = lo(size)
  BY <1>1 DEF Interrupt, ByteMoved, BytesRead
<1>4. CASE pc = "hi1"
  BY <1>1, <1>2, <1>3, <1>4 DEF SizeInv
<1>5. CASE pc = "lo1"
  <2>1. PICK h \in Nat : FirstHigh(h)
    BY <1>5 DEF SizeInv
  <2>2. FirstHigh(h)'
    BY <2>1, <1>1, <1>2, <1>3, <1>5 DEF FirstHigh
  <2> QED
    BY <2>2, <1>1, <1>5 DEF SizeInv
<1>6. CASE pc = "hi2"
  <2>1. PICK h \in Nat : FirstReading(h)
    BY <1>6 DEF SizeInv
  <2>2. FirstReading(h)'
    BY <2>1, <1>1, <1>6 DEF FirstReading
  <2>3. hi(at) =< hi(size)
    BY <2>1, <1>2, HighByteMonotone DEF FirstReading
  <2> QED
    BY <2>2, <2>3, <1>1, <1>3, <1>6 DEF SizeInv
<1>7. CASE pc = "lo2"
  <2>1. PICK h \in Nat, g \in Nat : FirstReading(h) /\ SecondHigh(g)
    BY <1>7 DEF SizeInv
  <2>2. FirstReading(h)' /\ SecondHigh(g)'
    BY <2>1, <1>1, <1>7 DEF FirstReading, SecondHigh
  <2> QED
    BY <2>2, <1>1, <1>7 DEF SizeInv
<1>8. CASE pc \notin BytesRead
  BY <1>1, <1>8 DEF SizeInv, BytesRead
<1> QED
  BY <1>4, <1>5, <1>6, <1>7, <1>8 DEF BytesRead

LEMMA SizeGotByte ==
  ASSUME TypeOK, SizeInv, Through, ~Through', rb \in Byte, GotByte(rb), UNCHANGED size
  PROVE  SizeInv'
<1>1. /\ size \in Nat /\ hi(size) \in Nat /\ at \in Nat /\ rb \in Nat
      /\ hi(at) \in Nat /\ lo(at) \in Nat
  BY SizeDigits, Digits, Ranges DEF TypeOK
<1> PICK byte \in Nat : byte = rb
  BY <1>1
<1>2. CASE pc = "hi1"
  <2>1. pc' = "lo1" /\ val1' = byte * Base /\ byte =< hi(size)
    BY <1>2 DEF GotByte, SizeInv
  <2>2. FirstHigh(byte)'
    BY <2>1 DEF FirstHigh
  <2> QED
    BY <1>1, <2>1, <2>2 DEF SizeInv
<1>3. CASE pc = "lo1"
  <2>1. PICK h \in Nat : FirstHigh(h)
    BY <1>3 DEF SizeInv
  <2>2. CASE pc' = "hi2" /\ val1' = val1 + rb /\ at' = at
    <3>1. FirstReading(h)'
      BY <2>1, <2>2 DEF FirstHigh, FirstReading
    <3> QED
      BY <2>2, <3>1 DEF SizeInv
  <2>3. CASE pc' \in {"idle", "hi1"}
    BY <2>3 DEF SizeInv
  <2> QED
    BY <1>3, <2>2, <2>3 DEF GotByte
<1>4. CASE pc = "hi2"
  <2>1. pc' = "lo2" /\ val' = byte * Base /\ UNCHANGED <<val1, at>> /\ hi(at) =< byte
    BY <1>4 DEF GotByte, SizeInv
  <2>2. PICK h \in Nat : FirstReading(h)
    BY <1>4 DEF SizeInv
  <2>3. FirstReading(h)' /\ SecondHigh(byte)'
    BY <2>1, <2>2 DEF FirstReading, SecondHigh
  <2> QED
    BY <1>1, <2>1, <2>3 DEF SizeInv
<1>5. CASE pc = "lo2"
  <2>1. TestSizes(val + rb)
    BY <1>5 DEF GotByte
  <2>2. CASE pc' = "getptr" /\ val + rb = val1 /\ val' = val + rb /\ at' = at
    <3>1. PICK h \in Nat, g \in Nat : FirstReading(h) /\ SecondHigh(g)
      BY <1>5 DEF SizeInv
    <3>2. g * Base + rb = h * Base + lo(at) /\ h =< hi(at) /\ hi(at) =< g /\ at =< size
      BY <2>2, <3>1 DEF FirstReading, SecondHigh
    <3>3. g * Base + rb = at
      BY <1>1, <3>2, Squeeze
    <3>4. val + rb = at
      BY <3>1, <3>3 DEF SecondHigh
    <3> QED
      BY <2>2, <3>2, <3>4 DEF SizeInv
  <2>3. CASE pc' = "hi1"
    BY <2>3 DEF SizeInv
  <2> QED
    BY <2>1, <2>2, <2>3 DEF TestSizes, Same
<1> QED
  BY <1>2, <1>3, <1>4, <1>5, GotByteCalls DEF BytesRead

LEMMA SizeStep ==
  ASSUME TypeOK, Undisturbed, SizeInv, CleanNext
  PROVE  SizeInv'
<1>1. CASE Call
  BY <1>1 DEF Call, SizeInv, Through, Undisturbed, Calls, spiVars
<1>2. CASE Complete
  <2>1. Through /\ ~Through' /\ UNCHANGED size
    BY <1>2, CompleteCases DEF Through
  <2>2. CASE rb \in Byte /\ GotByte(rb)
    BY <2>1, <2>2, SizeGotByte
  <2>3. CASE /\ pc \in {"getptr", "data", "setptr"}
             /\ pc' \in {"data", "setptr", "command"} /\ UNCHANGED <<val, at>>
    BY <2>1, <2>3 DEF SizeInv
  <2> QED
    BY <1>2, <2>2, <2>3, CompleteCases
<1>3. CASE Command
  BY <1>3 DEF Command, SizeInv
<1> QED
  BY <1>1, <1>2, <1>3, SizeGrow, SizeStart, SizeInterrupt DEF CleanNext

-----------------------------------------------------------------------------
(***************************************************************************)
(* Copies.                                                                 *)
(***************************************************************************)
LEMMA MoveStart ==
  ASSUME TypeOK, MoveInv, Start
  PROVE  MoveInv'
<1>1. /\ pc \in Calls /\ ~waiting /\ waiting' = TRUE /\ busy' = TRUE
      /\ ~Through /\ ~Through'
      /\ UNCHANGED <<size, rd, pc, ptr, buf, next, total, sent_byte>>
  BY DEF Start, Through, chipVars
<1>2. \A k : FilledTo(k)' = FilledTo(k)
  BY <1>1 DEF FilledTo
<1>3. pc = "setptr" => current'.addr = (next + total) % Modulus
  BY DEF Start, MoveInv, PointerInv
<1>4. PointerInv'
  BY <1>1, <1>3, Zenon DEF MoveInv, PointerInv, Calls
<1>5. CASE pc = "data"
  <2>1. /\ len > 0 /\ sent_byte + len = total /\ FilledTo(sent_byte) /\ ptr = next
        /\ len \in Nat /\ total \in Nat /\ sent_byte \in Nat
    BY <1>1, <1>5 DEF MoveInv, DataInv, PointerInv, TypeOK
  <2>2. /\ current'.from = sent_byte /\ current'.n = Piece
        /\ current'.addr = (next + sent_byte) % Modulus
        /\ len' = len - Piece
    BY <2>1, <1>5 DEF Start
  <2>3. /\ Piece = total - len' - sent_byte /\ sent_byte + len' =< total
        /\ len' = 0 \/ sent_byte + Chunk + len' = total
    BY <2>1, <2>2, ChunkAssumption DEF Piece
  <2> QED
    BY <1>1, <1>2, <1>4, <1>5, <2>1, <2>2, <2>3 DEF MoveInv, DataInv
<1>6. CASE pc # "data"
  <2>1. len' = len
    BY <1>6 DEF Start
  <2> QED
    BY <1>1, <1>2, <1>4, <1>6, <2>1 DEF MoveInv, DataInv
<1> QED
  BY <1>5, <1>6

(* The piece that is through has its bytes from the places after the ones  *)
(* moved before, across the pointer's wrap.                                *)
LEMMA PieceMoved ==
  ASSUME TypeOK, Undisturbed, MoveInv, Interrupt, pc = "data"
  PROVE  FilledTo(total - len)'
<1>1. /\ current.op = "data" /\ buf' = Filled
      /\ UNCHANGED <<total, len, next>>
  BY DEF Undisturbed, Interrupt, DataMoved, bufVars
<1>2. /\ current.from = sent_byte
      /\ current.n = total - len - sent_byte
      /\ current.addr = (next + sent_byte) % Modulus
      /\ FilledTo(sent_byte)
  BY DEF Interrupt, MoveInv, DataInv
<1>3. total \in Nat /\ len \in Nat /\ sent_byte \in Nat /\ next \in Nat
  BY Ranges DEF TypeOK
<1>4. ASSUME NEW i \in 1 .. MaxLen, i =< total - len
      PROVE  buf'[i] = (next + i - 1) % Modulus
  <2>1. i \in Nat \ {0}
    BY MaxLenAssumption
  <2>2. CASE i > sent_byte
    <3>1. i =< current.from + current.n
      BY <1>2, <1>3, <1>4, <2>1
    <3>2. Filled[i] = (current.addr + i - 1 - current.from) % Modulus
      BY <1>2, <2>2, <3>1 DEF Filled
    <3>3. PICK k \in Nat : k = i - 1 - sent_byte
      BY <1>3, <2>1, <2>2
    <3>4. PICK m \in Nat : m = next + sent_byte
      BY <1>3
    <3>5. PICK a \in Nat : a = m % Modulus
      BY PointerType, Ranges
    <3>6. a + i - 1 - sent_byte = a + k
      BY <1>3, <2>1, <3>3
    <3>7. (a + k) % Modulus = (m + k) % Modulus
      BY <3>5, PointerAdd
    <3>8. m + k = next + i - 1
      BY <1>3, <2>1, <3>3, <3>4
    <3> QED
      BY <1>1, <1>2, <3>2, <3>4, <3>5, <3>6, <3>7, <3>8
  <2>3. CASE ~(i > sent_byte)
    <3>1. Filled[i] = buf[i]
      BY <1>2, <2>3 DEF Filled
    <3>2. buf[i] = (next + i - 1) % Modulus
      BY <1>2, <1>3, <2>1, <2>3 DEF FilledTo
    <3> QED
      BY <1>1, <3>1, <3>2
  <2> QED
    BY <2>2, <2>3
<1> QED
  BY <1>1, <1>4 DEF FilledTo

LEMMA MoveInterrupt ==
  ASSUME TypeOK, Undisturbed, MoveInv, Interrupt
  PROVE  MoveInv'
<1>1. /\ busy /\ waiting /\ busy' = FALSE /\ waiting' = TRUE
      /\ current.op = pc /\ ~Through /\ Through'
      /\ UNCHANGED <<pc, next, total, len, sent_byte>>
  BY DEF Interrupt, Undisturbed, Through, bufVars
<1>2. /\ rd' = IF pc = "setptr" THEN current.addr ELSE rd
      /\ ptr' = IF pc = "getptr" THEN rd ELSE ptr
      /\ pc # "data" => buf' = buf
  BY <1>1 DEF Interrupt, PointerMoved, DataMoved
<1>3. pc \in Calls /\ pc # "command"
  BY <1>1 DEF Undisturbed, Calls
<1>4. PointerInv'
  BY <1>1, <1>2, <1>3 DEF MoveInv, PointerInv
<1>5. DataInv'
  <2>1. CASE pc = "data"
    <3>1. FilledTo(total - len)'
      BY <2>1, PieceMoved
    <3> QED
      BY <1>1, <2>1, <3>1 DEF MoveInv, DataInv
  <2>2. CASE pc # "data"
    <3>1. \A k : FilledTo(k)' = FilledTo(k)
      BY <1>1, <1>2, <2>2 DEF FilledTo
    <3> QED
      BY <1>1, <2>2, <3>1 DEF MoveInv, DataInv
  <2> QED
    BY <2>1, <2>2
<1> QED
  BY <1>4, <1>5 DEF MoveInv

LEMMA MoveComplete ==
  ASSUME TypeOK, Undisturbed, MoveInv, Complete
  PROVE  MoveInv'
<1>1. /\ Through /\ waiting /\ ~busy /\ waiting' = FALSE /\ busy' = FALSE /\ ~Through'
      /\ UNCHANGED <<size, rd, buf, next>>
  BY CompleteCases DEF Through
<1>2. ASSUME NEW k, NEW j, k = j, FilledTo(k) PROVE buf' = buf /\ next' = next
  BY <1>1
<1>3. CASE GotByte(rb) /\ UNCHANGED ptr
  <2>1. pc \in BytesRead
    BY <1>3, GotByteCalls
  <2>2. pc' \in {"idle", "hi1", "lo1", "hi2", "lo2", "getptr"}
    BY <1>3 DEF GotByte, TestSizes
  <2>3. rd' = next'
    BY <1>1, <2>1 DEF MoveInv, PointerInv, BytesRead
  <2>4. PointerInv'
    BY <1>1, <2>2, <2>3 DEF PointerInv
  <2>5. pc' = "getptr" => len' = total' /\ len' > 0 /\ sent_byte' = 0
    <3>1. SUFFICES ASSUME pc' = "getptr"
                   PROVE  len' = total' /\ len' > 0 /\ sent_byte' = 0
      OBVIOUS
    <3>2. TestSizes(val + rb)
      BY <1>3, <3>1 DEF GotByte
    <3>3. PICK n \in 1 .. MaxLen : total' = n /\ len' = n /\ sent_byte' = 0
      BY <3>1, <3>2 DEF TestSizes
    <3> QED
      BY <3>3, MaxLenAssumption
  <2> QED
    BY <1>1, <2>2, <2>4, <2>5 DEF MoveInv, DataInv
<1>4. CASE /\ pc = "getptr" /\ pc' = "data"
           /\ UNCHANGED <<total, len, sent_byte, ptr>>
  <2>1. PointerInv'
    BY <1>1, <1>4 DEF MoveInv, PointerInv
  <2>2. len = total /\ len > 0 /\ sent_byte = 0 /\ total \in Nat
    BY <1>4 DEF MoveInv, DataInv, TypeOK
  <2>3. FilledTo(sent_byte)'
    <3>1. \A i \in 1 .. MaxLen : ~(i =< 0)
      BY MaxLenAssumption
    <3> QED
      BY <1>4, <2>2, <3>1 DEF FilledTo
  <2> QED
    BY <1>1, <1>4, <2>1, <2>2, <2>3 DEF MoveInv, DataInv
<1>5. CASE /\ pc = "data" /\ pc' = IF len = 0 THEN "setptr" ELSE "data"
           /\ Advance
           /\ UNCHANGED <<total, len, ptr>>
  <2>1. PointerInv'
    BY <1>1, <1>5 DEF MoveInv, PointerInv
  <2>2. /\ len = 0 \/ sent_byte + Chunk + len = total
        /\ FilledTo(total - len)
        /\ total \in Nat /\ len \in Nat /\ sent_byte \in Nat
    BY <1>1, <1>5 DEF MoveInv, DataInv, TypeOK
  <2>3. \A k : FilledTo(k) => (\A i \in 1 .. MaxLen : i =< k => buf'[i] = (next' + i - 1) % Modulus)
    BY <1>1 DEF FilledTo
  <2>4. CASE len = 0
    <3>1. total - len = total /\ total' = total
      BY <1>5, <2>2, <2>4
    <3>2. FilledTo(total)
      BY <2>2, <3>1
    <3>3. FilledTo(total)'
      BY <2>3, <3>1, <3>2 DEF FilledTo
    <3> QED
      BY <1>1, <1>5, <2>1, <2>4, <3>3 DEF MoveInv, DataInv
  <2>5. CASE len # 0
    <3>1. sent_byte' = total - len /\ sent_byte' + len = total /\ len > 0
      BY <1>5, <2>2, <2>5, ChunkAssumption DEF Advance
    <3>2. FilledTo(sent_byte)'
      BY <1>5, <2>2, <2>3, <3>1 DEF FilledTo
    <3> QED
      BY <1>1, <1>5, <2>1, <2>5, <3>1, <3>2 DEF MoveInv, DataInv
  <2> QED
    BY <2>4, <2>5
<1>6. CASE /\ pc = "setptr" /\ pc' = "command"
           /\ UNCHANGED <<total, len, sent_byte, ptr>>
  <2>1. PointerInv'
    BY <1>1, <1>6 DEF MoveInv, PointerInv
  <2>2. FilledTo(total)'
    BY <1>1, <1>6 DEF MoveInv, DataInv, FilledTo
  <2> QED
    BY <1>1, <1>6, <2>1, <2>2 DEF MoveInv, DataInv
<1> QED
  BY <1>3, <1>4, <1>5, <1>6, CompleteCases

LEMMA MoveCommand ==
  ASSUME TypeOK, Undisturbed, MoveInv, Command, timeouts = 0
  PROVE  MoveInv'
<1>1. /\ pc = "command" /\ pc' = "idle" /\ rd' = rd
      /\ next' = (next + total) % Modulus
  BY DEF Command
<1>2. rd' = next'
  BY <1>1 DEF MoveInv, PointerInv
<1> QED
  BY <1>1, <1>2 DEF MoveInv, PointerInv, DataInv

LEMMA MoveStep ==
  ASSUME TypeOK, Undisturbed, MoveInv, CleanNext, timeouts = 0
  PROVE  MoveInv'
<1>1. CASE Grow
  <2>1. UNCHANGED <<rd, busy, current, waiting, total, len, sent_byte, pc, ptr, buf, next>>
    BY <1>1 DEF Grow, spiVars, bufVars
  <2>2. \A k : FilledTo(k)' = FilledTo(k)
    BY <2>1 DEF FilledTo
  <2> QED
    BY <2>1, <2>2 DEF MoveInv, PointerInv, DataInv, Through
<1>2. CASE Call
  BY <1>2 DEF Call, MoveInv, PointerInv, DataInv, chipVars
<1> QED
  BY <1>1, <1>2, MoveStart, MoveInterrupt, MoveComplete, MoveCommand DEF CleanNext

-----------------------------------------------------------------------------
(* The types and, without a timeout, all of the above hold for ever.       *)
THEOREM Invariance == Spec => []IInv
<1>1. Init => IInv
  <2>1. SUFFICES ASSUME Init PROVE IInv
    OBVIOUS
  <2>2. TypeOK
    <3>1. NoTransfer \in Transfers
      BY Ranges, ChunkAssumption DEF NoTransfer, Transfers
    <3>2. /\ 0 \in 0 .. (Base * Base - 1) /\ 0 \in 0 .. MaxLen
          /\ 0 \in 0 .. MaxTimeouts
      <4>1. \A n \in Nat : 0 \in 0 .. n
        OBVIOUS
      <4> QED
        BY <4>1, Ranges, MaxLenAssumption, MaxTimeoutsAssumption
    <3>3. buf \in [1 .. MaxLen -> Pointer \union {Nothing}]
      BY <2>1 DEF Init
    <3>4. /\ size = 0 /\ rd \in Pointer /\ next \in Pointer
          /\ busy = FALSE /\ current = NoTransfer /\ xfer_completion = 0
          /\ pc = "idle" /\ waiting = FALSE /\ rb = 0
          /\ val1 = 0 /\ val = 0 /\ at = 0 /\ ptr = 0 /\ total = 0 /\ len = 0
          /\ sent_byte = 0 /\ timeouts = 0
      BY <2>1 DEF Init
    <3>5. /\ size \in 0 .. (Base * Base - 1) /\ total \in 0 .. MaxLen
          /\ len \in 0 .. MaxLen /\ timeouts \in 0 .. MaxTimeouts
          /\ rb \in Byte /\ ptr \in Pointer /\ current \in Transfers
      BY <3>1, <3>2, <3>4, Ranges, Zenon
    <3>6. /\ val1 \in Nat /\ val \in Nat /\ at \in Nat /\ sent_byte \in Nat
          /\ xfer_completion \in Nat /\ busy \in BOOLEAN /\ waiting \in BOOLEAN
          /\ xfer_completion + (IF busy THEN 1 ELSE 0)
               =< timeouts + (IF waiting THEN 1 ELSE 0)
      <4>1. ~busy /\ ~waiting /\ xfer_completion = 0 /\ timeouts = 0
        BY <3>4, Zenon
      <4>2. val1 = 0 /\ val = 0 /\ at = 0 /\ sent_byte = 0
        BY <3>4, Zenon
      <4>3. busy \in BOOLEAN /\ waiting \in BOOLEAN
        BY <3>4, Zenon
      <4> QED
        BY <4>1, <4>2, <4>3
    <3>7. pc \in Calls \union {"idle", "command"}
      BY <3>4
    <3> QED
      BY <3>3, <3>4, <3>5, <3>6, <3>7, Zenon DEF TypeOK
  <2>3. pc = "idle" /\ ~waiting /\ ~busy /\ xfer_completion = 0 /\ rd = next
    BY <2>1 DEF Init
  <2>4. Undisturbed
    BY <2>3 DEF Undisturbed
  <2>5. SizeInv /\ MoveInv
    BY <2>3 DEF SizeInv, MoveInv, PointerInv, DataInv
  <2> QED
    BY <2>2, <2>4, <2>5 DEF IInv, CleanInv
<1>2. IInv /\ [Next]_vars => IInv'
  <2>1. SUFFICES ASSUME TypeOK, CleanInv, [Next]_vars PROVE TypeOK' /\ CleanInv'
    BY DEF IInv
  <2>2. TypeOK'
    BY <2>1, TypeStep
  <2>3. ASSUME timeouts' = 0 PROVE (Undisturbed /\ SizeInv /\ MoveInv)'
    <3>1. timeouts = 0 /\ Undisturbed /\ SizeInv /\ MoveInv
      BY <2>1, <2>3, CleanSteps DEF CleanInv
    <3>2. CASE CleanNext
      BY <2>1, <3>1, <3>2, UndisturbedStep, SizeStep, MoveStep
    <3>3. CASE UNCHANGED vars
      <4>1. UNCHANGED <<rd, size, busy, current, xfer_completion, waiting, rb, val1, val,
                        total, len, sent_byte, pc, ptr, buf, at, next>>
        BY <3>3 DEF vars, chipVars, spiVars, sizeVars, bufVars
      <4>2. Undisturbed'
        BY <3>1, <4>1 DEF Undisturbed, Through
      <4>3. SizeInv'
        BY <3>1, <4>1 DEF SizeInv, Through, FirstHigh, FirstReading, SecondHigh
      <4>4. MoveInv'
        BY <3>1, <4>1 DEF MoveInv, PointerInv, DataInv, Through, FilledTo
      <4> QED
        BY <4>2, <4>3, <4>4
    <3> QED
      BY <2>1, <2>3, <3>1, <3>2, <3>3, CleanSteps
  <2> QED
    BY <2>2, <2>3 DEF CleanInv
<1> QED
  BY <1>1, <1>2, PTL DEF Spec

(* Every variable has its type, and the completions counted never exceed   *)
(* the transfers they can be of: mtk_os_hal_spim_transfer never takes one  *)
(* for another unless one timed out.                                       *)
THEOREM TypeCorrect == Spec => []TypeOK
<1>1. IInv => TypeOK
  BY DEF IInv
<1> QED
  BY <1>1, Invariance, PTL

(* Unless a transfer times out, getSn_RX_RSR and getSn_TX_FSR return what  *)
(* their register was, whatever it did between the readings.               *)
THEOREM SizesAreTrue == Spec => []SizeTrue
<1>1. IInv => SizeTrue
  BY DEF IInv, CleanInv, SizeInv, SizeTrue
<1> QED
  BY <1>1, Invariance, PTL

(* Unless a transfer times out, wiz_recv_data and wiz_send_data move the   *)
(* bytes they are asked for, each from its place, and the pointer with it. *)
THEOREM BytesAreExact == Spec => []BytesExact
<1>1. IInv => BytesExact
  <2>1. SUFFICES ASSUME IInv, timeouts = 0, pc = "command"
                 PROVE  /\ \A i \in 1 .. total : buf[i] = (next + i - 1) % Modulus
                        /\ rd = (next + total) % Modulus
    BY DEF BytesExact
  <2>2. FilledTo(total) /\ rd = (next + total) % Modulus
    BY <2>1 DEF IInv, CleanInv, MoveInv, PointerInv, DataInv
  <2>3. total \in 0 .. MaxLen
    BY <2>1 DEF IInv, TypeOK
  <2>4. \A i \in 1 .. total : i \in 1 .. MaxLen /\ i =< total
    BY <2>3, MaxLenAssumption
  <2> QED
    BY <2>2, <2>4 DEF FilledTo
<1> QED
  BY <1>1, Invariance, PTL

-----------------------------------------------------------------------------
(***************************************************************************)
(* How far the driver is from returning.                                   *)
(*                                                                         *)
(* StepsLeft counts transfers in steps, three to each: started, through,   *)
(* taken.  A reading of the size that goes on as the register stands ends  *)
(* the loop (Agrees); one that does not costs a round of twelve steps, and *)
(* the register, which only grows meanwhile, can spoil no more readings    *)
(* than it has values left.                                                *)
(***************************************************************************)
(* Of the transfer at hand; the one of a piece of data is counted apart.   *)
Sub == IF ~waiting THEN 2 ELSE IF busy THEN 1 ELSE 0

DataSub == IF ~waiting THEN 0 ELSE IF busy THEN 2 ELSE 1

(* So far this round has read what the register now holds.                 *)
Agrees ==
  /\ pc \in {"hi1", "hi2"} /\ Through => rb = hi(size)
  /\ pc \in {"lo1", "lo2"} /\ Through => rb = lo(size)
  /\ pc = "lo1" => val1 = hi(size) * Base
  /\ pc \in {"hi2", "lo2"} => val1 = size
  /\ pc = "lo2" => val = hi(size) * Base

Place == CASE pc = "hi1" -> 9 [] pc = "lo1" -> 6 [] pc = "hi2" -> 3 [] OTHER -> 0

Rounds == 2 * (Base * Base - 1 - size) + (IF Agrees THEN 0 ELSE 1)

Stage == Place + Sub

ReadLeft == 12 * Rounds + Stage

(* A piece's three steps are paid for by the bytes of it.                  *)
CopyLeft ==
  CASE pc = "getptr"  -> 3 * len + 6 + Sub
    [] pc = "data"    -> 3 * len + 5 + DataSub
    [] pc = "setptr"  -> 2 + Sub
    [] pc = "command" -> 1
    [] OTHER          -> 0

StepsLeft == IF pc \in BytesRead THEN 3 * MaxLen + 9 + ReadLeft ELSE CopyLeft

(* Unless a transfer times out, each step taken in a call of getSn_RX_RSR  *)
(* and wiz_recv_data (getSn_TX_FSR and wiz_send_data) ends the call or     *)
(* leaves it fewer steps; only the register's growth, once its size has    *)
(* been read, leaves it as many.                                           *)
Nearer ==
  /\ StepsLeft \in Nat
  /\ \/ StepsLeft' \in Nat /\ StepsLeft' < StepsLeft
     \/ pc' = "idle"
     \/ Grow /\ StepsLeft' = StepsLeft

AccessAdvances == [][pc # "idle" /\ timeouts' = 0 => Nearer]_vars

(* The driver's next step is not held up, or the controller's is to come:  *)
(* one of the guards of Command, Start, Interrupt and Complete holds, that *)
(* of TestSizes' choice of a length with the last.                         *)
Ready ==
  \/ pc = "command"
  \/ pc \in Calls /\ ~waiting
  \/ busy /\ waiting
  \/ /\ waiting /\ xfer_completion > 0
     /\ pc \in Calls
     /\ pc = "lo2" => val1 > 0

(* Unless a transfer times out, a call under way can go on.                *)
NeverHeldUp == timeouts = 0 /\ pc # "idle" => Ready

(* The completion of the transfer that is through is there to be taken; a  *)
(* second reading follows a first that was not zero, and val is left over  *)
(* from two readings that were not alike, so that the register is not zero *)
(* any more then.                                                          *)
CallInv ==
  /\ Through => xfer_completion > 0
  /\ pc \in {"hi2", "lo2"} => val1 > 0 /\ size > 0
  /\ pc = "idle" => val = 0
  /\ pc \in {"hi1", "lo1"} /\ size = 0 => val = 0

(* That is what there is without a timeout.                                *)
CleanCallInv == timeouts = 0 => CallInv

-----------------------------------------------------------------------------
(* A first reading that is not zero is of a register that is not.          *)
LEMMA ReadingNotZero ==
  ASSUME TypeOK, SizeInv, Through, pc = "lo1", size = 0
  PROVE  val1 + rb = 0
<1>1. PICK h \in Nat : FirstHigh(h)
  BY DEF SizeInv
<1>2. at \in Nat /\ at =< 0 /\ rb = lo(at) /\ h =< hi(at) /\ val1 = h * Base
  BY <1>1 DEF FirstHigh, TypeOK
<1>3. at = 0
  BY <1>2
<1>4. hi(0) = 0 /\ lo(0) = 0
  BY BaseAssumption DEF hi, lo
<1>5. h = 0 /\ rb = 0
  BY <1>2, <1>3, <1>4
<1>6. 0 * Base = 0
  BY BaseAssumption
<1> QED
  BY <1>2, <1>5, <1>6

LEMMA CallStep ==
  ASSUME TypeOK, Undisturbed, SizeInv, CallInv, CleanNext
  PROVE  CallInv'
<1>1. size \in Nat /\ rb \in Nat /\ val1 \in Nat /\ xfer_completion \in Nat
  BY SizeDigits, Ranges DEF TypeOK
<1>2. CASE Grow
  <2>1. size < size' /\ size' \in Nat
    BY <1>2, Ranges DEF Grow
  <2> QED
    BY <1>1, <1>2, <2>1 DEF CallInv, Grow, Through, spiVars, sizeVars
<1>3. CASE Call
  BY <1>3 DEF CallInv, Call, Through, chipVars, spiVars, sizeVars
<1>4. CASE Start
  BY <1>4 DEF CallInv, Start, Through, chipVars, sizeVars
<1>5. CASE Interrupt
  BY <1>1, <1>5 DEF CallInv, Interrupt, sizeVars
<1>6. CASE Complete
  <2>1. ~Through' /\ Through /\ size' = size
    BY <1>6, CompleteCases DEF Through
  <2>2. CASE GotByte(rb)
    <3>1. CASE pc = "lo1"
      <4>1. val1 + rb # 0 => size > 0
        BY <1>1, <2>1, <3>1, ReadingNotZero
      <4>2. val1 + rb # 0 => val1 + rb > 0
        BY <1>1
      <4> QED
        BY <2>1, <2>2, <3>1, <4>1, <4>2 DEF CallInv, GotByte, Forget
    <3>2. CASE pc # "lo1"
      BY <2>1, <2>2, <3>2 DEF CallInv, GotByte, TestSizes
    <3> QED
      BY <3>1, <3>2
  <2>3. CASE pc' \in {"data", "setptr", "command"}
    BY <2>1, <2>3 DEF CallInv
  <2> QED
    BY <1>6, <2>2, <2>3, CompleteCases
<1>7. CASE Command
  <2>1. pc' = "idle" /\ val' = 0 /\ ~Through'
    BY <1>7 DEF Command, Forget, Undisturbed, Through, Calls, spiVars
  <2> QED
    BY <2>1 DEF CallInv
<1> QED
  BY <1>2, <1>3, <1>4, <1>5, <1>6, <1>7 DEF CleanNext

LEMMA CallInvariance == Spec => []CleanCallInv
<1>1. Init => CleanCallInv
  BY DEF Init, CleanCallInv, CallInv, Through
<1>2. IInv /\ CleanCallInv /\ [Next]_vars => CleanCallInv'
  <2>1. SUFFICES ASSUME IInv, CleanCallInv, [Next]_vars, timeouts' = 0
                 PROVE  CallInv'
    BY DEF CleanCallInv
  <2>2. /\ TypeOK /\ timeouts = 0 /\ Undisturbed /\ SizeInv /\ CallInv
        /\ CleanNext \/ UNCHANGED vars
    BY <2>1, CleanSteps DEF IInv, CleanInv, CleanCallInv
  <2>3. CASE UNCHANGED vars
    BY <2>2, <2>3 DEF CallInv, vars, chipVars, spiVars, sizeVars, Through
  <2> QED
    BY <2>2, <2>3, CallStep
<1> QED
  BY <1>1, <1>2, Invariance, PTL DEF Spec

-----------------------------------------------------------------------------
(* The numbers the count is made of.                                       *)
Counted ==
  /\ Sub \in 0 .. 2 /\ Place \in {0, 3, 6, 9} /\ Stage \in Nat
  /\ len \in 0 .. MaxLen
  /\ Rounds \in Nat /\ ReadLeft \in Nat /\ CopyLeft \in Nat
  /\ StepsLeft \in Nat

LEMMA CountTypes == TypeOK => Counted
<1> SUFFICES ASSUME TypeOK PROVE Counted
  OBVIOUS
<1>1. PICK m \in Nat : m = Base * Base - 1
  BY Ranges
<1>2. size \in 0 .. m
  BY <1>1 DEF TypeOK
<1>3. Rounds \in Nat
  BY <1>1, <1>2 DEF Rounds
<1>4. Sub \in 0 .. 2
  BY DEF Sub
<1>5. Place \in {0, 3, 6, 9}
  BY DEF Place
<1>6. Stage \in Nat
  BY <1>4, <1>5 DEF Stage
<1>7. ReadLeft \in Nat
  BY <1>3, <1>6 DEF ReadLeft
<1>8. len \in 0 .. MaxLen
  BY DEF TypeOK
<1>9. CopyLeft \in Nat
  BY <1>4, <1>8, MaxLenAssumption DEF CopyLeft, DataSub
<1>10. StepsLeft \in Nat
  BY <1>7, <1>9, MaxLenAssumption DEF StepsLeft
<1> QED
  BY <1>3, <1>4, <1>5, <1>6, <1>7, <1>8, <1>9, <1>10 DEF Counted

LEMMA CountTypesNext == TypeOK' => Counted'
BY CountTypes, PTL

(* A step within a round that does not spoil it.                           *)
(* A round less is worth all its steps.                                    *)
LEMMA CountOrder ==
  ASSUME pc \in BytesRead, pc' \in BytesRead,
         Rounds \in Nat, Stage \in Nat, Rounds' \in Nat, Stage' \in Nat,
         \/ Rounds' =< Rounds /\ Stage' < Stage
         \/ Rounds' < Rounds /\ Stage' < Stage + 12
  PROVE  StepsLeft' < StepsLeft
<1>1. PICK r \in Nat, q \in Nat, r1 \in Nat, q1 \in Nat, k \in Nat :
             r = Rounds /\ q = Stage /\ r1 = Rounds' /\ q1 = Stage' /\ k = MaxLen
  BY MaxLenAssumption
<1>2. StepsLeft = 3 * k + 9 + (12 * r + q) /\ StepsLeft' = 3 * k + 9 + (12 * r1 + q1)
  BY <1>1 DEF StepsLeft, ReadLeft
<1>3. (r1 =< r /\ q1 < q) \/ (r1 < r /\ q1 < q + 12)
  BY <1>1
<1> QED
  BY <1>2, <1>3

LEMMA WithinRound ==
  ASSUME TypeOK, TypeOK', pc \in BytesRead, pc' \in BytesRead,
         size' = size, Agrees => Agrees',
         Stage' < Stage
  PROVE  StepsLeft' < StepsLeft
<1>1. Rounds \in Nat /\ Stage \in Nat /\ Rounds' \in Nat /\ Stage' \in Nat
  BY CountTypes, CountTypesNext DEF Counted
<1>2. PICK m \in Nat : m = Base * Base - 1
  BY Ranges
<1>3. size \in Nat
  BY SizeDigits
<1>4. Rounds' =< Rounds
  BY <1>2, <1>3 DEF Rounds
<1> QED
  BY <1>1, <1>4, CountOrder

(* A round that was spoiled, and the next one begun.                       *)
LEMMA NextRound ==
  ASSUME TypeOK, TypeOK', pc \in BytesRead, pc' = "hi1", size' = size,
         ~Agrees, ~Through'
  PROVE  StepsLeft' < StepsLeft
<1>1. /\ Rounds \in Nat /\ Stage \in Nat /\ Rounds' \in Nat /\ Stage' \in Nat
      /\ Sub' \in 0 .. 2
  BY CountTypes, CountTypesNext DEF Counted
<1>2. PICK m \in Nat : m = Base * Base - 1
  BY Ranges
<1>3. size \in Nat /\ Agrees'
  BY SizeDigits DEF Agrees
<1>4. Rounds' = Rounds - 1
  BY <1>2, <1>3 DEF Rounds
<1>5. Stage' =< 11
  BY <1>1 DEF Stage, Place
<1>6. Rounds' < Rounds /\ Stage' < Stage + 12 /\ pc' \in BytesRead
  BY <1>1, <1>4, <1>5 DEF BytesRead
<1> QED
  BY <1>1, <1>6, CountOrder

LEMMA SpoiledReading ==
  ASSUME NEW m \in Nat, NEW a \in Nat, NEW b \in Nat, a < b,
         NEW i \in {0, 1}, NEW j \in {0, 1}
  PROVE  2 * (m - b) + j < 2 * (m - a) + i
OBVIOUS

(* What the register gains is more than the reading it spoils.             *)
LEMMA GrowAdvances ==
  ASSUME TypeOK, TypeOK', Grow
  PROVE  StepsLeft' < StepsLeft \/ StepsLeft' = StepsLeft
<1>1. UNCHANGED <<pc, waiting, busy, len>> /\ Sub' = Sub /\ Place' = Place
  BY DEF Grow, spiVars, bufVars, Sub, Place
<1>2. CASE pc \in BytesRead
  <2>1. PICK m \in Nat : m = Base * Base - 1
    BY Ranges
  <2>2. size \in Nat /\ size' \in Nat /\ size < size'
    BY SizeDigits, Ranges DEF Grow
  <2>3. PICK a \in Nat, b \in Nat : a = size /\ b = size' /\ a < b
    BY <2>2
  <2>4. PICK i \in {0, 1}, j \in {0, 1} :
               Rounds = 2 * (m - a) + i /\ Rounds' = 2 * (m - b) + j
    BY <2>1, <2>3 DEF Rounds
  <2>5. Rounds' < Rounds
    <3>1. 2 * (m - b) + j < 2 * (m - a) + i
      BY <2>3, SpoiledReading
    <3> QED
      BY <2>4, <3>1
  <2>6. Rounds \in Nat /\ Rounds' \in Nat /\ Stage \in Nat /\ Stage' \in Nat
    BY CountTypes, CountTypesNext DEF Counted
  <2>7. Stage' = Stage /\ Stage < Stage + 12
    BY <1>1, <2>6 DEF Stage
  <2> QED
    BY <1>1, <1>2, <2>5, <2>6, <2>7, CountOrder
<1>3. CASE pc \notin BytesRead
  BY <1>1, <1>3 DEF StepsLeft, CopyLeft, Sub, DataSub
<1> QED
  BY <1>2, <1>3

LEMMA StartAdvances ==
  ASSUME TypeOK, TypeOK', MoveInv, Start
  PROVE  StepsLeft' < StepsLeft
<1>1. /\ pc \in Calls /\ pc' = pc /\ size' = size /\ UNCHANGED <<val1, val>>
      /\ ~waiting /\ waiting' = TRUE /\ busy' = TRUE /\ Sub = 2 /\ Sub' = 1
      /\ ~Through /\ ~Through'
  BY DEF Start, Through, Sub, chipVars, sizeVars
<1>2. CASE pc \in BytesRead
  <2>1. Agrees => Agrees'
    BY <1>1 DEF Agrees
  <2>2. Place' = Place /\ Place \in Nat
    BY <1>1, CountTypes DEF Counted, Place
  <2> QED
    BY <1>1, <1>2, <2>1, <2>2, WithinRound DEF Stage
<1>3. CASE pc = "data"
  <2>1. len \in Nat /\ len > 0 /\ len' = len - Piece
    BY <1>1, <1>3 DEF Start, MoveInv, DataInv, TypeOK
  <2>2. Piece \in Nat /\ Piece >= 1
    BY <2>1, ChunkAssumption DEF Piece
  <2>3. DataSub = 0 /\ DataSub' = 2
    BY <1>1 DEF DataSub
  <2>4. StepsLeft = 3 * len + 5 + DataSub /\ StepsLeft' = 3 * len' + 5 + DataSub'
    BY <1>1, <1>3 DEF StepsLeft, CopyLeft, BytesRead
  <2> QED
    BY <2>1, <2>2, <2>3, <2>4
<1>4. CASE pc \in {"getptr", "setptr"}
  <2>1. len' = len /\ len \in Nat
    BY <1>4 DEF Start, TypeOK
  <2> QED
    BY <1>1, <1>4, <2>1 DEF StepsLeft, CopyLeft, Sub, DataSub, BytesRead
<1> QED
  BY <1>1, <1>2, <1>3, <1>4 DEF Calls, BytesRead

LEMMA InterruptAdvances ==
  ASSUME TypeOK, TypeOK', Undisturbed, Interrupt
  PROVE  StepsLeft' < StepsLeft
<1>1. /\ current.op = pc /\ pc \in Calls
      /\ waiting /\ busy /\ waiting' = waiting /\ busy' = FALSE
      /\ Sub = 1 /\ Sub' = 0
      /\ UNCHANGED <<size, pc, val1, val, len>> /\ len \in Nat
  BY DEF Undisturbed, Interrupt, Sub, sizeVars, bufVars, TypeOK
<1>2. CASE pc \in BytesRead
  <2>1. /\ pc \in {"hi1", "hi2"} => rb' = hi(size)
        /\ pc \in {"lo1", "lo2"} => rb' = lo(size)
    BY <1>1, <1>2 DEF Interrupt, ByteMoved, BytesRead
  <2>2. Agrees => Agrees'
    BY <1>1, <2>1 DEF Agrees
  <2>3. Place' = Place /\ Place \in Nat
    BY <1>1, CountTypes DEF Counted, Place
  <2> QED
    BY <1>1, <1>2, <2>2, <2>3, WithinRound DEF Stage
<1>3. CASE pc \notin BytesRead
  BY <1>1, <1>3 DEF StepsLeft, CopyLeft, Sub, DataSub, Calls, BytesRead
<1> QED
  BY <1>2, <1>3

(* A byte taken.  After the last, two readings that are not alike are not  *)
(* both what the register holds.                                           *)
LEMMA ByteAdvances ==
  ASSUME TypeOK, TypeOK', CallInv, Through, ~waiting', size' = size, GotByte(rb)
  PROVE  StepsLeft' < StepsLeft \/ pc' = "idle"
<1>1. Sub = 0 /\ Sub' = 2 /\ ~Through'
  BY DEF Through, Sub
<1>2. size \in Nat /\ size = hi(size) * Base + lo(size)
  BY SizeDigits, Digits
<1>3. /\ Rounds \in Nat /\ Place \in Nat /\ Rounds' \in Nat /\ CopyLeft' \in Nat
      /\ ReadLeft \in Nat
  BY CountTypes, CountTypesNext DEF Counted
<1>4. CASE pc = "hi1"
  <2>1. pc' = "lo1" /\ val1' = rb * Base
    BY <1>4 DEF GotByte
  <2>2. Agrees => Agrees'
    BY <1>1, <1>4, <2>1 DEF Agrees
  <2> QED
    BY <1>1, <1>4, <2>1, <2>2, WithinRound DEF Stage, Place, BytesRead
<1>5. CASE pc = "lo1"
  <2>1. ASSUME pc' = "hi2" PROVE StepsLeft' < StepsLeft
    <3>1. val1' = val1 + rb
      BY <1>5, <2>1 DEF GotByte
    <3>2. Agrees => Agrees'
      BY <1>1, <1>2, <1>5, <2>1, <3>1 DEF Agrees
    <3> QED
      BY <1>1, <1>5, <2>1, <3>2, WithinRound DEF Stage, Place, BytesRead
  <2>2. ASSUME pc' = "hi1" PROVE StepsLeft' < StepsLeft
    <3>1. val1 + rb = 0 /\ val # 0
      BY <1>5, <2>2 DEF GotByte, ZeroStands
    <3>2. size # 0
      BY <1>5, <3>1 DEF CallInv
    <3>3. ~Agrees
      BY <1>2, <1>5, <3>1, <3>2 DEF Agrees
    <3> QED
      BY <1>1, <1>5, <2>2, <3>3, NextRound DEF BytesRead
  <2>3. pc' \in {"hi2", "hi1", "idle"}
    BY <1>5 DEF GotByte
  <2> QED
    BY <2>1, <2>2, <2>3
<1>6. CASE pc = "hi2"
  <2>1. pc' = "lo2" /\ val' = rb * Base /\ val1' = val1
    BY <1>6 DEF GotByte
  <2>2. Agrees => Agrees'
    BY <1>1, <1>6, <2>1 DEF Agrees
  <2> QED
    BY <1>1, <1>6, <2>1, <2>2, WithinRound DEF Stage, Place, BytesRead
<1>7. CASE pc = "lo2"
  <2>1. TestSizes(val + rb)
    BY <1>7 DEF GotByte
  <2>2. CASE pc' = "getptr"
    <3>1. len' \in 0 .. MaxLen
      BY DEF TypeOK
    <3>2. StepsLeft' = 3 * len' + 6 + Sub'
      BY <2>2 DEF StepsLeft, CopyLeft, BytesRead
    <3>3. StepsLeft = 3 * MaxLen + 9 + ReadLeft
      BY <1>7 DEF StepsLeft, BytesRead
    <3>4. PICK l \in Nat, k \in Nat, n \in Nat : l = len' /\ k = MaxLen /\ n = ReadLeft
      BY <1>3, <3>1, MaxLenAssumption
    <3>5. l =< k
      BY <3>1, <3>4
    <3>6. 3 * l + 8 < 3 * k + 9 + n
      BY <3>5
    <3>7. StepsLeft' = 3 * l + 8 /\ StepsLeft = 3 * k + 9 + n
      BY <1>1, <3>2, <3>3, <3>4
    <3> QED
      BY <3>6, <3>7
  <2>3. CASE pc' = "hi1" /\ val + rb # val1
    <3>1. ~Agrees
      BY <1>2, <1>7, <2>3 DEF Agrees
    <3> QED
      BY <1>1, <1>7, <2>3, <3>1, NextRound DEF BytesRead
  <2> QED
    BY <2>1, <2>2, <2>3 DEF TestSizes, Same
<1> QED
  BY <1>4, <1>5, <1>6, <1>7, GotByteCalls DEF BytesRead

LEMMA CompleteAdvances ==
  ASSUME TypeOK, TypeOK', Undisturbed, CallInv, Complete
  PROVE  StepsLeft' < StepsLeft \/ pc' = "idle"
<1>1. Through /\ waiting' = FALSE /\ size' = size /\ Sub = 0 /\ Sub' = 2
      /\ waiting /\ ~busy /\ len \in Nat
  BY CompleteCases, CountTypes, MaxLenAssumption DEF Through, Sub, Counted
<1>2. CASE GotByte(rb)
  BY <1>1, <1>2, ByteAdvances
<1>3. CASE pc = "getptr" /\ pc' = "data" /\ len' = len
  BY <1>1, <1>3 DEF StepsLeft, CopyLeft, Sub, DataSub, BytesRead
<1>4. CASE pc = "data" /\ pc' = (IF len = 0 THEN "setptr" ELSE "data") /\ len' = len
  BY <1>1, <1>4 DEF StepsLeft, CopyLeft, Sub, DataSub, BytesRead
<1>5. CASE pc = "setptr" /\ pc' = "command"
  BY <1>1, <1>5 DEF StepsLeft, CopyLeft, Sub, DataSub, BytesRead
<1> QED
  BY <1>2, <1>3, <1>4, <1>5, CompleteCases

(* Unless a transfer times out, each step of a call of the driver, and     *)
(* each of the controller's, brings its return nearer, and the register    *)
(* that grows between them puts it off by no more than there is left of    *)
(* its range: what is decreasing behind AccessReturns.                     *)
THEOREM CallAdvances == Spec => AccessAdvances
<1>1. ASSUME IInv, IInv', CleanCallInv, [Next]_vars
      PROVE  [pc # "idle" /\ timeouts' = 0 => Nearer]_vars
  <2>1. SUFFICES ASSUME vars' # vars, pc # "idle", timeouts' = 0
                 PROVE  Nearer
    OBVIOUS
  <2>2. TypeOK /\ TypeOK' /\ [Next]_vars
    BY <1>1 DEF IInv
  <2>3. timeouts = 0 /\ Undisturbed /\ MoveInv /\ CallInv
    BY <1>1, <2>1, <2>2, CleanSteps DEF IInv, CleanInv, CleanCallInv
  <2>4. CleanNext
    BY <2>1, <2>2, <2>3, CleanSteps
  <2>5. StepsLeft \in Nat /\ StepsLeft' \in Nat
    BY <2>2, CountTypes, CountTypesNext DEF Counted
  <2>6. CASE Call
    BY <2>1, <2>6 DEF Call
  <2>7. CASE Command
    BY <2>5, <2>7 DEF Command, Nearer
  <2> QED
    BY <2>2, <2>3, <2>4, <2>5, <2>6, <2>7, GrowAdvances, StartAdvances,
       InterruptAdvances, CompleteAdvances DEF CleanNext, Nearer
<1> QED
  BY <1>1, Invariance, CallInvariance, PTL DEF Spec, AccessAdvances

(* Unless a transfer times out, a call of the driver is never stuck: its   *)
(* next step is there to be taken, or the controller's it waits for.       *)
THEOREM CallNeverHeldUp == Spec => []NeverHeldUp
<1>1. IInv /\ CleanCallInv => NeverHeldUp
  BY DEF IInv, TypeOK, CleanInv, Undisturbed, CleanCallInv, CallInv, NeverHeldUp, Ready,
         Through
<1> QED
  BY <1>1, Invariance, CallInvariance, PTL
=============================================================================
