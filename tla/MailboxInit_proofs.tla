-------------------------- MODULE MailboxInit_proofs --------------------------
(***************************************************************************)
(* Proofs about MailboxInit, for every size of the regions, any number of  *)
(* software interrupts, and whether or not interrupts arrive in the window *)
(* in which a register_cb holds its semaphore.                             *)
(***************************************************************************)
EXTENDS MailboxInit, TLAPS

Items == Regions \union {"other", "end"}

(***************************************************************************)
(* The inductive invariant.                                                *)
(***************************************************************************)

(* Only the register_cb under way holds a semaphore, and the count it is   *)
(* about to store was not zero.                                            *)
SemInv ==
  /\ sem_fifo_int = IF pc \in {"open", "fifo_give"} THEN 0 ELSE 1
  /\ sem_sw_int = IF pc \in {"open", "sw_give"} THEN 0 ELSE 1
  /\ pc = "store" => reg # 0

(* The end is the last of the items, and a region is still to be posted,   *)
(* in the FIFO, or taken out of it and recorded.                           *)
ItemInv ==
  /\ \A i \in DOMAIN fifo : fifo[i] = "end" => i = Len(fifo) /\ "end" \notin toPost
  /\ "end" \notin toPost => toPost \intersect Regions = {}
  /\ \A r \in Regions : base[r] \in {r, "none"}
  /\ \A r \in Regions : r \in toPost \/ base[r] = r \/ \E i \in DOMAIN fifo : fifo[i] = r
  /\ pc \in {"sizes", "ready", "failed"} => \A r \in Regions : base[r] = r

IInv == TypeOK /\ SemInv /\ ItemInv /\ NeverWaitsBesideAnItem /\ RingsAgreed

-----------------------------------------------------------------------------
(* A region is a power of two, at most 2^31 bytes; one larger than the     *)
(* header is larger by whole slots.                                        *)
LEMMA RegionSize ==
  ASSUME NEW n \in 0 .. 31
  PROVE  /\ 2 ^ n \in Nat
         /\ 2 ^ n > HEADER => 2 ^ n - HEADER > 0 /\ (2 ^ n - HEADER) % ALIGN = 0
<1> DEFINE pow(k) == 2 ^ k
<1>1. /\ pow(0) = 1 /\ pow(1) = 2 /\ pow(2) = 4
      /\ pow(3) = 8 /\ pow(4) = 16 /\ pow(5) = 32
      /\ pow(6) = 64 /\ pow(7) = 128 /\ pow(8) = 256
      /\ pow(9) = 512 /\ pow(10) = 1024 /\ pow(11) = 2048
      /\ pow(12) = 4096 /\ pow(13) = 8192 /\ pow(14) = 16384
      /\ pow(15) = 32768 /\ pow(16) = 65536 /\ pow(17) = 131072
      /\ pow(18) = 262144 /\ pow(19) = 524288 /\ pow(20) = 1048576
      /\ pow(21) = 2097152 /\ pow(22) = 4194304 /\ pow(23) = 8388608
      /\ pow(24) = 16777216 /\ pow(25) = 33554432 /\ pow(26) = 67108864
      /\ pow(27) = 134217728 /\ pow(28) = 268435456 /\ pow(29) = 536870912
      /\ pow(30) = 1073741824 /\ pow(31) = 2147483648
  OBVIOUS
<1> HIDE DEF pow
<1>2. \/ pow(n) = 1 \/ pow(n) = 2 \/ pow(n) = 4 \/ pow(n) = 8
      \/ pow(n) = 16 \/ pow(n) = 32 \/ pow(n) = 64 \/ pow(n) = 128
      \/ pow(n) = 256 \/ pow(n) = 512 \/ pow(n) = 1024 \/ pow(n) = 2048
      \/ pow(n) = 4096 \/ pow(n) = 8192 \/ pow(n) = 16384 \/ pow(n) = 32768
      \/ pow(n) = 65536 \/ pow(n) = 131072 \/ pow(n) = 262144 \/ pow(n) = 524288
      \/ pow(n) = 1048576 \/ pow(n) = 2097152 \/ pow(n) = 4194304 \/ pow(n) = 8388608
      \/ pow(n) = 16777216 \/ pow(n) = 33554432 \/ pow(n) = 67108864 \/ pow(n) = 134217728
      \/ pow(n) = 268435456 \/ pow(n) = 536870912 \/ pow(n) = 1073741824 \/ pow(n) = 2147483648
  BY <1>1
<1> DEFINE size == pow(n)
<1>3. size \in Nat
  BY <1>2
<1>4. size > 64 => size % 16 = 0
  BY <1>2
<1> HIDE DEF size
<1>5. size > 64 => size - 64 > 0 /\ (size - 64) % 16 = 0
  BY <1>3, <1>4
<1> QED
  BY <1>3, <1>5 DEF HEADER, ALIGN, size, pow

LEMMA InitInv == Init => IInv
<1> SUFFICES ASSUME Init PROVE IInv
  OBVIOUS
<1> USE MaxTriggersAssumption DEF Init
<1>1. fifo \in Seq(Items) /\ DOMAIN fifo = {}
  <2> HIDE DEF Items
  <2> QED
    OBVIOUS
<1>2. base \in [Regions -> Regions \union {"none"}]
  OBVIOUS
<1>3. TypeOK
  <2>1. logSize \in [Regions -> LogSizes] /\ toPost \subseteq Regions \union {"other", "end"}
    OBVIOUS
  <2>2. triggers \in 0 .. MaxTriggers
    OBVIOUS
  <2> QED
    BY <1>1, <1>2, <2>1, <2>2 DEF TypeOK, Items
<1>4. SemInv
  BY DEF SemInv
<1>5. ItemInv
  BY <1>1 DEF ItemInv, Regions
<1>6. NeverWaitsBesideAnItem /\ RingsAgreed
  BY DEF NeverWaitsBesideAnItem, RingsAgreed
<1> QED
  BY <1>3, <1>4, <1>5, <1>6 DEF IInv

(* A step that leaves FIFO, regions and results alone.                     *)
LEMMA SameItems ==
  ASSUME IInv, UNCHANGED <<logSize, toPost, fifo, base, bufSize>>,
         pc' \in {"sizes", "ready", "failed"} => pc' = pc
  PROVE  ItemInv' /\ RingsAgreed'
<1>1. ItemInv'
  BY DEF IInv, ItemInv
<1>2. RingsAgreed'
  BY DEF IInv, RingsAgreed
<1> QED
  BY <1>1, <1>2

(* Posting an item leaves it in the FIFO and its interrupt pending.        *)
LEMMA PostStep == IInv /\ A7Post => IInv'
<1> SUFFICES ASSUME IInv, NEW item \in toPost, "end" \in toPost,
                    item = "end" => toPost \intersect Regions = {},
                    fifo' = Append(fifo, item), toPost' = toPost \ {item},
                    wrPending' = TRUE,
                    UNCHANGED <<logSize, triggers, wrEnabled, swintSts, swEnabled,
                                semVars, countVars, isr, mainVars>>
             PROVE  IInv'
  BY DEF A7Post
<1> USE DEF semVars, countVars, mainVars
<1>1. /\ fifo' \in Seq(Items)
      /\ DOMAIN fifo = 1 .. Len(fifo) /\ Len(fifo) \in Nat
      /\ DOMAIN fifo' = 1 .. Len(fifo) + 1 /\ Len(fifo') = Len(fifo) + 1
      /\ fifo'[Len(fifo) + 1] = item
      /\ \A i \in 1 .. Len(fifo) : fifo'[i] = fifo[i]
  <2>1. fifo \in Seq(Items) /\ item \in Items
    BY DEF IInv, TypeOK, Items
  <2> HIDE DEF Items
  <2> QED
    BY <2>1
<1>2. TypeOK'
  BY <1>1 DEF IInv, TypeOK, Items
<1>3. SemInv'
  BY DEF IInv, SemInv
<1>4. ItemInv'
  <2>1. ASSUME NEW i \in DOMAIN fifo', fifo'[i] = "end"
        PROVE  i = Len(fifo') /\ "end" \notin toPost'
    <3>1. i = Len(fifo) + 1
      BY <1>1, <2>1 DEF IInv, ItemInv
    <3> QED
      BY <1>1, <2>1, <3>1
  <2>2. "end" \notin toPost' => toPost' \intersect Regions = {}
    BY DEF Regions
  <2>3. ASSUME NEW r \in Regions
        PROVE  r \in toPost' \/ base'[r] = r \/ \E i \in DOMAIN fifo' : fifo'[i] = r
    <3>1. CASE r = item
      BY <1>1, <3>1
    <3>2. CASE r # item
      <4>1. CASE \E i \in DOMAIN fifo : fifo[i] = r
        BY <1>1, <4>1
      <4>2. CASE r \in toPost \/ base[r] = r
        BY <3>2, <4>2
      <4> QED
        BY <4>1, <4>2 DEF IInv, ItemInv
    <3> QED
      BY <3>1, <3>2
  <2> QED
    BY <2>1, <2>2, <2>3 DEF IInv, ItemInv
<1>5. NeverWaitsBesideAnItem' /\ RingsAgreed'
  BY DEF IInv, NeverWaitsBesideAnItem, RingsAgreed
<1> QED
  BY <1>2, <1>3, <1>4, <1>5 DEF IInv

(* The end comes out of the FIFO after both regions.                       *)
LEMMA PopStep == IInv /\ PopItem => IInv'
<1> SUFFICES ASSUME IInv, PopItem PROVE IInv'
  OBVIOUS
<1> USE DEF PopItem, At, a7Vars, lineVars, semVars, countVars
<1>1. /\ Head(fifo) = fifo[1] /\ Head(fifo) \in Items
      /\ DOMAIN fifo = 1 .. Len(fifo) /\ Len(fifo) \in Nat /\ Len(fifo) >= 1
      /\ fifo' \in Seq(Items) /\ Len(fifo') = Len(fifo) - 1
      /\ DOMAIN fifo' = 1 .. Len(fifo) - 1
      /\ \A i \in 1 .. Len(fifo) - 1 : fifo'[i] = fifo[i + 1]
  <2>1. fifo \in Seq(Items) /\ fifo # <<>> /\ fifo' = Tail(fifo)
    BY DEF IInv, TypeOK, Items
  <2> HIDE DEF Items
  <2> QED
    BY <2>1
<1>2. \A r \in Regions : base'[r] = IF r = Head(fifo) THEN r ELSE base[r]
  BY DEF IInv, TypeOK
<1>3. TypeOK'
  <2>1. base' \in [Regions -> Regions \union {"none"}]
    BY DEF IInv, TypeOK
  <2>2. fifo' \in Seq(Regions \union {"other", "end"})
    BY <1>1 DEF Items
  <2> QED
    BY <2>1, <2>2 DEF IInv, TypeOK
<1>4. SemInv'
  BY DEF IInv, SemInv
<1>5. ASSUME NEW r \in Regions
      PROVE  r \in toPost' \/ base'[r] = r \/ \E i \in DOMAIN fifo' : fifo'[i] = r
  <2>1. CASE r \in toPost \/ base[r] = r
    BY <1>2, <2>1
  <2>2. CASE \E i \in DOMAIN fifo : fifo[i] = r
    <3>1. PICK i \in DOMAIN fifo : fifo[i] = r
      BY <2>2
    <3>2. CASE i = 1
      BY <1>1, <1>2, <3>1, <3>2
    <3>3. CASE i # 1
      <4>1. i - 1 \in DOMAIN fifo' /\ fifo'[i - 1] = fifo[i]
        BY <1>1, <3>3
      <4> QED
        BY <3>1, <4>1
    <3> QED
      BY <3>2, <3>3
  <2> QED
    BY <2>1, <2>2 DEF IInv, ItemInv
<1>6. \A i \in DOMAIN fifo' : fifo'[i] = "end" => i = Len(fifo') /\ "end" \notin toPost'
  BY <1>1 DEF IInv, ItemInv
<1>7. pc' = "sizes" => \A r \in Regions : base'[r] = r
  <2> SUFFICES ASSUME Head(fifo) = "end", NEW r \in Regions PROVE base'[r] = r
    OBVIOUS
  <2>1. Len(fifo) = 1 /\ "end" \notin toPost
    BY <1>1 DEF IInv, ItemInv
  <2>2. toPost \intersect Regions = {} /\ DOMAIN fifo' = {}
    BY <1>1, <2>1 DEF IInv, ItemInv
  <2> QED
    BY <1>5, <2>2
<1>8. ItemInv'
  <2>1. \A r \in Regions : base'[r] \in {r, "none"}
    BY <1>2 DEF IInv, ItemInv
  <2>2. pc' \in {"sizes", "count"}
    OBVIOUS
  <2> QED
    BY <1>5, <1>6, <1>7, <2>1, <2>2 DEF IInv, ItemInv
<1>9. NeverWaitsBesideAnItem' /\ RingsAgreed'
  BY DEF NeverWaitsBesideAnItem, RingsAgreed
<1> QED
  BY <1>3, <1>4, <1>8, <1>9 DEF IInv

(* What mbox_init goes on with has been compared.                          *)
LEMMA SizesStep == IInv /\ CheckSizes => IInv'
<1> SUFFICES ASSUME IInv, CheckSizes PROVE IInv'
  OBVIOUS
<1> USE DEF CheckSizes, At, a7Vars, lineVars, semVars, countVars
<1>1. \A r \in Regions : base[r] = r /\ SizeOf(base[r]) = 2 ^ logSize[r]
  BY DEF IInv, ItemInv, SizeOf, Regions
<1>2. \A r \in Regions : logSize[r] \in 0 .. 31
  BY LogSizesAssumption DEF IInv, TypeOK
<1>3. "read" \in Regions /\ "write" \in Regions
  BY DEF Regions
<1> DEFINE size == 2 ^ logSize["read"]
<1>4. /\ size \in Nat
      /\ size > HEADER => size - HEADER > 0 /\ (size - HEADER) % ALIGN = 0
  BY <1>2, <1>3, RegionSize
<1>5. SizeOf(base["read"]) = size /\ SizeOf(base["write"]) = 2 ^ logSize["write"]
  BY <1>1, <1>3
<1> HIDE DEF size
<1>6. CASE pc' = "ready"
  <2>1. /\ size > HEADER /\ bufSize' = size - HEADER /\ 2 ^ logSize["write"] = size
    BY <1>5, <1>6
  <2>2. bufSize' \in Nat /\ bufSize' > 0 /\ bufSize' % ALIGN = 0
    BY <1>4, <2>1 DEF HEADER
  <2>3. TypeOK'
    BY <1>6, <2>2 DEF IInv, TypeOK
  <2>4. RingsAgreed'
    <3>1. base' = [r \in Regions |-> r]
      BY <1>1 DEF IInv, TypeOK
    <3>2. \A r \in Regions : bufSize' = 2 ^ logSize'[r] - HEADER
      BY <2>1 DEF size, Regions
    <3> QED
      BY <2>2, <3>1, <3>2 DEF RingsAgreed
  <2>5. SemInv' /\ ItemInv' /\ NeverWaitsBesideAnItem'
    BY <1>6 DEF IInv, SemInv, ItemInv, NeverWaitsBesideAnItem
  <2> QED
    BY <2>3, <2>4, <2>5 DEF IInv
<1>7. CASE pc' = "failed"
  <2>1. UNCHANGED bufSize
    BY <1>7
  <2>2. TypeOK'
    BY <1>7, <2>1 DEF IInv, TypeOK
  <2>3. SemInv' /\ ItemInv' /\ NeverWaitsBesideAnItem' /\ RingsAgreed'
    BY <1>7 DEF IInv, SemInv, ItemInv, NeverWaitsBesideAnItem, RingsAgreed
  <2> QED
    BY <2>2, <2>3 DEF IInv
<1> QED
  BY <1>6, <1>7

(* The other steps: the two handlers, the A7's trigger, and mbox_init up   *)
(* to the wait for an item.                                                *)
LEMMA OtherSteps ==
  ASSUME IInv,
         \/ A7Trigger \/ Isr \/ OpenChannel
         \/ RegisterFifo \/ RegisterFifoDone \/ RegisterSwInt \/ RegisterSwIntDone
         \/ ReadCount \/ LoadFifoSema \/ StoreFifoSema \/ UNCHANGED vars
  PROVE  IInv'
<1> USE DEF a7Vars, lineVars, semVars, countVars, mainVars, vars, Isr, At
<1>1. TypeOK'
  <2>1. /\ UNCHANGED <<logSize, toPost, fifo, base, bufSize>>
        /\ triggers' \in 0 .. MaxTriggers
    BY MaxTriggersAssumption DEF IInv, TypeOK, A7Trigger, FifoIsrEnter, mbox_fifo_cb, SwIsrEnter,
           mbox_swint_cb, OpenChannel, RegisterFifo, RegisterFifoDone, RegisterSwInt,
           RegisterSwIntDone, ReadCount, LoadFifoSema, StoreFifoSema
  <2>2. /\ wrPending' \in BOOLEAN /\ wrEnabled' \in BOOLEAN
        /\ swintSts' \in BOOLEAN /\ swEnabled' \in BOOLEAN
    BY Zenon DEF IInv, TypeOK, A7Trigger, FifoIsrEnter, mbox_fifo_cb, SwIsrEnter,
           mbox_swint_cb, OpenChannel, RegisterFifo, RegisterFifoDone, RegisterSwInt,
           RegisterSwIntDone, ReadCount, LoadFifoSema, StoreFifoSema
  <2>3. sem_fifo_int' \in {0, 1} /\ sem_sw_int' \in {0, 1}
    BY DEF IInv, TypeOK, SemInv, A7Trigger, FifoIsrEnter, mbox_fifo_cb, SwIsrEnter,
           mbox_swint_cb, OpenChannel, RegisterFifo, RegisterFifoDone, RegisterSwInt,
           RegisterSwIntDone, ReadCount, LoadFifoSema, StoreFifoSema
  <2>4. blockFifoSema' \in Nat /\ blockDeqSema' \in Nat /\ reg' \in Nat
    BY DEF IInv, TypeOK, SemInv, A7Trigger, FifoIsrEnter, mbox_fifo_cb, SwIsrEnter,
           mbox_swint_cb, OpenChannel, RegisterFifo, RegisterFifoDone, RegisterSwInt,
           RegisterSwIntDone, ReadCount, LoadFifoSema, StoreFifoSema
  <2>5. /\ isr' \in {"off", "fifo", "sw"}
        /\ pc' \in {"open", "fifo_take", "fifo_give", "sw_take", "sw_give", "count",
                    "wait", "store", "pop", "sizes", "ready", "failed"}
    BY DEF IInv, TypeOK, A7Trigger, FifoIsrEnter, mbox_fifo_cb, SwIsrEnter,
           mbox_swint_cb, OpenChannel, RegisterFifo, RegisterFifoDone, RegisterSwInt,
           RegisterSwIntDone, ReadCount, LoadFifoSema, StoreFifoSema
  <2> QED
    BY <2>1, <2>2, <2>3, <2>4, <2>5 DEF IInv, TypeOK
<1>2. SemInv'
  BY DEF IInv, TypeOK, SemInv, A7Trigger, FifoIsrEnter, mbox_fifo_cb, SwIsrEnter,
         mbox_swint_cb, OpenChannel, RegisterFifo, RegisterFifoDone, RegisterSwInt,
         RegisterSwIntDone, ReadCount, LoadFifoSema, StoreFifoSema
<1>3. ItemInv' /\ RingsAgreed'
  <2>1. /\ UNCHANGED <<logSize, toPost, fifo, base, bufSize>>
        /\ pc' \in {"sizes", "ready", "failed"} => pc' = pc
    BY DEF A7Trigger, FifoIsrEnter, mbox_fifo_cb, SwIsrEnter,
           mbox_swint_cb, OpenChannel, RegisterFifo, RegisterFifoDone, RegisterSwInt,
           RegisterSwIntDone, ReadCount, LoadFifoSema, StoreFifoSema
  <2> QED
    BY <2>1, SameItems
<1>4. NeverWaitsBesideAnItem'
  BY DEF IInv, TypeOK, NeverWaitsBesideAnItem, A7Trigger, FifoIsrEnter, mbox_fifo_cb,
         SwIsrEnter, mbox_swint_cb, OpenChannel, RegisterFifo, RegisterFifoDone,
         RegisterSwInt, RegisterSwIntDone, ReadCount, LoadFifoSema, StoreFifoSema
<1> QED
  BY <1>1, <1>2, <1>3, <1>4 DEF IInv

LEMMA NextInv == IInv /\ [Next]_vars => IInv'
  BY PostStep, PopStep, SizesStep, OtherSteps DEF Next, Main

(* The invariant holds throughout every behaviour of the two cores.        *)
THEOREM Invariance == Spec => []IInv
  BY InitInv, NextInv, PTL DEF Spec

(* Every variable of the set-up keeps its type; in particular the two      *)
(* semaphores stay binary.                                                 *)
THEOREM TypeCorrect == Spec => []TypeOK
<1>1. IInv => TypeOK
  BY DEF IInv
<1> QED
  BY <1>1, Invariance, PTL

(* If GetIntercoreBuffers succeeds, each end has its own region, both have *)
(* the announced size, and the data area is whole slots: what MailboxRing  *)
(* takes for granted of BufSize.                                           *)
THEOREM RingsAreTheAnnounced == Spec => []RingsAgreed
<1>1. IInv => RingsAgreed
  BY DEF IInv
<1> QED
  BY <1>1, Invariance, PTL

(* ReceiveMessage never waits with an item in the FIFO and nothing to end  *)
(* the wait, although blockFifoSema-- races the handler's increment.       *)
THEOREM NoLostItem == Spec => []NeverWaitsBesideAnItem
<1>1. IInv => NeverWaitsBesideAnItem
  BY DEF IInv
<1> QED
  BY <1>1, Invariance, PTL

-----------------------------------------------------------------------------
(***************************************************************************)
(* That mbox_init ends.  WorkLeft counts the steps that are left to        *)
(* everybody: an item posted is an interrupt and an item to take, an       *)
(* interrupt is a unit of blockFifoSema, and a unit is a round of          *)
(* ReceiveMessage, whose store may overwrite more units than the one it    *)
(* takes.                                                                  *)
(***************************************************************************)
One(b) == IF b THEN 1 ELSE 0

ItemsLeft ==
  One("read" \in toPost) + One("write" \in toPost) + One("other" \in toPost)
    + One("end" \in toPost)

A7Work == 8 * ItemsLeft + 3 * (MaxTriggers - triggers)

LineWork ==
  5 * One(wrPending) + 2 * One(swintSts)
    + (CASE isr = "fifo" -> 4 [] isr = "sw" -> 1 [] OTHER -> 0)

MainWork ==
  CASE pc = "open"      -> 8
    [] pc = "fifo_take" -> 7
    [] pc = "fifo_give" -> 6
    [] pc = "sw_take"   -> 5
    [] pc = "sw_give"   -> 4
    [] pc = "count"     -> 3
    [] pc = "wait"      -> 2
    [] pc = "pop"       -> 2
    [] pc = "store"     -> 1
    [] pc = "sizes"     -> 1
    [] OTHER            -> 0

WorkLeft == A7Work + 2 * Len(fifo) + 3 * blockFifoSema + LineWork + MainWork

LessWork == {WorkLeft, WorkLeft'} \subseteq Nat /\ WorkLeft' < WorkLeft

(* Set-up, the handlers and the A7's announcement come to rest: every step *)
(* of any of them leaves fewer, and none goes round for ever.              *)
ComesToRest == [][LessWork]_vars

(* The guards of the main program's next step.                             *)
MainReady ==
  /\ isr = "off"
  /\ \/ pc \in {"open", "fifo_give", "sw_give", "count", "store", "sizes"}
     \/ pc = "fifo_take" /\ sem_fifo_int # 0
     \/ pc = "sw_take" /\ sem_sw_int # 0
     \/ pc = "wait" /\ blockFifoSema # 0
     \/ pc = "pop" /\ fifo # <<>>

IsrReady ==
  \/ isr = "off" /\ wrEnabled /\ wrPending
  \/ isr = "fifo" /\ sem_fifo_int # 0
  \/ isr = "sw" /\ sem_sw_int # 0

(* The A7 has an item to post.                                             *)
A7Ready ==
  /\ ~Window("fifo_give")
  /\ "end" \in toPost
  /\ \E item \in toPost : item = "end" => toPost \intersect Regions = {}

(* Set-up does not come to rest before it is over, unless an interrupt     *)
(* arrives in a window.                                                    *)
RestsWhenOver ==
  ~InWindow /\ pc \notin {"ready", "failed"} => MainReady \/ IsrReady \/ A7Ready

(***************************************************************************)
(* What that needs: lines are enabled when their callbacks are registered, *)
(* no handler runs in a window unless an interrupt arrived there, and the  *)
(* end is still to come until it has been taken.                           *)
(***************************************************************************)
Over == pc \in {"sizes", "ready", "failed"}

LinesInv ==
  /\ wrEnabled <=> pc \notin {"open", "fifo_take"}
  /\ pc \in {"open", "fifo_take", "fifo_give", "sw_take"} => ~swEnabled
  /\ isr = "fifo" => wrEnabled
  /\ isr = "sw" => swEnabled
  /\ ~InWindow /\ pc = "fifo_give" => ~wrPending /\ isr # "fifo"
  /\ ~InWindow /\ pc = "sw_give" => ~swintSts /\ isr # "sw"

ProgressInv ==
  /\ pc = "store" => reg =< blockFifoSema
  /\ pc = "pop" => fifo # <<>>
  /\ Over \/ "end" \in toPost \/ \E i \in DOMAIN fifo : fifo[i] = "end"

RestInv == LinesInv /\ ProgressInv

-----------------------------------------------------------------------------
LEMMA RestInit == Init => RestInv
BY DEF Init, RestInv, LinesInv, ProgressInv, Over

LEMMA LinesKept ==
  ASSUME IInv, LinesInv, [Next]_vars
  PROVE  LinesInv'
<1> USE DEF a7Vars, lineVars, semVars, countVars, mainVars, At
<1>1. CASE A7Post
  BY <1>1 DEF LinesInv, A7Post, Window
<1>2. CASE A7Trigger
  BY <1>2 DEF LinesInv, A7Trigger, Window
<1>3. CASE Isr
  BY <1>3 DEF LinesInv, Isr, FifoIsrEnter, mbox_fifo_cb, SwIsrEnter, mbox_swint_cb
<1>4. CASE OpenChannel \/ RegisterFifo \/ RegisterFifoDone \/ RegisterSwInt
             \/ RegisterSwIntDone
  BY <1>4 DEF LinesInv, OpenChannel, RegisterFifo, RegisterFifoDone, RegisterSwInt,
              RegisterSwIntDone
<1>5. CASE ReadCount \/ LoadFifoSema \/ StoreFifoSema \/ PopItem \/ CheckSizes
  BY <1>5 DEF LinesInv, ReadCount, LoadFifoSema, StoreFifoSema, PopItem, CheckSizes
<1>6. CASE UNCHANGED vars
  BY <1>6 DEF LinesInv, vars
<1> QED
  BY <1>1, <1>2, <1>3, <1>4, <1>5, <1>6 DEF Next, Main

(* The end stays to be posted or in the FIFO until it is taken.            *)
LEMMA EndKept ==
  ASSUME IInv, ProgressInv, [Next]_vars
  PROVE  Over' \/ "end" \in toPost' \/ \E i \in DOMAIN fifo' : fifo'[i] = "end"
<1> USE DEF a7Vars, lineVars, semVars, countVars, mainVars, At
<1>1. fifo \in Seq(Items) /\ DOMAIN fifo = 1 .. Len(fifo) /\ Len(fifo) \in Nat
  <2>1. fifo \in Seq(Items)
    BY DEF IInv, TypeOK, Items
  <2> HIDE DEF Items
  <2> QED
    BY <2>1
<1>2. CASE A7Post
  <2>1. PICK item \in toPost : fifo' = Append(fifo, item) /\ toPost' = toPost \ {item}
    BY <1>2 DEF A7Post
  <2>2. item \in Items
    BY DEF IInv, TypeOK, Items
  <2>3. /\ DOMAIN fifo' = 1 .. Len(fifo) + 1
        /\ fifo'[Len(fifo) + 1] = item
        /\ \A i \in 1 .. Len(fifo) : fifo'[i] = fifo[i]
    <3> HIDE DEF Items
    <3> QED
      BY <1>1, <2>1, <2>2
  <2>4. CASE item = "end"
    BY <1>1, <2>3, <2>4
  <2>5. CASE item # "end"
    <3>1. Over' = Over /\ "end" \in toPost
      BY <1>2 DEF A7Post, Over
    <3> QED
      BY <2>1, <2>5, <3>1
  <2> QED
    BY <2>4, <2>5
<1>3. CASE PopItem
  <2>1. /\ fifo # <<>> /\ fifo' = Tail(fifo) /\ toPost' = toPost /\ pc = "pop"
        /\ pc' = IF Head(fifo) = "end" THEN "sizes" ELSE "count"
    BY <1>3 DEF PopItem
  <2>2. /\ Head(fifo) = fifo[1] /\ Len(fifo) >= 1
        /\ DOMAIN fifo' = 1 .. Len(fifo) - 1
        /\ \A i \in 1 .. Len(fifo) - 1 : fifo'[i] = fifo[i + 1]
    <3> HIDE DEF Items
    <3> QED
      BY <1>1, <2>1
  <2>3. CASE Head(fifo) = "end"
    BY <2>1, <2>3 DEF Over
  <2>4. CASE Head(fifo) # "end"
    <3>1. SUFFICES ASSUME NEW i \in DOMAIN fifo, fifo[i] = "end"
                   PROVE  \E j \in DOMAIN fifo' : fifo'[j] = "end"
      BY <2>1 DEF ProgressInv, Over
    <3>2. i # 1 /\ i \in 1 .. Len(fifo)
      BY <1>1, <2>2, <2>4, <3>1
    <3>3. i - 1 \in DOMAIN fifo' /\ fifo'[i - 1] = fifo[i]
      BY <1>1, <2>2, <3>2
    <3> QED
      BY <3>1, <3>3
  <2> QED
    BY <2>3, <2>4
<1>4. CASE A7Trigger \/ Isr \/ UNCHANGED vars
  <2>1. UNCHANGED <<fifo, toPost, pc>>
    BY <1>4 DEF A7Trigger, Isr, FifoIsrEnter, mbox_fifo_cb, SwIsrEnter, mbox_swint_cb, vars
  <2> QED
    BY <2>1 DEF ProgressInv, Over
<1>5. CASE Main /\ ~PopItem
  <2>1. UNCHANGED <<fifo, toPost>> /\ (Over => Over')
    BY <1>5 DEF Main, Over, OpenChannel, RegisterFifo, RegisterFifoDone, RegisterSwInt,
           RegisterSwIntDone, ReadCount, LoadFifoSema, StoreFifoSema, CheckSizes
  <2> QED
    BY <2>1 DEF ProgressInv
<1> QED
  BY <1>2, <1>3, <1>4, <1>5 DEF Next

LEMMA ProgressKept ==
  ASSUME IInv, ProgressInv, [Next]_vars
  PROVE  ProgressInv'
<1> USE DEF a7Vars, lineVars, semVars, countVars, mainVars, At
<1>1. pc' = "store" => reg' =< blockFifoSema'
  <2>1. blockFifoSema \in Nat /\ reg \in Nat
    BY DEF IInv, TypeOK
  <2>2. CASE A7Post \/ A7Trigger \/ UNCHANGED vars
    BY <2>2 DEF ProgressInv, A7Post, A7Trigger, vars
  <2>3. CASE Isr
    BY <2>1, <2>3 DEF ProgressInv, Isr, FifoIsrEnter, mbox_fifo_cb, SwIsrEnter, mbox_swint_cb
  <2>4. CASE Main
    BY <2>1, <2>4 DEF Main, OpenChannel, RegisterFifo, RegisterFifoDone, RegisterSwInt,
           RegisterSwIntDone, ReadCount, LoadFifoSema, StoreFifoSema, PopItem, CheckSizes
  <2> QED
    BY <2>2, <2>3, <2>4 DEF Next
<1>2. pc' = "pop" => fifo' # <<>>
  <2>1. CASE A7Post
    <3>1. PICK item : fifo' = Append(fifo, item)
      BY <2>1 DEF A7Post
    <3>2. fifo \in Seq(Items)
      BY DEF IInv, TypeOK, Items
    <3>3. Len(fifo') = Len(fifo) + 1 /\ Len(fifo) \in Nat
      <4> HIDE DEF Items
      <4> QED
        BY <3>1, <3>2
    <3>4. Len(<<>>) = 0
      OBVIOUS
    <3> QED
      BY <3>3, <3>4
  <2>2. CASE A7Trigger \/ Isr \/ UNCHANGED vars
    BY <2>2 DEF ProgressInv, A7Trigger, Isr, FifoIsrEnter, mbox_fifo_cb, SwIsrEnter,
           mbox_swint_cb, vars
  <2>3. CASE Main
    BY <2>3 DEF Main, OpenChannel, RegisterFifo, RegisterFifoDone, RegisterSwInt,
           RegisterSwIntDone, ReadCount, LoadFifoSema, StoreFifoSema, PopItem, CheckSizes
  <2> QED
    BY <2>1, <2>2, <2>3 DEF Next
<1> QED
  BY <1>1, <1>2, EndKept DEF ProgressInv

LEMMA RestInvariance == Spec => []RestInv
<1>1. IInv /\ RestInv /\ [Next]_vars => RestInv'
  BY LinesKept, ProgressKept DEF RestInv
<1> QED
  BY <1>1, RestInit, Invariance, PTL DEF Spec

-----------------------------------------------------------------------------
(* The parts of the count.                                                 *)
Counted ==
  /\ A7Work \in Nat /\ LineWork \in Nat /\ MainWork \in Nat
  /\ Len(fifo) \in Nat /\ blockFifoSema \in Nat

LEMMA CountTypes == TypeOK => Counted
<1> SUFFICES ASSUME TypeOK PROVE Counted
  OBVIOUS
<1>1. ItemsLeft \in Nat
  BY DEF ItemsLeft, One
<1>2. MaxTriggers - triggers \in Nat
  BY MaxTriggersAssumption DEF TypeOK
<1>3. A7Work \in Nat
  BY <1>1, <1>2 DEF A7Work
<1>4. LineWork \in Nat
  BY DEF LineWork, One
<1>5. MainWork \in Nat
  BY DEF MainWork
<1>6. fifo \in Seq(Items)
  BY DEF TypeOK, Items
<1>7. Len(fifo) \in Nat
  <2> HIDE DEF Items
  <2> QED
    BY <1>6
<1>8. blockFifoSema \in Nat
  BY DEF TypeOK
<1> QED
  BY <1>3, <1>4, <1>5, <1>7, <1>8 DEF Counted

LEMMA CountTypesNext == TypeOK' => Counted'
BY CountTypes, PTL

LEMMA PostLess ==
  ASSUME IInv, IInv', A7Post
  PROVE  LessWork
<1>1. Counted /\ Counted'
  BY CountTypes, CountTypesNext DEF IInv
<1>2. PICK item \in toPost : fifo' = Append(fifo, item) /\ toPost' = toPost \ {item}
  BY DEF A7Post
<1>3. item \in Items /\ fifo \in Seq(Items)
  BY DEF IInv, TypeOK, Items
<1>4. Len(fifo') = Len(fifo) + 1
  <2> HIDE DEF Items
  <2> QED
    BY <1>2, <1>3
<1>5. ItemsLeft' = ItemsLeft - 1
  BY <1>2, <1>3 DEF ItemsLeft, One, Items, Regions
<1>6. ItemsLeft \in Nat
  BY DEF ItemsLeft, One
<1>7. triggers' = triggers /\ triggers \in Nat
  BY DEF A7Post, IInv, TypeOK
<1>8. A7Work' =< A7Work - 8
  BY <1>5, <1>6, <1>7, MaxTriggersAssumption DEF A7Work
<1>9. LineWork' =< LineWork + 5
  BY DEF A7Post, LineWork, One
<1>10. MainWork' = MainWork /\ blockFifoSema' = blockFifoSema
  BY DEF A7Post, MainWork, countVars, mainVars
<1> QED
  BY <1>1, <1>4, <1>8, <1>9, <1>10 DEF Counted, WorkLeft, LessWork

LEMMA TriggerLess ==
  ASSUME IInv, IInv', A7Trigger
  PROVE  LessWork
<1>1. Counted /\ Counted'
  BY CountTypes, CountTypesNext DEF IInv
<1>2. triggers' = triggers + 1 /\ triggers \in Nat /\ ItemsLeft' = ItemsLeft /\ ItemsLeft \in Nat
  BY DEF A7Trigger, IInv, TypeOK, ItemsLeft, One
<1>3. A7Work' =< A7Work - 3
  BY <1>2, MaxTriggersAssumption DEF A7Work
<1>4. LineWork' =< LineWork + 2
  BY DEF A7Trigger, LineWork, One
<1>5. MainWork' = MainWork /\ blockFifoSema' = blockFifoSema /\ fifo' = fifo
  BY DEF A7Trigger, MainWork, countVars, mainVars
<1> QED
  BY <1>1, <1>3, <1>4, <1>5 DEF Counted, WorkLeft, LessWork

LEMMA IsrLess ==
  ASSUME IInv, IInv', Isr
  PROVE  LessWork
<1>1. Counted /\ Counted'
  BY CountTypes, CountTypesNext DEF IInv
<1>2. UNCHANGED <<a7Vars, fifo, mainVars>>
  BY DEF Isr, FifoIsrEnter, mbox_fifo_cb, SwIsrEnter, mbox_swint_cb
<1>3. A7Work' = A7Work /\ MainWork' = MainWork /\ fifo' = fifo
  BY <1>2 DEF A7Work, MainWork, ItemsLeft, a7Vars, mainVars
<1>4. CASE FifoIsrEnter \/ SwIsrEnter
  <2>1. blockFifoSema' = blockFifoSema
    BY <1>4 DEF FifoIsrEnter, SwIsrEnter, countVars
  <2>2. LineWork' =< LineWork - 1
    BY <1>4 DEF FifoIsrEnter, SwIsrEnter, LineWork, One
  <2> QED
    BY <1>1, <1>3, <2>1, <2>2 DEF Counted, WorkLeft, LessWork
<1>5. CASE mbox_fifo_cb
  <2>1. blockFifoSema' = blockFifoSema + 1
    BY <1>5 DEF mbox_fifo_cb
  <2>2. LineWork' =< LineWork - 4
    BY <1>5 DEF mbox_fifo_cb, LineWork, One, lineVars
  <2> QED
    BY <1>1, <1>3, <2>1, <2>2 DEF Counted, WorkLeft, LessWork
<1>6. CASE mbox_swint_cb
  <2>1. blockFifoSema' = blockFifoSema
    BY <1>6 DEF mbox_swint_cb
  <2>2. LineWork' =< LineWork - 1
    BY <1>6 DEF mbox_swint_cb, LineWork, One, lineVars
  <2> QED
    BY <1>1, <1>3, <2>1, <2>2 DEF Counted, WorkLeft, LessWork
<1> QED
  BY <1>4, <1>5, <1>6 DEF Isr

LEMMA MainLess ==
  ASSUME IInv, IInv', RestInv, Main
  PROVE  LessWork
<1> USE DEF At
<1>1. Counted /\ Counted'
  BY CountTypes, CountTypesNext DEF IInv
<1>2. UNCHANGED a7Vars /\ isr' = isr
  BY DEF Main, OpenChannel, RegisterFifo, RegisterFifoDone, RegisterSwInt, RegisterSwIntDone,
         ReadCount, LoadFifoSema, StoreFifoSema, PopItem, CheckSizes
<1>3. A7Work' = A7Work
  BY <1>2 DEF A7Work, ItemsLeft, a7Vars
<1>4. LineWork' =< LineWork
  <2>1. CASE RegisterFifo \/ RegisterSwInt
    BY <1>2, <2>1 DEF RegisterFifo, RegisterSwInt, LineWork, One
  <2>2. CASE ~(RegisterFifo \/ RegisterSwInt)
    <3>1. UNCHANGED <<wrPending, swintSts>>
      BY <2>2 DEF Main, OpenChannel, RegisterFifoDone, RegisterSwIntDone,
             ReadCount, LoadFifoSema, StoreFifoSema, PopItem, CheckSizes, lineVars
    <3>2. LineWork' = LineWork
      BY <1>2, <3>1 DEF LineWork
    <3> QED
      BY <1>1, <3>2 DEF Counted
  <2> QED
    BY <2>1, <2>2
<1>5. CASE PopItem
  <2>1. fifo # <<>> /\ fifo' = Tail(fifo) /\ fifo \in Seq(Items)
    BY <1>5 DEF PopItem, IInv, TypeOK, Items
  <2>2. Len(fifo') = Len(fifo) - 1
    <3> HIDE DEF Items
    <3> QED
      BY <2>1
  <2>3. MainWork' =< MainWork + 1 /\ blockFifoSema' = blockFifoSema
    BY <1>5 DEF PopItem, MainWork, countVars
  <2> QED
    BY <1>1, <1>3, <1>4, <2>2, <2>3 DEF Counted, WorkLeft, LessWork
<1>6. CASE StoreFifoSema
  <2>1. blockFifoSema' =< blockFifoSema - 1
    BY <1>6 DEF StoreFifoSema, RestInv, ProgressInv, IInv, TypeOK
  <2>2. MainWork' =< MainWork + 2 /\ fifo' = fifo
    BY <1>6 DEF StoreFifoSema, MainWork
  <2> QED
    BY <1>1, <1>3, <1>4, <2>1, <2>2 DEF Counted, WorkLeft, LessWork
<1>7. CASE OpenChannel \/ RegisterFifo \/ RegisterFifoDone \/ RegisterSwInt
             \/ RegisterSwIntDone \/ ReadCount \/ LoadFifoSema \/ CheckSizes
  <2>1. fifo' = fifo /\ blockFifoSema' =< blockFifoSema
    BY <1>1, <1>7 DEF OpenChannel, RegisterFifo, RegisterFifoDone, RegisterSwInt,
           RegisterSwIntDone, ReadCount, LoadFifoSema, CheckSizes, countVars, Counted
  <2>2. MainWork' =< MainWork - 1
    BY <1>7 DEF OpenChannel, RegisterFifo, RegisterFifoDone, RegisterSwInt,
           RegisterSwIntDone, ReadCount, LoadFifoSema, CheckSizes, MainWork
  <2> QED
    BY <1>1, <1>3, <1>4, <2>1, <2>2 DEF Counted, WorkLeft, LessWork
<1> QED
  BY <1>5, <1>6, <1>7 DEF Main

(* mbox_init, the handlers and what the A7 sends come to rest, with or     *)
(* without interrupts in a window: ReceiveMessage does not go round for    *)
(* ever on units of blockFifoSema that stand for no item.                  *)
THEOREM SetUpComesToRest == Spec => ComesToRest
<1>1. IInv /\ IInv' /\ RestInv /\ [Next]_vars => [LessWork]_vars
  BY PostLess, TriggerLess, IsrLess, MainLess DEF Next
<1> QED
  BY <1>1, Invariance, RestInvariance, PTL DEF Spec, ComesToRest

(* Where they come to rest, mbox_init is over, unless an interrupt arrived *)
(* in a window: GetIntercoreBuffers blocks no longer than the A7 has       *)
(* something to post.                                                      *)
THEOREM SetUpRestsWhenOver == Spec => []RestsWhenOver
<1>1. IInv /\ RestInv => RestsWhenOver
  <2>1. SUFFICES ASSUME IInv, RestInv, ~InWindow, pc \notin {"ready", "failed"},
                        ~MainReady, ~IsrReady
                 PROVE  A7Ready
    BY DEF RestsWhenOver
  <2>2. isr = "off"
    BY <2>1 DEF IInv, TypeOK, SemInv, RestInv, LinesInv, IsrReady
  <2>3. pc = "wait" /\ blockFifoSema = 0
    BY <2>1, <2>2 DEF IInv, TypeOK, SemInv, RestInv, ProgressInv, MainReady
  <2>4. ~wrPending
    BY <2>1, <2>2, <2>3 DEF IsrReady, RestInv, LinesInv
  <2>5. fifo = <<>>
    BY <2>1, <2>2, <2>3, <2>4 DEF IInv, NeverWaitsBesideAnItem
  <2>6. "end" \in toPost
    BY <2>1, <2>3, <2>5 DEF RestInv, ProgressInv, Over
  <2>7. CASE toPost \intersect Regions = {}
    BY <2>3, <2>6, <2>7 DEF A7Ready, Window
  <2>8. CASE toPost \intersect Regions # {}
    <3>1. PICK item \in toPost : item \in Regions
      BY <2>8
    <3>2. item # "end"
      BY <3>1 DEF Regions
    <3> QED
      BY <2>3, <2>6, <3>1, <3>2 DEF A7Ready, Window
  <2> QED
    BY <2>7, <2>8
<1> QED
  BY <1>1, Invariance, RestInvariance, PTL
===============================================================================
