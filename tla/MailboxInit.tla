----------------------------- MODULE MailboxInit ------------------------------
(***************************************************************************)
(* mbox_init on the M4: opening the channel, registering the two interrupt *)
(* callbacks, and GetIntercoreBuffers, which learns from three FIFO items  *)
(* where the two rings are.                                                *)
(*   src/Software/ASG210_RTApp_W5500_SPI_BareMetal/main.c:358              *)
(*   src/Software/OS_HAL/src/os_hal_mbox.c                                 *)
(*   src/Software/OS_HAL/src/os_hal_mbox_shared_mem.c                      *)
(*                                                                         *)
(* The bare-metal build has no scheduler: a semaphore is a byte, waiting   *)
(* is a spin, and an interrupt handler that spins stops the main program   *)
(* for as long as it does.  Both handlers have the same priority, so       *)
(* neither preempts the other.  The FIFO outlives the channel reset.       *)
(***************************************************************************)
EXTENDS Integers, Sequences

CONSTANTS
  LogSizes,      (* log2 of the region sizes the A7 may announce           *)
  MaxTriggers,   (* bound on the software interrupts the A7 triggers       *)
  InWindow       (* TRUE if the A7 may raise an interrupt while the M4 is  *)
                 (* inside a register_cb that has just enabled it          *)

HEADER == 64     (* sizeof(BufferHeader) *)
ALIGN  == 16     (* RINGBUFFER_ALIGNMENT *)

ASSUME LogSizesAssumption == LogSizes \subseteq 0 .. 31 /\ LogSizes # {}
ASSUME MaxTriggersAssumption == MaxTriggers \in Nat
ASSUME InWindowAssumption == InWindow \in BOOLEAN

VARIABLES
  logSize,        (* the A7's two regions: log2 of the size of each        *)
  toPost,         (* the items the A7 has still to post                    *)
  fifo,           (* the accept FIFO                                       *)
  triggers,       (* software interrupts triggered so far                  *)
  wrPending,      (* the FIFO write interrupt is pending in the NVIC       *)
  wrEnabled,      (* ... and enabled                                       *)
  swintSts,       (* software interrupt 1 is set in the status register    *)
  swEnabled,      (* ... and enabled                                       *)
  sem_fifo_int,
  sem_sw_int,
  blockFifoSema,
  blockDeqSema,
  isr,            (* the handler running: "off", "fifo" or "sw"            *)
  pc,             (* where mbox_init is                                    *)
  reg,            (* blockFifoSema in the course of blockFifoSema--        *)
  base,           (* baseWrite and baseRead: which region, or none         *)
  bufSize         (* mbox_shared_buf_size                                  *)

a7Vars == <<logSize, toPost, triggers>>
lineVars == <<wrPending, wrEnabled, swintSts, swEnabled>>
semVars == <<sem_fifo_int, sem_sw_int>>
countVars == <<blockFifoSema, blockDeqSema>>
mainVars == <<pc, reg, base, bufSize>>
vars == <<a7Vars, fifo, lineVars, semVars, countVars, isr, mainVars>>

(* The two regions are named for the end the M4 is to use them for; "none" *)
(* is the initial 0 of baseRead and baseWrite.                             *)
Regions == {"write", "read"}

Init ==
  /\ logSize \in [Regions -> LogSizes]
  /\ toPost = Regions \union {"other", "end"}
  /\ fifo = <<>> /\ triggers = 0
  /\ wrPending = FALSE /\ wrEnabled = FALSE
  /\ swintSts = FALSE /\ swEnabled = FALSE
  /\ sem_fifo_int = 0 /\ sem_sw_int = 0
  /\ blockFifoSema = 0 /\ blockDeqSema = 0
  /\ isr = "off"
  /\ pc = "open" /\ reg = 0
  /\ base = [r \in Regions |-> "none"]
  /\ bufSize = 0

-----------------------------------------------------------------------------
(***************************************************************************)
(* The A7: the regions in any order, other items among them, the end last. *)
(***************************************************************************)
Window(p) == pc = p /\ ~InWindow

A7Post ==
  /\ ~Window("fifo_give")
  /\ "end" \in toPost
  /\ \E item \in toPost :
       /\ item = "end" => toPost \intersect Regions = {}
       /\ fifo' = Append(fifo, item)
       /\ toPost' = toPost \ {item}
  /\ wrPending' = TRUE
  /\ UNCHANGED <<logSize, triggers, wrEnabled, swintSts, swEnabled, semVars, countVars, isr, mainVars>>

A7Trigger ==
  /\ ~Window("sw_give")
  /\ triggers < MaxTriggers
  /\ triggers' = triggers + 1
  /\ swintSts' = TRUE
  /\ UNCHANGED <<logSize, toPost, fifo, wrPending, wrEnabled, swEnabled, semVars, countVars, isr, mainVars>>

(***************************************************************************)
(* The handlers.  Each waits for its semaphore, calls back and gives the   *)
(* semaphore back; nothing the main program does can end that wait.        *)
(***************************************************************************)
FifoIsrEnter ==
  /\ isr = "off" /\ wrEnabled /\ wrPending
  /\ isr' = "fifo"
  /\ wrPending' = FALSE
  /\ UNCHANGED <<a7Vars, fifo, wrEnabled, swintSts, swEnabled, semVars, countVars, mainVars>>

(* Mutant: the item is not counted. *)
mbox_fifo_cb_uncounted ==
  /\ isr = "fifo"
  /\ sem_fifo_int # 0
  /\ isr' = "off"
  /\ UNCHANGED <<a7Vars, fifo, lineVars, semVars, countVars, mainVars>>

mbox_fifo_cb ==
  /\ isr = "fifo"
  /\ sem_fifo_int # 0
  /\ blockFifoSema' = blockFifoSema + 1
  /\ isr' = "off"
  /\ UNCHANGED <<a7Vars, fifo, lineVars, semVars, blockDeqSema, mainVars>>

SwIsrEnter ==
  /\ isr = "off" /\ swEnabled /\ swintSts
  /\ isr' = "sw"
  /\ swintSts' = FALSE
  /\ UNCHANGED <<a7Vars, fifo, wrPending, wrEnabled, swEnabled, semVars, countVars, mainVars>>

mbox_swint_cb ==
  /\ isr = "sw"
  /\ sem_sw_int # 0
  /\ blockDeqSema' = blockDeqSema + 1
  /\ isr' = "off"
  /\ UNCHANGED <<a7Vars, fifo, lineVars, semVars, blockFifoSema, mainVars>>

-----------------------------------------------------------------------------
(***************************************************************************)
(* mbox_init, which runs while no handler does.                            *)
(***************************************************************************)
At(p, q) == isr = "off" /\ pc = p /\ pc' = q

OpenChannel ==
  /\ At("open", "fifo_take")
  /\ sem_fifo_int' = 1 /\ sem_sw_int' = 1
  /\ blockFifoSema' = 0 /\ blockDeqSema' = 0
  /\ UNCHANGED <<a7Vars, fifo, lineVars, isr, reg, base, bufSize>>

(* Mutant: the semaphore is given back without having been taken. *)
RegisterFifoNoTake ==
  /\ At("fifo_take", "fifo_give")
  /\ wrPending' = FALSE /\ wrEnabled' = TRUE
  /\ UNCHANGED <<a7Vars, fifo, swintSts, swEnabled, semVars, countVars, isr, reg, base, bufSize>>

(* mtk_os_hal_mbox_fifo_register_cb up to the NVIC's enable bit:           *)
(* NVIC_Register drops an interrupt that is pending already.               *)
RegisterFifo ==
  /\ At("fifo_take", "fifo_give")
  /\ sem_fifo_int # 0
  /\ sem_fifo_int' = sem_fifo_int - 1
  /\ wrPending' = FALSE /\ wrEnabled' = TRUE
  /\ UNCHANGED <<a7Vars, fifo, swintSts, swEnabled, sem_sw_int, countVars, isr, reg, base, bufSize>>

RegisterFifoDone ==
  /\ At("fifo_give", "sw_take")
  /\ sem_fifo_int' = sem_fifo_int + 1
  /\ UNCHANGED <<a7Vars, fifo, lineVars, sem_sw_int, countVars, isr, reg, base, bufSize>>

(* mtk_os_hal_mbox_sw_int_register_cb up to MBOX_IOSET_SWINT_EN: the       *)
(* status register is cleared first.                                       *)
RegisterSwInt ==
  /\ At("sw_take", "sw_give")
  /\ sem_sw_int # 0
  /\ sem_sw_int' = sem_sw_int - 1
  /\ swintSts' = FALSE /\ swEnabled' = TRUE
  /\ UNCHANGED <<a7Vars, fifo, wrPending, wrEnabled, sem_fifo_int, countVars, isr, reg, base, bufSize>>

RegisterSwIntDone ==
  /\ At("sw_give", "count")
  /\ sem_sw_int' = sem_sw_int + 1
  /\ UNCHANGED <<a7Vars, fifo, lineVars, sem_fifo_int, countVars, isr, reg, base, bufSize>>

(* Mutant: the wait comes before the look at the FIFO. *)
ReadCountUnread ==
  /\ At("count", IF blockFifoSema = 0 THEN "wait" ELSE "pop")
  /\ UNCHANGED <<a7Vars, fifo, lineVars, semVars, countVars, isr, reg, base, bufSize>>

(* ReceiveMessage: with the FIFO empty it waits for blockFifoSema, takes   *)
(* it down by one - a load and a store - and looks at the FIFO again.      *)
ReadCount ==
  /\ At("count", IF fifo = <<>> THEN "wait" ELSE "pop")
  /\ UNCHANGED <<a7Vars, fifo, lineVars, semVars, countVars, isr, reg, base, bufSize>>

LoadFifoSema ==
  /\ At("wait", "store")
  /\ blockFifoSema # 0
  /\ reg' = blockFifoSema
  /\ UNCHANGED <<a7Vars, fifo, lineVars, semVars, countVars, isr, base, bufSize>>

StoreFifoSema ==
  /\ At("store", "count")
  /\ blockFifoSema' = reg - 1
  /\ UNCHANGED <<a7Vars, fifo, lineVars, semVars, blockDeqSema, isr, reg, base, bufSize>>

(* What GetIntercoreBuffers does with the item ReceiveMessage returns.     *)
PopItem ==
  /\ fifo # <<>>
  /\ At("pop", IF Head(fifo) = "end" THEN "sizes" ELSE "count")
  /\ fifo' = Tail(fifo)
  /\ base' = IF Head(fifo) \in Regions
             THEN [base EXCEPT ![Head(fifo)] = Head(fifo)]
             ELSE base
  /\ UNCHANGED <<a7Vars, lineVars, semVars, countVars, isr, reg, bufSize>>

(* GetBufferSize of a base, 1 for one that was never set.                  *)
SizeOf(b) == IF b = "none" THEN 1 ELSE 2 ^ logSize[b]

(* Mutant: the two sizes are not compared. *)
CheckSizesInbound ==
  LET inbound == SizeOf(base["read"])
      good    == inbound > HEADER
  IN
  /\ At("sizes", IF good THEN "ready" ELSE "failed")
  /\ bufSize' = IF good THEN inbound - HEADER ELSE bufSize
  /\ UNCHANGED <<a7Vars, fifo, lineVars, semVars, countVars, isr, reg, base>>

CheckSizes ==
  LET inbound  == SizeOf(base["read"])
      outbound == SizeOf(base["write"])
      good     == inbound = outbound /\ inbound > HEADER
  IN
  /\ At("sizes", IF good THEN "ready" ELSE "failed")
  /\ bufSize' = IF good THEN inbound - HEADER ELSE bufSize
  /\ UNCHANGED <<a7Vars, fifo, lineVars, semVars, countVars, isr, reg, base>>

Main ==
  \/ OpenChannel
  \/ RegisterFifo \/ RegisterFifoDone
  \/ RegisterSwInt \/ RegisterSwIntDone
  \/ ReadCount \/ LoadFifoSema \/ StoreFifoSema \/ PopItem \/ CheckSizes

Isr == FifoIsrEnter \/ mbox_fifo_cb \/ SwIsrEnter \/ mbox_swint_cb

Next == A7Post \/ A7Trigger \/ Isr \/ Main

Spec == Init /\ [][Next]_vars

(* The M4 runs, and the A7 posts what it has to post.                      *)
FairSpec == Spec /\ WF_vars(A7Post) /\ WF_vars(Isr) /\ SF_vars(Main)

-----------------------------------------------------------------------------
(* Every variable has a value of its type. *)
TypeOK ==
  /\ logSize \in [Regions -> LogSizes]
  /\ toPost \subseteq Regions \union {"other", "end"}
  /\ fifo \in Seq(Regions \union {"other", "end"})
  /\ triggers \in 0 .. MaxTriggers
  /\ wrPending \in BOOLEAN /\ wrEnabled \in BOOLEAN
  /\ swintSts \in BOOLEAN /\ swEnabled \in BOOLEAN
  /\ sem_fifo_int \in {0, 1} /\ sem_sw_int \in {0, 1}
  /\ blockFifoSema \in Nat /\ blockDeqSema \in Nat /\ reg \in Nat
  /\ isr \in {"off", "fifo", "sw"}
  /\ pc \in {"open", "fifo_take", "fifo_give", "sw_take", "sw_give", "count",
             "wait", "store", "pop", "sizes", "ready", "failed"}
  /\ base \in [Regions -> Regions \union {"none"}]
  /\ bufSize \in Nat

(* When mbox_init goes on to the main loop with rings, they are the A7's:  *)
(* each end has its own region, both regions have the size it announced,   *)
(* and the data area is whole slots, as EnqueueData and DequeueData need.  *)
RingsAgreed ==
  pc = "ready" =>
    /\ base = [r \in Regions |-> r]
    /\ \A r \in Regions : bufSize = 2 ^ logSize[r] - HEADER
    /\ bufSize > 0 /\ bufSize % ALIGN = 0

(* The main program never waits for a FIFO item that is there: if the FIFO *)
(* is not empty, blockFifoSema is not 0 or the interrupt is on its way,    *)
(* although blockFifoSema-- may overwrite an increment of the handler.     *)
NeverWaitsBesideAnItem ==
  pc = "wait" /\ fifo # <<>> =>
    blockFifoSema # 0 \/ wrPending \/ isr = "fifo"

(* mbox_init ends once the A7 has posted its items: GetIntercoreBuffers    *)
(* "blocks until that data is available from the mailbox"                  *)
(* (os_hal_mbox_shared_mem.h:43) and no longer.                            *)
InitEnds == <>(pc \in {"ready", "failed"})
=============================================================================
