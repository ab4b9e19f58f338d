--------------------------- MODULE MailboxReceiver ----------------------------
(***************************************************************************)
(* How the M4 finds out about messages from the A7: the software-interrupt *)
(* status register, the interrupt handler that turns its bit 1 into a      *)
(* count (blockDeqSema), and the main loop that takes one message out of   *)
(* the ring for each unit of the count.                                    *)
(*   src/Software/OS_HAL/src/os_hal_mbox.c                                 *)
(*   src/Software/ASG210_RTApp_W5500_SPI_BareMetal/main.c                  *)
(*                                                                         *)
(* The ring is what MessageChannel promises; its messages are numbered, so *)
(* two counters tell its whole state.  The handler preempts the main loop  *)
(* between any two instructions and is itself never preempted; the A7 runs *)
(* in parallel with both.                                                  *)
(***************************************************************************)
EXTENDS Integers

CONSTANTS
  MaxUnread,    (* messages the ring holds at most                         *)
  MaxMessages,  (* bound on the number of messages the A7 writes           *)
  BufferFits    (* what the stack slot of the uninitialised buf_len may    *)
                (* hold: TRUE for a value no message exceeds, FALSE for a  *)
                (* smaller one                                             *)

U8 == 256       (* blockDeqSema is a volatile u8                           *)

(* A block takes at least one 16-byte slot, so a data area of less than    *)
(* 4 KiB holds fewer than 255 messages.                                    *)
ASSUME MaxUnreadAssumption == MaxUnread \in 1 .. U8 - 2
ASSUME MaxMessagesAssumption == MaxMessages \in Nat
ASSUME BufferFitsAssumption == BufferFits \subseteq BOOLEAN

VARIABLES
  written,      (* messages the A7 has published in the ring               *)
  consumed,     (* messages the M4 has taken out of it                     *)
  synced,       (* the last message handed to SNTPs_sync_time              *)
  a7Pc,         (* "idle", or "ring" between publishing and triggering     *)
  swintSts,     (* the SW_INT_STS register: the bits that are set          *)
  isr,          (* where the interrupt handler is, "off" if not running    *)
  status,       (* its copy of the register                                *)
  blockDeqSema, (* main.c's count of notifications                         *)
  pc,           (* where the main loop is                                  *)
  reg           (* the register that holds blockDeqSema in the course of   *)
                (* blockDeqSema--                                          *)

a7Vars == <<written, a7Pc>>
isrVars == <<isr, status>>
mainVars == <<consumed, synced, pc, reg>>
vars == <<a7Vars, isrVars, mainVars, swintSts, blockDeqSema>>

Unread == written - consumed

Init ==
  /\ written = 0 /\ consumed = 0 /\ synced = 0
  /\ a7Pc = "idle"
  /\ swintSts = {}
  /\ isr = "off" /\ status = {}
  /\ blockDeqSema = 0
  /\ pc = "loop" /\ reg = 0

-----------------------------------------------------------------------------
(***************************************************************************)
(* The A7: it publishes a message and then triggers software interrupt 1;  *)
(* when it has read a message of the other ring it triggers interrupt 0.   *)
(***************************************************************************)
A7Write ==
  /\ a7Pc = "idle"
  /\ written < MaxMessages
  /\ Unread < MaxUnread
  /\ written' = written + 1
  /\ a7Pc' = "ring"
  /\ UNCHANGED <<isrVars, mainVars, swintSts, blockDeqSema>>

A7Trigger ==
  /\ a7Pc = "ring"
  /\ swintSts' = swintSts \union {"written"}
  /\ a7Pc' = "idle"
  /\ UNCHANGED <<written, isrVars, mainVars, blockDeqSema>>

A7Read ==
  /\ swintSts' = swintSts \union {"read"}
  /\ UNCHANGED <<a7Vars, isrVars, mainVars, blockDeqSema>>

(***************************************************************************)
(* The interrupt handler.  It clears the bits it has read, not those set   *)
(* since; the same bit set twice before the clear is one notification.     *)
(* sem_sw_int is 1 whenever the handler starts, so its wait is no step.    *)
(***************************************************************************)
IsrEnter ==
  /\ isr = "off"
  /\ swintSts # {}
  /\ status' = swintSts
  /\ isr' = "clear"
  /\ UNCHANGED <<a7Vars, mainVars, swintSts, blockDeqSema>>

(* Mutant: the status register is not cleared. *)
IsrClearNot ==
  /\ isr = "clear"
  /\ isr' = "callback"
  /\ UNCHANGED <<a7Vars, mainVars, status, swintSts, blockDeqSema>>

IsrClear ==
  /\ isr = "clear"
  /\ swintSts' = swintSts \ status
  /\ isr' = "callback"
  /\ UNCHANGED <<a7Vars, mainVars, status, blockDeqSema>>

(* Mutant: every software interrupt is counted, whatever its bit. *)
mbox_swint_cb_any_bit ==
  /\ isr = "callback"
  /\ blockDeqSema' = (blockDeqSema + 1) % U8
  /\ isr' = "off"
  /\ status' = {}
  /\ UNCHANGED <<a7Vars, mainVars, swintSts>>

mbox_swint_cb ==
  /\ isr = "callback"
  /\ blockDeqSema' = IF "written" \in status
                     THEN (blockDeqSema + 1) % U8
                     ELSE blockDeqSema
  /\ isr' = "off"
  /\ status' = {}
  /\ UNCHANGED <<a7Vars, mainVars, swintSts>>

(***************************************************************************)
(* The main loop.  It stands still while the handler runs.                 *)
(***************************************************************************)
MainTest ==
  /\ isr = "off"
  /\ pc = "loop"
  /\ blockDeqSema # 0
  /\ pc' = "receive"
  /\ UNCHANGED <<a7Vars, isrVars, consumed, synced, reg, swintSts, blockDeqSema>>

(* Mutant: the message taken out is only handed on if the call failed. *)
MainReceiveInverted(fits) ==
  /\ isr = "off"
  /\ pc = "receive"
  /\ consumed' = IF Unread > 0 /\ fits THEN consumed + 1 ELSE consumed
  /\ pc' = "load"
  /\ UNCHANGED <<a7Vars, isrVars, synced, reg, swintSts, blockDeqSema>>

(* mbox_receive_data.  The result of DequeueData is stored in a uint8_t,   *)
(* so the test for -1 is never true, and the buffer - zeroed and therefore *)
(* no valid time if nothing was dequeued - is handed on either way.        *)
MainReceive(fits) ==
  /\ isr = "off"
  /\ pc = "receive"
  /\ IF Unread > 0 /\ fits
     THEN consumed' = consumed + 1 /\ synced' = consumed + 1
     ELSE UNCHANGED <<consumed, synced>>
  /\ pc' = "load"
  /\ UNCHANGED <<a7Vars, isrVars, reg, swintSts, blockDeqSema>>

(* blockDeqSema-- is a load and a store, with the handler free to run in   *)
(* between.                                                                *)
MainLoad ==
  /\ isr = "off"
  /\ pc = "load"
  /\ reg' = blockDeqSema
  /\ pc' = "store"
  /\ UNCHANGED <<a7Vars, isrVars, consumed, synced, swintSts, blockDeqSema>>

(* Mutant: the count goes down by all that is left in the ring. *)
MainStoreAll ==
  /\ isr = "off"
  /\ pc = "store"
  /\ blockDeqSema' = reg - 1 - Unread
  /\ pc' = "loop"
  /\ UNCHANGED <<a7Vars, isrVars, consumed, synced, reg, swintSts>>

MainStore ==
  /\ isr = "off"
  /\ pc = "store"
  /\ blockDeqSema' = (reg - 1) % U8
  /\ pc' = "loop"
  /\ UNCHANGED <<a7Vars, isrVars, consumed, synced, reg, swintSts>>

A7Next == A7Write \/ A7Trigger \/ A7Read
IsrNext == IsrEnter \/ IsrClear \/ mbox_swint_cb
MainNext == MainTest \/ (\E fits \in BufferFits : MainReceive(fits)) \/ MainLoad \/ MainStore

Next == A7Next \/ IsrNext \/ MainNext

Spec == Init /\ [][Next]_vars

(***************************************************************************)
(* Both cores run.  The main loop is strongly fair: the handler interrupts *)
(* it, again and again if the A7 keeps reading, but some instruction of    *)
(* the loop runs between two interrupts.  The A7 need not write.           *)
(***************************************************************************)
FairSpec == Spec /\ WF_vars(A7Trigger) /\ WF_vars(IsrNext) /\ SF_vars(MainNext)

-----------------------------------------------------------------------------
(* Notifications on their way to the count.                                *)
Tokens == (IF a7Pc = "ring" THEN 1 ELSE 0)
        + (IF "written" \in swintSts THEN 1 ELSE 0)
        + (IF isr = "callback" /\ "written" \in status THEN 1 ELSE 0)

(* The count once the decrement under way is done.                         *)
EffectiveSema ==
  CASE pc \in {"loop", "receive"} -> blockDeqSema
    [] pc = "load"  -> blockDeqSema - 1
    [] pc = "store" -> reg - 1

(* Messages in the ring that nothing will make the main loop fetch.        *)
Stranded == Unread - Tokens - EffectiveSema

(* Every variable has a value of its type. *)
TypeOK ==
  /\ written \in Nat /\ consumed \in Nat /\ synced \in Nat
  /\ a7Pc \in {"idle", "ring"}
  /\ swintSts \subseteq {"written", "read"}
  /\ isr \in {"off", "clear", "callback"}
  /\ status \subseteq {"written", "read"}
  /\ blockDeqSema \in 0 .. U8 - 1
  /\ reg \in 0 .. U8 - 1
  /\ pc \in {"loop", "receive", "load", "store"}

(* A notification never outnumbers the messages: mbox_receive_data is only *)
(* called with a message in the ring, so the broken test of DequeueData's  *)
(* result never meets an empty ring, and the u8 count cannot wrap.         *)
NeverMoreNotifiedThanUnread ==
  /\ Stranded >= 0
  /\ pc = "receive" => Unread > 0
  /\ blockDeqSema =< Unread + 1

(* Once a notification is lost it stays lost: no later step, and no later  *)
(* message, brings the main loop back level with the ring.                 *)
StrandedNeverShrinks == [][Stranded' >= Stranded]_vars

(* A message reaches SNTPs_sync_time unless a notification was lost: the   *)
(* count, the pending bit or the handler will see to it, whatever the main *)
(* loop and the handler overwrite of each other's.                         *)
SyncedUnlessStranded ==
  \A i \in 1 .. MaxMessages : written >= i ~> synced >= i \/ Stranded > 0

(* What the comment on mbox_swint_cb (main.c:319-325) takes for granted:   *)
(* every write of the A7 interrupts the M4, so every message is fetched.   *)
EveryMessageSynced ==
  \A i \in 1 .. MaxMessages : written >= i ~> synced >= i
=============================================================================
