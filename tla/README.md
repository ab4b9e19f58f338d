# A formal model of the ASG210 application

The ASG210 is an Azure Sphere gateway. Its MT3620 runs two programs: a Linux-like high-level
application on the Cortex-A7 (the *HLApp*, `Software/ASG210_HLApp_AzureIoT`), which talks to
Azure IoT Hub, and a bare-metal program on a Cortex-M4 (the *RTApp*,
`Software/ASG210_RTApp_W5500_SPI_BareMetal`), which drives a W5500 Ethernet chip and serves a
private network: DHCP, SNTP and two TCP sockets. The two exchange messages through shared
memory. This directory holds TLA+ models of the parts that carry the program's own logic, the
TLC configurations that check them on small instances, and proofs, checked by TLAPS, of what
matters most for instances of every size.

Paths below are relative to `src/`; `RT` is
`Software/ASG210_RTApp_W5500_SPI_BareMetal/main.c`, `HL` is
`Software/ASG210_HLApp_AzureIoT/main.c`.

## 1. Inventory

What the RTApp is built from: its `CMakeLists.txt` names `main.c`, six files of `OS_HAL`,
the W5500 driver with `socket.c`, `dhcps.c`, `sntps.c` and `loopback.c`, and
`MT3620_M4_Driver` with `OSAI_BARE_METAL`. The rest of the tree (FreeRTOS, CMSIS, the client
libraries of the WIZnet driver, `parson.c`) is vendored or not built.

| Component | State | Operations | Interacts with |
|---|---|---|---|
| Shared-memory rings, `Software/OS_HAL/src/os_hal_mbox_shared_mem.c` | two rings: data area, `writePosition` (producer's), `readPosition` (consumer's) | `EnqueueData`, `DequeueData` | the A7, by memory and software interrupts |
| Mailbox set-up, `RT:358`, `os_hal_mbox.c`, `GetIntercoreBuffers` | two semaphores, `blockFifoSema`, NVIC lines, accept FIFO | open, register two callbacks, collect three FIFO items | the A7, the two interrupt handlers |
| Notification path, `os_hal_mbox.c:149`, `RT:330`, `RT:406`, `RT:548` | `SW_INT_STS`, `blockDeqSema` (a `u8`) | the handler, `mbox_swint_cb`, `mbox_receive_data` | handler against main loop, by a shared counter |
| DHCP server, `…/Internet/DHCP/dhcps.c` | state machine, the offer outstanding, address bitmap, `chaddr` table | one datagram per `dhcps_run` | clients, by UDP |
| TCP gateway, `RT:421` | state of W5500 socket 0 | `mbox_tcp_server`, one transition per call | a TCP peer; the M4-to-A7 ring |
| TCP loopback, `…/loopback.c` | state of socket 1 | `loopback_tcps` | a TCP peer |
| SNTP server, `…/Internet/SNTP/sntps.c` | `timestamp`, `set_timestamp` flag | `SNTPs_run`, `SNTPs_sync_time`, calendar arithmetic | clients; messages from the A7; the main loop's counter |
| HLApp, `HL`, `eventloop_timer_utilities.c` | timers, IoT hub handle and authentication flag, exit code | event-loop callbacks, set-up, close | Azure IoT Hub, the socket to the M4 |
| W5500 driver and SPI, `…/W5500/w5500.c`, `os_hal_spim.c` | chip registers, buffer pointers; `current_xfer`, `xfer_completion` | size and pointer registers, copies in pieces, one SPI transfer at a time | hardware; the SPI interrupt |
| UART, GPIO, timers | device registers | register access | hardware |

**Scheduling.** The M4 has no operating system: one endless loop calls each server in turn
(`RT:537-561`), preempted only by the two mailbox interrupts, which have equal priority and do
not nest. A "semaphore" is a byte and a wait is a spin. The A7 runs in parallel on the same
memory.

**What is hard.** (1) The two cores read and write ring memory and positions in parallel, with
no lock. (2) The handler and the main loop share counters that are decremented by a load and a
store. (3) An interrupt is a bit: two that come together are one. (4) The W5500
runs TCP by itself: its registers change between any two readings, and between the two bytes of
one. (5) The DHCP server serves
several clients' exchanges with one global state, over UDP, which loses and repeats. (6) Waits
without a bound, in a loop that has to serve everybody. (7) On the A7, every call may fail, the
hub's client calls back at moments of its own choosing, and SIGTERM comes between any two
statements.

**What makes each part correct.**

* *Rings*: what is dequeued is what was enqueued, in order, once, whole; nothing unread is ever
  overwritten; a full ring is told from an empty one; a message is refused only if it does not
  fit; a message published is announced.
* *Set-up*: it ends, and the rings it ends with are those the A7 announced.
* *Notification path*: as many notifications as messages, never more; every message fetched.
* *DHCP*: an address is leased to one client; the server's own never; what is leased is marked;
  what is offered is an address.
* *TCP servers*: what leaves the receive buffer reaches the ring, or the loopback's client, in order
  and once; an established connection is not closed on its client; the socket always returns to
  listening, and the main loop to each server.
* *SNTP*: the 32-bit NTP time is that of the calendar; a reply goes to who asked, with the time of
  the asking.
* *HLApp*: SIGTERM ends the program, with everything given back; the hub is taken for reached only
  with a live client; a lost connection is noticed; Wi-Fi is off while Ethernet serves.
* *W5500 driver*: a size gone by is one the register had; a copy moves the right bytes; no transfer
  takes another's completion.

The list of hazards, each at its line, with the properties that guard against it, is in
`PROJECT.json`.

## 2. Plan

| Order | Module | State |
|---|---|---|
| 1 | `MailboxRing`, with the abstract `MessageChannel` it implements | done, proved |
| 2 | `MailboxReceiver` (on top of what `MessageChannel` promises) | done, proved |
| 3 | `MailboxInit` | done, proved |
| 4 | `DhcpServer` | done, proved |
| 5 | `TcpServers`: both TCP sockets in one main loop, with their peers and the M4-to-A7 ring as `MessageChannel` promises it | done, proved |
| 6 | `SntpServer`: the software clock, its synchronisations and replies, beside the civil calendar | done, proved |
| 7 | `HLApp`: event loop, timers, networks, the hub's client, exit codes, clean-up | done, safety proved |
| 8 | `W5500Access`: size registers, copies and SPI transfers under the socket calls | done, proved |

`TcpServers` is the composition of the main loop's two unbounded waits; the DHCP and SNTP servers
add the same wait (`sock_sendto`) to that loop, and nothing else the TCP servers could notice.

Three modules meet in `MessageChannel`, and each side of it is proved: `MailboxRing` implements it;
`MailboxReceiver`, whose ring is two counters, and `TcpServers`, whose mailbox is two sequences, use it as
it is promised. What is worth doing next: an abstract table of leases for `DhcpServer`, short of the
exchanges that overlap; the leads-to chains of the HLApp's event loop; `sock_recvfrom`'s
handling of a datagram larger than the buffer given.

## 3. The modules

### MessageChannel
The abstract specification of one direction of the mailbox: a sequence of messages sent, a
prefix of it received, and a bounded weight in between.

### MailboxRing
`EnqueueData` and `DequeueData`, with the roles of producer and consumer kept abstract, so that
one module stands for both rings. Each access to memory the other core also touches is a step:

| Producer | Code | Consumer | Code |
|---|---|---|---|
| `EnqRefuse`, `EnqAccept` (reads `readPosition` once) | 125-171 | `DeqRefuse`, `DeqLook` (reads `writePosition` once) | 202-239 |
| `EnqWriteSize` | 173-175 | `DeqBadSize`, `DeqReadSize` | 241-259 |
| `EnqCopyToEnd` (first `memcpy`) | 177-181 | `DeqCopyToEnd` | 261-273 |
| `EnqCopyRest` (second `memcpy`) | 182-183 | `DeqCopyRest` | 274-278 |
| `EnqPublish` (`writePosition`) | 185-192 | `DeqPublish` (`readPosition`) | 280-289 |
| `EnqRing` (software interrupt) | 194-200 | `DeqRing` | 291-298 |

A byte is abstracted to the message and the offset it belongs to, so that a byte out of place,
out of date or overwritten is told from the right one. What is read before a step and used
after it (`remoteReadPosition`, `availData`) is what the model carries across steps; in
`EnqueueData` nothing of `remoteReadPosition` survives the acceptance. `sent`, `published` and
`received` are history, and so is `announced`: how many messages were published when the consumer's core
last took the interrupt. What the consumer does with an interrupt is not the ring's affair: the model
lets it call `DequeueData` whenever it likes, with any of a set of buffer sizes, and `MailboxReceiver`
shows what the M4's main loop makes of the interrupts.

Abstractions: a `memcpy` is one step (the two of one call are two). Stores reach the other core
in the order of the source: there is no barrier in the code and the positions are not
`volatile`, but the compiler must allow for a `memcpy` into or out of the data area touching the
header, and for the call that triggers the interrupt reading it, and so keeps them in order; the
Cortex-M4 issues its accesses in order. `dataSize + 20` does not wrap, the callers passing at most
2068 bytes. The A7 side is the kernel's and is taken to follow the same protocol.

### MailboxReceiver
How a message of the A7 becomes a call of `mbox_receive_data`: the status register
(`swintSts`), the handler in its three steps (read, clear, call back), `blockDeqSema`, and the
main loop's test, receive, load and store. The ring is two counters: by `MessageChannel` its
messages are the numbers in between. The wait on `sem_sw_int` in the handler is no step:
after set-up the semaphore is 1 whenever the handler starts. `BufferFits` is the
uninitialised `buf_len`.

### MailboxInit
`mbox_init`: opening the channel, the two `register_cb` functions split where they enable their
interrupt, `GetIntercoreBuffers` with `ReceiveMessage` inlined, and the interrupts that race
them. `NVIC_Register` clears an interrupt already pending: items that came before are in the
FIFO but never counted. `InWindow` says whether an interrupt may arrive inside a
`register_cb`.

### DhcpServer
One call of `dhcps_run` per step: the message at the head of the receive buffer is served by
the state machine of `dhcps_handle_state_machine_change`, table and reply included. A datagram
is its type, its sender and option 50; an address is its host number. The clients are RFC 2131's
(and marked external): they discover, request, repeat, renew, release (once or again), decline and inform,
and either direction may lose. In a DISCOVER, or in a REQUEST without an offer (`Reboot`), a client may name any
address: free, somebody's, reserved, or one that the table has no bit for (`Outside`: another network, a host number
0 or above 128), which `dhcps.c:376` keeps like any other. A client is taken to have at most one datagram waiting at
the server. The table has a bit for host number 128 but no row: `dhcps.c:180` then writes behind it, of which nothing
may come, or the state becomes `"UNDEFINED"` and the server does no more in the model.
Left out: `dhcps_set_addr_pool`, which nothing calls; the byte layout of messages; the check of
the magic cookie.

### TcpServers
`mbox_tcp_server` (`RT:421`) on socket 0 and `loopback_tcps` on socket 1, called in turn (`pc`, `sn`),
with `wiz_socket`, `close_socket`, `sock_listen`, `sock_disconnect`, `sock_recv` and `sock_send` of
`socket.c` inlined: each register read and each command is a step, and between any two the chip
(external) may receive, acknowledge, close, reset or time out. A byte is its number in the order of
arrival, so that what is held anywhere is an interval. `ReadSizeTorn` and `ReadRecvSizeTorn` are the
zero that `getSn_RX_RSR` returns when the first byte arrives between its two readings.

On its way to the mailbox a message is copied to `mbox_send_buf`, which has room for `PayloadMax` bytes,
1028, and may be given up to 2048 (finding 4). The outcome of the overrun is the build's: either nothing comes of it and
`EnqueueData` reads the bytes back from behind the buffer (`Forward`), or what they overwrote matters, and then the
model says no more of the program (`Overrun`, `pc` = `"undefined"`). In the ring a message weighs
what `EnqueueData` takes for it: size word, component id, reserved bytes and payload, rounded up to 16.

| Step | Code |
|---|---|
| `Status`, `OpenSocket`, `Listen`, `ListenCheck` | `RT:430-472`, `loopback.c:11-105`, `socket.c:119-299` |
| `ReadSize`, `ReadRecvSize`, `RecvStatus`, `Take` | `RT:432-444`, `socket.c:441-556` |
| `Forward`, `ForwardRefused`, `Overrun` | `RT:391-403` |
| `SendStatus`, `SendBusy`, `SendRoom`, `SendPut` | `socket.c:367-439` |
| `Disconnect`, `AwaitClosed`, `AwaitTimeout` | `socket.c:345-365` |

### SntpServer
`SNTPs_init`, `SNTPs_sync_time`, `SNTPs_run`, the tick of the main loop (`RT:553`) and the A7's time
messages. The calendar arithmetic (`numberOfSecondsSince1900Epoch`) is written as functions without
recursion; beside it runs a reference calendar, `NextSecond`, which knows how long months are and
nothing else, and `known`, the seconds since 1900 the clock should show. A request is up to six blocks of
eight bytes; behind a short one an earlier request is left in `data_buf`. The reply is built in what lies there, as
in the code, from an offset of eight.

### HLApp
One thread: `main`, `AzureTimerEventHandler` with `CheckNetworkReady`, `SetupAzureClient` and
`SendTimeData`, and `AppSocketEventHandler`. A step ends where another actor can be noticed: the
operating system (interfaces, stored networks), the hub's client (connects, loses its connection) or
the handler of SIGTERM. Every call may fail. `CheckNetworkReady` falls off its end without a
`return` when all went well (`HL:526-726`): its caller finds zero or not. The two calls of
`IoTHubDeviceClient_LL_DoWork` of one tick are one step, `Work`.

### W5500Access
`getSn_RX_RSR` with `wiz_recv_data`, or `getSn_TX_FSR` with `wiz_send_data` - the same text but for
registers and direction - and `mtk_os_hal_spim_transfer` under them: `Start`, the interrupt, and
`Complete` or `Timeout`. `size` is the chip's register, which grows at any moment. A transfer that
was given up may still finish (`LateInterrupt`), with what it does to the caller's memory left open.
`buf` says of each byte where it came from.

## 4. The runs

| Run | Result | Shows |
|---|---|---|
| `ring` | holds, 56 000 states | type, alignment, no overwriting, the size word, FIFO order and content, the refinement of `MessageChannel`, that only what does not fit is refused, and that each message published is announced by an interrupt that comes after it |
| `receiver` | holds, 5 700 states | notifications never outnumber messages; a lost one stays lost; a message is fetched unless one was lost |
| `receiver_burst` | violated | two writes in quick succession: a message stays in the ring |
| `init` | holds, 87 000 states | with no interrupt in the window, set-up ends, with the announced rings, never waiting beside an item |
| `init_window` | violated | with one, the handler waits for ever |
| `dhcp` | holds, 1 137 000 states | reserved addresses, which are asked for in every way; sound leases as long as exchanges do not overlap |
| `dhcp_duplicate` | violated | overlapping exchanges: one address, two holders |
| `tcp` | holds, 381 000 states | bytes relayed and echoed in order and once; none lost but to a full ring, the end of a connection or an overrun; connections kept; with a client that reads, both servers listen again and the main loop comes round, unless an overrun has consequences |
| `tcp_overrun` | violated | the gateway copies more into `mbox_send_buf` than it has room for |
| `sntp` | holds, 298 000 states | the clock is the calendar's, through the leap days of 2000 and 2024, a year's end and the wrap of 2036; replies go to who asked and carry the time of the asking |
| `hlapp` | holds, 94 000 states | types, with only stored networks enabled; soundness of the hub's flag; SIGTERM ends the program; a lost connection is acted on; once the interfaces are steady, Wi-Fi follows Ethernet for good |
| `w5500` | holds, 762 000 states | completions are not mixed up; sizes are true; copies are exact; reading a size that changes comes to an end |

**Bounds, and why they are enough.**

* *Ring*: `BufSize` = 64, the data area of the smallest region `GetIntercoreBuffers` accepts, is
  four slots. Sizes 12, 13, 44 and 45 make a block of exactly one slot, one byte over, one that
  fills the ring to the spare slot, and one that never fits; with `MaxMessages` = 3 a write
  position has gone around and every place where a block can wrap occurs. That nothing depends on these
  numbers is what the theorems say.
* *Receiver*: `MaxUnread` = 3 in place of up to 254, `MaxMessages` = 6: the handler, the register
  and the main loop each hold a notification and one more message is in the ring. The wrap of the
  `u8` is beyond TLC's bounds and is excluded by the theorem `NotificationsBounded`.
* *Init*: regions of 64 and 128 bytes (too small, and the smallest legal), one of each kind of FIFO
  item, `MaxTriggers` = 1 software interrupt.
* *DHCP*: two clients, `MaxHost` = 4 host numbers in place of 128, number 1
  reserved, `MaxInbox` = 2 datagrams waiting. The defect of host number 128, which has a bit but
  no row, is kept: `MaxHost` has none either. Number 5 stands for all that is outside the table.
* *TCP*: `BufSize` = 2, so that one echo fills a buffer, and `PayloadMax` = 1, so that a message may be as large as
  `mbox_send_buf` or larger; `RingSize` = 32 bytes, one message of either size, so that the next is refused
  until the A7 has read; 2 and 3 bytes arrive, enough for a second message and for an echo that finds no room.
* *SNTP*: a second is half a day (`DaySeconds` = 2), the modulus that of 2^32 seconds in days, six
  hours cut off; the M4 is switched on shortly before each date that could go wrong, and runs for
  `MaxUptime` = 6 seconds of the model. All dates at once are the theorem `ClockIsExact`. Requests
  are whole or half (`Lengths`); the two clients are alike (symmetry: no liveness is checked here).
* *HLApp*: one stored network, which comes and goes (37 in the device): the count of the last tick is
  then more, or less, than there is, and it is enabled and disabled in any order before the interfaces are steady. With
  two networks, and so a switch that fails half way, the run also holds, with 265 000 states, but takes four minutes.
* *W5500*: `Base` = 3 in place of 256, so that the size carries into its high byte twice; pieces of 2
  in place of 16 and lengths up to 3: one piece or two, full or not; a pointer that wraps at 4; one
  timeout. `SizesAreTrue` and `BytesAreExact` are for all of them.

The runs of `MailboxInit`, `SntpServer`, `HLApp` and `W5500Access` turn the deadlock check off: set-up
and the HLApp end, the calendar stops at its bound, and the size stops growing.

**Fairness.** In `MailboxRing` a core that is inside a function runs on, and an interrupt pending is
taken, if its handler runs before the next call or in the middle of it; nobody is obliged to call. In `MailboxReceiver`
the handler is weakly fair and the main loop strongly: it is disabled while the handler runs, and
between two interrupts at least one instruction of it executes. The A7 completes the trigger
that follows a write, and need not write at all. In `MailboxInit` the A7 posts its items. In
`TcpServers` the main loop runs and the chip finishes the closing of a connection, because TCP
gives up on a peer that does not answer; that a client of the loopback reads what comes back
(`ReadingSpec`) is an assumption on the client, without which the main loop may stop in one server. In
`HLApp` the program's steps are weakly fair; strongly fair are the periodic timer, which the event
loop serves however many messages come, and the calls that only fail for a time (listing the
interfaces, asking whether the network is ready); a dead connection is told of by the keep-alive.
In `W5500Access` the driver runs and the controller gets through with its transfer.

## 5. Findings

1. **A message can stay in the ring** (`receiver_burst`; `RT:550`). The comment at `RT:319-325`
   has the interrupt triggered when the A7 writes, and the loop fetches one message per
   interrupt counted. Two triggers before `SW_INT_STS` is cleared are one; and `blockDeqSema--`
   overwrites an increment made between its load and its store. By `LossIsPermanent` the loop
   stays behind by one message for good. Dequeuing until the ring is empty would mend both.
2. **Set-up can hang** (`init_window`; `os_hal_mbox.c:175`, `:245`). An interrupt between the enabling
   of its line and the release of the semaphore spins in the handler on a semaphore that only the
   interrupted function gives back, though `os_hal_mbox_shared_mem.h:43` promises to block only until data is there.
3. **One address for two clients** (`dhcp_duplicate`; `dhcps.c:296`). In state OFFER a request of any
   client for the outstanding address is granted, and the one it was offered to may still have it.
   The hardware address is compared in state IDLE only.
4. **A message may overrun `mbox_send_buf`** (`tcp_overrun`; `RT:396`). The comment at `RT:84-89` gives the buffer
   its 1048 bytes: a message of at most 1024, and a header. `mbox_tcp_server` passes on whatever the
   socket has received, up to 2048 bytes (`RT:437-449`), and `mbox_send_data_a7` copies it to offset 20 unchecked.

Smaller matters met while modelling, for which no run is kept: `mbox_receive_data` passes an
uninitialised `buf_len` (`RT:414`) where `os_hal_mbox_shared_mem.h:93-95` asks for the size of the
buffer; a full DHCP table offers host number 0 (`dhcps.c:666`), and host number 128 is offered though the table
has no row for it (`dhcps.c:180`); a client of the loopback that keeps its connection but does not read holds the
main loop: `loopback.c:59-69` calls `sock_send` until all is sent, which answers BUSY until the client has taken what
was sent before (`socket.c:403`), and if it half-closes, `sock_disconnect` waits alike for a FIN that cannot be sent
(`socket.c:356-363`); `sntps.c:359-360` puts the client's transmit timestamp into the origin of the reply, but line 321
has copied the request from an offset of eight, as if the eight bytes of UDP header that `sock_recvfrom` takes off
were still before it, so that what is taken for the transmit timestamp lies behind the request, and what the client sent as
origin comes back as reference; the comment at `HL:1035-1037` promises a back-off of the reconnection up to
`AzureIoTMaxReconnectPeriodSeconds`, which is never reached, because the period that begins it is equal to the default
one that resets it (`HL:201-202`, `HL:1038`): all attempts are ten seconds apart; a client marked authenticated
whose option cannot be set (`HL:1060`) stays without a callback that would tell of a lost connection; the wait
for an SPI transfer is given 1000 ms and waits 60 s (`os_hal_spim.c:378`); a client that connects in the midst
of `sock_listen` is disconnected (`ConnectionKept` excepts it); what a client sends right before it closes is
dropped in CLOSE_WAIT.

## 6. The proofs

All are checked by TLAPS without any assumption but those on the constants, which TLC evaluates
on every run.

**`MailboxRing_proofs`** proves, for every buffer size that is a multiple of 16, any sets of
payload sizes and consumer buffers and any number of messages: `TypeCorrect`, `StaysAligned`,
`FullIsNotEmpty`, `NoOverwrite`, `SizeWordInData` and `FirstInFirstOut`. None of these
is inductive. The invariant measures everything forwards from the read position, by
`Ahead`, so that the wrap disappears from all but the lemmas on `AvailData` and `Advance`:

* `ChainInv`: each published block ends where the next begins, and the oldest unread one begins at
  the read position;
* `OrderInv`: seen from there the blocks do not overlap. It cannot be had from the chain alone
  without adding up spans, which needs induction; stated for all pairs of blocks it is
  inductive as it stands;
* `SpaceInv`: the block under way leaves a slot free. This is where the extra 16 bytes of
  `EnqueueData` go: `availSpace` is a number of whole slots, so room for `4 + n + 16` bytes is room
  for the rounded block and one slot more (`SpanLeast`, `EnqAcceptStep`);
* `WriteInv`, `ReadInv`: what has been stored of the block under way is right, and what the consumer
  has copied is the oldest block. `StoreStep` covers the three stores of `EnqueueData` at
  once: bytes at or beyond the write position are no bytes of an unread block.

`RingImplementsChannel` adds that the ring *is* `MessageChannel`: `EnqPublish` is its `Enqueue`,
`DeqPublish` its `Dequeue`, every other step a stutter. What is hard in it is the weight, a sum over the
messages unread. `WeightInChannel` says that the sum is how far `writePosition` lies ahead of the
read position. An induction over the sequence is not available as such; the partial sums are compared
with the chain of blocks instead, and the first at which the two differ is looked for: the least element
of a set of naturals, which well-foundedness gives. From the same lemma, `OnlyWhenFull`: what is refused does not fit.
`NoAnnouncementLost` is the safety core of `EventuallyAnnounced`: a message published has been announced,
or the interrupt that will is pending, or `EnqueueData` has still to raise it.

**`MailboxReceiver_proofs`** proves, for every ring of fewer than 255 messages: `TypeCorrect`
(the `u8` never wraps), `NotificationsBounded` and the action property `LossIsPermanent`. The
invariant counts, besides the messages and `blockDeqSema`, the notifications on their way
(`Tokens`), and bounds the register of `blockDeqSema--` by the count it will overwrite.
`EveryLossAccounted` turns the first finding round: *only* a trigger that finds one pending, an increment
inside `blockDeqSema--` or a `buf_len` too small strands a message, each of them one, and no other step
does; so a system without those three loses nothing. `RingIsAChannel` is the use of `MessageChannel`
with numbers for messages, each of weight one: there the sum over what is unread is shown to be its
length, again as a least counterexample. Behind `SyncedUnlessStranded` are two facts about steps.
`ReceiverComesToRest`: what is left to write, to trigger, to handle and to count down goes down with every
step - the store of `blockDeqSema--` takes off a unit at least - but for the interrupts the A7
raises by reading, of which each adds one turn of the handler. `ReceiverRestsWhenSynced`: where handler, main loop
and trigger have nothing to do, all but the stranded messages have been handed on.

**`MailboxInit_proofs`** proves, for every size of the regions and whether or not interrupts
arrive in the window: `TypeCorrect`, `RingsAreTheAnnounced` and `NoLostItem`. The invariant
follows each region from the A7 through the FIFO to `base` (`ItemInv`): the end comes out last, so
whoever sees it has seen both. `RingsAreTheAnnounced` discharges what `MailboxRing` assumes of
`BufSize`. That set-up ends (`InitEnds`) is left to TLC, and is false with an interrupt in the window; its
safety core is proved. `SetUpComesToRest`: a count of the items to post and to take, the interrupts pending, the
units of `blockFifoSema` and the main program's place goes down with every step of anybody, so that
`ReceiveMessage` cannot go round for ever on units that stand for no item. `SetUpRestsWhenOver`: unless an
interrupt arrives in the window, set-up has a next step until it is over. The invariant behind it (`RestInv`) says
that the lines are enabled when their callbacks are registered, and that the end is to be posted or in the FIFO
until it has been taken.

**`DhcpServer_proofs`** proves, for any number of clients, any table and any reserved numbers:
`TypeCorrect`, `ReservedStaysReserved` and `LeasesStaySound`, of clients that may ask for every address. The
first invariant (`IInv`) adds that no row of a reserved number is ever a client's, so that no RELEASE inverts such a bit. The second
(`LeaseInv`) is about clients that come one after the other (`~overlapped`), and has to relate all
that the server remembers to one of them: at most one client waits for an answer (`OneActive`); a
datagram waiting is the only one, its sender in the state it was sent from with no answer left to read
(`OneMessage`); an offer outstanding is to the active client (`OfferIsActive`), and none is while an
answer is under way (`AnswerIsAwaited`); and an address held, or granted in an answer not yet read, is
marked, its row and - if it was the last one handed out - `bound_client` name the holder, and nobody
else holds it (`DueIsOwned`). From the last, a free address, the row found for the sender and the
address it was served last are nobody else's; it was checked with TLC for three clients before it was
proved.

**`TcpServers_proofs`** proves, for every size of socket buffers, `mbox_send_buf` and ring and any number of bytes:
`TypeCorrect`, `RelayedInOrder`, `NothingLost`, `EchoIsUnbroken` and `ConnectionsKept`. The invariant says of
each place in the program what it still knows of a chip that runs on: a size once read is a lower
bound of what is there, a state read as established can only have moved towards its end.
`RelayUsesChannel` says that the gateway's side of the mailbox is a user of `MessageChannel`, and
`EachByteDelivered` goes from one end to the other: the A7 gets no byte twice, and as long as nothing
was refused, cut off or overrun it gets each up to the last, and with the mailbox empty all that the gateway took.
The message that holds a given byte is found as the first one that reaches as far. Of an overrun of
`mbox_send_buf` with consequences these theorems say that it is the last that is modelled: what they promise ends there.
`MainLoopOnlyWaitsForChip` is the safety core of `ListensAgain` and `MainLoopComesRound`, and says where
the main loop can be held: in the course of a server's call every step of the program leaves fewer (`StepsToGo`),
with three exceptions (`ChipOwes`), where the chip owes it the answer to a FIN, the end of a SEND, or room in the
transmit buffer; no step of anybody else's adds any. A size register that reads as 0 although bytes are there is no
fourth: each such reading costs the peer a byte of the receive buffer's room. That the end of a SEND is never missed
- cleared before it was seen, or awaited on a socket opened anew - is `SendCompletes`.

**`SntpServer_proofs`** proves, for every length of the day, every modulus and any clients:
`TypeCorrect`, `ClockIsExact` and `TimeServed`. The code counts leap days by a loop
over the years, which is the cardinality of the set of leap years passed; the lemmas add a month, a
year and a day to it and find the reference calendar's next date, so that
`numberOfSecondsSince1900Epoch` of the date is `elapsed` at every second, and counting on from a
wrapped number is counting and wrapping.

**`HLApp_proofs`** proves, for any number of stored networks, `TypeCorrect` and `ClientIsSound`.
The invariant adds that the period is set before the event loop can use it, and never anything but ten seconds
from then on (`PeriodSet`). `FailureEndsProgram` is the
safety core of `SigtermEnds`: once `exitCode` says something after the initialisation, it is never put back to
success, every step of the program is one of at most eight that are left (`StepsLeft`), and no other
actor adds one. `NothingLeftOpen`: what ends has closed all it had opened. (That the *initialisation* does
put back a code, which `SIGTERM` may have set, is among the hazards.)

**`W5500Access_proofs`** proves, for every base, piece, modulus, length and number of timeouts:
`TypeCorrect`, `SizesAreTrue` and `BytesAreExact`. As long as nothing timed out, the transfer under
way is the one waited for (`Undisturbed`); the first reading's high byte is never above that of the
register when the reading was complete, and the second's never below (`SizeInv`), so two alike are
squeezed onto the truth (`Squeeze`); and a copy has filled what its pieces cover (`MoveInv`).

`CallAdvances` and `CallNeverHeldUp` are the safety core of `AccessReturns`. The loop of `getSn_RX_RSR` has
no bound in the code, and what bounds it is the register: while the driver reads it, it only grows. `StepsLeft`
counts three steps to a transfer and twelve to a round of the loop. A round whose bytes are so far what the register
now holds (`Agrees`) is the last; when the register grows, at most one round more is spoiled, and two are taken off
by the value it used up. In the copy a piece is paid for by its bytes. Every step then decreases the count,
and one is always there to be taken: the completion waited for has not been taken already,
and a reading of zero is repeated only after two readings that differed, when the register is zero no more (`CallInv`).

**Only model-checked**: the liveness properties `EventuallyAnnounced`, `SyncedUnlessStranded`, `InitEnds`,
`ListensAgain`, `MainLoopComesRound`, `SigtermEnds`, `LostConnection`, `WifiFollowsEthernet` and `AccessReturns`.
They rest on fairness and `ENABLED`, which the prover does not reach. Of all but `LostConnection` and
`WifiFollowsEthernet`, the part that is a matter of single steps is proved: `NoAnnouncementLost`; `ReceiverComesToRest` with
`ReceiverRestsWhenSynced` and `EveryLossAccounted`; `SetUpComesToRest` with `SetUpRestsWhenOver`;
`MainLoopOnlyWaitsForChip` with `SendCompletes`; `FailureEndsProgram`; and `CallAdvances` with `CallNeverHeldUp`. All invariants and action properties that the
runs check, and the refinement, are proved.

## 7. What is not modelled

* What follows a failure of `mbox_init`: `RTCoreMain` goes on with null rings, and what an access
  through them does is the hardware's affair.
* The device drivers of `MHAL`, `HDL` and the BSP but for SPI, mailbox and NVIC: UART, GPIO, timers are
  input and output, with no protocol state of the application. The W5500's configuration (MAC and IP
  address, buffer sizes) is a sequence of register writes.
* The wait for the W5500's ready pin (`RT:486`): the pin is read once, before the loop that waits
  for it, so nothing can change.
* Of the HLApp: the contents of telemetry and of twin reports, the LEDs, and `InitPublicEthernet` and
  `InitPublicWifi`, whose results nothing uses (an EAGAIN there is logged as 'will try again later' and
  is not tried again).
* `sock_recvfrom`'s remainder of a datagram larger than the buffer given: the DHCP and SNTP models take
  a datagram as a whole.
* `mtk_os_hal_mbox_fifo_write`, the unregister and close functions and mailbox channel 1, which the
  application does not use.
* Vendored code, and code that is not built. It is by far the larger part of the tree: FreeRTOS,
  CMSIS, `parson.c`, the WIZnet client libraries (DNS, FTP, HTTP, MQTT, SNMP, TFTP), and the `OS_HAL`, `MHAL` and `HDL`
  drivers of devices the application does not use make up some nine tenths of the lines. None of it
  runs in this program, or carries its logic, so the share of all lines that the map covers stays small
  however completely the application itself is modelled.
