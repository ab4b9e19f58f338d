----------------------------- MODULE SntpServer -----------------------------
(***************************************************************************)
(* The SNTP server of the M4's main loop and the software clock it serves. *)
(*   src/Utils/WIZnet_Driver/ioLibrary_Driver/Internet/SNTP/sntps.c        *)
(*   src/Software/ASG210_RTApp_W5500_SPI_BareMetal/main.c                  *)
(*                                                                         *)
(* The A7 sends the date and time of day in mailbox messages; the program  *)
(* turns them into NTP seconds, a u32, which its main loop then counts up  *)
(* on its own.  Beside the program runs the civil calendar, from the first *)
(* second of 1900 on: elapsed is what the program's arithmetic should find *)
(* for the date civil.                                                     *)
(*                                                                         *)
(* A request is the client that sent it and the blocks of eight bytes it   *)
(* has, six in a whole request: <<client, 1>> .. <<client, 6>>, the last   *)
(* the transmit timestamp.  Hours, minutes and seconds are one number.     *)
(***************************************************************************)
EXTENDS Integers, Sequences, FiniteSets

CONSTANTS
  DaySeconds,   (* seconds in a day: 86400                                 *)
  Modulus,      (* 2^32, what a u32 counts up to                           *)
  Clients,      (* the SNTP clients                                        *)
  Lengths,      (* blocks that a request may have                          *)
  PowerOn,      (* bound: the values of elapsed at which the M4 may start  *)
  MaxUptime,    (* bound on the seconds it then runs                       *)
  MaxTicks,     (* bound on the ticks of its clock between two messages    *)
  MaxMail,      (* bound on the time messages under way                    *)
  MaxQueue      (* requests the socket's receive buffer holds              *)

ASSUME DaySecondsAssumption == DaySeconds \in Nat \ {0}
ASSUME ModulusAssumption == Modulus \in Nat \ {0}
ASSUME LengthsAssumption == Lengths \subseteq Nat

VARIABLES
  civil, elapsed,  (* the date and the seconds since 1900 began            *)
  started,         (* elapsed when the M4 was switched on, -1 before       *)
  mail,            (* time messages from the A7, not yet taken             *)
  timestamp,       (* the program's clock                                  *)
  known,           (* history: seconds since 1900 it was told, plus ticks  *)
  ticks,           (* those ticks                                          *)
  open,            (* Sn_SR of socket 3 is SOCK_UDP                        *)
  queue,           (* requests in its receive buffer                       *)
  pc,              (* where SNTPs_run is                                   *)
  recv_sec, destip,(* its local variables                                  *)
  data_buf,        (* its buffer, the first seven blocks                   *)
  reply            (* the reply sent                                       *)

worldVars == <<civil, elapsed, started>>
clockVars == <<timestamp, known, ticks>>
serverVars == <<pc, recv_sec, destip, data_buf, reply>>
vars == <<worldVars, mail, clockVars, open, queue, serverVars>>

-----------------------------------------------------------------------------
(***************************************************************************)
(* The civil calendar, second after second.                                *)
(***************************************************************************)
Date(yy, mo, dd, ss) == [yy |-> yy, mo |-> mo, dd |-> dd, ss |-> ss]

LastDay(yy, mo) ==
  IF mo = 2
    THEN IF yy % 400 = 0 \/ (yy % 4 = 0 /\ yy % 100 # 0) THEN 29 ELSE 28
    ELSE IF mo \in {4, 6, 9, 11} THEN 30 ELSE 31

NextDay(d) ==
  IF d.dd < LastDay(d.yy, d.mo) THEN Date(d.yy, d.mo, d.dd + 1, 0)
  ELSE IF d.mo < 12 THEN Date(d.yy, d.mo + 1, 1, 0)
  ELSE Date(d.yy + 1, 1, 1, 0)

NextSecond(d) ==
  IF d.ss < DaySeconds - 1 THEN [d EXCEPT !.ss = @ + 1] ELSE NextDay(d)

-----------------------------------------------------------------------------
(***************************************************************************)
(* The program's arithmetic.                                               *)
(***************************************************************************)
WrapNot(n) == n                  (* mutant: no wrap *)
Wrap(n) == n % Modulus

isLeapYear(year) ==
  /\ year % 4 = 0
  /\ ~(year % 100 = 0 /\ year % 400 # 0)

numDaysInMonths == <<31, 28, 31, 30, 31, 30, 31, 31, 30, 31, 30, 31>>

(* The loop over the months before mo.                                     *)
DaysBeforeMonth[mo \in 1 .. 12] ==
  IF mo = 1 THEN 0 ELSE DaysBeforeMonth[mo - 1] + numDaysInMonths[mo - 1]

LeapYearsBefore(yy) ==
  Cardinality({year \in 1900 .. (yy - 1) : isLeapYear(year)})

(* Mutant: the leap day counts from February on.                           *)
LeapDaysFebruary(d) ==
  LeapYearsBefore(d.yy) + (IF isLeapYear(d.yy) /\ d.mo >= 2 THEN 1 ELSE 0)

LeapDays(d) ==
  LeapYearsBefore(d.yy) + (IF isLeapYear(d.yy) /\ d.mo > 2 THEN 1 ELSE 0)

numDays(d) ==
  LeapDays(d) + 365 * (d.yy - 1900) + DaysBeforeMonth[d.mo] + (d.dd - 1)

numberOfSecondsSince1900Epoch(d) == Wrap(d.ss + numDays(d) * DaySeconds)

-----------------------------------------------------------------------------
Blocks == 1 .. 6
NoClient == "none"
ASSUME ClientsAssumption == NoClient \notin Clients

NoReply == [to |-> NoClient]
Garbled == [date |-> Date(1900, 1, 1, 0), at |-> -1]

Running == started >= 0

Init ==
  /\ civil = Date(1900, 1, 1, 0) /\ elapsed = 0
  /\ started = -1
  /\ mail = <<>>
  /\ timestamp = 0 /\ known = 0 /\ ticks = 0
  /\ open = FALSE /\ queue = <<>>
  /\ pc = "main" /\ recv_sec = 0 /\ destip = NoClient
  /\ data_buf = [b \in 1 .. 7 |-> <<NoClient, b>>]
  /\ reply = NoReply

(* Time goes by: in whole days until the M4 is switched on.                *)
Day ==
  /\ ~Running
  /\ \E on \in PowerOn : elapsed < on
  /\ civil' = NextDay(civil)
  /\ elapsed' = elapsed + DaySeconds
  /\ UNCHANGED <<started, mail, clockVars, open, queue, serverVars>>

Second ==
  /\ Running
  /\ elapsed < started + MaxUptime
  /\ civil' = NextSecond(civil)
  /\ elapsed' = elapsed + 1
  /\ UNCHANGED <<started, mail, clockVars, open, queue, serverVars>>

(* Until a message comes the clock shows the first second of 2020-05-19,   *)
(* 43968 days after 1900 began.                                            *)
SNTPs_init ==
  /\ ~Running /\ elapsed \in PowerOn
  /\ started' = elapsed
  /\ timestamp' = numberOfSecondsSince1900Epoch(Date(2020, 5, 19, 0))
  /\ known' = 43968 * DaySeconds
  /\ UNCHANGED <<civil, elapsed, mail, ticks, open, queue, serverVars>>

(* The A7's timer sends the date; a message may also be something else.    *)
SendTimeData ==
  /\ Running /\ Len(mail) < MaxMail
  /\ \E m \in {[date |-> civil, at |-> elapsed], Garbled} :
        mail' = Append(mail, m)
  /\ UNCHANGED <<worldVars, clockVars, open, queue, serverVars>>

(* mbox_receive_data: a message strptime cannot read changes nothing.      *)
SNTPs_sync_time ==
  /\ Running /\ pc = "main" /\ mail # <<>>
  /\ mail' = Tail(mail)
  /\ IF Head(mail) = Garbled
       THEN UNCHANGED clockVars
       ELSE /\ timestamp' = numberOfSecondsSince1900Epoch(Head(mail).date)
            /\ known' = Head(mail).at
            /\ ticks' = 0
  /\ UNCHANGED <<worldVars, open, queue, serverVars>>

(* Every 10001st pass of the main loop counts as a second.                 *)
Tick ==
  /\ Running /\ pc = "main"
  /\ ticks < MaxTicks
  /\ timestamp' = Wrap(timestamp + 1)
  /\ known' = known + 1
  /\ ticks' = ticks + 1
  /\ UNCHANGED <<worldVars, mail, open, queue, serverVars>>

-----------------------------------------------------------------------------
(***************************************************************************)
(* A client's request comes in, or finds the socket closed or full.        *)
(***************************************************************************)
Request(c) ==
  /\ open /\ Len(queue) < MaxQueue
  /\ queue' = Append(queue, c)
  /\ UNCHANGED <<worldVars, mail, clockVars, open, serverVars>>

OpenSocket ==
  /\ Running /\ pc = "main" /\ ~open
  /\ open' = TRUE
  /\ UNCHANGED <<worldVars, mail, clockVars, queue, serverVars>>

(* sock_recvfrom overwrites as much of data_buf as the datagram has bytes, *)
(* six blocks at most; behind a short one an earlier request is left.      *)
Overwritten(c, n) ==
  [b \in 1 .. 7 |-> IF b \in Blocks /\ b =< n THEN <<c, b>> ELSE data_buf[b]]

(* Mutant: the time of reception is not taken.                             *)
ReceiveUnstamped ==
  /\ pc = "main" /\ open /\ queue # <<>>
  /\ destip' = Head(queue)
  /\ \E n \in Lengths : data_buf' = Overwritten(Head(queue), n)
  /\ queue' = Tail(queue)
  /\ pc' = "received"
  /\ UNCHANGED <<worldVars, mail, clockVars, open, recv_sec, reply>>

Receive ==
  /\ pc = "main" /\ open /\ queue # <<>>
  /\ recv_sec' = timestamp
  /\ destip' = Head(queue)
  /\ \E n \in Lengths : data_buf' = Overwritten(Head(queue), n)
  /\ queue' = Tail(queue)
  /\ pc' = "received"
  /\ UNCHANGED <<worldVars, mail, clockVars, open, reply>>

(* memcpy(&NTPsformat, &data_buf[8], sizeof(NTPsformat)): what the program *)
(* takes for the transmit timestamp is the block behind the request.       *)
NTPsformat == [b \in Blocks |-> data_buf[b + 1]]

Answer ==
  [to |-> destip, reference |-> NTPsformat[3], origin |-> NTPsformat[6],
   receive |-> recv_sec, transmit |-> timestamp]

(* sock_sendto; when it fails no client sees the reply.                    *)
Reply ==
  /\ pc = "received"
  /\ reply' \in {Answer, NoReply}
  /\ pc' = "close"
  /\ UNCHANGED <<worldVars, mail, clockVars, open, queue,
                 recv_sec, destip, data_buf>>

(* close_socket drops the requests that came in meanwhile; the local       *)
(* variables are gone, and the reply is with the client.                   *)
Close ==
  /\ pc = "close"
  /\ open' = FALSE
  /\ queue' = <<>>
  /\ recv_sec' = 0 /\ destip' = NoClient
  /\ reply' = NoReply
  /\ pc' = "main"
  /\ UNCHANGED <<worldVars, mail, clockVars, data_buf>>

Next ==
  \/ Day \/ Second \/ SNTPs_init \/ SendTimeData
  \/ SNTPs_sync_time \/ Tick
  \/ \E c \in Clients : Request(c)
  \/ OpenSocket \/ Receive \/ Reply \/ Close

Spec == Init /\ [][Next]_vars

-----------------------------------------------------------------------------
Dates == [yy : Nat, mo : 1 .. 12, dd : 1 .. 31, ss : 0 .. (DaySeconds - 1)]
Block == (Clients \union {NoClient}) \X (1 .. 7)
Seconds == 0 .. (Modulus - 1)

TypeOK ==
  /\ civil \in Dates /\ elapsed \in Nat
  /\ started \in Nat \union {-1}
  /\ mail \in Seq([date : Dates, at : Nat \union {-1}])
  /\ timestamp \in Seconds /\ known \in Nat /\ ticks \in Nat
  /\ open \in BOOLEAN /\ queue \in Seq(Clients)
  /\ pc \in {"main", "received", "close"}
  /\ recv_sec \in Seconds
  /\ destip \in Clients \union {NoClient}
  /\ data_buf \in [1 .. 7 -> Block]
  /\ reply \in {NoReply}
           \union [to : Clients, reference : Block, origin : Block,
                   receive : Seconds, transmit : Seconds]

(* The clock is exact: it shows the seconds from the first of January 1900 *)
(* to the date in the last message that could be read, plus its own ticks, *)
(* modulo 2^32 - in leap years, at the ends of months, across the wrap of  *)
(* the u32 in February 2036, and with messages that came in late.          *)
ClockExact == timestamp = IF Running THEN Wrap(known) ELSE 0

(* A client is told the time at which its own request was taken, as time   *)
(* of reception and as time of transmission: no sync and no tick falls     *)
(* between the two, and nothing of an earlier request's answer is left.    *)
ServedTime ==
  [][reply' \notin {reply, NoReply} =>
       /\ reply'.to = destip
       /\ reply'.receive = Wrap(known)
       /\ reply'.transmit = Wrap(known)]_vars
=============================================================================
