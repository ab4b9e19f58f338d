-------------------------- MODULE SntpServer_proofs --------------------------
(***************************************************************************)
(* Proofs about SntpServer, for every length of the day, every modulus and *)
(* every number of clients: the program's calendar arithmetic follows the  *)
(* civil calendar day after day, and so its clock is exact.                *)
(***************************************************************************)
EXTENDS SntpServer, FiniteSetTheorems, FunctionTheorems, TLAPS

-----------------------------------------------------------------------------
(***************************************************************************)
(* The calendar.                                                           *)
(***************************************************************************)
(* The loop over the months adds up to the day of the year each begins on. *)
LEMMA MonthsAddUp ==
  /\ DaysBeforeMonth \in [1 .. 12 -> Nat]
  /\ DaysBeforeMonth[1] = 0
  /\ \A m \in 1 .. 11 :
       DaysBeforeMonth[m + 1] = DaysBeforeMonth[m] + numDaysInMonths[m]
  /\ DaysBeforeMonth[5] = 120 /\ DaysBeforeMonth[12] = 334
<1> DEFINE P(f) == f = [mo \in 1 .. 12 |->
                          IF mo = 1 THEN 0
                          ELSE f[mo - 1] + numDaysInMonths[mo - 1]]
           T == [mo \in 1 .. 12 |->
                   <<0, 31, 59, 90, 120, 151, 181, 212, 243, 273, 304, 334>>[mo]]
<1>1. P(T)
  <2>1. ASSUME NEW m \in 1 .. 12
        PROVE  T[m] = IF m = 1 THEN 0 ELSE T[m - 1] + numDaysInMonths[m - 1]
    <3>1. m \in {1, 2, 3, 4, 5, 6, 7, 8, 9, 10, 11, 12}
      OBVIOUS
    <3> QED
      BY <3>1, SMTT(60) DEF numDaysInMonths
  <2> QED
    BY <2>1
<1>2. DaysBeforeMonth = CHOOSE f : P(f)
  BY DEF DaysBeforeMonth
<1> HIDE DEF P, T
<1>3. P(DaysBeforeMonth)
  BY <1>1, <1>2
<1>4. DaysBeforeMonth = [mo \in 1 .. 12 |->
         IF mo = 1 THEN 0
         ELSE DaysBeforeMonth[mo - 1] + numDaysInMonths[mo - 1]]
  BY <1>3 DEF P
<1>5. /\ DaysBeforeMonth[1] = 0
      /\ \A m \in 1 .. 11 :
           DaysBeforeMonth[m + 1] = DaysBeforeMonth[m] + numDaysInMonths[m]
  BY <1>4
<1>6. /\ DaysBeforeMonth[2] = 31 /\ DaysBeforeMonth[3] = 59
      /\ DaysBeforeMonth[4] = 90 /\ DaysBeforeMonth[5] = 120
  BY <1>5 DEF numDaysInMonths
<1>7. /\ DaysBeforeMonth[6] = 151 /\ DaysBeforeMonth[7] = 181
      /\ DaysBeforeMonth[8] = 212 /\ DaysBeforeMonth[9] = 243
  BY <1>5, <1>6 DEF numDaysInMonths
<1>8. /\ DaysBeforeMonth[10] = 273 /\ DaysBeforeMonth[11] = 304
      /\ DaysBeforeMonth[12] = 334
  BY <1>5, <1>7 DEF numDaysInMonths
<1>9. \A m \in 1 .. 12 : DaysBeforeMonth[m] \in Nat
  <2>1. \A m \in 1 .. 12 :
          m \in {1, 2, 3, 4, 5, 6, 7, 8, 9, 10, 11, 12}
    OBVIOUS
  <2> QED
    BY <2>1, <1>5, <1>6, <1>7, <1>8
<1> QED
  BY <1>4, <1>5, <1>6, <1>8, <1>9

(* One more year adds one more leap year or none.                          *)
LEMMA LeapYearsStep ==
  ASSUME NEW yy \in Nat, yy >= 1900
  PROVE  /\ LeapYearsBefore(yy) \in Nat
         /\ LeapYearsBefore(yy + 1)
              = LeapYearsBefore(yy) + (IF isLeapYear(yy) THEN 1 ELSE 0)
<1> DEFINE S(y) == {year \in 1900 .. (y - 1) : isLeapYear(year)}
<1>1. IsFiniteSet(S(yy)) /\ Cardinality(S(yy)) \in Nat
  <2>1. IsFiniteSet(1900 .. (yy - 1))
    BY FS_Interval
  <2>2. S(yy) \subseteq 1900 .. (yy - 1)
    OBVIOUS
  <2>3. IsFiniteSet(S(yy))
    BY <2>1, <2>2, FS_Subset
  <2> QED
    BY <2>3, FS_CardinalityType
<1>2. S(yy + 1) = IF isLeapYear(yy) THEN S(yy) \union {yy} ELSE S(yy)
  OBVIOUS
<1>3. yy \notin S(yy)
  OBVIOUS
<1>4. Cardinality(S(yy + 1))
        = Cardinality(S(yy)) + (IF isLeapYear(yy) THEN 1 ELSE 0)
  BY <1>1, <1>2, <1>3, FS_AddElement
<1> QED
  BY <1>1, <1>4 DEF LeapYearsBefore

Valid(d) == d \in Dates /\ d.yy >= 1900 /\ d.dd <= LastDay(d.yy, d.mo)

(* The day after a day is one more day since 1900 began.                   *)
LEMMA NextDayCounts ==
  ASSUME NEW d, Valid(d)
  PROVE  /\ numDays(d) \in Nat
         /\ Valid(NextDay(d))
         /\ NextDay(d).ss = 0
         /\ numDays(NextDay(d)) = numDays(d) + 1
<1> DEFINE leap == isLeapYear(d.yy)
<1>1. /\ d.yy \in Nat /\ d.yy >= 1900 /\ d.mo \in 1 .. 12
      /\ d.dd \in 1 .. 31 /\ d.dd <= LastDay(d.yy, d.mo)
      /\ d.ss \in 0 .. (DaySeconds - 1)
  BY DEF Valid, Dates
<1>2. LastDay(d.yy, d.mo)
        = numDaysInMonths[d.mo] + (IF leap /\ d.mo = 2 THEN 1 ELSE 0)
  <2>1. d.mo \in {1, 2, 3, 4, 5, 6, 7, 8, 9, 10, 11, 12}
    BY <1>1
  <2>2. CASE d.mo = 2
    BY <1>1, <2>2 DEF LastDay, isLeapYear, numDaysInMonths
  <2>3. CASE d.mo \in {4, 6, 9, 11}
    BY <2>3 DEF LastDay, numDaysInMonths
  <2>4. CASE d.mo \in {1, 3, 5, 7, 8, 10, 12}
    BY <2>4 DEF LastDay, numDaysInMonths
  <2> QED
    BY <2>1, <2>2, <2>3, <2>4
<1>3. /\ LeapYearsBefore(d.yy) \in Nat
      /\ LeapYearsBefore(d.yy + 1)
           = LeapYearsBefore(d.yy) + (IF leap THEN 1 ELSE 0)
  BY <1>1, LeapYearsStep
<1>4. DaysBeforeMonth[d.mo] \in Nat
  BY <1>1, MonthsAddUp
<1>5. numDays(d) \in Nat
  BY <1>1, <1>3, <1>4 DEF numDays, LeapDays
<1>6. 0 \in 0 .. (DaySeconds - 1)
  BY DaySecondsAssumption
<1>7. CASE d.dd < LastDay(d.yy, d.mo)
  <2>1. NextDay(d) = Date(d.yy, d.mo, d.dd + 1, 0)
    BY <1>7 DEF NextDay
  <2>2. d.dd + 1 \in 1 .. 31
    <3>1. LastDay(d.yy, d.mo) \in {28, 29, 30, 31}
      BY <1>1 DEF LastDay
    <3> QED
      BY <1>1, <1>7, <3>1
  <2>3. Valid(NextDay(d)) /\ NextDay(d).ss = 0
    BY <1>1, <1>6, <1>7, <2>1, <2>2 DEF Valid, Dates, Date, LastDay
  <2>4. numDays(NextDay(d)) = numDays(d) + 1
    BY <1>1, <1>3, <1>4, <2>1 DEF numDays, LeapDays, Date
  <2> QED
    BY <1>5, <2>3, <2>4
<1>8. CASE d.dd = LastDay(d.yy, d.mo) /\ d.mo < 12
  <2>1. NextDay(d) = Date(d.yy, d.mo + 1, 1, 0)
    BY <1>8, <1>1 DEF NextDay
  <2>2. Valid(NextDay(d)) /\ NextDay(d).ss = 0
    BY <1>1, <1>6, <1>8, <2>1 DEF Valid, Dates, Date, LastDay
  <2>3. DaysBeforeMonth[d.mo + 1] = DaysBeforeMonth[d.mo] + numDaysInMonths[d.mo]
    BY <1>1, <1>8, MonthsAddUp
  <2>4. numDaysInMonths[d.mo] \in Nat
    BY <1>1 DEF numDaysInMonths
  <2>5. numDays(NextDay(d)) = numDays(d) + 1
    BY <1>1, <1>2, <1>3, <1>4, <1>8, <2>1, <2>3, <2>4 DEF numDays, LeapDays, Date
  <2> QED
    BY <1>5, <2>2, <2>5
<1>9. CASE d.dd = LastDay(d.yy, d.mo) /\ d.mo = 12
  <2>1. NextDay(d) = Date(d.yy + 1, 1, 1, 0)
    BY <1>9, <1>1 DEF NextDay
  <2>2. Valid(NextDay(d)) /\ NextDay(d).ss = 0
    BY <1>1, <1>6, <1>9, <2>1 DEF Valid, Dates, Date, LastDay
  <2>3. d.dd = 31
    BY <1>9 DEF LastDay
  <2>4. numDays(NextDay(d)) = numDays(d) + 1
    BY <1>1, <1>3, <1>9, <2>1, <2>3, MonthsAddUp DEF numDays, LeapDays, Date
  <2> QED
    BY <1>5, <2>2, <2>4
<1>10. LastDay(d.yy, d.mo) \in Int
  BY <1>1 DEF LastDay
<1> QED
  BY <1>1, <1>7, <1>8, <1>9, <1>10

(* The first day of 1900 is day 0, and the day the clock starts from is    *)
(* day 43968.                                                              *)
LEMMA FirstDays ==
  /\ numDays(Date(1900, 1, 1, 0)) = 0
  /\ numDays(Date(2020, 5, 19, 0)) = 43968
<1>1. LeapYearsBefore(1900) = 0
  <2>1. {year \in 1900 .. (1900 - 1) : isLeapYear(year)} = {}
    OBVIOUS
  <2> QED
    BY <2>1, FS_EmptySet DEF LeapYearsBefore
<1>2. LeapYearsBefore(2020) = 29
  <2> DEFINE S == {year \in 1900 .. (2020 - 1) : isLeapYear(year)}
             f == [k \in 476 .. 504 |-> 4 * k]
  <2>1. f \in Bijection(476 .. 504, S)
    <3>1. f \in [476 .. 504 -> S]
      BY DEF isLeapYear
    <3>2. \A a, b \in 476 .. 504 : f[a] = f[b] => a = b
      OBVIOUS
    <3>3. \A year \in S : \E k \in 476 .. 504 : f[k] = year
      <4>1. TAKE year \in S
      <4>2. year \in 1900 .. 2019 /\ year % 4 = 0 /\ year # 1900
        BY DEF isLeapYear
      <4>3. year \div 4 \in 476 .. 504 /\ year = 4 * (year \div 4)
        BY <4>2
      <4> QED
        BY <4>3
    <3> QED
      BY <3>1, <3>2, <3>3, Fun_IsBij
  <2>2. Cardinality(476 .. 504) = 29 /\ IsFiniteSet(476 .. 504)
    <3>1. PICK first \in Int, last \in Int : first = 476 /\ last = 504
      OBVIOUS
    <3>2. IsFiniteSet(first .. last) /\ Cardinality(first .. last) = 29
      <4>1. /\ IsFiniteSet(first .. last)
            /\ Cardinality(first .. last)
                 = IF first > last THEN 0 ELSE last - first + 1
        BY FS_Interval, Zenon
      <4> QED
        BY <3>1, <4>1
    <3> QED
      BY <3>1, <3>2, Zenon
  <2>3. Cardinality(S) = 29
    BY <2>1, <2>2, FS_Bijection DEF ExistsBijection
  <2> QED
    BY <2>3 DEF LeapYearsBefore
<1> QED
  BY <1>1, <1>2, MonthsAddUp DEF numDays, LeapDays, Date, isLeapYear

-----------------------------------------------------------------------------
(***************************************************************************)
(* The u32.                                                                *)
(***************************************************************************)
LEMMA WrapType ==
  ASSUME NEW n \in Nat
  PROVE  Wrap(n) \in Seconds
BY ModulusAssumption DEF Wrap, Seconds

(* Division with remainder has one result.                                 *)
LEMMA DivMod ==
  ASSUME NEW M \in Nat \ {0}, NEW a \in Nat
  PROVE  /\ a \div M \in Nat /\ a % M \in 0 .. (M - 1)
         /\ a = M * (a \div M) + (a % M)
<1>1. a \div M \in Int /\ a % M \in 0 .. (M - 1)
  OBVIOUS
<1>2. a = M * (a \div M) + (a % M)
  OBVIOUS
<1>3. a \div M >= 0
  <2>1. PICK d \in Int : d = a \div M
    BY <1>1
  <2>2. a = M * d + (a % M)
    BY <1>2, <2>1
  <2>3. ASSUME d <= -1 PROVE M * d <= -M
    BY <2>3
  <2> QED
    BY <1>1, <2>1, <2>2, <2>3
<1> QED
  BY <1>1, <1>2, <1>3

LEMMA ModUnique ==
  ASSUME NEW M \in Nat \ {0}, NEW a \in Nat, NEW b \in Nat,
         NEW c \in 0 .. (M - 1), a = M * b + c
  PROVE  a % M = c
<1> DEFINE q == a \div M
           r == a % M
<1>1. q \in Nat /\ r \in 0 .. (M - 1) /\ a = M * q + r
  BY DivMod
<1> HIDE DEF q, r
<1>2. PICK d \in Int : d = q - b
  BY <1>1
<1>3. M * d = c - r
  BY <1>1, <1>2
<1>4. ~(d >= 1)
  <2>1. ASSUME d >= 1 PROVE M * d >= M
    BY <2>1
  <2> QED
    BY <2>1, <1>1, <1>3
<1>5. ~(d <= -1)
  <2>1. ASSUME d <= -1 PROVE M * d <= -M
    BY <2>1
  <2> QED
    BY <2>1, <1>1, <1>3
<1>6. d = 0
  BY <1>2, <1>4, <1>5
<1>7. r = c
  BY <1>1, <1>3, <1>6
<1> QED
  BY <1>7 DEF r

(* Counting on from a number that has wrapped is counting on and wrapping. *)
LEMMA WrapInc ==
  ASSUME NEW n \in Nat
  PROVE  Wrap(Wrap(n) + 1) = Wrap(n + 1)
<1> DEFINE q == n \div Modulus
           r == n % Modulus
<1>1. q \in Nat /\ r \in 0 .. (Modulus - 1) /\ n = Modulus * q + r
  BY DivMod, ModulusAssumption
<1>2. Modulus \in Nat \ {0}
  BY ModulusAssumption
<1>3. Wrap(Wrap(n) + 1) = (r + 1) % Modulus /\ Wrap(n + 1) = (n + 1) % Modulus
  BY DEF Wrap
<1> HIDE DEF q, r
<1>4. PICK z \in Nat : z = 0
  OBVIOUS
<1>5. PICK k \in Nat : k = q + 1
  BY <1>1
<1>6. CASE r + 1 < Modulus
  <2>1. r + 1 = Modulus * z + (r + 1) /\ r + 1 \in 0 .. (Modulus - 1)
    BY <1>1, <1>2, <1>4, <1>6
  <2>2. (r + 1) % Modulus = r + 1
    BY <2>1, <1>1, <1>2, ModUnique
  <2>3. n + 1 = Modulus * q + (r + 1) /\ n + 1 \in Nat
    BY <1>1, <1>2
  <2>4. (n + 1) % Modulus = r + 1
    BY <2>1, <2>3, <1>1, <1>2, ModUnique
  <2> QED
    BY <1>3, <2>2, <2>4
<1>7. CASE r + 1 = Modulus
  <2>1. PICK one \in Nat : one = 1
    OBVIOUS
  <2>2. r + 1 = Modulus * one + z /\ r + 1 \in Nat /\ z \in 0 .. (Modulus - 1)
    BY <1>1, <1>2, <1>4, <1>7, <2>1
  <2>3. (r + 1) % Modulus = z
    BY <2>2, <1>2, ModUnique
  <2>4. n + 1 = Modulus * k + z /\ n + 1 \in Nat
    BY <1>1, <1>2, <1>4, <1>5, <1>7
  <2>5. (n + 1) % Modulus = z
    BY <2>2, <2>4, <1>2, ModUnique
  <2> QED
    BY <1>3, <2>3, <2>5
<1> QED
  BY <1>1, <1>2, <1>6, <1>7

-----------------------------------------------------------------------------
(***************************************************************************)
(* The inductive invariant: the civil date counts the seconds, and so does *)
(* the date in every message on its way.                                   *)
(***************************************************************************)
Count(d) == d.ss + numDays(d) * DaySeconds

CalendarCounts ==
  /\ Valid(civil) /\ elapsed = Count(civil)
  /\ ~Running => civil.ss = 0

MailCounts ==
  \A i \in 1 .. Len(mail) :
    mail[i] # Garbled => /\ mail[i].at \in Nat /\ Valid(mail[i].date)
                         /\ Count(mail[i].date) = mail[i].at

InHand ==
  pc # "main" => /\ Running /\ destip \in Clients
                 /\ recv_sec = timestamp

NotYet == ~Running => mail = <<>> /\ ~open
Closed == ~open => queue = <<>>

IInv ==
  /\ TypeOK /\ ClockExact /\ CalendarCounts /\ MailCounts
  /\ InHand /\ NotYet /\ Closed

LEMMA InitIInv == Init => IInv
<1> SUFFICES ASSUME Init PROVE IInv
  OBVIOUS
<1> USE DaySecondsAssumption, ModulusAssumption, ClientsAssumption DEF Init
<1>1. civil \in Dates
  BY DEF Dates, Date
<1>2. TypeOK
  <2>1. data_buf \in [1 .. 7 -> Block]
    BY DEF Block
  <2>2. mail \in Seq([date : Dates, at : Nat \union {-1}]) /\ queue \in Seq(Clients)
    OBVIOUS
  <2>3. 0 \in Seconds /\ started \in Nat \union {-1}
    BY DEF Seconds
  <2> QED
    BY <1>1, <2>1, <2>2, <2>3 DEF TypeOK
<1>3. CalendarCounts
  <2>1. Valid(civil)
    BY <1>1 DEF Valid, Date, LastDay
  <2>2. civil.ss = 0
    BY DEF Date
  <2> QED
    BY <2>1, <2>2, FirstDays DEF CalendarCounts, Count
<1> QED
  BY <1>2, <1>3
  DEF IInv, ClockExact, Running, MailCounts, InHand, NotYet, Closed

(* Every reading of the calendar is exact.                                 *)
LEMMA CountIsNat ==
  ASSUME NEW d, Valid(d)
  PROVE  Count(d) \in Nat /\ numberOfSecondsSince1900Epoch(d) = Wrap(Count(d))
<1>1. numDays(d) \in Nat
  BY NextDayCounts
<1>2. d.ss \in Nat
  BY DaySecondsAssumption DEF Valid, Dates
<1>3. numDays(d) * DaySeconds \in Nat
  BY <1>1, DaySecondsAssumption
<1> QED
  BY <1>2, <1>3 DEF Count, numberOfSecondsSince1900Epoch

LEMMA NextSecondCounts ==
  ASSUME NEW d, Valid(d)
  PROVE  Valid(NextSecond(d)) /\ Count(NextSecond(d)) = Count(d) + 1
<1>1. /\ numDays(d) \in Nat /\ Valid(NextDay(d))
      /\ NextDay(d).ss = 0 /\ numDays(NextDay(d)) = numDays(d) + 1
  BY NextDayCounts
<1>2. d.ss \in 0 .. (DaySeconds - 1) /\ DaySeconds \in Nat \ {0} /\ d \in Dates
  BY DaySecondsAssumption DEF Valid, Dates
<1>3. CASE d.ss < DaySeconds - 1
  <2>1. NextSecond(d) = [d EXCEPT !.ss = d.ss + 1]
    BY <1>3 DEF NextSecond
  <2>2. d = [yy |-> d.yy, mo |-> d.mo, dd |-> d.dd, ss |-> d.ss]
    BY <1>2 DEF Dates
  <2>3. /\ NextSecond(d).yy = d.yy /\ NextSecond(d).mo = d.mo
        /\ NextSecond(d).dd = d.dd /\ NextSecond(d).ss = d.ss + 1
    BY <2>1, <2>2
  <2>4. numDays(NextSecond(d)) = numDays(d)
    BY <2>3 DEF numDays, LeapDays
  <2>5. NextSecond(d) \in Dates
    <3>1. d.ss + 1 \in 0 .. (DaySeconds - 1)
      BY <1>2, <1>3
    <3> QED
      BY <2>1, <1>2, <3>1 DEF Dates
  <2>6. Valid(NextSecond(d))
    BY <2>3, <2>5 DEF Valid
  <2>7. numDays(d) * DaySeconds \in Nat
    BY <1>1, <1>2
  <2> QED
    BY <1>2, <2>3, <2>4, <2>6, <2>7 DEF Count
<1>4. CASE d.ss = DaySeconds - 1
  <2>1. NextSecond(d) = NextDay(d)
    BY <1>4, <1>2 DEF NextSecond
  <2>2. (numDays(d) + 1) * DaySeconds = numDays(d) * DaySeconds + DaySeconds
    BY <1>1, <1>2
  <2>3. numDays(d) * DaySeconds \in Nat
    BY <1>1, <1>2
  <2> QED
    BY <1>1, <1>2, <1>4, <2>1, <2>2, <2>3 DEF Count
<1> QED
  BY <1>2, <1>3, <1>4

LEMMA StepIInv == IInv /\ [Next]_vars => IInv'
<1> SUFFICES ASSUME IInv, [Next]_vars PROVE IInv'
  OBVIOUS
<1> USE DEF IInv
<1> DEFINE Message == [date : Dates, at : Nat \union {-1}]
<1>1. CASE UNCHANGED vars
  BY <1>1
  DEF vars, worldVars, clockVars, serverVars, TypeOK, ClockExact, Running,
      CalendarCounts, MailCounts, InHand, NotYet, Closed
<1>2. CASE Day
  <2> USE <1>2 DEF Day
  <2>1. Valid(civil) /\ elapsed = Count(civil) /\ civil.ss = 0
    BY DEF CalendarCounts
  <2>2. /\ Valid(civil') /\ civil'.ss = 0 /\ numDays(civil) \in Nat
        /\ numDays(civil') = numDays(civil) + 1
    BY <2>1, NextDayCounts
  <2>3. elapsed' = Count(civil')
    <3>1. (numDays(civil) + 1) * DaySeconds = numDays(civil) * DaySeconds + DaySeconds
      BY <2>2, DaySecondsAssumption
    <3>2. numDays(civil) * DaySeconds \in Nat
      BY <2>2, DaySecondsAssumption
    <3> QED
      BY <2>1, <2>2, <3>1, <3>2, DaySecondsAssumption DEF Count
  <2>4. CalendarCounts'
    BY <2>2, <2>3 DEF CalendarCounts
  <2>5. TypeOK'
    <3>1. elapsed' \in Nat
      BY DaySecondsAssumption DEF TypeOK
    <3> QED
      BY <2>2, <3>1 DEF Valid, TypeOK, clockVars, serverVars
  <2> QED
    BY <2>4, <2>5
    DEF clockVars, serverVars, ClockExact, Running, MailCounts, InHand,
        NotYet, Closed
<1>3. CASE Second
  <2> USE <1>3 DEF Second
  <2>1. Valid(civil) /\ elapsed = Count(civil)
    BY DEF CalendarCounts
  <2>2. Valid(civil') /\ Count(civil') = Count(civil) + 1
    BY <2>1, NextSecondCounts
  <2>3. CalendarCounts'
    BY <2>1, <2>2 DEF CalendarCounts, Running
  <2>4. TypeOK'
    BY <2>2 DEF Valid, TypeOK, clockVars, serverVars
  <2> QED
    BY <2>3, <2>4
    DEF clockVars, serverVars, ClockExact, Running, MailCounts, InHand,
        NotYet, Closed
<1>4. CASE SNTPs_init
  <2> USE <1>4 DEF SNTPs_init
  <2> DEFINE d == Date(2020, 5, 19, 0)
  <2>1. Valid(d)
    BY DaySecondsAssumption DEF Valid, Date, Dates, LastDay
  <2>2. Count(d) = 43968 * DaySeconds
    BY FirstDays, DaySecondsAssumption DEF Count, Date
  <2>3. known' \in Nat /\ timestamp' = Wrap(known')
    BY <2>1, <2>2, CountIsNat
  <2>4. started' \in Nat
    BY DEF TypeOK
  <2>5. TypeOK'
    BY <2>3, <2>4, WrapType DEF TypeOK, serverVars
  <2>6. ClockExact' /\ CalendarCounts'
    BY <2>3, <2>4 DEF ClockExact, CalendarCounts, Running
  <2>7. Running'
    BY <2>4 DEF Running
  <2> QED
    BY <2>5, <2>6, <2>7
    DEF serverVars, MailCounts, InHand, NotYet, Closed
<1>5. CASE SendTimeData
  <2> USE <1>5 DEF SendTimeData
  <2>1. PICK m \in {[date |-> civil, at |-> elapsed], Garbled} :
          mail' = Append(mail, m)
    OBVIOUS
  <2>2. m \in Message
    <3>1. Date(1900, 1, 1, 0) \in Dates
      BY DaySecondsAssumption DEF Date, Dates
    <3> QED
      BY <3>1 DEF TypeOK, Garbled
  <2>3. mail \in Seq(Message)
    BY DEF TypeOK
  <2>4. mail' \in Seq(Message)
    BY <2>1, <2>2, <2>3
  <2>5. TypeOK'
    BY <2>4 DEF TypeOK, worldVars, clockVars, serverVars
  <2>6. m # Garbled => /\ m.at \in Nat /\ Valid(m.date) /\ Count(m.date) = m.at
    BY DEF CalendarCounts, TypeOK
  <2>7. MailCounts'
    <3>1. ASSUME NEW i \in 1 .. Len(mail'), mail'[i] # Garbled
          PROVE  /\ mail'[i].at \in Nat /\ Valid(mail'[i].date)
                 /\ Count(mail'[i].date) = mail'[i].at
      <4>1. CASE i \in 1 .. Len(mail)
        <5>1. mail'[i] = mail[i]
          BY <2>1, <2>3, <4>1
        <5> QED
          BY <3>1, <4>1, <5>1 DEF MailCounts
      <4>2. CASE i = Len(mail) + 1
        <5>1. mail'[i] = m
          BY <2>1, <2>3, <4>2
        <5> QED
          BY <2>6, <3>1, <5>1
      <4> QED
        BY <2>1, <2>3, <4>1, <4>2
    <3> QED
      BY <3>1 DEF MailCounts
  <2> QED
    BY <2>5, <2>7
    DEF worldVars, clockVars, serverVars, ClockExact, Running, CalendarCounts,
        InHand, NotYet, Closed
<1>6. CASE SNTPs_sync_time
  <2> USE <1>6 DEF SNTPs_sync_time
  <2>1. mail \in Seq(Message) /\ Len(mail) \in Nat /\ Len(mail) >= 1
    BY DEF TypeOK
  <2>2. mail' \in Seq(Message) /\ Len(mail') = Len(mail) - 1
    BY <2>1
  <2>3. \A i \in 1 .. Len(mail') : mail'[i] = mail[i + 1] /\ i + 1 \in 1 .. Len(mail)
    BY <2>1, <2>2
  <2>4. MailCounts'
    BY <2>3 DEF MailCounts
  <2>5. known' \in Nat /\ ticks' \in Nat /\ timestamp' = Wrap(known')
    <3>1. CASE Head(mail) = Garbled
      BY <3>1 DEF clockVars, TypeOK, ClockExact
    <3>2. CASE Head(mail) # Garbled
      <4>1. Head(mail) = mail[1] /\ 1 \in 1 .. Len(mail)
        BY <2>1
      <4>2. /\ Head(mail).at \in Nat /\ Valid(Head(mail).date)
            /\ Count(Head(mail).date) = Head(mail).at
        BY <3>2, <4>1 DEF MailCounts
      <4> QED
        BY <3>2, <4>2, CountIsNat
    <3> QED
      BY <3>1, <3>2
  <2>6. TypeOK'
    BY <2>2, <2>5, WrapType DEF TypeOK, worldVars, serverVars
  <2>7. ClockExact'
    BY <2>5 DEF ClockExact, Running, worldVars
  <2> QED
    BY <2>4, <2>6, <2>7
    DEF worldVars, serverVars, Running, CalendarCounts, InHand, NotYet,
        Closed
<1>7. CASE Tick
  <2> USE <1>7 DEF Tick
  <2>1. known \in Nat /\ ticks \in Nat /\ timestamp = Wrap(known)
    BY DEF TypeOK, ClockExact
  <2>2. timestamp' = Wrap(known')
    BY <2>1, WrapInc
  <2>3. TypeOK'
    BY <2>1, <2>2, WrapType DEF TypeOK, worldVars, serverVars
  <2>4. ClockExact'
    BY <2>2 DEF ClockExact, Running, worldVars
  <2> QED
    BY <2>3, <2>4
    DEF worldVars, serverVars, Running, CalendarCounts, MailCounts, InHand,
        NotYet, Closed
<1>8. ASSUME NEW c \in Clients, Request(c) PROVE IInv'
  <2> USE <1>8 DEF Request
  <2>1. TypeOK'
    BY DEF TypeOK, worldVars, clockVars, serverVars
  <2> QED
    BY <2>1
    DEF worldVars, clockVars, serverVars, ClockExact, Running, CalendarCounts,
        MailCounts, InHand, NotYet, Closed
<1>9. CASE OpenSocket
  <2> USE <1>9 DEF OpenSocket
  <2>1. TypeOK'
    BY DEF TypeOK, worldVars, clockVars, serverVars
  <2> QED
    BY <2>1
    DEF worldVars, clockVars, serverVars, ClockExact, Running, CalendarCounts,
        MailCounts, InHand, NotYet, Closed
<1>10. CASE Receive
  <2> USE <1>10 DEF Receive
  <2>1. Head(queue) \in Clients /\ queue' \in Seq(Clients)
    BY DEF TypeOK
  <2>2. data_buf' \in [1 .. 7 -> Block]
    <3>1. PICK n \in Lengths : data_buf' = Overwritten(Head(queue), n)
      OBVIOUS
    <3>2. data_buf \in [1 .. 7 -> Block]
      BY DEF TypeOK
    <3>3. \A b \in 1 .. 7 : <<Head(queue), b>> \in Block
      BY <2>1 DEF Block
    <3> QED
      BY <3>1, <3>2, <3>3 DEF Overwritten
  <2>4. TypeOK'
    BY <2>1, <2>2 DEF TypeOK, worldVars, clockVars
  <2>5. Running
    BY DEF NotYet
  <2>6. InHand'
    BY <2>1, <2>5 DEF InHand, Running, worldVars, clockVars
  <2> QED
    BY <2>4, <2>5, <2>6
    DEF worldVars, clockVars, ClockExact, Running, CalendarCounts,
        MailCounts, NotYet, Closed
<1>11. CASE Reply
  <2> USE <1>11 DEF Reply
  <2>1. destip \in Clients
    BY DEF InHand
  <2>2. NTPsformat[3] \in Block /\ NTPsformat[6] \in Block
    BY DEF NTPsformat, Blocks, TypeOK
  <2>5. TypeOK'
    <3>1. reply' \in {NoReply}
                 \union [to : Clients, reference : Block, origin : Block,
                         receive : Seconds, transmit : Seconds]
      <4>1. recv_sec \in Seconds /\ timestamp \in Seconds
        BY DEF TypeOK
      <4>2. Answer \in [to : Clients, reference : Block, origin : Block,
                        receive : Seconds, transmit : Seconds]
        BY <2>1, <2>2, <4>1 DEF Answer
      <4> QED
        BY <4>2
    <3> QED
      BY <3>1 DEF TypeOK, worldVars, clockVars
  <2>6. InHand'
    BY DEF InHand, Running, worldVars, clockVars
  <2> QED
    BY <2>5, <2>6
    DEF worldVars, clockVars, ClockExact, Running, CalendarCounts,
        MailCounts, NotYet, Closed
<1>12. CASE Close
  <2> USE <1>12 DEF Close
  <2>1. 0 \in Seconds
    BY ModulusAssumption DEF Seconds
  <2>2. queue' \in Seq(Clients)
    OBVIOUS
  <2>3. TypeOK'
    BY <2>1, <2>2 DEF TypeOK, worldVars, clockVars
  <2> QED
    BY <2>3
    DEF worldVars, clockVars, ClockExact, Running, CalendarCounts,
        MailCounts, InHand, NotYet, Closed
<1> QED
  BY <1>1, <1>2, <1>3, <1>4, <1>5, <1>6, <1>7, <1>8, <1>9, <1>10, <1>11, <1>12
  DEF Next

-----------------------------------------------------------------------------
(* The inductive invariant: the program's arithmetic is at one with the    *)
(* calendar in every state.                                                *)
THEOREM Invariance == Spec => []IInv
BY InitIInv, StepIInv, PTL DEF Spec

(* Every variable keeps its type; the clock stays a u32.                   *)
THEOREM TypeCorrect == Spec => []TypeOK
<1>1. IInv => TypeOK
  BY DEF IInv
<1> QED
  BY <1>1, Invariance, PTL

(* The clock shows the time it was told, to the second and modulo 2^32,    *)
(* for every date and every length of the day.                             *)
THEOREM ClockIsExact == Spec => []ClockExact
<1>1. IInv => ClockExact
  BY DEF IInv
<1> QED
  BY <1>1, Invariance, PTL

(* A client is told the time at which its own request was taken.           *)
THEOREM TimeServed == Spec => ServedTime
<1> DEFINE A == reply' \notin {reply, NoReply} =>
                  /\ reply'.to = destip
                  /\ reply'.receive = Wrap(known)
                  /\ reply'.transmit = Wrap(known)
<1>1. IInv /\ [Next]_vars => [A]_vars
  <2> SUFFICES ASSUME IInv, Next, reply' \notin {reply, NoReply}
               PROVE  A
    OBVIOUS
  <2>1. Reply
    BY DEF Next, Day, Second, SNTPs_init, SendTimeData, SNTPs_sync_time, Tick,
           Request, OpenSocket, Receive, Close, serverVars
  <2>2. reply' = Answer /\ pc = "received"
    BY <2>1 DEF Reply
  <2>3. Running /\ recv_sec = timestamp
    BY <2>2 DEF IInv, InHand
  <2>4. timestamp = Wrap(known)
    BY <2>3 DEF IInv, ClockExact
  <2> QED
    BY <2>2, <2>3, <2>4 DEF Answer
<1> QED
  BY <1>1, Invariance, PTL DEF Spec, ServedTime
=============================================================================
