---------------------------- MODULE HLApp_proofs ----------------------------
(***************************************************************************)
(* Proofs about HLApp, for every number of stored Wi-Fi networks.          *)
(***************************************************************************)
EXTENDS HLApp, TLAPS

(* The timer has its period whenever the event loop may run.               *)
PeriodSet ==
  \/ azureIoTPollPeriodSeconds = AzureIoTDefaultPollPeriodSeconds
  \/ pc \in {"init", "ended"}
  \/ pc = "assign" /\ result # Success
  \/ pc = "loop" /\ exitCode # Success

IInv == TypeOK /\ PeriodSet /\ ClientSound

Codes == {Success, SigTerm, EventLoopFail, AzureTimerConsume, InitEventLoop,
          InitAzureTimer, SendMsg, SocketHandlerRecv, LedFail}

LEMMA CodesAreCodes == Codes = ExitCodes
BY DEF Codes, ExitCodes, Success, SigTerm, EventLoopFail, AzureTimerConsume,
       InitEventLoop, InitAzureTimer, SendMsg, SocketHandlerRecv, LedFail

(* Only the initialisation's own code may stand for success.               *)
LEMMA CodesFail ==
  /\ SigTerm # Success /\ EventLoopFail # Success /\ AzureTimerConsume # Success
  /\ SendMsg # Success /\ SocketHandlerRecv # Success /\ LedFail # Success
  /\ InitEventLoop # Success /\ InitAzureTimer # Success
BY DEF Success, SigTerm, EventLoopFail, AzureTimerConsume, InitEventLoop,
       InitAzureTimer, SendMsg, SocketHandlerRecv, LedFail

LEMMA PeriodsInRange ==
  {-1, AzureIoTDefaultPollPeriodSeconds} \subseteq -1 .. AzureIoTMaxReconnectPeriodSeconds
BY DEF AzureIoTDefaultPollPeriodSeconds, AzureIoTMaxReconnectPeriodSeconds

LEMMA InitInv == Init => IInv
<1> SUFFICES ASSUME Init PROVE IInv
  OBVIOUS
<1>1. TypeOK
  <2>1. /\ status \in AllStatuses
        /\ stored \in 0 .. MaxNetworks /\ enabled \subseteq Networks
        /\ storedNetworkCnt \in 0 .. MaxNetworks
    BY MaxNetworksAssumption DEF Init
  <2>2. exitCode \in ExitCodes /\ result \in ExitCodes
    BY CodesAreCodes DEF Init, Codes
  <2>3. /\ registered \in BOOLEAN /\ iothubAuthenticated \in BOOLEAN
        /\ ethernet_connected \in BOOLEAN /\ wifi_connected \in BOOLEAN
    BY DEF Init
  <2> QED
    BY <2>1, <2>2, <2>3, PeriodsInRange DEF Init, TypeOK
<1>2. PeriodSet
  BY DEF Init, PeriodSet
<1>3. ClientSound
  BY DEF Init, ClientSound
<1> QED
  BY <1>1, <1>2, <1>3 DEF IInv

(* However the loop over the networks ends, only stored ones are enabled.  *)
LEMMA SwitchedStored ==
  ASSUME TypeOK, NEW on \in BOOLEAN, SetNetworks(on)
  PROVE  /\ enabled' \subseteq Networks
         /\ \/ UNCHANGED <<pc, exitCode>>
            \/ FailTick
<1>1. ASSUME NEW n \in 0 .. MaxNetworks, n =< stored
      PROVE  Switched(n, on) \subseteq Networks
  BY <1>1 DEF TypeOK, Switched, Networks
<1>2. CASE /\ storedNetworkCnt =< stored
           /\ enabled' = Switched(storedNetworkCnt, on)
           /\ UNCHANGED <<pc, exitCode>>
  BY <1>1, <1>2 DEF TypeOK
<1>3. CASE /\ \E n \in 0 .. (storedNetworkCnt - 1) : n =< stored /\ enabled' = Switched(n, on)
           /\ FailTick
  <2>1. PICK n \in 0 .. (storedNetworkCnt - 1) : n =< stored /\ enabled' = Switched(n, on)
    BY <1>3
  <2>2. n \in 0 .. MaxNetworks
    BY <2>1, MaxNetworksAssumption DEF TypeOK
  <2> QED
    BY <1>1, <1>3, <2>1, <2>2
<1> QED
  BY <1>2, <1>3 DEF SetNetworks

-----------------------------------------------------------------------------
(***************************************************************************)
(* The steps.                                                              *)
(***************************************************************************)
(* Nothing but the hub's part of the program and the loss of a connection  *)
(* touches what ClientSound speaks of.                                     *)
LEMMA SoundKept ==
  ASSUME ClientSound, UNCHANGED <<clientVars, iothubAuthenticated>>
  PROVE  ClientSound'
BY DEF ClientSound, clientVars

LEMMA EnvironmentInv == IInv /\ Environment => IInv'
<1> SUFFICES ASSUME IInv, Environment PROVE IInv'
  OBVIOUS
<1> USE CodesAreCodes, CodesFail, MaxNetworksAssumption DEF IInv
<1>1. ASSUME NEW i \in Interfaces, StatusChange(i) PROVE IInv'
  <2>1. status' \in AllStatuses
    BY <1>1 DEF StatusChange, TypeOK, AllStatuses, Statuses, Interfaces
  <2>2. TypeOK'
    BY <1>1, <2>1 DEF StatusChange, TypeOK, Networks, hubVars, clientVars, netVars, mainVars
  <2>3. PeriodSet'
    BY <1>1 DEF StatusChange, PeriodSet, hubVars, mainVars
  <2> QED
    BY <1>1, <2>2, <2>3, SoundKept DEF StatusChange, hubVars
<1>2. CASE AddNetwork
  <2>1. TypeOK'
    BY <1>2 DEF AddNetwork, TypeOK, Networks, hubVars, clientVars, netVars, mainVars
  <2>2. PeriodSet'
    BY <1>2 DEF AddNetwork, PeriodSet, hubVars, mainVars
  <2> QED
    BY <1>2, <2>1, <2>2, SoundKept DEF AddNetwork, hubVars
<1>3. CASE ForgetNetworks
  <2>1. TypeOK'
    BY <1>3 DEF ForgetNetworks, TypeOK, Networks, hubVars, clientVars, netVars, mainVars
  <2>2. PeriodSet'
    BY <1>3 DEF ForgetNetworks, PeriodSet, hubVars, mainVars
  <2> QED
    BY <1>3, <2>1, <2>2, SoundKept DEF ForgetNetworks, hubVars
<1>4. CASE Disconnect
  <2>1. TypeOK'
    BY <1>4 DEF Disconnect, TypeOK, Networks, osVars, netVars, mainVars
  <2>2. PeriodSet'
    BY <1>4 DEF Disconnect, PeriodSet, mainVars
  <2>3. ClientSound'
    BY <1>4 DEF Disconnect, ClientSound
  <2> QED
    BY <2>1, <2>2, <2>3
<1>5. CASE TerminationHandler
  <2>1. TypeOK'
    BY <1>5 DEF TerminationHandler, TypeOK, Networks, Codes, osVars, hubVars, clientVars,
                netVars, mainVars
  <2>2. PeriodSet'
    BY <1>5 DEF TerminationHandler, PeriodSet, hubVars, mainVars
  <2> QED
    BY <1>5, <2>1, <2>2, SoundKept DEF TerminationHandler, hubVars
<1> QED
  BY <1>1, <1>2, <1>3, <1>4, <1>5 DEF Environment

LEMMA MainInv ==
  IInv /\ (Start \/ Loop \/ TimerExpires \/ ClosePeripheralsAndHandlers) => IInv'
<1> SUFFICES ASSUME IInv, Start \/ Loop \/ TimerExpires \/ ClosePeripheralsAndHandlers
             PROVE  IInv'
  OBVIOUS
<1> USE CodesAreCodes, CodesFail DEF IInv, Goto
<1> USE DEF TypeOK, PeriodSet, Networks, Codes, osVars, hubVars, clientVars, netVars, mainVars
<1>1. CASE InitPeripheralsAndHandlers
  <2>1. PICK r \in Initialised :
          /\ open' = r[1] /\ result' = r[2]
          /\ azureIoTPollPeriodSeconds' =
               IF Leds \subseteq r[1] THEN AzureIoTDefaultPollPeriodSeconds ELSE -1
    BY <1>1 DEF InitPeripheralsAndHandlers
  <2>2. /\ r[1] \subseteq Leds \union {"loop", "timer", "socket", "event"}
        /\ r[2] \in Codes
        /\ r[2] = Success => Leds \subseteq r[1]
    BY DEF Initialised
  <2>3. TypeOK' /\ PeriodSet'
    BY <1>1, <2>1, <2>2, PeriodsInRange DEF InitPeripheralsAndHandlers
  <2> QED
    BY <1>1, <2>3, SoundKept DEF InitPeripheralsAndHandlers
<1>2. CASE InitAssign
  <2>1. TypeOK' /\ PeriodSet'
    BY <1>2 DEF InitAssign, LedFail, ExitCodes
  <2> QED
    BY <1>2, <2>1, SoundKept DEF InitAssign
<1>3. CASE LoopTest \/ Interrupted \/ RunFailed \/ ReceiveFails
  <2>1. CASE LoopTest
    BY <2>1, SoundKept DEF LoopTest
  <2>2. CASE Interrupted
    BY <2>2, SoundKept DEF Interrupted
  <2>3. CASE RunFailed
    BY <2>3, SoundKept DEF RunFailed
  <2>4. CASE ReceiveFails
    BY <2>4, SoundKept DEF ReceiveFails
  <2> QED
    BY <1>3, <2>1, <2>2, <2>3, <2>4
<1>4. CASE Receive
  <2>1. TypeOK' /\ PeriodSet'
    BY <1>4 DEF Receive, DoWork, NoWork, Connects, HubConnectionStatusCallback
  <2>2. ClientSound'
    BY <1>4 DEF Receive, DoWork, NoWork, Connects, HubConnectionStatusCallback, ClientSound
  <2> QED
    BY <2>1, <2>2
<1>5. CASE TimerExpires
  <2>1. TypeOK' /\ PeriodSet'
    BY <1>5 DEF TimerExpires
  <2> QED
    BY <1>5, <2>1, SoundKept DEF TimerExpires
<1>6. CASE ClosePeripheralsAndHandlers
  <2>1. TypeOK' /\ PeriodSet'
    BY <1>6 DEF ClosePeripheralsAndHandlers
  <2> QED
    BY <1>6, <2>1, SoundKept DEF ClosePeripheralsAndHandlers
<1> QED
  BY <1>1, <1>2, <1>3, <1>4, <1>5, <1>6 DEF Start, Loop

LEMMA CheckInv == IInv /\ Check => IInv'
<1> SUFFICES ASSUME IInv, Check PROVE IInv'
  OBVIOUS
<1> USE CodesAreCodes, CodesFail DEF IInv, Goto
<1> USE DEF TypeOK, PeriodSet, Codes, osVars, hubVars, clientVars, netVars, mainVars
<1>1. CASE CheckFails \/ NoInterfaces \/ AllSeen \/ TickFails
  <2>1. CASE CheckFails \/ TickFails
    <3>1. TypeOK' /\ PeriodSet'
      <4>1. CASE CheckFails
        BY <4>1 DEF CheckFails, FailTick, Networks
      <4>2. CASE TickFails
        BY <4>2 DEF TickFails, FailTick, Networks
      <4> QED
        BY <2>1, <4>1, <4>2
    <3> QED
      BY <2>1, <3>1, SoundKept DEF CheckFails, TickFails
  <2>2. CASE NoInterfaces \/ AllSeen
    <3>1. /\ pc' = "checked" /\ interfaces' \subseteq Interfaces
          /\ UNCHANGED <<osVars, hubVars, ethernet_connected, wifi_connected,
                         storedNetworkCnt, mainVars, exitCode>>
      BY <2>2 DEF NoInterfaces, AllSeen
    <3>2. TypeOK' /\ PeriodSet'
      BY <2>2, <3>1 DEF NoInterfaces, AllSeen, Networks
    <3> QED
      BY <3>1, <3>2, SoundKept
  <2> QED
    BY <1>1, <2>1, <2>2
<1>2. CASE Wlan0
  <2>1. /\ enabled' \subseteq Networks'
        /\ UNCHANGED <<pc, exitCode>> \/ FailTick
    <3>1. \/ enabled' \subseteq Networks /\ (UNCHANGED <<pc, exitCode>> \/ FailTick)
          \/ UNCHANGED <<enabled, pc, exitCode>>
      BY <1>2, SwitchedStored DEF Wlan0
    <3> QED
      BY <1>2, <3>1 DEF Wlan0, Networks
  <2>2. TypeOK' /\ PeriodSet'
    BY <1>2, <2>1 DEF Wlan0, FailTick
  <2> QED
    BY <1>2, <2>2, SoundKept DEF Wlan0
<1>3. CASE Eth0
  <2>1. /\ enabled' \subseteq Networks'
        /\ UNCHANGED <<pc, exitCode>> \/ FailTick
    <3>1. \/ enabled' \subseteq Networks /\ (UNCHANGED <<pc, exitCode>> \/ FailTick)
          \/ UNCHANGED <<enabled, pc, exitCode>>
      BY <1>3, SwitchedStored DEF Eth0
    <3> QED
      BY <1>3, <3>1 DEF Eth0, Networks
  <2>2. TypeOK' /\ PeriodSet'
    BY <1>3, <2>1 DEF Eth0, EthLinked, FailTick
  <2> QED
    BY <1>3, <2>2, SoundKept DEF Eth0
<1> QED
  BY <1>1, <1>2, <1>3 DEF Check

(* The attempt to reach the hub gives the period it had: it starts at the  *)
(* default, which is what the back-off starts at.                          *)
LEMMA HubInv == IInv /\ Hub => IInv'
<1> SUFFICES ASSUME IInv, Hub PROVE IInv'
  OBVIOUS
<1> USE CodesAreCodes, CodesFail DEF IInv, Goto
<1> USE DEF TypeOK, PeriodSet, Networks, Codes, osVars, hubVars, clientVars, netVars, mainVars
<1>1. CASE SendTimeData \/ NoSystemTime \/ NoSetup
  <2>1. TypeOK' /\ PeriodSet'
    <3>1. CASE SendTimeData
      BY <3>1 DEF SendTimeData, Sent
    <3>2. CASE NoSystemTime
      BY <3>2 DEF NoSystemTime
    <3>3. CASE NoSetup
      BY <3>3 DEF NoSetup
    <3> QED
      BY <1>1, <3>1, <3>2, <3>3
  <2> QED
    BY <1>1, <2>1, SoundKept DEF SendTimeData, Sent, NoSystemTime, NoSetup
<1>2. CASE SetupAzureClient /\ ClientNotCreated
  <2>1. azureIoTPollPeriodSeconds' = AzureIoTDefaultPollPeriodSeconds
    BY <1>2 DEF SetupAzureClient, ClientNotCreated, NextPeriod,
                AzureIoTDefaultPollPeriodSeconds, AzureIoTMinReconnectPeriodSeconds
  <2>2. TypeOK' /\ PeriodSet'
    BY <1>2, <2>1, PeriodsInRange DEF SetupAzureClient, ClientNotCreated
  <2>3. ClientSound'
    BY <1>2 DEF SetupAzureClient, ClientNotCreated, ClientSound
  <2> QED
    BY <2>2, <2>3
<1>3. CASE SetupAzureClient /\ ClientCreated
  <2>1. TypeOK' /\ PeriodSet'
    BY <1>3, PeriodsInRange DEF SetupAzureClient, ClientCreated
  <2>2. ClientSound'
    BY <1>3 DEF SetupAzureClient, ClientCreated, ClientSound
  <2> QED
    BY <2>1, <2>2
<1>4. CASE Work
  <2>1. TypeOK'
    <3>1. link' \in {"none", "new", "up", "lost"} /\ iothubAuthenticated' \in BOOLEAN
      BY <1>4 DEF Work, DoWork, NoWork, Connects, HubConnectionStatusCallback
    <3>2. pc' = "loop" /\ UNCHANGED <<osVars, netVars, mainVars, exitCode, handle,
                                     registered, azureIoTPollPeriodSeconds>>
      BY <1>4 DEF Work, DoWork, NoWork
    <3> QED
      BY <3>1, <3>2
  <2>2. PeriodSet'
    BY <1>4 DEF Work, DoWork, NoWork, Connects, HubConnectionStatusCallback
  <2>3. ClientSound'
    BY <1>4 DEF Work, DoWork, NoWork, Connects, HubConnectionStatusCallback, ClientSound
  <2> QED
    BY <2>1, <2>2, <2>3
<1> QED
  BY <1>1, <1>2, <1>3, <1>4 DEF Hub, SetupAzureClient

-----------------------------------------------------------------------------
(* The inductive invariant: types, the period that is set before the event *)
(* loop runs, and the client's soundness.                                  *)
THEOREM Invariance == Spec => []IInv
<1>1. Init => IInv
  BY InitInv
<1>2. IInv /\ [Next]_vars => IInv'
  <2>1. IInv /\ Next => IInv'
    BY EnvironmentInv, MainInv, CheckInv, HubInv DEF Next, Program
  <2>2. IInv /\ UNCHANGED vars => IInv'
    BY DEF IInv, TypeOK, PeriodSet, ClientSound, Networks, vars, osVars, hubVars,
           clientVars, netVars, mainVars
  <2> QED
    BY <2>1, <2>2
<1> QED
  BY <1>1, <1>2, PTL DEF Spec

(* Every variable keeps its type; no attempt sets a period over ten minutes.*)
THEOREM TypeCorrect == Spec => []TypeOK
<1>1. IInv => TypeOK
  BY DEF IInv
<1> QED
  BY <1>1, Invariance, PTL

(* The program never works with a client that is not there.                *)
THEOREM ClientIsSound == Spec => []ClientSound
<1>1. IInv => ClientSound
  BY DEF IInv
<1> QED
  BY <1>1, Invariance, PTL

-----------------------------------------------------------------------------
(***************************************************************************)
(* The way out.  What SigtermEnds says of every fair behaviour rests on    *)
(* two facts about steps: an exit code is never taken back, whichever code *)
(* is written over it, and with one every step of the program is a step    *)
(* towards its end, of which there are at most eight.                      *)
(***************************************************************************)
Failing == exitCode # Success /\ pc \notin {"init", "assign"}

Unseen == (IF "wlan0" \in interfaces THEN 1 ELSE 0) + (IF "eth0" \in interfaces THEN 1 ELSE 0)

StepsLeft ==
  CASE pc = "wait"       -> 8
    [] pc = "interfaces" -> 5 + Unseen
    [] pc = "checked"    -> 4
    [] pc = "setup"      -> 3
    [] pc = "work"       -> 2
    [] pc = "loop"       -> 1
    [] OTHER             -> 0

EndStep ==
  Failing => /\ Failing'
             /\ StepsLeft \in 0 .. 8
             /\ Program => StepsLeft' < StepsLeft
             /\ Environment => StepsLeft' = StepsLeft

(* Without a change of place and of the interfaces still to look at, the   *)
(* number of steps is what it was.                                         *)
LEMMA SameStepsLeft ==
  ASSUME UNCHANGED <<pc, interfaces>>
  PROVE  StepsLeft' = StepsLeft
BY DEF StepsLeft, Unseen

LEMMA StepsLeftRange == StepsLeft \in 0 .. 8
BY DEF StepsLeft, Unseen

LEMMA EnvironmentWaits ==
  ASSUME Failing, Environment
  PROVE  Failing' /\ StepsLeft' = StepsLeft
<1>1. UNCHANGED <<pc, interfaces>>
  BY DEF Environment, StatusChange, AddNetwork, ForgetNetworks, Disconnect,
         TerminationHandler, netVars
<1>2. exitCode' = exitCode \/ exitCode' = SigTerm
  BY DEF Environment, StatusChange, AddNetwork, ForgetNetworks, Disconnect,
         TerminationHandler
<1> QED
  BY <1>1, <1>2, SameStepsLeft, CodesFail DEF Failing

(* A handler that gives up, and one that goes on.                          *)
LEMMA GivesUp ==
  ASSUME Failing, FailTick, pc \in {"interfaces", "checked"}
  PROVE  Failing' /\ StepsLeft' < StepsLeft
<1>1. StepsLeft' = 1
  BY DEF StepsLeft, FailTick
<1>2. StepsLeft >= 4
  BY DEF StepsLeft, Unseen
<1> QED
  BY <1>1, <1>2, StepsLeftRange, CodesFail DEF Failing, FailTick

LEMMA CheckEnds ==
  ASSUME Failing, Check
  PROVE  Failing' /\ StepsLeft' < StepsLeft
<1> USE DEF Goto
<1>1. CASE CheckFails \/ TickFails
  BY <1>1, GivesUp DEF CheckFails, TickFails
<1>2. CASE NoInterfaces \/ AllSeen
  BY <1>2 DEF NoInterfaces, AllSeen, Failing, StepsLeft, Unseen
<1>3. ASSUME NEW i \in {"wlan0", "eth0"}, NEW on \in BOOLEAN, pc = "interfaces", i \in interfaces,
             interfaces' = interfaces \ {i},
             SetNetworks(on) \/ UNCHANGED <<enabled, pc, exitCode>>
      PROVE  Failing' /\ StepsLeft' < StepsLeft
  <2>1. CASE FailTick
    BY <1>3, <2>1, GivesUp
  <2>2. CASE UNCHANGED <<pc, exitCode>>
    <3>1. Unseen' < Unseen
      BY <1>3 DEF Unseen
    <3>2. Unseen \in 0 .. 2 /\ Unseen' \in 0 .. 2
      BY DEF Unseen
    <3> QED
      BY <1>3, <2>2, <3>1, <3>2 DEF StepsLeft, Failing
  <2> QED
    BY <1>3, <2>1, <2>2 DEF SetNetworks
<1>4. CASE Wlan0
  BY <1>3, <1>4 DEF Wlan0
<1>5. CASE Eth0
  BY <1>3, <1>5 DEF Eth0
<1> QED
  BY <1>1, <1>2, <1>4, <1>5 DEF Check

LEMMA ProgramEnds ==
  ASSUME Failing, Program
  PROVE  Failing' /\ StepsLeft' < StepsLeft
<1> USE CodesFail DEF Goto
<1>1. ~Start /\ ~LoopTest
  BY DEF Failing, Start, InitPeripheralsAndHandlers, InitAssign, LoopTest
<1>2. CASE Interrupted \/ RunFailed \/ ReceiveFails \/ Receive
  <2>1. pc = "wait" /\ pc' = "loop"
    BY <1>2 DEF Interrupted, RunFailed, ReceiveFails, Receive, DoWork, NoWork
  <2>2. exitCode' # Success
    BY <1>2 DEF Interrupted, RunFailed, ReceiveFails, Receive, DoWork, NoWork, Failing
  <2> QED
    BY <2>1, <2>2 DEF Failing, StepsLeft
<1>3. CASE TimerExpires
  BY <1>3 DEF TimerExpires, Failing, StepsLeft, Unseen
<1>4. CASE ClosePeripheralsAndHandlers
  BY <1>4 DEF ClosePeripheralsAndHandlers, Failing, StepsLeft
<1>5. CASE Hub
  BY <1>5 DEF Hub, SendTimeData, Sent, NoSystemTime, NoSetup, SetupAzureClient, Work,
              DoWork, NoWork, Failing, StepsLeft
<1> QED
  BY <1>1, <1>2, <1>3, <1>4, <1>5, CheckEnds DEF Program, Loop

(* Once a signal or a failure has set exitCode, main does not come round   *)
(* to another EventLoop_Run: no handler puts success back, each step of    *)
(* the program leads to the end of main, and nobody else's leads away.     *)
FailureEnds == [][EndStep]_vars

(* That holds of main for every number of stored networks: at most eight   *)
(* steps are left.                                                         *)
THEOREM FailureEndsProgram == Spec => FailureEnds
<1>1. [Next]_vars => [EndStep]_vars
  BY EnvironmentWaits, ProgramEnds, StepsLeftRange DEF Next, EndStep
<1> QED
  BY <1>1, PTL DEF Spec, FailureEnds

(* The program ends with a failure, and with everything it had opened      *)
(* closed, unless it was called with the wrong number of arguments.        *)
ClosedAtEnd == pc = "ended" => exitCode # Success /\ (argc = 2 => open = {})

(* main closes what InitPeripheralsAndHandlers opened, however far it      *)
(* came.                                                                   *)
THEOREM NothingLeftOpen == Spec => []ClosedAtEnd
<1>1. Init => ClosedAtEnd
  BY DEF Init, ClosedAtEnd
<1>2. ClosedAtEnd /\ [Next]_vars => ClosedAtEnd'
  <2> SUFFICES ASSUME ClosedAtEnd, [Next]_vars PROVE ClosedAtEnd'
    OBVIOUS
  <2> USE CodesFail DEF ClosedAtEnd, Goto, FailTick, mainVars
  <2>1. CASE Environment
    BY <2>1 DEF Environment, StatusChange, AddNetwork, ForgetNetworks, Disconnect,
                TerminationHandler
  <2>2. CASE Start
    BY <2>2 DEF Start, InitPeripheralsAndHandlers, InitAssign, LedFail, Success
  <2>3. CASE Loop \/ TimerExpires
    BY <2>3 DEF Loop, LoopTest, Interrupted, RunFailed, ReceiveFails, Receive, DoWork,
                NoWork, TimerExpires
  <2>4. CASE Check
    BY <2>4 DEF Check, CheckFails, NoInterfaces, AllSeen, TickFails, Wlan0, Eth0, SetNetworks
  <2>5. CASE Hub
    BY <2>5 DEF Hub, SendTimeData, NoSystemTime, NoSetup, SetupAzureClient, Work,
                DoWork, NoWork
  <2>6. CASE ClosePeripheralsAndHandlers
    BY <2>6 DEF ClosePeripheralsAndHandlers
  <2>7. CASE UNCHANGED vars
    BY <2>7 DEF vars
  <2> QED
    BY <2>1, <2>2, <2>3, <2>4, <2>5, <2>6, <2>7 DEF Next, Program
<1> QED
  BY <1>1, <1>2, PTL DEF Spec
=============================================================================
