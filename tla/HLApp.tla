-------------------------------- MODULE HLApp --------------------------------
(***************************************************************************)
(* The high-level application on the A7: one thread with an event loop, a  *)
(* periodic timer, a socket to the M4's program and a client of the IoT    *)
(* hub, interrupted at any moment by the handler of SIGTERM.               *)
(*   src/Software/ASG210_HLApp_AzureIoT/main.c                             *)
(*   src/Software/ASG210_HLApp_AzureIoT/eventloop_timer_utilities.c        *)
(*                                                                         *)
(* The operating system may change an interface's status, and the hub's    *)
(* client may lose its connection, between any two calls; any call may     *)
(* fail.  CheckNetworkReady does not return a value when all went well, so *)
(* its caller finds zero or not.  A client that could not be created       *)
(* leaves a null handle.  Light-emitting diodes, the time synchronisation  *)
(* setting and the device twin leave no trace in what is modelled.         *)
(***************************************************************************)
EXTENDS Integers, FiniteSets

CONSTANTS
  MaxNetworks   (* bound on the Wi-Fi networks stored on the device: 37    *)

ASSUME MaxNetworksAssumption == MaxNetworks \in Nat

VARIABLES
  (* the operating system *)
  status,              (* what an interface's connection status amounts to *)
  stored,              (* number of stored Wi-Fi networks, numbered from 0 *)
  enabled,             (* those of them that are enabled                   *)
  (* the hub's client *)
  handle,              (* iothubClientHandle                               *)
  link,                (* the client's connection                          *)
  registered,          (* HubConnectionStatusCallback is registered        *)
  (* the program *)
  pc, exitCode,
  result,              (* what the function being called returned          *)
  open,                (* descriptors and registrations it holds           *)
  iothubAuthenticated, azureIoTPollPeriodSeconds,
  ethernet_connected, wifi_connected, storedNetworkCnt,
  interfaces,          (* those CheckNetworkReady has not yet looked at    *)
  argc

osVars == <<status, stored, enabled>>
clientVars == <<handle, link, registered>>
hubVars == <<clientVars, iothubAuthenticated, azureIoTPollPeriodSeconds>>
netVars == <<ethernet_connected, wifi_connected, storedNetworkCnt, interfaces>>
mainVars == <<result, open, argc>>
vars == <<osVars, hubVars, netVars, mainVars, pc, exitCode>>

Interfaces == {"eth0", "wlan0"}

(* 0x01, 0x0f, and everything else: what the program tells apart.          *)
Statuses == [eth0 |-> {"internet", "other"}, wlan0 |-> {"up", "internet", "other"}]

AllStatuses == {s \in [Interfaces -> {"up", "internet", "other"}] :
                  \A i \in Interfaces : s[i] \in Statuses[i]}

Success == 0
SigTerm == 1
EventLoopFail == 2
AzureTimerConsume == 4
InitEventLoop == 5
InitAzureTimer == 8
SendMsg == 16
SocketHandlerRecv == 17
LedFail == -1
ExitCodes == {0, 1, 2, 4, 5, 8, 16, 17, -1}

AzureIoTDefaultPollPeriodSeconds == 10
AzureIoTMinReconnectPeriodSeconds == 10
AzureIoTMaxReconnectPeriodSeconds == 600

Networks == 0 .. (stored - 1)

Init ==
  /\ status \in AllStatuses
  /\ stored \in 0 .. MaxNetworks
  /\ enabled \in SUBSET Networks
  /\ handle = "null" /\ link = "none" /\ registered = FALSE
  /\ pc = "init" /\ exitCode = Success /\ result = Success
  /\ open = {}
  /\ iothubAuthenticated = FALSE
  /\ azureIoTPollPeriodSeconds = -1
  /\ ethernet_connected = FALSE /\ wifi_connected = FALSE
  /\ storedNetworkCnt = 0
  /\ interfaces = {}
  /\ argc \in {1, 2}

-----------------------------------------------------------------------------
(***************************************************************************)
(* The operating system, the user and the network, as long as the program  *)
(* asks after them.                                                        *)
(***************************************************************************)
StatusChange(i) ==
  /\ pc # "ended"
  /\ \E s \in Statuses[i] \ {status[i]} :
        /\ i = "wlan0" /\ s = "internet" => enabled # {}
        /\ status' = [status EXCEPT ![i] = s]
  /\ UNCHANGED <<stored, enabled, hubVars, netVars, mainVars, pc, exitCode>>

AddNetwork ==
  /\ pc # "ended" /\ stored < MaxNetworks
  /\ stored' = stored + 1
  /\ enabled' = enabled \union {stored}
  /\ UNCHANGED <<status, hubVars, netVars, mainVars, pc, exitCode>>

ForgetNetworks ==
  /\ pc # "ended" /\ stored > 0
  /\ stored' = 0 /\ enabled' = {}
  /\ UNCHANGED <<status, hubVars, netVars, mainVars, pc, exitCode>>

(* The token expires, or the hub or the network goes away.                 *)
Disconnect ==
  /\ pc # "ended" /\ link \in {"new", "up"}
  /\ link' = "lost"
  /\ UNCHANGED <<osVars, handle, registered, iothubAuthenticated,
                 azureIoTPollPeriodSeconds, netVars, mainVars, pc, exitCode>>

TerminationHandler ==
  /\ pc # "ended"
  /\ exitCode' = SigTerm
  /\ UNCHANGED <<osVars, hubVars, netVars, mainVars, pc>>

-----------------------------------------------------------------------------
(***************************************************************************)
(* main and the initialisation.                                            *)
(***************************************************************************)
Goto(from, to) == pc = from /\ pc' = to

(* What there is when InitPeripheralsAndHandlers returns, and what it      *)
(* returns: the result of InitApplicationSocket is not looked at.          *)
Leds == {"led1", "led2", "led3", "led4", "led5"}
Initialised ==
  {<<{}, InitEventLoop>>,
   <<{"loop"}, LedFail>>,
   <<{"loop"} \union (Leds \ {"led5"}), LedFail>>,
   <<{"loop"} \union Leds, InitAzureTimer>>}
  \union {<<{"loop", "timer"} \union Leds \union s, Success>> :
            s \in {{}, {"socket"}, {"socket", "event"}}}

InitPeripheralsAndHandlers ==
  /\ Goto("init", "assign")
  /\ \E r \in Initialised :
        /\ open' = r[1]
        /\ result' = r[2]
        /\ azureIoTPollPeriodSeconds' =
             IF Leds \subseteq r[1] THEN AzureIoTDefaultPollPeriodSeconds ELSE -1
  /\ UNCHANGED <<osVars, clientVars, iothubAuthenticated, netVars, argc, exitCode>>

(* exitCode = InitPeripheralsAndHandlers(), whatever a signal has put in   *)
(* exitCode meanwhile.  The interfaces are then enabled if that succeeds.  *)
InitAssign ==
  /\ Goto("assign", IF argc = 2 THEN "loop" ELSE "ended")
  /\ exitCode' = IF argc = 2 THEN result ELSE -1
  /\ result' = Success
  /\ UNCHANGED <<osVars, hubVars, netVars, open, argc>>

(* The while loop of main, and EventLoop_Run, which a signal interrupts    *)
(* unless it came just before the call.                                    *)
LoopTest ==
  /\ Goto("loop", "wait")
  /\ exitCode = Success
  /\ UNCHANGED <<osVars, hubVars, netVars, mainVars, exitCode>>

Interrupted ==
  /\ exitCode = SigTerm
  /\ Goto("wait", "loop")
  /\ UNCHANGED <<osVars, hubVars, netVars, mainVars, exitCode>>

RunFailed ==
  /\ Goto("wait", "loop")
  /\ exitCode' = EventLoopFail
  /\ UNCHANGED <<osVars, hubVars, netVars, mainVars>>

ClosePeripheralsAndHandlers ==
  /\ Goto("loop", "ended")
  /\ exitCode # Success
  /\ open' = {}
  /\ UNCHANGED <<osVars, hubVars, netVars, result, argc, exitCode>>

-----------------------------------------------------------------------------
(***************************************************************************)
(* AzureTimerEventHandler: first CheckNetworkReady.                        *)
(***************************************************************************)
FailTick ==
  /\ exitCode' = AzureTimerConsume
  /\ pc' = "loop"

(* OutputStoredWifiNetworks keeps the old count when no network is left.   *)
TimerExpires ==
  /\ Goto("wait", "interfaces")
  /\ interfaces' = Interfaces
  /\ storedNetworkCnt' = IF stored = 0 THEN storedNetworkCnt ELSE stored
  /\ \E isConnected \in BOOLEAN :
        /\ isConnected => enabled # {} /\ status["wlan0"] # "up"
        /\ wifi_connected' = (wifi_connected \/ isConnected)
  /\ UNCHANGED <<osVars, hubVars, ethernet_connected, mainVars, exitCode>>

(* One of its queries fails.                                               *)
CheckFails ==
  /\ pc = "interfaces" /\ FailTick
  /\ UNCHANGED <<osVars, hubVars, netVars, mainVars>>

(* Networking_GetInterfaces fails: no interface is looked at.              *)
NoInterfaces ==
  /\ Goto("interfaces", "checked")
  /\ interfaces = Interfaces
  /\ interfaces' = {}
  /\ UNCHANGED <<osVars, hubVars, ethernet_connected, wifi_connected,
                 storedNetworkCnt, mainVars, exitCode>>

(* Mutant: the loop goes on to storedNetworkCnt.                           *)
SwitchedOneMore(n, on) == IF on THEN enabled \union 0 .. n ELSE enabled \ (0 .. n)

(* WifiConfig_SetNetworkEnabled for the numbers below storedNetworkCnt: it *)
(* fails for a number that is not stored, and may fail for any other.  The *)
(* exit code of this failure gives way to the caller's.                    *)
Switched(n, on) == IF on THEN enabled \union 0 .. (n - 1) ELSE enabled \ (0 .. (n - 1))

SetNetworks(on) ==
  \/ /\ storedNetworkCnt =< stored
     /\ enabled' = Switched(storedNetworkCnt, on)
     /\ UNCHANGED <<pc, exitCode>>
  \/ /\ \E n \in 0 .. (storedNetworkCnt - 1) : n =< stored /\ enabled' = Switched(n, on)
     /\ FailTick

Wlan0 ==
  /\ pc = "interfaces" /\ "wlan0" \in interfaces
  /\ interfaces' = interfaces \ {"wlan0"}
  /\ wifi_connected' = (status["wlan0"] = "internet")
  /\ \/ status["wlan0"] = "up" /\ ~ethernet_connected /\ SetNetworks(TRUE)
     \/ status["wlan0"] = "internet" /\ ethernet_connected /\ SetNetworks(FALSE)
     \/ /\ status["wlan0"] = "up" => ethernet_connected
        /\ status["wlan0"] = "internet" => ~ethernet_connected
        /\ UNCHANGED <<enabled, pc, exitCode>>
  /\ UNCHANGED <<status, stored, hubVars, ethernet_connected, storedNetworkCnt,
                 mainVars>>

(* Mutant: that the cable is pulled is not noted.                          *)
EthLinkedForGood == ethernet_connected \/ status["eth0"] = "internet"
EthLinked == status["eth0"] = "internet"

Eth0 ==
  /\ pc = "interfaces" /\ "eth0" \in interfaces
  /\ interfaces' = interfaces \ {"eth0"}
  /\ ethernet_connected' = EthLinked
  /\ \/ status["eth0"] = "internet" /\ wifi_connected /\ SetNetworks(FALSE)
     \/ /\ status["eth0"] = "internet" => ~wifi_connected
        /\ UNCHANGED <<enabled, pc, exitCode>>
  /\ UNCHANGED <<status, stored, hubVars, wifi_connected, storedNetworkCnt,
                 mainVars>>

AllSeen ==
  /\ Goto("interfaces", "checked")
  /\ interfaces = {}
  /\ UNCHANGED <<osVars, hubVars, netVars, mainVars, exitCode>>

(* CheckNetworkReady has returned what it found in a register; or          *)
(* ConsumeEventLoopTimerEvent fails.                                       *)
TickFails ==
  /\ pc = "checked" /\ FailTick
  /\ UNCHANGED <<osVars, hubVars, netVars, mainVars>>

-----------------------------------------------------------------------------
(***************************************************************************)
(* AzureTimerEventHandler: the time for the M4's program, and the hub.     *)
(***************************************************************************)
(* Mutant: a message that is sent clears the exit code.                    *)
SentCleared == "socket" \in open /\ exitCode' = Success
Sent == "socket" \in open /\ exitCode' = exitCode

(* Nothing is sent when clock_gettime fails.                               *)
SendTimeData ==
  /\ Goto("checked", "setup")
  /\ Sent \/ exitCode' = SendMsg
  /\ UNCHANGED <<osVars, hubVars, netVars, mainVars>>

NoSystemTime ==
  /\ Goto("checked", "setup")
  /\ UNCHANGED <<osVars, hubVars, netVars, mainVars, exitCode>>

isNetworkReady == \E i \in Interfaces : status[i] = "internet"

(* There is nothing to set up, or Networking_IsNetworkingReady fails.      *)
NoSetup ==
  /\ Goto("setup", "work")
  /\ UNCHANGED <<osVars, hubVars, netVars, mainVars, exitCode>>

(* SetupAzureClient, which destroys the client there was.                  *)
DoublePeriod == IF 2 * azureIoTPollPeriodSeconds > AzureIoTMaxReconnectPeriodSeconds
                THEN AzureIoTMaxReconnectPeriodSeconds
                ELSE 2 * azureIoTPollPeriodSeconds

NextPeriod == IF azureIoTPollPeriodSeconds = AzureIoTDefaultPollPeriodSeconds
              THEN AzureIoTMinReconnectPeriodSeconds ELSE DoublePeriod

(* Mutant: the client is marked before it is known to be there.            *)
ClientNotCreatedMarked ==
  /\ handle' = "null" /\ link' = "none" /\ registered' = FALSE
  /\ azureIoTPollPeriodSeconds' = NextPeriod
  /\ iothubAuthenticated' = TRUE

ClientNotCreated ==
  /\ handle' = "null" /\ link' = "none" /\ registered' = FALSE
  /\ azureIoTPollPeriodSeconds' = NextPeriod
  /\ UNCHANGED iothubAuthenticated

(* An option or a callback that cannot be set leaves the client without    *)
(* HubConnectionStatusCallback, and marked authenticated.                  *)
ClientCreated ==
  /\ handle' = "live" /\ link' = "new"
  /\ azureIoTPollPeriodSeconds' = AzureIoTDefaultPollPeriodSeconds
  /\ iothubAuthenticated' = TRUE
  /\ registered' \in BOOLEAN

SetupAzureClient ==
  /\ Goto("setup", "work")
  /\ isNetworkReady /\ ~iothubAuthenticated
  /\ ClientNotCreated \/ ClientCreated
  /\ UNCHANGED <<osVars, netVars, mainVars, exitCode>>

(* IoTHubDeviceClient_LL_DoWork: the library connects, or recovers a lost  *)
(* connection, or tells HubConnectionStatusCallback of the loss, or has    *)
(* nothing to say yet.                                                     *)
Connects ==
  /\ link \in {"new", "lost"}
  /\ link' = "up"
  /\ UNCHANGED iothubAuthenticated

(* Mutant: only a new connection is noted.                                 *)
HubConnectionStatusCallbackDeaf ==
  /\ registered /\ link = "lost"
  /\ UNCHANGED <<link, iothubAuthenticated>>

HubConnectionStatusCallback ==
  /\ registered /\ link = "lost"
  /\ iothubAuthenticated' = FALSE
  /\ UNCHANGED link

DoWork(from, to) ==
  /\ Goto(from, to)
  /\ iothubAuthenticated
  /\ Connects \/ HubConnectionStatusCallback \/ UNCHANGED <<link, iothubAuthenticated>>
  /\ UNCHANGED <<osVars, handle, registered, azureIoTPollPeriodSeconds, netVars,
                 mainVars, exitCode>>

NoWork(from, to) ==
  /\ Goto(from, to)
  /\ ~iothubAuthenticated
  /\ UNCHANGED <<osVars, hubVars, netVars, mainVars, exitCode>>

(* The handler's two calls, with only the LEDs between them, amount to one.*)
Work == DoWork("work", "loop") \/ NoWork("work", "loop")

-----------------------------------------------------------------------------
(***************************************************************************)
(* AppSocketEventHandler: a message of the M4's program goes to the hub.   *)
(***************************************************************************)
Registered == {"socket", "event"} \subseteq open

ReceiveFails ==
  /\ Goto("wait", "loop")
  /\ Registered
  /\ exitCode' = SocketHandlerRecv
  /\ UNCHANGED <<osVars, hubVars, netVars, mainVars>>

Receive ==
  /\ Registered
  /\ DoWork("wait", "loop") \/ NoWork("wait", "loop")

-----------------------------------------------------------------------------
Start == InitPeripheralsAndHandlers \/ InitAssign
Loop == LoopTest \/ Interrupted \/ RunFailed \/ ReceiveFails \/ Receive
Check == CheckFails \/ NoInterfaces \/ Wlan0 \/ Eth0 \/ AllSeen \/ TickFails
Hub == SendTimeData \/ NoSystemTime \/ NoSetup \/ SetupAzureClient \/ Work
Environment ==
  \/ \E i \in Interfaces : StatusChange(i)
  \/ AddNetwork \/ ForgetNetworks \/ Disconnect \/ TerminationHandler

Program == Start \/ Loop \/ TimerExpires \/ Check \/ Hub \/ ClosePeripheralsAndHandlers

Next == Program \/ Environment

Spec == Init /\ [][Next]_vars

(* The program runs; what it waits for in EventLoop_Run may only be the    *)
(* timer, which is periodic and which the event loop serves however many   *)
(* messages come.  Networking_GetInterfaces and Networking_IsNetworkingReady*)
(* do not fail for ever, and neither does the library miss for ever that   *)
(* its connection is lost: the keep-alive of twenty seconds finds it out.  *)
LossTold == HubConnectionStatusCallback /\ Work

Fairness ==
  /\ WF_vars(Start \/ LoopTest \/ Check \/ Hub \/ ClosePeripheralsAndHandlers)
  /\ SF_vars(TimerExpires)
  /\ SF_vars(Wlan0 \/ Eth0)
  /\ SF_vars(SetupAzureClient) /\ SF_vars(LossTold)

FairSpec == Spec /\ Fairness

-----------------------------------------------------------------------------
(* Every variable has its type; the period the timer is given after an     *)
(* attempt to reach the hub is never more than ten minutes.                *)
TypeOK ==
  /\ status \in AllStatuses
  /\ stored \in 0 .. MaxNetworks /\ enabled \subseteq Networks
  /\ handle \in {"null", "live"} /\ link \in {"none", "new", "up", "lost"}
  /\ registered \in BOOLEAN
  /\ pc \in {"init", "assign", "loop", "wait", "interfaces", "checked",
             "setup", "work", "ended"}
  /\ exitCode \in ExitCodes /\ result \in ExitCodes
  /\ open \subseteq Leds \union {"loop", "timer", "socket", "event"}
  /\ iothubAuthenticated \in BOOLEAN
  /\ azureIoTPollPeriodSeconds \in -1 .. AzureIoTMaxReconnectPeriodSeconds
  /\ ethernet_connected \in BOOLEAN /\ wifi_connected \in BOOLEAN
  /\ storedNetworkCnt \in 0 .. MaxNetworks
  /\ interfaces \subseteq Interfaces
  /\ argc \in {1, 2}

(* Whenever the program takes the hub for reached there is a client to     *)
(* work with, whatever failed while it was set up and whichever connection *)
(* was lost: IoTHubDeviceClient_LL_DoWork never gets a null or a destroyed *)
(* handle.  And a client that tells of its connection is in place whenever *)
(* the program has given up a connection and not yet tried again.          *)
ClientSound ==
  /\ iothubAuthenticated => handle = "live"
  /\ handle = "live" => link # "none"
  /\ handle = "live" /\ ~iothubAuthenticated => registered

(* A SIGTERM after the initialisation, or a failure anywhere, ends the     *)
(* program through ClosePeripheralsAndHandlers, wherever in a handler it   *)
(* comes and whichever code is then written over its own.                  *)
SigtermEnds ==
  (exitCode # Success /\ pc \notin {"init", "assign", "ended"})
    ~> (pc = "ended" /\ open = {})

(* When the connection of a client whose HubConnectionStatusCallback is    *)
(* registered is lost while the network is there, the library recovers it  *)
(* or the program makes another client.                                    *)
LostConnection ==
  (registered /\ link = "lost") ~> (link # "lost" \/ ~isNetworkReady \/ pc = "ended")

(* From some moment on every stored network is enabled, once the Ethernet  *)
(* stays without internet and the Wi-Fi interface without a network; and   *)
(* while the Ethernet stays on the internet, the Wi-Fi does not stay there *)
(* too with a network enabled.  The order in which the interfaces are      *)
(* looked at, and the flags and the count of an earlier tick, only delay   *)
(* it: cables come and go, and networks are stored and forgotten, before.  *)
Internet(i) == status[i] = "internet"

WifiFollowsEthernet ==
  /\ <>[](~Internet("eth0") /\ status["wlan0"] = "up")
       => <>[](pc = "ended" \/ enabled = Networks)
  /\ <>[]Internet("eth0")
       => []<>(pc = "ended" \/ enabled = {} \/ ~Internet("wlan0"))
=============================================================================
