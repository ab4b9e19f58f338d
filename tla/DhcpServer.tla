------------------------------ MODULE DhcpServer ------------------------------
(***************************************************************************)
(* The DHCP server of the private Ethernet network, with its clients.      *)
(*   src/Utils/WIZnet_Driver/ioLibrary_Driver/Internet/DHCP/dhcps.c        *)
(*                                                                         *)
(* The server is one state machine for all clients: which offer is         *)
(* outstanding, and to whom, is held in globals.  Datagrams wait in the    *)
(* W5500's receive buffer; each call of dhcps_run serves one.  An address  *)
(* is its host number in the server's /24 network, 0 stands for none, and  *)
(* Outside for all that the table has no bit for: other networks, and the  *)
(* host numbers 0 and above 128 of this one.                               *)
(*                                                                         *)
(* The clients, who are not part of this code, follow RFC 2131 and may ask *)
(* for any address; requests and replies may be lost.                      *)
(***************************************************************************)
EXTENDS Integers, Sequences, FiniteSetsExt

CONSTANTS
  Clients,      (* the hardware addresses of the clients                   *)
  NoClient,     (* the hardware address of all zeros                       *)
  MaxHost,      (* 128, the last host number in the table                  *)
  Reserved,     (* host numbers of the server and of the gateway           *)
  MaxInbox      (* bound on the datagrams waiting in the W5500             *)

ASSUME ClientsAssumption == NoClient \notin Clients
ASSUME HostsAssumption == MaxHost \in Nat /\ Reserved \subseteq 1 .. MaxHost - 1
ASSUME MaxInboxAssumption == MaxInbox \in Nat

Hosts == 1 .. MaxHost
Outside == MaxHost + 1
Rows == 0 .. MaxHost - 1        (* chaddr has 128 rows, numbered from 0 *)

VARIABLES
  dhcp_server_state_machine,      (* "IDLE" or "OFFER" between calls; *)
                                  (* "UNDEFINED" once memory that is *)
                                  (* not the table's was spoiled     *)
  dhcps_allocated_client_address,
  bound_client,                   (* bound_client_ethernet_address   *)
  client_request_ip,              (* the last option 50 of anybody   *)
  ip_range,                       (* the host numbers marked in use  *)
  chaddr,                         (* who each was last marked for    *)
  inbox,                          (* datagrams to the server         *)
  mail,                           (* the reply each client has to read *)
  cstate,                         (* the clients' RFC 2131 states    *)
  addr,                           (* the address each uses or wants  *)
  overlapped                      (* history: somebody has sent in   *)
                                  (* the middle of another client's  *)
                                  (* exchange                        *)

serverVars == <<dhcp_server_state_machine, dhcps_allocated_client_address,
                bound_client, client_request_ip, ip_range, chaddr>>
clientVars == <<cstate, addr, overlapped>>
vars == <<serverVars, inbox, mail, clientVars>>

NoMail == [type |-> "none", ip |-> 0]

Init ==
  /\ dhcp_server_state_machine = "IDLE"
  /\ dhcps_allocated_client_address = 0
  /\ bound_client = NoClient
  /\ client_request_ip = 0
  /\ ip_range = Reserved
  /\ chaddr = [i \in Rows |-> NoClient]
  /\ inbox = <<>>
  /\ mail = [c \in Clients |-> NoMail]
  /\ cstate = [c \in Clients |-> "init"]
  /\ addr = [c \in Clients |-> 0]
  /\ overlapped = FALSE

-----------------------------------------------------------------------------
(***************************************************************************)
(* The server.                                                             *)
(***************************************************************************)
(* The lowest row that holds c; 0, the answer for none, is never a row of  *)
(* a client.                                                               *)
search_mac(c) ==
  LET rows == {i \in Rows : chaddr[i] = c}
  IN  IF rows = {} THEN 0 ELSE Min(rows)

Free(h) == h \in Hosts /\ h \notin ip_range

(* Mutant: the search runs one past the end of the table. *)
search_next_ip_past_end ==
  LET free == {h \in 1 .. MaxHost + 1 : h \notin ip_range}
  IN  IF free = {} THEN 0 ELSE Min(free)

search_next_ip ==
  LET free == {h \in Hosts : Free(h)} IN IF free = {} THEN 0 ELSE Min(free)

(* Option 50, whatever it names, is kept until a message brings another.   *)
RequestIp(m) == IF m.ip # 0 THEN m.ip ELSE client_request_ip

(* The bit, and the row.  There is none for the last host number: c is     *)
(* then written behind the table, over whatever the linker put there.      *)
mark_ip_in_table(h, c) ==
  /\ ip_range' = ip_range \union ({h} \intersect Hosts)
  /\ chaddr' = [i \in Rows |-> IF i = h THEN c ELSE chaddr[i]]

(* unmark_ip_in_table inverts the bit.                                     *)
unmark_ip_in_table(c) ==
  LET h == search_mac(c)
  IN  /\ ip_range' = IF h = 0 THEN ip_range
                     ELSE (ip_range \ {h}) \union ({h} \ ip_range)
      /\ chaddr' = chaddr

(* Client c was the last to be offered or granted an address, namely h.    *)
OfferedLast(c, h) ==
  dhcps_allocated_client_address = h /\ h # 0 /\ bound_client = c

(* The address dhcps_send_offer picks for client c that asked for req.     *)
OfferedHost(c, req) ==
  CASE OfferedLast(c, req) \/ Free(req) -> req
    [] OTHER -> IF search_mac(c) # 0 THEN search_mac(c) ELSE search_next_ip

Reply(c, type, h) == mail' = [mail EXCEPT ![c] = [type |-> type, ip |-> h]]

(* One call of dhcps_run with message m at hand.                           *)
Serve(m, type) ==
  /\ dhcp_server_state_machine # "UNDEFINED"
  /\ inbox # <<>>
  /\ m = Head(inbox)
  /\ m.type = type
  /\ inbox' = Tail(inbox)
  /\ client_request_ip' = RequestIp(m)
  /\ UNCHANGED clientVars

dhcps_send_offer(m) ==
  LET h == OfferedHost(m.from, RequestIp(m)) IN
  /\ dhcp_server_state_machine' = "OFFER"
  /\ dhcps_allocated_client_address' = h
  /\ bound_client' = m.from
  /\ Reply(m.from, "offer", h)
  /\ UNCHANGED <<ip_range, chaddr>>

ServeDiscover ==
  \E m \in {inbox[i] : i \in DOMAIN inbox} :
    Serve(m, "discover") /\ dhcps_send_offer(m)

(* A type the state machine does not know leaves the state alone, and the  *)
(* state alone decides on the answer.                                      *)
ServeOther ==
  \E m \in {inbox[i] : i \in DOMAIN inbox} :
    /\ Serve(m, "inform")
    /\ \/ /\ dhcp_server_state_machine = "OFFER"
          /\ dhcps_send_offer(m)
       \/ /\ dhcp_server_state_machine = "IDLE"
          /\ UNCHANGED <<dhcp_server_state_machine, dhcps_allocated_client_address,
                         bound_client, ip_range, chaddr, mail>>

(* In state OFFER whoever asks for the address on offer gets it.           *)
OfferAccepted(req) ==
  /\ dhcp_server_state_machine = "OFFER"
  /\ dhcps_allocated_client_address # 0
  /\ dhcps_allocated_client_address = req

(* Mutant: the hardware address is not compared. *)
AnyClientAgain(c, req) ==
  /\ dhcp_server_state_machine = "IDLE"
  /\ dhcps_allocated_client_address = req /\ req # 0

(* In state IDLE the client served last may have its address again, and    *)
(* anybody a free one.                                                     *)
SameClientAgain(c, req) ==
  dhcp_server_state_machine = "IDLE" /\ OfferedLast(c, req)

(* Mutant: the mark of the address asked for is not looked at. *)
AnyAddressAsked(c, req) ==
  /\ dhcp_server_state_machine = "IDLE"
  /\ ~SameClientAgain(c, req)
  /\ req \in Hosts

FreeAddressAsked(c, req) ==
  /\ dhcp_server_state_machine = "IDLE"
  /\ ~SameClientAgain(c, req)
  /\ Free(req)

(* What was written behind the table may be of no consequence; if it is,   *)
(* no more is said of the server.                                          *)
dhcps_send_ack(c, h) ==
  /\ Reply(c, "ack", h)
  /\ mark_ip_in_table(h, c)
  /\ \/ dhcp_server_state_machine' = "IDLE"
     \/ h \notin Rows /\ dhcp_server_state_machine' = "UNDEFINED"

ServeRequestAck ==
  \E m \in {inbox[i] : i \in DOMAIN inbox} :
    /\ Serve(m, "request")
    /\ \/ /\ OfferAccepted(RequestIp(m)) \/ SameClientAgain(m.from, RequestIp(m))
          /\ UNCHANGED <<dhcps_allocated_client_address, bound_client>>
       \/ /\ FreeAddressAsked(m.from, RequestIp(m))
          /\ dhcps_allocated_client_address' = RequestIp(m)
          /\ bound_client' = m.from
    /\ dhcps_send_ack(m.from, dhcps_allocated_client_address')

ServeRequestNak ==
  \E m \in {inbox[i] : i \in DOMAIN inbox} :
    /\ Serve(m, "request")
    /\ ~OfferAccepted(RequestIp(m))
    /\ ~SameClientAgain(m.from, RequestIp(m))
    /\ ~FreeAddressAsked(m.from, RequestIp(m))
    /\ Reply(m.from, "nak", 0)
    /\ dhcp_server_state_machine' = "IDLE"
    /\ UNCHANGED <<dhcps_allocated_client_address, bound_client, ip_range, chaddr>>

ServeRelease ==
  \E m \in {inbox[i] : i \in DOMAIN inbox} :
    /\ Serve(m, "release")
    /\ unmark_ip_in_table(m.from)
    /\ dhcp_server_state_machine' = "IDLE"
    /\ UNCHANGED <<dhcps_allocated_client_address, bound_client, mail>>

ServeDecline ==
  \E m \in {inbox[i] : i \in DOMAIN inbox} :
    /\ Serve(m, "decline")
    /\ dhcp_server_state_machine' = "IDLE"
    /\ UNCHANGED <<dhcps_allocated_client_address, bound_client, ip_range, chaddr, mail>>

dhcps_run ==
  \/ ServeDiscover \/ ServeOther \/ ServeRequestAck \/ ServeRequestNak
  \/ ServeRelease \/ ServeDecline

-----------------------------------------------------------------------------
(***************************************************************************)
(* The clients.  A client sends when nothing it sent before still waits at *)
(* the server; what it hears of an earlier exchange it ignores.            *)
(***************************************************************************)
Resting == {"init", "bound"}

MaySend(c) ==
  /\ Len(inbox) < MaxInbox
  /\ \A i \in DOMAIN inbox : inbox[i].from # c

Alone(c) == inbox = <<>> /\ \A d \in Clients \ {c} : cstate[d] \in Resting

Send(c, type, h) ==
  /\ MaySend(c)
  /\ overlapped' = (overlapped \/ ~Alone(c))
  /\ inbox' = Append(inbox, [type |-> type, from |-> c, ip |-> h])
  /\ mail' = [mail EXCEPT ![c] = NoMail]
  /\ UNCHANGED serverVars

GoTo(c, s, h) ==
  /\ cstate' = [cstate EXCEPT ![c] = s]
  /\ addr' = [addr EXCEPT ![c] = h]

Discover(c) ==
  /\ cstate[c] \in {"init", "selecting"}
  /\ \E h \in 0 .. Outside : Send(c, "discover", h)
  /\ GoTo(c, "selecting", 0)

TakeOffer(c) ==
  /\ cstate[c] = "selecting"
  /\ mail[c].type = "offer" /\ mail[c].ip # 0
  /\ Send(c, "request", mail[c].ip)
  /\ GoTo(c, "requesting", mail[c].ip)

RequestAgain(c) ==
  /\ cstate[c] = "requesting"
  /\ Send(c, "request", addr[c])
  /\ GoTo(c, "requesting", addr[c])

(* A client that remembers an address, from this network or another, asks  *)
(* for it without an offer.                                                *)
Reboot(c) ==
  /\ cstate[c] = "init"
  /\ \E h \in 1 .. Outside :
       Send(c, "request", h) /\ GoTo(c, "requesting", h)

(* A renewal names its address in ciaddr, not in option 50.                *)
Renew(c) ==
  /\ cstate[c] \in {"bound", "renewing"}
  /\ Send(c, "request", 0)
  /\ GoTo(c, "renewing", addr[c])

TakeAck(c) ==
  /\ cstate[c] \in {"requesting", "renewing"}
  /\ mail[c].type = "ack"
  /\ mail' = [mail EXCEPT ![c] = NoMail]
  /\ GoTo(c, "bound", mail[c].ip)
  /\ UNCHANGED <<serverVars, inbox, overlapped>>

TakeNak(c) ==
  /\ cstate[c] \in {"requesting", "renewing"}
  /\ mail[c].type = "nak"
  /\ mail' = [mail EXCEPT ![c] = NoMail]
  /\ GoTo(c, "init", 0)
  /\ UNCHANGED <<serverVars, inbox, overlapped>>

(* A release, or one repeated.                                             *)
Release(c) ==
  /\ cstate[c] \in {"bound", "init"}
  /\ Send(c, "release", 0)
  /\ GoTo(c, "init", 0)

(* The client finds its new address in use.                                *)
Decline(c) ==
  /\ cstate[c] = "bound"
  /\ Send(c, "decline", addr[c])
  /\ GoTo(c, "init", 0)

Inform(c) ==
  /\ cstate[c] = "bound"
  /\ Send(c, "inform", 0)
  /\ UNCHANGED <<cstate, addr>>

LoseRequest ==
  /\ inbox # <<>>
  /\ inbox' = Tail(inbox)
  /\ UNCHANGED <<serverVars, mail, clientVars>>

LoseReply(c) ==
  /\ mail[c] # NoMail
  /\ mail' = [mail EXCEPT ![c] = NoMail]
  /\ UNCHANGED <<serverVars, inbox, clientVars>>

Client(c) ==
  \/ Discover(c) \/ TakeOffer(c) \/ RequestAgain(c) \/ Reboot(c) \/ Renew(c)
  \/ TakeAck(c) \/ TakeNak(c) \/ Release(c) \/ Decline(c) \/ Inform(c)
  \/ LoseReply(c)

Next == dhcps_run \/ LoseRequest \/ \E c \in Clients : Client(c)

Spec == Init /\ [][Next]_vars

-----------------------------------------------------------------------------
(* Every variable has a value of its type. *)
TypeOK ==
  /\ dhcp_server_state_machine \in {"IDLE", "OFFER", "UNDEFINED"}
  /\ dhcps_allocated_client_address \in 0 .. MaxHost
  /\ bound_client \in Clients \union {NoClient}
  /\ client_request_ip \in 0 .. Outside
  /\ ip_range \subseteq Hosts
  /\ chaddr \in [Rows -> Clients \union {NoClient}]
  /\ inbox \in Seq([type : {"discover", "request", "release", "decline", "inform"},
                    from : Clients, ip : 0 .. Outside])
  /\ mail \in [Clients -> [type : {"none", "offer", "ack", "nak"}, ip : 0 .. MaxHost]]
  /\ cstate \in [Clients -> {"init", "selecting", "requesting", "renewing", "bound"}]
  /\ addr \in [Clients -> 0 .. Outside]
  /\ overlapped \in BOOLEAN

Holds(c, h) == cstate[c] \in {"bound", "renewing"} /\ addr[c] = h

(* The server's own address and the gateway's are never offered, granted   *)
(* or freed, though clients ask for them, with an offer out or without,    *)
(* with option 50 or with that of an earlier message: nor does any RELEASE *)
(* invert their bits, because no row of theirs ever becomes a client's.    *)
ReservedNeverLeased ==
  /\ Reserved \subseteq ip_range
  /\ dhcps_allocated_client_address \notin Reserved
  /\ \A c \in Clients : \A h \in Reserved : mail[c].ip # h /\ ~Holds(c, h)

(* No two clients hold the same address.                                   *)
NoDuplicateLease ==
  \A c, d \in Clients : \A h \in Hosts : Holds(c, h) /\ Holds(d, h) => c = d

(* An address in use is marked in the table, so search_next_ip will not    *)
(* give it away.                                                           *)
HeldIsMarked == \A c \in Clients : \A h \in Hosts : Holds(c, h) => h \in ip_range

(* As long as the clients come one after the other, no address is held     *)
(* twice and every one held is marked - whatever they request, release,    *)
(* decline, lose or repeat: the bit a RELEASE inverts is never somebody    *)
(* else's, and a request without option 50 never grants what is in use.    *)
LeasesSound == ~overlapped => NoDuplicateLease /\ HeldIsMarked
=============================================================================
