-------------------------- MODULE DhcpServer_proofs ---------------------------
(***************************************************************************)
(* Proofs about DhcpServer, for any number of clients, every size of the   *)
(* table and whatever host numbers are reserved.                           *)
(***************************************************************************)
EXTENDS DhcpServer, WellFoundedInduction, TLAPS

(***************************************************************************)
(* The inductive invariant.  ReservedNeverLeased speaks of the marks, but  *)
(* a RELEASE inverts the mark of the row that holds the client's address:  *)
(* that this is never a reserved row has to be kept along with it.         *)
(***************************************************************************)
RowsInv == \A i \in Rows : chaddr[i] \in Clients => i \notin Reserved

IInv == TypeOK /\ RowsInv /\ ReservedNeverLeased

Message == [type : {"discover", "request", "release", "decline", "inform"},
            from : Clients, ip : 0 .. Outside]

Mail == [type : {"none", "offer", "ack", "nak"}, ip : 0 .. MaxHost]

(* A host number the server may hand out, or 0 for none.                   *)
Grantable == (0 .. MaxHost) \ Reserved

-----------------------------------------------------------------------------
(* A set of natural numbers that is not empty has a minimum.               *)
LEMMA MinIsMember ==
  ASSUME NEW S \in SUBSET Nat, S # {}
  PROVE  Min(S) \in S
<1> DEFINE R == OpToRel(<, Nat)
<1>1. IsWellFoundedOn(R, Nat)
  BY NatLessThanWellFounded
<1>2. \A x, y \in Nat : y < x => <<y, x>> \in R
  BY DEF OpToRel
<1> HIDE DEF R
<1>3. PICK x \in S : \A y \in S : ~(<<y, x>> \in R)
  BY <1>1, WFMin
<1>4. ASSUME NEW y \in S PROVE x =< y
  <2>1. x \in Nat /\ y \in Nat
    OBVIOUS
  <2>2. ~(y < x)
    BY <1>2, <1>3, <2>1, Zenon
  <2> QED
    BY <2>1, <2>2
<1> QED
  BY <1>4 DEF Min

(* search_mac answers with a row that is the client's, and so none that is *)
(* reserved, or with 0.                                                    *)
LEMMA SearchMac ==
  ASSUME IInv, NEW c \in Clients
  PROVE  search_mac(c) \in Rows \union {0} /\ search_mac(c) \in Grantable
<1> DEFINE rows == {i \in Rows : chaddr[i] = c}
<1> USE HostsAssumption
<1>1. CASE rows = {}
  BY <1>1 DEF search_mac, Grantable
<1>2. CASE rows # {}
  <2>1. rows \in SUBSET Nat
    BY DEF Rows
  <2>2. Min(rows) \in rows
    BY <1>2, <2>1, MinIsMember
  <2>3. search_mac(c) = Min(rows)
    BY <1>2 DEF search_mac
  <2> QED
    BY <2>2, <2>3 DEF Rows, Grantable, IInv, RowsInv
<1> QED
  BY <1>1, <1>2

(* search_next_ip answers with a number that is not marked, or with 0.     *)
LEMMA SearchNextIp ==
  ASSUME IInv
  PROVE  search_next_ip \in Grantable
<1> DEFINE free == {h \in Hosts : Free(h)}
<1> USE HostsAssumption
<1>1. CASE free = {}
  BY <1>1 DEF search_next_ip, Grantable
<1>2. CASE free # {}
  <2>1. free \in SUBSET Nat
    BY DEF Hosts
  <2>2. Min(free) \in free
    BY <1>2, <2>1, MinIsMember
  <2>3. search_next_ip = Min(free)
    BY <1>2 DEF search_next_ip
  <2> QED
    BY <2>2, <2>3 DEF Free, Hosts, Grantable, IInv, ReservedNeverLeased
<1> QED
  BY <1>1, <1>2

(* What is free is not reserved.                                           *)
LEMMA FreeIsGrantable ==
  ASSUME IInv, NEW h, Free(h)
  PROVE  h \in Grantable
  BY HostsAssumption DEF Free, Hosts, Grantable, IInv, ReservedNeverLeased

(* What dhcps_send_offer offers is never a reserved number.                *)
LEMMA Offered ==
  ASSUME IInv, NEW c \in Clients, NEW req \in 0 .. Outside
  PROVE  OfferedHost(c, req) \in Grantable
<1>1. CASE OfferedLast(c, req)
  BY <1>1 DEF OfferedHost, OfferedLast, Grantable, IInv, TypeOK, ReservedNeverLeased
<1>2. CASE Free(req)
  BY <1>2, FreeIsGrantable DEF OfferedHost
<1>3. CASE ~OfferedLast(c, req) /\ ~Free(req)
  BY <1>3, SearchMac, SearchNextIp DEF OfferedHost
<1> QED
  BY <1>1, <1>2, <1>3

(* A message served is a message, and leaves the rest in the receive       *)
(* buffer.                                                                 *)
LEMMA Served ==
  ASSUME IInv, NEW m, NEW type, m \in {inbox[i] : i \in DOMAIN inbox}, Serve(m, type)
  PROVE  /\ m.from \in Clients /\ RequestIp(m) \in 0 .. Outside
         /\ inbox' \in Seq(Message)
         /\ client_request_ip' \in 0 .. Outside
<1>1. inbox \in Seq(Message) /\ client_request_ip \in 0 .. Outside
  BY DEF IInv, TypeOK, Message
<1>2. m \in Message
  <2> HIDE DEF Message
  <2> QED
    BY <1>1
<1>3. inbox' \in Seq(Message)
  <2> HIDE DEF Message
  <2> QED
    BY <1>1 DEF Serve
<1>4. m.from \in Clients /\ RequestIp(m) \in 0 .. Outside
  BY <1>1, <1>2 DEF Message, RequestIp
<1> QED
  BY <1>3, <1>4 DEF Serve

(* The reply the server sends leaves the mailboxes well typed, and free of *)
(* reserved numbers.                                                       *)
LEMMA Replied ==
  ASSUME IInv, NEW c \in Clients, NEW type \in {"offer", "ack", "nak"},
         NEW h \in Grantable, Reply(c, type, h)
  PROVE  mail' \in [Clients -> Mail] /\ \A d \in Clients : mail'[d].ip \notin Reserved
<1>1. mail \in [Clients -> Mail] /\ [type |-> type, ip |-> h] \in Mail
  BY DEF IInv, TypeOK, Mail, Grantable
<1>2. \A d \in Clients : mail'[d] = IF d = c THEN [type |-> type, ip |-> h] ELSE mail[d]
  BY <1>1 DEF Reply
<1>3. mail' \in [Clients -> Mail]
  BY <1>1 DEF Reply
<1>4. \A d \in Clients : mail'[d].ip \notin Reserved
  BY <1>2 DEF Grantable, IInv, ReservedNeverLeased
<1> QED
  BY <1>3, <1>4

-----------------------------------------------------------------------------
LEMMA InitInv == Init => IInv
<1> SUFFICES ASSUME Init PROVE IInv
  OBVIOUS
<1> USE ClientsAssumption, HostsAssumption DEF Init
<1>1. TypeOK
  <2>1. inbox \in Seq(Message)
    <3> HIDE DEF Message
    <3> QED
      OBVIOUS
  <2>2. mail \in [Clients -> Mail]
    BY DEF NoMail, Mail
  <2>3. ip_range \subseteq Hosts
    BY DEF Hosts
  <2>4. addr \in [Clients -> 0 .. Outside] /\ 0 \in 0 .. MaxHost /\ 0 \in 0 .. Outside
    BY DEF Outside
  <2>5. chaddr \in [Rows -> Clients \union {NoClient}]
    OBVIOUS
  <2> QED
    BY <2>1, <2>2, <2>3, <2>4, <2>5 DEF TypeOK, Message, Mail
<1>2. RowsInv
  BY DEF RowsInv
<1>3. ReservedNeverLeased
  BY DEF ReservedNeverLeased, Holds, NoMail
<1> QED
  BY <1>1, <1>2, <1>3 DEF IInv

(* The server's steps that touch neither table nor mailboxes.              *)
LEMMA ServeQuietly ==
  ASSUME IInv, NEW m \in {inbox[i] : i \in DOMAIN inbox}, NEW type, Serve(m, type),
         dhcp_server_state_machine' \in {"IDLE", "OFFER", "UNDEFINED"},
         UNCHANGED <<dhcps_allocated_client_address, bound_client, ip_range, chaddr, mail>>
  PROVE  IInv'
<1>1. inbox' \in Seq(Message) /\ client_request_ip' \in 0 .. Outside
  BY Served
<1>2. TypeOK'
  BY <1>1 DEF IInv, TypeOK, Message, Serve, clientVars
<1>3. RowsInv' /\ ReservedNeverLeased'
  BY DEF IInv, RowsInv, ReservedNeverLeased, Holds, Serve, clientVars
<1> QED
  BY <1>2, <1>3 DEF IInv

LEMMA OfferStep ==
  ASSUME IInv, NEW m \in {inbox[i] : i \in DOMAIN inbox}, NEW type, Serve(m, type),
         dhcps_send_offer(m)
  PROVE  IInv'
<1> USE DEF dhcps_send_offer
<1> DEFINE h == OfferedHost(m.from, RequestIp(m))
<1>1. /\ m.from \in Clients /\ RequestIp(m) \in 0 .. Outside
      /\ inbox' \in Seq(Message) /\ client_request_ip' \in 0 .. Outside
  BY Served
<1>2. h \in Grantable
  BY <1>1, Offered
<1>3. mail' \in [Clients -> Mail] /\ \A d \in Clients : mail'[d].ip \notin Reserved
  <2>1. Reply(m.from, "offer", h)
    OBVIOUS
  <2> HIDE DEF h
  <2> QED
    BY <1>1, <1>2, <2>1, Replied
<1>4. dhcps_allocated_client_address' = h /\ bound_client' = m.from
  OBVIOUS
<1> HIDE DEF h
<1>5. TypeOK'
  BY <1>1, <1>2, <1>3, <1>4 DEF IInv, TypeOK, Message, Mail, Grantable, Serve, clientVars
<1>6. RowsInv'
  BY DEF IInv, RowsInv
<1>7. ReservedNeverLeased'
  BY <1>2, <1>3, <1>4 DEF IInv, ReservedNeverLeased, Holds, Grantable, Serve, clientVars
<1> QED
  BY <1>5, <1>6, <1>7 DEF IInv

(* A grant marks the address last offered or asked for, never a reserved   *)
(* one.                                                                    *)
LEMMA RequestAckStep == IInv /\ ServeRequestAck => IInv'
<1> SUFFICES ASSUME IInv,
                    NEW m \in {inbox[i] : i \in DOMAIN inbox},
                    Serve(m, "request"),
                    \/ /\ OfferAccepted(RequestIp(m)) \/ SameClientAgain(m.from, RequestIp(m))
                       /\ UNCHANGED <<dhcps_allocated_client_address, bound_client>>
                    \/ /\ FreeAddressAsked(m.from, RequestIp(m))
                       /\ dhcps_allocated_client_address' = RequestIp(m)
                       /\ bound_client' = m.from,
                    dhcps_send_ack(m.from, dhcps_allocated_client_address')
             PROVE  IInv'
  BY DEF ServeRequestAck
<1> DEFINE h == dhcps_allocated_client_address'
<1>1. /\ m.from \in Clients /\ RequestIp(m) \in 0 .. Outside
      /\ inbox' \in Seq(Message) /\ client_request_ip' \in 0 .. Outside
  BY Served
<1>2. h \in Grantable /\ bound_client' \in Clients \union {NoClient}
  <2>1. CASE UNCHANGED <<dhcps_allocated_client_address, bound_client>>
    BY <2>1 DEF IInv, TypeOK, ReservedNeverLeased, Grantable
  <2>2. CASE /\ FreeAddressAsked(m.from, RequestIp(m))
             /\ dhcps_allocated_client_address' = RequestIp(m)
             /\ bound_client' = m.from
    BY <1>1, <2>2, FreeIsGrantable DEF FreeAddressAsked
  <2> QED
    BY <2>1, <2>2
<1>3. mail' \in [Clients -> Mail] /\ \A d \in Clients : mail'[d].ip \notin Reserved
  <2>1. Reply(m.from, "ack", h)
    BY DEF dhcps_send_ack
  <2> HIDE DEF h
  <2> QED
    BY <1>1, <1>2, <2>1, Replied
<1>4. /\ ip_range' = ip_range \union ({h} \intersect Hosts)
      /\ chaddr' = [i \in Rows |-> IF i = h THEN m.from ELSE chaddr[i]]
      /\ dhcp_server_state_machine' \in {"IDLE", "UNDEFINED"}
  BY DEF dhcps_send_ack, mark_ip_in_table
<1>5. TypeOK'
  BY <1>1, <1>2, <1>3, <1>4 DEF IInv, TypeOK, Message, Mail, Grantable, Serve, clientVars
<1>6. RowsInv'
  BY <1>2, <1>4 DEF IInv, RowsInv, Grantable
<1>7. ReservedNeverLeased'
  BY <1>2, <1>3, <1>4 DEF IInv, ReservedNeverLeased, Holds, Grantable, Serve, clientVars
<1> QED
  BY <1>5, <1>6, <1>7 DEF IInv

LEMMA RequestNakStep == IInv /\ ServeRequestNak => IInv'
<1> SUFFICES ASSUME IInv,
                    NEW m \in {inbox[i] : i \in DOMAIN inbox},
                    Serve(m, "request"),
                    Reply(m.from, "nak", 0),
                    dhcp_server_state_machine' = "IDLE",
                    UNCHANGED <<dhcps_allocated_client_address, bound_client, ip_range, chaddr>>
             PROVE  IInv'
  BY DEF ServeRequestNak
<1>1. /\ m.from \in Clients
      /\ inbox' \in Seq(Message) /\ client_request_ip' \in 0 .. Outside
  BY Served
<1>2. mail' \in [Clients -> Mail] /\ \A d \in Clients : mail'[d].ip \notin Reserved
  <2>1. 0 \in Grantable
    BY HostsAssumption DEF Grantable
  <2> QED
    BY <1>1, <2>1, Replied
<1>3. TypeOK'
  BY <1>1, <1>2 DEF IInv, TypeOK, Message, Mail, Serve, clientVars
<1>4. RowsInv' /\ ReservedNeverLeased'
  BY <1>2 DEF IInv, RowsInv, ReservedNeverLeased, Holds, Serve, clientVars
<1> QED
  BY <1>3, <1>4 DEF IInv

(* The bit a RELEASE inverts is that of a client's row.                    *)
LEMMA ReleaseStep == IInv /\ ServeRelease => IInv'
<1> SUFFICES ASSUME IInv,
                    NEW m \in {inbox[i] : i \in DOMAIN inbox},
                    Serve(m, "release"),
                    unmark_ip_in_table(m.from),
                    dhcp_server_state_machine' = "IDLE",
                    UNCHANGED <<dhcps_allocated_client_address, bound_client, mail>>
             PROVE  IInv'
  BY DEF ServeRelease
<1> DEFINE h == search_mac(m.from)
<1>1. /\ m.from \in Clients
      /\ inbox' \in Seq(Message) /\ client_request_ip' \in 0 .. Outside
  BY Served
<1>2. h \in Rows \union {0} /\ h \in Grantable
  BY <1>1, SearchMac
<1>3. /\ ip_range' = IF h = 0 THEN ip_range
                     ELSE (ip_range \ {h}) \union ({h} \ ip_range)
      /\ chaddr' = chaddr
  BY DEF unmark_ip_in_table
<1> HIDE DEF h
<1>4. ip_range' \subseteq Hosts /\ Reserved \subseteq ip_range'
  BY <1>2, <1>3, HostsAssumption, SMTT(30)
  DEF IInv, TypeOK, ReservedNeverLeased, Hosts, Rows, Grantable
<1>5. TypeOK'
  BY <1>1, <1>3, <1>4 DEF IInv, TypeOK, Message, Serve, clientVars
<1>6. RowsInv' /\ ReservedNeverLeased'
  BY <1>3, <1>4 DEF IInv, RowsInv, ReservedNeverLeased, Holds, Serve, clientVars
<1> QED
  BY <1>5, <1>6 DEF IInv

(***************************************************************************)
(* The clients and the network.                                            *)
(***************************************************************************)
(* Client c may come to be in state s with address a: what it may only ask *)
(* for is any address, what it uses is not reserved.                       *)
Usable(c, s, a) == s \in {"bound", "renewing"} => a \notin Reserved

LEMMA SendStep ==
  ASSUME IInv, NEW c \in Clients,
         NEW type \in {"discover", "request", "release", "decline", "inform"},
         NEW h \in 0 .. Outside, Send(c, type, h),
         NEW s \in {"init", "selecting", "requesting", "renewing", "bound"},
         NEW a \in 0 .. Outside, Usable(c, s, a),
         GoTo(c, s, a) \/ UNCHANGED <<cstate, addr>>
  PROVE  IInv'
<1>1. inbox' \in Seq(Message)
  <2>1. [type |-> type, from |-> c, ip |-> h] \in Message /\ inbox \in Seq(Message)
    BY DEF Message, IInv, TypeOK
  <2> HIDE DEF Message
  <2> QED
    BY <2>1 DEF Send
<1>2. mail' \in [Clients -> Mail] /\ \A d \in Clients : mail'[d].ip \notin Reserved
  <2>1. mail \in [Clients -> Mail] /\ NoMail \in Mail /\ NoMail.ip \notin Reserved
    BY HostsAssumption DEF IInv, TypeOK, Mail, NoMail
  <2>2. mail' = [mail EXCEPT ![c] = NoMail]
    BY DEF Send
  <2> QED
    BY <2>1, <2>2 DEF IInv, ReservedNeverLeased
<1>3. /\ cstate' \in [Clients -> {"init", "selecting", "requesting", "renewing", "bound"}]
      /\ addr' \in [Clients -> 0 .. Outside]
      /\ \A d \in Clients : \A g \in Reserved : ~Holds(d, g)'
  <2>1. CASE GoTo(c, s, a)
    BY <2>1 DEF GoTo, Usable, Holds, IInv, TypeOK, ReservedNeverLeased
  <2>2. CASE UNCHANGED <<cstate, addr>>
    BY <2>2 DEF Holds, IInv, TypeOK, ReservedNeverLeased
  <2> QED
    BY <2>1, <2>2
<1>4. overlapped' \in BOOLEAN
  BY DEF Send, IInv, TypeOK
<1>5. TypeOK'
  BY <1>1, <1>2, <1>3, <1>4 DEF IInv, TypeOK, Message, Mail, Send, serverVars
<1>6. RowsInv' /\ ReservedNeverLeased'
  BY <1>2, <1>3 DEF IInv, RowsInv, ReservedNeverLeased, Send, serverVars
<1> QED
  BY <1>5, <1>6 DEF IInv

(* What a client reads in its reply, or forgets, it may not lease.         *)
LEMMA ReadStep ==
  ASSUME IInv, NEW c \in Clients,
         NEW s \in {"init", "selecting", "requesting", "renewing", "bound"},
         NEW a \in 0 .. Outside, Usable(c, s, a),
         GoTo(c, s, a) \/ UNCHANGED <<cstate, addr>>,
         mail' = [mail EXCEPT ![c] = NoMail],
         UNCHANGED <<serverVars, inbox, overlapped>>
  PROVE  IInv'
<1>1. mail' \in [Clients -> Mail] /\ \A d \in Clients : mail'[d].ip \notin Reserved
  <2>1. mail \in [Clients -> Mail] /\ NoMail \in Mail /\ NoMail.ip \notin Reserved
    BY HostsAssumption DEF IInv, TypeOK, Mail, NoMail
  <2> QED
    BY <2>1 DEF IInv, ReservedNeverLeased
<1>2. /\ cstate' \in [Clients -> {"init", "selecting", "requesting", "renewing", "bound"}]
      /\ addr' \in [Clients -> 0 .. Outside]
      /\ \A d \in Clients : \A g \in Reserved : ~Holds(d, g)'
  <2>1. CASE GoTo(c, s, a)
    BY <2>1 DEF GoTo, Usable, Holds, IInv, TypeOK, ReservedNeverLeased
  <2>2. CASE UNCHANGED <<cstate, addr>>
    BY <2>2 DEF Holds, IInv, TypeOK, ReservedNeverLeased
  <2> QED
    BY <2>1, <2>2
<1>3. TypeOK'
  BY <1>1, <1>2 DEF IInv, TypeOK, Mail, serverVars
<1>4. RowsInv' /\ ReservedNeverLeased'
  BY <1>1, <1>2 DEF IInv, RowsInv, ReservedNeverLeased, serverVars
<1> QED
  BY <1>3, <1>4 DEF IInv

LEMMA ClientStep ==
  ASSUME IInv, NEW c \in Clients, Client(c)
  PROVE  IInv'
<1>1. /\ 0 \in 0 .. Outside /\ addr[c] \in 0 .. Outside /\ mail[c].ip \in 0 .. Outside
      /\ mail[c].ip \notin Reserved
      /\ cstate[c] \in {"bound", "renewing"} => addr[c] \notin Reserved
      /\ 1 .. Outside \subseteq 0 .. Outside
  BY HostsAssumption DEF Outside, Holds, IInv, TypeOK, ReservedNeverLeased
<1> USE DEF Usable
<1>2. CASE Discover(c)
  BY <1>1, <1>2, SendStep DEF Discover
<1>3. CASE TakeOffer(c)
  BY <1>1, <1>3, SendStep DEF TakeOffer
<1>4. CASE RequestAgain(c)
  BY <1>1, <1>4, SendStep DEF RequestAgain
<1>5. CASE Renew(c)
  BY <1>1, <1>5, SendStep DEF Renew
<1>6. CASE TakeAck(c)
  BY <1>1, <1>6, ReadStep DEF TakeAck
<1>7. CASE TakeNak(c)
  BY <1>1, <1>7, ReadStep DEF TakeNak
<1>8. CASE Release(c)
  BY <1>1, <1>8, SendStep DEF Release
<1>9. CASE Decline(c)
  BY <1>1, <1>9, SendStep DEF Decline
<1>10. CASE Inform(c)
  BY <1>1, <1>10, SendStep DEF Inform
<1>11. CASE LoseReply(c)
  BY <1>1, <1>11, ReadStep DEF LoseReply, clientVars
<1>12. CASE Reboot(c)
  BY <1>1, <1>12, SendStep DEF Reboot
<1> QED
  BY <1>2, <1>3, <1>4, <1>5, <1>6, <1>7, <1>8, <1>9, <1>10, <1>11, <1>12 DEF Client

LEMMA LoseRequestStep == IInv /\ LoseRequest => IInv'
<1> SUFFICES ASSUME IInv, LoseRequest PROVE IInv'
  OBVIOUS
<1>1. inbox' \in Seq(Message)
  <2>1. inbox \in Seq(Message)
    BY DEF Message, IInv, TypeOK
  <2> HIDE DEF Message
  <2> QED
    BY <2>1 DEF LoseRequest
<1>2. TypeOK'
  BY <1>1 DEF IInv, TypeOK, Message, LoseRequest, serverVars, clientVars
<1>3. RowsInv' /\ ReservedNeverLeased'
  BY DEF IInv, RowsInv, ReservedNeverLeased, Holds, LoseRequest, serverVars, clientVars
<1> QED
  BY <1>2, <1>3 DEF IInv

(* Every step of the server, of a client or of the network preserves the   *)
(* invariant.                                                              *)
LEMMA NextInv == IInv /\ [Next]_vars => IInv'
<1> SUFFICES ASSUME IInv, [Next]_vars PROVE IInv'
  OBVIOUS
<1>1. CASE ServeDiscover
  BY <1>1, OfferStep DEF ServeDiscover
<1>2. CASE ServeOther
  <2>1. PICK m \in {inbox[i] : i \in DOMAIN inbox} :
          /\ Serve(m, "inform")
          /\ \/ dhcps_send_offer(m)
             \/ /\ dhcp_server_state_machine = "IDLE"
                /\ UNCHANGED <<dhcp_server_state_machine, dhcps_allocated_client_address,
                               bound_client, ip_range, chaddr, mail>>
    BY <1>2 DEF ServeOther
  <2>2. CASE dhcps_send_offer(m)
    BY <2>1, <2>2, OfferStep
  <2>3. CASE ~dhcps_send_offer(m)
    BY <2>1, <2>3, ServeQuietly
  <2> QED
    BY <2>2, <2>3
<1>3. CASE ServeRequestAck
  BY <1>3, RequestAckStep
<1>4. CASE ServeRequestNak
  BY <1>4, RequestNakStep
<1>5. CASE ServeRelease
  BY <1>5, ReleaseStep
<1>6. CASE ServeDecline
  BY <1>6, ServeQuietly DEF ServeDecline
<1>7. CASE LoseRequest
  BY <1>7, LoseRequestStep
<1>8. CASE \E c \in Clients : Client(c)
  BY <1>8, ClientStep
<1>9. CASE UNCHANGED vars
  <2>1. TypeOK'
    BY <1>9 DEF IInv, TypeOK, vars, serverVars, clientVars
  <2>2. RowsInv' /\ ReservedNeverLeased'
    BY <1>9 DEF IInv, RowsInv, ReservedNeverLeased, Holds, vars, serverVars, clientVars
  <2> QED
    BY <2>1, <2>2 DEF IInv
<1> QED
  BY <1>1, <1>2, <1>3, <1>4, <1>5, <1>6, <1>7, <1>8, <1>9 DEF Next, dhcps_run

(* The invariant holds throughout every behaviour of server, clients and   *)
(* network.                                                                *)
THEOREM Invariance == Spec => []IInv
  BY InitInv, NextInv, PTL DEF Spec

(* Every variable of the DHCP server keeps its type: no request makes it   *)
(* mark or grant a number beyond its table.                                *)
THEOREM TypeCorrect == Spec => []TypeOK
<1>1. IInv => TypeOK
  BY DEF IInv
<1> QED
  BY <1>1, Invariance, PTL

(* The addresses dhcps_init marks for the server and the gateway are never *)
(* offered, granted or freed, however many clients there are, and though   *)
(* they ask for them, with an offer out or without, in their own words or  *)
(* in those another message left behind.                                   *)
THEOREM ReservedStaysReserved == Spec => []ReservedNeverLeased
<1>1. IInv => ReservedNeverLeased
  BY DEF IInv
<1> QED
  BY <1>1, Invariance, PTL

-----------------------------------------------------------------------------
(***************************************************************************)
(* Leases.  As long as nobody has sent in the middle of another's          *)
(* exchange, at most one client is waiting for an answer, and all the      *)
(* server remembers - its state, the address last handed out and to whom - *)
(* is about that client or about the one served last.                      *)
(***************************************************************************)
(* Client c has address h, or the grant of it to read.                     *)
Due(c, h) == Holds(c, h) \/ (mail[c].type = "ack" /\ mail[c].ip = h)

(* The table and the globals say of address h that it is c's.              *)
Owns(c, h) ==
  /\ h \in ip_range
  /\ h \in Rows => chaddr[h] = c
  /\ dhcps_allocated_client_address = h => bound_client = c
  /\ \A d \in Clients \ {c} : ~Holds(d, h)

DueIsOwned == \A c \in Clients : \A h \in 0 .. MaxHost : Due(c, h) => Owns(c, h)

OneActive ==
  \A c, d \in Clients : cstate[c] \notin Resting /\ cstate[d] \notin Resting => c = d

(* The states in which a client waits for its message to be served.        *)
Awaiting(type) ==
  CASE type = "discover" -> {"selecting"}
    [] type = "request"  -> {"requesting", "renewing"}
    [] type = "inform"   -> {"bound"}
    [] OTHER             -> {"init"}

OneMessage ==
  \A i \in DOMAIN inbox :
    /\ Len(inbox) = 1
    /\ cstate[inbox[i].from] \in Awaiting(inbox[i].type)
    /\ mail[inbox[i].from] = NoMail
    /\ \A d \in Clients \ {inbox[i].from} : cstate[d] \in Resting

OfferIsActive ==
  dhcp_server_state_machine = "OFFER" =>
    bound_client \in Clients /\ cstate[bound_client] \notin Resting

AnswerIsAwaited ==
  \A c \in Clients : mail[c].type \in {"ack", "nak"} =>
    /\ cstate[c] \in {"requesting", "renewing"}
    /\ dhcp_server_state_machine # "OFFER"

InTurn == DueIsOwned /\ OneActive /\ OneMessage /\ OfferIsActive /\ AnswerIsAwaited

LeaseInv == IInv /\ (~overlapped => InTurn)

(* The message served is the only one, its sender waits for nothing else,  *)
(* and everybody else rests.                                               *)
LEMMA ServedInTurn ==
  ASSUME IInv, InTurn, NEW m \in {inbox[i] : i \in DOMAIN inbox}, NEW type, Serve(m, type)
  PROVE  /\ inbox' = <<>> /\ m.from \in Clients
         /\ cstate[m.from] \in Awaiting(type) /\ mail[m.from] = NoMail
         /\ \A d \in Clients \ {m.from} : cstate[d] \in Resting
<1>1. PICK i \in DOMAIN inbox : m = inbox[i]
  OBVIOUS
<1>2. m.from \in Clients
  BY Served
<1>3. Len(inbox) = 1 /\ inbox \in Seq(Message)
  BY <1>1 DEF InTurn, OneMessage, IInv, TypeOK, Message
<1>4. inbox' = <<>>
  <2> HIDE DEF Message
  <2> QED
    BY <1>3 DEF Serve
<1> QED
  BY <1>1, <1>2, <1>4 DEF InTurn, OneMessage, Serve

(* A step of the server that takes no address from its owner, and gives    *)
(* its answer to the sender only, keeps the order.                         *)
LEMMA ServerInTurn ==
  ASSUME IInv, InTurn, NEW m \in {inbox[i] : i \in DOMAIN inbox}, NEW type, Serve(m, type),
         DueIsOwned', OfferIsActive', AnswerIsAwaited'
  PROVE  InTurn'
<1>1. inbox' = <<>>
  BY ServedInTurn
<1>2. OneActive' /\ OneMessage'
  BY <1>1 DEF InTurn, OneActive, OneMessage, Serve, clientVars
<1> QED
  BY <1>2 DEF InTurn

(* Nobody but the client it is offered to is due what dhcps_send_offer     *)
(* picks.                                                                  *)
LEMMA OfferedIsOwn ==
  ASSUME IInv, InTurn, NEW c \in Clients, NEW req \in 0 .. Outside,
         NEW d \in Clients, Due(d, OfferedHost(c, req))
  PROVE  d = c
<1> DEFINE h == OfferedHost(c, req)
<1>1. h \in 0 .. MaxHost
  BY Offered DEF Grantable
<1>2. Owns(d, h)
  BY <1>1 DEF InTurn, DueIsOwned
<1>3. h \in Hosts /\ h \in ip_range
  BY <1>2 DEF Owns, IInv, TypeOK
<1>4. CASE OfferedLast(c, req)
  BY <1>2, <1>4 DEF OfferedHost, OfferedLast, Owns
<1>5. CASE Free(req)
  BY <1>3, <1>5 DEF OfferedHost, Free
<1>6. CASE ~OfferedLast(c, req) /\ ~Free(req) /\ search_mac(c) # 0
  <2> DEFINE rows == {i \in Rows : chaddr[i] = c}
  <2>1. rows # {} /\ h = Min(rows)
    BY <1>6 DEF OfferedHost, search_mac
  <2>2. Min(rows) \in rows
    <3>1. rows \in SUBSET Nat
      BY HostsAssumption DEF Rows
    <3> HIDE DEF rows
    <3> QED
      BY <2>1, <3>1, MinIsMember
  <2> QED
    BY <1>2, <2>1, <2>2 DEF Owns
<1>7. CASE ~OfferedLast(c, req) /\ ~Free(req) /\ search_mac(c) = 0
  <2> DEFINE free == {g \in Hosts : Free(g)}
  <2>1. h = IF free = {} THEN 0 ELSE Min(free)
    BY <1>7 DEF OfferedHost, search_next_ip
  <2>2. free # {} /\ h = Min(free)
    BY <1>3, <2>1 DEF Hosts
  <2>3. Min(free) \in free
    <3>1. free \in SUBSET Nat
      BY DEF Hosts
    <3> HIDE DEF free
    <3> QED
      BY <2>2, <3>1, MinIsMember
  <2> QED
    BY <1>3, <2>2, <2>3 DEF Free
<1> QED
  BY <1>4, <1>5, <1>6, <1>7

(* An offer takes nothing from anybody.                                    *)
LEMMA OfferInTurn ==
  ASSUME IInv, InTurn, NEW m \in {inbox[i] : i \in DOMAIN inbox}, NEW type, Serve(m, type),
         dhcps_send_offer(m), cstate[m.from] \notin Resting
  PROVE  InTurn'
<1> DEFINE h == OfferedHost(m.from, RequestIp(m))
<1>1. m.from \in Clients /\ RequestIp(m) \in 0 .. Outside
  BY Served
<1>2. /\ \A d \in Clients \ {m.from} : cstate[d] \in Resting
      /\ UNCHANGED <<cstate, addr, ip_range, chaddr>>
      /\ dhcp_server_state_machine' = "OFFER" /\ bound_client' = m.from
      /\ dhcps_allocated_client_address' = h
  BY ServedInTurn DEF Serve, clientVars, dhcps_send_offer
<1>3. \A d \in Clients : mail'[d].type \in {"ack", "nak"} => d # m.from /\ mail'[d] = mail[d]
  BY <1>1 DEF dhcps_send_offer, Reply, IInv, TypeOK
<1>4. DueIsOwned'
  <2> SUFFICES ASSUME NEW c \in Clients, NEW g \in 0 .. MaxHost, Due(c, g)'
               PROVE  Owns(c, g)'
    BY DEF DueIsOwned
  <2>1. Due(c, g)
    BY <1>2, <1>3 DEF Due, Holds
  <2>2. Owns(c, g)
    BY <2>1 DEF InTurn, DueIsOwned
  <2>3. g = h => c = m.from
    BY <1>1, <2>1, OfferedIsOwn
  <2> QED
    BY <1>2, <2>2, <2>3 DEF Owns, Holds
<1>5. OfferIsActive'
  BY <1>1, <1>2 DEF OfferIsActive
<1>6. AnswerIsAwaited'
  BY <1>1, <1>2, <1>3 DEF InTurn, AnswerIsAwaited, Resting
<1> QED
  BY <1>4, <1>5, <1>6, ServerInTurn

(* A grant is of the address on offer to the sender, of the one it had     *)
(* last, or of a free one: never of another's.                             *)
LEMMA RequestAckInTurn == IInv /\ InTurn /\ ServeRequestAck => InTurn'
<1> SUFFICES ASSUME IInv, InTurn,
                    NEW m \in {inbox[i] : i \in DOMAIN inbox},
                    Serve(m, "request"),
                    \/ /\ OfferAccepted(RequestIp(m)) \/ SameClientAgain(m.from, RequestIp(m))
                       /\ UNCHANGED <<dhcps_allocated_client_address, bound_client>>
                    \/ /\ FreeAddressAsked(m.from, RequestIp(m))
                       /\ dhcps_allocated_client_address' = RequestIp(m)
                       /\ bound_client' = m.from,
                    dhcps_send_ack(m.from, dhcps_allocated_client_address')
             PROVE  InTurn'
  BY DEF ServeRequestAck
<1> DEFINE h == dhcps_allocated_client_address'
<1>1. /\ m.from \in Clients /\ RequestIp(m) \in 0 .. Outside
      /\ cstate[m.from] \in {"requesting", "renewing"}
      /\ \A d \in Clients \ {m.from} : cstate[d] \in Resting
  BY Served, ServedInTurn DEF Awaiting
<1>2. /\ UNCHANGED <<cstate, addr>> /\ dhcp_server_state_machine' # "OFFER"
      /\ ip_range' = ip_range \union ({h} \intersect Hosts)
      /\ chaddr' = [i \in Rows |-> IF i = h THEN m.from ELSE chaddr[i]]
      /\ mail' = [mail EXCEPT ![m.from] = [type |-> "ack", ip |-> h]]
  BY DEF Serve, clientVars, dhcps_send_ack, mark_ip_in_table, Reply
<1>3. /\ h \in Hosts /\ bound_client' = m.from
      /\ \A d \in Clients : Due(d, h) => d = m.from
  <2>1. CASE OfferAccepted(RequestIp(m)) /\ UNCHANGED <<dhcps_allocated_client_address, bound_client>>
    <3>1. bound_client = m.from
      BY <1>1, <2>1 DEF OfferAccepted, InTurn, OfferIsActive
    <3> QED
      BY <2>1, <3>1 DEF OfferAccepted, InTurn, DueIsOwned, Owns, IInv, TypeOK, Hosts
  <2>2. CASE /\ SameClientAgain(m.from, RequestIp(m))
             /\ UNCHANGED <<dhcps_allocated_client_address, bound_client>>
    BY <2>2, SMTT(30) DEF SameClientAgain, OfferedLast, InTurn, DueIsOwned, Owns, IInv, TypeOK, Hosts
  <2>3. CASE /\ FreeAddressAsked(m.from, RequestIp(m))
             /\ dhcps_allocated_client_address' = RequestIp(m)
             /\ bound_client' = m.from
    BY <1>1, <2>3 DEF FreeAddressAsked, Free, Hosts, InTurn, DueIsOwned, Owns
  <2> QED
    BY <2>1, <2>2, <2>3
<1> HIDE DEF h
<1>4. \A d \in Clients \ {m.from} : mail'[d] = mail[d]
  BY <1>1, <1>2 DEF IInv, TypeOK
<1>5. DueIsOwned'
  <2> SUFFICES ASSUME NEW c \in Clients, NEW g \in 0 .. MaxHost, Due(c, g)'
               PROVE  Owns(c, g)'
    BY DEF DueIsOwned
  <2>1. CASE g = h
    <3>1. c = m.from
      BY <1>2, <1>3, <1>4, <2>1 DEF Due, Holds
    <3>2. \A d \in Clients \ {c} : ~Holds(d, g)'
      BY <1>2, <1>3, <2>1, <3>1 DEF Due, Holds
    <3> QED
      BY <1>2, <1>3, <2>1, <3>1, <3>2 DEF Owns, h
  <2>2. CASE g # h
    <3>1. Due(c, g)
      BY <1>1, <1>2, <1>4, <2>2 DEF Due, Holds, IInv, TypeOK
    <3>2. Owns(c, g)
      BY <3>1 DEF InTurn, DueIsOwned
    <3> QED
      BY <1>2, <2>2, <3>2 DEF Owns, Holds, h
  <2> QED
    BY <2>1, <2>2
<1>6. OfferIsActive'
  BY <1>2 DEF OfferIsActive
<1>7. AnswerIsAwaited'
  BY <1>1, <1>2, <1>4 DEF InTurn, AnswerIsAwaited
<1> QED
  BY <1>5, <1>6, <1>7, ServerInTurn

LEMMA RequestNakInTurn == IInv /\ InTurn /\ ServeRequestNak => InTurn'
<1> SUFFICES ASSUME IInv, InTurn,
                    NEW m \in {inbox[i] : i \in DOMAIN inbox},
                    Serve(m, "request"),
                    Reply(m.from, "nak", 0),
                    dhcp_server_state_machine' = "IDLE",
                    UNCHANGED <<dhcps_allocated_client_address, bound_client, ip_range, chaddr>>
             PROVE  InTurn'
  BY DEF ServeRequestNak
<1>1. /\ m.from \in Clients /\ UNCHANGED <<cstate, addr>>
      /\ cstate[m.from] \in {"requesting", "renewing"}
  BY Served, ServedInTurn DEF Awaiting, Serve, clientVars
<1>2. \A d \in Clients : mail'[d] = IF d = m.from THEN [type |-> "nak", ip |-> 0] ELSE mail[d]
  BY <1>1 DEF Reply, IInv, TypeOK
<1>3. DueIsOwned'
  BY <1>1, <1>2 DEF InTurn, DueIsOwned, Due, Holds, Owns
<1>4. OfferIsActive'
  BY DEF OfferIsActive
<1>5. AnswerIsAwaited'
  BY <1>1, <1>2 DEF InTurn, AnswerIsAwaited
<1> QED
  BY <1>3, <1>4, <1>5, ServerInTurn

(* The bit a RELEASE inverts is that of a row of the sender, and no other  *)
(* client's address has such a row.                                        *)
LEMMA ReleaseInTurn == IInv /\ InTurn /\ ServeRelease => InTurn'
<1> SUFFICES ASSUME IInv, InTurn,
                    NEW m \in {inbox[i] : i \in DOMAIN inbox},
                    Serve(m, "release"),
                    unmark_ip_in_table(m.from),
                    dhcp_server_state_machine' = "IDLE",
                    UNCHANGED <<dhcps_allocated_client_address, bound_client, mail>>
             PROVE  InTurn'
  BY DEF ServeRelease
<1> DEFINE h == search_mac(m.from)
           rows == {i \in Rows : chaddr[i] = m.from}
<1>1. /\ m.from \in Clients /\ UNCHANGED <<cstate, addr>>
      /\ cstate[m.from] = "init" /\ mail[m.from] = NoMail
  BY ServedInTurn DEF Awaiting, Serve, clientVars
<1>2. h = 0 \/ (h \in Rows /\ chaddr[h] = m.from)
  <2>1. CASE rows = {}
    BY <2>1 DEF search_mac
  <2>2. CASE rows # {}
    <3>1. h = Min(rows)
      BY <2>2 DEF search_mac
    <3>2. Min(rows) \in rows
      <4>1. rows \in SUBSET Nat
        BY HostsAssumption DEF Rows
      <4> HIDE DEF rows
      <4> QED
        BY <2>2, <4>1, MinIsMember
    <3> QED
      BY <3>1, <3>2
  <2> QED
    BY <2>1, <2>2
<1>3. /\ ip_range' = IF h = 0 THEN ip_range
                     ELSE (ip_range \ {h}) \union ({h} \ ip_range)
      /\ chaddr' = chaddr
  BY DEF unmark_ip_in_table
<1> HIDE DEF h, rows
<1>4. DueIsOwned'
  <2> SUFFICES ASSUME NEW c \in Clients, NEW g \in 0 .. MaxHost, Due(c, g)'
               PROVE  Owns(c, g)'
    BY DEF DueIsOwned
  <2>1. Due(c, g)
    BY <1>1 DEF Due, Holds
  <2>2. Owns(c, g)
    BY <2>1 DEF InTurn, DueIsOwned
  <2>3. c # m.from
    BY <1>1, <2>1 DEF Due, Holds, NoMail
  <2>4. h = 0 \/ g # h
    BY <1>2, <2>2, <2>3 DEF Owns
  <2> QED
    BY <1>1, <1>3, <2>2, <2>4 DEF Owns, Holds
<1>5. OfferIsActive' /\ AnswerIsAwaited'
  BY <1>1 DEF InTurn, OfferIsActive, AnswerIsAwaited
<1> QED
  BY <1>4, <1>5, ServerInTurn

(* A DECLINE changes the state of the server only.                         *)
LEMMA DeclineInTurn == IInv /\ InTurn /\ ServeDecline => InTurn'
<1> SUFFICES ASSUME IInv, InTurn,
                    NEW m \in {inbox[i] : i \in DOMAIN inbox},
                    Serve(m, "decline"),
                    dhcp_server_state_machine' = "IDLE",
                    UNCHANGED <<dhcps_allocated_client_address, bound_client,
                                ip_range, chaddr, mail>>
             PROVE  InTurn'
  BY DEF ServeDecline
<1>1. DueIsOwned' /\ OfferIsActive' /\ AnswerIsAwaited'
  BY DEF InTurn, DueIsOwned, Due, Owns, Holds, OfferIsActive, AnswerIsAwaited, Serve, clientVars
<1> QED
  BY <1>1, ServerInTurn

(* An INFORM comes from a client that is bound: while everybody else rests *)
(* no offer is out.                                                        *)
LEMMA OtherInTurn == IInv /\ InTurn /\ ServeOther => InTurn'
<1> SUFFICES ASSUME IInv, InTurn,
                    NEW m \in {inbox[i] : i \in DOMAIN inbox},
                    Serve(m, "inform"),
                    \/ dhcp_server_state_machine = "OFFER"
                    \/ UNCHANGED <<dhcp_server_state_machine, dhcps_allocated_client_address,
                                   bound_client, ip_range, chaddr, mail>>
             PROVE  InTurn'
  BY DEF ServeOther
<1>1. \A d \in Clients : cstate[d] \in Resting
  BY ServedInTurn DEF Awaiting, Resting
<1>2. dhcp_server_state_machine # "OFFER"
  BY <1>1 DEF InTurn, OfferIsActive
<1>3. UNCHANGED <<dhcp_server_state_machine, dhcps_allocated_client_address, bound_client,
                  ip_range, chaddr, mail>>
  BY <1>2
<1>4. DueIsOwned' /\ OfferIsActive' /\ AnswerIsAwaited'
  BY <1>3 DEF InTurn, DueIsOwned, Due, Owns, Holds, OfferIsActive, AnswerIsAwaited,
              Serve, clientVars
<1> QED
  BY <1>4, ServerInTurn

(* A client that sends while all others rest and nothing waits at the      *)
(* server becomes the one that is active.                                  *)
LEMMA SendInTurn ==
  ASSUME IInv, InTurn, NEW c \in Clients, NEW type, NEW h, Send(c, type, h), ~overlapped',
         NEW s \in Awaiting(type), NEW a,
         GoTo(c, s, a) \/ (UNCHANGED <<cstate, addr>> /\ cstate[c] = s),
         s \in Resting => cstate[c] \in Resting,
         s \in {"bound", "renewing"} =>
           cstate[c] \in {"bound", "renewing"} /\ (GoTo(c, s, a) => a = addr[c])
  PROVE  InTurn'
<1>1. /\ inbox' = <<[type |-> type, from |-> c, ip |-> h]>>
      /\ \A d \in Clients \ {c} : cstate[d] \in Resting
  <2>1. Alone(c)
    BY Zenon DEF Send
  <2>2. inbox = <<>> /\ inbox' = Append(inbox, [type |-> type, from |-> c, ip |-> h])
    BY <2>1 DEF Send, Alone
  <2> QED
    BY <2>1, <2>2 DEF Alone
<1>2. \A d \in Clients : mail'[d] = IF d = c THEN NoMail ELSE mail[d]
  BY DEF Send, IInv, TypeOK
<1>3. /\ cstate'[c] = s
      /\ \A d \in Clients \ {c} : cstate'[d] = cstate[d] /\ addr'[d] = addr[d]
      /\ s \in {"bound", "renewing"} => addr'[c] = addr[c]
  BY DEF GoTo, IInv, TypeOK
<1>4. DueIsOwned'
  <2>1. \A d \in Clients, g \in 0 .. MaxHost : Holds(d, g)' => Holds(d, g)
    BY <1>3 DEF Holds
  <2>2. \A d \in Clients, g \in 0 .. MaxHost : Due(d, g)' => Due(d, g)
    BY <1>2, <2>1 DEF Due, NoMail
  <2> QED
    BY <2>1, <2>2 DEF InTurn, DueIsOwned, Owns, Send, serverVars
<1>5. OneActive'
  BY <1>1, <1>3 DEF OneActive
<1>6. OneMessage'
  <2>1. DOMAIN inbox' = {1} /\ Len(inbox') = 1
    BY <1>1
  <2> QED
    BY <1>1, <1>2, <1>3, <2>1 DEF OneMessage
<1>7. OfferIsActive'
  BY <1>1, <1>3 DEF InTurn, OfferIsActive, Send, serverVars
<1>8. AnswerIsAwaited'
  BY <1>2, <1>3 DEF InTurn, AnswerIsAwaited, Send, serverVars, NoMail
<1> QED
  BY <1>4, <1>5, <1>6, <1>7, <1>8 DEF InTurn

(* No message waits at the server while an answer waits at its client.     *)
LEMMA NothingUnderWay ==
  ASSUME IInv, InTurn, NEW c \in Clients, mail[c].type \in {"ack", "nak"}
  PROVE  inbox = <<>>
<1>1. \A i \in DOMAIN inbox : FALSE
  <2> SUFFICES ASSUME NEW i \in DOMAIN inbox PROVE FALSE
    OBVIOUS
  <2>1. cstate[c] \in {"requesting", "renewing"} /\ mail[c] # NoMail
    BY DEF InTurn, AnswerIsAwaited, NoMail
  <2> QED
    BY <2>1 DEF InTurn, OneMessage, Resting
<1>2. inbox \in Seq(Message)
  BY DEF IInv, TypeOK, Message
<1> HIDE DEF Message
<1> QED
  BY <1>1, <1>2

(* The address a client is granted is its own before it takes the grant.   *)
LEMMA TakeAckInTurn ==
  ASSUME IInv, InTurn, NEW c \in Clients, TakeAck(c)
  PROVE  InTurn'
<1> DEFINE h == mail[c].ip
<1>1. /\ cstate[c] \in {"requesting", "renewing"} /\ inbox = <<>> /\ inbox' = <<>>
      /\ h \in 0 .. MaxHost /\ dhcp_server_state_machine # "OFFER"
  BY NothingUnderWay DEF TakeAck, InTurn, AnswerIsAwaited, IInv, TypeOK
<1>2. /\ \A d \in Clients : cstate'[d] = IF d = c THEN "bound" ELSE cstate[d]
      /\ \A d \in Clients : addr'[d] = IF d = c THEN h ELSE addr[d]
      /\ \A d \in Clients : mail'[d] = IF d = c THEN NoMail ELSE mail[d]
  BY DEF TakeAck, GoTo, IInv, TypeOK
<1>3. Due(c, h) /\ Owns(c, h)
  BY <1>1 DEF TakeAck, Due, InTurn, DueIsOwned
<1>4. \A d \in Clients \ {c} : cstate[d] \in Resting
  BY <1>1 DEF InTurn, OneActive, Resting
<1> HIDE DEF h
<1>5. DueIsOwned'
  <2> SUFFICES ASSUME NEW d \in Clients, NEW g \in 0 .. MaxHost, Due(d, g)'
               PROVE  Owns(d, g)'
    BY DEF DueIsOwned
  <2>1. CASE d = c
    <3>1. g = h
      BY <1>2, <2>1 DEF Due, Holds, NoMail
    <3> QED
      BY <1>2, <1>3, <2>1, <3>1 DEF Owns, Holds, TakeAck, serverVars
  <2>2. CASE d # c
    <3>1. Due(d, g) /\ Holds(d, g)
      BY <1>2, <1>4, <2>2 DEF Due, Holds, InTurn, AnswerIsAwaited, Resting
    <3>2. Owns(d, g) /\ g # h
      BY <1>3, <2>2, <3>1 DEF InTurn, DueIsOwned, Owns
    <3> QED
      BY <1>2, <3>2 DEF Owns, Holds, TakeAck, serverVars
  <2> QED
    BY <2>1, <2>2
<1>6. OneActive' /\ OneMessage'
  BY <1>1, <1>2 DEF InTurn, OneActive, OneMessage, Resting
<1>7. OfferIsActive' /\ AnswerIsAwaited'
  BY <1>1, <1>2 DEF InTurn, OfferIsActive, AnswerIsAwaited, NoMail, TakeAck, serverVars
<1> QED
  BY <1>5, <1>6, <1>7 DEF InTurn

(* A client that is refused, or whose reply is lost, is due less.          *)
LEMMA ForgoInTurn ==
  ASSUME IInv, InTurn, NEW c \in Clients, TakeNak(c) \/ LoseReply(c)
  PROVE  InTurn'
<1>1. \A d \in Clients : mail'[d] = IF d = c THEN NoMail ELSE mail[d]
  BY DEF TakeNak, LoseReply, IInv, TypeOK
<1>2. \A d \in Clients :
        \/ cstate'[d] = cstate[d] /\ addr'[d] = addr[d]
        \/ cstate'[d] = "init" /\ d = c /\ TakeNak(c)
  BY DEF TakeNak, LoseReply, GoTo, clientVars, IInv, TypeOK
<1>3. UNCHANGED <<serverVars, inbox>>
  BY DEF TakeNak, LoseReply
<1>4. DueIsOwned'
  <2>1. \A d \in Clients, g \in 0 .. MaxHost : Holds(d, g)' => Holds(d, g)
    BY <1>2 DEF Holds
  <2>2. \A d \in Clients, g \in 0 .. MaxHost : Due(d, g)' => Due(d, g)
    BY <1>1, <2>1 DEF Due, NoMail
  <2> QED
    BY <1>3, <2>1, <2>2 DEF InTurn, DueIsOwned, Owns, serverVars
<1>5. OneActive'
  BY <1>2 DEF InTurn, OneActive, Resting
<1>6. OneMessage'
  <2>1. CASE TakeNak(c)
    <3>1. inbox = <<>>
      BY <2>1, NothingUnderWay DEF TakeNak
    <3> QED
      BY <1>3, <3>1 DEF OneMessage
  <2>2. CASE LoseReply(c)
    <3>1. UNCHANGED <<cstate, inbox>>
      BY <2>2 DEF LoseReply, clientVars
    <3>2. \A i \in DOMAIN inbox : inbox[i] \in Message
      <4>1. inbox \in Seq(Message)
        BY DEF IInv, TypeOK, Message
      <4> HIDE DEF Message
      <4> QED
        BY <4>1
    <3>3. \A i \in DOMAIN inbox : inbox[i].from \in Clients
      BY <3>2 DEF Message
    <3> QED
      BY <1>1, <3>1, <3>3 DEF InTurn, OneMessage
  <2> QED
    BY <2>1, <2>2
<1>7. OfferIsActive' /\ AnswerIsAwaited'
  <2>1. TakeNak(c) => dhcp_server_state_machine # "OFFER"
    BY DEF TakeNak, InTurn, AnswerIsAwaited
  <2> QED
    BY <1>1, <1>2, <1>3, <2>1 DEF InTurn, OfferIsActive, AnswerIsAwaited, NoMail, serverVars
<1> QED
  BY <1>4, <1>5, <1>6, <1>7 DEF InTurn

LEMMA ClientInTurn ==
  ASSUME IInv, InTurn, NEW c \in Clients, Client(c), ~overlapped'
  PROVE  InTurn'
<1> USE DEF Awaiting, Resting
<1>1. CASE Discover(c)
  BY <1>1, SendInTurn DEF Discover
<1>2. CASE TakeOffer(c)
  BY <1>2, SendInTurn DEF TakeOffer
<1>3. CASE RequestAgain(c)
  BY <1>3, SendInTurn DEF RequestAgain
<1>4. CASE Renew(c)
  BY <1>4, SendInTurn DEF Renew
<1>5. CASE Release(c)
  BY <1>5, SendInTurn DEF Release
<1>6. CASE Decline(c)
  BY <1>6, SendInTurn DEF Decline
<1>7. CASE Inform(c)
  BY <1>7, SendInTurn DEF Inform
<1>8. CASE TakeAck(c)
  BY <1>8, TakeAckInTurn
<1>9. CASE TakeNak(c) \/ LoseReply(c)
  BY <1>9, ForgoInTurn
<1>10. CASE Reboot(c)
  BY <1>10, SendInTurn DEF Reboot
<1> QED
  BY <1>1, <1>2, <1>3, <1>4, <1>5, <1>6, <1>7, <1>8, <1>9, <1>10 DEF Client

LEMMA LoseRequestInTurn == IInv /\ InTurn /\ LoseRequest => InTurn'
<1> SUFFICES ASSUME IInv, InTurn, LoseRequest PROVE InTurn'
  OBVIOUS
<1>1. inbox' = <<>>
  <2>1. inbox \in Seq(Message)
    BY DEF IInv, TypeOK, Message
  <2>2. Len(inbox) = 1
    <3> HIDE DEF Message
    <3>1. 1 \in DOMAIN inbox
      BY <2>1 DEF LoseRequest
    <3> QED
      BY <3>1 DEF InTurn, OneMessage
  <2> HIDE DEF Message
  <2> QED
    BY <2>1, <2>2 DEF LoseRequest
<1>2. OneActive' /\ OneMessage' /\ OfferIsActive' /\ AnswerIsAwaited'
  BY <1>1 DEF LoseRequest, serverVars, clientVars, InTurn, OneActive, OneMessage,
              OfferIsActive, AnswerIsAwaited
<1>3. DueIsOwned'
  BY DEF LoseRequest, serverVars, clientVars, InTurn, DueIsOwned, Due, Owns, Holds
<1> QED
  BY <1>2, <1>3 DEF InTurn

-----------------------------------------------------------------------------
(* The order holds from the start until somebody sends out of turn.        *)
LEMMA LeaseInit == Init => LeaseInv
<1> SUFFICES ASSUME Init PROVE InTurn
  BY InitInv DEF LeaseInv
<1>1. \A c \in Clients : cstate[c] = "init" /\ mail[c] = NoMail
  BY DEF Init
<1>2. inbox = <<>> /\ dhcp_server_state_machine = "IDLE"
  BY DEF Init
<1> QED
  BY <1>1, <1>2 DEF InTurn, DueIsOwned, Due, Holds, OneActive, OneMessage, OfferIsActive,
                    AnswerIsAwaited, Resting, NoMail

LEMMA LeaseNext == LeaseInv /\ [Next]_vars => LeaseInv'
<1> SUFFICES ASSUME LeaseInv, [Next]_vars, ~overlapped' PROVE InTurn'
  BY NextInv DEF LeaseInv
<1> USE DEF LeaseInv
<1>1. CASE dhcps_run
  <2>1. ~overlapped
    BY <1>1 DEF dhcps_run, ServeDiscover, ServeOther, ServeRequestAck, ServeRequestNak,
                ServeRelease, ServeDecline, Serve, clientVars
  <2>2. CASE ServeDiscover
    <3>1. PICK m \in {inbox[i] : i \in DOMAIN inbox} :
            Serve(m, "discover") /\ dhcps_send_offer(m)
      BY <2>2 DEF ServeDiscover
    <3>2. cstate[m.from] = "selecting"
      BY <2>1, <3>1, ServedInTurn DEF Awaiting
    <3> QED
      BY <2>1, <3>1, <3>2, OfferInTurn DEF Resting
  <2> QED
    BY <1>1, <2>1, <2>2, OtherInTurn, RequestAckInTurn, RequestNakInTurn, ReleaseInTurn,
       DeclineInTurn DEF dhcps_run
<1>2. CASE LoseRequest
  BY <1>2, LoseRequestInTurn DEF LoseRequest, clientVars
<1>3. CASE \E c \in Clients : Client(c)
  <2>1. PICK c \in Clients : Client(c)
    BY <1>3
  <2>2. ~overlapped
    <3>1. CASE \E type, h : Send(c, type, h)
      BY <3>1, Zenon DEF Send
    <3>2. CASE TakeAck(c) \/ TakeNak(c) \/ LoseReply(c)
      BY <3>2 DEF TakeAck, TakeNak, LoseReply, clientVars
    <3> QED
      BY <2>1, <3>1, <3>2 DEF Client, Discover, TakeOffer, RequestAgain, Reboot, Renew, Release,
                              Decline, Inform
  <2> QED
    BY <2>1, <2>2, ClientInTurn
<1>4. CASE UNCHANGED vars
  BY <1>4 DEF vars, serverVars, clientVars, InTurn, DueIsOwned, Due, Owns, Holds,
              OneActive, OneMessage, OfferIsActive, AnswerIsAwaited
<1> QED
  BY <1>1, <1>2, <1>3, <1>4 DEF Next

(* As long as the clients come one after the other, dhcps.c never grants   *)
(* an address that another client holds, and every address held is marked  *)
(* in its table: for any number of clients, every size of the table, and   *)
(* whatever they request, release, decline, lose or repeat.                *)
THEOREM LeasesStaySound == Spec => []LeasesSound
<1>1. LeaseInv => LeasesSound
  <2> SUFFICES ASSUME IInv, DueIsOwned PROVE NoDuplicateLease /\ HeldIsMarked
    BY DEF LeaseInv, InTurn, LeasesSound
  <2>1. \A c \in Clients : \A h \in Hosts : Holds(c, h) => Owns(c, h)
    BY HostsAssumption DEF DueIsOwned, Due, Hosts
  <2> QED
    BY <2>1 DEF NoDuplicateLease, HeldIsMarked, Owns
<1> QED
  BY <1>1, LeaseInit, LeaseNext, PTL DEF Spec
===============================================================================
