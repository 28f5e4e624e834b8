------------------------------- MODULE Etharp -------------------------------
(***************************************************************************)
(* The Ethernet interface of the station and its ARP table                 *)
(* (lwip/core/netif.c, lwip/netif/etharp.c), as tcpip_thread runs them.    *)
(*                                                                         *)
(* An operator takes the stack, a record, and gives the stack as the       *)
(* function of its name leaves it.  Of the record this module uses         *)
(*   ip, mask, gw   the addresses of the interface; mask is IpAny or Net     *)
(*   up, link       its flags                                              *)
(*   tokens         of the semaphore netif_up of EthernetInterface.cpp     *)
(*   arp, hint      the table and etharp_cached_entry                      *)
(*   out            the frames given to linkoutput in this step            *)
(* ARP_QUEUEING is 0: an entry keeps one packet.  No allocation fails.     *)
(***************************************************************************)
EXTENDS Integers, Sequences, FiniteSets, FiniteSetsExt

CONSTANTS
    ARP_TABLE_SIZE,
    ARP_MAXAGE, ARP_MAXPENDING,   \* in calls of etharp_tmr
    Lan,                          \* unicast addresses of the local network
    MyMac                         \* netif->hwaddr

ASSUME ArpAssumption ==
    /\ ARP_TABLE_SIZE \in Nat \ {0}
    /\ ARP_MAXPENDING \in Nat \ {0} /\ ARP_MAXAGE \in Nat \ {0}

IpAny == "0.0.0.0"
Bcast == "255.255.255.255"
Net == "mask"
EthBroadcast == "ff:ff:ff:ff:ff:ff"

Slots == 1 .. ARP_TABLE_SIZE

\* What an entry holds does not matter while its state is EMPTY.
Empty == [st |-> "EMPTY", ip |-> IpAny, mac |-> EthBroadcast, q |-> <<>>, ctime |-> 0]

IsBroadcast(ip) == ip \in {IpAny, Bcast}

linkoutput(s, f) == [s EXCEPT !.out = Append(@, f)]

(***************************************************************************)
(* The table.                                                              *)
(***************************************************************************)

\* Mutant: the packet that waited in the entry stays there.
FreeKeepsPacket(e) == [Empty EXCEPT !.q = e.q]

free_entry(e) == Empty

Aged(e) == [e EXCEPT !.ctime = @ + 1]
TooOld(e) == e.ctime >= ARP_MAXAGE \/ (e.st = "PENDING" /\ e.ctime >= ARP_MAXPENDING)

etharp_tmr(s) ==
    [s EXCEPT !.arp = [i \in Slots |->
        CASE s.arp[i].st = "EMPTY" -> s.arp[i]
          [] s.arp[i].st # "EMPTY" /\ TooOld(Aged(s.arp[i])) -> free_entry(s.arp[i])
          [] OTHER -> Aged(s.arp[i])]]

\* The oldest of some entries; of two equally old the later one.
Oldest(s, S) ==
    CHOOSE i \in S : \A j \in S :
        s.arp[j].ctime < s.arp[i].ctime \/ (s.arp[j].ctime = s.arp[i].ctime /\ j <= i)

Matching(s, ip) == {i \in Slots : s.arp[i].st # "EMPTY" /\ s.arp[i].ip = ip}

\* The least destructive entry to recycle.
Recycled(s) ==
    LET empty == {i \in Slots : s.arp[i].st = "EMPTY"}
        stable == {i \in Slots : s.arp[i].st = "STABLE"}
        pending == {i \in Slots : s.arp[i].st = "PENDING" /\ s.arp[i].q = <<>>}
    IN  CASE empty # {} -> Min(empty)
          [] empty = {} /\ stable # {} -> Oldest(s, stable)
          [] empty = {} /\ stable = {} /\ pending # {} -> Oldest(s, pending)
          [] OTHER -> Oldest(s, Slots)

\* The entry of an address: the one there is, or a new one.  The callers
\* that may not create an entry look at Matching first.
find_entry(s, ip) ==
    IF Matching(s, ip) # {} THEN Min(Matching(s, ip)) ELSE Recycled(s)

\* The table when find_entry has returned.
Found(s, ip) ==
    IF Matching(s, ip) # {} THEN s
    ELSE LET i == Recycled(s)
             e == IF s.arp[i].st = "EMPTY" THEN s.arp[i] ELSE free_entry(s.arp[i])
         IN  [s EXCEPT !.arp[i] = [e EXCEPT !.ip = ip, !.ctime = 0]]

etharp_send_ip(s, p, mac) == linkoutput(s, [eth |-> "ip", to |-> mac, p |-> p])

\* A pending entry that is resolved sends its packet.
update_arp_entry(s, ip, mac, hard) ==
    LET i == find_entry(s, ip)
        t == Found(s, ip)
        e == [t.arp[i] EXCEPT !.st = "STABLE", !.mac = mac, !.ctime = 0, !.q = <<>>]
    IN  IF IsBroadcast(ip) \/ (~ hard /\ Matching(s, ip) = {}) THEN s
        ELSE IF t.arp[i].q = <<>> THEN [t EXCEPT !.arp[i] = e]
        ELSE etharp_send_ip([t EXCEPT !.arp[i] = e], Head(t.arp[i].q), mac)

etharp_request(s, ip) ==
    linkoutput(s, [eth |-> "arp", to |-> EthBroadcast, op |-> "request",
                   sip |-> s.ip, smac |-> MyMac, dip |-> ip])

\* q is empty or holds the packet that is to be sent.
etharp_query(s, ip, q) ==
    LET i == find_entry(s, ip)
        f == Found(s, ip)
        t == IF f.arp[i].st = "EMPTY" THEN [f EXCEPT !.arp[i].st = "PENDING"] ELSE f
    IN  CASE IsBroadcast(ip) -> s
          [] ~ IsBroadcast(ip) /\ q = <<>> -> etharp_request(t, ip)
          [] ~ IsBroadcast(ip) /\ q # <<>> /\ t.arp[i].st = "STABLE" ->
                etharp_send_ip([t EXCEPT !.hint = i], Head(q), t.arp[i].mac)
          [] OTHER -> [etharp_request(t, ip) EXCEPT !.arp[i].q = q]

(***************************************************************************)
(* Output of IP packets, [sip, dip, kind, m].                              *)
(***************************************************************************)

\* ip_addr_netcmp with the mask of the interface: every address matches 0.
OnLink(s, ip) == s.mask = IpAny \/ ip \in Lan

NextHop(s, ip) == IF OnLink(s, ip) THEN ip ELSE s.gw

etharp_output(s, p) ==
    LET hop == NextHop(s, p.dip)
        e == s.arp[s.hint]
    IN  CASE IsBroadcast(p.dip) -> etharp_send_ip(s, p, EthBroadcast)
          [] ~ IsBroadcast(p.dip) /\ ~ OnLink(s, p.dip) /\ s.gw = IpAny -> s
          [] ~ IsBroadcast(p.dip) /\ (OnLink(s, p.dip) \/ s.gw # IpAny) /\ e.st = "STABLE"
                /\ e.ip = hop -> etharp_send_ip(s, p, e.mac)
          [] OTHER -> etharp_query(s, hop, <<p>>)

\* The driver sends no packet while its link is down.
lpc_etharp_output(s, p) == IF s.link THEN etharp_output(s, p) ELSE s

\* udp_sendto_if: on the interface whatever its state, from its address.
udp_sendto_if(s, dip, kind, m) ==
    lpc_etharp_output(s, [sip |-> s.ip, dip |-> dip, kind |-> kind, m |-> m])

\* udp_sendto: ip_route wants an interface that is up.
udp_sendto(s, dip, kind, m) == IF s.up THEN udp_sendto_if(s, dip, kind, m) ELSE s

(***************************************************************************)
(* The interface.  netif_status_callback releases netif_up.                *)
(***************************************************************************)

netif_set_addr(s, ip, mask, gw) == [s EXCEPT !.ip = ip, !.mask = mask, !.gw = gw]

netif_set_up(s) ==
    LET t == [s EXCEPT !.up = TRUE, !.tokens = @ + 1]
    IN  IF s.up THEN s ELSE IF s.link THEN etharp_request(t, t.ip) ELSE t

netif_set_down(s) == [s EXCEPT !.up = FALSE]

netif_set_link_down(s) == [s EXCEPT !.link = FALSE]
=============================================================================
