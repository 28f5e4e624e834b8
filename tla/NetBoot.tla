------------------------------- MODULE NetBoot -------------------------------
(***************************************************************************)
(* The station gets on the network: the Ethernet interface                 *)
(* (EthernetInterface.cpp) with the DHCP client, the ARP table and the     *)
(* resolver of lwIP under it, on a network whose frames may be lost,       *)
(* repeated or late, with another host on it and a link that may go down.  *)
(*                                                                         *)
(* A step of the stack handles one frame, one timer or one call as         *)
(* tcpip_thread does, and puts what it sends on the wire.  dhcp_start and  *)
(* dhcp_release run in the thread of the application: each takes two steps *)
(* between which the stack may step.                                       *)
(*                                                                         *)
(* Whatever is not the station is external: the router, which is also the  *)
(* DHCP server, a rival host, and name servers behind the router.          *)
(***************************************************************************)
EXTENDS Dhcp

CONSTANTS
    Scenarios,     \* records [calls, terms, again, rival, dead, link, faults]
    RouterIp, RivalMac,
    RouterMac, RouterMac2,   \* the routers of the two networks
    Pool, Pool2,   \* sequences: what the server of each network has to offer
    Remote,        \* addresses behind the router: name servers, hosts with a name
    AddrOf,        \* the addresses of the names; IpAny when there is none
    Ttl,           \* of an answer
    MaxMinutes     \* a bound: a timer that is further from its end is not waited for

Ips == Lan \cup Remote \cup {IpAny, Bcast}

\* What a server may say at first and, again, when it has leased the address to
\* the station before; what the thread of the application may call.
Terms == [t0 : Int, t1 : Int, t2 : Int, gw : {IpAny, RouterIp}, dns : Seq(Ips)]
CallsOf == [op : {"connect", "disconnect"}] \cup [op : {"lookup"}, name : DOMAIN AddrOf]

\* The router is the gateway, and the first host of its network: the one
\* that dhcp_bind takes when the server names none.  The addresses that a
\* server gives away, or a rival uses, are of other hosts of the network.
ASSUME NetAssumption ==
    /\ IpAny \notin Lan /\ Bcast \notin Lan /\ RouterIp \in Lan /\ FirstHost = RouterIp
    /\ MyMac \notin {RouterMac, RouterMac2, RivalMac} /\ RivalMac \notin {RouterMac, RouterMac2}
    /\ EthBroadcast \notin {MyMac, RouterMac, RouterMac2, RivalMac}
    /\ Pool \in Seq(Lan \ {RouterIp}) /\ Pool2 \in Seq(Lan \ {RouterIp})
    /\ DefaultDns \in Ips /\ AddrOf \in [DOMAIN AddrOf -> Ips]
    /\ Ttl \in Nat /\ MaxMinutes \in Nat
    /\ Scenarios \subseteq
           [calls : Seq(CallsOf), terms : Terms, again : Terms,
            rival : (Lan \ {RouterIp}) \cup {IpAny, "takes"},
            dead : Ips, link : {"stays", "breaks", "moves"}, faults : Nat]

VARIABLES
    stk,      \* the stack of the station
    irq,      \* whether the interrupt of the EMAC is enabled
    toNet,    \* frames on their way from the station
    toSta,    \* and to it, those in the receive ring of the EMAC too
    app,      \* the thread that calls: [todo, pc, ret]
    srv,      \* the router and DHCP server: [mac, pool, lease, left, bad]
    rival,    \* the other host: [ip, leased]
    faults,   \* how much may still go wrong, or age
    sc        \* the scenario, which does not change

vars == <<stk, irq, toNet, toSta, app, srv, rival, faults, sc>>

Host == <<srv, rival, sc>>

(***************************************************************************)
(* Input.                                                                  *)
(***************************************************************************)

etharp_arp_input(s, f) ==
    LET forUs == s.ip # IpAny /\ f.dip = s.ip
        t == update_arp_entry(s, f.sip, f.smac, forUs)
    IN  CASE f.op = "request" /\ forUs ->
                linkoutput(t, [eth |-> "arp", to |-> f.smac, op |-> "reply",
                               sip |-> s.ip, smac |-> MyMac, dip |-> f.sip])
          [] f.op = "reply" -> dhcp_arp_reply(t, f.sip)
          [] OTHER -> t

\* A datagram to a port nobody listens on is answered with ICMP.
udp_input(s, p) ==
    CASE p.kind = "dhcp" -> dhcp_recv(s, p.m)
      [] p.kind = "dns" /\ p.sip = s.dns.conn -> dns_recv(s, p.m)
      [] OTHER -> udp_sendto(s, p.sip, "icmp", [type |-> "unreach"])

\* A DHCP message is taken whatever address it is sent to.
ip_input(s, p) ==
    LET mine == s.up /\ s.ip # IpAny /\ (p.dip = s.ip \/ IsBroadcast(p.dip))
    IN  IF p.kind = "dhcp" \/ mine THEN udp_input(s, p) ELSE s

ethernet_input(s, f) == IF f.eth = "arp" THEN etharp_arp_input(s, f) ELSE ip_input(s, f.p)

netif_set_link_up(s) ==
    LET t == dhcp_network_changed([s EXCEPT !.link = TRUE])
    IN  IF s.link THEN s ELSE IF t.up THEN etharp_request(t, t.ip) ELSE t

(***************************************************************************)
(* Steps of the stack.                                                     *)
(***************************************************************************)

\* The stack is now s; in is what is on the way to it.
Step(s, in) ==
    LET Seen(fs) == IF s.newxid THEN OutdatedAll(fs) ELSE fs
    IN  /\ stk' = [s EXCEPT !.out = <<>>, !.newxid = FALSE]
        /\ toNet' = Seen(toNet) \o (IF s.link THEN s.out ELSE <<>>)
        /\ toSta' = Seen(in)

Quiet == toNet = <<>> /\ (toSta = <<>> \/ ~ irq)

Fault == faults > 0 /\ faults' = faults - 1

\* A timer is slower than the network, or else this is one of the faults.
InTime == IF Quiet THEN faults' = faults ELSE Fault

Deliver ==
    /\ irq /\ toSta # <<>>
    /\ Step(ethernet_input(stk, Head(toSta)), Tail(toSta))
    /\ UNCHANGED <<irq, app, Host, faults>>

FineTimer ==
    /\ stk.dhcp.armed
    /\ InTime
    /\ Step(dhcp_fine_tmr(stk), toSta)
    /\ UNCHANGED <<irq, app, Host>>

\* A minute.  The checks of an address and the tries to rebind are over
\* within one, and no frame is on its way for so long.
CoarseTimer ==
    /\ Quiet
    /\ stk.dhcp.st \notin {"CHECKING", "REBINDING"}
    /\ srv' = [srv EXCEPT !.left = IF @ \in {0, Infinite} THEN @ ELSE @ - 1]
    /\ {stk.dhcp.t1, stk.dhcp.t2} \cap (1 .. MaxMinutes) # {} \/ srv' # srv
    /\ Step(dhcp_coarse_tmr(stk), toSta)
    /\ UNCHANGED <<irq, app, rival, faults, sc>>

DnsTimer ==
    /\ \E i \in Names : \/ stk.dns.tab[i].st = "ASKING"
                        \/ stk.dns.tab[i].st = "DONE" /\ stk.dns.tab[i].ttl # 0
    /\ InTime
    /\ Step(dns_check_entries(stk), toSta)
    /\ UNCHANGED <<irq, app, Host>>

\* Entries age.  That happens all the time; a run bounds how often.
ArpTimer ==
    /\ \E i \in Slots : stk.arp[i].st # "EMPTY"
    /\ Fault
    /\ Step(etharp_tmr(stk), toSta)
    /\ UNCHANGED <<irq, app, Host>>

(***************************************************************************)
(* The application.                                                        *)
(***************************************************************************)

Calls(op) == app.todo # <<>> /\ Head(app.todo).op = op

Returned(x) == [todo |-> Tail(app.todo), pc |-> "ready", ret |-> <<Head(app.todo), x>>]

ConnectStarts ==
    /\ Calls("connect") /\ app.pc = "ready"
    /\ irq' = TRUE
    /\ Step(dhcp_start(stk), toSta)
    /\ app' = [app EXCEPT !.pc = "discover"]
    /\ UNCHANGED <<Host, faults>>

ConnectDiscovers ==
    /\ app.pc = "discover"
    /\ Step(dhcp_discover(stk), toSta)
    /\ app' = [app EXCEPT !.pc = "netif_up"]
    /\ UNCHANGED <<irq, Host, faults>>

ConnectReturns ==
    /\ app.pc = "netif_up" /\ stk.tokens > 0
    /\ stk' = [stk EXCEPT !.tokens = @ - 1]
    /\ app' = Returned(0)
    /\ UNCHANGED <<irq, toNet, toSta, Host, faults>>

ConnectTimesOut ==
    /\ app.pc = "netif_up" /\ stk.tokens = 0
    /\ app' = Returned(-1)
    /\ UNCHANGED <<stk, irq, toNet, toSta, Host, faults>>

DisconnectReleases ==
    /\ Calls("disconnect") /\ app.pc = "ready"
    /\ Step(ReleaseMessage(stk), toSta)
    /\ app' = [app EXCEPT !.pc = "down"]
    /\ UNCHANGED <<irq, Host, faults>>

DisconnectReturns ==
    /\ app.pc = "down"
    /\ Step(dhcp_stop(Unconfigured(stk)), toSta)
    /\ irq' = FALSE
    /\ app' = Returned(0)
    /\ UNCHANGED <<Host, faults>>

\* netconn_gethostbyname hands the name to tcpip_thread and waits.
Lookup ==
    /\ Calls("lookup") /\ app.pc = "ready"
    /\ Step(dns_gethostbyname(stk, Head(app.todo).name), toSta)
    /\ app' = [app EXCEPT !.pc = "sem"]
    /\ UNCHANGED <<irq, Host, faults>>

LookupReturns ==
    /\ app.pc = "sem" /\ stk.found # <<>>
    /\ stk' = [stk EXCEPT !.found = <<>>]
    /\ app' = Returned(Head(stk.found))
    /\ UNCHANGED <<irq, toNet, toSta, Host, faults>>

(***************************************************************************)
(* The other hosts.                                                        *)
(***************************************************************************)

Leased == srv.left # 0

\* The terms on which the server gives an address.
TermsFor(ip) == IF Leased /\ srv.lease = ip THEN sc.again ELSE sc.terms

\* Where in its pool the server has an address to offer, as far as it knows.
Free ==
    {n \in DOMAIN srv.pool : srv.pool[n] \notin srv.bad
                             /\ ~ (rival.leased /\ rival.ip = srv.pool[n])}

IsFree(ip) == \E n \in Free : srv.pool[n] = ip

Asked(m) == IF m.req # IpAny THEN m.req ELSE m.ci

Reply(type, m, ip) ==
    << [eth |-> "ip", to |-> MyMac,
        p |-> [sip |-> RouterIp, dip |-> IF type = "NAK" THEN Bcast ELSE ip, kind |-> "dhcp",
               m |-> [type |-> type, cur |-> m.cur, yi |-> ip, sid |-> RouterIp,
                      terms |-> TermsFor(ip)]]] >>

Nothing == [ans |-> <<>>, srv |-> srv]

\* The server keeps the address of the station while its lease lasts.
ServeDhcp(m) ==
    CASE m.type = "DISCOVER" /\ Free # {} ->
            [ans |-> Reply("OFFER", m, IF Leased /\ IsFree(srv.lease) THEN srv.lease
                                       ELSE srv.pool[Min(Free)]),
             srv |-> srv]
      [] m.type = "REQUEST" /\ Asked(m) # IpAny /\ IsFree(Asked(m)) ->
            [ans |-> Reply("ACK", m, Asked(m)),
             srv |-> [srv EXCEPT !.lease = Asked(m),
                                 !.left = TimerFor(TermsFor(Asked(m)).t0, Infinite)]]
      [] m.type = "REQUEST" /\ Asked(m) # IpAny /\ ~ IsFree(Asked(m)) ->
            [ans |-> Reply("NAK", m, IpAny), srv |-> srv]
      [] m.type = "DECLINE" ->
            [ans |-> <<>>, srv |-> [srv EXCEPT !.bad = @ \cup {m.req}, !.left = 0]]
      [] OTHER -> Nothing

ArpFrame(op, ip, mac, dip, to) ==
    [eth |-> "arp", to |-> to, op |-> op, sip |-> ip, smac |-> mac, dip |-> dip]

MacOf(ip) == IF ip = RouterIp THEN srv.mac ELSE IF ip = rival.ip THEN RivalMac ELSE IpAny

ServeArp(f) ==
    IF f.op = "request" /\ f.dip \in {RouterIp, rival.ip}
    THEN [ans |-> <<ArpFrame("reply", f.dip, MacOf(f.dip), f.sip, MyMac)>>, srv |-> srv]
    ELSE Nothing

ServeDns(p) ==
    IF p.dip = sc.dead THEN Nothing
    ELSE [ans |-> << [eth |-> "ip", to |-> MyMac,
                      p |-> [sip |-> p.dip, dip |-> p.sip, kind |-> "dns",
                             m |-> [id |-> p.m.id, name |-> p.m.name, ttl |-> Ttl,
                                    ok |-> AddrOf[p.m.name] # IpAny,
                                    addr |-> AddrOf[p.m.name]]]] >>,
          srv |-> srv]

Served(f) ==
    CASE f.eth = "arp" -> ServeArp(f)
      [] f.eth = "ip" /\ f.to \in {srv.mac, EthBroadcast} /\ f.p.kind = "dhcp" -> ServeDhcp(f.p.m)
      [] f.eth = "ip" /\ f.to = srv.mac /\ f.p.kind = "dns" -> ServeDns(f.p)
      [] OTHER -> Nothing

Serve ==
    /\ toNet # <<>>
    /\ LET r == Served(Head(toNet))
       IN  toNet' = Tail(toNet) /\ toSta' = toSta \o r.ans /\ srv' = r.srv
    /\ UNCHANGED <<stk, irq, app, rival, faults, sc>>

\* The server leases an address that is free to the other host.
RivalTakes ==
    /\ sc.rival = "takes" /\ rival.ip = IpAny /\ stk.dhcp.st # "OFF"
    /\ \E n \in Free :
           LET ip == srv.pool[n]
           IN  /\ ~ (Leased /\ ip = srv.lease)
               /\ rival' = [ip |-> ip, leased |-> TRUE]
               /\ toSta' = IF stk.link THEN Append(toSta, ArpFrame("request", ip, RivalMac, ip,
                                                                   EthBroadcast))
                           ELSE toSta
    /\ UNCHANGED <<stk, irq, toNet, app, srv, faults, sc>>

\* A host asks for the address of the station.
Asks ==
    /\ Fault /\ stk.link /\ stk.up
    /\ \E ip \in {RouterIp, rival.ip} \ {IpAny} :
           toSta' = Append(toSta, ArpFrame("request", ip, MacOf(ip), stk.ip, EthBroadcast))
    /\ UNCHANGED <<stk, irq, toNet, app, Host>>

Lose ==
    /\ Fault
    /\ \/ toNet # <<>> /\ toNet' = Tail(toNet) /\ UNCHANGED toSta
       \/ toSta # <<>> /\ toSta' = Tail(toSta) /\ UNCHANGED toNet
    /\ UNCHANGED <<stk, irq, app, Host>>

\* A frame comes again, later.
Repeat ==
    /\ Fault
    /\ toSta # <<>> /\ toSta' = Append(toSta, Head(toSta))
    /\ UNCHANGED <<stk, irq, toNet, app, Host>>

LinkDown ==
    /\ Fault /\ stk.link /\ sc.link # "stays"
    /\ stk' = netif_set_link_down(stk)
    /\ toNet' = <<>> /\ toSta' = <<>>
    /\ UNCHANGED <<irq, app, Host>>

\* The link comes back, on another network if the station has been moved.
LinkUp ==
    /\ ~ stk.link
    /\ Step(netif_set_link_up(stk), toSta)
    /\ \/ srv' = srv
       \/ /\ sc.link = "moves" /\ srv.pool = Pool /\ stk.dhcp.st # "OFF"
          /\ srv' = [mac |-> RouterMac2, pool |-> Pool2, lease |-> IpAny, left |-> 0, bad |-> {}]
    /\ UNCHANGED <<irq, app, rival, faults, sc>>

-----------------------------------------------------------------------------

Init ==
    /\ sc \in Scenarios
    /\ stk = [ip |-> IpAny, mask |-> IpAny, gw |-> IpAny, up |-> FALSE, link |-> FALSE,
              tokens |-> 0, arp |-> [i \in Slots |-> Empty], hint |-> 1, out |-> <<>>,
              newxid |-> FALSE, dns |-> dns_init, found |-> <<>>, dhcp |-> Cleared]
    /\ irq = FALSE
    /\ toNet = <<>> /\ toSta = <<>>
    /\ app = [todo |-> sc.calls, pc |-> "ready", ret |-> <<>>]
    /\ srv = [mac |-> RouterMac, pool |-> Pool, lease |-> IpAny, left |-> 0, bad |-> {}]
    /\ rival = [ip |-> IF sc.rival = "takes" THEN IpAny ELSE sc.rival, leased |-> FALSE]
    /\ faults = sc.faults

Next ==
    \/ Deliver \/ FineTimer \/ CoarseTimer \/ DnsTimer \/ ArpTimer
    \/ ConnectStarts \/ ConnectDiscovers \/ ConnectReturns \/ ConnectTimesOut
    \/ DisconnectReleases \/ DisconnectReturns \/ Lookup \/ LookupReturns
    \/ Serve \/ RivalTakes \/ Asks \/ Lose \/ Repeat \/ LinkDown \/ LinkUp

Spec == Init /\ [][Next]_vars

\* Frames are served and delivered, the thread of the application runs, the
\* link comes back; timers are periodic, so one that may step again and again
\* does.  The conditions of the actions are written out.
FairSpec ==
    /\ Spec
    /\ []<>(toNet = <<>>) \/ []<><<Serve>>_vars
    /\ []<>(toSta = <<>> \/ ~ irq) \/ []<><<Deliver>>_vars
    /\ []<>stk.link
    /\ []<>(app.todo = <<>> \/ (app.pc = "sem" /\ stk.found = <<>>)) \/ []<><<app' # app>>_vars
    /\ <>[](~ Quiet \/ ~ stk.dhcp.armed) \/ []<><<FineTimer>>_vars
    /\ <>[](~ Quiet \/ stk.dhcp.t2 \notin 1 .. MaxMinutes
              \/ stk.dhcp.st \in {"CHECKING", "REBINDING"})
       \/ []<><<CoarseTimer>>_vars
    /\ <>[](~ Quiet \/ app.pc # "sem" \/ stk.found # <<>>) \/ []<><<DnsTimer>>_vars

(***************************************************************************)
(* Properties.                                                             *)
(***************************************************************************)

Holding == stk.up /\ stk.dhcp.st \in {"BOUND", "RENEWING", "REBINDING"}

\* An address that the station got from the server and uses is not the
\* address of another host: neither of one that took an address the server
\* had leased before, nor of one that uses it without the server's knowledge.
\* dhcp_check asks twice, so that one lost or late frame does not matter (a
\* link that is down meanwhile does: the scenarios with a squatter keep it).
OneOwner == Holding => stk.ip # rival.ip

\* The time to rebind, if terms a say it and rounded to minutes as dhcp_bind
\* does, is over before a lease on terms b is.
RebindsWithin(a, b) ==
    /\ a.t2 # NotGiven
    /\ b.t0 # Infinite => a.t2 # Infinite /\ Minutes(a.t2) < Minutes(b.t0)

\* The station uses an address only while the server keeps it: the lease is
\* renewed, or given back before it ends, however messages and the link fail
\* (dhcp_coarse_tmr, dhcp_t1_timeout, dhcp_t2_timeout, dhcp_network_changed).
\* This is claimed of servers whose times stay in order when they are rounded,
\* and none of whose leases is over before the time to rebind that came with
\* the first: those that come with a renewal are not looked at (dhcp_recv).
KeptAddressIsLeased ==
    Holding /\ (\A a, b \in {sc.terms, sc.again} : RebindsWithin(a, b)) =>
        Leased /\ srv.lease = stk.ip

\* Who has, or had on the network before, an address.
MacsOf(ip) == IF ip = RouterIp THEN {RouterMac, srv.mac} ELSE {MacOf(ip)}

\* A packet goes to the host that has its address, or to the router that
\* passes it on, whatever entries of the ARP table were recycled, expired or
\* resolved meanwhile, and an address has one entry (find_entry, free_entry,
\* update_arp_entry, etharp_query).  A change of network clears no entry, so
\* the router may be the one that had this address before.
SentWhereClaimed ==
    /\ \A n \in DOMAIN toNet :
           LET f == toNet[n]
           IN  f.eth = "ip" /\ f.to # EthBroadcast =>
                   f.to \in MacsOf(IF f.p.dip \in Lan THEN f.p.dip ELSE RouterIp)
    /\ \A i, j \in Slots : i # j /\ stk.arp[i].st # "EMPTY" /\ stk.arp[j].st # "EMPTY" =>
           stk.arp[i].ip # stk.arp[j].ip

\* The addresses that may pass for name's: its own, and those of the names
\* that dns_compare_name does not tell from it.
Passing(name) == {AddrOf[n] : n \in {n \in DOMAIN AddrOf : dns_compare_name(name, n)}}

\* A lookup gives the address of the name it was called with, or of one that
\* begins it or that it begins, or fails; a late or repeated answer to another
\* question is never taken for it (the comparison of dns_recv; the entry
\* number is the only id of a question).
LookupsOwn ==
    app.ret # <<>> /\ app.ret[1].op = "lookup" =>
        app.ret[2] \in {IpAny} \cup Passing(app.ret[1].name)

\* The callback of an entry writes through a pointer to the stack of the call
\* that asked (netconn_gethostbyname): whenever an entry can still call, that
\* call waits, for this name, and has not been answered.
CallbackTargetsLive ==
    \A i \in Names : stk.dns.tab[i].st = "ASKING" =>
        app.pc = "sem" /\ stk.found = <<>> /\ stk.dns.tab[i].name = Head(app.todo).name

\* Every lookup returns, with dead servers, lost answers and a link that is
\* down: the retries of dns_check_entry end.
LookupsReturn == app.pc = "sem" ~> app.pc = "ready"

\* A client that runs gets an address, or is stopped: no lost message, refusal,
\* conflict or change of network leaves dhcp_timeout with nothing to wait for.
AddressAgain == stk.dhcp.st # "OFF" ~> stk.dhcp.st \in {"BOUND", "OFF"}
=============================================================================
