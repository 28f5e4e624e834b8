---------------------------- MODULE NetBootProofs ----------------------------
(***************************************************************************)
(* What NetBoot keeps, for every size of the tables, every number of       *)
(* servers and retries, every pool, every sequence of calls and every      *)
(* number of faults: packets go to the host they are for, lookups take no  *)
(* answer that dns_compare_name tells from theirs, and no question         *)
(* outlives its call.                                                      *)
(*                                                                         *)
(* The argument: an entry of the ARP table is written only with what a     *)
(* host says of itself, and a packet waits only in the entry of its next   *)
(* hop, so a packet that an entry sends goes to the right host (EntryOK,   *)
(* MayWait, SentOK).  An open question of the resolver has the name that   *)
(* the one call awaits, and calls back once (Live).  Most operators of the *)
(* stack touch neither: they keep the stack Good and leave the table of    *)
(* the resolver and found as they were (Kept).                             *)
(***************************************************************************)
EXTENDS NetBoot, WellFoundedInduction, TLAPS

\* Names that can be looked up, and the text of a name that has been flushed.
HostNames == DOMAIN AddrOf

(***************************************************************************)
(* Types.                                                                  *)
(***************************************************************************)

Macs == {MyMac, RouterMac, RouterMac2, RivalMac, EthBroadcast, IpAny}

\* What the station sends: DHCP messages, questions and ICMP.
DhcpOut ==
    [type : {"DISCOVER", "REQUEST", "DECLINE", "RELEASE"}, cur : BOOLEAN, req : Ips, ci : Ips]
DnsOut == [id : Names, name : HostNames]
IcmpOut == [type : {"unreach"}]
DhcpPackets == [sip : Ips, dip : Ips, kind : {"dhcp"}, m : DhcpOut]
DnsPackets == [sip : Ips, dip : Ips, kind : {"dns"}, m : DnsOut]
IcmpPackets == [sip : Ips, dip : Ips, kind : {"icmp"}, m : IcmpOut]
Packets == DhcpPackets \cup DnsPackets \cup IcmpPackets

ArpFrames ==
    [eth : {"arp"}, to : Macs, op : {"request", "reply"}, sip : Ips, smac : Macs,
     dip : Ips]
IpFrames == [eth : {"ip"}, to : Macs, p : Packets]
OutFrames == ArpFrames \cup IpFrames

\* What it receives: replies of the DHCP server, and answers.
DhcpIn == [type : {"OFFER", "ACK", "NAK"}, cur : BOOLEAN, yi : Ips, sid : Ips, terms : Terms]
DnsIn == [id : Names, name : HostNames, ttl : Nat, ok : BOOLEAN, addr : Ips]
DhcpReplies == [sip : Ips, dip : Ips, kind : {"dhcp"}, m : DhcpIn]
DnsAnswers == [sip : Ips, dip : Ips, kind : {"dns"}, m : DnsIn]
InIpFrames == [eth : {"ip"}, to : Macs, p : DhcpReplies \cup DnsAnswers]
InFrames == ArpFrames \cup InIpFrames

Entries ==
    [st : {"EMPTY", "PENDING", "STABLE"}, ip : Ips, mac : Macs, q : Seq(Packets),
     ctime : 0 .. ARP_MAXAGE]

Questions ==
    [st : {"UNUSED", "NEW", "ASKING", "DONE"}, name : HostNames \cup {""},
     num : 1 .. DNS_MAX_SERVERS, tmr : Int, retries : Int, seqno : Nat, ttl : Int, addr : Ips]

Resolvers ==
    [tab : [Names -> Questions], seqno : Nat, conn : Ips,
     servers : [1 .. DNS_MAX_SERVERS -> Ips]]

DhcpStates ==
    {"OFF", "SELECTING", "REQUESTING", "CHECKING", "BOUND", "RENEWING", "REBINDING",
     "REBOOTING", "BACKING_OFF"}

Clients ==
    [st : DhcpStates, tries : Int, armed : BOOLEAN, server : Ips, offered : Ips,
     offgw : {IpAny, RouterIp}, t0 : Int, t1r : Int, t2r : Int, t1 : Int, t2 : Int]

Stacks ==
    [ip : Ips, mask : {IpAny, Net}, gw : {IpAny, RouterIp}, up : BOOLEAN, link : BOOLEAN,
     tokens : Int, arp : [Slots -> Entries], hint : Slots, out : Seq(OutFrames),
     newxid : BOOLEAN, dns : Resolvers, found : Seq(Ips), dhcp : Clients]

(***************************************************************************)
(* The ARP table.                                                          *)
(***************************************************************************)

\* The addresses whose owner answers.
Hosts == {RouterIp, rival.ip} \ {IpAny}

\* The host that a packet must be sent to.
HopOf(p) == IF p.dip \in Lan THEN p.dip ELSE RouterIp

\* A frame that the station sent to one host went to the right one.
SentOK(f) ==
    f.eth = "ip" /\ f.to # EthBroadcast => HopOf(f.p) \in Hosts /\ f.to \in MacsOf(HopOf(f.p))

\* Hosts tell the truth about themselves.
HeardOK(f) == f.eth = "arp" /\ f.sip # IpAny => f.sip \in Hosts /\ f.smac \in MacsOf(f.sip)

\* A packet may wait for this address: its destination or, off the network,
\* the router.
MayWait(p, ip) == IF p.dip \in Lan THEN ip = p.dip ELSE ip \in {p.dip, RouterIp}

EntryOK(e) ==
    /\ e.st = "EMPTY" => e.q = <<>>
    /\ e.st = "STABLE" => e.ip \in Hosts /\ e.mac \in MacsOf(e.ip)
    /\ \A n \in DOMAIN e.q : MayWait(e.q[n], e.ip)

\* No address has two entries.
OneEntry(s) ==
    \A i, j \in Slots : i # j /\ s.arp[i].st # "EMPTY" /\ s.arp[j].st # "EMPTY" =>
        s.arp[i].ip # s.arp[j].ip

Good(s) ==
    /\ s \in Stacks
    /\ \A i \in Slots : EntryOK(s.arp[i])
    /\ OneEntry(s)
    /\ \A n \in DOMAIN s.out : SentOK(s.out[n])

(***************************************************************************)
(* The resolver.                                                           *)
(***************************************************************************)

Open(s, i) == s.dns.tab[i].st \in {"NEW", "ASKING"}

\* What the resolver may say of a name.
Answers(name) == {IpAny} \cup Passing(name)

\* ns holds the name that a call waits for, if one does.  An entry that can
\* call back asks for this name, is the only one, and has not called.
Live(s, ns) ==
    /\ \A i \in Names : Open(s, i) => s.dns.tab[i].name \in ns /\ s.found = <<>>
    /\ \A i, j \in Names : Open(s, i) /\ Open(s, j) => i = j
    /\ \A i \in Names : s.dns.tab[i].st = "DONE" =>
           s.dns.tab[i].name \in HostNames /\ s.dns.tab[i].addr \in Passing(s.dns.tab[i].name)
    /\ s.found # <<>> => \E n \in ns : s.found[1] \in Answers(n)

Awaited == IF app.pc = "sem" THEN {Head(app.todo).name} ELSE {}

\* An answer holds the address of the name it holds.
AnswerOK(f) ==
    f.eth = "ip" /\ f.p.kind = "dns" /\ f.p.m.ok => f.p.m.addr = AddrOf[f.p.m.name]

(***************************************************************************)
(* The inductive invariant.                                                *)
(***************************************************************************)

OpOf == [discover |-> "connect", netif_up |-> "connect", down |-> "disconnect", sem |-> "lookup"]

CallShape ==
    /\ app = [todo |-> app.todo, pc |-> app.pc, ret |-> app.ret]
    /\ app.todo \in Seq(CallsOf)
    /\ app.pc \in {"ready"} \cup DOMAIN OpOf
    /\ app.pc # "ready" => app.todo # <<>> /\ Head(app.todo).op = OpOf[app.pc]

HostTypes ==
    /\ srv \in [mac : {RouterMac, RouterMac2}, pool : Seq(Lan \ {RouterIp}), lease : Ips, left : Int, bad : SUBSET Ips]
    /\ rival \in [ip : (Lan \ {RouterIp}) \cup {IpAny}, leased : BOOLEAN]
    /\ sc \in Scenarios /\ irq \in BOOLEAN

WireOK ==
    /\ toNet \in Seq(OutFrames) /\ toSta \in Seq(InFrames)
    /\ \A n \in DOMAIN toNet : SentOK(toNet[n])
    /\ \A n \in DOMAIN toSta : HeardOK(toSta[n]) /\ AnswerOK(toSta[n])

IndInv ==
    /\ HostTypes /\ CallShape /\ WireOK
    /\ Good(stk) /\ stk.out = <<>>
    /\ Live(stk, Awaited)
    /\ LookupsOwn
-----------------------------------------------------------------------------
(***************************************************************************)
(* Choices that the code makes among entries.                              *)
(***************************************************************************)

\* A set of numbers has a smallest one.
LEMMA LeastElement ==
    ASSUME NEW T, T \subseteq Nat, T # {}
    PROVE  \E x \in T : \A y \in T : x <= y
<1>1. OpToRel(<, Nat) = {ss \in Nat \X Nat : ss[1] < ss[2]}
  BY Zenon DEF OpToRel
<1>2. \E O : IsWellFoundedOn(O, Nat) /\ O = {ss \in Nat \X Nat : ss[1] < ss[2]}
  BY <1>1, NatLessThanWellFounded, Zenon
<1>3. PICK O : IsWellFoundedOn(O, Nat) /\ O = {ss \in Nat \X Nat : ss[1] < ss[2]}
  BY <1>2
<1>4. PICK x \in T : \A y \in T : ~(<<y, x>> \in O)
  BY <1>3, WFMin, Zenon
<1>5. \A a, b \in Nat : a < b => <<a, b>> \in O
  BY <1>3
<1>6. ASSUME NEW y \in T PROVE x <= y
  <2>1. x \in Nat /\ y \in Nat /\ ~(y < x)
    BY <1>4, <1>5
  <2> QED BY <2>1
<1> QED BY <1>6

\* It is the one that Min gives.
LEMMA MinInSet ==
    ASSUME NEW T, T \subseteq Nat, T # {}
    PROVE  Min(T) \in T
  BY LeastElement DEF Min

\* Some entries have an oldest one.
LEMMA OldestInSet ==
    ASSUME NEW s \in Stacks, NEW S, S \subseteq Slots, S # {}
    PROVE  Oldest(s, S) \in S
<1> DEFINE Young(i) == ARP_MAXAGE - s.arp[i].ctime
           Y == {Young(i) : i \in S}
<1>1. \A i \in S : i \in Nat /\ ARP_TABLE_SIZE - i \in Nat
                   /\ s.arp[i].ctime \in Nat /\ Young(i) \in Nat
  <2> SUFFICES ASSUME NEW i \in S
               PROVE  i \in Nat /\ ARP_TABLE_SIZE - i \in Nat
                      /\ s.arp[i].ctime \in Nat /\ Young(i) \in Nat
    OBVIOUS
  <2>1. i \in Slots /\ s.arp \in [Slots -> Entries]
    BY DEF Stacks
  <2>2. s.arp[i] \in Entries
    BY <2>1
  <2>3. s.arp[i].ctime \in 0 .. ARP_MAXAGE
    BY <2>2 DEF Entries
  <2> QED BY <2>1, <2>3, ArpAssumption DEF Slots
<1>2. PICK y \in Y : \A z \in Y : y <= z
  <2>1. Y \subseteq Nat /\ Y # {}
    BY <1>1
  <2> HIDE DEF Y
  <2> QED BY <2>1, LeastElement
<1> DEFINE O == {i \in S : Young(i) = y}
           L == {ARP_TABLE_SIZE - i : i \in O}
<1>3. PICK l \in L : \A m \in L : l <= m
  <2>1. L \subseteq Nat /\ L # {}
    BY <1>1, <1>2
  <2> HIDE DEF L
  <2> QED BY <2>1, LeastElement
<1>4. PICK k \in O : l = ARP_TABLE_SIZE - k
  BY <1>3
<1>5. ASSUME NEW j \in S
      PROVE  s.arp[j].ctime < s.arp[k].ctime \/ (s.arp[j].ctime = s.arp[k].ctime /\ j <= k)
  <2>1. y <= Young(j) /\ Young(k) = y
    BY <1>2, <1>4
  <2>2. Young(j) = y => ARP_TABLE_SIZE - k <= ARP_TABLE_SIZE - j
    BY <1>3, <1>4
  <2>3. /\ s.arp[j].ctime \in Nat /\ s.arp[k].ctime \in Nat /\ j \in Nat /\ k \in Nat
        /\ ARP_MAXAGE \in Nat /\ ARP_TABLE_SIZE \in Nat
    BY <1>1, <1>4, ArpAssumption
  <2> HIDE DEF O, L, Y
  <2> QED BY <2>1, <2>2, <2>3
<1>6. \E i \in S : \A j \in S :
          s.arp[j].ctime < s.arp[i].ctime \/ (s.arp[j].ctime = s.arp[i].ctime /\ j <= i)
  BY <1>4, <1>5
<1> HIDE DEF O, L, Y
<1> QED BY <1>6 DEF Oldest

\* An entry that is recycled is one of the table.
LEMMA RecycledSlot ==
    ASSUME NEW s \in Stacks
    PROVE  Recycled(s) \in Slots
<1> DEFINE empty == {i \in Slots : s.arp[i].st = "EMPTY"}
           stable == {i \in Slots : s.arp[i].st = "STABLE"}
           pending == {i \in Slots : s.arp[i].st = "PENDING" /\ s.arp[i].q = <<>>}
<1>1. /\ empty \subseteq Slots /\ stable \subseteq Slots /\ pending \subseteq Slots
      /\ Slots \subseteq Nat /\ Slots # {}
  BY ArpAssumption DEF Slots
<1>2. empty # {} => Min(empty) \in Slots
  BY <1>1, MinInSet
<1>3. /\ stable # {} => Oldest(s, stable) \in Slots
      /\ pending # {} => Oldest(s, pending) \in Slots
      /\ Oldest(s, Slots) \in Slots
  BY <1>1, OldestInSet
<1>4. Recycled(s) = CASE empty # {} -> Min(empty)
          [] empty = {} /\ stable # {} -> Oldest(s, stable)
          [] empty = {} /\ stable = {} /\ pending # {} -> Oldest(s, pending)
          [] OTHER -> Oldest(s, Slots)
  BY DEF Recycled
<1> HIDE DEF empty, stable, pending
<1> QED BY <1>2, <1>3, <1>4
-----------------------------------------------------------------------------
(***************************************************************************)
(* The ARP table.                                                          *)
(***************************************************************************)

\* Hosts have addresses of the network.
LEMMA HostsInLan ==
    ASSUME HostTypes
    PROVE  /\ Hosts \subseteq Lan /\ Hosts \subseteq Ips
           /\ IpAny \notin Hosts /\ Bcast \notin Hosts /\ RouterIp \in Hosts
           /\ \A ip \in Hosts : MacOf(ip) \in MacsOf(ip) /\ MacsOf(ip) \subseteq Macs \ {EthBroadcast}
           /\ RouterIp \in Ips /\ RouterIp # IpAny
  BY NetAssumption DEF HostTypes, Hosts, MacOf, MacsOf, Ips, Macs, IpAny, Bcast

\* The parts of the stack that only the resolver writes are as before.
Kept(s, t) == Good(t) /\ t.dns.tab = s.dns.tab /\ t.found = s.found

LEMMA KeptTrans ==
    ASSUME NEW s, NEW t, NEW u, Kept(s, t), Kept(t, u)
    PROVE  Kept(s, u)
  BY DEF Kept

\* The table with one entry written.
LEMMA SetEntry ==
    ASSUME NEW s, Good(s), NEW i \in Slots, NEW e \in Entries, EntryOK(e),
           \A j \in Slots : j # i /\ s.arp[j].st # "EMPTY" => e.st = "EMPTY" \/ s.arp[j].ip # e.ip
    PROVE  /\ Kept(s, [s EXCEPT !.arp[i] = e])
           /\ [s EXCEPT !.arp[i] = e].arp = [s.arp EXCEPT ![i] = e]
<1> DEFINE t == [s EXCEPT !.arp[i] = e]
<1>1. s \in Stacks /\ s.arp \in [Slots -> Entries]
  BY DEF Good, Stacks
<1>2. /\ t \in Stacks /\ t.out = s.out /\ t.dns = s.dns /\ t.found = s.found
      /\ t.arp = [s.arp EXCEPT ![i] = e]
  BY <1>1 DEF Stacks
<1> HIDE DEF t
<1>3. \A j \in Slots : t.arp[j] = IF j = i THEN e ELSE s.arp[j]
  BY <1>1, <1>2
<1>4. \A j \in Slots : EntryOK(t.arp[j])
  BY <1>3 DEF Good
<1>5. OneEntry(t)
  BY <1>3 DEF Good, OneEntry
<1>6. Kept(s, t)
  BY <1>2, <1>4, <1>5 DEF Good, Kept
<1> QED BY <1>2, <1>6 DEF t

\* A frame is sent.
LEMMA Output ==
    ASSUME NEW s, Good(s), NEW f \in OutFrames, SentOK(f)
    PROVE  Kept(s, linkoutput(s, f)) /\ linkoutput(s, f).arp = s.arp
<1> DEFINE t == linkoutput(s, f)
<1>1. s \in Stacks /\ s.out \in Seq(OutFrames)
  BY DEF Good, Stacks
<1>0. Append(s.out, f) \in Seq(OutFrames)
  BY <1>1
<1>2. /\ t \in Stacks /\ t.out = Append(s.out, f) /\ t.dns = s.dns /\ t.found = s.found
      /\ t.arp = s.arp
  BY <1>0, <1>1 DEF Stacks, linkoutput
<1> HIDE DEF t
<1>3. \A n \in DOMAIN t.out : (n \in DOMAIN s.out /\ t.out[n] = s.out[n]) \/ t.out[n] = f
  BY <1>1, <1>2
<1>4. \A n \in DOMAIN t.out : SentOK(t.out[n])
  BY <1>3 DEF Good
<1> QED BY <1>2, <1>4 DEF Good, Kept, OneEntry, t

\* An entry that holds no packet.
LEMMA EmptyEntry ==
    ASSUME NEW ip \in Ips
    PROVE  /\ Empty \in Entries /\ EntryOK(Empty)
           /\ [Empty EXCEPT !.ip = ip, !.ctime = 0] \in Entries
           /\ EntryOK([Empty EXCEPT !.ip = ip, !.ctime = 0])
<1>1. /\ <<>> \in Seq(Packets) /\ 0 \in 0 .. ARP_MAXAGE
      /\ IpAny \in Ips /\ EthBroadcast \in Macs
  BY ArpAssumption DEF Ips, Macs
<1>2. Empty \in Entries /\ Empty.st = "EMPTY" /\ Empty.q = <<>>
  BY <1>1 DEF Empty, Entries
<1>3. /\ [Empty EXCEPT !.ip = ip, !.ctime = 0] \in Entries
      /\ [Empty EXCEPT !.ip = ip, !.ctime = 0].st = "EMPTY"
      /\ [Empty EXCEPT !.ip = ip, !.ctime = 0].q = <<>>
  BY <1>1, <1>2 DEF Entries
<1> QED BY <1>2, <1>3 DEF EntryOK

\* find_entry gives the entry of an address, and no other entry is for it.
LEMMA FoundFacts ==
    ASSUME NEW s, Good(s), NEW ip \in Ips
    PROVE  LET i == find_entry(s, ip)
               t == Found(s, ip)
           IN  /\ i \in Slots /\ Kept(s, t)
               /\ t.arp[i].ip = ip
               /\ t.arp[i].st = "EMPTY" => t.arp[i].q = <<>>
               /\ \A j \in Slots : j # i /\ t.arp[j].st # "EMPTY" => t.arp[j].ip # ip
<1> DEFINE i == find_entry(s, ip)
           t == Found(s, ip)
<1>0. s \in Stacks /\ s.arp \in [Slots -> Entries] /\ Slots \subseteq Nat
  BY ArpAssumption DEF Good, Stacks, Slots
<1>1. CASE Matching(s, ip) # {}
  <2>1. i \in Matching(s, ip)
    <3>1. Matching(s, ip) \subseteq Nat
      BY <1>0 DEF Matching
    <3> QED BY <1>1, <3>1, MinInSet DEF find_entry
  <2>2. t = s
    BY <1>1 DEF Found
  <2>3. i \in Slots /\ s.arp[i].st # "EMPTY" /\ s.arp[i].ip = ip
    BY <2>1 DEF Matching
  <2>4. Kept(s, s)
    BY DEF Kept
  <2>5. OneEntry(s)
    BY DEF Good
  <2> HIDE DEF i, t
  <2>6. \A j \in Slots : j # i /\ s.arp[j].st # "EMPTY" => s.arp[j].ip # ip
    BY <2>3, <2>5 DEF OneEntry
  <2>7. /\ i \in Slots /\ Kept(s, t)
        /\ t.arp[i].ip = ip
        /\ t.arp[i].st = "EMPTY" => t.arp[i].q = <<>>
        /\ \A j \in Slots : j # i /\ t.arp[j].st # "EMPTY" => t.arp[j].ip # ip
    BY <2>2, <2>3, <2>4, <2>6
  <2> QED BY <2>7 DEF i, t
<1>2. CASE Matching(s, ip) = {}
  <2> DEFINE e == IF s.arp[i].st = "EMPTY" THEN s.arp[i] ELSE free_entry(s.arp[i])
             n == [e EXCEPT !.ip = ip, !.ctime = 0]
  <2>1. i = Recycled(s) /\ i \in Slots
    BY <1>0, <1>2, RecycledSlot DEF find_entry
  <2>2. t = [s EXCEPT !.arp[i] = n]
    BY <1>2, <2>1 DEF Found
  <2> HIDE DEF i, t
  <2>3. e \in Entries /\ e.st = "EMPTY" /\ e.q = <<>>
    <3>1. CASE s.arp[i].st = "EMPTY"
      <4>1. EntryOK(s.arp[i]) /\ s.arp[i] \in Entries
        BY <1>0, <2>1 DEF Good
      <4> QED BY <3>1, <4>1 DEF EntryOK
    <3>2. CASE s.arp[i].st # "EMPTY"
      BY <3>2, EmptyEntry DEF free_entry, Empty
    <3> QED BY <3>1, <3>2
  <2> HIDE DEF e
  <2>4. n \in Entries /\ n.st = "EMPTY" /\ n.q = <<>> /\ n.ip = ip
    <3>1. 0 \in 0 .. ARP_MAXAGE
      BY ArpAssumption
    <3> QED BY <2>3, <3>1 DEF Entries
  <2> HIDE DEF n
  <2>5. EntryOK(n)
    BY <2>4 DEF EntryOK
  <2>6. \A j \in Slots : s.arp[j].st # "EMPTY" => s.arp[j].ip # ip
    BY <1>2 DEF Matching
  <2>7. Kept(s, t) /\ t.arp = [s.arp EXCEPT ![i] = n]
    BY <2>1, <2>2, <2>4, <2>5, SetEntry
  <2>8. /\ i \in Slots /\ Kept(s, t)
        /\ t.arp[i].ip = ip
        /\ t.arp[i].st = "EMPTY" => t.arp[i].q = <<>>
        /\ \A j \in Slots : j # i /\ t.arp[j].st # "EMPTY" => t.arp[j].ip # ip
    BY <1>0, <2>1, <2>4, <2>6, <2>7
  <2> QED BY <2>8 DEF i, t
<1> QED BY <1>1, <1>2

\* A packet that waits for a host may be sent to this host.
LEMMA SendOK ==
    ASSUME HostTypes, NEW p \in Packets, NEW ip \in Hosts, MayWait(p, ip), NEW mac \in MacsOf(ip)
    PROVE  LET f == [eth |-> "ip", to |-> mac, p |-> p]
           IN  f \in OutFrames /\ SentOK(f)
<1> DEFINE f == [eth |-> "ip", to |-> mac, p |-> p]
<1>1. mac \in Macs /\ ip \in Lan
  BY HostsInLan
<1>2. f \in OutFrames
  BY <1>1 DEF OutFrames, IpFrames
<1>3. HopOf(p) = ip
  BY <1>1 DEF MayWait, HopOf
<1> QED BY <1>2, <1>3 DEF SentOK

\* A broadcast goes to everybody.
LEMMA BroadcastOK ==
    ASSUME NEW p \in Packets
    PROVE  LET f == [eth |-> "ip", to |-> EthBroadcast, p |-> p]
           IN  f \in OutFrames /\ SentOK(f)
  BY DEF OutFrames, IpFrames, SentOK, Macs

LEMMA ArpFrameOK ==
    ASSUME NEW f \in ArpFrames
    PROVE  f \in OutFrames /\ SentOK(f)
  BY DEF OutFrames, ArpFrames, SentOK

LEMMA RequestKept ==
    ASSUME NEW s, Good(s), NEW ip \in Ips
    PROVE  Kept(s, etharp_request(s, ip)) /\ etharp_request(s, ip).arp = s.arp
<1> DEFINE f == [eth |-> "arp", to |-> EthBroadcast, op |-> "request",
                 sip |-> s.ip, smac |-> MyMac, dip |-> ip]
<1>1. s.ip \in Ips
  BY DEF Good, Stacks
<1>2. f \in ArpFrames
  BY <1>1 DEF ArpFrames, Macs
<1>3. f \in OutFrames /\ SentOK(f)
  BY <1>2, ArpFrameOK
<1>4. etharp_request(s, ip) = linkoutput(s, f)
  BY DEF etharp_request
<1> HIDE DEF f
<1> QED BY <1>3, <1>4, Output

\* What a host says of itself is written to the table, and the packet that
\* waited for it is sent to it.
LEMMA UpdateKept ==
    ASSUME HostTypes, NEW s, Good(s), NEW ip \in Hosts, NEW mac \in MacsOf(ip),
           NEW hard \in BOOLEAN
    PROVE  Kept(s, update_arp_entry(s, ip, mac, hard))
<1> DEFINE i == find_entry(s, ip)
           t == Found(s, ip)
           e == [t.arp[i] EXCEPT !.st = "STABLE", !.mac = mac, !.ctime = 0, !.q = <<>>]
           u == [t EXCEPT !.arp[i] = e]
           r == update_arp_entry(s, ip, mac, hard)
<1>1. CASE IsBroadcast(ip) \/ (~ hard /\ Matching(s, ip) = {})
  <2>1. r = s
    BY <1>1 DEF update_arp_entry
  <2> QED BY <2>1 DEF Kept
<1>2. CASE ~ (IsBroadcast(ip) \/ (~ hard /\ Matching(s, ip) = {}))
  <2>1. ip \in Hosts /\ ip \in Ips /\ mac \in Macs
    BY HostsInLan
  <2>2. /\ i \in Slots /\ Kept(s, t)
        /\ t.arp[i].ip = ip
        /\ \A j \in Slots : j # i /\ t.arp[j].st # "EMPTY" => t.arp[j].ip # ip
    BY <2>1, FoundFacts
  <2>3. r = IF t.arp[i].q = <<>> THEN u ELSE etharp_send_ip(u, Head(t.arp[i].q), mac)
    BY <1>2 DEF update_arp_entry
  <2> HIDE DEF i, t, r
  <2>4. Good(t) /\ t.arp[i] \in Entries /\ EntryOK(t.arp[i])
    BY <2>2 DEF Kept, Good, Stacks
  <2>5. e \in Entries /\ e.st = "STABLE" /\ e.ip = ip /\ e.mac = mac /\ e.q = <<>>
    <3>1. <<>> \in Seq(Packets) /\ 0 \in 0 .. ARP_MAXAGE
      BY ArpAssumption
    <3> QED BY <2>1, <2>2, <2>4, <3>1 DEF Entries
  <2> HIDE DEF e
  <2>6. EntryOK(e)
    BY <2>1, <2>5 DEF EntryOK
  <2>7. Kept(t, u)
    BY <2>2, <2>4, <2>5, <2>6, SetEntry
  <2>8. Kept(s, u) /\ Good(u)
    BY <2>2, <2>7, KeptTrans DEF Kept
  <2>9. CASE t.arp[i].q = <<>>
    BY <2>3, <2>8, <2>9 DEF r
  <2>10. CASE t.arp[i].q # <<>>
    <3> DEFINE p == Head(t.arp[i].q)
    <3>1. t.arp[i].q \in Seq(Packets)
      BY <2>4 DEF Entries
    <3>2. p \in Packets /\ 1 \in DOMAIN t.arp[i].q /\ p = t.arp[i].q[1]
      BY <2>10, <3>1
    <3>3. MayWait(p, ip)
      BY <2>2, <2>4, <3>2 DEF EntryOK
    <3> DEFINE f == [eth |-> "ip", to |-> mac, p |-> p]
    <3>4. f \in OutFrames /\ SentOK(f)
      BY <2>1, <3>2, <3>3, SendOK
    <3>5. r = linkoutput(u, f)
      BY <2>3, <2>10 DEF etharp_send_ip
    <3> HIDE DEF u, f, p
    <3>6. Kept(u, r)
      BY <2>8, <3>4, <3>5, Output
    <3>7. Kept(s, r)
      BY <2>8, <3>6, KeptTrans
    <3> QED BY <3>7 DEF r
  <2> QED BY <2>9, <2>10
<1> QED BY <1>1, <1>2

\* An address is asked for, and a packet is sent or waits for the answer.
LEMMA QueryKept ==
    ASSUME HostTypes, NEW s, Good(s), NEW ip \in Ips, NEW q \in Seq(Packets),
           \A n \in DOMAIN q : MayWait(q[n], ip)
    PROVE  Kept(s, etharp_query(s, ip, q))
<1> DEFINE i == find_entry(s, ip)
           f == Found(s, ip)
           t == IF f.arp[i].st = "EMPTY" THEN [f EXCEPT !.arp[i].st = "PENDING"] ELSE f
           r == etharp_query(s, ip, q)
<1>1. CASE IsBroadcast(ip)
  <2>1. r = s
    BY <1>1 DEF etharp_query
  <2> QED BY <2>1 DEF Kept
<1>2. CASE ~ IsBroadcast(ip)
  <2>1. r = CASE q = <<>> -> etharp_request(t, ip)
              [] q # <<>> /\ t.arp[i].st = "STABLE" ->
                    etharp_send_ip([t EXCEPT !.hint = i], Head(q), t.arp[i].mac)
              [] OTHER -> [etharp_request(t, ip) EXCEPT !.arp[i].q = q]
    BY <1>2 DEF etharp_query
  <2>2. /\ i \in Slots /\ Kept(s, f)
        /\ f.arp[i].ip = ip
        /\ f.arp[i].st = "EMPTY" => f.arp[i].q = <<>>
        /\ \A j \in Slots : j # i /\ f.arp[j].st # "EMPTY" => f.arp[j].ip # ip
    BY FoundFacts
  <2> HIDE DEF i, f, r
  <2>3. Good(f) /\ f \in Stacks /\ f.arp \in [Slots -> Entries] /\ f.arp[i] \in Entries
    BY <2>2 DEF Kept, Good, Stacks
  <2>4. /\ Kept(f, t) /\ t.arp[i].st \in {"PENDING", "STABLE"} /\ t.arp[i].ip = ip
        /\ \A j \in Slots : j # i /\ t.arp[j].st # "EMPTY" => t.arp[j].ip # ip
    <3>1. CASE f.arp[i].st = "EMPTY"
      <4> DEFINE e == [f.arp[i] EXCEPT !.st = "PENDING"]
      <4>1. t = [f EXCEPT !.arp[i] = e]
        BY <2>2, <2>3, <3>1 DEF Stacks
      <4>2. e \in Entries /\ e.st = "PENDING" /\ e.q = <<>> /\ e.ip = ip
        BY <2>2, <2>3, <3>1 DEF Entries
      <4> HIDE DEF e, t
      <4>3. EntryOK(e)
        BY <4>2 DEF EntryOK
      <4>4. Kept(f, t) /\ t.arp = [f.arp EXCEPT ![i] = e]
        BY <2>2, <2>3, <4>1, <4>2, <4>3, SetEntry
      <4> QED BY <2>2, <2>3, <4>2, <4>4
    <3>2. CASE f.arp[i].st # "EMPTY"
      <4>1. t = f
        BY <3>2
      <4>2. f.arp[i].st \in {"PENDING", "STABLE"}
        BY <2>3, <3>2 DEF Entries
      <4> HIDE DEF t
      <4> QED BY <2>2, <2>3, <4>1, <4>2 DEF Kept
    <3> QED BY <3>1, <3>2
  <2> HIDE DEF t
  <2>5. /\ Good(t) /\ t \in Stacks /\ t.arp \in [Slots -> Entries]
        /\ t.arp[i] \in Entries /\ EntryOK(t.arp[i]) /\ Kept(s, t)
    BY <2>2, <2>4, KeptTrans DEF Kept, Good, Stacks
  <2>6. Kept(t, etharp_request(t, ip)) /\ etharp_request(t, ip).arp = t.arp
    BY <2>5, RequestKept
  <2>7. CASE q = <<>>
    <3>1. r = etharp_request(t, ip)
      BY <2>1, <2>7
    <3>2. Kept(s, r)
      BY <2>5, <2>6, <3>1, KeptTrans
    <3> QED BY <3>2 DEF r
  <2>8. CASE q # <<>> /\ t.arp[i].st = "STABLE"
    <3> DEFINE u == [t EXCEPT !.hint = i]
               g == [eth |-> "ip", to |-> t.arp[i].mac, p |-> Head(q)]
    <3>1. u \in Stacks /\ u.arp = t.arp /\ u.out = t.out /\ u.dns = t.dns /\ u.found = t.found
      BY <2>2, <2>5 DEF Stacks
    <3>2. r = linkoutput(u, g)
      BY <2>1, <2>8 DEF etharp_send_ip
    <3>3. ip \in Hosts /\ t.arp[i].mac \in MacsOf(ip)
      BY <2>4, <2>5, <2>8 DEF EntryOK
    <3>4. Head(q) \in Packets /\ MayWait(Head(q), ip)
      <4>1. 1 \in DOMAIN q /\ Head(q) = q[1]
        BY <2>8
      <4> QED BY <4>1
    <3>5. g \in OutFrames /\ SentOK(g)
      BY <3>3, <3>4, SendOK
    <3> HIDE DEF u, g
    <3>6. Kept(t, u)
      BY <2>5, <3>1 DEF Kept, Good, OneEntry
    <3>7. Kept(u, r)
      BY <3>2, <3>5, <3>6, Output DEF Kept
    <3>8. Kept(s, r)
      BY <2>5, <3>6, <3>7, KeptTrans
    <3> QED BY <3>8 DEF r
  <2>9. CASE q # <<>> /\ t.arp[i].st # "STABLE"
    <3> DEFINE u == etharp_request(t, ip)
               e == [u.arp[i] EXCEPT !.q = q]
    <3>1. r = [u EXCEPT !.arp[i].q = q]
      BY <2>1, <2>9
    <3> HIDE DEF u
    <3>2. Kept(t, u) /\ u.arp = t.arp /\ Good(u) /\ u \in Stacks
      BY <2>6 DEF u, Kept, Good
    <3>3. r = [u EXCEPT !.arp[i] = e]
      BY <2>2, <3>1, <3>2 DEF Stacks
    <3>4. e \in Entries /\ e.st = "PENDING" /\ e.ip = ip /\ e.q = q
      BY <2>4, <2>5, <2>9, <3>2 DEF Entries
    <3> HIDE DEF e
    <3>5. EntryOK(e)
      BY <3>4 DEF EntryOK
    <3>6. \A j \in Slots : j # i /\ u.arp[j].st # "EMPTY" => u.arp[j].ip # e.ip
      BY <2>4, <3>2, <3>4
    <3>7. Kept(u, r)
      BY <2>2, <3>2, <3>3, <3>4, <3>5, <3>6, SetEntry
    <3>8. Kept(s, r)
      BY <2>5, <3>2, <3>7, KeptTrans
    <3> QED BY <3>8 DEF r
  <2> QED BY <2>7, <2>8, <2>9
<1> QED BY <1>1, <1>2

\* A packet goes to the host it is for or to the router, now or when the
\* address of that host is known.
LEMMA OutputKept ==
    ASSUME HostTypes, NEW s, Good(s), NEW p \in Packets
    PROVE  Kept(s, etharp_output(s, p))
<1> DEFINE hop == NextHop(s, p.dip)
           e == s.arp[s.hint]
           r == etharp_output(s, p)
<1>1. /\ s \in Stacks /\ s.gw \in {IpAny, RouterIp} /\ s.hint \in Slots
      /\ e \in Entries /\ EntryOK(e) /\ p.dip \in Ips
  BY DEF Good, Stacks, Packets, DhcpPackets, DnsPackets, IcmpPackets
<1>2. RouterIp \in Ips /\ RouterIp \in Lan
  BY HostsInLan
<1>3. CASE IsBroadcast(p.dip)
  <2>1. r = linkoutput(s, [eth |-> "ip", to |-> EthBroadcast, p |-> p])
    BY <1>3 DEF etharp_output, etharp_send_ip
  <2> HIDE DEF r
  <2>2. Kept(s, r)
    BY <2>1, BroadcastOK, Output
  <2> QED BY <2>2 DEF r
<1>4. CASE ~ IsBroadcast(p.dip) /\ ~ OnLink(s, p.dip) /\ s.gw = IpAny
  <2>1. r = s
    BY <1>4 DEF etharp_output
  <2> QED BY <2>1 DEF Kept
<1>5. CASE ~ IsBroadcast(p.dip) /\ (OnLink(s, p.dip) \/ s.gw # IpAny)
  <2>1. r = IF e.st = "STABLE" /\ e.ip = hop THEN etharp_send_ip(s, p, e.mac)
            ELSE etharp_query(s, hop, <<p>>)
    BY <1>5 DEF etharp_output
  <2>2. hop \in Ips
    BY <1>1, <1>2 DEF NextHop, Ips
  <2>3. hop = p.dip \/ (p.dip \notin Lan /\ hop = RouterIp)
    BY <1>1, <1>5 DEF NextHop, OnLink
  <2> HIDE DEF r, hop, e
  <2>4. CASE e.st = "STABLE" /\ e.ip = hop
    <3>1. hop \in Hosts /\ e.mac \in MacsOf(hop) /\ hop \in Lan
      BY <1>1, <2>4, HostsInLan DEF EntryOK
    <3>2. MayWait(p, hop)
      BY <2>3, <3>1 DEF MayWait
    <3>3. r = linkoutput(s, [eth |-> "ip", to |-> e.mac, p |-> p])
      BY <2>1, <2>4, <3>1 DEF etharp_send_ip
    <3>4. Kept(s, r)
      BY <3>1, <3>2, <3>3, SendOK, Output
    <3> QED BY <3>4 DEF r
  <2>5. CASE ~ (e.st = "STABLE" /\ e.ip = hop)
    <3>1. MayWait(p, hop)
      BY <2>3 DEF MayWait
    <3>2. r = etharp_query(s, hop, <<p>>)
      BY <2>1, <2>5
    <3>3. <<p>> \in Seq(Packets) /\ \A n \in DOMAIN <<p>> : MayWait(<<p>>[n], hop)
      BY <3>1
    <3>4. Kept(s, r)
      BY <2>2, <3>2, <3>3, QueryKept
    <3> QED BY <3>4 DEF r
  <2> QED BY <2>4, <2>5
<1> QED BY <1>3, <1>4, <1>5

\* A datagram that is well formed leaves the table in order.
Datagram(s, dip, kind, m) == [sip |-> s.ip, dip |-> dip, kind |-> kind, m |-> m]

LEMMA SendtoIfKept ==
    ASSUME HostTypes, NEW s, Good(s), NEW dip, NEW kind, NEW m, Datagram(s, dip, kind, m) \in Packets
    PROVE  Kept(s, udp_sendto_if(s, dip, kind, m))
<1>1. Kept(s, s)
  BY DEF Kept
<1>2. udp_sendto_if(s, dip, kind, m) =
          IF s.link THEN etharp_output(s, Datagram(s, dip, kind, m)) ELSE s
  BY DEF udp_sendto_if, lpc_etharp_output, Datagram
<1> QED BY <1>1, <1>2, OutputKept

LEMMA SendtoKept ==
    ASSUME HostTypes, NEW s, Good(s), NEW dip, NEW kind, NEW m, Datagram(s, dip, kind, m) \in Packets
    PROVE  Kept(s, udp_sendto(s, dip, kind, m))
<1>1. Kept(s, s)
  BY DEF Kept
<1>2. udp_sendto(s, dip, kind, m) = IF s.up THEN udp_sendto_if(s, dip, kind, m) ELSE s
  BY DEF udp_sendto
<1> QED BY <1>1, <1>2, SendtoIfKept

\* Entries get older, and go.
LEMMA TmrKept ==
    ASSUME NEW s, Good(s)
    PROVE  Kept(s, etharp_tmr(s))
<1> DEFINE E(e) == CASE e.st = "EMPTY" -> e
                     [] e.st # "EMPTY" /\ TooOld(Aged(e)) -> free_entry(e)
                     [] OTHER -> Aged(e)
           arp == [i \in Slots |-> E(s.arp[i])]
           t == [s EXCEPT !.arp = arp]
<1>1. etharp_tmr(s) = t
  BY DEF etharp_tmr
<1>2. ASSUME NEW i \in Slots
      PROVE  /\ E(s.arp[i]) \in Entries /\ EntryOK(E(s.arp[i]))
             /\ E(s.arp[i]).st # "EMPTY" => E(s.arp[i]).ip = s.arp[i].ip /\ s.arp[i].st # "EMPTY"
  <2> DEFINE e == s.arp[i]
  <2>1. e \in Entries /\ EntryOK(e)
    BY DEF Good, Stacks
  <2> HIDE DEF e
  <2>2. CASE e.st = "EMPTY"
    BY <2>1, <2>2 DEF e
  <2>3. CASE e.st # "EMPTY" /\ TooOld(Aged(e))
    <3>1. E(e) = Empty
      BY <2>3 DEF free_entry
    <3>2. Empty \in Entries /\ EntryOK(Empty) /\ Empty.st = "EMPTY"
      <4>1. IpAny \in Ips
        BY DEF Ips
      <4> QED BY <4>1, EmptyEntry DEF Empty
    <3> QED BY <3>1, <3>2 DEF e
  <2>4. CASE e.st # "EMPTY" /\ ~ TooOld(Aged(e))
    <3>1. E(e) = Aged(e)
      BY <2>4
    <3>2. e.ctime + 1 \in 0 .. ARP_MAXAGE
      <4>1. e.ctime \in 0 .. ARP_MAXAGE
        BY <2>1 DEF Entries
      <4>2. Aged(e).ctime = e.ctime + 1
        BY <2>1 DEF Aged, Entries
      <4>3. ~ (Aged(e).ctime >= ARP_MAXAGE)
        BY <2>4 DEF TooOld
      <4> QED BY <4>1, <4>2, <4>3, ArpAssumption
    <3>3. /\ Aged(e) \in Entries /\ Aged(e).st = e.st /\ Aged(e).ip = e.ip /\ Aged(e).q = e.q
          /\ Aged(e).mac = e.mac
      BY <2>1, <3>2 DEF Aged, Entries
    <3>4. EntryOK(Aged(e))
      BY <2>1, <3>3 DEF EntryOK
    <3> QED BY <2>4, <3>1, <3>3, <3>4 DEF e
  <2> QED BY <2>2, <2>3, <2>4
<1> HIDE DEF E
<1>3. s \in Stacks /\ OneEntry(s) /\ \A n \in DOMAIN s.out : SentOK(s.out[n])
  BY DEF Good
<1>4. arp \in [Slots -> Entries]
  BY <1>2
<1> HIDE DEF arp
<1>5. t \in Stacks /\ t.arp = arp /\ t.out = s.out /\ t.dns = s.dns /\ t.found = s.found
  BY <1>3, <1>4 DEF Stacks
<1> HIDE DEF t
<1>6. \A i \in Slots : t.arp[i] = E(s.arp[i])
  BY <1>5 DEF arp
<1>7. OneEntry(t) /\ \A i \in Slots : EntryOK(t.arp[i])
  BY <1>2, <1>3, <1>6 DEF OneEntry
<1> QED BY <1>1, <1>3, <1>5, <1>7 DEF Kept, Good

\* Fields that neither the table nor the resolver has.
LEMMA Frame ==
    ASSUME NEW s, Good(s), NEW t \in Stacks, t.arp = s.arp, t.out = s.out,
           t.dns.tab = s.dns.tab, t.found = s.found
    PROVE  Kept(s, t)
  BY DEF Kept, Good, OneEntry
-----------------------------------------------------------------------------
(***************************************************************************)
(* The interface and the DHCP client.                                      *)
(***************************************************************************)

LEMMA SetAddrKept ==
    ASSUME NEW s, Good(s), NEW ip \in Ips, NEW mask \in {IpAny, Net}, NEW gw \in {IpAny, RouterIp}
    PROVE  Kept(s, netif_set_addr(s, ip, mask, gw))
<1>1. s \in Stacks
  BY DEF Good
<1> DEFINE t == netif_set_addr(s, ip, mask, gw)
<1>2. t \in Stacks /\ t.arp = s.arp /\ t.out = s.out /\ t.dns = s.dns /\ t.found = s.found
  BY <1>1 DEF Stacks, netif_set_addr
<1> HIDE DEF t
<1>3. Kept(s, t)
  BY <1>2, Frame
<1> QED BY <1>3 DEF t

LEMMA SetUpKept ==
    ASSUME NEW s, Good(s)
    PROVE  Kept(s, netif_set_up(s))
<1> DEFINE t == [s EXCEPT !.up = TRUE, !.tokens = @ + 1]
<1>1. s \in Stacks
  BY DEF Good
<1>0. s.tokens + 1 \in Int
  BY <1>1 DEF Stacks
<1>2. t \in Stacks /\ t.arp = s.arp /\ t.out = s.out /\ t.dns = s.dns /\ t.found = s.found
  BY <1>0, <1>1 DEF Stacks
<1>3. netif_set_up(s) = IF s.up THEN s ELSE IF s.link THEN etharp_request(t, t.ip) ELSE t
  BY DEF netif_set_up
<1> HIDE DEF t
<1>4. Kept(s, t)
  BY <1>2, Frame
<1>5. t.ip \in Ips /\ Good(t)
  BY <1>2, <1>4 DEF Stacks, Kept
<1>6. Kept(s, etharp_request(t, t.ip))
  BY <1>4, <1>5, RequestKept, KeptTrans
<1>7. Kept(s, s)
  BY DEF Kept
<1> QED BY <1>3, <1>4, <1>6, <1>7

LEMMA SetDownKept ==
    ASSUME NEW s, Good(s)
    PROVE  Kept(s, netif_set_down(s)) /\ Kept(s, netif_set_link_down(s))
<1>1. s \in Stacks
  BY DEF Good
<1> DEFINE t == netif_set_down(s)
           u == netif_set_link_down(s)
<1>2. t \in Stacks /\ t.arp = s.arp /\ t.out = s.out /\ t.dns = s.dns /\ t.found = s.found
  BY <1>1 DEF Stacks, netif_set_down
<1>3. u \in Stacks /\ u.arp = s.arp /\ u.out = s.out /\ u.dns = s.dns /\ u.found = s.found
  BY <1>1 DEF Stacks, netif_set_link_down
<1> HIDE DEF t, u
<1>4. Kept(s, t) /\ Kept(s, u)
  BY <1>2, <1>3, Frame
<1> QED BY <1>4 DEF t, u

LEMMA UnconfiguredKept ==
    ASSUME NEW s, Good(s)
    PROVE  Kept(s, Unconfigured(s))
<1>1. Kept(s, netif_set_down(s))
  BY SetDownKept
<1>2. IpAny \in Ips
  BY DEF Ips
<1>3. Kept(netif_set_down(s), netif_set_addr(netif_set_down(s), IpAny, IpAny, IpAny))
  BY <1>1, <1>2, SetAddrKept DEF Kept
<1> QED BY <1>1, <1>3, KeptTrans DEF Unconfigured

\* The client's own fields.
LEMMA ClientKept ==
    ASSUME NEW s, Good(s), NEW d \in Clients
    PROVE  /\ Kept(s, [s EXCEPT !.dhcp = d])
           /\ [s EXCEPT !.dhcp = d].dhcp = d
           /\ [s EXCEPT !.dhcp = d].ip = s.ip
<1>1. s \in Stacks
  BY DEF Good
<1> DEFINE t == [s EXCEPT !.dhcp = d]
<1>2. /\ t \in Stacks /\ t.arp = s.arp /\ t.out = s.out /\ t.dns = s.dns /\ t.found = s.found
      /\ t.dhcp = d /\ t.ip = s.ip
  BY <1>1 DEF Stacks
<1> HIDE DEF t
<1>3. Kept(s, t)
  BY <1>2, Frame
<1> QED BY <1>2, <1>3 DEF t

LEMMA SetStateKept ==
    ASSUME NEW s, Good(s), NEW st \in DhcpStates
    PROVE  Kept(s, dhcp_set_state(s, st)) /\ dhcp_set_state(s, st).dhcp.st = st
<1> DEFINE d == [s.dhcp EXCEPT !.st = st, !.tries = 0, !.armed = FALSE]
<1>1. s \in Stacks /\ s.dhcp \in Clients
  BY DEF Good, Stacks
<1>2. d \in Clients
  <2>1. \A n \in Int, b \in BOOLEAN :
            [s.dhcp EXCEPT !.st = st, !.tries = n, !.armed = b] \in Clients
    BY <1>1 DEF Clients
  <2>2. 0 \in Int /\ FALSE \in BOOLEAN
    OBVIOUS
  <2> QED BY <2>1, <2>2, Zenon
<1>5. d.st = st
  BY <1>1 DEF Clients
<1>3. dhcp_set_state(s, st) = IF s.dhcp.st = st THEN s ELSE [s EXCEPT !.dhcp = d]
  BY <1>1 DEF dhcp_set_state, Stacks
<1> HIDE DEF d
<1>4. Kept(s, s)
  BY DEF Kept
<1> QED BY <1>2, <1>3, <1>4, <1>5, ClientKept

LEMMA TriedKept ==
    ASSUME NEW s, Good(s)
    PROVE  Kept(s, Tried(s))
<1> DEFINE n == Min({s.dhcp.tries + 1, MaxTries})
           d == [s.dhcp EXCEPT !.tries = n, !.armed = TRUE]
<1>1. s \in Stacks /\ s.dhcp \in Clients
  BY DEF Good, Stacks
<1>2. MaxTries \in Int
  <2>1. \E x \in {SelectTries, RebindTries, REBOOT_TRIES} :
            \A y \in {SelectTries, RebindTries, REBOOT_TRIES} : x >= y
    BY DhcpAssumption
  <2>2. Max({SelectTries, RebindTries, REBOOT_TRIES}) \in {SelectTries, RebindTries, REBOOT_TRIES}
    BY <2>1 DEF Max
  <2> QED BY <2>2, DhcpAssumption DEF MaxTries
<1>3. n \in Int
  <2>1. s.dhcp.tries + 1 \in Int
    BY <1>1 DEF Clients
  <2>2. \E x \in {s.dhcp.tries + 1, MaxTries} : \A y \in {s.dhcp.tries + 1, MaxTries} : x =< y
    BY <1>2, <2>1
  <2> QED BY <1>2, <2>1, <2>2 DEF Min
<1>4. Tried(s) = [s EXCEPT !.dhcp = d]
  BY <1>1 DEF Tried, Stacks
<1> HIDE DEF n
<1>5. d \in Clients
  BY <1>1, <1>3 DEF Clients
<1> HIDE DEF d
<1> QED BY <1>4, <1>5, ClientKept

\* A function on the first n numbers is a sequence.
LEMMA FunctionIsSequence ==
    ASSUME NEW S, NEW n \in Nat, NEW f \in [1 .. n -> S]
    PROVE  f \in Seq(S) /\ DOMAIN f = 1 .. n /\ Len(f) = n /\ (n = 0 => f = <<>>)
<1>1. f \in Seq(S) /\ DOMAIN f = 1 .. n
  OBVIOUS
<1>2. Len(f) = n
  BY <1>1
<1>3. n = 0 => f = <<>>
  BY <1>1, <1>2
<1> QED BY <1>1, <1>2, <1>3

\* A message with an old transaction id is a message still, for the same host.
LEMMA OutdatedPacket ==
    ASSUME NEW p \in Packets
    PROVE  Outdated(p) \in Packets /\ Outdated(p).dip = p.dip
<1>1. CASE p \in DhcpPackets
  <2>1. p.kind = "dhcp" /\ p.m \in DhcpOut
    BY <1>1 DEF DhcpPackets
  <2>2. \A b \in BOOLEAN : [p.m EXCEPT !.cur = b] \in DhcpOut
    BY <2>1 DEF DhcpOut
  <2>3. \A m \in DhcpOut : [p EXCEPT !.m = m] \in DhcpPackets /\ [p EXCEPT !.m = m].dip = p.dip
    BY <1>1 DEF DhcpPackets
  <2>4. Outdated(p) = [p EXCEPT !.m = [p.m EXCEPT !.cur = FALSE]]
    BY <1>1, <2>1 DEF Outdated, DhcpPackets
  <2> DEFINE n == [p.m EXCEPT !.cur = FALSE]
  <2>5. n \in DhcpOut
    BY <2>2
  <2>6. Outdated(p) = [p EXCEPT !.m = n]
    BY <2>4
  <2> HIDE DEF n
  <2> QED BY <2>3, <2>5, <2>6 DEF Packets
<1>2. CASE p \notin DhcpPackets
  <2>1. p.kind # "dhcp"
    BY <1>2 DEF Packets, DnsPackets, IcmpPackets
  <2> QED BY <2>1 DEF Outdated
<1> QED BY <1>1, <1>2

LEMMA OutdatedOut ==
    ASSUME NEW f \in OutFrames
    PROVE  OutdatedFrame(f) \in OutFrames /\ (SentOK(f) => SentOK(OutdatedFrame(f)))
<1>1. CASE f \in IpFrames
  <2> DEFINE q == Outdated(f.p)
  <2>1. f.eth = "ip" /\ f.p \in Packets /\ q \in Packets /\ q.dip = f.p.dip
    BY <1>1, OutdatedPacket DEF IpFrames
  <2>2. OutdatedFrame(f) = [f EXCEPT !.p = q]
    BY <2>1 DEF OutdatedFrame
  <2> HIDE DEF q
  <2>3. [f EXCEPT !.p = q] \in IpFrames /\ [f EXCEPT !.p = q].p = q
        /\ [f EXCEPT !.p = q].to = f.to /\ [f EXCEPT !.p = q].eth = f.eth
    BY <1>1, <2>1 DEF IpFrames
  <2>4. HopOf(q) = HopOf(f.p)
    BY <2>1 DEF HopOf
  <2> QED BY <2>2, <2>3, <2>4 DEF OutFrames, SentOK
<1>2. CASE f \in ArpFrames
  <2>1. f.eth # "ip"
    BY <1>2 DEF ArpFrames
  <2> QED BY <2>1 DEF OutdatedFrame
<1> QED BY <1>1, <1>2 DEF OutFrames

LEMMA OutdatedIn ==
    ASSUME NEW f \in InFrames
    PROVE  /\ OutdatedFrame(f) \in InFrames
           /\ HeardOK(f) => HeardOK(OutdatedFrame(f))
           /\ AnswerOK(f) => AnswerOK(OutdatedFrame(f))
<1>1. CASE f \in InIpFrames /\ f.p \in DhcpReplies
  <2> DEFINE m == [f.p.m EXCEPT !.cur = FALSE]
             q == [f.p EXCEPT !.m = m]
             g == [f EXCEPT !.p = q]
  <2>1. f.eth = "ip" /\ f.p.kind = "dhcp" /\ f.p.m \in DhcpIn
    BY <1>1 DEF InIpFrames, DhcpReplies
  <2>2. OutdatedFrame(f) = g
    BY <1>1, <2>1 DEF OutdatedFrame, Outdated, DhcpReplies
  <2>3. m \in DhcpIn
    <3>1. \A b \in BOOLEAN : [f.p.m EXCEPT !.cur = b] \in DhcpIn
      BY <2>1 DEF DhcpIn
    <3> QED BY <3>1
  <2> HIDE DEF m
  <2>4. q \in DhcpReplies /\ q.kind = "dhcp"
    BY <1>1, <2>3 DEF DhcpReplies
  <2> HIDE DEF q
  <2>5. g \in InIpFrames /\ g.eth = "ip" /\ g.p = q
    BY <1>1, <2>4 DEF InIpFrames
  <2> HIDE DEF g
  <2> QED BY <2>2, <2>4, <2>5 DEF InFrames, HeardOK, AnswerOK
<1>2. CASE f \in InIpFrames /\ f.p \in DnsAnswers
  <2>1. OutdatedFrame(f) = f
    <3>1. f.eth = "ip" /\ f.p.kind = "dns"
      BY <1>2 DEF InIpFrames, DnsAnswers
    <3>2. [f EXCEPT !.p = f.p] = f
      BY <1>2 DEF InIpFrames
    <3> QED BY <3>1, <3>2 DEF OutdatedFrame, Outdated
  <2> QED BY <2>1
<1>3. CASE f \in ArpFrames
  <2>1. f.eth # "ip"
    BY <1>3 DEF ArpFrames
  <2> QED BY <2>1 DEF OutdatedFrame
<1> QED BY <1>1, <1>2, <1>3 DEF InFrames, InIpFrames

LEMMA OutdatedAllOut ==
    ASSUME NEW fs \in Seq(OutFrames), \A n \in DOMAIN fs : SentOK(fs[n])
    PROVE  /\ OutdatedAll(fs) \in Seq(OutFrames)
           /\ \A n \in DOMAIN OutdatedAll(fs) : SentOK(OutdatedAll(fs)[n])
<1> DEFINE gs == [n \in 1 .. Len(fs) |-> OutdatedFrame(fs[n])]
<1>1. OutdatedAll(fs) = gs
  BY DEF OutdatedAll
<1>2. \A n \in 1 .. Len(fs) : fs[n] \in OutFrames /\ SentOK(fs[n])
  OBVIOUS
<1>3. \A n \in 1 .. Len(fs) : gs[n] \in OutFrames /\ SentOK(gs[n])
  BY <1>2, OutdatedOut
<1>4. gs \in Seq(OutFrames) /\ DOMAIN gs = 1 .. Len(fs)
  BY <1>3
<1> QED BY <1>1, <1>3, <1>4

LEMMA OutdatedAllIn ==
    ASSUME NEW fs \in Seq(InFrames), \A n \in DOMAIN fs : HeardOK(fs[n]) /\ AnswerOK(fs[n])
    PROVE  /\ OutdatedAll(fs) \in Seq(InFrames)
           /\ \A n \in DOMAIN OutdatedAll(fs) :
                  HeardOK(OutdatedAll(fs)[n]) /\ AnswerOK(OutdatedAll(fs)[n])
<1> DEFINE gs == [n \in 1 .. Len(fs) |-> OutdatedFrame(fs[n])]
<1>1. OutdatedAll(fs) = gs
  BY DEF OutdatedAll
<1>2. \A n \in 1 .. Len(fs) : fs[n] \in InFrames /\ HeardOK(fs[n]) /\ AnswerOK(fs[n])
  OBVIOUS
<1>3. \A n \in 1 .. Len(fs) : gs[n] \in InFrames /\ HeardOK(gs[n]) /\ AnswerOK(gs[n])
  BY <1>2, OutdatedIn
<1>4. gs \in Seq(InFrames) /\ DOMAIN gs = 1 .. Len(fs)
  BY <1>3
<1> QED BY <1>1, <1>3, <1>4

\* The messages that wait in the table get old with the others.
LEMMA NewXidKept ==
    ASSUME NEW s, Good(s)
    PROVE  Kept(s, NewXid(s)) /\ NewXid(s).ip = s.ip /\ NewXid(s).dhcp = s.dhcp
<1> DEFINE Q(q) == [n \in DOMAIN q |-> Outdated(q[n])]
           E(e) == [e EXCEPT !.q = Q(e.q)]
           arp == [i \in Slots |-> E(s.arp[i])]
           out == OutdatedAll(s.out)
           t == [s EXCEPT !.newxid = TRUE, !.out = out, !.arp = arp]
<1>1. NewXid(s) = t
  BY DEF NewXid
<1>2. s \in Stacks /\ OneEntry(s) /\ s.out \in Seq(OutFrames)
  BY DEF Good, Stacks
<1>3. out \in Seq(OutFrames) /\ \A n \in DOMAIN out : SentOK(out[n])
  BY <1>2, OutdatedAllOut DEF Good
<1>4. ASSUME NEW i \in Slots
      PROVE  /\ E(s.arp[i]) \in Entries /\ EntryOK(E(s.arp[i]))
             /\ E(s.arp[i]).st = s.arp[i].st /\ E(s.arp[i]).ip = s.arp[i].ip
  <2> DEFINE e == s.arp[i]
             q == [n \in 1 .. Len(e.q) |-> Outdated(e.q[n])]
  <2>1. e \in Entries /\ EntryOK(e)
    BY DEF Good, Stacks
  <2> HIDE DEF e
  <2>2. e.q \in Seq(Packets)
    BY <2>1 DEF Entries
  <2>3. Q(e.q) = q
    BY <2>2
  <2>4. \A n \in 1 .. Len(e.q) : e.q[n] \in Packets /\ MayWait(e.q[n], e.ip)
    BY <2>1, <2>2 DEF EntryOK
  <2>5. \A n \in 1 .. Len(e.q) : q[n] \in Packets /\ MayWait(q[n], e.ip)
    BY <2>4, OutdatedPacket DEF MayWait
  <2>6. q \in Seq(Packets) /\ DOMAIN q = 1 .. Len(e.q) /\ (e.q = <<>> => q = <<>>)
    <3>1. Len(e.q) \in Nat /\ (e.q = <<>> => Len(e.q) = 0)
      BY <2>2
    <3>2. q \in [1 .. Len(e.q) -> Packets]
      BY <2>5
    <3> HIDE DEF q
    <3> QED BY <3>1, <3>2, FunctionIsSequence
  <2> HIDE DEF q, Q
  <2>7. /\ E(e) \in Entries /\ E(e).q = q /\ E(e).st = e.st /\ E(e).ip = e.ip /\ E(e).mac = e.mac
    BY <2>1, <2>3, <2>6 DEF Entries
  <2>8. EntryOK(E(e))
    BY <2>1, <2>5, <2>6, <2>7 DEF EntryOK
  <2> QED BY <2>7, <2>8 DEF e
<1> HIDE DEF E, out
<1>5. arp \in [Slots -> Entries]
  BY <1>4
<1> HIDE DEF arp
<1>6. /\ t \in Stacks /\ t.arp = arp /\ t.out = out /\ t.dns = s.dns /\ t.found = s.found
      /\ t.ip = s.ip /\ t.dhcp = s.dhcp
  BY <1>2, <1>3, <1>5 DEF Stacks
<1> HIDE DEF t
<1>7. \A i \in Slots : t.arp[i] = E(s.arp[i])
  BY <1>6 DEF arp
<1>8. OneEntry(t) /\ \A i \in Slots : EntryOK(t.arp[i])
  BY <1>2, <1>4, <1>7 DEF OneEntry
<1>9. \A n \in DOMAIN t.out : SentOK(t.out[n])
  BY <1>3, <1>6
<1> QED BY <1>1, <1>6, <1>8, <1>9 DEF Kept, Good

LEMMA CreateKept ==
    ASSUME HostTypes, NEW s, Good(s), NEW dip \in Ips, NEW req \in Ips,
           NEW type \in {"DISCOVER", "REQUEST", "DECLINE", "RELEASE"}
    PROVE  Kept(s, dhcp_create_msg(s, type, req, dip))
<1> DEFINE t == IF s.dhcp.tries = 0 THEN NewXid(s) ELSE s
           m == Message(t, type, req)
<1>1. Kept(s, s)
  BY DEF Kept
<1>2. Kept(s, t)
  BY <1>1, NewXidKept
<1>3. dhcp_create_msg(s, type, req, dip) = udp_sendto_if(t, dip, "dhcp", m)
  BY DEF dhcp_create_msg
<1> HIDE DEF t
<1>4. Good(t) /\ t.ip \in Ips /\ IpAny \in Ips
  BY <1>2 DEF Kept, Good, Stacks, Ips
<1>5. m \in DhcpOut
  BY <1>4 DEF Message, DhcpOut
<1> HIDE DEF m
<1>6. Datagram(t, dip, "dhcp", m) \in Packets
  BY <1>4, <1>5 DEF Datagram, Packets, DhcpPackets
<1>7. Kept(t, udp_sendto_if(t, dip, "dhcp", m))
  BY <1>4, <1>6, SendtoIfKept
<1> QED BY <1>2, <1>3, <1>7, KeptTrans

\* What is sent with a state set before and a try counted after it.
LEMMA CreateTriedKept ==
    ASSUME HostTypes, NEW s, NEW t, Kept(s, t), NEW dip \in Ips, NEW req \in Ips,
           NEW type \in {"DISCOVER", "REQUEST", "DECLINE", "RELEASE"}
    PROVE  Kept(s, Tried(dhcp_create_msg(t, type, req, dip)))
<1>1. Kept(t, dhcp_create_msg(t, type, req, dip))
  BY CreateKept DEF Kept
<1>2. Kept(dhcp_create_msg(t, type, req, dip), Tried(dhcp_create_msg(t, type, req, dip)))
  BY <1>1, TriedKept DEF Kept
<1> QED BY <1>1, <1>2, KeptTrans

\* The addresses that the client keeps.
LEMMA ClientIps ==
    ASSUME NEW s, Good(s)
    PROVE  /\ s \in Stacks /\ s.dhcp \in Clients
           /\ s.dhcp.offered \in Ips /\ s.dhcp.server \in Ips /\ s.ip \in Ips
           /\ s.dhcp.offgw \in {IpAny, RouterIp}
           /\ IpAny \in Ips /\ Bcast \in Ips
  BY DEF Good, Stacks, Clients, Ips

LEMMA StateTypes == {"OFF", "SELECTING", "REQUESTING", "CHECKING", "BOUND", "RENEWING",
                     "REBINDING", "REBOOTING", "BACKING_OFF"} \subseteq DhcpStates
  BY DEF DhcpStates

LEMMA DiscoverKept ==
    ASSUME HostTypes, NEW s, Good(s)
    PROVE  Kept(s, dhcp_discover(s))
<1> DEFINE d == [s.dhcp EXCEPT !.offered = IpAny]
           r == [s EXCEPT !.dhcp = d]
           t == dhcp_set_state(r, "SELECTING")
<1>1. s \in Stacks /\ s.dhcp \in Clients /\ IpAny \in Ips /\ Bcast \in Ips
  BY ClientIps
<1>2. d \in Clients
  BY <1>1 DEF Clients
<1>3. dhcp_discover(s) = Tried(dhcp_create_msg(t, "DISCOVER", IpAny, Bcast))
  BY <1>1 DEF dhcp_discover, Stacks
<1> HIDE DEF d
<1>4. Kept(s, r)
  BY <1>2, ClientKept
<1> HIDE DEF r
<1>5. Kept(r, t)
  BY <1>4, SetStateKept, StateTypes DEF Kept
<1> HIDE DEF t
<1> QED BY <1>1, <1>3, <1>4, <1>5, KeptTrans, CreateTriedKept

LEMMA SelectKept ==
    ASSUME HostTypes, NEW s, Good(s)
    PROVE  Kept(s, dhcp_select(s)) /\ Kept(s, dhcp_reboot(s)) /\ Kept(s, dhcp_decline(s))
<1> DEFINE t == dhcp_set_state(s, "REQUESTING")
           u == dhcp_set_state(s, "REBOOTING")
           v == dhcp_set_state(s, "BACKING_OFF")
<1>1. Kept(s, t) /\ Kept(s, u) /\ Kept(s, v)
  BY SetStateKept, StateTypes
<1>2. /\ dhcp_select(s) = Tried(dhcp_create_msg(t, "REQUEST", t.dhcp.offered, Bcast))
      /\ dhcp_reboot(s) = Tried(dhcp_create_msg(u, "REQUEST", u.dhcp.offered, Bcast))
      /\ dhcp_decline(s) = Tried(dhcp_create_msg(v, "DECLINE", v.dhcp.offered, Bcast))
  BY DEF dhcp_select, dhcp_reboot, dhcp_decline
<1> HIDE DEF t, u, v
<1>3. t.dhcp.offered \in Ips /\ u.dhcp.offered \in Ips /\ v.dhcp.offered \in Ips /\ Bcast \in Ips
  BY <1>1, ClientIps DEF Kept
<1> QED BY <1>1, <1>2, <1>3, CreateTriedKept

LEMMA RenewKept ==
    ASSUME HostTypes, NEW s, Good(s)
    PROVE  Kept(s, dhcp_renew(s)) /\ Kept(s, dhcp_rebind(s))
<1> DEFINE t == dhcp_set_state(s, "RENEWING")
           u == dhcp_set_state(s, "REBINDING")
<1>1. Kept(s, t) /\ Kept(s, u)
  BY SetStateKept, StateTypes
<1>2. /\ dhcp_renew(s) = Tried(dhcp_create_msg(t, "REQUEST", IpAny, t.dhcp.server))
      /\ dhcp_rebind(s) = Tried(dhcp_create_msg(u, "REQUEST", IpAny, Bcast))
  BY DEF dhcp_renew, dhcp_rebind
<1> HIDE DEF t, u
<1>3. t.dhcp.server \in Ips /\ IpAny \in Ips /\ Bcast \in Ips
  BY <1>1, ClientIps DEF Kept
<1> QED BY <1>1, <1>2, <1>3, CreateTriedKept

LEMMA CheckKept ==
    ASSUME HostTypes, NEW s, Good(s)
    PROVE  Kept(s, dhcp_check(s))
<1> DEFINE t == dhcp_set_state(s, "CHECKING")
           u == etharp_query(t, t.dhcp.offered, <<>>)
<1>1. Kept(s, t)
  BY SetStateKept, StateTypes
<1>2. dhcp_check(s) = Tried(u)
  BY DEF dhcp_check
<1> HIDE DEF t
<1>3. t.dhcp.offered \in Ips /\ Good(t)
  BY <1>1, ClientIps DEF Kept
<1>4. <<>> \in Seq(Packets) /\ \A n \in DOMAIN <<>> : MayWait(<<>>[n], t.dhcp.offered)
  OBVIOUS
<1>5. Kept(t, u)
  BY <1>3, <1>4, QueryKept
<1> HIDE DEF u
<1>6. Kept(u, Tried(u))
  BY <1>5, TriedKept DEF Kept
<1> QED BY <1>1, <1>2, <1>5, <1>6, KeptTrans

LEMMA ReleaseKept ==
    ASSUME HostTypes, NEW s, Good(s)
    PROVE  Kept(s, ReleaseMessage(s)) /\ Kept(s, dhcp_release(s)) /\ Kept(s, dhcp_stop(s))
<1> DEFINE t == dhcp_set_state(s, "OFF")
           d == [t.dhcp EXCEPT !.server = IpAny, !.offered = IpAny, !.offgw = IpAny,
                               !.t0 = 0, !.t1r = 0, !.t2r = 0]
           u == [t EXCEPT !.dhcp = d]
<1>1. Kept(s, t)
  BY SetStateKept, StateTypes
<1>2. t \in Stacks /\ t.dhcp \in Clients /\ IpAny \in Ips /\ Good(t)
  BY <1>1, ClientIps DEF Kept
<1>3. ReleaseMessage(s) = Tried(dhcp_create_msg(u, "RELEASE", IpAny, IpAny))
  BY <1>2 DEF ReleaseMessage, Stacks
<1>4. d \in Clients
  <2>1. \A a \in Ips, g \in {IpAny, RouterIp}, n \in Int :
            [t.dhcp EXCEPT !.server = a, !.offered = a, !.offgw = g,
                           !.t0 = n, !.t1r = n, !.t2r = n] \in Clients
    BY <1>2 DEF Clients
  <2>2. 0 \in Int /\ IpAny \in {IpAny, RouterIp}
    OBVIOUS
  <2> QED BY <1>2, <2>1, <2>2, Zenon
<1>5. dhcp_stop(s) = t
  BY DEF dhcp_stop
<1> HIDE DEF t, d
<1>6. Kept(s, u)
  BY <1>1, <1>2, <1>4, ClientKept, KeptTrans
<1>7. Kept(s, ReleaseMessage(s))
  BY <1>2, <1>3, <1>6, CreateTriedKept
<1>8. Kept(ReleaseMessage(s), Unconfigured(ReleaseMessage(s)))
  BY <1>7, UnconfiguredKept DEF Kept
<1> QED BY <1>1, <1>5, <1>7, <1>8, KeptTrans DEF dhcp_release

LEMMA StartKept ==
    ASSUME NEW s, Good(s)
    PROVE  Kept(s, dhcp_start(s))
<1>1. Cleared \in Clients
  BY DEF Cleared, Clients, DhcpStates, Ips
<1> DEFINE t == [s EXCEPT !.dhcp = Cleared]
<1>2. dhcp_start(s) = NewXid(t)
  BY DEF dhcp_start
<1>3. Kept(s, t)
  BY <1>1, ClientKept
<1> HIDE DEF t
<1>4. Kept(t, NewXid(t))
  BY <1>3, NewXidKept DEF Kept
<1> QED BY <1>2, <1>3, <1>4, KeptTrans

LEMMA TimerType ==
    ASSUME NEW period \in Int, NEW timer \in Int
    PROVE  TimerFor(period, timer) \in Int
<1> DEFINE h == (period + 1) \div 2
           most == TimerSpan - 1
<1>1. h \in Int /\ most \in Int
  BY DhcpAssumption
<1> HIDE DEF h, most
<1>2. \E x \in {h, 1} : \A y \in {h, 1} : x >= y
  BY <1>1
<1> DEFINE g == Max({h, 1})
<1>3. g \in Int
  BY <1>1, <1>2 DEF Max
<1> HIDE DEF g
<1>4. \E x \in {g, most} : \A y \in {g, most} : x <= y
  BY <1>1, <1>3
<1>5. Min({g, most}) \in Int
  BY <1>1, <1>3, <1>4 DEF Min
<1>6. Minutes(period) \in Int
  BY <1>5 DEF Minutes, g, h, most
<1> QED BY <1>6 DEF TimerFor

LEMMA BindKept ==
    ASSUME HostTypes, NEW s, Good(s)
    PROVE  Kept(s, dhcp_bind(s))
<1> DEFINE a == TimerFor(s.dhcp.t1r, s.dhcp.t1)
           b == TimerFor(s.dhcp.t2r, s.dhcp.t2)
           d == [s.dhcp EXCEPT !.t1 = a, !.t2 = b]
           t == [s EXCEPT !.dhcp = d]
           gw == IF s.dhcp.offgw = IpAny THEN FirstHost ELSE s.dhcp.offgw
           u == netif_set_addr(t, s.dhcp.offered, Net, gw)
           v == netif_set_up(u)
<1>1. s \in Stacks /\ s.dhcp \in Clients /\ s.dhcp.offered \in Ips /\ gw \in {IpAny, RouterIp}
  BY ClientIps, NetAssumption
<1>2. a \in Int /\ b \in Int
  <2>1. s.dhcp.t1r \in Int /\ s.dhcp.t1 \in Int /\ s.dhcp.t2r \in Int /\ s.dhcp.t2 \in Int
    BY <1>1 DEF Clients
  <2> QED BY <2>1, TimerType
<1>3. dhcp_bind(s) = dhcp_set_state(v, "BOUND")
  BY <1>1 DEF dhcp_bind, Stacks, Clients
<1> HIDE DEF a, b, gw
<1>4. d \in Clients
  BY <1>1, <1>2 DEF Clients
<1> HIDE DEF d
<1>5. Kept(s, t)
  BY <1>4, ClientKept
<1> HIDE DEF t
<1>6. Kept(t, u)
  BY <1>1, <1>5, SetAddrKept DEF Kept
<1> HIDE DEF u
<1>7. Kept(u, v)
  BY <1>6, SetUpKept DEF Kept
<1> HIDE DEF v
<1>8. Kept(v, dhcp_set_state(v, "BOUND"))
  BY <1>7, SetStateKept, StateTypes DEF Kept
<1> QED BY <1>3, <1>5, <1>6, <1>7, <1>8, KeptTrans

\* The options of an ACK; the servers of the resolver change, its table
\* does not.
LEMMA AckKept ==
    ASSUME NEW s, Good(s), NEW m \in DhcpIn
    PROVE  Kept(s, dhcp_handle_ack(s, m))
<1> DEFINE o == m.terms
           x == IF o.t1 = NotGiven THEN o.t0 \div 2 ELSE o.t1
           y == IF o.t2 = NotGiven THEN o.t0 ELSE o.t2
           d == [s.dhcp EXCEPT !.t0 = o.t0, !.offered = m.yi, !.offgw = o.gw, !.t1r = x, !.t2r = y]
           sv == [n \in 1 .. DNS_MAX_SERVERS |->
                     IF n \in DOMAIN o.dns THEN dns_setserver(s.dns.servers[n], o.dns[n])
                     ELSE s.dns.servers[n]]
           t == [s EXCEPT !.dhcp = d]
           u == [t EXCEPT !.dns = [t.dns EXCEPT !.servers = sv]]
<1>1. s \in Stacks /\ s.dhcp \in Clients /\ s.dns \in Resolvers
      /\ s.dns.servers \in [1 .. DNS_MAX_SERVERS -> Ips]
  BY DEF Good, Stacks, Resolvers
<1>2. o \in Terms /\ m.yi \in Ips
  BY DEF DhcpIn
<1>3. /\ o.t0 \in Int /\ o.t1 \in Int /\ o.t2 \in Int /\ o.gw \in {IpAny, RouterIp}
      /\ o.dns \in Seq(Ips)
  BY <1>2 DEF Terms
<1>4. dhcp_handle_ack(s, m) = u
  BY <1>1 DEF dhcp_handle_ack, Stacks, Resolvers
<1>5. x \in Int /\ y \in Int
  BY <1>3
<1>6. sv \in [1 .. DNS_MAX_SERVERS -> Ips]
  <2> SUFFICES ASSUME NEW n \in 1 .. DNS_MAX_SERVERS
               PROVE  (IF n \in DOMAIN o.dns THEN dns_setserver(s.dns.servers[n], o.dns[n])
                       ELSE s.dns.servers[n]) \in Ips
    OBVIOUS
  <2>1. s.dns.servers[n] \in Ips
    BY <1>1
  <2>2. n \in DOMAIN o.dns => o.dns[n] \in Ips
    BY <1>3
  <2> QED BY <2>1, <2>2 DEF dns_setserver
<1> HIDE DEF x, y, sv, o
<1>7. d \in Clients
  BY <1>1, <1>2, <1>3, <1>5 DEF Clients
<1> HIDE DEF d
<1>8. Kept(s, t) /\ t \in Stacks
  BY <1>7, ClientKept DEF Kept, Good
<1> HIDE DEF t
<1>9. t.dns \in Resolvers
  BY <1>8 DEF Stacks
<1> DEFINE rs == [t.dns EXCEPT !.servers = sv]
<1>10. rs \in Resolvers /\ rs.tab = t.dns.tab
  BY <1>6, <1>9 DEF Resolvers
<1>11. u = [t EXCEPT !.dns = rs]
  OBVIOUS
<1> HIDE DEF rs, u
<1>12. u \in Stacks /\ u.arp = t.arp /\ u.out = t.out /\ u.dns = rs /\ u.found = t.found
  BY <1>8, <1>10, <1>11 DEF Stacks
<1>13. Kept(t, u)
  BY <1>8, <1>10, <1>12, Frame DEF Kept
<1> QED BY <1>4, <1>8, <1>13, KeptTrans

LEMMA ArmedKept ==
    ASSUME NEW s, Good(s)
    PROVE  Kept(s, [s EXCEPT !.dhcp.armed = FALSE]) /\ Kept(s, [s EXCEPT !.dhcp.tries = 0])
<1> DEFINE d == [s.dhcp EXCEPT !.armed = FALSE]
           e == [s.dhcp EXCEPT !.tries = 0]
<1>1. s \in Stacks /\ s.dhcp \in Clients
  BY ClientIps
<1>2. d \in Clients /\ e \in Clients
  <2>1. \A b \in BOOLEAN : [s.dhcp EXCEPT !.armed = b] \in Clients
    BY <1>1 DEF Clients
  <2>2. \A n \in Int : [s.dhcp EXCEPT !.tries = n] \in Clients
    BY <1>1 DEF Clients
  <2>3. 0 \in Int /\ FALSE \in BOOLEAN
    OBVIOUS
  <2> QED BY <2>1, <2>2, <2>3, Zenon
<1>3. /\ [s EXCEPT !.dhcp.armed = FALSE] = [s EXCEPT !.dhcp = d]
      /\ [s EXCEPT !.dhcp.tries = 0] = [s EXCEPT !.dhcp = e]
  BY <1>1 DEF Stacks
<1> HIDE DEF d, e
<1> QED BY <1>2, <1>3, ClientKept

LEMMA OfferKept ==
    ASSUME HostTypes, NEW s, Good(s), NEW m \in DhcpIn
    PROVE  Kept(s, dhcp_handle_offer(s, m))
<1> DEFINE d == [s.dhcp EXCEPT !.server = m.sid, !.offered = m.yi]
           t == [s EXCEPT !.dhcp = d]
<1>1. s \in Stacks /\ s.dhcp \in Clients /\ m.sid \in Ips /\ m.yi \in Ips
  BY ClientIps DEF DhcpIn
<1>2. d \in Clients
  BY <1>1 DEF Clients
<1>3. dhcp_handle_offer(s, m) = dhcp_select(t)
  BY <1>1 DEF dhcp_handle_offer, Stacks
<1> HIDE DEF d
<1>4. Kept(s, t)
  BY <1>2, ClientKept
<1> HIDE DEF t
<1>5. Kept(t, dhcp_select(t))
  BY <1>4, SelectKept DEF Kept
<1> QED BY <1>3, <1>4, <1>5, KeptTrans

LEMMA NakKept ==
    ASSUME HostTypes, NEW s, Good(s)
    PROVE  Kept(s, dhcp_handle_nak(s))
<1> DEFINE t == Unconfigured(s)
           u == dhcp_set_state(t, "BACKING_OFF")
<1>1. Kept(s, t)
  BY UnconfiguredKept
<1>2. dhcp_handle_nak(s) = dhcp_discover(u)
  BY DEF dhcp_handle_nak
<1> HIDE DEF t
<1>3. Kept(t, u)
  BY <1>1, SetStateKept, StateTypes DEF Kept
<1> HIDE DEF u
<1>4. Kept(u, dhcp_discover(u))
  BY <1>3, DiscoverKept DEF Kept
<1> QED BY <1>1, <1>2, <1>3, <1>4, KeptTrans

LEMMA DhcpRecvKept ==
    ASSUME HostTypes, NEW s, Good(s), NEW m \in DhcpIn
    PROVE  Kept(s, dhcp_recv(s, m))
<1> DEFINE a == dhcp_handle_ack(s, m)
           f == [s EXCEPT !.dhcp.armed = FALSE]
<1>1. Kept(s, a) /\ Kept(s, f)
  BY AckKept, ArmedKept
<1> HIDE DEF a, f
<1>2. Kept(a, dhcp_check(a)) /\ Kept(f, dhcp_handle_offer(f, m))
  BY <1>1, CheckKept, OfferKept DEF Kept
<1>3. Kept(s, dhcp_check(a)) /\ Kept(s, dhcp_handle_offer(f, m))
  BY <1>1, <1>2, KeptTrans
<1>4. Kept(s, dhcp_bind(s)) /\ Kept(s, dhcp_handle_nak(s)) /\ Kept(s, s)
  BY BindKept, NakKept DEF Kept
<1>5. dhcp_recv(s, m) \in {dhcp_check(a), dhcp_bind(s), dhcp_handle_nak(s),
                           dhcp_handle_offer(f, m), s}
  BY DEF dhcp_recv, a, f
<1> QED BY <1>3, <1>4, <1>5

LEMMA ArpReplyKept ==
    ASSUME HostTypes, NEW s, Good(s), NEW ip
    PROVE  Kept(s, dhcp_arp_reply(s, ip))
<1>1. Kept(s, s)
  BY DEF Kept
<1>2. dhcp_arp_reply(s, ip) \in {dhcp_decline(s), s}
  BY DEF dhcp_arp_reply
<1> QED BY <1>1, <1>2, SelectKept

LEMMA TimeoutKept ==
    ASSUME HostTypes, NEW s, Good(s)
    PROVE  Kept(s, dhcp_timeout(s))
<1> DEFINE a == dhcp_release(s)
<1>1. Kept(s, s) /\ Kept(s, a)
  BY ReleaseKept DEF Kept
<1> HIDE DEF a
<1>2. Kept(a, dhcp_discover(a))
  BY <1>1, DiscoverKept DEF Kept
<1>3. Kept(s, dhcp_discover(a))
  BY <1>1, <1>2, KeptTrans
<1>4. dhcp_timeout(s) \in {dhcp_discover(s), dhcp_select(s), dhcp_discover(a), dhcp_check(s),
                           dhcp_bind(s), dhcp_renew(s), dhcp_rebind(s), dhcp_reboot(s), s}
  BY DEF dhcp_timeout, a
<1> QED BY <1>1, <1>3, <1>4, DiscoverKept, SelectKept, CheckKept, BindKept, RenewKept

LEMMA FineTmrKept ==
    ASSUME HostTypes, NEW s, Good(s)
    PROVE  Kept(s, dhcp_fine_tmr(s))
<1> DEFINE t == [s EXCEPT !.dhcp.armed = FALSE]
<1>1. Kept(s, t)
  BY ArmedKept
<1> HIDE DEF t
<1>2. Kept(t, dhcp_timeout(t))
  BY <1>1, TimeoutKept DEF Kept
<1> QED BY <1>1, <1>2, KeptTrans DEF dhcp_fine_tmr, t

LEMMA TickedType ==
    ASSUME NEW n \in Int
    PROVE  Ticked(n) \in Int
<1>1. \A a \in Int, b \in Nat \ {0} : a % b \in Int
  OBVIOUS
<1>2. n + TimerSpan - 1 \in Int /\ TimerSpan \in Nat \ {0}
  BY DhcpAssumption
<1> QED BY <1>1, <1>2 DEF Ticked

LEMMA CoarseTmrKept ==
    ASSUME HostTypes, NEW s, Good(s)
    PROVE  Kept(s, dhcp_coarse_tmr(s))
<1> DEFINE d == [s.dhcp EXCEPT !.t2 = Ticked(s.dhcp.t2)]
           t == [s EXCEPT !.dhcp = d]
           e == [d EXCEPT !.t1 = Ticked(s.dhcp.t1)]
           u == [t EXCEPT !.dhcp = e]
<1>1. s \in Stacks /\ s.dhcp \in Clients
  BY ClientIps
<1>2. Ticked(s.dhcp.t2) \in Int /\ Ticked(s.dhcp.t1) \in Int
  <2>1. s.dhcp.t2 \in Int /\ s.dhcp.t1 \in Int
    BY <1>1 DEF Clients
  <2> QED BY <2>1, TickedType
<1>3. d \in Clients /\ e \in Clients
  BY <1>1, <1>2 DEF Clients
<1>4. dhcp_coarse_tmr(s) \in {dhcp_t2_timeout(t), dhcp_t1_timeout(u), u}
  BY <1>1 DEF dhcp_coarse_tmr, Stacks, Clients
<1> HIDE DEF d, e
<1>5. Kept(s, t)
  BY <1>3, ClientKept
<1> HIDE DEF t
<1>6. Kept(t, u)
  BY <1>3, <1>5, ClientKept DEF Kept
<1> HIDE DEF u
<1>7. Kept(s, u)
  BY <1>5, <1>6, KeptTrans
<1>8. /\ Kept(t, dhcp_rebind(t)) /\ Kept(u, dhcp_renew(u))
  BY <1>5, <1>6, RenewKept DEF Kept
<1>9. Kept(s, dhcp_rebind(t)) /\ Kept(s, dhcp_renew(u))
  BY <1>5, <1>7, <1>8, KeptTrans
<1>10. dhcp_t2_timeout(t) \in {dhcp_rebind(t), t} /\ dhcp_t1_timeout(u) \in {dhcp_renew(u), u}
  BY DEF dhcp_t2_timeout, dhcp_t1_timeout
<1> QED BY <1>4, <1>5, <1>7, <1>9, <1>10

LEMMA NetworkChangedKept ==
    ASSUME HostTypes, NEW s, Good(s)
    PROVE  Kept(s, dhcp_network_changed(s))
<1> DEFINE t == [s EXCEPT !.dhcp.tries = 0]
           u == netif_set_down(t)
<1>1. Kept(s, t) /\ Kept(s, s)
  BY ArmedKept DEF Kept
<1>2. dhcp_network_changed(s) \in {dhcp_reboot(u), s, dhcp_discover(t)}
  BY DEF dhcp_network_changed
<1> HIDE DEF t
<1>3. Kept(t, u) /\ Kept(t, dhcp_discover(t))
  BY <1>1, SetDownKept, DiscoverKept DEF Kept
<1> HIDE DEF u
<1>4. Kept(u, dhcp_reboot(u))
  BY <1>3, SelectKept DEF Kept
<1> QED BY <1>1, <1>2, <1>3, <1>4, KeptTrans

LEMMA LinkUpKept ==
    ASSUME HostTypes, NEW s, Good(s)
    PROVE  Kept(s, netif_set_link_up(s))
<1> DEFINE r == [s EXCEPT !.link = TRUE]
           t == dhcp_network_changed(r)
<1>1. s \in Stacks
  BY DEF Good
<1>2. r \in Stacks /\ r.arp = s.arp /\ r.out = s.out /\ r.dns = s.dns /\ r.found = s.found
  BY <1>1 DEF Stacks
<1>3. netif_set_link_up(s) \in {s, etharp_request(t, t.ip), t}
  BY DEF netif_set_link_up
<1> HIDE DEF r
<1>4. Kept(s, r) /\ Kept(s, s)
  BY <1>2, Frame DEF Kept
<1>5. Kept(r, t)
  BY <1>4, NetworkChangedKept DEF Kept
<1> HIDE DEF t
<1>6. Good(t) /\ t.ip \in Ips
  BY <1>5, ClientIps DEF Kept
<1>7. Kept(t, etharp_request(t, t.ip))
  BY <1>6, RequestKept
<1> QED BY <1>3, <1>4, <1>5, <1>7, KeptTrans
-----------------------------------------------------------------------------
(***************************************************************************)
(* The resolver.                                                           *)
(***************************************************************************)

\* What holds of the stack when a call waits for one of the names ns.
Fine(s, ns) == Good(s) /\ Live(s, ns)

LEMMA FineKept ==
    ASSUME NEW s, NEW t, NEW ns, Fine(s, ns), Kept(s, t)
    PROVE  Fine(t, ns)
  BY DEF Fine, Kept, Live, Open

LEMMA TabTypes ==
    ASSUME NEW s, Good(s)
    PROVE  /\ s \in Stacks /\ s.dns \in Resolvers /\ s.dns.tab \in [Names -> Questions]
           /\ s.dns.servers \in [1 .. DNS_MAX_SERVERS -> Ips] /\ s.dns.seqno \in Nat
  BY DEF Good, Stacks, Resolvers

\* One entry of the table is written, and perhaps the caller is told.
LEMMA SetQuestion ==
    ASSUME NEW s, Good(s), NEW i \in Names, NEW x \in Questions
    PROVE  LET t == [s EXCEPT !.dns.tab[i] = x]
           IN  Good(t) /\ t.dns.tab = [s.dns.tab EXCEPT ![i] = x] /\ t.found = s.found
<1> DEFINE t == [s EXCEPT !.dns.tab[i] = x]
           tab == [s.dns.tab EXCEPT ![i] = x]
           d == [s.dns EXCEPT !.tab = tab]
<1>1. s \in Stacks /\ s.dns \in Resolvers /\ s.dns.tab \in [Names -> Questions]
  BY TabTypes
<1>2. tab \in [Names -> Questions]
  BY <1>1
<1>3. t = [s EXCEPT !.dns = d]
  BY <1>1 DEF Stacks, Resolvers
<1> HIDE DEF tab
<1>4. d \in Resolvers /\ d.tab = tab
  BY <1>1, <1>2 DEF Resolvers
<1> HIDE DEF d, t
<1>5. t \in Stacks /\ t.dns = d /\ t.arp = s.arp /\ t.out = s.out /\ t.found = s.found
  BY <1>1, <1>3, <1>4 DEF Stacks
<1>6. Good(t)
  BY <1>5 DEF Good, OneEntry
<1> QED BY <1>4, <1>5, <1>6 DEF tab, t

LEMMA DnsFoundGood ==
    ASSUME NEW s, Good(s), NEW addr \in Ips
    PROVE  LET t == do_dns_found(s, addr)
           IN  Good(t) /\ t.dns = s.dns /\ t.found = <<addr>>
<1> DEFINE t == do_dns_found(s, addr)
<1>1. s \in Stacks
  BY DEF Good
<1>2. <<addr>> \in Seq(Ips)
  OBVIOUS
<1>3. t \in Stacks /\ t.dns = s.dns /\ t.arp = s.arp /\ t.out = s.out /\ t.found = <<addr>>
  BY <1>1, <1>2 DEF Stacks, do_dns_found
<1> HIDE DEF t
<1>4. Good(t)
  BY <1>3 DEF Good, OneEntry
<1> QED BY <1>3, <1>4 DEF t

LEMMA UnusedType == Unused \in Questions /\ Unused.st = "UNUSED"
<1>1. IpAny \in Ips /\ 1 \in 1 .. DNS_MAX_SERVERS
  BY DnsAssumption DEF Ips
<1> QED BY <1>1 DEF Unused, Questions

\* An entry goes on, or an entry is closed without its caller.
LEMMA LiveSet ==
    ASSUME NEW s, NEW ns, Fine(s, ns), NEW i \in Names, NEW x \in Questions,
           x.st \in {"NEW", "ASKING"} => Open(s, i) /\ x.name = s.dns.tab[i].name,
           x.st = "DONE" => x.name \in HostNames /\ x.addr \in Passing(x.name)
    PROVE  Fine([s EXCEPT !.dns.tab[i] = x], ns)
<1> DEFINE t == [s EXCEPT !.dns.tab[i] = x]
<1>1. Good(t) /\ t.dns.tab = [s.dns.tab EXCEPT ![i] = x] /\ t.found = s.found
  BY SetQuestion DEF Fine
<1> HIDE DEF t
<1>2. s.dns.tab \in [Names -> Questions]
  BY TabTypes DEF Fine
<1>3. \A j \in Names : t.dns.tab[j] = IF j = i THEN x ELSE s.dns.tab[j]
  BY <1>1, <1>2
<1>4. \A j \in Names : Open(t, j) => Open(s, j) /\ t.dns.tab[j].name = s.dns.tab[j].name
  BY <1>3 DEF Open
<1>5. Live(s, ns)
  BY DEF Fine
<1>6. Live(t, ns)
  BY <1>1, <1>3, <1>4, <1>5 DEF Live
<1> QED BY <1>1, <1>6 DEF Fine, t

\* An entry that could call back has called, and is closed.
LEMMA LiveCall ==
    ASSUME NEW s, NEW ns, Fine(s, ns), NEW i \in Names, Open(s, i), NEW x \in Questions,
           x.st \in {"UNUSED", "DONE"},
           x.st = "DONE" => x.name \in HostNames /\ x.addr \in Passing(x.name),
           NEW addr \in Ips, addr \in Answers(s.dns.tab[i].name)
    PROVE  Fine(do_dns_found([s EXCEPT !.dns.tab[i] = x], addr), ns)
<1> DEFINE u == [s EXCEPT !.dns.tab[i] = x]
           t == do_dns_found(u, addr)
<1>1. Good(u) /\ u.dns.tab = [s.dns.tab EXCEPT ![i] = x]
  BY SetQuestion DEF Fine
<1> HIDE DEF u
<1>2. Good(t) /\ t.dns.tab = [s.dns.tab EXCEPT ![i] = x] /\ t.found = <<addr>>
  BY <1>1, DnsFoundGood
<1> HIDE DEF t
<1>3. s.dns.tab \in [Names -> Questions]
  BY TabTypes DEF Fine
<1>4. \A j \in Names : t.dns.tab[j] = IF j = i THEN x ELSE s.dns.tab[j]
  BY <1>2, <1>3
<1>5. Live(s, ns)
  BY DEF Fine
<1>6. \A j \in Names : ~ Open(t, j)
  BY <1>4, <1>5 DEF Live, Open
<1>7. s.dns.tab[i].name \in ns
  BY <1>5 DEF Live
<1>8. t.found # <<>> /\ t.found[1] = addr
  BY <1>2
<1>9. Live(t, ns)
  BY <1>4, <1>5, <1>6, <1>7, <1>8 DEF Live
<1> QED BY <1>2, <1>9 DEF Fine, t, u

LEMMA FailedFine ==
    ASSUME NEW s, NEW ns, Fine(s, ns), NEW i \in Names, Open(s, i)
    PROVE  Fine(Failed(s, i), ns)
<1>1. IpAny \in Ips
  BY DEF Ips
<1>2. IpAny \in Answers(s.dns.tab[i].name)
  BY DEF Answers
<1> QED BY <1>1, <1>2, UnusedType, LiveCall DEF Failed

LEMMA DnsSendKept ==
    ASSUME HostTypes, NEW s, Good(s), NEW i \in Names, s.dns.tab[i].name \in HostNames
    PROVE  Kept(s, dns_send(s, i))
<1> DEFINE e == s.dns.tab[i]
           server == s.dns.servers[e.num]
           d == [s.dns EXCEPT !.conn = server]
           t == [s EXCEPT !.dns = d]
           m == [id |-> i, name |-> e.name]
<1>1. s \in Stacks /\ s.dns \in Resolvers /\ e \in Questions
      /\ s.dns.servers \in [1 .. DNS_MAX_SERVERS -> Ips]
  BY TabTypes
<1>2. server \in Ips
  BY <1>1 DEF Questions
<1>3. dns_send(s, i) = udp_sendto(t, server, "dns", m)
  BY <1>1 DEF dns_send, Stacks, Resolvers
<1>4. m \in DnsOut
  BY DEF DnsOut
<1> HIDE DEF server, m
<1>5. d \in Resolvers /\ d.tab = s.dns.tab
  BY <1>1, <1>2 DEF Resolvers
<1> HIDE DEF d
<1>6. t \in Stacks /\ t.dns = d /\ t.arp = s.arp /\ t.out = s.out /\ t.found = s.found
  BY <1>1, <1>5 DEF Stacks
<1> HIDE DEF t
<1>7. Kept(s, t)
  BY <1>5, <1>6, Frame
<1>8. Datagram(t, server, "dns", m) \in Packets
  <2>1. t.ip \in Ips
    BY <1>6 DEF Stacks
  <2> QED BY <1>2, <1>4, <2>1 DEF Datagram, Packets, DnsPackets
<1>9. Kept(t, udp_sendto(t, server, "dns", m))
  BY <1>7, <1>8, SendtoKept DEF Kept
<1> QED BY <1>3, <1>7, <1>9, KeptTrans

\* An entry that is asked for is written, and its question is sent.
LEMMA AskFine ==
    ASSUME HostTypes, NEW s, NEW ns, ns \subseteq HostNames, Fine(s, ns), NEW i \in Names,
           Open(s, i), NEW x \in Questions, x.st = "ASKING", x.name = s.dns.tab[i].name
    PROVE  Fine(dns_send([s EXCEPT !.dns.tab[i] = x], i), ns)
<1> DEFINE t == [s EXCEPT !.dns.tab[i] = x]
<1>1. Fine(t, ns)
  BY LiveSet
<1>2. Good(t) /\ t.dns.tab = [s.dns.tab EXCEPT ![i] = x]
  BY SetQuestion DEF Fine
<1>3. s.dns.tab \in [Names -> Questions] /\ Live(s, ns)
  BY TabTypes DEF Fine
<1> HIDE DEF t
<1>4. t.dns.tab[i].name \in HostNames
  BY <1>2, <1>3 DEF Live
<1>5. Kept(t, dns_send(t, i))
  BY <1>2, <1>4, DnsSendKept
<1>6. Fine(dns_send(t, i), ns)
  BY <1>1, <1>5, FineKept
<1> QED BY <1>6 DEF t

\* A question is asked, asked again, given to the next server or given up,
\* or an answer expires.
LEMMA CheckEntryFine ==
    ASSUME HostTypes, NEW s, NEW ns, ns \subseteq HostNames, Fine(s, ns), NEW i \in Names
    PROVE  Fine(dns_check_entry(s, i), ns)
<1> DEFINE e == s.dns.tab[i]
           r == e.retries + 1
           more == e.num < DNS_MAX_SERVERS /\ s.dns.servers[e.num + 1] # IpAny
           Set(x) == [s EXCEPT !.dns.tab[i] = x]
           c == dns_check_entry(s, i)
           n1 == [e EXCEPT !.st = "ASKING", !.num = 1, !.tmr = 1, !.retries = 0]
           n2 == [e EXCEPT !.tmr = e.tmr - 1]
           n3 == [e EXCEPT !.num = e.num + 1, !.tmr = 1, !.retries = 0]
           n4 == [e EXCEPT !.retries = r, !.tmr = r]
           n5 == [e EXCEPT !.ttl = e.ttl - 1]
<1>1. e \in Questions /\ Good(s) /\ Live(s, ns)
  BY TabTypes DEF Fine
<1>2. /\ e.num \in 1 .. DNS_MAX_SERVERS /\ e.tmr \in Int /\ e.retries \in Int /\ e.ttl \in Int
      /\ e.st \in {"UNUSED", "NEW", "ASKING", "DONE"}
  BY <1>1 DEF Questions
<1>3. \/ c = dns_send(Set(n1), i) /\ e.st = "NEW"
      \/ c = Set(n2) /\ e.st = "ASKING"
      \/ c = Set(n3) /\ e.st = "ASKING" /\ e.num < DNS_MAX_SERVERS
      \/ c = Failed(s, i) /\ e.st = "ASKING"
      \/ c = dns_send(Set(n4), i) /\ e.st = "ASKING"
      \/ c = Set(Unused)
      \/ c = Set(n5) /\ e.st = "DONE"
      \/ c = s
  <2> DEFINE s1 == dns_send(Set(n1), i)
             s2 == Set(n2)
             s3 == Set(n3)
             s4 == dns_send(Set(n4), i)
             s5 == Set(IF e.ttl = 1 THEN Unused ELSE n5)
  <2>1. c = CASE e.st = "NEW" -> s1
              [] e.st = "ASKING" /\ e.tmr # 1 -> s2
              [] e.st = "ASKING" /\ e.tmr = 1 /\ r = DNS_MAX_RETRIES /\ more -> s3
              [] e.st = "ASKING" /\ e.tmr = 1 /\ r = DNS_MAX_RETRIES /\ ~ more -> Failed(s, i)
              [] e.st = "ASKING" /\ e.tmr = 1 /\ r < DNS_MAX_RETRIES -> s4
              [] e.st = "DONE" /\ e.ttl # 0 -> s5
              [] OTHER -> s
    BY Zenon DEF dns_check_entry
  <2>2. s5 = Set(Unused) \/ s5 = Set(n5)
    BY Zenon
  <2>3. more => e.num < DNS_MAX_SERVERS
    OBVIOUS
  <2> HIDE DEF c, s1, s2, s3, s4, s5, more, e
  <2>4. \/ c = s1 /\ e.st = "NEW"
        \/ c = s2 /\ e.st = "ASKING"
        \/ c = s3 /\ e.st = "ASKING" /\ more
        \/ c = Failed(s, i) /\ e.st = "ASKING"
        \/ c = s4 /\ e.st = "ASKING"
        \/ c = s5 /\ e.st = "DONE"
        \/ c = s
    BY <2>1
  <2> QED BY <2>2, <2>3, <2>4, Zenon DEF s1, s2, s3, s4
<1> HIDE DEF c, e
<1>4. CASE c = dns_send(Set(n1), i) /\ e.st = "NEW"
  <2>1. \A st \in {"ASKING"}, n \in 1 .. DNS_MAX_SERVERS, a \in Int, b \in Int :
            LET x == [e EXCEPT !.st = st, !.num = n, !.tmr = a, !.retries = b]
            IN  x \in Questions /\ x.st = "ASKING" /\ x.name = e.name
    BY <1>1 DEF Questions
  <2>2. 1 \in 1 .. DNS_MAX_SERVERS /\ 1 \in Int /\ 0 \in Int /\ "ASKING" \in {"ASKING"}
    BY DnsAssumption
  <2>3. n1 \in Questions /\ n1.st = "ASKING" /\ n1.name = e.name
    BY <2>1, <2>2, Zenon
  <2> HIDE DEF n1
  <2>4. Open(s, i)
    BY <1>4 DEF Open, e
  <2>5. Fine(c, ns)
    BY <1>4, <2>3, <2>4, AskFine DEF e
  <2> QED BY <2>5 DEF c
<1>5. CASE c = Set(n2) /\ e.st = "ASKING"
  <2>1. n2 \in Questions /\ n2.st = "ASKING" /\ n2.name = e.name
    <3>1. \A a \in Int : LET x == [e EXCEPT !.tmr = a]
                          IN  x \in Questions /\ x.st = e.st /\ x.name = e.name
      BY <1>1 DEF Questions
    <3>2. e.tmr - 1 \in Int
      BY <1>2
    <3> QED BY <1>5, <3>1, <3>2, Zenon
  <2> HIDE DEF n2
  <2>2. Open(s, i)
    BY <1>5 DEF Open, e
  <2>3. Fine(c, ns)
    BY <1>5, <2>1, <2>2, LiveSet DEF e
  <2> QED BY <2>3 DEF c
<1>6. CASE c = Set(n3) /\ e.st = "ASKING" /\ e.num < DNS_MAX_SERVERS
  <2>1. \A n \in 1 .. DNS_MAX_SERVERS, a \in Int, b \in Int :
            LET x == [e EXCEPT !.num = n, !.tmr = a, !.retries = b]
            IN  x \in Questions /\ x.st = e.st /\ x.name = e.name
    BY <1>1 DEF Questions
  <2>2. e.num + 1 \in 1 .. DNS_MAX_SERVERS /\ 1 \in Int /\ 0 \in Int
    BY <1>2, <1>6, DnsAssumption
  <2>3. n3 \in Questions /\ n3.st = e.st /\ n3.name = e.name
    BY <2>1, <2>2, Zenon
  <2> HIDE DEF n3
  <2>4. Open(s, i)
    BY <1>6 DEF Open, e
  <2>5. Fine(c, ns)
    BY <1>6, <2>3, <2>4, LiveSet DEF e
  <2> QED BY <2>5 DEF c
<1>7. CASE c = Failed(s, i) /\ e.st = "ASKING"
  <2>1. Open(s, i)
    BY <1>7 DEF Open, e
  <2>2. Fine(c, ns)
    BY <1>7, <2>1, FailedFine
  <2> QED BY <2>2 DEF c
<1>8. CASE c = dns_send(Set(n4), i) /\ e.st = "ASKING"
  <2>1. n4 \in Questions /\ n4.st = "ASKING" /\ n4.name = e.name
    <3>1. \A a \in Int : LET x == [e EXCEPT !.retries = a, !.tmr = a]
                          IN  x \in Questions /\ x.st = e.st /\ x.name = e.name
      BY <1>1 DEF Questions
    <3>2. r \in Int
      BY <1>2
    <3> QED BY <1>8, <3>1, <3>2, Zenon
  <2> HIDE DEF n4
  <2>2. Open(s, i)
    BY <1>8 DEF Open, e
  <2>3. Fine(c, ns)
    BY <1>8, <2>1, <2>2, AskFine DEF e
  <2> QED BY <2>3 DEF c
<1>9. CASE c = Set(Unused)
  <2>1. Fine(c, ns)
    BY <1>9, UnusedType, LiveSet
  <2> QED BY <2>1 DEF c
<1>10. CASE c = Set(n5) /\ e.st = "DONE"
  <2>1. n5 \in Questions /\ n5.st = "DONE" /\ n5.name = e.name /\ n5.addr = e.addr
    <3>1. \A a \in Int : LET x == [e EXCEPT !.ttl = a]
                          IN  /\ x \in Questions /\ x.st = e.st /\ x.name = e.name
                              /\ x.addr = e.addr
      BY <1>1 DEF Questions
    <3>2. e.ttl - 1 \in Int
      BY <1>2
    <3> QED BY <1>10, <3>1, <3>2, Zenon
  <2> HIDE DEF n5
  <2>2. e.name \in HostNames /\ e.addr \in Passing(e.name)
    BY <1>1, <1>10 DEF Live, e
  <2>3. Fine(c, ns)
    BY <1>10, <2>1, <2>2, LiveSet
  <2> QED BY <2>3 DEF c
<1>11. CASE c = s
  BY <1>11 DEF c
<1> QED BY <1>3, <1>4, <1>5, <1>6, <1>7, <1>8, <1>9, <1>10, <1>11

\* The walk of dns_check_entries over the first n entries.
Walk(s, g, n) == g = [i \in 0 .. n |-> IF i = 0 THEN s ELSE dns_check_entry(g[i - 1], i)]

\* There is one: take the shortest walk that there is not.
LEMMA WalkExists ==
    ASSUME NEW s, NEW n \in Nat
    PROVE  \E g : Walk(s, g, n)
<1> DEFINE T == {m \in Nat : ~ \E g : Walk(s, g, m)}
<1> SUFFICES ASSUME n \in T PROVE FALSE
  OBVIOUS
<1>1. PICK m \in T : \A k \in T : m <= k
  <2>1. T \subseteq Nat /\ T # {}
    OBVIOUS
  <2> HIDE DEF T
  <2> QED BY <2>1, LeastElement
<1>2. m \in Nat /\ ~ \E g : Walk(s, g, m)
  OBVIOUS
<1>3. CASE m = 0
  <2> DEFINE g == [i \in 0 .. 0 |-> s]
  <2>1. Walk(s, g, 0)
    BY DEF Walk
  <2> QED BY <1>2, <1>3, <2>1
<1>4. CASE m # 0
  <2>1. m - 1 \in Nat /\ m - 1 \notin T
    BY <1>1, <1>2, <1>4
  <2>2. PICK g : Walk(s, g, m - 1)
    BY <2>1
  <2> DEFINE h == [i \in 0 .. m |-> IF i = m THEN dns_check_entry(g[m - 1], m) ELSE g[i]]
  <2>3. ASSUME NEW i \in 0 .. m
        PROVE  h[i] = IF i = 0 THEN s ELSE dns_check_entry(h[i - 1], i)
    <3>1. CASE i = m
      BY <1>2, <1>4, <3>1
    <3>2. CASE i # m
      <4>1. i \in 0 .. m - 1 /\ (i # 0 => i - 1 \in 0 .. m /\ i - 1 # m)
        BY <1>2, <3>2
      <4>2. g[i] = IF i = 0 THEN s ELSE dns_check_entry(g[i - 1], i)
        BY <2>2, <4>1 DEF Walk
      <4> QED BY <3>2, <4>1, <4>2
    <3> QED BY <3>1, <3>2
  <2>4. DOMAIN h = 0 .. m /\ h = [i \in 0 .. m |-> h[i]]
    OBVIOUS
  <2> HIDE DEF h
  <2>5. Walk(s, h, m)
    BY <2>3, <2>4 DEF Walk
  <2> QED BY <1>2, <2>5
<1> QED BY <1>3, <1>4

LEMMA CheckEntriesFine ==
    ASSUME HostTypes, NEW s, NEW ns, ns \subseteq HostNames, Fine(s, ns)
    PROVE  Fine(dns_check_entries(s), ns)
<1> DEFINE N == DNS_TABLE_SIZE
           w == CHOOSE g : g = [i \in 0 .. N |-> IF i = 0 THEN s ELSE dns_check_entry(g[i - 1], i)]
<1>1. dns_check_entries(s) = w[N]
  BY DEF dns_check_entries
<1>2. Walk(s, w, N)
  BY WalkExists, DnsAssumption DEF Walk
<1> HIDE DEF w
<1>3. \A i \in 0 .. N : w[i] = IF i = 0 THEN s ELSE dns_check_entry(w[i - 1], i)
  BY <1>2 DEF Walk
<1> DEFINE T == {i \in 0 .. N : ~ Fine(w[i], ns)}
<1>4. T = {}
  <2> SUFFICES ASSUME T # {} PROVE FALSE
    OBVIOUS
  <2>1. PICK m \in T : \A k \in T : m <= k
    <3>1. T \subseteq Nat
      OBVIOUS
    <3> HIDE DEF T
    <3> QED BY <3>1, LeastElement
  <2>2. m \in 0 .. N /\ ~ Fine(w[m], ns)
    OBVIOUS
  <2>3. m # 0
    BY <1>3, <2>2
  <2>4. m - 1 \in 0 .. N /\ m - 1 \notin T
    BY <2>1, <2>2, <2>3, DnsAssumption
  <2>5. Fine(w[m - 1], ns) /\ m \in Names
    BY <2>2, <2>3, <2>4, DnsAssumption DEF Names
  <2>6. Fine(dns_check_entry(w[m - 1], m), ns)
    BY <2>5, CheckEntryFine
  <2> QED BY <1>3, <2>2, <2>3, <2>6
<1> QED BY <1>1, <1>4, DnsAssumption

\* An open question is about a name that can be looked up.
LEMMA AskedName ==
    ASSUME NEW s, NEW ns, ns \subseteq HostNames, Fine(s, ns), NEW i \in Names, Open(s, i)
    PROVE  s.dns.tab[i].name \in HostNames
  BY DEF Fine, Live

\* An answer is taken only for a name that dns_compare_name takes it for.
LEMMA DnsRecvFine ==
    ASSUME NEW s, NEW ns, ns \subseteq HostNames, Fine(s, ns), NEW m \in DnsIn, m.ok => m.addr = AddrOf[m.name]
    PROVE  Fine(dns_recv(s, m), ns)
<1> DEFINE e == s.dns.tab[m.id]
<1>1. m.id \in Names /\ m.ttl \in Nat /\ m.addr \in Ips /\ m.name \in HostNames
  BY DEF DnsIn
<1>2. e \in Questions
  BY <1>1, TabTypes DEF Fine
<1>3. \/ dns_recv(s, m) = Answered(s, m) /\ e.st = "ASKING" /\ m.ok /\ dns_compare_name(e.name, m.name)
      \/ dns_recv(s, m) = Failed(s, m.id) /\ e.st = "ASKING"
      \/ dns_recv(s, m) = s
  BY Zenon DEF dns_recv
<1> HIDE DEF e
<1>4. CASE dns_recv(s, m) = Answered(s, m) /\ e.st = "ASKING" /\ m.ok /\ dns_compare_name(e.name, m.name)
  <2> DEFINE x == [Unused EXCEPT !.st = "DONE", !.name = e.name, !.seqno = e.seqno,
                                 !.ttl = m.ttl, !.addr = m.addr]
  <2>1. Answered(s, m) = do_dns_found([s EXCEPT !.dns.tab[m.id] = x], m.addr)
    BY Zenon DEF Answered, e
  <2>2. x \in Questions /\ x.st = "DONE" /\ x.name = e.name /\ x.addr = m.addr
    <3>1. e.name \in HostNames \cup {""} /\ e.seqno \in Nat
      BY <1>2 DEF Questions
    <3>4. m.ttl \in Int
      BY <1>1
    <3>2. \A st \in {"DONE"} :
              LET y == [Unused EXCEPT !.st = st, !.name = e.name, !.seqno = e.seqno,
                                      !.ttl = m.ttl, !.addr = m.addr]
              IN  y \in Questions /\ y.st = "DONE" /\ y.name = e.name /\ y.addr = m.addr
      BY <1>1, <3>1, <3>4, UnusedType DEF Questions
    <3>3. "DONE" \in {"DONE"}
      OBVIOUS
    <3> QED BY <3>2, <3>3, Zenon
  <2> HIDE DEF x
  <2>3. Open(s, m.id)
    BY <1>4 DEF Open, e
  <2>4. x.name \in HostNames /\ x.addr \in Passing(x.name) /\ m.addr \in Passing(e.name)
    <3>1. e.name \in HostNames
      BY <1>1, <2>3, AskedName DEF e
    <3>2. m.addr \in Passing(e.name)
      BY <1>1, <1>4 DEF Passing, HostNames
    <3> QED BY <2>2, <3>1, <3>2
  <2>5. m.addr \in Answers(s.dns.tab[m.id].name) /\ m.addr \in Ips
    BY <1>1, <2>4 DEF e, Answers
  <2>6. Fine(do_dns_found([s EXCEPT !.dns.tab[m.id] = x], m.addr), ns)
    BY <1>1, <2>2, <2>3, <2>4, <2>5, LiveCall
  <2> QED BY <1>4, <2>1, <2>6
<1>5. CASE dns_recv(s, m) = Failed(s, m.id) /\ e.st = "ASKING"
  <2>1. Open(s, m.id)
    BY <1>5 DEF Open, e
  <2> QED BY <1>1, <1>5, <2>1, FailedFine
<1>6. CASE dns_recv(s, m) = s
  BY <1>6
<1> QED BY <1>3, <1>4, <1>5, <1>6

\* A table entry is chosen for a new name.
LEMMA VictimInNames ==
    ASSUME NEW s, Good(s)
    PROVE  Victim(s) \in Names
<1> DEFINE unused == {i \in Names : s.dns.tab[i].st = "UNUSED"}
           Age(i) == s.dns.seqno - s.dns.tab[i].seqno
           old == {i \in Names : s.dns.tab[i].st = "DONE" /\ Age(i) > 0}
           best == {i \in old : \A j \in old : Age(j) <= Age(i)}
<1>1. Names \subseteq Nat /\ 1 \in Names
  BY DnsAssumption DEF Names
<1>2. unused # {} => Min(unused) \in Names
  BY <1>1, MinInSet
<1>3. ASSUME old # {} PROVE Min(best) \in Names
  <2> DEFINE Y == {s.dns.tab[i].seqno : i \in old}
  <2>1. s.dns.seqno \in Nat /\ \A i \in old : s.dns.tab[i].seqno \in Nat
    BY TabTypes DEF Questions
  <2>2. PICK y \in Y : \A z \in Y : y <= z
    <3>1. Y \subseteq Nat /\ Y # {}
      BY <1>3, <2>1
    <3> HIDE DEF Y
    <3> QED BY <3>1, LeastElement
  <2>3. PICK k \in old : y = s.dns.tab[k].seqno
    OBVIOUS
  <2>4. \A j \in old : s.dns.tab[k].seqno <= s.dns.tab[j].seqno
    BY <2>2, <2>3
  <2> HIDE DEF old, Y
  <2>5. \A j \in old : Age(j) <= Age(k)
    BY <2>1, <2>3, <2>4
  <2>6. best # {} /\ best \subseteq Nat /\ best \subseteq Names
    BY <1>1, <2>3, <2>5 DEF old
  <2> QED BY <2>6, MinInSet
<1>4. Victim(s) = IF unused # {} THEN Min(unused) ELSE IF old # {} THEN Min(best) ELSE 1
  BY Zenon DEF Victim
<1> HIDE DEF unused, old, best
<1> QED BY <1>1, <1>2, <1>3, <1>4

\* A call asks for a name while none waits: it is told what is known, or an
\* entry starts to ask.
LEMMA GetHostByNameFine ==
    ASSUME HostTypes, NEW s, Fine(s, {}), NEW name \in HostNames
    PROVE  Fine(dns_gethostbyname(s, name), {name})
<1>1. /\ Good(s) /\ Live(s, {}) /\ s \in Stacks /\ s.dns \in Resolvers
      /\ s.dns.tab \in [Names -> Questions] /\ s.dns.seqno \in Nat
  BY TabTypes DEF Fine
<1>2. s.found = <<>> /\ \A j \in Names : ~ Open(s, j)
  BY <1>1 DEF Live
<1>3. ASSUME NEW addr \in Answers(name), addr \in Ips
      PROVE  Fine(do_dns_found(s, addr), {name})
  <2> DEFINE t == do_dns_found(s, addr)
  <2>1. Good(t) /\ t.dns = s.dns /\ t.found = <<addr>>
    BY <1>1, <1>3, DnsFoundGood
  <2> HIDE DEF t
  <2>2. t.found[1] = addr /\ \A j \in Names : ~ Open(t, j)
    BY <1>2, <2>1 DEF Open
  <2>3. Live(t, {name})
    BY <1>1, <2>1, <2>2 DEF Live
  <2> QED BY <2>1, <2>3 DEF Fine, t
<1>4. CASE Known(s, name) # {}
  <2> DEFINE k == Min(Known(s, name))
  <2>1. k \in Known(s, name)
    <3>1. Known(s, name) \subseteq Nat
      BY DEF Known, Names
    <3> QED BY <1>4, <3>1, MinInSet
  <2>2. k \in Names /\ s.dns.tab[k].st = "DONE" /\ s.dns.tab[k].name = name
    BY <2>1 DEF Known
  <2>3. dns_gethostbyname(s, name) = do_dns_found(s, s.dns.tab[k].addr)
    BY <1>4 DEF dns_gethostbyname, dns_lookup
  <2> HIDE DEF k
  <2>4. s.dns.tab[k].addr \in Passing(name) /\ s.dns.tab[k].addr \in Ips
    BY <1>1, <2>2 DEF Live, Questions
  <2> QED BY <1>3, <2>3, <2>4 DEF Answers
<1>5. CASE Known(s, name) = {}
  <2> DEFINE i == Victim(s)
             e == [Unused EXCEPT !.st = "NEW", !.name = name, !.seqno = s.dns.seqno]
             q == (s.dns.seqno + 1) % SeqnoSpace
             tab == [s.dns.tab EXCEPT ![i] = e]
             d == [s.dns EXCEPT !.tab = tab, !.seqno = q]
             t == [s EXCEPT !.dns = d]
  <2>1. dns_gethostbyname(s, name) =
            IF s.dns.tab[i].st \notin {"UNUSED", "DONE"} THEN do_dns_found(s, IpAny)
            ELSE dns_check_entry([s EXCEPT !.dns.tab[i] = e, !.dns.seqno = q], i)
    BY <1>5, Zenon DEF dns_gethostbyname, dns_enqueue
  <2>2. [s EXCEPT !.dns.tab[i] = e, !.dns.seqno = q] = t
    BY <1>1 DEF Stacks, Resolvers
  <2>3. i \in Names
    BY <1>1, VictimInNames
  <2>4. e \in Questions /\ e.st = "NEW" /\ e.name = name
    <3>1. \A st \in {"NEW"}, n \in Nat :
              LET y == [Unused EXCEPT !.st = st, !.name = name, !.seqno = n]
              IN  y \in Questions /\ y.st = "NEW" /\ y.name = name
      BY UnusedType DEF Questions
    <3>2. "NEW" \in {"NEW"}
      OBVIOUS
    <3> QED BY <1>1, <3>1, <3>2, Zenon
  <2>5. q \in Nat
    BY <1>1, DnsAssumption
  <2> HIDE DEF i, e, q
  <2>6. tab \in [Names -> Questions]
    BY <1>1, <2>3, <2>4
  <2> HIDE DEF tab
  <2>7. d \in Resolvers /\ d.tab = tab
    BY <1>1, <2>5, <2>6 DEF Resolvers
  <2> HIDE DEF d
  <2>8. t \in Stacks /\ t.dns = d /\ t.arp = s.arp /\ t.out = s.out /\ t.found = s.found
    BY <1>1, <2>7 DEF Stacks
  <2> HIDE DEF t
  <2>9. Good(t)
    BY <1>1, <2>8 DEF Good, OneEntry
  <2>10. \A j \in Names : t.dns.tab[j] = IF j = i THEN e ELSE s.dns.tab[j]
    BY <1>1, <2>3, <2>7, <2>8 DEF tab
  <2>11. \A j \in Names : Open(t, j) => j = i
    BY <1>2, <2>10 DEF Open
  <2>12. Live(t, {name})
    BY <1>1, <1>2, <2>4, <2>8, <2>10, <2>11 DEF Live
  <2>13. Fine(dns_check_entry(t, i), {name})
    BY <2>3, <2>9, <2>12, CheckEntryFine DEF Fine
  <2>14. Fine(do_dns_found(s, IpAny), {name})
    BY <1>3 DEF Ips, Answers
  <2> QED BY <2>1, <2>2, <2>13, <2>14
<1> QED BY <1>4, <1>5
-----------------------------------------------------------------------------
(***************************************************************************)
(* Steps.                                                                  *)
(***************************************************************************)

LEMMA ArpInputKept ==
    ASSUME HostTypes, NEW s, Good(s), NEW f \in ArpFrames, HeardOK(f)
    PROVE  Kept(s, etharp_arp_input(s, f))
<1> DEFINE forUs == s.ip # IpAny /\ f.dip = s.ip
           t == update_arp_entry(s, f.sip, f.smac, forUs)
           g == [eth |-> "arp", to |-> f.smac, op |-> "reply",
                 sip |-> s.ip, smac |-> MyMac, dip |-> f.sip]
           r == etharp_arp_input(s, f)
<1>1. f.eth = "arp" /\ f.sip \in Ips /\ f.smac \in Macs /\ s.ip \in Ips
  BY ClientIps DEF ArpFrames
<1>2. forUs \in BOOLEAN
  OBVIOUS
<1>3. r = linkoutput(t, g) \/ r = dhcp_arp_reply(t, f.sip) \/ r = t
  BY Zenon DEF etharp_arp_input
<1> HIDE DEF forUs, r
<1>4. Kept(s, t)
  <2>1. CASE f.sip = IpAny
    <3>1. t = s
      BY <2>1 DEF update_arp_entry, IsBroadcast
    <3> QED BY <3>1 DEF Kept
  <2>2. CASE f.sip # IpAny
    <3>1. f.sip \in Hosts /\ f.smac \in MacsOf(f.sip)
      BY <1>1, <2>2 DEF HeardOK
    <3> QED BY <1>2, <3>1, UpdateKept
  <2> QED BY <2>1, <2>2
<1> HIDE DEF t
<1>5. g \in ArpFrames
  BY <1>1 DEF ArpFrames, Macs
<1> HIDE DEF g
<1>6. g \in OutFrames /\ SentOK(g)
  BY <1>5, ArpFrameOK
<1>7. Kept(t, linkoutput(t, g)) /\ Kept(t, dhcp_arp_reply(t, f.sip))
  BY <1>4, <1>6, Output, ArpReplyKept DEF Kept
<1>8. Kept(s, r)
  BY <1>3, <1>4, <1>7, KeptTrans
<1> QED BY <1>8 DEF r

LEMMA IpInputFine ==
    ASSUME HostTypes, NEW s, NEW ns, ns \subseteq HostNames, Fine(s, ns), NEW p \in DhcpReplies \cup DnsAnswers,
           p.kind = "dns" /\ p.m.ok => p.m.addr = AddrOf[p.m.name]
    PROVE  Fine(ip_input(s, p), ns)
<1>1. /\ p.kind \in {"dhcp", "dns"} /\ p.sip \in Ips
      /\ p.kind = "dhcp" => p.m \in DhcpIn
      /\ p.kind = "dns" => p.m \in DnsIn
  <2>1. CASE p \in DhcpReplies
    <3>1. p.kind = "dhcp" /\ p.m \in DhcpIn /\ p.sip \in Ips
      BY <2>1 DEF DhcpReplies
    <3> QED BY <3>1
  <2>2. CASE p \in DnsAnswers
    <3>1. p.kind = "dns" /\ p.m \in DnsIn /\ p.sip \in Ips
      BY <2>2 DEF DnsAnswers
    <3> QED BY <3>1
  <2> QED BY <2>1, <2>2
<1>2. ip_input(s, p) \in {udp_input(s, p), s}
  BY Zenon DEF ip_input
<1> DEFINE m == [type |-> "unreach"]
           u == udp_sendto(s, p.sip, "icmp", m)
<1>3. \/ udp_input(s, p) = dhcp_recv(s, p.m) /\ p.kind = "dhcp"
      \/ udp_input(s, p) = dns_recv(s, p.m) /\ p.kind = "dns"
      \/ udp_input(s, p) = u
  BY Zenon DEF udp_input
<1>4. Good(s)
  BY DEF Fine
<1>5. Fine(u, ns)
  <2>1. s.ip \in Ips
    BY <1>4, ClientIps
  <2>2. m \in IcmpOut
    BY DEF IcmpOut
  <2> HIDE DEF m
  <2>3. Datagram(s, p.sip, "icmp", m) \in Packets
    BY <1>1, <2>1, <2>2 DEF Datagram, Packets, IcmpPackets
  <2>4. Kept(s, u)
    BY <1>4, <2>3, SendtoKept
  <2> QED BY <2>4, FineKept
<1> HIDE DEF u
<1>6. p.m \in DhcpIn => Fine(dhcp_recv(s, p.m), ns)
  BY <1>4, DhcpRecvKept, FineKept
<1>7. p.kind = "dns" /\ p.m \in DnsIn => Fine(dns_recv(s, p.m), ns)
  BY DnsRecvFine
<1>8. p.kind = "dhcp" => p.m \in DhcpIn
  BY <1>1
<1>9. p.kind = "dns" => p.m \in DnsIn
  BY <1>1
<1> QED BY <1>2, <1>3, <1>5, <1>6, <1>7, <1>8, <1>9

LEMMA InputFine ==
    ASSUME HostTypes, NEW s, NEW ns, ns \subseteq HostNames, Fine(s, ns), NEW f \in InFrames, HeardOK(f), AnswerOK(f)
    PROVE  Fine(ethernet_input(s, f), ns)
<1>1. CASE f \in ArpFrames
  <2>1. ethernet_input(s, f) = etharp_arp_input(s, f)
    BY <1>1 DEF ethernet_input, ArpFrames
  <2>2. Kept(s, etharp_arp_input(s, f))
    BY <1>1, ArpInputKept DEF Fine
  <2> QED BY <2>1, <2>2, FineKept
<1>2. CASE f \in InIpFrames
  <2>1. f.eth = "ip" /\ f.p \in DhcpReplies \cup DnsAnswers
    BY <1>2 DEF InIpFrames
  <2>2. ethernet_input(s, f) = ip_input(s, f.p)
    BY <2>1 DEF ethernet_input
  <2> QED BY <2>1, <2>2, IpInputFine DEF AnswerOK
<1> QED BY <1>1, <1>2 DEF InFrames

\* A host that is on the network stays there, and its address stays its own.
HostsKept == /\ rival' = rival \/ rival.ip = IpAny
             /\ srv'.mac \in {srv.mac, RouterMac2}

LEMMA HostsStay ==
    ASSUME HostTypes, HostsKept
    PROVE  \A ip \in Hosts : ip \in Hosts' /\ MacsOf(ip) \subseteq MacsOf(ip)'
<1>1. srv.mac \in {RouterMac, RouterMac2}
  BY DEF HostTypes
<1>2. {RouterMac, srv.mac} \subseteq {RouterMac, srv'.mac}
  BY <1>1 DEF HostsKept
<1>3. \A ip \in Hosts : ip \in Hosts' /\ (ip # RouterIp => rival'.ip = rival.ip)
  BY DEF HostsKept, Hosts
<1> QED BY <1>2, <1>3 DEF MacsOf, MacOf, Hosts

LEMMA FramesStay ==
    ASSUME HostTypes, HostsKept
    PROVE  /\ \A f : SentOK(f) => SentOK(f)'
           /\ \A f : HeardOK(f) => HeardOK(f)'
           /\ \A e : EntryOK(e) => EntryOK(e)'
<1>1. \A ip \in Hosts : ip \in Hosts' /\ MacsOf(ip) \subseteq MacsOf(ip)'
  BY HostsStay
<1>2. \A f : SentOK(f) => SentOK(f)'
  BY <1>1 DEF SentOK, HopOf
<1>3. \A f : HeardOK(f) => HeardOK(f)'
  BY <1>1 DEF HeardOK
<1>4. \A e : EntryOK(e) => EntryOK(e)'
  BY <1>1 DEF EntryOK, MayWait
<1> QED BY <1>2, <1>3, <1>4

\* The stack after a step.
LEMMA GoodStays ==
    ASSUME HostTypes, HostsKept, Good(stk')
    PROVE  Good(stk)'
<1>1. /\ stk' \in Stacks /\ \A i \in Slots : EntryOK(stk'.arp[i])
      /\ OneEntry(stk') /\ \A n \in DOMAIN stk'.out : SentOK(stk'.out[n])
  BY DEF Good
<1>2. /\ \A i \in Slots : EntryOK(stk.arp[i])'
      /\ \A n \in DOMAIN stk'.out : SentOK(stk.out[n])'
  BY <1>1, FramesStay
<1>3. OneEntry(stk)'
  BY <1>1 DEF OneEntry
<1> QED BY <1>1, <1>2, <1>3 DEF Good

LEMMA WireStays ==
    ASSUME HostTypes, HostsKept,
           toNet' \in Seq(OutFrames), toSta' \in Seq(InFrames),
           \A n \in DOMAIN toNet' : SentOK(toNet'[n]),
           \A n \in DOMAIN toSta' : HeardOK(toSta'[n]) /\ AnswerOK(toSta'[n])
    PROVE  WireOK'
<1>1. \A n \in DOMAIN toNet' : SentOK(toNet[n])'
  BY FramesStay
<1>2. \A n \in DOMAIN toSta' : HeardOK(toSta[n])'
  BY FramesStay
<1>3. \A n \in DOMAIN toSta' : AnswerOK(toSta[n])'
  BY DEF AnswerOK
<1> QED BY <1>1, <1>2, <1>3 DEF WireOK

\* What is on the wire after another frame.
LEMMA ConcatFrames ==
    ASSUME NEW S, NEW a \in Seq(S), NEW b \in Seq(S), NEW n \in DOMAIN (a \o b)
    PROVE  \/ n \in DOMAIN a /\ (a \o b)[n] = a[n]
           \/ n - Len(a) \in DOMAIN b /\ (a \o b)[n] = b[n - Len(a)]
  OBVIOUS

\* The stack has stepped to s and sends what it has to send.
LEMMA StepInv ==
    ASSUME HostTypes, WireOK, HostsKept, NEW s, NEW ns, Fine(s, ns),
           NEW in \in Seq(InFrames), \A n \in DOMAIN in : HeardOK(in[n]) /\ AnswerOK(in[n]),
           Step(s, in)
    PROVE  WireOK' /\ Good(stk)' /\ stk'.out = <<>> /\ Live(stk', ns)
<1> DEFINE net == IF s.newxid THEN OutdatedAll(toNet) ELSE toNet
           sta == IF s.newxid THEN OutdatedAll(in) ELSE in
           out == IF s.link THEN s.out ELSE <<>>
<1>1. /\ stk' = [s EXCEPT !.out = <<>>, !.newxid = FALSE]
      /\ toNet' = net \o out /\ toSta' = sta
  BY DEF Step
<1>2. s \in Stacks /\ Good(s) /\ s.out \in Seq(OutFrames)
  BY DEF Fine, Good, Stacks
<1>3. out \in Seq(OutFrames) /\ \A n \in DOMAIN out : SentOK(out[n])
  BY <1>2 DEF Good
<1>4. net \in Seq(OutFrames) /\ \A n \in DOMAIN net : SentOK(net[n])
  BY OutdatedAllOut DEF WireOK
<1>5. sta \in Seq(InFrames) /\ \A n \in DOMAIN sta : HeardOK(sta[n]) /\ AnswerOK(sta[n])
  BY OutdatedAllIn
<1> HIDE DEF net, sta, out
<1>6. net \o out \in Seq(OutFrames) /\ \A n \in DOMAIN (net \o out) : SentOK((net \o out)[n])
  BY <1>3, <1>4, ConcatFrames
<1>7. WireOK'
  BY <1>1, <1>5, <1>6, WireStays
<1>8. /\ stk' \in Stacks /\ stk'.out = <<>> /\ stk'.arp = s.arp /\ stk'.dns = s.dns
      /\ stk'.found = s.found
  <2>1. \A o \in Seq(OutFrames), b \in BOOLEAN :
            LET t == [s EXCEPT !.out = o, !.newxid = b]
            IN  t \in Stacks /\ t.out = o /\ t.arp = s.arp /\ t.dns = s.dns /\ t.found = s.found
    BY <1>2 DEF Stacks
  <2>2. <<>> \in Seq(OutFrames) /\ FALSE \in BOOLEAN
    OBVIOUS
  <2> QED BY <1>1, <2>1, <2>2, Zenon
<1>9. Good(stk')
  BY <1>2, <1>8 DEF Good, OneEntry
<1>10. Good(stk)'
  BY <1>9, GoodStays
<1>11. Live(stk', ns)
  BY <1>8 DEF Fine, Live, Open
<1> QED BY <1>7, <1>8, <1>10, <1>11
-----------------------------------------------------------------------------
(***************************************************************************)
(* The invariant is kept by every step.                                    *)
(***************************************************************************)

LEMMA OpTypes ==
    /\ DOMAIN OpOf = {"discover", "netif_up", "down", "sem"}
    /\ OpOf["discover"] = "connect" /\ OpOf["netif_up"] = "connect"
    /\ OpOf["down"] = "disconnect" /\ OpOf["sem"] = "lookup"
  BY DEF OpOf

LEMMA AwaitedNames ==
    ASSUME CallShape
    PROVE  Awaited \subseteq HostNames
<1>1. CASE app.pc = "sem"
  <2>1. Head(app.todo) \in CallsOf /\ Head(app.todo).op = "lookup"
    BY <1>1, OpTypes DEF CallShape
  <2>2. Head(app.todo).name \in HostNames
    BY <2>1 DEF CallsOf, HostNames
  <2> QED BY <1>1, <2>2 DEF Awaited
<1> QED BY <1>1 DEF Awaited

LEMMA SameCall ==
    ASSUME CallShape, LookupsOwn, app' = app
    PROVE  CallShape' /\ LookupsOwn' /\ Awaited' = Awaited
  BY DEF CallShape, LookupsOwn, Awaited

\* The call at the head of todo goes on.
LEMMA CallGoesOn ==
    ASSUME CallShape, LookupsOwn, NEW x \in DOMAIN OpOf, app.todo # <<>>,
           Head(app.todo).op = OpOf[x], app' = [app EXCEPT !.pc = x]
    PROVE  /\ CallShape' /\ LookupsOwn'
           /\ Awaited' = IF x = "sem" THEN {Head(app.todo).name} ELSE {}
<1>1. app' = [todo |-> app.todo, pc |-> x, ret |-> app.ret]
  BY DEF CallShape
<1>2. app'.todo = app.todo /\ app'.pc = x /\ app'.ret = app.ret
  BY <1>1
<1>3. CallShape'
  BY <1>1, <1>2 DEF CallShape
<1>4. LookupsOwn'
  BY <1>2 DEF LookupsOwn
<1> QED BY <1>2, <1>3, <1>4 DEF Awaited

LEMMA CallEnds ==
    ASSUME CallShape, app.pc # "ready", NEW x, app' = Returned(x),
           app.pc = "sem" => x \in Answers(Head(app.todo).name)
    PROVE  CallShape' /\ LookupsOwn' /\ Awaited' = {}
<1>1. /\ app' = [todo |-> Tail(app.todo), pc |-> "ready", ret |-> <<Head(app.todo), x>>]
      /\ app'.todo = Tail(app.todo) /\ app'.pc = "ready" /\ app'.ret = <<Head(app.todo), x>>
  BY DEF Returned
<1>2. /\ app.todo \in Seq(CallsOf) /\ app.todo # <<>> /\ app.pc \in DOMAIN OpOf
      /\ Head(app.todo).op = OpOf[app.pc]
  BY DEF CallShape
<1>3. Tail(app.todo) \in Seq(CallsOf)
  BY <1>2
<1>4. CallShape'
  BY <1>1, <1>3 DEF CallShape
<1>5. Head(app.todo).op = "lookup" => app.pc = "sem"
  BY <1>2, OpTypes
<1>6. app'.ret[1] = Head(app.todo) /\ app'.ret[2] = x
  BY <1>1
<1>7. LookupsOwn'
  BY <1>5, <1>6 DEF LookupsOwn, Answers
<1> QED BY <1>1, <1>4, <1>7 DEF Awaited

\* The stack steps; the other hosts are as they were.
LEMMA StackSteps ==
    ASSUME IndInv, HostTypes', HostsKept, CallShape', LookupsOwn', NEW s, NEW ns, Fine(s, ns),
           NEW in \in Seq(InFrames), \A n \in DOMAIN in : HeardOK(in[n]) /\ AnswerOK(in[n]),
           Step(s, in), Awaited' = ns
    PROVE  IndInv'
<1>1. WireOK' /\ Good(stk)' /\ stk'.out = <<>> /\ Live(stk', ns)
  BY StepInv DEF IndInv
<1>2. Live(stk, Awaited)'
  <2>1. Live(stk', Awaited')
    BY <1>1
  <2> QED BY <2>1 DEF Live, Open
<1> QED BY <1>1, <1>2 DEF IndInv

\* The same, when nothing is taken from what is on the way.
LEMMA StackStepsAlone ==
    ASSUME IndInv, HostTypes', HostsKept, CallShape', LookupsOwn', NEW s, NEW ns, Fine(s, ns),
           Step(s, toSta), Awaited' = ns
    PROVE  IndInv'
<1>1. toSta \in Seq(InFrames) /\ \A n \in DOMAIN toSta : HeardOK(toSta[n]) /\ AnswerOK(toSta[n])
  BY DEF IndInv, WireOK
<1> QED BY <1>1, StackSteps

LEMMA HostsUnchanged ==
    ASSUME HostTypes, UNCHANGED Host, irq' \in BOOLEAN
    PROVE  HostTypes' /\ HostsKept
  BY DEF HostTypes, Host, HostsKept

LEMMA Parts ==
    ASSUME IndInv
    PROVE  /\ HostTypes /\ CallShape /\ WireOK /\ Good(stk) /\ Live(stk, Awaited) /\ LookupsOwn
           /\ Fine(stk, Awaited) /\ irq \in BOOLEAN /\ stk.out = <<>>
  BY DEF IndInv, Fine, HostTypes

LEMMA DeliverKeeps ==
    ASSUME IndInv, Deliver
    PROVE  IndInv'
<1>1. irq' = irq /\ app' = app /\ UNCHANGED Host
  BY DEF Deliver
<1>2. HostTypes' /\ HostsKept
  BY <1>1, Parts, HostsUnchanged
<1>3. CallShape' /\ LookupsOwn' /\ Awaited' = Awaited
  BY <1>1, Parts, SameCall
<1>4. toSta # <<>> /\ toSta \in Seq(InFrames)
  BY DEF Deliver, IndInv, WireOK
<1>5. \A n \in DOMAIN toSta : HeardOK(toSta[n]) /\ AnswerOK(toSta[n])
  BY DEF IndInv, WireOK
<1>6. Head(toSta) = toSta[1] /\ 1 \in DOMAIN toSta
  BY <1>4
<1>7. Head(toSta) \in InFrames /\ HeardOK(Head(toSta)) /\ AnswerOK(Head(toSta))
  BY <1>4, <1>5, <1>6
<1>8. /\ Tail(toSta) \in Seq(InFrames)
      /\ \A n \in DOMAIN Tail(toSta) : n + 1 \in DOMAIN toSta /\ Tail(toSta)[n] = toSta[n + 1]
  BY <1>4
<1>9. \A n \in DOMAIN Tail(toSta) : HeardOK(Tail(toSta)[n]) /\ AnswerOK(Tail(toSta)[n])
  BY <1>5, <1>8
<1>10. Fine(ethernet_input(stk, Head(toSta)), Awaited)
  BY <1>7, Parts, AwaitedNames, InputFine
<1>11. Step(ethernet_input(stk, Head(toSta)), Tail(toSta))
  BY DEF Deliver
<1> QED BY <1>2, <1>3, <1>8, <1>9, <1>10, <1>11, StackSteps

LEMMA TimersKeep ==
    ASSUME IndInv, FineTimer \/ DnsTimer \/ ArpTimer
    PROVE  IndInv'
<1>1. irq' = irq /\ app' = app /\ UNCHANGED Host
  BY DEF FineTimer, DnsTimer, ArpTimer
<1>2. HostTypes' /\ HostsKept
  BY <1>1, Parts, HostsUnchanged
<1>3. CallShape' /\ LookupsOwn' /\ Awaited' = Awaited
  BY <1>1, Parts, SameCall
<1>4. CASE FineTimer
  <2>1. Fine(dhcp_fine_tmr(stk), Awaited)
    BY Parts, FineTmrKept, FineKept
  <2> QED BY <1>2, <1>3, <1>4, <2>1, StackStepsAlone DEF FineTimer
<1>5. CASE DnsTimer
  <2>1. Fine(dns_check_entries(stk), Awaited)
    BY Parts, AwaitedNames, CheckEntriesFine
  <2> QED BY <1>2, <1>3, <1>5, <2>1, StackStepsAlone DEF DnsTimer
<1>6. CASE ArpTimer
  <2>1. Fine(etharp_tmr(stk), Awaited)
    BY Parts, TmrKept, FineKept
  <2> QED BY <1>2, <1>3, <1>6, <2>1, StackStepsAlone DEF ArpTimer
<1> QED BY <1>4, <1>5, <1>6

LEMMA CoarseTimerKeeps ==
    ASSUME IndInv, CoarseTimer
    PROVE  IndInv'
<1>1. irq' = irq /\ app' = app /\ rival' = rival /\ sc' = sc
  BY DEF CoarseTimer
<1>2. srv' = [srv EXCEPT !.left = IF @ \in {0, Infinite} THEN @ ELSE @ - 1]
  BY DEF CoarseTimer
<1>3. srv.left \in Int /\ srv.left - 1 \in Int
  BY Parts DEF HostTypes
<1>4. \A n \in Int : LET v == [srv EXCEPT !.left = n]
                     IN  /\ v.mac = srv.mac
                         /\ v \in [mac : {RouterMac, RouterMac2}, pool : Seq(Lan \ {RouterIp}),
                                   lease : Ips, left : Int, bad : SUBSET Ips]
  BY Parts DEF HostTypes
<1>5. HostTypes' /\ HostsKept
  BY <1>1, <1>2, <1>3, <1>4, Parts DEF HostTypes, HostsKept
<1>6. CallShape' /\ LookupsOwn' /\ Awaited' = Awaited
  BY <1>1, Parts, SameCall
<1>7. Fine(dhcp_coarse_tmr(stk), Awaited)
  BY Parts, CoarseTmrKept, FineKept
<1>8. Step(dhcp_coarse_tmr(stk), toSta)
  BY DEF CoarseTimer
<1> QED BY <1>1, <1>5, <1>6, <1>7, <1>8, StackStepsAlone

LEMMA ReadyAwaits ==
    ASSUME app.pc # "sem"
    PROVE  Awaited = {}
  BY DEF Awaited

\* The calls that hand something to the stack.
LEMMA CallsKeep ==
    ASSUME IndInv, ConnectStarts \/ ConnectDiscovers \/ DisconnectReleases \/ Lookup
    PROVE  IndInv'
<1>1. irq' \in BOOLEAN /\ UNCHANGED Host
  BY Parts DEF ConnectStarts, ConnectDiscovers, DisconnectReleases, Lookup
<1>2. HostTypes' /\ HostsKept
  BY <1>1, Parts, HostsUnchanged
<1>3. app.pc # "sem" /\ Awaited = {}
  BY ReadyAwaits DEF ConnectStarts, ConnectDiscovers, DisconnectReleases, Lookup
<1>4. CASE ConnectStarts
  <2>1. /\ app.todo # <<>> /\ Head(app.todo).op = "connect"
        /\ app' = [app EXCEPT !.pc = "discover"] /\ Step(dhcp_start(stk), toSta)
    BY <1>4 DEF ConnectStarts, Calls
  <2>2. CallShape' /\ LookupsOwn' /\ Awaited' = {}
    BY <2>1, OpTypes, Parts, CallGoesOn
  <2>3. Fine(dhcp_start(stk), {})
    BY <1>3, Parts, StartKept, FineKept
  <2> QED BY <1>2, <2>1, <2>2, <2>3, StackStepsAlone
<1>5. CASE ConnectDiscovers
  <2>1. /\ app' = [app EXCEPT !.pc = "netif_up"] /\ app.pc = "discover"
        /\ Step(dhcp_discover(stk), toSta)
    BY <1>5 DEF ConnectDiscovers
  <2>2. app.todo # <<>> /\ Head(app.todo).op = "connect"
    BY <2>1, OpTypes, Parts DEF CallShape
  <2>3. CallShape' /\ LookupsOwn' /\ Awaited' = {}
    BY <2>1, <2>2, OpTypes, Parts, CallGoesOn
  <2>4. Fine(dhcp_discover(stk), {})
    BY <1>3, Parts, DiscoverKept, FineKept
  <2> QED BY <1>2, <2>1, <2>3, <2>4, StackStepsAlone
<1>6. CASE DisconnectReleases
  <2>1. /\ app.todo # <<>> /\ Head(app.todo).op = "disconnect"
        /\ app' = [app EXCEPT !.pc = "down"] /\ Step(ReleaseMessage(stk), toSta)
    BY <1>6 DEF DisconnectReleases, Calls
  <2>2. CallShape' /\ LookupsOwn' /\ Awaited' = {}
    BY <2>1, OpTypes, Parts, CallGoesOn
  <2>3. Fine(ReleaseMessage(stk), {})
    BY <1>3, Parts, ReleaseKept, FineKept
  <2> QED BY <1>2, <2>1, <2>2, <2>3, StackStepsAlone
<1>7. CASE Lookup
  <2> DEFINE name == Head(app.todo).name
  <2>1. /\ app.todo # <<>> /\ Head(app.todo).op = "lookup"
        /\ app' = [app EXCEPT !.pc = "sem"] /\ Step(dns_gethostbyname(stk, name), toSta)
    BY <1>7 DEF Lookup, Calls
  <2>2. CallShape' /\ LookupsOwn' /\ Awaited' = {name}
    BY <2>1, OpTypes, Parts, CallGoesOn
  <2>3. Head(app.todo) \in CallsOf
    BY <2>1, Parts DEF CallShape
  <2>4. name \in HostNames
    BY <2>1, <2>3 DEF CallsOf, HostNames
  <2> HIDE DEF name
  <2>5. Fine(dns_gethostbyname(stk, name), {name})
    BY <1>3, <2>4, Parts, GetHostByNameFine
  <2> QED BY <1>2, <2>1, <2>2, <2>5, StackStepsAlone
<1> QED BY <1>4, <1>5, <1>6, <1>7

LEMMA DisconnectReturnsKeeps ==
    ASSUME IndInv, DisconnectReturns
    PROVE  IndInv'
<1>1. /\ irq' \in BOOLEAN /\ UNCHANGED Host /\ app.pc = "down" /\ app' = Returned(0)
      /\ Step(dhcp_stop(Unconfigured(stk)), toSta)
  BY DEF DisconnectReturns
<1>2. HostTypes' /\ HostsKept
  BY <1>1, Parts, HostsUnchanged
<1>3. Awaited = {}
  BY <1>1, ReadyAwaits
<1>4. CallShape' /\ LookupsOwn' /\ Awaited' = {}
  BY <1>1, Parts, CallEnds
<1>5. Kept(stk, Unconfigured(stk))
  BY Parts, UnconfiguredKept
<1>6. Kept(Unconfigured(stk), dhcp_stop(Unconfigured(stk)))
  BY <1>5, Parts, ReleaseKept DEF Kept
<1>7. Fine(dhcp_stop(Unconfigured(stk)), {})
  BY <1>3, <1>5, <1>6, Parts, KeptTrans, FineKept
<1> QED BY <1>1, <1>2, <1>4, <1>7, StackStepsAlone

\* The wire stays as it is.
LEMMA WireUnchanged ==
    ASSUME HostTypes, WireOK, HostsKept, UNCHANGED <<toNet, toSta>>
    PROVE  WireOK'
<1>1. /\ toNet' \in Seq(OutFrames) /\ toSta' \in Seq(InFrames)
      /\ \A n \in DOMAIN toNet' : SentOK(toNet'[n])
      /\ \A n \in DOMAIN toSta' : HeardOK(toSta'[n]) /\ AnswerOK(toSta'[n])
  BY DEF WireOK
<1> QED BY <1>1, WireStays

\* A record of the stack with another value of a field that no frame is made of.
LEMMA SetField ==
    ASSUME NEW s, Good(s)
    PROVE  /\ \A n \in Int : LET t == [s EXCEPT !.tokens = n]
                             IN  Good(t) /\ t.out = s.out /\ t.dns = s.dns /\ t.found = s.found
           /\ \A a \in Seq(Ips) : LET t == [s EXCEPT !.found = a]
                                  IN  Good(t) /\ t.out = s.out /\ t.dns = s.dns /\ t.found = a
<1>1. s \in Stacks
  BY DEF Good
<1>2. ASSUME NEW n \in Int
      PROVE  LET t == [s EXCEPT !.tokens = n]
             IN  Good(t) /\ t.out = s.out /\ t.dns = s.dns /\ t.found = s.found
  <2> DEFINE t == [s EXCEPT !.tokens = n]
  <2>1. t \in Stacks /\ t.arp = s.arp /\ t.out = s.out /\ t.dns = s.dns /\ t.found = s.found
    BY <1>1 DEF Stacks
  <2> HIDE DEF t
  <2>2. Good(t) /\ t.out = s.out /\ t.dns = s.dns /\ t.found = s.found
    BY <2>1 DEF Good, OneEntry
  <2> QED BY <2>2 DEF t
<1>3. ASSUME NEW a \in Seq(Ips)
      PROVE  LET t == [s EXCEPT !.found = a]
             IN  Good(t) /\ t.out = s.out /\ t.dns = s.dns /\ t.found = a
  <2> DEFINE t == [s EXCEPT !.found = a]
  <2>1. t \in Stacks /\ t.arp = s.arp /\ t.out = s.out /\ t.dns = s.dns /\ t.found = a
    BY <1>1 DEF Stacks
  <2> HIDE DEF t
  <2>2. Good(t) /\ t.out = s.out /\ t.dns = s.dns /\ t.found = a
    BY <2>1 DEF Good, OneEntry
  <2> QED BY <2>2 DEF t
<1> QED BY <1>2, <1>3

\* What is left to show when the stack itself does not send.
LEMMA StackStays ==
    ASSUME IndInv, HostTypes', HostsKept, CallShape', LookupsOwn', WireOK',
           Good(stk'), stk'.out = <<>>, Live(stk', Awaited')
    PROVE  IndInv'
<1>1. Good(stk)'
  BY Parts, GoodStays
<1>2. Live(stk, Awaited)'
  BY DEF Live, Open
<1> QED BY <1>1, <1>2 DEF IndInv

LEMMA ReturnsKeep ==
    ASSUME IndInv, ConnectReturns \/ ConnectTimesOut \/ LookupReturns
    PROVE  IndInv'
<1>1. irq' = irq /\ UNCHANGED <<toNet, toSta, Host>>
  BY DEF ConnectReturns, ConnectTimesOut, LookupReturns
<1>2. HostTypes' /\ HostsKept
  BY <1>1, Parts, HostsUnchanged
<1>3. WireOK'
  BY <1>1, <1>2, Parts, WireUnchanged
<1>4. CASE ConnectReturns
  <2>1. app.pc = "netif_up" /\ app' = Returned(0) /\ stk' = [stk EXCEPT !.tokens = stk.tokens - 1]
    BY <1>4 DEF ConnectReturns
  <2>2. CallShape' /\ LookupsOwn' /\ Awaited' = {} /\ Awaited = {}
    BY <2>1, Parts, CallEnds, ReadyAwaits
  <2>3. stk.tokens \in Int
    BY Parts DEF Good, Stacks
  <2>4. stk.tokens - 1 \in Int
    BY <2>3
  <2>5. Good(stk') /\ stk'.out = stk.out /\ stk'.dns = stk.dns /\ stk'.found = stk.found
    BY <2>1, <2>4, Parts, SetField, Zenon
  <2>6. Live(stk', Awaited')
    BY <2>2, <2>5, Parts DEF Live, Open
  <2> QED BY <1>2, <1>3, <2>2, <2>5, <2>6, Parts, StackStays
<1>5. CASE ConnectTimesOut
  <2>1. app.pc = "netif_up" /\ app' = Returned(-1) /\ stk' = stk
    BY <1>5 DEF ConnectTimesOut
  <2>2. CallShape' /\ LookupsOwn' /\ Awaited' = {} /\ Awaited = {}
    BY <2>1, Parts, CallEnds, ReadyAwaits
  <2>3. Live(stk', Awaited')
    BY <2>1, <2>2, Parts
  <2> QED BY <1>2, <1>3, <2>1, <2>2, <2>3, Parts, StackStays
<1>6. CASE LookupReturns
  <2>1. /\ app.pc = "sem" /\ stk.found # <<>> /\ app' = Returned(Head(stk.found))
        /\ stk' = [stk EXCEPT !.found = <<>>]
    BY <1>6 DEF LookupReturns
  <2>2. Awaited = {Head(app.todo).name}
    BY <2>1 DEF Awaited
  <2>3. stk.found \in Seq(Ips)
    BY Parts DEF Good, Stacks
  <2>4. Head(stk.found) = stk.found[1]
    BY <2>1, <2>3
  <2>5. Head(stk.found) \in Answers(Head(app.todo).name)
    BY <2>1, <2>2, <2>4, Parts DEF Live
  <2>6. CallShape' /\ LookupsOwn' /\ Awaited' = {}
    BY <2>1, <2>5, Parts, CallEnds
  <2>7. <<>> \in Seq(Ips)
    OBVIOUS
  <2>8. Good(stk') /\ stk'.out = stk.out /\ stk'.dns = stk.dns /\ stk'.found = <<>>
    BY <2>1, <2>7, Parts, SetField, Zenon
  <2>9. Live(stk', {})
    BY <2>1, <2>8, Parts DEF Live, Open
  <2> QED BY <1>2, <1>3, <2>6, <2>8, <2>9, Parts, StackStays
<1> QED BY <1>4, <1>5, <1>6
-----------------------------------------------------------------------------
(***************************************************************************)
(* The other hosts, and the wire.                                          *)
(***************************************************************************)

SrvType == [mac : {RouterMac, RouterMac2}, pool : Seq(Lan \ {RouterIp}), lease : Ips, left : Int, bad : SUBSET Ips]

LEMMA SrvTyped ==
    ASSUME HostTypes
    PROVE  /\ srv \in SrvType /\ srv.pool \in Seq(Lan \ {RouterIp}) /\ srv.lease \in Ips
           /\ srv.mac \in {RouterMac, RouterMac2}
           /\ \A ip : TermsFor(ip) \in Terms /\ TermsFor(ip).t0 \in Int
           /\ \A n \in DOMAIN srv.pool : srv.pool[n] \in Lan \ {RouterIp} /\ srv.pool[n] \in Ips
<1>1. srv \in SrvType
  BY DEF HostTypes, SrvType
<1>2. /\ srv.pool \in Seq(Lan \ {RouterIp}) /\ srv.lease \in Ips
      /\ srv.mac \in {RouterMac, RouterMac2}
  BY <1>1 DEF SrvType
<1>3. sc.terms \in Terms /\ sc.again \in Terms
  BY NetAssumption DEF HostTypes
<1>4. \A ip : TermsFor(ip) \in Terms /\ TermsFor(ip).t0 \in Int
  <2>1. \A o \in Terms : o.t0 \in Int
    BY DEF Terms
  <2> QED BY <1>3, <2>1 DEF TermsFor
<1>5. \A n \in DOMAIN srv.pool : srv.pool[n] \in Lan \ {RouterIp} /\ srv.pool[n] \in Ips
  BY <1>2 DEF Ips
<1> QED BY <1>1, <1>2, <1>3, <1>4, <1>5

\* An answer that a host may give.
FairAnswer(r) ==
    /\ r.srv \in SrvType /\ r.srv.mac = srv.mac /\ r.ans \in Seq(InFrames)
    /\ \A n \in DOMAIN r.ans : HeardOK(r.ans[n]) /\ AnswerOK(r.ans[n])

LEMMA FairNothing ==
    ASSUME HostTypes, NEW v \in SrvType, v.mac = srv.mac
    PROVE  FairAnswer([ans |-> <<>>, srv |-> v]) /\ FairAnswer(Nothing)
<1>1. srv \in SrvType
  BY SrvTyped
<1> QED BY <1>1 DEF FairAnswer, Nothing

LEMMA FairOne ==
    ASSUME NEW f \in InFrames, HeardOK(f), AnswerOK(f), NEW v \in SrvType, v.mac = srv.mac
    PROVE  FairAnswer([ans |-> <<f>>, srv |-> v])
  BY DEF FairAnswer

LEMMA FairReply ==
    ASSUME HostTypes, NEW type \in {"OFFER", "ACK", "NAK"}, NEW m \in DhcpOut, NEW ip \in Ips,
           NEW v \in SrvType, v.mac = srv.mac
    PROVE  FairAnswer([ans |-> Reply(type, m, ip), srv |-> v])
<1> DEFINE dip == IF type = "NAK" THEN Bcast ELSE ip
           r == [type |-> type, cur |-> m.cur, yi |-> ip, sid |-> RouterIp,
                 terms |-> TermsFor(ip)]
           p == [sip |-> RouterIp, dip |-> dip, kind |-> "dhcp", m |-> r]
           f == [eth |-> "ip", to |-> MyMac, p |-> p]
<1>1. dip \in Ips /\ RouterIp \in Ips
  BY HostsInLan DEF Ips
<1>2. m.cur \in BOOLEAN
  BY DEF DhcpOut
<1>3. r \in DhcpIn
  BY <1>1, <1>2, SrvTyped DEF DhcpIn
<1>4. Reply(type, m, ip) = <<f>>
  BY DEF Reply
<1> HIDE DEF dip, r
<1>5. p \in DhcpReplies /\ p.kind = "dhcp"
  BY <1>1, <1>3 DEF DhcpReplies
<1> HIDE DEF p
<1>6. f \in InIpFrames /\ f.eth = "ip" /\ f.p = p
  BY <1>5 DEF InIpFrames, Macs
<1> HIDE DEF f
<1>7. f \in InFrames /\ HeardOK(f) /\ AnswerOK(f)
  BY <1>5, <1>6 DEF InFrames, HeardOK, AnswerOK
<1> QED BY <1>4, <1>7, FairOne

LEMMA FairDhcp ==
    ASSUME HostTypes, NEW m \in DhcpOut
    PROVE  FairAnswer(ServeDhcp(m))
<1> DEFINE offered == IF Leased /\ IsFree(srv.lease) THEN srv.lease ELSE srv.pool[Min(Free)]
           asked == Asked(m)
           taken == [srv EXCEPT !.lease = asked, !.left = TimerFor(TermsFor(asked).t0, Infinite)]
           declined == [srv EXCEPT !.bad = @ \cup {m.req}, !.left = 0]
<1>1. m.req \in Ips /\ m.ci \in Ips
  BY DEF DhcpOut
<1>2. asked \in Ips
  BY <1>1 DEF Asked
<1>3. TimerFor(TermsFor(asked).t0, Infinite) \in Int
  <2>1. TermsFor(asked).t0 \in Int /\ Infinite \in Int
    BY SrvTyped DEF Infinite
  <2> QED BY <2>1, TimerType
<1>4. taken \in SrvType /\ taken.mac = srv.mac
  <2>1. \A ip \in Ips, n \in Int : LET v == [srv EXCEPT !.lease = ip, !.left = n]
                                   IN  v \in SrvType /\ v.mac = srv.mac
    BY SrvTyped DEF SrvType
  <2> HIDE DEF asked
  <2> QED BY <1>2, <1>3, <2>1
<1>5. declined \in SrvType /\ declined.mac = srv.mac
  <2>1. \A b \in SUBSET Ips, n \in Int : LET v == [srv EXCEPT !.bad = b, !.left = n]
                                         IN  v \in SrvType /\ v.mac = srv.mac
    BY SrvTyped DEF SrvType
  <2>2. srv.bad \cup {m.req} \in SUBSET Ips /\ 0 \in Int
    BY <1>1, SrvTyped DEF SrvType
  <2> QED BY <2>1, <2>2
<1>6. Free # {} => offered \in Ips
  <2> SUFFICES ASSUME Free # {} PROVE offered \in Ips
    OBVIOUS
  <2>1. Free \subseteq DOMAIN srv.pool /\ Free \subseteq Nat
    BY SrvTyped DEF Free
  <2>2. Min(Free) \in Free
    BY <2>1, MinInSet
  <2>3. srv.pool[Min(Free)] \in Ips
    BY <2>1, <2>2, SrvTyped
  <2> QED BY <2>3, SrvTyped
<1>7. \/ Free # {} /\ ServeDhcp(m) = [ans |-> Reply("OFFER", m, offered), srv |-> srv]
      \/ ServeDhcp(m) = [ans |-> Reply("ACK", m, asked), srv |-> taken]
      \/ ServeDhcp(m) = [ans |-> Reply("NAK", m, IpAny), srv |-> srv]
      \/ ServeDhcp(m) = [ans |-> <<>>, srv |-> declined]
      \/ ServeDhcp(m) = Nothing
  BY Zenon DEF ServeDhcp
<1> HIDE DEF offered, asked, taken, declined
<1>8. srv \in SrvType /\ IpAny \in Ips
  BY SrvTyped DEF Ips
<1>9. Free # {} => FairAnswer([ans |-> Reply("OFFER", m, offered), srv |-> srv])
  BY <1>6, <1>8, FairReply
<1>10. FairAnswer([ans |-> Reply("ACK", m, asked), srv |-> taken])
  BY <1>2, <1>4, FairReply
<1>11. FairAnswer([ans |-> Reply("NAK", m, IpAny), srv |-> srv])
  BY <1>8, FairReply
<1>12. FairAnswer([ans |-> <<>>, srv |-> declined]) /\ FairAnswer(Nothing)
  BY <1>5, FairNothing
<1> QED BY <1>7, <1>9, <1>10, <1>11, <1>12, Zenon

LEMMA FairArpFrame ==
    ASSUME HostTypes, NEW op \in {"request", "reply"}, NEW ip \in Hosts \cup {IpAny},
           NEW dip \in Ips, NEW to \in Macs
    PROVE  LET f == ArpFrame(op, ip, MacOf(ip), dip, to)
           IN  f \in InFrames /\ HeardOK(f) /\ AnswerOK(f)
<1>1. ip \in Ips /\ MacOf(ip) \in Macs
  BY HostsInLan, SrvTyped DEF Ips, MacOf, Macs
<1>0. ip # IpAny => ip \in Hosts /\ MacOf(ip) \in MacsOf(ip)
  BY HostsInLan
<1> DEFINE mac == MacOf(ip)
           f == [eth |-> "arp", to |-> to, op |-> op, sip |-> ip, smac |-> mac, dip |-> dip]
<1>2. ArpFrame(op, ip, MacOf(ip), dip, to) = f
  BY DEF ArpFrame
<1> HIDE DEF mac
<1>3. f \in ArpFrames /\ f.eth = "arp" /\ f.sip = ip /\ f.smac = mac
  BY <1>1 DEF ArpFrames, mac
<1> HIDE DEF f
<1>4. f \in InFrames
  BY <1>3 DEF InFrames
<1>5. HeardOK(f)
  BY <1>0, <1>3 DEF HeardOK, mac
<1>6. AnswerOK(f)
  BY <1>3 DEF AnswerOK
<1> QED BY <1>2, <1>4, <1>5, <1>6

LEMMA FairArp ==
    ASSUME HostTypes, NEW f \in ArpFrames
    PROVE  FairAnswer(ServeArp(f))
<1>1. f.sip \in Ips /\ f.dip \in Ips /\ MyMac \in Macs /\ srv \in SrvType
  BY SrvTyped DEF ArpFrames, Macs
<1>2. CASE f.op = "request" /\ f.dip \in {RouterIp, rival.ip}
  <2> DEFINE g == ArpFrame("reply", f.dip, MacOf(f.dip), f.sip, MyMac)
  <2>1. f.dip \in Hosts \cup {IpAny}
    BY <1>2 DEF Hosts
  <2>2. g \in InFrames /\ HeardOK(g) /\ AnswerOK(g)
    BY <1>1, <2>1, FairArpFrame
  <2>3. ServeArp(f) = [ans |-> <<g>>, srv |-> srv]
    BY <1>2 DEF ServeArp
  <2> HIDE DEF g
  <2> QED BY <1>1, <2>2, <2>3, FairOne
<1>3. CASE ~ (f.op = "request" /\ f.dip \in {RouterIp, rival.ip})
  <2>1. ServeArp(f) = Nothing
    BY <1>3 DEF ServeArp
  <2> QED BY <1>1, <2>1, FairNothing
<1> QED BY <1>2, <1>3

LEMMA FairDns ==
    ASSUME HostTypes, NEW p \in DnsPackets
    PROVE  FairAnswer(ServeDns(p))
<1> DEFINE a == AddrOf[p.m.name]
           ok == a # IpAny
           r == [id |-> p.m.id, name |-> p.m.name, ttl |-> Ttl, ok |-> ok, addr |-> a]
           q == [sip |-> p.dip, dip |-> p.sip, kind |-> "dns", m |-> r]
           f == [eth |-> "ip", to |-> MyMac, p |-> q]
<1>1. p.sip \in Ips /\ p.dip \in Ips /\ p.m \in DnsOut
  BY DEF DnsPackets
<1>2. p.m.id \in Names /\ p.m.name \in HostNames
  BY <1>1 DEF DnsOut
<1>3. a \in Ips /\ ok \in BOOLEAN
  BY <1>2, NetAssumption DEF HostNames
<1>4. \/ ServeDns(p) = Nothing
      \/ ServeDns(p) = [ans |-> <<f>>, srv |-> srv]
  BY DEF ServeDns
<1>5. r \in DnsIn /\ r.addr = AddrOf[r.name]
  <2> HIDE DEF ok
  <2> QED BY <1>2, <1>3, NetAssumption DEF DnsIn
<1> HIDE DEF a, ok, r
<1>6. q \in DnsAnswers /\ q.m = r
  BY <1>1, <1>5 DEF DnsAnswers
<1> HIDE DEF q
<1>7. f \in InIpFrames /\ f.eth = "ip" /\ f.p = q
  BY <1>6 DEF InIpFrames, Macs
<1> HIDE DEF f
<1>8. f \in InFrames /\ HeardOK(f) /\ AnswerOK(f)
  BY <1>5, <1>6, <1>7 DEF InFrames, HeardOK, AnswerOK
<1>9. srv \in SrvType
  BY SrvTyped
<1> QED BY <1>4, <1>8, <1>9, FairOne, FairNothing

LEMMA FairServed ==
    ASSUME HostTypes, NEW f \in OutFrames
    PROVE  FairAnswer(Served(f))
<1>1. \/ f.eth = "arp" /\ Served(f) = ServeArp(f)
      \/ f.eth = "ip" /\ f.p.kind = "dhcp" /\ Served(f) = ServeDhcp(f.p.m)
      \/ f.eth = "ip" /\ f.p.kind = "dns" /\ Served(f) = ServeDns(f.p)
      \/ Served(f) = Nothing
  BY Zenon DEF Served
<1>2. f.eth = "arp" => f \in ArpFrames
  <2>1. f \in IpFrames => f.eth = "ip"
    BY DEF IpFrames
  <2> QED BY <2>1 DEF OutFrames
<1>3. f.eth = "ip" => f.p \in Packets
  <2>1. f \in ArpFrames => f.eth = "arp"
    BY DEF ArpFrames
  <2>2. f \in IpFrames => f.p \in Packets
    BY DEF IpFrames
  <2> QED BY <2>1, <2>2 DEF OutFrames
<1>4. \A p \in Packets : (p.kind = "dhcp" => p.m \in DhcpOut) /\ (p.kind = "dns" => p \in DnsPackets)
  <2>1. \A p \in DhcpPackets : p.kind = "dhcp" /\ p.m \in DhcpOut
    BY DEF DhcpPackets
  <2>2. \A p \in DnsPackets : p.kind = "dns"
    BY DEF DnsPackets
  <2>3. \A p \in IcmpPackets : p.kind = "icmp"
    BY DEF IcmpPackets
  <2> QED BY <2>1, <2>2, <2>3 DEF Packets
<1>5. srv \in SrvType
  BY SrvTyped
<1> QED BY <1>1, <1>2, <1>3, <1>4, <1>5, FairArp, FairDhcp, FairDns, FairNothing

LEMMA TailFrames ==
    ASSUME NEW S, NEW a \in Seq(S), a # <<>>
    PROVE  /\ Head(a) \in S /\ Head(a) = a[1] /\ 1 \in DOMAIN a /\ Tail(a) \in Seq(S)
           /\ \A n \in DOMAIN Tail(a) : n + 1 \in DOMAIN a /\ Tail(a)[n] = a[n + 1]
  OBVIOUS

\* The frames of WireOK, out of sight of the definition.
LEMMA WireParts ==
    ASSUME WireOK
    PROVE  /\ toNet \in Seq(OutFrames) /\ \A n \in DOMAIN toNet : SentOK(toNet[n])
           /\ toSta \in Seq(InFrames)
           /\ \A n \in DOMAIN toSta : HeardOK(toSta[n]) /\ AnswerOK(toSta[n])
  BY DEF WireOK

LEMMA TailsStay ==
    ASSUME WireOK
    PROVE  /\ toNet # <<>> => Tail(toNet) \in Seq(OutFrames)
                              /\ \A n \in DOMAIN Tail(toNet) : SentOK(Tail(toNet)[n])
           /\ toSta # <<>> => Tail(toSta) \in Seq(InFrames)
                              /\ \A n \in DOMAIN Tail(toSta) :
                                     HeardOK(Tail(toSta)[n]) /\ AnswerOK(Tail(toSta)[n])
  BY WireParts, TailFrames

LEMMA MoreHeard ==
    ASSUME WireOK, NEW b \in Seq(InFrames), \A n \in DOMAIN b : HeardOK(b[n]) /\ AnswerOK(b[n])
    PROVE  /\ toSta \o b \in Seq(InFrames)
           /\ \A n \in DOMAIN (toSta \o b) : HeardOK((toSta \o b)[n]) /\ AnswerOK((toSta \o b)[n])
<1>1. toSta \in Seq(InFrames) /\ \A n \in DOMAIN toSta : HeardOK(toSta[n]) /\ AnswerOK(toSta[n])
  BY WireParts
<1>2. toSta \o b \in Seq(InFrames)
  BY <1>1
<1> QED BY <1>1, <1>2, ConcatFrames

LEMMA AppendFrame ==
    ASSUME NEW S, NEW a \in Seq(S), NEW f \in S
    PROVE  /\ Append(a, f) \in Seq(S)
           /\ \A n \in DOMAIN Append(a, f) :
                  (n \in DOMAIN a /\ Append(a, f)[n] = a[n]) \/ Append(a, f)[n] = f
  OBVIOUS

LEMMA OneMoreHeard ==
    ASSUME WireOK, NEW f \in InFrames, HeardOK(f), AnswerOK(f)
    PROVE  /\ Append(toSta, f) \in Seq(InFrames)
           /\ \A n \in DOMAIN Append(toSta, f) :
                  HeardOK(Append(toSta, f)[n]) /\ AnswerOK(Append(toSta, f)[n])
<1>1. toSta \in Seq(InFrames) /\ \A n \in DOMAIN toSta : HeardOK(toSta[n]) /\ AnswerOK(toSta[n])
  BY WireParts
<1> QED BY <1>1, AppendFrame

\* A step in which neither the stack nor the application takes part.
LEMMA OutsideStep ==
    ASSUME IndInv, HostTypes', UNCHANGED <<stk, app>>, HostsKept,
           toNet' \in Seq(OutFrames), toSta' \in Seq(InFrames),
           \A n \in DOMAIN toNet' : SentOK(toNet'[n]),
           \A n \in DOMAIN toSta' : HeardOK(toSta'[n]) /\ AnswerOK(toSta'[n])
    PROVE  IndInv'
<1>1. WireOK'
  BY Parts, WireStays
<1>2. CallShape' /\ LookupsOwn' /\ Awaited' = Awaited
  BY Parts, SameCall
<1>3. Live(stk', Awaited')
  BY <1>2, Parts
<1> QED BY <1>1, <1>2, <1>3, Parts, StackStays

LEMMA ServeKeeps ==
    ASSUME IndInv, Serve
    PROVE  IndInv'
<1> DEFINE r == Served(Head(toNet))
<1>1. /\ toNet # <<>> /\ toNet' = Tail(toNet) /\ toSta' = toSta \o r.ans /\ srv' = r.srv
      /\ UNCHANGED <<stk, irq, app, rival, sc>>
  BY DEF Serve
<1>2. Head(toNet) \in OutFrames
  BY <1>1, Parts, WireParts, TailFrames
<1>3. FairAnswer(r)
  BY <1>2, Parts, FairServed
<1> HIDE DEF r
<1>4. HostTypes' /\ HostsKept
  BY <1>1, <1>3, Parts DEF HostTypes, HostsKept, FairAnswer, SrvType
<1>5. toNet' \in Seq(OutFrames) /\ \A n \in DOMAIN toNet' : SentOK(toNet'[n])
  BY <1>1, Parts, TailsStay
<1>6. toSta' \in Seq(InFrames) /\ \A n \in DOMAIN toSta' : HeardOK(toSta'[n]) /\ AnswerOK(toSta'[n])
  BY <1>1, <1>3, Parts, MoreHeard DEF FairAnswer
<1> QED BY <1>1, <1>4, <1>5, <1>6, OutsideStep

LEMMA RivalTakesKeeps ==
    ASSUME IndInv, RivalTakes
    PROVE  IndInv'
<1>1. /\ rival.ip = IpAny /\ UNCHANGED <<stk, irq, toNet, app, srv, sc>>
  BY DEF RivalTakes
<1>2. PICK n \in Free :
          /\ rival' = [ip |-> srv.pool[n], leased |-> TRUE]
          /\ toSta' = IF stk.link THEN Append(toSta, ArpFrame("request", srv.pool[n], RivalMac,
                                                              srv.pool[n], EthBroadcast))
                      ELSE toSta
  BY DEF RivalTakes
<1> DEFINE ip == srv.pool[n]
           f == ArpFrame("request", ip, RivalMac, ip, EthBroadcast)
<1>3. ip \in Lan \ {RouterIp} /\ ip \in Ips /\ ip # IpAny
  BY Parts, SrvTyped, NetAssumption DEF Free
<1>4. HostTypes'
  BY <1>1, <1>2, <1>3, Parts DEF HostTypes
<1>5. rival'.ip = ip
  BY <1>2
<1> HIDE DEF ip
<1>7. /\ f \in InFrames /\ f.eth = "arp" /\ f.sip = ip /\ f.smac = RivalMac
  <2>1. f \in ArpFrames
    BY <1>3 DEF ArpFrame, ArpFrames, Macs
  <2> QED BY <2>1 DEF ArpFrame, InFrames
<1> HIDE DEF f
<1>8. PICK h : h = f
  OBVIOUS
<1>9. /\ HeardOK(h)' /\ AnswerOK(h)'
      /\ toSta' = Append(toSta, h) \/ toSta' = toSta
  <2>1. PICK a : a = ip
    OBVIOUS
  <2>2. a \in Hosts' /\ MacsOf(a)' = {RivalMac}
    BY <1>1, <1>3, <1>5, <2>1 DEF Hosts, MacOf, MacsOf
  <2>3. h.eth = "arp" /\ h.sip = a /\ h.smac = RivalMac
    BY <1>7, <1>8, <2>1
  <2>4. HeardOK(h)' /\ AnswerOK(h)'
    BY <2>2, <2>3 DEF HeardOK, AnswerOK
  <2> QED BY <1>2, <1>8, <2>4 DEF f, ip
<1>10. /\ toSta \in Seq(InFrames)
       /\ \A k \in DOMAIN toSta : HeardOK(toSta[k]) /\ AnswerOK(toSta[k])
       /\ toNet \in Seq(OutFrames) /\ \A k \in DOMAIN toNet : SentOK(toNet[k])
  BY Parts, WireParts
<1>11. /\ toSta' \in Seq(InFrames)
       /\ \A k \in DOMAIN toSta' : (k \in DOMAIN toSta /\ toSta'[k] = toSta[k]) \/ toSta'[k] = h
  <2>1. CASE toSta' = Append(toSta, h)
    BY <1>7, <1>8, <1>10, <2>1, AppendFrame
  <2>2. CASE toSta' = toSta
    BY <1>10, <2>2
  <2> QED BY <1>9, <2>1, <2>2
<1>12. \A g : (HeardOK(g) => HeardOK(g)') /\ (AnswerOK(g) => AnswerOK(g)') /\ (SentOK(g) => SentOK(g)')
  <2>1. HostsKept
    BY <1>1 DEF HostsKept
  <2> QED BY <2>1, Parts, FramesStay DEF AnswerOK
<1>13. \A k \in DOMAIN toSta' : HeardOK(toSta[k])' /\ AnswerOK(toSta[k])'
  BY <1>9, <1>10, <1>11, <1>12
<1>14. \A k \in DOMAIN toNet' : SentOK(toNet[k])'
  BY <1>1, <1>10, <1>12
<1>15. WireOK'
  BY <1>1, <1>10, <1>11, <1>13, <1>14 DEF WireOK
<1>16. CallShape' /\ LookupsOwn' /\ Awaited' = Awaited
  BY <1>1, Parts, SameCall
<1>17. Live(stk', Awaited')
  BY <1>1, <1>16, Parts
<1>18. HostsKept
  BY <1>1 DEF HostsKept
<1> QED BY <1>1, <1>4, <1>15, <1>16, <1>17, <1>18, Parts, StackStays

LEMMA WireStepsKeep ==
    ASSUME IndInv, Asks \/ Lose \/ Repeat
    PROVE  IndInv'
<1>1. irq' = irq /\ UNCHANGED Host /\ UNCHANGED <<stk, app>>
  BY DEF Asks, Lose, Repeat
<1>2. HostTypes' /\ HostsKept
  BY <1>1, Parts, HostsUnchanged
<1>3. /\ toNet \in Seq(OutFrames) /\ \A n \in DOMAIN toNet : SentOK(toNet[n])
      /\ toSta \in Seq(InFrames)
      /\ \A n \in DOMAIN toSta : HeardOK(toSta[n]) /\ AnswerOK(toSta[n])
  BY Parts, WireParts
<1>4. CASE Asks
  <2>1. toNet' = toNet
    BY <1>4 DEF Asks
  <2>2. PICK ip \in Hosts :
            toSta' = Append(toSta, ArpFrame("request", ip, MacOf(ip), stk.ip, EthBroadcast))
    BY <1>4 DEF Asks, Hosts
  <2> DEFINE f == ArpFrame("request", ip, MacOf(ip), stk.ip, EthBroadcast)
  <2>3. stk.ip \in Ips /\ EthBroadcast \in Macs
    BY Parts, ClientIps DEF Macs
  <2>4. f \in InFrames /\ HeardOK(f) /\ AnswerOK(f)
    BY <2>3, Parts, FairArpFrame
  <2> HIDE DEF f
  <2>5. /\ toSta' \in Seq(InFrames)
        /\ \A n \in DOMAIN toSta' : HeardOK(toSta'[n]) /\ AnswerOK(toSta'[n])
    BY <2>2, <2>4, Parts, OneMoreHeard DEF f
  <2>6. toNet' \in Seq(OutFrames) /\ \A n \in DOMAIN toNet' : SentOK(toNet'[n])
    BY <1>3, <2>1
  <2> QED BY <1>1, <1>2, <2>5, <2>6, OutsideStep
<1>5. CASE Lose
  <2>1. \/ toNet # <<>> /\ toNet' = Tail(toNet) /\ toSta' = toSta
        \/ toSta # <<>> /\ toSta' = Tail(toSta) /\ toNet' = toNet
    BY <1>5 DEF Lose
  <2>2. toNet' \in Seq(OutFrames) /\ \A n \in DOMAIN toNet' : SentOK(toNet'[n])
    BY <1>3, <2>1, Parts, TailsStay
  <2>3. /\ toSta' \in Seq(InFrames)
        /\ \A n \in DOMAIN toSta' : HeardOK(toSta'[n]) /\ AnswerOK(toSta'[n])
    BY <1>3, <2>1, Parts, TailsStay
  <2> QED BY <1>1, <1>2, <2>2, <2>3, OutsideStep
<1>6. CASE Repeat
  <2>1. toNet' = toNet /\ toSta # <<>> /\ toSta' = Append(toSta, Head(toSta))
    BY <1>6 DEF Repeat
  <2>2. Head(toSta) \in InFrames /\ HeardOK(Head(toSta)) /\ AnswerOK(Head(toSta))
    BY <1>3, <2>1, TailFrames
  <2>3. /\ toSta' \in Seq(InFrames)
        /\ \A n \in DOMAIN toSta' : HeardOK(toSta'[n]) /\ AnswerOK(toSta'[n])
    BY <2>1, <2>2, Parts, OneMoreHeard
  <2>4. toNet' \in Seq(OutFrames) /\ \A n \in DOMAIN toNet' : SentOK(toNet'[n])
    BY <1>3, <2>1
  <2> QED BY <1>1, <1>2, <2>3, <2>4, OutsideStep
<1> QED BY <1>4, <1>5, <1>6

LEMMA LinkDownKeeps ==
    ASSUME IndInv, LinkDown
    PROVE  IndInv'
<1>1. /\ irq' = irq /\ UNCHANGED Host /\ app' = app /\ toNet' = <<>> /\ toSta' = <<>>
      /\ stk' = netif_set_link_down(stk)
  BY DEF LinkDown
<1>2. HostTypes' /\ HostsKept
  BY <1>1, Parts, HostsUnchanged
<1>3. /\ toNet' \in Seq(OutFrames) /\ toSta' \in Seq(InFrames)
      /\ \A n \in DOMAIN toNet' : SentOK(toNet'[n])
      /\ \A n \in DOMAIN toSta' : HeardOK(toSta'[n]) /\ AnswerOK(toSta'[n])
  BY <1>1
<1>4. WireOK'
  BY <1>2, <1>3, Parts, WireStays
<1>5. CallShape' /\ LookupsOwn' /\ Awaited' = Awaited
  BY <1>1, Parts, SameCall
<1>6. Kept(stk, stk')
  BY <1>1, Parts, SetDownKept
<1>7. Good(stk') /\ Live(stk', Awaited')
  BY <1>5, <1>6, Parts, FineKept DEF Fine
<1>8. stk'.out = stk.out
  BY <1>1, Parts DEF netif_set_link_down, Good, Stacks
<1> QED BY <1>2, <1>4, <1>5, <1>7, <1>8, Parts, StackStays

LEMMA LinkUpKeeps ==
    ASSUME IndInv, LinkUp
    PROVE  IndInv'
<1>1. /\ irq' = irq /\ app' = app /\ rival' = rival /\ sc' = sc
      /\ Step(netif_set_link_up(stk), toSta)
      /\ srv' = srv \/ srv' = [mac |-> RouterMac2, pool |-> Pool2, lease |-> IpAny, left |-> 0, bad |-> {}]
  BY DEF LinkUp
<1>2. [mac |-> RouterMac2, pool |-> Pool2, lease |-> IpAny, left |-> 0, bad |-> {}] \in SrvType
  BY NetAssumption DEF SrvType, Ips
<1>3. HostTypes' /\ HostsKept
  BY <1>1, <1>2, Parts DEF HostTypes, SrvType, HostsKept
<1>4. CallShape' /\ LookupsOwn' /\ Awaited' = Awaited
  BY <1>1, Parts, SameCall
<1>5. Fine(netif_set_link_up(stk), Awaited)
  BY Parts, LinkUpKept, FineKept
<1> QED BY <1>1, <1>3, <1>4, <1>5, StackStepsAlone

LEMMA StutterKeeps ==
    ASSUME IndInv, UNCHANGED vars
    PROVE  IndInv'
<1>1. UNCHANGED <<stk, irq, toNet, toSta, app>> /\ UNCHANGED Host
  BY DEF vars, Host
<1>2. HostTypes' /\ HostsKept
  BY <1>1, Parts, HostsUnchanged
<1>3. /\ toNet' \in Seq(OutFrames) /\ toSta' \in Seq(InFrames)
      /\ \A n \in DOMAIN toNet' : SentOK(toNet'[n])
      /\ \A n \in DOMAIN toSta' : HeardOK(toSta'[n]) /\ AnswerOK(toSta'[n])
  BY <1>1, Parts, WireParts
<1> QED BY <1>1, <1>2, <1>3, OutsideStep

LEMMA InitInv == Init => IndInv
<1> SUFFICES ASSUME Init PROVE IndInv
  OBVIOUS
<1>1. HostTypes
  <2>1. [mac |-> RouterMac, pool |-> Pool, lease |-> IpAny, left |-> 0, bad |-> {}] \in SrvType
    BY NetAssumption DEF SrvType, Ips
  <2>2. sc \in Scenarios /\ sc.rival \in (Lan \ {RouterIp}) \cup {IpAny, "takes"}
    BY NetAssumption DEF Init
  <2>3. (IF sc.rival = "takes" THEN IpAny ELSE sc.rival) \in (Lan \ {RouterIp}) \cup {IpAny}
    BY <2>2
  <2>4. rival \in [ip : (Lan \ {RouterIp}) \cup {IpAny}, leased : BOOLEAN]
    BY <2>3 DEF Init
  <2> QED BY <2>1, <2>2, <2>4 DEF Init, HostTypes, SrvType
<1>2. CallShape
  <2>1. sc.calls \in Seq(CallsOf)
    BY NetAssumption DEF Init
  <2>2. app = [todo |-> sc.calls, pc |-> "ready", ret |-> <<>>]
    BY DEF Init
  <2> QED BY <2>1, <2>2 DEF CallShape
<1>3. WireOK
  BY DEF Init, WireOK
<1>4. LookupsOwn
  <2>1. app.ret = <<>>
    BY DEF Init
  <2> QED BY <2>1 DEF LookupsOwn
<1>5. app.pc = "ready"
  BY DEF Init
<1>6. Awaited = {}
  BY <1>5 DEF Awaited
<1> DEFINE a == [i \in Slots |-> Empty]
           tab == [i \in Names |-> Unused]
           servers == [n \in 1 .. DNS_MAX_SERVERS |-> IF n = 1 THEN DefaultDns ELSE IpAny]
<1>7. IpAny \in Ips /\ 1 \in Slots
  BY ArpAssumption DEF Ips, Slots
<1>8. a \in [Slots -> Entries]
  BY <1>7, EmptyEntry
<1>9. dns_init \in Resolvers
  <2>1. servers \in [1 .. DNS_MAX_SERVERS -> Ips]
    BY <1>7, NetAssumption
  <2>2. tab \in [Names -> Questions]
    BY UnusedType
  <2>3. dns_init = [tab |-> tab, seqno |-> 0, conn |-> IpAny, servers |-> servers]
    BY DEF dns_init
  <2> HIDE DEF tab, servers
  <2> QED BY <1>7, <2>1, <2>2, <2>3 DEF Resolvers
<1>10. Cleared \in Clients
  BY <1>7 DEF Cleared, Clients, DhcpStates
<1>11. /\ stk.ip = IpAny /\ stk.arp = a /\ stk.out = <<>> /\ stk.found = <<>> /\ stk.dns = dns_init
       /\ stk = [ip |-> IpAny, mask |-> IpAny, gw |-> IpAny, up |-> FALSE, link |-> FALSE,
                 tokens |-> 0, arp |-> a, hint |-> 1, out |-> <<>>,
                 newxid |-> FALSE, dns |-> dns_init, found |-> <<>>, dhcp |-> Cleared]
  BY DEF Init
<1>12. stk \in Stacks
  <2> HIDE DEF a
  <2> QED BY <1>7, <1>8, <1>9, <1>10, <1>11 DEF Stacks
<1>13. Good(stk)
  <2>1. \A i \in Slots : stk.arp[i] = Empty
    BY <1>11
  <2>2. EntryOK(Empty) /\ Empty.st = "EMPTY"
    BY <1>7, EmptyEntry DEF Empty
  <2> QED BY <1>11, <1>12, <2>1, <2>2 DEF Good, OneEntry
<1>14. Live(stk, {})
  <2>1. \A i \in Names : stk.dns.tab[i] = Unused
    BY <1>11 DEF dns_init
  <2> QED BY <1>11, <2>1, UnusedType DEF Live, Open
<1> QED BY <1>1, <1>2, <1>3, <1>4, <1>6, <1>11, <1>13, <1>14 DEF IndInv

LEMMA NextInv == IndInv /\ [Next]_vars => IndInv'
<1> SUFFICES ASSUME IndInv, [Next]_vars PROVE IndInv'
  OBVIOUS
<1>1. CASE Deliver
  BY <1>1, DeliverKeeps
<1>2. CASE FineTimer \/ DnsTimer \/ ArpTimer
  BY <1>2, TimersKeep
<1>3. CASE CoarseTimer
  BY <1>3, CoarseTimerKeeps
<1>4. CASE ConnectStarts \/ ConnectDiscovers \/ DisconnectReleases \/ Lookup
  BY <1>4, CallsKeep
<1>5. CASE DisconnectReturns
  BY <1>5, DisconnectReturnsKeeps
<1>6. CASE ConnectReturns \/ ConnectTimesOut \/ LookupReturns
  BY <1>6, ReturnsKeep
<1>7. CASE Serve
  BY <1>7, ServeKeeps
<1>8. CASE RivalTakes
  BY <1>8, RivalTakesKeeps
<1>9. CASE Asks \/ Lose \/ Repeat
  BY <1>9, WireStepsKeep
<1>10. CASE LinkDown
  BY <1>10, LinkDownKeeps
<1>11. CASE LinkUp
  BY <1>11, LinkUpKeeps
<1>12. CASE UNCHANGED vars
  BY <1>12, StutterKeeps
<1> QED BY <1>1, <1>2, <1>3, <1>4, <1>5, <1>6, <1>7, <1>8, <1>9, <1>10, <1>11, <1>12 DEF Next

-----------------------------------------------------------------------------

\* The invariant holds in every state of the network: the types of the stack
\* and of the frames, entries of the ARP table that hold what their address's
\* host said and packets that may go there, one entry for an address, answers
\* that are true, and open questions that belong to the call that waits.
THEOREM NetworkInvariant == Spec => []IndInv
  BY InitInv, NextInv, PTL DEF Spec

\* Every packet goes to the host of its address, or to the router, and an
\* address has one entry, for tables of every size, with every loss, repeat,
\* expiry and change of network (etharp.c).
THEOREM SentRight == Spec => []SentWhereClaimed
<1>1. IndInv => SentWhereClaimed
  <2> SUFFICES ASSUME IndInv PROVE SentWhereClaimed
    OBVIOUS
  <2>1. \A n \in DOMAIN toNet : SentOK(toNet[n])
    BY DEF IndInv, WireOK
  <2>2. OneEntry(stk)
    BY DEF IndInv, Good
  <2> QED BY <2>1, <2>2 DEF SentWhereClaimed, SentOK, HopOf, OneEntry
<1> QED BY <1>1, NetworkInvariant, PTL

\* A lookup fails or gives the address of its own name or of one that
\* dns_compare_name does not tell from it, whichever these are, with a table of
\* any size and any number of servers, retries and late answers (dns_recv).
THEOREM LookupsRight == Spec => []LookupsOwn
<1>1. IndInv => LookupsOwn
  BY DEF IndInv
<1> QED BY <1>1, NetworkInvariant, PTL

\* No entry of the resolver outlives the call whose stack its callback writes
\* to (dns_check_entry, dns_recv, netconn_gethostbyname).
THEOREM CallbacksLive == Spec => []CallbackTargetsLive
<1>1. IndInv => CallbackTargetsLive
  <2> SUFFICES ASSUME IndInv, NEW i \in Names, stk.dns.tab[i].st = "ASKING"
               PROVE  /\ app.pc = "sem" /\ stk.found = <<>>
                      /\ stk.dns.tab[i].name = Head(app.todo).name
    BY DEF CallbackTargetsLive
  <2>1. stk.dns.tab[i].name \in Awaited /\ stk.found = <<>>
    BY DEF IndInv, Live, Open
  <2> QED BY <2>1 DEF Awaited
<1> QED BY <1>1, NetworkInvariant, PTL
=============================================================================
