-------------------------------- MODULE Dns --------------------------------
(***************************************************************************)
(* The resolver (lwip/core/dns.c) and the call of the application that     *)
(* waits for it (netconn_gethostbyname).  Of the stack it uses             *)
(*   dns    the table tab, dns_seqno, dns_servers and the server that      *)
(*          dns_pcb is connected to                                        *)
(*   found  the answer to the call that waits: empty until its semaphore   *)
(*          is signalled                                                   *)
(* One thread looks names up, so one call waits at a time.                 *)
(***************************************************************************)
EXTENDS Etharp, SequencesExt

CONSTANTS
    DNS_TABLE_SIZE, DNS_MAX_SERVERS, DNS_MAX_RETRIES,
    DefaultDns,    \* DNS_SERVER_ADDRESS
    SameStart,     \* <<a, b>>: the labels of one of the names begin the other
    SeqnoSpace     \* 256: seqno is a u8_t

ASSUME DnsAssumption ==
    /\ DNS_TABLE_SIZE \in Nat \ {0} /\ DNS_MAX_SERVERS \in Nat \ {0}
    /\ DNS_MAX_RETRIES \in Nat \ {0} /\ SeqnoSpace \in Nat \ {0}

Names == 1 .. DNS_TABLE_SIZE

Unused == [st |-> "UNUSED", name |-> "", num |-> 1, tmr |-> 0, retries |-> 0,
           seqno |-> 0, ttl |-> 0, addr |-> IpAny]

dns_init ==
    [tab |-> [i \in Names |-> Unused], seqno |-> 0, conn |-> IpAny,
     servers |-> [n \in 1 .. DNS_MAX_SERVERS |-> IF n = 1 THEN DefaultDns ELSE IpAny]]

\* What is in place of a server when ip is given for it.
dns_setserver(server, ip) == IF ip = IpAny THEN server ELSE ip

\* do_dns_found; an address IpAny stands for ERR_VAL.
do_dns_found(s, addr) == [s EXCEPT !.found = <<addr>>]

\* Mutant: the caller is told and the entry is not flushed.
FailedStays(s, i) == do_dns_found(s, IpAny)

\* An entry that is flushed after its caller has been told of the failure.
Failed(s, i) == do_dns_found([s EXCEPT !.dns.tab[i] = Unused], IpAny)

\* The index of the entry is the id of the question.
dns_send(s, i) ==
    LET e == s.dns.tab[i]
        server == s.dns.servers[e.num]
    IN  udp_sendto([s EXCEPT !.dns.conn = server], server, "dns", [id |-> i, name |-> e.name])

\* Mutant: the last server is asked for ever.
CheckForever(s, i) ==
    LET e == s.dns.tab[i]
    IN  CASE e.st = "NEW" ->
                dns_send([s EXCEPT !.dns.tab[i] =
                    [e EXCEPT !.st = "ASKING", !.num = 1, !.tmr = 1, !.retries = 0]], i)
          [] e.st = "ASKING" -> dns_send(s, i)
          [] OTHER -> s

\* Called every second, and once when an entry is new.  A time to live of 0
\* is decremented to 2^32 - 1: such an entry stays.
dns_check_entry(s, i) ==
    LET e == s.dns.tab[i]
        r == e.retries + 1
        more == e.num < DNS_MAX_SERVERS /\ s.dns.servers[e.num + 1] # IpAny
        Set(x) == [s EXCEPT !.dns.tab[i] = x]
    IN  CASE e.st = "NEW" ->
                dns_send(Set([e EXCEPT !.st = "ASKING", !.num = 1, !.tmr = 1, !.retries = 0]), i)
          [] e.st = "ASKING" /\ e.tmr # 1 -> Set([e EXCEPT !.tmr = @ - 1])
          [] e.st = "ASKING" /\ e.tmr = 1 /\ r = DNS_MAX_RETRIES /\ more ->
                Set([e EXCEPT !.num = @ + 1, !.tmr = 1, !.retries = 0])
          [] e.st = "ASKING" /\ e.tmr = 1 /\ r = DNS_MAX_RETRIES /\ ~ more -> Failed(s, i)
          [] e.st = "ASKING" /\ e.tmr = 1 /\ r < DNS_MAX_RETRIES ->
                dns_send(Set([e EXCEPT !.retries = r, !.tmr = r]), i)
          [] e.st = "DONE" /\ e.ttl # 0 ->
                Set(IF e.ttl = 1 THEN Unused ELSE [e EXCEPT !.ttl = @ - 1])
          [] OTHER -> s

\* From the first entry to the last.
dns_check_entries(s) ==
    LET walk[i \in 0 .. DNS_TABLE_SIZE] == IF i = 0 THEN s ELSE dns_check_entry(walk[i - 1], i)
    IN  walk[DNS_TABLE_SIZE]

\* A question that has been answered; what it counted does not matter any more.
Answered(s, m) ==
    LET e == s.dns.tab[m.id]
    IN  do_dns_found([s EXCEPT !.dns.tab[m.id] = [Unused EXCEPT
            !.st = "DONE", !.name = e.name, !.seqno = e.seqno, !.ttl = m.ttl, !.addr = m.addr]],
            m.addr)

\* The names are compared as far as the one in the response goes, and on from
\* the end of the entry's name to what its buffer still holds of a longer name
\* that it was asked before.
dns_compare_name(query, response) ==
    query = response \/ <<query, response>> \in SameStart

\* Mutant: the name in the answer is not compared.
RecvUnchecked(s, m) ==
    LET e == s.dns.tab[m.id]
    IN  CASE e.st = "ASKING" /\ m.ok -> Answered(s, m)
          [] e.st = "ASKING" /\ ~ m.ok -> Failed(s, m.id)
          [] OTHER -> s

\* An answer m: ok stands for a response without error that has an address.
\* An answer to another question ends the one that is asked now, too.
dns_recv(s, m) ==
    LET e == s.dns.tab[m.id]
        taken == m.ok /\ dns_compare_name(e.name, m.name)
    IN  CASE e.st = "ASKING" /\ taken -> Answered(s, m)
          [] e.st = "ASKING" /\ ~ taken -> Failed(s, m.id)
          [] OTHER -> s

Known(s, name) == {i \in Names : s.dns.tab[i].st = "DONE" /\ s.dns.tab[i].name = name}

dns_lookup(s, name) == s.dns.tab[Min(Known(s, name))].addr

\* The entry for a new name: the first one that is not used, or the oldest
\* answer.  The ages are differences of u8_t numbers taken as int: after
\* dns_seqno has wrapped an age may be negative, and no entry, or the wrong
\* one, is the oldest.  The first entry is taken then, unless it is asked for.
Victim(s) ==
    LET unused == {i \in Names : s.dns.tab[i].st = "UNUSED"}
        Age(i) == s.dns.seqno - s.dns.tab[i].seqno
        old == {i \in Names : s.dns.tab[i].st = "DONE" /\ Age(i) > 0}
        best == {i \in old : \A j \in old : Age(j) <= Age(i)}
    IN  IF unused # {} THEN Min(unused) ELSE IF old # {} THEN Min(best) ELSE 1

dns_enqueue(s, name) ==
    LET i == Victim(s)
        e == [Unused EXCEPT !.st = "NEW", !.name = name, !.seqno = s.dns.seqno]
    IN  IF s.dns.tab[i].st \notin {"UNUSED", "DONE"} THEN do_dns_found(s, IpAny)   \* ERR_MEM
        ELSE dns_check_entry([s EXCEPT !.dns.tab[i] = e,
                                       !.dns.seqno = (@ + 1) % SeqnoSpace], i)

\* do_gethostbyname: an answer that is known wakes the caller at once.
dns_gethostbyname(s, name) ==
    IF Known(s, name) # {} THEN do_dns_found(s, dns_lookup(s, name)) ELSE dns_enqueue(s, name)
=============================================================================
