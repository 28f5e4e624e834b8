-------------------------------- MODULE Dhcp --------------------------------
(***************************************************************************)
(* The DHCP client (lwip/core/dhcp.c).  Of the stack it uses dhcp:         *)
(*   st             dhcp->state                                            *)
(*   tries, armed   the number of tries and whether request_timeout runs   *)
(*   server, offered, offgw, t0, t1r, t2r   what the server offered        *)
(*   t1, t2         the minutes left of t1_timeout and t2_timeout          *)
(* Periods are in units of half of DHCP_COARSE_TIMER_SECS.  The length of  *)
(* a request timeout is left out: it is over when its timer steps.         *)
(*                                                                         *)
(* A message carries cur, whether its xid is dhcp->xid: a message with a   *)
(* new xid makes the ones before it, and their answers, stale.  newxid     *)
(* tells the composition to do so with the messages on the wire.           *)
(* A reply holds terms, the options of the server; a lease time, a subnet  *)
(* mask and the server's identity are always among them.                   *)
(***************************************************************************)
EXTENDS Dns

CONSTANTS
    SelectTries,    \* 5 and 8 in dhcp_timeout
    RebindTries,
    REBOOT_TRIES,
    FirstHost,      \* the gateway that is taken when the server names none
    TimerSpan       \* 65536: t1_timeout and t2_timeout are u16_t

ASSUME DhcpAssumption ==
    /\ SelectTries \in Nat /\ RebindTries \in Nat /\ REBOOT_TRIES \in Nat \ {0}
    /\ TimerSpan \in Nat \ {0, 1}

NotGiven == -1
Infinite == -2      \* 0xffffffff

MaxTries == 2 + Max({SelectTries, RebindTries, REBOOT_TRIES})

\* The client as memset leaves it.
Cleared ==
    [st |-> "OFF", tries |-> 0, armed |-> FALSE, server |-> IpAny, offered |-> IpAny,
     offgw |-> IpAny, t0 |-> 0, t1r |-> 0, t2r |-> 0, t1 |-> 0, t2 |-> 0]

(***************************************************************************)
(* Sending.                                                                *)
(***************************************************************************)

dhcp_set_state(s, st) ==
    IF s.dhcp.st = st THEN s
    ELSE [s EXCEPT !.dhcp.st = st, !.dhcp.tries = 0, !.dhcp.armed = FALSE]

Outdated(p) == IF p.kind = "dhcp" THEN [p EXCEPT !.m.cur = FALSE] ELSE p
OutdatedFrame(f) == IF f.eth = "ip" THEN [f EXCEPT !.p = Outdated(@)] ELSE f
OutdatedAll(fs) == [i \in DOMAIN fs |-> OutdatedFrame(fs[i])]

\* The first message of a try has a new transaction id.
NewXid(s) ==
    [s EXCEPT !.newxid = TRUE, !.out = OutdatedAll(@),
              !.arp = [i \in Slots |-> [s.arp[i] EXCEPT
                           !.q = [n \in DOMAIN @ |-> Outdated(@[n])]]]]

\* ciaddr as the type and the state tell.
Message(s, type, req) ==
    [type |-> type, cur |-> TRUE, req |-> req,
     ci |-> IF \/ type = "DECLINE"
               \/ type = "REQUEST" /\ s.dhcp.st \in {"RENEWING", "REBINDING"}
            THEN s.ip ELSE IpAny]

\* A message is made and sent.
dhcp_create_msg(s, type, req, dip) ==
    LET t == IF s.dhcp.tries = 0 THEN NewXid(s) ELSE s
    IN  udp_sendto_if(t, dip, "dhcp", Message(t, type, req))

\* One try more, and the time to wait for it; tries counts to where it
\* makes no difference.
Tried(s) ==
    [s EXCEPT !.dhcp.tries = Min({@ + 1, MaxTries}), !.dhcp.armed = TRUE]

dhcp_discover(s) ==
    LET t == dhcp_set_state([s EXCEPT !.dhcp.offered = IpAny], "SELECTING")
    IN  Tried(dhcp_create_msg(t, "DISCOVER", IpAny, Bcast))

\* Mutant: a request that is lost is not sent again.
SelectOnce(s) ==
    LET t == dhcp_set_state(s, "REQUESTING")
    IN  dhcp_create_msg(t, "REQUEST", t.dhcp.offered, Bcast)

dhcp_select(s) ==
    LET t == dhcp_set_state(s, "REQUESTING")
    IN  Tried(dhcp_create_msg(t, "REQUEST", t.dhcp.offered, Bcast))

\* To the server, which must be resolved first.
dhcp_renew(s) ==
    LET t == dhcp_set_state(s, "RENEWING")
    IN  Tried(dhcp_create_msg(t, "REQUEST", IpAny, t.dhcp.server))

dhcp_rebind(s) ==
    Tried(dhcp_create_msg(dhcp_set_state(s, "REBINDING"), "REQUEST", IpAny, Bcast))

dhcp_reboot(s) ==
    LET t == dhcp_set_state(s, "REBOOTING")
    IN  Tried(dhcp_create_msg(t, "REQUEST", t.dhcp.offered, Bcast))

dhcp_check(s) ==
    LET t == dhcp_set_state(s, "CHECKING")
    IN  Tried(etharp_query(t, t.dhcp.offered, <<>>))

dhcp_decline(s) ==
    LET t == dhcp_set_state(s, "BACKING_OFF")
    IN  Tried(dhcp_create_msg(t, "DECLINE", t.dhcp.offered, Bcast))

\* The message of dhcp_release: the server it goes to has just been cleared.
ReleaseMessage(s) ==
    LET t == dhcp_set_state(s, "OFF")
        u == [t EXCEPT !.dhcp.server = IpAny, !.dhcp.offered = IpAny, !.dhcp.offgw = IpAny,
                       !.dhcp.t0 = 0, !.dhcp.t1r = 0, !.dhcp.t2r = 0]
    IN  Tried(dhcp_create_msg(u, "RELEASE", IpAny, IpAny))

Unconfigured(s) == netif_set_addr(netif_set_down(s), IpAny, IpAny, IpAny)

dhcp_release(s) == Unconfigured(ReleaseMessage(s))

dhcp_stop(s) == dhcp_set_state(s, "OFF")

\* dhcp_start before its dhcp_discover: no xid is expected.
dhcp_start(s) == NewXid([s EXCEPT !.dhcp = Cleared])

(***************************************************************************)
(* Replies.                                                                *)
(***************************************************************************)

\* A period in minutes, rounded, and at least one.
Minutes(period) == Min({Max({(period + 1) \div 2, 1}), TimerSpan - 1})

\* A period that lasts for ever leaves the timer as it is.
TimerFor(period, timer) == IF period = Infinite THEN timer ELSE Minutes(period)

dhcp_bind(s) ==
    LET d == s.dhcp
        t == [s EXCEPT !.dhcp.t1 = TimerFor(d.t1r, @), !.dhcp.t2 = TimerFor(d.t2r, @)]
        gw == IF d.offgw = IpAny THEN FirstHost ELSE d.offgw
    IN  dhcp_set_state(netif_set_up(netif_set_addr(t, d.offered, Net, gw)), "BOUND")

\* The safe periods: half of the lease, and the whole of it.
dhcp_handle_ack(s, m) ==
    LET o == m.terms
    IN  [s EXCEPT !.dhcp.t0 = o.t0, !.dhcp.offered = m.yi, !.dhcp.offgw = o.gw,
                  !.dhcp.t1r = IF o.t1 = NotGiven THEN o.t0 \div 2 ELSE o.t1,
                  !.dhcp.t2r = IF o.t2 = NotGiven THEN o.t0 ELSE o.t2,
                  !.dns.servers = [n \in 1 .. DNS_MAX_SERVERS |->
                      IF n \in DOMAIN o.dns THEN dns_setserver(@[n], o.dns[n]) ELSE @[n]]]

dhcp_handle_offer(s, m) ==
    dhcp_select([s EXCEPT !.dhcp.server = m.sid, !.dhcp.offered = m.yi])

dhcp_handle_nak(s) == dhcp_discover(dhcp_set_state(Unconfigured(s), "BACKING_OFF"))

dhcp_recv(s, m) ==
    LET st == s.dhcp.st
        verifying == st \in {"REBOOTING", "REBINDING", "RENEWING"}
    IN  CASE m.cur /\ m.type = "ACK" /\ st = "REQUESTING" -> dhcp_check(dhcp_handle_ack(s, m))
          [] m.cur /\ m.type = "ACK" /\ verifying -> dhcp_bind(s)
          [] m.cur /\ m.type = "NAK" /\ (verifying \/ st = "REQUESTING") -> dhcp_handle_nak(s)
          [] m.cur /\ m.type = "OFFER" /\ st = "SELECTING" ->
                dhcp_handle_offer([s EXCEPT !.dhcp.armed = FALSE], m)
          [] OTHER -> s

dhcp_arp_reply(s, ip) ==
    IF s.dhcp.st = "CHECKING" /\ ip = s.dhcp.offered THEN dhcp_decline(s) ELSE s

(***************************************************************************)
(* Timers and the link.                                                    *)
(***************************************************************************)

\* Mutant: the address is asked for once only.
CheckOnce == 0

\* The address is asked for again while tries is at most this.
CheckTries == 1

dhcp_timeout(s) ==
    LET d == s.dhcp
    IN  CASE d.st \in {"BACKING_OFF", "SELECTING"} -> dhcp_discover(s)
          [] d.st = "REQUESTING" /\ d.tries <= SelectTries -> dhcp_select(s)
          [] d.st = "REQUESTING" /\ d.tries > SelectTries -> dhcp_discover(dhcp_release(s))
          [] d.st = "CHECKING" /\ d.tries <= CheckTries -> dhcp_check(s)
          [] d.st = "CHECKING" /\ d.tries > CheckTries -> dhcp_bind(s)
          [] d.st = "RENEWING" -> dhcp_renew(s)
          [] d.st = "REBINDING" /\ d.tries <= RebindTries -> dhcp_rebind(s)
          [] d.st = "REBINDING" /\ d.tries > RebindTries -> dhcp_discover(dhcp_release(s))
          [] d.st = "REBOOTING" /\ d.tries < REBOOT_TRIES -> dhcp_reboot(s)
          [] d.st = "REBOOTING" /\ d.tries >= REBOOT_TRIES -> dhcp_discover(s)
          [] OTHER -> s

\* The step of dhcp_fine_tmr in which request_timeout ends.
dhcp_fine_tmr(s) == dhcp_timeout([s EXCEPT !.dhcp.armed = FALSE])

dhcp_t1_timeout(s) ==
    IF s.dhcp.st \in {"REQUESTING", "BOUND", "RENEWING"} THEN dhcp_renew(s) ELSE s

\* Mutant: a client that renews is left to renew.
RebindFromBound(s) == IF s.dhcp.st \in {"REQUESTING", "BOUND"} THEN dhcp_rebind(s) ELSE s

dhcp_t2_timeout(s) ==
    IF s.dhcp.st \in {"REQUESTING", "BOUND", "RENEWING"} THEN dhcp_rebind(s) ELSE s

\* A timer that has run out goes on from the end of its span.
Ticked(t) == (t + TimerSpan - 1) % TimerSpan

dhcp_coarse_tmr(s) ==
    LET d == s.dhcp
        t == [s EXCEPT !.dhcp.t2 = Ticked(@)]
        u == [t EXCEPT !.dhcp.t1 = Ticked(@)]
    IN  IF d.t2 = 1 THEN dhcp_t2_timeout(t) ELSE IF d.t1 = 1 THEN dhcp_t1_timeout(u) ELSE u

dhcp_network_changed(s) ==
    LET t == [s EXCEPT !.dhcp.tries = 0]
    IN  CASE s.dhcp.st \in {"REBINDING", "RENEWING", "BOUND", "REBOOTING"} ->
                dhcp_reboot(netif_set_down(t))
          [] s.dhcp.st = "OFF" -> s
          [] OTHER -> dhcp_discover(t)
=============================================================================
