------------------------------ MODULE Netconn ------------------------------
(***************************************************************************)
(* A TCP netconn (lwip/api/api_msg.c) and its control block: the callbacks  *)
(* TCP makes, the requests of the application thread, and the parts of      *)
(* tcp_input, tcp_slowtmr and tcp_fasttmr that call back.  All of it runs    *)
(* in tcpip_thread, one message or timer at a time.                          *)
(*                                                                         *)
(* An endpoint is a record n:                                              *)
(*   p      its control block (p.st = "CLOSED": there is none)             *)
(*   live   conn->pcb.tcp is not NULL                                      *)
(*   cb     "set": all callbacks, "norecv": a close failed and restored    *)
(*          all but recv, "none"                                           *)
(*   cs     conn->state; msg, off: the write in progress, write_offset     *)
(*   mbox   recvmbox, <<>> in it being the NULL that stands for the end;   *)
(*   open   recvmbox is valid; err: a fatal conn->last_err, or "OK"        *)
(*   sem    op_completed; res: the msg->err of the request                 *)
(*   listen a listening socket is there; backlog: acceptmbox               *)
(***************************************************************************)
EXTENDS Tcp

CONSTANT MboxSize   \* DEFAULT_TCP_RECVMBOX_SIZE, 8

NewEndpoint(iss, listening) ==
    [p |-> tcp_alloc(iss), live |-> FALSE, cb |-> "none", cs |-> "NONE",
     msg |-> <<>>, off |-> 0, mbox |-> <<>>, open |-> FALSE, err |-> "OK",
     sem |-> 0, res |-> "OK", listen |-> listening, backlog |-> FALSE]

\* msg->err is set and the thread that waits for op_completed is released.
Complete(n, err) == [n EXCEPT !.cs = "NONE", !.sem = @ + 1, !.res = err]

Post(n, m) == IF n.open /\ Len(n.mbox) < MboxSize
              THEN [n EXCEPT !.mbox = Append(@, m)] ELSE n

\* Mutant: data the mailbox has no room for is dropped.
RecvDrops(n, data) ==
    IF n.cb # "set" \/ ~ n.open
    THEN [n EXCEPT !.p = [tcp_recved(@, Len(data)) EXCEPT !.refused = <<>>]]
    ELSE [Post(n, data) EXCEPT !.p.refused = <<>>]

\* TCP_EVENT_RECV: data the mailbox has no room for is kept in the block.
recv_tcp(n, data) ==
    IF n.cb # "set" \/ ~ n.open
    THEN [n EXCEPT !.p = [tcp_recved(@, Len(data)) EXCEPT !.refused = <<>>]]
    ELSE IF Len(n.mbox) < MboxSize
    THEN [Post(n, data) EXCEPT !.p.refused = <<>>]
    ELSE [n EXCEPT !.p.refused = data]

\* TCP_EVENT_CLOSED: the end is posted once, room or not.
CallClosed(n) == IF n.cb = "set" THEN Post(n, <<>>) ELSE n

\* Mutant: a pending request is not woken by an error.
ErrWakesNone(n, err) ==
    IF n.cb = "none" THEN n
    ELSE [Post(n, <<>>) EXCEPT !.live = FALSE, !.err = err, !.cs = "NONE"]

\* The connection is dead: whoever waits is woken.
err_tcp(n, err) ==
    LET q == [Post(n, <<>>) EXCEPT !.live = FALSE, !.err = err]
    IN IF n.cb = "none" THEN n
       ELSE IF n.cs \in {"WRITE", "CLOSE", "CONNECT"} THEN Complete(q, err)
       ELSE q

\* tcp_write gave w for what brings write_offset to sent.
Written(n, w, sent) ==
    CASE w.err = "MEM" -> [n EXCEPT !.p = tcp_output(w.p)]
      [] w.err = "CONN" -> Complete([n EXCEPT !.p = w.p], "CONN")
      [] w.err = "OK" ->
           LET q == [n EXCEPT !.p = tcp_output(w.p)]
           IN IF sent = Len(n.msg) THEN Complete([q EXCEPT !.off = 0], "OK")
              ELSE [q EXCEPT !.off = sent]

do_writemore(n) ==
    LET len == Min({Len(n.msg) - n.off, n.p.snd_buf})
    IN Written(n, tcp_write(n.p, SubSeq(n.msg, n.off + 1, n.off + len)), n.off + len)

do_close_internal(n) ==
    LET Closed(c) ==
            IF c.ok
            THEN Complete([n EXCEPT !.p = c.p, !.live = FALSE, !.cb = "none"], "OK")
            ELSE [n EXCEPT !.p = c.p, !.cb = "norecv"]
    IN Closed(tcp_close(n.p))

\* sent_tcp and poll_tcp.
GoOn(n) ==
    IF n.cb = "none" THEN n
    ELSE IF n.cs = "WRITE" THEN do_writemore(n)
    ELSE IF n.cs = "CLOSE" THEN do_close_internal(n)
    ELSE n

\* accept_function: the listener's mailbox gets a netconn for the new block.
accept_function(n) ==
    [n EXCEPT !.live = TRUE, !.cb = "set", !.open = TRUE, !.backlog = TRUE]

\* tcp_abort by the stack itself.
Abort(n) == [err_tcp(n, "ABRT") EXCEPT !.p = tcp_abort(n.p)]

(***************************************************************************)
(* tcp_input.                                                              *)
(***************************************************************************)

\* The connection is there: do_connected, or the listener's accept callback.
Opened(n) == IF "CONNECTED" \in n.p.ev THEN Complete(n, "OK")
             ELSE IF "ACCEPT" \in n.p.ev THEN accept_function(n)
             ELSE n

\* A FIN took one unit of the window that no application will give back.
GotFin(n) ==
    IF "FIN" \in n.p.ev THEN CallClosed([n EXCEPT !.p.rcv_wnd = Min({@ + 1, TCP_WND})])
    ELSE n

TakeData(n) == IF n.p.rdata = <<>> THEN n ELSE recv_tcp(n, n.p.rdata)

\* After tcp_process and the sent callback: data, the end, then output.
Inform(n) ==
    LET Output(q) == [q EXCEPT !.p = tcp_output([@ EXCEPT !.inp = FALSE])]
    IN IF n.p.rdata # <<>> /\ n.p.rxclosed THEN Abort(n)
       ELSE Output(GotFin(TakeData(n)))

Notify(n) ==
    LET SentTo(q) == IF q.p.acked > 0 THEN GoOn(q) ELSE q
    IN CASE "RESET" \in n.p.ev -> [err_tcp(n, "RST") EXCEPT !.p = tcp_pcb_remove(n.p)]
         [] "CLOSED" \in n.p.ev -> [n EXCEPT !.p = tcp_pcb_remove(@)]
         [] OTHER -> Inform(SentTo(Opened(n)))

\* Data that was refused is offered again first; while it is refused, no
\* segment with data is let in.
Represent(n) == IF n.p.refused = <<>> THEN n ELSE recv_tcp(n, n.p.refused)

tcp_input(n, s, iss) ==
    LET Process(r) ==
            IF r.p.refused # <<>> /\ TCP_TCPLEN(s) > 0 THEN r
            ELSE Notify([r EXCEPT !.p = tcp_process([@ EXCEPT !.inp = TRUE], s)])
    IN CASE n.p.st = "CLOSED" /\ n.listen -> [n EXCEPT !.p = tcp_listen_input(@, s, iss)]
         [] n.p.st = "CLOSED" /\ ~ n.listen ->
              IF "RST" \in s.flags THEN n ELSE [n EXCEPT !.p = RstFor(@, s)]
         [] n.p.st = "TIME_WAIT" -> [n EXCEPT !.p = tcp_timewait_input(@, s)]
         [] OTHER -> Process(Represent(n))

(***************************************************************************)
(* Timers.                                                                 *)
(***************************************************************************)

\* tcp_slowtmr for one block.  expired: the timer that runs has run out;
\* long: the block has been too long in its state; poll: it is polled.
Drop(n) == [err_tcp(n, "ABRT") EXCEPT !.p = [tcp_pcb_purge(@) EXCEPT !.st = "CLOSED"]]

GivesUp(p) == p.nrtx = TCP_MAXRTX \/ (p.st = "SYN_SENT" /\ p.nrtx = TCP_SYNMAXRTX)

Retransmit(p) ==
    tcp_rexmit_rto([p EXCEPT !.cwnd = TCP_MSS,
                             !.ssthresh = AtLeast2Mss(Min({p.cwnd, p.snd_wnd}) \div 2)])

Expire(p) == IF p.persist THEN tcp_zero_window_probe(p)
             ELSE IF p.unacked # <<>> THEN Retransmit(p)
             ELSE p

tcp_slowtmr(n, expired, long, poll) ==
    LET late == long /\ n.p.st \in {"FIN_WAIT_2", "SYN_RCVD", "LAST_ACK", "TIME_WAIT"}
        Go(e) == IF late THEN Drop(e)
                 ELSE IF poll THEN [GoOn(e) EXCEPT !.p = tcp_output(@)]
                 ELSE e
    IN IF GivesUp(n.p) THEN Drop(n)
       ELSE Go(IF expired THEN [n EXCEPT !.p = Expire(@)] ELSE n)

\* tcp_fasttmr for one block: refused data again, and a delayed ACK.
tcp_fasttmr(n) ==
    LET AckDelayed(r) ==
            IF ~ r.p.delay THEN r
            ELSE [r EXCEPT !.p = [tcp_output(tcp_ack_now(@)) EXCEPT !.delay = FALSE, !.now = FALSE]]
    IN AckDelayed(Represent(n))

(***************************************************************************)
(* Requests of the application thread, which then waits for op_completed.  *)
(***************************************************************************)

do_connect(n, iss) ==
    [n EXCEPT !.p = tcp_connect(@, iss), !.cs = "CONNECT", !.live = TRUE,
              !.cb = "set", !.open = TRUE]

do_write(n, data) ==
    IF n.err # "OK" THEN Complete(n, n.err)
    ELSE IF ~ n.live THEN Complete(n, "CONN")
    ELSE do_writemore([n EXCEPT !.cs = "WRITE", !.msg = data, !.off = 0])

do_recv(n, len) ==
    IF n.live THEN [Complete(n, "OK") EXCEPT !.p = tcp_recved(@, len)]
    ELSE Complete(n, "OK")

\* netconn_drain: what was not read is given back to the window.
netconn_drain(n) ==
    LET Give(p, m) == IF m = <<>> THEN p ELSE tcp_recved(p, Len(m))
    IN [n EXCEPT !.open = FALSE, !.mbox = <<>>,
                 !.p = IF n.live THEN FoldLeft(Give, @, n.mbox) ELSE @]

\* netconn_delete of the connection.
do_delconn(n) ==
    LET Closed(d) == IF d.live THEN do_close_internal([d EXCEPT !.cs = "CLOSE"])
                     ELSE Complete(d, "OK")
    IN Closed(netconn_drain(n))
=============================================================================
