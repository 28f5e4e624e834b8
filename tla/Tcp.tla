-------------------------------- MODULE Tcp --------------------------------
(***************************************************************************)
(* lwIP's TCP (lwip/core/tcp.c, tcp_in.c, tcp_out.c, lwip/tcp_impl.h) as    *)
(* configured for the station: no out-of-sequence queue, no oversized       *)
(* pbufs, keep-alive off.  A protocol control block is a record p; each     *)
(* function of the code is an operator from the block, and the segment it   *)
(* handles, to the block afterwards.  p.out collects the segments that are  *)
(* handed to IP, p.ev what the callbacks are to be told of, p.rdata the     *)
(* data for the application (recv_flags and recv_data of tcp_in.c).         *)
(*                                                                         *)
(* Abstractions: payload is counted in units, TCP_MSS of them to a full     *)
(* segment; sequence numbers count modulo SeqSpace, where the code has 2^32;  *)
(* of a timer the block keeps whether it runs, and its owner says when it   *)
(* expires; round-trip estimation, which only sets that time, is left out,  *)
(* and so are allocations that fail.                                        *)
(***************************************************************************)
EXTENDS Integers, Sequences, SequencesExt, FiniteSetsExt

CONSTANTS
    SeqSpace,             \* sequence numbers are 0 .. SeqSpace - 1
    TCP_MSS, TCP_WND, TCP_SND_BUF, TCP_SND_QUEUELEN,
    TCP_MAXRTX, TCP_SYNMAXRTX,
    DupThresh           \* duplicate ACKs that start a fast retransmit, 3

ASSUME TcpAssumption ==
    /\ {SeqSpace, TCP_MSS, TCP_WND, TCP_SND_BUF, TCP_SND_QUEUELEN} \subseteq Nat \ {0}
    /\ {TCP_MAXRTX, TCP_SYNMAXRTX, DupThresh} \subseteq Nat \ {0}
    /\ 2 * (TCP_WND + TCP_SND_BUF + 2) <= SeqSpace

Word == 65536   \* cwnd and ssthresh are u16_t

Add(a, b) == (a + b) % SeqSpace
Diff(a, b) == (a - b) % SeqSpace
TCP_SEQ_LT(a, b) == Diff(a, b) >= SeqSpace \div 2
TCP_SEQ_LEQ(a, b) == a = b \/ TCP_SEQ_LT(a, b)
TCP_SEQ_GEQ(a, b) == ~ TCP_SEQ_LT(a, b)
TCP_SEQ_BETWEEN(a, b, c) == TCP_SEQ_GEQ(a, b) /\ TCP_SEQ_LEQ(a, c)

TCP_TCPLEN(s) ==
    Len(s.data) + (IF s.flags \cap {"SYN", "FIN"} = {} THEN 0 ELSE 1)

SeqEnd(s) == Add(s.seq, TCP_TCPLEN(s))

Pbufs(q) == FoldLeft(LAMBDA n, s : n + s.pbufs, 0, q)

\* A block that is in use by no connection.
tcp_alloc(iss) ==
    [st |-> "CLOSED", snd_nxt |-> iss, lastack |-> iss, snd_lbb |-> iss,
     snd_wnd |-> 0, wl1 |-> 0, wl2 |-> iss, snd_buf |-> TCP_SND_BUF, qlen |-> 0,
     cwnd |-> 1, ssthresh |-> 0, rcv_nxt |-> 0, rcv_wnd |-> TCP_WND,
     ann_wnd |-> TCP_WND, ann_edge |-> 0, unsent |-> <<>>, unacked |-> <<>>,
     rtime |-> FALSE, nrtx |-> 0, dupacks |-> 0, acked |-> 0, persist |-> FALSE,
     delay |-> FALSE, now |-> FALSE, infr |-> FALSE, mem |-> FALSE, fin |-> FALSE,
     rxclosed |-> FALSE, refused |-> <<>>,
     inp |-> FALSE, out |-> <<>>, ev |-> {}, rdata |-> <<>>]

(***************************************************************************)
(* Output.                                                                 *)
(***************************************************************************)

\* tcp_output_alloc_header, or the part of tcp_output_segment that fills in
\* ackno and window: the announced right edge moves with every segment.
Transmit(p, seq, flags, data) ==
    [p EXCEPT !.out = Append(@, [seq |-> seq, ack |-> p.rcv_nxt, wnd |-> p.ann_wnd,
                                 flags |-> flags, data |-> data]),
              !.ann_edge = Add(p.rcv_nxt, p.ann_wnd)]

tcp_rst(p, seq, ack) ==
    [p EXCEPT !.out = Append(@, [seq |-> seq, ack |-> ack, wnd |-> TCP_WND,
                                 flags |-> {"RST", "ACK"}, data |-> <<>>])]

tcp_ack_now(p) == [p EXCEPT !.now = TRUE]

tcp_ack(p) == IF p.delay THEN [p EXCEPT !.delay = FALSE, !.now = TRUE]
                         ELSE [p EXCEPT !.delay = TRUE]

tcp_send_empty_ack(p) ==
    [Transmit(p, p.snd_nxt, {"ACK"}, <<>>) EXCEPT !.delay = FALSE, !.now = FALSE]

\* Whether segment s lies within window wnd; unsigned 32-bit in the code.
Fits(p, s, wnd) == (s.seq - p.lastack + Len(s.data)) % SeqSpace <= wnd

tcp_do_output_nagle(p) ==
    \/ p.unacked = <<>>
    \/ p.infr
    \/ Len(p.unsent) > 1
    \/ Len(Head(p.unsent).data) >= TCP_MSS

\* Segment s goes before the first segment of q that does not precede it.
InOrder(q, s) ==
    InsertAt(q, Max({i \in 0 .. Len(q) :
                       \A j \in 1 .. i : TCP_SEQ_LT(q[j].seq, s.seq)}) + 1, s)

\* One pass of tcp_output's loop: the first unsent segment is transmitted.
SendFirst(p) ==
    LET s == Head(p.unsent)
        syn == p.st = "SYN_SENT"
        t == Transmit(p, s.seq, IF syn THEN s.flags ELSE s.flags \cup {"ACK"}, s.data)
    IN [t EXCEPT !.unsent = Tail(@),
                 !.delay = @ /\ syn, !.now = @ /\ syn,
                 !.rtime = TRUE,
                 !.snd_nxt = IF TCP_SEQ_LT(@, SeqEnd(s)) THEN SeqEnd(s) ELSE @,
                 !.unacked = IF TCP_TCPLEN(s) > 0 THEN InOrder(@, s) ELSE @]

\* Mutant: the persist timer is never started.
SentNoPersist(p) == [p EXCEPT !.mem = FALSE]

\* The end of tcp_output: what the peer's window has no room for starts the
\* persist timer.
Sent(p) ==
    [p EXCEPT !.mem = FALSE,
              !.persist = @ \/ (p.unsent # <<>> /\ ~ Fits(p, Head(p.unsent), p.snd_wnd))]

tcp_output(p) ==
    LET wnd == Min({p.snd_wnd, p.cwnd})
        Pass(a, s) ==
            IF a.more /\ Fits(a.p, s, wnd)
                      /\ (tcp_do_output_nagle(a.p) \/ a.p.mem \/ a.p.fin)
            THEN [a EXCEPT !.p = SendFirst(@)]
            ELSE [a EXCEPT !.more = FALSE]
    IN IF p.inp THEN p
       ELSE IF p.now /\ (p.unsent = <<>> \/ ~ Fits(p, Head(p.unsent), wnd))
       THEN tcp_send_empty_ack(p)
       ELSE Sent(FoldLeft(Pass, [p |-> p, more |-> TRUE], p.unsent).p)

\* Mutant: SYN and FIN take no room in the send buffer.
EnqueueUncounted(p, flags) ==
    IF p.qlen >= TCP_SND_QUEUELEN THEN [p |-> [p EXCEPT !.mem = TRUE], ok |-> FALSE]
    ELSE [p |-> [p EXCEPT !.unsent = Append(@, [seq |-> p.snd_lbb, flags |-> flags,
                                                data |-> <<>>, pbufs |-> 1]),
                          !.snd_lbb = Add(@, 1), !.qlen = @ + 1,
                          !.fin = @ \/ "FIN" \in flags],
          ok |-> TRUE]

tcp_enqueue_flags(p, flags) ==
    IF p.qlen >= TCP_SND_QUEUELEN THEN [p |-> [p EXCEPT !.mem = TRUE], ok |-> FALSE]
    ELSE IF p.snd_buf = 0 THEN [p |-> p, ok |-> FALSE]
    ELSE [p |-> [p EXCEPT !.unsent = Append(@, [seq |-> p.snd_lbb, flags |-> flags,
                                                data |-> <<>>, pbufs |-> 1]),
                          !.snd_lbb = Add(@, 1), !.snd_buf = @ - 1, !.qlen = @ + 1,
                          !.fin = @ \/ "FIN" \in flags],
          ok |-> TRUE]

\* The FIN rides on the last unsent segment when it can: then neither
\* snd_lbb nor snd_buf counts it, and TF_FIN is not set.
tcp_send_fin(p) ==
    IF p.unsent # <<>> /\ Last(p.unsent).flags \cap {"SYN", "FIN"} = {}
    THEN [p |-> [p EXCEPT !.unsent[Len(p.unsent)].flags = @ \cup {"FIN"}], ok |-> TRUE]
    ELSE tcp_enqueue_flags(p, {"FIN"})

\* Data cut into segments of at most TCP_MSS units from sequence number seq.
Segments(seq, data) ==
    [i \in 1 .. (Len(data) + TCP_MSS - 1) \div TCP_MSS |->
        [seq |-> Add(seq, (i - 1) * TCP_MSS), flags |-> {}, pbufs |-> 1,
         data |-> SubSeq(data, (i - 1) * TCP_MSS + 1, Min({i * TCP_MSS, Len(data)}))]]

\* Room left in the last unsent segment; a SYN's (no data) is not used.
RoomInLast(p) ==
    IF p.unsent = <<>> \/ Last(p.unsent).data = <<>> THEN 0
    ELSE TCP_MSS - Len(Last(p.unsent).data)

\* The queue with data added to its last segment.
Grow(q, data) ==
    IF data = <<>> THEN q
    ELSE [q EXCEPT ![Len(q)] = [@ EXCEPT !.data = @ \o data, !.pbufs = @ + 1]]

\* The first k units of data fill the last unsent segment, segs are new.
Queue(p, data, k, segs) ==
    LET qlen == p.qlen + Len(segs) + (IF k > 0 THEN 1 ELSE 0)
    IN IF \/ Len(data) > p.snd_buf
          \/ p.qlen >= TCP_SND_QUEUELEN
          \/ segs # <<>> /\ qlen > TCP_SND_QUEUELEN
       THEN [p |-> [p EXCEPT !.mem = TRUE], err |-> "MEM"]
       ELSE [p |-> [p EXCEPT !.unsent = Grow(@, SubSeq(data, 1, k)) \o segs,
                             !.snd_lbb = Add(@, Len(data)),
                             !.snd_buf = @ - Len(data),
                             !.qlen = qlen],
             err |-> "OK"]

\* data is queued whole or not at all; err is what tcp_write returns.
tcp_write(p, data) ==
    LET Cut(k) ==
            Queue(p, data, k, Segments(Add(p.snd_lbb, k), SubSeq(data, k + 1, Len(data))))
    IN IF p.st \notin {"ESTABLISHED", "CLOSE_WAIT", "SYN_SENT", "SYN_RCVD"}
       THEN [p |-> p, err |-> "CONN"]
       ELSE IF data = <<>> THEN [p |-> p, err |-> "OK"]
       ELSE Cut(Min({RoomInLast(p), Len(data)}))

tcp_rexmit(p) ==
    IF p.unacked = <<>> THEN p
    ELSE [p EXCEPT !.unacked = Tail(@), !.unsent = InOrder(@, Head(p.unacked)),
                   !.nrtx = @ + 1]

AtLeast2Mss(n) == Max({n, 2 * TCP_MSS})

tcp_rexmit_fast(p) ==
    IF p.unacked = <<>> \/ p.infr THEN p
    ELSE LET half == AtLeast2Mss(Min({p.cwnd, p.snd_wnd}) \div 2)
         IN [tcp_rexmit(p) EXCEPT !.ssthresh = half, !.infr = TRUE,
                                  !.cwnd = half + DupThresh * TCP_MSS]

\* Mutant: the segments that were never sent are forgotten.
RexmitDropsUnsent(p) ==
    tcp_output([p EXCEPT !.unsent = p.unacked, !.unacked = <<>>, !.nrtx = @ + 1])

tcp_rexmit_rto(p) ==
    tcp_output([p EXCEPT !.unsent = p.unacked \o @, !.unacked = <<>>, !.nrtx = @ + 1])

\* One sequence number of the first segment in line, to a closed window.
tcp_zero_window_probe(p) ==
    LET q == p.unacked \o p.unsent
    IN IF q = <<>> THEN p
       ELSE IF Head(q).data = <<>> /\ "FIN" \in Head(q).flags
       THEN Transmit(p, Head(q).seq, {"ACK", "FIN"}, <<>>)
       ELSE Transmit(p, Head(q).seq, {"ACK"}, SubSeq(Head(q).data, 1, 1))

(***************************************************************************)
(* Input.                                                                  *)
(***************************************************************************)

\* Mutant: no window is announced while it would grow by too little.
AnnounceNone(p) ==
    LET edge == Add(p.rcv_nxt, p.rcv_wnd)
    IN IF TCP_SEQ_GEQ(edge, Add(p.ann_edge, Min({TCP_WND \div 2, TCP_MSS})))
       THEN [p |-> [p EXCEPT !.ann_wnd = p.rcv_wnd], more |-> Diff(edge, p.ann_edge)]
       ELSE [p |-> [p EXCEPT !.ann_wnd = 0], more |-> 0]

\* more is the window an update sent now would add.
tcp_update_rcv_ann_wnd(p) ==
    LET edge == Add(p.rcv_nxt, p.rcv_wnd)
    IN IF TCP_SEQ_GEQ(edge, Add(p.ann_edge, Min({TCP_WND \div 2, TCP_MSS})))
       THEN [p |-> [p EXCEPT !.ann_wnd = p.rcv_wnd], more |-> Diff(edge, p.ann_edge)]
       ELSE [p |-> [p EXCEPT !.ann_wnd = IF TCP_SEQ_LT(p.ann_edge, p.rcv_nxt) THEN 0
                                         ELSE Diff(p.ann_edge, p.rcv_nxt)],
             more |-> 0]

\* The application has taken len units.
tcp_recved(p, len) ==
    LET Tell(u) ==
            IF u.more >= TCP_WND \div 4 THEN tcp_output(tcp_ack_now(u.p)) ELSE u.p
    IN Tell(tcp_update_rcv_ann_wnd([p EXCEPT !.rcv_wnd = Min({@ + len, TCP_WND})]))

\* The send window is taken from segments that are no older than the last.
UpdateWindow(p, s) ==
    IF \/ TCP_SEQ_LT(p.wl1, s.seq)
       \/ p.wl1 = s.seq /\ TCP_SEQ_LT(p.wl2, s.ack)
       \/ p.wl2 = s.ack /\ s.wnd > p.snd_wnd
    THEN [p EXCEPT !.snd_wnd = s.wnd, !.wl1 = s.seq, !.wl2 = s.ack,
                   !.persist = @ /\ s.wnd = 0]
    ELSE p

Grown(cwnd, n) == IF (cwnd + n) % Word > cwnd THEN cwnd + n ELSE cwnd

\* An ACK of nothing new; edge is the right window edge before the update.
DupAck(p, s, edge) ==
    IF /\ TCP_TCPLEN(s) = 0
       /\ Add(p.wl2, p.snd_wnd) = edge
       /\ p.rtime
       /\ p.lastack = s.ack
    THEN LET Count(q) ==
                 IF q.dupacks > DupThresh THEN [q EXCEPT !.cwnd = Grown(@, TCP_MSS)]
                 ELSE IF q.dupacks = DupThresh THEN tcp_rexmit_fast(q)
                 ELSE q
         IN Count([p EXCEPT !.acked = 0, !.dupacks = Min({@ + 1, 255})])
    ELSE [p EXCEPT !.acked = 0, !.dupacks = 0]

\* How many segments of q, from its head on, satisfy test.
Leading(q, test(_)) ==
    Max({i \in 0 .. Len(q) : \A j \in 1 .. i : test(q[j])})

\* The first k segments of q are freed.
Freed(p, q, k) ==
    [p EXCEPT !.qlen = @ - Pbufs(SubSeq(q, 1, k)),
              !.acked = Max({@ - Cardinality({j \in 1 .. k : "FIN" \in q[j].flags}), 0})]

FreeUnacked(p, ack) ==
    LET Free(k) == [Freed(p, p.unacked, k) EXCEPT
                      !.unacked = SubSeq(@, k + 1, Len(@)),
                      !.rtime = k < Len(p.unacked)]
    IN Free(Leading(p.unacked, LAMBDA x : TCP_SEQ_LEQ(SeqEnd(x), ack)))

\* After a timeout what is acknowledged may be on the unsent queue again.
FreeUnsent(p, ack) ==
    LET Free(k) == [Freed(p, p.unsent, k) EXCEPT !.unsent = SubSeq(@, k + 1, Len(@))]
    IN Free(Leading(p.unsent, LAMBDA x : TCP_SEQ_BETWEEN(ack, SeqEnd(x), p.snd_nxt)))

NewAck(p, s) ==
    LET n == Diff(s.ack, p.lastack)
        cwnd == IF p.infr THEN p.ssthresh ELSE p.cwnd
    IN FreeUnacked(
         [p EXCEPT !.infr = FALSE, !.nrtx = 0, !.acked = n, !.snd_buf = @ + n,
                   !.dupacks = 0, !.lastack = s.ack,
                   !.cwnd = IF cwnd < p.ssthresh THEN Grown(cwnd, TCP_MSS)
                            ELSE Grown(cwnd, (TCP_MSS * TCP_MSS) \div cwnd)],
         s.ack)

\* The part of tcp_receive that handles an ACK.
ReceiveAck(p, s) ==
    LET Count(w) ==
            IF TCP_SEQ_LEQ(s.ack, w.lastack) THEN DupAck(w, s, Add(p.snd_wnd, p.wl2))
            ELSE IF TCP_SEQ_BETWEEN(s.ack, Add(w.lastack, 1), w.snd_nxt) THEN NewAck(w, s)
            ELSE [w EXCEPT !.acked = 0]
    IN FreeUnsent(Count(UpdateWindow(p, s)), s.ack)

\* The next data in sequence, cut to the receive window, FIN included.
Accept(p, data, fin) ==
    LET over == Len(data) + (IF fin THEN 1 ELSE 0) > p.rcv_wnd
        d == IF over THEN SubSeq(data, 1, p.rcv_wnd) ELSE data
        f == fin /\ ~ over
        n == Len(d) + (IF f THEN 1 ELSE 0)
    IN tcp_ack([tcp_update_rcv_ann_wnd(
                   [p EXCEPT !.rcv_nxt = Add(@, n), !.rcv_wnd = @ - n]).p
                EXCEPT !.rdata = d, !.ev = IF f THEN @ \cup {"FIN"} ELSE @])

\* Mutant: data that was partly received before is taken as new.
ReceiveUntrimmed(p, s) ==
    IF TCP_TCPLEN(s) = 0 THEN p
    ELSE IF TCP_SEQ_LT(p.rcv_nxt, SeqEnd(s)) /\ TCP_SEQ_LEQ(s.seq, p.rcv_nxt) /\ p.rcv_wnd > 0
    THEN Accept(p, s.data, "FIN" \in s.flags)
    ELSE tcp_send_empty_ack(p)

\* The part of tcp_receive that handles data: what precedes rcv_nxt is cut
\* off, what does not start there is answered with an ACK and dropped.
ReceiveData(p, s) ==
    LET len == TCP_TCPLEN(s)
        old == Diff(p.rcv_nxt, s.seq)
        overlaps == TCP_SEQ_BETWEEN(p.rcv_nxt, Add(s.seq, 1), Add(s.seq, len - 1))
        seq == IF overlaps THEN p.rcv_nxt ELSE s.seq
        data == IF overlaps THEN SubSeq(s.data, old + 1, Len(s.data)) ELSE s.data
        InWindow(n) == TCP_SEQ_BETWEEN(n, p.rcv_nxt, Add(p.rcv_nxt, p.rcv_wnd - 1))
    IN IF len = 0
       THEN IF InWindow(s.seq) THEN p ELSE tcp_ack_now(p)
       ELSE IF InWindow(seq) /\ seq = p.rcv_nxt
       THEN Accept(p, data, "FIN" \in s.flags)
       ELSE tcp_send_empty_ack(p)

tcp_receive(p, s) ==
    ReceiveData(IF "ACK" \in s.flags THEN ReceiveAck(p, s) ELSE p, s)

\* tcp_pcb_purge of a block that is not yet CLOSED or in TIME-WAIT.
tcp_pcb_purge(p) ==
    [p EXCEPT !.refused = <<>>, !.unsent = <<>>, !.unacked = <<>>, !.rtime = FALSE]

\* Any delayed ACK is sent before the block goes.
tcp_pcb_remove(p) ==
    [(IF p.delay THEN tcp_output(tcp_ack_now(tcp_pcb_purge(p))) ELSE tcp_pcb_purge(p))
     EXCEPT !.st = "CLOSED"]

TimeWait(p) == [tcp_pcb_purge(p) EXCEPT !.st = "TIME_WAIT"]

RstFor(p, s) == tcp_rst(p, s.ack, Add(s.seq, TCP_TCPLEN(s)))

SynSent(p, s) ==
    IF {"SYN", "ACK"} \subseteq s.flags /\ s.ack = Add(Head(p.unacked).seq, 1)
    THEN tcp_ack_now(
           [p EXCEPT !.snd_buf = @ + 1, !.rcv_nxt = Add(s.seq, 1),
                     !.ann_edge = Add(s.seq, 1), !.lastack = s.ack,
                     !.snd_wnd = s.wnd, !.wl1 = Diff(s.seq, 1),
                     !.st = "ESTABLISHED", !.ssthresh = TCP_MSS * 10,
                     !.cwnd = IF @ = 1 THEN TCP_MSS * 2 ELSE TCP_MSS,
                     !.qlen = @ - 1, !.unacked = Tail(@),
                     !.rtime = Len(p.unacked) > 1,
                     !.nrtx = IF Len(p.unacked) > 1 THEN 0 ELSE @,
                     !.ev = @ \cup {"CONNECTED"}])
    ELSE IF "ACK" \in s.flags THEN RstFor(p, s)
    ELSE p

\* A FIN was received: it is acknowledged at once.
Fin(p, st) == IF "FIN" \in p.ev THEN [tcp_ack_now(p) EXCEPT !.st = st] ELSE p

SynRcvd(p, s) ==
    LET Opened(r) == [r EXCEPT !.acked = Max({@ - 1, 0}), !.ev = @ \cup {"ACCEPT"},
                               !.cwnd = IF p.cwnd = 1 THEN TCP_MSS * 2 ELSE TCP_MSS]
    IN IF "ACK" \in s.flags
       THEN IF TCP_SEQ_BETWEEN(s.ack, Add(p.lastack, 1), p.snd_nxt)
            THEN Fin(Opened(tcp_receive([p EXCEPT !.st = "ESTABLISHED"], s)), "CLOSE_WAIT")
            ELSE RstFor(p, s)
       ELSE IF "SYN" \in s.flags /\ s.seq = Diff(p.rcv_nxt, 1) THEN tcp_rexmit(p)
       ELSE p

\* The states after the handshake, once tcp_receive has made r of the block.
\* all says that s acknowledges what was sent, not that everything was sent.
Proceed(r, s) ==
    LET got == "FIN" \in r.ev
        all == "ACK" \in s.flags /\ s.ack = r.snd_nxt
    IN CASE r.st \in {"ESTABLISHED", "CLOSE_WAIT"} -> Fin(r, "CLOSE_WAIT")
         [] r.st = "FIN_WAIT_1" ->
              IF got /\ all THEN TimeWait(tcp_ack_now(r))
              ELSE IF all THEN [r EXCEPT !.st = "FIN_WAIT_2"]
              ELSE Fin(r, "CLOSING")
         [] r.st = "FIN_WAIT_2" -> IF got THEN TimeWait(tcp_ack_now(r)) ELSE r
         [] r.st = "CLOSING" -> IF all THEN TimeWait(r) ELSE r
         [] r.st = "LAST_ACK" -> IF all THEN [r EXCEPT !.ev = @ \cup {"CLOSED"}] ELSE r

Synchronized(p, s) == Proceed(tcp_receive(p, s), s)

tcp_process(p, s) ==
    IF "RST" \in s.flags
    THEN IF IF p.st = "SYN_SENT" THEN s.ack = p.snd_nxt
            ELSE TCP_SEQ_BETWEEN(s.seq, p.rcv_nxt, Add(p.rcv_nxt, p.rcv_wnd))
         THEN [p EXCEPT !.delay = FALSE, !.ev = @ \cup {"RESET"}]
         ELSE p
    ELSE IF p.st = "SYN_SENT" THEN SynSent(p, s)
    ELSE IF p.st = "SYN_RCVD" THEN SynRcvd(p, s)
    ELSE IF "SYN" \in s.flags THEN tcp_ack_now(p)
    ELSE Synchronized(p, s)

tcp_timewait_input(p, s) ==
    IF "RST" \in s.flags THEN p
    ELSE IF "SYN" \in s.flags
            /\ TCP_SEQ_BETWEEN(s.seq, p.rcv_nxt, Add(p.rcv_nxt, p.rcv_wnd))
    THEN RstFor(p, s)
    ELSE IF TCP_TCPLEN(s) > 0 THEN tcp_output(tcp_ack_now(p))
    ELSE p

\* A SYN for a listening port starts a connection.
tcp_listen_input(p, s, iss) ==
    IF "ACK" \in s.flags THEN tcp_rst(p, Add(s.ack, 1), Add(s.seq, TCP_TCPLEN(s)))
    ELSE IF "SYN" \in s.flags
    THEN tcp_output(tcp_enqueue_flags(
           [tcp_alloc(iss) EXCEPT !.st = "SYN_RCVD", !.rcv_nxt = Add(s.seq, 1),
                                  !.ann_edge = Add(s.seq, 1), !.snd_wnd = s.wnd,
                                  !.ssthresh = s.wnd, !.wl1 = Diff(s.seq, 1)],
           {"SYN", "ACK"}).p)
    ELSE p

(***************************************************************************)
(* Opening and closing.                                                    *)
(***************************************************************************)

tcp_connect(p, iss) ==
    tcp_output([tcp_enqueue_flags(
        [p EXCEPT !.snd_nxt = iss, !.lastack = Diff(iss, 1), !.snd_lbb = Diff(iss, 1),
                  !.snd_wnd = TCP_WND, !.cwnd = 1, !.ssthresh = TCP_MSS * 10],
        {"SYN"}).p EXCEPT !.st = "SYN_SENT"])

\* ok says whether the block is closed, or is on its way there.
tcp_close_shutdown(p, rst_on_unacked_data) ==
    LET Go(f, st) ==
            IF f.ok THEN [p |-> tcp_output([f.p EXCEPT !.st = st]), ok |-> TRUE] ELSE f
    IN IF rst_on_unacked_data /\ (p.refused # <<>> \/ p.rcv_wnd # TCP_WND)
       THEN [p |-> TimeWait(tcp_rst(p, p.snd_nxt, p.rcv_nxt)), ok |-> TRUE]
       ELSE CASE p.st = "SYN_SENT" -> [p |-> tcp_pcb_remove(p), ok |-> TRUE]
              [] p.st \in {"SYN_RCVD", "ESTABLISHED", "CLOSE_WAIT"} ->
                   Go(tcp_send_fin(p), IF p.st = "CLOSE_WAIT" THEN "LAST_ACK" ELSE "FIN_WAIT_1")
              [] OTHER -> [p |-> p, ok |-> TRUE]

tcp_close(p) == tcp_close_shutdown([p EXCEPT !.rxclosed = TRUE], TRUE)

\* tcp_abandon with a reset: the block is gone.
tcp_abort(p) ==
    IF p.st = "TIME_WAIT" THEN [p EXCEPT !.st = "CLOSED"]
    ELSE tcp_rst(tcp_pcb_remove(p), p.snd_nxt, p.rcv_nxt)
=============================================================================
