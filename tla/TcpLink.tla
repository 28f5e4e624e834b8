------------------------------ MODULE TcpLink ------------------------------
(***************************************************************************)
(* A TCP connection of the station with its server, both of them lwIP: two  *)
(* endpoints, a thread of the application at each, and the network between  *)
(* them, which may lose, duplicate and reorder segments.                    *)
(*                                                                         *)
(* An application runs a program, a sequence of calls of the sequential API *)
(* (lwip/api/api_lib.c).  A failing call makes it go on to its last call,   *)
(* as main.cpp and the socket classes do: they close.                       *)
(*                                                                         *)
(* A scenario gives both programs and the number of faults: a segment that  *)
(* is lost, duplicated or overtaken, and a retransmission timer that runs   *)
(* out, or a state that is given up, while something else could happen.  An *)
(* endpoint the scenario names may restart: it then knows no connection.    *)
(***************************************************************************)
EXTENDS Netconn

CONSTANT Scenarios   \* set of [station |-> program, server |-> program, faults |-> n,
                     \*         restarts |-> set of endpoints]

VARIABLES
    scen,       \* the scenario, chosen once
    end,        \* the endpoints
    app,        \* the application threads; ask: in the fetch of a receive
    chan,       \* chan[e]: the segments on their way to e
    faults

vars == <<scen, end, app, chan, faults>>

Ends == {"station", "server"}
Other(e) == IF e = "station" THEN "server" ELSE "station"

\* Initial sequence numbers, next to the end of the number space.  The block
\* has one before tcp_connect takes another.
Iss(e) == IF e = "station" THEN SeqSpace - 2 ELSE SeqSpace - 3

Program(e) == scen[e]
Op(e) == Program(e)[app[e].pc]
AtEnd(e) == app[e].pc > Len(Program(e))

Init ==
    /\ scen \in Scenarios
    /\ end = [e \in Ends |-> NewEndpoint(SeqSpace - 3, e = "server")]
    /\ app = [e \in Ends |-> [pc |-> 1, wait |-> FALSE, ask |-> FALSE, due |-> 0,
                              sent |-> 0, got |-> <<>>, ended |-> FALSE, closed |-> FALSE]]
    /\ chan = [e \in Ends |-> <<>>]
    /\ faults = 0

\* Between two steps of tcpip_thread: what was output is on its way.  A block
\* that was freed is forgotten.
Settled(n) ==
    [n EXCEPT !.p = IF n.p.st = "CLOSED" THEN tcp_alloc(0)
                    ELSE [@ EXCEPT !.out = <<>>, !.ev = {}, !.rdata = <<>>, !.inp = FALSE]]

\* Endpoint e is n now, ch being what is left in the channels.
Commit(e, n, ch) ==
    /\ end' = [end EXCEPT ![e] = Settled(n)]
    /\ chan' = [ch EXCEPT ![Other(e)] = @ \o n.p.out]

Fault == faults < scen.faults /\ faults' = faults + 1

(***************************************************************************)
(* The application threads.                                                *)
(***************************************************************************)

\* The call before the last is the one to go on with after a failure.
Skip(e) == [app EXCEPT ![e].pc = Max({@ + 1, Len(Program(e))}), ![e].wait = FALSE]
Advance(e) == [app EXCEPT ![e].pc = @ + 1, ![e].wait = FALSE]
Wait(e) == [app EXCEPT ![e].wait = TRUE]

Idle(e) == ~ app[e].wait /\ ~ AtEnd(e)

Connect(e) ==
    /\ Idle(e) /\ Op(e).op = "connect"
    /\ Commit(e, do_connect(end[e], Iss(e)), chan)
    /\ app' = Wait(e)
    /\ UNCHANGED <<scen, faults>>

\* accept returns the new connection; the listening socket is closed then.
AcceptConn(e) ==
    /\ Idle(e) /\ Op(e).op = "accept" /\ end[e].backlog
    /\ end' = [end EXCEPT ![e].backlog = FALSE, ![e].listen = FALSE]
    /\ app' = Advance(e)
    /\ UNCHANGED <<scen, chan, faults>>

Write(e) ==
    /\ Idle(e) /\ Op(e).op = "write"
    /\ Commit(e, do_write(end[e], [i \in 1 .. Op(e).n |-> app[e].sent + i]), chan)
    /\ app' = [Wait(e) EXCEPT ![e].sent = @ + Op(e).n]
    /\ UNCHANGED <<scen, faults>>

Reading(e) == Idle(e) /\ Op(e).op \in {"read", "readall"} /\ app[e].due = 0

\* netconn_recv_data looks at last_err once, before it waits for the mailbox:
\* a dead connection is not read from, though data may be in its mailbox.
Ask(e) ==
    /\ Reading(e) /\ ~ app[e].ask /\ end[e].err = "OK"
    /\ app' = [app EXCEPT ![e].ask = TRUE]
    /\ UNCHANGED <<scen, end, chan, faults>>

ReadFails(e) ==
    /\ Reading(e) /\ ~ app[e].ask /\ end[e].err # "OK"
    /\ app' = Skip(e)
    /\ UNCHANGED <<scen, end, chan, faults>>

\* What comes out of the mailbox, NULL being the end whoever posted it: the
\* FIN, or err_tcp, which wakes a receive so.  It is one unit to the window.
Fetch(e) ==
    /\ Reading(e) /\ app[e].ask /\ end[e].mbox # <<>>
    /\ LET m == Head(end[e].mbox)
       IN /\ end' = [end EXCEPT ![e].mbox = Tail(@)]
          /\ app' = [app EXCEPT ![e].due = Max({Len(m), 1}), ![e].got = @ \o m,
                                ![e].ended = m = <<>>, ![e].ask = FALSE]
    /\ UNCHANGED <<scen, chan, faults>>

Recved(e) ==
    /\ Idle(e) /\ app[e].due > 0
    /\ Commit(e, do_recv(end[e], app[e].due), chan)
    /\ app' = [Wait(e) EXCEPT ![e].due = 0]
    /\ UNCHANGED <<scen, faults>>

Close(e) ==
    /\ Idle(e) /\ Op(e).op = "close"
    /\ Commit(e, do_delconn(end[e]), chan)
    /\ app' = [Wait(e) EXCEPT ![e].closed = TRUE]
    /\ UNCHANGED <<scen, faults>>

\* op_completed lets the thread go on.  A fatal error is remembered, the end
\* of the stream as ERR_CLSD.
Return(e) ==
    /\ app[e].wait /\ end[e].sem > 0
    /\ LET n == end[e]
           over == Op(e).op \in {"read", "readall"} /\ app[e].ended
           err == IF n.err # "OK" THEN n.err ELSE IF over THEN "CLSD" ELSE n.res
       IN /\ end' = [end EXCEPT ![e].sem = @ - 1, ![e].res = "OK", ![e].err = err,
                                ![e].msg = <<>>]
          /\ app' = IF over \/ Op(e).op = "close" THEN Advance(e)
                    ELSE IF n.res # "OK" THEN Skip(e)
                    ELSE IF Op(e).op = "readall" THEN [app EXCEPT ![e].wait = FALSE]
                    ELSE Advance(e)
    /\ UNCHANGED <<scen, chan, faults>>

(***************************************************************************)
(* The network.                                                            *)
(***************************************************************************)

Receive(e, i) ==
    Commit(e, tcp_input(end[e], chan[e][i], Iss(e)), [chan EXCEPT ![e] = RemoveAt(@, i)])

Deliver(e) ==
    /\ chan[e] # <<>>
    /\ Receive(e, 1)
    /\ UNCHANGED <<scen, app, faults>>

Overtake(e) ==
    /\ \E i \in 2 .. Len(chan[e]) : Receive(e, i)
    /\ Fault
    /\ UNCHANGED <<scen, app>>

Lose(e) ==
    /\ \E i \in 1 .. Len(chan[e]) : chan' = [chan EXCEPT ![e] = RemoveAt(@, i)]
    /\ Fault
    /\ UNCHANGED <<scen, end, app>>

Duplicate(e) ==
    /\ \E i \in 1 .. Len(chan[e]) : chan' = [chan EXCEPT ![e] = Append(@, @[i])]
    /\ Fault
    /\ UNCHANGED <<scen, end, app>>

\* Power is lost and comes back.  Nothing of the connection is left, and what
\* still arrives for it is answered with a reset.
Restart(e) ==
    /\ e \in scen.restarts /\ end[e].live
    /\ end' = [end EXCEPT ![e] = [NewEndpoint(0, FALSE) EXCEPT !.err = "ABRT"]]
    /\ app' = [app EXCEPT ![e].pc = Len(Program(e)) + 1, ![e].wait = FALSE,
                          ![e].ask = FALSE, ![e].due = 0]
    /\ Fault
    /\ UNCHANGED <<scen, chan>>

(***************************************************************************)
(* The timers of tcpip_thread.                                             *)
(***************************************************************************)

Active(e) == end[e].p.st \notin {"CLOSED", "TIME_WAIT"}

\* The delayed ACK is due, or refused data finds room.
FastDue(e) ==
    Active(e) /\ (end[e].p.delay \/ (end[e].p.refused # <<>> /\ Len(end[e].mbox) < MboxSize))

\* The application cannot go on before something else happens.
Blocked(e) ==
    \/ AtEnd(e)
    \/ app[e].wait /\ end[e].sem = 0
    \/ Reading(e) /\ app[e].ask /\ end[e].mbox = <<>>
    \/ Idle(e) /\ Op(e).op = "accept" /\ ~ end[e].backlog

\* Nothing but the slow timer is left to make a step.
Quiet == \A e \in Ends : chan[e] = <<>> /\ ~ FastDue(e) /\ Blocked(e)

Early == IF Quiet THEN UNCHANGED faults ELSE Fault

FastTimer(e) ==
    /\ FastDue(e)
    /\ Commit(e, tcp_fasttmr(end[e]), chan)
    /\ UNCHANGED <<scen, app, faults>>

Expires(e) == Active(e) /\ (end[e].p.persist \/ end[e].p.unacked # <<>>)

SlowTimer(e) ==
    /\ Expires(e)
    /\ Commit(e, tcp_slowtmr(end[e], TRUE, FALSE, FALSE), chan)
    /\ Early
    /\ UNCHANGED <<scen, app>>

Polls(e) == Active(e) /\ end[e].cb # "none" /\ end[e].cs \in {"WRITE", "CLOSE"}

PollTimer(e) ==
    /\ Polls(e)
    /\ Commit(e, tcp_slowtmr(end[e], FALSE, FALSE, TRUE), chan)
    /\ UNCHANGED <<scen, app, faults>>

Tired(e) == Active(e) /\ GivesUp(end[e].p)

GiveUp(e) ==
    /\ Tired(e)
    /\ Commit(e, tcp_slowtmr(end[e], FALSE, FALSE, FALSE), chan)
    /\ UNCHANGED <<scen, app, faults>>

Stays(e) == end[e].p.st \in {"FIN_WAIT_2", "SYN_RCVD", "LAST_ACK", "TIME_WAIT"}

\* TIME-WAIT and the like end; no segment lives that long.
TooLong(e) ==
    /\ Stays(e) /\ \A x \in Ends : chan[x] = <<>>
    /\ IF end[e].p.st \in {"SYN_RCVD", "LAST_ACK"} THEN Fault ELSE Early
    /\ Commit(e, tcp_slowtmr(end[e], FALSE, TRUE, FALSE), chan)
    /\ UNCHANGED <<scen, app>>

AppStep(e) == \/ Connect(e) \/ AcceptConn(e) \/ Write(e) \/ Ask(e) \/ ReadFails(e)
              \/ Fetch(e) \/ Recved(e) \/ Close(e) \/ Return(e)

TimerStep(e) == FastTimer(e) \/ SlowTimer(e) \/ PollTimer(e) \/ GiveUp(e) \/ TooLong(e)

Next ==
    \E e \in Ends :
        \/ AppStep(e) \/ TimerStep(e) \/ Restart(e)
        \/ Deliver(e) \/ Overtake(e) \/ Lose(e) \/ Duplicate(e)

Spec == Init /\ [][Next]_vars

\* No step is left but those that count as a fault.
Still == Quiet /\ \A e \in Ends :
    ~ (Expires(e) \/ Tired(e) \/ end[e].p.st \in {"FIN_WAIT_2", "TIME_WAIT"})

\* As long as a segment is on its way or a timer runs, some step of Next is
\* taken: the network loses and delays no more than the faults say, and
\* tcpip_thread calls tcp_tmr every 250 ms.  A thread that can go on does so
\* in the end, whatever tcpip_thread has to do meanwhile.
Fairness ==
    /\ []<>Still \/ []<><<TRUE>>_vars
    /\ \A e \in Ends : []<>Blocked(e) \/ []<><<app'[e] # app[e]>>_vars

FairSpec == Spec /\ Fairness

(***************************************************************************)
(* Properties.                                                             *)
(***************************************************************************)

\* The states in which both sides know each other's numbers.
Synced(e) == end[e].p.st \in {"ESTABLISHED", "CLOSE_WAIT", "FIN_WAIT_1", "FIN_WAIT_2",
                              "CLOSING", "LAST_ACK"}

\* TCP gave the connection up or had a reset (err_tcp).
Broken(e) == end[e].err \notin {"OK", "CLSD"}

ToServer == INSTANCE ByteStream WITH
    sent <- app["station"].sent, done <- app["station"].closed,
    got <- app["server"].got, ended <- app["server"].ended, broken <- Broken("server")

ToStation == INSTANCE ByteStream WITH
    sent <- app["server"].sent, done <- app["server"].closed,
    got <- app["station"].got, ended <- app["station"].ended, broken <- Broken("station")

\* Each direction of the connection is a byte stream: what one application
\* reads is what the other wrote, whatever is lost, repeated or overtaken,
\* and as long as the connection is not broken the end comes last
\* (tcp_receive, tcp_output, recv_tcp).
BothAreStreams == ToServer!Spec /\ ToStation!Spec

Queued(p) == Range(p.unacked) \cup Range(p.unsent)

\* The FIN was put on a data segment, which snd_lbb does not count.
FinRides(p) == \E s \in Queued(p) : "FIN" \in s.flags /\ s.data # <<>>

QueueEnd(p) == Add(p.snd_lbb, IF FinRides(p) THEN 1 ELSE 0)

Ordered(q) == \A i \in 1 .. Len(q) - 1 : TCP_SEQ_LT(q[i].seq, q[i + 1].seq)

\* Between them the two queues hold every sequence number from lastack to
\* snd_lbb, in order, through every retransmission (tcp_rexmit,
\* tcp_rexmit_rto, tcp_output): nothing that was written can get lost.
QueuesHoldTheRest ==
    \A e \in Ends : Synced(e) =>
        LET p == end[e].p
            q == Queued(p)
        IN /\ Ordered(p.unacked) /\ Ordered(p.unsent)
           /\ \A s \in q : SeqEnd(s) = QueueEnd(p) \/ \E t \in q : t.seq = SeqEnd(s)
           /\ q = {} => p.lastack \in {p.snd_lbb, Add(p.snd_lbb, 1)}
           /\ q # {} => \E s \in q : /\ TCP_SEQ_LEQ(s.seq, p.lastack)
                                     /\ TCP_SEQ_LT(p.lastack, SeqEnd(s))

Unread(e) ==
    Len(end[e].p.refused) + FoldLeft(LAMBDA n, m : n + Len(m), 0, end[e].mbox)

\* No room is lost or won over a connection's life, or a writer or a reader
\* would starve or overrun: snd_buf and snd_queuelen agree with the queues,
\* and rcv_wnd and what the application has not taken make up TCP_WND
\* (tcp_write, tcp_receive, tcp_recved).
RoomAccounts ==
    \A e \in Ends : Synced(e) =>
        LET p == end[e].p
            due == IF app[e].ended THEN 0 ELSE app[e].due
        IN /\ p.qlen = Pbufs(p.unacked) + Pbufs(p.unsent)
           /\ \/ p.snd_buf = TCP_SND_BUF - Diff(p.snd_lbb, p.lastack)
              \/ p.lastack = Add(p.snd_lbb, 1) /\ p.snd_buf = TCP_SND_BUF + 1
           /\ end[e].live /\ end[e].open => p.rcv_wnd + Unread(e) + due = TCP_WND

\* The sequence number of the first unit either side sends.
FirstSeq == SeqSpace - 2

\* What a receiver has acknowledged, its application has read or will find:
\* in the mailbox, or refused by a full one and kept in the block (recv_tcp,
\* tcp_input, tcp_fasttmr).  The sender has forgotten it.
AckedIsKept ==
    \A e \in Ends : Synced(e) /\ end[e].open /\ Synced(Other(e)) =>
        Min({Diff(end[Other(e)].p.lastack, FirstSeq), app[Other(e)].sent})
            <= Len(app[e].got) + Unread(e)

\* A right edge of the window that was announced is never taken back
\* (tcp_update_rcv_ann_wnd), for the other side may have sent up to it.
EdgeHolds ==
    [][\A e \in Ends : Synced(e) /\ Synced(e)' =>
          TCP_SEQ_GEQ(end[e].p.ann_edge', end[e].p.ann_edge)]_vars

\* No request waits for ever: a connect, a write or a close returns in the
\* end, with the data taken or an error, through every loss, closed window,
\* full queue and full mailbox.
CallsReturn == \A e \in Ends : app[e].wait ~> ~ app[e].wait

Alive == \A e \in Ends : end[e].err = "OK" /\ ~ app[e].closed

\* What was written is read in the end unless the connection breaks or one
\* side closes it: no state of windows, Nagle's algorithm, delayed ACKs and
\* refused data leaves units behind with nothing to move them.
AllArrives ==
    <>[](Alive => \A e \in Ends :
            \/ Len(app[Other(e)].got) = app[e].sent
            \/ ~ Reading(Other(e)))

\* The end of the stream is not lost on its way to the reader: "it is
\* presented to us later again from tcp_fasttmr!" (recv_tcp).
EndIsKept ==
    \A e \in Ends :
        end[e].live /\ end[e].open /\ end[e].p.st = "CLOSE_WAIT" /\ ~ app[e].ended =>
            \E i \in 1 .. Len(end[e].mbox) : end[e].mbox[i] = <<>>
=============================================================================
