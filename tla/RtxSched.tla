------------------------------ MODULE RtxSched ------------------------------
(***************************************************************************)
(* The scheduler of the RTX kernel (mbed-rtos/rtx: rt_List.c, rt_Task.c,   *)
(* rt_Time.c, rt_Robin.c).  Kernel functions run in SVC, SysTick or PendSV *)
(* handlers, which do not preempt each other, and call one another; each   *)
(* is an operator from the kernel's state k to its state afterwards.       *)
(*                                                                         *)
(* A chained list of task control blocks is a sequence of tasks.  The      *)
(* delay list is a sequence of entries [t, d], d being the ticks that pass *)
(* between the entry before and this one; the code keeps d in the entry    *)
(* before.                                                                 *)
(***************************************************************************)
EXTENDS Integers, Sequences, SequencesExt, FiniteSetsExt

CONSTANTS
    Tasks,      \* the threads of the program
    Idle,       \* os_idle_TCB, priority 0, never blocks
    NoTask,     \* NULL
    Forever,    \* a timeout of 0xffff
    RobinTime   \* os_robin.tout, OS_ROBINTOUT

TCBs == Tasks \cup {Idle}

Waits == {"WAIT_DLY", "WAIT_SEM", "WAIT_MUT", "WAIT_MBX", "WAIT_AND", "WAIT_OR"}

States == Waits \cup {"INACTIVE", "READY", "RUNNING"}

\* Position of a new entry in list q, behind the entries that test accepts.
Place(q, test(_)) ==
    Max({i \in 0 .. Len(q) : \A j \in 1 .. i : test(j)}) + 1

\* List q ordered by priority, with task t behind those of its priority.
rt_put_prio(k, q, t) ==
    InsertAt(q, Place(q, LAMBDA j : k.prio[q[j]] >= k.prio[t]), t)

rt_put_rdy_first(k, t) == [k EXCEPT !.rdy = <<t>> \o @, !.st[t] = "READY"]

\* A task that was taken off its list becomes ready.
MakeReady(k, t) ==
    [k EXCEPT !.rdy = rt_put_prio(k, @, t), !.st[t] = "READY"]

\* rt_get_first on the ready list and rt_switch_req.
SwitchToFirst(k) ==
    [k EXCEPT !.rdy = Tail(@), !.run = Head(k.rdy), !.st[Head(k.rdy)] = "RUNNING"]

rt_rdy_prio(k) == k.prio[Head(k.rdy)]

\* The running task goes back to the ready list when a better one is there.
YieldToHigher(k) ==
    IF k.rdy # <<>> /\ rt_rdy_prio(k) > k.prio[k.run]
    THEN SwitchToFirst(MakeReady(k, k.run))
    ELSE k

\* Mutant: a woken task never preempts.
DispatchLater(k, t) == MakeReady(k, t)

\* A task leaves its wait: it preempts the running task or becomes ready.
rt_dispatch(k, t) ==
    IF k.prio[t] > k.prio[k.run]
    THEN [rt_put_rdy_first(k, k.run) EXCEPT !.run = t, !.st[t] = "RUNNING"]
    ELSE MakeReady(k, t)

\* Ticks until entry i of delay list q is due.
DueAt(q, i) ==
    LET sum[n \in 0 .. Len(q)] == IF n = 0 THEN 0 ELSE sum[n - 1] + q[n].d
    IN  sum[i]

\* Task t enters the delay list before the first entry due no earlier.
rt_put_dly(k, t, delay) ==
    LET q == k.dly
        i == Place(q, LAMBDA j : DueAt(q, j) < delay)
        d == delay - DueAt(q, i - 1)
        r == IF i > Len(q) THEN q ELSE [q EXCEPT ![i].d = @ - d]
    IN  [k EXCEPT !.dly = InsertAt(r, i, [t |-> t, d |-> d])]

\* Mutant: the ticks of the removed entry are not added to the next one.
RemoveDelayOnly(k, t) ==
    [k EXCEPT !.dly = SelectSeq(@, LAMBDA e : e.t # t)]

\* Task t leaves the delay list, if it is in it.
rt_rmv_dly(k, t) ==
    LET q == k.dly
        i == SelectInSeq(q, LAMBDA e : e.t = t)
        r == IF i = Len(q) THEN q ELSE [q EXCEPT ![i + 1].d = @ + q[i].d]
    IN  IF i = 0 THEN k ELSE [k EXCEPT !.dly = RemoveAt(r, i)]

\* Task t leaves the ready list or the list of the object it waits for.
rt_rmv_list(k, t) ==
    [k EXCEPT !.rdy = RemoveFirst(@, t), !.wait = [o \in DOMAIN @ |-> RemoveFirst(@[o], t)]]

\* Task t changed its priority: its list is put in order again.
rt_resort_prio(k, t) ==
    LET r == rt_rmv_list(k, t)
        in == {o \in DOMAIN k.wait : Contains(k.wait[o], t)}
    IN  CASE in # {} -> [r EXCEPT !.wait = [o \in DOMAIN @ |->
                            IF o \in in THEN rt_put_prio(k, @[o], t) ELSE @[o]]]
          [] in = {} /\ k.st[t] = "READY" -> [r EXCEPT !.rdy = rt_put_prio(k, @, t)]
          [] OTHER -> k

\* Mutant: a task that is due stays in the list of the object it waits for.
WakeInPlace(k) ==
    LET q == [k.dly EXCEPT ![1].d = @ - 1]
        n == Place(q, LAMBDA j : DueAt(q, j) = 0) - 1
        rest == [k EXCEPT !.dly = SubSeq(q, n + 1, Len(q))]
        woken[i \in 0 .. n] == IF i = 0 THEN rest ELSE MakeReady(woken[i - 1], q[i].t)
    IN  IF k.dly = <<>> THEN k ELSE woken[n]

\* One tick for the delay list.  Every task that is due leaves the list of
\* the object it waits for and becomes ready, in the order of the list.
rt_dec_dly(k) ==
    LET q == [k.dly EXCEPT ![1].d = @ - 1]
        n == Place(q, LAMBDA j : DueAt(q, j) = 0) - 1
        rest == [k EXCEPT !.dly = SubSeq(q, n + 1, Len(q))]
        woken[i \in 0 .. n] ==
            IF i = 0 THEN rest ELSE MakeReady(rt_rmv_list(woken[i - 1], q[i].t), q[i].t)
    IN  IF k.dly = <<>> THEN k ELSE woken[n]

\* Mutant: a timeout starts but the task does not enter the delay list.
BlockForever(k, timeout, state) ==
    IF timeout = 0 THEN k ELSE SwitchToFirst([k EXCEPT !.st[k.run] = state])

\* The running task blocks, with or without a time limit.
rt_block(k, timeout, state) ==
    LET timed == IF timeout = Forever THEN k ELSE rt_put_dly(k, k.run, timeout)
    IN  IF timeout = 0 THEN k ELSE SwitchToFirst([timed EXCEPT !.st[k.run] = state])

\* The running task joins the list of object o and blocks.
BlockOn(k, o, timeout, state) ==
    rt_block([k EXCEPT !.wait[o] = rt_put_prio(k, @, k.run)], timeout, state)

\* The first task that waits for object o.
rt_get_first(k, o) == Head(k.wait[o])

\* That task taken off the list of o and off the delay list.
Unchain(k, o) == rt_rmv_dly([k EXCEPT !.wait[o] = Tail(@)], rt_get_first(k, o))

\* Every task that waits for o becomes ready (an object is deleted).
WakeAll(k, o) ==
    LET q == k.wait[o]
        woken[i \in 0 .. Len(q)] ==
            IF i = 0 THEN [k EXCEPT !.wait[o] = <<>>]
            ELSE MakeReady(rt_rmv_dly(woken[i - 1], q[i]), q[i])
    IN  woken[Len(q)]

rt_tsk_pass(k) ==
    IF rt_rdy_prio(k) = k.prio[k.run]
    THEN SwitchToFirst([k EXCEPT !.rdy = <<Head(@)>> \o rt_put_prio(k, Tail(@), k.run),
                                 !.st[k.run] = "READY"])
    ELSE k

\* The priority of task t becomes p.
rt_tsk_prio(k, t, p) ==
    LET r == [k EXCEPT !.prio[t] = p]
        s == rt_resort_prio(r, t)
    IN  CASE t = k.run -> YieldToHigher(r)
          [] t # k.run /\ t \notin k.active -> k
          [] t # k.run /\ t \in k.active /\ k.st[t] # "READY" -> s
          [] OTHER -> rt_dispatch([s EXCEPT !.rdy = Tail(@)], Head(s.rdy))

\* A thread ends itself, or ends another one, whose control block keeps the
\* state it had.
rt_tsk_delete(k, t) ==
    LET r == [k EXCEPT !.active = @ \ {t}]
    IN  CASE t = k.run -> SwitchToFirst([r EXCEPT !.st[t] = "INACTIVE"])
          [] t # k.run /\ t \notin k.active -> k
          [] OTHER -> rt_rmv_dly(rt_rmv_list(r, t), t)

\* rt_init_context and rt_dispatch for a new thread.
rt_tsk_create(k, t, p) ==
    rt_dispatch([k EXCEPT !.active = @ \cup {t}, !.prio[t] = p, !.events[t] = {},
                          !.waits[t] = {}], t)

\* Mutant: the slice is counted again from the start at every tick.
RobinRestarts(k) == [k EXCEPT !.robin = [task |-> Head(k.rdy), left |-> RobinTime]]

\* A task that ran for RobinTime ticks goes behind those of its priority.
\* left is os_robin.time - os_time.
rt_chk_robin(k) ==
    LET same == k.robin.task = Head(k.rdy)
        left == IF same THEN k.robin.left ELSE RobinTime - 1
        t == Head(k.rdy)
    IN  IF left = 0
        THEN [k EXCEPT !.robin = [task |-> NoTask, left |-> 0],
                       !.rdy = rt_put_prio(k, Tail(@), t)]
        ELSE [k EXCEPT !.robin = [task |-> t, left |-> left - 1]]

\* The tick interrupt, without the user timers.
rt_systick(k) ==
    SwitchToFirst(rt_dec_dly(rt_chk_robin(rt_put_rdy_first(k, k.run))))
=============================================================================
