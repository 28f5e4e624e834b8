----------------------------- MODULE RtxKernel ------------------------------
(***************************************************************************)
(* The synchronisation objects of the RTX kernel and its interrupts        *)
(* (rt_Semaphore.c, rt_Mutex.c, rt_Mailbox.c, rt_Event.c, rt_System.c) as  *)
(* the service calls of rt_CMSIS.c use them.  Threads are arbitrary        *)
(* programs: the running one may make any call its program uses.           *)
(*                                                                         *)
(* An interrupt handler does not touch the lists: it puts a request in     *)
(* os_psq and PendSV serves the requests (rt_pop_req) before any thread    *)
(* runs on.  It may interrupt a service call, so one call can take effect  *)
(* between the request and PendSV.                                         *)
(***************************************************************************)
EXTENDS RtxSched, FiniteSets

CONSTANTS
    Sems, Mutexes, Queue,   \* the objects
    Timers, Periodic,       \* user timers, and those of type osTimerPeriodic
    Flags,                  \* signal flags of a thread
    Msgs,                   \* messages of threads and interrupts
    Isrs,                   \* the interrupt handlers of the program
    Programs,               \* what threads and handlers may be programmed to do:
                            \* functions to the objects and services they use
    Base,                   \* per thread: the priority it is created with
    Mortal,                 \* threads that others may terminate
    Prios,                  \* priorities given by svcThreadSetPriority
    Timeouts,               \* timeouts in ticks of the calls
    TokenMax,               \* osFeature_Semaphore, 65535
    MaxLevel,               \* bound: nested locks of one mutex
    MbxSize,                \* entries of the message queue
    FifoSize                \* os_fifo_size, OS_FIFOSZ

Objects == Sems \cup Mutexes \cup {Queue}

Messages == Msgs \cup Timers

\* A thread that others may terminate locks no mutex and is not signalled by
\* an interrupt: rt_tsk_delete leaves both to find it (see the README).
ASSUME RtxAssumption ==
    /\ IsFiniteSet(Tasks) /\ Tasks # {} /\ Idle \notin Tasks /\ NoTask \notin TCBs
    /\ Sems \cap Mutexes = {} /\ Queue \notin Sems \cup Mutexes /\ TCBs \cap Objects = {}
    /\ Timers \cap Objects = {}
    /\ Base \in [Tasks -> Nat] /\ Prios \subseteq Nat /\ Mortal \subseteq Tasks
    /\ Forever \in Nat /\ Timeouts \subseteq 0 .. Forever /\ RobinTime \in Nat \ {0}
    /\ {TokenMax, MaxLevel, FifoSize} \subseteq Nat /\ MbxSize \in Nat \ {0}
    /\ \A p \in Programs : (\E t \in Tasks : "end" \in p[t]) =>
           \A t \in Mortal : p[t] \cap Mutexes = {} /\ ("set" \in p[Isrs] => "wait" \notin p[t])

VARIABLES
    uses,   \* the program
    k,      \* the kernel
    late,   \* a call took effect since the first request in k.psq
    due,    \* ticks until the timeout of a waiting thread (not in the code)
    left    \* ticks until a running timer expires (not in the code)

vars == <<uses, k, late, due, left>>

\* Threads that ever wait for signals.
Receivers == {t \in Tasks : "wait" \in uses[t]}

\* The threads by priority; those of the same priority in the order in which
\* they were created.
Orders ==
    {q \in Bijection(1 .. Cardinality(Tasks), Tasks) :
        \A i, j \in 1 .. Cardinality(Tasks) : i <= j => Base[q[i]] >= Base[q[j]]}

\* rt_sys_init and the creation of the threads and the objects.
Start(order) ==
        [run |-> Head(order), rdy |-> Tail(order) \o <<Idle>>, dly |-> <<>>,
         st |-> [t \in TCBs |-> IF t = Head(order) THEN "RUNNING" ELSE "READY"],
         prio |-> [t \in TCBs |-> IF t = Idle THEN 0 ELSE Base[t]],
         active |-> Tasks, wait |-> [o \in Objects |-> <<>>],
         live |-> Objects \cup Timers, tokens |-> [s \in Sems |-> 0],
         mut |-> [m \in Mutexes |-> [level |-> 0, owner |-> NoTask, prio |-> 0]],
         mbx |-> [state |-> 0, first |-> 0, last |-> 0, count |-> 0,
                  msg |-> [i \in 0 .. MbxSize - 1 |-> NoTask]],
         events |-> [t \in TCBs |-> {}], waits |-> [t \in TCBs |-> {}],
         msg |-> [t \in TCBs |-> NoTask], robin |-> [task |-> NoTask, left |-> 0],
         tmr |-> <<>>, psq |-> <<>>, fault |-> FALSE]

Init ==
    /\ uses \in Programs
    /\ \E order \in Orders : k = Start(order)
    /\ late = FALSE
    /\ due = [t \in Tasks |-> Forever]
    /\ left = [x \in Timers |-> 0]

-----------------------------------------------------------------------------
(***************************************************************************)
(* Semaphores.                                                             *)
(***************************************************************************)

StoreToken(s, o) == [s EXCEPT !.tokens[o] = (@ + 1) % (TokenMax + 1)]

rt_sem_send(s, o) ==
    IF s.wait[o] # <<>>
    THEN rt_dispatch(Unchain(s, o), rt_get_first(s, o))
    ELSE StoreToken(s, o)

rt_sem_wait(s, o, timeout) ==
    CASE s.tokens[o] > 0 -> [s EXCEPT !.tokens[o] = @ - 1]
      [] s.tokens[o] = 0 /\ timeout = 0 -> s
      [] OTHER -> BlockOn(s, o, timeout, "WAIT_SEM")

rt_sem_psh(s, o) ==
    IF s.wait[o] # <<>>
    THEN MakeReady(Unchain(s, o), rt_get_first(s, o))
    ELSE StoreToken(s, o)

rt_sem_delete(s, o) == [YieldToHigher(WakeAll(s, o)) EXCEPT !.live = @ \ {o}]

rt_sem_init(s, o) == [s EXCEPT !.live = @ \cup {o}, !.tokens[o] = 0]

(***************************************************************************)
(* Mutexes.  mut[m].prio is the priority the owner goes back to.           *)
(***************************************************************************)
Owns(s, t, m) == s.mut[m].level > 0 /\ s.mut[m].owner = t

rt_mut_wait(s, m, timeout) ==
    LET o == s.mut[m].owner
        raised == IF s.mut[m].prio < s.prio[s.run]
                  THEN rt_resort_prio([s EXCEPT !.prio[o] = s.prio[s.run]], o)
                  ELSE s
    IN  CASE s.mut[m].level = 0 ->
                [s EXCEPT !.mut[m] = [level |-> 1, owner |-> s.run, prio |-> s.prio[s.run]]]
          [] Owns(s, s.run, m) -> [s EXCEPT !.mut[m].level = @ + 1]
          [] ~Owns(s, s.run, m) /\ s.mut[m].level > 0 /\ timeout = 0 -> s
          [] OTHER -> BlockOn(raised, m, timeout, "WAIT_MUT")

\* The last release gives the owner its priority back and the mutex to the
\* first thread that waits for it.
rt_mut_release(s, m) ==
    LET r == [s EXCEPT !.prio[s.run] = s.mut[m].prio]
        t == rt_get_first(s, m)
        given == [Unchain(r, m) EXCEPT
                    !.mut[m] = [level |-> 1, owner |-> t, prio |-> s.prio[t]]]
    IN  CASE ~Owns(s, s.run, m) -> s
          [] Owns(s, s.run, m) /\ s.mut[m].level > 1 -> [s EXCEPT !.mut[m].level = @ - 1]
          [] Owns(s, s.run, m) /\ s.mut[m].level = 1 /\ s.wait[m] = <<>> ->
                YieldToHigher([r EXCEPT !.mut[m].level = 0])
          [] OTHER ->
                IF r.prio[s.run] >= rt_rdy_prio(r)
                THEN rt_dispatch(given, t)
                ELSE SwitchToFirst(MakeReady(MakeReady(given, s.run), t))

rt_mut_delete(s, m) ==
    LET o == s.mut[m].owner
        r == [s EXCEPT !.prio[o] = s.mut[m].prio]
        restored == CASE s.mut[m].level = 0 -> s
                      [] s.mut[m].level > 0 /\ o = s.run -> r
                      [] OTHER -> rt_resort_prio(r, o)
    IN  [YieldToHigher(WakeAll(restored, m)) EXCEPT !.live = @ \ {m}]

rt_mut_init(s, m) ==
    [s EXCEPT !.live = @ \cup {m}, !.mut[m] = [level |-> 0, owner |-> NoTask, prio |-> 0]]

(***************************************************************************)
(* The message queue: a ring of MbxSize entries and one list of threads,   *)
(* which wait to receive (state 1) or to send (state 2).                   *)
(***************************************************************************)
Advance(i) == IF i + 1 = MbxSize THEN 0 ELSE i + 1

Store(s, x) ==
    [s EXCEPT !.mbx.msg[s.mbx.first] = x, !.mbx.first = Advance(@), !.mbx.count = @ + 1]

\* The running thread waits; the list changes its meaning when it was empty.
MbxBlock(s, state, timeout) ==
    BlockOn([s EXCEPT !.mbx.state = IF s.wait[Queue] = <<>> THEN state ELSE @],
            Queue, timeout, "WAIT_MBX")

rt_mbx_send(s, x, timeout) ==
    CASE s.wait[Queue] # <<>> /\ s.mbx.state = 1 ->
            rt_dispatch(Unchain(s, Queue), rt_get_first(s, Queue))
      [] ~(s.wait[Queue] # <<>> /\ s.mbx.state = 1) /\ s.mbx.count < MbxSize -> Store(s, x)
      [] ~(s.wait[Queue] # <<>> /\ s.mbx.state = 1) /\ s.mbx.count = MbxSize /\ timeout = 0 -> s
      [] OTHER -> MbxBlock([s EXCEPT !.msg[s.run] = x], 2, timeout)

\* Mutant: the message of a waiting sender is put where the oldest one was.
WaitInPlace(s, timeout) ==
    LET taken == [s EXCEPT !.mbx.last = Advance(@), !.mbx.count = @ - 1]
        t == rt_get_first(s, Queue)
    IN  CASE s.mbx.count > 0 /\ s.wait[Queue] # <<>> /\ s.mbx.state = 2 ->
                rt_dispatch(Unchain([s EXCEPT !.mbx.msg[s.mbx.last] = s.msg[t]], Queue), t)
          [] s.mbx.count > 0 /\ ~(s.wait[Queue] # <<>> /\ s.mbx.state = 2) -> taken
          [] s.mbx.count = 0 /\ timeout = 0 -> s
          [] OTHER -> MbxBlock(s, 1, timeout)

\* Mutant: the sender is not woken when an entry becomes free.
WaitLeavesSender(s, timeout) ==
    CASE s.mbx.count > 0 -> [s EXCEPT !.mbx.last = Advance(@), !.mbx.count = @ - 1]
      [] s.mbx.count = 0 /\ timeout = 0 -> s
      [] OTHER -> MbxBlock(s, 1, timeout)

rt_mbx_wait(s, timeout) ==
    LET taken == [s EXCEPT !.mbx.last = Advance(@), !.mbx.count = @ - 1]
        t == rt_get_first(s, Queue)
    IN  CASE s.mbx.count > 0 /\ s.wait[Queue] # <<>> /\ s.mbx.state = 2 ->
                rt_dispatch(Unchain(Store(taken, s.msg[t]), Queue), t)
          [] s.mbx.count > 0 /\ ~(s.wait[Queue] # <<>> /\ s.mbx.state = 2) -> taken
          [] s.mbx.count = 0 /\ timeout = 0 -> s
          [] OTHER -> MbxBlock(s, 1, timeout)

rt_mbx_psh(s, x) ==
    LET t == rt_get_first(s, Queue)
    IN  CASE s.wait[Queue] # <<>> /\ s.mbx.state = 1 -> MakeReady(Unchain(s, Queue), t)
          [] s.wait[Queue] # <<>> /\ s.mbx.state = 2 ->
                MakeReady(Unchain(Store(s, s.msg[t]), Queue), t)
          [] s.wait[Queue] = <<>> /\ s.mbx.count < MbxSize -> Store(s, x)
          [] OTHER -> [s EXCEPT !.fault = TRUE]

(***************************************************************************)
(* Signal flags of a thread.                                               *)
(***************************************************************************)
rt_evt_wait(s, flags, timeout, and) ==
    LET t == s.run
        there == IF and THEN flags \subseteq s.events[t] ELSE flags \cap s.events[t] # {}
    IN  IF there
        THEN [s EXCEPT !.events[t] = @ \ flags,
                       !.waits[t] = IF and THEN @ ELSE s.events[t] \cap flags]
        ELSE rt_block([s EXCEPT !.waits[t] = flags], timeout,
                      IF and THEN "WAIT_AND" ELSE "WAIT_OR")

\* The flags are set; wake is what becomes of a thread that waited for them.
SetFlags(s, t, flags, wake(_, _)) ==
    LET r == [s EXCEPT !.events[t] = @ \cup flags]
        met == \/ s.st[t] = "WAIT_AND" /\ s.waits[t] \subseteq r.events[t]
               \/ s.st[t] = "WAIT_OR" /\ s.waits[t] \cap r.events[t] # {}
        took == [r EXCEPT !.events[t] = @ \ s.waits[t],
                          !.waits[t] = IF s.st[t] = "WAIT_OR" THEN @ \cap r.events[t] ELSE @]
    IN  IF met THEN wake(rt_rmv_dly(took, t), t) ELSE r

rt_evt_set(s, t, flags) ==
    IF t \in s.active THEN SetFlags(s, t, flags, rt_dispatch) ELSE s

rt_evt_psh(s, t, flags) == SetFlags(s, t, flags, MakeReady)

rt_evt_clr(s, t, flags) ==
    IF t \in s.active THEN [s EXCEPT !.events[t] = @ \ flags] ELSE s

-----------------------------------------------------------------------------
(***************************************************************************)
(* Requests of interrupt handlers, and PendSV, which serves them.          *)
(***************************************************************************)
rt_psq_enq(s, id, arg) ==
    IF Len(s.psq) < FifoSize
    THEN [s EXCEPT !.psq = Append(@, [id |-> id, arg |-> arg])]
    ELSE [s EXCEPT !.fault = TRUE]

isrMessagePut(s, x) == IF s.mbx.count = MbxSize THEN s ELSE rt_psq_enq(s, Queue, x)

rt_pop_req(s) ==
    LET serve(r, e) == CASE e.id \in TCBs -> rt_evt_psh(r, e.id, e.arg)
                         [] e.id = Queue -> rt_mbx_psh(r, e.arg)
                         [] OTHER -> rt_sem_psh(r, e.id)
        served[i \in 0 .. Len(s.psq)] ==
            IF i = 0 THEN rt_put_rdy_first(s, s.run) ELSE serve(served[i - 1], s.psq[i])
    IN  SwitchToFirst([served[Len(s.psq)] EXCEPT !.psq = <<>>])

(***************************************************************************)
(* User timers: a list of entries [x, d] of the same kind as the delay     *)
(* list, each with its period.                                             *)
(***************************************************************************)
rt_timer_insert(q, x, tcnt, icnt) ==
    LET i == Place(q, LAMBDA j : DueAt(q, j) <= tcnt)
        d == tcnt - DueAt(q, i - 1)
        r == IF i > Len(q) THEN q ELSE [q EXCEPT ![i].d = @ - d]
    IN  InsertAt(r, i, [x |-> x, d |-> d, icnt |-> icnt])

rt_timer_remove(q, x) ==
    LET i == SelectInSeq(q, LAMBDA e : e.x = x)
        r == IF i = Len(q) THEN q ELSE [q EXCEPT ![i + 1].d = @ + q[i].d]
    IN  RemoveAt(r, i)

Running(s, x) == \E i \in 1 .. Len(s.tmr) : s.tmr[i].x = x

\* Mutant: a periodic timer is put back before the others are looked at.
TimerTickTwice(s) ==
    IF s.tmr = <<>> THEN s
    ELSE LET e == Head(s.tmr)
             q == [s.tmr EXCEPT ![1].d = @ - 1]
         IN  IF q[1].d = 0
             THEN [isrMessagePut(s, e.x) EXCEPT !.tmr = rt_timer_insert(Tail(q), e.x, e.icnt, e.icnt)]
             ELSE [s EXCEPT !.tmr = q]

\* Every timer that is due sends its message to the timer thread's queue,
\* if there is room; a periodic one starts again.
sysTimerTick(s) ==
    LET q == [s.tmr EXCEPT ![1].d = @ - 1]
        n == Place(q, LAMBDA j : DueAt(q, j) = 0) - 1
        expire(r, e) ==
            [isrMessagePut(r, e.x) EXCEPT !.tmr =
                IF e.x \in Periodic THEN rt_timer_insert(Tail(@), e.x, e.icnt, e.icnt)
                                    ELSE Tail(@)]
        expired[i \in 0 .. n] ==
            IF i = 0 THEN [s EXCEPT !.tmr = q] ELSE expire(expired[i - 1], q[i])
    IN  IF s.tmr = <<>> THEN s ELSE expired[n]

-----------------------------------------------------------------------------
(***************************************************************************)
(* Service calls of the running thread.                                    *)
(***************************************************************************)

\* The threads that wait keep their time; the caller's starts if it waits.
Waiting(s, t) == t \in s.active /\ s.st[t] \in Waits

\* A service call that uses o and leaves the kernel in state new.
Svc(o, new, timeout) ==
    /\ ~k.fault
    /\ k.run \in Tasks
    /\ o \in uses[k.run]
    /\ k.psq = <<>> \/ ~late
    /\ k' = new
    /\ late' = (k.psq # <<>>)
    /\ UNCHANGED uses
    /\ due' = [t \in Tasks |-> CASE ~Waiting(new, t) -> Forever
                                [] Waiting(new, t) /\ t = k.run -> timeout
                                [] OTHER -> due[t]]

SemaphoreWait(s, timeout) ==
    s \in k.live /\ Svc(s, rt_sem_wait(k, s, timeout), timeout) /\ UNCHANGED left

SemaphoreRelease(s) ==
    /\ s \in k.live
    /\ k.tokens[s] # TokenMax
    /\ Svc(s, rt_sem_send(k, s), Forever)
    /\ UNCHANGED left

SemaphoreDelete(s) == s \in k.live /\ Svc(s, rt_sem_delete(k, s), Forever) /\ UNCHANGED left

SemaphoreCreate(s) == s \notin k.live /\ Svc(s, rt_sem_init(k, s), Forever) /\ UNCHANGED left

MutexWait(m, timeout) ==
    /\ m \in k.live
    /\ Owns(k, k.run, m) => k.mut[m].level < MaxLevel
    /\ Svc(m, rt_mut_wait(k, m, timeout), timeout)
    /\ UNCHANGED left

MutexRelease(m) == m \in k.live /\ Svc(m, rt_mut_release(k, m), Forever) /\ UNCHANGED left

MutexDelete(m) == m \in k.live /\ Svc(m, rt_mut_delete(k, m), Forever) /\ UNCHANGED left

MutexCreate(m) == m \notin k.live /\ Svc(m, rt_mut_init(k, m), Forever) /\ UNCHANGED left

MessagePut(x, timeout) == Svc("put", rt_mbx_send(k, x, timeout), timeout) /\ UNCHANGED left

MessageGet(timeout) == Svc("get", rt_mbx_wait(k, timeout), timeout) /\ UNCHANGED left

\* Zero flags means any flag.
SignalWait(flags, timeout) ==
    /\ Svc("wait", rt_evt_wait(k, IF flags = {} THEN Flags ELSE flags, timeout, flags # {}),
           timeout)
    /\ UNCHANGED left

SignalSet(t, flags) == Svc("set", rt_evt_set(k, t, flags), Forever) /\ UNCHANGED left

SignalClear(t, flags) == Svc("set", rt_evt_clr(k, t, flags), Forever) /\ UNCHANGED left

Delay(timeout) ==
    timeout # 0 /\ Svc("delay", rt_block(k, timeout, "WAIT_DLY"), timeout) /\ UNCHANGED left

ThreadYield == Svc("yield", rt_tsk_pass(k), Forever) /\ UNCHANGED left

ThreadSetPriority(t, p) == Svc("prio", rt_tsk_prio(k, t, p), Forever) /\ UNCHANGED left

ThreadTerminate(t) == Svc("end", rt_tsk_delete(k, t), Forever) /\ UNCHANGED left

ThreadCreate(t) ==
    t \notin k.active /\ Svc("begin", rt_tsk_create(k, t, Base[t]), Forever) /\ UNCHANGED left

\* A timer that runs is started anew and keeps the period it had.
TimerStart(x, tcnt) ==
    LET i == SelectInSeq(k.tmr, LAMBDA e : e.x = x)
        q == IF i = 0 THEN rt_timer_insert(k.tmr, x, tcnt, tcnt)
             ELSE rt_timer_insert(rt_timer_remove(k.tmr, x), x, tcnt, k.tmr[i].icnt)
    IN  /\ x \in k.live
        /\ tcnt > 0
        /\ Svc(x, [k EXCEPT !.tmr = q], Forever)
        /\ left' = [left EXCEPT ![x] = tcnt]

TimerStop(x) ==
    /\ Running(k, x)
    /\ Svc(x, [k EXCEPT !.tmr = rt_timer_remove(@, x)], Forever)
    /\ left' = [left EXCEPT ![x] = 0]

TimerDelete(x) ==
    /\ x \in k.live
    /\ Svc(x, [k EXCEPT !.live = @ \ {x},
                        !.tmr = IF Running(k, x) THEN rt_timer_remove(@, x) ELSE @], Forever)
    /\ left' = [left EXCEPT ![x] = 0]

TimerCreate(x) ==
    x \notin k.live /\ Svc(x, [k EXCEPT !.live = @ \cup {x}], Forever) /\ UNCHANGED left

-----------------------------------------------------------------------------
(***************************************************************************)
(* Interrupts.                                                             *)
(***************************************************************************)
Isr(new) == ~k.fault /\ k' = new /\ UNCHANGED <<uses, late, due, left>>

IsrSemaphoreRelease(s) ==
    s \in uses[Isrs] /\ s \in k.live /\ k.tokens[s] # TokenMax /\ Isr(rt_psq_enq(k, s, 0))

IsrSignalSet(t, flags) == "set" \in uses[Isrs] /\ t \in k.active /\ Isr(rt_psq_enq(k, t, flags))

IsrMessagePut(x) == "put" \in uses[Isrs] /\ Isr(isrMessagePut(k, x))

PendSV ==
    /\ ~k.fault
    /\ k.psq # <<>>
    /\ k' = rt_pop_req(k)
    /\ late' = FALSE
    /\ due' = [t \in Tasks |-> IF Waiting(k', t) THEN due[t] ELSE Forever]
    /\ UNCHANGED <<uses, left>>

\* The time left to the next expiry of timer x after one more tick.
Elapsed(x, n) ==
    LET i == SelectInSeq(k.tmr, LAMBDA e : e.x = x)
    IN  CASE n > 1 -> n - 1
          [] n = 1 /\ x \in Periodic -> k.tmr[i].icnt
          [] OTHER -> 0

SysTick ==
    /\ ~k.fault
    /\ k' = rt_systick(sysTimerTick(k))
    /\ due' = [t \in Tasks |-> CASE ~Waiting(k', t) -> Forever
                                [] Waiting(k', t) /\ due[t] \in 1 .. Forever - 1 -> due[t] - 1
                                [] OTHER -> due[t]]
    /\ left' = [x \in Timers |-> Elapsed(x, left[x])]
    /\ UNCHANGED <<uses, late>>

\* os_error does not return.
Halted == k.fault /\ UNCHANGED vars

Call ==
    \/ \E s \in Sems :
        \/ \E n \in Timeouts : SemaphoreWait(s, n)
        \/ SemaphoreRelease(s)
        \/ SemaphoreDelete(s)
        \/ SemaphoreCreate(s)
    \/ \E m \in Mutexes :
        \/ \E n \in Timeouts : MutexWait(m, n)
        \/ MutexRelease(m)
        \/ MutexDelete(m)
        \/ MutexCreate(m)
    \/ \E n \in Timeouts :
        \/ \E x \in Msgs : MessagePut(x, n)
        \/ MessageGet(n)
        \/ \E f \in SUBSET Flags : SignalWait(f, n)
        \/ Delay(n)
    \/ \E t \in Receivers, f \in SUBSET Flags \ {{}} : SignalSet(t, f) \/ SignalClear(t, f)
    \/ \E t \in Tasks, p \in Prios : ThreadSetPriority(t, p)
    \/ \E t \in Mortal : ThreadTerminate(t) \/ ThreadCreate(t)
    \/ ThreadYield
    \/ \E x \in Timers :
        \/ \E n \in Timeouts \ {Forever} : TimerStart(x, n)
        \/ TimerStop(x)
        \/ TimerDelete(x)
        \/ TimerCreate(x)

Interrupt ==
    \/ \E s \in Sems : IsrSemaphoreRelease(s)
    \/ \E t \in Receivers, f \in SUBSET Flags \ {{}} : IsrSignalSet(t, f)
    \/ \E x \in Msgs : IsrMessagePut(x)
    \/ PendSV
    \/ SysTick

Next == Call \/ Interrupt \/ Halted

Spec == Init /\ [][Next]_vars

\* The tick timer is hardware: it goes on until a fatal error.  PendSV is
\* taken when no other handler is active, and it empties the queue.
FairSpec ==
    /\ Spec
    /\ []<><<SysTick>>_vars \/ []<>k.fault
    /\ []<>(k.psq = <<>> \/ k.fault)

-----------------------------------------------------------------------------
\* The point of the scheduler: whenever a thread runs, no ready thread has a
\* higher priority, after every call, tick, wake-up and change of priority.
HighestRuns ==
    \A i \in 1 .. Len(k.rdy) : k.prio[k.rdy[i]] <= k.prio[k.run]

\* Where task t is in list q.
Places(q, t) == {i \in 1 .. Len(q) : q[i] = t}

InNone(t) == Places(k.rdy, t) = {} /\ \A o \in Objects : Places(k.wait[o], t) = {}

\* The lists of the objects a thread waits for in state st.
ListsOf(st) ==
    CASE st = "WAIT_SEM" -> Sems [] st = "WAIT_MUT" -> Mutexes [] st = "WAIT_MBX" -> {Queue}

\* A control block has one pair of links for the ready list and for the
\* lists of objects: a thread is in exactly the list its state says, once,
\* and a terminated one is in none, whatever woke it, timed out or ended it.
QueuedOnce ==
    \A t \in TCBs :
        LET alive == t \in k.active \cup {Idle}
        IN  /\ alive /\ k.st[t] = "READY" =>
                    /\ \E i \in 1 .. Len(k.rdy) : Places(k.rdy, t) = {i}
                    /\ \A o \in Objects : Places(k.wait[o], t) = {}
            /\ alive /\ k.st[t] \in {"WAIT_SEM", "WAIT_MUT", "WAIT_MBX"} =>
                    /\ Places(k.rdy, t) = {}
                    /\ \E o \in ListsOf(k.st[t]) :
                          /\ \E i \in 1 .. Len(k.wait[o]) : Places(k.wait[o], t) = {i}
                          /\ \A x \in Objects \ {o} : Places(k.wait[x], t) = {}
            /\ ~alive \/ k.st[t] \in {"RUNNING", "WAIT_DLY", "WAIT_AND", "WAIT_OR"} =>
                    InNone(t)
            /\ k.st[t] = "RUNNING" /\ alive <=> t = k.run

\* Timeouts come exactly when they are due: the differences along the delay
\* list add up to the ticks each waiting thread has left, through every
\* insertion and removal, and nobody else is in the list.
DelaysExact ==
    \A t \in Tasks :
        LET i == SelectInSeq(k.dly, LAMBDA e : e.t = t)
        IN  IF Waiting(k, t) /\ due[t] # Forever
            THEN i # 0 /\ due[t] > 0 /\ DueAt(k.dly, i) = due[t]
            ELSE i = 0

\* The same for the user timers.
TimersExact ==
    \A x \in Timers :
        LET i == SelectInSeq(k.tmr, LAMBDA e : e.x = x)
        IN  IF left[x] > 0 THEN i # 0 /\ DueAt(k.tmr, i) = left[x] ELSE i = 0

\* Nobody waits for what is there: no token while a thread waits for one,
\* no free mutex, no message or free entry, no flags that satisfy a wait.
NoLostWakeup ==
    /\ \A s \in Sems : k.wait[s] # <<>> => k.tokens[s] = 0 /\ s \in k.live
    /\ \A m \in Mutexes : k.wait[m] # <<>> => k.mut[m].level > 0 /\ m \in k.live
    /\ k.wait[Queue] # <<>> =>
        \/ k.mbx.state = 1 /\ k.mbx.count = 0
        \/ k.mbx.state = 2 /\ k.mbx.count = MbxSize
    /\ \A t \in k.active :
        /\ k.st[t] = "WAIT_AND" => ~(k.waits[t] \subseteq k.events[t])
        /\ k.st[t] = "WAIT_OR" => k.waits[t] \cap k.events[t] = {}

\* The messages in the ring, oldest first.
Contents == [i \in 1 .. k.mbx.count |-> k.mbx.msg[(k.mbx.last + i - 1) % MbxSize]]

\* The ring with its two indices, its counter, its waiting senders and its
\* interrupt requests is a bounded first-in first-out queue.
Fifo == INSTANCE BoundedFifo WITH Size <- MbxSize, queue <- Contents

MailboxIsFifo == Fifo!Spec

\* A wait with a time limit ends, whatever the other threads do.
TimedWaitsEnd ==
    \A t \in Tasks :
        (Waiting(k, t) /\ due[t] # Forever) ~> (~Waiting(k, t) \/ k.fault)

\* Round robin: a thread does not stay ready for ever, even if the running
\* one never blocks, unless threads of higher priority keep coming.
RobinShares ==
    \A t \in Tasks :
        []<>(\/ k.fault \/ t \notin k.active \/ k.st[t] # "READY"
             \/ k.prio[k.run] > k.prio[t])
=============================================================================
