---------------------------- MODULE RtxCallProofs ----------------------------
(***************************************************************************)
(* The invariant of the RTX kernel, and what each call of a thread does to *)
(* it, for any numbers of threads, semaphores, mutexes and timers, any     *)
(* priorities and any sizes of the mailbox and the request queue.          *)
(*                                                                         *)
(* First come the lists: of threads, ordered by priority, and of delays,   *)
(* which hold differences of times.  Then what the scheduler does to them  *)
(* while a thread is between two of them (Fit, Eased, Parks), and last     *)
(* every call: the kernel is right after it when it was before (Serves).   *)
(* RtxKernelProofs adds the interrupts and draws the conclusions.          *)
(***************************************************************************)
EXTENDS RtxKernel, FiniteSetTheorems, WellFoundedInduction, TLAPS

(***************************************************************************)
(* Types.                                                                  *)
(***************************************************************************)

Delays == [t : Tasks, d : Int]
Requests ==
    [id : Sems, arg : {0}] \cup [id : Tasks, arg : SUBSET Flags] \cup [id : {Queue}, arg : Messages]
Locks == [level : Nat, owner : Tasks \cup {NoTask}, prio : Nat]
Mailboxes ==
    [state : 0 .. 2, first : 0 .. MbxSize - 1, last : 0 .. MbxSize - 1, count : 0 .. MbxSize,
     msg : [0 .. MbxSize - 1 -> Messages \cup {NoTask}]]

Kernels ==
    [run : TCBs, rdy : Seq(TCBs), dly : Seq(Delays), st : [TCBs -> States], prio : [TCBs -> Nat],
     active : SUBSET Tasks, wait : [Objects -> Seq(Tasks)], live : SUBSET (Objects \cup Timers),
     tokens : [Sems -> 0 .. TokenMax], mut : [Mutexes -> Locks], mbx : Mailboxes,
     events : [TCBs -> SUBSET Flags], waits : [TCBs -> SUBSET Flags],
     msg : [TCBs -> Messages \cup {NoTask}],
     robin : [task : TCBs \cup {NoTask}, left : Int],
     tmr : Seq([x : Timers, d : Int, icnt : Nat]), psq : Seq(Requests), fault : BOOLEAN]

(***************************************************************************)
(* The lists.                                                              *)
(***************************************************************************)

\* Thread t is in list q; every thread of q is in it once.
InSeq(q, t) == \E i \in DOMAIN q : q[i] = t
Once(q) == \A i, j \in DOMAIN q : q[i] = q[j] => i = j

\* The threads that are there.
Alive(s) == s.active \cup {Idle}

\* The states of the threads that wait in the list of an object.
InQueue == {"WAIT_SEM", "WAIT_MUT", "WAIT_MBX"}

\* The threads of X are in no list, and r runs.  A thread that is alive and
\* not of X is in the list its state says.
Chained(s, X, r) ==
    /\ Once(s.rdy) /\ \A o \in Objects : Once(s.wait[o])
    /\ \A t \in TCBs : InSeq(s.rdy, t) => t \in Alive(s) \ X /\ s.st[t] = "READY"
    /\ \A o \in Objects, t \in Tasks : InSeq(s.wait[o], t) =>
           t \in s.active \ X /\ s.st[t] \in InQueue /\ o \in ListsOf(s.st[t])
    /\ \A o, x \in Objects, t \in Tasks : InSeq(s.wait[o], t) /\ InSeq(s.wait[x], t) => o = x
    /\ \A t \in Alive(s) \ X :
           /\ s.st[t] = "READY" => InSeq(s.rdy, t)
           /\ s.st[t] \in InQueue => \E o \in Objects : InSeq(s.wait[o], t)
           /\ s.st[t] # "INACTIVE" /\ (s.st[t] = "RUNNING" <=> t = r)
    /\ Idle \in X \/ s.st[Idle] \in {"READY", "RUNNING"}
    /\ r \in (Alive(s) \ X) \cup {NoTask}

\* Thread t is in delay list q.
InDly(q, t) == \E i \in DOMAIN q : q[i].t = t

OnceDly(q) == \A i, j \in DOMAIN q : q[i].t = q[j].t => i = j

\* Thread t is due in n ticks.
Due(q, t, n) == \E i \in DOMAIN q : q[i].t = t /\ DueAt(q, i) = n

\* The differences are not negative, and the first entry is not due yet.
Spaced(q) == \A i \in DOMAIN q : q[i].d >= 0 /\ (i = 1 => q[i].d > 0)

\* The delay list holds threads that wait, once.
Delayed(s) ==
    OnceDly(s.dly) /\ \A t \in Tasks : InDly(s.dly, t) => t \in s.active /\ s.st[t] \in Waits

\* List q is in the order of the priorities.
Sorted(q, prio) == \A i, j \in DOMAIN q : i <= j => prio[q[i]] >= prio[q[j]]

\* No thread of list q has a priority above p.
Below(q, prio, p) == \A t \in TCBs : InSeq(q, t) => prio[t] <= p

\* No ready thread has a higher priority than the running one.
Top(s) == Below(s.rdy, s.prio, s.prio[s.run])

\* The scheduler touches its lists only.
SameObjects(s, u) ==
    /\ u.prio = s.prio /\ u.active = s.active /\ u.live = s.live /\ u.tokens = s.tokens
    /\ u.mut = s.mut /\ u.mbx = s.mbx /\ u.events = s.events /\ u.waits = s.waits
    /\ u.msg = s.msg /\ u.tmr = s.tmr /\ u.psq = s.psq /\ u.fault = s.fault

\* The lists of the scheduler are right while r runs and the threads of X are
\* between two lists.
Fit(s, X, r) == s \in Kernels /\ Chained(s, X, r) /\ Delayed(s) /\ Sorted(s.rdy, s.prio)

(***************************************************************************)
(* The objects.                                                            *)
(***************************************************************************)

\* Nobody but a thread of X waits for what is there.
Wakeups(s, X) ==
    /\ \A o \in Sems : s.wait[o] # <<>> => s.tokens[o] = 0 /\ o \in s.live
    /\ \A m \in Mutexes : s.wait[m] # <<>> => s.mut[m].level > 0 /\ m \in s.live
    /\ s.wait[Queue] # <<>> =>
        \/ s.mbx.state = 1 /\ s.mbx.count = 0
        \/ s.mbx.state = 2 /\ s.mbx.count = MbxSize
    /\ \A t \in s.active \ X :
        /\ s.st[t] = "WAIT_AND" => ~(s.waits[t] \subseteq s.events[t])
        /\ s.st[t] = "WAIT_OR" => s.waits[t] \cap s.events[t] = {}

\* Threads that are never terminated.
Lasting == {t \in Tasks : t \notin Mortal \/ \A u \in Tasks : "end" \notin uses[u]}

\* Whoever has or wants a mutex lasts, and so does whom an interrupt signals.
Kept(s) ==
    /\ Lasting \subseteq s.active
    /\ \A m \in Mutexes : s.mut[m].level > 0 => s.mut[m].owner \in Lasting
    /\ \A m \in Mutexes, t \in Tasks : InSeq(s.wait[m], t) => t \in Lasting
    /\ \A i \in DOMAIN s.psq : s.psq[i].id \in Tasks => s.psq[i].id \in Lasting

\* Threads wait to send to the mailbox.
Sending(s) == s.wait[Queue] # <<>> /\ s.mbx.state = 2

\* What holds of the kernel after every call.
Sound(s) == Fit(s, {}, s.run) /\ Top(s) /\ Wakeups(s, {}) /\ Kept(s)

\* There was room for the message of an interrupt, and one call at most came
\* between.
RoomForRequests(s, after) ==
    (\E i \in DOMAIN s.psq : s.psq[i].id = Queue) =>
        IF after THEN ~ Sending(s) ELSE s.mbx.count < MbxSize

\* A thread that waits has no time limit or is due when d says.
Dates(s, d) ==
    /\ Spaced(s.dly)
    /\ \A t \in Tasks : \A n : Due(s.dly, t, n) => d[t] = n /\ n \in 1 .. Forever - 1
    /\ \A t \in Tasks : Waiting(s, t) => d[t] = Forever \/ Due(s.dly, t, d[t])

TimerEntries == [x : Timers, d : Int, icnt : Nat]

\* A list of timers, each once, in the order in which they expire.
TimerList(q) ==
    /\ q \in Seq(TimerEntries)
    /\ \A i, j \in DOMAIN q : q[i].x = q[j].x => i = j
    /\ \A i, j \in DOMAIN q : i <= j => DueAt(q, i) <= DueAt(q, j)
    /\ \A i \in DOMAIN q : q[i].icnt > 0

\* Timer x expires in n ticks.
TimerDue(q, x, n) == \E i \in DOMAIN q : q[i].x = x /\ DueAt(q, i) = n

\* The timers that run are those with time left, and expire when it is over.
Expiries(q, l) ==
    /\ TimerList(q) /\ l \in [Timers -> Nat]
    /\ \A x, n : TimerDue(q, x, n) => l[x] = n /\ n > 0
    /\ \A x \in Timers : l[x] > 0 => TimerDue(q, x, l[x])

\* The inductive invariant.  due is the time that each thread still has, and
\* left that of each timer.
IndInv ==
    /\ uses \in Programs /\ late \in BOOLEAN
    /\ Sound(k)
    /\ RoomForRequests(k, late)
    /\ k.psq = <<>> => ~ late
    /\ Dates(k, due)
    /\ Expiries(k.tmr, left)

(***************************************************************************)
(* What a call does.                                                       *)
(***************************************************************************)

\* The lists are the same.
SameLists(s, u) ==
    /\ u.run = s.run /\ u.rdy = s.rdy /\ u.dly = s.dly /\ u.st = s.st /\ u.wait = s.wait
    /\ u.prio = s.prio /\ u.active = s.active

\* Who waits keeps the time that is left, and the caller waits for timeout.
Timed(s, u, timeout) ==
    /\ Spaced(s.dly) => Spaced(u.dly)
    /\ \A t \in Tasks : \A n : t # s.run /\ Due(u.dly, t, n) => Due(s.dly, t, n)
    /\ \A t \in Tasks : t # s.run /\ Waiting(u, t) =>
           Waiting(s, t) /\ \A n : Due(s.dly, t, n) => Due(u.dly, t, n)
    /\ \A n : Due(u.dly, s.run, n) => n = timeout /\ timeout \notin {0, Forever}
    /\ Waiting(u, s.run) /\ timeout # Forever => Due(u.dly, s.run, timeout)

\* A call of the running thread of s leaves the kernel in state u.
Serves(s, u, timeout) ==
    /\ Sound(u) /\ u.psq = s.psq /\ Timed(s, u, timeout)
    /\ s.mbx.count < MbxSize => ~ Sending(u)
-----------------------------------------------------------------------------
(***************************************************************************)
(* Numbers.                                                                *)
(***************************************************************************)

\* A set of numbers has a smallest one.
LEMMA LeastElement ==
    ASSUME NEW T, T \subseteq Nat, T # {}
    PROVE  \E x \in T : \A y \in T : x <= y
<1>1. OpToRel(<, Nat) = {ss \in Nat \X Nat : ss[1] < ss[2]}
  BY Zenon DEF OpToRel
<1>2. \E O : IsWellFoundedOn(O, Nat) /\ O = {ss \in Nat \X Nat : ss[1] < ss[2]}
  BY <1>1, NatLessThanWellFounded, Zenon
<1>3. PICK O : IsWellFoundedOn(O, Nat) /\ O = {ss \in Nat \X Nat : ss[1] < ss[2]}
  BY <1>2
<1>4. PICK x \in T : \A y \in T : ~(<<y, x>> \in O)
  BY <1>3, WFMin, Zenon
<1>5. \A a, b \in Nat : a < b => <<a, b>> \in O
  BY <1>3
<1>6. ASSUME NEW y \in T PROVE x <= y
  <2>1. x \in Nat /\ y \in Nat /\ ~(y < x)
    BY <1>4, <1>5
  <2> QED BY <2>1
<1> QED BY <1>6

\* It is the one that Min gives.
LEMMA MinOfSet ==
    ASSUME NEW T, T \subseteq Nat, T # {}
    PROVE  Min(T) \in T /\ \A y \in T : Min(T) <= y
  BY LeastElement DEF Min

\* A bounded set of numbers has a largest one, which Max gives.
LEMMA MaxOfSet ==
    ASSUME NEW n \in Nat, NEW T, T \subseteq 0 .. n, T # {}
    PROVE  Max(T) \in T /\ \A y \in T : y <= Max(T)
<1> DEFINE D == {n - y : y \in T}
<1>0. \A y \in T : y \in 0 .. n /\ y \in Int /\ n - y \in Nat /\ n - y \in D
  OBVIOUS
<1>1. D \subseteq Nat /\ D # {}
  BY <1>0
<1>2. PICK d \in D : \A e \in D : d <= e
  <2> HIDE DEF D
  <2> QED BY <1>1, LeastElement
<1>3. PICK x \in T : d = n - x
  OBVIOUS
<1>4. \A y \in T : y <= x
  <2>1. \A y \in T : n - x <= n - y
    BY <1>0, <1>2, <1>3
  <2> HIDE DEF D
  <2> QED BY <1>0, <2>1
<1>5. \A y \in T : x >= y
  BY <1>3, <1>4
<1>6. Max(T) \in T /\ \A y \in T : Max(T) >= y
  BY <1>5 DEF Max
<1> QED BY <1>6

\* The lengths of the beginnings of a list of n entries that are all of A.
AllowedUpTo(n, A) == {j \in 0 .. n : \A l \in 1 .. j : l \in A}

\* The place of a new entry: all the entries before it are accepted.
LEMMA PlaceInList ==
    ASSUME NEW n \in Nat, NEW A, NEW i, i = Max(AllowedUpTo(n, A)) + 1
    PROVE  /\ i \in 1 .. n + 1 /\ i \in Nat
           /\ \A l \in 1 .. i - 1 : l \in A
           /\ i <= n => i \notin A
<1> DEFINE T == AllowedUpTo(n, A)
<1>1. T \subseteq 0 .. n /\ 0 \in T
  BY DEF AllowedUpTo
<1> HIDE DEF T
<1>2. Max(T) \in T /\ \A y \in T : y <= Max(T)
  BY <1>1, MaxOfSet
<1> DEFINE m == Max(T)
<1> HIDE DEF m
<1>3. m \in 0 .. n /\ i = m + 1 /\ \A l \in 1 .. m : l \in A
  BY <1>2 DEF m, T, AllowedUpTo
<1>4. ASSUME i <= n, i \in A PROVE FALSE
  <2>1. i \in 0 .. n /\ \A l \in 1 .. i : l \in 1 .. m \/ l = i
    BY <1>3, <1>4
  <2>2. i \in T
    BY <1>3, <1>4, <2>1 DEF T, AllowedUpTo
  <2>3. i <= m
    BY <1>2, <2>2 DEF m
  <2> QED BY <1>3, <2>3
<1>5. i \in 1 .. n + 1 /\ i \in Nat /\ i - 1 = m
  BY <1>3
<1> QED BY <1>3, <1>4, <1>5, Zenon
-----------------------------------------------------------------------------
(***************************************************************************)
(* Lists.                                                                  *)
(***************************************************************************)

\* The entries of two lists put together.
LEMMA ConcatList ==
    ASSUME NEW S, NEW a \in Seq(S), NEW b \in Seq(S)
    PROVE  /\ a \o b \in Seq(S) /\ Len(a \o b) = Len(a) + Len(b)
           /\ \A j \in 1 .. Len(a) + Len(b) :
                 (a \o b)[j] = IF j <= Len(a) THEN a[j] ELSE b[j - Len(a)]
  OBVIOUS

\* A list with an entry put at position i.
LEMMA InsertAtList ==
    ASSUME NEW S, NEW q \in Seq(S), NEW i \in 1 .. Len(q) + 1, NEW e \in S
    PROVE  /\ InsertAt(q, i, e) \in Seq(S) /\ Len(InsertAt(q, i, e)) = Len(q) + 1
           /\ \A j \in 1 .. Len(q) + 1 : InsertAt(q, i, e)[j] =
                 IF j < i THEN q[j] ELSE IF j = i THEN e ELSE q[j - 1]
<1> DEFINE a == SubSeq(q, 1, i - 1)
           b == SubSeq(q, i, Len(q))
           c == a \o <<e>>
<1>0. Len(q) \in Nat /\ i \in Nat
  OBVIOUS
<1>1. a \in Seq(S) /\ Len(a) = i - 1 /\ \A j \in 1 .. i - 1 : a[j] = q[j]
  BY <1>0
<1>2. /\ b \in Seq(S) /\ Len(b) = Len(q) - i + 1
      /\ \A j \in 1 .. Len(q) - i + 1 : b[j] = q[i + j - 1]
  BY <1>0
<1>3. InsertAt(q, i, e) = c \o b
  BY DEF InsertAt
<1> HIDE DEF a, b
<1>4. c \in Seq(S) /\ Len(c) = i /\ \A j \in 1 .. i : c[j] = IF j = i THEN e ELSE q[j]
  BY <1>0, <1>1
<1> HIDE DEF c
<1>5. /\ c \o b \in Seq(S) /\ Len(c \o b) = Len(q) + 1
      /\ \A j \in 1 .. Len(q) + 1 : (c \o b)[j] = IF j <= i THEN c[j] ELSE b[j - i]
  <2>1. Len(c) + Len(b) = Len(q) + 1
    BY <1>0, <1>2, <1>4
  <2>2. /\ c \o b \in Seq(S) /\ Len(c \o b) = Len(c) + Len(b)
        /\ \A j \in 1 .. Len(c) + Len(b) :
              (c \o b)[j] = IF j <= Len(c) THEN c[j] ELSE b[j - Len(c)]
    BY <1>2, <1>4, ConcatList, Zenon
  <2>3. Len(c) = i
    BY <1>4
  <2> QED BY <2>1, <2>2, <2>3, Zenon
<1>6. ASSUME NEW j \in 1 .. Len(q) + 1
      PROVE  (c \o b)[j] = IF j < i THEN q[j] ELSE IF j = i THEN e ELSE q[j - 1]
  <2>1. CASE j <= i
    BY <1>0, <1>4, <1>5, <2>1
  <2>2. CASE j > i
    <3>1. j - i \in 1 .. Len(q) - i + 1 /\ i + (j - i) - 1 = j - 1
      BY <1>0, <2>2
    <3>2. ~(j <= i) /\ ~(j < i) /\ j # i
      BY <1>0, <2>2
    <3>3. (c \o b)[j] = b[j - i]
      BY <1>5, <1>6, <3>2, Zenon
    <3>4. b[j - i] = q[j - 1]
      BY <1>2, <3>1
    <3> QED BY <3>2, <3>3, <3>4, Zenon
  <2>3. j \in Int /\ (j <= i \/ j > i)
    BY <1>0
  <2> QED BY <2>1, <2>2, <2>3, Zenon
<1> QED BY <1>3, <1>5, <1>6

\* A list without the entry at position i.
LEMMA RemoveAtList ==
    ASSUME NEW S, NEW q \in Seq(S), NEW i \in 1 .. Len(q)
    PROVE  /\ RemoveAt(q, i) \in Seq(S) /\ Len(RemoveAt(q, i)) = Len(q) - 1
           /\ \A j \in 1 .. Len(q) - 1 : RemoveAt(q, i)[j] = IF j < i THEN q[j] ELSE q[j + 1]
<1> DEFINE a == SubSeq(q, 1, i - 1)
           b == SubSeq(q, i + 1, Len(q))
<1>0. Len(q) \in Nat /\ i \in Nat
  OBVIOUS
<1>1. a \in Seq(S) /\ Len(a) = i - 1 /\ \A j \in 1 .. i - 1 : a[j] = q[j]
  BY <1>0
<1>2. /\ b \in Seq(S) /\ Len(b) = Len(q) - i
      /\ \A j \in 1 .. Len(q) - i : b[j] = q[i + j]
  BY <1>0
<1>3. RemoveAt(q, i) = a \o b
  BY DEF RemoveAt
<1> HIDE DEF a, b
<1>5. /\ a \o b \in Seq(S) /\ Len(a \o b) = Len(q) - 1
      /\ \A j \in 1 .. Len(q) - 1 : (a \o b)[j] = IF j < i THEN a[j] ELSE b[j - i + 1]
  <2>1. Len(a) + Len(b) = Len(q) - 1
    BY <1>0, <1>1, <1>2
  <2>2. \A j \in 1 .. Len(q) - 1 : (j <= Len(a) <=> j < i) /\ j - Len(a) = j - i + 1
    BY <1>0, <1>1
  <2>3. /\ a \o b \in Seq(S) /\ Len(a \o b) = Len(q) - 1
        /\ \A j \in 1 .. Len(q) - 1 : (a \o b)[j] = IF j <= Len(a) THEN a[j] ELSE b[j - Len(a)]
    <3>1. a \in Seq(S) /\ b \in Seq(S)
      BY <1>1, <1>2
    <3>2. /\ a \o b \in Seq(S) /\ Len(a \o b) = Len(a) + Len(b)
          /\ \A j \in 1 .. Len(a) + Len(b) :
                (a \o b)[j] = IF j <= Len(a) THEN a[j] ELSE b[j - Len(a)]
      BY <3>1, ConcatList, Zenon
    <3> QED BY <2>1, <3>2, Zenon
  <2> QED BY <2>2, <2>3
<1>6. ASSUME NEW j \in 1 .. Len(q) - 1
      PROVE  (a \o b)[j] = IF j < i THEN q[j] ELSE q[j + 1]
  <2>1. CASE j < i
    BY <1>0, <1>1, <1>5, <2>1
  <2>2. CASE j >= i
    <3>1. j - i + 1 \in 1 .. Len(q) - i /\ i + (j - i + 1) = j + 1
      BY <1>0, <2>2
    <3>2. (a \o b)[j] = b[j - i + 1] /\ b[j - i + 1] = q[j + 1]
      BY <1>0, <1>2, <1>5, <2>2, <3>1
    <3> QED BY <1>0, <2>2, <3>2
  <2>3. j \in Int /\ (j < i \/ j >= i)
    BY <1>0
  <2> QED BY <2>1, <2>2, <2>3, Zenon
<1> QED BY <1>3, <1>5, <1>6

\* The empty list is the one that no thread is in.
LEMMA EmptyList ==
    ASSUME NEW S, NEW q \in Seq(S)
    PROVE  /\ q = <<>> <=> \A t : ~ InSeq(q, t)
           /\ \A t : InSeq(q, t) => t \in S
           /\ \A t : ~ InSeq(<<>>, t)
           /\ Once(<<>>)
  BY DEF InSeq, Once

\* An entry more.
LEMMA InsertAtOnce ==
    ASSUME NEW S, NEW q \in Seq(S), NEW i \in 1 .. Len(q) + 1, NEW e \in S
    PROVE  /\ \A t : InSeq(InsertAt(q, i, e), t) <=> InSeq(q, t) \/ t = e
           /\ Once(q) /\ ~ InSeq(q, e) => Once(InsertAt(q, i, e))
<1> DEFINE r == InsertAt(q, i, e)
<1>1. /\ r \in Seq(S) /\ Len(r) = Len(q) + 1
      /\ \A j \in 1 .. Len(q) + 1 : r[j] = IF j < i THEN q[j] ELSE IF j = i THEN e ELSE q[j - 1]
  BY InsertAtList
<1> HIDE DEF r
<1>2. Len(q) \in Nat /\ i \in Nat /\ DOMAIN q = 1 .. Len(q) /\ DOMAIN r = 1 .. Len(q) + 1
  BY <1>1
<1>3. ASSUME NEW t, InSeq(r, t) PROVE InSeq(q, t) \/ t = e
  <2>1. PICK j \in 1 .. Len(q) + 1 : r[j] = t
    BY <1>2, <1>3 DEF InSeq
  <2>2. j \in Int /\ (j < i => j \in DOMAIN q) /\ (j > i => j - 1 \in DOMAIN q)
    BY <1>2
  <2> QED BY <1>1, <1>2, <2>1, <2>2 DEF InSeq
<1>4. ASSUME NEW t, InSeq(q, t) \/ t = e PROVE InSeq(r, t)
  <2>1. CASE t = e
    <3>1. i \in DOMAIN r /\ r[i] = e
      BY <1>1, <1>2
    <3> QED BY <2>1, <3>1 DEF InSeq
  <2>2. CASE InSeq(q, t)
    <3>1. PICK j \in 1 .. Len(q) : q[j] = t
      BY <1>2, <2>2 DEF InSeq
    <3>2. (j < i => j \in DOMAIN r /\ r[j] = t) /\ (~(j < i) => j + 1 \in DOMAIN r /\ r[j + 1] = t)
      BY <1>1, <1>2, <3>1
    <3> QED BY <3>2 DEF InSeq
  <2> QED BY <1>4, <2>1, <2>2
<1>5. ASSUME Once(q), ~ InSeq(q, e), NEW j \in DOMAIN r, NEW l \in DOMAIN r, r[j] = r[l]
      PROVE  j = l
  <2> DEFINE J == IF j < i THEN j ELSE j - 1
             L == IF l < i THEN l ELSE l - 1
  <2>1. /\ j # i => J \in DOMAIN q /\ r[j] = q[J]
        /\ l # i => L \in DOMAIN q /\ r[l] = q[L]
        /\ r[i] = e
    BY <1>1, <1>2
  <2>2. \A n \in DOMAIN q : q[n] # e
    BY <1>5 DEF InSeq
  <2>3. j = i <=> l = i
    BY <1>5, <2>1, <2>2
  <2>4. j # i => J = L
    BY <1>5, <2>1, <2>3 DEF Once
  <2> QED BY <1>2, <2>3, <2>4
<1>6. Once(q) /\ ~ InSeq(q, e) => Once(r)
  BY <1>5 DEF Once
<1> QED BY <1>3, <1>4, <1>6 DEF r

\* An entry less.
LEMMA RemoveAtOnce ==
    ASSUME NEW S, NEW q \in Seq(S), NEW i \in 1 .. Len(q), Once(q)
    PROVE  /\ \A t : InSeq(RemoveAt(q, i), t) <=> InSeq(q, t) /\ t # q[i]
           /\ Once(RemoveAt(q, i))
<1> DEFINE r == RemoveAt(q, i)
<1>1. /\ r \in Seq(S) /\ Len(r) = Len(q) - 1
      /\ \A j \in 1 .. Len(q) - 1 : r[j] = IF j < i THEN q[j] ELSE q[j + 1]
  BY RemoveAtList
<1> HIDE DEF r
<1>2. Len(q) \in Nat /\ i \in Nat /\ DOMAIN q = 1 .. Len(q) /\ DOMAIN r = 1 .. Len(q) - 1
  BY <1>1
<1> DEFINE At(j) == IF j < i THEN j ELSE j + 1
<1>3. \A j \in DOMAIN r : At(j) \in DOMAIN q /\ At(j) # i /\ r[j] = q[At(j)]
  BY <1>1, <1>2
<1>4. \A j, l \in DOMAIN r : At(j) = At(l) => j = l
  BY <1>2
<1>5. \A j \in DOMAIN q : j # i => \E l \in DOMAIN r : At(l) = j
  <2> SUFFICES ASSUME NEW j \in DOMAIN q, j # i
               PROVE  \E l \in DOMAIN r : At(l) = j
    OBVIOUS
  <2> DEFINE l == IF j < i THEN j ELSE j - 1
  <2>1. l \in DOMAIN r /\ At(l) = j
    BY <1>2
  <2> QED BY <2>1
<1> HIDE DEF At
<1>6. ASSUME NEW t PROVE InSeq(r, t) <=> InSeq(q, t) /\ t # q[i]
  <2>1. \A j \in DOMAIN q : q[j] = q[i] => j = i
    BY <1>2 DEF Once
  <2>2. InSeq(r, t) => InSeq(q, t) /\ t # q[i]
    BY <1>3, <2>1 DEF InSeq
  <2>3. ASSUME InSeq(q, t), t # q[i] PROVE InSeq(r, t)
    <3>1. PICK j \in DOMAIN q : q[j] = t
      BY <2>3 DEF InSeq
    <3>2. PICK l \in DOMAIN r : At(l) = j
      BY <1>5, <2>3, <3>1
    <3> QED BY <1>3, <3>1, <3>2 DEF InSeq
  <2> QED BY <2>2, <2>3
<1>7. Once(r)
  BY <1>3, <1>4 DEF Once
<1> QED BY <1>6, <1>7 DEF r

\* The first entry and the rest.
LEMMA HeadTail ==
    ASSUME NEW S, NEW q \in Seq(S), q # <<>>
    PROVE  /\ Tail(q) \in Seq(S) /\ Head(q) \in S /\ InSeq(q, Head(q))
           /\ \A t : InSeq(q, t) <=> t = Head(q) \/ InSeq(Tail(q), t)
           /\ Once(q) => Once(Tail(q)) /\ ~ InSeq(Tail(q), Head(q))
<1>1. /\ Len(q) \in Nat /\ Len(q) >= 1 /\ DOMAIN q = 1 .. Len(q)
      /\ Head(q) = q[1] /\ q[1] \in S
  OBVIOUS
<1>2. /\ Tail(q) \in Seq(S) /\ Len(Tail(q)) = Len(q) - 1 /\ DOMAIN Tail(q) = 1 .. Len(q) - 1
      /\ \A i \in 1 .. Len(q) - 1 : Tail(q)[i] = q[i + 1]
  OBVIOUS
<1> DEFINE r == Tail(q)
<1> HIDE DEF r
<1>3. /\ DOMAIN r = 1 .. Len(q) - 1
      /\ \A i \in DOMAIN r : i + 1 \in DOMAIN q /\ i + 1 # 1 /\ r[i] = q[i + 1]
      /\ \A j \in DOMAIN q : j # 1 => j - 1 \in DOMAIN r /\ r[j - 1] = q[j]
  BY <1>1, <1>2 DEF r
<1>4. InSeq(q, Head(q))
  BY <1>1 DEF InSeq
<1>5. ASSUME NEW t PROVE InSeq(q, t) <=> t = Head(q) \/ InSeq(r, t)
  <2>1. InSeq(r, t) => InSeq(q, t)
    BY <1>3 DEF InSeq
  <2>2. ASSUME InSeq(q, t), t # Head(q) PROVE InSeq(r, t)
    <3>1. PICK j \in DOMAIN q : q[j] = t
      BY <2>2 DEF InSeq
    <3> QED BY <1>1, <1>3, <2>2, <3>1 DEF InSeq
  <2> QED BY <1>4, <2>1, <2>2
<1>6. ASSUME Once(q) PROVE Once(r) /\ ~ InSeq(r, Head(q))
  <2>1. 1 \in DOMAIN q
    BY <1>1
  <2>2. ~ InSeq(r, Head(q))
    BY <1>1, <1>3, <1>6, <2>1 DEF InSeq, Once
  <2>3. \A i, j \in DOMAIN r : i + 1 = j + 1 => i = j
    BY <1>1, <1>3
  <2>4. Once(r)
    BY <1>3, <1>6, <2>3 DEF Once
  <2> QED BY <2>2, <2>4
<1> QED BY <1>1, <1>2, <1>4, <1>5, <1>6 DEF r

\* A new first entry.
LEMMA ConsList ==
    ASSUME NEW S, NEW q \in Seq(S), NEW e \in S
    PROVE  /\ <<e>> \o q \in Seq(S) /\ <<e>> \o q # <<>>
           /\ Head(<<e>> \o q) = e /\ Tail(<<e>> \o q) = q
<1> DEFINE r == <<e>> \o q
<1>1. /\ r \in Seq(S) /\ Len(r) = Len(q) + 1 /\ r[1] = e /\ Len(q) \in Nat
      /\ \A j \in 1 .. Len(q) : r[j + 1] = q[j]
  OBVIOUS
<1> HIDE DEF r
<1>2. r # <<>> /\ Head(r) = e
  BY <1>1
<1>3. Tail(r) \in Seq(S) /\ Len(Tail(r)) = Len(q) /\ \A j \in 1 .. Len(q) : Tail(r)[j] = q[j]
  BY <1>1, <1>2
<1>4. Tail(r) = q
  BY <1>3
<1> QED BY <1>1, <1>2, <1>4 DEF r

\* A list with a new entry in front, as a set.
LEMMA ConsOnce ==
    ASSUME NEW S, NEW q \in Seq(S), NEW e \in S
    PROVE  /\ \A t : InSeq(<<e>> \o q, t) <=> t = e \/ InSeq(q, t)
           /\ Once(q) /\ ~ InSeq(q, e) => Once(<<e>> \o q)
<1> DEFINE r == <<e>> \o q
<1>1. r \in Seq(S) /\ r # <<>> /\ Head(r) = e /\ Tail(r) = q
  BY ConsList
<1> HIDE DEF r
<1>2. \A t : InSeq(r, t) <=> t = e \/ InSeq(q, t)
  BY <1>1, HeadTail
<1>3. /\ Len(q) \in Nat /\ Len(r) = Len(q) + 1 /\ DOMAIN r = 1 .. Len(q) + 1 /\ DOMAIN q = 1 .. Len(q)
      /\ r[1] = e /\ \A j \in 1 .. Len(q) : r[j + 1] = q[j]
  BY DEF r
<1>4. \A j \in DOMAIN r : j # 1 => j - 1 \in DOMAIN q /\ r[j] = q[j - 1]
  BY <1>3
<1>5. ASSUME Once(q), ~ InSeq(q, e), NEW i \in DOMAIN r, NEW j \in DOMAIN r, r[i] = r[j]
      PROVE  i = j
  <2>1. \A n \in DOMAIN q : q[n] # e
    BY <1>5 DEF InSeq
  <2>2. i = 1 <=> j = 1
    BY <1>3, <1>4, <1>5, <2>1
  <2>3. i # 1 => i - 1 = j - 1
    BY <1>4, <1>5, <2>2 DEF Once
  <2> QED BY <1>3, <2>2, <2>3
<1>6. Once(q) /\ ~ InSeq(q, e) => Once(r)
  BY <1>5 DEF Once
<1> QED BY <1>2, <1>6 DEF r

\* A link is taken out of a list.
LEMMA RemoveFirstOnce ==
    ASSUME NEW S, NEW q \in Seq(S), NEW e, Once(q)
    PROVE  /\ RemoveFirst(q, e) \in Seq(S)
           /\ \A t : InSeq(RemoveFirst(q, e), t) <=> InSeq(q, t) /\ t # e
           /\ Once(RemoveFirst(q, e))
           /\ ~ InSeq(q, e) => RemoveFirst(q, e) = q
           /\ \/ RemoveFirst(q, e) = q
              \/ \E i \in 1 .. Len(q) : RemoveFirst(q, e) = RemoveAt(q, i)
<1> DEFINE I == {i \in 1 .. Len(q) : q[i] = e}
<1>0. DOMAIN q = 1 .. Len(q) /\ Len(q) \in Nat
  OBVIOUS
<1>1. InSeq(q, e) <=> I # {}
  BY <1>0 DEF InSeq
<1>2. InSeq(q, e) <=> \E i \in 1 .. Len(q) : q[i] = e
  BY <1>0 DEF InSeq
<1>3. CASE ~ InSeq(q, e)
  <2>1. RemoveFirst(q, e) = q
    BY <1>2, <1>3 DEF RemoveFirst
  <2> QED BY <1>3, <2>1
<1>4. CASE InSeq(q, e)
  <2>1. I \subseteq Nat /\ I # {}
    BY <1>0, <1>1, <1>4
  <2>2. Min(I) \in I
    <3> HIDE DEF I
    <3> QED BY <2>1, MinOfSet
  <2>3. RemoveFirst(q, e) = RemoveAt(q, Min(I))
    BY <1>2, <1>4, <2>1 DEF RemoveFirst, SelectInSeq
  <2> DEFINE m == Min(I)
  <2>4. m \in 1 .. Len(q) /\ q[m] = e
    BY <2>2
  <2> HIDE DEF m
  <2>5. RemoveFirst(q, e) = RemoveAt(q, m)
    BY <2>3 DEF m
  <2>6. RemoveAt(q, m) \in Seq(S)
    BY <2>4, RemoveAtList
  <2>7. (\A t : InSeq(RemoveAt(q, m), t) <=> InSeq(q, t) /\ t # q[m]) /\ Once(RemoveAt(q, m))
    BY <2>4, RemoveAtOnce
  <2> QED BY <1>4, <2>4, <2>5, <2>6, <2>7
<1> QED BY <1>3, <1>4
-----------------------------------------------------------------------------
(***************************************************************************)
(* Lists in the order of priorities.                                       *)
(***************************************************************************)

\* The empty list is in every order.
LEMMA EmptySorted ==
    ASSUME NEW prio
    PROVE  Sorted(<<>>, prio) /\ \A p : Below(<<>>, prio, p)
  BY DEF Sorted, Below, InSeq

\* A list stays in its order when an entry is taken out,
LEMMA RemoveAtSorted ==
    ASSUME NEW prio, NEW S, NEW q \in Seq(S), NEW i \in 1 .. Len(q), Sorted(q, prio)
    PROVE  Sorted(RemoveAt(q, i), prio)
<1> DEFINE r == RemoveAt(q, i)
<1>1. /\ r \in Seq(S) /\ Len(r) = Len(q) - 1
      /\ \A j \in 1 .. Len(q) - 1 : r[j] = IF j < i THEN q[j] ELSE q[j + 1]
  BY RemoveAtList
<1> HIDE DEF r
<1>2. Len(q) \in Nat /\ i \in Nat /\ DOMAIN q = 1 .. Len(q) /\ DOMAIN r = 1 .. Len(q) - 1
  BY <1>1
<1> DEFINE At(j) == IF j < i THEN j ELSE j + 1
<1>3. \A j \in DOMAIN r : At(j) \in DOMAIN q /\ r[j] = q[At(j)]
  BY <1>1, <1>2
<1>4. \A j, l \in DOMAIN r : j <= l => At(j) <= At(l)
  BY <1>2
<1> HIDE DEF At
<1>5. Sorted(r, prio)
  BY <1>3, <1>4 DEF Sorted
<1> QED BY <1>5 DEF r

\* when a thread is taken out,
LEMMA RemoveFirstSorted ==
    ASSUME NEW prio, NEW S, NEW q \in Seq(S), NEW e, Once(q), Sorted(q, prio)
    PROVE  Sorted(RemoveFirst(q, e), prio)
  BY RemoveFirstOnce, RemoveAtSorted

\* The first has the highest priority.
LEMMA HeadHighest ==
    ASSUME NEW prio, NEW q \in Seq(TCBs), q # <<>>, Sorted(q, prio)
    PROVE  Sorted(Tail(q), prio) /\ Below(q, prio, prio[Head(q)])
<1>1. /\ Len(q) \in Nat /\ Len(q) >= 1 /\ DOMAIN q = 1 .. Len(q) /\ Head(q) = q[1]
      /\ Tail(q) \in Seq(TCBs) /\ DOMAIN Tail(q) = 1 .. Len(q) - 1
      /\ \A i \in 1 .. Len(q) - 1 : Tail(q)[i] = q[i + 1]
  OBVIOUS
<1> DEFINE r == Tail(q)
<1> HIDE DEF r
<1>2. \A i \in DOMAIN r : i + 1 \in DOMAIN q /\ r[i] = q[i + 1]
  BY <1>1 DEF r
<1>3. \A i, j \in DOMAIN r : i <= j => i + 1 <= j + 1
  BY <1>1 DEF r
<1>4. Sorted(r, prio)
  BY <1>2, <1>3 DEF Sorted
<1>5. ASSUME NEW t \in TCBs, InSeq(q, t) PROVE prio[Head(q)] >= prio[t]
  <2>1. PICK j \in DOMAIN q : q[j] = t
    BY <1>5 DEF InSeq
  <2>2. 1 \in DOMAIN q /\ 1 <= j
    BY <1>1
  <2> QED BY <1>1, <2>1, <2>2 DEF Sorted
<1>6. \A t \in TCBs : InSeq(q, t) => prio[Head(q)] >= prio[t]
  BY <1>5
<1>7. Below(q, prio, prio[Head(q)])
  BY <1>6 DEF Below
<1> QED BY <1>4, <1>7 DEF r

\* and when a thread is put in front that nobody in it outranks.
LEMMA ConsSorted ==
    ASSUME NEW prio \in [TCBs -> Nat], NEW q \in Seq(TCBs), NEW e \in TCBs,
           Sorted(q, prio), Below(q, prio, prio[e])
    PROVE  Sorted(<<e>> \o q, prio)
<1> DEFINE r == <<e>> \o q
<1>1. /\ Len(q) \in Nat /\ DOMAIN r = 1 .. Len(q) + 1 /\ DOMAIN q = 1 .. Len(q)
      /\ r[1] = e /\ \A j \in 1 .. Len(q) : r[j + 1] = q[j]
  OBVIOUS
<1> HIDE DEF r
<1>2. \A j \in DOMAIN r : j # 1 => j - 1 \in DOMAIN q /\ r[j] = q[j - 1]
  BY <1>1
<1>3. \A j \in DOMAIN q : q[j] \in TCBs /\ InSeq(q, q[j])
  BY DEF InSeq
<1>4. \A t \in TCBs : prio[t] \in Nat
  OBVIOUS
<1>5. ASSUME NEW i \in DOMAIN r, NEW j \in DOMAIN r, i <= j
      PROVE  prio[r[i]] >= prio[r[j]]
  <2>1. CASE i # 1
    <3>1. i - 1 \in DOMAIN q /\ j - 1 \in DOMAIN q /\ i - 1 <= j - 1 /\ r[i] = q[i - 1] /\ r[j] = q[j - 1]
      BY <1>1, <1>2, <1>5, <2>1
    <3> QED BY <3>1 DEF Sorted
  <2>2. CASE i = 1 /\ j # 1
    <3>1. j - 1 \in DOMAIN q /\ r[j] = q[j - 1] /\ r[i] = e
      BY <1>1, <1>2, <2>2
    <3>2. prio[q[j - 1]] <= prio[e]
      BY <1>3, <3>1 DEF Below
    <3> QED BY <1>3, <1>4, <3>1, <3>2
  <2>3. CASE i = 1 /\ j = 1
    BY <1>1, <1>4, <2>3
  <2> QED BY <2>1, <2>2, <2>3
<1>6. Sorted(r, prio)
  BY <1>5 DEF Sorted
<1> QED BY <1>6 DEF r

\* The priorities of others do not matter.
LEMMA SameSorted ==
    ASSUME NEW prio, NEW new, NEW q \in Seq(TCBs), Sorted(q, prio),
           \A t \in TCBs : InSeq(q, t) => new[t] = prio[t]
    PROVE  Sorted(q, new)
<1>1. \A i \in DOMAIN q : q[i] \in TCBs /\ InSeq(q, q[i])
  BY DEF InSeq
<1> QED BY <1>1 DEF Sorted

\* A thread is put behind those of its priority.
LEMMA PutPrioPlace ==
    ASSUME NEW s, NEW q, Len(q) \in Nat, NEW t
    PROVE  \E i \in 1 .. Len(q) + 1 :
              /\ rt_put_prio(s, q, t) = InsertAt(q, i, t)
              /\ \A j \in 1 .. i - 1 : s.prio[q[j]] >= s.prio[t]
              /\ i <= Len(q) => ~(s.prio[q[i]] >= s.prio[t])
<1>1. PICK A, T, i : /\ A = {l \in 1 .. Len(q) : s.prio[q[l]] >= s.prio[t]}
                     /\ T = {j \in 0 .. Len(q) : \A l \in 1 .. j : s.prio[q[l]] >= s.prio[t]}
                     /\ i = Max(T) + 1
  OBVIOUS
<1>2. T = AllowedUpTo(Len(q), A)
  <2>1. \A j \in 0 .. Len(q) : \A l \in 1 .. j : l \in 1 .. Len(q)
    OBVIOUS
  <2>2. \A j \in 0 .. Len(q) :
            (\A l \in 1 .. j : s.prio[q[l]] >= s.prio[t]) <=> (\A l \in 1 .. j : l \in A)
    BY <1>1, <2>1
  <2> QED BY <1>1, <2>2 DEF AllowedUpTo
<1>3. rt_put_prio(s, q, t) = InsertAt(q, i, t)
  BY <1>1 DEF rt_put_prio, Place
<1>4. i \in 1 .. Len(q) + 1 /\ (\A l \in 1 .. i - 1 : l \in A) /\ (i <= Len(q) => i \notin A)
  <2>1. i = Max(T) + 1
    BY <1>1
  <2> QED BY <1>2, <2>1, PlaceInList
<1>5. i <= Len(q) => i \in 1 .. Len(q)
  BY <1>4
<1> QED BY <1>1, <1>3, <1>4, <1>5

\* What rt_put_prio makes of a list: the thread is in it, once, in the order.
LEMMA PutPrioList ==
    ASSUME NEW s, s.prio \in [TCBs -> Nat], NEW S, S \subseteq TCBs, NEW q \in Seq(S), NEW t \in S
    PROVE  /\ rt_put_prio(s, q, t) \in Seq(S)
           /\ \A x : InSeq(rt_put_prio(s, q, t), x) <=> InSeq(q, x) \/ x = t
           /\ Once(q) /\ ~ InSeq(q, t) => Once(rt_put_prio(s, q, t))
           /\ Sorted(q, s.prio) => Sorted(rt_put_prio(s, q, t), s.prio)
<1>1. Len(q) \in Nat /\ DOMAIN q = 1 .. Len(q) /\ \A i \in 1 .. Len(q) : q[i] \in TCBs
  OBVIOUS
<1>2. PICK i \in 1 .. Len(q) + 1 :
          /\ rt_put_prio(s, q, t) = InsertAt(q, i, t)
          /\ \A j \in 1 .. i - 1 : s.prio[q[j]] >= s.prio[t]
          /\ i <= Len(q) => ~(s.prio[q[i]] >= s.prio[t])
  BY <1>1, PutPrioPlace
<1> DEFINE r == InsertAt(q, i, t)
<1>3. /\ r \in Seq(S) /\ Len(r) = Len(q) + 1
      /\ \A j \in 1 .. Len(q) + 1 : r[j] = IF j < i THEN q[j] ELSE IF j = i THEN t ELSE q[j - 1]
  BY InsertAtList
<1>4. /\ \A x : InSeq(r, x) <=> InSeq(q, x) \/ x = t
      /\ Once(q) /\ ~ InSeq(q, t) => Once(r)
  BY InsertAtOnce
<1> HIDE DEF r
<1>5. ASSUME Sorted(q, s.prio) PROVE Sorted(r, s.prio)
  <2> DEFINE P(x) == s.prio[x]
  <2>1. \A x \in TCBs : P(x) \in Nat
    OBVIOUS
  <2> HIDE DEF P
  <2>2. \A j, l \in 1 .. Len(q) : j <= l => P(q[j]) >= P(q[l])
    BY <1>1, <1>5 DEF Sorted, P
  <2>3. /\ \A j \in 1 .. i - 1 : P(q[j]) >= P(t)
        /\ i <= Len(q) => ~(P(q[i]) >= P(t))
    BY <1>2 DEF P
  <2>4. \A l \in 1 .. Len(q) : l >= i => P(t) >= P(q[l])
    <3> SUFFICES ASSUME NEW l \in 1 .. Len(q), l >= i PROVE P(t) >= P(q[l])
      OBVIOUS
    <3>1. i \in 1 .. Len(q) /\ i <= l /\ P(q[i]) >= P(q[l]) /\ ~(P(q[i]) >= P(t))
      BY <1>1, <2>2, <2>3
    <3>2. P(t) \in Nat /\ P(q[i]) \in Nat /\ P(q[l]) \in Nat
      BY <1>1, <2>1, <3>1
    <3> QED BY <3>1, <3>2
  <2>5. ASSUME NEW j \in 1 .. Len(q) + 1, NEW l \in 1 .. Len(q) + 1, j <= l
        PROVE  P(r[j]) >= P(r[l])
    <3>0. i \in Nat /\ j \in Nat /\ l \in Nat
      BY <1>1
    <3>1. CASE l < i
      <4>1. j \in 1 .. Len(q) /\ l \in 1 .. Len(q) /\ r[j] = q[j] /\ r[l] = q[l]
        BY <1>1, <1>3, <2>5, <3>0, <3>1
      <4> QED BY <2>2, <2>5, <4>1
    <3>2. CASE l = i
      <4>1. CASE j = l
        BY <1>3, <2>1, <3>2, <4>1
      <4>2. CASE j # l
        <5>1. j \in 1 .. i - 1 /\ r[j] = q[j] /\ r[l] = t
          BY <1>3, <2>5, <3>0, <3>2, <4>2
        <5> QED BY <2>3, <5>1
      <4> QED BY <4>1, <4>2
    <3>3. CASE l > i
      <4>0. l - 1 \in 1 .. Len(q) /\ l - 1 >= i
        BY <1>1, <3>0, <3>3
      <4>1. l - 1 \in 1 .. Len(q) /\ l - 1 >= i /\ r[l] = q[l - 1]
        BY <1>3, <3>0, <3>3, <4>0
      <4>2. CASE j < i
        <5>0. j \in 1 .. Len(q) /\ j <= l - 1
          BY <1>1, <3>0, <3>3, <4>2
        <5>1. j \in 1 .. Len(q) /\ j <= l - 1 /\ r[j] = q[j]
          BY <1>3, <2>5, <4>2, <5>0, Zenon
        <5> QED BY <2>2, <4>1, <5>1
      <4>3. CASE j = i
        <5>1. r[j] = t
          BY <1>3, <4>3
        <5> QED BY <2>4, <4>1, <5>1
      <4>4. CASE j > i
        <5>1. j - 1 \in 1 .. Len(q) /\ j - 1 <= l - 1 /\ r[j] = q[j - 1]
          BY <1>1, <1>3, <2>5, <3>0, <4>4
        <5> QED BY <2>2, <4>1, <5>1
      <4> QED BY <3>0, <4>2, <4>3, <4>4
    <3> QED BY <3>0, <3>1, <3>2, <3>3
  <2>6. DOMAIN r = 1 .. Len(q) + 1
    BY <1>3
  <2> QED BY <2>5, <2>6 DEF Sorted, P
<1> QED BY <1>2, <1>3, <1>4, <1>5 DEF r
-----------------------------------------------------------------------------
(***************************************************************************)
(* Lists of entries with differences of time.                              *)
(***************************************************************************)

\* The entries of list q have differences.
Dated(q) == Len(q) \in Nat /\ \A i \in 1 .. Len(q) : q[i].d \in Int

\* Function f adds up the differences of the first n entries.
SumUpTo(q, f, n) == f = [i \in 0 .. n |-> IF i = 0 THEN 0 ELSE f[i - 1] + q[i].d]

\* There are sums: take the shortest beginning that has none.
LEMMA SumExists ==
    ASSUME NEW q, NEW n \in Nat
    PROVE  \E f : SumUpTo(q, f, n)
<1> DEFINE T == {m \in Nat : ~ \E g : SumUpTo(q, g, m)}
<1> SUFFICES ASSUME n \in T PROVE FALSE
  OBVIOUS
<1>1. PICK m \in T : \A j \in T : m <= j
  <2>1. T \subseteq Nat /\ T # {}
    OBVIOUS
  <2> HIDE DEF T
  <2> QED BY <2>1, LeastElement
<1>2. m \in Nat /\ ~ \E g : SumUpTo(q, g, m)
  OBVIOUS
<1>3. CASE m = 0
  <2> DEFINE g == [i \in 0 .. 0 |-> 0]
  <2>1. SumUpTo(q, g, 0)
    BY DEF SumUpTo
  <2> QED BY <1>2, <1>3, <2>1
<1>4. CASE m # 0
  <2>1. m - 1 \in Nat /\ m - 1 \notin T
    BY <1>1, <1>2, <1>4
  <2>2. PICK g : SumUpTo(q, g, m - 1)
    BY <2>1
  <2> DEFINE h == [i \in 0 .. m |-> IF i = m THEN g[m - 1] + q[m].d ELSE g[i]]
  <2>3. ASSUME NEW i \in 0 .. m
        PROVE  h[i] = IF i = 0 THEN 0 ELSE h[i - 1] + q[i].d
    <3>1. CASE i = m
      BY <1>2, <1>4, <3>1
    <3>2. CASE i # m
      <4>1. i \in 0 .. m - 1 /\ (i # 0 => i - 1 \in 0 .. m /\ i - 1 # m)
        BY <1>2, <3>2
      <4>2. g[i] = IF i = 0 THEN 0 ELSE g[i - 1] + q[i].d
        BY <2>2, <4>1 DEF SumUpTo
      <4> QED BY <3>2, <4>1, <4>2
    <3> QED BY <3>1, <3>2
  <2>4. DOMAIN h = 0 .. m /\ h = [i \in 0 .. m |-> h[i]]
    OBVIOUS
  <2> HIDE DEF h
  <2>5. SumUpTo(q, h, m)
    BY <2>3, <2>4 DEF SumUpTo
  <2> QED BY <1>2, <2>5
<1> QED BY <1>3, <1>4

\* Functions with the same differences are the same.
LEMMA SameSums ==
    ASSUME NEW n \in Nat, NEW f, NEW g, f[0] = g[0],
           \A i \in 1 .. n : f[i - 1] = g[i - 1] => f[i] = g[i]
    PROVE  \A i \in 0 .. n : f[i] = g[i]
<1> DEFINE T == {i \in 0 .. n : f[i] # g[i]}
<1> SUFFICES ASSUME T # {} PROVE FALSE
  OBVIOUS
<1>1. PICK m \in T : \A j \in T : m <= j
  <2>1. T \subseteq Nat
    OBVIOUS
  <2> HIDE DEF T
  <2> QED BY <2>1, LeastElement
<1>2. m \in 0 .. n /\ f[m] # g[m] /\ m # 0
  OBVIOUS
<1>3. m - 1 \in 0 .. n /\ m - 1 \notin T
  BY <1>1, <1>2
<1>4. f[m - 1] = g[m - 1]
  BY <1>3
<1>5. m \in 1 .. n
  BY <1>2
<1> QED BY <1>2, <1>4, <1>5

\* Sums of integers are integers.
LEMMA SumTypes ==
    ASSUME NEW n \in Nat, NEW f, NEW d, f[0] = 0,
           \A i \in 1 .. n : f[i] = f[i - 1] + d[i] /\ d[i] \in Int
    PROVE  \A i \in 0 .. n : f[i] \in Int
<1> DEFINE T == {i \in 0 .. n : f[i] \notin Int}
<1> SUFFICES ASSUME T # {} PROVE FALSE
  OBVIOUS
<1>1. PICK m \in T : \A j \in T : m <= j
  <2>1. T \subseteq Nat
    OBVIOUS
  <2> HIDE DEF T
  <2> QED BY <2>1, LeastElement
<1>2. m \in 0 .. n /\ f[m] \notin Int /\ m # 0
  OBVIOUS
<1>3. m - 1 \in 0 .. n /\ m - 1 \notin T
  BY <1>1, <1>2
<1>4. f[m - 1] \in Int
  BY <1>3
<1>5. m \in 1 .. n
  BY <1>2
<1> QED BY <1>2, <1>4, <1>5

\* When an entry is due: the recursion that DueAt stands for.
LEMMA DueAtSums ==
    ASSUME NEW q, Dated(q)
    PROVE  /\ DueAt(q, 0) = 0
           /\ \A i \in 0 .. Len(q) : DueAt(q, i) \in Int
           /\ \A i \in 1 .. Len(q) : DueAt(q, i) = DueAt(q, i - 1) + q[i].d
<1> DEFINE N == Len(q)
           w == CHOOSE g : g = [i \in 0 .. N |-> IF i = 0 THEN 0 ELSE g[i - 1] + q[i].d]
<1>0. N \in Nat
  BY DEF Dated
<1>1. \A i : DueAt(q, i) = w[i]
  BY DEF DueAt
<1>2. SumUpTo(q, w, N)
  BY <1>0, SumExists DEF SumUpTo
<1> HIDE DEF w
<1>3. \A i \in 0 .. N : w[i] = IF i = 0 THEN 0 ELSE w[i - 1] + q[i].d
  BY <1>2 DEF SumUpTo
<1>4. w[0] = 0 /\ \A i \in 1 .. N : w[i] = w[i - 1] + q[i].d
  BY <1>0, <1>3
<1> DEFINE d == [i \in 1 .. N |-> q[i].d]
<1>5. \A i \in 1 .. N : w[i] = w[i - 1] + d[i] /\ d[i] \in Int
  BY <1>4 DEF Dated
<1> HIDE DEF d
<1>6. \A i \in 0 .. N : w[i] \in Int
  <2> HIDE DEF N
  <2> QED BY <1>0, <1>4, <1>5, SumTypes
<1> QED BY <1>1, <1>4, <1>6

\* What has the differences of q is DueAt.
LEMMA DueAtIs ==
    ASSUME NEW q, Dated(q), NEW f, f[0] = 0, \A i \in 1 .. Len(q) : f[i] = f[i - 1] + q[i].d
    PROVE  \A i \in 0 .. Len(q) : DueAt(q, i) = f[i]
<1> DEFINE N == Len(q)
           g == [i \in 0 .. N |-> DueAt(q, i)]
<1>1. N \in Nat
  BY DEF Dated
<1>2. f[0] = g[0]
  BY <1>1, DueAtSums
<1>3. \A i \in 1 .. N : f[i - 1] = g[i - 1] => f[i] = g[i]
  <2>1. \A i \in 1 .. N : i \in 0 .. N /\ i - 1 \in 0 .. N
    BY <1>1
  <2> QED BY <2>1, DueAtSums
<1>4. \A i \in 0 .. N : g[i] = DueAt(q, i)
  OBVIOUS
<1> HIDE DEF g, N
<1>5. \A i \in 0 .. N : f[i] = g[i]
  BY <1>1, <1>2, <1>3, SameSums
<1> QED BY <1>4, <1>5 DEF N

\* The differences of r are those of q with d at position i.
DiffAt(q, i, d, r) ==
    /\ Len(r) = Len(q) + 1
    /\ \A j \in 1 .. Len(q) + 1 : r[j].d =
          IF j < i THEN q[j].d ELSE IF j = i THEN d
          ELSE IF j = i + 1 THEN q[i].d - d ELSE q[j - 1].d

\* What was due stays due when it was, and the new entry is due in delay ticks.
DuesAt(q, i, delay, r) ==
    \A j \in 1 .. Len(q) + 1 :
        DueAt(r, j) = IF j < i THEN DueAt(q, j) ELSE IF j = i THEN delay ELSE DueAt(q, j - 1)

\* An entry that is due in delay ticks is put at position i.
LEMMA DueInserted ==
    ASSUME NEW q, Dated(q), NEW i \in 1 .. Len(q) + 1, NEW delay \in Int, NEW d,
           d = delay - DueAt(q, i - 1),
           NEW r, DiffAt(q, i, d, r)
    PROVE  Dated(r) /\ d \in Int /\ DuesAt(q, i, delay, r)
<1> DEFINE N == Len(q)
           D(j) == DueAt(q, j)
<1>0. /\ Len(r) = Len(q) + 1
      /\ \A j \in 1 .. Len(q) + 1 : r[j].d =
            IF j < i THEN q[j].d ELSE IF j = i THEN d
            ELSE IF j = i + 1 THEN q[i].d - d ELSE q[j - 1].d
  BY DEF DiffAt
<1>1. N \in Nat /\ i \in Nat /\ i - 1 \in 0 .. N /\ \A j \in 1 .. N : q[j].d \in Int
  BY DEF Dated
<1>2. D(0) = 0 /\ (\A j \in 0 .. N : D(j) \in Int) /\ \A j \in 1 .. N : D(j) = D(j - 1) + q[j].d
  BY DueAtSums
<1>3. d \in Int /\ d = delay - D(i - 1)
  BY <1>1, <1>2
<1> HIDE DEF D
<1>4. ASSUME NEW j \in 1 .. N + 1 PROVE r[j].d \in Int
  <2>1. j < i => j \in 1 .. N
    BY <1>1
  <2>2. j > i => j - 1 \in 1 .. N
    BY <1>1
  <2>3. j = i + 1 => i \in 1 .. N
    BY <1>1
  <2>4. /\ j < i => q[j].d \in Int
        /\ j > i => q[j - 1].d \in Int
        /\ j = i + 1 => q[i].d - d \in Int
    BY <1>1, <1>3, <2>1, <2>2, <2>3
  <2>5. j < i \/ j = i \/ j > i
    BY <1>1
  <2>6. \/ j < i /\ r[j].d = q[j].d
        \/ j = i /\ r[j].d = d
        \/ j = i + 1 /\ r[j].d = q[i].d - d
        \/ j > i /\ r[j].d = q[j - 1].d
    BY <1>0, <1>1, <2>5
  <2> QED BY <1>3, <2>4, <2>6
<1>5. Dated(r)
  BY <1>0, <1>1, <1>4 DEF Dated
<1> DEFINE F(j) == IF j < i THEN D(j) ELSE IF j = i THEN delay ELSE D(j - 1)
           f == [j \in 0 .. N + 1 |-> F(j)]
<1>6. ASSUME NEW j \in 1 .. N + 1 PROVE F(j) = F(j - 1) + r[j].d
  <2>1. CASE j < i
    <3>1. j \in 1 .. N /\ j - 1 < i /\ j \in 0 .. N /\ j - 1 \in 0 .. N
      BY <1>1, <2>1
    <3>2. r[j].d = q[j].d
      BY <1>0, <2>1
    <3> QED BY <1>1, <1>2, <2>1, <3>1, <3>2
  <2>2. CASE j = i
    <3>1. r[j].d = d /\ F(j - 1) = D(i - 1) /\ F(j) = delay /\ D(i - 1) \in Int
      BY <1>0, <1>1, <1>2, <2>2
    <3> QED BY <1>3, <3>1
  <2>3. CASE j = i + 1
    <3>1. r[j].d = q[i].d - d /\ F(j - 1) = delay /\ F(j) = D(i) /\ i \in 1 .. N
      BY <1>0, <1>1, <2>3
    <3>2. D(i) = D(i - 1) + q[i].d /\ D(i) \in Int /\ D(i - 1) \in Int /\ q[i].d \in Int
      BY <1>1, <1>2, <3>1
    <3> QED BY <1>3, <3>1, <3>2
  <2>4. CASE j > i + 1
    <3>1. j - 1 \in 1 .. N /\ j - 1 > i /\ (j - 1) - 1 = j - 2 /\ j - 2 \in 0 .. N
      BY <1>1, <2>4
    <3>0. ~(j < i) /\ j # i /\ j # i + 1
      BY <1>1, <2>4
    <3>4. r[j].d = q[j - 1].d
      BY <1>0, <1>6, <3>0, Zenon DEF N
    <3>2. r[j].d = q[j - 1].d /\ F(j) = D(j - 1) /\ F(j - 1) = D(j - 2)
      BY <3>0, <3>1, <3>4 DEF N
    <3>3. D(j - 1) = D((j - 1) - 1) + q[j - 1].d
      BY <1>2, <3>1
    <3> QED BY <3>1, <3>2, <3>3
  <2>5. j < i \/ j = i \/ j = i + 1 \/ j > i + 1
    BY <1>1
  <2> QED BY <2>1, <2>2, <2>3, <2>4, <2>5, Zenon
<1>7. F(0) = 0
  BY <1>1, <1>2
<1> HIDE DEF F
<1>8. f[0] = 0 /\ \A j \in 1 .. Len(r) : f[j] = f[j - 1] + r[j].d
  <2>1. \A j \in 1 .. N + 1 : j \in 0 .. N + 1 /\ j - 1 \in 0 .. N + 1
    BY <1>1
  <2>2. 0 \in 0 .. N + 1
    BY <1>1
  <2> QED BY <1>0, <1>6, <1>7, <2>1, <2>2
<1>9. \A j \in 1 .. N + 1 : j \in 0 .. Len(r) /\ f[j] = F(j)
  BY <1>0, <1>1
<1> HIDE DEF f, N
<1>10. \A j \in 0 .. Len(r) : DueAt(r, j) = f[j]
  BY <1>5, <1>8, DueAtIs
<1>11. \A j \in 1 .. N + 1 : DueAt(r, j) = F(j)
  BY <1>9, <1>10
<1> QED BY <1>3, <1>5, <1>11 DEF F, D, N, DuesAt

\* The entry at position i is removed.
LEMMA DueRemoved ==
    ASSUME NEW q, Dated(q), NEW i \in 1 .. Len(q), NEW r, Len(r) = Len(q) - 1,
           \A j \in 1 .. Len(q) - 1 : r[j].d =
              IF j < i THEN q[j].d ELSE IF j = i THEN q[i + 1].d + q[i].d ELSE q[j + 1].d
    PROVE  /\ Dated(r)
           /\ \A j \in 1 .. Len(q) - 1 : DueAt(r, j) =
                 IF j < i THEN DueAt(q, j) ELSE DueAt(q, j + 1)
<1> DEFINE N == Len(q)
           D(j) == DueAt(q, j)
<1>1. N \in Nat /\ N - 1 \in Nat /\ i \in Nat /\ i \in 1 .. N /\ \A j \in 1 .. N : q[j].d \in Int
  BY DEF Dated
<1>2. D(0) = 0 /\ (\A j \in 0 .. N : D(j) \in Int) /\ \A j \in 1 .. N : D(j) = D(j - 1) + q[j].d
  BY DueAtSums
<1> HIDE DEF D
<1>4. ASSUME NEW j \in 1 .. N - 1 PROVE r[j].d \in Int
  <2>1. j \in 1 .. N /\ j + 1 \in 1 .. N
    BY <1>1
  <2>2. q[j].d \in Int /\ q[j + 1].d \in Int
    BY <1>1, <2>1
  <2> QED BY <1>1, <2>2
<1>5. Dated(r)
  BY <1>1, <1>4 DEF Dated
<1> DEFINE F(j) == IF j < i THEN D(j) ELSE D(j + 1)
           f == [j \in 0 .. N - 1 |-> F(j)]
<1>6. ASSUME NEW j \in 1 .. N - 1 PROVE F(j) = F(j - 1) + r[j].d
  <2>1. CASE j < i
    <3>1. j \in 1 .. N /\ j - 1 < i
      BY <1>1, <2>1
    <3>2. r[j].d = q[j].d
      BY <2>1
    <3> QED BY <1>2, <2>1, <3>1, <3>2
  <2>2. CASE j = i
    <3>1. /\ r[j].d = q[i + 1].d + q[i].d /\ F(j - 1) = D(i - 1) /\ F(j) = D(i + 1)
          /\ i \in 1 .. N /\ i + 1 \in 1 .. N /\ (i + 1) - 1 = i /\ i - 1 \in 0 .. N /\ i \in 0 .. N
          /\ i + 1 \in 0 .. N
      BY <1>1, <2>2
    <3>2. D(i) = D(i - 1) + q[i].d /\ D(i + 1) = D((i + 1) - 1) + q[i + 1].d
      BY <1>2, <3>1
    <3>3. D(i - 1) \in Int /\ D(i) \in Int /\ D(i + 1) \in Int /\ q[i].d \in Int /\ q[i + 1].d \in Int
      BY <1>1, <1>2, <3>1
    <3> HIDE DEF F
    <3>4. \A a, x, y \in Int : (a + x) + y = a + (y + x)
      OBVIOUS
    <3>5. D(i + 1) = (D(i - 1) + q[i].d) + q[i + 1].d
      BY <3>1, <3>2
    <3>6. D(i + 1) = D(i - 1) + (q[i + 1].d + q[i].d)
      BY <3>3, <3>4, <3>5, ZenonT(40)
    <3> QED BY <3>1, <3>6, Zenon
  <2>3. CASE j > i
    <3>1. j + 1 \in 1 .. N /\ (j + 1) - 1 = j /\ (j - 1) + 1 = j /\ ~(j - 1 < i) /\ ~(j < i)
      BY <1>1, <2>3
    <3>2. r[j].d = q[j + 1].d /\ F(j) = D(j + 1) /\ F(j - 1) = D(j)
      BY <1>1, <2>3, <3>1
    <3>3. D(j + 1) = D((j + 1) - 1) + q[j + 1].d
      BY <1>2, <3>1
    <3> QED BY <3>1, <3>2, <3>3
  <2>5. j < i \/ j = i \/ j > i
    BY <1>1
  <2> QED BY <2>1, <2>2, <2>3, <2>5, Zenon
<1>7. F(0) = 0
  BY <1>1, <1>2
<1> HIDE DEF F
<1>8. f[0] = 0 /\ \A j \in 1 .. Len(r) : f[j] = f[j - 1] + r[j].d
  <2>1. \A j \in 1 .. N - 1 : j \in 0 .. N - 1 /\ j - 1 \in 0 .. N - 1
    BY <1>1
  <2>2. 0 \in 0 .. N - 1
    BY <1>1
  <2> QED BY <1>6, <1>7, <2>1, <2>2
<1>9. \A j \in 1 .. N - 1 : j \in 0 .. Len(r) /\ f[j] = F(j)
  BY <1>1
<1> HIDE DEF f, N
<1>10. \A j \in 0 .. Len(r) : DueAt(r, j) = f[j]
  BY <1>5, <1>8, DueAtIs
<1>11. \A j \in 1 .. N - 1 : DueAt(r, j) = F(j)
  BY <1>9, <1>10
<1> QED BY <1>5, <1>11 DEF F, D, N

\* A tick passes.
LEMMA DueTicked ==
    ASSUME NEW q, Dated(q), NEW r, Len(r) = Len(q),
           \A j \in 1 .. Len(q) : r[j].d = IF j = 1 THEN q[j].d - 1 ELSE q[j].d
    PROVE  Dated(r) /\ \A j \in 1 .. Len(q) : DueAt(r, j) = DueAt(q, j) - 1
<1> DEFINE N == Len(q)
           D(j) == DueAt(q, j)
<1>1. N \in Nat /\ \A j \in 1 .. N : q[j].d \in Int
  BY DEF Dated
<1>2. D(0) = 0 /\ (\A j \in 0 .. N : D(j) \in Int) /\ \A j \in 1 .. N : D(j) = D(j - 1) + q[j].d
  BY DueAtSums
<1>3. Dated(r)
  BY <1>1 DEF Dated
<1> HIDE DEF D
<1> DEFINE f == [j \in 0 .. N |-> IF j = 0 THEN 0 ELSE D(j) - 1]
<1>4. ASSUME NEW j \in 1 .. N PROVE f[j] = f[j - 1] + r[j].d
  <2>1. j \in 0 .. N /\ j - 1 \in 0 .. N /\ D(j) \in Int /\ D(j - 1) \in Int /\ q[j].d \in Int
    BY <1>1, <1>2
  <2>2. D(j) = D(j - 1) + q[j].d
    BY <1>2
  <2>3. f[j] = D(j) - 1 /\ f[j - 1] = IF j = 1 THEN 0 ELSE D(j - 1) - 1
    BY <1>1, <2>1
  <2> HIDE DEF f, N
  <2>4. CASE j = 1
    BY <1>2, <2>1, <2>2, <2>3, <2>4 DEF N
  <2>5. CASE j # 1
    BY <2>1, <2>2, <2>3, <2>5 DEF N
  <2> QED BY <2>4, <2>5
<1>5. f[0] = 0 /\ \A j \in 1 .. N : f[j] = D(j) - 1 /\ j \in 0 .. N
  BY <1>1
<1> HIDE DEF f
<1>6. \A j \in 0 .. Len(r) : DueAt(r, j) = f[j]
  BY <1>3, <1>4, <1>5, DueAtIs
<1> QED BY <1>3, <1>5, <1>6 DEF D

\* The first n entries, the last of which is due now, are taken off.
LEMMA DueRest ==
    ASSUME NEW q, Dated(q), NEW n \in 0 .. Len(q), DueAt(q, n) = 0, NEW r, Len(r) = Len(q) - n,
           \A j \in 1 .. Len(q) - n : r[j].d = q[n + j].d
    PROVE  Dated(r) /\ \A j \in 1 .. Len(q) - n : DueAt(r, j) = DueAt(q, n + j)
<1> DEFINE N == Len(q)
           D(j) == DueAt(q, j)
           M == N - n
<1>1. N \in Nat /\ n \in Nat /\ M \in Nat /\ Len(r) = M /\ \A j \in 1 .. N : q[j].d \in Int
  BY DEF Dated
<1>2. D(n) = 0 /\ \A j \in 1 .. N : D(j) = D(j - 1) + q[j].d
  BY DueAtSums
<1>3. \A j \in 1 .. M : n + j \in 1 .. N /\ (n + j) - 1 = n + (j - 1) /\ r[j].d = q[n + j].d
  BY <1>1
<1>4. Dated(r)
  BY <1>1, <1>3 DEF Dated
<1> HIDE DEF D
<1> DEFINE f == [j \in 0 .. M |-> D(n + j)]
<1>5. \A j \in 1 .. M : f[j] = D(n + j) /\ f[j - 1] = D(n + (j - 1)) /\ j \in 0 .. M
  BY <1>1
<1>6. f[0] = 0
  BY <1>1, <1>2
<1> HIDE DEF f, M, N
<1>7. ASSUME NEW j \in 1 .. M PROVE f[j] = f[j - 1] + r[j].d
  <2>1. D(n + j) = D((n + j) - 1) + q[n + j].d
    BY <1>2, <1>3
  <2> QED BY <1>3, <1>5, <2>1
<1>8. \A j \in 0 .. Len(r) : DueAt(r, j) = f[j]
  BY <1>1, <1>4, <1>6, <1>7, DueAtIs
<1> QED BY <1>1, <1>4, <1>5, <1>8 DEF D, M, N
-----------------------------------------------------------------------------
(***************************************************************************)
(* The delay list.                                                         *)
(***************************************************************************)

\* A delay list is one whose times can be added up.
LEMMA DelaysDated ==
    ASSUME NEW q \in Seq(Delays)
    PROVE  /\ Dated(q) /\ DOMAIN q = 1 .. Len(q) /\ Len(q) \in Nat
           /\ \A i \in 1 .. Len(q) : q[i] \in Delays /\ q[i].t \in Tasks /\ q[i].d \in Int
<1>1. DOMAIN q = 1 .. Len(q) /\ Len(q) \in Nat /\ \A i \in 1 .. Len(q) : q[i] \in Delays
  OBVIOUS
<1>2. \A e \in Delays : e.t \in Tasks /\ e.d \in Int
  BY DEF Delays
<1> QED BY <1>1, <1>2 DEF Dated

\* A thread is in the delay list just when it is due at some time.
LEMMA InDlyDue ==
    ASSUME NEW q, NEW t
    PROVE  InDly(q, t) <=> \E n : Due(q, t, n)
  BY DEF InDly, Due

\* One difference is changed.
LEMMA ChangeDelay ==
    ASSUME NEW q \in Seq(Delays), NEW i \in 1 .. Len(q), NEW d \in Int
    PROVE  /\ [q EXCEPT ![i].d = d] \in Seq(Delays) /\ Len([q EXCEPT ![i].d = d]) = Len(q)
           /\ \A j \in 1 .. Len(q) : /\ [q EXCEPT ![i].d = d][j].t = q[j].t
                                     /\ [q EXCEPT ![i].d = d][j].d = IF j = i THEN d ELSE q[j].d
<1>1. q[i] \in Delays /\ [q[i] EXCEPT !.d = d] \in Delays
  BY DelaysDated DEF Delays
<1>2. [q EXCEPT ![i].d = d] = [q EXCEPT ![i] = [q[i] EXCEPT !.d = d]]
  OBVIOUS
<1> DEFINE e == [q[i] EXCEPT !.d = d]
<1>3. e \in Delays /\ e.t = q[i].t /\ e.d = d
  BY <1>1 DEF Delays
<1> HIDE DEF e
<1>4. /\ [q EXCEPT ![i] = e] \in Seq(Delays) /\ Len([q EXCEPT ![i] = e]) = Len(q)
      /\ \A j \in 1 .. Len(q) : [q EXCEPT ![i] = e][j] = IF j = i THEN e ELSE q[j]
  BY <1>3
<1> QED BY <1>2, <1>3, <1>4 DEF e

\* An entry for thread t at position i, due in delay ticks.
DelayAt(q, i, delay, t, d, r) ==
    /\ r \in Seq(Delays) /\ Len(r) = Len(q) + 1
    /\ \A j \in 1 .. Len(q) + 1 : r[j].t =
          IF j < i THEN q[j].t ELSE IF j = i THEN t ELSE q[j - 1].t
    /\ \A j \in 1 .. Len(q) + 1 : r[j].d =
          IF j < i THEN q[j].d ELSE IF j = i THEN d
          ELSE IF j = i + 1 THEN q[i].d - d ELSE q[j - 1].d
    /\ DuesAt(q, i, delay, r)

\* An entry is put in a list whose next difference was made smaller.
LEMMA InsertChanged ==
    ASSUME NEW q \in Seq(Delays), NEW i \in 1 .. Len(q) + 1, NEW delay \in Int,
           NEW e \in Delays, e.d = delay - DueAt(q, i - 1),
           NEW p \in Seq(Delays), Len(p) = Len(q),
           \A j \in 1 .. Len(q) : /\ p[j].t = q[j].t
                                  /\ p[j].d = IF j = i THEN q[j].d - e.d ELSE q[j].d
    PROVE  DelayAt(q, i, delay, e.t, e.d, InsertAt(p, i, e))
<1> DEFINE r == InsertAt(p, i, e)
<1>1. Dated(q) /\ Len(q) \in Nat /\ i \in Nat
  BY DelaysDated
<1>2. i \in 1 .. Len(p) + 1
  OBVIOUS
<1>3. /\ r \in Seq(Delays) /\ Len(r) = Len(p) + 1
      /\ \A j \in 1 .. Len(p) + 1 : r[j] = IF j < i THEN p[j] ELSE IF j = i THEN e ELSE p[j - 1]
  BY <1>2, InsertAtList
<1> HIDE DEF r
<1>4. ASSUME NEW j \in 1 .. Len(q) + 1
      PROVE  /\ r[j].t = IF j < i THEN q[j].t ELSE IF j = i THEN e.t ELSE q[j - 1].t
             /\ r[j].d = IF j < i THEN q[j].d ELSE IF j = i THEN e.d
                         ELSE IF j = i + 1 THEN q[i].d - e.d ELSE q[j - 1].d
  <2>0. r[j] = IF j < i THEN p[j] ELSE IF j = i THEN e ELSE p[j - 1]
    BY <1>3
  <2>1. CASE j < i
    <3>1. j \in 1 .. Len(q) /\ j # i
      BY <1>1, <2>1
    <3> QED BY <2>0, <2>1, <3>1
  <2>2. CASE j = i
    BY <1>1, <2>0, <2>2
  <2>3. CASE j > i
    <3>1. j - 1 \in 1 .. Len(q) /\ ~(j < i) /\ j # i /\ (j - 1 = i <=> j = i + 1)
      BY <1>1, <2>3
    <3>2. r[j] = p[j - 1] /\ p[j - 1].t = q[j - 1].t
          /\ p[j - 1].d = IF j - 1 = i THEN q[j - 1].d - e.d ELSE q[j - 1].d
      BY <2>0, <3>1
    <3> QED BY <3>1, <3>2
  <2>4. j < i \/ j = i \/ j > i
    BY <1>1
  <2> QED BY <2>1, <2>2, <2>3, <2>4, Zenon
<1>5. Len(r) = Len(q) + 1
  BY <1>3
<1>6. DuesAt(q, i, delay, r)
  <2>1. PICK d : d = e.d
    OBVIOUS
  <2>2. \A j \in 1 .. Len(q) + 1 :
           r[j].d = IF j < i THEN q[j].d ELSE IF j = i THEN d
                    ELSE IF j = i + 1 THEN q[i].d - d ELSE q[j - 1].d
    BY <1>4, <2>1
  <2>3. d = delay - DueAt(q, i - 1)
    BY <2>1
  <2>4. DiffAt(q, i, d, r)
    BY <1>5, <2>2 DEF DiffAt
  <2>5. Dated(q) /\ i \in 1 .. Len(q) + 1 /\ delay \in Int
    BY <1>1
  <2> QED BY <2>3, <2>4, <2>5, DueInserted, Zenon
<1>7. DelayAt(q, i, delay, e.t, e.d, r)
  BY <1>3, <1>4, <1>5, <1>6 DEF DelayAt
<1> QED BY <1>7 DEF r

\* The list that rt_put_dly makes.
LEMMA InsertDelay ==
    ASSUME NEW q \in Seq(Delays), NEW i \in 1 .. Len(q) + 1, NEW delay \in Int, NEW t \in Tasks,
           NEW d, d = delay - DueAt(q, i - 1)
    PROVE  /\ d \in Int
           /\ DelayAt(q, i, delay, t, d,
                  InsertAt(IF i > Len(q) THEN q ELSE [q EXCEPT ![i].d = @ - d], i, [t |-> t, d |-> d]))
<1> DEFINE p == IF i > Len(q) THEN q ELSE [q EXCEPT ![i].d = @ - d]
           e == [t |-> t, d |-> d]
<1>1. Dated(q) /\ Len(q) \in Nat /\ i \in Nat /\ \A j \in 1 .. Len(q) : q[j].d \in Int
  BY DelaysDated
<1>2. d \in Int
  <2>1. i - 1 \in 0 .. Len(q)
    BY <1>1
  <2>2. DueAt(q, i - 1) \in Int
    BY <1>1, <2>1, DueAtSums
  <2> QED BY <2>2
<1>3. /\ p \in Seq(Delays) /\ Len(p) = Len(q)
      /\ \A j \in 1 .. Len(q) : /\ p[j].t = q[j].t
                                /\ p[j].d = IF j = i THEN q[j].d - d ELSE q[j].d
  <2>1. CASE i > Len(q)
    <3>1. p = q /\ \A j \in 1 .. Len(q) : j # i
      BY <1>1, <2>1
    <3> HIDE DEF p
    <3> QED BY <3>1
  <2>2. CASE ~(i > Len(q))
    <3>1. i \in 1 .. Len(q) /\ q[i].d - d \in Int
      BY <1>1, <1>2, <2>2
    <3>2. p = [q EXCEPT ![i].d = q[i].d - d]
      BY <2>2, <3>1
    <3> HIDE DEF p
    <3> QED BY <3>1, <3>2, ChangeDelay
  <2> QED BY <2>1, <2>2
<1>4. e \in Delays /\ e.t = t /\ e.d = d
  BY <1>2 DEF Delays
<1> HIDE DEF p, e
<1>5. DelayAt(q, i, delay, e.t, e.d, InsertAt(p, i, e))
  BY <1>3, <1>4, InsertChanged, SMTT(30)
<1> QED BY <1>2, <1>4, <1>5 DEF p, e

\* The entry at position i is removed; the next one takes its ticks over.
DelayGone(q, i, r) ==
    /\ r \in Seq(Delays) /\ Len(r) = Len(q) - 1
    /\ \A j \in 1 .. Len(q) - 1 : r[j].t = IF j < i THEN q[j].t ELSE q[j + 1].t
    /\ \A j \in 1 .. Len(q) - 1 : r[j].d =
          IF j < i THEN q[j].d ELSE IF j = i THEN q[i + 1].d + q[i].d ELSE q[j + 1].d
    /\ \A j \in 1 .. Len(q) - 1 : DueAt(r, j) = IF j < i THEN DueAt(q, j) ELSE DueAt(q, j + 1)

\* The list that rt_rmv_dly makes.
LEMMA RemoveDelay ==
    ASSUME NEW q \in Seq(Delays), NEW i \in 1 .. Len(q),
           NEW p, p = IF i = Len(q) THEN q ELSE [q EXCEPT ![i + 1].d = @ + q[i].d],
           NEW r, r = RemoveAt(p, i)
    PROVE  DelayGone(q, i, r)
<1>1. Dated(q) /\ Len(q) \in Nat /\ i \in Nat /\ \A j \in 1 .. Len(q) : q[j] \in Delays /\ q[j].d \in Int
  BY DelaysDated
<1>3. /\ p \in Seq(Delays) /\ Len(p) = Len(q)
      /\ \A j \in 1 .. Len(q) : /\ p[j].t = q[j].t
                                /\ p[j].d = IF j = i + 1 THEN q[j].d + q[i].d ELSE q[j].d
  <2>1. CASE i = Len(q)
    <3>1. p = q /\ \A j \in 1 .. Len(q) : j # i + 1
      BY <1>1, <2>1
    <3> QED BY <3>1
  <2>2. CASE i # Len(q)
    <3>1. i + 1 \in 1 .. Len(q)
      BY <1>1, <2>2
    <3>2. q[i + 1].d + q[i].d \in Int
      BY <1>1, <3>1
    <3>3. p = [q EXCEPT ![i + 1].d = q[i + 1].d + q[i].d]
      BY <2>2, <3>1
    <3> QED BY <3>1, <3>2, <3>3, ChangeDelay
  <2> QED BY <2>1, <2>2
<1>5. i \in 1 .. Len(p)
  BY <1>3, Zenon
<1>6. /\ r \in Seq(Delays) /\ Len(r) = Len(p) - 1
      /\ \A j \in 1 .. Len(p) - 1 : r[j] = IF j < i THEN p[j] ELSE p[j + 1]
  BY <1>3, <1>5, RemoveAtList, ZenonT(40)
<1>7. ASSUME NEW j \in 1 .. Len(q) - 1
      PROVE  /\ r[j].t = IF j < i THEN q[j].t ELSE q[j + 1].t
             /\ r[j].d = IF j < i THEN q[j].d ELSE IF j = i THEN q[i + 1].d + q[i].d ELSE q[j + 1].d
  <2>0. r[j] = IF j < i THEN p[j] ELSE p[j + 1]
    BY <1>3, <1>6, Zenon
  <2>1. CASE j < i
    <3>1. j \in 1 .. Len(q) /\ j # i + 1
      BY <1>1, <2>1
    <3> QED BY <1>3, <2>0, <2>1, <3>1
  <2>2. CASE j >= i
    <3>1. j + 1 \in 1 .. Len(q) /\ ~(j < i) /\ (j + 1 = i + 1 <=> j = i)
      BY <1>1, <2>2
    <3>2. r[j] = p[j + 1] /\ p[j + 1].t = q[j + 1].t
          /\ p[j + 1].d = IF j + 1 = i + 1 THEN q[j + 1].d + q[i].d ELSE q[j + 1].d
      BY <1>3, <2>0, <3>1
    <3> QED BY <3>1, <3>2
  <2>4. j < i \/ j >= i
    BY <1>1
  <2> QED BY <2>1, <2>2, <2>4, Zenon
<1>8. \A j \in 1 .. Len(q) - 1 : DueAt(r, j) = IF j < i THEN DueAt(q, j) ELSE DueAt(q, j + 1)
  <2>1. Len(r) = Len(q) - 1
    BY <1>3, <1>6, Zenon
  <2>2. \A j \in 1 .. Len(q) - 1 :
           r[j].d = IF j < i THEN q[j].d ELSE IF j = i THEN q[i + 1].d + q[i].d ELSE q[j + 1].d
    BY <1>7
  <2> QED BY <1>1, <2>1, <2>2, DueRemoved, Zenon
<1> QED BY <1>3, <1>6, <1>7, <1>8, Zenon DEF DelayGone

\* After that the thread is due in delay ticks, and the others when they were.
LEMMA DelayAtDue ==
    ASSUME NEW q \in Seq(Delays), NEW i \in 1 .. Len(q) + 1, NEW delay, NEW t, NEW d, NEW r,
           DelayAt(q, i, delay, t, d, r), OnceDly(q), ~ InDly(q, t)
    PROVE  /\ OnceDly(r)
           /\ \A x, n : Due(r, x, n) <=> Due(q, x, n) \/ (x = t /\ n = delay)
<1>1. /\ Len(q) \in Nat /\ i \in Nat /\ DOMAIN q = 1 .. Len(q) /\ DOMAIN r = 1 .. Len(q) + 1
  BY DelaysDated DEF DelayAt
<1> DEFINE At(j) == IF j < i THEN j ELSE j - 1
<1>2. \A j \in DOMAIN r : j # i =>
          At(j) \in DOMAIN q /\ r[j].t = q[At(j)].t /\ DueAt(r, j) = DueAt(q, At(j))
  <2> SUFFICES ASSUME NEW j \in DOMAIN r, j # i
               PROVE  At(j) \in DOMAIN q /\ r[j].t = q[At(j)].t /\ DueAt(r, j) = DueAt(q, At(j))
    OBVIOUS
  <2>1. At(j) \in DOMAIN q
    BY <1>1
  <2>2. j \in 1 .. Len(q) + 1
    BY <1>1
  <2> QED BY <2>1, <2>2 DEF DelayAt, DuesAt
<1>3. i \in DOMAIN r /\ r[i].t = t /\ DueAt(r, i) = delay
  BY <1>1 DEF DelayAt, DuesAt
<1>4. \A j, l \in DOMAIN r : j # i /\ l # i /\ At(j) = At(l) => j = l
  BY <1>1
<1>5. \A j \in DOMAIN q : \E l \in DOMAIN r : l # i /\ At(l) = j
  <2> SUFFICES ASSUME NEW j \in DOMAIN q PROVE \E l \in DOMAIN r : l # i /\ At(l) = j
    OBVIOUS
  <2> DEFINE l == IF j < i THEN j ELSE j + 1
  <2>1. l \in DOMAIN r /\ l # i /\ At(l) = j
    BY <1>1
  <2> QED BY <2>1
<1> HIDE DEF At
<1>6. \A j \in DOMAIN q : q[j].t # t
  BY DEF InDly
<1>7. ASSUME NEW j \in DOMAIN r, NEW l \in DOMAIN r, r[j].t = r[l].t
      PROVE  j = l
  <2>1. j = i <=> l = i
    BY <1>2, <1>3, <1>6, <1>7
  <2>2. j # i => At(j) = At(l)
    BY <1>2, <1>7, <2>1 DEF OnceDly
  <2> QED BY <1>4, <2>1, <2>2
<1>8. OnceDly(r)
  BY <1>7 DEF OnceDly
<1>9. ASSUME NEW x, NEW n, Due(r, x, n) PROVE Due(q, x, n) \/ (x = t /\ n = delay)
  <2>1. PICK j \in DOMAIN r : r[j].t = x /\ DueAt(r, j) = n
    BY <1>9 DEF Due
  <2> QED BY <1>2, <1>3, <2>1 DEF Due
<1>10. ASSUME NEW x, NEW n, Due(q, x, n) \/ (x = t /\ n = delay) PROVE Due(r, x, n)
  <2>1. CASE Due(q, x, n)
    <3>1. PICK j \in DOMAIN q : q[j].t = x /\ DueAt(q, j) = n
      BY <2>1 DEF Due
    <3>2. PICK l \in DOMAIN r : l # i /\ At(l) = j
      BY <1>5
    <3> QED BY <1>2, <3>1, <3>2 DEF Due
  <2>2. CASE x = t /\ n = delay
    BY <1>3, <2>2 DEF Due
  <2> QED BY <1>10, <2>1, <2>2
<1> QED BY <1>8, <1>9, <1>10

\* List r is q with thread t, due in delay ticks.
Enters(q, r, t, delay) ==
    /\ OnceDly(r)
    /\ \A x, n : Due(r, x, n) <=> Due(q, x, n) \/ (x = t /\ n = delay)
    /\ Spaced(q) /\ delay > 0 => Spaced(r)

\* rt_put_dly makes the thread due in delay ticks.
LEMMA PutDly ==
    ASSUME NEW s, s.dly \in Seq(Delays), OnceDly(s.dly), NEW t \in Tasks, ~ InDly(s.dly, t),
           NEW delay \in Int
    PROVE  \E r \in Seq(Delays) :
              rt_put_dly(s, t, delay) = [s EXCEPT !.dly = r] /\ Enters(s.dly, r, t, delay)
<1>1. PICK q : q = s.dly
  OBVIOUS
<1>2. q \in Seq(Delays) /\ OnceDly(q) /\ ~ InDly(q, t)
  BY <1>1
<1>3. Len(q) \in Nat /\ Dated(q) /\ DOMAIN q = 1 .. Len(q)
  BY <1>2, DelaysDated
<1>4. PICK A, T, i : /\ A = {l \in 1 .. Len(q) : DueAt(q, l) < delay}
                     /\ T = {j \in 0 .. Len(q) : \A l \in 1 .. j : DueAt(q, l) < delay}
                     /\ i = Max(T) + 1
  OBVIOUS
<1>5. T = AllowedUpTo(Len(q), A)
  <2>1. \A j \in 0 .. Len(q) : \A l \in 1 .. j : l \in 1 .. Len(q)
    BY <1>3
  <2>2. \A j \in 0 .. Len(q) :
            (\A l \in 1 .. j : DueAt(q, l) < delay) <=> (\A l \in 1 .. j : l \in A)
    BY <1>4, <2>1
  <2> QED BY <1>4, <2>2 DEF AllowedUpTo
<1>6. i \in 1 .. Len(q) + 1 /\ (\A l \in 1 .. i - 1 : l \in A) /\ (i <= Len(q) => i \notin A)
  <2>1. i = Max(T) + 1
    BY <1>4
  <2> QED BY <1>3, <1>5, <2>1, PlaceInList
<1>7. PICK d : d = delay - DueAt(q, i - 1)
  OBVIOUS
<1>8. PICK r : r = InsertAt(IF i > Len(q) THEN q ELSE [q EXCEPT ![i].d = @ - d], i, [t |-> t, d |-> d])
  OBVIOUS
<1>9. rt_put_dly(s, t, delay) = [s EXCEPT !.dly = r]
  BY <1>1, <1>4, <1>7, <1>8 DEF rt_put_dly, Place
<1>10. d \in Int /\ DelayAt(q, i, delay, t, d, r)
  BY <1>2, <1>6, <1>7, <1>8, InsertDelay
<1>11. OnceDly(r) /\ \A x, n : Due(r, x, n) <=> Due(q, x, n) \/ (x = t /\ n = delay)
  BY <1>2, <1>6, <1>10, DelayAtDue
<1>12. ASSUME Spaced(q), delay > 0 PROVE Spaced(r)
  <2>1. i \in Nat /\ i - 1 \in 0 .. Len(q)
    BY <1>3, <1>6
  <2>2. DueAt(q, i - 1) \in Int /\ DueAt(q, 0) = 0
    BY <1>3, <2>1, DueAtSums
  <2>3. d > 0
    <3>1. CASE i = 1
      BY <1>7, <1>12, <2>2, <3>1
    <3>2. CASE i # 1
      <4>1. i - 1 \in 1 .. i - 1
        BY <1>3, <1>6, <3>2
      <4>2. DueAt(q, i - 1) < delay
        BY <1>4, <1>6, <4>1
      <4> QED BY <1>7, <2>2, <4>2
    <3> QED BY <3>1, <3>2
  <2>4. i <= Len(q) => q[i].d - d >= 0
    <3> SUFFICES ASSUME i <= Len(q) PROVE q[i].d - d >= 0
      OBVIOUS
    <3>1. i \in 1 .. Len(q) /\ i \in 0 .. Len(q)
      BY <1>3, <1>6
    <3>2. DueAt(q, i) = DueAt(q, i - 1) + q[i].d /\ DueAt(q, i) \in Int /\ q[i].d \in Int
      BY <1>3, <3>1, DueAtSums DEF Dated
    <3>3. ~(DueAt(q, i) < delay)
      BY <1>4, <1>6, <3>1
    <3> QED BY <1>7, <1>10, <2>2, <3>2, <3>3
  <2>5. DOMAIN r = 1 .. Len(q) + 1
    BY <1>10 DEF DelayAt
  <2>6. ASSUME NEW j \in 1 .. Len(q) + 1 PROVE r[j].d >= 0 /\ (j = 1 => r[j].d > 0)
    <3>0. r[j].d = IF j < i THEN q[j].d ELSE IF j = i THEN d
                   ELSE IF j = i + 1 THEN q[i].d - d ELSE q[j - 1].d
      BY <1>10 DEF DelayAt
    <3>1. CASE j < i
      <4>1. j \in DOMAIN q
        BY <1>3, <1>6, <3>1
      <4> QED BY <1>12, <3>0, <3>1, <4>1 DEF Spaced
    <3>2. CASE j = i
      BY <1>10, <2>1, <2>3, <3>0, <3>2
    <3>3. CASE j = i + 1
      BY <1>3, <2>1, <2>4, <3>0, <3>3
    <3>4. CASE j > i + 1
      <4>1. j - 1 \in DOMAIN q /\ j # 1 /\ ~(j < i) /\ j # i /\ j # i + 1
        BY <1>3, <2>1, <3>4
      <4> QED BY <1>12, <3>0, <4>1 DEF Spaced
    <3>5. j < i \/ j = i \/ j = i + 1 \/ j > i + 1
      BY <2>1
    <3> QED BY <3>1, <3>2, <3>3, <3>4, <3>5, Zenon
  <2> QED BY <2>5, <2>6 DEF Spaced
<1>13. r \in Seq(Delays)
  BY <1>10 DEF DelayAt
<1>14. Enters(s.dly, r, t, delay)
  BY <1>1, <1>11, <1>12 DEF Enters
<1> QED BY <1>9, <1>13, <1>14, Zenon

\* A thread leaves the delay list.
LEMMA RmvDly ==
    ASSUME NEW s \in Kernels, OnceDly(s.dly), NEW t
    PROVE  \E r \in Seq(Delays) :
              /\ rt_rmv_dly(s, t) = [s EXCEPT !.dly = r]
              /\ OnceDly(r)
              /\ \A x, n : Due(r, x, n) <=> Due(s.dly, x, n) /\ x # t
              /\ Spaced(s.dly) => Spaced(r)
<1>1. PICK q : q = s.dly
  OBVIOUS
<1>2. q \in Seq(Delays) /\ OnceDly(q)
  BY <1>1 DEF Kernels
<1>3. Len(q) \in Nat /\ Dated(q) /\ DOMAIN q = 1 .. Len(q) /\ \A j \in 1 .. Len(q) : q[j].d \in Int
  BY <1>2, DelaysDated
<1>4. PICK I : I = {j \in 1 .. Len(q) : q[j].t = t}
  OBVIOUS
<1>5. PICK i : i = IF I # {} THEN Min(I) ELSE 0
  OBVIOUS
<1>6. rt_rmv_dly(s, t) = IF i = 0 THEN s
          ELSE [s EXCEPT !.dly = RemoveAt(IF i = Len(q) THEN q ELSE [q EXCEPT ![i + 1].d = @ + q[i].d], i)]
  BY <1>1, <1>4, <1>5 DEF rt_rmv_dly, SelectInSeq
<1>7. CASE I = {}
  <2>1. rt_rmv_dly(s, t) = s /\ s = [s EXCEPT !.dly = q]
    BY <1>1, <1>5, <1>6, <1>7 DEF Kernels
  <2>2. \A x, n : Due(q, x, n) => x # t
    BY <1>3, <1>4, <1>7 DEF Due
  <2> QED BY <1>1, <1>2, <2>1, <2>2
<1>8. CASE I # {}
  <2>1. i \in I /\ i \in 1 .. Len(q) /\ q[i].t = t /\ i # 0
    <3>1. I \subseteq Nat
      BY <1>3, <1>4
    <3>2. i \in I
      BY <1>5, <1>8, <3>1, MinOfSet
    <3> QED BY <1>3, <1>4, <3>2
  <2>0. PICK p : p = IF i = Len(q) THEN q ELSE [q EXCEPT ![i + 1].d = @ + q[i].d]
    OBVIOUS
  <2>2. PICK r : r = RemoveAt(p, i)
    OBVIOUS
  <2>3. /\ r \in Seq(Delays) /\ Len(r) = Len(q) - 1
        /\ \A j \in 1 .. Len(q) - 1 : r[j].t = IF j < i THEN q[j].t ELSE q[j + 1].t
        /\ \A j \in 1 .. Len(q) - 1 : r[j].d =
              IF j < i THEN q[j].d ELSE IF j = i THEN q[i + 1].d + q[i].d ELSE q[j + 1].d
        /\ \A j \in 1 .. Len(q) - 1 : DueAt(r, j) =
              IF j < i THEN DueAt(q, j) ELSE DueAt(q, j + 1)
    <3>1. DelayGone(q, i, r)
      BY <1>2, <2>0, <2>1, <2>2, RemoveDelay, Zenon
    <3> QED BY <3>1 DEF DelayGone
  <2>4. rt_rmv_dly(s, t) = [s EXCEPT !.dly = r]
    BY <1>6, <2>0, <2>1, <2>2
  <2>5. DOMAIN r = 1 .. Len(q) - 1 /\ i \in Nat
    BY <1>3, <2>1, <2>3
  <2> DEFINE At(j) == IF j < i THEN j ELSE j + 1
  <2>6. \A j \in DOMAIN r : /\ At(j) \in DOMAIN q /\ At(j) # i
                            /\ r[j].t = q[At(j)].t /\ DueAt(r, j) = DueAt(q, At(j))
    <3> SUFFICES ASSUME NEW j \in DOMAIN r
                 PROVE  /\ At(j) \in DOMAIN q /\ At(j) # i
                        /\ r[j].t = q[At(j)].t /\ DueAt(r, j) = DueAt(q, At(j))
      OBVIOUS
    <3>1. At(j) \in DOMAIN q /\ At(j) # i
      BY <1>3, <2>1, <2>5
    <3>2. j \in 1 .. Len(q) - 1
      BY <2>5
    <3> QED BY <2>3, <3>1, <3>2
  <2>7. \A j, l \in DOMAIN r : At(j) = At(l) => j = l
    BY <2>5
  <2>8. \A j \in DOMAIN q : j # i => \E l \in DOMAIN r : At(l) = j
    <3> SUFFICES ASSUME NEW j \in DOMAIN q, j # i PROVE \E l \in DOMAIN r : At(l) = j
      OBVIOUS
    <3> DEFINE l == IF j < i THEN j ELSE j - 1
    <3>1. l \in DOMAIN r /\ At(l) = j
      BY <1>3, <2>1, <2>5
    <3> QED BY <3>1
  <2> HIDE DEF At
  <2>9. \A j \in DOMAIN q : q[j].t = t <=> j = i
    BY <1>2, <1>3, <2>1 DEF OnceDly
  <2>10. OnceDly(r)
    BY <1>2, <2>6, <2>7 DEF OnceDly
  <2>11. ASSUME NEW x, NEW n, Due(r, x, n) PROVE Due(q, x, n) /\ x # t
    <3>1. PICK j \in DOMAIN r : r[j].t = x /\ DueAt(r, j) = n
      BY <2>11 DEF Due
    <3> QED BY <2>6, <2>9, <3>1 DEF Due
  <2>12. ASSUME NEW x, NEW n, Due(q, x, n), x # t PROVE Due(r, x, n)
    <3>1. PICK j \in DOMAIN q : q[j].t = x /\ DueAt(q, j) = n
      BY <2>12 DEF Due
    <3>2. PICK l \in DOMAIN r : At(l) = j
      BY <2>8, <2>9, <2>12, <3>1
    <3> QED BY <2>6, <3>1, <3>2 DEF Due
  <2>13. ASSUME Spaced(q), NEW j \in 1 .. Len(q) - 1
         PROVE  r[j].d >= 0 /\ (j = 1 => r[j].d > 0)
    <3>1. j \in 1 .. Len(q) /\ j + 1 \in 1 .. Len(q) /\ j + 1 # 1
      BY <1>3
    <3>2. q[j].d >= 0 /\ q[j + 1].d >= 0 /\ q[i].d >= 0 /\ q[j].d \in Int /\ q[j + 1].d \in Int
      BY <1>3, <2>1, <2>13, <3>1 DEF Spaced
    <3>3. (j = 1 => q[j].d > 0) /\ (i = 1 => q[i].d > 0) /\ q[i].d \in Int
      BY <1>3, <2>1, <2>13, <3>1 DEF Spaced
    <3>4. r[j].d = IF j < i THEN q[j].d ELSE IF j = i THEN q[i + 1].d + q[i].d ELSE q[j + 1].d
      BY <2>3
    <3>5. CASE j < i
      BY <3>2, <3>3, <3>4, <3>5
    <3>6. CASE j = i
      <4>1. r[j].d = q[j + 1].d + q[i].d
        BY <2>5, <3>4, <3>6
      <4> QED BY <3>2, <3>3, <3>6, <4>1
    <3>7. CASE j > i
      <4>1. r[j].d = q[j + 1].d /\ j # 1
        BY <2>1, <2>5, <3>4, <3>7
      <4> QED BY <3>2, <4>1
    <3> QED BY <2>5, <3>5, <3>6, <3>7
  <2>14. Spaced(q) => Spaced(r)
    BY <2>5, <2>13 DEF Spaced
  <2> QED BY <1>1, <2>3, <2>4, <2>10, <2>11, <2>12, <2>14
<1> QED BY <1>7, <1>8
-----------------------------------------------------------------------------
(***************************************************************************)
(* The scheduler.                                                          *)
(***************************************************************************)

\* The types of the lists of the scheduler.
LEMMA KernelTypes ==
    ASSUME NEW s \in Kernels
    PROVE  /\ s.run \in TCBs /\ s.rdy \in Seq(TCBs) /\ s.dly \in Seq(Delays)
           /\ s.st \in [TCBs -> States] /\ s.prio \in [TCBs -> Nat] /\ s.active \in SUBSET Tasks
           /\ s.wait \in [Objects -> Seq(Tasks)]
  BY DEF Kernels

\* Kernel u is s with other lists.
Written(s, u, run, rdy, dly, st, wait) ==
    /\ u \in Kernels /\ SameObjects(s, u)
    /\ u.run = run /\ u.rdy = rdy /\ u.dly = dly /\ u.st = st /\ u.wait = wait

\* The ready list is written,
LEMMA SetRdy ==
    ASSUME NEW s \in Kernels, NEW q \in Seq(TCBs)
    PROVE  Written(s, [s EXCEPT !.rdy = q],
                   s.run, q, s.dly, s.st, s.wait)
  BY DEF Kernels, SameObjects, Written

\* the delay list,
LEMMA SetDly ==
    ASSUME NEW s \in Kernels, NEW q \in Seq(Delays)
    PROVE  Written(s, [s EXCEPT !.dly = q],
                   s.run, s.rdy, q, s.st, s.wait)
  BY DEF Kernels, SameObjects, Written

\* the state of a thread,
LEMMA SetSt ==
    ASSUME NEW s \in Kernels, NEW t \in TCBs, NEW v \in States
    PROVE  Written(s, [s EXCEPT !.st[t] = v],
                   s.run, s.rdy, s.dly, [s.st EXCEPT ![t] = v], s.wait)
  BY DEF Kernels, SameObjects, Written

\* the list of an object,
LEMMA SetWait ==
    ASSUME NEW s \in Kernels, NEW o \in Objects, NEW q \in Seq(Tasks)
    PROVE  Written(s, [s EXCEPT !.wait[o] = q],
                   s.run, s.rdy, s.dly, s.st, [s.wait EXCEPT ![o] = q])
  BY DEF Kernels, SameObjects, Written

\* the ready list and those of the objects,
LEMMA SetRdyWait ==
    ASSUME NEW s \in Kernels, NEW q \in Seq(TCBs), NEW w \in [Objects -> Seq(Tasks)]
    PROVE  Written(s, [s EXCEPT !.rdy = q, !.wait = w],
                   s.run, q, s.dly, s.st, w)
  BY DEF Kernels, SameObjects, Written

\* the ready list and a state,
LEMMA SetRdySt ==
    ASSUME NEW s \in Kernels, NEW q \in Seq(TCBs), NEW t \in TCBs, NEW v \in States
    PROVE  Written(s, [s EXCEPT !.rdy = q, !.st[t] = v],
                   s.run, q, s.dly, [s.st EXCEPT ![t] = v], s.wait)
  BY DEF Kernels, SameObjects, Written

\* the running thread and a state,
LEMMA SetRunSt ==
    ASSUME NEW s \in Kernels, NEW r \in TCBs, NEW t \in TCBs, NEW v \in States
    PROVE  Written(s, [s EXCEPT !.run = r, !.st[t] = v],
                   r, s.rdy, s.dly, [s.st EXCEPT ![t] = v], s.wait)
  BY DEF Kernels, SameObjects, Written

\* all three,
LEMMA SetRdyRunSt ==
    ASSUME NEW s \in Kernels, NEW q \in Seq(TCBs), NEW r \in TCBs, NEW t \in TCBs,
           NEW v \in States
    PROVE  Written(s, [s EXCEPT !.rdy = q, !.run = r, !.st[t] = v],
                   r, q, s.dly, [s.st EXCEPT ![t] = v], s.wait)
  BY DEF Kernels, SameObjects, Written

\* the ready list and the round robin,
LEMMA SetRdyRobin ==
    ASSUME NEW s \in Kernels, NEW q \in Seq(TCBs), NEW b \in [task : TCBs \cup {NoTask}, left : Int]
    PROVE  Written(s, [s EXCEPT !.robin = b, !.rdy = q],
                   s.run, q, s.dly, s.st, s.wait)
  BY DEF Kernels, SameObjects, Written

\* the round robin alone.
LEMMA SetRobin ==
    ASSUME NEW s \in Kernels, NEW b \in [task : TCBs \cup {NoTask}, left : Int]
    PROVE  Written(s, [s EXCEPT !.robin = b],
                   s.run, s.rdy, s.dly, s.st, s.wait)
  BY DEF Kernels, SameObjects, Written


\* Literals are states.
LEMMA StateNames ==
    /\ "READY" \in States /\ "RUNNING" \in States /\ "INACTIVE" \in States
    /\ Waits \subseteq States /\ "READY" \notin Waits /\ "RUNNING" \notin Waits
    /\ "INACTIVE" \notin Waits /\ InQueue \subseteq Waits
    /\ "WAIT_DLY" \in Waits /\ "WAIT_AND" \in Waits /\ "WAIT_OR" \in Waits
    /\ "WAIT_DLY" \notin InQueue /\ "WAIT_AND" \notin InQueue /\ "WAIT_OR" \notin InQueue
    /\ "READY" \notin InQueue /\ "RUNNING" \notin InQueue /\ "INACTIVE" \notin InQueue
  BY DEF States, Waits, InQueue

\* The idle thread is no task, and nobody is no thread.
LEMMA TaskNames ==
    Tasks \subseteq TCBs /\ Idle \in TCBs /\ Idle \notin Tasks /\ NoTask \notin TCBs
  BY RtxAssumption DEF TCBs

\* What a step does to the threads that wait: they keep waiting or become
\* ready.
Eased(s, u) ==
    /\ SameObjects(s, u)
    /\ \A t \in TCBs : u.st[t] = s.st[t] \/ u.st[t] \in {"READY", "RUNNING"}
    /\ \A o \in Objects, t \in Tasks : InSeq(u.wait[o], t) => InSeq(s.wait[o], t)
    /\ \A t \in Tasks : \A n : Due(u.dly, t, n) => Due(s.dly, t, n)
    /\ \A t \in Tasks : \A n : Due(s.dly, t, n) => Due(u.dly, t, n) \/ u.st[t] \in {"READY", "RUNNING"}
    /\ Spaced(s.dly) => Spaced(u.dly)

\* Nothing happens,
LEMMA EasedSelf ==
    ASSUME NEW s
    PROVE  Eased(s, s)
  BY DEF Eased, SameObjects

\* and one thing after the other.
LEMMA EasedTrans ==
    ASSUME NEW s, NEW u, NEW v, Eased(s, u), Eased(u, v)
    PROVE  Eased(s, v)
<1>1. SameObjects(s, v)
  BY DEF Eased, SameObjects
<1>2. \A t \in TCBs : v.st[t] = s.st[t] \/ v.st[t] \in {"READY", "RUNNING"}
  BY DEF Eased
<1>3. \A t \in Tasks : u.st[t] \in {"READY", "RUNNING"} => v.st[t] \in {"READY", "RUNNING"}
  BY TaskNames DEF Eased
<1>4. \A o \in Objects, t \in Tasks : InSeq(v.wait[o], t) => InSeq(s.wait[o], t)
  BY DEF Eased
<1>5. \A t \in Tasks : \A n : Due(v.dly, t, n) => Due(s.dly, t, n)
  BY DEF Eased
<1>6. \A t \in Tasks : \A n : Due(s.dly, t, n) => Due(v.dly, t, n) \/ v.st[t] \in {"READY", "RUNNING"}
  BY <1>3 DEF Eased
<1>7. Spaced(s.dly) => Spaced(v.dly)
  BY DEF Eased
<1> QED BY <1>1, <1>2, <1>4, <1>5, <1>6, <1>7 DEF Eased

\* A thread that is in no list becomes ready; q is the new ready list.
LEMMA ReadyFit ==
    ASSUME NEW s, NEW X, NEW r, Fit(s, X, r), NEW t \in X, t \in Alive(s), ~ InDly(s.dly, t),
           NEW q, \A x : InSeq(q, x) <=> InSeq(s.rdy, x) \/ x = t, Once(q), Sorted(q, s.prio),
           NEW u, Written(s, u, s.run, q, s.dly, [s.st EXCEPT ![t] = "READY"], s.wait)
    PROVE  Fit(u, X \ {t}, r) /\ Eased(s, u)
<1>1. /\ s \in Kernels /\ s.rdy \in Seq(TCBs) /\ s.st \in [TCBs -> States] /\ s.prio \in [TCBs -> Nat]
      /\ s.active \in SUBSET Tasks
  BY KernelTypes DEF Fit
<1>2. t \in TCBs
  BY <1>1, TaskNames DEF Alive
<1>4. (\A x : InSeq(q, x) <=> InSeq(s.rdy, x) \/ x = t) /\ Once(q) /\ Sorted(q, s.prio)
  OBVIOUS
<1>6. /\ u \in Kernels /\ SameObjects(s, u) /\ u.run = s.run /\ u.rdy = q
      /\ u.dly = s.dly /\ u.st = [s.st EXCEPT ![t] = "READY"] /\ u.wait = s.wait
  BY DEF Written
<1>7. u.st[t] = "READY" /\ \A x \in TCBs : x # t => u.st[x] = s.st[x]
  BY <1>1, <1>2, <1>6
<1>8. Alive(u) = Alive(s) /\ u.prio = s.prio /\ u.active = s.active
  BY <1>6 DEF Alive, SameObjects
<1>9. Chained(u, X \ {t}, r)
  <2>1. Once(u.rdy) /\ \A o \in Objects : Once(u.wait[o])
    BY <1>4, <1>6 DEF Fit, Chained
  <2>2. \A x \in TCBs : InSeq(u.rdy, x) => x \in Alive(u) \ (X \ {t}) /\ u.st[x] = "READY"
    BY <1>4, <1>6, <1>7, <1>8 DEF Fit, Chained
  <2>3. \A o \in Objects, x \in Tasks : InSeq(u.wait[o], x) =>
           x # t /\ x \in u.active \ (X \ {t}) /\ u.st[x] \in InQueue /\ o \in ListsOf(u.st[x])
    BY <1>6, <1>7, <1>8, TaskNames DEF Fit, Chained
  <2>4. \A o, z \in Objects, x \in Tasks : InSeq(u.wait[o], x) /\ InSeq(u.wait[z], x) => o = z
    BY <1>6 DEF Fit, Chained
  <2>5. r # t
    BY <1>2, TaskNames DEF Fit, Chained
  <2>6. \A x \in Alive(u) \ (X \ {t}) :
           /\ u.st[x] = "READY" => InSeq(u.rdy, x)
           /\ u.st[x] \in InQueue => \E o \in Objects : InSeq(u.wait[o], x)
           /\ u.st[x] # "INACTIVE" /\ (u.st[x] = "RUNNING" <=> x = r)
    <3> SUFFICES ASSUME NEW x \in Alive(u) \ (X \ {t})
                 PROVE  /\ u.st[x] = "READY" => InSeq(u.rdy, x)
                        /\ u.st[x] \in InQueue => \E o \in Objects : InSeq(u.wait[o], x)
                        /\ u.st[x] # "INACTIVE" /\ (u.st[x] = "RUNNING" <=> x = r)
      OBVIOUS
    <3>1. CASE x = t
      BY <1>4, <1>6, <1>7, <2>5, <3>1, StateNames
    <3>2. CASE x # t
      <4>1. x \in Alive(s) \ X /\ x \in TCBs /\ u.st[x] = s.st[x]
        BY <1>1, <1>7, <1>8, <3>2, TaskNames DEF Alive
      <4> QED BY <1>4, <1>6, <4>1 DEF Fit, Chained
    <3> QED BY <3>1, <3>2
  <2>7. Idle \in X \ {t} \/ u.st[Idle] \in {"READY", "RUNNING"}
    BY <1>7, TaskNames DEF Fit, Chained
  <2>8. r \in (Alive(u) \ (X \ {t})) \cup {NoTask}
    BY <1>8 DEF Fit, Chained
  <2> QED BY <2>1, <2>2, <2>3, <2>4, <2>6, <2>7, <2>8 DEF Chained
<1>10. Delayed(u)
  <2>1. \A x \in Tasks : InDly(s.dly, x) => x # t
    OBVIOUS
  <2> QED BY <1>6, <1>7, <1>8, <2>1, TaskNames DEF Fit, Delayed
<1>11. Fit(u, X \ {t}, r)
  BY <1>4, <1>6, <1>8, <1>9, <1>10 DEF Fit
<1>12. Eased(s, u)
  BY <1>6, <1>7 DEF Eased
<1> QED BY <1>11, <1>12

\* It goes behind those of its priority.
LEMMA MakeReadyFit ==
    ASSUME NEW s, NEW X, NEW r, Fit(s, X, r), NEW t \in X, t \in Alive(s), ~ InDly(s.dly, t)
    PROVE  /\ Fit(MakeReady(s, t), X \ {t}, r) /\ Eased(s, MakeReady(s, t))
           /\ MakeReady(s, t).run = s.run /\ MakeReady(s, t).dly = s.dly
           /\ \A x : InSeq(MakeReady(s, t).rdy, x) <=> InSeq(s.rdy, x) \/ x = t
           /\ MakeReady(s, t).wait = s.wait
<1>0. PICK u : u = MakeReady(s, t)
  OBVIOUS
<1>1. s \in Kernels /\ s.rdy \in Seq(TCBs) /\ s.prio \in [TCBs -> Nat] /\ s.active \in SUBSET Tasks
  BY KernelTypes DEF Fit
<1>2. t \in TCBs
  BY <1>1, TaskNames DEF Alive
<1>3. ~ InSeq(s.rdy, t) /\ Once(s.rdy) /\ Sorted(s.rdy, s.prio)
  BY <1>2 DEF Fit, Chained
<1>4. PICK q : q = rt_put_prio(s, s.rdy, t)
  OBVIOUS
<1>5. q \in Seq(TCBs) /\ (\A x : InSeq(q, x) <=> InSeq(s.rdy, x) \/ x = t) /\ Once(q) /\ Sorted(q, s.prio)
  BY <1>1, <1>2, <1>3, <1>4, PutPrioList
<1>6. u = [s EXCEPT !.rdy = q, !.st[t] = "READY"]
  BY <1>0, <1>4 DEF MakeReady
<1>7. Written(s, [s EXCEPT !.rdy = q, !.st[t] = "READY"],
              s.run, q, s.dly, [s.st EXCEPT ![t] = "READY"], s.wait)
  <2>1. "READY" \in States
    BY StateNames
  <2> QED BY <1>1, <1>2, <1>5, <2>1, SetRdySt
<1>8. Written(s, u, s.run, q, s.dly, [s.st EXCEPT ![t] = "READY"], s.wait)
  BY <1>6, <1>7, Zenon
<1>9. Fit(u, X \ {t}, r) /\ Eased(s, u)
  BY <1>5, <1>8, ReadyFit
<1> QED BY <1>0, <1>5, <1>8, <1>9 DEF Written

\* It goes before all the others, none of which has a higher priority.
LEMMA PutFirstFit ==
    ASSUME NEW s, NEW X, NEW r, Fit(s, X, r), NEW t \in X, t \in Alive(s), ~ InDly(s.dly, t),
           Below(s.rdy, s.prio, s.prio[t])
    PROVE  LET u == rt_put_rdy_first(s, t)
           IN  /\ Fit(u, X \ {t}, r) /\ Eased(s, u)
               /\ Written(s, u, s.run, <<t>> \o s.rdy, s.dly, [s.st EXCEPT ![t] = "READY"], s.wait)
               /\ \A x : InSeq(u.rdy, x) <=> InSeq(s.rdy, x) \/ x = t
<1>0. PICK u : u = rt_put_rdy_first(s, t)
  OBVIOUS
<1>1. s \in Kernels /\ s.rdy \in Seq(TCBs) /\ s.prio \in [TCBs -> Nat] /\ s.active \in SUBSET Tasks
  BY KernelTypes DEF Fit
<1>2. t \in TCBs
  BY <1>1, TaskNames DEF Alive
<1>3. ~ InSeq(s.rdy, t) /\ Once(s.rdy) /\ Sorted(s.rdy, s.prio)
  BY <1>2 DEF Fit, Chained
<1>4. PICK q : q = <<t>> \o s.rdy
  OBVIOUS
<1>5. q \in Seq(TCBs) /\ (\A x : InSeq(q, x) <=> InSeq(s.rdy, x) \/ x = t) /\ Once(q) /\ Sorted(q, s.prio)
  BY <1>1, <1>2, <1>3, <1>4, ConsList, ConsOnce, ConsSorted
<1>6. u = [s EXCEPT !.rdy = q, !.st[t] = "READY"]
  BY <1>0, <1>4 DEF rt_put_rdy_first
<1>7. Written(s, [s EXCEPT !.rdy = q, !.st[t] = "READY"],
              s.run, q, s.dly, [s.st EXCEPT ![t] = "READY"], s.wait)
  <2>1. "READY" \in States
    BY StateNames
  <2> QED BY <1>1, <1>2, <1>5, <2>1, SetRdySt
<1>8. Written(s, u, s.run, q, s.dly, [s.st EXCEPT ![t] = "READY"], s.wait)
  BY <1>6, <1>7, Zenon
<1>9. Fit(u, X \ {t}, r) /\ Eased(s, u)
  BY <1>5, <1>8, ReadyFit
<1>10. \A x : InSeq(u.rdy, x) <=> InSeq(s.rdy, x) \/ x = t
  BY <1>5, <1>8 DEF Written
<1> QED BY <1>0, <1>4, <1>8, <1>9, <1>10, Zenon

\* The running thread is in no list.
LEMMA ReleaseFit ==
    ASSUME NEW s, NEW X, NEW r, Fit(s, X, r), r # NoTask
    PROVE  /\ Fit(s, X \cup {r}, NoTask) /\ r \in Alive(s) /\ r \notin X /\ ~ InDly(s.dly, r)
           /\ r \in TCBs /\ s.st[r] = "RUNNING"
<1>1. r \in Alive(s) \ X /\ s.active \in SUBSET Tasks
  BY KernelTypes DEF Fit, Chained
<1>2. s.st[r] = "RUNNING" /\ r \in TCBs
  BY <1>1, TaskNames DEF Fit, Chained, Alive
<1>3. \A t \in TCBs : InSeq(s.rdy, t) => t # r
  BY <1>2 DEF Fit, Chained
<1>4. \A o \in Objects, t \in Tasks : InSeq(s.wait[o], t) => t # r
  BY <1>2, StateNames DEF Fit, Chained
<1>5. ~ InDly(s.dly, r)
  <2>1. r \in Tasks => ~ InDly(s.dly, r)
    BY <1>2, StateNames DEF Fit, Delayed
  <2>2. \A t : InDly(s.dly, t) => t \in Tasks
    <3>1. s.dly \in Seq(Delays)
      BY KernelTypes DEF Fit
    <3> QED BY <3>1, DelaysDated DEF InDly
  <2> QED BY <2>1, <2>2
<1>6. Chained(s, X \cup {r}, NoTask)
  <2>1. \A t \in TCBs : InSeq(s.rdy, t) => t \in Alive(s) \ (X \cup {r}) /\ s.st[t] = "READY"
    BY <1>3 DEF Fit, Chained
  <2>2. \A o \in Objects, t \in Tasks : InSeq(s.wait[o], t) =>
           t \in s.active \ (X \cup {r}) /\ s.st[t] \in InQueue /\ o \in ListsOf(s.st[t])
    BY <1>4 DEF Fit, Chained
  <2>3. \A t \in Alive(s) \ (X \cup {r}) :
           /\ s.st[t] = "READY" => InSeq(s.rdy, t)
           /\ s.st[t] \in InQueue => \E o \in Objects : InSeq(s.wait[o], t)
           /\ s.st[t] # "INACTIVE" /\ (s.st[t] = "RUNNING" <=> t = NoTask)
    <3> SUFFICES ASSUME NEW t \in Alive(s) \ (X \cup {r})
                 PROVE  /\ s.st[t] = "READY" => InSeq(s.rdy, t)
                        /\ s.st[t] \in InQueue => \E o \in Objects : InSeq(s.wait[o], t)
                        /\ s.st[t] # "INACTIVE" /\ (s.st[t] = "RUNNING" <=> t = NoTask)
      OBVIOUS
    <3>1. t # NoTask /\ t \in Alive(s) \ X /\ t # r
      BY <1>1, TaskNames DEF Alive
    <3> QED BY <3>1 DEF Fit, Chained
  <2> QED BY <2>1, <2>2, <2>3 DEF Fit, Chained
<1> QED BY <1>1, <1>2, <1>5, <1>6 DEF Fit

\* A thread that waits for time or flags is in no list of an object.
LEMMA LooseFit ==
    ASSUME NEW s, NEW X, NEW r, Fit(s, X, r), NEW t \in s.active, s.st[t] \in Waits \ InQueue
    PROVE  Fit(s, X \cup {t}, r)
<1>1. t \in Tasks /\ t \in TCBs /\ t \in Alive(s)
  BY KernelTypes, TaskNames DEF Fit, Alive
<1>2. s.st[t] # "READY" /\ s.st[t] # "RUNNING" /\ s.st[t] \notin InQueue
  BY StateNames
<1>3. r # t
  BY <1>1, <1>2, TaskNames DEF Fit, Chained
<1>4. Idle # t
  BY <1>1, TaskNames
<1>5. Chained(s, X \cup {t}, r)
  <2>1. \A x \in TCBs : InSeq(s.rdy, x) => x \in Alive(s) \ (X \cup {t}) /\ s.st[x] = "READY"
    BY <1>2 DEF Fit, Chained
  <2>2. \A o \in Objects, x \in Tasks : InSeq(s.wait[o], x) =>
           x \in s.active \ (X \cup {t}) /\ s.st[x] \in InQueue /\ o \in ListsOf(s.st[x])
    BY <1>2 DEF Fit, Chained
  <2>3. \A x \in Alive(s) \ (X \cup {t}) : x \in Alive(s) \ X
    OBVIOUS
  <2>4. r \in (Alive(s) \ (X \cup {t})) \cup {NoTask}
    BY <1>3 DEF Fit, Chained
  <2> QED BY <1>4, <2>1, <2>2, <2>3, <2>4 DEF Fit, Chained
<1> QED BY <1>5 DEF Fit

\* The first thread is taken off the ready list.
LEMMA TakeFit ==
    ASSUME NEW s, NEW X, NEW r, Fit(s, X, r), s.rdy # <<>>,
           NEW u, Written(s, u, s.run, Tail(s.rdy), s.dly, s.st, s.wait)
    PROVE  LET h == Head(s.rdy)
           IN  /\ Fit(u, X \cup {h}, r) /\ Eased(s, u)
               /\ h \in Alive(u) /\ h \in TCBs /\ h \notin X /\ ~ InDly(u.dly, h)
               /\ Below(u.rdy, u.prio, u.prio[h]) /\ h # r
               /\ \A x : InSeq(s.rdy, x) <=> InSeq(u.rdy, x) \/ x = h
               /\ ~ InSeq(u.rdy, h)
<1>1. PICK h : h = Head(s.rdy)
  OBVIOUS
<1>2. s \in Kernels /\ s.rdy \in Seq(TCBs) /\ s.dly \in Seq(Delays) /\ s.prio \in [TCBs -> Nat]
  BY KernelTypes DEF Fit
<1>3. /\ u \in Kernels /\ SameObjects(s, u) /\ u.run = s.run /\ u.rdy = Tail(s.rdy) /\ u.dly = s.dly
      /\ u.st = s.st /\ u.wait = s.wait
  BY DEF Written
<1>4. u.active = s.active /\ u.prio = s.prio /\ Alive(u) = Alive(s)
  BY <1>3 DEF SameObjects, Alive
<1>5. Once(s.rdy) /\ Sorted(s.rdy, s.prio)
  BY DEF Fit, Chained
<1>6. /\ h \in TCBs /\ InSeq(s.rdy, h) /\ u.rdy \in Seq(TCBs)
      /\ \A x : InSeq(s.rdy, x) <=> InSeq(u.rdy, x) \/ x = h
      /\ Once(u.rdy) /\ ~ InSeq(u.rdy, h)
  BY <1>1, <1>2, <1>3, <1>5, HeadTail
<1>7. Sorted(u.rdy, u.prio) /\ Below(s.rdy, s.prio, s.prio[h])
  BY <1>1, <1>2, <1>3, <1>4, <1>5, HeadHighest
<1>8. Below(u.rdy, u.prio, u.prio[h])
  BY <1>4, <1>6, <1>7 DEF Below
<1>9. h \in Alive(s) \ X /\ s.st[h] = "READY"
  BY <1>6 DEF Fit, Chained
<1>10. h # r
  BY <1>9 DEF Fit, Chained
<1>11. ~ InDly(u.dly, h)
  <2>1. h \in Tasks => ~ InDly(s.dly, h)
    BY <1>9, StateNames DEF Fit, Delayed
  <2>2. \A t : InDly(s.dly, t) => t \in Tasks
    BY <1>2, DelaysDated DEF InDly
  <2> QED BY <1>3, <2>1, <2>2
<1>12. Chained(u, X \cup {h}, r)
  <2>1. \A x \in TCBs : InSeq(u.rdy, x) => x \in Alive(u) \ (X \cup {h}) /\ u.st[x] = "READY"
    BY <1>3, <1>4, <1>6 DEF Fit, Chained
  <2>2. \A o \in Objects, x \in Tasks : InSeq(u.wait[o], x) =>
           x \in u.active \ (X \cup {h}) /\ u.st[x] \in InQueue /\ o \in ListsOf(u.st[x])
    BY <1>3, <1>4, <1>9, StateNames DEF Fit, Chained
  <2>3. \A x \in Alive(u) \ (X \cup {h}) :
           /\ u.st[x] = "READY" => InSeq(u.rdy, x)
           /\ u.st[x] \in InQueue => \E o \in Objects : InSeq(u.wait[o], x)
           /\ u.st[x] # "INACTIVE" /\ (u.st[x] = "RUNNING" <=> x = r)
    BY <1>3, <1>4, <1>6 DEF Fit, Chained
  <2>4. r \in (Alive(u) \ (X \cup {h})) \cup {NoTask}
    BY <1>4, <1>10 DEF Fit, Chained
  <2>5. Once(u.rdy) /\ \A o \in Objects : Once(u.wait[o])
    BY <1>3, <1>6 DEF Fit, Chained
  <2>6. \A o, z \in Objects, x \in Tasks : InSeq(u.wait[o], x) /\ InSeq(u.wait[z], x) => o = z
    BY <1>3 DEF Fit, Chained
  <2>7. Idle \in X \cup {h} \/ u.st[Idle] \in {"READY", "RUNNING"}
    BY <1>3 DEF Fit, Chained
  <2> QED BY <2>1, <2>2, <2>3, <2>4, <2>5, <2>6, <2>7 DEF Chained
<1>13. Delayed(u)
  BY <1>3, <1>4 DEF Fit, Delayed
<1>14. Fit(u, X \cup {h}, r)
  BY <1>3, <1>7, <1>12, <1>13 DEF Fit
<1>15. Eased(s, u)
  BY <1>3 DEF Eased
<1> QED BY <1>1, <1>4, <1>6, <1>8, <1>9, <1>10, <1>11, <1>14, <1>15

\* A thread that is in no list runs.
LEMMA RunFit ==
    ASSUME NEW s, NEW X, Fit(s, X, NoTask), NEW t \in X, t \in Alive(s), ~ InDly(s.dly, t),
           NEW u, Written(s, u, t, s.rdy, s.dly, [s.st EXCEPT ![t] = "RUNNING"], s.wait)
    PROVE  Fit(u, X \ {t}, t) /\ Eased(s, u)
<1>1. /\ s \in Kernels /\ s.rdy \in Seq(TCBs) /\ s.st \in [TCBs -> States]
      /\ s.active \in SUBSET Tasks
  BY KernelTypes DEF Fit
<1>2. t \in TCBs
  BY <1>1, TaskNames DEF Alive
<1>3. /\ u \in Kernels /\ SameObjects(s, u) /\ u.run = t /\ u.rdy = s.rdy /\ u.dly = s.dly
      /\ u.st = [s.st EXCEPT ![t] = "RUNNING"] /\ u.wait = s.wait
  BY DEF Written
<1>4. u.st[t] = "RUNNING" /\ \A x \in TCBs : x # t => u.st[x] = s.st[x]
  BY <1>1, <1>2, <1>3
<1>5. Alive(u) = Alive(s) /\ u.prio = s.prio /\ u.active = s.active
  BY <1>3 DEF Alive, SameObjects
<1>6. Chained(u, X \ {t}, t)
  <2>1. Once(u.rdy) /\ \A o \in Objects : Once(u.wait[o])
    BY <1>3 DEF Fit, Chained
  <2>2. \A x \in TCBs : InSeq(u.rdy, x) => x \in Alive(u) \ (X \ {t}) /\ u.st[x] = "READY"
    BY <1>3, <1>4, <1>5 DEF Fit, Chained
  <2>3. \A o \in Objects, x \in Tasks : InSeq(u.wait[o], x) =>
           x \in u.active \ (X \ {t}) /\ u.st[x] \in InQueue /\ o \in ListsOf(u.st[x])
    BY <1>3, <1>4, <1>5, TaskNames DEF Fit, Chained
  <2>4. \A o, z \in Objects, x \in Tasks : InSeq(u.wait[o], x) /\ InSeq(u.wait[z], x) => o = z
    BY <1>3 DEF Fit, Chained
  <2>6. \A x \in Alive(u) \ (X \ {t}) :
           /\ u.st[x] = "READY" => InSeq(u.rdy, x)
           /\ u.st[x] \in InQueue => \E o \in Objects : InSeq(u.wait[o], x)
           /\ u.st[x] # "INACTIVE" /\ (u.st[x] = "RUNNING" <=> x = t)
    <3> SUFFICES ASSUME NEW x \in Alive(u) \ (X \ {t})
                 PROVE  /\ u.st[x] = "READY" => InSeq(u.rdy, x)
                        /\ u.st[x] \in InQueue => \E o \in Objects : InSeq(u.wait[o], x)
                        /\ u.st[x] # "INACTIVE" /\ (u.st[x] = "RUNNING" <=> x = t)
      OBVIOUS
    <3>1. CASE x = t
      BY <1>4, <3>1, StateNames
    <3>2. CASE x # t
      <4>1. x \in Alive(s) \ X /\ x \in TCBs /\ u.st[x] = s.st[x] /\ x # NoTask
        BY <1>1, <1>4, <1>5, <3>2, TaskNames DEF Alive
      <4> QED BY <1>3, <3>2, <4>1 DEF Fit, Chained
    <3> QED BY <3>1, <3>2
  <2>7. Idle \in X \ {t} \/ u.st[Idle] \in {"READY", "RUNNING"}
    BY <1>4, TaskNames DEF Fit, Chained
  <2>8. t \in (Alive(u) \ (X \ {t})) \cup {NoTask}
    BY <1>5
  <2> QED BY <2>1, <2>2, <2>3, <2>4, <2>6, <2>7, <2>8 DEF Chained
<1>7. Delayed(u)
  <2>1. \A x \in Tasks : InDly(s.dly, x) => x # t
    OBVIOUS
  <2> QED BY <1>3, <1>4, <1>5, <2>1, TaskNames DEF Fit, Delayed
<1>8. Fit(u, X \ {t}, t)
  BY <1>3, <1>5, <1>6, <1>7 DEF Fit
<1>9. Eased(s, u)
  BY <1>3, <1>4 DEF Eased
<1> QED BY <1>8, <1>9

\* The idle thread is ready when nobody runs.
LEMMA SomeReady ==
    ASSUME NEW s, Fit(s, {}, NoTask)
    PROVE  s.rdy # <<>>
<1>1. Idle \in Alive(s) /\ s.st[Idle] \in {"READY", "RUNNING"} /\ Idle # NoTask
  BY TaskNames DEF Fit, Chained, Alive
<1>2. InSeq(s.rdy, Idle)
  BY <1>1 DEF Fit, Chained
<1> QED BY <1>2 DEF InSeq

\* So is it when another thread runs.
LEMMA SomeReadyToo ==
    ASSUME NEW s, Fit(s, {}, s.run), s.run # Idle
    PROVE  s.rdy # <<>>
<1>1. Idle \in Alive(s) /\ s.st[Idle] \in {"READY", "RUNNING"}
  BY TaskNames DEF Fit, Chained, Alive
<1>2. InSeq(s.rdy, Idle)
  BY <1>1 DEF Fit, Chained
<1> QED BY <1>2 DEF InSeq

\* The first ready thread gets the processor.
LEMMA SwitchFit ==
    ASSUME NEW s, NEW X, Fit(s, X, NoTask), s.rdy # <<>>
    PROVE  LET u == SwitchToFirst(s)
           IN  /\ Fit(u, X, u.run) /\ Top(u) /\ Eased(s, u) /\ u.wait = s.wait /\ u.dly = s.dly
               /\ u.st = [s.st EXCEPT ![Head(s.rdy)] = "RUNNING"]
<1>1. PICK h : h = Head(s.rdy)
  OBVIOUS
<1>2. PICK a : a = [s EXCEPT !.rdy = Tail(s.rdy)]
  OBVIOUS
<1>3. PICK u : u = SwitchToFirst(s)
  OBVIOUS
<1>4. s \in Kernels /\ s.rdy \in Seq(TCBs) /\ Tail(s.rdy) \in Seq(TCBs) /\ h \in TCBs
  <2>1. s \in Kernels /\ s.rdy \in Seq(TCBs)
    BY KernelTypes DEF Fit
  <2> QED BY <1>1, <2>1, HeadTail
<1>5. Written(s, a, s.run, Tail(s.rdy), s.dly, s.st, s.wait)
  BY <1>2, <1>4, SetRdy
<1>6. /\ Fit(a, X \cup {h}, NoTask) /\ Eased(s, a) /\ h \in Alive(a) /\ h \notin X
      /\ ~ InDly(a.dly, h) /\ Below(a.rdy, a.prio, a.prio[h])
  BY <1>1, <1>5, TakeFit
<1>7. Written(s, u, h, Tail(s.rdy), s.dly, [s.st EXCEPT ![h] = "RUNNING"], s.wait)
  <2>1. "RUNNING" \in States
    BY StateNames
  <2>2. Written(s, [s EXCEPT !.rdy = Tail(s.rdy), !.run = h, !.st[h] = "RUNNING"],
                h, Tail(s.rdy), s.dly, [s.st EXCEPT ![h] = "RUNNING"], s.wait)
    BY <1>4, <2>1, SetRdyRunSt
  <2>3. u = [s EXCEPT !.rdy = Tail(s.rdy), !.run = h, !.st[h] = "RUNNING"]
    BY <1>1, <1>3 DEF SwitchToFirst
  <2> QED BY <2>2, <2>3, Zenon
<1>8. Written(a, u, h, a.rdy, a.dly, [a.st EXCEPT ![h] = "RUNNING"], a.wait)
  BY <1>5, <1>7 DEF Written, SameObjects
<1>9. Fit(u, (X \cup {h}) \ {h}, h) /\ Eased(a, u)
  BY <1>6, <1>8, RunFit
<1>10. (X \cup {h}) \ {h} = X
  BY <1>6
<1>11. Fit(u, X, u.run)
  BY <1>7, <1>9, <1>10 DEF Written
<1>12. Top(u)
  BY <1>6, <1>8 DEF Top, Written, SameObjects
<1>13. Eased(s, u)
  BY <1>6, <1>9, EasedTrans
<1> QED BY <1>1, <1>3, <1>7, <1>11, <1>12, <1>13 DEF Written

\* A thread that is in no list runs or becomes ready, as its priority says.
LEMMA DispatchFit ==
    ASSUME NEW s, NEW X, Fit(s, X, s.run), Top(s), NEW t \in X, t \in Alive(s), ~ InDly(s.dly, t)
    PROVE  LET u == rt_dispatch(s, t)
           IN  /\ Fit(u, X \ {t}, u.run) /\ Top(u) /\ Eased(s, u)
               /\ u.st[t] \in {"READY", "RUNNING"} /\ u.wait = s.wait /\ u.dly = s.dly
<1>1. PICK u : u = rt_dispatch(s, t)
  OBVIOUS
<1>2. /\ s \in Kernels /\ s.run \in TCBs /\ s.run # NoTask /\ s.prio \in [TCBs -> Nat]
      /\ s.rdy \in Seq(TCBs) /\ s.active \in SUBSET Tasks /\ s.st \in [TCBs -> States]
  BY KernelTypes, TaskNames DEF Fit
<1>3. t \in TCBs
  BY <1>2, TaskNames DEF Alive
<1>4. CASE s.prio[t] > s.prio[s.run]
  <2>1. /\ Fit(s, X \cup {s.run}, NoTask) /\ s.run \in Alive(s) /\ s.run \notin X
        /\ ~ InDly(s.dly, s.run)
    BY <1>2, ReleaseFit
  <2>2. PICK a : a = rt_put_rdy_first(s, s.run)
    OBVIOUS
  <2>3. /\ Fit(a, (X \cup {s.run}) \ {s.run}, NoTask) /\ Eased(s, a)
        /\ Written(s, a, s.run, <<s.run>> \o s.rdy, s.dly, [s.st EXCEPT ![s.run] = "READY"], s.wait)
        /\ \A x : InSeq(a.rdy, x) <=> InSeq(s.rdy, x) \/ x = s.run
    BY <2>1, <2>2, PutFirstFit DEF Top
  <2>4. (X \cup {s.run}) \ {s.run} = X
    BY <2>1
  <2>5. Fit(a, X, NoTask) /\ a \in Kernels /\ a.dly = s.dly /\ a.prio = s.prio /\ a.active = s.active
        /\ a.wait = s.wait
    BY <2>3, <2>4 DEF Written, SameObjects
  <2>6. u = [a EXCEPT !.run = t, !.st[t] = "RUNNING"]
    BY <1>1, <1>4, <2>2 DEF rt_dispatch
  <2>7. Written(a, u, t, a.rdy, a.dly, [a.st EXCEPT ![t] = "RUNNING"], a.wait)
    <3>1. "RUNNING" \in States
      BY StateNames
    <3>2. Written(a, [a EXCEPT !.run = t, !.st[t] = "RUNNING"],
                  t, a.rdy, a.dly, [a.st EXCEPT ![t] = "RUNNING"], a.wait)
      BY <1>3, <2>5, <3>1, SetRunSt
    <3> QED BY <2>6, <3>2, Zenon
  <2>8. t \in Alive(a) /\ ~ InDly(a.dly, t)
    BY <2>5 DEF Alive
  <2>9. Fit(u, X \ {t}, t) /\ Eased(a, u)
    BY <2>5, <2>7, <2>8, RunFit
  <2>10. u.run = t /\ u.rdy = a.rdy /\ u.prio = s.prio /\ u.wait = s.wait /\ u.dly = s.dly
         /\ u.st = [a.st EXCEPT ![t] = "RUNNING"] /\ a.st \in [TCBs -> States]
    BY <2>5, <2>7, KernelTypes DEF Written, SameObjects
  <2>11. Top(u)
    <3>1. \A x \in TCBs : InSeq(u.rdy, x) => s.prio[x] <= s.prio[s.run]
      BY <1>2, <2>3, <2>10 DEF Top, Below
    <3>2. \A x \in TCBs : s.prio[x] \in Nat
      BY <1>2
    <3>3. \A x \in TCBs : InSeq(u.rdy, x) => s.prio[x] <= s.prio[t]
      BY <1>2, <1>3, <1>4, <3>1, <3>2
    <3> QED BY <2>10, <3>3 DEF Top, Below
  <2>12. Eased(s, u)
    BY <2>3, <2>9, EasedTrans
  <2>13. u.st[t] = "RUNNING"
    BY <1>3, <2>10
  <2> QED BY <1>1, <2>9, <2>10, <2>11, <2>12, <2>13
<1>5. CASE ~(s.prio[t] > s.prio[s.run])
  <2>1. u = MakeReady(s, t)
    BY <1>1, <1>5 DEF rt_dispatch
  <2>2. /\ Fit(u, X \ {t}, s.run) /\ Eased(s, u) /\ u.run = s.run /\ u.dly = s.dly
        /\ (\A x : InSeq(u.rdy, x) <=> InSeq(s.rdy, x) \/ x = t) /\ u.wait = s.wait
    BY <2>1, MakeReadyFit
  <2>3. u.prio = s.prio
    BY <2>2 DEF Eased, SameObjects
  <2>4. s.prio[t] <= s.prio[s.run]
    <3>1. s.prio[t] \in Nat /\ s.prio[s.run] \in Nat
      BY <1>2, <1>3
    <3> QED BY <1>5, <3>1
  <2>5. Top(u)
    BY <2>2, <2>3, <2>4 DEF Top, Below
  <2>6. u.st[t] = "READY"
    BY <1>3, <2>2 DEF Fit, Chained
  <2> QED BY <1>1, <2>2, <2>5, <2>6
<1> QED BY <1>4, <1>5

\* The running thread lets a better one run.
LEMMA YieldFit ==
    ASSUME NEW s, NEW X, Fit(s, X, s.run)
    PROVE  LET u == YieldToHigher(s)
           IN  Fit(u, X, u.run) /\ Top(u) /\ Eased(s, u) /\ u.wait = s.wait /\ u.dly = s.dly
<1>1. PICK u : u = YieldToHigher(s)
  OBVIOUS
<1>2. /\ s \in Kernels /\ s.run \in TCBs /\ s.run # NoTask /\ s.prio \in [TCBs -> Nat]
      /\ s.rdy \in Seq(TCBs)
  BY KernelTypes, TaskNames DEF Fit
<1>3. CASE s.rdy # <<>> /\ rt_rdy_prio(s) > s.prio[s.run]
  <2>1. /\ Fit(s, X \cup {s.run}, NoTask) /\ s.run \in Alive(s) /\ s.run \notin X
        /\ ~ InDly(s.dly, s.run)
    BY <1>2, ReleaseFit
  <2>2. PICK a : a = MakeReady(s, s.run)
    OBVIOUS
  <2>3. /\ Fit(a, (X \cup {s.run}) \ {s.run}, NoTask) /\ Eased(s, a)
        /\ a.wait = s.wait /\ a.dly = s.dly
        /\ \A x : InSeq(a.rdy, x) <=> InSeq(s.rdy, x) \/ x = s.run
    BY <2>1, <2>2, MakeReadyFit
  <2>4. (X \cup {s.run}) \ {s.run} = X
    BY <2>1
  <2>5. a.rdy # <<>>
    BY <2>3 DEF InSeq
  <2>6. u = SwitchToFirst(a)
    BY <1>1, <1>3, <2>2 DEF YieldToHigher
  <2>7. Fit(u, X, u.run) /\ Top(u) /\ Eased(a, u) /\ u.wait = a.wait /\ u.dly = a.dly
    BY <2>3, <2>4, <2>5, <2>6, SwitchFit
  <2> QED BY <1>1, <2>3, <2>7, EasedTrans
<1>4. CASE ~(s.rdy # <<>> /\ rt_rdy_prio(s) > s.prio[s.run])
  <2>1. u = s
    BY <1>1, <1>4 DEF YieldToHigher
  <2>2. Top(s)
    <3>1. CASE s.rdy = <<>>
      BY <1>2, <3>1, EmptyList DEF Top, Below
    <3>2. CASE s.rdy # <<>>
      <4>1. Sorted(s.rdy, s.prio)
        BY DEF Fit
      <4>2. Head(s.rdy) \in TCBs /\ Below(s.rdy, s.prio, s.prio[Head(s.rdy)])
        BY <1>2, <3>2, <4>1, HeadTail, HeadHighest
      <4>3. /\ s.prio[Head(s.rdy)] <= s.prio[s.run]
            /\ \A x \in TCBs : s.prio[x] \in Nat
        BY <1>2, <1>4, <3>2, <4>2 DEF rt_rdy_prio
      <4> QED BY <1>2, <4>2, <4>3 DEF Top, Below
    <3> QED BY <3>1, <3>2
  <2> QED BY <1>1, <2>1, <2>2, EasedSelf
<1> QED BY <1>3, <1>4

\* List r is q without thread t.
Leaves(q, r, t) ==
    (\A x, n : Due(r, x, n) <=> Due(q, x, n) /\ x # t) /\ (Spaced(q) => Spaced(r))

\* A thread of X leaves the delay list.
LEMMA RmvDlyFit ==
    ASSUME NEW s, NEW X, NEW r, Fit(s, X, r), NEW t
    PROVE  LET u == rt_rmv_dly(s, t)
           IN  /\ Fit(u, X, r) /\ SameObjects(s, u) /\ u.run = s.run /\ u.rdy = s.rdy
               /\ u.st = s.st /\ u.wait = s.wait /\ ~ InDly(u.dly, t)
               /\ Leaves(s.dly, u.dly, t)
<1>1. PICK u : u = rt_rmv_dly(s, t)
  OBVIOUS
<1>2. s \in Kernels /\ OnceDly(s.dly)
  BY DEF Fit, Delayed
<1>3. PICK q \in Seq(Delays) :
          /\ u = [s EXCEPT !.dly = q] /\ OnceDly(q)
          /\ \A x, n : Due(q, x, n) <=> Due(s.dly, x, n) /\ x # t
          /\ Spaced(s.dly) => Spaced(q)
  BY <1>1, <1>2, RmvDly
<1>4. Written(s, u, s.run, s.rdy, q, s.st, s.wait)
  BY <1>2, <1>3, SetDly
<1>5. /\ u \in Kernels /\ SameObjects(s, u) /\ u.run = s.run /\ u.rdy = s.rdy /\ u.dly = q
      /\ u.st = s.st /\ u.wait = s.wait
  BY <1>4 DEF Written
<1>6. u.active = s.active /\ u.prio = s.prio /\ Alive(u) = Alive(s)
  BY <1>5 DEF SameObjects, Alive
<1>7. \A x : InDly(q, x) <=> InDly(s.dly, x) /\ x # t
  BY <1>3, InDlyDue
<1>8. Chained(u, X, r)
  BY <1>5, <1>6 DEF Fit, Chained
<1>9. Delayed(u)
  BY <1>3, <1>5, <1>6, <1>7 DEF Fit, Delayed
<1>10. Fit(u, X, r)
  BY <1>5, <1>6, <1>8, <1>9 DEF Fit
<1>11. ~ InDly(u.dly, t)
  BY <1>5, <1>7
<1>12. Leaves(s.dly, u.dly, t)
  BY <1>3, <1>5 DEF Leaves
<1> QED BY <1>1, <1>5, <1>10, <1>11, <1>12

\* The links of thread t are taken out.
Delisted(s, X, r, t, u) ==
    /\ Fit(u, X \cup {t}, r) /\ SameObjects(s, u) /\ u.run = s.run /\ u.dly = s.dly
    /\ u.st = s.st /\ Eased(s, u)
    /\ \A x : InSeq(u.rdy, x) <=> InSeq(s.rdy, x) /\ x # t
    /\ \A o \in Objects : \A x : InSeq(u.wait[o], x) <=> InSeq(s.wait[o], x) /\ x # t
    /\ \A o \in Objects : u.wait[o] = RemoveFirst(s.wait[o], t)
    /\ u.rdy = RemoveFirst(s.rdy, t)

\* rt_rmv_list takes a thread out of the list it is in, whichever that is.
LEMMA RmvListFit ==
    ASSUME NEW s, NEW X, NEW r, Fit(s, X, r), NEW t \in TCBs, t # r, NEW u, u = rt_rmv_list(s, t)
    PROVE  Delisted(s, X, r, t, u)
<1>1. u = rt_rmv_list(s, t)
  OBVIOUS
<1>2. /\ s \in Kernels /\ s.rdy \in Seq(TCBs) /\ s.wait \in [Objects -> Seq(Tasks)]
      /\ Once(s.rdy) /\ (\A o \in Objects : Once(s.wait[o])) /\ Sorted(s.rdy, s.prio)
  BY KernelTypes DEF Fit, Chained
<1>3. PICK q : q = RemoveFirst(s.rdy, t)
  OBVIOUS
<1>4. PICK w : w = [o \in Objects |-> RemoveFirst(s.wait[o], t)]
  OBVIOUS
<1>5. /\ q \in Seq(TCBs) /\ (\A x : InSeq(q, x) <=> InSeq(s.rdy, x) /\ x # t) /\ Once(q)
      /\ Sorted(q, s.prio)
  BY <1>2, <1>3, RemoveFirstOnce, RemoveFirstSorted
<1>6. \A o \in Objects :
          /\ w[o] \in Seq(Tasks) /\ (\A x : InSeq(w[o], x) <=> InSeq(s.wait[o], x) /\ x # t)
          /\ Once(w[o])
  <2> SUFFICES ASSUME NEW o \in Objects
               PROVE  /\ w[o] \in Seq(Tasks)
                      /\ (\A x : InSeq(w[o], x) <=> InSeq(s.wait[o], x) /\ x # t)
                      /\ Once(w[o])
    OBVIOUS
  <2>1. w[o] = RemoveFirst(s.wait[o], t) /\ s.wait[o] \in Seq(Tasks) /\ Once(s.wait[o])
    BY <1>2, <1>4
  <2> QED BY <2>1, RemoveFirstOnce
<1>7. w \in [Objects -> Seq(Tasks)]
  BY <1>4, <1>6
<1>8. u = [s EXCEPT !.rdy = q, !.wait = w]
  <2>1. DOMAIN s.wait = Objects
    BY <1>2
  <2> QED BY <1>1, <1>3, <1>4, <2>1 DEF rt_rmv_list
<1>9. Written(s, u, s.run, q, s.dly, s.st, w)
  <2>1. Written(s, [s EXCEPT !.rdy = q, !.wait = w], s.run, q, s.dly, s.st, w)
    BY <1>2, <1>5, <1>7, SetRdyWait
  <2> QED BY <1>8, <2>1, Zenon
<1>10. /\ u \in Kernels /\ SameObjects(s, u) /\ u.run = s.run /\ u.rdy = q /\ u.dly = s.dly
       /\ u.st = s.st /\ u.wait = w
  BY <1>9 DEF Written
<1>11. u.active = s.active /\ u.prio = s.prio /\ Alive(u) = Alive(s)
  BY <1>10 DEF SameObjects, Alive
<1>12. Chained(u, X \cup {t}, r)
  <2>1. \A x \in TCBs : InSeq(u.rdy, x) => x \in Alive(u) \ (X \cup {t}) /\ u.st[x] = "READY"
    BY <1>5, <1>10, <1>11 DEF Fit, Chained
  <2>2. \A o \in Objects, x \in Tasks : InSeq(u.wait[o], x) =>
           x \in u.active \ (X \cup {t}) /\ u.st[x] \in InQueue /\ o \in ListsOf(u.st[x])
    BY <1>6, <1>10, <1>11 DEF Fit, Chained
  <2>3. \A x \in Alive(u) \ (X \cup {t}) :
           /\ u.st[x] = "READY" => InSeq(u.rdy, x)
           /\ u.st[x] \in InQueue => \E o \in Objects : InSeq(u.wait[o], x)
           /\ u.st[x] # "INACTIVE" /\ (u.st[x] = "RUNNING" <=> x = r)
    BY <1>5, <1>6, <1>10, <1>11 DEF Fit, Chained
  <2>4. r \in (Alive(u) \ (X \cup {t})) \cup {NoTask}
    BY <1>11 DEF Fit, Chained
  <2>5. Once(u.rdy) /\ \A o \in Objects : Once(u.wait[o])
    BY <1>5, <1>6, <1>10
  <2>6. \A o, z \in Objects, x \in Tasks : InSeq(u.wait[o], x) /\ InSeq(u.wait[z], x) => o = z
    BY <1>6, <1>10 DEF Fit, Chained
  <2>7. Idle \in X \cup {t} \/ u.st[Idle] \in {"READY", "RUNNING"}
    BY <1>10 DEF Fit, Chained
  <2> QED BY <2>1, <2>2, <2>3, <2>4, <2>5, <2>6, <2>7 DEF Chained
<1>13. Delayed(u)
  BY <1>10, <1>11 DEF Fit, Delayed
<1>14. Fit(u, X \cup {t}, r)
  BY <1>5, <1>10, <1>11, <1>12, <1>13 DEF Fit
<1>15. Eased(s, u)
  BY <1>6, <1>10 DEF Eased
<1>16. \A o \in Objects : u.wait[o] = RemoveFirst(s.wait[o], t)
  BY <1>4, <1>10
<1> QED BY <1>3, <1>5, <1>6, <1>10, <1>14, <1>15, <1>16 DEF Delisted

\* In u, thread t is taken off the list of o and off the delay list.
Unchained(s, X, r, o, t, u) ==
    /\ Fit(u, X \cup {t}, r) /\ SameObjects(s, u) /\ u.run = s.run /\ u.rdy = s.rdy
    /\ u.st = s.st /\ ~ InDly(u.dly, t)
    /\ Leaves(s.dly, u.dly, t)
    /\ u.wait = [s.wait EXCEPT ![o] = Tail(s.wait[o])]
    /\ t \in s.active /\ t \in Tasks /\ t \notin X /\ t # r
    /\ InSeq(s.wait[o], t) /\ s.st[t] \in InQueue

\* The first thread that waits for an object is taken out of the lists.
LEMMA UnchainFit ==
    ASSUME NEW s, NEW X, NEW r, Fit(s, X, r), NEW o \in Objects, s.wait[o] # <<>>,
           NEW u, u = Unchain(s, o), NEW t, t = rt_get_first(s, o)
    PROVE  Unchained(s, X, r, o, t, u)
<1>2. PICK a : a = [s EXCEPT !.wait[o] = Tail(s.wait[o])]
  OBVIOUS
<1>4. u = rt_rmv_dly(a, t)
  BY <1>2 DEF Unchain
<1>5. s \in Kernels /\ s.wait \in [Objects -> Seq(Tasks)] /\ s.wait[o] \in Seq(Tasks) /\ Once(s.wait[o])
  BY KernelTypes DEF Fit, Chained
<1>6. /\ Tail(s.wait[o]) \in Seq(Tasks) /\ t \in Tasks /\ InSeq(s.wait[o], t)
      /\ \A x : InSeq(s.wait[o], x) <=> x = t \/ InSeq(Tail(s.wait[o]), x)
      /\ Once(Tail(s.wait[o])) /\ ~ InSeq(Tail(s.wait[o]), t)
  BY <1>5, HeadTail DEF rt_get_first
<1>7. Written(s, a, s.run, s.rdy, s.dly, s.st, [s.wait EXCEPT ![o] = Tail(s.wait[o])])
  BY <1>2, <1>5, <1>6, SetWait
<1>8. /\ a \in Kernels /\ SameObjects(s, a) /\ a.run = s.run /\ a.rdy = s.rdy /\ a.dly = s.dly
      /\ a.st = s.st /\ a.wait = [s.wait EXCEPT ![o] = Tail(s.wait[o])]
  BY <1>7 DEF Written
<1>9. a.active = s.active /\ a.prio = s.prio /\ Alive(a) = Alive(s)
  BY <1>8 DEF SameObjects, Alive
<1>10. \A z \in Objects : a.wait[z] = IF z = o THEN Tail(s.wait[o]) ELSE s.wait[z]
  BY <1>5, <1>8
<1>11. \A z \in Objects : \A x \in Tasks : InSeq(a.wait[z], x) <=> InSeq(s.wait[z], x) /\ x # t
  <2>1. \A z \in Objects : InSeq(s.wait[z], t) => z = o
    BY <1>6 DEF Fit, Chained
  <2> QED BY <1>6, <1>10, <2>1
<1>12. t \in s.active /\ t \notin X /\ s.st[t] \in InQueue /\ t \in TCBs
  BY <1>6, TaskNames DEF Fit, Chained
<1>13. t # r
  BY <1>12, StateNames, TaskNames DEF Fit, Chained
<1>14. Chained(a, X \cup {t}, r)
  <2>1. \A x \in TCBs : InSeq(a.rdy, x) => x \in Alive(a) \ (X \cup {t}) /\ a.st[x] = "READY"
    BY <1>8, <1>9, <1>12, StateNames DEF Fit, Chained
  <2>2. \A z \in Objects, x \in Tasks : InSeq(a.wait[z], x) =>
           x \in a.active \ (X \cup {t}) /\ a.st[x] \in InQueue /\ z \in ListsOf(a.st[x])
    BY <1>8, <1>9, <1>11 DEF Fit, Chained
  <2>3. \A x \in Alive(a) \ (X \cup {t}) :
           /\ a.st[x] = "READY" => InSeq(a.rdy, x)
           /\ a.st[x] \in InQueue => \E z \in Objects : InSeq(a.wait[z], x)
           /\ a.st[x] # "INACTIVE" /\ (a.st[x] = "RUNNING" <=> x = r)
    <3> SUFFICES ASSUME NEW x \in Alive(a) \ (X \cup {t})
                 PROVE  /\ a.st[x] = "READY" => InSeq(a.rdy, x)
                        /\ a.st[x] \in InQueue => \E z \in Objects : InSeq(a.wait[z], x)
                        /\ a.st[x] # "INACTIVE" /\ (a.st[x] = "RUNNING" <=> x = r)
      OBVIOUS
    <3>1. x \in Alive(s) \ X /\ x # t
      BY <1>9
    <3>2. s.st[x] \in InQueue => x \in Tasks
      BY <1>5, <3>1, KernelTypes, StateNames, TaskNames DEF Fit, Chained, Alive
    <3> QED BY <1>8, <1>11, <3>1, <3>2 DEF Fit, Chained
  <2>4. r \in (Alive(a) \ (X \cup {t})) \cup {NoTask}
    BY <1>9, <1>13 DEF Fit, Chained
  <2>5. Once(a.rdy) /\ \A z \in Objects : Once(a.wait[z])
    BY <1>6, <1>8, <1>10 DEF Fit, Chained
  <2>6. \A y, z \in Objects, x \in Tasks : InSeq(a.wait[y], x) /\ InSeq(a.wait[z], x) => y = z
    BY <1>11 DEF Fit, Chained
  <2>7. Idle \in X \cup {t} \/ a.st[Idle] \in {"READY", "RUNNING"}
    BY <1>8 DEF Fit, Chained
  <2> QED BY <2>1, <2>2, <2>3, <2>4, <2>5, <2>6, <2>7 DEF Chained
<1>15. Fit(a, X \cup {t}, r)
  BY <1>8, <1>9, <1>14 DEF Fit, Delayed
<1>16. /\ Fit(u, X \cup {t}, r) /\ SameObjects(a, u) /\ u.run = a.run /\ u.rdy = a.rdy
       /\ u.st = a.st /\ u.wait = a.wait /\ ~ InDly(u.dly, t)
       /\ Leaves(a.dly, u.dly, t)
  BY <1>4, <1>15, RmvDlyFit
<1>17. SameObjects(s, u)
  BY <1>8, <1>16 DEF SameObjects
<1> QED BY <1>6, <1>8, <1>12, <1>13, <1>16, <1>17 DEF Unchained

(***************************************************************************)
(* The running thread waits.                                               *)
(***************************************************************************)

\* The running thread of s is put in the lists w that state names.
Joins(s, w, state) ==
    /\ w \in [Objects -> Seq(Tasks)] /\ \A z \in Objects : Once(w[z])
    /\ \A z \in Objects, x \in Tasks : x # s.run => (InSeq(w[z], x) <=> InSeq(s.wait[z], x))
    /\ \A z \in Objects : InSeq(w[z], s.run) => state \in InQueue /\ z \in ListsOf(state)
    /\ \A y, z \in Objects : InSeq(w[y], s.run) /\ InSeq(w[z], s.run) => y = z
    /\ state \in InQueue => \E z \in Objects : InSeq(w[z], s.run)

\* The running thread is written to wait.
LEMMA ParkFit ==
    ASSUME NEW s, Fit(s, {}, s.run), s.run \in Tasks, NEW state \in Waits,
           NEW w, Joins(s, w, state),
           NEW q \in Seq(Delays), OnceDly(q), \A x : InDly(q, x) => InDly(s.dly, x) \/ x = s.run,
           NEW u, Written(s, u, s.run, s.rdy, q, [s.st EXCEPT ![s.run] = state], w)
    PROVE  Fit(u, {}, NoTask) /\ u.rdy # <<>> /\ ~ InSeq(u.rdy, s.run)
<1>1. /\ s \in Kernels /\ s.rdy \in Seq(TCBs) /\ s.st \in [TCBs -> States]
      /\ s.active \in SUBSET Tasks
  BY KernelTypes DEF Fit
<1>2. s.run # NoTask /\ s.run # Idle /\ s.run \in TCBs
  BY TaskNames
<1>3. /\ Fit(s, {} \cup {s.run}, NoTask) /\ s.run \in Alive(s) /\ ~ InDly(s.dly, s.run)
      /\ s.st[s.run] = "RUNNING"
  BY <1>2, ReleaseFit
<1>4. PICK r : r = s.run
  OBVIOUS
<1>5. r \in s.active
  BY <1>2, <1>3, <1>4 DEF Alive
<1>6. /\ u \in Kernels /\ SameObjects(s, u) /\ u.run = s.run /\ u.rdy = s.rdy /\ u.dly = q
      /\ u.st = [s.st EXCEPT ![s.run] = state] /\ u.wait = w
  BY DEF Written
<1>7. u.st[r] = state /\ \A x \in TCBs : x # r => u.st[x] = s.st[x]
  BY <1>1, <1>2, <1>4, <1>6
<1>8. Alive(u) = Alive(s) /\ u.prio = s.prio /\ u.active = s.active
  BY <1>6 DEF Alive, SameObjects
<1>9. \A x \in TCBs : InSeq(s.rdy, x) => x # r
  BY <1>3, <1>4 DEF Fit, Chained
<1>10. /\ state # "READY" /\ state # "RUNNING" /\ state # "INACTIVE"
  BY StateNames
<1>11. Chained(u, {}, NoTask)
  <2>1. Once(u.rdy) /\ \A o \in Objects : Once(u.wait[o])
    BY <1>6 DEF Fit, Chained, Joins
  <2>2. \A x \in TCBs : InSeq(u.rdy, x) => x \in Alive(u) \ {} /\ u.st[x] = "READY"
    BY <1>6, <1>7, <1>8, <1>9 DEF Fit, Chained
  <2>3. \A o \in Objects, x \in Tasks : InSeq(u.wait[o], x) =>
           x \in u.active \ {} /\ u.st[x] \in InQueue /\ o \in ListsOf(u.st[x])
    <3> SUFFICES ASSUME NEW o \in Objects, NEW x \in Tasks, InSeq(u.wait[o], x)
                 PROVE  x \in u.active /\ u.st[x] \in InQueue /\ o \in ListsOf(u.st[x])
      OBVIOUS
    <3>1. CASE x = r
      BY <1>4, <1>5, <1>6, <1>7, <1>8, <3>1 DEF Joins
    <3>2. CASE x # r
      <4>1. InSeq(s.wait[o], x) /\ u.st[x] = s.st[x]
        BY <1>4, <1>6, <1>7, <3>2, TaskNames DEF Joins
      <4> QED BY <1>8, <4>1 DEF Fit, Chained
    <3> QED BY <3>1, <3>2
  <2>4. \A o, z \in Objects, x \in Tasks : InSeq(u.wait[o], x) /\ InSeq(u.wait[z], x) => o = z
    <3> SUFFICES ASSUME NEW o \in Objects, NEW z \in Objects, NEW x \in Tasks,
                        InSeq(u.wait[o], x), InSeq(u.wait[z], x)
                 PROVE  o = z
      OBVIOUS
    <3>1. CASE x = r
      BY <1>4, <1>6, <3>1 DEF Joins
    <3>2. CASE x # r
      <4>1. InSeq(s.wait[o], x) /\ InSeq(s.wait[z], x)
        BY <1>4, <1>6, <3>2 DEF Joins
      <4> QED BY <4>1 DEF Fit, Chained
    <3> QED BY <3>1, <3>2
  <2>6. \A x \in Alive(u) \ {} :
           /\ u.st[x] = "READY" => InSeq(u.rdy, x)
           /\ u.st[x] \in InQueue => \E o \in Objects : InSeq(u.wait[o], x)
           /\ u.st[x] # "INACTIVE" /\ (u.st[x] = "RUNNING" <=> x = NoTask)
    <3> SUFFICES ASSUME NEW x \in Alive(u)
                 PROVE  /\ u.st[x] = "READY" => InSeq(u.rdy, x)
                        /\ u.st[x] \in InQueue => \E o \in Objects : InSeq(u.wait[o], x)
                        /\ u.st[x] # "INACTIVE" /\ (u.st[x] = "RUNNING" <=> x = NoTask)
      OBVIOUS
    <3>0. x \in TCBs /\ x # NoTask /\ x \in Alive(s)
      BY <1>1, <1>8, TaskNames DEF Alive
    <3>1. CASE x = r
      BY <1>4, <1>6, <1>7, <1>10, <3>0, <3>1 DEF Joins
    <3>2. CASE x # r
      <4>1. u.st[x] = s.st[x] /\ (x \in Tasks \/ x = Idle)
        BY <1>7, <3>0, <3>2 DEF TCBs
      <4>2. s.st[x] = "READY" => InSeq(u.rdy, x)
        BY <1>6, <3>0 DEF Fit, Chained
      <4>3. s.st[x] # "INACTIVE" /\ s.st[x] # "RUNNING"
        BY <1>4, <3>0, <3>2 DEF Fit, Chained
      <4>4. s.st[x] \in InQueue => x \in Tasks
        BY <3>0, <4>1, StateNames DEF Fit, Chained
      <4>5. s.st[x] \in InQueue => \E o \in Objects : InSeq(s.wait[o], x)
        BY <3>0 DEF Fit, Chained
      <4>6. s.st[x] \in InQueue => \E o \in Objects : InSeq(u.wait[o], x)
        BY <1>4, <1>6, <3>2, <4>4, <4>5 DEF Joins
      <4> QED BY <3>0, <4>1, <4>2, <4>3, <4>6
    <3> QED BY <3>1, <3>2
  <2>7. u.st[Idle] \in {"READY", "RUNNING"}
    BY <1>2, <1>4, <1>7, TaskNames DEF Fit, Chained
  <2> QED BY <2>1, <2>2, <2>3, <2>4, <2>6, <2>7 DEF Chained
<1>12. Delayed(u)
  <2>1. ASSUME NEW x \in Tasks, InDly(u.dly, x)
        PROVE  x \in u.active /\ u.st[x] \in Waits
    <3>1. CASE x = r
      BY <1>5, <1>7, <1>8, <3>1
    <3>2. CASE x # r
      <4>1. InDly(s.dly, x) /\ u.st[x] = s.st[x]
        BY <1>4, <1>6, <1>7, <2>1, <3>2, TaskNames
      <4> QED BY <1>8, <4>1 DEF Fit, Delayed
    <3> QED BY <3>1, <3>2
  <2> QED BY <1>6, <2>1 DEF Delayed
<1>13. Fit(u, {}, NoTask)
  BY <1>6, <1>8, <1>11, <1>12 DEF Fit
<1>14. u.rdy # <<>>
  BY <1>13, SomeReady
<1> QED BY <1>2, <1>4, <1>6, <1>9, <1>13, <1>14

\* The running thread of s waits in state, in the lists w; another one runs.
Parks(s, u, timeout, state, w) ==
    /\ SameObjects(s, u) /\ u.wait = w /\ u.st[s.run] = state
    /\ \A t \in TCBs : t # s.run => u.st[t] = s.st[t] \/ u.st[t] \in {"READY", "RUNNING"}
    /\ \A x, n : Due(u.dly, x, n) <=>
                     Due(s.dly, x, n) \/ (x = s.run /\ n = timeout /\ timeout # Forever)
    /\ Spaced(s.dly) => Spaced(u.dly)

\* Its time starts, if it has one.
LEMMA TimedFit ==
    ASSUME NEW s, Fit(s, {}, s.run), s.run \in Tasks, NEW w,
           NEW b, Written(s, b, s.run, s.rdy, s.dly, s.st, w), NEW timeout \in Nat,
           NEW c, c = IF timeout = Forever THEN b ELSE rt_put_dly(b, b.run, timeout)
    PROVE  \E q \in Seq(Delays) :
              /\ Written(s, c, s.run, s.rdy, q, s.st, w) 
              /\ IF timeout = Forever THEN q = s.dly ELSE Enters(s.dly, q, s.run, timeout)
<1>2. /\ s \in Kernels /\ s.dly \in Seq(Delays) /\ OnceDly(s.dly)
  BY KernelTypes DEF Fit, Delayed
<1>3. s.run # NoTask
  BY TaskNames
<1>4. ~ InDly(s.dly, s.run)
  BY <1>3, ReleaseFit
<1>5. /\ b \in Kernels /\ SameObjects(s, b) /\ b.run = s.run /\ b.rdy = s.rdy /\ b.dly = s.dly
      /\ b.st = s.st /\ b.wait = w
  BY DEF Written
<1>6. CASE timeout = Forever
  <2>1. c = b
    BY <1>6
  <2>2. Written(s, c, s.run, s.rdy, s.dly, s.st, w)
    BY <2>1
  <2> QED BY <1>2, <1>6, <2>2, Zenon
<1>7. CASE timeout # Forever
  <2>1. c = rt_put_dly(b, s.run, timeout)
    BY <1>5, <1>7
  <2>2. PICK q \in Seq(Delays) :
          rt_put_dly(b, s.run, timeout) = [b EXCEPT !.dly = q] /\ Enters(b.dly, q, s.run, timeout)
    <3>1. b.dly \in Seq(Delays) /\ OnceDly(b.dly) /\ ~ InDly(b.dly, s.run) /\ timeout \in Int
      BY <1>2, <1>4, <1>5
    <3> QED BY <3>1, PutDly, Zenon
  <2>3. Written(b, [b EXCEPT !.dly = q], b.run, b.rdy, q, b.st, b.wait)
    BY <1>5, SetDly
  <2>4. Written(b, c, b.run, b.rdy, q, b.st, b.wait)
    BY <2>1, <2>2, <2>3, Zenon
  <2>5. Written(s, c, s.run, s.rdy, q, s.st, w)
    BY <1>5, <2>4 DEF Written, SameObjects
  <2>6. Enters(s.dly, q, s.run, timeout)
    BY <1>5, <2>2, Zenon
  <2> QED BY <1>7, <2>5, <2>6, Zenon
<1> QED BY <1>6, <1>7, Zenon

\* rt_block: the caller waits, and the first ready thread runs.
LEMMA BlockFit ==
    ASSUME NEW s, Fit(s, {}, s.run), s.run \in Tasks, NEW state \in Waits,
           NEW w, Joins(s, w, state), NEW b, Written(s, b, s.run, s.rdy, s.dly, s.st, w),
           NEW timeout \in Nat, timeout # 0
    PROVE  LET u == rt_block(b, timeout, state)
           IN  Fit(u, {}, u.run) /\ Top(u) /\ Parks(s, u, timeout, state, w)
<1>1. PICK c : c = IF timeout = Forever THEN b ELSE rt_put_dly(b, b.run, timeout)
  OBVIOUS
<1>2. PICK q \in Seq(Delays) :
          /\ Written(s, c, s.run, s.rdy, q, s.st, w)
          /\ IF timeout = Forever THEN q = s.dly ELSE Enters(s.dly, q, s.run, timeout)
  BY <1>1, TimedFit, Zenon
<1>20. s.dly \in Seq(Delays) /\ OnceDly(s.dly)
  BY KernelTypes DEF Fit, Delayed
<1>21. /\ OnceDly(q)
       /\ \A x, n : Due(q, x, n) <=>
              Due(s.dly, x, n) \/ (x = s.run /\ n = timeout /\ timeout # Forever)
       /\ Spaced(s.dly) => Spaced(q)
  <2>1. CASE timeout = Forever
    BY <1>2, <1>20, <2>1
  <2>2. CASE timeout # Forever
    <3>1. Enters(s.dly, q, s.run, timeout) /\ timeout > 0
      BY <1>2, <2>2
    <3> QED BY <2>2, <3>1 DEF Enters
  <2> QED BY <2>1, <2>2
<1>3. PICK d : d = [c EXCEPT !.st[s.run] = state]
  OBVIOUS
<1>4. PICK u : u = rt_block(b, timeout, state)
  OBVIOUS
<1>5. u = SwitchToFirst(d)
  <2>1. b.run = s.run
    BY DEF Written
  <2>2. d = [(IF timeout = Forever THEN b ELSE rt_put_dly(b, b.run, timeout))
                 EXCEPT !.st[b.run] = state]
    BY <1>1, <1>3, <2>1
  <2> QED BY <1>4, <2>2, Zenon DEF rt_block
<1>6. state \in States /\ s.run \in TCBs /\ c \in Kernels /\ s.st \in [TCBs -> States]
  BY <1>2, StateNames, TaskNames, KernelTypes DEF Written, Fit
<1>7. Written(s, d, s.run, s.rdy, q, [s.st EXCEPT ![s.run] = state], w)
  <2>1. Written(c, d, c.run, c.rdy, c.dly, [c.st EXCEPT ![s.run] = state], c.wait)
    BY <1>3, <1>6, SetSt
  <2> QED BY <1>2, <2>1 DEF Written, SameObjects
<1>8. \A x : InDly(q, x) => InDly(s.dly, x) \/ x = s.run
  BY <1>21, InDlyDue
<1>9. Fit(d, {}, NoTask) /\ d.rdy # <<>> /\ ~ InSeq(d.rdy, s.run)
  BY <1>7, <1>8, <1>21, ParkFit
<1>10. /\ Fit(u, {}, u.run) /\ Top(u) /\ Eased(d, u) /\ u.wait = d.wait /\ u.dly = d.dly
       /\ u.st = [d.st EXCEPT ![Head(d.rdy)] = "RUNNING"]
  BY <1>5, <1>9, SwitchFit
<1>11. d \in Kernels /\ d.st \in [TCBs -> States] /\ d.rdy \in Seq(TCBs)
  BY <1>9, KernelTypes DEF Fit
<1>12. Head(d.rdy) # s.run
  BY <1>9, <1>11, HeadTail
<1>13. d.st = [s.st EXCEPT ![s.run] = state] /\ d.wait = w /\ d.dly = q /\ SameObjects(s, d)
  BY <1>7 DEF Written
<1>14. u.st[s.run] = state
  BY <1>6, <1>10, <1>11, <1>12, <1>13
<1>15. \A t \in TCBs : t # s.run => u.st[t] = s.st[t] \/ u.st[t] \in {"READY", "RUNNING"}
  <2>1. \A t \in TCBs : t # s.run => d.st[t] = s.st[t]
    BY <1>6, <1>13
  <2> QED BY <1>10, <2>1 DEF Eased
<1>16. SameObjects(s, u)
  BY <1>10, <1>13 DEF Eased, SameObjects
<1>18. Parks(s, u, timeout, state, w)
  BY <1>10, <1>13, <1>14, <1>15, <1>16, <1>21 DEF Parks
<1> QED BY <1>4, <1>10, <1>18

\* rt_put_prio on the list of an object.
LEMMA PutPrioTasks ==
    ASSUME NEW s, s.prio \in [TCBs -> Nat], NEW q \in Seq(Tasks), NEW t \in Tasks,
           Once(q), ~ InSeq(q, t), NEW p, p = rt_put_prio(s, q, t)
    PROVE  p \in Seq(Tasks) /\ Once(p) /\ \A x : InSeq(p, x) <=> InSeq(q, x) \/ x = t
<1>1. Tasks \subseteq TCBs
  BY TaskNames
<1>2. /\ rt_put_prio(s, q, t) \in Seq(Tasks)
      /\ \A x : InSeq(rt_put_prio(s, q, t), x) <=> InSeq(q, x) \/ x = t
      /\ Once(q) /\ ~ InSeq(q, t) => Once(rt_put_prio(s, q, t))
      /\ Sorted(q, s.prio) => Sorted(rt_put_prio(s, q, t), s.prio)
  BY <1>1, PutPrioList
<1> QED BY <1>2

\* It joins the list of object o.
JoinsAt(s, w, o, state) ==
    Joins(s, w, state) /\ \A z \in Objects : InSeq(w[z], s.run) => z = o

\* The caller waits in the list of an object.
LEMMA BlockOnFit ==
    ASSUME NEW s, Fit(s, {}, s.run), s.run \in Tasks, NEW state \in InQueue,
           NEW o \in Objects, o \in ListsOf(state), NEW timeout \in Nat, timeout # 0
    PROVE  LET u == BlockOn(s, o, timeout, state)
           IN  /\ Fit(u, {}, u.run) /\ Top(u)
               /\ \E w : JoinsAt(s, w, o, state) /\ Parks(s, u, timeout, state, w)
<1>1. PICK p : p = rt_put_prio(s, s.wait[o], s.run)
  OBVIOUS
<1>2. PICK b : b = [s EXCEPT !.wait[o] = p]
  OBVIOUS
<1>3. PICK u : u = BlockOn(s, o, timeout, state)
  OBVIOUS
<1>4. u = rt_block(b, timeout, state)
  BY <1>1, <1>2, <1>3 DEF BlockOn
<1>5. /\ s \in Kernels /\ s.prio \in [TCBs -> Nat] /\ s.wait \in [Objects -> Seq(Tasks)]
      /\ s.wait[o] \in Seq(Tasks) /\ \A z \in Objects : Once(s.wait[z])
  BY KernelTypes DEF Fit, Chained
<1>6. s.st[s.run] = "RUNNING"
  <2>1. s.run # NoTask
    BY TaskNames
  <2>2. Fit(s, {} \cup {s.run}, NoTask) /\ s.run \in Alive(s) /\ s.st[s.run] = "RUNNING"
    BY <2>1, ReleaseFit
  <2> QED BY <2>2
<1>7. \A z \in Objects : ~ InSeq(s.wait[z], s.run)
  BY <1>6, StateNames DEF Fit, Chained
<1>8. /\ p \in Seq(Tasks) /\ (\A x : InSeq(p, x) <=> InSeq(s.wait[o], x) \/ x = s.run) /\ Once(p)
  <2>1. PICK l : l = s.wait[o]
    OBVIOUS
  <2>2. /\ l \in Seq(Tasks) /\ Once(l) /\ ~ InSeq(l, s.run)
        /\ p = rt_put_prio(s, l, s.run)
    BY <1>1, <1>5, <1>7, <2>1
  <2>3. /\ p \in Seq(Tasks) /\ (\A x : InSeq(p, x) <=> InSeq(l, x) \/ x = s.run) /\ Once(p)
    BY <1>5, <2>2, PutPrioTasks
  <2> QED BY <2>1, <2>3
<1>9. PICK w : w = [s.wait EXCEPT ![o] = p]
  OBVIOUS
<1>10. w \in [Objects -> Seq(Tasks)] /\ \A z \in Objects : w[z] = IF z = o THEN p ELSE s.wait[z]
  BY <1>5, <1>8, <1>9
<1>11. Joins(s, w, state)
  BY <1>5, <1>7, <1>8, <1>10 DEF Joins
<1>12. Written(s, b, s.run, s.rdy, s.dly, s.st, w)
  BY <1>2, <1>5, <1>8, <1>9, SetWait
<1>13. state \in Waits
  BY StateNames
<1>14. Fit(u, {}, u.run) /\ Top(u) /\ Parks(s, u, timeout, state, w)
  BY <1>4, <1>11, <1>12, <1>13, BlockFit
<1>15. JoinsAt(s, w, o, state)
  BY <1>7, <1>10, <1>11 DEF JoinsAt
<1> QED BY <1>3, <1>14, <1>15

(***************************************************************************)
(* What a call leaves behind.                                              *)
(***************************************************************************)

\* What leaves the lists alone leaves them right.
LEMMA ObjectsFit ==
    ASSUME NEW s, NEW X, NEW r, Fit(s, X, r), NEW u \in Kernels, SameLists(s, u)
    PROVE  Fit(u, X, r) /\ (Top(s) => Top(u))
<1>1. Alive(u) = Alive(s)
  BY DEF Alive, SameLists
<1>2. Chained(u, X, r)
  BY <1>1 DEF SameLists, Fit, Chained
<1>3. Delayed(u)
  BY DEF SameLists, Fit, Delayed
<1>4. Sorted(u.rdy, u.prio) /\ (Top(s) => Top(u))
  BY DEF SameLists, Fit, Top
<1> QED BY <1>2, <1>3, <1>4 DEF Fit

\* The lists of an object that were empty stay empty.
LEMMA EasedEmpty ==
    ASSUME NEW s \in Kernels, NEW u \in Kernels, Eased(s, u), NEW o \in Objects, u.wait[o] # <<>>
    PROVE  s.wait[o] # <<>>
<1>1. s.wait[o] \in Seq(Tasks) /\ u.wait[o] \in Seq(Tasks)
  BY KernelTypes
<1>2. PICK t : InSeq(u.wait[o], t)
  BY <1>1, EmptyList
<1>3. t \in Tasks
  BY <1>1, <1>2, EmptyList
<1>4. InSeq(s.wait[o], t)
  BY <1>2, <1>3 DEF Eased
<1> QED BY <1>1, <1>4, EmptyList

\* No two objects are the same, and none is a thread.
LEMMA ObjectNames ==
    /\ Sems \subseteq Objects /\ Mutexes \subseteq Objects /\ Queue \in Objects
    /\ \A o \in Sems : o \notin Mutexes /\ o # Queue
    /\ \A o \in Mutexes : o \notin Sems /\ o # Queue
    /\ \A o \in Objects : o \notin TCBs
  BY RtxAssumption DEF Objects

\* Threads of X were woken.
LEMMA EasedWakeups ==
    ASSUME NEW s \in Kernels, NEW u \in Kernels, NEW X, Wakeups(s, X), Eased(s, u),
           \A t \in X : u.st[t] \in {"READY", "RUNNING"}
    PROVE  Wakeups(u, {})
<1>1. \A o \in Objects : u.wait[o] # <<>> => s.wait[o] # <<>>
  BY EasedEmpty
<1>2. SameObjects(s, u)
  BY DEF Eased
<1>3. \A o \in Sems : u.wait[o] # <<>> => u.tokens[o] = 0 /\ o \in u.live
  BY <1>1, <1>2, ObjectNames DEF SameObjects, Wakeups
<1>4. \A m \in Mutexes : u.wait[m] # <<>> => u.mut[m].level > 0 /\ m \in u.live
  BY <1>1, <1>2, ObjectNames DEF SameObjects, Wakeups
<1>5. u.wait[Queue] # <<>> =>
        \/ u.mbx.state = 1 /\ u.mbx.count = 0
        \/ u.mbx.state = 2 /\ u.mbx.count = MbxSize
  BY <1>1, <1>2, ObjectNames DEF SameObjects, Wakeups
<1>6. ASSUME NEW t \in u.active
      PROVE  /\ u.st[t] = "WAIT_AND" => ~(u.waits[t] \subseteq u.events[t])
             /\ u.st[t] = "WAIT_OR" => u.waits[t] \cap u.events[t] = {}
  <2>1. t \in TCBs /\ t \in s.active /\ u.waits = s.waits /\ u.events = s.events
    BY <1>2, KernelTypes, TaskNames DEF SameObjects
  <2>2. CASE u.st[t] \in {"READY", "RUNNING"}
    BY <2>2
  <2>3. CASE u.st[t] \notin {"READY", "RUNNING"}
    <3>1. u.st[t] = s.st[t] /\ t \notin X
      BY <2>1, <2>3 DEF Eased
    <3> QED BY <2>1, <3>1 DEF Wakeups
  <2> QED BY <2>2, <2>3
<1> QED BY <1>3, <1>4, <1>5, <1>6 DEF Wakeups

\* When threads become ready, mutexes keep their owners.
LEMMA EasedKept ==
    ASSUME NEW s, NEW u, Kept(s), Eased(s, u)
    PROVE  Kept(u)
<1>1. u.active = s.active /\ u.mut = s.mut /\ u.psq = s.psq
  BY DEF Eased, SameObjects
<1>2. \A m \in Mutexes, t \in Tasks : InSeq(u.wait[m], t) => t \in Lasting
  BY ObjectNames DEF Eased, Kept
<1> QED BY <1>1, <1>2 DEF Kept

\* The running thread has no time limit.
LEMMA RunningTimeless ==
    ASSUME NEW s, Fit(s, {}, s.run)
    PROVE  /\ s.run \in Alive(s) /\ s.st[s.run] = "RUNNING" /\ ~ InDly(s.dly, s.run)
           /\ \A n : ~ Due(s.dly, s.run, n)
           /\ ~ Waiting(s, s.run) /\ s.run \in TCBs
<1>1. s.run # NoTask
  BY KernelTypes, TaskNames DEF Fit
<1>2. /\ Fit(s, {} \cup {s.run}, NoTask) /\ s.run \in Alive(s) /\ ~ InDly(s.dly, s.run)
      /\ s.run \in TCBs /\ s.st[s.run] = "RUNNING"
  BY <1>1, ReleaseFit
<1>3. ~ Waiting(s, s.run)
  BY <1>2, StateNames DEF Waiting
<1> QED BY <1>2, <1>3, InDlyDue

\* When threads become ready, the others keep the time they have.
LEMMA EasedTimed ==
    ASSUME NEW s, NEW u, Fit(s, {}, s.run), s.run \in Tasks, Eased(s, u), NEW timeout
    PROVE  Timed(s, u, timeout)
<1>1. \A t \in Tasks : Waiting(u, t) => Waiting(s, t) /\ u.st[t] \notin {"READY", "RUNNING"}
  <2> SUFFICES ASSUME NEW t \in Tasks, Waiting(u, t)
               PROVE  Waiting(s, t) /\ u.st[t] \notin {"READY", "RUNNING"}
    OBVIOUS
  <2>1. t \in TCBs /\ t \in s.active
    BY TaskNames DEF Eased, SameObjects, Waiting
  <2>2. u.st[t] \notin {"READY", "RUNNING"}
    BY StateNames DEF Waiting
  <2>3. s.st[t] = u.st[t]
    BY <2>1, <2>2 DEF Eased
  <2> QED BY <2>1, <2>2, <2>3 DEF Waiting
<1>2. s.run \in TCBs /\ ~ Waiting(s, s.run) /\ \A n : ~ Due(s.dly, s.run, n)
  BY RunningTimeless
<1>3. ~ Waiting(u, s.run) /\ \A n : ~ Due(u.dly, s.run, n)
  BY <1>1, <1>2 DEF Eased
<1> QED BY <1>1, <1>3 DEF Eased, Timed

\* A call that wakes threads.
LEMMA EasedServes ==
    ASSUME NEW s, NEW u, Sound(s), s.run \in Tasks, Eased(s, u), Fit(u, {}, u.run), Top(u),
           NEW timeout
    PROVE  Serves(s, u, timeout)
<1>1. s \in Kernels /\ u \in Kernels /\ Fit(s, {}, s.run) /\ Wakeups(s, {}) /\ Kept(s)
  BY DEF Sound, Fit
<1>2. Wakeups(u, {})
  BY <1>1, EasedWakeups
<1>3. Kept(u)
  BY <1>1, EasedKept
<1>4. Timed(s, u, timeout)
  BY <1>1, EasedTimed
<1>5. u.psq = s.psq /\ u.mbx = s.mbx
  BY DEF Eased, SameObjects
<1>6. s.mbx.count < MbxSize => ~ Sending(u)
  <2>1. s.mbx.count \in Int /\ MbxSize \in Int
    BY <1>1, RtxAssumption DEF Kernels, Mailboxes
  <2> QED BY <1>2, <1>5, <2>1 DEF Wakeups, Sending
<1> QED BY <1>2, <1>3, <1>4, <1>5, <1>6 DEF Serves, Sound

\* A call that changes objects and no list.
LEMMA ObjectsServes ==
    ASSUME NEW s, NEW u \in Kernels, Sound(s), s.run \in Tasks, SameLists(s, u), Wakeups(u, {}),
           Kept(u), u.psq = s.psq, s.mbx.count < MbxSize => ~ Sending(u), NEW timeout
    PROVE  Serves(s, u, timeout)
<1>1. Fit(u, {}, s.run) /\ Top(u)
  BY ObjectsFit DEF Sound
<1>2. Fit(u, {}, u.run)
  BY <1>1 DEF SameLists
<1>3. ~ Waiting(s, s.run) /\ \A n : ~ Due(s.dly, s.run, n)
  BY RunningTimeless DEF Sound
<1>4. \A t : Waiting(u, t) <=> Waiting(s, t)
  BY DEF Waiting, SameLists
<1>5. Timed(s, u, timeout)
  BY <1>3, <1>4 DEF Timed, SameLists
<1> QED BY <1>1, <1>2, <1>5 DEF Serves, Sound

\* A call that changes objects first.
LEMMA ServesAfter ==
    ASSUME NEW s, NEW a, NEW u, SameLists(s, a), a.psq = s.psq,
           s.mbx.count < MbxSize => a.mbx.count < MbxSize, NEW timeout, Serves(a, u, timeout)
    PROVE  Serves(s, u, timeout)
<1>1. \A t : Waiting(a, t) <=> Waiting(s, t)
  BY DEF Waiting, SameLists
<1>2. Timed(s, u, timeout)
  BY <1>1 DEF Timed, SameLists, Serves
<1> QED BY <1>2 DEF Serves

\* What the running thread of s may wait for in the lists w.
Wants(s, w, state) ==
    /\ \A o \in Sems : InSeq(w[o], s.run) => s.tokens[o] = 0 /\ o \in s.live
    /\ \A m \in Mutexes :
           InSeq(w[m], s.run) => s.mut[m].level > 0 /\ m \in s.live /\ s.run \in Lasting
    /\ InSeq(w[Queue], s.run) =>
        \/ s.mbx.state = 1 /\ s.mbx.count = 0
        \/ s.mbx.state = 2 /\ s.mbx.count = MbxSize
    /\ state = "WAIT_AND" => ~(s.waits[s.run] \subseteq s.events[s.run])
    /\ state = "WAIT_OR" => s.waits[s.run] \cap s.events[s.run] = {}

\* A call that waits.
LEMMA ParksServes ==
    ASSUME NEW s, NEW u, Sound(s), s.run \in Tasks, Fit(u, {}, u.run), Top(u),
           NEW timeout \in Nat, timeout # 0, NEW state, NEW w,
           Joins(s, w, state), Wants(s, w, state), Parks(s, u, timeout, state, w)
    PROVE  Serves(s, u, timeout)
<1>1. s \in Kernels /\ u \in Kernels /\ Fit(s, {}, s.run) /\ Wakeups(s, {}) /\ Kept(s)
  BY DEF Sound, Fit
<1>2. SameObjects(s, u) /\ u.wait = w
  BY DEF Parks
<1>3. \A o \in Objects : u.wait[o] # <<>> => s.wait[o] # <<>> \/ InSeq(w[o], s.run)
  <2> SUFFICES ASSUME NEW o \in Objects, u.wait[o] # <<>>, ~ InSeq(w[o], s.run)
               PROVE  s.wait[o] # <<>>
    OBVIOUS
  <2>1. s.wait[o] \in Seq(Tasks) /\ u.wait[o] \in Seq(Tasks)
    BY <1>1, KernelTypes
  <2>2. PICK t : InSeq(u.wait[o], t)
    BY <2>1, EmptyList
  <2>3. t \in Tasks /\ t # s.run
    BY <1>2, <2>1, <2>2, EmptyList
  <2>4. InSeq(s.wait[o], t)
    BY <1>2, <2>2, <2>3 DEF Joins
  <2> QED BY <2>1, <2>4, EmptyList
<1>4. Wakeups(u, {})
  <2>1. \A o \in Sems : u.wait[o] # <<>> => u.tokens[o] = 0 /\ o \in u.live
    BY <1>1, <1>2, <1>3, ObjectNames DEF SameObjects, Wakeups, Wants
  <2>2. \A m \in Mutexes : u.wait[m] # <<>> => u.mut[m].level > 0 /\ m \in u.live
    BY <1>1, <1>2, <1>3, ObjectNames DEF SameObjects, Wakeups, Wants
  <2>3. u.wait[Queue] # <<>> =>
          \/ u.mbx.state = 1 /\ u.mbx.count = 0
          \/ u.mbx.state = 2 /\ u.mbx.count = MbxSize
    BY <1>1, <1>2, <1>3, ObjectNames DEF SameObjects, Wakeups, Wants
  <2>4. ASSUME NEW t \in u.active
        PROVE  /\ u.st[t] = "WAIT_AND" => ~(u.waits[t] \subseteq u.events[t])
               /\ u.st[t] = "WAIT_OR" => u.waits[t] \cap u.events[t] = {}
    <3>1. t \in TCBs /\ t \in s.active /\ u.waits = s.waits /\ u.events = s.events
      BY <1>1, <1>2, KernelTypes, TaskNames DEF SameObjects
    <3>2. CASE t = s.run
      <4>1. u.st[t] = state
        BY <3>2 DEF Parks
      <4> QED BY <3>1, <3>2, <4>1 DEF Wants
    <3>3. CASE t # s.run
      <4>1. u.st[t] = s.st[t] \/ u.st[t] \in {"READY", "RUNNING"}
        BY <3>1, <3>3 DEF Parks
      <4> QED BY <1>1, <3>1, <4>1 DEF Wakeups
    <3> QED BY <3>2, <3>3
  <2> QED BY <2>1, <2>2, <2>3, <2>4 DEF Wakeups
<1>5. Kept(u)
  <2>1. u.active = s.active /\ u.mut = s.mut /\ u.psq = s.psq
    BY <1>2 DEF SameObjects
  <2>2. ASSUME NEW m \in Mutexes, NEW t \in Tasks, InSeq(u.wait[m], t)
        PROVE  t \in Lasting
    <3>1. CASE t = s.run
      BY <1>2, <2>2, <3>1 DEF Wants
    <3>2. CASE t # s.run
      <4>1. InSeq(s.wait[m], t)
        BY <1>2, <2>2, <3>2, ObjectNames DEF Joins
      <4> QED BY <1>1, <4>1 DEF Kept
    <3> QED BY <3>1, <3>2
  <2> QED BY <1>1, <2>1, <2>2 DEF Kept
<1>6. Timed(s, u, timeout)
  <2>1. ~ Waiting(s, s.run) /\ \A n : ~ Due(s.dly, s.run, n)
    BY <1>1, RunningTimeless
  <2>2. ASSUME NEW t \in Tasks, t # s.run, Waiting(u, t) PROVE Waiting(s, t)
    <3>1. u.st[t] = s.st[t] \/ u.st[t] \in {"READY", "RUNNING"}
      BY <2>2, TaskNames DEF Parks
    <3>2. u.active = s.active
      BY <1>2 DEF SameObjects
    <3> QED BY <2>2, <3>1, <3>2, StateNames DEF Waiting
  <2>3. \A n : Due(u.dly, s.run, n) <=> n = timeout /\ timeout # Forever
    BY <2>1 DEF Parks
  <2>4. \A t, n : t # s.run => (Due(u.dly, t, n) <=> Due(s.dly, t, n))
    BY DEF Parks
  <2>5. Spaced(s.dly) => Spaced(u.dly)
    BY DEF Parks
  <2> QED BY <2>2, <2>3, <2>4, <2>5 DEF Timed
<1>7. s.mbx.count < MbxSize => ~ Sending(u)
  <2>1. s.mbx.count \in Int /\ MbxSize \in Int /\ u.mbx = s.mbx
    BY <1>1, <1>2, RtxAssumption DEF Kernels, Mailboxes, SameObjects
  <2> QED BY <1>4, <2>1 DEF Wakeups, Sending
<1>8. u.psq = s.psq
  BY <1>2 DEF SameObjects
<1> QED BY <1>4, <1>5, <1>6, <1>7, <1>8 DEF Serves, Sound

(***************************************************************************)
(* A thread that waits for an object is woken.                             *)
(***************************************************************************)

\* The first thread that waits for an object becomes ready or runs.
LEMMA UnchainEased ==
    ASSUME NEW s, NEW X, NEW r, Fit(s, X, r), NEW o \in Objects, s.wait[o] # <<>>,
           NEW a, a = Unchain(s, o), NEW t, t = rt_get_first(s, o),
           NEW u, Eased(a, u), u.st[t] \in {"READY", "RUNNING"}
    PROVE  Eased(s, u)
<1>1. /\ SameObjects(s, a) /\ a.st = s.st
      /\ \A x, n : Due(a.dly, x, n) <=> Due(s.dly, x, n) /\ x # t
      /\ Spaced(s.dly) => Spaced(a.dly)
      /\ a.wait = [s.wait EXCEPT ![o] = Tail(s.wait[o])]
  <2>1. Unchained(s, X, r, o, t, a)
    BY UnchainFit
  <2> QED BY <2>1 DEF Unchained, Leaves
<1>2. s.wait \in [Objects -> Seq(Tasks)] /\ s.wait[o] \in Seq(Tasks)
  BY KernelTypes DEF Fit
<1>3. \A z \in Objects, x \in Tasks : InSeq(a.wait[z], x) => InSeq(s.wait[z], x)
  <2>1. \A x : InSeq(Tail(s.wait[o]), x) => InSeq(s.wait[o], x)
    BY <1>2, HeadTail
  <2> QED BY <1>1, <1>2, <2>1
<1>4. SameObjects(s, u)
  BY <1>1 DEF Eased, SameObjects
<1>5. \A x \in TCBs : u.st[x] = s.st[x] \/ u.st[x] \in {"READY", "RUNNING"}
  BY <1>1 DEF Eased
<1>6. \A z \in Objects, x \in Tasks : InSeq(u.wait[z], x) => InSeq(s.wait[z], x)
  BY <1>3 DEF Eased
<1>7. \A x \in Tasks : \A n : Due(u.dly, x, n) => Due(s.dly, x, n)
  BY <1>1 DEF Eased
<1>8. \A x \in Tasks : \A n : Due(s.dly, x, n) => Due(u.dly, x, n) \/ u.st[x] \in {"READY", "RUNNING"}
  BY <1>1 DEF Eased
<1>9. Spaced(s.dly) => Spaced(u.dly)
  BY <1>1 DEF Eased
<1> QED BY <1>4, <1>5, <1>6, <1>7, <1>8, <1>9 DEF Eased

\* By a thread.
LEMMA WakeRun ==
    ASSUME NEW s, Fit(s, {}, s.run), Top(s), NEW o \in Objects, s.wait[o] # <<>>,
           NEW u, u = rt_dispatch(Unchain(s, o), rt_get_first(s, o))
    PROVE  Fit(u, {}, u.run) /\ Top(u) /\ Eased(s, u)
<1>1. PICK t : t = rt_get_first(s, o)
  OBVIOUS
<1>2. PICK a : a = Unchain(s, o)
  OBVIOUS
<1>3. /\ Fit(a, {} \cup {t}, s.run) /\ SameObjects(s, a) /\ a.run = s.run /\ a.rdy = s.rdy
      /\ ~ InDly(a.dly, t) /\ t \in s.active
  <2>1. Unchained(s, {}, s.run, o, t, a)
    BY <1>1, <1>2, UnchainFit
  <2> QED BY <2>1 DEF Unchained
<1>4. Fit(a, {t}, a.run) /\ t \in {t} /\ t \in Alive(a)
  <2>1. {} \cup {t} = {t}
    OBVIOUS
  <2> QED BY <1>3, <2>1 DEF SameObjects, Alive
<1>5. Top(a)
  BY <1>3 DEF Top, SameObjects
<1>6. u = rt_dispatch(a, t)
  BY <1>1, <1>2
<1>7. Fit(u, {t} \ {t}, u.run) /\ Top(u) /\ Eased(a, u) /\ u.st[t] \in {"READY", "RUNNING"}
  BY <1>3, <1>4, <1>5, <1>6, DispatchFit
<1>8. {t} \ {t} = {}
  OBVIOUS
<1>9. Eased(s, u)
  BY <1>1, <1>2, <1>7, UnchainEased
<1> QED BY <1>7, <1>8, <1>9

\* By an interrupt, when nobody runs.
LEMMA WakeReady ==
    ASSUME NEW s, Fit(s, {}, NoTask), NEW o \in Objects, s.wait[o] # <<>>,
           NEW u, u = MakeReady(Unchain(s, o), rt_get_first(s, o))
    PROVE  Fit(u, {}, NoTask) /\ Eased(s, u)
<1>1. PICK t : t = rt_get_first(s, o)
  OBVIOUS
<1>2. PICK a : a = Unchain(s, o)
  OBVIOUS
<1>3. /\ Fit(a, {} \cup {t}, NoTask) /\ SameObjects(s, a)
      /\ ~ InDly(a.dly, t) /\ t \in s.active
  <2>1. Unchained(s, {}, NoTask, o, t, a)
    BY <1>1, <1>2, UnchainFit
  <2> QED BY <2>1 DEF Unchained
<1>4. Fit(a, {t}, NoTask) /\ t \in {t} /\ t \in Alive(a)
  <2>1. {} \cup {t} = {t}
    OBVIOUS
  <2> QED BY <1>3, <2>1 DEF SameObjects, Alive
<1>6. u = MakeReady(a, t)
  BY <1>1, <1>2
<1>7. Fit(u, {t} \ {t}, NoTask) /\ Eased(a, u) /\ \A x : InSeq(u.rdy, x) <=> InSeq(a.rdy, x) \/ x = t
  BY <1>3, <1>4, <1>6, MakeReadyFit
<1>8. {t} \ {t} = {} /\ InSeq(u.rdy, t)
  BY <1>7
<1>9. u.st[t] = "READY"
  <2>1. t \in TCBs
    BY <1>3, KernelTypes, TaskNames DEF Fit
  <2> QED BY <1>7, <1>8, <2>1 DEF Fit, Chained
<1>10. Eased(s, u)
  BY <1>1, <1>2, <1>7, <1>9, UnchainEased
<1> QED BY <1>7, <1>8, <1>10

\* What the running thread of s may wait for.
Awaited(s, o) ==
    /\ o \in Sems => s.tokens[o] = 0 /\ o \in s.live
    /\ o \in Mutexes => s.mut[o].level > 0 /\ o \in s.live /\ s.run \in Lasting
    /\ o = Queue =>
        \/ s.mbx.state = 1 /\ s.mbx.count = 0
        \/ s.mbx.state = 2 /\ s.mbx.count = MbxSize

\* The caller waits for an object that has nothing for it.
LEMMA BlockOnServes ==
    ASSUME NEW s, Sound(s), s.run \in Tasks, NEW state \in InQueue,
           NEW o \in Objects, o \in ListsOf(state), NEW timeout \in Nat, timeout # 0,
           Awaited(s, o), NEW u, u = BlockOn(s, o, timeout, state)
    PROVE  Serves(s, u, timeout)
<1>1. Fit(s, {}, s.run)
  BY DEF Sound
<1>2. Fit(u, {}, u.run) /\ Top(u)
  BY <1>1, BlockOnFit
<1>3. PICK w : JoinsAt(s, w, o, state) /\ Parks(s, u, timeout, state, w)
  BY <1>1, BlockOnFit
<1>4. Joins(s, w, state)
  BY <1>3 DEF JoinsAt
<1>5. \A z \in Objects : InSeq(w[z], s.run) => z = o
  BY <1>3 DEF JoinsAt
<1>6. state # "WAIT_AND" /\ state # "WAIT_OR"
  BY DEF InQueue
<1>7. Wants(s, w, state)
  BY <1>5, <1>6, ObjectNames DEF Awaited, Wants
<1> QED BY <1>2, <1>3, <1>4, <1>7, ParksServes

(***************************************************************************)
(* Semaphores.                                                             *)
(***************************************************************************)

\* Kernel u is s with other objects, and nobody waits for what is there.
Changes(s, u) ==
    /\ u \in Kernels /\ SameLists(s, u) /\ u.psq = s.psq
    /\ Kept(s) => Kept(u)
    /\ Wakeups(s, {}) => Wakeups(u, {}) /\ (s.mbx.count < MbxSize => ~ Sending(u))

\* A call that changes objects and no list.
LEMMA ChangesServes ==
    ASSUME NEW s, NEW u, Sound(s), s.run \in Tasks, Changes(s, u), NEW timeout
    PROVE  Serves(s, u, timeout)
<1>1. /\ u \in Kernels /\ SameLists(s, u) /\ u.psq = s.psq /\ Kept(u) /\ Wakeups(u, {})
      /\ s.mbx.count < MbxSize => ~ Sending(u)
  BY DEF Changes, Sound
<1> QED BY <1>1, ObjectsServes

\* Nobody sends while there is room.
LEMMA RoomNotSending ==
    ASSUME NEW s \in Kernels, Wakeups(s, {}), s.mbx.count < MbxSize
    PROVE  ~ Sending(s)
<1>1. s.mbx.count \in Int /\ MbxSize \in Int
  BY RtxAssumption DEF Kernels, Mailboxes
<1> QED BY <1>1 DEF Wakeups, Sending

\* A call that does nothing.
LEMMA SameServes ==
    ASSUME NEW s, Sound(s), s.run \in Tasks, NEW timeout
    PROVE  Serves(s, s, timeout)
<1>1. s \in Kernels /\ Kept(s) /\ Wakeups(s, {})
  BY DEF Sound, Fit
<1>2. SameLists(s, s)
  BY DEF SameLists
<1>3. s.mbx.count < MbxSize => ~ Sending(s)
  BY <1>1, RoomNotSending
<1> QED BY <1>1, <1>2, <1>3, ObjectsServes

\* The tokens change while nobody waits for one.
LEMMA TokensChange ==
    ASSUME NEW s \in Kernels, NEW o \in Sems, s.wait[o] = <<>>, NEW v \in 0 .. TokenMax,
           NEW u, u = [s EXCEPT !.tokens[o] = v]
    PROVE  Changes(s, u)
<1>1. /\ u \in Kernels /\ SameLists(s, u) /\ u.psq = s.psq /\ u.live = s.live /\ u.mut = s.mut
      /\ u.mbx = s.mbx /\ u.events = s.events /\ u.waits = s.waits
      /\ u.tokens = [s.tokens EXCEPT ![o] = v] /\ DOMAIN s.tokens = Sems
  BY DEF Kernels, SameLists
<1>2. \A x \in Sems : x # o => u.tokens[x] = s.tokens[x]
  BY <1>1
<1>3. Kept(s) => Kept(u)
  BY <1>1 DEF Kept, SameLists
<1>4. Wakeups(s, {}) => Wakeups(u, {})
  <2> SUFFICES ASSUME Wakeups(s, {}) PROVE Wakeups(u, {})
    OBVIOUS
  <2>1. \A x \in Sems : u.wait[x] # <<>> => u.tokens[x] = 0 /\ x \in u.live
    BY <1>1, <1>2 DEF Wakeups, SameLists
  <2> QED BY <1>1, <2>1 DEF Wakeups, SameLists
<1>5. Wakeups(u, {}) => (s.mbx.count < MbxSize => ~ Sending(u))
  BY <1>1, RoomNotSending
<1> QED BY <1>1, <1>3, <1>4, <1>5 DEF Changes

\* The types of the semaphores.
LEMMA TokenTypes ==
    ASSUME NEW s \in Kernels, NEW o \in Sems
    PROVE  s.tokens[o] \in Nat /\ s.tokens[o] <= TokenMax /\ TokenMax \in Nat
  BY RtxAssumption DEF Kernels

\* A token is stored that nobody waits for.
LEMMA StoreTokenChange ==
    ASSUME NEW s \in Kernels, NEW o \in Sems, s.wait[o] = <<>>, NEW u, u = StoreToken(s, o)
    PROVE  Changes(s, u)
<1>1. s.tokens[o] \in Nat /\ TokenMax \in Nat
  BY TokenTypes
<1>2. PICK v : v = (s.tokens[o] + 1) % (TokenMax + 1)
  OBVIOUS
<1>3. v \in 0 .. TokenMax
  BY <1>1, <1>2
<1>4. u = [s EXCEPT !.tokens[o] = v]
  BY <1>2 DEF StoreToken
<1> QED BY <1>3, <1>4, TokensChange

\* rt_sem_send.
LEMMA SemSendServes ==
    ASSUME NEW s, Sound(s), s.run \in Tasks, NEW o \in Sems, NEW timeout
    PROVE  Serves(s, rt_sem_send(s, o), timeout)
<1>1. PICK u : u = rt_sem_send(s, o)
  OBVIOUS
<1>2. s \in Kernels /\ Fit(s, {}, s.run) /\ Top(s) /\ o \in Objects
  BY ObjectNames DEF Sound, Fit
<1>3. CASE s.wait[o] # <<>>
  <2>1. u = rt_dispatch(Unchain(s, o), rt_get_first(s, o))
    BY <1>1, <1>3 DEF rt_sem_send
  <2>2. Fit(u, {}, u.run) /\ Top(u) /\ Eased(s, u)
    BY <1>2, <1>3, <2>1, WakeRun
  <2> QED BY <1>1, <2>2, EasedServes
<1>4. CASE s.wait[o] = <<>>
  <2>1. u = StoreToken(s, o)
    BY <1>1, <1>4 DEF rt_sem_send
  <2>2. Changes(s, u)
    BY <1>2, <1>4, <2>1, StoreTokenChange
  <2> QED BY <1>1, <2>2, ChangesServes
<1> QED BY <1>3, <1>4

\* rt_sem_wait.
LEMMA SemWaitServes ==
    ASSUME NEW s, Sound(s), s.run \in Tasks, NEW o \in Sems, o \in s.live, NEW timeout \in Nat
    PROVE  Serves(s, rt_sem_wait(s, o, timeout), timeout)
<1>1. PICK u : u = rt_sem_wait(s, o, timeout)
  OBVIOUS
<1>2. s \in Kernels /\ Fit(s, {}, s.run) /\ Top(s) /\ Wakeups(s, {}) /\ o \in Objects
  BY ObjectNames DEF Sound, Fit
<1>3. s.tokens[o] \in Nat /\ s.tokens[o] <= TokenMax /\ TokenMax \in Nat
  BY <1>2, TokenTypes
<1>4. CASE s.tokens[o] > 0
  <2>1. s.wait[o] = <<>>
    BY <1>2, <1>3, <1>4 DEF Wakeups
  <2>2. PICK v : v = s.tokens[o] - 1
    OBVIOUS
  <2>3. v \in 0 .. TokenMax
    BY <1>3, <1>4, <2>2
  <2>4. u = [s EXCEPT !.tokens[o] = v]
    BY <1>1, <1>3, <1>4, <2>2 DEF rt_sem_wait
  <2>5. Changes(s, u)
    BY <1>2, <2>1, <2>3, <2>4, TokensChange
  <2> QED BY <1>1, <2>5, ChangesServes
<1>5. CASE s.tokens[o] = 0 /\ timeout = 0
  <2>1. u = s
    BY <1>1, <1>5 DEF rt_sem_wait
  <2> QED BY <1>1, <2>1, SameServes
<1>6. CASE s.tokens[o] = 0 /\ timeout # 0
  <2>1. u = BlockOn(s, o, timeout, "WAIT_SEM")
    BY <1>1, <1>6 DEF rt_sem_wait
  <2>2. "WAIT_SEM" \in InQueue /\ o \in ListsOf("WAIT_SEM")
    BY DEF InQueue, ListsOf
  <2>3. Awaited(s, o)
    BY <1>6, ObjectNames DEF Awaited
  <2> QED BY <1>1, <1>2, <1>6, <2>1, <2>2, <2>3, BlockOnServes
<1> QED BY <1>3, <1>4, <1>5, <1>6

\* rt_sem_init.
LEMMA SemInitServes ==
    ASSUME NEW s, Sound(s), s.run \in Tasks, NEW o \in Sems, o \notin s.live, NEW timeout
    PROVE  Serves(s, rt_sem_init(s, o), timeout)
<1>1. PICK u : u = rt_sem_init(s, o)
  OBVIOUS
<1>2. s \in Kernels /\ Wakeups(s, {}) /\ o \in Objects /\ 0 \in 0 .. TokenMax
  BY ObjectNames, RtxAssumption DEF Sound, Fit
<1>3. s.wait[o] = <<>>
  BY <1>2 DEF Wakeups
<1>4. PICK a : a = [s EXCEPT !.tokens[o] = 0]
  OBVIOUS
<1>5. Changes(s, a)
  BY <1>2, <1>3, <1>4, TokensChange
<1>6. a \in Kernels /\ SameLists(s, a) /\ a.psq = s.psq
  BY <1>5 DEF Changes
<1>7. /\ u \in Kernels /\ SameLists(s, u) /\ u.psq = s.psq /\ a.live \subseteq u.live
      /\ u.tokens = a.tokens /\ u.mut = s.mut /\ u.mbx = s.mbx /\ u.events = s.events
      /\ u.waits = s.waits /\ u.wait = s.wait
      /\ a.mut = s.mut /\ a.mbx = s.mbx /\ a.events = s.events /\ a.waits = s.waits
  BY <1>1, <1>2, <1>4 DEF rt_sem_init, SameLists, Kernels
<1>8. Wakeups(a, {})
  BY <1>2, <1>5 DEF Changes
<1>9. Wakeups(u, {})
  BY <1>6, <1>7, <1>8 DEF Wakeups, SameLists
<1>10. Kept(u)
  BY <1>7 DEF Sound, Kept, SameLists
<1>11. s.mbx.count < MbxSize => ~ Sending(u)
  BY <1>7, <1>9, RoomNotSending
<1> QED BY <1>1, <1>7, <1>9, <1>10, <1>11, ObjectsServes

(***************************************************************************)
(* The message queue.                                                      *)
(***************************************************************************)

\* The queue changes, and what a thread has to say.
LEMMA MbxServes ==
    ASSUME NEW s, Sound(s), s.run \in Tasks, NEW m \in Mailboxes,
           NEW g \in [TCBs -> Messages \cup {NoTask}],
           NEW u, u = [s EXCEPT !.msg = g, !.mbx = m],
           s.wait[Queue] # <<>> => m.state = s.mbx.state /\ m.count = s.mbx.count, NEW timeout
    PROVE  Serves(s, u, timeout)
<1>1. s \in Kernels /\ Wakeups(s, {}) /\ Kept(s)
  BY DEF Sound, Fit
<1>2. /\ u \in Kernels /\ SameLists(s, u) /\ u.psq = s.psq /\ u.live = s.live /\ u.mut = s.mut
      /\ u.mbx = m /\ u.events = s.events /\ u.waits = s.waits /\ u.tokens = s.tokens
  BY <1>1 DEF Kernels, SameLists
<1>3. Wakeups(u, {})
  BY <1>1, <1>2 DEF Wakeups, SameLists
<1>4. Kept(u)
  BY <1>1, <1>2 DEF Kept, SameLists
<1>5. s.mbx.count < MbxSize => ~ Sending(u)
  <2>1. s.mbx.count < MbxSize => ~ Sending(s)
    BY <1>1, RoomNotSending
  <2> QED BY <1>2, <2>1 DEF Sending, SameLists
<1> QED BY <1>2, <1>3, <1>4, <1>5, ObjectsServes

\* The types of the mailbox.
LEMMA MbxTypes ==
    ASSUME NEW s \in Kernels
    PROVE  /\ s.mbx \in Mailboxes /\ s.mbx.count \in 0 .. MbxSize /\ MbxSize \in Nat /\ MbxSize > 0
           /\ s.msg \in [TCBs -> Messages \cup {NoTask}]
           /\ s.mbx.first \in 0 .. MbxSize - 1 /\ s.mbx.last \in 0 .. MbxSize - 1
           /\ s.mbx.state \in 0 .. 2
           /\ s.mbx.msg \in [0 .. MbxSize - 1 -> Messages \cup {NoTask}]
<1>1. s.mbx \in Mailboxes /\ s.msg \in [TCBs -> Messages \cup {NoTask}]
  BY DEF Kernels
<1>2. MbxSize \in Nat /\ MbxSize > 0
  BY RtxAssumption
<1>3. /\ s.mbx.count \in 0 .. MbxSize /\ s.mbx.first \in 0 .. MbxSize - 1
      /\ s.mbx.last \in 0 .. MbxSize - 1 /\ s.mbx.state \in 0 .. 2
      /\ s.mbx.msg \in [0 .. MbxSize - 1 -> Messages \cup {NoTask}]
  BY <1>1 DEF Mailboxes
<1> QED BY <1>1, <1>2, <1>3

\* The indices of the mailbox stay inside it.
LEMMA AdvanceType ==
    ASSUME NEW i \in 0 .. MbxSize - 1
    PROVE  Advance(i) \in 0 .. MbxSize - 1
<1>1. MbxSize \in Nat
  BY RtxAssumption
<1> QED BY <1>1 DEF Advance

\* A message more.
LEMMA StoreIs ==
    ASSUME NEW s \in Kernels, NEW x \in Messages \cup {NoTask}, s.mbx.count < MbxSize
    PROVE  \E m \in Mailboxes :
              /\ Store(s, x) = [s EXCEPT !.msg = s.msg, !.mbx = m]
              /\ m.state = s.mbx.state /\ m.count = s.mbx.count + 1
<1>0. PICK p : p = s.mbx
  OBVIOUS
<1>1. PICK m : m = [p EXCEPT !.msg[p.first] = x, !.first = Advance(p.first), !.count = p.count + 1]
  OBVIOUS
<1>2. /\ Advance(p.first) \in 0 .. MbxSize - 1 /\ p.count + 1 \in 0 .. MbxSize
      /\ p \in Mailboxes
  BY <1>0, MbxTypes, AdvanceType
<1>3. m \in Mailboxes /\ m.state = p.state /\ m.count = p.count + 1
  BY <1>1, <1>2 DEF Mailboxes
<1>4. Store(s, x) = [s EXCEPT !.mbx = m]
  BY <1>0, <1>1, <1>2 DEF Store, Kernels, Mailboxes
<1>5. [s EXCEPT !.mbx = m] = [s EXCEPT !.msg = s.msg, !.mbx = m]
  BY DEF Kernels
<1> QED BY <1>0, <1>3, <1>4, <1>5

\* A message less.
LEMMA TakenIs ==
    ASSUME NEW s \in Kernels, s.mbx.count > 0
    PROVE  \E m \in Mailboxes :
              /\ [s EXCEPT !.mbx.last = Advance(@), !.mbx.count = @ - 1]
                     = [s EXCEPT !.msg = s.msg, !.mbx = m]
              /\ m.state = s.mbx.state /\ m.count = s.mbx.count - 1
<1>0. PICK p : p = s.mbx
  OBVIOUS
<1>1. PICK m : m = [p EXCEPT !.last = Advance(p.last), !.count = p.count - 1]
  OBVIOUS
<1>2. /\ Advance(p.last) \in 0 .. MbxSize - 1 /\ p.count - 1 \in 0 .. MbxSize
      /\ p \in Mailboxes
  BY <1>0, MbxTypes, AdvanceType
<1>3. m \in Mailboxes /\ m.state = p.state /\ m.count = p.count - 1
  BY <1>1, <1>2 DEF Mailboxes
<1>4. [s EXCEPT !.mbx.last = Advance(@), !.mbx.count = @ - 1] = [s EXCEPT !.mbx = m]
  BY <1>0, <1>1, <1>2 DEF Kernels, Mailboxes
<1>5. [s EXCEPT !.mbx = m] = [s EXCEPT !.msg = s.msg, !.mbx = m]
  BY DEF Kernels
<1> QED BY <1>0, <1>3, <1>4, <1>5

\* The running thread waits, to receive (v = 1) or to send (v = 2).
LEMMA MbxBlockServes ==
    ASSUME NEW s, Sound(s), s.run \in Tasks, NEW v \in {1, 2},
           IF v = 1 THEN s.mbx.count = 0 ELSE s.mbx.count = MbxSize,
           s.wait[Queue] # <<>> => s.mbx.state = v,
           NEW timeout \in Nat, timeout # 0, NEW u, u = MbxBlock(s, v, timeout)
    PROVE  Serves(s, u, timeout)
<1>1. s \in Kernels
  BY DEF Sound, Fit
<1>2. PICK m : m = [s.mbx EXCEPT !.state = v]
  OBVIOUS
<1>3. PICK a : a = [s EXCEPT !.msg = s.msg, !.mbx = m]
  OBVIOUS
<1>4. m \in Mailboxes /\ m.state = v /\ m.count = s.mbx.count
  <2>1. s.mbx \in Mailboxes
    BY <1>1, MbxTypes
  <2> QED BY <1>2, <2>1 DEF Mailboxes
<1>5. s.msg \in [TCBs -> Messages \cup {NoTask}]
  BY <1>1, MbxTypes
<1>6. Serves(s, a, timeout)
  BY <1>3, <1>4, <1>5, MbxServes
<1>7. /\ SameLists(s, a) /\ a.mbx = m /\ a.psq = s.psq
  BY <1>1, <1>3 DEF Kernels, SameLists
<1>8. a = [s EXCEPT !.mbx.state = IF s.wait[Queue] = <<>> THEN v ELSE @]
  <2>1. a = [s EXCEPT !.mbx = m]
    BY <1>1, <1>3 DEF Kernels
  <2>2. [s EXCEPT !.mbx = m] = [s EXCEPT !.mbx.state = v]
    BY <1>1, <1>2 DEF Kernels
  <2>3. (IF s.wait[Queue] = <<>> THEN v ELSE s.mbx.state) = v
    OBVIOUS
  <2> QED BY <2>1, <2>2, <2>3
<1>9. u = BlockOn(a, Queue, timeout, "WAIT_MBX")
  BY <1>8 DEF MbxBlock
<1>10. "WAIT_MBX" \in InQueue /\ Queue \in ListsOf("WAIT_MBX") /\ Queue \in Objects
  BY ObjectNames DEF InQueue, ListsOf
<1>11. Sound(a) /\ a.run \in Tasks
  BY <1>6, <1>7 DEF Serves, SameLists
<1>12. Awaited(a, Queue)
  BY <1>4, <1>7, ObjectNames DEF Awaited
<1>13. Serves(a, u, timeout)
  BY <1>9, <1>10, <1>11, <1>12, BlockOnServes
<1>14. s.mbx.count < MbxSize => a.mbx.count < MbxSize
  BY <1>4, <1>7
<1> QED BY <1>7, <1>13, <1>14, ServesAfter

\* rt_mbx_send.
LEMMA MbxSendServes ==
    ASSUME NEW s, Sound(s), s.run \in Tasks, NEW x \in Messages, NEW timeout \in Nat
    PROVE  Serves(s, rt_mbx_send(s, x, timeout), timeout)
<1>1. PICK u : u = rt_mbx_send(s, x, timeout)
  OBVIOUS
<1>2. s \in Kernels /\ Wakeups(s, {}) /\ Fit(s, {}, s.run) /\ Top(s) /\ Queue \in Objects
  BY ObjectNames DEF Sound, Fit
<1>3. s.mbx.count \in Nat /\ s.mbx.count <= MbxSize /\ MbxSize \in Nat
      /\ s.msg \in [TCBs -> Messages \cup {NoTask}] /\ s.mbx \in Mailboxes
  BY <1>2, MbxTypes
<1>4. s.wait[Queue] # <<>> /\ s.mbx.state # 1 => s.mbx.state = 2 /\ s.mbx.count = MbxSize
  BY <1>2 DEF Wakeups
<1>5. CASE s.wait[Queue] # <<>> /\ s.mbx.state = 1
  <2>1. u = rt_dispatch(Unchain(s, Queue), rt_get_first(s, Queue))
    BY <1>1, <1>5 DEF rt_mbx_send
  <2>2. Fit(u, {}, u.run) /\ Top(u) /\ Eased(s, u)
    BY <1>2, <1>5, <2>1, WakeRun
  <2> QED BY <1>1, <2>2, EasedServes
<1>6. CASE ~(s.wait[Queue] # <<>> /\ s.mbx.state = 1) /\ s.mbx.count < MbxSize
  <2>1. u = Store(s, x)
    BY <1>1, <1>3, <1>6 DEF rt_mbx_send
  <2>2. PICK m \in Mailboxes : Store(s, x) = [s EXCEPT !.msg = s.msg, !.mbx = m]
    <3>1. x \in Messages \cup {NoTask}
      OBVIOUS
    <3> QED BY <1>2, <1>6, <3>1, StoreIs
  <2>3. s.wait[Queue] = <<>>
    BY <1>3, <1>4, <1>6
  <2>4. u = [s EXCEPT !.msg = s.msg, !.mbx = m]
    BY <2>1, <2>2
  <2> QED BY <1>1, <1>3, <2>3, <2>4, MbxServes
<1>7. CASE ~(s.wait[Queue] # <<>> /\ s.mbx.state = 1) /\ s.mbx.count = MbxSize /\ timeout = 0
  <2>1. u = s
    BY <1>1, <1>3, <1>7 DEF rt_mbx_send
  <2> QED BY <1>1, <2>1, SameServes
<1>8. CASE ~(s.wait[Queue] # <<>> /\ s.mbx.state = 1) /\ s.mbx.count = MbxSize /\ timeout # 0
  <2>1. PICK a : a = [s EXCEPT !.msg[s.run] = x]
    OBVIOUS
  <2>2. u = MbxBlock(a, 2, timeout)
    BY <1>1, <1>3, <1>8, <2>1 DEF rt_mbx_send
  <2>3. PICK g : g = [s.msg EXCEPT ![s.run] = x]
    OBVIOUS
  <2>4. a = [s EXCEPT !.msg = g, !.mbx = s.mbx] /\ g \in [TCBs -> Messages \cup {NoTask}]
    BY <1>2, <1>3, <2>1, <2>3 DEF Kernels
  <2>5. Serves(s, a, timeout)
    BY <1>3, <2>4, MbxServes
  <2>6. SameLists(s, a) /\ a.mbx = s.mbx /\ a.psq = s.psq
    BY <1>2, <2>1 DEF Kernels, SameLists
  <2>7. Sound(a) /\ a.run \in Tasks
    BY <2>5, <2>6 DEF Serves, SameLists
  <2>8. a.mbx.count = MbxSize /\ (a.wait[Queue] # <<>> => a.mbx.state = 2)
    BY <1>4, <1>8, <2>6 DEF SameLists
  <2>9. Serves(a, u, timeout)
    BY <1>8, <2>2, <2>7, <2>8, MbxBlockServes
  <2>10. s.mbx.count < MbxSize => a.mbx.count < MbxSize
    BY <2>6
  <2> QED BY <1>1, <2>6, <2>9, <2>10, ServesAfter
<1> QED BY <1>3, <1>5, <1>6, <1>7, <1>8

\* rt_mbx_wait.
LEMMA MbxWaitServes ==
    ASSUME NEW s, Sound(s), s.run \in Tasks, NEW timeout \in Nat
    PROVE  Serves(s, rt_mbx_wait(s, timeout), timeout)
<1>1. PICK u : u = rt_mbx_wait(s, timeout)
  OBVIOUS
<1>2. s \in Kernels /\ Wakeups(s, {}) /\ Fit(s, {}, s.run) /\ Top(s) /\ Queue \in Objects
  BY ObjectNames DEF Sound, Fit
<1>3. s.mbx.count \in Nat /\ s.mbx.count <= MbxSize /\ MbxSize \in Nat /\ MbxSize > 0
      /\ s.msg \in [TCBs -> Messages \cup {NoTask}] /\ s.mbx \in Mailboxes
  BY <1>2, MbxTypes
<1>4. /\ s.wait[Queue] # <<>> /\ s.mbx.count > 0 => s.mbx.state = 2 /\ s.mbx.count = MbxSize
      /\ s.wait[Queue] # <<>> /\ s.mbx.count = 0 => s.mbx.state = 1
  BY <1>2, <1>3 DEF Wakeups
<1>5. PICK taken : taken = [s EXCEPT !.mbx.last = Advance(@), !.mbx.count = @ - 1]
  OBVIOUS
<1>6. CASE s.mbx.count > 0 /\ s.wait[Queue] # <<>> /\ s.mbx.state = 2
  <2>1. PICK t : t = rt_get_first(s, Queue)
    OBVIOUS
  <2>2. PICK a : a = Store(taken, s.msg[t])
    OBVIOUS
  <2>3. u = rt_dispatch(Unchain(a, Queue), t)
    BY <1>1, <1>5, <1>6, <2>1, <2>2 DEF rt_mbx_wait
  <2>4. PICK m \in Mailboxes :
            /\ taken = [s EXCEPT !.msg = s.msg, !.mbx = m]
            /\ m.state = s.mbx.state /\ m.count = s.mbx.count - 1
    BY <1>2, <1>5, <1>6, TakenIs
  <2>5. /\ taken \in Kernels /\ SameLists(s, taken) /\ taken.mbx = m /\ taken.msg = s.msg
    BY <1>2, <2>4 DEF Kernels, SameLists
  <2>6. s.msg[t] \in Messages \cup {NoTask}
    <3>1. s.wait[Queue] \in Seq(Tasks)
      BY <1>2, KernelTypes
    <3>2. t \in Tasks
      BY <1>6, <2>1, <3>1, HeadTail DEF rt_get_first
    <3> QED BY <1>3, <3>2, TaskNames
  <2>7. PICK n \in Mailboxes :
            /\ a = [taken EXCEPT !.msg = taken.msg, !.mbx = n]
            /\ n.state = m.state /\ n.count = m.count + 1
    <3>1. taken.mbx.count < MbxSize
      BY <1>3, <2>4, <2>5
    <3> QED BY <2>2, <2>5, <2>6, <3>1, StoreIs
  <2>8. a = [s EXCEPT !.msg = s.msg, !.mbx = n]
    BY <1>2, <2>4, <2>5, <2>7 DEF Kernels
  <2>9. n.state = s.mbx.state /\ n.count = s.mbx.count
    BY <1>3, <2>4, <2>7
  <2>10. Serves(s, a, timeout)
    BY <1>3, <2>8, <2>9, MbxServes
  <2>11. SameLists(s, a) /\ a.mbx = n /\ a.psq = s.psq
    BY <1>2, <2>8 DEF Kernels, SameLists
  <2>12. Sound(a) /\ a.run \in Tasks /\ a.wait = s.wait
    BY <2>10, <2>11 DEF Serves, SameLists
  <2>13. u = rt_dispatch(Unchain(a, Queue), rt_get_first(a, Queue))
    BY <2>1, <2>3, <2>12 DEF rt_get_first
  <2>14. Fit(u, {}, u.run) /\ Top(u) /\ Eased(a, u)
    BY <1>2, <1>6, <2>12, <2>13, WakeRun DEF Sound
  <2>15. Serves(a, u, timeout)
    BY <2>12, <2>14, EasedServes
  <2>16. s.mbx.count < MbxSize => a.mbx.count < MbxSize
    BY <2>9, <2>11
  <2> QED BY <1>1, <2>11, <2>15, <2>16, ServesAfter
<1>7. CASE s.mbx.count > 0 /\ ~(s.wait[Queue] # <<>> /\ s.mbx.state = 2)
  <2>1. u = taken
    BY <1>1, <1>5, <1>7 DEF rt_mbx_wait
  <2>2. s.wait[Queue] = <<>>
    BY <1>4, <1>7
  <2>3. PICK m \in Mailboxes : taken = [s EXCEPT !.msg = s.msg, !.mbx = m]
    BY <1>2, <1>5, <1>7, TakenIs
  <2>4. u = [s EXCEPT !.msg = s.msg, !.mbx = m]
    BY <2>1, <2>3
  <2> QED BY <1>1, <1>3, <2>2, <2>4, MbxServes
<1>8. CASE s.mbx.count = 0 /\ timeout = 0
  <2>1. u = s
    BY <1>1, <1>3, <1>8 DEF rt_mbx_wait
  <2> QED BY <1>1, <2>1, SameServes
<1>9. CASE s.mbx.count = 0 /\ timeout # 0
  <2>1. u = MbxBlock(s, 1, timeout)
    BY <1>1, <1>3, <1>9 DEF rt_mbx_wait
  <2> QED BY <1>1, <1>4, <1>9, <2>1, MbxBlockServes
<1> QED BY <1>3, <1>6, <1>7, <1>8, <1>9

(***************************************************************************)
(* Signal flags.                                                           *)
(***************************************************************************)

\* Kernel u is s with other flags: e are set and w waited for.
Flagged(s, u, e, w) ==
    /\ u \in Kernels /\ SameLists(s, u) /\ u.psq = s.psq /\ u.live = s.live /\ u.mut = s.mut
    /\ u.mbx = s.mbx /\ u.tokens = s.tokens /\ u.events = e /\ u.waits = w

\* The flags are written.
LEMMA SetFlagged ==
    ASSUME NEW s \in Kernels, NEW e \in [TCBs -> SUBSET Flags], NEW w \in [TCBs -> SUBSET Flags]
    PROVE  Flagged(s, [s EXCEPT !.events = e, !.waits = w], e, w)
  BY DEF Kernels, SameLists, Flagged

\* The types of the flags.
LEMMA FlagTypes ==
    ASSUME NEW s \in Kernels
    PROVE  s.events \in [TCBs -> SUBSET Flags] /\ s.waits \in [TCBs -> SUBSET Flags]
  BY DEF Kernels

\* One thread's flags.
LEMMA FlagsOf ==
    ASSUME NEW s \in Kernels, NEW t \in TCBs, NEW e \in SUBSET Flags, NEW w \in SUBSET Flags,
           NEW u, u = [s EXCEPT !.events[t] = e, !.waits[t] = w]
    PROVE  Flagged(s, u, [s.events EXCEPT ![t] = e], [s.waits EXCEPT ![t] = w])
<1>1. PICK f, g : f = [s.events EXCEPT ![t] = e] /\ g = [s.waits EXCEPT ![t] = w]
  OBVIOUS
<1>2. f \in [TCBs -> SUBSET Flags] /\ g \in [TCBs -> SUBSET Flags]
  BY <1>1, FlagTypes
<1>3. u = [s EXCEPT !.events = f, !.waits = g]
  BY <1>1 DEF Kernels
<1>4. Flagged(s, [s EXCEPT !.events = f, !.waits = g], f, g)
  BY <1>2, SetFlagged
<1>5. Flagged(s, u, f, g)
  BY <1>3, <1>4, Zenon
<1> QED BY <1>1, <1>5

\* Flags e do not satisfy a wait for w.
Unmet(st, w, e) ==
    (st = "WAIT_AND" => ~(w \subseteq e)) /\ (st = "WAIT_OR" => w \cap e = {})

\* Only thread t may have what it waits for.
LEMMA FlaggedWakeups ==
    ASSUME NEW s \in Kernels, Wakeups(s, {}), NEW t \in TCBs, NEW e, NEW w, NEW u,
           Flagged(s, u, [s.events EXCEPT ![t] = e], [s.waits EXCEPT ![t] = w])
    PROVE  /\ Wakeups(u, {t})
           /\ Unmet(s.st[t], w, e) => Wakeups(u, {})
           /\ u.events[t] = e /\ u.waits[t] = w
<1>1. s.events \in [TCBs -> SUBSET Flags] /\ s.waits \in [TCBs -> SUBSET Flags]
  BY FlagTypes
<1>2. s.active \in SUBSET Tasks /\ Tasks \subseteq TCBs
  BY KernelTypes, TaskNames
<1>3. /\ u.events[t] = e /\ u.waits[t] = w
      /\ \A x \in TCBs : x # t => u.events[x] = s.events[x] /\ u.waits[x] = s.waits[x]
  BY <1>1 DEF Flagged
<1>4. \A x \in u.active : x \in s.active /\ x \in TCBs /\ u.st[x] = s.st[x]
  BY <1>2 DEF Flagged, SameLists
<1>5. \A x \in u.active : x # t =>
          /\ u.st[x] = "WAIT_AND" => ~(u.waits[x] \subseteq u.events[x])
          /\ u.st[x] = "WAIT_OR" => u.waits[x] \cap u.events[x] = {}
  BY <1>3, <1>4 DEF Wakeups
<1>6. /\ \A o \in Sems : u.wait[o] # <<>> => u.tokens[o] = 0 /\ o \in u.live
      /\ \A m \in Mutexes : u.wait[m] # <<>> => u.mut[m].level > 0 /\ m \in u.live
      /\ u.wait[Queue] # <<>> =>
          \/ u.mbx.state = 1 /\ u.mbx.count = 0
          \/ u.mbx.state = 2 /\ u.mbx.count = MbxSize
  BY DEF Flagged, SameLists, Wakeups
<1>7. Wakeups(u, {t})
  BY <1>5, <1>6 DEF Wakeups
<1>8. ASSUME Unmet(s.st[t], w, e) PROVE Wakeups(u, {})
  BY <1>3, <1>4, <1>5, <1>6, <1>8 DEF Wakeups, Unmet
<1> QED BY <1>3, <1>7, <1>8

\* Flags have nothing to do with mutexes,
LEMMA FlaggedKept ==
    ASSUME NEW s, NEW u, NEW e, NEW w, Kept(s), Flagged(s, u, e, w)
    PROVE  Kept(u)
  BY DEF Kept, Flagged, SameLists

\* and a call that writes them is right when nobody waits for what is set.
LEMMA FlaggedServes ==
    ASSUME NEW s, Sound(s), s.run \in Tasks, NEW e, NEW w, NEW u, Flagged(s, u, e, w),
           Wakeups(u, {}), NEW timeout
    PROVE  Serves(s, u, timeout)
<1>1. Kept(s)
  BY DEF Sound
<1>2. Wakeups(u, {})
  OBVIOUS
<1>3. Kept(u)
  BY <1>1, FlaggedKept
<1>4. u \in Kernels /\ SameLists(s, u) /\ u.psq = s.psq /\ u.mbx = s.mbx
  BY DEF Flagged
<1>5. s.mbx.count < MbxSize => ~ Sending(u)
  BY <1>2, <1>4, RoomNotSending
<1> QED BY <1>2, <1>3, <1>4, <1>5, ObjectsServes

\* A thread that waits for time or flags leaves the delay list.
LEMMA LooseWake ==
    ASSUME NEW s, NEW r, Fit(s, {}, r), NEW t \in s.active, s.st[t] \in Waits \ InQueue,
           NEW a, a = rt_rmv_dly(s, t)
    PROVE  /\ Fit(a, {t}, r) /\ SameObjects(s, a) /\ a.run = s.run /\ a.rdy = s.rdy
           /\ ~ InDly(a.dly, t) /\ t \in Alive(a) /\ t \in {t}
           /\ \A u : Eased(a, u) /\ u.st[t] \in {"READY", "RUNNING"} => Eased(s, u)
<1>1. Fit(s, {} \cup {t}, r)
  BY LooseFit
<1>2. {} \cup {t} = {t}
  OBVIOUS
<1>3. Fit(s, {t}, r)
  BY <1>1, <1>2
<1>4. /\ Fit(a, {t}, r) /\ SameObjects(s, a) /\ a.run = s.run /\ a.rdy = s.rdy
      /\ a.st = s.st /\ a.wait = s.wait /\ ~ InDly(a.dly, t) /\ Leaves(s.dly, a.dly, t)
  BY <1>3, RmvDlyFit
<1>5. ASSUME NEW u, Eased(a, u), u.st[t] \in {"READY", "RUNNING"} PROVE Eased(s, u)
  <2>1. SameObjects(s, u)
    BY <1>4, <1>5 DEF Eased, SameObjects
  <2>2. /\ \A x \in TCBs : u.st[x] = s.st[x] \/ u.st[x] \in {"READY", "RUNNING"}
        /\ \A o \in Objects, x \in Tasks : InSeq(u.wait[o], x) => InSeq(s.wait[o], x)
    BY <1>4, <1>5 DEF Eased
  <2>3. /\ \A x \in Tasks : \A n : Due(u.dly, x, n) => Due(s.dly, x, n)
        /\ \A x \in Tasks : \A n :
               Due(s.dly, x, n) => Due(u.dly, x, n) \/ u.st[x] \in {"READY", "RUNNING"}
        /\ Spaced(s.dly) => Spaced(u.dly)
    BY <1>4, <1>5 DEF Eased, Leaves
  <2> QED BY <2>1, <2>2, <2>3 DEF Eased
<1>6. t \in Alive(a)
  BY <1>4 DEF Alive, SameObjects
<1> QED BY <1>4, <1>5, <1>6

\* The flags of thread t are set.
Raised(s, t, flags) == [s EXCEPT !.events[t] = @ \cup flags]

\* They satisfy its wait.
Met(s, t, flags) ==
    \/ s.st[t] = "WAIT_AND" /\ s.waits[t] \subseteq Raised(s, t, flags).events[t]
    \/ s.st[t] = "WAIT_OR" /\ s.waits[t] \cap Raised(s, t, flags).events[t] # {}

\* It takes those it waits for.
Took(s, t, flags) ==
    [Raised(s, t, flags) EXCEPT
        !.events[t] = @ \ s.waits[t],
        !.waits[t] = IF s.st[t] = "WAIT_OR" THEN @ \cap Raised(s, t, flags).events[t] ELSE @]

\* What rt_evt_set writes.
LEMMA FlagsSet ==
    ASSUME NEW s \in Kernels, NEW t \in TCBs, NEW flags \in SUBSET Flags
    PROVE  /\ \E e : /\ Flagged(s, Raised(s, t, flags),
                                [s.events EXCEPT ![t] = e], [s.waits EXCEPT ![t] = s.waits[t]])
                     /\ Raised(s, t, flags).events[t] = e
           /\ \E e, w : Flagged(s, Took(s, t, flags),
                                [s.events EXCEPT ![t] = e], [s.waits EXCEPT ![t] = w])
<1>1. /\ s.events \in [TCBs -> SUBSET Flags] /\ s.waits \in [TCBs -> SUBSET Flags]
      /\ s.events[t] \in SUBSET Flags /\ s.waits[t] \in SUBSET Flags
  BY FlagTypes
<1>2. PICK e : e = s.events[t] \cup flags
  OBVIOUS
<1>3. PICK r : r = Raised(s, t, flags)
  OBVIOUS
<1>4. e \in SUBSET Flags /\ r = [s EXCEPT !.events[t] = e, !.waits[t] = s.waits[t]]
  <2>1. e \in SUBSET Flags
    BY <1>1, <1>2
  <2>2. r = [s EXCEPT !.events[t] = e]
    BY <1>2, <1>3 DEF Raised
  <2>3. [s EXCEPT !.events[t] = e] = [s EXCEPT !.events[t] = e, !.waits[t] = s.waits[t]]
    BY <1>1 DEF Kernels
  <2> QED BY <2>1, <2>2, <2>3
<1>5. Flagged(s, r, [s.events EXCEPT ![t] = e], [s.waits EXCEPT ![t] = s.waits[t]])
  BY <1>1, <1>4, FlagsOf
<1>6. r.events[t] = e /\ r.waits[t] = s.waits[t]
  BY <1>1, <1>5 DEF Flagged
<1>7. PICK w : w = IF s.st[t] = "WAIT_OR" THEN s.waits[t] \cap e ELSE s.waits[t]
  OBVIOUS
<1>8. PICK f : f = e \ s.waits[t]
  OBVIOUS
<1>9. f \in SUBSET Flags /\ w \in SUBSET Flags
  BY <1>1, <1>4, <1>7, <1>8
<1>10. Took(s, t, flags) = [r EXCEPT !.events[t] = f, !.waits[t] = w]
  BY <1>3, <1>6, <1>7, <1>8 DEF Took
<1>11. Flagged(r, Took(s, t, flags), [r.events EXCEPT ![t] = f], [r.waits EXCEPT ![t] = w])
  <2>1. r \in Kernels
    BY <1>5 DEF Flagged
  <2> QED BY <1>9, <1>10, <2>1, FlagsOf
<1>12. /\ [r.events EXCEPT ![t] = f] = [s.events EXCEPT ![t] = f]
       /\ [r.waits EXCEPT ![t] = w] = [s.waits EXCEPT ![t] = w]
  <2>1. r.events = [s.events EXCEPT ![t] = e] /\ r.waits = [s.waits EXCEPT ![t] = s.waits[t]]
    BY <1>5 DEF Flagged
  <2> QED BY <1>1, <2>1
<1>13. Flagged(s, Took(s, t, flags), [s.events EXCEPT ![t] = f], [s.waits EXCEPT ![t] = w])
  BY <1>5, <1>11, <1>12 DEF Flagged, SameLists
<1> QED BY <1>3, <1>5, <1>6, <1>13, Zenon

\* rt_evt_set.
LEMMA EvtSetServes ==
    ASSUME NEW s, Sound(s), s.run \in Tasks, NEW t \in Tasks, NEW flags \in SUBSET Flags, NEW timeout
    PROVE  Serves(s, rt_evt_set(s, t, flags), timeout)
<1>1. PICK u : u = rt_evt_set(s, t, flags)
  OBVIOUS
<1>2. s \in Kernels /\ Wakeups(s, {}) /\ Kept(s) /\ Fit(s, {}, s.run) /\ Top(s) /\ t \in TCBs
  BY TaskNames DEF Sound, Fit
<1>3. CASE t \notin s.active
  <2>1. u = s
    BY <1>1, <1>3 DEF rt_evt_set
  <2> QED BY <1>1, <2>1, SameServes
<1>4. CASE t \in s.active /\ ~ Met(s, t, flags)
  <2>1. u = Raised(s, t, flags)
    BY <1>1, <1>4 DEF rt_evt_set, SetFlags, Raised, Met
  <2>2. PICK e : /\ Flagged(s, u, [s.events EXCEPT ![t] = e], [s.waits EXCEPT ![t] = s.waits[t]])
                 /\ u.events[t] = e
    BY <1>2, <2>1, FlagsSet
  <2>3. Unmet(s.st[t], s.waits[t], e)
    BY <1>4, <2>1, <2>2 DEF Met, Unmet
  <2>4. Wakeups(u, {})
    <3>1. Flagged(s, u, [s.events EXCEPT ![t] = e], [s.waits EXCEPT ![t] = s.waits[t]])
      BY <2>2
    <3>2. s \in Kernels /\ Wakeups(s, {}) /\ t \in TCBs
      BY <1>2
    <3> QED BY <2>3, <3>1, <3>2, FlaggedWakeups, Zenon
  <2> QED BY <1>1, <2>2, <2>4, FlaggedServes
<1>5. CASE t \in s.active /\ Met(s, t, flags)
  <2>1. PICK a : a = Took(s, t, flags)
    OBVIOUS
  <2>2. u = rt_dispatch(rt_rmv_dly(a, t), t)
    BY <1>1, <1>5, <2>1 DEF rt_evt_set, SetFlags, Raised, Met, Took
  <2>3. PICK e, w : Flagged(s, a, [s.events EXCEPT ![t] = e], [s.waits EXCEPT ![t] = w])
    BY <1>2, <2>1, FlagsSet
  <2>4. Wakeups(a, {t}) /\ Kept(a)
    <3>1. Wakeups(a, {t})
      BY <1>2, <2>3, FlaggedWakeups, Zenon
    <3>2. Kept(a)
      BY <1>2, <2>3, FlaggedKept
    <3> QED BY <3>1, <3>2
  <2>5. /\ a \in Kernels /\ SameLists(s, a) /\ a.psq = s.psq /\ a.mbx = s.mbx
    BY <2>3 DEF Flagged
  <2>6. Fit(a, {}, s.run) /\ Top(a) /\ a.run = s.run /\ t \in a.active
    BY <1>2, <1>5, <2>5, ObjectsFit DEF SameLists
  <2>7. a.st[t] \in Waits \ InQueue
    <3>1. s.st[t] \in {"WAIT_AND", "WAIT_OR"}
      BY <1>5 DEF Met
    <3>2. s.st[t] \in Waits \ InQueue
      BY <3>1, StateNames
    <3> QED BY <2>5, <3>2 DEF SameLists
  <2>8. PICK b : b = rt_rmv_dly(a, t)
    OBVIOUS
  <2>9. /\ Fit(b, {t}, s.run) /\ SameObjects(a, b) /\ b.run = a.run /\ b.rdy = a.rdy
        /\ ~ InDly(b.dly, t) /\ t \in Alive(b) /\ t \in {t}
        /\ \A z : Eased(b, z) /\ z.st[t] \in {"READY", "RUNNING"} => Eased(a, z)
    BY <2>6, <2>7, <2>8, LooseWake
  <2>10. Fit(b, {t}, b.run) /\ Top(b)
    BY <2>6, <2>9 DEF Top, SameObjects
  <2>11. /\ Fit(u, {t} \ {t}, u.run) /\ Top(u) /\ Eased(b, u) /\ u.st[t] \in {"READY", "RUNNING"}
    BY <2>2, <2>8, <2>9, <2>10, DispatchFit
  <2>12. {t} \ {t} = {}
    OBVIOUS
  <2>13. Fit(u, {}, u.run) /\ Eased(a, u) /\ u \in Kernels
    BY <2>9, <2>11, <2>12 DEF Fit
  <2>14. \A x \in {t} : u.st[x] \in {"READY", "RUNNING"}
    BY <2>11
  <2>15. Wakeups(u, {})
    BY <2>4, <2>5, <2>13, <2>14, EasedWakeups
  <2>16. Kept(u)
    BY <2>4, <2>13, EasedKept
  <2>17. Timed(s, u, timeout)
    <3>1. Timed(a, u, timeout)
      BY <2>6, <2>13, EasedTimed
    <3>2. \A x : Waiting(a, x) <=> Waiting(s, x)
      BY <2>5 DEF Waiting, SameLists
    <3> QED BY <2>5, <3>1, <3>2 DEF Timed, SameLists
  <2>18. u.psq = s.psq /\ u.mbx = s.mbx
    BY <2>5, <2>13 DEF Eased, SameObjects
  <2>19. s.mbx.count < MbxSize => ~ Sending(u)
    BY <2>13, <2>15, <2>18, RoomNotSending
  <2> QED BY <1>1, <2>11, <2>13, <2>15, <2>16, <2>17, <2>18, <2>19 DEF Serves, Sound
<1> QED BY <1>3, <1>4, <1>5

\* rt_evt_clr.
LEMMA EvtClrServes ==
    ASSUME NEW s, Sound(s), s.run \in Tasks, NEW t \in Tasks, NEW flags \in SUBSET Flags, NEW timeout
    PROVE  Serves(s, rt_evt_clr(s, t, flags), timeout)
<1>1. PICK u : u = rt_evt_clr(s, t, flags)
  OBVIOUS
<1>2. s \in Kernels /\ Wakeups(s, {}) /\ t \in TCBs
  BY TaskNames DEF Sound, Fit
<1>3. CASE t \notin s.active
  <2>1. u = s
    BY <1>1, <1>3 DEF rt_evt_clr
  <2> QED BY <1>1, <2>1, SameServes
<1>4. CASE t \in s.active
  <2>1. s.events[t] \in SUBSET Flags /\ s.waits[t] \in SUBSET Flags
    BY <1>2, FlagTypes
  <2>2. PICK e : e = s.events[t] \ flags
    OBVIOUS
  <2>3. e \in SUBSET Flags /\ u = [s EXCEPT !.events[t] = e, !.waits[t] = s.waits[t]]
    BY <1>1, <1>2, <1>4, <2>1, <2>2 DEF rt_evt_clr, Kernels
  <2>4. Flagged(s, u, [s.events EXCEPT ![t] = e], [s.waits EXCEPT ![t] = s.waits[t]])
    BY <1>2, <2>1, <2>3, FlagsOf
  <2>5. Unmet(s.st[t], s.waits[t], e)
    BY <1>2, <1>4, <2>2 DEF Wakeups, Unmet
  <2>6. Wakeups(u, {})
    BY <1>2, <2>4, <2>5, FlaggedWakeups, Zenon
  <2> QED BY <1>1, <2>4, <2>6, FlaggedServes
<1> QED BY <1>3, <1>4

\* The caller waits in no list.
LEMMA BlockServes ==
    ASSUME NEW s, Sound(s), s.run \in Tasks, NEW state \in Waits \ InQueue,
           NEW timeout \in Nat, timeout # 0,
           state = "WAIT_AND" => ~(s.waits[s.run] \subseteq s.events[s.run]),
           state = "WAIT_OR" => s.waits[s.run] \cap s.events[s.run] = {},
           NEW u, u = rt_block(s, timeout, state)
    PROVE  Serves(s, u, timeout)
<1>1. Fit(s, {}, s.run) /\ s \in Kernels
  BY DEF Sound, Fit
<1>2. \A z \in Objects : ~ InSeq(s.wait[z], s.run)
  BY <1>1, RunningTimeless, StateNames DEF Fit, Chained
<1>3. Joins(s, s.wait, state)
  BY <1>1, <1>2, KernelTypes DEF Joins, Fit, Chained
<1>4. Wants(s, s.wait, state)
  BY <1>2, ObjectNames DEF Wants
<1>5. Written(s, s, s.run, s.rdy, s.dly, s.st, s.wait)
  BY <1>1 DEF Written, SameObjects
<1>6. Fit(u, {}, u.run) /\ Top(u) /\ Parks(s, u, timeout, state, s.wait)
  BY <1>1, <1>3, <1>5, BlockFit
<1> QED BY <1>3, <1>4, <1>6, ParksServes

\* rt_dly_wait.
LEMMA DelayServes ==
    ASSUME NEW s, Sound(s), s.run \in Tasks, NEW timeout \in Nat, timeout # 0
    PROVE  Serves(s, rt_block(s, timeout, "WAIT_DLY"), timeout)
<1>1. "WAIT_DLY" \in Waits \ InQueue
  BY StateNames
<1> QED BY <1>1, BlockServes

\* rt_evt_wait.
LEMMA EvtWaitServes ==
    ASSUME NEW s, Sound(s), s.run \in Tasks, NEW flags \in SUBSET Flags, NEW timeout \in Nat,
           NEW and \in BOOLEAN
    PROVE  Serves(s, rt_evt_wait(s, flags, timeout, and), timeout)
<1>1. PICK u : u = rt_evt_wait(s, flags, timeout, and)
  OBVIOUS
<1>2. PICK t : t = s.run
  OBVIOUS
<1>3. s \in Kernels /\ Wakeups(s, {}) /\ Fit(s, {}, s.run) /\ t \in TCBs /\ s.st[t] = "RUNNING"
  BY <1>2, RunningTimeless DEF Sound, Fit
<1>4. s.events[t] \in SUBSET Flags /\ s.waits[t] \in SUBSET Flags
  BY <1>3, FlagTypes
<1>5. \A w, e : Unmet(s.st[t], w, e)
  BY <1>3 DEF Unmet
<1>6. PICK there : there = IF and THEN flags \subseteq s.events[t] ELSE flags \cap s.events[t] # {}
  OBVIOUS
<1>7. CASE there
  <2>1. PICK e, w : e = s.events[t] \ flags /\ w = IF and THEN s.waits[t] ELSE s.events[t] \cap flags
    OBVIOUS
  <2>2. e \in SUBSET Flags /\ w \in SUBSET Flags
    BY <1>4, <2>1
  <2>3. u = [s EXCEPT !.events[t] = e, !.waits[t] = w]
    BY <1>1, <1>2, <1>3, <1>6, <1>7, <2>1 DEF rt_evt_wait, Kernels
  <2>4. Flagged(s, u, [s.events EXCEPT ![t] = e], [s.waits EXCEPT ![t] = w])
    BY <1>3, <2>2, <2>3, FlagsOf
  <2>5. Wakeups(u, {})
    <3>1. s \in Kernels /\ Wakeups(s, {}) /\ t \in TCBs /\ Unmet(s.st[t], w, e)
      BY <1>3, <1>5
    <3> QED BY <2>4, <3>1, FlaggedWakeups, Zenon
  <2> QED BY <1>1, <2>4, <2>5, FlaggedServes
<1>8. CASE ~ there
  <2>1. PICK a : a = [s EXCEPT !.waits[t] = flags]
    OBVIOUS
  <2>2. PICK state : state = IF and THEN "WAIT_AND" ELSE "WAIT_OR"
    OBVIOUS
  <2>3. u = rt_block(a, timeout, state)
    BY <1>1, <1>2, <1>6, <1>8, <2>1, <2>2 DEF rt_evt_wait
  <2>4. a = [s EXCEPT !.events[t] = s.events[t], !.waits[t] = flags]
    BY <1>3, <2>1 DEF Kernels
  <2>5. Flagged(s, a, [s.events EXCEPT ![t] = s.events[t]], [s.waits EXCEPT ![t] = flags])
    BY <1>3, <1>4, <2>4, FlagsOf
  <2>6. Wakeups(a, {}) /\ a.events[t] = s.events[t] /\ a.waits[t] = flags
    <3>1. s \in Kernels /\ Wakeups(s, {}) /\ t \in TCBs /\ Unmet(s.st[t], flags, s.events[t])
      BY <1>3, <1>5
    <3>2. Wakeups(a, {})
      BY <2>5, <3>1, FlaggedWakeups, Zenon
    <3>3. a.events[t] = s.events[t] /\ a.waits[t] = flags
      BY <2>5, <3>1, FlagTypes DEF Flagged
    <3> QED BY <3>2, <3>3
  <2>7. Serves(s, a, timeout)
    BY <2>5, <2>6, FlaggedServes
  <2>8. SameLists(s, a) /\ a.psq = s.psq /\ a.mbx = s.mbx
    BY <2>5 DEF Flagged
  <2>9. Sound(a) /\ a.run = t /\ a.run \in Tasks
    BY <1>2, <2>7, <2>8 DEF Serves, SameLists
  <2>10. CASE timeout = 0
    <3>1. u = a
      BY <2>3, <2>10 DEF rt_block
    <3> QED BY <1>1, <2>7, <3>1
  <2>11. CASE timeout # 0
    <3>1. state \in Waits \ InQueue
      BY <2>2, StateNames
    <3>2. /\ state = "WAIT_AND" => ~(a.waits[a.run] \subseteq a.events[a.run])
          /\ state = "WAIT_OR" => a.waits[a.run] \cap a.events[a.run] = {}
      BY <1>6, <1>8, <2>2, <2>6, <2>9
    <3>3. Serves(a, u, timeout)
      BY <2>3, <2>9, <2>11, <3>1, <3>2, BlockServes
    <3>4. s.mbx.count < MbxSize => a.mbx.count < MbxSize
      BY <2>8
    <3> QED BY <1>1, <2>8, <3>3, <3>4, ServesAfter
  <2> QED BY <2>10, <2>11
<1> QED BY <1>7, <1>8

\* A thread yields to those of its priority.
LEMMA PassServes ==
    ASSUME NEW s, Sound(s), s.run \in Tasks, NEW timeout
    PROVE  Serves(s, rt_tsk_pass(s), timeout)
<1>1. PICK u : u = rt_tsk_pass(s)
  OBVIOUS
<1>2. Fit(s, {}, s.run) /\ Top(s) /\ s.run # Idle /\ s.run # NoTask /\ s.run \in TCBs
  BY TaskNames DEF Sound
<1>3. /\ s \in Kernels /\ s.rdy \in Seq(TCBs) /\ s.prio \in [TCBs -> Nat]
      /\ Sorted(s.rdy, s.prio) /\ Once(s.rdy)
  BY <1>2, KernelTypes DEF Fit, Chained
<1>4. s.rdy # <<>>
  BY <1>2, SomeReadyToo
<1>5. CASE rt_rdy_prio(s) # s.prio[s.run]
  <2>1. u = s
    BY <1>1, <1>5 DEF rt_tsk_pass
  <2> QED BY <1>1, <2>1, SameServes
<1>6. CASE rt_rdy_prio(s) = s.prio[s.run]
  <2>1. PICK h, r : h = Head(s.rdy) /\ r = Tail(s.rdy)
    OBVIOUS
  <2>2. PICK t : t = s.run
    OBVIOUS
  <2>3. /\ r \in Seq(TCBs) /\ h \in TCBs /\ InSeq(s.rdy, h) /\ Once(r) /\ ~ InSeq(r, h)
        /\ \A x : InSeq(s.rdy, x) <=> x = h \/ InSeq(r, x)
    BY <1>3, <1>4, <2>1, HeadTail
  <2>4. Sorted(r, s.prio) /\ Below(s.rdy, s.prio, s.prio[h])
    BY <1>3, <1>4, <2>1, HeadHighest
  <2>5. s.prio[h] = s.prio[t]
    BY <1>6, <2>1, <2>2 DEF rt_rdy_prio
  <2>6. /\ Fit(s, {} \cup {t}, NoTask) /\ t \in Alive(s) /\ ~ InDly(s.dly, t) /\ s.st[t] = "RUNNING"
    BY <1>2, <2>2, ReleaseFit, ZenonT(40)
  <2>7. Fit(s, {t}, NoTask)
    <3>1. {} \cup {t} = {t}
      OBVIOUS
    <3> QED BY <2>6, <3>1
  <2>8. t \in TCBs /\ ~ InSeq(s.rdy, t)
    BY <1>2, <2>2, <2>6 DEF Fit, Chained
  <2>9. PICK p : p = rt_put_prio(s, r, t)
    OBVIOUS
  <2>10. /\ p \in Seq(TCBs) /\ (\A x : InSeq(p, x) <=> InSeq(r, x) \/ x = t) /\ Once(p)
         /\ Sorted(p, s.prio)
    BY <1>3, <2>3, <2>4, <2>8, <2>9, PutPrioList
  <2>11. PICK q : q = <<h>> \o p
    OBVIOUS
  <2>12. Below(p, s.prio, s.prio[h])
    <3>1. s.prio[h] \in Nat
      BY <1>3, <2>3
    <3> QED BY <2>3, <2>4, <2>5, <2>10, <3>1 DEF Below
  <2>13. /\ q \in Seq(TCBs) /\ (\A x : InSeq(q, x) <=> x = h \/ InSeq(p, x)) /\ Once(q)
         /\ Sorted(q, s.prio)
    <3>1. ~ InSeq(p, h)
      BY <2>3, <2>8, <2>10
    <3> QED BY <1>3, <2>3, <2>10, <2>11, <2>12, <3>1, ConsList, ConsOnce, ConsSorted
  <2>14. \A x : InSeq(q, x) <=> InSeq(s.rdy, x) \/ x = t
    BY <2>3, <2>10, <2>13
  <2>15. PICK a : a = [s EXCEPT !.rdy = q, !.st[t] = "READY"]
    OBVIOUS
  <2>16. Written(s, a, s.run, q, s.dly, [s.st EXCEPT ![t] = "READY"], s.wait)
    <3>1. "READY" \in States
      BY StateNames
    <3>2. Written(s, [s EXCEPT !.rdy = q, !.st[t] = "READY"],
                  s.run, q, s.dly, [s.st EXCEPT ![t] = "READY"], s.wait)
      BY <1>3, <2>8, <2>13, <3>1, SetRdySt
    <3> QED BY <2>15, <3>2, Zenon
  <2>17. Fit(a, {t} \ {t}, NoTask) /\ Eased(s, a)
    BY <2>6, <2>7, <2>13, <2>14, <2>16, ReadyFit
  <2>18. {t} \ {t} = {}
    OBVIOUS
  <2>19. Fit(a, {}, NoTask)
    BY <2>17, <2>18
  <2>20. a.rdy # <<>>
    BY <2>19, SomeReady
  <2>21. u = SwitchToFirst(a)
    BY <1>1, <1>6, <2>1, <2>2, <2>9, <2>11, <2>15 DEF rt_tsk_pass
  <2>22. Fit(u, {}, u.run) /\ Top(u) /\ Eased(a, u)
    BY <2>19, <2>20, <2>21, SwitchFit
  <2>23. Eased(s, u)
    BY <2>17, <2>22, EasedTrans
  <2> QED BY <1>1, <2>22, <2>23, EasedServes
<1> QED BY <1>5, <1>6

(***************************************************************************)
(* Priorities.                                                             *)
(***************************************************************************)

\* Lists u have the threads of lists s.
SameMembers(s, u) ==
    /\ u.run = s.run /\ u.dly = s.dly /\ u.st = s.st /\ u.active = s.active
    /\ \A x : InSeq(u.rdy, x) <=> InSeq(s.rdy, x)
    /\ \A o \in Objects : \A x : InSeq(u.wait[o], x) <=> InSeq(s.wait[o], x)
    /\ Once(u.rdy) /\ \A o \in Objects : Once(u.wait[o])

\* Lists with the same members, in the order of the priorities.
LEMMA SameMembersFit ==
    ASSUME NEW s, NEW X, NEW r, Fit(s, X, r), NEW u \in Kernels, SameMembers(s, u),
           Sorted(u.rdy, u.prio)
    PROVE  Fit(u, X, r)
<1>1. Alive(u) = Alive(s)
  BY DEF SameMembers, Alive
<1>2. Chained(u, X, r)
  BY <1>1 DEF SameMembers, Fit, Chained
<1>3. Delayed(u)
  BY DEF SameMembers, Fit, Delayed
<1> QED BY <1>2, <1>3 DEF Fit

\* The same of all objects.
SameItems(s, u) ==
    /\ u.live = s.live /\ u.tokens = s.tokens /\ u.mut = s.mut /\ u.mbx = s.mbx
    /\ u.events = s.events /\ u.waits = s.waits /\ u.msg = s.msg /\ u.tmr = s.tmr
    /\ u.psq = s.psq /\ u.fault = s.fault

\* In u, thread t has priority p.
Resorted(s, u, t, p) ==
    /\ u \in Kernels /\ SameMembers(s, u) /\ SameItems(s, u)
    /\ u.prio = [s.prio EXCEPT ![t] = p] /\ Sorted(u.rdy, u.prio)

\* The priority of thread t becomes p, and its list stays as it is.
Repriced(s, u, t, p) ==
    /\ u \in Kernels /\ u.prio = [s.prio EXCEPT ![t] = p] /\ SameItems(s, u)
    /\ u.run = s.run /\ u.rdy = s.rdy /\ u.dly = s.dly /\ u.st = s.st
    /\ u.wait = s.wait /\ u.active = s.active
    /\ u.prio[t] = p /\ \A x \in TCBs : x # t => u.prio[x] = s.prio[x]

\* A priority is written.
LEMMA SetPrio ==
    ASSUME NEW s \in Kernels, NEW t \in TCBs, NEW p \in Nat, NEW u, u = [s EXCEPT !.prio[t] = p]
    PROVE  Repriced(s, u, t, p)
  BY DEF Kernels, SameItems, Repriced

\* The objects are the same after a list was written.
LEMMA SameWritten ==
    ASSUME NEW s, NEW k0, NEW u, NEW rdy, NEW w, SameItems(s, k0), k0.active = s.active,
           Written(k0, u, k0.run, rdy, k0.dly, k0.st, w)
    PROVE  SameItems(s, u) /\ u.active = s.active /\ u.prio = k0.prio
<1>1. /\ u.prio = k0.prio /\ u.active = k0.active /\ u.live = k0.live /\ u.tokens = k0.tokens
      /\ u.mut = k0.mut /\ u.mbx = k0.mbx /\ u.events = k0.events /\ u.waits = k0.waits
      /\ u.msg = k0.msg /\ u.tmr = k0.tmr /\ u.psq = k0.psq /\ u.fault = k0.fault
  BY DEF Written, SameObjects
<1> QED BY <1>1 DEF SameItems

\* Thread t is put where its new priority says.
LEMMA ResortFit ==
    ASSUME NEW s, NEW r, Fit(s, {}, r), NEW t \in s.active, NEW p \in Nat,
           NEW k0, Repriced(s, k0, t, p), NEW u, u = rt_resort_prio(k0, t)
    PROVE  Resorted(s, u, t, p)
<1>1. /\ s \in Kernels /\ s.rdy \in Seq(TCBs) /\ s.wait \in [Objects -> Seq(Tasks)]
      /\ s.prio \in [TCBs -> Nat] /\ s.active \in SUBSET Tasks
      /\ Once(s.rdy) /\ (\A o \in Objects : Once(s.wait[o])) /\ Sorted(s.rdy, s.prio)
  BY KernelTypes DEF Fit, Chained
<1>2. t \in Tasks /\ t \in TCBs /\ t \in Alive(s)
  BY <1>1, TaskNames DEF Alive
<1>3. /\ k0 \in Kernels /\ k0.prio = [s.prio EXCEPT ![t] = p] /\ SameItems(s, k0)
      /\ k0.run = s.run /\ k0.rdy = s.rdy /\ k0.dly = s.dly /\ k0.st = s.st
      /\ k0.wait = s.wait /\ k0.active = s.active
      /\ k0.prio[t] = p /\ \A x \in TCBs : x # t => k0.prio[x] = s.prio[x]
  BY DEF Repriced
<1>4. PICK prio : prio = k0.prio
  OBVIOUS
<1>41. prio \in [TCBs -> Nat]
  BY <1>3, <1>4, KernelTypes
<1>5. PICK in : in = {o \in DOMAIN k0.wait : Contains(k0.wait[o], t)}
  OBVIOUS
<1>6. \A o : o \in in <=> o \in Objects /\ InSeq(s.wait[o], t)
  <2>1. \A o \in Objects : DOMAIN s.wait[o] = 1 .. Len(s.wait[o])
    BY <1>1
  <2>2. \A o \in Objects : Contains(s.wait[o], t) <=> InSeq(s.wait[o], t)
    BY <2>1 DEF Contains, InSeq
  <2> QED BY <1>1, <1>3, <1>5, <2>2
<1>7. PICK a : a = rt_rmv_list(k0, t)
  OBVIOUS
<1>8. PICK q, w : q = RemoveFirst(s.rdy, t) /\ w = [o \in Objects |-> RemoveFirst(s.wait[o], t)]
  OBVIOUS
<1>9. a = [k0 EXCEPT !.rdy = q, !.wait = w]
  <2>1. DOMAIN s.wait = Objects
    BY <1>1
  <2> QED BY <1>3, <1>7, <1>8, <2>1 DEF rt_rmv_list
<1>10. /\ q \in Seq(TCBs) /\ (\A x : InSeq(q, x) <=> InSeq(s.rdy, x) /\ x # t) /\ Once(q)
       /\ (~ InSeq(s.rdy, t) => q = s.rdy) /\ Sorted(q, s.prio)
  BY <1>1, <1>8, RemoveFirstOnce, RemoveFirstSorted
<1>11. \A o \in Objects :
          /\ w[o] \in Seq(Tasks) /\ (\A x : InSeq(w[o], x) <=> InSeq(s.wait[o], x) /\ x # t)
          /\ Once(w[o]) /\ (~ InSeq(s.wait[o], t) => w[o] = s.wait[o])
  <2> SUFFICES ASSUME NEW o \in Objects
               PROVE  /\ w[o] \in Seq(Tasks)
                      /\ (\A x : InSeq(w[o], x) <=> InSeq(s.wait[o], x) /\ x # t)
                      /\ Once(w[o]) /\ (~ InSeq(s.wait[o], t) => w[o] = s.wait[o])
    OBVIOUS
  <2>1. w[o] = RemoveFirst(s.wait[o], t) /\ s.wait[o] \in Seq(Tasks) /\ Once(s.wait[o])
    BY <1>1, <1>8
  <2> QED BY <2>1, RemoveFirstOnce
<1>12. w \in [Objects -> Seq(Tasks)]
  BY <1>8, <1>11
<1>13. Sorted(q, k0.prio)
  <2>0. PICK old : old = s.prio
    OBVIOUS
  <2>1. \A x \in TCBs : InSeq(q, x) => prio[x] = old[x]
    BY <1>3, <1>4, <1>10, <2>0
  <2>2. q \in Seq(TCBs) /\ Sorted(q, old)
    BY <1>10, <2>0
  <2>3. Sorted(q, prio)
    BY <2>1, <2>2, SameSorted
  <2> QED BY <1>4, <2>3
<1>14. Written(k0, a, k0.run, q, k0.dly, k0.st, w)
  BY <1>3, <1>9, <1>10, <1>12, SetRdyWait
<1>15. a \in Kernels /\ a.rdy = q /\ a.wait = w /\ a.prio = k0.prio
  BY <1>14 DEF Written, SameObjects
<1>16. CASE in # {}
  <2>1. PICK z \in Objects : InSeq(s.wait[z], t)
    BY <1>6, <1>16
  <2>2. \A o \in Objects : o \in in <=> o = z
    BY <1>2, <1>6, <2>1 DEF Fit, Chained
  <2>3. ~ InSeq(s.rdy, t)
    BY <1>2, <2>1, StateNames DEF Fit, Chained
  <2>4. PICK v : v = rt_put_prio(k0, w[z], t)
    OBVIOUS
  <2>5. v \in Seq(Tasks) /\ Once(v) /\ \A x : InSeq(v, x) <=> InSeq(w[z], x) \/ x = t
    <3>0. PICK y : y = w[z]
      OBVIOUS
    <3>1. y \in Seq(Tasks) /\ Once(y) /\ ~ InSeq(y, t)
      BY <1>11, <3>0
    <3>2. k0.prio \in [TCBs -> Nat] /\ t \in Tasks
      BY <1>2, <1>4, <1>41
    <3>3. v = rt_put_prio(k0, y, t)
      BY <2>4, <3>0
    <3>4. v \in Seq(Tasks) /\ Once(v) /\ \A x : InSeq(v, x) <=> InSeq(y, x) \/ x = t
      BY <3>1, <3>2, <3>3, PutPrioTasks, Zenon
    <3> QED BY <3>0, <3>4
  <2>6. PICK y : y = [o \in Objects |-> IF o = z THEN v ELSE w[o]]
    OBVIOUS
  <2>7. y \in [Objects -> Seq(Tasks)]
    BY <1>11, <2>5, <2>6
  <2>8. u = [a EXCEPT !.wait = y]
    <3>1. u = [a EXCEPT !.wait = [o \in DOMAIN @ |-> IF o \in in THEN rt_put_prio(k0, @[o], t) ELSE @[o]]]
      BY <1>5, <1>7, <1>16 DEF rt_resort_prio
    <3>2. DOMAIN a.wait = Objects
      BY <1>12, <1>15
    <3>3. [o \in DOMAIN a.wait |-> IF o \in in THEN rt_put_prio(k0, a.wait[o], t) ELSE a.wait[o]] = y
      BY <1>15, <2>2, <2>4, <2>6, <3>2
    <3> QED BY <3>1, <3>3
  <2>9. Written(a, u, a.run, a.rdy, a.dly, a.st, y)
    <3>1. u = [a EXCEPT !.rdy = a.rdy, !.wait = y]
      BY <1>15, <2>8 DEF Kernels
    <3>2. a.rdy \in Seq(TCBs)
      BY <1>10, <1>15
    <3>3. a \in Kernels
      BY <1>15
    <3>4. Written(a, [a EXCEPT !.rdy = a.rdy, !.wait = y], a.run, a.rdy, a.dly, a.st, y)
      BY <2>7, <3>2, <3>3, SetRdyWait
    <3> QED BY <3>1, <3>4, Zenon
  <2>10. Written(k0, u, k0.run, q, k0.dly, k0.st, y)
    BY <1>14, <2>9 DEF Written, SameObjects
  <2>11. /\ u \in Kernels /\ u.run = k0.run /\ u.rdy = q /\ u.dly = k0.dly /\ u.st = k0.st /\ u.wait = y
    BY <2>10 DEF Written
  <2>12. SameItems(s, u) /\ u.active = s.active /\ u.prio = k0.prio
    <3>1. SameItems(s, k0) /\ k0.active = s.active
      BY <1>3
    <3> QED BY <2>10, <3>1, SameWritten, Zenon
  <2>13. \A o \in Objects : Once(u.wait[o]) /\ \A x : InSeq(u.wait[o], x) <=> InSeq(s.wait[o], x)
    <3> SUFFICES ASSUME NEW o \in Objects
                 PROVE  Once(u.wait[o]) /\ \A x : InSeq(u.wait[o], x) <=> InSeq(s.wait[o], x)
      OBVIOUS
    <3>1. CASE o = z
      <4>1. u.wait[o] = v
        BY <2>6, <2>11, <3>1
      <4>2. \A x : InSeq(w[z], x) <=> InSeq(s.wait[z], x) /\ x # t
        BY <1>11
      <4> QED BY <2>1, <2>5, <3>1, <4>1, <4>2
    <3>2. CASE o # z
      <4>1. u.wait[o] = w[o]
        BY <2>6, <2>11, <3>2
      <4>2. ~ InSeq(s.wait[o], t)
        BY <1>6, <2>2, <3>2
      <4>3. w[o] = s.wait[o] /\ Once(w[o])
        BY <1>11, <4>2
      <4> QED BY <4>1, <4>3
    <3> QED BY <3>1, <3>2
  <2>14. SameMembers(s, u)
    BY <1>3, <1>10, <2>3, <2>11, <2>12, <2>13 DEF SameMembers
  <2> QED BY <1>3, <1>13, <2>11, <2>12, <2>14 DEF Resorted
<1>17. CASE in = {} /\ s.st[t] = "READY"
  <2>1. InSeq(s.rdy, t)
    BY <1>2, <1>17 DEF Fit, Chained
  <2>2. \A o \in Objects : w[o] = s.wait[o]
    BY <1>6, <1>11, <1>17
  <2>3. PICK v : v = rt_put_prio(k0, q, t)
    OBVIOUS
  <2>4. /\ v \in Seq(TCBs) /\ (\A x : InSeq(v, x) <=> InSeq(q, x) \/ x = t) /\ Once(v)
        /\ Sorted(v, k0.prio)
    <3>1. ~ InSeq(q, t)
      BY <1>10
    <3>2. k0.prio \in [TCBs -> Nat] /\ t \in TCBs /\ q \in Seq(TCBs) /\ Once(q) /\ TCBs \subseteq TCBs
      BY <1>2, <1>4, <1>41, <1>10
    <3>3. /\ rt_put_prio(k0, q, t) \in Seq(TCBs)
          /\ \A x : InSeq(rt_put_prio(k0, q, t), x) <=> InSeq(q, x) \/ x = t
          /\ Once(q) /\ ~ InSeq(q, t) => Once(rt_put_prio(k0, q, t))
          /\ Sorted(q, k0.prio) => Sorted(rt_put_prio(k0, q, t), k0.prio)
      BY <3>2, PutPrioList, Zenon
    <3> QED BY <1>13, <2>3, <3>1, <3>2, <3>3, Zenon
  <2>5. u = [a EXCEPT !.rdy = v]
    BY <1>3, <1>5, <1>7, <1>15, <1>17, <2>3 DEF rt_resort_prio
  <2>6. Written(a, u, a.run, v, a.dly, a.st, a.wait)
    BY <1>15, <2>4, <2>5, SetRdy
  <2>7. Written(k0, u, k0.run, v, k0.dly, k0.st, w)
    BY <1>14, <2>6 DEF Written, SameObjects
  <2>8. /\ u \in Kernels /\ u.run = k0.run /\ u.rdy = v /\ u.dly = k0.dly /\ u.st = k0.st /\ u.wait = w
    BY <2>7 DEF Written
  <2>9. SameItems(s, u) /\ u.active = s.active /\ u.prio = k0.prio
    <3>1. SameItems(s, k0) /\ k0.active = s.active
      BY <1>3
    <3> QED BY <2>7, <3>1, SameWritten, Zenon
  <2>10. SameMembers(s, u)
    BY <1>1, <1>3, <1>10, <2>1, <2>2, <2>4, <2>8, <2>9 DEF SameMembers
  <2> QED BY <1>3, <2>4, <2>8, <2>9, <2>10 DEF Resorted
<1>18. CASE in = {} /\ s.st[t] # "READY"
  <2>1. u = k0
    BY <1>3, <1>5, <1>18 DEF rt_resort_prio
  <2>2. ~ InSeq(s.rdy, t)
    BY <1>2, <1>18 DEF Fit, Chained
  <2>3. SameMembers(s, u)
    BY <1>1, <1>3, <2>1 DEF SameMembers
  <2> QED BY <1>3, <1>10, <1>13, <2>1, <2>2, <2>3 DEF Resorted
<1> QED BY <1>16, <1>17, <1>18

\* The running thread is in no list.
LEMMA RepricedRunning ==
    ASSUME NEW s, NEW t, Fit(s, {}, t), t # NoTask, NEW p, NEW u, Repriced(s, u, t, p)
    PROVE  Resorted(s, u, t, p)
<1>1. /\ s.rdy \in Seq(TCBs) /\ s.prio \in [TCBs -> Nat] /\ Sorted(s.rdy, s.prio)
      /\ Once(s.rdy) /\ \A o \in Objects : Once(s.wait[o])
  BY KernelTypes DEF Fit, Chained
<1>2. s.st[t] = "RUNNING" /\ t \in TCBs
  BY ReleaseFit
<1>3. ~ InSeq(s.rdy, t)
  BY <1>2 DEF Fit, Chained
<1>4. PICK prio, old : prio = u.prio /\ old = s.prio
  OBVIOUS
<1>5. \A x \in TCBs : InSeq(s.rdy, x) => prio[x] = old[x]
  BY <1>3, <1>4 DEF Repriced
<1>6. Sorted(s.rdy, prio)
  <2>1. Sorted(s.rdy, old)
    BY <1>1, <1>4
  <2> QED BY <1>1, <1>5, <2>1, SameSorted
<1>7. Sorted(u.rdy, u.prio)
  BY <1>4, <1>6 DEF Repriced
<1>8. SameMembers(s, u)
  BY <1>1 DEF SameMembers, Repriced
<1> QED BY <1>7, <1>8 DEF Resorted, Repriced

\* The lists are right after a priority changed,
LEMMA ResortedFit ==
    ASSUME NEW s, NEW r, Fit(s, {}, r), NEW u, NEW t, NEW p, Resorted(s, u, t, p)
    PROVE  Fit(u, {}, r)
  BY SameMembersFit DEF Resorted

\* as empty as before,
LEMMA ResortedEmpty ==
    ASSUME NEW s \in Kernels, NEW u, NEW t, NEW p, Resorted(s, u, t, p), NEW o \in Objects
    PROVE  u.wait[o] = <<>> <=> s.wait[o] = <<>>
<1>1. s.wait[o] \in Seq(Tasks) /\ u.wait[o] \in Seq(Tasks)
  BY KernelTypes DEF Resorted
<1>2. \A x : InSeq(u.wait[o], x) <=> InSeq(s.wait[o], x)
  BY DEF Resorted, SameMembers
<1> QED BY <1>1, <1>2, EmptyList

\* and so are the objects.
LEMMA ResortedObjects ==
    ASSUME NEW s \in Kernels, NEW u, NEW t, NEW p, Resorted(s, u, t, p), Wakeups(s, {}), Kept(s)
    PROVE  Wakeups(u, {}) /\ Kept(u)
<1>1. /\ u.st = s.st /\ u.active = s.active /\ u.live = s.live /\ u.tokens = s.tokens
      /\ u.mut = s.mut /\ u.mbx = s.mbx /\ u.events = s.events /\ u.waits = s.waits
      /\ u.psq = s.psq
  BY DEF Resorted, SameMembers, SameItems
<1>2. \A o \in Objects : u.wait[o] = <<>> <=> s.wait[o] = <<>>
  BY ResortedEmpty
<1>3. \A m \in Mutexes : \A x : InSeq(u.wait[m], x) <=> InSeq(s.wait[m], x)
  BY ObjectNames DEF Resorted, SameMembers
<1>4. Kept(u)
  BY <1>1, <1>3 DEF Kept
<1>5. Wakeups(u, {})
  BY <1>1, <1>2, ObjectNames DEF Wakeups
<1> QED BY <1>4, <1>5

\* A call that changes a priority first.
LEMMA ResortedThrough ==
    ASSUME NEW s, NEW a, NEW t, NEW p, Resorted(s, a, t, p), NEW u, NEW timeout,
           Serves(a, u, timeout)
    PROVE  Serves(s, u, timeout)
<1>1. /\ a.run = s.run /\ a.dly = s.dly /\ a.st = s.st /\ a.active = s.active
      /\ a.mbx = s.mbx /\ a.psq = s.psq
  BY DEF Resorted, SameMembers, SameItems
<1>2. \A x : Waiting(a, x) <=> Waiting(s, x)
  BY <1>1 DEF Waiting
<1>3. Timed(s, u, timeout)
  BY <1>1, <1>2 DEF Timed, Serves
<1> QED BY <1>1, <1>3 DEF Serves

\* A call after which threads are ready.
LEMMA EasedFrom ==
    ASSUME NEW s, NEW u, Fit(s, {}, s.run), Wakeups(s, {}), Kept(s), s.run \in Tasks, Eased(s, u),
           Fit(u, {}, u.run), Top(u), NEW timeout
    PROVE  Serves(s, u, timeout)
<1>1. s \in Kernels /\ u \in Kernels
  BY DEF Fit
<1>2. Wakeups(u, {}) /\ Kept(u) /\ Timed(s, u, timeout)
  BY <1>1, EasedWakeups, EasedKept, EasedTimed
<1>3. u.psq = s.psq /\ u.mbx = s.mbx
  BY DEF Eased, SameObjects
<1>4. s.mbx.count < MbxSize => ~ Sending(u)
  BY <1>1, <1>2, <1>3, RoomNotSending
<1> QED BY <1>2, <1>3, <1>4 DEF Serves, Sound

\* A call after which a priority changed and threads are ready.
LEMMA ResortedEased ==
    ASSUME NEW s, Sound(s), s.run \in Tasks, NEW a, NEW t, NEW p, Resorted(s, a, t, p),
           NEW u, Eased(a, u), Fit(u, {}, u.run), Top(u), NEW timeout
    PROVE  Serves(s, u, timeout)
<1>1. s \in Kernels /\ Fit(s, {}, s.run) /\ Wakeups(s, {}) /\ Kept(s)
  BY DEF Sound, Fit
<1>2. Wakeups(a, {}) /\ Kept(a) /\ a.run = s.run
  BY <1>1, ResortedObjects DEF Resorted, SameMembers
<1>3. Fit(a, {}, a.run)
  BY <1>1, <1>2, ResortedFit
<1>4. Serves(a, u, timeout)
  BY <1>2, <1>3, EasedFrom
<1> QED BY <1>4, ResortedThrough

\* rt_tsk_prio.
LEMMA PrioServes ==
    ASSUME NEW s, Sound(s), s.run \in Tasks, NEW t \in Tasks, NEW p \in Nat, NEW timeout
    PROVE  Serves(s, rt_tsk_prio(s, t, p), timeout)
<1>1. PICK u : u = rt_tsk_prio(s, t, p)
  OBVIOUS
<1>2. /\ Fit(s, {}, s.run) /\ Top(s) /\ s \in Kernels /\ t \in TCBs /\ s.run \in TCBs
      /\ s.run # NoTask
  BY TaskNames DEF Sound, Fit
<1>3. PICK r : r = [s EXCEPT !.prio[t] = p]
  OBVIOUS
<1>4. Repriced(s, r, t, p)
  BY <1>2, <1>3, SetPrio
<1>5. CASE t = s.run
  <2>1. Resorted(s, r, t, p)
    BY <1>2, <1>4, <1>5, RepricedRunning
  <2>2. Fit(r, {}, r.run)
    BY <1>2, <1>4, <2>1, ResortedFit DEF Repriced
  <2>3. u = YieldToHigher(r)
    BY <1>1, <1>3, <1>5 DEF rt_tsk_prio
  <2>4. Fit(u, {}, u.run) /\ Top(u) /\ Eased(r, u)
    BY <2>2, <2>3, YieldFit
  <2> QED BY <1>1, <2>1, <2>4, ResortedEased
<1>6. CASE t # s.run /\ t \notin s.active
  <2>1. u = s
    BY <1>1, <1>6 DEF rt_tsk_prio
  <2> QED BY <1>1, <2>1, SameServes
<1>7. ASSUME t # s.run, t \in s.active
      PROVE  Serves(s, u, timeout)
  <2>1. PICK a : a = rt_resort_prio(r, t)
    OBVIOUS
  <2>2. Resorted(s, a, t, p)
    BY <1>2, <1>4, <1>7, <2>1, ResortFit
  <2>3. Fit(a, {}, a.run) /\ a.run = s.run /\ a.st = s.st
    BY <1>2, <2>2, ResortedFit DEF Resorted, SameMembers
  <2>4. /\ \A x : InSeq(a.rdy, x) <=> InSeq(s.rdy, x)
        /\ \A x \in TCBs : x # t => a.prio[x] = s.prio[x]
    BY <1>2, <2>2, KernelTypes DEF Resorted, SameMembers
  <2>5. PICK old : old = s.prio
    OBVIOUS
  <2>6. \A x \in TCBs : InSeq(a.rdy, x) => old[x] <= old[s.run]
    BY <1>2, <2>4, <2>5 DEF Top, Below
  <2>7. CASE s.st[t] # "READY"
    <3>1. u = a
      BY <1>1, <1>3, <1>7, <2>1, <2>7 DEF rt_tsk_prio
    <3>2. ~ InSeq(s.rdy, t)
      BY <1>2, <2>7 DEF Fit, Chained
    <3>3. Top(a)
      BY <1>2, <1>7, <2>3, <2>4, <2>5, <2>6, <3>2 DEF Top, Below
    <3> QED BY <2>2, <2>3, <3>1, <3>3, EasedSelf, ResortedEased
  <2>8. CASE s.st[t] = "READY"
    <3>1. PICK h, b : h = Head(a.rdy) /\ b = [a EXCEPT !.rdy = Tail(@)]
      OBVIOUS
    <3>2. u = rt_dispatch(b, h)
      BY <1>1, <1>3, <1>7, <2>1, <2>8, <3>1 DEF rt_tsk_prio
    <3>3. InSeq(a.rdy, t)
      BY <1>2, <1>7, <2>4, <2>8 DEF Fit, Chained, Alive
    <3>4. a \in Kernels /\ a.rdy \in Seq(TCBs) /\ a.rdy # <<>> /\ a.prio \in [TCBs -> Nat]
      BY <2>3, <3>3, KernelTypes, EmptyList DEF Fit
    <3>5. Written(a, b, a.run, Tail(a.rdy), a.dly, a.st, a.wait)
      <4>1. Tail(a.rdy) \in Seq(TCBs)
        BY <3>4, HeadTail
      <4>2. Written(a, [a EXCEPT !.rdy = Tail(a.rdy)], a.run, Tail(a.rdy), a.dly, a.st, a.wait)
        BY <3>4, <4>1, SetRdy
      <4> QED BY <3>1, <4>2, Zenon
    <3>6. /\ Fit(b, {} \cup {h}, a.run) /\ Eased(a, b) /\ h \in Alive(b) /\ h \in TCBs
          /\ ~ InDly(b.dly, h) /\ Below(b.rdy, b.prio, b.prio[h]) /\ h # a.run
          /\ (\A x : InSeq(a.rdy, x) <=> InSeq(b.rdy, x) \/ x = h) /\ ~ InSeq(b.rdy, h)
      <4>1. Fit(a, {}, a.run) /\ a.rdy # <<>>
        BY <2>3, <3>4
      <4>2. LET g == Head(a.rdy)
            IN  /\ Fit(b, {} \cup {g}, a.run) /\ Eased(a, b)
                /\ g \in Alive(b) /\ g \in TCBs /\ g \notin {} /\ ~ InDly(b.dly, g)
                /\ Below(b.rdy, b.prio, b.prio[g]) /\ g # a.run
                /\ \A x : InSeq(a.rdy, x) <=> InSeq(b.rdy, x) \/ x = g
                /\ ~ InSeq(b.rdy, g)
        BY <3>5, <4>1, TakeFit, Zenon
      <4> QED BY <3>1, <4>2, Zenon
    <3>7. Fit(b, {h}, b.run) /\ b.run = s.run /\ b.prio = a.prio
      <4>1. {} \cup {h} = {h}
        OBVIOUS
      <4> QED BY <2>3, <3>5, <3>6, <4>1 DEF Written, SameObjects
    <3>8. PICK new : new = b.prio
      OBVIOUS
    <3>9. old \in [TCBs -> Nat] /\ new \in [TCBs -> Nat] /\ \A x \in TCBs : x # t => new[x] = old[x]
      BY <1>2, <2>4, <2>5, <3>4, <3>7, <3>8, KernelTypes
    <3>10. \A x \in TCBs : InSeq(b.rdy, x) => old[x] <= old[s.run] /\ x # h /\ new[x] <= new[h]
      BY <2>6, <3>6, <3>8 DEF Below
    <3>11. old[h] <= old[s.run]
      BY <2>6, <3>6
    <3>12. new[s.run] = old[s.run]
      BY <1>2, <1>7, <3>9
    <3>13. \A x \in TCBs : InSeq(b.rdy, x) => new[x] <= new[s.run]
      <4> SUFFICES ASSUME NEW x \in TCBs, InSeq(b.rdy, x)
                   PROVE  new[x] <= new[s.run]
        OBVIOUS
      <4>1. CASE x # t
        BY <3>9, <3>10, <3>12, <4>1
      <4>2. CASE x = t
        <5>1. h # t /\ new[x] <= new[h] /\ new[h] = old[h]
          BY <3>6, <3>9, <3>10, <4>2
        <5>2. new[h] <= new[s.run]
          BY <3>11, <3>12, <5>1
        <5>3. new[x] \in Nat /\ new[h] \in Nat /\ new[s.run] \in Nat
          BY <1>2, <3>6, <3>9
        <5> QED BY <5>1, <5>2, <5>3
      <4> QED BY <4>1, <4>2
    <3>14. Top(b)
      BY <3>7, <3>8, <3>13 DEF Top, Below
    <3>15. h \in {h}
      OBVIOUS
    <3>16. Fit(u, {h} \ {h}, u.run) /\ Top(u) /\ Eased(b, u)
      BY <3>2, <3>6, <3>7, <3>14, <3>15, DispatchFit
    <3>17. {h} \ {h} = {}
      OBVIOUS
    <3>18. Fit(u, {}, u.run) /\ Eased(a, u)
      BY <3>6, <3>16, <3>17, EasedTrans
    <3> QED BY <2>2, <3>16, <3>18, ResortedEased
  <2> QED BY <2>7, <2>8
<1> QED BY <1>1, <1>5, <1>6, <1>7

(***************************************************************************)
(* A call in two parts: it changes the kernel to b, then wakes threads.    *)
(***************************************************************************)

\* Timed for the threads that are not in X.
TimedBut(s, u, X, timeout) ==
    /\ Spaced(s.dly) => Spaced(u.dly)
    /\ \A t \in Tasks : \A n : t # s.run /\ Due(u.dly, t, n) => Due(s.dly, t, n)
    /\ \A t \in Tasks : t # s.run /\ t \notin X /\ Waiting(u, t) =>
           Waiting(s, t) /\ \A n : Due(s.dly, t, n) => Due(u.dly, t, n)
    /\ \A n : Due(u.dly, s.run, n) => n = timeout /\ timeout \notin {0, Forever}
    /\ Waiting(u, s.run) /\ timeout # Forever => Due(u.dly, s.run, timeout)

\* Times after threads of X were taken out and became ready.
LEMMA TimedEased ==
    ASSUME NEW s, s.run \in Tasks, NEW b, NEW u, NEW X, NEW timeout, TimedBut(s, b, X, timeout),
           Eased(b, u), \A t \in X : u.st[t] \in {"READY", "RUNNING"}
    PROVE  Timed(s, u, timeout)
<1>1. \A t \in Tasks : Waiting(u, t) =>
          Waiting(b, t) /\ u.st[t] \notin {"READY", "RUNNING"} /\ t \notin X
  <2> SUFFICES ASSUME NEW t \in Tasks, Waiting(u, t)
               PROVE  Waiting(b, t) /\ u.st[t] \notin {"READY", "RUNNING"} /\ t \notin X
    OBVIOUS
  <2>1. t \in TCBs /\ t \in b.active
    BY TaskNames DEF Eased, SameObjects, Waiting
  <2>2. u.st[t] \notin {"READY", "RUNNING"}
    BY StateNames DEF Waiting
  <2>3. b.st[t] = u.st[t]
    BY <2>1, <2>2 DEF Eased
  <2> QED BY <2>1, <2>2, <2>3 DEF Waiting
<1>2. \A t \in Tasks : \A n : Due(u.dly, t, n) => Due(b.dly, t, n)
  BY DEF Eased
<1>3. \A t \in Tasks : \A n : Waiting(u, t) /\ Due(b.dly, t, n) => Due(u.dly, t, n)
  BY <1>1 DEF Eased
<1>4. Spaced(s.dly) => Spaced(u.dly)
  BY DEF Eased, TimedBut
<1>5. \A t \in Tasks : \A n : t # s.run /\ Due(u.dly, t, n) => Due(s.dly, t, n)
  BY <1>2 DEF TimedBut
<1>6. \A t \in Tasks : t # s.run /\ Waiting(u, t) =>
          Waiting(s, t) /\ \A n : Due(s.dly, t, n) => Due(u.dly, t, n)
  BY <1>1, <1>3 DEF TimedBut
<1>7. \A n : Due(u.dly, s.run, n) => n = timeout /\ timeout \notin {0, Forever}
  BY <1>2 DEF TimedBut
<1>8. Waiting(u, s.run) /\ timeout # Forever => Due(u.dly, s.run, timeout)
  BY <1>1, <1>3 DEF TimedBut
<1> QED BY <1>4, <1>5, <1>6, <1>7, <1>8 DEF Timed

\* A call in two parts: threads of X are taken out, and become ready.
LEMMA PartsServe ==
    ASSUME NEW s, s.run \in Tasks, NEW b \in Kernels, NEW X, NEW timeout, TimedBut(s, b, X, timeout),
           Wakeups(b, X), Kept(b), b.psq = s.psq, b.mbx = s.mbx, NEW u, Eased(b, u),
           \A t \in X : u.st[t] \in {"READY", "RUNNING"}, Fit(u, {}, u.run), Top(u)
    PROVE  Serves(s, u, timeout)
<1>1. u \in Kernels
  BY DEF Fit
<1>2. Wakeups(u, {})
  BY <1>1, EasedWakeups
<1>3. Kept(u)
  BY EasedKept
<1>4. Timed(s, u, timeout)
  BY TimedEased
<1>5. u.psq = s.psq /\ u.mbx = s.mbx
  BY DEF Eased, SameObjects
<1>6. s.mbx.count < MbxSize => ~ Sending(u)
  BY <1>1, <1>2, <1>5, RoomNotSending
<1> QED BY <1>2, <1>3, <1>4, <1>5, <1>6 DEF Serves, Sound

\* The lists stay as they are.
LEMMA SameTimes ==
    ASSUME NEW s, Fit(s, {}, s.run), NEW b, b.dly = s.dly, b.st = s.st, b.active = s.active, NEW timeout
    PROVE  TimedBut(s, b, {}, timeout)
<1>1. ~ Waiting(s, s.run) /\ \A n : ~ Due(s.dly, s.run, n)
  BY RunningTimeless
<1>2. \A t : Waiting(b, t) <=> Waiting(s, t)
  BY DEF Waiting
<1> QED BY <1>1, <1>2 DEF TimedBut

\* Thread t leaves the delay list, and X has it.
LEMMA LeftTimes ==
    ASSUME NEW s, Fit(s, {}, s.run), NEW t, NEW b, Leaves(s.dly, b.dly, t), b.st = s.st,
           b.active = s.active, NEW timeout
    PROVE  TimedBut(s, b, {t}, timeout)
<1>1. ~ Waiting(s, s.run) /\ \A n : ~ Due(s.dly, s.run, n)
  BY RunningTimeless
<1>2. \A x : Waiting(b, x) <=> Waiting(s, x)
  BY DEF Waiting
<1> QED BY <1>1, <1>2 DEF TimedBut, Leaves

(***************************************************************************)
(* Threads end and begin.                                                  *)
(***************************************************************************)

\* Thread t is not alive any more.
LEMMA GoneFit ==
    ASSUME NEW c, NEW t \in Tasks, NEW r, Fit(c, {t}, r), NEW u \in Kernels,
           u.active = c.active \ {t}, u.run = c.run, u.rdy = c.rdy, u.st = c.st, u.wait = c.wait,
           u.prio = c.prio, OnceDly(u.dly), \A x : InDly(u.dly, x) => InDly(c.dly, x) /\ x # t
    PROVE  Fit(u, {}, r)
<1>1. Alive(u) = Alive(c) \ {t} /\ u.active = c.active \ {t}
  BY TaskNames DEF Alive
<1>2. Chained(u, {}, r)
  <2>1. Idle \notin {t}
    BY TaskNames
  <2>2. Alive(u) \ {} = Alive(c) \ {t} /\ u.active \ {} = c.active \ {t}
    BY <1>1
  <2>3. Chained(c, {t}, r)
    BY DEF Fit
  <2> QED BY <2>1, <2>2, <2>3 DEF Chained
<1>3. Delayed(u)
  BY DEF Fit, Delayed
<1>4. Sorted(u.rdy, u.prio)
  BY DEF Fit
<1> QED BY <1>2, <1>3, <1>4 DEF Fit

\* The running thread ends.
LEMMA EndSelf ==
    ASSUME NEW s, Sound(s), s.run \in Tasks, s.run \notin Lasting, NEW timeout
    PROVE  Serves(s, rt_tsk_delete(s, s.run), timeout)
<1>1. PICK u, t : u = rt_tsk_delete(s, s.run) /\ t = s.run
  OBVIOUS
<1>2. PICK b : b = [s EXCEPT !.active = @ \ {t}, !.st[t] = "INACTIVE"]
  OBVIOUS
<1>3. u = SwitchToFirst(b)
  <2>1. [[s EXCEPT !.active = s.active \ {t}] EXCEPT !.st[t] = "INACTIVE"] = b
    BY <1>2
  <2> QED BY <1>1, <2>1 DEF rt_tsk_delete
<1>4. /\ s \in Kernels /\ Fit(s, {}, s.run) /\ t \in Tasks /\ t \in TCBs /\ t # NoTask /\ t # Idle
      /\ t \notin Lasting /\ Wakeups(s, {}) /\ Kept(s)
  BY <1>1, TaskNames DEF Sound, Fit
<1>5. /\ b \in Kernels /\ b.run = s.run /\ b.rdy = s.rdy /\ b.dly = s.dly
      /\ b.st = [s.st EXCEPT ![t] = "INACTIVE"] /\ b.prio = s.prio /\ b.active = s.active \ {t}
      /\ b.wait = s.wait /\ b.live = s.live /\ b.tokens = s.tokens /\ b.mut = s.mut
      /\ b.mbx = s.mbx /\ b.events = s.events /\ b.waits = s.waits /\ b.psq = s.psq
  BY <1>2, <1>4, StateNames DEF Kernels
<1>6. /\ Fit(s, {t}, NoTask) /\ t \in Alive(s) /\ ~ InDly(s.dly, t)
  <2>1. {} \cup {t} = {t}
    OBVIOUS
  <2> QED BY <1>1, <1>4, <2>1, ReleaseFit
<1>7. PICK c : c = [s EXCEPT !.st[t] = "INACTIVE"]
  OBVIOUS
<1>8. Written(s, c, s.run, s.rdy, s.dly, [s.st EXCEPT ![t] = "INACTIVE"], s.wait)
  <2>1. "INACTIVE" \in States
    BY StateNames
  <2>2. Written(s, [s EXCEPT !.st[t] = "INACTIVE"], s.run, s.rdy, s.dly,
                [s.st EXCEPT ![t] = "INACTIVE"], s.wait)
    BY <1>4, <2>1, SetSt
  <2> QED BY <1>7, <2>2, Zenon
<1>9. Fit(c, {t}, NoTask)
  <2>1. /\ c \in Kernels /\ c.rdy = s.rdy /\ c.dly = s.dly /\ c.wait = s.wait
        /\ c.active = s.active /\ c.prio = s.prio /\ Alive(c) = Alive(s)
    BY <1>8 DEF Written, SameObjects, Alive
  <2>2. \A x \in TCBs : x # t => c.st[x] = s.st[x]
    BY <1>4, <1>8, KernelTypes DEF Written
  <2>3. Alive(s) \subseteq TCBs
    BY <1>4, KernelTypes, TaskNames DEF Alive
  <2>4. Chained(c, {t}, NoTask)
    BY <1>4, <1>6, <2>1, <2>2, <2>3, TaskNames DEF Fit, Chained
  <2>5. Delayed(c)
    BY <1>6, <2>1, <2>2, TaskNames DEF Fit, Delayed
  <2> QED BY <1>6, <2>1, <2>4, <2>5 DEF Fit
<1>10. Fit(b, {}, NoTask)
  <2>1. /\ b.active = c.active \ {t} /\ b.run = c.run /\ b.rdy = c.rdy /\ b.st = c.st
        /\ b.wait = c.wait /\ b.prio = c.prio /\ b.dly = c.dly /\ c.dly = s.dly
    BY <1>5, <1>8 DEF Written, SameObjects
  <2>2. OnceDly(b.dly) /\ \A x : InDly(b.dly, x) => InDly(c.dly, x) /\ x # t
    BY <1>6, <1>9, <2>1 DEF Fit, Delayed
  <2> QED BY <1>4, <1>5, <1>9, <2>1, <2>2, GoneFit
<1>11. Fit(u, {}, u.run) /\ Top(u) /\ Eased(b, u)
  BY <1>3, <1>10, SomeReady, SwitchFit
<1>12. Wakeups(b, {})
  <2>1. \A x \in b.active : x \in s.active /\ b.st[x] = s.st[x]
    BY <1>4, <1>5, KernelTypes, TaskNames
  <2> QED BY <1>4, <1>5, <2>1 DEF Wakeups
<1>13. Kept(b)
  BY <1>4, <1>5 DEF Kept
<1>14. TimedBut(s, b, {}, timeout)
  <2>1. \A n : ~ Due(s.dly, s.run, n)
    BY <1>4, RunningTimeless
  <2>2. ~ Waiting(b, s.run)
    BY <1>1, <1>5 DEF Waiting
  <2>3. \A x \in Tasks : x # s.run /\ Waiting(b, x) => Waiting(s, x)
    BY <1>1, <1>4, <1>5, KernelTypes, TaskNames DEF Waiting
  <2> QED BY <1>5, <2>1, <2>2, <2>3 DEF TimedBut
<1> QED BY <1>1, <1>5, <1>11, <1>12, <1>13, <1>14, PartsServe

\* Another thread is ended.
LEMMA EndOther ==
    ASSUME NEW s, Sound(s), s.run \in Tasks, NEW t \in Tasks, t # s.run, t \notin Lasting, NEW timeout
    PROVE  Serves(s, rt_tsk_delete(s, t), timeout)
<1>1. PICK u : u = rt_tsk_delete(s, t)
  OBVIOUS
<1>2. /\ s \in Kernels /\ Fit(s, {}, s.run) /\ Top(s) /\ Wakeups(s, {}) /\ Kept(s) /\ t \in TCBs
      /\ s.rdy \in Seq(TCBs) /\ s.wait \in [Objects -> Seq(Tasks)]
  BY TaskNames, KernelTypes DEF Sound, Fit
<1>3. CASE t \notin s.active
  <2>1. u = s
    BY <1>1, <1>3 DEF rt_tsk_delete
  <2> QED BY <1>1, <2>1, SameServes
<1>4. ASSUME t \in s.active
      PROVE  Serves(s, u, timeout)
  <2>1. PICK c : c = rt_rmv_list(s, t)
    OBVIOUS
  <2>2. /\ Fit(c, {} \cup {t}, s.run) /\ SameObjects(s, c) /\ c.run = s.run /\ c.dly = s.dly
        /\ c.st = s.st /\ (\A x : InSeq(c.rdy, x) <=> InSeq(s.rdy, x) /\ x # t)
        /\ (\A o \in Objects : \A x : InSeq(c.wait[o], x) <=> InSeq(s.wait[o], x) /\ x # t)
        /\ c.rdy = RemoveFirst(s.rdy, t) /\ \A o \in Objects : c.wait[o] = RemoveFirst(s.wait[o], t)
    <3>1. Fit(s, {}, s.run) /\ t \in TCBs /\ t # s.run
      BY <1>2
    <3>2. Delisted(s, {}, s.run, t, c)
      BY <2>1, <3>1, RmvListFit
    <3> QED BY <3>2 DEF Delisted
  <2>3. Fit(c, {t}, s.run) /\ c \in Kernels
    <3>1. {} \cup {t} = {t}
      OBVIOUS
    <3> QED BY <2>2, <3>1 DEF Fit
  <2>4. PICK a, d : a = [s EXCEPT !.active = @ \ {t}] /\ d = rt_rmv_list(a, t)
    OBVIOUS
  <2>5. u = rt_rmv_dly(d, t)
    BY <1>1, <1>4, <2>4 DEF rt_tsk_delete
  <2>6. /\ d \in Kernels /\ d.run = s.run /\ d.dly = s.dly /\ d.st = s.st
        /\ d.rdy = c.rdy /\ d.wait = c.wait /\ d.active = s.active \ {t} /\ d.prio = s.prio
        /\ d.live = s.live /\ d.tokens = s.tokens /\ d.mut = s.mut /\ d.mbx = s.mbx
        /\ d.events = s.events /\ d.waits = s.waits /\ d.psq = s.psq
    <3>1. /\ a \in Kernels /\ a.run = s.run /\ a.dly = s.dly /\ a.st = s.st /\ a.rdy = s.rdy
          /\ a.wait = s.wait /\ a.active = s.active \ {t} /\ a.prio = s.prio
          /\ a.live = s.live /\ a.tokens = s.tokens /\ a.mut = s.mut /\ a.mbx = s.mbx
          /\ a.events = s.events /\ a.waits = s.waits /\ a.psq = s.psq
      BY <1>2, <2>4 DEF Kernels
    <3>2. PICK q, w : q = c.rdy /\ w = c.wait
      OBVIOUS
    <3>3. q \in Seq(TCBs) /\ w \in [Objects -> Seq(Tasks)]
      BY <2>3, <3>2, KernelTypes
    <3>4. d = [a EXCEPT !.rdy = q, !.wait = w]
      <4>1. [o \in DOMAIN a.wait |-> RemoveFirst(a.wait[o], t)] = w
        BY <1>2, <2>2, <3>1, <3>2, <3>3
      <4>2. RemoveFirst(a.rdy, t) = q
        BY <2>2, <3>1, <3>2
      <4> QED BY <2>4, <4>1, <4>2 DEF rt_rmv_list
    <3>5. Written(a, d, a.run, q, a.dly, a.st, w)
      <4>1. Written(a, [a EXCEPT !.rdy = q, !.wait = w], a.run, q, a.dly, a.st, w)
        BY <3>1, <3>3, SetRdyWait
      <4> QED BY <3>4, <4>1, Zenon
    <3> QED BY <3>1, <3>2, <3>5 DEF Written, SameObjects
  <2>7. PICK r \in Seq(Delays) :
           /\ u = [d EXCEPT !.dly = r]
           /\ OnceDly(r)
           /\ \A x, n : Due(r, x, n) <=> Due(d.dly, x, n) /\ x # t
           /\ Spaced(d.dly) => Spaced(r)
    <3>1. OnceDly(d.dly)
      BY <1>2, <2>6 DEF Fit, Delayed
    <3> QED BY <2>5, <2>6, <3>1, RmvDly
  <2>8. Written(d, u, d.run, d.rdy, r, d.st, d.wait)
    <3>1. Written(d, [d EXCEPT !.dly = r], d.run, d.rdy, r, d.st, d.wait)
      BY <2>6, <2>7, SetDly
    <3> QED BY <2>7, <3>1, Zenon
  <2>9. /\ u \in Kernels /\ u.run = s.run /\ u.dly = r /\ u.st = s.st
        /\ u.rdy = c.rdy /\ u.wait = c.wait /\ u.active = s.active \ {t} /\ u.prio = s.prio
        /\ u.live = s.live /\ u.tokens = s.tokens /\ u.mut = s.mut /\ u.mbx = s.mbx
        /\ u.events = s.events /\ u.waits = s.waits /\ u.psq = s.psq
    BY <2>6, <2>8 DEF Written, SameObjects
  <2>10. Leaves(s.dly, u.dly, t) /\ OnceDly(u.dly)
    BY <2>6, <2>7, <2>9 DEF Leaves
  <2>11. Fit(u, {}, u.run)
    <3>1. c.active = s.active /\ c.prio = s.prio
      BY <2>2 DEF SameObjects
    <3>2. \A x : InDly(u.dly, x) => InDly(c.dly, x) /\ x # t
      BY <2>2, <2>10, InDlyDue DEF Leaves
    <3>3. Fit(u, {}, s.run)
      BY <2>2, <2>3, <2>9, <2>10, <3>1, <3>2, GoneFit
    <3> QED BY <2>9, <3>3
  <2>12. Top(u)
    BY <1>2, <2>2, <2>9 DEF Top, Below
  <2>13. Wakeups(u, {})
    <3>2. \A o \in Objects : u.wait[o] # <<>> => s.wait[o] # <<>>
      <4> SUFFICES ASSUME NEW o \in Objects, u.wait[o] # <<>>
                   PROVE  s.wait[o] # <<>>
        OBVIOUS
      <4>1. u.wait[o] \in Seq(Tasks) /\ s.wait[o] \in Seq(Tasks)
        BY <1>2, <2>9, KernelTypes
      <4>2. PICK x : InSeq(u.wait[o], x)
        BY <4>1, EmptyList
      <4>3. InSeq(s.wait[o], x)
        BY <2>2, <2>9, <4>2
      <4> QED BY <4>1, <4>3, EmptyList
    <3> QED BY <1>2, <2>9, <3>2, ObjectNames DEF Wakeups
  <2>14. Kept(u)
    <3>1. \A m \in Mutexes : \A x : InSeq(u.wait[m], x) => InSeq(s.wait[m], x)
      BY <2>2, <2>9, ObjectNames
    <3> QED BY <1>2, <2>9, <3>1 DEF Kept
  <2>15. Timed(s, u, timeout)
    <3>1. ~ Waiting(s, s.run) /\ \A n : ~ Due(s.dly, s.run, n)
      BY <1>2, RunningTimeless
    <3>2. \A x : Waiting(u, x) => Waiting(s, x) /\ x # t
      BY <2>9 DEF Waiting
    <3> QED BY <2>10, <3>1, <3>2 DEF Timed, Leaves
  <2>16. s.mbx.count < MbxSize => ~ Sending(u)
    BY <2>9, <2>13, RoomNotSending
  <2> QED BY <2>9, <2>11, <2>12, <2>13, <2>14, <2>15, <2>16 DEF Serves, Sound
<1> QED BY <1>1, <1>3, <1>4

\* A thread is created.
LEMMA CreateServes ==
    ASSUME NEW s, Sound(s), s.run \in Tasks, NEW t \in Tasks, t \notin s.active, NEW p \in Nat,
           NEW timeout
    PROVE  Serves(s, rt_tsk_create(s, t, p), timeout)
<1>1. PICK u : u = rt_tsk_create(s, t, p)
  OBVIOUS
<1>2. PICK b : b = [s EXCEPT !.active = @ \cup {t}, !.prio[t] = p, !.events[t] = {}, !.waits[t] = {}]
  OBVIOUS
<1>3. u = rt_dispatch(b, t)
  BY <1>1, <1>2 DEF rt_tsk_create
<1>4. /\ s \in Kernels /\ Fit(s, {}, s.run) /\ Top(s) /\ Wakeups(s, {}) /\ Kept(s) /\ t \in TCBs
      /\ t # Idle /\ s.rdy \in Seq(TCBs) /\ s.active \in SUBSET Tasks /\ s.prio \in [TCBs -> Nat]
      /\ Sorted(s.rdy, s.prio) /\ s.wait \in [Objects -> Seq(Tasks)]
  BY TaskNames, KernelTypes DEF Sound, Fit
<1>5. /\ b \in Kernels /\ b.run = s.run /\ b.rdy = s.rdy /\ b.dly = s.dly /\ b.st = s.st
      /\ b.prio = [s.prio EXCEPT ![t] = p] /\ b.active = s.active \cup {t}
      /\ b.wait = s.wait /\ b.live = s.live /\ b.tokens = s.tokens /\ b.mut = s.mut
      /\ b.mbx = s.mbx /\ b.psq = s.psq
      /\ \A x \in TCBs : x # t => b.events[x] = s.events[x] /\ b.waits[x] = s.waits[x]
  BY <1>2, <1>4 DEF Kernels
<1>6. t \notin Alive(s) /\ Alive(b) = Alive(s) \cup {t} /\ t # s.run
  BY <1>4, <1>5, RunningTimeless DEF Alive
<1>7. ~ InSeq(s.rdy, t) /\ ~ InDly(s.dly, t) /\ \A o \in Objects : ~ InSeq(s.wait[o], t)
  BY <1>4, <1>6 DEF Fit, Chained, Delayed
<1>8. PICK old, new : old = s.prio /\ new = b.prio
  OBVIOUS
<1>9. \A x \in TCBs : x # t => new[x] = old[x]
  BY <1>4, <1>5, <1>8
<1>10. Fit(b, {t}, s.run)
  <2>1. Chained(b, {t}, s.run)
    <3>1. /\ Alive(b) \ {t} = Alive(s) \ {} /\ b.active \ {t} = s.active \ {}
          /\ (Idle \in {} \/ s.st[Idle] \in {"READY", "RUNNING"})
      BY <1>4, <1>5, <1>6 DEF Fit, Chained
    <3>2. Chained(s, {}, s.run)
      BY <1>4 DEF Fit
    <3> QED BY <1>5, <3>1, <3>2 DEF Chained
  <2>2. Delayed(b)
    BY <1>4, <1>5 DEF Fit, Delayed
  <2>3. Sorted(s.rdy, new)
    <3>1. Sorted(s.rdy, old)
      BY <1>4, <1>8
    <3>2. \A x \in TCBs : InSeq(s.rdy, x) => new[x] = old[x]
      BY <1>7, <1>9
    <3> QED BY <1>4, <3>1, <3>2, SameSorted
  <2>4. Sorted(b.rdy, b.prio)
    BY <1>5, <1>8, <2>3
  <2> QED BY <1>5, <2>1, <2>2, <2>4 DEF Fit
<1>11. Top(b)
  <2>1. s.run \in TCBs
    BY <1>4, KernelTypes
  <2>2. \A x \in TCBs : InSeq(s.rdy, x) => old[x] <= old[s.run] /\ x # t
    BY <1>4, <1>7, <1>8 DEF Top, Below
  <2>3. \A x \in TCBs : InSeq(s.rdy, x) => new[x] <= new[s.run]
    BY <1>6, <1>9, <2>1, <2>2
  <2> QED BY <1>5, <1>8, <2>3 DEF Top, Below
<1>12. Fit(b, {t}, b.run) /\ t \in {t} /\ t \in Alive(b) /\ ~ InDly(b.dly, t)
  BY <1>5, <1>6, <1>7, <1>10
<1>13. Fit(u, {t} \ {t}, u.run) /\ Top(u) /\ Eased(b, u) /\ u.st[t] \in {"READY", "RUNNING"}
  BY <1>3, <1>11, <1>12, DispatchFit
<1>14. Fit(u, {}, u.run)
  <2>1. {t} \ {t} = {}
    OBVIOUS
  <2> QED BY <1>13, <2>1
<1>15. Wakeups(b, {t})
  <2>1. \A x \in b.active \ {t} : /\ x \in s.active \ {} /\ b.st[x] = s.st[x]
                                  /\ b.waits[x] = s.waits[x] /\ b.events[x] = s.events[x]
    BY <1>4, <1>5, TaskNames
  <2>2. /\ b.wait = s.wait /\ b.tokens = s.tokens /\ b.live = s.live /\ b.mut = s.mut /\ b.mbx = s.mbx
    BY <1>5
  <2>3. \A x \in b.active \ {t} :
            /\ b.st[x] = "WAIT_AND" => ~(b.waits[x] \subseteq b.events[x])
            /\ b.st[x] = "WAIT_OR" => b.waits[x] \cap b.events[x] = {}
    BY <1>4, <2>1 DEF Wakeups
  <2> QED BY <1>4, <2>2, <2>3 DEF Wakeups
<1>16. Kept(b)
  BY <1>4, <1>5 DEF Kept
<1>17. TimedBut(s, b, {t}, timeout)
  <2>1. ~ Waiting(s, s.run) /\ \A n : ~ Due(s.dly, s.run, n)
    BY <1>4, RunningTimeless
  <2>2. \A x : x # t => (Waiting(b, x) <=> Waiting(s, x))
    BY <1>5 DEF Waiting
  <2> QED BY <1>5, <1>6, <2>1, <2>2 DEF TimedBut
<1>18. \A x \in {t} : u.st[x] \in {"READY", "RUNNING"}
  BY <1>13
<1> QED BY <1>1, <1>5, <1>13, <1>14, <1>15, <1>16, <1>17, <1>18, PartsServe

-----------------------------------------------------------------------------
(***************************************************************************)
(* Walks along a list.                                                     *)
(***************************************************************************)

\* What holds at the start and is kept by every step holds throughout.
LEMMA StepByStep ==
    ASSUME NEW n \in Nat, NEW A, 0 \in A, \A i \in 1 .. n : i - 1 \in A => i \in A
    PROVE  \A i \in 0 .. n : i \in A
<1> DEFINE T == {i \in 0 .. n : i \notin A}
<1> SUFFICES ASSUME T # {} PROVE FALSE
  OBVIOUS
<1>1. PICK m \in T : \A j \in T : m <= j
  <2>1. T \subseteq Nat
    OBVIOUS
  <2> HIDE DEF T
  <2> QED BY <2>1, LeastElement
<1>2. m \in 0 .. n /\ m \notin A /\ m # 0
  OBVIOUS
<1>3. m - 1 \in 0 .. n /\ m - 1 \notin T
  BY <1>1, <1>2
<1>4. m - 1 \in A /\ m \in 1 .. n
  BY <1>2, <1>3
<1> QED BY <1>2, <1>4

\* A thread is taken off the delay list and becomes ready.
LEMMA WakeStep ==
    ASSUME NEW c, NEW X, NEW r, Fit(c, X, r), NEW t \in X, t \in Alive(c),
           NEW u, u = MakeReady(rt_rmv_dly(c, t), t)
    PROVE  Fit(u, X \ {t}, r) /\ Eased(c, u) /\ u.wait = c.wait /\ u.run = c.run
<1>1. PICK a : a = rt_rmv_dly(c, t)
  OBVIOUS
<1>2. /\ Fit(a, X, r) /\ SameObjects(c, a) /\ a.run = c.run /\ a.st = c.st /\ a.wait = c.wait
      /\ ~ InDly(a.dly, t) /\ Leaves(c.dly, a.dly, t)
  BY <1>1, RmvDlyFit
<1>3. t \in Alive(a)
  BY <1>2 DEF SameObjects, Alive
<1>4. u = MakeReady(a, t)
  BY <1>1
<1>5. /\ Fit(u, X \ {t}, r) /\ Eased(a, u) /\ u.run = a.run /\ u.wait = a.wait
      /\ \A x : InSeq(u.rdy, x) <=> InSeq(a.rdy, x) \/ x = t
  BY <1>2, <1>3, <1>4, MakeReadyFit
<1>6. u.st[t] = "READY"
  <2>1. t \in TCBs /\ InSeq(u.rdy, t)
    BY <1>2, <1>3, <1>5, KernelTypes, TaskNames DEF Fit, Alive
  <2> QED BY <1>5, <2>1 DEF Fit, Chained
<1>7. Eased(c, u)
  BY <1>2, <1>5, <1>6 DEF Eased, Leaves, SameObjects
<1> QED BY <1>2, <1>5, <1>7

\* The states in which n threads of list q have been woken, one by one.
WakingUpTo(s, o, q, f, n) ==
    f = [i \in 0 .. n |-> IF i = 0 THEN [s EXCEPT !.wait[o] = <<>>]
                          ELSE MakeReady(rt_rmv_dly(f[i - 1], q[i]), q[i])]

\* There are such states.
LEMMA WakingExists ==
    ASSUME NEW s, NEW o, NEW q, NEW n \in Nat
    PROVE  \E f : WakingUpTo(s, o, q, f, n)
<1> DEFINE T == {m \in Nat : ~ \E g : WakingUpTo(s, o, q, g, m)}
<1> SUFFICES ASSUME n \in T PROVE FALSE
  OBVIOUS
<1>1. PICK m \in T : \A j \in T : m <= j
  <2>1. T \subseteq Nat /\ T # {}
    OBVIOUS
  <2> HIDE DEF T
  <2> QED BY <2>1, LeastElement
<1>2. m \in Nat /\ ~ \E g : WakingUpTo(s, o, q, g, m)
  OBVIOUS
<1>3. CASE m = 0
  <2> DEFINE g == [i \in 0 .. 0 |-> [s EXCEPT !.wait[o] = <<>>]]
  <2>1. WakingUpTo(s, o, q, g, 0)
    BY DEF WakingUpTo
  <2> QED BY <1>2, <1>3, <2>1
<1>4. CASE m # 0
  <2>1. m - 1 \in Nat /\ m - 1 \notin T
    BY <1>1, <1>2, <1>4
  <2>2. PICK g : WakingUpTo(s, o, q, g, m - 1)
    BY <2>1
  <2> DEFINE h == [i \in 0 .. m |-> IF i = m THEN MakeReady(rt_rmv_dly(g[m - 1], q[m]), q[m]) ELSE g[i]]
  <2>3. ASSUME NEW i \in 0 .. m
        PROVE  h[i] = IF i = 0 THEN [s EXCEPT !.wait[o] = <<>>]
                      ELSE MakeReady(rt_rmv_dly(h[i - 1], q[i]), q[i])
    <3>1. CASE i = m
      BY <1>2, <1>4, <3>1
    <3>2. CASE i # m
      <4>1. i \in 0 .. m - 1 /\ (i # 0 => i - 1 \in 0 .. m /\ i - 1 # m)
        BY <1>2, <3>2
      <4>2. g[i] = IF i = 0 THEN [s EXCEPT !.wait[o] = <<>>]
                   ELSE MakeReady(rt_rmv_dly(g[i - 1], q[i]), q[i])
        BY <2>2, <4>1 DEF WakingUpTo
      <4> QED BY <3>2, <4>1, <4>2
    <3> QED BY <3>1, <3>2
  <2>4. DOMAIN h = 0 .. m /\ h = [i \in 0 .. m |-> h[i]]
    OBVIOUS
  <2> HIDE DEF h
  <2>5. WakingUpTo(s, o, q, h, m)
    BY <2>3, <2>4 DEF WakingUpTo
  <2> QED BY <1>2, <2>5
<1> QED BY <1>3, <1>4

\* The states along the list of o that WakeAll passes.
Waking(s, o, q, f) ==
    /\ f[0] = [s EXCEPT !.wait[o] = <<>>]
    /\ \A i \in 1 .. Len(q) : f[i] = MakeReady(rt_rmv_dly(f[i - 1], q[i]), q[i])
    /\ WakeAll(s, o) = f[Len(q)]

\* WakeAll passes through them.
LEMMA WakeAllIs ==
    ASSUME NEW s, NEW o, NEW q, q = s.wait[o], Len(q) \in Nat
    PROVE  \E f : Waking(s, o, q, f)
<1> DEFINE N == Len(q)
           w == CHOOSE g : g = [i \in 0 .. N |->
                   IF i = 0 THEN [s EXCEPT !.wait[o] = <<>>]
                   ELSE MakeReady(rt_rmv_dly(g[i - 1], q[i]), q[i])]
<1>1. WakeAll(s, o) = w[N]
  BY DEF WakeAll
<1>2. WakingUpTo(s, o, q, w, N)
  <2>1. PICK f : WakingUpTo(s, o, q, f, N)
    BY WakingExists
  <2>2. w = CHOOSE g : WakingUpTo(s, o, q, g, N)
    BY DEF WakingUpTo
  <2> HIDE DEF w
  <2> QED BY <2>1, <2>2
<1> HIDE DEF w
<1>3. \A i \in 0 .. N : w[i] = IF i = 0 THEN [s EXCEPT !.wait[o] = <<>>]
                               ELSE MakeReady(rt_rmv_dly(w[i - 1], q[i]), q[i])
  BY <1>2 DEF WakingUpTo
<1>4. w[0] = [s EXCEPT !.wait[o] = <<>>]
      /\ \A i \in 1 .. N : w[i] = MakeReady(rt_rmv_dly(w[i - 1], q[i]), q[i])
  BY <1>3
<1> QED BY <1>1, <1>4 DEF Waking

\* The list of o is empty, and its threads are in X.
LEMMA ClearFit ==
    ASSUME NEW s, NEW r, Fit(s, {}, r), NEW o \in Objects, NEW X,
           \A t : t \in X <=> InSeq(s.wait[o], t), NEW u, u = [s EXCEPT !.wait[o] = <<>>]
    PROVE  Fit(u, X, r) /\ Eased(s, u) /\ u.wait[o] = <<>> /\ u.run = s.run
<1>1. s \in Kernels /\ s.wait \in [Objects -> Seq(Tasks)] /\ s.st \in [TCBs -> States]
  BY KernelTypes DEF Fit
<1>2. PICK w : w = [s.wait EXCEPT ![o] = <<>>]
  OBVIOUS
<1>3. Written(s, u, s.run, s.rdy, s.dly, s.st, w)
  <2>1. <<>> \in Seq(Tasks)
    OBVIOUS
  <2>2. Written(s, [s EXCEPT !.wait[o] = <<>>], s.run, s.rdy, s.dly, s.st, [s.wait EXCEPT ![o] = <<>>])
    BY <1>1, <2>1, SetWait
  <2> QED BY <1>2, <2>2, Zenon
<1>4. /\ u \in Kernels /\ SameObjects(s, u) /\ u.run = s.run /\ u.rdy = s.rdy /\ u.dly = s.dly
      /\ u.st = s.st /\ u.wait = w /\ u.active = s.active /\ u.prio = s.prio /\ Alive(u) = Alive(s)
  BY <1>3 DEF Written, SameObjects, Alive
<1>5. /\ w[o] = <<>> /\ (\A x : ~ InSeq(w[o], x)) /\ Once(w[o])
      /\ \A z \in Objects : z # o => w[z] = s.wait[z]
  <2>1. w[o] = <<>> /\ \A z \in Objects : z # o => w[z] = s.wait[z]
    BY <1>1, <1>2
  <2> QED BY <2>1 DEF InSeq, Once
<1>6. \A t \in X : t \in Tasks /\ s.st[t] \in InQueue /\ t \in s.active
  <2>1. \A t \in X : t \in Tasks
    BY <1>1, EmptyList
  <2> QED BY <2>1 DEF Fit, Chained
<1>7. Chained(u, X, r)
  <2>1. Chained(s, {}, r)
    BY DEF Fit
  <2>2. Once(u.rdy) /\ \A z \in Objects : Once(u.wait[z])
    BY <1>4, <1>5, <2>1 DEF Chained
  <2>3. \A t \in TCBs : InSeq(u.rdy, t) => t \in Alive(u) \ X /\ u.st[t] = "READY"
    BY <1>4, <1>6, <2>1, StateNames DEF Chained
  <2>4. \A z \in Objects, t \in Tasks : InSeq(u.wait[z], t) =>
           t \in u.active \ X /\ u.st[t] \in InQueue /\ z \in ListsOf(u.st[t])
    <3> SUFFICES ASSUME NEW z \in Objects, NEW t \in Tasks, InSeq(u.wait[z], t)
                 PROVE  t \in u.active \ X /\ u.st[t] \in InQueue /\ z \in ListsOf(u.st[t])
      OBVIOUS
    <3>1. z # o /\ InSeq(s.wait[z], t)
      BY <1>4, <1>5
    <3>2. ~ InSeq(s.wait[o], t)
      BY <2>1, <3>1 DEF Chained
    <3> QED BY <1>4, <2>1, <3>1, <3>2 DEF Chained
  <2>5. \A y, z \in Objects, t \in Tasks : InSeq(u.wait[y], t) /\ InSeq(u.wait[z], t) => y = z
    BY <1>4, <1>5, <2>1 DEF Chained
  <2>6. \A t \in Alive(u) \ X :
           /\ u.st[t] = "READY" => InSeq(u.rdy, t)
           /\ u.st[t] \in InQueue => \E z \in Objects : InSeq(u.wait[z], t)
           /\ u.st[t] # "INACTIVE" /\ (u.st[t] = "RUNNING" <=> t = r)
    <3> SUFFICES ASSUME NEW t \in Alive(u) \ X
                 PROVE  /\ u.st[t] = "READY" => InSeq(u.rdy, t)
                        /\ u.st[t] \in InQueue => \E z \in Objects : InSeq(u.wait[z], t)
                        /\ u.st[t] # "INACTIVE" /\ (u.st[t] = "RUNNING" <=> t = r)
      OBVIOUS
    <3>1. t \in Alive(s) \ {} /\ u.st[t] = s.st[t] /\ u.rdy = s.rdy /\ ~ InSeq(s.wait[o], t)
      BY <1>4
    <3>2. u.st[t] \in InQueue => \E z \in Objects : InSeq(u.wait[z], t)
      BY <1>4, <1>5, <2>1, <3>1 DEF Chained
    <3> QED BY <2>1, <3>1, <3>2 DEF Chained
  <2>7. Idle \in X \/ u.st[Idle] \in {"READY", "RUNNING"}
    BY <1>4, <2>1 DEF Chained
  <2>8. r \in (Alive(u) \ X) \cup {NoTask}
    <3>1. r \notin X
      BY <1>6, <2>1, StateNames, TaskNames, <1>1 DEF Chained, Alive
    <3> QED BY <1>4, <2>1, <3>1 DEF Chained
  <2> QED BY <2>2, <2>3, <2>4, <2>5, <2>6, <2>7, <2>8 DEF Chained
<1>8. Delayed(u) /\ Sorted(u.rdy, u.prio)
  BY <1>4 DEF Fit, Delayed
<1>9. Eased(s, u)
  <2>1. \A z \in Objects, t \in Tasks : InSeq(u.wait[z], t) => InSeq(s.wait[z], t)
    BY <1>4, <1>5
  <2> QED BY <1>4, <2>1 DEF Eased
<1> QED BY <1>4, <1>5, <1>7, <1>8, <1>9 DEF Fit

\* An object is deleted: nobody waits for it any more.
LEMMA WakeAllFit ==
    ASSUME NEW s, NEW r, Fit(s, {}, r), NEW o \in Objects, NEW u, u = WakeAll(s, o)
    PROVE  Fit(u, {}, r) /\ Eased(s, u) /\ u.wait[o] = <<>> /\ u.run = s.run
<1>1. PICK q, n : q = s.wait[o] /\ n = Len(s.wait[o])
  OBVIOUS
<1>2. q \in Seq(Tasks) /\ n \in Nat /\ n = Len(q) /\ DOMAIN q = 1 .. n /\ Once(q)
      /\ \A i \in 1 .. n : q[i] \in Tasks
  <2>1. s.wait \in [Objects -> Seq(Tasks)] /\ Once(s.wait[o])
    BY KernelTypes DEF Fit, Chained
  <2> QED BY <1>1, <2>1
<1>3. PICK f : /\ f[0] = [s EXCEPT !.wait[o] = <<>>]
               /\ \A i \in 1 .. n : f[i] = MakeReady(rt_rmv_dly(f[i - 1], q[i]), q[i])
               /\ u = f[n]
  <2>1. q = s.wait[o] /\ Len(q) \in Nat
    BY <1>1, <1>2
  <2>2. PICK f : Waking(s, o, q, f)
    BY <2>1, WakeAllIs
  <2>3. n = Len(q)
    BY <1>2
  <2> QED BY <2>2, <2>3 DEF Waking
<1>4. PICK Y : Y = [i \in 0 .. n |-> {q[j] : j \in i + 1 .. n}]
  OBVIOUS
<1>5. \A t : t \in Y[0] <=> InSeq(s.wait[o], t)
  BY <1>1, <1>2, <1>4 DEF InSeq
<1>6. \A i \in 1 .. n : q[i] \in Y[i - 1] /\ Y[i] = Y[i - 1] \ {q[i]}
  <2> SUFFICES ASSUME NEW i \in 1 .. n
               PROVE  q[i] \in Y[i - 1] /\ Y[i] = Y[i - 1] \ {q[i]}
    OBVIOUS
  <2>1. Y[i] = {q[j] : j \in i + 1 .. n} /\ Y[i - 1] = {q[j] : j \in i .. n}
    BY <1>2, <1>4
  <2>2. \A j \in i + 1 .. n : q[j] # q[i]
    BY <1>2 DEF Once
  <2>3. i .. n = {i} \cup (i + 1 .. n) /\ i \notin i + 1 .. n
    BY <1>2
  <2> QED BY <2>1, <2>2, <2>3
<1>7. Y[n] = {}
  BY <1>2, <1>4
<1>8. PICK A : A = {i \in 0 .. n : /\ Fit(f[i], Y[i], r) /\ Eased(s, f[i])
                                   /\ f[i].wait[o] = <<>> /\ f[i].run = s.run}
  OBVIOUS
<1>9. 0 \in A
  <2>1. /\ Fit(f[0], Y[0], r) /\ Eased(s, f[0]) /\ f[0].wait[o] = <<>> /\ f[0].run = s.run
    <3>1. PICK c, X : c = f[0] /\ X = Y[0]
      OBVIOUS
    <3>2. c = [s EXCEPT !.wait[o] = <<>>]
      BY <1>3, <3>1, Zenon
    <3>3. \A t : t \in X <=> InSeq(s.wait[o], t)
      BY <1>5, <3>1, Zenon
    <3>4. Fit(c, X, r) /\ Eased(s, c) /\ c.wait[o] = <<>> /\ c.run = s.run
      BY <3>2, <3>3, ClearFit
    <3> QED BY <3>1, <3>4, Zenon
  <2> QED BY <1>2, <1>8, <2>1
<1>10. ASSUME NEW i \in 1 .. n, i - 1 \in A
       PROVE  i \in A
  <2>1. PICK c, t, X : c = f[i - 1] /\ t = q[i] /\ X = Y[i - 1]
    OBVIOUS
  <2>2. Fit(c, X, r) /\ Eased(s, c) /\ c.wait[o] = <<>> /\ c.run = s.run
    BY <1>8, <1>10, <2>1
  <2>3. t \in X
    BY <1>6, <2>1
  <2>4. t \in Alive(c)
    <3>1. InSeq(s.wait[o], t) /\ t \in Tasks
      BY <1>1, <1>2, <2>1 DEF InSeq
    <3>2. t \in s.active
      BY <3>1 DEF Fit, Chained
    <3> QED BY <2>2, <3>2 DEF Eased, SameObjects, Alive
  <2>5. PICK v : v = f[i]
    OBVIOUS
  <2>6. v = MakeReady(rt_rmv_dly(c, t), t)
    BY <1>3, <2>1, <2>5
  <2>7. Fit(v, X \ {t}, r) /\ Eased(c, v) /\ v.wait = c.wait /\ v.run = c.run
    BY <2>2, <2>3, <2>4, <2>6, WakeStep
  <2>8. Eased(s, v)
    BY <2>2, <2>7, EasedTrans
  <2>9. X \ {t} = Y[i]
    BY <1>6, <2>1
  <2>10. Fit(v, Y[i], r)
    BY <2>7, <2>9
  <2>11. i \in 0 .. n
    BY <1>2
  <2> QED BY <1>8, <2>2, <2>5, <2>7, <2>8, <2>10, <2>11
<1>11. n \in A
  <2>1. \A i \in 0 .. n : i \in A
    BY <1>2, <1>9, <1>10, StepByStep
  <2> QED BY <1>2, <2>1
<1>12. Fit(f[n], Y[n], r) /\ Eased(s, f[n]) /\ f[n].wait[o] = <<>> /\ f[n].run = s.run
  BY <1>8, <1>11
<1> QED BY <1>3, <1>7, <1>12

-----------------------------------------------------------------------------
(***************************************************************************)
(* The calls that leave the timers and the mailbox alone.                  *)
(***************************************************************************)

\* The list of the timers is the same,
KeepsTimers(s, u) ==
    "tmr" \in DOMAIN s => "tmr" \in DOMAIN u /\ u.tmr = s.tmr

\* and the mailbox too.
Keeps(s, u) ==
    KeepsTimers(s, u) /\ ("mbx" \in DOMAIN s => "mbx" \in DOMAIN u /\ u.mbx = s.mbx)

\* Writing other parts of the kernel keeps it,
LEMMA SetsKeep ==
    ASSUME NEW s
    PROVE  /\ \A v : Keeps(s, [s EXCEPT !.rdy = v]) /\ Keeps(s, [s EXCEPT !.dly = v])
           /\ \A v : Keeps(s, [s EXCEPT !.wait = v]) /\ Keeps(s, [s EXCEPT !.active = v])
           /\ \A v, w : Keeps(s, [s EXCEPT !.rdy = v, !.st = w])
           /\ \A v, w : Keeps(s, [s EXCEPT !.rdy = v, !.wait = w])
           /\ \A v, w, x : Keeps(s, [s EXCEPT !.rdy = v, !.run = w, !.st = x])
  BY DEF Keeps, KeepsTimers

\* one after the other,
LEMMA KeepsTrans ==
    ASSUME NEW a, NEW b, NEW c, Keeps(a, b), Keeps(b, c)
    PROVE  Keeps(a, c)
  BY DEF Keeps, KeepsTimers

\* the steps of the scheduler do,
LEMMA ReadyKeeps ==
    ASSUME NEW s, NEW t
    PROVE  /\ Keeps(s, MakeReady(s, t)) /\ Keeps(s, rt_put_rdy_first(s, t))
           /\ Keeps(s, SwitchToFirst(s)) /\ Keeps(s, rt_rmv_list(s, t)) /\ Keeps(s, s)
           /\ Keeps(s, rt_rmv_dly(s, t)) /\ \A d : Keeps(s, rt_put_dly(s, t, d))
<1>1. Keeps(s, MakeReady(s, t))
  BY DEF Keeps, KeepsTimers, MakeReady
<1>2. Keeps(s, rt_put_rdy_first(s, t))
  BY DEF Keeps, KeepsTimers, rt_put_rdy_first
<1>3. Keeps(s, SwitchToFirst(s))
  BY DEF Keeps, KeepsTimers, SwitchToFirst
<1>4. Keeps(s, rt_rmv_list(s, t))
  BY DEF Keeps, KeepsTimers, rt_rmv_list
<1>5. Keeps(s, s)
  BY DEF Keeps, KeepsTimers
<1>6. Keeps(s, rt_rmv_dly(s, t))
  <2>1. \A v : Keeps(s, [s EXCEPT !.dly = v])
    BY SetsKeep
  <2>2. \E v : rt_rmv_dly(s, t) = s \/ rt_rmv_dly(s, t) = [s EXCEPT !.dly = v]
    BY Zenon DEF rt_rmv_dly
  <2> QED BY <1>5, <2>1, <2>2
<1>7. \A d : Keeps(s, rt_put_dly(s, t, d))
  <2>1. \A v : Keeps(s, [s EXCEPT !.dly = v])
    BY SetsKeep
  <2>2. \A d : \E v : rt_put_dly(s, t, d) = [s EXCEPT !.dly = v]
    BY Zenon DEF rt_put_dly
  <2> QED BY <2>1, <2>2, Zenon
<1> QED BY <1>1, <1>2, <1>3, <1>4, <1>5, <1>6, <1>7

\* and giving way to a thread of higher priority.
LEMMA YieldKeeps ==
    ASSUME NEW s
    PROVE  Keeps(s, YieldToHigher(s))
<1>1. PICK a : a = MakeReady(s, s.run)
  OBVIOUS
<1>2. Keeps(s, a) /\ Keeps(a, SwitchToFirst(a)) /\ Keeps(s, s)
  BY <1>1, ReadyKeeps
<1>3. YieldToHigher(s) = SwitchToFirst(a) \/ YieldToHigher(s) = s
  BY <1>1 DEF YieldToHigher
<1> QED BY <1>2, <1>3, KeepsTrans

\* Deleting an object keeps them.
LEMMA DropKeeps ==
    ASSUME NEW s, NEW r, Fit(s, {}, r), NEW o \in Objects,
           NEW u, u = [YieldToHigher(WakeAll(s, o)) EXCEPT !.live = @ \ {o}]
    PROVE  Keeps(s, u)
<1>1. PICK a, b : a = WakeAll(s, o) /\ b = YieldToHigher(a)
  OBVIOUS
<1>2. Keeps(s, a)
  <2>1. Fit(a, {}, r) /\ Eased(s, a)
    BY <1>1, WakeAllFit
  <2>2. a.tmr = s.tmr /\ "tmr" \in DOMAIN a /\ a.mbx = s.mbx /\ "mbx" \in DOMAIN a
    BY <2>1 DEF Eased, SameObjects, Fit, Kernels
  <2> QED BY <2>2 DEF Keeps, KeepsTimers
<1>3. Keeps(a, b)
  BY <1>1, YieldKeeps
<1>4. u = [b EXCEPT !.live = b.live \ {o}]
  BY <1>1
<1>5. Keeps(b, u)
  BY <1>4 DEF Keeps, KeepsTimers
<1> QED BY <1>2, <1>3, <1>5, KeepsTrans

\* Sorting a thread anew keeps them.
LEMMA ResortKeeps ==
    ASSUME NEW s, NEW t
    PROVE  Keeps(s, rt_resort_prio(s, t))
<1>1. PICK r : r = rt_rmv_list(s, t)
  OBVIOUS
<1>2. Keeps(s, r) /\ Keeps(s, s)
  BY <1>1, ReadyKeeps
<1>3. \A v : Keeps(r, [r EXCEPT !.wait = v]) /\ Keeps(r, [r EXCEPT !.rdy = v])
  BY SetsKeep
<1>4. \E v : \/ rt_resort_prio(s, t) = s \/ rt_resort_prio(s, t) = [r EXCEPT !.wait = v]
            \/ rt_resort_prio(s, t) = [r EXCEPT !.rdy = v]
  BY <1>1, Zenon DEF rt_resort_prio
<1> QED BY <1>2, <1>3, <1>4, KeepsTrans

\* An object for which nobody waits is deleted.
LEMMA LiveServes ==
    ASSUME NEW s, NEW y, NEW timeout, Serves(s, y, timeout), NEW o \in Objects, y.wait[o] = <<>>,
           NEW u, u = [y EXCEPT !.live = @ \ {o}]
    PROVE  Serves(s, u, timeout)
<1>1. y \in Kernels /\ Fit(y, {}, y.run) /\ Top(y) /\ Wakeups(y, {}) /\ Kept(y)
  BY DEF Serves, Sound, Fit
<1>2. /\ u \in Kernels /\ SameLists(y, u) /\ u.psq = y.psq /\ u.live = y.live \ {o}
      /\ u.tokens = y.tokens /\ u.mut = y.mut /\ u.mbx = y.mbx /\ u.events = y.events
      /\ u.waits = y.waits
  BY <1>1 DEF SameLists, Kernels
<1>3. Fit(u, {}, u.run) /\ Top(u)
  <2>1. Fit(u, {}, y.run) /\ (Top(y) => Top(u))
    BY <1>1, <1>2, ObjectsFit
  <2> QED BY <1>1, <1>2, <2>1 DEF SameLists
<1>4. Wakeups(u, {})
  BY <1>1, <1>2 DEF Wakeups, SameLists
<1>5. Kept(u)
  BY <1>1, <1>2 DEF Kept, SameLists
<1>6. Timed(s, u, timeout)
  <2>1. \A t : Waiting(u, t) <=> Waiting(y, t)
    BY <1>2 DEF Waiting, SameLists
  <2> QED BY <1>2, <2>1 DEF Serves, Timed, SameLists
<1>7. Sending(u) <=> Sending(y)
  BY <1>2 DEF Sending, SameLists
<1> QED BY <1>2, <1>3, <1>4, <1>5, <1>6, <1>7 DEF Serves, Sound

\* An object is deleted: those that wait for it become ready.
LEMMA DropServes ==
    ASSUME NEW s, Fit(s, {}, s.run), Wakeups(s, {}), Kept(s), s.run \in Tasks, NEW o \in Objects,
           NEW u, u = [YieldToHigher(WakeAll(s, o)) EXCEPT !.live = @ \ {o}], NEW timeout
    PROVE  Serves(s, u, timeout)
<1>1. PICK w : w = WakeAll(s, o)
  OBVIOUS
<1>2. PICK y : y = YieldToHigher(w)
  OBVIOUS
<1>3. Fit(w, {}, w.run) /\ Eased(s, w) /\ w.wait[o] = <<>>
  <2>1. Fit(w, {}, s.run) /\ Eased(s, w) /\ w.wait[o] = <<>> /\ w.run = s.run
    BY <1>1, WakeAllFit
  <2> QED BY <2>1
<1>4. Fit(y, {}, y.run) /\ Top(y) /\ Eased(w, y) /\ y.wait = w.wait
  BY <1>2, <1>3, YieldFit
<1>5. Eased(s, y)
  BY <1>3, <1>4, EasedTrans
<1>6. Serves(s, y, timeout)
  BY <1>4, <1>5, EasedFrom
<1>7. u = [y EXCEPT !.live = @ \ {o}] /\ y.wait[o] = <<>>
  BY <1>1, <1>2, <1>3, <1>4
<1> QED BY <1>6, <1>7, LiveServes

\* rt_sem_delete.
LEMMA SemDeleteServes ==
    ASSUME NEW s, Sound(s), s.run \in Tasks, NEW o \in Sems, NEW timeout
    PROVE  Serves(s, rt_sem_delete(s, o), timeout)
<1>1. PICK u : u = rt_sem_delete(s, o)
  OBVIOUS
<1>2. Fit(s, {}, s.run) /\ Wakeups(s, {}) /\ Kept(s) /\ o \in Objects
  BY ObjectNames DEF Sound
<1>3. u = [YieldToHigher(WakeAll(s, o)) EXCEPT !.live = @ \ {o}]
  BY <1>1 DEF rt_sem_delete
<1> QED BY <1>1, <1>2, <1>3, DropServes

(***************************************************************************)
(* Mutexes.                                                                *)
(***************************************************************************)

\* Whoever uses a mutex is never terminated.
LEMMA MutexUsers ==
    ASSUME uses \in Programs, NEW t \in Tasks, NEW m \in Mutexes, m \in uses[t]
    PROVE  t \in Lasting
<1>1. SUFFICES ASSUME t \in Mortal, NEW v \in Tasks, "end" \in uses[v] PROVE FALSE
  BY DEF Lasting
<1>2. uses[t] \cap Mutexes = {}
  BY <1>1, RtxAssumption
<1> QED BY <1>2

\* The types of the mutexes.
LEMMA MutTypes ==
    ASSUME NEW s \in Kernels, NEW m \in Mutexes
    PROVE  /\ s.mut \in [Mutexes -> Locks] /\ s.mut[m] \in Locks /\ s.mut[m].level \in Nat
           /\ s.mut[m].prio \in Nat /\ s.mut[m].owner \in Tasks \cup {NoTask}
           /\ s.prio \in [TCBs -> Nat] /\ s.run \in TCBs
<1>1. s.mut \in [Mutexes -> Locks] /\ s.prio \in [TCBs -> Nat] /\ s.run \in TCBs
  BY DEF Kernels
<1>2. s.mut[m] \in Locks
  BY <1>1
<1> QED BY <1>1, <1>2 DEF Locks

\* The mutex m changes to l.
Relocked(s, m, l, u) ==
    /\ u \in Kernels /\ SameLists(s, u) /\ u.psq = s.psq /\ u.live = s.live
    /\ u.mbx = s.mbx /\ u.events = s.events /\ u.waits = s.waits /\ u.tokens = s.tokens
    /\ u.mut[m] = l /\ \A x \in Mutexes : x # m => u.mut[x] = s.mut[x]

\* A mutex is written.
LEMMA SetLock ==
    ASSUME NEW s \in Kernels, NEW m \in Mutexes, NEW l \in Locks, NEW u, u = [s EXCEPT !.mut[m] = l]
    PROVE  Relocked(s, m, l, u)
  BY DEF SameLists, Kernels, Relocked

\* A mutex is written that is locked by a thread that lasts, or free and nobody waits.
LEMMA LockChange ==
    ASSUME NEW s \in Kernels, NEW m \in Mutexes, NEW l \in Locks, NEW u,
           u = [s EXCEPT !.mut[m] = l], s.wait[m] # <<>> => l.level > 0,
           l.level > 0 => l.owner \in Lasting
    PROVE  Changes(s, u)
<1>1. /\ u \in Kernels /\ SameLists(s, u) /\ u.psq = s.psq /\ u.live = s.live
      /\ u.mbx = s.mbx /\ u.events = s.events /\ u.waits = s.waits /\ u.tokens = s.tokens
      /\ u.mut[m] = l /\ \A x \in Mutexes : x # m => u.mut[x] = s.mut[x]
  <2>1. Relocked(s, m, l, u)
    BY SetLock
  <2> QED BY <2>1 DEF Relocked
<1>2. ASSUME Kept(s)
      PROVE  Kept(u)
  BY <1>1, <1>2 DEF Kept, SameLists
<1>3. ASSUME Wakeups(s, {})
      PROVE  Wakeups(u, {})
  <2>1. \A x \in Mutexes : u.wait[x] # <<>> => u.mut[x].level > 0 /\ x \in u.live
    BY <1>1, <1>3 DEF Wakeups, SameLists
  <2> QED BY <1>1, <1>3, <2>1 DEF Wakeups, SameLists
<1>4. Wakeups(s, {}) /\ s.mbx.count < MbxSize => ~ Sending(u)
  BY <1>1, <1>3, RoomNotSending
<1> QED BY <1>1, <1>2, <1>3, <1>4 DEF Changes

\* rt_mut_init.
LEMMA MutInitServes ==
    ASSUME NEW s, Sound(s), s.run \in Tasks, NEW m \in Mutexes, m \notin s.live, NEW timeout
    PROVE  Serves(s, rt_mut_init(s, m), timeout)
<1>1. PICK u : u = rt_mut_init(s, m)
  OBVIOUS
<1>2. s \in Kernels /\ Wakeups(s, {}) /\ m \in Objects
  BY ObjectNames DEF Sound, Fit
<1>3. s.wait[m] = <<>>
  BY <1>2 DEF Wakeups
<1>4. PICK l : l = [level |-> 0, owner |-> NoTask, prio |-> 0]
  OBVIOUS
<1>5. l \in Locks /\ l.level = 0
  BY <1>4 DEF Locks
<1>6. PICK a : a = [s EXCEPT !.mut[m] = l]
  OBVIOUS
<1>7. Changes(s, a)
  BY <1>2, <1>3, <1>5, <1>6, LockChange
<1>8. a \in Kernels /\ SameLists(s, a) /\ a.psq = s.psq /\ Wakeups(a, {}) /\ Kept(a)
  BY <1>2, <1>7 DEF Changes, Sound
<1>9. /\ u \in Kernels /\ SameLists(a, u) /\ u.psq = s.psq /\ a.live \subseteq u.live
      /\ u.tokens = a.tokens /\ u.mut = a.mut /\ u.mbx = s.mbx /\ u.events = a.events
      /\ u.waits = a.waits /\ a.mbx = s.mbx /\ u.psq = a.psq
  <2>1. u = [a EXCEPT !.live = @ \cup {m}]
    BY <1>1, <1>2, <1>4, <1>6 DEF rt_mut_init, Kernels
  <2> QED BY <1>2, <1>6, <1>8, <2>1, ZenonT(40) DEF SameLists, Kernels
<1>10. Wakeups(u, {})
  BY <1>8, <1>9 DEF Wakeups, SameLists
<1>11. Kept(u)
  BY <1>8, <1>9 DEF Kept, SameLists
<1>12. s.mbx.count < MbxSize => ~ Sending(u)
  BY <1>9, <1>10, RoomNotSending
<1>13. SameLists(s, u)
  BY <1>8, <1>9 DEF SameLists
<1> QED BY <1>1, <1>9, <1>10, <1>11, <1>12, <1>13, ObjectsServes

\* rt_mut_wait.
LEMMA MutWaitServes ==
    ASSUME NEW s, Sound(s), s.run \in Tasks, s.run \in Lasting, NEW m \in Mutexes, m \in s.live,
           NEW timeout \in Nat
    PROVE  Serves(s, rt_mut_wait(s, m, timeout), timeout)
<1>1. PICK u : u = rt_mut_wait(s, m, timeout)
  OBVIOUS
<1>2. /\ s \in Kernels /\ Fit(s, {}, s.run) /\ Top(s) /\ Wakeups(s, {}) /\ Kept(s)
      /\ m \in Objects /\ s.run \in TCBs
  BY ObjectNames, TaskNames DEF Sound, Fit
<1>3. /\ s.mut \in [Mutexes -> Locks] /\ s.mut[m] \in Locks /\ s.mut[m].level \in Nat
      /\ s.mut[m].prio \in Nat /\ s.mut[m].owner \in Tasks \cup {NoTask}
      /\ s.prio \in [TCBs -> Nat] /\ s.prio[s.run] \in Nat
  BY <1>2, MutTypes
<1>4. CASE s.mut[m].level = 0
  <2>1. PICK l : l = [level |-> 1, owner |-> s.run, prio |-> s.prio[s.run]]
    OBVIOUS
  <2>2. l \in Locks /\ l.level = 1 /\ l.owner = s.run
    BY <1>3, <2>1 DEF Locks
  <2>3. s.wait[m] = <<>>
    BY <1>2, <1>4 DEF Wakeups
  <2>4. u = [s EXCEPT !.mut[m] = l]
    <3>1. u = [s EXCEPT !.mut[m] = [level |-> 1, owner |-> s.run, prio |-> s.prio[s.run]]]
      BY <1>1, <1>3, <1>4 DEF rt_mut_wait, Owns
    <3> QED BY <2>1, <3>1, Zenon
  <2>5. Changes(s, u)
    BY <1>2, <2>2, <2>3, <2>4, LockChange
  <2> QED BY <1>1, <2>5, ChangesServes
<1>5. CASE Owns(s, s.run, m)
  <2>1. s.mut[m].level > 0 /\ s.mut[m].owner = s.run
    BY <1>5 DEF Owns
  <2>2. PICK l : l = [s.mut[m] EXCEPT !.level = @ + 1]
    OBVIOUS
  <2>3. l \in Locks /\ l.level > 0 /\ l.owner = s.run
    BY <1>3, <2>1, <2>2 DEF Locks
  <2>4. u = [s EXCEPT !.mut[m] = l]
    <3>1. u = [s EXCEPT !.mut[m].level = @ + 1]
      BY <1>1, <1>3, <1>5, <2>1 DEF rt_mut_wait
    <3> QED BY <2>2, <3>1
  <2>5. Changes(s, u)
    BY <1>2, <2>3, <2>4, LockChange
  <2> QED BY <1>1, <2>5, ChangesServes
<1>6. CASE ~ Owns(s, s.run, m) /\ s.mut[m].level > 0 /\ timeout = 0
  <2>1. u = s
    BY <1>1, <1>3, <1>6 DEF rt_mut_wait
  <2> QED BY <1>1, <2>1, SameServes
<1>7. ASSUME ~ Owns(s, s.run, m), s.mut[m].level > 0, timeout # 0
      PROVE  Serves(s, u, timeout)
  <2>1. PICK o, p : o = s.mut[m].owner /\ p = s.prio[s.run]
    OBVIOUS
  <2>2. o \in Lasting /\ o \in Tasks /\ o \in s.active /\ o # s.run /\ o \in TCBs /\ p \in Nat
    BY <1>2, <1>3, <1>7, <2>1, TaskNames DEF Kept, Lasting, Owns
  <2>3. PICK k0 : k0 = [s EXCEPT !.prio[o] = p]
    OBVIOUS
  <2>4. PICK raised : raised = IF s.mut[m].prio < s.prio[s.run] THEN rt_resort_prio(k0, o) ELSE s
    OBVIOUS
  <2>5. u = BlockOn(raised, m, timeout, "WAIT_MUT")
    BY <1>1, <1>3, <1>7, <2>1, <2>3, <2>4 DEF rt_mut_wait
  <2>6. "WAIT_MUT" \in InQueue /\ m \in ListsOf("WAIT_MUT")
    BY DEF InQueue, ListsOf
  <2>7. Awaited(s, m)
    BY <1>2, <1>7, ObjectNames DEF Awaited
  <2>8. CASE ~(s.mut[m].prio < s.prio[s.run])
    <3>1. raised = s
      BY <2>4, <2>8
    <3>2. u = BlockOn(s, m, timeout, "WAIT_MUT")
      BY <2>5, <3>1
    <3> QED BY <1>2, <1>7, <2>6, <2>7, <3>2, BlockOnServes
  <2>9. CASE s.mut[m].prio < s.prio[s.run]
    <3>1. raised = rt_resort_prio(k0, o)
      BY <2>4, <2>9
    <3>2. Repriced(s, k0, o, p)
      BY <1>2, <2>2, <2>3, SetPrio
    <3>3. Resorted(s, raised, o, p)
      BY <1>2, <2>2, <3>1, <3>2, ResortFit
    <3>4. /\ raised.run = s.run /\ raised.live = s.live /\ raised.mut = s.mut
          /\ \A x : InSeq(raised.rdy, x) <=> InSeq(s.rdy, x)
      BY <3>3 DEF Resorted, SameMembers, SameItems
    <3>5. Fit(raised, {}, raised.run) /\ Wakeups(raised, {}) /\ Kept(raised)
      BY <1>2, <3>3, <3>4, ResortedFit, ResortedObjects
    <3>6. Top(raised)
      <4>1. PICK old, new : old = s.prio /\ new = raised.prio
        OBVIOUS
      <4>2. new = [old EXCEPT ![o] = p] /\ old \in [TCBs -> Nat] /\ p = old[s.run]
        BY <1>3, <2>1, <3>3, <4>1 DEF Resorted
      <4>3. \A x \in TCBs : InSeq(s.rdy, x) => old[x] <= old[s.run]
        BY <1>2, <4>1 DEF Top, Below
      <4>4. new[s.run] = p /\ \A x \in TCBs : InSeq(s.rdy, x) => new[x] <= p
        BY <1>2, <2>2, <4>2, <4>3
      <4> QED BY <3>4, <4>1, <4>4 DEF Top, Below
    <3>7. Sound(raised) /\ raised.run \in Tasks /\ m \in Objects
      BY <1>2, <3>4, <3>5, <3>6 DEF Sound
    <3>8. Awaited(raised, m)
      BY <1>2, <1>7, <3>4, ObjectNames DEF Awaited
    <3>9. Serves(raised, u, timeout)
      BY <1>7, <2>5, <2>6, <3>7, <3>8, BlockOnServes
    <3> QED BY <3>3, <3>9, ResortedThrough
  <2> QED BY <2>8, <2>9
<1> QED BY <1>1, <1>3, <1>4, <1>5, <1>6, <1>7

\* rt_mut_delete.
LEMMA MutDeleteServes ==
    ASSUME NEW s, Sound(s), s.run \in Tasks, NEW m \in Mutexes, NEW timeout
    PROVE  Serves(s, rt_mut_delete(s, m), timeout) /\ Keeps(s, rt_mut_delete(s, m))
<1>1. PICK u : u = rt_mut_delete(s, m)
  OBVIOUS
<1>2. /\ s \in Kernels /\ Fit(s, {}, s.run) /\ Wakeups(s, {}) /\ Kept(s) /\ m \in Objects
      /\ s.run # NoTask
  BY ObjectNames, TaskNames DEF Sound, Fit
<1>3. s.mut[m].level \in Nat /\ s.mut[m].prio \in Nat
  BY <1>2, MutTypes
<1>4. PICK o, p : o = s.mut[m].owner /\ p = s.mut[m].prio
  OBVIOUS
<1>5. PICK r : r = [s EXCEPT !.prio[o] = p]
  OBVIOUS
<1>6. PICK a : a = CASE s.mut[m].level = 0 -> s
                     [] s.mut[m].level > 0 /\ o = s.run -> r
                     [] OTHER -> rt_resort_prio(r, o)
  OBVIOUS
<1>7. u = [YieldToHigher(WakeAll(a, m)) EXCEPT !.live = @ \ {m}]
  <2>1. a = CASE s.mut[m].level = 0 -> s
              [] s.mut[m].level > 0 /\ s.mut[m].owner = s.run ->
                    [s EXCEPT !.prio[s.mut[m].owner] = s.mut[m].prio]
              [] OTHER -> rt_resort_prio([s EXCEPT !.prio[s.mut[m].owner] = s.mut[m].prio],
                                         s.mut[m].owner)
    BY <1>4, <1>5, <1>6, Zenon
  <2> QED BY <1>1, <2>1, Zenon DEF rt_mut_delete
<1>8. CASE s.mut[m].level = 0
  <2>1. a = s
    BY <1>6, <1>8
  <2>2. u = [YieldToHigher(WakeAll(s, m)) EXCEPT !.live = @ \ {m}]
    BY <1>7, <2>1
  <2>3. Serves(s, u, timeout)
    BY <1>2, <2>2, DropServes
  <2>4. Keeps(s, u)
    BY <1>2, <2>2, DropKeeps
  <2> QED BY <1>1, <2>3, <2>4
<1>9. ASSUME s.mut[m].level > 0
      PROVE  Serves(s, u, timeout) /\ Keeps(s, u)
  <2>1. o \in Lasting /\ o \in Tasks /\ o \in s.active /\ o \in TCBs /\ p \in Nat
    BY <1>2, <1>3, <1>4, <1>9, TaskNames DEF Kept, Lasting
  <2>2. Repriced(s, r, o, p)
    BY <1>2, <1>5, <2>1, SetPrio
  <2>3. Resorted(s, a, o, p)
    <3>1. CASE o = s.run
      <4>1. a = r
        BY <1>3, <1>6, <1>9, <3>1
      <4> QED BY <1>2, <2>1, <2>2, <3>1, <4>1, RepricedRunning
    <3>2. CASE o # s.run
      <4>1. a = rt_resort_prio(r, o)
        BY <1>3, <1>6, <1>9, <3>2
      <4> QED BY <1>2, <2>1, <2>2, <4>1, ResortFit
    <3> QED BY <3>1, <3>2
  <2>4. a.run = s.run
    BY <2>3 DEF Resorted, SameMembers
  <2>5. Fit(a, {}, a.run) /\ Wakeups(a, {}) /\ Kept(a)
    BY <1>2, <2>3, <2>4, ResortedFit, ResortedObjects
  <2>6. Serves(a, u, timeout)
    BY <1>2, <1>7, <2>4, <2>5, DropServes
  <2>7. Keeps(a, u)
    BY <1>2, <1>7, <2>5, DropKeeps
  <2>8. Keeps(s, r) /\ Keeps(r, rt_resort_prio(r, o)) /\ Keeps(s, s)
    <3>1. Keeps(s, r)
      BY <1>5 DEF Keeps, KeepsTimers
    <3> QED BY <3>1, ResortKeeps, ReadyKeeps
  <2>9. a = s \/ a = r \/ a = rt_resort_prio(r, o)
    BY <1>6
  <2>10. Keeps(s, u)
    BY <2>7, <2>8, <2>9, KeepsTrans
  <2>11. Serves(s, u, timeout)
    BY <2>3, <2>6, ResortedThrough
  <2> QED BY <2>10, <2>11
<1> QED BY <1>1, <1>3, <1>8, <1>9

\* The mutex passes to the first thread that waits for it.
Passed(s, r, t, g, timeout) ==
    /\ Fit(g, {t}, s.run) /\ g.run = s.run /\ g.rdy = s.rdy /\ g.prio = r.prio
    /\ TimedBut(r, g, {t}, timeout) /\ Wakeups(g, {t}) /\ Kept(g) /\ g.psq = s.psq /\ g.mbx = s.mbx
    /\ g \in Kernels /\ t \in Alive(g) /\ ~ InDly(g.dly, t) /\ t # s.run /\ t \in TCBs

\* A mutex goes to the first thread that waits for it.
LEMMA PassedOn ==
    ASSUME NEW s, Sound(s), s.run \in Tasks, NEW m \in Mutexes, s.wait[m] # <<>>,
           NEW r, Resorted(s, r, s.run, s.mut[m].prio), r.wait = s.wait, r.rdy = s.rdy,
           NEW t, t = rt_get_first(r, m), NEW p \in Nat, NEW l,
           l = [level |-> 1, owner |-> t, prio |-> p],
           NEW g, g = [Unchain(r, m) EXCEPT !.mut[m] = l], NEW timeout
    PROVE  Passed(s, r, t, g, timeout)
<1>1. /\ s \in Kernels /\ Fit(s, {}, s.run) /\ Wakeups(s, {}) /\ Kept(s) /\ m \in Objects
      /\ r.run = s.run /\ r.mut = s.mut
  BY ObjectNames DEF Sound, Fit, Resorted, SameMembers, SameItems
<1>2. Fit(r, {}, r.run) /\ Wakeups(r, {}) /\ Kept(r) /\ r.wait[m] # <<>> /\ r.psq = s.psq
      /\ r.mbx = s.mbx
  <2>1. Fit(r, {}, s.run)
    BY <1>1, ResortedFit
  <2>2. Wakeups(r, {}) /\ Kept(r)
    BY <1>1, ResortedObjects
  <2> QED BY <1>1, <2>1, <2>2 DEF Resorted, SameItems
<1>3. PICK a : a = Unchain(r, m)
  OBVIOUS
<1>4. Unchained(r, {}, r.run, m, t, a)
  BY <1>1, <1>2, <1>3, UnchainFit
<1>5. /\ Fit(a, {t}, s.run) /\ a \in Kernels /\ SameObjects(r, a) /\ a.run = s.run /\ a.rdy = s.rdy
      /\ a.st = r.st /\ ~ InDly(a.dly, t) /\ Leaves(r.dly, a.dly, t)
      /\ a.wait = [r.wait EXCEPT ![m] = Tail(r.wait[m])]
      /\ t \in r.active /\ t \in Tasks /\ t # s.run /\ InSeq(r.wait[m], t)
  <2>1. {} \cup {t} = {t}
    OBVIOUS
  <2> QED BY <1>1, <1>4, <2>1 DEF Unchained, Fit
<1>6. t \in Lasting /\ t \in TCBs
  BY <1>2, <1>5, TaskNames DEF Kept
<1>7. l \in Locks /\ l.level = 1 /\ l.owner = t
  BY <1>5 DEF Locks
<1>8. /\ g \in Kernels /\ SameLists(a, g) /\ g.psq = a.psq /\ g.live = a.live
      /\ g.mbx = a.mbx /\ g.events = a.events /\ g.waits = a.waits /\ g.tokens = a.tokens
      /\ g.mut[m] = l /\ \A x \in Mutexes : x # m => g.mut[x] = a.mut[x]
  <2>1. g = [a EXCEPT !.mut[m] = l]
    BY <1>3
  <2>2. a \in Kernels /\ l \in Locks
    BY <1>5, <1>7
  <2>3. Relocked(a, m, l, g)
    BY <2>1, <2>2, SetLock
  <2> QED BY <2>3 DEF Relocked
<1>9. Fit(g, {t}, s.run)
  BY <1>5, <1>8, ObjectsFit
<1>10. /\ g.run = s.run /\ g.rdy = s.rdy /\ g.prio = r.prio /\ g.psq = s.psq /\ g.mbx = s.mbx
       /\ g.st = r.st /\ g.active = r.active /\ Leaves(r.dly, g.dly, t) /\ ~ InDly(g.dly, t)
       /\ g.live = r.live /\ g.tokens = r.tokens /\ g.events = r.events /\ g.waits = r.waits
       /\ g.wait = [r.wait EXCEPT ![m] = Tail(r.wait[m])]
       /\ \A x \in Mutexes : x # m => g.mut[x] = r.mut[x]
  BY <1>2, <1>5, <1>8 DEF SameLists, SameObjects
<1>11. r.wait \in [Objects -> Seq(Tasks)] /\ r.wait[m] \in Seq(Tasks)
  BY <1>1, <1>2, KernelTypes DEF Fit
<1>12. \A o \in Objects : o # m => g.wait[o] = r.wait[o]
  BY <1>10, <1>11
<1>13. Wakeups(g, {t})
  <2>1. \A o \in Sems : o # m /\ o \in Objects
    BY ObjectNames
  <2>2. \A o \in Sems : g.wait[o] # <<>> => g.tokens[o] = 0 /\ o \in g.live
    BY <1>2, <1>10, <1>12, <2>1 DEF Wakeups
  <2>3. \A x \in Mutexes : g.wait[x] # <<>> => g.mut[x].level > 0 /\ x \in g.live
    <3> SUFFICES ASSUME NEW x \in Mutexes, g.wait[x] # <<>>
                 PROVE  g.mut[x].level > 0 /\ x \in g.live
      OBVIOUS
    <3>1. CASE x = m
      BY <1>2, <1>7, <1>8, <1>10, <3>1 DEF Wakeups
    <3>2. CASE x # m
      BY <1>2, <1>10, <1>12, <3>2, ObjectNames DEF Wakeups
    <3> QED BY <3>1, <3>2
  <2>4. Queue # m /\ Queue \in Objects
    BY ObjectNames
  <2>5. g.wait[Queue] # <<>> =>
           \/ g.mbx.state = 1 /\ g.mbx.count = 0
           \/ g.mbx.state = 2 /\ g.mbx.count = MbxSize
    BY <1>2, <1>10, <1>12, <2>4 DEF Wakeups
  <2>6. \A x \in g.active \ {t} :
           /\ g.st[x] = "WAIT_AND" => ~(g.waits[x] \subseteq g.events[x])
           /\ g.st[x] = "WAIT_OR" => g.waits[x] \cap g.events[x] = {}
    BY <1>2, <1>10 DEF Wakeups
  <2> QED BY <2>2, <2>3, <2>5, <2>6 DEF Wakeups
<1>14. Kept(g)
  <2>1. Lasting \subseteq g.active
    BY <1>2, <1>10 DEF Kept
  <2>2. \A x \in Mutexes : g.mut[x].level > 0 => g.mut[x].owner \in Lasting
    BY <1>2, <1>6, <1>7, <1>8, <1>10 DEF Kept
  <2>3. \A y : InSeq(Tail(r.wait[m]), y) => InSeq(r.wait[m], y)
    BY <1>2, <1>11, HeadTail
  <2>4. \A x \in Mutexes, y \in Tasks : InSeq(g.wait[x], y) => InSeq(r.wait[x], y)
    <3> SUFFICES ASSUME NEW x \in Mutexes, NEW y \in Tasks, InSeq(g.wait[x], y)
                 PROVE  InSeq(r.wait[x], y)
      OBVIOUS
    <3>1. CASE x = m
      <4>1. g.wait[m] = Tail(r.wait[m])
        <5>1. g.wait = [r.wait EXCEPT ![m] = Tail(r.wait[m])] /\ m \in DOMAIN r.wait
          BY <1>1, <1>10, <1>11
        <5> QED BY <5>1, Zenon
      <4> QED BY <2>3, <3>1, <4>1
    <3>2. CASE x # m
      BY <1>12, <3>2, ObjectNames
    <3> QED BY <3>1, <3>2
  <2>5. \A x \in Mutexes, y \in Tasks : InSeq(g.wait[x], y) => y \in Lasting
    BY <1>2, <2>4 DEF Kept
  <2>6. \A i \in DOMAIN g.psq : g.psq[i].id \in Tasks => g.psq[i].id \in Lasting
    BY <1>1, <1>10 DEF Kept
  <2> QED BY <2>1, <2>2, <2>5, <2>6 DEF Kept
<1>15. TimedBut(r, g, {t}, timeout)
  BY <1>2, <1>10, LeftTimes
<1>16. t \in Alive(g)
  BY <1>5, <1>10 DEF Alive
<1> QED BY <1>5, <1>6, <1>8, <1>9, <1>10, <1>13, <1>14, <1>15, <1>16 DEF Passed

\* rt_mut_release.
LEMMA MutReleaseServes ==
    ASSUME NEW s, Sound(s), s.run \in Tasks, NEW m \in Mutexes, NEW timeout
    PROVE  Serves(s, rt_mut_release(s, m), timeout)
<1>1. PICK u : u = rt_mut_release(s, m)
  OBVIOUS
<1>2. /\ s \in Kernels /\ Fit(s, {}, s.run) /\ Top(s) /\ Wakeups(s, {}) /\ Kept(s) /\ m \in Objects
      /\ s.run # NoTask /\ s.run \in TCBs /\ s.run # Idle
  BY ObjectNames, TaskNames DEF Sound, Fit
<1>3. s.mut[m] \in Locks /\ s.mut[m].level \in Nat /\ s.mut[m].prio \in Nat /\ s.prio \in [TCBs -> Nat]
  BY <1>2, MutTypes
<1>4. CASE ~ Owns(s, s.run, m)
  <2>1. u = s
    BY <1>1, <1>4 DEF rt_mut_release
  <2> QED BY <1>1, <2>1, SameServes
<1>5. CASE Owns(s, s.run, m) /\ s.mut[m].level > 1
  <2>1. s.mut[m].level > 0 /\ s.mut[m].owner = s.run /\ s.run \in Lasting
    BY <1>2, <1>5 DEF Owns, Kept
  <2>2. PICK l : l = [s.mut[m] EXCEPT !.level = @ - 1]
    OBVIOUS
  <2>3. l \in Locks /\ l.level > 0 /\ l.owner = s.run
    BY <1>3, <1>5, <2>1, <2>2 DEF Locks
  <2>4. u = [s EXCEPT !.mut[m] = l]
    <3>1. u = [s EXCEPT !.mut[m].level = @ - 1]
      BY <1>1, <1>3, <1>5 DEF rt_mut_release
    <3> QED BY <2>2, <3>1
  <2>5. Changes(s, u)
    BY <1>2, <2>1, <2>3, <2>4, LockChange
  <2> QED BY <1>1, <2>5, ChangesServes
<1>6. ASSUME Owns(s, s.run, m), s.mut[m].level = 1
      PROVE  Serves(s, u, timeout)
  <2>1. PICK r, p : r = [s EXCEPT !.prio[s.run] = s.mut[m].prio] /\ p = s.mut[m].prio
    OBVIOUS
  <2>2. Repriced(s, r, s.run, p)
    BY <1>2, <1>3, <2>1, SetPrio
  <2>3. Resorted(s, r, s.run, p) /\ r.wait = s.wait /\ r.rdy = s.rdy /\ r.run = s.run
    BY <1>2, <2>2, RepricedRunning DEF Repriced
  <2>4. /\ Fit(r, {}, r.run) /\ Wakeups(r, {}) /\ Kept(r) /\ r.mut = s.mut /\ r \in Kernels
    <3>1. Fit(r, {}, s.run)
      BY <1>2, <2>3, ResortedFit
    <3>2. Wakeups(r, {}) /\ Kept(r)
      BY <1>2, <2>3, ResortedObjects
    <3> QED BY <2>3, <3>1, <3>2 DEF Resorted, SameItems
  <2>5. CASE s.wait[m] = <<>>
    <3>1. PICK l : l = [s.mut[m] EXCEPT !.level = 0]
      OBVIOUS
    <3>2. l \in Locks /\ l.level = 0
      BY <1>3, <3>1 DEF Locks
    <3>3. PICK a : a = [r EXCEPT !.mut[m] = l]
      OBVIOUS
    <3>4. u = YieldToHigher(a)
      <4>1. u = YieldToHigher([r EXCEPT !.mut[m].level = 0])
        BY <1>1, <1>3, <1>6, <2>1, <2>5 DEF rt_mut_release
      <4>2. [r EXCEPT !.mut[m].level = 0] = a
        BY <2>4, <3>1, <3>3
      <4> QED BY <4>1, <4>2
    <3>5. Changes(r, a)
      BY <2>3, <2>4, <2>5, <3>2, <3>3, LockChange
    <3>6. a \in Kernels /\ SameLists(r, a) /\ a.psq = r.psq /\ Wakeups(a, {}) /\ Kept(a)
      BY <2>4, <3>5 DEF Changes
    <3>7. Fit(a, {}, a.run) /\ a.run = s.run
      <4>1. Fit(a, {}, r.run)
        BY <2>4, <3>6, ObjectsFit
      <4> QED BY <2>3, <3>6, <4>1 DEF SameLists
    <3>8. Fit(u, {}, u.run) /\ Top(u) /\ Eased(a, u)
      BY <3>4, <3>7, YieldFit
    <3>9. Serves(a, u, timeout)
      BY <3>6, <3>7, <3>8, EasedFrom
    <3>10. Serves(r, u, timeout)
      <4>1. a.mbx = r.mbx
        BY <2>4, <3>3 DEF Kernels
      <4> QED BY <3>6, <3>9, <4>1, ServesAfter
    <3> QED BY <2>3, <3>10, ResortedThrough
  <2>6. CASE s.wait[m] # <<>>
    <3>1. PICK t : t = rt_get_first(s, m)
      OBVIOUS
    <3>2. PICK pt, l : pt = s.prio[t] /\ l = [level |-> 1, owner |-> t, prio |-> pt]
      OBVIOUS
    <3>3. PICK g : g = [Unchain(r, m) EXCEPT !.mut[m] = l]
      OBVIOUS
    <3>4. t = rt_get_first(r, m)
      BY <2>3, <3>1 DEF rt_get_first
    <3>5. pt \in Nat
      <4>1. s.wait[m] \in Seq(Tasks)
        BY <1>2, KernelTypes
      <4>2. t \in Tasks
        BY <2>6, <3>1, <4>1, HeadTail DEF rt_get_first
      <4> QED BY <1>3, <3>2, <4>2, TaskNames
    <3>6. /\ Fit(g, {t}, s.run) /\ g.run = s.run /\ g.rdy = s.rdy /\ g.prio = r.prio
          /\ TimedBut(r, g, {t}, timeout) /\ Wakeups(g, {t}) /\ Kept(g) /\ g.psq = s.psq
          /\ g.mbx = s.mbx /\ g \in Kernels /\ t \in Alive(g) /\ ~ InDly(g.dly, t) /\ t # s.run
          /\ t \in TCBs
      <4>1. Resorted(s, r, s.run, s.mut[m].prio)
        BY <2>1, <2>3
      <4>2. l = [level |-> 1, owner |-> t, prio |-> pt]
        BY <3>2
      <4>3. r.wait = s.wait /\ r.rdy = s.rdy
        BY <2>3
      <4>4. Passed(s, r, t, g, timeout)
        BY <2>6, <3>3, <3>4, <3>5, <4>1, <4>2, <4>3, PassedOn
      <4> QED BY <4>4 DEF Passed
    <3>7. g.psq = r.psq /\ g.mbx = r.mbx
      BY <2>3, <3>6 DEF Resorted, SameItems
    <3>8. s.rdy # <<>>
      BY <1>2, SomeReadyToo
    <3>9. u = IF r.prio[s.run] >= rt_rdy_prio(r) THEN rt_dispatch(g, t)
              ELSE SwitchToFirst(MakeReady(MakeReady(g, s.run), t))
      <4>1. g = [Unchain(r, m) EXCEPT !.mut[m] = [level |-> 1, owner |-> t, prio |-> s.prio[t]]]
        BY <3>2, <3>3, Zenon
      <4>2. u = CASE ~ Owns(s, s.run, m) -> s
                  [] Owns(s, s.run, m) /\ s.mut[m].level > 1 -> [s EXCEPT !.mut[m].level = @ - 1]
                  [] Owns(s, s.run, m) /\ s.mut[m].level = 1 /\ s.wait[m] = <<>> ->
                        YieldToHigher([r EXCEPT !.mut[m].level = 0])
                  [] OTHER -> IF r.prio[s.run] >= rt_rdy_prio(r) THEN rt_dispatch(g, t)
                              ELSE SwitchToFirst(MakeReady(MakeReady(g, s.run), t))
        BY <1>1, <2>1, <3>1, <4>1, Zenon DEF rt_mut_release
      <4> QED BY <1>6, <2>6, <4>2
    <3>10. CASE r.prio[s.run] >= rt_rdy_prio(r)
      <4>1. u = rt_dispatch(g, t)
        BY <3>9, <3>10
      <4>2. Top(g)
        <5>1. PICK new, h : new = r.prio /\ h = Head(r.rdy)
          OBVIOUS
        <5>2. new \in [TCBs -> Nat] /\ r.rdy \in Seq(TCBs) /\ Sorted(r.rdy, new)
          BY <2>4, <5>1, KernelTypes DEF Fit
        <5>3. Below(r.rdy, new, new[h]) /\ h \in TCBs
          BY <2>3, <3>8, <5>1, <5>2, HeadHighest, HeadTail
        <5>4. new[s.run] >= new[h]
          BY <3>10, <5>1 DEF rt_rdy_prio
        <5>5. \A x \in TCBs : InSeq(r.rdy, x) => new[x] <= new[s.run]
          <6> SUFFICES ASSUME NEW x \in TCBs, InSeq(r.rdy, x)
                       PROVE  new[x] <= new[s.run]
            OBVIOUS
          <6>1. new[x] <= new[h]
            BY <5>3 DEF Below
          <6>2. new[x] \in Nat /\ new[h] \in Nat /\ new[s.run] \in Nat
            BY <1>2, <5>2, <5>3
          <6> QED BY <5>4, <6>1, <6>2
        <5> QED BY <2>3, <3>6, <5>1, <5>5 DEF Top, Below
      <4>3. Fit(g, {t}, g.run) /\ t \in {t}
        BY <3>6
      <4>4. Fit(u, {t} \ {t}, u.run) /\ Top(u) /\ Eased(g, u) /\ u.st[t] \in {"READY", "RUNNING"}
        BY <3>6, <4>1, <4>2, <4>3, DispatchFit
      <4>5. Fit(u, {}, u.run) /\ \A x \in {t} : u.st[x] \in {"READY", "RUNNING"}
        <5>1. {t} \ {t} = {}
          OBVIOUS
        <5> QED BY <4>4, <5>1
      <4>6. r.run \in Tasks
        BY <2>3
      <4>7. Serves(r, u, timeout)
        BY <3>6, <3>7, <4>4, <4>5, <4>6, PartsServe
      <4> QED BY <2>3, <4>7, ResortedThrough
    <3>11. CASE ~(r.prio[s.run] >= rt_rdy_prio(r))
      <4>1. PICK x : x = s.run
        OBVIOUS
      <4>2. PICK c, v : c = MakeReady(g, x) /\ v = MakeReady(c, t)
        OBVIOUS
      <4>3. u = SwitchToFirst(v)
        BY <3>9, <3>11, <4>1, <4>2
      <4>4. PICK X : X = {t} \cup {x}
        OBVIOUS
      <4>5. Fit(g, X, NoTask) /\ x \in Alive(g) /\ ~ InDly(g.dly, x) /\ x \in X
        <5>1. Fit(g, {t}, x) /\ x # NoTask
          BY <1>2, <3>6, <4>1
        <5>2. Fit(g, {t} \cup {x}, NoTask) /\ x \in Alive(g) /\ ~ InDly(g.dly, x)
          BY <5>1, ReleaseFit
        <5> QED BY <4>4, <5>2
      <4>6. Fit(c, X \ {x}, NoTask) /\ Eased(g, c) /\ c.dly = g.dly
        BY <4>2, <4>5, MakeReadyFit
      <4>7. X \ {x} = {t} /\ t \in Alive(c) /\ ~ InDly(c.dly, t) /\ t \in {t}
        BY <3>6, <4>1, <4>4, <4>6 DEF Eased, SameObjects, Alive
      <4>8. Fit(c, {t}, NoTask)
        BY <4>6, <4>7
      <4>9. /\ Fit(v, {t} \ {t}, NoTask) /\ Eased(c, v)
            /\ \A y : InSeq(v.rdy, y) <=> InSeq(c.rdy, y) \/ y = t
        BY <4>2, <4>7, <4>8, MakeReadyFit
      <4>10. Fit(v, {}, NoTask) /\ InSeq(v.rdy, t)
        <5>1. {t} \ {t} = {}
          OBVIOUS
        <5> QED BY <4>9, <5>1
      <4>11. v.st[t] = "READY"
        BY <3>6, <4>10 DEF Fit, Chained
      <4>12. Fit(u, {}, u.run) /\ Top(u) /\ Eased(v, u)
        BY <4>3, <4>10, SomeReady, SwitchFit
      <4>13. Eased(g, u)
        BY <4>6, <4>9, <4>12, EasedTrans
      <4>14. \A y \in {t} : u.st[y] \in {"READY", "RUNNING"}
        BY <3>6, <4>11, <4>12 DEF Eased
      <4>15. r.run \in Tasks
        BY <2>3
      <4>16. Serves(r, u, timeout)
        BY <3>6, <3>7, <4>12, <4>13, <4>14, <4>15, PartsServe
      <4> QED BY <2>3, <4>16, ResortedThrough
    <3> QED BY <3>10, <3>11
  <2> QED BY <2>5, <2>6
<1>7. Owns(s, s.run, m) => s.mut[m].level > 0
  BY DEF Owns
<1> QED BY <1>1, <1>3, <1>4, <1>5, <1>6, <1>7
=============================================================================
