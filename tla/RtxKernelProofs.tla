--------------------------- MODULE RtxKernelProofs ---------------------------
(***************************************************************************)
(* The ticks, the timers and the requests of interrupt handlers keep the   *)
(* invariant of RtxCallProofs too, and so does every step of the kernel.   *)
(* It follows that the highest ready thread runs, that the lists hold the  *)
(* threads that their states say, that nobody waits for what is there,     *)
(* that delays and timers take the time they were given, and that the      *)
(* mailbox is a queue: what every step does to its ring goes along.        *)
(***************************************************************************)
EXTENDS RtxCallProofs


\* An interrupt's request is served.
Answered(s, e) ==
    CASE e.id \in TCBs -> rt_evt_psh(s, e.id, e.arg)
      [] e.id = Queue -> rt_mbx_psh(s, e.arg)
      [] OTHER -> rt_sem_psh(s, e.id)

\* A timer that is due sends its message and may start again.
Expired(s, e) ==
    [isrMessagePut(s, e.x) EXCEPT !.tmr =
        IF e.x \in Periodic THEN rt_timer_insert(Tail(@), e.x, e.icnt, e.icnt) ELSE Tail(@)]

\* What the walks of the interrupts do with an entry of their lists.
StepOf(walk, s, e) ==
    IF walk = 1 THEN MakeReady(rt_rmv_list(s, e.t), e.t)
    ELSE IF walk = 2 THEN Answered(s, e) ELSE Expired(s, e)

\* The states in which the first n entries of list q have been dealt with.
WalkUpTo(walk, s, q, f, n) ==
    f = [i \in 0 .. n |-> IF i = 0 THEN s ELSE StepOf(walk, f[i - 1], q[i])]

\* There are such walks: take the shortest beginning that has none.
LEMMA WalkExists ==
    ASSUME NEW walk, NEW s, NEW q, NEW n \in Nat
    PROVE  \E f : WalkUpTo(walk, s, q, f, n)
<1> DEFINE T == {m \in Nat : ~ \E g : WalkUpTo(walk, s, q, g, m)}
<1> SUFFICES ASSUME n \in T PROVE FALSE
  OBVIOUS
<1>1. PICK m \in T : \A j \in T : m <= j
  <2>1. T \subseteq Nat /\ T # {}
    OBVIOUS
  <2> HIDE DEF T
  <2> QED BY <2>1, LeastElement
<1>2. m \in Nat /\ ~ \E g : WalkUpTo(walk, s, q, g, m)
  OBVIOUS
<1>3. CASE m = 0
  <2> DEFINE g == [i \in 0 .. 0 |-> s]
  <2>1. WalkUpTo(walk, s, q, g, 0)
    BY DEF WalkUpTo
  <2> QED BY <1>2, <1>3, <2>1
<1>4. CASE m # 0
  <2>1. m - 1 \in Nat /\ m - 1 \notin T
    BY <1>1, <1>2, <1>4
  <2>2. PICK g : WalkUpTo(walk, s, q, g, m - 1)
    BY <2>1
  <2> DEFINE h == [i \in 0 .. m |-> IF i = m THEN StepOf(walk, g[m - 1], q[m]) ELSE g[i]]
  <2>3. ASSUME NEW i \in 0 .. m
        PROVE  h[i] = IF i = 0 THEN s ELSE StepOf(walk, h[i - 1], q[i])
    <3>1. CASE i = m
      BY <1>2, <1>4, <3>1
    <3>2. CASE i # m
      <4>1. i \in 0 .. m - 1 /\ (i # 0 => i - 1 \in 0 .. m /\ i - 1 # m)
        BY <1>2, <3>2
      <4>2. g[i] = IF i = 0 THEN s ELSE StepOf(walk, g[i - 1], q[i])
        BY <2>2, <4>1 DEF WalkUpTo
      <4> QED BY <3>2, <4>1, <4>2
    <3> QED BY <3>1, <3>2
  <2>4. DOMAIN h = 0 .. m /\ h = [i \in 0 .. m |-> h[i]]
    OBVIOUS
  <2> HIDE DEF h
  <2>5. WalkUpTo(walk, s, q, h, m)
    BY <2>3, <2>4 DEF WalkUpTo
  <2> QED BY <1>2, <2>5
<1> QED BY <1>3, <1>4

-----------------------------------------------------------------------------
(***************************************************************************)
(* One tick of the delay list.                                             *)
(***************************************************************************)

\* No entry is due yet.
LEMMA SpacedDue ==
    ASSUME NEW q \in Seq(Delays), Spaced(q)
    PROVE  \A t, n : Due(q, t, n) => n \in Int /\ n > 0
<1>1. Len(q) \in Nat /\ Dated(q) /\ DOMAIN q = 1 .. Len(q) /\ \A j \in 1 .. Len(q) : q[j].d \in Int
  BY DelaysDated
<1>2. /\ DueAt(q, 0) = 0 /\ \A i \in 0 .. Len(q) : DueAt(q, i) \in Int
      /\ \A i \in 1 .. Len(q) : DueAt(q, i) = DueAt(q, i - 1) + q[i].d
  BY <1>1, DueAtSums
<1>3. PICK n : n = Len(q)
  OBVIOUS
<1>4. PICK A : A = {i \in 0 .. n : i = 0 \/ DueAt(q, i) > 0}
  OBVIOUS
<1>5. 0 \in A
  BY <1>1, <1>3, <1>4
<1>6. ASSUME NEW i \in 1 .. n, i - 1 \in A
      PROVE  i \in A
  <2>1. /\ i \in 1 .. Len(q) /\ i \in 0 .. n /\ i - 1 \in 0 .. Len(q) /\ q[i].d \in Int
        /\ q[i].d >= 0 /\ (i = 1 => q[i].d > 0)
    BY <1>1, <1>3 DEF Spaced
  <2>2. DueAt(q, i) = DueAt(q, i - 1) + q[i].d /\ DueAt(q, i - 1) \in Int
    BY <1>2, <2>1
  <2>3. DueAt(q, i) > 0
    <3>1. CASE i = 1
      BY <1>2, <2>1, <2>2, <3>1
    <3>2. CASE i # 1
      <4>1. DueAt(q, i - 1) > 0
        BY <1>4, <1>6, <2>1, <3>2
      <4> QED BY <2>1, <2>2, <4>1
    <3> QED BY <3>1, <3>2
  <2> QED BY <1>4, <2>1, <2>3
<1>7. \A i \in 0 .. n : i \in A
  BY <1>1, <1>3, <1>5, <1>6, StepByStep
<1>8. \A i \in 1 .. Len(q) : DueAt(q, i) \in Int /\ DueAt(q, i) > 0
  BY <1>1, <1>2, <1>3, <1>4, <1>7
<1> QED BY <1>1, <1>8 DEF Due

\* Delay list q0 is q after a tick: its first n entries are due, and r is the
\* rest of it.
Aged(q0, q, n, r) ==
    /\ n \in 0 .. Len(q0) /\ Len(q) = Len(q0) /\ r \in Seq(Delays) /\ OnceDly(r) /\ Spaced(r)
    /\ \A i \in 1 .. n : q[i].t \in Tasks /\ InDly(q0, q[i].t) /\ ~ InDly(r, q[i].t)
    /\ \A i, j \in 1 .. n : q[i].t = q[j].t => i = j
    /\ \A t, m : Due(r, t, m) => m \in Int /\ m > 0 /\ Due(q0, t, m + 1)
    /\ \A t, m : Due(q0, t, m) => (\E i \in 1 .. n : q[i].t = t) \/ Due(r, t, m - 1)

\* The differences of q are those of q0, a tick later.
Ticked(q0, q) ==
    /\ q \in Seq(Delays) /\ Len(q) = Len(q0) /\ Dated(q)
    /\ \A j \in 1 .. Len(q0) :
          /\ q[j].t = q0[j].t /\ q[j].d = IF j = 1 THEN q0[j].d - 1 ELSE q0[j].d
          /\ DueAt(q, j) = DueAt(q0, j) - 1

\* One difference of a delay list is written.
LEMMA SetDelay ==
    ASSUME NEW q0 \in Seq(Delays), NEW d \in Int, NEW i \in 1 .. Len(q0),
           NEW q, q = [q0 EXCEPT ![i].d = d]
    PROVE  /\ q \in Seq(Delays) /\ Len(q) = Len(q0)
           /\ \A j \in 1 .. Len(q0) : q[j].t = q0[j].t /\ q[j].d = IF j = i THEN d ELSE q0[j].d
  BY ChangeDelay

\* Delay list q0 a tick later.
LessOne(q0) == [q0 EXCEPT ![1].d = @ - 1]

\* A tick makes the first difference one less, and every time with it.
LEMMA TickDelays ==
    ASSUME NEW q0 \in Seq(Delays), q0 # <<>>, NEW q, q = LessOne(q0)
    PROVE  Ticked(q0, q)
<1>1. /\ Len(q0) \in Nat /\ Dated(q0) /\ 1 \in 1 .. Len(q0)
      /\ \A j \in 1 .. Len(q0) : q0[j].d \in Int
  BY DelaysDated
<1>2. PICK d : d = q0[1].d - 1
  OBVIOUS
<1>3. d \in Int
  BY <1>1, <1>2
<1>4. q = [q0 EXCEPT ![1].d = d]
  BY <1>2, Zenon DEF LessOne
<1>5. /\ q \in Seq(Delays) /\ Len(q) = Len(q0)
      /\ \A j \in 1 .. Len(q0) : q[j].t = q0[j].t /\ q[j].d = IF j = 1 THEN d ELSE q0[j].d
  <2>1. PICK i : i = 1
    OBVIOUS
  <2>2. i \in 1 .. Len(q0) /\ q = [q0 EXCEPT ![i].d = d]
    BY <1>1, <1>4, <2>1, Zenon
  <2>3. /\ q \in Seq(Delays) /\ Len(q) = Len(q0)
        /\ \A j \in 1 .. Len(q0) : q[j].t = q0[j].t /\ q[j].d = IF j = i THEN d ELSE q0[j].d
    <3>1. q0 \in Seq(Delays) /\ d \in Int
      BY <1>3
    <3>2. i \in 1 .. Len(q0)
      BY <2>2
    <3>3. q = [q0 EXCEPT ![i].d = d]
      BY <2>2
    <3> HIDE <1>2, <1>4
    <3> QED BY <3>1, <3>2, <3>3, SetDelay
  <2> QED BY <2>1, <2>3, Zenon
<1>6. \A j \in 1 .. Len(q0) : q[j].d = IF j = 1 THEN q0[j].d - 1 ELSE q0[j].d
  BY <1>2, <1>5
<1>7. Dated(q) /\ \A j \in 1 .. Len(q0) : DueAt(q, j) = DueAt(q0, j) - 1
  BY <1>1, <1>5, <1>6, DueTicked
<1> QED BY <1>5, <1>6, <1>7 DEF Ticked

\* The first n entries of q are due.
Firsts(q, n) ==
    /\ n \in 0 .. Len(q)
    /\ (\A l \in 1 .. n : DueAt(q, l) = 0) /\ (n < Len(q) => DueAt(q, n + 1) # 0)
    /\ DueAt(q, n) = 0

\* The entries that are due are the first ones.
LEMMA DueFirsts ==
    ASSUME NEW q, Dated(q), NEW T, T = {j \in 0 .. Len(q) : \A l \in 1 .. j : DueAt(q, l) = 0},
           NEW n, NEW i, i = Max(T) + 1, n = i - 1
    PROVE  Firsts(q, n)
<1>1. Len(q) \in Nat
  BY DEF Dated
<1>4. PICK A : A = {l \in 1 .. Len(q) : DueAt(q, l) = 0}
  OBVIOUS
<1>5. T = AllowedUpTo(Len(q), A)
  <2>1. \A j \in 0 .. Len(q) : \A l \in 1 .. j : l \in 1 .. Len(q)
    BY <1>1
  <2>2. \A j \in 0 .. Len(q) :
            (\A l \in 1 .. j : DueAt(q, l) = 0) <=> (\A l \in 1 .. j : l \in A)
    BY <1>4, <2>1
  <2> QED BY <1>4, <2>2 DEF AllowedUpTo
<1>6. i \in 1 .. Len(q) + 1 /\ (\A l \in 1 .. i - 1 : l \in A) /\ (i <= Len(q) => i \notin A)
  <2>1. i = Max(AllowedUpTo(Len(q), A)) + 1
    BY <1>5
  <2> QED BY <1>1, <2>1, PlaceInList, Zenon
<1>7. n = i - 1 /\ n \in 0 .. Len(q) /\ n \in Nat /\ i \in Nat
  BY <1>1, <1>6
<1>8. \A l \in 1 .. n : DueAt(q, l) = 0
  BY <1>4, <1>6, <1>7
<1>9. n < Len(q) => DueAt(q, n + 1) # 0
  BY <1>1, <1>4, <1>6, <1>7
<1>10. DueAt(q, n) = 0
  <2>1. DueAt(q, 0) = 0
    BY DueAtSums
  <2>2. n # 0 => n \in 1 .. n
    BY <1>7
  <2> QED BY <1>8, <2>1, <2>2
<1> QED BY <1>7, <1>8, <1>9, <1>10 DEF Firsts

\* The rest of a list.
LEMMA RestOfList ==
    ASSUME NEW S, NEW q \in Seq(S), NEW n \in 0 .. Len(q), NEW r, r = SubSeq(q, n + 1, Len(q))
    PROVE  /\ r \in Seq(S) /\ Len(r) = Len(q) - n
           /\ \A j \in 1 .. Len(q) - n : r[j] = q[n + j]
  OBVIOUS

\* The rest of the delay list after a tick.
LEMMA TickRest ==
    ASSUME NEW q0 \in Seq(Delays), OnceDly(q0), Spaced(q0), NEW q, Ticked(q0, q),
           NEW n, Firsts(q, n), NEW r \in Seq(Delays), Len(r) = Len(q) - n,
           \A j \in 1 .. Len(q) - n : r[j] = q[n + j]
    PROVE  Aged(q0, q, n, r)
<1>1. /\ Len(q0) \in Nat /\ Dated(q0) /\ DOMAIN q0 = 1 .. Len(q0)
      /\ \A j \in 1 .. Len(q0) : q0[j].d \in Int /\ q0[j].t \in Tasks /\ q0[j] \in Delays
  BY DelaysDated
<1>2. /\ q \in Seq(Delays) /\ Len(q) = Len(q0)
      /\ \A j \in 1 .. Len(q0) : q[j].t = q0[j].t /\ q[j].d = IF j = 1 THEN q0[j].d - 1 ELSE q0[j].d
  BY DEF Ticked
<1>3. Dated(q) /\ \A j \in 1 .. Len(q0) : DueAt(q, j) = DueAt(q0, j) - 1 /\ DueAt(q, j) \in Int
  <2>1. Dated(q) /\ \A j \in 1 .. Len(q0) : DueAt(q, j) = DueAt(q0, j) - 1
    BY DEF Ticked
  <2> QED BY <1>1, <1>2, <2>1, DueAtSums
<1>7. n \in 0 .. Len(q) /\ n \in Nat
  BY <1>1, <1>2 DEF Firsts
<1>8. (\A l \in 1 .. n : DueAt(q, l) = 0) /\ (n < Len(q) => DueAt(q, n + 1) # 0) /\ DueAt(q, n) = 0
  BY DEF Firsts
<1>9. /\ r \in Seq(Delays) /\ Len(r) = Len(q) - n
      /\ \A j \in 1 .. Len(q) - n : r[j] = q[n + j]
  OBVIOUS
<1>10. Dated(r) /\ \A j \in 1 .. Len(q) - n : DueAt(r, j) = DueAt(q, n + j)
  <2>1. \A j \in 1 .. Len(q) - n : r[j].d = q[n + j].d
    BY <1>9
  <2> QED BY <1>3, <1>7, <1>8, <1>9, <2>1, DueRest
<1>11. DOMAIN r = 1 .. Len(q) - n /\ \A j \in 1 .. Len(q) - n : n + j \in 1 .. Len(q0) /\ n + j \in 1 .. Len(q)
  BY <1>1, <1>2, <1>7, <1>9
<1>12. Spaced(r)
  <2> SUFFICES ASSUME NEW j \in 1 .. Len(q) - n PROVE r[j].d >= 0 /\ (j = 1 => r[j].d > 0)
    BY <1>11 DEF Spaced
  <2>1. r[j].d = q[n + j].d /\ n + j \in 1 .. Len(q0) /\ q[n + j].d \in Int /\ q0[n + j].d \in Int
    BY <1>1, <1>2, <1>9, <1>11
  <2>2. q[n + j].d = IF n + j = 1 THEN q0[n + j].d - 1 ELSE q0[n + j].d
    BY <1>2, <2>1
  <2>3. q0[n + j].d >= 0 /\ (n + j = 1 => q0[n + j].d > 0)
    BY <1>1, <2>1 DEF Spaced
  <2>4. r[j].d >= 0
    BY <2>1, <2>2, <2>3
  <2>5. j = 1 => r[j].d # 0
    <3> SUFFICES ASSUME j = 1 PROVE r[j].d # 0
      OBVIOUS
    <3>1. n + 1 \in 1 .. Len(q) /\ n + 1 - 1 = n /\ n < Len(q)
      BY <1>7, <1>11
    <3>2. DueAt(q, n + 1) = DueAt(q, n) + q[n + 1].d
      <4>1. \A l \in 1 .. Len(q) : DueAt(q, l) = DueAt(q, l - 1) + q[l].d
        BY <1>3, DueAtSums
      <4>2. PICK m : m = n + 1
        OBVIOUS
      <4>3. m \in 1 .. Len(q) /\ m - 1 = n
        BY <1>7, <3>1, <4>2
      <4>4. DueAt(q, m) = DueAt(q, m - 1) + q[m].d
        BY <4>1, <4>3
      <4> QED BY <4>2, <4>3, <4>4
    <3> QED BY <1>8, <2>1, <3>1, <3>2
  <2> QED BY <2>1, <2>4, <2>5
<1>13. OnceDly(r)
  <2> SUFFICES ASSUME NEW j \in DOMAIN r, NEW l \in DOMAIN r, r[j].t = r[l].t PROVE j = l
    BY DEF OnceDly
  <2>1. n + j \in DOMAIN q0 /\ n + l \in DOMAIN q0 /\ j \in Int /\ l \in Int
    BY <1>1, <1>11
  <2>2. r[j].t = q0[n + j].t /\ r[l].t = q0[n + l].t
    BY <1>1, <1>2, <1>9, <1>11, <2>1
  <2>3. n + j = n + l
    BY <2>1, <2>2 DEF OnceDly
  <2> QED BY <1>7, <2>1, <2>3
<1>14. ASSUME NEW l \in 1 .. n
       PROVE  q[l].t \in Tasks /\ InDly(q0, q[l].t) /\ ~ InDly(r, q[l].t)
  <2>1. l \in DOMAIN q0 /\ q[l].t = q0[l].t /\ q0[l].t \in Tasks
    BY <1>1, <1>2, <1>7
  <2>2. ASSUME NEW j \in DOMAIN r PROVE r[j].t # q0[l].t
    <3>1. n + j \in DOMAIN q0 /\ n + j # l /\ r[j].t = q0[n + j].t
      BY <1>1, <1>2, <1>7, <1>9, <1>11, <2>1
    <3> QED BY <2>1, <3>1 DEF OnceDly
  <2> QED BY <2>1, <2>2 DEF InDly
<1>15. \A l, j \in 1 .. n : q[l].t = q[j].t => l = j
  <2> SUFFICES ASSUME NEW l \in 1 .. n, NEW j \in 1 .. n, q[l].t = q[j].t PROVE l = j
    OBVIOUS
  <2>1. l \in DOMAIN q0 /\ j \in DOMAIN q0 /\ q[l].t = q0[l].t /\ q[j].t = q0[j].t
    BY <1>1, <1>2, <1>7
  <2> QED BY <2>1 DEF OnceDly
<1>16. ASSUME NEW t, NEW m, Due(r, t, m) PROVE m \in Int /\ m > 0 /\ Due(q0, t, m + 1)
  <2>1. m \in Int /\ m > 0
    BY <1>9, <1>12, <1>16, SpacedDue
  <2>2. PICK j \in 1 .. Len(q) - n : r[j].t = t /\ DueAt(r, j) = m
    BY <1>11, <1>16 DEF Due
  <2>3. n + j \in DOMAIN q0 /\ q0[n + j].t = t /\ DueAt(q, n + j) = m
    BY <1>1, <1>2, <1>9, <1>10, <1>11, <2>2
  <2>4. DueAt(q, n + j) = DueAt(q0, n + j) - 1 /\ DueAt(q0, n + j) \in Int
    BY <1>1, <1>3, <2>3, DueAtSums
  <2>5. DueAt(q0, n + j) = m + 1
    BY <2>1, <2>3, <2>4
  <2> QED BY <2>1, <2>3, <2>5 DEF Due
<1>17. ASSUME NEW t, NEW m, Due(q0, t, m)
       PROVE  (\E l \in 1 .. n : q[l].t = t) \/ Due(r, t, m - 1)
  <2>1. PICK j \in 1 .. Len(q0) : q0[j].t = t /\ DueAt(q0, j) = m
    BY <1>1, <1>17 DEF Due
  <2>2. q[j].t = t /\ DueAt(q, j) = m - 1
    BY <1>2, <1>3, <2>1
  <2>3. CASE j <= n
    <3>1. j \in 1 .. n
      BY <1>7, <2>3
    <3> QED BY <2>2, <3>1
  <2>4. CASE ~(j <= n)
    <3>1. j - n \in 1 .. Len(q) - n /\ n + (j - n) = j
      BY <1>1, <1>2, <1>7, <2>4
    <3>2. r[j - n].t = t /\ DueAt(r, j - n) = m - 1 /\ j - n \in DOMAIN r
      BY <1>9, <1>10, <1>11, <2>2, <3>1
    <3> QED BY <3>2 DEF Due
  <2> QED BY <2>3, <2>4
<1> QED BY <1>2, <1>7, <1>9, <1>12, <1>13, <1>14, <1>15, <1>16, <1>17 DEF Aged

\* The number of entries at the start of q that are due.
DueCount(q) == Place(q, LAMBDA j : DueAt(q, j) = 0) - 1

\* The delay list after a tick: who was due in one tick is out of it.
LEMMA TickList ==
    ASSUME NEW q0 \in Seq(Delays), q0 # <<>>, OnceDly(q0), Spaced(q0),
           NEW q, q = LessOne(q0),
           NEW n, n = DueCount(q),
           NEW r, r = SubSeq(q, n + 1, Len(q))
    PROVE  Aged(q0, q, n, r)
<1>1. Ticked(q0, q)
  BY TickDelays
<1>2. Dated(q) /\ q \in Seq(Delays)
  BY <1>1 DEF Ticked
<1>3. Firsts(q, n)
  <2>1. PICK T : T = {j \in 0 .. Len(q) : \A l \in 1 .. j : DueAt(q, l) = 0}
    OBVIOUS
  <2>2. PICK i : i = Max(T) + 1
    OBVIOUS
  <2>3. n = i - 1
    BY <2>1, <2>2, Zenon DEF DueCount, Place
  <2> QED BY <1>2, <2>1, <2>2, <2>3, DueFirsts, Zenon
<1>4. n \in 0 .. Len(q)
  BY <1>3 DEF Firsts
<1>5. r \in Seq(Delays) /\ Len(r) = Len(q) - n /\ \A j \in 1 .. Len(q) - n : r[j] = q[n + j]
  BY <1>2, <1>4, RestOfList
<1> QED BY <1>1, <1>3, <1>5, TickRest, Zenon

\* Eased without the delay list.
Loosened(s, u) ==
    /\ SameObjects(s, u)
    /\ \A t \in TCBs : u.st[t] = s.st[t] \/ u.st[t] \in {"READY", "RUNNING"}
    /\ \A o \in Objects, t \in Tasks : InSeq(u.wait[o], t) => InSeq(s.wait[o], t)

\* Threads that become ready are not bound any more.
LEMMA LoosenedSelf ==
    ASSUME NEW s, NEW u, Eased(s, u)
    PROVE  Loosened(s, u)
  BY DEF Eased, Loosened

\* One after the other.
LEMMA LoosenedTrans ==
    ASSUME NEW s, NEW u, NEW v, Loosened(s, u), Loosened(u, v)
    PROVE  Loosened(s, v)
<1>1. SameObjects(s, v)
  BY DEF Loosened, SameObjects
<1>2. \A t \in TCBs : v.st[t] = s.st[t] \/ v.st[t] \in {"READY", "RUNNING"}
  BY DEF Loosened
<1>3. \A o \in Objects, t \in Tasks : InSeq(v.wait[o], t) => InSeq(s.wait[o], t)
  BY DEF Loosened
<1> QED BY <1>1, <1>2, <1>3 DEF Loosened

\* Nobody waits for what is there,
LEMMA LoosenedWakeups ==
    ASSUME NEW s \in Kernels, NEW u \in Kernels, Wakeups(s, {}), Loosened(s, u)
    PROVE  Wakeups(u, {})
<1>1. ASSUME NEW o \in Objects, u.wait[o] # <<>> PROVE s.wait[o] # <<>>
  <2>1. s.wait[o] \in Seq(Tasks) /\ u.wait[o] \in Seq(Tasks)
    BY KernelTypes
  <2>2. PICK t : InSeq(u.wait[o], t)
    BY <1>1, <2>1, EmptyList
  <2>3. t \in Tasks
    BY <2>1, <2>2, EmptyList
  <2>4. InSeq(s.wait[o], t)
    BY <2>2, <2>3 DEF Loosened
  <2> QED BY <2>1, <2>4, EmptyList
<1>2. SameObjects(s, u)
  BY DEF Loosened
<1>3. \A o \in Sems : u.wait[o] # <<>> => u.tokens[o] = 0 /\ o \in u.live
  BY <1>1, <1>2, ObjectNames DEF SameObjects, Wakeups
<1>4. \A m \in Mutexes : u.wait[m] # <<>> => u.mut[m].level > 0 /\ m \in u.live
  BY <1>1, <1>2, ObjectNames DEF SameObjects, Wakeups
<1>5. u.wait[Queue] # <<>> =>
        \/ u.mbx.state = 1 /\ u.mbx.count = 0
        \/ u.mbx.state = 2 /\ u.mbx.count = MbxSize
  BY <1>1, <1>2, ObjectNames DEF SameObjects, Wakeups
<1>6. ASSUME NEW t \in u.active
      PROVE  /\ u.st[t] = "WAIT_AND" => ~(u.waits[t] \subseteq u.events[t])
             /\ u.st[t] = "WAIT_OR" => u.waits[t] \cap u.events[t] = {}
  <2>1. t \in TCBs /\ t \in s.active /\ u.waits = s.waits /\ u.events = s.events
    BY <1>2, KernelTypes, TaskNames DEF SameObjects
  <2>2. CASE u.st[t] \in {"READY", "RUNNING"}
    BY <2>2
  <2>3. CASE u.st[t] \notin {"READY", "RUNNING"}
    <3>1. u.st[t] = s.st[t]
      BY <2>1, <2>3 DEF Loosened
    <3> QED BY <2>1, <3>1 DEF Wakeups
  <2> QED BY <2>2, <2>3
<1> QED BY <1>3, <1>4, <1>5, <1>6 DEF Wakeups

\* and mutexes keep their owners.
LEMMA LoosenedKept ==
    ASSUME NEW s, NEW u, Kept(s), Loosened(s, u)
    PROVE  Kept(u)
<1>1. u.active = s.active /\ u.mut = s.mut /\ u.psq = s.psq
  BY DEF Loosened, SameObjects
<1>2. \A m \in Mutexes, t \in Tasks : InSeq(u.wait[m], t) => t \in Lasting
  BY ObjectNames DEF Loosened, Kept
<1> QED BY <1>1, <1>2 DEF Kept

\* The states that rt_dec_dly passes; q is the delay list a tick later, and r
\* what is left of it.
Expiring(s, q, n, r, f) ==
    /\ f[0] = [s EXCEPT !.dly = r]
    /\ \A i \in 1 .. n : f[i] = MakeReady(rt_rmv_list(f[i - 1], q[i].t), q[i].t)
    /\ rt_dec_dly(s) = f[n]

\* rt_dec_dly passes through these states.
LEMMA DecDlyIs ==
    ASSUME NEW s, s.dly # <<>>, NEW q, q = LessOne(s.dly), NEW n, n = DueCount(q), n \in Nat,
           NEW r, r = SubSeq(q, n + 1, Len(q))
    PROVE  \E f : Expiring(s, q, n, r, f)
<1>1. PICK b : b = [s EXCEPT !.dly = r]
  OBVIOUS
<1> DEFINE w == CHOOSE g : g = [i \in 0 .. n |->
                   IF i = 0 THEN b ELSE MakeReady(rt_rmv_list(g[i - 1], q[i].t), q[i].t)]
<1>2. rt_dec_dly(s) = w[n]
  BY <1>1 DEF rt_dec_dly, LessOne, DueCount
<1>3. w = [i \in 0 .. n |-> IF i = 0 THEN b ELSE MakeReady(rt_rmv_list(w[i - 1], q[i].t), q[i].t)]
  <2>1. PICK f : WalkUpTo(1, b, q, f, n)
    BY WalkExists
  <2>2. f = [i \in 0 .. n |-> IF i = 0 THEN b ELSE MakeReady(rt_rmv_list(f[i - 1], q[i].t), q[i].t)]
    BY <2>1 DEF WalkUpTo, StepOf
  <2> QED BY <2>2
<1> HIDE DEF w
<1>4. \A i \in 0 .. n : w[i] = IF i = 0 THEN b ELSE MakeReady(rt_rmv_list(w[i - 1], q[i].t), q[i].t)
  BY <1>3
<1>5. w[0] = b /\ \A i \in 1 .. n : w[i] = MakeReady(rt_rmv_list(w[i - 1], q[i].t), q[i].t)
  BY <1>4
<1> QED BY <1>1, <1>2, <1>5 DEF Expiring

\* A thread that is due leaves its list and becomes ready.
LEMMA ExpireStep ==
    ASSUME NEW c, Fit(c, {}, NoTask), NEW t \in Alive(c), ~ InDly(c.dly, t),
           NEW u, u = MakeReady(rt_rmv_list(c, t), t)
    PROVE  Fit(u, {}, NoTask) /\ Eased(c, u) /\ u.dly = c.dly /\ u.st[t] = "READY"
<1>1. t \in TCBs /\ t # NoTask
  BY KernelTypes, TaskNames DEF Fit, Alive
<1>2. PICK a : a = rt_rmv_list(c, t)
  OBVIOUS
<1>3. Delisted(c, {}, NoTask, t, a)
  BY <1>1, <1>2, RmvListFit
<1>4. PICK X : X = {t}
  OBVIOUS
<1>5. t \in X /\ X \ {t} = {} /\ {} \cup {t} = X
  BY <1>4
<1>6. Fit(a, X, NoTask) /\ t \in Alive(a) /\ ~ InDly(a.dly, t) /\ Eased(c, a) /\ a.dly = c.dly
  BY <1>3, <1>5 DEF Delisted, SameObjects, Alive
<1>7. u = MakeReady(a, t)
  BY <1>2
<1>8. /\ Fit(u, X \ {t}, NoTask) /\ Eased(a, u) /\ u.dly = a.dly
      /\ \A x : InSeq(u.rdy, x) <=> InSeq(a.rdy, x) \/ x = t
  BY <1>5, <1>6, <1>7, MakeReadyFit
<1>9. u.st[t] = "READY"
  BY <1>1, <1>8 DEF Fit, Chained
<1>10. Eased(c, u)
  BY <1>6, <1>8, EasedTrans
<1> QED BY <1>5, <1>6, <1>8, <1>9, <1>10

\* Kernel u is s a tick later.
Ticks(s, u) ==
    /\ Loosened(s, u) /\ Spaced(u.dly)
    /\ \A t \in Tasks : \A n : Due(u.dly, t, n) => n \in Int /\ n > 0 /\ Due(s.dly, t, n + 1)
    /\ \A t \in Tasks : \A n : Due(s.dly, t, n) =>
           u.st[t] \in {"READY", "RUNNING"} \/ Due(u.dly, t, n - 1)

\* Those that are due become ready, one after the other.
LEMMA ExpireAll ==
    ASSUME NEW s, Fit(s, {}, NoTask), NEW q, NEW n, NEW r, Aged(s.dly, q, n, r),
           NEW f, f[0] = [s EXCEPT !.dly = r],
           \A i \in 1 .. n : f[i] = MakeReady(rt_rmv_list(f[i - 1], q[i].t), q[i].t)
    PROVE  Fit(f[n], {}, NoTask) /\ Ticks(s, f[n])
<1>1. /\ s \in Kernels /\ OnceDly(s.dly) /\ n \in Nat /\ r \in Seq(Delays) /\ OnceDly(r)
      /\ \A i \in 1 .. n : q[i].t \in Tasks /\ InDly(s.dly, q[i].t) /\ ~ InDly(r, q[i].t)
  <2>1. Len(s.dly) \in Nat /\ s \in Kernels /\ OnceDly(s.dly)
    BY KernelTypes DEF Fit, Delayed
  <2> QED BY <2>1 DEF Aged
<1>2. /\ \A t, m : Due(r, t, m) => m \in Int /\ m > 0 /\ Due(s.dly, t, m + 1)
      /\ \A t, m : Due(s.dly, t, m) => (\E i \in 1 .. n : q[i].t = t) \/ Due(r, t, m - 1)
      /\ Spaced(r)
  BY DEF Aged
<1>3. PICK A : A = {i \in 0 .. n : /\ Fit(f[i], {}, NoTask) /\ Loosened(s, f[i]) /\ f[i].dly = r
                                   /\ \A j \in 1 .. i : f[i].st[q[j].t] \in {"READY", "RUNNING"}}
  OBVIOUS
<1>4. 0 \in A
  <2>1. PICK c : c = f[0]
    OBVIOUS
  <2>2. Written(s, c, s.run, s.rdy, r, s.st, s.wait)
    <3>1. Written(s, [s EXCEPT !.dly = r], s.run, s.rdy, r, s.st, s.wait)
      BY <1>1, SetDly
    <3> QED BY <2>1, <3>1, Zenon
  <2>3. /\ c \in Kernels /\ SameObjects(s, c) /\ c.run = s.run /\ c.rdy = s.rdy /\ c.dly = r
        /\ c.st = s.st /\ c.wait = s.wait /\ c.active = s.active /\ c.prio = s.prio
        /\ Alive(c) = Alive(s)
    BY <2>2 DEF Written, SameObjects, Alive
  <2>4. Chained(c, {}, NoTask) /\ Sorted(c.rdy, c.prio)
    BY <2>3 DEF Fit, Chained
  <2>5. Delayed(c)
    <3>1. \A t : InDly(r, t) => InDly(s.dly, t)
      BY <1>2, InDlyDue
    <3> QED BY <1>1, <2>3, <3>1 DEF Fit, Delayed
  <2>6. Loosened(s, c)
    BY <2>3 DEF Loosened
  <2>7. Fit(c, {}, NoTask)
    BY <2>3, <2>4, <2>5 DEF Fit
  <2>8. 0 \in 0 .. n /\ \A j \in 1 .. 0 : c.st[q[j].t] \in {"READY", "RUNNING"}
    BY <1>1
  <2> QED BY <1>3, <2>1, <2>3, <2>6, <2>7, <2>8
<1>5. ASSUME NEW i \in 1 .. n, i - 1 \in A
      PROVE  i \in A
  <2>1. PICK c, t, u : c = f[i - 1] /\ t = q[i].t /\ u = f[i]
    OBVIOUS
  <2>2. /\ Fit(c, {}, NoTask) /\ Loosened(s, c) /\ c.dly = r
        /\ \A j \in 1 .. i - 1 : c.st[q[j].t] \in {"READY", "RUNNING"}
    BY <1>3, <1>5, <2>1
  <2>3. t \in Tasks /\ InDly(s.dly, t) /\ ~ InDly(c.dly, t)
    BY <1>1, <2>1, <2>2
  <2>4. t \in Alive(c)
    BY <2>2, <2>3 DEF Fit, Delayed, Loosened, SameObjects, Alive
  <2>5. u = MakeReady(rt_rmv_list(c, t), t)
    BY <2>1
  <2>6. Fit(u, {}, NoTask) /\ Eased(c, u) /\ u.dly = c.dly /\ u.st[t] = "READY"
    BY <2>2, <2>3, <2>4, <2>5, ExpireStep
  <2>7. Loosened(s, u)
    BY <2>2, <2>6, LoosenedSelf, LoosenedTrans
  <2>8. \A j \in 1 .. i : u.st[q[j].t] \in {"READY", "RUNNING"}
    <3> SUFFICES ASSUME NEW j \in 1 .. i PROVE u.st[q[j].t] \in {"READY", "RUNNING"}
      OBVIOUS
    <3>1. CASE j = i
      BY <2>1, <2>6, <3>1
    <3>2. CASE j # i
      <4>1. j \in 1 .. i - 1 /\ j \in 1 .. n
        BY <1>1, <3>2
      <4>2. q[j].t \in TCBs
        BY <1>1, <4>1, TaskNames
      <4>3. u.st[q[j].t] = c.st[q[j].t] \/ u.st[q[j].t] \in {"READY", "RUNNING"}
        BY <2>6, <4>2 DEF Eased
      <4> QED BY <2>2, <4>1, <4>3
    <3> QED BY <3>1, <3>2
  <2>9. i \in 0 .. n
    BY <1>1
  <2> QED BY <1>3, <2>1, <2>2, <2>6, <2>7, <2>8, <2>9
<1>6. n \in A
  <2>1. \A i \in 0 .. n : i \in A
    BY <1>1, <1>4, <1>5, StepByStep
  <2> QED BY <1>1, <2>1
<1>7. PICK u : u = f[n]
  OBVIOUS
<1>8. /\ Fit(u, {}, NoTask) /\ Loosened(s, u) /\ u.dly = r
      /\ \A j \in 1 .. n : u.st[q[j].t] \in {"READY", "RUNNING"}
  BY <1>3, <1>6, <1>7
<1>9. Ticks(s, u)
  <2>1. \A t, m : Due(s.dly, t, m) => u.st[t] \in {"READY", "RUNNING"} \/ Due(r, t, m - 1)
    BY <1>2, <1>8
  <2> QED BY <1>2, <1>8, <2>1 DEF Ticks
<1> QED BY <1>7, <1>8, <1>9

\* rt_dec_dly wakes whose time is over, and no others.
LEMMA DecDlyFit ==
    ASSUME NEW s, Fit(s, {}, NoTask), Spaced(s.dly), NEW u, u = rt_dec_dly(s)
    PROVE  Fit(u, {}, NoTask) /\ Ticks(s, u)
<1>1. s \in Kernels /\ s.dly \in Seq(Delays) /\ OnceDly(s.dly)
  BY KernelTypes DEF Fit, Delayed
<1>2. CASE s.dly = <<>>
  <2>1. u = s
    BY <1>2 DEF rt_dec_dly
  <2>2. \A t, n : ~ Due(s.dly, t, n)
    BY <1>2 DEF Due
  <2>3. Loosened(s, s)
    BY EasedSelf, LoosenedSelf
  <2> QED BY <2>1, <2>2, <2>3 DEF Ticks
<1>3. CASE s.dly # <<>>
  <2>1. PICK q : q = LessOne(s.dly)
    OBVIOUS
  <2>2. PICK n : n = DueCount(q)
    OBVIOUS
  <2>3. PICK r : r = SubSeq(q, n + 1, Len(q))
    OBVIOUS
  <2>4. Aged(s.dly, q, n, r)
    BY <1>1, <1>3, <2>1, <2>2, <2>3, TickList
  <2>5. n \in Nat
    BY <1>1, <2>4 DEF Aged
  <2>6. PICK f : Expiring(s, q, n, r, f)
    BY <1>3, <2>1, <2>2, <2>3, <2>5, DecDlyIs
  <2>7. /\ f[0] = [s EXCEPT !.dly = r]
        /\ \A i \in 1 .. n : f[i] = MakeReady(rt_rmv_list(f[i - 1], q[i].t), q[i].t)
        /\ u = f[n]
    BY <2>6 DEF Expiring
  <2>8. Fit(f[n], {}, NoTask) /\ Ticks(s, f[n])
    BY <2>4, <2>7, ExpireAll
  <2> QED BY <2>7, <2>8
<1> QED BY <1>2, <1>3

-----------------------------------------------------------------------------
(***************************************************************************)
(* The tick interrupt.                                                     *)
(***************************************************************************)

\* The first of the ready threads may go behind those of its priority.
LEMMA RobinFit ==
    ASSUME NEW s, Fit(s, {}, NoTask), NEW u, u = rt_chk_robin(s)
    PROVE  Fit(u, {}, NoTask) /\ Eased(s, u)
<1>1. /\ s \in Kernels /\ s.rdy \in Seq(TCBs) /\ s.rdy # <<>> /\ s.prio \in [TCBs -> Nat]
      /\ Once(s.rdy) /\ Sorted(s.rdy, s.prio)
  BY KernelTypes, SomeReady DEF Fit, Chained
<1>2. s.robin.left \in Int /\ RobinTime - 1 \in Int
  BY <1>1, RtxAssumption DEF Kernels
<1>3. PICK t, tl : t = Head(s.rdy) /\ tl = Tail(s.rdy)
  OBVIOUS
<1>4. /\ tl \in Seq(TCBs) /\ t \in TCBs /\ Once(tl) /\ ~ InSeq(tl, t) /\ Sorted(tl, s.prio)
      /\ \A x : InSeq(s.rdy, x) <=> x = t \/ InSeq(tl, x)
  BY <1>1, <1>3, HeadTail, HeadHighest
<1>5. PICK n : n = IF s.robin.task = t THEN s.robin.left ELSE RobinTime - 1
  OBVIOUS
<1>6. n \in Int
  BY <1>2, <1>5
<1>7. CASE n = 0
  <2>1. PICK b, q : b = [task |-> NoTask, left |-> 0] /\ q = rt_put_prio(s, tl, t)
    OBVIOUS
  <2>2. u = [s EXCEPT !.robin = b, !.rdy = q]
    BY <1>3, <1>5, <1>7, <2>1 DEF rt_chk_robin
  <2>3. /\ q \in Seq(TCBs) /\ Once(q) /\ Sorted(q, s.prio)
        /\ \A x : InSeq(q, x) <=> InSeq(tl, x) \/ x = t
    BY <1>1, <1>4, <2>1, PutPrioList
  <2>4. Written(s, u, s.run, q, s.dly, s.st, s.wait)
    <3>1. b \in [task : TCBs \cup {NoTask}, left : Int]
      BY <2>1
    <3>2. Written(s, [s EXCEPT !.robin = b, !.rdy = q], s.run, q, s.dly, s.st, s.wait)
      BY <1>1, <2>3, <3>1, SetRdyRobin
    <3> QED BY <2>2, <3>2, Zenon
  <2>5. u \in Kernels /\ SameObjects(s, u) /\ u.rdy = q /\ u.run = s.run /\ u.dly = s.dly
        /\ u.st = s.st /\ u.wait = s.wait
    BY <2>4 DEF Written
  <2>6. \A x : InSeq(u.rdy, x) <=> InSeq(s.rdy, x)
    BY <1>4, <2>3, <2>5
  <2>7. SameMembers(s, u)
    BY <2>3, <2>5, <2>6 DEF SameMembers, SameObjects, Fit, Chained
  <2>8. Sorted(u.rdy, u.prio)
    BY <2>3, <2>5 DEF SameObjects
  <2>9. Fit(u, {}, NoTask)
    BY <2>5, <2>7, <2>8, SameMembersFit
  <2> QED BY <2>5, <2>9 DEF Eased
<1>8. CASE n # 0
  <2>1. PICK b : b = [task |-> t, left |-> n - 1]
    OBVIOUS
  <2>2. u = [s EXCEPT !.robin = b]
    BY <1>3, <1>5, <1>8, <2>1 DEF rt_chk_robin
  <2>3. Written(s, u, s.run, s.rdy, s.dly, s.st, s.wait)
    <3>1. b \in [task : TCBs \cup {NoTask}, left : Int]
      BY <1>4, <1>6, <2>1
    <3>2. Written(s, [s EXCEPT !.robin = b], s.run, s.rdy, s.dly, s.st, s.wait)
      BY <1>1, <3>1, SetRobin
    <3> QED BY <2>2, <3>2, Zenon
  <2>4. u \in Kernels /\ SameObjects(s, u) /\ u.rdy = s.rdy /\ u.run = s.run /\ u.dly = s.dly
        /\ u.st = s.st /\ u.wait = s.wait /\ SameLists(s, u)
    BY <2>3 DEF Written, SameObjects, SameLists
  <2>5. Fit(u, {}, NoTask)
    BY <2>4, ObjectsFit
  <2> QED BY <2>4, <2>5 DEF Eased
<1> QED BY <1>7, <1>8

\* The running thread becomes the first of the ready ones.
LEMMA PreemptFit ==
    ASSUME NEW s, Fit(s, {}, s.run), Top(s), NEW u, u = rt_put_rdy_first(s, s.run)
    PROVE  Fit(u, {}, NoTask) /\ Eased(s, u)
<1>1. s.run # NoTask
  BY KernelTypes, TaskNames DEF Fit
<1>2. PICK r, X : r = s.run /\ X = {s.run}
  OBVIOUS
<1>3. r \in X /\ X \ {r} = {} /\ {} \cup {r} = X
  BY <1>2
<1>4. Fit(s, X, NoTask) /\ r \in Alive(s) /\ ~ InDly(s.dly, r)
  BY <1>1, <1>2, <1>3, ReleaseFit
<1>5. Below(s.rdy, s.prio, s.prio[r])
  BY <1>2 DEF Top
<1>6. u = rt_put_rdy_first(s, r)
  BY <1>2
<1>7. Fit(rt_put_rdy_first(s, r), X \ {r}, NoTask) /\ Eased(s, rt_put_rdy_first(s, r))
  BY <1>3, <1>4, <1>5, PutFirstFit
<1> QED BY <1>3, <1>6, <1>7

\* Eased before or after a tick is part of it.
LEMMA EasedTicks ==
    ASSUME NEW s, NEW a, NEW b, NEW u, Eased(s, a), Ticks(a, b), Eased(b, u)
    PROVE  Ticks(s, u)
<1>1. Loosened(s, u)
  <2>1. Loosened(s, a) /\ Loosened(a, b) /\ Loosened(b, u)
    BY LoosenedSelf DEF Ticks
  <2>2. Loosened(s, b)
    BY <2>1, LoosenedTrans
  <2> QED BY <2>1, <2>2, LoosenedTrans
<1>2. Spaced(u.dly)
  BY DEF Ticks, Eased
<1>3. ASSUME NEW t \in Tasks, NEW n, Due(u.dly, t, n)
      PROVE  n \in Int /\ n > 0 /\ Due(s.dly, t, n + 1)
  <2>1. Due(b.dly, t, n)
    BY <1>3 DEF Eased
  <2>2. n \in Int /\ n > 0 /\ Due(a.dly, t, n + 1)
    BY <2>1 DEF Ticks
  <2> QED BY <2>2 DEF Eased
<1>4. ASSUME NEW t \in Tasks, NEW n, Due(s.dly, t, n)
      PROVE  u.st[t] \in {"READY", "RUNNING"} \/ Due(u.dly, t, n - 1)
  <2>0. t \in TCBs
    BY TaskNames
  <2>1. Due(a.dly, t, n) \/ a.st[t] \in {"READY", "RUNNING"}
    BY <1>4 DEF Eased
  <2>2. b.st[t] \in {"READY", "RUNNING"} \/ Due(b.dly, t, n - 1)
    BY <2>0, <2>1 DEF Ticks, Loosened
  <2> QED BY <2>0, <2>2 DEF Eased
<1> QED BY <1>1, <1>2, <1>3, <1>4 DEF Ticks

\* rt_systick: who is due becomes ready, and the highest runs.
LEMMA TickFit ==
    ASSUME NEW s, Fit(s, {}, s.run), Top(s), Spaced(s.dly), NEW u, u = rt_systick(s)
    PROVE  Fit(u, {}, u.run) /\ Top(u) /\ Ticks(s, u)
<1>1. PICK a : a = rt_put_rdy_first(s, s.run)
  OBVIOUS
<1>2. PICK b : b = rt_chk_robin(a)
  OBVIOUS
<1>3. PICK c : c = rt_dec_dly(b)
  OBVIOUS
<1>4. u = SwitchToFirst(c)
  BY <1>1, <1>2, <1>3 DEF rt_systick
<1>5. Fit(a, {}, NoTask) /\ Eased(s, a)
  BY <1>1, PreemptFit
<1>6. Fit(b, {}, NoTask) /\ Eased(a, b)
  BY <1>2, <1>5, RobinFit
<1>7. Spaced(b.dly)
  BY <1>5, <1>6 DEF Eased
<1>8. Fit(c, {}, NoTask) /\ Ticks(b, c)
  BY <1>3, <1>6, <1>7, DecDlyFit
<1>9. c.rdy # <<>>
  BY <1>8, SomeReady
<1>10. Fit(u, {}, u.run) /\ Top(u) /\ Eased(c, u)
  BY <1>4, <1>8, <1>9, SwitchFit
<1>11. Eased(s, b)
  BY <1>5, <1>6, EasedTrans
<1> QED BY <1>8, <1>10, <1>11, EasedTicks

-----------------------------------------------------------------------------
(***************************************************************************)
(* The ring of the mailbox.                                                *)
(***************************************************************************)

\* Entry j, counted from entry i on.
Slot(i, j) == IF i + j < MbxSize THEN i + j ELSE i + j - MbxSize

\* The index of an entry is what Slot says.
LEMMA SlotIs ==
    ASSUME NEW i \in 0 .. MbxSize - 1, NEW j \in 0 .. MbxSize
    PROVE  (i + j) % MbxSize = Slot(i, j) /\ Slot(i, j) \in 0 .. MbxSize - 1
<1>0. MbxSize \in Nat /\ MbxSize > 0
  BY RtxAssumption
<1>1. CASE i + j < MbxSize
  BY <1>0, <1>1 DEF Slot
<1>2. CASE i + j >= MbxSize
  <2>1. PICK m \in 0 .. MbxSize - 1 : i + j = m + MbxSize
    <3>1. i + j - MbxSize \in 0 .. MbxSize - 1 /\ i + j = (i + j - MbxSize) + MbxSize
      BY <1>0, <1>2
    <3> QED BY <3>1
  <2>2. (m + MbxSize) % MbxSize = m
    BY <1>0
  <2>3. Slot(i, j) = m
    BY <1>0, <1>2, <2>1 DEF Slot
  <2> QED BY <2>1, <2>2, <2>3
<1> QED BY <1>0, <1>1, <1>2

\* Going on from an entry.
LEMMA SlotSteps ==
    ASSUME NEW i \in 0 .. MbxSize - 1
    PROVE  /\ Slot(i, 0) = i /\ Slot(i, MbxSize) = i
           /\ \A j \in 0 .. MbxSize - 1 : /\ Advance(Slot(i, j)) = Slot(i, j + 1)
                                          /\ Slot(Advance(i), j) = Slot(i, j + 1)
           /\ \A j, l \in 0 .. MbxSize - 1 : Slot(i, j) = Slot(i, l) => j = l
  BY RtxAssumption DEF Slot, Advance

\* The message j of mailbox m, and the place of the next one is behind the last.
Message(m, j) == m.msg[Slot(m.last, j - 1)]
Ring(m) == m.first = Slot(m.last, m.count)

\* From a to b messages are put into the ring,
Fed(a, b) ==
    Ring(a) => /\ Ring(b) /\ a.count <= b.count
               /\ \A j \in 1 .. a.count : Message(b, j) = Message(a, j)

\* or the oldest one is taken before.
Fetched(a, b) ==
    Ring(a) => /\ Ring(b) /\ a.count > 0 /\ a.count - 1 <= b.count
               /\ \A j \in 1 .. a.count - 1 : Message(b, j) = Message(a, j + 1)

\* Messages are put in one after the other.
LEMMA FedTrans ==
    ASSUME NEW a \in Mailboxes, NEW b \in Mailboxes, NEW c \in Mailboxes, Fed(b, c)
    PROVE  (Fed(a, b) => Fed(a, c)) /\ (Fetched(a, b) => Fetched(a, c))
<1>1. a.count \in Nat /\ b.count \in Nat /\ c.count \in Nat
  BY RtxAssumption DEF Mailboxes
<1> QED BY <1>1 DEF Fed, Fetched

\* What leaves the indices and the entries alone puts nothing in.
LEMMA FedSame ==
    ASSUME NEW a \in Mailboxes, NEW b, b.first = a.first, b.last = a.last, b.count = a.count,
           b.msg = a.msg
    PROVE  Fed(a, b)
<1>1. a.count \in Nat
  BY RtxAssumption DEF Mailboxes
<1> QED BY <1>1 DEF Fed, Ring, Message

\* Nothing is put into the same mailbox.
LEMMA SameFed ==
    ASSUME NEW s \in Kernels, NEW u, u.mbx = s.mbx
    PROVE  Fed(s.mbx, u.mbx)
  BY FedSame, MbxTypes

\* Store puts a message in.
LEMMA StoreFeeds ==
    ASSUME NEW s \in Kernels, NEW x \in Messages \cup {NoTask}, s.mbx.count < MbxSize,
           NEW u, u = Store(s, x)
    PROVE  Fed(s.mbx, u.mbx) /\ u.mbx \in Mailboxes
<1>0. PICK a : a = s.mbx
  OBVIOUS
<1>1. PICK n, f, l, g : n = a.count /\ f = a.first /\ l = a.last /\ g = a.msg
  OBVIOUS
<1>2. /\ n \in 0 .. MbxSize - 1 /\ f \in 0 .. MbxSize - 1 /\ l \in 0 .. MbxSize - 1
      /\ g \in [0 .. MbxSize - 1 -> Messages \cup {NoTask}] /\ a \in Mailboxes /\ MbxSize \in Nat
  BY <1>0, <1>1, MbxTypes
<1>3. PICK b : b = [a EXCEPT !.msg[a.first] = x, !.first = Advance(a.first), !.count = a.count + 1]
  OBVIOUS
<1>4. u.mbx = b
  BY <1>0, <1>2, <1>3 DEF Store, Kernels, Mailboxes
<1>5. /\ b.count = n + 1 /\ b.first = Advance(f) /\ b.last = l /\ b.msg = [g EXCEPT ![f] = x]
      /\ b.state = a.state
  BY <1>1, <1>2, <1>3 DEF Mailboxes
<1>6. b \in Mailboxes
  <2>1. Advance(f) \in 0 .. MbxSize - 1 /\ n + 1 \in 0 .. MbxSize
    BY <1>2, AdvanceType
  <2> QED BY <1>1, <1>2, <1>3, <2>1 DEF Mailboxes
<1>7. ASSUME Ring(a) PROVE Fed(a, b)
  <2>1. f = Slot(l, n)
    BY <1>1, <1>7 DEF Ring
  <2>2. Ring(b)
    BY <1>2, <1>5, <2>1, SlotSteps DEF Ring
  <2>3. ASSUME NEW j \in 1 .. n PROVE Message(b, j) = Message(a, j)
    <3>1. PICK i : i = Slot(l, j - 1)
      OBVIOUS
    <3>2. j - 1 \in 0 .. MbxSize - 1 /\ j - 1 \in 0 .. MbxSize /\ j - 1 # n
      BY <1>2
    <3>3. i \in 0 .. MbxSize - 1
      BY <1>2, <3>1, <3>2, SlotIs
    <3>4. i # f
      BY <1>2, <2>1, <3>1, <3>2, SlotSteps
    <3>5. b.msg[i] = g[i]
      BY <1>2, <1>5, <3>3, <3>4
    <3> QED BY <1>1, <1>5, <3>1, <3>5 DEF Message
  <2> QED BY <1>1, <1>2, <1>5, <2>2, <2>3 DEF Fed
<1> QED BY <1>0, <1>4, <1>6, <1>7 DEF Fed

\* The oldest message is taken.
LEMMA TakenFetched ==
    ASSUME NEW s \in Kernels, s.mbx.count > 0,
           NEW u, u = [s EXCEPT !.mbx.last = Advance(@), !.mbx.count = @ - 1]
    PROVE  Fetched(s.mbx, u.mbx) /\ u.mbx \in Mailboxes
<1>0. PICK a : a = s.mbx
  OBVIOUS
<1>1. PICK n, l : n = a.count /\ l = a.last
  OBVIOUS
<1>2. n \in 1 .. MbxSize /\ l \in 0 .. MbxSize - 1 /\ a \in Mailboxes /\ MbxSize \in Nat
  BY <1>0, <1>1, MbxTypes
<1>3. PICK b : b = [a EXCEPT !.last = Advance(a.last), !.count = a.count - 1]
  OBVIOUS
<1>4. u.mbx = b
  BY <1>0, <1>2, <1>3 DEF Kernels, Mailboxes
<1>5. b.count = n - 1 /\ b.first = a.first /\ b.last = Advance(l) /\ b.msg = a.msg
  BY <1>1, <1>2, <1>3 DEF Mailboxes
<1>6. b \in Mailboxes
  <2>1. Advance(l) \in 0 .. MbxSize - 1 /\ n - 1 \in 0 .. MbxSize
    BY <1>2, AdvanceType
  <2> QED BY <1>1, <1>2, <1>3, <2>1 DEF Mailboxes
<1>7. ASSUME NEW j \in 0 .. n - 1 PROVE Slot(Advance(l), j) = Slot(l, j + 1)
  BY <1>2, SlotSteps
<1>8. Ring(a) => Ring(b)
  <2>1. n - 1 \in 0 .. n - 1 /\ (n - 1) + 1 = n
    BY <1>2
  <2> QED BY <1>1, <1>5, <1>7, <2>1 DEF Ring
<1>9. ASSUME NEW j \in 1 .. n - 1 PROVE Message(b, j) = Message(a, j + 1)
  <2>1. j - 1 \in 0 .. n - 1 /\ (j - 1) + 1 = (j + 1) - 1
    BY <1>2
  <2> QED BY <1>1, <1>5, <1>7, <2>1 DEF Message
<1> QED BY <1>0, <1>1, <1>2, <1>4, <1>5, <1>6, <1>8, <1>9 DEF Fetched

-----------------------------------------------------------------------------
(***************************************************************************)
(* Requests of interrupts.                                                 *)
(***************************************************************************)

\* Who waits keeps waiting, for the time that is left, or becomes ready.
Calmer(s, u) ==
    /\ u.active = s.active
    /\ \A t \in TCBs : u.st[t] = s.st[t] \/ u.st[t] \in {"READY", "RUNNING"}
    /\ \A t \in Tasks : \A n : Due(u.dly, t, n) => Due(s.dly, t, n)
    /\ \A t \in Tasks : \A n : Due(s.dly, t, n) => Due(u.dly, t, n) \/ u.st[t] \in {"READY", "RUNNING"}
    /\ Spaced(s.dly) => Spaced(u.dly)

\* One after the other.
LEMMA CalmerTrans ==
    ASSUME NEW s, NEW u, NEW v, Calmer(s, u), Calmer(u, v)
    PROVE  Calmer(s, v)
<1>1. \A t \in Tasks : \A n : Due(v.dly, t, n) => Due(s.dly, t, n)
  BY DEF Calmer
<1>2. ASSUME NEW t \in Tasks, NEW n, Due(s.dly, t, n)
      PROVE  Due(v.dly, t, n) \/ v.st[t] \in {"READY", "RUNNING"}
  <2>1. t \in TCBs
    BY TaskNames
  <2> QED BY <1>2, <2>1 DEF Calmer
<1> QED BY <1>1, <1>2 DEF Calmer

\* Threads that become ready.
LEMMA EasedCalmer ==
    ASSUME NEW s, NEW u, Eased(s, u)
    PROVE  Calmer(s, u)
  BY DEF Calmer, Eased, SameObjects

\* What leaves the lists alone.
LEMMA SameCalmer ==
    ASSUME NEW s, NEW u, SameLists(s, u)
    PROVE  Calmer(s, u)
  BY DEF Calmer, SameLists

\* What holds while no thread runs.
Resting(s) == Fit(s, {}, NoTask) /\ Wakeups(s, {}) /\ Kept(s)

\* A request is served, and u is the kernel then.
Answers(s, u) ==
    /\ Resting(u) /\ Calmer(s, u) /\ u.psq = s.psq
    /\ ~ Sending(s) => ~ Sending(u)
    /\ Fed(s.mbx, u.mbx)

\* A request that makes threads ready is served.
LEMMA EasedAnswers ==
    ASSUME NEW s, Resting(s), NEW u, Fit(u, {}, NoTask), Eased(s, u)
    PROVE  Answers(s, u)
<1>1. s \in Kernels /\ u \in Kernels /\ Wakeups(s, {}) /\ Kept(s)
  BY DEF Resting, Fit
<1>2. Wakeups(u, {}) /\ Kept(u)
  BY <1>1, EasedWakeups, EasedKept
<1>3. Sending(u) => Sending(s)
  <2>1. u.wait[Queue] # <<>> => s.wait[Queue] # <<>>
    BY <1>1, EasedEmpty, ObjectNames
  <2>2. u.mbx = s.mbx
    BY DEF Eased, SameObjects
  <2> QED BY <2>1, <2>2 DEF Sending
<1>4. u.psq = s.psq /\ u.mbx = s.mbx
  BY DEF Eased, SameObjects
<1> QED BY <1>1, <1>2, <1>3, <1>4, EasedCalmer, SameFed DEF Answers, Resting

\* A request that changes objects and no list is served.
LEMMA ItemsAnswer ==
    ASSUME NEW s, Resting(s), NEW u \in Kernels, SameLists(s, u), u.psq = s.psq, Wakeups(u, {}),
           Kept(u), ~ Sending(s) => ~ Sending(u), Fed(s.mbx, u.mbx)
    PROVE  Answers(s, u)
<1>1. Fit(u, {}, NoTask)
  BY ObjectsFit DEF Resting
<1> QED BY <1>1, SameCalmer DEF Answers, Resting

\* The token of an interrupt is served.
LEMMA SemAnswers ==
    ASSUME NEW s, Resting(s), NEW o \in Sems, NEW u, u = rt_sem_psh(s, o)
    PROVE  Answers(s, u)
<1>1. s \in Kernels /\ Fit(s, {}, NoTask) /\ Wakeups(s, {}) /\ Kept(s) /\ o \in Objects
  BY ObjectNames DEF Resting, Fit
<1>2. CASE s.wait[o] # <<>>
  <2>1. u = MakeReady(Unchain(s, o), rt_get_first(s, o))
    BY <1>2 DEF rt_sem_psh
  <2>2. Fit(u, {}, NoTask) /\ Eased(s, u)
    BY <1>1, <1>2, <2>1, WakeReady
  <2> QED BY <2>2, EasedAnswers
<1>3. CASE s.wait[o] = <<>>
  <2>1. u = StoreToken(s, o)
    BY <1>3 DEF rt_sem_psh
  <2>2. Changes(s, u)
    BY <1>1, <1>3, <2>1, StoreTokenChange
  <2>3. u.mbx = s.mbx
    BY <1>1, <2>1 DEF StoreToken, Kernels
  <2>4. /\ u \in Kernels /\ SameLists(s, u) /\ u.psq = s.psq /\ Wakeups(u, {}) /\ Kept(u)
    BY <1>1, <2>2 DEF Changes
  <2>5. ~ Sending(s) => ~ Sending(u)
    BY <2>3, <2>4 DEF Sending, SameLists
  <2>6. Fed(s.mbx, u.mbx)
    BY <1>1, <2>3, SameFed
  <2> QED BY <2>4, <2>5, <2>6, ItemsAnswer
<1> QED BY <1>2, <1>3

\* Only the mailbox changes, and nobody waits for it.
LEMMA MbxAnswers ==
    ASSUME NEW s, Resting(s), s.wait[Queue] = <<>>, NEW m \in Mailboxes, Fed(s.mbx, m),
           NEW g \in [TCBs -> Messages \cup {NoTask}], NEW u, u = [s EXCEPT !.msg = g, !.mbx = m]
    PROVE  Answers(s, u)
<1>1. s \in Kernels /\ Wakeups(s, {}) /\ Kept(s)
  BY DEF Resting, Fit
<1>2. /\ u \in Kernels /\ SameLists(s, u) /\ u.psq = s.psq /\ u.live = s.live /\ u.mut = s.mut
      /\ u.mbx = m /\ u.events = s.events /\ u.waits = s.waits /\ u.tokens = s.tokens
  BY <1>1 DEF Kernels, SameLists
<1>3. Wakeups(u, {})
  BY <1>1, <1>2 DEF Wakeups, SameLists
<1>4. Kept(u)
  BY <1>1, <1>2 DEF Kept, SameLists
<1>5. ~ Sending(u)
  BY <1>2 DEF Sending, SameLists
<1> QED BY <1>2, <1>3, <1>4, <1>5, ItemsAnswer

\* The error of a mailbox that has no room.
LEMMA FaultSet ==
    ASSUME NEW s \in Kernels, NEW u, u = [s EXCEPT !.fault = TRUE]
    PROVE  /\ u \in Kernels /\ SameLists(s, u)
           /\ u.psq = s.psq /\ u.live = s.live /\ u.mut = s.mut /\ u.mbx = s.mbx
           /\ u.events = s.events /\ u.waits = s.waits /\ u.tokens = s.tokens
  BY DEF Kernels, SameLists

\* The message of an interrupt is served.
LEMMA MessageAnswers ==
    ASSUME NEW s, Resting(s), ~ Sending(s), NEW x \in Messages, NEW u, u = rt_mbx_psh(s, x)
    PROVE  Answers(s, u)
<1>1. s \in Kernels /\ Fit(s, {}, NoTask) /\ Wakeups(s, {}) /\ Kept(s) /\ Queue \in Objects
  BY ObjectNames DEF Resting, Fit
<1>2. CASE s.wait[Queue] # <<>>
  <2>1. s.mbx.state = 1
    BY <1>1, <1>2 DEF Wakeups, Sending
  <2>2. u = MakeReady(Unchain(s, Queue), rt_get_first(s, Queue))
    BY <1>2, <2>1 DEF rt_mbx_psh
  <2>3. Fit(u, {}, NoTask) /\ Eased(s, u)
    BY <1>1, <1>2, <2>2, WakeReady
  <2> QED BY <2>3, EasedAnswers
<1>3. CASE s.wait[Queue] = <<>> /\ s.mbx.count < MbxSize
  <2>1. u = Store(s, x)
    BY <1>3 DEF rt_mbx_psh
  <2>2. PICK m \in Mailboxes : Store(s, x) = [s EXCEPT !.msg = s.msg, !.mbx = m]
    BY <1>1, <1>3, StoreIs, ZenonT(40)
  <2>3. u.mbx = m
    BY <1>1, <2>1, <2>2 DEF Kernels
  <2>4. Fed(s.mbx, m)
    BY <1>1, <1>3, <2>1, <2>3, StoreFeeds
  <2>5. u = [s EXCEPT !.msg = s.msg, !.mbx = m] /\ s.msg \in [TCBs -> Messages \cup {NoTask}]
    BY <1>1, <2>1, <2>2, MbxTypes
  <2> QED BY <1>3, <2>4, <2>5, MbxAnswers
<1>4. CASE s.wait[Queue] = <<>> /\ ~(s.mbx.count < MbxSize)
  <2>1. u = [s EXCEPT !.fault = TRUE]
    BY <1>4 DEF rt_mbx_psh
  <2>2. /\ u \in Kernels /\ SameLists(s, u)
        /\ u.psq = s.psq /\ u.live = s.live /\ u.mut = s.mut /\ u.mbx = s.mbx
        /\ u.events = s.events /\ u.waits = s.waits /\ u.tokens = s.tokens
    BY <1>1, <2>1, FaultSet
  <2>3. Wakeups(u, {}) /\ Kept(u) /\ ~ Sending(u)
    BY <1>1, <2>2 DEF Wakeups, Kept, Sending, SameLists
  <2>4. Fed(s.mbx, u.mbx)
    BY <1>1, <2>2, SameFed
  <2> QED BY <2>2, <2>3, <2>4, ItemsAnswer
<1> QED BY <1>2, <1>3, <1>4

\* The signal of an interrupt is served.
LEMMA FlagsAnswer ==
    ASSUME NEW s, Resting(s), NEW t \in Tasks, t \in s.active, NEW flags \in SUBSET Flags,
           NEW u, u = rt_evt_psh(s, t, flags)
    PROVE  Answers(s, u)
<1>1. s \in Kernels /\ Wakeups(s, {}) /\ Kept(s) /\ Fit(s, {}, NoTask) /\ t \in TCBs
  BY TaskNames DEF Resting, Fit
<1>2. CASE ~ Met(s, t, flags)
  <2>1. u = Raised(s, t, flags)
    BY <1>2 DEF rt_evt_psh, SetFlags, Raised, Met
  <2>2. PICK e : /\ Flagged(s, u, [s.events EXCEPT ![t] = e], [s.waits EXCEPT ![t] = s.waits[t]])
                 /\ u.events[t] = e
    <3>1. \E e : /\ Flagged(s, Raised(s, t, flags),
                            [s.events EXCEPT ![t] = e], [s.waits EXCEPT ![t] = s.waits[t]])
                 /\ Raised(s, t, flags).events[t] = e
      BY <1>1, FlagsSet, Zenon
    <3> QED BY <2>1, <3>1, Zenon
  <2>3. Unmet(s.st[t], s.waits[t], e)
    BY <1>2, <2>1, <2>2 DEF Met, Unmet
  <2>4. Wakeups(u, {})
    <3>1. Flagged(s, u, [s.events EXCEPT ![t] = e], [s.waits EXCEPT ![t] = s.waits[t]])
      BY <2>2
    <3>2. s \in Kernels /\ Wakeups(s, {}) /\ t \in TCBs
      BY <1>1
    <3> QED BY <2>3, <3>1, <3>2, FlaggedWakeups, Zenon
  <2>5. Kept(u)
    BY <1>1, <2>2, FlaggedKept
  <2>6. u \in Kernels /\ SameLists(s, u) /\ u.psq = s.psq /\ u.mbx = s.mbx
    BY <2>2 DEF Flagged
  <2>7. ~ Sending(s) => ~ Sending(u)
    BY <2>6 DEF Sending, SameLists
  <2>8. Fed(s.mbx, u.mbx)
    BY <1>1, <2>6, SameFed
  <2> QED BY <2>4, <2>5, <2>6, <2>7, <2>8, ItemsAnswer
<1>3. CASE Met(s, t, flags)
  <2>1. PICK a : a = Took(s, t, flags)
    OBVIOUS
  <2>2. u = MakeReady(rt_rmv_dly(a, t), t)
    BY <1>3, <2>1 DEF rt_evt_psh, SetFlags, Raised, Met, Took
  <2>3. PICK e, w : Flagged(s, a, [s.events EXCEPT ![t] = e], [s.waits EXCEPT ![t] = w])
    BY <1>1, <2>1, FlagsSet
  <2>4. Wakeups(a, {t}) /\ Kept(a)
    <3>1. Wakeups(a, {t})
      BY <1>1, <2>3, FlaggedWakeups, Zenon
    <3>2. Kept(a)
      BY <1>1, <2>3, FlaggedKept
    <3> QED BY <3>1, <3>2
  <2>5. /\ a \in Kernels /\ SameLists(s, a) /\ a.psq = s.psq /\ a.mbx = s.mbx
    BY <2>3 DEF Flagged
  <2>6. Fit(a, {}, NoTask) /\ t \in a.active
    BY <1>1, <2>5, ObjectsFit DEF SameLists
  <2>7. a.st[t] \in Waits \ InQueue
    <3>1. s.st[t] \in {"WAIT_AND", "WAIT_OR"}
      BY <1>3 DEF Met
    <3>2. s.st[t] \in Waits \ InQueue
      BY <3>1, StateNames
    <3> QED BY <2>5, <3>2 DEF SameLists
  <2>8. PICK b : b = rt_rmv_dly(a, t)
    OBVIOUS
  <2>9. /\ Fit(b, {t}, NoTask) /\ ~ InDly(b.dly, t) /\ t \in Alive(b) /\ t \in {t}
        /\ \A z : Eased(b, z) /\ z.st[t] \in {"READY", "RUNNING"} => Eased(a, z)
    BY <2>6, <2>7, <2>8, LooseWake
  <2>10. PICK X : X = {t}
    OBVIOUS
  <2>11. t \in X /\ X \ {t} = {} /\ Fit(b, X, NoTask)
    BY <2>9, <2>10
  <2>12. u = MakeReady(b, t)
    BY <2>2, <2>8
  <2>13. /\ Fit(u, X \ {t}, NoTask) /\ Eased(b, u)
         /\ \A x : InSeq(u.rdy, x) <=> InSeq(b.rdy, x) \/ x = t
    BY <2>9, <2>11, <2>12, MakeReadyFit
  <2>14. u.st[t] = "READY"
    BY <1>1, <2>13 DEF Fit, Chained
  <2>15. Fit(u, {}, NoTask) /\ Eased(a, u) /\ u \in Kernels
    BY <2>9, <2>11, <2>13, <2>14 DEF Fit
  <2>16. \A x \in {t} : u.st[x] \in {"READY", "RUNNING"}
    BY <2>14
  <2>17. Wakeups(u, {})
    BY <2>4, <2>5, <2>15, <2>16, EasedWakeups
  <2>18. Kept(u)
    BY <2>4, <2>15, EasedKept
  <2>19. u.psq = s.psq /\ u.mbx = s.mbx
    BY <2>5, <2>15 DEF Eased, SameObjects
  <2>20. Calmer(s, u)
    BY <2>5, <2>15, SameCalmer, EasedCalmer, CalmerTrans
  <2>21. Sending(u) => Sending(s)
    <3>1. u.wait[Queue] # <<>> => a.wait[Queue] # <<>>
      BY <2>5, <2>15, EasedEmpty, ObjectNames
    <3> QED BY <2>5, <2>19, <3>1 DEF Sending, SameLists
  <2>22. Fed(s.mbx, u.mbx)
    BY <1>1, <2>19, SameFed
  <2> QED BY <2>15, <2>17, <2>18, <2>19, <2>20, <2>21, <2>22 DEF Answers, Resting
<1> QED BY <1>2, <1>3

\* What a request is for: a semaphore, a thread or the mailbox.
LEMMA RequestTypes ==
    ASSUME NEW e \in Requests
    PROVE  \/ e.id \in Sems /\ e.id \notin TCBs /\ e.id # Queue
           \/ e.id \in Tasks /\ e.id \in TCBs /\ e.arg \in SUBSET Flags
           \/ e.id = Queue /\ e.id \notin TCBs /\ e.arg \in Messages
<1>1. CASE e \in [id : Sems, arg : {0}]
  BY <1>1, ObjectNames
<1>2. CASE e \in [id : Tasks, arg : SUBSET Flags]
  BY <1>2, TaskNames
<1>3. CASE e \in [id : {Queue}, arg : Messages]
  BY <1>3, ObjectNames
<1> QED BY <1>1, <1>2, <1>3 DEF Requests

\* Every request is served.
LEMMA RequestAnswers ==
    ASSUME NEW s, Resting(s), NEW e \in Requests, e.id \in Tasks => e.id \in Lasting,
           e.id = Queue => ~ Sending(s), NEW u, u = Answered(s, e)
    PROVE  Answers(s, u)
<1>1. CASE e.id \in Sems /\ e.id \notin TCBs /\ e.id # Queue
  <2>1. u = rt_sem_psh(s, e.id)
    BY <1>1 DEF Answered
  <2> QED BY <1>1, <2>1, SemAnswers
<1>2. CASE e.id \in Tasks /\ e.id \in TCBs /\ e.arg \in SUBSET Flags
  <2>1. u = rt_evt_psh(s, e.id, e.arg)
    <3>1. e.id \in TCBs /\ e.id # Queue
      BY <1>2, ObjectNames
    <3> HIDE <1>2
    <3> QED BY <3>1 DEF Answered
  <2>2. e.id \in s.active
    BY <1>2 DEF Resting, Kept
  <2>3. PICK t, f : t = e.id /\ f = e.arg
    OBVIOUS
  <2>4. t \in Tasks /\ t \in s.active /\ f \in SUBSET Flags /\ u = rt_evt_psh(s, t, f)
    BY <1>2, <2>1, <2>2, <2>3
  <2> QED BY <2>4, FlagsAnswer
<1>3. CASE e.id = Queue /\ e.id \notin TCBs /\ e.arg \in Messages
  <2>1. u = rt_mbx_psh(s, e.arg)
    BY <1>3 DEF Answered
  <2> QED BY <1>3, <2>1, MessageAnswers
<1> QED BY <1>1, <1>2, <1>3, RequestTypes

\* The states that rt_pop_req passes; a is the kernel when nobody runs.
Serving(s, a, n, f) ==
    /\ f[0] = a /\ \A i \in 1 .. n : f[i] = Answered(f[i - 1], s.psq[i])
    /\ rt_pop_req(s) = SwitchToFirst([f[n] EXCEPT !.psq = <<>>])

\* rt_pop_req passes through these states.
LEMMA PopReqIs ==
    ASSUME NEW s, NEW n, n = Len(s.psq), n \in Nat, NEW a, a = rt_put_rdy_first(s, s.run)
    PROVE  \E f : Serving(s, a, n, f)
<1> DEFINE w == CHOOSE g : g = [i \in 0 .. n |-> IF i = 0 THEN a ELSE Answered(g[i - 1], s.psq[i])]
<1>2. rt_pop_req(s) = SwitchToFirst([w[n] EXCEPT !.psq = <<>>])
  BY DEF rt_pop_req, Answered
<1>3. w = [i \in 0 .. n |-> IF i = 0 THEN a ELSE Answered(w[i - 1], s.psq[i])]
  <2>1. PICK f : WalkUpTo(2, a, s.psq, f, n)
    BY WalkExists
  <2>2. f = [i \in 0 .. n |-> IF i = 0 THEN a ELSE Answered(f[i - 1], s.psq[i])]
    BY <2>1 DEF WalkUpTo, StepOf
  <2> QED BY <2>2
<1> HIDE DEF w
<1>4. \A i \in 0 .. n : w[i] = IF i = 0 THEN a ELSE Answered(w[i - 1], s.psq[i])
  BY <1>3
<1>5. w[0] = a /\ \A i \in 1 .. n : w[i] = Answered(w[i - 1], s.psq[i])
  BY <1>4
<1> QED BY <1>2, <1>5 DEF Serving

\* The requests of psq are gone.
LEMMA ServedAll ==
    ASSUME NEW s, Resting(s), NEW u, u = [s EXCEPT !.psq = <<>>]
    PROVE  Resting(u) /\ SameLists(s, u) /\ u.psq = <<>> /\ u.mbx = s.mbx
<1>1. s \in Kernels /\ Wakeups(s, {}) /\ Kept(s)
  BY DEF Resting, Fit
<1>2. /\ u \in Kernels /\ SameLists(s, u) /\ u.psq = <<>> /\ u.live = s.live /\ u.mut = s.mut
      /\ u.mbx = s.mbx /\ u.events = s.events /\ u.waits = s.waits /\ u.tokens = s.tokens
  <2>1. <<>> \in Seq(Requests)
    OBVIOUS
  <2> QED BY <1>1, <2>1 DEF Kernels, SameLists
<1>3. Wakeups(u, {})
  BY <1>1, <1>2 DEF Wakeups, SameLists
<1>4. Kept(u)
  <2>1. \A i \in DOMAIN u.psq : u.psq[i].id \in Tasks => u.psq[i].id \in Lasting
    BY <1>2
  <2> QED BY <1>1, <1>2, <2>1 DEF Kept, SameLists
<1>5. Fit(u, {}, NoTask)
  BY <1>2, ObjectsFit DEF Resting
<1> QED BY <1>2, <1>3, <1>4, <1>5 DEF Resting

\* PendSV serves the requests, one after the other.
LEMMA PopReqServes ==
    ASSUME NEW s, Sound(s), (\E i \in DOMAIN s.psq : s.psq[i].id = Queue) => ~ Sending(s),
           NEW u, u = rt_pop_req(s)
    PROVE  Sound(u) /\ u.psq = <<>> /\ Calmer(s, u) /\ Fed(s.mbx, u.mbx)
<1>1. s \in Kernels /\ Wakeups(s, {}) /\ Kept(s) /\ Fit(s, {}, s.run) /\ Top(s)
  BY DEF Sound, Fit
<1>2. PICK n : n = Len(s.psq)
  OBVIOUS
<1>3. n \in Nat /\ DOMAIN s.psq = 1 .. n /\ \A i \in 1 .. n : s.psq[i] \in Requests
  BY <1>1, <1>2 DEF Kernels
<1>4. PICK a : a = rt_put_rdy_first(s, s.run)
  OBVIOUS
<1>5. PICK f : Serving(s, a, n, f)
  BY <1>2, <1>3, <1>4, PopReqIs
<1>6. Fit(a, {}, NoTask) /\ Eased(s, a)
  BY <1>1, <1>4, PreemptFit
<1>7. PICK A : A = {i \in 0 .. n : /\ Resting(f[i]) /\ Calmer(s, f[i]) /\ f[i].psq = s.psq
                                   /\ ~ Sending(s) => ~ Sending(f[i])
                                   /\ Fed(s.mbx, f[i].mbx)}
  OBVIOUS
<1>8. 0 \in A
  <2>1. f[0] = a /\ a \in Kernels
    BY <1>5, <1>6 DEF Serving, Fit
  <2>2. Wakeups(a, {}) /\ Kept(a)
    BY <1>1, <1>6, <2>1, EasedWakeups, EasedKept
  <2>3. a.psq = s.psq /\ a.mbx = s.mbx
    BY <1>6 DEF Eased, SameObjects
  <2>4. Sending(a) => Sending(s)
    <3>1. a.wait[Queue] # <<>> => s.wait[Queue] # <<>>
      BY <1>1, <1>6, <2>1, EasedEmpty, ObjectNames
    <3> QED BY <2>3, <3>1 DEF Sending
  <2>5. Calmer(s, a) /\ Resting(a)
    BY <1>6, <2>2, EasedCalmer DEF Resting
  <2>6. 0 \in 0 .. n
    BY <1>3
  <2>7. Fed(s.mbx, a.mbx)
    BY <1>1, <2>3, SameFed
  <2> QED BY <1>7, <2>1, <2>3, <2>4, <2>5, <2>6, <2>7
<1>9. ASSUME NEW i \in 1 .. n, i - 1 \in A
      PROVE  i \in A
  <2>1. PICK c, e, v : c = f[i - 1] /\ e = s.psq[i] /\ v = f[i]
    OBVIOUS
  <2>2. /\ Resting(c) /\ Calmer(s, c) /\ c.psq = s.psq /\ (~ Sending(s) => ~ Sending(c))
        /\ Fed(s.mbx, c.mbx)
    BY <1>7, <1>9, <2>1
  <2>3. e \in Requests /\ (e.id \in Tasks => e.id \in Lasting)
    BY <1>1, <1>3, <2>1 DEF Kept
  <2>4. e.id = Queue => ~ Sending(c)
    BY <1>3, <2>1, <2>2
  <2>5. v = Answered(c, e)
    BY <1>5, <2>1 DEF Serving
  <2>6. Answers(c, v)
    BY <2>2, <2>3, <2>4, <2>5, RequestAnswers
  <2>7. /\ Resting(v) /\ Calmer(c, v) /\ v.psq = s.psq /\ (~ Sending(s) => ~ Sending(v))
    BY <2>2, <2>6 DEF Answers
  <2>8. Calmer(s, v)
    BY <2>2, <2>7, CalmerTrans
  <2>9. i \in 0 .. n
    BY <1>3
  <2>10. Fed(s.mbx, v.mbx)
    <3>1. s.mbx \in Mailboxes /\ c.mbx \in Mailboxes /\ v.mbx \in Mailboxes
      BY <1>1, <2>2, <2>7, MbxTypes DEF Resting, Fit
    <3>2. Fed(c.mbx, v.mbx)
      BY <2>6 DEF Answers
    <3> QED BY <2>2, <3>1, <3>2, FedTrans
  <2> QED BY <1>7, <2>1, <2>7, <2>8, <2>9, <2>10
<1>10. n \in A
  <2>1. \A i \in 0 .. n : i \in A
    BY <1>3, <1>8, <1>9, StepByStep
  <2> QED BY <1>3, <2>1
<1>11. PICK c : c = f[n]
  OBVIOUS
<1>12. PICK g : g = [c EXCEPT !.psq = <<>>]
  OBVIOUS
<1>13. Resting(c) /\ Calmer(s, c) /\ Fed(s.mbx, c.mbx)
  BY <1>7, <1>10, <1>11
<1>14. Resting(g) /\ SameLists(c, g) /\ g.psq = <<>> /\ g.mbx = c.mbx
  BY <1>12, <1>13, ServedAll
<1>15. u = SwitchToFirst(g)
  <2>1. u = SwitchToFirst([f[n] EXCEPT !.psq = <<>>])
    BY <1>5, Zenon DEF Serving
  <2> QED BY <1>11, <1>12, <2>1, Zenon
<1>16. Fit(g, {}, NoTask) /\ Wakeups(g, {}) /\ Kept(g) /\ g \in Kernels
  BY <1>14 DEF Resting, Fit
<1>17. g.rdy # <<>>
  BY <1>16, SomeReady
<1>18. Fit(u, {}, u.run) /\ Top(u) /\ Eased(g, u)
  BY <1>15, <1>16, <1>17, SwitchFit
<1>19. Wakeups(u, {}) /\ Kept(u)
  <2>1. u \in Kernels
    BY <1>18 DEF Fit
  <2> QED BY <1>16, <1>18, <2>1, EasedWakeups, EasedKept
<1>20. u.psq = <<>>
  BY <1>14, <1>18 DEF Eased, SameObjects
<1>21. Calmer(s, u)
  <2>1. Calmer(s, g)
    BY <1>13, <1>14, SameCalmer, CalmerTrans
  <2> QED BY <1>18, <2>1, EasedCalmer, CalmerTrans
<1>22. Fed(s.mbx, u.mbx)
  <2>1. u.mbx = c.mbx
    BY <1>14, <1>18 DEF Eased, SameObjects
  <2> QED BY <1>13, <2>1
<1> QED BY <1>18, <1>19, <1>20, <1>21, <1>22 DEF Sound

-----------------------------------------------------------------------------
(***************************************************************************)
(* The user timers.                                                        *)
(***************************************************************************)

\* A list of timers is one whose times can be added up.
LEMMA TimersDated ==
    ASSUME NEW q \in Seq(TimerEntries)
    PROVE  /\ Dated(q) /\ DOMAIN q = 1 .. Len(q) /\ Len(q) \in Nat
           /\ \A i \in 1 .. Len(q) : /\ q[i] \in TimerEntries /\ q[i].x \in Timers
                                     /\ q[i].d \in Int /\ q[i].icnt \in Nat
<1>1. Len(q) \in Nat /\ DOMAIN q = 1 .. Len(q) /\ \A i \in 1 .. Len(q) : q[i] \in TimerEntries
  OBVIOUS
<1>2. \A e \in TimerEntries : e.x \in Timers /\ e.d \in Int /\ e.icnt \in Nat
  BY DEF TimerEntries
<1> QED BY <1>1, <1>2 DEF Dated

\* List p is q with difference d at position i.
TimerSet(q, i, d, p) ==
    /\ p \in Seq(TimerEntries) /\ Len(p) = Len(q)
    /\ \A j \in 1 .. Len(q) : /\ p[j].x = q[j].x /\ p[j].icnt = q[j].icnt
                              /\ p[j].d = IF j = i THEN d ELSE q[j].d

\* One difference is changed.
LEMMA ChangeTimer ==
    ASSUME NEW q \in Seq(TimerEntries), NEW i \in 1 .. Len(q), NEW d \in Int,
           NEW p, p = [q EXCEPT ![i].d = d]
    PROVE  TimerSet(q, i, d, p)
<1>1. PICK e : e = [q[i] EXCEPT !.d = d]
  OBVIOUS
<1>2. e \in TimerEntries /\ e.x = q[i].x /\ e.icnt = q[i].icnt /\ e.d = d
  <2>1. q[i] \in TimerEntries
    BY TimersDated
  <2> QED BY <1>1, <2>1 DEF TimerEntries
<1>3. p = [q EXCEPT ![i] = e]
  BY <1>1
<1>4. /\ p \in Seq(TimerEntries) /\ Len(p) = Len(q)
      /\ \A j \in 1 .. Len(q) : p[j] = IF j = i THEN e ELSE q[j]
  <2> HIDE <1>1
  <2> QED BY <1>2, <1>3
<1> QED BY <1>2, <1>4 DEF TimerSet

\* An entry e, due in delay ticks, at position i.
TimerAt(q, i, delay, e, r) ==
    /\ r \in Seq(TimerEntries) /\ Len(r) = Len(q) + 1
    /\ \A j \in 1 .. Len(q) + 1 :
          /\ r[j].x = IF j < i THEN q[j].x ELSE IF j = i THEN e.x ELSE q[j - 1].x
          /\ r[j].icnt = IF j < i THEN q[j].icnt ELSE IF j = i THEN e.icnt ELSE q[j - 1].icnt
    /\ \A j \in 1 .. Len(q) + 1 : r[j].d =
          IF j < i THEN q[j].d ELSE IF j = i THEN e.d
          ELSE IF j = i + 1 THEN q[i].d - e.d ELSE q[j - 1].d
    /\ DuesAt(q, i, delay, r)

\* An entry is put in a list of timers.
LEMMA InsertTimerList ==
    ASSUME NEW p \in Seq(TimerEntries), NEW i \in 1 .. Len(p) + 1, NEW e \in TimerEntries
    PROVE  /\ InsertAt(p, i, e) \in Seq(TimerEntries) /\ Len(InsertAt(p, i, e)) = Len(p) + 1
           /\ \A j \in 1 .. Len(p) + 1 : InsertAt(p, i, e)[j] =
                 IF j < i THEN p[j] ELSE IF j = i THEN e ELSE p[j - 1]
  BY InsertAtList

\* An entry is put in a list whose next difference was made smaller.
LEMMA InsertTimer ==
    ASSUME NEW q \in Seq(TimerEntries), NEW i \in 1 .. Len(q) + 1, NEW delay \in Int,
           NEW e \in TimerEntries, e.d = delay - DueAt(q, i - 1),
           NEW p \in Seq(TimerEntries), Len(p) = Len(q),
           \A j \in 1 .. Len(q) : /\ p[j].x = q[j].x /\ p[j].icnt = q[j].icnt
                                  /\ p[j].d = IF j = i THEN q[j].d - e.d ELSE q[j].d
    PROVE  TimerAt(q, i, delay, e, InsertAt(p, i, e))
<1> DEFINE r == InsertAt(p, i, e)
<1>1. Dated(q) /\ Len(q) \in Nat /\ i \in Nat
  BY TimersDated
<1>2. i \in 1 .. Len(p) + 1
  OBVIOUS
<1>3. /\ r \in Seq(TimerEntries) /\ Len(r) = Len(p) + 1
      /\ \A j \in 1 .. Len(p) + 1 : r[j] = IF j < i THEN p[j] ELSE IF j = i THEN e ELSE p[j - 1]
  BY <1>2, InsertTimerList
<1> HIDE DEF r
<1>4. ASSUME NEW j \in 1 .. Len(q) + 1
      PROVE  /\ r[j].x = IF j < i THEN q[j].x ELSE IF j = i THEN e.x ELSE q[j - 1].x
             /\ r[j].icnt = IF j < i THEN q[j].icnt ELSE IF j = i THEN e.icnt ELSE q[j - 1].icnt
             /\ r[j].d = IF j < i THEN q[j].d ELSE IF j = i THEN e.d
                         ELSE IF j = i + 1 THEN q[i].d - e.d ELSE q[j - 1].d
  <2>0. r[j] = IF j < i THEN p[j] ELSE IF j = i THEN e ELSE p[j - 1]
    BY <1>3
  <2>1. CASE j < i
    <3>1. j \in 1 .. Len(q) /\ j # i
      BY <1>1, <2>1
    <3> QED BY <2>0, <2>1, <3>1
  <2>2. CASE j = i
    BY <1>1, <2>0, <2>2
  <2>3. CASE j > i
    <3>1. j - 1 \in 1 .. Len(q) /\ ~(j < i) /\ j # i /\ (j - 1 = i <=> j = i + 1)
      BY <1>1, <2>3
    <3>2. r[j] = p[j - 1] /\ p[j - 1].x = q[j - 1].x /\ p[j - 1].icnt = q[j - 1].icnt
          /\ p[j - 1].d = IF j - 1 = i THEN q[j - 1].d - e.d ELSE q[j - 1].d
      BY <2>0, <3>1
    <3> QED BY <3>1, <3>2
  <2>4. j < i \/ j = i \/ j > i
    BY <1>1
  <2> QED BY <2>1, <2>2, <2>3, <2>4, Zenon
<1>5. Len(r) = Len(q) + 1
  BY <1>3
<1>6. DuesAt(q, i, delay, r)
  <2>1. PICK d : d = e.d
    OBVIOUS
  <2>2. \A j \in 1 .. Len(q) + 1 :
           r[j].d = IF j < i THEN q[j].d ELSE IF j = i THEN d
                    ELSE IF j = i + 1 THEN q[i].d - d ELSE q[j - 1].d
    BY <1>4, <2>1
  <2>3. d = delay - DueAt(q, i - 1)
    BY <2>1
  <2>4. DiffAt(q, i, d, r)
    BY <1>5, <2>2 DEF DiffAt
  <2>5. Dated(q) /\ i \in 1 .. Len(q) + 1 /\ delay \in Int
    BY <1>1
  <2> HIDE <2>1
  <2> QED BY <2>3, <2>4, <2>5, DueInserted
<1>7. TimerAt(q, i, delay, e, r)
  BY <1>3, <1>4, <1>5, <1>6 DEF TimerAt
<1> QED BY <1>7 DEF r

\* The place of a timer among the others.
TimerPlace(q, tcnt) == Place(q, LAMBDA j : DueAt(q, j) <= tcnt)

\* The place that rt_timer_insert finds.
LEMMA TimerPlaceIs ==
    ASSUME NEW q, Dated(q), NEW tcnt, NEW i, i = TimerPlace(q, tcnt)
    PROVE  /\ i \in 1 .. Len(q) + 1
           /\ \A l \in 1 .. i - 1 : DueAt(q, l) <= tcnt
           /\ i <= Len(q) => ~(DueAt(q, i) <= tcnt)
<1>1. Len(q) \in Nat
  BY DEF Dated
<1>2. PICK A, T : /\ A = {l \in 1 .. Len(q) : DueAt(q, l) <= tcnt}
                  /\ T = {j \in 0 .. Len(q) : \A l \in 1 .. j : DueAt(q, l) <= tcnt}
  OBVIOUS
<1>3. T = AllowedUpTo(Len(q), A)
  <2>1. \A j \in 0 .. Len(q) : \A l \in 1 .. j : l \in 1 .. Len(q)
    BY <1>1
  <2>2. \A j \in 0 .. Len(q) :
            (\A l \in 1 .. j : DueAt(q, l) <= tcnt) <=> (\A l \in 1 .. j : l \in A)
    BY <1>2, <2>1
  <2> QED BY <1>2, <2>2 DEF AllowedUpTo
<1>4. i = Max(T) + 1
  BY <1>2 DEF TimerPlace, Place
<1>5. i \in 1 .. Len(q) + 1 /\ (\A l \in 1 .. i - 1 : l \in A) /\ (i <= Len(q) => i \notin A)
  BY <1>1, <1>3, <1>4, PlaceInList
<1>6. i <= Len(q) => i \in 1 .. Len(q)
  BY <1>1, <1>5
<1> QED BY <1>2, <1>5, <1>6

\* A timer is started.
LEMMA TimerInsert ==
    ASSUME NEW q \in Seq(TimerEntries), NEW x \in Timers, NEW tcnt \in Int, NEW icnt \in Nat,
           NEW r, r = rt_timer_insert(q, x, tcnt, icnt)
    PROVE  \E i \in 1 .. Len(q) + 1, e \in TimerEntries :
              /\ TimerAt(q, i, tcnt, e, r)
              /\ e.x = x /\ e.icnt = icnt /\ e.d = tcnt - DueAt(q, i - 1)
              /\ \A l \in 1 .. i - 1 : DueAt(q, l) <= tcnt
              /\ i <= Len(q) => ~(DueAt(q, i) <= tcnt)
<1>1. Dated(q) /\ Len(q) \in Nat /\ \A j \in 1 .. Len(q) : q[j].d \in Int
  BY TimersDated
<1>2. PICK i : i = TimerPlace(q, tcnt)
  OBVIOUS
<1>3. /\ i \in 1 .. Len(q) + 1 /\ i \in Nat
      /\ \A l \in 1 .. i - 1 : DueAt(q, l) <= tcnt
      /\ i <= Len(q) => ~(DueAt(q, i) <= tcnt)
  BY <1>1, <1>2, TimerPlaceIs
<1>4. PICK d : d = tcnt - DueAt(q, i - 1)
  OBVIOUS
<1>5. d \in Int
  <2>1. i - 1 \in 0 .. Len(q)
    BY <1>1, <1>3
  <2>2. DueAt(q, i - 1) \in Int
    BY <1>1, <2>1, DueAtSums
  <2> QED BY <1>4, <2>2
<1>6. PICK e : e = [x |-> x, d |-> d, icnt |-> icnt]
  OBVIOUS
<1>7. e \in TimerEntries /\ e.x = x /\ e.d = d /\ e.icnt = icnt
  BY <1>5, <1>6 DEF TimerEntries
<1>8. PICK p : p = IF i > Len(q) THEN q ELSE [q EXCEPT ![i].d = @ - d]
  OBVIOUS
<1>9. r = InsertAt(p, i, e)
  BY <1>2, <1>4, <1>6, <1>8, Zenon DEF rt_timer_insert, TimerPlace
<1>10. /\ p \in Seq(TimerEntries) /\ Len(p) = Len(q)
       /\ \A j \in 1 .. Len(q) : /\ p[j].x = q[j].x /\ p[j].icnt = q[j].icnt
                                 /\ p[j].d = IF j = i THEN q[j].d - d ELSE q[j].d
  <2>1. CASE i > Len(q)
    <3>1. p = q /\ \A j \in 1 .. Len(q) : j # i
      BY <1>1, <1>8, <2>1
    <3> HIDE <1>8
    <3> QED BY <3>1
  <2>2. CASE ~(i > Len(q))
    <3>1. PICK v : v = q[i].d - d
      OBVIOUS
    <3>2. i \in 1 .. Len(q) /\ v \in Int
      BY <1>1, <1>3, <1>5, <2>2, <3>1
    <3>3. p = [q EXCEPT ![i].d = v]
      BY <1>8, <2>2, <3>1
    <3>4. /\ p \in Seq(TimerEntries) /\ Len(p) = Len(q)
          /\ \A j \in 1 .. Len(q) : /\ p[j].x = q[j].x /\ p[j].icnt = q[j].icnt
                                    /\ p[j].d = IF j = i THEN v ELSE q[j].d
      <4>1. TimerSet(q, i, v, p)
        BY <3>2, <3>3, ChangeTimer, Zenon
      <4> QED BY <4>1 DEF TimerSet
    <3> QED BY <3>1, <3>4
  <2> QED BY <2>1, <2>2
<1>11. TimerAt(q, i, tcnt, e, r)
  <2>1. /\ \A j \in 1 .. Len(q) : /\ p[j].x = q[j].x /\ p[j].icnt = q[j].icnt
                                  /\ p[j].d = IF j = i THEN q[j].d - e.d ELSE q[j].d
    BY <1>7, <1>10
  <2>2. e.d = tcnt - DueAt(q, i - 1)
    BY <1>4, <1>7
  <2>3. p \in Seq(TimerEntries) /\ Len(p) = Len(q)
    BY <1>10
  <2> HIDE <1>2, <1>4, <1>6, <1>8
  <2> QED BY <1>3, <1>7, <1>9, <2>1, <2>2, <2>3, InsertTimer
<1>12. e.d = tcnt - DueAt(q, i - 1)
  BY <1>4, <1>7
<1> QED BY <1>3, <1>7, <1>11, <1>12

\* Timer x runs.
InTmr(q, x) == \E i \in DOMAIN q : q[i].x = x

\* The types of a list of timers.
TimerDomain(q) ==
    /\ Len(q) \in Nat /\ DOMAIN q = 1 .. Len(q) /\ Dated(q)
    /\ \A i \in 1 .. Len(q) : /\ q[i].x \in Timers /\ q[i].d \in Int /\ q[i].icnt \in Nat
                              /\ DueAt(q, i) \in Int

\* Every list of timers has them.
LEMMA TimerDomainIs ==
    ASSUME NEW q \in Seq(TimerEntries)
    PROVE  TimerDomain(q)
<1>1. /\ Dated(q) /\ DOMAIN q = 1 .. Len(q) /\ Len(q) \in Nat
      /\ \A i \in 1 .. Len(q) : q[i].x \in Timers /\ q[i].d \in Int /\ q[i].icnt \in Nat
  BY TimersDated
<1>2. \A i \in 1 .. Len(q) : DueAt(q, i) \in Int
  <2>1. \A i \in 0 .. Len(q) : DueAt(q, i) \in Int
    BY <1>1, DueAtSums
  <2> QED BY <1>1, <2>1
<1> QED BY <1>1, <1>2 DEF TimerDomain

\* List r has the timers of q, and timer x, due in n ticks.
TimerMore(q, r, x, n) ==
    \A y, m : TimerDue(r, y, m) <=> TimerDue(q, y, m) \/ (y = x /\ m = n)

\* List r has the timers of q but timer x.
TimerLess(q, r, x) == \A y, m : TimerDue(r, y, m) <=> TimerDue(q, y, m) /\ y # x

\* A timer is started that does not run: those that are due stay in front.
LEMMA TimerStarted ==
    ASSUME NEW q, TimerList(q), NEW x \in Timers, ~ InTmr(q, x),
           NEW tcnt \in Nat \ {0}, NEW icnt \in Nat \ {0},
           NEW r, r = rt_timer_insert(q, x, tcnt, icnt)
    PROVE  /\ TimerList(r) /\ Len(r) = Len(q) + 1 /\ TimerMore(q, r, x, tcnt)
           /\ \A j \in 1 .. Len(q) : DueAt(q, j) = 0 => r[j].x = q[j].x /\ DueAt(r, j) = 0
<1>1. q \in Seq(TimerEntries) /\ TimerDomain(q) /\ tcnt \in Int /\ icnt \in Nat
  BY TimerDomainIs DEF TimerList
<1>2. /\ Len(q) \in Nat /\ DOMAIN q = 1 .. Len(q)
      /\ \A j \in 1 .. Len(q) : DueAt(q, j) \in Int
  BY <1>1 DEF TimerDomain
<1>3. PICK i \in 1 .. Len(q) + 1, e \in TimerEntries :
          /\ TimerAt(q, i, tcnt, e, r) /\ e.x = x /\ e.icnt = icnt
          /\ \A l \in 1 .. i - 1 : DueAt(q, l) <= tcnt
          /\ i <= Len(q) => ~(DueAt(q, i) <= tcnt)
  BY <1>1, TimerInsert
<1>4. /\ r \in Seq(TimerEntries) /\ Len(r) = Len(q) + 1 /\ DOMAIN r = 1 .. Len(q) + 1
      /\ i \in Nat /\ i \in DOMAIN r
  BY <1>2, <1>3 DEF TimerAt
<1>5. r[i].x = x /\ DueAt(r, i) = tcnt /\ r[i].icnt = icnt
  BY <1>3, <1>4 DEF TimerAt, DuesAt
<1> DEFINE At(j) == IF j < i THEN j ELSE j - 1
<1>6. ASSUME NEW j \in DOMAIN r, j # i
      PROVE  /\ At(j) \in DOMAIN q /\ r[j].x = q[At(j)].x /\ r[j].icnt = q[At(j)].icnt
             /\ DueAt(r, j) = DueAt(q, At(j))
  <2>1. At(j) \in DOMAIN q /\ j \in 1 .. Len(q) + 1
    BY <1>2, <1>4, <1>6
  <2>2. /\ r[j].x = IF j < i THEN q[j].x ELSE q[j - 1].x
        /\ r[j].icnt = IF j < i THEN q[j].icnt ELSE q[j - 1].icnt
    BY <1>3, <1>6, <2>1 DEF TimerAt
  <2>3. DueAt(r, j) = IF j < i THEN DueAt(q, j) ELSE DueAt(q, j - 1)
    BY <1>3, <1>6, <2>1 DEF TimerAt, DuesAt
  <2> QED BY <2>1, <2>2, <2>3
<1>7. \A j, l \in DOMAIN r : j # i /\ l # i => (At(j) = At(l) => j = l) /\ (j <= l <=> At(j) <= At(l))
  BY <1>4
<1>8. ASSUME NEW j \in DOMAIN q
      PROVE  \E l \in DOMAIN r : l # i /\ At(l) = j
  <2>1. PICK l : l = IF j < i THEN j ELSE j + 1
    OBVIOUS
  <2>2. l \in DOMAIN r /\ l # i /\ At(l) = j
    BY <1>2, <1>4, <2>1
  <2> QED BY <2>2
<1>9. \A j \in DOMAIN r : (j < i => At(j) \in 1 .. i - 1) /\ (j > i => At(j) >= i /\ i \in DOMAIN q)
  BY <1>2, <1>4
<1> HIDE DEF At
<1>10. \A j, l \in DOMAIN r : r[j].x = r[l].x => j = l
  <2> SUFFICES ASSUME NEW j \in DOMAIN r, NEW l \in DOMAIN r, r[j].x = r[l].x PROVE j = l
    OBVIOUS
  <2>1. \A m \in DOMAIN q : q[m].x # x
    BY DEF InTmr
  <2>2. j = i <=> l = i
    BY <1>5, <1>6, <2>1
  <2>3. \A m, o \in DOMAIN q : q[m].x = q[o].x => m = o
    BY DEF TimerList
  <2> QED BY <1>6, <1>7, <2>2, <2>3
<1>11. \A j, l \in DOMAIN r : j <= l => DueAt(r, j) <= DueAt(r, l)
  <2> SUFFICES ASSUME NEW j \in DOMAIN r, NEW l \in DOMAIN r, j <= l
               PROVE  DueAt(r, j) <= DueAt(r, l)
    OBVIOUS
  <2>1. \A m, o \in DOMAIN q : m <= o => DueAt(q, m) <= DueAt(q, o)
    BY DEF TimerList
  <2>2. CASE j # i /\ l # i
    BY <1>6, <1>7, <2>1, <2>2
  <2>3. CASE j = i /\ l # i
    <3>1. l > i /\ At(l) >= i /\ i \in DOMAIN q /\ At(l) \in DOMAIN q
      BY <1>4, <1>6, <1>9, <2>3
    <3>2. ~(DueAt(q, i) <= tcnt) /\ DueAt(q, i) <= DueAt(q, At(l)) /\ DueAt(q, i) \in Int
      BY <1>2, <1>3, <2>1, <3>1
    <3>3. DueAt(r, l) = DueAt(q, At(l)) /\ DueAt(q, At(l)) \in Int /\ DueAt(r, j) = tcnt
      BY <1>2, <1>5, <1>6, <2>3, <3>1
    <3> QED BY <3>2, <3>3
  <2>4. CASE j # i /\ l = i
    <3>1. At(j) \in 1 .. i - 1
      BY <1>4, <1>9, <2>4
    <3>2. DueAt(r, j) = DueAt(q, At(j)) /\ DueAt(q, At(j)) <= tcnt
      BY <1>3, <1>6, <2>4, <3>1
    <3> QED BY <1>5, <2>4, <3>2
  <2>5. CASE j = i /\ l = i
    BY <1>5, <2>5
  <2> QED BY <2>2, <2>3, <2>4, <2>5
<1>12. \A j \in DOMAIN r : r[j].icnt > 0
  <2>1. \A m \in DOMAIN q : q[m].icnt > 0
    BY DEF TimerList
  <2> QED BY <1>5, <1>6, <2>1
<1>13. TimerMore(q, r, x, tcnt)
  <2>1. ASSUME NEW y, NEW m
        PROVE  TimerDue(r, y, m) <=> TimerDue(q, y, m) \/ (y = x /\ m = tcnt)
    BY <1>4, <1>5, <1>6, <1>8 DEF TimerDue
  <2> QED BY <2>1 DEF TimerMore
<1>14. ASSUME NEW j \in 1 .. Len(q), DueAt(q, j) = 0
       PROVE  r[j].x = q[j].x /\ DueAt(r, j) = 0
  <2>1. j < i
    <3> SUFFICES ASSUME ~(j < i) PROVE FALSE
      OBVIOUS
    <3>1. i \in DOMAIN q /\ i <= j /\ j \in DOMAIN q /\ i <= Len(q)
      BY <1>2, <1>4
    <3>2. DueAt(q, i) <= DueAt(q, j) /\ DueAt(q, i) \in Int /\ ~(DueAt(q, i) <= tcnt)
      BY <1>2, <1>3, <3>1 DEF TimerList
    <3> QED BY <1>14, <3>2
  <2>2. j \in DOMAIN r /\ j # i /\ At(j) = j
    BY <1>2, <1>4, <2>1 DEF At
  <2> QED BY <1>6, <1>14, <2>2
<1> QED BY <1>4, <1>10, <1>11, <1>12, <1>13, <1>14 DEF TimerList

\* Where timer x is in list q, 0 if it is in none.
TimerIndex(q, x) == SelectInSeq(q, LAMBDA e : e.x = x)

\* TimerIndex finds the timer, or is 0.
LEMMA TimerIndexIs ==
    ASSUME NEW q \in Seq(TimerEntries), NEW x, NEW i, i = TimerIndex(q, x)
    PROVE  IF InTmr(q, x) THEN i \in 1 .. Len(q) /\ i # 0 /\ q[i].x = x ELSE i = 0
<1>1. Len(q) \in Nat /\ DOMAIN q = 1 .. Len(q)
  OBVIOUS
<1>2. PICK I : I = {j \in 1 .. Len(q) : q[j].x = x}
  OBVIOUS
<1>3. i = IF I # {} THEN Min(I) ELSE 0
  BY <1>2, Zenon DEF TimerIndex, SelectInSeq
<1>4. I # {} <=> InTmr(q, x)
  BY <1>1, <1>2 DEF InTmr
<1>5. CASE InTmr(q, x)
  <2>1. I \subseteq Nat /\ I # {}
    BY <1>2, <1>4, <1>5
  <2>2. i \in I
    BY <1>3, <2>1, MinOfSet
  <2> QED BY <1>2, <1>5, <2>2
<1>6. CASE ~ InTmr(q, x)
  BY <1>3, <1>4, <1>6
<1> QED BY <1>5, <1>6

\* The entries of list r are those of q but for the one at i.
TimerGone(q, i, r) ==
    /\ r \in Seq(TimerEntries) /\ Len(r) = Len(q) - 1
    /\ \A j \in 1 .. Len(q) - 1 :
          /\ r[j].x = IF j < i THEN q[j].x ELSE q[j + 1].x
          /\ r[j].icnt = IF j < i THEN q[j].icnt ELSE q[j + 1].icnt
          /\ DueAt(r, j) = IF j < i THEN DueAt(q, j) ELSE DueAt(q, j + 1)

\* A timer is taken out, and the others expire when they did.
LEMMA TimerGoes ==
    ASSUME NEW q, TimerList(q), NEW i \in 1 .. Len(q), NEW r, TimerGone(q, i, r)
    PROVE  TimerList(r) /\ Len(r) = Len(q) - 1 /\ TimerLess(q, r, q[i].x)
<1>1. q \in Seq(TimerEntries) /\ TimerDomain(q)
  BY TimerDomainIs DEF TimerList
<1>2. Len(q) \in Nat /\ DOMAIN q = 1 .. Len(q) /\ i \in DOMAIN q
  BY <1>1 DEF TimerDomain
<1>3. r \in Seq(TimerEntries) /\ Len(r) = Len(q) - 1 /\ DOMAIN r = 1 .. Len(q) - 1
  BY <1>2 DEF TimerGone
<1> DEFINE At(j) == IF j < i THEN j ELSE j + 1
<1>4. ASSUME NEW j \in DOMAIN r
      PROVE  /\ At(j) \in DOMAIN q /\ At(j) # i
             /\ r[j].x = q[At(j)].x /\ r[j].icnt = q[At(j)].icnt /\ DueAt(r, j) = DueAt(q, At(j))
  <2>1. At(j) \in DOMAIN q /\ At(j) # i /\ j \in 1 .. Len(q) - 1
    BY <1>2, <1>3
  <2> QED BY <2>1 DEF TimerGone
<1>5. \A j, l \in DOMAIN r : (At(j) = At(l) => j = l) /\ (j <= l => At(j) <= At(l))
  BY <1>3
<1>6. ASSUME NEW j \in DOMAIN q, j # i
      PROVE  \E l \in DOMAIN r : At(l) = j
  <2>1. PICK l : l = IF j < i THEN j ELSE j - 1
    OBVIOUS
  <2>2. l \in DOMAIN r /\ At(l) = j
    BY <1>2, <1>3, <1>6, <2>1
  <2> QED BY <2>2
<1> HIDE DEF At
<1>7. \A j, l \in DOMAIN q : (q[j].x = q[l].x => j = l) /\ (j <= l => DueAt(q, j) <= DueAt(q, l))
  BY DEF TimerList
<1>8. \A j \in DOMAIN q : q[j].icnt > 0
  BY DEF TimerList
<1>9. TimerList(r)
  BY <1>3, <1>4, <1>5, <1>7, <1>8 DEF TimerList
<1>10. PICK x : x = q[i].x
  OBVIOUS
<1>11. \A j \in DOMAIN q : q[j].x = x <=> j = i
  BY <1>2, <1>7, <1>10
<1>12. ASSUME NEW y, NEW m PROVE TimerDue(r, y, m) <=> TimerDue(q, y, m) /\ y # x
  BY <1>4, <1>6, <1>11 DEF TimerDue
<1> QED BY <1>3, <1>9, <1>10, <1>12 DEF TimerLess

\* The first timer is taken off when it is due.
LEMMA TimerTail ==
    ASSUME NEW q, TimerList(q), Len(q) > 0, DueAt(q, 1) = 0,
           NEW r \in Seq(TimerEntries), Len(r) = Len(q) - 1,
           \A j \in 1 .. Len(q) - 1 : r[j] = q[j + 1]
    PROVE  /\ TimerList(r) /\ Len(r) = Len(q) - 1 /\ TimerLess(q, r, q[1].x)
           /\ \A j \in 1 .. Len(q) - 1 : r[j].x = q[j + 1].x /\ DueAt(r, j) = DueAt(q, j + 1)
<1>1. q \in Seq(TimerEntries) /\ TimerDomain(q)
  BY TimerDomainIs DEF TimerList
<1>2. Len(q) \in Nat /\ DOMAIN q = 1 .. Len(q) /\ Dated(q) /\ 1 \in 1 .. Len(q)
  BY <1>1 DEF TimerDomain
<1>3. /\ r \in Seq(TimerEntries) /\ Len(r) = Len(q) - 1
      /\ \A j \in 1 .. Len(q) - 1 : r[j] = q[j + 1]
  BY <1>1, <1>2
<1>4. PICK n : n = 1
  OBVIOUS
<1>5. Dated(r) /\ \A j \in 1 .. Len(q) - n : DueAt(r, j) = DueAt(q, n + j)
  <2>1. n \in 0 .. Len(q) /\ DueAt(q, n) = 0 /\ Len(r) = Len(q) - n
    BY <1>2, <1>3, <1>4
  <2>2. \A j \in 1 .. Len(q) - n : r[j].d = q[n + j].d
    <3>1. \A j \in 1 .. Len(q) - n : n + j = j + 1 /\ j \in 1 .. Len(q) - 1
      BY <1>2, <1>4
    <3> QED BY <1>3, <3>1
  <2> HIDE <1>4
  <2> QED BY <1>2, <2>1, <2>2, DueRest
<1>6. \A j \in 1 .. Len(q) - 1 : DueAt(r, j) = DueAt(q, j + 1)
  <2>1. \A j \in 1 .. Len(q) - 1 : n + j = j + 1 /\ j \in 1 .. Len(q) - n
    BY <1>2, <1>4
  <2> QED BY <1>5, <2>1
<1>7. TimerGone(q, n, r)
  <2>1. \A j \in 1 .. Len(q) - 1 : ~(j < n)
    BY <1>4
  <2> QED BY <1>3, <1>6, <2>1 DEF TimerGone
<1>8. TimerList(r) /\ Len(r) = Len(q) - 1 /\ TimerLess(q, r, q[n].x)
  BY <1>2, <1>4, <1>7, TimerGoes
<1> QED BY <1>3, <1>4, <1>6, <1>8

\* A running timer is stopped.
LEMMA TimerStopped ==
    ASSUME NEW q, TimerList(q), NEW x \in Timers, InTmr(q, x), NEW r, r = rt_timer_remove(q, x)
    PROVE  TimerList(r) /\ Len(r) = Len(q) - 1 /\ TimerLess(q, r, x)
<1>1. q \in Seq(TimerEntries) /\ TimerDomain(q)
  BY TimerDomainIs DEF TimerList
<1>2. Len(q) \in Nat /\ DOMAIN q = 1 .. Len(q) /\ Dated(q) /\ \A j \in 1 .. Len(q) : q[j].d \in Int
  BY <1>1 DEF TimerDomain
<1>3. PICK i : i = TimerIndex(q, x)
  OBVIOUS
<1>4. i \in 1 .. Len(q) /\ q[i].x = x
  BY <1>1, <1>3, TimerIndexIs
<1>5. PICK p : p = IF i = Len(q) THEN q ELSE [q EXCEPT ![i + 1].d = @ + q[i].d]
  OBVIOUS
<1>6. r = RemoveAt(p, i)
  BY <1>3, <1>5, Zenon DEF rt_timer_remove, TimerIndex
<1>7. /\ p \in Seq(TimerEntries) /\ Len(p) = Len(q)
      /\ \A j \in 1 .. Len(q) : /\ p[j].x = q[j].x /\ p[j].icnt = q[j].icnt
                                /\ p[j].d = IF j = i + 1 THEN q[i + 1].d + q[i].d ELSE q[j].d
  <2>1. CASE i = Len(q)
    <3>1. p = q /\ \A j \in 1 .. Len(q) : j # i + 1
      BY <1>2, <1>5, <2>1
    <3> HIDE <1>5
    <3> QED BY <1>1, <3>1
  <2>2. CASE i # Len(q)
    <3>1. PICK m, v : m = i + 1 /\ v = q[i + 1].d + q[i].d
      OBVIOUS
    <3>2. m \in 1 .. Len(q) /\ v \in Int
      BY <1>2, <1>4, <2>2, <3>1
    <3>3. p = [q EXCEPT ![m].d = v]
      BY <1>5, <2>2, <3>1
    <3>4. TimerSet(q, m, v, p)
      BY <1>1, <3>2, <3>3, ChangeTimer, Zenon
    <3> HIDE <1>5
    <3> QED BY <3>1, <3>4 DEF TimerSet
  <2> QED BY <2>1, <2>2
<1> HIDE <1>3, <1>5
<1>8. /\ r \in Seq(TimerEntries) /\ Len(r) = Len(q) - 1
      /\ \A j \in 1 .. Len(q) - 1 : r[j] = IF j < i THEN p[j] ELSE p[j + 1]
  <2>1. i \in 1 .. Len(p)
    BY <1>4, <1>7
  <2> QED BY <1>6, <1>7, <2>1, RemoveAtList
<1>9. \A j \in 1 .. Len(q) - 1 :
          /\ r[j].x = IF j < i THEN q[j].x ELSE q[j + 1].x
          /\ r[j].icnt = IF j < i THEN q[j].icnt ELSE q[j + 1].icnt
          /\ r[j].d = IF j < i THEN q[j].d ELSE IF j = i THEN q[i + 1].d + q[i].d ELSE q[j + 1].d
  <2> SUFFICES ASSUME NEW j \in 1 .. Len(q) - 1
               PROVE  /\ r[j].x = IF j < i THEN q[j].x ELSE q[j + 1].x
                      /\ r[j].icnt = IF j < i THEN q[j].icnt ELSE q[j + 1].icnt
                      /\ r[j].d = IF j < i THEN q[j].d
                                  ELSE IF j = i THEN q[i + 1].d + q[i].d ELSE q[j + 1].d
    OBVIOUS
  <2>1. j \in 1 .. Len(q) /\ j + 1 \in 1 .. Len(q) /\ (j < i => j # i + 1) /\ (j + 1 = i + 1 <=> j = i)
    BY <1>2, <1>4
  <2>2. r[j] = IF j < i THEN p[j] ELSE p[j + 1]
    BY <1>8
  <2>3. CASE j < i
    BY <1>7, <2>1, <2>2, <2>3
  <2>4. CASE ~(j < i)
    <3>1. /\ p[j + 1].x = q[j + 1].x /\ p[j + 1].icnt = q[j + 1].icnt
          /\ p[j + 1].d = IF j = i THEN q[i + 1].d + q[i].d ELSE q[j + 1].d
      BY <1>7, <2>1
    <3> QED BY <2>2, <2>4, <3>1
  <2> QED BY <2>3, <2>4
<1>10. \A j \in 1 .. Len(q) - 1 : DueAt(r, j) = IF j < i THEN DueAt(q, j) ELSE DueAt(q, j + 1)
  <2>1. \A j \in 1 .. Len(q) - 1 : r[j].d =
           IF j < i THEN q[j].d ELSE IF j = i THEN q[i + 1].d + q[i].d ELSE q[j + 1].d
    BY <1>9
  <2> QED BY <1>2, <1>4, <1>8, <2>1, DueRemoved
<1>11. TimerGone(q, i, r)
  BY <1>8, <1>9, <1>10 DEF TimerGone
<1> QED BY <1>4, <1>11, TimerGoes

\* The list a tick later.
LEMMA TimerTicked ==
    ASSUME NEW q0, TimerList(q0), q0 # <<>>, NEW q, q = LessOne(q0)
    PROVE  /\ TimerList(q) /\ Len(q) = Len(q0)
           /\ \A j \in 1 .. Len(q0) : /\ q[j].x = q0[j].x /\ q[j].icnt = q0[j].icnt
                                      /\ DueAt(q, j) = DueAt(q0, j) - 1
<1>1. q0 \in Seq(TimerEntries) /\ TimerDomain(q0)
  BY TimerDomainIs DEF TimerList
<1>2. /\ Len(q0) \in Nat /\ DOMAIN q0 = 1 .. Len(q0) /\ Dated(q0) /\ 1 \in 1 .. Len(q0)
      /\ \A j \in 1 .. Len(q0) : q0[j].d \in Int /\ DueAt(q0, j) \in Int
  <2>1. Len(q0) # 0
    BY <1>1
  <2> QED BY <1>1, <2>1 DEF TimerDomain
<1>3. PICK d, i : d = q0[1].d - 1 /\ i = 1
  OBVIOUS
<1>4. q = [q0 EXCEPT ![i].d = d] /\ d \in Int /\ i \in 1 .. Len(q0)
  <2>1. q = [q0 EXCEPT ![i].d = d]
    BY <1>3, Zenon DEF LessOne
  <2> QED BY <1>2, <1>3, <2>1
<1>5. TimerSet(q0, i, d, q)
  BY <1>1, <1>4, ChangeTimer, Zenon
<1>6. /\ q \in Seq(TimerEntries) /\ Len(q) = Len(q0) /\ DOMAIN q = 1 .. Len(q0)
      /\ \A j \in 1 .. Len(q0) : /\ q[j].x = q0[j].x /\ q[j].icnt = q0[j].icnt
                                 /\ q[j].d = IF j = 1 THEN q0[j].d - 1 ELSE q0[j].d
  <2> HIDE <1>4
  <2> QED BY <1>2, <1>3, <1>5 DEF TimerSet
<1> HIDE <1>3, <1>4
<1>7. \A j \in 1 .. Len(q0) : DueAt(q, j) = DueAt(q0, j) - 1
  <2>1. \A j \in 1 .. Len(q0) : q[j].d = IF j = 1 THEN q0[j].d - 1 ELSE q0[j].d
    BY <1>6
  <2>2. Dated(q) /\ \A j \in 1 .. Len(q0) : DueAt(q, j) = DueAt(q0, j) - 1
    BY <1>2, <1>6, <2>1, DueTicked
  <2> QED BY <2>2
<1>8. TimerList(q)
  <2>1. \A j, l \in 1 .. Len(q0) : /\ q0[j].x = q0[l].x => j = l
                                   /\ j <= l => DueAt(q0, j) <= DueAt(q0, l)
    BY <1>2 DEF TimerList
  <2>2. \A j, l \in 1 .. Len(q0) : j <= l => DueAt(q, j) <= DueAt(q, l)
    BY <1>2, <1>7, <2>1
  <2>3. \A j \in 1 .. Len(q0) : q0[j].icnt > 0
    BY <1>2 DEF TimerList
  <2> QED BY <1>6, <2>1, <2>2, <2>3 DEF TimerList
<1> QED BY <1>6, <1>7, <1>8

-----------------------------------------------------------------------------
(***************************************************************************)
(* Interrupts.                                                             *)
(***************************************************************************)

\* A request is there already, or is one that an interrupt may make.
Asked(s, u) ==
    /\ \A i \in DOMAIN u.psq :
          \/ \E j \in DOMAIN s.psq : u.psq[i] = s.psq[j]
          \/ u.psq[i].id \in Sems \cup Lasting
          \/ u.psq[i].id = Queue /\ s.mbx.count < MbxSize
    /\ u.psq = <<>> => s.psq = <<>>

\* An interrupt leaves the lists and the objects alone.
Interrupts(s, u) ==
    /\ u \in Kernels /\ SameLists(s, u) /\ u.live = s.live /\ u.mut = s.mut /\ u.mbx = s.mbx
    /\ u.events = s.events /\ u.waits = s.waits /\ u.tokens = s.tokens
    /\ Asked(s, u)

\* One after the other.
LEMMA InterruptsTrans ==
    ASSUME NEW a, NEW b, NEW c, Interrupts(a, b), Interrupts(b, c)
    PROVE  Interrupts(a, c)
<1>1. Asked(a, b) /\ Asked(b, c) /\ b.mbx = a.mbx
  BY DEF Interrupts
<1>2. Asked(a, c)
  <2>1. ASSUME NEW i \in DOMAIN c.psq
        PROVE  \/ \E j \in DOMAIN a.psq : c.psq[i] = a.psq[j]
               \/ c.psq[i].id \in Sems \cup Lasting
               \/ c.psq[i].id = Queue /\ a.mbx.count < MbxSize
    <3>1. CASE \E j \in DOMAIN b.psq : c.psq[i] = b.psq[j]
      <4>1. PICK j \in DOMAIN b.psq : c.psq[i] = b.psq[j]
        BY <3>1
      <4> QED BY <1>1, <4>1 DEF Asked
    <3>2. CASE ~ \E j \in DOMAIN b.psq : c.psq[i] = b.psq[j]
      BY <1>1, <3>2 DEF Asked
    <3> QED BY <3>1, <3>2
  <2> QED BY <1>1, <2>1 DEF Asked
<1> QED BY <1>2 DEF Interrupts, SameLists

\* rt_psq_enq.
LEMMA EnqInterrupts ==
    ASSUME NEW s \in Kernels, NEW id, NEW arg, NEW e, e = [id |-> id, arg |-> arg], e \in Requests,
           id \in Sems \cup Lasting \/ (id = Queue /\ s.mbx.count < MbxSize),
           NEW u, u = rt_psq_enq(s, id, arg)
    PROVE  Interrupts(s, u) /\ u.tmr = s.tmr
<1>1. s.psq \in Seq(Requests)
  BY DEF Kernels
<1>2. CASE Len(s.psq) < FifoSize
  <2>1. PICK q : q = Append(s.psq, e)
    OBVIOUS
  <2>2. q \in Seq(Requests) /\ q # <<>> /\ \A i \in DOMAIN q : q[i] = e \/ \E j \in DOMAIN s.psq : q[i] = s.psq[j]
    <3>1. q \in Seq(Requests) /\ Len(q) = Len(s.psq) + 1 /\ Len(s.psq) \in Nat
      BY <1>1, <2>1
    <3>2. \A i \in 1 .. Len(s.psq) + 1 : q[i] = IF i <= Len(s.psq) THEN s.psq[i] ELSE e
      BY <1>1, <2>1
    <3>3. DOMAIN s.psq = 1 .. Len(s.psq) /\ DOMAIN q = 1 .. Len(s.psq) + 1
      BY <1>1, <3>1
    <3>4. q # <<>>
      BY <3>1
    <3> QED BY <3>1, <3>2, <3>3, <3>4
  <2>3. u = [s EXCEPT !.psq = q]
    BY <1>2, <2>1 DEF rt_psq_enq
  <2>4. /\ u \in Kernels /\ SameLists(s, u) /\ u.live = s.live /\ u.mut = s.mut /\ u.mbx = s.mbx
        /\ u.events = s.events /\ u.waits = s.waits /\ u.tokens = s.tokens /\ u.tmr = s.tmr
        /\ u.psq = q
    BY <2>2, <2>3 DEF Kernels, SameLists
  <2>5. e.id = id
    OBVIOUS
  <2>6. Asked(s, u)
    BY <2>2, <2>4, <2>5 DEF Asked
  <2> QED BY <2>4, <2>6 DEF Interrupts
<1>3. CASE ~(Len(s.psq) < FifoSize)
  <2>1. u = [s EXCEPT !.fault = TRUE]
    BY <1>3 DEF rt_psq_enq
  <2>2. /\ u \in Kernels /\ SameLists(s, u)
        /\ u.psq = s.psq /\ u.live = s.live /\ u.mut = s.mut /\ u.mbx = s.mbx
        /\ u.events = s.events /\ u.waits = s.waits /\ u.tokens = s.tokens
    BY <2>1, FaultSet
  <2>3. u.tmr = s.tmr
    BY <2>1 DEF Kernels
  <2>4. Asked(s, u)
    BY <2>2 DEF Asked
  <2> QED BY <2>2, <2>3, <2>4 DEF Interrupts
<1> QED BY <1>2, <1>3

\* Nothing happens.
LEMMA InterruptsSelf ==
    ASSUME NEW s \in Kernels
    PROVE  Interrupts(s, s)
BY DEF Interrupts, SameLists, Asked

\* isrMessagePut.
LEMMA PutInterrupts ==
    ASSUME NEW s \in Kernels, NEW x \in Messages, NEW u, u = isrMessagePut(s, x)
    PROVE  Interrupts(s, u) /\ u.tmr = s.tmr
<1>1. CASE s.mbx.count = MbxSize
  <2>1. u = s
    BY <1>1 DEF isrMessagePut
  <2> QED BY <2>1, InterruptsSelf
<1>2. CASE s.mbx.count # MbxSize
  <2>1. s.mbx.count < MbxSize
    BY <1>2, RtxAssumption DEF Kernels, Mailboxes
  <2>2. u = rt_psq_enq(s, Queue, x)
    BY <1>2 DEF isrMessagePut
  <2>3. PICK e : e = [id |-> Queue, arg |-> x]
    OBVIOUS
  <2>4. e \in Requests
    BY <2>3 DEF Requests
  <2> QED BY <2>1, <2>2, <2>3, <2>4, EnqInterrupts
<1> QED BY <1>1, <1>2

\* The list of the timers is written.
LEMMA TimersInterrupt ==
    ASSUME NEW s \in Kernels, NEW q \in Seq(TimerEntries), NEW u, u = [s EXCEPT !.tmr = q]
    PROVE  Interrupts(s, u) /\ u.tmr = q
<1>1. /\ u \in Kernels /\ SameLists(s, u) /\ u.live = s.live /\ u.mut = s.mut /\ u.mbx = s.mbx
      /\ u.events = s.events /\ u.waits = s.waits /\ u.tokens = s.tokens /\ u.tmr = q
      /\ u.psq = s.psq
  BY DEF Kernels, SameLists, TimerEntries
<1>2. Asked(s, u)
  BY <1>1 DEF Asked
<1> QED BY <1>1, <1>2 DEF Interrupts

\* The states that sysTimerTick passes; q is the list of the timers a tick
\* later, of which the first n are due.
Ringing(s, q, n, f) ==
    /\ f[0] = [s EXCEPT !.tmr = q] /\ \A i \in 1 .. n : f[i] = Expired(f[i - 1], q[i])
    /\ sysTimerTick(s) = f[n]

\* sysTimerTick passes through these states.
LEMMA TimerTickIs ==
    ASSUME NEW s, s.tmr # <<>>, NEW q, q = LessOne(s.tmr), NEW n, n = DueCount(q), n \in Nat
    PROVE  \E f : Ringing(s, q, n, f)
<1>1. PICK b : b = [s EXCEPT !.tmr = q]
  OBVIOUS
<1> DEFINE w == CHOOSE g : g = [i \in 0 .. n |-> IF i = 0 THEN b ELSE Expired(g[i - 1], q[i])]
<1>2. sysTimerTick(s) = w[n]
  BY <1>1 DEF sysTimerTick, LessOne, DueCount, Expired
<1>3. w = [i \in 0 .. n |-> IF i = 0 THEN b ELSE Expired(w[i - 1], q[i])]
  <2>1. PICK f : WalkUpTo(3, b, q, f, n)
    BY WalkExists
  <2>2. f = [i \in 0 .. n |-> IF i = 0 THEN b ELSE Expired(f[i - 1], q[i])]
    BY <2>1 DEF WalkUpTo, StepOf
  <2> QED BY <2>2
<1> HIDE DEF w
<1>4. \A i \in 0 .. n : w[i] = IF i = 0 THEN b ELSE Expired(w[i - 1], q[i])
  BY <1>3
<1>5. w[0] = b /\ \A i \in 1 .. n : w[i] = Expired(w[i - 1], q[i])
  BY <1>4
<1> QED BY <1>1, <1>2, <1>5 DEF Ringing

\* The list after the first i of the n timers that are due.
Rung(q, n, i, r) ==
    /\ TimerList(r) /\ Len(r) >= n - i
    /\ \A j \in 1 .. n - i : r[j].x = q[i + j].x /\ DueAt(r, j) = 0
    /\ \A y, m : TimerDue(r, y, m) <=>
          \/ TimerDue(q, y, m) /\ \A j \in 1 .. i : q[j].x # y
          \/ \E j \in 1 .. i : q[j].x = y /\ y \in Periodic /\ m = q[j].icnt

\* The list after a timer that is due.
Rest(t, e) == IF e.x \in Periodic THEN rt_timer_insert(t, e.x, e.icnt, e.icnt) ELSE t

\* A timer that is due makes its request, and the list is what Rest says.
LEMMA ExpiredIs ==
    ASSUME NEW s \in Kernels, NEW e \in TimerEntries,
           Rest(Tail(s.tmr), e) \in Seq(TimerEntries)
    PROVE  Interrupts(s, Expired(s, e)) /\ Expired(s, e).tmr = Rest(Tail(s.tmr), e)
<1>0. PICK r, u : r = Rest(Tail(s.tmr), e) /\ u = Expired(s, e)
  OBVIOUS
<1>1. e.x \in Messages
  BY DEF TimerEntries, Messages
<1>2. PICK x : x = e.x
  OBVIOUS
<1>3. PICK a : a = isrMessagePut(s, x)
  OBVIOUS
<1>4. Interrupts(s, a) /\ a.tmr = s.tmr
  BY <1>1, <1>2, <1>3, PutInterrupts
<1>5. u = [a EXCEPT !.tmr = r]
  BY <1>0, <1>2, <1>3, <1>4 DEF Expired, Rest
<1>6. a \in Kernels
  BY <1>4 DEF Interrupts
<1>7. Interrupts(a, u) /\ u.tmr = r
  <2>1. r \in Seq(TimerEntries)
    BY <1>0
  <2> HIDE <1>0
  <2> QED BY <1>5, <1>6, <2>1, TimersInterrupt
<1>8. Interrupts(s, u)
  BY <1>4, <1>7, InterruptsTrans
<1> QED BY <1>0, <1>7, <1>8, Zenon

\* The next timer that is due is dealt with.
LEMMA RestRung ==
    ASSUME NEW q, TimerList(q), NEW n \in Nat, n <= Len(q), NEW i \in 1 .. n,
           NEW p, Rung(q, n, i - 1, p), NEW t \in Seq(TimerEntries), Len(t) = Len(p) - 1,
           \A j \in 1 .. Len(p) - 1 : t[j] = p[j + 1],
           NEW r, r = Rest(t, q[i])
    PROVE  Rung(q, n, i, r)
<1>1. TimerDomain(q) /\ TimerList(p) /\ TimerDomain(p)
  BY TimerDomainIs DEF Rung, TimerList
<1>2. /\ Len(q) \in Nat /\ DOMAIN q = 1 .. Len(q) /\ i \in DOMAIN q /\ i \in Nat
      /\ Len(p) \in Nat /\ Len(p) > 0 /\ Len(p) - 1 >= n - i
  <2>1. Len(p) >= n - (i - 1) /\ Len(q) \in Nat /\ DOMAIN q = 1 .. Len(q) /\ Len(p) \in Nat
    BY <1>1 DEF Rung, TimerDomain
  <2> QED BY <2>1
<1>3. PICK x, c : x = q[i].x /\ c = q[i].icnt
  OBVIOUS
<1>4. x \in Timers /\ c \in Nat \ {0}
  <2>1. q[i].x \in Timers /\ q[i].icnt \in Nat
    BY <1>1, <1>2 DEF TimerDomain
  <2>2. q[i].icnt > 0
    BY <1>2 DEF TimerList
  <2> QED BY <1>3, <2>1, <2>2
<1>5. ASSUME NEW j \in 1 .. n - i + 1
      PROVE  p[j].x = q[i - 1 + j].x /\ DueAt(p, j) = 0
  <2>1. j \in 1 .. n - (i - 1)
    BY <1>2
  <2> QED BY <2>1 DEF Rung
<1>6. p[1].x = x /\ DueAt(p, 1) = 0
  <2>1. 1 \in 1 .. n - i + 1 /\ i - 1 + 1 = i
    BY <1>2
  <2>2. p[1].x = q[i - 1 + 1].x /\ DueAt(p, 1) = 0
    BY <1>5, <2>1
  <2> QED BY <1>3, <2>1, <2>2
<1>7. /\ TimerList(t) /\ TimerLess(p, t, x)
      /\ \A j \in 1 .. Len(p) - 1 : t[j].x = p[j + 1].x /\ DueAt(t, j) = DueAt(p, j + 1)
  <2>1. /\ TimerList(t) /\ TimerLess(p, t, p[1].x)
        /\ \A j \in 1 .. Len(p) - 1 : t[j].x = p[j + 1].x /\ DueAt(t, j) = DueAt(p, j + 1)
    BY <1>1, <1>2, <1>6, TimerTail
  <2> QED BY <1>6, <2>1
<1>8. ASSUME NEW j \in 1 .. n - i
      PROVE  t[j].x = q[i + j].x /\ DueAt(t, j) = 0
  <2>1. j \in 1 .. Len(p) - 1 /\ j + 1 \in 1 .. n - i + 1 /\ i - 1 + (j + 1) = i + j
    BY <1>2
  <2>2. p[j + 1].x = q[i - 1 + (j + 1)].x /\ DueAt(p, j + 1) = 0
    BY <1>5, <2>1
  <2> QED BY <1>7, <2>1, <2>2
<1>9. \A y, m : TimerDue(p, y, m) <=>
          \/ TimerDue(q, y, m) /\ \A j \in 1 .. i - 1 : q[j].x # y
          \/ \E j \in 1 .. i - 1 : q[j].x = y /\ y \in Periodic /\ m = q[j].icnt
  BY DEF Rung
<1>10. \A j \in 1 .. i : j \in 1 .. i - 1 \/ j = i
  BY <1>2
<1>11. \A j \in 1 .. i - 1 : j \in 1 .. i /\ q[j].x # x
  <2> SUFFICES ASSUME NEW j \in 1 .. i - 1 PROVE j \in 1 .. i /\ q[j].x # x
    OBVIOUS
  <2>1. j \in DOMAIN q /\ j # i /\ j \in 1 .. i
    BY <1>2
  <2>2. q[j].x # q[i].x
    BY <1>2, <2>1 DEF TimerList
  <2> QED BY <1>3, <2>1, <2>2
<1>12. i \in 1 .. i
  BY <1>2
<1>13. ASSUME NEW y, NEW m
       PROVE  (TimerDue(p, y, m) /\ y # x) \/ (y = x /\ y \in Periodic /\ m = c) <=>
          \/ TimerDue(q, y, m) /\ \A j \in 1 .. i : q[j].x # y
          \/ \E j \in 1 .. i : q[j].x = y /\ y \in Periodic /\ m = q[j].icnt
  <2>1. CASE y = x
    <3>1. ~ \A j \in 1 .. i : q[j].x # y
      BY <1>3, <1>12, <2>1
    <3>2. (\E j \in 1 .. i : q[j].x = y /\ y \in Periodic /\ m = q[j].icnt) <=> y \in Periodic /\ m = c
      BY <1>3, <1>10, <1>11, <1>12, <2>1
    <3> QED BY <2>1, <3>1, <3>2
  <2>2. CASE y # x
    <3>1. (\A j \in 1 .. i : q[j].x # y) <=> \A j \in 1 .. i - 1 : q[j].x # y
      BY <1>3, <1>10, <1>11, <2>2
    <3>2. (\E j \in 1 .. i : q[j].x = y /\ y \in Periodic /\ m = q[j].icnt) <=>
          \E j \in 1 .. i - 1 : q[j].x = y /\ y \in Periodic /\ m = q[j].icnt
      BY <1>3, <1>10, <1>11, <2>2
    <3>3. TimerDue(p, y, m) <=>
            \/ TimerDue(q, y, m) /\ \A j \in 1 .. i - 1 : q[j].x # y
            \/ \E j \in 1 .. i - 1 : q[j].x = y /\ y \in Periodic /\ m = q[j].icnt
      BY <1>9
    <3> QED BY <2>2, <3>1, <3>2, <3>3
  <2> QED BY <2>1, <2>2
<1>14. CASE x \notin Periodic
  <2>1. r = t
    BY <1>3, <1>14 DEF Rest
  <2>2. ASSUME NEW y, NEW m
        PROVE  TimerDue(t, y, m) <=>
          \/ TimerDue(q, y, m) /\ \A j \in 1 .. i : q[j].x # y
          \/ \E j \in 1 .. i : q[j].x = y /\ y \in Periodic /\ m = q[j].icnt
    <3>1. TimerDue(t, y, m) <=> (TimerDue(p, y, m) /\ y # x)
      BY <1>7 DEF TimerLess
    <3> QED BY <1>13, <1>14, <3>1
  <2>3. Len(t) >= n - i
    BY <1>2
  <2>4. Rung(q, n, i, t)
    BY <1>7, <1>8, <2>2, <2>3 DEF Rung
  <2> QED BY <2>1, <2>4
<1>15. CASE x \in Periodic
  <2>1. r = rt_timer_insert(t, x, c, c)
    BY <1>3, <1>15 DEF Rest
  <2>2. ~ InTmr(t, x)
    <3> SUFFICES ASSUME NEW j \in DOMAIN t, t[j].x = x PROVE FALSE
      BY DEF InTmr
    <3>1. PICK m : m = DueAt(t, j)
      OBVIOUS
    <3>2. TimerDue(t, x, m)
      BY <3>1 DEF TimerDue
    <3> QED BY <1>7, <3>2 DEF TimerLess
  <2>3. /\ TimerList(r) /\ Len(r) = Len(t) + 1 /\ TimerMore(t, r, x, c)
        /\ \A j \in 1 .. Len(t) : DueAt(t, j) = 0 => r[j].x = t[j].x /\ DueAt(r, j) = 0
    BY <1>4, <1>7, <2>1, <2>2, TimerStarted
  <2>4. ASSUME NEW y, NEW m
        PROVE  TimerDue(r, y, m) <=>
          \/ TimerDue(q, y, m) /\ \A j \in 1 .. i : q[j].x # y
          \/ \E j \in 1 .. i : q[j].x = y /\ y \in Periodic /\ m = q[j].icnt
    <3>1. TimerDue(r, y, m) <=> TimerDue(t, y, m) \/ (y = x /\ m = c)
      BY <2>3 DEF TimerMore
    <3>2. TimerDue(t, y, m) <=> (TimerDue(p, y, m) /\ y # x)
      BY <1>7 DEF TimerLess
    <3>3. (y = x /\ m = c) <=> (y = x /\ y \in Periodic /\ m = c)
      BY <1>15
    <3>4. (TimerDue(p, y, m) /\ y # x) \/ (y = x /\ y \in Periodic /\ m = c) <=>
             \/ TimerDue(q, y, m) /\ \A j \in 1 .. i : q[j].x # y
             \/ \E j \in 1 .. i : q[j].x = y /\ y \in Periodic /\ m = q[j].icnt
      BY <1>13
    <3>5. TimerDue(r, y, m) <=> (TimerDue(p, y, m) /\ y # x) \/ (y = x /\ y \in Periodic /\ m = c)
      BY <3>1, <3>2, <3>3
    <3> QED BY <3>4, <3>5, Zenon
  <2>5. Len(r) >= n - i
    BY <1>2, <2>3
  <2>6. ASSUME NEW j \in 1 .. n - i PROVE r[j].x = q[i + j].x /\ DueAt(r, j) = 0
    <3>1. j \in 1 .. Len(t)
      BY <1>2
    <3> QED BY <1>8, <2>3, <3>1
  <2> QED BY <2>3, <2>4, <2>5, <2>6 DEF Rung
<1> QED BY <1>14, <1>15

\* What a tick leaves of the timers: Elapsed says when they expire next.
TimersTicked(q0, r) ==
    /\ TimerList(r)
    /\ \A y, m : TimerDue(r, y, m) =>
          \/ m > 0 /\ TimerDue(q0, y, m + 1)
          \/ m > 0 /\ TimerDue(q0, y, 1) /\ y \in Periodic
             /\ \E j \in DOMAIN q0 : q0[j].x = y /\ m = q0[j].icnt
    /\ \A y, m : TimerDue(q0, y, m) =>
          \/ m > 1 /\ TimerDue(r, y, m - 1)
          \/ m = 1 /\ (y \in Periodic =>
                         \E j \in DOMAIN q0 : q0[j].x = y /\ TimerDue(r, y, q0[j].icnt))

\* All timers that are due have been dealt with.
LEMMA AllRung ==
    ASSUME NEW q0, TimerList(q0), q0 # <<>>, \A y, m : TimerDue(q0, y, m) => m > 0,
           NEW q, q = LessOne(q0), NEW n, Firsts(q, n), NEW r, Rung(q, n, n, r)
    PROVE  TimersTicked(q0, r)
<1>1. /\ TimerList(q) /\ Len(q) = Len(q0)
      /\ \A j \in 1 .. Len(q0) : /\ q[j].x = q0[j].x /\ q[j].icnt = q0[j].icnt
                                 /\ DueAt(q, j) = DueAt(q0, j) - 1
  BY TimerTicked
<1>2. TimerDomain(q) /\ TimerDomain(q0)
  BY <1>1, TimerDomainIs DEF TimerList
<1>3. /\ Len(q0) \in Nat /\ DOMAIN q0 = 1 .. Len(q0) /\ DOMAIN q = 1 .. Len(q0)
      /\ \A j \in 1 .. Len(q0) : /\ DueAt(q0, j) \in Int /\ DueAt(q, j) \in Int
                                 /\ q0[j].icnt \in Nat /\ q0[j].icnt > 0
  BY <1>1, <1>2 DEF TimerDomain, TimerList
<1>4. \A j \in 1 .. Len(q0) : DueAt(q0, j) > 0
  BY <1>3 DEF TimerDue
<1>5. n \in 0 .. Len(q0) /\ (\A l \in 1 .. n : DueAt(q, l) = 0) /\ (n < Len(q0) => DueAt(q, n + 1) # 0)
  BY <1>1 DEF Firsts
<1>6. \A j \in 1 .. Len(q0) : j <= n <=> DueAt(q, j) = 0
  <2> SUFFICES ASSUME NEW j \in 1 .. Len(q0), ~(j <= n) PROVE DueAt(q, j) # 0
    BY <1>5
  <2>1. n + 1 \in 1 .. Len(q0) /\ n + 1 <= j /\ n < Len(q0)
    BY <1>3, <1>5
  <2>2. DueAt(q, n + 1) <= DueAt(q, j)
    BY <1>1, <1>3, <2>1 DEF TimerList
  <2>3. DueAt(q, n + 1) # 0 /\ DueAt(q, n + 1) = DueAt(q0, n + 1) - 1 /\ DueAt(q0, n + 1) > 0
        /\ DueAt(q0, n + 1) \in Int /\ DueAt(q, n + 1) \in Int /\ DueAt(q, j) \in Int
    BY <1>1, <1>3, <1>4, <1>5, <2>1
  <2> QED BY <2>2, <2>3
<1>7. \A y, m : TimerDue(r, y, m) <=>
          \/ TimerDue(q, y, m) /\ \A j \in 1 .. n : q[j].x # y
          \/ \E j \in 1 .. n : q[j].x = y /\ y \in Periodic /\ m = q[j].icnt
  BY DEF Rung
<1>8. \A j \in 1 .. n : j \in 1 .. Len(q0)
  BY <1>5
<1>9. ASSUME NEW y, NEW m, TimerDue(r, y, m)
      PROVE  \/ m > 0 /\ TimerDue(q0, y, m + 1)
             \/ m > 0 /\ TimerDue(q0, y, 1) /\ y \in Periodic
                /\ \E j \in DOMAIN q0 : q0[j].x = y /\ m = q0[j].icnt
  <2>1. CASE TimerDue(q, y, m) /\ \A j \in 1 .. n : q[j].x # y
    <3>1. PICK j \in 1 .. Len(q0) : q[j].x = y /\ DueAt(q, j) = m
      BY <1>3, <2>1 DEF TimerDue
    <3>2. m \in Int /\ DueAt(q0, j) = m + 1 /\ DueAt(q0, j) > 0 /\ m # 0
      <4>1. ~(j <= n)
        BY <1>5, <2>1, <3>1
      <4> QED BY <1>1, <1>3, <1>4, <1>6, <3>1, <4>1
    <3>3. TimerDue(q0, y, m + 1)
      BY <1>1, <1>3, <3>1, <3>2 DEF TimerDue
    <3> QED BY <3>2, <3>3
  <2>2. CASE \E j \in 1 .. n : q[j].x = y /\ y \in Periodic /\ m = q[j].icnt
    <3>1. PICK j \in 1 .. n : q[j].x = y /\ y \in Periodic /\ m = q[j].icnt
      BY <2>2
    <3>2. /\ j \in DOMAIN q0 /\ q0[j].x = y /\ m = q0[j].icnt /\ m > 0
          /\ DueAt(q, j) = 0 /\ DueAt(q, j) = DueAt(q0, j) - 1 /\ DueAt(q0, j) \in Int
      BY <1>1, <1>3, <1>5, <1>8, <3>1
    <3>3. DueAt(q0, j) = 1
      BY <3>2
    <3>4. TimerDue(q0, y, 1)
      BY <3>2, <3>3 DEF TimerDue
    <3> QED BY <3>1, <3>2, <3>4
  <2> QED BY <1>7, <1>9, <2>1, <2>2
<1>10. ASSUME NEW y, NEW m, TimerDue(q0, y, m)
       PROVE  \/ m > 1 /\ TimerDue(r, y, m - 1)
              \/ m = 1 /\ (y \in Periodic =>
                             \E j \in DOMAIN q0 : q0[j].x = y /\ TimerDue(r, y, q0[j].icnt))
  <2>1. PICK j \in 1 .. Len(q0) : q0[j].x = y /\ DueAt(q0, j) = m
    BY <1>3, <1>10 DEF TimerDue
  <2>2. /\ q[j].x = y /\ q[j].icnt = q0[j].icnt /\ DueAt(q, j) = m - 1 /\ m \in Int /\ m > 0
        /\ j \in DOMAIN q /\ j \in DOMAIN q0
    BY <1>1, <1>3, <1>4, <2>1
  <2>3. CASE j <= n
    <3>1. j \in 1 .. n /\ DueAt(q, j) = 0
      BY <1>5, <1>6, <2>3
    <3>2. m = 1
      BY <2>2, <3>1
    <3>3. y \in Periodic => TimerDue(r, y, q0[j].icnt)
      BY <1>7, <2>2, <3>1
    <3> QED BY <2>1, <2>2, <3>2, <3>3
  <2>4. CASE ~(j <= n)
    <3>1. DueAt(q, j) # 0
      BY <1>6, <2>4
    <3>2. m > 1
      BY <2>2, <3>1
    <3>3. \A l \in 1 .. n : q[l].x # y
      <4> SUFFICES ASSUME NEW l \in 1 .. n, q[l].x = y PROVE FALSE
        OBVIOUS
      <4>1. l \in DOMAIN q /\ l <= n
        BY <1>3, <1>5, <1>8
      <4>2. l = j
        BY <1>1, <2>2, <4>1 DEF TimerList
      <4> QED BY <2>4, <4>1, <4>2
    <3>4. TimerDue(q, y, m - 1)
      BY <2>2 DEF TimerDue
    <3>5. TimerDue(r, y, m - 1)
      BY <1>7, <3>3, <3>4
    <3> QED BY <3>2, <3>5
  <2> QED BY <2>3, <2>4
<1>11. TimerList(r)
  BY DEF Rung
<1> QED BY <1>9, <1>10, <1>11 DEF TimersTicked

\* The tick of the timers sends messages for those that are due.
LEMMA TimerTick ==
    ASSUME NEW s \in Kernels, TimerList(s.tmr), \A y, m : TimerDue(s.tmr, y, m) => m > 0,
           NEW u, u = sysTimerTick(s)
    PROVE  Interrupts(s, u) /\ TimersTicked(s.tmr, u.tmr)
<1>1. CASE s.tmr = <<>>
  <2>1. u = s
    BY <1>1 DEF sysTimerTick
  <2>2. \A y, m : ~ TimerDue(s.tmr, y, m)
    BY <1>1 DEF TimerDue
  <2>3. TimersTicked(s.tmr, u.tmr)
    BY <2>1, <2>2 DEF TimersTicked
  <2> QED BY <2>1, <2>3, InterruptsSelf
<1>2. CASE s.tmr # <<>>
  <2>1. PICK q0, q : q0 = s.tmr /\ q = LessOne(q0)
    OBVIOUS
  <2>2. TimerList(q) /\ Len(q) = Len(q0) /\ TimerList(q0) /\ q0 # <<>>
    BY <1>2, <2>1, TimerTicked
  <2>3. TimerDomain(q) /\ q \in Seq(TimerEntries)
    BY <2>2, TimerDomainIs DEF TimerList
  <2>4. PICK n : n = DueCount(q)
    OBVIOUS
  <2>5. Firsts(q, n)
    <3>1. PICK T : T = {j \in 0 .. Len(q) : \A l \in 1 .. j : DueAt(q, l) = 0}
      OBVIOUS
    <3>2. PICK i : i = Max(T) + 1
      OBVIOUS
    <3>3. n = i - 1
      BY <2>4, <3>1, <3>2, Zenon DEF DueCount, Place
    <3>4. Dated(q)
      BY <2>3 DEF TimerDomain
    <3> QED BY <3>1, <3>2, <3>3, <3>4, DueFirsts, Zenon
  <2>6. n \in Nat /\ n <= Len(q) /\ (\A l \in 1 .. n : DueAt(q, l) = 0) /\ Len(q) \in Nat
    BY <2>3, <2>5 DEF Firsts, TimerDomain
  <2>7. PICK f : Ringing(s, q, n, f)
    <3>1. q = LessOne(s.tmr)
      BY <2>1
    <3> QED BY <1>2, <2>4, <2>6, <3>1, TimerTickIs
  <2>8. f[0] = [s EXCEPT !.tmr = q] /\ u = f[n] /\ \A i \in 1 .. n : f[i] = Expired(f[i - 1], q[i])
    BY <2>7 DEF Ringing
  <2>9. PICK A : A = {i \in 0 .. n : Interrupts(s, f[i]) /\ Rung(q, n, i, f[i].tmr)}
    OBVIOUS
  <2>10. 0 \in A
    <3>1. PICK c : c = f[0]
      OBVIOUS
    <3>2. Interrupts(s, c) /\ c.tmr = q
      BY <2>3, <2>8, <3>1, TimersInterrupt
    <3>3. Rung(q, n, 0, q)
      <4>1. ASSUME NEW j \in 1 .. n - 0 PROVE q[j].x = q[0 + j].x /\ DueAt(q, j) = 0
        <5>1. j \in 1 .. n /\ 0 + j = j
          BY <2>6
        <5> QED BY <2>6, <5>1
      <4>2. \A j \in 1 .. 0 : FALSE
        OBVIOUS
      <4>3. Len(q) >= n - 0
        BY <2>6
      <4> QED BY <2>2, <4>1, <4>2, <4>3 DEF Rung
    <3>4. 0 \in 0 .. n
      BY <2>6
    <3> QED BY <2>9, <3>1, <3>2, <3>3, <3>4
  <2>11. ASSUME NEW i \in 1 .. n, i - 1 \in A
         PROVE  i \in A
    <3>1. PICK c, v, e : c = f[i - 1] /\ v = f[i] /\ e = q[i]
      OBVIOUS
    <3>2. Interrupts(s, c) /\ Rung(q, n, i - 1, c.tmr)
      BY <2>9, <2>11, <3>1
    <3>3. v = Expired(c, e)
      BY <2>8, <3>1
    <3>4. e \in TimerEntries
      BY <2>3, <2>6, <3>1
    <3>5. c \in Kernels
      BY <3>2 DEF Interrupts
    <3>6. PICK p, t : p = c.tmr /\ t = Tail(p)
      OBVIOUS
    <3>7. p \in Seq(TimerEntries) /\ Len(p) \in Nat /\ Len(p) > 0
      <4>1. p \in Seq(TimerEntries) /\ Len(p) >= n - (i - 1)
        BY <3>2, <3>6 DEF Rung, TimerList
      <4> QED BY <2>6, <4>1
    <3>8. /\ t \in Seq(TimerEntries) /\ Len(t) = Len(p) - 1
          /\ \A j \in 1 .. Len(p) - 1 : t[j] = p[j + 1]
      BY <3>6, <3>7
    <3>9. PICK r : r = Rest(t, e)
      OBVIOUS
    <3>10. Rung(q, n, i, r)
      <4>1. r = Rest(t, q[i])
        BY <3>1, <3>9
      <4>2. Rung(q, n, i - 1, p)
        BY <3>2, <3>6
      <4> HIDE <3>6
      <4> QED BY <2>2, <2>6, <3>8, <4>1, <4>2, RestRung
    <3>11. r \in Seq(TimerEntries)
      BY <3>10 DEF Rung, TimerList
    <3>12. r = Rest(Tail(c.tmr), e)
      BY <3>6, <3>9
    <3>13. Interrupts(c, v) /\ v.tmr = r
      <4>1. Rest(Tail(c.tmr), e) \in Seq(TimerEntries)
        BY <3>11, <3>12
      <4>2. Interrupts(c, Expired(c, e)) /\ Expired(c, e).tmr = Rest(Tail(c.tmr), e)
        BY <3>4, <3>5, <4>1, ExpiredIs, Zenon
      <4> QED BY <3>3, <3>12, <4>2, Zenon
    <3>14. Interrupts(s, v) /\ Rung(q, n, i, v.tmr)
      BY <3>2, <3>10, <3>13, InterruptsTrans
    <3>15. i \in 0 .. n
      BY <2>6
    <3> QED BY <2>9, <3>1, <3>14, <3>15
  <2>12. n \in A
    <3>1. \A i \in 0 .. n : i \in A
      BY <2>6, <2>10, <2>11, StepByStep
    <3> QED BY <2>6, <3>1
  <2>13. Interrupts(s, u) /\ Rung(q, n, n, u.tmr)
    BY <2>8, <2>9, <2>12
  <2>14. TimersTicked(q0, u.tmr)
    <3>1. PICK r : r = u.tmr
      OBVIOUS
    <3>2. Rung(q, n, n, r) /\ \A y, m : TimerDue(q0, y, m) => m > 0
      BY <2>1, <2>13, <3>1
    <3>3. TimersTicked(q0, r)
      BY <2>1, <2>2, <2>5, <3>2, AllRung
    <3> QED BY <3>1, <3>3
  <2> QED BY <2>1, <2>13, <2>14
<1> QED BY <1>1, <1>2

\* An interrupt leaves the kernel right,
LEMMA InterruptsSound ==
    ASSUME NEW s, NEW u, Sound(s), Interrupts(s, u)
    PROVE  Sound(u)
<1>1. /\ s \in Kernels /\ Fit(s, {}, s.run) /\ Top(s) /\ Wakeups(s, {}) /\ Kept(s)
  BY DEF Sound, Fit
<1>2. /\ u \in Kernels /\ SameLists(s, u) /\ u.live = s.live /\ u.mut = s.mut /\ u.mbx = s.mbx
      /\ u.events = s.events /\ u.waits = s.waits /\ u.tokens = s.tokens
  BY DEF Interrupts
<1>3. Fit(u, {}, u.run) /\ Top(u)
  BY <1>1, <1>2, ObjectsFit DEF SameLists
<1>4. Wakeups(u, {})
  BY <1>1, <1>2 DEF Wakeups, SameLists
<1>5. ASSUME NEW i \in DOMAIN u.psq, u.psq[i].id \in Tasks
      PROVE  u.psq[i].id \in Lasting
  <2>1. Asked(s, u)
    BY DEF Interrupts
  <2>2. u.psq[i].id \notin Sems /\ u.psq[i].id # Queue
    BY <1>5, ObjectNames, TaskNames
  <2>3. CASE \E j \in DOMAIN s.psq : u.psq[i] = s.psq[j]
    <3>1. PICK j \in DOMAIN s.psq : u.psq[i] = s.psq[j]
      BY <2>3
    <3> QED BY <1>1, <1>5, <3>1 DEF Kept
  <2> QED BY <2>1, <2>2, <2>3 DEF Asked
<1>6. Kept(u)
  BY <1>1, <1>2, <1>5 DEF Kept, SameLists
<1> QED BY <1>3, <1>4, <1>6 DEF Sound

\* with room for the messages that were asked for.
LEMMA InterruptsRoom ==
    ASSUME NEW s, NEW u, Sound(s), Interrupts(s, u), NEW after \in BOOLEAN,
           RoomForRequests(s, after)
    PROVE  RoomForRequests(u, after)
<1> SUFFICES ASSUME NEW i \in DOMAIN u.psq, u.psq[i].id = Queue
             PROVE  IF after THEN ~ Sending(u) ELSE u.mbx.count < MbxSize
  BY DEF RoomForRequests
<1>1. SameLists(s, u) /\ u.mbx = s.mbx /\ Asked(s, u)
  BY DEF Interrupts
<1>2. Sending(u) <=> Sending(s)
  BY <1>1 DEF Sending, SameLists
<1>3. CASE \E j \in DOMAIN s.psq : u.psq[i] = s.psq[j]
  <2>1. \E j \in DOMAIN s.psq : s.psq[j].id = Queue
    BY <1>3
  <2> QED BY <1>1, <1>2, <2>1 DEF RoomForRequests
<1>4. CASE ~ \E j \in DOMAIN s.psq : u.psq[i] = s.psq[j]
  <2>1. Queue \notin Sems \cup Lasting
    BY RtxAssumption, ObjectNames, TaskNames DEF Lasting
  <2>2. s.mbx.count < MbxSize
    BY <1>1, <1>4, <2>1 DEF Asked
  <2>3. ~ Sending(s)
    BY <2>2, RoomNotSending DEF Sound, Fit
  <2> QED BY <1>1, <1>2, <2>2, <2>3
<1> QED BY <1>3, <1>4

\* The times depend on the lists only.
LEMMA SameDates ==
    ASSUME NEW s, NEW u, SameLists(s, u), NEW d, Dates(s, d)
    PROVE  Dates(u, d)
  BY DEF SameLists, Dates, Waiting

\* What holds after a step that leaves the times of the threads right.
Holds(s, after, d, l) ==
    /\ Sound(s) /\ RoomForRequests(s, after) /\ (s.psq = <<>> => ~ after)
    /\ Dates(s, d) /\ Expiries(s.tmr, l)

\* The invariant, with the state of the kernel as an argument.
LEMMA IndInvIs ==
    IndInv <=> uses \in Programs /\ late \in BOOLEAN /\ Holds(k, late, due, left)
  BY DEF IndInv, Holds

\* A request of an interrupt.
LEMMA IsrHolds ==
    ASSUME NEW s, NEW after \in BOOLEAN, NEW d, NEW l, Holds(s, after, d, l),
           NEW u, Interrupts(s, u), u.tmr = s.tmr
    PROVE  Holds(u, after, d, l)
<1>1. /\ Sound(s) /\ RoomForRequests(s, after) /\ (s.psq = <<>> => ~ after)
      /\ Dates(s, d) /\ Expiries(s.tmr, l)
  BY DEF Holds
<1>2. Sound(u) /\ RoomForRequests(u, after)
  BY <1>1, InterruptsSound, InterruptsRoom
<1>3. SameLists(s, u) /\ (u.psq = <<>> => s.psq = <<>>)
  BY DEF Interrupts, Asked
<1>4. Dates(u, d)
  BY <1>1, <1>3, SameDates
<1> QED BY <1>1, <1>2, <1>3, <1>4 DEF Holds

\* The times that are left after PendSV.
LEMMA CalmerDates ==
    ASSUME NEW s, NEW u, Calmer(s, u), Sound(s), Sound(u), NEW d, Dates(s, d),
           NEW e, e = [t \in Tasks |-> IF Waiting(u, t) THEN d[t] ELSE Forever]
    PROVE  Dates(u, e)
<1>1. Spaced(u.dly)
  BY DEF Calmer, Dates
<1>2. ASSUME NEW t \in Tasks, NEW n, Due(u.dly, t, n)
      PROVE  e[t] = n /\ n \in 1 .. Forever - 1
  <2>1. Due(s.dly, t, n)
    BY <1>2 DEF Calmer
  <2>2. InDly(u.dly, t)
    BY <1>2 DEF Due, InDly
  <2>3. Waiting(u, t)
    BY <2>2 DEF Waiting, Sound, Fit, Delayed
  <2> QED BY <2>1, <2>3 DEF Dates
<1>3. ASSUME NEW t \in Tasks, Waiting(u, t)
      PROVE  e[t] = Forever \/ Due(u.dly, t, e[t])
  <2>1. u.st[t] \notin {"READY", "RUNNING"} /\ t \in TCBs
    BY <1>3, StateNames, TaskNames DEF Waiting
  <2>2. Waiting(s, t) /\ e[t] = d[t]
    BY <1>3, <2>1 DEF Waiting, Calmer
  <2>3. d[t] = Forever \/ Due(s.dly, t, d[t])
    BY <2>2 DEF Dates
  <2> QED BY <2>1, <2>2, <2>3 DEF Calmer
<1> QED BY <1>1, <1>2, <1>3 DEF Dates

\* The times that are left after a tick.
LEMMA TicksDates ==
    ASSUME NEW s, NEW u, Ticks(s, u), Sound(s), Sound(u), NEW d, Dates(s, d),
           NEW e, e = [t \in Tasks |-> CASE ~Waiting(u, t) -> Forever
                                         [] Waiting(u, t) /\ d[t] \in 1 .. Forever - 1 -> d[t] - 1
                                         [] OTHER -> d[t]]
    PROVE  Dates(u, e)
<1>1. Spaced(u.dly)
  BY DEF Ticks
<1>2. ASSUME NEW t \in Tasks, NEW n, Due(u.dly, t, n)
      PROVE  e[t] = n /\ n \in 1 .. Forever - 1
  <2>1. n \in Int /\ n > 0 /\ Due(s.dly, t, n + 1)
    BY <1>2 DEF Ticks
  <2>2. d[t] = n + 1 /\ n + 1 \in 1 .. Forever - 1
    BY <2>1 DEF Dates
  <2>3. InDly(u.dly, t)
    BY <1>2 DEF Due, InDly
  <2>4. Waiting(u, t)
    BY <2>3 DEF Waiting, Sound, Fit, Delayed
  <2>5. e[t] = d[t] - 1
    BY <2>2, <2>4
  <2> QED BY <2>1, <2>2, <2>5, RtxAssumption
<1>3. ASSUME NEW t \in Tasks, Waiting(u, t)
      PROVE  e[t] = Forever \/ Due(u.dly, t, e[t])
  <2>1. u.st[t] \notin {"READY", "RUNNING"} /\ t \in TCBs
    BY <1>3, StateNames, TaskNames DEF Waiting
  <2>2. Waiting(s, t)
    BY <1>3, <2>1 DEF Waiting, Ticks, Loosened, SameObjects
  <2>3. CASE d[t] = Forever
    <3>1. d[t] \notin 1 .. Forever - 1
      BY <2>3, RtxAssumption
    <3> QED BY <1>3, <2>3, <3>1
  <2>4. CASE Due(s.dly, t, d[t])
    <3>1. d[t] \in 1 .. Forever - 1 /\ Due(u.dly, t, d[t] - 1)
      BY <2>1, <2>4 DEF Dates, Ticks
    <3>2. e[t] = d[t] - 1
      BY <1>3, <3>1
    <3> QED BY <3>1, <3>2
  <2> QED BY <2>2, <2>3, <2>4 DEF Dates
<1> QED BY <1>1, <1>2, <1>3 DEF Dates

-----------------------------------------------------------------------------
(***************************************************************************)
(* The calls leave the timers alone, and but those of mailboxes the mailbox. *)
(***************************************************************************)

\* rt_dispatch keeps both.
LEMMA DispatchKeeps ==
    ASSUME NEW s, NEW t
    PROVE  Keeps(s, rt_dispatch(s, t))
<1>1. PICK a : a = rt_put_rdy_first(s, s.run)
  OBVIOUS
<1>2. Keeps(s, a) /\ Keeps(s, MakeReady(s, t))
  BY <1>1, ReadyKeeps
<1>3. \/ rt_dispatch(s, t) = [a EXCEPT !.run = t, !.st[t] = "RUNNING"]
      \/ rt_dispatch(s, t) = MakeReady(s, t)
  BY <1>1 DEF rt_dispatch
<1>4. Keeps(a, [a EXCEPT !.run = t, !.st[t] = "RUNNING"])
  BY DEF Keeps, KeepsTimers
<1> QED BY <1>2, <1>3, <1>4, KeepsTrans

\* rt_block keeps both.
LEMMA BlockKeeps ==
    ASSUME NEW s, NEW timeout, NEW state
    PROVE  Keeps(s, rt_block(s, timeout, state))
<1>1. PICK a : a = IF timeout = Forever THEN s ELSE rt_put_dly(s, s.run, timeout)
  OBVIOUS
<1>2. Keeps(s, a) /\ Keeps(s, s)
  BY <1>1, ReadyKeeps
<1>3. PICK b : b = [a EXCEPT !.st[s.run] = state]
  OBVIOUS
<1>4. Keeps(a, b)
  BY <1>3 DEF Keeps, KeepsTimers
<1>5. Keeps(b, SwitchToFirst(b))
  BY ReadyKeeps
<1>6. rt_block(s, timeout, state) = s \/ rt_block(s, timeout, state) = SwitchToFirst(b)
  BY <1>1, <1>3 DEF rt_block
<1> QED BY <1>2, <1>4, <1>5, <1>6, KeepsTrans

\* Waiting for an object keeps both.
LEMMA BlockOnKeeps ==
    ASSUME NEW s, NEW o, NEW timeout, NEW state
    PROVE  Keeps(s, BlockOn(s, o, timeout, state))
<1>1. PICK a : a = [s EXCEPT !.wait[o] = rt_put_prio(s, @, s.run)]
  OBVIOUS
<1>2. Keeps(s, a)
  BY <1>1 DEF Keeps, KeepsTimers
<1>3. BlockOn(s, o, timeout, state) = rt_block(a, timeout, state)
  BY <1>1 DEF BlockOn
<1> QED BY <1>2, <1>3, BlockKeeps, KeepsTrans

\* Taking out who waits for an object keeps both.
LEMMA UnchainKeeps ==
    ASSUME NEW s, NEW o
    PROVE  Keeps(s, Unchain(s, o))
<1>1. PICK a : a = [s EXCEPT !.wait[o] = Tail(@)]
  OBVIOUS
<1>2. Keeps(s, a)
  BY <1>1 DEF Keeps, KeepsTimers
<1>3. Unchain(s, o) = rt_rmv_dly(a, rt_get_first(s, o))
  BY <1>1 DEF Unchain
<1> QED BY <1>2, <1>3, ReadyKeeps, KeepsTrans

\* A thread that waits for an object is woken.
LEMMA WakeKeeps ==
    ASSUME NEW s, NEW o, NEW t
    PROVE  Keeps(s, rt_dispatch(Unchain(s, o), t)) /\ Keeps(s, MakeReady(Unchain(s, o), t))
  BY UnchainKeeps, DispatchKeeps, ReadyKeeps, KeepsTrans

\* rt_tsk_pass keeps both.
LEMMA PassKeeps ==
    ASSUME NEW s
    PROVE  Keeps(s, rt_tsk_pass(s))
<1>1. PICK a : a = [s EXCEPT !.rdy = <<Head(@)>> \o rt_put_prio(s, Tail(@), s.run),
                             !.st[s.run] = "READY"]
  OBVIOUS
<1>2. Keeps(s, a)
  BY <1>1 DEF Keeps, KeepsTimers
<1>3. rt_tsk_pass(s) = s \/ rt_tsk_pass(s) = SwitchToFirst(a)
  BY <1>1 DEF rt_tsk_pass
<1> QED BY <1>2, <1>3, ReadyKeeps, KeepsTrans

\* rt_tsk_prio keeps both.
LEMMA PrioKeeps ==
    ASSUME NEW s, NEW t, NEW p
    PROVE  Keeps(s, rt_tsk_prio(s, t, p))
<1>1. PICK r, a, b : /\ r = [s EXCEPT !.prio[t] = p] /\ a = rt_resort_prio(r, t)
                     /\ b = [a EXCEPT !.rdy = Tail(@)]
  OBVIOUS
<1>2. Keeps(s, r) /\ Keeps(a, b)
  BY <1>1 DEF Keeps, KeepsTimers
<1>3. Keeps(r, a)
  BY <1>1, ResortKeeps
<1>4. \/ rt_tsk_prio(s, t, p) = s \/ rt_tsk_prio(s, t, p) = YieldToHigher(r)
      \/ rt_tsk_prio(s, t, p) = a \/ rt_tsk_prio(s, t, p) = rt_dispatch(b, Head(a.rdy))
  BY <1>1, Zenon DEF rt_tsk_prio
<1>5. Keeps(s, s) /\ Keeps(r, YieldToHigher(r)) /\ Keeps(b, rt_dispatch(b, Head(a.rdy)))
  BY ReadyKeeps, YieldKeeps, DispatchKeeps
<1> QED BY <1>2, <1>3, <1>4, <1>5, KeepsTrans

\* rt_tsk_delete keeps both.
LEMMA DeleteKeeps ==
    ASSUME NEW s, NEW t
    PROVE  Keeps(s, rt_tsk_delete(s, t))
<1>1. PICK r, a, b : /\ r = [s EXCEPT !.active = @ \ {t}] /\ a = [r EXCEPT !.st[t] = "INACTIVE"]
                     /\ b = rt_rmv_list(r, t)
  OBVIOUS
<1>2. Keeps(s, r) /\ Keeps(r, a)
  BY <1>1 DEF Keeps, KeepsTimers
<1>3. Keeps(r, b) /\ Keeps(b, rt_rmv_dly(b, t)) /\ Keeps(a, SwitchToFirst(a)) /\ Keeps(s, s)
  BY <1>1, ReadyKeeps
<1>4. \/ rt_tsk_delete(s, t) = s \/ rt_tsk_delete(s, t) = SwitchToFirst(a)
      \/ rt_tsk_delete(s, t) = rt_rmv_dly(b, t)
  BY <1>1, Zenon DEF rt_tsk_delete
<1> QED BY <1>2, <1>3, <1>4, KeepsTrans

\* rt_tsk_create keeps both.
LEMMA CreateKeeps ==
    ASSUME NEW s, NEW t, NEW p
    PROVE  Keeps(s, rt_tsk_create(s, t, p))
<1>1. PICK a : a = [s EXCEPT !.active = @ \cup {t}, !.prio[t] = p, !.events[t] = {},
                             !.waits[t] = {}]
  OBVIOUS
<1>2. Keeps(s, a)
  BY <1>1 DEF Keeps, KeepsTimers
<1>3. rt_tsk_create(s, t, p) = rt_dispatch(a, t)
  BY <1>1 DEF rt_tsk_create
<1> QED BY <1>2, <1>3, DispatchKeeps, KeepsTrans

\* The calls of semaphores keep both.
LEMMA SemKeeps ==
    ASSUME NEW s, NEW o, NEW timeout
    PROVE  /\ Keeps(s, rt_sem_send(s, o)) /\ Keeps(s, rt_sem_wait(s, o, timeout))
           /\ Keeps(s, rt_sem_psh(s, o)) /\ Keeps(s, rt_sem_init(s, o))
<1>1. Keeps(s, StoreToken(s, o)) /\ Keeps(s, rt_sem_init(s, o))
  BY DEF Keeps, KeepsTimers, StoreToken, rt_sem_init
<1>2. Keeps(s, rt_sem_send(s, o))
  BY <1>1, WakeKeeps DEF rt_sem_send
<1>3. Keeps(s, rt_sem_psh(s, o))
  BY <1>1, WakeKeeps DEF rt_sem_psh
<1>4. Keeps(s, rt_sem_wait(s, o, timeout))
  <2>1. PICK a : a = [s EXCEPT !.tokens[o] = @ - 1]
    OBVIOUS
  <2>2. Keeps(s, a)
    BY <2>1 DEF Keeps, KeepsTimers
  <2>3. \/ rt_sem_wait(s, o, timeout) = a \/ rt_sem_wait(s, o, timeout) = s
        \/ rt_sem_wait(s, o, timeout) = BlockOn(s, o, timeout, "WAIT_SEM")
    BY <2>1 DEF rt_sem_wait
  <2> QED BY <2>2, <2>3, BlockOnKeeps, ReadyKeeps
<1> QED BY <1>1, <1>2, <1>3, <1>4

\* The calls of mutexes keep both.
LEMMA MutKeeps ==
    ASSUME NEW s, Sound(s), NEW m \in Mutexes, NEW timeout
    PROVE  /\ Keeps(s, rt_mut_wait(s, m, timeout)) /\ Keeps(s, rt_mut_release(s, m))
           /\ Keeps(s, rt_mut_init(s, m))
<1>1. Keeps(s, rt_mut_init(s, m)) /\ Keeps(s, s)
  BY DEF Keeps, KeepsTimers, rt_mut_init
<1>0. s.mut[m].level \in Nat
  BY MutTypes DEF Sound, Fit
<1>2. Keeps(s, rt_mut_wait(s, m, timeout))
  <2>1. PICK o, a, b, c : /\ o = s.mut[m].owner /\ a = [s EXCEPT !.prio[o] = s.prio[s.run]]
                          /\ b = rt_resort_prio(a, o)
                          /\ c = IF s.mut[m].prio < s.prio[s.run] THEN b ELSE s
    OBVIOUS
  <2>2. Keeps(s, a)
    BY <2>1 DEF Keeps, KeepsTimers
  <2>3. Keeps(s, c)
    BY <1>1, <2>1, <2>2, ResortKeeps, KeepsTrans
  <2>4. Keeps(s, BlockOn(c, m, timeout, "WAIT_MUT"))
    BY <2>3, BlockOnKeeps, KeepsTrans
  <2>5. \/ rt_mut_wait(s, m, timeout) = s
        \/ rt_mut_wait(s, m, timeout) = BlockOn(c, m, timeout, "WAIT_MUT")
        \/ rt_mut_wait(s, m, timeout) = [s EXCEPT !.mut[m] =
              [level |-> 1, owner |-> s.run, prio |-> s.prio[s.run]]]
        \/ rt_mut_wait(s, m, timeout) = [s EXCEPT !.mut[m].level = @ + 1]
    <3>1. PICK l, h, w : /\ l = [s EXCEPT !.mut[m] =
                                    [level |-> 1, owner |-> s.run, prio |-> s.prio[s.run]]]
                         /\ h = [s EXCEPT !.mut[m].level = @ + 1]
                         /\ w = BlockOn(c, m, timeout, "WAIT_MUT")
      OBVIOUS
    <3>2. PICK own, zero : own = Owns(s, s.run, m) /\ zero = s.mut[m].level
      OBVIOUS
    <3>3. rt_mut_wait(s, m, timeout) =
            CASE zero = 0 -> l [] own -> h [] ~ own /\ zero > 0 /\ timeout = 0 -> s [] OTHER -> w
      BY <2>1, <3>1, <3>2, Zenon DEF rt_mut_wait
    <3> HIDE <2>1, <3>1
    <3>4. rt_mut_wait(s, m, timeout) \in {s, l, h, w}
      BY <3>3
    <3> QED BY <3>1, <3>4, Zenon
  <2>6. /\ Keeps(s, [s EXCEPT !.mut[m] = [level |-> 1, owner |-> s.run, prio |-> s.prio[s.run]]])
        /\ \A v : Keeps(s, [s EXCEPT !.mut = v])
    BY DEF Keeps, KeepsTimers
  <2>7. Keeps(s, [s EXCEPT !.mut[m].level = @ + 1])
    <3>1. \E v : [s EXCEPT !.mut[m].level = @ + 1] = [s EXCEPT !.mut = v]
      BY Zenon
    <3> QED BY <2>6, <3>1
  <2> HIDE <2>1
  <2> QED BY <1>1, <2>4, <2>5, <2>6, <2>7, Zenon
<1>3. Keeps(s, rt_mut_release(s, m))
  <2>1. PICK r, t, a, b : /\ r = [s EXCEPT !.prio[s.run] = s.mut[m].prio]
                          /\ t = rt_get_first(s, m) /\ a = Unchain(r, m)
                          /\ b = [a EXCEPT !.mut[m] =
                                    [level |-> 1, owner |-> t, prio |-> s.prio[t]]]
    OBVIOUS
  <2>2. Keeps(s, r) /\ Keeps(a, b)
    BY <2>1 DEF Keeps, KeepsTimers
  <2>3. Keeps(s, b)
    BY <2>1, <2>2, UnchainKeeps, KeepsTrans
  <2>4. Keeps(s, rt_dispatch(b, t))
    BY <2>3, DispatchKeeps, KeepsTrans
  <2>5. Keeps(s, SwitchToFirst(MakeReady(MakeReady(b, s.run), t)))
    BY <2>3, ReadyKeeps, KeepsTrans
  <2>6. PICK c : c = [r EXCEPT !.mut[m].level = 0]
    OBVIOUS
  <2>7. Keeps(s, YieldToHigher(c))
    <3>1. \E v : c = [r EXCEPT !.mut = v]
      BY <2>6, Zenon
    <3>2. \A v : Keeps(r, [r EXCEPT !.mut = v])
      BY DEF Keeps, KeepsTimers
    <3>3. Keeps(r, c)
      BY <3>1, <3>2, Zenon
    <3> QED BY <2>2, <3>3, YieldKeeps, KeepsTrans
  <2>8. PICK d : d = [s EXCEPT !.mut[m].level = @ - 1]
    OBVIOUS
  <2>9. Keeps(s, d)
    <3>1. \E v : d = [s EXCEPT !.mut = v]
      BY <2>8, Zenon
    <3>2. \A v : Keeps(s, [s EXCEPT !.mut = v])
      BY DEF Keeps, KeepsTimers
    <3> QED BY <3>1, <3>2, Zenon
  <2>10. \/ rt_mut_release(s, m) = s \/ rt_mut_release(s, m) = d
         \/ rt_mut_release(s, m) = YieldToHigher(c)
         \/ rt_mut_release(s, m) = rt_dispatch(b, t)
         \/ rt_mut_release(s, m) = SwitchToFirst(MakeReady(MakeReady(b, s.run), t))
    <3>1. PICK y, u, w : /\ y = YieldToHigher(c) /\ u = rt_dispatch(b, t)
                         /\ w = SwitchToFirst(MakeReady(MakeReady(b, s.run), t))
      OBVIOUS
    <3>2. PICK own, level, none, high : /\ own = Owns(s, s.run, m) /\ level = s.mut[m].level
                                        /\ none = (s.wait[m] = <<>>)
                                        /\ high = (r.prio[s.run] >= rt_rdy_prio(r))
      OBVIOUS
    <3>3. rt_mut_release(s, m) =
            CASE ~ own -> s [] own /\ level > 1 -> d [] own /\ level = 1 /\ none -> y
              [] OTHER -> IF high THEN u ELSE w
      BY <2>1, <2>6, <2>8, <3>1, <3>2, Zenon DEF rt_mut_release
    <3> HIDE <2>1, <2>6, <2>8, <3>1
    <3>4. rt_mut_release(s, m) \in {s, d, y, u, w}
      BY <3>3
    <3> QED BY <3>1, <3>4, Zenon
  <2> HIDE <2>1, <2>6, <2>8
  <2> QED BY <1>1, <2>4, <2>5, <2>7, <2>9, <2>10, Zenon
<1> QED BY <1>1, <1>2, <1>3

\* Who keeps both keeps the timers.
LEMMA KeepsToo ==
    ASSUME NEW s, NEW u, Keeps(s, u)
    PROVE  KeepsTimers(s, u)
  BY DEF Keeps

\* The timers are kept by one step after the other.
LEMMA TimersTrans ==
    ASSUME NEW a, NEW b, NEW c, KeepsTimers(a, b), KeepsTimers(b, c)
    PROVE  KeepsTimers(a, c)
  BY DEF KeepsTimers

\* Writing the mailbox and waiting for it keep the timers.
LEMMA MbxKeeps ==
    ASSUME NEW s
    PROVE  /\ \A x : KeepsTimers(s, Store(s, x)) /\ \A v : KeepsTimers(s, [s EXCEPT !.mbx = v])
           /\ \A state, timeout : KeepsTimers(s, MbxBlock(s, state, timeout))
<1>1. \A v : KeepsTimers(s, [s EXCEPT !.mbx = v])
  BY DEF KeepsTimers
<1>2. \A x : KeepsTimers(s, Store(s, x))
  <2>1. \A x : \E v : Store(s, x) = [s EXCEPT !.mbx = v]
    BY Zenon DEF Store
  <2> QED BY <1>1, <2>1, Zenon
<1>3. ASSUME NEW state, NEW timeout PROVE KeepsTimers(s, MbxBlock(s, state, timeout))
  <2>1. PICK a : a = [s EXCEPT !.mbx.state = IF s.wait[Queue] = <<>> THEN state ELSE @]
    OBVIOUS
  <2>2. \E v : a = [s EXCEPT !.mbx = v]
    BY <2>1, Zenon
  <2>3. KeepsTimers(s, a)
    BY <1>1, <2>2, Zenon
  <2>4. MbxBlock(s, state, timeout) = BlockOn(a, Queue, timeout, "WAIT_MBX")
    BY <2>1, Zenon DEF MbxBlock
  <2>5. KeepsTimers(a, BlockOn(a, Queue, timeout, "WAIT_MBX"))
    BY BlockOnKeeps, KeepsToo
  <2> QED BY <2>3, <2>4, <2>5, TimersTrans
<1> QED BY <1>1, <1>2, <1>3

\* The calls of mailboxes keep the timers.
LEMMA MbxCallsKeep ==
    ASSUME NEW s, NEW x, NEW timeout
    PROVE  /\ KeepsTimers(s, rt_mbx_send(s, x, timeout)) /\ KeepsTimers(s, rt_mbx_wait(s, timeout))
           /\ KeepsTimers(s, rt_mbx_psh(s, x))
<1>1. KeepsTimers(s, s)
  BY DEF KeepsTimers
<1>2. PICK t, a, g : /\ t = rt_get_first(s, Queue) /\ a = rt_dispatch(Unchain(s, Queue), t)
                     /\ g = Store(s, x)
  OBVIOUS
<1>3. KeepsTimers(s, a) /\ KeepsTimers(s, g)
  BY <1>2, WakeKeeps, MbxKeeps, KeepsToo
<1>4. KeepsTimers(s, rt_mbx_send(s, x, timeout))
  <2>1. PICK r, w : r = [s EXCEPT !.msg[s.run] = x] /\ w = MbxBlock(r, 2, timeout)
    OBVIOUS
  <2>2. KeepsTimers(s, r)
    <3>1. \E v : r = [s EXCEPT !.msg = v]
      BY <2>1, Zenon
    <3>2. \A v : KeepsTimers(s, [s EXCEPT !.msg = v])
      BY DEF KeepsTimers
    <3> QED BY <3>1, <3>2, Zenon
  <2>3. KeepsTimers(s, w)
    BY <2>1, <2>2, MbxKeeps, TimersTrans
  <2>4. PICK one, room, full : /\ one = (s.wait[Queue] # <<>> /\ s.mbx.state = 1)
                               /\ room = (s.mbx.count < MbxSize)
                               /\ full = (s.mbx.count = MbxSize /\ timeout = 0)
    OBVIOUS
  <2>5. rt_mbx_send(s, x, timeout) =
          CASE one -> a [] ~ one /\ room -> g [] ~ one /\ full -> s [] OTHER -> w
    BY <1>2, <2>1, <2>4, Zenon DEF rt_mbx_send
  <2>6. rt_mbx_send(s, x, timeout) \in {a, g, s, w}
    <3> HIDE <1>2, <2>1, <2>4
    <3> QED BY <2>5
  <2> QED BY <1>1, <1>3, <2>3, <2>6, Zenon
<1>5. KeepsTimers(s, rt_mbx_wait(s, timeout))
  <2>1. PICK r, c, b, w : /\ r = [s EXCEPT !.mbx.last = Advance(@), !.mbx.count = @ - 1]
                          /\ c = Store(r, s.msg[t]) /\ b = rt_dispatch(Unchain(c, Queue), t)
                          /\ w = MbxBlock(s, 1, timeout)
    OBVIOUS
  <2>2. KeepsTimers(s, r)
    <3>1. \E v : r = [s EXCEPT !.mbx = v]
      BY <2>1, Zenon
    <3>2. \A v : KeepsTimers(s, [s EXCEPT !.mbx = v])
      BY MbxKeeps
    <3> QED BY <3>1, <3>2, Zenon
  <2>3. KeepsTimers(s, c)
    BY <2>1, <2>2, MbxKeeps, TimersTrans
  <2>4. KeepsTimers(s, b) /\ KeepsTimers(s, w)
    BY <2>1, <2>3, UnchainKeeps, DispatchKeeps, MbxKeeps, TimersTrans, KeepsToo
  <2>5. PICK some, two, none : /\ some = (s.mbx.count > 0)
                               /\ two = (s.wait[Queue] # <<>> /\ s.mbx.state = 2)
                               /\ none = (s.mbx.count = 0 /\ timeout = 0)
    OBVIOUS
  <2>6. rt_mbx_wait(s, timeout) =
          CASE some /\ two -> b [] some /\ ~ two -> r [] none -> s [] OTHER -> w
    BY <1>2, <2>1, <2>5, Zenon DEF rt_mbx_wait
  <2>7. rt_mbx_wait(s, timeout) \in {b, r, s, w}
    <3> HIDE <1>2, <2>1, <2>5
    <3> QED BY <2>6
  <2> QED BY <1>1, <2>2, <2>4, <2>7, Zenon
<1>6. KeepsTimers(s, rt_mbx_psh(s, x))
  <2>1. PICK d, c, b, h : /\ d = MakeReady(Unchain(s, Queue), t) /\ c = Store(s, s.msg[t])
                          /\ b = MakeReady(Unchain(c, Queue), t) /\ h = [s EXCEPT !.fault = TRUE]
    OBVIOUS
  <2>2. KeepsTimers(s, d) /\ KeepsTimers(s, b)
    BY <2>1, MbxKeeps, UnchainKeeps, ReadyKeeps, TimersTrans, KeepsToo
  <2>3. KeepsTimers(s, h)
    BY <2>1 DEF KeepsTimers
  <2>4. PICK one, two, room : /\ one = (s.wait[Queue] # <<>> /\ s.mbx.state = 1)
                              /\ two = (s.wait[Queue] # <<>> /\ s.mbx.state = 2)
                              /\ room = (s.wait[Queue] = <<>> /\ s.mbx.count < MbxSize)
    OBVIOUS
  <2>5. rt_mbx_psh(s, x) = CASE one -> d [] two -> b [] room -> g [] OTHER -> h
    BY <1>2, <2>1, <2>4, Zenon DEF rt_mbx_psh
  <2>6. rt_mbx_psh(s, x) \in {d, b, g, h}
    <3> HIDE <1>2, <2>1, <2>4
    <3> QED BY <2>5
  <2> QED BY <1>3, <2>2, <2>3, <2>6, Zenon
<1> QED BY <1>4, <1>5, <1>6

\* The calls of signals keep both.
LEMMA EvtKeeps ==
    ASSUME NEW s, NEW t, NEW flags, NEW timeout, NEW and
    PROVE  /\ Keeps(s, rt_evt_set(s, t, flags)) /\ Keeps(s, rt_evt_psh(s, t, flags))
           /\ Keeps(s, rt_evt_clr(s, t, flags)) /\ Keeps(s, rt_evt_wait(s, flags, timeout, and))
<1>1. /\ Keeps(s, s) /\ \A v : Keeps(s, [s EXCEPT !.events = v]) /\ Keeps(s, [s EXCEPT !.waits = v])
      /\ \A v, w : Keeps(s, [s EXCEPT !.events = v, !.waits = w])
  BY DEF Keeps, KeepsTimers
<1>2. PICK r : r = [s EXCEPT !.events[t] = @ \cup flags]
  OBVIOUS
<1>3. Keeps(s, r)
  <2>1. \E v : r = [s EXCEPT !.events = v]
    BY <1>2, Zenon
  <2> QED BY <1>1, <2>1, Zenon
<1>4. PICK took : took = [r EXCEPT !.events[t] = @ \ s.waits[t],
                             !.waits[t] = IF s.st[t] = "WAIT_OR" THEN @ \cap r.events[t] ELSE @]
  OBVIOUS
<1>5. Keeps(s, took)
  <2>1. \E v, w : took = [r EXCEPT !.events = v, !.waits = w]
    BY <1>4, Zenon
  <2>2. PICK v, w : took = [r EXCEPT !.events = v, !.waits = w]
    BY <2>1
  <2>3. Keeps(r, took)
    <3> HIDE <1>4
    <3> QED BY <2>2 DEF Keeps, KeepsTimers
  <2> QED BY <1>3, <2>3, KeepsTrans
<1>6. PICK b : b = rt_rmv_dly(took, t)
  OBVIOUS
<1>7. Keeps(s, b)
  BY <1>5, <1>6, ReadyKeeps, KeepsTrans
<1>8. Keeps(s, rt_evt_psh(s, t, flags))
  <2>1. rt_evt_psh(s, t, flags) = r \/ rt_evt_psh(s, t, flags) = MakeReady(b, t)
    BY <1>2, <1>4, <1>6, ZenonT(60) DEF rt_evt_psh, SetFlags
  <2> QED BY <1>3, <1>7, <2>1, ReadyKeeps, KeepsTrans
<1>9. Keeps(s, rt_evt_set(s, t, flags))
  <2>1. \/ rt_evt_set(s, t, flags) = s \/ rt_evt_set(s, t, flags) = r
        \/ rt_evt_set(s, t, flags) = rt_dispatch(b, t)
    BY <1>2, <1>4, <1>6, ZenonT(60) DEF rt_evt_set, SetFlags
  <2>2. Keeps(s, rt_dispatch(b, t))
    BY <1>7, DispatchKeeps, KeepsTrans
  <2> QED BY <1>1, <1>3, <2>1, <2>2, Zenon
<1>10. Keeps(s, rt_evt_clr(s, t, flags))
  <2>1. \E v : rt_evt_clr(s, t, flags) = s \/ rt_evt_clr(s, t, flags) = [s EXCEPT !.events = v]
    BY Zenon DEF rt_evt_clr
  <2> QED BY <1>1, <2>1, Zenon
<1>11. Keeps(s, rt_evt_wait(s, flags, timeout, and))
  <2>1. PICK a, state : /\ a = [s EXCEPT !.waits[s.run] = flags]
                        /\ state = IF and THEN "WAIT_AND" ELSE "WAIT_OR"
    OBVIOUS
  <2>2. Keeps(s, a)
    <3>1. \E v : a = [s EXCEPT !.waits = v]
      BY <2>1, Zenon
    <3> QED BY <1>1, <3>1, Zenon
  <2>3. \E v, w : \/ rt_evt_wait(s, flags, timeout, and) = [s EXCEPT !.events = v, !.waits = w]
                  \/ rt_evt_wait(s, flags, timeout, and) = rt_block(a, timeout, state)
    BY <2>1, Zenon DEF rt_evt_wait
  <2>4. Keeps(s, rt_block(a, timeout, state))
    BY <2>2, BlockKeeps, KeepsTrans
  <2>5. PICK v, w : \/ rt_evt_wait(s, flags, timeout, and) = [s EXCEPT !.events = v, !.waits = w]
                    \/ rt_evt_wait(s, flags, timeout, and) = rt_block(a, timeout, state)
    BY <2>3
  <2>6. Keeps(s, [s EXCEPT !.events = v, !.waits = w])
    BY DEF Keeps, KeepsTimers
  <2> QED BY <2>4, <2>5, <2>6, Zenon
<1> QED BY <1>8, <1>9, <1>10, <1>11

\* rt_pop_req keeps the timers.
LEMMA PopReqKeeps ==
    ASSUME NEW s \in Kernels
    PROVE  KeepsTimers(s, rt_pop_req(s))
<1>1. PICK n, a : n = Len(s.psq) /\ a = rt_put_rdy_first(s, s.run)
  OBVIOUS
<1>2. n \in Nat
  BY <1>1 DEF Kernels
<1>3. PICK f : Serving(s, a, n, f)
  BY <1>1, <1>2, PopReqIs
<1>4. PICK A : A = {i \in 0 .. n : KeepsTimers(s, f[i])}
  OBVIOUS
<1>5. 0 \in A
  <2>1. KeepsTimers(s, a)
    BY <1>1, ReadyKeeps, KeepsToo
  <2> QED BY <1>2, <1>3, <1>4, <2>1 DEF Serving
<1>6. ASSUME NEW i \in 1 .. n, i - 1 \in A
      PROVE  i \in A
  <2>1. PICK c, e : c = f[i - 1] /\ e = s.psq[i]
    OBVIOUS
  <2>2. KeepsTimers(s, c) /\ f[i] = Answered(c, e)
    BY <1>3, <1>4, <1>6, <2>1 DEF Serving
  <2>3. KeepsTimers(c, Answered(c, e))
    BY EvtKeeps, MbxCallsKeep, SemKeeps, KeepsToo DEF Answered
  <2>4. KeepsTimers(s, f[i])
    BY <2>2, <2>3, TimersTrans
  <2> QED BY <1>2, <1>4, <2>4
<1>7. KeepsTimers(s, f[n])
  <2>1. \A i \in 0 .. n : i \in A
    BY <1>2, <1>5, <1>6, StepByStep
  <2> QED BY <1>2, <1>4, <2>1
<1>8. PICK c, g : c = f[n] /\ g = [c EXCEPT !.psq = <<>>]
  OBVIOUS
<1>9. KeepsTimers(c, g)
  BY <1>8 DEF KeepsTimers
<1>10. rt_pop_req(s) = SwitchToFirst(g)
  BY <1>3, <1>8, Zenon DEF Serving
<1> QED BY <1>7, <1>8, <1>9, <1>10, ReadyKeeps, TimersTrans, KeepsToo

-----------------------------------------------------------------------------
(***************************************************************************)
(* What the calls of mailboxes do to the ring.                             *)
(***************************************************************************)

\* Waiting for a mailbox leaves its ring alone.
LEMMA BlockFeeds ==
    ASSUME NEW s \in Kernels, NEW state, NEW timeout, NEW u, u = MbxBlock(s, state, timeout)
    PROVE  Fed(s.mbx, u.mbx)
<1>1. PICK m : m = [s.mbx EXCEPT !.state = IF s.wait[Queue] = <<>> THEN state ELSE @]
  OBVIOUS
<1>2. PICK a : a = [s EXCEPT !.mbx = m]
  OBVIOUS
<1>3. s.mbx \in Mailboxes
  BY MbxTypes
<1>4. m.first = s.mbx.first /\ m.last = s.mbx.last /\ m.count = s.mbx.count /\ m.msg = s.mbx.msg
  BY <1>1, <1>3 DEF Mailboxes
<1>5. Fed(s.mbx, m)
  BY <1>3, <1>4, FedSame
<1>6. a.mbx = m /\ "mbx" \in DOMAIN a
  BY <1>2 DEF Kernels
<1>7. u = BlockOn(a, Queue, timeout, "WAIT_MBX")
  <2>1. a = [s EXCEPT !.mbx.state = IF s.wait[Queue] = <<>> THEN state ELSE @]
    BY <1>1, <1>2 DEF Kernels
  <2> QED BY <2>1, Zenon DEF MbxBlock
<1>8. Keeps(a, u)
  BY <1>7, BlockOnKeeps
<1> QED BY <1>5, <1>6, <1>8 DEF Keeps

\* rt_mbx_send puts its message in, gives it to a thread or waits.
LEMMA SendFeeds ==
    ASSUME NEW s, Sound(s), s.run \in Tasks, NEW x \in Messages, NEW timeout \in Nat,
           NEW u, u = rt_mbx_send(s, x, timeout)
    PROVE  Fed(s.mbx, u.mbx)
<1>1. s \in Kernels /\ "mbx" \in DOMAIN s
  BY DEF Sound, Fit, Kernels
<1>2. s.mbx.count \in 0 .. MbxSize /\ MbxSize \in Nat
  BY <1>1, MbxTypes
<1>3. CASE s.wait[Queue] # <<>> /\ s.mbx.state = 1
  <2>1. u = rt_dispatch(Unchain(s, Queue), rt_get_first(s, Queue))
    BY <1>3 DEF rt_mbx_send
  <2>2. Keeps(s, u)
    BY <2>1, WakeKeeps
  <2> QED BY <1>1, <2>2, SameFed DEF Keeps
<1>4. CASE ~(s.wait[Queue] # <<>> /\ s.mbx.state = 1) /\ s.mbx.count < MbxSize
  <2>1. u = Store(s, x)
    BY <1>2, <1>4 DEF rt_mbx_send
  <2> QED BY <1>1, <1>4, <2>1, StoreFeeds
<1>5. CASE ~(s.wait[Queue] # <<>> /\ s.mbx.state = 1) /\ s.mbx.count = MbxSize /\ timeout = 0
  <2>1. u = s
    BY <1>2, <1>5 DEF rt_mbx_send
  <2> QED BY <1>1, <2>1, SameFed
<1>6. CASE ~(s.wait[Queue] # <<>> /\ s.mbx.state = 1) /\ s.mbx.count = MbxSize /\ timeout # 0
  <2>1. PICK a : a = [s EXCEPT !.msg[s.run] = x]
    OBVIOUS
  <2>2. u = MbxBlock(a, 2, timeout)
    BY <1>2, <1>6, <2>1 DEF rt_mbx_send
  <2>3. a \in Kernels /\ a.mbx = s.mbx
    BY <1>1, <2>1 DEF Kernels
  <2> QED BY <2>2, <2>3, BlockFeeds
<1> QED BY <1>2, <1>3, <1>4, <1>5, <1>6

\* rt_mbx_wait takes the oldest message, behind which a sender that waits puts
\* its own, or waits.
LEMMA WaitFetches ==
    ASSUME NEW s, Sound(s), s.run \in Tasks, NEW timeout \in Nat,
           NEW u, u = rt_mbx_wait(s, timeout)
    PROVE  Fed(s.mbx, u.mbx) \/ Fetched(s.mbx, u.mbx)
<1>1. s \in Kernels /\ "mbx" \in DOMAIN s /\ Queue \in Objects
  BY ObjectNames DEF Sound, Fit, Kernels
<1>2. s.mbx.count \in 0 .. MbxSize /\ MbxSize \in Nat /\ s.mbx \in Mailboxes
  BY <1>1, MbxTypes
<1>3. PICK taken : taken = [s EXCEPT !.mbx.last = Advance(@), !.mbx.count = @ - 1]
  OBVIOUS
<1>4. s.mbx.count > 0 => Fetched(s.mbx, taken.mbx) /\ taken.mbx \in Mailboxes
  BY <1>1, <1>3, TakenFetched
<1>5. CASE s.mbx.count > 0 /\ s.wait[Queue] # <<>> /\ s.mbx.state = 2
  <2>1. PICK t, x : t = rt_get_first(s, Queue) /\ x = s.msg[t]
    OBVIOUS
  <2>2. PICK a : a = Store(taken, x)
    OBVIOUS
  <2>3. u = rt_dispatch(Unchain(a, Queue), t)
    BY <1>3, <1>5, <2>1, <2>2 DEF rt_mbx_wait
  <2>4. PICK m \in Mailboxes :
            taken = [s EXCEPT !.msg = s.msg, !.mbx = m] /\ m.count = s.mbx.count - 1
    BY <1>1, <1>3, <1>5, TakenIs
  <2>5. taken \in Kernels /\ taken.mbx.count < MbxSize
    <3>1. s.msg \in [TCBs -> Messages \cup {NoTask}]
      BY <1>1 DEF Kernels
    <3>2. taken \in Kernels /\ taken.mbx = m
      BY <1>1, <2>4, <3>1 DEF Kernels
    <3>3. m.count < MbxSize
      BY <1>2, <2>4
    <3> QED BY <3>2, <3>3
  <2>6. x \in Messages \cup {NoTask}
    <3>1. s.wait[Queue] \in Seq(Tasks)
      BY <1>1, KernelTypes
    <3>2. t \in TCBs
      BY <1>5, <2>1, <3>1, HeadTail, TaskNames DEF rt_get_first
    <3> QED BY <1>1, <2>1, <3>2, MbxTypes
  <2>7. Fed(taken.mbx, a.mbx) /\ a.mbx \in Mailboxes
    BY <2>2, <2>5, <2>6, StoreFeeds
  <2>8. Fetched(s.mbx, a.mbx)
    BY <1>2, <1>4, <1>5, <2>7, FedTrans
  <2>9. "mbx" \in DOMAIN a
    BY <2>2, <2>5 DEF Store, Kernels
  <2>10. Keeps(a, u)
    BY <2>3, WakeKeeps
  <2> QED BY <2>8, <2>9, <2>10 DEF Keeps
<1>6. CASE s.mbx.count > 0 /\ ~(s.wait[Queue] # <<>> /\ s.mbx.state = 2)
  <2>1. u = taken
    BY <1>3, <1>6 DEF rt_mbx_wait
  <2> QED BY <1>4, <1>6, <2>1
<1>7. CASE s.mbx.count = 0 /\ timeout = 0
  <2>1. u = s
    BY <1>2, <1>7 DEF rt_mbx_wait
  <2> QED BY <1>1, <2>1, SameFed
<1>8. CASE s.mbx.count = 0 /\ timeout # 0
  <2>1. u = MbxBlock(s, 1, timeout)
    BY <1>2, <1>8 DEF rt_mbx_wait
  <2> QED BY <1>1, <2>1, BlockFeeds
<1> QED BY <1>2, <1>5, <1>6, <1>7, <1>8

-----------------------------------------------------------------------------
(***************************************************************************)
(* The steps of the kernel.                                                *)
(***************************************************************************)

\* The times of the threads after a call of the running one.
After(s, u, timeout, d) ==
    [t \in Tasks |-> CASE ~Waiting(u, t) -> Forever
                       [] Waiting(u, t) /\ t = s.run -> timeout
                       [] OTHER -> d[t]]

\* The times that are left after a call: the caller's is its timeout.
LEMMA CallDates ==
    ASSUME NEW s, NEW timeout \in 0 .. Forever, NEW u, Serves(s, u, timeout), NEW d, Dates(s, d),
           NEW e, e = After(s, u, timeout, d)
    PROVE  Dates(u, e)
<1>1. Sound(u) /\ Timed(s, u, timeout)
  BY DEF Serves
<1>2. Spaced(u.dly)
  BY <1>1 DEF Timed, Dates
<1>3. \A t \in Tasks : /\ Waiting(u, t) /\ t = s.run => e[t] = timeout
                       /\ Waiting(u, t) /\ t # s.run => e[t] = d[t]
  BY DEF After
<1>4. ASSUME NEW t \in Tasks, NEW n, Due(u.dly, t, n)
      PROVE  e[t] = n /\ n \in 1 .. Forever - 1
  <2>1. InDly(u.dly, t)
    BY <1>4 DEF Due, InDly
  <2>2. Waiting(u, t)
    BY <1>1, <2>1 DEF Waiting, Sound, Fit, Delayed
  <2>3. CASE t = s.run
    <3>1. n = timeout /\ timeout \notin {0, Forever}
      BY <1>1, <1>4, <2>3 DEF Timed
    <3>2. Forever \in Nat
      BY RtxAssumption
    <3>3. n \in 1 .. Forever - 1
      BY <3>1, <3>2
    <3> QED BY <1>3, <2>2, <2>3, <3>1, <3>3
  <2>4. CASE t # s.run
    <3>1. Due(s.dly, t, n)
      BY <1>1, <1>4, <2>4 DEF Timed
    <3> QED BY <1>3, <2>2, <2>4, <3>1 DEF Dates
  <2> QED BY <2>3, <2>4
<1>5. ASSUME NEW t \in Tasks, Waiting(u, t)
      PROVE  e[t] = Forever \/ Due(u.dly, t, e[t])
  <2>1. CASE t = s.run
    BY <1>1, <1>3, <1>5, <2>1 DEF Timed
  <2>2. CASE t # s.run
    <3>1. Waiting(s, t) /\ \A n : Due(s.dly, t, n) => Due(u.dly, t, n)
      BY <1>1, <1>5, <2>2 DEF Timed
    <3>2. d[t] = Forever \/ Due(s.dly, t, d[t])
      BY <3>1 DEF Dates
    <3> QED BY <1>3, <1>5, <2>2, <3>1, <3>2
  <2> QED BY <2>1, <2>2
<1> QED BY <1>2, <1>4, <1>5 DEF Dates

\* A call of the running thread that leaves the timers alone, or sets them as m says.
LEMMA CallHolds ==
    ASSUME NEW s, NEW after \in BOOLEAN, NEW d, NEW l, Holds(s, after, d, l), s.psq = <<>> \/ ~ after,
           NEW timeout \in 0 .. Forever, NEW u, Serves(s, u, timeout), NEW m, Expiries(u.tmr, m),
           NEW e, e = After(s, u, timeout, d)
    PROVE  Holds(u, s.psq # <<>>, e, m)
<1>1. /\ Sound(s) /\ RoomForRequests(s, after) /\ Dates(s, d)
      /\ Sound(u) /\ u.psq = s.psq /\ (s.mbx.count < MbxSize => ~ Sending(u))
  BY DEF Holds, Serves
<1>2. Dates(u, e)
  BY <1>1, CallDates
<1>3. RoomForRequests(u, s.psq # <<>>)
  <2>1. SUFFICES ASSUME NEW i \in DOMAIN s.psq, s.psq[i].id = Queue
                 PROVE  s.psq # <<>> /\ ~ Sending(u)
    BY <1>1 DEF RoomForRequests
  <2>2. s.psq # <<>>
    <3>1. <<>> = [j \in {} |-> j] \/ DOMAIN <<>> = {}
      OBVIOUS
    <3>2. s.psq \in Seq(Requests)
      BY <1>1 DEF Sound, Fit, Kernels
    <3> QED BY <2>1, <3>2
  <2>3. s.mbx.count < MbxSize
    BY <1>1, <2>1, <2>2 DEF RoomForRequests
  <2> QED BY <1>1, <2>2, <2>3
<1>4. u.psq = <<>> => ~ (s.psq # <<>>)
  BY <1>1
<1> QED BY <1>1, <1>2, <1>3, <1>4 DEF Holds

\* The invariant of the next state, in two parts.
LEMMA HoldsNext ==
    ASSUME uses' = uses, uses \in Programs, late' \in BOOLEAN, Holds(k', late', due', left')
    PROVE  IndInv'
<1>1. PICK u : u = k'
  OBVIOUS
<1>2. /\ Sound(u) /\ RoomForRequests(u, late') /\ (u.psq = <<>> => ~ late')
      /\ Dates(u, due') /\ Expiries(u.tmr, left')
  BY <1>1 DEF Holds
<1>3. Lasting' = Lasting
  BY DEF Lasting
<1>4. Kept(u) /\ Fit(u, {}, u.run) /\ Top(u) /\ Wakeups(u, {})
  BY <1>2 DEF Sound
<1>5. Kept(k)'
  BY <1>1, <1>3, <1>4 DEF Kept
<1>6. Sound(k)'
  BY <1>1, <1>4, <1>5 DEF Sound
<1> QED BY <1>1, <1>2, <1>6 DEF IndInv

\* The calls that do not concern the timers.
LEMMA SvcHolds ==
    ASSUME IndInv, NEW o, NEW u, NEW timeout \in 0 .. Forever, Svc(o, u, timeout),
           Serves(k, u, timeout), KeepsTimers(k, u), UNCHANGED left
    PROVE  IndInv'
<1>1. /\ uses \in Programs /\ late \in BOOLEAN /\ Holds(k, late, due, left)
  BY IndInvIs
<1>2. /\ k' = u /\ late' = (k.psq # <<>>) /\ uses' = uses /\ due' = After(k, u, timeout, due)
      /\ k.psq = <<>> \/ ~ late
  BY DEF Svc, After
<1>3. u.tmr = k.tmr
  <2>1. k \in Kernels
    BY <1>1 DEF Holds, Sound, Fit
  <2>2. "tmr" \in DOMAIN k
    BY <2>1 DEF Kernels
  <2> QED BY <2>2 DEF KeepsTimers
<1>4. Expiries(u.tmr, left)
  BY <1>1, <1>3 DEF Holds
<1>5. PICK e : e = After(k, u, timeout, due)
  OBVIOUS
<1>6. Holds(u, k.psq # <<>>, e, left)
  BY <1>1, <1>2, <1>4, <1>5, CallHolds
<1>7. uses' \in Programs /\ late' \in BOOLEAN /\ Holds(k', late', due', left')
  BY <1>1, <1>2, <1>5, <1>6
<1> QED BY <1>1, <1>2, <1>7, HoldsNext

\* Those that do not concern the mailbox either.
LEMMA SvcKeeps ==
    ASSUME IndInv, NEW o, NEW u, NEW timeout \in 0 .. Forever, Svc(o, u, timeout),
           Serves(k, u, timeout), Keeps(k, u), UNCHANGED left
    PROVE  IndInv' /\ k'.mbx = k.mbx
<1>1. IndInv'
  BY SvcHolds, KeepsToo
<1>2. k' = u /\ "mbx" \in DOMAIN k
  BY DEF Svc, IndInv, Sound, Fit, Kernels
<1>3. u.mbx = k.mbx
  BY <1>2 DEF Keeps
<1> QED BY <1>1, <1>2, <1>3

\* What a service call finds.
LEMMA Calling ==
    ASSUME IndInv, NEW o, NEW u, NEW timeout, Svc(o, u, timeout)
    PROVE  /\ Sound(k) /\ k \in Kernels /\ k.run \in Tasks /\ o \in uses[k.run] /\ uses \in Programs
           /\ Fit(k, {}, k.run)
  BY DEF IndInv, Svc, Sound, Fit

\* Timeouts are numbers of ticks up to Forever.
LEMMA TimeoutTypes ==
    /\ Forever \in 0 .. Forever /\ Forever \in Nat
    /\ \A n \in Timeouts : n \in 0 .. Forever /\ n \in Nat
  BY RtxAssumption

\* The calls of semaphores keep the invariant and the mailbox.
LEMMA SemaphoreSteps ==
    ASSUME IndInv, NEW o \in Sems,
           \/ \E n \in Timeouts : SemaphoreWait(o, n)
           \/ SemaphoreRelease(o) \/ SemaphoreDelete(o) \/ SemaphoreCreate(o)
    PROVE  IndInv' /\ k'.mbx = k.mbx
<1>1. ASSUME NEW n \in Timeouts, SemaphoreWait(o, n) PROVE IndInv' /\ k'.mbx = k.mbx
  <2>1. PICK u : u = rt_sem_wait(k, o, n)
    OBVIOUS
  <2>2. o \in k.live /\ Svc(o, u, n) /\ UNCHANGED left
    BY <1>1, <2>1 DEF SemaphoreWait
  <2>3. n \in 0 .. Forever /\ n \in Nat /\ Sound(k) /\ k.run \in Tasks
    BY <2>2, Calling, TimeoutTypes
  <2>4. Serves(k, u, n) /\ Keeps(k, u)
    BY <2>1, <2>2, <2>3, SemWaitServes, SemKeeps
  <2> QED BY <2>2, <2>3, <2>4, SvcKeeps
<1>2. ASSUME SemaphoreRelease(o) PROVE IndInv' /\ k'.mbx = k.mbx
  <2>1. PICK u : u = rt_sem_send(k, o)
    OBVIOUS
  <2>2. o \in k.live /\ k.tokens[o] # TokenMax /\ Svc(o, u, Forever) /\ UNCHANGED left
    BY <1>2, <2>1 DEF SemaphoreRelease
  <2>3. Forever \in 0 .. Forever /\ Sound(k) /\ k.run \in Tasks
    BY <2>2, Calling, TimeoutTypes
  <2>4. Serves(k, u, Forever) /\ Keeps(k, u)
    BY <2>1, <2>2, <2>3, SemSendServes, SemKeeps
  <2> QED BY <2>2, <2>3, <2>4, SvcKeeps
<1>3. ASSUME SemaphoreDelete(o) PROVE IndInv' /\ k'.mbx = k.mbx
  <2>1. PICK u : u = rt_sem_delete(k, o)
    OBVIOUS
  <2>2. Svc(o, u, Forever) /\ UNCHANGED left
    BY <1>3, <2>1 DEF SemaphoreDelete
  <2>3. Forever \in 0 .. Forever /\ Sound(k) /\ k.run \in Tasks /\ Fit(k, {}, k.run) /\ o \in Objects
    BY <2>2, Calling, TimeoutTypes DEF Objects
  <2>4. u = [YieldToHigher(WakeAll(k, o)) EXCEPT !.live = @ \ {o}]
    BY <2>1, Zenon DEF rt_sem_delete
  <2>5. Serves(k, u, Forever)
    BY <2>1, <2>3, SemDeleteServes
  <2>6. Keeps(k, u)
    <3>1. PICK a, r : a = k /\ r = k.run
      OBVIOUS
    <3>2. u = [YieldToHigher(WakeAll(a, o)) EXCEPT !.live = @ \ {o}] /\ Fit(a, {}, r) /\ o \in Objects
      BY <2>3, <2>4, <3>1
    <3>3. Keeps(a, u)
      BY <3>2, DropKeeps
    <3> QED BY <3>1, <3>3
  <2> QED BY <2>2, <2>3, <2>5, <2>6, SvcKeeps
<1>4. ASSUME SemaphoreCreate(o) PROVE IndInv' /\ k'.mbx = k.mbx
  <2>1. PICK u : u = rt_sem_init(k, o)
    OBVIOUS
  <2>2. o \notin k.live /\ Svc(o, u, Forever) /\ UNCHANGED left
    BY <1>4, <2>1 DEF SemaphoreCreate
  <2>3. Forever \in 0 .. Forever /\ Sound(k) /\ k.run \in Tasks
    BY <2>2, Calling, TimeoutTypes
  <2>4. Serves(k, u, Forever) /\ Keeps(k, u)
    BY <2>1, <2>2, <2>3, SemInitServes, SemKeeps
  <2> QED BY <2>2, <2>3, <2>4, SvcKeeps
<1> QED BY <1>1, <1>2, <1>3, <1>4

\* The calls of mutexes keep the invariant and the mailbox.
LEMMA MutexSteps ==
    ASSUME IndInv, NEW m \in Mutexes,
           \/ \E n \in Timeouts : MutexWait(m, n)
           \/ MutexRelease(m) \/ MutexDelete(m) \/ MutexCreate(m)
    PROVE  IndInv' /\ k'.mbx = k.mbx
<1>1. ASSUME NEW n \in Timeouts, MutexWait(m, n) PROVE IndInv' /\ k'.mbx = k.mbx
  <2>1. PICK u : u = rt_mut_wait(k, m, n)
    OBVIOUS
  <2>2. m \in k.live /\ Svc(m, u, n) /\ UNCHANGED left
    BY <1>1, <2>1 DEF MutexWait
  <2>3. n \in 0 .. Forever /\ n \in Nat /\ Sound(k) /\ k.run \in Tasks
    BY <2>2, Calling, TimeoutTypes
  <2>4. k.run \in Lasting
    BY <2>2, Calling, MutexUsers
  <2>5. Serves(k, u, n) /\ Keeps(k, u)
    BY <2>1, <2>2, <2>3, <2>4, MutWaitServes, MutKeeps
  <2> QED BY <2>2, <2>3, <2>5, SvcKeeps
<1>2. ASSUME MutexRelease(m) PROVE IndInv' /\ k'.mbx = k.mbx
  <2>1. PICK u : u = rt_mut_release(k, m)
    OBVIOUS
  <2>2. Svc(m, u, Forever) /\ UNCHANGED left
    BY <1>2, <2>1 DEF MutexRelease
  <2>3. Forever \in 0 .. Forever /\ Sound(k) /\ k.run \in Tasks
    BY <2>2, Calling, TimeoutTypes
  <2>4. Serves(k, u, Forever) /\ Keeps(k, u)
    BY <2>1, <2>3, MutReleaseServes, MutKeeps
  <2> QED BY <2>2, <2>3, <2>4, SvcKeeps
<1>3. ASSUME MutexDelete(m) PROVE IndInv' /\ k'.mbx = k.mbx
  <2>1. PICK u : u = rt_mut_delete(k, m)
    OBVIOUS
  <2>2. Svc(m, u, Forever) /\ UNCHANGED left
    BY <1>3, <2>1 DEF MutexDelete
  <2>3. Forever \in 0 .. Forever /\ Sound(k) /\ k.run \in Tasks
    BY <2>2, Calling, TimeoutTypes
  <2>4. Serves(k, u, Forever) /\ Keeps(k, u)
    BY <2>1, <2>3, MutDeleteServes
  <2> QED BY <2>2, <2>3, <2>4, SvcKeeps
<1>4. ASSUME MutexCreate(m) PROVE IndInv' /\ k'.mbx = k.mbx
  <2>1. PICK u : u = rt_mut_init(k, m)
    OBVIOUS
  <2>2. m \notin k.live /\ Svc(m, u, Forever) /\ UNCHANGED left
    BY <1>4, <2>1 DEF MutexCreate
  <2>3. Forever \in 0 .. Forever /\ Sound(k) /\ k.run \in Tasks
    BY <2>2, Calling, TimeoutTypes
  <2>4. Serves(k, u, Forever) /\ Keeps(k, u)
    BY <2>1, <2>2, <2>3, MutInitServes, MutKeeps
  <2> QED BY <2>2, <2>3, <2>4, SvcKeeps
<1> QED BY <1>1, <1>2, <1>3, <1>4

\* What a call of a thread or an interrupt does to the mailbox.
Mails == Fed(k.mbx, k'.mbx) \/ Fetched(k.mbx, k'.mbx)

\* The calls of mailboxes keep the invariant.
LEMMA MessageSteps ==
    ASSUME IndInv, NEW n \in Timeouts, (\E x \in Msgs : MessagePut(x, n)) \/ MessageGet(n)
    PROVE  IndInv' /\ Mails
<1>1. ASSUME NEW x \in Msgs, MessagePut(x, n) PROVE IndInv' /\ Mails
  <2>1. PICK u : u = rt_mbx_send(k, x, n)
    OBVIOUS
  <2>2. Svc("put", u, n) /\ UNCHANGED left /\ k' = u
    BY <1>1, <2>1 DEF MessagePut, Svc
  <2>3. n \in 0 .. Forever /\ n \in Nat /\ Sound(k) /\ k.run \in Tasks /\ x \in Messages
    BY <2>2, Calling, TimeoutTypes DEF Messages
  <2>4. Serves(k, u, n) /\ KeepsTimers(k, u) /\ Fed(k.mbx, u.mbx)
    BY <2>1, <2>3, MbxSendServes, MbxCallsKeep, SendFeeds
  <2> QED BY <2>2, <2>3, <2>4, SvcHolds DEF Mails
<1>2. ASSUME MessageGet(n) PROVE IndInv' /\ Mails
  <2>1. PICK u : u = rt_mbx_wait(k, n)
    OBVIOUS
  <2>2. Svc("get", u, n) /\ UNCHANGED left /\ k' = u
    BY <1>2, <2>1 DEF MessageGet, Svc
  <2>3. n \in 0 .. Forever /\ n \in Nat /\ Sound(k) /\ k.run \in Tasks
    BY <2>2, Calling, TimeoutTypes
  <2>4. /\ Serves(k, u, n) /\ KeepsTimers(k, u)
        /\ Fed(k.mbx, u.mbx) \/ Fetched(k.mbx, u.mbx)
    BY <2>1, <2>3, MbxWaitServes, MbxCallsKeep, WaitFetches
  <2> QED BY <2>2, <2>3, <2>4, SvcHolds DEF Mails
<1> QED BY <1>1, <1>2

\* The calls of signals keep the invariant and the mailbox.
LEMMA SignalSteps ==
    ASSUME IndInv,
           \/ \E n \in Timeouts, f \in SUBSET Flags : SignalWait(f, n)
           \/ \E t \in Tasks, f \in SUBSET Flags : SignalSet(t, f) \/ SignalClear(t, f)
    PROVE  IndInv' /\ k'.mbx = k.mbx
<1>1. ASSUME NEW n \in Timeouts, NEW f \in SUBSET Flags, SignalWait(f, n) PROVE IndInv' /\ k'.mbx = k.mbx
  <2>1. PICK g, a : g = (IF f = {} THEN Flags ELSE f) /\ a = (f # {})
    OBVIOUS
  <2>2. PICK u : u = rt_evt_wait(k, g, n, a)
    OBVIOUS
  <2>3. g \in SUBSET Flags /\ a \in BOOLEAN
    BY <2>1
  <2>4. Svc("wait", u, n) /\ UNCHANGED left
    BY <1>1, <2>1, <2>2, Zenon DEF SignalWait
  <2>5. n \in 0 .. Forever /\ n \in Nat /\ Sound(k) /\ k.run \in Tasks
    BY <2>4, Calling, TimeoutTypes
  <2>6. Serves(k, u, n) /\ Keeps(k, u)
    BY <2>2, <2>3, <2>5, EvtWaitServes, EvtKeeps
  <2> QED BY <2>4, <2>5, <2>6, SvcKeeps
<1>2. ASSUME NEW t \in Tasks, NEW f \in SUBSET Flags, SignalSet(t, f) PROVE IndInv' /\ k'.mbx = k.mbx
  <2>1. PICK u : u = rt_evt_set(k, t, f)
    OBVIOUS
  <2>2. Svc("set", u, Forever) /\ UNCHANGED left
    BY <1>2, <2>1 DEF SignalSet
  <2>3. Forever \in 0 .. Forever /\ Sound(k) /\ k.run \in Tasks
    BY <2>2, Calling, TimeoutTypes
  <2>4. Serves(k, u, Forever) /\ Keeps(k, u)
    BY <2>1, <2>3, EvtSetServes, EvtKeeps
  <2> QED BY <2>2, <2>3, <2>4, SvcKeeps
<1>3. ASSUME NEW t \in Tasks, NEW f \in SUBSET Flags, SignalClear(t, f) PROVE IndInv' /\ k'.mbx = k.mbx
  <2>1. PICK u : u = rt_evt_clr(k, t, f)
    OBVIOUS
  <2>2. Svc("set", u, Forever) /\ UNCHANGED left
    BY <1>3, <2>1 DEF SignalClear
  <2>3. Forever \in 0 .. Forever /\ Sound(k) /\ k.run \in Tasks
    BY <2>2, Calling, TimeoutTypes
  <2>4. Serves(k, u, Forever) /\ Keeps(k, u)
    BY <2>1, <2>3, EvtClrServes, EvtKeeps
  <2> QED BY <2>2, <2>3, <2>4, SvcKeeps
<1> QED BY <1>1, <1>2, <1>3

\* The calls of threads keep the invariant and the mailbox.
LEMMA ThreadSteps ==
    ASSUME IndInv,
           \/ \E n \in Timeouts : Delay(n)
           \/ \E t \in Tasks, p \in Prios : ThreadSetPriority(t, p)
           \/ \E t \in Mortal : ThreadTerminate(t) \/ ThreadCreate(t)
           \/ ThreadYield
    PROVE  IndInv' /\ k'.mbx = k.mbx
<1>1. ASSUME NEW n \in Timeouts, Delay(n) PROVE IndInv' /\ k'.mbx = k.mbx
  <2>1. PICK u : u = rt_block(k, n, "WAIT_DLY")
    OBVIOUS
  <2>2. n # 0 /\ Svc("delay", u, n) /\ UNCHANGED left
    BY <1>1, <2>1 DEF Delay
  <2>3. n \in 0 .. Forever /\ n \in Nat /\ Sound(k) /\ k.run \in Tasks
    BY <2>2, Calling, TimeoutTypes
  <2>4. Serves(k, u, n) /\ Keeps(k, u)
    BY <2>1, <2>2, <2>3, DelayServes, BlockKeeps
  <2> QED BY <2>2, <2>3, <2>4, SvcKeeps
<1>2. ASSUME NEW t \in Tasks, NEW p \in Prios, ThreadSetPriority(t, p) PROVE IndInv' /\ k'.mbx = k.mbx
  <2>1. PICK u : u = rt_tsk_prio(k, t, p)
    OBVIOUS
  <2>2. Svc("prio", u, Forever) /\ UNCHANGED left
    BY <1>2, <2>1 DEF ThreadSetPriority
  <2>3. Forever \in 0 .. Forever /\ Sound(k) /\ k.run \in Tasks /\ p \in Nat
    BY <2>2, Calling, TimeoutTypes, RtxAssumption
  <2>4. Serves(k, u, Forever) /\ Keeps(k, u)
    BY <2>1, <2>3, PrioServes, PrioKeeps
  <2> QED BY <2>2, <2>3, <2>4, SvcKeeps
<1>3. ASSUME NEW t \in Mortal, ThreadTerminate(t) PROVE IndInv' /\ k'.mbx = k.mbx
  <2>1. PICK u : u = rt_tsk_delete(k, t)
    OBVIOUS
  <2>2. Svc("end", u, Forever) /\ UNCHANGED left
    BY <1>3, <2>1 DEF ThreadTerminate
  <2>3. /\ Forever \in 0 .. Forever /\ Sound(k) /\ k.run \in Tasks /\ t \in Tasks
        /\ "end" \in uses[k.run]
    BY <2>2, Calling, TimeoutTypes, RtxAssumption
  <2>4. t \notin Lasting
    BY <2>3 DEF Lasting
  <2>5. Serves(k, u, Forever)
    <3>1. CASE t = k.run
      BY <2>1, <2>3, <2>4, <3>1, EndSelf
    <3>2. CASE t # k.run
      BY <2>1, <2>3, <2>4, <3>2, EndOther
    <3> QED BY <3>1, <3>2
  <2>6. Keeps(k, u)
    BY <2>1, DeleteKeeps
  <2> QED BY <2>2, <2>3, <2>5, <2>6, SvcKeeps
<1>4. ASSUME NEW t \in Mortal, ThreadCreate(t) PROVE IndInv' /\ k'.mbx = k.mbx
  <2>1. PICK p : p = Base[t]
    OBVIOUS
  <2>2. PICK u : u = rt_tsk_create(k, t, p)
    OBVIOUS
  <2>3. t \notin k.active /\ Svc("begin", u, Forever) /\ UNCHANGED left
    BY <1>4, <2>1, <2>2 DEF ThreadCreate
  <2>4. Forever \in 0 .. Forever /\ Sound(k) /\ k.run \in Tasks /\ t \in Tasks /\ p \in Nat
    BY <2>1, <2>3, Calling, TimeoutTypes, RtxAssumption
  <2>5. Serves(k, u, Forever) /\ Keeps(k, u)
    BY <2>2, <2>3, <2>4, CreateServes, CreateKeeps
  <2> QED BY <2>3, <2>4, <2>5, SvcKeeps
<1>5. ASSUME ThreadYield PROVE IndInv' /\ k'.mbx = k.mbx
  <2>1. PICK u : u = rt_tsk_pass(k)
    OBVIOUS
  <2>2. Svc("yield", u, Forever) /\ UNCHANGED left
    BY <1>5, <2>1 DEF ThreadYield
  <2>3. Forever \in 0 .. Forever /\ Sound(k) /\ k.run \in Tasks
    BY <2>2, Calling, TimeoutTypes
  <2>4. Serves(k, u, Forever) /\ Keeps(k, u)
    BY <2>1, <2>3, PassServes, PassKeeps
  <2> QED BY <2>2, <2>3, <2>4, SvcKeeps
<1> QED BY <1>1, <1>2, <1>3, <1>4, <1>5

\* Only the timers change.
LEMMA TimersChange ==
    ASSUME NEW s \in Kernels, NEW q \in Seq(TimerEntries), NEW v \in SUBSET (Objects \cup Timers),
           \A o \in Objects : o \in v <=> o \in s.live, NEW u, u = [s EXCEPT !.live = v, !.tmr = q]
    PROVE  Changes(s, u) /\ u.tmr = q
<1>1. /\ u \in Kernels /\ SameLists(s, u) /\ u.psq = s.psq /\ u.tmr = q /\ u.live = v
      /\ u.tokens = s.tokens /\ u.mut = s.mut /\ u.mbx = s.mbx /\ u.events = s.events
      /\ u.waits = s.waits
  BY DEF Kernels, SameLists, TimerEntries
<1>2. Kept(s) => Kept(u)
  BY <1>1 DEF Kept, SameLists
<1>3. Wakeups(s, {}) => Wakeups(u, {})
  <2>1. \A o \in Sems \cup Mutexes : o \in u.live <=> o \in s.live
    BY <1>1 DEF Objects
  <2> QED BY <1>1, <2>1 DEF Wakeups, SameLists
<1>4. Wakeups(s, {}) /\ s.mbx.count < MbxSize => ~ Sending(u)
  BY <1>1, RoomNotSending DEF Sending, SameLists
<1> QED BY <1>1, <1>2, <1>3, <1>4 DEF Changes

\* Timer x is taken out.
LEMMA TimerOut ==
    ASSUME NEW q, NEW l, Expiries(q, l), NEW x \in Timers, NEW r, TimerList(r), TimerLess(q, r, x),
           NEW m, m = [l EXCEPT ![x] = 0]
    PROVE  Expiries(r, m) /\ ~ InTmr(r, x)
<1>1. l \in [Timers -> Nat] /\ m \in [Timers -> Nat] /\ m[x] = 0
  BY DEF Expiries
<1>2. \A y \in Timers : y # x => m[y] = l[y]
  BY <1>1
<1>3. ASSUME NEW y, NEW n, TimerDue(r, y, n)
      PROVE  m[y] = n /\ n > 0
  <2>1. TimerDue(q, y, n) /\ y # x
    BY <1>3 DEF TimerLess
  <2>2. l[y] = n /\ n > 0
    BY <2>1 DEF Expiries
  <2>3. TimerDomain(r)
    BY TimerDomainIs DEF TimerList
  <2>4. y \in Timers
    BY <1>3, <2>3 DEF TimerDomain, TimerDue
  <2> QED BY <1>2, <2>1, <2>2, <2>4
<1>4. ASSUME NEW y \in Timers, m[y] > 0
      PROVE  TimerDue(r, y, m[y])
  <2>1. y # x
    BY <1>1, <1>4
  <2>2. m[y] = l[y]
    BY <1>2, <2>1
  <2>3. TimerDue(q, y, m[y])
    BY <1>4, <2>2 DEF Expiries
  <2> QED BY <2>1, <2>3 DEF TimerLess
<1>5. ~ InTmr(r, x)
  <2>1. InTmr(r, x) => \E n : TimerDue(r, x, n)
    BY DEF InTmr, TimerDue
  <2> QED BY <2>1 DEF TimerLess
<1> QED BY <1>1, <1>3, <1>4, <1>5 DEF Expiries

\* Timer x is put in, due in n ticks.
LEMMA TimerIn ==
    ASSUME NEW q, NEW l, Expiries(q, l), NEW x \in Timers, ~ InTmr(q, x), NEW n \in Nat \ {0},
           NEW r, TimerList(r), TimerMore(q, r, x, n), NEW m, m = [l EXCEPT ![x] = n]
    PROVE  Expiries(r, m)
<1>1. l \in [Timers -> Nat] /\ m \in [Timers -> Nat] /\ m[x] = n
  BY DEF Expiries
<1>2. \A y \in Timers : y # x => m[y] = l[y]
  BY <1>1
<1>3. \A y, i : TimerDue(q, y, i) => y # x /\ y \in Timers
  <2>1. \A y, i : TimerDue(q, y, i) => InTmr(q, y)
    BY DEF InTmr, TimerDue
  <2>2. TimerDomain(q)
    BY TimerDomainIs DEF Expiries, TimerList
  <2>3. \A y : InTmr(q, y) => y \in Timers
    BY <2>2 DEF TimerDomain, InTmr
  <2> QED BY <2>1, <2>3
<1>4. ASSUME NEW y, NEW i, TimerDue(r, y, i)
      PROVE  m[y] = i /\ i > 0
  <2>1. CASE TimerDue(q, y, i)
    <3>1. l[y] = i /\ i > 0
      BY <2>1 DEF Expiries
    <3> QED BY <1>2, <1>3, <2>1, <3>1
  <2>2. CASE y = x /\ i = n
    BY <1>1, <2>2
  <2> QED BY <1>4, <2>1, <2>2 DEF TimerMore
<1>5. ASSUME NEW y \in Timers, m[y] > 0
      PROVE  TimerDue(r, y, m[y])
  <2>1. CASE y = x
    BY <1>1, <2>1 DEF TimerMore
  <2>2. CASE y # x
    <3>1. m[y] = l[y]
      BY <1>2, <2>2
    <3>2. TimerDue(q, y, m[y])
      BY <1>5, <3>1 DEF Expiries
    <3> QED BY <3>2 DEF TimerMore
  <2> QED BY <2>1, <2>2
<1> QED BY <1>1, <1>4, <1>5 DEF Expiries

\* Timer x is started, whether it runs or not.
LEMMA TimerAnew ==
    ASSUME NEW q, NEW l, Expiries(q, l), NEW x \in Timers, NEW n \in Nat \ {0},
           NEW i, i = TimerIndex(q, x),
           NEW r, r = IF i = 0 THEN rt_timer_insert(q, x, n, n)
                      ELSE rt_timer_insert(rt_timer_remove(q, x), x, n, q[i].icnt),
           NEW m, m = [l EXCEPT ![x] = n]
    PROVE  Expiries(r, m)
<1>1. TimerList(q) /\ q \in Seq(TimerEntries) /\ l \in [Timers -> Nat]
  BY DEF Expiries, TimerList
<1>2. IF InTmr(q, x) THEN i \in 1 .. Len(q) /\ i # 0 /\ q[i].x = x ELSE i = 0
  BY <1>1, TimerIndexIs
<1>3. CASE ~ InTmr(q, x)
  <2>1. r = rt_timer_insert(q, x, n, n)
    BY <1>2, <1>3
  <2>2. TimerList(r) /\ TimerMore(q, r, x, n)
    BY <1>1, <1>3, <2>1, TimerStarted
  <2> QED BY <1>3, <2>2, TimerIn
<1>4. CASE InTmr(q, x)
  <2>1. PICK a, c : a = rt_timer_remove(q, x) /\ c = q[i].icnt
    OBVIOUS
  <2>2. i \in DOMAIN q
    BY <1>1, <1>2, <1>4
  <2>3. c \in Nat \ {0}
    <3>1. c > 0
      BY <1>1, <2>1, <2>2 DEF TimerList
    <3>2. TimerDomain(q)
      BY <1>1, TimerDomainIs
    <3>3. c \in Nat
      BY <2>1, <2>2, <3>2 DEF TimerDomain
    <3> QED BY <3>1, <3>3
  <2>4. r = rt_timer_insert(a, x, n, c)
    BY <1>2, <1>4, <2>1
  <2>5. TimerList(a) /\ TimerLess(q, a, x)
    BY <1>1, <1>4, <2>1, TimerStopped
  <2>6. PICK b : b = [l EXCEPT ![x] = 0]
    OBVIOUS
  <2>7. Expiries(a, b) /\ ~ InTmr(a, x)
    BY <2>5, <2>6, TimerOut
  <2>8. TimerList(r) /\ TimerMore(a, r, x, n)
    BY <2>3, <2>4, <2>5, <2>7, TimerStarted
  <2>9. m = [b EXCEPT ![x] = n]
    BY <1>1, <2>6
  <2> QED BY <2>7, <2>8, <2>9, TimerIn
<1> QED BY <1>3, <1>4

\* A call that concerns the timers.
LEMMA TimerSvcHolds ==
    ASSUME IndInv, NEW x, NEW q \in Seq(TimerEntries), NEW v \in SUBSET (Objects \cup Timers),
           \A o \in Objects : o \in v <=> o \in k.live,
           NEW u, u = [k EXCEPT !.live = v, !.tmr = q], Svc(x, u, Forever), Expiries(q, left')
    PROVE  IndInv' /\ k'.mbx = k.mbx
<1>1. /\ uses \in Programs /\ late \in BOOLEAN /\ Holds(k, late, due, left)
  BY IndInvIs
<1>2. /\ k' = u /\ late' = (k.psq # <<>>) /\ uses' = uses /\ due' = After(k, u, Forever, due)
      /\ k.psq = <<>> \/ ~ late
  BY DEF Svc, After
<1>3. Sound(k) /\ k \in Kernels /\ k.run \in Tasks /\ Forever \in 0 .. Forever
  BY Calling, TimeoutTypes
<1>4. PICK s : s = k
  OBVIOUS
<1>5. Changes(s, u) /\ u.tmr = q
  BY <1>3, <1>4, TimersChange
<1>6. Serves(k, u, Forever)
  BY <1>3, <1>4, <1>5, ChangesServes
<1>7. PICK e, m : e = After(k, u, Forever, due) /\ m = left'
  OBVIOUS
<1>8. Expiries(u.tmr, m)
  BY <1>5, <1>7
<1>9. Holds(u, k.psq # <<>>, e, m)
  BY <1>1, <1>2, <1>3, <1>6, <1>7, <1>8, CallHolds
<1>10. late' \in BOOLEAN /\ Holds(k', late', due', left')
  BY <1>2, <1>7, <1>9
<1>11. u.mbx = k.mbx
  BY <1>3 DEF Kernels
<1> QED BY <1>1, <1>2, <1>10, <1>11, HoldsNext

\* The calls of timers keep the invariant and the mailbox.
LEMMA TimerSteps ==
    ASSUME IndInv, NEW x \in Timers,
           \/ \E n \in Timeouts \ {Forever} : TimerStart(x, n)
           \/ TimerStop(x) \/ TimerDelete(x) \/ TimerCreate(x)
    PROVE  IndInv' /\ k'.mbx = k.mbx
<1>1. /\ k \in Kernels /\ Expiries(k.tmr, left) /\ TimerList(k.tmr) /\ k.tmr \in Seq(TimerEntries)
      /\ left \in [Timers -> Nat] /\ k.live \in SUBSET (Objects \cup Timers)
      /\ x \notin Objects
  BY RtxAssumption DEF IndInv, Sound, Fit, Expiries, TimerList, Kernels
<1>2. [k EXCEPT !.live = k.live, !.tmr = k.tmr] = k
  BY <1>1 DEF Kernels
<1>3. ASSUME NEW n \in Timeouts \ {Forever}, TimerStart(x, n) PROVE IndInv' /\ k'.mbx = k.mbx
  <2>1. PICK i, q : /\ i = TimerIndex(k.tmr, x)
                    /\ q = IF i = 0 THEN rt_timer_insert(k.tmr, x, n, n)
                           ELSE rt_timer_insert(rt_timer_remove(k.tmr, x), x, n, k.tmr[i].icnt)
    OBVIOUS
  <2>2. PICK u : u = [k EXCEPT !.live = k.live, !.tmr = q]
    OBVIOUS
  <2>3. n > 0 /\ left' = [left EXCEPT ![x] = n] /\ Svc(x, [k EXCEPT !.tmr = q], Forever)
    BY <1>3, <2>1, Zenon DEF TimerStart, TimerIndex
  <2>4. u = [k EXCEPT !.tmr = q]
    BY <1>1, <2>2 DEF Kernels
  <2>5. n \in Nat \ {0}
    BY <2>3, TimeoutTypes
  <2>6. Expiries(q, left')
    <3>1. PICK p, l, m : p = k.tmr /\ l = left /\ m = left'
      OBVIOUS
    <3>2. q = IF i = 0 THEN rt_timer_insert(p, x, n, n)
              ELSE rt_timer_insert(rt_timer_remove(p, x), x, n, p[i].icnt)
      BY <2>1, <3>1
    <3>3. i = TimerIndex(p, x) /\ m = [l EXCEPT ![x] = n] /\ Expiries(p, l)
      BY <1>1, <2>1, <2>3, <3>1
    <3>4. Expiries(q, m)
      BY <2>5, <3>2, <3>3, TimerAnew
    <3> QED BY <3>1, <3>4
  <2>7. q \in Seq(TimerEntries)
    BY <2>6 DEF Expiries, TimerList
  <2>8. Svc(x, u, Forever)
    BY <2>3, <2>4
  <2> QED BY <1>1, <2>2, <2>6, <2>7, <2>8, TimerSvcHolds
<1>4. ASSUME InTmr(k.tmr, x), left' = [left EXCEPT ![x] = 0],
             NEW v \in SUBSET (Objects \cup Timers), \A o \in Objects : o \in v <=> o \in k.live,
             NEW u, u = [k EXCEPT !.live = v, !.tmr = rt_timer_remove(k.tmr, x)], Svc(x, u, Forever)
      PROVE  IndInv' /\ k'.mbx = k.mbx
  <2>1. PICK p, q, l, m : p = k.tmr /\ q = rt_timer_remove(p, x) /\ l = left /\ m = left'
    OBVIOUS
  <2>2. TimerList(q) /\ TimerLess(p, q, x)
    BY <1>1, <1>4, <2>1, TimerStopped
  <2>3. m = [l EXCEPT ![x] = 0] /\ Expiries(p, l)
    BY <1>1, <1>4, <2>1
  <2>4. Expiries(q, m)
    BY <2>2, <2>3, TimerOut
  <2>5. u = [k EXCEPT !.live = v, !.tmr = q]
    BY <1>4, <2>1
  <2>6. q \in Seq(TimerEntries) /\ Expiries(q, left')
    BY <2>1, <2>4 DEF Expiries, TimerList
  <2> QED BY <1>4, <2>5, <2>6, TimerSvcHolds
<1>5. Running(k, x) <=> InTmr(k.tmr, x)
  <2>1. DOMAIN k.tmr = 1 .. Len(k.tmr)
    BY <1>1
  <2> QED BY <2>1 DEF Running, InTmr
<1>6. ASSUME TimerStop(x) PROVE IndInv' /\ k'.mbx = k.mbx
  <2>1. PICK q : q = rt_timer_remove(k.tmr, x)
    OBVIOUS
  <2>2. PICK u : u = [k EXCEPT !.live = k.live, !.tmr = q]
    OBVIOUS
  <2>3. /\ InTmr(k.tmr, x) /\ left' = [left EXCEPT ![x] = 0]
        /\ Svc(x, [k EXCEPT !.tmr = rt_timer_remove(@, x)], Forever)
    BY <1>5, <1>6 DEF TimerStop
  <2>4. u = [k EXCEPT !.tmr = rt_timer_remove(@, x)]
    BY <1>1, <2>1, <2>2 DEF Kernels
  <2>5. Svc(x, u, Forever)
    BY <2>3, <2>4
  <2>6. u = [k EXCEPT !.live = k.live, !.tmr = rt_timer_remove(k.tmr, x)]
    BY <2>1, <2>2
  <2> QED BY <1>1, <1>4, <2>3, <2>5, <2>6
<1>7. PICK v : v = k.live \ {x}
  OBVIOUS
<1>8. v \in SUBSET (Objects \cup Timers) /\ \A o \in Objects : o \in v <=> o \in k.live
  BY <1>1, <1>7
<1>9. ASSUME TimerDelete(x) PROVE IndInv' /\ k'.mbx = k.mbx
  <2>1. PICK q : q = rt_timer_remove(k.tmr, x)
    OBVIOUS
  <2>2. PICK u : u = [k EXCEPT !.live = v, !.tmr = IF Running(k, x) THEN q ELSE k.tmr]
    OBVIOUS
  <2>3. /\ left' = [left EXCEPT ![x] = 0]
        /\ Svc(x, [k EXCEPT !.live = @ \ {x},
                            !.tmr = IF Running(k, x) THEN rt_timer_remove(@, x) ELSE @], Forever)
    BY <1>9, Zenon DEF TimerDelete
  <2>4. u = [k EXCEPT !.live = @ \ {x}, !.tmr = IF Running(k, x) THEN rt_timer_remove(@, x) ELSE @]
    BY <1>1, <1>7, <2>1, <2>2 DEF Kernels
  <2>5. Svc(x, u, Forever)
    BY <2>3, <2>4, Zenon
  <2>6. CASE InTmr(k.tmr, x)
    <3>1. u = [k EXCEPT !.live = v, !.tmr = rt_timer_remove(k.tmr, x)]
      BY <1>5, <2>1, <2>2, <2>6
    <3> QED BY <1>4, <1>8, <2>3, <2>5, <2>6, <3>1
  <2>7. CASE ~ InTmr(k.tmr, x)
    <3>1. PICK p : p = k.tmr
      OBVIOUS
    <3>2. u = [k EXCEPT !.live = v, !.tmr = p]
      BY <1>5, <2>2, <2>7, <3>1
    <3>3. left[x] = 0
      <4>1. left[x] > 0 => TimerDue(k.tmr, x, left[x])
        BY <1>1 DEF Expiries
      <4>2. left[x] > 0 => InTmr(k.tmr, x)
        BY <4>1 DEF InTmr, TimerDue
      <4>3. left[x] \in Nat
        BY <1>1
      <4> QED BY <2>7, <4>2, <4>3
    <3>4. left' = left
      BY <1>1, <2>3, <3>3
    <3>5. p \in Seq(TimerEntries) /\ Expiries(p, left')
      BY <1>1, <3>1, <3>4
    <3> QED BY <1>8, <2>5, <3>2, <3>5, TimerSvcHolds
  <2> QED BY <2>6, <2>7
<1>10. ASSUME TimerCreate(x) PROVE IndInv' /\ k'.mbx = k.mbx
  <2>1. PICK w, p : w = k.live \cup {x} /\ p = k.tmr
    OBVIOUS
  <2>2. w \in SUBSET (Objects \cup Timers) /\ \A o \in Objects : o \in w <=> o \in k.live
    BY <1>1, <2>1
  <2>3. PICK u : u = [k EXCEPT !.live = w, !.tmr = p]
    OBVIOUS
  <2>4. left' = left /\ Svc(x, [k EXCEPT !.live = @ \cup {x}], Forever)
    BY <1>10 DEF TimerCreate
  <2>5. u = [k EXCEPT !.live = @ \cup {x}]
    BY <1>1, <2>1, <2>3 DEF Kernels
  <2>6. Svc(x, u, Forever)
    BY <2>4, <2>5
  <2>7. p \in Seq(TimerEntries) /\ Expiries(p, left')
    BY <1>1, <2>1, <2>4
  <2> QED BY <2>2, <2>3, <2>6, <2>7, TimerSvcHolds
<1> QED BY <1>3, <1>6, <1>9, <1>10

\* What is left of n ticks to the expiry of timer x of list q.
ElapsedIn(q, x, n) ==
    CASE n > 1 -> n - 1 [] n = 1 /\ x \in Periodic -> q[TimerIndex(q, x)].icnt [] OTHER -> 0

\* The timers after a tick.
LEMMA TicksTimers ==
    ASSUME NEW q, NEW l, Expiries(q, l), NEW r, TimersTicked(q, r),
           NEW m, m = [x \in Timers |-> ElapsedIn(q, x, l[x])]
    PROVE  Expiries(r, m)
<1>1. /\ TimerList(q) /\ q \in Seq(TimerEntries) /\ TimerDomain(q) /\ l \in [Timers -> Nat]
      /\ TimerList(r) /\ TimerDomain(r)
  BY TimerDomainIs DEF Expiries, TimerList, TimersTicked
<1>2. \A y, n : TimerDue(q, y, n) => l[y] = n /\ n > 0 /\ n \in Int /\ y \in Timers
  BY <1>1 DEF Expiries, TimerDomain, TimerDue
<1>3. \A y, n : TimerDue(r, y, n) => n \in Int /\ y \in Timers
  BY <1>1 DEF TimerDomain, TimerDue
<1>4. ASSUME NEW y, NEW j \in DOMAIN q, q[j].x = y
      PROVE  TimerIndex(q, y) = j
  <2>1. PICK i : i = TimerIndex(q, y)
    OBVIOUS
  <2>2. InTmr(q, y)
    BY <1>4 DEF InTmr
  <2>3. i \in 1 .. Len(q) /\ q[i].x = y
    BY <1>1, <2>1, <2>2, TimerIndexIs
  <2>4. i \in DOMAIN q
    BY <1>1, <2>3
  <2>5. i = j
    BY <1>1, <1>4, <2>3, <2>4 DEF TimerList
  <2> QED BY <2>1, <2>5
<1>5. \A y \in Timers : /\ l[y] > 1 => m[y] = l[y] - 1
                        /\ l[y] = 1 /\ y \in Periodic => m[y] = q[TimerIndex(q, y)].icnt
                        /\ l[y] = 0 \/ (l[y] = 1 /\ y \notin Periodic) => m[y] = 0
  BY <1>1 DEF ElapsedIn
<1>6. \A y \in Timers : l[y] > 0 => TimerDue(q, y, l[y])
  BY DEF Expiries
<1>7. ASSUME NEW y \in Timers, l[y] = 1
      PROVE  /\ \A j \in DOMAIN q : q[j].x = y /\ y \in Periodic => m[y] = q[j].icnt
             /\ \E j \in DOMAIN q : q[j].x = y
             /\ y \in Periodic => m[y] \in Nat /\ m[y] > 0
  <2>1. \E j \in DOMAIN q : q[j].x = y
    BY <1>6, <1>7 DEF TimerDue
  <2>2. \A j \in DOMAIN q : q[j].x = y /\ y \in Periodic => m[y] = q[j].icnt
    BY <1>4, <1>5, <1>7
  <2>3. \A j \in DOMAIN q : q[j].icnt \in Nat /\ q[j].icnt > 0
    BY <1>1 DEF TimerList, TimerDomain
  <2> QED BY <2>1, <2>2, <2>3
<1>8. ASSUME NEW y \in Timers
      PROVE  m[y] \in Nat
  <2>1. l[y] \in Nat
    BY <1>1
  <2>2. l[y] > 1 \/ (l[y] = 1 /\ y \in Periodic) \/ l[y] = 0 \/ (l[y] = 1 /\ y \notin Periodic)
    BY <2>1
  <2>3. l[y] > 1 => m[y] \in Nat
    BY <1>5, <2>1
  <2> QED BY <1>5, <1>7, <2>2, <2>3
<1>9. m \in [Timers -> Nat]
  BY <1>8
<1>10. ASSUME NEW y, NEW n, TimerDue(r, y, n)
       PROVE  m[y] = n /\ n > 0
  <2>1. n \in Int /\ y \in Timers
    BY <1>3, <1>10
  <2>2. CASE n > 0 /\ TimerDue(q, y, n + 1)
    <3>1. l[y] = n + 1
      BY <1>2, <2>2
    <3> QED BY <1>5, <2>1, <2>2, <3>1
  <2>3. CASE n > 0 /\ TimerDue(q, y, 1) /\ y \in Periodic /\ \E j \in DOMAIN q : q[j].x = y /\ n = q[j].icnt
    <3>1. l[y] = 1
      BY <1>2, <2>3
    <3> QED BY <1>7, <2>1, <2>3, <3>1
  <2>4. \/ n > 0 /\ TimerDue(q, y, n + 1)
        \/ n > 0 /\ TimerDue(q, y, 1) /\ y \in Periodic
           /\ \E j \in DOMAIN q : q[j].x = y /\ n = q[j].icnt
    BY <1>10 DEF TimersTicked
  <2> QED BY <2>2, <2>3, <2>4
<1>11. ASSUME NEW y \in Timers, m[y] > 0
       PROVE  TimerDue(r, y, m[y])
  <2>1. l[y] \in Nat /\ (l[y] > 1 \/ (l[y] = 1 /\ y \in Periodic))
    <3>1. l[y] \in Nat
      BY <1>1
    <3>2. ~ (l[y] = 0 \/ (l[y] = 1 /\ y \notin Periodic))
      BY <1>5, <1>11
    <3> QED BY <3>1, <3>2
  <2>2. PICK n : n = l[y]
    OBVIOUS
  <2>3. TimerDue(q, y, n)
    BY <1>6, <2>1, <2>2
  <2>4. \/ n > 1 /\ TimerDue(r, y, n - 1)
        \/ n = 1 /\ (y \in Periodic => \E j \in DOMAIN q : q[j].x = y /\ TimerDue(r, y, q[j].icnt))
    BY <2>3 DEF TimersTicked
  <2>5. CASE n > 1 /\ TimerDue(r, y, n - 1)
    BY <1>5, <2>2, <2>5
  <2>6. CASE n = 1 /\ y \in Periodic /\ \E j \in DOMAIN q : q[j].x = y /\ TimerDue(r, y, q[j].icnt)
    BY <1>7, <2>2, <2>6
  <2> QED BY <2>1, <2>2, <2>4, <2>5, <2>6
<1> QED BY <1>1, <1>9, <1>10, <1>11 DEF Expiries

\* The calls from interrupts keep the invariant and the mailbox.
LEMMA IsrSteps ==
    ASSUME IndInv,
           \/ \E s \in Sems : IsrSemaphoreRelease(s)
           \/ \E t \in Receivers, f \in SUBSET Flags \ {{}} : IsrSignalSet(t, f)
           \/ \E x \in Msgs : IsrMessagePut(x)
    PROVE  IndInv' /\ k'.mbx = k.mbx
<1>1. /\ uses \in Programs /\ late \in BOOLEAN /\ Holds(k, late, due, left)
  BY IndInvIs
<1>2. k \in Kernels
  BY <1>1 DEF Holds, Sound, Fit
<1>3. ASSUME NEW u, Interrupts(k, u), u.tmr = k.tmr, Isr(u) PROVE IndInv' /\ k'.mbx = k.mbx
  <2>1. k' = u /\ uses' = uses /\ late' = late /\ due' = due /\ left' = left
    BY <1>3 DEF Isr
  <2>2. PICK s : s = k
    OBVIOUS
  <2>3. Holds(s, late, due, left) /\ Interrupts(s, u) /\ u.tmr = s.tmr
    BY <1>1, <1>3, <2>2
  <2>4. Holds(u, late, due, left)
    BY <1>1, <2>3, IsrHolds
  <2>5. late' \in BOOLEAN /\ Holds(k', late', due', left')
    BY <1>1, <2>1, <2>4
  <2>6. u.mbx = k.mbx
    BY <1>3 DEF Interrupts
  <2> QED BY <1>1, <2>1, <2>5, <2>6, HoldsNext
<1>4. ASSUME NEW s \in Sems, IsrSemaphoreRelease(s) PROVE IndInv' /\ k'.mbx = k.mbx
  <2>1. PICK u, e, a : u = rt_psq_enq(a, s, 0) /\ e = [id |-> s, arg |-> 0] /\ a = k
    OBVIOUS
  <2>2. e \in Requests
    BY <2>1 DEF Requests
  <2>3. Interrupts(a, u) /\ u.tmr = a.tmr
    BY <1>2, <2>1, <2>2, EnqInterrupts
  <2>4. Isr(u)
    BY <1>4, <2>1 DEF IsrSemaphoreRelease
  <2> QED BY <1>3, <2>1, <2>3, <2>4
<1>5. ASSUME NEW t \in Receivers, NEW f \in SUBSET Flags, IsrSignalSet(t, f) PROVE IndInv' /\ k'.mbx = k.mbx
  <2>1. PICK u, e, a : u = rt_psq_enq(a, t, f) /\ e = [id |-> t, arg |-> f] /\ a = k
    OBVIOUS
  <2>2. t \in Tasks /\ "wait" \in uses[t] /\ "set" \in uses[Isrs]
    BY <1>5 DEF Receivers, IsrSignalSet
  <2>3. e \in Requests
    BY <2>1, <2>2 DEF Requests
  <2>4. t \in Lasting
    BY <1>1, <2>2, RtxAssumption DEF Lasting
  <2>5. Interrupts(a, u) /\ u.tmr = a.tmr
    BY <1>2, <2>1, <2>3, <2>4, EnqInterrupts
  <2>6. Isr(u)
    BY <1>5, <2>1 DEF IsrSignalSet
  <2> QED BY <1>3, <2>1, <2>5, <2>6
<1>6. ASSUME NEW x \in Msgs, IsrMessagePut(x) PROVE IndInv' /\ k'.mbx = k.mbx
  <2>1. PICK u, a : u = isrMessagePut(a, x) /\ a = k
    OBVIOUS
  <2>2. Interrupts(a, u) /\ u.tmr = a.tmr
    BY <1>2, <2>1, PutInterrupts DEF Messages
  <2>3. Isr(u)
    BY <1>6, <2>1 DEF IsrMessagePut
  <2> QED BY <1>3, <2>1, <2>2, <2>3
<1> QED BY <1>4, <1>5, <1>6

\* PendSV.
LEMMA PendSVStep ==
    ASSUME IndInv, PendSV
    PROVE  IndInv' /\ Mails
<1>1. /\ uses \in Programs /\ late \in BOOLEAN /\ Holds(k, late, due, left)
  BY IndInvIs
<1>2. PICK s, u : s = k /\ u = rt_pop_req(s)
  OBVIOUS
<1>3. PICK d, l, e : /\ d = due /\ l = left
                     /\ e = [t \in Tasks |-> IF Waiting(u, t) THEN d[t] ELSE Forever]
  OBVIOUS
<1>4. /\ Sound(s) /\ s \in Kernels /\ Wakeups(s, {}) /\ Dates(s, d) /\ Expiries(s.tmr, l)
      /\ RoomForRequests(s, late)
  BY <1>1, <1>2, <1>3 DEF Holds, Sound, Fit
<1>5. /\ k' = u /\ late' = FALSE /\ due' = e /\ uses' = uses /\ left' = l
  BY <1>2, <1>3 DEF PendSV
<1>6. (\E i \in DOMAIN s.psq : s.psq[i].id = Queue) => ~ Sending(s)
  BY <1>4, RoomNotSending DEF RoomForRequests
<1>7. Sound(u) /\ u.psq = <<>> /\ Calmer(s, u) /\ Fed(s.mbx, u.mbx)
  BY <1>2, <1>4, <1>6, PopReqServes
<1>8. Dates(u, e)
  BY <1>3, <1>4, <1>7, CalmerDates
<1>9. u.tmr = s.tmr
  <2>1. KeepsTimers(s, u)
    BY <1>2, <1>4, PopReqKeeps
  <2>2. "tmr" \in DOMAIN s
    BY <1>4 DEF Kernels
  <2> QED BY <2>1, <2>2 DEF KeepsTimers
<1>10. RoomForRequests(u, FALSE)
  <2>1. DOMAIN u.psq = {}
    BY <1>7
  <2> QED BY <2>1 DEF RoomForRequests
<1>11. Holds(u, FALSE, e, l)
  BY <1>4, <1>7, <1>8, <1>9, <1>10 DEF Holds
<1>12. late' \in BOOLEAN /\ Holds(k', late', due', left')
  BY <1>5, <1>11
<1>13. Mails
  BY <1>2, <1>5, <1>7 DEF Mails
<1> QED BY <1>1, <1>5, <1>12, <1>13, HoldsNext

\* The tick of the scheduler, after that of the timers.
LEMMA TickHolds ==
    ASSUME NEW s, NEW after \in BOOLEAN, NEW d, Sound(s), RoomForRequests(s, after),
           s.psq = <<>> => ~ after, Dates(s, d), NEW l, Expiries(s.tmr, l), NEW u, u = rt_systick(s),
           NEW e, e = [t \in Tasks |-> CASE ~Waiting(u, t) -> Forever
                                         [] Waiting(u, t) /\ d[t] \in 1 .. Forever - 1 -> d[t] - 1
                                         [] OTHER -> d[t]]
    PROVE  Holds(u, after, e, l) /\ u.mbx = s.mbx
<1>1. s \in Kernels /\ Fit(s, {}, s.run) /\ Top(s) /\ Wakeups(s, {}) /\ Kept(s) /\ Spaced(s.dly)
  BY DEF Sound, Fit, Dates
<1>2. Fit(u, {}, u.run) /\ Top(u) /\ Ticks(s, u)
  BY <1>1, TickFit
<1>3. Loosened(s, u) /\ SameObjects(s, u) /\ u \in Kernels
  BY <1>2 DEF Ticks, Loosened, Fit
<1>4. Wakeups(u, {}) /\ Kept(u)
  BY <1>1, <1>3, LoosenedWakeups, LoosenedKept
<1>5. Sound(u)
  BY <1>2, <1>4 DEF Sound
<1>6. Dates(u, e)
  BY <1>2, <1>5, TicksDates
<1>7. u.psq = s.psq /\ u.mbx = s.mbx /\ u.tmr = s.tmr
  BY <1>3 DEF SameObjects
<1>8. Sending(u) => Sending(s)
  <2>1. u.wait[Queue] # <<>> => s.wait[Queue] # <<>>
    <3>1. Queue \in Objects /\ u.wait[Queue] \in Seq(Tasks) /\ s.wait[Queue] \in Seq(Tasks)
      BY <1>1, <1>3, ObjectNames, KernelTypes
    <3>2. PICK p, q : p = u.wait[Queue] /\ q = s.wait[Queue]
      OBVIOUS
    <3>3. \A t \in Tasks : InSeq(p, t) => InSeq(q, t)
      BY <1>3, <3>1, <3>2 DEF Loosened
    <3>4. p # <<>> => \E t \in Tasks : InSeq(p, t)
      <4>1. p # <<>> => 1 \in DOMAIN p /\ p[1] \in Tasks
        BY <3>1, <3>2
      <4> QED BY <4>1 DEF InSeq
    <3>5. q = <<>> => \A t : ~ InSeq(q, t)
      BY DEF InSeq
    <3> QED BY <3>2, <3>3, <3>4, <3>5
  <2> QED BY <1>7, <2>1 DEF Sending
<1>9. RoomForRequests(u, after)
  BY <1>7, <1>8 DEF RoomForRequests
<1> QED BY <1>5, <1>6, <1>7, <1>9 DEF Holds

\* The tick keeps the invariant and the mailbox.
LEMMA SysTickStep ==
    ASSUME IndInv, SysTick
    PROVE  IndInv' /\ k'.mbx = k.mbx
<1>1. /\ uses \in Programs /\ late \in BOOLEAN /\ Holds(k, late, due, left)
  BY IndInvIs
<1>2. PICK s, a, u : s = k /\ a = sysTimerTick(s) /\ u = rt_systick(a)
  OBVIOUS
<1>3. PICK d, l, e, m :
         /\ d = due /\ l = left
         /\ e = [t \in Tasks |-> CASE ~Waiting(u, t) -> Forever
                                   [] Waiting(u, t) /\ d[t] \in 1 .. Forever - 1 -> d[t] - 1
                                   [] OTHER -> d[t]]
         /\ m = [x \in Timers |-> ElapsedIn(s.tmr, x, l[x])]
  OBVIOUS
<1>4. /\ Sound(s) /\ s \in Kernels /\ Dates(s, d) /\ Expiries(s.tmr, l) /\ RoomForRequests(s, late)
      /\ s.psq = <<>> => ~ late
  BY <1>1, <1>2, <1>3 DEF Holds, Sound, Fit
<1>5. k' = u /\ late' = late /\ due' = e /\ uses' = uses
  BY <1>2, <1>3 DEF SysTick
<1>6. left' = m
  <2>1. \A x \in Timers : Elapsed(x, left[x]) = ElapsedIn(s.tmr, x, l[x])
    BY <1>2, <1>3, Zenon DEF Elapsed, ElapsedIn, TimerIndex
  <2>2. left' = [x \in Timers |-> Elapsed(x, left[x])]
    BY DEF SysTick
  <2> QED BY <1>3, <2>1, <2>2, Zenon
<1>7. TimerList(s.tmr) /\ \A y, n : TimerDue(s.tmr, y, n) => n > 0
  BY <1>4 DEF Expiries
<1>8. Interrupts(s, a) /\ TimersTicked(s.tmr, a.tmr)
  BY <1>2, <1>4, <1>7, TimerTick
<1>9. Sound(a) /\ RoomForRequests(a, late) /\ Dates(a, d) /\ (a.psq = <<>> => ~ late)
  <2>1. Sound(a) /\ RoomForRequests(a, late)
    BY <1>1, <1>4, <1>8, InterruptsSound, InterruptsRoom
  <2>2. SameLists(s, a) /\ (a.psq = <<>> => s.psq = <<>>)
    BY <1>8 DEF Interrupts, Asked
  <2>3. Dates(a, d)
    BY <1>4, <2>2, SameDates
  <2> QED BY <1>4, <2>1, <2>2, <2>3
<1>10. Expiries(a.tmr, m)
  <2>1. PICK q, r : q = s.tmr /\ r = a.tmr
    OBVIOUS
  <2>2. Expiries(q, l) /\ TimersTicked(q, r) /\ m = [x \in Timers |-> ElapsedIn(q, x, l[x])]
    BY <1>3, <1>4, <1>8, <2>1
  <2>3. Expiries(r, m)
    BY <2>2, TicksTimers
  <2> QED BY <2>1, <2>3
<1>11. Holds(u, late, e, m) /\ u.mbx = a.mbx
  BY <1>1, <1>2, <1>3, <1>9, <1>10, TickHolds
<1>12. late' \in BOOLEAN /\ Holds(k', late', due', left')
  BY <1>1, <1>5, <1>6, <1>11
<1>13. k'.mbx = k.mbx
  BY <1>2, <1>5, <1>8, <1>11 DEF Interrupts
<1> QED BY <1>1, <1>5, <1>12, <1>13, HoldsNext

-----------------------------------------------------------------------------
(***************************************************************************)
(* The start.                                                              *)
(***************************************************************************)

\* The threads in the order of their priorities.
Ordered(order, n) ==
    /\ n \in Nat /\ n > 0 /\ order \in Seq(Tasks) /\ Len(order) = n
    /\ \A i, j \in 1 .. n : order[i] = order[j] => i = j
    /\ \A t \in Tasks : \E i \in 1 .. n : order[i] = t
    /\ \A i, j \in 1 .. n : i <= j => Base[order[i]] >= Base[order[j]]

\* The order in which the threads are created is such a list.
LEMMA OrdersOrdered ==
    ASSUME NEW order \in Orders
    PROVE  Ordered(order, Cardinality(Tasks))
<1>1. PICK n : n = Cardinality(Tasks)
  OBVIOUS
<1>2. n \in Nat
  BY <1>1, FS_CardinalityType, RtxAssumption
<1>3. /\ order \in [1 .. n -> Tasks] /\ \A i, j \in 1 .. n : order[i] = order[j] => i = j
      /\ \A t \in Tasks : \E i \in 1 .. n : order[i] = t
      /\ \A i, j \in 1 .. n : i <= j => Base[order[i]] >= Base[order[j]]
  <2>1. /\ order \in Bijection(1 .. n, Tasks)
        /\ \A i, j \in 1 .. n : i <= j => Base[order[i]] >= Base[order[j]]
    BY <1>1 DEF Orders
  <2>2. order \in [1 .. n -> Tasks]
    BY <2>1 DEF Bijection, Injection
  <2>3. \A i, j \in 1 .. n : order[i] = order[j] => i = j
    BY <2>1, <2>2 DEF Bijection, Injection, IsInjective
  <2>4. \A t \in Tasks : \E i \in 1 .. n : order[i] = t
    BY <2>1 DEF Bijection, Surjection
  <2> QED BY <2>1, <2>2, <2>3, <2>4
<1>4. n > 0
  <2>1. PICK t \in Tasks : TRUE
    BY RtxAssumption
  <2>2. PICK i \in 1 .. n : order[i] = t
    BY <1>3
  <2> QED BY <1>2, <2>2
<1>5. order \in Seq(Tasks) /\ Len(order) = n
  BY <1>2, <1>3
<1> QED BY <1>1, <1>2, <1>3, <1>4, <1>5 DEF Ordered

\* The first of them runs, and the others are ready.
StartList(order, n, q) ==
    /\ q \in Seq(TCBs) /\ Len(q) = n
    /\ \A j \in 1 .. n : q[j] = IF j < n THEN order[j + 1] ELSE Idle

\* The ready list at the start holds the other threads and the idle one.
LEMMA StartListIs ==
    ASSUME NEW order, NEW n, Ordered(order, n)
    PROVE  /\ StartList(order, n, Tail(order) \o <<Idle>>)
           /\ Head(order) = order[1] /\ order[1] \in Tasks
<1>1. n \in Nat /\ n > 0 /\ order \in Seq(Tasks) /\ Len(order) = n
  BY DEF Ordered
<1>2. PICK a : a = Tail(order)
  OBVIOUS
<1>3. a \in Seq(Tasks) /\ Len(a) = n - 1 /\ \A j \in 1 .. n - 1 : a[j] = order[j + 1]
  BY <1>1, <1>2
<1>4. PICK b : b = <<Idle>>
  OBVIOUS
<1>5. b \in Seq(TCBs) /\ Len(b) = 1 /\ b[1] = Idle /\ a \in Seq(TCBs)
  BY <1>3, <1>4, TaskNames
<1>6. /\ a \o b \in Seq(TCBs) /\ Len(a \o b) = n
      /\ \A j \in 1 .. n : (a \o b)[j] = IF j <= n - 1 THEN a[j] ELSE b[j - (n - 1)]
  <2>1. /\ a \o b \in Seq(TCBs) /\ Len(a \o b) = Len(a) + Len(b)
        /\ \A j \in 1 .. Len(a) + Len(b) :
              (a \o b)[j] = IF j <= Len(a) THEN a[j] ELSE b[j - Len(a)]
    BY <1>5, ConcatList
  <2>2. Len(a) + Len(b) = n
    BY <1>1, <1>3, <1>5
  <2> QED BY <1>3, <2>1, <2>2
<1>7. \A j \in 1 .. n : (a \o b)[j] = IF j < n THEN order[j + 1] ELSE Idle
  <2>1. PICK c : c = a \o b
    OBVIOUS
  <2>2. \A j \in 1 .. n : c[j] = IF j <= n - 1 THEN a[j] ELSE b[j - (n - 1)]
    BY <1>6, <2>1
  <2>3. \A j \in 1 .. n : j < n => j \in 1 .. n - 1 /\ j <= n - 1
    BY <1>1
  <2>4. \A j \in 1 .. n : ~(j < n) => ~(j <= n - 1) /\ j - (n - 1) = 1
    BY <1>1
  <2>5. \A j \in 1 .. n : c[j] = IF j < n THEN order[j + 1] ELSE Idle
    <3> HIDE <2>1
    <3> QED BY <1>3, <1>5, <2>2, <2>3, <2>4
  <2> QED BY <2>1, <2>5
<1>8. Head(order) = order[1] /\ order[1] \in Tasks
  BY <1>1
<1> QED BY <1>2, <1>4, <1>6, <1>7, <1>8 DEF StartList

\* Who is in the list of the ready threads.
LEMMA StartReady ==
    ASSUME NEW order, NEW n, Ordered(order, n), NEW q, StartList(order, n, q), NEW h, h = order[1],
           NEW prio, prio = [t \in TCBs |-> IF t = Idle THEN 0 ELSE Base[t]]
    PROVE  /\ Once(q) /\ \A t : InSeq(q, t) <=> t \in TCBs /\ t # h
           /\ Sorted(q, prio) /\ Below(q, prio, prio[h])
           /\ prio \in [TCBs -> Nat]
<1>1. /\ n \in Nat /\ n > 0 /\ order \in Seq(Tasks) /\ Len(order) = n
      /\ \A i, j \in 1 .. n : order[i] = order[j] => i = j
      /\ \A t \in Tasks : \E i \in 1 .. n : order[i] = t
      /\ \A i, j \in 1 .. n : i <= j => Base[order[i]] >= Base[order[j]]
  BY DEF Ordered
<1>2. /\ DOMAIN q = 1 .. n
      /\ \A j \in 1 .. n : j < n => q[j] = order[j + 1] /\ q[j] \in Tasks /\ j + 1 \in 1 .. n
      /\ q[n] = Idle
  <2>1. \A j \in 1 .. n : order[j] \in Tasks
    BY <1>1
  <2>2. \A j \in 1 .. n : j < n => j + 1 \in 1 .. n
    BY <1>1
  <2>3. q \in Seq(TCBs) /\ Len(q) = n /\ \A j \in 1 .. n : q[j] = IF j < n THEN order[j + 1] ELSE Idle
    BY DEF StartList
  <2> QED BY <1>1, <2>1, <2>2, <2>3
<1>3. \A t \in Tasks : t # Idle /\ t \in TCBs /\ prio[t] = Base[t] /\ prio[t] \in Nat
  BY TaskNames, RtxAssumption
<1>4. prio[Idle] = 0 /\ prio \in [TCBs -> Nat]
  BY TaskNames, RtxAssumption DEF TCBs
<1>5. Once(q)
  <2>1. SUFFICES ASSUME NEW i \in 1 .. n, NEW j \in 1 .. n, q[i] = q[j] PROVE i = j
    BY <1>2 DEF Once
  <2>2. CASE i < n /\ j < n
    <3>1. i + 1 = j + 1
      BY <1>1, <1>2, <2>1, <2>2
    <3> QED BY <3>1
  <2>3. CASE i = n /\ j < n
    BY <1>2, <1>3, <2>1, <2>3
  <2>4. CASE i < n /\ j = n
    BY <1>2, <1>3, <2>1, <2>4
  <2> QED BY <1>1, <2>2, <2>3, <2>4
<1>6. ASSUME NEW t, InSeq(q, t)
      PROVE  t \in TCBs /\ t # h
  <2>1. PICK j \in 1 .. n : q[j] = t
    BY <1>2, <1>6 DEF InSeq
  <2>2. h \in Tasks /\ 1 \in 1 .. n
    BY <1>1
  <2>3. CASE j < n
    <3>1. order[j + 1] # order[1]
      BY <1>1, <1>2, <2>2, <2>3
    <3> QED BY <1>2, <1>3, <2>1, <2>3, <3>1
  <2>4. CASE j = n
    BY <1>2, <1>3, <2>1, <2>2, <2>4, TaskNames
  <2> QED BY <1>1, <2>3, <2>4
<1>7. ASSUME NEW t \in TCBs, t # h
      PROVE  InSeq(q, t)
  <2>1. CASE t = Idle
    <3>1. n \in DOMAIN q
      BY <1>1, <1>2
    <3> QED BY <1>2, <2>1, <3>1 DEF InSeq
  <2>2. CASE t \in Tasks
    <3>1. PICK i \in 1 .. n : order[i] = t
      BY <1>1, <2>2
    <3>2. i # 1
      BY <1>7, <3>1
    <3>3. i - 1 \in 1 .. n /\ i - 1 < n /\ (i - 1) + 1 = i
      BY <1>1, <3>2
    <3>4. q[i - 1] = t
      BY <1>2, <3>1, <3>3
    <3> QED BY <1>2, <3>3, <3>4 DEF InSeq
  <2> QED BY <2>1, <2>2 DEF TCBs
<1>8. Sorted(q, prio)
  <2>1. SUFFICES ASSUME NEW i \in 1 .. n, NEW j \in 1 .. n, i <= j PROVE prio[q[i]] >= prio[q[j]]
    BY <1>2 DEF Sorted
  <2>2. CASE j < n
    <3>1. i < n /\ i + 1 \in 1 .. n /\ j + 1 \in 1 .. n /\ i + 1 <= j + 1
      BY <1>1, <2>1, <2>2
    <3>2. Base[order[i + 1]] >= Base[order[j + 1]]
      BY <1>1, <3>1
    <3> QED BY <1>2, <1>3, <2>2, <3>1, <3>2
  <2>3. CASE j = n
    <3>1. prio[q[j]] = 0
      BY <1>2, <1>4, <2>3
    <3>2. prio[q[i]] \in Nat
      BY <1>1, <1>2, <1>3, <1>4
    <3> QED BY <3>1, <3>2
  <2> QED BY <1>1, <2>2, <2>3
<1>9. Below(q, prio, prio[h])
  <2>1. SUFFICES ASSUME NEW j \in 1 .. n PROVE prio[q[j]] <= prio[h]
    BY <1>2 DEF Below, InSeq
  <2>2. h \in Tasks /\ prio[h] \in Nat /\ prio[h] = Base[order[1]] /\ 1 \in 1 .. n
    <3>1. 1 \in 1 .. n
      BY <1>1
    <3>2. h \in Tasks /\ h = order[1]
      BY <1>1, <3>1
    <3> QED BY <1>3, <3>1, <3>2
  <2>3. CASE j < n
    <3>1. j + 1 \in 1 .. n /\ 1 <= j + 1
      BY <1>1, <2>3
    <3>2. Base[order[1]] >= Base[order[j + 1]]
      BY <1>1, <2>2, <3>1
    <3>3. q[j] \in Tasks /\ q[j] = order[j + 1]
      BY <1>2, <2>3
    <3>4. prio[q[j]] = Base[order[j + 1]] /\ prio[q[j]] \in Nat
      BY <1>3, <3>3
    <3> QED BY <2>2, <3>2, <3>4
  <2>4. CASE j = n
    BY <1>2, <1>4, <2>2, <2>4
  <2> QED BY <1>1, <2>3, <2>4
<1> QED BY <1>4, <1>5, <1>6, <1>7, <1>8, <1>9

\* The kernel has its types at the start.
LEMMA StartTyped ==
    ASSUME NEW order, NEW n, Ordered(order, n)
    PROVE  Start(order) \in Kernels
<1>1. PICK s, q, h : s = Start(order) /\ q = Tail(order) \o <<Idle>> /\ h = Head(order)
  OBVIOUS
<1>2. q \in Seq(TCBs) /\ h \in TCBs /\ h \in Tasks
  BY <1>1, StartListIs, TaskNames DEF StartList
<1>3. <<>> \in Seq(Delays) /\ <<>> \in Seq(Tasks) /\ <<>> \in Seq(Requests)
      /\ <<>> \in Seq([x : Timers, d : Int, icnt : Nat])
  OBVIOUS
<1>4. PICK st, prio, mut, mbx :
         /\ st = [t \in TCBs |-> IF t = h THEN "RUNNING" ELSE "READY"]
         /\ prio = [t \in TCBs |-> IF t = Idle THEN 0 ELSE Base[t]]
         /\ mut = [m \in Mutexes |-> [level |-> 0, owner |-> NoTask, prio |-> 0]]
         /\ mbx = [state |-> 0, first |-> 0, last |-> 0, count |-> 0,
                   msg |-> [i \in 0 .. MbxSize - 1 |-> NoTask]]
  OBVIOUS
<1>5. st \in [TCBs -> States] /\ prio \in [TCBs -> Nat] /\ mut \in [Mutexes -> Locks]
  <2>1. st \in [TCBs -> States]
    BY <1>4, StateNames
  <2>2. prio \in [TCBs -> Nat]
    BY <1>4, RtxAssumption DEF TCBs
  <2>3. mut \in [Mutexes -> Locks]
    BY <1>4 DEF Locks
  <2> QED BY <2>1, <2>2, <2>3
<1>6. mbx \in Mailboxes
  <2>1. 0 \in 0 .. MbxSize - 1 /\ 0 \in 0 .. MbxSize /\ 0 \in 0 .. 2
    BY RtxAssumption
  <2>2. [i \in 0 .. MbxSize - 1 |-> NoTask] \in [0 .. MbxSize - 1 -> Messages \cup {NoTask}]
    OBVIOUS
  <2> QED BY <1>4, <2>1, <2>2 DEF Mailboxes
<1>7. PICK tokens, wait, flags, msg, live :
         /\ tokens = [x \in Sems |-> 0] /\ wait = [o \in Objects |-> <<>>]
         /\ flags = [t \in TCBs |-> {}] /\ msg = [t \in TCBs |-> NoTask]
         /\ live = Objects \cup Timers
  OBVIOUS
<1>8. /\ tokens \in [Sems -> 0 .. TokenMax] /\ wait \in [Objects -> Seq(Tasks)]
      /\ flags \in [TCBs -> SUBSET Flags] /\ msg \in [TCBs -> Messages \cup {NoTask}]
      /\ live \in SUBSET (Objects \cup Timers)
  <2>1. 0 \in 0 .. TokenMax
    BY RtxAssumption
  <2> QED BY <1>3, <1>7, <2>1
<1>9. s = [run |-> h, rdy |-> q, dly |-> <<>>, st |-> st, prio |-> prio, active |-> Tasks,
           wait |-> wait, live |-> live, tokens |-> tokens, mut |-> mut, mbx |-> mbx,
           events |-> flags, waits |-> flags, msg |-> msg,
           robin |-> [task |-> NoTask, left |-> 0], tmr |-> <<>>, psq |-> <<>>, fault |-> FALSE]
  BY <1>1, <1>4, <1>7, Zenon DEF Start
<1>10. [task |-> NoTask, left |-> 0] \in [task : TCBs \cup {NoTask}, left : Int]
  OBVIOUS
<1>11. s \in Kernels
  <2> HIDE <1>1, <1>4, <1>7
  <2> QED BY <1>2, <1>3, <1>5, <1>6, <1>8, <1>9, <1>10 DEF Kernels
<1> QED BY <1>1, <1>11

\* What the start is like.
Started(s, h, q) ==
    /\ s.run = h /\ s.rdy = q /\ s.dly = <<>> /\ s.active = Tasks /\ s.psq = <<>> /\ s.tmr = <<>>
    /\ s.st = [t \in TCBs |-> IF t = h THEN "RUNNING" ELSE "READY"]
    /\ s.prio = [t \in TCBs |-> IF t = Idle THEN 0 ELSE Base[t]]
    /\ s.wait = [o \in Objects |-> <<>>]
    /\ \A m \in Mutexes : s.mut[m].level = 0

\* What the start says of the lists.
LEMMA StartIs ==
    ASSUME NEW order, NEW h, NEW q, h = Head(order), q = Tail(order) \o <<Idle>>
    PROVE  Started(Start(order), h, q)
  BY DEF Started, Start

\* The kernel is right at the start.
LEMMA StartChained ==
    ASSUME NEW order, NEW n, Ordered(order, n), NEW q, StartList(order, n, q), NEW h, h = order[1],
           h \in Tasks, NEW s \in Kernels, Started(s, h, q)
    PROVE  Sound(s)
<1>1. PICK prio : prio = [t \in TCBs |-> IF t = Idle THEN 0 ELSE Base[t]]
  OBVIOUS
<1>2. /\ Once(q) /\ \A t : InSeq(q, t) <=> t \in TCBs /\ t # h
      /\ Sorted(q, prio) /\ Below(q, prio, prio[h])
  BY <1>1, StartReady
<1>3. s.run = h /\ s.rdy = q /\ s.dly = <<>> /\ s.active = Tasks /\ s.psq = <<>> /\ s.prio = prio
  BY <1>1 DEF Started
<1>4. \A t \in TCBs : s.st[t] = IF t = h THEN "RUNNING" ELSE "READY"
  BY DEF Started
<1>5. \A o \in Objects : s.wait[o] = <<>>
  BY DEF Started
<1>6. \A t : ~ InSeq(<<>>, t)
  BY DEF InSeq
<1>7. Alive(s) = TCBs /\ h \in TCBs /\ h # Idle
  BY <1>3, TaskNames DEF Alive, TCBs
<1>8. Chained(s, {}, h)
  <2>1. Once(s.rdy) /\ \A o \in Objects : Once(s.wait[o])
    <3>1. Once(<<>>)
      BY DEF Once
    <3> QED BY <1>2, <1>3, <1>5, <3>1
  <2>2. \A t \in TCBs : InSeq(s.rdy, t) => t \in Alive(s) \ {} /\ s.st[t] = "READY"
    BY <1>2, <1>3, <1>4, <1>7
  <2>3. \A o \in Objects, t \in Tasks : ~ InSeq(s.wait[o], t)
    BY <1>5, <1>6
  <2>4. \A t \in Alive(s) \ {} :
           /\ s.st[t] = "READY" => InSeq(s.rdy, t)
           /\ s.st[t] \notin InQueue
           /\ s.st[t] # "INACTIVE" /\ (s.st[t] = "RUNNING" <=> t = h)
    BY <1>2, <1>3, <1>4, <1>7, StateNames
  <2>5. Idle \in {} \/ s.st[Idle] \in {"READY", "RUNNING"}
    BY <1>4, <1>7, TaskNames
  <2>6. h \in (Alive(s) \ {}) \cup {NoTask}
    BY <1>7
  <2> QED BY <2>1, <2>2, <2>3, <2>4, <2>5, <2>6 DEF Chained
<1>9. Delayed(s)
  BY <1>3 DEF Delayed, OnceDly, InDly
<1>10. Fit(s, {}, s.run) /\ Top(s)
  BY <1>2, <1>3, <1>8, <1>9 DEF Fit, Top
<1>11. Wakeups(s, {})
  <2>1. \A t \in s.active \ {} : s.st[t] # "WAIT_AND" /\ s.st[t] # "WAIT_OR"
    BY <1>3, <1>4, TaskNames
  <2> QED BY <1>5, <2>1, ObjectNames DEF Wakeups
<1>12. Kept(s)
  <2>1. \A m \in Mutexes : s.mut[m].level = 0
    BY DEF Started
  <2>2. \A m \in Mutexes, t \in Tasks : ~ InSeq(s.wait[m], t)
    BY <1>5, <1>6, ObjectNames
  <2>3. Lasting \subseteq s.active
    BY <1>3 DEF Lasting
  <2>4. DOMAIN s.psq = {}
    BY <1>3
  <2> QED BY <2>1, <2>2, <2>3, <2>4 DEF Kept
<1> QED BY <1>10, <1>11, <1>12 DEF Sound

\* The invariant holds at the start.
LEMMA InitHolds ==
    ASSUME Init
    PROVE  IndInv
<1>1. PICK order \in Orders : k = Start(order)
  BY DEF Init
<1>2. PICK n, s, h, q : /\ n = Cardinality(Tasks) /\ s = Start(order) /\ h = Head(order)
                        /\ q = Tail(order) \o <<Idle>>
  OBVIOUS
<1>3. Ordered(order, n) /\ StartList(order, n, q) /\ h = order[1] /\ h \in Tasks
  BY <1>2, OrdersOrdered, StartListIs
<1>4. s \in Kernels /\ Started(s, h, q)
  BY <1>2, <1>3, StartTyped, StartIs
<1>5. Sound(s)
  BY <1>3, <1>4, StartChained
<1>6. s.psq = <<>> /\ s.dly = <<>> /\ s.tmr = <<>> /\ k = s
  BY <1>1, <1>2, <1>4 DEF Started
<1>7. uses \in Programs /\ late = FALSE /\ due = [t \in Tasks |-> Forever] /\ left = [x \in Timers |-> 0]
  BY DEF Init
<1>8. RoomForRequests(s, late)
  <2>1. DOMAIN s.psq = {}
    BY <1>6
  <2> QED BY <2>1 DEF RoomForRequests
<1>9. Dates(s, due)
  <2>1. \A t, m : ~ Due(s.dly, t, m)
    BY <1>6 DEF Due
  <2>2. Spaced(s.dly)
    BY <1>6 DEF Spaced
  <2> QED BY <1>7, <2>1, <2>2 DEF Dates
<1>10. Expiries(s.tmr, left)
  <2>1. DOMAIN s.tmr = {} /\ s.tmr \in Seq(TimerEntries)
    BY <1>6
  <2>2. TimerList(s.tmr)
    BY <2>1 DEF TimerList
  <2>3. \A x, m : ~ TimerDue(s.tmr, x, m)
    BY <2>1 DEF TimerDue
  <2>4. left \in [Timers -> Nat] /\ \A x \in Timers : ~(left[x] > 0)
    BY <1>7
  <2> QED BY <2>2, <2>3, <2>4 DEF Expiries
<1> QED BY <1>5, <1>6, <1>7, <1>8, <1>9, <1>10 DEF IndInv

-----------------------------------------------------------------------------
(***************************************************************************)
(* The theorems.                                                           *)
(***************************************************************************)

\* A step that keeps the mailbox puts nothing in.
LEMMA SameMails ==
    ASSUME IndInv, k'.mbx = k.mbx
    PROVE  Mails
<1>1. k \in Kernels
  BY DEF IndInv, Sound, Fit
<1> QED BY <1>1, SameFed DEF Mails

\* Every call of a thread keeps the invariant.
LEMMA CallSteps ==
    ASSUME IndInv, Call
    PROVE  IndInv' /\ Mails
<1>1. ASSUME \E n \in Timeouts : (\E x \in Msgs : MessagePut(x, n)) \/ MessageGet(n)
      PROVE  IndInv' /\ Mails
  BY <1>1, MessageSteps
<1>2. ASSUME \E n \in Timeouts : (\E f \in SUBSET Flags : SignalWait(f, n)) \/ Delay(n)
      PROVE  IndInv' /\ Mails
  BY <1>2, SignalSteps, ThreadSteps, SameMails
<1>3. ASSUME \E t \in Receivers, f \in SUBSET Flags \ {{}} : SignalSet(t, f) \/ SignalClear(t, f)
      PROVE  IndInv' /\ Mails
  <2>1. Receivers \subseteq Tasks
    BY DEF Receivers
  <2> QED BY <1>3, <2>1, SignalSteps, SameMails
<1> QED
  BY <1>1, <1>2, <1>3, SemaphoreSteps, MutexSteps, ThreadSteps, TimerSteps, SameMails
  DEF Call

\* Every step keeps the invariant, and puts messages into the mailbox or takes
\* one.
LEMMA KernelStep ==
    IndInv /\ [Next]_vars => IndInv' /\ Mails
<1> SUFFICES ASSUME IndInv, [Next]_vars PROVE IndInv' /\ Mails
  OBVIOUS
<1>1. CASE UNCHANGED vars
  <2>1. /\ uses' = uses /\ k' = k /\ late' = late /\ due' = due /\ left' = left
    BY <1>1 DEF vars
  <2>2. uses \in Programs /\ late \in BOOLEAN /\ Holds(k, late, due, left)
    BY IndInvIs
  <2>3. late' \in BOOLEAN /\ Holds(k', late', due', left')
    BY <2>1, <2>2
  <2> QED BY <2>1, <2>2, <2>3, HoldsNext, SameMails
<1>2. CASE Interrupt
  BY <1>2, IsrSteps, PendSVStep, SysTickStep, SameMails DEF Interrupt
<1>3. CASE Call
  BY <1>3, CallSteps
<1> QED BY <1>1, <1>2, <1>3 DEF Next, Halted

\* The inductive invariant of the kernel: the lists agree with the states of
\* the threads and with the objects, and with the times that are left.
THEOREM KernelInvariant == Spec => []IndInv
<1>1. Init => IndInv
  BY InitHolds
<1>2. IndInv /\ [Next]_vars => IndInv'
  BY KernelStep
<1> QED BY <1>1, <1>2, PTL DEF Spec

\* No ready thread has a priority above that of the one that runs: every call,
\* the tick and PendSV end with a dispatch, or needed none.
THEOREM HighestRunsHolds == Spec => []HighestRuns
<1>1. IndInv => HighestRuns
  <2> SUFFICES ASSUME IndInv, NEW i \in 1 .. Len(k.rdy)
               PROVE  k.prio[k.rdy[i]] <= k.prio[k.run]
    BY DEF HighestRuns
  <2>1. k.rdy \in Seq(TCBs) /\ Below(k.rdy, k.prio, k.prio[k.run])
    BY DEF IndInv, Sound, Fit, Top, Kernels
  <2>2. i \in DOMAIN k.rdy /\ k.rdy[i] \in TCBs
    BY <2>1
  <2>3. InSeq(k.rdy, k.rdy[i])
    BY <2>2 DEF InSeq
  <2> QED BY <2>1, <2>2, <2>3 DEF Below
<1> QED BY <1>1, KernelInvariant, PTL

\* A thread that is in a list once has one place in it.
LEMMA PlacesIs ==
    ASSUME NEW S, NEW q \in Seq(S), NEW t
    PROVE  /\ InSeq(q, t) /\ Once(q) => \E i \in 1 .. Len(q) : Places(q, t) = {i}
           /\ ~ InSeq(q, t) => Places(q, t) = {}
<1>1. DOMAIN q = 1 .. Len(q)
  OBVIOUS
<1> QED BY <1>1 DEF InSeq, Once, Places

\* A thread is in the list its state says, once, and in no other: the ready
\* list and the lists of the objects share one pair of links (rt_put_prio,
\* rt_get_first, rt_rmv_list).
THEOREM QueuedOnceHolds == Spec => []QueuedOnce
<1>1. IndInv => QueuedOnce
  <2> SUFFICES ASSUME IndInv PROVE QueuedOnce
    OBVIOUS
  <2>1. PICK s : s = k
    OBVIOUS
  <2>2. s \in Kernels /\ Chained(s, {}, s.run)
    BY <2>1 DEF IndInv, Sound, Fit
  <2>3. /\ s.rdy \in Seq(TCBs) /\ \A o \in Objects : s.wait[o] \in Seq(Tasks)
        /\ s.active \subseteq Tasks
    BY <2>2, KernelTypes DEF Kernels
  <2>4. /\ Once(s.rdy) /\ \A o \in Objects : Once(s.wait[o])
        /\ \A t \in TCBs : InSeq(s.rdy, t) => t \in Alive(s) /\ s.st[t] = "READY"
        /\ \A o \in Objects, t \in Tasks : InSeq(s.wait[o], t) =>
              t \in s.active /\ s.st[t] \in InQueue /\ o \in ListsOf(s.st[t])
        /\ \A o, x \in Objects, t \in Tasks : InSeq(s.wait[o], t) /\ InSeq(s.wait[x], t) => o = x
        /\ \A t \in Alive(s) :
              /\ s.st[t] = "READY" => InSeq(s.rdy, t)
              /\ s.st[t] \in InQueue => \E o \in Objects : InSeq(s.wait[o], t)
              /\ s.st[t] = "RUNNING" <=> t = s.run
        /\ s.st[Idle] \in {"READY", "RUNNING"}
        /\ s.run \in Alive(s) \cup {NoTask}
    BY <2>2 DEF Chained
  <2>5. \A o \in Objects, t \in TCBs : InSeq(s.wait[o], t) => t \in Tasks
    BY <2>3, EmptyList
  <2>6. ASSUME NEW t \in TCBs
        PROVE  /\ InSeq(s.rdy, t) => \E i \in 1 .. Len(s.rdy) : Places(s.rdy, t) = {i}
               /\ ~ InSeq(s.rdy, t) => Places(s.rdy, t) = {}
               /\ \A o \in Objects : InSeq(s.wait[o], t) =>
                     \E i \in 1 .. Len(s.wait[o]) : Places(s.wait[o], t) = {i}
               /\ \A o \in Objects : ~ InSeq(s.wait[o], t) => Places(s.wait[o], t) = {}
    BY <2>3, <2>4, PlacesIs
  <2>7. ASSUME NEW t \in Alive(s), s.st[t] = "READY"
        PROVE  /\ \E i \in 1 .. Len(s.rdy) : Places(s.rdy, t) = {i}
               /\ \A o \in Objects : Places(s.wait[o], t) = {}
    <3>1. t \in TCBs /\ InSeq(s.rdy, t)
      BY <2>3, <2>4, <2>7 DEF Alive, TCBs
    <3>2. \A o \in Objects : ~ InSeq(s.wait[o], t)
      BY <2>4, <2>5, <2>7, <3>1, StateNames
    <3> QED BY <2>6, <3>1, <3>2
  <2>8. ASSUME NEW t \in Alive(s), s.st[t] \in InQueue
        PROVE  /\ Places(s.rdy, t) = {}
               /\ \E o \in ListsOf(s.st[t]) :
                     /\ \E i \in 1 .. Len(s.wait[o]) : Places(s.wait[o], t) = {i}
                     /\ \A x \in Objects \ {o} : Places(s.wait[x], t) = {}
    <3>1. t \in TCBs /\ ~ InSeq(s.rdy, t)
      BY <2>3, <2>4, <2>8, StateNames DEF Alive, TCBs
    <3>2. PICK o \in Objects : InSeq(s.wait[o], t)
      BY <2>4, <2>8
    <3>3. t \in Tasks
      BY <2>5, <3>1, <3>2
    <3>4. o \in ListsOf(s.st[t])
      BY <2>4, <3>2, <3>3
    <3>5. \A x \in Objects \ {o} : ~ InSeq(s.wait[x], t)
      BY <2>4, <3>2, <3>3
    <3>6. \A x \in Objects \ {o} : Places(s.wait[x], t) = {}
      BY <2>6, <3>1, <3>5
    <3>7. \E i \in 1 .. Len(s.wait[o]) : Places(s.wait[o], t) = {i}
      BY <2>6, <3>1, <3>2
    <3>8. Places(s.rdy, t) = {}
      BY <2>6, <3>1
    <3> QED BY <3>4, <3>6, <3>7, <3>8
  <2>9. ASSUME NEW t \in TCBs, t \notin Alive(s) \/ s.st[t] \notin InQueue \cup {"READY"}
        PROVE  Places(s.rdy, t) = {} /\ \A o \in Objects : Places(s.wait[o], t) = {}
    <3>1. ~ InSeq(s.rdy, t)
      BY <2>4, <2>9
    <3>2. \A o \in Objects : ~ InSeq(s.wait[o], t)
      BY <2>4, <2>5, <2>9 DEF Alive
    <3> QED BY <2>6, <3>1, <3>2
  <2>10. ASSUME NEW t \in TCBs
         PROVE  s.st[t] = "RUNNING" /\ t \in Alive(s) <=> t = s.run
    BY <2>4, TaskNames
  <2>11. /\ {"WAIT_SEM", "WAIT_MUT", "WAIT_MBX"} = InQueue
         /\ \A x \in {"RUNNING", "WAIT_DLY", "WAIT_AND", "WAIT_OR"} : x \notin InQueue \cup {"READY"}
    BY DEF InQueue
  <2>12. ASSUME NEW t \in TCBs
         PROVE  /\ t \in s.active \cup {Idle} /\ s.st[t] = "READY" =>
                        /\ \E i \in 1 .. Len(s.rdy) : Places(s.rdy, t) = {i}
                        /\ \A o \in Objects : Places(s.wait[o], t) = {}
                /\ t \in s.active \cup {Idle} /\ s.st[t] \in {"WAIT_SEM", "WAIT_MUT", "WAIT_MBX"} =>
                        /\ Places(s.rdy, t) = {}
                        /\ \E o \in ListsOf(s.st[t]) :
                              /\ \E i \in 1 .. Len(s.wait[o]) : Places(s.wait[o], t) = {i}
                              /\ \A x \in Objects \ {o} : Places(s.wait[x], t) = {}
                /\ ~(t \in s.active \cup {Idle})
                        \/ s.st[t] \in {"RUNNING", "WAIT_DLY", "WAIT_AND", "WAIT_OR"} =>
                        Places(s.rdy, t) = {} /\ \A o \in Objects : Places(s.wait[o], t) = {}
                /\ s.st[t] = "RUNNING" /\ t \in s.active \cup {Idle} <=> t = s.run
    <3>1. Alive(s) = s.active \cup {Idle}
      BY DEF Alive
    <3>2. t \in s.active \cup {Idle} /\ s.st[t] = "READY" =>
             /\ \E i \in 1 .. Len(s.rdy) : Places(s.rdy, t) = {i}
             /\ \A o \in Objects : Places(s.wait[o], t) = {}
      BY <2>7, <3>1
    <3>3. t \in s.active \cup {Idle} /\ s.st[t] \in {"WAIT_SEM", "WAIT_MUT", "WAIT_MBX"} =>
             /\ Places(s.rdy, t) = {}
             /\ \E o \in ListsOf(s.st[t]) :
                   /\ \E i \in 1 .. Len(s.wait[o]) : Places(s.wait[o], t) = {i}
                   /\ \A x \in Objects \ {o} : Places(s.wait[x], t) = {}
      BY <2>8, <2>11, <3>1
    <3>4. s.st[t] \in {"RUNNING", "WAIT_DLY", "WAIT_AND", "WAIT_OR"} =>
             Places(s.rdy, t) = {} /\ \A o \in Objects : Places(s.wait[o], t) = {}
      BY <2>9, <2>11, <3>1
    <3>5. t \notin s.active \cup {Idle} =>
             Places(s.rdy, t) = {} /\ \A o \in Objects : Places(s.wait[o], t) = {}
      BY <2>9, <3>1
    <3>6. s.st[t] = "RUNNING" /\ t \in s.active \cup {Idle} <=> t = s.run
      BY <2>10, <3>1
    <3> QED BY <3>2, <3>3, <3>4, <3>5, <3>6, Zenon
  <2> DEFINE PlacedIn(c, t) ==
        /\ t \in c.active \cup {Idle} /\ c.st[t] = "READY" =>
              /\ \E i \in 1 .. Len(c.rdy) : Places(c.rdy, t) = {i}
              /\ \A o \in Objects : Places(c.wait[o], t) = {}
        /\ t \in c.active \cup {Idle} /\ c.st[t] \in {"WAIT_SEM", "WAIT_MUT", "WAIT_MBX"} =>
              /\ Places(c.rdy, t) = {}
              /\ \E o \in ListsOf(c.st[t]) :
                    /\ \E i \in 1 .. Len(c.wait[o]) : Places(c.wait[o], t) = {i}
                    /\ \A x \in Objects \ {o} : Places(c.wait[x], t) = {}
        /\ (~(t \in c.active \cup {Idle}) \/ c.st[t] \in {"RUNNING", "WAIT_DLY", "WAIT_AND", "WAIT_OR"}) =>
              Places(c.rdy, t) = {} /\ \A o \in Objects : Places(c.wait[o], t) = {}
        /\ (c.st[t] = "RUNNING" /\ t \in c.active \cup {Idle}) <=> t = c.run
  <2>13. \A t \in TCBs : PlacedIn(s, t)
    BY <2>12, Zenon
  <2>14. \A t \in TCBs : PlacedIn(k, t)
    <3> HIDE DEF PlacedIn
    <3> QED BY <2>1, <2>13
  <2> QED BY <2>14, Zenon DEF QueuedOnce, InNone
<1> QED BY <1>1, KernelInvariant, PTL

\* Nobody waits for what is there: every release, message, signal and request
\* of an interrupt wakes who waits for it, and every deletion all of them.
THEOREM NoLostWakeupHolds == Spec => []NoLostWakeup
<1>1. IndInv => NoLostWakeup
  <2>1. IndInv => Wakeups(k, {})
    BY DEF IndInv, Sound
  <2>2. Wakeups(k, {}) => NoLostWakeup
    BY DEF Wakeups, NoLostWakeup
  <2> QED BY <2>1, <2>2
<1> QED BY <1>1, KernelInvariant, PTL

\* Where thread t is in delay list q, 0 if it is in none.
DelayIndex(q, t) == SelectInSeq(q, LAMBDA e : e.t = t)

\* DelayIndex finds the thread, or is 0.
LEMMA DelayIndexIs ==
    ASSUME NEW q \in Seq(Delays), NEW t, NEW i, i = DelayIndex(q, t)
    PROVE  IF InDly(q, t) THEN i \in 1 .. Len(q) /\ i # 0 /\ q[i].t = t ELSE i = 0
<1>1. Len(q) \in Nat /\ DOMAIN q = 1 .. Len(q)
  OBVIOUS
<1>2. PICK I : I = {j \in 1 .. Len(q) : q[j].t = t}
  OBVIOUS
<1>3. i = IF I # {} THEN Min(I) ELSE 0
  BY <1>2, Zenon DEF DelayIndex, SelectInSeq
<1>4. I # {} <=> InDly(q, t)
  BY <1>1, <1>2 DEF InDly
<1>5. CASE InDly(q, t)
  <2>1. I \subseteq Nat /\ I # {}
    BY <1>2, <1>4, <1>5
  <2>2. i \in I
    BY <1>3, <2>1, MinOfSet
  <2> QED BY <1>2, <1>5, <2>2
<1>6. CASE ~ InDly(q, t)
  BY <1>3, <1>4, <1>6
<1> QED BY <1>5, <1>6

\* Every thread that waits with a time limit is due when its time is over, and
\* no other is in the delay list, whatever rt_put_dly, rt_rmv_dly and
\* rt_dec_dly did to the differences of times before it.
THEOREM DelaysExactHolds == Spec => []DelaysExact
<1>1. IndInv => DelaysExact
  <2> SUFFICES ASSUME IndInv, NEW t \in Tasks
               PROVE  IF Waiting(k, t) /\ due[t] # Forever
                      THEN /\ DelayIndex(k.dly, t) # 0 /\ due[t] > 0
                           /\ DueAt(k.dly, DelayIndex(k.dly, t)) = due[t]
                      ELSE DelayIndex(k.dly, t) = 0
    BY Zenon DEF DelaysExact, DelayIndex
  <2>1. PICK q, i : q = k.dly /\ i = DelayIndex(q, t)
    OBVIOUS
  <2>2. q \in Seq(Delays) /\ OnceDly(q) /\ (InDly(q, t) => Waiting(k, t)) /\ Dates(k, due)
    BY <2>1 DEF IndInv, Sound, Fit, Delayed, Kernels, Waiting
  <2>3. IF InDly(q, t) THEN i \in 1 .. Len(q) /\ i # 0 /\ q[i].t = t ELSE i = 0
    BY <2>1, <2>2, DelayIndexIs
  <2>4. /\ \A n : Due(q, t, n) => due[t] = n /\ n \in 1 .. Forever - 1
        /\ Waiting(k, t) => due[t] = Forever \/ Due(q, t, due[t])
    BY <2>1, <2>2 DEF Dates
  <2>5. DOMAIN q = 1 .. Len(q)
    BY <2>2
  <2>6. CASE InDly(q, t)
    <3>1. Due(q, t, DueAt(q, i))
      BY <2>3, <2>5, <2>6 DEF Due
    <3>2. due[t] = DueAt(q, i) /\ due[t] \in 1 .. Forever - 1
      BY <2>4, <3>1
    <3>3. due[t] > 0 /\ due[t] # Forever
      BY <3>2, RtxAssumption
    <3> QED BY <2>1, <2>2, <2>3, <2>6, <3>2, <3>3
  <2>7. CASE ~ InDly(q, t)
    <3>1. \A n : ~ Due(q, t, n)
      BY <2>7 DEF Due, InDly
    <3> QED BY <2>1, <2>3, <2>4, <2>7, <3>1
  <2> QED BY <2>6, <2>7
<1> QED BY <1>1, KernelInvariant, PTL

\* Every user timer expires when its time is over, whatever rt_timer_insert,
\* osTimerStop and sysTimerTick did to the timers before it in the list.
THEOREM TimersExactHolds == Spec => []TimersExact
<1>1. IndInv => TimersExact
  <2> SUFFICES ASSUME IndInv, NEW x \in Timers
               PROVE  IF left[x] > 0
                      THEN /\ TimerIndex(k.tmr, x) # 0
                           /\ DueAt(k.tmr, TimerIndex(k.tmr, x)) = left[x]
                      ELSE TimerIndex(k.tmr, x) = 0
    BY Zenon DEF TimersExact, TimerIndex
  <2>1. PICK q, i : q = k.tmr /\ i = TimerIndex(q, x)
    OBVIOUS
  <2>2. q \in Seq(TimerEntries) /\ Expiries(q, left)
    BY <2>1 DEF IndInv, Expiries, TimerList
  <2>3. IF InTmr(q, x) THEN i \in 1 .. Len(q) /\ i # 0 /\ q[i].x = x ELSE i = 0
    BY <2>1, <2>2, TimerIndexIs
  <2>4. /\ \A n : TimerDue(q, x, n) => left[x] = n /\ n > 0
        /\ left[x] > 0 => TimerDue(q, x, left[x])
    BY <2>2 DEF Expiries
  <2>5. DOMAIN q = 1 .. Len(q)
    BY <2>2
  <2>6. CASE InTmr(q, x)
    <3>1. TimerDue(q, x, DueAt(q, i))
      BY <2>3, <2>5, <2>6 DEF TimerDue
    <3> QED BY <2>1, <2>3, <2>4, <2>6, <3>1
  <2>7. CASE ~ InTmr(q, x)
    <3>1. \A n : ~ TimerDue(q, x, n)
      BY <2>7 DEF TimerDue, InTmr
    <3> QED BY <2>1, <2>3, <2>4, <2>7, <3>1
  <2> QED BY <2>6, <2>7
<1> QED BY <1>1, KernelInvariant, PTL

-----------------------------------------------------------------------------
(***************************************************************************)
(* The mailbox implements the bounded queue.                               *)
(***************************************************************************)

\* The list q is what ring m holds, the oldest message first.
Held(m, q) ==
    /\ q \in Seq(Messages \cup {NoTask}) /\ Len(q) = m.count /\ m.count \in 0 .. MbxSize
    /\ \A i \in 1 .. m.count : q[i] = Message(m, i)

\* Contents reads that list off the ring.
LEMMA InRing ==
    ASSUME NEW m \in Mailboxes, NEW q,
           q = [i \in 1 .. m.count |-> m.msg[(m.last + i - 1) % MbxSize]]
    PROVE  Held(m, q)
<1>1. PICK n, l, g, M : n = m.count /\ l = m.last /\ g = m.msg /\ M = Messages \cup {NoTask}
  OBVIOUS
<1>2. /\ n \in 0 .. MbxSize /\ l \in 0 .. MbxSize - 1 /\ MbxSize \in Nat
      /\ g \in [0 .. MbxSize - 1 -> M]
  BY <1>1, RtxAssumption DEF Mailboxes
<1>3. ASSUME NEW i \in 1 .. n
      PROVE  g[(l + i - 1) % MbxSize] = Message(m, i) /\ Message(m, i) \in M
  <2>1. i - 1 \in 0 .. MbxSize /\ l + i - 1 = l + (i - 1)
    BY <1>2
  <2>2. (l + (i - 1)) % MbxSize = Slot(l, i - 1) /\ Slot(l, i - 1) \in 0 .. MbxSize - 1
    BY <1>2, <2>1, SlotIs
  <2> QED BY <1>1, <1>2, <2>1, <2>2 DEF Message
<1> DEFINE D(i) == g[(l + i - 1) % MbxSize]
<1>4. q = [i \in 1 .. n |-> D(i)]
  BY <1>1
<1>5. \A i \in 1 .. n : D(i) = Message(m, i) /\ D(i) \in M
  BY <1>3
<1> HIDE DEF D
<1>6. q \in Seq(M) /\ Len(q) = n /\ \A i \in 1 .. n : q[i] = D(i)
  BY <1>2, <1>4, <1>5
<1> QED BY <1>1, <1>2, <1>5, <1>6 DEF Held

\* A sequence that begins with the entries of another one.
LEMMA PrefixIs ==
    ASSUME NEW S, NEW q \in Seq(S), NEW r \in Seq(S), Len(q) <= Len(r),
           \A i \in 1 .. Len(q) : r[i] = q[i]
    PROVE  IsPrefix(q, r)
<1>1. PICK n : n = Len(q)
  OBVIOUS
<1>2. n \in Nat /\ Len(r) \in Nat /\ n <= Len(r)
  BY <1>1
<1>3. SubSeq(q, 1, n) = [i \in 1 .. n |-> q[i]] /\ SubSeq(r, 1, n) = [i \in 1 .. n |-> r[i]]
  BY <1>1, <1>2
<1>4. \A i \in 1 .. n : q[i] = r[i]
  BY <1>1
<1>5. SubSeq(q, 1, n) = SubSeq(r, 1, n)
  BY <1>3, <1>4
<1> QED BY <1>1, <1>2, <1>5 DEF IsPrefix

\* Messages that go into the ring come behind those that are in it, and the
\* oldest one is the one that is taken.
LEMMA RingSteps ==
    ASSUME NEW a \in Mailboxes, NEW b \in Mailboxes, Ring(a),
           NEW q, Held(a, q), NEW r, Held(b, r)
    PROVE  /\ Fed(a, b) => Ring(b) /\ IsPrefix(q, r) /\ Len(r) <= MbxSize
           /\ Fetched(a, b) =>
                  Ring(b) /\ q # <<>> /\ IsPrefix(Tail(q), r) /\ Len(r) <= MbxSize
<1>1. PICK M, n, m : M = Messages \cup {NoTask} /\ n = a.count /\ m = b.count
  OBVIOUS
<1>2. /\ q \in Seq(M) /\ Len(q) = n /\ n \in 0 .. MbxSize
      /\ \A i \in 1 .. n : q[i] = Message(a, i)
  BY <1>1 DEF Held
<1>3. /\ r \in Seq(M) /\ Len(r) = m /\ m \in 0 .. MbxSize
      /\ \A i \in 1 .. m : r[i] = Message(b, i)
  BY <1>1 DEF Held
<1>4. MbxSize \in Nat /\ Len(r) <= MbxSize
  BY <1>3, RtxAssumption
<1>5. ASSUME Fed(a, b)
      PROVE  Ring(b) /\ IsPrefix(q, r)
  <2>1. Ring(b) /\ n <= m /\ \A j \in 1 .. n : Message(b, j) = Message(a, j)
    BY <1>1, <1>5 DEF Fed
  <2>2. \A j \in 1 .. n : r[j] = q[j]
    BY <1>2, <1>3, <1>4, <2>1
  <2> QED BY <1>2, <1>3, <2>1, <2>2, PrefixIs
<1>6. ASSUME Fetched(a, b)
      PROVE  Ring(b) /\ q # <<>> /\ IsPrefix(Tail(q), r)
  <2>1. Ring(b) /\ n > 0 /\ n - 1 <= m /\ \A j \in 1 .. n - 1 : Message(b, j) = Message(a, j + 1)
    BY <1>1, <1>6 DEF Fetched
  <2>2. q # <<>>
    BY <1>2, <2>1
  <2>3. /\ Tail(q) \in Seq(M) /\ Len(Tail(q)) = n - 1
        /\ \A j \in 1 .. n - 1 : Tail(q)[j] = q[j + 1]
    BY <1>2, <2>2
  <2>4. \A j \in 1 .. n - 1 : r[j] = q[j + 1]
    <3>1. \A j \in 1 .. n - 1 : j \in 1 .. m /\ j + 1 \in 1 .. n
      BY <1>2, <1>3, <1>4, <2>1
    <3> QED BY <1>2, <1>3, <2>1, <3>1
  <2>5. IsPrefix(Tail(q), r)
    <3>1. PICK t : t = Tail(q)
      OBVIOUS
    <3> QED BY <1>3, <2>1, <2>3, <2>4, <3>1, PrefixIs
  <2> QED BY <2>1, <2>2, <2>5
<1> QED BY <1>4, <1>5, <1>6

\* The kernel's mailbox is a bounded queue: a message goes behind those that
\* are in the ring and the oldest one is taken, whichever thread, interrupt or
\* waiting sender put it (rt_mbx_send, rt_mbx_wait, rt_mbx_psh).
THEOREM MailboxImplements == Spec => MailboxIsFifo
<1>1. Init => IndInv /\ Ring(k.mbx) /\ Fifo!Init
  <2> SUFFICES ASSUME Init PROVE IndInv /\ Ring(k.mbx) /\ Contents = <<>>
    BY DEF Fifo!Init
  <2>1. k.mbx.first = 0 /\ k.mbx.last = 0 /\ k.mbx.count = 0
    BY DEF Init, Start
  <2>2. Ring(k.mbx)
    BY <2>1, RtxAssumption DEF Ring, Slot
  <2>3. Contents = <<>>
    BY <2>1 DEF Contents
  <2> QED BY <2>2, <2>3, InitHolds
<1>2. IndInv /\ Ring(k.mbx) /\ [Next]_vars =>
          IndInv' /\ Ring(k.mbx)' /\ [Fifo!Next]_Contents
  <2> SUFFICES ASSUME IndInv, Ring(k.mbx), [Next]_vars
               PROVE  IndInv' /\ Ring(k.mbx)' /\ [Fifo!Next]_Contents
    OBVIOUS
  <2>1. IndInv' /\ Mails
    BY KernelStep
  <2>2. PICK a, b : a = k.mbx /\ b = k'.mbx
    OBVIOUS
  <2>3. a \in Mailboxes /\ b \in Mailboxes
    BY <2>1, <2>2 DEF IndInv, Sound, Fit, Kernels
  <2>4. PICK q, r : q = Contents /\ r = Contents'
    OBVIOUS
  <2>5. /\ q = [i \in 1 .. a.count |-> a.msg[(a.last + i - 1) % MbxSize]]
        /\ r = [i \in 1 .. b.count |-> b.msg[(b.last + i - 1) % MbxSize]]
    BY <2>2, <2>4 DEF Contents
  <2>6. Held(a, q) /\ Held(b, r)
    <3>1. \A x : x = [i \in 1 .. a.count |-> a.msg[(a.last + i - 1) % MbxSize]] => Held(a, x)
      BY <2>3, InRing
    <3>2. \A x : x = [i \in 1 .. b.count |-> b.msg[(b.last + i - 1) % MbxSize]] => Held(b, x)
      BY <2>3, InRing
    <3> QED BY <2>5, <3>1, <3>2
  <2>7. /\ Fed(a, b) => Ring(b) /\ IsPrefix(q, r) /\ Len(r) <= MbxSize
        /\ Fetched(a, b) =>
               Ring(b) /\ q # <<>> /\ IsPrefix(Tail(q), r) /\ Len(r) <= MbxSize
    BY <2>2, <2>3, <2>6, RingSteps
  <2>8. Ring(b) /\ (Fifo!Put \/ Fifo!Take)
    <3>1. \A x, y : Fifo!IsPrefix(x, y) <=> IsPrefix(x, y)
      BY DEF Fifo!IsPrefix, IsPrefix
    <3> QED BY <2>1, <2>2, <2>4, <2>7, <3>1 DEF Mails, Fifo!Put, Fifo!Take
  <2>9. Ring(k.mbx)'
    BY <2>2, <2>8 DEF Ring
  <2> QED BY <2>1, <2>8, <2>9 DEF Fifo!Next
<1> QED BY <1>1, <1>2, PTL DEF Spec, MailboxIsFifo, Fifo!Spec
=============================================================================
