------------------------- MODULE AnemometerProofs --------------------------
(***************************************************************************)
(* For every timer width, hold-off time and refresh period that satisfy    *)
(* TimingAssumption: the wind speed counter debounces exactly, loses no    *)
(* revolution and implements HoldOffCounter.                               *)
(***************************************************************************)
EXTENDS Anemometer, TLAPS

-----------------------------------------------------------------------------
(***************************************************************************)
(* Subtraction of unsigned timer readings, for every width of the timer.   *)
(***************************************************************************)

\* The difference of two readings of the timer is a reading of the timer.
LEMMA MinusType ==
    ASSUME NEW a \in Time, NEW b \in Time
    PROVE  Minus(a, b) \in Time
  BY TimingAssumption DEF Minus, Time

\* While the difference is below Wrap - 1, a tick of the timer adds one to it.
LEMMA MinusTick ==
    ASSUME NEW a \in Time, NEW b \in Time, Minus(a, b) < Wrap - 1,
           NEW c, c = IF a = Wrap - 1 THEN 0 ELSE a + 1
    PROVE  c \in Time /\ Minus(c, b) = Minus(a, b) + 1
  BY TimingAssumption DEF Minus, Time

\* The time that InitLastFallingEdgeTime(b) stores, seen from a later time a,
\* lies IgnoreTime further back than b does.
LEMMA MinusInit ==
    ASSUME NEW a \in Time, NEW b \in Time, Minus(a, b) < Wrap - IgnoreTime
    PROVE  /\ Minus(b, IgnoreTime) \in Time
           /\ Minus(a, Minus(b, IgnoreTime)) = Minus(a, b) + IgnoreTime
  BY TimingAssumption DEF Minus, Time

\* If c lies at most IgnoreTime before b, and b before a by less than the rest
\* of the timer's range, the way from c to a is the sum of the two.
LEMMA MinusSplit ==
    ASSUME NEW a \in Time, NEW b \in Time, NEW c \in Time,
           Minus(b, c) <= IgnoreTime, Minus(a, b) < Wrap - IgnoreTime
    PROVE  Minus(a, c) = Minus(a, b) + Minus(b, c)
  BY TimingAssumption DEF Minus, Time

-----------------------------------------------------------------------------
\* The constructor establishes the invariant.
LEMMA InitIndInv == Init => IndInv
<1> SUFFICES ASSUME Init PROVE IndInv
  OBVIOUS
<1>1. 0 \in Time /\ Minus(0, 0) = 0
  BY TimingAssumption DEF Time, Minus
<1>2. last \in Time /\ TimeSinceLastFallingEdge(timer) = IgnoreTime
  BY <1>1, MinusInit, TimingAssumption
  DEF Init, CounterInit, TimeSinceLastFallingEdge, InitLastFallingEdgeTime
<1>3. TypeOK
  BY <1>1, <1>2, TimingAssumption DEF Init, CounterInit, TypeOK, CounterTypeOK
<1> QED
  BY <1>2, <1>3, TimingAssumption
  DEF IndInv, StampRecent, StampTrue, Init, CounterInit

\* Every step of the interrupts and of the main thread keeps it.
LEMMA NextIndInv == IndInv /\ [Next]_vars => IndInv'
<1> SUFFICES ASSUME IndInv, [Next]_vars PROVE IndInv'
  OBVIOUS
<1> DEFINE since == Minus(timer, last)
<1>1. /\ timer \in Time /\ last \in Time /\ since \in Time
      /\ since <= IgnoreTime + lag
      /\ since = age \/ (since >= IgnoreTime /\ age >= since)
  BY MinusType
  DEF IndInv, TypeOK, CounterTypeOK, StampRecent, StampTrue,
      TimeSinceLastFallingEdge
<1>2. CASE Edge
  <2>1. CASE since >= IgnoreTime
    <3>1. last' = timer /\ timer' = timer /\ age' = 0 /\ lag' = lag
      BY <1>2, <2>1 DEF Edge, FallingEdgeISR, TimeSinceLastFallingEdge
    <3>2. Minus(timer', last') = 0
      BY <1>1, <3>1, TimingAssumption DEF Minus, Time
    <3>3. TypeOK'
      BY <1>1, <1>2, <2>1, TimingAssumption
      DEF IndInv, TypeOK, CounterTypeOK, Edge, FallingEdgeISR,
          TimeSinceLastFallingEdge
    <3> QED
      BY <3>1, <3>2, <3>3, TimingAssumption
      DEF IndInv, StampRecent, StampTrue, TimeSinceLastFallingEdge, TypeOK,
          CounterTypeOK
  <2>2. CASE ~(since >= IgnoreTime)
    <3>1. UNCHANGED counterVars /\ UNCHANGED vars
      BY <1>2, <2>2
      DEF Edge, FallingEdgeISR, TimeSinceLastFallingEdge, counterVars, vars
    <3> QED
      BY <3>1
      DEF IndInv, TypeOK, CounterTypeOK, StampRecent, StampTrue,
          TimeSinceLastFallingEdge, vars, counterVars
  <2> QED
    BY <2>1, <2>2
<1>3. CASE Time1us
  <2>1. since < Wrap - 1
    BY <1>1, <1>3, TimingAssumption
    DEF Time1us, Tick, IndInv, TypeOK, CounterTypeOK, Time
  <2>2. timer' \in Time /\ Minus(timer', last') = since + 1
    BY <1>1, <1>3, <2>1, MinusTick DEF Time1us, Tick
  <2>3. TypeOK'
    BY <1>3, <2>2, TimingAssumption
    DEF IndInv, TypeOK, CounterTypeOK, Time1us, Tick
  <2>4. StampRecent'
    BY <1>1, <1>3, <2>2, TimingAssumption
    DEF StampRecent, TimeSinceLastFallingEdge, Time1us, Tick, IndInv, TypeOK,
        CounterTypeOK, Time
  <2>5. StampTrue'
    BY <1>1, <1>3, <2>1, <2>2, TimingAssumption
    DEF StampTrue, TimeSinceLastFallingEdge, Time1us, Tick, IndInv, TypeOK,
        CounterTypeOK, Time
  <2> QED
    BY <2>3, <2>4, <2>5 DEF IndInv
<1>4. CASE OneSecondTickerISR
  <2>1. CASE since > IgnoreTime
    <3>1. last' = Minus(timer, IgnoreTime) /\ timer' = timer
      BY <1>4, <2>1
      DEF OneSecondTickerISR, RefreshTimers, TimeSinceLastFallingEdge,
          InitLastFallingEdgeTime
    <3>2. Minus(timer, timer) = 0
      BY <1>1 DEF Minus, Time
    <3>3. last' \in Time /\ Minus(timer', last') = IgnoreTime
      BY <1>1, <3>1, <3>2, MinusInit, TimingAssumption
    <3> QED
      BY <1>1, <1>4, <2>1, <3>1, <3>3, TimingAssumption
      DEF OneSecondTickerISR, ZeroCount, IndInv, TypeOK, CounterTypeOK,
          StampRecent, StampTrue, TimeSinceLastFallingEdge, Time
  <2>2. CASE ~(since > IgnoreTime)
    <3>1. last' = last /\ timer' = timer
      BY <1>4, <2>2
      DEF OneSecondTickerISR, RefreshTimers, TimeSinceLastFallingEdge
    <3> QED
      BY <1>1, <1>4, <2>2, <3>1, TimingAssumption
      DEF OneSecondTickerISR, ZeroCount, IndInv, TypeOK, CounterTypeOK,
          StampRecent, StampTrue, TimeSinceLastFallingEdge, Time
  <2> QED
    BY <2>1, <2>2
<1>5. CASE ResetMaximumLoad \/ ResetMaximumStore \/ UNCHANGED vars
  BY <1>5
  DEF ResetMaximumLoad, ResetMaximumStore, vars, counterVars, IndInv, TypeOK,
      CounterTypeOK, StampRecent, StampTrue, TimeSinceLastFallingEdge
<1> QED
  BY <1>2, <1>3, <1>4, <1>5 DEF Next

\* IndInv is an invariant of the wind speed counter, for every width of the
\* timer: WeatherMeters/Anemometer.cpp over DebouncedFallingEdgeCounter.cpp.
THEOREM IndInvHolds == Spec => []IndInv
  BY InitIndInv, NextIndInv, PTL DEF Spec

\* What the invariant says of the test in the handler: it accepts an edge
\* exactly when the last counted one is IgnoreTime or more in the past.
LEMMA TestIsTrue ==
    ASSUME IndInv
    PROVE  TimeSinceLastFallingEdge(timer) >= IgnoreTime <=> age >= IgnoreTime
<1> DEFINE since == TimeSinceLastFallingEdge(timer)
<1>1. since \in Nat /\ age \in Nat /\ IgnoreTime \in Nat
  BY MinusType, TimingAssumption
  DEF IndInv, TypeOK, CounterTypeOK, TimeSinceLastFallingEdge, Time
<1>2. since = age \/ (since >= IgnoreTime /\ age >= since)
  BY DEF IndInv, StampTrue
<1>3. CASE since = age
  BY <1>3
<1>4. CASE since >= IgnoreTime /\ age >= since
  <2>1. age >= IgnoreTime
    BY <1>1, <1>4
  <2> QED
    BY <1>4, <2>1
<1> QED
  BY <1>2, <1>3, <1>4

\* The handler's test on wrapped readings (DebouncedFallingEdgeCounter.cpp:53)
\* accepts every edge that comes after the hold-off.
THEOREM EdgesHonouredHolds == Spec => []EdgesHonoured
<1>1. IndInv => EdgesHonoured
  BY TestIsTrue DEF EdgesHonoured
<1> QED
  BY <1>1, IndInvHolds, PTL

\* ... and refuses every edge that comes before its end.
THEOREM BouncesIgnoredHolds == Spec => []BouncesIgnored
<1>1. ASSUME IndInv PROVE BouncesIgnored
  <2>1. /\ TimeSinceLastFallingEdge(timer) \in Nat
        /\ age \in Nat
        /\ IgnoreTime \in Nat
    BY <1>1, MinusType, TimingAssumption
    DEF IndInv, TypeOK, CounterTypeOK, TimeSinceLastFallingEdge, Time
  <2> QED
    BY <1>1, <2>1, TestIsTrue DEF BouncesIgnored
<1> QED
  BY <1>1, IndInvHolds, PTL

\* No revolution is lost or counted twice between the edge interrupt and
\* OneSecondTickerISR (Anemometer.cpp:40-49).
THEOREM RevolutionsConservedHolds == Spec => []RevolutionsConserved
<1>1. Init => RevolutionsConserved
  BY DEF Init, CounterInit, RevolutionsConserved
<1>2. IndInv /\ RevolutionsConserved /\ [Next]_vars => RevolutionsConserved'
  <2> SUFFICES ASSUME IndInv, RevolutionsConserved, [Next]_vars
               PROVE  RevolutionsConserved'
    OBVIOUS
  <2> USE DEF IndInv, TypeOK, CounterTypeOK, RevolutionsConserved
  <2>1. CASE Edge
    BY <2>1, TimingAssumption DEF Edge, FallingEdgeISR
  <2>2. CASE Time1us
    BY <2>2 DEF Time1us, Tick
  <2>3. CASE OneSecondTickerISR
    BY <2>3, TimingAssumption DEF OneSecondTickerISR, ZeroCount
  <2>4. CASE ResetMaximumLoad \/ ResetMaximumStore \/ UNCHANGED vars
    BY <2>4 DEF ResetMaximumLoad, ResetMaximumStore, vars, counterVars
  <2> QED
    BY <2>1, <2>2, <2>3, <2>4 DEF Next
<1> QED
  BY <1>1, <1>2, IndInvHolds, PTL DEF Spec

-----------------------------------------------------------------------------
\* The counter on a wrapping timer implements the counter on true time: each
\* of its steps is a step of HoldOffCounter or leaves age and count alone.
THEOREM ImplementsHoldOffHolds == Spec => ImplementsHoldOff
<1>1. Init => Ideal!Init
  BY DEF Init, CounterInit, Ideal!Init
<1>2. IndInv /\ [Next]_vars => [Ideal!Next]_<<age, count>>
  <2> SUFFICES ASSUME IndInv, [Next]_vars
               PROVE  [Ideal!Next]_<<age, count>>
    OBVIOUS
  <2>1. TimeSinceLastFallingEdge(timer) >= IgnoreTime => age >= IgnoreTime
    BY TestIsTrue
  <2>2. CASE Edge
    BY <2>1, <2>2 DEF Edge, FallingEdgeISR, Ideal!Next, Ideal!Edge
  <2>3. CASE Time1us
    BY <2>3 DEF Time1us, Tick, Ideal!Next, Ideal!Elapse
  <2>4. CASE OneSecondTickerISR
    BY <2>4 DEF OneSecondTickerISR, ZeroCount, Ideal!Next, Ideal!Take
  <2>5. CASE ResetMaximumLoad \/ ResetMaximumStore \/ UNCHANGED vars
    BY <2>5 DEF ResetMaximumLoad, ResetMaximumStore, vars, counterVars
  <2> QED
    BY <2>2, <2>3, <2>4, <2>5 DEF Next
<1> QED
  BY <1>1, <1>2, IndInvHolds, PTL DEF Spec, ImplementsHoldOff, Ideal!Spec
=============================================================================
