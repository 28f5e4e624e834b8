-------------------------- MODULE RainGaugeProofs --------------------------
(***************************************************************************)
(* For every timer width, hold-off time and refresh period that satisfy    *)
(* TimingAssumption, and wherever the edge interrupt cuts into a sample:   *)
(* the rain gauge refuses no tip that comes after the hold-off and reports *)
(* none twice.                                                             *)
(***************************************************************************)
EXTENDS RainGauge, TLAPS

-----------------------------------------------------------------------------
(***************************************************************************)
(* Subtraction of unsigned timer readings, for every width of the timer.   *)
(***************************************************************************)

\* The difference of two readings of the timer is a reading of the timer.
LEMMA MinusType ==
    ASSUME NEW a \in Time, NEW b \in Time
    PROVE  Minus(a, b) \in Time
  BY TimingAssumption DEF Minus, Time

\* While the difference is below Wrap - 1, a tick of the timer adds one to it.
LEMMA MinusTick ==
    ASSUME NEW a \in Time, NEW b \in Time, Minus(a, b) < Wrap - 1,
           NEW c, c = IF a = Wrap - 1 THEN 0 ELSE a + 1
    PROVE  c \in Time /\ Minus(c, b) = Minus(a, b) + 1
  BY TimingAssumption DEF Minus, Time

\* The time that InitLastFallingEdgeTime(b) stores, seen from a later time a,
\* lies IgnoreTime further back than b does.
LEMMA MinusInit ==
    ASSUME NEW a \in Time, NEW b \in Time, Minus(a, b) < Wrap - IgnoreTime
    PROVE  /\ Minus(b, IgnoreTime) \in Time
           /\ Minus(a, Minus(b, IgnoreTime)) = Minus(a, b) + IgnoreTime
  BY TimingAssumption DEF Minus, Time

\* If c lies at most IgnoreTime before b, and b before a by less than the rest
\* of the timer's range, the way from c to a is the sum of the two.
LEMMA MinusSplit ==
    ASSUME NEW a \in Time, NEW b \in Time, NEW c \in Time,
           Minus(b, c) <= IgnoreTime, Minus(a, b) < Wrap - IgnoreTime
    PROVE  Minus(a, c) = Minus(a, b) + Minus(b, c)
  BY TimingAssumption DEF Minus, Time

-----------------------------------------------------------------------------
\* The constructor establishes the invariant.
LEMMA InitIndInv == Init => IndInv
<1> SUFFICES ASSUME Init PROVE IndInv
  OBVIOUS
<1>1. 0 \in Time /\ Minus(0, 0) = 0
  BY TimingAssumption DEF Time, Minus
<1>2. last \in Time /\ Minus(timer, last) = IgnoreTime
  BY <1>1, MinusInit, TimingAssumption
  DEF Init, CounterInit, InitLastFallingEdgeTime
<1>3. TypeOK
  BY <1>1, <1>2, TimingAssumption DEF Init, CounterInit, TypeOK, CounterTypeOK
<1>4. StampRecent /\ NowRecent /\ StampNotYounger /\ SampledOnce
  BY <1>2, TimingAssumption
  DEF StampRecent, NowRecent, StampNotYounger, SampledOnce, Init, CounterInit,
      TimeSinceLastFallingEdge
<1> QED
  BY <1>3, <1>4 DEF IndInv

\* Every step keeps it, wherever the main thread is in its sample.
LEMMA NextIndInv == IndInv /\ [Next]_vars => IndInv'
<1> SUFFICES ASSUME IndInv, [Next]_vars PROVE IndInv'
  OBVIOUS
<1> DEFINE since == Minus(timer, last)
           ago == Minus(timer, now)
<1>1. /\ timer \in Time /\ last \in Time /\ now \in Time
      /\ since \in Time /\ ago \in Time /\ lag \in 0 .. RefreshPeriod
      /\ since <= IgnoreTime + lag
      /\ pc \in {"test", "init"} => ago <= lag
      /\ since >= IgnoreTime \/ since >= age
  BY MinusType
  DEF IndInv, TypeOK, CounterTypeOK, StampRecent, NowRecent, StampNotYounger,
      TimeSinceLastFallingEdge
<1>2. CASE Edge
  <2>1. CASE since >= IgnoreTime
    <3>1. /\ last' = timer /\ UNCHANGED <<timer, lag, pc, now, rain, reported>>
          /\ age' = 0 /\ count' = count + 1 /\ edges' = edges + 1
          /\ edges < MaxEdges
      BY <1>2, <2>1 DEF Edge, FallingEdgeISR, TimeSinceLastFallingEdge
    <3>2. Minus(timer', last') = 0
      BY <1>1, <3>1, TimingAssumption DEF Minus, Time
    <3>3. TypeOK'
      BY <1>1, <3>1, TimingAssumption DEF IndInv, TypeOK, CounterTypeOK
    <3>4. StampRecent' /\ NowRecent' /\ StampNotYounger'
      BY <1>1, <3>1, <3>2, TimingAssumption
      DEF StampRecent, NowRecent, StampNotYounger, TimeSinceLastFallingEdge
    <3>5. SampledOnce'
      BY <3>1, TimingAssumption DEF IndInv, SampledOnce, TypeOK, CounterTypeOK
    <3> QED
      BY <3>3, <3>4, <3>5 DEF IndInv
  <2>2. CASE ~(since >= IgnoreTime)
    <3>1. UNCHANGED vars
      BY <1>2, <2>2
      DEF Edge, FallingEdgeISR, TimeSinceLastFallingEdge, counterVars, vars
    <3> QED
      BY <3>1
      DEF IndInv, TypeOK, CounterTypeOK, StampRecent, NowRecent,
          StampNotYounger, SampledOnce, TimeSinceLastFallingEdge, vars,
          counterVars
  <2> QED
    BY <2>1, <2>2
<1>3. CASE Time1us
  <2>1. /\ lag < RefreshPeriod /\ lag' = lag + 1
        /\ timer' = IF timer = Wrap - 1 THEN 0 ELSE timer + 1
        /\ age' = IF age < Wrap THEN age + 1 ELSE age
        /\ UNCHANGED <<last, count, edges, pc, now, rain, reported>>
    BY <1>3 DEF Time1us, Tick
  <2>2. since < Wrap - 1
    BY <1>1, <2>1, TimingAssumption DEF Time
  <2>3. timer' \in Time /\ Minus(timer', last') = since + 1
    BY <1>1, <2>1, <2>2, MinusTick
  <2>4. TypeOK'
    BY <2>1, <2>3, TimingAssumption DEF IndInv, TypeOK, CounterTypeOK
  <2>5. StampRecent' /\ StampNotYounger'
    BY <1>1, <2>1, <2>2, <2>3, TimingAssumption
    DEF StampRecent, StampNotYounger, TimeSinceLastFallingEdge, IndInv, TypeOK,
        CounterTypeOK, Time
  <2>6. NowRecent'
    <3> SUFFICES ASSUME pc \in {"test", "init"}
                 PROVE  Minus(timer', now') <= lag'
      BY <2>1 DEF NowRecent
    <3>1. ago < Wrap - 1
      BY <1>1, <2>1, TimingAssumption DEF Time
    <3>2. Minus(timer', now') = ago + 1
      BY <1>1, <2>1, <3>1, MinusTick
    <3> QED
      BY <1>1, <2>1, <3>2 DEF Time
  <2>7. SampledOnce'
    BY <2>1 DEF IndInv, SampledOnce
  <2> QED
    BY <2>4, <2>5, <2>6, <2>7 DEF IndInv
<1>4. CASE RefreshRead
  <2>1. Minus(timer, timer) = 0
    BY <1>1, TimingAssumption DEF Minus, Time
  <2> QED
    BY <1>1, <1>4, <2>1
    DEF RefreshRead, counterVars, IndInv, TypeOK, CounterTypeOK, StampRecent,
        NowRecent, StampNotYounger, SampledOnce, TimeSinceLastFallingEdge
<1>5. CASE RefreshTest
  <2>1. CASE Minus(now, last) > IgnoreTime
    BY <1>1, <1>5, <2>1
    DEF RefreshTest, IndInv, TypeOK, CounterTypeOK, StampRecent,
        NowRecent, StampNotYounger, SampledOnce, TimeSinceLastFallingEdge
  <2>2. CASE ~(Minus(now, last) > IgnoreTime)
    <3>1. /\ pc = "test" /\ pc' = "load" /\ lag' = ago
          /\ UNCHANGED <<timer, last, count, edges, age, now, rain, reported>>
      BY <1>5, <2>2 DEF RefreshTest, RefreshDone, TimeSinceLastFallingEdge
    <3>2. ago <= lag /\ ago < Wrap - IgnoreTime
      BY <1>1, <3>1, TimingAssumption DEF Time
    <3>3. Minus(now, last) \in Nat /\ Minus(now, last) <= IgnoreTime
      BY <1>1, <2>2, MinusType, TimingAssumption DEF Time
    <3>4. ago \in 0 .. RefreshPeriod
      BY <1>1, <3>2, TimingAssumption DEF Time
    <3>5. TypeOK'
      BY <3>1, <3>4 DEF IndInv, TypeOK, CounterTypeOK
    <3>6. since = ago + Minus(now, last)
      BY <1>1, <3>2, <3>3, MinusSplit
    <3>7. StampRecent' /\ NowRecent' /\ StampNotYounger'
      BY <1>1, <3>1, <3>3, <3>4, <3>6, TimingAssumption
      DEF StampRecent, NowRecent, StampNotYounger, TimeSinceLastFallingEdge
    <3>8. SampledOnce'
      BY <3>1 DEF IndInv, SampledOnce
    <3> QED
      BY <3>5, <3>7, <3>8 DEF IndInv
  <2> QED
    BY <2>1, <2>2
<1>6. CASE RefreshInit
  <2>1. /\ pc = "init" /\ pc' = "load" /\ lag' = ago
        /\ last' = Minus(now, IgnoreTime)
        /\ UNCHANGED <<timer, count, edges, age, now, rain, reported>>
    BY <1>6 DEF RefreshInit, RefreshDone, InitLastFallingEdgeTime
  <2>2. ago <= lag /\ ago < Wrap - IgnoreTime /\ ago \in 0 .. RefreshPeriod
    BY <1>1, <2>1, TimingAssumption DEF Time
  <2>3. last' \in Time /\ Minus(timer', last') = ago + IgnoreTime
    BY <1>1, <2>1, <2>2, MinusInit
  <2>4. TypeOK'
    BY <2>1, <2>2, <2>3 DEF IndInv, TypeOK, CounterTypeOK
  <2>5. StampRecent' /\ NowRecent' /\ StampNotYounger'
    BY <2>1, <2>2, <2>3, TimingAssumption
    DEF StampRecent, NowRecent, StampNotYounger, TimeSinceLastFallingEdge
  <2>6. SampledOnce'
    BY <2>1 DEF IndInv, SampledOnce
  <2> QED
    BY <2>4, <2>5, <2>6 DEF IndInv
<1>7. CASE LoadCount
  BY <1>7
  DEF LoadCount, counterVars, IndInv, TypeOK, CounterTypeOK, StampRecent,
      NowRecent, StampNotYounger, SampledOnce, TimeSinceLastFallingEdge
<1>8. CASE Reset
  <2>1. 0 \in Time
    BY TimingAssumption DEF Time
  <2> QED
    BY <1>1, <1>8, <2>1, TimingAssumption
    DEF Reset, ZeroCount, IndInv, TypeOK, CounterTypeOK, StampRecent,
        NowRecent, StampNotYounger, SampledOnce, TimeSinceLastFallingEdge
<1>9. CASE UNCHANGED vars
  BY <1>9
  DEF vars, counterVars, IndInv, TypeOK, CounterTypeOK, StampRecent,
      NowRecent, StampNotYounger, SampledOnce, TimeSinceLastFallingEdge
<1> QED
  BY <1>2, <1>3, <1>4, <1>5, <1>6, <1>7, <1>8, <1>9 DEF Next, Sample

\* IndInv is an invariant of the rain gauge and of the main thread that
\* samples it (main.cpp:256-257).
THEOREM IndInvHolds == Spec => []IndInv
  BY InitIndInv, NextIndInv, PTL DEF Spec

\* The interrupt's test accepts every tip that comes after the hold-off, even
\* when it cuts RefreshTimers in two (DebouncedFallingEdgeCounter.cpp:91-100).
THEOREM EdgesHonouredHolds == Spec => []EdgesHonoured
<1>1. ASSUME IndInv PROVE EdgesHonoured
  <2>1. /\ TimeSinceLastFallingEdge(timer) \in Nat
        /\ age \in Nat
        /\ IgnoreTime \in Nat
    BY <1>1, MinusType, TimingAssumption
    DEF IndInv, TypeOK, CounterTypeOK, TimeSinceLastFallingEdge, Time
  <2> QED
    BY <1>1, <2>1 DEF IndInv, StampNotYounger, EdgesHonoured
<1> QED
  BY <1>1, IndInvHolds, PTL

\* GetRainfall() and Reset() never report one tip in two samples.
THEOREM NoTipReportedTwiceHolds == Spec => []NoTipReportedTwice
<1>1. IndInv => NoTipReportedTwice
  BY TimingAssumption
  DEF IndInv, TypeOK, CounterTypeOK, SampledOnce, NoTipReportedTwice
<1> QED
  BY <1>1, IndInvHolds, PTL
=============================================================================
