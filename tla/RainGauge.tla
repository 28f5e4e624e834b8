----------------------------- MODULE RainGauge -----------------------------
(***************************************************************************)
(* CRainGauge (WeatherMeters/RainGauge.h) as main.cpp samples it: the main *)
(* thread calls GetRainfall() and then Reset(), and the edge interrupt can *)
(* come between any two of their accesses to the counter.                  *)
(***************************************************************************)
EXTENDS EdgeCounter

VARIABLES
    pc,         \* the main thread's place in the sample
    now,        \* CurrentTime, the local variable of RefreshTimers
    rain,       \* the count GetRainfall returned
    reported    \* sum of the counts sampled (not in the code)

vars == <<counterVars, pc, now, rain, reported>>

Init ==
    /\ CounterInit
    /\ pc = "idle"
    /\ now = 0
    /\ rain = 0
    /\ reported = 0

Edge ==
    /\ FallingEdgeISR
    /\ UNCHANGED <<pc, now, rain, reported>>

Time1us ==
    /\ Tick
    /\ UNCHANGED <<pc, now, rain, reported>>

\* GetRainfall -> GetCount -> RefreshTimers: CurrentTime is read once ...
RefreshRead ==
    /\ pc = "idle"
    /\ pc' = "test"
    /\ now' = timer
    /\ UNCHANGED <<counterVars, rain, reported>>

\* The refresh is complete; the next one must come RefreshPeriod after the
\* time this one worked with.
RefreshDone == lag' = Minus(timer, now)

\* Mutant: the test that protects from overflow is never met.
RefreshTestFails ==
    /\ pc = "test"
    /\ pc' = "load"
    /\ RefreshDone
    /\ UNCHANGED <<timer, last, count, edges, age, now, rain, reported>>

\* ... compared with the stored time ...
RefreshTest ==
    /\ pc = "test"
    /\ IF TimeSinceLastFallingEdge(now) > IgnoreTime
       THEN pc' = "init" /\ UNCHANGED lag
       ELSE pc' = "load" /\ RefreshDone
    /\ UNCHANGED <<timer, last, count, edges, age, now, rain, reported>>

\* ... and the stored time moved, in a statement of its own.
RefreshInit ==
    /\ pc = "init"
    /\ pc' = "load"
    /\ last' = InitLastFallingEdgeTime(now)
    /\ RefreshDone
    /\ UNCHANGED <<timer, count, edges, age, now, rain, reported>>

LoadCount ==
    /\ pc = "load"
    /\ pc' = "reset"
    /\ rain' = count
    /\ UNCHANGED <<counterVars, now, reported>>

\* Mutant: Reset() does not zero the count.
ResetKeepsCount ==
    /\ pc = "reset"
    /\ pc' = "idle"
    /\ reported' = reported + rain
    /\ rain' = 0
    /\ now' = 0
    /\ UNCHANGED <<timer, last, count, edges, age, lag>>

\* Reset(), and the sample is published.
Reset ==
    /\ pc = "reset"
    /\ pc' = "idle"
    /\ ZeroCount
    /\ reported' = reported + rain
    /\ rain' = 0
    /\ now' = 0
    /\ UNCHANGED <<timer, last, edges, age, lag>>

Sample == RefreshRead \/ RefreshTest \/ RefreshInit \/ LoadCount \/ Reset

Next == Edge \/ Time1us \/ Sample

Spec == Init /\ [][Next]_vars

TypeOK ==
    /\ CounterTypeOK
    /\ pc \in {"idle", "test", "init", "load", "reset"}
    /\ now \in Time
    /\ rain \in Nat
    /\ reported \in Nat

-----------------------------------------------------------------------------
\* The stored time is never so old that the timer can lap it.
StampRecent == TimeSinceLastFallingEdge(timer) <= IgnoreTime + lag

\* The refresh works with a time no older than the previous refresh.
NowRecent == pc \in {"test", "init"} => Minus(timer, now) <= lag

\* While the stored time is inside the hold-off it is not younger than the
\* last counted edge: moving it may shorten the hold-off, never extend it.
StampNotYounger ==
    \/ TimeSinceLastFallingEdge(timer) >= IgnoreTime
    \/ TimeSinceLastFallingEdge(timer) >= age

\* What was sampled, and is not yet zeroed, is part of what was counted.
SampledOnce ==
    /\ reported + count <= edges
    /\ rain <= count

IndInv == TypeOK /\ StampRecent /\ NowRecent /\ StampNotYounger /\ SampledOnce

\* No tip of the bucket is in two samples, whenever the interrupt comes: the
\* zeroing of one sample never leaves a tip that the sample reported.
NoTipReportedTwice == reported + rain <= edges
=============================================================================
