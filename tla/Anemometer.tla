---------------------------- MODULE Anemometer -----------------------------
(***************************************************************************)
(* CAnemometer (WeatherMeters/Anemometer.cpp): the wind speed sensor.  A   *)
(* ticker interrupt takes the counter's count every second, keeps it as    *)
(* the current wind speed and raises the maximum; the main thread reads    *)
(* both and may reset the maximum.  Speeds are counts per second: the      *)
(* factor 2.4 km/h is left out.                                            *)
(***************************************************************************)
EXTENDS EdgeCounter

VARIABLES
    current,    \* m_CurrentWindSpeed
    maximum,    \* m_MaximumWindSpeed
    mainPc,     \* the main thread: "idle", or "store" inside ResetMaximumWindSpeed
    loaded,     \* the value ResetMaximumWindSpeed has loaded
    summed      \* sum of the counts taken by the ticker (not in the code)

vars == <<counterVars, current, maximum, mainPc, loaded, summed>>

Init ==
    /\ CounterInit
    /\ current = 0
    /\ maximum = 0
    /\ mainPc = "idle"
    /\ loaded = 0
    /\ summed = 0

Edge ==
    /\ FallingEdgeISR
    /\ UNCHANGED <<current, maximum, mainPc, loaded, summed>>

Time1us ==
    /\ Tick
    /\ UNCHANGED <<current, maximum, mainPc, loaded, summed>>

\* Mutant: the stored time is moved without the test.
RefreshAlways == last' = InitLastFallingEdgeTime(timer)

\* RefreshTimers without a preemption between its two statements.
RefreshTimers ==
    last' = IF TimeSinceLastFallingEdge(timer) > IgnoreTime
            THEN InitLastFallingEdgeTime(timer)
            ELSE last

\* Mutant: the count is read and not zeroed.
TickerKeepsCount ==
    /\ lag = RefreshPeriod
    /\ RefreshTimers
    /\ current' = count
    /\ maximum' = IF count > maximum THEN count ELSE maximum
    /\ summed' = summed + count
    /\ lag' = 0
    /\ UNCHANGED <<timer, count, edges, age, mainPc, loaded>>

\* The ticker fires once every RefreshPeriod (one second) and runs to its end.
OneSecondTickerISR ==
    /\ lag = RefreshPeriod
    /\ RefreshTimers
    /\ current' = count
    /\ ZeroCount
    /\ maximum' = IF count > maximum THEN count ELSE maximum
    /\ summed' = summed + count
    /\ lag' = 0
    /\ UNCHANGED <<timer, edges, age, mainPc, loaded>>

\* ResetMaximumWindSpeed copies one float to another in the main thread: a
\* load and a store, with room for the ticker between them.
ResetMaximumLoad ==
    /\ mainPc = "idle"
    /\ mainPc' = "store"
    /\ loaded' = current
    /\ UNCHANGED <<counterVars, current, maximum, summed>>

ResetMaximumStore ==
    /\ mainPc = "store"
    /\ mainPc' = "idle"
    /\ maximum' = loaded
    /\ loaded' = 0
    /\ UNCHANGED <<counterVars, current, summed>>

Next ==
    \/ Edge
    \/ Time1us
    \/ OneSecondTickerISR
    \/ ResetMaximumLoad
    \/ ResetMaximumStore

Spec == Init /\ [][Next]_vars

TypeOK ==
    /\ CounterTypeOK
    /\ current \in Nat
    /\ maximum \in Nat
    /\ mainPc \in {"idle", "store"}
    /\ loaded \in Nat
    /\ summed \in Nat

-----------------------------------------------------------------------------
(***************************************************************************)
(* The inductive invariant behind the debouncer's contract.                *)
(***************************************************************************)

\* The stored time is never so old that the timer can lap it.
StampRecent == TimeSinceLastFallingEdge(timer) <= IgnoreTime + lag

\* The stored time is the last counted edge or, once the hold-off is over,
\* a later moment that a refresh moved it to.
StampTrue ==
    \/ TimeSinceLastFallingEdge(timer) = age
    \/ /\ TimeSinceLastFallingEdge(timer) >= IgnoreTime
       /\ age >= TimeSinceLastFallingEdge(timer)

IndInv == TypeOK /\ StampRecent /\ StampTrue

\* Every counted revolution is in exactly one of the one-second samples or
\* still in the counter: GetCountAndZero, which reads the count and then
\* stores zero, loses none because the ticker interrupt is not preempted.
RevolutionsConserved == edges = summed + count

-----------------------------------------------------------------------------
(***************************************************************************)
(* What the counter promises its user: HoldOffCounter, in which time never *)
(* wraps and no stored time is ever moved.                                 *)
(***************************************************************************)
Ideal == INSTANCE HoldOffCounter WITH age <- age, count <- count

ImplementsHoldOff == Ideal!Spec
=============================================================================
