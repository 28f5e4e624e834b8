---------------------------- MODULE EdgeCounter ----------------------------
(***************************************************************************)
(* CDebouncedFallingEdgeCounter (WeatherMeters/DebouncedFallingEdge-       *)
(* Counter.cpp): an interrupt handler counts the falling edges of a reed   *)
(* switch and ignores an edge that comes less than m_IgnoreTimeForDebounce *)
(* microseconds after the last one it counted.  Times are readings of a    *)
(* 32-bit microsecond timer, so they live in 0 .. Wrap-1 and are           *)
(* subtracted modulo Wrap.                                                 *)
(*                                                                         *)
(* This module holds the object's state, its interrupt handler and the     *)
(* passing of time.  RainGauge and Anemometer extend it with the code that *)
(* reads and zeroes the count: from the main thread, where the interrupt   *)
(* can come between any two statements, and from a ticker interrupt, where *)
(* it cannot.                                                              *)
(***************************************************************************)
EXTENDS Naturals

CONSTANTS
    Wrap,           \* 2^32, the modulus of unsigned int and of read_us()
    IgnoreTime,     \* m_IgnoreTimeForDebounce, 1000 in this program
    RefreshPeriod,  \* longest time between two completed calls of RefreshTimers
    MaxEdges        \* bound: number of edges counted in a behaviour

(***************************************************************************)
(* The counter must be refreshed before the timer wraps.  In the program   *)
(* the refresh comes every second (Anemometer) or with every sweep over    *)
(* the sensors (RainGauge), and Wrap is over 71 minutes.                   *)
(***************************************************************************)
ASSUME TimingAssumption ==
    /\ Wrap \in Nat
    /\ IgnoreTime \in Nat \ {0}
    /\ RefreshPeriod \in Nat \ {0}
    /\ MaxEdges \in Nat
    /\ IgnoreTime + RefreshPeriod < Wrap

VARIABLES
    timer,      \* what m_Timer.read_us() returns now, as an unsigned int
    last,       \* m_LastFallingEdgeTime
    count,      \* m_FallingEdgeCount
    edges,      \* number of edges counted since the start (not in the code)
    age,        \* true time since the last counted edge (not in the code)
    lag         \* true time since the last completed refresh (not in the code)

counterVars == <<timer, last, count, edges, age, lag>>

Time == 0 .. Wrap - 1

\* a - b on unsigned ints.
Minus(a, b) == IF a >= b THEN a - b ELSE (a + Wrap) - b

TimeSinceLastFallingEdge(now) == Minus(now, last)

\* Mutant: the hold-off time is not taken off.
InitToNow(now) == now

\* The value InitLastFallingEdgeTime(now) stores.
InitLastFallingEdgeTime(now) == Minus(now, IgnoreTime)

\* The constructor starts the timer, which reads 0, and opens the hold-off
\* window: the first edge is counted whenever it comes.
CounterInit ==
    /\ timer = 0
    /\ last = InitLastFallingEdgeTime(0)
    /\ count = 0
    /\ edges = 0
    /\ age = IgnoreTime
    /\ lag = 0

\* Mutant: the handler does not store the time of the edge.
ForgetfulISR ==
    /\ edges < MaxEdges
    /\ TimeSinceLastFallingEdge(timer) >= IgnoreTime
    /\ count' = count + 1
    /\ edges' = edges + 1
    /\ age' = 0
    /\ UNCHANGED <<timer, last, lag>>

\* The interrupt handler, run to its end: it is never preempted, neither by
\* the main thread nor by the tickers, whose interrupts have its priority.
FallingEdgeISR ==
    /\ edges < MaxEdges
    /\ IF TimeSinceLastFallingEdge(timer) >= IgnoreTime
       THEN /\ count' = count + 1
            /\ last' = timer
            /\ edges' = edges + 1
            /\ age' = 0
       ELSE UNCHANGED <<count, last, edges, age>>
    /\ UNCHANGED <<timer, lag>>

\* One microsecond passes.  RefreshTimers is called often enough.  An age of
\* Wrap stands for every longer one: no test tells them apart.
Tick ==
    /\ lag < RefreshPeriod
    /\ timer' = IF timer = Wrap - 1 THEN 0 ELSE timer + 1
    /\ age' = IF age < Wrap THEN age + 1 ELSE age
    /\ lag' = lag + 1
    /\ UNCHANGED <<last, count, edges>>

ZeroCount == count' = 0

CounterTypeOK ==
    /\ timer \in Time
    /\ last \in Time
    /\ count \in Nat
    /\ edges \in 0 .. MaxEdges
    /\ age \in 0 .. Wrap
    /\ lag \in 0 .. RefreshPeriod

-----------------------------------------------------------------------------
(***************************************************************************)
(* The two halves of a debouncer's contract, in true time rather than in   *)
(* the timer's wrapped readings.                                           *)
(***************************************************************************)

\* No edge is lost: an edge that comes IgnoreTime or more after the last
\* counted one passes the handler's test, however often the timer wrapped.
EdgesHonoured ==
    age >= IgnoreTime => TimeSinceLastFallingEdge(timer) >= IgnoreTime

\* No bounce is counted: an edge that comes sooner fails the handler's test.
BouncesIgnored ==
    age < IgnoreTime => TimeSinceLastFallingEdge(timer) < IgnoreTime
=============================================================================
