-------------------------- MODULE HoldOffCounter ---------------------------
(***************************************************************************)
(* The promise of a debounced counter, without timers: an edge is counted  *)
(* exactly when IgnoreTime has passed since the last edge that was, and    *)
(* the count is taken whole.                                               *)
(***************************************************************************)
EXTENDS Naturals

CONSTANT IgnoreTime

VARIABLES age, count

Init == age = IgnoreTime /\ count = 0

\* An edge outside the hold-off window is counted and opens a new window;
\* an edge inside it changes nothing.
Edge == age >= IgnoreTime /\ count' = count + 1 /\ age' = 0

Elapse == age' = age + 1 /\ UNCHANGED count

Take == count' = 0 /\ UNCHANGED age

Next == Edge \/ Elapse \/ Take

Spec == Init /\ [][Next]_<<age, count>>
=============================================================================
