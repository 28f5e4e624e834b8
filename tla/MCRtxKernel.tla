---------------------------- MODULE MCRtxKernel -----------------------------
(***************************************************************************)
(* Three threads, two of them with the same priority, for the run of       *)
(* RtxKernel, and what they may be programmed to do.                       *)
(***************************************************************************)
EXTENDS RtxKernel

CONSTANTS high, mid, low, sem, mutex, queue, timer, beat, flag, note, other

Program(h, m, l, i) == high :> h @@ mid :> m @@ low :> l @@ Isrs :> i

MCPrograms ==
    {Program({sem, "delay"}, {sem, "delay", "yield"}, {sem}, {sem}),
     Program({mutex, "delay"}, {mutex}, {mutex, "prio"}, {}),
     Program({"get", "delay"}, {"put"}, {"put"}, {}),
     Program({"get"}, {}, {"put"}, {"put"}),
     Program({"wait", "delay"}, {"wait", "set"}, {"set", "yield"}, {"set"}),
     Program({"delay", sem}, {"end", "begin", sem}, {sem, "prio"}, {}),
     Program({"get"}, {timer, beat}, {}, {})}

MCBase == [t \in Tasks |-> IF t = high THEN 2 ELSE 1]
=============================================================================
