---------------------------- MODULE BoundedFifo ----------------------------
(***************************************************************************)
(* What a message queue promises: messages leave in the order in which     *)
(* they came, none twice, none skipped, and never more than Size wait.     *)
(* One interrupt may bring several.                                        *)
(***************************************************************************)
EXTENDS Naturals, Sequences, SequencesExt

CONSTANT Size

VARIABLE queue

Init == queue = <<>>

Put == IsPrefix(queue, queue') /\ Len(queue') <= Size

\* The oldest message is taken; a sender that waited may put its own.
Take == queue # <<>> /\ IsPrefix(Tail(queue), queue') /\ Len(queue') <= Size

Next == Put \/ Take

Spec == Init /\ [][Next]_queue
=============================================================================
