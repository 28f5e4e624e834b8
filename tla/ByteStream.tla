----------------------------- MODULE ByteStream -----------------------------
(***************************************************************************)
(* What a TCP connection promises each of its applications: the units one   *)
(* side reads are the units the other side wrote, in that order, each once, *)
(* and the end is read only behind the last of them.  Units are numbered in *)
(* the order they are written: sent is how many there are, got what was     *)
(* read.  A connection may break off: the rest may then never be read, and  *)
(* the reader may be told that this is the end.                             *)
(***************************************************************************)
EXTENDS Naturals, Sequences

VARIABLES sent, done, got, ended, broken

vars == <<sent, done, got, ended, broken>>

Init == sent = 0 /\ ~ done /\ got = <<>> /\ ~ ended /\ ~ broken

Write == /\ ~ done
         /\ sent' > sent
         /\ UNCHANGED <<done, got, ended, broken>>

Close == ~ done /\ done' = TRUE /\ UNCHANGED <<sent, got, ended, broken>>

Read == /\ ~ ended
        /\ \E n \in Len(got) + 1 .. sent : got' = [i \in 1 .. n |-> i]
        /\ UNCHANGED <<sent, done, ended, broken>>

ReadEnd == /\ ~ ended
           /\ broken \/ (done /\ Len(got) = sent)
           /\ ended' = TRUE
           /\ UNCHANGED <<sent, done, got, broken>>

Break == ~ broken /\ broken' = TRUE /\ UNCHANGED <<sent, done, got, ended>>

Next == Write \/ Close \/ Read \/ ReadEnd \/ Break

Spec == Init /\ [][Next]_vars
=============================================================================
