------------------------------- MODULE MCEmac -------------------------------
(***************************************************************************)
(* Small instances of Emac: the thread of the stack sends alone, with the  *)
(* application (which calls dhcp_start and dhcp_release itself), and frames *)
(* arrive meanwhile or alone.                                              *)
(***************************************************************************)
EXTENDS Emac

OneSender == {[calls |-> [tcpip |-> Always], frames |-> 0]}

MCScenarios ==
    OneSender \cup
    {[calls |-> [tcpip |-> 1, main |-> 1], frames |-> 0],
     [calls |-> [tcpip |-> 1], frames |-> 1],
     [calls |-> [tcpip |-> 0], frames |-> Always]}
=============================================================================
