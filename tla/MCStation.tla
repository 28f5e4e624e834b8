----------------------------- MODULE MCStation ------------------------------
(***************************************************************************)
(* Configurations and topics of the runs of Station.                       *)
(***************************************************************************)
EXTENDS Station

Sensor(type, topic, device) ==
    [type |-> type, topic |-> topic, device |-> device, complete |-> TRUE]

Config(list) == [found |-> TRUE, syntax |-> TRUE, server |-> TRUE, sensors |-> list]

Lamp == Sensor("dOut", "lamp", 0)
Lamp1 == Sensor("dOut", "lamp1", 0)
Air == Sensor("temperature", "air", 3)

\* One usable file, and one for each way in which a file is not.
Working == Config(<<Lamp, Air>>)
Broken == {[Working EXCEPT !.found = FALSE], [Working EXCEPT !.syntax = FALSE],
           [Working EXCEPT !.server = FALSE],
           [Working EXCEPT !.sensors[2].complete = FALSE],
           [Working EXCEPT !.sensors[2].type = "barometer"]}

\* A sensor and an output, and two outputs whose topics begin alike.
AllFiles == {Working, Config(<<Lamp, Lamp1>>)} \cup Broken
OneOutput == {Config(<<Lamp>>)}

Alike == {<<"lamp", "lamp1">>}
AlikeWithPayload == {<<"lamp", 1, "lamp1">>}

Texts == {Text(n, nul) : n \in {0, 1}, nul \in UserEnds \cup {TRUE}}
\* The devices are numbers of their own.
TextsAndDevices == Texts \cup {Text(3, TRUE)}
=============================================================================
