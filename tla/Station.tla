------------------------------ MODULE Station -------------------------------
(***************************************************************************)
(* main.cpp: the weather station.  main() reads the configuration, opens   *)
(* the link, connects the MQTT client, subscribes the outputs and then     *)
(* loops for ever: sweep over the sensors when the timer asked for it,     *)
(* yield to the client, wait.  It is composed with MQTTClient, whose calls *)
(* it makes and whose message callback is its messageArrived().            *)
(*                                                                         *)
(* What a sensor measures is abstracted to the device it was measured by;  *)
(* an output is the value of its pin.  A payload is the number that stands *)
(* first in it, which is 0 for text, and whether a '\0' ends it: the       *)
(* station ends its own with one, users need not.  The count of sweeps on  *)
(* the LEDs is left out.                                                   *)
(***************************************************************************)
EXTENDS MQTTClient

CONSTANTS
    Files,          \* configurations: what /local/config.txt may hold
    UserEnds,       \* whether users end a payload with a '\0': a subset of BOOLEAN
    Prefixes,       \* <<a, b>>: topic a is a proper prefix of topic b
    RunsOn          \* <<a, v, b>>: topic b is topic a followed by payload v

VARIABLES
    file,           \* the configuration of this station
    mainPc,         \* the main thread's place in main()
    led,            \* the code errorConfig() blinks, 0 outside it
    sensors,        \* typesObjects, topicsMQTT and objectsSensors, by position
    i,              \* the loops' index into sensors
    update,         \* the flag between timer_sensor() and the loop
    armed,          \* timeWind is attached
    pins,           \* pins[n]: the value of the DigitalOut at position n
    dht,            \* the device whose reading temperatura and humedad hold
    commanded       \* commanded[t]: the payloads users published on t (not in the code)

Sensors == [type : STRING, topic : Topics, device : Nat, complete : BOOLEAN]

mainVars == <<file, mainPc, led, sensors, i, update, armed, pins, dht, commanded>>
stationVars == <<vars, mainVars>>

NoReading == 0      \* temperatura and humedad before the first reading
NoDigit == 10
Text(n, nul) == [number |-> n, nul |-> nul]

KnownTypes == {"windspeed", "winddirection", "raingauge", "temperature",
               "humidity", "soilHumidity", "aIn", "dOut", "sonar"}

\* What a configuration holds; what the station and its users publish.
ASSUME StationAssumption ==
    /\ Files \subseteq [found : BOOLEAN, syntax : BOOLEAN, server : BOOLEAN,
                        sensors : Seq(Sensors)]
    /\ UserEnds \subseteq BOOLEAN
    /\ \A v \in {0, 1} : \A nul \in UserEnds \cup {TRUE} : Text(v, nul) \in Payloads
    /\ Text(NoReading, TRUE) \in Payloads
    /\ \A f \in Files : \A n \in DOMAIN f.sensors :
        Text(f.sensors[n].device, TRUE) \in Payloads

Positions == DOMAIN sensors
Outputs == {n \in Positions : sensors[n].type = "dOut"}

StationInit ==
    /\ BrokerInit /\ link = "down" /\ ClientInit
    /\ file \in Files
    /\ mainPc = "read" /\ led = 0
    /\ sensors = <<>> /\ i = 1
    /\ update = 0 /\ armed = FALSE
    /\ pins = <<>> /\ dht = NoReading
    /\ commanded = [t \in Topics |-> {}]

-----------------------------------------------------------------------------
\* errorConfig() blinks for ever.
ErrorConfig(code) == mainPc' = "error" /\ led' = code

Blink == mainPc = "error" /\ UNCHANGED stationVars

ReadFile ==
    /\ mainPc = "read"
    /\ IF file.found THEN mainPc' = "parse" /\ UNCHANGED led ELSE ErrorConfig(1)
    /\ UNCHANGED <<vars, file, sensors, i, update, armed, pins, dht, commanded>>

\* parse() stops at the first sensor it cannot use.
Unusable(s) == ~s.complete \/ s.type \notin KnownTypes

Parse ==
    /\ mainPc = "parse"
    /\ LET bad == {n \in DOMAIN file.sensors : Unusable(file.sensors[n])}
           first == CHOOSE n \in bad : \A m \in bad : n <= m
       IN  CASE ~file.syntax -> ErrorConfig(2) /\ UNCHANGED <<sensors, pins>>
             [] file.syntax /\ ~file.server ->
                    ErrorConfig(3) /\ UNCHANGED <<sensors, pins>>
             [] file.syntax /\ file.server /\ bad # {} ->
                    /\ ErrorConfig(IF file.sensors[first].complete THEN 5 ELSE 4)
                    /\ sensors' = SubSeq(file.sensors, 1, first - 1)
                    /\ pins' = [n \in 1 .. first - 1 |-> 0]
             [] OTHER ->
                    /\ mainPc' = "tcp"
                    /\ sensors' = file.sensors
                    /\ pins' = [n \in DOMAIN file.sensors |-> 0]
                    /\ UNCHANGED led
    /\ UNCHANGED <<vars, file, i, update, armed, dht, commanded>>

\* ipstack.connect(server, port)
TcpConnect ==
    /\ mainPc = "tcp"
    /\ \/ LinkOpened /\ mainPc' = "mqtt" /\ UNCHANGED led
       \/ UNCHANGED brokerVars /\ ErrorConfig(15)
    /\ UNCHANGED <<clientVars, file, sensors, i, update, armed, pins, dht, commanded>>

\* client.connect(data): a clean session, under a fixed name and password.
MqttConnect ==
    /\ mainPc = "mqtt"
    /\ CallConnect(TRUE)
    /\ mainPc' = "connecting"
    /\ UNCHANGED <<file, led, sensors, i, update, armed, pins, dht, commanded>>

MqttConnected ==
    /\ mainPc = "connecting"
    /\ pc = "idle"
    /\ IF result = "SUCCESS"
       THEN mainPc' = "subscribe" /\ UNCHANGED led
       ELSE ErrorConfig(15)
    /\ UNCHANGED <<vars, file, sensors, i, update, armed, pins, dht, commanded>>

\* subscribeTopics(): what subscribe returns is not looked at.  Then the timer
\* is attached and the loop begins.
SubscribeTopics ==
    /\ mainPc = "subscribe"
    /\ pc = "idle"
    /\ \/ i \in Outputs /\ CallSubscribe(sensors[i].topic)
          /\ i' = i + 1 /\ UNCHANGED <<mainPc, armed>>
       \/ i \in Positions \ Outputs /\ i' = i + 1 /\ UNCHANGED <<vars, mainPc, armed>>
       \/ /\ i \notin Positions
          /\ i' = 1 /\ armed' = TRUE /\ mainPc' = "loop"
          /\ UNCHANGED vars
    /\ UNCHANGED <<file, led, sensors, update, pins, dht, commanded>>

-----------------------------------------------------------------------------
\* timer_sensor(), an interrupt, attaches itself again.
TimerSensor ==
    /\ armed
    /\ update' = 1
    /\ UNCHANGED <<vars, file, mainPc, led, sensors, i, armed, pins, dht, commanded>>

\* The head of the loop.  An interrupt between the test and the assignment
\* asks for the sweep that is about to begin.
Loop ==
    /\ mainPc = "loop"
    /\ IF update = 1 THEN mainPc' = "sweep" ELSE mainPc' = "yield"
    /\ update' = 0
    /\ i' = 1
    /\ UNCHANGED <<vars, file, led, sensors, armed, pins, dht, commanded>>

\* sendMQTT(): a QoS 0 publish on a copy of a copy of the client.  The copy
\* shares the link; what publish does to its fields is lost.
SendMQTT(t, v) ==
    \/ /\ isconnected
       /\ t \notin LongTopics
       /\ link = "up" => Len(toServer) < Window
       /\ toServer' = IF link = "up" THEN Append(toServer, Publish(t, 0, 0, v))
                                     ELSE toServer
       /\ UNCHANGED <<link, toClient, offset, sessionVars, clientVars>>
    \/ UNCHANGED vars

\* What is published for a sensor.
Reading(s, pin, lastDht) ==
    CASE s.type = "dOut" -> pin
      [] s.type \in {"temperature", "humidity"} -> lastDht
      [] OTHER -> s.device

\* Mutant: the length of the payload does not count its '\0'.
UpdateUnended ==
    /\ mainPc = "sweep"
    /\ i \in Positions
    /\ LET s == sensors[i]
       IN  /\ \/ s.type \in {"temperature", "humidity"} /\ dht' = s.device
              \/ UNCHANGED dht
           /\ SendMQTT(s.topic, Text(Reading(s, pins[i], dht'), FALSE))
    /\ i' = i + 1
    /\ UNCHANGED <<file, mainPc, led, sensors, update, armed, pins, commanded>>

\* One pass of the loop in updateSensorData().  A DHT that cannot be read
\* leaves the global variables alone, and they are published all the same.
UpdateSensorData ==
    /\ mainPc = "sweep"
    /\ i \in Positions
    /\ LET s == sensors[i]
       IN  /\ \/ s.type \in {"temperature", "humidity"} /\ dht' = s.device
              \/ UNCHANGED dht
           /\ SendMQTT(s.topic, Text(Reading(s, pins[i], dht'), TRUE))
    /\ i' = i + 1
    /\ UNCHANGED <<file, mainPc, led, sensors, update, armed, pins, commanded>>

SweepEnds ==
    /\ mainPc = "sweep"
    /\ i \notin Positions
    /\ mainPc' = "yield"
    /\ i' = 1
    /\ UNCHANGED <<vars, file, led, sensors, update, armed, pins, dht, commanded>>

Yield ==
    /\ mainPc = "yield"
    /\ CallYield
    /\ mainPc' = "yielding"
    /\ UNCHANGED <<file, led, sensors, i, update, armed, pins, dht, commanded>>

\* yield() has returned; what it returned is not looked at.  wait(1).
Wait ==
    /\ mainPc = "yielding"
    /\ pc = "idle"
    /\ mainPc' = "loop"
    /\ UNCHANGED <<vars, file, led, sensors, i, update, armed, pins, dht, commanded>>

-----------------------------------------------------------------------------
\* The test in messageArrived() compares as many bytes as the output's topic
\* has: it also accepts a longer topic and, in a QoS 0 packet, where the
\* payload follows the topic, a shorter one that the payload completes.
Addressed(p, t) ==
    \/ t = p.topic
    \/ <<t, p.topic>> \in Prefixes
    \/ p.qos = 0 /\ <<p.topic, p.payload.number, t>> \in RunsOn

\* atoi() of a payload that has no end of its own reads on into what readbuf
\* held before: bytes of earlier packets, or of main()'s stack.
Atoi(payload) ==
    IF payload.nul THEN {payload.number}
    ELSE {IF d = NoDigit THEN payload.number ELSE 10 * payload.number + d :
            d \in 0 .. NoDigit}

\* messageArrived(): a 1 or a 0 is written, any other number ignored.
MessageArrived(p) ==
    \E value \in Atoi(p.payload) :
        pins' = [n \in Positions |->
                    IF n \in Outputs /\ Addressed(p, sensors[n].topic)
                       /\ value \in {0, 1}
                    THEN value ELSE pins[n]]

\* deliverMessage() calls messageArrived() when some handler's filter matches.
Deliver ==
    /\ DeliverMessage
    /\ IF Matching(readbuf.topic) # {} THEN MessageArrived(readbuf)
                                       ELSE UNCHANGED pins
    /\ UNCHANGED <<file, mainPc, led, sensors, i, update, armed, dht, commanded>>

\* A user commands an output; or had done so before the station subscribed,
\* with a retained message that comes ahead of the SUBACK.
UserCommand ==
    /\ \E v \in {0, 1}, nul \in UserEnds :
        \/ \E t \in Topics :
            /\ UserPublish(t, Text(v, nul))
            /\ commanded' = [commanded EXCEPT ![t] = @ \cup {Text(v, nul)}]
        \/ /\ ServeSubscribeEarly(Text(v, nul))
           /\ commanded' = [commanded EXCEPT ![Request.topic] = @ \cup {Text(v, nul)}]
    /\ UNCHANGED <<clientVars, file, mainPc, led, sensors, i, update, armed, pins, dht>>

ServerRuns ==
    \/ AcceptConnect \/ RefuseConnect \/ CloseLink \/ ServeSubscribe
    \/ ServePublish \/ ServePuback \/ ServePingreq \/ LinkDrop

MainStep ==
    \/ ReadFile \/ Parse \/ TcpConnect \/ MqttConnect \/ MqttConnected
    \/ SubscribeTopics \/ Loop \/ UpdateSensorData \/ SweepEnds \/ Yield \/ Wait

ClientRuns == Deliver \/ (QuietStep /\ UNCHANGED mainVars)

ClocksRun == (TimerExpires \/ KeepAliveElapses) /\ UNCHANGED mainVars

StationNext ==
    \/ MainStep
    \/ Blink
    \/ ClientRuns
    \/ TimerSensor
    \/ ClocksRun
    \/ UserCommand
    \/ ServerRuns /\ UNCHANGED <<clientVars, mainVars>>

StationSpec == StationInit /\ [][StationNext]_stationVars

\* The one thread runs, the timers do, and the 3-second interrupt comes.  A
\* write ends when TCP has given up its retries, if not before.
StationFairSpec ==
    /\ StationSpec
    /\ WF_stationVars(MainStep)
    /\ WF_stationVars(ClientRuns)
    /\ WF_stationVars(TimerExpires /\ UNCHANGED mainVars)
    /\ WF_stationVars(TimerSensor)

\* A read without a time limit, and nothing for it to read.
Stuck == pc \in {"header", "length", "body"} /\ timer = "overrun" /\ toClient = <<>>

\* What the code relies on: a server closes the link of a client that is silent
\* for one and a half times the keep-alive interval it gave (MQTT 3.1), and the
\* end of the link reaches the client.
ServerGivesUp == Stuck /\ LinkDrop /\ UNCHANGED <<clientVars, mainVars>>

StationServedSpec == StationFairSpec /\ WF_stationVars(ServerGivesUp)

-----------------------------------------------------------------------------
(***************************************************************************)
(* Properties.                                                             *)
(***************************************************************************)

\* A message on topic a that reads as 1 may be taken for one to the output at b.
Reaches(a, b) ==
    a = b \/ <<b, a>> \in Prefixes \/ \E v \in {0, 1} : <<a, v, b>> \in RunsOn

\* Topics on which the station receives a 1 that no output of its own sent: users
\* published something that reads as 1, or a sensor of another kind publishes there.
Sources ==
    {t \in Topics : \E c \in commanded[t] : 1 \in Atoi(c)}
    \cup {sensors[n].topic : n \in Positions \ Outputs}

Closed(S) == \A a \in S : \A b \in Topics : Reaches(a, b) => b \in S

\* An output is on only if a message from outside can have come to it: one for
\* its topic or for one that messageArrived() takes for it, or for another
\* output whose state, published by the sweep, comes back to this one, and so
\* on.  Nothing else turns an output on: no stale echo, no repeated message, no
\* reading whose terminator is there.
OutputNeedsCommand ==
    intact =>
        \A n \in Outputs : pins[n] = 1 =>
            \A S \in SUBSET Topics :
                Sources \subseteq S /\ Closed(S) => sensors[n].topic \in S

\* README.md:79, "de forma permanente", and "blocks on all method calls, until
\* they are complete" (MQTTClient.h:86): unless the station stops with an
\* error, there is always another sweep and each one ends, wherever a read is cut
\* and whatever is lost.  Each wait has a timer, except a read that begins just
\* when its call's time is up, and that ends with the link.
SweepsForEver ==
    \/ <>[](mainPc = "error")
    \/ []<>(mainPc = "loop") /\ []<>(mainPc = "sweep")

-----------------------------------------------------------------------------
(***************************************************************************)
(* What a comment says and the code does not do.                           *)
(***************************************************************************)

\* MQTTClient.h:364: readPacket has a timeout, "the max time to wait for the
\* packet read to complete".  A read that begins one millisecond after its
\* call's time is up waits for as long as the link lasts.
ReadsEnd == pc = "header" ~> pc # "header"
=============================================================================
