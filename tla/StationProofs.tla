---------------------------- MODULE StationProofs ---------------------------
(***************************************************************************)
(* Proofs about Station: whatever the configuration, the network and the   *)
(* users do, an output is on only if a message from outside can have come  *)
(* to it.                                                                  *)
(*                                                                         *)
(* BaseInv says where the client and main() are; it rests on the lemmas of *)
(* MQTTClientProofs, because every step of Station is one of the client,   *)
(* one of the server, the opening of the link, a publish of updateSensor-  *)
(* Data() or none of these (StepKinds).                                    *)
(***************************************************************************)
EXTENDS Station, MQTTClientProofs

USE ClientAssumption, StationAssumption
USE DEF brokerVars, linkVars, sessionVars, objectVars, callVars, historyVars, clientVars

-----------------------------------------------------------------------------
\* The calls that main() makes, and the steps of the client inside them.
OurCall == CallConnect(TRUE) \/ (\E t \in Topics : CallSubscribe(t)) \/ CallYield
OurStep == OurCall \/ ClientStep \/ TimerExpires \/ KeepAliveElapses

Opens == mainPc = "tcp" /\ LinkOpened /\ UNCHANGED clientVars

\* A reading of dht is the initial value or that of some DHT of the list.
DhtOf(d, list) ==
    d = NoReading \/ \E n \in DOMAIN list : list[n].type \in {"temperature", "humidity"} /\ d = list[n].device

\* The state of main(): it has the sensors of its file, or those before the
\* first that it cannot use.
MainTypes ==
    /\ file \in Files
    /\ sensors \in Seq(Sensors)
    /\ \A n \in DOMAIN sensors : n \in DOMAIN file.sensors /\ sensors[n] = file.sensors[n]
    /\ pins \in [DOMAIN sensors -> {0, 1}]
    /\ commanded \in [Topics -> SUBSET Payloads]
    /\ DhtOf(dht, sensors)

\* Until main() opens the link nothing is called and nothing sent.
Booting ==
    mainPc \in {"read", "parse", "tcp"} =>
        /\ link = "down" /\ pc = "idle" /\ unacked = <<>>
        /\ mainPc # "tcp" => sensors = <<>>

\* The client's publish is not used: what sendMQTT() calls is a copy's.
NoOwnPublish == inflight = NoPacket /\ op \notin {"publish", "resend"}

BaseInv ==
    /\ TypeOK /\ CallShape /\ DownIsEmpty /\ NewIsEmpty /\ InStep
    /\ MainTypes /\ Booting /\ NoOwnPublish

-----------------------------------------------------------------------------
\* The sensors of a file are records of the right type.
LEMMA SensorTypes ==
    ASSUME MainTypes, NEW n \in DOMAIN sensors
    PROVE  /\ sensors[n] \in Sensors
           /\ sensors[n].topic \in Topics /\ sensors[n].device \in Nat
           /\ Text(sensors[n].device, TRUE) \in Payloads
           /\ pins[n] \in {0, 1}
<1>1. sensors[n] \in Sensors
  BY DEF MainTypes
<1>2. sensors[n].topic \in Topics /\ sensors[n].device \in Nat
  BY <1>1 DEF Sensors
<1>3. file \in Files /\ n \in DOMAIN file.sensors /\ sensors[n] = file.sensors[n]
  BY DEF MainTypes
<1>4. Text(sensors[n].device, TRUE) \in Payloads
  BY <1>3
<1>5. pins[n] \in {0, 1}
  BY DEF MainTypes
<1> QED BY <1>1, <1>2, <1>4, <1>5

\* What is published for a sensor is a payload.
LEMMA ReadingType ==
    ASSUME MainTypes, NEW n \in DOMAIN sensors, NEW d, DhtOf(d, sensors)
    PROVE  Text(Reading(sensors[n], pins[n], d), TRUE) \in Payloads
<1>1. Text(d, TRUE) \in Payloads
  BY SensorTypes DEF DhtOf
<1>2. Text(pins[n], TRUE) \in Payloads
  BY SensorTypes
<1> QED BY <1>1, <1>2, SensorTypes DEF Reading

\* A pass of updateSensorData() publishes one reading at QoS 0, or nothing.
Publishes(n, d) ==
    LET p == Publish(sensors[n].topic, 0, 0, Text(Reading(sensors[n], pins[n], d), TRUE))
    IN  /\ link = "up"
        /\ toServer' = Append(toServer, p)
        /\ UNCHANGED <<link, toClient, offset, sessionVars, clientVars>>

\* One pass of updateSensorData() changes nothing of the client but toServer.
LEMMA SweepKinds ==
    ASSUME MainTypes, UpdateSensorData
    PROVE  /\ i \in DOMAIN sensors
           /\ DhtOf(dht', sensors)
           /\ UNCHANGED vars \/ Publishes(i, dht')
<1>1. i \in DOMAIN sensors
  BY DEF UpdateSensorData, Positions
<1>2. DhtOf(dht', sensors)
  BY <1>1 DEF UpdateSensorData, DhtOf, MainTypes
<1>3. SendMQTT(sensors[i].topic, Text(Reading(sensors[i], pins[i], dht'), TRUE))
  BY DEF UpdateSensorData
<1>4. UNCHANGED vars \/ Publishes(i, dht')
  BY <1>3 DEF SendMQTT, Publishes, vars
<1> QED BY <1>1, <1>2, <1>4

\* The topic of a SUBSCRIBE is a topic.
LEMMA EarlyTopic ==
    ASSUME BrokerTypes, NEW v, ServeSubscribeEarly(v)
    PROVE  Request.topic \in Topics
<1>1. toServer \in Seq(ClientPacket) /\ toServer # <<>> /\ Request.type = "SUBSCRIBE"
  BY DEF BrokerTypes, ServeSubscribeEarly, Serve, Request
<1>2. Request \in ClientPacket
  BY <1>1, TailFacts DEF Request
<1> QED BY <1>1, <1>2, RequestFields

\* What a step of the station is for the client and its server.
LEMMA StepKinds ==
    ASSUME MainTypes, [StationNext]_stationVars
    PROVE  \/ OurStep
           \/ ServerStep /\ UNCHANGED clientVars
           \/ Opens
           \/ UpdateSensorData
           \/ UNCHANGED vars
<1>1. CASE UNCHANGED stationVars \/ Blink
  BY <1>1 DEF stationVars, Blink
<1>2. CASE MainStep
  <2>1. CASE ReadFile \/ Parse \/ MqttConnected \/ Loop \/ SweepEnds \/ Wait
    BY <2>1 DEF ReadFile, Parse, MqttConnected, Loop, SweepEnds, Wait
  <2>2. CASE TcpConnect
    BY <2>2 DEF TcpConnect, Opens, vars
  <2>3. CASE MqttConnect \/ Yield
    BY <2>3 DEF MqttConnect, Yield, OurStep, OurCall
  <2>4. CASE SubscribeTopics
    <3>1. i \in Outputs => sensors[i].topic \in Topics
      BY SensorTypes DEF Outputs, Positions
    <3> QED BY <2>4, <3>1 DEF SubscribeTopics, OurStep, OurCall
  <2>5. CASE UpdateSensorData
    BY <2>5
  <2> QED BY <1>2, <2>1, <2>2, <2>3, <2>4, <2>5 DEF MainStep
<1>3. CASE ClientRuns \/ ClocksRun
  BY <1>3 DEF ClientRuns, ClocksRun, Deliver, ClientStep, OurStep
<1>4. CASE TimerSensor
  BY <1>4 DEF TimerSensor
<1>5. CASE UserCommand
  <2>1. PICK v \in {0, 1}, nul \in UserEnds :
            (\E t \in Topics : UserPublish(t, Text(v, nul))) \/ ServeSubscribeEarly(Text(v, nul))
    BY <1>5 DEF UserCommand
  <2>2. Text(v, nul) \in Payloads
    OBVIOUS
  <2>3. ServerStep
    BY <2>1, <2>2 DEF ServerStep
  <2> QED BY <1>5, <2>3 DEF UserCommand
<1>6. CASE ServerRuns /\ UNCHANGED <<clientVars, mainVars>>
  BY <1>6 DEF ServerRuns, ServerStep
<1> QED BY <1>1, <1>2, <1>3, <1>4, <1>5, <1>6 DEF StationNext

\* Every step keeps what is known of the client.
LEMMA ClientKept ==
    ASSUME BaseInv, [StationNext]_stationVars
    PROVE  TypeOK' /\ CallShape' /\ DownIsEmpty' /\ NewIsEmpty' /\ InStep'
<1>0. TypeOK /\ CallShape /\ DownIsEmpty /\ NewIsEmpty /\ InStep /\ MainTypes /\ Booting
  BY DEF BaseInv
<1>1. CASE OurStep
  <2>1. Call \/ ClientStep \/ TimerExpires \/ KeepAliveElapses
    BY <1>1 DEF OurStep, OurCall, Call
  <2> QED BY <1>0, <2>1, TypeCalls, TypeSteps, ShapeSteps, DownSteps, InStepSteps
<1>2. CASE ServerStep /\ UNCHANGED clientVars
  <2>1. TypeOK' /\ CallShape'
    BY <1>0, <1>2, ServerTypes, ServerShape
  <2>2. PlainStep \/ AnswerStep \/ ConnectStep \/ LinkLost
    BY <1>0, <1>2, ServerKinds DEF TypeOK
  <2> QED BY <1>0, <1>2, <2>1, <2>2, ServerDown, ServerInStep
<1>3. CASE Opens
  <2>1. link' = "up" /\ UNCHANGED <<toServer, toClient, offset, sessionVars, clientVars>>
        /\ pc = "idle"
    BY <1>0, <1>3 DEF Opens, LinkOpened, Booting
  <2>2. BrokerTypes' /\ ObjectTypes' /\ CallTypes'
    BY <1>0, <2>1 DEF TypeOK, BrokerTypes, ObjectTypes, CallTypes
  <2>3. CallShape'
    BY <1>0, <2>1, ServerShape
  <2>4. DownIsEmpty' /\ NewIsEmpty' /\ InStep'
    BY <1>0, <2>1 DEF DownIsEmpty, NewIsEmpty, InStep
  <2> QED BY <2>2, <2>3, <2>4 DEF TypeOK
<1>4. CASE UNCHANGED vars
  BY <1>0, <1>4 DEF vars, TypeOK, BrokerTypes, ObjectTypes, CallTypes, CallShape, Awaited,
     DownIsEmpty, NewIsEmpty, InStep
<1>5. CASE UpdateSensorData
  <2>1. UNCHANGED vars \/ Publishes(i, dht')
    BY <1>0, <1>5, SweepKinds
  <2>2. CASE Publishes(i, dht')
    <3> DEFINE p == Publish(sensors[i].topic, 0, 0, Text(Reading(sensors[i], pins[i], dht'), TRUE))
    <3>1. p \in ClientPacket
      <4>1. sensors[i].topic \in Topics
            /\ Text(Reading(sensors[i], pins[i], dht'), TRUE) \in Payloads
        BY <1>0, <1>5, SweepKinds, SensorTypes, ReadingType
      <4>2. 0 \in {0, 1} /\ 0 \in 0 .. MaxPacketId
        OBVIOUS
      <4>3. \A t \in Topics, v \in Payloads : Publish(t, 0, 0, v) \in ClientPacket
        BY <4>2, ClientPackets
      <4> QED BY <4>1, <4>3
    <3>2. /\ toServer' = Append(toServer, p) /\ link = "up"
          /\ UNCHANGED <<link, toClient, offset, sessionVars, clientVars>>
      BY <2>2 DEF Publishes
    <3> HIDE DEF p
    <3>3. toServer' \in Seq(ClientPacket)
      BY <1>0, <3>1, <3>2, AppendFacts DEF TypeOK, BrokerTypes
    <3>4. BrokerTypes' /\ ObjectTypes' /\ CallTypes'
      BY <1>0, <3>2, <3>3 DEF TypeOK, BrokerTypes, ObjectTypes, CallTypes
    <3>5. CallShape'
      BY <1>0, <3>2, ServerShape
    <3>6. DownIsEmpty' /\ NewIsEmpty' /\ InStep'
      BY <1>0, <3>2 DEF DownIsEmpty, NewIsEmpty, InStep
    <3> QED BY <3>4, <3>5, <3>6 DEF TypeOK
  <2> QED BY <1>4, <2>1, <2>2
<1> QED BY <1>0, <1>1, <1>2, <1>3, <1>4, <1>5, StepKinds

\* No call of main() publishes through the client.
LEMMA NoOwnKept ==
    ASSUME BaseInv, [StationNext]_stationVars
    PROVE  NoOwnPublish'
<1>0. TypeOK /\ CallShape /\ MainTypes /\ NoOwnPublish
  BY DEF BaseInv
<1>1. CASE OurCall
  BY <1>0, <1>1 DEF OurCall, CallConnect, CallSubscribe, CallWithTopic, CallYield, Counted,
     Begin, Refuse, Return, NoOwnPublish
<1>2. CASE ClientStep
  <2>1. CASE SendRequest \/ SendFails \/ WaitTimesOut \/ StartCycle
    BY <1>0, <2>1 DEF SendRequest, SendFails, WaitTimesOut, StartCycle, ResendInflight,
       Fail, Return, NoOwnPublish
  <2>2. CASE HeaderTimesOut \/ ReadHeader \/ ReadLength \/ ReadBody \/ LengthTimesOut \/ BodyCut
             \/ ReadJunk
    BY <1>0, <2>2 DEF HeaderTimesOut, ReadHeader, ReadLength, ReadBody, LengthTimesOut, BodyCut,
       ReadJunk, ReadStep, NoOwnPublish
  <2>3. CASE HandleOther \/ SendPuback \/ PubackFails \/ Keepalive \/ DeliverMessage
    BY <1>0, <2>3 DEF HandleOther, SendPuback, PubackFails, Keepalive, DeliverMessage, Return,
       NoOwnPublish
  <2>4. CASE FinishConnect \/ FinishSubscribe \/ FinishUnsubscribe \/ FinishPublish
    BY <1>0, <2>4 DEF FinishConnect, FinishSubscribe, FinishUnsubscribe, FinishPublish,
       Return, NoOwnPublish
  <2> QED BY <1>2, <2>1, <2>2, <2>3, <2>4 DEF ClientStep, QuietStep
<1>3. CASE TimerExpires \/ KeepAliveElapses
  BY <1>0, <1>3 DEF TimerExpires, KeepAliveElapses, NoOwnPublish
<1>4. CASE UNCHANGED clientVars
  BY <1>0, <1>4 DEF NoOwnPublish
<1>5. CASE UpdateSensorData
  BY <1>0, <1>4, <1>5, SweepKinds DEF Publishes, vars
<1> QED BY <1>0, <1>1, <1>2, <1>3, <1>4, <1>5, StepKinds DEF OurStep, Opens, vars

\* Every step keeps the state of main(): its sensors, pins, commands and reading.
LEMMA MainKept ==
    ASSUME BaseInv, [StationNext]_stationVars
    PROVE  MainTypes'
<1>0. MainTypes /\ Booting /\ TypeOK
  BY DEF BaseInv
<1>1. ASSUME UNCHANGED <<file, sensors, pins, dht, commanded>> PROVE MainTypes'
  BY <1>0, <1>1 DEF MainTypes
<1>2. CASE ReadFile \/ TcpConnect \/ MqttConnect \/ MqttConnected \/ SubscribeTopics \/ Loop
           \/ SweepEnds \/ Yield \/ Wait \/ TimerSensor \/ ClocksRun \/ Blink
           \/ UNCHANGED stationVars \/ (QuietStep /\ UNCHANGED mainVars)
           \/ (ServerRuns /\ UNCHANGED <<clientVars, mainVars>>)
  BY <1>1, <1>2 DEF ReadFile, TcpConnect, MqttConnect, MqttConnected, SubscribeTopics, Loop,
     SweepEnds, Yield, Wait, TimerSensor, ClocksRun, Blink, stationVars, mainVars
<1>3. CASE Parse
  <2> DEFINE bad == {n \in DOMAIN file.sensors : Unusable(file.sensors[n])}
             first == CHOOSE n \in bad : \A m \in bad : n <= m
  <2>1. file \in Files /\ file.sensors \in Seq(Sensors) /\ commanded \in [Topics -> SUBSET Payloads]
        /\ UNCHANGED <<file, commanded, dht>>
    BY <1>0, <1>3 DEF MainTypes, Parse
  <2>2. sensors = <<>> /\ dht = NoReading
    BY <1>0, <1>3 DEF Parse, Booting, MainTypes, DhtOf
  <2>3. DhtOf(dht, sensors)'
    BY <2>1, <2>2 DEF DhtOf
  <2>4. CASE UNCHANGED <<sensors, pins>>
    BY <1>1, <2>1, <2>4
  <2>5. CASE sensors' = file.sensors /\ pins' = [n \in DOMAIN file.sensors |-> 0]
    BY <2>1, <2>3, <2>5 DEF MainTypes
  <2>6. CASE bad # {} /\ sensors' = SubSeq(file.sensors, 1, first - 1)
             /\ pins' = [n \in 1 .. first - 1 |-> 0]
    <3>1. bad \subseteq Nat
      BY <2>1
    <3>2. first \in bad
      BY <2>6, <3>1, LeastElement
    <3>3. first \in 1 .. Len(file.sensors) /\ Len(file.sensors) \in Nat
      BY <2>1, <3>2
    <3> HIDE DEF first, bad
    <3>4. /\ sensors' \in Seq(Sensors)
          /\ DOMAIN sensors' = 1 .. first - 1
          /\ \A n \in 1 .. first - 1 : sensors'[n] = file.sensors[n]
      BY <2>1, <2>6, <3>3
    <3>5. \A n \in 1 .. first - 1 : n \in DOMAIN file.sensors
      BY <2>1, <3>3
    <3> QED BY <2>1, <2>3, <2>6, <3>4, <3>5 DEF MainTypes
  <2> HIDE DEF first, bad
  <2> QED BY <1>3, <2>4, <2>5, <2>6 DEF Parse, bad, first
<1>4. CASE UpdateSensorData
  <2>1. DhtOf(dht', sensors) /\ UNCHANGED <<file, sensors, pins, commanded>>
    BY <1>0, <1>4, SweepKinds DEF UpdateSensorData
  <2> QED BY <1>0, <2>1 DEF MainTypes
<1>5. CASE Deliver
  <2>1. UNCHANGED <<file, sensors, commanded, dht>>
    BY <1>5 DEF Deliver
  <2>2. pins' \in [DOMAIN sensors -> {0, 1}]
    BY <1>0, <1>5 DEF Deliver, MessageArrived, Positions, MainTypes
  <2> QED BY <1>0, <2>1, <2>2 DEF MainTypes
<1>6. CASE UserCommand
  <2>1. PICK v \in {0, 1}, nul \in UserEnds, t \in Topics :
            commanded' = [commanded EXCEPT ![t] = @ \cup {Text(v, nul)}]
    <3>1. ASSUME NEW v \in {0, 1}, NEW nul \in UserEnds, ServeSubscribeEarly(Text(v, nul))
          PROVE  Request.topic \in Topics
      BY <1>0, <3>1, EarlyTopic DEF TypeOK
    <3> QED BY <1>6, <3>1 DEF UserCommand
  <2>2. UNCHANGED <<file, sensors, pins, dht>>
    BY <1>6 DEF UserCommand
  <2>3. Text(v, nul) \in Payloads /\ commanded \in [Topics -> SUBSET Payloads]
    BY <1>0 DEF MainTypes
  <2>4. commanded' \in [Topics -> SUBSET Payloads]
    BY <2>1, <2>3
  <2> QED BY <1>0, <2>2, <2>4 DEF MainTypes
<1> QED BY <1>2, <1>3, <1>4, <1>5, <1>6 DEF StationNext, MainStep, ClientRuns

\* main() leaves its first places with the link down and the client at rest.
LEMMA BootKept ==
    ASSUME BaseInv, [StationNext]_stationVars
    PROVE  Booting'
<1>0. MainTypes /\ Booting /\ TypeOK /\ CallShape
  BY DEF BaseInv
<1> SUFFICES ASSUME mainPc' \in {"read", "parse", "tcp"}
             PROVE  /\ link' = "down" /\ pc' = "idle" /\ unacked' = <<>>
                    /\ mainPc' # "tcp" => sensors' = <<>>
  BY DEF Booting
<1>1. CASE mainPc \in {"read", "parse", "tcp"}
  <2>0. /\ link = "down" /\ pc = "idle" /\ unacked = <<>>
        /\ mainPc # "tcp" => sensors = <<>>
    BY <1>0, <1>1 DEF Booting
  <2>1. CASE ReadFile \/ Parse \/ TimerSensor \/ Blink \/ UNCHANGED stationVars
    BY <2>0, <2>1 DEF ReadFile, Parse, TimerSensor, Blink, stationVars, vars, mainVars,
       ErrorConfig
  <2>2. CASE TcpConnect
    BY <2>2 DEF TcpConnect, ErrorConfig
  <2>3. CASE MqttConnect \/ MqttConnected \/ SubscribeTopics \/ Loop \/ UpdateSensorData
             \/ SweepEnds \/ Yield \/ Wait
    BY <1>1, <2>3 DEF MqttConnect, MqttConnected, SubscribeTopics, Loop, UpdateSensorData,
       SweepEnds, Yield, Wait
  <2>4. ~ClientStep
    BY <2>0 DEF ClientStep, QuietStep, SendRequest, SendFails, WaitTimesOut, StartCycle,
       HeaderTimesOut, ReadHeader, ReadLength, ReadBody, LengthTimesOut, BodyCut, ReadJunk,
       ReadStep, HandleOther, SendPuback, PubackFails, Keepalive, FinishConnect,
       FinishSubscribe, FinishUnsubscribe, FinishPublish, Answered, DeliverMessage
  <2>5. CASE ClocksRun
    BY <2>0, <2>5 DEF ClocksRun, TimerExpires, KeepAliveElapses, mainVars
  <2>6. ~ServerRuns /\ ~UserCommand
    BY <2>0 DEF ServerRuns, AcceptConnect, RefuseConnect, CloseLink, ServeSubscribe,
       ServePublish, ServePuback, ServePingreq, LinkDrop, Serve, UserCommand, UserPublish,
       ServeSubscribeEarly
  <2> QED BY <2>1, <2>2, <2>3, <2>4, <2>5, <2>6 DEF StationNext, MainStep, ClientRuns,
             Deliver, ClientStep
<1>2. CASE mainPc \notin {"read", "parse", "tcp"}
  BY <1>2 DEF StationNext, MainStep, ReadFile, Parse, TcpConnect, MqttConnect, MqttConnected,
     SubscribeTopics, Loop, UpdateSensorData, SweepEnds, Yield, Wait, ErrorConfig, Blink,
     ClientRuns, Deliver, TimerSensor, ClocksRun, UserCommand, stationVars, mainVars
<1> QED BY <1>1, <1>2

\* A station that starts satisfies BaseInv.
LEMMA BaseInit == StationInit => BaseInv
<1> SUFFICES ASSUME StationInit PROVE BaseInv
  OBVIOUS
<1>1. TypeOK
  BY InitTypes DEF StationInit
<1>3. CallShape /\ DownIsEmpty /\ NewIsEmpty /\ InStep
  BY DEF StationInit, ClientInit, BrokerInit, CallShape, DownIsEmpty, NewIsEmpty, InStep,
     NoPacket, NoSubscriptions
<1>4. MainTypes
  BY DEF StationInit, MainTypes, DhtOf
<1>5. Booting /\ NoOwnPublish
  BY DEF StationInit, ClientInit, BrokerInit, Booting, NoOwnPublish
<1> QED BY <1>1, <1>3, <1>4, <1>5 DEF BaseInv

\* BaseInv holds for every configuration and every behaviour of the network.
THEOREM StationInvariance == StationSpec => []BaseInv
<1>1. BaseInv /\ [StationNext]_stationVars => BaseInv'
  BY ClientKept, MainKept, BootKept, NoOwnKept DEF BaseInv
<1> QED BY BaseInit, <1>1, PTL DEF StationSpec

-----------------------------------------------------------------------------
(***************************************************************************)
(* Publishes.  A packet that any step of the client or the server leaves   *)
(* in toServer was there before or is no publish.                          *)
(***************************************************************************)

\* Every packet in toServer is an old one or no publish.
NoNewPublish ==
    \A k \in DOMAIN toServer' :
        (\E j \in DOMAIN toServer : toServer'[k] = toServer[j]) \/ toServer'[k].type # "PUBLISH"

\* A stream that nothing was written to has no new publish.
LEMMA SameNoNew == toServer' = toServer => NoNewPublish
  BY DEF NoNewPublish

\* A write of a request, an acknowledgement or a ping is no new publish.
LEMMA WrittenNoNew ==
    ASSUME BrokerTypes, NEW p \in ClientPacket, Written(p), p.type # "PUBLISH"
    PROVE  NoNewPublish
<1>1. toServer \in Seq(ClientPacket)
  BY DEF BrokerTypes
<1>2. toServer' = toServer \/ toServer' = Append(toServer, p)
  BY DEF Written
<1> QED BY <1>1, <1>2, AppendFacts, SameNoNew DEF NoNewPublish

\* main() has its calls send requests, and the client acknowledgements and pings.
LEMMA ClientNoNew ==
    ASSUME TypeOK, CallShape, NoOwnPublish, OurStep
    PROVE  NoNewPublish
<1>0. BrokerTypes
  BY DEF TypeOK
<1>1. CASE SendRequest
  <2>1. request \in ClientPacket /\ request.type # "PUBLISH"
    BY <1>1, RequestToSend DEF SendRequest, CallShape, NoOwnPublish, TypeOK, CallTypes
  <2> QED BY <1>0, <1>1, <2>1, WrittenNoNew DEF SendRequest
<1>2. CASE SendPuback
  <2>1. Puback(readbuf.id) \in ClientPacket /\ Puback(readbuf.id).type # "PUBLISH"
    BY <1>2, FetchedPublish, ClientPackets DEF SendPuback, Puback
  <2> QED BY <1>0, <1>2, <2>1, WrittenNoNew DEF SendPuback
<1>3. CASE Keepalive
  <2>1. [type |-> "PINGREQ"] \in ClientPacket /\ [type |-> "PINGREQ"].type # "PUBLISH"
    BY ClientPackets
  <2> QED BY <1>0, <1>3, <2>1, WrittenNoNew, SameNoNew DEF Keepalive, NotWritten
<1>4. CASE toServer' = toServer
  BY <1>4, SameNoNew
<1>5. OurCall \/ TimerExpires \/ KeepAliveElapses => toServer' = toServer
  BY DEF OurCall, CallConnect, CallSubscribe, CallWithTopic, CallYield, TimerExpires,
     KeepAliveElapses
<1>6. ClientStep => SendRequest \/ SendPuback \/ Keepalive \/ toServer' = toServer
  BY DEF ClientStep, QuietStep, SendFails, NotWritten, WaitTimesOut, StartCycle, HeaderTimesOut,
     ReadHeader, ReadLength, ReadBody, LengthTimesOut, BodyCut, ReadJunk, ReadStep, HandleOther,
     PubackFails, FinishConnect, FinishSubscribe, FinishUnsubscribe, FinishPublish,
     DeliverMessage
<1> QED BY <1>1, <1>2, <1>3, <1>4, <1>5, <1>6 DEF OurStep

\* The server only takes packets off its stream.
LEMMA ServerNoNew ==
    ASSUME BrokerTypes, ServerStep
    PROVE  NoNewPublish
<1>1. PlainStep \/ AnswerStep \/ ConnectStep \/ LinkLost
  BY ServerKinds
<1>2. CASE Popped
  BY <1>2 DEF Popped, NoNewPublish
<1>3. CASE LinkLost
  BY <1>3 DEF LinkLost, NoNewPublish
<1> QED BY <1>1, <1>2, <1>3, SameNoNew DEF PlainStep, AnswerStep, ConnectStep

-----------------------------------------------------------------------------
(***************************************************************************)
(* Outputs.  Let lit be a set of topics with all Sources in it and closed  *)
(* under Reaches.  A message that reads as 1 is on its way, kept by the    *)
(* server or in readbuf only on a topic of lit, and an output on another   *)
(* topic is off, so that the sweep publishes no 1 there either.            *)
(***************************************************************************)

\* A publish that reads as 1 has a topic of lit and begins with 0 or 1.
Sound(p, lit) ==
    p.type = "PUBLISH" /\ 1 \in Atoi(p.payload) =>
        p.topic \in lit /\ p.payload.number \in {0, 1}

AllSound(s, lit) == \A k \in DOMAIN s : Sound(s[k], lit)

\* What is under way reads as 1 on topics of lit only.
Flow(lit) ==
    intact =>
        /\ AllSound(toServer, lit) /\ AllSound(toClient, lit)
        /\ AllSound(unacked, lit) /\ Sound(readbuf, lit)

\* The outputs that are on have topics of lit.
Lit(lit) ==
    intact => \A n \in DOMAIN sensors :
                sensors[n].type = "dOut" /\ pins[n] = 1 => sensors[n].topic \in lit

Covers(lit) == Sources \subseteq lit /\ Closed(lit)

OutputInv == \A lit \in SUBSET Topics : Covers(lit) => Flow(lit) /\ Lit(lit)

\* Sequences that are built from justified packets.
LEMMA SoundAppend ==
    ASSUME NEW S, NEW s \in Seq(S), NEW p \in S, NEW lit,
           AllSound(s, lit), Sound(p, lit)
    PROVE  AllSound(Append(s, p), lit)
<1>1. \A k \in DOMAIN Append(s, p) : k \in DOMAIN s \/ k = Len(s) + 1
  BY AppendFacts
<1>2. \A k \in DOMAIN s : Append(s, p)[k] = s[k]
  BY AppendFacts
<1>3. Append(s, p)[Len(s) + 1] = p
  BY AppendFacts
<1> QED BY <1>1, <1>2, <1>3 DEF AllSound

\* What is left of a justified stream, and the packet taken off it.
LEMMA SoundTail ==
    ASSUME NEW S, NEW s \in Seq(S), s # <<>>, NEW lit, AllSound(s, lit)
    PROVE  AllSound(Tail(s), lit) /\ Sound(Head(s), lit)
<1>1. \A k \in DOMAIN Tail(s) : k + 1 \in DOMAIN s /\ Tail(s)[k] = s[k + 1]
  BY TailFacts
<1>2. 1 \in DOMAIN s /\ Head(s) = s[1]
  BY TailFacts
<1> QED BY <1>1, <1>2 DEF AllSound

\* A justified stream with justified replies behind it.
LEMMA SoundConcat ==
    ASSUME NEW S, NEW s \in Seq(S), NEW r \in Seq(S), NEW lit,
           AllSound(s, lit), AllSound(r, lit)
    PROVE  AllSound(s \o r, lit)
<1>1. Len(s) \in Nat /\ Len(r) \in Nat /\ DOMAIN s = 1 .. Len(s) /\ DOMAIN r = 1 .. Len(r)
  OBVIOUS
<1>2. DOMAIN (s \o r) = 1 .. Len(s) + Len(r)
  BY ConcatFacts
<1>3. \A k \in 1 .. Len(s) : (s \o r)[k] = s[k]
  BY ConcatFacts
<1>4. \A k \in 1 .. Len(r) : (s \o r)[Len(s) + k] = r[k]
  BY ConcatFacts
<1>5. ASSUME NEW k \in DOMAIN (s \o r) PROVE Sound((s \o r)[k], lit)
  <2>1. CASE k \in DOMAIN s
    BY <1>1, <1>3, <2>1 DEF AllSound
  <2>2. CASE k \notin DOMAIN s
    <3>1. k - Len(s) \in 1 .. Len(r) /\ k = Len(s) + (k - Len(s))
      BY <1>1, <1>2, <1>5, <2>2
    <3> QED BY <1>1, <1>4, <3>1 DEF AllSound
  <2> QED BY <2>1, <2>2
<1> QED BY <1>5 DEF AllSound

\* A justified sequence without one of its packets.
LEMMA SoundWithout ==
    ASSUME NEW S, NEW s \in Seq(S), NEW k \in DOMAIN s, NEW lit, AllSound(s, lit)
    PROVE  AllSound(SubSeq(s, 1, k - 1) \o SubSeq(s, k + 1, Len(s)), lit)
<1>1. SubSeq(s, 1, k - 1) \in Seq(S) /\ SubSeq(s, k + 1, Len(s)) \in Seq(S)
  OBVIOUS
<1>2. \A j \in DOMAIN SubSeq(s, 1, k - 1) : j \in DOMAIN s /\ SubSeq(s, 1, k - 1)[j] = s[j]
  OBVIOUS
<1>3. \A j \in DOMAIN SubSeq(s, k + 1, Len(s)) :
        k + j \in DOMAIN s /\ SubSeq(s, k + 1, Len(s))[j] = s[k + j]
  OBVIOUS
<1> QED BY <1>1, <1>2, <1>3, SoundConcat DEF AllSound

\* Whatever is no publish is justified.
LEMMA SoundOther == ASSUME NEW p, NEW lit, p.type # "PUBLISH" PROVE Sound(p, lit)
  BY DEF Sound

\* A stream without new publishes stays justified.
LEMMA NoNewSound ==
    ASSUME NoNewPublish, NEW lit, AllSound(toServer, lit)
    PROVE  AllSound(toServer', lit)
  BY SoundOther DEF NoNewPublish, AllSound

\* The packet that is read comes from the stream, as long as packets are read whole.
LEMMA ReadFlow ==
    ASSUME TypeOK, CallShape, InStep, OurStep, intact'
    PROVE  /\ intact /\ unacked' = unacked
           /\ \/ toClient' = toClient /\ readbuf' \in {readbuf, NoPacket}
              \/ toClient # <<>> /\ toClient' = toClient /\ readbuf' = Head(toClient)
              \/ toClient # <<>> /\ toClient' = Tail(toClient) /\ readbuf' = readbuf
<1>0. intact
  BY IntactSteps DEF OurStep, OurCall, Call
<1>1. CASE OurCall
  BY <1>0, <1>1 DEF OurCall, CallConnect, CallSubscribe, CallWithTopic, CallYield, Begin, Refuse,
     Return
<1>2. CASE SendRequest \/ SendFails \/ WaitTimesOut \/ StartCycle
  BY <1>0, <1>2 DEF SendRequest, SendFails, Written, NotWritten, WaitTimesOut, StartCycle, Fail,
     Return, ResendInflight
<1>3. CASE HeaderTimesOut \/ ReadHeader \/ ReadLength \/ ReadBody
  BY <1>0, <1>3 DEF HeaderTimesOut, ReadHeader, ReadLength, ReadBody, ReadStep
<1>4. ~LengthTimesOut /\ ~BodyCut
  BY DEF LengthTimesOut, BodyCut
<1>5. ~ReadJunk
  BY <1>0 DEF ReadJunk, ReadStep, InStep
<1>6. CASE HandleOther \/ SendPuback \/ PubackFails \/ Keepalive \/ DeliverMessage
  BY <1>0, <1>6 DEF HandleOther, SendPuback, PubackFails, Keepalive, CycleEnds, DeliverMessage,
     Written, NotWritten, Return
<1>7. CASE FinishConnect \/ FinishSubscribe \/ FinishUnsubscribe \/ FinishPublish
  BY <1>0, <1>7 DEF FinishConnect, FinishSubscribe, FinishUnsubscribe, FinishPublish, Return,
     ResendInflight
<1>8. CASE TimerExpires \/ KeepAliveElapses
  BY <1>0, <1>8 DEF TimerExpires, KeepAliveElapses
<1> QED BY <1>1, <1>2, <1>3, <1>4, <1>5, <1>6, <1>7, <1>8 DEF OurStep, ClientStep, QuietStep

\* Every step of the client keeps what is under way justified.
LEMMA ClientFlow ==
    ASSUME BaseInv, NEW lit, Flow(lit), OurStep
    PROVE  Flow(lit)'
<1> SUFFICES ASSUME intact'
             PROVE  /\ AllSound(toServer', lit)
                    /\ AllSound(toClient', lit)
                    /\ AllSound(unacked', lit)
                    /\ Sound(readbuf', lit)
  BY DEF Flow
<1>0. TypeOK /\ CallShape /\ InStep /\ NoOwnPublish
  BY DEF BaseInv
<1>1. /\ AllSound(toServer, lit) /\ AllSound(toClient, lit)
      /\ AllSound(unacked, lit) /\ Sound(readbuf, lit)
  BY <1>0, ReadFlow DEF Flow
<1>2. toClient \in Seq(ServerPacket)
  BY <1>0 DEF TypeOK, BrokerTypes
<1>3. AllSound(toServer', lit)
  BY <1>0, <1>1, ClientNoNew, NoNewSound
<1>4. AllSound(unacked', lit)
  BY <1>0, <1>1, ReadFlow
<1>5. Sound(NoPacket, lit)
  BY SoundOther DEF NoPacket
<1>6. AllSound(toClient', lit) /\ Sound(readbuf', lit)
  <2>1. toClient # <<>> => /\ AllSound(Tail(toClient), lit)
                           /\ Sound(Head(toClient), lit)
    BY <1>1, <1>2, SoundTail
  <2> QED BY <1>0, <1>1, <1>5, <2>1, ReadFlow
<1> QED BY <1>3, <1>4, <1>6

\* A reply of justified packets, to a stream of them.
LEMMA ReplyFlow ==
    ASSUME BrokerTypes, NEW lit, AllSound(toServer, lit), AllSound(toClient, lit),
           NEW type, NEW replies \in Seq(ServerPacket), Serve(type, replies),
           AllSound(replies, lit)
    PROVE  AllSound(toServer', lit) /\ AllSound(toClient', lit)
<1>1. toServer \in Seq(ClientPacket) /\ toServer # <<>> /\ toClient \in Seq(ServerPacket)
  BY DEF BrokerTypes, Serve
<1>2. toServer' = Tail(toServer) /\ toClient' = toClient \o replies
  BY DEF Serve
<1> QED BY <1>1, <1>2, SoundTail, SoundConcat

\* Replies of one packet and of none.
LEMMA OneSound ==
    ASSUME NEW p \in ServerPacket, NEW lit, Sound(p, lit)
    PROVE  <<p>> \in Seq(ServerPacket) /\ AllSound(<<p>>, lit)
  BY DEF AllSound

\* The empty sequence is justified.
LEMMA NoneSound ==
    ASSUME NEW S, NEW lit
    PROVE  <<>> \in Seq(S) /\ AllSound(<<>>, lit)
  BY DEF AllSound

\* Every step of the server passes on what is justified.
LEMMA ServerFlow ==
    ASSUME BrokerTypes, ServerRuns, NEW lit,
           AllSound(toServer, lit), AllSound(toClient, lit), AllSound(unacked, lit)
    PROVE  /\ AllSound(toServer', lit) /\ AllSound(toClient', lit)
           /\ AllSound(unacked', lit)
<1>0. unacked \in Seq(MessagePacket) /\ unacked \in Seq(ServerPacket)
  BY ServerPackets DEF BrokerTypes
<1>1. CASE AcceptConnect
  <2> DEFINE kept == IF Request.clean THEN <<>> ELSE unacked
             replies == <<Connack(0)>> \o kept
  <2>1. Serve("CONNECT", replies) /\ unacked' = kept
    BY <1>1 DEF AcceptConnect
  <2>2. kept \in Seq(ServerPacket) /\ AllSound(kept, lit)
    BY <1>0, NoneSound
  <2>3. <<Connack(0)>> \in Seq(ServerPacket) /\ AllSound(<<Connack(0)>>, lit)
    <3>1. Connack(0) \in ServerPacket /\ Sound(Connack(0), lit)
      BY ServerPackets, SoundOther DEF Connack
    <3> QED BY <3>1, OneSound
  <2> HIDE DEF kept
  <2>4. replies \in Seq(ServerPacket) /\ AllSound(replies, lit)
    BY <2>2, <2>3, ConcatFacts, SoundConcat
  <2> HIDE DEF replies
  <2> QED BY <2>1, <2>2, <2>4, ReplyFlow
<1>2. CASE RefuseConnect
  <2>1. Connack(5) \in ServerPacket /\ Sound(Connack(5), lit)
    BY ServerPackets, SoundOther DEF Connack
  <2> QED BY <1>2, <2>1, OneSound, ReplyFlow DEF RefuseConnect
<1>3. CASE LinkLost
  BY <1>3, NoneSound DEF LinkLost
<1>4. CASE ServeSubscribe
  <2>1. PICK code \in {0, 1, Refused} : Serve("SUBSCRIBE", <<Suback(Request.id, code)>>)
    BY <1>4 DEF ServeSubscribe
  <2>2. Request \in ClientPacket /\ Request.type = "SUBSCRIBE"
    BY <2>1, TailFacts DEF Serve, Request, BrokerTypes
  <2>3. Request.id \in 0 .. MaxPacketId
    BY <2>2, RequestFields DEF PacketIds
  <2>4. Suback(Request.id, code) \in ServerPacket /\ Sound(Suback(Request.id, code), lit)
    <3>1. Suback(Request.id, code) \in ServerPacket
      BY <2>3, ServerPackets
    <3>2. Suback(Request.id, code).type # "PUBLISH"
      BY DEF Suback
    <3> QED BY <3>1, <3>2, SoundOther
  <2>5. unacked' = unacked
    BY <1>4 DEF ServeSubscribe
  <2> QED BY <2>1, <2>4, <2>5, OneSound, ReplyFlow
<1>5. CASE ServePublish
  <2> DEFINE p == Request
             echo == Message(p.topic, p.qos, p.payload)
             subscribed == granted[p.topic] # Unsubscribed
             ack == IF p.qos = 1 THEN <<Puback(p.id)>> ELSE <<>>
             back == IF subscribed THEN <<echo>> ELSE <<>>
  <2>1. Serve("PUBLISH", ack \o back)
        /\ (IF subscribed THEN Sent(echo) ELSE UNCHANGED <<unacked, pubs>>)
    BY <1>5 DEF ServePublish
  <2>2. toServer \in Seq(ClientPacket) /\ toServer # <<>> /\ p = Head(toServer) /\ p.type = "PUBLISH"
    BY <2>1 DEF Serve, Request, BrokerTypes
  <2>3. p \in ClientPacket /\ Sound(p, lit)
    BY <2>2, TailFacts, SoundTail
  <2>4. p.topic \in Topics /\ p.qos \in {0, 1} /\ p.id \in 0 .. MaxPacketId /\ p.payload \in Payloads
    BY <2>2, <2>3, RequestFields
  <2>5. echo \in MessagePacket /\ echo \in ServerPacket
    BY <2>4, MessageType
  <2>6. Sound(echo, lit)
    BY <2>2, <2>3 DEF Message, Publish, Sound
  <2>7. Puback(p.id) \in ServerPacket /\ Sound(Puback(p.id), lit)
    BY <2>4, ServerPackets, SoundOther DEF Puback
  <2> HIDE DEF p, echo
  <2>8. ack \in Seq(ServerPacket) /\ AllSound(ack, lit)
    BY <2>7, OneSound, NoneSound
  <2>9. back \in Seq(ServerPacket) /\ AllSound(back, lit)
    BY <2>5, <2>6, OneSound, NoneSound
  <2> HIDE DEF ack, back
  <2>10. ack \o back \in Seq(ServerPacket) /\ AllSound(ack \o back, lit)
    BY <2>8, <2>9, ConcatFacts, SoundConcat
  <2>11. AllSound(toServer', lit) /\ AllSound(toClient', lit)
    BY <2>1, <2>10, ReplyFlow
  <2>12. unacked' = unacked \/ unacked' = Append(unacked, echo)
    BY <2>1 DEF Sent
  <2>13. AllSound(unacked', lit)
    <3>1. unacked \in Seq(MessagePacket)
      BY <1>0
    <3>2. AllSound(Append(unacked, echo), lit)
      BY <2>5, <2>6, <3>1, SoundAppend
    <3> QED BY <2>12, <3>2
  <2> QED BY <2>11, <2>13
<1>6. CASE ServePuback
  <2> DEFINE k == CHOOSE k \in Acknowledged(Request.id) : TRUE
  <2>1. unacked' = unacked \/ (k \in DOMAIN unacked
            /\ unacked' = SubSeq(unacked, 1, k - 1) \o SubSeq(unacked, k + 1, Len(unacked)))
    BY <1>6 DEF ServePuback, Acknowledged
  <2> HIDE DEF k
  <2>2. AllSound(unacked', lit)
    <3>1. ASSUME NEW j \in DOMAIN unacked
          PROVE  AllSound(SubSeq(unacked, 1, j - 1) \o SubSeq(unacked, j + 1, Len(unacked)), lit)
      <4>1. unacked \in Seq(MessagePacket)
        BY <1>0
      <4> QED BY <3>1, <4>1, SoundWithout
    <3> QED BY <2>1, <3>1
  <2>3. Serve("PUBACK", <<>>)
    BY <1>6 DEF ServePuback
  <2> QED BY <2>2, <2>3, NoneSound, ReplyFlow
<1>7. CASE ServePingreq
  <2>1. Pingresp \in ServerPacket /\ Sound(Pingresp, lit)
    BY ServerPackets, SoundOther DEF Pingresp
  <2> QED BY <1>7, <2>1, OneSound, ReplyFlow DEF ServePingreq
<1> QED BY <1>1, <1>2, <1>3, <1>4, <1>5, <1>6, <1>7 DEF ServerRuns, CloseLink, LinkDrop

\* Outside parse() the sensors stay, and no command is forgotten.
LEMMA SourcesGrow ==
    ASSUME MainTypes, [StationNext]_stationVars, ~Parse
    PROVE  sensors' = sensors /\ Sources \subseteq Sources'
<1>1. sensors' = sensors /\ \A t \in Topics : commanded[t] \subseteq commanded'[t]
  <2>1. CASE UserCommand
    <3>1. sensors' = sensors /\ commanded \in [Topics -> SUBSET Payloads]
      BY <2>1 DEF UserCommand, MainTypes
    <3>2. PICK t, c : commanded' = [commanded EXCEPT ![t] = @ \cup {c}]
      BY <2>1 DEF UserCommand
    <3> QED BY <3>1, <3>2
  <2>2. CASE ~UserCommand
    <3>1. UNCHANGED <<sensors, commanded>>
      BY <2>2 DEF StationNext, MainStep, ReadFile, TcpConnect, MqttConnect, MqttConnected,
         SubscribeTopics, Loop, UpdateSensorData, SweepEnds, Yield, Wait, TimerSensor, ClocksRun,
         Blink, ClientRuns, Deliver, stationVars, mainVars
    <3> QED BY <3>1
  <2> QED BY <2>1, <2>2
<1> QED BY <1>1 DEF Sources, Positions, Outputs

\* What is under way stays sound when only the commands grow.
LEMMA CoversBack ==
    ASSUME MainTypes, [StationNext]_stationVars, ~Parse, NEW lit, Covers(lit)'
    PROVE  Covers(lit)
<1>1. Sources \subseteq Sources'
  BY SourcesGrow
<1> QED BY <1>1 DEF Covers, Closed

\* A command is sound once it is given: if it reads as 1 its topic is a source.
LEMMA CommandSound ==
    ASSUME MainTypes, NEW v \in {0, 1}, NEW nul \in UserEnds, NEW t \in Topics,
           commanded' = [commanded EXCEPT ![t] = @ \cup {Text(v, nul)}],
           NEW lit, Covers(lit)'
    PROVE  \A q, id : Sound(Publish(t, q, id, Text(v, nul)), lit)
<1>1. Text(v, nul) \in commanded'[t]
  BY DEF MainTypes
<1>2. 1 \in Atoi(Text(v, nul)) => t \in Sources'
  BY <1>1 DEF Sources
<1>3. Sources' \subseteq lit
  BY DEF Covers
<1>4. Text(v, nul).number \in {0, 1}
  BY DEF Text
<1> QED BY <1>2, <1>3, <1>4 DEF Sound, Publish

\* A command keeps what is under way sound.
LEMMA UserFlow ==
    ASSUME BaseInv, NEW lit, Flow(lit), UserCommand, Covers(lit)'
    PROVE  Flow(lit)'
<1>0. TypeOK /\ BrokerTypes /\ MainTypes
  BY DEF BaseInv, TypeOK
<1>1. UNCHANGED clientVars
  BY DEF UserCommand
<1> SUFFICES ASSUME intact
             PROVE  /\ AllSound(toServer', lit) /\ AllSound(toClient', lit)
                    /\ AllSound(unacked', lit)
  BY <1>1 DEF Flow
<1>2. PICK v \in {0, 1}, nul \in UserEnds :
        \/ \E t \in Topics :
            /\ UserPublish(t, Text(v, nul))
            /\ commanded' = [commanded EXCEPT ![t] = @ \cup {Text(v, nul)}]
        \/ /\ ServeSubscribeEarly(Text(v, nul))
           /\ commanded' = [commanded EXCEPT ![Request.topic] = @ \cup {Text(v, nul)}]
  BY DEF UserCommand
<1>3. Text(v, nul) \in Payloads
  OBVIOUS
<1>4. unacked \in Seq(MessagePacket) /\ toClient \in Seq(ServerPacket)
  BY <1>0 DEF BrokerTypes
<1>5. AllSound(toServer, lit) /\ AllSound(toClient, lit) /\ AllSound(unacked, lit)
  BY DEF Flow
<1>6. ASSUME NEW t \in Topics, UserPublish(t, Text(v, nul)),
             commanded' = [commanded EXCEPT ![t] = @ \cup {Text(v, nul)}]
      PROVE  /\ AllSound(toServer', lit) /\ AllSound(toClient', lit)
             /\ AllSound(unacked', lit)
  <2> DEFINE p == Message(t, 1, Text(v, nul))
  <2>1. /\ toClient' = Append(toClient, p) /\ UNCHANGED toServer
        /\ unacked' = unacked \/ unacked' = Append(unacked, p)
    BY <1>6 DEF UserPublish
  <2>2. p \in MessagePacket /\ p \in ServerPacket
    BY <1>0, <1>3, MessageType
  <2>3. Sound(p, lit)
    <3>1. \A q, id : Sound(Publish(t, q, id, Text(v, nul)), lit)
      BY <1>0, <1>6, CommandSound
    <3> QED BY <3>1 DEF Message
  <2> HIDE DEF p
  <2>4. AllSound(toClient', lit)
    BY <1>4, <1>5, <2>1, <2>2, <2>3, SoundAppend
  <2>5. AllSound(Append(unacked, p), lit)
    BY <1>4, <1>5, <2>2, <2>3, SoundAppend
  <2> QED BY <1>5, <2>1, <2>4, <2>5
<1>7. ASSUME ServeSubscribeEarly(Text(v, nul)),
             commanded' = [commanded EXCEPT ![Request.topic] = @ \cup {Text(v, nul)}]
      PROVE  /\ AllSound(toServer', lit) /\ AllSound(toClient', lit)
             /\ AllSound(unacked', lit)
  <2> DEFINE t == Request.topic
             p == Publish(t, 1, pubs + 1, Text(v, nul))
             answer == Suback(Request.id, 1)
  <2>1. Serve("SUBSCRIBE", <<p, answer>>) /\ Sent(p)
    BY <1>7 DEF ServeSubscribeEarly
  <2>2. t \in Topics
    BY <1>0, <1>7, EarlyTopic
  <2>3. p \in MessagePacket /\ p \in ServerPacket
    BY <1>0, <1>3, <2>2, ServerPackets DEF BrokerTypes
  <2>4. answer \in ServerPacket /\ Sound(answer, lit)
    <3>1. Request \in ClientPacket /\ Request.type = "SUBSCRIBE"
      BY <1>0, <2>1, TailFacts DEF Serve, Request, BrokerTypes
    <3>2. Request.id \in 0 .. MaxPacketId
      BY <3>1, RequestFields DEF PacketIds
    <3>3. answer \in ServerPacket
      BY <3>2, ServerPackets
    <3>4. answer.type # "PUBLISH"
      BY DEF Suback
    <3> QED BY <3>3, <3>4, SoundOther
  <2>5. Sound(p, lit)
    <3>1. \A q, id : Sound(Publish(t, q, id, Text(v, nul)), lit)
      BY <1>0, <1>7, <2>2, CommandSound
    <3> QED BY <3>1
  <2> HIDE DEF p, answer
  <2>6. <<p, answer>> \in Seq(ServerPacket) /\ AllSound(<<p, answer>>, lit)
    BY <2>3, <2>4, <2>5 DEF AllSound
  <2>7. AllSound(toServer', lit) /\ AllSound(toClient', lit)
    BY <1>0, <1>5, <2>1, <2>6, ReplyFlow
  <2>8. AllSound(Append(unacked, p), lit)
    BY <1>4, <1>5, <2>3, <2>5, SoundAppend
  <2>9. unacked' = unacked \/ unacked' = Append(unacked, p)
    BY <2>1 DEF Sent
  <2> QED BY <1>5, <2>7, <2>8, <2>9
<1> QED BY <1>2, <1>6, <1>7

\* The sweep publishes a 1 for an output only if its pin is on, and a sensor of
\* another kind is a source itself.
LEMMA SweepSound ==
    ASSUME MainTypes, NEW lit, Covers(lit), Lit(lit), intact, NEW n \in DOMAIN sensors, NEW d,
           NEW p, p = Publish(sensors[n].topic, 0, 0, Text(Reading(sensors[n], pins[n], d), TRUE))
    PROVE  Sound(p, lit)
<1>1. p.topic = sensors[n].topic /\ p.payload.number = Reading(sensors[n], pins[n], d)
      /\ p.payload.nul = TRUE
  BY DEF Publish, Text
<1>2. sensors[n].topic \in Topics
  BY SensorTypes
<1> SUFFICES ASSUME 1 \in Atoi(p.payload) PROVE p.topic \in lit /\ p.payload.number = 1
  BY DEF Sound
<1>3. p.payload.number = 1
  BY <1>1 DEF Atoi
<1>4. CASE sensors[n].type = "dOut"
  BY <1>1, <1>3, <1>4 DEF Reading, Lit
<1>5. CASE sensors[n].type # "dOut"
  <2>1. n \in Positions \ Outputs
    BY <1>5 DEF Positions, Outputs
  <2> QED BY <1>1, <1>3, <2>1 DEF Sources, Covers
<1> QED BY <1>4, <1>5

\* A pass of updateSensorData() keeps what is under way sound.
LEMMA SweepFlow ==
    ASSUME BaseInv, NEW lit, Flow(lit), Covers(lit), Lit(lit), UpdateSensorData
    PROVE  Flow(lit)'
<1>0. BrokerTypes /\ MainTypes
  BY DEF BaseInv, TypeOK
<1>1. i \in DOMAIN sensors /\ (UNCHANGED vars \/ Publishes(i, dht'))
  BY <1>0, SweepKinds
<1>2. CASE UNCHANGED vars
  BY <1>2 DEF vars, Flow
<1>3. CASE Publishes(i, dht')
  <2> DEFINE p == Publish(sensors[i].topic, 0, 0, Text(Reading(sensors[i], pins[i], dht'), TRUE))
  <2>1. toServer' = Append(toServer, p) /\ UNCHANGED <<toClient, sessionVars, clientVars>>
    BY <1>3 DEF Publishes
  <2>2. ASSUME intact PROVE Sound(p, lit)
    BY <1>0, <1>1, <2>2, SweepSound
  <2> HIDE DEF p
  <2>3. ASSUME intact PROVE AllSound(toServer', lit)
    <3>1. toServer \in Seq(ClientPacket \cup {p}) /\ p \in ClientPacket \cup {p}
      BY <1>0 DEF BrokerTypes
    <3>2. AllSound(toServer, lit)
      BY <2>3 DEF Flow
    <3> QED BY <2>1, <2>2, <2>3, <3>1, <3>2, SoundAppend
  <2> QED BY <2>1, <2>3 DEF Flow
<1> QED BY <1>1, <1>2, <1>3

\* messageArrived() turns an output on only for a message that reads as 1, on a
\* topic from which the output's is reached.
LEMMA ArrivedOn ==
    ASSUME MainTypes, NEW lit, Covers(lit), Lit(lit), Sound(readbuf, lit), intact, Deliver,
           NEW n \in DOMAIN sensors, sensors[n].type = "dOut", pins'[n] = 1
    PROVE  sensors[n].topic \in lit
<1>1. CASE pins'[n] = pins[n]
  BY <1>1 DEF Lit
<1>2. CASE pins'[n] # pins[n]
  <2>1. MessageArrived(readbuf) /\ readbuf.type = "PUBLISH"
    BY <1>2 DEF Deliver, DeliverMessage
  <2>2. PICK value \in Atoi(readbuf.payload) :
            pins' = [m \in Positions |-> IF m \in Outputs /\ Addressed(readbuf, sensors[m].topic)
                                             /\ value \in {0, 1}
                                          THEN value ELSE pins[m]]
    BY <2>1 DEF MessageArrived
  <2>3. Addressed(readbuf, sensors[n].topic) /\ value = 1
    BY <1>2, <2>2 DEF Positions
  <2>4. readbuf.topic \in lit /\ readbuf.payload.number \in {0, 1}
    BY <2>1, <2>2, <2>3 DEF Sound
  <2>5. Reaches(readbuf.topic, sensors[n].topic)
    BY <2>3, <2>4 DEF Addressed, Reaches
  <2>6. sensors[n].topic \in Topics
    BY SensorTypes
  <2> QED BY <2>4, <2>5, <2>6 DEF Covers, Closed
<1> QED BY <1>1, <1>2

\* parse() finds nothing under way and turns nothing on.
LEMMA ParseOutput ==
    ASSUME BaseInv, Parse, NEW lit
    PROVE  Flow(lit)' /\ Lit(lit)'
<1>0. CallShape /\ DownIsEmpty /\ MainTypes /\ Booting /\ TypeOK
  BY DEF BaseInv
<1>1. /\ toServer = <<>> /\ toClient = <<>> /\ unacked = <<>> /\ readbuf = NoPacket
      /\ UNCHANGED vars /\ sensors = <<>>
  BY <1>0 DEF Parse, Booting, DownIsEmpty, CallShape
<1>2. Flow(lit)'
  BY <1>1, NoneSound, SoundOther DEF Flow, vars, NoPacket
<1>3. \A n \in DOMAIN sensors' : pins'[n] = 0
  <2>1. MainTypes'
    BY MainKept DEF StationNext, MainStep
  <2>2. CASE UNCHANGED <<sensors, pins>>
    BY <1>1, <2>2
  <2>3. ASSUME NEW k, pins' = [n \in k |-> 0] PROVE \A n \in DOMAIN sensors' : pins'[n] = 0
    BY <2>1, <2>3 DEF MainTypes
  <2> QED BY <2>2, <2>3 DEF Parse
<1> QED BY <1>2, <1>3 DEF Lit

\* Every step keeps the invariant, for each set that covers the sources after it.
LEMMA OutputStep ==
    ASSUME BaseInv, OutputInv, [StationNext]_stationVars
    PROVE  OutputInv'
<1>0. /\ TypeOK /\ BrokerTypes /\ CallShape /\ DownIsEmpty /\ InStep
      /\ MainTypes /\ Booting
  BY DEF BaseInv, TypeOK
<1> SUFFICES ASSUME NEW lit \in SUBSET Topics, Covers(lit)'
             PROVE  Flow(lit)' /\ Lit(lit)'
  BY DEF OutputInv
<1>1. CASE Parse
  BY <1>1, ParseOutput
<1> SUFFICES ASSUME ~Parse
             PROVE  Flow(lit)' /\ Lit(lit)'
  BY <1>1
<1>2. Covers(lit) /\ Flow(lit) /\ Lit(lit) /\ sensors' = sensors
  BY <1>0, CoversBack, SourcesGrow DEF OutputInv
<1>3. ASSUME UNCHANGED pins, intact' => intact PROVE Lit(lit)'
  BY <1>2, <1>3 DEF Lit
<1>4. CASE UpdateSensorData
  <2>1. UNCHANGED <<pins, intact>>
    BY <1>0, <1>4, SweepKinds DEF UpdateSensorData, Publishes, vars
  <2> QED BY <1>2, <1>3, <1>4, <2>1, SweepFlow
<1>5. CASE UserCommand
  <2>1. UNCHANGED <<pins, intact>>
    BY <1>5 DEF UserCommand
  <2> QED BY <1>2, <1>3, <1>5, <2>1, UserFlow
<1>6. CASE Deliver
  <2>1. OurStep /\ UNCHANGED intact
    BY <1>6 DEF Deliver, DeliverMessage, OurStep, ClientStep
  <2>2. Flow(lit)'
    BY <1>2, <2>1, ClientFlow
  <2>3. intact => Sound(readbuf, lit)
    BY <1>2 DEF Flow
  <2>4. Lit(lit)'
    BY <1>0, <1>2, <1>6, <2>1, <2>3, ArrivedOn DEF Lit
  <2> QED BY <2>2, <2>4
<1>7. CASE ServerRuns /\ UNCHANGED <<clientVars, mainVars>>
  <2>1. UNCHANGED <<pins, intact, readbuf>>
    BY <1>7 DEF mainVars
  <2>2. ASSUME intact
        PROVE  /\ AllSound(toServer', lit) /\ AllSound(toClient', lit)
               /\ AllSound(unacked', lit)
    BY <1>0, <1>2, <1>7, <2>2, ServerFlow DEF Flow
  <2> QED BY <1>2, <1>3, <2>1, <2>2 DEF Flow
<1>8. ASSUME UNCHANGED pins, OurStep \/ Opens \/ UNCHANGED vars
      PROVE  Flow(lit)' /\ Lit(lit)'
  <2>1. CASE OurStep
    <3>1. intact' => intact
      BY <1>0, <2>1, ReadFlow
    <3> QED BY <1>2, <1>3, <1>8, <2>1, <3>1, ClientFlow
  <2>2. CASE Opens \/ UNCHANGED vars
    <3>1. UNCHANGED <<toServer, toClient, unacked, readbuf, intact>>
      BY <2>2 DEF Opens, LinkOpened, vars
    <3> QED BY <1>2, <1>3, <1>8, <3>1 DEF Flow
  <2> QED BY <1>8, <2>1, <2>2
<1>9. CASE ReadFile \/ TcpConnect \/ MqttConnect \/ MqttConnected \/ SubscribeTopics \/ Loop
           \/ SweepEnds \/ Yield \/ Wait \/ TimerSensor \/ ClocksRun \/ Blink
           \/ UNCHANGED stationVars \/ (QuietStep /\ UNCHANGED mainVars)
  <2>1. UNCHANGED pins
    BY <1>9 DEF ReadFile, TcpConnect, MqttConnect, MqttConnected, SubscribeTopics, Loop,
       SweepEnds, Yield, Wait, TimerSensor, ClocksRun, Blink, stationVars, mainVars
  <2>2. i \in Outputs => sensors[i].topic \in Topics
    BY <1>0, SensorTypes DEF Outputs, Positions
  <2>3. OurStep \/ Opens \/ UNCHANGED vars
    BY <1>9, <2>2 DEF ReadFile, TcpConnect, MqttConnect, MqttConnected, SubscribeTopics, Loop,
       SweepEnds, Yield, Wait, TimerSensor, ClocksRun, Blink, stationVars, OurStep, OurCall,
       Opens, ClientStep, vars
  <2> QED BY <1>8, <2>1, <2>3
<1> QED BY <1>4, <1>5, <1>6, <1>7, <1>9 DEF StationNext, MainStep, ClientRuns

\* The sets that cover the sources are those OutputNeedsCommand speaks of.
LEMMA OutputInvSays == OutputInv => OutputNeedsCommand
  BY DEF OutputInv, OutputNeedsCommand, Covers, Lit, Outputs, Positions

\* For every configuration and whatever the topics' spelling and the ends of the
\* payloads: an output is on only if a message from outside, one that reads as 1
\* on a topic that messageArrived() takes for it, directly or through the outputs
\* that the sweep publishes, can have come to it, as long as packets are read
\* whole (messageArrived, updateSensorData).
THEOREM OutputsCommanded == StationSpec => []OutputNeedsCommand
<1>1. StationInit => OutputInv
  <2>1. ASSUME StationInit, NEW lit PROVE Flow(lit)
    BY <2>1, NoneSound, SoundOther DEF StationInit, BrokerInit, ClientInit, Flow, NoPacket
  <2>2. ASSUME StationInit, NEW lit PROVE Lit(lit)
    BY <2>2 DEF StationInit, Lit
  <2> QED BY <2>1, <2>2 DEF OutputInv
<1>2. BaseInv /\ OutputInv /\ [StationNext]_stationVars => OutputInv'
  BY OutputStep
<1> QED BY <1>1, <1>2, OutputInvSays, StationInvariance, PTL DEF StationSpec
=============================================================================
