-------------------------- MODULE MQTTClientProofs --------------------------
(***************************************************************************)
(* Proofs about MQTTClient: its invariants hold for every set of topics    *)
(* and payloads, every number of handlers, calls, links and packets under  *)
(* way, and every largest packet id.                                       *)
(*                                                                         *)
(* IndInv is inductive.  The steps are sorted by what they do to requests  *)
(* and answers: a client step asks (AskingSend), takes a packet off the    *)
(* stream (TakePacket), opens a link (Reopen) or does neither (Frame); a   *)
(* server step answers nothing (PlainStep), a request (AnswerStep) or a    *)
(* CONNECT (ConnectStep), or loses the link.                               *)
(***************************************************************************)
EXTENDS MQTTClient, SequenceTheorems, WellFoundedInduction, TLAPS

USE ClientAssumption
USE DEF brokerVars, linkVars, sessionVars, objectVars, callVars, historyVars, clientVars

\* What Append gives, for the packets the client writes.
LEMMA AppendFacts ==
    ASSUME NEW S, NEW s \in Seq(S), NEW e \in S
    PROVE  /\ Append(s, e) \in Seq(S)
           /\ Len(Append(s, e)) = Len(s) + 1
           /\ DOMAIN Append(s, e) = 1 .. Len(s) + 1
           /\ \A k \in 1 .. Len(s) : Append(s, e)[k] = s[k]
           /\ Append(s, e)[Len(s) + 1] = e
  OBVIOUS

\* What is left of a stream when its first packet is taken.
LEMMA TailFacts ==
    ASSUME NEW S, NEW s \in Seq(S), s # <<>>
    PROVE  /\ Tail(s) \in Seq(S)
           /\ Head(s) = s[1] /\ Head(s) \in S
           /\ Len(s) \in Nat \ {0} /\ Len(Tail(s)) = Len(s) - 1
           /\ DOMAIN Tail(s) = 1 .. Len(s) - 1
           /\ \A k \in 1 .. Len(s) - 1 : Tail(s)[k] = s[k + 1]
  OBVIOUS

\* What a stream is after the replies of the server were written to it.
LEMMA ConcatFacts ==
    ASSUME NEW S, NEW s \in Seq(S), NEW t \in Seq(S)
    PROVE  /\ s \o t \in Seq(S)
           /\ Len(s \o t) = Len(s) + Len(t)
           /\ DOMAIN (s \o t) = 1 .. Len(s) + Len(t)
           /\ \A k \in 1 .. Len(s) : (s \o t)[k] = s[k]
           /\ \A k \in 1 .. Len(t) : (s \o t)[Len(s) + k] = t[k]
  OBVIOUS

\* The packets that the server and the deserialisers build have the type of a
\* server packet.
LEMMA ServerPackets ==
    /\ \A c \in {0, 5, 255} : Connack(c) \in ServerPacket
    /\ \A id \in 0 .. MaxPacketId, c \in {0, 1, Refused, 255} : Suback(id, c) \in ServerPacket
    /\ \A id \in 0 .. MaxPacketId : Unsuback(id) \in ServerPacket /\ Puback(id) \in ServerPacket
    /\ Pingresp \in ServerPacket
    /\ MessagePacket \subseteq ServerPacket
    /\ \A t \in Topics \cup {NoTopic}, q \in {0, 1}, id \in Nat, v \in Payloads :
        Publish(t, q, id, v) \in MessagePacket
  BY DEF ServerPacket, MessagePacket, Connack, Suback, Unsuback, Puback, Pingresp, Publish

\* PacketId::getNext wraps: the next id is a packet id.
LEMMA GetNextType == TypeOK => GetNext \in PacketIds /\ GetNext \in 0 .. MaxPacketId
  BY DEF TypeOK, ObjectTypes, GetNext, PacketIds

\* The packets that the client serialises have the type of a client packet.
LEMMA ClientPackets ==
    /\ \A c \in BOOLEAN : [type |-> "CONNECT", clean |-> c] \in ClientPacket
    /\ \A id \in PacketIds, t \in Topics :
        /\ [type |-> "SUBSCRIBE", id |-> id, topic |-> t] \in ClientPacket
        /\ [type |-> "UNSUBSCRIBE", id |-> id, topic |-> t] \in ClientPacket
    /\ \A t \in Topics, q \in {0, 1}, id \in 0 .. MaxPacketId, v \in Payloads :
        Publish(t, q, id, v) \in PublishPacket
    /\ PublishPacket \subseteq ClientPacket
    /\ \A id \in Nat : Puback(id) \in ClientPacket
    /\ [type |-> "PINGREQ"] \in ClientPacket /\ [type |-> "DISCONNECT"] \in ClientPacket
  BY DEF ClientPacket, PublishPacket, Publish, Puback

\* Every call of the API keeps the types.
LEMMA TypeCalls == ASSUME TypeOK, Call PROVE TypeOK'
<1>1. ASSUME NEW c \in BOOLEAN, CallConnect(c) PROVE TypeOK'
  <2>1. BrokerTypes'
    BY <1>1 DEF CallConnect, TypeOK, BrokerTypes
  <2>2. ObjectTypes'
    BY <1>1, ClientPackets DEF CallConnect, Begin, Refuse, Return, TypeOK, ObjectTypes
  <2>3. CallTypes'
    BY <1>1, ClientPackets DEF CallConnect, Counted, Begin, Refuse, Return, TypeOK,
       CallTypes
  <2> QED BY <2>1, <2>2, <2>3 DEF TypeOK
<1>2. ASSUME NEW t \in Topics, CallSubscribe(t) PROVE TypeOK'
  <2>1. BrokerTypes'
    BY <1>2 DEF CallSubscribe, CallWithTopic, TypeOK, BrokerTypes
  <2>2. ObjectTypes'
    BY <1>2, ClientPackets, GetNextType DEF CallSubscribe, CallWithTopic, Begin, Refuse,
       Return, TypeOK, ObjectTypes
  <2>3. request' \in ClientPacket \cup {NoPacket}
    BY <1>2, ClientPackets, GetNextType DEF CallSubscribe, CallWithTopic, Begin, Refuse,
       Return
  <2>4. CallTypes'
    BY <1>2, <2>3 DEF CallSubscribe, CallWithTopic, Counted, Begin, Refuse, Return, TypeOK,
       CallTypes
  <2> QED BY <2>1, <2>2, <2>4 DEF TypeOK
<1>3. ASSUME NEW t \in Topics, CallUnsubscribe(t) PROVE TypeOK'
  <2>1. BrokerTypes'
    BY <1>3 DEF CallUnsubscribe, CallWithTopic, TypeOK, BrokerTypes
  <2>2. ObjectTypes'
    BY <1>3, ClientPackets, GetNextType DEF CallUnsubscribe, CallWithTopic, Begin, Refuse,
       Return, TypeOK, ObjectTypes
  <2>3. request' \in ClientPacket \cup {NoPacket}
    BY <1>3, ClientPackets, GetNextType DEF CallUnsubscribe, CallWithTopic, Begin, Refuse,
       Return
  <2>4. CallTypes'
    BY <1>3, <2>3 DEF CallUnsubscribe, CallWithTopic, Counted, Begin, Refuse, Return,
       TypeOK, CallTypes
  <2> QED BY <2>1, <2>2, <2>4 DEF TypeOK
<1>4. ASSUME NEW t \in Topics, NEW q \in {0, 1}, NEW v \in Payloads, CallPublish(t, q, v)
      PROVE  TypeOK'
  <2>1. BrokerTypes'
    BY <1>4 DEF CallPublish, TypeOK, BrokerTypes
  <2>2. ObjectTypes'
    BY <1>4, ClientPackets, GetNextType DEF CallPublish, Begin, Refuse, Return, TypeOK,
       ObjectTypes
  <2>3. CallTypes'
    BY <1>4, ClientPackets, GetNextType DEF CallPublish, Counted, Begin, Refuse, Return,
       TypeOK, CallTypes
  <2> QED BY <2>1, <2>2, <2>3 DEF TypeOK
<1>5. ASSUME CallDisconnect PROVE TypeOK'
  <2>1. BrokerTypes'
    BY <1>5 DEF CallDisconnect, TypeOK, BrokerTypes
  <2>2. ObjectTypes'
    BY <1>5, ClientPackets DEF CallDisconnect, Begin, Refuse, Return, TypeOK, ObjectTypes
  <2>3. CallTypes'
    BY <1>5, ClientPackets DEF CallDisconnect, Counted, Begin, Refuse, Return, TypeOK,
       CallTypes
  <2> QED BY <2>1, <2>2, <2>3 DEF TypeOK
<1>6. ASSUME CallYield PROVE TypeOK'
  <2>1. BrokerTypes'
    BY <1>6 DEF CallYield, TypeOK, BrokerTypes
  <2>2. ObjectTypes'
    BY <1>6 DEF CallYield, Begin, Refuse, Return, TypeOK, ObjectTypes
  <2>3. CallTypes'
    BY <1>6 DEF CallYield, Counted, Begin, Refuse, Return, TypeOK, CallTypes
  <2> QED BY <2>1, <2>2, <2>3 DEF TypeOK
<1> QED BY <1>1, <1>2, <1>3, <1>4, <1>5, <1>6 DEF Call
\* A write of a client packet keeps the types of the link.
LEMMA WrittenTypes ==
    ASSUME BrokerTypes, NEW p \in ClientPacket, Written(p)
    PROVE  BrokerTypes'
<1>1. toServer \in Seq(ClientPacket)
  BY DEF BrokerTypes
<1>2. toServer' = toServer \/ toServer' = Append(toServer, p)
  BY DEF Written
<1>3. toServer' \in Seq(ClientPacket)
  BY <1>1, <1>2, AppendFacts
<1> QED BY <1>3 DEF BrokerTypes, Written

\* A call that is about to send has a packet to send.
LEMMA RequestToSend == TypeOK /\ CallShape /\ pc = "send" => request \in ClientPacket
  BY DEF TypeOK, CallTypes, CallShape, NoPacket

\* A message that is about to be acknowledged has an id.
LEMMA FetchedPublish == TypeOK /\ CallShape /\ pc = "ack" => readbuf.id \in Nat
  BY DEF TypeOK, CallTypes, CallShape, ServerPacket, MessagePacket, NoPacket

\* What connect sends again, if anything, is a client packet.
LEMMA KeptPublish == TypeOK => inflight \in ClientPacket \cup {NoPacket}
  BY ClientPackets DEF TypeOK, ObjectTypes

\* The first packet of the stream is a server packet.
LEMMA HeadType ==
    BrokerTypes /\ toClient # <<>> => Head(toClient) \in ServerPacket
  BY DEF BrokerTypes

\* The stream stays one of server packets when the first is taken off.
LEMMA TailType ==
    BrokerTypes /\ toClient # <<>> => Tail(toClient) \in Seq(ServerPacket)
  BY DEF BrokerTypes

\* What readPacket makes of the middle of a packet is a server packet or
\* nothing.
LEMMA JunkType == BrokerTypes => Junk \subseteq ServerPacket \cup {NoPacket}
  BY ServerPackets DEF Junk

\* What the deserialisers make of a packet without a length is a server packet.
LEMMA TruncatedType ==
    ASSUME BrokerTypes, NEW p \in ServerPacket
    PROVE  Truncated(p) \subseteq ServerPacket
<1>1. CASE p.type = "PUBLISH"
  <2>1. p.qos \in {0, 1}
    BY <1>1 DEF ServerPacket, MessagePacket
  <2>2. 0 .. pubs \subseteq Nat
    BY DEF BrokerTypes
  <2>3. Truncated(p) = {Publish(t, p.qos, id, v) : t \in Topics \cup {NoTopic},
                                        id \in 0 .. pubs, v \in Payloads}
    BY <1>1 DEF Truncated
  <2> QED BY <2>1, <2>2, <2>3, ServerPackets
<1>2. CASE p.type \in {"CONNACK", "SUBACK", "UNSUBACK"}
  BY <1>2, ServerPackets DEF Truncated
<1>3. CASE p.type = "PUBACK"
  <2>1. Truncated(p) = {Puback(id) : id \in 0 .. MaxPacketId}
    BY <1>3 DEF Truncated
  <2> QED BY <2>1, ServerPackets
<1>4. CASE p.type \notin {"CONNACK", "SUBACK", "UNSUBACK", "PUBACK", "PUBLISH"}
  BY <1>4 DEF Truncated
<1> QED BY <1>1, <1>2, <1>3, <1>4

\* Every step of a call, of the clock and of the application keeps the types.
LEMMA TypeSteps ==
    ASSUME TypeOK, CallShape, ClientStep \/ TimerExpires \/ KeepAliveElapses \/ Reopen
    PROVE  TypeOK'
<1>1. CASE SendRequest
  <2>1. BrokerTypes'
    BY <1>1, RequestToSend, WrittenTypes DEF SendRequest, Return, CallShape, TypeOK,
       BrokerTypes
  <2>2. ObjectTypes'
    BY <1>1 DEF SendRequest, Return, Written, CallShape, TypeOK, ObjectTypes
  <2>3. CallTypes'
    BY <1>1 DEF SendRequest, Return, CallShape, TypeOK, CallTypes
  <2> QED BY <2>1, <2>2, <2>3 DEF TypeOK
<1>2. CASE SendFails
  BY <1>2 DEF SendFails, Fail, Return, NotWritten, TypeOK, BrokerTypes, ObjectTypes,
     CallTypes
<1>3. CASE WaitTimesOut
  <2>1. BrokerTypes'
    BY <1>3 DEF WaitTimesOut, Fail, Return, ResendInflight, CallShape, TypeOK, BrokerTypes
  <2>2. ObjectTypes'
    BY <1>3 DEF WaitTimesOut, Fail, Return, ResendInflight, CallShape, TypeOK, ObjectTypes
  <2>3. CallTypes'
    BY <1>3, KeptPublish DEF WaitTimesOut, Fail, Return, ResendInflight, CallShape, TypeOK,
       CallTypes
  <2> QED BY <2>1, <2>2, <2>3 DEF TypeOK
<1>4. CASE StartCycle
  BY <1>4 DEF StartCycle, NextRead, TypeOK, BrokerTypes, ObjectTypes, CallTypes
<1>5. CASE HeaderTimesOut
  BY <1>5 DEF HeaderTimesOut, ReadStep, TypeOK, BrokerTypes, ObjectTypes, CallTypes
<1>6. CASE ReadHeader
  <2>1. BrokerTypes'
    BY <1>6 DEF ReadHeader, NextRead, ReadStep, CallShape, TypeOK, BrokerTypes
  <2>2. ObjectTypes'
    BY <1>6 DEF ReadHeader, NextRead, ReadStep, CallShape, TypeOK, ObjectTypes
  <2>3. CallTypes'
    BY <1>6, HeadType DEF ReadHeader, NextRead, ReadStep, CallShape, TypeOK, CallTypes
  <2> QED BY <2>1, <2>2, <2>3 DEF TypeOK
<1>7. CASE ReadLength
  <2>1. BrokerTypes'
    <3>1. toClient' \in Seq(ServerPacket)
      BY <1>7, TailType DEF ReadLength, NextRead, TypeOK, BrokerTypes
    <3> QED BY <1>7, <3>1 DEF ReadLength, ReadStep, TypeOK, BrokerTypes
  <2>2. ObjectTypes'
    BY <1>7 DEF ReadLength, NextRead, ReadStep, CallShape, TypeOK, ObjectTypes
  <2>3. CallTypes'
    BY <1>7 DEF ReadLength, NextRead, ReadStep, CallShape, TypeOK, CallTypes
  <2> QED BY <2>1, <2>2, <2>3 DEF TypeOK
<1>8. CASE ReadBody
  <2>1. BrokerTypes'
    BY <1>8, TailType DEF ReadBody, ReadStep, TypeOK, BrokerTypes
  <2>2. ObjectTypes'
    BY <1>8 DEF ReadBody, ReadStep, TypeOK, ObjectTypes
  <2>3. CallTypes'
    BY <1>8 DEF ReadBody, ReadStep, TypeOK, CallTypes
  <2> QED BY <2>1, <2>2, <2>3 DEF TypeOK
<1>9. CASE LengthTimesOut
  <2>1. BrokerTypes'
    BY <1>9 DEF LengthTimesOut, ReadStep, CallShape, TypeOK, BrokerTypes
  <2>2. ObjectTypes'
    BY <1>9 DEF LengthTimesOut, ReadStep, CallShape, TypeOK, ObjectTypes
  <2>3. CallTypes'
    BY <1>9, TruncatedType DEF LengthTimesOut, ReadStep, CallShape, TypeOK, CallTypes
  <2> QED BY <2>1, <2>2, <2>3 DEF TypeOK
<1>10. CASE BodyCut
  <2>1. BrokerTypes'
    BY <1>10 DEF BodyCut, ReadStep, TypeOK, BrokerTypes
  <2>2. ObjectTypes'
    BY <1>10 DEF BodyCut, ReadStep, TypeOK, ObjectTypes
  <2>3. CallTypes'
    BY <1>10 DEF BodyCut, ReadStep, TypeOK, CallTypes
  <2> QED BY <2>1, <2>2, <2>3 DEF TypeOK
<1>11. CASE ReadJunk
  <2>1. BrokerTypes'
    BY <1>11 DEF ReadJunk, ReadStep, CallShape, TypeOK, BrokerTypes
  <2>2. ObjectTypes'
    BY <1>11 DEF ReadJunk, ReadStep, CallShape, TypeOK, ObjectTypes
  <2>3. CallTypes'
    BY <1>11, JunkType DEF ReadJunk, ReadStep, CallShape, TypeOK, CallTypes
  <2> QED BY <2>1, <2>2, <2>3 DEF TypeOK
<1>12. CASE HandleOther
  BY <1>12 DEF HandleOther, TypeOK, BrokerTypes, ObjectTypes, CallTypes
<1>13. CASE SendPuback
  <2>1. BrokerTypes'
    BY <1>13, FetchedPublish, ClientPackets, WrittenTypes DEF SendPuback, CallShape, TypeOK,
       BrokerTypes
  <2>2. ObjectTypes'
    BY <1>13 DEF SendPuback, Written, CallShape, TypeOK, ObjectTypes
  <2>3. CallTypes'
    BY <1>13 DEF SendPuback, CallShape, TypeOK, CallTypes
  <2> QED BY <2>1, <2>2, <2>3 DEF TypeOK
<1>14. CASE PubackFails
  BY <1>14 DEF PubackFails, NotWritten, Return, TypeOK, BrokerTypes, ObjectTypes, CallTypes
<1>15. CASE Keepalive
  <2>1. BrokerTypes'
    BY <1>15, ClientPackets, WrittenTypes DEF Keepalive, CycleEnds, NotWritten, CallShape,
       TypeOK, BrokerTypes
  <2>2. ObjectTypes'
    BY <1>15 DEF Keepalive, CycleEnds, NotWritten, Written, CallShape, TypeOK, ObjectTypes
  <2>3. CallTypes'
    BY <1>15 DEF Keepalive, CycleEnds, NotWritten, CallShape, TypeOK, CallTypes
  <2> QED BY <2>1, <2>2, <2>3 DEF TypeOK
<1>16. CASE FinishConnect
  <2>1. BrokerTypes'
    BY <1>16 DEF FinishConnect, Answered, ResendInflight, Return, CallShape, TypeOK,
       BrokerTypes
  <2>2. ObjectTypes'
    BY <1>16 DEF FinishConnect, Answered, ResendInflight, Return, CallShape, TypeOK,
       ObjectTypes
  <2>3. CallTypes'
    BY <1>16, KeptPublish DEF FinishConnect, Answered, ResendInflight, Return, CallShape,
       TypeOK, CallTypes
  <2> QED BY <2>1, <2>2, <2>3 DEF TypeOK
<1>17. CASE FinishSubscribe
  <2>1. BrokerTypes'
    BY <1>17 DEF FinishSubscribe, Answered, Return, CallShape, TypeOK, BrokerTypes
  <2>2. ObjectTypes'
    <3>1. request.topic \in Topics
      BY <1>17 DEF FinishSubscribe, Answered, CallShape, TypeOK, CallTypes, ClientPacket,
                   PublishPacket, NoPacket
    <3>2. messageHandlers' \in [Slots -> Topics \cup {NoTopic}]
      BY <1>17, <3>1 DEF FinishSubscribe, TypeOK, ObjectTypes
    <3> QED BY <1>17, <3>2 DEF FinishSubscribe, TypeOK, ObjectTypes
  <2>3. CallTypes'
    BY <1>17 DEF FinishSubscribe, Answered, Return, CallShape, TypeOK, CallTypes
  <2> QED BY <2>1, <2>2, <2>3 DEF TypeOK
<1>18. CASE FinishUnsubscribe
  BY <1>18 DEF FinishUnsubscribe, Answered, Return, TypeOK, BrokerTypes, ObjectTypes,
     CallTypes
<1>19. CASE FinishPublish
  BY <1>19 DEF FinishPublish, Return, TypeOK, BrokerTypes, ObjectTypes, CallTypes
<1>20. CASE DeliverMessage
  BY <1>20 DEF DeliverMessage, TypeOK, BrokerTypes, ObjectTypes, CallTypes
<1>21. CASE TimerExpires
  BY <1>21 DEF TimerExpires, TypeOK, BrokerTypes, ObjectTypes, CallTypes
<1>22. CASE KeepAliveElapses
  <2>1. BrokerTypes'
    BY <1>22 DEF KeepAliveElapses, TypeOK, BrokerTypes
  <2>2. ObjectTypes'
    BY <1>22 DEF KeepAliveElapses, TypeOK, ObjectTypes
  <2>3. CallTypes'
    BY <1>22 DEF KeepAliveElapses, TypeOK, CallTypes
  <2> QED BY <2>1, <2>2, <2>3 DEF TypeOK
<1>23. CASE Reopen
  BY <1>23 DEF Reopen, LinkOpened, TypeOK, BrokerTypes, ObjectTypes, CallTypes
<1> QED
  BY <1>1, <1>2, <1>3, <1>4, <1>5, <1>6, <1>7, <1>8, <1>9, <1>10, <1>11, <1>12, <1>13,
     <1>14, <1>15, <1>16, <1>17, <1>18, <1>19, <1>20, <1>21, <1>22, <1>23 DEF ClientStep,
     QuietStep

\* No packet is the value that stands for no packet.
LEMMA PacketNotNone == NoPacket \notin ServerPacket /\ NoPacket \notin ClientPacket
  BY DEF NoPacket, ServerPacket, MessagePacket, ClientPacket, PublishPacket

\* The types of packet that readbuf can hold.
LEMMA ReadTypes ==
    TypeOK => readbuf.type \in {"none", "CONNACK", "SUBACK", "UNSUBACK", "PUBACK", "PINGRESP", "PUBLISH"}
  BY DEF TypeOK, CallTypes, NoPacket, ServerPacket, MessagePacket

\* A publish that is sent has QoS 0 or 1.
LEMMA RequestQos == TypeOK /\ request.type = "PUBLISH" => request.qos \in {0, 1}
  BY DEF TypeOK, CallTypes, NoPacket, ClientPacket, PublishPacket

\* No step of the client puts anything on a link that is down, or touches the
\* session.
LEMMA DownSteps ==
    ASSUME TypeOK, DownIsEmpty, NewIsEmpty,
           Call \/ ClientStep \/ TimerExpires \/ KeepAliveElapses \/ Reopen
    PROVE  DownIsEmpty' /\ NewIsEmpty'
<1>1. CASE Call
  BY <1>1 DEF Call, CallConnect, CallSubscribe, CallUnsubscribe, CallWithTopic, CallPublish,
     CallDisconnect, CallYield, Counted, Begin, Refuse, Return, TypeOK, BrokerTypes,
     DownIsEmpty, NewIsEmpty, NoSubscriptions
<1>2. CASE SendRequest
  BY <1>2 DEF SendRequest, Written, DownIsEmpty, NewIsEmpty
<1>3. CASE SendFails \/ WaitTimesOut \/ StartCycle
  BY <1>3 DEF SendFails, NotWritten, WaitTimesOut, StartCycle, DownIsEmpty, NewIsEmpty
<1>4. CASE HeaderTimesOut \/ ReadHeader \/ ReadLength \/ ReadBody
  BY <1>4 DEF HeaderTimesOut, ReadHeader, NextRead, ReadLength, ReadBody, ReadStep, TypeOK,
     BrokerTypes, DownIsEmpty, NewIsEmpty, NoSubscriptions
<1>5. CASE LengthTimesOut \/ BodyCut \/ ReadJunk
  <2>1. link' = link /\ toServer' = toServer /\ UNCHANGED sessionVars
    BY <1>5 DEF LengthTimesOut, BodyCut, ReadJunk, ReadStep
  <2>2. link = "down" => toClient' = toClient /\ offset' = offset
    BY <1>5 DEF LengthTimesOut, BodyCut, ReadJunk, DownIsEmpty
  <2> QED BY <2>1, <2>2 DEF DownIsEmpty, NewIsEmpty
<1>6. CASE HandleOther \/ DeliverMessage \/ SendPuback \/ PubackFails
  BY <1>6 DEF HandleOther, DeliverMessage, SendPuback, PubackFails, Written, NotWritten,
     Return, TypeOK, BrokerTypes, DownIsEmpty, NewIsEmpty, NoSubscriptions
<1>7. CASE Keepalive
  BY <1>7 DEF Keepalive, CycleEnds, Written, NotWritten, TypeOK, BrokerTypes, DownIsEmpty,
     NewIsEmpty, NoSubscriptions
<1>8. CASE FinishConnect \/ FinishSubscribe \/ FinishUnsubscribe \/ FinishPublish
  BY <1>8 DEF FinishConnect, FinishSubscribe, FinishUnsubscribe, FinishPublish, Answered,
     ResendInflight, Return, TypeOK, BrokerTypes, DownIsEmpty, NewIsEmpty, NoSubscriptions
<1>9. CASE TimerExpires \/ KeepAliveElapses \/ Reopen
  BY <1>9 DEF TimerExpires, KeepAliveElapses, Reopen, LinkOpened, TypeOK, BrokerTypes,
     DownIsEmpty, NewIsEmpty, NoSubscriptions
<1> QED
  BY <1>1, <1>2, <1>3, <1>4, <1>5, <1>6, <1>7, <1>8, <1>9 DEF ClientStep, QuietStep

\* Every step of the client keeps what a place in a call says about the call.
LEMMA ShapeSteps ==
    ASSUME TypeOK, CallShape,
           Call \/ ClientStep \/ TimerExpires \/ KeepAliveElapses \/ Reopen
    PROVE  CallShape'
<1>1. ASSUME NEW c \in BOOLEAN, CallConnect(c) PROVE CallShape'
  BY <1>1 DEF CallConnect, Counted, Begin, Refuse, Return, TypeOK, ObjectTypes, CallTypes,
     CallShape, Awaited, NoPacket
<1>2. ASSUME NEW t \in Topics, CallSubscribe(t) PROVE CallShape'
  BY <1>2 DEF CallSubscribe, CallWithTopic, Counted, Begin, Refuse, Return, TypeOK,
     ObjectTypes, CallTypes, CallShape, Awaited, NoPacket
<1>3. ASSUME NEW t \in Topics, CallUnsubscribe(t) PROVE CallShape'
  BY <1>3 DEF CallUnsubscribe, CallWithTopic, Counted, Begin, Refuse, Return, TypeOK,
     ObjectTypes, CallTypes, CallShape, Awaited, NoPacket
<1>4. ASSUME NEW t \in Topics, NEW q \in {0, 1}, NEW v \in Payloads, CallPublish(t, q, v)
      PROVE  CallShape'
  BY <1>4 DEF CallPublish, Counted, Begin, Refuse, Return, Publish, TypeOK, ObjectTypes,
     CallTypes, CallShape, Awaited, NoPacket
<1>5. ASSUME CallDisconnect PROVE CallShape'
  BY <1>5 DEF CallDisconnect, Counted, Begin, TypeOK, ObjectTypes, CallTypes, CallShape,
     Awaited, NoPacket
<1>6. ASSUME CallYield PROVE CallShape'
  BY <1>6 DEF CallYield, TypeOK, ObjectTypes, CallTypes, CallShape, Awaited, NoPacket
<1>7. CASE SendRequest
  BY <1>7, RequestQos DEF SendRequest, Written, Return, TypeOK, ObjectTypes, CallTypes,
     CallShape, Awaited, NoPacket
<1>8. CASE SendFails
  BY <1>8 DEF SendFails, NotWritten, Fail, Return, TypeOK, ObjectTypes, CallTypes,
     CallShape, Awaited, NoPacket
<1>9. CASE WaitTimesOut
  BY <1>9 DEF WaitTimesOut, Fail, Return, ResendInflight, TypeOK, ObjectTypes, CallTypes,
     CallShape, Awaited, NoPacket
<1>10. CASE StartCycle
  BY <1>10 DEF StartCycle, NextRead, TypeOK, ObjectTypes, CallTypes, CallShape, Awaited, NoPacket
<1>11. CASE HeaderTimesOut
  BY <1>11 DEF HeaderTimesOut, ReadStep, NoData, TypeOK, ObjectTypes, CallTypes, CallShape,
     Awaited, NoPacket
<1>12. CASE ReadHeader
  <2>1. Head(toClient) # NoPacket
    BY <1>12, HeadType, PacketNotNone DEF ReadHeader, NextRead, TypeOK
  <2> QED BY <1>12, <2>1 DEF ReadHeader, ReadStep, TypeOK, CallTypes, CallShape, Awaited
<1>13. CASE ReadLength
  BY <1>13 DEF ReadLength, NextRead, ReadStep, TypeOK, ObjectTypes, CallTypes, CallShape, Awaited,
     NoPacket
<1>14. CASE ReadBody
  BY <1>14 DEF ReadBody, ReadStep, TypeOK, ObjectTypes, CallTypes, CallShape, Awaited,
     NoPacket
<1>15. CASE LengthTimesOut
  <2>1. readbuf \in ServerPacket
    BY <1>15 DEF LengthTimesOut, ReadStep, CallShape, TypeOK, CallTypes
  <2>2. readbuf' \in ServerPacket
    BY <1>15, <2>1, TruncatedType DEF LengthTimesOut, TypeOK
  <2> QED BY <1>15, <2>2, PacketNotNone DEF LengthTimesOut, ReadStep, TypeOK, CallTypes,
     CallShape, Awaited
<1>16. CASE BodyCut
  BY <1>16 DEF BodyCut, ReadStep, NoData, TypeOK, ObjectTypes, CallTypes, CallShape,
     Awaited, NoPacket
<1>17. CASE ReadJunk
  BY <1>17 DEF ReadJunk, ReadStep, TypeOK, ObjectTypes, CallTypes, CallShape, Awaited,
     NoPacket
<1>18. CASE HandleOther
  BY <1>18 DEF HandleOther, TypeOK, ObjectTypes, CallTypes, CallShape, Awaited, NoPacket
<1>19. CASE SendPuback
  BY <1>19 DEF SendPuback, Written, TypeOK, ObjectTypes, CallTypes, CallShape, Awaited,
     NoPacket
<1>20. CASE PubackFails
  BY <1>20 DEF PubackFails, NotWritten, Return, TypeOK, ObjectTypes, CallTypes, CallShape,
     Awaited, NoPacket
<1>21. CASE Keepalive
  <2>1. readbuf.type = Awaited => op \notin {"none", "yield", "disconnect"}
    BY <1>21, ReadTypes DEF Keepalive, CallShape, Awaited
  <2> QED BY <1>21, <2>1 DEF Keepalive, CycleEnds, CallShape, Awaited
<1>22. CASE FinishConnect
  BY <1>22 DEF FinishConnect, Answered, ResendInflight, Return, TypeOK, ObjectTypes,
     CallTypes, CallShape, Awaited, NoPacket
<1>23. CASE FinishSubscribe
  BY <1>23 DEF FinishSubscribe, Answered, Return, TypeOK, ObjectTypes, CallTypes, CallShape,
     Awaited, NoPacket
<1>24. CASE FinishUnsubscribe
  BY <1>24 DEF FinishUnsubscribe, Answered, Return, TypeOK, ObjectTypes, CallTypes,
     CallShape, Awaited, NoPacket
<1>25. CASE FinishPublish
  BY <1>25 DEF FinishPublish, Return, TypeOK, ObjectTypes, CallTypes, CallShape, Awaited,
     NoPacket
<1>26. CASE DeliverMessage
  BY <1>26 DEF DeliverMessage, TypeOK, ObjectTypes, CallTypes, CallShape, Awaited, NoPacket
<1>27. CASE TimerExpires
  BY <1>27 DEF TimerExpires, TypeOK, ObjectTypes, CallTypes, CallShape, Awaited, NoPacket
<1>28. CASE KeepAliveElapses
  BY <1>28 DEF KeepAliveElapses, TypeOK, ObjectTypes, CallTypes, CallShape, Awaited,
     NoPacket
<1>29. CASE Reopen
  BY <1>29 DEF Reopen, LinkOpened, TypeOK, ObjectTypes, CallTypes, CallShape, Awaited,
     NoPacket
<1> QED
  BY <1>1, <1>2, <1>3, <1>4, <1>5, <1>6, <1>7, <1>8, <1>9, <1>10, <1>11, <1>12, <1>13,
     <1>14, <1>15, <1>16, <1>17, <1>18, <1>19, <1>20, <1>21, <1>22, <1>23, <1>24, <1>25,
     <1>26, <1>27, <1>28, <1>29 DEF Call, ClientStep, QuietStep

\* The reader stays in step with the stream as long as no read ends inside a
\* packet.
LEMMA InStepSteps ==
    ASSUME TypeOK, CallShape, DownIsEmpty, InStep,
           Call \/ ClientStep \/ TimerExpires \/ KeepAliveElapses \/ Reopen
    PROVE  InStep'
<1>1. ASSUME NEW c \in BOOLEAN, CallConnect(c) PROVE InStep'
  BY <1>1 DEF CallConnect, Counted, Begin, Refuse, Return, TypeOK, CallShape, DownIsEmpty,
     BrokerTypes, CallTypes, InStep, HasBody
<1>2. ASSUME NEW t \in Topics, CallSubscribe(t) PROVE InStep'
  BY <1>2 DEF CallSubscribe, CallWithTopic, Counted, Begin, Refuse, Return, TypeOK,
     CallShape, DownIsEmpty, BrokerTypes, CallTypes, InStep, HasBody
<1>3. ASSUME NEW t \in Topics, CallUnsubscribe(t) PROVE InStep'
  BY <1>3 DEF CallUnsubscribe, CallWithTopic, Counted, Begin, Refuse, Return, TypeOK,
     CallShape, DownIsEmpty, BrokerTypes, CallTypes, InStep, HasBody
<1>4. ASSUME NEW t \in Topics, NEW q \in {0, 1}, NEW v \in Payloads, CallPublish(t, q, v)
      PROVE  InStep'
  BY <1>4 DEF CallPublish, Counted, Begin, Refuse, Return, Publish, TypeOK, CallShape,
     DownIsEmpty, BrokerTypes, CallTypes, InStep, HasBody
<1>5. ASSUME CallDisconnect PROVE InStep'
  BY <1>5 DEF CallDisconnect, Counted, Begin, TypeOK, CallShape, DownIsEmpty, BrokerTypes,
     CallTypes, InStep, HasBody
<1>6. ASSUME CallYield PROVE InStep'
  BY <1>6 DEF CallYield, TypeOK, CallShape, DownIsEmpty, BrokerTypes, CallTypes, InStep,
     HasBody
<1>7. CASE SendRequest
  BY <1>7 DEF SendRequest, Written, Return, TypeOK, CallShape, DownIsEmpty, BrokerTypes,
     CallTypes, InStep, HasBody
<1>8. CASE SendFails
  BY <1>8 DEF SendFails, NotWritten, Fail, Return, TypeOK, CallShape, DownIsEmpty,
     BrokerTypes, CallTypes, InStep, HasBody
<1>9. CASE WaitTimesOut
  BY <1>9 DEF WaitTimesOut, Fail, Return, ResendInflight, TypeOK, CallShape, DownIsEmpty,
     BrokerTypes, CallTypes, InStep, HasBody
<1>10. CASE StartCycle
  BY <1>10 DEF StartCycle, NextRead, TypeOK, CallShape, DownIsEmpty, BrokerTypes, CallTypes,
     InStep, HasBody
<1>11. CASE HeaderTimesOut
  BY <1>11 DEF HeaderTimesOut, ReadStep, NoData, TypeOK, CallShape, DownIsEmpty,
     BrokerTypes, CallTypes, InStep, HasBody
<1>12. CASE ReadHeader
  BY <1>12 DEF ReadHeader, NextRead, ReadStep, TypeOK, CallShape, DownIsEmpty, BrokerTypes,
     CallTypes, InStep, HasBody
<1>13. CASE ReadLength
  BY <1>13 DEF ReadLength, NextRead, ReadStep, TypeOK, CallShape, DownIsEmpty, BrokerTypes,
     CallTypes, InStep, HasBody
<1>14. CASE ReadBody
  BY <1>14 DEF ReadBody, ReadStep, TypeOK, CallShape, DownIsEmpty, BrokerTypes, CallTypes,
     InStep, HasBody
<1>15. CASE LengthTimesOut
  BY <1>15 DEF LengthTimesOut, ReadStep, NoData, TypeOK, CallShape, DownIsEmpty,
     BrokerTypes, CallTypes, InStep, HasBody
<1>16. CASE BodyCut
  BY <1>16 DEF BodyCut, ReadStep, NoData, TypeOK, CallShape, DownIsEmpty, BrokerTypes,
     CallTypes, InStep, HasBody
<1>17. CASE ReadJunk
  BY <1>17 DEF ReadJunk, ReadStep, TypeOK, CallShape, DownIsEmpty, BrokerTypes, CallTypes,
     InStep, HasBody
<1>18. CASE HandleOther
  BY <1>18 DEF HandleOther, TypeOK, CallShape, DownIsEmpty, BrokerTypes, CallTypes, InStep,
     HasBody
<1>19. CASE SendPuback
  BY <1>19 DEF SendPuback, Written, TypeOK, CallShape, DownIsEmpty, BrokerTypes, CallTypes,
     InStep, HasBody
<1>20. CASE PubackFails
  BY <1>20 DEF PubackFails, NotWritten, Return, TypeOK, CallShape, DownIsEmpty, BrokerTypes,
     CallTypes, InStep, HasBody
<1>21. CASE Keepalive
  BY <1>21 DEF Keepalive, CycleEnds, Written, NotWritten, TypeOK, CallShape, DownIsEmpty,
     BrokerTypes, CallTypes, InStep, HasBody
<1>22. CASE FinishConnect
  BY <1>22 DEF FinishConnect, Answered, ResendInflight, Return, TypeOK, CallShape,
     DownIsEmpty, BrokerTypes, CallTypes, InStep, HasBody
<1>23. CASE FinishSubscribe
  BY <1>23 DEF FinishSubscribe, Answered, Return, TypeOK, CallShape, DownIsEmpty,
     BrokerTypes, CallTypes, InStep, HasBody
<1>24. CASE FinishUnsubscribe
  BY <1>24 DEF FinishUnsubscribe, Answered, Return, TypeOK, CallShape, DownIsEmpty,
     BrokerTypes, CallTypes, InStep, HasBody
<1>25. CASE FinishPublish
  BY <1>25 DEF FinishPublish, Return, TypeOK, CallShape, DownIsEmpty, BrokerTypes,
     CallTypes, InStep, HasBody
<1>26. CASE DeliverMessage
  BY <1>26 DEF DeliverMessage, TypeOK, CallShape, DownIsEmpty, BrokerTypes, CallTypes,
     InStep, HasBody
<1>27. CASE TimerExpires
  BY <1>27 DEF TimerExpires, TypeOK, CallShape, DownIsEmpty, BrokerTypes, CallTypes, InStep,
     HasBody
<1>28. CASE KeepAliveElapses
  BY <1>28 DEF KeepAliveElapses, TypeOK, CallShape, DownIsEmpty, BrokerTypes, CallTypes,
     InStep, HasBody
<1>29. CASE Reopen
  BY <1>29 DEF Reopen, LinkOpened, TypeOK, CallShape, DownIsEmpty, BrokerTypes, CallTypes,
     InStep, HasBody
<1> QED
  BY <1>1, <1>2, <1>3, <1>4, <1>5, <1>6, <1>7, <1>8, <1>9, <1>10, <1>11, <1>12, <1>13,
     <1>14, <1>15, <1>16, <1>17, <1>18, <1>19, <1>20, <1>21, <1>22, <1>23, <1>24, <1>25,
     <1>26, <1>27, <1>28, <1>29 DEF Call, ClientStep, QuietStep

\* The last part of a packet is read.
TakePacket ==
    /\ pc \in {"length", "body"} /\ pc' = "handle"
    /\ toClient # <<>> /\ toClient' = Tail(toClient)
    /\ UNCHANGED <<readbuf, op, timer, request, isconnected, messageHandlers, inflight, intact,
                   link, toServer, sessionVars>>

\* The two reads that end a packet take it off the stream.
LEMMA ReadsTake ==
    /\ ReadBody => TakePacket
    /\ ReadLength /\ ~HasBody(readbuf) => TakePacket
  BY DEF ReadBody, ReadLength, NextRead, ReadStep, TakePacket

\* The packet that is taken off the stream is the one in readbuf.
LEMMA TakeFacts ==
    ASSUME TypeOK, DownIsEmpty, InStep, TakePacket, intact
    PROVE  /\ Len(toClient) \in Nat \ {0} /\ DOMAIN toClient = 1 .. Len(toClient)
           /\ DOMAIN toClient' = 1 .. Len(toClient) - 1
           /\ link = "up"
           /\ readbuf = toClient[1]
           /\ \A k \in 1 .. Len(toClient) - 1 : toClient'[k] = toClient[k + 1]
<1>1. toClient \in Seq(ServerPacket) /\ toClient # <<>>
  BY DEF TypeOK, BrokerTypes, TakePacket
<1>2. link = "up"
  BY <1>1 DEF DownIsEmpty, TypeOK, BrokerTypes
<1>3. readbuf = Head(toClient)
  BY <1>2 DEF InStep, TakePacket
<1> QED BY <1>1, <1>2, <1>3, TailFacts DEF TakePacket

\* Taking a packet off the stream keeps the order of refusals and the accept.
LEMMA TakeAccept ==
    ASSUME TypeOK, DownIsEmpty, InStep, OneAccept, TakePacket
    PROVE  OneAccept'
<1>0. SUFFICES ASSUME intact PROVE OneAccept'
  BY DEF OneAccept, TakePacket
<1>1. ASSUME ~accepted
      PROVE  (\A k \in DOMAIN toClient : toClient[k] = Connack(5))' /\ readbuf' \in {NoPacket, Connack(5)}
  BY <1>0, <1>1, TakeFacts DEF OneAccept, TakePacket
<1>2. ASSUME NEW i \in (DOMAIN toClient)', NEW k \in (DOMAIN toClient)', i < k,
             toClient'[k].type = "CONNACK"
      PROVE  toClient'[i] = Connack(5)
  <2>1. i + 1 \in DOMAIN toClient /\ k + 1 \in DOMAIN toClient /\ i + 1 < k + 1
    BY <1>0, <1>2, TakeFacts
  <2> QED BY <1>0, <1>2, <2>1, TakeFacts DEF OneAccept
<1>3. ASSUME readbuf' \notin {NoPacket, Connack(5)} PROVE NoConnack'
  <2>1. SUFFICES ASSUME NEW k \in (DOMAIN toClient)', toClient'[k].type = "CONNACK" PROVE FALSE
    BY DEF NoConnack
  <2>2. 1 \in DOMAIN toClient /\ k + 1 \in DOMAIN toClient /\ 1 < k + 1
    BY <1>0, <2>1, TakeFacts
  <2>3. toClient[1] = Connack(5)
    BY <1>0, <2>1, <2>2, TakeFacts DEF OneAccept
  <2> QED BY <1>0, <1>3, <2>3, TakeFacts DEF TakePacket
<1> QED BY <1>0, <1>1, <1>2, <1>3 DEF OneAccept, TakePacket

\* Every step of the client keeps the order of refusals and the accept.
LEMMA AcceptSteps ==
    ASSUME TypeOK, CallShape, DownIsEmpty, InStep, OneAccept,
           Call \/ ClientStep \/ TimerExpires \/ KeepAliveElapses \/ Reopen
    PROVE  OneAccept'
<1>1. ASSUME NEW c \in BOOLEAN, CallConnect(c) PROVE OneAccept'
  BY <1>1 DEF CallConnect, Counted, Begin, Refuse, Return, TypeOK, BrokerTypes, CallTypes,
     CallShape, DownIsEmpty, InStep, OneAccept, NoConnack, Fetched
<1>2. ASSUME NEW t \in Topics, CallSubscribe(t) PROVE OneAccept'
  BY <1>2 DEF CallSubscribe, CallWithTopic, Counted, Begin, Refuse, Return, TypeOK,
     BrokerTypes, CallTypes, CallShape, DownIsEmpty, InStep, OneAccept, NoConnack, Fetched
<1>3. ASSUME NEW t \in Topics, CallUnsubscribe(t) PROVE OneAccept'
  BY <1>3 DEF CallUnsubscribe, CallWithTopic, Counted, Begin, Refuse, Return, TypeOK,
     BrokerTypes, CallTypes, CallShape, DownIsEmpty, InStep, OneAccept, NoConnack, Fetched
<1>4. ASSUME NEW t \in Topics, NEW q \in {0, 1}, NEW v \in Payloads, CallPublish(t, q, v)
      PROVE  OneAccept'
  BY <1>4 DEF CallPublish, Counted, Begin, Refuse, Return, Publish, TypeOK, BrokerTypes,
     CallTypes, CallShape, DownIsEmpty, InStep, OneAccept, NoConnack, Fetched
<1>5. ASSUME CallDisconnect PROVE OneAccept'
  BY <1>5 DEF CallDisconnect, Counted, Begin, TypeOK, BrokerTypes, CallTypes, CallShape,
     DownIsEmpty, InStep, OneAccept, NoConnack, Fetched
<1>6. ASSUME CallYield PROVE OneAccept'
  BY <1>6 DEF CallYield, TypeOK, BrokerTypes, CallTypes, CallShape, DownIsEmpty, InStep,
     OneAccept, NoConnack, Fetched
<1>7. CASE SendRequest
  BY <1>7 DEF SendRequest, Written, Return, TypeOK, BrokerTypes, CallTypes, CallShape,
     DownIsEmpty, InStep, OneAccept, NoConnack, Fetched
<1>8. CASE SendFails
  BY <1>8 DEF SendFails, NotWritten, Fail, Return, TypeOK, BrokerTypes, CallTypes,
     CallShape, DownIsEmpty, InStep, OneAccept, NoConnack, Fetched
<1>9. CASE WaitTimesOut
  BY <1>9 DEF WaitTimesOut, Fail, Return, ResendInflight, TypeOK, BrokerTypes, CallTypes,
     CallShape, DownIsEmpty, InStep, OneAccept, NoConnack, Fetched
<1>10. CASE StartCycle
  BY <1>10 DEF StartCycle, NextRead, TypeOK, BrokerTypes, CallTypes, CallShape, DownIsEmpty,
     InStep, OneAccept, NoConnack, Fetched
<1>11. CASE HeaderTimesOut
  BY <1>11 DEF HeaderTimesOut, ReadStep, NoData, TypeOK, BrokerTypes, CallTypes, CallShape,
     DownIsEmpty, InStep, OneAccept, NoConnack, Fetched
<1>12. CASE ReadHeader
  BY <1>12 DEF ReadHeader, NextRead, ReadStep, TypeOK, BrokerTypes, CallTypes, CallShape,
     DownIsEmpty, InStep, OneAccept, NoConnack, Fetched
<1>13. CASE ReadLength
  <2>1. CASE HasBody(readbuf)
    BY <1>13, <2>1 DEF ReadLength, NextRead, ReadStep, TypeOK, BrokerTypes, CallTypes, CallShape,
       DownIsEmpty, InStep, OneAccept, NoConnack, Fetched
  <2>2. CASE ~HasBody(readbuf)
    BY <1>13, <2>2, ReadsTake, TakeAccept
  <2> QED BY <2>1, <2>2
<1>14. CASE ReadBody
  BY <1>14, ReadsTake, TakeAccept
<1>15. CASE LengthTimesOut
  BY <1>15 DEF LengthTimesOut, ReadStep, NoData, TypeOK, BrokerTypes, CallTypes, CallShape,
     DownIsEmpty, InStep, OneAccept, NoConnack, Fetched
<1>16. CASE BodyCut
  BY <1>16 DEF BodyCut, ReadStep, NoData, TypeOK, BrokerTypes, CallTypes, CallShape,
     DownIsEmpty, InStep, OneAccept, NoConnack, Fetched
<1>17. CASE ReadJunk
  BY <1>17 DEF ReadJunk, ReadStep, TypeOK, BrokerTypes, CallTypes, CallShape, DownIsEmpty,
     InStep, OneAccept, NoConnack, Fetched
<1>18. CASE HandleOther
  BY <1>18 DEF HandleOther, TypeOK, BrokerTypes, CallTypes, CallShape, DownIsEmpty, InStep,
     OneAccept, NoConnack, Fetched
<1>19. CASE SendPuback
  BY <1>19 DEF SendPuback, Written, TypeOK, BrokerTypes, CallTypes, CallShape, DownIsEmpty,
     InStep, OneAccept, NoConnack, Fetched
<1>20. CASE PubackFails
  BY <1>20 DEF PubackFails, NotWritten, Return, TypeOK, BrokerTypes, CallTypes, CallShape,
     DownIsEmpty, InStep, OneAccept, NoConnack, Fetched
<1>21. CASE Keepalive
  BY <1>21 DEF Keepalive, CycleEnds, Written, NotWritten, TypeOK, BrokerTypes, CallTypes,
     CallShape, DownIsEmpty, InStep, OneAccept, NoConnack, Fetched
<1>22. CASE FinishConnect
  BY <1>22 DEF FinishConnect, Answered, ResendInflight, Return, TypeOK, BrokerTypes,
     CallTypes, CallShape, DownIsEmpty, InStep, OneAccept, NoConnack, Fetched
<1>23. CASE FinishSubscribe
  BY <1>23 DEF FinishSubscribe, Answered, Return, TypeOK, BrokerTypes, CallTypes, CallShape,
     DownIsEmpty, InStep, OneAccept, NoConnack, Fetched
<1>24. CASE FinishUnsubscribe
  BY <1>24 DEF FinishUnsubscribe, Answered, Return, TypeOK, BrokerTypes, CallTypes,
     CallShape, DownIsEmpty, InStep, OneAccept, NoConnack, Fetched
<1>25. CASE FinishPublish
  BY <1>25 DEF FinishPublish, Return, TypeOK, BrokerTypes, CallTypes, CallShape,
     DownIsEmpty, InStep, OneAccept, NoConnack, Fetched
<1>26. CASE DeliverMessage
  BY <1>26 DEF DeliverMessage, TypeOK, BrokerTypes, CallTypes, CallShape, DownIsEmpty,
     InStep, OneAccept, NoConnack, Fetched
<1>27. CASE TimerExpires
  BY <1>27 DEF TimerExpires, TypeOK, BrokerTypes, CallTypes, CallShape, DownIsEmpty, InStep,
     OneAccept, NoConnack, Fetched
<1>28. CASE KeepAliveElapses
  BY <1>28 DEF KeepAliveElapses, TypeOK, BrokerTypes, CallTypes, CallShape, DownIsEmpty,
     InStep, OneAccept, NoConnack, Fetched
<1>29. CASE Reopen
  BY <1>29 DEF Reopen, LinkOpened, TypeOK, BrokerTypes, CallTypes, CallShape, DownIsEmpty,
     InStep, OneAccept, NoConnack, Fetched
<1> QED
  BY <1>1, <1>2, <1>3, <1>4, <1>5, <1>6, <1>7, <1>8, <1>9, <1>10, <1>11, <1>12, <1>13,
     <1>14, <1>15, <1>16, <1>17, <1>18, <1>19, <1>20, <1>21, <1>22, <1>23, <1>24, <1>25,
     <1>26, <1>27, <1>28, <1>29 DEF Call, ClientStep, QuietStep

\* The requests in the stream stay where they are, and none comes in.
SameAsks ==
    /\ \A k \in DOMAIN toServer : k \in (DOMAIN toServer)' /\ toServer'[k] = toServer[k]
    /\ \A k \in (DOMAIN toServer)' : Asks(toServer'[k]) => k \in DOMAIN toServer
    /\ DOMAIN toServer = 1 .. Len(toServer)
    /\ (DOMAIN toServer)' = 1 .. Len(toServer')
    /\ Len(toServer) \in Nat /\ Len(toServer') \in Nat

\* A step that neither asks nor takes an answer off the link.
Frame ==
    /\ SameAsks
    /\ UNCHANGED <<link, toClient, accepted, keepSession, granted>>
    /\ AnswerFetched' => AnswerFetched /\ readbuf' = readbuf
    /\ readbuf'.type = "CONNACK" => readbuf.type = "CONNACK" \/ ~NoConnack

\* The client waits for the CONNACK, or is about to send the kept publish.
Late == (op = "connect" /\ pc # "send") \/ (op = "resend" /\ pc = "send")

\* The kept publish can still make the connection.
Resending == op = "resend" /\ (pc # "send" \/ timer = "running")

\* A request goes out that is answered with its id.
AskingSend == SendRequest /\ Asks(request)

\* A step that does not write keeps the requests under way.
LEMMA SameQueue == TypeOK /\ toServer' = toServer => SameAsks
  BY DEF SameAsks, TypeOK, BrokerTypes

\* A write that asks for no answer keeps the requests under way.
LEMMA WriteOther ==
    ASSUME TypeOK, NEW p \in ClientPacket, ~Asks(p), Written(p)
    PROVE  SameAsks
<1>1. toServer \in Seq(ClientPacket)
  BY DEF TypeOK, BrokerTypes
<1>2. toServer' = toServer \/ toServer' = Append(toServer, p)
  BY DEF Written
<1>3. CASE toServer' = Append(toServer, p)
  BY <1>1, <1>3, AppendFacts DEF SameAsks
<1> QED BY <1>2, <1>3, SameQueue

\* A step of the client asks, takes a packet off the stream, opens a link, or
\* leaves requests and answers as they are.
LEMMA FrameSteps ==
    ASSUME TypeOK, CallShape, DownIsEmpty, InStep, intact',
           Call \/ ClientStep \/ TimerExpires \/ KeepAliveElapses \/ Reopen
    PROVE  Frame \/ (TakePacket /\ (ReadLength \/ ReadBody)) \/ AskingSend \/ Reopen
<1>1. ASSUME NEW c \in BOOLEAN, CallConnect(c) PROVE Frame
  <2>1. SameAsks
    BY <1>1, SameQueue DEF CallConnect, Counted, Begin, Refuse, Return
  <2> QED BY <1>1, <2>1, ReadTypes DEF CallConnect, Counted, Begin, Refuse, Return, Frame,
     AnswerFetched, Fetched, Answers, NoConnack, NoPacket, TypeOK, BrokerTypes, CallShape,
     InStep, HasBody
<1>2. ASSUME NEW t \in Topics, CallSubscribe(t) PROVE Frame
  <2>1. SameAsks
    BY <1>2, SameQueue DEF CallSubscribe, CallWithTopic, Counted, Begin, Refuse, Return
  <2> QED BY <1>2, <2>1, ReadTypes DEF CallSubscribe, CallWithTopic, Counted, Begin, Refuse,
     Return, Frame, AnswerFetched, Fetched, Answers, NoConnack, NoPacket, TypeOK,
     BrokerTypes, CallShape, InStep, HasBody
<1>3. ASSUME NEW t \in Topics, CallUnsubscribe(t) PROVE Frame
  <2>1. SameAsks
    BY <1>3, SameQueue DEF CallUnsubscribe, CallWithTopic, Counted, Begin, Refuse, Return
  <2> QED BY <1>3, <2>1, ReadTypes DEF CallUnsubscribe, CallWithTopic, Counted, Begin,
     Refuse, Return, Frame, AnswerFetched, Fetched, Answers, NoConnack, NoPacket, TypeOK,
     BrokerTypes, CallShape, InStep, HasBody
<1>4. ASSUME NEW t \in Topics, NEW q \in {0, 1}, NEW v \in Payloads, CallPublish(t, q, v)
      PROVE  Frame
  <2>1. SameAsks
    BY <1>4, SameQueue DEF CallPublish, Counted, Begin, Refuse, Return, Publish
  <2> QED BY <1>4, <2>1, ReadTypes DEF CallPublish, Counted, Begin, Refuse, Return, Publish,
     Frame, AnswerFetched, Fetched, Answers, NoConnack, NoPacket, TypeOK, BrokerTypes,
     CallShape, InStep, HasBody
<1>5. ASSUME CallDisconnect PROVE Frame
  <2>1. SameAsks
    BY <1>5, SameQueue DEF CallDisconnect, Counted, Begin
  <2> QED BY <1>5, <2>1, ReadTypes DEF CallDisconnect, Counted, Begin, Frame, AnswerFetched,
     Fetched, Answers, NoConnack, NoPacket, TypeOK, BrokerTypes, CallShape, InStep, HasBody
<1>6. ASSUME CallYield PROVE Frame
  <2>1. SameAsks
    BY <1>6, SameQueue DEF CallYield
  <2> QED BY <1>6, <2>1, ReadTypes DEF CallYield, Frame, AnswerFetched, Fetched, Answers,
     NoConnack, NoPacket, TypeOK, BrokerTypes, CallShape, InStep, HasBody
<1>7. CASE SendRequest /\ ~Asks(request)
  <2>1. SameAsks
    BY <1>7, RequestToSend, WriteOther DEF SendRequest
  <2> QED BY <1>7, <2>1, ReadTypes DEF SendRequest, Written, Return, Frame, AnswerFetched,
     Fetched, Answers, NoConnack, NoPacket, TypeOK, BrokerTypes, CallShape, InStep, HasBody
<1>8. CASE SendFails
  <2>1. SameAsks
    BY <1>8, SameQueue DEF SendFails, NotWritten, Fail, Return
  <2> QED BY <1>8, <2>1, ReadTypes DEF SendFails, NotWritten, Fail, Return, Frame,
     AnswerFetched, Fetched, Answers, NoConnack, NoPacket, TypeOK, BrokerTypes, CallShape,
     InStep, HasBody
<1>9. CASE WaitTimesOut
  <2>1. SameAsks
    BY <1>9, SameQueue DEF WaitTimesOut, Fail, Return, ResendInflight
  <2> QED BY <1>9, <2>1, ReadTypes DEF WaitTimesOut, Fail, Return, ResendInflight, Frame,
     AnswerFetched, Fetched, Answers, NoConnack, NoPacket, TypeOK, BrokerTypes, CallShape,
     InStep, HasBody
<1>10. CASE StartCycle
  <2>1. SameAsks
    BY <1>10, SameQueue DEF StartCycle, NextRead
  <2> QED BY <1>10, <2>1, ReadTypes DEF StartCycle, Frame, AnswerFetched, Fetched, Answers,
     NoConnack, NoPacket, TypeOK, BrokerTypes, CallShape, InStep, HasBody
<1>11. CASE HeaderTimesOut
  <2>1. SameAsks
    BY <1>11, SameQueue DEF HeaderTimesOut, ReadStep, NoData
  <2> QED BY <1>11, <2>1, ReadTypes DEF HeaderTimesOut, ReadStep, NoData, Frame,
     AnswerFetched, Fetched, Answers, NoConnack, NoPacket, TypeOK, BrokerTypes, CallShape,
     InStep, HasBody
<1>12. CASE ReadHeader
  <2>1. SameAsks
    BY <1>12, SameQueue DEF ReadHeader, NextRead, ReadStep
  <2> QED BY <1>12, <2>1, ReadTypes DEF ReadHeader, ReadStep, Frame, AnswerFetched, Fetched,
     Answers, NoConnack, NoPacket, TypeOK, BrokerTypes, CallShape, InStep, HasBody
<1>13. CASE ReadLength
  <2>1. CASE ~HasBody(readbuf)
    BY <1>13, <2>1, ReadsTake
  <2>2. CASE HasBody(readbuf)
    <3>1. SameAsks
      BY <1>13, SameQueue DEF ReadLength, NextRead, ReadStep
    <3>2. Frame
      BY <1>13, <2>2, <3>1 DEF ReadLength, NextRead, ReadStep, Frame, AnswerFetched, Fetched
    <3> QED BY <3>2
  <2> QED BY <2>1, <2>2
<1>14. CASE ReadBody
  BY <1>14, ReadsTake
<1>15. CASE LengthTimesOut
  BY <1>15 DEF LengthTimesOut
<1>16. CASE BodyCut
  BY <1>16 DEF BodyCut
<1>17. CASE ReadJunk
  BY <1>17 DEF ReadJunk, ReadStep, InStep
<1>18. CASE HandleOther
  <2>1. SameAsks
    BY <1>18, SameQueue DEF HandleOther
  <2> QED BY <1>18, <2>1, ReadTypes DEF HandleOther, Frame, AnswerFetched, Fetched, Answers,
     NoConnack, NoPacket, TypeOK, BrokerTypes, CallShape, InStep, HasBody
<1>19. CASE SendPuback
  <2>1. SameAsks
    <3>1. Puback(readbuf.id) \in ClientPacket /\ ~Asks(Puback(readbuf.id))
      BY <1>19, FetchedPublish, ClientPackets DEF SendPuback, Asks, Puback
    <3> QED BY <1>19, <3>1, WriteOther DEF SendPuback
  <2> QED BY <1>19, <2>1, ReadTypes DEF SendPuback, Written, Frame, AnswerFetched, Fetched,
     Answers, NoConnack, NoPacket, TypeOK, BrokerTypes, CallShape, InStep, HasBody
<1>20. CASE PubackFails
  <2>1. SameAsks
    BY <1>20, SameQueue DEF PubackFails, NotWritten, Return
  <2> QED BY <1>20, <2>1, ReadTypes DEF PubackFails, NotWritten, Return, Frame,
     AnswerFetched, Fetched, Answers, NoConnack, NoPacket, TypeOK, BrokerTypes, CallShape,
     InStep, HasBody
<1>21. CASE Keepalive
  <2>1. SameAsks
    <3>1. [type |-> "PINGREQ"] \in ClientPacket /\ ~Asks([type |-> "PINGREQ"])
      BY ClientPackets DEF Asks
    <3> QED BY <1>21, <3>1, WriteOther, SameQueue DEF Keepalive, NotWritten
  <2> QED BY <1>21, <2>1, ReadTypes DEF Keepalive, CycleEnds, Written, NotWritten, Frame,
     AnswerFetched, Fetched, Answers, NoConnack, NoPacket, TypeOK, BrokerTypes, CallShape,
     InStep, HasBody
<1>22. CASE FinishConnect
  <2>1. SameAsks
    BY <1>22, SameQueue DEF FinishConnect, Answered, ResendInflight, Return
  <2> QED BY <1>22, <2>1, ReadTypes DEF FinishConnect, Answered, ResendInflight, Return,
     Frame, AnswerFetched, Fetched, Answers, NoConnack, NoPacket, TypeOK, BrokerTypes,
     CallShape, InStep, HasBody
<1>23. CASE FinishSubscribe
  <2>1. SameAsks
    BY <1>23, SameQueue DEF FinishSubscribe, Answered, Return
  <2> QED BY <1>23, <2>1, ReadTypes DEF FinishSubscribe, Answered, Return, Frame,
     AnswerFetched, Fetched, Answers, NoConnack, NoPacket, TypeOK, BrokerTypes, CallShape,
     InStep, HasBody
<1>24. CASE FinishUnsubscribe
  <2>1. SameAsks
    BY <1>24, SameQueue DEF FinishUnsubscribe, Answered, Return
  <2> QED BY <1>24, <2>1, ReadTypes DEF FinishUnsubscribe, Answered, Return, Frame,
     AnswerFetched, Fetched, Answers, NoConnack, NoPacket, TypeOK, BrokerTypes, CallShape,
     InStep, HasBody
<1>25. CASE FinishPublish
  <2>1. SameAsks
    BY <1>25, SameQueue DEF FinishPublish, Return
  <2> QED BY <1>25, <2>1, ReadTypes DEF FinishPublish, Return, Frame, AnswerFetched,
     Fetched, Answers, NoConnack, NoPacket, TypeOK, BrokerTypes, CallShape, InStep, HasBody
<1>26. CASE DeliverMessage
  <2>1. SameAsks
    BY <1>26, SameQueue DEF DeliverMessage
  <2> QED BY <1>26, <2>1, ReadTypes DEF DeliverMessage, Frame, AnswerFetched, Fetched,
     Answers, NoConnack, NoPacket, TypeOK, BrokerTypes, CallShape, InStep, HasBody
<1>27. CASE TimerExpires
  <2>1. SameAsks
    BY <1>27, SameQueue DEF TimerExpires
  <2> QED BY <1>27, <2>1, ReadTypes DEF TimerExpires, Frame, AnswerFetched, Fetched,
     Answers, NoConnack, NoPacket, TypeOK, BrokerTypes, CallShape, InStep, HasBody
<1>28. CASE KeepAliveElapses
  <2>1. SameAsks
    BY <1>28, SameQueue DEF KeepAliveElapses
  <2> QED BY <1>28, <2>1, ReadTypes DEF KeepAliveElapses, Frame, AnswerFetched, Fetched,
     Answers, NoConnack, NoPacket, TypeOK, BrokerTypes, CallShape, InStep, HasBody
<1> QED
  BY <1>1, <1>2, <1>3, <1>4, <1>5, <1>6, <1>7, <1>8, <1>9, <1>10, <1>11, <1>12, <1>13,
     <1>14, <1>15, <1>16, <1>17, <1>18, <1>19, <1>20, <1>21, <1>22, <1>23, <1>24, <1>25,
     <1>26, <1>27, <1>28 DEF Call, ClientStep, QuietStep, AskingSend

\* A request behind a second CONNECT stays behind it.
LEMMA FrameDoomed ==
    ASSUME SameAsks, accepted' = accepted, NEW k \in DOMAIN toServer, Doomed(k)
    PROVE  Doomed(k)'
  BY DEF SameAsks, Doomed

\* A frame step keeps the answers in the stream.
LEMMA FrameStream == Frame => AnswerInStream' = AnswerInStream
  BY DEF Frame, AnswerInStream

\* A frame step keeps it that at most one request is under way.
LEMMA FrameOneAnswer == ASSUME Frame, OneAnswer PROVE OneAnswer'
<1>1. ASSUME NEW i \in (DOMAIN toServer)', NEW k \in (DOMAIN toServer)', i < k,
             Asks(toServer'[i]), Asks(toServer'[k])
      PROVE  Doomed(i)' \/ \E m \in i + 1 .. k - 1 : toServer'[m].type = "CONNECT"
  <2>1. i \in DOMAIN toServer /\ k \in DOMAIN toServer /\ Asks(toServer[i]) /\ Asks(toServer[k])
    BY <1>1 DEF Frame, SameAsks
  <2>2. CASE Doomed(i)
    BY <2>1, <2>2, FrameDoomed DEF Frame
  <2>3. CASE \E m \in i + 1 .. k - 1 : toServer[m].type = "CONNECT"
    BY <2>1, <2>3 DEF Frame, SameAsks
  <2> QED BY <1>1, <2>1, <2>2, <2>3 DEF OneAnswer
<1>2. ASSUME AnswerInStream' \/ AnswerFetched', NEW k \in (DOMAIN toServer)',
             Asks(toServer'[k])
      PROVE  Doomed(k)'
  <2>1. k \in DOMAIN toServer /\ Asks(toServer[k])
    BY <1>2 DEF Frame, SameAsks
  <2>2. AnswerInStream \/ AnswerFetched
    BY <1>2, FrameStream DEF Frame
  <2>3. Doomed(k)
    BY <2>1, <2>2 DEF OneAnswer
  <2> QED BY <2>1, <2>3, FrameDoomed DEF Frame
<1>3. (\A i, k \in DOMAIN toClient : Answers(toClient[i]) /\ Answers(toClient[k]) => i = k)'
  BY DEF Frame, OneAnswer
<1>4. AnswerFetched' => ~AnswerInStream'
  BY FrameStream DEF Frame, OneAnswer
<1> QED BY <1>1, <1>2, <1>3, <1>4 DEF OneAnswer

\* A frame step asks nothing.
LEMMA FrameQuiet == ASSUME Frame, Quiet PROVE Quiet'
<1>1. ASSUME NEW k \in (DOMAIN toServer)', Asks(toServer'[k]) PROVE Doomed(k)'
  <2>1. k \in DOMAIN toServer /\ Asks(toServer[k])
    BY <1>1 DEF Frame, SameAsks
  <2> QED BY <2>1, FrameDoomed DEF Frame, Quiet
<1> QED BY <1>1, FrameStream DEF Frame, Quiet

\* A frame step keeps the CONNECT behind what was asked before it.
LEMMA FrameBehind == ASSUME Frame, BehindConnect PROVE BehindConnect'
<1> SUFFICES ASSUME link = "up" PROVE BehindConnect'
  BY DEF Frame, BehindConnect
<1>1. ASSUME AnswerInStream' \/ AnswerFetched'
      PROVE  \E m \in (DOMAIN toServer)' : toServer'[m].type = "CONNECT"
  BY <1>1, FrameStream DEF Frame, SameAsks, BehindConnect
<1>2. ASSUME NEW k \in (DOMAIN toServer)', Asks(toServer'[k])
      PROVE  Doomed(k)' \/ \E m \in k + 1 .. Len(toServer') : toServer'[m].type = "CONNECT"
  <2>1. k \in DOMAIN toServer /\ Asks(toServer[k])
    BY <1>2 DEF Frame, SameAsks
  <2>2. CASE Doomed(k)
    BY <2>1, <2>2, FrameDoomed DEF Frame
  <2>3. CASE \E m \in k + 1 .. Len(toServer) : toServer[m].type = "CONNECT"
    <3>1. PICK m \in k + 1 .. Len(toServer) : toServer[m].type = "CONNECT"
      BY <2>3
    <3>2. m \in DOMAIN toServer /\ m \in k + 1 .. Len(toServer') /\ toServer'[m] = toServer[m]
      BY <3>1, <2>1 DEF Frame, SameAsks
    <3> QED BY <3>1, <3>2
  <2> QED BY <2>1, <2>2, <2>3 DEF BehindConnect
<1> QED BY <1>1, <1>2 DEF BehindConnect

\* A frame step brings no CONNACK.
LEMMA FrameSpent == ASSUME Frame, Spent PROVE Spent'
  BY DEF Frame, Spent, NoConnack

\* A call gets to send the kept publish in time only when its CONNACK came.
LEMMA ResendSteps ==
    ASSUME TypeOK, CallShape, Resending',
           Call \/ ClientStep \/ TimerExpires \/ KeepAliveElapses \/ Reopen
    PROVE  ~isconnected /\ (Resending \/ readbuf.type = "CONNACK")
<1>1. CASE Call
  BY <1>1 DEF Call, CallConnect, CallSubscribe, CallUnsubscribe, CallWithTopic, CallPublish,
     CallDisconnect, CallYield, Counted, Begin, Refuse, Return, Resending, CallShape,
     Awaited
<1>2. CASE SendRequest \/ SendFails
  BY <1>2 DEF SendRequest, SendFails, Written, NotWritten, Fail, Return, Resending,
     CallShape, Awaited
<1>3. CASE WaitTimesOut \/ StartCycle
  BY <1>3 DEF WaitTimesOut, StartCycle, NextRead, Fail, Return, ResendInflight, Resending,
     CallShape, Awaited
<1>4. CASE HeaderTimesOut \/ ReadHeader \/ ReadLength \/ ReadBody
  BY <1>4 DEF HeaderTimesOut, ReadHeader, NextRead, ReadLength, ReadBody, ReadStep, Resending,
     CallShape, Awaited
<1>5. CASE LengthTimesOut \/ BodyCut \/ ReadJunk
  BY <1>5 DEF LengthTimesOut, BodyCut, ReadJunk, ReadStep, Resending, CallShape, Awaited
<1>6. CASE HandleOther \/ DeliverMessage \/ SendPuback \/ PubackFails
  BY <1>6 DEF HandleOther, DeliverMessage, SendPuback, PubackFails, Written, NotWritten,
     Return, Resending, CallShape, Awaited
<1>7. CASE Keepalive
  BY <1>7 DEF Keepalive, CycleEnds, Written, NotWritten, Resending, CallShape, Awaited
<1>8. CASE FinishConnect \/ FinishSubscribe \/ FinishUnsubscribe \/ FinishPublish
  BY <1>8 DEF FinishConnect, FinishSubscribe, FinishUnsubscribe, FinishPublish, Answered,
     ResendInflight, Return, Resending, CallShape, Awaited
<1>9. CASE TimerExpires \/ KeepAliveElapses \/ Reopen
  BY <1>9 DEF TimerExpires, KeepAliveElapses, Reopen, LinkOpened, Resending, CallShape,
     Awaited
<1> QED
  BY <1>1, <1>2, <1>3, <1>4, <1>5, <1>6, <1>7, <1>8, <1>9 DEF ClientStep, QuietStep

\* connect waits only after it sent its CONNECT.
LEMMA LateSteps ==
    ASSUME TypeOK, CallShape, Late',
           Call \/ ClientStep \/ TimerExpires \/ KeepAliveElapses \/ Reopen
    PROVE  Late \/ (SendRequest /\ op = "connect")
<1>1. CASE Call
  BY <1>1 DEF Call, CallConnect, CallSubscribe, CallUnsubscribe, CallWithTopic, CallPublish,
     CallDisconnect, CallYield, Counted, Begin, Refuse, Return, Late, CallShape
<1>2. CASE SendRequest \/ SendFails
  BY <1>2 DEF SendRequest, SendFails, Written, NotWritten, Fail, Return, Late, CallShape
<1>3. CASE WaitTimesOut \/ StartCycle
  BY <1>3 DEF WaitTimesOut, StartCycle, NextRead, Fail, Return, ResendInflight, Late, CallShape
<1>4. CASE HeaderTimesOut \/ ReadHeader \/ ReadLength \/ ReadBody
  BY <1>4 DEF HeaderTimesOut, ReadHeader, NextRead, ReadLength, ReadBody, ReadStep, Late,
     CallShape
<1>5. CASE LengthTimesOut \/ BodyCut \/ ReadJunk
  BY <1>5 DEF LengthTimesOut, BodyCut, ReadJunk, ReadStep, Late, CallShape
<1>6. CASE HandleOther \/ DeliverMessage \/ SendPuback \/ PubackFails
  BY <1>6 DEF HandleOther, DeliverMessage, SendPuback, PubackFails, Written, NotWritten,
     Return, Late, CallShape
<1>7. CASE Keepalive
  BY <1>7 DEF Keepalive, CycleEnds, Written, NotWritten, Late, CallShape
<1>8. CASE FinishConnect \/ FinishSubscribe \/ FinishUnsubscribe \/ FinishPublish
  BY <1>8 DEF FinishConnect, FinishSubscribe, FinishUnsubscribe, FinishPublish, Answered,
     ResendInflight, Return, Late, CallShape
<1>9. CASE TimerExpires \/ KeepAliveElapses \/ Reopen
  BY <1>9 DEF TimerExpires, KeepAliveElapses, Reopen, LinkOpened, Late, CallShape
<1> QED
  BY <1>1, <1>2, <1>3, <1>4, <1>5, <1>6, <1>7, <1>8, <1>9 DEF ClientStep, QuietStep

\* The kept publish changes only in a session.
LEMMA KeptSteps ==
    ASSUME TypeOK, CallShape,
           Call \/ ClientStep \/ TimerExpires \/ KeepAliveElapses \/ Reopen
    PROVE  inflight' = inflight \/ isconnected \/ isconnected'
<1>1. CASE Call
  BY <1>1 DEF Call, CallConnect, CallSubscribe, CallUnsubscribe, CallWithTopic, CallPublish,
     CallDisconnect, CallYield, Counted, Begin, Refuse, Return, CallShape, TypeOK,
     ObjectTypes
<1>2. CASE SendRequest \/ SendFails
  BY <1>2 DEF SendRequest, SendFails, Written, NotWritten, Fail, Return, CallShape, TypeOK,
     ObjectTypes
<1>3. CASE WaitTimesOut \/ StartCycle
  BY <1>3 DEF WaitTimesOut, StartCycle, NextRead, Fail, Return, ResendInflight, CallShape, TypeOK,
     ObjectTypes
<1>4. CASE HeaderTimesOut \/ ReadHeader \/ ReadLength \/ ReadBody
  BY <1>4 DEF HeaderTimesOut, ReadHeader, NextRead, ReadLength, ReadBody, ReadStep,
     CallShape, TypeOK, ObjectTypes
<1>5. CASE LengthTimesOut \/ BodyCut \/ ReadJunk
  BY <1>5 DEF LengthTimesOut, BodyCut, ReadJunk, ReadStep, CallShape, TypeOK, ObjectTypes
<1>6. CASE HandleOther \/ DeliverMessage \/ SendPuback \/ PubackFails
  BY <1>6 DEF HandleOther, DeliverMessage, SendPuback, PubackFails, Written, NotWritten,
     Return, CallShape, TypeOK, ObjectTypes
<1>7. CASE Keepalive
  BY <1>7 DEF Keepalive, CycleEnds, Written, NotWritten, CallShape, TypeOK, ObjectTypes
<1>8. CASE FinishConnect \/ FinishSubscribe \/ FinishUnsubscribe \/ FinishPublish
  BY <1>8 DEF FinishConnect, FinishSubscribe, FinishUnsubscribe, FinishPublish, Answered,
     ResendInflight, Return, CallShape, TypeOK, ObjectTypes
<1>9. CASE TimerExpires \/ KeepAliveElapses \/ Reopen
  BY <1>9 DEF TimerExpires, KeepAliveElapses, Reopen, LinkOpened, CallShape, TypeOK,
     ObjectTypes
<1> QED
  BY <1>1, <1>2, <1>3, <1>4, <1>5, <1>6, <1>7, <1>8, <1>9 DEF ClientStep, QuietStep

\* A client that lost its chance to be connected on a link does not get it
\* back.
LEMMA HopeKept ==
    ASSUME TypeOK, CallShape, WhileConnected, intact, ~Wrong, Hope', Frame,
           Call \/ ClientStep \/ TimerExpires \/ KeepAliveElapses \/ Reopen
    PROVE  Hope
<1>1. CASE ~Spent'
  <2>1. ~Spent
    BY <1>1, FrameSpent
  <2> QED BY <2>1 DEF WhileConnected, Hope
<1>2. CASE Resending'
  BY <1>2, ResendSteps DEF Hope, Resending, Spent
<1> QED BY <1>1, <1>2 DEF Hope, Resending

\* A frame step keeps BeforeConnected; sending the CONNECT puts it behind all
\* that was asked.
LEMMA BeforeFrame ==
    ASSUME TypeOK, CallShape, WhileConnected, BeforeConnected, intact, ~Wrong, ~Closing,
           Hope', Frame, Call \/ ClientStep \/ TimerExpires \/ KeepAliveElapses \/ Reopen
    PROVE  BeforeConnected'
<1>1. Hope /\ inflight' = inflight
  BY HopeKept, KeptSteps DEF Hope
<1>2. (\A k \in DOMAIN toServer : Asks(toServer[k]) => toServer[k] = inflight)'
  BY <1>1 DEF BeforeConnected, Frame, SameAsks
<1>3. (\A k \in DOMAIN toClient :
            Answers(toClient[k]) => inflight # NoPacket /\ toClient[k] = Puback(inflight.id))'
  BY <1>1 DEF BeforeConnected, Frame
<1>4. (AnswerFetched => inflight # NoPacket /\ readbuf = Puback(inflight.id))'
  BY <1>1 DEF BeforeConnected, Frame
<1>5. (~keepSession => granted = NoSubscriptions)'
  BY <1>1 DEF BeforeConnected, Frame, NoSubscriptions
<1>6. OneAnswer'
  BY <1>1, FrameOneAnswer DEF BeforeConnected
<1>7. Late' => BehindConnect'
  <2>1. CASE Late
    BY <1>1, <2>1, FrameBehind DEF BeforeConnected, Late
  <2>2. CASE SendRequest /\ op = "connect"
    <3>1. SUFFICES ASSUME link = "up" PROVE BehindConnect'
      BY DEF Frame, BehindConnect
    <3>2. request \in ClientPacket /\ toServer \in Seq(ClientPacket) /\ request.type = "CONNECT"
      BY <2>2, RequestToSend DEF SendRequest, TypeOK, BrokerTypes, CallShape
    <3>3. toServer' = Append(toServer, request)
      BY <2>2, <3>1 DEF SendRequest, Written
    <3>4. Len(toServer) + 1 \in (DOMAIN toServer)' /\ toServer'[Len(toServer) + 1].type = "CONNECT"
          /\ Len(toServer') = Len(toServer) + 1 /\ Len(toServer) \in Nat
      BY <3>2, <3>3, AppendFacts
    <3>5. ASSUME NEW k \in (DOMAIN toServer)', Asks(toServer'[k])
          PROVE  Len(toServer) + 1 \in k + 1 .. Len(toServer')
      BY <3>4, <3>5 DEF Frame, SameAsks
    <3> QED BY <3>4, <3>5 DEF BehindConnect
  <2> QED BY <2>1, <2>2, LateSteps
<1> QED BY <1>2, <1>3, <1>4, <1>5, <1>6, <1>7 DEF BeforeConnected, Late

\* Taking a packet brings no CONNACK.
LEMMA TakeSpent ==
    ASSUME TypeOK, DownIsEmpty, InStep, TakePacket, intact, Spent
    PROVE  Spent'
<1>1. NoConnack'
  BY TakeFacts DEF Spent, NoConnack
<1> QED BY <1>1 DEF Spent, TakePacket

\* Taking a packet does not free a request that is behind a second CONNECT.
LEMMA TakeDoomed == ASSUME TakePacket, NEW k, Doomed(k) PROVE Doomed(k)'
  BY DEF TakePacket, Doomed

\* An answer that is taken was the one in the stream.
LEMMA TakeAnswers ==
    ASSUME TypeOK, DownIsEmpty, InStep, TakePacket, intact
    PROVE  /\ ~AnswerFetched
           /\ AnswerInStream' \/ AnswerFetched' => AnswerInStream
           /\ AnswerFetched' => Answers(toClient[1]) /\ readbuf' = toClient[1]
<1>1. ~AnswerFetched
  BY DEF TakePacket, AnswerFetched, Fetched
<1>2. AnswerFetched' => Answers(toClient[1]) /\ readbuf' = toClient[1]
  BY TakeFacts DEF TakePacket, AnswerFetched
<1>3. ASSUME AnswerInStream' PROVE AnswerInStream
  <2>1. PICK k \in (DOMAIN toClient)' : Answers(toClient'[k])
    BY <1>3 DEF AnswerInStream
  <2>2. k + 1 \in DOMAIN toClient /\ toClient[k + 1] = toClient'[k]
    BY <2>1, TakeFacts
  <2> QED BY <2>1, <2>2 DEF AnswerInStream
<1>4. ASSUME AnswerFetched' PROVE AnswerInStream
  BY <1>4, <1>2, TakeFacts DEF AnswerInStream
<1> QED BY <1>1, <1>2, <1>3, <1>4

\* Taking a packet keeps it that at most one request is under way.
LEMMA TakeOneAnswer ==
    ASSUME TypeOK, DownIsEmpty, InStep, TakePacket, intact, OneAnswer
    PROVE  OneAnswer'
<1>1. (\A i, k \in DOMAIN toServer :
        i < k /\ Asks(toServer[i]) /\ Asks(toServer[k]) =>
            \/ Doomed(i)
            \/ \E m \in i + 1 .. k - 1 : toServer[m].type = "CONNECT")'
  BY DEF OneAnswer, TakePacket, Doomed
<1>2. ASSUME NEW i \in (DOMAIN toClient)', NEW k \in (DOMAIN toClient)',
             Answers(toClient'[i]), Answers(toClient'[k])
      PROVE  i = k
  <2>1. /\ i + 1 \in DOMAIN toClient /\ toClient[i + 1] = toClient'[i]
        /\ k + 1 \in DOMAIN toClient /\ toClient[k + 1] = toClient'[k]
    BY <1>2, TakeFacts
  <2>2. i + 1 = k + 1
    BY <1>2, <2>1 DEF OneAnswer
  <2> QED BY <1>2, <2>2, TakeFacts
<1>3. ASSUME AnswerInStream' \/ AnswerFetched', NEW k \in (DOMAIN toServer)',
             Asks(toServer'[k])
      PROVE  Doomed(k)'
  <2>1. k \in DOMAIN toServer /\ Asks(toServer[k])
    BY <1>3 DEF TakePacket
  <2> QED BY <1>3, <2>1, TakeAnswers, TakeDoomed DEF OneAnswer
<1>4. ASSUME AnswerFetched', AnswerInStream' PROVE FALSE
  <2>1. PICK k \in (DOMAIN toClient)' : Answers(toClient'[k])
    BY <1>4 DEF AnswerInStream
  <2>2. k + 1 \in DOMAIN toClient /\ toClient[k + 1] = toClient'[k] /\ 1 \in DOMAIN toClient /\ k + 1 # 1
    BY <2>1, TakeFacts
  <2>3. Answers(toClient[1])
    BY <1>4, TakeAnswers
  <2> QED BY <2>1, <2>2, <2>3 DEF OneAnswer
<1> QED BY <1>1, <1>2, <1>3, <1>4 DEF OneAnswer

\* Taking a packet keeps BeforeConnected.
LEMMA BeforeTake ==
    ASSUME TypeOK, DownIsEmpty, InStep, BeforeConnected, intact, ~Closing, Hope', TakePacket
    PROVE  BeforeConnected'
<1>1. Hope
  <2>1. CASE ~Spent'
    BY <2>1, TakeSpent DEF Hope, TakePacket
  <2>2. CASE op' = "resend"
    BY <2>2 DEF Hope, TakePacket
  <2> QED BY <2>1, <2>2 DEF Hope
<1>2. (\A k \in DOMAIN toServer : Asks(toServer[k]) => toServer[k] = inflight)'
  BY <1>1 DEF BeforeConnected, TakePacket
<1>3. (\A k \in DOMAIN toClient :
            Answers(toClient[k]) => inflight # NoPacket /\ toClient[k] = Puback(inflight.id))'
  <2>1. SUFFICES ASSUME NEW k \in (DOMAIN toClient)', Answers(toClient'[k])
                 PROVE  inflight # NoPacket /\ toClient'[k] = Puback(inflight.id)
    BY DEF TakePacket
  <2>2. k + 1 \in DOMAIN toClient /\ toClient[k + 1] = toClient'[k]
    BY <2>1, TakeFacts
  <2> QED BY <1>1, <2>1, <2>2 DEF BeforeConnected
<1>4. (AnswerFetched => inflight # NoPacket /\ readbuf = Puback(inflight.id))'
  BY <1>1, TakeAnswers, TakeFacts DEF BeforeConnected, TakePacket
<1>5. (~keepSession => granted = NoSubscriptions)'
  BY <1>1 DEF BeforeConnected, TakePacket, NoSubscriptions
<1>6. OneAnswer'
  BY <1>1, TakeOneAnswer DEF BeforeConnected
<1>7. Late' => BehindConnect'
  <2>1. SUFFICES ASSUME Late' PROVE BehindConnect'
    OBVIOUS
  <2>2. BehindConnect /\ link = "up"
    BY <1>1, <2>1, TakeFacts DEF Late, BeforeConnected, TakePacket
  <2>3. AnswerInStream' \/ AnswerFetched' => (\E m \in DOMAIN toServer : toServer[m].type = "CONNECT")'
    BY <2>2, TakeAnswers DEF BehindConnect, TakePacket
  <2>4. ASSUME NEW k \in (DOMAIN toServer)', Asks(toServer'[k])
        PROVE  Doomed(k)' \/ \E m \in k + 1 .. Len(toServer') : toServer'[m].type = "CONNECT"
    BY <2>2, <2>4, TakeDoomed DEF BehindConnect, TakePacket
  <2> QED BY <2>3, <2>4 DEF BehindConnect
<1> QED BY <1>2, <1>3, <1>4, <1>5, <1>6, <1>7 DEF BeforeConnected, Late

\* A request that is sent comes last on the stream to the server.
LEMMA AskFacts ==
    ASSUME TypeOK, CallShape, AskingSend, link = "up"
    PROVE  /\ DOMAIN toServer = 1 .. Len(toServer) /\ Len(toServer) \in Nat
           /\ (DOMAIN toServer)' = 1 .. Len(toServer) + 1 /\ Len(toServer') = Len(toServer) + 1
           /\ \A k \in 1 .. Len(toServer) : toServer'[k] = toServer[k]
           /\ toServer'[Len(toServer) + 1] = request
<1>1. request \in ClientPacket /\ toServer \in Seq(ClientPacket)
  BY RequestToSend DEF AskingSend, SendRequest, TypeOK, BrokerTypes
<1>2. toServer' = Append(toServer, request)
  BY DEF AskingSend, SendRequest, Written
<1> QED BY <1>1, <1>2, AppendFacts

\* Sending a request does not free those behind a second CONNECT.
LEMMA AskDoomed ==
    ASSUME TypeOK, CallShape, AskingSend, link = "up", NEW k \in DOMAIN toServer, Doomed(k)
    PROVE  Doomed(k)'
<1>1. accepted' = accepted
  BY DEF AskingSend, SendRequest, Written
<1> QED BY <1>1, AskFacts DEF Doomed

\* What else changes when a request is sent: the call waits.
LEMMA AskRest ==
    ASSUME TypeOK, CallShape, AskingSend
    PROVE  /\ pc = "send" /\ pc' = "wait" /\ timer = "running"
           /\ op' = op /\ request' = request /\ readbuf' = NoPacket /\ readbuf = NoPacket
           /\ op \in {"subscribe", "unsubscribe", "publish", "resend"}
           /\ UNCHANGED <<isconnected, inflight, messageHandlers, link, toClient, sessionVars, intact>>
           /\ link # "up" => toServer' = toServer
  BY RequestQos DEF AskingSend, SendRequest, Written, Return, CallShape, Asks, TypeOK,
     CallTypes, ObjectTypes

\* None of the three kinds of steps touches the link or the session.
LEMMA LinkKept ==
    ASSUME TypeOK, CallShape, Frame \/ TakePacket \/ AskingSend
    PROVE  link' = link /\ accepted' = accepted
<1>1. CASE Frame
  BY <1>1 DEF Frame
<1>2. CASE TakePacket
  BY <1>2 DEF TakePacket
<1>3. CASE AskingSend
  BY <1>3, AskRest
<1> QED BY <1>1, <1>2, <1>3

\* No step of the client takes back what closes the link.
LEMMA ClosingStays ==
    ASSUME TypeOK, TypeOK', CallShape, Closing, Frame \/ TakePacket \/ AskingSend
    PROVE  Closing'
<1>1. toServer \in Seq(ClientPacket) /\ toServer' \in Seq(ClientPacket) /\ toServer # <<>>
  BY DEF TypeOK, BrokerTypes, Closing
<1>2. link = "up" /\ link' = "up" /\ ~accepted /\ ~accepted'
  BY LinkKept DEF Closing
<1>3. 1 \in DOMAIN toServer /\ Head(toServer) = toServer[1]
  BY <1>1, TailFacts
<1>4. 1 \in (DOMAIN toServer)' /\ toServer'[1] = toServer[1]
  <2>1. CASE Frame
    BY <1>3, <2>1 DEF Frame, SameAsks
  <2>2. CASE TakePacket
    BY <1>3, <2>2 DEF TakePacket
  <2>3. CASE AskingSend
    BY <1>2, <1>3, <2>3, AskFacts
  <2> QED BY <2>1, <2>2, <2>3
<1>5. toServer' # <<>> /\ Head(toServer') = toServer'[1]
  BY <1>1, <1>4, TailFacts
<1> QED BY <1>2, <1>3, <1>4, <1>5 DEF Closing

\* Sending a request leaves the answers alone.
LEMMA AskStream ==
    ASSUME TypeOK, CallShape, AskingSend
    PROVE  AnswerInStream' = AnswerInStream /\ ~AnswerFetched /\ ~AnswerFetched'
  BY AskRest DEF AnswerInStream, AnswerFetched, Fetched

\* A link that is down holds no packet.
LEMMA DownNoAnswer ==
    ASSUME TypeOK, DownIsEmpty, link # "up"
    PROVE  toServer = <<>> /\ toClient = <<>> /\ ~accepted
  BY DEF DownIsEmpty, TypeOK, BrokerTypes

\* Sending the kept publish keeps BeforeConnected: an earlier copy is behind or
\* before a CONNECT of its own.
LEMMA BeforeAsk ==
    ASSUME TypeOK, CallShape, DownIsEmpty, OneAccept, BeforeConnected, intact, ~Closing,
           Hope', AskingSend
    PROVE  BeforeConnected'
<1>1. op = "resend" /\ Hope /\ inflight' = inflight /\ request = inflight
  BY AskRest DEF Hope, CallShape
<1>2. ~Late'
  BY AskRest, <1>1 DEF Late
<1>3. CASE link # "up"
  BY <1>1, <1>2, <1>3, AskRest, DownNoAnswer, AskStream
     DEF BeforeConnected, Late, OneAnswer, NoSubscriptions, AnswerInStream
<1>4. CASE link = "up"
  <2>1. BehindConnect
    BY <1>1, AskRest DEF BeforeConnected
  <2>2. (\A k \in DOMAIN toServer : Asks(toServer[k]) => toServer[k] = inflight)'
    <3>1. SUFFICES ASSUME NEW k \in 1 .. Len(toServer) + 1, Asks(toServer'[k])
                   PROVE  toServer'[k] = inflight
      BY <1>1, <1>4, AskFacts
    <3> QED BY <1>1, <1>4, <3>1, AskFacts DEF BeforeConnected
  <2>3. (\A k \in DOMAIN toClient :
            Answers(toClient[k]) => inflight # NoPacket /\ toClient[k] = Puback(inflight.id))'
    BY <1>1, AskRest DEF BeforeConnected
  <2>4. (~keepSession => granted = NoSubscriptions)'
    BY <1>1, AskRest DEF BeforeConnected, NoSubscriptions
  <2>5. ASSUME NEW i \in (DOMAIN toServer)', NEW k \in (DOMAIN toServer)', i < k,
               Asks(toServer'[i]), Asks(toServer'[k])
        PROVE  Doomed(i)' \/ \E m \in i + 1 .. k - 1 : toServer'[m].type = "CONNECT"
    <3>1. i \in DOMAIN toServer /\ Asks(toServer[i])
      BY <1>4, <2>5, AskFacts
    <3>2. CASE k \in DOMAIN toServer
      <4>1. Asks(toServer[k])
        BY <1>4, <2>5, <3>2, AskFacts
      <4>2. CASE Doomed(i)
        BY <1>4, <3>1, <4>2, AskDoomed
      <4>3. CASE \E m \in i + 1 .. k - 1 : toServer[m].type = "CONNECT"
        BY <1>4, <3>1, <3>2, <4>3, AskFacts
      <4> QED BY <1>1, <2>5, <3>1, <3>2, <4>1, <4>2, <4>3 DEF BeforeConnected, OneAnswer
    <3>3. CASE k \notin DOMAIN toServer
      <4>1. k = Len(toServer) + 1
        BY <1>4, <2>5, <3>3, AskFacts
      <4>2. CASE Doomed(i)
        BY <1>4, <3>1, <4>2, AskDoomed
      <4>3. CASE \E m \in i + 1 .. Len(toServer) : toServer[m].type = "CONNECT"
        BY <1>4, <3>1, <4>1, <4>3, AskFacts
      <4> QED BY <1>4, <2>1, <3>1, <4>2, <4>3 DEF BehindConnect
    <3> QED BY <3>2, <3>3
  <2>6. ASSUME AnswerInStream', NEW k \in (DOMAIN toServer)', Asks(toServer'[k])
        PROVE  Doomed(k)'
    <3>1. AnswerInStream
      BY <2>6, AskStream
    <3>2. CASE k \in DOMAIN toServer
      <4>1. Doomed(k)
        BY <1>1, <1>4, <2>6, <3>1, <3>2, AskFacts DEF BeforeConnected, OneAnswer
      <4> QED BY <1>4, <3>2, <4>1, AskDoomed
    <3>3. CASE k \notin DOMAIN toServer
      <4>1. k = Len(toServer) + 1
        BY <1>4, <2>6, <3>3, AskFacts
      <4>2. accepted'
        BY <1>4, <3>1, AskRest DEF OneAccept, AnswerInStream, Answers, Connack
      <4>3. PICK m \in DOMAIN toServer : toServer[m].type = "CONNECT"
        BY <1>4, <2>1, <3>1 DEF BehindConnect
      <4> QED BY <1>4, <4>1, <4>2, <4>3, AskFacts DEF Doomed
    <3> QED BY <3>2, <3>3
  <2>7. (\A i, k \in DOMAIN toClient : Answers(toClient[i]) /\ Answers(toClient[k]) => i = k)'
    BY <1>1, AskRest DEF BeforeConnected, OneAnswer
  <2>8. OneAnswer'
    BY <2>5, <2>6, <2>7, AskStream DEF OneAnswer
  <2> QED BY <1>2, <2>2, <2>3, <2>4, <2>8, AskStream DEF BeforeConnected, Late
<1> QED BY <1>3, <1>4

\* A client that stops to be connected on a link it wrote nothing to asked for
\* nothing there.
LEMMA BeforeWrong ==
    ASSUME TypeOK, CallShape, OneAccept, NewIsEmpty, WhileWrong, intact, Wrong, ~Closing, Frame
    PROVE  BeforeConnected'
<1>1. toServer = <<>> /\ link = "up" /\ ~accepted
  BY DEF WhileWrong, Wrong
<1>2. ~AnswerInStream' /\ ~AnswerFetched'
  <2>1. ~AnswerInStream /\ ~AnswerFetched
    BY <1>1 DEF OneAccept, AnswerInStream, AnswerFetched, Answers, Connack, NoPacket
  <2> QED BY <2>1, FrameStream DEF Frame
<1>3. \A k \in (DOMAIN toServer)' : ~Asks(toServer'[k])
  BY <1>1 DEF Frame, SameAsks
<1>4. (~keepSession => granted = NoSubscriptions)'
  BY <1>1 DEF NewIsEmpty, Frame, NoSubscriptions
<1>5. OneAnswer' /\ BehindConnect'
  BY <1>2, <1>3 DEF OneAnswer, BehindConnect, AnswerInStream
<1> QED BY <1>2, <1>3, <1>4, <1>5 DEF BeforeConnected, AnswerInStream

\* A new link is empty, so BeforeConnected holds.
LEMMA BeforeReopen ==
    ASSUME TypeOK, CallShape, DownIsEmpty, NewIsEmpty, Reopen
    PROVE  BeforeConnected'
<1>1. toServer' = <<>> /\ toClient' = <<>> /\ pc' = "idle" /\ op' = "none" /\ ~AnswerFetched'
  BY DEF Reopen, LinkOpened, DownIsEmpty, CallShape, AnswerFetched, Fetched
<1>2. (~keepSession => granted = NoSubscriptions)'
  BY DEF Reopen, LinkOpened, DownIsEmpty, NewIsEmpty, NoSubscriptions
<1> QED BY <1>1, <1>2 DEF BeforeConnected, OneAnswer, AnswerInStream

\* Only a new link makes a stream whole again.
LEMMA IntactSteps ==
    ASSUME Call \/ ClientStep \/ TimerExpires \/ KeepAliveElapses, intact'
    PROVE  intact
  BY DEF Call, CallConnect, CallSubscribe, CallUnsubscribe, CallWithTopic, CallPublish,
     CallDisconnect, CallYield, ClientStep, QuietStep, SendRequest, SendFails, WaitTimesOut,
     StartCycle, NextRead, HeaderTimesOut, ReadHeader, ReadLength, ReadBody, LengthTimesOut,
     BodyCut, ReadJunk, HandleOther, SendPuback, PubackFails, Keepalive, FinishConnect,
     FinishSubscribe, FinishUnsubscribe, FinishPublish, DeliverMessage, TimerExpires,
     KeepAliveElapses

\* Every step of the client keeps BeforeConnected.
LEMMA BeforeSteps ==
    ASSUME IndInv, TypeOK', Call \/ ClientStep \/ TimerExpires \/ KeepAliveElapses \/ Reopen
    PROVE  BeforeConnected'
<1>1. CASE Reopen
  BY <1>1, BeforeReopen DEF IndInv
<1>2. CASE ~Reopen
  <2>1. SUFFICES ASSUME intact', Hope', ~Closing' PROVE BeforeConnected'
    BY DEF BeforeConnected
  <2>2. intact
    BY <1>2, <2>1, IntactSteps
  <2>3. Frame \/ TakePacket \/ AskingSend
    BY <1>2, <2>1, <2>2, FrameSteps DEF IndInv
  <2>4. ~Closing
    BY <2>1, <2>3, ClosingStays DEF IndInv
  <2>5. CASE Frame /\ Wrong
    BY <2>2, <2>4, <2>5, BeforeWrong DEF IndInv
  <2>6. CASE Frame /\ ~Wrong
    BY <1>2, <2>1, <2>2, <2>4, <2>6, BeforeFrame DEF IndInv
  <2> QED BY <2>1, <2>2, <2>3, <2>4, <2>5, <2>6, BeforeTake, BeforeAsk DEF IndInv
<1> QED BY <1>1, <1>2

\* A call that waits for its answer keeps its method and request.
LEMMA WaitingSteps ==
    ASSUME TypeOK, CallShape, ~AskingSend, isconnected, isconnected', Asking',
           Call \/ ClientStep \/ TimerExpires \/ KeepAliveElapses \/ Reopen
    PROVE  Asking /\ UNCHANGED <<op, request, messageHandlers, inflight>>
<1>1. CASE Call
  BY <1>1, RequestQos DEF Call, CallConnect, CallSubscribe, CallUnsubscribe, CallWithTopic,
     CallPublish, CallDisconnect, CallYield, Counted, Begin, Refuse, Return, Asking,
     CallShape, AskingSend, Asks, TypeOK, ObjectTypes, CallTypes
<1>2. CASE SendRequest \/ SendFails
  BY <1>2, RequestQos DEF SendRequest, SendFails, Written, NotWritten, Fail, Return, Asking,
     CallShape, AskingSend, Asks, TypeOK, ObjectTypes, CallTypes
<1>3. CASE WaitTimesOut \/ StartCycle
  BY <1>3, RequestQos DEF WaitTimesOut, StartCycle, NextRead, Fail, Return, ResendInflight,
     Asking, CallShape, AskingSend, Asks, TypeOK, ObjectTypes, CallTypes
<1>4. CASE HeaderTimesOut \/ ReadHeader \/ ReadLength \/ ReadBody
  BY <1>4, RequestQos DEF HeaderTimesOut, ReadHeader, NextRead, ReadLength, ReadBody, ReadStep,
     Asking, CallShape, AskingSend, Asks, TypeOK, ObjectTypes, CallTypes
<1>5. CASE LengthTimesOut \/ BodyCut \/ ReadJunk
  BY <1>5, RequestQos DEF LengthTimesOut, BodyCut, ReadJunk, ReadStep, Asking, CallShape,
     AskingSend, Asks, TypeOK, ObjectTypes, CallTypes
<1>6. CASE HandleOther \/ DeliverMessage \/ SendPuback \/ PubackFails
  BY <1>6, RequestQos DEF HandleOther, DeliverMessage, SendPuback, PubackFails, Written,
     NotWritten, Return, Asking, CallShape, AskingSend, Asks, TypeOK, ObjectTypes, CallTypes
<1>7. CASE Keepalive
  BY <1>7, RequestQos DEF Keepalive, CycleEnds, Written, NotWritten, Asking, CallShape,
     AskingSend, Asks, TypeOK, ObjectTypes, CallTypes
<1>8. CASE FinishConnect \/ FinishSubscribe \/ FinishUnsubscribe \/ FinishPublish
  BY <1>8, RequestQos DEF FinishConnect, FinishSubscribe, FinishUnsubscribe, FinishPublish,
     Answered, ResendInflight, Return, Asking, CallShape, AskingSend, Asks, TypeOK,
     ObjectTypes, CallTypes
<1>9. CASE TimerExpires \/ KeepAliveElapses \/ Reopen
  BY <1>9, RequestQos DEF TimerExpires, KeepAliveElapses, Reopen, LinkOpened, Asking,
     CallShape, AskingSend, Asks, TypeOK, ObjectTypes, CallTypes
<1> QED
  BY <1>1, <1>2, <1>3, <1>4, <1>5, <1>6, <1>7, <1>8, <1>9 DEF ClientStep, QuietStep

\* A call stops waiting and stays connected only with its answer.
LEMMA AnsweredSteps ==
    ASSUME TypeOK, CallShape, isconnected, isconnected', Asking, ~Asking',
           Call \/ ClientStep \/ TimerExpires \/ KeepAliveElapses \/ Reopen
    PROVE  /\ pc = "answer" /\ pc' = "idle" /\ readbuf' = NoPacket
           /\ FinishSubscribe \/ FinishUnsubscribe \/ FinishPublish
<1>1. CASE Call
  BY <1>1 DEF Call, CallConnect, CallSubscribe, CallUnsubscribe, CallWithTopic, CallPublish,
     CallDisconnect, CallYield, Counted, Begin, Refuse, Return, Asking, CallShape, TypeOK,
     ObjectTypes
<1>2. CASE SendRequest \/ SendFails
  BY <1>2 DEF SendRequest, SendFails, Written, NotWritten, Fail, Return, Asking, CallShape,
     TypeOK, ObjectTypes
<1>3. CASE WaitTimesOut \/ StartCycle
  BY <1>3 DEF WaitTimesOut, StartCycle, NextRead, Fail, Return, ResendInflight, Asking, CallShape,
     TypeOK, ObjectTypes
<1>4. CASE HeaderTimesOut \/ ReadHeader \/ ReadLength \/ ReadBody
  BY <1>4 DEF HeaderTimesOut, ReadHeader, NextRead, ReadLength, ReadBody, ReadStep, Asking,
     CallShape, TypeOK, ObjectTypes
<1>5. CASE LengthTimesOut \/ BodyCut \/ ReadJunk
  BY <1>5 DEF LengthTimesOut, BodyCut, ReadJunk, ReadStep, Asking, CallShape, TypeOK,
     ObjectTypes
<1>6. CASE HandleOther \/ DeliverMessage \/ SendPuback \/ PubackFails
  BY <1>6 DEF HandleOther, DeliverMessage, SendPuback, PubackFails, Written, NotWritten,
     Return, Asking, CallShape, TypeOK, ObjectTypes
<1>7. CASE Keepalive
  BY <1>7 DEF Keepalive, CycleEnds, Written, NotWritten, Asking, CallShape, TypeOK,
     ObjectTypes
<1>8. CASE FinishConnect \/ FinishSubscribe \/ FinishUnsubscribe \/ FinishPublish
  BY <1>8 DEF FinishConnect, FinishSubscribe, FinishUnsubscribe, FinishPublish, Answered,
     ResendInflight, Return, Asking, CallShape, TypeOK, ObjectTypes
<1>9. CASE TimerExpires \/ KeepAliveElapses \/ Reopen
  BY <1>9 DEF TimerExpires, KeepAliveElapses, Reopen, LinkOpened, Asking, CallShape, TypeOK,
     ObjectTypes
<1> QED
  BY <1>1, <1>2, <1>3, <1>4, <1>5, <1>6, <1>7, <1>8, <1>9 DEF ClientStep, QuietStep

\* Outside the wait for an answer nothing but publish keeps a packet, and a QoS
\* 0 publish keeps none.
LEMMA OtherSteps ==
    ASSUME TypeOK, CallShape, ~AskingSend, isconnected, isconnected', ~Asking, ~Asking', KeepsOne,
           Call \/ ClientStep \/ TimerExpires \/ KeepAliveElapses \/ Reopen
    PROVE  /\ UNCHANGED messageHandlers
           /\ KeepsOne'
<1>1. CASE Call
  BY <1>1, RequestQos DEF Call, CallConnect, CallSubscribe, CallUnsubscribe, CallWithTopic,
     CallPublish, CallDisconnect, CallYield, Counted, Begin, Refuse, Return, Asking,
     CallShape, KeepsOne, AskingSend, Asks, TypeOK, ObjectTypes, CallTypes
<1>2. CASE SendRequest \/ SendFails
  BY <1>2, RequestQos DEF SendRequest, SendFails, Written, NotWritten, Fail, Return, Asking,
     CallShape, KeepsOne, AskingSend, Asks, TypeOK, ObjectTypes, CallTypes
<1>3. CASE WaitTimesOut \/ StartCycle
  BY <1>3, RequestQos DEF WaitTimesOut, StartCycle, NextRead, Fail, Return, ResendInflight,
     Asking, CallShape, KeepsOne, AskingSend, Asks, TypeOK, ObjectTypes, CallTypes
<1>4. CASE HeaderTimesOut \/ ReadHeader \/ ReadLength \/ ReadBody
  BY <1>4, RequestQos DEF HeaderTimesOut, ReadHeader, NextRead, ReadLength, ReadBody, ReadStep,
     Asking, CallShape, KeepsOne, AskingSend, Asks, TypeOK, ObjectTypes, CallTypes
<1>5. CASE LengthTimesOut \/ BodyCut \/ ReadJunk
  BY <1>5, RequestQos DEF LengthTimesOut, BodyCut, ReadJunk, ReadStep, Asking, CallShape,
     KeepsOne, AskingSend, Asks, TypeOK, ObjectTypes, CallTypes
<1>6. CASE HandleOther \/ DeliverMessage \/ SendPuback \/ PubackFails
  BY <1>6, RequestQos DEF HandleOther, DeliverMessage, SendPuback, PubackFails, Written,
     NotWritten, Return, Asking, CallShape, KeepsOne, AskingSend, Asks, TypeOK, ObjectTypes,
     CallTypes
<1>7. CASE Keepalive
  BY <1>7, RequestQos DEF Keepalive, CycleEnds, Written, NotWritten, Asking, CallShape, KeepsOne,
     AskingSend, Asks, TypeOK, ObjectTypes, CallTypes
<1>8. CASE FinishConnect \/ FinishSubscribe \/ FinishUnsubscribe \/ FinishPublish
  BY <1>8, RequestQos DEF FinishConnect, FinishSubscribe, FinishUnsubscribe, FinishPublish,
     Answered, ResendInflight, Return, Asking, CallShape, KeepsOne, AskingSend, Asks, TypeOK,
     ObjectTypes, CallTypes
<1>9. CASE TimerExpires \/ KeepAliveElapses \/ Reopen
  BY <1>9, RequestQos DEF TimerExpires, KeepAliveElapses, Reopen, LinkOpened, Asking,
     CallShape, KeepsOne, AskingSend, Asks, TypeOK, ObjectTypes, CallTypes
<1> QED
  BY <1>1, <1>2, <1>3, <1>4, <1>5, <1>6, <1>7, <1>8, <1>9 DEF ClientStep, QuietStep

\* A SUBACK that was fetched stays in readbuf until subscribe takes it.
LEMMA GrantSteps ==
    ASSUME TypeOK, CallShape, isconnected, isconnected', Asking', op = "subscribe", Fetched,
           readbuf.type = "SUBACK",
           Call \/ ClientStep \/ TimerExpires \/ KeepAliveElapses \/ Reopen
    PROVE  Fetched' /\ readbuf' = readbuf
<1>1. CASE Call
  BY <1>1 DEF Call, CallConnect, CallSubscribe, CallUnsubscribe, CallWithTopic, CallPublish,
     CallDisconnect, CallYield, Counted, Begin, Refuse, Return, Asking, Fetched, CallShape,
     TypeOK, ObjectTypes, Awaited
<1>2. CASE SendRequest \/ SendFails
  BY <1>2 DEF SendRequest, SendFails, Written, NotWritten, Fail, Return, Asking, Fetched,
     CallShape, TypeOK, ObjectTypes, Awaited
<1>3. CASE WaitTimesOut \/ StartCycle
  BY <1>3 DEF WaitTimesOut, StartCycle, NextRead, Fail, Return, ResendInflight, Asking, Fetched,
     CallShape, TypeOK, ObjectTypes, Awaited
<1>4. CASE HeaderTimesOut \/ ReadHeader \/ ReadLength \/ ReadBody
  BY <1>4 DEF HeaderTimesOut, ReadHeader, NextRead, ReadLength, ReadBody, ReadStep, Asking,
     Fetched, CallShape, TypeOK, ObjectTypes, Awaited
<1>5. CASE LengthTimesOut \/ BodyCut \/ ReadJunk
  BY <1>5 DEF LengthTimesOut, BodyCut, ReadJunk, ReadStep, Asking, Fetched, CallShape,
     TypeOK, ObjectTypes, Awaited
<1>6. CASE HandleOther \/ DeliverMessage \/ SendPuback \/ PubackFails
  BY <1>6 DEF HandleOther, DeliverMessage, SendPuback, PubackFails, Written, NotWritten,
     Return, Asking, Fetched, CallShape, TypeOK, ObjectTypes, Awaited
<1>7. CASE Keepalive
  BY <1>7 DEF Keepalive, CycleEnds, Written, NotWritten, Asking, Fetched, CallShape, TypeOK,
     ObjectTypes, Awaited
<1>8. CASE FinishConnect \/ FinishSubscribe \/ FinishUnsubscribe \/ FinishPublish
  BY <1>8 DEF FinishConnect, FinishSubscribe, FinishUnsubscribe, FinishPublish, Answered,
     ResendInflight, Return, Asking, Fetched, CallShape, TypeOK, ObjectTypes, Awaited
<1>9. CASE TimerExpires \/ KeepAliveElapses \/ Reopen
  BY <1>9 DEF TimerExpires, KeepAliveElapses, Reopen, LinkOpened, Asking, Fetched,
     CallShape, TypeOK, ObjectTypes, Awaited
<1> QED
  BY <1>1, <1>2, <1>3, <1>4, <1>5, <1>6, <1>7, <1>8, <1>9 DEF ClientStep, QuietStep

\* Every set of numbers that is not empty has a least element.
LEMMA LeastElement ==
    ASSUME NEW T, T \subseteq Nat, T # {}
    PROVE  \E x \in T : \A y \in T : x <= y
<1>1. OpToRel(<, Nat) = {ss \in Nat \X Nat : ss[1] < ss[2]}
  BY Zenon DEF OpToRel
<1>2. \E R : IsWellFoundedOn(R, Nat) /\ R = {ss \in Nat \X Nat : ss[1] < ss[2]}
  BY <1>1, NatLessThanWellFounded, Zenon
<1>3. PICK R : IsWellFoundedOn(R, Nat) /\ R = {ss \in Nat \X Nat : ss[1] < ss[2]}
  BY <1>2
<1>4. PICK x \in T : \A y \in T : ~(<<y, x>> \in R)
  BY <1>3, WFMin, Zenon
<1>5. \A a, b \in Nat : a < b => <<a, b>> \in R
  BY <1>3
<1>6. ASSUME NEW y \in T PROVE x <= y
  <2>1. x \in Nat /\ y \in Nat /\ ~(y < x)
    BY <1>4, <1>5
  <2> QED BY <2>1
<1> QED BY <1>4, <1>6

\* subscribe finds the first free slot when there is one.
LEMMA FirstFreeSlot ==
    ASSUME FreeSlots # {}
    PROVE  (CHOOSE i \in FreeSlots : \A j \in FreeSlots : i <= j) \in FreeSlots
<1>1. FreeSlots \subseteq Nat
  BY DEF FreeSlots, Slots
<1> QED BY <1>1, LeastElement

\* The subscriptions of the server are served or about to be.
Installed == ~keepSession => \A t \in Topics : granted[t] # Unsubscribed => Handled(t)

\* The kept publish is the one that is being sent, whatever the step.
LEMMA KeepsSteps ==
    ASSUME TypeOK, CallShape, KeepsOne, isconnected, isconnected',
           Asking /\ ~Asking' /\ op = "publish" => readbuf.id = request.id,
           Call \/ ClientStep \/ TimerExpires \/ KeepAliveElapses \/ Reopen
    PROVE  KeepsOne'
<1>1. CASE AskingSend
  BY <1>1, AskRest DEF KeepsOne
<1>2. CASE ~AskingSend /\ Asking'
  BY <1>2, WaitingSteps DEF KeepsOne
<1>3. CASE ~AskingSend /\ ~Asking /\ ~Asking'
  BY <1>3, OtherSteps
<1>4. CASE Asking /\ ~Asking'
  <2>1. FinishSubscribe \/ FinishUnsubscribe \/ FinishPublish
    BY <1>4, AnsweredSteps
  <2>2. CASE FinishPublish
    <3>1. op = "publish"
      BY <1>4, <2>2 DEF FinishPublish, Asking
    <3> QED BY <1>4, <2>2, <3>1 DEF FinishPublish, KeepsOne
  <2>3. CASE FinishSubscribe \/ FinishUnsubscribe
    BY <2>3 DEF FinishSubscribe, FinishUnsubscribe, Answered, KeepsOne
  <2> QED BY <2>1, <2>2, <2>3
<1> QED BY <1>1, <1>2, <1>3, <1>4

\* A step of a call that waits keeps WhileConnected.
LEMMA WhileAsking ==
    ASSUME TypeOK, CallShape, WhileConnected, intact, ~Wrong, isconnected, isconnected', Frame,
           Asking', ~AskingSend,
           Call \/ ClientStep \/ TimerExpires \/ KeepAliveElapses \/ Reopen
    PROVE  WhileConnected'
<1>1. Asking /\ op' = op /\ request' = request /\ messageHandlers' = messageHandlers
      /\ inflight' = inflight
  BY WaitingSteps
<1>2. Spent'
  BY FrameSpent DEF WhileConnected
<1>3. OneAnswer'
  BY <1>1, FrameOneAnswer DEF WhileConnected
<1>4. ASSUME NEW k \in (DOMAIN toServer)', Asks(toServer'[k])
      PROVE  Doomed(k)' \/ toServer'[k] = request'
  <2>1. k \in DOMAIN toServer /\ toServer'[k] = toServer[k] /\ accepted' = accepted /\ SameAsks
    BY <1>4 DEF Frame, SameAsks
  <2>2. CASE Doomed(k)
    BY <2>1, <2>2, FrameDoomed
  <2> QED BY <1>1, <1>4, <2>1, <2>2 DEF WhileConnected
<1>5. (\A k \in DOMAIN toClient : Answers(toClient[k]) => IsAnswer(toClient[k]))'
  BY <1>1 DEF WhileConnected, Frame, IsAnswer, Awaited
<1>6. (AnswerFetched => IsAnswer(readbuf))'
  BY <1>1 DEF WhileConnected, Frame, IsAnswer, Awaited
<1>7. Installed'
  <2>1. Installed
    BY DEF WhileConnected, Installed
  <2>2. op = "subscribe" /\ Fetched /\ readbuf.type = "SUBACK" => Fetched' /\ readbuf' = readbuf
    BY GrantSteps
  <2> QED BY <1>1, <2>1, <2>2 DEF Installed, Handled, Matching, FreeSlots, Frame, Granting
<1> QED BY <1>1, <1>2, <1>3, <1>4, <1>5, <1>6, <1>7, KeepsSteps DEF WhileConnected, Installed

\* A step outside the wait for an answer keeps WhileConnected.
LEMMA WhileOther ==
    ASSUME TypeOK, CallShape, WhileConnected, intact, ~Wrong, isconnected, isconnected', Frame,
           ~Asking, ~Asking', ~AskingSend,
           Call \/ ClientStep \/ TimerExpires \/ KeepAliveElapses \/ Reopen
    PROVE  WhileConnected'
<1>1. messageHandlers' = messageHandlers
      /\ KeepsOne'
  <2>1. KeepsOne
    BY DEF WhileConnected
  <2> QED BY <2>1, OtherSteps
<1>2. Spent'
  BY FrameSpent DEF WhileConnected
<1>3. Quiet'
  BY FrameQuiet DEF WhileConnected
<1>4. Installed'
  <2>1. Installed
    BY DEF WhileConnected, Installed
  <2> QED BY <1>1, <2>1 DEF Installed, Handled, Granting, Matching, FreeSlots, Frame
<1> QED BY <1>1, <1>2, <1>3, <1>4 DEF WhileConnected, Installed

\* The end of subscribe, unsubscribe and publish leaves nothing under way and
\* installs what was granted.
LEMMA WhileAnswered ==
    ASSUME TypeOK, CallShape, WhileConnected, intact, ~Wrong, isconnected, isconnected', Frame,
           Asking, ~Asking',
           Call \/ ClientStep \/ TimerExpires \/ KeepAliveElapses \/ Reopen
    PROVE  WhileConnected'
<1>1. pc = "answer" /\ pc' = "idle" /\ readbuf' = NoPacket /\ (FinishSubscribe \/ FinishUnsubscribe \/ FinishPublish)
  BY AnsweredSteps
<1>2. Spent'
  BY FrameSpent DEF WhileConnected
<1>3. AnswerFetched /\ IsAnswer(readbuf) /\ ~AnswerInStream
  <2>1. AnswerFetched
    BY <1>1 DEF AnswerFetched, Fetched, Answers, CallShape, Awaited, Asking
  <2> QED BY <2>1 DEF WhileConnected, OneAnswer
<1>4. Quiet'
  <2>1. ASSUME NEW k \in (DOMAIN toServer)', Asks(toServer'[k]) PROVE Doomed(k)'
    <3>1. k \in DOMAIN toServer /\ Asks(toServer[k]) /\ SameAsks /\ accepted' = accepted
      BY <2>1 DEF Frame, SameAsks
    <3>2. Doomed(k)
      BY <1>3, <3>1 DEF WhileConnected, OneAnswer
    <3> QED BY <3>1, <3>2, FrameDoomed
  <2>2. ~AnswerFetched'
    BY <1>1 DEF AnswerFetched, Fetched
  <2> QED BY <1>3, <2>1, <2>2, FrameStream DEF Quiet
<1>5. KeepsOne'
  BY <1>3, KeepsSteps DEF WhileConnected, IsAnswer
<1>6. Installed'
  <2>1. SUFFICES ASSUME ~keepSession, NEW t \in Topics, granted[t] # Unsubscribed
                 PROVE  Handled(t)'
    BY DEF Frame, Installed
  <2>2. Handled(t) /\ granted' = granted
    BY <2>1 DEF WhileConnected, Frame
  <2>3. CASE Matching(t) # {}
    <3>1. PICK i \in Slots : messageHandlers[i] = t /\ t # NoTopic
      BY <2>3 DEF Matching
    <3>2. messageHandlers'[i] = t
      <4>1. CASE FinishSubscribe
        <5>1. i \notin FreeSlots
          BY <3>1 DEF FreeSlots
        <5>2. CASE FreeSlots = {}
          BY <3>1, <4>1, <5>2 DEF FinishSubscribe
        <5>3. CASE FreeSlots # {}
          BY <3>1, <4>1, <5>1, <5>3, FirstFreeSlot DEF FinishSubscribe, TypeOK, ObjectTypes
        <5> QED BY <5>2, <5>3
      <4> QED BY <1>1, <3>1, <4>1 DEF FinishUnsubscribe, FinishPublish
    <3> QED BY <3>1, <3>2 DEF Matching, Handled
  <2>4. CASE granted[t] = 0 /\ FreeSlots = {}
    <3>1. messageHandlers' = messageHandlers
      BY <1>1, <2>4 DEF FinishSubscribe, FinishUnsubscribe, FinishPublish
    <3> QED BY <2>2, <2>4, <3>1 DEF Handled, FreeSlots
  <2>5. CASE op = "subscribe" /\ request.topic = t /\ Granting(readbuf, t)
    <3>1. FinishSubscribe
      BY <1>1, <2>5 DEF FinishUnsubscribe, FinishPublish, Answered
    <3>2. readbuf.code = granted[t] /\ granted[t] \in {0, 1} /\ readbuf.code # Refused
      BY <2>1, <2>5 DEF Granting, Refused, TypeOK, BrokerTypes
    <3>3. CASE FreeSlots = {}
      <4>1. readbuf.code = 0
        BY <3>1, <3>3, Zenon DEF FinishSubscribe
      <4> QED BY <2>4, <3>2, <3>3, <4>1
    <3>4. CASE FreeSlots # {}
      <4> DEFINE slot == CHOOSE i \in FreeSlots : \A j \in FreeSlots : i <= j
      <4>1. slot \in FreeSlots /\ slot \in Slots
        BY <3>4, FirstFreeSlot DEF FreeSlots
      <4>2. messageHandlers' = [messageHandlers EXCEPT ![slot] = t]
        BY <2>5, <3>1, <3>2, <3>4 DEF FinishSubscribe
      <4> HIDE DEF slot
      <4>3. messageHandlers'[slot] = t /\ t # NoTopic
        BY <4>1, <4>2, <2>1 DEF TypeOK, ObjectTypes
      <4> QED BY <4>1, <4>3 DEF Matching, Handled
    <3> QED BY <3>3, <3>4
  <2>6. \A k \in DOMAIN toClient : ~Granting(toClient[k], t)
    BY <1>3 DEF AnswerInStream, Granting, Answers
  <2> QED BY <2>2, <2>3, <2>4, <2>5, <2>6 DEF Handled
<1> QED BY <1>2, <1>4, <1>5, <1>6 DEF WhileConnected, Installed

\* When the client gets connected nothing is under way: by connect without a
\* kept publish, or by the answer to it.
LEMMA WhileBegins ==
    ASSUME IndInv, intact, ~isconnected, isconnected', Frame,
           Call \/ ClientStep \/ TimerExpires \/ KeepAliveElapses \/ Reopen
    PROVE  WhileConnected' /\ ~Wrong'
<1>1. \/ FinishConnect /\ readbuf.code = 0 /\ inflight = NoPacket
      \/ FinishPublish /\ op = "resend"
  <2>1. ~Call
    BY DEF Call, CallConnect, CallSubscribe, CallUnsubscribe, CallWithTopic, CallPublish,
           CallDisconnect, CallYield, IndInv, TypeOK, ObjectTypes
  <2>2. ClientStep
    BY <2>1 DEF TimerExpires, KeepAliveElapses, Reopen, IndInv, TypeOK, ObjectTypes
  <2> QED BY <2>2 DEF ClientStep, QuietStep, SendRequest, SendFails, WaitTimesOut, Fail,
     ResendInflight, StartCycle, NextRead, HeaderTimesOut, ReadHeader, ReadLength, ReadBody,
     LengthTimesOut, BodyCut, ReadJunk, ReadStep, HandleOther, SendPuback, PubackFails,
     Keepalive, FinishConnect, FinishSubscribe, FinishUnsubscribe, FinishPublish,
     DeliverMessage, IndInv, TypeOK, ObjectTypes
<1>2. Hope /\ Fetched /\ pc' = "idle" /\ op' = "none" /\ readbuf' = NoPacket /\ inflight' = NoPacket
      /\ messageHandlers' = messageHandlers /\ readbuf \notin {NoPacket, Connack(5)}
      /\ (op = "resend" => Answers(readbuf))
  <2>1. CASE FinishConnect /\ readbuf.code = 0 /\ inflight = NoPacket
    BY <2>1 DEF FinishConnect, Answered, Return, Hope, Spent, Fetched, IndInv, CallShape,
       Awaited, Connack, NoPacket
  <2>2. CASE FinishPublish /\ op = "resend"
    <3>1. readbuf.type = "PUBACK" /\ Fetched /\ Hope
      BY <2>2 DEF FinishPublish, IndInv, CallShape, Awaited, Fetched, Hope
    <3>2. inflight # NoPacket /\ readbuf = Puback(inflight.id)
      <4>1. ~Closing
        BY <3>1 DEF IndInv, OneAccept, Closing, Connack, NoPacket
      <4> QED BY <3>1, <4>1 DEF IndInv, BeforeConnected, AnswerFetched, Answers
    <3>3. inflight' = NoPacket
      BY <2>2, <3>2 DEF FinishPublish, Puback
    <3> QED BY <2>2, <3>1, <3>3 DEF FinishPublish, Return, Connack, NoPacket, Answers
  <2> QED BY <1>1, <2>1, <2>2
<1>8. ~Closing
  BY <1>2 DEF IndInv, OneAccept, Closing
<1>3. Spent'
  <2>1. NoConnack /\ (link = "up" => accepted)
    BY <1>2 DEF IndInv, OneAccept
  <2> QED BY <1>2, <2>1 DEF Spent, NoConnack, Frame, NoPacket
<1>4. Quiet
      \/ (AnswerFetched /\ ~AnswerInStream /\ \A k \in DOMAIN toServer : Asks(toServer[k]) => Doomed(k))
  <2>1. CASE FinishConnect /\ inflight = NoPacket
    <3>1. ~Answers(readbuf)
      BY <2>1 DEF FinishConnect, Answered, IndInv, CallShape, Awaited, Answers
    <3>2. ~Asks(NoPacket)
      BY DEF Asks, NoPacket
    <3> QED BY <1>2, <1>8, <2>1, <3>1, <3>2 DEF IndInv, BeforeConnected, Quiet, AnswerInStream,
       AnswerFetched
  <2>2. CASE op = "resend"
    BY <1>2, <1>8, <2>2 DEF IndInv, BeforeConnected, OneAnswer, AnswerFetched
  <2> QED BY <1>1, <2>1, <2>2
<1>5. Quiet'
  <2>1. ASSUME NEW k \in (DOMAIN toServer)', Asks(toServer'[k]) PROVE Doomed(k)'
    <3>1. k \in DOMAIN toServer /\ Asks(toServer[k]) /\ SameAsks /\ accepted' = accepted
      BY <2>1 DEF Frame, SameAsks
    <3> QED BY <1>4, <3>1, FrameDoomed DEF Quiet
  <2>2. ~AnswerFetched'
    BY <1>2 DEF AnswerFetched, Fetched
  <2> QED BY <1>4, <2>1, <2>2, FrameStream DEF Quiet
<1>6. Installed'
  BY <1>2, <1>8 DEF Installed, Frame, IndInv, BeforeConnected, NoSubscriptions
<1>7. ~Asking'
  BY <1>2 DEF Asking
<1> QED BY <1>2, <1>3, <1>5, <1>6, <1>7 DEF WhileConnected, Installed, KeepsOne, Wrong, Spent

\* Taking a packet keeps WhileConnected.
LEMMA WhileTake ==
    ASSUME TypeOK, DownIsEmpty, InStep, WhileConnected, TakePacket, intact, ~Wrong, isconnected
    PROVE  WhileConnected'
<1>1. Asking' = Asking /\ inflight' = inflight /\ op' = op /\ request' = request
  BY DEF Asking, TakePacket
<1>2. Spent'
  BY TakeSpent DEF WhileConnected
<1>3. ASSUME ~Asking PROVE Quiet'
  <2>1. Quiet
    BY <1>3 DEF WhileConnected
  <2>2. ~AnswerInStream' /\ ~AnswerFetched'
    BY <2>1, TakeAnswers DEF Quiet
  <2>3. ASSUME NEW k \in (DOMAIN toServer)', Asks(toServer'[k]) PROVE Doomed(k)'
    BY <2>1, <2>3, TakeDoomed DEF Quiet, TakePacket
  <2> QED BY <2>2, <2>3 DEF Quiet
<1>4. ASSUME Asking
      PROVE  /\ OneAnswer'
             /\ (\A k \in DOMAIN toServer : Asks(toServer[k]) => Doomed(k) \/ toServer[k] = request)'
             /\ (\A k \in DOMAIN toClient : Answers(toClient[k]) => IsAnswer(toClient[k]))'
             /\ (AnswerFetched => IsAnswer(readbuf))'
  <2>1. OneAnswer'
    BY <1>4, TakeOneAnswer DEF WhileConnected
  <2>2. ASSUME NEW k \in (DOMAIN toServer)', Asks(toServer'[k])
        PROVE  Doomed(k)' \/ toServer'[k] = request'
    BY <1>4, <2>2, TakeDoomed DEF WhileConnected, TakePacket
  <2>3. ASSUME NEW p, IsAnswer(p) PROVE IsAnswer(p)'
    BY <1>1, <2>3 DEF IsAnswer, Awaited
  <2>4. ASSUME NEW k \in (DOMAIN toClient)', Answers(toClient'[k]) PROVE IsAnswer(toClient[k])'
    <3>1. k + 1 \in DOMAIN toClient /\ toClient'[k] = toClient[k + 1]
      BY <2>4, TakeFacts
    <3>2. IsAnswer(toClient[k + 1])
      BY <1>4, <2>4, <3>1 DEF WhileConnected
    <3> QED BY <1>1, <3>1, <3>2 DEF IsAnswer, Awaited
  <2>5. ASSUME AnswerFetched' PROVE IsAnswer(readbuf)'
    <3>1. Answers(toClient[1]) /\ readbuf' = toClient[1] /\ 1 \in DOMAIN toClient
      BY <2>5, TakeAnswers, TakeFacts
    <3>2. IsAnswer(toClient[1])
      BY <1>4, <3>1 DEF WhileConnected
    <3> QED BY <1>1, <3>1, <3>2 DEF IsAnswer, Awaited
  <2> QED BY <2>1, <2>2, <2>4, <2>5
<1>5. Installed'
  <2>1. SUFFICES ASSUME ~keepSession, NEW t \in Topics, granted[t] # Unsubscribed
                 PROVE  Handled(t)'
    BY DEF Installed, TakePacket
  <2>2. Handled(t) /\ ~Fetched /\ granted' = granted /\ messageHandlers' = messageHandlers
    BY <2>1 DEF WhileConnected, Fetched, TakePacket
  <2>3. CASE Matching(t) # {} \/ (granted[t] = 0 /\ FreeSlots = {})
    BY <2>2, <2>3 DEF Handled, Matching, FreeSlots
  <2>4. ASSUME Asking, op = "subscribe", request.topic = t,
               NEW k \in DOMAIN toClient, Granting(toClient[k], t)
        PROVE  Handled(t)'
    <3>1. CASE k = 1
      BY <1>1, <2>2, <2>4, <3>1, TakeFacts DEF Fetched, TakePacket, Handled, Granting
    <3>2. CASE k # 1
      <4>1. k - 1 \in (DOMAIN toClient)' /\ toClient'[k - 1] = toClient[k]
        BY <2>4, <3>2, TakeFacts
      <4> QED BY <1>1, <2>2, <2>4, <4>1 DEF Handled, Granting
    <3> QED BY <3>1, <3>2
  <2> QED BY <2>2, <2>3, <2>4 DEF Handled
<1>6. KeepsOne'
  BY <1>1 DEF WhileConnected, KeepsOne
<1> QED BY <1>1, <1>2, <1>3, <1>4, <1>5, <1>6 DEF WhileConnected, Installed

\* Sending the request of a connected client keeps WhileConnected.
LEMMA WhileAsk ==
    ASSUME TypeOK, CallShape, DownIsEmpty, WhileConnected, AskingSend, intact, ~Wrong,
           isconnected
    PROVE  WhileConnected'
<1>1. op \in {"subscribe", "unsubscribe", "publish"} /\ ~Asking /\ Asking'
  BY AskRest DEF Asking, CallShape
<1>2. Quiet /\ Spent
  BY <1>1 DEF WhileConnected
<1>3. Spent'
  BY <1>2, AskRest DEF Spent, NoConnack, NoPacket
<1>4. ~AnswerInStream' /\ ~AnswerFetched'
  BY <1>2, AskStream DEF Quiet
<1>5. CASE link # "up"
  <2>1. toServer' = <<>> /\ toClient' = <<>>
    BY <1>5, DownNoAnswer, AskRest
  <2>2. Installed'
    BY <1>1, AskRest DEF Installed, Handled, WhileConnected, Matching, FreeSlots
  <2>3. KeepsOne'
    BY AskRest DEF WhileConnected, KeepsOne
  <2> QED BY <1>1, <1>3, <1>4, <2>1, <2>2, <2>3 DEF WhileConnected, Installed, OneAnswer
<1>6. CASE link = "up"
  <2>1. ASSUME NEW k \in (DOMAIN toServer)', Asks(toServer'[k])
        PROVE  \/ k \in DOMAIN toServer /\ Doomed(k)'
               \/ k = Len(toServer) + 1 /\ toServer'[k] = request'
    <3>1. CASE k \in DOMAIN toServer
      <4>1. Doomed(k)
        BY <1>2, <1>6, <2>1, <3>1, AskFacts DEF Quiet
      <4> QED BY <1>6, <3>1, <4>1, AskDoomed
    <3>2. CASE k \notin DOMAIN toServer
      BY <1>6, <2>1, <3>2, AskFacts, AskRest
    <3> QED BY <3>1, <3>2
  <2>2. ASSUME NEW i \in (DOMAIN toServer)', NEW k \in (DOMAIN toServer)', i < k,
               Asks(toServer'[i]), Asks(toServer'[k])
        PROVE  Doomed(i)'
    BY <1>6, <2>1, <2>2, AskFacts
  <2>3. OneAnswer'
    BY <1>4, <2>2 DEF OneAnswer, AnswerInStream
  <2>4. Installed'
    BY <1>1, AskRest DEF Installed, Handled, WhileConnected, Matching, FreeSlots
  <2>5. (\A k \in DOMAIN toClient : Answers(toClient[k]) => IsAnswer(toClient[k]))'
    BY <1>4 DEF AnswerInStream
  <2>6. KeepsOne'
    BY AskRest DEF WhileConnected, KeepsOne
  <2> QED BY <1>1, <1>3, <1>4, <2>1, <2>3, <2>4, <2>5, <2>6 DEF WhileConnected, Installed
<1> QED BY <1>5, <1>6

\* A connected client writes no CONNECT.
LEMMA NoConnectSteps ==
    ASSUME TypeOK, CallShape, isconnected,
           Call \/ ClientStep \/ TimerExpires \/ KeepAliveElapses \/ Reopen
    PROVE  \/ toServer' = toServer \/ toServer' = <<>>
           \/ \E p \in ClientPacket : p.type # "CONNECT" /\ toServer' = Append(toServer, p)
<1>1. CASE Call
  BY <1>1 DEF Call, CallConnect, CallSubscribe, CallUnsubscribe, CallWithTopic, CallPublish,
     CallDisconnect, CallYield
<1>2. CASE SendRequest
  <2>1. request \in ClientPacket /\ request.type # "CONNECT"
    BY <1>2, RequestToSend DEF SendRequest, CallShape, TypeOK, CallTypes
  <2> QED BY <1>2, <2>1 DEF SendRequest, Written
<1>3. CASE SendFails \/ WaitTimesOut \/ StartCycle
  BY <1>3 DEF SendFails, NotWritten, WaitTimesOut, StartCycle, NextRead
<1>4. CASE \/ HeaderTimesOut \/ ReadHeader \/ ReadLength \/ ReadBody
           \/ LengthTimesOut \/ BodyCut \/ ReadJunk
  BY <1>4 DEF HeaderTimesOut, ReadHeader, NextRead, ReadLength, ReadBody, LengthTimesOut, BodyCut,
     ReadJunk, ReadStep
<1>5. CASE SendPuback
  <2>1. Puback(readbuf.id) \in ClientPacket /\ Puback(readbuf.id).type # "CONNECT"
    BY <1>5, FetchedPublish, ClientPackets DEF SendPuback, Puback
  <2> QED BY <1>5, <2>1 DEF SendPuback, Written
<1>6. CASE Keepalive
  <2>1. [type |-> "PINGREQ"] \in ClientPacket /\ [type |-> "PINGREQ"].type # "CONNECT"
    BY ClientPackets
  <2> QED BY <1>6, <2>1 DEF Keepalive, Written, NotWritten
<1>7. CASE HandleOther \/ DeliverMessage \/ PubackFails
  BY <1>7 DEF HandleOther, DeliverMessage, PubackFails, NotWritten
<1>8. CASE FinishConnect \/ FinishSubscribe \/ FinishUnsubscribe \/ FinishPublish
  BY <1>8 DEF FinishConnect, FinishSubscribe, FinishUnsubscribe, FinishPublish
<1>9. CASE TimerExpires \/ KeepAliveElapses \/ Reopen
  BY <1>9 DEF TimerExpires, KeepAliveElapses, Reopen, LinkOpened
<1> QED
  BY <1>1, <1>2, <1>3, <1>4, <1>5, <1>6, <1>7, <1>8, <1>9 DEF ClientStep, QuietStep

\* On a link where the server answers nothing there is nothing to read.
LEMMA WrongFacts ==
    ASSUME TypeOK, OneAccept, WhileWrong, intact, Wrong
    PROVE  toClient = <<>> /\ readbuf = NoPacket /\ link = "up" /\ ~accepted /\ isconnected
<1>1. link = "up" /\ ~accepted /\ isconnected
  BY DEF Wrong
<1>2. \A k \in DOMAIN toClient : toClient[k] = Connack(5) /\ toClient[k].type # "CONNACK"
  BY <1>1 DEF OneAccept, WhileWrong, NoConnack
<1>3. \A k \in DOMAIN toClient : FALSE
  BY <1>2 DEF Connack
<1>4. toClient = <<>>
  BY <1>3, TailFacts DEF TypeOK, BrokerTypes
<1>5. readbuf = NoPacket
  BY <1>1 DEF OneAccept, WhileWrong, Connack
<1> QED BY <1>1, <1>4, <1>5

\* A step of a client on such a link keeps WhileWrong.
LEMMA WrongSteps ==
    ASSUME IndInv, TypeOK', intact, Wrong, Wrong', Frame \/ TakePacket \/ AskingSend,
           Call \/ ClientStep \/ TimerExpires \/ KeepAliveElapses \/ Reopen
    PROVE  WhileWrong'
<1>1. toClient = <<>> /\ readbuf = NoPacket /\ isconnected /\ isconnected'
  BY WrongFacts DEF IndInv, Wrong
<1>2. ~TakePacket
  BY <1>1 DEF TakePacket
<1>3. NoConnack' /\ readbuf'.type # "CONNACK"
  <2>1. CASE Frame
    BY <1>1, <2>1 DEF Frame, NoConnack, NoPacket
  <2>2. CASE AskingSend
    BY <1>1, <2>2, AskRest DEF NoConnack, NoPacket, IndInv
  <2> QED BY <1>2, <2>1, <2>2
<1>4. toServer' = <<>> \/ Closing'
  <2>1. CASE Closing
    BY <2>1, ClosingStays DEF IndInv
  <2>2. CASE toServer = <<>>
    <3>1. CASE \E p \in ClientPacket : p.type # "CONNECT" /\ toServer' = Append(toServer, p)
      <4>1. PICK p \in ClientPacket : p.type # "CONNECT" /\ toServer' = Append(toServer, p)
        BY <3>1
      <4>2. toServer' = <<p>>
        BY <2>2, <4>1
      <4>3. toServer' # <<>> /\ Head(toServer') = p
        BY <4>2
      <4> QED BY <4>1, <4>3 DEF Closing, Wrong
    <3> QED BY <1>1, <2>2, <3>1, NoConnectSteps DEF IndInv
  <2> QED BY <2>1, <2>2 DEF IndInv, WhileWrong
<1>5. KeepsOne'
  <2>1. ~(Asking /\ ~Asking')
    <3>1. SUFFICES ASSUME Asking, ~Asking' PROVE FALSE
      OBVIOUS
    <3>2. pc = "answer"
      BY <1>1, <3>1, AnsweredSteps DEF IndInv
    <3> QED BY <1>1, <3>1, <3>2 DEF IndInv, CallShape, Awaited, Asking, NoPacket
  <2>2. KeepsOne
    BY DEF IndInv, WhileWrong
  <2> QED BY <1>1, <2>1, <2>2, KeepsSteps DEF IndInv
<1> QED BY <1>3, <1>4, <1>5 DEF WhileWrong

\* A link that is opened under a client that holds itself connected is empty.
LEMMA WrongReopen ==
    ASSUME IndInv, Reopen
    PROVE  WhileWrong'
<1>1. SUFFICES ASSUME intact', isconnected PROVE WhileWrong'
  BY DEF WhileWrong, Wrong, Reopen
<1>2. intact /\ link = "down" /\ pc = "idle"
  BY <1>1 DEF Reopen, LinkOpened
<1>3. toServer = <<>> /\ toClient = <<>> /\ ~Wrong
  BY <1>2 DEF IndInv, DownIsEmpty, Wrong
<1>4. Spent /\ KeepsOne
  BY <1>1, <1>2, <1>3 DEF IndInv, WhileConnected
<1>5. UNCHANGED <<toServer, toClient, readbuf, op, inflight, request>>
  BY DEF Reopen, LinkOpened
<1> QED BY <1>3, <1>4, <1>5 DEF WhileWrong, Spent, NoConnack, KeepsOne

\* Every step of the client keeps WhileConnected and WhileWrong.
LEMMA WhileSteps ==
    ASSUME IndInv, TypeOK', Call \/ ClientStep \/ TimerExpires \/ KeepAliveElapses \/ Reopen
    PROVE  WhileConnected' /\ WhileWrong'
<1>1. CASE Reopen
  <2>1. WhileConnected'
    BY <1>1 DEF Reopen, LinkOpened, WhileConnected, Wrong, IndInv, DownIsEmpty
  <2> QED BY <1>1, <2>1, WrongReopen
<1>2. CASE ~Reopen
  <2>1. SUFFICES ASSUME intact', isconnected' PROVE WhileConnected' /\ WhileWrong'
    BY DEF WhileConnected, WhileWrong, Wrong
  <2>2. intact
    BY <1>2, <2>1, IntactSteps
  <2>3. Frame \/ TakePacket \/ AskingSend
    BY <1>2, <2>1, <2>2, FrameSteps DEF IndInv
  <2>4. CASE ~isconnected
    <3>1. ~TakePacket /\ ~AskingSend
      BY <2>1, <2>4, AskRest DEF TakePacket, IndInv
    <3>2. Frame
      BY <2>3, <3>1
    <3> QED BY <1>2, <2>1, <2>2, <2>4, <3>2, WhileBegins DEF WhileWrong
  <2>5. CASE isconnected /\ Wrong
    <3>1. Wrong'
      BY <2>1, <2>3, <2>5, LinkKept DEF Wrong, IndInv
    <3>2. WhileConnected'
      BY <3>1 DEF WhileConnected
    <3> QED BY <2>2, <2>3, <2>5, <3>1, <3>2, WrongSteps
  <2>6. CASE isconnected /\ ~Wrong
    <3>1. ~Wrong'
      BY <2>3, <2>6, LinkKept DEF Wrong, IndInv
    <3>2. WhileWrong'
      BY <3>1 DEF WhileWrong
    <3>3. CASE AskingSend
      BY <2>2, <2>6, <3>2, <3>3, WhileAsk DEF IndInv
    <3>4. CASE TakePacket
      BY <2>2, <2>6, <3>2, <3>4, WhileTake DEF IndInv
    <3>5. CASE Frame /\ ~AskingSend
      <4> SUFFICES WhileConnected'
        BY <3>2
      <4>1. CASE Asking'
        BY <2>1, <2>2, <2>6, <3>5, <4>1, WhileAsking DEF IndInv
      <4>2. CASE ~Asking' /\ Asking
        BY <2>1, <2>2, <2>6, <3>5, <4>2, WhileAnswered DEF IndInv
      <4>3. CASE ~Asking' /\ ~Asking
        BY <2>1, <2>2, <2>6, <3>5, <4>3, WhileOther DEF IndInv
      <4> QED BY <4>1, <4>2, <4>3
    <3> QED BY <2>3, <3>3, <3>4, <3>5
  <2> QED BY <2>4, <2>5, <2>6
<1> QED BY <1>1, <1>2

\* What the server changes when it takes a packet and replies.
LEMMA ServeFacts ==
    ASSUME BrokerTypes, NEW type, NEW replies \in Seq(ServerPacket), Serve(type, replies)
    PROVE  /\ link = "up" /\ link' = "up" /\ offset' = offset
           /\ toServer' \in Seq(ClientPacket) /\ toClient' \in Seq(ServerPacket)
           /\ toServer[1] = Request /\ Request \in ClientPacket /\ Request.type = type
           /\ Len(toServer) \in Nat \ {0} /\ Len(toServer') = Len(toServer) - 1
           /\ DOMAIN toServer = 1 .. Len(toServer)
           /\ (DOMAIN toServer)' = 1 .. Len(toServer) - 1
           /\ \A k \in 1 .. Len(toServer) - 1 : toServer'[k] = toServer[k + 1]
           /\ Len(toClient) \in Nat /\ Len(replies) \in Nat
           /\ DOMAIN toClient = 1 .. Len(toClient) /\ DOMAIN replies = 1 .. Len(replies)
           /\ (DOMAIN toClient)' = 1 .. Len(toClient) + Len(replies)
           /\ \A k \in 1 .. Len(toClient) : toClient'[k] = toClient[k]
           /\ \A k \in 1 .. Len(replies) : toClient'[Len(toClient) + k] = replies[k]
<1>1. toServer \in Seq(ClientPacket) /\ toServer # <<>> /\ toClient \in Seq(ServerPacket)
  BY DEF BrokerTypes, Serve
<1>2. toServer' = Tail(toServer) /\ toClient' = toClient \o replies
  BY DEF Serve
<1>3. link = "up" /\ link' = "up" /\ offset' = offset /\ Request.type = type
  BY DEF Serve, Request
<1>4. toServer[1] = Request /\ Request \in ClientPacket
  BY <1>1, TailFacts DEF Request
<1>5. /\ toServer' \in Seq(ClientPacket)
      /\ Len(toServer) \in Nat \ {0} /\ Len(toServer') = Len(toServer) - 1
      /\ DOMAIN toServer = 1 .. Len(toServer)
      /\ (DOMAIN toServer)' = 1 .. Len(toServer) - 1
      /\ \A k \in 1 .. Len(toServer) - 1 : toServer'[k] = toServer[k + 1]
  BY <1>1, <1>2, TailFacts
<1>6. /\ toClient' \in Seq(ServerPacket)
      /\ Len(toClient) \in Nat /\ Len(replies) \in Nat
      /\ DOMAIN toClient = 1 .. Len(toClient) /\ DOMAIN replies = 1 .. Len(replies)
      /\ (DOMAIN toClient)' = 1 .. Len(toClient) + Len(replies)
      /\ \A k \in 1 .. Len(toClient) : toClient'[k] = toClient[k]
      /\ \A k \in 1 .. Len(replies) : toClient'[Len(toClient) + k] = replies[k]
  BY <1>1, <1>2, ConcatFacts
<1> QED BY <1>3, <1>4, <1>5, <1>6

\* The fields of the packets that the server reads.
LEMMA RequestFields ==
    ASSUME NEW p \in ClientPacket
    PROVE  /\ p.type = "CONNECT" => p.clean \in BOOLEAN
           /\ p.type \in {"SUBSCRIBE", "UNSUBSCRIBE"} => p.id \in PacketIds /\ p.topic \in Topics
           /\ p.type = "PUBLISH" => /\ p.topic \in Topics /\ p.qos \in {0, 1}
                                    /\ p.id \in 0 .. MaxPacketId /\ p.payload \in Payloads
  BY DEF ClientPacket, PublishPacket

\* The server sends messages of the right type.
LEMMA MessageType ==
    ASSUME BrokerTypes, NEW t \in Topics, NEW q \in {0, 1}, NEW v \in Payloads
    PROVE  Message(t, q, v) \in MessagePacket /\ Message(t, q, v) \in ServerPacket
<1> DEFINE qos == IF granted[t] = 1 THEN q ELSE 0
           id == IF qos = 1 THEN pubs + 1 ELSE 0
<1>1. qos \in {0, 1} /\ id \in Nat
  BY DEF BrokerTypes
<1>2. Message(t, q, v) = Publish(t, qos, id, v)
  BY DEF Message
<1> HIDE DEF qos, id
<1> QED BY <1>1, <1>2, ServerPackets

\* What the server keeps until it is acknowledged has the type of a message.
LEMMA SentTypes ==
    ASSUME BrokerTypes, NEW p \in MessagePacket, Sent(p)
    PROVE  unacked' \in Seq(MessagePacket) /\ pubs' \in Nat
<1>1. unacked \in Seq(MessagePacket) /\ pubs \in Nat
  BY DEF BrokerTypes
<1> QED BY <1>1, AppendFacts DEF Sent

\* A sequence without one of its elements has the type it had.
LEMMA SelectTypes ==
    ASSUME NEW S, NEW s \in Seq(S), NEW k \in DOMAIN s
    PROVE  SubSeq(s, 1, k - 1) \o SubSeq(s, k + 1, Len(s)) \in Seq(S)
  OBVIOUS

\* The server takes the first packet off its stream.
Popped ==
    /\ Len(toServer) \in Nat \ {0} /\ DOMAIN toServer = 1 .. Len(toServer)
    /\ Len(toServer') = Len(toServer) - 1 /\ (DOMAIN toServer)' = 1 .. Len(toServer) - 1
    /\ \A k \in 1 .. Len(toServer) - 1 : toServer'[k] = toServer[k + 1]

\* The client's stream keeps what it holds.
Grown ==
    /\ link = "up" /\ link' = "up" /\ offset' = offset
    /\ Len(toClient) \in Nat /\ DOMAIN toClient = 1 .. Len(toClient)
    /\ Len(toClient') \in Nat /\ (DOMAIN toClient)' = 1 .. Len(toClient')
    /\ Len(toClient) <= Len(toClient')
    /\ \A k \in DOMAIN toClient : toClient'[k] = toClient[k]

\* Where the packets are that the step wrote.
NewPackets == Len(toClient) + 1 .. Len(toClient')

\* A step of a session that answers no request.
PlainStep ==
    /\ accepted /\ UNCHANGED <<accepted, keepSession, granted>> /\ Grown
    /\ \/ toServer' = toServer
       \/ Popped /\ ~Asks(toServer[1]) /\ toServer[1].type # "CONNECT"
    /\ \A k \in NewPackets : ~Answers(toClient'[k]) /\ toClient'[k].type # "CONNACK"

\* Packet n is the answer to request p.
Replies(p, n) ==
    /\ Answers(toClient'[n]) /\ toClient'[n].id = p.id
    /\ p.type = "SUBSCRIBE" =>
        /\ toClient'[n].type = "SUBACK"
        /\ granted' = granted \/ granted' = [granted EXCEPT ![p.topic] = toClient'[n].code]
    /\ p.type = "UNSUBSCRIBE" =>
        /\ toClient'[n].type = "UNSUBACK"
        /\ granted' = [granted EXCEPT ![p.topic] = Unsubscribed]
    /\ p.type = "PUBLISH" => toClient'[n] = Puback(p.id) /\ granted' = granted

\* A step that answers the first request.
AnswerStep ==
    /\ accepted /\ UNCHANGED <<accepted, keepSession>> /\ Grown /\ Popped
    /\ Asks(toServer[1])
    /\ toServer[1].type \in {"SUBSCRIBE", "UNSUBSCRIBE"} => toServer[1].topic \in Topics
    /\ \A k \in NewPackets : toClient'[k].type # "CONNACK"
    /\ \E n \in NewPackets :
        /\ Replies(toServer[1], n)
        /\ \A k \in NewPackets : k # n => ~Answers(toClient'[k])

\* A step that answers the CONNECT of a link without a session.
ConnectStep ==
    /\ ~accepted /\ Grown /\ Popped /\ toServer[1].type = "CONNECT"
    /\ \A k \in NewPackets : ~Answers(toClient'[k])
    /\ \/ /\ accepted' /\ (~keepSession' => granted' = NoSubscriptions)
          /\ \A k \in NewPackets : toClient'[k].type = "CONNACK" => k = Len(toClient) + 1
       \/ /\ ~accepted' /\ UNCHANGED <<keepSession, granted>>
          /\ \A k \in NewPackets : toClient'[k] = Connack(5)

\* A reply takes one packet off the one stream and extends the other.
LEMMA ServeShape ==
    ASSUME BrokerTypes, NEW type, NEW replies \in Seq(ServerPacket), Serve(type, replies)
    PROVE  /\ Popped /\ Grown
           /\ Len(toClient') = Len(toClient) + Len(replies)
           /\ \A k \in NewPackets : k - Len(toClient) \in 1 .. Len(replies)
                                    /\ toClient'[k] = replies[k - Len(toClient)]
<1>1. Popped
  BY ServeFacts DEF Popped
<1>2. Len(toClient') = Len(toClient) + Len(replies)
  BY ServeFacts
<1>3. Grown
  <2>1. Len(toClient) \in Nat /\ Len(replies) \in Nat
    BY ServeFacts
  <2>2. Len(toClient') \in Nat /\ Len(toClient) <= Len(toClient')
    BY <1>2, <2>1
  <2>3. /\ link = "up" /\ link' = "up" /\ offset' = offset /\ DOMAIN toClient = 1 .. Len(toClient)
        /\ (DOMAIN toClient)' = 1 .. Len(toClient')
        /\ \A k \in 1 .. Len(toClient) : toClient'[k] = toClient[k]
    BY <1>2, ServeFacts
  <2> QED BY <2>1, <2>2, <2>3 DEF Grown
<1>4. ASSUME NEW k \in NewPackets
      PROVE  k - Len(toClient) \in 1 .. Len(replies) /\ toClient'[k] = replies[k - Len(toClient)]
  <2>1. Len(toClient) \in Nat /\ Len(replies) \in Nat
    BY ServeFacts
  <2>2. k - Len(toClient) \in 1 .. Len(replies) /\ k = Len(toClient) + (k - Len(toClient))
    BY <1>2, <1>4, <2>1 DEF NewPackets
  <2> QED BY <2>2, ServeFacts
<1> QED BY <1>1, <1>2, <1>3, <1>4

\* A reply keeps the types of the link.
LEMMA ServeTypes ==
    ASSUME BrokerTypes, NEW type, NEW replies \in Seq(ServerPacket), Serve(type, replies),
           accepted' \in BOOLEAN, keepSession' \in BOOLEAN,
           granted' \in [Topics -> {0, 1, Unsubscribed}],
           unacked' \in Seq(MessagePacket), pubs' \in Nat
    PROVE  BrokerTypes'
  BY ServeFacts DEF BrokerTypes

\* Accepting a CONNECT sends the accept first and messages behind it.
LEMMA AcceptKind ==
    ASSUME BrokerTypes, AcceptConnect
    PROVE  BrokerTypes' /\ ConnectStep
<1> DEFINE more == IF Request.clean THEN <<>> ELSE unacked
           replies == <<Connack(0)>> \o more
<1>1. more \in Seq(MessagePacket) /\ Serve("CONNECT", replies)
  BY DEF BrokerTypes, AcceptConnect
<1>2. <<Connack(0)>> \in Seq(ServerPacket) /\ more \in Seq(ServerPacket)
  BY <1>1, ServerPackets
<1>3. replies \in Seq(ServerPacket) /\ replies[1] = Connack(0) /\ Len(replies) = 1 + Len(more)
      /\ \A k \in 1 .. Len(more) : replies[1 + k] = more[k]
  BY <1>2, ConcatFacts
<1>4. \A k \in 1 .. Len(more) : more[k] \in MessagePacket
  BY <1>1
<1>0. Len(more) \in Nat
  BY <1>1
<1> HIDE DEF more, replies
<1>5. BrokerTypes'
  <2>1. Request.clean \in BOOLEAN
    BY <1>1, <1>3, ServeFacts, RequestFields
  <2>2. granted' \in [Topics -> {0, 1, Unsubscribed}]
    BY DEF AcceptConnect, BrokerTypes, NoSubscriptions
  <2>3. unacked' \in Seq(MessagePacket) /\ pubs' \in Nat /\ keepSession' \in BOOLEAN /\ accepted' \in BOOLEAN
    BY DEF AcceptConnect, BrokerTypes
  <2> QED BY <1>1, <1>3, <2>2, <2>3, ServeTypes
<1>6. Popped /\ Grown /\ toServer[1].type = "CONNECT"
  BY <1>1, <1>3, ServeShape, ServeFacts
<1>7. ASSUME NEW k \in NewPackets
      PROVE  ~Answers(toClient'[k]) /\ (toClient'[k].type = "CONNACK" => k = Len(toClient) + 1)
  <2>1. k - Len(toClient) \in 1 .. Len(replies) /\ toClient'[k] = replies[k - Len(toClient)]
    BY <1>1, <1>3, <1>7, ServeShape
  <2>2. k \in Nat /\ Len(toClient) \in Nat
    BY <1>6, <1>7 DEF NewPackets, Grown
  <2>3. CASE k = Len(toClient) + 1
    BY <1>3, <2>1, <2>2, <2>3 DEF Answers, Connack
  <2>4. CASE k # Len(toClient) + 1
    <3>1. k - Len(toClient) - 1 \in 1 .. Len(more)
          /\ k - Len(toClient) = 1 + (k - Len(toClient) - 1)
      <4>1. Len(replies) = 1 + Len(more) /\ Len(more) \in Nat
        BY <1>0, <1>3
      <4> QED BY <2>1, <2>2, <2>4, <4>1
    <3>2. toClient'[k] \in MessagePacket
      BY <1>3, <1>4, <2>1, <3>1
    <3> QED BY <3>2 DEF MessagePacket, Answers
  <2> QED BY <2>3, <2>4
<1>8. ~accepted /\ accepted' /\ (~keepSession' => granted' = NoSubscriptions)
  BY DEF AcceptConnect
<1> QED BY <1>5, <1>6, <1>7, <1>8 DEF ConnectStep

\* Refusing a CONNECT sends a refusal.
LEMMA RefuseKind ==
    ASSUME BrokerTypes, RefuseConnect
    PROVE  BrokerTypes' /\ ConnectStep
<1>1. <<Connack(5)>> \in Seq(ServerPacket) /\ Serve("CONNECT", <<Connack(5)>>)
  BY ServerPackets DEF RefuseConnect
<1>2. BrokerTypes'
  BY <1>1, ServeTypes DEF RefuseConnect, BrokerTypes
<1>3. Popped /\ Grown /\ toServer[1].type = "CONNECT"
  BY <1>1, ServeShape, ServeFacts
<1>4. \A k \in NewPackets : toClient'[k] = Connack(5)
  <2>1. SUFFICES ASSUME NEW k \in NewPackets PROVE toClient'[k] = Connack(5)
    OBVIOUS
  <2>2. k - Len(toClient) \in 1 .. Len(<<Connack(5)>>)
        /\ toClient'[k] = <<Connack(5)>>[k - Len(toClient)]
    BY <1>1, ServeShape
  <2>3. k - Len(toClient) = 1
    BY <2>2
  <2> QED BY <2>2, <2>3
<1>5. ~Answers(Connack(5))
  BY DEF Answers, Connack
<1> QED BY <1>2, <1>3, <1>4, <1>5 DEF RefuseConnect, ConnectStep

\* A packet that gets no reply.
LEMMA ServeNone ==
    ASSUME BrokerTypes, NEW type, Serve(type, <<>>)
    PROVE  Popped /\ Grown /\ NewPackets = {} /\ Request \in ClientPacket /\ toServer[1] = Request /\ Request.type = type
<1>1. <<>> \in Seq(ServerPacket)
  OBVIOUS
<1>2. Popped /\ Grown /\ Len(toClient') = Len(toClient) + Len(<<>>)
  BY <1>1, ServeShape
<1>3. NewPackets = {}
  BY <1>2 DEF Grown, NewPackets
<1> QED BY <1>1, <1>2, <1>3, ServeFacts

\* A packet that gets one reply.
LEMMA ServeOne ==
    ASSUME BrokerTypes, NEW type, NEW r \in ServerPacket, Serve(type, <<r>>)
    PROVE  /\ Popped /\ Grown /\ NewPackets = {Len(toClient) + 1} /\ toClient'[Len(toClient) + 1] = r
           /\ Request \in ClientPacket /\ toServer[1] = Request /\ Request.type = type
<1>1. <<r>> \in Seq(ServerPacket) /\ Len(<<r>>) = 1 /\ <<r>>[1] = r
  OBVIOUS
<1>2. Popped /\ Grown /\ Len(toClient') = Len(toClient) + 1
  BY <1>1, ServeShape
<1>3. NewPackets = {Len(toClient) + 1}
  BY <1>2 DEF Grown, NewPackets
<1>4. toClient'[Len(toClient) + 1] = r
  <2>1. \A k \in 1 .. 1 : toClient'[Len(toClient) + k] = <<r>>[k]
    BY <1>1, ServeFacts
  <2> QED BY <1>1, <2>1
<1> QED BY <1>1, <1>2, <1>3, <1>4, ServeFacts

\* A packet that gets two replies.
LEMMA ServeTwo ==
    ASSUME BrokerTypes, NEW type, NEW r \in ServerPacket, NEW q \in ServerPacket,
           Serve(type, <<r, q>>)
    PROVE  /\ Popped /\ Grown /\ NewPackets = {Len(toClient) + 1, Len(toClient) + 2}
           /\ toClient'[Len(toClient) + 1] = r /\ toClient'[Len(toClient) + 2] = q
           /\ Request \in ClientPacket /\ toServer[1] = Request /\ Request.type = type
<1>1. <<r, q>> \in Seq(ServerPacket) /\ Len(<<r, q>>) = 2 /\ <<r, q>>[1] = r /\ <<r, q>>[2] = q
  OBVIOUS
<1>2. Popped /\ Grown /\ Len(toClient') = Len(toClient) + 2
  BY <1>1, ServeShape
<1>3. NewPackets = {Len(toClient) + 1, Len(toClient) + 2}
  BY <1>2 DEF Grown, NewPackets
<1>4. toClient'[Len(toClient) + 1] = r /\ toClient'[Len(toClient) + 2] = q
  <2>1. \A k \in 1 .. 2 : toClient'[Len(toClient) + k] = <<r, q>>[k]
    BY <1>1, ServeFacts
  <2> QED BY <1>1, <2>1
<1> QED BY <1>1, <1>2, <1>3, <1>4, ServeFacts

\* SUBSCRIBE gets one SUBACK with its id.
LEMMA SubscribeKind ==
    ASSUME BrokerTypes, ServeSubscribe
    PROVE  BrokerTypes' /\ AnswerStep
<1>1. PICK code \in {0, 1, Refused} :
        /\ Serve("SUBSCRIBE", <<Suback(Request.id, code)>>)
        /\ granted' = IF code = Refused THEN granted
                      ELSE [granted EXCEPT ![Request.topic] = code]
  BY DEF ServeSubscribe
<1>2. Request \in ClientPacket /\ Request.type = "SUBSCRIBE"
  BY <1>1, TailFacts DEF Serve, Request, BrokerTypes
<1>3. Request.id \in 0 .. MaxPacketId /\ Request.topic \in Topics
  BY <1>2, RequestFields DEF PacketIds
<1> DEFINE r == Suback(Request.id, code)
<1>4. r \in ServerPacket
  BY <1>1, <1>3, ServerPackets
<1>5. granted' \in [Topics -> {0, 1, Unsubscribed}]
  BY <1>1, <1>3 DEF BrokerTypes
<1>6. <<r>> \in Seq(ServerPacket)
  BY <1>4
<1>7. BrokerTypes'
  BY <1>1, <1>5, <1>6, ServeTypes DEF ServeSubscribe, BrokerTypes
<1>8. /\ Popped /\ Grown /\ NewPackets = {Len(toClient) + 1} /\ toClient'[Len(toClient) + 1] = r
      /\ toServer[1] = Request
  BY <1>1, <1>4, ServeOne
<1>9. /\ Replies(toServer[1], Len(toClient) + 1)
      /\ toClient'[Len(toClient) + 1].type # "CONNACK"
  BY <1>1, <1>2, <1>8 DEF Replies, Suback, Answers
<1>10. Asks(toServer[1])
  BY <1>2, <1>8 DEF Asks
<1> QED BY <1>3, <1>7, <1>8, <1>9, <1>10 DEF AnswerStep, ServeSubscribe

\* SUBSCRIBE gets one SUBACK with its id, even behind a message.
LEMMA EarlyKind ==
    ASSUME BrokerTypes, NEW v \in Payloads, ServeSubscribeEarly(v)
    PROVE  BrokerTypes' /\ AnswerStep
<1> DEFINE p == Publish(Request.topic, 1, pubs + 1, v)
           r == Suback(Request.id, 1)
<1>1. /\ Serve("SUBSCRIBE", <<p, r>>) /\ Sent(p)
      /\ granted' = [granted EXCEPT ![Request.topic] = 1]
  BY DEF ServeSubscribeEarly
<1>2. Request \in ClientPacket /\ Request.type = "SUBSCRIBE"
  BY <1>1, TailFacts DEF Serve, Request, BrokerTypes
<1>3. Request.id \in 0 .. MaxPacketId /\ Request.topic \in Topics
  BY <1>2, RequestFields DEF PacketIds
<1>4. r \in ServerPacket /\ p \in ServerPacket /\ p \in MessagePacket
  BY <1>3, ServerPackets DEF BrokerTypes
<1>5. granted' \in [Topics -> {0, 1, Unsubscribed}]
  BY <1>1, <1>3 DEF BrokerTypes
<1>6. <<p, r>> \in Seq(ServerPacket)
  BY <1>4
<1>7. unacked' \in Seq(MessagePacket) /\ pubs' \in Nat
  BY <1>1, <1>4, SentTypes
<1>8. BrokerTypes'
  BY <1>1, <1>5, <1>6, <1>7, ServeTypes DEF ServeSubscribeEarly, BrokerTypes
<1>9. /\ Popped /\ Grown /\ NewPackets = {Len(toClient) + 1, Len(toClient) + 2}
      /\ toClient'[Len(toClient) + 1] = p /\ toClient'[Len(toClient) + 2] = r
      /\ toServer[1] = Request
  BY <1>1, <1>4, ServeTwo
<1>10. r.type = "SUBACK" /\ p.type = "PUBLISH" /\ r.id = Request.id /\ r.code = 1
  BY DEF Suback, Publish
<1> HIDE DEF p, r
<1>11. Replies(toServer[1], Len(toClient) + 2)
  BY <1>1, <1>2, <1>9, <1>10 DEF Replies, Answers
<1>12. \A k \in NewPackets : /\ toClient'[k].type # "CONNACK"
                             /\ k # Len(toClient) + 2 => ~Answers(toClient'[k])
  BY <1>9, <1>10 DEF Answers
<1>13. Asks(toServer[1])
  BY <1>2, <1>9 DEF Asks
<1>14. accepted /\ UNCHANGED <<accepted, keepSession>> /\ Len(toClient) + 2 \in NewPackets
  BY <1>9 DEF ServeSubscribeEarly
<1>15. \E n \in NewPackets :
        /\ Replies(toServer[1], n)
        /\ \A k \in NewPackets : k # n => ~Answers(toClient'[k])
  BY <1>11, <1>12, <1>14
<1>16. /\ Grown /\ Popped /\ \A k \in NewPackets : toClient'[k].type # "CONNACK"
       /\ toServer[1].topic \in Topics
  BY <1>3, <1>9, <1>12
<1> QED BY <1>8, <1>13, <1>14, <1>15, <1>16 DEF AnswerStep

\* UNSUBSCRIBE gets one UNSUBACK with its id.
LEMMA UnsubscribeKind ==
    ASSUME BrokerTypes, ServeUnsubscribe
    PROVE  BrokerTypes' /\ AnswerStep
<1> DEFINE r == Unsuback(Request.id)
<1>1. Serve("UNSUBSCRIBE", <<r>>) /\ granted' = [granted EXCEPT ![Request.topic] = Unsubscribed]
  BY DEF ServeUnsubscribe
<1>2. Request \in ClientPacket /\ Request.type = "UNSUBSCRIBE"
  BY <1>1, TailFacts DEF Serve, Request, BrokerTypes
<1>3. Request.id \in 0 .. MaxPacketId /\ Request.topic \in Topics
  BY <1>2, RequestFields DEF PacketIds
<1>4. r \in ServerPacket
  BY <1>3, ServerPackets
<1>5. granted' \in [Topics -> {0, 1, Unsubscribed}]
  BY <1>1, <1>3 DEF BrokerTypes
<1>6. <<r>> \in Seq(ServerPacket)
  BY <1>4
<1>7. BrokerTypes'
  BY <1>1, <1>5, <1>6, ServeTypes DEF ServeUnsubscribe, BrokerTypes
<1>8. /\ Popped /\ Grown /\ NewPackets = {Len(toClient) + 1} /\ toClient'[Len(toClient) + 1] = r
      /\ toServer[1] = Request
  BY <1>1, <1>4, ServeOne
<1>9. /\ Replies(toServer[1], Len(toClient) + 1)
      /\ toClient'[Len(toClient) + 1].type # "CONNACK"
  BY <1>1, <1>2, <1>8 DEF Replies, Unsuback, Answers
<1>10. Asks(toServer[1])
  BY <1>2, <1>8 DEF Asks
<1> QED BY <1>3, <1>7, <1>8, <1>9, <1>10 DEF AnswerStep, ServeUnsubscribe

\* Two replies in a row.
LEMMA TwoPackets == \A r, q : <<r>> \o <<q>> = <<r, q>>
<1> TAKE r, q
<1> DEFINE S == {r, q}
<1>1. <<r>> \in Seq(S) /\ <<q>> \in Seq(S) /\ Len(<<r>>) = 1 /\ Len(<<q>>) = 1
  OBVIOUS
<1>2. /\ <<r>> \o <<q>> \in Seq(S) /\ Len(<<r>> \o <<q>>) = 2
      /\ (<<r>> \o <<q>>)[1] = r /\ (<<r>> \o <<q>>)[2] = q
  OBVIOUS
<1>3. <<r, q>> \in Seq(S) /\ Len(<<r, q>>) = 2 /\ <<r, q>>[1] = r /\ <<r, q>>[2] = q
  OBVIOUS
<1> HIDE DEF S
<1>4. \A i \in 1 .. 2 : (<<r>> \o <<q>>)[i] = <<r, q>>[i]
  BY <1>2, <1>3
<1> QED BY <1>2, <1>3, <1>4, SeqEqual

\* A publish at QoS 1 gets one PUBACK with its id, at QoS 0 none, and neither
\* changes a subscription.
LEMMA PublishKind ==
    ASSUME BrokerTypes, ServePublish
    PROVE  BrokerTypes' /\ (PlainStep \/ AnswerStep)
<1> DEFINE p == Request
           echo == Message(p.topic, p.qos, p.payload)
           subscribed == granted[p.topic] # Unsubscribed
           first == IF p.qos = 1 THEN <<Puback(p.id)>> ELSE <<>>
           second == IF subscribed THEN <<echo>> ELSE <<>>
<1>1. /\ accepted /\ UNCHANGED <<accepted, keepSession, granted>>
      /\ Serve("PUBLISH", first \o second)
      /\ IF subscribed THEN Sent(echo) ELSE UNCHANGED <<unacked, pubs>>
  BY DEF ServePublish
<1>2. p \in ClientPacket /\ p.type = "PUBLISH"
  BY <1>1, TailFacts DEF Serve, Request, BrokerTypes
<1>3. p.id \in 0 .. MaxPacketId /\ p.topic \in Topics /\ p.qos \in {0, 1} /\ p.payload \in Payloads
  BY <1>2, RequestFields
<1>4. echo \in ServerPacket /\ echo \in MessagePacket /\ Puback(p.id) \in ServerPacket
  BY <1>3, MessageType, ServerPackets
<1>5. unacked' \in Seq(MessagePacket) /\ pubs' \in Nat
  BY <1>1, <1>4, SentTypes DEF BrokerTypes
<1>6. echo.type = "PUBLISH"
  BY <1>4 DEF MessagePacket
<1>7. Puback(p.id).type = "PUBACK" /\ Puback(p.id).id = p.id
  BY DEF Puback
<1>8. first \o second \in Seq(ServerPacket)
  BY <1>4
<1>9. BrokerTypes'
  BY <1>1, <1>5, <1>8, ServeTypes DEF BrokerTypes
<1>10. toServer[1] = p
  BY <1>1, <1>8, ServeFacts
<1> HIDE DEF echo, p
<1>11. CASE p.qos = 1 /\ subscribed
  <2>1. first = <<Puback(p.id)>> /\ second = <<echo>>
    BY <1>11
  <2>5. first \o second = <<Puback(p.id), echo>>
    <3> HIDE DEF first, second
    <3> QED BY <2>1, TwoPackets
  <2>2. /\ Popped /\ Grown /\ NewPackets = {Len(toClient) + 1, Len(toClient) + 2}
        /\ toClient'[Len(toClient) + 1] = Puback(p.id) /\ toClient'[Len(toClient) + 2] = echo
    BY <1>1, <1>4, <2>5, ServeTwo
  <2>3. Replies(p, Len(toClient) + 1) /\ Asks(p)
    BY <1>1, <1>2, <1>7, <1>11, <2>2 DEF Replies, Answers, Asks
  <2>4. \A k \in NewPackets : /\ toClient'[k].type # "CONNACK"
                              /\ k # Len(toClient) + 1 => ~Answers(toClient'[k])
    BY <1>6, <1>7, <2>2 DEF Answers
  <2> QED BY <1>1, <1>2, <1>9, <1>10, <2>2, <2>3, <2>4 DEF AnswerStep
<1>12. CASE p.qos = 1 /\ ~subscribed
  <2>1. first \o second = <<Puback(p.id)>>
    BY <1>12
  <2>2. /\ Popped /\ Grown /\ NewPackets = {Len(toClient) + 1}
        /\ toClient'[Len(toClient) + 1] = Puback(p.id)
    BY <1>1, <1>4, <2>1, ServeOne
  <2>3. Replies(p, Len(toClient) + 1) /\ Asks(p)
    BY <1>1, <1>2, <1>7, <1>12, <2>2 DEF Replies, Answers, Asks
  <2>4. \A k \in NewPackets : /\ toClient'[k].type # "CONNACK"
                              /\ k # Len(toClient) + 1 => ~Answers(toClient'[k])
    BY <1>7, <2>2 DEF Answers
  <2> QED BY <1>1, <1>2, <1>9, <1>10, <2>2, <2>3, <2>4 DEF AnswerStep
<1>13. CASE p.qos # 1 /\ subscribed
  <2>1. first \o second = <<echo>>
    BY <1>13
  <2>2. /\ Popped /\ Grown /\ NewPackets = {Len(toClient) + 1}
        /\ toClient'[Len(toClient) + 1] = echo
    BY <1>1, <1>4, <2>1, ServeOne
  <2> QED BY <1>1, <1>2, <1>6, <1>9, <1>10, <1>13, <2>2 DEF PlainStep, Asks, Answers
<1>14. CASE p.qos # 1 /\ ~subscribed
  <2>1. first \o second = <<>>
    BY <1>14
  <2>2. Popped /\ Grown /\ NewPackets = {}
    BY <1>1, <2>1, ServeNone
  <2> QED BY <1>1, <1>2, <1>9, <1>10, <1>14, <2>2 DEF PlainStep, Asks
<1> QED BY <1>11, <1>12, <1>13, <1>14

\* An acknowledgement gets no reply.
LEMMA PubackKind ==
    ASSUME BrokerTypes, ServePuback
    PROVE  BrokerTypes' /\ PlainStep
<1>1. Serve("PUBACK", <<>>) /\ accepted /\ UNCHANGED <<accepted, keepSession, granted, pubs>>
  BY DEF ServePuback
<1>2. unacked' \in Seq(MessagePacket)
  <2>1. CASE Acknowledged(Request.id) = {}
    BY <2>1 DEF ServePuback, BrokerTypes
  <2>2. CASE Acknowledged(Request.id) # {}
    <3> DEFINE k == CHOOSE k \in Acknowledged(Request.id) : TRUE
    <3>1. k \in DOMAIN unacked
      BY <2>2 DEF Acknowledged
    <3>2. unacked' = SubSeq(unacked, 1, k - 1) \o SubSeq(unacked, k + 1, Len(unacked))
      BY <2>2 DEF ServePuback
    <3>3. unacked \in Seq(MessagePacket)
      BY DEF BrokerTypes
    <3> HIDE DEF k
    <3> QED BY <3>1, <3>2, <3>3, SelectTypes
  <2> QED BY <2>1, <2>2
<1>3. BrokerTypes'
  <2>1. <<>> \in Seq(ServerPacket)
    OBVIOUS
  <2> QED BY <1>1, <1>2, <2>1, ServeTypes DEF BrokerTypes
<1>4. Popped /\ Grown /\ NewPackets = {} /\ toServer[1].type = "PUBACK"
  BY <1>1, ServeNone
<1> QED BY <1>1, <1>3, <1>4 DEF PlainStep, Asks

\* A ping gets no answer that a call takes for its own.
LEMMA PingreqKind ==
    ASSUME BrokerTypes, ServePingreq
    PROVE  BrokerTypes' /\ PlainStep
<1>1. Serve("PINGREQ", <<Pingresp>>) /\ accepted /\ UNCHANGED sessionVars /\ Pingresp \in ServerPacket
  BY ServerPackets DEF ServePingreq
<1>2. <<Pingresp>> \in Seq(ServerPacket)
  BY <1>1
<1>3. BrokerTypes'
  BY <1>1, <1>2, ServeTypes DEF BrokerTypes
<1>4. Popped /\ Grown /\ NewPackets = {Len(toClient) + 1} /\ toClient'[Len(toClient) + 1] = Pingresp
      /\ toServer[1].type = "PINGREQ"
  BY <1>1, ServeOne
<1> QED BY <1>1, <1>3, <1>4 DEF PlainStep, Asks, Answers, Pingresp

\* A message of another client is no answer.
LEMMA UserKind ==
    ASSUME BrokerTypes, NEW t \in Topics, NEW v \in Payloads, UserPublish(t, v)
    PROVE  BrokerTypes' /\ PlainStep
<1> DEFINE p == Message(t, 1, v)
<1>1. p \in ServerPacket /\ p \in MessagePacket
  BY MessageType
<1>2. /\ toClient' = Append(toClient, p) /\ toClient \in Seq(ServerPacket) /\ unacked \in Seq(MessagePacket)
      /\ unacked' = (IF p.qos = 1 THEN Append(unacked, p) ELSE unacked)
      /\ pubs' = pubs + 1 /\ accepted /\ link = "up"
      /\ UNCHANGED <<link, toServer, offset, accepted, keepSession, granted>>
  BY DEF UserPublish, BrokerTypes
<1>3. p.type = "PUBLISH"
  BY <1>1 DEF MessagePacket
<1> HIDE DEF p
<1>4. unacked' \in Seq(MessagePacket) /\ toClient' \in Seq(ServerPacket)
  BY <1>1, <1>2, AppendFacts
<1>5. BrokerTypes'
  BY <1>2, <1>4 DEF BrokerTypes
<1>6. Grown /\ NewPackets = {Len(toClient) + 1} /\ toClient'[Len(toClient) + 1] = p
  <2>1. /\ Len(toClient) \in Nat /\ DOMAIN toClient = 1 .. Len(toClient)
        /\ Len(toClient') = Len(toClient) + 1 /\ (DOMAIN toClient)' = 1 .. Len(toClient) + 1
        /\ \A k \in 1 .. Len(toClient) : toClient'[k] = toClient[k]
        /\ toClient'[Len(toClient) + 1] = p
    BY <1>1, <1>2, AppendFacts
  <2> QED BY <1>2, <2>1 DEF Grown, NewPackets
<1> QED BY <1>2, <1>3, <1>5, <1>6 DEF PlainStep, Answers

\* The loss of the link keeps the types.
LEMMA LostKind ==
    ASSUME BrokerTypes, LinkLost
    PROVE  BrokerTypes'
<1>1. granted' \in [Topics -> {0, 1, Unsubscribed}]
  BY DEF LinkLost, BrokerTypes, NoSubscriptions
<1>2. unacked' \in Seq(MessagePacket)
  BY DEF LinkLost, BrokerTypes
<1>3. toServer' \in Seq(ClientPacket) /\ toClient' \in Seq(ServerPacket)
  BY DEF LinkLost
<1>4. /\ link' = "down" /\ offset' = 0 /\ accepted' = FALSE
      /\ keepSession' = keepSession /\ pubs' = pubs
  BY DEF LinkLost
<1>5. keepSession \in BOOLEAN /\ pubs \in Nat
  BY DEF BrokerTypes
<1>6. link' \in {"up", "down"} /\ offset' \in 0 .. 3 /\ pubs' \in Nat
  BY <1>4, <1>5
<1>7. accepted' \in BOOLEAN /\ keepSession' \in BOOLEAN
  BY <1>4, <1>5, Zenon
<1> QED BY <1>1, <1>2, <1>3, <1>6, <1>7, Zenon DEF BrokerTypes

\* Every step of the server answers nothing, answers its first request, answers
\* a CONNECT, or loses the link.
LEMMA ServerKinds ==
    ASSUME BrokerTypes, ServerStep
    PROVE  BrokerTypes' /\ (PlainStep \/ AnswerStep \/ ConnectStep \/ LinkLost)
  BY AcceptKind, RefuseKind, SubscribeKind, EarlyKind, UnsubscribeKind, PublishKind,
     PubackKind,
     PingreqKind, UserKind, LostKind DEF ServerStep, CloseLink, LinkDrop

\* Every step of the server keeps the types.
LEMMA ServerTypes ==
    ASSUME TypeOK, ServerStep, UNCHANGED clientVars
    PROVE  TypeOK'
<1>1. BrokerTypes'
  BY ServerKinds DEF TypeOK
<1>2. ObjectTypes'
  BY DEF TypeOK, ObjectTypes
<1>3. CallTypes'
  BY DEF TypeOK, CallTypes
<1> QED BY <1>1, <1>2, <1>3 DEF TypeOK

\* Every step of the server keeps DownIsEmpty and NewIsEmpty.
LEMMA ServerDown ==
    ASSUME NewIsEmpty, PlainStep \/ AnswerStep \/ ConnectStep \/ LinkLost
    PROVE  DownIsEmpty' /\ NewIsEmpty'
<1>1. CASE LinkLost
  BY <1>1 DEF LinkLost, DownIsEmpty, NewIsEmpty, NoSubscriptions
<1> QED BY <1>1 DEF PlainStep, AnswerStep, ConnectStep, Grown, DownIsEmpty,
     NewIsEmpty, NoSubscriptions

\* The server does not move the client.
LEMMA ServerShape == ASSUME CallShape, UNCHANGED clientVars PROVE CallShape'
  BY DEF CallShape, Awaited

\* The server writes behind the packet that is being read.
LEMMA ServerInStep ==
    ASSUME TypeOK, TypeOK', InStep, PlainStep \/ AnswerStep \/ ConnectStep \/ LinkLost,
           UNCHANGED clientVars
    PROVE  InStep'
<1>1. CASE LinkLost
  BY <1>1 DEF LinkLost, InStep
<1>2. CASE Grown
  <2>1. SUFFICES ASSUME intact, pc \in {"length", "body"}, toClient # <<>>, readbuf = Head(toClient)
                 PROVE  toClient' # <<>> /\ readbuf = Head(toClient')
    BY <1>2 DEF InStep, Grown
  <2>2. toClient \in Seq(ServerPacket) /\ toClient' \in Seq(ServerPacket)
    BY DEF TypeOK, BrokerTypes
  <2>3. Len(toClient) \in Nat \ {0} /\ Head(toClient) = toClient[1]
    BY <2>1, <2>2, TailFacts
  <2>4. 1 \in DOMAIN toClient /\ 1 \in (DOMAIN toClient)' /\ toClient'[1] = toClient[1]
    BY <1>2, <2>3 DEF Grown
  <2>5. toClient' # <<>>
    BY <2>4
  <2>6. Head(toClient') = toClient'[1]
    BY <2>2, <2>5, TailFacts
  <2> QED BY <2>1, <2>3, <2>4, <2>5, <2>6
<1> QED BY <1>1, <1>2 DEF PlainStep, AnswerStep, ConnectStep

\* A packet in the stream was there or is new, and the new ones are behind.
LEMMA NewOrOld ==
    ASSUME Grown, NEW k \in (DOMAIN toClient)'
    PROVE  \/ k \in DOMAIN toClient /\ toClient'[k] = toClient[k]
           \/ k \in NewPackets /\ \A i \in DOMAIN toClient : i < k
  BY DEF Grown, NewPackets

\* In a session the server sends no CONNACK.
LEMMA SessionConnack ==
    ASSUME PlainStep \/ AnswerStep, NEW k \in (DOMAIN toClient)',
           toClient'[k].type = "CONNACK"
    PROVE  k \in DOMAIN toClient /\ toClient'[k] = toClient[k]
  BY NewOrOld DEF PlainStep, AnswerStep

\* The server refuses until it accepts, once.
LEMMA ServerAccept ==
    ASSUME OneAccept, PlainStep \/ AnswerStep \/ ConnectStep \/ LinkLost,
           UNCHANGED clientVars
    PROVE  OneAccept'
<1> SUFFICES ASSUME intact PROVE OneAccept'
  BY DEF OneAccept
<1>0. Fetched' = Fetched
  BY DEF Fetched
<1>1. CASE LinkLost
  BY <1>1 DEF LinkLost, OneAccept, NoConnack
<1>2. CASE PlainStep \/ AnswerStep
  <2>1. accepted' /\ Grown
    BY <1>2 DEF PlainStep, AnswerStep
  <2>2. ASSUME NEW i \in (DOMAIN toClient)', NEW k \in (DOMAIN toClient)', i < k, toClient'[k].type = "CONNACK"
        PROVE  toClient'[i] = Connack(5)
    <3>1. k \in DOMAIN toClient /\ toClient'[k] = toClient[k]
      BY <1>2, <2>2, SessionConnack
    <3>2. i \in DOMAIN toClient /\ toClient'[i] = toClient[i]
      BY <2>1, <2>2, <3>1 DEF Grown
    <3> QED BY <2>2, <3>1, <3>2 DEF OneAccept
  <2>3. NoConnack => NoConnack'
    BY <1>2, SessionConnack DEF NoConnack
  <2> QED BY <1>0, <2>1, <2>2, <2>3 DEF OneAccept
<1>3. CASE ConnectStep
  <2>1. ~accepted /\ Grown
    BY <1>3 DEF ConnectStep
  <2>2. (\A k \in DOMAIN toClient : toClient[k] = Connack(5)) /\ readbuf \in {NoPacket, Connack(5)}
    BY <2>1 DEF OneAccept, Grown
  <2>3. CASE ~accepted'
    <3>1. \A k \in (DOMAIN toClient)' : toClient'[k] = Connack(5)
      BY <1>3, <2>1, <2>2, <2>3, NewOrOld DEF ConnectStep
    <3> QED BY <2>2, <3>1 DEF OneAccept
  <2>4. CASE accepted'
    <3>1. ASSUME NEW i \in (DOMAIN toClient)', NEW k \in (DOMAIN toClient)', i < k, toClient'[k].type = "CONNACK"
          PROVE  toClient'[i] = Connack(5)
      <4>1. k <= Len(toClient) + 1
        BY <1>3, <2>1, <2>4, <3>1, NewOrOld DEF ConnectStep, Grown
      <4>2. i \in DOMAIN toClient /\ toClient'[i] = toClient[i]
        BY <2>1, <3>1, <4>1 DEF Grown
      <4> QED BY <2>2, <4>2
    <3> QED BY <2>2, <2>4, <3>1 DEF OneAccept
  <2> QED BY <2>3, <2>4
<1> QED BY <1>1, <1>2, <1>3

\* Taking a packet other than CONNECT leaves the rest behind the CONNECT they
\* were behind.
LEMMA PoppedDoomed ==
    ASSUME Popped, accepted' = accepted, toServer[1].type # "CONNECT",
           NEW k \in (DOMAIN toServer)', Doomed(k + 1)
    PROVE  Doomed(k)'
<1>1. PICK m \in 1 .. (k + 1) - 1 : toServer[m].type = "CONNECT"
  BY DEF Doomed
<1>2. m - 1 \in 1 .. k - 1 /\ m - 1 \in 1 .. Len(toServer) - 1
  BY <1>1 DEF Popped
<1>3. toServer'[m - 1] = toServer[(m - 1) + 1] /\ (m - 1) + 1 = m
  BY <1>1, <1>2 DEF Popped
<1> QED BY <1>1, <1>2, <1>3 DEF Doomed

\* The requests that are left move up by one.
LEMMA PoppedAsks ==
    ASSUME Popped, NEW k \in (DOMAIN toServer)'
    PROVE  k \in Nat /\ k + 1 \in DOMAIN toServer /\ toServer'[k] = toServer[k + 1]
  BY DEF Popped

\* So does a CONNECT between them.
LEMMA PoppedConnect ==
    ASSUME Popped, NEW i \in Nat, NEW k \in Nat, NEW m \in i + 2 .. k, m <= Len(toServer),
           toServer[m].type = "CONNECT"
    PROVE  m - 1 \in i + 1 .. k - 1 /\ m - 1 \in (DOMAIN toServer)' /\ toServer'[m - 1].type = "CONNECT"
<1>1. m - 1 \in i + 1 .. k - 1 /\ m - 1 \in 1 .. Len(toServer) - 1 /\ (m - 1) + 1 = m
  BY DEF Popped
<1> QED BY <1>1 DEF Popped

\* A step that answers no request keeps the answers in the stream.
LEMMA GrownAnswers ==
    ASSUME PlainStep \/ ConnectStep, UNCHANGED clientVars
    PROVE  /\ \A k \in (DOMAIN toClient)' : Answers(toClient'[k]) => k \in DOMAIN toClient /\ toClient'[k] = toClient[k]
           /\ AnswerInStream' = AnswerInStream /\ AnswerFetched' = AnswerFetched /\ Fetched' = Fetched
<1>1. Grown /\ \A k \in NewPackets : ~Answers(toClient'[k])
  BY DEF PlainStep, ConnectStep
<1>2. \A k \in (DOMAIN toClient)' : Answers(toClient'[k]) => k \in DOMAIN toClient /\ toClient'[k] = toClient[k]
  BY <1>1, NewOrOld
<1>3. AnswerInStream' => AnswerInStream
  BY <1>2 DEF AnswerInStream
<1>4. AnswerInStream => AnswerInStream'
  BY <1>1 DEF AnswerInStream, Grown
<1>5. AnswerFetched' = AnswerFetched /\ Fetched' = Fetched
  BY DEF AnswerFetched, Fetched
<1>6. AnswerInStream' \in BOOLEAN /\ AnswerInStream \in BOOLEAN
  BY DEF AnswerInStream
<1> QED BY <1>2, <1>3, <1>4, <1>5, <1>6

\* In a session no step of the server changes whether a CONNACK is to come.
LEMMA SessionSpent ==
    ASSUME PlainStep \/ AnswerStep, UNCHANGED clientVars
    PROVE  /\ Spent => Spent'
           /\ Spent' => Spent
<1>1. accepted /\ accepted' /\ Grown
  BY DEF PlainStep, AnswerStep
<1>2. NoConnack => NoConnack'
  BY SessionConnack DEF NoConnack
<1>3. NoConnack' => NoConnack
  BY <1>1 DEF NoConnack, Grown
<1> QED BY <1>1, <1>2, <1>3 DEF Spent

\* So a step of the server in a session gives no hope.
LEMMA SessionHope ==
    ASSUME PlainStep \/ AnswerStep, UNCHANGED clientVars
    PROVE  /\ Hope' => Hope
  BY SessionSpent DEF Hope

\* A request that is left after a plain step was there before it.
LEMMA PlainRequests ==
    ASSUME PlainStep, NEW k \in (DOMAIN toServer)'
    PROVE  \E i \in DOMAIN toServer : toServer'[k] = toServer[i] /\ (Doomed(i) => Doomed(k)')
<1>1. CASE toServer' = toServer
  BY <1>1 DEF PlainStep, Doomed
<1>2. CASE Popped /\ toServer[1].type # "CONNECT"
  BY <1>2, PoppedAsks, PoppedDoomed DEF PlainStep
<1> QED BY <1>1, <1>2 DEF PlainStep

\* A plain step keeps it that at most one request is under way.
LEMMA PlainOneAnswer ==
    ASSUME PlainStep, UNCHANGED clientVars, OneAnswer
    PROVE  OneAnswer'
<1>1. ASSUME NEW i \in (DOMAIN toServer)', NEW k \in (DOMAIN toServer)', i < k,
             Asks(toServer'[i]), Asks(toServer'[k])
      PROVE  Doomed(i)' \/ \E m \in i + 1 .. k - 1 : toServer'[m].type = "CONNECT"
  <2>1. CASE toServer' = toServer
    <3>1. Doomed(i) => Doomed(i)'
      BY <2>1 DEF PlainStep, Doomed
    <3> QED BY <1>1, <2>1, <3>1 DEF OneAnswer
  <2>2. CASE Popped /\ toServer[1].type # "CONNECT"
    <3>1. /\ i \in Nat /\ i + 1 \in DOMAIN toServer /\ toServer'[i] = toServer[i + 1]
          /\ k \in Nat /\ k + 1 \in DOMAIN toServer /\ toServer'[k] = toServer[k + 1]
      BY <2>2, PoppedAsks
    <3>2. Doomed(i + 1) \/ \E m \in (i + 1) + 1 .. (k + 1) - 1 : toServer[m].type = "CONNECT"
      BY <1>1, <3>1 DEF OneAnswer
    <3>3. CASE Doomed(i + 1)
      BY <2>2, <3>3, PoppedDoomed DEF PlainStep
    <3>4. CASE \E m \in (i + 1) + 1 .. (k + 1) - 1 : toServer[m].type = "CONNECT"
      <4>1. PICK m \in i + 2 .. k : toServer[m].type = "CONNECT"
        BY <3>1, <3>4
      <4>2. m <= Len(toServer)
        BY <2>2, <3>1, <4>1 DEF Popped
      <4> QED BY <2>2, <3>1, <4>1, <4>2, PoppedConnect
    <3> QED BY <3>2, <3>3, <3>4
  <2> QED BY <2>1, <2>2 DEF PlainStep
<1>2. ASSUME AnswerInStream' \/ AnswerFetched', NEW k \in (DOMAIN toServer)',
             Asks(toServer'[k])
      PROVE  Doomed(k)'
  <2>1. AnswerInStream \/ AnswerFetched
    BY <1>2, GrownAnswers
  <2>2. PICK i \in DOMAIN toServer : toServer'[k] = toServer[i] /\ (Doomed(i) => Doomed(k)')
    BY PlainRequests
  <2> QED BY <1>2, <2>1, <2>2 DEF OneAnswer
<1>3. ASSUME NEW i \in (DOMAIN toClient)', NEW k \in (DOMAIN toClient)',
             Answers(toClient'[i]), Answers(toClient'[k])
      PROVE  i = k
  BY <1>3, GrownAnswers DEF OneAnswer
<1>4. AnswerFetched' => ~AnswerInStream'
  BY GrownAnswers DEF OneAnswer
<1> QED BY <1>1, <1>2, <1>3, <1>4 DEF OneAnswer

\* A plain step keeps the CONNECT behind what was asked before it.
LEMMA PlainBehind ==
    ASSUME PlainStep, UNCHANGED clientVars, BehindConnect
    PROVE  BehindConnect'
<1>0. link = "up"
  BY DEF PlainStep, Grown
<1>1. ASSUME AnswerInStream' \/ AnswerFetched'
      PROVE  \E m \in (DOMAIN toServer)' : toServer'[m].type = "CONNECT"
  <2>1. PICK m \in DOMAIN toServer : toServer[m].type = "CONNECT"
    BY <1>0, <1>1, GrownAnswers DEF BehindConnect
  <2>2. CASE toServer' = toServer
    BY <2>1, <2>2
  <2>3. CASE Popped /\ toServer[1].type # "CONNECT"
    <3>1. m \in 0 + 2 .. Len(toServer) /\ m <= Len(toServer) /\ Len(toServer) \in Nat
      BY <2>1, <2>3 DEF Popped
    <3> QED BY <2>1, <2>3, <3>1, PoppedConnect
  <2> QED BY <2>2, <2>3 DEF PlainStep
<1>2. ASSUME NEW k \in (DOMAIN toServer)', Asks(toServer'[k])
      PROVE  Doomed(k)' \/ \E m \in k + 1 .. Len(toServer') : toServer'[m].type = "CONNECT"
  <2>1. CASE toServer' = toServer
    <3>1. Doomed(k) => Doomed(k)'
      BY <2>1 DEF PlainStep, Doomed
    <3> QED BY <1>0, <1>2, <2>1, <3>1 DEF BehindConnect
  <2>2. CASE Popped /\ toServer[1].type # "CONNECT"
    <3>1. k \in Nat /\ k + 1 \in DOMAIN toServer /\ toServer'[k] = toServer[k + 1]
      BY <2>2, PoppedAsks
    <3>2. Doomed(k + 1) \/ \E m \in (k + 1) + 1 .. Len(toServer) : toServer[m].type = "CONNECT"
      BY <1>0, <1>2, <3>1 DEF BehindConnect
    <3>3. CASE Doomed(k + 1)
      BY <2>2, <3>3, PoppedDoomed DEF PlainStep
    <3>4. CASE \E m \in (k + 1) + 1 .. Len(toServer) : toServer[m].type = "CONNECT"
      <4>1. Len(toServer) \in Nat /\ Len(toServer') = Len(toServer) - 1
        BY <2>2 DEF Popped
      <4>2. PICK m \in k + 2 .. Len(toServer) : toServer[m].type = "CONNECT"
        BY <3>1, <3>4
      <4>3. m - 1 \in k + 1 .. Len(toServer) - 1 /\ toServer'[m - 1].type = "CONNECT"
        <5>1. m <= Len(toServer)
          BY <3>1, <4>1, <4>2
        <5> QED BY <2>2, <3>1, <4>1, <4>2, <5>1, PoppedConnect
      <4> QED BY <4>1, <4>3
    <3> QED BY <3>2, <3>3, <3>4
  <2> QED BY <2>1, <2>2 DEF PlainStep
<1> QED BY <1>1, <1>2 DEF BehindConnect

\* A plain step keeps BeforeConnected.
LEMMA PlainBefore ==
    ASSUME BeforeConnected, PlainStep, UNCHANGED clientVars, intact, Hope'
    PROVE  BeforeConnected'
<1>1. Hope
  BY SessionHope
<1>0. ~Closing
  BY DEF PlainStep, Closing
<1>2. ASSUME NEW k \in (DOMAIN toServer)', Asks(toServer'[k]) PROVE toServer'[k] = inflight
  <2>1. PICK i \in DOMAIN toServer : toServer'[k] = toServer[i]
    BY PlainRequests
  <2> QED BY <1>0, <1>1, <1>2, <2>1 DEF BeforeConnected
<1>3. ASSUME NEW k \in (DOMAIN toClient)', Answers(toClient'[k])
      PROVE  inflight # NoPacket /\ toClient'[k] = Puback(inflight.id)
  BY <1>0, <1>1, <1>3, GrownAnswers DEF BeforeConnected
<1>4. AnswerFetched' => inflight # NoPacket /\ readbuf = Puback(inflight.id)
  BY <1>0, <1>1, GrownAnswers DEF BeforeConnected
<1>5. ~keepSession' => granted' = NoSubscriptions
  BY <1>0, <1>1 DEF BeforeConnected, PlainStep
<1>6. OneAnswer'
  BY <1>0, <1>1, PlainOneAnswer DEF BeforeConnected
<1>7. Late => BehindConnect'
  BY <1>0, <1>1, PlainBehind DEF BeforeConnected, Late
<1>8. /\ (\A k \in DOMAIN toServer : Asks(toServer[k]) => toServer[k] = inflight)'
      /\ (\A k \in DOMAIN toClient :
            Answers(toClient[k]) => inflight # NoPacket /\ toClient[k] = Puback(inflight.id))'
      /\ (AnswerFetched => inflight # NoPacket /\ readbuf = Puback(inflight.id))'
      /\ (~keepSession => granted = NoSubscriptions)'
  BY <1>2, <1>3, <1>4, <1>5 DEF NoSubscriptions
<1> QED BY <1>6, <1>7, <1>8 DEF BeforeConnected, Late

\* A plain step keeps WhileConnected.
LEMMA PlainWhile ==
    ASSUME WhileConnected, PlainStep, UNCHANGED clientVars, intact, isconnected
    PROVE  WhileConnected'
<1>0. ~Wrong
  BY DEF PlainStep, Wrong
<1>1. Spent' /\ Asking' = Asking
  BY <1>0, SessionSpent DEF WhileConnected, Asking
<1>2. ASSUME ~Asking PROVE Quiet'
  <2>1. Quiet
    BY <1>0, <1>2 DEF WhileConnected
  <2>2. ASSUME NEW k \in (DOMAIN toServer)', Asks(toServer'[k]) PROVE Doomed(k)'
    BY <2>1, <2>2, PlainRequests DEF Quiet
  <2> QED BY <2>1, <2>2, GrownAnswers DEF Quiet
<1>3. ASSUME Asking
      PROVE  /\ OneAnswer'
             /\ (\A k \in DOMAIN toServer : Asks(toServer[k]) => Doomed(k) \/ toServer[k] = request)'
             /\ (\A k \in DOMAIN toClient : Answers(toClient[k]) => IsAnswer(toClient[k]))'
             /\ (AnswerFetched => IsAnswer(readbuf))'
  <2>1. OneAnswer'
    BY <1>0, <1>3, PlainOneAnswer DEF WhileConnected
  <2>2. ASSUME NEW k \in (DOMAIN toServer)', Asks(toServer'[k]) PROVE Doomed(k)' \/ toServer'[k] = request'
    <3>1. PICK i \in DOMAIN toServer : toServer'[k] = toServer[i] /\ (Doomed(i) => Doomed(k)')
      BY PlainRequests
    <3> QED BY <1>0, <1>3, <2>2, <3>1 DEF WhileConnected
  <2>3. ASSUME NEW k \in (DOMAIN toClient)', Answers(toClient'[k]) PROVE IsAnswer(toClient[k])'
    BY <1>0, <1>3, <2>3, GrownAnswers DEF WhileConnected, IsAnswer, Awaited
  <2>4. ASSUME AnswerFetched' PROVE IsAnswer(readbuf)'
    BY <1>0, <1>3, <2>4, GrownAnswers DEF WhileConnected, IsAnswer, Awaited
  <2> QED BY <2>1, <2>2, <2>3, <2>4
<1>4. Installed'
  <2>1. SUFFICES ASSUME ~keepSession, NEW t \in Topics, granted[t] # Unsubscribed
                 PROVE  Handled(t)'
    BY DEF Installed, PlainStep
  <2>2. Handled(t) /\ granted' = granted /\ Grown
    BY <1>0, <2>1 DEF WhileConnected, PlainStep
  <2>3. (\E k \in DOMAIN toClient : Granting(toClient[k], t))
        => (\E k \in DOMAIN toClient : Granting(toClient[k], t))'
    BY <2>2 DEF Grown, Granting
  <2>4. Matching(t)' = Matching(t) /\ FreeSlots' = FreeSlots /\ Fetched' = Fetched
    BY DEF Matching, FreeSlots, Fetched
  <2>5. Granting(readbuf, t)' = Granting(readbuf, t)
    BY <2>2 DEF Granting
  <2> QED BY <1>1, <2>2, <2>3, <2>4, <2>5 DEF Handled
<1>5. KeepsOne'
  BY <1>0 DEF WhileConnected, KeepsOne
<1> QED BY <1>1, <1>2, <1>3, <1>4, <1>5 DEF WhileConnected, Installed

\* The first request is behind nothing.
LEMMA FirstNotDoomed == ~Doomed(1)
  BY DEF Doomed

\* A request that is answered was the only one to be answered: the others are
\* now behind a second CONNECT.
LEMMA AnswerStream ==
    ASSUME AnswerStep, UNCHANGED clientVars, OneAnswer
    PROVE  /\ ~AnswerInStream /\ ~AnswerFetched /\ ~AnswerFetched' /\ Fetched' = Fetched
           /\ \A k \in (DOMAIN toServer)' : Asks(toServer'[k]) => Doomed(k)'
           /\ OneAnswer'
<1>1. Popped /\ Grown /\ Asks(toServer[1]) /\ accepted /\ accepted' = accepted /\ 1 \in DOMAIN toServer
  BY DEF AnswerStep, Popped
<1>2. ~AnswerInStream /\ ~AnswerFetched
  BY <1>1, FirstNotDoomed DEF OneAnswer
<1>3. ~AnswerFetched' /\ Fetched' = Fetched
  BY <1>2 DEF AnswerFetched, Fetched
<1>4. ASSUME NEW k \in (DOMAIN toServer)', Asks(toServer'[k]) PROVE Doomed(k)'
  <2>1. k \in Nat /\ k + 1 \in DOMAIN toServer /\ toServer'[k] = toServer[k + 1] /\ 1 < k + 1
    BY <1>1, PoppedAsks DEF Popped
  <2>2. Doomed(1) \/ \E m \in 1 + 1 .. (k + 1) - 1 : toServer[m].type = "CONNECT"
    BY <1>1, <1>4, <2>1 DEF OneAnswer
  <2>3. PICK m \in 2 .. k : toServer[m].type = "CONNECT"
    BY <2>1, <2>2, FirstNotDoomed
  <2>4. m - 1 \in 1 .. k - 1 /\ m - 1 \in 1 .. Len(toServer) - 1 /\ (m - 1) + 1 = m
    BY <1>1, <2>1, <2>3 DEF Popped
  <2>5. toServer'[m - 1].type = "CONNECT"
    BY <1>1, <2>3, <2>4 DEF Popped
  <2> QED BY <1>1, <2>4, <2>5 DEF Doomed
<1>5. ASSUME NEW i \in (DOMAIN toClient)', NEW k \in (DOMAIN toClient)',
             Answers(toClient'[i]), Answers(toClient'[k])
      PROVE  i = k
  <2>1. PICK n \in NewPackets : \A j \in NewPackets : j # n => ~Answers(toClient'[j])
    BY DEF AnswerStep
  <2>2. i \in NewPackets /\ k \in NewPackets
    BY <1>1, <1>2, <1>5, NewOrOld DEF AnswerInStream
  <2> QED BY <1>5, <2>1, <2>2
<1>6. OneAnswer'
  BY <1>3, <1>4, <1>5 DEF OneAnswer
<1> QED BY <1>2, <1>3, <1>4, <1>6

\* Answering the kept publish keeps BeforeConnected.
LEMMA AnswerBefore ==
    ASSUME TypeOK, BeforeConnected, AnswerStep, UNCHANGED clientVars, intact, Hope'
    PROVE  BeforeConnected'
<1>0. ~Closing
  BY DEF AnswerStep, Closing
<1>1. Hope /\ OneAnswer
  BY <1>0, SessionHope DEF BeforeConnected
<1>2. Popped /\ Grown /\ Asks(toServer[1]) /\ accepted /\ accepted' = accepted /\ 1 \in DOMAIN toServer
  BY DEF AnswerStep, Popped
<1>3. toServer[1] = inflight
  BY <1>0, <1>1, <1>2 DEF BeforeConnected
<1>4. inflight.type = "PUBLISH" /\ inflight # NoPacket
  BY <1>2, <1>3 DEF Asks, TypeOK, ObjectTypes, PublishPacket, NoPacket
<1>5. PICK n \in NewPackets : Replies(toServer[1], n) /\ \A k \in NewPackets : k # n => ~Answers(toClient'[k])
  BY DEF AnswerStep
<1>6. toClient'[n] = Puback(inflight.id) /\ granted' = granted
  BY <1>3, <1>4, <1>5 DEF Replies
<1>7. (\A k \in DOMAIN toServer : Asks(toServer[k]) => toServer[k] = inflight)'
  BY <1>0, <1>1, <1>2, PoppedAsks DEF BeforeConnected
<1>8. (\A k \in DOMAIN toClient :
            Answers(toClient[k]) => inflight # NoPacket /\ toClient[k] = Puback(inflight.id))'
  <2>1. SUFFICES ASSUME NEW k \in (DOMAIN toClient)', Answers(toClient'[k])
                 PROVE  toClient'[k] = Puback(inflight.id)
    BY <1>4
  <2>2. k \in NewPackets
    BY <1>1, <1>2, <2>1, NewOrOld, AnswerStream DEF AnswerInStream
  <2> QED BY <1>5, <1>6, <2>1, <2>2
<1>9. (~keepSession => granted = NoSubscriptions)'
  BY <1>0, <1>1, <1>6 DEF BeforeConnected, AnswerStep, NoSubscriptions
<1>10. Late => BehindConnect'
  <2>1. SUFFICES ASSUME Late PROVE BehindConnect'
    OBVIOUS
  <2>2. BehindConnect /\ link = "up"
    BY <1>0, <1>1, <1>2, <2>1 DEF Late, BeforeConnected, Grown
  <2>3. PICK m \in 1 + 1 .. Len(toServer) : toServer[m].type = "CONNECT"
    BY <1>2, <2>2, FirstNotDoomed DEF BehindConnect
  <2>4. m \in 0 + 2 .. Len(toServer) /\ m <= Len(toServer) /\ Len(toServer) \in Nat
    BY <1>2, <2>3 DEF Popped
  <2>5. m - 1 \in (DOMAIN toServer)' /\ toServer'[m - 1].type = "CONNECT"
    BY <1>2, <2>3, <2>4, PoppedConnect
  <2> QED BY <1>1, <2>5, AnswerStream DEF BehindConnect
<1> QED BY <1>1, <1>7, <1>8, <1>9, <1>10, AnswerStream DEF BeforeConnected, Late

\* Answering the request of the call under way keeps WhileConnected; a granted
\* subscription comes with its SUBACK.
LEMMA AnswerWhile ==
    ASSUME TypeOK, CallShape, WhileConnected, AnswerStep, UNCHANGED clientVars, intact,
           isconnected
    PROVE  WhileConnected'
<1>0. ~Wrong
  BY DEF AnswerStep, Wrong
<1>1. Spent' /\ Asking' = Asking
  BY <1>0, SessionSpent DEF WhileConnected, Asking
<1>2. Popped /\ Grown /\ Asks(toServer[1]) /\ accepted /\ accepted' = accepted /\ 1 \in DOMAIN toServer
  BY DEF AnswerStep, Popped
<1>3. Asking /\ toServer[1] = request /\ OneAnswer
  BY <1>0, <1>2, FirstNotDoomed DEF WhileConnected, Quiet
<1>4. PICK n \in NewPackets : Replies(toServer[1], n) /\ \A k \in NewPackets : k # n => ~Answers(toClient'[k])
  BY DEF AnswerStep
<1>5. ~AnswerInStream /\ ~AnswerFetched
  BY <1>3, AnswerStream
<1>6. ASSUME NEW k \in (DOMAIN toClient)', Answers(toClient'[k])
      PROVE  IsAnswer(toClient[k])'
  <2>1. k \in NewPackets
    BY <1>2, <1>5, <1>6, NewOrOld DEF AnswerInStream
  <2>2. k = n
    BY <1>4, <1>6, <2>1
  <2>3. toClient'[n].id = request.id
    BY <1>3, <1>4 DEF Replies
  <2>4. toClient'[n].type = Awaited
    BY <1>3, <1>4 DEF Replies, Puback, Awaited, Asking, CallShape
  <2> QED BY <2>2, <2>3, <2>4 DEF IsAnswer, Awaited
<1>7. Installed'
  <2>1. SUFFICES ASSUME ~keepSession, NEW t \in Topics, granted'[t] # Unsubscribed
                 PROVE  Handled(t)'
    BY DEF Installed, AnswerStep
  <2>2. Matching(t)' = Matching(t) /\ FreeSlots' = FreeSlots
    BY DEF Matching, FreeSlots
  <2>3. CASE granted'[t] = granted[t]
    <3>1. \A k \in DOMAIN toClient : ~Granting(toClient[k], t)
      BY <1>5 DEF AnswerInStream, Granting, Answers
    <3>2. ~(Fetched /\ Granting(readbuf, t))
      BY <1>5 DEF AnswerFetched, Granting, Answers
    <3>3. Handled(t)
      BY <1>0, <2>1, <2>3 DEF WhileConnected
    <3>4. Matching(t) # {} \/ (granted[t] = 0 /\ FreeSlots = {})
      BY <3>1, <3>2, <3>3 DEF Handled
    <3> QED BY <2>2, <2>3, <3>4 DEF Handled
  <2>4. CASE granted'[t] # granted[t]
    <3>1. request.type # "UNSUBSCRIBE"
      <4>1. SUFFICES ASSUME request.type = "UNSUBSCRIBE",
                            granted' = [granted EXCEPT ![request.topic] = Unsubscribed]
                     PROVE FALSE
        BY <1>3, <1>4 DEF Replies
      <4> QED BY <2>1, <2>4, <4>1 DEF TypeOK, BrokerTypes
    <3>2. request.type = "SUBSCRIBE" /\ granted' = [granted EXCEPT ![request.topic] = toClient'[n].code]
      <4>1. granted' # granted
        BY <2>4
      <4> QED BY <1>2, <1>3, <1>4, <3>1, <4>1 DEF Replies, Asks
    <3>3. request.topic = t /\ toClient'[n].code = granted'[t]
      BY <2>1, <2>4, <3>2 DEF TypeOK, BrokerTypes
    <3>4. op = "subscribe"
      BY <1>3, <3>2 DEF Asking, CallShape
    <3>5. Granting(toClient[n], t)' /\ n \in (DOMAIN toClient)'
      BY <1>2, <1>3, <1>4, <3>2, <3>3 DEF Granting, Replies, NewPackets, Grown
    <3> QED BY <1>1, <1>3, <3>3, <3>4, <3>5 DEF Handled
  <2> QED BY <2>3, <2>4
<1>8. KeepsOne'
  BY <1>0 DEF WhileConnected, KeepsOne
<1>9. (\A k \in DOMAIN toServer : Asks(toServer[k]) => Doomed(k) \/ toServer[k] = request)'
  BY <1>3, AnswerStream
<1>10. OneAnswer' /\ ~AnswerFetched'
  BY <1>3, AnswerStream
<1> QED BY <1>1, <1>3, <1>6, <1>7, <1>8, <1>9, <1>10 DEF WhileConnected, Installed

\* A CONNECT that is answered comes first.
LEMMA HeadConnect ==
    ASSUME TypeOK, ConnectStep
    PROVE  toServer # <<>> /\ ~Closing
<1>1. toServer # <<>> /\ toServer \in Seq(ClientPacket)
  BY DEF ConnectStep, Popped, TypeOK, BrokerTypes
<1>2. Head(toServer) = toServer[1]
  BY <1>1, TailFacts
<1> QED BY <1>1, <1>2 DEF ConnectStep, Closing

\* Answering a CONNECT keeps BeforeConnected: nothing was answered before it.
LEMMA ConnectBefore ==
    ASSUME TypeOK, OneAccept, BeforeConnected, ConnectStep, UNCHANGED clientVars, intact, Hope'
    PROVE  BeforeConnected'
<1>1. Popped /\ Grown /\ ~accepted /\ link = "up"
  BY DEF ConnectStep, Grown
<1>0. ~Closing
  BY HeadConnect
<1>2. Hope
  BY <1>1 DEF Hope, Spent
<1>3. ~AnswerInStream' /\ ~AnswerFetched'
  <2>1. ~AnswerInStream /\ ~AnswerFetched
    BY <1>1 DEF OneAccept, AnswerInStream, AnswerFetched, Answers, Connack, NoPacket
  <2> QED BY <2>1, GrownAnswers
<1>4. \A k : ~Doomed(k)
  BY <1>1 DEF Doomed
<1>5. ASSUME NEW k \in (DOMAIN toServer)', Asks(toServer'[k]) PROVE toServer'[k] = inflight
  BY <1>0, <1>1, <1>2, <1>5, PoppedAsks DEF BeforeConnected
<1>6. ASSUME NEW i \in (DOMAIN toServer)', NEW k \in (DOMAIN toServer)', i < k,
             Asks(toServer'[i]), Asks(toServer'[k])
      PROVE  \E m \in i + 1 .. k - 1 : toServer'[m].type = "CONNECT"
  <2>1. /\ i \in Nat /\ i + 1 \in DOMAIN toServer /\ toServer'[i] = toServer[i + 1]
        /\ k \in Nat /\ k + 1 \in DOMAIN toServer /\ toServer'[k] = toServer[k + 1]
    BY <1>1, PoppedAsks
  <2>2. \E m \in (i + 1) + 1 .. (k + 1) - 1 : toServer[m].type = "CONNECT"
    BY <1>0, <1>2, <1>4, <1>6, <2>1 DEF BeforeConnected, OneAnswer
  <2>3. PICK m \in i + 2 .. k : toServer[m].type = "CONNECT"
    BY <2>1, <2>2
  <2>4. m <= Len(toServer)
    BY <1>1, <2>1, <2>3 DEF Popped
  <2> QED BY <1>1, <2>1, <2>3, <2>4, PoppedConnect
<1>7. OneAnswer'
  BY <1>3, <1>6 DEF OneAnswer, AnswerInStream
<1>8. Late => BehindConnect'
  <2>1. SUFFICES ASSUME Late, NEW k \in (DOMAIN toServer)', Asks(toServer'[k])
                 PROVE  \E m \in k + 1 .. Len(toServer') : toServer'[m].type = "CONNECT"
    BY <1>3 DEF BehindConnect
  <2>2. k \in Nat /\ k + 1 \in DOMAIN toServer /\ toServer'[k] = toServer[k + 1]
    BY <1>1, PoppedAsks
  <2>3. \E m \in (k + 1) + 1 .. Len(toServer) : toServer[m].type = "CONNECT"
    BY <1>0, <1>1, <1>2, <1>4, <2>1, <2>2 DEF BeforeConnected, Late, BehindConnect
  <2>4. Len(toServer) \in Nat /\ Len(toServer') = Len(toServer) - 1
    BY <1>1 DEF Popped
  <2>5. PICK m \in k + 2 .. Len(toServer) : toServer[m].type = "CONNECT"
    BY <2>2, <2>3
  <2>6. m <= Len(toServer)
    BY <2>2, <2>4, <2>5
  <2>7. m - 1 \in k + 1 .. Len(toServer) - 1 /\ toServer'[m - 1].type = "CONNECT"
    BY <1>1, <2>2, <2>4, <2>5, <2>6, PoppedConnect
  <2> QED BY <2>4, <2>7
<1>9. ~keepSession' => granted' = NoSubscriptions
  BY <1>0, <1>2 DEF ConnectStep, BeforeConnected
<1>10. /\ (\A k \in DOMAIN toServer : Asks(toServer[k]) => toServer[k] = inflight)'
       /\ (~keepSession => granted = NoSubscriptions)'
  BY <1>5, <1>9 DEF NoSubscriptions
<1> QED BY <1>3, <1>7, <1>8, <1>10 DEF BeforeConnected, Late, AnswerInStream

\* A client that is connected has no CONNECT to be answered.
LEMMA ConnectWhile ==
    ASSUME TypeOK, WhileConnected, WhileWrong, ConnectStep, UNCHANGED clientVars, intact
    PROVE  ~isconnected
<1>1. ~accepted /\ link = "up" /\ toServer # <<>> /\ ~Closing
  BY HeadConnect DEF ConnectStep, Grown, Popped
<1> QED BY <1>1 DEF WhileWrong, Wrong

\* What is left when the link is lost.
LEMMA LostFacts ==
    ASSUME LinkLost, UNCHANGED clientVars
    PROVE  /\ toServer' = <<>> /\ toClient' = <<>> /\ ~AnswerInStream' /\ NoConnack'
           /\ AnswerFetched' = AnswerFetched /\ Fetched' = Fetched
           /\ link' = "down" /\ keepSession' = keepSession
           /\ ~keepSession => granted' = NoSubscriptions
           /\ keepSession => granted' = granted
           /\ (Spent => Spent') /\ OneAnswer'
<1>1. toServer' = <<>> /\ toClient' = <<>> /\ link' = "down" /\ keepSession' = keepSession
  BY DEF LinkLost
<1>2. ~AnswerInStream' /\ NoConnack'
  BY <1>1 DEF AnswerInStream, NoConnack
<1>3. AnswerFetched' = AnswerFetched /\ Fetched' = Fetched
  BY DEF AnswerFetched, Fetched
<1>4. Spent => Spent'
  BY <1>1, <1>2 DEF Spent
<1>5. OneAnswer'
  BY <1>1, <1>2 DEF OneAnswer
<1> QED BY <1>1, <1>2, <1>3, <1>4, <1>5 DEF LinkLost

\* The loss of the link keeps BeforeConnected.
LEMMA LostBefore ==
    ASSUME OneAccept, BeforeConnected, LinkLost, UNCHANGED clientVars, intact, Hope'
    PROVE  BeforeConnected'
<1>1. Hope
  BY LostFacts DEF Hope
<1>2. (AnswerFetched => inflight # NoPacket /\ readbuf = Puback(inflight.id))'
  <2>1. Closing => ~AnswerFetched
    BY DEF Closing, OneAccept, AnswerFetched, Answers, Connack, NoPacket
  <2> QED BY <1>1, <2>1, LostFacts DEF BeforeConnected
<1>3. (~keepSession => granted = NoSubscriptions)'
  BY LostFacts DEF NoSubscriptions
<1>4. BehindConnect'
  BY LostFacts DEF BehindConnect
<1> QED BY <1>2, <1>3, <1>4, LostFacts DEF BeforeConnected

\* The loss of the link keeps WhileConnected.
LEMMA LostWhile ==
    ASSUME TypeOK, OneAccept, WhileConnected, WhileWrong, LinkLost, UNCHANGED clientVars, intact,
           isconnected
    PROVE  WhileConnected' /\ ~Wrong'
<1>0. Asking' = Asking /\ link' = "down"
  BY LostFacts DEF Asking
<1>1. Spent'
  <2>1. CASE Wrong
    BY <1>0, <2>1, LostFacts DEF WhileWrong, Spent
  <2>2. CASE ~Wrong
    BY <2>2, LostFacts DEF WhileConnected
  <2> QED BY <2>1, <2>2
<1>2. ~Asking => Quiet'
  <2>1. Wrong => ~AnswerFetched
    BY WrongFacts DEF AnswerFetched, Answers, NoPacket
  <2> QED BY <2>1, LostFacts DEF WhileConnected, Quiet
<1>3. Asking => (AnswerFetched => IsAnswer(readbuf))'
  <2>1. Wrong => ~AnswerFetched
    BY WrongFacts DEF AnswerFetched, Answers, NoPacket
  <2> QED BY <2>1, LostFacts DEF WhileConnected, IsAnswer, Awaited
<1>4. ~keepSession => \A t \in Topics : granted'[t] = Unsubscribed
  BY LostFacts DEF NoSubscriptions
<1>5. Installed'
  BY <1>4, LostFacts DEF Installed
<1>6. KeepsOne'
  BY DEF WhileConnected, WhileWrong, KeepsOne
<1>7. WhileConnected'
  BY <1>0, <1>1, <1>2, <1>3, <1>5, <1>6, LostFacts DEF WhileConnected, Installed
<1> QED BY <1>0, <1>7 DEF Wrong

\* Every step of the server, and the loss of the link, keeps the inductive
\* invariant.
LEMMA ServerSteps ==
    ASSUME IndInv, ServerStep, UNCHANGED clientVars
    PROVE  IndInv'
<1>1. PlainStep \/ AnswerStep \/ ConnectStep \/ LinkLost
  BY ServerKinds DEF IndInv, TypeOK
<1>2. TypeOK' /\ DownIsEmpty' /\ NewIsEmpty' /\ CallShape' /\ OneAccept'
  BY <1>1, ServerTypes, ServerDown, ServerShape, ServerAccept DEF IndInv
<1>3. InStep'
  BY <1>1, <1>2, ServerInStep DEF IndInv
<1>4. BeforeConnected'
  <2>1. SUFFICES ASSUME intact, Hope' PROVE BeforeConnected'
    BY DEF BeforeConnected
  <2> QED BY <1>1, <2>1, PlainBefore, AnswerBefore, ConnectBefore, LostBefore DEF IndInv
<1>5. WhileConnected' /\ WhileWrong'
  <2>1. SUFFICES ASSUME intact, isconnected PROVE WhileConnected' /\ WhileWrong'
    BY DEF WhileConnected, WhileWrong, Wrong
  <2>2. CASE PlainStep \/ AnswerStep
    <3>1. ~Wrong'
      BY <2>2 DEF PlainStep, AnswerStep, Wrong
    <3> QED BY <2>1, <2>2, <3>1, PlainWhile, AnswerWhile DEF IndInv, WhileWrong
  <2>3. ~ConnectStep
    BY <2>1, ConnectWhile DEF IndInv
  <2>4. CASE LinkLost
    BY <2>1, <2>4, LostWhile DEF IndInv, WhileWrong
  <2> QED BY <1>1, <2>2, <2>3, <2>4
<1> QED BY <1>2, <1>3, <1>4, <1>5 DEF IndInv

\* A new client and a new link have the right types.
LEMMA InitTypes == BrokerInit /\ link \in {"up", "down"} /\ ClientInit => TypeOK
<1> SUFFICES ASSUME BrokerInit, link \in {"up", "down"}, ClientInit PROVE TypeOK
  OBVIOUS
<1> USE DEF BrokerInit, ClientInit
<1>1. BrokerTypes
  <2>1. granted \in [Topics -> {0, 1, Unsubscribed}]
    OBVIOUS
  <2>2. toServer \in Seq(ClientPacket) /\ toClient \in Seq(ServerPacket) /\ unacked \in Seq(MessagePacket)
    OBVIOUS
  <2>3. link \in {"up", "down"} /\ offset \in 0 .. 3 /\ pubs \in Nat
    OBVIOUS
  <2>4. accepted \in BOOLEAN /\ keepSession \in BOOLEAN
    OBVIOUS
  <2> QED BY <2>1, <2>2, <2>3, <2>4, Zenon DEF BrokerTypes
<1>2. ObjectTypes
  <2>1. messageHandlers \in [Slots -> Topics \cup {NoTopic}]
    OBVIOUS
  <2>2. nextId \in 0 .. MaxPacketId
    OBVIOUS
  <2>3. /\ isconnected \in BOOLEAN /\ ping_outstanding \in BOOLEAN /\ cleansession \in BOOLEAN
        /\ sentDue \in BOOLEAN /\ receivedDue \in BOOLEAN
    OBVIOUS
  <2>4. inflight \in PublishPacket \cup {NoPacket}
    OBVIOUS
  <2> QED BY <2>1, <2>2, <2>3, <2>4, Zenon DEF ObjectTypes
<1>3. CallTypes
  BY DEF CallTypes
<1> QED BY <1>1, <1>2, <1>3 DEF TypeOK

\* A new client on a new link satisfies the inductive invariant.
LEMMA InitInv == Init => IndInv
<1> SUFFICES ASSUME Init PROVE IndInv
  OBVIOUS
<1> USE DEF Init, BrokerInit, ClientInit
<1>1. TypeOK
  <2>1. BrokerInit /\ ClientInit /\ link \in {"up", "down"}
    OBVIOUS
  <2> QED BY <2>1, InitTypes
<1>2. DownIsEmpty /\ NewIsEmpty /\ CallShape /\ InStep /\ OneAccept
  BY DEF DownIsEmpty, NewIsEmpty, NoSubscriptions, CallShape, InStep, OneAccept, NoConnack,
     Fetched, Awaited
<1>3. BeforeConnected
  BY DEF BeforeConnected, OneAnswer, AnswerInStream, AnswerFetched, Fetched, NoSubscriptions
<1>4. WhileConnected /\ WhileWrong
  BY DEF WhileConnected, WhileWrong, Wrong
<1> QED BY <1>1, <1>2, <1>3, <1>4 DEF IndInv

\* Every step keeps the inductive invariant.
LEMMA NextInv == ASSUME IndInv, [Next]_vars PROVE IndInv'
<1>1. CASE Call
  <2>1. TypeOK'
    BY <1>1, TypeCalls DEF IndInv
  <2> QED BY <1>1, <2>1, DownSteps, ShapeSteps, InStepSteps, AcceptSteps, BeforeSteps,
     WhileSteps DEF IndInv
<1>2. CASE ClientStep \/ TimerExpires \/ KeepAliveElapses \/ Reopen
  <2>1. TypeOK'
    BY <1>2, TypeSteps DEF IndInv
  <2> QED BY <1>2, <2>1, DownSteps, ShapeSteps, InStepSteps, AcceptSteps, BeforeSteps,
     WhileSteps DEF IndInv
<1>3. CASE ServerStep /\ UNCHANGED clientVars
  BY <1>3, ServerSteps
<1>4. CASE UNCHANGED vars
  <2> USE <1>4 DEF vars
  <2>1. TypeOK'
    BY DEF IndInv, TypeOK, BrokerTypes, ObjectTypes, CallTypes
  <2>2. DownIsEmpty' /\ NewIsEmpty' /\ CallShape' /\ InStep' /\ OneAccept'
    BY DEF IndInv, DownIsEmpty, NewIsEmpty, CallShape, InStep, OneAccept, NoConnack,
       Fetched, Awaited, NoSubscriptions
  <2>3. BeforeConnected'
    BY DEF IndInv, BeforeConnected, Closing, Hope, Spent, NoConnack, OneAnswer, AnswerInStream,
       AnswerFetched,
           Fetched, Doomed, BehindConnect
  <2>4. WhileConnected'
    BY DEF IndInv, WhileConnected, Spent, NoConnack, OneAnswer, AnswerInStream,
       AnswerFetched,
           Fetched, Doomed, Quiet, Asking, IsAnswer, Awaited, Granting, Matching, Handled,
           FreeSlots, KeepsOne, Wrong
  <2>5. WhileWrong'
    BY DEF IndInv, WhileWrong, Wrong, NoConnack, Closing, KeepsOne
  <2> QED BY <2>1, <2>2, <2>3, <2>4, <2>5 DEF IndInv
<1> QED BY <1>1, <1>2, <1>3, <1>4 DEF Next

\* The inductive invariant, with the types of all variables, holds in every
\* state of MQTT::Client, its link and its server.
THEOREM Invariance == Spec => []IndInv
  BY InitInv, NextInv, PTL DEF Spec

\* For any server that answers in order, any number of calls, topics, handlers
\* and packets under way: the acknowledgement that subscribe, unsubscribe,
\* publish and the resend inside connect take for theirs has the id of their
\* own request, although the code compares no ids.
THEOREM AnswersMatch == Spec => []AnswerMatchesRequest
<1>1. IndInv => AnswerMatchesRequest
  <2> SUFFICES ASSUME IndInv, pc = "answer", intact, op # "connect" PROVE readbuf.id = request.id
    BY DEF AnswerMatchesRequest
  <2>1. AnswerFetched
    BY DEF IndInv, CallShape, Awaited, AnswerFetched, Fetched, Answers, TypeOK, CallTypes
  <2>2. CASE op = "resend"
    <3>1. Hope /\ request = inflight
      BY <2>2 DEF IndInv, CallShape, Hope
    <3>2. ~Closing
      BY <2>1 DEF IndInv, OneAccept, Closing, AnswerFetched, Answers, Connack, NoPacket
    <3> QED BY <2>1, <3>1, <3>2 DEF IndInv, BeforeConnected, Puback
  <2>3. CASE op # "resend"
    <3>1. Asking /\ isconnected
      BY <2>3 DEF IndInv, CallShape, Asking, TypeOK, CallTypes
    <3>2. ~Wrong
      BY <2>1, WrongFacts DEF IndInv, AnswerFetched, Answers, NoPacket
    <3> QED BY <2>1, <3>1, <3>2 DEF IndInv, WhileConnected, IsAnswer
  <2> QED BY <2>2, <2>3
<1> QED BY <1>1, Invariance, PTL

\* Whenever the client is connected and idle in a session that the server began
\* empty, every topic it is granted has a handler, but for a grant of QoS 0 when
\* every slot is taken.
THEOREM Handlers == Spec => []SubscriptionsHaveHandlers
<1>1. IndInv => SubscriptionsHaveHandlers
  <2> SUFFICES ASSUME IndInv, pc = "idle", isconnected, ~keepSession, intact,
                      NEW t \in Topics, granted[t] # Unsubscribed
               PROVE  Matching(t) # {} \/ (granted[t] = 0 /\ FreeSlots = {})
    BY DEF SubscriptionsHaveHandlers
  <2>1. ~Wrong
    BY DEF IndInv, NewIsEmpty, Wrong, NoSubscriptions
  <2>2. ~Asking
    BY DEF IndInv, CallShape, Asking
  <2> QED BY <2>1, <2>2 DEF IndInv, WhileConnected, Handled
<1> QED BY <1>1, Invariance, PTL

\* No call makes the client connected on a link that the server did not accept:
\* it gets there only when a link is opened under a client that still holds
\* itself connected.
THEOREM Accepted == Spec => ConnectedMeansAccepted
<1>1. ASSUME IndInv, [Next]_vars, intact', Wrong', ~Wrong, ~Reopen PROVE FALSE
  <2>1. CASE Call \/ ClientStep \/ TimerExpires \/ KeepAliveElapses
    <3>1. intact
      BY <1>1, <2>1, IntactSteps
    <3>2. Frame \/ TakePacket \/ AskingSend
      BY <1>1, <2>1, <3>1, FrameSteps DEF IndInv
    <3>3. link' = link /\ accepted' = accepted
      BY <1>1, <3>2, LinkKept DEF IndInv
    <3>4. ~isconnected /\ isconnected'
      BY <1>1, <3>3 DEF Wrong
    <3>5. Frame
      BY <1>1, <3>2, <3>4, AskRest DEF TakePacket, IndInv
    <3> QED BY <1>1, <2>1, <3>1, <3>4, <3>5, WhileBegins
  <2>2. CASE ServerStep /\ UNCHANGED clientVars
    <3>1. CASE PlainStep \/ AnswerStep \/ LinkLost
      BY <1>1, <3>1 DEF PlainStep, AnswerStep, LinkLost, Wrong
    <3>2. CASE ConnectStep
      BY <1>1, <2>2, <3>2 DEF ConnectStep, Grown, Wrong
    <3> QED BY <1>1, <2>2, <3>1, <3>2, ServerKinds DEF IndInv, TypeOK
  <2>3. CASE UNCHANGED vars
    BY <1>1, <2>3 DEF vars, Wrong
  <2> QED BY <1>1, <2>1, <2>2, <2>3 DEF Next
<1>2. IndInv /\ [Next]_vars => [intact' /\ Wrong' => Wrong \/ Reopen]_vars
  BY <1>1
<1> QED BY <1>2, Invariance, PTL DEF Spec, ConnectedMeansAccepted

\* Between calls a connected client keeps no publish in pubbuf, so the next one
\* overwrites none.
THEOREM NothingUnacked == Spec => []NothingUnackedWhenConnected
<1>1. IndInv => NothingUnackedWhenConnected
  BY DEF IndInv, NothingUnackedWhenConnected, WhileConnected, WhileWrong, KeepsOne, CallShape
<1> QED BY <1>1, Invariance, PTL
=============================================================================
