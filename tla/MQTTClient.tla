----------------------------- MODULE MQTTClient -----------------------------
(***************************************************************************)
(* MQTT::Client (MQTT/MQTTClient.h): the blocking, single-threaded MQTT    *)
(* client.  A call of its API runs from a Call action to Return; between   *)
(* them every read from and every write to the socket is a step, so the    *)
(* server, the link and the clock move while the client is inside a call.  *)
(*                                                                         *)
(* The caller here is any application that follows the API: it may call    *)
(* any method in any order and open a new link after it lost one.          *)
(* Built as in this repository: MQTTCLIENT_QOS1 = 1, MQTTCLIENT_QOS2 = 0,  *)
(* keepAliveInterval > 0.  Packets of the server fit in readbuf.           *)
(***************************************************************************)
EXTENDS Broker, FiniteSets

CONSTANTS
    LongTopics,     \* topics whose packets do not fit in sendbuf
    MaxHandlers,    \* MAX_MESSAGE_HANDLERS, 5
    MaxCalls,       \* bound: API calls other than yield
    MaxLinks,       \* bound: links opened
    CutCalls,       \* bound: after the first call and before call CutCalls + 1 a read may
                    \*   end inside a packet while the link is up
    IdleCalls,      \* bound: the same for the end of the keep-alive interval
    NoTopic         \* the null pointer, and a topic name that matches nothing

VARIABLES
    \* fields of the object
    isconnected,
    ping_outstanding,
    cleansession,
    nextId,             \* packetid.next
    messageHandlers,    \* messageHandlers[i]: the topic filter of slot i, or NoTopic
    inflight,           \* the publish in pubbuf while inflightMsgid > 0, else NoPacket
    sentDue,            \* last_sent.expired()
    receivedDue,        \* last_received.expired()
    \* the call under way
    op,                 \* the method, "resend" for the publish inside connect
    pc,                 \* its place: "idle" outside a call
    timer,              \* the call's Countdown: "running", "expired", or "overrun":
                        \*   expired, and the read under way has no time limit
    request,            \* the packet the method sends first
    readbuf,            \* the packet cycle() is working on, or NoPacket
    result,             \* what the last call returned: SUCCESS or not
    \* bounds and history, not in the code
    calls, links,
    intact              \* no read ended inside a packet since the client was last known
                        \*   to be disconnected when a link was opened

objectVars == <<isconnected, ping_outstanding, cleansession, nextId,
                messageHandlers, inflight, sentDue, receivedDue>>
callVars == <<op, pc, timer, request, readbuf, result>>
historyVars == <<calls, links, intact>>
clientVars == <<objectVars, callVars, historyVars>>
vars == <<brokerVars, clientVars>>

NoPacket == [type |-> "none"]
Slots == 1 .. MaxHandlers

ASSUME ClientAssumption ==
    /\ LongTopics \subseteq Topics
    /\ NoTopic \notin Topics
    /\ MaxHandlers \in Nat \ {0}
    /\ MaxPacketId \in Nat \ {0}
    /\ MaxCalls \in Nat /\ MaxLinks \in Nat \ {0}
    /\ CutCalls \in Nat /\ IdleCalls \in Nat

ClientInit ==
    /\ isconnected = FALSE
    /\ ping_outstanding = FALSE
    /\ cleansession = TRUE
    /\ nextId = 0
    /\ messageHandlers = [i \in Slots |-> NoTopic]
    /\ inflight = NoPacket
    /\ sentDue = FALSE
    /\ receivedDue = FALSE
    /\ op = "none" /\ pc = "idle" /\ timer = "expired"
    /\ request = NoPacket /\ readbuf = NoPacket
    /\ result = "SUCCESS"
    /\ calls = 0 /\ links = 1 /\ intact = TRUE

Init == BrokerInit /\ link = "up" /\ ClientInit

\* Mutant: the id does not wrap.
GetNextUnbounded == nextId + 1

\* PacketId::getNext
GetNext == IF nextId = MaxPacketId THEN 1 ELSE nextId + 1

-----------------------------------------------------------------------------
(***************************************************************************)
(* Entering and leaving a call.                                            *)
(***************************************************************************)

Return(r) ==
    /\ pc' = "idle" /\ op' = "none" /\ timer' = "expired"
    /\ request' = NoPacket /\ readbuf' = NoPacket
    /\ result' = r

\* A call that sends packet p first.
Begin(method, p) ==
    /\ op' = method
    /\ pc' = "send"
    /\ timer' = "running"
    /\ request' = p
    /\ result' = "SUCCESS"
    /\ UNCHANGED readbuf

\* A call that returns FAILURE before it sends anything.
Refuse == Return("FAILURE")

Counted == pc = "idle" /\ calls < MaxCalls /\ calls' = calls + 1

CallConnect(clean) ==
    /\ Counted
    /\ IF isconnected
       THEN Refuse /\ UNCHANGED cleansession
       ELSE /\ Begin("connect", [type |-> "CONNECT", clean |-> clean])
            /\ cleansession' = clean
    /\ UNCHANGED <<isconnected, ping_outstanding, nextId, messageHandlers,
                   inflight, sentDue, receivedDue>>
    /\ UNCHANGED <<links, intact, brokerVars>>

\* subscribe and unsubscribe take a packet id before they serialise, and a
\* packet that does not fit ends the session.
CallWithTopic(method, type, t) ==
    /\ Counted
    /\ nextId' = IF isconnected THEN GetNext ELSE nextId
    /\ IF isconnected /\ t \notin LongTopics
       THEN Begin(method, [type |-> type, id |-> GetNext, topic |-> t])
            /\ UNCHANGED isconnected
       ELSE Refuse /\ isconnected' = FALSE
    /\ UNCHANGED <<ping_outstanding, cleansession, messageHandlers, inflight,
                   sentDue, receivedDue>>
    /\ UNCHANGED <<links, intact, brokerVars>>

CallSubscribe(t) == CallWithTopic("subscribe", "SUBSCRIBE", t)

CallUnsubscribe(t) == CallWithTopic("unsubscribe", "UNSUBSCRIBE", t)

\* publish keeps the packet for a later connect() when the session is not a
\* clean one.  A QoS 0 publish has id 0: it overwrites what was kept.
CallPublish(t, qos, v) ==
    /\ Counted
    /\ nextId' = IF isconnected /\ qos = 1 THEN GetNext ELSE nextId
    /\ LET p == Publish(t, qos, IF qos = 1 THEN GetNext ELSE 0, v)
       IN  IF isconnected /\ t \notin LongTopics
           THEN /\ Begin("publish", p)
                /\ inflight' = IF cleansession THEN inflight
                               ELSE IF qos = 1 THEN p ELSE NoPacket
           ELSE Refuse /\ UNCHANGED inflight
    /\ UNCHANGED <<isconnected, ping_outstanding, cleansession, messageHandlers,
                   sentDue, receivedDue>>
    /\ UNCHANGED <<links, intact, brokerVars>>

CallDisconnect ==
    /\ Counted
    /\ Begin("disconnect", [type |-> "DISCONNECT"])
    /\ UNCHANGED <<objectVars, links, intact, brokerVars>>

\* yield does not look at isconnected.
CallYield ==
    /\ pc = "idle"
    /\ op' = "yield"
    /\ pc' = "wait"
    /\ timer' = "running"
    /\ result' = "SUCCESS"
    /\ UNCHANGED <<request, readbuf, objectVars, historyVars, brokerVars>>

-----------------------------------------------------------------------------
(***************************************************************************)
(* sendPacket: one write, which the socket takes whole or not at all.  A   *)
(* write to a link that the peer has lost may still succeed.               *)
(***************************************************************************)

Written(p) ==
    /\ IF link = "up"
       THEN Len(toServer) < Window /\ toServer' = Append(toServer, p)
       ELSE UNCHANGED toServer
    /\ sentDue' = FALSE
    /\ UNCHANGED <<link, toClient, offset, sessionVars>>

NotWritten == UNCHANGED <<sentDue, brokerVars>>

\* The packet type a call waits for.
Awaited ==
    CASE op = "connect" -> "CONNACK"
      [] op = "subscribe" -> "SUBACK"
      [] op = "unsubscribe" -> "UNSUBACK"
      [] op \in {"publish", "resend"} -> "PUBACK"
      [] OTHER -> "nothing"

\* The request is out: connect, subscribe, unsubscribe and publish at QoS 1
\* go on to wait for the answer; the others are done.
SendRequest ==
    /\ pc = "send"
    /\ timer = "running"
    /\ Written(request)
    /\ receivedDue' = IF op = "connect" THEN FALSE ELSE receivedDue
    /\ IF op = "disconnect" \/ (op = "publish" /\ request.qos = 0)
       THEN Return("SUCCESS")
       ELSE pc' = "wait" /\ UNCHANGED <<op, timer, request, readbuf, result>>
    /\ isconnected' = (isconnected /\ op # "disconnect")
    /\ UNCHANGED <<ping_outstanding, cleansession, nextId,
                   messageHandlers, inflight, historyVars>>

\* Failure of a call after it began: every method but connect (which found
\* isconnected false) clears isconnected.
Fail == Return("FAILURE") /\ isconnected' = FALSE

SendFails ==
    /\ pc = "send"
    /\ NotWritten
    /\ Fail
    /\ UNCHANGED <<ping_outstanding, cleansession, nextId,
                   messageHandlers, inflight, receivedDue, historyVars>>

-----------------------------------------------------------------------------
(***************************************************************************)
(* waitfor and yield: call cycle() until the answer is there or the time   *)
(* is up.                                                                  *)
(***************************************************************************)

\* connect goes on to send a kept publish, whatever waitfor returned.
ResendInflight ==
    /\ op' = "resend"
    /\ pc' = "send"
    /\ request' = inflight
    /\ readbuf' = NoPacket
    /\ UNCHANGED <<timer, result, isconnected>>

\* Mutant: a call that times out leaves the client connected.
TimeOutKeepsConnection ==
    /\ pc = "wait"
    /\ timer # "running"
    /\ Return(IF op = "yield" THEN "SUCCESS" ELSE "FAILURE")
    /\ UNCHANGED <<objectVars, historyVars, brokerVars>>

WaitTimesOut ==
    /\ pc = "wait"
    /\ timer # "running"
    /\ CASE op = "yield" -> Return("SUCCESS") /\ UNCHANGED isconnected
         [] op = "connect" /\ inflight # NoPacket -> ResendInflight
         [] OTHER -> Fail
    /\ UNCHANGED <<ping_outstanding, cleansession, nextId, messageHandlers,
                   inflight, sentDue, receivedDue, historyVars, brokerVars>>

\* Mutant: the loop does not look at its timer.
CycleWithoutTimer ==
    /\ pc = "wait"
    /\ pc' = "header"
    /\ UNCHANGED <<op, timer, request, readbuf, result, objectVars, historyVars,
                   brokerVars>>

\* left_ms() is negative once the timer has run out.  A read takes its time as
\* an unsigned number, and -1 for no limit: a read that begins one millisecond
\* after the end waits for ever, one that begins later for a finite time.
NextRead == timer' \in IF timer = "running" THEN {"running", "overrun"}
                       ELSE {"expired", "overrun"}

StartCycle ==
    /\ pc = "wait"
    /\ timer = "running"
    /\ pc' = "header"
    /\ NextRead
    /\ UNCHANGED <<op, request, readbuf, result, objectVars, historyVars,
                   brokerVars>>

-----------------------------------------------------------------------------
(***************************************************************************)
(* readPacket: header byte, remaining length, body.  A read returns less   *)
(* than it was asked for when its time is up, when the link is gone and,   *)
(* for a body, when only a part of it has arrived.                         *)
(***************************************************************************)

NoData == timer = "expired" \/ link = "down"

Cut == calls \in 1 .. CutCalls \/ link = "down"

ReadStep(from, to) ==
    /\ pc = from
    /\ pc' = to
    /\ UNCHANGED <<op, request, result>>
    /\ UNCHANGED <<isconnected, ping_outstanding, cleansession, nextId,
                   messageHandlers, inflight, sentDue>>
    /\ UNCHANGED <<calls, links>>
    /\ UNCHANGED <<link, toServer, sessionVars>>

\* Nothing came: -1, which cycle() holds in an unsigned short and therefore
\* never takes for a failure.
HeaderTimesOut ==
    /\ NoData
    /\ ReadStep("header", "keep")
    /\ readbuf' = NoPacket
    /\ UNCHANGED <<timer, toClient, offset, receivedDue, intact>>

ReadHeader ==
    /\ toClient # <<>>
    /\ offset = 0
    /\ ReadStep("header", "length")
    /\ NextRead
    /\ readbuf' = Head(toClient)
    /\ offset' = 1
    /\ UNCHANGED <<toClient, receivedDue, intact>>

ReadLength ==
    /\ toClient # <<>>
    /\ offset = 1
    /\ ReadStep("length", IF HasBody(readbuf) THEN "body" ELSE "handle")
    /\ IF HasBody(readbuf)
       THEN offset' = 2 /\ NextRead /\ UNCHANGED <<toClient, receivedDue>>
       ELSE /\ offset' = 0 /\ toClient' = Tail(toClient)
            /\ receivedDue' = FALSE /\ UNCHANGED timer
    /\ UNCHANGED <<readbuf, intact>>

ReadBody ==
    /\ toClient # <<>>
    /\ offset = 2
    /\ ReadStep("body", "handle")
    /\ offset' = 0
    /\ toClient' = Tail(toClient)
    /\ receivedDue' = FALSE
    /\ UNCHANGED <<readbuf, timer, intact>>

(***************************************************************************)
(* What the deserialisers make of a packet whose length was not read:      *)
(* readPacket ignores what decodePacket returned and goes on with length   *)
(* 0.  They then return 1, "success", because rc holds the number of       *)
(* length bytes, and leave their results as they were: the initial values  *)
(* in connect and subscribe, an uninitialised variable elsewhere.          *)
(***************************************************************************)
Truncated(p) ==
    CASE p.type = "CONNACK" -> {Connack(255)}
      [] p.type = "SUBACK" -> {Suback(0, 255)}
      [] p.type = "UNSUBACK" -> {Unsuback(0)}
      [] p.type = "PUBACK" -> {Puback(id) : id \in 0 .. MaxPacketId}
      [] p.type = "PUBLISH" ->
            {Publish(t, p.qos, id, v) : t \in Topics \cup {NoTopic},
                                        id \in 0 .. pubs, v \in Payloads}
      [] OTHER -> {p}

LengthTimesOut ==
    /\ Cut
    /\ NoData
    /\ ReadStep("length", "handle")
    /\ readbuf' \in Truncated(readbuf)
    /\ receivedDue' = FALSE
    /\ intact' = FALSE
    /\ UNCHANGED <<timer, toClient, offset>>

\* The body is late or comes in two segments: the part that was read is lost
\* and the rest stays in the stream.
BodyCut ==
    /\ Cut
    /\ \/ NoData /\ UNCHANGED offset
       \/ toClient # <<>> /\ offset' = 3
    /\ ReadStep("body", "keep")
    /\ readbuf' = NoPacket
    /\ intact' = FALSE
    /\ UNCHANGED <<timer, toClient, receivedDue>>

\* What readPacket may take the middle of a packet for.  Topics and payloads
\* are text: no byte of theirs is the 0 that a CONNACK needs for an accept.
Junk == {NoPacket, Connack(5), Suback(0, 1), Suback(0, Refused),
         Puback(0), Unsuback(0), Pingresp}
        \cup {Publish(t, q, 0, v) : t \in Topics \cup {NoTopic}, q \in {0, 1},
                                    v \in Payloads}

\* The stream is read from the middle of a packet: any type, any length, so
\* any number of the bytes that follow, and any place to stop.
ReadJunk ==
    /\ offset # 0
    /\ toClient # <<>>
    /\ \E p \in Junk, n \in 0 .. Len(toClient) :
        /\ ReadStep("header", IF p = NoPacket THEN "keep" ELSE "handle")
        /\ readbuf' = p
        /\ toClient' = SubSeq(toClient, n + 1, Len(toClient))
        /\ offset' \in CASE n = Len(toClient) -> {0}
                         [] n = 0 -> {3}
                         [] OTHER -> {0, 3}
        /\ receivedDue' = IF p = NoPacket THEN receivedDue ELSE FALSE
    /\ UNCHANGED <<timer, intact>>

-----------------------------------------------------------------------------
(***************************************************************************)
(* cycle: what is done with a packet.                                      *)
(***************************************************************************)

\* deliverMessage calls the handler of every slot whose filter matches; the
\* filters of this system have no wildcards, so a match is equality.
Matching(t) == {i \in Slots : messageHandlers[i] = t /\ t # NoTopic}

DeliverMessage ==
    /\ pc = "handle"
    /\ readbuf.type = "PUBLISH"
    /\ pc' = IF readbuf.qos = 1 THEN "ack" ELSE "keep"
    /\ UNCHANGED <<op, timer, request, readbuf, result, objectVars, historyVars,
                   brokerVars>>

HandleOther ==
    /\ pc = "handle"
    /\ readbuf.type # "PUBLISH"
    /\ ping_outstanding' = (ping_outstanding /\ readbuf.type # "PINGRESP")
    /\ pc' = "keep"
    /\ UNCHANGED <<op, timer, request, readbuf, result, isconnected, cleansession,
                   nextId, messageHandlers, inflight, sentDue, receivedDue,
                   historyVars, brokerVars>>

\* The PUBACK is sent on the caller's timer.
SendPuback ==
    /\ pc = "ack"
    /\ timer = "running"
    /\ Written(Puback(readbuf.id))
    /\ pc' = "keep"
    /\ UNCHANGED <<op, timer, request, readbuf, result, isconnected,
                   ping_outstanding, cleansession, nextId, messageHandlers,
                   inflight, receivedDue, historyVars>>

\* cycle() returns FAILURE: yield gives up, waitfor tries again.
PubackFails ==
    /\ pc = "ack"
    /\ NotWritten
    /\ IF op = "yield" THEN Return("FAILURE")
       ELSE /\ pc' = "wait" /\ readbuf' = NoPacket
            /\ UNCHANGED <<op, timer, request, result>>
    /\ UNCHANGED <<isconnected, ping_outstanding, cleansession, nextId,
                   messageHandlers, inflight, receivedDue, historyVars>>

\* The end of cycle(): back to the loop, or on with the call it waited for.
CycleEnds ==
    IF readbuf.type = Awaited
    THEN pc' = "answer" /\ UNCHANGED readbuf
    ELSE pc' = "wait" /\ readbuf' = NoPacket

PingDue == (sentDue \/ receivedDue) /\ ~ping_outstanding

\* keepalive(), whose result cycle() ignores.  The ping has its own timer.
Keepalive ==
    /\ pc = "keep"
    /\ \/ PingDue /\ Written([type |-> "PINGREQ"]) /\ ping_outstanding' = TRUE
       \/ PingDue /\ NotWritten /\ UNCHANGED ping_outstanding
       \/ ~PingDue /\ UNCHANGED <<ping_outstanding, sentDue, brokerVars>>
    /\ CycleEnds
    /\ UNCHANGED <<op, timer, request, result, isconnected, cleansession, nextId,
                   messageHandlers, inflight, receivedDue, historyVars>>

-----------------------------------------------------------------------------
(***************************************************************************)
(* The answer has come.                                                    *)
(***************************************************************************)

Answered(method) == pc = "answer" /\ op = method

\* Mutants: the return code of the CONNACK is not read; nothing is resent.
ConnectIgnoresCode ==
    /\ Answered("connect")
    /\ IF inflight # NoPacket THEN ResendInflight
       ELSE isconnected' = TRUE /\ Return("SUCCESS")
    /\ UNCHANGED <<ping_outstanding, cleansession, nextId, messageHandlers,
                   inflight, sentDue, receivedDue, historyVars, brokerVars>>

ConnectResendsNothing ==
    /\ Answered("connect")
    /\ isconnected' = (readbuf.code = 0)
    /\ Return(IF readbuf.code = 0 THEN "SUCCESS" ELSE "FAILURE")
    /\ UNCHANGED <<ping_outstanding, cleansession, nextId, messageHandlers,
                   inflight, sentDue, receivedDue, historyVars, brokerVars>>

\* connect goes on to send a kept publish, whatever the CONNACK says.
FinishConnect ==
    /\ Answered("connect")
    /\ IF inflight # NoPacket
       THEN ResendInflight
       ELSE /\ isconnected' = (readbuf.code = 0)
            /\ Return(IF readbuf.code = 0 THEN "SUCCESS" ELSE "FAILURE")
    /\ UNCHANGED <<ping_outstanding, cleansession, nextId, messageHandlers,
                   inflight, sentDue, receivedDue, historyVars, brokerVars>>

FreeSlots == {i \in Slots : messageHandlers[i] = NoTopic}

\* Mutant: a subscription without a free slot is a success.
SubscribeWithoutSlot ==
    /\ Answered("subscribe")
    /\ LET ok == readbuf.code # Refused
           free == {i \in FreeSlots : ok /\ \A j \in FreeSlots : i <= j}
       IN  /\ messageHandlers' = [i \in Slots |-> IF i \in free THEN request.topic
                                                 ELSE messageHandlers[i]]
           /\ isconnected' = (isconnected /\ ok)
           /\ Return(IF ok THEN "SUCCESS" ELSE "FAILURE")
    /\ UNCHANGED <<ping_outstanding, cleansession, nextId, inflight, sentDue,
                   receivedDue, historyVars, brokerVars>>

\* A subscription that was not refused takes the first free slot, and that is
\* what makes rc 0; without a free slot rc is still the granted QoS.
FinishSubscribe ==
    /\ Answered("subscribe")
    /\ LET install == readbuf.code # Refused /\ FreeSlots # {}
           slot == CHOOSE i \in FreeSlots : \A j \in FreeSlots : i <= j
           ok == install \/ readbuf.code = 0
       IN  /\ messageHandlers' = IF install
                                 THEN [messageHandlers EXCEPT ![slot] = request.topic]
                                 ELSE messageHandlers
           /\ isconnected' = (isconnected /\ ok)
           /\ Return(IF ok THEN "SUCCESS" ELSE "FAILURE")
    /\ UNCHANGED <<ping_outstanding, cleansession, nextId, inflight, sentDue,
                   receivedDue, historyVars, brokerVars>>

\* The handler stays in its slot.
FinishUnsubscribe ==
    /\ Answered("unsubscribe")
    /\ Return("SUCCESS")
    /\ UNCHANGED <<objectVars, historyVars, brokerVars>>

\* An acknowledgement of another id is as good as the right one, except that
\* the kept publish stays.
FinishPublish ==
    /\ pc = "answer"
    /\ op \in {"publish", "resend"}
    /\ inflight' = IF inflight # NoPacket /\ inflight.id = readbuf.id
                   THEN NoPacket ELSE inflight
    /\ isconnected' = (isconnected \/ op = "resend")
    /\ Return("SUCCESS")
    /\ UNCHANGED <<ping_outstanding, cleansession, nextId,
                   messageHandlers, sentDue, receivedDue, historyVars, brokerVars>>

-----------------------------------------------------------------------------
\* Time passes: the call's timer runs out, or the keep-alive interval.
TimerExpires ==
    /\ pc # "idle"
    /\ timer = "running"
    /\ timer' = "expired"
    /\ UNCHANGED <<op, pc, request, readbuf, result, objectVars, historyVars,
                   brokerVars>>

KeepAliveElapses ==
    /\ calls \in 1 .. IdleCalls
    /\ ~(sentDue /\ receivedDue)
    /\ \/ sentDue' = TRUE /\ UNCHANGED receivedDue
       \/ receivedDue' = TRUE /\ UNCHANGED sentDue
    /\ UNCHANGED <<isconnected, ping_outstanding, cleansession, nextId,
                   messageHandlers, inflight, callVars, historyVars, brokerVars>>

\* An application opens a new link between calls.  MQTTSocket knows nothing of
\* isconnected: after a yield() that failed on an acknowledgement, or a loss that
\* no call has met yet, the client still holds itself connected.
Reopen ==
    /\ pc = "idle"
    /\ links < MaxLinks
    /\ LinkOpened
    /\ links' = links + 1
    /\ intact' = (intact \/ ~isconnected)
    /\ UNCHANGED <<objectVars, callVars, calls>>

Call ==
    \/ \E clean \in BOOLEAN : CallConnect(clean)
    \/ \E t \in Topics : CallSubscribe(t) \/ CallUnsubscribe(t)
    \/ \E t \in Topics, q \in {0, 1}, v \in Payloads : CallPublish(t, q, v)
    \/ CallDisconnect
    \/ CallYield

\* The steps of a call, apart from the one that calls the application back.
QuietStep ==
    \/ SendRequest \/ SendFails \/ WaitTimesOut \/ StartCycle
    \/ HeaderTimesOut \/ ReadHeader \/ ReadLength \/ ReadBody
    \/ LengthTimesOut \/ BodyCut \/ ReadJunk
    \/ HandleOther \/ SendPuback \/ PubackFails \/ Keepalive
    \/ FinishConnect \/ FinishSubscribe \/ FinishUnsubscribe \/ FinishPublish

ClientStep == QuietStep \/ DeliverMessage

Next ==
    \/ Call
    \/ ClientStep
    \/ TimerExpires
    \/ KeepAliveElapses
    \/ Reopen
    \/ ServerStep /\ UNCHANGED clientVars

Spec == Init /\ [][Next]_vars

-----------------------------------------------------------------------------
(***************************************************************************)
(* Properties.                                                             *)
(***************************************************************************)

PublishPacket ==
    [type : {"PUBLISH"}, topic : Topics, qos : {0, 1},
     id : 0 .. MaxPacketId, payload : Payloads]

ClientPacket ==
    [type : {"CONNECT"}, clean : BOOLEAN]
    \cup [type : {"SUBSCRIBE", "UNSUBSCRIBE"}, id : PacketIds, topic : Topics]
    \cup PublishPacket
    \cup [type : {"PUBACK"}, id : Nat]
    \cup [type : {"PINGREQ", "DISCONNECT"}]

MessagePacket ==
    [type : {"PUBLISH"}, topic : Topics \cup {NoTopic}, qos : {0, 1},
     id : Nat, payload : Payloads]

ServerPacket ==
    [type : {"CONNACK"}, code : {0, 5, 255}]
    \cup [type : {"SUBACK"}, id : 0 .. MaxPacketId, code : {0, 1, Refused, 255}]
    \cup [type : {"UNSUBACK", "PUBACK"}, id : 0 .. MaxPacketId]
    \cup [type : {"PINGRESP"}]
    \cup MessagePacket

BrokerTypes ==
    /\ link \in {"up", "down"}
    /\ toServer \in Seq(ClientPacket) /\ toClient \in Seq(ServerPacket)
    /\ offset \in 0 .. 3
    /\ accepted \in BOOLEAN /\ keepSession \in BOOLEAN
    /\ granted \in [Topics -> {0, 1, Unsubscribed}]
    /\ unacked \in Seq(MessagePacket) /\ pubs \in Nat

ObjectTypes ==
    /\ isconnected \in BOOLEAN /\ ping_outstanding \in BOOLEAN
    /\ cleansession \in BOOLEAN /\ nextId \in 0 .. MaxPacketId
    /\ messageHandlers \in [Slots -> Topics \cup {NoTopic}]
    /\ inflight \in PublishPacket \cup {NoPacket}
    /\ sentDue \in BOOLEAN /\ receivedDue \in BOOLEAN

CallTypes ==
    /\ op \in {"none", "connect", "resend", "subscribe", "unsubscribe", "publish",
               "disconnect", "yield"}
    /\ pc \in {"idle", "send", "wait", "header", "length", "body", "handle",
               "ack", "keep", "answer"}
    /\ timer \in {"running", "expired", "overrun"}
    /\ request \in ClientPacket \cup {NoPacket}
    /\ readbuf \in ServerPacket \cup {NoPacket}
    /\ result \in {"SUCCESS", "FAILURE"}
    /\ calls \in 0 .. MaxCalls /\ links \in 1 .. MaxLinks
    /\ intact \in BOOLEAN

\* Types of the link and the session, of the object's fields and of the call.
TypeOK == BrokerTypes /\ ObjectTypes /\ CallTypes

\* subscribe, unsubscribe and publish do not compare the packet id of the
\* answer with their own.  They need not: while every packet is read whole,
\* the answer a call waits for is the answer to its own request, because a
\* call that gave up waiting leaves the client unusable until a new link.
AnswerMatchesRequest ==
    pc = "answer" /\ intact /\ op # "connect" => readbuf.id = request.id

\* Whenever the client is connected and idle, in a session that the server
\* began empty, each topic for which the server will send it messages has a
\* message handler.  The exception is what subscribe() does with a full table:
\* it fails and disconnects if the server granted QoS 1, but takes a grant of
\* QoS 0 for its own rc = 0.
SubscriptionsHaveHandlers ==
    pc = "idle" /\ isconnected /\ ~keepSession /\ intact
        => \A t \in Topics : granted[t] # Unsubscribed =>
                Matching(t) # {} \/ (granted[t] = 0 /\ FreeSlots = {})

\* The client holds itself connected on a link that the server has not accepted.
Wrong == isconnected /\ link = "up" /\ ~accepted

\* No call makes the client connected on a link that the server did not accept:
\* it gets there only when the application opens a link and the client does not
\* know of the loss of the last one.
ConnectedMeansAccepted == [][intact' /\ Wrong' => Wrong \/ Reopen]_vars

\* Between calls a connected client has no unacknowledged publish in pubbuf,
\* so the next publish of a kept session overwrites none.
NothingUnackedWhenConnected ==
    pc = "idle" /\ isconnected /\ intact => inflight = NoPacket

-----------------------------------------------------------------------------
(***************************************************************************)
(* Why they hold: the inductive invariant, in named parts.  The argument   *)
(* is about one link that was read whole.  A server accepts one CONNECT    *)
(* per link, so the client gets connected at most once on it; what was     *)
(* asked before that and what is asked behind a second CONNECT is never    *)
(* answered, and the rest is asked and answered one by one.                *)
(***************************************************************************)

\* Requests that are answered by a packet with their id, and the answers.
Asks(p) == p.type \in {"SUBSCRIBE", "UNSUBSCRIBE"} \/ (p.type = "PUBLISH" /\ p.qos = 1)
Answers(p) == p.type \in {"SUBACK", "UNSUBACK", "PUBACK"}

\* The server has a CONNECT to read before packet k, and that closes the link.
Doomed(k) == accepted /\ \E j \in 1 .. k - 1 : toServer[j].type = "CONNECT"

\* Packets that were read to their end are in readbuf at these places.
Fetched == pc \in {"handle", "ack", "keep", "answer"}

\* A link that is down holds nothing.
DownIsEmpty ==
    link = "down" =>
        /\ toServer = <<>> /\ toClient = <<>> /\ offset = 0
        /\ ~accepted

\* A session that is not kept begins empty.
NewIsEmpty == ~accepted /\ ~keepSession => granted = NoSubscriptions

\* What a call's place says about the method and its request.
CallShape ==
    /\ (pc = "idle") = (op = "none")
    /\ pc \in {"idle", "send", "wait", "header"} => readbuf = NoPacket
    /\ pc \in {"length", "body", "handle", "ack"} => readbuf # NoPacket
    /\ pc = "ack" => readbuf.type = "PUBLISH"
    /\ pc = "answer" => readbuf.type = Awaited /\ op \notin {"none", "yield", "disconnect"}
    /\ op \in {"connect", "resend"} => ~isconnected
    /\ op \in {"subscribe", "unsubscribe", "publish"} => isconnected
    /\ op = "connect" => request.type = "CONNECT"
    /\ op = "subscribe" => request.type = "SUBSCRIBE"
    /\ op = "unsubscribe" => request.type = "UNSUBSCRIBE"
    /\ op = "publish" => request.type = "PUBLISH" /\ (pc # "send" => request.qos = 1)
    /\ op = "disconnect" => request.type = "DISCONNECT" /\ pc = "send"
    /\ op = "yield" => pc # "send"
    /\ op = "resend" => inflight # NoPacket /\ request = inflight
    /\ inflight # NoPacket => inflight.qos = 1

\* The reader is where the stream is.
InStep ==
    intact =>
        /\ pc \notin {"length", "body"} => offset = 0
        /\ pc \in {"length", "body"} /\ link = "up" =>
            /\ toClient # <<>> /\ readbuf = Head(toClient)
            /\ offset = IF pc = "length" THEN 1 ELSE 2

NoConnack == \A k \in DOMAIN toClient : toClient[k].type # "CONNACK"

\* Until the server accepts it only refuses, and it accepts once.
OneAccept ==
    intact =>
        /\ link = "up" /\ ~accepted =>
            /\ \A k \in DOMAIN toClient : toClient[k] = Connack(5)
            /\ readbuf \in {NoPacket, Connack(5)}
        /\ \A j, k \in DOMAIN toClient :
            j < k /\ toClient[k].type = "CONNACK" => toClient[j] = Connack(5)
        /\ Fetched /\ readbuf \notin {NoPacket, Connack(5)} => NoConnack

\* No more CONNACK comes on this link.
Spent == (link = "up" => accepted) /\ NoConnack /\ readbuf.type # "CONNACK"

\* The server reads another packet before any CONNECT, and that closes the link.
Closing == link = "up" /\ ~accepted /\ toServer # <<>> /\ Head(toServer).type # "CONNECT"

\* The client may still get connected on this link.
Hope ==
    /\ ~isconnected
    /\ ~Spent \/ (op = "resend" /\ (pc # "send" \/ timer = "running"))

AnswerInStream == \E k \in DOMAIN toClient : Answers(toClient[k])
AnswerFetched == Fetched /\ Answers(readbuf)

\* At most one request is under way that will be answered, or its answer.
OneAnswer ==
    /\ \A j, k \in DOMAIN toServer :
        j < k /\ Asks(toServer[j]) /\ Asks(toServer[k]) =>
            \/ Doomed(j)
            \/ \E m \in j + 1 .. k - 1 : toServer[m].type = "CONNECT"
    /\ \A j, k \in DOMAIN toClient :
        Answers(toClient[j]) /\ Answers(toClient[k]) => j = k
    /\ AnswerInStream \/ AnswerFetched =>
        \A k \in DOMAIN toServer : Asks(toServer[k]) => Doomed(k)
    /\ AnswerFetched => ~AnswerInStream

\* Nothing is under way that will be answered, and no answer.
Quiet ==
    /\ ~AnswerInStream /\ ~AnswerFetched
    /\ \A k \in DOMAIN toServer : Asks(toServer[k]) => Doomed(k)

\* A publish that is sent now comes behind the CONNECT of this call.
BehindConnect ==
    link = "up" =>
        /\ AnswerInStream \/ AnswerFetched =>
            \E m \in DOMAIN toServer : toServer[m].type = "CONNECT"
        /\ \A k \in DOMAIN toServer : Asks(toServer[k]) =>
            \/ Doomed(k)
            \/ \E m \in k + 1 .. Len(toServer) : toServer[m].type = "CONNECT"

\* Before it is connected the client asks for the kept publish only.
BeforeConnected ==
    intact /\ Hope /\ ~Closing =>
        /\ \A k \in DOMAIN toServer : Asks(toServer[k]) => toServer[k] = inflight
        /\ \A k \in DOMAIN toClient :
            Answers(toClient[k]) => inflight # NoPacket /\ toClient[k] = Puback(inflight.id)
        /\ AnswerFetched => inflight # NoPacket /\ readbuf = Puback(inflight.id)
        /\ ~keepSession => granted = NoSubscriptions
        /\ OneAnswer
        /\ \/ op = "connect" /\ pc # "send"
           \/ op = "resend" /\ pc = "send"
           => BehindConnect

\* The call under way waits for an answer.
Asking == op \in {"subscribe", "unsubscribe", "publish"} /\ pc # "send"

IsAnswer(p) == p.type = Awaited /\ p.id = request.id

Granting(p, t) == p.type = "SUBACK" /\ p.code = granted[t]

\* What a grant of t comes to: a handler, nothing, or a SUBACK that is under way.
Handled(t) ==
    \/ Matching(t) # {}
    \/ granted[t] = 0 /\ FreeSlots = {}
    \/ /\ Asking /\ op = "subscribe" /\ request.topic = t
       /\ \/ \E k \in DOMAIN toClient : Granting(toClient[k], t)
          \/ Fetched /\ Granting(readbuf, t)

\* A connected client holds back no publish but the one it is sending.
KeepsOne == inflight = NoPacket \/ (op = "publish" /\ inflight = request)

\* Once connected, what is under way belongs to the call under way.
WhileConnected ==
    intact /\ isconnected /\ ~Wrong =>
        /\ Spent
        /\ ~Asking => Quiet
        /\ Asking =>
            /\ OneAnswer
            /\ \A k \in DOMAIN toServer :
                Asks(toServer[k]) => Doomed(k) \/ toServer[k] = request
            /\ \A k \in DOMAIN toClient : Answers(toClient[k]) => IsAnswer(toClient[k])
            /\ AnswerFetched => IsAnswer(readbuf)
        /\ KeepsOne
        /\ ~keepSession =>
            \A t \in Topics : granted[t] # Unsubscribed => Handled(t)

\* On a link where the server answers nothing there is no CONNECT either.
WhileWrong ==
    intact /\ Wrong =>
        /\ NoConnack /\ readbuf.type # "CONNACK"
        /\ toServer = <<>> \/ Closing
        /\ KeepsOne

IndInv ==
    /\ TypeOK /\ DownIsEmpty /\ NewIsEmpty /\ CallShape /\ InStep /\ OneAccept
    /\ BeforeConnected /\ WhileConnected /\ WhileWrong
=============================================================================
