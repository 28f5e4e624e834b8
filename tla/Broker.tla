------------------------------- MODULE Broker -------------------------------
(***************************************************************************)
(* What the MQTT client talks to: one TCP link and the server behind it.   *)
(* Neither is code of this repository; they are modelled from how          *)
(* MQTT/MQTTClient.h uses them and from the protocol it speaks (MQTT 3.1). *)
(*                                                                         *)
(* Each direction of the link is a sequence of packets.  toClient is a     *)
(* byte stream for its reader: offset says how far the reader is into the  *)
(* first packet, whose bytes come in three parts: the header byte, the     *)
(* remaining length and the body.                                          *)
(***************************************************************************)
EXTENDS Naturals, Sequences

CONSTANTS
    Topics,             \* topic names
    Payloads,           \* contents of a message
    MaxPacketId,        \* MAX_PACKET_ID, 65535
    MaxPubs,            \* bound: messages that other clients publish
    Window,             \* bound: packets under way in one direction
    EarlyPublish        \* the server may publish on a topic before its SUBACK

VARIABLES
    link,       \* "up" or "down"
    toServer,   \* packets written by the client and not yet processed
    toClient,   \* packets written by the server and not yet read
    offset,     \* parts of Head(toClient) that were read: 0, 1, 2, or 3 = half a body
    accepted,   \* the server accepted a CONNECT on this link
    keepSession,\* the session outlives the link (cleansession = 0)
    granted,    \* granted[t]: QoS of the subscription to t, or Unsubscribed
    unacked,    \* QoS 1 publishes sent and not acknowledged, in order
    pubs        \* messages sent that count as one, to bound and to number them

linkVars == <<link, toServer, toClient, offset>>
sessionVars == <<accepted, keepSession, granted, unacked, pubs>>
brokerVars == <<linkVars, sessionVars>>

Unsubscribed == 3
Refused == 128              \* a SUBACK return code, 0x80

PacketIds == 1 .. MaxPacketId
Connack(code) == [type |-> "CONNACK", code |-> code]
Suback(id, code) == [type |-> "SUBACK", id |-> id, code |-> code]
Unsuback(id) == [type |-> "UNSUBACK", id |-> id]
Puback(id) == [type |-> "PUBACK", id |-> id]
Pingresp == [type |-> "PINGRESP"]
Publish(t, q, id, v) ==
    [type |-> "PUBLISH", topic |-> t, qos |-> q, id |-> id, payload |-> v]

\* Every packet of these types has a body.
HasBody(p) == p.type # "PINGRESP"

BrokerInit ==
    /\ toServer = <<>>
    /\ toClient = <<>>
    /\ offset = 0
    /\ accepted = FALSE
    /\ keepSession = FALSE
    /\ granted = [t \in Topics |-> Unsubscribed]
    /\ unacked = <<>>
    /\ pubs = 0

NoSubscriptions == [t \in Topics |-> Unsubscribed]

\* The link is gone with all that was under way; a clean session goes too.
LinkLost ==
    /\ link' = "down"
    /\ toServer' = <<>>
    /\ toClient' = <<>>
    /\ offset' = 0
    /\ accepted' = FALSE
    /\ granted' = IF keepSession THEN granted ELSE NoSubscriptions
    /\ unacked' = IF keepSession THEN unacked ELSE <<>>
    /\ UNCHANGED <<keepSession, pubs>>

LinkDrop == link = "up" /\ LinkLost

\* The application opens a new link (MQTTSocket::connect).
LinkOpened ==
    /\ link = "down"
    /\ link' = "up"
    /\ UNCHANGED <<toServer, toClient, offset, sessionVars>>

\* The server takes the next packet; replies is what it writes.
Serve(type, replies) ==
    /\ link = "up"
    /\ toServer # <<>>
    /\ Head(toServer).type = type
    /\ Len(toClient) < Window
    /\ toServer' = Tail(toServer)
    /\ toClient' = toClient \o replies
    /\ UNCHANGED <<link, offset>>

Request == Head(toServer)

\* A session that is taken up again starts with the unacknowledged messages.
AcceptConnect ==
    /\ ~accepted
    /\ Serve("CONNECT", <<Connack(0)>> \o (IF Request.clean THEN <<>> ELSE unacked))
    /\ accepted' = TRUE
    /\ keepSession' = ~Request.clean
    /\ granted' = IF Request.clean THEN NoSubscriptions ELSE granted
    /\ unacked' = IF Request.clean THEN <<>> ELSE unacked
    /\ UNCHANGED pubs

RefuseConnect ==
    /\ ~accepted
    /\ Serve("CONNECT", <<Connack(5)>>)
    /\ UNCHANGED sessionVars

\* A second CONNECT on a link is an error, and so is anything before the
\* first: the server closes the link.  DISCONNECT closes it too.
CloseLink ==
    /\ link = "up"
    /\ toServer # <<>>
    /\ \/ Request.type = "CONNECT" /\ accepted
       \/ Request.type # "CONNECT" /\ ~accepted
       \/ Request.type = "DISCONNECT"
    /\ LinkLost

\* A message for the client, published by another client at QoS q.
Message(t, q, v) ==
    LET qos == IF granted[t] = 1 THEN q ELSE 0
    IN  Publish(t, qos, IF qos = 1 THEN pubs + 1 ELSE 0, v)

\* The server keeps a QoS 1 message until it is acknowledged.
Sent(p) ==
    IF p.qos = 1 THEN unacked' = Append(unacked, p) /\ pubs' = pubs + 1
                 ELSE UNCHANGED <<unacked, pubs>>

ServeSubscribe ==
    /\ accepted
    /\ \E code \in {0, 1, Refused} :
        /\ Serve("SUBSCRIBE", <<Suback(Request.id, code)>>)
        /\ granted' = IF code = Refused THEN granted
                      ELSE [granted EXCEPT ![Request.topic] = code]
    /\ UNCHANGED <<accepted, keepSession, unacked, pubs>>

\* The server "is permitted to start sending" before the SUBACK.
ServeSubscribeEarly(v) ==
    /\ EarlyPublish
    /\ accepted
    /\ pubs < MaxPubs
    /\ LET p == Publish(Request.topic, 1, pubs + 1, v)
       IN  /\ Serve("SUBSCRIBE", <<p, Suback(Request.id, 1)>>)
           /\ granted' = [granted EXCEPT ![Request.topic] = 1]
           /\ Sent(p)
    /\ UNCHANGED <<accepted, keepSession>>

ServeUnsubscribe ==
    /\ accepted
    /\ Serve("UNSUBSCRIBE", <<Unsuback(Request.id)>>)
    /\ granted' = [granted EXCEPT ![Request.topic] = Unsubscribed]
    /\ UNCHANGED <<accepted, keepSession, unacked, pubs>>

\* A publish of this client is acknowledged at QoS 1 and, when the client
\* subscribes to the topic, sent back to it.
ServePublish ==
    /\ accepted
    /\ LET p == Request
           echo == Message(p.topic, p.qos, p.payload)
           subscribed == granted[p.topic] # Unsubscribed
       IN  /\ Serve("PUBLISH", (IF p.qos = 1 THEN <<Puback(p.id)>> ELSE <<>>)
                               \o (IF subscribed THEN <<echo>> ELSE <<>>))
           /\ IF subscribed THEN Sent(echo) ELSE UNCHANGED <<unacked, pubs>>
    /\ UNCHANGED <<accepted, keepSession, granted>>

\* The message an acknowledgement is for; every message has an id of its own.
Acknowledged(id) == {k \in DOMAIN unacked : unacked[k].id = id}

ServePuback ==
    /\ accepted
    /\ Serve("PUBACK", <<>>)
    /\ unacked' = IF Acknowledged(Request.id) = {} THEN unacked
                  ELSE LET k == CHOOSE k \in Acknowledged(Request.id) : TRUE
                       IN  SubSeq(unacked, 1, k - 1) \o SubSeq(unacked, k + 1, Len(unacked))
    /\ UNCHANGED <<accepted, keepSession, granted, pubs>>

ServePingreq ==
    /\ accepted
    /\ Serve("PINGREQ", <<Pingresp>>)
    /\ UNCHANGED sessionVars

\* Another client publishes on a topic this client subscribes to.
UserPublish(t, v) ==
    /\ link = "up"
    /\ accepted
    /\ granted[t] # Unsubscribed
    /\ pubs < MaxPubs
    /\ Len(toClient) < Window
    /\ LET p == Message(t, 1, v)
       IN  /\ toClient' = Append(toClient, p)
           /\ unacked' = IF p.qos = 1 THEN Append(unacked, p) ELSE unacked
    /\ pubs' = pubs + 1
    /\ UNCHANGED <<link, toServer, offset, accepted, keepSession, granted>>

ServerStep ==
    \/ AcceptConnect \/ RefuseConnect \/ CloseLink
    \/ ServeSubscribe \/ ServeUnsubscribe
    \/ \E v \in Payloads : ServeSubscribeEarly(v)
    \/ ServePublish \/ ServePuback \/ ServePingreq
    \/ \E t \in Topics, v \in Payloads : UserPublish(t, v)
    \/ LinkDrop
=============================================================================
