# Remotus-Hardware: a TLA+ verification project

Remotus-Hardware is the firmware of a weather station on an mbed LPC1768. It reads a JSON
file that says which sensors hang on which pins and which MQTT topic belongs to each,
connects to an MQTT server, publishes every sensor every three seconds and switches digital
outputs when users publish on their topics. Below the program are an MQTT client, lwIP with
its Ethernet driver, and the RTX kernel, all in this repository.

## 1. Inventory

| Part | State | Operations | Talks to |
|---|---|---|---|
| Station program, `main.cpp` | tables of sensors, `update`, pins, last DHT values | read and check the file, connect, subscribe, sweep, yield, `messageArrived`, `timer_sensor` | MQTT client, sensors, a timer interrupt |
| MQTT client, `MQTT/MQTTClient.h` | `isconnected`, `ping_outstanding`, packet id, handler table, kept publish, three timers | connect, subscribe, unsubscribe, publish, yield, disconnect | socket, timers, the callback |
| MQTT packets, `MQTT/MQTTPacket/` | buffers | serialise, deserialise | client |
| Timers and sockets, `MQTT/MQTTmbed.h`, `MQTTSocket.h`, `EthernetInterface/Socket/` | descriptor, timeout | connect, send, receive | lwIP |
| Edge counter, `WeatherMeters/DebouncedFallingEdgeCounter.cpp` | last edge time, count | edge interrupt, refresh, read, zero | pin interrupt, microsecond timer |
| Anemometer, `WeatherMeters/Anemometer.cpp` | current and maximum speed | one-second ticker, getters, reset | edge counter |
| Rain gauge, `WeatherMeters/RainGauge.h` | - | `GetRainfall`, `Reset` | edge counter, the sweep |
| Ethernet interface, `EthernetInterface.cpp` | address, two semaphores | connect, disconnect | DHCP client, driver |
| lwIP DHCP, ARP, resolver: `dhcp.c`, `etharp.c`, `dns.c` | client state and lease timers; table of neighbours; table of names | messages in and out, timers | server, other hosts, the caller of `gethostbyname` |
| lwIP TCP, `tcp.c`, `tcp_in.c`, `tcp_out.c` | control block, three queues, timers | write, output, input, fast and slow timer | the other end, netconn |
| netconn API, `api_msg.c`, `api_lib.c` | connection state, mailbox, semaphore | connect, accept, write, receive, close, callbacks | application thread, TCP |
| Ethernet driver, `lpc17_emac.c` | two descriptor rings, semaphores, mutex | send, clean up, receive, interrupt | EMAC, stack |
| RTX kernel, `mbed-rtos/rtx/` | ready, delay and timer lists, control blocks, request queue | threads, delays, semaphores, mutexes, mailboxes, signals, timers, tick | every thread and interrupt |
| Wind vane, DHT, SRF05 | last reading | read | pins, interrupts |
| pbuf, mem, PPP, SNMP, mbed headers, picojson, ConfigFile, Websocket | | | |

What is hard here: pin and ticker interrupts run between any two statements of the main
thread; a 32-bit timer and sequence numbers wrap; one application thread does everything, so
each network call must end; a link is lost, a read ends inside a packet, an answer comes late
or twice; the lwIP thread, the application and the driver threads share rings, mailboxes and
semaphores; leases run out while the network is away. The list `hazards` of `PROJECT.json`
places each of these at its line.

What makes each part correct:

* edge counter: an edge is counted exactly when the hold-off has passed, for ever;
* anemometer: every counted edge is in exactly one sample; rain gauge: in at most one;
* client: every call returns; the answer a call takes is its own; a call makes it connected only
  on a link the server accepted; a live subscription has a handler; nothing kept is overwritten;
* station: readings go out under the topic of the device that made them (they do not, section
  4); nothing turns an output on but a message from outside; the loop never stops;
* kernel: the highest ready thread runs; a thread is in one list; delays and timers are exact;
  no wakeup is lost; a mailbox is a queue; threads of one priority share;
* TCP: each direction is a byte stream; what was acknowledged is kept; every call returns and
  everything arrives;
* DHCP, ARP, DNS: an address in use is leased and has one owner; packets go to the host that
  has the address; a lookup gets its own answer and returns;
* driver: the transmit ring is a queue; nobody frees or overwrites memory the EMAC uses; no
  interrupt is missed.

## 2. Modules

| Module | Models |
|---|---|
| `EdgeCounter` | the counter's fields, its interrupt handler, the wrapping timer |
| `HoldOffCounter` | abstract: the promise of a debounced counter in ideal time |
| `Anemometer` | extends `EdgeCounter`; ticker interrupt (atomic) and reset (load, store); refines `HoldOffCounter` |
| `RainGauge` | extends `EdgeCounter`; the sample of the sweep, a step per access to shared fields |
| `Broker` | external: the TCP link and the MQTT server and its other clients |
| `MQTTClient` | extends `Broker`; the client, each socket operation a step, with any caller |
| `Station` | extends `MQTTClient`; `main.cpp` is the caller and its callback is composed with `DeliverMessage` |
| `RtxSched` | kernel lists, scheduling, delays, round robin, as operators on the kernel's state |
| `RtxKernel` | extends `RtxSched`; the service calls, interrupts, PendSV and the tick, with arbitrary threads |
| `BoundedFifo` | abstract: a queue of bounded length; refined by the kernel's mailbox |
| `Tcp` | the TCP control block as operators: output, input, retransmission, timers |
| `Netconn` | extends `Tcp`; connections, their callbacks and the requests of a thread |
| `ByteStream` | abstract: one direction of a connection; refined by `TcpLink` in both |
| `TcpLink` | two endpoints of `Netconn`, their applications, and the network between them |
| `Etharp`, `Dns`, `Dhcp` | the ARP table, the resolver and the DHCP client, as operators |
| `NetBoot` | composes them with `EthernetInterface`, the application, a server, a rival host and the network |
| `Emac` | the Ethernet driver: senders, cleanup, receiver, interrupt; the EMAC is external |
| `MCStation`, `MCRtxKernel`, `MCTcpLink`, `MCNetBoot`, `MCEmac` | the instances of the runs |
| `AnemometerProofs`, `RainGaugeProofs`, `MQTTClientProofs`, `StationProofs`, `RtxCallProofs`, `RtxKernelProofs`, `EmacProofs`, `NetBootProofs` | theorems |

Operators named as mutants in their comments are not part of any specification: each is a
plausible bug that the named property detects.

### Edge counter, anemometer, rain gauge

`timer`, `last`, `count` are what `m_Timer.read_us()` returns, `m_LastFallingEdgeTime` and
`m_FallingEdgeCount`. `Minus` is subtraction of unsigned ints. Three variables are history:
`edges` (edges counted since the start), `age` (true time since the last counted edge), `lag`
(true time since the last refresh). `Tick` lets a microsecond pass and assumes what
`WeatherMeters.h:106` asks for: the refresh comes often enough.

The two users of the counter differ in who may interrupt whom. `OneSecondTickerISR` has the
priority of the edge interrupt and runs to its end, so `RefreshTimers` and
`GetCountAndZero` are one step of it. The rain gauge is sampled by the main thread, so
`RefreshRead`, `RefreshTest`, `RefreshInit`, `LoadCount` and `Reset` are steps with the
interrupt between them.

### Client and server

Each direction of the link is a sequence of packets, and the client reads the first packet of
`toClient` in three parts: header byte, remaining length, body (`offset`). `pc` is the place
inside a call: `send`, `wait` (the loops of `waitfor` and `yield`), `header`, `length`,
`body` (`readPacket`), `handle`, `ack`, `keep` (`cycle`), `answer` (what the method does with
the packet it waited for). The timer of a call is running or expired, at any moment
(`TimerExpires`); so are the two keep-alive timers (`KeepAliveElapses`). A read that begins
when the time is over by one millisecond gets the timeout -1, which the socket takes for an
unsigned number and `select` for no limit: the timer is then `overrun`, and the read ends with
data or with the link (`NextRead`, `NoData`).

Details that the model keeps because they decide properties: `cycle` holds the -1 of
`readPacket` in an unsigned short, so a read that fails is no failure; `decodePacket`'s result
is ignored, so a packet whose length was not read goes on with length 0, and the
deserialisers then return 1 and leave their results as they were (`Truncated`); after a cut
read the stream is read from the middle of a packet (`ReadJunk`); no acknowledgement is
compared with the id of the request; `connect` resends a kept publish whatever the CONNACK
said; a QoS 0 publish of a kept session overwrites the kept one; a full handler table makes a
subscription granted at QoS 1 a failure, and one at QoS 0 a success. `Reopen` opens a link under
a client that may still hold itself connected, since `MQTTSocket::connect` knows nothing of
`isconnected`; `Wrong` is that state.

The server may refuse, close, answer late, not at all, and lose the link at any time. It
keeps unacknowledged QoS 1 messages of a kept session and sends them again. With
`EarlyPublish` it sends a message before the SUBACK, as MQTT permits.

### Station

`file` is one of the files of the run: not found, bad syntax, bad server data, a sensor with
a field missing, an unknown sensor type, or usable. `sensors` stands for the three parallel
tables. `SendMQTT` publishes through a *copy* of the client (it is passed by value twice): the
copy shares the socket, and whatever happens to its fields is lost. `Addressed` is the
`strncmp` of `messageArrived`, which accepts a longer topic and reads on into the payload of
a QoS 0 packet; `Prefixes` and `RunsOn` say which topics of a run stand in that relation.
`Atoi` is `atoi` on a payload that may have no terminator. The number of sweeps shown on the
LEDs is left out. `OutputNeedsCommand` holds for every file, topic and payload: it says from
which topics a message can come to an output (`Reaches`, `Closed`), the comparison of
`messageArrived` and the station's own echoes included, and that a message that reads as 1 from
outside is behind every output that is on.

### Kernel

`k` is the kernel's state: running thread, ready and delay lists (the delay list with
differences, as in `rt_List.c`), control blocks, waiting lists, the ring of the mailbox with
its `state`, the list of software timers with differences, and the queue `psq` of requests of
interrupts. Each service call is one action: calls run in SVC and are not interrupted by the
tick or PendSV, but a handler may post meanwhile, so that one call takes effect between a
post and PendSV (`late`). `due` and `left` are history: the true time left of a wait and of a
timer. Threads are arbitrary programs over the calls that the run gives them; the runs give
each combination of objects to three threads and the interrupts. They start by priority,
those of one priority in any order (`Orders`).

### TCP and the netconn API

An endpoint is a record: the control block `p`, the receive mailbox, the state `cs` of the
request in progress, the semaphore. One action is one event of the lwIP thread: a segment is
taken from the network, a message of the application arrives, the fast or the slow timer
ticks. `Tcp` has the code of the three source files with bytes as small records and sequence
numbers modulo `SeqSpace`. The out-of-sequence queue is off in this build, Nagle is on,
delayed ACKs, fast retransmit, persist probes and both timers are there. The network may
lose, repeat and overtake, as many times as the scenario's `faults` say, and an endpoint may
restart and know nothing of the connection (`Restart`). `netconn_recv_data` is two steps: the
test of the last error (`Ask`, `ReadFails`), and the fetch from the mailbox (`Fetch`), in which a
thread that waits is woken by `err_tcp` with the same NULL as by the end of the stream.

### Getting an address and a name

`stk` is the lwIP side of the station: the interface (address, up, link), the DHCP client, the
ARP table, the resolver. `app` is the thread that calls `connect`, `disconnect` and
`gethostbyname`; `dhcp_start` and `dhcp_release` run in that thread, the rest in the lwIP
thread. The server, which may renew for another time than it gave at first (`again`), the rival
host (which squats an address or takes one the server gives) and the frames under way are
external. The two networks have the same addresses and different routers. Frames that arrive
while the interrupt is disabled wait in the ring of the driver and are processed at the next
`connect`.

### Ethernet driver

Each sending thread walks through `lpc_low_level_output` (`ready`, `room`, `wait`, `index`,
`fill`), because the index is read before the mutex is taken; `packet_tx` and `packet_rx` are
threads; `ENET_IRQHandler` is two steps, between which the EMAC may raise interrupts but no
thread runs. `sending` and `clashed` are history: what was handed over and not sent, and
whether a packet was put into descriptors still in use. After a clash the transmit side is
not followed: the ring then forgets packets or sends old ones.

## 3. Runs

| Run | Result | What it shows |
|---|---|---|
| `anemometer` | pass | debouncing is exact over several wraps; each revolution is in one sample; refines `HoldOffCounter` |
| `rain_gauge` | pass | with the interrupt anywhere, no edge is held off for ever and no tip is reported twice |
| `mqtt_client` | pass | its inductive invariant and what it implies, under any order of calls, two links, refusals, timeouts, failed writes, early messages, topics that do not fit, a stream read out of step after a cut read |
| `station` | pass | every kind of file; two outputs whose topics begin alike; payloads that nothing ends; early messages; lost links: no output is on without a message from outside |
| `station_sweeps` | pass | there is always another sweep and it ends, with reads that are cut anywhere and keep-alive at any time, if the server gives up a silent client |
| `station_reads` | violation | a read that begins a millisecond late waits as long as the link lasts |
| `rtx_kernel` | pass | scheduling, lists, exact times, no lost wakeup, the mailbox refines `BoundedFifo`, waits end, round robin shares |
| `netboot` | pass | leases, conflicts, neighbours and lookups with lost and late frames, a rival, dead servers, shorter renewals, a link that breaks or moves |
| `emac` | pass | the transmit ring is a queue, buffers have one owner, the driver goes on |
| `emac_room` | violation | a packet is put into a transmit ring without room for it |
| `tcp_link` | pass | both directions refine `ByteStream`, through a restart of the server; accounts balance; every call returns; everything arrives |
| `tcp_link_end` | violation | the end of a stream that meets a full mailbox is never told to the reader |

### Bounds

* Counter: modulus 11, hold-off 3, refresh period 7, five counted edges. 3 + 7 < 11 is the
  tightest case of `TimingAssumption`; five edges let the timer wrap while counting.
  The proofs have no such bounds, except that `MaxEdges` is any natural number.
* Client: `MaxCalls` 4 calls besides yield (connect, lose the link, connect again, and one
  more), `MaxLinks` 2, `MaxPacketId` 2 so that ids wrap, one handler slot so that the table
  fills, `MaxPubs` 1 message of another client, `Window` 1 packet under way each
  way, one topic that does not fit in `sendbuf`. A read may end inside a packet and the
  keep-alive interval may elapse from the first call until the second (`CutCalls`,
  `IdleCalls` 1); the calls that follow find the stream out of step and the ping unanswered.
  `station` has two packets under way.
* Station: up to two sensors, one command, one link: the program never opens a second. In
  `station` a read ends inside a packet only when the link is lost, users do not end their
  payloads, `lamp` begins `lamp1` and `lamp` with a payload 1 behind it reads as `lamp1`; in
  `station_sweeps` a read may end anywhere (`CutCalls`), one output is enough and the messages
  that come back are the station's own.
* `Junk` leaves out publishes at QoS 2 and accepted CONNACKs: topics and payloads are text
  and hold no zero byte.
* Kernel: three threads of which two share a priority, a mailbox of two, a request queue of
  two (so that it overflows), timeouts of 0, 2 and for ever, semaphores of one token, mutexes
  nested twice, seven programs that together use every call.
* TCP: window 3, segments of 2, send buffer 4, queue of 3 buffers, sequence numbers modulo 32
  starting just below the wrap, 3 retransmissions (2 of a SYN), mailbox of one entry, one
  duplicate ACK for a fast retransmission. Seven scenarios, each with its own number of faults,
  reach a full window, a full queue, a full mailbox, simultaneous closing, a reader that stops,
  and in one more the server restarts. The slow timer ticks for free only when nothing else can
  happen, and otherwise costs a fault: a premature timeout.
* Network start: three ARP entries and two names, so that both tables overflow; two DNS servers
  and two retries; one-step lifetimes; leases of three and four minutes and without end. Nine
  scenarios: a squatted address; a rival that takes addresses while the link moves to another
  network, whose router has the same address; a lease that is renewed for a shorter time over a
  link that breaks; reconnection with a server that gives neither time; two connects and a
  disconnect; three lookups of names that begin alike; lookups of names that do not; lookups
  with a dead server and a name that does not exist; a lookup beside a neighbour with three
  faults. `TimerSpan` is that of the code, so that a timer of 0 wraps; one that is more than
  `MaxMinutes` from its end is not waited for. The coarse timer (a minute) does not tick in
  CHECKING and REBINDING, which last one and some forty-five seconds.
* Driver: rings of three descriptors (the least the code accepts for receiving; three for
  sending is the smallest with a packet of two descriptors), one buffer more than descriptors,
  so that memory runs out. `emac_room` uses the transmit ring of the build, five.

Deadlock is checked except in the runs of `TcpLink` and `NetBoot`, whose scenarios end: a
station in `errorConfig` blinks, an idle client can yield, the kernel has its idle thread.

### Fairness

* `StationFairSpec`: weak fairness of the client's steps, of the main thread, of the call's
  timer and of the three-second interrupt: there is one application thread and the timers are
  hardware. Nothing is assumed of the server, of the users or of the link. A write waits for
  room in the send buffer, which TCP empties or gives up.
* `StationServedSpec` adds the one thing that ends a read without a time limit: a server closes
  the link of a client that is silent for one and a half keep-alive intervals (MQTT 3.1), and the
  client is told (`ServerGivesUp`). Without it `ReadsEnd` fails (`station_reads`) and so would
  `SweepsForEver`.
* `RtxKernel`: the tick goes on and PendSV empties the request queue; threads do what they
  like.
* `TcpLink`: something happens unless the link is still, and an application that is not
  blocked makes its calls. Faults are finitely many, so retransmissions get through.
* `NetBoot`: frames are served and delivered, the application runs, the link comes back, and
  timers are periodic. Conditions are written out instead of WF and SF, which makes the
  assumption on each timer visible: one that could tick again and again does.
* `Emac`: the EMAC sends what it has, the interrupt is served, and threads of one priority
  take turns (round robin, shown by `rtx_kernel`). Strong fairness, because interrupts
  disable a thread for a moment again and again.

### Refinements

`ImplementsHoldOff` (`Anemometer` to `HoldOffCounter`, also proved), `MailboxIsFifo`
(`RtxKernel` to `BoundedFifo`, also proved; the queue is the ring, and the message of a waiting
sender goes into it in the step that takes the oldest one), `BothAreStreams` (`TcpLink` to
`ByteStream`, once for each direction).

## 4. Disagreements between code and documents

Three have a violation run and an entry under `findings`: `station_reads` (`MQTTmbed.h:41`: a
read that begins one millisecond after the end of its call waits as long as the link lasts;
`MQTTClient.h:364` speaks of "the max time to wait"), `emac_room` (`lpc17_emac.c:548`) and
`tcp_link_end` (`api_msg.c:250`).

The models do what the code does in these too, and the properties are stated accordingly (the
place is named in the property); they have no run of their own:

* `MQTTClient.h:476`: `yield` fails when a PUBACK cannot be sent and `isconnected` stays true;
  line 179 says "on failure, this means the client has disconnected"
  (`ConnectedMeansAccepted`, `Reopen`).
* `MQTTClient.h:699`: with a full table and a grant of QoS 0 `subscribe` is a success and the
  callback of line 159 is attached nowhere (`SubscriptionsHaveHandlers`).
* `main.cpp:351`: a command for `lamp1` switches `lamp` too, against `README.md:94`;
  `main.cpp:353`: `atoi` reads on past a payload without a terminator, so that a command `0` in
  front of an old `1` in `readbuf` is a 1 (`OutputNeedsCommand`).
* `dns.c:492`: a name whose labels begin the one that was asked, or the other way round, is
  accepted, against the comment at line 484 (`LookupsOwn`, `SameStart`).
* `dhcp.c:538`: without a T2 of the server the time to rebind is the whole lease, against
  "calculate safe periods for rebinding" in line 537 (`KeptAddressIsLeased`).
* `api_lib.c:396`: a thread that waits when the connection is reset is told that the stream has
  ended, and `receive` returns 0, which `TCPSocketConnection.h:65` has for success
  (`BothAreStreams`, `ByteStream`).

Others that were met while modelling:

Sensors, client and station

* `DebouncedFallingEdgeCounter.cpp:98`: an edge between the test and the store of a preempted
  `RefreshTimers` loses its hold-off, so its bounces count; lines 15 and 16 promise otherwise.
* `Anemometer.cpp:36`: a reset of the maximum that the ticker interrupts between load and
  store leaves the maximum below a speed measured since; `WeatherMeters.h:81` says "Maximum
  wind speed measured since last reset". (`main.cpp` never resets it.)
* `MQTTClient.h:381`: a failed read is held in an unsigned short and leaves the client
  connected and out of step with the stream; line 362 says a failure ends the connection.
* `MQTTClient.h:310`: after a partial write the whole length is asked for again.
* `MQTTClient.h:580`: `ping_outstanding` survives a reconnection, so the first keep-alive of
  the new session sends no ping.
* `MQTTClient.h:706`: the handler is installed after the SUBACK, so an earlier message is
  acknowledged and reaches no callback; see line 159.
* `MQTTClient.h:718`: with every handler slot taken, a granted QoS 1 is taken for an error
  code and the client is marked disconnected while its session lives on.
* `main.cpp:330`: the station publishes an output's value on the topic it takes commands from;
  the echo of an older value undoes a newer command; `README.md:4` promises "Realizar acciones
  desencadenadas por el usuario".
* `main.cpp:273`: with two DHTs in a file, one that fails publishes the last reading of the other,
  against `README.md:67` "donde se publica los datos de dicho sensor".
* `main.cpp:385`: a failed connection is never retried; `README.md:74` says it is, after 1
  second. `main.cpp:84`: a key missing from the file fails inside picojson before it is tested.
* `main.cpp:197`: an unknown sensor type blinks 0101, which the README does not list.

Kernel

* `rt_Mutex.c:177`: the caller is compared with the owner's *saved* priority, so a second
  waiter of lower priority lowers an owner that a first one had raised; line 175 says "Raise
  the owner task priority if lower than current priority". Found by TLC with three priorities.
* `rt_Task.c:248`: a terminated thread that owns a mutex, or is in a list when an interrupt
  signals it, leaves dangling entries (`rt_List.c:149`).
* `rt_CMSIS.c:882`: starting a running periodic timer keeps its old interval;
  `rt_CMSIS.c:554` ignores a failed `rt_get_TID`; `rt_CMSIS.c:1629` reports success for a
  message that `rt_mbx_psh` may drop; a request that finds the queue full is lost with an
  error; waits over 65.5 s are cut; deleting a mutex returns `osOK` to its waiters.

TCP and netconn

* `tcp_out.c:122`: the FIN on an unsent segment is not counted in `snd_lbb`; with the queue
  full no FIN can be queued.
* `api_lib.c:355`: data in the mailbox are lost to the reader after a fatal error.
* `tcp_in.c:1475`: two endpoints with closed windows answer each other's ACKs until an
  application reads. `tcp_in.c:737`: some ACKs that do not cover the FIN move LAST_ACK and
  FIN_WAIT_1 on.

DHCP, ARP, resolver, interface

* `dhcp.c:950`: the times are rounded to minutes, so that a T2 shortly before the end of a lease
  becomes its end. `dhcp.c:1590`: an ACK while renewing or rebinding keeps the old times, also
  when it is for a shorter lease. Either way an address is used after its lease.
* `dhcp.c:465`: stale timers fire in REQUESTING; `dhcp.c:342`: a timer of 0 goes on from 65535;
  `dhcp.c:1188`: the RELEASE goes to a zeroed server address.
* A link that goes down in CHECKING, or REBOOTING, binds an address unchecked, against
  `etharp.c:796` "We do not want to take a duplicate IP address on a single network". Two lost
  answers defeat the check.
* An interface that is down keeps its address and answers ARP (`etharp.c:729`); entries of an
  old network stay for twenty minutes.
* `EthernetInterface.cpp:108`: tokens of `netif_up` add up, so a later `connect` returns 0
  without an address; after a reconnection no callback comes and it returns -1.
* `dns.c:697`: a TTL of 0 never expires; `dns.c:877`: the age of entries is a difference of
  bytes; `dns.c:787`: a late answer to another question ends a lookup with an error.

Driver

* `lpc17_emac.c:629`: two threads that send at once (`dhcp_start` and `dhcp_release` send from
  the application) take the same descriptors.
* `lpc17_emac.c:541`: room is measured by what the EMAC has sent, not by what `packet_tx` has
  freed. When the cleanup task is a ring behind, a packet's descriptor is reused, one buffer
  leaks and another is freed before it was sent; line 636 says "The driver will free it once
  it's been transmitted".
* `lpc17_emac.c:714`: the handler clears the overrun and underrun bits before the threads look
  at them, so that their recovery runs only while the interrupt is disabled.
* `lpc17_emac.c:250`: without memory for every buffer at the start, descriptors without
  buffer are taken for received frames.

## 5. Proofs

| Module | Proved | For every |
|---|---|---|
| `AnemometerProofs` | `IndInv`, `EdgesHonoured`, `BouncesIgnored`, `RevolutionsConserved`, `ImplementsHoldOff` | modulus, hold-off and refresh period with `IgnoreTime + RefreshPeriod < Wrap` (`TimingAssumption`), number of edges |
| `RainGaugeProofs` | `IndInv`, `EdgesHonoured`, `NoTipReportedTwice` | the same |
| `MQTTClientProofs` | `IndInv`, `AnswerMatchesRequest`, `SubscriptionsHaveHandlers`, `ConnectedMeansAccepted`, `NothingUnackedWhenConnected` | set of topics and payloads, largest packet id, number of handlers, calls, links and packets under way (`ClientAssumption`) |
| `StationProofs` | `BaseInv`, `OutputNeedsCommand` | set of configuration files, topics (also such that begin alike) and payloads (also unterminated) (`StationAssumption`) |
| `EmacProofs` | `IndInv`, `RingIsFifo`, `BuffersOwned` | ring sizes from 2 and 3 descriptors, packet lengths, senders, buffers (`EmacAssumption`) |
| `RtxKernelProofs` | `IndInv`, `HighestRuns`, `QueuedOnce`, `NoLostWakeup`, `DelaysExact`, `TimersExact`, `MailboxIsFifo` | set of threads, semaphores, mutexes and timers, priorities, timeouts, flags, messages, size of the mailbox and of the request queue (`RtxAssumption`) |
| `NetBootProofs` | `IndInv`, `SentWhereClaimed`, `LookupsOwn`, `CallbackTargetsLive` | size of the ARP and resolver tables, number of name servers, retries and tries, ages, pools, terms, calls and faults, set of names that compare equal (`NetAssumption`) |

The first two begin with the arithmetic of wrapped subtraction: its type, that a tick adds one
to a difference that is below `Wrap - 1`, and that a refresh leaves exactly the hold-off.

**Anemometer.** `EdgesHonoured` and `BouncesIgnored` relate true time to wrapped readings
and are not inductive, because nothing in them keeps the stored time from growing a whole
wrap old. `IndInv` adds `StampRecent` (the stored time is at most `IgnoreTime + lag` old, and
the refresh sets `lag` back before that can reach `Wrap`) and `StampTrue` (it is the last
counted edge or a time a refresh moved it to, after the hold-off was over). From it follow
`EdgesHonouredHolds`, `BouncesIgnoredHolds` and, step by step, `ImplementsHoldOffHolds`;
`RevolutionsConservedHolds` is inductive with the types.

**Rain gauge.** With the refresh in pieces `StampTrue` fails
(`DebouncedFallingEdgeCounter.cpp:98` in section 4); what is left is `StampNotYounger`, which
is enough for `EdgesHonouredHolds`, with `NowRecent` for the time the refresh works with.
`SampledOnce` carries `NoTipReportedTwiceHolds`.

**MQTT client.** No property is inductive: that an answer belongs to the call that takes it
depends on everything under way in both directions. `IndInv` (in `MQTTClient`, and an
invariant of the run `mqtt_client`) is about one link on which every packet was read whole
(`intact`):

* `DownIsEmpty`, `CallShape`, `InStep`: a link that is down is empty, the place in a call tells
  the method and its request, and the reader is where the stream is.
* `OneAccept`: the server accepts one CONNECT per link, and before that it only refuses.
  Hence the client gets connected at most once on a link.
* `WhileWrong`: a client that is connected on a link nobody accepted (`Wrong`), because the link
  was opened under it, is told nothing: the server closes at the first thing it sends. Only a
  `Reopen` leads there, which is what `ConnectedMeansAccepted` says of every step.
* `BeforeConnected`: while it may still get connected (`Hope`), all it can have asked for is
  the kept publish that `connect` resends, with at most one answer to come (`OneAnswer`). A
  request behind a second CONNECT is `Doomed`: the server closes the link at the CONNECT.
  `BehindConnect` makes a second resend come behind a second CONNECT.
* `WhileConnected`: no CONNACK is left (`Spent`), what is asked or answered belongs to the
  call under way, between calls nothing does (`Quiet`), and a granted topic has a handler, or
  a grant of QoS 0 with a full table, or its SUBACK is on the way to the call that waits for it.

Without `Hope` and not connected is final for a link: a call that gave up waiting clears
`isconnected`, so no late answer meets another call. The proof sorts the steps by what they
do to requests and answers. Those of the client ask (`AskingSend`), take a packet off the
stream (`TakePacket`), open a link (`Reopen`) or do none of that (`Frame`); those of the
server answer nothing (`PlainStep`), a request (`AnswerStep`) or a CONNECT (`ConnectStep`), or
lose the link. One lemma per class and part of the invariant follows.

**Station.** Every step of `Station` is one of the client, one of the server, the opening of
the link, a publish of `updateSensorData` or none (`StepKinds`), so the lemmas of
`MQTTClientProofs` on types, `CallShape`, `DownIsEmpty` and `InStep` carry over; `BaseInv` adds
the state of `main()`, that nothing moves before the link is open (`Booting`), and that the
client's own `publish` is not used. `StationAssumption` says what a file holds and that
`Payloads` has every text that the station and its users send.

* `OutputsCommanded`: `Flow` is the inductive part. Take any set of topics that holds the topics
  on which a message that reads as 1 came from outside (`Sources`) and that is `Closed` under
  what `messageArrived` takes one topic for. Then a packet that may read as 1, under way, kept
  by the server or in `readbuf`, has a topic in the set, and so has every output that is on: the
  station's echo of an output only repeats it.

`BaseInv` and `Flow` were checked with TLC on the instance of `station` before they were proved.

**Kernel.** `RtxCallProofs` has the invariant and the calls of threads, `RtxKernelProofs` the
interrupts, the steps and the theorems. Each property needs the others: a thread in two lists
could be woken twice, one that is ready and in no list never runs. `IndInv` has four parts.

* `Sound`: the ready list and the lists of the objects hold who their states say, once
  (`Chained`), the ready list in the order of priorities, none above the running thread
  (`Top`); the delay list holds threads that wait, once; nobody waits for what is there
  (`Wakeups`); a mutex belongs to a thread that lasts (`Kept`).
* `RoomForRequests`: a message that an interrupt has posted finds room when PendSV comes to
  it, although one call may take effect in between (`late`) and that call may fill the mailbox:
  then no thread waits to send.
* `Dates`: thread `t` is `Due` in `n` ticks just when `due[t] = n`, where the time of an entry
  is the sum of the differences up to it.
* `Expiries`: the same for the timers, in a list in which several may expire in one tick and
  periodic ones go back into it while the others are dealt with.

A call goes through states in which the invariant does not hold: the caller is taken from the
processor, in no list yet, or a thread is out of one list and not in the next. `Fit(s, X, r)`
says that the lists are right while `r` runs, or nobody, and the threads of `X` are in between.
Each operation of `RtxSched` has a lemma that says which threads it moves (`ReleaseFit`,
`TakeFit`, `UnchainFit`, `ParkFit`, `DispatchFit`), and what becomes of the rest is `Eased`:
threads become ready and nothing else happens to them. `Serves` is what a call leaves behind;
there is one lemma per call, `MutReleaseServes` being the longest, because the owner's
priority, the order of the lists, the mutex and two threads change in it.

`rt_dec_dly`, `sysTimerTick`, PendSV and the deletion of an object walk along a list. In the
model these are recursive functions over positions; that they exist, and that each step keeps
what the last one left, follows from the least position where it would not (`WalkExists`,
`StepByStep`), and that differences add up from the same argument on prefixes (`SumExists`,
`DueAtSums`), so no induction over data is needed.

`MailboxImplements` adds to `IndInv` that the ring's `first` is `count` places behind `last`
(`Ring`), which makes the entry `Slot(last, j - 1)` the message `j`. Every step leaves the
mailbox alone, puts messages behind those that are there (`Fed`), or does so after taking the
oldest one (`Fetched`); `Mails` says so of a step of the kernel, and goes through the lemmas of
the calls, of PendSV and of the ticks together with the invariant. PendSV may put several in,
one per request, and `FedTrans` puts them together. That a request finds no sender waiting is
`RoomForRequests`: otherwise `rt_mbx_psh` would store the sender's message in a full ring.

`RtxAssumption` says what the instance must give: names that differ, at least one thread, room
for at least one message, timeouts up to `Forever`. Its last part is about the programs: a
thread that others may terminate locks no mutex and gets no signal from an interrupt while it
waits for one. `rt_tsk_delete` cleans up neither (`rt_Task.c:248` in section 4). The run
satisfies it, and TLC evaluates it. `IndInv` was checked with TLC on the instance of
`rtx_kernel` before it was proved.

**Ethernet driver.** The indices of a ring wrap, so the proof looks at the transmit ring from
`lpc_last_tx_idx`: at places counted from there, what is unreclaimed is a range that starts at
0 and ends at `Filled`, and what is sent and not reclaimed the part below `Taken`. Filling
moves the one end, the EMAC the border, reclaiming the start. `TxFifo` says what is between
the ends, `TxHeld` and `TxEnds` which packet is freed with which descriptor, `TxNamed` that
the name of a packet is not in the ring when it is given again, `CleanerBehind` that
`packet_tx` works with an index the EMAC has passed. As the properties do, the invariant
claims this only until a packet was given descriptors in use (`clashed`). `RxInv` says that a
receive buffer is in one place: a descriptor, the receiver, the stack above or the heap.
`IndInv` was checked with TLC on a ring of five descriptors before it was proved.

**Network.** None of the three is inductive. A frame goes where an ARP entry says, so
`SentWhereClaimed` needs `EntryOK`: a stable entry holds what the host of its address said (for
the router's address, the router of this network or of the one before: `MacsOf`), and
a packet waits only in the entry of a hop it may take (`MayWait`: an interface without a mask
takes every address for local, so a packet may wait under its own address although the router
is its hop). That no address has two entries (`OneEntry`) is what lets `find_entry` take the
first. `HeardOK` and `AnswerOK` say of the frames on the wire that hosts and name servers tell
the truth. `Live` is the part about the resolver: an open question has the name the call
awaits, there is at most one, and it has not called; answers that are kept are those of names
that pass for theirs (`Passing`), whatever relation `SameStart` is. Most
operators of the stack leave the resolver's table alone, so a lemma for each says that the
stack stays `Good` (types, table, frames) and the table as it was (`Kept`); `dns_recv`,
`dns_check_entry` and `dns_gethostbyname` have lemmas about `Live`.

`NetAssumption` says that the router is the host `dhcp_bind` takes for the gateway, that hosts
have different hardware addresses, and that a server does not give away the router's address.
The DHCP client needs no invariant of its own here: whatever it sends, and whenever it changes
the interface's address, the entries stay true. `dns_check_entries` walks the table with a
recursive function; that such a walk exists and keeps `Fine` follows from the least place where
it would not (`WalkExists`, `CheckEntriesFine`), which needs no induction. `IndInv` was checked
with TLC on the instance of `netboot` before it was proved.

What stays with TLC:

* liveness, and refinements whose abstract specification is fair;
* `TimedWaitsEnd` and `RobinShares` of `RtxKernel`, which need fairness;
* `TcpLink`: `tcp_output` and the accounts of queues are folds over lists, and the prover has
  no induction over data;
* `OneOwner` and `KeptAddressIsLeased` of `NetBoot`: they hold because faults are few and
  timers slow (section 3), not for every value of the constants.

## 6. Not modelled, and the plan

Not modelled, and why:

* kernel: memory pools and mail queues, interval waits, suspend and resume, receiving in an
  interrupt: nothing in the program uses them;
* TCP: failed allocations, keep-alive, round trip estimates, urgent data, half shutdown,
  `tcp_kill_prio`, port allocation; netconn: UDP and raw connections, select events; the
  socket layer `sockets.c` above it;
* DHCP: `dhcp_inform`, bytes of options; ARP: multicast and static entries; IP: fragments,
  forwarding, options, checksums; a fixed address;
* driver: recovery from fatal errors of the bus, the PHY;
* `pbuf.c`, `mem.c`, `memp.c`: the heap is a set of buffers where a property depends on it;
* PPP, SNMP, AutoIP and IPv6 are compiled out; IGMP is compiled in and no group is joined;
* wind vane, DHT, SRF05: bit protocols and tables; mbed is headers of a binary library;
  picojson, ConfigFile, Websocket and `MQTTAsync.h` are third-party or unused;
* floating-point factors and the lengths of time-outs.

Plan:

1. Proofs: the accounts of `TcpLink` (`AckedIsKept`, `QueuesHoldTheRest`), with its folds as
   recursive functions like those of `RtxSched`.
2. `KeepAlive`: keep-alive in time, with the lengths of time-outs and the
   server's one and a half intervals.
3. `TopicMatch` (`isTopicMatched` against a reference definition) and `PacketCodec`
   (`MQTTPacket_encode`, `_decode`, `_len`).
4. `DHT`, `SRF05`, `WindVane`: the bit protocol and its checksum, the echo interrupts, the
   table.
