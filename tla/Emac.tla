-------------------------------- MODULE Emac --------------------------------
(***************************************************************************)
(* The Ethernet driver, lpc17_emac.c: threads of the stack that send, the  *)
(* thread that frees what was sent, the thread that receives, the          *)
(* interrupt, and the EMAC, which works on two rings of descriptors.       *)
(* Threads have one priority and share the processor, so their steps       *)
(* interleave; the interrupt runs before the next step of a thread, and    *)
(* the EMAC runs at any time.  Fatal overruns and underruns of the bus are *)
(* left out.                                                               *)
(***************************************************************************)
EXTENDS Integers, Sequences, FiniteSets, FiniteSetsExt

CONSTANTS
    LPC_NUM_BUFF_TXDESCS, LPC_NUM_BUFF_RXDESCS,
    Clens,      \* descriptors that a packet to send may need (pbuf_clen)
    TokenMax,   \* osFeature_Semaphore
    MaxCleans,  \* bound: wakeups that TxCleanSem remembers
    RxBufs,     \* buffers for received frames that fit in the heap, 1 .. n
    Scenarios   \* records: per sending thread how many packets it sends (calls),
                \* and how many frames arrive (frames)

N == LPC_NUM_BUFF_TXDESCS
R == LPC_NUM_BUFF_RXDESCS
NULL == 0

\* Every thread that sends in some scenario.
Senders == UNION {DOMAIN c.calls : c \in Scenarios}

\* A number of calls or frames: again and again, or a budget.
Always == 99
Less(n) == IF n = Always THEN n ELSE n - 1

Descs(size) == 0 .. size - 1

ASSUME EmacAssumption ==
    /\ N \in Nat /\ N >= 2 /\ R \in Nat /\ R >= 3
    /\ Clens \subseteq 1 .. N - 1
    /\ TokenMax \in Nat /\ TokenMax >= N /\ MaxCleans \in Nat \ {0}
    /\ RxBufs \in SUBSET (Nat \ {0}) /\ 1 .. R + 1 \subseteq RxBufs
    /\ \A c \in Scenarios : c \in [calls : [DOMAIN c.calls -> Nat], frames : Nat]

VARIABLES
    scene,      \* the scenario: what is left of its calls and frames
    tx,         \* TxProduceIndex, TxConsumeIndex and lpc_last_tx_idx
    ptxd, txb,  \* transmit descriptors and the packets to free with them
    sender,     \* per sending thread: its place in lpc_low_level_output
    cleaner,    \* packet_tx: its place and the cidx it works with
    tokens,     \* xTXDCountSem
    cleans,     \* TxCleanSem
    held,       \* packets on which the driver has a reference
    rx,         \* RxProduceIndex, RxConsumeIndex, rx_fill_desc_index, rx_free_descs
    rxb, prxs,  \* receive buffers and what was received into them
    receiver,   \* packet_rx: its place and buffer
    signal,     \* RX_SIGNAL of that thread
    upper,      \* buffers with received frames that the stack has
    ints,       \* IntStatus
    isr,        \* the interrupts that a running ENET_IRQHandler has read
    irq,        \* the interrupt is enabled
    sending,    \* descriptors handed over and not sent (not in the code)
    clashed     \* a packet took descriptors still in use (not in the code)

ring == <<tx, ptxd, txb, held, sending, clashed>>
txvars == <<ring, sender, cleaner, tokens, cleans>>
rxvars == <<rx, rxb, prxs, receiver, signal, upper>>
intvars == <<ints, isr, irq>>
vars == <<scene, txvars, rxvars, intvars>>

Step(i, size) == IF i + 1 >= size THEN 0 ELSE i + 1
Distance(from, to, size) == (to - from) % size

\* Descriptors between TxConsumeIndex and TxProduceIndex, oldest first.
InFlight ==
    [n \in 1 .. Distance(tx.consume, tx.produce, N) |-> ptxd[(tx.consume + n - 1) % N]]

\* A thread takes a step when no interrupt is served or waits to be.
ThreadsRun == isr = {} /\ ~ (irq /\ ints # {})

-----------------------------------------------------------------------------
(***************************************************************************)
(* Sending.                                                                *)
(***************************************************************************)

lpc_tx_ready(cidx, idx) ==
    CASE idx = cidx -> N
      [] cidx > idx -> (N - 1) - ((idx + N) - cidx)
      [] OTHER -> (N - 1) - (cidx - idx)

\* lpc_low_level_output is called.  A packet that is not in DMA memory is
\* copied and needs one descriptor; without memory for the copy the call
\* returns ERR_MEM and nothing has changed.
Output(s, dn) ==
    /\ ThreadsRun /\ sender[s].pc = "idle" /\ scene.calls[s] > 0
    /\ scene' = [scene EXCEPT !.calls[s] = Less(@)]
    /\ sender' = [sender EXCEPT ![s].pc = "ready", ![s].dn = dn]
    /\ UNCHANGED <<ring, cleaner, tokens, cleans, rxvars, intvars>>

\* The first half of lpc_tx_ready.
ReadConsumeIndex(s) ==
    /\ ThreadsRun /\ sender[s].pc = "ready"
    /\ sender' = [sender EXCEPT ![s].pc = "room", ![s].idx = tx.consume]
    /\ UNCHANGED <<scene, ring, cleaner, tokens, cleans, rxvars, intvars>>

Room(s) ==
    /\ ThreadsRun /\ sender[s].pc = "room"
    /\ sender' = [sender EXCEPT ![s].pc =
           IF sender[s].dn > lpc_tx_ready(sender[s].idx, tx.produce) THEN "wait" ELSE "index"]
    /\ UNCHANGED <<scene, ring, cleaner, tokens, cleans, rxvars, intvars>>

\* osSemaphoreWait on xTXDCountSem.
WaitForToken(s) ==
    /\ ThreadsRun /\ sender[s].pc = "wait" /\ tokens > 0
    /\ tokens' = tokens - 1
    /\ sender' = [sender EXCEPT ![s].pc = "ready"]
    /\ UNCHANGED <<scene, ring, cleaner, cleans, rxvars, intvars>>

\* The index is read before TXLockMutex is taken.
TakeIndex(s) ==
    /\ ThreadsRun /\ sender[s].pc = "index"
    /\ sender' = [sender EXCEPT ![s].pc = "fill", ![s].idx = tx.produce]
    /\ UNCHANGED <<scene, ring, cleaner, tokens, cleans, rxvars, intvars>>

\* Mutant: one descriptor per packet, not one per part of it.
AdvanceOnce(idx, dn) == Step(idx, N)

\* The index behind dn descriptors, which wraps at the end of the ring.
Advance(idx, dn) == (idx + dn) % N

\* With TXLockMutex, which only the cleaner holds for more than a step: the
\* descriptors are set, and only the last one has the packet to free.  The
\* EMAC sees them when TxProduceIndex is written.  A packet is named by its
\* first descriptor and one of two laps.
Fill(s) ==
    LET dn == sender[s].dn
        p == Min({sender[s].idx + 1, sender[s].idx + 1 + N} \ held)
        Slot(n) == (sender[s].idx + n - 1) % N
        desc == [n \in 1 .. dn |-> <<p, n = dn>>]
        At(i) == CHOOSE n \in 1 .. dn : Slot(n) = i
        mine == {Slot(n) : n \in 1 .. dn}
    IN  /\ ThreadsRun /\ sender[s].pc = "fill" /\ cleaner.pc # "reclaim"
        /\ ptxd' = [i \in Descs(N) |-> IF i \in mine THEN desc[At(i)] ELSE ptxd[i]]
        /\ txb' = [i \in Descs(N) |->
               IF i \notin mine THEN txb[i]
               ELSE IF At(i) = dn THEN p ELSE NULL]
        /\ tx' = [tx EXCEPT !.produce = Advance(sender[s].idx, dn)]
        /\ held' = held \cup {p}
        /\ clashed' = (\/ clashed
                       \/ sender[s].idx # tx.produce
                       \/ Distance(tx.last, tx.produce, N) + dn > N - 1)
        /\ sending' = sending \o desc
        /\ sender' = [sender EXCEPT ![s] = [pc |-> "idle", dn |-> 0, idx |-> 0]]
        /\ UNCHANGED <<scene, cleaner, tokens, cleans, rxvars, intvars>>

\* The EMAC (external) sends a descriptor and raises TX_DONE.  What the
\* descriptor holds is not used again.
HwSend ==
    /\ tx.consume # tx.produce
    /\ tx' = [tx EXCEPT !.consume = Step(@, N)]
    /\ ptxd' = [ptxd EXCEPT ![tx.consume] = <<NULL, FALSE>>]
    /\ ints' = ints \cup {"tx"}
    /\ sending' = Tail(sending)
    /\ UNCHANGED <<scene, txb, sender, cleaner, tokens, cleans, held, clashed,
                   rxvars, isr, irq>>

-----------------------------------------------------------------------------
(***************************************************************************)
(* packet_tx, the transmit cleanup task.                                   *)
(***************************************************************************)

CleanerWakes ==
    /\ ThreadsRun /\ cleaner.pc = "wait" /\ cleans > 0
    /\ cleans' = cleans - 1
    /\ cleaner' = [cleaner EXCEPT !.pc = "read"]
    /\ UNCHANGED <<scene, ring, sender, tokens, rxvars, intvars>>

\* Mutant: what was handed over is reclaimed, sent or not.
ReclaimAll ==
    /\ ThreadsRun /\ cleaner.pc = "read"
    /\ cleaner' = [pc |-> "reclaim", cidx |-> tx.produce]
    /\ UNCHANGED <<scene, ring, sender, tokens, cleans, rxvars, intvars>>

\* lpc_tx_reclaim reads TxConsumeIndex and lpc_tx_reclaim_st takes the mutex.
lpc_tx_reclaim ==
    /\ ThreadsRun /\ cleaner.pc = "read"
    /\ cleaner' = [pc |-> "reclaim", cidx |-> tx.consume]
    /\ UNCHANGED <<scene, ring, sender, tokens, cleans, rxvars, intvars>>

\* One turn of the loop of lpc_tx_reclaim_st, and its end.
lpc_tx_reclaim_st ==
    /\ ThreadsRun /\ cleaner.pc = "reclaim" /\ cleaner.cidx # tx.last
    /\ held' = held \ {txb[tx.last]}
    /\ txb' = [txb EXCEPT ![tx.last] = NULL]
    /\ tokens' = IF tokens = TokenMax THEN tokens ELSE tokens + 1
    /\ tx' = [tx EXCEPT !.last = Step(@, N)]
    /\ UNCHANGED <<scene, ptxd, sender, cleaner, cleans, sending, clashed, rxvars, intvars>>

ReclaimDone ==
    /\ ThreadsRun /\ cleaner.pc = "reclaim" /\ cleaner.cidx = tx.last
    /\ cleaner' = [pc |-> "wait", cidx |-> 0]
    /\ UNCHANGED <<scene, ring, sender, tokens, cleans, rxvars, intvars>>

-----------------------------------------------------------------------------
(***************************************************************************)
(* Receiving.                                                              *)
(***************************************************************************)

\* The EMAC (external) receives a good frame or a damaged one.  With the ring
\* full the frame is lost.
HwReceive(kind) ==
    /\ scene.frames > 0 /\ Step(rx.produce, R) # rx.consume
    /\ scene' = [scene EXCEPT !.frames = Less(@)]
    /\ prxs' = [prxs EXCEPT ![rx.produce] = kind]
    /\ rx' = [rx EXCEPT !.produce = Step(@, R)]
    /\ ints' = ints \cup {"rx"}
    /\ UNCHANGED <<txvars, rxb, receiver, signal, upper, isr, irq>>

\* The registers and the list of buffers after a buffer was queued.
lpc_rxqueue_pbuf(r, p) ==
    /\ rxb' = [rxb EXCEPT ![r.fill] = p]
    /\ prxs' = [prxs EXCEPT ![r.fill] = "none"]
    /\ rx' = [r EXCEPT !.free = @ - 1, !.fill = Step(@, R), !.consume = Step(r.fill, R)]

ReceiverWakes ==
    /\ ThreadsRun /\ receiver.pc = "wait" /\ signal
    /\ signal' = FALSE
    /\ receiver' = [receiver EXCEPT !.pc = "loop"]
    /\ UNCHANGED <<scene, txvars, rx, rxb, prxs, upper, intvars>>

RingEmpty ==
    /\ ThreadsRun /\ receiver.pc = "loop" /\ rx.consume = rx.produce
    /\ receiver' = [receiver EXCEPT !.pc = "wait"]
    /\ UNCHANGED <<scene, txvars, rx, rxb, prxs, signal, upper, intvars>>

\* lpc_low_level_input with a frame that has errors: its buffer is queued again.
DropDamaged ==
    /\ ThreadsRun /\ receiver.pc = "loop" /\ rx.consume # rx.produce
    /\ prxs[rx.consume] = "bad"
    /\ lpc_rxqueue_pbuf([rx EXCEPT !.free = @ + 1], rxb[rx.consume])
    /\ UNCHANGED <<scene, txvars, receiver, signal, upper, intvars>>

\* The buffer of a good frame is taken from its descriptor.
TakeBuffer ==
    /\ ThreadsRun /\ receiver.pc = "loop" /\ rx.consume # rx.produce
    /\ prxs[rx.consume] # "bad"
    /\ receiver' = [pc |-> "queue", p |-> rxb[rx.consume]]
    /\ rxb' = [rxb EXCEPT ![rx.consume] = NULL]
    /\ rx' = [rx EXCEPT !.free = @ + 1]
    /\ UNCHANGED <<scene, txvars, prxs, signal, upper, intvars>>

FreeBufs == RxBufs \ (upper \cup {receiver.p} \cup {rxb[i] : i \in Descs(R)})

\* lpc_rx_queue: a new buffer takes its place (mem_malloc gives the lowest).
lpc_rx_queue ==
    /\ ThreadsRun /\ receiver.pc = "queue" /\ rx.free > 0 /\ FreeBufs # {}
    /\ lpc_rxqueue_pbuf(rx, Min(FreeBufs))
    /\ receiver' = [receiver EXCEPT !.pc = "input"]
    /\ UNCHANGED <<scene, txvars, signal, upper, intvars>>

\* No memory, which others use too: the frame is dropped and its buffer
\* queued again.
DropForMemory ==
    /\ ThreadsRun /\ receiver.pc = "queue"
    /\ lpc_rxqueue_pbuf(rx, receiver.p)
    /\ receiver' = [pc |-> "loop", p |-> NULL]
    /\ UNCHANGED <<scene, txvars, signal, upper, intvars>>

\* lpc_enetif_input: tcpip_input takes the frame; or its mailbox is full, or
\* the frame is of another type than IP and ARP, and the buffer is freed.
lpc_enetif_input ==
    /\ ThreadsRun /\ receiver.pc = "input"
    /\ upper' \in {upper, upper \cup {receiver.p}}
    /\ receiver' = [pc |-> "loop", p |-> NULL]
    /\ UNCHANGED <<scene, txvars, rx, rxb, prxs, signal, intvars>>

\* The stack frees a buffer.
StackFrees(p) ==
    /\ ThreadsRun /\ p \in upper
    /\ upper' = upper \ {p}
    /\ UNCHANGED <<scene, txvars, rx, rxb, prxs, receiver, signal, intvars>>

-----------------------------------------------------------------------------
(***************************************************************************)
(* The interrupt.  What the EMAC raises between the two halves is cleared  *)
(* with what was read, if it is of the same kind.                          *)
(***************************************************************************)

ENET_IRQHandler ==
    /\ irq /\ isr = {} /\ ints # {}
    /\ isr' = ints
    /\ signal' = (signal \/ "rx" \in ints)
    /\ cleans' = IF "tx" \in ints /\ cleans < MaxCleans THEN cleans + 1 ELSE cleans
    /\ UNCHANGED <<scene, ring, sender, cleaner, tokens, rx, rxb, prxs,
                   receiver, upper, ints, irq>>

\* Mutant: every interrupt is cleared, not only those that were read.
ClearAll ==
    /\ isr # {}
    /\ ints' = {}
    /\ isr' = {}
    /\ UNCHANGED <<scene, txvars, rxvars, irq>>

IntClear ==
    /\ isr # {}
    /\ ints' = ints \ isr
    /\ isr' = {}
    /\ UNCHANGED <<scene, txvars, rxvars, irq>>

\* Called by EthernetInterface::connect and ::disconnect.
eth_arch_enable_interrupts ==
    /\ ThreadsRun /\ ~ irq
    /\ irq' = TRUE
    /\ UNCHANGED <<scene, txvars, rxvars, ints, isr>>

eth_arch_disable_interrupts ==
    /\ ThreadsRun /\ irq
    /\ irq' = FALSE
    /\ UNCHANGED <<scene, txvars, rxvars, ints, isr>>

-----------------------------------------------------------------------------
lpc_tx_setup ==
    /\ tx = [produce |-> 0, consume |-> 0, last |-> 0]
    /\ ptxd = [i \in Descs(N) |-> <<NULL, FALSE>>]
    /\ txb = [i \in Descs(N) |-> NULL]

\* There is memory for every buffer, so that RxConsumeIndex is back at 0.
lpc_rx_setup ==
    /\ rx = [produce |-> 0, consume |-> 0, fill |-> 0, free |-> 0]
    /\ rxb = [i \in Descs(R) |-> i + 1]
    /\ prxs = [i \in Descs(R) |-> "none"]

\* low_level_init has cleared every interrupt.
NoInterrupts == ints = {} /\ isr = {} /\ irq = FALSE

\* eth_arch_enetif_init: xTXDCountSem starts with a token per descriptor.
Init ==
    /\ scene \in Scenarios
    /\ lpc_tx_setup /\ lpc_rx_setup /\ NoInterrupts
    /\ sender = [s \in Senders |-> [pc |-> "idle", dn |-> 0, idx |-> 0]]
    /\ cleaner = [pc |-> "wait", cidx |-> 0]
    /\ tokens = N /\ cleans = 0
    /\ held = {} /\ sending = <<>> /\ clashed = FALSE
    /\ receiver = [pc |-> "wait", p |-> NULL]
    /\ signal = FALSE /\ upper = {}

\* A call of lpc_low_level_output goes on.
SenderGoesOn(s) ==
    ReadConsumeIndex(s) \/ Room(s) \/ WaitForToken(s) \/ TakeIndex(s) \/ Fill(s)

packet_tx == CleanerWakes \/ lpc_tx_reclaim \/ lpc_tx_reclaim_st \/ ReclaimDone

packet_rx ==
    \/ ReceiverWakes \/ RingEmpty \/ DropDamaged \/ TakeBuffer
    \/ lpc_rx_queue \/ DropForMemory \/ lpc_enetif_input

\* Descriptors that were in use are lost or sent twice and buffers freed too
\* early: the transmit side is followed until the first time.
Transmit ==
    /\ ~ clashed
    /\ \/ \E s \in DOMAIN scene.calls : SenderGoesOn(s) \/ \E dn \in Clens : Output(s, dn)
       \/ packet_tx \/ HwSend

Receive ==
    \/ packet_rx
    \/ \E kind \in {"good", "bad"} : HwReceive(kind)
    \/ \E p \in upper : StackFrees(p)

Next ==
    \/ Transmit \/ Receive
    \/ ENET_IRQHandler \/ IntClear
    \/ eth_arch_enable_interrupts \/ eth_arch_disable_interrupts

Spec == Init /\ [][Next]_vars

\* The EMAC and the interrupt do their work.  Threads of one priority take
\* turns (round robin) and interrupt handlers are short: a thread that can
\* go on again and again does.
FairSpec ==
    /\ Spec
    /\ WF_vars(~ clashed /\ HwSend) /\ WF_vars(ENET_IRQHandler) /\ WF_vars(IntClear)
    /\ \A s \in Senders : SF_vars(~ clashed /\ SenderGoesOn(s))
    /\ SF_vars(~ clashed /\ packet_tx) /\ SF_vars(packet_rx)

-----------------------------------------------------------------------------
(***************************************************************************)
(* Properties.                                                             *)
(***************************************************************************)

\* What the EMAC finds between its two indices is what callers of
\* lpc_low_level_output handed over and it has not sent, in their order,
\* unless a packet was given descriptors that were in use.
RingIsFifo == ~ clashed => InFlight = sending

\* Memory the EMAC reads or writes belongs to the driver: a packet to be sent
\* is freed after it was sent, and with exactly one descriptor (transmit, as
\* above unless descriptors were in use); a descriptor open to received
\* frames has a buffer of its own that nobody else has, and none is lost.
BuffersOwned ==
    /\ ~ clashed =>
        /\ \A n \in DOMAIN sending : sending[n][1] \in held
        /\ \A p \in held : Cardinality({i \in Descs(N) : txb[i] = p}) = 1
    /\ \A i \in Descs(R) :
        LET queued == i # rx.consume \/ rx.free = 0
            others == upper \cup {receiver.p} \cup {rxb[j] : j \in Descs(R) \ {i}}
        IN  queued => rxb[i] # NULL /\ rxb[i] \notin others

\* While the interrupt stays enabled, calls that send return, descriptors that
\* were filled are reclaimed and received frames leave the ring: no interrupt
\* that is cleared, no token and no signal is missed.
DriverGoesOn ==
    /\ \A s \in Senders :
           sender[s].pc # "idle" ~> (sender[s].pc = "idle" \/ clashed \/ ~ irq)
    /\ []<>(tx.last = tx.produce \/ clashed \/ ~ irq) \/ []<><<tx'.last # tx.last>>_vars
    /\ []<>(rx.consume = rx.produce \/ ~ irq) \/ []<><<rx'.consume # rx.consume>>_vars

\* "THIS WILL BLOCK UNTIL THERE ARE ENOUGH DESCRIPTORS AVAILABLE"
\* (lpc17_emac.c:620): a packet is never put into descriptors in use.
BlocksUntilRoom == ~ clashed
=============================================================================
