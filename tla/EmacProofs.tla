----------------------------- MODULE EmacProofs -----------------------------
(***************************************************************************)
(* The rings of the Ethernet driver, proved for every number of            *)
(* descriptors, every length of a packet, every set of sending threads and *)
(* every number of buffers: what the EMAC finds in the transmit ring is    *)
(* what was given to it (RingIsFifo) and nobody frees or gives away memory *)
(* that it works on (BuffersOwned).                                        *)
(*                                                                         *)
(* The indices of a ring wrap, so the proof looks at the transmit ring     *)
(* from lpc_last_tx_idx: the descriptors that are in use are then a range  *)
(* of positions that starts at 0, and sending, transmission and reclaiming *)
(* move its ends.  The invariant says nothing after a packet was given     *)
(* descriptors in use (clashed), as the properties do.                     *)
(***************************************************************************)
EXTENDS Emac, FiniteSetTheorems, WellFoundedInduction, TLAPS

\* The descriptor k places behind i, and how many places j is behind i.
Behind(i, k) == IF i + k < N THEN i + k ELSE i + k - N
Off(i, j) == IF j >= i THEN j - i ELSE j - i + N

\* What is left of a queue when its first entry is taken.
LEMMA TailFacts ==
    ASSUME NEW S, NEW s \in Seq(S), s # <<>>
    PROVE  /\ Tail(s) \in Seq(S)
           /\ Len(s) \in Nat \ {0} /\ Len(Tail(s)) = Len(s) - 1
           /\ \A k \in 1 .. Len(s) - 1 : Tail(s)[k] = s[k + 1]
  OBVIOUS

\* A queue behind which another one is put.
LEMMA ConcatFacts ==
    ASSUME NEW S, NEW s \in Seq(S), NEW t \in Seq(S)
    PROVE  /\ s \o t \in Seq(S)
           /\ Len(s \o t) = Len(s) + Len(t)
           /\ \A k \in 1 .. Len(s) : (s \o t)[k] = s[k]
           /\ \A k \in 1 .. Len(t) : (s \o t)[Len(s) + k] = t[k]
  OBVIOUS

\* The remainders of the model, as differences: going forward ...
LEMMA Wrapped ==
    ASSUME NEW i \in Descs(N), NEW k \in 0 .. N
    PROVE  (i + k) % N = Behind(i, k)
<1>1. CASE i + k < N
  BY <1>1, EmacAssumption DEF Descs, Behind
<1>2. CASE i + k >= N
  <2>1. PICK m \in 0 .. N - 1 : i + k = m + N
    <3>1. i + k - N \in 0 .. N - 1 /\ i + k = (i + k - N) + N
      BY <1>2, EmacAssumption DEF Descs
    <3> QED BY <3>1
  <2>2. (m + N) % N = m
    BY EmacAssumption
  <2>3. Behind(i, k) = m
    BY <1>2, <2>1, EmacAssumption DEF Descs, Behind
  <2> QED BY <2>1, <2>2, <2>3
<1> QED BY <1>1, <1>2, EmacAssumption DEF Descs

\* ... and the distance of two indices.
LEMMA WrappedDistance ==
    ASSUME NEW i \in Descs(N), NEW j \in Descs(N)
    PROVE  Distance(i, j, N) = Off(i, j)
  BY EmacAssumption DEF Descs, Off, Distance

\* One step forward, as the EMAC and lpc_tx_reclaim_st take it.
LEMMA StepBehind ==
    ASSUME NEW i \in Descs(N)
    PROVE  Step(i, N) = Behind(i, 1) /\ Step(i, N) \in Descs(N)
  BY EmacAssumption DEF Descs, Behind, Step

\* Going round the ring.
LEMMA Round ==
    ASSUME NEW i \in Descs(N), NEW k \in 0 .. N - 1
    PROVE  /\ Behind(i, k) \in Descs(N)
           /\ Off(i, Behind(i, k)) = k
           /\ k < N - 1 => Behind(Behind(i, 1), k) = Behind(i, k + 1)
           /\ Behind(Behind(i, 1), N - 1) = i
           /\ \A n \in 0 .. N - 1 - k : Behind(Behind(i, k), n) = Behind(i, k + n)
  BY EmacAssumption DEF Descs, Behind, Off

\* Distances from a common start subtract.
LEMMA Between ==
    ASSUME NEW i \in Descs(N), NEW j \in Descs(N), NEW k \in Descs(N), Off(i, j) <= Off(i, k)
    PROVE  Off(j, k) = Off(i, k) - Off(i, j)
  BY EmacAssumption DEF Descs, Off

\* Moving the start forward by one makes the distance one less.
LEMMA Nearer ==
    ASSUME NEW i \in Descs(N), NEW j \in Descs(N), Off(i, j) > 0
    PROVE  Off(Behind(i, 1), j) = Off(i, j) - 1
  BY EmacAssumption DEF Descs, Off, Behind

\* No place behind a descriptor is the descriptor.
LEMMA Here ==
    ASSUME NEW i \in Descs(N)
    PROVE  Behind(i, 0) = i
  BY EmacAssumption DEF Descs, Behind

\* Every descriptor is reached from every other one.
LEMMA Back ==
    ASSUME NEW i \in Descs(N), NEW j \in Descs(N)
    PROVE  Off(i, j) \in 0 .. N - 1 /\ Behind(i, Off(i, j)) = j
  BY EmacAssumption DEF Descs, Behind, Off
-----------------------------------------------------------------------------
(***************************************************************************)
(* Receiving.                                                              *)
(***************************************************************************)
\* The registers of the receive ring and the places of packet_rx.
RxRegisters ==
    /\ rx \in [produce : Descs(R), consume : Descs(R), fill : Descs(R), free : {0, 1}]
    /\ receiver \in [pc : {"wait", "loop", "queue", "input"}, p : RxBufs \cup {NULL}]
    /\ rx.fill = rx.consume
    /\ rx.free = 1 <=> receiver.pc = "queue"
    /\ receiver.p = NULL <=> receiver.pc \in {"wait", "loop"}

\* Only the descriptor whose buffer packet_rx has taken has none.
RxBuffers ==
    /\ rxb \in [Descs(R) -> RxBufs \cup {NULL}]
    /\ \A j \in Descs(R) : rxb[j] = NULL <=> j = rx.consume /\ rx.free = 1

\* A buffer is in one place.
RxOnce ==
    /\ \A j, k \in Descs(R) : rxb[j] # NULL /\ rxb[j] = rxb[k] => j = k
    /\ upper \subseteq RxBufs
    /\ receiver.p \notin upper
    /\ \A j \in Descs(R) : rxb[j] \notin upper
    /\ \A j \in Descs(R) : rxb[j] # NULL => rxb[j] # receiver.p

RxInv == RxRegisters /\ RxBuffers /\ RxOnce

\* A set of numbers that is not empty has a least element.
LEMMA LeastElement ==
    ASSUME NEW T, T \subseteq Nat, T # {}
    PROVE  Min(T) \in T
<1>1. OpToRel(<, Nat) = {ss \in Nat \X Nat : ss[1] < ss[2]}
  BY Zenon DEF OpToRel
<1>2. \E O : IsWellFoundedOn(O, Nat) /\ O = {ss \in Nat \X Nat : ss[1] < ss[2]}
  BY <1>1, NatLessThanWellFounded, Zenon
<1>3. PICK O : IsWellFoundedOn(O, Nat) /\ O = {ss \in Nat \X Nat : ss[1] < ss[2]}
  BY <1>2
<1>4. PICK x \in T : \A y \in T : ~(<<y, x>> \in O)
  BY <1>3, WFMin, Zenon
<1>5. \A a, b \in Nat : a < b => <<a, b>> \in O
  BY <1>3
<1>6. ASSUME NEW y \in T PROVE x <= y
  <2>1. x \in Nat /\ y \in Nat /\ ~(y < x)
    BY <1>4, <1>5
  <2> QED BY <2>1
<1>7. \E z \in T : \A y \in T : z <= y
  BY <1>6
<1> QED BY <1>7 DEF Min

\* NULL is not a buffer of the heap.
LEMMA NullIsNoBuffer == NULL \notin RxBufs
  BY EmacAssumption DEF NULL

\* A step in the receive ring stays in it and moves.
LEMMA RxStep ==
    ASSUME NEW j \in Descs(R)
    PROVE  Step(j, R) \in Descs(R) /\ Step(j, R) # j
  BY EmacAssumption DEF Descs, Step

\* lpc_rx_setup gives every receive descriptor a buffer of its own.
LEMMA RxInit ==
    ASSUME Init
    PROVE  RxInv
<1>1. \A j \in Descs(R) : j + 1 \in RxBufs
  BY EmacAssumption DEF Descs
<1>2. 0 \in Descs(R)
  BY EmacAssumption DEF Descs
<1>3. RxRegisters
  BY <1>2 DEF Init, lpc_rx_setup, RxRegisters
<1>4. RxBuffers
  BY <1>1, NullIsNoBuffer DEF Init, lpc_rx_setup, RxBuffers
<1>5. RxOnce
  BY <1>1, EmacAssumption DEF Init, lpc_rx_setup, RxOnce, Descs, NULL
<1> QED BY <1>3, <1>4, <1>5 DEF RxInv

\* Steps that leave the buffers and packet_rx where they are.
LEMMA RxSame ==
    ASSUME RxInv, UNCHANGED <<rx, rxb, receiver, upper>>
    PROVE  RxInv'
  BY DEF RxInv, RxRegisters, RxBuffers, RxOnce

\* Every step of the driver keeps the receive buffers apart.
LEMMA RxNext ==
    ASSUME RxInv, Next
    PROVE  RxInv'
<1> USE DEF RxInv
<1>1. CASE Transmit
  BY <1>1, RxSame DEF Transmit, SenderGoesOn, packet_tx, rxvars, Output, ReadConsumeIndex,
     Room, WaitForToken, TakeIndex, Fill, HwSend, CleanerWakes, lpc_tx_reclaim,
     lpc_tx_reclaim_st, ReclaimDone
<1>2. CASE \/ ENET_IRQHandler \/ IntClear \/ eth_arch_enable_interrupts
           \/ eth_arch_disable_interrupts
  BY <1>2, RxSame DEF ENET_IRQHandler, IntClear, eth_arch_enable_interrupts,
     eth_arch_disable_interrupts, rxvars
<1>3. ASSUME NEW kind, HwReceive(kind) PROVE RxInv'
  <2>1. RxRegisters'
    BY <1>3, RxStep DEF HwReceive, RxRegisters
  <2>2. rx'.consume = rx.consume /\ rx'.free = rx.free
    BY <1>3 DEF HwReceive, RxRegisters
  <2>3. RxBuffers' /\ RxOnce'
    BY <1>3, <2>2 DEF HwReceive, RxBuffers, RxOnce
  <2> QED BY <2>1, <2>3
<1>4. ASSUME NEW p, StackFrees(p) PROVE RxInv'
  BY <1>4 DEF StackFrees, RxRegisters, RxBuffers, RxOnce
<1>5. CASE ReceiverWakes
  BY <1>5 DEF ReceiverWakes, RxRegisters, RxBuffers, RxOnce
<1>6. CASE RingEmpty
  BY <1>6 DEF RingEmpty, RxRegisters, RxBuffers, RxOnce
<1>7. CASE DropDamaged
  <2>1. rx.free = 0
    BY <1>7 DEF DropDamaged, RxRegisters
  <2>2. /\ rxb' = rxb
        /\ rx' = [produce |-> rx.produce, consume |-> Step(rx.fill, R),
                  fill |-> Step(rx.fill, R), free |-> 0]
    <3> DEFINE r == [rx EXCEPT !.free = @ + 1]
    <3>1. r = [produce |-> rx.produce, consume |-> rx.consume, fill |-> rx.fill, free |-> 1]
      BY <2>1 DEF RxRegisters
    <3>2. lpc_rxqueue_pbuf(r, rxb[rx.consume])
      BY <1>7 DEF DropDamaged
    <3> HIDE DEF r
    <3>3. rxb' = [rxb EXCEPT ![rx.fill] = rxb[rx.consume]]
      BY <3>1, <3>2 DEF lpc_rxqueue_pbuf
    <3>4. rxb' = rxb
      BY <3>3 DEF RxRegisters, RxBuffers
    <3>5. rx' = [r EXCEPT !.free = 0, !.fill = Step(rx.fill, R), !.consume = Step(rx.fill, R)]
      BY <3>1, <3>2 DEF lpc_rxqueue_pbuf
    <3> QED BY <3>1, <3>4, <3>5
  <2>3. RxRegisters'
    BY <1>7, <2>1, <2>2, RxStep DEF DropDamaged, RxRegisters
  <2>4. rx'.free = 0
    BY <2>1, <2>2 DEF RxRegisters
  <2>5. RxBuffers' /\ RxOnce'
    BY <1>7, <2>1, <2>2, <2>4 DEF DropDamaged, RxBuffers, RxOnce
  <2> QED BY <2>3, <2>5
<1>8. CASE TakeBuffer
  <2>1. rx.free = 0 /\ rxb[rx.consume] \in RxBufs /\ rx.consume \in Descs(R)
    BY <1>8 DEF TakeBuffer, RxRegisters, RxBuffers
  <2>2. RxRegisters'
    BY <1>8, <2>1, NullIsNoBuffer DEF TakeBuffer, RxRegisters
  <2>3. rx'.free = 1 /\ rx'.consume = rx.consume
    BY <1>8, <2>1 DEF TakeBuffer, RxRegisters
  <2>4. RxBuffers'
    BY <1>8, <2>1, <2>3 DEF TakeBuffer, RxBuffers
  <2>5. RxOnce'
    BY <1>8, <2>1, NullIsNoBuffer DEF TakeBuffer, RxBuffers, RxOnce
  <2> QED BY <2>2, <2>4, <2>5
<1>9. ASSUME NEW p \in RxBufs, rx.free = 1, rx.consume \in Descs(R),
             p \notin upper, \A j \in Descs(R) : rxb[j] # p,
             lpc_rxqueue_pbuf(rx, p), receiver'.p # p,
             receiver' \in [pc : {"wait", "loop", "input"}, p : {receiver.p, NULL}],
             receiver'.p = NULL <=> receiver'.pc \in {"wait", "loop"},
             upper' = upper
      PROVE  RxInv'
  <2>1. rx' = [rx EXCEPT !.free = 0, !.fill = Step(rx.fill, R), !.consume = Step(rx.fill, R)]
    BY <1>9 DEF lpc_rxqueue_pbuf, RxRegisters
  <2>2. RxRegisters'
    <3>1. /\ rx' \in [produce : Descs(R), consume : Descs(R), fill : Descs(R), free : {0, 1}]
          /\ rx'.fill = rx'.consume /\ rx'.free = 0
      BY <2>1, RxStep DEF RxRegisters
    <3>2. /\ receiver' \in [pc : {"wait", "loop", "queue", "input"}, p : RxBufs \cup {NULL}]
          /\ receiver'.pc # "queue"
      BY <1>9 DEF RxRegisters
    <3> QED BY <1>9, <3>1, <3>2 DEF RxRegisters
  <2>3. rxb' = [rxb EXCEPT ![rx.consume] = p] /\ rx'.free = 0
    BY <1>9, <2>1 DEF lpc_rxqueue_pbuf, RxRegisters
  <2>4. RxBuffers'
    BY <1>9, <2>3, NullIsNoBuffer DEF RxBuffers
  <2>5. receiver'.p \in {receiver.p, NULL}
    BY <1>9
  <2>6. RxOnce'
    BY <1>9, <2>3, <2>5, NullIsNoBuffer DEF RxBuffers, RxOnce
  <2> QED BY <2>2, <2>4, <2>6
<1>10. CASE lpc_rx_queue
  <2>1. Min(FreeBufs) \in FreeBufs
    BY <1>10, LeastElement, EmacAssumption DEF FreeBufs, lpc_rx_queue
  <2>2. /\ Min(FreeBufs) \in RxBufs /\ Min(FreeBufs) \notin upper
        /\ Min(FreeBufs) # receiver.p
        /\ \A j \in Descs(R) : rxb[j] # Min(FreeBufs)
    BY <2>1 DEF FreeBufs
  <2>3. rx.free = 1 /\ rx.consume \in Descs(R) /\ receiver.p # NULL
    BY <1>10 DEF lpc_rx_queue, RxRegisters
  <2>4. receiver' = [pc |-> "input", p |-> receiver.p]
    BY <1>10 DEF lpc_rx_queue, RxRegisters
  <2>5. lpc_rxqueue_pbuf(rx, Min(FreeBufs)) /\ upper' = upper
    BY <1>10 DEF lpc_rx_queue
  <2> QED BY <1>9, <2>2, <2>3, <2>4, <2>5
<1>11. CASE DropForMemory
  <2>1. rx.free = 1 /\ rx.consume \in Descs(R) /\ receiver.p # NULL /\ receiver.p \in RxBufs
    BY <1>11 DEF DropForMemory, RxRegisters
  <2>2. receiver.p \notin upper /\ \A j \in Descs(R) : rxb[j] # receiver.p
    BY <2>1, NullIsNoBuffer DEF RxBuffers, RxOnce
  <2>3. lpc_rxqueue_pbuf(rx, receiver.p) /\ upper' = upper
        /\ receiver' = [pc |-> "loop", p |-> NULL]
    BY <1>11 DEF DropForMemory
  <2> QED BY <1>9, <2>1, <2>2, <2>3
<1>12. CASE lpc_enetif_input
  <2>1. receiver.p \in RxBufs /\ rx.free = 0
    BY <1>12 DEF lpc_enetif_input, RxRegisters
  <2>2. RxRegisters'
    BY <1>12, <2>1 DEF lpc_enetif_input, RxRegisters
  <2>3. RxBuffers'
    BY <1>12 DEF lpc_enetif_input, RxBuffers
  <2>4. RxOnce'
    BY <1>12, <2>1, NullIsNoBuffer DEF lpc_enetif_input, RxBuffers, RxOnce
  <2> QED BY <2>2, <2>3, <2>4
<1> QED BY <1>1, <1>2, <1>3, <1>4, <1>5, <1>6, <1>7, <1>8, <1>10, <1>11, <1>12
     DEF Next, Receive, packet_rx

-----------------------------------------------------------------------------
(***************************************************************************)
(* Sending.  The ring is seen from lpc_last_tx_idx: position k is the      *)
(* descriptor k places behind it.  Positions below Taken are sent and not  *)
(* reclaimed, from there to Filled they are the EMAC's, the others free.   *)
(***************************************************************************)
Places == 0 .. N - 1
Taken == Off(tx.last, tx.consume)
Filled == Off(tx.last, tx.produce)
Frees == [k \in Places |-> txb[Behind(tx.last, k)]]
Sends == [k \in Places |-> ptxd[Behind(tx.last, k)]]

\* The calls of the scenario are calls of threads that send.
SceneOK ==
    /\ scene \in [calls : [DOMAIN scene.calls -> Nat], frames : Nat]
    /\ DOMAIN scene.calls \subseteq Senders

\* A descriptor: its packet, and whether it is the last one of it.
Entry == Nat \X BOOLEAN

TxTypes ==
    /\ tx \in [produce : Descs(N), consume : Descs(N), last : Descs(N)]
    /\ txb \in [Descs(N) -> Nat]
    /\ held \subseteq Nat \ {NULL}
    /\ sending \in Seq(Entry)

CallsOK ==
    /\ sender \in [Senders -> [pc : {"idle", "ready", "room", "wait", "index", "fill"},
                               dn : Nat, idx : Descs(N)]]
    /\ \A s \in Senders : sender[s].pc # "idle" => sender[s].dn \in Clens

\* The three indices are in order, and packet_tx stops at or before the
\* descriptors of the EMAC.
TxOrder == Taken <= Filled
CleanerBehind ==
    /\ cleaner \in [pc : {"wait", "read", "reclaim"}, cidx : Descs(N)]
    /\ cleaner.pc = "reclaim" => Off(tx.last, cleaner.cidx) <= Taken

\* What the EMAC has is what it was given and has not sent.
TxFifo ==
    /\ Len(sending) = Filled - Taken
    /\ \A k \in Taken .. Filled - 1 : Sends[k] = sending[k - Taken + 1]

\* A packet that is held is freed with one descriptor that is not free.
TxHeld ==
    /\ \A k \in Places : k >= Filled => Frees[k] = NULL
    /\ \A k \in Places : Frees[k] # NULL => Frees[k] \in held
    /\ \A p \in held : \E k \in Places : Frees[k] = p
    /\ \A j, k \in Places : Frees[j] # NULL /\ Frees[j] = Frees[k] => j = k

\* The descriptor that frees a packet in transmission is in transmission too.
TxEnds ==
    \A k \in Taken .. Filled - 1 :
        \E m \in k .. Filled - 1 : Frees[m] # NULL /\ Frees[m] = sending[k - Taken + 1][1]

\* A packet bears the name of its first descriptor, and no other packet is
\* freed between that one and its last; only the first packet in the ring may
\* have its first descriptor reclaimed.
Named(p, i) == p \in {i + 1, i + 1 + N}
TxNamed ==
    \A k \in Places : Frees[k] # NULL =>
        \/ \A j \in 0 .. k - 1 : Frees[j] = NULL
        \/ \E q \in 0 .. k :
              /\ Named(Frees[k], Behind(tx.last, q))
              /\ \A j \in q .. k - 1 : Frees[j] = NULL

RingInv == TxTypes /\ TxOrder /\ TxFifo /\ TxHeld /\ TxEnds /\ TxNamed
TxInv == RingInv /\ CallsOK /\ CleanerBehind

IndInv == SceneOK /\ RxInv /\ (~ clashed => TxInv)

\* The indices of the ring and its contents, by position.
LEMMA Positions ==
    ASSUME TxTypes
    PROVE  /\ Taken \in Places /\ Filled \in Places
           /\ Behind(tx.last, Taken) = tx.consume
           /\ Behind(tx.last, Filled) = tx.produce
           /\ \A k \in Places : Frees[k] = txb[Behind(tx.last, k)] /\ Frees[k] \in Nat
           /\ \A k \in Places : Sends[k] = ptxd[Behind(tx.last, k)]
           /\ N \in Nat /\ N >= 2 /\ Places = 0 .. N - 1
           /\ tx.last \in Descs(N) /\ tx.consume \in Descs(N) /\ tx.produce \in Descs(N)
<1>1. tx.last \in Descs(N) /\ tx.consume \in Descs(N) /\ tx.produce \in Descs(N)
  BY DEF TxTypes
<1>2. /\ Taken \in Places /\ Filled \in Places
      /\ Behind(tx.last, Taken) = tx.consume
      /\ Behind(tx.last, Filled) = tx.produce
  BY <1>1, Back DEF Taken, Filled, Places
<1>3. \A k \in Places : Behind(tx.last, k) \in Descs(N)
  BY <1>1, Round DEF Places
<1>4. /\ \A k \in Places : Frees[k] = txb[Behind(tx.last, k)] /\ Frees[k] \in Nat
      /\ \A k \in Places : Sends[k] = ptxd[Behind(tx.last, k)]
  BY <1>3 DEF Frees, Sends, TxTypes
<1> QED BY <1>1, <1>2, <1>4, EmacAssumption DEF Places

\* Every descriptor is at one position.
LEMMA PositionOf ==
    ASSUME TxTypes, NEW i \in Descs(N)
    PROVE  \E k \in Places : i = Behind(tx.last, k)
  BY Back DEF TxTypes, Places

\* No descriptor is at two positions.
LEMMA OnePosition ==
    ASSUME TxTypes, NEW j \in Places, NEW k \in Places,
           Behind(tx.last, j) = Behind(tx.last, k)
    PROVE  j = k
  BY Round DEF TxTypes, Places

\* What the EMAC finds between its indices is what it was given.
LEMMA FifoHolds ==
    ASSUME TxTypes, TxOrder, TxFifo
    PROVE  InFlight = sending
<1>1. Distance(tx.consume, tx.produce, N) = Filled - Taken
  <2>1. Distance(tx.consume, tx.produce, N) = Off(tx.consume, tx.produce)
    BY Positions, WrappedDistance
  <2>2. Off(tx.consume, tx.produce) = Filled - Taken
    BY Positions, Between DEF TxOrder, Taken, Filled
  <2> QED BY <2>1, <2>2
<1>2. ASSUME NEW n \in 1 .. Filled - Taken
      PROVE  ptxd[(tx.consume + n - 1) % N] = sending[n]
  <2>1. Filled \in 0 .. N - 1 /\ Taken \in 0 .. N - 1 /\ n - 1 \in 0 .. N - 1
        /\ n - 1 \in 0 .. N - 1 - Taken /\ Taken + (n - 1) \in Places
        /\ Taken + (n - 1) \in Taken .. Filled - 1 /\ Taken + (n - 1) - Taken + 1 = n
    BY Positions DEF Places
  <2>2. (tx.consume + (n - 1)) % N = Behind(tx.consume, n - 1)
    BY <2>1, Positions, Wrapped
  <2>3. tx.consume + (n - 1) = tx.consume + n - 1
    BY Positions DEF Descs
  <2>4. Behind(tx.consume, n - 1) = Behind(tx.last, Taken + (n - 1))
    BY <2>1, Positions, Round
  <2>5. Sends[Taken + (n - 1)] = sending[n]
    BY <2>1 DEF TxFifo
  <2> QED BY <2>1, <2>2, <2>3, <2>4, <2>5, Positions
<1>3. sending = [n \in 1 .. Filled - Taken |-> sending[n]]
  BY DEF TxTypes, TxFifo
<1>4. InFlight = [n \in 1 .. Filled - Taken |-> ptxd[(tx.consume + n - 1) % N]]
  BY <1>1 DEF InFlight
<1> QED BY <1>2, <1>3, <1>4

\* A packet in transmission is held, and freed with one descriptor.
LEMMA TxOwned ==
    ASSUME RingInv
    PROVE  /\ \A n \in DOMAIN sending : sending[n][1] \in held
           /\ \A p \in held : Cardinality({i \in Descs(N) : txb[i] = p}) = 1
<1> USE DEF RingInv
<1>1. ASSUME NEW n \in DOMAIN sending PROVE sending[n][1] \in held
  <2>1. n \in 1 .. Filled - Taken
    BY DEF TxTypes, TxFifo
  <2>2. n + Taken - 1 \in Taken .. Filled - 1 /\ (n + Taken - 1) - Taken + 1 = n
    BY <2>1, Positions
  <2>3. PICK m \in (n + Taken - 1) .. Filled - 1 :
            Frees[m] # NULL /\ Frees[m] = sending[n][1]
    BY <2>2 DEF TxEnds
  <2>4. m \in Places
    BY <2>2, Positions
  <2> QED BY <2>3, <2>4 DEF TxHeld
<1>2. ASSUME NEW p \in held
      PROVE  Cardinality({i \in Descs(N) : txb[i] = p}) = 1
  <2>1. PICK k \in Places : Frees[k] = p
    BY DEF TxHeld
  <2>2. p # NULL
    BY DEF TxTypes
  <2>3. ASSUME NEW i \in Descs(N), txb[i] = p PROVE i = Behind(tx.last, k)
    <3>1. PICK j \in Places : i = Behind(tx.last, j)
      BY PositionOf
    <3>2. Frees[j] = p
      BY <2>3, <3>1, Positions
    <3>3. j = k
      BY <2>1, <2>2, <3>2 DEF TxHeld
    <3> QED BY <3>1, <3>3
  <2>4. Behind(tx.last, k) \in Descs(N) /\ txb[Behind(tx.last, k)] = p
    BY <2>1, Positions, Round
  <2>5. {i \in Descs(N) : txb[i] = p} = {Behind(tx.last, k)}
    BY <2>3, <2>4
  <2> QED BY <2>5, FS_Singleton
<1> QED BY <1>1, <1>2

-----------------------------------------------------------------------------
\* lpc_tx_setup leaves an empty ring.
LEMMA TxInit ==
    ASSUME Init
    PROVE  SceneOK /\ TxInv
<1>1. 0 \in Descs(N) /\ 0 \in Places
  BY EmacAssumption DEF Descs, Places
<1>2. TxTypes
  <2>1. sending \in Seq(Entry)
    BY DEF Init
  <2> QED BY <1>1, <2>1 DEF Init, lpc_tx_setup, TxTypes, NULL
<1>3. tx.last = 0 /\ tx.consume = 0 /\ tx.produce = 0
  BY DEF Init, lpc_tx_setup
<1>4. Taken = 0 /\ Filled = 0
  BY <1>3 DEF Taken, Filled, Off
<1>5. \A k \in Places : Frees[k] = NULL
  BY <1>2, Positions, Round DEF Init, lpc_tx_setup, Places
<1>6. held = {} /\ sending = <<>>
  BY DEF Init
<1>7. TxOrder /\ TxFifo /\ TxHeld /\ TxEnds /\ TxNamed
  BY <1>4, <1>5, <1>6 DEF TxOrder, TxFifo, TxHeld, TxEnds, TxNamed
<1>8. CallsOK
  BY <1>1 DEF Init, CallsOK
<1>9. CleanerBehind
  BY <1>1 DEF Init, CleanerBehind
<1>10. SceneOK
  BY EmacAssumption DEF Init, SceneOK, Senders
<1> QED BY <1>2, <1>7, <1>8, <1>9, <1>10 DEF TxInv, RingInv

\* A packet that is put into the ring has a name that no held packet has.
LEMMA FreshName ==
    ASSUME RingInv, NEW p, p = Min({tx.produce + 1, tx.produce + 1 + N} \ held)
    PROVE  p \notin held /\ Named(p, tx.produce)
<1> USE DEF RingInv
<1>1. ASSUME NEW x \in held, Named(x, tx.produce), NEW k \in Places, Frees[k] = x
      PROVE  \A j \in 0 .. k - 1 : Frees[j] = NULL
  <2>1. x # NULL /\ k < Filled
    <3>1. x # NULL
      BY DEF TxTypes
    <3>2. ~ (k >= Filled)
      BY <1>1, <3>1 DEF TxHeld
    <3> QED BY <3>1, <3>2, Positions
  <2>2. SUFFICES ASSUME NEW q \in 0 .. k, Named(Frees[k], Behind(tx.last, q)) PROVE FALSE
    BY <1>1, <2>1 DEF TxNamed
  <2>3. q \in Places /\ q # Filled
    BY <2>1, Positions
  <2>4. Behind(tx.last, q) \in Descs(N) /\ tx.produce \in Descs(N)
    BY <2>3, Round, Positions
  <2>5. Behind(tx.last, q) = tx.produce
    BY <1>1, <2>2, <2>4, EmacAssumption DEF Named, Descs
  <2> QED BY <2>3, <2>5, Positions, OnePosition
<1>2. ~ (tx.produce + 1 \in held /\ tx.produce + 1 + N \in held)
  <2>1. SUFFICES ASSUME tx.produce + 1 \in held, tx.produce + 1 + N \in held PROVE FALSE
    OBVIOUS
  <2>2. PICK j \in Places : Frees[j] = tx.produce + 1
    BY <2>1 DEF TxHeld
  <2>3. PICK k \in Places : Frees[k] = tx.produce + 1 + N
    BY <2>1 DEF TxHeld
  <2>4. /\ \A m \in 0 .. j - 1 : Frees[m] = NULL
        /\ \A m \in 0 .. k - 1 : Frees[m] = NULL
    BY <1>1, <2>1, <2>2, <2>3 DEF Named
  <2>5. tx.produce + 1 # tx.produce + 1 + N /\ tx.produce + 1 # NULL /\ tx.produce + 1 + N # NULL
    BY Positions DEF NULL, Descs
  <2> QED BY <2>2, <2>3, <2>4, <2>5, Positions
<1>3. {tx.produce + 1, tx.produce + 1 + N} \ held # {}
  BY <1>2
<1>4. {tx.produce + 1, tx.produce + 1 + N} \ held \subseteq Nat
  BY Positions DEF Descs
<1>5. p \in {tx.produce + 1, tx.produce + 1 + N} \ held
  BY <1>3, <1>4, LeastElement
<1> QED BY <1>5 DEF Named

\* What Fill does to the ring, seen from lpc_last_tx_idx.
Appended(p, dn) ==
    /\ p \in Nat \ {NULL} /\ p \notin held /\ Named(p, tx.produce)
    /\ dn \in Nat /\ dn >= 1 /\ Filled + dn \in Places
    /\ tx'.last = tx.last /\ tx'.consume = tx.consume
    /\ tx'.produce = Behind(tx.last, Filled + dn)
    /\ Taken' = Taken /\ Filled' = Filled + dn
    /\ held' = held \cup {p}
    /\ \A k \in Places :
          Frees'[k] = IF k < Filled \/ k >= Filled + dn THEN Frees[k]
                      ELSE IF k = Filled + dn - 1 THEN p ELSE NULL
    /\ \A k \in Places :
          Sends'[k] = IF k < Filled \/ k >= Filled + dn THEN Sends[k]
                      ELSE sending'[Len(sending) + (k - Filled + 1)]
    /\ Len(sending') = Len(sending) + dn
    /\ \A n \in 1 .. Len(sending) : sending'[n] = sending[n]
    /\ \A n \in 1 .. dn : sending'[Len(sending) + n][1] = p

\* Fill, when it finds room, appends the descriptors of its packet.
LEMMA FillTypes ==
    ASSUME RingInv, CallsOK, NEW s \in Senders, Fill(s), ~ clashed'
    PROVE  /\ TxTypes'
           /\ \E p, dn : Appended(p, dn)
<1> USE DEF RingInv
<1> DEFINE dn == sender[s].dn
           idx == sender[s].idx
           p == Min({idx + 1, idx + 1 + N} \ held)
           Slot(n) == (idx + n - 1) % N
           desc == [n \in 1 .. dn |-> <<p, n = dn>>]
           At(i) == CHOOSE n \in 1 .. dn : Slot(n) = i
           mine == {Slot(n) : n \in 1 .. dn}
<1>1. /\ ptxd' = [i \in Descs(N) |-> IF i \in mine THEN desc[At(i)] ELSE ptxd[i]]
      /\ txb' = [i \in Descs(N) |->
               IF i \notin mine THEN txb[i]
               ELSE IF At(i) = dn THEN p ELSE NULL]
      /\ tx' = [tx EXCEPT !.produce = Advance(idx, dn)]
      /\ held' = held \cup {p}
      /\ clashed' = (\/ clashed
                     \/ idx # tx.produce
                     \/ Distance(tx.last, tx.produce, N) + dn > N - 1)
      /\ sending' = sending \o desc
      /\ sender[s].pc = "fill"
  BY DEF Fill
<1>2. idx = tx.produce /\ dn \in Nat /\ dn >= 1 /\ dn <= N - 1 /\ idx \in Descs(N)
  BY <1>1, EmacAssumption DEF CallsOK
<1>3. Filled + dn <= N - 1
  <2>1. Distance(tx.last, tx.produce, N) = Filled
    BY Positions, WrappedDistance DEF Filled
  <2>2. ~ (Filled + dn > N - 1)
    BY <1>1, <2>1
  <2> QED BY <1>2, <2>2, Positions DEF Places
<1>4. p \notin held /\ Named(p, tx.produce) /\ p \in Nat \ {NULL}
  <2>1. p \notin held /\ Named(p, tx.produce)
    BY <1>2, FreshName
  <2> QED BY <2>1, Positions DEF Named, Descs, NULL
<1> HIDE DEF p
<1>5. ASSUME NEW n \in 1 .. dn
      PROVE  Slot(n) = Behind(tx.last, Filled + n - 1) /\ Slot(n) \in Descs(N)
             /\ Filled + n - 1 \in Places
  <2>1. /\ n - 1 \in 0 .. N - 1 /\ n - 1 \in 0 .. N /\ n - 1 \in 0 .. N - 1 - Filled
        /\ Filled + (n - 1) = Filled + n - 1 /\ idx + n - 1 = idx + (n - 1)
        /\ Filled + n - 1 \in Places
    BY <1>2, <1>3, Positions DEF Descs, Places
  <2>2. Slot(n) = Behind(idx, n - 1)
    <3>1. (idx + (n - 1)) % N = Behind(idx, n - 1)
      BY <1>2, <2>1, Wrapped
    <3> QED BY <2>1, <3>1
  <2>3. Behind(idx, n - 1) = Behind(tx.last, Filled + (n - 1))
    <3>1. Behind(Behind(tx.last, Filled), n - 1) = Behind(tx.last, Filled + (n - 1))
      BY <2>1, Positions, Round DEF Places
    <3> QED BY <1>2, <3>1, Positions
  <2> QED BY <2>1, <2>2, <2>3, Round, Positions
<1>6. ASSUME NEW k \in Places
      PROVE  /\ Behind(tx.last, k) \in mine <=> k >= Filled /\ k < Filled + dn
             /\ k >= Filled /\ k < Filled + dn => At(Behind(tx.last, k)) = k - Filled + 1
  <2>1. ASSUME NEW n \in 1 .. dn, Slot(n) = Behind(tx.last, k) PROVE n = k - Filled + 1
    <3>1. Filled + n - 1 = k
      BY <1>5, <2>1, OnePosition
    <3> QED BY <1>2, <3>1, Positions
  <2>2. ASSUME k >= Filled, k < Filled + dn
        PROVE  k - Filled + 1 \in 1 .. dn /\ Slot(k - Filled + 1) = Behind(tx.last, k)
    <3>1. k - Filled + 1 \in 1 .. dn /\ Filled + (k - Filled + 1) - 1 = k
      BY <1>2, <2>2, Positions
    <3> QED BY <1>5, <3>1
  <2>3. ASSUME Behind(tx.last, k) \in mine PROVE k >= Filled /\ k < Filled + dn
    <3>1. PICK n \in 1 .. dn : Slot(n) = Behind(tx.last, k)
      BY <2>3
    <3> QED BY <2>1, <3>1, <1>2, Positions
  <2> QED BY <2>1, <2>2, <2>3
<1>16. ASSUME NEW i \in Descs(N)
       PROVE  i \in mine => At(i) \in 1 .. dn
  OBVIOUS
<1> HIDE DEF Slot, At, mine
<1>7. tx' \in [produce : Descs(N), consume : Descs(N), last : Descs(N)]
      /\ tx'.last = tx.last /\ tx'.consume = tx.consume
      /\ tx'.produce = Behind(tx.last, Filled + dn)
  <2>1. dn \in 0 .. N /\ dn \in 0 .. N - 1 - Filled /\ Filled + dn \in 0 .. N - 1
    BY <1>2, <1>3, Positions
  <2>2. Advance(idx, dn) = Behind(idx, dn)
    BY <1>2, <2>1, Wrapped DEF Advance
  <2>3. Behind(idx, dn) = Behind(tx.last, Filled + dn)
    BY <1>2, <2>1, Positions, Round DEF Places
  <2>4. Behind(tx.last, Filled + dn) \in Descs(N)
    BY <2>1, Positions, Round
  <2> QED BY <1>1, <2>2, <2>3, <2>4 DEF TxTypes
<1>8. desc \in Seq(Entry) /\ Len(desc) = dn
  <2>1. ASSUME NEW b \in BOOLEAN PROVE <<p, b>> \in Entry
    BY <1>4, <2>1 DEF Entry
  <2>2. ASSUME NEW n PROVE (n = dn) \in BOOLEAN
    OBVIOUS
  <2> DEFINE D(n) == <<p, n = dn>>
  <2>3. \A n \in 1 .. dn : D(n) \in Entry
    BY <2>1, <2>2
  <2> HIDE DEF D
  <2>4. [n \in 1 .. dn |-> D(n)] \in Seq(Entry) /\ Len([n \in 1 .. dn |-> D(n)]) = dn
    BY <1>2, <2>3
  <2> QED BY <2>4 DEF D
<1>18. \A n \in 1 .. dn : desc[n][1] = p
  OBVIOUS
<1>19. sending \in Seq(Entry) /\ sending' = sending \o desc
  BY <1>1 DEF TxTypes
<1> HIDE DEF desc
<1>9. /\ sending' \in Seq(Entry)
      /\ Len(sending') = Len(sending) + dn
      /\ \A n \in 1 .. Len(sending) : sending'[n] = sending[n]
      /\ \A n \in 1 .. dn : sending'[Len(sending) + n] = desc[n]
  <2>1. PICK e \in Seq(Entry) : e = desc
    BY <1>8
  <2>2. Len(e) = dn /\ sending' = sending \o e
    BY <1>8, <1>19, <2>1
  <2> HIDE DEF dn
  <2>3. /\ sending' \in Seq(Entry)
        /\ Len(sending') = Len(sending) + dn
        /\ \A n \in 1 .. Len(sending) : sending'[n] = sending[n]
        /\ \A n \in 1 .. dn : sending'[Len(sending) + n] = e[n]
    <3>1. sending \in Seq(Entry) /\ e \in Seq(Entry) /\ sending' = sending \o e /\ Len(e) = dn
      BY <1>19, <2>2
    <3>2. sending' \in Seq(Entry)
      BY <3>1, ConcatFacts
    <3>3. Len(sending') = Len(sending) + dn
      BY <3>1, ConcatFacts
    <3>4. \A n \in 1 .. Len(sending) : sending'[n] = sending[n]
      BY <3>1, ConcatFacts
    <3>5. \A n \in 1 .. dn : sending'[Len(sending) + n] = e[n]
      BY <3>1, ConcatFacts
    <3> QED BY <3>2, <3>3, <3>4, <3>5
  <2> QED BY <2>1, <2>3
<1>11. TxTypes'
  <2>2. txb' \in [Descs(N) -> Nat]
    BY <1>1, <1>4 DEF TxTypes, NULL
  <2>3. held' \subseteq Nat \ {NULL}
    BY <1>1, <1>4 DEF TxTypes
  <2> QED BY <1>7, <1>9, <2>2, <2>3 DEF TxTypes
<1>12. Taken' = Taken /\ Filled' = Filled + dn
  <2>1. Filled + dn \in 0 .. N - 1
    BY <1>2, <1>3, Positions
  <2> QED BY <1>7, <2>1, Round, Positions DEF Taken, Filled
<1>13. ASSUME NEW k \in Places
       PROVE  /\ Frees'[k] = IF k < Filled \/ k >= Filled + dn THEN Frees[k]
                             ELSE IF k = Filled + dn - 1 THEN p ELSE NULL
              /\ Sends'[k] = IF k < Filled \/ k >= Filled + dn THEN Sends[k]
                             ELSE sending'[Len(sending) + (k - Filled + 1)]
  <2>1. Frees'[k] = txb'[Behind(tx.last, k)] /\ Sends'[k] = ptxd'[Behind(tx.last, k)]
    BY <1>7 DEF Frees, Sends
  <2>2. Behind(tx.last, k) \in Descs(N)
    BY Round, Positions
  <2>3. CASE k < Filled \/ k >= Filled + dn
    <3>1. Behind(tx.last, k) \notin mine
      BY <1>6, <2>3, <1>2, Positions
    <3> QED BY <1>1, <2>1, <2>2, <2>3, <3>1, Positions
  <2>4. CASE ~ (k < Filled \/ k >= Filled + dn)
    <3>1. /\ Behind(tx.last, k) \in mine /\ At(Behind(tx.last, k)) = k - Filled + 1
          /\ k - Filled + 1 \in 1 .. dn
      BY <1>6, <2>4, <1>2, Positions
    <3>4. Sends'[k] = desc[k - Filled + 1]
      BY <1>1, <2>1, <2>2, <3>1
    <3>5. Frees'[k] = IF k - Filled + 1 = dn THEN p ELSE NULL
      BY <1>1, <2>1, <2>2, <3>1
    <3>6. Frees'[k] = IF k = Filled + dn - 1 THEN p ELSE NULL
      BY <1>2, <3>5, Positions
    <3>7. Sends'[k] = sending'[Len(sending) + (k - Filled + 1)]
      BY <1>9, <3>1, <3>4
    <3> QED BY <2>4, <3>6, <3>7
  <2> QED BY <2>3, <2>4
<1>14. Filled + dn \in Places
  BY <1>2, <1>3, Positions
<1>15. Appended(p, dn)
  <2>1. \A n \in 1 .. dn : sending'[Len(sending) + n][1] = p
    BY <1>9, <1>18
  <2>2. held' = held \cup {p} /\ p \in Nat \ {NULL} /\ p \notin held /\ Named(p, tx.produce)
    BY <1>1, <1>4
  <2> HIDE DEF dn, desc, idx
  <2> QED BY <1>2, <1>7, <1>9, <1>12, <1>13, <1>14, <2>1, <2>2 DEF Appended
<1> QED BY <1>11, <1>15

\* A packet put into free descriptors keeps the ring in order.
LEMMA AppendedKeeps ==
    ASSUME RingInv, TxTypes', NEW p, NEW dn, Appended(p, dn)
    PROVE  RingInv'
<1> USE DEF RingInv
<1>1. /\ p \in Nat \ {NULL} /\ p \notin held /\ dn \in Nat /\ dn >= 1
      /\ Filled + dn \in Places /\ Taken' = Taken /\ Filled' = Filled + dn
      /\ held' = held \cup {p} /\ tx'.last = tx.last
      /\ Taken \in Nat /\ Filled \in Nat /\ Taken <= Filled /\ Filled + dn <= N - 1
      /\ N \in Nat /\ Places = 0 .. N - 1 /\ Len(sending) = Filled - Taken
  BY Positions DEF Appended, TxOrder, TxFifo
<1>2. \A k \in Places :
          Frees'[k] = IF k < Filled \/ k >= Filled + dn THEN Frees[k]
                      ELSE IF k = Filled + dn - 1 THEN p ELSE NULL
  BY DEF Appended
<1>3. \A k \in Places : k >= Filled => Frees[k] = NULL
  BY DEF TxHeld
<1>4. \A k \in Places : Frees'[k] = IF k < Filled THEN Frees[k]
                                    ELSE IF k = Filled + dn - 1 THEN p ELSE NULL
  BY <1>1, <1>2, <1>3
<1>5. TxOrder'
  BY <1>1 DEF TxOrder
<1>6. TxFifo'
  <2>1. Len(sending') = Filled' - Taken'
    BY <1>1 DEF Appended
  <2>2. ASSUME NEW k \in Taken .. Filled + dn - 1
        PROVE  Sends'[k] = sending'[k - Taken + 1]
    <3>1. k \in Places
      BY <1>1
    <3>2. CASE k < Filled
      <4>1. k \in Taken .. Filled - 1 /\ k - Taken + 1 \in 1 .. Len(sending)
        BY <1>1, <3>2
      <4> QED BY <3>1, <3>2, <4>1 DEF TxFifo, Appended
    <3>3. CASE k >= Filled
      <4>1. ~ (k < Filled \/ k >= Filled + dn)
        BY <1>1, <3>3
      <4>2. Len(sending) + (k - Filled + 1) = k - Taken + 1
        BY <1>1
      <4>3. Sends'[k] = sending'[Len(sending) + (k - Filled + 1)]
        BY <3>1, <4>1 DEF Appended
      <4> QED BY <4>2, <4>3
    <3> QED BY <3>2, <3>3, <1>1
  <2>3. \A k \in Taken' .. Filled' - 1 : Sends'[k] = sending'[k - Taken' + 1]
    BY <1>1, <2>2
  <2> QED BY <2>1, <2>3 DEF TxFifo
<1>7. TxHeld'
  <2>1. \A k \in Places : k >= Filled' => Frees'[k] = NULL
    BY <1>1, <1>4
  <2>2. \A k \in Places : Frees'[k] # NULL => Frees'[k] \in held'
    BY <1>1, <1>4 DEF TxHeld
  <2>3. ASSUME NEW x \in held' PROVE \E k \in Places : Frees'[k] = x
    <3>1. CASE x = p
      <4>1. Filled + dn - 1 \in Places /\ Frees'[Filled + dn - 1] = p
        BY <1>1, <1>4
      <4> QED BY <3>1, <4>1
    <3>2. CASE x \in held
      <4>1. PICK k \in Places : Frees[k] = x
        BY <3>2 DEF TxHeld
      <4>2. x # NULL
        BY <3>2 DEF TxTypes
      <4>3. k < Filled
        BY <1>1, <1>3, <4>1, <4>2
      <4> QED BY <1>4, <4>1, <4>3
    <3> QED BY <1>1, <3>1, <3>2
  <2>4. ASSUME NEW j \in Places, NEW k \in Places, Frees'[j] # NULL, Frees'[j] = Frees'[k]
        PROVE  j = k
    <3>1. \A m \in Places : Frees[m] # p
      BY <1>1 DEF TxHeld
    <3> QED BY <1>1, <1>4, <2>4, <3>1 DEF TxHeld
  <2> QED BY <2>1, <2>2, <2>3, <2>4 DEF TxHeld
<1>8. TxEnds'
  <2>1. ASSUME NEW k \in Taken .. Filled + dn - 1
        PROVE  \E m \in k .. Filled + dn - 1 :
                   Frees'[m] # NULL /\ Frees'[m] = sending'[k - Taken + 1][1]
    <3>1. CASE k < Filled
      <4>1. k \in Taken .. Filled - 1 /\ k - Taken + 1 \in 1 .. Len(sending)
        BY <1>1, <3>1
      <4>2. PICK m \in k .. Filled - 1 :
                Frees[m] # NULL /\ Frees[m] = sending[k - Taken + 1][1]
        BY <4>1 DEF TxEnds
      <4>3. m \in Places /\ m < Filled /\ m \in k .. Filled + dn - 1
        BY <1>1, <3>1
      <4>4. Frees'[m] = Frees[m] /\ sending'[k - Taken + 1] = sending[k - Taken + 1]
        BY <1>4, <4>1, <4>3 DEF Appended
      <4> QED BY <4>2, <4>3, <4>4
    <3>2. CASE k >= Filled
      <4>1. /\ Filled + dn - 1 \in k .. Filled + dn - 1 /\ Filled + dn - 1 \in Places
            /\ ~ (Filled + dn - 1 < Filled)
        BY <1>1, <3>2
      <4>2. Frees'[Filled + dn - 1] = p
        BY <1>4, <4>1
      <4>3. k - Filled + 1 \in 1 .. dn /\ Len(sending) + (k - Filled + 1) = k - Taken + 1
        BY <1>1, <3>2
      <4>4. sending'[k - Taken + 1][1] = p
        BY <4>3 DEF Appended
      <4> QED BY <1>1, <4>1, <4>2, <4>4
    <3> QED BY <1>1, <3>1, <3>2
  <2> QED BY <1>1, <2>1 DEF TxEnds
<1>9. TxNamed'
  <2>1. ASSUME NEW k \in Places, Frees'[k] # NULL
        PROVE  \/ \A j \in 0 .. k - 1 : Frees'[j] = NULL
               \/ \E q \in 0 .. k :
                     /\ Named(Frees'[k], Behind(tx.last, q))
                     /\ \A j \in q .. k - 1 : Frees'[j] = NULL
    <3>1. CASE k < Filled
      <4>1. Frees'[k] = Frees[k] /\ \A j \in 0 .. k - 1 : Frees'[j] = Frees[j]
        BY <1>1, <1>4, <3>1
      <4>2. \/ \A j \in 0 .. k - 1 : Frees[j] = NULL
            \/ \E q \in 0 .. k :
                  /\ Named(Frees[k], Behind(tx.last, q))
                  /\ \A j \in q .. k - 1 : Frees[j] = NULL
        BY <2>1, <4>1 DEF TxNamed
      <4>3. \A q \in 0 .. k : \A j \in q .. k - 1 : j \in 0 .. k - 1
        BY <1>1
      <4> QED BY <4>1, <4>2, <4>3
    <3>2. CASE k >= Filled
      <4>1. k = Filled + dn - 1 /\ Frees'[k] = p
        BY <1>1, <1>4, <2>1, <3>2
      <4>2. Filled \in 0 .. k /\ Named(Frees'[k], Behind(tx.last, Filled))
        BY <1>1, <3>2, <4>1, Positions DEF Appended
      <4>3. \A j \in Filled .. k - 1 :
                j \in Places /\ ~ (j < Filled) /\ j # Filled + dn - 1
        BY <1>1, <4>1
      <4>4. \A j \in Filled .. k - 1 : Frees'[j] = NULL
        BY <1>4, <4>3
      <4> QED BY <4>2, <4>4
    <3> QED BY <1>1, <3>1, <3>2
  <2> QED BY <1>1, <2>1 DEF TxNamed
<1> QED BY <1>5, <1>6, <1>7, <1>8, <1>9

\* The EMAC sends the first descriptor that it has.
LEMMA HwSendKeeps ==
    ASSUME RingInv, HwSend
    PROVE  RingInv' /\ Taken' = Taken + 1 /\ tx'.last = tx.last
<1> USE DEF RingInv
<1>1. /\ Taken \in Nat /\ Filled \in Nat /\ N \in Nat /\ Places = 0 .. N - 1
      /\ Taken < Filled /\ Filled <= N - 1 /\ Len(sending) = Filled - Taken
  <2>1. Taken # Filled
    BY Positions DEF HwSend
  <2> QED BY <2>1, Positions DEF TxOrder, TxFifo
<1>2. /\ tx' = [tx EXCEPT !.consume = Step(tx.consume, N)]
      /\ txb' = txb /\ held' = held /\ sending' = Tail(sending)
      /\ ptxd' = [ptxd EXCEPT ![tx.consume] = <<NULL, FALSE>>]
  BY DEF HwSend
<1>3. Step(tx.consume, N) = Behind(tx.last, Taken + 1)
  <2>1. 1 \in 0 .. N - 1 - Taken /\ Taken \in 0 .. N - 1
    BY <1>1
  <2>2. Behind(Behind(tx.last, Taken), 1) = Behind(tx.last, Taken + 1)
    BY <2>1, Positions, Round
  <2> QED BY <2>2, Positions, StepBehind
<1>4. /\ tx' \in [produce : Descs(N), consume : Descs(N), last : Descs(N)]
      /\ tx'.last = tx.last /\ tx'.produce = tx.produce
      /\ tx'.consume = Behind(tx.last, Taken + 1)
  BY <1>2, <1>3, Positions, StepBehind DEF TxTypes
<1>5. Taken' = Taken + 1 /\ Filled' = Filled
  <2>1. Taken + 1 \in 0 .. N - 1
    BY <1>1
  <2> QED BY <1>4, <2>1, Positions, Round DEF Taken, Filled
<1>6. /\ sending' \in Seq(Entry) /\ Len(sending') = Len(sending) - 1
      /\ \A n \in 1 .. Len(sending) - 1 : sending'[n] = sending[n + 1]
  <2>1. sending \in Seq(Entry) /\ sending # <<>>
    BY <1>1 DEF TxTypes
  <2> QED BY <1>2, <2>1, TailFacts
<1>7. TxTypes'
  BY <1>2, <1>4, <1>6 DEF TxTypes
<1>8. Frees' = Frees
  BY <1>2, <1>4 DEF Frees
<1>9. \A k \in Places : k # Taken => Sends'[k] = Sends[k]
  <2>1. ASSUME NEW k \in Places, k # Taken PROVE Sends'[k] = Sends[k]
    <3>1. Behind(tx.last, k) # tx.consume
      BY <2>1, Positions, OnePosition
    <3>2. Sends'[k] = ptxd'[Behind(tx.last, k)] /\ Sends[k] = ptxd[Behind(tx.last, k)]
      BY <1>4 DEF Sends
    <3>3. ptxd'[Behind(tx.last, k)] = ptxd[Behind(tx.last, k)]
      BY <1>2, <3>1
    <3> QED BY <3>2, <3>3
  <2> QED BY <2>1
<1>10. TxFifo'
  <2>1. ASSUME NEW k \in Taken + 1 .. Filled - 1
        PROVE  Sends'[k] = sending'[k - (Taken + 1) + 1]
    <3>1. /\ k \in Places /\ k # Taken /\ k \in Taken .. Filled - 1
          /\ k - (Taken + 1) + 1 \in 1 .. Len(sending) - 1
          /\ k - (Taken + 1) + 1 + 1 = k - Taken + 1
      BY <1>1
    <3>2. sending'[k - (Taken + 1) + 1] = sending[k - Taken + 1]
      BY <1>6, <3>1
    <3> QED BY <1>9, <3>1, <3>2 DEF TxFifo
  <2> QED BY <1>1, <1>5, <1>6, <2>1 DEF TxFifo
<1>11. TxOrder' /\ TxHeld' /\ TxNamed'
  BY <1>1, <1>2, <1>4, <1>5, <1>8 DEF TxOrder, TxHeld, TxNamed
<1>12. TxEnds'
  <2>1. ASSUME NEW k \in Taken + 1 .. Filled - 1
        PROVE  \E m \in k .. Filled - 1 :
                   Frees[m] # NULL /\ Frees[m] = sending'[k - (Taken + 1) + 1][1]
    <3>1. /\ k \in Taken .. Filled - 1
          /\ k - (Taken + 1) + 1 \in 1 .. Len(sending) - 1
          /\ k - (Taken + 1) + 1 + 1 = k - Taken + 1
      BY <1>1
    <3>2. sending'[k - (Taken + 1) + 1] = sending[k - Taken + 1]
      BY <1>6, <3>1
    <3> QED BY <3>1, <3>2 DEF TxEnds
  <2> QED BY <1>5, <1>8, <2>1 DEF TxEnds
<1> QED BY <1>4, <1>5, <1>7, <1>10, <1>11, <1>12

\* packet_tx reclaims the first descriptor that was sent.
LEMMA ReclaimKeeps ==
    ASSUME RingInv, CleanerBehind, lpc_tx_reclaim_st
    PROVE  RingInv' /\ CleanerBehind'
<1> USE DEF RingInv
<1>1. /\ Taken \in Nat /\ Filled \in Nat /\ N \in Nat /\ Places = 0 .. N - 1
      /\ Taken <= Filled /\ Filled <= N - 1 /\ Len(sending) = Filled - Taken /\ N >= 2
  BY Positions DEF TxOrder, TxFifo
<1>2. /\ tx' = [tx EXCEPT !.last = Step(tx.last, N)]
      /\ txb' = [txb EXCEPT ![tx.last] = NULL]
      /\ held' = held \ {txb[tx.last]}
      /\ ptxd' = ptxd /\ sending' = sending /\ cleaner' = cleaner
      /\ cleaner.pc = "reclaim" /\ cleaner.cidx # tx.last /\ cleaner.cidx \in Descs(N)
  BY DEF lpc_tx_reclaim_st, CleanerBehind
<1>3. /\ tx' \in [produce : Descs(N), consume : Descs(N), last : Descs(N)]
      /\ tx'.last = Behind(tx.last, 1) /\ tx'.produce = tx.produce
      /\ tx'.consume = tx.consume
  BY <1>2, Positions, StepBehind DEF TxTypes
<1>4. ASSUME NEW j \in Descs(N), Off(tx.last, j) > 0
      PROVE  Off(tx'.last, j) = Off(tx.last, j) - 1
  BY <1>3, <1>4, Positions, Nearer
<1>5. Off(tx.last, cleaner.cidx) > 0 /\ Off(tx.last, cleaner.cidx) \in Nat
  <2>1. Off(tx.last, cleaner.cidx) \in 0 .. N - 1
        /\ Behind(tx.last, Off(tx.last, cleaner.cidx)) = cleaner.cidx
    BY <1>2, Positions, Back
  <2>2. Behind(tx.last, 0) = tx.last
    BY <1>1, Positions DEF Behind, Descs
  <2> QED BY <1>2, <2>1, <2>2
<1>6. Taken > 0
  BY <1>1, <1>2, <1>5 DEF CleanerBehind
<1>7. Taken' = Taken - 1 /\ Filled' = Filled - 1
  BY <1>1, <1>3, <1>4, <1>6, Positions DEF Taken, Filled
<1>8. CleanerBehind'
  BY <1>1, <1>2, <1>4, <1>5, <1>7 DEF CleanerBehind
<1>9. TxTypes'
  BY <1>2, <1>3 DEF TxTypes, NULL
<1>10. ASSUME NEW k \in Places, k < N - 1
       PROVE  /\ Behind(tx'.last, k) = Behind(tx.last, k + 1)
              /\ Frees'[k] = Frees[k + 1] /\ Sends'[k] = Sends[k + 1]
  <2>1. k + 1 \in Places /\ k + 1 # 0 /\ 0 \in Places
    BY <1>1, <1>10
  <2>2. Behind(tx'.last, k) = Behind(tx.last, k + 1)
    BY <1>1, <1>3, <1>10, Positions, Round
  <2>3. Behind(tx.last, 0) = tx.last
    BY Positions, Here
  <2>4. Behind(tx.last, k + 1) # tx.last
    BY <2>1, <2>3, OnePosition
  <2>5. Frees'[k] = txb'[Behind(tx'.last, k)] /\ Sends'[k] = ptxd'[Behind(tx'.last, k)]
    BY DEF Frees, Sends
  <2>6. Frees[k + 1] = txb[Behind(tx.last, k + 1)] /\ Sends[k + 1] = ptxd[Behind(tx.last, k + 1)]
    BY <2>1, Positions
  <2>7. txb'[Behind(tx.last, k + 1)] = txb[Behind(tx.last, k + 1)]
    BY <1>2, <2>4
  <2> QED BY <1>2, <2>2, <2>5, <2>6, <2>7
<1>11. Frees'[N - 1] = NULL
  <2>1. N - 1 \in Places
    BY <1>1
  <2>2. Behind(tx'.last, N - 1) = tx.last
    BY <1>1, <1>3, <2>1, Positions, Round
  <2>3. Frees'[N - 1] = txb'[Behind(tx'.last, N - 1)]
    BY <2>1 DEF Frees
  <2> QED BY <1>2, <2>2, <2>3, Positions DEF TxTypes
<1>12. held' = held \ {Frees[0]} /\ 0 \in Places
  <2>1. Behind(tx.last, 0) = tx.last /\ 0 \in Places
    BY <1>1, Positions DEF Behind, Descs
  <2> QED BY <1>2, <2>1, Positions
<1>13. TxOrder'
  BY <1>1, <1>6, <1>7 DEF TxOrder
<1>14. TxFifo'
  <2>1. ASSUME NEW k \in Taken - 1 .. Filled - 2
        PROVE  Sends'[k] = sending[k - (Taken - 1) + 1]
    <3>1. /\ k \in Places /\ k < N - 1 /\ k + 1 \in Taken .. Filled - 1
          /\ k - (Taken - 1) + 1 = (k + 1) - Taken + 1
      BY <1>1, <1>6
    <3> QED BY <1>10, <3>1 DEF TxFifo
  <2>2. Filled - 2 = (Filled - 1) - 1
    BY <1>1
  <2> QED BY <1>1, <1>2, <1>7, <2>1, <2>2 DEF TxFifo
<1>15. TxHeld'
  <2>1. ASSUME NEW k \in Places, k >= Filled - 1 PROVE Frees'[k] = NULL
    <3>1. CASE k = N - 1
      BY <1>11, <3>1
    <3>2. CASE k < N - 1
      <4>1. k + 1 \in Places /\ k + 1 >= Filled
        BY <1>1, <2>1, <3>2
      <4> QED BY <1>10, <3>2, <4>1 DEF TxHeld
    <3> QED BY <1>1, <3>1, <3>2
  <2>2. ASSUME NEW k \in Places, Frees'[k] # NULL
        PROVE  k < N - 1 /\ k + 1 \in Places /\ k + 1 # 0 /\ Frees'[k] = Frees[k + 1]
    BY <1>1, <1>10, <1>11, <2>2
  <2>3. ASSUME NEW k \in Places, Frees'[k] # NULL PROVE Frees'[k] \in held'
    BY <1>12, <2>2, <2>3 DEF TxHeld
  <2>4. ASSUME NEW x \in held' PROVE \E k \in Places : Frees'[k] = x
    <3>1. x \in held /\ x # Frees[0]
      BY <1>12
    <3>2. PICK k \in Places : Frees[k] = x
      BY <3>1 DEF TxHeld
    <3>3. k # 0
      BY <3>1, <3>2
    <3>4. k - 1 \in Places /\ k - 1 < N - 1 /\ (k - 1) + 1 = k
      BY <1>1, <3>3
    <3>5. Frees'[k - 1] = Frees[k]
      BY <1>10, <3>4
    <3> QED BY <3>2, <3>4, <3>5
  <2>5. ASSUME NEW j \in Places, NEW k \in Places, Frees'[j] # NULL, Frees'[j] = Frees'[k]
        PROVE  j = k
    <3>1. j + 1 = k + 1
      BY <2>2, <2>5 DEF TxHeld
    <3> QED BY <1>1, <3>1
  <2> QED BY <1>7, <2>1, <2>3, <2>4, <2>5 DEF TxHeld
<1>16. TxEnds'
  <2>1. ASSUME NEW k \in Taken - 1 .. Filled - 2
        PROVE  \E m \in k .. Filled - 2 :
                   Frees'[m] # NULL /\ Frees'[m] = sending[k - (Taken - 1) + 1][1]
    <3>1. k + 1 \in Taken .. Filled - 1 /\ k - (Taken - 1) + 1 = (k + 1) - Taken + 1
      BY <1>1, <1>6
    <3>2. PICK m \in (k + 1) .. Filled - 1 :
              Frees[m] # NULL /\ Frees[m] = sending[(k + 1) - Taken + 1][1]
      BY <3>1 DEF TxEnds
    <3>3. m - 1 \in k .. Filled - 2 /\ m - 1 \in Places /\ m - 1 < N - 1 /\ (m - 1) + 1 = m
      BY <1>1, <1>6, <3>1
    <3>4. Frees'[m - 1] = Frees[m]
      BY <1>10, <3>3
    <3> QED BY <3>1, <3>2, <3>3, <3>4
  <2>2. Filled - 2 = (Filled - 1) - 1
    BY <1>1
  <2> QED BY <1>2, <1>7, <2>1, <2>2 DEF TxEnds
<1>17. TxNamed'
  <2>1. ASSUME NEW k \in Places, Frees'[k] # NULL
        PROVE  \/ \A j \in 0 .. k - 1 : Frees'[j] = NULL
               \/ \E q \in 0 .. k :
                     /\ Named(Frees'[k], Behind(tx'.last, q))
                     /\ \A j \in q .. k - 1 : Frees'[j] = NULL
    <3>1. k < N - 1 /\ k + 1 \in Places /\ Frees'[k] = Frees[k + 1]
      BY <1>1, <1>10, <1>11, <2>1
    <3>2. ASSUME NEW j \in 0 .. k - 1
          PROVE  Frees'[j] = Frees[j + 1] /\ j + 1 \in 0 .. (k + 1) - 1
      <4>1. j \in Places /\ j < N - 1
        BY <1>1, <3>1
      <4> QED BY <1>10, <4>1, <1>1
    <3>3. CASE \A j \in 0 .. (k + 1) - 1 : Frees[j] = NULL
      BY <3>2, <3>3
    <3>4. CASE \E q \in 0 .. k + 1 :
                  /\ Named(Frees[k + 1], Behind(tx.last, q))
                  /\ \A j \in q .. (k + 1) - 1 : Frees[j] = NULL
      <4>1. PICK q \in 0 .. k + 1 :
                  /\ Named(Frees[k + 1], Behind(tx.last, q))
                  /\ \A j \in q .. (k + 1) - 1 : Frees[j] = NULL
        BY <3>4
      <4>2. CASE q = 0
        BY <3>2, <4>1, <4>2
      <4>3. CASE q # 0
        <5>1. /\ q - 1 \in 0 .. k /\ q - 1 \in Places /\ q - 1 < N - 1 /\ (q - 1) + 1 = q
              /\ \A j \in (q - 1) .. k - 1 : j \in 0 .. k - 1 /\ j + 1 \in q .. (k + 1) - 1
          BY <1>1, <3>1, <4>3
        <5>2. Named(Frees'[k], Behind(tx'.last, q - 1))
          BY <1>10, <3>1, <4>1, <5>1
        <5>3. \A j \in (q - 1) .. k - 1 : Frees'[j] = NULL
          BY <3>2, <4>1, <5>1
        <5> QED BY <5>1, <5>2, <5>3
      <4> QED BY <4>2, <4>3
    <3> QED BY <2>1, <3>1, <3>3, <3>4 DEF TxNamed
  <2> QED BY <2>1 DEF TxNamed
<1> QED BY <1>8, <1>9, <1>13, <1>14, <1>15, <1>16, <1>17

-----------------------------------------------------------------------------
\* A step that leaves the ring alone.
LEMMA RingSame ==
    ASSUME RingInv, UNCHANGED ring
    PROVE  RingInv' /\ Taken' = Taken /\ tx' = tx
<1>1. tx' = tx /\ ptxd' = ptxd /\ txb' = txb /\ held' = held /\ sending' = sending
  BY DEF ring
<1>2. Taken' = Taken /\ Filled' = Filled /\ Frees' = Frees /\ Sends' = Sends
  BY <1>1 DEF Taken, Filled, Frees, Sends
<1> QED BY <1>1, <1>2 DEF RingInv, TxTypes, TxOrder, TxFifo, TxHeld, TxEnds, TxNamed

\* Calls of lpc_low_level_output go on with a count of descriptors.
LEMMA CallsStep ==
    ASSUME CallsOK, TxTypes, NEW s \in Senders,
           SenderGoesOn(s) \/ \E dn \in Clens : Output(s, dn)
    PROVE  CallsOK'
<1>1. /\ sender \in [Senders -> [pc : {"idle", "ready", "room", "wait", "index", "fill"},
                                dn : Nat, idx : Descs(N)]]
      /\ tx.consume \in Descs(N) /\ tx.produce \in Descs(N) /\ 0 \in Descs(N)
      /\ Clens \subseteq Nat
  BY EmacAssumption DEF CallsOK, TxTypes, Descs
<1>2. ASSUME /\ sender' \in [Senders -> [pc : {"idle", "ready", "room", "wait", "index", "fill"},
                                    dn : Nat, idx : Descs(N)]]
             /\ \A r \in Senders : r # s => sender'[r] = sender[r]
             /\ sender'[s].pc # "idle" => sender'[s].dn \in Clens
      PROVE  CallsOK'
  BY <1>2 DEF CallsOK
<1>3. ASSUME NEW dn \in Clens, Output(s, dn) PROVE CallsOK'
  <2>1. sender' \in [Senders -> [pc : {"idle", "ready", "room", "wait", "index", "fill"},
                                    dn : Nat, idx : Descs(N)]]
    <3>1. dn \in Nat
      BY <1>1
    <3>2. sender' = [sender EXCEPT ![s].pc = "ready", ![s].dn = dn]
      BY <1>3 DEF Output
    <3> QED BY <1>1, <3>1, <3>2
  <2>2. \A r \in Senders : r # s => sender'[r] = sender[r]
    BY <1>1, <1>3 DEF Output
  <2>3. sender'[s].pc # "idle" => sender'[s].dn \in Clens
    BY <1>1, <1>3 DEF Output, CallsOK
  <2> QED BY <1>2, <2>1, <2>2, <2>3
<1>4. CASE ReadConsumeIndex(s)
  <2>1. sender' \in [Senders -> [pc : {"idle", "ready", "room", "wait", "index", "fill"},
                                    dn : Nat, idx : Descs(N)]]
    BY <1>1, <1>4 DEF ReadConsumeIndex
  <2>2. \A r \in Senders : r # s => sender'[r] = sender[r]
    BY <1>1, <1>4 DEF ReadConsumeIndex
  <2>3. sender'[s].pc # "idle" => sender'[s].dn \in Clens
    BY <1>1, <1>4 DEF ReadConsumeIndex, CallsOK
  <2> QED BY <1>2, <2>1, <2>2, <2>3
<1>5. CASE Room(s)
  <2>1. sender' \in [Senders -> [pc : {"idle", "ready", "room", "wait", "index", "fill"},
                                    dn : Nat, idx : Descs(N)]]
    BY <1>1, <1>5 DEF Room
  <2>2. \A r \in Senders : r # s => sender'[r] = sender[r]
    BY <1>1, <1>5 DEF Room
  <2>3. sender'[s].pc # "idle" => sender'[s].dn \in Clens
    BY <1>1, <1>5 DEF Room, CallsOK
  <2> QED BY <1>2, <2>1, <2>2, <2>3
<1>6. CASE WaitForToken(s)
  <2>1. sender' \in [Senders -> [pc : {"idle", "ready", "room", "wait", "index", "fill"},
                                    dn : Nat, idx : Descs(N)]]
    BY <1>1, <1>6 DEF WaitForToken
  <2>2. \A r \in Senders : r # s => sender'[r] = sender[r]
    BY <1>1, <1>6 DEF WaitForToken
  <2>3. sender'[s].pc # "idle" => sender'[s].dn \in Clens
    BY <1>1, <1>6 DEF WaitForToken, CallsOK
  <2> QED BY <1>2, <2>1, <2>2, <2>3
<1>7. CASE TakeIndex(s)
  <2>1. sender' \in [Senders -> [pc : {"idle", "ready", "room", "wait", "index", "fill"},
                                    dn : Nat, idx : Descs(N)]]
    BY <1>1, <1>7 DEF TakeIndex
  <2>2. \A r \in Senders : r # s => sender'[r] = sender[r]
    BY <1>1, <1>7 DEF TakeIndex
  <2>3. sender'[s].pc # "idle" => sender'[s].dn \in Clens
    BY <1>1, <1>7 DEF TakeIndex, CallsOK
  <2> QED BY <1>2, <2>1, <2>2, <2>3
<1>8. CASE Fill(s)
  <2>1. sender' \in [Senders -> [pc : {"idle", "ready", "room", "wait", "index", "fill"},
                                    dn : Nat, idx : Descs(N)]]
    BY <1>1, <1>8 DEF Fill
  <2>2. \A r \in Senders : r # s => sender'[r] = sender[r]
    BY <1>1, <1>8 DEF Fill
  <2>3. sender'[s].pc # "idle" => sender'[s].dn \in Clens
    BY <1>1, <1>8 DEF Fill, CallsOK
  <2> QED BY <1>2, <2>1, <2>2, <2>3
<1> QED BY <1>3, <1>4, <1>5, <1>6, <1>7, <1>8 DEF SenderGoesOn

\* The cleanup task does not go past what the EMAC has sent.
LEMMA CleanerStays ==
    ASSUME CleanerBehind, TxTypes, cleaner' = cleaner, tx'.last = tx.last, Taken' >= Taken,
           Taken' \in Nat
    PROVE  CleanerBehind'
<1>1. cleaner.pc = "reclaim" => Off(tx.last, cleaner.cidx) \in Nat
  BY Back DEF CleanerBehind, TxTypes
<1> QED BY <1>1, Positions DEF CleanerBehind

\* Every step of the sending side that does not clash keeps the ring in order.
LEMMA TransmitKeeps ==
    ASSUME SceneOK, TxInv, Transmit, ~ clashed'
    PROVE  TxInv'
<1> USE DEF TxInv
<1>0. TxTypes /\ Taken \in Nat /\ Taken >= Taken
  BY Positions DEF RingInv
<1>1. ASSUME NEW s \in Senders, SenderGoesOn(s) \/ \E dn \in Clens : Output(s, dn), ~ Fill(s)
      PROVE  TxInv'
  <2>1. UNCHANGED ring /\ cleaner' = cleaner
    BY <1>1 DEF SenderGoesOn, Output, ReadConsumeIndex, Room, WaitForToken, TakeIndex
  <2>2. RingInv' /\ Taken' = Taken /\ tx' = tx
    BY <2>1, RingSame
  <2>3. CleanerBehind'
    BY <1>0, <2>1, <2>2, CleanerStays
  <2> QED BY <1>0, <1>1, <2>2, <2>3, CallsStep
<1>2. ASSUME NEW s \in Senders, Fill(s) PROVE TxInv'
  <2>1. TxTypes' /\ \E p, dn : Appended(p, dn)
    BY <1>2, FillTypes
  <2>2. PICK p, dn : Appended(p, dn)
    BY <2>1
  <2>3. RingInv'
    BY <2>1, <2>2, AppendedKeeps
  <2>4. CleanerBehind'
    BY <1>0, <1>2, <2>2, CleanerStays DEF Appended, Fill
  <2> QED BY <1>0, <1>2, <2>3, <2>4, CallsStep DEF SenderGoesOn
<1>3. CASE HwSend
  <2>1. RingInv' /\ Taken' = Taken + 1 /\ tx'.last = tx.last
    BY <1>3, HwSendKeeps
  <2>2. CleanerBehind'
    BY <1>0, <1>3, <2>1, CleanerStays DEF HwSend
  <2>3. CallsOK'
    BY <1>3 DEF HwSend, CallsOK
  <2> QED BY <2>1, <2>2, <2>3
<1>4. CASE lpc_tx_reclaim_st
  <2>1. RingInv' /\ CleanerBehind'
    BY <1>4, ReclaimKeeps
  <2>2. CallsOK'
    BY <1>4 DEF lpc_tx_reclaim_st, CallsOK
  <2> QED BY <2>1, <2>2
<1>5. CASE CleanerWakes \/ lpc_tx_reclaim \/ ReclaimDone
  <2>1. UNCHANGED ring /\ sender' = sender
    BY <1>5 DEF CleanerWakes, lpc_tx_reclaim, ReclaimDone
  <2>2. RingInv' /\ Taken' = Taken /\ tx' = tx
    BY <2>1, RingSame
  <2>3. 0 \in Descs(N) /\ tx.consume \in Descs(N) /\ Taken = Off(tx.last, tx.consume)
    BY <1>0, Positions, EmacAssumption DEF Descs, Taken
  <2>4. \/ cleaner' = [cleaner EXCEPT !.pc = "read"]
        \/ cleaner' = [pc |-> "reclaim", cidx |-> tx.consume]
        \/ cleaner' = [pc |-> "wait", cidx |-> 0]
    BY <1>5 DEF CleanerWakes, lpc_tx_reclaim, ReclaimDone
  <2>5. CleanerBehind'
    BY <1>0, <2>2, <2>3, <2>4 DEF CleanerBehind
  <2>6. CallsOK'
    BY <2>1 DEF CallsOK
  <2> QED BY <2>2, <2>5, <2>6
<1>6. ASSUME NEW s \in DOMAIN scene.calls,
             SenderGoesOn(s) \/ \E dn \in Clens : Output(s, dn)
      PROVE  TxInv'
  BY <1>1, <1>2, <1>6 DEF SceneOK
<1> QED BY <1>3, <1>4, <1>5, <1>6 DEF Transmit, packet_tx

\* Steps of the receiving side and the interrupt do not touch the transmit ring.
LEMMA TxSame ==
    ASSUME TxInv, UNCHANGED <<ring, sender, cleaner>>
    PROVE  TxInv'
<1>1. RingInv' /\ Taken' = Taken /\ tx' = tx
  BY RingSame DEF TxInv
<1> QED BY <1>1 DEF TxInv, CallsOK, CleanerBehind

\* The calls that are left are calls of threads that send.
LEMMA SceneNext ==
    ASSUME SceneOK, [Next]_vars
    PROVE  SceneOK'
<1>1. \A n \in Nat : n > 0 => Less(n) \in Nat
  BY DEF Less
<1>2. ASSUME NEW s \in DOMAIN scene.calls, NEW dn, Output(s, dn) PROVE SceneOK'
  <2>1. scene.calls[s] \in Nat /\ Less(scene.calls[s]) \in Nat
    BY <1>1, <1>2 DEF Output, SceneOK
  <2>2. scene' = [calls |-> [scene.calls EXCEPT ![s] = Less(scene.calls[s])],
                  frames |-> scene.frames]
    BY <1>2 DEF Output, SceneOK
  <2>3. [scene.calls EXCEPT ![s] = Less(scene.calls[s])] \in [DOMAIN scene.calls -> Nat]
    BY <2>1 DEF SceneOK
  <2> QED BY <2>2, <2>3 DEF SceneOK
<1>3. ASSUME NEW kind, HwReceive(kind) PROVE SceneOK'
  <2>1. Less(scene.frames) \in Nat
    BY <1>1, <1>3 DEF HwReceive, SceneOK
  <2>2. scene' = [calls |-> scene.calls, frames |-> Less(scene.frames)]
    BY <1>3 DEF HwReceive, SceneOK
  <2> QED BY <2>1, <2>2 DEF SceneOK
<1>4. ASSUME scene' = scene PROVE SceneOK'
  BY <1>4 DEF SceneOK
<1>5. CASE UNCHANGED vars
  BY <1>4, <1>5 DEF vars
<1>6. CASE Transmit
  <2>1. CASE \/ \E s \in DOMAIN scene.calls : SenderGoesOn(s)
             \/ packet_tx \/ HwSend
    BY <1>4, <2>1 DEF SenderGoesOn, packet_tx, ReadConsumeIndex,
       Room, WaitForToken, TakeIndex, Fill, HwSend, CleanerWakes, lpc_tx_reclaim,
       lpc_tx_reclaim_st, ReclaimDone
  <2> QED BY <1>2, <1>6, <2>1 DEF Transmit
<1>7. CASE Receive
  <2>1. CASE packet_rx \/ \E p \in upper : StackFrees(p)
    BY <1>4, <2>1 DEF packet_rx, ReceiverWakes, RingEmpty, DropDamaged, TakeBuffer,
       lpc_rx_queue, DropForMemory, lpc_enetif_input, StackFrees
  <2> QED BY <1>3, <1>7, <2>1 DEF Receive
<1>8. CASE \/ ENET_IRQHandler \/ IntClear \/ eth_arch_enable_interrupts
           \/ eth_arch_disable_interrupts
  BY <1>4, <1>8 DEF ENET_IRQHandler, IntClear, eth_arch_enable_interrupts,
     eth_arch_disable_interrupts
<1> QED BY <1>5, <1>6, <1>7, <1>8 DEF Next

\* Only a sending thread changes whether descriptors in use were taken, and
\* never back.
LEMMA OnlyTransmit ==
    ASSUME [Next]_vars, ~ clashed'
    PROVE  ~ clashed /\ (Transmit \/ UNCHANGED <<ring, sender, cleaner>>)
<1>1. CASE UNCHANGED vars
  BY <1>1 DEF vars, txvars, ring
<1>2. CASE Transmit
  BY <1>2 DEF Transmit
<1>3. CASE Receive
  BY <1>3 DEF Receive, packet_rx, HwReceive, StackFrees, ReceiverWakes, RingEmpty,
     DropDamaged, TakeBuffer, lpc_rx_queue, DropForMemory, lpc_enetif_input, txvars, ring
<1>4. CASE \/ ENET_IRQHandler \/ IntClear \/ eth_arch_enable_interrupts
           \/ eth_arch_disable_interrupts
  BY <1>4 DEF ENET_IRQHandler, IntClear, eth_arch_enable_interrupts,
     eth_arch_disable_interrupts, txvars, ring
<1> QED BY <1>1, <1>2, <1>3, <1>4 DEF Next

-----------------------------------------------------------------------------
\* The inductive invariant: the receive buffers are apart always, the transmit
\* ring is in order until a packet is given descriptors in use.
THEOREM Invariance == Spec => []IndInv
<1>1. Init => IndInv
  BY RxInit, TxInit DEF IndInv
<1>2. IndInv /\ [Next]_vars => IndInv'
  <2> SUFFICES ASSUME IndInv, [Next]_vars PROVE IndInv'
    OBVIOUS
  <2>1. SceneOK'
    BY SceneNext DEF IndInv
  <2>2. RxInv'
    <3>1. CASE Next
      BY <3>1, RxNext DEF IndInv
    <3>2. CASE UNCHANGED vars
      BY <3>2, RxSame DEF IndInv, vars, rxvars
    <3> QED BY <3>1, <3>2
  <2>3. ASSUME ~ clashed' PROVE TxInv'
    <3>1. ~ clashed /\ (Transmit \/ UNCHANGED <<ring, sender, cleaner>>)
      BY <2>3, OnlyTransmit
    <3> QED BY <2>3, <3>1, TransmitKeeps, TxSame DEF IndInv
  <2> QED BY <2>1, <2>2, <2>3 DEF IndInv
<1> QED BY <1>1, <1>2, PTL DEF Spec

\* lpc_low_level_output, the EMAC and packet_tx agree on the ring: between
\* TxConsumeIndex and TxProduceIndex is what was handed over and not sent, in
\* order, for every size of the ring, as long as no packet has been given
\* descriptors in use (which lpc_tx_ready does not prevent).
THEOREM RingFifo == Spec => []RingIsFifo
<1>1. IndInv => RingIsFifo
  BY FifoHolds DEF IndInv, TxInv, RingInv, RingIsFifo
<1> QED BY <1>1, Invariance, PTL

\* No packet is freed before it was sent or with two descriptors, and no receive
\* descriptor that is open to the EMAC shares its buffer or has none.
THEOREM Owned == Spec => []BuffersOwned
<1>1. IndInv => BuffersOwned
  <2> SUFFICES ASSUME IndInv PROVE BuffersOwned
    OBVIOUS
  <2>1. ~ clashed =>
            /\ \A n \in DOMAIN sending : sending[n][1] \in held
            /\ \A p \in held : Cardinality({i \in Descs(N) : txb[i] = p}) = 1
    BY TxOwned DEF IndInv, TxInv
  <2>2. ASSUME NEW i \in Descs(R), i # rx.consume \/ rx.free = 0
        PROVE  /\ rxb[i] # NULL
               /\ rxb[i] \notin upper \cup {receiver.p} \cup {rxb[j] : j \in Descs(R) \ {i}}
    <3>1. rxb[i] # NULL
      BY <2>2 DEF IndInv, RxInv, RxBuffers
    <3> QED BY <3>1 DEF IndInv, RxInv, RxOnce
  <2> QED BY <2>1, <2>2 DEF BuffersOwned
<1> QED BY <1>1, Invariance, PTL
=============================================================================
