-------------------------------- MODULE Emac --------------------------------
(* The Ethernet driver (k64f_emac.c): the rings of receive and transmit    *)
(* descriptors that the MAC, its two interrupts, the threads packet_rx and *)
(* packet_tx, and the thread of the stack share. What TXLockMutex covers   *)
(* is one step; so is what is done with one received frame.                *)
EXTENDS Integers, Sequences, FiniteSets, FiniteSetsExt

CONSTANTS
    RxRing, TxRing,   \* ENET_RX_RING_LEN, ENET_TX_RING_LEN
    RxBuffers,        \* pbufs there are for received frames
    TcpipBox,         \* TCPIP_MBOX_SIZE
    MaxArrivals,        \* bound: frames that arrive
    MaxPackets        \* bound: packets the stack sends

ASSUME EmacAssumption ==
    /\ {RxRing, TxRing, RxBuffers, TcpipBox, MaxArrivals, MaxPackets} \subseteq Nat
    /\ RxRing > 1 /\ TxRing > 1 /\ RxBuffers >= RxRing

RxSlots == 0..(RxRing - 1)
TxSlots == 0..(TxRing - 1)

VARIABLES
    rxd,            \* receive descriptors: pbuf, owned by the MAC (Empty), error
    filled, rx_idx, \* where the MAC and packet_rx are in the ring
    held,           \* the last frame the MAC wrote to each pbuf
    spare,          \* pbufs nobody has
    posted,         \* the mailbox of the stack: pbuf and frame
    rx,             \* packet_rx, RxReadySem and the interrupt flag
    frames, taken,  \* counter; the last frame the stack has taken
    txd,            \* transmit descriptors with txb and txb_aligned
    tx_produce_index, tx_consume_index, mac,
    job,            \* the packet low_level_output is at
    tx,             \* xTXDCountSem, TxCleanSem and the interrupt flag
    live,           \* packets whose memory is not given back
    packets, accepted, wire,   \* counter; those written, those sent
    brimmed         \* more descriptors were written than there are free

rxVars == <<rxd, filled, rx_idx, held, spare, posted, rx, frames, taken>>
txVars == <<txd, tx_produce_index, tx_consume_index, mac, job, tx, live, packets, accepted, wire, brimmed>>

EmacInit ==
    /\ rxd = [i \in RxSlots |-> [buf |-> i + 1, empty |-> TRUE, bad |-> FALSE]]
    /\ filled = 0 /\ rx_idx = 0
    /\ held = [b \in 1..RxBuffers |-> 0] /\ spare = (RxRing + 1)..RxBuffers
    /\ posted = <<>> /\ rx = [at |-> "wait", sem |-> 0, irq |-> FALSE]
    /\ frames = 0 /\ taken = 0
    /\ txd = [i \in TxSlots |-> [ready |-> FALSE, last |-> FALSE, pkt |-> 0, txb |-> 0, aligned |-> 0]]
    /\ tx_produce_index = 0 /\ tx_consume_index = 0 /\ mac = 0
    /\ job = [pkt |-> 0, copy |-> FALSE, dn |-> 0]
    /\ tx = [count |-> TxRing, clean |-> 0, irq |-> FALSE]
    /\ live = {} /\ packets = 0 /\ accepted = <<>> /\ wire = <<>> /\ brimmed = FALSE

-----------------------------------------------------------------------------
(* Receiving *)

(* The MAC fills the next descriptor, or has none and drops the frame.     *)
FrameArrives ==
    /\ frames < MaxArrivals /\ frames' = frames + 1
    /\ IF rxd[filled].empty
       THEN /\ \E bad \in BOOLEAN : rxd' = [rxd EXCEPT ![filled].empty = FALSE, ![filled].bad = bad]
            /\ held' = [held EXCEPT ![rxd[filled].buf] = frames']
            /\ filled' = (filled + 1) % RxRing /\ rx' = [rx EXCEPT !.irq = TRUE]
       ELSE UNCHANGED <<rxd, held, filled, rx>>
    /\ UNCHANGED <<rx_idx, spare, posted, taken, txVars>>

RxIsr ==
    /\ rx.irq /\ rx' = [rx EXCEPT !.irq = FALSE, !.sem = @ + 1]
    /\ UNCHANGED <<rxd, filled, rx_idx, held, spare, posted, frames, taken, txVars>>

RxWakes ==
    /\ rx.at = "wait" /\ rx.sem > 0
    /\ rx' = [rx EXCEPT !.at = "look", !.sem = @ - 1]
    /\ UNCHANGED <<rxd, filled, rx_idx, held, spare, posted, frames, taken, txVars>>

RxRests ==
    /\ rx.at = "look" /\ rxd[rx_idx].empty
    /\ rx' = [rx EXCEPT !.at = "wait"]
    /\ UNCHANGED <<rxd, filled, rx_idx, held, spare, posted, frames, taken, txVars>>

Looking == rx.at = "look" /\ ~rxd[rx_idx].empty
Requeued(buf) == rxd' = [rxd EXCEPT ![rx_idx] = [buf |-> buf, empty |-> TRUE, bad |-> FALSE]]
Handed(buf) == Append(posted, [buf |-> buf, frame |-> held[buf]])

(* low_level_input of a frame with an error, or without memory for another *)
(* pbuf: its own goes back to the descriptor.                              *)
FrameDropped ==
    /\ Looking
    /\ Requeued(rxd[rx_idx].buf) /\ rx_idx' = (rx_idx + 1) % RxRing
    /\ UNCHANGED <<filled, held, spare, posted, rx, frames, taken, txVars>>

(* Slip: the descriptor keeps its pbuf.                                    *)
FrameTaken_slip ==
    /\ Looking /\ ~rxd[rx_idx].bad
    /\ \E b \in spare :
          /\ Requeued(rxd[rx_idx].buf)
          /\ \/ /\ Len(posted) < TcpipBox /\ posted' = Handed(rxd[rx_idx].buf)
                /\ spare' = spare \ {b}
             \/ UNCHANGED <<posted, spare>>
    /\ rx_idx' = (rx_idx + 1) % RxRing
    /\ UNCHANGED <<filled, held, rx, frames, taken, txVars>>

(* k64f_enetif_input: another pbuf takes the descriptor, and the frame goes *)
(* to the stack, or is freed if it is of another type or the mailbox full. *)
FrameTaken ==
    /\ Looking /\ ~rxd[rx_idx].bad
    /\ \E b \in spare :
          /\ Requeued(b)
          /\ \/ /\ Len(posted) < TcpipBox /\ posted' = Handed(rxd[rx_idx].buf)
                /\ spare' = spare \ {b}
             \/ /\ spare' = (spare \ {b}) \cup {rxd[rx_idx].buf} /\ UNCHANGED posted
    /\ rx_idx' = (rx_idx + 1) % RxRing
    /\ UNCHANGED <<filled, held, rx, frames, taken, txVars>>

StackTakes ==
    /\ posted # <<>> /\ posted' = Tail(posted)
    /\ taken' = Head(posted).frame /\ spare' = spare \cup {Head(posted).buf}
    /\ UNCHANGED <<rxd, filled, rx_idx, held, rx, frames, txVars>>

RxNext == FrameArrives \/ RxIsr \/ RxWakes \/ RxRests \/ FrameDropped \/ FrameTaken \/ StackTakes

-----------------------------------------------------------------------------
(* Sending *)

(* k64f_tx_ready. While the producer is behind the consumer in the ring    *)
(* one descriptor is kept free; while it is before it, the difference is   *)
(* taken the wrong way round, and there seem to be enough.                 *)
TxReady ==
    LET idx == tx_produce_index  cidx == tx_consume_index
    IN  IF idx = cidx THEN TxRing
        ELSE IF cidx > idx THEN TxRing - 1 - (idx + TxRing - cidx)
        ELSE TxRing - 1 - (cidx - idx)

(* low_level_output up to the wait: a misaligned packet is copied, if there *)
(* is memory, another is kept by a reference.                              *)
OutputStarts ==
    /\ job.pkt = 0 /\ packets < MaxPackets /\ packets' = packets + 1
    /\ \/ UNCHANGED <<job, live, txd>>
       \/ /\ job' = [pkt |-> packets', copy |-> TRUE, dn |-> 1]
          /\ txd' = [txd EXCEPT ![tx_produce_index].aligned = packets']
          /\ live' = live \cup {packets'}
       \/ /\ \E n \in 1..2 : job' = [pkt |-> packets', copy |-> FALSE, dn |-> n]
          /\ txd' = [txd EXCEPT ![tx_produce_index].aligned = 0]
          /\ live' = live \cup {packets'}
    /\ UNCHANGED <<tx_produce_index, tx_consume_index, mac, tx, accepted, wire, brimmed, rxVars>>

OutputWaits ==
    /\ job.dn > TxReady /\ tx.count > 0
    /\ tx' = [tx EXCEPT !.count = @ - 1]
    /\ UNCHANGED <<txd, tx_produce_index, tx_consume_index, mac, job, live, packets, accepted, wire, brimmed, rxVars>>

Used == IF brimmed THEN TxRing ELSE (tx_produce_index + TxRing - tx_consume_index) % TxRing

(* The descriptors are written and given to the MAC; the pbuf is kept in   *)
(* the last one only.                                                      *)
OutputWrites ==
    /\ job.pkt # 0 /\ job.dn <= TxReady
    /\ LET at(j) == (tx_produce_index + j) % TxRing
           written == {at(j) : j \in 0..(job.dn - 1)}
           end == at(job.dn - 1)
       IN  txd' = [i \in TxSlots |->
               IF i \notin written THEN txd[i]
               ELSE [ready |-> TRUE, last |-> i = end, pkt |-> job.pkt,
                     txb |-> IF ~job.copy /\ i = end THEN job.pkt ELSE 0, aligned |-> txd[i].aligned]]
    /\ brimmed' = (brimmed \/ Used + job.dn > TxRing - 1)
    /\ tx_produce_index' = (tx_produce_index + job.dn) % TxRing
    /\ accepted' = Append(accepted, job.pkt)
    /\ job' = [pkt |-> 0, copy |-> FALSE, dn |-> 0]
    /\ UNCHANGED <<tx_consume_index, mac, tx, live, packets, wire, rxVars>>

MacSends ==
    /\ txd[mac].ready /\ txd' = [txd EXCEPT ![mac].ready = FALSE]
    /\ mac' = (mac + 1) % TxRing
    /\ IF txd[mac].last THEN wire' = Append(wire, txd[mac].pkt) /\ tx' = [tx EXCEPT !.irq = TRUE]
       ELSE UNCHANGED <<wire, tx>>
    /\ UNCHANGED <<tx_produce_index, tx_consume_index, job, live, packets, accepted, brimmed, rxVars>>

TxIsr ==
    /\ tx.irq /\ tx' = [tx EXCEPT !.irq = FALSE, !.clean = @ + 1]
    /\ UNCHANGED <<txd, tx_produce_index, tx_consume_index, mac, job, live, packets, accepted, wire, brimmed, rxVars>>

(* packet_tx wakes and reclaims, from the oldest, what the MAC is done with. *)
TxReclaim ==
    LET at(j) == (tx_consume_index + j) % TxRing
        span  == (tx_produce_index + TxRing - tx_consume_index) % TxRing
        n     == Max({k \in 0..span : \A j \in 0..(k - 1) : ~txd[at(j)].ready})
        done  == {at(j) : j \in 0..(n - 1)}
    IN  /\ tx.clean > 0
        /\ tx' = [tx EXCEPT !.clean = @ - 1, !.count = @ + n]
        /\ live' = live \ {IF txd[i].aligned # 0 THEN txd[i].aligned ELSE txd[i].txb : i \in done}
        /\ txd' = [i \in TxSlots |->
               IF i \notin done THEN txd[i]
               ELSE [txd[i] EXCEPT !.aligned = 0, !.txb = IF txd[i].aligned # 0 THEN @ ELSE 0]]
        /\ tx_consume_index' = at(n)
        /\ UNCHANGED <<tx_produce_index, mac, job, packets, accepted, wire, brimmed, rxVars>>

TxNext == OutputStarts \/ OutputWaits \/ OutputWrites \/ MacSends \/ TxIsr \/ TxReclaim

EmacNext == RxNext \/ TxNext
EmacSpec == EmacInit /\ [][EmacNext]_<<rxVars, txVars>>

-----------------------------------------------------------------------------
(* Every pbuf is in one place, the ring is always full of them, a frame    *)
(* the stack was given is not overwritten and comes in order, and none     *)
(* lies in the ring while its thread sleeps for good.                      *)
ReceivesWhole ==
    LET inRing == {rxd[i].buf : i \in RxSlots}
        inBox  == {posted[i].buf : i \in DOMAIN posted}
    IN  /\ Cardinality(inRing) = RxRing /\ Cardinality(inBox) = Len(posted)
        /\ inRing \cap inBox = {} /\ spare = (1..RxBuffers) \ (inRing \cup inBox)
        /\ \A i \in DOMAIN posted :
              /\ held[posted[i].buf] = posted[i].frame
              /\ posted[i].frame > IF i = 1 THEN taken ELSE posted[i - 1].frame
        /\ rx.at = "wait" /\ ~rxd[rx_idx].empty => rx.sem > 0 \/ rx.irq

(* Until the ring is filled to the last descriptor, which tx_ready does    *)
(* not prevent: packets are sent in order and none twice, their memory is  *)
(* given back when the MAC is done with it, and not before, and a producer *)
(* that waits is woken.                                                    *)
SendsWhole ==
    ~brimmed =>
        LET queued(k) == {i \in TxSlots : txd[i].ready /\ txd[i].pkt = k}
            done == Len(wire)
            owned(i) == IF txd[i].aligned # 0 THEN txd[i].aligned ELSE txd[i].txb
        IN  /\ \A i \in 1..done : wire[i] = accepted[i]
            /\ \A i \in (done + 1)..Len(accepted) : queued(accepted[i]) # {}
            /\ live = ({owned(i) : i \in TxSlots} \cup {job.pkt}) \ {0}
            /\ \A i \in TxSlots : txd[i].ready => txd[i].pkt \in live
            /\ job.dn > TxReady /\ tx.count = 0 =>
                  (\E i \in TxSlots : txd[i].ready) \/ tx.irq \/ tx.clean > 0

(* The rings of the driver.                                                *)
RingsSound == ReceivesWhole /\ SendsWhole
=============================================================================
