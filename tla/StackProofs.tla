----------------------------- MODULE StackProofs -----------------------------
(***************************************************************************)
(* What is proved of the parts that carry the TCP/IP stack: the rings of   *)
(* the Ethernet driver, the thread of the stack with its timeouts, the     *)
(* reassembly of fragments; and of the timers of the kernel.               *)
(*                                                                         *)
(* Recursive functions of the models (sums and scans along a list) are     *)
(* reasoned about by their least counterexample.                           *)
(***************************************************************************)
EXTENDS Emac, StackThread, Reassembly, RtxTimer, FiniteSetTheorems, SequenceTheorems, WellFoundedInduction, TLAPS

-----------------------------------------------------------------------------
(***************************************************************************)
(* The rings of the Ethernet driver                                        *)
(***************************************************************************)

(* Places of a ring *)

LEMMA Wraps ==
    ASSUME NEW n \in Nat \ {0}, NEW x \in 0..(2 * n - 1)
    PROVE  x % n = IF x < n THEN x ELSE x - n
<1>1. CASE x < n
  BY <1>1
<1>2. CASE x >= n
  <2>1. x = n * 1 + (x - n) /\ x - n \in 0..(n - 1)
    BY <1>2
  <2>2. x % n \in 0..(n-1)
   OBVIOUS
  <2>3. x = n * (x \div n) + (x % n) /\ x \div n \in Int
   OBVIOUS
  <2>4. x \div n = 1
    <3> DEFINE q == x \div n r == x % n
    <3>0. q \in Int /\ r \in Int /\ x = n * q + r /\ r \in 0..(n-1)
      BY <2>2, <2>3
    <3> HIDE DEF q, r
    <3>1. CASE q <= 0
      <4>1. n * q <= 0
        BY <3>0, <3>1
      <4> QED BY <3>0, <4>1, <1>2
    <3>2. CASE q >= 2
      <4>1. n * q >= n * 2
        BY <3>0, <3>2
      <4> QED BY <3>0, <4>1
    <3>3. CASE q = 1
      BY <3>3 DEF q
    <3> QED BY <3>0, <3>1, <3>2, <3>3
  <2> QED BY <2>1, <2>3, <2>4
<1> QED BY <1>1, <1>2

\* How far b is behind a in a ring of n places.
Dist(n, a, b) == IF b >= a THEN b - a ELSE b + n - a

LEMMA RingPlaces ==
    ASSUME NEW n \in Nat, n > 1, NEW a \in 0..(n - 1)
    PROVE  /\ (a + 1) % n \in 0..(n - 1)
           /\ Dist(n, a, a) = 0
           /\ \A i \in 0..(n - 1) :
                 /\ Dist(n, a, i) \in 0..(n - 1)
                 /\ Dist(n, a, i) = 0 <=> i = a
                 /\ Dist(n, (a + 1) % n, i) = IF i = a THEN n - 1 ELSE Dist(n, a, i) - 1
                 /\ Dist(n, i, (a + 1) % n) = IF Dist(n, i, a) = n - 1 THEN 0 ELSE Dist(n, i, a) + 1
           /\ \A i, j \in 0..(n - 1) : Dist(n, a, i) = Dist(n, a, j) => i = j
<1>1. (a + 1) % n = IF a + 1 < n THEN a + 1 ELSE 0
  <2>1. a + 1 \in 0..(2 * n - 1) /\ a + 1 <= n
    OBVIOUS
  <2>2. (a + 1) % n = IF a + 1 < n THEN a + 1 ELSE a + 1 - n
    BY <2>1, Wraps
  <2> QED BY <2>1, <2>2
<1> DEFINE b == (a + 1) % n
<1> HIDE DEF b
<1>2. b = IF a + 1 < n THEN a + 1 ELSE 0
  BY <1>1 DEF b
<1>3. b \in 0..(n - 1) /\ Dist(n, a, a) = 0
  BY <1>2 DEF Dist
<1>4. \A i \in 0..(n - 1) :
         /\ Dist(n, a, i) \in 0..(n - 1)
         /\ Dist(n, a, i) = 0 <=> i = a
         /\ Dist(n, b, i) = IF i = a THEN n - 1 ELSE Dist(n, a, i) - 1
         /\ Dist(n, i, b) = IF Dist(n, i, a) = n - 1 THEN 0 ELSE Dist(n, i, a) + 1
  BY <1>2 DEF Dist
<1>5. \A i, j \in 0..(n - 1) : Dist(n, a, i) = Dist(n, a, j) => i = j
  BY DEF Dist
<1> QED BY <1>3, <1>4, <1>5 DEF b
-----------------------------------------------------------------------------
(* Receiving: the invariant *)

RxDescriptor == [buf : 1..RxBuffers, empty : BOOLEAN, bad : BOOLEAN]
Frame == [buf : 1..RxBuffers, frame : Nat]
Receiver == [at : {"wait", "look"}, sem : Nat, irq : BOOLEAN]

RxTypeOK ==
    /\ rxd \in [RxSlots -> RxDescriptor] /\ filled \in RxSlots /\ rx_idx \in RxSlots
    /\ held \in [1..RxBuffers -> Nat] /\ spare \subseteq 1..RxBuffers
    /\ rx \in Receiver /\ frames \in Nat /\ taken \in Nat
    /\ posted \in Seq(Frame)

\* Every pbuf is in one place.
InRing == {rxd[i].buf : i \in RxSlots}
InBox  == {posted[i].buf : i \in DOMAIN posted}

OwnPlaces ==
    /\ \A i, j \in RxSlots : rxd[i].buf = rxd[j].buf => i = j
    /\ \A i, j \in DOMAIN posted : posted[i].buf = posted[j].buf => i = j
    /\ \A i \in RxSlots : \A j \in DOMAIN posted : rxd[i].buf # posted[j].buf
    /\ spare = (1..RxBuffers) \ (InRing \cup InBox)

\* The MAC is as far ahead of packet_rx as there are frames in the ring.
FromIdx(i) == Dist(RxRing, rx_idx, i)
Full(i)    == ~rxd[i].empty

FullAhead ==
    \/ \A i \in RxSlots : Full(i) <=> FromIdx(i) < FromIdx(filled)
    \/ filled = rx_idx /\ \A i \in RxSlots : Full(i)

\* Frames are in the order of their arrival, in the ring and in the mailbox.
LastTold == IF posted = <<>> THEN taken ELSE posted[Len(posted)].frame

FramesInOrder ==
    /\ \A i, j \in RxSlots : Full(i) /\ Full(j) /\ FromIdx(i) < FromIdx(j) => held[rxd[i].buf] < held[rxd[j].buf]
    /\ \A i \in RxSlots : Full(i) => LastTold < held[rxd[i].buf] /\ held[rxd[i].buf] <= frames
    /\ LastTold <= frames

PostedInOrder ==
    \A i \in DOMAIN posted :
        /\ held[posted[i].buf] = posted[i].frame
        /\ posted[i].frame > IF i = 1 THEN taken ELSE posted[i - 1].frame

NotAsleep == rx.at = "wait" /\ ~rxd[rx_idx].empty => rx.sem > 0 \/ rx.irq

RxInv == RxTypeOK /\ OwnPlaces /\ FullAhead /\ FramesInOrder /\ PostedInOrder /\ NotAsleep

LEMMA RxInitially ==
    ASSUME EmacInit
    PROVE  RxInv
<1> USE EmacAssumption
<1>a. /\ RxRing \in Nat /\ RxRing > 1 /\ RxBuffers \in Nat /\ RxBuffers >= RxRing
  BY DEF EmacAssumption
<1>b. /\ rxd = [i \in RxSlots |-> [buf |-> i + 1, empty |-> TRUE, bad |-> FALSE]]
      /\ filled = 0 /\ rx_idx = 0 /\ held = [b \in 1..RxBuffers |-> 0] /\ spare = (RxRing + 1)..RxBuffers
      /\ posted = <<>> /\ rx = [at |-> "wait", sem |-> 0, irq |-> FALSE] /\ frames = 0 /\ taken = 0
  BY DEF EmacInit
<1>1. RxTypeOK
  <2>1. rxd \in [RxSlots -> RxDescriptor]
    BY <1>a, <1>b DEF RxSlots, RxDescriptor
  <2>2. rx \in Receiver
    BY <1>b DEF Receiver
  <2>3. posted \in Seq(Frame)
    BY <1>b
  <2> QED BY <1>a, <1>b, <2>1, <2>2, <2>3 DEF RxTypeOK, RxSlots
<1>2. OwnPlaces
  <2>1. \A i \in RxSlots : rxd[i].buf = i + 1
    BY <1>b DEF RxSlots
  <2>2. InRing = 1..RxRing
    <3>1. \A b \in 1..RxRing : b - 1 \in RxSlots /\ rxd[b - 1].buf = b
      BY <1>a, <2>1 DEF RxSlots
    <3> QED BY <1>a, <2>1, <3>1 DEF InRing, RxSlots
  <2>3. InBox = {}
    BY <1>b DEF InBox
  <2>4. spare = (1..RxBuffers) \ (InRing \cup InBox)
    BY <1>a, <1>b, <2>2, <2>3
  <2> QED BY <1>b, <2>1, <2>4 DEF OwnPlaces, RxSlots
<1>3. FullAhead
  BY <1>a, <1>b DEF FullAhead, Full, FromIdx, Dist, RxSlots
<1>4. FramesInOrder /\ PostedInOrder /\ NotAsleep
  BY <1>a, <1>b DEF FramesInOrder, PostedInOrder, NotAsleep, Full, LastTold, RxSlots
<1> QED BY <1>1, <1>2, <1>3, <1>4 DEF RxInv

\* What the steps need of the ring.
LEMMA RxPlaces ==
    ASSUME NEW a \in RxSlots
    PROVE  /\ RxRing \in Nat /\ RxRing > 1 /\ (a + 1) % RxRing \in RxSlots
           /\ Dist(RxRing, a, a) = 0
           /\ \A i \in RxSlots :
                 /\ Dist(RxRing, a, i) \in RxSlots
                 /\ Dist(RxRing, a, i) = 0 <=> i = a
                 /\ Dist(RxRing, (a + 1) % RxRing, i) = IF i = a THEN RxRing - 1 ELSE Dist(RxRing, a, i) - 1
                 /\ Dist(RxRing, i, (a + 1) % RxRing) = IF Dist(RxRing, i, a) = RxRing - 1 THEN 0 ELSE Dist(RxRing, i, a) + 1
           /\ \A i, j \in RxSlots : Dist(RxRing, a, i) = Dist(RxRing, a, j) => i = j
<1>1. RxRing \in Nat /\ RxRing > 1
  BY EmacAssumption DEF EmacAssumption
<1>2. a \in 0..(RxRing - 1)
  BY DEF RxSlots
<1> QED BY <1>1, <1>2, RingPlaces DEF RxSlots

LEMMA LastToldIs ==
    ASSUME posted \in Seq(Frame), taken \in Nat
    PROVE  /\ LastTold \in Nat
           /\ \A i \in DOMAIN posted : posted[i].buf \in 1..RxBuffers /\ posted[i].frame \in Nat
<1>1. \A i \in DOMAIN posted : posted[i] \in Frame
  OBVIOUS
<1>2. \A e \in Frame : e.buf \in 1..RxBuffers /\ e.frame \in Nat
  BY DEF Frame
<1>3. posted # <<>> => Len(posted) \in DOMAIN posted
  OBVIOUS
<1> QED BY <1>1, <1>2, <1>3 DEF LastTold

\* The MAC fills a descriptor.
LEMMA FrameArrivesKeeps ==
    ASSUME RxInv, FrameArrives
    PROVE  RxInv'
<1> USE DEF RxInv
<1>a. /\ rxd \in [RxSlots -> RxDescriptor] /\ filled \in RxSlots /\ rx_idx \in RxSlots
      /\ held \in [1..RxBuffers -> Nat] /\ spare \subseteq 1..RxBuffers
      /\ rx \in Receiver /\ frames \in Nat /\ taken \in Nat
      /\ posted \in Seq(Frame)
  BY DEF RxTypeOK
<1>b. /\ frames' = frames + 1
      /\ UNCHANGED <<rx_idx, spare, posted, taken>>
  BY DEF FrameArrives
<1>1. CASE ~rxd[filled].empty
  <2>1. UNCHANGED <<rxd, held, filled, rx>>
    BY <1>1 DEF FrameArrives
  <2>2. RxTypeOK'
    BY <1>a, <1>b, <2>1 DEF RxTypeOK
  <2>3. OwnPlaces' /\ FullAhead' /\ PostedInOrder' /\ NotAsleep'
    BY <1>b, <2>1 DEF OwnPlaces, InRing, InBox, FullAhead, Full, FromIdx, PostedInOrder, NotAsleep
  <2>4. FramesInOrder'
    <3>1. LastTold' = LastTold /\ \A i \in RxSlots : held[rxd[i].buf] \in Nat
      BY <1>a, <1>b DEF LastTold, RxDescriptor
    <3>2. LastTold <= frames => LastTold <= frames'
      <4>1. LastTold \in Nat
        BY <1>a, LastToldIs
      <4> QED BY <4>1, <1>a, <1>b
    <3> QED BY <1>a, <1>b, <2>1, <3>1, <3>2 DEF FramesInOrder, Full, FromIdx
  <2> QED BY <2>2, <2>3, <2>4
<1>2. CASE rxd[filled].empty
  <2> DEFINE b == rxd[filled].buf
  <2>1. PICK bad \in BOOLEAN : rxd' = [rxd EXCEPT ![filled].empty = FALSE, ![filled].bad = bad]
    BY <1>2 DEF FrameArrives
  <2>2. /\ held' = [held EXCEPT ![b] = frames'] /\ filled' = (filled + 1) % RxRing
        /\ rx' = [rx EXCEPT !.irq = TRUE]
    BY <1>2 DEF FrameArrives
  <2>3. rxd' = [rxd EXCEPT ![filled] = [rxd[filled] EXCEPT !.empty = FALSE, !.bad = bad]]
    BY <1>a, <2>1
  <2>4. [rxd[filled] EXCEPT !.empty = FALSE, !.bad = bad] \in RxDescriptor
    BY <1>a DEF RxDescriptor
  <2>5. /\ rxd' \in [RxSlots -> RxDescriptor]
        /\ \A i \in RxSlots : rxd'[i].buf = rxd[i].buf /\ (i # filled => rxd'[i] = rxd[i])
        /\ ~rxd'[filled].empty
    BY <1>a, <2>3, <2>4 DEF RxDescriptor
  <2>6. filled' \in RxSlots /\ rx' \in Receiver /\ b \in 1..RxBuffers
        /\ rx'.at = rx.at /\ rx'.sem = rx.sem /\ rx'.irq
    BY <1>a, <2>2, RxPlaces DEF Receiver, RxDescriptor
  <2>7. /\ held' \in [1..RxBuffers -> Nat] /\ held'[b] = frames + 1
        /\ \A c \in 1..RxBuffers : c # b => held'[c] = held[c]
    BY <1>a, <1>b, <2>2, <2>6
  <2> HIDE DEF b
  <2>10. RxTypeOK'
    BY <1>a, <1>b, <2>5, <2>6, <2>7 DEF RxTypeOK
  <2>11. OwnPlaces'
    BY <1>b, <2>5 DEF OwnPlaces, InRing, InBox
  <2>12. FullAhead'
    <3>1. \A i \in RxSlots : Full(i) <=> FromIdx(i) < FromIdx(filled)
      BY <1>2, <1>a DEF FullAhead, Full
    <3>2. \A i \in RxSlots : Full(i)' <=> (Full(i) \/ i = filled)
      BY <2>5 DEF Full
    <3>3. FromIdx(filled)' = IF FromIdx(filled) = RxRing - 1 THEN 0 ELSE FromIdx(filled) + 1
      BY <1>a, <1>b, <2>2, RxPlaces DEF FromIdx
    <3>4. \A i \in RxSlots : /\ FromIdx(i)' = FromIdx(i) /\ FromIdx(i) \in RxSlots
                             /\ FromIdx(i) = FromIdx(filled) => i = filled
      <4>1. \A i \in RxSlots : /\ Dist(RxRing, rx_idx, i) \in RxSlots
                               /\ Dist(RxRing, rx_idx, i) = Dist(RxRing, rx_idx, filled) => i = filled
        BY <1>a, RxPlaces
      <4> QED BY <4>1, <1>b DEF FromIdx
    <3>a. RxRing \in Nat /\ RxRing > 1 /\ FromIdx(filled) \in 0..(RxRing - 1)
          /\ \A i \in RxSlots : FromIdx(i) \in 0..(RxRing - 1)
      BY <1>a, <3>4, RxPlaces DEF RxSlots
    <3>5. CASE FromIdx(filled) = RxRing - 1
      <4>1. \A i \in RxSlots : Full(i)'
        BY <3>1, <3>2, <3>4, <3>5, <3>a
      <4>2. filled' = rx_idx'
        <5>1. Dist(RxRing, rx_idx, filled') = 0
          BY <3>3, <3>5, <1>b DEF FromIdx
        <5> QED BY <5>1, <1>a, <1>b, <2>6, RxPlaces
      <4> QED BY <4>1, <4>2 DEF FullAhead
    <3>6. CASE FromIdx(filled) # RxRing - 1
      <4>1. \A i \in RxSlots : FromIdx(i) < FromIdx(filled) + 1 <=> (FromIdx(i) < FromIdx(filled) \/ i = filled)
        BY <3>4, <3>a
      <4>2. \A i \in RxSlots : Full(i)' <=> FromIdx(i)' < FromIdx(filled)'
        BY <3>1, <3>2, <3>3, <3>4, <3>6, <4>1
      <4> QED BY <4>2 DEF FullAhead
    <3> QED BY <3>5, <3>6
  <2>13. LastTold' = LastTold /\ LastTold \in Nat
    <3>1. LastTold' = LastTold
      BY <1>b DEF LastTold
    <3> QED BY <3>1, <1>a, LastToldIs
  <2>14. FramesInOrder'
    <3>1. \A i \in RxSlots : /\ rxd[i].buf \in 1..RxBuffers
                             /\ i # filled => rxd[i].buf # b
                             /\ held'[rxd'[i].buf] = IF i = filled THEN frames + 1 ELSE held[rxd[i].buf]
                             /\ held[rxd[i].buf] \in Nat
      <4>1. \A i \in RxSlots : rxd[i] \in RxDescriptor /\ (i # filled => rxd[i].buf # b)
        BY <1>a DEF OwnPlaces, b
      <4>2. \A e \in RxDescriptor : e.buf \in 1..RxBuffers
        BY DEF RxDescriptor
      <4>3. \A i \in RxSlots : rxd'[i].buf = rxd[i].buf /\ rxd[i].buf \in 1..RxBuffers
        BY <2>5, <4>1, <4>2
      <4> QED BY <1>a, <4>1, <4>3, <2>7 DEF b
    <3>2. \A i \in RxSlots : Full(i) => LastTold < held[rxd[i].buf] /\ held[rxd[i].buf] <= frames
      BY DEF FramesInOrder
    <3>3. \A i \in RxSlots : Full(i)' <=> (Full(i) \/ i = filled)
      BY <2>5 DEF Full
    <3>4. \A i \in RxSlots : FromIdx(i)' = FromIdx(i) /\ FromIdx(i) \in Int
      BY <1>a, <1>b, RxPlaces DEF FromIdx, RxSlots
    <3>5. ~Full(filled) /\ \A i \in RxSlots : Full(i) => FromIdx(i) < FromIdx(filled)
      BY <1>2, <1>a DEF FullAhead, Full
    <3>6. \A i, j \in RxSlots : Full(i) /\ Full(j) /\ FromIdx(i) < FromIdx(j) => held[rxd[i].buf] < held[rxd[j].buf]
      BY DEF FramesInOrder
    <3>7. ASSUME NEW i \in RxSlots, NEW j \in RxSlots, Full(i)', Full(j)', FromIdx(i)' < FromIdx(j)'
          PROVE  held'[rxd'[i].buf] < held'[rxd'[j].buf]
      <4>1. i # filled
        <5>1. SUFFICES ASSUME i = filled PROVE FALSE
          OBVIOUS
        <5>2. j # filled
          BY <5>1, <3>7, <3>4
        <5> QED BY <5>1, <5>2, <3>7, <3>3, <3>4, <3>5
      <4>2. Full(i)
        BY <4>1, <3>7, <3>3
      <4>3. CASE j = filled
        <5>1. held'[rxd'[i].buf] = held[rxd[i].buf] /\ held'[rxd'[j].buf] = frames + 1
          BY <4>1, <4>3, <3>1
        <5>2. held[rxd[i].buf] \in Nat /\ held[rxd[i].buf] <= frames
          BY <4>2, <3>1, <3>2
        <5> QED BY <5>1, <5>2, <1>a
      <4>4. CASE j # filled
        <5>1. Full(j) /\ FromIdx(i) < FromIdx(j)
          BY <4>4, <3>3, <3>4, <3>7
        <5> QED BY <4>1, <4>2, <4>4, <5>1, <3>1, <3>6
      <4> QED BY <4>3, <4>4
    <3>8. \A i \in RxSlots : Full(i)' => LastTold < held'[rxd'[i].buf] /\ held'[rxd'[i].buf] <= frames'
      <4>1. LastTold <= frames
        BY DEF FramesInOrder
      <4>2. TAKE i \in RxSlots
      <4>3. CASE i = filled
        BY <4>1, <4>3, <3>1, <1>a, <1>b, <2>13
      <4>4. CASE i # filled
        BY <4>4, <3>1, <3>2, <3>3, <1>a, <1>b, <2>13
      <4> QED BY <4>3, <4>4
    <3>9. LastTold <= frames'
      BY <1>a, <1>b, <2>13 DEF FramesInOrder
    <3> QED BY <3>7, <3>8, <3>9, <2>13 DEF FramesInOrder
  <2>15. PostedInOrder'
    <3>1. \A i \in DOMAIN posted : posted[i].buf \in 1..RxBuffers /\ posted[i].buf # b
      BY <1>a, LastToldIs DEF OwnPlaces, b
    <3> QED BY <3>1, <1>b, <2>7 DEF PostedInOrder
  <2>16. NotAsleep'
    BY <2>6 DEF NotAsleep
  <2> QED BY <2>10, <2>11, <2>12, <2>14, <2>15, <2>16
<1> QED BY <1>1, <1>2

\* packet_rx and the interrupt: only rx changes.
LEMMA RxFlagsKeep ==
    ASSUME RxInv, RxIsr \/ RxWakes \/ RxRests
    PROVE  RxInv'
<1>a. /\ rx \in Receiver /\ RxTypeOK /\ NotAsleep
      /\ UNCHANGED <<rxd, filled, rx_idx, held, spare, posted, frames, taken>>
  BY DEF RxInv, RxTypeOK, RxIsr, RxWakes, RxRests
<1>1. rx' \in Receiver /\ NotAsleep'
  <2>1. CASE RxIsr
    <3>1. rx.irq /\ rx' = [rx EXCEPT !.irq = FALSE, !.sem = rx.sem + 1]
      BY <2>1 DEF RxIsr
    <3>2. rx.sem \in Nat /\ rx.sem + 1 \in Nat
      BY <1>a DEF Receiver
    <3>3. rx' \in Receiver /\ rx'.at = rx.at /\ rx'.sem = rx.sem + 1
      BY <1>a, <3>1, <3>2 DEF Receiver
    <3> QED BY <3>2, <3>3 DEF NotAsleep
  <2>2. CASE RxWakes
    <3>1. rx.sem > 0 /\ rx' = [rx EXCEPT !.at = "look", !.sem = rx.sem - 1]
      BY <2>2 DEF RxWakes
    <3>2. rx.sem \in Nat /\ rx.sem - 1 \in Nat
      BY <1>a, <3>1 DEF Receiver
    <3>3. rx' \in Receiver /\ rx'.at = "look"
      BY <1>a, <3>1, <3>2 DEF Receiver
    <3> QED BY <3>3 DEF NotAsleep
  <2>3. CASE RxRests
    <3>1. rxd[rx_idx].empty /\ rx' = [rx EXCEPT !.at = "wait"]
      BY <2>3 DEF RxRests
    <3>2. rx' \in Receiver
      BY <1>a, <3>1 DEF Receiver
    <3> QED BY <1>a, <3>1, <3>2 DEF NotAsleep
  <2> QED BY <2>1, <2>2, <2>3
<1>2. RxTypeOK'
  BY <1>a, <1>1 DEF RxTypeOK
<1>3. OwnPlaces' /\ FullAhead' /\ PostedInOrder' /\ FramesInOrder'
  BY <1>a DEF RxInv, OwnPlaces, InRing, InBox, FullAhead, Full, FromIdx, PostedInOrder, FramesInOrder, LastTold
<1> QED BY <1>1, <1>2, <1>3 DEF RxInv

\* packet_rx puts a pbuf into the descriptor it is at, and goes to the next.
LEMMA RequeuedKeeps ==
    ASSUME RxInv, Looking, NEW c \in 1..RxBuffers, Requeued(c),
           rx_idx' = (rx_idx + 1) % RxRing, filled' = filled
    PROVE  /\ rxd' \in [RxSlots -> RxDescriptor] /\ rx_idx' \in RxSlots
           /\ rxd'[rx_idx].buf = c
           /\ \A i \in RxSlots : i # rx_idx => rxd'[i] = rxd[i]
           /\ \A i \in RxSlots : Full(i)' <=> Full(i) /\ i # rx_idx
           /\ \A i, j \in RxSlots : i # rx_idx /\ j # rx_idx => (FromIdx(i)' < FromIdx(j)' <=> FromIdx(i) < FromIdx(j))
           /\ \A i \in RxSlots : i # rx_idx => FromIdx(rx_idx) < FromIdx(i)
           /\ FullAhead'
<1>a. rxd \in [RxSlots -> RxDescriptor] /\ filled \in RxSlots /\ rx_idx \in RxSlots
  BY DEF RxInv, RxTypeOK
<1>1. rxd' = [rxd EXCEPT ![rx_idx] = [buf |-> c, empty |-> TRUE, bad |-> FALSE]]
  BY DEF Requeued
<1>2. [buf |-> c, empty |-> TRUE, bad |-> FALSE] \in RxDescriptor
  BY DEF RxDescriptor
<1>3. /\ rxd' \in [RxSlots -> RxDescriptor] /\ rxd'[rx_idx].buf = c /\ rxd'[rx_idx].empty
      /\ \A i \in RxSlots : i # rx_idx => rxd'[i] = rxd[i]
  BY <1>a, <1>1, <1>2
<1>4. \A i \in RxSlots : Full(i)' <=> Full(i) /\ i # rx_idx
  BY <1>3 DEF Full
<1>5. RxRing \in Nat /\ RxRing > 1 /\ rx_idx' \in RxSlots
  BY <1>a, RxPlaces
<1>6. \A i \in RxSlots : FromIdx(i) \in 0..(RxRing - 1) /\ (FromIdx(i) = 0 <=> i = rx_idx)
  BY <1>a, RxPlaces DEF FromIdx, RxSlots
<1>7. \A i \in RxSlots : FromIdx(i)' = IF i = rx_idx THEN RxRing - 1 ELSE FromIdx(i) - 1
  BY <1>a, RxPlaces DEF FromIdx
<1>8. Full(rx_idx)
  BY DEF Looking, Full
<1>9. FullAhead'
  <2>1. CASE \A i \in RxSlots : Full(i) <=> FromIdx(i) < FromIdx(filled)
    <3>1. filled # rx_idx /\ FromIdx(filled)' = FromIdx(filled) - 1
      BY <2>1, <1>a, <1>5, <1>6, <1>7, <1>8
    <3>2. \A i \in RxSlots : Full(i)' <=> FromIdx(i)' < FromIdx(filled)'
      BY <3>1, <2>1, <1>a, <1>4, <1>5, <1>6, <1>7
    <3> QED BY <3>2 DEF FullAhead
  <2>2. CASE filled = rx_idx /\ \A i \in RxSlots : Full(i)
    <3>1. FromIdx(filled)' = RxRing - 1
      BY <2>2, <1>a, <1>7
    <3>2. \A i \in RxSlots : Full(i)' <=> FromIdx(i)' < FromIdx(filled)'
      BY <3>1, <2>2, <1>4, <1>5, <1>6, <1>7
    <3> QED BY <3>2 DEF FullAhead
  <2> QED BY <2>1, <2>2 DEF RxInv, FullAhead
<1>10. \A i, j \in RxSlots : i # rx_idx /\ j # rx_idx => (FromIdx(i)' < FromIdx(j)' <=> FromIdx(i) < FromIdx(j))
  BY <1>6, <1>7
<1>11. \A i \in RxSlots : i # rx_idx => FromIdx(rx_idx) < FromIdx(i)
  BY <1>6, <1>a
<1> QED BY <1>3, <1>4, <1>5, <1>9, <1>10, <1>11

LEMMA FrameDroppedKeeps ==
    ASSUME RxInv, FrameDropped
    PROVE  RxInv'
<1>a. /\ rxd \in [RxSlots -> RxDescriptor] /\ filled \in RxSlots /\ rx_idx \in RxSlots
      /\ UNCHANGED <<filled, held, spare, posted, rx, frames, taken>> /\ Looking
  BY DEF RxInv, RxTypeOK, FrameDropped
<1> DEFINE c == rxd[rx_idx].buf
<1>1. c \in 1..RxBuffers /\ Requeued(c) /\ rx_idx' = (rx_idx + 1) % RxRing
  BY <1>a DEF RxDescriptor, FrameDropped
<1> HIDE DEF c
<1>2. /\ rxd' \in [RxSlots -> RxDescriptor] /\ rx_idx' \in RxSlots
      /\ rxd'[rx_idx].buf = c
      /\ \A i \in RxSlots : i # rx_idx => rxd'[i] = rxd[i]
      /\ \A i \in RxSlots : Full(i)' <=> Full(i) /\ i # rx_idx
      /\ \A i, j \in RxSlots : i # rx_idx /\ j # rx_idx => (FromIdx(i)' < FromIdx(j)' <=> FromIdx(i) < FromIdx(j))
      /\ FullAhead'
  BY <1>1, <1>a, RequeuedKeeps
<1>3. \A i \in RxSlots : rxd'[i].buf = rxd[i].buf
  BY <1>2 DEF c
<1>4. RxTypeOK'
  BY <1>a, <1>2 DEF RxInv, RxTypeOK
<1>5. OwnPlaces'
  BY <1>a, <1>3 DEF RxInv, OwnPlaces, InRing, InBox
<1>6. LastTold' = LastTold
  BY <1>a DEF LastTold
<1>7. FramesInOrder'
  BY <1>a, <1>2, <1>3, <1>6 DEF RxInv, FramesInOrder
<1>8. PostedInOrder' /\ NotAsleep'
  BY <1>a DEF RxInv, PostedInOrder, NotAsleep, Looking
<1> QED BY <1>2, <1>4, <1>5, <1>7, <1>8 DEF RxInv

LEMMA FrameTakenKeeps ==
    ASSUME RxInv, FrameTaken
    PROVE  RxInv'
<1>a. /\ rxd \in [RxSlots -> RxDescriptor] /\ filled \in RxSlots /\ rx_idx \in RxSlots
      /\ held \in [1..RxBuffers -> Nat] /\ spare \subseteq 1..RxBuffers
      /\ frames \in Nat /\ taken \in Nat /\ posted \in Seq(Frame)
      /\ UNCHANGED <<filled, held, rx, frames, taken>> /\ Looking
      /\ rx_idx' = (rx_idx + 1) % RxRing
  BY DEF RxInv, RxTypeOK, FrameTaken
<1> DEFINE own == rxd[rx_idx].buf
           told == [buf |-> own, frame |-> held[own]]
<1>b. PICK c \in spare :
          /\ Requeued(c)
          /\ \/ posted' = Append(posted, told) /\ spare' = spare \ {c}
             \/ spare' = (spare \ {c}) \cup {own} /\ posted' = posted
  BY DEF FrameTaken, Handed
<1>1. /\ c \in 1..RxBuffers /\ own \in 1..RxBuffers /\ held[own] \in Nat
      /\ \A i \in RxSlots : rxd[i].buf # c /\ rxd[i].buf \in 1..RxBuffers
      /\ \A i \in DOMAIN posted : posted[i].buf # c
      /\ \A i \in RxSlots : i # rx_idx => rxd[i].buf # own
      /\ \A i \in DOMAIN posted : posted[i].buf # own
  BY <1>a, <1>b DEF RxDescriptor, RxInv, OwnPlaces, InRing, InBox
<1>2. told \in Frame /\ told.buf = own /\ told.frame = held[own]
  BY <1>1 DEF Frame
<1> HIDE DEF own, told
<1>3. /\ rxd' \in [RxSlots -> RxDescriptor] /\ rx_idx' \in RxSlots
      /\ rxd'[rx_idx].buf = c
      /\ \A i \in RxSlots : i # rx_idx => rxd'[i] = rxd[i]
      /\ \A i \in RxSlots : Full(i)' <=> Full(i) /\ i # rx_idx
      /\ \A i, j \in RxSlots : i # rx_idx /\ j # rx_idx => (FromIdx(i)' < FromIdx(j)' <=> FromIdx(i) < FromIdx(j))
      /\ \A i \in RxSlots : i # rx_idx => FromIdx(rx_idx) < FromIdx(i)
      /\ FullAhead'
  BY <1>1, <1>a, <1>b, RequeuedKeeps
<1>4. /\ LastTold \in Nat /\ LastTold < held[own] /\ held[own] <= frames
      /\ \A i \in RxSlots : Full(i) => LastTold < held[rxd[i].buf] /\ held[rxd[i].buf] <= frames
  BY <1>a, LastToldIs DEF RxInv, FramesInOrder, Looking, Full, own
<1>5. InRing' = (InRing \ {own}) \cup {c}
  <2>1. \A x \in InRing' : x = c \/ x \in InRing \ {own}
    BY <1>1, <1>3 DEF InRing
  <2>2. c \in InRing'
    BY <1>3, <1>a DEF InRing
  <2>3. \A x \in InRing \ {own} : x \in InRing'
    <3>1. TAKE x \in InRing \ {own}
    <3>2. PICK i \in RxSlots : x = rxd[i].buf
      BY DEF InRing
    <3>3. i # rx_idx
      BY <3>2 DEF own
    <3> QED BY <3>2, <3>3, <1>3 DEF InRing
  <2> QED BY <2>1, <2>2, <2>3
<1>6. own \in InRing
  BY <1>a DEF InRing, own
<1>7. spare = (1..RxBuffers) \ (InRing \cup InBox) /\ own \notin InBox /\ c # own
  BY <1>1, <1>a DEF RxInv, OwnPlaces, InBox, own
<1>8. \A i, j \in RxSlots : rxd'[i].buf = rxd'[j].buf => i = j
  BY <1>1, <1>3, <1>a DEF RxInv, OwnPlaces
<1>9. \A i \in RxSlots : rxd'[i].buf # own
  BY <1>3, <1>1, <1>7
<1>10. \A i \in RxSlots : \A j \in DOMAIN posted : rxd'[i].buf # posted[j].buf
  BY <1>1, <1>3 DEF RxInv, OwnPlaces
<1>11. \A i, j \in RxSlots : Full(i)' /\ Full(j)' /\ FromIdx(i)' < FromIdx(j)' => held'[rxd'[i].buf] < held'[rxd'[j].buf]
  BY <1>a, <1>3 DEF RxInv, FramesInOrder
<1>12. NotAsleep'
  BY <1>a DEF NotAsleep, Looking
<1>13. CASE posted' = Append(posted, told) /\ spare' = spare \ {c}
  <2>1. /\ posted' \in Seq(Frame) /\ Len(posted') = Len(posted) + 1 /\ DOMAIN posted' = 1..Len(posted')
        /\ DOMAIN posted = 1..Len(posted) /\ Len(posted) \in Nat
        /\ posted'[Len(posted) + 1] = told
        /\ \A i \in 1..Len(posted) : posted'[i] = posted[i]
    BY <1>a, <1>2, <1>13
  <2>2. RxTypeOK'
    BY <1>a, <1>3, <1>13, <2>1 DEF RxInv, RxTypeOK
  <2>3. InBox' = InBox \cup {own}
    BY <2>1, <1>2 DEF InBox
  <2>4. OwnPlaces'
    <3>1. \A i, j \in DOMAIN posted' : posted'[i].buf = posted'[j].buf => i = j
      BY <1>1, <1>2, <2>1 DEF RxInv, OwnPlaces
    <3>2. \A i \in RxSlots : \A j \in DOMAIN posted' : rxd'[i].buf # posted'[j].buf
      BY <1>2, <1>9, <1>10, <2>1
    <3>3. spare' = (1..RxBuffers) \ (InRing' \cup InBox')
      BY <1>5, <1>6, <1>7, <1>13, <2>3
    <3> QED BY <1>8, <3>1, <3>2, <3>3 DEF OwnPlaces
  <2>5. LastTold' = held[own]
    <3>1. posted' # <<>>
      BY <2>1
    <3> QED BY <3>1, <2>1, <1>2 DEF LastTold
  <2>6. FramesInOrder'
    <3>1. \A i \in RxSlots : Full(i)' => held[own] < held'[rxd'[i].buf] /\ held'[rxd'[i].buf] <= frames'
      <4>1. TAKE i \in RxSlots
      <4>2. HAVE Full(i)'
      <4>3. Full(i) /\ i # rx_idx /\ Full(rx_idx)
        BY <4>2, <1>3, <1>a DEF Looking, Full
      <4>4. held[rxd[rx_idx].buf] < held[rxd[i].buf] /\ held[rxd[i].buf] <= frames
        BY <4>3, <1>3, <1>4, <1>a DEF RxInv, FramesInOrder
      <4> QED BY <4>3, <4>4, <1>3, <1>a DEF own
    <3> QED BY <3>1, <1>4, <1>11, <2>5, <1>a DEF FramesInOrder
  <2>7. PostedInOrder'
    <3>1. \A i \in 1..Len(posted) :
              /\ held[posted[i].buf] = posted[i].frame
              /\ posted[i].frame > IF i = 1 THEN taken ELSE posted[i - 1].frame
      BY <2>1 DEF RxInv, PostedInOrder
    <3>2. \A i \in 1..Len(posted) :
              /\ held'[posted'[i].buf] = posted'[i].frame
              /\ posted'[i].frame > IF i = 1 THEN taken' ELSE posted'[i - 1].frame
      BY <3>1, <2>1, <1>a
    <3>3. told.frame > IF Len(posted) + 1 = 1 THEN taken ELSE posted'[Len(posted)].frame
      <4>1. CASE Len(posted) = 0
        BY <4>1, <1>2, <1>4, <1>a DEF LastTold
      <4>2. CASE Len(posted) > 0
        <5>1. posted # <<>> /\ Len(posted) \in 1..Len(posted) /\ Len(posted) + 1 # 1
          BY <4>2, <2>1
        <5>2. LastTold = posted'[Len(posted)].frame
          BY <5>1, <2>1 DEF LastTold
        <5> QED BY <5>1, <5>2, <1>2, <1>4
      <4> QED BY <4>1, <4>2, <2>1
    <3>4. \A i \in DOMAIN posted' : i \in 1..Len(posted) \/ i = Len(posted) + 1
      BY <2>1
    <3>5. held'[posted'[Len(posted) + 1].buf] = posted'[Len(posted) + 1].frame
      BY <2>1, <1>2, <1>a
    <3>6. Len(posted) + 1 - 1 = Len(posted)
      BY <2>1
    <3> QED BY <3>2, <3>3, <3>4, <3>5, <3>6, <2>1, <1>a DEF PostedInOrder
  <2> QED BY <2>2, <2>4, <2>6, <2>7, <1>3, <1>12 DEF RxInv
<1>14. CASE spare' = (spare \ {c}) \cup {own} /\ posted' = posted
  <2>1. RxTypeOK'
    BY <1>a, <1>1, <1>3, <1>14 DEF RxInv, RxTypeOK
  <2>2. InBox' = InBox
    BY <1>14 DEF InBox
  <2>3. spare' = (1..RxBuffers) \ (InRing' \cup InBox')
    BY <1>1, <1>5, <1>6, <1>7, <1>14, <2>2
  <2>4. OwnPlaces'
    BY <2>3, <1>8, <1>10, <1>14 DEF RxInv, OwnPlaces
  <2>5. LastTold' = LastTold
    BY <1>14, <1>a DEF LastTold
  <2>6. FramesInOrder'
    <3>1. \A i \in RxSlots : Full(i)' => LastTold < held'[rxd'[i].buf] /\ held'[rxd'[i].buf] <= frames'
      BY <1>3, <1>4, <1>a
    <3> QED BY <3>1, <1>4, <1>11, <2>5, <1>a DEF FramesInOrder, RxInv
  <2>7. PostedInOrder'
    BY <1>a, <1>14 DEF RxInv, PostedInOrder
  <2> QED BY <2>1, <2>4, <2>6, <2>7, <1>3, <1>12 DEF RxInv
<1> QED BY <1>b, <1>13, <1>14

LEMMA StackTakesKeeps ==
    ASSUME RxInv, StackTakes
    PROVE  RxInv'
<1>a. /\ rxd \in [RxSlots -> RxDescriptor] /\ spare \subseteq 1..RxBuffers
      /\ frames \in Nat /\ taken \in Nat /\ posted \in Seq(Frame)
      /\ UNCHANGED <<rxd, filled, rx_idx, held, rx, frames>>
      /\ posted # <<>> /\ posted' = Tail(posted)
      /\ taken' = posted[1].frame /\ spare' = spare \cup {posted[1].buf}
  BY DEF RxInv, RxTypeOK, StackTakes
<1>1. /\ posted' \in Seq(Frame) /\ Len(posted') = Len(posted) - 1 /\ DOMAIN posted' = 1..Len(posted')
      /\ DOMAIN posted = 1..Len(posted) /\ Len(posted) \in Nat \ {0}
      /\ \A i \in 1..Len(posted') : posted'[i] = posted[i + 1] /\ i + 1 \in 2..Len(posted)
  BY <1>a
<1>2. posted[1].buf \in 1..RxBuffers /\ posted[1].frame \in Nat /\ 1 \in DOMAIN posted
  BY <1>a, <1>1, LastToldIs
<1>3. RxTypeOK'
  BY <1>a, <1>1, <1>2 DEF RxInv, RxTypeOK
<1>4. InBox' = InBox \ {posted[1].buf} /\ posted[1].buf \in InBox /\ InRing' = InRing /\ posted[1].buf \notin InRing
  <2>1. ASSUME NEW x \in InBox' PROVE x \in InBox /\ x # posted[1].buf
    <3>1. PICK i \in DOMAIN posted' : x = posted'[i].buf
      BY DEF InBox
    <3>2. i + 1 \in DOMAIN posted /\ i + 1 # 1 /\ x = posted[i + 1].buf
      BY <3>1, <1>1
    <3>3. posted[i + 1].buf # posted[1].buf
      BY <3>2, <1>2 DEF RxInv, OwnPlaces
    <3> QED BY <3>2, <3>3 DEF InBox
  <2>2. ASSUME NEW x \in InBox, x # posted[1].buf PROVE x \in InBox'
    <3>1. PICK i \in DOMAIN posted : x = posted[i].buf
      BY DEF InBox
    <3>2. i - 1 \in DOMAIN posted' /\ (i - 1) + 1 = i
      BY <3>1, <2>2, <1>1
    <3>3. posted'[i - 1].buf = x
      BY <3>1, <3>2, <1>1
    <3> QED BY <3>2, <3>3 DEF InBox
  <2>3. InRing' = InRing /\ posted[1].buf \notin InRing /\ posted[1].buf \in InBox
    BY <1>a, <1>2 DEF InRing, InBox, RxInv, OwnPlaces
  <2> QED BY <2>1, <2>2, <2>3
<1>5. OwnPlaces'
  <2>1. \A i, j \in DOMAIN posted' : posted'[i].buf = posted'[j].buf => i = j
    <3>1. ASSUME NEW i \in DOMAIN posted', NEW j \in DOMAIN posted', posted'[i].buf = posted'[j].buf PROVE i = j
      <4>1. /\ posted'[i] = posted[i + 1] /\ posted'[j] = posted[j + 1] /\ i \in Nat /\ j \in Nat
            /\ i + 1 \in DOMAIN posted /\ j + 1 \in DOMAIN posted
        BY <1>1
      <4>2. i + 1 = j + 1
        BY <4>1, <3>1 DEF RxInv, OwnPlaces
      <4> QED BY <4>1, <4>2
    <3> QED BY <3>1
  <2>2. \A i \in RxSlots : \A j \in DOMAIN posted' : rxd'[i].buf # posted'[j].buf
    BY <1>1, <1>a DEF RxInv, OwnPlaces
  <2>3. spare' = (1..RxBuffers) \ (InRing' \cup InBox')
    BY <1>2, <1>4, <1>a DEF RxInv, OwnPlaces
  <2>4. \A i, j \in RxSlots : rxd'[i].buf = rxd'[j].buf => i = j
    BY <1>a DEF RxInv, OwnPlaces
  <2> QED BY <2>1, <2>2, <2>3, <2>4 DEF OwnPlaces
<1>6. FullAhead' /\ NotAsleep'
  BY <1>a DEF RxInv, FullAhead, Full, FromIdx, NotAsleep
<1>7. LastTold' = LastTold
  <2>1. CASE Len(posted) = 1
    <3>1. posted' = <<>>
      BY <2>1, <1>1
    <3> QED BY <3>1, <2>1, <1>a DEF LastTold
  <2>2. CASE Len(posted) > 1
    <3>1. posted' # <<>> /\ Len(posted') \in 1..Len(posted') /\ Len(posted') + 1 = Len(posted)
      BY <2>2, <1>1
    <3>2. posted'[Len(posted')] = posted[Len(posted)]
      BY <3>1, <1>1
    <3> QED BY <3>1, <3>2, <1>a DEF LastTold
  <2> QED BY <2>1, <2>2, <1>1
<1>8. FramesInOrder'
  BY <1>a, <1>7 DEF RxInv, FramesInOrder, Full, FromIdx
<1>9. PostedInOrder'
  <2>1. \A i \in DOMAIN posted :
              /\ held[posted[i].buf] = posted[i].frame
              /\ posted[i].frame > IF i = 1 THEN taken ELSE posted[i - 1].frame
    BY DEF RxInv, PostedInOrder
  <2>2. ASSUME NEW i \in DOMAIN posted'
        PROVE  /\ held'[posted'[i].buf] = posted'[i].frame
               /\ posted'[i].frame > IF i = 1 THEN taken' ELSE posted'[i - 1].frame
    <3>1. posted'[i] = posted[i + 1] /\ i + 1 \in DOMAIN posted /\ i + 1 # 1 /\ (i + 1) - 1 = i /\ i \in Nat
      BY <1>1
    <3>2. posted[i + 1].frame > posted[i].frame /\ held[posted[i + 1].buf] = posted[i + 1].frame
      BY <3>1, <2>1
    <3>3. CASE i = 1
      BY <3>1, <3>2, <3>3, <1>a
    <3>4. CASE i # 1
      <4>1. i - 1 \in 1..Len(posted') /\ (i - 1) + 1 = i
        BY <3>4, <3>1, <1>1
      <4>2. posted'[i - 1] = posted[i]
        BY <4>1, <1>1
      <4> QED BY <4>2, <3>1, <3>2, <3>4, <1>a
    <3> QED BY <3>3, <3>4
  <2> QED BY <2>2 DEF PostedInOrder
<1> QED BY <1>3, <1>5, <1>6, <1>8, <1>9 DEF RxInv

\* Nothing that is sent changes what is received.
LEMMA RxInvariant ==
    ASSUME RxInv, [EmacNext]_<<rxVars, txVars>>
    PROVE  RxInv'
<1>1. CASE RxNext
  BY <1>1, FrameArrivesKeeps, RxFlagsKeep, FrameDroppedKeeps, FrameTakenKeeps, StackTakesKeeps DEF RxNext
<1>2. CASE UNCHANGED rxVars
  <2>1. UNCHANGED <<rxd, filled, rx_idx, held, spare, posted, rx, frames, taken>>
    BY <1>2 DEF rxVars
  <2>2. (RxTypeOK => RxTypeOK') /\ (OwnPlaces => OwnPlaces')
    BY <2>1 DEF RxTypeOK, OwnPlaces, InRing, InBox
  <2>3. (FullAhead => FullAhead') /\ (NotAsleep => NotAsleep')
    BY <2>1 DEF FullAhead, Full, FromIdx, NotAsleep
  <2>4. (PostedInOrder => PostedInOrder') /\ (FramesInOrder => FramesInOrder')
    BY <2>1 DEF PostedInOrder, FramesInOrder, LastTold, InBox, InRing, Full, FromIdx
  <2> QED BY <2>2, <2>3, <2>4 DEF RxInv
<1>3. TxNext => UNCHANGED rxVars
  <2>1. OutputStarts \/ OutputWaits \/ OutputWrites => UNCHANGED rxVars
    BY DEF OutputStarts, OutputWaits, OutputWrites
  <2>2. MacSends \/ TxIsr => UNCHANGED rxVars
    BY DEF MacSends, TxIsr
  <2>3. TxReclaim => UNCHANGED rxVars
    BY Zenon DEF TxReclaim
  <2> QED BY <2>1, <2>2, <2>3 DEF TxNext
<1> QED BY <1>1, <1>2, <1>3 DEF EmacNext

\* There is one element of S at each of n places.
OneAtEach(f, n, S) ==
    /\ n \in Nat /\ \A i \in 1..n : f[i] \in S
    /\ \A x \in S : \E i \in 1..n : x = f[i]
    /\ \A i, j \in 1..n : f[i] = f[j] => i = j

LEMMA CountOfPlaces ==
    ASSUME NEW n, NEW S, NEW f, OneAtEach(f, n, S)
    PROVE  Cardinality(S) = n
<1>0. /\ n \in Nat /\ \A i \in 1..n : f[i] \in S
      /\ \A x \in S : \E i \in 1..n : x = f[i]
      /\ \A i, j \in 1..n : f[i] = f[j] => i = j
  BY DEF OneAtEach
<1> DEFINE g == [i \in 1..n |-> f[i]]
<1>1. g \in [1..n -> S] /\ \A i \in 1..n : g[i] = f[i]
  BY <1>0
<1> HIDE DEF g
<1>2. g \in Bijection(1..n, S)
  <2>1. \A i, j \in 1..n : g[i] = g[j] => i = j
    BY <1>0, <1>1
  <2>2. \A x \in S : \E i \in 1..n : g[i] = x
    BY <1>0, <1>1
  <2> QED BY <1>1, <2>1, <2>2 DEF Bijection, Injection, Surjection, IsInjective
<1>3. ExistsBijection(1..n, S)
  BY <1>2 DEF ExistsBijection
<1> QED BY <1>0, <1>3, FS_CountingElements

LEMMA RxInvImplies ==
    ASSUME RxInv
    PROVE  ReceivesWhole
<1>a. /\ rxd \in [RxSlots -> RxDescriptor] /\ posted \in Seq(Frame) /\ RxRing \in Nat
  BY EmacAssumption DEF RxInv, RxTypeOK, EmacAssumption
<1>1. Cardinality(InRing) = RxRing
  <2> DEFINE f == [i \in 1..RxRing |-> rxd[i - 1].buf]
  <2>1. \A i \in 1..RxRing : i - 1 \in RxSlots /\ f[i] = rxd[i - 1].buf
    BY <1>a DEF RxSlots
  <2>2. \A i, j \in 1..RxRing : f[i] = f[j] => i = j
    <3>1. \A i, j \in 1..RxRing : i - 1 = j - 1 => i = j
      BY <1>a
    <3> QED BY <2>1, <3>1 DEF RxInv, OwnPlaces
  <2>3. \A i \in RxSlots : i + 1 \in 1..RxRing /\ f[i + 1] = rxd[i].buf
    BY <1>a DEF RxSlots
  <2> HIDE DEF f
  <2>4. \A i \in 1..RxRing : f[i] \in InRing
    BY <2>1 DEF InRing
  <2>5. \A x \in InRing : \E i \in 1..RxRing : x = f[i]
    BY <2>3 DEF InRing
  <2>6. OneAtEach(f, RxRing, InRing)
    BY <2>2, <2>4, <2>5, <1>a DEF OneAtEach
  <2> QED BY <2>6, CountOfPlaces
<1>2. Cardinality(InBox) = Len(posted)
  <2> DEFINE n == Len(posted)
             f == [i \in 1..n |-> posted[i].buf]
  <2>1. DOMAIN posted = 1..n /\ n \in Nat
    BY <1>a
  <2>2. \A i \in 1..n : f[i] = posted[i].buf
    OBVIOUS
  <2> HIDE DEF f, n
  <2>3. \A i, j \in 1..n : f[i] = f[j] => i = j
    BY <2>1, <2>2 DEF RxInv, OwnPlaces
  <2>4. \A i \in 1..n : f[i] \in InBox
    BY <2>1, <2>2 DEF InBox
  <2>5. \A x \in InBox : \E i \in 1..n : x = f[i]
    BY <2>1, <2>2 DEF InBox
  <2>6. Cardinality(InBox) = n
    <3>1. OneAtEach(f, n, InBox)
      BY <2>1, <2>3, <2>4, <2>5 DEF OneAtEach
    <3> QED BY <3>1, CountOfPlaces
  <2> QED BY <2>6 DEF n
<1>3. InRing \cap InBox = {} /\ spare = (1..RxBuffers) \ (InRing \cup InBox)
  BY DEF RxInv, OwnPlaces, InRing, InBox
<1>4. \A i \in DOMAIN posted :
          /\ held[posted[i].buf] = posted[i].frame
          /\ posted[i].frame > IF i = 1 THEN taken ELSE posted[i - 1].frame
  BY DEF RxInv, PostedInOrder
<1>5. rx.at = "wait" /\ ~rxd[rx_idx].empty => rx.sem > 0 \/ rx.irq
  BY DEF RxInv, NotAsleep
<1> QED BY <1>1, <1>2, <1>3, <1>4, <1>5 DEF ReceivesWhole, InRing, InBox

-----------------------------------------------------------------------------
(* Sending: the invariant *)

LEMMA RingSteps ==
    ASSUME NEW n \in Nat, n > 1, NEW c \in 0..(n - 1), NEW a \in 0..(n - 1),
           NEW j \in 0..(n - 1), Dist(n, c, a) + j <= n - 1
    PROVE  (a + j) % n \in 0..(n - 1) /\ Dist(n, c, (a + j) % n) = Dist(n, c, a) + j
<1>1. (a + j) % n = IF a + j < n THEN a + j ELSE a + j - n
  <2> DEFINE x == a + j
  <2>1. x \in 0..(2 * n - 1) /\ n \in Nat \ {0}
    OBVIOUS
  <2> HIDE DEF x
  <2>2. x % n = IF x < n THEN x ELSE x - n
    BY <2>1, Wraps
  <2> QED BY <2>2 DEF x
<1>2. CASE a + j < n
  BY <1>1, <1>2 DEF Dist
<1>3. CASE a + j >= n
  BY <1>1, <1>3 DEF Dist
<1> QED BY <1>2, <1>3

LEMMA RingFrom ==
    ASSUME NEW n \in Nat, n > 1, NEW c \in 0..(n - 1), NEW m \in 0..(n - 1)
    PROVE  /\ (c + Dist(n, c, m)) % n = m
           /\ (m + n - c) % n = Dist(n, c, m)
           /\ \A i \in 0..(n - 1) :
                 Dist(n, m, i) = IF Dist(n, c, i) >= Dist(n, c, m) THEN Dist(n, c, i) - Dist(n, c, m)
                                 ELSE Dist(n, c, i) - Dist(n, c, m) + n
<1>1. (c + Dist(n, c, m)) % n = m
  <2> DEFINE x == c + Dist(n, c, m)
  <2>1. x \in 0..(2 * n - 1) /\ (x = m \/ x = m + n) /\ n \in Nat \ {0}
    BY DEF Dist
  <2> HIDE DEF x
  <2>2. x % n = IF x < n THEN x ELSE x - n
    BY <2>1, Wraps
  <2>3. x % n = m
    BY <2>1, <2>2
  <2> QED BY <2>3 DEF x
<1>2. (m + n - c) % n = Dist(n, c, m)
  <2> DEFINE x == m + n - c
  <2>1. x \in 0..(2 * n - 1) /\ n \in Nat \ {0}
    OBVIOUS
  <2>2. Dist(n, c, m) = IF x < n THEN x ELSE x - n
    BY DEF Dist
  <2> HIDE DEF x
  <2>3. x % n = IF x < n THEN x ELSE x - n
    BY <2>1, Wraps
  <2>4. x % n = Dist(n, c, m)
    BY <2>2, <2>3
  <2> QED BY <2>4 DEF x
<1>3. \A i \in 0..(n - 1) :
          Dist(n, m, i) = IF Dist(n, c, i) >= Dist(n, c, m) THEN Dist(n, c, i) - Dist(n, c, m)
                          ELSE Dist(n, c, i) - Dist(n, c, m) + n
  BY DEF Dist
<1> QED BY <1>1, <1>2, <1>3

TxDescriptor == [ready : BOOLEAN, last : BOOLEAN, pkt : Nat, txb : Nat, aligned : Nat]
Job    == [pkt : Nat, copy : BOOLEAN, dn : 0..2]
Sender == [count : Nat, clean : Nat, irq : BOOLEAN]

TxTypeOK ==
    /\ txd \in [TxSlots -> TxDescriptor]
    /\ tx_produce_index \in TxSlots /\ tx_consume_index \in TxSlots /\ mac \in TxSlots
    /\ job \in Job /\ tx \in Sender /\ packets \in Nat /\ accepted \in Seq(Nat) /\ wire \in Seq(Nat)

\* The descriptors the MAC has are those between it and the producer.
FromOldest(i) == Dist(TxRing, tx_consume_index, i)

ReadyAhead ==
    /\ FromOldest(mac) <= FromOldest(tx_produce_index)
    /\ \A i \in TxSlots : txd[i].ready <=> FromOldest(mac) <= FromOldest(i) /\ FromOldest(i) < FromOldest(tx_produce_index)

\* Packets are accepted one by one.
JobOK ==
    /\ job.pkt = 0 => ~job.copy /\ job.dn = 0
    /\ job.pkt # 0 => job.dn > 0
    /\ job.copy => job.dn = 1
    /\ job.pkt <= packets
    /\ \A n \in 1..Len(accepted) : accepted[n] > 0 /\ accepted[n] <= packets /\ (job.pkt # 0 => accepted[n] < job.pkt)
    /\ \A n, k \in 1..Len(accepted) : n < k => accepted[n] < accepted[k]

Sent == Len(wire) <= Len(accepted) /\ \A i \in 1..Len(wire) : wire[i] = accepted[i]

\* The packets that are not sent are in the ring, in order, each up to its last descriptor.
Waiting == (Len(wire) + 1)..Len(accepted)

PacketsInRing ==
    /\ \A i \in TxSlots : txd[i].ready => \E n \in Waiting : txd[i].pkt = accepted[n]
    /\ \A n \in Waiting : \E i \in TxSlots : txd[i].ready /\ txd[i].pkt = accepted[n]
    /\ \A i, j \in TxSlots : txd[i].ready /\ txd[j].ready /\ FromOldest(i) < FromOldest(j) =>
          txd[i].pkt <= txd[j].pkt /\ (txd[i].last => txd[i].pkt < txd[j].pkt)
    /\ \A i \in TxSlots : txd[i].ready => \E l \in TxSlots :
          txd[l].ready /\ txd[l].last /\ FromOldest(i) <= FromOldest(l) /\ txd[l].pkt = txd[i].pkt

\* The memory of a packet is kept at one descriptor, its last, or is that of the job.
Owned(d) == IF d.aligned # 0 THEN d.aligned ELSE d.txb
OwnedInRing == {Owned(txd[i]) : i \in TxSlots}

Owners ==
    /\ \A i \in TxSlots : txd[i].ready /\ txd[i].last => Owned(txd[i]) = txd[i].pkt
    /\ \A i \in TxSlots : txd[i].aligned = 0 \/ txd[i].txb = 0
    /\ \A i \in TxSlots : FromOldest(i) >= FromOldest(tx_produce_index) =>
          /\ txd[i].txb = 0
          /\ txd[i].aligned = IF job.copy /\ i = tx_produce_index THEN job.pkt ELSE 0
    /\ \A i, j \in TxSlots : i # j /\ Owned(txd[i]) # 0 => Owned(txd[i]) # Owned(txd[j])
    /\ \A i \in TxSlots : Owned(txd[i]) <= packets /\ (job.pkt # 0 /\ Owned(txd[i]) = job.pkt => i = tx_produce_index /\ job.copy)
    /\ live = (OwnedInRing \cup {job.pkt}) \ {0}

Signalled ==
    tx_consume_index # tx_produce_index => (\E i \in TxSlots : txd[i].ready) \/ tx.irq \/ tx.clean > 0

TxInv == TxTypeOK /\ ReadyAhead /\ JobOK /\ Sent /\ PacketsInRing /\ Owners /\ Signalled

LEMMA TxRingOK ==
    TxRing \in Nat /\ TxRing > 1 /\ TxSlots = 0..(TxRing - 1) /\ 0 \in TxSlots
BY EmacAssumption DEF EmacAssumption, TxSlots

LEMMA TxInitially ==
    ASSUME EmacInit
    PROVE  TxInv
<1>b. /\ txd = [i \in TxSlots |-> [ready |-> FALSE, last |-> FALSE, pkt |-> 0, txb |-> 0, aligned |-> 0]]
      /\ tx_produce_index = 0 /\ tx_consume_index = 0 /\ mac = 0
      /\ job = [pkt |-> 0, copy |-> FALSE, dn |-> 0]
      /\ tx = [count |-> TxRing, clean |-> 0, irq |-> FALSE]
      /\ live = {} /\ packets = 0 /\ accepted = <<>> /\ wire = <<>>
  BY DEF EmacInit
<1>1. TxTypeOK
  <2>1. txd \in [TxSlots -> TxDescriptor]
    BY <1>b DEF TxDescriptor
  <2>2. job \in Job /\ tx \in Sender
    BY <1>b, TxRingOK DEF Job, Sender
  <2> QED BY <1>b, <2>1, <2>2, TxRingOK DEF TxTypeOK
<1>2. \A i \in TxSlots : ~txd[i].ready /\ txd[i].txb = 0 /\ txd[i].aligned = 0 /\ Owned(txd[i]) = 0
  BY <1>b DEF Owned
<1>3. ReadyAhead
  <2>1. FromOldest(mac) = 0 /\ FromOldest(tx_produce_index) = 0 /\ \A i \in TxSlots : FromOldest(i) \in Nat
    BY <1>b, TxRingOK DEF FromOldest, Dist
  <2> QED BY <1>2, <2>1 DEF ReadyAhead
<1>4. JobOK /\ Sent
  BY <1>b DEF JobOK, Sent
<1>5. PacketsInRing
  BY <1>b, <1>2 DEF PacketsInRing, Waiting
<1>6. OwnedInRing = {0}
  BY <1>2, TxRingOK DEF OwnedInRing
<1>7. Owners
  BY <1>b, <1>2, <1>6 DEF Owners
<1>8. Signalled
  BY <1>b DEF Signalled
<1> QED BY <1>1, <1>3, <1>4, <1>5, <1>7, <1>8 DEF TxInv

LEMMA TxDescriptorFields ==
    ASSUME NEW d \in TxDescriptor
    PROVE  /\ d.ready \in BOOLEAN /\ d.last \in BOOLEAN /\ d.pkt \in Nat /\ d.txb \in Nat /\ d.aligned \in Nat
           /\ Owned(d) \in Nat
BY DEF TxDescriptor, Owned

LEMMA TxFields ==
    ASSUME TxTypeOK
    PROVE  /\ \A i \in TxSlots : /\ txd[i] \in TxDescriptor
                                 /\ txd[i].ready \in BOOLEAN /\ txd[i].last \in BOOLEAN /\ txd[i].pkt \in Nat
                                 /\ txd[i].txb \in Nat /\ txd[i].aligned \in Nat /\ Owned(txd[i]) \in Nat
           /\ job.pkt \in Nat /\ job.copy \in BOOLEAN /\ job.dn \in 0..2
           /\ tx.count \in Nat /\ tx.clean \in Nat /\ tx.irq \in BOOLEAN
           /\ \A n \in 1..Len(accepted) : accepted[n] \in Nat
           /\ Len(accepted) \in Nat /\ Len(wire) \in Nat
<1>1. \A i \in TxSlots : txd[i] \in TxDescriptor
  BY DEF TxTypeOK
<1>2. job.pkt \in Nat /\ job.copy \in BOOLEAN /\ job.dn \in 0..2
  BY DEF TxTypeOK, Job
<1>3. tx.count \in Nat /\ tx.clean \in Nat /\ tx.irq \in BOOLEAN
  BY DEF TxTypeOK, Sender
<1>4. (\A n \in 1..Len(accepted) : accepted[n] \in Nat) /\ Len(accepted) \in Nat /\ Len(wire) \in Nat
  BY DEF TxTypeOK
<1> QED BY <1>1, <1>2, <1>3, <1>4, TxDescriptorFields

LEMMA TxPlaces ==
    ASSUME TxTypeOK
    PROVE  /\ \A i \in TxSlots : FromOldest(i) \in 0..(TxRing - 1)
           /\ \A i, j \in TxSlots : FromOldest(i) = FromOldest(j) => i = j
           /\ FromOldest(tx_consume_index) = 0
BY TxRingOK, RingPlaces DEF TxTypeOK, FromOldest

\* low_level_output begins: the packet takes its memory.
LEMMA OutputStartsKeeps ==
    ASSUME TxInv, OutputStarts
    PROVE  TxInv'
<1>a. /\ txd \in [TxSlots -> TxDescriptor] /\ tx_produce_index \in TxSlots /\ packets \in Nat /\ packets + 1 \in Nat
      /\ TxTypeOK /\ job.pkt = 0 /\ packets' = packets + 1 /\ ~job.copy
      /\ UNCHANGED <<tx_produce_index, tx_consume_index, mac, tx, accepted, wire>>
  BY DEF TxInv, TxTypeOK, OutputStarts, JobOK
<1>b. \A i \in TxSlots : FromOldest(i) >= FromOldest(tx_produce_index) => txd[i].txb = 0 /\ txd[i].aligned = 0
  BY <1>a DEF TxInv, Owners
<1>c. txd[tx_produce_index].txb = 0 /\ txd[tx_produce_index].aligned = 0 /\ ~txd[tx_produce_index].ready
  BY <1>a, <1>b, TxPlaces DEF TxInv, ReadyAhead
<1>d. /\ \A n \in 1..Len(accepted) : accepted[n] \in Nat /\ accepted[n] > 0 /\ accepted[n] <= packets
      /\ \A i \in TxSlots : Owned(txd[i]) \in Nat /\ Owned(txd[i]) <= packets
  BY <1>a, TxFields DEF TxInv, JobOK, Owners
<1>1. CASE UNCHANGED <<job, live, txd>>
  <2>1. TxTypeOK'
    BY <1>1, <1>a DEF TxTypeOK
  <2>2. JobOK'
    BY <1>1, <1>a, <1>d DEF TxInv, JobOK
  <2>3. Owners'
    BY <1>1, <1>a, <1>d DEF TxInv, Owners, OwnedInRing, FromOldest
  <2>4. ReadyAhead' /\ Sent' /\ PacketsInRing' /\ Signalled'
    BY <1>1, <1>a DEF TxInv, ReadyAhead, Sent, PacketsInRing, Waiting, Signalled, FromOldest
  <2> QED BY <2>1, <2>2, <2>3, <2>4 DEF TxInv
<1>2. CASE /\ job' = [pkt |-> packets', copy |-> TRUE, dn |-> 1]
           /\ txd' = [txd EXCEPT ![tx_produce_index].aligned = packets']
           /\ live' = live \cup {packets'}
  <2>1. txd' = [txd EXCEPT ![tx_produce_index] = [txd[tx_produce_index] EXCEPT !.aligned = packets + 1]]
    BY <1>2, <1>a
  <2>2. /\ [txd[tx_produce_index] EXCEPT !.aligned = packets + 1] \in TxDescriptor
        /\ \A d \in TxDescriptor : LET e == [d EXCEPT !.aligned = packets + 1]
                                   IN  /\ e.aligned = packets + 1 /\ e.txb = d.txb /\ e.ready = d.ready
                                       /\ e.last = d.last /\ e.pkt = d.pkt
    BY <1>a DEF TxDescriptor
  <2>3. /\ txd' \in [TxSlots -> TxDescriptor]
        /\ \A i \in TxSlots : /\ txd'[i].ready = txd[i].ready /\ txd'[i].last = txd[i].last /\ txd'[i].pkt = txd[i].pkt
                              /\ txd'[i].txb = txd[i].txb
                              /\ txd'[i].aligned = IF i = tx_produce_index THEN packets + 1 ELSE txd[i].aligned
                              /\ Owned(txd'[i]) = IF i = tx_produce_index THEN packets + 1 ELSE Owned(txd[i])
    BY <2>1, <2>2, <1>a DEF Owned
  <2>4. job' \in Job /\ job'.pkt = packets + 1 /\ job'.copy /\ job'.dn = 1
    BY <1>2, <1>a DEF Job
  <2>5. TxTypeOK'
    BY <1>a, <2>3, <2>4 DEF TxTypeOK
  <2>6. JobOK'
    BY <1>a, <1>d, <2>4 DEF TxInv, JobOK
  <2>7. ReadyAhead' /\ Sent' /\ PacketsInRing' /\ Signalled'
    <3>1. Waiting' = Waiting /\ \A i : FromOldest(i)' = FromOldest(i)
      BY <1>a DEF Waiting, FromOldest
    <3>2. ReadyAhead' /\ Sent' /\ Signalled'
      BY <1>a, <2>3, <3>1 DEF TxInv, ReadyAhead, Sent, Signalled
    <3>3. PacketsInRing'
      <4>1. \A i \in TxSlots : txd'[i].ready => \E n \in Waiting : txd'[i].pkt = accepted[n]
        BY <2>3 DEF TxInv, PacketsInRing
      <4>2. \A n \in Waiting : \E i \in TxSlots : txd'[i].ready /\ txd'[i].pkt = accepted[n]
        BY <2>3 DEF TxInv, PacketsInRing
      <4>3. \A i, j \in TxSlots : txd'[i].ready /\ txd'[j].ready /\ FromOldest(i) < FromOldest(j) =>
                txd'[i].pkt <= txd'[j].pkt /\ (txd'[i].last => txd'[i].pkt < txd'[j].pkt)
        BY <2>3 DEF TxInv, PacketsInRing
      <4>4. ASSUME NEW i \in TxSlots, txd'[i].ready
            PROVE  \E l \in TxSlots : txd'[l].ready /\ txd'[l].last /\ FromOldest(i) <= FromOldest(l) /\ txd'[l].pkt = txd'[i].pkt
        <5>1. PICK l \in TxSlots : txd[l].ready /\ txd[l].last /\ FromOldest(i) <= FromOldest(l) /\ txd[l].pkt = txd[i].pkt
          BY <4>4, <2>3 DEF TxInv, PacketsInRing
        <5> QED BY <5>1, <2>3
      <4> QED BY <4>1, <4>2, <4>3, <4>4, <3>1, <1>a DEF PacketsInRing
    <3> QED BY <3>2, <3>3
  <2>8. Owners'
    <3>1. OwnedInRing' \ {0} = (OwnedInRing \cup {packets + 1}) \ {0}
      <4>1. Owned(txd[tx_produce_index]) = 0
        BY <1>c DEF Owned
      <4>2. \A x \in OwnedInRing' : x \in OwnedInRing \/ x = packets + 1
        BY <2>3 DEF OwnedInRing
      <4>3. packets + 1 \in OwnedInRing'
        BY <2>3, <1>a DEF OwnedInRing
      <4>4. \A x \in OwnedInRing : x # 0 => x \in OwnedInRing'
        BY <2>3, <4>1 DEF OwnedInRing
      <4> QED BY <4>2, <4>3, <4>4
    <3>2. live' = (OwnedInRing' \cup {job'.pkt}) \ {0}
      BY <3>1, <1>2, <1>a, <2>4 DEF TxInv, Owners
    <3>3. \A i \in TxSlots : txd'[i].ready /\ txd'[i].last => Owned(txd'[i]) = txd'[i].pkt
      BY <2>3, <1>c DEF TxInv, Owners
    <3>4. \A i \in TxSlots : txd'[i].aligned = 0 \/ txd'[i].txb = 0
      BY <2>3, <1>c DEF TxInv, Owners
    <3>5. \A i \in TxSlots : FromOldest(i)' >= FromOldest(tx_produce_index)' =>
             txd'[i].txb = 0 /\ txd'[i].aligned = IF job'.copy /\ i = tx_produce_index' THEN job'.pkt ELSE 0
      BY <2>3, <2>4, <1>a, <1>b DEF FromOldest
    <3>6. \A i, j \in TxSlots : i # j /\ Owned(txd'[i]) # 0 => Owned(txd'[i]) # Owned(txd'[j])
      BY <2>3, <1>a, <1>d DEF TxInv, Owners
    <3>7. \A i \in TxSlots : Owned(txd'[i]) <= packets' /\ (job'.pkt # 0 /\ Owned(txd'[i]) = job'.pkt => i = tx_produce_index' /\ job'.copy)
      BY <2>3, <2>4, <1>a, <1>d
    <3> QED BY <3>2, <3>3, <3>4, <3>5, <3>6, <3>7 DEF Owners
  <2> QED BY <2>5, <2>6, <2>7, <2>8 DEF TxInv
<1>3. CASE /\ \E n \in 1..2 : job' = [pkt |-> packets', copy |-> FALSE, dn |-> n]
           /\ txd' = [txd EXCEPT ![tx_produce_index].aligned = 0]
           /\ live' = live \cup {packets'}
  <2>1. txd' = txd
    <3>1. txd' = [txd EXCEPT ![tx_produce_index] = [txd[tx_produce_index] EXCEPT !.aligned = 0]]
      BY <1>3, <1>a
    <3>2. [txd[tx_produce_index] EXCEPT !.aligned = 0] = txd[tx_produce_index]
      BY <1>a, <1>c DEF TxDescriptor
    <3> QED BY <3>1, <3>2, <1>a
  <2>2. job' \in Job /\ job'.pkt = packets + 1 /\ ~job'.copy /\ job'.dn > 0
    BY <1>3, <1>a DEF Job
  <2>3. TxTypeOK'
    BY <1>a, <2>1, <2>2 DEF TxTypeOK
  <2>4. JobOK'
    BY <1>a, <1>d, <2>2 DEF TxInv, JobOK
  <2>5. ReadyAhead' /\ Sent' /\ PacketsInRing' /\ Signalled'
    BY <1>a, <2>1 DEF TxInv, ReadyAhead, Sent, PacketsInRing, Waiting, Signalled, FromOldest
  <2>6. Owners'
    BY <1>3, <1>a, <1>b, <1>d, <2>1, <2>2 DEF TxInv, Owners, OwnedInRing, FromOldest
  <2> QED BY <2>3, <2>4, <2>5, <2>6 DEF TxInv
<1> QED BY <1>1, <1>2, <1>3 DEF OutputStarts

\* The semaphore and the interrupt: only tx changes.
LEMMA TxFlagsKeep ==
    ASSUME TxInv, OutputWaits \/ TxIsr
    PROVE  TxInv'
<1>a. /\ tx \in Sender
      /\ UNCHANGED <<txd, tx_produce_index, tx_consume_index, mac, job, live, packets, accepted, wire>>
  BY DEF TxInv, TxTypeOK, OutputWaits, TxIsr
<1>1. tx' \in Sender /\ (tx.irq \/ tx.clean > 0 => tx'.irq \/ tx'.clean > 0)
  <2>1. CASE OutputWaits
    <3>1. tx.count > 0 /\ tx' = [tx EXCEPT !.count = tx.count - 1]
      BY <2>1 DEF OutputWaits
    <3>2. tx.count \in Nat /\ tx.count - 1 \in Nat
      BY <1>a, <3>1 DEF Sender
    <3> QED BY <1>a, <3>1, <3>2 DEF Sender
  <2>2. CASE TxIsr
    <3>1. tx' = [tx EXCEPT !.irq = FALSE, !.clean = tx.clean + 1]
      BY <2>2 DEF TxIsr
    <3>2. tx.clean \in Nat /\ tx.clean + 1 \in Nat /\ tx.clean + 1 > 0
      BY <1>a DEF Sender
    <3>3. tx' \in Sender /\ tx'.clean = tx.clean + 1
      BY <1>a, <3>1, <3>2 DEF Sender
    <3> QED BY <3>2, <3>3
  <2> QED BY <2>1, <2>2
<1>2. TxTypeOK'
  BY <1>a, <1>1 DEF TxInv, TxTypeOK
<1>3. Signalled'
  BY <1>a, <1>1 DEF TxInv, Signalled
<1>4. ReadyAhead' /\ JobOK' /\ Sent' /\ PacketsInRing' /\ Owners'
  BY <1>a DEF TxInv, ReadyAhead, JobOK, Sent, PacketsInRing, Waiting, Owners, OwnedInRing, FromOldest
<1> QED BY <1>2, <1>3, <1>4 DEF TxInv

\* The MAC sends what is first; with the last descriptor of a packet, the packet.
LEMMA MacSendsKeeps ==
    ASSUME TxInv, MacSends
    PROVE  TxInv'
<1>a. /\ txd \in [TxSlots -> TxDescriptor] /\ tx_produce_index \in TxSlots /\ mac \in TxSlots /\ tx_consume_index \in TxSlots
      /\ tx \in Sender /\ wire \in Seq(Nat) /\ accepted \in Seq(Nat) /\ TxTypeOK
      /\ UNCHANGED <<tx_produce_index, tx_consume_index, job, live, packets, accepted>>
      /\ txd[mac].ready /\ mac' = (mac + 1) % TxRing
      /\ txd' = [txd EXCEPT ![mac].ready = FALSE]
  BY DEF TxInv, TxTypeOK, MacSends
<1>b. /\ \A i \in TxSlots : FromOldest(i) \in 0..(TxRing - 1) /\ FromOldest(i)' = FromOldest(i)
      /\ \A i, j \in TxSlots : FromOldest(i) = FromOldest(j) => i = j
  BY <1>a, TxPlaces DEF FromOldest
<1>c. /\ FromOldest(mac) <= FromOldest(tx_produce_index)
      /\ \A i \in TxSlots : txd[i].ready <=> FromOldest(mac) <= FromOldest(i) /\ FromOldest(i) < FromOldest(tx_produce_index)
  BY DEF TxInv, ReadyAhead
<1>1. /\ txd' \in [TxSlots -> TxDescriptor]
      /\ ~txd'[mac].ready /\ \A i \in TxSlots : i # mac => txd'[i] = txd[i]
      /\ \A i \in TxSlots : txd'[i].pkt = txd[i].pkt /\ txd'[i].last = txd[i].last /\ Owned(txd'[i]) = Owned(txd[i])
                            /\ txd'[i].txb = txd[i].txb /\ txd'[i].aligned = txd[i].aligned
  <2>1. txd' = [txd EXCEPT ![mac] = [txd[mac] EXCEPT !.ready = FALSE]]
    BY <1>a
  <2>2. \A d \in TxDescriptor : LET e == [d EXCEPT !.ready = FALSE]
                                IN  /\ e \in TxDescriptor /\ ~e.ready
                                    /\ e.aligned = d.aligned /\ e.txb = d.txb /\ e.last = d.last /\ e.pkt = d.pkt
    BY DEF TxDescriptor
  <2> QED BY <2>1, <2>2, <1>a DEF Owned
<1>2. mac' \in TxSlots /\ FromOldest(mac)' = FromOldest(mac) + 1
  <2>1. FromOldest(mac) + 1 <= TxRing - 1
    BY <1>a, <1>b, <1>c, TxRingOK
  <2>2. 1 \in 0..(TxRing - 1)
    BY TxRingOK
  <2>3. mac' \in TxSlots /\ Dist(TxRing, tx_consume_index, mac') = Dist(TxRing, tx_consume_index, mac) + 1
    BY <2>1, <2>2, <1>a, TxRingOK, RingSteps DEF FromOldest
  <2> QED BY <2>3, <1>a DEF FromOldest
<1>3. ReadyAhead'
  <2>1. \A i \in TxSlots : txd'[i].ready <=> txd[i].ready /\ i # mac
    BY <1>1, <1>a
  <2>2. FromOldest(mac) + 1 <= FromOldest(tx_produce_index)
    BY <1>a, <1>b, <1>c
  <2>3. \A i \in TxSlots : FromOldest(mac) + 1 <= FromOldest(i) <=> (FromOldest(mac) <= FromOldest(i) /\ i # mac)
    BY <1>a, <1>b
  <2> QED BY <2>1, <2>2, <2>3, <1>a, <1>b, <1>c, <1>2 DEF ReadyAhead
<1>4. JobOK'
  BY <1>a DEF TxInv, JobOK
<1>5. Owners'
  <2>1. OwnedInRing' = OwnedInRing
    BY <1>1 DEF OwnedInRing
  <2>2. \A i \in TxSlots : txd'[i].ready => txd[i].ready
    BY <1>1
  <2>3. \A i \in TxSlots : txd'[i].ready /\ txd'[i].last => Owned(txd'[i]) = txd'[i].pkt
    BY <2>2, <1>1 DEF TxInv, Owners
  <2>4. \A i \in TxSlots : txd'[i].aligned = 0 \/ txd'[i].txb = 0
    BY <1>1 DEF TxInv, Owners
  <2>5. \A i \in TxSlots : FromOldest(i) >= FromOldest(tx_produce_index) =>
             txd'[i].txb = 0 /\ txd'[i].aligned = IF job.copy /\ i = tx_produce_index THEN job.pkt ELSE 0
    BY <1>1 DEF TxInv, Owners
  <2>6. \A i, j \in TxSlots : i # j /\ Owned(txd'[i]) # 0 => Owned(txd'[i]) # Owned(txd'[j])
    BY <1>1 DEF TxInv, Owners
  <2>7. \A i \in TxSlots : Owned(txd'[i]) <= packets /\ (job.pkt # 0 /\ Owned(txd'[i]) = job.pkt => i = tx_produce_index /\ job.copy)
    BY <1>1 DEF TxInv, Owners
  <2>8. live = (OwnedInRing \cup {job.pkt}) \ {0}
    BY DEF TxInv, Owners
  <2>9. \A i \in TxSlots : FromOldest(i)' >= FromOldest(tx_produce_index)' =>
             txd'[i].txb = 0 /\ txd'[i].aligned = IF job.copy /\ i = tx_produce_index THEN job.pkt ELSE 0
    BY <2>5, <1>a DEF FromOldest
  <2>10. job' = job /\ live' = live /\ packets' = packets /\ tx_produce_index' = tx_produce_index
    BY <1>a
  <2> QED BY <2>1, <2>3, <2>4, <2>6, <2>7, <2>8, <2>9, <2>10 DEF Owners
<1>6. /\ \A i \in TxSlots : txd[i].ready => \E n \in Waiting : txd[i].pkt = accepted[n]
      /\ \A n \in Waiting : \E i \in TxSlots : txd[i].ready /\ txd[i].pkt = accepted[n]
      /\ \A i, j \in TxSlots : txd[i].ready /\ txd[j].ready /\ FromOldest(i) < FromOldest(j) =>
            txd[i].pkt <= txd[j].pkt /\ (txd[i].last => txd[i].pkt < txd[j].pkt)
      /\ \A i \in TxSlots : txd[i].ready => \E l \in TxSlots :
            txd[l].ready /\ txd[l].last /\ FromOldest(i) <= FromOldest(l) /\ txd[l].pkt = txd[i].pkt
  BY DEF TxInv, PacketsInRing
<1>7. /\ \A i \in TxSlots : txd[i].pkt \in Nat /\ txd[i].ready \in BOOLEAN
      /\ \A n \in 1..Len(accepted) : accepted[n] \in Nat
      /\ \A n, k \in 1..Len(accepted) : n < k => accepted[n] < accepted[k]
      /\ Len(accepted) \in Nat /\ Len(wire) \in Nat
  BY <1>a, TxFields DEF TxInv, JobOK
<1>8. \A i \in TxSlots : txd'[i].ready => txd[i].ready /\ FromOldest(mac) < FromOldest(i)
  <2>1. \A i \in TxSlots : txd'[i].ready => txd[i].ready /\ i # mac /\ FromOldest(mac) <= FromOldest(i)
    BY <1>1, <1>a, <1>c
  <2> QED BY <2>1, <1>a, <1>b
<1>9. \A i, j \in TxSlots : txd'[i].ready /\ txd'[j].ready /\ FromOldest(i) < FromOldest(j) =>
          txd'[i].pkt <= txd'[j].pkt /\ (txd'[i].last => txd'[i].pkt < txd'[j].pkt)
  BY <1>6, <1>8, <1>1
<1>10. ASSUME NEW i \in TxSlots, txd'[i].ready
       PROVE  \E l \in TxSlots : txd'[l].ready /\ txd'[l].last /\ FromOldest(i) <= FromOldest(l) /\ txd'[l].pkt = txd'[i].pkt
  <2>1. PICK l \in TxSlots : txd[l].ready /\ txd[l].last /\ FromOldest(i) <= FromOldest(l) /\ txd[l].pkt = txd[i].pkt
    BY <1>10, <1>6, <1>8
  <2>2. l # mac
    BY <2>1, <1>10, <1>8, <1>b, <1>a
  <2> QED BY <2>1, <2>2, <1>1
<1>11. CASE ~txd[mac].last
  <2>1. wire' = wire /\ tx' = tx /\ Waiting' = Waiting
    BY <1>11, <1>a DEF MacSends, Waiting
  <2>2. ASSUME NEW n \in Waiting PROVE \E i \in TxSlots : txd'[i].ready /\ txd'[i].pkt = accepted[n]
    <3>1. PICK i \in TxSlots : txd[i].ready /\ txd[i].pkt = accepted[n]
      BY <1>6
    <3>2. PICK l \in TxSlots : txd[l].ready /\ txd[l].last /\ txd[l].pkt = txd[i].pkt
      BY <1>6, <3>1
    <3>3. l # mac
      BY <3>2, <1>11
    <3> QED BY <3>1, <3>2, <3>3, <1>1
  <2>3. \A i \in TxSlots : txd'[i].ready => \E n \in Waiting : txd'[i].pkt = accepted[n]
    BY <1>6, <1>8, <1>1
  <2>4. PacketsInRing'
    BY <2>1, <2>2, <2>3, <1>9, <1>10, <1>a, <1>b DEF PacketsInRing
  <2>5. Signalled'
    <3>1. PICK l \in TxSlots : txd[l].ready /\ txd[l].last
      BY <1>6, <1>a
    <3>2. l # mac
      BY <3>1, <1>11
    <3> QED BY <3>1, <3>2, <1>1 DEF Signalled
  <2>6. TxTypeOK' /\ Sent'
    BY <2>1, <1>a, <1>1, <1>2 DEF TxInv, TxTypeOK, Sent
  <2> QED BY <2>4, <2>5, <2>6, <1>3, <1>4, <1>5 DEF TxInv
<1>12. CASE txd[mac].last
  <2> DEFINE w == Len(wire) + 1
  <2>1. wire' = Append(wire, txd[mac].pkt) /\ tx' = [tx EXCEPT !.irq = TRUE]
    BY <1>12 DEF MacSends
  <2>2. tx' \in Sender /\ tx'.irq
    BY <2>1, <1>a DEF Sender
  <2>3. /\ wire' \in Seq(Nat) /\ Len(wire') = w /\ wire'[w] = txd[mac].pkt
        /\ \A i \in 1..Len(wire) : wire'[i] = wire[i]
    BY <2>1, <1>a, <1>7
  <2>4. w \in Waiting /\ txd[mac].pkt = accepted[w]
    <3>1. PICK n \in Waiting : txd[mac].pkt = accepted[n]
      BY <1>6, <1>a
    <3>2. w \in Waiting /\ w <= n /\ n \in 1..Len(accepted) /\ w \in 1..Len(accepted)
      BY <1>7 DEF Waiting
    <3>3. PICK i \in TxSlots : txd[i].ready /\ txd[i].pkt = accepted[w]
      BY <3>2, <1>6
    <3>4. FromOldest(mac) <= FromOldest(i)
      BY <3>3, <1>c
    <3>5. txd[mac].pkt <= txd[i].pkt
      <4>1. CASE i = mac
        BY <4>1, <1>7, <1>a
      <4>2. CASE i # mac
        <5>1. FromOldest(mac) < FromOldest(i)
          BY <4>2, <3>4, <1>a, <1>b
        <5> QED BY <5>1, <3>3, <1>6, <1>a
      <4> QED BY <4>1, <4>2
    <3>6. ~(w < n)
      BY <3>1, <3>2, <3>3, <3>5, <1>7
    <3>7. w = n
      BY <3>2, <3>6, <1>7
    <3> QED BY <3>1, <3>2, <3>7
  <2> HIDE DEF w
  <2>5. /\ \A n \in Waiting' : n \in Waiting /\ w < n
        /\ \A n \in Waiting : n # w => n \in Waiting'
        /\ w \in 1..Len(accepted) /\ Waiting \subseteq 1..Len(accepted)
    <3>1. Waiting = w..Len(accepted) /\ w \in Nat \ {0}
      BY <1>7 DEF Waiting, w
    <3>2. Waiting' = (w + 1)..Len(accepted)
      BY <2>3, <1>a DEF Waiting
    <3> QED BY <3>1, <3>2, <2>4, <1>7
  <2>6. \A i \in TxSlots : txd'[i].ready => \E n \in Waiting' : txd'[i].pkt = accepted[n]
    <3>1. TAKE i \in TxSlots
    <3>2. HAVE txd'[i].ready
    <3>3. txd[i].ready /\ FromOldest(mac) < FromOldest(i)
      BY <3>2, <1>8
    <3>4. txd[mac].pkt < txd[i].pkt
      BY <3>3, <1>6, <1>a, <1>12
    <3>5. PICK n \in Waiting : txd[i].pkt = accepted[n]
      BY <3>3, <1>6
    <3>6. n # w
      BY <3>4, <3>5, <2>4, <1>7
    <3> QED BY <3>5, <3>6, <2>5, <1>1
  <2>7. ASSUME NEW n \in Waiting' PROVE \E i \in TxSlots : txd'[i].ready /\ txd'[i].pkt = accepted[n]
    <3>1. PICK i \in TxSlots : txd[i].ready /\ txd[i].pkt = accepted[n]
      BY <1>6, <2>5
    <3>2. accepted[w] < accepted[n]
      BY <2>5, <1>7
    <3>3. i # mac
      BY <3>1, <3>2, <2>4, <1>7, <2>5
    <3> QED BY <3>1, <3>3, <1>1
  <2>8. PacketsInRing'
    BY <2>6, <2>7, <1>9, <1>10, <1>a, <1>b DEF PacketsInRing
  <2>9. Signalled'
    BY <2>2 DEF Signalled
  <2>10. Sent'
    <3>1. \A i \in 1..w : i \in 1..Len(wire) \/ i = w
      BY <1>7 DEF w
    <3>2. \A i \in 1..Len(wire) : wire[i] = accepted[i]
      BY DEF TxInv, Sent
    <3>3. \A i \in 1..w : wire'[i] = accepted[i]
      BY <3>1, <3>2, <2>3, <2>4
    <3>4. w <= Len(accepted)
      BY <2>5
    <3> QED BY <3>3, <3>4, <2>3, <1>a DEF Sent
  <2>11. TxTypeOK'
    BY <2>2, <2>3, <1>a, <1>1, <1>2 DEF TxInv, TxTypeOK
  <2> QED BY <2>8, <2>9, <2>10, <2>11, <1>3, <1>4, <1>5 DEF TxInv
<1> QED BY <1>11, <1>12

LEMMA MaxOfInterval ==
    ASSUME NEW k \in Nat
    PROVE  Max(0..k) = k
<1>1. k \in 0..k /\ \A y \in 0..k : k >= y
  OBVIOUS
<1>2. \A x \in 0..k : (\A y \in 0..k : x >= y) => x = k
  OBVIOUS
<1> QED BY <1>1, <1>2 DEF Max

\* packet_tx reclaims up to where the MAC is.
LEMMA TxReclaimKeeps ==
    ASSUME TxInv, TxReclaim
    PROVE  TxInv'
<1> DEFINE at(j) == (tx_consume_index + j) % TxRing
           span  == (tx_produce_index + TxRing - tx_consume_index) % TxRing
           K     == {k \in 0..span : \A j \in 0..(k - 1) : ~txd[at(j)].ready}
           n     == Max(K)
           done  == {at(j) : j \in 0..(n - 1)}
<1>a. /\ txd \in [TxSlots -> TxDescriptor] /\ tx_produce_index \in TxSlots /\ mac \in TxSlots /\ tx_consume_index \in TxSlots
      /\ tx \in Sender /\ TxTypeOK
      /\ UNCHANGED <<tx_produce_index, mac, job, packets, accepted, wire>>
  BY DEF TxInv, TxTypeOK, TxReclaim
<1>b. /\ \A i \in TxSlots : FromOldest(i) \in 0..(TxRing - 1)
      /\ \A i, j \in TxSlots : FromOldest(i) = FromOldest(j) => i = j
      /\ FromOldest(tx_consume_index) = 0
  BY <1>a, TxPlaces
<1>c. /\ FromOldest(mac) <= FromOldest(tx_produce_index)
      /\ \A i \in TxSlots : txd[i].ready <=> FromOldest(mac) <= FromOldest(i) /\ FromOldest(i) < FromOldest(tx_produce_index)
  BY DEF TxInv, ReadyAhead
<1>d. /\ tx.clean > 0
      /\ tx' = [tx EXCEPT !.clean = tx.clean - 1, !.count = tx.count + n]
      /\ live' = live \ {Owned(txd[i]) : i \in done}
      /\ txd' = [i \in TxSlots |->
               IF i \notin done THEN txd[i]
               ELSE [txd[i] EXCEPT !.aligned = 0, !.txb = IF txd[i].aligned # 0 THEN txd[i].txb ELSE 0]]
      /\ tx_consume_index' = at(n)
  BY DEF TxReclaim, Owned
<1>1. \A j \in 0..(TxRing - 1) : at(j) \in TxSlots /\ FromOldest(at(j)) = j
  <2>1. TAKE j \in 0..(TxRing - 1)
  <2>2. Dist(TxRing, tx_consume_index, tx_consume_index) + j <= TxRing - 1
    BY <1>b, TxRingOK DEF FromOldest
  <2>3. at(j) \in TxSlots /\ Dist(TxRing, tx_consume_index, at(j)) = Dist(TxRing, tx_consume_index, tx_consume_index) + j
    BY <2>2, <1>a, TxRingOK, RingSteps
  <2> QED BY <2>3, <1>b, TxRingOK DEF FromOldest
<1>2. span = FromOldest(tx_produce_index)
  BY <1>a, TxRingOK, RingFrom DEF FromOldest
<1> HIDE DEF at, span
<1>3. K = 0..FromOldest(mac)
  <2>1. ASSUME NEW k \in K PROVE k \in 0..FromOldest(mac)
    <3>1. k \in 0..FromOldest(tx_produce_index) /\ \A j \in 0..(k - 1) : ~txd[at(j)].ready
      BY <1>2
    <3>2. SUFFICES ASSUME k > FromOldest(mac) PROVE FALSE
      BY <3>1, <1>a, <1>b
    <3>3. FromOldest(mac) \in 0..(k - 1) /\ FromOldest(mac) \in 0..(TxRing - 1) /\ FromOldest(mac) < FromOldest(tx_produce_index)
      BY <3>1, <3>2, <1>a, <1>b
    <3>4. txd[at(FromOldest(mac))].ready
      BY <3>3, <1>1, <1>c, <1>a, <1>b
    <3> QED BY <3>1, <3>3, <3>4
  <2>2. ASSUME NEW k \in 0..FromOldest(mac) PROVE k \in K
    <3>1. k \in 0..span
      BY <1>2, <1>a, <1>b, <1>c
    <3>2. \A j \in 0..(k - 1) : j \in 0..(TxRing - 1) /\ j < FromOldest(mac)
      BY <1>a, <1>b, TxRingOK
    <3>3. \A j \in 0..(k - 1) : ~txd[at(j)].ready
      <4>1. TAKE j \in 0..(k - 1)
      <4>2. at(j) \in TxSlots /\ FromOldest(at(j)) = j /\ j < FromOldest(mac) /\ j \in Int
        BY <3>2, <1>1
      <4> QED BY <4>2, <1>a, <1>b, <1>c
    <3> QED BY <3>1, <3>3
  <2> QED BY <2>1, <2>2
<1> HIDE DEF K
<1>4. n = FromOldest(mac) /\ n \in 0..(TxRing - 1)
  <2>1. FromOldest(mac) \in Nat
    BY <1>a, <1>b
  <2>2. Max(0..FromOldest(mac)) = FromOldest(mac)
    BY <2>1, MaxOfInterval
  <2> QED BY <2>2, <1>3, <1>a, <1>b
<1> HIDE DEF n
<1>5. at(n) = mac
  BY <1>1, <1>4, <1>b, <1>a
<1>6. \A i \in TxSlots : i \in done <=> FromOldest(i) < FromOldest(mac)
  <2>1. ASSUME NEW i \in TxSlots, i \in done PROVE FromOldest(i) < FromOldest(mac)
    <3>1. PICK j \in 0..(n - 1) : i = at(j)
      BY <2>1
    <3>2. j \in 0..(TxRing - 1) /\ j < n
      BY <3>1, <1>4, TxRingOK
    <3> QED BY <3>1, <3>2, <1>1, <1>4
  <2>2. ASSUME NEW i \in TxSlots, FromOldest(i) < FromOldest(mac) PROVE i \in done
    <3>1. FromOldest(i) \in 0..(n - 1) /\ FromOldest(i) \in 0..(TxRing - 1)
      BY <2>2, <1>4, <1>b, <1>a
    <3>2. at(FromOldest(i)) = i
      BY <3>1, <1>1, <1>b
    <3> QED BY <3>1, <3>2
  <2> QED BY <2>1, <2>2
<1>7. done \subseteq TxSlots
  <2>1. \A j \in 0..(n - 1) : j \in 0..(TxRing - 1)
    BY <1>4, TxRingOK
  <2> QED BY <2>1, <1>1
<1> HIDE DEF done
<1>8. \A i \in TxSlots : txd[i] \in TxDescriptor /\ (txd[i].aligned = 0 \/ txd[i].txb = 0) /\ Owned(txd[i]) \in Nat
  BY <1>a, TxFields DEF TxInv, Owners
<1>9. /\ txd' \in [TxSlots -> TxDescriptor]
      /\ \A i \in TxSlots : /\ txd'[i].ready = txd[i].ready /\ txd'[i].last = txd[i].last /\ txd'[i].pkt = txd[i].pkt
                            /\ i \notin done => txd'[i] = txd[i]
                            /\ i \in done => txd'[i].txb = 0 /\ txd'[i].aligned = 0 /\ Owned(txd'[i]) = 0
  <2> DEFINE cleared(d) == [d EXCEPT !.aligned = 0, !.txb = 0]
  <2>1. \A d \in TxDescriptor :
            /\ cleared(d) \in TxDescriptor
            /\ cleared(d).ready = d.ready /\ cleared(d).last = d.last /\ cleared(d).pkt = d.pkt
            /\ cleared(d).txb = 0 /\ cleared(d).aligned = 0
    BY DEF TxDescriptor
  <2> DEFINE rest(i) == IF txd[i].aligned # 0 THEN txd[i].txb ELSE 0
  <2>2. \A i \in TxSlots : rest(i) = 0
    BY <1>8
  <2>3. \A i \in TxSlots : txd'[i] = IF i \notin done THEN txd[i] ELSE [txd[i] EXCEPT !.aligned = 0, !.txb = rest(i)]
    BY <1>d
  <2>4. \A i \in TxSlots : txd'[i] = IF i \notin done THEN txd[i] ELSE cleared(txd[i])
    BY <2>2, <2>3
  <2> HIDE DEF rest, cleared
  <2>5. \A i \in TxSlots : txd'[i] \in TxDescriptor
    BY <2>4, <2>1, <1>8
  <2>6. txd' \in [TxSlots -> TxDescriptor]
    <3>1. txd' = [i \in TxSlots |-> txd'[i]]
      BY <1>d
    <3> QED BY <3>1, <2>5
  <2>7. \A i \in TxSlots : i \in done => txd'[i].txb = 0 /\ txd'[i].aligned = 0 /\ Owned(txd'[i]) = 0
    BY <2>4, <2>1, <1>8 DEF Owned
  <2>8. \A i \in TxSlots : /\ txd'[i].ready = txd[i].ready /\ txd'[i].last = txd[i].last /\ txd'[i].pkt = txd[i].pkt
                           /\ i \notin done => txd'[i] = txd[i]
    BY <2>4, <2>1, <1>8
  <2> QED BY <2>6, <2>7, <2>8
<1>10. tx' \in Sender /\ tx_consume_index' = mac
  <2>1. tx.clean - 1 \in Nat /\ tx.count + n \in Nat
    <3>1. tx.clean \in Nat /\ tx.count \in Nat
      BY <1>a DEF Sender
    <3>2. tx.clean > 0
      BY <1>d
    <3>3. n \in Nat
      BY <1>4, TxRingOK
    <3> QED BY <3>1, <3>2, <3>3
  <2> QED BY <2>1, <1>a, <1>d, <1>5 DEF Sender
<1>11. TxTypeOK'
  BY <1>a, <1>9, <1>10 DEF TxTypeOK
<1>12. \A i \in TxSlots : FromOldest(i)' = IF FromOldest(i) >= FromOldest(mac) THEN FromOldest(i) - FromOldest(mac)
                                           ELSE FromOldest(i) - FromOldest(mac) + TxRing
  BY <1>a, <1>10, TxRingOK, RingFrom DEF FromOldest
<1>13. FromOldest(mac)' = FromOldest(mac) - FromOldest(mac)
       /\ FromOldest(tx_produce_index)' = FromOldest(tx_produce_index) - FromOldest(mac)
  BY <1>12, <1>a, <1>b, <1>c DEF FromOldest
<1>14. ReadyAhead'
  <2>1. \A i \in TxSlots : txd'[i].ready <=> FromOldest(mac)' <= FromOldest(i)' /\ FromOldest(i)' < FromOldest(tx_produce_index)'
    <3>1. TAKE i \in TxSlots
    <3>2. /\ FromOldest(i) \in 0..(TxRing - 1) /\ FromOldest(mac) \in 0..(TxRing - 1)
          /\ FromOldest(tx_produce_index) \in 0..(TxRing - 1)
      BY <1>a, <1>b
    <3>3. txd'[i].ready <=> txd[i].ready
      BY <1>9
    <3> QED BY <3>2, <3>3, <1>c, <1>12, <1>13, TxRingOK
  <2>2. FromOldest(mac)' <= FromOldest(tx_produce_index)'
    BY <1>13, <1>a, <1>b, <1>c
  <2> QED BY <2>1, <2>2, <1>a DEF ReadyAhead
<1>15. JobOK' /\ Sent'
  BY <1>a DEF TxInv, JobOK, Sent
<1>16. PacketsInRing'
  <2>1. \A i, j \in TxSlots : txd[i].ready /\ txd[j].ready => (FromOldest(i)' <= FromOldest(j)' <=> FromOldest(i) <= FromOldest(j))
                                                           /\ (FromOldest(i)' < FromOldest(j)' <=> FromOldest(i) < FromOldest(j))
    BY <1>a, <1>b, <1>c, <1>12
  <2>2. \A i \in TxSlots : txd'[i].ready => \E m \in Waiting : txd'[i].pkt = accepted[m]
    BY <1>9 DEF TxInv, PacketsInRing
  <2>3. \A m \in Waiting : \E i \in TxSlots : txd'[i].ready /\ txd'[i].pkt = accepted[m]
    BY <1>9 DEF TxInv, PacketsInRing
  <2>4. \A i, j \in TxSlots : txd'[i].ready /\ txd'[j].ready /\ FromOldest(i)' < FromOldest(j)' =>
            txd'[i].pkt <= txd'[j].pkt /\ (txd'[i].last => txd'[i].pkt < txd'[j].pkt)
    BY <2>1, <1>9 DEF TxInv, PacketsInRing
  <2>5. ASSUME NEW i \in TxSlots, txd'[i].ready
        PROVE  \E l \in TxSlots : txd'[l].ready /\ txd'[l].last /\ FromOldest(i)' <= FromOldest(l)' /\ txd'[l].pkt = txd'[i].pkt
    <3>1. PICK l \in TxSlots : txd[l].ready /\ txd[l].last /\ FromOldest(i) <= FromOldest(l) /\ txd[l].pkt = txd[i].pkt
      BY <2>5, <1>9 DEF TxInv, PacketsInRing
    <3> QED BY <3>1, <2>1, <2>5, <1>9
  <2>6. Waiting' = Waiting
    BY <1>a DEF Waiting
  <2> QED BY <2>2, <2>3, <2>4, <2>5, <2>6, <1>a DEF PacketsInRing
<1>17. \A i \in done : i \in TxSlots /\ FromOldest(i) < FromOldest(tx_produce_index) /\ i # tx_produce_index /\ ~txd[i].ready
  BY <1>6, <1>7, <1>a, <1>b, <1>c
<1>18. Owners'
  <2>1. \A i \in TxSlots : txd'[i].ready /\ txd'[i].last => Owned(txd'[i]) = txd'[i].pkt
    BY <1>9, <1>17 DEF TxInv, Owners
  <2>2. \A i \in TxSlots : txd'[i].aligned = 0 \/ txd'[i].txb = 0
    BY <1>9, <1>8
  <2>3. ASSUME NEW i \in TxSlots, FromOldest(i)' >= FromOldest(tx_produce_index)'
        PROVE  txd'[i].txb = 0 /\ txd'[i].aligned = IF job.copy /\ i = tx_produce_index THEN job.pkt ELSE 0
    <3>1. CASE i \in done
      BY <3>1, <1>9, <1>17
    <3>2. CASE i \notin done
      <4>1. FromOldest(i) >= FromOldest(tx_produce_index)
        BY <3>2, <2>3, <1>6, <1>12, <1>13, <1>a, <1>b
      <4> QED BY <4>1, <3>2, <1>9 DEF TxInv, Owners
    <3> QED BY <3>1, <3>2
  <2>4. \A i, j \in TxSlots : i # j /\ Owned(txd'[i]) # 0 => Owned(txd'[i]) # Owned(txd'[j])
    BY <1>9 DEF TxInv, Owners
  <2>5. \A i \in TxSlots : Owned(txd'[i]) <= packets /\ (job.pkt # 0 /\ Owned(txd'[i]) = job.pkt => i = tx_produce_index /\ job.copy)
    <3>1. packets >= 0 /\ packets \in Nat
      BY <1>a DEF TxTypeOK
    <3> QED BY <3>1, <1>9 DEF TxInv, Owners
  <2>6. live' = (OwnedInRing' \cup {job.pkt}) \ {0}
    <3>1. live = (OwnedInRing \cup {job.pkt}) \ {0}
      BY DEF TxInv, Owners
    <3>2. live' = live \ {Owned(txd[i]) : i \in done}
      BY <1>d
    <3>3. job.pkt # 0 => job.pkt \notin {Owned(txd[i]) : i \in done}
      BY <1>17 DEF TxInv, Owners
    <3>4. \A x \in OwnedInRing' : x = 0 \/ (x \in OwnedInRing /\ x \notin {Owned(txd[i]) : i \in done})
      <4>1. TAKE x \in OwnedInRing'
      <4>2. PICK i \in TxSlots : x = Owned(txd'[i])
        BY DEF OwnedInRing
      <4>3. CASE i \in done
        BY <4>2, <4>3, <1>9
      <4>4. CASE i \notin done
        <5>1. x = Owned(txd[i])
          BY <4>2, <4>4, <1>9
        <5>2. x # 0 => \A j \in done : Owned(txd[j]) # x
          BY <5>1, <4>4, <1>7 DEF TxInv, Owners
        <5> QED BY <5>1, <5>2 DEF OwnedInRing
      <4> QED BY <4>3, <4>4
    <3>5. \A x \in OwnedInRing : x \in {Owned(txd[i]) : i \in done} \/ x \in OwnedInRing'
      <4>1. TAKE x \in OwnedInRing
      <4>2. PICK i \in TxSlots : x = Owned(txd[i])
        BY DEF OwnedInRing
      <4>3. CASE i \in done
        BY <4>2, <4>3
      <4>4. CASE i \notin done
        BY <4>2, <4>4, <1>9 DEF OwnedInRing
      <4> QED BY <4>3, <4>4
    <3> QED BY <3>1, <3>2, <3>3, <3>4, <3>5
  <2> QED BY <2>1, <2>2, <2>3, <2>4, <2>5, <2>6, <1>a DEF Owners
<1>19. Signalled'
  <2>1. CASE FromOldest(mac) < FromOldest(tx_produce_index)
    BY <2>1, <1>a, <1>b, <1>c, <1>9 DEF Signalled
  <2>2. CASE FromOldest(mac) = FromOldest(tx_produce_index)
    BY <2>2, <1>a, <1>b, <1>10 DEF Signalled
  <2> QED BY <2>1, <2>2, <1>a, <1>b, <1>c
<1> QED BY <1>11, <1>14, <1>15, <1>16, <1>18, <1>19 DEF TxInv

\* low_level_output writes the descriptors, while there are enough to keep one free.
LEMMA OutputWritesKeeps ==
    ASSUME TxInv, OutputWrites, ~brimmed, ~brimmed'
    PROVE  TxInv'
<1> DEFINE at(j) == (tx_produce_index + j) % TxRing
           written == {at(j) : j \in 0..(job.dn - 1)}
           end == at(job.dn - 1)
<1>a. /\ txd \in [TxSlots -> TxDescriptor] /\ tx_produce_index \in TxSlots /\ mac \in TxSlots /\ tx_consume_index \in TxSlots
      /\ tx \in Sender /\ TxTypeOK /\ accepted \in Seq(Nat) /\ job.pkt # 0
      /\ UNCHANGED <<tx_consume_index, mac, tx, live, packets, wire>>
      /\ tx_produce_index' = (tx_produce_index + job.dn) % TxRing
      /\ accepted' = Append(accepted, job.pkt)
      /\ job' = [pkt |-> 0, copy |-> FALSE, dn |-> 0]
  BY DEF TxInv, TxTypeOK, OutputWrites
<1>b. /\ \A i \in TxSlots : FromOldest(i) \in 0..(TxRing - 1) /\ FromOldest(i)' = Dist(TxRing, tx_consume_index, i)
      /\ \A i \in TxSlots : FromOldest(i)' = FromOldest(i)
      /\ \A i, j \in TxSlots : FromOldest(i) = FromOldest(j) => i = j
  BY <1>a, TxPlaces DEF FromOldest
<1>c. /\ FromOldest(mac) <= FromOldest(tx_produce_index)
      /\ \A i \in TxSlots : txd[i].ready <=> FromOldest(mac) <= FromOldest(i) /\ FromOldest(i) < FromOldest(tx_produce_index)
  BY DEF TxInv, ReadyAhead
<1>d. txd' = [i \in TxSlots |->
               IF i \notin written THEN txd[i]
               ELSE [ready |-> TRUE, last |-> i = end, pkt |-> job.pkt,
                     txb |-> IF ~job.copy /\ i = end THEN job.pkt ELSE 0, aligned |-> txd[i].aligned]]
  BY DEF OutputWrites
<1>e. job.pkt \in Nat /\ job.copy \in BOOLEAN /\ job.dn \in 1..2 /\ (job.copy => job.dn = 1) /\ job.pkt <= packets /\ packets \in Nat
  BY <1>a, TxFields DEF TxInv, JobOK, TxTypeOK
<1>g. FromOldest(tx_produce_index) \in Nat /\ FromOldest(mac) \in Nat /\ TxRing \in Nat /\ job.dn \in 1..2
      /\ \A i \in TxSlots : FromOldest(i) \in Nat
  <2>1. \A i \in TxSlots : FromOldest(i) \in 0..(TxRing - 1)
    BY <1>b
  <2>2. \A i \in TxSlots : FromOldest(i) \in Nat
    BY <2>1, TxRingOK
  <2> QED BY <2>2, <1>a, <1>e, TxRingOK
<1>f. FromOldest(tx_produce_index) + job.dn <= TxRing - 1
  <2>1. ~(Used + job.dn > TxRing - 1)
    BY DEF OutputWrites
  <2>2. Used = FromOldest(tx_produce_index)
    BY <1>a, TxRingOK, RingFrom DEF Used, FromOldest
  <2> QED BY <2>1, <2>2, <1>g
<1>1. \A j \in 0..job.dn : at(j) \in TxSlots /\ FromOldest(at(j)) = FromOldest(tx_produce_index) + j
  <2>1. TAKE j \in 0..job.dn
  <2>2. j \in 0..(TxRing - 1) /\ Dist(TxRing, tx_consume_index, tx_produce_index) + j <= TxRing - 1
    <3>1. j \in 0..(TxRing - 1) /\ FromOldest(tx_produce_index) + j <= TxRing - 1
      BY <1>f, <1>g
    <3> QED BY <3>1 DEF FromOldest
  <2>3. at(j) \in TxSlots /\ Dist(TxRing, tx_consume_index, at(j)) = Dist(TxRing, tx_consume_index, tx_produce_index) + j
    BY <2>2, <1>a, TxRingOK, RingSteps
  <2> QED BY <2>3 DEF FromOldest
<1>2. end \in TxSlots /\ FromOldest(end) = FromOldest(tx_produce_index) + job.dn - 1
  <2>1. job.dn - 1 \in 0..job.dn
    BY <1>e
  <2> QED BY <2>1, <1>1, <1>a, <1>b, <1>e
<1>3. tx_produce_index' \in TxSlots /\ FromOldest(tx_produce_index)' = FromOldest(tx_produce_index) + job.dn
  <2>1. job.dn \in 0..job.dn
    BY <1>e
  <2>2. at(job.dn) \in TxSlots /\ FromOldest(at(job.dn)) = FromOldest(tx_produce_index) + job.dn
    BY <2>1, <1>1
  <2> QED BY <2>2, <1>a DEF FromOldest
<1>4. \A i \in TxSlots : i \in written <=>
          FromOldest(i) >= FromOldest(tx_produce_index) /\ FromOldest(i) < FromOldest(tx_produce_index) + job.dn
  <2>1. ASSUME NEW i \in TxSlots, i \in written
        PROVE  FromOldest(i) >= FromOldest(tx_produce_index) /\ FromOldest(i) < FromOldest(tx_produce_index) + job.dn
    <3>1. PICK j \in 0..(job.dn - 1) : i = at(j)
      BY <2>1
    <3>2. j \in 0..job.dn
      BY <1>e
    <3>3. FromOldest(i) = FromOldest(tx_produce_index) + j
      BY <3>1, <3>2, <1>1
    <3> QED BY <3>1, <3>3, <1>g
  <2>2. ASSUME NEW i \in TxSlots, FromOldest(i) >= FromOldest(tx_produce_index), FromOldest(i) < FromOldest(tx_produce_index) + job.dn
        PROVE  i \in written
    <3> DEFINE j == FromOldest(i) - FromOldest(tx_produce_index)
    <3>1. j \in 0..(job.dn - 1) /\ j \in 0..job.dn
      BY <2>2, <1>g
    <3>2. at(j) = i
      <4>1. at(j) \in TxSlots /\ FromOldest(at(j)) = FromOldest(tx_produce_index) + j
        BY <3>1, <1>1
      <4>2. FromOldest(at(j)) = FromOldest(i)
        BY <4>1, <1>a, <1>b
      <4> QED BY <4>1, <4>2, <1>b
    <3> HIDE DEF j
    <3> QED BY <3>1, <3>2
  <2> QED BY <2>1, <2>2
<1> HIDE DEF written, at, end
<1>5. /\ end \in written
      /\ \A i \in TxSlots : i \in written => ~txd[i].ready /\ txd[i].txb = 0
                                             /\ txd[i].aligned = IF job.copy /\ i = tx_produce_index THEN job.pkt ELSE 0
      /\ job.copy => end = tx_produce_index
      /\ tx_produce_index \in written
  <2>1. end \in written
    BY <1>2, <1>4, <1>g
  <2>5. tx_produce_index \in TxSlots /\ FromOldest(tx_produce_index) < FromOldest(tx_produce_index) + job.dn
    BY <1>a, <1>g
  <2>6. tx_produce_index \in written
    BY <1>4, <2>5, <1>g
  <2>2. \A i \in TxSlots : i \in written => ~txd[i].ready
    BY <1>4, <1>c, <1>a, <1>b
  <2>3. \A i \in TxSlots : i \in written => txd[i].txb = 0 /\ txd[i].aligned = IF job.copy /\ i = tx_produce_index THEN job.pkt ELSE 0
    BY <1>4 DEF TxInv, Owners
  <2>4. job.copy => end = tx_produce_index
    BY <1>2, <1>a, <1>b, <1>e
  <2> QED BY <2>1, <2>2, <2>3, <2>4, <2>6
<1>6. /\ txd' \in [TxSlots -> TxDescriptor]
      /\ \A i \in TxSlots : i \notin written => txd'[i] = txd[i]
      /\ \A i \in TxSlots : i \in written =>
            /\ txd'[i].ready /\ (txd'[i].last <=> i = end) /\ txd'[i].pkt = job.pkt
            /\ txd'[i].txb = (IF ~job.copy /\ i = end THEN job.pkt ELSE 0) /\ txd'[i].aligned = txd[i].aligned
  <2> DEFINE new(i) == [ready |-> TRUE, last |-> i = end, pkt |-> job.pkt,
                        txb |-> IF ~job.copy /\ i = end THEN job.pkt ELSE 0, aligned |-> txd[i].aligned]
  <2>1. \A i \in TxSlots : txd[i] \in TxDescriptor /\ txd[i].aligned \in Nat
    BY <1>a, TxFields
  <2>2. \A i \in TxSlots : new(i) \in TxDescriptor
    BY <2>1, <1>e DEF TxDescriptor
  <2>3. \A i \in TxSlots : txd'[i] = IF i \notin written THEN txd[i] ELSE new(i)
    BY <1>d
  <2>4. \A i \in TxSlots : txd'[i] \in TxDescriptor
    BY <2>1, <2>2, <2>3
  <2>5. txd' \in [TxSlots -> TxDescriptor]
    <3>1. txd' = [i \in TxSlots |-> txd'[i]]
      BY <1>d
    <3> QED BY <3>1, <2>4
  <2>6. \A i \in TxSlots : /\ new(i).ready /\ (new(i).last <=> i = end) /\ new(i).pkt = job.pkt
                           /\ new(i).txb = (IF ~job.copy /\ i = end THEN job.pkt ELSE 0) /\ new(i).aligned = txd[i].aligned
    OBVIOUS
  <2> HIDE DEF new
  <2> QED BY <2>3, <2>5, <2>6
<1>7. \A i \in TxSlots : i \in written => Owned(txd'[i]) = IF i = end THEN job.pkt ELSE 0
  <2>1. ASSUME NEW i \in TxSlots, i \in written, job.copy PROVE Owned(txd'[i]) = IF i = end THEN job.pkt ELSE 0
    BY <2>1, <1>5, <1>6, <1>a DEF Owned
  <2>2. ASSUME NEW i \in TxSlots, i \in written, ~job.copy PROVE Owned(txd'[i]) = IF i = end THEN job.pkt ELSE 0
    BY <2>2, <1>5, <1>6, <1>a DEF Owned
  <2> QED BY <2>1, <2>2, <1>e
<1>8. job' \in Job /\ job'.pkt = 0 /\ ~job'.copy /\ job'.dn = 0
  BY <1>a DEF Job
<1>9. /\ accepted' \in Seq(Nat) /\ Len(accepted') = Len(accepted) + 1 /\ accepted'[Len(accepted) + 1] = job.pkt
      /\ \A n \in 1..Len(accepted) : accepted'[n] = accepted[n] /\ accepted[n] \in Nat
                                     /\ accepted[n] > 0 /\ accepted[n] <= packets /\ accepted[n] < job.pkt
      /\ Len(accepted) \in Nat /\ Len(wire) \in Nat /\ Len(wire) <= Len(accepted)
      /\ \A n \in 1..(Len(accepted) + 1) : n \in 1..Len(accepted) \/ n = Len(accepted) + 1
  <2>1. /\ accepted' \in Seq(Nat) /\ Len(accepted') = Len(accepted) + 1 /\ accepted'[Len(accepted) + 1] = job.pkt
        /\ \A n \in 1..Len(accepted) : accepted'[n] = accepted[n]
        /\ Len(accepted) \in Nat
    BY <1>a, <1>e
  <2>2. \A n \in 1..Len(accepted) : accepted[n] \in Nat /\ accepted[n] > 0 /\ accepted[n] <= packets /\ accepted[n] < job.pkt
    BY <1>a, TxFields DEF TxInv, JobOK
  <2>3. Len(wire) \in Nat /\ Len(wire) <= Len(accepted)
    BY <1>a, TxFields DEF TxInv, Sent
  <2> QED BY <2>1, <2>2, <2>3
<1>10. TxTypeOK'
  BY <1>a, <1>3, <1>6, <1>8, <1>9 DEF TxTypeOK
<1>11. JobOK'
  <2>1. \A n \in 1..Len(accepted') : accepted'[n] > 0 /\ accepted'[n] <= packets
    BY <1>9, <1>a, <1>e
  <2>2. ASSUME NEW n \in 1..Len(accepted'), NEW k \in 1..Len(accepted'), n < k
        PROVE  accepted'[n] < accepted'[k]
    <3>1. n \in 1..Len(accepted)
      BY <2>2, <1>9
    <3>2. CASE k = Len(accepted) + 1
      BY <3>1, <3>2, <1>9
    <3>3. CASE k \in 1..Len(accepted)
      BY <3>1, <3>3, <2>2, <1>9 DEF TxInv, JobOK
    <3> QED BY <3>2, <3>3, <1>9
  <2>3. \A n, k \in 1..Len(accepted') : n < k => accepted'[n] < accepted'[k]
    BY <2>2
  <2>4. packets' = packets /\ job'.pkt = 0 /\ ~job'.copy /\ job'.dn = 0 /\ 0 <= packets
    BY <1>8, <1>a, <1>e
  <2> QED BY <2>1, <2>3, <2>4 DEF JobOK
<1>12. Sent'
  <2>1. \A i \in 1..Len(wire) : wire[i] = accepted[i] /\ i \in 1..Len(accepted)
    BY <1>9 DEF TxInv, Sent
  <2>2. Len(wire) <= Len(accepted')
    BY <1>9
  <2> QED BY <2>1, <2>2, <1>9, <1>a DEF Sent
<1>13. \A i \in TxSlots : txd'[i].ready <=> (txd[i].ready \/ i \in written)
  BY <1>6
<1>14. ReadyAhead'
  <2>1. ASSUME NEW i \in TxSlots
        PROVE  txd'[i].ready <=> FromOldest(mac) <= FromOldest(i) /\ FromOldest(i) < FromOldest(tx_produce_index) + job.dn
    <3>1. FromOldest(i) \in Int /\ FromOldest(mac) \in Int /\ FromOldest(tx_produce_index) \in Int /\ job.dn \in 1..2
      BY <1>a, <1>b, <1>e
    <3> QED BY <3>1, <1>c, <1>4, <1>13
  <2>2. FromOldest(mac) <= FromOldest(tx_produce_index) + job.dn
    BY <1>a, <1>b, <1>c, <1>e
  <2>3. FromOldest(mac)' = FromOldest(mac)
    BY <1>a DEF FromOldest
  <2> QED BY <2>1, <2>2, <2>3, <1>3, <1>b DEF ReadyAhead
<1>15. /\ \A n \in Waiting : n \in Waiting' /\ n \in 1..Len(accepted) /\ accepted'[n] = accepted[n]
       /\ \A n \in Waiting' : n \in Waiting \/ n = Len(accepted) + 1
       /\ Len(accepted) + 1 \in Waiting'
  <2>1. Waiting = (Len(wire) + 1)..Len(accepted) /\ Waiting' = (Len(wire) + 1)..(Len(accepted) + 1)
    BY <1>9, <1>a DEF Waiting
  <2> QED BY <2>1, <1>9
<1>16. \A i \in TxSlots : txd[i].ready => i \notin written /\ txd'[i] = txd[i] /\ txd[i].pkt < job.pkt /\ txd[i].pkt \in Nat
  <2>1. TAKE i \in TxSlots
  <2>2. HAVE txd[i].ready
  <2>3. i \notin written /\ txd'[i] = txd[i]
    BY <2>2, <1>5, <1>6
  <2>4. PICK n \in Waiting : txd[i].pkt = accepted[n]
    BY <2>2 DEF TxInv, PacketsInRing
  <2> QED BY <2>3, <2>4, <1>9, <1>15
<1>17. \A i, j \in TxSlots : i \in written /\ txd[j].ready => FromOldest(j) < FromOldest(i)
  BY <1>a, <1>b, <1>c, <1>4
<1>18. PacketsInRing'
  <2>1. ASSUME NEW i \in TxSlots, txd'[i].ready PROVE \E n \in Waiting' : txd'[i].pkt = accepted'[n]
    <3>1. CASE i \in written
      BY <3>1, <1>6, <1>9, <1>15
    <3>2. CASE i \notin written
      <4>1. PICK n \in Waiting : txd[i].pkt = accepted[n]
        BY <2>1, <3>2, <1>13 DEF TxInv, PacketsInRing
      <4> QED BY <4>1, <3>2, <1>6, <1>15
    <3> QED BY <3>1, <3>2
  <2>2. ASSUME NEW n \in Waiting' PROVE \E i \in TxSlots : txd'[i].ready /\ txd'[i].pkt = accepted'[n]
    <3>1. CASE n = Len(accepted) + 1
      BY <3>1, <1>2, <1>5, <1>6, <1>9
    <3>2. CASE n \in Waiting
      <4>1. PICK i \in TxSlots : txd[i].ready /\ txd[i].pkt = accepted[n]
        BY <3>2 DEF TxInv, PacketsInRing
      <4> QED BY <4>1, <3>2, <1>15, <1>16
    <3> QED BY <3>1, <3>2, <1>15
  <2>3. ASSUME NEW i \in TxSlots, NEW j \in TxSlots, txd'[i].ready, txd'[j].ready, FromOldest(i) < FromOldest(j)
        PROVE  txd'[i].pkt <= txd'[j].pkt /\ (txd'[i].last => txd'[i].pkt < txd'[j].pkt)
    <3>1. CASE i \in written
      <4>1. j \in written
        <5>1. ~(FromOldest(j) < FromOldest(i))
          BY <2>3, <1>b
        <5> QED BY <5>1, <3>1, <2>3, <1>13, <1>17
      <4>2. FromOldest(j) <= FromOldest(end) /\ i # end
        <5>1. FromOldest(j) <= FromOldest(end)
          BY <4>1, <1>2, <1>4, <1>g
        <5> QED BY <5>1, <2>3, <1>2, <1>b
      <4>3. ~txd'[i].last /\ txd'[i].pkt = job.pkt /\ txd'[j].pkt = job.pkt
        BY <3>1, <4>1, <4>2, <1>6
      <4> QED BY <4>3, <1>e
    <3>2. CASE i \notin written /\ j \in written
      BY <3>2, <2>3, <1>6, <1>13, <1>16, <1>e
    <3>3. CASE i \notin written /\ j \notin written
      BY <3>3, <2>3, <1>6, <1>13 DEF TxInv, PacketsInRing
    <3> QED BY <3>1, <3>2, <3>3
  <2>4. ASSUME NEW i \in TxSlots, txd'[i].ready
        PROVE  \E l \in TxSlots : txd'[l].ready /\ txd'[l].last /\ FromOldest(i) <= FromOldest(l) /\ txd'[l].pkt = txd'[i].pkt
    <3>1. CASE i \in written
      <4>1. FromOldest(i) <= FromOldest(end)
        BY <3>1, <1>2, <1>4, <1>a, <1>b, <1>e
      <4> QED BY <4>1, <3>1, <1>2, <1>5, <1>6
    <3>2. CASE i \notin written
      <4>1. PICK l \in TxSlots : txd[l].ready /\ txd[l].last /\ FromOldest(i) <= FromOldest(l) /\ txd[l].pkt = txd[i].pkt
        BY <2>4, <3>2, <1>13 DEF TxInv, PacketsInRing
      <4> QED BY <4>1, <3>2, <1>6, <1>16
    <3> QED BY <3>1, <3>2
  <2> QED BY <2>1, <2>2, <2>3, <2>4, <1>b DEF PacketsInRing
<1>19. Owners'
  <2>1. ASSUME NEW i \in TxSlots, txd'[i].ready, txd'[i].last PROVE Owned(txd'[i]) = txd'[i].pkt
    <3>1. CASE i \in written
      BY <3>1, <2>1, <1>6, <1>7
    <3>2. CASE i \notin written
      BY <3>2, <2>1, <1>6, <1>13 DEF TxInv, Owners
    <3> QED BY <3>1, <3>2
  <2>2. ASSUME NEW i \in TxSlots PROVE txd'[i].aligned = 0 \/ txd'[i].txb = 0
    <3>1. CASE i \in written
      BY <3>1, <1>5, <1>6
    <3>2. CASE i \notin written
      BY <3>2, <1>6 DEF TxInv, Owners
    <3> QED BY <3>1, <3>2
  <2>3. ASSUME NEW i \in TxSlots, FromOldest(i) >= FromOldest(tx_produce_index) + job.dn
        PROVE  txd'[i].txb = 0 /\ txd'[i].aligned = 0
    <3>1. i \notin written /\ FromOldest(i) >= FromOldest(tx_produce_index) /\ i # tx_produce_index
      BY <2>3, <1>4, <1>a, <1>b, <1>e
    <3> QED BY <3>1, <1>6 DEF TxInv, Owners
  <2>4. ASSUME NEW i \in TxSlots, NEW j \in TxSlots, i # j, Owned(txd'[i]) # 0 PROVE Owned(txd'[i]) # Owned(txd'[j])
    <3>1. \A k \in TxSlots : k \notin written => Owned(txd[k]) # job.pkt
      BY <1>5, <1>a DEF TxInv, Owners
    <3>2. CASE i \in written /\ j \in written
      BY <3>2, <2>4, <1>7, <1>a
    <3>3. CASE i \in written /\ j \notin written
      BY <3>3, <3>1, <2>4, <1>6, <1>7
    <3>4. CASE i \notin written /\ j \in written
      BY <3>4, <3>1, <2>4, <1>6, <1>7
    <3>5. CASE i \notin written /\ j \notin written
      BY <3>5, <2>4, <1>6 DEF TxInv, Owners
    <3> QED BY <3>2, <3>3, <3>4, <3>5
  <2>5. ASSUME NEW i \in TxSlots PROVE Owned(txd'[i]) <= packets
    <3>1. CASE i \in written
      BY <3>1, <1>7, <1>e
    <3>2. CASE i \notin written
      BY <3>2, <1>6 DEF TxInv, Owners
    <3> QED BY <3>1, <3>2
  <2>6. live = OwnedInRing' \ {0}
    <3>1. live = (OwnedInRing \cup {job.pkt}) \ {0}
      BY DEF TxInv, Owners
    <3>2. job.pkt \in OwnedInRing'
      BY <1>2, <1>5, <1>7 DEF OwnedInRing
    <3>3. ASSUME NEW x \in OwnedInRing' PROVE x \in OwnedInRing \/ x = 0 \/ x = job.pkt
      <4>1. PICK i \in TxSlots : x = Owned(txd'[i])
        BY DEF OwnedInRing
      <4> QED BY <4>1, <1>6, <1>7 DEF OwnedInRing
    <3>4. ASSUME NEW x \in OwnedInRing, x # 0 PROVE x \in OwnedInRing'
      <4>1. PICK i \in TxSlots : x = Owned(txd[i])
        BY DEF OwnedInRing
      <4>2. CASE i \in written
        <5>1. x = job.pkt
          BY <4>1, <4>2, <3>4, <1>5 DEF Owned
        <5> QED BY <5>1, <3>2
      <4>3. CASE i \notin written
        BY <4>1, <4>3, <1>6 DEF OwnedInRing
      <4> QED BY <4>2, <4>3
    <3> QED BY <3>1, <3>2, <3>3, <3>4
  <2>7. live' = (OwnedInRing' \cup {job'.pkt}) \ {0}
    BY <2>6, <1>8, <1>a
  <2>8. \A i \in TxSlots : FromOldest(i)' >= FromOldest(tx_produce_index)' =>
            txd'[i].txb = 0 /\ txd'[i].aligned = IF job'.copy /\ i = tx_produce_index' THEN job'.pkt ELSE 0
    BY <2>3, <1>3, <1>8, <1>b
  <2>9. packets' = packets
    BY <1>a
  <2> QED BY <2>1, <2>2, <2>4, <2>5, <2>7, <2>8, <2>9, <1>8 DEF Owners
<1>20. Signalled'
  BY <1>2, <1>5, <1>6 DEF Signalled
<1> QED BY <1>10, <1>11, <1>12, <1>14, <1>18, <1>19, <1>20 DEF TxInv

\* Until the ring is filled to the last descriptor.
TxHolds == ~brimmed => TxInv

LEMMA TxInvariant ==
    ASSUME TxHolds, [EmacNext]_<<rxVars, txVars>>
    PROVE  TxHolds'
<1>1. RxNext => UNCHANGED txVars
  BY DEF RxNext, FrameArrives, RxIsr, RxWakes, RxRests, FrameDropped, FrameTaken, StackTakes
<1>2. CASE UNCHANGED txVars
  <2>1. UNCHANGED <<txd, tx_produce_index, tx_consume_index, mac, job, tx, live, packets, accepted, wire, brimmed>>
    BY <1>2 DEF txVars
  <2>2. (TxTypeOK => TxTypeOK') /\ (JobOK => JobOK') /\ (Sent => Sent')
    BY <2>1 DEF TxTypeOK, JobOK, Sent
  <2>3. (\A i : FromOldest(i)' = FromOldest(i)) /\ FromOldest(mac)' = FromOldest(mac)
        /\ FromOldest(tx_produce_index)' = FromOldest(tx_produce_index) /\ Waiting' = Waiting /\ OwnedInRing' = OwnedInRing
    BY <2>1 DEF FromOldest, Waiting, OwnedInRing
  <2>4. (ReadyAhead => ReadyAhead') /\ (PacketsInRing => PacketsInRing') /\ (Signalled => Signalled')
    BY <2>1, <2>3 DEF ReadyAhead, PacketsInRing, Signalled
  <2>5. Owners => Owners'
    BY <2>1, <2>3 DEF Owners
  <2> QED BY <2>1, <2>2, <2>4, <2>5 DEF TxHolds, TxInv
<1>3. CASE TxNext
  <2>1. ~brimmed' => ~brimmed
    <3>1. OutputStarts \/ OutputWaits \/ OutputWrites => (~brimmed' => ~brimmed)
      BY DEF OutputStarts, OutputWaits, OutputWrites
    <3>2. MacSends \/ TxIsr \/ TxReclaim => (~brimmed' => ~brimmed)
      BY DEF MacSends, TxIsr, TxReclaim
    <3> QED BY <3>1, <3>2, <1>3 DEF TxNext
  <2>2. ASSUME TxInv, ~brimmed, ~brimmed' PROVE TxInv'
    BY <1>3, <2>2, OutputStartsKeeps, TxFlagsKeep, OutputWritesKeeps, MacSendsKeeps, TxReclaimKeeps, Zenon DEF TxNext
  <2> QED BY <2>1, <2>2 DEF TxHolds
<1> QED BY <1>1, <1>2, <1>3 DEF EmacNext, txVars

LEMMA TxInvImplies ==
    ASSUME TxHolds
    PROVE  SendsWhole
<1>1. SUFFICES ASSUME ~brimmed, TxInv
               PROVE  LET queued(k) == {i \in TxSlots : txd[i].ready /\ txd[i].pkt = k}
                          done == Len(wire)
                          owned(i) == IF txd[i].aligned # 0 THEN txd[i].aligned ELSE txd[i].txb
                      IN  /\ \A i \in 1..done : wire[i] = accepted[i]
                          /\ \A i \in (done + 1)..Len(accepted) : queued(accepted[i]) # {}
                          /\ live = ({owned(i) : i \in TxSlots} \cup {job.pkt}) \ {0}
                          /\ \A i \in TxSlots : txd[i].ready => txd[i].pkt \in live
                          /\ job.dn > TxReady /\ tx.count = 0 =>
                                (\E i \in TxSlots : txd[i].ready) \/ tx.irq \/ tx.clean > 0
  BY DEF TxHolds, SendsWhole
<1>2. \A i \in 1..Len(wire) : wire[i] = accepted[i]
  BY <1>1 DEF TxInv, Sent
<1>3. \A i \in (Len(wire) + 1)..Len(accepted) : \E l \in TxSlots : txd[l].ready /\ txd[l].pkt = accepted[i]
  BY <1>1 DEF TxInv, PacketsInRing, Waiting
<1>4. live = ({Owned(txd[i]) : i \in TxSlots} \cup {job.pkt}) \ {0}
  BY <1>1 DEF TxInv, Owners, OwnedInRing
<1>5. ASSUME NEW i \in TxSlots, txd[i].ready PROVE txd[i].pkt \in live
  <2>1. PICK l \in TxSlots : txd[l].ready /\ txd[l].last /\ txd[l].pkt = txd[i].pkt
    BY <1>1, <1>5 DEF TxInv, PacketsInRing
  <2>2. Owned(txd[l]) = txd[i].pkt
    BY <1>1, <2>1 DEF TxInv, Owners
  <2>3. PICK n \in Waiting : txd[i].pkt = accepted[n]
    BY <1>1, <1>5 DEF TxInv, PacketsInRing
  <2>4. n \in 1..Len(accepted)
    BY <1>1, TxFields DEF TxInv, Waiting
  <2>5. accepted[n] # 0
    BY <1>1, <2>4, TxFields DEF TxInv, JobOK
  <2> QED BY <1>4, <2>2, <2>3, <2>5
<1>6. job.dn > TxReady => tx_consume_index # tx_produce_index
  <2>1. SUFFICES ASSUME tx_consume_index = tx_produce_index PROVE ~(job.dn > TxReady)
    OBVIOUS
  <2>2. TxReady = TxRing
    BY <2>1 DEF TxReady
  <2> QED BY <2>2, <1>1, TxFields, TxRingOK DEF TxInv
<1>7. job.dn > TxReady => (\E i \in TxSlots : txd[i].ready) \/ tx.irq \/ tx.clean > 0
  BY <1>1, <1>6 DEF TxInv, Signalled
<1> QED BY <1>2, <1>3, <1>4, <1>5, <1>7 DEF Owned

\* The rings of the driver are sound, of whatever length: every pbuf received is
\* in one place and no frame is lost to a sleeping thread; and, until the transmit
\* ring is filled to the last descriptor, packets are sent in order and once, and
\* their memory is given back when the MAC is done with it (k64f_emac.c).
THEOREM RingsAreSound == EmacSpec => []RingsSound
<1> DEFINE Inv == RxInv /\ TxHolds
<1>1. EmacInit => Inv
  BY RxInitially, TxInitially DEF TxHolds
<1>2. Inv /\ [EmacNext]_<<rxVars, txVars>> => Inv'
  BY RxInvariant, TxInvariant
<1>3. Inv => RingsSound
  BY RxInvImplies, TxInvImplies DEF RingsSound
<1> HIDE DEF Inv
<1> QED BY <1>1, <1>2, <1>3, PTL DEF EmacSpec

-----------------------------------------------------------------------------
(***************************************************************************)
(* The stack's thread and its timeouts                                     *)
(***************************************************************************)

(* Sums along a list *)

LEMMA LeastExists ==
    ASSUME NEW S, S \subseteq Nat, S # {}
    PROVE  \E x \in S : \A y \in S : x <= y
<1>1. PICK x \in S : \A y \in S : ~(<<y, x>> \in OpToRel(<, Nat))
  BY NatLessThanWellFounded, WFMin, Zenon
<1>2. ASSUME NEW y \in S PROVE x <= y
  <2>1. ~(<<y, x>> \in OpToRel(<, Nat))
    BY <1>1
  <2>2. y \in Nat /\ x \in Nat
    OBVIOUS
  <2>3. ~(y < x)
    BY <2>1, <2>2 DEF OpToRel
  <2> QED BY <2>2, <2>3
<1> QED BY <1>2

\* t sums the first n elements of s up.
Sums(t, s, n) == t[0] = 0 /\ \A i \in 1..n : t[i] = t[i - 1] + s[i]

LEMMA SumExists ==
    ASSUME NEW n \in Nat, NEW s, \A i \in 1..n : s[i] \in Int
    PROVE  \E t \in [0..n -> Int] : Sums(t, s, n)
<1> DEFINE No == {k \in 0..n : ~ \E t \in [0..k -> Int] : Sums(t, s, k)}
<1>1. SUFFICES ASSUME No # {} PROVE FALSE
  OBVIOUS
<1>2. No \subseteq Nat
  OBVIOUS
<1>3. PICK k \in No : \A y \in No : k <= y
  BY <1>1, <1>2, LeastExists
<1>4. k # 0
  <2>1. SUFFICES ASSUME k = 0 PROVE FALSE
    OBVIOUS
  <2> DEFINE t == [i \in 0..0 |-> 0]
  <2>2. t \in [0..k -> Int] /\ Sums(t, s, k)
    BY <2>1 DEF Sums
  <2> QED BY <2>2
<1>5. k - 1 \in 0..n /\ k - 1 \notin No /\ k \in 1..n
  BY <1>3, <1>4
<1>6. PICK t \in [0..(k - 1) -> Int] : Sums(t, s, k - 1)
  BY <1>5
<1> DEFINE u == [i \in 0..k |-> IF i = k THEN t[k - 1] + s[k] ELSE t[i]]
<1>7. u \in [0..k -> Int]
  BY <1>5
<1>8. Sums(u, s, k)
  <2>1. u[0] = 0
    BY <1>5, <1>6 DEF Sums
  <2>2. ASSUME NEW i \in 1..k PROVE u[i] = u[i - 1] + s[i]
    <3>1. CASE i = k
      BY <3>1, <1>5
    <3>2. CASE i # k
      <4>1. i \in 1..(k - 1) /\ i - 1 \in 0..k /\ i - 1 # k /\ i \in 0..k
        BY <3>2, <1>5
      <4>2. t[i] = t[i - 1] + s[i]
        BY <4>1, <1>6 DEF Sums
      <4> QED BY <4>1, <4>2, <3>2
    <3> QED BY <3>1, <3>2
  <2> QED BY <2>1, <2>2 DEF Sums
<1> QED BY <1>7, <1>8

LEMMA SumUnique ==
    ASSUME NEW n \in Nat, NEW s, NEW t, NEW u, Sums(t, s, n), Sums(u, s, n)
    PROVE  \A i \in 0..n : t[i] = u[i]
<1> DEFINE No == {k \in 0..n : t[k] # u[k]}
<1>1. SUFFICES ASSUME No # {} PROVE FALSE
  OBVIOUS
<1>2. No \subseteq Nat
  OBVIOUS
<1>3. PICK k \in No : \A y \in No : k <= y
  BY <1>1, <1>2, LeastExists
<1>4. k # 0
  BY <1>3 DEF Sums
<1>5. k - 1 \in 0..n /\ k - 1 \notin No /\ k \in 1..n
  BY <1>3, <1>4
<1>6. t[k] = t[k - 1] + s[k] /\ u[k] = u[k - 1] + s[k] /\ t[k - 1] = u[k - 1]
  BY <1>5 DEF Sums
<1> QED BY <1>3, <1>6

LEMMA SumGrows ==
    ASSUME NEW n \in Nat, NEW s, NEW t, Sums(t, s, n), \A i \in 1..n : s[i] \in Nat
    PROVE  \A i \in 0..n : t[i] \in Nat /\ \A j \in i..n : t[i] <= t[j]
<1>1. \A i \in 0..n : t[i] \in Nat
  <2> DEFINE No == {k \in 0..n : t[k] \notin Nat}
  <2>1. SUFFICES ASSUME No # {} PROVE FALSE
    OBVIOUS
  <2>2. No \subseteq Nat
    OBVIOUS
  <2>3. PICK k \in No : \A y \in No : k <= y
    BY <2>1, <2>2, LeastExists
  <2>4. k # 0
    BY <2>3 DEF Sums
  <2>5. k - 1 \in 0..n /\ k - 1 \notin No /\ k \in 1..n
    BY <2>3, <2>4
  <2>6. t[k] = t[k - 1] + s[k] /\ t[k - 1] \in Nat /\ s[k] \in Nat
    BY <2>5 DEF Sums
  <2> QED BY <2>3, <2>6
<1>2. ASSUME NEW i \in 0..n PROVE \A j \in i..n : t[i] <= t[j]
  <2> DEFINE No == {k \in i..n : ~(t[i] <= t[k])}
  <2>1. SUFFICES ASSUME No # {} PROVE FALSE
    OBVIOUS
  <2>2. No \subseteq Nat
    OBVIOUS
  <2>3. PICK k \in No : \A y \in No : k <= y
    BY <2>1, <2>2, LeastExists
  <2>4. k # i
    <3>1. t[i] \in Nat
      BY <1>1
    <3> QED BY <3>1, <2>3
  <2>5. k - 1 \in i..n /\ k - 1 \in 0..n /\ k - 1 \notin No /\ k \in 1..n
    BY <2>3, <2>4
  <2>6. t[k] = t[k - 1] + s[k] /\ t[k - 1] \in Nat /\ s[k] \in Nat /\ t[i] <= t[k - 1] /\ t[i] \in Nat
    BY <2>5, <1>1 DEF Sums
  <2> QED BY <2>3, <2>6
<1> QED BY <1>1, <1>2

-----------------------------------------------------------------------------
(* What is put into a list and taken out of it *)

LEMMA InsertAtIs ==
    ASSUME NEW S, NEW list, NEW q, NEW e, NEW r,
           list \in Seq(S), q \in 1..(Len(list) + 1), e \in S, r = InsertAt(list, q, e)
    PROVE  /\ r \in Seq(S) /\ Len(r) = Len(list) + 1
           /\ \A i \in 1..(Len(list) + 1) : (i < q => r[i] = list[i]) /\ (i = q => r[i] = e) /\ (i > q => r[i] = list[i - 1])
<1> DEFINE a == SubSeq(list, 1, q - 1)
           b == SubSeq(list, q, Len(list))
<1>1. Len(list) \in Nat
  OBVIOUS
<1>2. a \in Seq(S) /\ Len(a) = q - 1 /\ \A i \in 1..(q - 1) : a[i] = list[i]
  OBVIOUS
<1>3. b \in Seq(S) /\ Len(b) = Len(list) - (q - 1) /\ \A i \in 1..(Len(list) - (q - 1)) : b[i] = list[q - 1 + i]
  OBVIOUS
<1>4. InsertAt(list, q, e) = a \o <<e>> \o b
  BY DEF InsertAt
<1> HIDE DEF a, b
<1> DEFINE c == a \o <<e>>
<1>5. c \in Seq(S) /\ Len(c) = q /\ \A i \in 1..q : c[i] = IF i < q THEN a[i] ELSE e
  BY <1>2
<1> HIDE DEF c
<1> DEFINE d == c \o b
<1>6. /\ d \in Seq(S) /\ Len(d) = Len(list) + 1
      /\ \A i \in 1..(Len(list) + 1) : d[i] = IF i <= q THEN c[i] ELSE b[i - q]
  <2>1. /\ d \in Seq(S) /\ Len(d) = Len(c) + Len(b)
        /\ \A i \in 1..(Len(c) + Len(b)) : d[i] = IF i <= Len(c) THEN c[i] ELSE b[i - Len(c)]
    BY <1>3, <1>5, ConcatProperties
  <2>2. Len(c) + Len(b) = Len(list) + 1 /\ Len(c) = q
    BY <1>1, <1>3, <1>5
  <2> HIDE DEF d
  <2> QED BY <2>1, <2>2
<1> HIDE DEF d
<1>7. ASSUME NEW i \in 1..(Len(list) + 1)
      PROVE  (i < q => d[i] = list[i]) /\ (i = q => d[i] = e) /\ (i > q => d[i] = list[i - 1])
  <2>1. CASE i <= q
    BY <2>1, <1>2, <1>5, <1>6
  <2>2. CASE i > q
    <3>1. i - q \in 1..(Len(list) - (q - 1)) /\ q - 1 + (i - q) = i - 1
      BY <2>2, <1>1
    <3>2. b[i - q] = list[i - 1]
      BY <3>1, <1>3
    <3> QED BY <2>2, <3>2, <1>6
  <2> QED BY <2>1, <2>2
<1>8. r = d
  BY <1>4 DEF c, d
<1> QED BY <1>6, <1>7, <1>8

LEMMA RemoveAtIs ==
    ASSUME NEW S, NEW list, NEW p, NEW r,
           list \in Seq(S), p \in 1..Len(list), r = RemoveAt(list, p)
    PROVE  /\ r \in Seq(S) /\ Len(r) = Len(list) - 1
           /\ \A i \in 1..(Len(list) - 1) : r[i] = IF i < p THEN list[i] ELSE list[i + 1]
<1> DEFINE a == SubSeq(list, 1, p - 1)
           b == SubSeq(list, p + 1, Len(list))
<1>1. Len(list) \in Nat
  OBVIOUS
<1>2. a \in Seq(S) /\ Len(a) = p - 1 /\ \A i \in 1..(p - 1) : a[i] = list[i]
  OBVIOUS
<1>3. b \in Seq(S) /\ Len(b) = Len(list) - p /\ \A i \in 1..(Len(list) - p) : b[i] = list[p + i]
  OBVIOUS
<1>4. RemoveAt(list, p) = a \o b
  BY DEF RemoveAt
<1> HIDE DEF a, b
<1> DEFINE d == a \o b
<1>5. /\ d \in Seq(S) /\ Len(d) = Len(list) - 1
      /\ \A i \in 1..(Len(list) - 1) : d[i] = IF i <= p - 1 THEN a[i] ELSE b[i - (p - 1)]
  <2>1. /\ d \in Seq(S) /\ Len(d) = Len(a) + Len(b)
        /\ \A i \in 1..(Len(a) + Len(b)) : d[i] = IF i <= Len(a) THEN a[i] ELSE b[i - Len(a)]
    BY <1>2, <1>3, ConcatProperties
  <2>2. Len(a) + Len(b) = Len(list) - 1 /\ Len(a) = p - 1
    BY <1>1, <1>2, <1>3
  <2> HIDE DEF d
  <2> QED BY <2>1, <2>2
<1> HIDE DEF d
<1>6. ASSUME NEW i \in 1..(Len(list) - 1)
      PROVE  d[i] = IF i < p THEN list[i] ELSE list[i + 1]
  <2>1. CASE i < p
    BY <2>1, <1>2, <1>5
  <2>2. CASE i >= p
    <3>1. i - (p - 1) \in 1..(Len(list) - p) /\ p + (i - (p - 1)) = i + 1
      BY <2>2, <1>1
    <3>2. b[i - (p - 1)] = list[i + 1]
      BY <3>1, <1>3
    <3> QED BY <2>2, <3>2, <1>5
  <2> QED BY <2>1, <2>2
<1>7. r = d
  BY <1>4 DEF d
<1> QED BY <1>5, <1>6, <1>7

-----------------------------------------------------------------------------
(* The times of a list of timeouts *)

Timeout == [h : AllTimers, time : Nat]

LEMMA TimeoutFields ==
    ASSUME NEW list \in Seq(Timeout)
    PROVE  /\ Len(list) \in Nat
           /\ \A i \in 1..Len(list) : list[i] \in Timeout /\ list[i].h \in AllTimers /\ list[i].time \in Nat
<1>1. Len(list) \in Nat /\ \A i \in 1..Len(list) : list[i] \in Timeout
  OBVIOUS
<1>2. \A d \in Timeout : d.h \in AllTimers /\ d.time \in Nat
  BY DEF Timeout
<1> QED BY <1>1, <1>2

LEMMA TimeToIs ==
    ASSUME NEW list \in Seq(Timeout)
    PROVE  /\ TimeTo(list, 0) = 0
           /\ \A i \in 1..Len(list) : TimeTo(list, i) = TimeTo(list, i - 1) + list[i].time
<1> DEFINE n == Len(list)
           s == [i \in 1..n |-> list[i].time]
           Step(t) == [j \in 0..n |-> IF j = 0 THEN 0 ELSE t[j - 1] + list[j].time]
           c == CHOOSE t : t = Step(t)
<1>1. n \in Nat /\ \A i \in 1..n : s[i] = list[i].time /\ s[i] \in Int
  BY TimeoutFields
<1>2. PICK t \in [0..n -> Int] : Sums(t, s, n)
  <2> HIDE DEF n, s
  <2> QED BY <1>1, SumExists
<1>3. t = Step(t)
  <2>1. \A j \in 0..n : t[j] = IF j = 0 THEN 0 ELSE t[j - 1] + list[j].time
    <3>1. \A j \in 0..n : j # 0 => j \in 1..n
      BY <1>1
    <3> QED BY <3>1, <1>1, <1>2 DEF Sums
  <2> HIDE DEF n, s
  <2> QED BY <2>1
<1>4. c = Step(c)
  <2> HIDE DEF Step
  <2> QED BY <1>3
<1>5. \A i \in 0..n : TimeTo(list, i) = c[i]
  BY DEF TimeTo
<1> HIDE DEF c
<1>6. c[0] = 0
  <2> HIDE DEF n, s
  <2>1. 0 \in 0..n
    BY <1>1
  <2> QED BY <2>1, <1>4
<1>7. \A i \in 1..n : c[i] = c[i - 1] + list[i].time
  <2> HIDE DEF n, s
  <2>1. \A i \in 1..n : i \in 0..n /\ i # 0
    BY <1>1
  <2> QED BY <2>1, <1>4
<1>8. \A i \in 1..n : i \in 0..n /\ i - 1 \in 0..n
  <2> HIDE DEF n
  <2> QED BY <1>1
<1>9. 0 \in 0..n
  <2> HIDE DEF n
  <2> QED BY <1>1
<1> HIDE DEF s, Step
<1> QED BY <1>5, <1>6, <1>7, <1>8, <1>9

LEMMA TimesGrow ==
    ASSUME NEW list \in Seq(Timeout)
    PROVE  \A i \in 0..Len(list) : TimeTo(list, i) \in Nat /\ \A j \in i..Len(list) : TimeTo(list, i) <= TimeTo(list, j)
<1> DEFINE n == Len(list)
           s == [i \in 1..n |-> list[i].time]
           t == [i \in 0..n |-> TimeTo(list, i)]
<1>1. n \in Nat /\ \A i \in 1..n : s[i] = list[i].time /\ s[i] \in Nat
  BY TimeoutFields
<1>2. \A i \in 0..n : t[i] = TimeTo(list, i)
  OBVIOUS
<1>3. Sums(t, s, n)
  <2>1. \A i \in 1..n : i \in 0..n /\ i - 1 \in 0..n
    <3> HIDE DEF n
    <3> QED BY <1>1
  <2>2. 0 \in 0..n
    BY <1>1
  <2> HIDE DEF t, s
  <2> QED BY <2>1, <2>2, <1>1, <1>2, TimeToIs DEF Sums
<1> HIDE DEF t, s
<1>4. \A i \in 0..n : t[i] \in Nat /\ \A j \in i..n : t[i] <= t[j]
  <2> HIDE DEF n
  <2> QED BY <1>1, <1>3, SumGrows
<1>5. \A i \in 0..n : \A j \in i..n : j \in 0..n
  <2> HIDE DEF n
  <2> QED BY <1>1
<1> QED BY <1>2, <1>4, <1>5

\* u sums the times of a list of m timeouts up.
TimesUp(u, list, m) ==
    /\ list \in Seq(Timeout) /\ m = Len(list)
    /\ u[0] = 0 /\ \A i \in 1..m : u[i] = u[i - 1] + list[i].time

LEMMA TimesAre ==
    ASSUME NEW list, NEW u, NEW m, TimesUp(u, list, m)
    PROVE  \A i \in 0..m : TimeTo(list, i) = u[i]
<1> DEFINE n == Len(list)
           s == [i \in 1..n |-> list[i].time]
           t == [i \in 0..n |-> TimeTo(list, i)]
<1>0. list \in Seq(Timeout) /\ m = n /\ u[0] = 0 /\ \A i \in 1..n : u[i] = u[i - 1] + list[i].time
  BY DEF TimesUp
<1>1. n \in Nat /\ \A i \in 1..n : s[i] = list[i].time
  BY <1>0
<1>2. \A i \in 0..n : t[i] = TimeTo(list, i)
  OBVIOUS
<1>3. Sums(t, s, n)
  <2>1. \A i \in 1..n : i \in 0..n /\ i - 1 \in 0..n
    <3> HIDE DEF n
    <3> QED BY <1>1
  <2>2. 0 \in 0..n
    BY <1>1
  <2> HIDE DEF t, s
  <2> QED BY <2>1, <2>2, <1>0, <1>1, <1>2, TimeToIs DEF Sums
<1> HIDE DEF t, s
<1>4. Sums(u, s, n)
  BY <1>0, <1>1 DEF Sums
<1>5. \A i \in 0..n : t[i] = u[i]
  <2> HIDE DEF n
  <2> QED BY <1>1, <1>3, <1>4, SumUnique
<1> QED BY <1>0, <1>2, <1>5

-----------------------------------------------------------------------------
(* What sys_timeout and sys_untimeout do to them *)

LEMMA DueBefore ==
    ASSUME NEW list \in Seq(Timeout), NEW msecs \in Nat
    PROVE  \E p \in 0..Len(list) :
              /\ Cardinality({i \in DOMAIN list : TimeTo(list, i) <= msecs}) = p
              /\ TimeTo(list, p) <= msecs
              /\ p < Len(list) => TimeTo(list, p + 1) > msecs
<1> DEFINE n == Len(list)
           P == {i \in DOMAIN list : TimeTo(list, i) <= msecs}
           Late == {k \in 1..(n + 1) : k = n + 1 \/ TimeTo(list, k) > msecs}
<1>1. n \in Nat /\ DOMAIN list = 1..n
  OBVIOUS
<1>2. \A i \in 0..n : TimeTo(list, i) \in Nat /\ \A j \in i..n : TimeTo(list, i) <= TimeTo(list, j)
  BY TimesGrow
<1>3. TimeTo(list, 0) = 0
  BY TimeToIs
<1> HIDE DEF n
<1>4. PICK q \in Late : \A k \in Late : q <= k
  <2>1. Late \subseteq Nat /\ n + 1 \in Late
    BY <1>1
  <2> HIDE DEF Late
  <2> QED BY <2>1, LeastExists
<1> DEFINE p == q - 1
<1>5. p \in 0..n /\ q = p + 1 /\ q \in 1..(n + 1)
  BY <1>1, <1>4
<1>6. p < n => TimeTo(list, p + 1) > msecs
  BY <1>4, <1>5, <1>1
<1>7. \A i \in 1..p : TimeTo(list, i) <= msecs /\ i \in 1..n
  <2>1. TAKE i \in 1..p
  <2>2. i \in 1..n /\ i \in 0..n /\ i \in 1..(n + 1) /\ i < q
    BY <1>1, <1>5
  <2>3. i \notin Late
    BY <2>2, <1>4, <1>1
  <2> QED BY <2>2, <2>3, <1>2
<1>8. \A i \in (p + 1)..n : ~(TimeTo(list, i) <= msecs)
  <2>1. TAKE i \in (p + 1)..n
  <2>2. p + 1 \in 0..n /\ i \in 0..n /\ i \in (p + 1)..n /\ p < n
    BY <1>1, <1>5
  <2>3. TimeTo(list, p + 1) <= TimeTo(list, i) /\ TimeTo(list, p + 1) \in Nat /\ TimeTo(list, i) \in Nat
    BY <2>2, <1>2
  <2> QED BY <2>2, <2>3, <1>6
<1>9. P = 1..p
  <2>1. \A i \in 1..n : i \in 1..p \/ i \in (p + 1)..n
    BY <1>1, <1>5
  <2> HIDE DEF p
  <2> QED BY <2>1, <1>1, <1>7, <1>8
<1>10. Cardinality(P) = p
  <2>1. Cardinality(1..p) = IF 1 > p THEN 0 ELSE p - 1 + 1
    BY <1>1, <1>5, FS_Interval
  <2>2. Cardinality(1..p) = p
    BY <2>1, <1>1, <1>5
  <2> QED BY <2>2, <1>9
<1>11. TimeTo(list, p) <= msecs
  <2>1. p = 0 \/ p \in 1..p
    BY <1>1, <1>5
  <2> QED BY <2>1, <1>3, <1>7
<1> QED BY <1>5, <1>6, <1>10, <1>11 DEF n

\* h is called after msecs, behind the first p of the list; the others are as before.
PutAt(r, list, p, h, msecs) ==
    /\ r \in Seq(Timeout) /\ Len(r) = Len(list) + 1
    /\ \A i \in 1..(Len(list) + 1) :
          /\ i <= p => r[i].h = list[i].h /\ TimeTo(r, i) = TimeTo(list, i)
          /\ i = p + 1 => r[i].h = h /\ TimeTo(r, i) = msecs
          /\ i > p + 1 => r[i].h = list[i - 1].h /\ TimeTo(r, i) = TimeTo(list, i - 1)

LEMMA SysTimeoutIs ==
    ASSUME NEW list \in Seq(Timeout), NEW h \in AllTimers, NEW msecs \in Nat, NEW r, r = SysTimeout(list, h, msecs)
    PROVE  \E p \in 0..Len(list) : PutAt(r, list, p, h, msecs)
<1>1. PICK p \in 0..Len(list) :
              /\ Cardinality({i \in DOMAIN list : TimeTo(list, i) <= msecs}) = p
              /\ TimeTo(list, p) <= msecs
              /\ p < Len(list) => TimeTo(list, p + 1) > msecs
  BY DueBefore
<1> DEFINE n == Len(list)
           rest == msecs - TimeTo(list, p)
           cut == IF p = Len(list) THEN list ELSE [list EXCEPT ![p + 1].time = @ - rest]
<1>2. r = InsertAt(cut, p + 1, [h |-> h, time |-> rest])
  BY <1>1 DEF SysTimeout
<1>3. n \in Nat /\ p \in 0..n /\ DOMAIN list = 1..n
      /\ \A i \in 1..n : list[i] \in Timeout /\ list[i].h \in AllTimers /\ list[i].time \in Nat
  BY TimeoutFields
<1>4. /\ \A i \in 0..n : TimeTo(list, i) \in Nat
      /\ TimeTo(list, 0) = 0
      /\ \A i \in 1..n : TimeTo(list, i) = TimeTo(list, i - 1) + list[i].time
  BY TimesGrow, TimeToIs
<1>5. rest \in Nat /\ rest = msecs - TimeTo(list, p) /\ TimeTo(list, p) \in Nat
  BY <1>1, <1>3, <1>4
<1>6. p < n => p + 1 \in 1..n /\ list[p + 1].time - rest \in Nat /\ TimeTo(list, p + 1) = TimeTo(list, p) + list[p + 1].time
  <2>1. SUFFICES ASSUME p < n PROVE p + 1 \in 1..n /\ list[p + 1].time - rest \in Nat /\ TimeTo(list, p + 1) = TimeTo(list, p) + list[p + 1].time
    OBVIOUS
  <2>2. p + 1 \in 1..n /\ (p + 1) - 1 = p
    BY <2>1, <1>3
  <2>3. TimeTo(list, p + 1) = TimeTo(list, p) + list[p + 1].time
    BY <2>2, <1>4
  <2>4. TimeTo(list, p + 1) > msecs
    BY <2>1, <1>1
  <2>5. list[p + 1].time \in Nat
    BY <2>2, <1>3
  <2> HIDE DEF rest
  <2> QED BY <2>2, <2>3, <2>4, <2>5, <1>5
<1>7. /\ cut \in Seq(Timeout) /\ Len(cut) = n
      /\ \A i \in 1..n : cut[i].h = list[i].h /\ cut[i].time = IF i = p + 1 THEN list[i].time - rest ELSE list[i].time
  <2>1. CASE p = n
    <3>1. cut = list
      BY <2>1
    <3>2. \A i \in 1..n : i # p + 1
      BY <1>3, <2>1
    <3> QED BY <3>1, <3>2
  <2>2. CASE p # n
    <3> DEFINE d == [h |-> list[p + 1].h, time |-> list[p + 1].time - rest]
    <3>1. p < n
      <4> HIDE DEF rest, n
      <4> QED BY <2>2, <1>3
    <3>2. d \in Timeout
      BY <3>1, <1>3, <1>6 DEF Timeout
    <3>3. cut = [list EXCEPT ![p + 1] = [list[p + 1] EXCEPT !.time = list[p + 1].time - rest]]
      BY <2>2
    <3>4. \A e \in Timeout : \A v : [e EXCEPT !.time = v] = [h |-> e.h, time |-> v]
      BY DEF Timeout
    <3>5. [list[p + 1] EXCEPT !.time = list[p + 1].time - rest] = d
      BY <3>1, <3>4, <1>3, <1>6
    <3>6. cut = [list EXCEPT ![p + 1] = d]
      BY <3>3, <3>5
    <3>7. d.h = list[p + 1].h /\ d.time = list[p + 1].time - rest
      OBVIOUS
    <3> HIDE DEF d, cut, rest
    <3>8. cut \in Seq(Timeout) /\ Len(cut) = n /\ \A i \in 1..n : cut[i] = IF i = p + 1 THEN d ELSE list[i]
      BY <3>1, <3>2, <3>6, <1>3
    <3> QED BY <3>7, <3>8
  <2> QED BY <2>1, <2>2
<1> HIDE DEF cut
<1> DEFINE e == [h |-> h, time |-> rest]
<1>8. e \in Timeout /\ e.h = h /\ e.time = rest
  BY <1>5 DEF Timeout
<1> HIDE DEF e
<1>9. /\ r \in Seq(Timeout) /\ Len(r) = n + 1
      /\ \A i \in 1..(n + 1) : r[i] = IF i < p + 1 THEN cut[i] ELSE IF i = p + 1 THEN e ELSE cut[i - 1]
  <2>1. p + 1 \in 1..(Len(cut) + 1)
    BY <1>3, <1>7
  <2>2. r = InsertAt(cut, p + 1, e)
    BY <1>2 DEF e
  <2> HIDE DEF n
  <2>3. /\ r \in Seq(Timeout) /\ Len(r) = Len(cut) + 1
        /\ \A i \in 1..(Len(cut) + 1) : r[i] = IF i < p + 1 THEN cut[i] ELSE IF i = p + 1 THEN e ELSE cut[i - 1]
    <3>0. PICK q : q = p + 1
      OBVIOUS
    <3>1. q \in 1..(Len(cut) + 1) /\ r = InsertAt(cut, q, e) /\ cut \in Seq(Timeout) /\ e \in Timeout
      BY <3>0, <2>1, <2>2, <1>7, <1>8
    <3>3. /\ r \in Seq(Timeout) /\ Len(r) = Len(cut) + 1
          /\ \A i \in 1..(Len(cut) + 1) : (i < q => r[i] = cut[i]) /\ (i = q => r[i] = e) /\ (i > q => r[i] = cut[i - 1])
      BY <3>1, InsertAtIs
    <3>4. \A i \in 1..(Len(cut) + 1) : i < q \/ i = q \/ i > q
      BY <3>1
    <3>5. \A i \in 1..(Len(cut) + 1) : r[i] = IF i < q THEN cut[i] ELSE IF i = q THEN e ELSE cut[i - 1]
      BY <3>3, <3>4
    <3> QED BY <3>0, <3>3, <3>5, Zenon
  <2> QED BY <2>3, <1>7
<1> HIDE DEF rest
<1>10. \A i \in 1..(n + 1) : r[i].h = IF i <= p THEN list[i].h ELSE IF i = p + 1 THEN h ELSE list[i - 1].h
  <2>1. TAKE i \in 1..(n + 1)
  <2>2. CASE i <= p
    <3>1. i < p + 1 /\ i \in 1..n
      BY <2>2, <1>3
    <3> QED BY <3>1, <2>2, <1>7, <1>9
  <2>3. CASE i = p + 1
    <3>1. ~(i < p + 1) /\ ~(i <= p)
      BY <2>3, <1>3
    <3> QED BY <3>1, <2>3, <1>8, <1>9
  <2>4. CASE i > p + 1
    <3>1. ~(i < p + 1) /\ ~(i <= p) /\ i # p + 1 /\ i - 1 \in 1..n
      BY <2>4, <1>3
    <3> QED BY <3>1, <1>7, <1>9
  <2> QED BY <2>2, <2>3, <2>4, <1>3
<1> DEFINE u == [i \in 0..(n + 1) |-> IF i <= p THEN TimeTo(list, i) ELSE IF i = p + 1 THEN msecs ELSE TimeTo(list, i - 1)]
<1>11. \A i \in 0..(n + 1) : u[i] = IF i <= p THEN TimeTo(list, i) ELSE IF i = p + 1 THEN msecs ELSE TimeTo(list, i - 1)
  OBVIOUS
<1> HIDE DEF u
<1>12. u[0] = 0
  BY <1>3, <1>4, <1>11
<1>13. ASSUME NEW i \in 1..(n + 1) PROVE u[i] = u[i - 1] + r[i].time
  <2>1. i \in 0..(n + 1) /\ i - 1 \in 0..(n + 1)
    BY <1>3
  <2>2. CASE i <= p
    <3>1. i < p + 1 /\ i \in 1..n /\ i - 1 <= p /\ i # p + 1
      BY <2>2, <1>3
    <3>2. r[i].time = list[i].time
      BY <3>1, <1>7, <1>9
    <3> QED BY <3>1, <3>2, <2>1, <2>2, <1>4, <1>11
  <2>3. CASE i = p + 1
    <3>1. ~(i < p + 1) /\ ~(i <= p) /\ i - 1 = p /\ i - 1 <= p
      BY <2>3, <1>3
    <3>2. r[i].time = rest /\ u[i] = msecs /\ u[i - 1] = TimeTo(list, p)
      BY <3>1, <2>1, <2>3, <1>8, <1>9, <1>11
    <3> QED BY <3>2, <1>5
  <2>4. CASE i = p + 2
    <3>1. ~(i < p + 1) /\ ~(i <= p) /\ i # p + 1 /\ i - 1 = p + 1 /\ i - 1 \in 1..n /\ ~(i - 1 <= p) /\ p < n
      BY <2>4, <1>3
    <3>2. r[i].time = list[p + 1].time - rest
      BY <3>1, <1>7, <1>9
    <3>3. u[i] = TimeTo(list, p + 1) /\ u[i - 1] = msecs
      BY <3>1, <2>1, <1>11
    <3>4. list[p + 1].time \in Nat
      BY <3>1, <1>3
    <3> QED BY <3>1, <3>2, <3>3, <3>4, <1>5, <1>6
  <2>5. CASE i > p + 2
    <3>1. /\ ~(i < p + 1) /\ ~(i <= p) /\ i # p + 1 /\ i - 1 # p + 1 /\ i - 1 \in 1..n /\ ~(i - 1 <= p)
          /\ i - 1 \in 0..(n + 1)
      BY <2>5, <1>3
    <3>2. r[i].time = list[i - 1].time
      BY <3>1, <1>7, <1>9
    <3>3. u[i] = TimeTo(list, i - 1) /\ u[i - 1] = TimeTo(list, (i - 1) - 1)
      BY <3>1, <2>1, <1>11
    <3> QED BY <3>1, <3>2, <3>3, <1>4
  <2> QED BY <2>2, <2>3, <2>4, <2>5, <1>3
<1>14. \A i \in 0..(n + 1) : TimeTo(r, i) = u[i]
  <2>1. TimesUp(u, r, n + 1)
    BY <1>9, <1>12, <1>13 DEF TimesUp
  <2> QED BY <2>1, TimesAre
<1>15. \A i \in 1..(n + 1) : i \in 0..(n + 1)
  BY <1>3
<1>16. ASSUME NEW i \in 1..(n + 1)
       PROVE  /\ i <= p => r[i].h = list[i].h /\ TimeTo(r, i) = TimeTo(list, i)
              /\ i = p + 1 => r[i].h = h /\ TimeTo(r, i) = msecs
              /\ i > p + 1 => r[i].h = list[i - 1].h /\ TimeTo(r, i) = TimeTo(list, i - 1)
  <2>1. (i = p + 1 => ~(i <= p)) /\ (i > p + 1 => ~(i <= p) /\ i # p + 1)
    BY <1>3
  <2>2. TimeTo(r, i) = u[i]
    BY <1>14, <1>15
  <2>3. u[i] = IF i <= p THEN TimeTo(list, i) ELSE IF i = p + 1 THEN msecs ELSE TimeTo(list, i - 1)
    BY <1>11, <1>15
  <2> QED BY <2>1, <2>2, <2>3, <1>10
<1> HIDE DEF n
<1>17. /\ r \in Seq(Timeout) /\ Len(r) = n + 1
       /\ \A i \in 1..(n + 1) :
              /\ i <= p => r[i].h = list[i].h /\ TimeTo(r, i) = TimeTo(list, i)
              /\ i = p + 1 => r[i].h = h /\ TimeTo(r, i) = msecs
              /\ i > p + 1 => r[i].h = list[i - 1].h /\ TimeTo(r, i) = TimeTo(list, i - 1)
  BY <1>9, <1>16
<1>18. PutAt(r, list, p, h, msecs)
  BY <1>17, Zenon DEF PutAt, n
<1> QED BY <1>18

\* r is the list without its j-th; the others are called when they were before.
TakenFrom(r, list, j) ==
    /\ r \in Seq(Timeout) /\ Len(r) = Len(list) - 1
    /\ \A i \in 1..(Len(list) - 1) :
          /\ i < j => r[i].h = list[i].h /\ TimeTo(r, i) = TimeTo(list, i)
          /\ i >= j => r[i].h = list[i + 1].h /\ TimeTo(r, i) = TimeTo(list, i + 1)

LEMMA SysUntimeoutIs ==
    ASSUME NEW list \in Seq(Timeout), NEW j \in 1..Len(list),
           \A i, k \in 1..Len(list) : list[i].h = list[k].h => i = k,
           NEW r, r = SysUntimeout(list, list[j].h)
    PROVE  TakenFrom(r, list, j)
<1> DEFINE n == Len(list)
           cut == IF j = Len(list) THEN list ELSE [list EXCEPT ![j + 1].time = @ + list[j].time]
<1>1. n \in Nat /\ j \in 1..n /\ DOMAIN list = 1..n
      /\ \A i \in 1..n : list[i] \in Timeout /\ list[i].h \in AllTimers /\ list[i].time \in Nat
  BY TimeoutFields
<1>2. r = RemoveAt(cut, j)
  <2> DEFINE its == {i \in DOMAIN list : list[i].h = list[j].h}
  <2>1. its = {j}
    BY <1>1
  <2>2. Min(its) = j
    BY <2>1 DEF Min
  <2>3. SysUntimeout(list, list[j].h) =
          IF its = {} THEN list
          ELSE RemoveAt(IF Min(its) = Len(list) THEN list
                        ELSE [list EXCEPT ![Min(its) + 1].time = @ + list[Min(its)].time], Min(its))
    BY DEF SysUntimeout
  <2> HIDE DEF its
  <2> QED BY <2>1, <2>2, <2>3
<1>3. /\ \A i \in 0..n : TimeTo(list, i) \in Nat
      /\ TimeTo(list, 0) = 0
      /\ \A i \in 1..n : TimeTo(list, i) = TimeTo(list, i - 1) + list[i].time
  BY TimesGrow, TimeToIs
<1>4. /\ cut \in Seq(Timeout) /\ Len(cut) = n
      /\ \A i \in 1..n : cut[i].h = list[i].h /\ cut[i].time = IF i = j + 1 THEN list[i].time + list[j].time ELSE list[i].time
  <2>1. CASE j = n
    <3>1. cut = list
      BY <2>1
    <3>2. \A i \in 1..n : i # j + 1
      <4> HIDE DEF n
      <4> QED BY <1>1, <2>1
    <3> QED BY <3>1, <3>2
  <2>2. CASE j # n
    <3> DEFINE d == [h |-> list[j + 1].h, time |-> list[j + 1].time + list[j].time]
    <3>1. j + 1 \in 1..n
      <4> HIDE DEF n
      <4> QED BY <2>2, <1>1
    <3>2. d \in Timeout
      <4>1. list[j + 1].h \in AllTimers /\ list[j + 1].time + list[j].time \in Nat
        BY <3>1, <1>1
      <4> QED BY <4>1 DEF Timeout
    <3>3. cut = [list EXCEPT ![j + 1] = [list[j + 1] EXCEPT !.time = list[j + 1].time + list[j].time]]
      BY <2>2
    <3>4. \A e \in Timeout : \A v : [e EXCEPT !.time = v] = [h |-> e.h, time |-> v]
      BY DEF Timeout
    <3>5. [list[j + 1] EXCEPT !.time = list[j + 1].time + list[j].time] = d
      BY <3>1, <3>4, <1>1
    <3>6. cut = [list EXCEPT ![j + 1] = d]
      BY <3>3, <3>5
    <3>7. d.h = list[j + 1].h /\ d.time = list[j + 1].time + list[j].time
      OBVIOUS
    <3> HIDE DEF d, cut
    <3>8. cut \in Seq(Timeout) /\ Len(cut) = n /\ \A i \in 1..n : cut[i] = IF i = j + 1 THEN d ELSE list[i]
      BY <3>1, <3>2, <3>6, <1>1
    <3> QED BY <3>7, <3>8
  <2> QED BY <2>1, <2>2
<1> HIDE DEF cut
<1>5. /\ r \in Seq(Timeout) /\ Len(r) = n - 1
      /\ \A i \in 1..(n - 1) : r[i] = IF i < j THEN cut[i] ELSE cut[i + 1]
  <2>1. j \in 1..Len(cut) /\ cut \in Seq(Timeout)
    BY <1>1, <1>4
  <2>2. /\ r \in Seq(Timeout) /\ Len(r) = Len(cut) - 1
        /\ \A i \in 1..(Len(cut) - 1) : r[i] = IF i < j THEN cut[i] ELSE cut[i + 1]
    BY <2>1, <1>2, RemoveAtIs
  <2> HIDE DEF n
  <2> QED BY <2>2, <1>4
<1> HIDE DEF n
<1>6. \A i \in 1..(n - 1) : i \in 1..n /\ i + 1 \in 1..n /\ i \in 0..(n - 1) /\ (i < j => i # j + 1)
  BY <1>1
<1>7. \A i \in 1..(n - 1) : r[i].h = IF i < j THEN list[i].h ELSE list[i + 1].h
  BY <1>4, <1>5, <1>6
<1> DEFINE u == [i \in 0..(n - 1) |-> IF i < j THEN TimeTo(list, i) ELSE TimeTo(list, i + 1)]
<1>8. \A i \in 0..(n - 1) : u[i] = IF i < j THEN TimeTo(list, i) ELSE TimeTo(list, i + 1)
  OBVIOUS
<1> HIDE DEF u
<1>9. u[0] = 0
  <2>1. 0 \in 0..(n - 1) /\ 0 < j
    BY <1>1
  <2> QED BY <2>1, <1>3, <1>8
<1>10. ASSUME NEW i \in 1..(n - 1) PROVE u[i] = u[i - 1] + r[i].time
  <2>1. i \in 0..(n - 1) /\ i - 1 \in 0..(n - 1) /\ i \in 1..n /\ i + 1 \in 1..n
    BY <1>1
  <2>2. CASE i < j
    <3>1. i - 1 < j /\ i # j + 1
      BY <2>2, <1>1
    <3>2. r[i].time = list[i].time
      BY <3>1, <2>1, <2>2, <1>4, <1>5
    <3> QED BY <3>1, <3>2, <2>1, <2>2, <1>3, <1>8
  <2>3. CASE i = j
    <3>1. ~(i < j) /\ i - 1 < j /\ i + 1 = j + 1 /\ j \in 1..n
      BY <2>3, <1>1
    <3>2. r[i].time = list[j + 1].time + list[j].time
      BY <3>1, <2>1, <1>4, <1>5
    <3>3. u[i] = TimeTo(list, j + 1) /\ u[i - 1] = TimeTo(list, j - 1)
      BY <3>1, <2>1, <2>3, <1>8
    <3>4. TimeTo(list, j + 1) = TimeTo(list, j) + list[j + 1].time /\ TimeTo(list, j) = TimeTo(list, j - 1) + list[j].time
      <4>1. j + 1 \in 1..n /\ (j + 1) - 1 = j
        BY <3>1, <2>1
      <4> QED BY <4>1, <3>1, <1>3
    <3>5. TimeTo(list, j - 1) \in Nat /\ list[j].time \in Nat /\ list[j + 1].time \in Nat
      <4>1. j + 1 \in 1..n /\ j - 1 \in 0..n
        BY <3>1, <2>1, <1>1
      <4> QED BY <4>1, <3>1, <1>1, <1>3
    <3> QED BY <3>2, <3>3, <3>4, <3>5
  <2>4. CASE i > j
    <3>1. ~(i < j) /\ ~(i - 1 < j) /\ i + 1 # j + 1 /\ (i - 1) + 1 = (i + 1) - 1
      BY <2>4, <1>1
    <3>2. r[i].time = list[i + 1].time
      BY <3>1, <2>1, <1>4, <1>5
    <3>3. u[i] = TimeTo(list, i + 1) /\ u[i - 1] = TimeTo(list, (i + 1) - 1)
      BY <3>1, <2>1, <1>8
    <3> QED BY <3>2, <3>3, <2>1, <1>3
  <2> QED BY <2>2, <2>3, <2>4, <1>1
<1>11. \A i \in 0..(n - 1) : TimeTo(r, i) = u[i]
  <2>1. TimesUp(u, r, n - 1)
    BY <1>5, <1>9, <1>10 DEF TimesUp
  <2> QED BY <2>1, TimesAre
<1>12. ASSUME NEW i \in 1..(n - 1)
       PROVE  /\ i < j => r[i].h = list[i].h /\ TimeTo(r, i) = TimeTo(list, i)
              /\ i >= j => r[i].h = list[i + 1].h /\ TimeTo(r, i) = TimeTo(list, i + 1)
  <2>1. i >= j => ~(i < j)
    BY <1>1
  <2>2. TimeTo(r, i) = u[i] /\ u[i] = IF i < j THEN TimeTo(list, i) ELSE TimeTo(list, i + 1)
    BY <1>6, <1>8, <1>11
  <2> QED BY <2>1, <2>2, <1>7
<1> QED BY <1>5, <1>12 DEF n, TakenFrom

\* The first one is called: the others wait as long as it did less.
LEMMA TailIs ==
    ASSUME NEW list \in Seq(Timeout), list # <<>>
    PROVE  /\ Tail(list) \in Seq(Timeout) /\ Len(Tail(list)) = Len(list) - 1
           /\ \A i \in 1..(Len(list) - 1) :
                 Tail(list)[i].h = list[i + 1].h /\ TimeTo(Tail(list), i) = TimeTo(list, i + 1) - list[1].time
<1> DEFINE n == Len(list)
           r == Tail(list)
<1>1. n \in Nat /\ n >= 1 /\ r \in Seq(Timeout) /\ Len(r) = n - 1 /\ \A i \in 1..(n - 1) : r[i] = list[i + 1]
  OBVIOUS
<1>2. /\ \A i \in 0..n : TimeTo(list, i) \in Nat
      /\ TimeTo(list, 0) = 0
      /\ \A i \in 1..n : TimeTo(list, i) = TimeTo(list, i - 1) + list[i].time /\ list[i].time \in Nat
  BY TimesGrow, TimeToIs, TimeoutFields
<1> HIDE DEF n, r
<1> DEFINE u == [i \in 0..(n - 1) |-> TimeTo(list, i + 1) - list[1].time]
<1>3. \A i \in 0..(n - 1) : u[i] = TimeTo(list, i + 1) - list[1].time /\ i + 1 \in 1..n /\ i + 1 \in 0..n
  BY <1>1
<1> HIDE DEF u
<1>4. u[0] = 0
  <2>1. 0 \in 0..(n - 1) /\ 0 + 1 = 1 /\ 1 \in 1..n /\ 1 - 1 = 0
    BY <1>1
  <2>2. TimeTo(list, 1) = 0 + list[1].time /\ list[1].time \in Nat
    BY <2>1, <1>2
  <2> QED BY <2>1, <2>2, <1>3
<1>5. ASSUME NEW i \in 1..(n - 1) PROVE u[i] = u[i - 1] + r[i].time
  <2>1. i \in 0..(n - 1) /\ i - 1 \in 0..(n - 1) /\ i + 1 \in 1..n /\ i \in 0..n /\ (i - 1) + 1 = i /\ (i + 1) - 1 = i /\ 1 \in 1..n
    BY <1>1
  <2>2. TimeTo(list, i + 1) = TimeTo(list, i) + list[i + 1].time /\ TimeTo(list, i) \in Nat /\ list[i + 1].time \in Nat
        /\ list[1].time \in Nat
    BY <2>1, <1>2
  <2>3. u[i] = TimeTo(list, i + 1) - list[1].time /\ u[i - 1] = TimeTo(list, i) - list[1].time /\ r[i].time = list[i + 1].time
    BY <2>1, <1>1, <1>3
  <2> QED BY <2>2, <2>3
<1>6. \A i \in 0..(n - 1) : TimeTo(r, i) = u[i]
  <2>1. TimesUp(u, r, n - 1)
    BY <1>1, <1>4, <1>5 DEF TimesUp
  <2> QED BY <2>1, TimesAre
<1>7. \A i \in 1..(n - 1) : i \in 0..(n - 1)
  BY <1>1
<1>8. \A i \in 1..(n - 1) : r[i].h = list[i + 1].h /\ TimeTo(r, i) = TimeTo(list, i + 1) - list[1].time
  BY <1>1, <1>3, <1>6, <1>7
<1> QED BY <1>1, <1>8 DEF n, r

\* What the thread has waited for a message is taken from the first.
LEMMA ReducedIs ==
    ASSUME NEW list \in Seq(Timeout), list # <<>>, NEW w \in Nat, w <= list[1].time
    PROVE  LET r == [list EXCEPT ![1].time = @ - w]
           IN  /\ r \in Seq(Timeout) /\ Len(r) = Len(list)
               /\ \A i \in 1..Len(list) : r[i].h = list[i].h /\ TimeTo(r, i) = TimeTo(list, i) - w
<1> DEFINE n == Len(list)
           r == [list EXCEPT ![1].time = @ - w]
           d == [h |-> list[1].h, time |-> list[1].time - w]
<1>1. n \in Nat /\ n >= 1 /\ 1 \in 1..n /\ DOMAIN list = 1..n
  OBVIOUS
<1>2. /\ \A i \in 0..n : TimeTo(list, i) \in Nat
      /\ TimeTo(list, 0) = 0
      /\ \A i \in 1..n : TimeTo(list, i) = TimeTo(list, i - 1) + list[i].time
      /\ \A i \in 1..n : list[i].time \in Nat /\ list[i].h \in AllTimers /\ list[i] \in Timeout
  BY TimesGrow, TimeToIs, TimeoutFields
<1>3. d \in Timeout /\ d.h = list[1].h /\ d.time = list[1].time - w
  <2>1. list[1].h \in AllTimers /\ list[1].time - w \in Nat
    BY <1>1, <1>2
  <2> QED BY <2>1 DEF Timeout
<1>4. r = [list EXCEPT ![1] = d]
  <2>1. r = [list EXCEPT ![1] = [list[1] EXCEPT !.time = list[1].time - w]]
    OBVIOUS
  <2>2. \A e \in Timeout : \A v : [e EXCEPT !.time = v] = [h |-> e.h, time |-> v]
    BY DEF Timeout
  <2>3. [list[1] EXCEPT !.time = list[1].time - w] = d
    BY <2>2, <1>1, <1>2
  <2> QED BY <2>1, <2>3
<1> HIDE DEF r, d
<1>5. r \in Seq(Timeout) /\ Len(r) = n /\ \A i \in 1..n : r[i] = IF i = 1 THEN d ELSE list[i]
  BY <1>1, <1>3, <1>4
<1> HIDE DEF n
<1> DEFINE u == [i \in 0..n |-> IF i = 0 THEN 0 ELSE TimeTo(list, i) - w]
<1>6. \A i \in 0..n : u[i] = IF i = 0 THEN 0 ELSE TimeTo(list, i) - w
  OBVIOUS
<1> HIDE DEF u
<1>7. u[0] = 0
  BY <1>1, <1>6
<1>8. ASSUME NEW i \in 1..n PROVE u[i] = u[i - 1] + r[i].time
  <2>1. i \in 0..n /\ i - 1 \in 0..n /\ i # 0
    BY <1>1
  <2>2. TimeTo(list, i) = TimeTo(list, i - 1) + list[i].time /\ TimeTo(list, i - 1) \in Nat /\ list[i].time \in Nat
    BY <2>1, <1>2
  <2>3. CASE i = 1
    <3>1. i - 1 = 0
      BY <2>3
    <3>2. r[i].time = list[1].time - w /\ u[i - 1] = 0 /\ TimeTo(list, i - 1) = 0 /\ u[i] = TimeTo(list, i) - w
      BY <3>1, <2>1, <2>3, <1>2, <1>3, <1>5, <1>6
    <3> QED BY <3>2, <2>2, <2>3
  <2>4. CASE i # 1
    <3>1. i - 1 # 0
      BY <2>4
    <3>2. r[i].time = list[i].time /\ u[i - 1] = TimeTo(list, i - 1) - w /\ u[i] = TimeTo(list, i) - w
      BY <3>1, <2>1, <2>4, <1>5, <1>6
    <3> QED BY <3>2, <2>2
  <2> QED BY <2>3, <2>4
<1>9. \A i \in 0..n : TimeTo(r, i) = u[i]
  <2>1. TimesUp(u, r, n)
    BY <1>5, <1>7, <1>8 DEF TimesUp
  <2> QED BY <2>1, TimesAre
<1>10. \A i \in 1..n : r[i].h = list[i].h /\ TimeTo(r, i) = TimeTo(list, i) - w
  <2>1. \A i \in 1..n : i \in 0..n /\ i # 0
    BY <1>1
  <2> QED BY <2>1, <1>3, <1>5, <1>6, <1>9
<1> QED BY <1>5, <1>10 DEF n, r

-----------------------------------------------------------------------------
(* Lists that are good for the timers that run *)

Distinct(list) == \A i, j \in 1..Len(list) : list[i].h = list[j].h => i = j
Runs(list)     == {list[i].h : i \in 1..Len(list)}

\* After w, no timer is called before it has run its time.
Lasts(list, times, w) == \A i \in 1..Len(list) : TimeTo(list, i) - w >= times[list[i].h]

Covers(list, times) == \A h \in AllTimers : times[h] > 0 => h \in Runs(list)

Good(list, times) == list \in Seq(Timeout) /\ Distinct(list) /\ Lasts(list, times, 0)

LEMMA Added ==
    ASSUME NEW list, NEW times \in [AllTimers -> Nat], NEW new \in [AllTimers -> Nat],
           NEW h \in AllTimers, NEW msecs \in Nat, NEW r,
           Good(list, times), h \notin Runs(list),
           \A g \in AllTimers : g # h => new[g] = times[g],
           new[h] <= msecs,
           r = SysTimeout(list, h, msecs)
    PROVE  Good(r, new) /\ Runs(r) = Runs(list) \cup {h} /\ Len(r) = Len(list) + 1
<1> DEFINE n == Len(list)
<1>1. list \in Seq(Timeout) /\ n \in Nat /\ \A i \in 1..n : list[i].h \in AllTimers
  BY TimeoutFields DEF Good
<1>2. PICK p \in 0..n :
          /\ r \in Seq(Timeout) /\ Len(r) = n + 1
          /\ \A i \in 1..(n + 1) :
                    /\ i <= p => r[i].h = list[i].h /\ TimeTo(r, i) = TimeTo(list, i)
                    /\ i = p + 1 => r[i].h = h /\ TimeTo(r, i) = msecs
                    /\ i > p + 1 => r[i].h = list[i - 1].h /\ TimeTo(r, i) = TimeTo(list, i - 1)
  <2>1. PICK p \in 0..Len(list) : PutAt(r, list, p, h, msecs)
    BY <1>1, SysTimeoutIs
  <2> QED BY <2>1 DEF n, PutAt
<1>3. /\ \A i, j \in 1..n : list[i].h = list[j].h => i = j
      /\ \A i \in 1..n : TimeTo(list, i) >= times[list[i].h]
      /\ \A i \in 1..n : list[i].h # h
  <2>1. \A i, j \in 1..n : list[i].h = list[j].h => i = j
    BY DEF Good, Distinct
  <2>2. \A i \in 1..n : i \in 0..n
    BY <1>1
  <2>3. \A i \in 1..n : TimeTo(list, i) - 0 >= times[list[i].h] /\ TimeTo(list, i) \in Nat
    BY <2>2, <1>1, TimesGrow DEF Good, Lasts
  <2>4. \A i \in 1..n : TimeTo(list, i) >= times[list[i].h]
    BY <2>3
  <2> QED BY <2>1, <2>4 DEF Runs
<1> HIDE DEF n
\* Where the timeout of list[i] is in r
<1> DEFINE at(i) == IF i <= p THEN i ELSE i + 1
<1>4. \A i \in 1..n : at(i) \in 1..(n + 1) /\ r[at(i)].h = list[i].h /\ TimeTo(r, at(i)) = TimeTo(list, i)
  <2>1. TAKE i \in 1..n
  <2>2. CASE i <= p
    <3>1. at(i) = i /\ i \in 1..(n + 1)
      BY <2>2, <1>1
    <3> QED BY <3>1, <2>2, <1>2
  <2>3. CASE ~(i <= p)
    <3>1. at(i) = i + 1 /\ i + 1 \in 1..(n + 1) /\ i + 1 > p + 1 /\ (i + 1) - 1 = i
      BY <2>3, <1>1, <1>2
    <3> QED BY <3>1, <1>2
  <2> QED BY <2>2, <2>3
<1>5. p + 1 \in 1..(n + 1) /\ r[p + 1].h = h /\ TimeTo(r, p + 1) = msecs
  <2>1. p + 1 \in 1..(n + 1) /\ ~(p + 1 <= p)
    BY <1>1, <1>2
  <2> QED BY <2>1, <1>2
<1>6. \A k \in 1..(n + 1) : k = p + 1 \/ \E i \in 1..n : k = at(i)
  <2>1. TAKE k \in 1..(n + 1)
  <2>2. CASE k <= p
    <3>1. k \in 1..n /\ at(k) = k
      BY <2>2, <1>1, <1>2
    <3> QED BY <3>1
  <2>3. CASE k > p + 1
    <3>1. k - 1 \in 1..n /\ ~(k - 1 <= p) /\ (k - 1) + 1 = k
      BY <2>3, <1>1, <1>2
    <3>2. at(k - 1) = k
      BY <3>1
    <3> QED BY <3>1, <3>2
  <2> QED BY <2>2, <2>3, <1>2
<1> HIDE DEF at
<1>7. Distinct(r)
  <2>1. \A i, j \in 1..(n + 1) : r[i].h = r[j].h => i = j
    BY <1>3, <1>4, <1>5, <1>6
  <2> QED BY <2>1, <1>2 DEF Distinct
<1>8. Lasts(r, new, 0)
  <2>1. ASSUME NEW k \in 1..(n + 1) PROVE TimeTo(r, k) - 0 >= new[r[k].h]
    <3>1. CASE k = p + 1
      BY <3>1, <1>5
    <3>2. CASE \E i \in 1..n : k = at(i)
      <4>1. PICK i \in 1..n : k = at(i)
        BY <3>2
      <4>2. r[k].h = list[i].h /\ TimeTo(r, k) = TimeTo(list, i) /\ list[i].h \in AllTimers /\ list[i].h # h
        BY <4>1, <1>1, <1>3, <1>4
      <4>3. new[list[i].h] = times[list[i].h] /\ TimeTo(list, i) >= times[list[i].h]
        BY <4>2, <1>3
      <4>4. TimeTo(list, i) \in Nat /\ times[list[i].h] \in Nat
        <5>1. i \in 0..n
          BY <1>1
        <5> QED BY <5>1, <4>2, <1>1, TimesGrow DEF n
      <4> QED BY <4>2, <4>3, <4>4
    <3> QED BY <3>1, <3>2, <1>6
  <2> QED BY <2>1, <1>2 DEF Lasts
<1>9. Runs(r) = Runs(list) \cup {h}
  <2>1. Runs(r) = {r[k].h : k \in 1..(n + 1)} /\ Runs(list) = {list[i].h : i \in 1..n}
    BY <1>2 DEF Runs, n
  <2>2. ASSUME NEW x \in Runs(r) PROVE x \in Runs(list) \cup {h}
    <3>1. PICK k \in 1..(n + 1) : x = r[k].h
      BY <2>1, <2>2
    <3> QED BY <3>1, <2>1, <1>4, <1>5, <1>6
  <2>3. ASSUME NEW x \in Runs(list) PROVE x \in Runs(r)
    BY <2>1, <2>3, <1>4
  <2>4. h \in Runs(r)
    BY <2>1, <1>5
  <2> QED BY <2>2, <2>3, <2>4
<1> QED BY <1>2, <1>7, <1>8, <1>9 DEF Good, n

LEMMA Removed ==
    ASSUME NEW list, NEW times \in [AllTimers -> Nat], NEW new \in [AllTimers -> Nat], NEW h \in AllTimers, NEW r,
           Good(list, times),
           \A g \in AllTimers : g # h => new[g] = times[g],
           r = SysUntimeout(list, h)
    PROVE  /\ r \in Seq(Timeout) /\ Distinct(r) /\ Runs(r) = Runs(list) \ {h}
           /\ Lasts(r, new, 0)
<1> DEFINE n == Len(list)
<1>1. list \in Seq(Timeout) /\ n \in Nat /\ DOMAIN list = 1..n /\ \A i \in 1..n : list[i].h \in AllTimers
  BY TimeoutFields DEF Good
<1>2. /\ \A i, j \in 1..n : list[i].h = list[j].h => i = j
      /\ \A i \in 1..n : TimeTo(list, i) - 0 >= times[list[i].h]
  BY DEF Good, Distinct, Lasts
<1>3. CASE h \notin Runs(list)
  <2>1. \A i \in 1..n : list[i].h # h
    BY <1>3 DEF Runs
  <2>2. r = list
    <3>1. {i \in DOMAIN list : list[i].h = h} = {}
      BY <2>1, <1>1
    <3> QED BY <3>1 DEF SysUntimeout
  <2>3. \A i \in 1..n : new[list[i].h] = times[list[i].h]
    BY <2>1, <1>1
  <2>4. Lasts(r, new, 0)
    BY <2>2, <2>3, <1>2 DEF Lasts
  <2> QED BY <2>2, <2>4, <1>3 DEF Good
<1>4. CASE h \in Runs(list)
  <2>1. PICK j \in 1..n : list[j].h = h
    BY <1>4 DEF Runs
  <2>2. /\ r \in Seq(Timeout) /\ Len(r) = n - 1
        /\ \A i \in 1..(n - 1) :
                    /\ i < j => r[i].h = list[i].h /\ TimeTo(r, i) = TimeTo(list, i)
                    /\ i >= j => r[i].h = list[i + 1].h /\ TimeTo(r, i) = TimeTo(list, i + 1)
    <3>1. j \in 1..Len(list) /\ r = SysUntimeout(list, list[j].h) /\ \A i, k \in 1..Len(list) : list[i].h = list[k].h => i = k
      BY <2>1, <1>2
    <3>2. TakenFrom(r, list, j)
      BY <3>1, <1>1, SysUntimeoutIs
    <3> QED BY <3>2, Zenon DEF TakenFrom, n
  <2> HIDE DEF n
  <2> DEFINE from(i) == IF i < j THEN i ELSE i + 1
  <2>3. \A i \in 1..(n - 1) : from(i) \in 1..n /\ from(i) # j /\ r[i].h = list[from(i)].h /\ TimeTo(r, i) = TimeTo(list, from(i))
    BY <2>2, <1>1
  <2>4. \A i, k \in 1..(n - 1) : from(i) = from(k) => i = k
    BY <1>1
  <2>5. \A k \in 1..n : k # j => \E i \in 1..(n - 1) : k = from(i)
    <3>1. TAKE k \in 1..n
    <3>2. CASE k < j
      <4>1. k \in 1..(n - 1) /\ from(k) = k
        BY <3>2, <1>1
      <4> QED BY <4>1
    <3>3. CASE k > j
      <4>1. k - 1 \in 1..(n - 1) /\ from(k - 1) = k
        BY <3>3, <1>1
      <4> QED BY <4>1
    <3> QED BY <3>2, <3>3, <1>1
  <2> HIDE DEF from
  <2>6. Distinct(r)
    <3>1. \A i, k \in 1..(n - 1) : r[i].h = r[k].h => i = k
      BY <2>3, <2>4, <1>2
    <3> QED BY <3>1, <2>2 DEF Distinct
  <2>7. \A i \in 1..(n - 1) : list[from(i)].h # h /\ list[from(i)].h \in AllTimers
    BY <2>1, <2>3, <1>1, <1>2
  <2>8. Lasts(r, new, 0)
    <3>1. \A i \in 1..(n - 1) : TimeTo(r, i) - 0 >= new[r[i].h]
      BY <2>3, <2>7, <1>2
    <3> QED BY <3>1, <2>2 DEF Lasts
  <2>9. Runs(r) = Runs(list) \ {h}
    <3>1. Runs(r) = {r[i].h : i \in 1..(n - 1)} /\ Runs(list) = {list[i].h : i \in 1..n}
      BY <2>2 DEF Runs, n
    <3>2. ASSUME NEW x \in Runs(r) PROVE x \in Runs(list) \ {h}
      BY <3>1, <3>2, <2>3, <2>7
    <3>3. ASSUME NEW x \in Runs(list), x # h PROVE x \in Runs(r)
      <4>1. PICK k \in 1..n : x = list[k].h
        BY <3>1, <3>3
      <4>2. k # j
        BY <4>1, <3>3, <2>1
      <4> QED BY <4>1, <4>2, <3>1, <2>3, <2>5
    <3> QED BY <3>2, <3>3
  <2> QED BY <2>2, <2>6, <2>8, <2>9
<1> QED BY <1>3, <1>4

LEMMA FirstCalled ==
    ASSUME NEW list \in Seq(Timeout), NEW times \in [AllTimers -> Nat], list # <<>>,
           Distinct(list), Lasts(list, times, list[1].time)
    PROVE  Good(Tail(list), times) /\ Runs(Tail(list)) = Runs(list) \ {list[1].h} /\ times[list[1].h] = 0
           /\ list[1].h \in AllTimers
<1> DEFINE n == Len(list)
           r == Tail(list)
<1>1. n \in Nat /\ n >= 1 /\ 1 \in 1..n /\ \A i \in 1..n : list[i].h \in AllTimers /\ list[i].time \in Nat
  <2>1. n \in Nat /\ n >= 1 /\ 1 \in 1..n
    OBVIOUS
  <2> QED BY <2>1, TimeoutFields
<1>2. /\ r \in Seq(Timeout) /\ Len(r) = n - 1
      /\ \A i \in 1..(n - 1) : r[i].h = list[i + 1].h /\ TimeTo(r, i) = TimeTo(list, i + 1) - list[1].time
  BY TailIs
<1>3. /\ \A i, j \in 1..n : list[i].h = list[j].h => i = j
      /\ \A i \in 1..n : TimeTo(list, i) - list[1].time >= times[list[i].h]
  BY DEF Distinct, Lasts
<1>4. TimeTo(list, 1) = list[1].time
  <2>1. TimeTo(list, 1) = TimeTo(list, 1 - 1) + list[1].time /\ TimeTo(list, 0) = 0
    BY <1>1, TimeToIs
  <2> QED BY <2>1, <1>1
<1>5. times[list[1].h] = 0
  <2>1. times[list[1].h] \in Nat /\ list[1].time \in Nat
    BY <1>1
  <2> QED BY <2>1, <1>1, <1>3, <1>4
<1>6. \A i \in 0..n : TimeTo(list, i) \in Nat
  BY TimesGrow
<1> HIDE DEF n, r
<1>7. \A i \in 1..(n - 1) : i + 1 \in 1..n /\ i + 1 \in 0..n /\ i + 1 # 1
  BY <1>1
<1>8. Distinct(r)
  <2>1. \A i, j \in 1..(n - 1) : r[i].h = r[j].h => i = j
    <3>1. TAKE i, j \in 1..(n - 1)
    <3>2. HAVE r[i].h = r[j].h
    <3>3. i + 1 = j + 1
      BY <3>2, <1>2, <1>3, <1>7
    <3> QED BY <3>3
  <2> QED BY <2>1, <1>2 DEF Distinct
<1>9. Lasts(r, times, 0)
  <2>1. ASSUME NEW i \in 1..(n - 1) PROVE TimeTo(r, i) - 0 >= times[r[i].h]
    <3>1. TimeTo(list, i + 1) - list[1].time >= times[list[i + 1].h] /\ TimeTo(list, i + 1) \in Nat /\ list[1].time \in Nat
      BY <1>1, <1>3, <1>6, <1>7
    <3>2. TimeTo(r, i) = TimeTo(list, i + 1) - list[1].time /\ r[i].h = list[i + 1].h
      BY <1>2
    <3> QED BY <3>1, <3>2
  <2> QED BY <2>1, <1>2 DEF Lasts
<1>10. Runs(r) = Runs(list) \ {list[1].h}
  <2>1. Runs(r) = {r[i].h : i \in 1..(n - 1)} /\ Runs(list) = {list[i].h : i \in 1..n}
    BY <1>2 DEF Runs, n
  <2>2. ASSUME NEW x \in Runs(r) PROVE x \in Runs(list) \ {list[1].h}
    <3>1. PICK i \in 1..(n - 1) : x = list[i + 1].h
      BY <2>1, <2>2, <1>2
    <3>2. list[i + 1].h # list[1].h
      BY <1>1, <1>3, <1>7
    <3> QED BY <3>1, <3>2, <2>1, <1>7
  <2>3. ASSUME NEW x \in Runs(list), x # list[1].h PROVE x \in Runs(r)
    <3>1. PICK i \in 1..n : x = list[i].h
      BY <2>1, <2>3
    <3>2. i - 1 \in 1..(n - 1) /\ (i - 1) + 1 = i
      BY <3>1, <2>3, <1>1
    <3>3. r[i - 1].h = x
      BY <3>1, <3>2, <1>2
    <3> QED BY <3>2, <3>3, <2>1
  <2> QED BY <2>2, <2>3
<1> QED BY <1>1, <1>2, <1>5, <1>8, <1>9, <1>10 DEF Good, r

LEMMA Waited ==
    ASSUME NEW list \in Seq(Timeout), NEW times \in [AllTimers -> Nat], list # <<>>, NEW w \in Nat, w <= list[1].time,
           Distinct(list), Lasts(list, times, w), NEW r, r = [list EXCEPT ![1].time = @ - w]
    PROVE  Good(r, times) /\ Runs(r) = Runs(list)
<1> DEFINE n == Len(list)
<1>1. /\ r \in Seq(Timeout) /\ Len(r) = n
      /\ \A i \in 1..n : r[i].h = list[i].h /\ TimeTo(r, i) = TimeTo(list, i) - w
  BY ReducedIs
<1>2. Distinct(r)
  BY <1>1 DEF Distinct
<1>3. Lasts(r, times, 0)
  <2>1. n \in Nat /\ \A i \in 0..n : TimeTo(list, i) \in Nat
    BY TimesGrow
  <2>2. \A i \in 1..n : TimeTo(list, i) - w >= times[list[i].h]
    BY DEF Lasts
  <2> HIDE DEF n
  <2>3. ASSUME NEW i \in 1..n PROVE TimeTo(r, i) - 0 >= times[r[i].h]
    <3>1. i \in 0..n
      BY <2>1
    <3>2. TimeTo(list, i) \in Nat /\ TimeTo(list, i) - w >= times[list[i].h]
      BY <3>1, <2>1, <2>2
    <3>3. r[i].h = list[i].h /\ TimeTo(r, i) = TimeTo(list, i) - w
      BY <1>1
    <3> QED BY <3>2, <3>3
  <2> QED BY <2>3, <1>1 DEF Lasts
<1>4. Runs(r) = Runs(list)
  BY <1>1 DEF Runs
<1> QED BY <1>1, <1>2, <1>3, <1>4 DEF Good

-----------------------------------------------------------------------------
(* The inductive invariant *)

TimersInv ==
    /\ timeouts \in Seq(Timeout) /\ left \in [AllTimers -> Nat] /\ waited \in Nat
    /\ DOMAIN Cyclic \subseteq Runs(timeouts)
    /\ waited <= timeouts[1].time
    /\ Distinct(timeouts)
    /\ Lasts(timeouts, left, waited)
    /\ Covers(timeouts, left)
    /\ tcp_active \in BOOLEAN /\ pcbs \in BOOLEAN
    /\ tcp_active <=> TcpTimer \in Runs(timeouts)
    /\ pcbs => tcp_active

Message == [type : {"api"}, of : Clients] \cup [type : {"packet"}, of : {TcpTimer}]
             \cup [type : {"timeout", "untimeout"}, of : DOMAIN UserTimers]

\* A client and a user's timer have at most one message; a timer that is to be set is not.
BoxInv ==
    /\ client \in [Clients -> {"idle", "posts", "posted", "pending", "signalled"}]
    /\ stackbox \in Seq(Message)
    /\ \A i, j \in 1..Len(stackbox) : stackbox[i].of = stackbox[j].of /\ stackbox[i].type # "packet" => i = j
    /\ \A c \in Clients : client[c] = "posted" <=> \E i \in 1..Len(stackbox) : stackbox[i].of = c
    /\ \A i \in 1..Len(stackbox) : stackbox[i].type = "timeout" => stackbox[i].of \notin Runs(timeouts)

StackInv == TimersInv /\ BoxInv

LEMMA MessageIs ==
    \A m \in Message :
        \/ m.type = "api" /\ m.of \in Clients /\ m.of \notin AllTimers
        \/ m.type = "packet" /\ m.of = TcpTimer /\ m.of \notin Clients /\ m.of \notin DOMAIN UserTimers
        \/ m.type \in {"timeout", "untimeout"} /\ m.of \in DOMAIN UserTimers /\ m.of \notin Clients
           /\ m.of \in AllTimers /\ m.of # TcpTimer /\ m.of \notin DOMAIN Cyclic /\ UserTimers[m.of] \in Nat
BY StackAssumption DEF Message, AllTimers

LEMMA ListIsNotEmpty ==
    ASSUME NEW list \in Seq(Timeout), DOMAIN Cyclic \subseteq Runs(list)
    PROVE  list # <<>> /\ Len(list) \in Nat /\ 1 \in 1..Len(list) /\ list[1] \in Timeout /\ list[1].time \in Nat /\ list[1].h \in AllTimers
<1>1. list # <<>> /\ Len(list) \in Nat /\ 1 \in 1..Len(list)
  <2>1. PICK h \in DOMAIN Cyclic : TRUE
    BY StackAssumption
  <2>2. PICK i \in 1..Len(list) : list[i].h = h
    BY <2>1 DEF Runs
  <2>3. Len(list) \in Nat
    OBVIOUS
  <2>4. Len(list) # 0 /\ 1 \in 1..Len(list)
    BY <2>2, <2>3
  <2> QED BY <2>3, <2>4
<1> QED BY <1>1, TimeoutFields

\* After a step the thread has waited for nothing.
LEMMA FreshTimers ==
    ASSUME Good(timeouts', left'), left' \in [AllTimers -> Nat], waited' = 0,
           DOMAIN Cyclic \subseteq Runs(timeouts'), Covers(timeouts', left'),
           tcp_active' \in BOOLEAN, pcbs' \in BOOLEAN,
           tcp_active' <=> TcpTimer \in Runs(timeouts'), pcbs' => tcp_active'
    PROVE  TimersInv'
<1>1. timeouts' \in Seq(Timeout) /\ timeouts'[1].time \in Nat
  BY ListIsNotEmpty DEF Good
<1>2. waited' \in Nat /\ waited' <= timeouts'[1].time
  BY <1>1
<1> QED BY <1>1, <1>2 DEF TimersInv, Good

LEMMA BoxKeepsTimers ==
    ASSUME TimersInv, UNCHANGED <<timeouts, left, pcbs, tcp_active, waited>>
    PROVE  TimersInv'
BY DEF TimersInv, Runs, Distinct, Lasts, TimeTo, Covers

LEMMA Posted ==
    ASSUME StackInv, NEW m \in Message, Post(m), UNCHANGED timeouts,
           m.type = "packet" \/ \A i \in 1..Len(stackbox) : stackbox[i].of # m.of,
           m.type = "timeout" => m.of \notin Runs(timeouts),
           client' \in [Clients -> {"idle", "posts", "posted", "pending", "signalled"}],
           \A c \in Clients : client'[c] = "posted" <=> client[c] = "posted" \/ c = m.of
    PROVE  BoxInv'
<1> DEFINE n == Len(stackbox)
<1>1. stackbox \in Seq(Message) /\ n \in Nat /\ stackbox' = Append(stackbox, m)
  BY DEF StackInv, BoxInv, Post
<1>2. /\ stackbox' \in Seq(Message) /\ Len(stackbox') = n + 1 /\ stackbox'[n + 1] = m
      /\ \A i \in 1..n : stackbox'[i] = stackbox[i] /\ stackbox[i] \in Message
  BY <1>1
<1>3. /\ \A i, j \in 1..n : stackbox[i].of = stackbox[j].of /\ stackbox[i].type # "packet" => i = j
      /\ \A c \in Clients : client[c] = "posted" <=> \E i \in 1..n : stackbox[i].of = c
      /\ \A i \in 1..n : stackbox[i].type = "timeout" => stackbox[i].of \notin Runs(timeouts)
  BY DEF StackInv, BoxInv
<1>4. m.type = "packet" \/ \A i \in 1..n : stackbox[i].of # m.of
  OBVIOUS
<1> HIDE DEF n
<1>5. \A i \in 1..(n + 1) : i \in 1..n \/ i = n + 1
  BY <1>1
<1>6. \A i \in 1..n : i \in 1..(n + 1)
  BY <1>1
<1>7. n + 1 \in 1..(n + 1)
  BY <1>1
<1>8. \A i \in 1..n : m.type = "packet" /\ stackbox[i].of = m.of => stackbox[i].type = "packet"
  BY <1>2, MessageIs
<1>9. ASSUME NEW i \in 1..(n + 1), NEW j \in 1..(n + 1), stackbox'[i].of = stackbox'[j].of, stackbox'[i].type # "packet"
      PROVE  i = j
  <2>1. CASE i \in 1..n /\ j \in 1..n
    BY <2>1, <1>2, <1>3, <1>9
  <2>2. CASE i = n + 1 /\ j = n + 1
    BY <2>2
  <2>3. CASE i = n + 1 /\ j \in 1..n
    BY <2>3, <1>2, <1>4, <1>9
  <2>4. CASE i \in 1..n /\ j = n + 1
    BY <2>4, <1>2, <1>4, <1>8, <1>9
  <2> QED BY <2>1, <2>2, <2>3, <2>4, <1>5
<1>10. ASSUME NEW c \in Clients PROVE client'[c] = "posted" <=> \E i \in 1..(n + 1) : stackbox'[i].of = c
  <2>1. client'[c] = "posted" <=> c = m.of \/ \E i \in 1..n : stackbox[i].of = c
    BY <1>3
  <2>2. (\E i \in 1..(n + 1) : stackbox'[i].of = c) <=> c = m.of \/ \E i \in 1..n : stackbox[i].of = c
    BY <1>2, <1>5, <1>6, <1>7
  <2> QED BY <2>1, <2>2
<1>11. Runs(timeouts)' = Runs(timeouts)
  BY DEF Runs
<1>12. \A i \in 1..(n + 1) : stackbox'[i].type = "timeout" => stackbox'[i].of \notin Runs(timeouts)'
  BY <1>2, <1>3, <1>5, <1>11
<1>13. \A i, j \in 1..Len(stackbox') : stackbox'[i].of = stackbox'[j].of /\ stackbox'[i].type # "packet" => i = j
  BY <1>2, <1>9
<1> QED BY <1>2, <1>10, <1>12, <1>13 DEF BoxInv

\* A message is taken: what was said of the others still holds.
LEMMA Received ==
    ASSUME BoxInv, stackbox # <<>>, stackbox' = Tail(stackbox),
           client' \in [Clients -> {"idle", "posts", "posted", "pending", "signalled"}],
           \A c \in Clients : client'[c] = "posted" <=> client[c] = "posted" /\ c # stackbox[1].of,
           \A h \in DOMAIN UserTimers : h \in Runs(timeouts)' => h \in Runs(timeouts) \/ h = stackbox[1].of
    PROVE  BoxInv'
<1> DEFINE n == Len(stackbox)
<1>1. stackbox \in Seq(Message) /\ n \in Nat /\ n >= 1 /\ 1 \in 1..n
  BY DEF BoxInv
<1>2. /\ stackbox' \in Seq(Message) /\ Len(stackbox') = n - 1
      /\ \A i \in 1..(n - 1) : stackbox'[i] = stackbox[i + 1]
      /\ \A i \in 1..n : stackbox[i] \in Message
  BY <1>1
<1>3. /\ \A i, j \in 1..n : stackbox[i].of = stackbox[j].of /\ stackbox[i].type # "packet" => i = j
      /\ \A c \in Clients : client[c] = "posted" <=> \E i \in 1..n : stackbox[i].of = c
      /\ \A i \in 1..n : stackbox[i].type = "timeout" => stackbox[i].of \notin Runs(timeouts)
  BY DEF BoxInv
<1> HIDE DEF n
<1>4. \A i \in 1..(n - 1) : i + 1 \in 1..n /\ i + 1 # 1
  BY <1>1
<1>5. \A i \in 1..n : i = 1 \/ (i - 1 \in 1..(n - 1) /\ (i - 1) + 1 = i)
  BY <1>1
<1>6. \A i, j \in 1..(n - 1) : stackbox'[i].of = stackbox'[j].of /\ stackbox'[i].type # "packet" => i = j
  <2>1. TAKE i, j \in 1..(n - 1)
  <2>2. HAVE stackbox'[i].of = stackbox'[j].of /\ stackbox'[i].type # "packet"
  <2>3. i + 1 = j + 1
    BY <2>2, <1>2, <1>3, <1>4
  <2> QED BY <2>3
<1>7. ASSUME NEW c \in Clients PROVE client'[c] = "posted" <=> \E i \in 1..(n - 1) : stackbox'[i].of = c
  <2>1. ASSUME client'[c] = "posted" PROVE \E i \in 1..(n - 1) : stackbox'[i].of = c
    <3>1. PICK i \in 1..n : stackbox[i].of = c
      BY <2>1, <1>3
    <3>2. i # 1
      BY <3>1, <2>1
    <3>3. i - 1 \in 1..(n - 1) /\ stackbox'[i - 1].of = c
      BY <3>1, <3>2, <1>2, <1>5
    <3> QED BY <3>3
  <2>2. ASSUME NEW i \in 1..(n - 1), stackbox'[i].of = c PROVE client'[c] = "posted"
    <3>1. i + 1 \in 1..n /\ i + 1 # 1 /\ stackbox[i + 1].of = c
      BY <2>2, <1>2, <1>4
    <3>2. stackbox[i + 1].type = "api"
      BY <3>1, <1>2, MessageIs
    <3>3. stackbox[1].of # c
      BY <3>1, <3>2, <1>1, <1>3
    <3> QED BY <3>1, <3>3, <1>3
  <2> QED BY <2>1, <2>2
<1>8. ASSUME NEW i \in 1..(n - 1), stackbox'[i].type = "timeout" PROVE stackbox'[i].of \notin Runs(timeouts)'
  <2>1. i + 1 \in 1..n /\ i + 1 # 1 /\ stackbox[i + 1].type = "timeout" /\ stackbox'[i].of = stackbox[i + 1].of
    BY <1>8, <1>2, <1>4
  <2>2. stackbox[i + 1].of \in DOMAIN UserTimers /\ stackbox[i + 1].of \notin Runs(timeouts)
    BY <2>1, <1>2, <1>3, MessageIs
  <2>3. stackbox[1].of # stackbox[i + 1].of
    BY <2>1, <1>1, <1>3
  <2> QED BY <2>1, <2>2, <2>3
<1>9. \A i, j \in 1..Len(stackbox') : stackbox'[i].of = stackbox'[j].of /\ stackbox'[i].type # "packet" => i = j
  BY <1>2, <1>6
<1>10. \A i \in 1..Len(stackbox') : stackbox'[i].type = "timeout" => stackbox'[i].of \notin Runs(timeouts)'
  BY <1>2, <1>8
<1>11. \A c \in Clients : client'[c] = "posted" <=> \E i \in 1..Len(stackbox') : stackbox'[i].of = c
  BY <1>2, <1>7
<1> QED BY <1>2, <1>9, <1>10, <1>11 DEF BoxInv

\* The box stays, and no timer that a message is to set runs.
LEMMA BoxStays ==
    ASSUME BoxInv, UNCHANGED stackbox,
           client' \in [Clients -> {"idle", "posts", "posted", "pending", "signalled"}],
           \A c \in Clients : client'[c] = "posted" <=> client[c] = "posted",
           \A h \in DOMAIN UserTimers : h \in Runs(timeouts)' => h \in Runs(timeouts)
    PROVE  BoxInv'
<1>1. \A i \in 1..Len(stackbox) : stackbox[i] \in Message
  BY DEF BoxInv
<1>2. \A i \in 1..Len(stackbox) : stackbox[i].type = "timeout" => stackbox[i].of \notin Runs(timeouts)'
  BY <1>1, MessageIs DEF BoxInv
<1> QED BY <1>2 DEF BoxInv

-----------------------------------------------------------------------------
(* The steps *)

LEMMA StackTickKeeps ==
    ASSUME StackInv, StackTick
    PROVE  StackInv'
<1>1. /\ timeouts \in Seq(Timeout) /\ left \in [AllTimers -> Nat] /\ waited \in Nat
      /\ DOMAIN Cyclic \subseteq Runs(timeouts) /\ waited <= timeouts[1].time
      /\ left' = [h \in AllTimers |-> IF left[h] = 0 THEN 0 ELSE left[h] - 1]
      /\ (waited < timeouts[1].time /\ waited' = waited + 1) \/ waited' = waited
      /\ UNCHANGED <<timeouts, pcbs, tcp_active, stackbox, client>>
  BY DEF StackInv, TimersInv, StackTick
<1> DEFINE n == Len(timeouts)
<1>2. n \in Nat /\ 1 \in 1..n /\ timeouts[1].time \in Nat /\ \A i \in 1..n : timeouts[i].h \in AllTimers
  BY <1>1, ListIsNotEmpty, TimeoutFields
<1>3. left' \in [AllTimers -> Nat] /\ \A h \in AllTimers : left[h] \in Nat /\ left'[h] = IF left[h] = 0 THEN 0 ELSE left[h] - 1
  <2>1. \A h \in AllTimers : left[h] \in Nat
    BY <1>1
  <2>2. \A h \in AllTimers : (IF left[h] = 0 THEN 0 ELSE left[h] - 1) \in Nat
    BY <2>1
  <2> QED BY <2>1, <2>2, <1>1
<1>4. waited' \in Nat /\ waited' <= timeouts'[1].time
  BY <1>1, <1>2
<1>5. Lasts(timeouts, left', waited')
  <2>1. \A i \in 1..n : TimeTo(timeouts, i) - waited >= left[timeouts[i].h]
    BY DEF StackInv, TimersInv, Lasts
  <2>2. \A i \in 1..n : TimeTo(timeouts, i) \in Nat /\ TimeTo(timeouts, i) >= timeouts[1].time
    <3>1. TimeTo(timeouts, 1) = TimeTo(timeouts, 1 - 1) + timeouts[1].time /\ TimeTo(timeouts, 0) = 0
      BY <1>1, <1>2, TimeToIs
    <3>2. TimeTo(timeouts, 1) = timeouts[1].time
      BY <3>1, <1>2
    <3>3. \A i \in 0..n : TimeTo(timeouts, i) \in Nat /\ \A j \in i..n : TimeTo(timeouts, i) <= TimeTo(timeouts, j)
      BY <1>1, TimesGrow
    <3> HIDE DEF n
    <3>4. \A i \in 1..n : i \in 0..n /\ 1 \in 0..n /\ i \in 1..n
      BY <1>2
    <3> QED BY <3>2, <3>3, <3>4
  <2> HIDE DEF n
  <2>3. ASSUME NEW i \in 1..n PROVE TimeTo(timeouts, i) - waited' >= left'[timeouts[i].h]
    <3>1. /\ timeouts[i].h \in AllTimers /\ left[timeouts[i].h] \in Nat
          /\ left'[timeouts[i].h] = IF left[timeouts[i].h] = 0 THEN 0 ELSE left[timeouts[i].h] - 1
      BY <1>2, <1>3
    <3>2. TimeTo(timeouts, i) \in Nat /\ TimeTo(timeouts, i) >= timeouts[1].time /\ TimeTo(timeouts, i) - waited >= left[timeouts[i].h]
      BY <2>1, <2>2
    <3>3. CASE waited' = waited
      BY <3>1, <3>2, <3>3, <1>1
    <3>4. CASE waited < timeouts[1].time /\ waited' = waited + 1
      BY <3>1, <3>2, <3>4, <1>1, <1>2
    <3> QED BY <3>3, <3>4, <1>1
  <2> QED BY <2>3 DEF Lasts, n
<1>6. Lasts(timeouts, left, waited)' /\ Distinct(timeouts)' /\ Runs(timeouts)' = Runs(timeouts)
  <2>1. Lasts(timeouts, left, waited)' = Lasts(timeouts', left', waited')
    BY DEF Lasts
  <2>2. Lasts(timeouts, left, waited)'
    BY <2>1, <1>1, <1>5
  <2>3. Distinct(timeouts)' /\ Runs(timeouts)' = Runs(timeouts)
    BY <1>1 DEF Distinct, Runs, StackInv, TimersInv
  <2> QED BY <2>2, <2>3
<1>7. Covers(timeouts, left)'
  <2>1. \A h \in AllTimers : left'[h] > 0 => left[h] > 0
    BY <1>3
  <2> QED BY <2>1, <1>6 DEF Covers, StackInv, TimersInv
<1>8. TimersInv'
  BY <1>1, <1>3, <1>4, <1>6, <1>7 DEF StackInv, TimersInv
<1>9. BoxInv'
  BY <1>1, <1>6 DEF StackInv, BoxInv
<1> QED BY <1>8, <1>9 DEF StackInv

\* What a packet, a call or tcpip_tcp_timer starts: the timer of TCP, once.
LEMMA RegistersKeeps ==
    ASSUME NEW list, left \in [AllTimers -> Nat], Good(list, left), Covers(list, left), Runs(list) = Runs(timeouts),
           DOMAIN Cyclic \subseteq Runs(timeouts), tcp_active \in BOOLEAN, pcbs \in BOOLEAN,
           tcp_active <=> TcpTimer \in Runs(timeouts), pcbs => tcp_active,
           waited' = 0, Registers(list, left)
    PROVE  TimersInv' /\ \A h \in DOMAIN UserTimers : h \in Runs(timeouts)' => h \in Runs(timeouts)
<1>1. CASE timeouts' = list /\ left' = left /\ UNCHANGED tcp_active /\ pcbs' \in BOOLEAN /\ (pcbs' => tcp_active)
  <2>1. Good(timeouts', left') /\ Covers(timeouts', left') /\ Runs(timeouts') = Runs(timeouts)
    BY <1>1
  <2>2. TimersInv'
    BY <2>1, <1>1, FreshTimers
  <2>3. Runs(timeouts)' = Runs(timeouts')
    BY DEF Runs
  <2> QED BY <2>1, <2>2, <2>3
<1>2. CASE /\ pcbs' = TRUE /\ ~tcp_active /\ tcp_active' = TRUE
           /\ timeouts' = SysTimeout(list, TcpTimer, TcpInterval)
           /\ left' = [left EXCEPT ![TcpTimer] = TcpInterval]
  <2>1. TcpTimer \in AllTimers /\ TcpInterval \in Nat /\ TcpTimer \notin DOMAIN UserTimers
    BY StackAssumption DEF AllTimers
  <2>2. /\ left' \in [AllTimers -> Nat] /\ left'[TcpTimer] <= TcpInterval
        /\ \A g \in AllTimers : g # TcpTimer => left'[g] = left[g]
    BY <2>1, <1>2
  <2>3. Good(timeouts', left') /\ Runs(timeouts') = Runs(list) \cup {TcpTimer}
    <3>1. PICK r : r = SysTimeout(list, TcpTimer, TcpInterval)
      OBVIOUS
    <3>2. Good(r, left') /\ Runs(r) = Runs(list) \cup {TcpTimer}
      <4>1. TcpTimer \notin Runs(list)
        BY <1>2
      <4> QED BY <4>1, <2>1, <2>2, <3>1, Added
    <3> QED BY <3>1, <3>2, <1>2
  <2>4. Covers(timeouts', left')
    BY <2>2, <2>3 DEF Covers
  <2>5. TimersInv'
    BY <2>2, <2>3, <2>4, <1>2, FreshTimers
  <2>6. Runs(timeouts)' = Runs(timeouts')
    BY DEF Runs
  <2> QED BY <2>1, <2>3, <2>5, <2>6
<1> QED BY <1>1, <1>2 DEF Registers

LEMMA NextMessageKeeps ==
    ASSUME StackInv, NextMessage
    PROVE  StackInv'
<1> DEFINE m == stackbox[1]
           list == [timeouts EXCEPT ![1].time = @ - waited]
<1>1. /\ timeouts \in Seq(Timeout) /\ left \in [AllTimers -> Nat] /\ waited \in Nat
      /\ DOMAIN Cyclic \subseteq Runs(timeouts) /\ waited <= timeouts[1].time
      /\ Distinct(timeouts) /\ Lasts(timeouts, left, waited) /\ Covers(timeouts, left)
      /\ tcp_active \in BOOLEAN /\ pcbs \in BOOLEAN /\ (tcp_active <=> TcpTimer \in Runs(timeouts)) /\ (pcbs => tcp_active)
  BY DEF StackInv, TimersInv
<1>2. Good(list, left) /\ Runs(list) = Runs(timeouts) /\ Covers(list, left)
  <2>1. timeouts # <<>>
    BY <1>1, ListIsNotEmpty
  <2>2. Good(list, left) /\ Runs(list) = Runs(timeouts)
    BY <2>1, <1>1, Waited
  <2> HIDE DEF list
  <2> QED BY <2>2, <1>1 DEF Covers
<1>3. m \in Message /\ stackbox # <<>> /\ stackbox' = Tail(stackbox) /\ waited' = 0 /\ Head(stackbox) = m
      /\ client \in [Clients -> {"idle", "posts", "posted", "pending", "signalled"}]
  <2>1. stackbox \in Seq(Message) /\ stackbox # <<>>
    BY DEF StackInv, BoxInv, NextMessage
  <2> QED BY <2>1 DEF StackInv, BoxInv, NextMessage
<1>4. \/ /\ m.type = "api" /\ \E now \in {"signalled", "pending"} : client' = [client EXCEPT ![m.of] = now]
         /\ Registers(list, left)
      \/ m.type = "packet" /\ Completes(client) /\ Registers(list, left)
      \/ /\ m.type = "timeout" /\ timeouts' = SysTimeout(list, m.of, UserTimers[m.of])
         /\ left' = [left EXCEPT ![m.of] = UserTimers[m.of]]
         /\ UNCHANGED <<pcbs, tcp_active, client>>
      \/ /\ m.type = "untimeout" /\ timeouts' = SysUntimeout(list, m.of)
         /\ left' = [left EXCEPT ![m.of] = 0]
         /\ UNCHANGED <<pcbs, tcp_active, client>>
  <2>1. m.type = "api" \/ m.type = "packet" \/ m.type = "timeout" \/ m.type = "untimeout"
    BY <1>3, MessageIs
  <2>2. CASE m.type = "api"
    BY <2>2, <1>3 DEF NextMessage
  <2>3. CASE m.type = "packet"
    BY <2>3, <1>3 DEF NextMessage
  <2>4. CASE m.type = "timeout"
    BY <2>4, <1>3 DEF NextMessage
  <2>5. CASE m.type = "untimeout"
    BY <2>5, <1>3 DEF NextMessage
  <2> QED BY <2>1, <2>2, <2>3, <2>4, <2>5
<1>5. Runs(timeouts)' = Runs(timeouts')
  BY DEF Runs
<1> HIDE DEF m, list
<1>6. CASE /\ m.type = "api" /\ Registers(list, left)
           /\ \E now \in {"signalled", "pending"} : client' = [client EXCEPT ![m.of] = now]
  <2>1. TimersInv' /\ \A h \in DOMAIN UserTimers : h \in Runs(timeouts)' => h \in Runs(timeouts)
    BY <1>1, <1>2, <1>3, <1>6, RegistersKeeps
  <2>2. client' \in [Clients -> {"idle", "posts", "posted", "pending", "signalled"}]
    BY <1>3, <1>6
  <2>3. m.of \in Clients /\ client[m.of] = "posted" /\ client'[m.of] # "posted" /\ \A c \in Clients : c # m.of => client'[c] = client[c]
    <3>1. m.of \in Clients
      BY <1>3, <1>6, MessageIs
    <3>2. 1 \in 1..Len(stackbox)
      BY <1>3 DEF StackInv, BoxInv
    <3>3. client[m.of] = "posted"
      BY <3>1, <3>2 DEF StackInv, BoxInv, m
    <3> QED BY <3>1, <3>3, <1>3, <1>6
  <2>4. \A c \in Clients : client'[c] = "posted" <=> client[c] = "posted" /\ c # m.of
    BY <2>3
  <2>5. BoxInv'
    BY <2>1, <2>2, <2>4, <1>3, Received DEF StackInv, m
  <2> QED BY <2>1, <2>5 DEF StackInv
<1>7. CASE m.type = "packet" /\ Completes(client) /\ Registers(list, left)
  <2>1. TimersInv' /\ \A h \in DOMAIN UserTimers : h \in Runs(timeouts)' => h \in Runs(timeouts)
    BY <1>1, <1>2, <1>3, <1>7, RegistersKeeps
  <2>2. client' \in [Clients -> {"idle", "posts", "posted", "pending", "signalled"}]
        /\ \A c \in Clients : client'[c] = "posted" <=> client[c] = "posted"
    BY <1>3, <1>7 DEF Completes
  <2>3. m.of \notin Clients
    BY <1>3, <1>7, MessageIs
  <2>4. \A c \in Clients : client'[c] = "posted" <=> client[c] = "posted" /\ c # m.of
    BY <2>2, <2>3
  <2>5. BoxInv'
    BY <2>1, <2>2, <2>4, <1>3, Received DEF StackInv, m
  <2> QED BY <2>1, <2>5 DEF StackInv
<1>8. ASSUME m.type \in {"timeout", "untimeout"}, UNCHANGED <<pcbs, tcp_active, client>>, TimersInv',
             Runs(timeouts') \subseteq Runs(timeouts) \cup {m.of}
      PROVE  StackInv'
  <2>1. m.of \notin Clients
    BY <1>3, <1>8, MessageIs
  <2>2. BoxInv'
    BY <2>1, <1>3, <1>5, <1>8, Received DEF StackInv, m
  <2> QED BY <2>2, <1>8 DEF StackInv
<1>9. CASE /\ m.type = "timeout" /\ timeouts' = SysTimeout(list, m.of, UserTimers[m.of])
           /\ left' = [left EXCEPT ![m.of] = UserTimers[m.of]]
           /\ UNCHANGED <<pcbs, tcp_active, client>>
  <2>1. m.of \in AllTimers /\ m.of \in DOMAIN UserTimers /\ UserTimers[m.of] \in Nat /\ m.of # TcpTimer
    BY <1>3, <1>9, MessageIs
  <2>2. m.of \notin Runs(list)
    <3>1. 1 \in 1..Len(stackbox)
      BY <1>3 DEF StackInv, BoxInv
    <3> QED BY <3>1, <1>2, <1>9 DEF StackInv, BoxInv, m
  <2>3. /\ left' \in [AllTimers -> Nat] /\ left'[m.of] <= UserTimers[m.of]
        /\ \A g \in AllTimers : g # m.of => left'[g] = left[g]
    BY <2>1, <1>1, <1>9
  <2>4. Good(timeouts', left') /\ Runs(timeouts') = Runs(list) \cup {m.of}
    <3>1. PICK r : r = SysTimeout(list, m.of, UserTimers[m.of])
      OBVIOUS
    <3>2. Good(r, left') /\ Runs(r) = Runs(list) \cup {m.of}
      BY <2>1, <2>2, <2>3, <3>1, <1>1, <1>2, Added
    <3> QED BY <3>1, <3>2, <1>9
  <2>5. Covers(timeouts', left')
    BY <2>3, <2>4, <1>2 DEF Covers
  <2>6. TimersInv'
    BY <2>1, <2>3, <2>4, <2>5, <1>1, <1>2, <1>3, <1>9, FreshTimers
  <2> QED BY <2>4, <2>6, <1>2, <1>8, <1>9
<1>10. CASE /\ m.type = "untimeout" /\ timeouts' = SysUntimeout(list, m.of)
            /\ left' = [left EXCEPT ![m.of] = 0]
            /\ UNCHANGED <<pcbs, tcp_active, client>>
  <2>1. m.of \in AllTimers /\ m.of \in DOMAIN UserTimers /\ m.of \notin DOMAIN Cyclic /\ m.of # TcpTimer
    BY <1>3, <1>10, MessageIs
  <2>3. /\ left' \in [AllTimers -> Nat] /\ left'[m.of] = 0
        /\ \A g \in AllTimers : g # m.of => left'[g] = left[g]
    BY <2>1, <1>1, <1>10
  <2>4. Good(timeouts', left') /\ Runs(timeouts') = Runs(list) \ {m.of}
    <3>1. PICK r : r = SysUntimeout(list, m.of)
      OBVIOUS
    <3>2. r \in Seq(Timeout) /\ Distinct(r) /\ Runs(r) = Runs(list) \ {m.of} /\ Lasts(r, left', 0)
      BY <2>1, <2>3, <3>1, <1>1, <1>2, Removed
    <3> QED BY <3>1, <3>2, <1>10 DEF Good
  <2>5. Covers(timeouts', left')
    BY <2>3, <2>4, <1>2 DEF Covers
  <2>6. TimersInv'
    BY <2>1, <2>3, <2>4, <2>5, <1>1, <1>2, <1>3, <1>10, FreshTimers
  <2> QED BY <2>4, <2>6, <1>2, <1>8, <1>10
<1> QED BY <1>4, <1>6, <1>7, <1>9, <1>10

LEMMA TimeoutDueKeeps ==
    ASSUME StackInv, TimeoutDue
    PROVE  StackInv'
<1> DEFINE h == timeouts[1].h
           rest == Tail(timeouts)
<1>1. /\ timeouts \in Seq(Timeout) /\ left \in [AllTimers -> Nat] /\ waited \in Nat
      /\ DOMAIN Cyclic \subseteq Runs(timeouts)
      /\ Distinct(timeouts) /\ Lasts(timeouts, left, waited) /\ Covers(timeouts, left)
      /\ tcp_active \in BOOLEAN /\ pcbs \in BOOLEAN /\ (tcp_active <=> TcpTimer \in Runs(timeouts)) /\ (pcbs => tcp_active)
      /\ client \in [Clients -> {"idle", "posts", "posted", "pending", "signalled"}]
  BY DEF StackInv, TimersInv, BoxInv
<1>2. waited = timeouts[1].time /\ waited' = 0 /\ UNCHANGED stackbox
  BY DEF TimeoutDue
<1>3. Good(rest, left) /\ Runs(rest) = Runs(timeouts) \ {h} /\ left[h] = 0 /\ h \in AllTimers
  <2>1. timeouts # <<>>
    BY <1>1, ListIsNotEmpty
  <2> QED BY <2>1, <1>1, <1>2, FirstCalled
<1>4. h \in Runs(timeouts)
  <2>1. 1 \in 1..Len(timeouts)
    BY <1>1, ListIsNotEmpty
  <2> QED BY <2>1 DEF Runs
<1>5. /\ h \in DOMAIN Cyclic => /\ timeouts' = SysTimeout(rest, h, Cyclic[h])
                                /\ left' = [left EXCEPT ![h] = Cyclic[h]]
                                /\ UNCHANGED <<pcbs, tcp_active, client>>
      /\ h \notin DOMAIN Cyclic /\ h # TcpTimer => timeouts' = rest /\ UNCHANGED <<left, pcbs, tcp_active, client>>
      /\ h \notin DOMAIN Cyclic /\ h = TcpTimer =>
            /\ Completes(client) /\ pcbs' \in {pcbs, FALSE} /\ tcp_active' = pcbs'
            /\ timeouts' = IF pcbs' THEN SysTimeout(rest, h, TcpInterval) ELSE rest
            /\ left' = [left EXCEPT ![h] = IF pcbs' THEN TcpInterval ELSE 0]
  BY DEF TimeoutDue
<1>6. Runs(timeouts)' = Runs(timeouts')
  BY DEF Runs
<1> HIDE DEF h, rest
<1>7. ASSUME TimersInv', Runs(timeouts') \subseteq Runs(timeouts),
             client' = client \/ Completes(client)
      PROVE  StackInv'
  <2>1. client' \in [Clients -> {"idle", "posts", "posted", "pending", "signalled"}]
        /\ \A c \in Clients : client'[c] = "posted" <=> client[c] = "posted"
    BY <1>1, <1>7 DEF Completes
  <2>2. BoxInv'
    BY <2>1, <1>2, <1>6, <1>7, BoxStays DEF StackInv
  <2> QED BY <2>2, <1>7 DEF StackInv
\* A timer that is set again
<1>8. ASSUME NEW msecs \in Nat, timeouts' = SysTimeout(rest, h, msecs), left' = [left EXCEPT ![h] = msecs],
             tcp_active' \in BOOLEAN, pcbs' \in BOOLEAN, tcp_active' = tcp_active, pcbs' => tcp_active'
      PROVE  TimersInv' /\ Runs(timeouts') = Runs(timeouts)
  <2>1. /\ left' \in [AllTimers -> Nat] /\ left'[h] <= msecs
        /\ \A g \in AllTimers : g # h => left'[g] = left[g]
    BY <1>1, <1>3, <1>8
  <2>2. Good(timeouts', left') /\ Runs(timeouts') = Runs(rest) \cup {h}
    <3>1. PICK r : r = SysTimeout(rest, h, msecs)
      OBVIOUS
    <3>2. Good(r, left') /\ Runs(r) = Runs(rest) \cup {h}
      <4>1. h \notin Runs(rest) /\ h \in AllTimers /\ Good(rest, left) /\ left \in [AllTimers -> Nat]
        BY <1>1, <1>3
      <4> QED BY <4>1, <2>1, <3>1, Added
    <3> QED BY <3>1, <3>2, <1>8
  <2>3. Runs(timeouts') = Runs(timeouts)
    BY <2>2, <1>3, <1>4
  <2>4. Covers(timeouts', left')
    BY <2>1, <2>3, <1>1, <1>4 DEF Covers
  <2>5. TimersInv'
    BY <2>1, <2>2, <2>3, <2>4, <1>1, <1>2, <1>8, FreshTimers
  <2> QED BY <2>3, <2>5
\* A timer that is not
<1>9. ASSUME timeouts' = rest, left' = left, h \notin DOMAIN Cyclic,
             tcp_active' \in BOOLEAN, pcbs' \in BOOLEAN, tcp_active' <=> tcp_active /\ h # TcpTimer, pcbs' => tcp_active'
      PROVE  TimersInv' /\ Runs(timeouts') \subseteq Runs(timeouts)
  <2>1. Good(timeouts', left') /\ Runs(timeouts') = Runs(timeouts) \ {h} /\ left' \in [AllTimers -> Nat]
    BY <1>1, <1>3, <1>9
  <2>2. Covers(timeouts', left')
    BY <2>1, <1>1, <1>3, <1>9 DEF Covers
  <2>3. TimersInv'
    BY <2>1, <2>2, <1>1, <1>2, <1>9, FreshTimers
  <2> QED BY <2>1, <2>3
<1>10. CASE h \in DOMAIN Cyclic
  <2>1. Cyclic[h] \in Nat
    BY <1>10, StackAssumption
  <2>2. TimersInv' /\ Runs(timeouts') = Runs(timeouts)
    BY <2>1, <1>1, <1>5, <1>8, <1>10
  <2> QED BY <2>2, <1>5, <1>7, <1>10
<1>11. CASE h \notin DOMAIN Cyclic /\ h # TcpTimer
  <2>1. TimersInv' /\ Runs(timeouts') \subseteq Runs(timeouts)
    BY <1>1, <1>5, <1>9, <1>11
  <2> QED BY <2>1, <1>5, <1>7, <1>11
<1>12. CASE h \notin DOMAIN Cyclic /\ h = TcpTimer /\ pcbs'
  <2>1. TcpInterval \in Nat
    BY StackAssumption
  <2>2. pcbs /\ pcbs' = TRUE /\ tcp_active' = TRUE /\ tcp_active = TRUE
    BY <1>1, <1>5, <1>12
  <2>3. timeouts' = SysTimeout(rest, h, TcpInterval) /\ left' = [left EXCEPT ![h] = TcpInterval]
    BY <1>5, <1>12
  <2>4. TimersInv' /\ Runs(timeouts') = Runs(timeouts)
    BY <2>1, <2>2, <2>3, <1>8
  <2> QED BY <2>4, <1>5, <1>7, <1>12
<1>13. CASE h \notin DOMAIN Cyclic /\ h = TcpTimer /\ ~pcbs'
  <2>1. pcbs' = FALSE /\ tcp_active' = FALSE /\ timeouts' = rest
    BY <1>1, <1>5, <1>13
  <2>2. left' = left
    BY <1>1, <1>3, <1>5, <1>13
  <2>3. TimersInv' /\ Runs(timeouts') \subseteq Runs(timeouts)
    BY <2>1, <2>2, <1>9, <1>13
  <2> QED BY <2>3, <1>5, <1>7, <1>13
<1> QED BY <1>10, <1>11, <1>12, <1>13

LEMMA OthersKeep ==
    ASSUME StackInv, (\E c \in Clients : CallStack(c) \/ PostCall(c) \/ CallReturns(c)) \/ PacketIn
                     \/ (\E h \in DOMAIN UserTimers : UserTimer(h))
    PROVE  StackInv'
<1>1. client \in [Clients -> {"idle", "posts", "posted", "pending", "signalled"}] /\ stackbox \in Seq(Message)
  BY DEF StackInv, BoxInv
<1>2. Runs(timeouts)' = Runs(timeouts')
  BY DEF Runs
<1>3. ASSUME NEW c \in Clients, CallStack(c) PROVE StackInv'
  <2>1. TimersInv'
    BY <1>3, BoxKeepsTimers DEF StackInv, CallStack
  <2>2. client' \in [Clients -> {"idle", "posts", "posted", "pending", "signalled"}]
        /\ \A d \in Clients : client'[d] = "posted" <=> client[d] = "posted"
    BY <1>1, <1>3 DEF CallStack
  <2>3. BoxInv'
    BY <2>2, <1>2, <1>3, BoxStays DEF StackInv, CallStack
  <2> QED BY <2>1, <2>3 DEF StackInv
<1>4. ASSUME NEW c \in Clients, CallReturns(c) PROVE StackInv'
  <2>1. TimersInv'
    BY <1>4, BoxKeepsTimers DEF StackInv, CallReturns
  <2>2. client' \in [Clients -> {"idle", "posts", "posted", "pending", "signalled"}]
        /\ \A d \in Clients : client'[d] = "posted" <=> client[d] = "posted"
    BY <1>1, <1>4 DEF CallReturns
  <2>3. BoxInv'
    BY <2>2, <1>2, <1>4, BoxStays DEF StackInv, CallReturns
  <2> QED BY <2>1, <2>3 DEF StackInv
<1>5. ASSUME NEW c \in Clients, PostCall(c) PROVE StackInv'
  <2> DEFINE m == [type |-> "api", of |-> c]
  <2>1. TimersInv'
    BY <1>5, BoxKeepsTimers DEF StackInv, PostCall, Post
  <2>2. m \in Message /\ m.of = c /\ m.type = "api"
    BY DEF Message
  <2>3. Post(m) /\ UNCHANGED timeouts /\ client[c] = "posts" /\ client' = [client EXCEPT ![c] = "posted"]
    BY <1>5 DEF PostCall
  <2> HIDE DEF m
  <2>4. client' \in [Clients -> {"idle", "posts", "posted", "pending", "signalled"}]
        /\ \A d \in Clients : client'[d] = "posted" <=> client[d] = "posted" \/ d = m.of
    BY <2>2, <2>3, <1>1
  <2>5. \A i \in 1..Len(stackbox) : stackbox[i].of # m.of
    BY <2>2, <2>3 DEF StackInv, BoxInv
  <2>6. BoxInv'
    BY <2>2, <2>3, <2>4, <2>5, Posted
  <2> QED BY <2>1, <2>6 DEF StackInv
<1>6. ASSUME PacketIn PROVE StackInv'
  <2> DEFINE m == [type |-> "packet", of |-> TcpTimer]
  <2>1. TimersInv'
    BY <1>6, BoxKeepsTimers DEF StackInv, PacketIn, Post
  <2>2. m \in Message /\ m.of = TcpTimer /\ m.type = "packet"
    BY DEF Message
  <2>3. Post(m) /\ UNCHANGED <<timeouts, client>>
    BY <1>6 DEF PacketIn
  <2> HIDE DEF m
  <2>4. \A d \in Clients : client'[d] = "posted" <=> client[d] = "posted" \/ d = m.of
    BY <2>2, <2>3, MessageIs
  <2>6. BoxInv'
    BY <2>2, <2>3, <2>4, <1>1, Posted
  <2> QED BY <2>1, <2>6 DEF StackInv
<1>7. ASSUME NEW h \in DOMAIN UserTimers, UserTimer(h) PROVE StackInv'
  <2> DEFINE m == [type |-> IF IsSet(h) THEN "untimeout" ELSE "timeout", of |-> h]
  <2>1. TimersInv'
    BY <1>7, BoxKeepsTimers DEF StackInv, UserTimer, Post
  <2>2. m \in Message /\ m.of = h /\ (m.type = "timeout" => ~IsSet(h)) /\ m.type \in {"timeout", "untimeout"}
    BY DEF Message
  <2>3. Post(m) /\ UNCHANGED <<timeouts, client>> /\ ~IsAsked(h)
    BY <1>7 DEF UserTimer
  <2> HIDE DEF m
  <2>4. \A d \in Clients : client'[d] = "posted" <=> client[d] = "posted" \/ d = m.of
    BY <2>2, <2>3, MessageIs
  <2>5. \A i \in 1..Len(stackbox) : stackbox[i].of # m.of
    BY <2>2, <2>3, <1>1 DEF IsAsked
  <2>6. m.type = "timeout" => m.of \notin Runs(timeouts)
    <3>1. timeouts \in Seq(Timeout)
      BY DEF StackInv, TimersInv
    <3> QED BY <3>1, <2>2 DEF IsSet, Runs
  <2>7. BoxInv'
    BY <2>2, <2>3, <2>4, <2>5, <2>6, <1>1, Posted
  <2> QED BY <2>1, <2>7 DEF StackInv
<1> QED BY <1>3, <1>4, <1>5, <1>6, <1>7

-----------------------------------------------------------------------------
(* Where it starts: sys_timeouts_init *)

LEMMA InOrder ==
    ASSUME NEW S, IsFiniteSet(S), NEW order, order = SetToSeq(S)
    PROVE  /\ Len(order) \in Nat /\ \A i \in 1..Len(order) : order[i] \in S
           /\ \A i, j \in 1..Len(order) : order[i] = order[j] => i = j
           /\ \A h \in S : \E i \in 1..Len(order) : order[i] = h
<1> DEFINE n == Cardinality(S)
<1>1. PICK k \in Nat : ExistsBijection(1..k, S)
  BY FS_NatBijection
<1>2. n = k
  BY <1>1, FS_CountingElements
<1>3. PICK b : b \in Bijection(1..n, S)
  BY <1>1, <1>2 DEF ExistsBijection
<1>4. b \in [1..n -> S] /\ IsInjective(b)
  BY <1>3 DEF Bijection, Injection, IsInjective
<1>5. order \in [1..n -> S] /\ IsInjective(order)
  BY <1>4 DEF SetToSeq
<1>6. n \in Nat
  BY <1>2
<1> HIDE DEF n
<1>7. Len(order) = n
  BY <1>5, <1>6
<1>8. /\ \A i \in 1..n : order[i] \in S
      /\ \A i, j \in 1..n : order[i] = order[j] => i = j
  BY <1>5 DEF IsInjective
<1> DEFINE T == {order[i] : i \in 1..n}
<1>9. T \subseteq S
  BY <1>8
<1>10. order \in Bijection(1..n, T)
  <2>1. order \in [1..n -> T]
    BY <1>5
  <2>2. order \in Injection(1..n, T)
    BY <2>1, <1>5 DEF Injection, IsInjective
  <2>3. order \in Surjection(1..n, T)
    BY <2>1 DEF Surjection
  <2> QED BY <2>2, <2>3 DEF Bijection
<1> HIDE DEF T
<1>11. Cardinality(T) = n
  <2>1. ExistsBijection(1..n, T)
    BY <1>10 DEF ExistsBijection
  <2> QED BY <2>1, <1>6, FS_CountingElements
<1>12. S = T
  BY <1>9, <1>11, FS_Subset DEF n
<1> QED BY <1>6, <1>7, <1>8, <1>12 DEF T

\* t[n] is the list when the first n timers of the order are set.
Sets(t, order, n) ==
    /\ t[0] = <<>>
    /\ \A i \in 1..n : t[i] = SysTimeout(t[i - 1], order[i], Cyclic[order[i]])

LEMMA ListExists ==
    ASSUME NEW n \in Nat, NEW order, \A i \in 1..n : order[i] \in DOMAIN Cyclic
    PROVE  \E t \in [0..n -> Seq(Timeout)] : Sets(t, order, n)
<1> DEFINE No == {k \in 0..n : ~ \E t \in [0..k -> Seq(Timeout)] : Sets(t, order, k)}
<1>1. SUFFICES ASSUME No # {} PROVE FALSE
  <2>1. n \in 0..n
    OBVIOUS
  <2> QED BY <2>1, Zenon
<1>2. No \subseteq Nat
  OBVIOUS
<1>3. PICK k \in No : \A y \in No : k <= y
  <2> HIDE DEF No
  <2> QED BY <1>1, <1>2, LeastExists
<1>4. k # 0
  <2>1. SUFFICES ASSUME k = 0 PROVE FALSE
    OBVIOUS
  <2> DEFINE t == [i \in 0..0 |-> <<>>]
  <2>2. t \in [0..k -> Seq(Timeout)] /\ Sets(t, order, k)
    BY <2>1 DEF Sets
  <2> QED BY <2>2
<1>5. k - 1 \in 0..n /\ k - 1 \notin No /\ k \in 1..n
  <2>1. No \subseteq 0..n
    OBVIOUS
  <2> HIDE DEF No
  <2>2. k \in 0..n
    BY <2>1, <1>3
  <2>3. k - 1 \in 0..n /\ k \in 1..n
    BY <2>2, <1>4
  <2>4. k - 1 \notin No
    BY <2>2, <1>3
  <2> QED BY <2>3, <2>4
<1>6. PICK t \in [0..(k - 1) -> Seq(Timeout)] : Sets(t, order, k - 1)
  BY <1>5
<1> DEFINE new == SysTimeout(t[k - 1], order[k], Cyclic[order[k]])
           u == [i \in 0..k |-> IF i = k THEN new ELSE t[i]]
<1>7. new \in Seq(Timeout)
  <2>1. order[k] \in AllTimers /\ Cyclic[order[k]] \in Nat /\ t[k - 1] \in Seq(Timeout)
    BY <1>5, StackAssumption DEF AllTimers
  <2>2. PICK r : r = new
    OBVIOUS
  <2> HIDE DEF u
  <2>3. \E p \in 0..Len(t[k - 1]) : PutAt(r, t[k - 1], p, order[k], Cyclic[order[k]])
    BY <2>1, <2>2, SysTimeoutIs
  <2> QED BY <2>2, <2>3 DEF PutAt
<1>8. u \in [0..k -> Seq(Timeout)]
  <2> HIDE DEF new
  <2> QED BY <1>5, <1>7
<1>9. Sets(u, order, k)
  <2>1. u[0] = <<>>
    BY <1>5, <1>6 DEF Sets
  <2>2. ASSUME NEW i \in 1..k PROVE u[i] = SysTimeout(u[i - 1], order[i], Cyclic[order[i]])
    <3>1. CASE i = k
      <4>1. i - 1 \in 0..k /\ i - 1 # k /\ i \in 0..k
        BY <3>1, <1>5
      <4>2. u[i - 1] = t[i - 1] /\ u[i] = new
        BY <4>1, <3>1
      <4> QED BY <4>2, <3>1
    <3>2. CASE i # k
      <4>1. i \in 1..(k - 1) /\ i - 1 \in 0..k /\ i - 1 # k /\ i \in 0..k
        BY <3>2, <1>5
      <4>2. t[i] = SysTimeout(t[i - 1], order[i], Cyclic[order[i]])
        BY <4>1, <1>6 DEF Sets
      <4>3. u[i] = t[i] /\ u[i - 1] = t[i - 1]
        BY <4>1, <3>2
      <4> QED BY <4>2, <4>3
    <3> QED BY <3>1, <3>2
  <2> HIDE DEF u
  <2> QED BY <2>1, <2>2 DEF Sets
<1> QED BY <1>8, <1>9, <1>5, <1>3

FirstOf(order, n) == {order[i] : i \in 1..n}

LEMMA FirstList ==
    ASSUME NEW times \in [AllTimers -> Nat], \A h \in DOMAIN Cyclic : times[h] = Cyclic[h],
           NEW n \in Nat, NEW order, \A i \in 1..n : order[i] \in DOMAIN Cyclic,
           \A i, j \in 1..n : order[i] = order[j] => i = j,
           NEW t, Sets(t, order, n)
    PROVE  Good(t[n], times) /\ Runs(t[n]) = FirstOf(order, n)
<1> DEFINE OK(k) == Good(t[k], times) /\ Runs(t[k]) = {order[i] : i \in 1..k}
           No == {k \in 0..n : ~OK(k)}
<1>1. SUFFICES ASSUME No # {} PROVE FALSE
  BY DEF FirstOf
<1>2. No \subseteq Nat
  OBVIOUS
<1>3. PICK k \in No : \A y \in No : k <= y
  <2> HIDE DEF No
  <2> QED BY <1>1, <1>2, LeastExists
<1>4. k # 0
  <2>1. SUFFICES ASSUME k = 0 PROVE FALSE
    OBVIOUS
  <2>2. t[0] = <<>>
    BY DEF Sets
  <2>3. Good(<<>>, times) /\ Runs(<<>>) = {}
    BY DEF Good, Distinct, Lasts, Runs
  <2>4. OK(0)
    BY <2>2, <2>3
  <2> HIDE DEF OK
  <2> QED BY <2>1, <2>4, <1>3
<1>5. k - 1 \in 0..n /\ OK(k - 1) /\ k \in 1..n /\ k \in Nat
  <2> HIDE DEF OK
  <2> QED BY <1>3, <1>4
<1>6. t[k] = SysTimeout(t[k - 1], order[k], Cyclic[order[k]])
  BY <1>5 DEF Sets
<1>7. order[k] \in AllTimers /\ Cyclic[order[k]] \in Nat /\ times[order[k]] <= Cyclic[order[k]]
  <2>1. order[k] \in DOMAIN Cyclic
    BY <1>5
  <2>2. Cyclic[order[k]] \in Nat
    BY <2>1, StackAssumption
  <2> QED BY <2>1, <2>2 DEF AllTimers
<1>8. order[k] \notin Runs(t[k - 1])
  <2>1. \A i \in 1..(k - 1) : i \in 1..n /\ i # k
    BY <1>5
  <2> QED BY <2>1, <1>5
<1>9. Good(t[k], times) /\ Runs(t[k]) = Runs(t[k - 1]) \cup {order[k]}
  <2>1. Good(t[k - 1], times)
    BY <1>5
  <2>2. PICK l, r, h, m : l = t[k - 1] /\ r = t[k] /\ h = order[k] /\ m = Cyclic[order[k]]
    OBVIOUS
  <2> HIDE DEF OK, No
  <2>3. Good(l, times) /\ h \notin Runs(l) /\ h \in AllTimers /\ m \in Nat /\ times[h] <= m /\ r = SysTimeout(l, h, m)
    BY <2>1, <2>2, <1>6, <1>7, <1>8
  <2>4. Good(r, times) /\ Runs(r) = Runs(l) \cup {h}
    BY <2>3, Added
  <2> QED BY <2>2, <2>4
<1>10. Runs(t[k]) = {order[i] : i \in 1..k}
  <2>1. \A i \in 1..k : i \in 1..(k - 1) \/ i = k
    BY <1>5
  <2>2. (\A i \in 1..(k - 1) : i \in 1..k) /\ k \in 1..k
    BY <1>5
  <2> QED BY <2>1, <2>2, <1>5, <1>9
<1>11. OK(k)
  BY <1>9, <1>10
<1> HIDE DEF OK
<1> QED BY <1>3, <1>11

LEMMA StackStarts == StackInit => StackInv
<1> SUFFICES ASSUME StackInit PROVE StackInv
  OBVIOUS
<1> DEFINE order == SetToSeq(DOMAIN Cyclic)
           n == Len(order)
           Step(t) == [i \in 0..n |-> IF i = 0 THEN <<>> ELSE SysTimeout(t[i - 1], order[i], Cyclic[order[i]])]
           c == CHOOSE t : t = Step(t)
<1>1. timeouts = c[n]
  BY DEF StackInit
<1>2. /\ left = [h \in AllTimers |-> IF h \in DOMAIN Cyclic THEN Cyclic[h] ELSE 0]
      /\ pcbs = FALSE /\ tcp_active = FALSE /\ stackbox = <<>> /\ waited = 0
      /\ client = [d \in Clients |-> "idle"]
  BY DEF StackInit
<1>3. /\ n \in Nat /\ \A i \in 1..n : order[i] \in DOMAIN Cyclic
      /\ \A i, j \in 1..n : order[i] = order[j] => i = j
      /\ \A h \in DOMAIN Cyclic : \E i \in 1..n : order[i] = h
  <2> HIDE DEF order
  <2>1. IsFiniteSet(DOMAIN Cyclic) /\ order = SetToSeq(DOMAIN Cyclic)
    BY StackAssumption DEF order
  <2> QED BY <2>1, InOrder
<1> HIDE DEF order, n
<1>4. PICK t \in [0..n -> Seq(Timeout)] : Sets(t, order, n)
  BY <1>3, ListExists
<1>5. t = Step(t)
  <2>1. \A i \in 0..n : t[i] = IF i = 0 THEN <<>> ELSE SysTimeout(t[i - 1], order[i], Cyclic[order[i]])
    <3>1. \A i \in 0..n : i # 0 => i \in 1..n
      BY <1>3
    <3> QED BY <3>1, <1>4 DEF Sets
  <2> QED BY <2>1
<1>6. c = Step(c)
  <2> HIDE DEF Step
  <2> QED BY <1>5
<1> HIDE DEF c
<1>7. Sets(c, order, n)
  <2>1. 0 \in 0..n /\ \A i \in 1..n : i \in 0..n /\ i # 0
    BY <1>3
  <2>2. \A i \in 0..n : c[i] = IF i = 0 THEN <<>> ELSE SysTimeout(c[i - 1], order[i], Cyclic[order[i]])
    BY <1>6
  <2> HIDE DEF Step
  <2> QED BY <2>1, <2>2 DEF Sets
<1> HIDE DEF Step
<1>8. left \in [AllTimers -> Nat] /\ \A h \in AllTimers : left[h] = IF h \in DOMAIN Cyclic THEN Cyclic[h] ELSE 0
  <2>1. \A h \in DOMAIN Cyclic : Cyclic[h] \in Nat
    BY StackAssumption
  <2> QED BY <2>1, <1>2
<1>9. \A h \in DOMAIN Cyclic : left[h] = Cyclic[h]
  BY <1>8 DEF AllTimers
<1>10. Good(timeouts, left) /\ Runs(timeouts) = {order[i] : i \in 1..n}
  <2>1. Good(c[n], left) /\ Runs(c[n]) = FirstOf(order, n)
    <3>1. /\ left \in [AllTimers -> Nat] /\ n \in Nat /\ \A i \in 1..n : order[i] \in DOMAIN Cyclic
          /\ \A i, j \in 1..n : order[i] = order[j] => i = j
      BY <1>3, <1>8
    <3> QED BY <3>1, <1>7, <1>9, FirstList
  <2> QED BY <2>1, <1>1 DEF FirstOf
<1>11. Runs(timeouts) = DOMAIN Cyclic
  <2>1. {order[i] : i \in 1..n} \subseteq DOMAIN Cyclic
    BY <1>3
  <2>2. \A h \in DOMAIN Cyclic : h \in {order[i] : i \in 1..n}
    BY <1>3
  <2> QED BY <2>1, <2>2, <1>10
<1>12. timeouts \in Seq(Timeout) /\ Distinct(timeouts) /\ Lasts(timeouts, left, 0)
  BY <1>10 DEF Good
<1>13. timeouts[1].time \in Nat
  BY <1>11, <1>12, ListIsNotEmpty
<1>14. Covers(timeouts, left)
  BY <1>8, <1>11 DEF Covers
<1>15. TcpTimer \notin Runs(timeouts)
  BY <1>11, StackAssumption
<1>16. TimersInv
  <2>1. 0 <= timeouts[1].time
    BY <1>13
  <2> QED BY <2>1, <1>2, <1>8, <1>11, <1>12, <1>14, <1>15 DEF TimersInv
<1>17. BoxInv
  BY <1>2 DEF BoxInv
<1> QED BY <1>16, <1>17 DEF StackInv

LEMMA OneAtMost ==
    ASSUME NEW S, \A x, y \in S : x = y
    PROVE  Cardinality(S) = IF S = {} THEN 0 ELSE 1
<1>1. CASE S = {}
  BY <1>1, FS_EmptySet
<1>2. CASE S # {}
  <2>1. PICK x : S = {x}
    BY <1>2
  <2> QED BY <2>1, <1>2, FS_Singleton
<1> QED BY <1>1, <1>2

LEMMA StackInvSays == StackInv => TimersRunOn
<1> SUFFICES ASSUME StackInv PROVE TimersRunOn
  OBVIOUS
<1> DEFINE inList(h) == {i \in DOMAIN timeouts : timeouts[i].h = h}
           inBox(c)  == {i \in DOMAIN stackbox : stackbox[i].of = c}
<1>1. /\ timeouts \in Seq(Timeout) /\ left \in [AllTimers -> Nat] /\ DOMAIN timeouts = 1..Len(timeouts)
      /\ DOMAIN Cyclic \subseteq Runs(timeouts) /\ waited <= timeouts[1].time
      /\ Distinct(timeouts) /\ Lasts(timeouts, left, waited) /\ Covers(timeouts, left)
      /\ (tcp_active <=> TcpTimer \in Runs(timeouts)) /\ (pcbs => tcp_active)
  <2>1. timeouts \in Seq(Timeout)
    BY DEF StackInv, TimersInv
  <2> QED BY <2>1 DEF StackInv, TimersInv
<1>2. \A i \in DOMAIN timeouts : timeouts[i].time >= 0
  BY <1>1, TimeoutFields
<1>3. \A h : Cardinality(inList(h)) <= 1
  <2>1. TAKE h
  <2>2. \A i, j \in inList(h) : i = j
    BY <1>1 DEF Distinct
  <2> HIDE DEF inList
  <2>3. Cardinality(inList(h)) = IF inList(h) = {} THEN 0 ELSE 1
    BY <2>2, OneAtMost
  <2> QED BY <2>3
<1>4. \A h : inList(h) # {} <=> h \in Runs(timeouts)
  BY <1>1 DEF Runs
<1>5. \A h \in AllTimers : \A i \in inList(h) : TimeTo(timeouts, i) - waited >= left[h]
  BY <1>1 DEF Lasts
<1>6. \A h \in AllTimers : left[h] > 0 => inList(h) # {}
  BY <1>1, <1>4 DEF Covers
<1>7. \A c \in Clients : Cardinality(inBox(c)) = IF client[c] = "posted" THEN 1 ELSE 0
  <2>1. TAKE c \in Clients
  <2>2. DOMAIN stackbox = 1..Len(stackbox) /\ \A i \in 1..Len(stackbox) : stackbox[i] \in Message
    <3>1. stackbox \in Seq(Message)
      BY DEF StackInv, BoxInv
    <3> QED BY <3>1
  <2>3. \A i, j \in inBox(c) : i = j
    <3>1. \A i \in inBox(c) : stackbox[i].type # "packet"
      BY <2>2, MessageIs
    <3> QED BY <3>1, <2>2 DEF StackInv, BoxInv
  <2>4. client[c] = "posted" <=> inBox(c) # {}
    BY <2>2 DEF StackInv, BoxInv
  <2> HIDE DEF inBox
  <2>5. Cardinality(inBox(c)) = IF inBox(c) = {} THEN 0 ELSE 1
    BY <2>3, OneAtMost
  <2> QED BY <2>4, <2>5
<1>8. DOMAIN Cyclic \subseteq {timeouts[i].h : i \in DOMAIN timeouts}
  BY <1>1 DEF Runs
<1>9. tcp_active <=> inList(TcpTimer) # {}
  BY <1>1, <1>4
<1> QED BY <1>1, <1>2, <1>3, <1>5, <1>6, <1>7, <1>8, <1>9 DEF TimersRunOn

(* Whatever timers are set, cancelled and overtaken by messages, whatever   *)
(* their number and their times: each one that runs is in the list of the   *)
(* timeouts once and is not called before its time, the cyclic ones always  *)
(* run, TCP has its timer while there are pcbs, and a thread in a call is   *)
(* waited for by just one message.                                          *)
THEOREM TimersDoRunOn == StackSpec => []TimersRunOn
<1>1. StackInit => StackInv
  BY StackStarts
<1>2. StackInv /\ [StackNext]_stackVars => StackInv'
  <2> SUFFICES ASSUME StackInv, [StackNext]_stackVars PROVE StackInv'
    OBVIOUS
  <2>1. CASE UNCHANGED stackVars
    <3>1. UNCHANGED <<timeouts, left, pcbs, tcp_active, waited, stackbox, client>>
      BY <2>1 DEF stackVars
    <3>2. TimersInv'
      BY <3>1, BoxKeepsTimers DEF StackInv
    <3>3. Runs(timeouts)' = Runs(timeouts)
      BY <3>1 DEF Runs
    <3>4. BoxInv'
      BY <3>1, <3>3, BoxStays DEF StackInv, BoxInv
    <3> QED BY <3>2, <3>4 DEF StackInv
  <2>2. CASE (\E c \in Clients : CallStack(c) \/ PostCall(c) \/ CallReturns(c)) \/ PacketIn
             \/ (\E h \in DOMAIN UserTimers : UserTimer(h))
    BY <2>2, OthersKeep
  <2>3. CASE StackTick
    BY <2>3, StackTickKeeps
  <2>4. CASE NextMessage
    BY <2>4, NextMessageKeeps
  <2>5. CASE TimeoutDue
    BY <2>5, TimeoutDueKeeps
  <2> QED BY <2>1, <2>2, <2>3, <2>4, <2>5 DEF StackNext
<1>3. StackInv => TimersRunOn
  BY StackInvSays
<1> QED BY <1>1, <1>2, <1>3, PTL DEF StackSpec

-----------------------------------------------------------------------------
(***************************************************************************)
(* The reassembly of fragments                                             *)
(***************************************************************************)

(* Recursion along the naturals up to a bound *)

\* t starts with base and goes on by step.
Follows(t, base, step, n) == t[0] = base /\ \A i \in 1..n : t[i] = step[<<i, t[i - 1]>>]

LEMMA RecursionExists ==
    ASSUME NEW n \in Nat, NEW S, NEW base \in S, NEW step, \A i \in 1..n : \A x \in S : step[<<i, x>>] \in S
    PROVE  \E t \in [0..n -> S] : Follows(t, base, step, n)
<1> DEFINE No == {k \in 0..n : ~ \E t \in [0..k -> S] : Follows(t, base, step, k)}
<1>1. SUFFICES ASSUME No # {} PROVE FALSE
  <2>1. n \in 0..n
    OBVIOUS
  <2> QED BY <2>1, Zenon
<1>2. No \subseteq Nat /\ No \subseteq 0..n
  OBVIOUS
<1>3. PICK k \in No : \A y \in No : k <= y
  <2> HIDE DEF No
  <2> QED BY <1>1, <1>2, LeastExists
<1>4. k # 0
  <2>1. SUFFICES ASSUME k = 0 PROVE FALSE
    OBVIOUS
  <2> DEFINE t == [i \in 0..0 |-> base]
  <2>2. t \in [0..k -> S] /\ Follows(t, base, step, k)
    BY <2>1 DEF Follows
  <2> QED BY <2>2
<1>5. k - 1 \in 0..n /\ k - 1 \notin No /\ k \in 1..n
  <2> HIDE DEF No
  <2>2. k \in 0..n
    BY <1>2, <1>3
  <2>3. k - 1 \in 0..n /\ k \in 1..n
    BY <2>2, <1>4
  <2>4. k - 1 \notin No
    BY <2>2, <1>3
  <2> QED BY <2>3, <2>4
<1>6. PICK t \in [0..(k - 1) -> S] : Follows(t, base, step, k - 1)
  BY <1>5
<1> DEFINE u == [i \in 0..k |-> IF i = k THEN step[<<k, t[k - 1]>>] ELSE t[i]]
<1>7. step[<<k, t[k - 1]>>] \in S
  <2>1. t[k - 1] \in S
    BY <1>5
  <2> QED BY <2>1, <1>5
<1>8. u \in [0..k -> S]
  BY <1>5, <1>7
<1>9. Follows(u, base, step, k)
  <2>1. u[0] = base
    BY <1>5, <1>6 DEF Follows
  <2>2. ASSUME NEW i \in 1..k PROVE u[i] = step[<<i, u[i - 1]>>]
    <3>1. CASE i = k
      <4>1. i - 1 \in 0..k /\ i - 1 # k /\ i \in 0..k
        BY <3>1, <1>5
      <4>2. u[i - 1] = t[i - 1] /\ u[i] = step[<<k, t[k - 1]>>]
        BY <4>1, <3>1
      <4> QED BY <4>2, <3>1
    <3>2. CASE i # k
      <4>1. i \in 1..(k - 1) /\ i - 1 \in 0..k /\ i - 1 # k /\ i \in 0..k
        BY <3>2, <1>5
      <4>2. t[i] = step[<<i, t[i - 1]>>]
        BY <4>1, <1>6 DEF Follows
      <4>3. u[i] = t[i] /\ u[i - 1] = t[i - 1]
        BY <4>1, <3>2
      <4> QED BY <4>2, <4>3
    <3> QED BY <3>1, <3>2
  <2> HIDE DEF u
  <2> QED BY <2>1, <2>2 DEF Follows
<1> QED BY <1>8, <1>9, <1>5, <1>3

-----------------------------------------------------------------------------
(* How many pbufs a list holds *)

Frag  == [from : Nat, to : Nat, last : BOOLEAN]
Entry == [id : Datagrams, timer : Nat, chain : Seq(Frag), last : BOOLEAN]

LEMMA EntryFields ==
    ASSUME NEW list \in Seq(Entry)
    PROVE  /\ Len(list) \in Nat /\ DOMAIN list = 1..Len(list)
           /\ \A i \in 1..Len(list) :
                 /\ list[i] \in Entry /\ list[i].id \in Datagrams /\ list[i].timer \in Nat
                 /\ list[i].chain \in Seq(Frag) /\ Len(list[i].chain) \in Nat /\ list[i].last \in BOOLEAN
<1>1. Len(list) \in Nat /\ DOMAIN list = 1..Len(list) /\ \A i \in 1..Len(list) : list[i] \in Entry
  OBVIOUS
<1>2. \A e \in Entry : e.id \in Datagrams /\ e.timer \in Nat /\ e.chain \in Seq(Frag) /\ e.last \in BOOLEAN
  BY DEF Entry
<1>3. \A c \in Seq(Frag) : Len(c) \in Nat
  OBVIOUS
<1> QED BY <1>1, <1>2, <1>3

\* t counts the pbufs of a list up.
Counts(t, list) == t[0] = 0 /\ \A i \in 1..Len(list) : t[i] = t[i - 1] + Len(list[i].chain)

LEMMA HeldIs ==
    ASSUME NEW list \in Seq(Entry)
    PROVE  \E t \in [0..Len(list) -> Nat] : Counts(t, list) /\ Held(list) = t[Len(list)]
<1> DEFINE n == Len(list)
           step == [p \in (1..n) \X Nat |-> p[2] + Len(list[p[1]].chain)]
           Step(t) == [i \in 0..n |-> IF i = 0 THEN 0 ELSE t[i - 1] + Len(list[i].chain)]
           c == CHOOSE t : t = Step(t)
<1>1. n \in Nat /\ \A i \in 1..n : Len(list[i].chain) \in Nat
  BY EntryFields
<1>2. Held(list) = c[n]
  BY DEF Held
<1> HIDE DEF n
<1>3. \A i \in 1..n : \A x \in Nat : step[<<i, x>>] = x + Len(list[i].chain) /\ step[<<i, x>>] \in Nat
  BY <1>1
<1> HIDE DEF step
<1>4. PICK t \in [0..n -> Nat] : Follows(t, 0, step, n)
  BY <1>1, <1>3, RecursionExists
<1>5. \A i \in 1..n : i \in 0..n /\ i - 1 \in 0..n /\ i # 0
  BY <1>1
<1>6. t[0] = 0 /\ \A i \in 1..n : t[i] = t[i - 1] + Len(list[i].chain)
  BY <1>3, <1>4, <1>5 DEF Follows
<1>7. t = Step(t)
  <2>1. \A i \in 0..n : i = 0 \/ i \in 1..n
    BY <1>1
  <2>2. \A i \in 0..n : t[i] = IF i = 0 THEN 0 ELSE t[i - 1] + Len(list[i].chain)
    BY <2>1, <1>6
  <2> QED BY <2>2
<1>8. c = Step(c)
  <2> HIDE DEF Step
  <2> QED BY <1>7
<1> HIDE DEF c
<1>9. c[0] = 0 /\ \A i \in 1..n : c[i] = c[i - 1] + Len(list[i].chain)
  <2>1. 0 \in 0..n
    BY <1>1
  <2>2. \A i \in 0..n : c[i] = IF i = 0 THEN 0 ELSE c[i - 1] + Len(list[i].chain)
    BY <1>8
  <2> HIDE DEF Step
  <2> QED BY <2>1, <2>2, <1>5
<1> HIDE DEF Step
\* The two are the same.
<1> DEFINE No == {k \in 0..n : c[k] # t[k]}
<1>10. No = {}
  <2>1. SUFFICES ASSUME No # {} PROVE FALSE
    OBVIOUS
  <2>2. No \subseteq Nat
    OBVIOUS
  <2>3. PICK k \in No : \A y \in No : k <= y
    <3> HIDE DEF No
    <3> QED BY <2>1, <2>2, LeastExists
  <2>4. k # 0
    BY <2>3, <1>6, <1>9
  <2>5. k \in 1..n /\ k - 1 \in 0..n /\ k - 1 \notin No
    <3>1. No \subseteq 0..n
      OBVIOUS
    <3> HIDE DEF No
    <3>2. k \in 0..n
      BY <2>3, <3>1
    <3>3. k \in 1..n /\ k - 1 \in 0..n /\ k - 1 < k
      BY <3>2, <2>4, <1>1
    <3>4. k - 1 \notin No
      <4>1. SUFFICES ASSUME k - 1 \in No PROVE FALSE
        OBVIOUS
      <4>2. k <= k - 1
        BY <4>1, <2>3
      <4> QED BY <4>2, <3>3, <3>2
    <3> QED BY <3>3, <3>4
  <2>6. c[k - 1] = t[k - 1]
    BY <2>5
  <2> QED BY <2>3, <2>5, <2>6, <1>6, <1>9
<1>11. c[n] = t[n]
  <2>1. n \in 0..n
    BY <1>1
  <2> QED BY <2>1, <1>10
<1> QED BY <1>2, <1>6, <1>11 DEF Counts, n

LEMMA CountsAre ==
    ASSUME NEW list \in Seq(Entry), NEW u, Counts(u, list)
    PROVE  Held(list) = u[Len(list)] /\ Held(list) \in Nat
<1> DEFINE n == Len(list)
<1>1. PICK t \in [0..n -> Nat] : Counts(t, list) /\ Held(list) = t[n]
  BY HeldIs
<1>2. n \in Nat
  BY EntryFields
<1> DEFINE No == {k \in 0..n : u[k] # t[k]}
<1>10. No = {}
  <2>1. SUFFICES ASSUME No # {} PROVE FALSE
    OBVIOUS
  <2>2. No \subseteq Nat
    OBVIOUS
  <2>3. PICK k \in No : \A y \in No : k <= y
    <3> HIDE DEF No
    <3> QED BY <2>1, <2>2, LeastExists
  <2>4. k # 0
    BY <2>3, <1>1 DEF Counts
  <2>5. k \in 1..n /\ k - 1 \in 0..n /\ k - 1 \notin No
    <3> HIDE DEF n
    <3> QED BY <2>3, <2>4, <1>2
  <2>6. u[k - 1] = t[k - 1]
    BY <2>5
  <2>7. u[k] = u[k - 1] + Len(list[k].chain) /\ t[k] = t[k - 1] + Len(list[k].chain)
    BY <2>5, <1>1 DEF Counts
  <2> QED BY <2>3, <2>6, <2>7
<1>11. u[n] = t[n] /\ t[n] \in Nat
  <2>1. n \in 0..n
    BY <1>2
  <2> QED BY <2>1, <1>1, <1>10
<1> QED BY <1>1, <1>11

LEMMA HeldEmpty == Held(<<>>) = 0
<1> DEFINE u == [i \in 0..0 |-> 0]
<1>1. <<>> \in Seq(Entry) /\ Len(<<>>) = 0
  OBVIOUS
<1>2. Counts(u, <<>>)
  BY <1>1 DEF Counts
<1>3. u[0] = 0
  OBVIOUS
<1> HIDE DEF u
<1>4. Held(<<>>) = u[Len(<<>>)]
  BY <1>1, <1>2, CountsAre
<1> QED BY <1>1, <1>3, <1>4

LEMMA HeldRemoved ==
    ASSUME NEW list \in Seq(Entry), NEW p \in 1..Len(list), NEW r, r = RemoveAt(list, p)
    PROVE  Held(r) = Held(list) - Len(list[p].chain) /\ Held(r) \in Nat /\ Held(list) \in Nat
<1> DEFINE n == Len(list)
           L(i) == Len(list[i].chain)
<1>1. /\ r \in Seq(Entry) /\ Len(r) = n - 1
      /\ \A i \in 1..(n - 1) : r[i] = IF i < p THEN list[i] ELSE list[i + 1]
  BY RemoveAtIs
<1>2. PICK t \in [0..n -> Nat] : Counts(t, list) /\ Held(list) = t[n]
  BY HeldIs
<1>3. n \in Nat /\ p \in 1..n /\ \A i \in 1..n : L(i) \in Nat
  BY EntryFields
<1>4. t[0] = 0 /\ \A i \in 1..n : t[i] = t[i - 1] + L(i)
  BY <1>2 DEF Counts
<1>5. \A i \in 1..(n - 1) : Len(r[i].chain) = IF i < p THEN L(i) ELSE L(i + 1)
  BY <1>1
<1> HIDE DEF n, L
<1>6. \A i \in 0..n : t[i] \in Nat
  BY <1>2
<1> DEFINE u == [i \in 0..(n - 1) |-> IF i < p THEN t[i] ELSE t[i + 1] - L(p)]
<1>7. \A i \in 0..(n - 1) : u[i] = IF i < p THEN t[i] ELSE t[i + 1] - L(p)
  OBVIOUS
<1> HIDE DEF u
<1>8. u[0] = 0
  BY <1>3, <1>4, <1>7
<1>9. ASSUME NEW i \in 1..(n - 1) PROVE u[i] = u[i - 1] + Len(r[i].chain)
  <2>1. i \in 0..(n - 1) /\ i - 1 \in 0..(n - 1) /\ i \in 1..n /\ i + 1 \in 1..n /\ (i + 1) - 1 = i /\ (i - 1) + 1 = i
        /\ i - 1 \in 0..n /\ i \in 0..n /\ i + 1 \in 0..n
    BY <1>3
  <2>2. CASE i < p
    <3>1. i - 1 < p
      BY <2>2, <2>1, <1>3
    <3>2. u[i] = t[i] /\ u[i - 1] = t[i - 1] /\ Len(r[i].chain) = L(i)
      BY <2>1, <2>2, <3>1, <1>5, <1>7
    <3> QED BY <3>2, <2>1, <1>4
  <2>3. CASE i = p
    <3>1. i - 1 < p /\ ~(i < p)
      BY <2>3, <2>1, <1>3
    <3>2. u[i] = t[i + 1] - L(p) /\ u[i - 1] = t[i - 1] /\ Len(r[i].chain) = L(i + 1)
      BY <2>1, <3>1, <1>5, <1>7
    <3>3. t[i + 1] = t[i] + L(i + 1) /\ t[i] = t[i - 1] + L(i)
      BY <2>1, <1>4
    <3>4. t[i + 1] \in Nat /\ t[i] \in Nat /\ t[i - 1] \in Nat /\ L(i) \in Nat /\ L(i + 1) \in Nat /\ L(p) = L(i)
      BY <2>1, <2>3, <1>3, <1>6
    <3>5. PICK next \in Nat, now \in Nat, before \in Nat, mine \in Nat, its \in Nat :
            next = t[i + 1] /\ now = t[i] /\ before = t[i - 1] /\ mine = L(i) /\ its = L(i + 1)
      BY <3>4
    <3>6. next = now + its /\ now = before + mine
      BY <3>3, <3>5
    <3>7. next - mine = before + its
      BY <3>6
    <3>8. u[i] = next - mine /\ u[i - 1] = before /\ Len(r[i].chain) = its
      BY <3>2, <3>4, <3>5
    <3> QED BY <3>7, <3>8
  <2>4. CASE i > p
    <3>1. ~(i - 1 < p) /\ ~(i < p)
      BY <2>4, <2>1, <1>3
    <3>2. u[i] = t[i + 1] - L(p) /\ u[i - 1] = t[i] - L(p) /\ Len(r[i].chain) = L(i + 1)
      BY <2>1, <3>1, <1>5, <1>7
    <3>3. t[i + 1] = t[i] + L(i + 1)
      BY <2>1, <1>4
    <3>4. t[i + 1] \in Nat /\ t[i] \in Nat /\ L(i + 1) \in Nat /\ L(p) \in Nat
      BY <2>1, <1>3, <1>6
    <3> QED BY <3>2, <3>3, <3>4
  <2> QED BY <2>2, <2>3, <2>4, <2>1, <1>3
<1>10. Counts(u, r)
  BY <1>1, <1>8, <1>9 DEF Counts, n
<1>11. Held(r) = u[n - 1] /\ Held(r) \in Nat
  <2>1. Held(r) = u[Len(r)] /\ Held(r) \in Nat
    BY <1>1, <1>10, CountsAre
  <2> QED BY <2>1, <1>1 DEF n
<1>12. u[n - 1] = t[n] - L(p)
  <2>1. n - 1 \in 0..(n - 1) /\ n \in 1..n /\ n - 1 \in 0..n /\ n \in 0..n /\ (n - 1) + 1 = n
    BY <1>3
  <2>2. CASE n - 1 < p
    <3>1. p = n
      BY <2>2, <1>3
    <3>2. u[n - 1] = t[n - 1] /\ t[n] = t[n - 1] + L(n)
      BY <2>1, <2>2, <1>4, <1>7
    <3>3. t[n - 1] \in Nat /\ L(n) \in Nat /\ L(p) = L(n)
      BY <2>1, <3>1, <1>3, <1>6
    <3> QED BY <3>2, <3>3
  <2>3. CASE ~(n - 1 < p)
    BY <2>1, <2>3, <1>7
  <2> QED BY <2>2, <2>3
<1>13. t[n] \in Nat
  BY <1>3, <1>6
<1> QED BY <1>2, <1>11, <1>12, <1>13 DEF L, n

\* r is the list with e in front.
Fronted(r, e, list) ==
    /\ r \in Seq(Entry) /\ Len(r) = Len(list) + 1 /\ r[1] = e
    /\ \A i \in 2..(Len(list) + 1) : r[i] = list[i - 1]
    /\ Held(r) = Held(list)

LEMMA HeldFronted ==
    ASSUME NEW list \in Seq(Entry), NEW e \in Entry, e.chain = <<>>, NEW r, r = <<e>> \o list
    PROVE  Fronted(r, e, list)
<1> DEFINE n == Len(list)
<1>1. /\ r \in Seq(Entry) /\ Len(r) = n + 1 /\ r[1] = e
      /\ \A i \in 2..(n + 1) : r[i] = list[i - 1]
  <2>1. n \in Nat /\ <<e>> \in Seq(Entry) /\ Len(<<e>>) = 1 /\ <<e>>[1] = e
    OBVIOUS
  <2>2. r \in Seq(Entry) /\ Len(r) = 1 + n
    BY <2>1
  <2>3. r[1] = e
    BY <2>1
  <2>4. \A i \in 2..(n + 1) : r[i] = list[i - 1]
    <3>1. TAKE i \in 2..(n + 1)
    <3>2. i \in 1..(1 + n) /\ i > 1
      BY <2>1
    <3>3. r[i] = list[i - Len(<<e>>)]
      BY <3>2, <2>1
    <3> QED BY <3>3, <2>1
  <2> QED BY <2>1, <2>2, <2>3, <2>4
<1>2. PICK t \in [0..n -> Nat] : Counts(t, list) /\ Held(list) = t[n]
  BY HeldIs
<1>3. n \in Nat /\ \A i \in 1..n : Len(list[i].chain) \in Nat
  BY EntryFields
<1>4. t[0] = 0 /\ \A i \in 1..n : t[i] = t[i - 1] + Len(list[i].chain)
  BY <1>2 DEF Counts
<1> HIDE DEF n
<1> DEFINE u == [i \in 0..(n + 1) |-> IF i = 0 THEN 0 ELSE t[i - 1]]
<1>7. \A i \in 0..(n + 1) : u[i] = IF i = 0 THEN 0 ELSE t[i - 1]
  OBVIOUS
<1> HIDE DEF u
<1>8. u[0] = 0
  <2>1. 0 \in 0..(n + 1)
    BY <1>3
  <2> QED BY <2>1, <1>7
<1>9. ASSUME NEW i \in 1..(n + 1) PROVE u[i] = u[i - 1] + Len(r[i].chain)
  <2>1. i \in 0..(n + 1) /\ i # 0 /\ i - 1 \in 0..(n + 1) /\ u[i] = t[i - 1]
    BY <1>3, <1>7
  <2>2. CASE i = 1
    <3>1. u[i - 1] = 0 /\ t[i - 1] = 0
      BY <2>2, <1>4, <1>8
    <3>2. Len(r[i].chain) = 0
      BY <2>2, <1>1
    <3>3. u[i] = 0
      BY <2>1, <3>1
    <3>4. u[i - 1] = 0
      BY <3>1
    <3>5. PICK l : l = Len(r[i].chain)
      OBVIOUS
    <3>6. u[i] = u[i - 1] + l
      <4>1. l = 0
        BY <3>2, <3>5, Zenon
      <4> QED BY <4>1, <3>3, <3>4
    <3> QED BY <3>5, <3>6, Zenon
  <2>3. CASE i # 1
    <3>1. i \in 2..(n + 1) /\ i - 1 \in 1..n /\ i - 1 # 0
      BY <2>3, <1>3
    <3>2. u[i - 1] = t[(i - 1) - 1] /\ r[i] = list[i - 1]
      BY <3>1, <2>1, <1>1, <1>7
    <3>3. t[i - 1] = t[(i - 1) - 1] + Len(list[i - 1].chain)
      BY <3>1, <1>4
    <3> QED BY <2>1, <3>2, <3>3
  <2> QED BY <2>2, <2>3
<1>10. Counts(u, r)
  BY <1>1, <1>8, <1>9 DEF Counts
<1>11. Held(r) = u[n + 1]
  <2>1. Held(r) = u[Len(r)]
    BY <1>1, <1>10, CountsAre
  <2> QED BY <2>1, <1>1
<1>12. u[n + 1] = t[n]
  <2>1. n + 1 \in 0..(n + 1) /\ n + 1 # 0 /\ (n + 1) - 1 = n
    BY <1>3
  <2> QED BY <2>1, <1>7
<1> QED BY <1>1, <1>2, <1>11, <1>12 DEF n, Fronted

LEMMA HeldChanged ==
    ASSUME NEW list \in Seq(Entry), NEW r \in Seq(Entry), NEW p \in 1..Len(list), Len(r) = Len(list),
           \A k \in 1..Len(list) : k # p => r[k].chain = list[k].chain
    PROVE  Held(r) = Held(list) + Len(r[p].chain) - Len(list[p].chain) /\ Held(list) \in Nat
<1> DEFINE n == Len(list)
<1>2. PICK t \in [0..n -> Nat] : Counts(t, list) /\ Held(list) = t[n]
  BY HeldIs
<1>3. n \in Nat /\ p \in 1..n /\ \A i \in 1..n : Len(list[i].chain) \in Nat
  BY EntryFields
<1>4. t[0] = 0 /\ \A i \in 1..n : t[i] = t[i - 1] + Len(list[i].chain)
  BY <1>2 DEF Counts
<1>5. \A i \in 1..n : Len(r[i].chain) \in Nat
  BY EntryFields
<1>6. \A i \in 1..n : i # p => Len(r[i].chain) = Len(list[i].chain)
  OBVIOUS
<1>0. Len(r) = n
  OBVIOUS
<1> HIDE DEF n
<1>a. \A i \in 0..n : t[i] \in Nat
  BY <1>2
<1>b. PICK x \in Nat : x = Len(r[p].chain)
  BY <1>3, <1>5
<1>c. PICK y \in Nat : y = Len(list[p].chain)
  BY <1>3
<1> DEFINE u == [i \in 0..n |-> IF i < p THEN t[i] ELSE t[i] + x - y]
<1>7. \A i \in 0..n : u[i] = IF i < p THEN t[i] ELSE t[i] + x - y
  OBVIOUS
<1> HIDE DEF u
<1>8. u[0] = 0
  <2>1. 0 \in 0..n /\ 0 < p
    BY <1>3
  <2>2. u[0] = t[0]
    BY <2>1, <1>7
  <2> QED BY <2>2, <1>4
<1>9. ASSUME NEW i \in 1..n PROVE u[i] = u[i - 1] + Len(r[i].chain)
  <2>1. i \in 0..n /\ i - 1 \in 0..n /\ t[i] \in Nat /\ t[i - 1] \in Nat /\ t[i] = t[i - 1] + Len(list[i].chain)
    BY <1>3, <1>4, <1>a
  <2>2. CASE i < p
    <3>1. i - 1 < p /\ i # p
      BY <2>2, <2>1, <1>3
    <3>2. u[i] = t[i] /\ u[i - 1] = t[i - 1]
      BY <2>1, <2>2, <3>1, <1>7
    <3>3. Len(r[i].chain) = Len(list[i].chain)
      BY <3>1, <1>6
    <3> QED BY <3>2, <3>3, <2>1
  <2>3. CASE i = p
    <3>1. i - 1 < p /\ ~(i < p)
      BY <2>3, <2>1, <1>3
    <3>2. u[i] = t[i] + x - y /\ u[i - 1] = t[i - 1]
      BY <2>1, <2>3, <3>1, <1>7
    <3>3. Len(r[i].chain) = x /\ Len(list[i].chain) = y
      BY <2>3, <1>b, <1>c
    <3>4. u[i] = u[i - 1] + x
      BY <3>2, <3>3, <2>1
    <3> QED BY <3>3, <3>4
  <2>4. CASE i > p
    <3>1. ~(i - 1 < p) /\ ~(i < p) /\ i # p
      BY <2>4, <2>1, <1>3
    <3>2. u[i] = t[i] + x - y /\ u[i - 1] = t[i - 1] + x - y
      BY <2>1, <3>1, <1>7
    <3>3. PICK l \in Nat : l = Len(list[i].chain) /\ l = Len(r[i].chain)
      BY <3>1, <1>5, <1>6
    <3>4. t[i] = t[i - 1] + l
      BY <3>3, <2>1
    <3>5. u[i] = u[i - 1] + l
      BY <3>2, <3>4, <2>1
    <3> QED BY <3>3, <3>5
  <2> QED BY <2>2, <2>3, <2>4, <2>1, <1>3
<1>10. Counts(u, r)
  BY <1>0, <1>8, <1>9 DEF Counts
<1>11. Held(r) = u[n]
  BY <1>0, <1>10, CountsAre
<1>12. u[n] = t[n] + x - y /\ t[n] \in Nat
  <2>1. n \in 0..n /\ ~(n < p)
    BY <1>3
  <2> QED BY <2>1, <1>7, <1>a
<1> QED BY <1>2, <1>b, <1>c, <1>11, <1>12

LEMMA HeldAppended ==
    ASSUME NEW list \in Seq(Entry), NEW e \in Entry, NEW r, r = Append(list, e)
    PROVE  Held(r) = Held(list) + Len(e.chain) /\ Held(list) \in Nat
<1> DEFINE n == Len(list)
<1>1. r \in Seq(Entry) /\ Len(r) = n + 1 /\ r[n + 1] = e /\ \A i \in 1..n : r[i] = list[i]
  OBVIOUS
<1>2. PICK t \in [0..n -> Nat] : Counts(t, list) /\ Held(list) = t[n]
  BY HeldIs
<1>3. n \in Nat
  BY EntryFields
<1>4. t[0] = 0 /\ \A i \in 1..n : t[i] = t[i - 1] + Len(list[i].chain)
  BY <1>2 DEF Counts
<1> HIDE DEF n
<1> DEFINE u == [i \in 0..(n + 1) |-> IF i <= n THEN t[i] ELSE t[n] + Len(e.chain)]
<1>7. \A i \in 0..(n + 1) : u[i] = IF i <= n THEN t[i] ELSE t[n] + Len(e.chain)
  OBVIOUS
<1> HIDE DEF u
<1>8. u[0] = 0
  BY <1>3, <1>4, <1>7
<1>9. ASSUME NEW i \in 1..(n + 1) PROVE u[i] = u[i - 1] + Len(r[i].chain)
  <2>1. i \in 0..(n + 1) /\ i - 1 \in 0..(n + 1) /\ i - 1 <= n
    BY <1>3
  <2>2. u[i - 1] = t[i - 1]
    BY <2>1, <1>7
  <2>3. CASE i <= n
    <3>1. i \in 1..n
      BY <2>3, <1>3
    <3> QED BY <3>1, <2>1, <2>2, <2>3, <1>1, <1>4, <1>7
  <2>4. CASE ~(i <= n)
    <3>1. i = n + 1 /\ i - 1 = n
      BY <2>4, <1>3
    <3>2. u[i] = t[n] + Len(e.chain)
      BY <2>1, <2>4, <1>7
    <3> QED BY <3>1, <3>2, <2>2, <1>1
  <2> QED BY <2>3, <2>4
<1>10. Counts(u, r)
  BY <1>1, <1>8, <1>9 DEF Counts
<1>11. Held(r) = u[n + 1]
  <2>1. Held(r) = u[Len(r)]
    BY <1>1, <1>10, CountsAre
  <2> QED BY <2>1, <1>1
<1>12. u[n + 1] = t[n] + Len(e.chain)
  <2>1. n + 1 \in 0..(n + 1) /\ ~(n + 1 <= n)
    BY <1>3
  <2> QED BY <2>1, <1>7
<1>13. t[n] \in Nat
  BY <1>2, <1>3
<1> QED BY <1>2, <1>11, <1>12, <1>13

-----------------------------------------------------------------------------
(* Lists of datagrams under way *)

\* The fragments of one datagram, in order.
ChainOK(d, c) ==
    /\ c \in Seq(Frag)
    /\ \A k \in 1..Len(c) : c[k] \in Cuts[d]
    /\ \A j, k \in 1..Len(c) : j < k => c[j].from < c[k].from

\* What is known of the last fragment.
LastOK(d, c, last) ==
    /\ ~last => \A k \in 1..Len(c) : ~c[k].last
    /\ last /\ OneCut(d) => \E k \in 1..Len(c) : c[k].last

Complete(c) == c # <<>> /\ Head(c).from = 0 /\ Last(c).last /\ Joined(c)

EntryOK(e) == ChainOK(e.id, e.chain) /\ LastOK(e.id, e.chain, e.last) /\ ~Complete(e.chain)

OneEntryEach(list) == \A i, j \in 1..Len(list) : list[i].id = list[j].id => i = j

GoodList(list) ==
    /\ list \in Seq(Entry) /\ OneEntryEach(list)
    /\ \A i \in 1..Len(list) : EntryOK(list[i])

Filled(list, p) == \A i \in 1..Len(list) : i # p => list[i].chain # <<>>

LEMMA RemoveKeeps ==
    ASSUME NEW list, GoodList(list), NEW p \in 1..Len(list), NEW r, r = RemoveAt(list, p), Filled(list, p)
    PROVE  /\ GoodList(r) /\ Filled(r, 0) /\ Len(r) = Len(list) - 1
           /\ \A d : At(list, d) = {} => At(r, d) = {}
<1> DEFINE n == Len(list)
<1>0. list \in Seq(Entry)
  BY DEF GoodList
<1>1. /\ r \in Seq(Entry) /\ Len(r) = n - 1
      /\ \A i \in 1..(n - 1) : r[i] = IF i < p THEN list[i] ELSE list[i + 1]
  <2>1. list \in Seq(Entry) /\ p \in 1..Len(list) /\ r = RemoveAt(list, p)
    BY <1>0
  <2> QED BY <2>1, RemoveAtIs
<1>2. n \in Nat /\ p \in 1..n /\ DOMAIN r = 1..(n - 1) /\ DOMAIN list = 1..n
  BY <1>0, <1>1
<1> DEFINE to == [i \in 1..(n - 1) |-> IF i < p THEN i ELSE i + 1]
<1>3. \A i \in 1..(n - 1) : to[i] \in 1..n /\ to[i] # p /\ r[i] = list[to[i]]
  BY <1>1, <1>2
<1>4. \A i, j \in 1..(n - 1) : to[i] = to[j] => i = j
  BY <1>2
<1> HIDE DEF to
<1>a. \A i, j \in 1..n : list[i].id = list[j].id => i = j
  BY <1>2 DEF GoodList, OneEntryEach
<1>5. OneEntryEach(r)
  <2>1. ASSUME NEW i \in 1..(n - 1), NEW j \in 1..(n - 1), r[i].id = r[j].id PROVE i = j
    <3>1. PICK a \in 1..n : a = to[i] /\ r[i] = list[a]
      BY <2>1, <1>3
    <3>2. PICK b \in 1..n : b = to[j] /\ r[j] = list[b]
      BY <2>1, <1>3
    <3>3. list[a].id = list[b].id
      BY <2>1, <3>1, <3>2
    <3>4. a = b
      BY <3>3, <1>a
    <3>5. to[i] = to[j]
      BY <3>1, <3>2, <3>4
    <3> QED BY <3>5, <1>4
  <2> QED BY <2>1, <1>1 DEF OneEntryEach
<1>6. \A i \in 1..(n - 1) : EntryOK(r[i])
  BY <1>3 DEF GoodList
<1>7. GoodList(r)
  BY <1>1, <1>5, <1>6 DEF GoodList
<1>8. Filled(r, 0)
  BY <1>1, <1>3 DEF Filled
<1>9. ASSUME NEW d, At(list, d) = {} PROVE At(r, d) = {}
  <2>1. \A i \in 1..n : list[i].id # d
    BY <1>2, <1>9 DEF At
  <2>2. \A i \in 1..(n - 1) : r[i].id # d
    BY <2>1, <1>3
  <2> QED BY <2>2, <1>2 DEF At
<1> QED BY <1>1, <1>7, <1>8, <1>9

LEMMA OldestIs ==
    ASSUME NEW list \in Seq(Entry), NEW d, DOMAIN list # At(list, d)
    PROVE  OldestOther(list, d) \in 1..Len(list) /\ list[OldestOther(list, d)].id # d
<1> DEFINE others == DOMAIN list \ At(list, d)
           n == Len(list)
<1>1. n \in Nat /\ DOMAIN list = 1..n /\ \A i \in 1..n : list[i].timer \in Nat
  BY EntryFields
<1>2. others # {} /\ others \subseteq 1..n
  BY <1>1 DEF At
<1>3. \A i \in others : list[i].id # d
  BY DEF At
<1>4. OldestOther(list, d) = CHOOSE i \in others : \A j \in others :
            list[i].timer < list[j].timer \/ (list[i].timer = list[j].timer /\ j <= i)
  BY DEF OldestOther
<1> HIDE DEF others, n
<1> DEFINE times == {list[i].timer : i \in others}
<1>5. times \subseteq Nat /\ times # {}
  BY <1>1, <1>2
<1>6. PICK m \in times : \A y \in times : m <= y
  <2> HIDE DEF times
  <2> QED BY <1>5, LeastExists
<1>7. \A i \in others : m <= list[i].timer
  BY <1>6
<1> DEFINE behind == {k \in 0..n : n - k \in others /\ list[n - k].timer = m}
<1>8. behind \subseteq Nat /\ behind # {}
  <2>1. PICK i \in others : list[i].timer = m
    BY <1>6
  <2>2. n - i \in 0..n /\ n - (n - i) = i
    BY <1>1, <1>2
  <2> QED BY <2>1, <2>2
<1>9. PICK b \in behind : \A y \in behind : b <= y
  <2> HIDE DEF behind
  <2> QED BY <1>8, LeastExists
<1> DEFINE o == n - b
<1>10. o \in others /\ list[o].timer = m
  BY <1>9
<1>11. ASSUME NEW j \in others PROVE list[o].timer < list[j].timer \/ (list[o].timer = list[j].timer /\ j <= o)
  <2>1. m \in Nat /\ list[j].timer \in Nat /\ m <= list[j].timer
    BY <1>5, <1>7, <1>1, <1>2
  <2>2. CASE list[j].timer = m
    <3>1. n - j \in 0..n /\ n - (n - j) = j /\ j \in Nat
      BY <1>1, <1>2
    <3>2. n - j \in behind
      BY <3>1, <2>2
    <3>3. b <= n - j /\ b \in 0..n
      BY <3>2, <1>9
    <3>4. j <= o
      BY <3>1, <3>3, <1>1
    <3> QED BY <3>4, <2>2, <1>10
  <2>3. CASE list[j].timer # m
    BY <2>1, <2>3, <1>10
  <2> QED BY <2>2, <2>3
<1> HIDE DEF o
<1>12. OldestOther(list, d) \in others
  BY <1>4, <1>10, <1>11
<1> QED BY <1>2, <1>3, <1>12 DEF n

\* Room is made for datagram d.
Made(r, list, d) ==
    /\ GoodList(r) /\ Filled(r, 0) /\ Len(r) <= Len(list)
    /\ Held(r) \in Nat /\ Held(list) \in Nat /\ Held(r) <= Held(list)
    /\ At(list, d) = {} => At(r, d) = {} /\ (list # <<>> => Len(r) = Len(list) - 1)

LEMMA RoomKeeps ==
    ASSUME NEW list, GoodList(list), Filled(list, 0), NEW d, NEW r, r = Room(list, d)
    PROVE  Made(r, list, d)
<1>0. list \in Seq(Entry) /\ Len(list) \in Nat /\ DOMAIN list = 1..Len(list)
  BY EntryFields DEF GoodList
<1>1. CASE DOMAIN list = At(list, d)
  <2>1. r = list
    BY <1>1 DEF Room
  <2>2. Held(list) \in Nat
    <3>1. PICK t \in [0..Len(list) -> Nat] : Counts(t, list) /\ Held(list) = t[Len(list)]
      BY <1>0, HeldIs
    <3> QED BY <3>1, <1>0
  <2>3. At(list, d) = {} => list = <<>>
    BY <1>0, <1>1
  <2>4. Len(r) <= Len(list) /\ Held(r) <= Held(list)
    BY <2>1, <2>2, <1>0
  <2> QED BY <2>1, <2>2, <2>3, <2>4 DEF Made
<1>2. CASE DOMAIN list # At(list, d)
  <2>1. PICK p : p = OldestOther(list, d)
    OBVIOUS
  <2>2. p \in 1..Len(list) /\ r = RemoveAt(list, p)
    BY <2>1, <1>0, <1>2, OldestIs DEF Room
  <2>3. Filled(list, p)
    BY <2>2 DEF Filled
  <2>4. /\ GoodList(r) /\ Filled(r, 0) /\ Len(r) = Len(list) - 1
        /\ \A x : At(list, x) = {} => At(r, x) = {}
    BY <2>2, <2>3, RemoveKeeps
  <2>5. Held(r) = Held(list) - Len(list[p].chain) /\ Held(r) \in Nat /\ Held(list) \in Nat
    BY <2>2, <1>0, HeldRemoved
  <2>6. Len(list[p].chain) \in Nat
    BY <2>2, <1>0, EntryFields
  <2>7. Len(r) <= Len(list) /\ Held(r) <= Held(list)
    BY <2>4, <2>5, <2>6, <1>0
  <2> QED BY <2>4, <2>5, <2>7 DEF Made
<1> QED BY <1>1, <1>2

-----------------------------------------------------------------------------
(* A fragment is put into the chain of its datagram *)

LEMMA FragIs ==
    ASSUME NEW d \in Datagrams
    PROVE  \A f \in Cuts[d] : /\ f \in Frag /\ f.from \in Nat /\ f.to \in Nat /\ f.last \in BOOLEAN /\ f.from < f.to
                              /\ f.last => \A g \in Cuts[d] : g.to <= f.to
BY ReassemblyAssumption DEF ReassemblyAssumption, Frag

LEMMA ChainFields ==
    ASSUME NEW d \in Datagrams, NEW c, ChainOK(d, c)
    PROVE  /\ c \in Seq(Frag) /\ Len(c) \in Nat /\ DOMAIN c = 1..Len(c)
           /\ \A k \in 1..Len(c) : c[k] \in Cuts[d] /\ c[k] \in Frag /\ c[k].from \in Nat /\ c[k].to \in Nat /\ c[k].from < c[k].to
           /\ \A j, k \in 1..Len(c) : j < k => c[j].from < c[k].from
<1>1. c \in Seq(Frag) /\ Len(c) \in Nat /\ DOMAIN c = 1..Len(c)
  BY DEF ChainOK
<1>2. \A k \in 1..Len(c) : c[k] \in Cuts[d]
  BY DEF ChainOK
<1> QED BY <1>1, <1>2, FragIs DEF ChainOK

\* The first p begin no later than f.
Behind(c, f, p) ==
    /\ p \in 0..Len(c) /\ Place(c, f) = p + 1 /\ Before(c, f) = 1..p
    /\ \A i \in 1..Len(c) : c[i].from <= f.from <=> i <= p

LEMMA BeforeIs ==
    ASSUME NEW d \in Datagrams, NEW c, ChainOK(d, c), NEW f \in Cuts[d]
    PROVE  \E p \in 0..Len(c) : Behind(c, f, p)
<1> DEFINE n == Len(c)
           Late == {k \in 1..(n + 1) : k = n + 1 \/ c[k].from > f.from}
<1>1. n \in Nat /\ DOMAIN c = 1..n /\ \A k \in 1..n : c[k].from \in Nat
  BY ChainFields
<1>2. \A j, k \in 1..n : j < k => c[j].from < c[k].from
  BY ChainFields
<1>3. f.from \in Nat
  BY FragIs
<1> HIDE DEF n
<1>4. PICK q \in Late : \A k \in Late : q <= k
  <2>1. Late \subseteq Nat /\ n + 1 \in Late
    BY <1>1
  <2> HIDE DEF Late
  <2> QED BY <2>1, LeastExists
<1>5. PICK p \in 0..n : q = p + 1
  <2>1. q - 1 \in 0..n /\ q = (q - 1) + 1
    BY <1>1, <1>4
  <2> QED BY <2>1
<1>6. ASSUME NEW i \in 1..n PROVE c[i].from <= f.from <=> i <= p
  <2>1. CASE i <= p
    <3>1. i \in 1..(n + 1) /\ i < q
      BY <2>1, <1>1, <1>5
    <3>2. i \notin Late
      <4>1. SUFFICES ASSUME i \in Late PROVE FALSE
        OBVIOUS
      <4>2. q <= i
        BY <4>1, <1>4
      <4> QED BY <4>2, <3>1, <1>5, <1>1
    <3>3. ~(c[i].from > f.from)
      BY <3>1, <3>2
    <3> QED BY <3>3, <2>1, <1>1, <1>3
  <2>2. CASE i > p
    <3>1. q \in 1..n
      BY <2>2, <1>1, <1>5
    <3>2. c[q].from > f.from
      BY <3>1, <1>4, <1>1
    <3>3. i = q \/ q < i
      BY <2>2, <1>5, <1>1
    <3>4. c[i].from = c[q].from \/ c[q].from < c[i].from
      BY <3>1, <3>3, <1>2
    <3>5. c[q].from \in Nat /\ c[i].from \in Nat
      BY <3>1, <1>1
    <3>6. ~(c[i].from <= f.from)
      BY <3>2, <3>4, <3>5, <1>3
    <3> QED BY <3>6, <2>2, <1>5, <1>1
  <2> QED BY <2>1, <2>2, <1>5, <1>1
<1>7. Before(c, f) = 1..p
  <2>1. \A i \in 1..p : i \in 1..n /\ i <= p
    BY <1>1, <1>5
  <2>2. \A i \in 1..n : i <= p => i \in 1..p
    BY <1>1, <1>5
  <2>3. Before(c, f) = {i \in 1..n : c[i].from <= f.from}
    BY <1>1 DEF Before
  <2> QED BY <2>1, <2>2, <2>3, <1>6
<1>8. Cardinality(1..p) = p
  <2>1. Cardinality(1..p) = IF 1 > p THEN 0 ELSE p - 1 + 1
    BY <1>1, <1>5, FS_Interval
  <2> QED BY <2>1, <1>1, <1>5
<1>9. Place(c, f) = p + 1
  BY <1>7, <1>8 DEF Place
<1> QED BY <1>5, <1>6, <1>7, <1>9 DEF Behind, n

\* What overlaps, and what does not.
LEMMA OverlapsIs ==
    ASSUME NEW d \in Datagrams, NEW c, ChainOK(d, c), NEW f \in Cuts[d], NEW p, Behind(c, f, p)
    PROVE  /\ ~Overlaps(c, f) => /\ \A i \in 1..p : c[i].from # f.from /\ c[i].to <= f.from
                                 /\ p > 0 /\ p < Len(c) => f.to <= c[p + 1].from
           /\ Overlaps(c, f) => \/ \E i \in 1..p : f.from = c[i].from \/ f.from < c[i].to
                                \/ p > 0 /\ p < Len(c) /\ f.to > c[p + 1].from
<1>1. p \in 0..Len(c) /\ Place(c, f) = p + 1 /\ Before(c, f) = 1..p
  BY DEF Behind
<1>2. Len(c) \in Nat /\ \A k \in 1..Len(c) : c[k].from \in Nat /\ c[k].to \in Nat
  BY ChainFields
<1>3. f.from \in Nat /\ f.to \in Nat
  BY FragIs
<1>4. Overlaps(c, f) <=> \/ \E i \in 1..p : f.from = c[i].from \/ f.from < c[i].to
                         \/ p + 1 \in 2..Len(c) /\ f.to > c[p + 1].from
  BY <1>1 DEF Overlaps
<1>5. p + 1 \in 2..Len(c) <=> p > 0 /\ p < Len(c)
  BY <1>1, <1>2
<1>6. \A i \in 1..p : i \in 1..Len(c)
  BY <1>1, <1>2
<1>7. p < Len(c) => p + 1 \in 1..Len(c)
  BY <1>1, <1>2
<1>8. Overlaps(c, f) => \/ \E i \in 1..p : f.from = c[i].from \/ f.from < c[i].to
                        \/ p > 0 /\ p < Len(c) /\ f.to > c[p + 1].from
  BY <1>4, <1>5
<1>9. ASSUME ~Overlaps(c, f)
      PROVE  /\ \A i \in 1..p : c[i].from # f.from /\ c[i].to <= f.from
             /\ p > 0 /\ p < Len(c) => f.to <= c[p + 1].from
  <2>1. ~(\E i \in 1..p : f.from = c[i].from \/ f.from < c[i].to)
    BY <1>4, <1>9
  <2>2. \A i \in 1..p : c[i].from # f.from /\ c[i].to <= f.from
    BY <2>1, <1>2, <1>3, <1>6
  <2>3. p > 0 /\ p < Len(c) => ~(f.to > c[p + 1].from)
    BY <1>4, <1>5, <1>9
  <2>4. p > 0 /\ p < Len(c) => f.to <= c[p + 1].from
    BY <2>3, <1>2, <1>3, <1>7
  <2> QED BY <2>2, <2>4
<1> QED BY <1>8, <1>9

\* r is c with f behind the first p.
LEMMA ChainedIs ==
    ASSUME NEW d \in Datagrams, NEW c, ChainOK(d, c), NEW f \in Cuts[d], NEW p, Behind(c, f, p), NEW r, r = Chained(c, f)
    PROVE  /\ r \in Seq(Frag) /\ Len(r) = Len(c) + 1 /\ p \in 0..Len(c)
           /\ \A i \in 1..(Len(c) + 1) : r[i] = IF i <= p THEN c[i] ELSE IF i = p + 1 THEN f ELSE c[i - 1]
<1>1. p \in 0..Len(c) /\ r = InsertAt(c, p + 1, f)
  BY DEF Behind, Chained
<1>2. c \in Seq(Frag) /\ Len(c) \in Nat /\ f \in Frag
  BY ChainFields, FragIs
<1>3. PICK q : q = p + 1
  OBVIOUS
<1>4. q \in 1..(Len(c) + 1) /\ r = InsertAt(c, q, f)
  BY <1>1, <1>2, <1>3
<1>5. /\ r \in Seq(Frag) /\ Len(r) = Len(c) + 1
      /\ \A i \in 1..(Len(c) + 1) : (i < q => r[i] = c[i]) /\ (i = q => r[i] = f) /\ (i > q => r[i] = c[i - 1])
  BY <1>2, <1>4, InsertAtIs
<1>6. \A i \in 1..(Len(c) + 1) : (i <= p <=> i < q) /\ (i < q \/ i = q \/ i > q)
  BY <1>1, <1>2, <1>3
<1>7. \A i \in 1..(Len(c) + 1) : r[i] = IF i <= p THEN c[i] ELSE IF i = p + 1 THEN f ELSE c[i - 1]
  <2>1. TAKE i \in 1..(Len(c) + 1)
  <2>2. CASE i <= p
    BY <2>2, <1>5, <1>6
  <2>3. CASE ~(i <= p) /\ i = p + 1
    BY <2>3, <1>3, <1>5
  <2>4. CASE ~(i <= p) /\ i # p + 1
    <3>1. i > q
      BY <2>4, <1>3, <1>6
    <3> QED BY <3>1, <2>4, <1>5
  <2> QED BY <2>2, <2>3, <2>4
<1> QED BY <1>1, <1>5, <1>7

\* Every fragment of the new chain is f or an old one, and all are there.
Joins(r, c, f) ==
    /\ \A k \in 1..Len(r) : r[k] = f \/ \E j \in 1..Len(c) : r[k] = c[j]
    /\ \E k \in 1..Len(r) : r[k] = f
    /\ \A j \in 1..Len(c) : \E k \in 1..Len(r) : r[k] = c[j]

LEMMA ChainedOK ==
    ASSUME NEW d \in Datagrams, NEW c, ChainOK(d, c), NEW f \in Cuts[d], ~Overlaps(c, f), NEW r, r = Chained(c, f)
    PROVE  ChainOK(d, r) /\ Joins(r, c, f) /\ Len(r) = Len(c) + 1 /\ r # <<>>
<1> DEFINE n == Len(c)
<1>1. PICK p \in 0..n : Behind(c, f, p)
  BY BeforeIs
<1>2. /\ r \in Seq(Frag) /\ Len(r) = n + 1 /\ p \in 0..n
      /\ \A i \in 1..(n + 1) : r[i] = IF i <= p THEN c[i] ELSE IF i = p + 1 THEN f ELSE c[i - 1]
  BY <1>1, ChainedIs
<1>3. n \in Nat /\ \A k \in 1..n : c[k] \in Cuts[d] /\ c[k].from \in Nat
  BY ChainFields
<1>4. \A j, k \in 1..n : j < k => c[j].from < c[k].from
  BY ChainFields
<1>5. f.from \in Nat
  BY FragIs
<1>6. \A i \in 1..n : c[i].from <= f.from <=> i <= p
  BY <1>1 DEF Behind
<1>7. \A i \in 1..p : c[i].from # f.from
  BY <1>1, OverlapsIs
<1> HIDE DEF n
<1>8. \A i \in 1..(n + 1) : \/ i <= p /\ i \in 1..n /\ i \in 1..p /\ r[i] = c[i]
                            \/ i = p + 1 /\ r[i] = f
                            \/ i > p + 1 /\ i - 1 \in 1..n /\ r[i] = c[i - 1]
  <2>1. TAKE i \in 1..(n + 1)
  <2>2. CASE i <= p
    <3>1. i \in 1..n /\ i \in 1..p
      BY <2>2, <1>2, <1>3
    <3> QED BY <2>2, <3>1, <1>2
  <2>3. CASE i = p + 1
    <3>1. ~(i <= p)
      BY <2>3, <1>2, <1>3
    <3> QED BY <2>3, <3>1, <1>2
  <2>4. CASE i > p + 1
    <3>1. ~(i <= p) /\ i # p + 1 /\ i - 1 \in 1..n
      BY <2>4, <1>2, <1>3
    <3> QED BY <2>4, <3>1, <1>2
  <2> QED BY <2>2, <2>3, <2>4, <1>2, <1>3
<1>9. \A i \in 1..(n + 1) : r[i] \in Cuts[d]
  BY <1>3, <1>8
<1>10. ASSUME NEW j \in 1..(n + 1), NEW k \in 1..(n + 1), j < k PROVE r[j].from < r[k].from
  <2>1. CASE j <= p
    <3>1. j \in 1..n /\ r[j] = c[j] /\ c[j].from <= f.from /\ c[j].from # f.from /\ c[j].from \in Nat
      BY <2>1, <1>2, <1>3, <1>6, <1>7, <1>8
    <3>2. c[j].from < f.from
      BY <3>1, <1>5
    <3>3. CASE k <= p
      <4>1. k \in 1..n /\ r[k] = c[k]
        BY <3>3, <1>2, <1>3, <1>8
      <4> QED BY <4>1, <3>1, <1>4, <1>10
    <3>4. CASE k = p + 1
      <4>1. r[k] = f
        BY <3>4, <1>2, <1>3, <1>8
      <4> QED BY <4>1, <3>1, <3>2
    <3>5. CASE k > p + 1
      <4>1. k - 1 \in 1..n /\ r[k] = c[k - 1] /\ j < k - 1
        BY <3>5, <2>1, <1>2, <1>3, <1>8
      <4> QED BY <4>1, <3>1, <1>4
    <3> QED BY <3>3, <3>4, <3>5, <1>2, <1>3
  <2>2. CASE j = p + 1
    <3>1. k > p + 1
      BY <2>2, <1>10, <1>2, <1>3
    <3>2. k - 1 \in 1..n /\ r[k] = c[k - 1] /\ ~(k - 1 <= p) /\ r[j] = f
      BY <3>1, <2>2, <1>2, <1>3, <1>8
    <3>3. ~(c[k - 1].from <= f.from) /\ c[k - 1].from \in Nat
      BY <3>2, <1>3, <1>6
    <3> QED BY <3>2, <3>3, <1>5
  <2>3. CASE j > p + 1
    <3>1. k > p + 1
      BY <2>3, <1>10, <1>2, <1>3
    <3>2. k - 1 \in 1..n /\ r[k] = c[k - 1] /\ j - 1 \in 1..n /\ r[j] = c[j - 1] /\ j - 1 < k - 1
      BY <3>1, <2>3, <1>10, <1>2, <1>3, <1>8
    <3> QED BY <3>2, <1>4
  <2> QED BY <2>1, <2>2, <2>3, <1>2, <1>3
<1>11. ChainOK(d, r)
  BY <1>2, <1>9, <1>10 DEF ChainOK
<1>12. Joins(r, c, f)
  <2>1. \A k \in 1..(n + 1) : r[k] = f \/ \E j \in 1..n : r[k] = c[j]
    BY <1>8
  <2>2. p + 1 \in 1..(n + 1) /\ r[p + 1] = f
    <3>1. p + 1 \in 1..(n + 1) /\ ~(p + 1 <= p)
      BY <1>2, <1>3
    <3> QED BY <3>1, <1>2
  <2>3. ASSUME NEW j \in 1..n PROVE \E k \in 1..(n + 1) : r[k] = c[j]
    <3>1. CASE j <= p
      <4>1. j \in 1..(n + 1)
        BY <1>3
      <4> QED BY <4>1, <3>1, <1>2
    <3>2. CASE j > p
      <4>1. j + 1 \in 1..(n + 1) /\ ~(j + 1 <= p) /\ j + 1 # p + 1 /\ (j + 1) - 1 = j
        BY <3>2, <1>2, <1>3
      <4>2. r[j + 1] = c[j]
        BY <4>1, <1>2
      <4> QED BY <4>1, <4>2
    <3> QED BY <3>1, <3>2, <1>2, <1>3
  <2> QED BY <2>1, <2>2, <2>3, <1>2 DEF Joins, n
<1>13. r # <<>>
  BY <1>2, <1>3
<1> QED BY <1>2, <1>11, <1>12, <1>13 DEF n

\* A last fragment that is thrown away is there already, if the datagram is cut one way.
LEMMA ThrownAway ==
    ASSUME NEW d \in Datagrams, NEW c, ChainOK(d, c), NEW f \in Cuts[d], Overlaps(c, f), NEW last \in BOOLEAN, LastOK(d, c, last)
    PROVE  LastOK(d, c, last \/ f.last) /\ c # <<>>
<1> DEFINE n == Len(c)
<1>1. PICK p \in 0..n : Behind(c, f, p)
  BY BeforeIs
<1>2. \/ \E i \in 1..p : f.from = c[i].from \/ f.from < c[i].to
      \/ p > 0 /\ p < n /\ f.to > c[p + 1].from
  BY <1>1, OverlapsIs
<1>3. n \in Nat /\ \A k \in 1..n : c[k] \in Cuts[d] /\ c[k].from \in Nat /\ c[k].to \in Nat /\ c[k].from < c[k].to
  BY ChainFields
<1>4. f.from \in Nat /\ f.to \in Nat /\ f.from < f.to /\ f.last \in BOOLEAN
  BY FragIs
<1>5. \A i \in 1..n : c[i].from <= f.from <=> i <= p
  BY <1>1 DEF Behind
<1>6. c # <<>>
  BY <1>2, <1>3, <1>1
<1> HIDE DEF n
<1>7. ASSUME OneCut(d) PROVE \E k \in 1..n : c[k] = f
  <2>1. \A g \in Cuts[d] : f = g \/ f.to <= g.from \/ g.to <= f.from
    BY <1>7 DEF OneCut
  <2>2. CASE \E i \in 1..p : f.from = c[i].from \/ f.from < c[i].to
    <3>1. PICK i \in 1..p : f.from = c[i].from \/ f.from < c[i].to
      BY <2>2
    <3>2. i \in 1..n /\ i <= p
      BY <1>1, <1>3
    <3>3. c[i].from <= f.from /\ c[i].from \in Nat /\ c[i].to \in Nat /\ c[i].from < c[i].to
      BY <3>2, <1>3, <1>5
    <3>4. ~(f.to <= c[i].from) /\ ~(c[i].to <= f.from)
      BY <3>1, <3>3, <1>4
    <3>5. f = c[i]
      BY <3>2, <3>4, <2>1, <1>3
    <3> QED BY <3>2, <3>5
  <2>3. CASE p > 0 /\ p < n /\ f.to > c[p + 1].from
    <3>1. p + 1 \in 1..n /\ ~(p + 1 <= p)
      BY <2>3, <1>1, <1>3
    <3>2. PICK g \in Cuts[d] : g = c[p + 1]
      BY <3>1, <1>3
    <3>3. ~(g.from <= f.from) /\ g.from \in Nat /\ g.to \in Nat /\ g.from < g.to
      BY <3>1, <3>2, <1>3, <1>5
    <3>4. f.to > g.from
      BY <2>3, <3>2
    <3>5. ~(f.to <= g.from) /\ ~(g.to <= f.from)
      BY <3>3, <3>4, <1>4
    <3>6. f = g
      BY <3>5, <2>1
    <3> QED BY <3>1, <3>2, <3>6
  <2> QED BY <2>2, <2>3, <1>2
<1>8. LastOK(d, c, last \/ f.last)
  <2>1. ASSUME ~(last \/ f.last) PROVE \A k \in 1..n : ~c[k].last
    BY <2>1 DEF LastOK, n
  <2>2. ASSUME last \/ f.last, OneCut(d) PROVE \E k \in 1..n : c[k].last
    <3>1. CASE last
      BY <3>1, <2>2 DEF LastOK, n
    <3>2. CASE f.last
      BY <3>2, <2>2, <1>7
    <3> QED BY <3>1, <3>2, <2>2
  <2> QED BY <2>1, <2>2 DEF LastOK, n
<1> QED BY <1>6, <1>8

LEMMA LastChained ==
    ASSUME NEW d, NEW c, NEW f, NEW r, Joins(r, c, f), NEW last \in BOOLEAN, LastOK(d, c, last)
    PROVE  LastOK(d, r, last \/ f.last)
<1>1. ASSUME ~(last \/ f.last), NEW k \in 1..Len(r) PROVE ~r[k].last
  BY <1>1 DEF LastOK, Joins
<1>2. ASSUME last \/ f.last, OneCut(d) PROVE \E k \in 1..Len(r) : r[k].last
  <2>1. CASE f.last
    BY <2>1 DEF Joins
  <2>2. CASE last
    <3>1. PICK j \in 1..Len(c) : c[j].last
      BY <2>2, <1>2 DEF LastOK
    <3>2. PICK k \in 1..Len(r) : r[k] = c[j]
      BY DEF Joins
    <3> QED BY <3>1, <3>2
  <2> QED BY <2>1, <2>2, <1>2
<1> QED BY <1>1, <1>2 DEF LastOK

\* Of a chain that is handed up, and of one that is not.
LEMMA ValidIs ==
    ASSUME NEW d \in Datagrams, NEW c, ChainOK(d, c), NEW f \in Cuts[d], ~Overlaps(c, f), NEW r, r = Chained(c, f)
    PROVE  /\ Valid(c, f) => r[1].from = 0 /\ Apart(r)
           /\ ~Valid(c, f) => ~(r[1].from = 0 /\ Joined(r))
<1> DEFINE n == Len(c)
<1>1. PICK p \in 0..n : Behind(c, f, p)
  BY BeforeIs
<1>2. /\ r \in Seq(Frag) /\ Len(r) = n + 1 /\ p \in 0..n
      /\ \A i \in 1..(n + 1) : r[i] = IF i <= p THEN c[i] ELSE IF i = p + 1 THEN f ELSE c[i - 1]
  BY <1>1, ChainedIs
<1>3. n \in Nat /\ \A k \in 1..n : c[k].to \in Nat
  BY ChainFields
<1>4. \A i \in 1..p : c[i].to <= f.from
  BY <1>1, OverlapsIs
<1>5. Place(c, f) = p + 1
  BY <1>1 DEF Behind
<1>6. \A k \in 1..(n + 1) : r[k].from \in Nat /\ r[k].to \in Nat
  <2>1. ChainOK(d, r)
    BY ChainedOK
  <2> QED BY <2>1, <1>2, ChainFields
<1> HIDE DEF n
<1>7. Valid(c, f) <=> /\ r[1].from = 0
                      /\ \A i \in 1..n : (i # p \/ p + 1 = n + 1) => r[i].to = r[i + 1].from
  <2>1. Len(r) - 1 = n /\ (p + 1) - 1 = p
    BY <1>2, <1>3
  <2> QED BY <2>1, <1>2, <1>5 DEF Valid
<1>8. ASSUME Valid(c, f) PROVE Apart(r)
  <2>1. ASSUME NEW i \in 1..n PROVE r[i].to <= r[i + 1].from
    <3>1. i \in 1..(n + 1) /\ i + 1 \in 1..(n + 1)
      BY <1>3
    <3>2. CASE i # p
      <4>1. r[i].to = r[i + 1].from
        BY <3>2, <1>7, <1>8
      <4> QED BY <4>1, <3>1, <1>6
    <3>3. CASE i = p
      <4>1. i <= p /\ i \in 1..p /\ ~(i + 1 <= p) /\ i + 1 = p + 1
        BY <3>3, <1>2, <1>3
      <4>2. r[i] = c[i] /\ r[i + 1] = f
        BY <4>1, <3>1, <1>2
      <4> QED BY <4>1, <4>2, <1>4
    <3> QED BY <3>2, <3>3
  <2>2. Len(r) - 1 = n
    BY <1>2, <1>3
  <2> QED BY <2>1, <2>2 DEF Apart
<1>9. ASSUME r[1].from = 0, Joined(r) PROVE Valid(c, f)
  <2>1. Len(r) - 1 = n
    BY <1>2, <1>3
  <2> QED BY <2>1, <1>7, <1>9 DEF Joined
<1> QED BY <1>7, <1>8, <1>9

\* The last fragment is the last of the chain.
LEMMA LastIsLast ==
    ASSUME NEW d \in Datagrams, NEW r, ChainOK(d, r), Apart(r), r # <<>>, LastOK(d, r, TRUE), OneCut(d)
    PROVE  Last(r).last
<1> DEFINE n == Len(r)
<1>1. n \in Nat /\ n > 0 /\ \A k \in 1..n : r[k] \in Cuts[d] /\ r[k].from \in Nat /\ r[k].to \in Nat /\ r[k].from < r[k].to
  BY ChainFields
<1>2. \A j, k \in 1..n : j < k => r[j].from < r[k].from
  BY ChainFields
<1>3. PICK k \in 1..n : r[k].last
  BY DEF LastOK
<1>4. k = n
  <2>1. SUFFICES ASSUME k # n PROVE FALSE
    OBVIOUS
  <2> HIDE DEF n
  <2>2. k + 1 \in 1..n /\ k \in 1..(n - 1) /\ n \in 1..n /\ (k + 1 = n \/ k + 1 < n)
    BY <2>1, <1>1
  <2>3. r[k].to <= r[k + 1].from
    BY <2>2 DEF Apart, n
  <2>4. r[k + 1].from = r[n].from \/ r[k + 1].from < r[n].from
    BY <2>2, <1>2
  <2>5. r[n].to <= r[k].to
    BY <2>2, <1>1, <1>3, FragIs
  <2>6. /\ r[n].from < r[n].to /\ r[n].from \in Nat /\ r[n].to \in Nat
        /\ r[k].to \in Nat /\ r[k + 1].from \in Nat
    BY <2>2, <1>1
  <2> QED BY <2>3, <2>4, <2>5, <2>6
<1>5. Last(r) = r[n]
  BY DEF Last
<1> QED BY <1>3, <1>4, <1>5

-----------------------------------------------------------------------------
(* A datagram's entry changes, and a new one is begun *)

\* r is the list with e in place of its p-th.
Replaced(r, list, p, e) ==
    /\ GoodList(r) /\ Filled(r, 0) /\ Len(r) = Len(list)
    /\ Held(r) = Held(list) + Len(e.chain) - Len(list[p].chain)

LEMMA ReplaceKeeps ==
    ASSUME NEW list, GoodList(list), NEW p \in 1..Len(list), Filled(list, p),
           NEW e \in Entry, EntryOK(e), e.id = list[p].id, e.chain # <<>>,
           NEW r, r = [list EXCEPT ![p] = e]
    PROVE  Replaced(r, list, p, e)
<1>1. list \in Seq(Entry)
  BY DEF GoodList
<1>2. r \in Seq(Entry) /\ Len(r) = Len(list) /\ r[p] = e /\ \A k \in 1..Len(list) : k # p => r[k] = list[k]
  BY <1>1
<1>3. \A k \in 1..Len(list) : r[k].id = list[k].id
  BY <1>2
<1>4. OneEntryEach(r)
  BY <1>2, <1>3 DEF OneEntryEach, GoodList
<1>5. \A k \in 1..Len(list) : EntryOK(r[k])
  BY <1>2 DEF GoodList
<1>6. GoodList(r)
  BY <1>2, <1>4, <1>5 DEF GoodList
<1>7. Filled(r, 0)
  BY <1>2 DEF Filled
<1>8. \A k \in 1..Len(list) : k # p => r[k].chain = list[k].chain
  BY <1>2
<1>9. Held(r) = Held(list) + Len(r[p].chain) - Len(list[p].chain)
  BY <1>1, <1>2, <1>8, HeldChanged
<1> QED BY <1>2, <1>6, <1>7, <1>9 DEF Replaced

\* The list in which p is the entry of d.
Entered(list, p, d) ==
    /\ GoodList(list) /\ p \in 1..Len(list) /\ list[p].id = d /\ Filled(list, p)
    /\ Len(list) <= NumReassdata

LEMMA BeginKeeps ==
    ASSUME NEW d \in Datagrams, NEW again, GoodList(again), Filled(again, 0), At(again, d) = {}, Len(again) < NumReassdata,
           NEW list, list = <<Fresh(d)>> \o again
    PROVE  Entered(list, EntryOf(list, d), d) /\ Held(list) = Held(again)
<1> DEFINE n == Len(again)
<1>1. again \in Seq(Entry) /\ n \in Nat /\ DOMAIN again = 1..n
  BY EntryFields DEF GoodList
<1>2. /\ Fresh(d) \in Entry /\ Fresh(d).chain = <<>> /\ Fresh(d).id = d /\ Fresh(d).last = FALSE
  <2>1. <<>> \in Seq(Frag) /\ ReassAge \in Nat
    BY ReassemblyAssumption DEF ReassemblyAssumption
  <2> QED BY <2>1 DEF Fresh, Entry
<1>3. /\ list \in Seq(Entry) /\ Len(list) = n + 1 /\ list[1] = Fresh(d)
      /\ \A i \in 2..(n + 1) : list[i] = again[i - 1]
      /\ Held(list) = Held(again)
  <2>1. PICK e \in Entry : e = Fresh(d)
    BY <1>2
  <2>2. e.chain = <<>> /\ list = <<e>> \o again
    BY <2>1, <1>2
  <2>3. Fronted(list, e, again)
    BY <2>2, <1>1, HeldFronted
  <2> QED BY <2>1, <2>3 DEF Fronted
<1>4. \A i \in 1..n : again[i].id # d
  BY <1>1 DEF At
<1>5. \A i \in 1..(n + 1) : i = 1 \/ (i \in 2..(n + 1) /\ i - 1 \in 1..n /\ list[i] = again[i - 1])
  BY <1>1, <1>3
<1> HIDE DEF n
<1>6. OneEntryEach(list)
  <2>1. ASSUME NEW i \in 1..(n + 1), NEW j \in 1..(n + 1), list[i].id = list[j].id PROVE i = j
    <3>1. CASE i = 1
      <4>1. list[j].id = d
        BY <3>1, <2>1, <1>2, <1>3
      <4>2. j = 1
        BY <4>1, <1>4, <1>5
      <4> QED BY <4>2, <3>1
    <3>2. CASE j = 1
      <4>1. list[i].id = d
        BY <3>2, <2>1, <1>2, <1>3
      <4>2. i = 1
        BY <4>1, <1>4, <1>5
      <4> QED BY <4>2, <3>2
    <3>3. CASE i # 1 /\ j # 1
      <4>1. i - 1 \in 1..n /\ j - 1 \in 1..n /\ again[i - 1].id = again[j - 1].id
        BY <3>3, <2>1, <1>5
      <4>2. i - 1 = j - 1
        BY <4>1 DEF GoodList, OneEntryEach, n
      <4> QED BY <4>2, <1>1
    <3> QED BY <3>1, <3>2, <3>3
  <2> QED BY <2>1, <1>3 DEF OneEntryEach
<1>7. EntryOK(Fresh(d))
  <2>1. PICK c : c = Fresh(d).chain
    OBVIOUS
  <2>2. c = <<>> /\ c \in Seq(Frag) /\ Len(c) = 0
    BY <2>1, <1>2
  <2>3. ChainOK(d, c)
    BY <2>2 DEF ChainOK
  <2>4. LastOK(d, c, FALSE)
    BY <2>2 DEF LastOK
  <2>5. ~Complete(c)
    BY <2>2 DEF Complete
  <2> QED BY <2>1, <2>3, <2>4, <2>5, <1>2 DEF EntryOK
<1>8. ASSUME NEW i \in 1..(n + 1) PROVE EntryOK(list[i])
  <2>1. CASE i = 1
    BY <2>1, <1>3, <1>7
  <2>2. CASE i # 1
    BY <2>2, <1>5 DEF GoodList, n
  <2> QED BY <2>1, <2>2
<1>9. GoodList(list)
  BY <1>3, <1>6, <1>8 DEF GoodList
<1>10. EntryOf(list, d) = 1
  <2>1. DOMAIN list = 1..(n + 1) /\ 1 \in 1..(n + 1)
    BY <1>1, <1>3
  <2>2. \A i \in 1..(n + 1) : list[i].id = d => i = 1
    BY <1>4, <1>5
  <2>3. At(list, d) = {1}
    BY <2>1, <2>2, <1>2, <1>3 DEF At
  <2> QED BY <2>3 DEF EntryOf
<1>11. Filled(list, 1)
  <2>1. ASSUME NEW i \in 1..(n + 1), i # 1 PROVE list[i].chain # <<>>
    <3>1. i - 1 \in 1..n /\ list[i] = again[i - 1] /\ i - 1 # 0
      BY <2>1, <1>5, <1>1
    <3> QED BY <3>1 DEF Filled, n
  <2> QED BY <2>1, <1>3 DEF Filled
<1>12. 1 \in 1..Len(list) /\ list[1].id = d /\ Len(list) <= NumReassdata
  <2>1. NumReassdata \in Nat /\ n < NumReassdata
    BY ReassemblyAssumption DEF ReassemblyAssumption, n
  <2> QED BY <2>1, <1>1, <1>2, <1>3
<1> QED BY <1>3, <1>9, <1>10, <1>11, <1>12 DEF Entered

-----------------------------------------------------------------------------
(* A second passes *)

\* r is x and e behind it.
Longer(r, x, e) ==
    /\ GoodList(r) /\ Filled(r, 0) /\ Len(r) = Len(x) + 1
    /\ \A j \in 1..Len(r) : r[j] = e \/ \E i \in 1..Len(x) : r[j] = x[i]

New(x, e) == \A j \in 1..Len(x) : x[j].id # e.id

LEMMA AppendKeeps ==
    ASSUME NEW x, GoodList(x), Filled(x, 0), NEW e \in Entry, EntryOK(e), e.chain # <<>>, New(x, e),
           NEW r, r = Append(x, e)
    PROVE  Longer(r, x, e)
<1> DEFINE n == Len(x)
<1>1. x \in Seq(Entry) /\ n \in Nat
  BY DEF GoodList
<1>2. r \in Seq(Entry) /\ Len(r) = n + 1 /\ r[n + 1] = e /\ \A i \in 1..n : r[i] = x[i]
  BY <1>1
<1>3. \A j \in 1..(n + 1) : j = n + 1 \/ j \in 1..n
  BY <1>1
<1>0. \A j \in 1..n : x[j].id # e.id
  BY DEF New
<1> HIDE DEF n
<1>4. OneEntryEach(r)
  <2>1. ASSUME NEW i \in 1..(n + 1), NEW j \in 1..(n + 1), r[i].id = r[j].id PROVE i = j
    <3>1. CASE i \in 1..n /\ j \in 1..n
      BY <3>1, <2>1, <1>2 DEF GoodList, OneEntryEach, n
    <3>2. CASE i = n + 1 /\ j \in 1..n
      BY <3>2, <2>1, <1>0, <1>2
    <3>3. CASE j = n + 1 /\ i \in 1..n
      BY <3>3, <2>1, <1>0, <1>2
    <3> QED BY <3>1, <3>2, <3>3, <1>3
  <2> QED BY <2>1, <1>2 DEF OneEntryEach
<1>5. \A j \in 1..(n + 1) : EntryOK(r[j])
  BY <1>2, <1>3 DEF GoodList, n
<1>6. Filled(r, 0)
  <2>1. ASSUME NEW j \in 1..(n + 1) PROVE r[j].chain # <<>>
    <3>1. CASE j \in 1..n
      <4>1. j # 0
        BY <3>1, <1>1
      <4> QED BY <4>1, <3>1, <1>2 DEF Filled, n
    <3> QED BY <3>1, <1>2, <1>3
  <2> QED BY <2>1, <1>2 DEF Filled
<1>7. \A j \in 1..(n + 1) : r[j] = e \/ \E i \in 1..n : r[j] = x[i]
  BY <1>2, <1>3
<1>8. GoodList(r)
  BY <1>2, <1>4, <1>5 DEF GoodList
<1> QED BY <1>2, <1>6, <1>7, <1>8 DEF Longer, n

Aged(e) == [id |-> e.id, timer |-> e.timer - 1, chain |-> e.chain, last |-> e.last]

LEMMA AgedIs ==
    ASSUME NEW e \in Entry
    PROVE  /\ [e EXCEPT !.timer = e.timer - 1] = Aged(e)
           /\ e.timer > 0 => Aged(e) \in Entry
           /\ Aged(e).id = e.id /\ Aged(e).chain = e.chain /\ Aged(e).last = e.last
<1>1. e.timer > 0 => e.timer - 1 \in Nat
  BY DEF Entry
<1> QED BY <1>1 DEF Entry, Aged

\* c goes along the list.
Ticks(c, list) ==
    /\ c[0] = <<>>
    /\ \A i \in 1..Len(list) : c[i] = IF list[i].timer > 0 THEN Append(c[i - 1], Aged(list[i])) ELSE c[i - 1]

LEMMA TickedIs ==
    ASSUME NEW list \in Seq(Entry), NEW r, r = Ticked(list)
    PROVE  \E c : Ticks(c, list) /\ r = c[Len(list)]
<1> DEFINE n == Len(list)
           Next1(t, i) == IF list[i].timer > 0 THEN Append(t[i - 1], [list[i] EXCEPT !.timer = list[i].timer - 1]) ELSE t[i - 1]
           Step(t) == [i \in 0..n |-> IF i = 0 THEN <<>> ELSE Next1(t, i)]
           step == [q \in (1..n) \X Seq(Entry) |-> IF list[q[1]].timer > 0 THEN Append(q[2], Aged(list[q[1]])) ELSE q[2]]
           c == CHOOSE t : t = Step(t)
<1>1. n \in Nat /\ \A i \in 1..n : list[i] \in Entry
  BY EntryFields
<1>2. r = c[n]
  BY DEF Ticked
<1> HIDE DEF n
<1>3. ASSUME NEW i \in 1..n, NEW x \in Seq(Entry)
      PROVE  /\ step[<<i, x>>] = IF list[i].timer > 0 THEN Append(x, Aged(list[i])) ELSE x
             /\ step[<<i, x>>] \in Seq(Entry)
  <2>1. step[<<i, x>>] = IF list[i].timer > 0 THEN Append(x, Aged(list[i])) ELSE x
    OBVIOUS
  <2>2. list[i].timer > 0 => Aged(list[i]) \in Entry
    BY <1>1, AgedIs
  <2> QED BY <2>1, <2>2
<1> HIDE DEF step
<1>4. PICK t \in [0..n -> Seq(Entry)] : Follows(t, <<>>, step, n)
  <2>1. <<>> \in Seq(Entry)
    OBVIOUS
  <2> QED BY <2>1, <1>1, <1>3, RecursionExists
<1>5. \A i \in 1..n : i \in 0..n /\ i - 1 \in 0..n /\ i # 0
  BY <1>1
<1>6. \A i \in 1..n : [list[i] EXCEPT !.timer = list[i].timer - 1] = Aged(list[i])
  BY <1>1, AgedIs
<1>7. t = Step(t)
  <2>1. \A i \in 0..n : i = 0 \/ i \in 1..n
    BY <1>1
  <2>2. \A i \in 1..n : t[i] = Next1(t, i)
    <3>1. TAKE i \in 1..n
    <3>2. t[i - 1] \in Seq(Entry) /\ t[i] = step[<<i, t[i - 1]>>]
      BY <1>4, <1>5 DEF Follows
    <3> QED BY <3>2, <1>3, <1>6
  <2> HIDE DEF Next1
  <2>3. t[0] = <<>>
    BY <1>4 DEF Follows
  <2>4. \A i \in 0..n : t[i] = IF i = 0 THEN <<>> ELSE Next1(t, i)
    BY <2>1, <2>2, <2>3
  <2> QED BY <2>4
<1>8. c = Step(c)
  <2> HIDE DEF Step
  <2> QED BY <1>7
<1> HIDE DEF c
<1>9. c[0] = <<>> /\ \A i \in 1..n : c[i] = Next1(c, i)
  <2> HIDE DEF Next1
  <2>1. 0 \in 0..n
    BY <1>1
  <2>2. \A i \in 0..n : c[i] = IF i = 0 THEN <<>> ELSE Next1(c, i)
    BY <1>8
  <2> HIDE DEF Step
  <2> QED BY <2>1, <2>2, <1>5
<1> HIDE DEF Step
<1>10. Ticks(c, list)
  BY <1>6, <1>9 DEF Ticks, n
<1> QED BY <1>2, <1>10 DEF n

\* What is kept of the first k of the list, which hold h pbufs.
Kept(x, list, k, h) ==
    /\ GoodList(x) /\ Filled(x, 0) /\ Len(x) <= k /\ Held(x) \in Nat /\ Held(x) <= h
    /\ \A j \in 1..Len(x) : \E i \in 1..k : x[j].id = list[i].id

LEMMA TickKeeps ==
    ASSUME NEW list, GoodList(list), Filled(list, 0), NEW r, r = Ticked(list)
    PROVE  GoodList(r) /\ Filled(r, 0) /\ Len(r) <= Len(list) /\ Held(r) \in Nat /\ Held(r) <= Held(list)
<1> DEFINE n == Len(list)
<1>1. list \in Seq(Entry)
  BY DEF GoodList
<1>2. n \in Nat /\ \A i \in 1..n : list[i] \in Entry /\ Len(list[i].chain) \in Nat /\ EntryOK(list[i])
                                   /\ list[i].chain # <<>>
  <2>1. \A i \in 1..n : i # 0
    BY <1>1
  <2> QED BY <2>1, <1>1, EntryFields DEF GoodList, Filled
<1>3. PICK c : Ticks(c, list) /\ r = c[n]
  BY <1>1, TickedIs
<1>4. PICK u \in [0..n -> Nat] : Counts(u, list) /\ Held(list) = u[n]
  BY <1>1, HeldIs
<1>5. c[0] = <<>> /\ \A i \in 1..n : c[i] = IF list[i].timer > 0 THEN Append(c[i - 1], Aged(list[i])) ELSE c[i - 1]
  BY <1>3 DEF Ticks
<1>6. u[0] = 0 /\ (\A i \in 1..n : u[i] = u[i - 1] + Len(list[i].chain)) /\ \A i \in 0..n : u[i] \in Nat
  BY <1>4 DEF Counts
<1>7. \A i, j \in 1..n : list[i].id = list[j].id => i = j
  BY DEF GoodList, OneEntryEach
<1> HIDE DEF n
<1> DEFINE No == {k \in 0..n : ~Kept(c[k], list, k, u[k])}
<1>8. No = {}
  <2>1. SUFFICES ASSUME No # {} PROVE FALSE
    OBVIOUS
  <2>2. No \subseteq Nat /\ No \subseteq 0..n
    BY <1>2
  <2>3. PICK k \in No : \A y \in No : k <= y
    <3> HIDE DEF No
    <3> QED BY <2>1, <2>2, LeastExists
  <2>4. Kept(c[0], list, 0, u[0])
    <3>1. c[0] = <<>> /\ u[0] = 0 /\ Len(<<>>) = 0 /\ <<>> \in Seq(Entry)
      BY <1>5, <1>6
    <3>2. GoodList(<<>>) /\ Filled(<<>>, 0)
      BY <3>1 DEF GoodList, Filled, OneEntryEach
    <3> QED BY <3>1, <3>2, HeldEmpty DEF Kept
  <2>5. k # 0
    BY <2>3, <2>4
  <2>6. k \in 1..n /\ k - 1 \in 0..n /\ k \in 0..n /\ k - 1 \notin No
    <3> HIDE DEF No
    <3>1. k \in 0..n
      BY <2>2, <2>3
    <3>2. k \in 1..n /\ k - 1 \in 0..n /\ k - 1 < k
      BY <3>1, <2>5, <1>2
    <3>3. k - 1 \notin No
      <4>1. SUFFICES ASSUME k - 1 \in No PROVE FALSE
        OBVIOUS
      <4>2. k <= k - 1
        BY <4>1, <2>3
      <4> QED BY <4>2, <3>2, <3>1
    <3> QED BY <3>1, <3>2, <3>3
  <2>7. ~Kept(c[k], list, k, u[k])
    BY <2>3
  <2>8. Kept(c[k - 1], list, k - 1, u[k - 1])
    BY <2>6
  <2> HIDE DEF No
  <2>9. PICK x : x = c[k - 1]
    OBVIOUS
  <2>10. GoodList(x) /\ Filled(x, 0) /\ Len(x) <= k - 1 /\ Held(x) \in Nat /\ Held(x) <= u[k - 1]
         /\ \A j \in 1..Len(x) : \E i \in 1..(k - 1) : x[j].id = list[i].id
    BY <2>8, <2>9 DEF Kept
  <2>11. u[k] = u[k - 1] + Len(list[k].chain) /\ u[k] \in Nat /\ u[k - 1] \in Nat /\ Len(list[k].chain) \in Nat
    BY <2>6, <1>2, <1>6
  <2>12. \A i \in 1..(k - 1) : i \in 1..k /\ i \in 1..n /\ i # k
    BY <2>6, <1>2
  <2>13. x \in Seq(Entry) /\ Len(x) \in Nat
    BY <2>10 DEF GoodList
  <2>14. CASE list[k].timer > 0
    <3>1. PICK e : e = Aged(list[k])
      OBVIOUS
    <3>2. e \in Entry /\ e.id = list[k].id /\ e.chain = list[k].chain /\ e.last = list[k].last
      BY <3>1, <2>6, <2>14, <1>2, AgedIs
    <3>3. EntryOK(e) /\ e.chain # <<>>
      BY <3>2, <2>6, <1>2 DEF EntryOK
    <3>4. PICK y : y = Append(x, e)
      OBVIOUS
    <3>5. New(x, e)
      BY <3>2, <2>6, <2>10, <2>12, <1>7 DEF New
    <3>6. /\ GoodList(y) /\ Filled(y, 0) /\ Len(y) = Len(x) + 1
          /\ \A j \in 1..Len(y) : y[j] = e \/ \E i \in 1..Len(x) : y[j] = x[i]
      <4>1. Longer(y, x, e)
        BY <3>2, <3>3, <3>4, <3>5, <2>10, AppendKeeps
      <4> QED BY <4>1 DEF Longer
    <3>7. Held(y) = Held(x) + Len(e.chain)
      <4>1. x \in Seq(Entry) /\ e \in Entry /\ y = Append(x, e)
        BY <3>2, <3>4, <2>13
      <4> QED BY <4>1, HeldAppended
    <3>8. Held(y) \in Nat /\ Held(y) <= u[k] /\ Len(y) <= k
      <4>1. PICK a \in Nat, b \in Nat, l \in Nat, h \in Nat :
              a = u[k] /\ b = u[k - 1] /\ l = Len(e.chain) /\ h = Held(x)
        BY <3>2, <2>10, <2>11
      <4>2. a = b + l /\ h <= b /\ Held(y) = h + l
        BY <4>1, <3>2, <3>7, <2>10, <2>11
      <4>3. h + l \in Nat /\ h + l <= a
        BY <4>2
      <4>4. PICK m \in Nat : m = Len(x)
        BY <2>13
      <4>5. k \in Nat /\ m <= k - 1 /\ Len(y) = m + 1
        BY <4>4, <3>6, <2>6, <2>10, <1>2
      <4>6. m + 1 <= k
        BY <4>5
      <4> QED BY <4>1, <4>2, <4>3, <4>5, <4>6
    <3>9. \A j \in 1..Len(y) : \E i \in 1..k : y[j].id = list[i].id
      <4>1. k \in 1..k
        BY <2>6, <1>2
      <4>2. TAKE j \in 1..Len(y)
      <4>3. CASE y[j] = e
        BY <4>1, <4>3, <3>2
      <4>4. CASE \E i \in 1..Len(x) : y[j] = x[i]
        <5>1. PICK i \in 1..Len(x) : y[j] = x[i]
          BY <4>4
        <5>2. PICK m \in 1..(k - 1) : x[i].id = list[m].id
          BY <2>10
        <5> QED BY <5>1, <5>2, <2>12
      <4> QED BY <4>3, <4>4, <3>6
    <3>10. c[k] = y
      <4>1. c[k] = IF list[k].timer > 0 THEN Append(c[k - 1], Aged(list[k])) ELSE c[k - 1]
        BY <2>6, <1>5
      <4>2. c[k] = Append(c[k - 1], Aged(list[k]))
        BY <4>1, <2>14
      <4> QED BY <4>2, <2>9, <3>1, <3>4
    <3>11. Kept(y, list, k, u[k])
      BY <3>6, <3>8, <3>9 DEF Kept
    <3> QED BY <3>10, <3>11, <2>7
  <2>15. CASE ~(list[k].timer > 0)
    <3>1. c[k] = x
      <4>1. c[k] = IF list[k].timer > 0 THEN Append(c[k - 1], Aged(list[k])) ELSE c[k - 1]
        BY <2>6, <1>5
      <4>2. c[k] = c[k - 1]
        BY <4>1, <2>15
      <4> QED BY <4>2, <2>9
    <3>2. Held(x) <= u[k] /\ Len(x) <= k
      <4>1. PICK a \in Nat, b \in Nat, l \in Nat, h \in Nat, m \in Nat :
              a = u[k] /\ b = u[k - 1] /\ l = Len(list[k].chain) /\ h = Held(x) /\ m = Len(x)
        BY <2>10, <2>11, <2>13
      <4>2. a = b + l /\ h <= b /\ k \in Nat /\ m <= k - 1
        BY <4>1, <2>6, <2>10, <2>11, <1>2
      <4>3. h <= a /\ m <= k
        BY <4>2
      <4> QED BY <4>1, <4>3
    <3>3. \A j \in 1..Len(x) : \E i \in 1..k : x[j].id = list[i].id
      BY <2>10, <2>12
    <3>4. Kept(x, list, k, u[k])
      BY <3>2, <3>3, <2>10 DEF Kept
    <3> QED BY <3>1, <3>4, <2>7
  <2> QED BY <2>14, <2>15
<1>9. Kept(c[n], list, n, u[n])
  <2>1. n \in 0..n
    BY <1>2
  <2> QED BY <2>1, <1>8
<1> QED BY <1>3, <1>4, <1>9 DEF Kept, n

-----------------------------------------------------------------------------
(* The invariant *)

HandedUp(h) ==
    h.chain # <<>> =>
          /\ Head(h.chain).from = 0 /\ Apart(h.chain)
          /\ OneCut(h.id) => Last(h.chain).last

ReassInv ==
    /\ GoodList(reassdatagrams) /\ Filled(reassdatagrams, 0)
    /\ pbufcount = Held(reassdatagrams) /\ pbufcount <= MaxPbufs
    /\ Len(reassdatagrams) <= NumReassdata
    /\ HandedUp(handed)

LEMMA Bounds == NumReassdata \in Nat /\ NumReassdata > 0 /\ MaxPbufs \in Nat /\ MaxPbufs > 0
BY ReassemblyAssumption DEF ReassemblyAssumption

LEMMA ReassStarts ==
    ASSUME ReassInit
    PROVE  ReassInv
<1>1. reassdatagrams = <<>> /\ pbufcount = 0 /\ handed = [id |-> NoDatagram, chain |-> <<>>]
  BY DEF ReassInit
<1>2. <<>> \in Seq(Entry) /\ Len(<<>>) = 0
  OBVIOUS
<1>3. GoodList(<<>>) /\ Filled(<<>>, 0)
  BY <1>2 DEF GoodList, Filled, OneEntryEach
<1>4. HandedUp(handed)
  BY <1>1 DEF HandedUp
<1> QED BY <1>1, <1>2, <1>3, <1>4, HeldEmpty, Bounds DEF ReassInv

LEMMA TmrKeeps ==
    ASSUME ReassInv, ReassTmr
    PROVE  ReassInv'
<1>1. PICK r : r = Ticked(reassdatagrams)
  OBVIOUS
<1>2. GoodList(r) /\ Filled(r, 0) /\ Len(r) <= Len(reassdatagrams) /\ Held(r) \in Nat /\ Held(r) <= Held(reassdatagrams)
  BY <1>1, TickKeeps DEF ReassInv
<1>3. reassdatagrams' = r /\ pbufcount' = pbufcount - (Held(reassdatagrams) - Held(reassdatagrams')) /\ handed' = handed
  BY <1>1 DEF ReassTmr
<1>4. reassdatagrams \in Seq(Entry) /\ r \in Seq(Entry)
  BY <1>2 DEF ReassInv, GoodList
<1>5. Held(reassdatagrams) \in Nat
  <2>1. PICK t \in [0..Len(reassdatagrams) -> Nat] : Held(reassdatagrams) = t[Len(reassdatagrams)]
    BY <1>4, HeldIs
  <2> QED BY <2>1, <1>4
<1>6. pbufcount' = Held(r) /\ Held(r) <= MaxPbufs
  BY <1>2, <1>3, <1>5, Bounds DEF ReassInv
<1>7. Len(r) <= NumReassdata
  BY <1>2, <1>4, Bounds DEF ReassInv
<1>8. HandedUp(handed')
  BY <1>3 DEF ReassInv
<1> QED BY <1>2, <1>3, <1>6, <1>7, <1>8 DEF ReassInv, HandedUp

\* What becomes of the list, the count and what is handed up.
After(r, count, h) ==
    /\ GoodList(r) /\ Filled(r, 0) /\ count = Held(r) /\ count <= MaxPbufs /\ Len(r) <= NumReassdata /\ HandedUp(h)

LEMMA OneField ==
    \A e \in Entry : \A s : [e EXCEPT !.last = s] = [id |-> e.id, timer |-> e.timer, chain |-> e.chain, last |-> s]
BY DEF Entry

LEMMA TwoFields ==
    ASSUME NEW e \in Entry, NEW s \in BOOLEAN, NEW b \in Seq(Frag)
    PROVE  [e EXCEPT !.last = s, !.chain = b] = [id |-> e.id, timer |-> e.timer, chain |-> b, last |-> s]
<1>1. [e EXCEPT !.last = s] \in Entry
  BY DEF Entry
<1>2. [e EXCEPT !.last = s] = [id |-> e.id, timer |-> e.timer, chain |-> e.chain, last |-> s]
  BY OneField
<1>3. \A x \in Entry : [x EXCEPT !.chain = b] = [id |-> x.id, timer |-> x.timer, chain |-> b, last |-> x.last]
  BY DEF Entry
<1>4. [e EXCEPT !.last = s, !.chain = b] = [[e EXCEPT !.last = s] EXCEPT !.chain = b]
  OBVIOUS
<1> QED BY <1>1, <1>2, <1>3, <1>4

\* The entry of the fragment's datagram when the fragment is thrown away, and when it is taken.
ThrownInto(list, p, seen)   == [list EXCEPT ![p].last = seen]
TakenInto(list, p, seen, a) == [list EXCEPT ![p].last = seen, ![p].chain = a]

LEMMA ThrownKeeps ==
    ASSUME NEW d \in Datagrams, NEW f \in Cuts[d], NEW list, NEW p, Entered(list, p, d), Overlaps(list[p].chain, f),
           NEW seen \in BOOLEAN, seen <=> list[p].last \/ f.last, NEW r, r = ThrownInto(list, p, seen)
    PROVE  GoodList(r) /\ Filled(r, 0) /\ Len(r) = Len(list) /\ Held(r) = Held(list)
<1>1. list \in Seq(Entry) /\ p \in 1..Len(list) /\ list[p].id = d /\ EntryOK(list[p]) /\ GoodList(list) /\ Filled(list, p)
  BY DEF Entered, GoodList
<1>2. list[p] \in Entry /\ list[p].timer \in Nat /\ list[p].chain \in Seq(Frag) /\ list[p].last \in BOOLEAN
      /\ Len(list[p].chain) \in Nat
  BY <1>1, EntryFields
<1>3. seen \in BOOLEAN /\ (seen <=> list[p].last \/ f.last)
  OBVIOUS
<1> DEFINE e == [id |-> d, timer |-> list[p].timer, chain |-> list[p].chain, last |-> seen]
<1>4. e \in Entry /\ e.id = d /\ e.chain = list[p].chain /\ e.last = seen
  BY <1>2 DEF Entry
<1>5. r = [list EXCEPT ![p] = e]
  <2>1. [list[p] EXCEPT !.last = seen] = e
    BY <1>1, <1>2, OneField
  <2>2. r = [list EXCEPT ![p] = [list[p] EXCEPT !.last = seen]]
    BY <1>3 DEF ThrownInto
  <2> QED BY <2>1, <2>2
<1> HIDE DEF e
<1>6. LastOK(d, list[p].chain, seen) /\ list[p].chain # <<>>
  <2>1. ChainOK(d, list[p].chain) /\ LastOK(d, list[p].chain, list[p].last)
    BY <1>1 DEF EntryOK
  <2> QED BY <2>1, <1>2, <1>3, ThrownAway
<1>7. EntryOK(e)
  BY <1>1, <1>4, <1>6 DEF EntryOK
<1>8. /\ GoodList(r) /\ Filled(r, 0) /\ Len(r) = Len(list)
      /\ Held(r) = Held(list) + Len(e.chain) - Len(list[p].chain)
  <2>1. e.id = list[p].id /\ e.chain # <<>>
    BY <1>1, <1>4, <1>6
  <2>2. Replaced(r, list, p, e)
    BY <2>1, <1>1, <1>4, <1>5, <1>7, ReplaceKeeps
  <2> QED BY <2>2 DEF Replaced
<1>9. Held(list) \in Nat
  <2>1. PICK t \in [0..Len(list) -> Nat] : Held(list) = t[Len(list)]
    BY <1>1, HeldIs
  <2> QED BY <2>1, <1>1
<1> QED BY <1>2, <1>4, <1>8, <1>9

LEMMA LongerKeeps ==
    ASSUME NEW d \in Datagrams, NEW f \in Cuts[d], NEW list, NEW p, Entered(list, p, d), ~Overlaps(list[p].chain, f),
           NEW seen \in BOOLEAN, seen <=> list[p].last \/ f.last, ~(seen /\ Valid(list[p].chain, f)),
           NEW r, r = TakenInto(list, p, seen, Chained(list[p].chain, f))
    PROVE  GoodList(r) /\ Filled(r, 0) /\ Len(r) = Len(list) /\ Held(r) = Held(list) + 1
<1>1. list \in Seq(Entry) /\ p \in 1..Len(list) /\ list[p].id = d /\ EntryOK(list[p]) /\ GoodList(list) /\ Filled(list, p)
  BY DEF Entered, GoodList
<1>2. list[p] \in Entry /\ list[p].timer \in Nat /\ list[p].chain \in Seq(Frag) /\ list[p].last \in BOOLEAN
      /\ Len(list[p].chain) \in Nat
  BY <1>1, EntryFields
<1>3. seen \in BOOLEAN /\ (seen <=> list[p].last \/ f.last)
  OBVIOUS
<1>4. PICK c : c = list[p].chain
  OBVIOUS
<1>5. PICK a : a = Chained(c, f)
  OBVIOUS
<1>6. ChainOK(d, c) /\ LastOK(d, c, list[p].last) /\ c \in Seq(Frag) /\ Len(c) \in Nat
  BY <1>1, <1>2, <1>4 DEF EntryOK
<1>7. ChainOK(d, a) /\ Joins(a, c, f) /\ Len(a) = Len(c) + 1 /\ a # <<>>
  BY <1>4, <1>5, <1>6, ChainedOK
<1>8. LastOK(d, a, seen)
  BY <1>2, <1>3, <1>6, <1>7, LastChained
<1>9. ~Complete(a)
  <2>1. SUFFICES ASSUME Complete(a) PROVE FALSE
    OBVIOUS
  <2>2. a \in Seq(Frag) /\ Len(a) \in Nat /\ Len(a) > 0
    BY <1>6, <1>7 DEF ChainOK
  <2>3. Head(a) = a[1] /\ Last(a) = a[Len(a)] /\ Len(a) \in 1..Len(a)
    BY <2>2 DEF Last
  <2>4. a[1].from = 0 /\ a[Len(a)].last /\ Joined(a)
    BY <2>1, <2>3 DEF Complete
  <2>5. seen
    BY <2>3, <2>4, <1>8 DEF LastOK
  <2>6. ~Valid(c, f)
    BY <2>5, <1>3, <1>4
  <2>7. ~(a[1].from = 0 /\ Joined(a))
    BY <2>6, <1>4, <1>5, <1>6, ValidIs
  <2> QED BY <2>4, <2>7
<1> DEFINE e == [id |-> d, timer |-> list[p].timer, chain |-> a, last |-> seen]
<1>10. e \in Entry /\ e.id = d /\ e.chain = a /\ e.last = seen
  <2>1. a \in Seq(Frag)
    BY <1>7 DEF ChainOK
  <2> QED BY <2>1, <1>2 DEF Entry
<1>11. r = [list EXCEPT ![p] = e]
  <2>1. [list[p] EXCEPT !.last = seen, !.chain = a] = e
    <3>1. a \in Seq(Frag)
      BY <1>7 DEF ChainOK
    <3>2. [list[p] EXCEPT !.last = seen, !.chain = a]
             = [id |-> list[p].id, timer |-> list[p].timer, chain |-> a, last |-> seen]
      BY <3>1, <1>2, <1>3, TwoFields
    <3> QED BY <3>2, <1>1
  <2>2. r = [list EXCEPT ![p].last = seen, ![p].chain = a]
    BY <1>4, <1>5 DEF TakenInto
  <2>3. r = [list EXCEPT ![p] = [list[p] EXCEPT !.last = seen, !.chain = a]]
    BY <2>2, <1>1
  <2> QED BY <2>1, <2>3
<1> HIDE DEF e
<1>12. EntryOK(e)
  BY <1>7, <1>8, <1>9, <1>10 DEF EntryOK
<1>13. /\ GoodList(r) /\ Filled(r, 0) /\ Len(r) = Len(list)
       /\ Held(r) = Held(list) + Len(e.chain) - Len(list[p].chain)
  <2>1. e.id = list[p].id /\ e.chain # <<>>
    BY <1>1, <1>7, <1>10
  <2>2. Replaced(r, list, p, e)
    BY <2>1, <1>1, <1>10, <1>11, <1>12, ReplaceKeeps
  <2> QED BY <2>2 DEF Replaced
<1>14. Held(list) \in Nat
  <2>1. PICK t \in [0..Len(list) -> Nat] : Held(list) = t[Len(list)]
    BY <1>1, HeldIs
  <2> QED BY <2>1, <1>1
<1>15. PICK l \in Nat : l = Len(c)
  BY <1>6
<1>16. Held(r) = Held(list) + (l + 1) - l
  BY <1>4, <1>7, <1>10, <1>13, <1>15
<1>17. Held(r) = Held(list) + 1
  BY <1>14, <1>16
<1> QED BY <1>13, <1>17

LEMMA HandedKeeps ==
    ASSUME NEW d \in Datagrams, NEW f \in Cuts[d], NEW list, NEW p, Entered(list, p, d), ~Overlaps(list[p].chain, f),
           list[p].last \/ f.last, Valid(list[p].chain, f),
           NEW r, r = RemoveAt(list, p), NEW h, h = [id |-> d, chain |-> Chained(list[p].chain, f)]
    PROVE  /\ GoodList(r) /\ Filled(r, 0) /\ Len(r) = Len(list) - 1 /\ Held(r) = Held(list) + 1 - Len(h.chain)
           /\ HandedUp(h)
<1>1. list \in Seq(Entry) /\ p \in 1..Len(list) /\ list[p].id = d /\ EntryOK(list[p]) /\ GoodList(list) /\ Filled(list, p)
  BY DEF Entered, GoodList
<1>2. list[p].last \in BOOLEAN /\ Len(list[p].chain) \in Nat
  BY <1>1, EntryFields
<1>4. PICK c : c = list[p].chain
  OBVIOUS
<1>5. PICK a : a = Chained(c, f)
  OBVIOUS
<1>6. ChainOK(d, c) /\ LastOK(d, c, list[p].last) /\ Len(c) \in Nat
  BY <1>1, <1>2, <1>4 DEF EntryOK
<1>7. ChainOK(d, a) /\ Joins(a, c, f) /\ Len(a) = Len(c) + 1 /\ a # <<>>
  BY <1>4, <1>5, <1>6, ChainedOK
<1>8. LastOK(d, a, TRUE)
  <2>1. LastOK(d, a, list[p].last \/ f.last)
    BY <1>2, <1>6, <1>7, LastChained
  <2>2. (list[p].last \/ f.last) = TRUE
    OBVIOUS
  <2> QED BY <2>1, <2>2
<1>9. a[1].from = 0 /\ Apart(a)
  BY <1>4, <1>5, <1>6, ValidIs
<1>10. Head(a) = a[1]
  BY <1>6, <1>7 DEF ChainOK
<1>11. OneCut(d) => Last(a).last
  BY <1>7, <1>8, <1>9, LastIsLast
<1>12. h.id = d /\ h.chain = a
  BY <1>4, <1>5
<1>13. HandedUp(h)
  BY <1>9, <1>10, <1>11, <1>12 DEF HandedUp
<1>14. GoodList(r) /\ Filled(r, 0) /\ Len(r) = Len(list) - 1
  BY <1>1, RemoveKeeps
<1>15. Held(r) = Held(list) - Len(c) /\ Held(list) \in Nat
  BY <1>1, <1>4, HeldRemoved
<1> QED BY <1>6, <1>7, <1>12, <1>13, <1>14, <1>15

LEMMA ReceiveKeeps ==
    ASSUME ReassInv, NEW d \in Datagrams, NEW f \in Cuts[d], Receive(d, f)
    PROVE  ReassInv'
<1> DEFINE old   == reassdatagrams
           made  == IF pbufcount + 1 > MaxPbufs THEN Room(reassdatagrams, d) ELSE reassdatagrams
           again == IF At(made, d) = {} /\ Len(made) >= NumReassdata THEN Room(made, d) ELSE made
           list  == IF At(made, d) = {} THEN <<Fresh(d)>> \o again ELSE again
           p     == EntryOf(list, d)
           seen  == list[p].last \/ f.last
           c     == list[p].chain
           count == pbufcount - (Held(reassdatagrams) - Held(made))
           counted == count - (Held(made) - Held(again)) + 1 - Uncounted(c, f)
<1>1. made = IF pbufcount + 1 > MaxPbufs THEN Room(old, d) ELSE old
  BY Zenon
<1>6. \/ UNCHANGED <<reassdatagrams, pbufcount, handed>>
      \/ reassdatagrams' = made /\ pbufcount' = count /\ UNCHANGED handed
      \/ /\ ~(count + 1 > MaxPbufs)
         /\ \/ /\ Overlaps(c, f)
               /\ reassdatagrams' = [list EXCEPT ![p].last = seen] /\ pbufcount' = counted /\ UNCHANGED handed
            \/ /\ ~Overlaps(c, f) /\ seen /\ Valid(c, f)
               /\ reassdatagrams' = RemoveAt(list, p)
               /\ handed' = [id |-> d, chain |-> Chained(c, f)]
               /\ pbufcount' = counted - Len(handed'.chain)
            \/ /\ ~Overlaps(c, f) /\ ~(seen /\ Valid(c, f))
               /\ reassdatagrams' = [list EXCEPT ![p].last = seen, ![p].chain = Chained(c, f)]
               /\ pbufcount' = counted /\ UNCHANGED handed
  BY DEF Receive
<1> HIDE DEF made
<1>2. again = IF At(made, d) = {} /\ Len(made) >= NumReassdata THEN Room(made, d) ELSE made
  OBVIOUS
<1> HIDE DEF again
<1>3. list = IF At(made, d) = {} THEN <<Fresh(d)>> \o again ELSE again
  OBVIOUS
<1> HIDE DEF list
<1>4. p = EntryOf(list, d)
  OBVIOUS
<1> HIDE DEF p
<1>5. count = pbufcount - (Held(old) - Held(made)) /\ (seen <=> list[p].last \/ f.last) /\ seen \in BOOLEAN /\ c = list[p].chain
      /\ counted = count - (Held(made) - Held(again)) + 1 - Uncounted(c, f)
  OBVIOUS
<1> HIDE DEF count, seen, c, counted
<1>7. /\ GoodList(old) /\ Filled(old, 0) /\ Held(old) \in Nat /\ pbufcount = Held(old) /\ pbufcount <= MaxPbufs
      /\ Len(old) <= NumReassdata /\ Len(old) \in Nat /\ HandedUp(handed)
  <2>1. old \in Seq(Entry)
    BY DEF ReassInv, GoodList
  <2>2. PICK t \in [0..Len(old) -> Nat] : Held(old) = t[Len(old)]
    BY <2>1, HeldIs
  <2>3. Held(old) \in Nat /\ Len(old) \in Nat
    BY <2>1, <2>2
  <2> QED BY <2>3 DEF ReassInv
<1>8. /\ GoodList(made) /\ Filled(made, 0) /\ Held(made) \in Nat /\ Held(made) <= Held(old) /\ Len(made) <= NumReassdata
      /\ Len(made) \in Nat
  <2>1. CASE pbufcount + 1 > MaxPbufs
    <3>1. Made(made, old, d)
      BY <2>1, <1>1, <1>7, RoomKeeps
    <3>2. made \in Seq(Entry)
      BY <3>1 DEF Made, GoodList
    <3>3. Len(made) \in Nat /\ Len(made) <= Len(old)
      BY <3>1, <3>2 DEF Made
    <3>4. Len(made) <= NumReassdata
      BY <3>3, <1>7, Bounds
    <3> QED BY <3>1, <3>3, <3>4 DEF Made
  <2>2. CASE ~(pbufcount + 1 > MaxPbufs)
    BY <2>2, <1>1, <1>7
  <2> QED BY <2>1, <2>2
<1>9. count = Held(made)
  BY <1>5, <1>7, <1>8
<1>10. /\ GoodList(again) /\ Filled(again, 0) /\ Held(again) \in Nat /\ Held(again) <= Held(made)
       /\ At(made, d) = {} => At(again, d) = {} /\ Len(again) < NumReassdata
       /\ At(made, d) # {} => again = made
  <2>1. CASE At(made, d) = {} /\ Len(made) >= NumReassdata
    <3>1. Made(again, made, d)
      BY <2>1, <1>2, <1>8, RoomKeeps
    <3>2. made # <<>>
      BY <2>1, <1>8, Bounds
    <3>3. Len(again) = Len(made) - 1
      BY <3>1, <3>2, <2>1 DEF Made
    <3>4. Len(again) < NumReassdata
      BY <3>3, <1>8, Bounds
    <3> QED BY <3>1, <3>4, <2>1 DEF Made
  <2>2. CASE At(made, d) = {} /\ ~(Len(made) >= NumReassdata)
    <3>1. again = made /\ Len(again) < NumReassdata
      BY <2>2, <1>2, <1>8, Bounds
    <3> QED BY <3>1, <2>2, <1>8
  <2>3. CASE At(made, d) # {}
    BY <2>3, <1>2, <1>8
  <2> QED BY <2>1, <2>2, <2>3
<1>11. Entered(list, p, d) /\ Held(list) = Held(again)
  <2>1. CASE At(made, d) = {}
    <3>1. list = <<Fresh(d)>> \o again
      BY <2>1, <1>3
    <3> QED BY <3>1, <2>1, <1>4, <1>10, BeginKeeps
  <2>2. CASE At(made, d) # {}
    <3>1. list = made /\ again = made
      BY <2>2, <1>3, <1>10
    <3>2. p \in At(list, d)
      BY <3>1, <2>2, <1>4 DEF EntryOf
    <3>3. p \in 1..Len(list) /\ list[p].id = d
      <4>1. list \in Seq(Entry)
        BY <3>1, <1>8 DEF GoodList
      <4>2. DOMAIN list = 1..Len(list)
        BY <4>1
      <4> QED BY <4>2, <3>2 DEF At
    <3>4. Filled(list, p)
      <4>1. \A i \in 1..Len(list) : i # 0
        BY <3>1, <1>8
      <4> QED BY <4>1, <3>1, <1>8 DEF Filled
    <3> QED BY <3>1, <3>3, <3>4, <1>8 DEF Entered
  <2> QED BY <2>1, <2>2
<1>12. Len(list) <= NumReassdata /\ Len(list) \in Nat
  <2>1. list \in Seq(Entry)
    BY <1>11 DEF Entered, GoodList
  <2> QED BY <2>1, <1>11 DEF Entered
<1> HIDE DEF old
<1>13. CASE UNCHANGED <<reassdatagrams, pbufcount, handed>>
  BY <1>13 DEF ReassInv
<1>14. CASE reassdatagrams' = made /\ pbufcount' = count /\ UNCHANGED handed
  <2>1. Held(made) <= MaxPbufs
    BY <1>7, <1>8, Bounds
  <2>2. handed' = handed
    BY <1>14
  <2> QED BY <2>1, <2>2, <1>7, <1>8, <1>9, <1>14 DEF ReassInv
<1>15. CASE /\ ~(count + 1 > MaxPbufs) /\ Overlaps(c, f)
            /\ reassdatagrams' = [list EXCEPT ![p].last = seen] /\ pbufcount' = counted /\ UNCHANGED handed
  <2>1. PICK r : r = [list EXCEPT ![p].last = seen]
    OBVIOUS
  <2>2. GoodList(r) /\ Filled(r, 0) /\ Len(r) = Len(list) /\ Held(r) = Held(list)
    <3>1. Overlaps(list[p].chain, f)
      BY <1>5, <1>15
    <3>2. r = ThrownInto(list, p, seen)
      BY <2>1 DEF ThrownInto
    <3> QED BY <3>1, <3>2, <1>5, <1>11, ThrownKeeps
  <2>3. Uncounted(c, f) = 1
    BY <1>15 DEF Uncounted
  <2>4. counted = Held(r) /\ Held(r) <= MaxPbufs
    <3>1. PICK x \in Nat, y \in Nat : x = Held(made) /\ y = Held(again)
      BY <1>8, <1>10
    <3>2. count = x /\ y <= x /\ ~(x + 1 > MaxPbufs) /\ Held(r) = y
      BY <3>1, <2>2, <1>9, <1>10, <1>11, <1>15
    <3>3. counted = x - (x - y) + 1 - 1
      BY <3>1, <3>2, <2>3, <1>5
    <3> QED BY <3>2, <3>3, Bounds
  <2>5. handed' = handed /\ reassdatagrams' = r
    BY <2>1, <1>15
  <2> QED BY <2>2, <2>4, <2>5, <1>7, <1>12, <1>15 DEF ReassInv
<1>16. CASE /\ ~(count + 1 > MaxPbufs) /\ ~Overlaps(c, f) /\ seen /\ Valid(c, f)
            /\ reassdatagrams' = RemoveAt(list, p)
            /\ handed' = [id |-> d, chain |-> Chained(c, f)]
            /\ pbufcount' = counted - Len(handed'.chain)
  <2>1. PICK r : r = RemoveAt(list, p)
    OBVIOUS
  <2>2. PICK h : h = [id |-> d, chain |-> Chained(c, f)]
    OBVIOUS
  <2>3. /\ GoodList(r) /\ Filled(r, 0) /\ Len(r) = Len(list) - 1 /\ Held(r) = Held(list) + 1 - Len(h.chain)
        /\ HandedUp(h)
    <3>1. /\ ~Overlaps(list[p].chain, f) /\ (list[p].last \/ f.last) /\ Valid(list[p].chain, f)
          /\ h = [id |-> d, chain |-> Chained(list[p].chain, f)]
      BY <2>2, <1>5, <1>16
    <3> QED BY <3>1, <2>1, <1>11, HandedKeeps
  <2>4. Uncounted(c, f) = 0
    BY <1>16 DEF Uncounted
  <2>5. r \in Seq(Entry) /\ Held(r) \in Nat
    <3>1. r \in Seq(Entry)
      BY <2>3 DEF GoodList
    <3>2. PICK t \in [0..Len(r) -> Nat] : Held(r) = t[Len(r)]
      BY <3>1, HeldIs
    <3> QED BY <3>1, <3>2
  <2>6. Len(h.chain) \in Nat /\ Len(h.chain) > 0
    <3>1. EntryOK(list[p]) /\ list[p].id = d
      BY <1>11 DEF Entered, GoodList
    <3>2. ChainOK(d, c)
      BY <3>1, <1>5 DEF EntryOK
    <3>3. PICK a : a = Chained(c, f)
      OBVIOUS
    <3>4. ChainOK(d, a) /\ a # <<>>
      BY <3>2, <3>3, <1>16, ChainedOK
    <3>5. a \in Seq(Frag)
      BY <3>4 DEF ChainOK
    <3>6. Len(a) \in Nat /\ Len(a) > 0
      BY <3>4, <3>5
    <3>7. h.chain = a
      BY <3>3, <2>2
    <3> QED BY <3>6, <3>7
  <2>7. pbufcount' = counted - Len(h.chain) /\ handed' = h /\ reassdatagrams' = r
    BY <2>1, <2>2, <1>16
  <2>8. counted - Len(h.chain) = Held(r) /\ Held(r) <= MaxPbufs
    <3>1. PICK x \in Nat, y \in Nat : x = Held(made) /\ y = Held(again)
      BY <1>8, <1>10
    <3>2. PICK l \in Nat : l = Len(h.chain) /\ l > 0
      BY <2>6
    <3>3. count = x /\ y <= x /\ ~(x + 1 > MaxPbufs) /\ Held(r) = y + 1 - l
      BY <3>1, <3>2, <2>3, <1>9, <1>10, <1>11, <1>16
    <3>4. counted = x - (x - y) + 1 - 0
      BY <3>1, <3>3, <2>4, <1>5
    <3>5. counted - l = Held(r) /\ Held(r) <= MaxPbufs
      BY <3>3, <3>4, Bounds
    <3> QED BY <3>2, <3>5
  <2>9. Len(r) <= NumReassdata
    BY <2>3, <1>12, Bounds
  <2> QED BY <2>3, <2>7, <2>8, <2>9 DEF ReassInv
<1>17. CASE /\ ~(count + 1 > MaxPbufs) /\ ~Overlaps(c, f) /\ ~(seen /\ Valid(c, f))
            /\ reassdatagrams' = [list EXCEPT ![p].last = seen, ![p].chain = Chained(c, f)]
            /\ pbufcount' = counted /\ UNCHANGED handed
  <2>1. PICK r : r = [list EXCEPT ![p].last = seen, ![p].chain = Chained(c, f)]
    OBVIOUS
  <2>2. GoodList(r) /\ Filled(r, 0) /\ Len(r) = Len(list) /\ Held(r) = Held(list) + 1
    <3>1. ~Overlaps(list[p].chain, f) /\ ~(seen /\ Valid(list[p].chain, f)) /\ c = list[p].chain
      BY <1>5, <1>17
    <3>2. r = TakenInto(list, p, seen, Chained(c, f))
      BY <2>1 DEF TakenInto
    <3>3. r = TakenInto(list, p, seen, Chained(list[p].chain, f))
      BY <3>1, <3>2
    <3> QED BY <3>1, <3>3, <1>5, <1>11, LongerKeeps
  <2>3. Uncounted(c, f) = 0
    BY <1>17 DEF Uncounted
  <2>4. counted = Held(r) /\ Held(r) <= MaxPbufs
    <3>1. PICK x \in Nat, y \in Nat : x = Held(made) /\ y = Held(again)
      BY <1>8, <1>10
    <3>2. count = x /\ y <= x /\ ~(x + 1 > MaxPbufs) /\ Held(r) = y + 1
      BY <3>1, <2>2, <1>9, <1>10, <1>11, <1>17
    <3>3. counted = x - (x - y) + 1 - 0
      BY <3>1, <3>2, <2>3, <1>5
    <3> QED BY <3>2, <3>3, Bounds
  <2>5. handed' = handed /\ reassdatagrams' = r
    BY <2>1, <1>17
  <2> QED BY <2>2, <2>4, <2>5, <1>7, <1>12, <1>17 DEF ReassInv
<1> QED BY <1>6, <1>13, <1>14, <1>15, <1>16, <1>17

LEMMA ReassInvSays ==
    ASSUME ReassInv
    PROVE  ReassemblySound
<1>1. reassdatagrams \in Seq(Entry) /\ DOMAIN reassdatagrams = 1..Len(reassdatagrams)
  BY DEF ReassInv, GoodList
<1>2. ASSUME NEW i \in DOMAIN reassdatagrams
      PROVE  /\ At(reassdatagrams, reassdatagrams[i].id) = {i} /\ reassdatagrams[i].chain # <<>>
             /\ ~(Head(reassdatagrams[i].chain).from = 0 /\ Last(reassdatagrams[i].chain).last /\ Joined(reassdatagrams[i].chain))
  <2>1. i # 0 /\ i \in 1..Len(reassdatagrams)
    BY <1>1
  <2>2. At(reassdatagrams, reassdatagrams[i].id) = {i}
    BY <2>1, <1>1 DEF At, ReassInv, GoodList, OneEntryEach
  <2>3. reassdatagrams[i].chain # <<>>
    BY <2>1 DEF ReassInv, Filled
  <2>4. EntryOK(reassdatagrams[i])
    BY <2>1 DEF ReassInv, GoodList
  <2> QED BY <2>2, <2>3, <2>4 DEF EntryOK, Complete
<1>3. HandedUp(handed)
  BY DEF ReassInv
<1> QED BY <1>2, <1>3 DEF ReassInv, ReassemblySound, HandedUp

(* Of datagrams of whatever length, cut and repeated in any way, with any   *)
(* limits: the pbufs are counted right and never too many, a datagram has   *)
(* one entry, none that is complete waits, and what is handed up runs from  *)
(* its first fragment to its last, in order (ip_frag.c).                    *)
THEOREM ReassemblyIsSound == ReassSpec => []ReassemblySound
<1>1. ReassInit => ReassInv
  BY ReassStarts
<1>2. ReassInv /\ [ReassNext]_reassVars => ReassInv'
  <2> SUFFICES ASSUME ReassInv, [ReassNext]_reassVars PROVE ReassInv'
    OBVIOUS
  <2>1. CASE FragmentArrives
    BY <2>1, ReceiveKeeps DEF FragmentArrives
  <2>2. CASE ReassTmr
    BY <2>2, TmrKeeps
  <2>3. CASE UNCHANGED reassVars
    BY <2>3 DEF reassVars, ReassInv
  <2> QED BY <2>1, <2>2, <2>3 DEF ReassNext
<1>3. ReassInv => ReassemblySound
  BY ReassInvSays
<1> QED BY <1>1, <1>2, <1>3, PTL DEF ReassSpec

-----------------------------------------------------------------------------
(* The timers of the kernel: when those of the list are due *)

TimerEntry == [timer : Timers, tcnt : Nat]

LEMMA TimerEntryFields ==
    ASSUME NEW list \in Seq(TimerEntry)
    PROVE  /\ Len(list) \in Nat
           /\ \A i \in 1..Len(list) : list[i] \in TimerEntry /\ list[i].timer \in Timers /\ list[i].tcnt \in Nat
<1>1. Len(list) \in Nat /\ \A i \in 1..Len(list) : list[i] \in TimerEntry
  OBVIOUS
<1>2. \A d \in TimerEntry : d.timer \in Timers /\ d.tcnt \in Nat
  BY DEF TimerEntry
<1> QED BY <1>1, <1>2

LEMMA UntilIs ==
    ASSUME NEW list \in Seq(TimerEntry)
    PROVE  /\ Until(list, 0) = 0
           /\ \A i \in 1..Len(list) : Until(list, i) = Until(list, i - 1) + list[i].tcnt
<1> DEFINE n == Len(list)
           s == [i \in 1..n |-> list[i].tcnt]
           Step(t) == [j \in 0..n |-> IF j = 0 THEN 0 ELSE t[j - 1] + list[j].tcnt]
           c == CHOOSE t : t = Step(t)
<1>1. n \in Nat /\ \A i \in 1..n : s[i] = list[i].tcnt /\ s[i] \in Int
  BY TimerEntryFields
<1>2. PICK t \in [0..n -> Int] : Sums(t, s, n)
  <2> HIDE DEF n, s
  <2> QED BY <1>1, SumExists
<1>3. t = Step(t)
  <2>1. \A j \in 0..n : t[j] = IF j = 0 THEN 0 ELSE t[j - 1] + list[j].tcnt
    <3>1. \A j \in 0..n : j # 0 => j \in 1..n
      BY <1>1
    <3> QED BY <3>1, <1>1, <1>2 DEF Sums
  <2> HIDE DEF n, s
  <2> QED BY <2>1
<1>4. c = Step(c)
  <2> HIDE DEF Step
  <2> QED BY <1>3
<1>5. \A i \in 0..n : Until(list, i) = c[i]
  BY DEF Until
<1> HIDE DEF c
<1>6. c[0] = 0
  <2> HIDE DEF n, s
  <2>1. 0 \in 0..n
    BY <1>1
  <2> QED BY <2>1, <1>4
<1>7. \A i \in 1..n : c[i] = c[i - 1] + list[i].tcnt
  <2> HIDE DEF n, s
  <2>1. \A i \in 1..n : i \in 0..n /\ i # 0
    BY <1>1
  <2> QED BY <2>1, <1>4
<1>8. \A i \in 1..n : i \in 0..n /\ i - 1 \in 0..n
  <2> HIDE DEF n
  <2> QED BY <1>1
<1>9. 0 \in 0..n
  <2> HIDE DEF n
  <2> QED BY <1>1
<1> HIDE DEF s, Step
<1> QED BY <1>5, <1>6, <1>7, <1>8, <1>9

LEMMA UntilGrows ==
    ASSUME NEW list \in Seq(TimerEntry)
    PROVE  \A i \in 0..Len(list) : Until(list, i) \in Nat /\ \A j \in i..Len(list) : Until(list, i) <= Until(list, j)
<1> DEFINE n == Len(list)
           s == [i \in 1..n |-> list[i].tcnt]
           t == [i \in 0..n |-> Until(list, i)]
<1>1. n \in Nat /\ \A i \in 1..n : s[i] = list[i].tcnt /\ s[i] \in Nat
  BY TimerEntryFields
<1>2. \A i \in 0..n : t[i] = Until(list, i)
  OBVIOUS
<1>3. Sums(t, s, n)
  <2>1. \A i \in 1..n : i \in 0..n /\ i - 1 \in 0..n
    <3> HIDE DEF n
    <3> QED BY <1>1
  <2>2. 0 \in 0..n
    BY <1>1
  <2> HIDE DEF t, s
  <2> QED BY <2>1, <2>2, <1>1, <1>2, UntilIs DEF Sums
<1> HIDE DEF t, s
<1>4. \A i \in 0..n : t[i] \in Nat /\ \A j \in i..n : t[i] <= t[j]
  <2> HIDE DEF n
  <2> QED BY <1>1, <1>3, SumGrows
<1>5. \A i \in 0..n : \A j \in i..n : j \in 0..n
  <2> HIDE DEF n
  <2> QED BY <1>1
<1> QED BY <1>2, <1>4, <1>5

\* u sums the times of a list of m timeouts up.
UntilsUp(u, list, m) ==
    /\ list \in Seq(TimerEntry) /\ m = Len(list)
    /\ u[0] = 0 /\ \A i \in 1..m : u[i] = u[i - 1] + list[i].tcnt

LEMMA UntilsAre ==
    ASSUME NEW list, NEW u, NEW m, UntilsUp(u, list, m)
    PROVE  \A i \in 0..m : Until(list, i) = u[i]
<1> DEFINE n == Len(list)
           s == [i \in 1..n |-> list[i].tcnt]
           t == [i \in 0..n |-> Until(list, i)]
<1>0. list \in Seq(TimerEntry) /\ m = n /\ u[0] = 0 /\ \A i \in 1..n : u[i] = u[i - 1] + list[i].tcnt
  BY DEF UntilsUp
<1>1. n \in Nat /\ \A i \in 1..n : s[i] = list[i].tcnt
  BY <1>0
<1>2. \A i \in 0..n : t[i] = Until(list, i)
  OBVIOUS
<1>3. Sums(t, s, n)
  <2>1. \A i \in 1..n : i \in 0..n /\ i - 1 \in 0..n
    <3> HIDE DEF n
    <3> QED BY <1>1
  <2>2. 0 \in 0..n
    BY <1>1
  <2> HIDE DEF t, s
  <2> QED BY <2>1, <2>2, <1>0, <1>1, <1>2, UntilIs DEF Sums
<1> HIDE DEF t, s
<1>4. Sums(u, s, n)
  BY <1>0, <1>1 DEF Sums
<1>5. \A i \in 0..n : t[i] = u[i]
  <2> HIDE DEF n
  <2> QED BY <1>1, <1>3, <1>4, SumUnique
<1> QED BY <1>0, <1>2, <1>5

-----------------------------------------------------------------------------
(* What rt_timer_insert and rt_timer_remove do to it *)

LEMMA EntriesBefore ==
    ASSUME NEW list \in Seq(TimerEntry), NEW ticks \in Nat
    PROVE  \E p \in 0..Len(list) :
              /\ Cardinality({i \in DOMAIN list : Until(list, i) <= ticks}) = p
              /\ Until(list, p) <= ticks
              /\ p < Len(list) => Until(list, p + 1) > ticks
<1> DEFINE n == Len(list)
           P == {i \in DOMAIN list : Until(list, i) <= ticks}
           Late == {k \in 1..(n + 1) : k = n + 1 \/ Until(list, k) > ticks}
<1>1. n \in Nat /\ DOMAIN list = 1..n
  OBVIOUS
<1>2. \A i \in 0..n : Until(list, i) \in Nat /\ \A j \in i..n : Until(list, i) <= Until(list, j)
  BY UntilGrows
<1>3. Until(list, 0) = 0
  BY UntilIs
<1> HIDE DEF n
<1>4. PICK q \in Late : \A k \in Late : q <= k
  <2>1. Late \subseteq Nat /\ n + 1 \in Late
    BY <1>1
  <2> HIDE DEF Late
  <2> QED BY <2>1, LeastExists
<1> DEFINE p == q - 1
<1>5. p \in 0..n /\ q = p + 1 /\ q \in 1..(n + 1)
  BY <1>1, <1>4
<1>6. p < n => Until(list, p + 1) > ticks
  BY <1>4, <1>5, <1>1
<1>7. \A i \in 1..p : Until(list, i) <= ticks /\ i \in 1..n
  <2>1. TAKE i \in 1..p
  <2>2. i \in 1..n /\ i \in 0..n /\ i \in 1..(n + 1) /\ i < q
    BY <1>1, <1>5
  <2>3. i \notin Late
    BY <2>2, <1>4, <1>1
  <2> QED BY <2>2, <2>3, <1>2
<1>8. \A i \in (p + 1)..n : ~(Until(list, i) <= ticks)
  <2>1. TAKE i \in (p + 1)..n
  <2>2. p + 1 \in 0..n /\ i \in 0..n /\ i \in (p + 1)..n /\ p < n
    BY <1>1, <1>5
  <2>3. Until(list, p + 1) <= Until(list, i) /\ Until(list, p + 1) \in Nat /\ Until(list, i) \in Nat
    BY <2>2, <1>2
  <2> QED BY <2>2, <2>3, <1>6
<1>9. P = 1..p
  <2>1. \A i \in 1..n : i \in 1..p \/ i \in (p + 1)..n
    BY <1>1, <1>5
  <2> HIDE DEF p
  <2> QED BY <2>1, <1>1, <1>7, <1>8
<1>10. Cardinality(P) = p
  <2>1. Cardinality(1..p) = IF 1 > p THEN 0 ELSE p - 1 + 1
    BY <1>1, <1>5, FS_Interval
  <2>2. Cardinality(1..p) = p
    BY <2>1, <1>1, <1>5
  <2> QED BY <2>2, <1>9
<1>11. Until(list, p) <= ticks
  <2>1. p = 0 \/ p \in 1..p
    BY <1>1, <1>5
  <2> QED BY <2>1, <1>3, <1>7
<1> QED BY <1>5, <1>6, <1>10, <1>11 DEF n

\* t is due after so many ticks, behind the first p of the list; the others are as before.
InsertedAt(r, list, p, t, ticks) ==
    /\ r \in Seq(TimerEntry) /\ Len(r) = Len(list) + 1
    /\ \A i \in 1..(Len(list) + 1) :
          /\ i <= p => r[i].timer = list[i].timer /\ Until(r, i) = Until(list, i)
          /\ i = p + 1 => r[i].timer = t /\ Until(r, i) = ticks
          /\ i > p + 1 => r[i].timer = list[i - 1].timer /\ Until(r, i) = Until(list, i - 1)

LEMMA InsertIs ==
    ASSUME NEW list \in Seq(TimerEntry), NEW t \in Timers, NEW ticks \in Nat, NEW r, r = Insert(list, t, ticks)
    PROVE  \E p \in 0..Len(list) : InsertedAt(r, list, p, t, ticks)
<1>1. PICK p \in 0..Len(list) :
              /\ Cardinality({i \in DOMAIN list : Until(list, i) <= ticks}) = p
              /\ Until(list, p) <= ticks
              /\ p < Len(list) => Until(list, p + 1) > ticks
  BY EntriesBefore
<1> DEFINE n == Len(list)
           rest == ticks - Until(list, p)
           cut == IF p = Len(list) THEN list ELSE [list EXCEPT ![p + 1].tcnt = @ - rest]
<1>2. r = InsertAt(cut, p + 1, [timer |-> t, tcnt |-> rest])
  BY <1>1 DEF Insert
<1>3. n \in Nat /\ p \in 0..n /\ DOMAIN list = 1..n
      /\ \A i \in 1..n : list[i] \in TimerEntry /\ list[i].timer \in Timers /\ list[i].tcnt \in Nat
  BY TimerEntryFields
<1>4. /\ \A i \in 0..n : Until(list, i) \in Nat
      /\ Until(list, 0) = 0
      /\ \A i \in 1..n : Until(list, i) = Until(list, i - 1) + list[i].tcnt
  BY UntilGrows, UntilIs
<1>5. rest \in Nat /\ rest = ticks - Until(list, p) /\ Until(list, p) \in Nat
  BY <1>1, <1>3, <1>4
<1>6. p < n => p + 1 \in 1..n /\ list[p + 1].tcnt - rest \in Nat /\ Until(list, p + 1) = Until(list, p) + list[p + 1].tcnt
  <2>1. SUFFICES ASSUME p < n PROVE p + 1 \in 1..n /\ list[p + 1].tcnt - rest \in Nat /\ Until(list, p + 1) = Until(list, p) + list[p + 1].tcnt
    OBVIOUS
  <2>2. p + 1 \in 1..n /\ (p + 1) - 1 = p
    BY <2>1, <1>3
  <2>3. Until(list, p + 1) = Until(list, p) + list[p + 1].tcnt
    BY <2>2, <1>4
  <2>4. Until(list, p + 1) > ticks
    BY <2>1, <1>1
  <2>5. list[p + 1].tcnt \in Nat
    BY <2>2, <1>3
  <2> HIDE DEF rest
  <2> QED BY <2>2, <2>3, <2>4, <2>5, <1>5
<1>7. /\ cut \in Seq(TimerEntry) /\ Len(cut) = n
      /\ \A i \in 1..n : cut[i].timer = list[i].timer /\ cut[i].tcnt = IF i = p + 1 THEN list[i].tcnt - rest ELSE list[i].tcnt
  <2>1. CASE p = n
    <3>1. cut = list
      BY <2>1
    <3>2. \A i \in 1..n : i # p + 1
      BY <1>3, <2>1
    <3> QED BY <3>1, <3>2
  <2>2. CASE p # n
    <3> DEFINE d == [timer |-> list[p + 1].timer, tcnt |-> list[p + 1].tcnt - rest]
    <3>1. p < n
      <4> HIDE DEF rest, n
      <4> QED BY <2>2, <1>3
    <3>2. d \in TimerEntry
      BY <3>1, <1>3, <1>6 DEF TimerEntry
    <3>3. cut = [list EXCEPT ![p + 1] = [list[p + 1] EXCEPT !.tcnt = list[p + 1].tcnt - rest]]
      BY <2>2
    <3>4. \A e \in TimerEntry : \A v : [e EXCEPT !.tcnt = v] = [timer |-> e.timer, tcnt |-> v]
      BY DEF TimerEntry
    <3>5. [list[p + 1] EXCEPT !.tcnt = list[p + 1].tcnt - rest] = d
      BY <3>1, <3>4, <1>3, <1>6
    <3>6. cut = [list EXCEPT ![p + 1] = d]
      BY <3>3, <3>5
    <3>7. d.timer = list[p + 1].timer /\ d.tcnt = list[p + 1].tcnt - rest
      OBVIOUS
    <3> HIDE DEF d, cut, rest
    <3>8. cut \in Seq(TimerEntry) /\ Len(cut) = n /\ \A i \in 1..n : cut[i] = IF i = p + 1 THEN d ELSE list[i]
      BY <3>1, <3>2, <3>6, <1>3
    <3> QED BY <3>7, <3>8
  <2> QED BY <2>1, <2>2
<1> HIDE DEF cut
<1> DEFINE e == [timer |-> t, tcnt |-> rest]
<1>8. e \in TimerEntry /\ e.timer = t /\ e.tcnt = rest
  BY <1>5 DEF TimerEntry
<1> HIDE DEF e
<1>9. /\ r \in Seq(TimerEntry) /\ Len(r) = n + 1
      /\ \A i \in 1..(n + 1) : r[i] = IF i < p + 1 THEN cut[i] ELSE IF i = p + 1 THEN e ELSE cut[i - 1]
  <2>1. p + 1 \in 1..(Len(cut) + 1)
    BY <1>3, <1>7
  <2>2. r = InsertAt(cut, p + 1, e)
    BY <1>2 DEF e
  <2> HIDE DEF n
  <2>3. /\ r \in Seq(TimerEntry) /\ Len(r) = Len(cut) + 1
        /\ \A i \in 1..(Len(cut) + 1) : r[i] = IF i < p + 1 THEN cut[i] ELSE IF i = p + 1 THEN e ELSE cut[i - 1]
    <3>0. PICK q : q = p + 1
      OBVIOUS
    <3>1. q \in 1..(Len(cut) + 1) /\ r = InsertAt(cut, q, e) /\ cut \in Seq(TimerEntry) /\ e \in TimerEntry
      BY <3>0, <2>1, <2>2, <1>7, <1>8
    <3>3. /\ r \in Seq(TimerEntry) /\ Len(r) = Len(cut) + 1
          /\ \A i \in 1..(Len(cut) + 1) : (i < q => r[i] = cut[i]) /\ (i = q => r[i] = e) /\ (i > q => r[i] = cut[i - 1])
      BY <3>1, InsertAtIs
    <3>4. \A i \in 1..(Len(cut) + 1) : i < q \/ i = q \/ i > q
      BY <3>1
    <3>5. \A i \in 1..(Len(cut) + 1) : r[i] = IF i < q THEN cut[i] ELSE IF i = q THEN e ELSE cut[i - 1]
      BY <3>3, <3>4
    <3> QED BY <3>0, <3>3, <3>5, Zenon
  <2> QED BY <2>3, <1>7
<1> HIDE DEF rest
<1>10. \A i \in 1..(n + 1) : r[i].timer = IF i <= p THEN list[i].timer ELSE IF i = p + 1 THEN t ELSE list[i - 1].timer
  <2>1. TAKE i \in 1..(n + 1)
  <2>2. CASE i <= p
    <3>1. i < p + 1 /\ i \in 1..n
      BY <2>2, <1>3
    <3> QED BY <3>1, <2>2, <1>7, <1>9
  <2>3. CASE i = p + 1
    <3>1. ~(i < p + 1) /\ ~(i <= p)
      BY <2>3, <1>3
    <3> QED BY <3>1, <2>3, <1>8, <1>9
  <2>4. CASE i > p + 1
    <3>1. ~(i < p + 1) /\ ~(i <= p) /\ i # p + 1 /\ i - 1 \in 1..n
      BY <2>4, <1>3
    <3> QED BY <3>1, <1>7, <1>9
  <2> QED BY <2>2, <2>3, <2>4, <1>3
<1> DEFINE u == [i \in 0..(n + 1) |-> IF i <= p THEN Until(list, i) ELSE IF i = p + 1 THEN ticks ELSE Until(list, i - 1)]
<1>11. \A i \in 0..(n + 1) : u[i] = IF i <= p THEN Until(list, i) ELSE IF i = p + 1 THEN ticks ELSE Until(list, i - 1)
  OBVIOUS
<1> HIDE DEF u
<1>12. u[0] = 0
  BY <1>3, <1>4, <1>11
<1>13. ASSUME NEW i \in 1..(n + 1) PROVE u[i] = u[i - 1] + r[i].tcnt
  <2>1. i \in 0..(n + 1) /\ i - 1 \in 0..(n + 1)
    BY <1>3
  <2>2. CASE i <= p
    <3>1. i < p + 1 /\ i \in 1..n /\ i - 1 <= p /\ i # p + 1
      BY <2>2, <1>3
    <3>2. r[i].tcnt = list[i].tcnt
      BY <3>1, <1>7, <1>9
    <3> QED BY <3>1, <3>2, <2>1, <2>2, <1>4, <1>11
  <2>3. CASE i = p + 1
    <3>1. ~(i < p + 1) /\ ~(i <= p) /\ i - 1 = p /\ i - 1 <= p
      BY <2>3, <1>3
    <3>2. r[i].tcnt = rest /\ u[i] = ticks /\ u[i - 1] = Until(list, p)
      BY <3>1, <2>1, <2>3, <1>8, <1>9, <1>11
    <3> QED BY <3>2, <1>5
  <2>4. CASE i = p + 2
    <3>1. ~(i < p + 1) /\ ~(i <= p) /\ i # p + 1 /\ i - 1 = p + 1 /\ i - 1 \in 1..n /\ ~(i - 1 <= p) /\ p < n
      BY <2>4, <1>3
    <3>2. r[i].tcnt = list[p + 1].tcnt - rest
      BY <3>1, <1>7, <1>9
    <3>3. u[i] = Until(list, p + 1) /\ u[i - 1] = ticks
      BY <3>1, <2>1, <1>11
    <3>4. list[p + 1].tcnt \in Nat
      BY <3>1, <1>3
    <3> QED BY <3>1, <3>2, <3>3, <3>4, <1>5, <1>6
  <2>5. CASE i > p + 2
    <3>1. /\ ~(i < p + 1) /\ ~(i <= p) /\ i # p + 1 /\ i - 1 # p + 1 /\ i - 1 \in 1..n /\ ~(i - 1 <= p)
          /\ i - 1 \in 0..(n + 1)
      BY <2>5, <1>3
    <3>2. r[i].tcnt = list[i - 1].tcnt
      BY <3>1, <1>7, <1>9
    <3>3. u[i] = Until(list, i - 1) /\ u[i - 1] = Until(list, (i - 1) - 1)
      BY <3>1, <2>1, <1>11
    <3> QED BY <3>1, <3>2, <3>3, <1>4
  <2> QED BY <2>2, <2>3, <2>4, <2>5, <1>3
<1>14. \A i \in 0..(n + 1) : Until(r, i) = u[i]
  <2>1. UntilsUp(u, r, n + 1)
    BY <1>9, <1>12, <1>13 DEF UntilsUp
  <2> QED BY <2>1, UntilsAre
<1>15. \A i \in 1..(n + 1) : i \in 0..(n + 1)
  BY <1>3
<1>16. ASSUME NEW i \in 1..(n + 1)
       PROVE  /\ i <= p => r[i].timer = list[i].timer /\ Until(r, i) = Until(list, i)
              /\ i = p + 1 => r[i].timer = t /\ Until(r, i) = ticks
              /\ i > p + 1 => r[i].timer = list[i - 1].timer /\ Until(r, i) = Until(list, i - 1)
  <2>1. (i = p + 1 => ~(i <= p)) /\ (i > p + 1 => ~(i <= p) /\ i # p + 1)
    BY <1>3
  <2>2. Until(r, i) = u[i]
    BY <1>14, <1>15
  <2>3. u[i] = IF i <= p THEN Until(list, i) ELSE IF i = p + 1 THEN ticks ELSE Until(list, i - 1)
    BY <1>11, <1>15
  <2> QED BY <2>1, <2>2, <2>3, <1>10
<1> HIDE DEF n
<1>17. /\ r \in Seq(TimerEntry) /\ Len(r) = n + 1
       /\ \A i \in 1..(n + 1) :
              /\ i <= p => r[i].timer = list[i].timer /\ Until(r, i) = Until(list, i)
              /\ i = p + 1 => r[i].timer = t /\ Until(r, i) = ticks
              /\ i > p + 1 => r[i].timer = list[i - 1].timer /\ Until(r, i) = Until(list, i - 1)
  BY <1>9, <1>16
<1>18. InsertedAt(r, list, p, t, ticks)
  BY <1>17, Zenon DEF InsertedAt, n
<1> QED BY <1>18

\* r is the list without its j-th; the others are called when they were before.
TakenOutOf(r, list, j) ==
    /\ r \in Seq(TimerEntry) /\ Len(r) = Len(list) - 1
    /\ \A i \in 1..(Len(list) - 1) :
          /\ i < j => r[i].timer = list[i].timer /\ Until(r, i) = Until(list, i)
          /\ i >= j => r[i].timer = list[i + 1].timer /\ Until(r, i) = Until(list, i + 1)

LEMMA TakeOutIs ==
    ASSUME NEW list \in Seq(TimerEntry), NEW j \in 1..Len(list),
           \A i, k \in 1..Len(list) : list[i].timer = list[k].timer => i = k,
           NEW r, r = TakeOut(list, list[j].timer)
    PROVE  TakenOutOf(r, list, j)
<1> DEFINE n == Len(list)
           cut == IF j = Len(list) THEN list ELSE [list EXCEPT ![j + 1].tcnt = @ + list[j].tcnt]
<1>1. n \in Nat /\ j \in 1..n /\ DOMAIN list = 1..n
      /\ \A i \in 1..n : list[i] \in TimerEntry /\ list[i].timer \in Timers /\ list[i].tcnt \in Nat
  BY TimerEntryFields
<1>2. r = RemoveAt(cut, j)
  <2> DEFINE its == {i \in DOMAIN list : list[i].timer = list[j].timer}
             c == CHOOSE i \in DOMAIN list : list[i].timer = list[j].timer
  <2>1. its = {j}
    BY <1>1
  <2>2. c = j
    BY <2>1, <1>1
  <2>3. TakeOut(list, list[j].timer) =
          RemoveAt(IF c = Len(list) THEN list
                   ELSE [list EXCEPT ![c + 1].tcnt = @ + list[c].tcnt], c)
    BY DEF TakeOut
  <2> HIDE DEF its, c
  <2> QED BY <2>2, <2>3
<1>3. /\ \A i \in 0..n : Until(list, i) \in Nat
      /\ Until(list, 0) = 0
      /\ \A i \in 1..n : Until(list, i) = Until(list, i - 1) + list[i].tcnt
  BY UntilGrows, UntilIs
<1>4. /\ cut \in Seq(TimerEntry) /\ Len(cut) = n
      /\ \A i \in 1..n : cut[i].timer = list[i].timer /\ cut[i].tcnt = IF i = j + 1 THEN list[i].tcnt + list[j].tcnt ELSE list[i].tcnt
  <2>1. CASE j = n
    <3>1. cut = list
      BY <2>1
    <3>2. \A i \in 1..n : i # j + 1
      <4> HIDE DEF n
      <4> QED BY <1>1, <2>1
    <3> QED BY <3>1, <3>2
  <2>2. CASE j # n
    <3> DEFINE d == [timer |-> list[j + 1].timer, tcnt |-> list[j + 1].tcnt + list[j].tcnt]
    <3>1. j + 1 \in 1..n
      <4> HIDE DEF n
      <4> QED BY <2>2, <1>1
    <3>2. d \in TimerEntry
      <4>1. list[j + 1].timer \in Timers /\ list[j + 1].tcnt + list[j].tcnt \in Nat
        BY <3>1, <1>1
      <4> QED BY <4>1 DEF TimerEntry
    <3>3. cut = [list EXCEPT ![j + 1] = [list[j + 1] EXCEPT !.tcnt = list[j + 1].tcnt + list[j].tcnt]]
      BY <2>2
    <3>4. \A e \in TimerEntry : \A v : [e EXCEPT !.tcnt = v] = [timer |-> e.timer, tcnt |-> v]
      BY DEF TimerEntry
    <3>5. [list[j + 1] EXCEPT !.tcnt = list[j + 1].tcnt + list[j].tcnt] = d
      BY <3>1, <3>4, <1>1
    <3>6. cut = [list EXCEPT ![j + 1] = d]
      BY <3>3, <3>5
    <3>7. d.timer = list[j + 1].timer /\ d.tcnt = list[j + 1].tcnt + list[j].tcnt
      OBVIOUS
    <3> HIDE DEF d, cut
    <3>8. cut \in Seq(TimerEntry) /\ Len(cut) = n /\ \A i \in 1..n : cut[i] = IF i = j + 1 THEN d ELSE list[i]
      BY <3>1, <3>2, <3>6, <1>1
    <3> QED BY <3>7, <3>8
  <2> QED BY <2>1, <2>2
<1> HIDE DEF cut
<1>5. /\ r \in Seq(TimerEntry) /\ Len(r) = n - 1
      /\ \A i \in 1..(n - 1) : r[i] = IF i < j THEN cut[i] ELSE cut[i + 1]
  <2>1. j \in 1..Len(cut) /\ cut \in Seq(TimerEntry)
    BY <1>1, <1>4
  <2>2. /\ r \in Seq(TimerEntry) /\ Len(r) = Len(cut) - 1
        /\ \A i \in 1..(Len(cut) - 1) : r[i] = IF i < j THEN cut[i] ELSE cut[i + 1]
    BY <2>1, <1>2, RemoveAtIs
  <2> HIDE DEF n
  <2> QED BY <2>2, <1>4
<1> HIDE DEF n
<1>6. \A i \in 1..(n - 1) : i \in 1..n /\ i + 1 \in 1..n /\ i \in 0..(n - 1) /\ (i < j => i # j + 1)
  BY <1>1
<1>7. \A i \in 1..(n - 1) : r[i].timer = IF i < j THEN list[i].timer ELSE list[i + 1].timer
  BY <1>4, <1>5, <1>6
<1> DEFINE u == [i \in 0..(n - 1) |-> IF i < j THEN Until(list, i) ELSE Until(list, i + 1)]
<1>8. \A i \in 0..(n - 1) : u[i] = IF i < j THEN Until(list, i) ELSE Until(list, i + 1)
  OBVIOUS
<1> HIDE DEF u
<1>9. u[0] = 0
  <2>1. 0 \in 0..(n - 1) /\ 0 < j
    BY <1>1
  <2> QED BY <2>1, <1>3, <1>8
<1>10. ASSUME NEW i \in 1..(n - 1) PROVE u[i] = u[i - 1] + r[i].tcnt
  <2>1. i \in 0..(n - 1) /\ i - 1 \in 0..(n - 1) /\ i \in 1..n /\ i + 1 \in 1..n
    BY <1>1
  <2>2. CASE i < j
    <3>1. i - 1 < j /\ i # j + 1
      BY <2>2, <1>1
    <3>2. r[i].tcnt = list[i].tcnt
      BY <3>1, <2>1, <2>2, <1>4, <1>5
    <3> QED BY <3>1, <3>2, <2>1, <2>2, <1>3, <1>8
  <2>3. CASE i = j
    <3>1. ~(i < j) /\ i - 1 < j /\ i + 1 = j + 1 /\ j \in 1..n
      BY <2>3, <1>1
    <3>2. r[i].tcnt = list[j + 1].tcnt + list[j].tcnt
      BY <3>1, <2>1, <1>4, <1>5
    <3>3. u[i] = Until(list, j + 1) /\ u[i - 1] = Until(list, j - 1)
      BY <3>1, <2>1, <2>3, <1>8
    <3>4. Until(list, j + 1) = Until(list, j) + list[j + 1].tcnt /\ Until(list, j) = Until(list, j - 1) + list[j].tcnt
      <4>1. j + 1 \in 1..n /\ (j + 1) - 1 = j
        BY <3>1, <2>1
      <4> QED BY <4>1, <3>1, <1>3
    <3>5. Until(list, j - 1) \in Nat /\ list[j].tcnt \in Nat /\ list[j + 1].tcnt \in Nat
      <4>1. j + 1 \in 1..n /\ j - 1 \in 0..n
        BY <3>1, <2>1, <1>1
      <4> QED BY <4>1, <3>1, <1>1, <1>3
    <3> QED BY <3>2, <3>3, <3>4, <3>5
  <2>4. CASE i > j
    <3>1. ~(i < j) /\ ~(i - 1 < j) /\ i + 1 # j + 1 /\ (i - 1) + 1 = (i + 1) - 1
      BY <2>4, <1>1
    <3>2. r[i].tcnt = list[i + 1].tcnt
      BY <3>1, <2>1, <1>4, <1>5
    <3>3. u[i] = Until(list, i + 1) /\ u[i - 1] = Until(list, (i + 1) - 1)
      BY <3>1, <2>1, <1>8
    <3> QED BY <3>2, <3>3, <2>1, <1>3
  <2> QED BY <2>2, <2>3, <2>4, <1>1
<1>11. \A i \in 0..(n - 1) : Until(r, i) = u[i]
  <2>1. UntilsUp(u, r, n - 1)
    BY <1>5, <1>9, <1>10 DEF UntilsUp
  <2> QED BY <2>1, UntilsAre
<1>12. ASSUME NEW i \in 1..(n - 1)
       PROVE  /\ i < j => r[i].timer = list[i].timer /\ Until(r, i) = Until(list, i)
              /\ i >= j => r[i].timer = list[i + 1].timer /\ Until(r, i) = Until(list, i + 1)
  <2>1. i >= j => ~(i < j)
    BY <1>1
  <2>2. Until(r, i) = u[i] /\ u[i] = IF i < j THEN Until(list, i) ELSE Until(list, i + 1)
    BY <1>6, <1>8, <1>11
  <2> QED BY <2>1, <2>2, <1>7
<1> QED BY <1>5, <1>12 DEF n, TakenOutOf


-----------------------------------------------------------------------------
(* The calls that are not yet made *)

\* How often t is in q.
TimesIn(q, t) == Cardinality({i \in 1..Len(q) : q[i] = t})

\* The queue r has x once more than q, and the others as often.
OnceMore(r, q, x) ==
    /\ \A t : TimesIn(q, t) \in Nat
    /\ TimesIn(r, x) = TimesIn(q, x) + 1
    /\ \A t : x # t => TimesIn(r, t) = TimesIn(q, t)

LEMMA AppendedOnceMore ==
    ASSUME NEW q \in Seq(Timers), NEW x \in Timers, NEW r, r = Append(q, x)
    PROVE  OnceMore(r, q, x)
<1> SUFFICES ASSUME NEW t
             PROVE  /\ TimesIn(q, t) \in Nat
                    /\ x = t => TimesIn(r, t) = TimesIn(q, t) + 1
                    /\ x # t => TimesIn(r, t) = TimesIn(q, t)
  BY DEF OnceMore
<1> DEFINE A == {i \in 1..Len(q) : q[i] = t}
           B == {i \in 1..Len(r) : r[i] = t}
<1>1. PICK n \in Nat : n = Len(q)
  OBVIOUS
<1>2. /\ r \in Seq(Timers) /\ Len(r) = n + 1 /\ r[n + 1] = x
      /\ \A i \in 1..n : r[i] = q[i]
  BY <1>1
<1>3. IsFiniteSet(1..n)
  BY <1>1, FS_Interval
<1>4. A \subseteq 1..n
  BY <1>1
<1>5. IsFiniteSet(A) /\ Cardinality(A) \in Nat
  <2>1. IsFiniteSet(A)
    BY <1>3, <1>4, FS_Subset
  <2> QED BY <2>1, FS_CardinalityType
<1>6. \A i : i \in 1..(n + 1) <=> i \in 1..n \/ i = n + 1
  BY <1>1
<1>7. n + 1 \notin 1..n
  BY <1>1
<1>8. CASE x = t
  <2>1. B = A \cup {n + 1}
    BY <1>1, <1>2, <1>6, <1>8
  <2>2. n + 1 \notin A
    BY <1>4, <1>7
  <2>3. Cardinality(A \cup {n + 1}) = Cardinality(A) + 1
    BY <2>2, <1>5, FS_AddElement
  <2> QED BY <2>1, <2>3, <1>2, <1>5, <1>8 DEF TimesIn
<1>9. CASE x # t
  <2>1. B = A
    BY <1>1, <1>2, <1>6, <1>9
  <2> QED BY <2>1, <1>2, <1>5, <1>9 DEF TimesIn
<1> QED BY <1>8, <1>9

LEMMA TimesInTail ==
    ASSUME NEW q \in Seq(Timers), q # <<>>, NEW r, r = Tail(q), NEW t
    PROVE  /\ TimesIn(r, t) \in Nat /\ r \in Seq(Timers) /\ Head(q) \in Timers
           /\ Head(q) = t => TimesIn(q, t) = TimesIn(r, t) + 1
           /\ Head(q) # t => TimesIn(q, t) = TimesIn(r, t)
<1> DEFINE A == {i \in 1..Len(r) : r[i] = t}
           B == {i \in 1..Len(q) : q[i] = t}
           C == {i \in B : i # 1}
           b == [i \in A |-> i + 1]
<1>1. PICK n \in Nat : n = Len(r) /\ Len(q) = n + 1
  OBVIOUS
<1>2. /\ r \in Seq(Timers) /\ Head(q) = q[1] /\ q[1] \in Timers
      /\ \A i \in 1..n : r[i] = q[i + 1]
  BY <1>1
<1>3. IsFiniteSet(1..n) /\ IsFiniteSet(1..(n + 1))
  BY <1>1, FS_Interval
<1>4. A \subseteq 1..n /\ B \subseteq 1..(n + 1) /\ C \subseteq 1..(n + 1)
  BY <1>1
<1>5. IsFiniteSet(A) /\ Cardinality(A) \in Nat
  <2>1. IsFiniteSet(A)
    BY <1>3, <1>4, FS_Subset
  <2> QED BY <2>1, FS_CardinalityType
<1>6. IsFiniteSet(C)
  BY <1>3, <1>4, FS_Subset
<1>7. \A i \in 1..n : i + 1 \in 1..(n + 1) /\ i + 1 # 1
  BY <1>1
<1>8. \A i \in 1..(n + 1) : i # 1 => i - 1 \in 1..n /\ (i - 1) + 1 = i
  BY <1>1
<1>9. b \in Bijection(A, C)
  <2>1. \A i \in A : b[i] = i + 1 /\ i + 1 \in C
    BY <1>1, <1>2, <1>4, <1>7
  <2>2. b \in [A -> C]
    BY <2>1
  <2>3. \A i, j \in A : b[i] = b[j] => i = j
    <3>1. \A i, j \in 1..n : i + 1 = j + 1 => i = j
      BY <1>1
    <3> QED BY <3>1, <2>1, <1>4
  <2>4. \A k \in C : \E i \in A : b[i] = k
    <3>1. TAKE k \in C
    <3>2. k - 1 \in 1..n /\ (k - 1) + 1 = k /\ q[k] = t
      BY <1>4, <1>8
    <3>3. k - 1 \in A
      BY <3>2, <1>1, <1>2
    <3> QED BY <3>2, <3>3, <2>1
  <2> HIDE DEF A, B, C, b
  <2> QED BY <2>2, <2>3, <2>4 DEF Bijection, Injection, Surjection, IsInjective
<1>10. Cardinality(C) = Cardinality(A)
  <2>1. ExistsBijection(A, C)
    BY <1>9 DEF ExistsBijection
  <2> QED BY <2>1, <1>5, FS_Bijection
<1>11. CASE Head(q) = t
  <2>1. 1 \in B
    BY <1>1, <1>2, <1>11
  <2>2. B = C \cup {1} /\ 1 \notin C
    BY <2>1
  <2>3. Cardinality(C \cup {1}) = Cardinality(C) + 1
    BY <2>2, <1>6, FS_AddElement
  <2>4. TimesIn(q, t) = Cardinality(B) /\ TimesIn(r, t) = Cardinality(A)
    BY DEF TimesIn
  <2> QED BY <2>2, <2>3, <2>4, <1>2, <1>5, <1>10, <1>11
<1>12. CASE Head(q) # t
  <2>1. B = C
    BY <1>1, <1>2, <1>12
  <2> QED BY <2>1, <1>2, <1>5, <1>10, <1>12 DEF TimesIn
<1> QED BY <1>11, <1>12

LEMMA TailOnceLess ==
    ASSUME NEW q \in Seq(Timers), q # <<>>, NEW r, r = Tail(q), NEW x, x = Head(q)
    PROVE  OnceMore(q, r, x) /\ r \in Seq(Timers) /\ x \in Timers
<1>1. \A t : /\ TimesIn(r, t) \in Nat
             /\ x = t => TimesIn(q, t) = TimesIn(r, t) + 1
             /\ x # t => TimesIn(q, t) = TimesIn(r, t)
  <2>1. TAKE t
  <2>2. PICK h : h = t
    OBVIOUS
  <2>3. /\ TimesIn(r, h) \in Nat
        /\ Head(q) = h => TimesIn(q, h) = TimesIn(r, h) + 1
        /\ Head(q) # h => TimesIn(q, h) = TimesIn(r, h)
    BY TimesInTail
  <2> QED BY <2>2, <2>3
<1>2. r \in Seq(Timers) /\ x \in Timers
  BY TimesInTail
<1>3. (\A t : TimesIn(r, t) \in Nat) /\ TimesIn(q, x) = TimesIn(r, x) + 1
  BY <1>1
<1>4. \A t : x # t => TimesIn(q, t) = TimesIn(r, t)
  BY <1>1
<1> QED BY <1>2, <1>3, <1>4, Zenon DEF OnceMore

-----------------------------------------------------------------------------
(* The list and what is due *)

InList(list, t) == \E i \in 1..Len(list) : list[i].timer = t

\* At c the timers of the list, each of them there once, are due when d says,
\* and none of them yet.
ListExact(list, c, d) ==
    /\ list \in Seq(TimerEntry)
    /\ \A i, j \in 1..Len(list) : list[i].timer = list[j].timer => i = j
    /\ \A i \in 1..Len(list) : Until(list, i) > 0 /\ c + Until(list, i) = d[list[i].timer]

\* The list r has t besides, or no more.
WithOneMore(r, list, t) == \A u : InList(r, u) <=> u = t \/ InList(list, u)
WithOneLess(r, list, t) == \A u : InList(r, u) <=> u # t /\ InList(list, u)

\* e says of t that it is due at k, and of the others what d says.
DueChanged(e, d, t, k) == e[t] = k /\ \A u \in Timers : u # t => e[u] = d[u]

LEMMA InsertedExact ==
    ASSUME NEW list, NEW c \in Nat, NEW d, ListExact(list, c, d), NEW t \in Timers, ~InList(list, t),
           NEW k \in Nat, k > 0, NEW r, r = Insert(list, t, k),
           NEW e, DueChanged(e, d, t, c + k)
    PROVE  ListExact(r, c, e) /\ WithOneMore(r, list, t)
<1>0. e[t] = c + k /\ \A u \in Timers : u # t => e[u] = d[u]
  BY DEF DueChanged
<1>1. PICK n \in Nat : n = Len(list)
  BY DEF ListExact
<1>2. /\ list \in Seq(TimerEntry)
      /\ \A i, j \in 1..n : list[i].timer = list[j].timer => i = j
      /\ \A i \in 1..n : Until(list, i) > 0 /\ c + Until(list, i) = d[list[i].timer]
      /\ \A i \in 1..n : list[i].timer # t
  BY <1>1 DEF ListExact, InList
<1>3. PICK p \in 0..n : InsertedAt(r, list, p, t, k)
  BY <1>1, <1>2, InsertIs
<1>4. /\ r \in Seq(TimerEntry) /\ Len(r) = n + 1
      /\ \A i \in 1..(n + 1) :
            /\ i <= p => r[i].timer = list[i].timer /\ Until(r, i) = Until(list, i)
            /\ i = p + 1 => r[i].timer = t /\ Until(r, i) = k
            /\ i > p + 1 => r[i].timer = list[i - 1].timer /\ Until(r, i) = Until(list, i - 1)
  BY <1>1, <1>3 DEF InsertedAt
<1>5. \A i \in 1..n : list[i].timer \in Timers
  BY <1>1, <1>2, TimerEntryFields
<1> DEFINE o(i) == IF i <= p THEN i ELSE i - 1
<1>6. ASSUME NEW i \in 1..(n + 1), i # p + 1
      PROVE  o(i) \in 1..n /\ r[i].timer = list[o(i)].timer /\ Until(r, i) = Until(list, o(i))
  <2>1. CASE i <= p
    BY <2>1, <1>4
  <2>2. CASE i > p + 1
    <3>1. i - 1 \in 1..n /\ ~(i <= p)
      BY <2>2
    <3> QED BY <2>2, <3>1, <1>4
  <2> QED BY <2>1, <2>2, <1>6
<1>7. \A i, j \in 1..(n + 1) : i # p + 1 /\ j # p + 1 /\ o(i) = o(j) => i = j
  OBVIOUS
<1> HIDE DEF o
<1>8. p + 1 \in 1..(n + 1)
  OBVIOUS
<1>9. ASSUME NEW i \in 1..(n + 1), NEW j \in 1..(n + 1), r[i].timer = r[j].timer PROVE i = j
  <2>1. CASE i = p + 1 /\ j = p + 1
    BY <2>1
  <2>2. CASE i = p + 1 /\ j # p + 1
    <3>1. r[j].timer # t
      BY <2>2, <1>2, <1>6
    <3> QED BY <2>2, <3>1, <1>4, <1>9
  <2>3. CASE i # p + 1 /\ j = p + 1
    <3>1. r[i].timer # t
      BY <2>3, <1>2, <1>6
    <3> QED BY <2>3, <3>1, <1>4, <1>9
  <2>4. CASE i # p + 1 /\ j # p + 1
    <3>1. o(i) = o(j)
      <4>1. PICK a \in 1..n : a = o(i) /\ r[i].timer = list[a].timer
        BY <2>4, <1>6
      <4>2. PICK b \in 1..n : b = o(j) /\ r[j].timer = list[b].timer
        BY <2>4, <1>6
      <4>3. a = b
        BY <4>1, <4>2, <1>2, <1>9
      <4> QED BY <4>1, <4>2, <4>3
    <3> QED BY <2>4, <3>1, <1>7
  <2> QED BY <2>1, <2>2, <2>3, <2>4
<1>10. ASSUME NEW i \in 1..(n + 1) PROVE Until(r, i) > 0 /\ c + Until(r, i) = e[r[i].timer]
  <2>1. CASE i = p + 1
    BY <2>1, <1>0, <1>4
  <2>2. CASE i # p + 1
    <3>1. PICK j \in 1..n : r[i].timer = list[j].timer /\ Until(r, i) = Until(list, j)
      BY <2>2, <1>6
    <3>2. e[list[j].timer] = d[list[j].timer]
      BY <1>0, <1>2, <1>5
    <3> QED BY <3>1, <3>2, <1>2
  <2> QED BY <2>1, <2>2
<1>11. ListExact(r, c, e)
  BY <1>4, <1>9, <1>10 DEF ListExact
<1>12. ASSUME NEW u PROVE InList(r, u) <=> u = t \/ InList(list, u)
  <2>1. ASSUME InList(r, u) PROVE u = t \/ InList(list, u)
    <3>1. PICK i \in 1..(n + 1) : r[i].timer = u
      BY <2>1, <1>4 DEF InList
    <3>2. CASE i = p + 1
      BY <3>1, <3>2, <1>4
    <3>3. CASE i # p + 1
      BY <3>1, <3>3, <1>1, <1>6 DEF InList
    <3> QED BY <3>2, <3>3
  <2>2. CASE u = t
    BY <2>2, <1>4, <1>8 DEF InList
  <2>3. ASSUME InList(list, u) PROVE InList(r, u)
    <3>1. PICK j \in 1..n : list[j].timer = u
      BY <2>3, <1>1 DEF InList
    <3>2. CASE j <= p
      <4>1. j \in 1..(n + 1)
        OBVIOUS
      <4> QED BY <3>1, <3>2, <4>1, <1>4 DEF InList
    <3>3. CASE j > p
      <4>1. j + 1 \in 1..(n + 1) /\ j + 1 > p + 1 /\ (j + 1) - 1 = j
        BY <3>3
      <4>2. r[j + 1].timer = u
        BY <3>1, <4>1, <1>4
      <4> QED BY <4>1, <4>2, <1>4 DEF InList
    <3> QED BY <3>2, <3>3
  <2> QED BY <2>1, <2>2, <2>3
<1> QED BY <1>11, <1>12 DEF WithOneMore

LEMMA TakenOutExact ==
    ASSUME NEW list, NEW c \in Nat, NEW d, ListExact(list, c, d), NEW t, InList(list, t),
           NEW r, r = TakeOut(list, t)
    PROVE  ListExact(r, c, d) /\ WithOneLess(r, list, t)
<1>1. PICK n \in Nat : n = Len(list)
  BY DEF ListExact
<1>2. /\ list \in Seq(TimerEntry)
      /\ \A i, j \in 1..n : list[i].timer = list[j].timer => i = j
      /\ \A i \in 1..n : Until(list, i) > 0 /\ c + Until(list, i) = d[list[i].timer]
  BY <1>1 DEF ListExact
<1>3. PICK j \in 1..n : list[j].timer = t
  BY <1>1 DEF InList
<1>4. TakenOutOf(r, list, j)
  BY <1>1, <1>2, <1>3, TakeOutIs
<1>5. /\ r \in Seq(TimerEntry) /\ Len(r) = n - 1
      /\ \A i \in 1..(n - 1) :
            /\ i < j => r[i].timer = list[i].timer /\ Until(r, i) = Until(list, i)
            /\ i >= j => r[i].timer = list[i + 1].timer /\ Until(r, i) = Until(list, i + 1)
  BY <1>1, <1>4 DEF TakenOutOf
<1> DEFINE o(i) == IF i < j THEN i ELSE i + 1
<1>6. ASSUME NEW i \in 1..(n - 1)
      PROVE  o(i) \in 1..n /\ o(i) # j /\ r[i].timer = list[o(i)].timer /\ Until(r, i) = Until(list, o(i))
  <2>1. CASE i < j
    BY <2>1, <1>5
  <2>2. CASE i >= j
    <3>1. i + 1 \in 1..n /\ ~(i < j) /\ i + 1 # j
      BY <2>2
    <3> QED BY <2>2, <3>1, <1>5
  <2> QED BY <2>1, <2>2
<1>7. \A i, k \in 1..(n - 1) : o(i) = o(k) => i = k
  OBVIOUS
<1> HIDE DEF o
<1>8. ASSUME NEW i \in 1..(n - 1), NEW k \in 1..(n - 1), r[i].timer = r[k].timer PROVE i = k
  <2>1. o(i) = o(k)
    <3>1. PICK a \in 1..n : a = o(i) /\ r[i].timer = list[a].timer
      BY <1>6
    <3>2. PICK b \in 1..n : b = o(k) /\ r[k].timer = list[b].timer
      BY <1>6
    <3>3. a = b
      BY <3>1, <3>2, <1>2, <1>8
    <3> QED BY <3>1, <3>2, <3>3
  <2> QED BY <2>1, <1>7
<1>9. ASSUME NEW i \in 1..(n - 1) PROVE Until(r, i) > 0 /\ c + Until(r, i) = d[r[i].timer]
  BY <1>2, <1>6
<1>10. ListExact(r, c, d)
  BY <1>5, <1>8, <1>9 DEF ListExact
<1>11. ASSUME NEW u PROVE InList(r, u) <=> u # t /\ InList(list, u)
  <2>1. ASSUME InList(r, u) PROVE u # t /\ InList(list, u)
    <3>1. PICK i \in 1..(n - 1) : r[i].timer = u
      BY <2>1, <1>5 DEF InList
    <3>2. o(i) \in 1..n /\ o(i) # j /\ list[o(i)].timer = u
      BY <3>1, <1>6
    <3> QED BY <3>2, <1>1, <1>2, <1>3 DEF InList
  <2>2. ASSUME InList(list, u), u # t PROVE InList(r, u)
    <3>1. PICK k \in 1..n : list[k].timer = u /\ k # j
      BY <2>2, <1>1, <1>3 DEF InList
    <3>2. CASE k < j
      <4>1. k \in 1..(n - 1)
        BY <3>2
      <4> QED BY <3>1, <3>2, <4>1, <1>5 DEF InList
    <3>3. CASE k > j
      <4>1. k - 1 \in 1..(n - 1) /\ k - 1 >= j /\ (k - 1) + 1 = k
        BY <3>3
      <4>2. PICK h \in 1..(n - 1) : h = k - 1 /\ h >= j /\ h + 1 = k
        BY <4>1
      <4>3. r[h].timer = u
        BY <3>1, <4>2, <1>5
      <4> QED BY <4>3, <1>5 DEF InList
    <3> QED BY <3>1, <3>2, <3>3
  <2> QED BY <2>1, <2>2
<1> QED BY <1>10, <1>11 DEF WithOneLess

\* r is the list with v ticks to its first timer.
FirstSet(r, list, v) ==
    /\ r \in Seq(TimerEntry) /\ Len(r) = Len(list) /\ 1 \in 1..Len(list)
    /\ \A i \in 1..Len(list) : r[i].timer = list[i].timer /\ Until(r, i) = Until(list, i) - list[1].tcnt + v

LEMMA FirstChanged ==
    ASSUME NEW list \in Seq(TimerEntry), list # <<>>, NEW v \in Nat, NEW r, r = [list EXCEPT ![1].tcnt = v]
    PROVE  FirstSet(r, list, v)
<1>1. PICK n \in Nat : n = Len(list) /\ n > 0 /\ 1 \in 1..n
  OBVIOUS
<1>2. \A i \in 1..n : list[i] \in TimerEntry /\ list[i].timer \in Timers /\ list[i].tcnt \in Nat
  BY <1>1, TimerEntryFields
<1> DEFINE e == [timer |-> list[1].timer, tcnt |-> v]
<1>3. e \in TimerEntry /\ e.timer = list[1].timer /\ e.tcnt = v
  BY <1>1, <1>2 DEF TimerEntry
<1>4. r = [list EXCEPT ![1] = e]
  <2>1. \A f \in TimerEntry : [f EXCEPT !.tcnt = v] = [timer |-> f.timer, tcnt |-> v]
    BY DEF TimerEntry
  <2>2. [list[1] EXCEPT !.tcnt = v] = e
    BY <2>1, <1>1, <1>2
  <2>3. r = [list EXCEPT ![1] = [list[1] EXCEPT !.tcnt = v]]
    OBVIOUS
  <2> QED BY <2>2, <2>3
<1> HIDE DEF e
<1>5. r \in Seq(TimerEntry) /\ Len(r) = n /\ \A i \in 1..n : r[i] = IF i = 1 THEN e ELSE list[i]
  BY <1>1, <1>3, <1>4
<1>6. \A i \in 1..n : r[i].timer = list[i].timer /\ r[i].tcnt = IF i = 1 THEN v ELSE list[i].tcnt
  BY <1>3, <1>5
<1>7. /\ \A i \in 0..n : Until(list, i) \in Nat
      /\ Until(list, 0) = 0
      /\ \A i \in 1..n : Until(list, i) = Until(list, i - 1) + list[i].tcnt
  BY <1>1, UntilGrows, UntilIs
<1>8. PICK w \in Nat : w = list[1].tcnt
  BY <1>1, <1>2
<1> DEFINE u == [i \in 0..n |-> IF i = 0 THEN 0 ELSE Until(list, i) - w + v]
<1>9. \A i \in 0..n : u[i] = IF i = 0 THEN 0 ELSE Until(list, i) - w + v
  OBVIOUS
<1> HIDE DEF u
<1>10. ASSUME NEW i \in 1..n PROVE u[i] = u[i - 1] + r[i].tcnt
  <2>1. i \in 0..n /\ i - 1 \in 0..n
    OBVIOUS
  <2>2. CASE i = 1
    <3>1. u[1] = Until(list, 1) - w + v /\ u[0] = 0
      BY <1>1, <1>9
    <3>2. Until(list, 1) = w
      <4>1. Until(list, 1) = Until(list, 1 - 1) + list[1].tcnt
        BY <1>1, <1>7
      <4> QED BY <4>1, <1>7, <1>8
    <3> QED BY <2>2, <3>1, <3>2, <1>6, <1>8
  <2>3. CASE i # 1
    <3>1. u[i] = Until(list, i) - w + v /\ u[i - 1] = Until(list, i - 1) - w + v
      BY <2>1, <2>3, <1>9
    <3>2. r[i].tcnt = list[i].tcnt /\ list[i].tcnt \in Nat
      BY <2>3, <1>2, <1>6
    <3>3. PICK a \in Nat, b \in Nat, z \in Nat : a = Until(list, i) /\ b = Until(list, i - 1) /\ z = list[i].tcnt
      BY <2>1, <3>2, <1>7
    <3>4. a = b + z
      <4>1. Until(list, i) = Until(list, i - 1) + list[i].tcnt
        BY <1>7
      <4> QED BY <4>1, <3>3
    <3>5. u[i] = a - w + v /\ u[i - 1] = b - w + v /\ r[i].tcnt = z
      BY <3>1, <3>2, <3>3
    <3>6. a - w + v = (b - w + v) + z
      BY <3>4
    <3> QED BY <3>5, <3>6
  <2> QED BY <2>2, <2>3
<1>11. \A i \in 0..n : Until(r, i) = u[i]
  <2>1. u[0] = 0
    BY <1>9
  <2>2. UntilsUp(u, r, n)
    BY <1>5, <1>10, <2>1 DEF UntilsUp
  <2> QED BY <2>2, UntilsAre
<1>12. \A i \in 1..n : Until(r, i) = Until(list, i) - w + v
  <2>1. \A i \in 1..n : i \in 0..n /\ i # 0
    OBVIOUS
  <2> QED BY <2>1, <1>9, <1>11
<1> QED BY <1>1, <1>5, <1>6, <1>8, <1>12 DEF FirstSet

\* r is the list behind its first q timers, which are due at once.
LateIn(r, list, q) ==
    /\ r \in Seq(TimerEntry) /\ Len(r) = Len(list) - q
    /\ \A i \in 1..(Len(list) - q) : r[i].timer = list[q + i].timer /\ Until(r, i) = Until(list, q + i)

LEMMA LateAfterRest ==
    ASSUME NEW list \in Seq(TimerEntry), NEW q \in 0..Len(list), Until(list, q) = 0,
           NEW r, r = SubSeq(list, q + 1, Len(list))
    PROVE  LateIn(r, list, q)
<1>1. PICK n \in Nat : n = Len(list)
  OBVIOUS
<1>2. /\ \A i \in 0..n : Until(list, i) \in Nat
      /\ \A i \in 1..n : Until(list, i) = Until(list, i - 1) + list[i].tcnt
  BY <1>1, UntilGrows, UntilIs
<1>3. PICK k \in Nat : k = n - q
  <2>1. n - q \in Nat
    BY <1>1
  <2> QED BY <2>1
<1>4. r \in Seq(TimerEntry) /\ Len(r) = k /\ \A i \in 1..k : r[i] = list[q + i]
  BY <1>1, <1>3
<1> DEFINE u == [i \in 0..k |-> Until(list, q + i)]
<1>5. \A i \in 0..k : u[i] = Until(list, q + i)
  OBVIOUS
<1> HIDE DEF u
<1>6. ASSUME NEW i \in 1..k PROVE u[i] = u[i - 1] + r[i].tcnt
  <2>1. PICK h : h = q + i /\ h \in 1..n /\ h - 1 = q + (i - 1) /\ i \in 0..k /\ i - 1 \in 0..k
    BY <1>1, <1>3
  <2>2. u[i] = Until(list, h) /\ u[i - 1] = Until(list, h - 1) /\ r[i] = list[h]
    BY <2>1, <1>4, <1>5
  <2> QED BY <2>1, <2>2, <1>2
<1>7. u[0] = 0
  <2>1. q + 0 = q /\ 0 \in 0..k
    BY <1>1
  <2> QED BY <2>1, <1>5
<1>8. \A i \in 0..k : Until(r, i) = u[i]
  <2>1. UntilsUp(u, r, k)
    BY <1>4, <1>6, <1>7 DEF UntilsUp
  <2> QED BY <2>1, UntilsAre
<1>9. \A i \in 1..k : Until(r, i) = Until(list, q + i)
  <2>1. \A i \in 1..k : i \in 0..k
    OBVIOUS
  <2> QED BY <2>1, <1>5, <1>8
<1>10. Len(list) - q = k
  BY <1>1, <1>3
<1> QED BY <1>4, <1>9, <1>10 DEF LateIn

-----------------------------------------------------------------------------
(* The tick *)

TimerMemory ==
    [list : Seq(TimerEntry), posted : Seq(Timers), queue : Seq(Timers), error : BOOLEAN,
     state : [Timers -> {"invalid", "stopped", "running"}], type : [Timers -> {"once", "periodic"}],
     icnt : [Timers -> Nat]]

LEMMA MemoryFields ==
    ASSUME NEW x \in TimerMemory
    PROVE  /\ x.list \in Seq(TimerEntry) /\ x.posted \in Seq(Timers) /\ x.queue \in Seq(Timers)
           /\ x.error \in BOOLEAN /\ x.state \in [Timers -> {"invalid", "stopped", "running"}]
           /\ x.type \in [Timers -> {"once", "periodic"}] /\ x.icnt \in [Timers -> Nat]
  BY DEF TimerMemory

\* x with another list.
WithList(x, list, y) ==
    /\ y \in TimerMemory /\ y.list = list /\ y.posted = x.posted /\ y.queue = x.queue
    /\ y.error = x.error /\ y.state = x.state /\ y.type = x.type /\ y.icnt = x.icnt

LEMMA ListReplaced ==
    ASSUME NEW x \in TimerMemory, NEW list \in Seq(TimerEntry), NEW y, y = [x EXCEPT !.list = list]
    PROVE  WithList(x, list, y)
  BY DEF TimerMemory, WithList

\* What isrMessagePut of t leaves.
CallPosted(x, t, y) ==
    /\ y \in TimerMemory /\ y.list = x.list /\ y.queue = x.queue
    /\ y.state = x.state /\ y.type = x.type /\ y.icnt = x.icnt
    /\ x.error => y.error
    /\ ~y.error => y.posted = Append(x.posted, t)

LEMMA PostedIs ==
    ASSUME NEW x \in TimerMemory, NEW t \in Timers, NEW y, y = PostTimer(x, t)
    PROVE  CallPosted(x, t, y)
<1>1. CASE Len(x.queue) < CallbackQueue
  <2>1. y = [x EXCEPT !.posted = Append(x.posted, t)]
    BY <1>1 DEF PostTimer
  <2>2. Append(x.posted, t) \in Seq(Timers)
    BY MemoryFields
  <2> QED BY <2>1, <2>2 DEF TimerMemory, CallPosted
<1>2. CASE ~(Len(x.queue) < CallbackQueue)
  <2>1. y = [x EXCEPT !.error = TRUE]
    BY <1>2 DEF PostTimer
  <2> QED BY <2>1 DEF TimerMemory, CallPosted
<1> QED BY <1>1, <1>2

\* What the tick does to the memory with a timer that is due.
Expired(x, t, y) ==
    /\ y \in TimerMemory /\ y.queue = x.queue /\ y.type = x.type /\ y.icnt = x.icnt
    /\ x.error => y.error
    /\ ~y.error => y.posted = Append(x.posted, t)
    /\ x.type[t] = "periodic" => y.list = Insert(x.list, t, x.icnt[t]) /\ y.state = x.state
    /\ x.type[t] = "once" => y.list = x.list /\ y.state = [x.state EXCEPT ![t] = "stopped"]

LEMMA ExpireIs ==
    ASSUME NEW x \in TimerMemory, NEW t \in Timers, NEW y, y = Expire(x, t)
    PROVE  Expired(x, t, y)
<1>1. PICK z : z = PostTimer(x, t)
  OBVIOUS
<1>2. CallPosted(x, t, z)
  BY <1>1, PostedIs
<1>3. z \in TimerMemory /\ z.list = x.list /\ z.icnt = x.icnt /\ z.state = x.state /\ z.type = x.type
  BY <1>2 DEF CallPosted
<1>4. CASE x.type[t] = "periodic"
  <2>1. PICK r : r = Insert(x.list, t, x.icnt[t])
    OBVIOUS
  <2>2. y = [z EXCEPT !.list = r]
    BY <1>1, <1>3, <1>4, <2>1 DEF Expire
  <2>3. r \in Seq(TimerEntry)
    <3>1. x.icnt[t] \in Nat /\ x.list \in Seq(TimerEntry)
      BY MemoryFields
    <3> QED BY <3>1, <2>1, InsertIs DEF InsertedAt
  <2>4. WithList(z, r, y)
    BY <2>2, <2>3, <1>3, ListReplaced
  <2> QED BY <2>1, <2>4, <1>2, <1>4 DEF WithList, CallPosted, Expired
<1>5. CASE x.type[t] = "once"
  <2>1. y = [z EXCEPT !.state[t] = "stopped"]
    BY <1>1, <1>5 DEF Expire
  <2>2. PICK st \in [Timers -> {"invalid", "stopped", "running"}] : st = [x.state EXCEPT ![t] = "stopped"]
    <3>1. [x.state EXCEPT ![t] = "stopped"] \in [Timers -> {"invalid", "stopped", "running"}]
      BY MemoryFields
    <3> QED BY <3>1
  <2>3. y = [z EXCEPT !.state = st]
    BY <2>1, <2>2, <1>3
  <2>4. /\ y \in TimerMemory /\ y.list = z.list /\ y.posted = z.posted /\ y.queue = z.queue
        /\ y.error = z.error /\ y.state = st /\ y.type = z.type /\ y.icnt = z.icnt
    BY <2>3, <1>3 DEF TimerMemory
  <2> QED BY <2>2, <2>4, <1>2, <1>5 DEF CallPosted, Expired
<1>6. x.type[t] \in {"once", "periodic"}
  BY MemoryFields
<1> QED BY <1>4, <1>5, <1>6

\* At c the memory is what it should be, when d says when the timers are due;
\* those of due_now are due at c and still to be called.
TimersGood(x, c, d, due_now) ==
    /\ x \in TimerMemory /\ c \in Nat /\ d \in [Timers -> Nat]
    /\ ListExact(x.list, c, d)
    /\ due_now \subseteq Timers
    /\ \A t \in Timers :
          /\ x.state[t] = "running" <=> t \in due_now \/ InList(x.list, t)
          /\ t \in due_now => ~InList(x.list, t) /\ d[t] = c
          /\ x.state[t] = "running" => x.icnt[t] > 0

\* The calls posted and queued are as many as n says.
CallsCounted(x, n) ==
    /\ n \in [Timers -> Nat]
    /\ ~x.error => \A t \in Timers : TimesIn(x.queue \o x.posted, t) = n[t]

LEMMA AppendJoined ==
    ASSUME NEW S, NEW a \in Seq(S), NEW b \in Seq(S), NEW x \in S
    PROVE  a \o Append(b, x) = Append(a \o b, x)
  OBVIOUS

\* e is d with k more for t.
MoreOf(e, d, t, k) == e = [d EXCEPT ![t] = @ + k]

LEMMA ExpireGood ==
    ASSUME NEW x, NEW c, NEW d, NEW S, NEW n, TimersGood(x, c, d, S), CallsCounted(x, n), NEW t \in S,
           NEW y, y = Expire(x, t),
           NEW e, MoreOf(e, d, t, x.icnt[t]), NEW k, MoreOf(k, n, t, 1)
    PROVE  TimersGood(y, c, e, S \ {t}) /\ CallsCounted(y, k)
<1>1. /\ x \in TimerMemory /\ c \in Nat /\ d \in [Timers -> Nat]
      /\ ListExact(x.list, c, d) /\ S \subseteq Timers /\ t \in Timers
      /\ \A u \in Timers :
          /\ x.state[u] = "running" <=> u \in S \/ InList(x.list, u)
          /\ u \in S => ~InList(x.list, u) /\ d[u] = c
          /\ x.state[u] = "running" => x.icnt[u] > 0
  BY DEF TimersGood
<1>2. Expired(x, t, y)
  BY <1>1, ExpireIs
<1>3. PICK p \in Nat : p = x.icnt[t] /\ p > 0
  BY <1>1, MemoryFields
<1>4. e \in [Timers -> Nat] /\ e[t] = c + p /\ \A u \in Timers : u # t => e[u] = d[u]
  BY <1>1, <1>3 DEF MoreOf
<1>5. y \in TimerMemory /\ y.icnt = x.icnt /\ x.type[t] \in {"once", "periodic"}
  BY <1>1, <1>2, MemoryFields DEF Expired
<1>6. TimersGood(y, c, e, S \ {t})
  <2>1. CASE x.type[t] = "periodic"
    <3>1. y.list = Insert(x.list, t, p) /\ y.state = x.state
      BY <1>2, <1>3, <2>1 DEF Expired
    <3>2. ~InList(x.list, t)
      BY <1>1
    <3>a. PICK list : list = x.list
      OBVIOUS
    <3>b. PICK r : r = Insert(list, t, p)
      OBVIOUS
    <3>c. ListExact(list, c, d) /\ ~InList(list, t) /\ c \in Nat /\ t \in Timers /\ p \in Nat /\ p > 0
      BY <3>a, <3>2, <1>1, <1>3
    <3>d. DueChanged(e, d, t, c + p)
      BY <1>4 DEF DueChanged
    <3>e. ListExact(r, c, e) /\ WithOneMore(r, list, t)
      BY <3>b, <3>c, <3>d, InsertedExact
    <3>3. ListExact(y.list, c, e) /\ \A u : InList(y.list, u) <=> u = t \/ InList(x.list, u)
      BY <3>a, <3>b, <3>e, <3>1 DEF WithOneMore
    <3> QED BY <3>1, <3>3, <1>1, <1>4, <1>5 DEF TimersGood
  <2>2. CASE x.type[t] = "once"
    <3>1. y.list = x.list /\ y.state = [x.state EXCEPT ![t] = "stopped"]
      BY <1>2, <2>2 DEF Expired
    <3>2. y.state[t] = "stopped" /\ \A u \in Timers : u # t => y.state[u] = x.state[u]
      BY <3>1, <1>1, MemoryFields
    <3>3. ListExact(y.list, c, e)
      <4>1. \A i \in 1..Len(x.list) : x.list[i].timer # t /\ x.list[i].timer \in Timers
        BY <1>1, TimerEntryFields, MemoryFields DEF InList
      <4> QED BY <4>1, <3>1, <1>1, <1>4 DEF ListExact
    <3> QED BY <3>1, <3>2, <3>3, <1>1, <1>4, <1>5 DEF TimersGood
  <2> QED BY <2>1, <2>2, <1>5
<1>7. CallsCounted(y, k)
  <2>1. n \in [Timers -> Nat] /\ k \in [Timers -> Nat] /\ k[t] = n[t] + 1 /\ \A u \in Timers : u # t => k[u] = n[u]
    BY <1>1 DEF CallsCounted, MoreOf
  <2>2. ASSUME ~y.error, NEW u \in Timers PROVE TimesIn(y.queue \o y.posted, u) = k[u]
    <3>1. ~x.error /\ y.queue = x.queue /\ y.posted = Append(x.posted, t)
      BY <2>2, <1>2, <1>5, <1>1, MemoryFields DEF Expired
    <3>2. TimesIn(x.queue \o x.posted, u) = n[u]
      BY <3>1 DEF CallsCounted
    <3>3. PICK q \in Seq(Timers) : q = x.queue \o x.posted
      <4>1. x.queue \o x.posted \in Seq(Timers)
        BY <1>1, MemoryFields
      <4> QED BY <4>1
    <3>4. y.queue \o y.posted = Append(q, t)
      <4>1. PICK a, b : a = x.queue /\ b = x.posted
        OBVIOUS
      <4>2. a \in Seq(Timers) /\ b \in Seq(Timers) /\ t \in Timers
        BY <4>1, <1>1, MemoryFields
      <4>3. a \o Append(b, t) = Append(a \o b, t)
        BY <4>2, AppendJoined
      <4>4. y.queue = a /\ y.posted = Append(b, t) /\ q = a \o b
        BY <4>1, <3>1, <3>3
      <4> QED BY <4>3, <4>4
    <3>5. PICK r : r = Append(q, t)
      OBVIOUS
    <3>6. OnceMore(r, q, t)
      BY <3>5, <1>1, AppendedOnceMore
    <3>7. r = y.queue \o y.posted /\ TimesIn(q, u) = n[u]
      BY <3>2, <3>3, <3>4, <3>5
    <3>8. CASE t = u
      BY <3>6, <3>7, <3>8, <2>1 DEF OnceMore
    <3>9. CASE t # u
      BY <3>6, <3>7, <3>9, <2>1 DEF OnceMore
    <3> QED BY <3>8, <3>9
  <2> QED BY <2>1, <2>2 DEF CallsCounted
<1> QED BY <1>6, <1>7

\* f follows the memory over the first q timers of the list, that are due.
ExpiresUp(f, x, list, q) == f[0] = x /\ \A i \in 1..q : f[i] = Expire(f[i - 1], list[i].timer)

LEMMA ExpiresExists ==
    ASSUME NEW q \in Nat, NEW list, NEW x
    PROVE  \E f : f = [i \in 0..q |-> f[i]] /\ ExpiresUp(f, x, list, q)
<1>0. SUFFICES \E f : f = [i \in 0..q |-> IF i = 0 THEN x ELSE Expire(f[i - 1], list[i].timer)]
  <2>1. PICK f : f = [i \in 0..q |-> IF i = 0 THEN x ELSE Expire(f[i - 1], list[i].timer)]
    BY <1>0
  <2>2. f = [i \in 0..q |-> f[i]]
    BY <2>1
  <2>3. \A i \in 0..q : f[i] = IF i = 0 THEN x ELSE Expire(f[i - 1], list[i].timer)
    BY <2>1
  <2>4. 0 \in 0..q /\ \A i \in 1..q : i \in 0..q /\ i # 0
    OBVIOUS
  <2> QED BY <2>2, <2>3, <2>4 DEF ExpiresUp
<1> DEFINE Step(f, k) == [i \in 0..k |-> IF i = 0 THEN x ELSE Expire(f[i - 1], list[i].timer)]
           No == {k \in 0..q : ~ \E f : f = Step(f, k)}
<1>1. SUFFICES ASSUME No # {} PROVE FALSE
  OBVIOUS
<1>2. No \subseteq Nat
  OBVIOUS
<1>3. PICK k \in No : \A y \in No : k <= y
  BY <1>1, <1>2, LeastExists
<1>4. k # 0
  <2>1. SUFFICES ASSUME k = 0 PROVE FALSE
    OBVIOUS
  <2> DEFINE f == [i \in 0..0 |-> x]
  <2>2. f = Step(f, 0)
    <3>1. \A i \in 0..0 : i = 0
      OBVIOUS
    <3> QED BY <3>1
  <2> HIDE DEF f, Step
  <2> QED BY <2>1, <2>2
<1>5. k - 1 \in 0..q /\ k - 1 \notin No /\ k \in 1..q
  BY <1>3, <1>4
<1>6. PICK f : f = Step(f, k - 1)
  BY <1>5
<1>7. \A i \in 0..(k - 1) : f[i] = IF i = 0 THEN x ELSE Expire(f[i - 1], list[i].timer)
  BY <1>6
<1> DEFINE g == [i \in 0..k |-> IF i = k THEN Expire(f[k - 1], list[k].timer) ELSE f[i]]
<1>8. \A i \in 0..k : g[i] = IF i = 0 THEN x ELSE Expire(g[i - 1], list[i].timer)
  <2>1. TAKE i \in 0..k
  <2>2. CASE i = k
    <3>1. k - 1 \in 0..k /\ k - 1 # k /\ k # 0
      BY <1>4, <1>5
    <3> QED BY <2>2, <3>1
  <2>3. CASE i # k
    <3>1. i \in 0..(k - 1) /\ (i # 0 => i - 1 \in 0..k /\ i - 1 # k)
      BY <2>3, <1>5
    <3> QED BY <2>3, <3>1, <1>7
  <2> QED BY <2>2, <2>3
<1>9. g = Step(g, k)
  <2>1. g = [i \in 0..k |-> g[i]]
    OBVIOUS
  <2> HIDE DEF g
  <2> QED BY <2>1, <1>8
<1> HIDE DEF g, Step
<1> QED BY <1>3, <1>9

\* The list of x a tick later, and how many of its timers are due then.
LateOnes(x, list, q) ==
    /\ list = [x.list EXCEPT ![1].tcnt = @ - 1]
    /\ q = Cardinality({i \in DOMAIN list : Until(list, i) <= 0})

\* y is z after the first q timers of the list were called.
AfterLate(y, z, list, q) == \E f : ExpiresUp(f, z, list, q) /\ y = f[q]

LEMMA TickIs ==
    ASSUME NEW x, x.list # <<>>, NEW list, NEW q \in Nat, LateOnes(x, list, q),
           NEW r, r = SubSeq(list, q + 1, Len(list)), NEW z, z = [x EXCEPT !.list = r],
           NEW y, y = TimerTick(x)
    PROVE  AfterLate(y, z, list, q)
<1>0. /\ list = [x.list EXCEPT ![1].tcnt = @ - 1]
      /\ q = Cardinality({i \in DOMAIN list : Until(list, i) <= 0})
  BY DEF LateOnes
<1>1. z = [x EXCEPT !.list = SubSeq(list, q + 1, Len(list))]
  OBVIOUS
<1> DEFINE Step(f) == [i \in 0..q |-> IF i = 0 THEN z ELSE Expire(f[i - 1], list[i].timer)]
           c == CHOOSE f : f = Step(f)
<1>2. \E f : f = Step(f)
  <2>1. PICK f : f = [i \in 0..q |-> f[i]] /\ ExpiresUp(f, z, list, q)
    BY ExpiresExists
  <2>2. \A i \in 0..q : f[i] = IF i = 0 THEN z ELSE Expire(f[i - 1], list[i].timer)
    <3>1. \A i \in 0..q : i # 0 => i \in 1..q
      OBVIOUS
    <3> QED BY <3>1, <2>1 DEF ExpiresUp
  <2>3. f = Step(f)
    BY <2>1, <2>2
  <2> HIDE DEF Step
  <2> QED BY <2>3
<1>3. c = Step(c)
  <2> HIDE DEF Step
  <2> QED BY <1>2
<1>4. y = c[q]
  <2>1. y = ExpireFirst(z, list, q)
    BY <1>0, <1>1 DEF TimerTick
  <2> QED BY <2>1 DEF ExpireFirst
<1> HIDE DEF c
<1>5. \A i \in 0..q : c[i] = IF i = 0 THEN z ELSE Expire(c[i - 1], list[i].timer)
  BY <1>3
<1>6. ExpiresUp(c, z, list, q)
  <2>1. \A i \in 1..q : i \in 0..q /\ i # 0
    OBVIOUS
  <2>2. 0 \in 0..q
    OBVIOUS
  <2> HIDE DEF Step
  <2> QED BY <2>1, <2>2, <1>5 DEF ExpiresUp
<1> QED BY <1>4, <1>6 DEF AfterLate

\* When timers are due, how often they are called and what state they are in,
\* after those of S were.
LaterDue(x, d, S) == [t \in Timers |-> IF t \in S THEN d[t] + x.icnt[t] ELSE d[t]]
MoreCalls(n, S) == [t \in Timers |-> IF t \in S THEN n[t] + 1 ELSE n[t]]
StatesAfter(x, S) == [t \in Timers |-> IF t \in S /\ x.type[t] = "once" THEN "stopped" ELSE x.state[t]]

\* y is the memory x when, at c, those of S were called and those of R are to be.
CalledFor(y, x, c, d, n, S, R) ==
    /\ TimersGood(y, c, LaterDue(x, d, S), R) /\ CallsCounted(y, MoreCalls(n, S))
    /\ y.type = x.type /\ y.icnt = x.icnt /\ y.state = StatesAfter(x, S)

LEMMA OneMoreCalled ==
    ASSUME NEW x \in TimerMemory, NEW d \in [Timers -> Nat], NEW n \in [Timers -> Nat], NEW c, NEW S, NEW R,
           NEW y, CalledFor(y, x, c, d, n, S, R), NEW t \in R, t \notin S, NEW z, z = Expire(y, t)
    PROVE  CalledFor(z, x, c, d, n, S \cup {t}, R \ {t})
<1>1. PICK dS : dS = LaterDue(x, d, S)
  OBVIOUS
<1>2. PICK nS : nS = MoreCalls(n, S)
  OBVIOUS
<1>3. TimersGood(y, c, dS, R) /\ CallsCounted(y, nS) /\ y.type = x.type /\ y.icnt = x.icnt /\ y.state = StatesAfter(x, S)
  BY <1>1, <1>2 DEF CalledFor
<1>4. y \in TimerMemory /\ t \in Timers
  BY <1>3 DEF TimersGood
<1>5. Expired(y, t, z)
  BY <1>4, ExpireIs
<1>6. PICK e : MoreOf(e, dS, t, y.icnt[t])
  BY DEF MoreOf
<1>7. PICK k : MoreOf(k, nS, t, 1)
  BY DEF MoreOf
<1>8. TimersGood(z, c, e, R \ {t}) /\ CallsCounted(z, k)
  BY <1>3, <1>6, <1>7, ExpireGood
<1>9. e = LaterDue(x, d, S \cup {t})
  BY <1>1, <1>3, <1>4, <1>6 DEF LaterDue, MoreOf
<1>10. k = MoreCalls(n, S \cup {t})
  BY <1>2, <1>4, <1>7 DEF MoreCalls, MoreOf
<1>11. z.type = x.type /\ z.icnt = x.icnt
  BY <1>3, <1>5 DEF Expired
<1>12. z.state = StatesAfter(x, S \cup {t})
  <2>1. CASE x.type[t] = "periodic"
    <3>1. z.state = y.state
      BY <2>1, <1>3, <1>5 DEF Expired
    <3> QED BY <2>1, <3>1, <1>3 DEF StatesAfter
  <2>2. CASE x.type[t] = "once"
    <3>1. z.state = [StatesAfter(x, S) EXCEPT ![t] = "stopped"]
      BY <2>2, <1>3, <1>5 DEF Expired
    <3> QED BY <2>2, <3>1, <1>4 DEF StatesAfter
  <2> QED BY <2>1, <2>2, <1>4, MemoryFields
<1> QED BY <1>8, <1>9, <1>10, <1>11, <1>12 DEF CalledFor

\* The timers that are due at the next tick.
DueNext(x, c, d) == {t \in Timers : x.state[t] = "running" /\ d[t] = c + 1}

LEMMA TickWithout ==
    ASSUME NEW x, NEW c, NEW d, NEW n, TimersGood(x, c, d, {}), CallsCounted(x, n), x.list = <<>>,
           NEW S, S = DueNext(x, c, d), NEW y, y = TimerTick(x)
    PROVE  CalledFor(y, x, c + 1, d, n, S, {})
<1>1. y = x
  BY DEF TimerTick
<1>2. /\ x \in TimerMemory /\ c \in Nat /\ d \in [Timers -> Nat] /\ n \in [Timers -> Nat]
      /\ \A t \in Timers : x.state[t] = "running" <=> InList(x.list, t)
  BY DEF TimersGood, CallsCounted
<1>3. Len(x.list) = 0 /\ \A i \in 1..Len(x.list) : FALSE
  OBVIOUS
<1>4. \A t \in Timers : x.state[t] # "running"
  BY <1>2, <1>3 DEF InList
<1>5. S = {}
  BY <1>4 DEF DueNext
<1>6. LaterDue(x, d, S) = d
  BY <1>2, <1>5 DEF LaterDue
<1>7. MoreCalls(n, S) = n
  BY <1>2, <1>5 DEF MoreCalls
<1>8. StatesAfter(x, S) = x.state
  BY <1>2, <1>5, MemoryFields DEF StatesAfter
<1>9. TimersGood(x, c + 1, d, {})
  <2>1. ListExact(x.list, c + 1, d)
    BY <1>3 DEF TimersGood, ListExact
  <2>2. c + 1 \in Nat
    BY <1>2
  <2> QED BY <2>1, <2>2, <1>4 DEF TimersGood
<1> QED BY <1>1, <1>6, <1>7, <1>8, <1>9 DEF CalledFor

LEMMA TickGood ==
    ASSUME NEW x, NEW c, NEW d, NEW n, TimersGood(x, c, d, {}), CallsCounted(x, n), x.list # <<>>,
           NEW S, S = DueNext(x, c, d), NEW y, y = TimerTick(x)
    PROVE  CalledFor(y, x, c + 1, d, n, S, {})
<1>1. /\ x \in TimerMemory /\ c \in Nat /\ d \in [Timers -> Nat] /\ n \in [Timers -> Nat]
      /\ \A t \in Timers : (x.state[t] = "running" <=> InList(x.list, t)) /\ (x.state[t] = "running" => x.icnt[t] > 0)
  BY DEF TimersGood, CallsCounted
<1>2. PICK l : l = x.list
  OBVIOUS
<1>3. PICK N \in Nat : N = Len(l)
  BY <1>1, <1>2, MemoryFields
<1>4. /\ l \in Seq(TimerEntry) /\ l # <<>> /\ N > 0 /\ 1 \in 1..N
      /\ \A i, j \in 1..N : l[i].timer = l[j].timer => i = j
      /\ \A i \in 1..N : Until(l, i) > 0 /\ c + Until(l, i) = d[l[i].timer]
  BY <1>2, <1>3 DEF TimersGood, ListExact
<1>5. /\ \A i \in 1..N : l[i].timer \in Timers /\ l[i].tcnt \in Nat
      /\ \A i \in 0..N : Until(l, i) \in Nat
      /\ Until(l, 1) = l[1].tcnt
  <2>1. Until(l, 0) = 0 /\ Until(l, 1) = Until(l, 1 - 1) + l[1].tcnt
    BY <1>3, <1>4, UntilIs
  <2>2. l[1].tcnt \in Nat
    BY <1>3, <1>4, TimerEntryFields
  <2>3. Until(l, 1) = l[1].tcnt
    BY <2>1, <2>2
  <2> QED BY <2>3, <1>3, <1>4, UntilGrows, TimerEntryFields
<1>6. PICK v \in Nat : v = l[1].tcnt - 1
  <2>1. l[1].tcnt - 1 \in Nat
    BY <1>4, <1>5
  <2> QED BY <2>1
<1>7. PICK list : list = [l EXCEPT ![1].tcnt = v]
  OBVIOUS
<1>8. /\ list \in Seq(TimerEntry) /\ Len(list) = N
      /\ \A i \in 1..N : list[i].timer = l[i].timer /\ Until(list, i) = Until(l, i) - l[1].tcnt + v
  <2>1. FirstSet(list, l, v)
    BY <1>4, <1>7, FirstChanged
  <2> QED BY <2>1, <1>3 DEF FirstSet
<1>9. \A i \in 1..N : list[i].timer = l[i].timer /\ Until(list, i) = Until(l, i) - 1 /\ Until(l, i) \in Nat
  <2>1. \A i \in 1..N : i \in 0..N
    OBVIOUS
  <2> QED BY <2>1, <1>4, <1>5, <1>6, <1>8
<1>10. list = [x.list EXCEPT ![1].tcnt = @ - 1]
  BY <1>2, <1>6, <1>7
<1>11. PICK q \in 0..N : /\ Cardinality({i \in DOMAIN list : Until(list, i) <= 0}) = q
                         /\ Until(list, q) <= 0
                         /\ q < N => Until(list, q + 1) > 0
  BY <1>8, EntriesBefore
<1>12. \A i \in 0..N : Until(list, i) \in Nat /\ \A j \in i..N : Until(list, i) <= Until(list, j)
  BY <1>8, UntilGrows
<1>13. q \in Nat /\ Until(list, q) = 0
  BY <1>11, <1>12
<1>14. ASSUME NEW i \in 1..N PROVE i <= q <=> Until(l, i) = 1
  <2>1. i \in 0..N /\ q \in 0..N
    OBVIOUS
  <2>2. CASE i <= q
    <3>1. q \in i..N
      BY <2>2
    <3>2. Until(list, i) <= 0 /\ Until(list, i) \in Nat
      BY <2>1, <3>1, <1>12, <1>13
    <3> QED BY <2>2, <3>2, <1>9
  <2>3. CASE i > q
    <3>1. q + 1 \in 0..N /\ i \in (q + 1)..N /\ q < N
      BY <2>3
    <3>2. Until(list, i) >= Until(list, q + 1) /\ Until(list, q + 1) > 0 /\ Until(list, q + 1) \in Nat /\ Until(list, i) \in Nat
      BY <2>1, <3>1, <1>11, <1>12
    <3> QED BY <2>3, <3>2, <1>9
  <2> QED BY <2>2, <2>3
<1>15. PICK rest : rest = SubSeq(list, q + 1, Len(list))
  OBVIOUS
<1>16. /\ rest \in Seq(TimerEntry) /\ Len(rest) = N - q
       /\ \A i \in 1..(N - q) : rest[i].timer = list[q + i].timer /\ Until(rest, i) = Until(list, q + i)
  <2>1. LateIn(rest, list, q)
    BY <1>8, <1>13, <1>15, LateAfterRest
  <2> QED BY <2>1, <1>8 DEF LateIn
<1>17. PICK x0 : x0 = [x EXCEPT !.list = rest]
  OBVIOUS
<1>18. WithList(x, rest, x0)
  BY <1>1, <1>16, <1>17, ListReplaced
<1>19. PICK f : ExpiresUp(f, x0, list, q) /\ y = f[q]
  <2>1. LateOnes(x, list, q)
    BY <1>10, <1>11 DEF LateOnes
  <2>2. AfterLate(y, x0, list, q)
    BY <2>1, <1>13, <1>15, <1>17, TickIs
  <2> QED BY <2>2 DEF AfterLate
<1>20. f[0] = x0 /\ \A i \in 1..q : f[i] = Expire(f[i - 1], list[i].timer)
  BY <1>19 DEF ExpiresUp
<1> DEFINE Called(i) == {l[j].timer : j \in 1..i}
           ToCall(i) == {l[j].timer : j \in (i + 1)..q}
<1>21. \A i \in 1..q : l[i].timer \in ToCall(i - 1) /\ l[i].timer \notin Called(i - 1)
                       /\ Called(i) = Called(i - 1) \cup {l[i].timer} /\ ToCall(i) = ToCall(i - 1) \ {l[i].timer}
  <2>1. TAKE i \in 1..q
  <2>2. i \in 1..N /\ i - 1 + 1 = i /\ \A j \in 1..q : j \in 1..N
    BY <1>11
  <2>3. \A j : j \in 1..i <=> j \in 1..(i - 1) \/ j = i
    OBVIOUS
  <2>4. \A j : (j \in i..q <=> j \in (i + 1)..q \/ j = i) /\ (j \in 1..(i - 1) => j # i /\ j \in 1..q) /\ (j \in (i + 1)..q => j # i /\ j \in 1..q)
    OBVIOUS
  <2>5. \A j \in 1..q : l[j].timer = l[i].timer => j = i
    BY <2>2, <1>4
  <2>6. Called(i) = Called(i - 1) \cup {l[i].timer}
    BY <2>3
  <2>7. ToCall(i - 1) = {l[j].timer : j \in i..q}
    BY <2>2
  <2>8. ToCall(i) = ToCall(i - 1) \ {l[i].timer}
    BY <2>4, <2>5, <2>7
  <2>9. l[i].timer \in ToCall(i - 1)
    BY <2>4, <2>7
  <2>10. l[i].timer \notin Called(i - 1)
    BY <2>4, <2>5
  <2> QED BY <2>6, <2>8, <2>9, <2>10
<1>22. Called(0) = {} /\ ToCall(q) = {}
  OBVIOUS
<1>23. ToCall(0) = {l[j].timer : j \in 1..q}
  OBVIOUS
<1>24. Called(q) = S
  <2>1. ASSUME NEW t \in S PROVE t \in Called(q)
    <3>1. t \in Timers /\ x.state[t] = "running" /\ d[t] = c + 1
      BY DEF DueNext
    <3>2. PICK i \in 1..N : l[i].timer = t
      BY <3>1, <1>1, <1>2, <1>3 DEF InList
    <3>3. Until(l, i) = 1
      BY <3>1, <3>2, <1>1, <1>4, <1>9
    <3>4. i \in 1..q
      BY <3>3, <1>14
    <3> QED BY <3>2, <3>4
  <2>2. ASSUME NEW i \in 1..q PROVE l[i].timer \in S
    <3>1. i \in 1..N /\ i <= q
      OBVIOUS
    <3>2. Until(l, i) = 1 /\ l[i].timer \in Timers /\ d[l[i].timer] = c + 1
      BY <3>1, <1>4, <1>5, <1>14
    <3>3. x.state[l[i].timer] = "running"
      BY <3>1, <3>2, <1>1, <1>2, <1>3 DEF InList
    <3> QED BY <3>2, <3>3 DEF DueNext
  <2> QED BY <2>1, <2>2
<1>25. CalledFor(x0, x, c + 1, d, n, Called(0), ToCall(0))
  <2>1. PICK W : W = ToCall(0)
    OBVIOUS
  <2>2. LaterDue(x, d, {}) = d
    BY <1>1 DEF LaterDue
  <2>3. MoreCalls(n, {}) = n
    BY <1>1 DEF MoreCalls
  <2>4. StatesAfter(x, {}) = x.state
    BY <1>1, MemoryFields DEF StatesAfter
  <2>5. /\ x0 \in TimerMemory /\ x0.list = rest /\ x0.posted = x.posted /\ x0.queue = x.queue
        /\ x0.error = x.error /\ x0.state = x.state /\ x0.type = x.type /\ x0.icnt = x.icnt
    BY <1>18 DEF WithList
  <2>6. CallsCounted(x0, n)
    BY <2>5 DEF CallsCounted
  <2>7. \A i \in 1..(N - q) : q + i \in 1..N /\ ~(q + i <= q) /\ (q + i) - q = i
    BY <1>11
  <2>8. \A i \in 1..(N - q) : rest[i].timer = l[q + i].timer /\ Until(rest, i) = Until(l, q + i) - 1 /\ Until(l, q + i) \in Nat
    BY <2>7, <1>9, <1>16
  <2>9. ListExact(rest, c + 1, d)
    <3>1. ASSUME NEW i \in 1..(N - q), NEW j \in 1..(N - q), rest[i].timer = rest[j].timer PROVE i = j
      <4>1. q + i = q + j
        BY <2>7, <2>8, <3>1, <1>4
      <4> QED BY <4>1, <1>13
    <3>2. ASSUME NEW i \in 1..(N - q) PROVE Until(rest, i) > 0 /\ c + 1 + Until(rest, i) = d[rest[i].timer]
      <4>1. PICK h \in 1..N : h = q + i /\ ~(h <= q)
        BY <2>7
      <4>2. rest[i].timer = l[h].timer /\ Until(rest, i) = Until(l, h) - 1 /\ Until(l, h) \in Nat
        BY <4>1, <2>8
      <4>3. Until(l, h) > 0 /\ c + Until(l, h) = d[l[h].timer] /\ Until(l, h) # 1
        BY <4>1, <1>4, <1>14
      <4> QED BY <4>2, <4>3, <1>1
    <3> QED BY <3>1, <3>2, <1>16 DEF ListExact
  <2>10. \A t : InList(l, t) <=> t \in W \/ InList(rest, t)
    <3>1. TAKE t
    <3>2. ASSUME InList(l, t) PROVE t \in W \/ InList(rest, t)
      <4>1. PICK i \in 1..N : l[i].timer = t
        BY <3>2, <1>3 DEF InList
      <4>2. CASE i <= q
        BY <4>1, <4>2, <2>1, <1>23
      <4>3. CASE i > q
        <5>1. PICK h \in 1..(N - q) : h = i - q
          BY <4>3
        <5>2. q + h = i
          BY <5>1, <1>13
        <5>3. rest[h].timer = t
          BY <5>1, <5>2, <4>1, <2>8
        <5> QED BY <5>1, <5>3, <1>16 DEF InList
      <4> QED BY <4>2, <4>3, <1>13
    <3>3. ASSUME t \in W PROVE InList(l, t)
      <4>1. PICK j \in 1..q : l[j].timer = t
        BY <3>3, <2>1, <1>23
      <4>2. j \in 1..N
        BY <1>11
      <4> QED BY <4>1, <4>2, <1>3 DEF InList
    <3>4. ASSUME InList(rest, t) PROVE InList(l, t)
      <4>1. PICK i \in 1..(N - q) : rest[i].timer = t
        BY <3>4, <1>16 DEF InList
      <4>2. q + i \in 1..N /\ l[q + i].timer = t
        BY <4>1, <2>7, <2>8
      <4> QED BY <4>2, <1>3 DEF InList
    <3> QED BY <3>2, <3>3, <3>4
  <2>11. \A t \in W : t \in Timers /\ ~InList(rest, t) /\ d[t] = c + 1
    <3>1. TAKE t \in W
    <3>2. PICK j \in 1..q : l[j].timer = t
      BY <2>1, <1>23
    <3>3. j \in 1..N /\ j <= q
      BY <1>11
    <3>4. t \in Timers /\ d[t] = c + 1
      BY <3>2, <3>3, <1>4, <1>5, <1>14
    <3>5. ASSUME NEW i \in 1..(N - q), rest[i].timer = t PROVE FALSE
      <4>1. q + i = j
        BY <3>2, <3>3, <3>5, <2>7, <2>8, <1>4
      <4> QED BY <4>1, <3>3, <1>13
    <3> QED BY <3>4, <3>5, <1>16 DEF InList
  <2>12. TimersGood(x0, c + 1, d, W)
    <3>1. c + 1 \in Nat /\ W \subseteq Timers
      BY <1>1, <2>11
    <3>2. ASSUME NEW t \in Timers
          PROVE  /\ x0.state[t] = "running" <=> t \in W \/ InList(rest, t)
                 /\ t \in W => ~InList(rest, t) /\ d[t] = c + 1
                 /\ x0.state[t] = "running" => x0.icnt[t] > 0
      BY <2>5, <2>10, <2>11, <1>1, <1>2
    <3> QED BY <3>1, <3>2, <2>5, <2>9, <1>1 DEF TimersGood
  <2> QED BY <2>1, <2>2, <2>3, <2>4, <2>5, <2>6, <2>12, <1>22 DEF CalledFor
<1> HIDE DEF Called, ToCall
<1>26. \A i \in 0..q : CalledFor(f[i], x, c + 1, d, n, Called(i), ToCall(i))
  <2> DEFINE No == {k \in 0..q : ~CalledFor(f[k], x, c + 1, d, n, Called(k), ToCall(k))}
  <2>1. SUFFICES ASSUME No # {} PROVE FALSE
    OBVIOUS
  <2>2. No \subseteq Nat
    OBVIOUS
  <2>3. PICK k \in No : \A j \in No : k <= j
    BY <2>1, <2>2, LeastExists
  <2>4. k # 0
    BY <2>3, <1>20, <1>25
  <2>5. k - 1 \in 0..q /\ k - 1 \notin No /\ k \in 1..q
    BY <2>3, <2>4
  <2>6. CalledFor(f[k - 1], x, c + 1, d, n, Called(k - 1), ToCall(k - 1))
    BY <2>5
  <2>7. k \in 1..N
    BY <2>5, <1>11
  <2>8. PICK t : t = l[k].timer
    OBVIOUS
  <2>9. f[k] = Expire(f[k - 1], t)
    BY <2>5, <2>7, <2>8, <1>9, <1>20
  <2>10. t \in ToCall(k - 1) /\ t \notin Called(k - 1)
         /\ Called(k) = Called(k - 1) \cup {t} /\ ToCall(k) = ToCall(k - 1) \ {t}
    BY <2>5, <2>8, <1>21
  <2>11. CalledFor(f[k], x, c + 1, d, n, Called(k - 1) \cup {t}, ToCall(k - 1) \ {t})
    BY <2>6, <2>9, <2>10, <1>1, OneMoreCalled
  <2> QED BY <2>3, <2>10, <2>11
<1>27. q \in 0..q
  BY <1>13
<1>28. CalledFor(f[q], x, c + 1, d, n, Called(q), ToCall(q))
  BY <1>26, <1>27
<1> QED BY <1>28, <1>19, <1>22, <1>24

-----------------------------------------------------------------------------
(* Time that passes *)

\* When timers are due and how often they were called, when each was called k
\* times since the memory was x.
DueBy(x, d, k) == [t \in Timers |-> d[t] + k[t] * x.icnt[t]]
CallsBy(n, k) == [t \in Timers |-> n[t] + k[t]]

\* Those times are right at now, and the states of y agree with them.
RightTimes(y, x, now, d, k) == \A t \in Timers :
    /\ x.state[t] # "running" => k[t] = 0 /\ y.state[t] = x.state[t]
    /\ x.state[t] = "running" /\ x.type[t] = "once" =>
          \/ k[t] = 0 /\ y.state[t] = "running"
          \/ k[t] = 1 /\ y.state[t] = "stopped" /\ d[t] <= now
    /\ x.state[t] = "running" /\ x.type[t] = "periodic" =>
          y.state[t] = "running" /\ (k[t] > 0 => DueBy(x, d, k)[t] <= now + x.icnt[t])

\* y is what the memory x becomes e ticks after c.
Passed(y, x, c, d, n, e, k) ==
    /\ k \in [Timers -> Nat] /\ e \in Nat
    /\ TimersGood(y, c + e, DueBy(x, d, k), {}) /\ CallsCounted(y, CallsBy(n, k))
    /\ y.type = x.type /\ y.icnt = x.icnt
    /\ RightTimes(y, x, c + e, d, k)

\* What is so when nothing has passed.
PassedFrom(x, c, d, n) ==
    x \in TimerMemory /\ c \in Nat /\ d \in [Timers -> Nat] /\ n \in [Timers -> Nat]

LEMMA NothingPassed ==
    ASSUME NEW x, NEW c, NEW d, NEW n, TimersGood(x, c, d, {}), CallsCounted(x, n)
    PROVE  PassedFrom(x, c, d, n) /\ \E k : Passed(x, x, c, d, n, 0, k)
<1>1. x \in TimerMemory /\ c \in Nat /\ d \in [Timers -> Nat] /\ n \in [Timers -> Nat]
  BY DEF TimersGood, CallsCounted
<1>2. x.icnt \in [Timers -> Nat] /\ x.state \in [Timers -> {"invalid", "stopped", "running"}]
  BY <1>1, MemoryFields
<1>3. PICK k : k = [t \in Timers |-> 0]
  OBVIOUS
<1>4. k \in [Timers -> Nat] /\ \A t \in Timers : k[t] = 0
  BY <1>3
<1>5. DueBy(x, d, k) = d
  <2>1. \A t \in Timers : d[t] + k[t] * x.icnt[t] = d[t]
    <3>1. TAKE t \in Timers
    <3>2. d[t] \in Nat /\ x.icnt[t] \in Nat /\ k[t] = 0
      BY <1>1, <1>2, <1>4
    <3>3. 0 * x.icnt[t] = 0
      BY <3>2
    <3> QED BY <3>2, <3>3
  <2> QED BY <2>1, <1>1 DEF DueBy
<1>6. CallsBy(n, k) = n
  BY <1>1, <1>4 DEF CallsBy
<1>7. c + 0 = c
  BY <1>1
<1>8. RightTimes(x, x, c, d, k)
  BY <1>4 DEF RightTimes
<1>9. Passed(x, x, c, d, n, 0, k)
  BY <1>4, <1>5, <1>6, <1>7, <1>8 DEF Passed
<1> QED BY <1>1, <1>9 DEF PassedFrom

LEMMA OnceMoreDue ==
    ASSUME NEW a \in Nat, NEW p \in Nat
    PROVE  (a + 1) * p = a * p + p /\ a * p \in Nat
  BY SMT

LEMMA TickPassed ==
    ASSUME NEW x, NEW c, NEW d, NEW n, PassedFrom(x, c, d, n), NEW y, NEW e, NEW k, Passed(y, x, c, d, n, e, k),
           NEW z, z = TimerTick(y)
    PROVE  \E h : Passed(z, x, c, d, n, e + 1, h)
<1>1. /\ x \in TimerMemory /\ c \in Nat /\ d \in [Timers -> Nat] /\ n \in [Timers -> Nat]
      /\ k \in [Timers -> Nat] /\ e \in Nat
  BY DEF PassedFrom, Passed
<1>2. PICK dk, nk, now : dk = DueBy(x, d, k) /\ nk = CallsBy(n, k) /\ now = c + e
  OBVIOUS
<1>3. /\ TimersGood(y, now, dk, {}) /\ CallsCounted(y, nk) /\ y.type = x.type /\ y.icnt = x.icnt
      /\ RightTimes(y, x, now, d, k)
  BY <1>2 DEF Passed
<1>4. PICK S : S = DueNext(y, now, dk)
  OBVIOUS
<1>5. CalledFor(z, y, now + 1, dk, nk, S, {})
  <2>1. CASE y.list = <<>>
    BY <2>1, <1>3, <1>4, TickWithout
  <2>2. CASE y.list # <<>>
    BY <2>2, <1>3, <1>4, TickGood
  <2> QED BY <2>1, <2>2
<1>6. /\ TimersGood(z, now + 1, LaterDue(y, dk, S), {}) /\ CallsCounted(z, MoreCalls(nk, S))
      /\ z.type = x.type /\ z.icnt = x.icnt /\ z.state = StatesAfter(y, S)
  BY <1>3, <1>5 DEF CalledFor
<1>7. x.icnt \in [Timers -> Nat] /\ x.state \in [Timers -> {"invalid", "stopped", "running"}] /\ x.type \in [Timers -> {"once", "periodic"}]
  BY <1>1, MemoryFields
<1>8. PICK h : h = MoreCalls(k, S)
  OBVIOUS
<1>9. h \in [Timers -> Nat] /\ \A t \in Timers : h[t] = IF t \in S THEN k[t] + 1 ELSE k[t]
  BY <1>1, <1>8 DEF MoreCalls
<1>10. \A t \in Timers : d[t] \in Nat /\ k[t] \in Nat /\ x.icnt[t] \in Nat /\ n[t] \in Nat
  BY <1>1, <1>7
<1>11. ASSUME NEW t \in Timers PROVE d[t] + h[t] * x.icnt[t] = IF t \in S THEN dk[t] + x.icnt[t] ELSE dk[t]
  <2>1. dk[t] = d[t] + k[t] * x.icnt[t]
    BY <1>2 DEF DueBy
  <2>2. (k[t] + 1) * x.icnt[t] = k[t] * x.icnt[t] + x.icnt[t] /\ k[t] * x.icnt[t] \in Nat
    BY <1>10, OnceMoreDue
  <2>3. CASE t \in S
    <3>1. h[t] * x.icnt[t] = k[t] * x.icnt[t] + x.icnt[t]
      BY <2>2, <2>3, <1>9
    <3>2. PICK m \in Nat : m = k[t] * x.icnt[t]
      BY <2>2
    <3> QED BY <2>1, <2>3, <3>1, <3>2, <1>10
  <2>4. CASE t \notin S
    BY <2>1, <2>4, <1>9
  <2> QED BY <2>3, <2>4
<1>12. LaterDue(y, dk, S) = DueBy(x, d, h)
  BY <1>3, <1>11 DEF LaterDue, DueBy
<1>13. MoreCalls(nk, S) = CallsBy(n, h)
  <2>1. \A t \in Timers : nk[t] = n[t] + k[t]
    BY <1>2 DEF CallsBy
  <2>2. \A t \in Timers : (IF t \in S THEN nk[t] + 1 ELSE nk[t]) = n[t] + h[t]
    BY <2>1, <1>9, <1>10
  <2> QED BY <2>2 DEF MoreCalls, CallsBy
<1>14. ASSUME NEW t \in Timers
       PROVE  /\ x.state[t] # "running" => h[t] = 0 /\ z.state[t] = x.state[t]
              /\ x.state[t] = "running" /\ x.type[t] = "once" =>
                    \/ h[t] = 0 /\ z.state[t] = "running"
                    \/ h[t] = 1 /\ z.state[t] = "stopped" /\ d[t] <= now + 1
              /\ x.state[t] = "running" /\ x.type[t] = "periodic" =>
                    z.state[t] = "running" /\ (h[t] > 0 => DueBy(x, d, h)[t] <= now + 1 + x.icnt[t])
  <2>1. /\ x.state[t] # "running" => k[t] = 0 /\ y.state[t] = x.state[t]
        /\ x.state[t] = "running" /\ x.type[t] = "once" =>
              \/ k[t] = 0 /\ y.state[t] = "running"
              \/ k[t] = 1 /\ y.state[t] = "stopped" /\ d[t] <= now
        /\ x.state[t] = "running" /\ x.type[t] = "periodic" =>
              y.state[t] = "running" /\ (k[t] > 0 => dk[t] <= now + x.icnt[t])
    BY <1>2, <1>3 DEF RightTimes
  <2>2. t \in S <=> y.state[t] = "running" /\ dk[t] = now + 1
    BY <1>4 DEF DueNext
  <2>3. z.state[t] = IF t \in S /\ x.type[t] = "once" THEN "stopped" ELSE y.state[t]
    BY <1>3, <1>6 DEF StatesAfter
  <2>4. DueBy(x, d, h)[t] = IF t \in S THEN dk[t] + x.icnt[t] ELSE dk[t]
    BY <1>11 DEF DueBy
  <2>5. dk[t] = d[t] + k[t] * x.icnt[t] /\ dk[t] \in Nat
    <3>1. dk \in [Timers -> Nat]
      BY <1>3 DEF TimersGood
    <3> QED BY <3>1, <1>2 DEF DueBy
  <2>6. h[t] = IF t \in S THEN k[t] + 1 ELSE k[t]
    BY <1>9
  <2>7. now \in Nat /\ x.icnt[t] \in Nat /\ k[t] \in Nat /\ d[t] \in Nat
    BY <1>1, <1>2, <1>10
  <2>8. k[t] = 0 => dk[t] = d[t]
    BY <2>5, <2>7
  <2>9. CASE x.state[t] # "running"
    BY <2>1, <2>2, <2>3, <2>6, <2>9
  <2>10. CASE x.state[t] = "running" /\ x.type[t] = "once"
    <3>1. CASE t \in S
      <4>1. k[t] = 0 /\ dk[t] = now + 1
        BY <2>1, <2>2, <2>10, <3>1
      <4> QED BY <4>1, <3>1, <2>3, <2>6, <2>7, <2>8, <2>10
    <3>2. CASE t \notin S
      <4>1. h[t] = k[t] /\ z.state[t] = y.state[t]
        BY <3>2, <2>3, <2>6
      <4> QED BY <4>1, <2>1, <2>7, <2>10
    <3> QED BY <3>1, <3>2
  <2>11. CASE x.state[t] = "running" /\ x.type[t] = "periodic"
    <3>1. z.state[t] = "running"
      BY <2>1, <2>3, <2>11
    <3>2. h[t] > 0 => DueBy(x, d, h)[t] <= now + 1 + x.icnt[t]
      <4>1. CASE t \in S
        BY <4>1, <2>2, <2>4, <2>7
      <4>2. CASE t \notin S
        BY <4>2, <2>1, <2>4, <2>5, <2>6, <2>7, <2>11
      <4> QED BY <4>1, <4>2
    <3> QED BY <3>1, <3>2, <2>11
  <2>12. x.type[t] \in {"once", "periodic"}
    BY <1>7
  <2> QED BY <2>9, <2>10, <2>11, <2>12
<1>15. PICK soon : soon = now + 1
  OBVIOUS
<1>16. RightTimes(z, x, soon, d, h)
  BY <1>14, <1>15 DEF RightTimes
<1>17. c + (e + 1) = soon /\ e + 1 \in Nat
  BY <1>1, <1>2, <1>15
<1>18. TimersGood(z, soon, DueBy(x, d, h), {}) /\ CallsCounted(z, CallsBy(n, h))
  BY <1>6, <1>12, <1>13, <1>15
<1>19. Passed(z, x, c, d, n, e + 1, h)
  BY <1>6, <1>9, <1>16, <1>17, <1>18 DEF Passed
<1> QED BY <1>19

LEMMA ForwardPassed ==
    ASSUME NEW x, NEW c, NEW d, NEW n, PassedFrom(x, c, d, n), NEW y, NEW e, NEW k, Passed(y, x, c, d, n, e, k),
           y.list # <<>>, NEW v \in Nat, NEW w \in Nat, w > 0, y.list[1].tcnt = v + w,
           NEW list, list = [y.list EXCEPT ![1].tcnt = w], NEW z, z = [y EXCEPT !.list = list]
    PROVE  Passed(z, x, c, d, n, e + v, k)
<1>1. /\ c \in Nat /\ d \in [Timers -> Nat] /\ k \in [Timers -> Nat] /\ e \in Nat
  BY DEF PassedFrom, Passed
<1>2. PICK dk, nk, now : dk = DueBy(x, d, k) /\ nk = CallsBy(n, k) /\ now = c + e
  OBVIOUS
<1>3. /\ TimersGood(y, now, dk, {}) /\ CallsCounted(y, nk) /\ y.type = x.type /\ y.icnt = x.icnt
      /\ RightTimes(y, x, now, d, k)
  BY <1>2 DEF Passed
<1>4. PICK l : l = y.list
  OBVIOUS
<1>5. /\ y \in TimerMemory /\ now \in Nat /\ dk \in [Timers -> Nat] /\ ListExact(l, now, dk)
      /\ \A t \in Timers : (y.state[t] = "running" <=> InList(l, t)) /\ (y.state[t] = "running" => y.icnt[t] > 0)
  BY <1>3, <1>4 DEF TimersGood
<1>6. PICK N \in Nat : N = Len(l)
  BY <1>5 DEF ListExact
<1>7. /\ l \in Seq(TimerEntry) /\ l # <<>> /\ l[1].tcnt = v + w
      /\ \A i, j \in 1..N : l[i].timer = l[j].timer => i = j
      /\ \A i \in 1..N : Until(l, i) > 0 /\ now + Until(l, i) = dk[l[i].timer]
  BY <1>4, <1>5, <1>6 DEF ListExact
<1>8. list = [l EXCEPT ![1].tcnt = w]
  BY <1>4
<1>9. FirstSet(list, l, w)
  BY <1>7, <1>8, FirstChanged
<1>10. /\ list \in Seq(TimerEntry) /\ Len(list) = N /\ 1 \in 1..N
       /\ \A i \in 1..N : list[i].timer = l[i].timer /\ Until(list, i) = Until(l, i) - (v + w) + w
  BY <1>6, <1>7, <1>9 DEF FirstSet
<1>11. /\ \A i \in 0..N : Until(l, i) \in Nat /\ \A j \in i..N : Until(l, i) <= Until(l, j)
       /\ Until(l, 1) = v + w
  <2>1. Until(l, 0) = 0 /\ Until(l, 1) = Until(l, 1 - 1) + l[1].tcnt
    BY <1>6, <1>7, <1>10, UntilIs
  <2>2. Until(l, 1) = v + w
    BY <2>1, <1>7
  <2> QED BY <2>2, <1>6, <1>7, UntilGrows
<1>12. ASSUME NEW i \in 1..N PROVE Until(list, i) = Until(l, i) - v /\ Until(l, i) \in Nat /\ Until(l, i) >= v + w
  <2>1. i \in 0..N /\ 1 \in 0..N /\ i \in 1..N
    BY <1>10
  <2>2. Until(l, i) \in Nat /\ Until(l, 1) <= Until(l, i)
    BY <2>1, <1>11
  <2>3. PICK a \in Nat : a = Until(l, i)
    BY <2>2
  <2>4. v + w <= a
    BY <2>2, <2>3, <1>11
  <2>5. Until(list, i) = a - (v + w) + w
    BY <2>3, <1>10
  <2>6. a - (v + w) + w = a - v
    OBVIOUS
  <2> QED BY <2>3, <2>4, <2>5, <2>6
<1>13. PICK soon \in Nat : soon = now + v
  BY <1>5
<1>14. ListExact(list, soon, dk)
  <2>1. ASSUME NEW i \in 1..N PROVE Until(list, i) > 0 /\ soon + Until(list, i) = dk[list[i].timer]
    <3>1. now + Until(l, i) = dk[l[i].timer] /\ list[i].timer = l[i].timer
      BY <1>7, <1>10
    <3>2. Until(list, i) > 0 /\ soon + Until(list, i) = now + Until(l, i)
      <4>0. PICK a \in Nat : a = Until(l, i)
        BY <1>12
      <4>1. PICK b : a = Until(l, i) /\ b = Until(list, i)
        BY <4>0
      <4>2. b = a - v /\ a >= v + w
        BY <4>1, <1>12
      <4>3. b > 0 /\ soon + b = now + a
        BY <4>2, <1>5, <1>13
      <4> QED BY <4>1, <4>3
    <3> QED BY <3>1, <3>2
  <2>2. \A i, j \in 1..N : list[i].timer = list[j].timer => i = j
    BY <1>7, <1>10
  <2> QED BY <2>1, <2>2, <1>10 DEF ListExact
<1>15. \A t : InList(list, t) <=> InList(l, t)
  BY <1>6, <1>10 DEF InList
<1>16. WithList(y, list, z)
  BY <1>5, <1>10, ListReplaced
<1>17. /\ z \in TimerMemory /\ z.list = list /\ z.posted = y.posted /\ z.queue = y.queue
       /\ z.error = y.error /\ z.state = y.state /\ z.type = y.type /\ z.icnt = y.icnt
  BY <1>16 DEF WithList
<1>18. TimersGood(z, soon, dk, {})
  BY <1>5, <1>13, <1>14, <1>15, <1>17 DEF TimersGood
<1>19. CallsCounted(z, nk)
  BY <1>3, <1>17 DEF CallsCounted
<1>20. RightTimes(z, x, soon, d, k)
  <2>1. SUFFICES ASSUME NEW t \in Timers
        PROVE  /\ x.state[t] # "running" => k[t] = 0 /\ z.state[t] = x.state[t]
               /\ x.state[t] = "running" /\ x.type[t] = "once" =>
                     \/ k[t] = 0 /\ z.state[t] = "running"
                     \/ k[t] = 1 /\ z.state[t] = "stopped" /\ d[t] <= soon
               /\ x.state[t] = "running" /\ x.type[t] = "periodic" =>
                     z.state[t] = "running" /\ (k[t] > 0 => DueBy(x, d, k)[t] <= soon + x.icnt[t])
    BY DEF RightTimes
  <2>2. /\ x.state[t] # "running" => k[t] = 0 /\ y.state[t] = x.state[t]
        /\ x.state[t] = "running" /\ x.type[t] = "once" =>
              \/ k[t] = 0 /\ y.state[t] = "running"
              \/ k[t] = 1 /\ y.state[t] = "stopped" /\ d[t] <= now
        /\ x.state[t] = "running" /\ x.type[t] = "periodic" =>
              y.state[t] = "running" /\ (k[t] > 0 => dk[t] <= now + x.icnt[t])
    BY <1>2, <1>3 DEF RightTimes
  <2>3. d[t] \in Nat /\ dk[t] \in Nat /\ x.icnt[t] \in Nat /\ now <= soon
    BY <1>1, <1>3, <1>5, <1>13, MemoryFields
  <2>4. d[t] <= now => d[t] <= soon
    BY <2>3, <1>5
  <2>5. dk[t] <= now + x.icnt[t] => dk[t] <= soon + x.icnt[t]
    BY <2>3, <1>5
  <2> QED BY <2>2, <2>4, <2>5, <1>2, <1>17
<1>21. c + (e + v) = soon /\ e + v \in Nat
  BY <1>1, <1>2, <1>13
<1> QED BY <1>1, <1>2, <1>3, <1>17, <1>18, <1>19, <1>20, <1>21 DEF Passed

LEMMA WaitedPassed ==
    ASSUME NEW x, NEW c, NEW d, NEW n, PassedFrom(x, c, d, n), NEW y, NEW e, NEW k, Passed(y, x, c, d, n, e, k),
           y.list = <<>>, NEW v \in Nat
    PROVE  Passed(y, x, c, d, n, e + v, k)
<1>1. /\ c \in Nat /\ d \in [Timers -> Nat] /\ k \in [Timers -> Nat] /\ e \in Nat
  BY DEF PassedFrom, Passed
<1>2. PICK dk, nk, now : dk = DueBy(x, d, k) /\ nk = CallsBy(n, k) /\ now = c + e
  OBVIOUS
<1>3. /\ TimersGood(y, now, dk, {}) /\ CallsCounted(y, nk) /\ y.type = x.type /\ y.icnt = x.icnt
      /\ RightTimes(y, x, now, d, k)
  BY <1>2 DEF Passed
<1>4. Len(y.list) = 0 /\ \A i \in 1..Len(y.list) : FALSE
  OBVIOUS
<1>5. PICK soon \in Nat : soon = now + v
  BY <1>1, <1>2
<1>6. TimersGood(y, soon, dk, {})
  <2>1. ListExact(y.list, soon, dk)
    BY <1>3, <1>4 DEF TimersGood, ListExact
  <2> QED BY <2>1, <1>3, <1>5 DEF TimersGood
<1>7. RightTimes(y, x, soon, d, k)
  <2>1. SUFFICES ASSUME NEW t \in Timers
        PROVE  /\ x.state[t] # "running" => k[t] = 0 /\ y.state[t] = x.state[t]
               /\ x.state[t] = "running" /\ x.type[t] = "once" =>
                     \/ k[t] = 0 /\ y.state[t] = "running"
                     \/ k[t] = 1 /\ y.state[t] = "stopped" /\ d[t] <= soon
               /\ x.state[t] = "running" /\ x.type[t] = "periodic" =>
                     y.state[t] = "running" /\ (k[t] > 0 => DueBy(x, d, k)[t] <= soon + x.icnt[t])
    BY DEF RightTimes
  <2>2. /\ x.state[t] # "running" => k[t] = 0 /\ y.state[t] = x.state[t]
        /\ x.state[t] = "running" /\ x.type[t] = "once" =>
              \/ k[t] = 0 /\ y.state[t] = "running"
              \/ k[t] = 1 /\ y.state[t] = "stopped" /\ d[t] <= now
        /\ x.state[t] = "running" /\ x.type[t] = "periodic" =>
              y.state[t] = "running" /\ (k[t] > 0 => dk[t] <= now + x.icnt[t])
    BY <1>2, <1>3 DEF RightTimes
  <2>3. y.state[t] # "running"
    BY <1>3, <1>4 DEF TimersGood, InList
  <2>4. d[t] <= now => d[t] <= soon
    BY <1>1, <1>2, <1>5
  <2> QED BY <2>2, <2>3, <2>4
<1>8. c + (e + v) = soon /\ e + v \in Nat
  BY <1>1, <1>2, <1>5
<1> QED BY <1>1, <1>2, <1>3, <1>6, <1>7, <1>8 DEF Passed

LEMMA FirstWaits ==
    ASSUME NEW x, NEW c, NEW d, NEW n, NEW y, NEW e, NEW k, Passed(y, x, c, d, n, e, k), y.list # <<>>
    PROVE  y.list[1].tcnt \in Nat /\ y.list[1].tcnt > 0 /\ y \in TimerMemory /\ Head(y.list) = y.list[1]
<1>1. PICK now, dk : TimersGood(y, now, dk, {})
  BY DEF Passed
<1>2. y \in TimerMemory /\ ListExact(y.list, now, dk)
  BY <1>1 DEF TimersGood
<1>3. PICK l \in Seq(TimerEntry) : l = y.list
  BY <1>2 DEF ListExact
<1>4. l # <<>> /\ 1 \in 1..Len(l) /\ Head(l) = l[1]
  BY <1>3
<1>5. Until(l, 1) > 0
  BY <1>2, <1>3, <1>4 DEF ListExact
<1>6. l[1].tcnt \in Nat
  BY <1>3, <1>4, TimerEntryFields
<1>7. Until(l, 0) = 0 /\ Until(l, 1) = Until(l, 1 - 1) + l[1].tcnt
  BY <1>3, <1>4, UntilIs
<1>8. Until(l, 1) = l[1].tcnt
  BY <1>6, <1>7
<1> QED BY <1>2, <1>3, <1>4, <1>5, <1>6, <1>8

\* After i rounds of the update a is what x becomes, as far as the sleep is
\* used, and each round used some of it.
RoundGood(a, i, x, c, d, n, sleep) ==
    /\ a.left \in 0..sleep
    /\ \E k : Passed(a.x, x, c, d, n, sleep - a.left, k)
    /\ a.left = 0 \/ a.x.list = <<>> \/ a.left <= sleep - i

LEMMA RoundKeeps ==
    ASSUME NEW x, NEW c, NEW d, NEW n, PassedFrom(x, c, d, n), NEW sleep \in Nat, NEW i \in Nat,
           NEW a, RoundGood(a, i, x, c, d, n, sleep), NEW b, b = UpdateRound(a)
    PROVE  RoundGood(b, i + 1, x, c, d, n, sleep)
<1>0. PICK over \in 0..sleep : over = a.left
  BY DEF RoundGood
<1>1. PICK y : over = a.left /\ y = a.x
  BY <1>0
<1>2. over \in Nat /\ sleep - over \in Nat
  BY <1>1
<1>3. PICK e \in Nat : e = sleep - over
  BY <1>2
<1>4. PICK k : Passed(y, x, c, d, n, e, k)
  BY <1>1, <1>3 DEF RoundGood
<1>5. CASE over = 0 \/ y.list = <<>>
  <2>1. b = a
    BY <1>1, <1>5 DEF UpdateRound
  <2> QED BY <2>1, <1>1, <1>5 DEF RoundGood
<1>6. CASE over # 0 /\ y.list # <<>>
  <2>1. PICK p \in Nat : p = y.list[1].tcnt /\ p > 0 /\ Head(y.list).tcnt = p
    BY <1>4, <1>6, FirstWaits
  <2>2. over <= sleep - i /\ over > 0
    BY <1>1, <1>2, <1>6 DEF RoundGood
  <2>3. CASE over >= p
    <3>1. PICK v \in Nat : v = p - 1
      <4>1. p - 1 \in Nat
        BY <2>1
      <4> QED BY <4>1
    <3>2. PICK list : list = [y.list EXCEPT ![1].tcnt = 1]
      OBVIOUS
    <3>3. PICK z : z = [y EXCEPT !.list = list]
      OBVIOUS
    <3>4. p = v + 1
      BY <3>1
    <3>5. Passed(z, x, c, d, n, e + v, k)
      <4>1. PICK u \in Nat : u = 1 /\ u > 0
        OBVIOUS
      <4>2. y.list[1].tcnt = v + u /\ list = [y.list EXCEPT ![1].tcnt = u]
        BY <3>2, <3>4, <4>1, <2>1
      <4> QED BY <3>3, <4>1, <4>2, <1>4, <1>6, ForwardPassed
    <3>6. PICK w : w = TimerTick(z)
      OBVIOUS
    <3>7. PICK h : Passed(w, x, c, d, n, e + v + 1, h)
      BY <3>5, <3>6, TickPassed
    <3>8. b = [x |-> w, left |-> over - p]
      <4>1. y \in TimerMemory
        BY <1>4, <1>6, FirstWaits
      <4>2. z = [y EXCEPT !.list[1].tcnt = 1]
        BY <3>2, <3>3, <4>1 DEF TimerMemory
      <4> QED BY <4>2, <3>6, <2>1, <2>3, <1>1, <1>6 DEF UpdateRound
    <3>9. b.x = w /\ b.left = over - p
      BY <3>8
    <3>10. PICK rest \in 0..sleep : rest = over - p
      BY <2>1, <2>3, <1>1
    <3>11. e + v + 1 = sleep - rest /\ rest <= sleep - (i + 1)
      BY <3>1, <3>10, <2>1, <2>2, <1>2, <1>3
    <3> QED BY <3>7, <3>9, <3>10, <3>11 DEF RoundGood
  <2>4. CASE ~(over >= p)
    <3>1. PICK v \in Nat : v = p - over /\ v > 0 /\ p = over + v
      <4>1. p - over \in Nat /\ p - over > 0 /\ p = over + (p - over)
        BY <2>1, <2>4, <1>2
      <4> QED BY <4>1
    <3>2. PICK list : list = [y.list EXCEPT ![1].tcnt = v]
      OBVIOUS
    <3>3. PICK z : z = [y EXCEPT !.list = list]
      OBVIOUS
    <3>4. Passed(z, x, c, d, n, e + over, k)
      BY <3>1, <3>2, <3>3, <2>1, <1>2, <1>4, <1>6, ForwardPassed
    <3>5. b = [x |-> z, left |-> 0]
      <4>1. y \in TimerMemory
        BY <1>4, <1>6, FirstWaits
      <4>2. list = [y.list EXCEPT ![1].tcnt = @ - over]
        BY <3>1, <3>2, <2>1
      <4>3. z = [y EXCEPT !.list[1].tcnt = @ - over]
        BY <3>3, <4>1, <4>2 DEF TimerMemory
      <4>4. ~(over >= Head(y.list).tcnt) /\ ~(over = 0 \/ y.list = <<>>)
        BY <2>1, <2>4, <1>6
      <4> QED BY <4>3, <4>4, <1>1 DEF UpdateRound
    <3>6. b.x = z /\ b.left = 0
      BY <3>5
    <3>7. e + over = sleep - 0
      BY <1>2, <1>3
    <3>8. 0 \in 0..sleep
      OBVIOUS
    <3> QED BY <3>4, <3>6, <3>7, <3>8 DEF RoundGood
  <2> QED BY <2>3, <2>4
<1> QED BY <1>5, <1>6

\* f follows the rounds of the update.
RoundsUp(f, x, sleep) ==
    f[0] = [x |-> x, left |-> sleep] /\ \A i \in 1..sleep : f[i] = UpdateRound(f[i - 1])

LEMMA RoundsExist ==
    ASSUME NEW sleep \in Nat, NEW x
    PROVE  \E f : f = [i \in 0..sleep |-> f[i]] /\ RoundsUp(f, x, sleep)
<1>z. PICK z : z = [x |-> x, left |-> sleep]
  OBVIOUS
<1>0. SUFFICES \E f : f = [i \in 0..sleep |-> IF i = 0 THEN z ELSE UpdateRound(f[i - 1])]
  <2>1. PICK f : f = [i \in 0..sleep |-> IF i = 0 THEN z ELSE UpdateRound(f[i - 1])]
    BY <1>0
  <2>2. f = [i \in 0..sleep |-> f[i]]
    BY <2>1
  <2>3. \A i \in 0..sleep : f[i] = IF i = 0 THEN z ELSE UpdateRound(f[i - 1])
    BY <2>1
  <2>4. 0 \in 0..sleep /\ \A i \in 1..sleep : i \in 0..sleep /\ i # 0
    OBVIOUS
  <2> QED BY <2>2, <2>3, <2>4, <1>z DEF RoundsUp
<1> DEFINE Step(f, k) == [i \in 0..k |-> IF i = 0 THEN z ELSE UpdateRound(f[i - 1])]
           No == {k \in 0..sleep : ~ \E f : f = Step(f, k)}
<1>1. SUFFICES ASSUME No # {} PROVE FALSE
  OBVIOUS
<1>2. No \subseteq Nat
  OBVIOUS
<1>3. PICK k \in No : \A y \in No : k <= y
  BY <1>1, <1>2, LeastExists
<1>4. k # 0
  <2>1. SUFFICES ASSUME k = 0 PROVE FALSE
    OBVIOUS
  <2> DEFINE f == [i \in 0..0 |-> z]
  <2>2. f = Step(f, 0)
    <3>1. \A i \in 0..0 : i = 0
      OBVIOUS
    <3> QED BY <3>1
  <2> HIDE DEF f, Step
  <2> QED BY <2>1, <2>2
<1>5. k - 1 \in 0..sleep /\ k - 1 \notin No /\ k \in 1..sleep
  BY <1>3, <1>4
<1>6. PICK f : f = Step(f, k - 1)
  BY <1>5
<1>7. \A i \in 0..(k - 1) : f[i] = IF i = 0 THEN z ELSE UpdateRound(f[i - 1])
  BY <1>6
<1> DEFINE g == [i \in 0..k |-> IF i = k THEN UpdateRound(f[k - 1]) ELSE f[i]]
<1>8. \A i \in 0..k : g[i] = IF i = 0 THEN z ELSE UpdateRound(g[i - 1])
  <2>1. TAKE i \in 0..k
  <2>2. CASE i = k
    <3>1. k - 1 \in 0..k /\ k - 1 # k /\ k # 0
      BY <1>4, <1>5
    <3> QED BY <2>2, <3>1
  <2>3. CASE i # k
    <3>1. i \in 0..(k - 1) /\ (i # 0 => i - 1 \in 0..k /\ i - 1 # k)
      BY <2>3, <1>5
    <3> QED BY <2>3, <3>1, <1>7
  <2> QED BY <2>2, <2>3
<1>9. g = Step(g, k)
  <2>1. g = [i \in 0..k |-> g[i]]
    OBVIOUS
  <2> HIDE DEF g
  <2> QED BY <2>1, <1>8
<1> HIDE DEF g, Step
<1> QED BY <1>3, <1>9

LEMMA UpdateIs ==
    ASSUME NEW sleep \in Nat, NEW x, NEW y, y = UserTimerUpdate(x, sleep)
    PROVE  \E f : RoundsUp(f, x, sleep) /\ y = f[sleep].x
<1>1. PICK z : z = [x |-> x, left |-> sleep]
  OBVIOUS
<1> DEFINE Step(f) == [i \in 0..sleep |-> IF i = 0 THEN z ELSE UpdateRound(f[i - 1])]
           c == CHOOSE f : f = Step(f)
<1>2. \E f : f = Step(f)
  <2>1. PICK f : f = [i \in 0..sleep |-> f[i]] /\ RoundsUp(f, x, sleep)
    BY RoundsExist
  <2>2. \A i \in 0..sleep : f[i] = IF i = 0 THEN z ELSE UpdateRound(f[i - 1])
    <3>1. \A i \in 0..sleep : i # 0 => i \in 1..sleep
      OBVIOUS
    <3> QED BY <3>1, <2>1, <1>1 DEF RoundsUp
  <2>3. f = Step(f)
    BY <2>1, <2>2
  <2> HIDE DEF Step
  <2> QED BY <2>3
<1>3. c = Step(c)
  <2> HIDE DEF Step
  <2> QED BY <1>2
<1>4. y = c[sleep].x
  BY <1>1 DEF UserTimerUpdate
<1> HIDE DEF c
<1>5. \A i \in 0..sleep : c[i] = IF i = 0 THEN z ELSE UpdateRound(c[i - 1])
  BY <1>3
<1>6. RoundsUp(c, x, sleep)
  <2>1. \A i \in 1..sleep : i \in 0..sleep /\ i # 0
    OBVIOUS
  <2>2. 0 \in 0..sleep
    OBVIOUS
  <2> HIDE DEF Step
  <2> QED BY <2>1, <2>2, <1>1, <1>5 DEF RoundsUp
<1> QED BY <1>4, <1>6

LEMMA UpdatePassed ==
    ASSUME NEW x, NEW c, NEW d, NEW n, TimersGood(x, c, d, {}), CallsCounted(x, n),
           NEW sleep \in Nat, NEW y, y = UserTimerUpdate(x, sleep)
    PROVE  \E k : Passed(y, x, c, d, n, sleep, k)
<1>1. PassedFrom(x, c, d, n)
  BY NothingPassed
<1>2. PICK k0 : Passed(x, x, c, d, n, 0, k0)
  BY NothingPassed
<1>3. PICK f : RoundsUp(f, x, sleep) /\ y = f[sleep].x
  BY UpdateIs
<1>4. f[0].x = x /\ f[0].left = sleep /\ \A i \in 1..sleep : f[i] = UpdateRound(f[i - 1])
  BY <1>3 DEF RoundsUp
<1>5. RoundGood(f[0], 0, x, c, d, n, sleep)
  <2>1. sleep - sleep = 0 /\ sleep \in 0..sleep /\ sleep <= sleep - 0
    OBVIOUS
  <2> QED BY <2>1, <1>2, <1>4 DEF RoundGood
<1>6. \A i \in 0..sleep : RoundGood(f[i], i, x, c, d, n, sleep)
  <2> DEFINE No == {i \in 0..sleep : ~RoundGood(f[i], i, x, c, d, n, sleep)}
  <2>1. SUFFICES ASSUME No # {} PROVE FALSE
    OBVIOUS
  <2>2. No \subseteq Nat
    OBVIOUS
  <2>3. PICK i \in No : \A j \in No : i <= j
    BY <2>1, <2>2, LeastExists
  <2>4. i # 0
    BY <2>3, <1>5
  <2>5. PICK j \in Nat : j = i - 1 /\ j + 1 = i /\ j \in 0..sleep /\ j \notin No
    <3>1. i - 1 \in Nat /\ i - 1 \in 0..sleep /\ i - 1 \notin No /\ (i - 1) + 1 = i
      BY <2>3, <2>4
    <3> QED BY <3>1
  <2>6. RoundGood(f[j], j, x, c, d, n, sleep)
    BY <2>5
  <2>7. f[i] = UpdateRound(f[j])
    <3>1. i \in 1..sleep
      BY <2>4
    <3> QED BY <3>1, <2>5, <1>4
  <2>8. RoundGood(f[i], j + 1, x, c, d, n, sleep)
    BY <2>6, <2>7, <1>1, RoundKeeps
  <2> QED BY <2>3, <2>5, <2>8
<1>7. RoundGood(f[sleep], sleep, x, c, d, n, sleep)
  BY <1>6
<1>z. PICK over \in 0..sleep : over = f[sleep].left
  BY <1>7 DEF RoundGood
<1>8. PICK k : over = f[sleep].left /\ Passed(y, x, c, d, n, sleep - over, k)
  BY <1>z, <1>3, <1>7 DEF RoundGood
<1>9. CASE over = 0
  <2>1. sleep - over = sleep
    BY <1>9
  <2> QED BY <2>1, <1>8
<1>10. CASE over # 0
  <2>1. y.list = <<>>
    <3>1. over = 0 \/ y.list = <<>> \/ over <= sleep - sleep
      BY <1>3, <1>7, <1>8 DEF RoundGood
    <3> QED BY <3>1, <1>10
  <2>2. PICK e \in Nat, v \in Nat : e = sleep - over /\ v = over /\ e + v = sleep
    OBVIOUS
  <2>3. Passed(y, x, c, d, n, e + v, k)
    BY <2>1, <2>2, <1>1, <1>8, WaitedPassed
  <2> QED BY <2>2, <2>3
<1> QED BY <1>9, <1>10

\* How often t is called from x up to now, when d says when it is due.
TimesCalled(x, now, d, t) ==
    IF x.state[t] # "running" \/ d[t] > now THEN 0
    ELSE IF x.type[t] = "once" THEN 1
    ELSE 1 + (now - d[t]) \div x.icnt[t]

LEMMA Quotient ==
    ASSUME NEW a \in Nat, NEW p \in Nat, NEW q \in Nat, p > 0, q * p <= a, a < (q + 1) * p
    PROVE  a \div p = q
  BY SMTT(30)

LEMMA TimesRight ==
    ASSUME NEW x, NEW c, NEW d, NEW n, PassedFrom(x, c, d, n), TimersGood(x, c, d, {}),
           NEW y, NEW e, NEW k, Passed(y, x, c, d, n, e, k), NEW t \in Timers
    PROVE  k[t] = TimesCalled(x, c + e, d, t)
<1>1. /\ x \in TimerMemory /\ c \in Nat /\ d \in [Timers -> Nat] /\ k \in [Timers -> Nat] /\ e \in Nat
  BY DEF PassedFrom, Passed
<1>0. PICK now \in Nat : now = c + e
  BY <1>1
<1>2. PICK dk : dk = DueBy(x, d, k) /\ now = c + e
  BY <1>0
<1>3. /\ TimersGood(y, now, dk, {}) /\ y.type = x.type /\ y.icnt = x.icnt
      /\ RightTimes(y, x, now, d, k)
  BY <1>2 DEF Passed
<1>4. /\ x.state[t] # "running" => k[t] = 0 /\ y.state[t] = x.state[t]
      /\ x.state[t] = "running" /\ x.type[t] = "once" =>
            \/ k[t] = 0 /\ y.state[t] = "running"
            \/ k[t] = 1 /\ y.state[t] = "stopped" /\ d[t] <= now
      /\ x.state[t] = "running" /\ x.type[t] = "periodic" =>
            y.state[t] = "running" /\ (k[t] > 0 => dk[t] <= now + x.icnt[t])
  BY <1>2, <1>3 DEF RightTimes
<1>5. PICK a \in Nat, p \in Nat, q \in Nat : a = d[t] /\ p = x.icnt[t] /\ q = k[t]
  BY <1>1, MemoryFields
<1>6. dk[t] = a + q * p /\ q * p \in Nat
  <2>1. q * p \in Nat
    BY OnceMoreDue
  <2> QED BY <2>1, <1>2, <1>5 DEF DueBy
<1>7. q = 0 => dk[t] = a
  BY <1>6
<1>8. y.state[t] = "running" => dk[t] > now
  <2>1. ASSUME y.state[t] = "running" PROVE dk[t] > now
    <3>1. InList(y.list, t) /\ ListExact(y.list, now, dk)
      BY <1>3, <2>1 DEF TimersGood
    <3>2. PICK i : Until(y.list, i) > 0 /\ now + Until(y.list, i) = dk[t] /\ i \in 0..Len(y.list)
      BY <3>1 DEF InList, ListExact
    <3>3. Until(y.list, i) \in Nat
      BY <3>1, <3>2, UntilGrows DEF ListExact
    <3> QED BY <3>2, <3>3
  <2> QED BY <2>1
<1>9. x.state[t] = "running" => p > 0
  BY <1>5 DEF TimersGood
<1>10. CASE x.state[t] # "running"
  BY <1>10, <1>4 DEF TimesCalled
<1>11. CASE x.state[t] = "running" /\ x.type[t] = "once"
  <2>1. CASE a > now
    BY <2>1, <1>2, <1>4, <1>5, <1>11 DEF TimesCalled
  <2>2. CASE ~(a > now)
    <3>1. k[t] = 1
      BY <2>2, <1>4, <1>5, <1>7, <1>8, <1>11
    <3> QED BY <2>2, <3>1, <1>2, <1>5, <1>11 DEF TimesCalled
  <2> QED BY <2>1, <2>2
<1>12. CASE x.state[t] = "running" /\ x.type[t] = "periodic"
  <2>1. dk[t] > now /\ (q > 0 => dk[t] <= now + p) /\ p > 0
    BY <1>4, <1>5, <1>8, <1>9, <1>12
  <2>2. CASE a > now
    <3>1. q = 0
      <4>1. SUFFICES ASSUME q > 0 PROVE FALSE
        OBVIOUS
      <4>2. PICK r \in Nat : q = r + 1
        <5>1. q - 1 \in Nat /\ q = (q - 1) + 1
          BY <4>1
        <5> QED BY <5>1
      <4>3. q * p = r * p + p /\ r * p \in Nat
        BY <4>2, OnceMoreDue
      <4> QED BY <4>1, <4>3, <2>1, <2>2, <1>6
    <3> QED BY <2>2, <3>1, <1>2, <1>5, <1>12 DEF TimesCalled
  <2>3. CASE ~(a > now)
    <3>1. q > 0
      BY <2>1, <2>3, <1>7
    <3>2. PICK r \in Nat : q = r + 1
      <4>1. q - 1 \in Nat /\ q = (q - 1) + 1
        BY <3>1
      <4> QED BY <4>1
    <3>3. PICK m \in Nat : m = r * p
      BY OnceMoreDue
    <3>4. (r + 1) * p = m + p
      BY <3>3, OnceMoreDue
    <3>5. PICK b \in Nat : b = now - a
      <4>1. now - a \in Nat
        BY <2>3
      <4> QED BY <4>1
    <3>6. dk[t] = a + (m + p)
      BY <3>2, <3>4, <1>6
    <3>7. m <= b /\ b < m + p
      BY <3>1, <3>5, <3>6, <2>1
    <3>8. b \div p = r
      BY <3>3, <3>4, <3>7, <2>1, Quotient
    <3>9. TimesCalled(x, now, d, t) = 1 + b \div p
      BY <2>3, <3>5, <1>5, <1>12 DEF TimesCalled
    <3> QED BY <3>2, <3>8, <3>9, <1>2, <1>5
  <2> QED BY <2>2, <2>3
<1>13. x.type[t] \in {"once", "periodic"}
  BY <1>1, MemoryFields
<1> QED BY <1>10, <1>11, <1>12, <1>13

-----------------------------------------------------------------------------
(* The timers are faithful *)

\* The list holds the running timers and when they are due, and what is queued
\* and posted is what is still to be called.
TimerInv == TimersGood(mem, clock, due, {}) /\ CallsCounted(mem, calls)

LEMMA PassesKeeps ==
    ASSUME TimerInv, NEW e \in Nat, Passes(e), NEW k, Passed(mem', mem, clock, due, calls, e, k)
    PROVE  TimerInv'
<1>1. PassedFrom(mem, clock, due, calls) /\ TimersGood(mem, clock, due, {}) /\ CallsCounted(mem, calls)
  BY NothingPassed DEF TimerInv
<1>2. /\ k \in [Timers -> Nat] /\ TimersGood(mem', clock + e, DueBy(mem, due, k), {})
      /\ CallsCounted(mem', CallsBy(calls, k))
  BY DEF Passed
<1>3. \A t \in Timers : k[t] = TimesDue(t, clock + e)
  <2>1. \A t \in Timers : k[t] = TimesCalled(mem, clock + e, due, t)
    BY <1>1, TimesRight
  <2>2. \A t \in Timers : TimesCalled(mem, clock + e, due, t) = TimesDue(t, clock + e)
    BY DEF TimesCalled, TimesDue
  <2> QED BY <2>1, <2>2
<1>4. clock' = clock + e
  BY DEF Passes
<1>5. due' = DueBy(mem, due, k)
  <2>1. due' = [t \in Timers |-> due[t] + TimesDue(t, clock + e) * mem.icnt[t]]
    BY DEF Passes
  <2> QED BY <2>1, <1>3 DEF DueBy
<1>6. calls' = CallsBy(calls, k)
  <2>1. calls' = [t \in Timers |-> calls[t] + TimesDue(t, clock + e)]
    BY DEF Passes
  <2> QED BY <2>1, <1>3 DEF CallsBy
<1> QED BY <1>2, <1>4, <1>5, <1>6 DEF TimerInv

LEMMA TicksKeeps ==
    ASSUME TimerInv, TimerTicks
    PROVE  TimerInv'
<1>1. TimersGood(mem, clock, due, {}) /\ CallsCounted(mem, calls)
  BY DEF TimerInv
<1>2. PassedFrom(mem, clock, due, calls)
  BY <1>1, NothingPassed
<1>3. PICK k : Passed(mem, mem, clock, due, calls, 0, k)
  BY <1>1, NothingPassed
<1>4. PICK y : y = mem' /\ y = TimerTick(mem)
  BY DEF TimerTicks
<1>5. PICK h : Passed(y, mem, clock, due, calls, 0 + 1, h)
  BY <1>2, <1>3, <1>4, TickPassed
<1>6. Passed(mem', mem, clock, due, calls, 1, h)
  BY <1>4, <1>5
<1>7. Passes(1)
  BY DEF TimerTicks
<1> QED BY <1>6, <1>7, PassesKeeps

LEMMA ResumeKeeps ==
    ASSUME TimerInv, NEW e \in Nat, TimerResume(e)
    PROVE  TimerInv'
<1>1. TimersGood(mem, clock, due, {}) /\ CallsCounted(mem, calls)
  BY DEF TimerInv
<1>2. PICK y : y = mem' /\ y = UserTimerUpdate(mem, e)
  BY DEF TimerResume
<1>3. PICK h : Passed(y, mem, clock, due, calls, e, h)
  BY <1>1, <1>2, UpdatePassed
<1>4. Passed(mem', mem, clock, due, calls, e, h) /\ Passes(e)
  BY <1>2, <1>3 DEF TimerResume
<1> QED BY <1>4, PassesKeeps

LEMMA PostServiceKeeps ==
    ASSUME TimerInv, PostService
    PROVE  TimerInv'
<1>1. TimersGood(mem, clock, due, {}) /\ CallsCounted(mem, calls) /\ mem \in TimerMemory
  BY DEF TimerInv, TimersGood
<1>2. PICK q, p : q = mem.queue /\ p = mem.posted /\ q \in Seq(Timers) /\ p \in Seq(Timers) /\ ~mem.error
  BY <1>1, MemoryFields DEF PostService
<1>3. clock' = clock /\ due' = due /\ calls' = calls
  BY DEF PostService
<1>4. CASE mem' = [mem EXCEPT !.error = TRUE]
  <2>1. /\ mem' \in TimerMemory /\ mem'.list = mem.list /\ mem'.state = mem.state
        /\ mem'.icnt = mem.icnt /\ mem'.error
    BY <1>1, <1>4 DEF TimerMemory
  <2> QED BY <2>1, <1>1, <1>3 DEF TimerInv, TimersGood, CallsCounted
<1>5. CASE mem' = [mem EXCEPT !.queue = q \o p, !.posted = <<>>]
  <2>1. q \o p \in Seq(Timers) /\ <<>> \in Seq(Timers) /\ (q \o p) \o <<>> = q \o p
    BY <1>2
  <2>2. /\ mem' \in TimerMemory /\ mem'.list = mem.list /\ mem'.state = mem.state
        /\ mem'.icnt = mem.icnt /\ mem'.queue = q \o p /\ mem'.posted = <<>>
    BY <2>1, <1>1, <1>5 DEF TimerMemory
  <2>3. mem'.queue \o mem'.posted = mem.queue \o mem.posted
    BY <2>1, <2>2, <1>2
  <2> QED BY <2>2, <2>3, <1>1, <1>2, <1>3 DEF TimerInv, TimersGood, CallsCounted
<1> QED BY <1>2, <1>4, <1>5 DEF PostService

LEMMA CallbackKeeps ==
    ASSUME TimerInv, Callback
    PROVE  TimerInv'
<1>1. TimersGood(mem, clock, due, {}) /\ CallsCounted(mem, calls) /\ mem \in TimerMemory
  BY DEF TimerInv, TimersGood
<1>2. PICK q, r, x : q = mem.queue /\ r = Tail(q) /\ x = Head(q)
  OBVIOUS
<1>3. q \in Seq(Timers) /\ q # <<>> /\ mem.posted = <<>> /\ ~mem.error /\ calls \in [Timers -> Nat]
  BY <1>1, <1>2, MemoryFields DEF Callback, InThread, CallsCounted
<1>4. OnceMore(q, r, x) /\ r \in Seq(Timers) /\ x \in Timers
  BY <1>2, <1>3, TailOnceLess
<1>5. clock' = clock /\ due' = due /\ mem' = [mem EXCEPT !.queue = r] /\ calls' = [calls EXCEPT ![x] = @ - 1]
  BY <1>2 DEF Callback
<1>6. /\ mem' \in TimerMemory /\ mem'.list = mem.list /\ mem'.state = mem.state
      /\ mem'.icnt = mem.icnt /\ mem'.queue = r /\ mem'.posted = <<>> /\ mem'.error = mem.error
  BY <1>1, <1>3, <1>4, <1>5 DEF TimerMemory
<1>7. TimersGood(mem', clock', due', {})
  BY <1>1, <1>5, <1>6 DEF TimersGood
<1>8. q \o <<>> = q /\ r \o <<>> = r
  BY <1>3, <1>4
<1>9. \A t \in Timers : TimesIn(q, t) = calls[t]
  BY <1>1, <1>2, <1>3, <1>8 DEF CallsCounted
<1>10. \A t \in Timers : calls'[t] = IF t = x THEN calls[t] - 1 ELSE calls[t]
  BY <1>3, <1>5
<1>11. ASSUME NEW t \in Timers PROVE TimesIn(r, t) = calls'[t] /\ calls'[t] \in Nat
  <2>1. TimesIn(q, t) = calls[t] /\ TimesIn(r, t) \in Nat /\ (x = t => TimesIn(q, t) = TimesIn(r, t) + 1) /\ (x # t => TimesIn(r, t) = TimesIn(q, t))
    BY <1>4, <1>9 DEF OnceMore
  <2>2. PICK a, b \in Nat : a = TimesIn(q, t) /\ b = TimesIn(r, t)
    BY <2>1
  <2>3. CASE x = t
    BY <2>1, <2>2, <2>3, <1>10
  <2>4. CASE x # t
    BY <2>1, <2>2, <2>4, <1>10
  <2> QED BY <2>3, <2>4
<1>12. calls' \in [Timers -> Nat]
  BY <1>3, <1>5, <1>11
<1> QED BY <1>6, <1>7, <1>8, <1>11, <1>12 DEF TimerInv, CallsCounted

LEMMA CreateKeeps ==
    ASSUME TimerInv, NEW t \in Timers, NEW type \in {"once", "periodic"}, TimerCreate(t, type)
    PROVE  TimerInv'
<1>1. TimersGood(mem, clock, due, {}) /\ CallsCounted(mem, calls) /\ mem \in TimerMemory
  BY DEF TimerInv, TimersGood
<1>2. PICK st : st = [mem.state EXCEPT ![t] = "stopped"]
  OBVIOUS
<1>3. PICK ty : ty = [mem.type EXCEPT ![t] = type]
  OBVIOUS
<1>4. /\ st \in [Timers -> {"invalid", "stopped", "running"}] /\ ty \in [Timers -> {"once", "periodic"}]
      /\ st[t] = "stopped" /\ \A u \in Timers : u # t => st[u] = mem.state[u]
  BY <1>1, <1>2, <1>3, MemoryFields
<1>5. mem' = [mem EXCEPT !.state = st, !.type = ty] /\ clock' = clock /\ due' = due /\ calls' = calls /\ mem.state[t] = "invalid"
  BY <1>2, <1>3 DEF TimerCreate
<1>6. /\ mem' \in TimerMemory /\ mem'.list = mem.list /\ mem'.state = st /\ mem'.icnt = mem.icnt
      /\ mem'.queue = mem.queue /\ mem'.posted = mem.posted /\ mem'.error = mem.error
  BY <1>1, <1>4, <1>5 DEF TimerMemory
<1>7. \A u \in Timers : st[u] = "running" <=> mem.state[u] = "running"
  BY <1>4, <1>5
<1> QED BY <1>1, <1>5, <1>6, <1>7 DEF TimerInv, TimersGood, CallsCounted

\* The list is r, t in the state s, and the others in the one they were in.
TimerMoved(t, r, s) ==
    /\ mem' \in TimerMemory /\ mem'.list = r /\ mem'.queue = mem.queue /\ mem'.posted = mem.posted
    /\ mem'.error = mem.error /\ mem'.state[t] = s
    /\ \A u \in Timers : u # t => mem'.state[u] = mem.state[u] /\ mem'.icnt[u] = mem.icnt[u]

LEMMA TakenOutMoved ==
    ASSUME TimerInv, NEW t \in Timers, mem.state[t] = "running", NEW s, s # "running",
           NEW r, r = TakeOut(mem.list, t), TimerMoved(t, r, s), clock' = clock, due' = due, calls' = calls
    PROVE  TimerInv'
<1>1. TimersGood(mem, clock, due, {}) /\ CallsCounted(mem, calls) /\ ListExact(mem.list, clock, due) /\ InList(mem.list, t) /\ clock \in Nat
  BY DEF TimerInv, TimersGood
<1>2. ListExact(r, clock, due) /\ WithOneLess(r, mem.list, t)
  BY <1>1, TakenOutExact
<1>3. \A u \in Timers : InList(r, u) <=> u # t /\ InList(mem.list, u)
  BY <1>2 DEF WithOneLess
<1>4. /\ mem' \in TimerMemory /\ mem'.list = r /\ mem'.queue = mem.queue /\ mem'.posted = mem.posted
      /\ mem'.error = mem.error /\ mem'.state[t] # "running"
      /\ \A u \in Timers : u # t => mem'.state[u] = mem.state[u] /\ mem'.icnt[u] = mem.icnt[u]
  BY DEF TimerMoved
<1>5. TimersGood(mem', clock', due', {})
  BY <1>1, <1>2, <1>3, <1>4 DEF TimersGood
<1>6. CallsCounted(mem', calls')
  BY <1>1, <1>4 DEF CallsCounted
<1> QED BY <1>5, <1>6 DEF TimerInv

LEMMA StopKeeps ==
    ASSUME TimerInv, NEW t \in Timers, TimerStop(t)
    PROVE  TimerInv'
<1>1. mem \in TimerMemory /\ mem.state[t] = "running"
  BY DEF TimerInv, TimersGood, TimerStop
<1>2. PICK r : r = TakeOut(mem.list, t)
  OBVIOUS
<1>3. r \in Seq(TimerEntry)
  <2>1. ListExact(mem.list, clock, due) /\ InList(mem.list, t) /\ clock \in Nat
    BY <1>1 DEF TimerInv, TimersGood
  <2>2. ListExact(r, clock, due)
    BY <2>1, <1>2, TakenOutExact
  <2> QED BY <2>2 DEF ListExact
<1>4. PICK st : st = [mem.state EXCEPT ![t] = "stopped"]
  OBVIOUS
<1>5. st \in [Timers -> {"invalid", "stopped", "running"}] /\ st[t] = "stopped" /\ \A u \in Timers : u # t => st[u] = mem.state[u]
  BY <1>1, <1>4, MemoryFields
<1>6. mem' = [mem EXCEPT !.list = r, !.state = st] /\ clock' = clock /\ due' = due /\ calls' = calls
  BY <1>2, <1>4 DEF TimerStop
<1>7. TimerMoved(t, r, "stopped")
  BY <1>1, <1>3, <1>5, <1>6 DEF TimerMemory, TimerMoved
<1> QED BY <1>1, <1>2, <1>6, <1>7, TakenOutMoved

LEMMA DeleteKeeps ==
    ASSUME TimerInv, NEW t \in Timers, TimerDelete(t)
    PROVE  TimerInv'
<1>1. TimersGood(mem, clock, due, {}) /\ CallsCounted(mem, calls) /\ mem \in TimerMemory
  BY DEF TimerInv, TimersGood
<1>2. PICK st : st = [mem.state EXCEPT ![t] = "invalid"]
  OBVIOUS
<1>3. st \in [Timers -> {"invalid", "stopped", "running"}] /\ st[t] = "invalid" /\ \A u \in Timers : u # t => st[u] = mem.state[u]
  BY <1>1, <1>2, MemoryFields
<1>4. clock' = clock /\ due' = due /\ calls' = calls
  BY DEF TimerDelete
<1>5. CASE mem.state[t] = "running"
  <2>1. PICK r : r = TakeOut(mem.list, t)
    OBVIOUS
  <2>2. r \in Seq(TimerEntry)
    <3>1. ListExact(mem.list, clock, due) /\ InList(mem.list, t) /\ clock \in Nat
      BY <1>1, <1>5 DEF TimersGood
    <3>2. ListExact(r, clock, due)
      BY <3>1, <2>1, TakenOutExact
    <3> QED BY <3>2 DEF ListExact
  <2>3. mem' = [mem EXCEPT !.list = r, !.state = st]
    BY <2>1, <1>2, <1>5 DEF TimerDelete
  <2>4. TimerMoved(t, r, "invalid")
    BY <2>2, <2>3, <1>1, <1>3 DEF TimerMemory, TimerMoved
  <2> QED BY <2>1, <2>4, <1>4, <1>5, TakenOutMoved
<1>6. CASE mem.state[t] # "running"
  <2>1. mem' = [mem EXCEPT !.list = mem.list, !.state = st]
    BY <1>2, <1>6 DEF TimerDelete
  <2>2. /\ mem' \in TimerMemory /\ mem'.list = mem.list /\ mem'.state = st /\ mem'.icnt = mem.icnt
        /\ mem'.queue = mem.queue /\ mem'.posted = mem.posted /\ mem'.error = mem.error
    BY <2>1, <1>1, <1>3 DEF TimerMemory
  <2>3. \A u \in Timers : st[u] = "running" <=> mem.state[u] = "running"
    BY <1>3, <1>6
  <2> QED BY <2>2, <2>3, <1>1, <1>4 DEF TimerInv, TimersGood, CallsCounted
<1> QED BY <1>5, <1>6

LEMMA InsertedMoved ==
    ASSUME TimerInv, NEW t \in Timers, NEW p \in Nat, p > 0, NEW list, ListExact(list, clock, due),
           \A u \in Timers : InList(list, u) <=> u # t /\ InList(mem.list, u),
           NEW r, r = Insert(list, t, p), TimerMoved(t, r, "running"), mem'.icnt[t] > 0,
           clock' = clock, due' = [due EXCEPT ![t] = clock + p], calls' = calls
    PROVE  TimerInv'
<1>1. /\ TimersGood(mem, clock, due, {}) /\ CallsCounted(mem, calls) /\ clock \in Nat /\ due \in [Timers -> Nat]
      /\ \A u \in Timers : (mem.state[u] = "running" <=> InList(mem.list, u)) /\ (mem.state[u] = "running" => mem.icnt[u] > 0)
  BY DEF TimerInv, TimersGood
<1>2. PICK e : e = [due EXCEPT ![t] = clock + p]
  OBVIOUS
<1>3. e \in [Timers -> Nat] /\ DueChanged(e, due, t, clock + p)
  BY <1>1, <1>2 DEF DueChanged
<1>4. ~InList(list, t)
  OBVIOUS
<1>5. ListExact(r, clock, e) /\ WithOneMore(r, list, t)
  BY <1>1, <1>3, <1>4, InsertedExact
<1>6. \A u \in Timers : InList(r, u) <=> u = t \/ InList(mem.list, u)
  BY <1>5 DEF WithOneMore
<1>7. /\ mem' \in TimerMemory /\ mem'.list = r /\ mem'.queue = mem.queue /\ mem'.posted = mem.posted
      /\ mem'.error = mem.error /\ mem'.state[t] = "running"
      /\ \A u \in Timers : u # t => mem'.state[u] = mem.state[u] /\ mem'.icnt[u] = mem.icnt[u]
  BY DEF TimerMoved
<1>8. ASSUME NEW u \in Timers PROVE (mem'.state[u] = "running" <=> InList(r, u)) /\ (mem'.state[u] = "running" => mem'.icnt[u] > 0)
  BY <1>1, <1>6, <1>7
<1>9. TimersGood(mem', clock', due', {})
  BY <1>1, <1>2, <1>3, <1>5, <1>7, <1>8 DEF TimersGood
<1>10. CallsCounted(mem', calls')
  BY <1>1, <1>7 DEF CallsCounted
<1> QED BY <1>9, <1>10 DEF TimerInv

LEMMA StartKeeps ==
    ASSUME TimerInv, NEW t \in Timers, NEW p \in Nat, p > 0, TimerStart(t, p)
    PROVE  TimerInv'
<1>1. /\ TimersGood(mem, clock, due, {}) /\ CallsCounted(mem, calls) /\ mem \in TimerMemory /\ clock \in Nat
      /\ ListExact(mem.list, clock, due)
      /\ \A u \in Timers : (mem.state[u] = "running" <=> InList(mem.list, u)) /\ (mem.state[u] = "running" => mem.icnt[u] > 0)
  BY DEF TimerInv, TimersGood
<1>2. clock' = clock /\ due' = [due EXCEPT ![t] = clock + p] /\ calls' = calls
  BY DEF TimerStart
<1>3. CASE mem.state[t] = "running"
  <2>1. PICK list : list = TakeOut(mem.list, t)
    OBVIOUS
  <2>2. ListExact(list, clock, due) /\ WithOneLess(list, mem.list, t)
    BY <2>1, <1>1, <1>3, TakenOutExact
  <2>3. \A u \in Timers : InList(list, u) <=> u # t /\ InList(mem.list, u)
    BY <2>2 DEF WithOneLess
  <2>4. PICK r : r = Insert(list, t, p)
    OBVIOUS
  <2>5. r \in Seq(TimerEntry)
    BY <2>2, <2>4, InsertIs DEF ListExact, InsertedAt
  <2>6. mem' = [mem EXCEPT !.list = r]
    BY <2>1, <2>4, <1>3 DEF TimerStart
  <2>7. WithList(mem, r, mem')
    BY <2>5, <2>6, <1>1, ListReplaced
  <2>8. TimerMoved(t, r, "running") /\ mem'.icnt[t] > 0
    BY <2>7, <1>1, <1>3 DEF WithList, TimerMoved
  <2> QED BY <2>2, <2>3, <2>4, <2>8, <1>2, InsertedMoved
<1>4. CASE mem.state[t] # "running"
  <2>1. PICK list : list = mem.list
    OBVIOUS
  <2>2. ListExact(list, clock, due) /\ \A u \in Timers : InList(list, u) <=> u # t /\ InList(mem.list, u)
    BY <2>1, <1>1, <1>4
  <2>3. PICK r : r = Insert(list, t, p)
    OBVIOUS
  <2>4. r \in Seq(TimerEntry)
    BY <2>2, <2>3, InsertIs DEF ListExact, InsertedAt
  <2>5. PICK st : st = [mem.state EXCEPT ![t] = "running"]
    OBVIOUS
  <2>6. PICK ic : ic = [mem.icnt EXCEPT ![t] = p]
    OBVIOUS
  <2>7. /\ st \in [Timers -> {"invalid", "stopped", "running"}] /\ ic \in [Timers -> Nat]
        /\ st[t] = "running" /\ ic[t] = p /\ \A u \in Timers : u # t => st[u] = mem.state[u] /\ ic[u] = mem.icnt[u]
    BY <2>5, <2>6, <1>1, MemoryFields
  <2>8. mem' = [mem EXCEPT !.list = r, !.state = st, !.icnt = ic]
    BY <2>1, <2>3, <2>5, <2>6, <1>4 DEF TimerStart
  <2>9. TimerMoved(t, r, "running") /\ mem'.icnt[t] > 0
    BY <2>4, <2>7, <2>8, <1>1 DEF TimerMemory, TimerMoved
  <2> QED BY <2>2, <2>3, <2>9, <1>2, InsertedMoved
<1> QED BY <1>3, <1>4

LEMMA TimerInvInit == TimerInit => TimerInv
<1> SUFFICES ASSUME TimerInit PROVE TimerInv
  OBVIOUS
<1>1. /\ mem.list = <<>> /\ mem.posted = <<>> /\ mem.queue = <<>> /\ mem \in TimerMemory
      /\ \A t \in Timers : mem.state[t] = "invalid"
      /\ clock = 0 /\ due \in [Timers -> Nat] /\ calls \in [Timers -> Nat] /\ \A t \in Timers : calls[t] = 0
  BY DEF TimerInit, TimerMemory
<1>2. TimersGood(mem, clock, due, {})
  <2>1. PICK l : l = mem.list /\ Len(l) = 0 /\ l \in Seq(TimerEntry) /\ \A i \in 1..Len(l) : FALSE
    <3>1. mem.list \in Seq(TimerEntry) /\ Len(mem.list) = 0
      BY <1>1
    <3>2. \A i \in 1..0 : FALSE
      OBVIOUS
    <3> QED BY <3>1, <3>2
  <2>2. ListExact(l, clock, due) /\ \A t : ~InList(l, t)
    BY <2>1 DEF ListExact, InList
  <2> QED BY <2>1, <2>2, <1>1 DEF TimersGood
<1>3. CallsCounted(mem, calls)
  <2>1. <<>> \o <<>> = <<>> /\ Len(<<>>) = 0
    OBVIOUS
  <2>2. \A t : {i \in 1..Len(<<>>) : <<>>[i] = t} = {}
    BY <2>1
  <2>3. \A t : TimesIn(<<>>, t) = 0
    BY <2>2, FS_EmptySet DEF TimesIn
  <2> QED BY <2>1, <2>3, <1>1 DEF CallsCounted
<1> QED BY <1>2, <1>3 DEF TimerInv

LEMMA TimerInvNext == TimerInv /\ [TimerNext]_timerVars => TimerInv'
<1> SUFFICES ASSUME TimerInv, [TimerNext]_timerVars PROVE TimerInv'
  OBVIOUS
<1>1. ASSUME NEW t \in Timers, TimerStop(t) PROVE TimerInv'
  BY <1>1, StopKeeps
<1>2. ASSUME NEW t \in Timers, TimerDelete(t) PROVE TimerInv'
  BY <1>2, DeleteKeeps
<1>3. ASSUME NEW t \in Timers, NEW type \in {"once", "periodic"}, TimerCreate(t, type) PROVE TimerInv'
  BY <1>3, CreateKeeps
<1>4. ASSUME NEW t \in Timers, NEW n \in Periods, TimerStart(t, n) PROVE TimerInv'
  <2>1. n \in Nat /\ n > 0
    BY TimerAssumption
  <2> QED BY <2>1, <1>4, StartKeeps
<1>5. ASSUME NEW n \in Sleeps, TimerResume(n) PROVE TimerInv'
  <2>1. n \in Nat
    BY TimerAssumption
  <2> QED BY <2>1, <1>5, ResumeKeeps
<1>6. CASE TimerTicks
  BY <1>6, TicksKeeps
<1>7. CASE PostService
  BY <1>7, PostServiceKeeps
<1>8. CASE Callback
  BY <1>8, CallbackKeeps
<1>9. CASE UNCHANGED timerVars
  BY <1>9 DEF timerVars, TimerInv, TimersGood, CallsCounted
<1> QED BY <1>1, <1>2, <1>3, <1>4, <1>5, <1>6, <1>7, <1>8, <1>9 DEF TimerNext

LEMMA TimerInvFaithful == TimerInv => TimersFaithful
<1> SUFFICES ASSUME TimerInv PROVE TimersFaithful
  OBVIOUS
<1>1. /\ mem \in TimerMemory /\ ListExact(mem.list, clock, due)
      /\ \A t \in Timers : mem.state[t] = "running" <=> InList(mem.list, t)
  BY DEF TimerInv, TimersGood
<1>2. PICK l \in Seq(TimerEntry), N \in Nat : l = mem.list /\ N = Len(l)
  BY <1>1, MemoryFields
<1>3. /\ \A i, j \in 1..N : l[i].timer = l[j].timer => i = j
      /\ \A i \in 1..N : Until(l, i) > 0 /\ clock + Until(l, i) = due[l[i].timer]
      /\ \A i \in 1..N : l[i].timer \in Timers /\ l[i].tcnt \in Nat
  BY <1>1, <1>2, TimerEntryFields DEF ListExact
<1>4. {l[i].timer : i \in 1..N} = {t \in Timers : mem.state[t] = "running"}
  BY <1>1, <1>2, <1>3 DEF InList
<1>5. IsInjective([i \in 1..N |-> l[i].timer])
  BY <1>3 DEF IsInjective
<1>6. ASSUME NEW i \in 1..N PROVE l[1].tcnt > 0
  <2>1. 1 \in 1..N
    OBVIOUS
  <2>2. Until(l, 0) = 0 /\ Until(l, 1) = Until(l, 1 - 1) + l[1].tcnt
    BY <2>1, <1>2, UntilIs
  <2>3. Until(l, 1) > 0 /\ l[1].tcnt \in Nat
    BY <2>1, <1>3
  <2>4. Until(l, 1) = l[1].tcnt
    BY <2>2, <2>3
  <2> QED BY <2>3, <2>4
<1>7. TimersExact
  BY <1>2, <1>3, <1>4, <1>5, <1>6 DEF TimersExact
<1>8. CalledOncePerPeriod
  BY DEF TimerInv, CallsCounted, TimesIn, CalledOncePerPeriod
<1> QED BY <1>7, <1>8 DEF TimersFaithful

\* However timers are created, started, started again, stopped and deleted, and
\* however much time is slept through, the list holds the running timers, each
\* with when it is due, and each is called once for every time it was: until
\* the queue of the timer thread is too short for the calls of one tick.
THEOREM TimersAreFaithful == TimerSpec => []TimersFaithful
<1>1. TimerSpec => []TimerInv
  BY TimerInvInit, TimerInvNext, PTL DEF TimerSpec
<1> QED BY <1>1, TimerInvFaithful, PTL
=============================================================================
