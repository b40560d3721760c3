---------------------------- MODULE LwipTcpOut ----------------------------
(***************************************************************************)
(* The sending half of lwIP's TCP (tcp_out.c), and the window arithmetic   *)
(* it shares with the receiving half (tcp_impl.h, tcp.c): operators on the *)
(* record h of one end of a connection, its struct tcp_pcb together with   *)
(* the segments h.out it has given to the network in the current step.     *)
(*                                                                         *)
(* Sequence numbers are modulo SeqSpace, an even number, and compared as the *)
(* code compares them: by the sign of their difference.  A byte of the     *)
(* stream is its position in it, so that a byte lost, doubled or out of    *)
(* place shows.  Because TCP_SND_BUF and TCP_WND are two TCP_MSS, only     *)
(* three values of the congestion window differ in what they let through:  *)
(* 1 before anything was acknowledged, one MSS, and the whole window.      *)
(***************************************************************************)
EXTENDS Integers, Sequences, SequencesExt

CONSTANTS
    SeqSpace,      \* 2^32
    MSS,         \* TCP_MSS
    QueueLen     \* TCP_SND_QUEUELEN

WND == 2 * MSS       \* TCP_WND, and TCP_SND_BUF

Diff(a, b) == (a - b) % SeqSpace
Plus(a, n) == (a + n) % SeqSpace
LT(a, b) == 2 * Diff(a, b) >= SeqSpace
LEQ(a, b) == a = b \/ LT(a, b)
Between(a, b, c) == LEQ(b, a) /\ LEQ(a, c)
Least(a, b) == IF a <= b THEN a ELSE b

\* The sequence numbers a segment takes up: its bytes and a SYN or FIN.
TcpLen(s) == Len(s.data) + (IF s.fl \cap {"SYN", "FIN"} # {} THEN 1 ELSE 0)
End(s) == Plus(s.seq, TcpLen(s))

PbufsOf(q) == FoldLeft(LAMBDA n, s : n + s.pbufs, 0, q)
SndQueueLen(h) == PbufsOf(h.unacked) + PbufsOf(h.unsent)
-----------------------------------------------------------------------------
Emit(h, seq, ack, fl, data, wnd) ==
    [h EXCEPT !.out = @ \cup {[to |-> h.peer, seq |-> seq, ack |-> ack, fl |-> fl,
                               data |-> data, wnd |-> wnd]}]

(* A segment of this connection says how far it has received and what it   *)
(* can still take, and with that the right edge announced is fixed.        *)
EmitHeader(h, seq, fl, data) ==
    LET e == Emit(h, seq, h.rcv_nxt, fl, data, h.ann_wnd)
    IN  [e EXCEPT !.edge = Plus(h.rcv_nxt, h.ann_wnd)]

Reset(h, seq, ack) == Emit(h, seq, ack, {"RST", "ACK"}, <<>>, WND)

SendEmptyAck(h) ==
    [EmitHeader(h, h.snd_nxt, {"ACK"}, <<>>) EXCEPT !.delay = FALSE, !.now = FALSE]

(* Nagle: a short segment is held back while another is unacknowledged.    *)
DoOutputNagle(h) ==
    \/ h.unacked = <<>>
    \/ h.infr
    \/ Len(h.unsent) > 1
    \/ (h.unsent # <<>> /\ Len(Head(h.unsent).data) >= MSS)

Beyond(h, wnd) == Diff(Plus(Head(h.unsent).seq, Len(Head(h.unsent).data)), h.lastack) > wnd

SendWindow(h) == Least(h.snd_wnd, h.cwnd)

(* Where a segment goes on the queue of unacknowledged ones: behind every  *)
(* earlier one.                                                            *)
Sorted(q, s) ==
    LET earlier == SelectSeq(q, LAMBDA t : LT(t.seq, s.seq))
    IN  earlier \o <<s>> \o SubSeq(q, Len(earlier) + 1, Len(q))

OutputSegment(h) ==
    LET s == Head(h.unsent)
        e == EmitHeader(h, s.seq, IF h.st = "SYN_SENT" THEN s.fl ELSE s.fl \cup {"ACK"}, s.data)
    IN  [e EXCEPT !.unsent = Tail(@),
                  !.unacked = IF TcpLen(s) > 0 THEN Sorted(@, s) ELSE @,
                  !.delay = @ /\ h.st = "SYN_SENT",
                  !.now = @ /\ h.st = "SYN_SENT",
                  !.rtimer = TRUE,
                  !.snd_nxt = IF LT(@, End(s)) THEN End(s) ELSE @]

RECURSIVE SendAll(_)
SendAll(h) ==
    IF /\ h.unsent # <<>>
       /\ ~Beyond(h, SendWindow(h))
       /\ (DoOutputNagle(h) \/ h.memerr \/ h.finq)
    THEN SendAll(OutputSegment(h))
    ELSE h

(* tcp_output: nothing while a segment of this connection is being         *)
(* received; an acknowledgement alone if nothing can carry it; else all    *)
(* that window and Nagle allow, and the persist timer if what comes next   *)
(* is larger than the window of the other side.                            *)
Output(h) ==
    IF h.input THEN h
    ELSE IF h.now /\ (h.unsent = <<>> \/ Beyond(h, SendWindow(h))) THEN SendEmptyAck(h)
    ELSE LET s == SendAll(h)
         IN  [s EXCEPT !.memerr = FALSE,
                       !.persist = @ \/ (s.unsent # <<>> /\ Beyond(s, s.snd_wnd))]
-----------------------------------------------------------------------------
(* tcp_enqueue_flags and tcp_send_fin return the record and whether they   *)
(* succeeded.                                                              *)
EnqueueFlags(h, fl) ==
    IF SndQueueLen(h) >= QueueLen THEN [ok |-> FALSE, h |-> [h EXCEPT !.memerr = TRUE]]
    ELSE IF h.snd_buf = 0 THEN [ok |-> FALSE, h |-> h]
    ELSE [ok |-> TRUE,
          h |-> [h EXCEPT !.unsent = Append(@, [seq |-> h.snd_lbb, data |-> <<>>, fl |-> fl, pbufs |-> 1]),
                          !.snd_lbb = Plus(@, 1),
                          !.snd_buf = @ - 1,
                          !.finq = @ \/ "FIN" \in fl]]

SendFin(h) ==
    IF h.unsent # <<>> /\ Last(h.unsent).fl = {}
    THEN [ok |-> TRUE, h |-> [h EXCEPT !.unsent[Len(h.unsent)].fl = {"FIN"}]]
    ELSE EnqueueFlags(h, {"FIN"})

Segment(h, bytes) ==
    [seq |-> Plus(h.snd_lbb, bytes[1] - h.wrote - 1), data |-> bytes, fl |-> {}, pbufs |-> 1]

(* What tcp_write makes of the next len bytes: it fills up the last unsent *)
(* segment if that has data and room, then makes new ones.                 *)
Queued(h, len) ==
    LET bytes == [k \in 1..len |-> h.wrote + k]
        room == IF h.unsent # <<>> /\ Last(h.unsent).data # <<>>
                THEN Least(len, MSS - Len(Last(h.unsent).data)) ELSE 0
        filled == IF room = 0 THEN h.unsent
                  ELSE [h.unsent EXCEPT ![Len(h.unsent)].data = @ \o SubSeq(bytes, 1, room),
                                        ![Len(h.unsent)].pbufs = @ + 1]
        pieces == (len - room + MSS - 1) \div MSS
    IN  filled \o [i \in 1..pieces |->
                     Segment(h, SubSeq(bytes, room + (i - 1) * MSS + 1, Least(len, room + i * MSS)))]

(* tcp_write: all of the len bytes, or none of them if the queue would     *)
(* become too long.                                                        *)
Write(h, len) ==
    LET q == Queued(h, len)
        w == [h EXCEPT !.unsent = q, !.snd_lbb = Plus(@, len), !.snd_buf = @ - len, !.wrote = @ + len]
    IN  IF len = 0 THEN [ok |-> TRUE, h |-> h]
        ELSE IF SndQueueLen(h) >= QueueLen \/ SndQueueLen(w) > QueueLen
             THEN [ok |-> FALSE, h |-> [h EXCEPT !.memerr = TRUE]]
             ELSE [ok |-> TRUE, h |-> w]
-----------------------------------------------------------------------------
(* Slip: what was not sent yet is overwritten by what is sent again.        *)
RexmitRto_slip(h) ==
    IF h.unacked = <<>> THEN h
    ELSE Output([h EXCEPT !.unsent = h.unacked, !.unacked = <<>>, !.nrtx = @ + 1])

RexmitRto(h) ==
    IF h.unacked = <<>> THEN h
    ELSE Output([h EXCEPT !.unsent = h.unacked \o @, !.unacked = <<>>, !.nrtx = @ + 1])

Rexmit(h) ==
    IF h.unacked = <<>> THEN h
    ELSE [h EXCEPT !.unsent = Sorted(@, Head(h.unacked)), !.unacked = Tail(@), !.nrtx = @ + 1]

RexmitFast(h) ==
    IF h.unacked = <<>> \/ h.infr THEN h
    ELSE [Rexmit(h) EXCEPT !.infr = TRUE, !.cwnd = WND]

(* tcp_zero_window_probe: the first byte, or the FIN, of what is oldest.   *)
ZeroWindowProbe(h) ==
    IF h.unacked \o h.unsent = <<>> THEN h
    ELSE LET s == Head(h.unacked \o h.unsent)
         IN  IF s.data = <<>> THEN EmitHeader(h, s.seq, {"ACK"} \cup s.fl, <<>>)
             ELSE EmitHeader(h, s.seq, {"ACK"}, <<Head(s.data)>>)
-----------------------------------------------------------------------------
(* tcp_update_rcv_ann_wnd: the right edge that is announced moves only by  *)
(* a worthwhile step, and never back.                                      *)
Inflation(h) ==
    LET new == Plus(h.rcv_nxt, h.rcv_wnd)
    IN  IF LEQ(Plus(h.edge, Least(WND \div 2, MSS)), new) THEN Diff(new, h.edge) ELSE 0

UpdateAnnWnd(h) ==
    [h EXCEPT !.ann_wnd =
        IF Inflation(h) > 0 THEN h.rcv_wnd
        ELSE IF LT(h.edge, h.rcv_nxt) THEN 0
        ELSE Diff(h.edge, h.rcv_nxt)]

(* tcp_recved: the application has taken n bytes.                          *)
Recved(h, n) ==
    LET w == [h EXCEPT !.rcv_wnd = Least(@ + n, WND)]
    IN  IF Inflation(w) >= WND \div 4
        THEN Output([UpdateAnnWnd(w) EXCEPT !.now = TRUE])
        ELSE UpdateAnnWnd(w)
=============================================================================
