------------------------------ MODULE LwipTcp ------------------------------
(***************************************************************************)
(* A TCP connection between two ends that both run lwIP, each with the     *)
(* netconn of one application thread on top: the receiving half (tcp_in.c),*)
(* the timers and the closing of connections (tcp.c), the callbacks and    *)
(* calls of the netconn layer (api_msg.c, api_lib.c), and a network that   *)
(* loses, doubles and reorders segments.  The first end connects and the   *)
(* second listens, for one connection: its listener is given up when the   *)
(* connection is accepted.                                                 *)
(*                                                                         *)
(* host[e] is the pcb of end e and in the field conn its netconn: what it  *)
(* is waiting for (state), the bytes of a write still to be queued (todo), *)
(* the mailbox of received data, <<>> standing for the NULL that tells the *)
(* end of the stream, and the bytes taken from it and not yet reported to  *)
(* TCP.  got, eof and wrote are the streams as the applications see them.  *)
(*                                                                         *)
(* A plan bounds a behaviour: for each end the lengths of its writes, the  *)
(* ends that may shut down sending before they close, and how many         *)
(* segments are lost or doubled.                                           *)
(*                                                                         *)
(* Timers are due when the environment says so: a retransmission too early *)
(* at most plan.early times, the long timeouts (20 s and more) only when no  *)
(* segment is left in the network.  There are no keepalives (SO_KEEPALIVE  *)
(* is not set) and no out-of-order queue (TCP_QUEUE_OOSEQ 0).              *)
(***************************************************************************)
EXTENDS LwipTcpOut, FiniteSets

CONSTANTS
    Iss,         \* initial sequence numbers, of the first and second end
    MboxSize,    \* DEFAULT_TCP_RECVMBOX_SIZE
    MaxRtx,      \* TCP_MAXRTX
    MaxSynRtx,   \* TCP_SYNMAXRTX
    Plans        \* bounds: what the applications and the network may do (below)

VARIABLES host, net, plan, faults, early

tcpVars == <<host, net, plan, faults, early>>

Ends == {1, 2}

ASSUME LwipAssumption ==
    /\ MSS \in Nat \ {0} /\ QueueLen \in Nat \ {0} /\ MboxSize \in Nat \ {0}
    /\ SeqSpace \in Nat /\ SeqSpace % 2 = 0
    /\ Iss \in [Ends -> 0..(SeqSpace - 1)]
    /\ \A p \in Plans : /\ p.shuts \subseteq Ends /\ p.faults \in Nat /\ p.early \in Nat
                       /\ \A e \in Ends : \A i \in DOMAIN p.writes[e] : p.writes[e][i] \in Nat \ {0}

NoConn == [state |-> "none", todo |-> 0, mbox |-> <<>>, open |-> FALSE, err |-> FALSE,
           half |-> FALSE, taken |-> 0, got |-> <<>>, eof |-> FALSE, calls |-> 0]

(* tcp_alloc *)
Fresh(e) ==
    [peer |-> 3 - e, st |-> "CLOSED", listen |-> FALSE, input |-> FALSE,
     snd_nxt |-> Iss[e], lastack |-> Iss[e], snd_lbb |-> Iss[e], snd_buf |-> WND,
     snd_wnd |-> 0, wl1 |-> 0, wl2 |-> Iss[e], cwnd |-> 1,
     unsent |-> <<>>, unacked |-> <<>>, rtimer |-> FALSE, nrtx |-> 0, dupacks |-> 0,
     persist |-> FALSE, infr |-> FALSE, memerr |-> FALSE, finq |-> FALSE,
     delay |-> FALSE, now |-> FALSE, rxclosed |-> FALSE,
     rcv_nxt |-> 0, rcv_wnd |-> WND, ann_wnd |-> WND, edge |-> 0, refused |-> <<>>,
     out |-> {}, wrote |-> 0, freed |-> FALSE, conn |-> NoConn]

Purge(h) == [h EXCEPT !.unsent = <<>>, !.unacked = <<>>, !.refused = <<>>, !.rtimer = FALSE]

TimeWait(h) == [Purge(h) EXCEPT !.st = "TIME_WAIT"]

Free(h) ==
    [Fresh(3 - h.peer) EXCEPT !.listen = h.listen, !.out = h.out, !.wrote = h.wrote,
                              !.freed = h.freed, !.conn = h.conn]

(* err_tcp: the application learns of it unless it has closed.             *)
ErrEvent(h) ==
    IF h.conn.open \/ h.conn.state # "none"
    THEN [h EXCEPT !.conn.err = TRUE, !.conn.state = "none", !.conn.todo = 0]
    ELSE h

Abort(h) ==
    IF h.st = "TIME_WAIT" THEN Free(h)
    ELSE Reset(ErrEvent(Free(h)), h.snd_nxt, h.rcv_nxt)
-----------------------------------------------------------------------------
(* recv_tcp: an item goes to the mailbox unless that is full; with no      *)
(* callback left (the netconn was closed) tcp_recv_null takes it.          *)
Receivable(h) == ~h.conn.open \/ Len(h.conn.mbox) < MboxSize

RecvEvent(h, item) ==
    IF h.conn.open THEN [h EXCEPT !.conn.mbox = Append(@, item)]
    ELSE IF item = <<>> THEN h
    ELSE Recved(h, Len(item))

(* do_writemore: as much of the pending write as the send buffer takes.    *)
WriteMore(h) ==
    LET len == Least(h.conn.todo, h.snd_buf)
        w == Write(h, len)
        d == [w.h EXCEPT !.conn.todo = IF w.ok THEN @ - len ELSE @,
                         !.conn.state = IF w.ok /\ h.conn.todo = len THEN "none" ELSE @]
    IN  Output(d)

(* tcp_close_shutdown: a FIN behind all that was written; a close resets   *)
(* the connection if the application has left data untaken.                *)
CloseShutdown(h, reset) ==
    LET f == SendFin(h)
    IN  IF reset /\ (h.refused # <<>> \/ h.rcv_wnd # WND)
        THEN [ok |-> TRUE, h |-> TimeWait(Reset(h, h.snd_nxt, h.rcv_nxt))]
        ELSE IF h.st \notin {"SYN_RCVD", "ESTABLISHED", "CLOSE_WAIT"} THEN [ok |-> TRUE, h |-> h]
        ELSE IF f.ok THEN [ok |-> TRUE,
                           h |-> Output([f.h EXCEPT !.st = IF @ = "CLOSE_WAIT" THEN "LAST_ACK"
                                                           ELSE "FIN_WAIT_1"])]
        ELSE f

(* do_close_internal, for both directions or for sending only: tried again *)
(* from the callbacks until it succeeds, and then without its pcb.         *)
CloseInternal(h) ==
    LET both == ~h.conn.half
        c == IF both THEN CloseShutdown([h EXCEPT !.rxclosed = TRUE, !.conn.open = FALSE], TRUE)
             ELSE CloseShutdown(h, FALSE)
    IN  [c.h EXCEPT !.conn.state = IF c.ok THEN "none" ELSE "close"]

(* sent_tcp and poll_tcp *)
GoOn(h) ==
    CASE h.conn.state = "write" -> WriteMore(h)
      [] h.conn.state = "close" -> CloseInternal(h)
      [] OTHER -> h
-----------------------------------------------------------------------------
WindowUpdate(h, s) ==
    IF \/ LT(h.wl1, s.seq)
       \/ h.wl1 = s.seq /\ LT(h.wl2, s.ack)
       \/ h.wl2 = s.ack /\ s.wnd > h.snd_wnd
    THEN [h EXCEPT !.snd_wnd = s.wnd, !.wl1 = s.seq, !.wl2 = s.ack, !.persist = @ /\ s.wnd = 0]
    ELSE h

(* The third acknowledgement that says nothing new retransmits at once.    *)
DuplicateAck(h, u, s) ==
    IF /\ TcpLen(s) = 0
       /\ Plus(u.wl2, u.snd_wnd) = Plus(h.wl2, h.snd_wnd)
       /\ u.rtimer
       /\ u.lastack = s.ack
    THEN LET d == [u EXCEPT !.dupacks = Least(@ + 1, 4)]
         IN  IF d.dupacks > 3 THEN [d EXCEPT !.cwnd = Least(@ + MSS, WND)]
             ELSE IF d.dupacks = 3 THEN RexmitFast(d)
             ELSE d
    ELSE [u EXCEPT !.dupacks = 0]

NewAck(u, s) ==
    LET rest == SelectSeq(u.unacked, LAMBDA t : ~LEQ(End(t), s.ack))
    IN  [u EXCEPT !.infr = FALSE, !.nrtx = 0, !.dupacks = 0,
                  !.snd_buf = @ + Diff(s.ack, u.lastack),
                  !.lastack = s.ack,
                  !.cwnd = IF u.infr THEN WND ELSE Least(@ + MSS, WND),
                  !.unacked = rest,
                  !.rtimer = rest # <<>>]

IsNewAck(h, s) == "ACK" \in s.fl /\ Between(s.ack, Plus(h.lastack, 1), h.snd_nxt)

ReceiveAck(h, s) ==
    LET u == WindowUpdate(h, s)
        a == IF LEQ(s.ack, u.lastack) THEN DuplicateAck(h, u, s)
             ELSE IF IsNewAck(u, s) THEN NewAck(u, s)
             ELSE u
    IN  IF "ACK" \notin s.fl THEN h
        ELSE [a EXCEPT !.unsent = SelectSeq(@, LAMBDA t : ~Between(s.ack, End(t), a.snd_nxt))]

(* tcp_ack: every second segment is acknowledged at once.                  *)
TcpAck(h) == IF h.delay THEN [h EXCEPT !.delay = FALSE, !.now = TRUE] ELSE [h EXCEPT !.delay = TRUE]

(* Slip: a segment that begins too early is moved, with all its data.       *)
TrimFront_slip(h, s) == IF LEQ(s.seq, h.rcv_nxt) THEN [s EXCEPT !.seq = h.rcv_nxt] ELSE s

TrimFront(h, s) ==
    IF Between(h.rcv_nxt, Plus(s.seq, 1), Plus(s.seq, TcpLen(s) - 1))
    THEN [s EXCEPT !.seq = h.rcv_nxt, !.data = SubSeq(@, Diff(h.rcv_nxt, s.seq) + 1, Len(@))]
    ELSE s

TrimBack(h, s) ==
    IF TcpLen(s) > h.rcv_wnd
    THEN [s EXCEPT !.fl = @ \ {"FIN"}, !.data = SubSeq(@, 1, h.rcv_wnd)]
    ELSE s

InWindow(h, seq) == Between(seq, h.rcv_nxt, Plus(h.rcv_nxt, h.rcv_wnd - 1))

(* What the rest of the input does with a segment: the pcb, the data and   *)
(* the end of the stream to hand on, whether anything new was              *)
(* acknowledged, and whether the connection ends.                          *)
Result(h) == [h |-> h, data |-> <<>>, fin |-> FALSE, acked |-> FALSE, end |-> ""]

InSequence(h, s) ==
    LET t == TrimBack(h, s)
        r == UpdateAnnWnd([h EXCEPT !.rcv_nxt = End(t), !.rcv_wnd = @ - TcpLen(t)])
    IN  [Result(TcpAck(r)) EXCEPT !.data = t.data, !.fin = "FIN" \in t.fl]

Receive(h, s) ==
    LET a == ReceiveAck(h, s)
        t == TrimFront(a, s)
        d == IF LT(t.seq, a.rcv_nxt) THEN [a EXCEPT !.now = TRUE] ELSE a
        r == IF TcpLen(s) = 0
             THEN Result(IF InWindow(a, s.seq) THEN a ELSE [a EXCEPT !.now = TRUE])
             ELSE IF ~InWindow(a, t.seq) \/ t.seq # a.rcv_nxt THEN Result(SendEmptyAck(d))
             ELSE InSequence(a, t)
    IN  [r EXCEPT !.acked = IsNewAck(h, s)]
-----------------------------------------------------------------------------
AckNow(h) == [h EXCEPT !.now = TRUE]

SynSent(h, s) ==
    IF {"SYN", "ACK"} \subseteq s.fl /\ s.ack = Plus(Head(h.unacked).seq, 1)
    THEN [h EXCEPT !.snd_buf = @ + 1, !.rcv_nxt = Plus(s.seq, 1), !.edge = Plus(s.seq, 1),
                   !.lastack = s.ack, !.snd_wnd = s.wnd, !.wl1 = Plus(s.seq, SeqSpace - 1),
                   !.st = "ESTABLISHED", !.cwnd = IF @ = 1 THEN WND ELSE MSS,
                   !.unacked = Tail(@), !.rtimer = Tail(h.unacked) # <<>>,
                   !.now = TRUE, !.conn.state = "none"]
    ELSE IF "ACK" \in s.fl THEN Reset(h, s.ack, Plus(s.seq, TcpLen(s)))
    ELSE h

SynRcvd(h, s) ==
    LET a == [h EXCEPT !.st = "ESTABLISHED", !.listen = FALSE,
                       !.conn = [NoConn EXCEPT !.open = TRUE, !.calls = 1]]
        r == Receive(a, s)
    IN  IF "ACK" \in s.fl
        THEN IF Between(s.ack, Plus(h.lastack, 1), h.snd_nxt)
             THEN [r EXCEPT !.acked = FALSE,
                            !.h.cwnd = IF h.cwnd = 1 THEN WND ELSE MSS,
                            !.h.now = @ \/ r.fin,
                            !.h.st = IF r.fin THEN "CLOSE_WAIT" ELSE @]
             ELSE Result(Reset(h, s.ack, Plus(s.seq, TcpLen(s))))
        ELSE IF "SYN" \in s.fl /\ s.seq = Plus(h.rcv_nxt, SeqSpace - 1) THEN Result(Rexmit(h))
        ELSE Result(h)

(* The states after the application has closed: everything sent so far is  *)
(* acknowledged, and that is taken for an acknowledgement of the FIN.      *)
FinAcked(h, s) == "ACK" \in s.fl /\ s.ack = h.snd_nxt

Closing(r, s) ==
    LET h == r.h
        acked == FinAcked(h, s)
    IN  CASE h.st = "FIN_WAIT_1" /\ r.fin ->
               [r EXCEPT !.h = IF acked THEN TimeWait(AckNow(h))
                               ELSE [AckNow(h) EXCEPT !.st = "CLOSING"]]
          [] h.st = "FIN_WAIT_1" /\ ~r.fin /\ acked -> [r EXCEPT !.h.st = "FIN_WAIT_2"]
          [] h.st = "FIN_WAIT_2" /\ r.fin -> [r EXCEPT !.h = TimeWait(AckNow(h))]
          [] h.st = "CLOSING" /\ acked -> [r EXCEPT !.h = TimeWait(h)]
          [] h.st = "LAST_ACK" /\ acked -> [r EXCEPT !.end = "closed"]
          [] h.st \in {"ESTABLISHED", "CLOSE_WAIT"} /\ r.fin ->
               [r EXCEPT !.h = [AckNow(h) EXCEPT !.st = "CLOSE_WAIT"]]
          [] OTHER -> r

(* tcp_process *)
Process(h, s) ==
    LET acceptable == IF h.st = "SYN_SENT" THEN s.ack = h.snd_nxt
                      ELSE Between(s.seq, h.rcv_nxt, Plus(h.rcv_nxt, h.rcv_wnd))
    IN  IF "RST" \in s.fl
        THEN IF acceptable THEN [Result(h) EXCEPT !.h.delay = FALSE, !.end = "reset"] ELSE Result(h)
        ELSE IF h.st = "SYN_SENT" THEN Result(SynSent(h, s))
        ELSE IF h.st = "SYN_RCVD" THEN SynRcvd(h, s)
        ELSE IF "SYN" \in s.fl THEN Result(AckNow(h))
        ELSE Closing(Receive(h, s), s)

(* The callbacks, in the order tcp_input calls them: space in the send     *)
(* buffer, data, the end of the stream.  Data that are refused are kept;   *)
(* an end of the stream that is refused is not.                            *)
Sent(r) == IF r.acked THEN GoOn(r.h) ELSE r.h

HandOn(h, data) ==
    IF data = <<>> THEN h
    ELSE IF Receivable(h) THEN RecvEvent(h, data)
    ELSE [h EXCEPT !.refused = data]

HandOnEof(h, fin) ==
    LET w == [h EXCEPT !.rcv_wnd = Least(@ + 1, WND)]
    IN  IF ~fin THEN h ELSE IF Receivable(w) THEN RecvEvent(w, <<>>) ELSE w

Callbacks(r) ==
    LET h == Sent(r)
    IN  IF r.end = "reset" THEN ErrEvent(Free(r.h))
        ELSE IF r.end = "closed" THEN [Free(r.h) EXCEPT !.freed = TRUE]
        ELSE IF r.data # <<>> /\ h.rxclosed THEN Abort(h)
        ELSE Output([HandOnEof(HandOn(h, r.data), r.fin) EXCEPT !.input = FALSE])

(* A segment for a connection: refused data are offered again first, and   *)
(* as long as they are refused nothing with data in it is looked at.       *)
ActiveInput(h, s) ==
    LET again == h.refused # <<>> /\ Receivable(h)
        r == IF again THEN [RecvEvent(h, h.refused) EXCEPT !.refused = <<>>] ELSE h
    IN  IF r.refused # <<>> /\ TcpLen(s) > 0 THEN r
        ELSE Callbacks(Process([r EXCEPT !.input = TRUE], s))

ListenInput(h, s) ==
    LET n == [Fresh(3 - h.peer) EXCEPT !.listen = h.listen, !.conn = h.conn, !.wrote = h.wrote,
                !.st = "SYN_RCVD",
                !.rcv_nxt = Plus(s.seq, 1), !.edge = Plus(s.seq, 1), !.snd_wnd = s.wnd,
                !.wl1 = Plus(s.seq, SeqSpace - 1)]
    IN  IF "ACK" \in s.fl THEN Reset(h, Plus(s.ack, 1), Plus(s.seq, TcpLen(s)))
        ELSE IF "SYN" \in s.fl THEN Output(EnqueueFlags(n, {"SYN", "ACK"}).h)
        ELSE h

TimewaitInput(h, s) ==
    IF "RST" \in s.fl THEN h
    ELSE IF "SYN" \in s.fl /\ Between(s.seq, h.rcv_nxt, Plus(h.rcv_nxt, h.rcv_wnd))
    THEN Reset(h, s.ack, Plus(s.seq, TcpLen(s)))
    ELSE IF TcpLen(s) > 0 THEN Output(AckNow(h))
    ELSE h

(* tcp_input *)
Input(h, s) ==
    CASE h.st = "TIME_WAIT" -> TimewaitInput(h, s)
      [] h.st # "CLOSED" /\ h.st # "TIME_WAIT" -> ActiveInput(h, s)
      [] h.st = "CLOSED" /\ h.listen -> ListenInput(h, s)
      [] OTHER -> IF "RST" \in s.fl THEN h ELSE Reset(h, s.ack, Plus(s.seq, TcpLen(s)))
-----------------------------------------------------------------------------
Becomes(e, h, rest) ==
    /\ host' = [host EXCEPT ![e] = [h EXCEPT !.out = {}]]
    /\ net' = rest \cup h.out

Deliver(s) ==
    /\ Becomes(s.to, Input(host[s.to], s), net \ {s})
    /\ UNCHANGED <<plan, faults, early>>

Double(s) ==
    /\ faults < plan.faults
    /\ faults' = faults + 1
    /\ Becomes(s.to, Input(host[s.to], s), net)
    /\ UNCHANGED <<plan, early>>

Lose(s) ==
    /\ faults < plan.faults
    /\ faults' = faults + 1
    /\ net' = net \ {s}
    /\ UNCHANGED <<host, plan, early>>
-----------------------------------------------------------------------------
Calls(e, h) == Becomes(e, h, net) /\ UNCHANGED <<plan, faults, early>>

(* do_connect and tcp_connect *)
Connect(e) ==
    LET h == host[e]
        c == [h EXCEPT !.st = "SYN_SENT", !.lastack = Plus(@, SeqSpace - 1), !.snd_lbb = Plus(@, SeqSpace - 1),
                       !.snd_wnd = WND, !.conn.state = "connect"]
    IN  /\ h.st = "CLOSED" /\ h.conn.open /\ ~h.conn.err /\ h.snd_wnd = 0 /\ h.conn.calls = 0
        /\ Calls(e, Output(EnqueueFlags([c EXCEPT !.conn.calls = 1], {"SYN"}).h))

Usable(e) ==
    host[e].conn.open /\ ~host[e].conn.err /\ host[e].conn.state = "none" /\ host[e].conn.taken = 0
    /\ ~host[e].conn.half /\ host[e].st # "CLOSED"

(* do_write: the next write of this application.                           *)
AppWrites(e) ==
    LET h == host[e]
        k == h.conn.calls
    IN  /\ Usable(e)
        /\ k \in DOMAIN plan.writes[e]
        /\ Calls(e, WriteMore([h EXCEPT !.conn.state = "write", !.conn.todo = plan.writes[e][k],
                                        !.conn.calls = @ + 1]))

(* netconn_recv_data takes an item from the mailbox, and then has do_recv  *)
(* tell TCP of it.                                                         *)
AppReads(e) ==
    LET h == host[e]
        item == Head(h.conn.mbox)
    IN  /\ h.conn.open /\ ~h.conn.err /\ h.conn.state = "none" /\ h.conn.taken = 0
        /\ h.conn.mbox # <<>>
        /\ Calls(e, [h EXCEPT !.conn.mbox = Tail(@),
                              !.conn.got = @ \o item,
                              !.conn.eof = @ \/ item = <<>>,
                              !.conn.taken = IF item = <<>> THEN 1 ELSE Len(item)])

AppHasRead(e) ==
    LET h == [host[e] EXCEPT !.conn.taken = 0]
    IN  /\ host[e].conn.taken > 0
        /\ Calls(e, IF h.conn.open /\ ~h.conn.half /\ h.st # "CLOSED" THEN Recved(h, host[e].conn.taken) ELSE h)

(* do_close for sending only                                               *)
AppShuts(e) ==
    /\ Usable(e) /\ e \in plan.shuts
    /\ Calls(e, CloseInternal([host[e] EXCEPT !.conn.half = TRUE]))

(* do_delconn: the mailbox is drained and the connection closed.           *)
AppCloses(e) ==
    /\ Usable(e)
    /\ Calls(e, CloseInternal([host[e] EXCEPT !.conn.mbox = <<>>]))
-----------------------------------------------------------------------------
(* tcp_slowtmr for one pcb: is its retransmission or persist timer due, is *)
(* it too old for its state, is it time to poll the application?           *)
MaxReached(h) == h.nrtx = MaxRtx \/ (h.st = "SYN_SENT" /\ h.nrtx = MaxSynRtx)

Retry(h) ==
    IF h.persist THEN ZeroWindowProbe(h)
    ELSE IF h.unacked # <<>> /\ h.rtimer THEN RexmitRto([h EXCEPT !.cwnd = MSS])
    ELSE h

SlowTmr(h, due, old, poll) ==
    LET r == IF due /\ ~MaxReached(h) THEN Retry(h) ELSE h
    IN  IF h.st = "TIME_WAIT" THEN IF old THEN Free(h) ELSE h
        ELSE IF MaxReached(h) \/ (old /\ h.st \in {"FIN_WAIT_2", "SYN_RCVD", "LAST_ACK"})
             THEN ErrEvent(Free(r))
        ELSE IF poll THEN Output(GoOn(r))
        ELSE r

SlowTimer(e, due, old, poll) ==
    /\ host[e].st # "CLOSED" /\ host[e].nrtx <= MaxRtx
    /\ due \/ old \/ poll
    /\ old => net = {}
    /\ IF due /\ net # {} THEN early < plan.early /\ early' = early + 1 ELSE early' = early
    /\ Becomes(e, SlowTmr(host[e], due, old, poll), net)
    /\ UNCHANGED <<plan, faults>>

(* tcp_fasttmr for one pcb: refused data again, and the delayed            *)
(* acknowledgement, whose flags are cleared whether or not it was sent.    *)
FastTmr(h) ==
    LET r == IF h.refused # <<>> /\ Receivable(h)
             THEN [RecvEvent(h, h.refused) EXCEPT !.refused = <<>>] ELSE h
    IN  IF r.delay THEN [Output(AckNow(r)) EXCEPT !.delay = FALSE, !.now = FALSE] ELSE r

FastTimer(e) ==
    /\ host[e].st \notin {"CLOSED", "TIME_WAIT"}
    /\ host[e].delay \/ host[e].refused # <<>>
    /\ Calls(e, FastTmr(host[e]))
-----------------------------------------------------------------------------
TcpInit ==
    /\ host = [e \in Ends |-> [Fresh(e) EXCEPT !.listen = (e = 2), !.conn.open = (e = 1)]]
    /\ net = {}
    /\ plan \in Plans
    /\ faults = 0
    /\ early = 0

Network == \E s \in net : Deliver(s) \/ Double(s) \/ Lose(s)

Timers(e) == FastTimer(e) \/ \E due, old, poll \in BOOLEAN : SlowTimer(e, due, old, poll)

Application(e) == AppWrites(e) \/ AppReads(e) \/ AppHasRead(e) \/ AppShuts(e) \/ AppCloses(e)

TcpNext == Network \/ Connect(1) \/ \E e \in Ends : Timers(e) \/ Application(e)
-----------------------------------------------------------------------------
Flat(items) == FoldLeft(LAMBDA s, i : s \o i, <<>>, items)

Held(h) == Flat(h.conn.mbox) \o h.refused
Received(h) == h.conn.got \o Held(h)
Bytes(q) == UNION {{t.data[i] : i \in DOMAIN t.data} : t \in ToSet(q)}
Alive(h) == h.st \in {"ESTABLISHED", "CLOSE_WAIT", "FIN_WAIT_1", "FIN_WAIT_2", "CLOSING", "LAST_ACK"}

(* However segments are lost, doubled, reordered, sent again or cut to the *)
(* window, and wherever they are kept back (mailbox full, refused data),   *)
(* the application reads a prefix of what the other wrote.                 *)
InOrder ==
    \A e \in Ends :
        LET r == Received(host[e])
        IN  Len(r) <= host[3 - e].wrote /\ \A i \in DOMAIN r : r[i] = i

(* The application sees the end of the stream only behind its last byte,   *)
(* also when data before it were refused, or cut off at the window.        *)
EofAfterAll == \A e \in Ends : host[e].conn.eof => Len(host[e].conn.got) = host[3 - e].wrote

(* The window and the bytes received and not yet taken make up TCP_WND: a  *)
(* leak would close the window for good and make tcp_close reset the       *)
(* connection (it tests rcv_wnd), a surplus overrun the receiver.          *)
WindowConserved ==
    \A e \in Ends : LET h == host[e] IN
        h.st \in {"ESTABLISHED", "CLOSE_WAIT"} /\ h.conn.open
        => h.rcv_wnd + Len(Held(h)) + (IF h.conn.eof THEN 0 ELSE h.conn.taken) = WND

(* The send buffer and the bytes between the last acknowledged and the     *)
(* last written make up TCP_SND_BUF.                                       *)
SendBufferConserved ==
    \A e \in Ends : LET h == host[e] IN
        h.st \in {"ESTABLISHED", "CLOSE_WAIT"} => h.snd_buf + Diff(h.snd_lbb, h.lastack) = WND

(* A byte that was written and has not reached the other side is still     *)
(* kept to be sent again, with the retransmission timer running if it has  *)
(* been sent.                                                              *)
NoByteForgotten ==
    \A e \in Ends : LET h == host[e]
                         p == host[3 - e]
        IN  Alive(h) /\ p.conn.open /\ ~p.conn.err
            => /\ (Len(Received(p)) + 1)..h.wrote \subseteq Bytes(h.unacked) \cup Bytes(h.unsent)
               /\ h.unacked # <<>> => h.rtimer

(* The stream as the applications see it: in order, and its end at its end. *)
StreamIntact == InOrder /\ EofAfterAll

(* What the two ends hold of the stream adds up: both windows, and every   *)
(* byte until it has arrived.                                              *)
NothingForgotten == WindowConserved /\ SendBufferConserved /\ NoByteForgotten

(* A connection that has ended by acknowledged FINs on both sides has      *)
(* delivered everything that was written to it (tcp_close: what is unsent  *)
(* is still sent by the timers).                                           *)
FreedMeansDelivered ==
    \A e \in Ends : host[e].freed /\ host[3 - e].conn.open
        => Len(Received(host[3 - e])) = host[e].wrote
=============================================================================
