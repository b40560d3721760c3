------------------------------ MODULE Sockets ------------------------------
(* The BSD sockets of lwIP as the Socket classes of the firmware use them: *)
(* threads that receive and select, and the thread of the stack that posts *)
(* what arrives and calls event_callback. What SYS_ARCH_PROTECT covers is  *)
(* one step. A TCP socket has one reader at a time, and is not closed while *)
(* a call uses it; listening sockets and datagrams are left out.           *)
EXTENDS Integers, Sequences, FiniteSets, SequencesExt

CONSTANTS
    Callers, NoCaller,
    Fds,           \* NUM_SOCKETS socket numbers
    MboxSize,      \* the size of a recvmbox
    MaxCalls,      \* bound: calls of the socket functions in one behaviour
    MaxBytes       \* bound: bytes that arrive on one connection

ASSUME SocketAssumption == IsFiniteSet(Callers) /\ NoCaller \notin Callers /\ Fds \subseteq Nat
                           /\ {MboxSize, MaxCalls, MaxBytes} \subseteq Nat

Tcpip  == NoCaller         \* the stack's own thread never calls select
Actors == Callers \cup {Tcpip}
Eof    == [data |-> <<>>, push |-> FALSE]
Fresh  == [open |-> FALSE, rcvevent |-> 0, sendevent |-> FALSE, errevent |-> FALSE,
           last |-> Eof, waiting |-> 0, fatal |-> FALSE, over |-> FALSE]
NoCall == [pc |-> "idle", rs |-> {}, ws |-> {}, todo |-> {}, ready |-> {}, poll |-> FALSE,
           fd |-> 0, len |-> 0, off |-> 0, peek |-> FALSE, hand |-> Eof]
Quiet  == [events |-> <<>>, at |-> NoCaller, stale |-> FALSE]

VARIABLES
    sock,       \* the sockets, with last_err and the end of their connections
    mbox,       \* recvmbox of each connection
    list, signalled, sem,    \* select_cb_list, and what its entries hold
    call,       \* the call each thread is in
    cb,         \* the events each actor still reports, and how far it has got
    called, came, reads      \* counter and history: bytes arrived, bytes read

socketVars == <<sock, mbox, list, signalled, sem, call, cb, called, came, reads>>

Least(S) == CHOOSE n \in S : \A k \in S : n <= k
Busy(a)  == cb[a].events # <<>>
Readable(fd) == sock[fd].last # Eof \/ sock[fd].rcvevent > 0

-----------------------------------------------------------------------------
(* event_callback *)

Applied(s, evt) ==
    CASE evt = "RCVPLUS"   -> [s EXCEPT !.rcvevent = @ + 1]
      [] evt = "RCVMINUS"  -> [s EXCEPT !.rcvevent = @ - 1]
      [] evt = "SENDPLUS"  -> [s EXCEPT !.sendevent = TRUE]
      [] evt = "SENDMINUS" -> [s EXCEPT !.sendevent = FALSE]
      [] evt = "ERROR"     -> [s EXCEPT !.errevent = TRUE]

(* One turn of the loop over select_cb_list, t the entry it looks at.      *)
Examine(a, t, s, fd) ==
    IF t = NoCaller THEN
        /\ cb' = [cb EXCEPT ![a] = [Quiet EXCEPT !.events = Tail(cb[a].events)]]
        /\ UNCHANGED <<signalled, sem>>
    ELSE
        /\ cb' = [cb EXCEPT ![a].at = t, ![a].stale = FALSE]
        /\ LET wanted == \/ s.rcvevent > 0 /\ fd \in call[t].rs
                         \/ s.sendevent /\ fd \in call[t].ws
           IN  IF ~signalled[t] /\ wanted
               THEN signalled' = [signalled EXCEPT ![t] = TRUE] /\ sem' = [sem EXCEPT ![t] = @ + 1]
               ELSE UNCHANGED <<signalled, sem>>

FirstOf == IF list = <<>> THEN NoCaller ELSE list[1]
PlaceOf(t) == CHOOSE i \in 1..Len(list) : list[i] = t
After(t) == IF PlaceOf(t) = Len(list) THEN NoCaller ELSE list[PlaceOf(t) + 1]

EventSet(a) ==
    /\ Busy(a) /\ cb[a].at = NoCaller
    /\ LET e == Head(cb[a].events)
           s == IF e.evt = "NULL" THEN sock[e.fd] ELSE Applied(sock[e.fd], e.evt)
       IN  /\ sock' = [sock EXCEPT ![e.fd] = s]
           /\ mbox' = IF e.evt = "NULL" /\ Len(mbox[e.fd]) < MboxSize
                      THEN [mbox EXCEPT ![e.fd] = Append(@, Eof)] ELSE mbox
           /\ Examine(a, IF e.evt = "NULL" \/ s.waiting = 0 THEN NoCaller ELSE FirstOf, s, e.fd)
    /\ UNCHANGED <<list, call, called, came, reads>>

EventGoesOn(a) ==
    /\ Busy(a) /\ cb[a].at # NoCaller
    /\ LET fd == Head(cb[a].events).fd
       IN  Examine(a, IF cb[a].stale THEN FirstOf ELSE After(cb[a].at), sock[fd], fd)
    /\ UNCHANGED <<sock, mbox, list, call, called, came, reads>>

(* select_cb_ctr changes: loops under way begin again.                     *)
Disturbed == [a \in Actors |-> [cb[a] EXCEPT !.stale = @ \/ cb[a].at # NoCaller]]

-----------------------------------------------------------------------------
(* lwip_select *)

SelectBegins(t, rs, ws, poll) ==
    /\ call[t].pc = "idle" /\ called < MaxCalls /\ rs \cup ws # {}
    /\ \A fd \in rs \cup ws : sock[fd].open
    /\ called' = called + 1
    /\ call' = [call EXCEPT ![t] = [NoCall EXCEPT !.pc = "scan", !.rs = rs, !.ws = ws,
                                                  !.todo = rs \cup ws, !.poll = poll]]
    /\ UNCHANGED <<sock, mbox, list, signalled, sem, cb, came, reads>>

All(c) == c.rs \cup c.ws
Begin(c, pc) == [c EXCEPT !.pc = pc, !.todo = All(c)]

(* Where a call goes when its loop over the sockets is at its end. Slip:   *)
(* it does not look again once it is in the list.                          *)
LoopDone_slip(c) ==
    CASE c.pc = "scan"    -> IF c.ready # {} \/ c.poll THEN NoCall ELSE [c EXCEPT !.pc = "enlist"]
      [] c.pc = "count"   -> [c EXCEPT !.pc = "wait"]
      [] c.pc = "rescan"  -> IF c.ready # {} THEN Begin(c, "uncount") ELSE [c EXCEPT !.pc = "wait"]
      [] c.pc \in {"uncount", "giveup"} -> [c EXCEPT !.pc = IF @ = "giveup" THEN "delist" ELSE "leave"]
      [] c.pc = "final"   -> NoCall

LoopDone(c) ==
    CASE c.pc = "scan"    -> IF c.ready # {} \/ c.poll THEN NoCall ELSE [c EXCEPT !.pc = "enlist"]
      [] c.pc = "count"   -> Begin([c EXCEPT !.ready = {}], "rescan")
      [] c.pc = "rescan"  -> IF c.ready # {} THEN Begin(c, "uncount") ELSE [c EXCEPT !.pc = "wait"]
      [] c.pc \in {"uncount", "giveup"} -> [c EXCEPT !.pc = IF @ = "giveup" THEN "delist" ELSE "leave"]
      [] c.pc = "final"   -> NoCall

LoopStep(t) ==
    /\ call[t].todo # {} /\ call[t].pc \in {"scan", "count", "rescan", "uncount", "giveup", "final"}
    /\ LET c  == call[t]
           fd == Least(c.todo)
           r  == (fd \in c.rs /\ Readable(fd)) \/ (fd \in c.ws /\ sock[fd].sendevent)
           n  == [c EXCEPT !.todo = @ \ {fd},
                           !.ready = IF c.pc \in {"scan", "rescan", "final"} /\ r THEN @ \cup {fd} ELSE @]
           d  == CASE c.pc = "count" -> 1 [] c.pc \in {"uncount", "giveup"} -> -1 [] OTHER -> 0
       IN  /\ call' = [call EXCEPT ![t] = IF n.todo = {} THEN LoopDone(n) ELSE n]
           /\ sock' = [sock EXCEPT ![fd].waiting = @ + d]
    /\ UNCHANGED <<mbox, list, signalled, sem, cb, called, came, reads>>

Enlist(t) ==
    /\ call[t].pc = "enlist"
    /\ list' = <<t>> \o list /\ cb' = Disturbed
    /\ signalled' = [signalled EXCEPT ![t] = FALSE] /\ sem' = [sem EXCEPT ![t] = 0]
    /\ call' = [call EXCEPT ![t] = Begin(@, "count")]
    /\ UNCHANGED <<sock, mbox, called, came, reads>>

(* sys_arch_sem_wait ends with the semaphore or with the time.             *)
WaitEnds(t) ==
    /\ call[t].pc = "wait"
    /\ \/ /\ sem[t] > 0
          /\ sem' = [sem EXCEPT ![t] = @ - 1]
          /\ call' = [call EXCEPT ![t] = Begin(@, "uncount")]
       \/ /\ call' = [call EXCEPT ![t] = Begin(@, "giveup")]
          /\ UNCHANGED sem
    /\ UNCHANGED <<sock, mbox, list, signalled, cb, called, came, reads>>

Delist(t) ==
    /\ call[t].pc \in {"leave", "delist"}
    /\ list' = RemoveAt(list, PlaceOf(t)) /\ cb' = Disturbed
    /\ call' = [call EXCEPT ![t] = IF @.pc = "delist" THEN NoCall ELSE Begin([@ EXCEPT !.ready = {}], "final")]
    /\ UNCHANGED <<sock, mbox, signalled, sem, called, came, reads>>

-----------------------------------------------------------------------------
(* lwip_recv *)

RecvBegins(t, fd, len, peek, poll) ==
    /\ call[t].pc = "idle" /\ called < MaxCalls /\ sock[fd].open
    /\ \A u \in Callers : call[u].len = 0 \/ call[u].fd # fd
    /\ called' = called + 1
    /\ call' = [call EXCEPT ![t] = [NoCall EXCEPT !.pc = "take", !.fd = fd, !.len = len,
                                                  !.peek = peek, !.poll = poll]]
    /\ UNCHANGED <<sock, mbox, list, signalled, sem, cb, came, reads>>

Take(t) ==
    /\ call[t].pc = "take"
    /\ LET c == call[t]
           s == sock[c.fd]
       IN  call' = [call EXCEPT ![t] = CASE s.last # Eof -> [c EXCEPT !.pc = "copy"]
                                         [] s.last = Eof /\ (s.fatal \/ (c.poll /\ s.rcvevent <= 0)) -> NoCall
                                         [] OTHER -> [c EXCEPT !.pc = "fetch"]]
    /\ UNCHANGED <<sock, mbox, list, signalled, sem, cb, called, came, reads>>

Fetch(t) ==
    /\ call[t].pc = "fetch" /\ mbox[call[t].fd] # <<>>
    /\ LET fd == call[t].fd
       IN  /\ call' = [call EXCEPT ![t].pc = "fetched", ![t].hand = Head(mbox[fd])]
           /\ mbox' = [mbox EXCEPT ![fd] = Tail(@)]
           /\ cb' = [cb EXCEPT ![t].events = <<[fd |-> fd, evt |-> "RCVMINUS"]>>]
    /\ UNCHANGED <<sock, list, signalled, sem, called, came, reads>>

FetchedBuffer(t) ==
    /\ call[t].pc = "fetched" /\ ~Busy(t)
    /\ LET c == call[t]
       IN  IF c.hand = Eof
           THEN sock' = [sock EXCEPT ![c.fd].fatal = TRUE] /\ call' = [call EXCEPT ![t] = NoCall]
           ELSE /\ sock' = [sock EXCEPT ![c.fd].last = c.hand]
                /\ call' = [call EXCEPT ![t] = [c EXCEPT !.pc = "copy", !.hand = Eof]]
    /\ UNCHANGED <<mbox, list, signalled, sem, cb, called, came, reads>>

Copy(t) ==
    /\ call[t].pc = "copy"
    /\ LET c == call[t]
           s == sock[c.fd]
           d == s.last.data
           n == IF c.len < Len(d) THEN c.len ELSE Len(d)
           rest == SubSeq(d, n + 1, Len(d))
           done == n = c.len \/ s.last.push \/ s.rcvevent <= 0 \/ c.peek
       IN  /\ sock' = [sock EXCEPT ![c.fd].last = IF c.peek THEN @
                                                 ELSE IF rest = <<>> THEN Eof ELSE [@ EXCEPT !.data = rest]]
           /\ reads' = [reads EXCEPT ![c.fd] = IF c.peek THEN @ ELSE @ \o SubSeq(d, 1, n)]
           /\ call' = [call EXCEPT ![t] = IF done THEN NoCall
                                          ELSE [c EXCEPT !.pc = "take", !.len = @ - n, !.off = @ + n]]
    /\ UNCHANGED <<mbox, list, signalled, sem, cb, called, came>>

-----------------------------------------------------------------------------
(* lwip_socket takes the first free number; lwip_close gives it back.      *)
Open(t) ==
    /\ call[t].pc = "idle" /\ called < MaxCalls /\ called' = called + 1
    /\ \E fd \in Fds : /\ ~sock[fd].open /\ \A k \in Fds : k < fd => sock[k].open
                       /\ sock' = [sock EXCEPT ![fd] = [Fresh EXCEPT !.open = TRUE]]
                       /\ mbox' = [mbox EXCEPT ![fd] = <<>>]
                       /\ came' = [came EXCEPT ![fd] = 0] /\ reads' = [reads EXCEPT ![fd] = <<>>]
    /\ UNCHANGED <<list, signalled, sem, call, cb>>

InNoCall(fd) == /\ \A t \in Callers : fd \notin All(call[t]) /\ (call[t].len = 0 \/ call[t].fd # fd)
            /\ \A a \in Actors : \A i \in 1..Len(cb[a].events) : cb[a].events[i].fd # fd

Close(t, fd) ==
    /\ call[t].pc = "idle" /\ called < MaxCalls /\ called' = called + 1
    /\ sock[fd].open /\ InNoCall(fd)
    /\ sock' = [sock EXCEPT ![fd] = Fresh] /\ mbox' = [mbox EXCEPT ![fd] = <<>>]
    /\ came' = [came EXCEPT ![fd] = 0] /\ reads' = [reads EXCEPT ![fd] = <<>>]
    /\ UNCHANGED <<list, signalled, sem, call, cb>>

-----------------------------------------------------------------------------
(* What the stack reports: recv_tcp, sent_tcp, do_writemore and err_tcp.   *)
Reports(fd, evts) == cb' = [cb EXCEPT ![Tcpip].events = [i \in 1..Len(evts) |-> [fd |-> fd, evt |-> evts[i]]]]

RecvTcp(fd, n, push) ==
    /\ ~Busy(Tcpip) /\ sock[fd].open /\ ~sock[fd].over
    /\ Len(mbox[fd]) < MboxSize /\ came[fd] + n <= MaxBytes
    /\ mbox' = [mbox EXCEPT ![fd] =
            Append(@, IF n = 0 THEN Eof ELSE [data |-> [i \in 1..n |-> came[fd] + i], push |-> push])]
    /\ came' = [came EXCEPT ![fd] = @ + n]
    /\ sock' = [sock EXCEPT ![fd].over = n = 0]
    /\ Reports(fd, <<"RCVPLUS">>)
    /\ UNCHANGED <<list, signalled, sem, call, called, reads>>

BufferChanges(fd) ==
    /\ ~Busy(Tcpip) /\ sock[fd].open /\ ~sock[fd].fatal
    /\ Reports(fd, IF sock[fd].sendevent THEN <<"SENDMINUS">> ELSE <<"SENDPLUS">>)
    /\ UNCHANGED <<sock, mbox, list, signalled, sem, call, called, came, reads>>

ErrTcp(fd) ==
    /\ ~Busy(Tcpip) /\ sock[fd].open /\ ~sock[fd].over
    /\ sock' = [sock EXCEPT ![fd].fatal = TRUE, ![fd].over = TRUE]
    /\ Reports(fd, <<"ERROR", "RCVPLUS", "SENDPLUS", "NULL">>)
    /\ UNCHANGED <<mbox, list, signalled, sem, call, called, came, reads>>

-----------------------------------------------------------------------------
SocketInit ==
    /\ sock = [fd \in Fds |-> Fresh] /\ mbox = [fd \in Fds |-> <<>>]
    /\ list = <<>> /\ signalled = [t \in Callers |-> FALSE] /\ sem = [t \in Callers |-> 0]
    /\ call = [t \in Callers |-> NoCall] /\ cb = [a \in Actors |-> Quiet]
    /\ called = 0 /\ came = [fd \in Fds |-> 0] /\ reads = [fd \in Fds |-> <<>>]

Caller(t) ==
    \/ \E rs, ws \in SUBSET Fds, poll \in BOOLEAN : SelectBegins(t, rs, ws, poll)
    \/ LoopStep(t) \/ Enlist(t) \/ WaitEnds(t) \/ Delist(t)
    \/ \E fd \in Fds, len \in 1..2, peek, poll \in BOOLEAN : RecvBegins(t, fd, len, peek, poll)
    \/ Take(t) \/ Fetch(t) \/ FetchedBuffer(t) \/ Copy(t)
    \/ Open(t) \/ \E fd \in Fds : Close(t, fd)

Stack ==
    \E fd \in Fds : \/ \E n \in 0..2, push \in BOOLEAN : RecvTcp(fd, n, push)
                    \/ BufferChanges(fd) \/ ErrTcp(fd)

SocketNext ==
    \/ \E a \in Actors : EventSet(a) \/ EventGoesOn(a)
    \/ \E t \in Callers : Caller(t)
    \/ Stack

SocketSpec == SocketInit /\ [][SocketNext]_socketVars

-----------------------------------------------------------------------------
(* A thread that sleeps in select sleeps on: nothing it waits for is there *)
(* that no one is about to tell it.                                        *)
SelectWakes ==
    \A t \in Callers : call[t].pc = "wait" /\ sem[t] = 0 =>
        \A fd \in All(call[t]) :
            \/ \E a \in Actors : Busy(a) /\ cb[a].at # NoCaller /\ Head(cb[a].events).fd = fd
            \/ /\ fd \in call[t].rs => sock[fd].rcvevent <= 0
               /\ fd \in call[t].ws => ~sock[fd].sendevent

(* The bytes after the a-th, up to the b-th of a connection.               *)
IsRun(bytes, a, b) == a <= b /\ bytes = [i \in 1..(b - a) |-> a + i]

(* The buffers of a mailbox hold the bytes after the c-th, up to the n-th. *)
BoxRun(box, c, n) ==
    \E cut \in [0..Len(box) -> 0..n] :
        /\ cut[0] = c /\ cut[Len(box)] = n
        /\ \A i \in 1..Len(box) : IsRun(box[i].data, cut[i - 1], cut[i])

(* The first n bytes of a connection, in this order: what was read, what a *)
(* socket keeps, what a reader has in its hand and what is in the mailbox. *)
InOrder(read, kept, hand, box, n) ==
    \E a, b, c \in 0..n :
        IsRun(read, 0, a) /\ IsRun(kept, a, b) /\ IsRun(hand, b, c) /\ BoxRun(box, c, n)

InHand(calls, fd) ==
    LET held == {t \in Callers : calls[t].fd = fd /\ calls[t].hand # Eof}
    IN  IF held = {} THEN <<>> ELSE calls[CHOOSE t \in held : TRUE].hand.data

(* Every byte that arrived is read, kept for the next call, in a reader's  *)
(* hand or in the mailbox, once and in this order.                         *)
BytesInOrder ==
    \A fd \in Fds : InOrder(reads[fd], sock[fd].last.data, InHand(call, fd), mbox[fd], came[fd])

(* A receive that has read something does not block for more.              *)
NoWaitWithData ==
    \A t \in Callers : call[t].pc = "fetch" /\ call[t].off > 0 => mbox[call[t].fd] # <<>>

(* lwip_select and lwip_recv, whatever the threads and the stack do: no    *)
(* wakeup is lost, no byte is, and no thread that has bytes waits.         *)
ReadersAreServed == SelectWakes /\ BytesInOrder /\ NoWaitWithData
=============================================================================
