---------------------------- MODULE StackThread ----------------------------
(* The thread of the stack (tcpip.c), its timeouts (timers.c) and the      *)
(* threads that call it: a call is posted to its mailbox and waits for the *)
(* semaphore, and between two messages the thread calls what is due.       *)
EXTENDS Integers, Sequences, FiniteSets, SequencesExt, FiniteSetsExt

CONSTANTS
    Cyclic,       \* the interval of each timer sys_timeouts_init starts
    TcpTimer, TcpInterval,
    UserTimers,   \* timers of tcpip_timeout, with the times they are set to
    TimeoutPool,  \* MEMP_NUM_SYS_TIMEOUT
    Clients,      \* threads that call netconn functions
    StackBox      \* TCPIP_MBOX_SIZE

AllTimers == DOMAIN Cyclic \cup {TcpTimer} \cup DOMAIN UserTimers

ASSUME StackAssumption ==
    /\ StackBox \in Nat \ {0} /\ TcpInterval \in Nat \ {0}
    /\ IsFiniteSet(DOMAIN Cyclic) /\ DOMAIN Cyclic # {}
    /\ \A h \in DOMAIN Cyclic : Cyclic[h] \in Nat \ {0}
    /\ \A h \in DOMAIN UserTimers : UserTimers[h] \in Nat
    /\ DOMAIN Cyclic \cap DOMAIN UserTimers = {} /\ TcpTimer \notin DOMAIN Cyclic \cup DOMAIN UserTimers
    /\ Clients \cap AllTimers = {}
    /\ TimeoutPool >= Cardinality(AllTimers)

VARIABLES
    timeouts,     \* next_timeout and what follows: handler, time after the one before
    left,         \* for each timer, the time it has really to run, 0 if it has none
    pcbs,         \* there are active or TIME_WAIT pcbs
    tcp_active,   \* tcpip_tcp_timer_active
    stackbox,     \* the mailbox
    waited,       \* how long the thread has waited for a message now
    client        \* what each thread is at: idle, posts, posted, pending, signalled

stackVars == <<timeouts, left, pcbs, tcp_active, stackbox, waited, client>>

TimeTo(list, i) ==
    LET sum[j \in 0..Len(list)] == IF j = 0 THEN 0 ELSE sum[j - 1] + list[j].time IN sum[i]

(* sys_timeout: behind those that are due before it or with it.            *)
SysTimeout(list, h, msecs) ==
    LET p    == Cardinality({i \in DOMAIN list : TimeTo(list, i) <= msecs})
        rest == msecs - TimeTo(list, p)
        cut  == IF p = Len(list) THEN list ELSE [list EXCEPT ![p + 1].time = @ - rest]
    IN  InsertAt(cut, p + 1, [h |-> h, time |-> rest])

(* Slip: the next one does not wait for it too.                            *)
SysUntimeout_slip(list, h) == SelectSeq(list, LAMBDA t : t.h # h)

(* sys_untimeout: the next one waits for it too.                           *)
SysUntimeout(list, h) ==
    LET its == {i \in DOMAIN list : list[i].h = h}
        i   == Min(its)
    IN  IF its = {} THEN list
        ELSE RemoveAt(IF i = Len(list) THEN list
                      ELSE [list EXCEPT ![i + 1].time = @ + list[i].time], i)

(* sys_timeouts_init                                                       *)
StackInit ==
    /\ timeouts =
          LET order == SetToSeq(DOMAIN Cyclic)
              set[n \in 0..Len(order)] ==
                  IF n = 0 THEN <<>> ELSE SysTimeout(set[n - 1], order[n], Cyclic[order[n]])
          IN  set[Len(order)]
    /\ left = [h \in AllTimers |-> IF h \in DOMAIN Cyclic THEN Cyclic[h] ELSE 0]
    /\ pcbs = FALSE /\ tcp_active = FALSE
    /\ stackbox = <<>> /\ waited = 0
    /\ client = [c \in Clients |-> "idle"]

-----------------------------------------------------------------------------
(* The other threads                                                       *)

BoxHasRoom == Len(stackbox) < StackBox
Post(m) == BoxHasRoom /\ stackbox' = Append(stackbox, m)

(* tcpip_apimsg; sys_mbox_post waits for room.                             *)
CallStack(c) ==
    /\ client[c] = "idle" /\ client' = [client EXCEPT ![c] = "posts"]
    /\ UNCHANGED <<timeouts, left, pcbs, tcp_active, stackbox, waited>>

PostCall(c) ==
    /\ client[c] = "posts" /\ Post([type |-> "api", of |-> c])
    /\ client' = [client EXCEPT ![c] = "posted"]
    /\ UNCHANGED <<timeouts, left, pcbs, tcp_active, waited>>

CallReturns(c) ==
    /\ client[c] = "signalled" /\ client' = [client EXCEPT ![c] = "idle"]
    /\ UNCHANGED <<timeouts, left, pcbs, tcp_active, stackbox, waited>>

(* tcpip_input drops what has no room.                                     *)
PacketIn ==
    /\ Post([type |-> "packet", of |-> TcpTimer])
    /\ UNCHANGED <<timeouts, left, pcbs, tcp_active, waited, client>>

(* tcpip_timeout and tcpip_untimeout                                       *)
IsAsked(h) == \E i \in DOMAIN stackbox : stackbox[i].of = h
IsSet(h)   == \E i \in DOMAIN timeouts : timeouts[i].h = h

UserTimer(h) ==
    /\ ~IsAsked(h) /\ Post([type |-> IF IsSet(h) THEN "untimeout" ELSE "timeout", of |-> h])
    /\ UNCHANGED <<timeouts, left, pcbs, tcp_active, waited, client>>

-----------------------------------------------------------------------------
(* The thread of the stack                                                 *)

(* A millisecond, in which it waits or is busy; waiting is less than the   *)
(* time to the next timeout.                                               *)
StackTick ==
    /\ left' = [h \in AllTimers |-> IF left[h] = 0 THEN 0 ELSE left[h] - 1]
    /\ \/ waited < timeouts[1].time /\ stackbox = <<>> /\ waited' = waited + 1
       \/ (\E h \in AllTimers : left[h] > 0) /\ UNCHANGED waited
    /\ UNCHANGED <<timeouts, pcbs, tcp_active, stackbox, client>>

(* What a packet, a call or a timer has to do with the others: calls that  *)
(* were waiting for it are completed, pcbs come and go.                    *)
Completes(from) ==
    \E done \in SUBSET {c \in Clients : from[c] = "pending"} :
        client' = [c \in Clients |-> IF c \in done THEN "signalled" ELSE from[c]]

Registers(list, times) ==
    \/ /\ pcbs' = TRUE
       /\ IF tcp_active THEN timeouts' = list /\ left' = times /\ UNCHANGED tcp_active
          ELSE /\ tcp_active' = TRUE /\ timeouts' = SysTimeout(list, TcpTimer, TcpInterval)
               /\ left' = [times EXCEPT ![TcpTimer] = TcpInterval]
    \/ pcbs' \in {pcbs, FALSE} /\ timeouts' = list /\ left' = times /\ UNCHANGED tcp_active

(* A message, before the time of the next timeout or with it.              *)
NextMessage ==
    LET m    == Head(stackbox)
        list == [timeouts EXCEPT ![1].time = @ - waited]
    IN  /\ stackbox # <<>> /\ timeouts[1].time > 0
        /\ stackbox' = Tail(stackbox) /\ waited' = 0
        /\ CASE m.type = "api" ->
                    /\ \E now \in {"signalled", "pending"} : client' = [client EXCEPT ![m.of] = now]
                    /\ Registers(list, left)
             [] m.type = "packet" -> Completes(client) /\ Registers(list, left)
             [] m.type = "timeout" ->
                    /\ timeouts' = SysTimeout(list, m.of, UserTimers[m.of])
                    /\ left' = [left EXCEPT ![m.of] = UserTimers[m.of]]
                    /\ UNCHANGED <<pcbs, tcp_active, client>>
             [] m.type = "untimeout" ->
                    /\ timeouts' = SysUntimeout(list, m.of)
                    /\ left' = [left EXCEPT ![m.of] = 0]
                    /\ UNCHANGED <<pcbs, tcp_active, client>>

(* The next timeout; the mailbox may hold a message that came with it, and *)
(* is not looked at if the time was 0 before.                              *)
TimeoutDue ==
    LET h    == timeouts[1].h
        rest == Tail(timeouts)
    IN  /\ waited = timeouts[1].time /\ waited' = 0
        /\ IF h \in DOMAIN Cyclic THEN
             /\ timeouts' = SysTimeout(rest, h, Cyclic[h])
             /\ left' = [left EXCEPT ![h] = Cyclic[h]]
             /\ UNCHANGED <<pcbs, tcp_active, client>>
           ELSE IF h # TcpTimer THEN timeouts' = rest /\ UNCHANGED <<left, pcbs, tcp_active, client>>
           ELSE /\ Completes(client)
                /\ pcbs' \in {pcbs, FALSE} /\ tcp_active' = pcbs'
                /\ timeouts' = IF pcbs' THEN SysTimeout(rest, h, TcpInterval) ELSE rest
                /\ left' = [left EXCEPT ![h] = IF pcbs' THEN TcpInterval ELSE 0]
        /\ UNCHANGED stackbox

StackNext ==
    \/ \E c \in Clients : CallStack(c) \/ PostCall(c) \/ CallReturns(c)
    \/ PacketIn \/ (\E h \in DOMAIN UserTimers : UserTimer(h))
    \/ StackTick \/ NextMessage \/ TimeoutDue

StackSpec == StackInit /\ [][StackNext]_stackVars

-----------------------------------------------------------------------------
(* Whatever timeouts are set, cancelled and overtaken by messages: each    *)
(* timer that runs is in the list once, and none is called before its time *)
(* or gets more than it; TCP has its timer as long as there are pcbs; and  *)
(* a thread in a call is waited for by just one message or one operation.  *)
TimersRunOn ==
    LET inList(h) == {i \in DOMAIN timeouts : timeouts[i].h = h}
        inBox(c)  == {i \in DOMAIN stackbox : stackbox[i].of = c}
    IN  /\ \A i \in DOMAIN timeouts : timeouts[i].time >= 0
        /\ waited <= timeouts[1].time
        /\ \A h \in AllTimers :
              /\ Cardinality(inList(h)) <= 1
              /\ left[h] > 0 => inList(h) # {}
              /\ \A i \in inList(h) : TimeTo(timeouts, i) - waited >= left[h]
        /\ DOMAIN Cyclic \subseteq {timeouts[i].h : i \in DOMAIN timeouts}
        /\ tcp_active <=> inList(TcpTimer) # {}
        /\ pcbs => tcp_active
        /\ \A c \in Clients : Cardinality(inBox(c)) = (IF client[c] = "posted" THEN 1 ELSE 0)
=============================================================================
