------------------------------ MODULE RtxTimer ------------------------------
(***************************************************************************)
(* The timers of the kernel (rt_CMSIS.c): a list of the running timers,    *)
(* each with its distance to the one before it; the tick posts those that  *)
(* are due to the queue of the timer thread.  mem is their memory.         *)
(***************************************************************************)
EXTENDS Integers, Sequences, FiniteSets, SequencesExt

CONSTANTS
    Timers,
    Periods,        \* times in ticks a timer is started with
    Sleeps,         \* ticks slept between os_suspend and os_resume
    CallbackQueue,  \* OS_TIMERCBQS
    MaxTime         \* bound on the clock

ASSUME TimerAssumption ==
    /\ Periods \subseteq Nat \ {0} /\ Sleeps \subseteq Nat /\ CallbackQueue \in Nat \ {0}

VARIABLES
    mem,    \* [list, state, type, icnt, posted, queue, error]
    clock,  \* ticks since the start
    due,    \* reference: when each running timer is due
    calls   \* reference: calls made for each timer since it was created

timerVars == <<mem, clock, due, calls>>

-----------------------------------------------------------------------------
(* The list *)

\* Ticks until the i-th timer of the list is due.
Until(list, i) ==
    LET sum[j \in 0..Len(list)] == IF j = 0 THEN 0 ELSE sum[j - 1] + list[j].tcnt IN sum[i]

\* rt_timer_insert: behind the timers due no later.
Insert(list, t, tcnt) ==
    LET n == Cardinality({i \in DOMAIN list : Until(list, i) <= tcnt})
        gap == tcnt - Until(list, n)
        cut == IF n = Len(list) THEN list ELSE [list EXCEPT ![n + 1].tcnt = @ - gap]
    IN  InsertAt(cut, n + 1, [timer |-> t, tcnt |-> gap])

\* rt_timer_remove
TakeOut(list, t) ==
    LET i == CHOOSE j \in DOMAIN list : list[j].timer = t
    IN  RemoveAt(IF i = Len(list) THEN list
                 ELSE [list EXCEPT ![i + 1].tcnt = @ + list[i].tcnt], i)

\* isrMessagePut of the timer thread's queue, or OS_ERR_TIMER_OVF.
PostTimer(x, t) ==
    IF Len(x.queue) < CallbackQueue THEN [x EXCEPT !.posted = Append(@, t)]
    ELSE [x EXCEPT !.error = TRUE]

\* Slip: a periodic timer is inserted before the other that is due, whose
\* time has come to nothing by then.
Expire_slip(x, t) ==
    IF x.type[t] = "periodic" THEN [PostTimer(x, t) EXCEPT !.list = <<[timer |-> t, tcnt |-> x.icnt[t]]>> \o @]
    ELSE [PostTimer(x, t) EXCEPT !.state[t] = "stopped"]

Expire(x, t) ==
    IF x.type[t] = "periodic" THEN [PostTimer(x, t) EXCEPT !.list = Insert(@, t, x.icnt[t])]
    ELSE [PostTimer(x, t) EXCEPT !.state[t] = "stopped"]

\* The first timers of the list expire, one after the other.
ExpireFirst(x, list, late) ==
    LET after[i \in 0..late] == IF i = 0 THEN x ELSE Expire(after[i - 1], list[i].timer)
    IN  after[late]

\* sysTimerTick; the timers that are due are the first of the list, and one
\* that is inserted again is not due before the next tick.
TimerTick(x) ==
    LET list == [x.list EXCEPT ![1].tcnt = @ - 1]
        late == Cardinality({i \in DOMAIN list : Until(list, i) <= 0})
    IN  IF x.list = <<>> THEN x
        ELSE ExpireFirst([x EXCEPT !.list = SubSeq(list, late + 1, Len(list))], list, late)

\* One round of sysUserTimerUpdate, with the time that is left of the sleep.
UpdateRound(a) ==
    IF a.left = 0 \/ a.x.list = <<>> THEN a
    ELSE IF a.left >= Head(a.x.list).tcnt
    THEN [x |-> TimerTick([a.x EXCEPT !.list[1].tcnt = 1]), left |-> a.left - Head(a.x.list).tcnt]
    ELSE [x |-> [a.x EXCEPT !.list[1].tcnt = @ - a.left], left |-> 0]

\* sysUserTimerUpdate: from one due time to the next while there is time left.
UserTimerUpdate(x, sleep) ==
    LET round[i \in 0..sleep] ==
            IF i = 0 THEN [x |-> x, left |-> sleep] ELSE UpdateRound(round[i - 1])
    IN  round[sleep].x

-----------------------------------------------------------------------------
(* The system *)

TimerInit ==
    /\ mem = [list |-> <<>>, posted |-> <<>>, queue |-> <<>>, error |-> FALSE,
            state |-> [t \in Timers |-> "invalid"], type |-> [t \in Timers |-> "once"],
            icnt |-> [t \in Timers |-> 0]]
    /\ clock = 0 /\ due = [t \in Timers |-> 0] /\ calls = [t \in Timers |-> 0]

\* Post service runs before any thread does.
InThread == ~mem.error /\ mem.posted = <<>>

TimerCreate(t, type) ==
    /\ InThread /\ mem.state[t] = "invalid"
    /\ mem' = [mem EXCEPT !.state[t] = "stopped", !.type[t] = type]
    /\ UNCHANGED <<clock, due, calls>>

\* A timer that runs is started again with the new time, and goes on with the
\* old one.
TimerStart(t, tcnt) ==
    /\ InThread /\ mem.state[t] # "invalid"
    /\ mem' = IF mem.state[t] = "running" THEN [mem EXCEPT !.list = Insert(TakeOut(@, t), t, tcnt)]
            ELSE [mem EXCEPT !.list = Insert(@, t, tcnt), !.state[t] = "running", !.icnt[t] = tcnt]
    /\ due' = [due EXCEPT ![t] = clock + tcnt]
    /\ UNCHANGED <<clock, calls>>

TimerStop(t) ==
    /\ InThread /\ mem.state[t] = "running"
    /\ mem' = [mem EXCEPT !.list = TakeOut(@, t), !.state[t] = "stopped"]
    /\ UNCHANGED <<clock, due, calls>>

TimerDelete(t) ==
    /\ InThread /\ mem.state[t] # "invalid"
    /\ mem' = [mem EXCEPT !.list = IF mem.state[t] = "running" THEN TakeOut(@, t) ELSE @,
                      !.state[t] = "invalid"]
    /\ UNCHANGED <<clock, due, calls>>

\* What n ticks are to do: each running timer is called whenever it is due.
TimesDue(t, now) ==
    IF mem.state[t] # "running" \/ due[t] > now THEN 0
    ELSE IF mem.type[t] = "once" THEN 1
    ELSE 1 + (now - due[t]) \div mem.icnt[t]

Passes(n) ==
    /\ clock + n <= MaxTime /\ clock' = clock + n
    /\ due' = [t \in Timers |-> due[t] + TimesDue(t, clock + n) * mem.icnt[t]]
    /\ calls' = [t \in Timers |-> calls[t] + TimesDue(t, clock + n)]

TimerTicks == ~mem.error /\ Passes(1) /\ mem' = TimerTick(mem)
TimerResume(n) == InThread /\ Passes(n) /\ mem' = UserTimerUpdate(mem, n)

\* rt_mbx_psh of each post: a place that was free when it was posted may be
\* taken by one posted before it (OS_ERR_MBX_OVF).
PostService ==
    /\ ~mem.error /\ mem.posted # <<>>
    /\ mem' = IF Len(mem.queue \o mem.posted) > CallbackQueue THEN [mem EXCEPT !.error = TRUE]
            ELSE [mem EXCEPT !.queue = @ \o mem.posted, !.posted = <<>>]
    /\ UNCHANGED <<clock, due, calls>>

\* osTimerThread
Callback ==
    /\ InThread /\ mem.queue # <<>>
    /\ mem' = [mem EXCEPT !.queue = Tail(@)]
    /\ calls' = [calls EXCEPT ![Head(mem.queue)] = @ - 1]
    /\ UNCHANGED <<clock, due>>

TimerNext ==
    \/ \E t \in Timers :
          \/ TimerStop(t) \/ TimerDelete(t)
          \/ \E type \in {"once", "periodic"} : TimerCreate(t, type)
          \/ \E n \in Periods : TimerStart(t, n)
    \/ \E n \in Sleeps : TimerResume(n)
    \/ TimerTicks \/ PostService \/ Callback

TimerSpec == TimerInit /\ [][TimerNext]_timerVars

-----------------------------------------------------------------------------
(* Properties *)

\* Each running timer is in the list once and due when it should be, however
\* the timers around it were started, stopped, restarted and deleted, and over
\* ticks that were slept through.
TimersExact ==
    ~mem.error =>
        /\ {mem.list[i].timer : i \in 1..Len(mem.list)} = {t \in Timers : mem.state[t] = "running"}
        /\ IsInjective([i \in 1..Len(mem.list) |-> mem.list[i].timer])
        /\ \A i \in 1..Len(mem.list) :
              /\ clock + Until(mem.list, i) = due[mem.list[i].timer]
              /\ mem.list[1].tcnt > 0

\* Every time a timer was due it is called once: the calls not yet made are
\* those in the queue or posted.
CalledOncePerPeriod ==
    ~mem.error => \A t \in Timers :
        Cardinality({i \in 1..Len(mem.queue \o mem.posted) : (mem.queue \o mem.posted)[i] = t}) = calls[t]

\* When timers are due and how often they are called, together.
TimersFaithful == TimersExact /\ CalledOncePerPeriod
=============================================================================
