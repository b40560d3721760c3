------------------------------ MODULE RtxKernel ------------------------------
(***************************************************************************)
(* The kernel under the firmware (mbed-rtos, RTX): ready list, delay list, *)
(* semaphores, mutexes with priority inheritance, signals, message queues, *)
(* and what interrupts post to it.  A kernel call is one step: it runs in  *)
(* the supervisor call, which neither the tick nor the post service        *)
(* interrupts.  k is the kernel's memory; the operators below are its      *)
(* functions, from one memory to the next.                                 *)
(***************************************************************************)
EXTENDS Naturals, Sequences, FiniteSets
LOCAL INSTANCE SequencesExt

CONSTANTS
    Threads,        \* threads beside the idle demon
    BasePrio,       \* [Threads -> priority the thread is created with]
    Semaphores, Mutexes, Queues,
    QueueSize,      \* places of a message queue
    FifoSize,       \* places of os_psq
    Robin,          \* os_robin.tout
    Flags,          \* signal flags
    Timeouts,       \* timeouts in ticks that are passed
    Uses,           \* what behaviours are made of: a set of [services, threads]
    MaxTokens, MaxLevel, MaxMessages    \* bounds

Idle == "os_idle_demon"
Tasks == Threads \cup {Idle}
Objects == Semaphores \cup Mutexes \cup Queues
Forever == 65535      \* 0xFFFF
NoTask == "NULL"

ASSUME KernelAssumption ==
    /\ Idle \notin Threads /\ BasePrio \in [Threads -> Nat \ {0}]
    /\ Timeouts \subseteq 0..Forever
    /\ QueueSize \in Nat \ {0} /\ FifoSize \in Nat \ {0} /\ Robin \in Nat \ {0}

VARIABLES k, use

kernelVars == <<k, use>>

-----------------------------------------------------------------------------
(* rt_List.c *)

\* rt_put_prio: behind the last task of at least its priority.
PutPrio(m, list, t) ==
    LET n == CHOOSE i \in 0..Len(list) :
                /\ \A j \in 1..i : m.prio[t] <= m.prio[list[j]]
                /\ i < Len(list) => m.prio[t] > m.prio[list[i + 1]]
    IN  InsertAt(list, n + 1, t)

\* The object whose list a task is in.
WaitsFor(m, t) == {o \in Objects : Contains(m.queue[o], t)}

\* rt_rmv_list
RmvList(m, t) ==
    [m EXCEPT !.rdy = Remove(@, t), !.queue = [o \in Objects |-> Remove(@[o], t)]]

\* rt_resort_prio
ResortPrio(m, t) ==
    IF WaitsFor(m, t) # {}
    THEN [m EXCEPT !.queue = [o \in Objects |->
            IF o \in WaitsFor(m, t) THEN PutPrio(m, Remove(@[o], t), t) ELSE @[o]]]
    ELSE IF m.state[t] = "READY" THEN [m EXCEPT !.rdy = PutPrio(m, Remove(@, t), t)] ELSE m

\* When the i-th task of the delay list is due; each has its distance to the
\* one before it.
Due(dly, i) == FoldLeftDomain(LAMBDA sum, j : IF j <= i THEN sum + dly[j].gap ELSE sum, 0, dly)

\* rt_put_dly: before the first task that is due no earlier.
PutDly(m, t, delay) ==
    LET n == Cardinality({i \in 1..Len(m.dly) : Due(m.dly, i) < delay})
        gap == delay - Due(m.dly, n)
        list == InsertAt(m.dly, n + 1, [task |-> t, gap |-> gap])
    IN  [m EXCEPT !.dly = IF n + 2 <= Len(list) THEN [list EXCEPT ![n + 2].gap = @ - gap] ELSE list,
                  !.left[t] = delay]

\* Slip: the time of the task taken out is not given to the next.
RmvDly_slip(m, t) == [m EXCEPT !.dly = SelectSeq(@, LAMBDA d : d.task # t), !.left[t] = 0]

\* rt_rmv_dly
RmvDly(m, t) ==
    LET at == {i \in 1..Len(m.dly) : m.dly[i].task = t}
        i == CHOOSE j \in at : TRUE
        list == IF i < Len(m.dly) THEN [m.dly EXCEPT ![i + 1].gap = @ + m.dly[i].gap] ELSE m.dly
    IN  IF at = {} THEN m ELSE [m EXCEPT !.dly = RemoveAt(list, i), !.left[t] = 0]

-----------------------------------------------------------------------------
(* rt_Task.c *)

Ready(m, t) == [m EXCEPT !.rdy = PutPrio(m, @, t), !.state[t] = "READY"]
PutRdyFirst(m, t) == [m EXCEPT !.rdy = <<t>> \o @, !.state[t] = "READY"]

\* rt_get_first of the ready list and rt_switch_req
SwitchToFirst(m) ==
    [m EXCEPT !.run = Head(m.rdy), !.rdy = Tail(@), !.state[Head(m.rdy)] = "RUNNING"]

\* rt_dispatch of a task that was woken
Dispatch(m, t) ==
    IF m.prio[t] > m.prio[m.run] THEN SwitchToFirst(PutRdyFirst(PutRdyFirst(m, m.run), t))
    ELSE Ready(m, t)

\* Slip: it does not.
GiveWay_slip(m) == m

\* The running task gives way when a ready one has a higher priority.
GiveWay(m) ==
    IF m.prio[Head(m.rdy)] > m.prio[m.run] THEN SwitchToFirst(Ready(m, m.run)) ELSE m

\* rt_block
Block(m, timeout, state) ==
    IF timeout = 0 THEN m
    ELSE LET n == IF timeout = Forever THEN m ELSE PutDly(m, m.run, timeout)
         IN  SwitchToFirst([n EXCEPT !.state[m.run] = state])

\* What a call of the running task returns; a call that blocks returns the
\* timeout, unless whoever wakes the task writes another value there.
Returns(m, value) == [m EXCEPT !.ret[m.run] = value]

WaitOn(m, o, timeout, state) ==
    Block(Returns([m EXCEPT !.queue[o] = PutPrio(m, @, m.run)], "timeout"), timeout, state)

\* The first task that waits for an object, out of its lists.
First(m, o) == Head(m.queue[o])
Woken(m, o, value) ==
    LET t == First(m, o)
    IN  RmvDly([m EXCEPT !.queue[o] = Tail(@), !.ret[t] = value], t)

\* All of them: the object is deleted.
WakeAll(m, o) ==
    LET woken == FoldLeft(LAMBDA n, t : Ready(Woken(n, o, "ok"), t), m, m.queue[o])
    IN  GiveWay(woken)

\* rt_tsk_pass: svcThreadYield
Pass(m) ==
    IF m.prio[Head(m.rdy)] # m.prio[m.run] THEN m
    ELSE SwitchToFirst([m EXCEPT !.rdy = <<Head(m.rdy)>> \o PutPrio(m, Tail(m.rdy), m.run),
                                 !.state[m.run] = "READY"])

\* rt_tsk_prio: svcThreadSetPriority
SetPrio(m, t, prio) ==
    LET n == [m EXCEPT !.prio[t] = prio, !.base[t] = prio]
        r == ResortPrio(n, t)
    IN  IF t = m.run THEN GiveWay(n)
        ELSE IF r.state[t] = "READY" THEN Dispatch([r EXCEPT !.rdy = Tail(@)], Head(r.rdy)) ELSE r

\* rt_tsk_create: svcThreadCreate
Create(m, t) ==
    Dispatch([m EXCEPT !.prio[t] = BasePrio[t], !.base[t] = BasePrio[t], !.events[t] = {},
                       !.waits[t] = {}, !.ret[t] = "ok", !.owned[t] = <<>>], t)

-----------------------------------------------------------------------------
(* rt_Mutex.c *)

TakeMutex(m, x, t) == [m EXCEPT !.level[x] = 1, !.owner[x] = t, !.owned[t] = <<x>> \o @]

\* What the mutexes a task still has make of its priority.
Restored(m, t) ==
    LET waiting == {x \in ToSet(m.owned[t]) : m.queue[x] # <<>>}
        prios == {m.base[t]} \cup {m.prio[First(m, x)] : x \in waiting}
    IN  CHOOSE p \in prios : \A q \in prios : q <= p

\* Slip: the priority of the running task is inherited by nobody.
Inherit_slip(m, x) == m

\* The owner is raised to the priority of the task that waits for it.
Inherit(m, x) ==
    LET t == m.owner[x]
    IN  IF m.prio[t] < m.prio[m.run] THEN ResortPrio([m EXCEPT !.prio[t] = m.prio[m.run]], t) ELSE m

\* rt_mut_wait: svcMutexWait
MutWait(m, x, timeout) ==
    CASE m.level[x] = 0 -> Returns(TakeMutex(m, x, m.run), "ok")
      [] m.level[x] > 0 /\ m.owner[x] = m.run -> Returns([m EXCEPT !.level[x] = @ + 1], "ok")
      [] m.level[x] > 0 /\ m.owner[x] # m.run /\ timeout = 0 -> Returns(m, "timeout")
      [] OTHER -> WaitOn(Inherit(m, x), x, timeout, "WAIT_MUT")

\* rt_mut_release: svcMutexRelease
MutRelease(m, x) ==
    LET free == [m EXCEPT !.level[x] = 0, !.owner[x] = NoTask, !.owned[m.run] = Remove(@, x)]
        n == Returns([free EXCEPT !.prio[m.run] = Restored(free, m.run)], "ok")
        t == First(m, x)
        given == TakeMutex(Woken(n, x, "ok"), x, t)
    IN  CASE m.level[x] = 0 \/ m.owner[x] # m.run -> Returns(m, "resource")
          [] m.owner[x] = m.run /\ m.level[x] > 1 -> Returns([m EXCEPT !.level[x] = @ - 1], "ok")
          [] m.owner[x] = m.run /\ m.level[x] = 1 /\ m.queue[x] = <<>> -> GiveWay(n)
          [] OTHER -> IF n.prio[m.run] >= n.prio[Head(n.rdy)] THEN Dispatch(given, t)
                      ELSE SwitchToFirst(Ready(Ready(given, m.run), t))

\* rt_mut_delete: svcMutexDelete, and rt_mut_init when it is made again
MutDelete(m, x) ==
    LET t == m.owner[x]
        free == [m EXCEPT !.level[x] = 0, !.owner[x] = NoTask, !.owned[t] = Remove(@, x)]
        n == [free EXCEPT !.prio[t] = Restored(free, t)]
    IN  WakeAll(CASE m.level[x] = 0 -> m
                  [] m.level[x] > 0 /\ (t = m.run \/ n.prio[t] = m.prio[t]) -> n
                  [] OTHER -> ResortPrio(n, t), x)

\* The mutexes of a task that ends go to those who wait for them.
LeaveMutexes(m, t) ==
    FoldLeft(LAMBDA n, x :
                IF n.queue[x] = <<>> THEN [n EXCEPT !.level[x] = 0, !.owner[x] = NoTask]
                ELSE TakeMutex(Ready(Woken(n, x, "ok"), First(n, x)), x, First(n, x)),
             m, m.owned[t])

\* rt_tsk_delete: svcThreadTerminate, also when a thread function returns
Delete(m, t) ==
    LET alone == IF t = m.run THEN m ELSE RmvDly(RmvList(m, t), t)
        n == [LeaveMutexes(alone, t) EXCEPT !.state[t] = "INACTIVE", !.owned[t] = <<>>]
    IN  IF t = m.run THEN SwitchToFirst(n) ELSE GiveWay(n)

-----------------------------------------------------------------------------
(* rt_Semaphore.c, rt_Event.c, rt_Mailbox.c *)

\* rt_sem_wait: svcSemaphoreWait
SemWait(m, s, timeout) ==
    IF m.tokens[s] > 0 THEN Returns([m EXCEPT !.tokens[s] = @ - 1], "ok")
    ELSE IF timeout = 0 THEN Returns(m, "timeout")
    ELSE WaitOn(m, s, timeout, "WAIT_SEM")

\* rt_sem_send: svcSemaphoreRelease
SemSend(m, s) ==
    LET n == Returns(m, "ok")
    IN  IF m.queue[s] = <<>> THEN [n EXCEPT !.tokens[s] = @ + 1]
        ELSE Dispatch(Woken(n, s, "ok"), First(m, s))

\* rt_sem_psh: the same, posted by an interrupt
SemPsh(m, s) ==
    IF m.queue[s] = <<>> THEN [m EXCEPT !.tokens[s] = @ + 1]
    ELSE Ready(Woken(m, s, "ok"), First(m, s))

\* rt_evt_wait: svcSignalWait waits for all of some flags, or for any at all
EvtWait(m, flags, timeout) ==
    LET r == m.run
        all == flags # {}
        met == IF all THEN flags \subseteq m.events[r] ELSE m.events[r] # {}
        n == IF all THEN [m EXCEPT !.events[r] = @ \ flags]
             ELSE [m EXCEPT !.waits[r] = m.events[r], !.events[r] = {}]
        waiting == [m EXCEPT !.waits[r] = IF all THEN flags ELSE Flags]
    IN  IF met THEN Returns(n, "ok")
        ELSE Block(Returns(waiting, "timeout"), timeout, IF all THEN "WAIT_AND" ELSE "WAIT_OR")

\* rt_evt_set and rt_evt_psh up to the list: the task, woken when the flags
\* it waits for are there
EvtSet(m, t, flags) ==
    LET events == m.events[t] \cup flags
        n == [m EXCEPT !.events[t] = events]
        woken == [n EXCEPT !.events[t] = @ \ m.waits[t], !.ret[t] = "ok",
                           !.waits[t] = IF m.state[t] = "WAIT_OR" THEN @ \cap events ELSE @]
    IN  IF \/ m.state[t] = "WAIT_AND" /\ m.waits[t] \subseteq events
           \/ m.state[t] = "WAIT_OR" /\ m.waits[t] \cap events # {}
        THEN [RmvDly(woken, t) EXCEPT !.state[t] = "READY"] ELSE n

Wakes(m, t, flags) == m.state[t] # "READY" /\ EvtSet(m, t, flags).state[t] = "READY"

Full(m, q) == Len(m.msgs[q]) = QueueSize

Stored(m, q, x) == [m EXCEPT !.msgs[q] = Append(@, x)]
Fetched(m, x) == [m EXCEPT !.received = Append(@, x)]
Withdrawn(m, x) == [m EXCEPT !.withdrawn = @ \cup {x}]
Offers(m, t) == \E q \in WaitsFor(m, t) \cap Queues : m.box[q] = 2

\* rt_mbx_send: svcMessagePut.  p_lnk holds receivers (state 1) or senders
\* (state 2) of the queue, never both.
MbxSend(m, q, x, timeout) ==
    CASE m.queue[q] # <<>> /\ m.box[q] = 1 ->
            Dispatch(Woken(Fetched(Returns(m, "ok"), x), q, "ok"), First(m, q))
      [] ~(m.queue[q] # <<>> /\ m.box[q] = 1) /\ ~Full(m, q) -> Returns(Stored(m, q, x), "ok")
      [] ~(m.queue[q] # <<>> /\ m.box[q] = 1) /\ Full(m, q) ->
            IF timeout = 0 THEN Returns(Withdrawn(m, x), "timeout")
            ELSE WaitOn([m EXCEPT !.msg[m.run] = x, !.box[q] = IF m.queue[q] = <<>> THEN 2 ELSE @],
                        q, timeout, "WAIT_MBX")

\* Slip: a sender that waits is woken, and its message is left with it.
MbxWait_slip(m, q, timeout) ==
    IF m.msgs[q] = <<>> THEN Returns(m, "timeout")
    ELSE LET n == Fetched(Returns([m EXCEPT !.msgs[q] = Tail(@)], "ok"), Head(m.msgs[q]))
         IN  IF m.queue[q] # <<>> /\ m.box[q] = 2 THEN Dispatch(Woken(n, q, "ok"), First(m, q)) ELSE n

\* rt_mbx_wait: svcMessageGet
MbxWait(m, q, timeout) ==
    LET n == Fetched(Returns([m EXCEPT !.msgs[q] = Tail(@)], "ok"), Head(m.msgs[q]))
        t == First(m, q)
    IN  CASE m.msgs[q] # <<>> /\ m.queue[q] # <<>> /\ m.box[q] = 2 ->
                Dispatch(Woken(Stored(n, q, m.msg[t]), q, "ok"), t)
          [] m.msgs[q] # <<>> /\ ~(m.queue[q] # <<>> /\ m.box[q] = 2) -> n
          [] m.msgs[q] = <<>> ->
                IF timeout = 0 THEN Returns(m, "timeout")
                ELSE WaitOn([m EXCEPT !.box[q] = IF m.queue[q] = <<>> THEN 1 ELSE @],
                            q, timeout, "WAIT_MBX")

\* rt_mbx_psh: a message an interrupt posted, or the news that it took one
MbxPsh(m, q, x) ==
    LET t == First(m, q)
        n == [m EXCEPT !.stray = @ \/ x = 0]
    IN  CASE m.queue[q] # <<>> /\ m.box[q] = 1 -> Ready(Woken(Fetched(n, x), q, "ok"), t)
          [] m.queue[q] # <<>> /\ m.box[q] = 2 -> Ready(Woken(Stored(m, q, m.msg[t]), q, "ok"), t)
          [] m.queue[q] = <<>> /\ ~Full(m, q) -> Stored(n, q, x)
          [] OTHER -> [m EXCEPT !.error = "OS_ERR_MBX_OVF"]

-----------------------------------------------------------------------------
(* rt_System.c, rt_Robin.c *)

\* rt_psq_enq, from an interrupt
Post(m, request) ==
    IF Len(m.psq) < FifoSize THEN [m EXCEPT !.psq = Append(@, request)]
    ELSE [m EXCEPT !.error = "OS_ERR_FIFO_OVF"]

Served(m, request) ==
    CASE request.to \in Threads ->
            LET t == request.to
                n == EvtSet(m, t, request.arg)
            IN  IF Wakes(m, t, request.arg) THEN Ready(n, t) ELSE n
      [] request.to \in Queues -> MbxPsh(m, request.to, request.arg)
      [] request.to \in Semaphores -> SemPsh(m, request.to)

\* rt_pop_req
PopReq(m) ==
    SwitchToFirst(FoldLeft(Served, [PutRdyFirst(m, m.run) EXCEPT !.psq = <<>>], m.psq))

Rotated(m, list) == PutPrio(m, Tail(list), Head(list))

\* rt_chk_robin
ChkRobin(m) ==
    LET r == IF m.robin.task = Head(m.rdy) THEN m.robin
             ELSE [task |-> Head(m.rdy), ticks |-> Robin - 1]
    IN  IF r.ticks = 0
        THEN [m EXCEPT !.robin = [task |-> NoTask, ticks |-> 0],
                       !.rdy = Rotated(m, @)]
        ELSE [m EXCEPT !.robin = [r EXCEPT !.ticks = @ - 1]]

\* rt_dec_dly: the tasks that are due, first the one in front
DecDly(m) ==
    LET tick == [m EXCEPT !.dly = IF @ = <<>> THEN @ ELSE [@ EXCEPT ![1].gap = @ - 1],
                          !.left = [t \in Tasks |-> IF @[t] > 0 THEN @[t] - 1 ELSE 0]]
        due == {i \in 1..Len(tick.dly) : Due(tick.dly, i) = 0}
        late == SubSeq(tick.dly, 1, Cardinality(due))
        rest == SubSeq(tick.dly, Cardinality(due) + 1, Len(tick.dly))
        wake(n, d) == Ready(RmvList(IF Offers(n, d.task) THEN Withdrawn(n, n.msg[d.task]) ELSE n,
                                    d.task), d.task)
    IN  FoldLeft(wake, [tick EXCEPT !.dly = rest], late)

\* rt_resume: the delays after n ticks asleep
Slept(m, n) ==
    LET first == m.dly[1].gap
        after(j) == [m EXCEPT !.left = [t \in Tasks |-> IF @[t] > j THEN @[t] - j ELSE 0],
                              !.dly[1].gap = @ - j]
    IN  IF m.dly = <<>> THEN m
        ELSE IF n < first THEN after(n)
        ELSE FoldLeft(LAMBDA x, i : DecDly(x), after(first - 1), [i \in 1..(n - first + 1) |-> i])

RtResume(m, n) ==
    SwitchToFirst([Slept(PutRdyFirst(m, m.run), n) EXCEPT !.robin.task = NoTask])

\* rt_systick
SysTick(m) == SwitchToFirst(DecDly(ChkRobin(PutRdyFirst(m, m.run))))

-----------------------------------------------------------------------------
(* The system *)

NoThreads ==
    [run |-> Idle, rdy |-> <<>>, dly |-> <<>>,
     prio |-> [t \in Tasks |-> 0], base |-> [t \in Tasks |-> 0],
     state |-> [t \in Tasks |-> IF t = Idle THEN "RUNNING" ELSE "INACTIVE"],
     queue |-> [o \in Objects |-> <<>>], ret |-> [t \in Tasks |-> "ok"],
     level |-> [x \in Mutexes |-> 0], owner |-> [x \in Mutexes |-> NoTask],
     owned |-> [t \in Tasks |-> <<>>], tokens |-> [s \in Semaphores |-> 0],
     events |-> [t \in Tasks |-> {}], waits |-> [t \in Tasks |-> {}],
     msgs |-> [q \in Queues |-> <<>>], box |-> [q \in Queues |-> 0],
     msg |-> [t \in Tasks |-> 0], robin |-> [task |-> NoTask, ticks |-> 0],
     psq |-> <<>>, error |-> "none",
     left |-> [t \in Tasks |-> 0], puts |-> 0, received |-> <<>>, withdrawn |-> {}, stray |-> FALSE]

\* The first threads have been created.
KernelInit ==
    \E u \in Uses : use = u.services /\ k = FoldLeft(Create, NoThreads, SetToSeq(u.threads))

\* A behaviour is followed up to its first error (os_error stops the system)
\* or message that nobody sent.
Sound == k.error = "none" /\ ~k.stray
Running == Sound /\ k.psq = <<>>
Calls(service) == Running /\ k.run # Idle /\ service \in use
Alive(t) == k.state[t] # "INACTIVE"

ThreadCreate(t) == Calls("create") /\ ~Alive(t) /\ k' = Create(k, t)
ThreadYield == Calls("yield") /\ k' = Pass(k)
ThreadSetPriority(t, p) == Calls("prio") /\ Alive(t) /\ k' = SetPrio(k, t, p)
ThreadTerminate(t) == Calls("terminate") /\ Alive(t) /\ k' = Delete(k, t)
Delay(d) == Calls("delay") /\ k' = Block(k, d, "WAIT_DLY")

SemaphoreWait(s, d) == Calls("sem") /\ k' = SemWait(k, s, d)
SemaphoreRelease(s) == Calls("sem") /\ k.tokens[s] < MaxTokens /\ k' = SemSend(k, s)
\* Deleted, and made again without a token.
SemaphoreDelete(s) == Calls("delete") /\ k' = WakeAll([k EXCEPT !.tokens[s] = 0], s)
IsrSemaphoreRelease(s) ==
    /\ Sound /\ "sem" \in use /\ "isr" \in use
    /\ k.tokens[s] < MaxTokens /\ k' = Post(k, [to |-> s, arg |-> 0])

MutexWait(x, d) == Calls("mutex") /\ (k.owner[x] = k.run => k.level[x] < MaxLevel) /\ k' = MutWait(k, x, d)
MutexRelease(x) == Calls("mutex") /\ k' = MutRelease(k, x)
MutexDelete(x) == Calls("delete") /\ k' = MutDelete(k, x)

SignalSet(t, flags) ==
    /\ Calls("signal") /\ Alive(t)
    /\ k' = IF Wakes(k, t, flags) THEN Dispatch(EvtSet(k, t, flags), t) ELSE EvtSet(k, t, flags)
SignalClear(t, flags) == Calls("signal") /\ Alive(t) /\ k' = [k EXCEPT !.events[t] = @ \ flags]
SignalWait(flags, d) == Calls("signal") /\ k' = EvtWait(k, flags, d)
IsrSignalSet(t, flags) ==
    /\ Sound /\ "signal" \in use /\ "isr" \in use /\ Alive(t)
    /\ k' = Post(k, [to |-> t, arg |-> flags])

\* Messages are numbered; 0 is no message.
NextMessage == k.puts < MaxMessages
Numbered(m) == [m EXCEPT !.puts = @ + 1]
MessagePut(q, d) == Calls("queue") /\ NextMessage /\ k' = MbxSend(Numbered(k), q, k.puts + 1, d)
MessageGet(q, d) == Calls("queue") /\ k' = MbxWait(k, q, d)

IsrMessagePut(q) ==
    /\ Sound /\ "queue" \in use /\ "isr" \in use
    /\ NextMessage /\ ~Full(k, q)
    /\ k' = Post(Numbered(k), [to |-> q, arg |-> k.puts + 1])

\* isr_mbx_receive: it looks at the state of the list, not whether a sender
\* is in it.
IsrMessageGet(q) ==
    /\ Sound /\ "queue" \in use /\ "take" \in use
    /\ k.msgs[q] # <<>>
    /\ LET n == Fetched([k EXCEPT !.msgs[q] = Tail(@)], Head(k.msgs[q]))
           senders == Len(k.queue[q]) - Cardinality({i \in 1..Len(k.psq) : k.psq[i].to = q})
       IN  k' = IF k.box[q] # 2 THEN n
                ELSE Post([n EXCEPT !.stray = @ \/ senders <= 0], [to |-> q, arg |-> 0])

PendSV == Sound /\ k.psq # <<>> /\ k' = PopReq(k)
Tick == Sound /\ "tick" \in use /\ k' = SysTick(k)

\* The idle demon has suspended the scheduler for n ticks.
Resume(n) == Running /\ k.run = Idle /\ "sleep" \in use /\ k' = RtResume(k, n)

Thread ==
    \/ ThreadYield
    \/ \E n \in Timeouts \ {0, Forever} : Resume(n)
    \/ \E t \in Threads : ThreadCreate(t) \/ ThreadTerminate(t)
    \/ \E t \in Threads, p \in {BasePrio[u] : u \in Threads} : ThreadSetPriority(t, p)
    \/ \E d \in Timeouts \ {0, Forever} : Delay(d)
    \/ \E s \in Semaphores : \/ SemaphoreRelease(s) \/ SemaphoreDelete(s)
                             \/ \E d \in Timeouts : SemaphoreWait(s, d)
    \/ \E x \in Mutexes : \/ MutexRelease(x) \/ MutexDelete(x)
                          \/ \E d \in Timeouts : MutexWait(x, d)
    \/ \E t \in Threads, f \in SUBSET Flags \ {{}} : SignalSet(t, f) \/ SignalClear(t, f)
    \/ \E f \in SUBSET Flags, d \in Timeouts : SignalWait(f, d)
    \/ \E q \in Queues, d \in Timeouts : MessagePut(q, d) \/ MessageGet(q, d)

Interrupt ==
    \/ \E s \in Semaphores : IsrSemaphoreRelease(s)
    \/ \E t \in Threads, f \in Flags : IsrSignalSet(t, {f})
    \/ \E q \in Queues : IsrMessagePut(q) \/ IsrMessageGet(q)

KernelNext == (Thread \/ Interrupt \/ PendSV \/ Tick) /\ UNCHANGED use

KernelSpec == KernelInit /\ [][KernelNext]_kernelVars

-----------------------------------------------------------------------------
(* Properties *)

Sorted(list) == \A i, j \in 1..Len(list) : i < j => k.prio[list[i]] >= k.prio[list[j]]

\* The running task has the highest priority of those that could run, through
\* every inheritance, timeout, deletion and post of an interrupt; the lists
\* rt_put_prio relies on are sorted.
HighestRuns ==
    /\ \A i \in 1..Len(k.rdy) : k.prio[k.rdy[i]] <= k.prio[k.run]
    /\ Sorted(k.rdy) /\ \A o \in Objects : Sorted(k.queue[o])

\* Every task is where its state says, once: the running one in no list, a
\* ready one in the ready list, a waiting one with its object.
WellLinked ==
    LET all == k.rdy \o FoldLeft(LAMBDA s, o : s \o k.queue[o], <<>>, SetToSeq(Objects))
        listed(t, objects) == WaitsFor(k, t) # {} /\ WaitsFor(k, t) \subseteq objects
    IN  /\ IsInjective(all)
        /\ \A t \in Tasks :
              /\ (k.state[t] = "RUNNING") <=> (t = k.run)
              /\ (k.state[t] = "READY") <=> Contains(k.rdy, t)
              /\ (k.state[t] = "WAIT_SEM") <=> listed(t, Semaphores)
              /\ (k.state[t] = "WAIT_MUT") <=> listed(t, Mutexes)
              /\ (k.state[t] = "WAIT_MBX") <=> listed(t, Queues)
              /\ k.left[t] > 0 => k.state[t] \notin {"RUNNING", "READY", "INACTIVE"}

\* Every timed wait ends after as many ticks as were asked for, whatever waits
\* around it began, ended early or were cut off by a deletion.
DelaysExact ==
    /\ \A i \in 1..Len(k.dly) : Due(k.dly, i) = k.left[k.dly[i].task]
    /\ {k.dly[i].task : i \in 1..Len(k.dly)} = {t \in Tasks : k.left[t] > 0}

\* Nobody waits for what is there: no wakeup is lost between threads and
\* interrupts, timeouts and deletions.
NoLostWakeup ==
    /\ \A s \in Semaphores : k.queue[s] # <<>> => k.tokens[s] = 0
    /\ \A x \in Mutexes : k.queue[x] # <<>> => k.level[x] > 0 /\ Alive(k.owner[x])
    /\ \A t \in Threads :
          /\ k.state[t] = "WAIT_AND" => ~(k.waits[t] \subseteq k.events[t])
          /\ k.state[t] = "WAIT_OR" => k.waits[t] \cap k.events[t] = {}
    /\ \A q \in Queues : (k.queue[q] # <<>> /\ k.psq = <<>> /\ Sound) =>
          (IF k.box[q] = 1 THEN k.msgs[q] = <<>> ELSE Full(k, q))

\* The owner of a mutex runs at least at the priority its waiters were given,
\* also of one mutex taken inside another, and a task that has released its
\* mutexes runs at its own again.
PriorityInherited ==
    "prio" \notin use =>
        /\ \A x \in Mutexes : \A t \in ToSet(k.queue[x]) : k.prio[k.owner[x]] >= k.base[t]
        /\ \A t \in Threads : Alive(t) /\ k.owned[t] = <<>> => k.prio[t] = k.base[t]

\* A message put is received once, or is still in its queue or on its way: none
\* is lost or doubled, or invented before an interrupt's receive finds a waiting
\* receiver and takes it for a sender (stray).
MessagesKept ==
    LET stored == FoldLeft(LAMBDA s, q : s \o k.msgs[q], k.received, SetToSeq(Queues))
        posted == {k.psq[i].arg : i \in {j \in 1..Len(k.psq) : k.psq[j].to \in Queues}} \ {0}
        offered == {k.msg[t] : t \in {u \in Threads : Offers(k, u)}}
    IN  Sound => /\ IsInjective(stored)
                 /\ ToSet(stored) \cap (posted \cup offered \cup k.withdrawn) = {}
                 /\ ToSet(stored) \cup posted \cup offered \cup k.withdrawn = 1..k.puts
                 /\ \A q \in Queues : Len(k.msgs[q]) <= QueueSize

\* Who runs and who waits where, together.
Scheduled == HighestRuns /\ WellLinked

\* What is given to an object reaches who waits for it, together.
NothingLost == NoLostWakeup /\ MessagesKept
=============================================================================
