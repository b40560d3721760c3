------------------------------- MODULE MCRtx -------------------------------
\* The kernel, or its timers: with no service used, the kernel rests.
EXTENDS RtxKernel, RtxTimer, TLC

CONSTANTS t1, t2, t3

\* Two threads of one priority and a third above them.
MCPrio == (t1 :> 1) @@ (t2 :> 1) @@ (t3 :> 2)

Made(services, threads) == [services |-> services, threads |-> threads]

MCUses ==
    {Made({}, {}), Made({"tick", "yield"}, {t1, t2}), Made({"tick"}, {t1, t2}),
     Made({"tick", "mutex", "sem", "delete"}, Threads),
     Made({"tick", "mutex", "create", "terminate"}, Threads),
     Made({"tick", "mutex", "delay", "prio"}, {t1, t3}),
     Made({"tick", "sem", "isr", "create", "terminate"}, Threads),
     Made({"tick", "sem", "prio", "yield", "sleep"}, Threads), Made({"tick", "delay", "sleep"}, {t1, t3}),
     Made({"signal", "isr"}, {t1, t3}), Made({"tick", "signal"}, {t1, t2}),
     Made({"tick", "queue", "take", "isr"}, Threads)}

RtxInit == KernelInit /\ TimerInit
RtxNext ==
    \/ use # {} /\ KernelNext /\ UNCHANGED timerVars
    \/ use = {} /\ TimerNext /\ UNCHANGED kernelVars
RtxSpec == RtxInit /\ [][RtxNext]_<<kernelVars, timerVars>>
=============================================================================
