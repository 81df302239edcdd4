------------------------------ MODULE SchedInv ------------------------------
(***************************************************************************)
(* The inductive invariant of module Sched: what every step may rely on.   *)
(* TLC checks it on small instances (MCSched), module SchedProofs proves   *)
(* it for every number of threads, priorities and IPC objects.             *)
(***************************************************************************)
EXTENDS Sched, KernelInv

\* Threads a call by another thread has unlinked: between the two disabled
\* sections of rt_thread_resume or rt_thread_delete.
InTransit == {u \in Threads : \E t \in Threads \ {Idle, u} : tgt[t] = u}

\* The section a call will run next, "none" outside kernel calls.
Section(s) == IF s = << >> THEN "none" ELSE Head(s)

PcAt(t, L) == Section(pc[t]) \in L

\* rt_current_thread: alone RUNNING; when it is not RUNNING it is about to
\* call rt_schedule with the scheduler unlocked.  Idle never blocks.
CurrentInv ==
    /\ \A t \in Threads : k.stat[t] = "RUNNING" => t = k.cur
    /\ k.cur # NoThread =>
          /\ k.stat[k.cur] \in {"RUNNING", "SUSPEND", "CLOSE"}
          /\ k.cur \notin InTransit
          /\ k.stat[k.cur] # "RUNNING" => k.lock = 0 /\ PcAt(k.cur, {"sched", "eintr"})
          /\ tgt[k.cur] = k.cur => k.lock = 0
          /\ k.stat[Idle] \in {"READY", "RUNNING"}
    /\ k.cur = NoThread =>
          /\ \A t \in Threads :
                k.stat[t] \in {"NONE", "READY"} /\ tgt[t] = NoThread /\ pc[t] = << >>
          /\ tm.list = << >> /\ isr = << >> /\ k.lock = 0

\* A call in progress works on a thread, or on an IPC object, or on neither.
TargetKind(t) ==
    /\ tgt[t] \in Threads <=> PcAt(t, {"insert", "close", "free"})
    /\ tgt[t] \in Waits <=> PcAt(t, {"check", "drain"}) \/ (isr = <<"drain">> /\ t = k.cur)

\* What the pending section knows of the thread it works on.
TargetStat(t) ==
    /\ PcAt(t, {"free"}) => t = Idle /\ k.stat[tgt[t]] = "CLOSE"
    /\ PcAt(t, {"insert"}) => t # Idle /\ tgt[t] # t /\ k.stat[tgt[t]] = "SUSPEND"
    /\ PcAt(t, {"close"}) =>
          /\ t # Idle
          /\ \/ tgt[t] = t /\ pc[t] = <<"close", "sched">> /\ k.stat[t] \in {"READY", "RUNNING"}
             \/ tgt[t] # t /\ k.stat[tgt[t]] \in {"INIT", "READY", "SUSPEND"}

TargetInv ==
    /\ \A t \in Threads : TargetKind(t)
    /\ \A t \in Threads : TargetStat(t)
    /\ \A t \in Threads :
          k.stat[t] \in {"NONE", "INIT", "CLOSE"} \/ t \in InTransit => tgt[t] = NoThread
    /\ \A t, u \in Threads : tgt[t] = tgt[u] /\ tgt[t] \in Threads => t = u
    /\ Idle \notin InTransit

\* Running timers: each thread's once, of suspended threads nobody works on.
TimerInv ==
    /\ Holds(tm.list, ToSet(tm.list))
    /\ \A t \in Threads : TimerOn(tm, t) => k.stat[t] = "SUSPEND" /\ t \notin InTransit

\* The registers and the saved contexts; rt_interrupt_from_thread is the
\* interrupted thread and rt_interrupt_to_thread the current one.
CpuInv ==
    /\ \A t \in Threads : k.stat[t] # "NONE" => cpu.saved[t] = t
    /\ cpu.exec \in Threads => k.stat[cpu.exec] # "NONE"
    /\ ~ cpu.flag => cpu.exec = k.cur
    /\ cpu.flag => /\ cpu.exec \in Threads /\ cpu.from = cpu.exec
                   /\ cpu.to = k.cur /\ k.cur \in Threads
                   /\ isr \notin {<< >>, <<"drain">>}

\* remaining_tick never reaches 0 unreloaded.
SliceInv == \A t \in Threads : k.stat[t] # "NONE" => rem[t] >= 1

PcShapes ==
    {<< >>, <<"sched">>, <<"sched", "ret">>, <<"ret">>,
     <<"eintr", "sched", "slept">>, <<"sched", "slept">>, <<"slept">>,
     <<"insert">>, <<"insert", "sched">>, <<"close">>, <<"close", "sched">>,
     <<"free">>, <<"check">>, <<"drain", "check">>}

IsrShapes ==
    {<< >>, <<"sched", "timers", "leave">>, <<"timers", "leave">>,
     <<"sched", "leave">>, <<"leave">>, <<"drain">>}

Shapes == pc \in [Threads -> PcShapes] /\ isr \in IsrShapes

\* Every step of the system preserves this, for the rest of TypeOK and all the
\* safety properties of module Sched proved in SchedProofs follow from it.
IInv ==
    /\ TypeOK
    /\ KernelOK(k, InTransit)
    /\ CurrentInv
    /\ TargetInv
    /\ TimerInv
    /\ CpuInv
    /\ SliceInv
    /\ Shapes

\* The loop of _ipc_list_resume_all in a disabled section is followed by
\* rt_schedule.
DrainInv == isr = <<"drain">> => PcAt(k.cur, {"sched"})

-----------------------------------------------------------------------------
(* What SleeperHasTimer, DrainFindsWaiter and HighestRuns need besides *)

\* rt_thread_sleep from the moment the thread is suspended.
Sleeping == {<<"eintr", "sched", "slept">>, <<"sched", "slept">>, <<"slept">>}

\* A sleeper has a timer, or a call that will resume or close it has stopped it.
SleepInv ==
    \A t \in Threads :
        pc[t] \in Sleeping /\ k.stat[t] = "SUSPEND" => TimerOn(tm, t) \/ t \in InTransit

\* An IPC object is torn down by one call; with interrupts enabled, no waiter
\* has a timer that could take it out of the list between test and removal.
TearDownInv ==
    /\ \A t, x \in Threads : tgt[t] = tgt[x] /\ tgt[t] \in Waits => t = x
    /\ \A t \in Threads : PcAt(t, {"check", "drain"}) =>
          \A u \in ToSet(k.wait[tgt[t]]) : ~ TimerOn(tm, u)
    /\ \A t \in Threads : PcAt(t, {"drain"}) => k.wait[tgt[t]] # << >>

\* rt_schedule is among the sections the current thread or the handler has
\* still to run.
Resched ==
    {<<"sched">>, <<"sched", "ret">>, <<"sched", "slept">>, <<"eintr", "sched", "slept">>,
     <<"insert", "sched">>, <<"close", "sched">>}
IsrResched == {<<"sched", "timers", "leave">>, <<"sched", "leave">>}
Pending    == pc[k.cur] \in Resched \/ isr \in IsrResched

\* No linked READY thread is more urgent than the current one.
Urgent == \A t \in Threads \ InTransit : k.stat[t] = "READY" => k.prio[k.cur] <= k.prio[t]

\* It is so between the sections of calls and handlers, too, unless one of
\* them has yet to reschedule.
UrgentInv == k.cur # NoThread /\ k.lock = 0 /\ ~ lag /\ ~ Pending => Urgent

LaterInv == SleepInv /\ TearDownInv /\ UrgentInv

\* The inductive invariant of the scheduler.
IndInv == IInv /\ DrainInv /\ LaterInv

=============================================================================
