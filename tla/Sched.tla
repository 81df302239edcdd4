-------------------------------- MODULE Sched --------------------------------
(***************************************************************************)
(* The thread scheduler of RT-Thread on one core: thread life cycle,       *)
(* blocking with and without timeout, priorities, time slices, scheduler   *)
(* lock, the tick and device interrupts, and context switching.            *)
(*                                                                         *)
(* One step is one interrupts-disabled section of the code.  A thread that *)
(* has left such a section but not finished the call keeps the sections    *)
(* that remain in pc[t]; interrupts and, through them, other threads may   *)
(* come in between.  A handler runs with interrupts off, so while isr is   *)
(* not empty only handler steps happen; a thread switch decided by a       *)
(* handler takes effect at trap exit.                                      *)
(***************************************************************************)
EXTENDS Kernel

CONSTANTS
    Slice,      \* thread->init_tick of each thread
    Prios,      \* the priorities each thread may be created with or moved to
    MaxTime,    \* bound: longest sleep or timeout, in ticks
    MaxLock,    \* bound: deepest rt_enter_critical nesting
    Ops         \* the services the application and the devices use

ASSUME SliceAssumption == Slice \in [Threads -> Nat \ {0}]
ASSUME PriosAssumption == Prios \in [Threads -> SUBSET Prio]
ASSUME BoundAssumption == MaxTime \in Nat /\ MaxLock \in Nat
ASSUME TargetAssumption == Waits \cap ThreadOrNull = {}

VARIABLES
    k,      \* scheduler state (module Kernel)
    tm,     \* thread timers
    cpu,    \* registers and saved contexts
    rem,    \* thread->remaining_tick
    err,    \* thread->error
    pc,     \* sections of the call in progress still to run, per thread
    tgt,    \* the thread or the IPC object that call works on
    isr,    \* sections still to run with interrupts off: of a handler, or the
            \* loop of _ipc_list_resume_all inside a disabled section
    lag     \* history: ready threads or priorities changed by a call that, by
            \* its contract, leaves rescheduling to its caller

vars == <<k, tm, cpu, rem, err, pc, tgt, isr, lag>>

Labels == {"sched", "insert", "eintr", "slept", "ret", "check", "drain", "close", "free"}
IsrLabels == {"sched", "timers", "leave", "drain"}
Errors == {"EOK", "ETIMEOUT", "EINTR", "ERROR"}
Times == 1 .. MaxTime

Init ==
    /\ k = KernelInit
    /\ tm = TimerInit
    /\ cpu = CpuInit
    /\ rem = [t \in Threads |-> 0]
    /\ err = [t \in Threads |-> "EOK"]
    /\ pc = [t \in Threads |-> << >>]
    /\ tgt = [t \in Threads |-> NoThread]
    /\ isr = << >>
    /\ lag = FALSE

-----------------------------------------------------------------------------
(* Who may take a step *)

\* t executes application code and calls service op.
Calls(t, op) == isr = << >> /\ cpu.exec = t /\ pc[t] = << >> /\ op \in Ops

\* t executes the section l of a kernel call.
At(t, l) == isr = << >> /\ cpu.exec = t /\ pc[t] # << >> /\ Head(pc[t]) = l

\* IPC object w is being torn down by _ipc_list_resume_all.
Draining(w) == \E t \in Threads : tgt[t] = w

\* Usage rule: no call in progress works on u or on the object u waits for.
NotTarget(u) ==
    /\ \A t \in Threads : tgt[t] # u
    /\ \A w \in Waits : u \in ToSet(k.wait[w]) => ~ Draining(w)

\* Usage rule: besides, u is not half-way through a call on a third thread.
Undisturbed(u) == tgt[u] = NoThread /\ NotTarget(u)

Call(t, sections) == pc' = [pc EXCEPT ![t] = sections]
Done(t)           == pc' = [pc EXCEPT ![t] = Tail(@)]

-----------------------------------------------------------------------------
(* Creation and start of threads *)

\* The effect of rt_thread_init/rt_thread_create on u.
Create(u, p) ==
    /\ k.stat[u] = "NONE"
    /\ p \in Prios[u]
    /\ rem' = [rem EXCEPT ![u] = Slice[u]]
    /\ err' = [err EXCEPT ![u] = "EOK"]

\* Before the scheduler starts interrupts are off: create and start in one go.
BootThread(u, p) ==
    /\ k.cur = NoThread
    /\ Create(u, p)
    /\ k' = LET i == ThreadInit(k, u, p)
            IN  Resume([i EXCEPT !.mask[u] = {p}, !.stat[u] = "SUSPEND"], u)
    /\ cpu' = StackInit(cpu, u)
    /\ UNCHANGED <<tm, pc, tgt, isr, lag>>

BootStart ==
    /\ k.cur = NoThread
    /\ k.stat[Idle] = "READY"
    /\ k' = SchedulerStart(k)
    /\ cpu' = ContextSwitchTo(cpu, k'.cur)
    /\ UNCHANGED <<tm, rem, err, pc, tgt, isr, lag>>

CreateThread(t, u, p) ==
    /\ Calls(t, "create")
    /\ Create(u, p)
    /\ k' = ThreadInit(k, u, p)
    /\ cpu' = StackInit(cpu, u)
    /\ Call(u, << >>)
    /\ UNCHANGED <<tm, tgt, isr, lag>>

\* rt_thread_startup up to the point where rt_thread_resume enables interrupts.
Startup(t, u) ==
    /\ Calls(t, "create")
    /\ k.stat[u] = "INIT"
    /\ Undisturbed(u)
    /\ k' = ListRemove([k EXCEPT !.mask[u] = {k.prio[u]}, !.stat[u] = "SUSPEND",
                                 !.yld[u] = FALSE], u)
    /\ tm' = TimerStop(tm, u)
    /\ Call(t, <<"insert", "sched">>)
    /\ tgt' = [tgt EXCEPT ![t] = u]
    /\ UNCHANGED <<cpu, rem, err, isr, lag>>

-----------------------------------------------------------------------------
(* Calls on the calling thread *)

Yield(t) ==
    /\ Calls(t, "yield")
    /\ rem' = [rem EXCEPT ![t] = Slice[t]]
    /\ k' = [k EXCEPT !.yld[t] = TRUE]
    /\ Call(t, <<"sched">>)
    /\ UNCHANGED <<tm, cpu, err, tgt, isr, lag>>

\* Blocking with the scheduler locked is excluded by RT_DEBUG_SCHEDULER_AVAILABLE.
MayBlock(t) == t # Idle /\ k.lock = 0

\* Mutant: the timer is started before rt_thread_suspend, which stops it.
SleepTimerFirst(t, n) ==
    /\ Calls(t, "sleep")
    /\ MayBlock(t)
    /\ err' = [err EXCEPT ![t] = "EOK"]
    /\ k' = Suspend(k, t)
    /\ tm' = TimerStop(TimerStart(tm, t, n), t)
    /\ Call(t, <<"eintr", "sched", "slept">>)
    /\ UNCHANGED <<cpu, rem, tgt, isr, lag>>

Sleep(t, n) ==
    /\ Calls(t, "sleep")
    /\ MayBlock(t)
    /\ err' = [err EXCEPT ![t] = "EOK"]
    /\ k' = Suspend(k, t)
    /\ tm' = TimerStart(TimerStop(tm, t), t, n)
    /\ Call(t, <<"eintr", "sched", "slept">>)
    /\ UNCHANGED <<cpu, rem, tgt, isr, lag>>

\* rt_thread_suspend(rt_thread_self()); rt_schedule();
SuspendSelf(t) ==
    /\ Calls(t, "suspend")
    /\ MayBlock(t)
    /\ k' = Suspend(k, t)
    /\ tm' = TimerStop(tm, t)
    /\ Call(t, <<"sched">>)
    /\ UNCHANGED <<cpu, rem, err, tgt, isr, lag>>

\* The blocking path of an IPC call, n = 0 meaning RT_WAITING_FOREVER.
Block(t, w, n) ==
    /\ Calls(t, "ipc")
    /\ MayBlock(t)
    /\ ~ Draining(w)
    /\ err' = [err EXCEPT ![t] = "EINTR"]
    /\ k' = IpcListSuspend(k, t, w)
    /\ tm' = IF n = 0 THEN TimerStop(tm, t) ELSE TimerStart(TimerStop(tm, t), t, n)
    /\ Call(t, <<"sched", "ret">>)
    /\ UNCHANGED <<cpu, rem, tgt, isr, lag>>

EnterCritical(t) ==
    /\ Calls(t, "lock")
    /\ k.lock < MaxLock
    /\ k' = [k EXCEPT !.lock = @ + 1]
    /\ UNCHANGED <<tm, cpu, rem, err, pc, tgt, isr, lag>>

\* An unbalanced exit leaves the count at 0.
ExitCritical(t) ==
    /\ Calls(t, "lock")
    /\ k' = [k EXCEPT !.lock = IF @ > 0 THEN @ - 1 ELSE 0]
    /\ Call(t, IF k.lock <= 1 THEN <<"sched">> ELSE << >>)
    /\ UNCHANGED <<tm, cpu, rem, err, tgt, isr, lag>>

\* The entry function returns into _thread_exit.
Exit(t) ==
    /\ Calls(t, "exit")
    /\ MayBlock(t)
    /\ Undisturbed(t)
    /\ k' = Close(RemoveThread(k, t), t)
    /\ tm' = TimerStop(tm, t)
    /\ Call(t, <<"sched">>)
    /\ UNCHANGED <<cpu, rem, err, tgt, isr, lag>>

-----------------------------------------------------------------------------
(* Calls on other threads *)

\* Mutant: the waiter's timer is left running.
WakeFirstTimerLeft(w, e) ==
    /\ k.wait[w] # << >>
    /\ k' = Resume(k, Head(k.wait[w]))
    /\ err' = [err EXCEPT ![Head(k.wait[w])] = e]
    /\ UNCHANGED tm

\* The first waiter is resumed with error e, interrupts disabled throughout.
WakeFirst(w, e) ==
    /\ k.wait[w] # << >>
    /\ LET u == Head(k.wait[w])
       IN  /\ k' = Resume(k, u)
           /\ tm' = TimerStop(tm, u)
           /\ err' = [err EXCEPT ![u] = e]

\* Mutant: the releasing thread does not reschedule.
WakeNoSchedule(t, w) ==
    /\ Calls(t, "ipc")
    /\ ~ Draining(w)
    /\ WakeFirst(w, "EOK")
    /\ UNCHANGED <<cpu, rem, pc, tgt, isr, lag>>

\* _ipc_list_resume and rt_schedule
Wake(t, w) ==
    /\ Calls(t, "ipc")
    /\ ~ Draining(w)
    /\ WakeFirst(w, "EOK")
    /\ Call(t, <<"sched">>)
    /\ UNCHANGED <<cpu, rem, tgt, isr, lag>>

\* _ipc_list_resume_all called with interrupts enabled (detach, delete): it
\* tests the list and only then disables interrupts to take the first waiter.
BeginWakeAll(t, w) ==
    /\ Calls(t, "detach")
    /\ ~ Draining(w)
    /\ Call(t, <<"check">>)
    /\ tgt' = [tgt EXCEPT ![t] = w]
    /\ UNCHANGED <<k, tm, cpu, rem, err, isr, lag>>

\* Usage rule: no waiter has a timeout.
WakeAll(t, w) ==
    /\ \A u \in ToSet(k.wait[w]) : ~ TimerOn(tm, u)
    /\ BeginWakeAll(t, w)

\* _ipc_list_resume_all inside a disabled section (reset), then rt_schedule.
WakeAllAtomic(t, w) ==
    /\ Calls(t, "reset")
    /\ ~ Draining(w)
    /\ Call(t, <<"sched">>)
    /\ tgt' = [tgt EXCEPT ![t] = w]
    /\ isr' = <<"drain">>
    /\ UNCHANGED <<k, tm, cpu, rem, err, lag>>

\* rt_thread_resume, called by a thread: interrupts are enabled between the
\* removal from the suspend list and the insertion into the ready list.
ResumeThread(t, u) ==
    /\ Calls(t, "resume")
    /\ k.stat[u] = "SUSPEND"
    /\ Undisturbed(u)
    /\ k' = ListRemove(k, u)
    /\ tm' = TimerStop(tm, u)
    /\ Call(t, <<"insert">>)
    /\ tgt' = [tgt EXCEPT ![t] = u]
    /\ UNCHANGED <<cpu, rem, err, isr, lag>>

SetPriority(t, u, p) ==
    /\ Calls(t, "priority")
    /\ k.stat[u] \notin {"NONE", "CLOSE"}
    /\ u # Idle
    /\ p \in Prios[u]
    /\ NotTarget(u)
    /\ k' = ChangePriority(k, u, p)
    /\ lag' = TRUE
    /\ UNCHANGED <<tm, cpu, rem, err, pc, tgt, isr>>

\* rt_thread_delete or rt_thread_detach up to its interrupts-disabled section,
\* and, followed by rt_schedule, RT_THREAD_CTRL_CLOSE.  A closed thread is
\* left alone.
BeginClose(t, u, sections) ==
    /\ k.stat[u] \notin {"NONE", "CLOSE"}
    /\ u # Idle
    /\ k' = IF k.stat[u] = "INIT" THEN k ELSE RemoveThread(k, u)
    /\ Call(t, sections)
    /\ tgt' = [tgt EXCEPT ![t] = u]
    /\ UNCHANGED <<tm, cpu, rem, err, isr, lag>>

\* Usage rule: the victim's timer is not running.
Delete(t, u) ==
    /\ Calls(t, "delete")
    /\ u # t
    /\ Undisturbed(u)
    /\ ~ TimerOn(tm, u)
    /\ BeginClose(t, u, <<"close">>)

ControlClose(t, u) ==
    /\ Calls(t, "delete")
    /\ MayBlock(t)
    /\ Undisturbed(u)
    /\ ~ TimerOn(tm, u)
    /\ BeginClose(t, u, <<"close", "sched">>)

-----------------------------------------------------------------------------
(* The remaining sections of a call *)

\* rt_schedule in thread context.
DoSchedule(t) ==
    /\ At(t, "sched")
    /\ k' = Schedule(k)
    /\ cpu' = IF k'.cur = k.cur THEN cpu ELSE ContextSwitch(cpu, k.cur, k'.cur)
    /\ lag' = (lag /\ k.lock # 0)
    /\ Done(t)
    /\ UNCHANGED <<tm, rem, err, tgt, isr>>

\* rt_schedule_insert_thread at the end of rt_thread_resume.
DoInsert(t) ==
    /\ At(t, "insert")
    /\ k' = InsertThread(k, tgt[t])
    /\ tgt' = [tgt EXCEPT ![t] = NoThread]
    /\ lag' = TRUE
    /\ Done(t)
    /\ UNCHANGED <<tm, cpu, rem, err, isr>>

\* rt_thread_sleep: thread->error = -RT_EINTR, after interrupts are enabled.
DoEintr(t) ==
    /\ At(t, "eintr")
    /\ err' = [err EXCEPT ![t] = "EINTR"]
    /\ Done(t)
    /\ UNCHANGED <<k, tm, cpu, rem, tgt, isr, lag>>

\* rt_thread_sleep, back on the processor.
DoSlept(t) ==
    /\ At(t, "slept")
    /\ err' = [err EXCEPT ![t] = IF @ = "ETIMEOUT" THEN "EOK" ELSE @]
    /\ Done(t)
    /\ UNCHANGED <<k, tm, cpu, rem, tgt, isr, lag>>

\* An IPC call, back on the processor, reads thread->error.
DoReturn(t) ==
    /\ At(t, "ret")
    /\ Done(t)
    /\ UNCHANGED <<k, tm, cpu, rem, err, tgt, isr, lag>>

\* Mutant: the loop body runs before the list is tested.
DoCheckLate(t) ==
    /\ At(t, "check")
    /\ Call(t, <<"drain", "check">>)
    /\ UNCHANGED <<k, tm, cpu, rem, err, tgt, isr, lag>>

\* _ipc_list_resume_all: the loop test ...
DoCheck(t) ==
    /\ At(t, "check")
    /\ IF k.wait[tgt[t]] = << >>
       THEN Done(t) /\ tgt' = [tgt EXCEPT ![t] = NoThread]
       ELSE Call(t, <<"drain", "check">>) /\ UNCHANGED tgt
    /\ UNCHANGED <<k, tm, cpu, rem, err, isr, lag>>

\* ... and the loop body.
DoDrain(t) ==
    /\ At(t, "drain")
    /\ WakeFirst(tgt[t], "ERROR")
    /\ lag' = TRUE
    /\ Done(t)
    /\ UNCHANGED <<cpu, rem, tgt, isr>>

\* The interrupts-disabled section of rt_thread_delete/rt_thread_detach.
DoClose(t) ==
    /\ At(t, "close")
    /\ k' = Close(k, tgt[t])
    /\ tm' = TimerStop(tm, tgt[t])
    /\ tgt' = [tgt EXCEPT ![t] = NoThread]
    /\ Done(t)
    /\ UNCHANGED <<cpu, rem, err, isr, lag>>

-----------------------------------------------------------------------------
(* The idle thread *)

\* rt_thread_defunct_dequeue reads the head of the list before it disables
\* interrupts; only idle removes from that list.
Reap ==
    /\ isr = << >> /\ cpu.exec = Idle /\ pc[Idle] = << >>
    /\ k.defunct # << >>
    /\ tgt' = [tgt EXCEPT ![Idle] = Head(k.defunct)]
    /\ Call(Idle, <<"free">>)
    /\ UNCHANGED <<k, tm, cpu, rem, err, isr, lag>>

\* Mutant: the thread is freed without leaving _rt_thread_defunct.
FreeStillLinked ==
    /\ At(Idle, "free")
    /\ k' = [k EXCEPT !.stat[tgt[Idle]] = "NONE", !.yld[tgt[Idle]] = FALSE,
                      !.prio[tgt[Idle]] = 0, !.mask[tgt[Idle]] = {}]
    /\ cpu' = [cpu EXCEPT !.saved[tgt[Idle]] = NoThread]
    /\ pc' = [pc EXCEPT ![Idle] = << >>, ![tgt[Idle]] = << >>]
    /\ tgt' = [tgt EXCEPT ![Idle] = NoThread]
    /\ UNCHANGED <<tm, rem, err, isr, lag>>

\* ... unlinks it, and rt_defunct_execute frees stack and object.
Free ==
    /\ At(Idle, "free")
    /\ k' = LET u == tgt[Idle]
            IN  [ListRemove(k, u) EXCEPT !.stat[u] = "NONE", !.yld[u] = FALSE,
                                      !.prio[u] = 0, !.mask[u] = {}]
    /\ cpu' = [cpu EXCEPT !.saved[tgt[Idle]] = NoThread]
    /\ rem' = [rem EXCEPT ![tgt[Idle]] = 0]
    /\ err' = [err EXCEPT ![tgt[Idle]] = "EOK"]
    /\ pc' = [pc EXCEPT ![Idle] = << >>, ![tgt[Idle]] = << >>]
    /\ tgt' = [tgt EXCEPT ![Idle] = NoThread]
    /\ UNCHANGED <<tm, isr, lag>>

-----------------------------------------------------------------------------
(* Interrupt handlers *)

Interrupts == isr = << >> /\ k.cur # NoThread

\* Mutant: an expired time slice is not reloaded.
TickNoReload ==
    /\ Interrupts
    /\ "tick" \in Ops
    /\ tm' = TimerTick(tm)
    /\ rem' = [rem EXCEPT ![k.cur] = @ - 1]
    /\ k' = IF rem[k.cur] = 1 THEN [k EXCEPT !.yld[k.cur] = TRUE] ELSE k
    /\ isr' = IF rem[k.cur] = 1 THEN <<"sched", "timers", "leave">> ELSE <<"timers", "leave">>
    /\ UNCHANGED <<cpu, err, pc, tgt, lag>>

\* tick_isr -> rt_tick_increase: the current thread's time slice.
Tick ==
    /\ Interrupts
    /\ "tick" \in Ops
    /\ tm' = TimerTick(tm)
    /\ LET t == k.cur
           over == rem[t] = 1
       IN  /\ rem' = [rem EXCEPT ![t] = IF over THEN Slice[t] ELSE @ - 1]
           /\ k' = IF over THEN [k EXCEPT !.yld[t] = TRUE] ELSE k
           /\ isr' = IF over THEN <<"sched", "timers", "leave">> ELSE <<"timers", "leave">>
    /\ UNCHANGED <<cpu, err, pc, tgt, lag>>

\* A device handler releases an IPC object.
IsrWake(w) ==
    /\ Interrupts
    /\ "isripc" \in Ops
    /\ ~ Draining(w)
    /\ WakeFirst(w, "EOK")
    /\ isr' = <<"sched", "leave">>
    /\ UNCHANGED <<cpu, rem, pc, tgt, lag>>

\* A device handler calls rt_thread_resume and rt_schedule.
IsrResume(u) ==
    /\ Interrupts
    /\ "isrresume" \in Ops
    /\ k.stat[u] = "SUSPEND"
    /\ NotTarget(u)
    /\ k' = Resume(k, u)
    /\ tm' = TimerStop(tm, u)
    /\ isr' = <<"sched", "leave">>
    /\ UNCHANGED <<cpu, rem, err, pc, tgt, lag>>

IsrAt(l) == isr # << >> /\ Head(isr) = l

\* rt_schedule in interrupt context.
IsrSchedule ==
    /\ IsrAt("sched")
    /\ k' = Schedule(k)
    /\ cpu' = IF k'.cur = k.cur THEN cpu
              ELSE ContextSwitchInterrupt(cpu, k.cur, k'.cur)
    /\ lag' = (lag /\ k.lock # 0)
    /\ isr' = Tail(isr)
    /\ UNCHANGED <<tm, rem, err, pc, tgt>>

\* Mutant: _thread_timeout does not put the thread into the ready list.
IsrTimeoutLost ==
    /\ IsrAt("timers")
    /\ TimerDue(tm)
    /\ tm' = TimerStop(tm, Head(tm.list))
    /\ err' = [err EXCEPT ![Head(tm.list)] = "ETIMEOUT"]
    /\ k' = ListRemove(k, Head(tm.list))
    /\ isr' = <<"sched", "timers", "leave">>
    /\ UNCHANGED <<cpu, rem, pc, tgt, lag>>

\* rt_timer_check: one due timer, its callback _thread_timeout.
IsrTimeout ==
    /\ IsrAt("timers")
    /\ TimerDue(tm)
    /\ LET u == Head(tm.list)
       IN  /\ tm' = TimerStop(tm, u)
           /\ err' = [err EXCEPT ![u] = "ETIMEOUT"]
           /\ k' = Resume(k, u)
    /\ isr' = <<"sched", "timers", "leave">>
    /\ UNCHANGED <<cpu, rem, pc, tgt, lag>>

IsrTimersDone ==
    /\ IsrAt("timers")
    /\ ~ TimerDue(tm)
    /\ isr' = Tail(isr)
    /\ UNCHANGED <<k, tm, cpu, rem, err, pc, tgt, lag>>

IsrLeave ==
    /\ IsrAt("leave")
    /\ cpu' = TrapExit(cpu)
    /\ isr' = Tail(isr)
    /\ UNCHANGED <<k, tm, rem, err, pc, tgt, lag>>

\* _ipc_list_resume_all with interrupts off throughout.
OffDrain ==
    /\ IsrAt("drain")
    /\ WakeFirst(tgt[cpu.exec], "ERROR")
    /\ UNCHANGED <<cpu, rem, pc, tgt, isr, lag>>

OffDrained ==
    /\ IsrAt("drain")
    /\ k.wait[tgt[cpu.exec]] = << >>
    /\ isr' = Tail(isr)
    /\ tgt' = [tgt EXCEPT ![cpu.exec] = NoThread]
    /\ UNCHANGED <<k, tm, cpu, rem, err, pc, lag>>

-----------------------------------------------------------------------------

Boot ==
    \/ \E u \in Threads, p \in Prio : BootThread(u, p)
    \/ BootStart

Service(t) ==
    \/ \E u \in Threads, p \in Prio : CreateThread(t, u, p)
    \/ \E u \in Threads : Startup(t, u)
    \/ Yield(t)
    \/ \E n \in Times : Sleep(t, n)
    \/ SuspendSelf(t)
    \/ \E w \in Waits, n \in Times \cup {0} : Block(t, w, n)
    \/ EnterCritical(t)
    \/ ExitCritical(t)
    \/ Exit(t)
    \/ \E w \in Waits : Wake(t, w)
    \/ \E w \in Waits : WakeAll(t, w)
    \/ \E w \in Waits : WakeAllAtomic(t, w)
    \/ \E u \in Threads : ResumeThread(t, u)
    \/ \E u \in Threads, p \in Prio : SetPriority(t, u, p)
    \/ \E u \in Threads : Delete(t, u)
    \/ \E u \in Threads : ControlClose(t, u)

Continue(t) ==
    \/ DoSchedule(t) \/ DoInsert(t) \/ DoEintr(t) \/ DoSlept(t) \/ DoClose(t) \/ DoReturn(t)
    \/ DoCheck(t) \/ DoDrain(t)

IdleLoop == Reap \/ Free

Interrupt ==
    \/ Tick
    \/ \E w \in Waits : IsrWake(w)
    \/ \E u \in Threads : IsrResume(u)

Handler ==
    \/ IsrSchedule \/ IsrTimeout \/ IsrTimersDone \/ IsrLeave \/ OffDrain \/ OffDrained

Next ==
    \/ Boot
    \/ \E t \in Threads \ {Idle} : Service(t)
    \/ \E t \in Threads : Continue(t)
    \/ IdleLoop
    \/ Interrupt
    \/ Handler

Spec == Init /\ [][Next]_vars

-----------------------------------------------------------------------------
(* Properties *)

\* Every variable has its type.
TypeOK ==
    /\ k \in KernelState
    /\ tm \in TimerState
    /\ cpu \in CpuState
    /\ rem \in [Threads -> Nat]
    /\ err \in [Threads -> Errors]
    /\ pc \in [Threads -> Seq(Labels)]
    /\ tgt \in [Threads -> ThreadOrNull \cup Waits]
    /\ isr \in Seq(IsrLabels)
    /\ lag \in BOOLEAN

\* The thread whose deletion is under way: unlinked, its stat not CLOSE yet.
Closing(u) == \E t \in Threads : tgt[t] = u /\ pc[t] # << >> /\ Head(pc[t]) = "close"

\* The ready table the scheduler reads is exact: bit p of
\* rt_thread_ready_priority_group is set iff list p holds a thread, and list p
\* holds, once each, just the READY threads of current_priority p.  So
\* _scheduler_get_highest_priority_thread never follows an empty list head and
\* no runnable thread is forgotten, whatever order wake-ups, timeouts, priority
\* changes, deletions and preemptions come in.
ReadyTable ==
    /\ k.group = {p \in Prio : k.ready[p] # << >>}
    /\ \A p \in Prio : IsInjective(k.ready[p])
    /\ \A p \in Prio, t \in Threads :
          /\ t \in ToSet(k.ready[p]) => k.stat[t] = "READY" /\ k.prio[t] = p
          /\ k.stat[t] = "READY" /\ k.prio[t] = p /\ ~ Closing(t) => t \in ToSet(k.ready[p])

\* thread->tlist, the one list node of a thread, is in at most one list: a
\* waiter is suspended and in one wait list only, a defunct thread is closed.
\* Linking a node twice would corrupt both lists.
LinkedOnce ==
    /\ \A w \in Waits : IsInjective(k.wait[w])
    /\ IsInjective(k.defunct)
    /\ \A t \in Threads :
          /\ \A w \in Waits : t \in ToSet(k.wait[w]) => k.stat[t] = "SUSPEND"
          /\ \A v, w \in Waits :
                t \in ToSet(k.wait[v]) /\ t \in ToSet(k.wait[w]) => v = w
          /\ t \in ToSet(k.defunct) => k.stat[t] = "CLOSE"
          /\ \A p \in Prio : t \in ToSet(k.ready[p]) => k.stat[t] = "READY"

\* RT_ASSERT in _thread_timeout: a thread whose timer is running is suspended,
\* so a timeout never pulls a thread that was already woken out of its list.
TimeoutFindsSuspended == \A t \in Threads : TimerOn(tm, t) => k.stat[t] = "SUSPEND"

\* Outside handlers the live registers are those of rt_current_thread, and
\* every thread's saved frame is its own, even when one handler reschedules
\* several times (time slice, then one or more timeouts) before trap exit.
ContextIntact ==
    /\ isr = << >> => cpu.exec = k.cur
    /\ isr = << >> => ~ cpu.flag
    /\ \A t \in Threads : k.stat[t] # "NONE" => cpu.saved[t] = t

\* Preemptive priority scheduling: whenever a thread runs its own code with the
\* scheduler unlocked, no READY thread (not being deleted) is more urgent, unless the last call
\* leaves rescheduling to its caller (rt_thread_resume, priority change).
HighestRuns ==
    isr = << >> /\ k.cur # NoThread /\ pc[k.cur] = << >> /\ k.lock = 0 /\ ~ lag
        => /\ k.stat[k.cur] = "RUNNING"
           /\ \A t \in Threads : k.stat[t] = "READY" /\ ~ Closing(t) => k.prio[k.cur] <= k.prio[t]

\* A sleeping thread always has a running timer: no order of the tick handler,
\* preemption and rt_schedule leaves it asleep for ever.
SleeperHasTimer ==
    \A t \in Threads :
        pc[t] # << >> /\ Head(pc[t]) = "slept" /\ k.stat[t] = "SUSPEND"
            => TimerOn(tm, t) \/ \E x \in Threads : tgt[x] = t

\* What idle frees is out of reach: a freed thread is not current, runs on no
\* stack, is in no list, has no timer and is no call's target.
FreedUnused ==
    \A t \in Threads : k.stat[t] = "NONE" =>
        /\ t # k.cur /\ cpu.exec # t /\ ~ TimerOn(tm, t)
        /\ \A x \in Threads : tgt[x] # t
        /\ \A p \in Prio : t \notin ToSet(k.ready[p])
        /\ \A w \in Waits : t \notin ToSet(k.wait[w])
        /\ t \notin ToSet(k.defunct)

\* _ipc_list_resume_all takes list->next without testing the list again: when
\* it gets there a waiter is still in the list.
DrainFindsWaiter ==
    \A t \in Threads : pc[t] # << >> /\ Head(pc[t]) = "drain" => k.wait[tgt[t]] # << >>

\* rt_enter_critical: while the scheduler is locked the current thread stays,
\* whatever the handlers wake up.
LockKeepsThread == [][k.lock # 0 => k'.cur = k.cur]_vars

\* The system boots, the tick goes on, handlers finish, and calls are short against the tick, so
\* a thread on the processor infinitely often gets its pending sections done.
Fairness ==
    /\ WF_vars(BootStart) /\ WF_vars(\E p \in Prio : BootThread(Idle, p))
    /\ WF_vars(Tick)
    /\ WF_vars(Handler)
    /\ \A t \in Threads : SF_vars(Continue(t))

FairSpec == Spec /\ Fairness

\* A sleep or a timed wait ends: the timer's thread leaves the suspended state.
SleepEnds ==
    \A t \in Threads : TimerOn(tm, t) ~> k.stat[t] # "SUSPEND"

\* Round robin (thread.md: a yielding thread goes to the end of the list of its
\* priority): with the most urgent priority shared, each READY thread of it
\* gets the processor.
RoundRobin ==
    \A t \in Threads \ {Idle} :
        k.stat[t] = "READY" /\ (\A u \in Threads : k.stat[u] \in {"READY", "RUNNING"} =>
                                                     k.prio[t] <= k.prio[u])
            ~> k.cur = t

=============================================================================
