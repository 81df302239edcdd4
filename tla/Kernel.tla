------------------------------- MODULE Kernel -------------------------------
(***************************************************************************)
(* The scheduler state of the RT-Thread kernel (single core,               *)
(* scheduler_up.c) and the functions that transform it inside one          *)
(* interrupts-disabled section.                                            *)
(*                                                                         *)
(* A kernel state is a record k:                                           *)
(*   stat     thread->stat & RT_THREAD_STAT_MASK ("NONE": no such object;  *)
(*            the three SUSPEND kinds differ only for process signals)     *)
(*   yld      the RT_THREAD_STAT_YIELD bit of thread->stat                 *)
(*   prio     thread->current_priority                                     *)
(*   mask     thread->number_mask, as the set of the priorities whose bit  *)
(*            is set ({} before the thread is started)                     *)
(*   ready    rt_thread_priority_table, the ready list of each priority    *)
(*   group    rt_thread_ready_priority_group, as a set of priorities       *)
(*   wait     the suspend_thread list of each IPC object                   *)
(*   defunct  _rt_thread_defunct, the closed threads idle will free        *)
(*   cur      rt_current_thread (NoThread before the scheduler starts)     *)
(*   lock     rt_scheduler_lock_nest                                       *)
(* A thread is linked in a list through its one node thread->tlist; a list *)
(* is the sequence of its threads, head first.                             *)
(***************************************************************************)
EXTENDS Lists

CONSTANTS
    Threads,    \* thread control blocks
    Idle,       \* the idle thread
    NoThread,   \* RT_NULL
    NPrio,      \* RT_THREAD_PRIORITY_MAX
    Waits,      \* IPC objects threads can wait on
    PrioWaits   \* those of them created with RT_IPC_FLAG_PRIO (the others: FIFO)

Prio == 0 .. NPrio - 1

ASSUME ThreadsAssumption == Idle \in Threads /\ NoThread \notin Threads
ASSUME PrioAssumption    == NPrio \in Nat \ {0}
ASSUME WaitsAssumption   == PrioWaits \subseteq Waits

Stats == {"NONE", "INIT", "CLOSE", "READY", "RUNNING", "SUSPEND"}

KernelState ==
    [ stat : [Threads -> Stats], yld : [Threads -> BOOLEAN],
      prio : [Threads -> Prio],  mask : [Threads -> SUBSET Prio],
      ready : [Prio -> Seq(Threads)], group : SUBSET Prio,
      wait : [Waits -> Seq(Threads)], defunct : Seq(Threads),
      cur : Threads \cup {NoThread}, lock : Nat ]

-----------------------------------------------------------------------------

\* rt_list_remove(&thread->tlist): the node leaves the list it is linked in.
ListRemove(k, t) ==
    [k EXCEPT !.ready   = [p \in Prio |-> Unlinked(k.ready[p], t)],
              !.wait    = [w \in Waits |-> Unlinked(k.wait[w], t)],
              !.defunct = Unlinked(k.defunct, t)]

-----------------------------------------------------------------------------
(* scheduler_up.c *)

\* A thread object that does not exist yet, or has been freed.
KernelInit ==
    [ stat |-> [t \in Threads |-> "NONE"], yld |-> [t \in Threads |-> FALSE],
      prio |-> [t \in Threads |-> 0], mask |-> [t \in Threads |-> {}],
      ready |-> [p \in Prio |-> << >>], group |-> {},
      wait |-> [w \in Waits |-> << >>], defunct |-> << >>,
      cur |-> NoThread, lock |-> 0 ]

\* Mutant: the last bit set is taken for the first.
HighestReadyPriorityLast(k) == Max(k.group)

HighestReadyPriority(k) == Min(k.group)

\* Mutant: the priority group is not updated.
InsertThreadNoGroup(k, t) ==
    IF t = k.cur
    THEN [k EXCEPT !.stat[t] = "RUNNING"]
    ELSE [k EXCEPT !.stat[t] = "READY",
                   !.ready[k.prio[t]] = IF k.yld[t] THEN Append(@, t) ELSE <<t>> \o @]

InsertThread(k, t) ==
    IF t = k.cur
    THEN [k EXCEPT !.stat[t] = "RUNNING"]
    ELSE [k EXCEPT !.stat[t] = "READY",
                   !.ready[k.prio[t]] = IF k.yld[t] THEN Append(@, t) ELSE <<t>> \o @,
                   !.group = @ \cup k.mask[t]]

\* Mutant: the bit of an emptied list stays set.
RemoveThreadKeepsGroup(k, t) == ListRemove(k, t)

RemoveThread(k, t) ==
    LET u == ListRemove(k, t)
    IN  [u EXCEPT !.group = IF u.ready[k.prio[t]] = << >> THEN @ \ k.mask[t] ELSE @]

\* rt_system_scheduler_start
SchedulerStart(k) ==
    LET to == Head(k.ready[HighestReadyPriority(k)])
    IN  [RemoveThread([k EXCEPT !.cur = to], to) EXCEPT !.stat[to] = "RUNNING",
                                                        !.yld[to] = FALSE]

\* Mutant: the end of the time slice is ignored.
KeepsProcessorNoYield(k) ==
    /\ k.stat[k.cur] = "RUNNING"
    /\ k.prio[k.cur] <= HighestReadyPriority(k)

\* The current thread keeps the processor: nothing ready is more urgent, and
\* nothing as urgent unless the current thread has used up its time slice.
KeepsProcessor(k) ==
    /\ k.stat[k.cur] = "RUNNING"
    /\ \/ k.prio[k.cur] < HighestReadyPriority(k)
       \/ k.prio[k.cur] = HighestReadyPriority(k) /\ ~ k.yld[k.cur]

\* rt_schedule with from = k.cur leaving the processor to the head of the most
\* urgent ready list.  The YIELD bit is cleared before from is inserted.
SwitchThread(k) ==
    LET from    == k.cur
        to      == Head(k.ready[HighestReadyPriority(k)])
        running == k.stat[from] = "RUNNING"
        chosen  == [k EXCEPT !.cur = to, !.yld[from] = @ /\ ~ running]
        queued  == IF running THEN InsertThread(chosen, from) ELSE chosen
    IN  [RemoveThread(queued, to) EXCEPT !.stat[to] = "RUNNING"]

KeepThread(k) ==
    [RemoveThread([k EXCEPT !.yld[k.cur] = FALSE], k.cur) EXCEPT !.stat[k.cur] = "RUNNING"]

\* Mutant: the scheduler lock is not tested.
ScheduleNoLock(k) ==
    IF k.group = {}           THEN k
    ELSE IF KeepsProcessor(k) THEN KeepThread(k)
    ELSE                           SwitchThread(k)

\* rt_schedule: no effect while the scheduler is locked or nothing is ready.
Schedule(k) ==
    IF k.lock # 0 \/ k.group = {} THEN k
    ELSE IF KeepsProcessor(k)     THEN KeepThread(k)
    ELSE                               SwitchThread(k)

-----------------------------------------------------------------------------
(* thread.c *)

\* _thread_init on a fresh object.
ThreadInit(k, t, p) ==
    [k EXCEPT !.stat[t] = "INIT", !.yld[t] = FALSE, !.prio[t] = p, !.mask[t] = {}]

\* The scheduler part of rt_thread_suspend_with_flag, for the current thread.
Suspend(k, t) == [RemoveThread(k, t) EXCEPT !.stat[t] = "SUSPEND"]

\* Mutant: the thread stays linked in the list it waits in.
ResumeStillLinked(k, t) == InsertThread(k, t)

\* The scheduler part of rt_thread_resume called with interrupts disabled, and
\* of _thread_timeout.
Resume(k, t) == InsertThread(ListRemove(k, t), t)

\* Mutant: number_mask is set after the thread is back in the ready list.
ChangePriorityLateMask(k, t, p) ==
    IF k.stat[t] = "READY"
    THEN [InsertThread([RemoveThread(k, t) EXCEPT !.prio[t] = p], t) EXCEPT !.mask[t] = {p}]
    ELSE [k EXCEPT !.prio[t] = p, !.mask[t] = {p}]

\* rt_thread_control(t, RT_THREAD_CTRL_CHANGE_PRIORITY, p)
ChangePriority(k, t, p) ==
    LET changed(x) == [x EXCEPT !.prio[t] = p, !.mask[t] = {p}]
    IN  IF k.stat[t] = "READY"
        THEN InsertThread(changed(RemoveThread(k, t)), t)
        ELSE changed(k)

\* RT_THREAD_CLOSE and rt_thread_defunct_enqueue; the assignment to stat also
\* clears the YIELD bit.
Close(k, t) ==
    [k EXCEPT !.stat[t] = "CLOSE", !.yld[t] = FALSE, !.defunct = <<t>> \o @]

-----------------------------------------------------------------------------
(* ipc.c *)

\* _ipc_list_suspend: the current thread t suspends and joins the wait list of
\* w, behind every thread at least as urgent if w is ordered by priority.
IpcListSuspend(k, t, w) ==
    LET s == Suspend(k, t)
        lessUrgent == IF w \in PrioWaits
                      THEN {i \in DOMAIN s.wait[w] : s.prio[t] < s.prio[s.wait[w][i]]}
                      ELSE {}
    IN  [s EXCEPT !.wait[w] = InsertBeforeFirst(@, lessUrgent, t)]

-----------------------------------------------------------------------------
(* timer.c, for the one-shot timer embedded in every thread.  A timer state   *)
(* is a record tm: list is _timer_list, left[t] the ticks until t's timer is  *)
(* due.  The code keeps the absolute timeout_tick and compares only           *)
(* differences of ticks.                                                      *)

TimerState == [list : Seq(Threads), left : [Threads -> Int]]

TimerInit == [list |-> << >>, left |-> [t \in Threads |-> 0]]

TimerOn(tm, t) == t \in ToSet(tm.list)

\* rt_timer_stop and rt_timer_detach
TimerStop(tm, t) ==
    [list |-> Unlinked(tm.list, t), left |-> [tm.left EXCEPT ![t] = 0]]

\* RT_TIMER_CTRL_SET_TIME and rt_timer_start: a timer due at the same tick as
\* others goes behind them.
TimerStart(tm, t, n) ==
    LET s == TimerStop(tm, t)
    IN  [list |-> InsertBeforeFirst(s.list, {i \in DOMAIN s.list : n < s.left[s.list[i]]}, t),
         left |-> [s.left EXCEPT ![t] = n]]

\* ++rt_tick, as the running timers see it.
TimerTick(tm) ==
    [tm EXCEPT !.left = [t \in Threads |-> IF TimerOn(tm, t) THEN tm.left[t] - 1
                                                             ELSE tm.left[t]]]

\* rt_timer_check finds the first timer due.
TimerDue(tm) == tm.list # << >> /\ tm.left[Head(tm.list)] <= 0

-----------------------------------------------------------------------------
(* The processor: exec is the thread whose registers are live, saved[t] the   *)
(* one whose registers the stack frame at t's saved sp holds; flag, from, to  *)
(* are rt_thread_switch_interrupt_flag, rt_interrupt_from_thread and          *)
(* rt_interrupt_to_thread.                                                    *)

ThreadOrNull == Threads \cup {NoThread}

CpuState ==
    [exec : ThreadOrNull, saved : [Threads -> ThreadOrNull],
     flag : BOOLEAN, from : ThreadOrNull, to : ThreadOrNull]

CpuInit ==
    [exec |-> NoThread, saved |-> [t \in Threads |-> NoThread],
     flag |-> FALSE, from |-> NoThread, to |-> NoThread]

\* rt_hw_stack_init: the new thread's entry frame on its own stack.
StackInit(c, t) == [c EXCEPT !.saved[t] = t]

ContextSwitchTo(c, to) == [c EXCEPT !.exec = c.saved[to]]

ContextSwitch(c, from, to) ==
    [c EXCEPT !.saved[from] = c.exec, !.exec = c.saved[to]]

\* Mutant: a second switch in one handler overwrites the interrupted thread.
ContextSwitchInterruptLast(c, from, to) ==
    [c EXCEPT !.from = from, !.to = to, !.flag = TRUE]

\* Inside a handler the switch is only recorded.
ContextSwitchInterrupt(c, from, to) ==
    [c EXCEPT !.from = IF c.flag THEN @ ELSE from, !.to = to, !.flag = TRUE]

\* The end of trap_entry: the interrupted context is stored in the thread that
\* was interrupted and the last thread chosen is loaded.
TrapExit(c) ==
    IF c.flag
    THEN LET stored == [c.saved EXCEPT ![c.from] = c.exec]
         IN  [exec |-> stored[c.to], saved |-> stored,
              flag |-> FALSE, from |-> NoThread, to |-> NoThread]
    ELSE c

=============================================================================
