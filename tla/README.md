# TLA+ verification of the RT-Thread kernel on the Allwinner D1H

This directory holds a TLA+ development of the kernel that this repository ports
to the Allwinner D1H / D1s (RT-Thread 5.0.2, one T-Head C906 RISC-V core): the
scheduler, the thread life cycle, timers, context switching, the IPC objects (mutex,
semaphore, event set, mailbox, message queue), the soft timers with their timer
thread, and the work queue of the device drivers. The configuration modelled is
`rt-thread/bsp/allwinner/d1s_d1h/rtconfig.h`: single core, 32 priorities, bitmap
scheduler with one level, timer list without skip levels, `RT_USING_SMART`.

Paths below are relative to the repository; `src/` in them is `rt-thread/src/`.

## 1. Inventory

| Component | State | Operations | Hard behaviour |
|---|---|---|---|
| Scheduler (`src/scheduler_up.c`) | ready list per priority, priority group bitmap, current thread, lock nest | `rt_schedule`, insert, remove, enter/exit critical, start | called from threads and, several times, from one handler; preemption deferred while locked |
| Threads (`src/thread.c`) | `stat`, priorities, `number_mask`, one list node `tlist`, `error`, `remaining_tick` | create, startup, yield, sleep, suspend, resume, change priority, delete, detach, exit | sections that re-enable interrupts half-way (delete, resume, sleep) |
| Thread timers and tick (`src/timer.c`, `src/clock.c`) | sorted list of running timers, `rt_tick` | start, stop, check, tick | timeout against wake-up |
| Soft timers (`src/timer.c`) | soft timer list, timeout ticks, ACTIVATED flags, state of the timer thread | start, stop, detach, control, next timeout, check | the timer thread looks, computes and sleeps in separate sections; callbacks call timer functions on their own timer; tick wrap-around |
| Idle (`src/idle.c`) | defunct queue | dequeue and free closed threads | frees objects others may still work on |
| Context switch (`libcpu/risc-v/t-head/c906`) | registers, saved stack frames, `rt_thread_switch_interrupt_flag`, from, to | switch, switch in interrupt, trap entry and exit | the switch of a handler happens at trap exit, after all its `rt_schedule` calls |
| IPC blocking (`src/ipc.c`) | wait list of each object | list suspend, resume, resume all | release against timeout; tear-down with interrupts enabled |
| Mutex (`src/ipc.c`) | owner, hold, inherited priority, ceiling, taken list, pending object | take, release, set ceiling | priority inheritance along chains, with timeouts |
| Semaphore (`src/ipc.c`) | `value`, wait list | take, release, control | a token handed over against the timeout of the waiter |
| Event set (`src/ipc.c`) | `set`, per thread `event_set`, `event_info` | recv, send, control | one send answers and clears for several waiters |
| Mailbox (`src/ipc.c`) | ring, two offsets, `entry`, two wait lists | send, urgent, recv, control | woken calls look again and may wait again; offsets wrap and rewind |
| Message queue (`src/ipc.c`) | node pool, free list, message list, tail, `entry`, two wait lists | send, urgent, recv, control | messages are copied between two disabled sections |
| Work queue (`components/drivers/ipc/workqueue.c`) | work list, delayed list, `work_current`, `work->workqueue`, flags, timers | dowork, submit, urgent, cancel, cancel sync, cancel all | worker, timer thread and callers share a work; timer started outside the section |
| Other driver IPC (`components/drivers/ipc`) | completion, data queue, wait queue, pipes, ring buffers | wait, done, push, pop | same blocking protocol, flags tested outside it |

Everything interacts through three things: the one list node `tlist` of each thread
(ready list, wait list or defunct queue), the word `stat`, and the per-thread
timer. Mutual exclusion is "interrupts off"; a *section* below is a stretch of code
between `rt_hw_interrupt_disable` and `rt_hw_interrupt_enable`. Memory management,
processes (`lwp`, `mm`), file systems, network, shell, libc, drivers and the vendor
HAL are not modelled; `PROJECT.json` says why for each.

## 2. Modules

| Module | Content |
|---|---|
| `Lists` | the kernel's doubly linked lists as sequences |
| `Kernel` | the scheduler state as a record and the functions that transform it within a section; timer list; processor contexts |
| `Sched` | EXTENDS `Kernel`: the whole system of threads, handlers and idle, one action per section; its properties |
| `SchedInv` | EXTENDS `Sched`, `KernelInv`: the inductive invariant |
| `KernelInv` | EXTENDS `Kernel`: when a kernel state is consistent |
| `ListProofs`, `KernelProofs`, `BlockingProofs` | lemmas: the operations on lists, the functions of `Kernel`, the thread layer of `Blocking` |
| `SchedProofs`, `ObjectProofs`, `MutexProofs`, `SoftTimerProofs`, `WorkQueueProofs` | the theorems; `ObjectProofs` has those of the semaphore, the event set, the mailbox and the message queue |
| `SchedRaces` | EXTENDS `Sched`: one usage rule of section 4 lifted |
| `Blocking` | EXTENDS `Kernel`: the same thread layer, coarser, for the IPC objects |
| `Mutex`, `Semaphore`, `Event`, `Mailbox`, `MessageQueue` | EXTEND `Blocking`: one IPC object each |
| `CountingSemaphore`, `BoundedQueue` | abstract specifications: what a semaphore, and what a mailbox or message queue promises |
| `SoftTimer` | the soft timers and the timer thread |
| `WorkQueue` | the work queue, over the behaviour of soft timers |
| `MCSched`, `MCRaces`, `MCMutex`, `MCObjects` | constants and symmetries for TLC; `SoftTimer` and `WorkQueue` are run as they are |

### State and code

`Kernel`'s record `k` keeps the source's fields: `stat`, `yld` (the YIELD bit of
`stat`), `prio` (`current_priority`), `mask` (`number_mask`, as a set of
priorities), `ready`, `group`, `wait` (per IPC object), `defunct`, `cur`
(`rt_current_thread`), `lock`. Lists are sequences. `ListRemove` is
`rt_list_remove`: it takes the node out of whatever list it is in, which is why the
model can express a node linked twice. The three `SUSPEND` kinds differ only for
process signals and are one value.

A step of `Sched` is one section. A call that consists of several keeps the
remaining ones in `pc[t]`, e.g. `rt_thread_sleep` is `<<"eintr", "sched", "slept">>`
after its first section: set `-RT_EINTR` (interrupts already on), `rt_schedule`,
clear the timeout error. `tgt[t]` is the thread or object that call works on. A
handler runs with interrupts off; `isr` holds its remaining parts, so that one tick
is `Tick`, then `IsrSchedule` if the slice is used up, then for each expired timer
`IsrTimeout` and again `IsrSchedule`, then `IsrLeave`, which performs the recorded
context switch. Between `rt_schedule` in the handler and trap exit
`rt_current_thread` and the registers differ; `cpu` tells them apart. The loop of
`_ipc_list_resume_all` inside a disabled section (`rt_sem_control` reset) also uses
`isr`. Timers keep the ticks left, the code the absolute tick; it only ever compares
differences. `lag` is a history variable: rescheduling is left to the caller by
`rt_thread_resume` and by a priority change.

`Blocking` drops what IPC objects cannot see: creation and deletion, the scheduler
lock, durations (a running timer may expire at any time), and the inside of a
handler, which is one step. `Mutex` adds `owner`, `hold`, `mprio`
(`mutex->priority`), `ceil`, `taken`, `pend` (`pending_object`). `Propagate` is one
round of the loop in `_thread_update_priority`, `UpdatePriority` iterates it; a
recursive function of at most `ChainBound` rounds takes the place of the `while`, and
the steps that use it require that the loop has ended. The bound is twice the number
of threads and one: where owners wait for each other in a cycle, a priority may travel
around it twice. TLC finds the same states with and without that requirement.
`TakeWait`, `"sched"` and `TakeReturn` are the three sections of a blocking
`_rt_mutex_take`, and a timeout, a release or another thread's `TakeReturn` may come
between any two. `err` holds `thread->error` only while such a call is in progress:
`_rt_mutex_take` resets it first, and nobody reads what an earlier call left.

**IPC objects.** A waiting call of every object is `WaitOn`: preset `thread->error`,
join the wait list, start the timer, then `rt_schedule`, then the section named after
the wait list, in which the call goes on. `ResumeFirst` and `ResumeAll` are
`_ipc_list_resume` and `_ipc_list_resume_all`, `Wake` the part of `rt_thread_resume`
that stops the timer, with the error word set by its caller. A call with
`RT_WAITING_FOREVER` behaves as one whose timer never expires, and one without a time
to wait that finds its object unavailable changes nothing, so neither needs an action
of its own. A handler's call is one step with its `rt_schedule`. In the mailbox and
the message queue a woken call takes what it was woken for (`...Woken`), waits again
(`...WaitAgain`) or returns (`...GiveUp`); the time it has left is not kept, both
outcomes being possible. `MessageQueue` keeps the nodes, so that a node in use twice
or lost can be expressed: `MqSend` takes a node from the free list, `MqLink` is the
copy and the second section, `MqRecv` unlinks, `MqFree` copies and frees.

**Refinement.** `SemImplements` is the specification `CountingSemaphore` under the
mapping: queue = wait list, outcome of a call = waiting, token or failed as the wait
list and `thread->error` say. `MbImplements` and `MqImplements` are `BoundedQueue`
with the queue computed from the ring and its offsets, or from the linked nodes; a
receiver that has unlinked a message holds it in `hand` until it frees the node. The
abstract specifications are safety properties: `Init /\ [][Next]_vars`.

**Soft timers.** A step of `SoftTimer` is one section of the timer thread
(`NextTimeout`, `SuspendSelf`, `ReadTick`, `Delay`, `SoftTimerCheck`, `CallbackDone`),
a call of the application, possibly made by a callback, or a tick. `tick` and `due`
are words that wrap at `TickMax`, and `Place`, `Due` and `ReadTick` compare
differences with half of it as the code does; the history variable `left` counts the
true time. `now` and `held` are the timer whose callback runs and whether it is still
linked in the local list of `rt_soft_timer_check`.

**Work queue.** `WorkQueue` has a step for each section and for each access to shared
state outside of one: the worker's `work_current = RT_NULL`, the handler's read of
`work->workqueue`, the test of `work_current` in `rt_workqueue_cancel_work_sync`
(`CancelSyncBusy`, `CancelSyncIdle`), which comes before its semaphore
(`CancelSyncTake`) or its section (`CancelSyncSection`), and the assertion and the
section of the `rt_timer_start` after the section of a delayed submission
(`CheckTimer`, `StartTimer`). Any call may come between any two of them. Of `SoftTimer`
it uses that a running timer expires, is then off, and its handler runs in the one
timer thread. A failed `RT_ASSERT`, which this configuration compiles, stops its thread
(`rt_assert_handler` loops): the caller in `CheckTimer`, the timer thread in
`HandlerReads` and `HandlerFails` (`hpc = "failed"`). The scheduler-locked loops of
`_workqueue_work_completion` and `rt_workqueue_cancel_all_work` are one step each.
Three history variables name the windows the properties speak of: `raced`, works whose
delayed submission or handler was under way when a call on them came; `slipped`, the
worker took its work while a call of `rt_workqueue_cancel_work_sync` was between its
test and its section; `late`, callers that saw the work executing and found it done.

## 3. Runs

| Run | Shows |
|---|---|
| `sched_ipc` | idle, one urgent thread and two of one priority yield, sleep, block, wake, lock the scheduler and tear objects down, with tick and device interrupts between any two sections. `TimeoutFindsSuspended` (the assertion in `_thread_timeout`); `ContextIntact`; `HighestRuns`; `SleeperHasTimer`; `DrainFindsWaiter`; `LockKeepsThread` |
| `sched_life` | two threads of any of three priorities, created, started, re-prioritised, suspended, resumed (by threads and handlers), deleted, closed, freed and created again. `ReadyTable`, `LinkedOnce`, `FreedUnused`, types and the inductive invariant |
| `sched_live` | with fairness: `SleepEnds`, and `RoundRobin` for two threads of a priority |
| `mutex` | three threads of distinct priorities, two mutexes, recursion or a ceiling set at any moment, timeouts. `Ownership`, `TakeTellsOwner`, `RestoredWithoutTimeout`, `Inherited`, `WaitersSorted` |
| `objects` | each behaviour uses one object: the semaphore, the mailbox or the message queue with one kind of message (three threads), the event set, the mailbox, the message queue with priorities or with urgent messages (two threads), always with handlers, timeouts and resets. `SemImplements`, `MbImplements`, `MqImplements`; `EvNoneLeft`, `EvTold`, `EvConsumed`; `MbNoLostWakeup`, `MqNoLostWakeup`; `NodesConserved` |
| `soft_timer` | a one-shot and a periodic timer, a 3-bit tick. `SoftSorted`, `ArmedIfWanted`, `NotEarly`, `OnlyRacedMissed`, and with fairness `Expires` |
| `work_queue` | two works, one of them also submitted with a delay, and two callers of `rt_workqueue_cancel_work_sync`; everything may be cancelled at any moment. `WorkerAwake`, `CancelHolds`, `TimerAssertions`, and with fairness `WorkExecuted`, `CancelSyncReturns` |
| `round_robin3` | *violation*: `RoundRobin` fails for three threads of a priority |
| `race_delete` | *violation*: `ClosedOffReadyTable` fails when a sleeping thread is deleted |
| `mutex_leak` | *violation*: `PriorityRestored` fails once waits time out |
| `soft_timer_lost` | *violation*: `SuspendedWithoutTimer` fails |
| `work_assert` | *violation*: the assertion of the timeout handler, `HandlerHasQueue`, fails |

The violations are disagreements between the code and its own comments, assertions or
manual; `PROJECT.json` quotes both sides under "findings".

- **Round robin.** `rt_schedule` clears the YIELD bit before
  `rt_schedule_insert_thread` looks at it, so the thread goes to the *head* of its
  list. Two threads alternate as they should; of three, one starves.
- **Priority leak.** c owns m2, b owns m1 and waits for m2 with a timeout, so c is
  raised to b's priority. b times out; before b runs again a asks for m1 and raises
  b. b's tail finds `owner->current_priority != thread->current_priority`, concludes
  that c owes it nothing, and resets `mutex->priority`. When c releases m2,
  `current_priority == mutex->priority` is false as well, and c keeps b's priority
  without holding anything.
- **Lost soft timer.** The timer thread finds its list empty; a timer is started,
  which sees the timer thread not suspended; the timer thread suspends itself without
  a timeout. Nothing happens until another timer is started. `OnlyRacedMissed` and
  `Expires` show that this window, and the like one before a sleep, are the only ways
  in which a timer is missed.
- **Delayed work submitted again.** `rt_workqueue_dowork` on a work that waits for its
  delay leaves its timer running. The worker takes the work and clears
  `work->workqueue`; then the timer expires and the handler's `RT_ASSERT` fails.

Five more disagreements are reachable in the models and have no run:
`rt_workqueue_cancel_work_sync` returns `RT_EOK` while the work executes, if the worker
took it between the test (workqueue.c:397) and the section (404) of the call, against
the comment at 384, "If the work item is executing, this function will block until it
is done" (`slipped`); a cancellation that overtakes `rt_timer_start` (workqueue.c:141)
or the timeout handler (176) makes an assertion of `rt_timer_start`, of the handler or
of `rt_timer_detach` fail (`raced`); an owner that
gets a mutex by hand-over is not raised to its ceiling (`ReleaseLast`); a sleep whose
timeout comes before its `thread->error = -RT_EINTR` leaves that error behind
(`DoEintr`); an urgent message keeps the priority left in its node and is overtaken
by a later message of a larger one (`LinkUrgent`), which is why `objects` sends urgent
and prioritised messages in different behaviours.

### Bounds

Three threads besides idle are the least with which a chain of owners, a preempted
preemption and a starving third thread occur; one IPC object suffices for `Sched`
because its actions never relate two, and two mutexes make a chain and a cycle.
`MaxTime` 1 or 2 ticks lets timers expire together and apart; the slices 1 and 2
make a slice end with and without a timeout in the same tick. `MaxLock` 1 gives
locked and unlocked. `MaxHold` 2 stands for 255, a ceiling of 1 lies between the
priorities in use; `NestedOrCeiling` in `MCMutex` leaves out behaviours that have both
recursion and a ceiling, two mutexes held twice, or two ceilings, as neither a nested
take nor a nested release looks at a priority. `Ops` selects the services in use, so that each
run of `Sched` spends its states on one question.

In `objects` a semaphore of at most 2 tokens is empty, in between and full; a ring of
2 slots wraps with one word in it; 3 nodes let one be linked, one copied and one free;
2 threads besides idle and handlers make both sides of a queue wait, are preempted by
each other between sections, and let a faster thread steal what another was woken for;
with 3 threads two senders wait for one receiver, for which messages need not differ.
Two waiters of one event set with two events have each a request the other's CLEAR
can spoil.

In `soft_timer` the tick has 8 values, half of which is a time in the future; times of
1 and 2 ticks make timers expire together, apart and across the wrap-around. `MaxLate`
bounds how overdue a timer gets, i.e. how long callbacks and more urgent threads keep
the timer thread away, `MaxSlip` how many ticks pass between its look at the list and
its sleep. `SoftTimerAssumption` relates them to the tick's range: the comment "the
new tick shall less than the half duration of tick max" in numbers. `MaxLate` is at
least `MaxTime + MaxSlip - 1`, so that the bound never stops the clock while the
timer thread sleeps. In `work_queue` two works are enough for one to execute, wait or
be cancelled while the other does, two callers to see one left waiting. `Delayed`, the
works that are submitted with a delay, has one member: there is one timer thread, and
the steps of a delayed submission and of a handler look at no other delayed work.

Symmetry is used for threads of equal priority, mutexes, messages, events and nodes,
never with liveness: the refinements and `EvConsumed` are safety properties.

### Fairness

`Sched`: the machine boots, the tick interrupt goes on (a hardware timer), a handler
finishes (it runs with interrupts off and has no loop that waits), and kernel calls
are short against the tick: a thread that is on the processor again and again gets the
pending section of its call done (strong fairness, as it may be preempted in between).
`SoftTimer`: the tick goes on, the timer thread gets the processor
(`RT_TIMER_THREAD_PRIO` is 4 in this configuration; more urgent threads have to leave
it some time) and callbacks return. `WorkQueue`: the worker, the timer thread and the
callers get the processor, work functions return, and a timer that is started again
and again expires some time: strong fairness of `TimerExpires`, the like of `Expires`
in `SoftTimer` without the window of `soft_timer_lost`. Nothing else is assumed about
application code; `WorkExecuted` excepts works that are urgent or submitted again for
ever, `Expires` timers that are started again for ever.

## 4. Usage rules

The models cover applications that keep these rules. The code checks none of them
unless said otherwise.

- No two calls work on the same thread at the same time, nor on a thread that is
  itself half-way through such a call (`NotTarget`, `Undisturbed`).
  `rt_thread_resume` re-enables interrupts between unlinking the thread and
  inserting it; a second resume in that window links it twice.
- A thread is not deleted while its timer runs (`Delete`, `ControlClose`). Lifted in
  `race_delete`: a closed thread stays in the ready list.
- An object is not detached or deleted while a thread waits on it with a timeout
  (`WakeAll`), nor used meanwhile (`Draining`): `_ipc_list_resume_all` tests the list
  before it disables interrupts, and when the last waiter times out in between, the
  list head passes for a thread (`DrainFindsWaiter` fails).
- No blocking with the scheduler locked (`MayBlock`; the code asserts it in
  `RT_DEBUG_SCHEDULER_AVAILABLE`), and idle never blocks.
- The priority of idle and of closed threads is not changed.
- The message pool given to `rt_mq_init` is zeroed (static), so that the priority of
  an urgent message is at first 0.
- A timer's mode is not changed by its own callback, and its time is positive and less
  than half the tick's range (asserted).
- A work has one delayed submission under way at a time, and is not submitted with a
  delay while a timer runs that was started after a cancellation had detached it: the
  code would initialise a linked timer (`SubmitDelayed`). Cancellations and other
  submissions are free to come at any moment.
- A work that waits for its delay is not submitted without one (`Once`). Lifted in
  `work_assert`.

## 5. Proofs

TLAPS checks every theorem for every value of the constants: any number of threads,
priorities, IPC objects, mutexes, nodes, slots, events, timers and works, any slice,
bound and choice of `Ops`, `Delayed` or `Once`. Every safety property of the passing runs is
stated by a theorem, the three refinements and the action properties among them.

| Module | Theorem: property |
|---|---|
| `SchedProofs` | `Invariance`: `IndInv`; `TypeCorrect`: `TypeOK`; `ReadyTableExact`: `ReadyTable`; `LinkedOnceAlways`: `LinkedOnce`; `TimeoutSound`: `TimeoutFindsSuspended`; `ContextSound`: `ContextIntact`; `FreedSound`: `FreedUnused`; `LockSound`: `LockKeepsThread`; `HighestSound`: `HighestRuns`; `SleeperSound`: `SleeperHasTimer`; `DrainSound`: `DrainFindsWaiter` |
| `ObjectProofs` | `SemRefinement`: `SemImplements`; `EvNobodyLeft`: `EvNoneLeft`; `EvNothingLost`: `EvConsumed`; `EvAnswersHold`: `EvTold`; `MbRefinement`: `MbImplements`; `MbWakesAll`: `MbNoLostWakeup`; `MqConserves`: `NodesConserved`; `MqRefinement`: `MqImplements`; `MqWakesAll`: `MqNoLostWakeup` |
| `MutexProofs` | `MutexTypeCorrect`: `TypeOK`; `OwnershipSound`: `Ownership`; `TakeSound`: `TakeTellsOwner`; `SortedSound`: `WaitersSorted`; `InheritedSound`: `Inherited`; `RestoredSound`: `RestoredWithoutTimeout` |
| `SoftTimerProofs` | `TypeCorrect`: `TypeOK`; `ListInOrder`: `SoftSorted`; `ArmedOnce`: `ArmedIfWanted`; `OversleepsOnlyRaced`: `OnlyRacedMissed`; `CallbacksNotEarly`: `NotEarly` |
| `WorkQueueProofs` | `TypeCorrect`: `TypeOK`; `NoSleepOverWork`: `WorkerAwake`; `CancelSound`: `CancelHolds`; `AssertionsSound`: `TimerAssertions` (if `Once`) |

### Assumptions

Those of the modules. `Kernel`: idle is a thread, `RT_NULL` is not, there is a
priority. `Sched`: every slice is positive (`rt_thread_create` with tick 0 would wrap
`remaining_tick`), IPC objects are not threads. `Blocking`: finitely many threads, each
with a priority. `Mutex`: wait lists are in order of priority (`rt_mutex_init` ignores
the FIFO flag), `MaxHold` is positive, a ceiling is a priority. `Event`: there is an
event. `Semaphore`, `Mailbox`, `MessageQueue`: sizes are positive, the pool is finite,
and the two wait lists of a queue differ and are of the same kind. `SoftTimer`: times
and delays are so small that a difference of ticks tells past from future (section 3,
bounds). Names given to sections, nodes and objects are distinct.

### The arguments

None of the invariants is inductive. What each component needs:

**Scheduler** (`IndInv`). `ReadyTable` depends on how the lists stand in the middle of
a call, so `IndInv` relates four things:

- `KernelOK(k, X)`: the group is exact, and leaving the threads of X aside, every
  list holds just the threads whose `stat` (and priority) says so. X is `InTransit`,
  the threads another thread's call has unlinked and not yet relinked.
- `CurrentInv`: only the current thread is RUNNING, and if it is not, it is about to
  call `rt_schedule` with the scheduler unlocked; idle is always READY or RUNNING, so
  that a ready list is never looked for in vain.
- `TargetInv`: what a pending section may assume of the thread it works on; targets
  are distinct, and idle is never one.
- `TimerInv`, `CpuInv`, `SliceInv`, `Shapes`: running timers belong to suspended
  threads nobody works on; the saved contexts; positive slices; which sequences of
  sections occur.

`LaterInv` adds what the last three theorems need: `SleepInv` (from the moment a
sleeper is suspended it has a timer, or the call that stopped the timer has yet to
finish with it), `TearDownInv` (one call tears an object down at a time, and none of
the waiters it walks has a timer) and `UrgentInv` (the current thread is the most urgent
in between the sections of calls and handlers as well, unless a call to `rt_schedule` is
still to come). `KernelProofs` shows once for each function of `Kernel` how it moves
`KernelOK(k, X)`: insertion takes a thread out of X, unlinking puts it in, a switch
preserves it. `SchedProofs` has one lemma per action that combines these with the other
conjuncts. `LockSound` rests on the same invariant: only `rt_schedule` changes the
current thread once the system runs, and it does nothing while the lock is held. TLC
checks `IndInv` in `sched_life`.

**Thread layer of the objects** (`BlockOK`). Between sections nobody is in transit; the
suspended threads are those with a running timer, each in the wait list its call names;
the current thread runs, or is suspended and about to call `rt_schedule`.
`BlockingProofs` has one lemma for each operation the objects use, with what it does to
wait lists, errors and pending calls.

**Semaphore, event set, mailbox.** `SemInv` adds to `BlockInv` that `value` keeps its
range and that priorities stay as they were, so that joining the wait list by current
priority is the abstract `Enter`; every step is then a step or a stutter of
`CountingSemaphore`. `EvInv` says that a waiter's `event_set` is what it asked for and
that the events set do not meet it; clearing events can only make requests harder to meet
(`MetMonotone`), so one send that clears for some waiters leaves nobody behind. `RingInv`
says that the `in` offset is `entry` slots after the `out` offset, modulo the size, and
that the slots between hold words: that makes the mapped queue well defined in an empty, a
full and a wrapped ring.

**Message queue** (`MqInv`). `PcInv`: which sections a call may be in. `NodeInv`: each
node is free, linked, or held by exactly one call between its two sections. `EndInv`:
the tail is the last linked node and `entry` the number of linked ones. `LetterInv`: a
call that sends has a message. A message enters the abstract queue when its node is linked
in the second section of a send, and the node held meanwhile is what gives it room;
it leaves when the first section of a receive unlinks it. `MqNoLostWakeup` is inductive
beside `MqInv` and `BlockInv`.

**Mutex.** `MutexInv` says of each call that has gone to wait that it is still waiting,
has been made the owner, or has timed out (`Stage`; the error word tells the last two
apart), and that `taken_list`, `owner` and `hold` agree (`OwnerInv`). `PrioInv` has the
priorities: `InOrder`, every wait list is in the order of the waiters' current
priorities; `Reported`, `mutex->priority` is at least as urgent as every waiter;
`Raised`, an owner is at least as urgent as its mutexes say; `Claimed`, as long as no
wait has timed out, a priority is the thread's own or one of its mutexes gives it. In
the middle of `_thread_update_priority` all four hold except for the one thread whose
priority was changed last, and each round passes that exception on along the chain;
`LoopInduction` turns this into a fact about the whole loop, by the least round at
which it would fail. `Claimed` is what `mutex_leak` shows to be lost after a timeout;
the other three survive it.

**Soft timers** (`IInv` of `SoftTimerProofs`). `DueInv`: the word `timeout_tick` is the
true time left added to the tick, modulo the range, for every linked timer, from which
the code's comparisons of wrapped differences are correct; `WantedInv`, `HeldInv`:
what is linked, and that the timer whose callback runs may be linked in the local list;
`LookInv`, `ThreadInv`: what the timer thread's last look at the list is still worth.

**Work queue** (`IInv` of `WorkQueueProofs`). `WorkerInv`: `work_current` and the
worker's place agree, and it does not sleep over work. `TimerInv`: just the timers of
submitted works are initialised objects, and a timer that runs, is to be started or has
its handler running belongs to submitted work or to work that was overtaken (`raced`).
`CancelInv`: cancelled work is not submitted, so that the handler, which links work only
after it has detached its timer, cannot bring it back; a call of
`rt_workqueue_cancel_work_sync` before its section meets its work executing only if the
worker slipped in. These hold for any application. `OnceInv`, that submitted work is in
the delayed list, where the worker cannot take it, and that only the handler of
overtaken work meets an assertion, holds if `Once`.

### Only model-checked

`SleepEnds`, `RoundRobin`, `Expires`, `WorkExecuted`, `CancelSyncReturns`: liveness
under fairness is out of the prover's reach. That the loop of `_thread_update_priority`
ends within `ChainBound` rounds is a condition of the steps in `Mutex`; TLC confirms
that it excludes nothing with three threads and two mutexes, cycles included.

## 6. Not modelled

`rt_mutex_detach`, `rt_mutex_delete` and the deletion of threads that own or wait for
mutexes: what goes wrong there is the use of freed memory, which needs a model of
object memory. Detach and delete of the other objects: the draining of their waiters
is in `Sched`, the rest frees memory. `rt_workqueue_destroy`, likewise.
`rt_timer_control` other than setting the time. Signals (`src/signal.c`): they rewrite
the saved context of their target, below the abstraction of contexts in `Kernel`.
Completion, data queue, wait queue and pipes. The SMP scheduler is not compiled for
this single-core chip. Memory management, kernel object names, processes, file systems,
network, shell, libc, drivers and the vendor HAL: third-party or pure I/O, see
`PROJECT.json`.

## 7. Plan

Done: all modules of section 2 and the proofs of section 5. Next, in this order:

1. Proof that the loop of `_thread_update_priority` ends for any number of threads, so
   that the bound can go.
2. Models: completion and data queue from `components/drivers/ipc`; mutex tear-down
   with a model of freed objects.
