------------------------------ MODULE WorkQueue -----------------------------
(***************************************************************************)
(* A work queue of components/drivers/ipc/workqueue.c: its worker thread,  *)
(* the handler of the soft timers of delayed work, which runs in the timer *)
(* thread, and threads and handlers that submit and cancel work.  A step   *)
(* is one interrupts-disabled section, or one access to shared state       *)
(* outside of them.  RT_WORK_STATE_PENDING, which no code reads, is left   *)
(* out.  Module SoftTimer is seen through what the work queue uses of it:  *)
(* a timer that is on may expire at any time, after which it is off and    *)
(* its handler starts.  The configuration compiles RT_ASSERT, whose failure *)
(* stops the thread that meets it; the others go on in the model.          *)
(***************************************************************************)
EXTENDS Lists

CONSTANTS
    Works,      \* work items
    Delayed,    \* the works that are submitted with a delay
    NoWork,     \* RT_NULL
    Callers,    \* threads that call rt_workqueue_cancel_work_sync
    Once        \* work that waits for its delay is not submitted without one

ASSUME WorkAssumption == NoWork \notin Works /\ Delayed \subseteq Works /\ Once \in BOOLEAN

VARIABLES
    workList,       \* queue->work_list
    delayedList,    \* queue->delayed_list, as a set: only cancel_all_work walks it
    current,        \* queue->work_current
    bound,          \* works whose work->workqueue is the queue, not RT_NULL
    submitting,     \* works with RT_WORK_STATE_SUBMITTING
    timerOn,        \* works whose timer runs
    timerInit,      \* works whose timer is an initialised object
    checking,       \* works submitted with a delay, before the assertion of
                    \* rt_timer_start
    starting,       \* the same between that assertion and its disabled section
    wpc,            \* the worker: "loop", "exec" a work function, "done", "ack"
    asleep,         \* the worker has suspended itself
    handler,        \* the work whose timer handler runs
    hpc,            \* "read" or "section" of the handler, "failed" at an assertion
    cpc,            \* calls of cancel_work_sync: "none", "cancel", "take", "wait"
    target,         \* the work that a call in "cancel" has seen not executing
    cancelled,      \* history: works cancelled with RT_EOK and not submitted since
    raced,          \* history: works whose delayed submission or handler under way
                    \* was overtaken by a call on the work
    slipped,        \* history: the worker has taken its work from under a call in "cancel"
    late            \* history: callers that saw the work executing and found it done

lists  == <<workList, delayedList>>
starts == <<checking, starting>>
timers == <<submitting, timerOn, timerInit, starts>>
worker == <<current, wpc, asleep, slipped>>
calls  == <<cpc, target, late>>
vars   == <<lists, bound, timers, worker, handler, hpc, calls, cancelled, raced>>

\* work->list is one node: it is linked once or not at all.
TypeOK ==
    /\ workList \in Seq(Works) /\ IsInjective(workList)
    /\ delayedList \subseteq Works \ ToSet(workList)
    /\ current \in Works \cup {NoWork} /\ bound \subseteq Works
    /\ submitting \subseteq Works /\ timerOn \subseteq Works
    /\ timerInit \subseteq Works /\ checking \subseteq Works /\ starting \subseteq Works
    /\ wpc \in {"loop", "exec", "done", "ack"} /\ asleep \in BOOLEAN
    /\ handler \in Works \cup {NoWork} /\ hpc \in {"read", "section", "failed"}
    /\ cpc \in [Callers -> {"none", "cancel", "take", "wait"}]
    /\ target \in [Callers -> Works \cup {NoWork}]
    /\ cancelled \subseteq Works /\ raced \subseteq Works
    /\ slipped \in BOOLEAN /\ late \subseteq Callers

\* rt_work_init of every work, and rt_workqueue_create.
Init ==
    /\ workList = << >> /\ delayedList = {}
    /\ current = NoWork /\ wpc = "loop" /\ asleep = FALSE
    /\ bound = {} /\ submitting = {} /\ timerOn = {} /\ timerInit = {}
    /\ checking = {} /\ starting = {}
    /\ handler = NoWork /\ hpc = "read"
    /\ cpc = [c \in Callers |-> "none"] /\ target = [c \in Callers |-> NoWork]
    /\ cancelled = {} /\ raced = {} /\ slipped = FALSE /\ late = {}

-----------------------------------------------------------------------------
(* Parts of the calls *)

\* Mutant: the node is linked without being unlinked.
StillLinked(s, w) == s

\* rt_list_remove(&(work->list))
Without(s, w) == Unlinked(s, w)

\* The caller resumes the worker: not when it is a work function that waits.
Wakes == current = NoWork /\ asleep

\* work->list is linked in the work list, now s, and the worker resumed.
Queue(w, s) ==
    /\ workList' = s
    /\ delayedList' = delayedList \ {w}
    /\ asleep' = (asleep /\ ~ Wakes)
    /\ UNCHANGED <<current, wpc, slipped>>

\* Usage rule: work that waits for its delay is not submitted without one.
CarefulSubmit(w) == Once => w \notin submitting

\* Works with a delayed submission or a timeout handler under way.
UnderWay == checking \cup starting \cup {handler}

-----------------------------------------------------------------------------
(* The application *)

\* rt_workqueue_dowork, and rt_workqueue_submit_work without a delay.
Submit(w) ==
    /\ CarefulSubmit(w)
    /\ Queue(w, Append(Without(workList, w), w))
    /\ bound' = bound \cup {w}
    /\ cancelled' = cancelled \ {w}
    /\ UNCHANGED <<timers, handler, hpc, calls, raced>>

\* rt_workqueue_urgent_work; it leaves work->workqueue as it is.
Urgent(w) ==
    /\ CarefulSubmit(w)
    /\ Queue(w, <<w>> \o Without(workList, w))
    /\ cancelled' = cancelled \ {w}
    /\ UNCHANGED <<bound, timers, handler, hpc, calls, raced>>

\* Mutant: work->workqueue is not set.
SubmitDelayedUnbound(w) ==
    /\ w \in Delayed
    /\ w \notin checking \cup starting /\ (w \in timerOn => w \in submitting)
    /\ workList' = Without(workList, w)
    /\ delayedList' = delayedList \cup {w}
    /\ timerOn' = timerOn \ {w}
    /\ timerInit' = timerInit \cup {w}
    /\ submitting' = submitting \cup {w}
    /\ checking' = checking \cup {w}
    /\ cancelled' = cancelled \ {w}
    /\ raced' = raced \cup ({w} \cap UnderWay)
    /\ UNCHANGED <<bound, starting, worker, handler, hpc, calls>>

\* rt_workqueue_submit_work with a delay: the disabled section.  A work has one
\* delayed submission under way at a time, and a timer that was started after a
\* cancellation had detached it is not initialised while it runs.
SubmitDelayed(w) ==
    /\ w \in Delayed
    /\ w \notin checking \cup starting /\ (w \in timerOn => w \in submitting)
    /\ workList' = Without(workList, w)
    /\ delayedList' = delayedList \cup {w}
    /\ timerOn' = timerOn \ {w}
    /\ timerInit' = timerInit \cup {w}
    /\ submitting' = submitting \cup {w}
    /\ bound' = bound \cup {w}
    /\ checking' = checking \cup {w}
    /\ cancelled' = cancelled \ {w}
    /\ raced' = raced \cup ({w} \cap UnderWay)
    /\ UNCHANGED <<starting, worker, handler, hpc, calls>>

\* Its rt_timer_start: the assertion that the timer is an object, at which the
\* caller stops if it is none ...
CheckTimer(w) ==
    /\ w \in checking
    /\ checking' = checking \ {w}
    /\ starting' = starting \cup ({w} \cap timerInit)
    /\ raced' = raced \ ({w} \ (timerInit \cup {handler}))
    /\ UNCHANGED <<lists, bound, submitting, timerOn, timerInit, worker, handler, hpc, calls,
                   cancelled>>

\* ... and the disabled section.
StartTimer(w) ==
    /\ w \in starting
    /\ timerOn' = timerOn \cup {w}
    /\ starting' = starting \ {w}
    /\ raced' = raced \ (({w} \cap timerInit) \ {handler})
    /\ UNCHANGED <<lists, bound, submitting, timerInit, checking, worker, handler, hpc, calls,
                   cancelled>>

\* Mutant: the timer of delayed work is not stopped.
CancelTimerRuns(ws, s) ==
    /\ workList' = s
    /\ delayedList' = delayedList \ ws
    /\ submitting' = submitting \ ws
    /\ UNCHANGED <<timerOn, timerInit>>
    /\ bound' = bound \ ws
    /\ raced' = raced \cup (ws \cap UnderWay)
    /\ UNCHANGED <<starts, worker, handler, hpc>>

\* _workqueue_cancel_work of the works ws, which leaves s in the work list.
CancelWorks(ws, s) ==
    /\ workList' = s
    /\ delayedList' = delayedList \ ws
    /\ timerOn' = timerOn \ (ws \cap submitting)
    /\ timerInit' = timerInit \ (ws \cap submitting)
    /\ submitting' = submitting \ ws
    /\ bound' = bound \ ws
    /\ raced' = raced \cup (ws \cap UnderWay)
    /\ UNCHANGED <<starts, worker, handler, hpc>>

\* rt_workqueue_cancel_work; -RT_EBUSY if the work executes.
Cancel(w) ==
    /\ CancelWorks({w}, Without(workList, w))
    /\ cancelled' = cancelled \cup ({w} \ {current})
    /\ UNCHANGED calls

\* rt_workqueue_cancel_all_work, with the scheduler locked throughout.
CancelAll ==
    LET ws == ToSet(workList) \cup delayedList
    IN  /\ CancelWorks(ws, << >>)
        /\ cancelled' = cancelled \cup (ws \ {current})
        /\ UNCHANGED calls

\* rt_workqueue_cancel_work_sync looks at work_current outside of a section:
\* the work executes ...
CancelSyncBusy(c, w) ==
    /\ cpc[c] = "none"
    /\ current = w
    /\ cpc' = [cpc EXCEPT ![c] = "take"]
    /\ UNCHANGED <<lists, bound, timers, worker, handler, hpc, target, late, cancelled, raced>>

\* ... and the call takes the semaphore, which is 0; ...
CancelSyncTake(c) ==
    /\ cpc[c] = "take"
    /\ cpc' = [cpc EXCEPT ![c] = "wait"]
    /\ UNCHANGED <<lists, bound, timers, worker, handler, hpc, target, late, cancelled, raced>>

\* ... or it does not execute, ...
CancelSyncIdle(c, w) ==
    /\ cpc[c] = "none"
    /\ current # w
    /\ cpc' = [cpc EXCEPT ![c] = "cancel"]
    /\ target' = [target EXCEPT ![c] = w]
    /\ UNCHANGED <<lists, bound, timers, worker, handler, hpc, late, cancelled, raced>>

\* ... and the call cancels it.  It returns RT_EOK whatever
\* _workqueue_cancel_work answers.
CancelSyncSection(c) ==
    /\ cpc[c] = "cancel"
    /\ CancelWorks({target[c]}, Without(workList, target[c]))
    /\ cancelled' = cancelled \cup {target[c]}
    /\ cpc' = [cpc EXCEPT ![c] = "none"]
    /\ target' = [target EXCEPT ![c] = NoWork]
    /\ UNCHANGED late

-----------------------------------------------------------------------------
(* The worker, _workqueue_thread_entry *)

\* Mutant: the list was looked at in an earlier section.
WorkerSleepsLate ==
    /\ wpc = "loop" /\ ~ asleep
    /\ asleep' = TRUE
    /\ UNCHANGED <<lists, bound, timers, current, wpc, slipped, handler, hpc, calls, cancelled, raced>>

\* No work: it suspends itself in the section in which it looked.
WorkerSleeps ==
    /\ wpc = "loop" /\ ~ asleep
    /\ workList = << >>
    /\ asleep' = TRUE
    /\ UNCHANGED <<lists, bound, timers, current, wpc, slipped, handler, hpc, calls, cancelled, raced>>

WorkerTakes ==
    /\ wpc = "loop" /\ ~ asleep
    /\ workList # << >>
    /\ current' = Head(workList)
    /\ workList' = Tail(workList)
    /\ bound' = bound \ {Head(workList)}
    /\ wpc' = "exec"
    /\ slipped' = \E c \in Callers : target[c] = Head(workList)
    /\ UNCHANGED <<delayedList, timers, asleep, handler, hpc, calls, cancelled, raced>>

\* The work function returns.
WorkFunction ==
    /\ wpc = "exec"
    /\ wpc' = "done"
    /\ UNCHANGED <<lists, bound, timers, current, asleep, slipped, handler, hpc, calls, cancelled, raced>>

\* queue->work_current = RT_NULL, outside of a section.
WorkerDone ==
    /\ wpc = "done"
    /\ current' = NoWork /\ slipped' = FALSE
    /\ wpc' = "ack"
    /\ UNCHANGED <<lists, bound, timers, asleep, handler, hpc, calls, cancelled, raced>>

\* Mutant: one caller is woken.
WokenOne == LET ws == {c \in Callers : cpc[c] = "wait"}
            IN  IF ws = {} THEN {} ELSE {CHOOSE c \in ws : TRUE}

\* Releasing the semaphore until nobody waits for it wakes every waiter, which
\* returns RT_EOK.
Woken == {c \in Callers : cpc[c] = "wait"}

\* _workqueue_work_completion, with the scheduler locked.
WorkerAcks ==
    /\ wpc = "ack"
    /\ cpc' = [c \in Callers |-> IF c \in Woken THEN "none" ELSE cpc[c]]
    /\ late' = (late \ Woken) \cup {c \in Callers : cpc[c] = "take"}
    /\ wpc' = "loop"
    /\ UNCHANGED <<lists, bound, timers, current, asleep, slipped, handler, hpc, target, cancelled, raced>>

-----------------------------------------------------------------------------
(* The timer thread, _delayed_work_timeout_handler *)

\* rt_soft_timer_check has taken the timer from its list.
TimerExpires(w) ==
    /\ handler = NoWork /\ w \in timerOn
    /\ timerOn' = timerOn \ {w}
    /\ handler' = w /\ hpc' = "read"
    /\ UNCHANGED <<lists, bound, submitting, timerInit, starts, worker, calls, cancelled, raced>>

\* queue = work->workqueue, and the assertion that there is one.
HandlerReads ==
    /\ handler # NoWork /\ hpc = "read"
    /\ hpc' = IF handler \in bound THEN "section" ELSE "failed"
    /\ UNCHANGED <<lists, bound, timers, worker, handler, calls, cancelled, raced>>

\* Mutant: the work is linked only if the worker is idle.
HandlerLinksIfIdle ==
    Without(workList, handler) \o (IF current = NoWork THEN <<handler>> ELSE << >>)

\* Work is linked unless it executes at the moment.
HandlerLinks ==
    Without(workList, handler) \o (IF current # handler THEN <<handler>> ELSE << >>)

HandlerSection ==
    /\ handler # NoWork /\ hpc = "section"
    /\ handler \in timerInit
    /\ timerInit' = timerInit \ {handler}
    /\ timerOn' = timerOn \ {handler}
    /\ submitting' = submitting \ {handler}
    /\ Queue(handler, HandlerLinks)
    /\ handler' = NoWork /\ hpc' = "read"
    /\ raced' = raced \ ({handler} \ (checking \cup starting))
    /\ UNCHANGED <<bound, starts, calls, cancelled>>

\* The assertion of rt_timer_detach fails: the timer is no object any more.
HandlerFails ==
    /\ handler # NoWork /\ hpc = "section"
    /\ handler \notin timerInit
    /\ hpc' = "failed"
    /\ UNCHANGED <<lists, bound, timers, worker, handler, calls, cancelled, raced>>

-----------------------------------------------------------------------------

Worker == WorkerSleeps \/ WorkerTakes \/ WorkFunction \/ WorkerDone \/ WorkerAcks

Handler == HandlerReads \/ HandlerSection \/ HandlerFails

Next ==
    \/ \E w \in Works :
          \/ Submit(w) \/ Urgent(w) \/ SubmitDelayed(w) \/ CheckTimer(w) \/ StartTimer(w)
          \/ Cancel(w)
          \/ \E c \in Callers : CancelSyncBusy(c, w) \/ CancelSyncIdle(c, w)
          \/ TimerExpires(w)
    \/ \E c \in Callers : CancelSyncTake(c) \/ CancelSyncSection(c)
    \/ CancelAll
    \/ Worker \/ Handler

\* The worker, the timer thread and the callers get the processor, work
\* functions return, and every timer expires (property Expires of SoftTimer).
Fairness ==
    /\ WF_vars(Worker) /\ WF_vars(Handler)
    /\ \A w \in Works :
          WF_vars(CheckTimer(w)) /\ WF_vars(StartTimer(w)) /\ SF_vars(TimerExpires(w))
    /\ \A c \in Callers :
          WF_vars(CancelSyncTake(c)) /\ WF_vars(CancelSyncSection(c))

Spec == Init /\ [][Next]_vars /\ Fairness

-----------------------------------------------------------------------------
(* Properties *)

\* The worker does not sleep over work: whoever links work in the list finds
\* the worker suspended and resumes it, or it looks at the list again.
WorkerAwake == asleep => workList = << >>

\* Work cancelled with RT_EOK by rt_workqueue_cancel_work or _cancel_work_sync
\* does not come back until it is submitted again, whatever was under way: it
\* is not linked, and it does not execute unless the worker took it between the
\* test and the section of cancel_work_sync.  Its timer runs on only if the
\* cancellation overtook the rt_timer_start of a submission; its handler then
\* meets an assertion.
CancelHolds ==
    \A w \in cancelled :
        /\ current = w => slipped
        /\ w \notin ToSet(workList) \cup delayedList
        /\ w \in timerOn => w \in raced

\* RT_ASSERT(queue != RT_NULL) in _delayed_work_timeout_handler, of a work that
\* has been left alone since its timer expired.
HandlerHasQueue == handler \in Works \ raced => handler \in bound /\ hpc # "failed"

\* The assertions about the timer of delayed work fail only for work on which a
\* call was made between the section and the rt_timer_start of its delayed
\* submission or while its handler ran: a timer that is stopped, started or
\* detached is an initialised object, and the handler finds the queue.
TimerAssertions ==
    /\ HandlerHasQueue
    /\ submitting \subseteq timerInit
    /\ (checking \cup starting) \ raced \subseteq timerInit
    /\ handler \in Works \ raced => handler \in timerInit

\* The work is to be executed, now or after its delay.
Outstanding(w) == w \in delayedList \cup ToSet(workList)

\* Submitted work is executed or cancelled, unless other work is made urgent or
\* the work itself submitted again for ever, or the timer thread has met an
\* assertion.  (Delayed work whose timer expires while it executes is not
\* executed again.)
WorkExecuted ==
    \A w \in Works :
        \/ []<><<\E v \in Works : Urgent(v)>>_vars
        \/ []<><<Submit(w) \/ SubmitDelayed(w)>>_vars
        \/ Outstanding(w) ~> (current = w \/ w \in cancelled \/ hpc = "failed")

\* rt_workqueue_cancel_work_sync returns, unless the work it saw executing was
\* done before the call could take the semaphore.
CancelSyncReturns ==
    \A c \in Callers : cpc[c] = "wait" ~> (cpc[c] # "wait" \/ c \in late)

=============================================================================
