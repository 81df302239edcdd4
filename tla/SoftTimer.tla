------------------------------ MODULE SoftTimer -----------------------------
(***************************************************************************)
(* The soft timers of timer.c and the timer thread that runs their         *)
(* callbacks.  Every step is one interrupts-disabled section of the timer  *)
(* thread, a call of rt_timer_start, stop or detach by any other thread,   *)
(* handler or callback, or a tick.  Ticks are unsigned words that wrap     *)
(* around, and the code compares their differences with RT_TICK_MAX / 2.   *)
(***************************************************************************)
EXTENDS Lists, FiniteSets

CONSTANTS
    Timers,     \* soft timers
    Periodic,   \* those of them with RT_TIMER_FLAG_PERIODIC
    NoTimer,
    TickMax,    \* RT_TICK_MAX, small
    MaxTime,    \* the longest init_tick
    MaxLate,    \* bound: a timer is overdue by at most so many ticks
    MaxSlip     \* bound: ticks while the timer thread prepares its sleep

Half == TickMax \div 2

\* What the comments of timer.c ask of the application ("the new tick shall
\* less than the half duration of tick max"), and what rt_timer_start needs.
ASSUME SoftTimerAssumption ==
    /\ Periodic \subseteq Timers /\ NoTimer \notin Timers
    /\ TickMax \in Nat /\ MaxTime \in 1 .. Half - 1 /\ MaxSlip \in Nat
    /\ MaxLate \in 1 .. Half - 1
    /\ MaxLate + MaxTime < TickMax + 1 - Half
    /\ MaxLate + MaxSlip < TickMax + 1 - Half

VARIABLES
    tick,       \* rt_tick
    list,       \* _soft_timer_list
    init,       \* timer->init_tick
    due,        \* timer->timeout_tick of the timers in the list
    active,     \* timers with RT_TIMER_FLAG_ACTIVATED
    busy,       \* _soft_timer_status = RT_SOFT_TIMER_BUSY
    now,        \* the timer whose callback runs
    held,       \* whether now is still linked in the timer thread's own list
    pc,         \* next section of the timer thread
    tstat,      \* it is runnable, suspended, in rt_thread_delay or in a callback,
                \* which may block
    reg,        \* next_timeout, its local variable, while it is in use
    sleep,      \* ticks left of its delay
    left,       \* history: the true number of ticks until each timer in the list is due
    wanted,     \* history: timers started and since neither stopped nor, one-shot, expired
    raced,      \* history: timers started after the timer thread looked at the list
    slip        \* history: ticks from its look at the list to its sleep

appVars  == <<list, due, active, held, left, wanted, raced>>
vars     == <<tick, init, busy, now, pc, tstat, reg, sleep, slip, appVars>>

Ticks == 0 .. TickMax

\* Mutant: the tick does not wrap around.
PlusWide(d, n) == d + n

\* Unsigned arithmetic on ticks.
Plus(d, n)  == (d + n) % (TickMax + 1)
Minus(d, e) == (d - e) % (TickMax + 1)

TypeOK ==
    /\ tick \in Ticks /\ list \in Seq(Timers) /\ init \in [Timers -> 1 .. MaxTime]
    /\ due \in [Timers -> Ticks] /\ active \subseteq Timers /\ busy \in BOOLEAN
    /\ now \in Timers \cup {NoTimer} /\ held \in BOOLEAN
    /\ pc \in {"next", "suspend", "tick", "delay", "check", "callback"}
    /\ tstat \in {"run", "suspend", "delay", "callback"}
    /\ reg \in Ticks /\ sleep \in Ticks /\ left \in [Timers -> Int]
    /\ wanted \subseteq Timers /\ raced \subseteq Timers /\ slip \in 0 .. MaxSlip

\* rt_timer_init of the timers, and rt_system_timer_thread_init.
Init ==
    /\ tick \in Ticks
    /\ init \in [Timers -> 1 .. MaxTime]
    /\ list = << >> /\ active = {} /\ wanted = {} /\ raced = {}
    /\ due = [x \in Timers |-> 0] /\ left = [x \in Timers |-> 0]
    /\ busy = FALSE /\ now = NoTimer /\ held = FALSE
    /\ pc = "next" /\ tstat = "run" /\ reg = 0 /\ sleep = 0 /\ slip = 0

-----------------------------------------------------------------------------
(* The list *)

\* rt_list_remove, of a timer that may be in no list.
Without(s, x) == Unlinked(s, x)

\* Mutant: the place is found by comparing the ticks, not their difference.
PlaceAbsolute(s, d) == {i \in DOMAIN s : due[s[i]] > d}

\* The timers in s due after d, for rt_timer_start.
Place(s, d) == {i \in DOMAIN s : Minus(due[s[i]], d) \in 1 .. Half - 1}

\* The insertion of rt_timer_start: behind the timers due at the same tick.
Inserted(s, x) == InsertBeforeFirst(s, Place(s, Plus(tick, init[x])), x)

\* Mutant: a timer is due one tick early.
DueEarly(d) == Minus(Plus(tick, 1), d) < Half

\* rt_soft_timer_check finds the timer due.
Due(d) == Minus(tick, d) < Half

-----------------------------------------------------------------------------
(* The application *)

\* Mutant: the timer thread is not resumed when it waits for a later timer.
ResumesSuspended == ~ busy /\ tstat = "suspend"

\* Mutant: the timer thread is not resumed when it waits for ever.
ResumesDelayed == ~ busy /\ tstat = "delay"

\* rt_timer_start resumes the timer thread, but not from the wait of a callback.
Resumes == ~ busy /\ tstat # "run"

\* rt_timer_start
Start(x) ==
    /\ list' = Inserted(Without(list, x), x)
    /\ due' = [due EXCEPT ![x] = Plus(tick, init[x])]
    /\ left' = [left EXCEPT ![x] = init[x]]
    /\ active' = active \cup {x}
    /\ wanted' = wanted \cup {x}
    /\ held' = (held /\ now # x)
    /\ raced' = IF pc \in {"suspend", "tick", "delay"} THEN raced \cup {x} ELSE raced
    /\ tstat' = IF Resumes THEN "run" ELSE tstat
    /\ sleep' = IF Resumes THEN 0 ELSE sleep
    /\ UNCHANGED <<tick, init, busy, now, pc, reg, slip>>

\* The timer leaves the list it is linked in.
TimerRemove(x) ==
    /\ list' = Without(list, x)
    /\ due' = [due EXCEPT ![x] = 0]
    /\ left' = [left EXCEPT ![x] = 0]
    /\ held' = (held /\ now # x)
    /\ active' = active \ {x}
    /\ wanted' = wanted \ {x}
    /\ raced' = raced \ {x}
    /\ UNCHANGED <<tick, init, busy, now, pc, tstat, reg, sleep, slip>>

\* rt_timer_stop; it fails on a timer that is not active.
Stop(x) == x \in active /\ TimerRemove(x)

\* rt_timer_detach; the object may then be initialised again.
Detach(x) == TimerRemove(x)

\* rt_timer_control(RT_TIMER_CTRL_SET_TIME)
SetTime(x, n) ==
    /\ init' = [init EXCEPT ![x] = n]
    /\ UNCHANGED <<tick, busy, now, pc, tstat, reg, sleep, slip, appVars>>

\* rt_tick_increase, and the end of rt_thread_delay.
Tick ==
    /\ \A x \in ToSet(list) : left[x] > - MaxLate
    /\ pc \in {"tick", "delay"} => slip < MaxSlip
    /\ tick' = Plus(tick, 1)
    /\ left' = [x \in Timers |-> IF x \in ToSet(list) THEN left[x] - 1 ELSE left[x]]
    /\ slip' = IF pc \in {"tick", "delay"} THEN slip + 1 ELSE slip
    /\ sleep' = IF tstat = "delay" THEN sleep - 1 ELSE sleep
    /\ tstat' = IF tstat = "delay" /\ sleep = 1 THEN "run" ELSE tstat
    /\ UNCHANGED <<init, busy, now, pc, reg, list, due, active, held, wanted, raced>>

-----------------------------------------------------------------------------
(* The timer thread *)

At(s) == pc = s /\ tstat = "run"

\* _timer_list_next_timeout
NextTimeout ==
    /\ At("next")
    /\ pc' = IF list = << >> THEN "suspend" ELSE "tick"
    /\ reg' = IF list = << >> THEN 0 ELSE due[Head(list)]
    /\ UNCHANGED <<tick, init, busy, now, tstat, sleep, slip, appVars>>

\* rt_thread_suspend_with_flag(rt_thread_self())
SuspendSelf ==
    /\ At("suspend")
    /\ tstat' = "suspend"
    /\ pc' = "check"
    /\ UNCHANGED <<tick, init, busy, now, reg, sleep, slip, appVars>>

\* rt_tick_get, and the delay computed from it.
ReadTick ==
    /\ At("tick")
    /\ pc' = IF Minus(reg, tick) < Half THEN "delay" ELSE "check"
    /\ reg' = IF Minus(reg, tick) < Half THEN Minus(reg, tick) ELSE 0
    /\ UNCHANGED <<tick, init, busy, now, tstat, sleep, slip, appVars>>

\* rt_thread_delay, which returns at once if there is nothing to wait for.
Delay ==
    /\ At("delay")
    /\ tstat' = IF reg = 0 THEN "run" ELSE "delay"
    /\ sleep' = reg
    /\ reg' = 0
    /\ pc' = "check"
    /\ UNCHANGED <<tick, init, busy, now, slip, appVars>>

\* rt_soft_timer_check looks at the list s, with the timers in act active: the
\* first timer, if it is due, moves to the list of the timer thread and its
\* callback is called.
Check(s, act) ==
    IF s # << >> /\ Due(due'[Head(s)])
    THEN LET x == Head(s) IN
         /\ list' = Tail(s)
         /\ now' = x /\ held' = TRUE /\ busy' = TRUE
         /\ active' = IF x \in Periodic THEN act ELSE act \ {x}
         /\ wanted' = IF x \in Periodic THEN wanted ELSE wanted \ {x}
         /\ pc' = "callback" /\ tstat' = "callback"
    ELSE /\ list' = s
         /\ now' = NoTimer /\ held' = FALSE /\ busy' = FALSE
         /\ active' = act
         /\ pc' = "next" /\ tstat' = "run"
         /\ UNCHANGED wanted

SoftTimerCheck ==
    /\ At("check")
    /\ UNCHANGED due
    /\ Check(list, active)
    /\ raced' = {} /\ slip' = 0
    /\ UNCHANGED <<tick, init, reg, sleep, left>>

\* Mutant: a periodic timer is started again although it is no longer held.
RestartsAlways == now \in Periodic

\* After a callback: a periodic timer that was neither stopped nor started in
\* the meantime is started again.
Restarts == held /\ now \in Periodic /\ now \in active

\* The callback returns, and rt_soft_timer_check goes on in the same section.
CallbackDone ==
    /\ pc = "callback"
    /\ due' = IF Restarts THEN [due EXCEPT ![now] = Plus(tick, init[now])] ELSE due
    /\ left' = IF Restarts THEN [left EXCEPT ![now] = init[now]] ELSE left
    /\ Check(IF Restarts THEN Inserted(list, now) ELSE list, active)
    /\ UNCHANGED <<tick, init, reg, sleep, raced, slip>>

TimerThread ==
    \/ NextTimeout \/ SuspendSelf \/ ReadTick \/ Delay
    \/ SoftTimerCheck \/ CallbackDone

Next ==
    \/ \E x \in Timers :
          \/ Start(x) \/ Stop(x) \/ Detach(x)
          \/ \E n \in 1 .. MaxTime : SetTime(x, n)
    \/ Tick
    \/ TimerThread

\* Time goes on, the timer thread gets the processor and callbacks return.
Fairness == WF_vars(Tick) /\ WF_vars(TimerThread)

Spec == Init /\ [][Next]_vars /\ Fairness

-----------------------------------------------------------------------------
(* Properties *)

\* The list is in the order of the true expiry times, with ticks that wrap
\* around and timers that are overdue: rt_soft_timer_check and the timer
\* thread look at its head only.
SoftSorted == Sorted(list, left)

\* A timer is armed exactly when the application wants it: it is linked once,
\* or periodic and still held by the timer thread, which is to restart it.
\* Stopping or restarting a timer while its own callback runs neither revives
\* nor doubles it.
ArmedIfWanted ==
    \A x \in Timers :
        Cardinality({i \in DOMAIN list : list[i] = x})
          + (IF x = now /\ held /\ x \in Periodic THEN 1 ELSE 0)
            = IF x \in wanted THEN 1 ELSE 0

\* The callback of a timer is not called before its time, whatever happened to
\* the timer since it was started.
NotEarly ==
    [][(now' # NoTimer /\ (now' # now \/ (held' /\ ~ held))) => left[now'] <= 0]_vars

\* The timer thread waits for ever, or beyond the time of a timer by more than
\* it was delayed before its sleep, only where the timer was started between
\* its look at the list and its sleep.
OnlyRacedMissed ==
    /\ tstat = "suspend" => ToSet(list) \subseteq raced
    /\ tstat = "delay" => \A x \in ToSet(list) \ raced : sleep <= left[x] + slip

Stranded(x) == tstat = "suspend" /\ x \in raced

\* A timer that is started and not started again and again expires or is
\* stopped, unless it is stranded.
Expires ==
    \A x \in Timers :
        ([]<><<Start(x)>>_vars) \/ (x \in ToSet(list) ~> (x \notin ToSet(list) \/ Stranded(x)))

\* "no software timer exist, suspend self": the timer thread suspends itself
\* without a timeout only when there is no timer to wait for.
SuspendedWithoutTimer == tstat = "suspend" => list = << >>

=============================================================================
