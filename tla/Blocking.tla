------------------------------ MODULE Blocking ------------------------------
(***************************************************************************)
(* The thread layer under the IPC objects: module Sched with what the      *)
(* objects cannot see left out.  Threads exist from the start, a handler   *)
(* runs in one step from trap entry to trap exit (it runs with interrupts  *)
(* off), and a running timer may expire at any time.  As in Sched a step   *)
(* is one interrupts-disabled section, and pc[t] holds the sections of the *)
(* call of t still to run: "sched" for rt_schedule, or the IPC object for  *)
(* the section in which a blocked call on it resumes.                      *)
(***************************************************************************)
EXTENDS Kernel, FiniteSetsExt

CONSTANT BasePrio   \* thread->init_priority of each thread

ASSUME BasePrioAssumption == IsFiniteSet(Threads) /\ BasePrio \in [Threads -> Prio]

\* The section "sched" has a name of its own.
ASSUME SectionAssumption == "sched" \notin Waits

VARIABLES
    k,      \* scheduler state (module Kernel)
    timed,  \* threads whose timer is running
    err,    \* thread->error, from the start of a blocking IPC call to its return
            \* (no code reads what an earlier call has left there)
    pc      \* sections of the call in progress still to run, per thread

blockingVars == <<k, timed, err, pc>>

\* All threads started; rt_system_scheduler_start picks the first.
BlockingInit ==
    /\ k = SchedulerStart(
             [KernelInit EXCEPT
                !.stat  = [t \in Threads |-> "READY"],
                !.prio  = BasePrio,
                !.mask  = [t \in Threads |-> {BasePrio[t]}],
                !.ready = [p \in Prio |-> SetToSeq({t \in Threads : BasePrio[t] = p})],
                !.group = {BasePrio[t] : t \in Threads}])
    /\ timed = {}
    /\ err = [t \in Threads |-> "EOK"]
    /\ pc = [t \in Threads |-> << >>]

\* t runs application code.
Runs(t) == k.cur = t /\ t # Idle /\ pc[t] = << >>

\* t runs the pending section s of a call.
At(t, s) == k.cur = t /\ pc[t] # << >> /\ Head(pc[t]) = s

Call(t, sections) == pc' = [pc EXCEPT ![t] = sections]
Done(t)           == pc' = [pc EXCEPT ![t] = Tail(@)]

-----------------------------------------------------------------------------
(* What the calls of ipc.c have in common.                                   *)

\* A call finds its object unavailable: thread->error is preset, the thread
\* joins the wait list w and starts its timer, and goes on after rt_schedule
\* in the section named w.  RT_WAITING_FOREVER starts no timer, and such a
\* call behaves as one whose timer never expires.
WaitOn(t, w) ==
    /\ k' = IpcListSuspend(k, t, w)
    /\ timed' = timed \cup {t}
    /\ err' = [err EXCEPT ![t] = "EINTR"]
    /\ Call(t, <<"sched", w>>)

\* The thread _ipc_list_resume would resume.
First(w) == IF k.wait[w] = << >> THEN {} ELSE {Head(k.wait[w])}

\* The threads ts are resumed, their calls with result e: rt_thread_resume
\* stops the timer, its caller sets thread->error.
Wake(ts, e) ==
    /\ timed' = timed \ ts
    /\ err' = [t \in Threads |-> IF t \in ts THEN e ELSE err[t]]

\* _ipc_list_resume of the first waiter, if there is one.
ResumeFirst(x, w) == IF x.wait[w] = << >> THEN x ELSE Resume(x, Head(x.wait[w]))

\* The waiters ts are resumed one by one in the order of the list.
ResumeThose(x, w, ts) ==
    FoldLeft(LAMBDA y, t : IF t \in ts THEN Resume(y, t) ELSE y, x, x.wait[w])

\* _ipc_list_resume_all, called with interrupts disabled.
ResumeAll(x, w) == ResumeThose(x, w, ToSet(x.wait[w]))

-----------------------------------------------------------------------------

\* rt_thread_sleep; it sets thread->error back to RT_EOK when it wakes up.
Sleep(t) ==
    /\ Runs(t)
    /\ k' = Suspend(k, t)
    /\ timed' = timed \cup {t}
    /\ Call(t, <<"sched">>)
    /\ UNCHANGED err

\* rt_schedule called by a thread.
DoSchedule(t) ==
    /\ At(t, "sched")
    /\ k' = Schedule(k)
    /\ Done(t)
    /\ UNCHANGED <<timed, err>>

\* The tick handler: rt_timer_check, _thread_timeout and rt_schedule.
Timeout(u) ==
    /\ u \in timed
    /\ k' = Schedule(Resume(k, u))
    /\ timed' = timed \ {u}
    /\ err' = IF Waits \cap ToSet(pc[u]) # {} THEN [err EXCEPT ![u] = "ETIMEOUT"] ELSE err
    /\ UNCHANGED pc

\* The tick handler: the time slice of the current thread is used up.
Slice ==
    /\ k' = Schedule([k EXCEPT !.yld[k.cur] = TRUE])
    /\ UNCHANGED <<timed, err, pc>>

-----------------------------------------------------------------------------

\* The threads that have been woken up to look at the object with list w again.
Woken(w) == {t \in Threads : w \in ToSet(pc[t]) /\ err[t] = "EOK" /\ t \notin ToSet(k.wait[w])}

=============================================================================
