------------------------------- MODULE Mutex --------------------------------
(***************************************************************************)
(* The mutexes of ipc.c: recursive ownership, priority inheritance along   *)
(* chains of owners, priority ceilings, waiting with and without timeout.  *)
(***************************************************************************)
EXTENDS Blocking

CONSTANTS
    MaxHold,    \* RT_MUTEX_HOLD_MAX, small
    Ceilings    \* the ceilings rt_mutex_setprioceiling is called with

Mutexes == Waits
\* 0xff, the priority of no waiter and the ceiling of no ceiling.
Lowest == NPrio

ASSUME MutexAssumption ==
    PrioWaits = Waits /\ NoThread \notin Waits /\ MaxHold \in Nat \ {0} /\ Ceilings \subseteq Prio

VARIABLES
    owner,  \* mutex->owner
    hold,   \* mutex->hold
    mprio,  \* mutex->priority
    ceil,   \* mutex->ceiling_priority
    taken,  \* thread->taken_object_list, as a set
    pend,   \* thread->pending_object
    lapsed  \* history: some wait for a mutex has timed out

vars == <<k, timed, err, pc, owner, hold, mprio, ceil, taken, pend, lapsed>>

NoMutex == NoThread

Init ==
    /\ BlockingInit
    /\ owner = [m \in Mutexes |-> NoThread]
    /\ hold = [m \in Mutexes |-> 0]
    /\ mprio = [m \in Mutexes |-> Lowest]
    /\ ceil = [m \in Mutexes |-> Lowest]
    /\ taken = [t \in Threads |-> {}]
    /\ pend = [t \in Threads |-> NoMutex]
    /\ lapsed = FALSE

-----------------------------------------------------------------------------
(* Priority inheritance *)

\* _mutex_update_priority: the priority of the first waiter.
WaitersPriority(x, m) == IF x.wait[m] = << >> THEN Lowest ELSE x.prio[Head(x.wait[m])]

\* Mutant: the priorities of the waiters do not count.
MutexPriorityCeilingOnly(t, S, mp, c) == Min({BasePrio[t]} \cup {c[m] : m \in S})

\* _thread_get_mutex_priority, with mutex priorities mp, ceilings c and the
\* mutexes S taken.
MutexPriority(t, S, mp, c) == Min({BasePrio[t]} \cup {mp[m] : m \in S} \cup {c[m] : m \in S})

\* Mutant: the waiter stays where it is.
RequeueInPlace(x, t, m) == x

\* The waiter t of m takes its place in the list anew: _ipc_list_suspend of a
\* thread that is suspended already.
Requeue(x, t, m) ==
    LET y == ListRemove(x, t)
    IN  [y EXCEPT !.wait[m] =
            InsertBeforeFirst(@, {i \in DOMAIN @ : y.prio[t] < y.prio[@[i]]}, t)]

\* A record s is the state _thread_update_priority works on: the kernel state,
\* the mutex priorities, ceilings and pending objects, and the thread whose
\* priority changed last, NoThread when the loop has ended.
Propagation(x, mp, c, pn) == [k |-> x, mp |-> mp, ceil |-> c, pend |-> pn, at |-> NoThread]

\* One round of the loop of _thread_update_priority.
Propagate(s) ==
    IF s.at # NoThread /\ s.k.stat[s.at] = "SUSPEND" /\ s.pend[s.at] # NoMutex
    THEN LET m  == s.pend[s.at]
             o  == owner[m]
             k1 == Requeue(s.k, s.at, m)
             mp == [s.mp EXCEPT ![m] = WaitersPriority(k1, m)]
             p  == MutexPriority(o, taken[o], mp, s.ceil)
             go == p # k1.prio[o]
         IN  [s EXCEPT !.k  = IF go THEN ChangePriority(k1, o, p) ELSE k1,
                       !.mp = mp,
                       !.at = IF go THEN o ELSE NoThread]
    ELSE [s EXCEPT !.at = NoThread]

\* Bound: where owners wait for each other in a cycle, a priority may travel
\* around it twice before the loop ends.
ChainBound == 2 * Cardinality(Threads) + 1

\* _thread_update_priority(t, p)
UpdatePriority(s, t, p) ==
    LET chain[n \in 0 .. ChainBound] ==
            IF n = 0 THEN [s EXCEPT !.k = ChangePriority(@, t, p), !.at = t]
                     ELSE Propagate(chain[n - 1])
    IN  chain[ChainBound]

\* The owner o gets the priority its mutexes call for.
Reprioritise(s, o) ==
    LET p == MutexPriority(o, taken[o], s.mp, s.ceil)
    IN  IF p # s.k.prio[o] THEN UpdatePriority(s, o, p) ELSE s

-----------------------------------------------------------------------------
(* rt_mutex_take *)

\* Mutant: the limit of the counter is not tested.
TakeAgainUnbounded(t, m) ==
    /\ Runs(t)
    /\ owner[m] = t
    /\ hold' = [hold EXCEPT ![m] = @ + 1]
    /\ UNCHANGED <<k, timed, err, pc, owner, mprio, ceil, taken, pend, lapsed>>

TakeAgain(t, m) ==
    /\ Runs(t)
    /\ owner[m] = t
    /\ hold[m] < MaxHold    \* otherwise -RT_EFULL
    /\ hold' = [hold EXCEPT ![m] = @ + 1]
    /\ UNCHANGED <<k, timed, err, pc, owner, mprio, ceil, taken, pend, lapsed>>

TakeFree(t, m) ==
    /\ Runs(t)
    /\ owner[m] = NoThread
    /\ owner' = [owner EXCEPT ![m] = t]
    /\ hold' = [hold EXCEPT ![m] = 1]
    /\ mprio' = [mprio EXCEPT ![m] = Lowest]
    /\ taken' = [taken EXCEPT ![t] = @ \cup {m}]
    /\ k' = IF ceil[m] < k.prio[t] THEN ChangePriority(k, t, ceil[m]) ELSE k
    /\ UNCHANGED <<timed, err, pc, ceil, pend, lapsed>>

\* The mutex is taken: the thread waits with its timer running.  (A call with
\* RT_WAITING_FOREVER behaves as one whose timer never expires.)
TakeWait(t, m) ==
    /\ Runs(t)
    /\ owner[m] \notin {NoThread, t}
    /\ pend' = [pend EXCEPT ![t] = m]
    /\ LET p == k.prio[t]
           x == IpcListSuspend(k, t, m)
           s == Propagation(x, [mprio EXCEPT ![m] = IF p < @ THEN p ELSE @], ceil, pend')
           r == IF p < mprio[m] /\ p < x.prio[owner[m]] THEN UpdatePriority(s, owner[m], p) ELSE s
       IN  r.at = NoThread /\ k' = r.k /\ mprio' = r.mp
    /\ timed' = timed \cup {t}
    /\ Call(t, <<"sched", m>>)
    /\ UNCHANGED <<err, owner, hold, ceil, taken, lapsed>>

\* Back from rt_schedule.  Without an error the releasing thread has made t
\* the owner; otherwise t is out of the list and gives back the priority it
\* lent to the owner.
TakeReturn(t, m) ==
    /\ At(t, m)
    /\ Done(t)
    /\ IF err[t] = "EOK"
       THEN UNCHANGED <<k, mprio, pend>>
       ELSE LET o == owner[m]
                s == Propagation(k, [mprio EXCEPT ![m] = WaitersPriority(k, m)], ceil, pend)
                r == IF o # NoThread /\ k.prio[o] = k.prio[t] THEN Reprioritise(s, o) ELSE s
            IN  /\ r.at = NoThread /\ k' = r.k /\ mprio' = r.mp
                /\ pend' = [pend EXCEPT ![t] = NoMutex]
    /\ err' = [err EXCEPT ![t] = "EOK"]
    /\ UNCHANGED <<timed, owner, hold, ceil, taken, lapsed>>

-----------------------------------------------------------------------------
(* rt_mutex_release and rt_mutex_setprioceiling *)

ReleaseInner(t, m) ==
    /\ Runs(t)
    /\ owner[m] = t
    /\ hold[m] > 1
    /\ hold' = [hold EXCEPT ![m] = @ - 1]
    /\ UNCHANGED <<k, timed, err, pc, owner, mprio, ceil, taken, pend, lapsed>>

\* Mutant: only a priority above the waiters' is dropped.
DropsLower(t, m) == ceil[m] # Lowest \/ k.prio[t] > mprio[m]

\* t may have a priority on account of m, and has to compute its own anew.
Drops(t, m) == ceil[m] # Lowest \/ k.prio[t] = mprio[m]

\* The thread to which m goes: its first waiter.
NextOwner(m) == IF k.wait[m] = << >> THEN NoThread ELSE Head(k.wait[m])

\* Mutant: m does not get into the list of its new owner.
HandOverUnlisted(t, m, next) == [taken EXCEPT ![t] = @ \ {m}]

\* The taken lists once m has gone from t to next.
HandOver(t, m, next) ==
    [u \in Threads |-> CASE u = t    -> taken[u] \ {m}
                         [] u = next -> taken[u] \cup {m}
                         [] OTHER    -> taken[u]]

\* Mutant: the timer of a waiter that gets the mutex runs on.
TimersAfterHandOverRunning(next) == timed

\* rt_thread_resume stops the timer of the thread it resumes.
TimersAfterHandOver(next) == timed \ {next}

\* The last release: t drops the priority it has through m, and the first
\* waiter becomes the owner.
ReleaseLast(t, m) ==
    /\ Runs(t)
    /\ owner[m] = t
    /\ hold[m] = 1
    /\ LET own  == MutexPriority(t, taken[t] \ {m}, mprio, ceil)
           next == NextOwner(m)
           k1   == IF Drops(t, m) THEN ChangePriority(k, t, own) ELSE k
           k2   == IF next # NoThread THEN Resume(k1, next) ELSE k1
       IN  /\ k' = k2
           /\ mprio' = [mprio EXCEPT ![m] = WaitersPriority(k2, m)]
           /\ owner' = [owner EXCEPT ![m] = next]
           /\ hold' = [hold EXCEPT ![m] = IF next # NoThread THEN 1 ELSE 0]
           /\ taken' = HandOver(t, m, next)
           /\ pend' = [u \in Threads |-> IF u = next THEN NoMutex ELSE pend[u]]
           /\ timed' = TimersAfterHandOver(next)
           /\ Call(t, IF Drops(t, m) \/ next # NoThread THEN <<"sched">> ELSE << >>)
    /\ UNCHANGED <<err, ceil, lapsed>>

SetPrioCeiling(t, m, p) ==
    /\ Runs(t)
    /\ ceil' = [ceil EXCEPT ![m] = p]
    /\ LET s == Propagation(k, mprio, ceil', pend)
           r == IF owner[m] # NoThread THEN Reprioritise(s, owner[m]) ELSE s
       IN  r.at = NoThread /\ k' = r.k /\ mprio' = r.mp
    /\ UNCHANGED <<timed, err, pc, owner, hold, taken, pend, lapsed>>

-----------------------------------------------------------------------------

mutexVars == <<owner, hold, mprio, ceil, taken, pend>>

Expire(u) ==
    /\ Timeout(u)
    /\ lapsed' = (lapsed \/ pend[u] # NoMutex)
    /\ UNCHANGED mutexVars

Next ==
    \/ \E t \in Threads, m \in Mutexes :
          \/ TakeAgain(t, m) \/ TakeFree(t, m) \/ TakeWait(t, m) \/ TakeReturn(t, m)
          \/ ReleaseInner(t, m) \/ ReleaseLast(t, m)
          \/ \E p \in Ceilings : SetPrioCeiling(t, m, p)
    \/ \E t \in Threads : (Sleep(t) \/ DoSchedule(t)) /\ UNCHANGED <<mutexVars, lapsed>>
    \/ \E u \in Threads : Expire(u)
    \/ Slice /\ UNCHANGED <<mutexVars, lapsed>>

Spec == Init /\ [][Next]_vars

-----------------------------------------------------------------------------
(* Properties *)

\* Every variable has its type.
TypeOK ==
    /\ k \in KernelState
    /\ timed \subseteq Threads
    /\ err \in [Threads -> {"EOK", "ETIMEOUT"}]
    /\ pc \in [Threads -> Seq({"sched"} \cup Mutexes)]
    /\ owner \in [Mutexes -> ThreadOrNull]
    /\ hold \in [Mutexes -> 0 .. MaxHold]
    /\ mprio \in [Mutexes -> Prio \cup {Lowest}]
    /\ ceil \in [Mutexes -> Prio \cup {Lowest}]
    /\ taken \in [Threads -> SUBSET Mutexes]
    /\ pend \in [Threads -> Mutexes \cup {NoMutex}]
    /\ lapsed \in BOOLEAN

\* A mutex is held, is in the taken list of its owner and of nobody else, and
\* has waiters only while it has an owner; a waiter is pending on it.
Ownership ==
    \A m \in Mutexes :
        /\ owner[m] # NoThread <=> hold[m] > 0
        /\ \A t \in Threads : m \in taken[t] <=> owner[m] = t
        /\ k.wait[m] # << >> => owner[m] # NoThread
        /\ \A t \in ToSet(k.wait[m]) : pend[t] = m /\ owner[m] # t

\* rt_mutex_take tells the truth: the section after rt_schedule returns RT_EOK
\* without looking at the owner again, so thread->error has to say who won the
\* race between a release and the timeout.
TakeTellsOwner ==
    \A t \in Threads, m \in Mutexes :
        At(t, m) => (err[t] = "EOK" <=> owner[m] = t)

\* Priority inheritance: the owner of a mutex is at least as urgent as every
\* thread that waits for it, through chains of owners and across releases,
\* timeouts, ceilings and re-queuings.
Inherited ==
    \A m \in Mutexes : \A t \in ToSet(k.wait[m]) : k.prio[owner[m]] <= k.prio[t]

\* The waiters of a mutex stay in order of their current priority although
\* that changes while they wait; the first is woken by a release.
WaitersSorted ==
    \A m \in Mutexes : \A i, j \in DOMAIN k.wait[m] :
        i < j => k.prio[k.wait[m][i]] <= k.prio[k.wait[m][j]]

\* "When this is low-priority releases the resource, the priority level returns
\* to the initial setting": a thread that holds no mutex has its own priority.
PriorityRestored == \A t \in Threads : taken[t] = {} => k.prio[t] = BasePrio[t]

\* As long as no wait for a mutex has ended in a timeout, the priority of a
\* thread that holds no mutex is its own.
RestoredWithoutTimeout == ~ lapsed => PriorityRestored

=============================================================================
