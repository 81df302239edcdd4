------------------------------ MODULE Semaphore -----------------------------
(***************************************************************************)
(* The semaphore of ipc.c, used by threads and handlers.                   *)
(***************************************************************************)
EXTENDS Blocking

CONSTANTS
    Sem,        \* the semaphore: its wait list
    MaxValue    \* RT_SEM_VALUE_MAX, small

ASSUME SemAssumption == Sem \in Waits /\ MaxValue \in Nat \ {0}

VARIABLE value  \* sem->value

semVars == <<k, timed, err, pc, value>>

\* rt_sem_init with any initial value.
SemInit ==
    /\ BlockingInit
    /\ value \in 0 .. MaxValue

-----------------------------------------------------------------------------

\* _rt_sem_take finds a token.
SemTake(t) ==
    /\ Runs(t)
    /\ value > 0
    /\ value' = value - 1
    /\ UNCHANGED blockingVars

\* It finds none; without a timeout to wait it returns -RT_ETIMEOUT instead.
SemTakeWait(t) ==
    /\ Runs(t)
    /\ value = 0
    /\ WaitOn(t, Sem)
    /\ UNCHANGED value

\* Back from rt_schedule: thread->error is the result.
SemTakeReturn(t) ==
    /\ At(t, Sem)
    /\ Done(t)
    /\ err' = [err EXCEPT ![t] = "EOK"]
    /\ UNCHANGED <<k, timed, value>>

\* Mutant: the counter counts the token that is handed over, too.
SemReleasedTwice ==
    /\ value < MaxValue
    /\ value' = value + 1
    /\ Wake(First(Sem), "EOK")

\* The disabled section of rt_sem_release; at the limit it returns -RT_EFULL.
SemReleased ==
    /\ IF First(Sem) # {}
       THEN UNCHANGED value
       ELSE value < MaxValue /\ value' = value + 1
    /\ Wake(First(Sem), "EOK")

SemRelease(t) ==
    /\ Runs(t)
    /\ SemReleased
    /\ k' = ResumeFirst(k, Sem)
    /\ Call(t, IF First(Sem) # {} THEN <<"sched">> ELSE << >>)

\* rt_sem_release called by a handler.
SemReleaseIsr ==
    /\ SemReleased
    /\ k' = IF First(Sem) # {} THEN Schedule(ResumeFirst(k, Sem)) ELSE k
    /\ UNCHANGED pc

\* rt_sem_control(RT_IPC_CMD_RESET, v)
SemReset(t, v) ==
    /\ Runs(t)
    /\ k' = ResumeAll(k, Sem)
    /\ Wake(ToSet(k.wait[Sem]), "ERROR")
    /\ value' = v
    /\ Call(t, <<"sched">>)

\* The threads that use the object are users.
SemNext(users) ==
    \/ \E t \in users :
          \/ SemTake(t) \/ SemTakeWait(t) \/ SemTakeReturn(t) \/ SemRelease(t)
          \/ \E v \in 0 .. MaxValue : SemReset(t, v)
          \/ (Sleep(t) \/ DoSchedule(t) \/ Timeout(t)) /\ UNCHANGED value
    \/ SemReleaseIsr
    \/ Slice /\ UNCHANGED value

SemSpec == SemInit /\ [][SemNext(Threads)]_semVars

-----------------------------------------------------------------------------
(* Properties *)

\* The outcome of the call of t: it waits, or the thread has been told by its
\* error word that it has a token or has none.
Outcome(t) ==
    IF Sem \notin ToSet(pc[t]) THEN "none"
    ELSE IF t \in ToSet(k.wait[Sem]) THEN "waits"
    ELSE IF err[t] = "EOK" THEN "token" ELSE "failed"

Abstract == INSTANCE CountingSemaphore WITH
    Clients <- Threads,
    Rank    <- [t \in Threads |-> IF Sem \in PrioWaits THEN BasePrio[t] ELSE 0],
    queue   <- k.wait[Sem],
    got     <- [t \in Threads |-> Outcome(t)]

\* rt_sem_take, rt_sem_release and the timeout of a waiter, in sections that
\* interleave with handlers and other threads, implement the counting
\* semaphore: no token is lost or made when a release races a timeout, and
\* rt_sem_take returns RT_EOK just to the threads that were given one.
SemImplements == Abstract!Spec

=============================================================================
