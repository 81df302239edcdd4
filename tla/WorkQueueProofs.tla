--------------------------- MODULE WorkQueueProofs --------------------------
(***************************************************************************)
(* The safety properties of module WorkQueue, for any works and callers.   *)
(* That work waiting for its delay is not submitted without one (Once) is  *)
(* an assumption of the one theorem that needs it.                         *)
(***************************************************************************)
EXTENDS WorkQueue, ListProofs

-----------------------------------------------------------------------------
(* The inductive invariant *)

\* work_current is set while the worker has a work; it suspends itself only
\* where it looks for one, and nobody leaves it suspended over work.
WorkerInv ==
    /\ current # NoWork <=> wpc \in {"exec", "done"}
    /\ asleep => wpc = "loop"
    /\ WorkerAwake

\* The timer of submitted work, and no other, is an initialised object.  A timer
\* that runs, that is about to be started or whose handler runs is one of these
\* unless a call overtook the submission or the handler, and a submission that
\* is under way beside the handler of its work has been recorded so.
TimerInv ==
    /\ submitting = timerInit
    /\ timerOn \ raced \subseteq submitting
    /\ (checking \cup starting) \ raced \subseteq submitting
    /\ handler \in Works \ raced => handler \in submitting
    /\ handler \in checking \cup starting => handler \in raced
    /\ (checking \cup starting) \cap timerOn = {}
    /\ checking \cap starting = {}

\* Cancelled work is not submitted, so that its handler, if one runs, does not
\* link it; a call of cancel_work_sync that has seen its work not executing
\* meets it executing only if the worker slipped in.
CancelInv ==
    /\ cancelled \cap submitting = {}
    /\ \A c \in Callers :
          cpc[c] = "cancel" => target[c] \in Works /\ (current = target[c] => slipped)
    /\ CancelHolds

\* If Once, submitted work is in the delayed list, where the worker cannot take
\* it, and knows its queue.
OnceInv ==
    /\ submitting \subseteq delayedList \cap bound
    /\ hpc = "failed" => handler \in raced

IInv ==
    /\ TypeOK
    /\ WorkerInv
    /\ TimerInv
    /\ CancelInv
    /\ Once => OnceInv

-----------------------------------------------------------------------------
(* The steps *)

\* The work list: linking a work anew at either end, and unlinking one.
LEMMA WorkLists ==
  ASSUME TypeOK, NEW w \in Works
  PROVE  /\ Links(workList, Works, ToSet(workList))
         /\ Links(Without(workList, w), Works, ToSet(workList) \ {w})
         /\ Links(Append(Without(workList, w), w), Works, ToSet(workList) \cup {w})
         /\ Links(<<w>> \o Without(workList, w), Works, ToSet(workList) \cup {w})
         /\ Links(Without(workList, w) \o << >>, Works, ToSet(workList) \ {w})
         /\ Links(Without(workList, w) \o <<w>>, Works, ToSet(workList) \cup {w})
<1> DEFINE r == Without(workList, w)
           S == ToSet(workList)
<1>1. Links(workList, Works, S)
  BY DEF TypeOK, Links
<1>2. Links(r, Works, S \ {w})
  BY <1>1, LinksUnlinked DEF Without
<1> HIDE DEF r
<1>3. w \in Works \ (S \ {w}) /\ (S \ {w}) \cup {w} = S \cup {w}
  OBVIOUS
<1>4. Links(Append(r, w), Works, S \cup {w}) /\ Links(<<w>> \o r, Works, S \cup {w})
  BY <1>2, <1>3, LinksInsert
<1>5. r \in Seq(Works)
  BY <1>2 DEF Links
<1>6. r \o << >> = r /\ r \o <<w>> = Append(r, w)
  BY <1>5, ConcatEmptySeq, AppendIsConcat
<1> QED
  BY <1>1, <1>2, <1>4, <1>6 DEF r

\* Linking work resumes a worker that sleeps.
LEMMA QueueStep ==
  ASSUME IInv, NEW w \in Works, NEW s, NEW S, Links(s, Works, S), Queue(w, s),
         S \subseteq ToSet(workList) \cup {w}
  PROVE  /\ workList' \in Seq(Works) /\ IsInjective(workList') /\ ToSet(workList') = S
         /\ delayedList' = delayedList \ {w}
         /\ delayedList' \subseteq Works \ ToSet(workList')
         /\ current' = current /\ wpc' = wpc /\ slipped' = slipped /\ asleep' \in BOOLEAN
         /\ WorkerInv'
<1>1. current' = current /\ wpc' = wpc /\ slipped' = slipped /\ workList' = s
  BY DEF Queue
<1>2. ~ asleep'
  BY DEF Queue, Wakes, IInv, WorkerInv
<1>3. WorkerInv'
  BY <1>1, <1>2 DEF IInv, WorkerInv, WorkerAwake
<1>4. ToSet(workList') = S
  BY <1>1 DEF Links
<1> QED
  BY <1>1, <1>2, <1>3, <1>4 DEF Links, Queue, IInv, TypeOK

\* rt_workqueue_dowork and rt_workqueue_urgent_work.
LEMMA SubmitStep ==
  ASSUME IInv, NEW w \in Works, Submit(w) \/ Urgent(w)
  PROVE  IInv'
<1> DEFINE S == ToSet(workList) \cup {w}
<1>1. PICK s : Links(s, Works, S) /\ Queue(w, s)
  BY WorkLists DEF Submit, Urgent, IInv
<1>2. /\ workList' \in Seq(Works) /\ IsInjective(workList') /\ ToSet(workList') = S
      /\ delayedList' = delayedList \ {w}
      /\ delayedList' \subseteq Works \ ToSet(workList')
      /\ current' = current /\ wpc' = wpc /\ slipped' = slipped /\ asleep' \in BOOLEAN
      /\ WorkerInv'
  BY <1>1, QueueStep
<1>3. /\ UNCHANGED <<timers, handler, hpc, calls, raced>> /\ CarefulSubmit(w)
      /\ cancelled' = cancelled \ {w}
      /\ bound' = bound \/ bound' = bound \cup {w}
  BY DEF Submit, Urgent
<1>4. TypeOK'
  BY <1>2, <1>3 DEF IInv, TypeOK, timers, starts, calls
<1>5. TimerInv'
  BY <1>3 DEF IInv, TimerInv, timers, starts
<1>6. CancelInv'
  BY <1>2, <1>3 DEF IInv, CancelInv, CancelHolds, timers, calls
<1>7. Once => OnceInv'
  BY <1>2, <1>3 DEF IInv, OnceInv, CarefulSubmit, timers
<1> QED
  BY <1>2, <1>4, <1>5, <1>6, <1>7 DEF IInv

\* rt_workqueue_submit_work with a delay: its section, which makes the timer an
\* object and so ends what an earlier cancellation said of the work, and the
\* two steps of its rt_timer_start.
LEMMA SubmitDelayedStep ==
  ASSUME IInv, NEW w \in Works, SubmitDelayed(w)
  PROVE  IInv'
<1>1. Links(workList', Works, ToSet(workList) \ {w})
  BY WorkLists DEF SubmitDelayed, IInv
<1>2. ToSet(workList') = ToSet(workList) \ {w}
  BY <1>1 DEF Links
<1>3. TypeOK'
  BY <1>1, <1>2 DEF SubmitDelayed, Links, IInv, TypeOK, worker, calls
<1>4. WorkerInv'
  BY <1>1, <1>2, LinksFacts DEF SubmitDelayed, IInv, WorkerInv, WorkerAwake, worker, Links, ToSet
<1>5. TimerInv'
  BY DEF IInv, TypeOK, TimerInv, SubmitDelayed, UnderWay
<1>6. CancelInv'
  BY <1>2 DEF IInv, CancelInv, CancelHolds, SubmitDelayed, worker, calls
<1>7. Once => OnceInv'
  BY DEF IInv, OnceInv, SubmitDelayed
<1> QED
  BY <1>3, <1>4, <1>5, <1>6, <1>7 DEF IInv

LEMMA CheckTimerStep ==
  ASSUME IInv, NEW w \in Works, CheckTimer(w)
  PROVE  IInv'
<1>1. TypeOK' /\ WorkerInv'
  BY DEF CheckTimer, IInv, TypeOK, WorkerInv, WorkerAwake, lists, worker, calls
<1>2. TimerInv'
  BY DEF IInv, TimerInv, CheckTimer
<1>3. CancelInv'
  BY <1>2 DEF IInv, TypeOK, TimerInv, CancelInv, CancelHolds, CheckTimer, lists, worker, calls
<1>4. Once => OnceInv'
  BY DEF IInv, OnceInv, CheckTimer, lists
<1> QED
  BY <1>1, <1>2, <1>3, <1>4 DEF IInv

LEMMA StartTimerStep ==
  ASSUME IInv, NEW w \in Works, StartTimer(w)
  PROVE  IInv'
<1>1. TypeOK' /\ WorkerInv'
  BY DEF StartTimer, IInv, TypeOK, WorkerInv, WorkerAwake, lists, worker, calls
<1>2. TimerInv'
  BY DEF IInv, TimerInv, StartTimer
<1>3. CancelInv'
  BY <1>2 DEF IInv, TimerInv, CancelInv, CancelHolds, StartTimer, lists, worker, calls
<1>4. Once => OnceInv'
  BY DEF IInv, OnceInv, StartTimer, lists
<1> QED
  BY <1>1, <1>2, <1>3, <1>4 DEF IInv

\* _workqueue_cancel_work, however it is called: the works ws lose their timers
\* and, if something was under way, are recorded as overtaken.  The works cs are
\* those whose call returns RT_EOK.
LEMMA CancelStep ==
  ASSUME IInv, NEW ws \in SUBSET Works, NEW cs \in SUBSET ws, NEW s,
         Links(s, Works, ToSet(workList) \ ws), CancelWorks(ws, s),
         cancelled' = cancelled \cup cs,
         current \in cs => slipped,
         cpc' \in [Callers -> {"none", "cancel", "take", "wait"}],
         target' \in [Callers -> Works \cup {NoWork}],
         \A c \in Callers : cpc'[c] = "cancel" => cpc[c] = "cancel" /\ target'[c] = target[c],
         late' = late
  PROVE  IInv'
<1>1. workList' = s /\ ToSet(workList') = ToSet(workList) \ ws
  BY DEF CancelWorks, Links
<1>2. TypeOK'
  BY <1>1 DEF CancelWorks, Links, IInv, TypeOK, worker, starts, UnderWay
<1>3. workList = << >> => workList' = << >>
  BY <1>1, LinksFacts DEF Links, ToSet
<1>4. WorkerInv'
  BY <1>1, <1>3 DEF CancelWorks, IInv, WorkerInv, WorkerAwake, worker
<1>5. TimerInv'
  BY DEF CancelWorks, IInv, TypeOK, TimerInv, UnderWay, starts
<1>6. CancelInv'
  <2>1. cancelled' \cap submitting' = {}
    BY DEF CancelWorks, IInv, CancelInv
  <2>2. \A c \in Callers :
          cpc'[c] = "cancel" => target'[c] \in Works /\ (current' = target'[c] => slipped')
    BY DEF CancelWorks, IInv, CancelInv, worker
  <2>3. \A w \in cancelled' : w \in timerOn' => w \in raced'
    BY <1>5, <2>1 DEF TimerInv
  <2>4. \A w \in cancelled' : w \notin ToSet(workList') \cup delayedList'
    BY <1>1 DEF CancelWorks, IInv, CancelInv, CancelHolds
  <2>5. \A w \in cancelled' : current' = w => slipped'
    BY DEF CancelWorks, IInv, CancelInv, CancelHolds, worker
  <2> QED
    BY <2>1, <2>2, <2>3, <2>4, <2>5 DEF CancelInv, CancelHolds
<1>7. Once => OnceInv'
  BY DEF IInv, OnceInv, CancelWorks
<1> QED
  BY <1>2, <1>4, <1>5, <1>6, <1>7 DEF IInv

LEMMA CancelCallStep ==
  ASSUME IInv, NEW w \in Works, Cancel(w)
  PROVE  IInv'
<1>1. Links(Without(workList, w), Works, ToSet(workList) \ {w})
  BY WorkLists DEF IInv
<1> DEFINE cs == {w} \ {current}
<1>2. /\ CancelWorks({w}, Without(workList, w)) /\ cancelled' = cancelled \cup cs
      /\ cpc' = cpc /\ target' = target /\ late' = late
  BY DEF Cancel, calls
<1>3. cs \in SUBSET {w} /\ current \notin cs /\ {w} \in SUBSET Works
  OBVIOUS
<1> HIDE DEF cs
<1> QED
  BY <1>1, <1>2, <1>3, CancelStep DEF IInv, TypeOK

\* The call of rt_workqueue_cancel_work_sync whose section comes after its test:
\* if the worker took the work in between, it slipped in.
LEMMA CancelSyncSectionStep ==
  ASSUME IInv, NEW c \in Callers, CancelSyncSection(c)
  PROVE  IInv'
<1> DEFINE w == target[c]
<1>1. w \in Works /\ (current = w => slipped)
  BY DEF CancelSyncSection, IInv, CancelInv
<1>2. /\ CancelWorks({w}, Without(workList, w)) /\ cancelled' = cancelled \cup {w}
      /\ cpc' = [cpc EXCEPT ![c] = "none"] /\ target' = [target EXCEPT ![c] = NoWork]
      /\ late' = late
  BY DEF CancelSyncSection
<1> HIDE DEF w
<1>3. Links(Without(workList, w), Works, ToSet(workList) \ {w})
  BY <1>1, WorkLists DEF IInv
<1>4. /\ cpc' \in [Callers -> {"none", "cancel", "take", "wait"}]
      /\ target' \in [Callers -> Works \cup {NoWork}]
      /\ \A d \in Callers : cpc'[d] = "cancel" => cpc[d] = "cancel" /\ target'[d] = target[d]
  BY <1>2 DEF IInv, TypeOK
<1>5. {w} \in SUBSET Works /\ {w} \in SUBSET {w} /\ (current \in {w} => slipped)
  BY <1>1
<1> QED
  BY <1>2, <1>3, <1>4, <1>5, CancelStep

LEMMA CancelAllStep ==
  ASSUME IInv, CancelAll
  PROVE  IInv'
<1> DEFINE ws == ToSet(workList) \cup delayedList
           cs == ws \ {current}
<1>1. ws \in SUBSET Works
  BY DEF IInv, TypeOK, ToSet
<1>2. ToSet(workList) \ ws = {}
  OBVIOUS
<1>3. Links(<< >>, Works, ToSet(workList) \ ws)
  BY <1>2, LinksEmpty
<1>4. /\ CancelWorks(ws, << >>) /\ cancelled' = cancelled \cup cs
      /\ cpc' = cpc /\ target' = target /\ late' = late
  BY DEF CancelAll, calls
<1>5. cs \in SUBSET ws /\ current \notin cs
  OBVIOUS
<1> HIDE DEF ws, cs
<1> QED
  BY <1>1, <1>3, <1>4, <1>5, CancelStep DEF IInv, TypeOK

\* The other steps of rt_workqueue_cancel_work_sync touch nothing else.
LEMMA CallersStep ==
  ASSUME IInv, NEW c \in Callers,
         \/ \E w \in Works : CancelSyncBusy(c, w) \/ CancelSyncIdle(c, w)
         \/ CancelSyncTake(c)
  PROVE  IInv'
<1>1. UNCHANGED <<lists, bound, timers, worker, handler, hpc, cancelled, raced, late>>
  BY DEF CancelSyncBusy, CancelSyncIdle, CancelSyncTake
<1>2. /\ cpc' \in [Callers -> {"none", "cancel", "take", "wait"}]
      /\ target' \in [Callers -> Works \cup {NoWork}]
  BY DEF CancelSyncBusy, CancelSyncIdle, CancelSyncTake, IInv, TypeOK
<1>3. \A d \in Callers :
         cpc'[d] = "cancel" => target'[d] \in Works /\ (current = target'[d] => slipped)
  BY DEF CancelSyncBusy, CancelSyncIdle, CancelSyncTake, IInv, TypeOK, CancelInv
<1>4. TypeOK'
  BY <1>1, <1>2 DEF IInv, TypeOK, lists, timers, starts, worker
<1>5. CancelInv'
  BY <1>1, <1>3 DEF IInv, CancelInv, CancelHolds, lists, timers, worker
<1> QED
  BY <1>1, <1>4, <1>5 DEF IInv, WorkerInv, WorkerAwake, TimerInv, OnceInv,
                          lists, timers, starts, worker

\* The worker.  It takes no cancelled work, which is not linked, and if it takes
\* work from under a call of cancel_work_sync it records so.
LEMMA WorkerTakesStep ==
  ASSUME IInv, WorkerTakes
  PROVE  IInv'
<1> DEFINE h == Head(workList)
<1>1. /\ workList \in Seq(Works) /\ workList # << >> /\ IsInjective(workList)
      /\ workList' = Tail(workList) /\ current' = h
  BY DEF WorkerTakes, IInv, TypeOK
<1>2. h \in ToSet(workList) /\ h \in Works /\ h # NoWork
  BY <1>1, WorkAssumption DEF ToSet
<1>3. /\ Tail(workList) \in Seq(Works) /\ IsInjective(Tail(workList))
      /\ ToSet(Tail(workList)) \subseteq ToSet(workList)
  BY <1>1 DEF IsInjective, ToSet
<1>4. h \notin delayedList /\ h \notin cancelled
  BY <1>2 DEF IInv, TypeOK, CancelInv, CancelHolds
<1>5. slipped' = (\E c \in Callers : target[c] = h) /\ UNCHANGED <<cancelled, timers, raced, calls>>
  BY DEF WorkerTakes
<1> HIDE DEF h
<1>6. TypeOK'
  BY <1>1, <1>2, <1>3, <1>5 DEF WorkerTakes, IInv, TypeOK, timers, starts, calls
<1>7. WorkerInv'
  BY <1>1, <1>2 DEF WorkerTakes, IInv, WorkerInv, WorkerAwake
<1>8. TimerInv'
  BY DEF WorkerTakes, IInv, TimerInv, timers, starts
<1>9. CancelInv'
  BY <1>1, <1>3, <1>4, <1>5 DEF WorkerTakes, IInv, CancelInv, CancelHolds, timers, calls
<1>10. Once => OnceInv'
  BY <1>1, <1>4 DEF WorkerTakes, IInv, OnceInv, timers, h
<1> QED
  BY <1>6, <1>7, <1>8, <1>9, <1>10 DEF IInv

LEMMA WorkerStep ==
  ASSUME IInv, Worker
  PROVE  IInv'
<1>1. CASE WorkerTakes
  BY <1>1, WorkerTakesStep
<1>2. CASE WorkerSleeps \/ WorkFunction \/ WorkerDone \/ WorkerAcks
  <2>1. /\ UNCHANGED <<lists, bound, timers, handler, hpc, target, cancelled, raced>>
        /\ (current' = current /\ slipped' = slipped) \/ (current' = NoWork /\ slipped' = FALSE)
    BY <1>2 DEF WorkerSleeps, WorkFunction, WorkerDone, WorkerAcks, calls
  <2>2. /\ cpc' \in [Callers -> {"none", "cancel", "take", "wait"}] /\ late' \subseteq Callers
        /\ \A c \in Callers : cpc'[c] = "cancel" => cpc[c] = "cancel"
    BY <1>2 DEF WorkerSleeps, WorkFunction, WorkerDone, WorkerAcks, IInv, TypeOK, calls
  <2>3. wpc' \in {"loop", "exec", "done", "ack"} /\ asleep' \in BOOLEAN /\ WorkerInv'
    <3>1. workList' = workList /\ TypeOK /\ WorkerInv
      BY <2>1 DEF IInv, lists
    <3>2. CASE WorkerSleeps
      BY <3>1, <3>2 DEF WorkerSleeps, TypeOK, WorkerInv, WorkerAwake
    <3>3. CASE WorkFunction
      BY <3>1, <3>3 DEF WorkFunction, TypeOK, WorkerInv, WorkerAwake
    <3>4. CASE WorkerDone
      BY <3>1, <3>4 DEF WorkerDone, TypeOK, WorkerInv, WorkerAwake
    <3>5. CASE WorkerAcks
      BY <3>1, <3>5 DEF WorkerAcks, TypeOK, WorkerInv, WorkerAwake
    <3> QED
      BY <1>2, <3>2, <3>3, <3>4, <3>5
  <2>4. TypeOK'
    BY <2>1, <2>2, <2>3 DEF IInv, TypeOK, lists, timers, starts
  <2>5. TimerInv'
    BY <2>1 DEF IInv, TimerInv, timers, starts
  <2>6. CancelInv'
    <3>1. NoWork \notin cancelled /\ NoWork \notin Works
      BY WorkAssumption DEF IInv, TypeOK
    <3> QED
      BY <2>1, <2>2, <3>1 DEF IInv, CancelInv, CancelHolds, lists, timers
  <2>7. Once => OnceInv'
    BY <2>1 DEF IInv, OnceInv, lists, timers
  <2> QED
    BY <2>3, <2>4, <2>5, <2>6, <2>7 DEF IInv
<1> QED
  BY <1>1, <1>2 DEF Worker

\* The timer of delayed work expires, and its handler, which links the work only
\* if its timer is an object, so that the work is submitted and not cancelled.
LEMMA TimerExpiresStep ==
  ASSUME IInv, NEW w \in Works, TimerExpires(w)
  PROVE  IInv'
<1>1. TypeOK' /\ WorkerInv'
  BY DEF TimerExpires, IInv, TypeOK, WorkerInv, WorkerAwake, lists, starts, worker, calls
<1>2. TimerInv'
  BY DEF TimerExpires, IInv, TimerInv, starts
<1>3. CancelInv'
  BY DEF TimerExpires, IInv, CancelInv, CancelHolds, lists, worker, calls
<1>4. Once => OnceInv'
  BY DEF TimerExpires, IInv, OnceInv, lists
<1> QED
  BY <1>1, <1>2, <1>3, <1>4 DEF IInv

LEMMA HandlerStep ==
  ASSUME IInv, Handler
  PROVE  IInv'
<1>1. CASE HandlerReads \/ HandlerFails
  <2>1. /\ UNCHANGED <<lists, bound, timers, worker, handler, calls, cancelled, raced>>
        /\ handler # NoWork
        /\ \/ hpc' = "section"
           \/ hpc' = "failed" /\ (handler \notin bound \/ handler \notin timerInit)
    BY <1>1 DEF HandlerReads, HandlerFails
  <2>2. Once => OnceInv'
    BY <2>1 DEF IInv, TypeOK, TimerInv, OnceInv, lists, timers
  <2> QED
    BY <2>1, <2>2 DEF IInv, TypeOK, WorkerInv, WorkerAwake, TimerInv, CancelInv, CancelHolds,
                      lists, timers, starts, worker, calls
<1>2. CASE HandlerSection
  <2>1. handler \in Works /\ handler # NoWork
    BY <1>2 DEF HandlerSection, IInv, TypeOK
  <2>2. PICK S : /\ S \subseteq ToSet(workList) \cup {handler}
                 /\ Links(HandlerLinks, Works, S)
    <3>1. CASE current # handler
      BY <2>1, <3>1, WorkLists DEF HandlerLinks, IInv
    <3>2. CASE current = handler
      BY <2>1, <3>2, WorkLists DEF HandlerLinks, IInv
    <3> QED
      BY <3>1, <3>2
  <2>3. Queue(handler, HandlerLinks)
    BY <1>2 DEF HandlerSection
  <2>4. /\ workList' \in Seq(Works) /\ IsInjective(workList') /\ ToSet(workList') = S
        /\ delayedList' = delayedList \ {handler}
        /\ delayedList' \subseteq Works \ ToSet(workList')
        /\ current' = current /\ wpc' = wpc /\ slipped' = slipped /\ asleep' \in BOOLEAN
        /\ WorkerInv'
    BY <2>1, <2>2, <2>3, QueueStep
  <2>5. /\ timerInit' = timerInit \ {handler} /\ timerOn' = timerOn \ {handler}
        /\ submitting' = submitting \ {handler}
        /\ handler' = NoWork /\ hpc' = "read"
        /\ raced' = raced \ ({handler} \ (checking \cup starting))
        /\ UNCHANGED <<bound, starts, calls, cancelled>>
    BY <1>2 DEF HandlerSection
  <2>6. handler \notin cancelled
    BY <1>2 DEF HandlerSection, IInv, TimerInv, CancelInv
  <2>7. TypeOK'
    BY <2>4, <2>5 DEF IInv, TypeOK, calls, starts
  <2>8. TimerInv'
    <3>1. NoWork \notin Works /\ NoWork \notin checking \cup starting
      BY WorkAssumption DEF IInv, TypeOK
    <3> QED
      BY <2>5, <3>1 DEF IInv, TimerInv, starts
  <2>9. CancelInv'
    BY <2>2, <2>4, <2>5, <2>6 DEF IInv, CancelInv, CancelHolds, calls
  <2>10. Once => OnceInv'
    BY <2>4, <2>5 DEF IInv, OnceInv
  <2> QED
    BY <2>4, <2>7, <2>8, <2>9, <2>10 DEF IInv
<1> QED
  BY <1>1, <1>2 DEF Handler

\* Every step keeps the invariant.
LEMMA NextStep == IInv /\ [Next]_vars => IInv'
<1> SUFFICES ASSUME IInv, [Next]_vars PROVE IInv'
  OBVIOUS
<1>1. CASE UNCHANGED vars
  BY <1>1 DEF IInv, TypeOK, WorkerInv, WorkerAwake, TimerInv, CancelInv, OnceInv, CancelHolds,
              vars, lists, timers, starts, worker, calls
<1>2. CASE Next
  BY <1>2, SubmitStep, SubmitDelayedStep, CheckTimerStep, StartTimerStep, CancelCallStep,
     CancelSyncSectionStep, CallersStep, TimerExpiresStep, CancelAllStep, WorkerStep, HandlerStep
     DEF Next
<1> QED
  BY <1>1, <1>2

-----------------------------------------------------------------------------
(* The theorems *)

\* The invariant holds throughout, whatever the application submits and cancels.
THEOREM Invariance == Spec => []IInv
<1>1. Init => IInv
  <2> SUFFICES ASSUME Init PROVE IInv
    OBVIOUS
  <2>1. Links(workList, Works, {})
    BY LinksEmpty DEF Init
  <2>2. TypeOK
    BY <2>1 DEF Init, TypeOK, Links
  <2>3. WorkerInv
    BY DEF Init, WorkerInv, WorkerAwake
  <2>4. TimerInv
    BY WorkAssumption DEF Init, TimerInv
  <2>5. CancelInv
    BY DEF Init, CancelInv, CancelHolds
  <2>6. OnceInv
    BY DEF Init, OnceInv
  <2> QED
    BY <2>2, <2>3, <2>4, <2>5, <2>6 DEF IInv
<1> QED
  BY <1>1, NextStep, PTL DEF Spec

\* Every variable has its type; in particular the one list node of a work is in
\* at most one of the queue's lists, whatever submissions, timeouts and
\* cancellations come between.
THEOREM TypeCorrect == Spec => []TypeOK
<1>1. IInv => TypeOK
  BY DEF IInv
<1> QED
  BY <1>1, Invariance, PTL

\* The worker never sleeps over work: nothing is asked of the application.
THEOREM NoSleepOverWork == Spec => []WorkerAwake
<1>1. IInv => WorkerAwake
  BY DEF IInv, WorkerInv
<1> QED
  BY <1>1, Invariance, PTL

\* Work cancelled with RT_EOK does not come back until it is submitted again,
\* even if the cancellation overtook rt_timer_start or the timeout handler;
\* what it may leave behind is a running timer that such a race started, and the
\* execution that slipped between the test and the section of cancel_work_sync.
THEOREM CancelSound == Spec => []CancelHolds
<1>1. IInv => CancelHolds
  BY DEF IInv, CancelInv
<1> QED
  BY <1>1, Invariance, PTL

\* If work that waits for its delay is not submitted without one, the assertions
\* about the timer of delayed work fail only where a call overtook the
\* submission or the handler.
THEOREM AssertionsSound ==
  ASSUME Once
  PROVE  Spec => []TimerAssertions
<1>1. IInv => TimerAssertions
  BY DEF IInv, TimerInv, OnceInv, TimerAssertions, HandlerHasQueue
<1> QED
  BY <1>1, Invariance, PTL

=============================================================================
