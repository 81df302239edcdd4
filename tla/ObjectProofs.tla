---------------------------- MODULE ObjectProofs ----------------------------
(***************************************************************************)
(* What is proved of the objects of ipc.c that hand something over: the    *)
(* semaphore implements the counting semaphore, the event leaves no waiter *)
(* behind and loses no event, the mailbox and the message queue lose no    *)
(* wake-up and implement the bounded queue, and the nodes of the message   *)
(* queue are never lost or used twice.  Each object has an inductive       *)
(* invariant that adds its own fields to BlockInv of BlockingProofs.       *)
(***************************************************************************)
EXTENDS Semaphore, Event, Mailbox, MessageQueue, BlockingProofs

-----------------------------------------------------------------------------
(* The semaphore *)

\* Priorities never change, so the wait list stays in the order of BasePrio.
SemInv ==
    /\ BlockInv /\ k.prio = BasePrio
    /\ value \in 0 .. MaxValue
    /\ err = [t \in Threads |-> err[t]]

\* The state of the counting semaphore.
Got   == [t \in Threads |-> Outcome(t)]
Ranks == [t \in Threads |-> IF Sem \in PrioWaits THEN BasePrio[t] ELSE 0]

SemRefines == Abstract!Next \/ UNCHANGED Abstract!vars

\* What Outcome says, case by case.
LEMMA OutcomeFacts ==
  ASSUME NEW t
  PROVE  /\ ~ OnCall(t, Sem) => Outcome(t) = "none"
         /\ OnCall(t, Sem) /\ t \in ToSet(k.wait[Sem]) => Outcome(t) = "waits"
         /\ OnCall(t, Sem) /\ t \notin ToSet(k.wait[Sem]) =>
               Outcome(t) = IF err[t] = "EOK" THEN "token" ELSE "failed"
  BY DEF Outcome, OnCall

\* The operators the abstract specification uses are the ones used here.
LEMMA SemOperators ==
  /\ \A s, i, e : Abstract!InsertAt(s, i, e) = InsertAt(s, i, e)
  /\ \A s, i : Abstract!RemoveAt(s, i) = RemoveAt(s, i)
<1>1. \A s, i, e : Abstract!InsertAt(s, i, e) = InsertAt(s, i, e)
  BY DEF Abstract!InsertAt, InsertAt
<1>2. \A s, i : Abstract!RemoveAt(s, i) = RemoveAt(s, i)
  BY DEF Abstract!RemoveAt, RemoveAt
<1> QED
  BY <1>1, <1>2

\* A step the semaphore does not see: the same calls, waiters and results.
LEMMA SemStutters ==
  ASSUME value' = value, k'.wait[Sem] = k.wait[Sem],
         \A t \in Threads : OnCall(t, Sem)' <=> OnCall(t, Sem),
         \A t \in Threads : OnCall(t, Sem) => err'[t] = err[t]
  PROVE  SemRefines
<1>1. \A t \in Threads : Outcome(t)' = Outcome(t)
  BY DEF Outcome, OnCall
<1>2. Got' = Got
  BY <1>1 DEF Got
<1> QED
  BY <1>2 DEF SemRefines, Abstract!vars, Got

LEMMA SemInitInv == SemInit => SemInv /\ Abstract!Init
<1> SUFFICES ASSUME SemInit PROVE SemInv /\ Abstract!Init
  OBVIOUS
<1>1. BlockInv /\ k.prio = BasePrio /\ k.wait[Sem] = << >> /\ pc = [t \in Threads |-> << >>]
  BY BlockingStart, SemAssumption DEF SemInit
<1>2. value \in 0 .. MaxValue /\ err = [t \in Threads |-> err[t]]
  BY DEF SemInit, BlockingInit
<1>3. \A t \in Threads : Outcome(t) = "none"
  BY <1>1, OutcomeFacts, CallFacts DEF OnCall
<1>4. Got = [t \in Threads |-> "none"]
  BY <1>3 DEF Got
<1> QED
  BY <1>1, <1>2, <1>4, Zenon DEF SemInv, Abstract!Init, Got

\* A thread takes a token that is there.
LEMMA SemTakeRefines ==
  ASSUME SemInv, NEW t \in Threads, SemTake(t)
  PROVE  SemInv' /\ SemRefines
<1>1. UNCHANGED <<k, timed, err, pc>> /\ value > 0 /\ value' = value - 1 /\ pc[t] = << >>
  BY DEF SemTake, blockingVars, Runs
<1>2. SemInv'
  BY <1>1, SemAssumption DEF SemInv, BlockInv
<1>3. Got' = Got /\ Got[t] = "none" /\ k'.wait[Sem] = k.wait[Sem]
  BY <1>1, OutcomeFacts, CallFacts DEF Got, OnCall, Outcome
<1>4. Abstract!Acquire(t)
  BY <1>1, <1>3, Zenon DEF Abstract!Acquire, Got
<1> QED
  BY <1>2, <1>4 DEF SemRefines, Abstract!Next

\* A thread joins the queue.
LEMMA SemWaitRefines ==
  ASSUME SemInv, NEW t \in Threads, SemTakeWait(t)
  PROVE  SemInv' /\ SemRefines
<1> DEFINE q == k.wait[Sem]
           I == IF Sem \in PrioWaits THEN {i \in DOMAIN q : k.prio[t] < k.prio[q[i]]} ELSE {}
<1>0. BlockInv /\ Sem \in Waits
  BY SemAssumption DEF SemInv
<1>1. Runs(t) /\ value = 0 /\ WaitOn(t, Sem) /\ value' = value /\ Live(t)
  BY <1>0, RunsLive DEF SemTakeWait
<1>2. /\ BlockInv' /\ k'.prio = k.prio /\ Joined(k, k', t, Sem)
      /\ ToSet(pc'[t]) = {"sched", Sem} /\ \A u \in Threads \ {t} : pc'[u] = pc[u]
  BY <1>0, <1>1, WaitStep
<1>3. err' = [err EXCEPT ![t] = "EINTR"]
  BY <1>1 DEF WaitOn
<1>4. SemInv'
  BY <1>1, <1>2, <1>3 DEF SemInv
<1>5. k.stat[t] = "RUNNING" /\ KernelOK(k, {}) /\ t \in Threads \ {}
  BY <1>0, <1>1, LiveFacts, WaitersTimed
<1>6. k'.wait[Sem] = InsertBeforeFirst(q, I, t)
  BY <1>0, <1>1, <1>5, SuspendWait DEF WaitOn
<1>7. q \in Seq(Threads) /\ Len(q) \in Nat /\ DOMAIN q = 1 .. Len(q)
  BY <1>0, WaitersTimed DEF Holds
<1>8. \A i \in 1 .. Len(q) : q[i] \in Threads
  BY <1>7
<1>9. k.prio = BasePrio /\ BasePrio \in [Threads -> Int]
  BY BasePrioAssumption, PrioAssumption DEF SemInv, Prio
<1>10. I \in SUBSET Nat /\ I \subseteq 1 .. Len(q)
  BY <1>7
<1>11. \A i \in 1 .. Len(q) : /\ i \in I => Ranks[q[i]] > Ranks[t]
                              /\ i \notin I => Ranks[q[i]] <= Ranks[t]
  <2> SUFFICES ASSUME NEW i \in 1 .. Len(q)
               PROVE  /\ i \in I => Ranks[q[i]] > Ranks[t]
                      /\ i \notin I => Ranks[q[i]] <= Ranks[t]
    OBVIOUS
  <2>1. q[i] \in Threads /\ i \in DOMAIN q
    BY <1>7, <1>8
  <2>2. BasePrio[q[i]] \in Int /\ BasePrio[t] \in Int
    BY <1>9, <2>1
  <2>3. CASE Sem \in PrioWaits
    <3>1. i \in I <=> BasePrio[t] < BasePrio[q[i]]
      BY <1>9, <2>1, <2>3
    <3>2. Ranks[q[i]] = BasePrio[q[i]] /\ Ranks[t] = BasePrio[t]
      BY <2>1, <2>3 DEF Ranks
    <3> QED
      BY <2>2, <3>1, <3>2
  <2>4. CASE Sem \notin PrioWaits
    <3>1. i \notin I
      BY <2>4
    <3>2. Ranks[q[i]] = 0 /\ Ranks[t] = 0
      BY <2>1, <2>4 DEF Ranks
    <3> QED
      BY <3>1, <3>2
  <2> QED
    BY <2>3, <2>4
<1> HIDE DEF I
<1>12. PICK n \in 0 .. Len(q) :
          /\ k'.wait[Sem] = InsertAt(q, n + 1, t)
          /\ \A i \in 1 .. n : i \notin I
          /\ n < Len(q) => n + 1 \in I
  <2>1. CASE I = {}
    <3>1. k'.wait[Sem] = InsertAt(q, Len(q) + 1, t)
      BY <1>6, <2>1 DEF InsertBeforeFirst
    <3> QED
      BY <1>7, <2>1, <3>1
  <2>2. CASE I # {}
    <3> DEFINE m == Min(I)
    <3>1. m \in I /\ \A i \in I : m <= i
      BY <1>10, <2>2, LeastNat
    <3>2. k'.wait[Sem] = InsertAt(q, m, t)
      BY <1>6, <2>2 DEF InsertBeforeFirst
    <3> HIDE DEF m
    <3>3. m \in 1 .. Len(q)
      BY <1>10, <3>1
    <3> DEFINE l == Len(q)
    <3> HIDE DEF l
    <3>3a. l \in Nat /\ m \in 1 .. l
      BY <1>7, <3>3 DEF l
    <3>3b. m - 1 \in 0 .. l /\ (m - 1) + 1 = m
      BY <3>3a
    <3>4. \A i \in 1 .. m - 1 : i \notin I
      BY <3>1, <3>3a
    <3> QED
      BY <3>1, <3>2, <3>3b, <3>4 DEF l
  <2> QED
    BY <2>1, <2>2
<1>13. n \in Nat /\ Len(q) \in Nat /\ (\A i \in 1 .. n : i \in 1 .. Len(q))
       /\ (n < Len(q) => n + 1 \in 1 .. Len(q))
  BY <1>7
<1>14. /\ \A i \in 1 .. n : Ranks[q[i]] <= Ranks[t]
       /\ n < Len(q) => Ranks[q[n + 1]] > Ranks[t]
  BY <1>11, <1>12, <1>13
<1>15. /\ \A u \in Threads \ {t} : Outcome(u)' = Outcome(u)
       /\ Outcome(t)' = "waits" /\ Outcome(t) = "none"
  <2>1. pc[t] = << >>
    BY <1>1 DEF Runs
  <2>2. ToSet(k'.wait[Sem]) = ToSet(q) \cup {t}
    BY <1>2 DEF Joined
  <2>3. \A u \in Threads \ {t} : pc'[u] = pc[u] /\ err'[u] = err[u]
    BY <1>2, <1>3 DEF SemInv
  <2>4. \A u \in Threads \ {t} : u \in ToSet(k'.wait[Sem]) <=> u \in ToSet(q)
    BY <2>2
  <2>5. Sem \notin ToSet(pc[t]) /\ Sem \in ToSet(pc'[t]) /\ t \in ToSet(k'.wait[Sem])
    BY <1>2, <2>1, <2>2, CallFacts
  <2>6. \A u \in Threads \ {t} : Outcome(u)' = Outcome(u)
    BY <2>3, <2>4 DEF Outcome
  <2> QED
    BY <2>5, <2>6 DEF Outcome
<1>16. Got' = [Got EXCEPT ![t] = "waits"] /\ Got[t] = "none"
  BY <1>15 DEF Got
<1>17. k'.wait[Sem] = Abstract!InsertAt(q, n + 1, t)
  BY <1>12, SemOperators
<1>18. Abstract!Enter(t)
  BY <1>1, <1>14, <1>16, <1>17, Zenon DEF Abstract!Enter, Got, Ranks
<1> QED
  BY <1>4, <1>18 DEF SemRefines, Abstract!Next


\* A call comes back with its result.
LEMMA SemReturnRefines ==
  ASSUME SemInv, NEW t \in Threads, SemTakeReturn(t)
  PROVE  SemInv' /\ SemRefines
<1>0. BlockInv /\ Sem \in Waits /\ Sem # "sched"
  BY SemAssumption, SectionAssumption DEF SemInv
<1>1. At(t, Sem) /\ Done(t) /\ k' = k /\ timed' = timed /\ value' = value
      /\ err' = [err EXCEPT ![t] = "EOK"]
  BY DEF SemTakeReturn
<1>2. Live(t) /\ Tail(pc[t]) = << >> /\ ToSet(pc[t]) = {Sem}
  BY <1>0, <1>1, RunsLive, AtLast
<1>3. t \notin ToSet(k.wait[Sem])
  BY <1>0, <1>2, LiveFacts
<1>4. Call(t, << >>) /\ CallOK(<< >>)
  BY <1>1, <1>2 DEF Done, Call, CallOK
<1>5. BlockInv'
  BY <1>0, <1>1, <1>2, <1>4, CallStep
<1>6. pc'[t] = << >> /\ \A u \in Threads \ {t} : pc'[u] = pc[u] /\ err'[u] = err[u]
  BY <1>0, <1>1, <1>4 DEF SemInv, BlockInv, BlockOK, Call
<1>7. SemInv'
  BY <1>1, <1>5 DEF SemInv
<1>8. \A u \in Threads \ {t} : Outcome(u)' = Outcome(u)
  BY <1>1, <1>6 DEF Outcome
<1>9. Sem \notin ToSet(pc'[t])
  BY <1>6, CallFacts
<1>10. Outcome(t)' = "none" /\ Outcome(t) \in {"token", "failed"}
  BY <1>2, <1>3, <1>9 DEF Outcome
<1>11. Got' = [Got EXCEPT ![t] = "none"] /\ Got[t] \in {"token", "failed"}
  BY <1>8, <1>10 DEF Got
<1>12. Abstract!Return(t)
  BY <1>1, <1>11, Zenon DEF Abstract!Return, Got
<1> QED
  BY <1>7, <1>12 DEF SemRefines, Abstract!Next

\* A token is released: it is handed over, or goes into the counter.
LEMMA SemReleasedRefines ==
  ASSUME SemInv, SemReleased, BlockInv', k'.prio = k.prio,
         k.wait[Sem] # << >> => k'.wait[Sem] = Tail(k.wait[Sem]) /\ First(Sem) = {Head(k.wait[Sem])},
         k.wait[Sem] = << >> => k'.wait[Sem] = << >> /\ First(Sem) = {},
         ToSet(k'.wait[Sem]) = ToSet(k.wait[Sem]) \ First(Sem),
         First(Sem) \subseteq ToSet(k.wait[Sem]),
         \A t \in Threads : OnCall(t, Sem)' <=> OnCall(t, Sem)
  PROVE  SemInv' /\ SemRefines
<1>0. BlockInv /\ Sem \in Waits /\ value \in 0 .. MaxValue /\ MaxValue \in Nat
  BY SemAssumption DEF SemInv
<1>1. err' = [t \in Threads |-> IF t \in First(Sem) THEN "EOK" ELSE err[t]]
  BY DEF SemReleased, Wake
<1>2. ToSet(k.wait[Sem]) \subseteq Threads /\ \A t \in ToSet(k.wait[Sem]) : OnCall(t, Sem)
  BY <1>0, WaitersTimed
<1>3. err' = [t \in Threads |-> err'[t]]
  BY <1>1
<1>4. CASE k.wait[Sem] # << >>
  <2>0. PICK h : h = Head(k.wait[Sem])
    OBVIOUS
  <2>1. value' = value /\ First(Sem) = {h} /\ h \in Threads /\ h \in ToSet(k.wait[Sem])
    BY <1>2, <1>4, <2>0 DEF SemReleased
  <2>2. \A t \in Threads \ {h} : Outcome(t)' = Outcome(t)
    BY <1>1, <2>1 DEF Outcome, OnCall
  <2>3. Outcome(h)' = "token"
    BY <1>1, <1>2, <2>1 DEF Outcome, OnCall
  <2>4. Got' = [Got EXCEPT ![h] = "token"]
    BY <2>1, <2>2, <2>3 DEF Got
  <2>5. k'.wait[Sem] = Tail(k.wait[Sem])
    BY <1>4
  <2>6. Abstract!Grant
    BY <1>4, <2>0, <2>1, <2>4, <2>5, Zenon DEF Abstract!Grant, Got
  <2>7. SemInv'
    BY <1>0, <1>3, <2>1 DEF SemInv
  <2> QED
    BY <2>6, <2>7 DEF SemRefines, Abstract!Next
<1>5. CASE k.wait[Sem] = << >>
  <2>1. First(Sem) = {} /\ value < MaxValue /\ value' = value + 1 /\ k'.wait[Sem] = k.wait[Sem]
    BY <1>5 DEF SemReleased
  <2>2. \A t \in Threads : Outcome(t)' = Outcome(t)
    BY <1>1, <2>1 DEF Outcome, OnCall
  <2>3. Got' = Got
    BY <2>2 DEF Got
  <2>4. Abstract!Deposit
    BY <1>5, <2>1, <2>3, Zenon DEF Abstract!Deposit, Got
  <2>5. SemInv'
    BY <1>0, <1>3, <2>1 DEF SemInv
  <2> QED
    BY <2>4, <2>5 DEF SemRefines, Abstract!Next
<1> QED
  BY <1>4, <1>5

LEMMA SemReleaseRefines ==
  ASSUME SemInv, NEW t \in Threads, SemRelease(t)
  PROVE  SemInv' /\ SemRefines
<1> DEFINE s == IF First(Sem) # {} THEN <<"sched">> ELSE << >>
<1>0. BlockInv /\ Sem \in Waits /\ Sem # "sched"
  BY SemAssumption, SectionAssumption DEF SemInv
<1>1. Runs(t) /\ SemReleased /\ k' = ResumeFirst(k, Sem) /\ Call(t, s) /\ timed' = timed \ First(Sem)
  BY DEF SemRelease, SemReleased, Wake
<1>2. Live(t) /\ pc[t] = << >>
  BY <1>0, <1>1, RunsLive DEF Runs
<1>3. CallOK(s) /\ Sem \notin ToSet(s)
  BY <1>0, CallFacts DEF CallOK
<1> HIDE DEF s
<1>4. \A u \in Threads : OnCall(u, Sem)' <=> OnCall(u, Sem)
  <2>1. pc'[t] = s /\ \A u \in Threads \ {t} : pc'[u] = pc[u]
    BY <1>0, <1>1 DEF Call, BlockInv, BlockOK
  <2>2. Sem \notin ToSet(pc[t])
    BY <1>2, CallFacts
  <2> QED
    BY <1>3, <2>1, <2>2 DEF OnCall
<1>5. \E u, r : Live(u) /\ CallOK(r) /\ Call(u, r)
  BY <1>1, <1>2, <1>3
<1>6. /\ BlockInv' /\ k'.prio = k.prio
      /\ First(Sem) \subseteq ToSet(k.wait[Sem])
      /\ \A v \in Waits : ToSet(k'.wait[v]) = ToSet(k.wait[v]) \ First(Sem)
      /\ k.wait[Sem] # << >> => k'.wait[Sem] = Tail(k.wait[Sem]) /\ First(Sem) = {Head(k.wait[Sem])}
      /\ k.wait[Sem] = << >> => k'.wait[Sem] = << >> /\ First(Sem) = {}
  BY <1>0, <1>1, <1>5, FirstStep
<1> QED
  BY <1>0, <1>1, <1>4, <1>6, SemReleasedRefines

LEMMA SemReleaseIsrRefines ==
  ASSUME SemInv, SemReleaseIsr
  PROVE  SemInv' /\ SemRefines
<1>0. BlockInv /\ Sem \in Waits
  BY SemAssumption DEF SemInv
<1>1. SemReleased /\ pc' = pc /\ timed' = timed \ First(Sem)
      /\ k' = IF First(Sem) # {} THEN Schedule(ResumeFirst(k, Sem)) ELSE k
  BY DEF SemReleaseIsr, SemReleased, Wake
<1>2. First(Sem) = {} => ResumeFirst(k, Sem) = k
  BY DEF First, ResumeFirst
<1>3. /\ BlockInv' /\ k'.prio = k.prio
      /\ First(Sem) \subseteq ToSet(k.wait[Sem])
      /\ \A v \in Waits : ToSet(k'.wait[v]) = ToSet(k.wait[v]) \ First(Sem)
      /\ k.wait[Sem] # << >> => k'.wait[Sem] = Tail(k.wait[Sem]) /\ First(Sem) = {Head(k.wait[Sem])}
      /\ k.wait[Sem] = << >> => k'.wait[Sem] = << >> /\ First(Sem) = {}
  BY <1>0, <1>1, <1>2, FirstStep
<1>4. \A u \in Threads : OnCall(u, Sem)' <=> OnCall(u, Sem)
  BY <1>1 DEF OnCall
<1> QED
  BY <1>0, <1>1, <1>3, <1>4, SemReleasedRefines

\* All waiters are told that the semaphore was reset.
LEMMA SemResetRefines ==
  ASSUME SemInv, NEW t \in Threads, NEW v \in 0 .. MaxValue, SemReset(t, v)
  PROVE  SemInv' /\ SemRefines
<1> DEFINE W == ToSet(k.wait[Sem])
<1>0. BlockInv /\ Sem \in Waits /\ Sem # "sched"
  BY SemAssumption, SectionAssumption DEF SemInv
<1>1. Runs(t) /\ k' = ResumeThose(k, Sem, W) /\ Call(t, <<"sched">>) /\ timed' = timed \ W /\ value' = v
      /\ err' = [u \in Threads |-> IF u \in W THEN "ERROR" ELSE err[u]]
  BY DEF SemReset, Wake, ResumeAll
<1>2. Live(t) /\ pc[t] = << >>
  BY <1>0, <1>1, RunsLive DEF Runs
<1>3. CallOK(<<"sched">>) /\ Sem \notin ToSet(<<"sched">>) /\ Sem \notin ToSet(<< >>)
  BY <1>0, CallFacts DEF CallOK
<1>4. \A u \in Threads : Sem \in ToSet(pc'[u]) <=> Sem \in ToSet(pc[u])
  <2>1. pc'[t] = <<"sched">> /\ \A u \in Threads \ {t} : pc'[u] = pc[u]
    BY <1>0, <1>1 DEF Call, BlockInv, BlockOK
  <2> QED
    BY <1>2, <1>3, <2>1
<1>5. \E u, r : Live(u) /\ CallOK(r) /\ Call(u, r)
  BY <1>1, <1>2, <1>3
<1>6. BlockInv' /\ k'.prio = k.prio /\ ToSet(k'.wait[Sem]) = {}
  <2>1. W \in SUBSET ToSet(k.wait[Sem])
    OBVIOUS
  <2> HIDE DEF W
  <2>2. BlockInv' /\ k'.prio = k.prio /\ \A z \in Waits : ToSet(k'.wait[z]) = ToSet(k.wait[z]) \ W
    BY <1>0, <1>1, <1>5, <2>1, ThoseStep
  <2> QED
    BY <1>0, <2>2 DEF W
<1>7. k'.wait[Sem] = << >>
  <2>1. Holds(k'.wait[Sem], ToSet(k'.wait[Sem]))
    BY <1>0, <1>6 DEF BlockInv, BlockOK, KernelOK, LinksOK
  <2> QED
    BY <1>6, <2>1, HoldsFacts
<1>8. \A u \in Threads : Outcome(u)' = IF Outcome(u) = "waits" THEN "failed" ELSE Outcome(u)
  BY <1>1, <1>4, <1>6 DEF Outcome
<1>9. Got' = [u \in Threads |-> IF Got[u] = "waits" THEN "failed" ELSE Got[u]]
  BY <1>8 DEF Got
<1>10. Abstract!Reset(v)
  BY <1>1, <1>7, <1>9, Zenon DEF Abstract!Reset, Got
<1>11. SemInv'
  BY <1>1, <1>6 DEF SemInv
<1> QED
  BY <1>10, <1>11 DEF SemRefines, Abstract!Next

\* The timer of a thread expires while it waits for a token, or elsewhere.
LEMMA SemTimeoutRefines ==
  ASSUME SemInv, NEW u \in Threads, Timeout(u), value' = value
  PROVE  SemInv' /\ SemRefines
<1>0. BlockInv /\ Sem \in Waits
  BY SemAssumption DEF SemInv
<1>1. /\ BlockInv' /\ k'.prio = k.prio /\ u \in timed /\ pc' = pc
      /\ k'.wait[Sem] = Unlinked(k.wait[Sem], u) /\ ToSet(k'.wait[Sem]) = ToSet(k.wait[Sem]) \ {u}
  BY <1>0, TimeoutStep
<1>2. err' = IF Waits \cap ToSet(pc[u]) # {} THEN [err EXCEPT ![u] = "ETIMEOUT"] ELSE err
  BY DEF Timeout
<1>3. SemInv'
  BY <1>1, <1>2 DEF SemInv
<1>4. u \in ToSet(k.wait[Sem]) <=> OnCall(u, Sem)
  BY <1>0, <1>1, WaitersTimed
<1>5. \A t \in Threads \ {u} : err'[t] = err[t]
  BY <1>2 DEF SemInv
<1>6. CASE u \in ToSet(k.wait[Sem])
  <2> DEFINE q == k.wait[Sem]
             i == CHOOSE j \in DOMAIN q : q[j] = u
  <2>1. k'.wait[Sem] = RemoveAt(q, i)
    BY <1>1, <1>6 DEF Unlinked
  <2>2. i \in DOMAIN q /\ q[i] = u
    BY <1>6 DEF ToSet
  <2> HIDE DEF i
  <2>3. k'.wait[Sem] = Abstract!RemoveAt(q, i)
    BY <2>1, SemOperators
  <2>4. err'[u] = "ETIMEOUT"
    BY <1>0, <1>2, <1>4, <1>6 DEF OnCall, SemInv
  <2>5. \A t \in Threads \ {u} : Outcome(t)' = Outcome(t)
    BY <1>1, <1>5 DEF Outcome
  <2>6. Outcome(u)' = "failed" /\ Outcome(u) = "waits"
    BY <1>1, <1>4, <1>6, <2>4 DEF Outcome, OnCall
  <2>7. Got' = [Got EXCEPT ![u] = "failed"] /\ Got[u] = "waits"
    BY <2>5, <2>6 DEF Got
  <2>8. Abstract!GiveUp(u)
    BY <2>2, <2>3, <2>7, Zenon DEF Abstract!GiveUp, Got
  <2> QED
    BY <1>3, <2>8 DEF SemRefines, Abstract!Next
<1>7. CASE u \notin ToSet(k.wait[Sem])
  <2>1. k'.wait[Sem] = k.wait[Sem]
    BY <1>1, <1>7 DEF Unlinked
  <2>2. \A t \in Threads : OnCall(t, Sem)' <=> OnCall(t, Sem)
    BY <1>1 DEF OnCall
  <2>3. \A t \in Threads : OnCall(t, Sem) => err'[t] = err[t]
    BY <1>4, <1>5, <1>7
  <2> QED
    BY <1>3, <2>1, <2>2, <2>3, SemStutters
<1> QED
  BY <1>6, <1>7

\* Steps that have nothing to do with the semaphore.
LEMMA SemOthersRefine ==
  ASSUME SemInv, value' = value,
         Slice \/ \E t \in Threads : Sleep(t) \/ DoSchedule(t)
  PROVE  SemInv' /\ SemRefines
<1>0. BlockInv /\ Sem \in Waits /\ Sem # "sched"
  BY SemAssumption, SectionAssumption DEF SemInv
<1> DEFINE Unseen == /\ BlockInv' /\ k'.prio = k.prio /\ k'.wait = k.wait /\ err' = err
                     /\ \A u \in Threads : Sem \in ToSet(pc'[u]) <=> Sem \in ToSet(pc[u])
<1>1. Unseen
  <2>1. CASE Slice
    BY <1>0, <2>1, SliceStep DEF Slice
  <2>2. ASSUME NEW t \in Threads, Sleep(t) PROVE Unseen
    <3>1. /\ BlockInv' /\ k'.prio = k.prio /\ k'.wait = k.wait /\ pc[t] = << >>
          /\ ToSet(pc'[t]) = {"sched"} /\ \A u \in Threads \ {t} : pc'[u] = pc[u]
      BY <1>0, <2>2, SleepStep
    <3>2. Sem \notin ToSet(pc[t]) /\ Sem \notin ToSet(pc'[t])
      BY <1>0, <3>1, CallFacts
    <3> QED
      BY <2>2, <3>1, <3>2 DEF Sleep
  <2>3. ASSUME NEW t \in Threads, DoSchedule(t) PROVE Unseen
    BY <1>0, <2>3, DoScheduleStep DEF DoSchedule
  <2> QED
    BY <2>1, <2>2, <2>3
<1>2. SemInv'
  BY <1>1 DEF SemInv
<1> QED
  BY <1>1, <1>2, SemStutters DEF OnCall

\* The invariant holds, and every step is one of the counting semaphore.
LEMMA SemStep ==
  ASSUME SemInv, [SemNext(Threads)]_semVars
  PROVE  SemInv' /\ SemRefines
<1>1. CASE UNCHANGED semVars
  <2>1. SemInv'
    BY <1>1 DEF SemInv, BlockInv, semVars
  <2> QED
    BY <1>1, <2>1, SemStutters DEF semVars, OnCall
<1>2. ASSUME NEW t \in Threads, SemTake(t) PROVE SemInv' /\ SemRefines
  BY <1>2, SemTakeRefines
<1>3. ASSUME NEW t \in Threads, SemTakeWait(t) PROVE SemInv' /\ SemRefines
  BY <1>3, SemWaitRefines
<1>4. ASSUME NEW t \in Threads, SemTakeReturn(t) PROVE SemInv' /\ SemRefines
  BY <1>4, SemReturnRefines
<1>5. ASSUME NEW t \in Threads, SemRelease(t) PROVE SemInv' /\ SemRefines
  BY <1>5, SemReleaseRefines
<1>6. ASSUME NEW t \in Threads, NEW v \in 0 .. MaxValue, SemReset(t, v) PROVE SemInv' /\ SemRefines
  BY <1>6, SemResetRefines
<1>7. ASSUME NEW t \in Threads, Timeout(t), value' = value PROVE SemInv' /\ SemRefines
  BY <1>7, SemTimeoutRefines
<1>8. ASSUME NEW t \in Threads, Sleep(t) \/ DoSchedule(t), value' = value PROVE SemInv' /\ SemRefines
  BY <1>8, SemOthersRefine
<1>9. CASE Slice /\ value' = value
  BY <1>9, SemOthersRefine
<1>10. CASE SemReleaseIsr
  BY <1>10, SemReleaseIsrRefines
<1> QED
  BY <1>1, <1>2, <1>3, <1>4, <1>5, <1>6, <1>7, <1>8, <1>9, <1>10 DEF SemNext

\* The semaphore of ipc.c implements the counting semaphore, for any number of
\* threads, priorities and limit: a release that races a timeout or a reset
\* neither loses nor duplicates a token.
THEOREM SemRefinement == SemSpec => SemImplements
<1>1. SemInit => SemInv /\ Abstract!Init
  BY SemInitInv
<1>2. SemInv /\ [SemNext(Threads)]_semVars => SemInv' /\ SemRefines
  BY SemStep
<1> QED
  BY <1>1, <1>2, PTL DEF SemSpec, SemImplements, Abstract!Spec, SemRefines

-----------------------------------------------------------------------------
(* The event set *)

\* A waiter's event_set holds what it has asked for until it is woken, and what
\* is set does not meet it.
EvInv ==
    /\ BlockInv /\ err = [t \in Threads |-> err[t]]
    /\ eventSet \in [Threads -> SUBSET Bits] /\ asked \in [Threads -> SUBSET Bits]
    /\ eventInfo \in [Threads -> Options]
    /\ \A t \in ToSet(k.wait[Event]) : eventSet[t] = asked[t] /\ asked[t] # {}
    /\ EvNoneLeft

\* Fewer events meet fewer requests.
LEMMA MetMonotone ==
  ASSUME NEW s, NEW o, NEW A, NEW B, A \subseteq B, ~ Met(s, o, B)
  PROVE  ~ Met(s, o, A)
  BY DEF Met

LEMMA EvInitInv == EvInit => EvInv
<1> SUFFICES ASSUME EvInit PROVE EvInv
  OBVIOUS
<1>1. BlockInv /\ ToSet(k.wait[Event]) = {}
  BY BlockingStart, EventAssumption, CallFacts DEF EvInit
<1>2. err = [t \in Threads |-> err[t]]
  BY DEF EvInit, BlockingInit
<1>3. NoOption \in Options
  BY DEF NoOption, Options
<1> QED
  BY <1>1, <1>2, <1>3 DEF EvInit, EvInv, EvNoneLeft

\* Steps after which nobody else waits and no more events are set.
LEMMA EvFewer ==
  ASSUME EvInv, BlockInv', err' = [t \in Threads |-> err'[t]],
         eventSet' = eventSet, asked' = asked, eventInfo' = eventInfo, set' \subseteq set,
         ToSet(k'.wait[Event]) \subseteq ToSet(k.wait[Event])
  PROVE  EvInv'
<1>1. ASSUME NEW t \in ToSet(k'.wait[Event])
      PROVE  ~ Met(asked'[t], eventInfo'[t], set')
  BY <1>1, MetMonotone DEF EvInv, EvNoneLeft
<1>2. EvNoneLeft'
  BY <1>1 DEF EvNoneLeft
<1> QED
  BY <1>2 DEF EvInv

\* What a send does to the waiters, called by a thread or by a handler.
LEMMA EvSentInv ==
  ASSUME EvInv, NEW s \in SUBSET Bits, EvSent(s), BlockInv',
         ToSet(k'.wait[Event]) = ToSet(k.wait[Event]) \ Satisfied(set \cup s)
  PROVE  EvInv'
<1> DEFINE events == set \cup s
           woken  == Satisfied(set \cup s)
<1>1. /\ set' \subseteq events /\ asked' = asked /\ eventInfo' = eventInfo
      /\ eventSet' = [t \in Threads |-> IF t \in woken THEN Received(t, events) ELSE eventSet[t]]
      /\ err' = [t \in Threads |-> IF t \in woken THEN "EOK" ELSE err[t]]
  BY DEF EvSent, Wake
<1>2. ToSet(k.wait[Event]) \subseteq Threads
  BY WaitersTimed, EventAssumption DEF EvInv
<1>3. \A t \in ToSet(k'.wait[Event]) :
         /\ t \in ToSet(k.wait[Event]) /\ t \in Threads /\ t \notin woken
         /\ ~ Met(eventSet[t], eventInfo[t], events)
  BY <1>2 DEF Satisfied
<1> HIDE DEF woken, events
<1>4. \A t \in ToSet(k'.wait[Event]) :
         eventSet'[t] = eventSet[t] /\ asked'[t] # {} /\ eventSet'[t] = asked'[t]
         /\ ~ Met(asked'[t], eventInfo'[t], events)
  BY <1>1, <1>3 DEF EvInv
<1>5. EvNoneLeft'
  BY <1>1, <1>4, MetMonotone DEF EvNoneLeft
<1>6. \A t \in Threads : Received(t, events) \in SUBSET Bits
  BY DEF EvInv, Received
<1>7. eventSet' \in [Threads -> SUBSET Bits]
  BY <1>1, <1>6 DEF EvInv
<1> QED
  BY <1>1, <1>4, <1>5, <1>7 DEF EvInv

LEMMA EvSendInv ==
  ASSUME EvInv, NEW t \in Threads, NEW s \in SUBSET Bits, EvSend(t, s)
  PROVE  EvInv'
<1> DEFINE woken == Satisfied(set \cup s)
           c == IF woken # {} THEN <<"sched">> ELSE << >>
<1>0. BlockInv /\ Event \in Waits
  BY EventAssumption DEF EvInv
<1>1. Runs(t) /\ EvSent(s) /\ k' = ResumeThose(k, Event, woken) /\ Call(t, c)
  BY DEF EvSend
<1>2. timed' = timed \ woken /\ woken \in SUBSET ToSet(k.wait[Event])
  BY <1>1 DEF EvSent, Wake, Satisfied
<1>3. Live(t) /\ CallOK(c)
  BY <1>0, <1>1, RunsLive DEF CallOK
<1> HIDE DEF woken, c
<1>4. \E u, r : Live(u) /\ CallOK(r) /\ Call(u, r)
  BY <1>1, <1>3
<1>5. BlockInv' /\ ToSet(k'.wait[Event]) = ToSet(k.wait[Event]) \ woken
  BY <1>0, <1>1, <1>2, <1>4, ThoseStep
<1> QED
  BY <1>1, <1>5, EvSentInv DEF woken

LEMMA EvSendIsrInv ==
  ASSUME EvInv, NEW s \in SUBSET Bits, EvSendIsr(s)
  PROVE  EvInv'
<1> DEFINE woken == Satisfied(set \cup s)
<1>0. BlockInv /\ Event \in Waits
  BY EventAssumption DEF EvInv
<1>1. EvSent(s) /\ k' = (IF woken # {} THEN Schedule(ResumeThose(k, Event, woken)) ELSE k) /\ pc' = pc
  BY DEF EvSendIsr
<1>2. timed' = timed \ woken /\ woken \in SUBSET ToSet(k.wait[Event])
  BY <1>1 DEF EvSent, Wake, Satisfied
<1> HIDE DEF woken
<1>3. BlockInv' /\ ToSet(k'.wait[Event]) = ToSet(k.wait[Event]) \ woken
  BY <1>0, <1>1, <1>2, ThoseStep
<1> QED
  BY <1>1, <1>3, EvSentInv DEF woken

LEMMA EvWaitInv ==
  ASSUME EvInv, NEW t \in Threads, NEW s \in (SUBSET Bits) \ {{}}, NEW o \in Options, EvRecvWait(t, s, o)
  PROVE  EvInv'
<1>0. BlockInv /\ Event \in Waits
  BY EventAssumption DEF EvInv
<1>1. /\ Runs(t) /\ ~ Met(s, o, set) /\ WaitOn(t, Event) /\ set' = set
      /\ eventSet' = [eventSet EXCEPT ![t] = s] /\ eventInfo' = [eventInfo EXCEPT ![t] = o]
      /\ asked' = [asked EXCEPT ![t] = s]
  BY DEF EvRecvWait
<1>2. Live(t)
  BY <1>0, <1>1, RunsLive
<1>3. BlockInv' /\ ToSet(k'.wait[Event]) = ToSet(k.wait[Event]) \cup {t}
  BY <1>0, <1>1, <1>2, WaitStep DEF Joined
<1>4. t \notin ToSet(k.wait[Event]) /\ ToSet(k.wait[Event]) \subseteq Threads
  BY <1>0, <1>2, LiveFacts, WaitersTimed
<1>5. /\ eventSet'[t] = s /\ eventInfo'[t] = o /\ asked'[t] = s
      /\ \A u \in Threads \ {t} : eventSet'[u] = eventSet[u] /\ eventInfo'[u] = eventInfo[u]
                                  /\ asked'[u] = asked[u]
  BY <1>1 DEF EvInv
<1>6. err' = [u \in Threads |-> err'[u]]
  BY <1>1 DEF WaitOn, EvInv
<1>7. EvNoneLeft'
  BY <1>1, <1>3, <1>4, <1>5 DEF EvNoneLeft, EvInv
<1>8. \A u \in ToSet(k'.wait[Event]) : eventSet'[u] = asked'[u] /\ asked'[u] # {}
  BY <1>3, <1>4, <1>5 DEF EvInv
<1> QED
  BY <1>1, <1>3, <1>6, <1>7, <1>8 DEF EvInv

LEMMA EvReturnInv ==
  ASSUME EvInv, NEW t \in Threads, EvRecvReturn(t)
  PROVE  EvInv' /\ ToSet(pc'[t]) = {} /\ \A u \in Threads \ {t} : eventSet'[u] = eventSet[u]
<1>0. BlockInv /\ Event \in Waits /\ Event # "sched"
  BY EventAssumption, SectionAssumption DEF EvInv
<1>1. /\ At(t, Event) /\ Done(t) /\ k' = k /\ timed' = timed /\ set' = set
      /\ err' = [err EXCEPT ![t] = "EOK"]
      /\ eventSet' = [eventSet EXCEPT ![t] = {}] /\ eventInfo' = [eventInfo EXCEPT ![t] = NoOption]
      /\ asked' = [asked EXCEPT ![t] = {}]
  BY DEF EvRecvReturn
<1>2. Live(t) /\ Tail(pc[t]) = << >>
  BY <1>0, <1>1, RunsLive, AtLast
<1>3. t \notin ToSet(k.wait[Event]) /\ ToSet(k.wait[Event]) \subseteq Threads
  BY <1>0, <1>2, LiveFacts, WaitersTimed
<1>4. Call(t, << >>) /\ CallOK(<< >>)
  BY <1>1, <1>2 DEF Done, Call, CallOK
<1>5. BlockInv'
  BY <1>0, <1>1, <1>2, <1>4, CallStep
<1>6. pc'[t] = << >>
  BY <1>0, <1>4 DEF Call, BlockInv, BlockOK
<1>7. \A u \in Threads \ {t} : eventSet'[u] = eventSet[u] /\ eventInfo'[u] = eventInfo[u]
                               /\ asked'[u] = asked[u]
  BY <1>1 DEF EvInv
<1>8. NoOption \in Options
  BY DEF NoOption, Options
<1>9. eventSet' \in [Threads -> SUBSET Bits] /\ asked' \in [Threads -> SUBSET Bits]
      /\ eventInfo' \in [Threads -> Options] /\ err' = [u \in Threads |-> err'[u]]
  BY <1>1, <1>8 DEF EvInv
<1>10. EvNoneLeft' /\ \A u \in ToSet(k'.wait[Event]) : eventSet'[u] = asked'[u] /\ asked'[u] # {}
  BY <1>1, <1>3, <1>7 DEF EvNoneLeft, EvInv
<1> QED
  BY <1>5, <1>6, <1>7, <1>9, <1>10, CallFacts DEF EvInv

LEMMA EvResetInv ==
  ASSUME EvInv, NEW t \in Threads, EvReset(t)
  PROVE  EvInv'
<1> DEFINE W == ToSet(k.wait[Event])
<1>0. BlockInv /\ Event \in Waits
  BY EventAssumption DEF EvInv
<1>1. Runs(t) /\ k' = ResumeThose(k, Event, W) /\ Call(t, <<"sched">>) /\ timed' = timed \ W /\ set' = {}
      /\ err' = [u \in Threads |-> IF u \in W THEN "ERROR" ELSE err[u]]
      /\ eventSet' = eventSet /\ eventInfo' = eventInfo /\ asked' = asked
  BY DEF EvReset, Wake, ResumeAll
<1>2. Live(t) /\ CallOK(<<"sched">>) /\ W \in SUBSET ToSet(k.wait[Event])
  BY <1>0, <1>1, RunsLive DEF CallOK
<1> HIDE DEF W
<1>3. \E u, r : Live(u) /\ CallOK(r) /\ Call(u, r)
  BY <1>1, <1>2
<1>4. BlockInv' /\ ToSet(k'.wait[Event]) = ToSet(k.wait[Event]) \ W
  BY <1>0, <1>1, <1>2, <1>3, ThoseStep
<1> QED
  BY <1>1, <1>4, EvFewer

\* A step the event does not see, but for the end of a wait.
LEMMA EvOthersInv ==
  ASSUME EvInv, UNCHANGED evState, Slice \/ \E t \in Threads : DoSchedule(t) \/ Timeout(t)
  PROVE  EvInv'
<1>0. BlockInv /\ Event \in Waits
  BY EventAssumption DEF EvInv
<1>1. eventSet' = eventSet /\ asked' = asked /\ eventInfo' = eventInfo /\ set' = set
  BY DEF evState
<1>2. CASE Slice
  <2>1. BlockInv' /\ k'.wait = k.wait /\ err' = err
    BY <1>0, <1>2, SliceStep DEF Slice
  <2> QED
    BY <1>1, <2>1, EvFewer DEF EvInv
<1>3. ASSUME NEW t \in Threads, DoSchedule(t) PROVE EvInv'
  <2>1. BlockInv' /\ k'.wait = k.wait /\ err' = err
    BY <1>0, <1>3, DoScheduleStep DEF DoSchedule
  <2> QED
    BY <1>1, <2>1, EvFewer DEF EvInv
<1>4. ASSUME NEW t \in Threads, Timeout(t) PROVE EvInv'
  <2>1. BlockInv' /\ ToSet(k'.wait[Event]) \subseteq ToSet(k.wait[Event])
    BY <1>0, <1>4, TimeoutStep
  <2>2. err' = [u \in Threads |-> err'[u]]
    BY <1>4 DEF Timeout, EvInv
  <2> QED
    BY <1>1, <2>1, <2>2, EvFewer
<1> QED
  BY <1>2, <1>3, <1>4

LEMMA EvRecvInv ==
  ASSUME EvInv, NEW t, NEW s, NEW o, EvRecv(t, s, o)
  PROVE  EvInv'
<1>1. UNCHANGED <<k, timed, err, pc>> /\ set' \subseteq set
      /\ eventSet' = eventSet /\ asked' = asked /\ eventInfo' = eventInfo
  BY DEF EvRecv, blockingVars
<1>2. BlockInv'
  BY <1>1 DEF BlockInv, EvInv
<1> QED
  BY <1>1, <1>2, EvFewer DEF EvInv

LEMMA EvStep ==
  ASSUME EvInv, [EvNext(Threads)]_evVars
  PROVE  EvInv'
<1>1. CASE UNCHANGED evVars
  BY <1>1 DEF EvInv, BlockInv, EvNoneLeft, evVars, blockingVars, evState
<1>2. ASSUME NEW s \in (SUBSET Bits) \ {{}}, NEW t \in Threads, NEW o \in Options,
             EvRecv(t, s, o) \/ EvRecvWait(t, s, o)
      PROVE  EvInv'
  BY <1>2, EvRecvInv, EvWaitInv
<1>3. ASSUME NEW s \in (SUBSET Bits) \ {{}}, EvSendIsr(s) \/ \E t \in Threads : EvSend(t, s)
      PROVE  EvInv'
  BY <1>3, EvSendInv, EvSendIsrInv
<1>4. ASSUME NEW t \in Threads, EvRecvReturn(t) \/ EvReset(t)
      PROVE  EvInv'
  BY <1>4, EvReturnInv, EvResetInv
<1>5. ASSUME UNCHANGED evState, Slice \/ \E t \in Threads : DoSchedule(t) \/ Timeout(t)
      PROVE  EvInv'
  BY <1>5, EvOthersInv
<1> QED
  BY <1>1, <1>2, <1>3, <1>4, <1>5 DEF EvNext

\* A waiter keeps the events it asks for, and none of the requests that are
\* waiting is met by the events set.
THEOREM EvInvariance == EvSpec => []EvInv
  BY EvInitInv, EvStep, PTL DEF EvSpec

\* No waiter is left behind: for any threads and events, the events set do not
\* meet the request of a thread that waits, after any sequence of sends.
THEOREM EvNobodyLeft == EvSpec => []EvNoneLeft
<1>1. EvInv => EvNoneLeft
  BY DEF EvInv
<1> QED
  BY <1>1, EvInvariance, PTL

\* A send that wakes takes its waiters out of the list, and only those.
LEMMA EvWoken ==
  ASSUME EvInv, EvInv', NEW s, EvSent(s), NEW t \in ToSet(k.wait[Event])
  PROVE  /\ t \in Satisfied(set \cup s) => t \notin ToSet(k'.wait[Event])
         /\ t \notin Satisfied(set \cup s) /\ Event \in ToSet(pc'[t]) => t \in ToSet(k'.wait[Event])
<1>1. timed' = timed \ Satisfied(set \cup s)
  BY DEF EvSent, Wake
<1>2. t \in timed
  BY WaitersTimed, EventAssumption DEF EvInv
<1>3. ToSet(k'.wait[Event]) = {u \in timed' : Event \in ToSet(pc'[u])}
  BY EventAssumption DEF EvInv, BlockInv, BlockOK
<1> QED
  BY <1>1, <1>2, <1>3

\* No event is lost: what a send removes has been received by a waiter that it
\* wakes and that has asked for the removal.
THEOREM EvNothingLost == EvSpec => EvConsumed
<1> DEFINE A == \A s \in (SUBSET Bits) \ {{}} :
                   EvSent(s) => \A e \in (set \cup s) \ set' :
                                   \E t \in ToSet(k.wait[Event]) \ ToSet(k'.wait[Event]) :
                                       eventInfo[t].clear /\ e \in eventSet'[t]
<1>1. ASSUME EvInv, EvInv' PROVE A
  <2> SUFFICES ASSUME NEW s \in (SUBSET Bits) \ {{}}, EvSent(s), NEW e \in (set \cup s) \ set'
               PROVE  \E t \in ToSet(k.wait[Event]) \ ToSet(k'.wait[Event]) :
                          eventInfo[t].clear /\ e \in eventSet'[t]
    OBVIOUS
  <2> DEFINE woken == Satisfied(set \cup s)
  <2>1. e \in Removed(woken, set \cup s)
    BY DEF EvSent
  <2>2. PICK t \in woken : eventInfo[t].clear /\ e \in Received(t, set \cup s)
    BY <2>1 DEF Removed
  <2>3. t \in ToSet(k.wait[Event]) /\ ToSet(k.wait[Event]) \subseteq Threads
    BY <1>1, WaitersTimed, EventAssumption DEF Satisfied, EvInv
  <2>4. eventSet'[t] = Received(t, set \cup s)
    BY <2>3 DEF EvSent
  <2>5. t \notin ToSet(k'.wait[Event])
    BY <1>1, <2>3, EvWoken
  <2> QED
    BY <2>2, <2>3, <2>4, <2>5
<1>2. EvInv /\ EvInv' /\ [EvNext(Threads)]_evVars => [A]_evVars
  BY <1>1
<1> QED
  BY <1>2, EvInvariance, PTL DEF EvSpec, EvConsumed

\* A woken thread that has not come back yet keeps its answer.
LEMMA EvKeepsAnswer ==
  ASSUME EvInv, [EvNext(Threads)]_evVars, NEW t \in Threads,
         Event \in ToSet(pc[t]), Event \in ToSet(pc'[t]), t \notin ToSet(k.wait[Event])
  PROVE  eventSet'[t] = eventSet[t]
<1>1. CASE UNCHANGED eventSet
  BY <1>1
<1>2. ASSUME NEW u \in Threads, NEW s, NEW o, EvRecvWait(u, s, o)
      PROVE  eventSet'[t] = eventSet[t]
  <2>1. pc[u] = << >> /\ eventSet' = [eventSet EXCEPT ![u] = s]
    BY <1>2 DEF EvRecvWait, Runs
  <2>2. u # t
    BY <2>1, CallFacts
  <2> QED
    BY <2>1, <2>2 DEF EvInv
<1>3. ASSUME NEW s, EvSent(s)
      PROVE  eventSet'[t] = eventSet[t]
  BY <1>3 DEF EvSent, Satisfied
<1>4. ASSUME NEW u \in Threads, EvRecvReturn(u)
      PROVE  eventSet'[t] = eventSet[t]
  <2>1. ToSet(pc'[u]) = {} /\ \A v \in Threads \ {u} : eventSet'[v] = eventSet[v]
    BY <1>4, EvReturnInv
  <2> QED
    BY <2>1
<1> QED
  BY <1>1, <1>2, <1>3, <1>4
     DEF EvNext, EvRecv, EvSend, EvSendIsr, EvReset, evState, evVars

\* The answer of a thread that a send wakes.
LEMMA EvAnswer ==
  ASSUME EvInv, EvInv', NEW s, EvSent(s), NEW t \in ToSet(k.wait[Event]),
         Event \in ToSet(pc'[t]), t \notin ToSet(k'.wait[Event])
  PROVE  /\ eventSet'[t] # {} /\ eventSet'[t] \subseteq asked[t] \cap (set \cup s)
         /\ eventInfo[t].all => eventSet'[t] = asked[t]
<1>1. t \in Satisfied(set \cup s)
  BY EvWoken
<1>2. t \in Threads /\ eventSet[t] = asked[t] /\ asked[t] # {}
  BY WaitersTimed, EventAssumption DEF EvInv
<1>3. eventSet'[t] = Received(t, set \cup s) /\ Met(asked[t], eventInfo[t], set \cup s)
  BY <1>1, <1>2 DEF EvSent, Satisfied
<1> QED
  BY <1>2, <1>3 DEF Received, Met

\* A thread that a send wakes is told events that were set and answer its
\* request, and finds that answer when it returns.
THEOREM EvAnswersHold == EvSpec => EvTold
<1> DEFINE A == \A t \in Threads :
                  Event \in ToSet(pc[t]) /\ Event \in ToSet(pc'[t]) /\ t \notin ToSet(k'.wait[Event])
                    /\ err'[t] = "EOK" =>
                       IF t \in ToSet(k.wait[Event])
                       THEN \A s \in SUBSET Bits :
                              EvSent(s) =>
                                /\ eventSet'[t] # {} /\ eventSet'[t] \subseteq asked[t] \cap (set \cup s)
                                /\ eventInfo[t].all => eventSet'[t] = asked[t]
                       ELSE eventSet'[t] = eventSet[t]
<1>1. ASSUME EvInv, EvInv', [EvNext(Threads)]_evVars PROVE A
  BY <1>1, EvKeepsAnswer, EvAnswer
<1>2. EvInv /\ EvInv' /\ [EvNext(Threads)]_evVars => [A]_evVars
  BY <1>1
<1> QED
  BY <1>2, EvInvariance, PTL DEF EvSpec, EvTold

-----------------------------------------------------------------------------
(* The mailbox: the ring *)

\* The offsets i and o enclose the n words in ring p, all of which were sent.
RingOK(p, i, o, n) ==
    /\ n \in 0 .. MbSize /\ i \in Slots /\ o \in Slots
    /\ i = (o + n) % MbSize
    /\ p \in [Slots -> Mails \cup {NoMail}]
    /\ \A j \in 1 .. n : p[(o + j - 1) % MbSize] \in Mails

RingInv == RingOK(pool, inOffset, outOffset, entry)

\* The state of the bounded queue, and its messages.
MbHand     == [t \in Threads |-> NoMail]
MbMessages == [mail : Mails, prio : {0}]
MbMessage(mail) == [mail |-> mail, prio |-> 0]

MbRefines == MbQueue!Next \/ UNCHANGED MbQueue!vars

\* An offset o advanced by n slots.
LEMMA RingSlot ==
  ASSUME NEW o \in Slots, NEW n \in 0 .. MbSize
  PROVE  (o + n) % MbSize = IF o + n < MbSize THEN o + n ELSE o + n - MbSize
  BY MbAssumption DEF Slots

\* The i-th word from offset o on.
LEMMA RingWord ==
  ASSUME NEW o \in Slots, NEW i \in 1 .. MbSize
  PROVE  /\ (o + i - 1) % MbSize = IF o + i - 1 < MbSize THEN o + i - 1 ELSE o + i - 1 - MbSize
         /\ (o + i - 1) % MbSize \in Slots
<1>1. i - 1 \in 0 .. MbSize /\ o + (i - 1) = o + i - 1
  BY MbAssumption DEF Slots
<1>2. (o + i - 1) % MbSize = IF o + i - 1 < MbSize THEN o + i - 1 ELSE o + i - 1 - MbSize
  BY <1>1, RingSlot
<1> QED
  BY <1>2, MbAssumption DEF Slots

LEMMA RingFirst == \A o \in Slots : (o + 1 - 1) % MbSize = o
  BY MbAssumption DEF Slots

\* The words in the ring as messages.
Words(p, o, n) == [j \in 1 .. n |-> MbMessage(p[(o + j - 1) % MbSize])]

LEMMA RingWords ==
  ASSUME NEW p, NEW i, NEW o, NEW n, RingOK(p, i, o, n), NEW c, c = Words(p, o, n)
  PROVE  /\ c \in Seq(MbMessages) /\ Len(c) = n /\ n \in Nat
         /\ \A j \in 1 .. n : c[j] = MbMessage(p[(o + j - 1) % MbSize])
<1>1. n \in Nat
  BY DEF RingOK
<1>2. \A j \in 1 .. n : MbMessage(p[(o + j - 1) % MbSize]) \in MbMessages
  BY DEF RingOK, MbMessage, MbMessages
<1>3. c \in [1 .. n -> MbMessages] /\ \A j \in 1 .. n : c[j] = MbMessage(p[(o + j - 1) % MbSize])
  BY <1>2 DEF Words
<1> QED
  BY <1>1, <1>3

LEMMA RingContents ==
  /\ MbContents = Words(pool, outOffset, entry)
  /\ MbContents' = Words(pool', outOffset', entry')
  BY DEF MbContents, Words, MbMessage

\* Two sequences with the same length and elements.
LEMMA SameSeq ==
  ASSUME NEW T, NEW r \in Seq(T), NEW s \in Seq(T), Len(r) = Len(s), \A i \in 1 .. Len(s) : r[i] = s[i]
  PROVE  r = s
  OBVIOUS

\* A word is put behind the others.
LEMMA PutLastFacts ==
  ASSUME RingInv, entry < MbSize, NEW mail \in Mails, PutLast(mail)
  PROVE  /\ RingInv' /\ entry' = entry + 1
         /\ MbContents' = InsertAt(MbContents, entry + 1, MbMessage(mail))
<1>1. /\ pool' = [pool EXCEPT ![inOffset] = mail] /\ inOffset' = NextSlot(inOffset)
      /\ entry' = entry + 1 /\ outOffset' = outOffset
  BY DEF PutLast
<1>2. /\ entry \in 0 .. MbSize /\ entry \in Nat /\ MbSize \in Nat \ {0}
      /\ inOffset \in Slots /\ outOffset \in Slots
      /\ inOffset = IF outOffset + entry < MbSize THEN outOffset + entry ELSE outOffset + entry - MbSize
  BY RingSlot, MbAssumption DEF RingInv, RingOK
<1>3. inOffset' \in Slots /\ inOffset' = (outOffset' + entry') % MbSize
  <2>1. entry + 1 \in 0 .. MbSize
    BY <1>2
  <2>2. (outOffset + (entry + 1)) % MbSize =
          IF outOffset + (entry + 1) < MbSize THEN outOffset + (entry + 1) ELSE outOffset + (entry + 1) - MbSize
    BY <1>2, <2>1, RingSlot
  <2>3. inOffset' = IF inOffset + 1 >= MbSize THEN 0 ELSE inOffset + 1
    BY <1>1 DEF NextSlot
  <2> QED
    BY <1>1, <1>2, <2>2, <2>3 DEF Slots
<1>4. pool' \in [Slots -> Mails \cup {NoMail}] /\ pool'[inOffset] = mail
      /\ \A j \in Slots \ {inOffset} : pool'[j] = pool[j]
  BY <1>1, <1>2 DEF RingInv, RingOK
<1>5. ASSUME NEW i \in 1 .. entry
      PROVE  (outOffset + i - 1) % MbSize \in Slots \ {inOffset}
  <2>1. i \in 1 .. MbSize
    BY <1>2
  <2>2. /\ (outOffset + i - 1) % MbSize \in Slots
        /\ (outOffset + i - 1) % MbSize =
             IF outOffset + i - 1 < MbSize THEN outOffset + i - 1 ELSE outOffset + i - 1 - MbSize
    BY <1>2, <2>1, RingWord
  <2>3. (outOffset + i - 1) % MbSize # inOffset
    BY <1>2, <2>2 DEF Slots
  <2> QED
    BY <2>2, <2>3
<1>6. \A i \in 1 .. entry : pool'[(outOffset + i - 1) % MbSize] = pool[(outOffset + i - 1) % MbSize]
  BY <1>4, <1>5
<1>7. (outOffset + (entry + 1) - 1) % MbSize = inOffset
  <2>1. outOffset + (entry + 1) - 1 = outOffset + entry
    BY <1>2 DEF Slots
  <2> QED
    BY <2>1 DEF RingInv, RingOK
<1>8. \A i \in 1 .. entry' : pool'[(outOffset' + i - 1) % MbSize] =
                               IF i = entry + 1 THEN mail ELSE pool[(outOffset + i - 1) % MbSize]
  <2> SUFFICES ASSUME NEW i \in 1 .. entry + 1
               PROVE  pool'[(outOffset + i - 1) % MbSize] =
                        IF i = entry + 1 THEN mail ELSE pool[(outOffset + i - 1) % MbSize]
    BY <1>1
  <2>1. i = entry + 1 \/ i \in 1 .. entry
    BY <1>2
  <2> QED
    BY <1>2, <1>4, <1>6, <1>7, <2>1
<1>9. RingInv'
  <2>1. entry' \in 0 .. MbSize
    BY <1>1, <1>2
  <2>2. \A i \in 1 .. entry' : pool'[(outOffset' + i - 1) % MbSize] \in Mails
    <3>1. \A i \in 1 .. entry' : i = entry + 1 \/ i \in 1 .. entry
      BY <1>1, <1>2
    <3> QED
      BY <1>8, <3>1 DEF RingInv, RingOK
  <2> QED
    BY <1>1, <1>3, <1>4, <2>1, <2>2, <1>2 DEF RingInv, RingOK
<1> DEFINE r == InsertAt(MbContents, entry + 1, MbMessage(mail))
<1>10. /\ MbContents \in Seq(MbMessages) /\ Len(MbContents) = entry
       /\ \A i \in 1 .. entry : MbContents[i] = MbMessage(pool[(outOffset + i - 1) % MbSize])
  BY RingContents, RingWords DEF RingInv
<1>11. MbMessage(mail) \in MbMessages /\ entry + 1 \in 1 .. Len(MbContents) + 1
  BY <1>2, <1>10 DEF MbMessage, MbMessages
<1>12. /\ r \in Seq(MbMessages) /\ Len(r) = entry + 1
       /\ \A i \in 1 .. Len(r) : r[i] = IF i < entry + 1 THEN MbContents[i]
                                        ELSE IF i = entry + 1 THEN MbMessage(mail) ELSE MbContents[i-1]
  BY <1>10, <1>11, InsertAtFacts
<1>13. /\ MbContents' \in Seq(MbMessages) /\ Len(MbContents') = entry'
       /\ \A i \in 1 .. entry' : MbContents'[i] = MbMessage(pool'[(outOffset' + i - 1) % MbSize])
  BY <1>9, RingContents, RingWords DEF RingInv
<1> HIDE DEF r
<1>14. \A i \in 1 .. Len(r) : MbContents'[i] = r[i]
  <2> SUFFICES ASSUME NEW i \in 1 .. entry + 1 PROVE MbContents'[i] = r[i]
    BY <1>12
  <2>1. i \in 1 .. entry' /\ i \in 1 .. Len(r)
    BY <1>1, <1>12
  <2>2. CASE i = entry + 1
    BY <1>2, <1>8, <1>12, <1>13, <2>1, <2>2
  <2>3. CASE i # entry + 1
    <3>1. i \in 1 .. entry /\ i < entry + 1
      BY <1>2, <2>3
    <3> QED
      BY <1>8, <1>10, <1>12, <1>13, <2>1, <2>3, <3>1
  <2> QED
    BY <2>2, <2>3
<1>15. MbContents' = r
  BY <1>1, <1>12, <1>13, <1>14, SameSeq
<1> QED
  BY <1>1, <1>9, <1>15 DEF r

\* A word is put in front of the others.
LEMMA PutFirstFacts ==
  ASSUME RingInv, entry < MbSize, NEW mail \in Mails, PutFirst(mail)
  PROVE  /\ RingInv' /\ entry' = entry + 1
         /\ MbContents' = <<MbMessage(mail)>> \o MbContents
<1>1. /\ pool' = [pool EXCEPT ![outOffset'] = mail] /\ inOffset' = inOffset
      /\ entry' = entry + 1 /\ outOffset' = IF outOffset > 0 THEN outOffset - 1 ELSE MbSize - 1
  BY DEF PutFirst
<1>2. /\ entry \in 0 .. MbSize /\ entry \in Nat /\ MbSize \in Nat \ {0}
      /\ inOffset \in Slots /\ outOffset \in Slots /\ outOffset' \in Slots
      /\ inOffset = IF outOffset + entry < MbSize THEN outOffset + entry ELSE outOffset + entry - MbSize
  BY <1>1, RingSlot, MbAssumption DEF RingInv, RingOK, Slots
<1>3. inOffset = (outOffset' + entry') % MbSize
  <2>1. entry + 1 \in 0 .. MbSize
    BY <1>2
  <2>2. (outOffset' + (entry + 1)) % MbSize =
          IF outOffset' + (entry + 1) < MbSize THEN outOffset' + (entry + 1)
          ELSE outOffset' + (entry + 1) - MbSize
    BY <1>2, <2>1, RingSlot
  <2> QED
    BY <1>1, <1>2, <2>2 DEF Slots
<1>4. pool' \in [Slots -> Mails \cup {NoMail}] /\ pool'[outOffset'] = mail
      /\ \A j \in Slots \ {outOffset'} : pool'[j] = pool[j]
  BY <1>1, <1>2 DEF RingInv, RingOK
<1>5. ASSUME NEW i \in 1 .. entry
      PROVE  /\ (outOffset + i - 1) % MbSize \in Slots \ {outOffset'}
             /\ (outOffset' + (i + 1) - 1) % MbSize = (outOffset + i - 1) % MbSize
  <2>1. i \in 1 .. MbSize /\ i + 1 \in 1 .. MbSize
    BY <1>2
  <2>2. /\ (outOffset + i - 1) % MbSize \in Slots
        /\ (outOffset + i - 1) % MbSize =
             IF outOffset + i - 1 < MbSize THEN outOffset + i - 1 ELSE outOffset + i - 1 - MbSize
    BY <1>2, <2>1, RingWord
  <2>3. (outOffset' + (i + 1) - 1) % MbSize =
           IF outOffset' + (i + 1) - 1 < MbSize THEN outOffset' + (i + 1) - 1
           ELSE outOffset' + (i + 1) - 1 - MbSize
    BY <1>2, <2>1, RingWord
  <2>4. (outOffset + i - 1) % MbSize # outOffset'
    BY <1>1, <1>2, <2>2 DEF Slots
  <2>5. (outOffset' + (i + 1) - 1) % MbSize = (outOffset + i - 1) % MbSize
    BY <1>1, <1>2, <2>1, <2>2, <2>3 DEF Slots
  <2> QED
    BY <2>2, <2>4, <2>5
<1>6. (outOffset' + 1 - 1) % MbSize = outOffset'
  BY <1>2, RingFirst
<1>7. ASSUME NEW i \in 1 .. entry + 1
      PROVE  pool'[(outOffset' + i - 1) % MbSize] =
               IF i = 1 THEN mail ELSE pool[(outOffset + (i - 1) - 1) % MbSize]
  <2>1. CASE i = 1
    BY <1>4, <1>6, <2>1
  <2>2. CASE i # 1
    <3> DEFINE j == i - 1
    <3>1. j \in 1 .. entry /\ i = j + 1
      BY <1>2, <2>2
    <3> HIDE DEF j
    <3>2. pool'[(outOffset' + (j + 1) - 1) % MbSize] = pool[(outOffset + j - 1) % MbSize]
      BY <1>4, <1>5, <3>1
    <3> QED
      BY <2>2, <3>1, <3>2 DEF j
  <2> QED
    BY <2>1, <2>2
<1>8. RingInv'
  <2>1. entry' \in 0 .. MbSize
    BY <1>1, <1>2
  <2>2. ASSUME NEW i \in 1 .. entry + 1 PROVE pool'[(outOffset' + i - 1) % MbSize] \in Mails
    <3>1. i = 1 \/ i - 1 \in 1 .. entry
      BY <1>2
    <3> QED
      BY <1>7, <3>1 DEF RingInv, RingOK
  <2> QED
    BY <1>1, <1>2, <1>3, <1>4, <2>1, <2>2 DEF RingInv, RingOK
<1> DEFINE r == <<MbMessage(mail)>> \o MbContents
<1>10. /\ MbContents \in Seq(MbMessages) /\ Len(MbContents) = entry
       /\ \A i \in 1 .. entry : MbContents[i] = MbMessage(pool[(outOffset + i - 1) % MbSize])
  BY RingContents, RingWords DEF RingInv
<1>11. MbMessage(mail) \in MbMessages
  BY DEF MbMessage, MbMessages
<1>12. /\ r \in Seq(MbMessages) /\ Len(r) = entry + 1
       /\ \A i \in 1 .. entry + 1 : r[i] = IF i = 1 THEN MbMessage(mail) ELSE MbContents[i-1]
  BY <1>2, <1>10, <1>11
<1>13. /\ MbContents' \in Seq(MbMessages) /\ Len(MbContents') = entry'
       /\ \A i \in 1 .. entry' : MbContents'[i] = MbMessage(pool'[(outOffset' + i - 1) % MbSize])
  BY <1>8, RingContents, RingWords DEF RingInv
<1> HIDE DEF r
<1>14. ASSUME NEW i \in 1 .. entry + 1 PROVE MbContents'[i] = r[i]
  <2>1. i \in 1 .. entry' /\ (i # 1 => i - 1 \in 1 .. entry)
    BY <1>1, <1>2
  <2>2. CASE i = 1
    BY <1>7, <1>12, <1>13, <2>1, <2>2
  <2>3. CASE i # 1
    BY <1>7, <1>10, <1>12, <1>13, <2>1, <2>3
  <2> QED
    BY <2>2, <2>3
<1>15. MbContents' = r
  BY <1>1, <1>12, <1>13, <1>14, SameSeq
<1> QED
  BY <1>1, <1>8, <1>15 DEF r

\* The oldest word is taken out.
LEMMA GetFirstFacts ==
  ASSUME RingInv, entry > 0, GetFirst
  PROVE  /\ RingInv' /\ entry' = entry - 1 /\ MbContents # << >>
         /\ MbContents' = Tail(MbContents) /\ mbLast' = Head(MbContents).mail
<1>1. /\ mbLast' = pool[outOffset] /\ outOffset' = NextSlot(outOffset) /\ entry' = entry - 1
      /\ pool' = pool /\ inOffset' = inOffset
  BY DEF GetFirst
<1>2. /\ entry \in 0 .. MbSize /\ entry \in Nat \ {0} /\ MbSize \in Nat \ {0}
      /\ inOffset \in Slots /\ outOffset \in Slots
      /\ outOffset' = IF outOffset + 1 >= MbSize THEN 0 ELSE outOffset + 1
      /\ inOffset = IF outOffset + entry < MbSize THEN outOffset + entry ELSE outOffset + entry - MbSize
  BY <1>1, RingSlot, MbAssumption DEF RingInv, RingOK, NextSlot
<1>3. outOffset' \in Slots
  BY <1>2 DEF Slots
<1>4. inOffset = (outOffset' + entry') % MbSize
  <2>1. entry - 1 \in 0 .. MbSize
    BY <1>2
  <2>2. (outOffset' + (entry - 1)) % MbSize =
          IF outOffset' + (entry - 1) < MbSize THEN outOffset' + (entry - 1)
          ELSE outOffset' + (entry - 1) - MbSize
    BY <1>3, <2>1, RingSlot
  <2> QED
    BY <1>1, <1>2, <2>2 DEF Slots
<1>5. ASSUME NEW i \in 1 .. entry - 1
      PROVE  (outOffset' + i - 1) % MbSize = (outOffset + (i + 1) - 1) % MbSize /\ i + 1 \in 1 .. entry
  <2>1. i \in 1 .. MbSize /\ i + 1 \in 1 .. MbSize /\ i + 1 \in 1 .. entry
    BY <1>2
  <2>2. (outOffset' + i - 1) % MbSize =
             IF outOffset' + i - 1 < MbSize THEN outOffset' + i - 1 ELSE outOffset' + i - 1 - MbSize
    BY <1>3, <2>1, RingWord
  <2>3. (outOffset + (i + 1) - 1) % MbSize =
           IF outOffset + (i + 1) - 1 < MbSize THEN outOffset + (i + 1) - 1
           ELSE outOffset + (i + 1) - 1 - MbSize
    BY <1>2, <2>1, RingWord
  <2>4. (outOffset' + i - 1) % MbSize = (outOffset + (i + 1) - 1) % MbSize
    BY <1>2, <2>1, <2>2, <2>3 DEF Slots
  <2> QED
    BY <2>1, <2>4
<1>6. RingInv'
  <2>1. entry' \in 0 .. MbSize
    BY <1>1, <1>2
  <2>2. \A i \in 1 .. entry' : pool'[(outOffset' + i - 1) % MbSize] \in Mails
    BY <1>1, <1>5 DEF RingInv, RingOK
  <2> QED
    BY <1>1, <1>2, <1>3, <1>4, <2>1, <2>2 DEF RingInv, RingOK
<1>7. /\ MbContents \in Seq(MbMessages) /\ Len(MbContents) = entry
      /\ \A i \in 1 .. entry : MbContents[i] = MbMessage(pool[(outOffset + i - 1) % MbSize])
  BY RingContents, RingWords DEF RingInv
<1>8. /\ MbContents' \in Seq(MbMessages) /\ Len(MbContents') = entry'
      /\ \A i \in 1 .. entry' : MbContents'[i] = MbMessage(pool'[(outOffset' + i - 1) % MbSize])
  BY <1>6, RingContents, RingWords DEF RingInv
<1> DEFINE r == Tail(MbContents)
<1>9. /\ MbContents # << >> /\ Head(MbContents) = MbContents[1]
      /\ r \in Seq(MbMessages) /\ Len(r) = entry - 1 /\ \A i \in 1 .. entry - 1 : r[i] = MbContents[i + 1]
  BY <1>2, <1>7
<1> HIDE DEF r
<1>10. ASSUME NEW i \in 1 .. entry - 1 PROVE MbContents'[i] = r[i]
  <2>1. MbContents'[i] = MbMessage(pool[(outOffset' + i - 1) % MbSize])
    BY <1>1, <1>8
  <2>2. r[i] = MbMessage(pool[(outOffset + (i + 1) - 1) % MbSize])
    BY <1>5, <1>7, <1>9
  <2> QED
    BY <1>5, <2>1, <2>2
<1>11. MbContents' = r
  BY <1>1, <1>8, <1>9, <1>10, SameSeq
<1>12. mbLast' = Head(MbContents).mail
  <2>1. 1 \in 1 .. entry
    BY <1>2
  <2>2. (outOffset + 1 - 1) % MbSize = outOffset
    BY <1>2, RingFirst
  <2>3. Head(MbContents) = MbMessage(pool[outOffset])
    BY <1>7, <1>9, <2>1, <2>2
  <2> QED
    BY <1>1, <2>3 DEF MbMessage
<1> QED
  BY <1>1, <1>6, <1>9, <1>11, <1>12 DEF r

-----------------------------------------------------------------------------
(* The mailbox: the calls *)

\* A waiting sender has a word to send, and no wake-up is lost.
MbInv ==
    /\ BlockInv /\ err = [t \in Threads |-> err[t]]
    /\ RingInv
    /\ toSend \in [Threads -> Mails \cup {NoMail}]
    /\ \A t \in Threads : OnCall(t, MbSenders) => toSend[t] \in Mails
    /\ MbNoLostWakeup

LEMMA MbServed ==
  /\ MbNoLostWakeup <=> /\ Served(k.wait[MbReceivers], entry, Woken(MbReceivers))
                        /\ Served(k.wait[MbSenders], MbSize - entry, Woken(MbSenders))
  /\ MbNoLostWakeup' <=> /\ Served(k'.wait[MbReceivers], entry', Woken(MbReceivers)')
                         /\ Served(k'.wait[MbSenders], MbSize - entry', Woken(MbSenders)')
  BY DEF MbNoLostWakeup, Served

LEMMA MbNames ==
  /\ MbReceivers \in Waits /\ MbSenders \in Waits /\ MbReceivers # MbSenders
  /\ MbReceivers # "sched" /\ MbSenders # "sched"
  BY MbAssumption, SectionAssumption

LEMMA MbOperators ==
  /\ \A S : MbQueue!Cardinality(S) = Cardinality(S)
  /\ \A s, i, e : MbQueue!InsertAt(s, i, e) = InsertAt(s, i, e)
<1>1. \A S : MbQueue!Cardinality(S) = Cardinality(S)
  BY Zenon DEF MbQueue!Cardinality, Cardinality
<1>2. \A s, i, e : MbQueue!InsertAt(s, i, e) = InsertAt(s, i, e)
  BY DEF MbQueue!InsertAt, InsertAt
<1> QED
  BY <1>1, <1>2

LEMMA MbStutters ==
  ASSUME MbContents' = MbContents, mbLast' = mbLast
  PROVE  MbRefines
<1>1. MbHand' = MbHand
  BY DEF MbHand
<1> QED
  BY <1>1 DEF MbRefines, MbQueue!vars, MbHand

\* Steps that leave the ring alone.
LEMMA MbRingKept ==
  ASSUME RingInv, UNCHANGED <<pool, inOffset, outOffset, entry, mbLast>>
  PROVE  RingInv' /\ MbRefines
<1>1. MbContents' = MbContents
  BY RingContents
<1> QED
  BY <1>1, MbStutters DEF RingInv

LEMMA MbHasRoom ==
  ASSUME RingInv, entry < MbSize
  PROVE  MbQueue!HasRoom
<1>1. {t \in Threads : MbHand[t] # NoMail} = {}
  BY DEF MbHand
<1>2. Cardinality({t \in Threads : MbHand[t] # NoMail}) = 0
  BY <1>1, FS_EmptySet
<1>3. Len(MbContents) = entry /\ entry \in Nat
  BY RingContents, RingWords DEF RingInv
<1>4. Len(MbContents) + Cardinality({t \in Threads : MbHand[t] # NoMail}) < MbSize
  BY <1>2, <1>3
<1> QED
  BY <1>4, MbOperators, Zenon DEF MbQueue!HasRoom, MbHand

\* What a call or a handler does to the ring is a step of the bounded queue.
LEMMA MbPutRefines ==
  ASSUME RingInv, entry < MbSize, NEW mail \in Mails, PutLast(mail) \/ PutFirst(mail)
  PROVE  RingInv' /\ entry' = entry + 1 /\ MbRefines
<1> DEFINE m == MbMessage(mail)
<1>1. MbQueue!HasRoom /\ m \in MbMessages
  BY MbHasRoom DEF MbMessage, MbMessages
<1>2. MbHand' = MbHand /\ mbLast' = mbLast
  BY DEF MbHand, PutLast, PutFirst
<1>3. CASE PutLast(mail)
  <2>1. RingInv' /\ entry' = entry + 1 /\ MbContents' = InsertAt(MbContents, entry + 1, m)
    BY <1>3, PutLastFacts
  <2>2. /\ MbContents \in Seq(MbMessages) /\ Len(MbContents) = entry /\ entry \in Nat
        /\ \A i \in 1 .. entry : MbContents[i] = MbMessage(pool[(outOffset + i - 1) % MbSize])
    BY RingContents, RingWords DEF RingInv
  <2>3. \A i \in 1 .. entry : MbContents[i].prio >= m.prio
    <3>1. \A x : MbMessage(x).prio = 0
      BY DEF MbMessage
    <3> QED
      BY <2>2, <3>1
  <2>4. entry \in 0 .. Len(MbContents) /\ ~ (entry < Len(MbContents))
    BY <2>2
  <2> HIDE DEF m
  <2>5. MbContents' = MbQueue!InsertAt(MbContents, entry + 1, m)
    BY <2>1, MbOperators
  <2>6. MbQueue!Send(m)
    BY <1>1, <1>2, <2>3, <2>4, <2>5, Zenon DEF MbQueue!Send, MbHand
  <2> QED
    BY <1>1, <2>1, <2>6 DEF MbRefines, MbQueue!Next, MbQueue!Messages, MbMessages
<1>4. CASE PutFirst(mail)
  <2>1. RingInv' /\ entry' = entry + 1 /\ MbContents' = <<m>> \o MbContents
    BY <1>4, PutFirstFacts
  <2> HIDE DEF m
  <2>2. MbQueue!Urgent(m)
    BY <1>1, <1>2, <2>1, Zenon DEF MbQueue!Urgent, MbHand
  <2> QED
    BY <1>1, <2>1, <2>2 DEF MbRefines, MbQueue!Next, MbQueue!Messages, MbMessages
<1> QED
  BY <1>3, <1>4

LEMMA MbGetRefines ==
  ASSUME RingInv, entry > 0, GetFirst
  PROVE  RingInv' /\ entry' = entry - 1 /\ MbRefines
<1>1. /\ RingInv' /\ entry' = entry - 1 /\ MbContents # << >>
      /\ MbContents' = Tail(MbContents) /\ mbLast' = Head(MbContents).mail
  BY GetFirstFacts
<1>2. MbHand' = MbHand
  BY DEF MbHand
<1>3. MbQueue!Receive
  BY <1>1, <1>2, Zenon DEF MbQueue!Receive, MbHand
<1> QED
  BY <1>1, <1>3 DEF MbRefines, MbQueue!Next

\* A call of t ends by telling the first waiter of w.
LEMMA MbNotifyStep ==
  ASSUME BlockInv, NEW w \in Waits, NEW t, Live(t), ~ OnCall(t, w), MbNotify(t, w)
  PROVE  /\ BlockInv' /\ err' = [u \in Threads |-> err'[u]]
         /\ Waits \cap ToSet(pc'[t]) = {} /\ \A u \in Threads \ {t} : pc'[u] = pc[u]
         /\ \A n \in Int : Served(k.wait[w], n, Woken(w)) => Served(k'.wait[w], n + 1, Woken(w)')
         /\ \A v \in Waits \ {w}, n \in Int :
               Served(k.wait[v], n, Woken(v)) => Served(k'.wait[v], n - 1, Woken(v)')
<1> DEFINE s == IF First(w) # {} THEN <<"sched">> ELSE << >>
<1>1. k' = ResumeFirst(k, w) /\ Wake(First(w), "EOK") /\ Call(t, s)
  BY DEF MbNotify, MbNotified, First, ResumeFirst
<1>2. s \in {<< >>, <<"sched">>} /\ Waits \cap ToSet(s) = {}
  BY CallFacts, SectionAssumption
<1> HIDE DEF s
<1> QED
  BY <1>1, <1>2, NotifyStep

\* Calls on the senders' list go on with what they had to send.
LEMMA MbToSendKept ==
  ASSUME MbInv, NEW t \in Threads, toSend' = toSend \/ MbDone(t),
         MbSenders \notin ToSet(pc'[t]), \A u \in Threads \ {t} : pc'[u] = pc[u]
  PROVE  /\ toSend' \in [Threads -> Mails \cup {NoMail}]
         /\ \A u \in Threads : OnCall(u, MbSenders)' => toSend'[u] \in Mails
<1>1. toSend' \in [Threads -> Mails \cup {NoMail}] /\ \A u \in Threads \ {t} : toSend'[u] = toSend[u]
  BY DEF MbInv, MbDone
<1> QED
  BY <1>1 DEF MbInv, OnCall

LEMMA MbPutStep ==
  ASSUME MbInv, NEW t, Live(t), ~ OnCall(t, MbReceivers), NEW mail \in Mails, entry < MbSize,
         PutLast(mail) \/ PutFirst(mail), MbNotify(t, MbReceivers), toSend' = toSend \/ MbDone(t)
  PROVE  MbInv' /\ MbRefines
<1>0. BlockInv /\ RingInv /\ t \in Threads /\ entry \in Int /\ MbSize \in Int
  BY LiveFacts, MbAssumption DEF MbInv, RingInv, RingOK
<1>1. RingInv' /\ entry' = entry + 1 /\ MbRefines
  BY <1>0, MbPutRefines
<1>2. /\ BlockInv' /\ err' = [u \in Threads |-> err'[u]]
      /\ Waits \cap ToSet(pc'[t]) = {} /\ \A u \in Threads \ {t} : pc'[u] = pc[u]
      /\ \A n \in Int : Served(k.wait[MbReceivers], n, Woken(MbReceivers)) =>
                           Served(k'.wait[MbReceivers], n + 1, Woken(MbReceivers)')
      /\ \A v \in Waits \ {MbReceivers}, n \in Int :
            Served(k.wait[v], n, Woken(v)) => Served(k'.wait[v], n - 1, Woken(v)')
  BY <1>0, MbNames, MbNotifyStep
<1>3. MbNoLostWakeup'
  <2>1. MbSize - entry' = (MbSize - entry) - 1 /\ MbSize - entry \in Int
    BY <1>0, <1>1
  <2>2. Served(k.wait[MbReceivers], entry, Woken(MbReceivers))
        /\ Served(k.wait[MbSenders], MbSize - entry, Woken(MbSenders))
    BY MbServed DEF MbInv
  <2>3. Served(k'.wait[MbReceivers], entry', Woken(MbReceivers)')
    BY <1>0, <1>1, <1>2, <2>2
  <2>4. Served(k'.wait[MbSenders], MbSize - entry', Woken(MbSenders)')
    BY <1>2, <2>1, <2>2, MbNames
  <2> QED
    BY <2>3, <2>4, MbServed
<1>4. /\ toSend' \in [Threads -> Mails \cup {NoMail}]
      /\ \A u \in Threads : OnCall(u, MbSenders)' => toSend'[u] \in Mails
  BY <1>0, <1>2, MbNames, MbToSendKept
<1> QED
  BY <1>1, <1>2, <1>3, <1>4 DEF MbInv

LEMMA MbGetStep ==
  ASSUME MbInv, NEW t, Live(t), ~ OnCall(t, MbSenders), entry > 0,
         GetFirst, MbNotify(t, MbSenders), toSend' = toSend \/ MbDone(t)
  PROVE  MbInv' /\ MbRefines
<1>0. BlockInv /\ RingInv /\ t \in Threads /\ entry \in Int /\ MbSize \in Int
  BY LiveFacts, MbAssumption DEF MbInv, RingInv, RingOK
<1>1. RingInv' /\ entry' = entry - 1 /\ MbRefines
  BY <1>0, MbGetRefines
<1>2. /\ BlockInv' /\ err' = [u \in Threads |-> err'[u]]
      /\ Waits \cap ToSet(pc'[t]) = {} /\ \A u \in Threads \ {t} : pc'[u] = pc[u]
      /\ \A n \in Int : Served(k.wait[MbSenders], n, Woken(MbSenders)) =>
                           Served(k'.wait[MbSenders], n + 1, Woken(MbSenders)')
      /\ \A v \in Waits \ {MbSenders}, n \in Int :
            Served(k.wait[v], n, Woken(v)) => Served(k'.wait[v], n - 1, Woken(v)')
  BY <1>0, MbNames, MbNotifyStep
<1>3. MbNoLostWakeup'
  <2>1. MbSize - entry' = (MbSize - entry) + 1 /\ MbSize - entry \in Int
    BY <1>0, <1>1
  <2>2. Served(k.wait[MbReceivers], entry, Woken(MbReceivers))
        /\ Served(k.wait[MbSenders], MbSize - entry, Woken(MbSenders))
    BY MbServed DEF MbInv
  <2>3. Served(k'.wait[MbReceivers], entry', Woken(MbReceivers)')
    BY <1>0, <1>1, <1>2, <2>2, MbNames
  <2>4. Served(k'.wait[MbSenders], MbSize - entry', Woken(MbSenders)')
    BY <1>2, <2>1, <2>2
  <2> QED
    BY <2>3, <2>4, MbServed
<1>4. /\ toSend' \in [Threads -> Mails \cup {NoMail}]
      /\ \A u \in Threads : OnCall(u, MbSenders)' => toSend'[u] \in Mails
  BY <1>0, <1>2, MbNames, MbToSendKept
<1> QED
  BY <1>1, <1>2, <1>3, <1>4 DEF MbInv

\* A call waits, for the first time or again.
LEMMA MbWaitStep ==
  ASSUME MbInv, NEW t, Live(t), NEW w \in {MbReceivers, MbSenders}, WaitOn(t, w),
         \A v \in {MbReceivers, MbSenders} \ {w} : ~ OnCall(t, v),
         entry = (IF w = MbSenders THEN MbSize ELSE 0),
         UNCHANGED <<pool, inOffset, outOffset, entry, mbLast>>,
         \/ toSend' = toSend /\ (w = MbSenders => OnCall(t, MbSenders))
         \/ \E mail \in Mails : toSend' = [toSend EXCEPT ![t] = mail]
  PROVE  MbInv' /\ MbRefines
<1>0. BlockInv /\ RingInv /\ t \in Threads /\ entry \in Int /\ MbSize \in Int
      /\ err = [u \in Threads |-> err[u]] /\ w \in Waits
  BY LiveFacts, MbAssumption DEF MbInv, RingInv, RingOK
<1>1. RingInv' /\ MbRefines
  BY <1>0, MbRingKept
<1>2. BlockInv' /\ ToSet(pc'[t]) = {"sched", w} /\ \A u \in Threads \ {t} : pc'[u] = pc[u]
  BY <1>0, WaitStep
<1>3. err' = [u \in Threads |-> err'[u]]
  BY <1>0 DEF WaitOn
<1>4. \A v \in {MbReceivers, MbSenders} \ {w} : Woken(v)' = Woken(v) /\ k'.wait[v] = k.wait[v]
  BY <1>0, MbNames, WokenWait
<1>5. MbNoLostWakeup'
  <2>1. Served(k.wait[MbReceivers], entry, Woken(MbReceivers))
        /\ Served(k.wait[MbSenders], MbSize - entry, Woken(MbSenders))
    BY MbServed DEF MbInv
  <2>2. \A v \in Waits : Woken(v)' \in SUBSET Threads
    BY DEF Woken
  <2>3. \A q : Served(q, 0, Woken(w)')
    BY <1>0, <2>2, ServedNone
  <2>4. CASE w = MbReceivers
    <3>1. entry' = 0 /\ entry' = entry
      BY <2>4, MbNames
    <3> QED
      BY <1>4, <2>1, <2>3, <2>4, <3>1, MbNames, MbServed
  <2>5. CASE w = MbSenders
    <3>1. MbSize - entry' = 0 /\ entry' = entry
      BY <1>0, <2>5
    <3> QED
      BY <1>4, <2>1, <2>3, <2>5, <3>1, MbNames, MbServed
  <2> QED
    BY <2>4, <2>5
<1>6. /\ toSend' \in [Threads -> Mails \cup {NoMail}]
      /\ \A u \in Threads : OnCall(u, MbSenders)' => toSend'[u] \in Mails
  <2>1. toSend' \in [Threads -> Mails \cup {NoMail}] /\ (\A u \in Threads \ {t} : toSend'[u] = toSend[u])
        /\ (w = MbSenders => toSend'[t] \in Mails)
    BY <1>0 DEF MbInv
  <2>2. OnCall(t, MbSenders)' => w = MbSenders
    BY <1>2, MbNames DEF OnCall
  <2>3. \A u \in Threads \ {t} : OnCall(u, MbSenders)' <=> OnCall(u, MbSenders)
    BY <1>2 DEF OnCall
  <2> QED
    BY <2>1, <2>2, <2>3 DEF MbInv
<1> QED
  BY <1>1, <1>2, <1>3, <1>5, <1>6 DEF MbInv

\* The calls in progress when a woken call goes on.
LEMMA MbAt ==
  ASSUME BlockInv, NEW t, NEW w \in {MbReceivers, MbSenders}, At(t, w)
  PROVE  /\ Live(t) /\ t \in Threads /\ OnCall(t, w) /\ Tail(pc[t]) = << >>
         /\ \A v \in {MbReceivers, MbSenders} \ {w} : ~ OnCall(t, v)
<1>1. w # "sched"
  BY MbNames
<1>2. Live(t) /\ Tail(pc[t]) = << >> /\ ToSet(pc[t]) = {w}
  BY <1>1, RunsLive, AtLast
<1>3. t \in Threads
  BY <1>2, LiveFacts
<1> QED
  BY <1>2, <1>3 DEF OnCall

LEMMA MbRuns ==
  ASSUME BlockInv, NEW t, Runs(t)
  PROVE  Live(t) /\ t \in Threads /\ \A v : ~ OnCall(t, v)
<1>1. Live(t) /\ pc[t] = << >>
  BY RunsLive DEF Runs
<1> QED
  BY <1>1, LiveFacts, CallFacts DEF OnCall

LEMMA MbGiveUpStep ==
  ASSUME MbInv, NEW t, NEW w \in {MbReceivers, MbSenders}, MbGiveUp(t, w)
  PROVE  MbInv' /\ MbRefines
<1>0. BlockInv /\ RingInv /\ entry \in Int /\ MbSize \in Int
      /\ err = [u \in Threads |-> err[u]] /\ w \in Waits
  BY MbAssumption DEF MbInv, RingInv, RingOK
<1>1. /\ At(t, w) /\ (err[t] # "EOK" \/ entry = (IF w = MbSenders THEN MbSize ELSE 0))
      /\ Done(t) /\ err' = [err EXCEPT ![t] = "EOK"] /\ MbDone(t) /\ k' = k /\ timed' = timed
      /\ UNCHANGED <<pool, inOffset, outOffset, entry, mbLast>>
  BY DEF MbGiveUp
<1>2. /\ Live(t) /\ t \in Threads /\ Tail(pc[t]) = << >>
      /\ \A v \in {MbReceivers, MbSenders} \ {w} : ~ OnCall(t, v)
  BY <1>0, <1>1, MbAt
<1>3. Call(t, << >>) /\ CallOK(<< >>) /\ Waits \cap ToSet(<< >>) = {}
  BY <1>1, <1>2, CallFacts DEF Done, Call, CallOK
<1>4. \A u \in Threads \ {t} : err'[u] = err[u]
  BY <1>0, <1>1
<1>5. /\ BlockInv' /\ pc'[t] = << >> /\ \A u \in Threads \ {t} : pc'[u] = pc[u]
      /\ \A v \in Waits, n \in Int :
            Served(k.wait[v], n, Woken(v)) =>
               (~ OnCall(t, v) \/ err[t] # "EOK" => Served(k'.wait[v], n, Woken(v)'))
  BY <1>0, <1>1, <1>2, <1>3, <1>4, TakenStep
<1>6. MbNoLostWakeup'
  <2>1. Served(k.wait[MbReceivers], entry, Woken(MbReceivers))
        /\ Served(k.wait[MbSenders], MbSize - entry, Woken(MbSenders))
    BY MbServed DEF MbInv
  <2>2. Woken(w)' \in SUBSET Threads
    BY DEF Woken
  <2>3. Served(k'.wait[w], 0, Woken(w)')
    BY <2>2, ServedNone
  <2>4. Served(k'.wait[MbReceivers], entry', Woken(MbReceivers)')
    <3>1. CASE entry = 0 /\ w = MbReceivers
      BY <1>1, <2>3, <3>1
    <3>2. CASE ~ (entry = 0 /\ w = MbReceivers)
      <4>1. ~ OnCall(t, MbReceivers) \/ err[t] # "EOK"
        BY <1>1, <1>2, <3>2, MbNames
      <4> QED
        BY <1>0, <1>1, <1>5, <2>1, <4>1, MbNames
    <3> QED
      BY <3>1, <3>2
  <2>5. Served(k'.wait[MbSenders], MbSize - entry', Woken(MbSenders)')
    <3>0. MbSize - entry \in Int /\ entry' = entry
      BY <1>0, <1>1
    <3>1. CASE entry = MbSize /\ w = MbSenders
      BY <1>0, <1>1, <2>3, <3>1
    <3>2. CASE ~ (entry = MbSize /\ w = MbSenders)
      <4>1. ~ OnCall(t, MbSenders) \/ err[t] # "EOK"
        BY <1>1, <1>2, <3>2, MbNames
      <4> QED
        BY <1>5, <2>1, <3>0, <4>1, MbNames
    <3> QED
      BY <3>1, <3>2
  <2> QED
    BY <2>4, <2>5, MbServed
<1>7. RingInv' /\ MbRefines
  BY <1>0, <1>1, MbRingKept
<1>8. /\ toSend' \in [Threads -> Mails \cup {NoMail}]
      /\ \A u \in Threads : OnCall(u, MbSenders)' => toSend'[u] \in Mails
  BY <1>1, <1>2, <1>5, CallFacts, MbToSendKept
<1>9. err' = [u \in Threads |-> err'[u]]
  BY <1>0, <1>1
<1> QED
  BY <1>5, <1>6, <1>7, <1>8, <1>9 DEF MbInv

LEMMA MbSendIsrStep ==
  ASSUME MbInv, NEW mail \in Mails, MbSendIsr(mail)
  PROVE  MbInv' /\ MbRefines
<1>0. BlockInv /\ RingInv /\ entry \in Int /\ MbSize \in Int
  BY MbAssumption DEF MbInv, RingInv, RingOK
<1>1. /\ entry < MbSize /\ PutLast(mail) /\ pc' = pc /\ toSend' = toSend
      /\ k' = (IF First(MbReceivers) # {} THEN Schedule(ResumeFirst(k, MbReceivers)) ELSE k)
      /\ Wake(First(MbReceivers), "EOK")
  BY DEF MbSendIsr, MbNotified
<1>2. RingInv' /\ entry' = entry + 1 /\ MbRefines
  BY <1>0, <1>1, MbPutRefines
<1>3. /\ BlockInv' /\ err' = [u \in Threads |-> err'[u]]
      /\ \A n \in Int : Served(k.wait[MbReceivers], n, Woken(MbReceivers)) =>
                           Served(k'.wait[MbReceivers], n + 1, Woken(MbReceivers)')
      /\ \A v \in Waits \ {MbReceivers}, n \in Int :
            Served(k.wait[v], n, Woken(v)) => Served(k'.wait[v], n - 1, Woken(v)')
  BY <1>0, <1>1, MbNames, NotifyIsrStep
<1>4. MbNoLostWakeup'
  <2>1. MbSize - entry' = (MbSize - entry) - 1 /\ MbSize - entry \in Int
    BY <1>0, <1>2
  <2>2. Served(k.wait[MbReceivers], entry, Woken(MbReceivers))
        /\ Served(k.wait[MbSenders], MbSize - entry, Woken(MbSenders))
    BY MbServed DEF MbInv
  <2>3. Served(k'.wait[MbReceivers], entry', Woken(MbReceivers)')
    BY <1>0, <1>2, <1>3, <2>2
  <2>4. Served(k'.wait[MbSenders], MbSize - entry', Woken(MbSenders)')
    BY <1>3, <2>1, <2>2, MbNames
  <2> QED
    BY <2>3, <2>4, MbServed
<1> QED
  BY <1>1, <1>2, <1>3, <1>4 DEF MbInv, OnCall

LEMMA MbResetStep ==
  ASSUME MbInv, NEW t, MbReset(t)
  PROVE  MbInv' /\ MbRefines
<1>0. BlockInv /\ RingInv /\ MbSize \in Nat \ {0}
  BY MbAssumption DEF MbInv
<1>1. /\ Runs(t) /\ k' = ResumeAll(ResumeAll(k, MbReceivers), MbSenders)
      /\ timed' = timed \ (ToSet(k.wait[MbReceivers]) \cup ToSet(k.wait[MbSenders]))
      /\ err' = [u \in Threads |-> err'[u]] /\ Call(t, <<"sched">>)
      /\ entry' = 0 /\ inOffset' = 0 /\ outOffset' = 0
      /\ pool' = pool /\ toSend' = toSend /\ mbLast' = mbLast
  BY DEF MbReset, Wake
<1>2. Live(t) /\ t \in Threads /\ CallOK(<<"sched">>)
  BY <1>0, <1>1, MbRuns DEF CallOK
<1>3. \E u, s : Live(u) /\ CallOK(s) /\ Call(u, s)
  BY <1>1, <1>2
<1>4. BlockInv' /\ k'.wait[MbReceivers] = << >> /\ k'.wait[MbSenders] = << >>
  BY <1>0, <1>1, <1>3, MbNames, AllStep
<1>5. MbNoLostWakeup'
  BY <1>4 DEF MbNoLostWakeup
<1>6. RingInv'
  <2>1. 0 \in Slots /\ 0 = (0 + 0) % MbSize /\ 0 \in 0 .. MbSize
    BY <1>0 DEF Slots
  <2> QED
    BY <1>0, <1>1, <2>1 DEF RingInv, RingOK
<1>7. MbContents' = << >>
  BY <1>1, RingContents DEF Words
<1>8. MbHand' = MbHand
  BY DEF MbHand
<1>9. MbQueue!Reset
  BY <1>1, <1>7, <1>8, Zenon DEF MbQueue!Reset, MbHand
<1>10. pc'[t] = <<"sched">> /\ \A u \in Threads \ {t} : pc'[u] = pc[u]
  BY <1>0, <1>1, <1>2 DEF Call, BlockInv, BlockOK
<1>11. /\ toSend' \in [Threads -> Mails \cup {NoMail}]
       /\ \A u \in Threads : OnCall(u, MbSenders)' => toSend'[u] \in Mails
  <2>1. MbSenders \notin ToSet(pc'[t])
    BY <1>10, CallFacts, MbNames
  <2> QED
    BY <1>1, <1>2, <1>10, <2>1, MbToSendKept
<1> QED
  BY <1>1, <1>4, <1>5, <1>6, <1>9, <1>11 DEF MbInv, MbRefines, MbQueue!Next

LEMMA MbOthersStep ==
  ASSUME MbInv, UNCHANGED mbState, Slice \/ \E t \in Threads : DoSchedule(t) \/ Timeout(t)
  PROVE  MbInv' /\ MbRefines
<1>0. BlockInv /\ RingInv /\ entry \in Int /\ MbSize \in Int /\ err = [u \in Threads |-> err[u]]
  BY MbAssumption DEF MbInv, RingInv, RingOK
<1>1. UNCHANGED <<pool, inOffset, outOffset, entry, mbLast>> /\ toSend' = toSend
  BY DEF mbState
<1>2. RingInv' /\ MbRefines
  BY <1>0, <1>1, MbRingKept
<1>3. /\ BlockInv' /\ err' = [u \in Threads |-> err'[u]]
      /\ \A u \in Threads, w \in Waits : w \in ToSet(pc'[u]) <=> w \in ToSet(pc[u])
      /\ \A w \in Waits : Woken(w)' = Woken(w) /\ (k.wait[w] = << >> => k'.wait[w] = << >>)
  BY <1>0, WokenKept
<1>4. \A w \in Waits : \A n : Served(k.wait[w], n, Woken(w)) => Served(k'.wait[w], n, Woken(w)')
  BY <1>3 DEF Served
<1>5. MbNoLostWakeup'
  BY <1>1, <1>4, MbNames, MbServed DEF MbInv
<1>6. \A u \in Threads : OnCall(u, MbSenders)' => toSend'[u] \in Mails
  BY <1>1, <1>3, MbNames DEF MbInv, OnCall
<1> QED
  BY <1>1, <1>2, <1>3, <1>5, <1>6 DEF MbInv

LEMMA MbStep ==
  ASSUME MbInv, [MbNext(Threads, Mails)]_mbVars
  PROVE  MbInv' /\ MbRefines
<1>0. BlockInv /\ RingInv
  BY DEF MbInv
<1>1. CASE UNCHANGED mbVars
  <2>1. UNCHANGED <<k, timed, err, pc>> /\ UNCHANGED <<pool, inOffset, outOffset, entry, mbLast, toSend>>
    BY <1>1 DEF mbVars, blockingVars, mbState
  <2>2. RingInv' /\ MbRefines
    BY <1>0, <2>1, MbRingKept
  <2> QED
    BY <2>1, <2>2 DEF MbInv, BlockInv, OnCall, MbNoLostWakeup, Woken
<1>2. ASSUME NEW t \in Threads, NEW mail \in Mails, MbSend(t, mail) \/ MbUrgent(t, mail)
      PROVE  MbInv' /\ MbRefines
  <2>1. Runs(t) /\ entry < MbSize /\ (PutLast(mail) \/ PutFirst(mail)) /\ MbNotify(t, MbReceivers)
        /\ toSend' = toSend
    BY <1>2 DEF MbSend, MbUrgent, MbSent
  <2>2. Live(t) /\ ~ OnCall(t, MbReceivers)
    BY <1>0, <2>1, MbRuns
  <2> QED
    BY <2>1, <2>2, MbPutStep
<1>3. ASSUME NEW t \in Threads, NEW mail \in Mails, MbSendWait(t, mail)
      PROVE  MbInv' /\ MbRefines
  <2>1. /\ Runs(t) /\ entry = MbSize /\ WaitOn(t, MbSenders) /\ toSend' = [toSend EXCEPT ![t] = mail]
        /\ UNCHANGED <<pool, inOffset, outOffset, entry, mbLast>>
    BY <1>3 DEF MbSendWait
  <2>2. Live(t) /\ (\A v : ~ OnCall(t, v)) /\ MbSenders \in {MbReceivers, MbSenders}
    BY <1>0, <2>1, MbRuns
  <2> QED
    BY <2>1, <2>2, MbWaitStep
<1>4. ASSUME NEW t \in Threads, MbRecv(t)
      PROVE  MbInv' /\ MbRefines
  <2>1. Runs(t) /\ entry > 0 /\ GetFirst /\ MbNotify(t, MbSenders) /\ toSend' = toSend
    BY <1>4 DEF MbRecv, MbReceived
  <2>2. Live(t) /\ ~ OnCall(t, MbSenders)
    BY <1>0, <2>1, MbRuns
  <2> QED
    BY <2>1, <2>2, MbGetStep
<1>5. ASSUME NEW t \in Threads, MbRecvWait(t)
      PROVE  MbInv' /\ MbRefines
  <2>1. /\ Runs(t) /\ entry = 0 /\ WaitOn(t, MbReceivers) /\ toSend' = toSend
        /\ UNCHANGED <<pool, inOffset, outOffset, entry, mbLast>>
    BY <1>5 DEF MbRecvWait, mbState
  <2>2. Live(t) /\ (\A v : ~ OnCall(t, v)) /\ MbReceivers \in {MbReceivers, MbSenders}
        /\ entry = (IF MbReceivers = MbSenders THEN MbSize ELSE 0)
    BY <1>0, <2>1, MbNames, MbRuns
  <2> QED
    BY <2>1, <2>2, MbNames, MbWaitStep
<1>6. ASSUME NEW t \in Threads, NEW w \in {MbReceivers, MbSenders}, MbWaitAgain(t, w)
      PROVE  MbInv' /\ MbRefines
  <2>1. /\ At(t, w) /\ entry = (IF w = MbSenders THEN MbSize ELSE 0) /\ WaitOn(t, w) /\ toSend' = toSend
        /\ UNCHANGED <<pool, inOffset, outOffset, entry, mbLast>>
    BY <1>6 DEF MbWaitAgain, mbState
  <2>2. Live(t) /\ OnCall(t, w) /\ \A v \in {MbReceivers, MbSenders} \ {w} : ~ OnCall(t, v)
    BY <1>0, <2>1, MbAt
  <2> QED
    BY <2>1, <2>2, MbWaitStep
<1>7. ASSUME NEW t \in Threads, MbSendWoken(t)
      PROVE  MbInv' /\ MbRefines
  <2>1. /\ At(t, MbSenders) /\ entry < MbSize /\ PutLast(toSend[t]) /\ MbNotify(t, MbReceivers) /\ MbDone(t)
    BY <1>7 DEF MbSendWoken, MbSent
  <2>2. Live(t) /\ OnCall(t, MbSenders) /\ ~ OnCall(t, MbReceivers)
    BY <1>0, <2>1, MbAt, MbNames
  <2>3. toSend[t] \in Mails
    BY <2>2 DEF MbInv
  <2> QED
    BY <2>1, <2>2, <2>3, MbPutStep
<1>8. ASSUME NEW t \in Threads, MbRecvWoken(t)
      PROVE  MbInv' /\ MbRefines
  <2>1. At(t, MbReceivers) /\ entry > 0 /\ GetFirst /\ MbNotify(t, MbSenders) /\ MbDone(t)
    BY <1>8 DEF MbRecvWoken, MbReceived
  <2>2. Live(t) /\ ~ OnCall(t, MbSenders)
    BY <1>0, <2>1, MbAt, MbNames
  <2> QED
    BY <2>1, <2>2, MbGetStep
<1>9. ASSUME NEW t \in Threads,
             MbReset(t) \/ \E w \in {MbReceivers, MbSenders} : MbGiveUp(t, w)
      PROVE  MbInv' /\ MbRefines
  BY <1>9, MbResetStep, MbGiveUpStep
<1>10. ASSUME UNCHANGED mbState, Slice \/ \E t \in Threads : DoSchedule(t) \/ Timeout(t)
       PROVE  MbInv' /\ MbRefines
  BY <1>10, MbOthersStep
<1>11. ASSUME NEW mail \in Mails, MbSendIsr(mail)
       PROVE  MbInv' /\ MbRefines
  BY <1>11, MbSendIsrStep
<1> QED
  BY <1>1, <1>2, <1>3, <1>4, <1>5, <1>6, <1>7, <1>8, <1>9, <1>10, <1>11 DEF MbNext

LEMMA MbInitInv == MbInit => MbInv /\ MbQueue!Init
<1> SUFFICES ASSUME MbInit PROVE MbInv /\ MbQueue!Init
  OBVIOUS
<1>1. /\ BlockInv /\ (\A w \in Waits : k.wait[w] = << >>) /\ pc = [t \in Threads |-> << >>]
  BY BlockingStart DEF MbInit
<1>2. err = [t \in Threads |-> err[t]]
  BY DEF MbInit, BlockingInit
<1>3. MbNoLostWakeup
  BY <1>1, MbNames DEF MbNoLostWakeup
<1>4. RingInv
  <2>1. 0 \in Slots /\ 0 = (0 + 0) % MbSize /\ 0 \in 0 .. MbSize
    BY MbAssumption DEF Slots
  <2> QED
    BY <2>1 DEF MbInit, RingInv, RingOK
<1>5. \A t \in Threads : ~ OnCall(t, MbSenders)
  BY <1>1, CallFacts DEF OnCall
<1>6. MbInv
  BY <1>1, <1>2, <1>3, <1>4, <1>5 DEF MbInv, MbInit
<1>7. MbContents = << >> /\ mbLast = NoMail
  BY RingContents DEF MbInit, Words
<1> QED
  BY <1>6, <1>7, Zenon DEF MbQueue!Init

\* The offsets and the counter of the mailbox describe one segment of the ring,
\* which holds words that were sent, and nobody waits for what is there.
THEOREM MbInvariance == MbSpec => []MbInv
  BY MbInitInv, MbStep, PTL DEF MbSpec

\* The mailbox loses no wake-up, with any number of senders and receivers,
\* handlers, timeouts and resets.
THEOREM MbWakesAll == MbSpec => []MbNoLostWakeup
<1>1. MbInv => MbNoLostWakeup
  BY DEF MbInv
<1> QED
  BY <1>1, MbInvariance, PTL

\* The ring of the mailbox, with offsets that wrap around and are rewound by
\* urgent words, implements a bounded queue for any size.
THEOREM MbRefinement == MbSpec => MbImplements
<1>1. MbInit => MbInv /\ MbQueue!Init
  BY MbInitInv
<1>2. MbInv /\ [MbNext(Threads, Mails)]_mbVars => MbInv' /\ MbRefines
  BY MbStep
<1> QED
  BY <1>1, <1>2, PTL DEF MbSpec, MbImplements, MbQueue!Spec, MbRefines

-----------------------------------------------------------------------------
(* The message queue: the inductive invariant *)

\* The calls of a thread that hold a node, and those that hold a message.
Holding == {<<"link">>, <<"urgent">>, <<"free">>}
Sending == {<<"link">>, <<"urgent">>, <<MqSenders>>, <<"sched", MqSenders>>}
Others  == {<< >>, <<"sched">>, <<MqReceivers>>, <<"sched", MqReceivers>>}

PcInv == pc \in [Threads -> Holding \cup Sending \cup Others]

\* The free list and the queue are lists, and no node is in both, with two
\* threads, or in a list and with a thread; none is missing.
NodeInv ==
    /\ Links(free, Nodes, ToSet(free)) /\ Links(linked, Nodes, ToSet(linked))
    /\ mine \in [Threads -> Nodes \cup {NoNode}]
    /\ ToSet(free) \cap ToSet(linked) = {}
    /\ \A t \in Threads : mine[t] # NoNode <=> pc[t] \in Holding
    /\ \A t \in Threads : mine[t] \notin ToSet(free) \cup ToSet(linked)
    /\ \A t, u \in Threads : mine[t] = mine[u] /\ mine[t] # NoNode => t = u
    /\ \A n \in Nodes : n \in ToSet(free) \cup ToSet(linked) \/ \E t \in Threads : mine[t] = n

\* The fields of the control block fit the list.
EndInv ==
    /\ tail = (IF linked = << >> THEN NoNode ELSE linked[Len(linked)])
    /\ mqEntry = Len(linked)

\* A thread that sends has a message to send.
LetterInv ==
    /\ node \in [Nodes -> Messages] /\ letter \in [Threads -> Messages]
    /\ \A t \in Threads : pc[t] \in Sending => letter[t].mail \in Letters

MqInv == PcInv /\ NodeInv /\ EndInv /\ LetterInv

-----------------------------------------------------------------------------
(* Calls and sections *)

\* The name of an object is not the name of a section.
LEMMA Names ==
  /\ MqReceivers # MqSenders
  /\ \A w \in {MqReceivers, MqSenders} :
        w # "sched" /\ w # "link" /\ w # "urgent" /\ w # "free"
  BY MqAssumption

\* The kinds of calls exclude each other as far as the names tell.
LEMMA Kinds ==
  /\ Holding \cap Others = {} /\ Sending \cap Others = {}
  /\ <<MqSenders>> \notin Holding /\ <<"sched", MqSenders>> \notin Holding
  /\ <<"free">> \notin Sending
  BY Names DEF Holding, Sending, Others

\* What is left of a call that runs a section.
LEMMA AtFacts ==
  ASSUME PcInv, NEW t \in Threads
  PROVE  /\ \A s \in {"link", "urgent", "free", MqReceivers, MqSenders} :
               At(t, s) => pc[t] = <<s>> /\ Tail(pc[t]) = << >>
         /\ At(t, "sched") =>
               /\ pc[t] \in {<<"sched">>, <<"sched", MqReceivers>>, <<"sched", MqSenders>>}
               /\ Tail(pc[t]) = (IF pc[t] = <<"sched">> THEN << >>
                                 ELSE IF pc[t] = <<"sched", MqReceivers>> THEN <<MqReceivers>>
                                 ELSE <<MqSenders>>)
         /\ Runs(t) => pc[t] = << >>
         /\ t \in Copying <=> pc[t] = <<"free">>
<1>1. pc[t] \in Holding \cup Sending \cup Others
  BY DEF PcInv
<1>2. CASE pc[t] = << >>
  BY <1>2 DEF At, Runs, Copying
<1>3. ASSUME NEW s \in {"sched", "link", "urgent", "free", MqReceivers, MqSenders}, pc[t] = <<s>>
      PROVE  Head(pc[t]) = s /\ Tail(pc[t]) = << >> /\ pc[t] # << >>
  BY <1>3
<1>4. ASSUME NEW w \in {MqReceivers, MqSenders}, pc[t] = <<"sched", w>>
      PROVE  Head(pc[t]) = "sched" /\ Tail(pc[t]) = <<w>> /\ pc[t] # << >> /\ pc[t] # <<"sched">>
  BY <1>4
<1>5. CASE \E s \in {"sched", "link", "urgent", "free", MqReceivers, MqSenders} : pc[t] = <<s>>
  <2>1. PICK s \in {"sched", "link", "urgent", "free", MqReceivers, MqSenders} : pc[t] = <<s>>
    BY <1>5
  <2>2. Head(pc[t]) = s /\ Tail(pc[t]) = << >> /\ pc[t] # << >>
    BY <1>3, <2>1
  <2>3. \A r : <<s>> = <<r>> <=> s = r
    OBVIOUS
  <2>4. ~ Runs(t) /\ (\A r : At(t, r) => r = s) /\ (t \in Copying <=> s = "free")
    BY <2>2 DEF Runs, At, Copying
  <2> QED
    BY <2>1, <2>2, <2>3, <2>4, Names
<1>6. CASE \E w \in {MqReceivers, MqSenders} : pc[t] = <<"sched", w>>
  <2>1. PICK w \in {MqReceivers, MqSenders} : pc[t] = <<"sched", w>>
    BY <1>6
  <2>2. Head(pc[t]) = "sched" /\ Tail(pc[t]) = <<w>> /\ pc[t] # << >> /\ pc[t] # <<"sched">>
    BY <1>4, <2>1
  <2>3. ~ Runs(t) /\ (\A r : At(t, r) => r = "sched") /\ t \notin Copying /\ pc[t] # <<"free">>
    BY <2>1, <2>2 DEF Runs, At, Copying
  <2>4. <<"sched", MqReceivers>> # <<"sched", MqSenders>>
    BY Names
  <2> QED
    BY <2>1, <2>2, <2>3, <2>4, Names
<1> QED
  BY <1>1, <1>2, <1>5, <1>6 DEF Holding, Sending, Others

-----------------------------------------------------------------------------
(* Where the nodes go *)

\* The calls that hold a node are as before but for that of t.
SameButFor(t) == \A u \in Threads \ {t} : pc'[u] \in Holding <=> pc[u] \in Holding

\* A thread takes a free node.
LEMMA NodeTaken ==
  ASSUME NodeInv, NEW t \in Threads, mine[t] = NoNode, free # << >>, TakeNode(t),
         linked' = linked, pc'[t] \in Holding, SameButFor(t)
  PROVE  NodeInv'
<1> DEFINE n == Head(free)
<1>1. n \in ToSet(free) /\ Links(Tail(free), Nodes, ToSet(free) \ {n})
  BY LinksFacts, LinksTail DEF NodeInv
<1>2. n \in Nodes /\ n # NoNode
  BY <1>1, LinksFacts, MqAssumption DEF NodeInv
<1>3. free' = Tail(free) /\ mine' = [mine EXCEPT ![t] = n]
  BY DEF TakeNode
<1> HIDE DEF n
<1>4. Links(free', Nodes, ToSet(free')) /\ ToSet(free') = ToSet(free) \ {n}
  BY <1>1, <1>3 DEF Links
<1>5. /\ mine' \in [Threads -> Nodes \cup {NoNode}]
      /\ mine'[t] = n /\ \A u \in Threads \ {t} : mine'[u] = mine[u]
  BY <1>2, <1>3 DEF NodeInv
<1>6. \A u \in Threads : mine'[u] # NoNode <=> pc'[u] \in Holding
  BY <1>2, <1>5 DEF NodeInv, SameButFor
<1>7. \A u \in Threads : mine'[u] \notin ToSet(free') \cup ToSet(linked')
  BY <1>1, <1>4, <1>5 DEF NodeInv
<1>8. \A u, v \in Threads : mine'[u] = mine'[v] /\ mine'[u] # NoNode => u = v
  BY <1>1, <1>5 DEF NodeInv
<1>9. \A m \in Nodes : m \in ToSet(free') \cup ToSet(linked') \/ \E u \in Threads : mine'[u] = m
  <2> SUFFICES ASSUME NEW m \in Nodes, m \notin ToSet(free') \cup ToSet(linked')
               PROVE  \E u \in Threads : mine'[u] = m
    OBVIOUS
  <2>1. CASE m = n
    BY <1>5, <2>1
  <2>2. CASE m # n
    <3>1. PICK u \in Threads : mine[u] = m
      BY <1>4, <2>2 DEF NodeInv
    <3>2. u # t
      BY <3>1, MqAssumption
    <3> QED
      BY <1>5, <3>1, <3>2
  <2> QED
    BY <2>1, <2>2
<1> QED
  BY <1>4, <1>5, <1>6, <1>7, <1>8, <1>9 DEF NodeInv

\* A thread takes the first node of the queue.
LEMMA NodeUnlinked ==
  ASSUME NodeInv, NEW t \in Threads, mine[t] = NoNode, linked # << >>,
         mine' = [mine EXCEPT ![t] = Head(linked)], linked' = Tail(linked),
         free' = free, pc'[t] \in Holding, SameButFor(t)
  PROVE  NodeInv'
<1> DEFINE n == Head(linked)
<1>1. n \in ToSet(linked) /\ Links(Tail(linked), Nodes, ToSet(linked) \ {n})
  BY LinksFacts, LinksTail DEF NodeInv
<1>2. n \in Nodes /\ n # NoNode
  BY <1>1, LinksFacts, MqAssumption DEF NodeInv
<1>3. linked' = Tail(linked) /\ mine' = [mine EXCEPT ![t] = n]
  OBVIOUS
<1> HIDE DEF n
<1>4. Links(linked', Nodes, ToSet(linked')) /\ ToSet(linked') = ToSet(linked) \ {n}
  BY <1>1, <1>3 DEF Links
<1>5. /\ mine' \in [Threads -> Nodes \cup {NoNode}]
      /\ mine'[t] = n /\ \A u \in Threads \ {t} : mine'[u] = mine[u]
  BY <1>2, <1>3 DEF NodeInv
<1>6. \A u \in Threads : mine'[u] # NoNode <=> pc'[u] \in Holding
  BY <1>2, <1>5 DEF NodeInv, SameButFor
<1>7. \A u \in Threads : mine'[u] \notin ToSet(free') \cup ToSet(linked')
  BY <1>1, <1>4, <1>5 DEF NodeInv
<1>8. \A u, v \in Threads : mine'[u] = mine'[v] /\ mine'[u] # NoNode => u = v
  BY <1>1, <1>5 DEF NodeInv
<1>9. \A m \in Nodes : m \in ToSet(free') \cup ToSet(linked') \/ \E u \in Threads : mine'[u] = m
  <2> SUFFICES ASSUME NEW m \in Nodes, m \notin ToSet(free') \cup ToSet(linked')
               PROVE  \E u \in Threads : mine'[u] = m
    OBVIOUS
  <2>1. CASE m = n
    BY <1>5, <2>1
  <2>2. CASE m # n
    <3>1. PICK u \in Threads : mine[u] = m
      BY <1>4, <2>2 DEF NodeInv
    <3>2. u # t
      BY <3>1, MqAssumption
    <3> QED
      BY <1>5, <3>1, <3>2
  <2> QED
    BY <2>1, <2>2
<1> QED
  BY <1>4, <1>5, <1>6, <1>7, <1>8, <1>9 DEF NodeInv

\* The node of a thread goes into the queue or back to the free list.
LEMMA NodeReturned ==
  ASSUME NodeInv, NEW t \in Threads, mine[t] # NoNode,
         mine' = [mine EXCEPT ![t] = NoNode], pc'[t] \notin Holding, SameButFor(t),
         \/ free' = free /\ Links(linked', Nodes, ToSet(linked) \cup {mine[t]})
         \/ linked' = linked /\ Links(free', Nodes, ToSet(free) \cup {mine[t]})
  PROVE  NodeInv'
<1> DEFINE n == mine[t]
<1>1. n \in Nodes /\ n # NoNode /\ n \notin ToSet(free) \cup ToSet(linked)
  BY DEF NodeInv
<1>2. /\ mine' \in [Threads -> Nodes \cup {NoNode}]
      /\ mine'[t] = NoNode /\ \A u \in Threads \ {t} : mine'[u] = mine[u] /\ mine[u] # n
  BY <1>1 DEF NodeInv
<1> HIDE DEF n
<1>3. /\ Links(free', Nodes, ToSet(free')) /\ Links(linked', Nodes, ToSet(linked'))
      /\ \/ ToSet(free') = ToSet(free) /\ ToSet(linked') = ToSet(linked) \cup {n}
         \/ ToSet(linked') = ToSet(linked) /\ ToSet(free') = ToSet(free) \cup {n}
  BY DEF NodeInv, Links, n
<1>4. ToSet(free') \cap ToSet(linked') = {}
  BY <1>1, <1>3 DEF NodeInv
<1>5. \A u \in Threads : mine'[u] # NoNode <=> pc'[u] \in Holding
  BY <1>2 DEF NodeInv, SameButFor
<1>6. \A u \in Threads : mine'[u] \notin ToSet(free') \cup ToSet(linked')
  <2>1. ToSet(free') \subseteq Nodes /\ ToSet(linked') \subseteq Nodes
    BY <1>3, LinksFacts
  <2> QED
    BY <1>2, <1>3, <2>1, MqAssumption DEF NodeInv
<1>7. \A u, v \in Threads : mine'[u] = mine'[v] /\ mine'[u] # NoNode => u = v
  BY <1>2 DEF NodeInv
<1>8. \A m \in Nodes : m \in ToSet(free') \cup ToSet(linked') \/ \E u \in Threads : mine'[u] = m
  <2> SUFFICES ASSUME NEW m \in Nodes, m \notin ToSet(free') \cup ToSet(linked')
               PROVE  \E u \in Threads : mine'[u] = m
    OBVIOUS
  <2>1. m # n /\ m \notin ToSet(free) \cup ToSet(linked)
    BY <1>3
  <2>2. PICK u \in Threads : mine[u] = m
    BY <2>1 DEF NodeInv
  <2>3. u # t
    BY <2>1, <2>2 DEF n
  <2> QED
    BY <1>2, <2>2, <2>3
<1> QED
  BY <1>2, <1>3, <1>4, <1>5, <1>6, <1>7, <1>8 DEF NodeInv

\* Nodes go from list to list.
LEMMA NodeMoved ==
  ASSUME NodeInv, mine' = mine, \A u \in Threads : pc'[u] \in Holding <=> pc[u] \in Holding,
         NEW F, NEW L, Links(free', Nodes, F), Links(linked', Nodes, L),
         F \cap L = {}, F \cup L = ToSet(free) \cup ToSet(linked)
  PROVE  NodeInv'
<1>1. ToSet(free') = F /\ ToSet(linked') = L
  BY DEF Links
<1> QED
  BY <1>1 DEF NodeInv

-----------------------------------------------------------------------------
(* The queue *)

\* The messages in the queue, and those taken out and not delivered.
Queue == [i \in DOMAIN linked |-> node[linked[i]]]
Hand  == [t \in Threads |-> IF t \in Copying THEN node[mine[t]] ELSE NoLetter]

Mail == [mail : Letters, prio : MqPrios]

\* The queue as a sequence.
LEMMA QueueFacts ==
  ASSUME MqInv
  PROVE  /\ Queue \in Seq(Messages) /\ Len(Queue) = Len(linked) /\ Len(linked) \in Nat
         /\ linked \in Seq(Nodes) /\ DOMAIN linked = 1 .. Len(linked)
         /\ \A i \in 1 .. Len(linked) : Queue[i] = node[linked[i]] /\ linked[i] \in Nodes
                                        /\ linked[i] \in ToSet(linked)
<1>1. linked \in Seq(Nodes) /\ Len(linked) \in Nat /\ DOMAIN linked = 1 .. Len(linked)
  BY DEF MqInv, NodeInv, Links
<1>2. \A i \in 1 .. Len(linked) : linked[i] \in ToSet(linked) /\ linked[i] \in Nodes
  BY <1>1 DEF ToSet
<1>3. node \in [Nodes -> Messages]
  BY DEF MqInv, LetterInv
<1> QED
  BY <1>1, <1>2, <1>3 DEF Queue

\* A message is linked in front of the first one of a lower priority.
LEMMA LinkFacts ==
  ASSUME MqInv, NEW n \in Nodes \ ToSet(linked), NEW m \in Mail, Link(n, m)
  PROVE  /\ Links(linked', Nodes, ToSet(linked) \cup {n})
         /\ EndInv' /\ node' = [node EXCEPT ![n] = m] /\ node' \in [Nodes -> Messages]
         /\ \E j \in 0 .. Len(Queue) :
               /\ Queue' = InsertAt(Queue, j + 1, m)
               /\ \A i \in 1 .. j : Queue[i].prio >= m.prio
               /\ j < Len(Queue) => Queue[j + 1].prio < m.prio
<1> DEFINE I == {i \in DOMAIN linked : node[linked[i]].prio < m.prio}
           j == IF I = {} THEN Len(linked) + 1 ELSE Min(I)
           l == Len(linked)
           q == InsertAt(Queue, j, m)
<1>1. /\ node' = [node EXCEPT ![n] = m]
      /\ linked' = InsertBeforeFirst(linked, I, n)
      /\ tail' = (IF I = {} THEN n ELSE tail)
      /\ mqEntry' = mqEntry + 1
  BY DEF Link
<1>2. /\ Queue \in Seq(Messages) /\ Len(Queue) = l /\ l \in Nat
      /\ linked \in Seq(Nodes) /\ DOMAIN linked = 1 .. l
      /\ \A i \in 1 .. l : Queue[i] = node[linked[i]] /\ linked[i] \in Nodes
                           /\ linked[i] \in ToSet(linked) /\ linked[i] # n
  BY QueueFacts
<1>3. /\ node \in [Nodes -> Messages] /\ m \in Messages /\ m.prio \in Int
      /\ \A x \in Messages : x.prio \in Int
  BY MqAssumption DEF MqInv, LetterInv, Mail, Messages
<1>4. node' \in [Nodes -> Messages] /\ node'[n] = m /\ \A x \in Nodes \ {n} : node'[x] = node[x]
  BY <1>1, <1>3
<1>5. \A i \in 1 .. l : Queue[i].prio \in Int /\ (i \in I <=> Queue[i].prio < m.prio)
  BY <1>2, <1>3
<1>6. I \subseteq 1 .. l /\ I \subseteq Nat
  BY <1>2
<1> HIDE DEF I
<1>7. /\ j \in 1 .. l + 1 /\ (I = {} <=> j = l + 1) /\ (j \in 1 .. l => j \in I)
      /\ \A i \in 1 .. j - 1 : i \notin I
  <2>1. CASE I = {}
    BY <1>2, <2>1
  <2>2. CASE I # {}
    <3> DEFINE c == Min(I)
    <3>1. c \in I /\ \A i \in I : c <= i
      BY <1>6, <2>2, LeastNat
    <3> HIDE DEF c
    <3>2. c \in 1 .. l /\ j = c
      BY <1>6, <2>2, <3>1 DEF c
    <3>3. \A i \in 1 .. c - 1 : i \notin I
      BY <1>2, <3>1, <3>2
    <3> QED
      BY <1>2, <2>2, <3>1, <3>2, <3>3
  <2> QED
    BY <2>1, <2>2
<1>8. linked' = InsertAt(linked, j, n)
  BY <1>1 DEF InsertBeforeFirst
<1> HIDE DEF j, l
<1>9. Links(linked', Nodes, ToSet(linked) \cup {n})
  <2>1. I \in SUBSET DOMAIN linked
    BY <1>2, <1>6
  <2> QED
    BY <1>1, <2>1, LinksInsert DEF MqInv, NodeInv
<1>10. /\ linked' \in Seq(Nodes) /\ Len(linked') = l + 1
       /\ \A i \in 1 .. l + 1 :
             linked'[i] = IF i < j THEN linked[i] ELSE IF i = j THEN n ELSE linked[i-1]
  BY <1>2, <1>7, <1>8, InsertAtFacts DEF l
<1>11. /\ q \in Seq(Messages) /\ Len(q) = l + 1
       /\ \A i \in 1 .. l + 1 : q[i] = IF i < j THEN Queue[i] ELSE IF i = j THEN m ELSE Queue[i-1]
  BY <1>2, <1>3, <1>7, InsertAtFacts
<1>12. EndInv'
  <2>1. mqEntry' = Len(linked')
    BY <1>1, <1>2, <1>10 DEF MqInv, EndInv, l
  <2>2. linked' # << >> /\ linked'[Len(linked')] = tail'
    <3>1. CASE I = {}
      BY <1>1, <1>2, <1>7, <1>10, <3>1
    <3>2. CASE I # {}
      <4>1. j \in 1 .. l /\ l > 0
        <5>1. j \in 1 .. l + 1 /\ j # l + 1
          BY <1>7, <3>2
        <5> QED
          BY <1>2, <5>1
      <4>2. linked'[l + 1] = linked[l] /\ linked # << >>
        BY <1>2, <1>10, <4>1
      <4>3. tail' = linked[l]
        BY <1>1, <3>2, <4>2 DEF MqInv, EndInv, l
      <4> QED
        BY <1>2, <1>10, <4>1, <4>2, <4>3
    <3> QED
      BY <3>1, <3>2
  <2> QED
    BY <2>1, <2>2 DEF EndInv
<1>13. Queue' = q
  <2>1. Queue' = [i \in 1 .. l + 1 |-> node'[linked'[i]]]
    BY <1>10 DEF Queue
  <2>2. q = [i \in 1 .. l + 1 |-> q[i]]
    BY <1>11
  <2>3. ASSUME NEW i \in 1 .. l + 1 PROVE node'[linked'[i]] = q[i]
    <3>1. CASE i < j
      <4>1. i \in 1 .. l
        BY <1>2, <1>7, <3>1
      <4> QED
        BY <1>2, <1>4, <1>10, <1>11, <3>1, <4>1
    <3>2. CASE i = j
      BY <1>4, <1>10, <1>11, <3>2
    <3>3. CASE i > j
      <4>1. i - 1 \in 1 .. l /\ ~ (i < j) /\ i # j
        BY <1>2, <1>7, <3>3
      <4> QED
        BY <1>2, <1>4, <1>10, <1>11, <4>1
    <3> QED
      BY <1>2, <1>7, <3>1, <3>2, <3>3
  <2> QED
    BY <2>1, <2>2, <2>3
<1>14. \E c \in 0 .. Len(Queue) :
         /\ Queue' = InsertAt(Queue, c + 1, m)
         /\ \A i \in 1 .. c : Queue[i].prio >= m.prio
         /\ c < Len(Queue) => Queue[c + 1].prio < m.prio
  <2> DEFINE c == j - 1
  <2>1. c \in 0 .. Len(Queue) /\ c + 1 = j
    BY <1>2, <1>7
  <2>2. ASSUME NEW i \in 1 .. c PROVE Queue[i].prio >= m.prio
    <3>1. i \in 1 .. l /\ i \notin I
      BY <1>2, <1>7
    <3> QED
      BY <1>3, <1>5, <3>1
  <2>3. c < Len(Queue) => Queue[c + 1].prio < m.prio
    <3>1. c < Len(Queue) => j \in 1 .. l /\ j \in I
      BY <1>2, <1>7, <2>1
    <3> QED
      BY <1>5, <2>1, <3>1
  <2> HIDE DEF c
  <2> QED
    BY <1>13, <2>1, <2>2, <2>3
<1> QED
  BY <1>1, <1>4, <1>9, <1>12, <1>14

\* An urgent message is linked in front of all others.
LEMMA LinkUrgentFacts ==
  ASSUME MqInv, NEW n \in Nodes \ ToSet(linked), NEW mail \in Letters, LinkUrgent(n, mail)
  PROVE  /\ Links(linked', Nodes, ToSet(linked) \cup {n})
         /\ EndInv' /\ node' \in [Nodes -> Messages]
         /\ \A x \in Nodes \ {n} : node'[x] = node[x]
         /\ node'[n] \in Mail /\ Queue' = <<node'[n]>> \o Queue
<1> DEFINE l == Len(linked)
           m == node'[n]
           q == <<m>> \o Queue
<1>1. /\ node' = [node EXCEPT ![n].mail = mail]
      /\ linked' = <<n>> \o linked
      /\ tail' = (IF tail = NoNode THEN n ELSE tail)
      /\ mqEntry' = mqEntry + 1
  BY DEF LinkUrgent
<1>2. /\ Queue \in Seq(Messages) /\ Len(Queue) = l /\ l \in Nat
      /\ linked \in Seq(Nodes) /\ DOMAIN linked = 1 .. l
      /\ \A i \in 1 .. l : Queue[i] = node[linked[i]] /\ linked[i] \in Nodes
                           /\ linked[i] \in ToSet(linked) /\ linked[i] # n
  BY QueueFacts
<1>3. /\ node \in [Nodes -> Messages] /\ node[n] \in Messages
  BY DEF MqInv, LetterInv
<1>4. /\ m = [node[n] EXCEPT !.mail = mail] /\ \A x \in Nodes \ {n} : node'[x] = node[x]
  BY <1>1, <1>3
<1>5. m \in Mail /\ m \in Messages
  BY <1>3, <1>4 DEF Mail, Messages
<1>6. node' \in [Nodes -> Messages]
  <2>1. node' = [node EXCEPT ![n] = m]
    BY <1>1, <1>3, <1>4
  <2> HIDE DEF m
  <2> QED
    BY <1>3, <1>5, <2>1
<1>7. Links(linked', Nodes, ToSet(linked) \cup {n})
  BY <1>1, LinksInsert DEF MqInv, NodeInv
<1> HIDE DEF m, l
<1>8. /\ linked' \in Seq(Nodes) /\ Len(linked') = l + 1
      /\ \A i \in 1 .. l + 1 : linked'[i] = IF i = 1 THEN n ELSE linked[i-1]
  BY <1>1, <1>2 DEF l
<1>9. /\ q \in Seq(Messages) /\ Len(q) = l + 1
      /\ \A i \in 1 .. l + 1 : q[i] = IF i = 1 THEN m ELSE Queue[i-1]
  BY <1>2, <1>5
<1> HIDE DEF q
<1>10. EndInv'
  <2>1. mqEntry' = Len(linked')
    BY <1>1, <1>2, <1>8 DEF MqInv, EndInv, l
  <2>2. linked' # << >> /\ linked'[Len(linked')] = tail'
    <3>1. CASE linked = << >>
      <4>1. l = 0 /\ tail = NoNode
        BY <3>1 DEF MqInv, EndInv, l
      <4> QED
        BY <1>1, <1>8, <4>1
    <3>2. CASE linked # << >>
      <4>1. l > 0 /\ tail = linked[l]
        BY <1>2, <3>2 DEF MqInv, EndInv, l
      <4>2. tail # NoNode
        BY <1>2, <4>1, MqAssumption
      <4> QED
        BY <1>1, <1>2, <1>8, <4>1, <4>2
    <3> QED
      BY <3>1, <3>2
  <2> QED
    BY <2>1, <2>2 DEF EndInv
<1>11. Queue' = q
  <2>1. Queue' = [i \in 1 .. l + 1 |-> node'[linked'[i]]]
    BY <1>8 DEF Queue
  <2>2. q = [i \in 1 .. l + 1 |-> q[i]]
    BY <1>9
  <2>3. ASSUME NEW i \in 1 .. l + 1 PROVE node'[linked'[i]] = q[i]
    <3>1. CASE i = 1
      BY <1>8, <1>9, <3>1 DEF m
    <3>2. CASE i # 1
      <4>1. i - 1 \in 1 .. l
        BY <1>2, <3>2
      <4> QED
        BY <1>2, <1>4, <1>8, <1>9, <3>2, <4>1
    <3> QED
      BY <3>1, <3>2
  <2> QED
    BY <2>1, <2>2, <2>3
<1> QED
  BY <1>4, <1>5, <1>6, <1>7, <1>10, <1>11 DEF m, q

\* The first message is unlinked.
LEMMA UnlinkFacts ==
  ASSUME MqInv, NEW t \in Threads, linked # << >>, Unlink(t), node' = node
  PROVE  /\ EndInv' /\ Queue # << >> /\ Head(Queue) = node[Head(linked)]
         /\ Queue' = Tail(Queue) /\ Head(linked) \in Nodes
<1> DEFINE l == Len(linked)
           q == Tail(Queue)
<1>1. /\ linked' = Tail(linked) /\ mqEntry' = mqEntry - 1
      /\ tail' = (IF tail = Head(linked) THEN NoNode ELSE tail)
  BY DEF Unlink
<1>2. /\ Queue \in Seq(Messages) /\ Len(Queue) = l /\ l \in Nat
      /\ linked \in Seq(Nodes) /\ DOMAIN linked = 1 .. l
      /\ \A i \in 1 .. l : Queue[i] = node[linked[i]] /\ linked[i] \in Nodes
  BY QueueFacts
<1>3. l > 0 /\ Head(linked) = linked[1]
  BY <1>2
<1>4. Queue # << >> /\ Head(Queue) = Queue[1] /\ Head(Queue) = node[Head(linked)]
  BY <1>2, <1>3
<1>5. /\ linked' \in Seq(Nodes) /\ Len(linked') = l - 1
      /\ \A i \in 1 .. l - 1 : linked'[i] = linked[i+1]
  BY <1>1, <1>2, <1>3
<1>6. q \in Seq(Messages) /\ Len(q) = l - 1 /\ \A i \in 1 .. l - 1 : q[i] = Queue[i+1]
  BY <1>2, <1>4
<1>7. tail = linked[l] /\ mqEntry = l
  BY <1>3 DEF MqInv, EndInv
<1>8. linked[1] = linked[l] <=> l = 1
  <2>1. IsInjective(linked)
    BY DEF MqInv, NodeInv, Links
  <2>2. linked[1] = linked[l] => 1 = l
    BY <1>2, <1>3, <2>1 DEF IsInjective
  <2> QED
    BY <2>2
<1> HIDE DEF q, l
<1>9. EndInv'
  <2>1. mqEntry' = Len(linked')
    BY <1>1, <1>5, <1>7
  <2>2. CASE l = 1
    <3>1. linked' = << >> /\ tail' = NoNode
      BY <1>1, <1>3, <1>5, <1>7, <1>8, <2>2
    <3> QED
      BY <2>1, <3>1 DEF EndInv
  <2>3. CASE l # 1
    <3>1. linked' # << >> /\ tail' = linked[l] /\ linked'[l - 1] = linked[l]
      <4>1. l - 1 \in 1 .. l - 1 /\ (l - 1) + 1 = l
        BY <1>2, <1>3, <2>3
      <4>2. linked'[l - 1] = linked[l] /\ Len(linked') # 0
        BY <1>5, <4>1
      <4>3. tail' = linked[l]
        BY <1>1, <1>3, <1>7, <1>8, <2>3
      <4> QED
        BY <4>2, <4>3
    <3> QED
      BY <1>5, <2>1, <3>1 DEF EndInv
  <2> QED
    BY <2>2, <2>3
<1>10. Queue' = q
  <2>1. Queue' = [i \in 1 .. l - 1 |-> node[linked'[i]]]
    BY <1>5 DEF Queue
  <2>2. q = [i \in 1 .. l - 1 |-> q[i]]
    BY <1>6
  <2>3. ASSUME NEW i \in 1 .. l - 1 PROVE node[linked'[i]] = q[i]
    <3>1. i + 1 \in 1 .. l
      BY <1>2
    <3> QED
      BY <1>2, <1>5, <1>6, <3>1
  <2> QED
    BY <2>1, <2>2, <2>3
<1> QED
  BY <1>2, <1>3, <1>4, <1>9, <1>10 DEF q, l

-----------------------------------------------------------------------------
(* The steps *)

\* A call goes on to section c.
LEMMA MqCallFacts ==
  ASSUME PcInv, NEW t \in Threads, NEW c \in Holding \cup Sending \cup Others, Call(t, c)
  PROVE  PcInv' /\ pc'[t] = c /\ SameButFor(t) /\ \A u \in Threads \ {t} : pc'[u] = pc[u]
  BY DEF PcInv, Call, SameButFor

\* A section that ends with a message to the other side.
LEMMA NotifyFacts ==
  ASSUME PcInv, NEW t \in Threads, NEW w, MqNotify(t, w)
  PROVE  /\ PcInv' /\ pc'[t] \in {<< >>, <<"sched">>}
         /\ SameButFor(t) /\ \A u \in Threads \ {t} : pc'[u] = pc[u]
<1> DEFINE c == IF MqNotified(w) # {} THEN <<"sched">> ELSE << >>
<1>1. c \in {<< >>, <<"sched">>} /\ c \in Others
  BY DEF Others
<1>2. Call(t, c)
  BY DEF MqNotify
<1> HIDE DEF c
<1> QED
  BY <1>1, <1>2, MqCallFacts

LEMMA MqInitInv == MqInit => MqInv
<1> SUFFICES ASSUME MqInit PROVE MqInv
  OBVIOUS
<1>1. PcInv
  BY DEF MqInit, BlockingInit, PcInv, Others
<1>2. Links(free, Nodes, Nodes) /\ Links(linked, Nodes, {})
  BY LinksSetToSeq, LinksEmpty, MqAssumption DEF MqInit
<1>3. ToSet(free) = Nodes /\ ToSet(linked) = {}
  BY <1>2 DEF Links
<1>4. \A t \in Threads : pc[t] = << >> /\ pc[t] \notin Holding /\ pc[t] \notin Sending
  <2>1. << >> \notin Holding /\ << >> \notin Sending
    BY Kinds DEF Others
  <2> QED
    BY <2>1 DEF MqInit, BlockingInit
<1>5. NodeInv
  BY <1>2, <1>3, <1>4, MqAssumption DEF MqInit, NodeInv
<1>6. EndInv
  BY DEF MqInit, EndInv
<1>7. LetterInv
  <2>1. Blank \in Messages
    BY MqAssumption DEF Blank, Messages
  <2>2. node \in [Nodes -> Messages] /\ letter \in [Threads -> Messages]
    BY <2>1 DEF MqInit
  <2> QED
    BY <1>4, <2>2 DEF LetterInv
<1> QED
  BY <1>1, <1>5, <1>6, <1>7 DEF MqInv

\* LetterInv, where at most one call changes.
LEMMA LetterKept ==
  ASSUME MqInv, NEW t \in Threads, NEW m \in Messages, node' \in [Nodes -> Messages],
         letter' = [letter EXCEPT ![t] = m], \A u \in Threads \ {t} : pc'[u] = pc[u],
         pc'[t] \in Sending => m.mail \in Letters
  PROVE  LetterInv'
<1>1. letter' \in [Threads -> Messages] /\ letter'[t] = m
      /\ \A u \in Threads \ {t} : letter'[u] = letter[u]
  BY DEF MqInv, LetterInv
<1> QED
  BY <1>1 DEF MqInv, LetterInv

\* The first section of a sending call, or the one after its wake-up.
LEMMA TakeStep ==
  ASSUME MqInv, NEW t \in Threads, NEW m \in Mail, NEW c \in {<<"link">>, <<"urgent">>},
         pc[t] \in {<< >>, <<MqSenders>>}, free # << >>, TakeNode(t), Call(t, c),
         letter' = [letter EXCEPT ![t] = m],
         UNCHANGED <<linked, tail, mqEntry, node>>
  PROVE  MqInv' /\ Queue' = Queue /\ \A u \in Threads : pc'[u] = <<"free">> <=> pc[u] = <<"free">>
<1>1. c \in Holding /\ c \in Sending /\ c # <<"free">>
  BY DEF Holding, Sending
<1>2. pc[t] \notin Holding /\ pc[t] # <<"free">>
  BY Kinds DEF Others, Holding
<1>3. PcInv' /\ pc'[t] = c /\ SameButFor(t) /\ \A u \in Threads \ {t} : pc'[u] = pc[u]
  BY <1>1, MqCallFacts DEF MqInv
<1>4. NodeInv'
  <2>1. mine[t] = NoNode
    BY <1>2 DEF MqInv, NodeInv
  <2> QED
    BY <1>1, <1>3, <2>1, NodeTaken DEF MqInv
<1>5. EndInv' /\ Queue' = Queue
  BY DEF MqInv, EndInv, Queue
<1>6. LetterInv'
  <2>1. node' \in [Nodes -> Messages] /\ m \in Messages /\ m.mail \in Letters
    BY DEF MqInv, LetterInv, Mail, Messages
  <2> QED
    BY <1>3, <2>1, LetterKept
<1> QED
  BY <1>1, <1>2, <1>3, <1>4, <1>5, <1>6 DEF MqInv

\* A call that leaves the queue alone goes on, and with it at most its message.
LEMMA MqWaitStep ==
  ASSUME MqInv, NEW t \in Threads, NEW m \in Messages, NEW c \in Sending \cup Others,
         c \notin Holding, pc[t] \notin Holding, Call(t, c),
         letter' = [letter EXCEPT ![t] = m], c \in Sending => m.mail \in Letters,
         UNCHANGED <<free, linked, tail, mqEntry, node, mine>>
  PROVE  MqInv' /\ Queue' = Queue /\ \A u \in Threads : pc'[u] = <<"free">> <=> pc[u] = <<"free">>
<1>1. c # <<"free">> /\ pc[t] # <<"free">>
  BY DEF Holding
<1>2. PcInv' /\ pc'[t] = c /\ SameButFor(t) /\ \A u \in Threads \ {t} : pc'[u] = pc[u]
  BY MqCallFacts DEF MqInv
<1>3. NodeInv'
  <2>1. \A u \in Threads : pc'[u] \in Holding <=> pc[u] \in Holding
    BY <1>2
  <2> QED
    BY <2>1, NodeMoved DEF MqInv, NodeInv
<1>4. EndInv' /\ Queue' = Queue
  BY DEF MqInv, EndInv, Queue
<1>5. LetterInv'
  <2>1. node' \in [Nodes -> Messages]
    BY DEF MqInv, LetterInv
  <2> QED
    BY <1>2, <2>1, LetterKept
<1> QED
  BY <1>1, <1>2, <1>3, <1>4, <1>5 DEF MqInv

\* The second section of a sending call: the message is linked.
LEMMA LinkStep ==
  ASSUME MqInv, NEW t \in Threads, MqLink(t) \/ MqLinkUrgent(t)
  PROVE  /\ MqInv' /\ mine[t] \in Nodes \ ToSet(linked) /\ pc[t] \in Holding
         /\ pc[t] # <<"free">> /\ \A u \in Threads : pc'[u] = <<"free">> <=> pc[u] = <<"free">>
         /\ letter[t] \in Mail
         /\ mine' = [mine EXCEPT ![t] = NoNode]
<1> DEFINE n == mine[t]
<1>1. pc[t] \in {<<"link">>, <<"urgent">>}
  BY AtFacts DEF MqInv, MqLink, MqLinkUrgent
<1>2. pc[t] \in Holding /\ pc[t] \in Sending /\ pc[t] # <<"free">>
  BY <1>1 DEF Holding, Sending
<1>3. n # NoNode /\ n \in Nodes \ ToSet(linked)
  BY <1>2 DEF MqInv, NodeInv
<1>4. letter[t] \in Mail /\ letter[t].mail \in Letters
  BY <1>2 DEF MqInv, LetterInv, Messages, Mail
<1>5. /\ PcInv' /\ pc'[t] \in {<< >>, <<"sched">>}
      /\ SameButFor(t) /\ \A u \in Threads \ {t} : pc'[u] = pc[u]
  BY NotifyFacts DEF MqInv, MqLink, MqLinkUrgent
<1>6. pc'[t] \notin Holding /\ pc'[t] \notin Sending /\ pc'[t] # <<"free">>
  BY <1>5, Kinds DEF Others, Holding
<1>7. /\ Links(linked', Nodes, ToSet(linked) \cup {n})
      /\ EndInv' /\ node' \in [Nodes -> Messages]
  <2>1. CASE MqLink(t)
    BY <1>3, <1>4, <2>1, LinkFacts DEF MqLink
  <2>2. CASE MqLinkUrgent(t)
    BY <1>3, <1>4, <2>2, LinkUrgentFacts DEF MqLinkUrgent
  <2> QED
    BY <2>1, <2>2
<1>8. mine' = [mine EXCEPT ![t] = NoNode] /\ letter' = [letter EXCEPT ![t] = Blank] /\ free' = free
  BY DEF MqLink, MqLinkUrgent
<1>9. NodeInv'
  BY <1>3, <1>5, <1>6, <1>7, <1>8, NodeReturned DEF MqInv
<1>10. LetterInv'
  <2>1. Blank \in Messages
    BY MqAssumption DEF Blank, Messages
  <2> QED
    BY <1>5, <1>6, <1>7, <1>8, <2>1, LetterKept
<1> QED
  BY <1>2, <1>3, <1>4, <1>5, <1>6, <1>7, <1>8, <1>9, <1>10 DEF MqInv

\* A handler sends.
LEMMA SendIsrStep ==
  ASSUME MqInv, NEW m \in Mail, MqSendIsr(m)
  PROVE  MqInv' /\ Head(free) \in ToSet(free) /\ Head(free) \in Nodes \ ToSet(linked)
<1> DEFINE n == Head(free)
<1>1. /\ free # << >> /\ Link(n, m) /\ free' = Tail(free)
      /\ pc' = pc /\ mine' = mine /\ letter' = letter
  BY DEF MqSendIsr
<1>2. n \in ToSet(free) /\ Links(Tail(free), Nodes, ToSet(free) \ {n})
  BY <1>1, LinksFacts, LinksTail DEF MqInv, NodeInv
<1>3. n \in Nodes \ ToSet(linked)
  BY <1>2, LinksFacts DEF MqInv, NodeInv
<1> HIDE DEF n
<1>4. /\ Links(linked', Nodes, ToSet(linked) \cup {n})
      /\ EndInv' /\ node' \in [Nodes -> Messages]
  BY <1>1, <1>3, LinkFacts
<1>5. NodeInv'
  <2> DEFINE F == ToSet(free) \ {n}
             L == ToSet(linked) \cup {n}
  <2>1. F \cap L = {} /\ F \cup L = ToSet(free) \cup ToSet(linked)
    BY <1>2 DEF MqInv, NodeInv
  <2>2. Links(free', Nodes, F) /\ Links(linked', Nodes, L)
    BY <1>1, <1>2, <1>4
  <2> HIDE DEF F, L
  <2> QED
    BY <1>1, <2>1, <2>2, NodeMoved DEF MqInv
<1>6. PcInv' /\ LetterInv'
  BY <1>1, <1>4 DEF MqInv, PcInv, LetterInv
<1> QED
  BY <1>2, <1>3, <1>4, <1>5, <1>6 DEF MqInv, n

\* A message is taken out.
LEMMA RecvStep ==
  ASSUME MqInv, NEW t \in Threads, MqRecv(t)
  PROVE  /\ MqInv' /\ linked # << >> /\ pc[t] # <<"free">> /\ pc'[t] = <<"free">>
         /\ \A u \in Threads \ {t} : pc'[u] = pc[u]
<1>1. pc[t] \in {<< >>, <<MqReceivers>>}
  BY AtFacts DEF MqInv, MqRecv
<1>2. pc[t] \notin Holding /\ pc[t] # <<"free">>
  BY <1>1, Kinds DEF Others, Holding
<1>3. <<"free">> \in Holding /\ <<"free">> \notin Sending
  BY Kinds DEF Holding
<1>4. /\ PcInv' /\ pc'[t] = <<"free">> /\ SameButFor(t)
      /\ \A u \in Threads \ {t} : pc'[u] = pc[u]
  BY <1>3, MqCallFacts DEF MqInv, MqRecv
<1>5. linked # << >>
  BY DEF MqInv, EndInv, MqRecv
<1>6. EndInv'
  BY <1>5, UnlinkFacts DEF MqRecv
<1>7. NodeInv'
  <2>1. mine[t] = NoNode
    BY <1>2 DEF MqInv, NodeInv
  <2>2. mine' = [mine EXCEPT ![t] = Head(linked)] /\ linked' = Tail(linked) /\ free' = free
    BY DEF MqRecv, Unlink
  <2> QED
    BY <1>3, <1>4, <1>5, <2>1, <2>2, NodeUnlinked DEF MqInv
<1>8. LetterInv'
  BY <1>3, <1>4 DEF MqInv, LetterInv, MqRecv
<1> QED
  BY <1>2, <1>4, <1>5, <1>6, <1>7, <1>8 DEF MqInv

\* Its node is freed.
LEMMA FreeStep ==
  ASSUME MqInv, NEW t \in Threads, MqFree(t)
  PROVE  /\ MqInv' /\ pc[t] = <<"free">> /\ pc'[t] # <<"free">> /\ mine[t] \in Nodes
         /\ mine[t] \notin ToSet(linked)
         /\ \A u \in Threads \ {t} : pc'[u] = pc[u] /\ mine'[u] = mine[u] /\ mine[u] # mine[t]
         /\ \A x \in Nodes \ {mine[t]} : node'[x] = node[x]
<1>1. pc[t] = <<"free">> /\ pc[t] \in Holding
  BY AtFacts DEF MqInv, MqFree, Holding
<1>2. /\ PcInv' /\ pc'[t] \in {<< >>, <<"sched">>}
      /\ SameButFor(t) /\ \A u \in Threads \ {t} : pc'[u] = pc[u]
  BY NotifyFacts DEF MqInv, MqFree
<1>3. pc'[t] \notin Holding /\ pc'[t] \notin Sending /\ pc'[t] # <<"free">>
  BY <1>2, Kinds DEF Others, Holding
<1>4. /\ mine[t] # NoNode /\ mine[t] \in Nodes \ ToSet(free) /\ mine[t] \notin ToSet(linked)
      /\ \A u \in Threads \ {t} : mine[u] # mine[t]
  BY <1>1 DEF MqInv, NodeInv
<1>5. /\ mine' = [mine EXCEPT ![t] = NoNode] /\ free' = <<mine[t]>> \o free
      /\ linked' = linked /\ tail' = tail /\ mqEntry' = mqEntry /\ letter' = letter
      /\ node' = [node EXCEPT ![mine[t]].mail = NoLetter]
  BY DEF MqFree
<1>6. Links(free', Nodes, ToSet(free) \cup {mine[t]})
  BY <1>4, <1>5, LinksInsert DEF MqInv, NodeInv
<1>7. NodeInv'
  BY <1>2, <1>3, <1>4, <1>5, <1>6, NodeReturned DEF MqInv
<1>8. EndInv'
  BY <1>5 DEF MqInv, EndInv
<1>9. LetterInv'
  <2> DEFINE x == [node[mine[t]] EXCEPT !.mail = NoLetter]
  <2>1. x \in Messages
    BY <1>4 DEF MqInv, LetterInv, Messages
  <2>2. node' = [node EXCEPT ![mine[t]] = x]
    BY <1>4, <1>5 DEF MqInv, LetterInv
  <2> HIDE DEF x
  <2>3. node' \in [Nodes -> Messages]
    BY <2>1, <2>2 DEF MqInv, LetterInv
  <2> QED
    BY <1>2, <1>3, <1>5, <2>3 DEF MqInv, LetterInv
<1>10. \A u \in Threads \ {t} : mine'[u] = mine[u]
  BY <1>5 DEF MqInv, NodeInv
<1>11. \A x \in Nodes \ {mine[t]} : node'[x] = node[x]
  BY <1>5 DEF MqInv, LetterInv
<1> QED
  BY <1>1, <1>2, <1>3, <1>4, <1>7, <1>8, <1>9, <1>10, <1>11 DEF MqInv

\* The queue is reset.
LEMMA ResetStep ==
  ASSUME MqInv, NEW t \in Threads, MqReset(t)
  PROVE  /\ MqInv' /\ \A u \in Threads : pc'[u] = <<"free">> <=> pc[u] = <<"free">>
         /\ mine' = mine /\ Queue' = << >>
         /\ \A x \in Nodes \ ToSet(linked) : node'[x] = node[x]
<1>1. /\ free' = Reverse(linked) \o free /\ linked' = << >> /\ tail' = NoNode /\ mqEntry' = 0
      /\ mine' = mine /\ letter' = letter
      /\ node' = [n \in Nodes |-> IF n \in ToSet(linked) THEN [node[n] EXCEPT !.mail = NoLetter]
                                                          ELSE node[n]]
  BY DEF MqReset
<1>2. pc[t] = << >> /\ << >> \notin Holding /\ <<"sched">> \notin Holding
      /\ <<"sched">> \in Others /\ <<"sched">> \notin Sending
      /\ << >> # <<"free">> /\ <<"sched">> # <<"free">>
  BY AtFacts, Kinds DEF MqInv, MqReset, Others
<1>3. /\ PcInv' /\ pc'[t] = <<"sched">> /\ SameButFor(t)
      /\ \A u \in Threads \ {t} : pc'[u] = pc[u]
  BY <1>2, MqCallFacts DEF MqInv, MqReset
<1>4. NodeInv'
  <2> DEFINE F == ToSet(linked) \cup ToSet(free)
  <2>1. Links(free', Nodes, F)
    BY <1>1, LinksReverse DEF MqInv, NodeInv
  <2>2. Links(linked', Nodes, {})
    BY <1>1, LinksEmpty
  <2>3. \A u \in Threads : pc'[u] \in Holding <=> pc[u] \in Holding
    BY <1>2, <1>3
  <2>4. F \cap {} = {} /\ F \cup {} = ToSet(free) \cup ToSet(linked)
    OBVIOUS
  <2> HIDE DEF F
  <2> QED
    BY <1>1, <2>1, <2>2, <2>3, <2>4, NodeMoved DEF MqInv
<1>5. EndInv' /\ Queue' = << >>
  BY <1>1 DEF EndInv, Queue
<1>6. LetterInv'
  <2>1. \A x \in Messages : [x EXCEPT !.mail = NoLetter] \in Messages
    BY DEF Messages
  <2>2. node' \in [Nodes -> Messages]
    BY <1>1, <2>1 DEF MqInv, LetterInv
  <2> QED
    BY <1>1, <1>2, <1>3, <2>2 DEF MqInv, LetterInv
<1> QED
  BY <1>1, <1>2, <1>3, <1>4, <1>5, <1>6 DEF MqInv

\* Nothing of the queue changes.
LEMMA IdleStep ==
  ASSUME MqInv, UNCHANGED <<mqState, pc>>
  PROVE  MqInv' /\ Queue' = Queue /\ \A u \in Threads : pc'[u] = <<"free">> <=> pc[u] = <<"free">>
<1>1. /\ free' = free /\ linked' = linked /\ tail' = tail /\ mqEntry' = mqEntry
      /\ node' = node /\ mine' = mine /\ letter' = letter /\ pc' = pc
  BY DEF mqState
<1> QED
  BY <1>1 DEF MqInv, PcInv, NodeInv, EndInv, LetterInv, Queue

-----------------------------------------------------------------------------
(* The refinement *)

\* The calls that have a message taken out, recognised by their next section.
LEMMA FreeSection ==
  ASSUME NEW c \in Holding \cup Sending \cup Others
  PROVE  c # << >> /\ Head(c) = "free" <=> c = <<"free">>
<1>1. \A x : x # << >> /\ Head(x) = "free" => x \notin {<< >>, <<"sched">>, <<"link">>, <<"urgent">>}
  OBVIOUS
<1>2. Head(<<MqSenders>>) # "free" /\ Head(<<MqReceivers>>) # "free"
  BY Names
<1>3. Head(<<"sched", MqSenders>>) # "free" /\ Head(<<"sched", MqReceivers>>) # "free"
  OBVIOUS
<1>4. <<"free">> # << >> /\ Head(<<"free">>) = "free"
  OBVIOUS
<1> QED
  BY <1>1, <1>2, <1>3, <1>4 DEF Holding, Sending, Others

\* The messages taken out, in terms of the calls.
LEMMA HandFacts ==
  ASSUME MqInv
  PROVE  /\ \A t \in Threads : Hand[t] = IF pc[t] = <<"free">> THEN node[mine[t]] ELSE NoLetter
         /\ \A t \in Threads : Hand[t] # NoLetter <=> pc[t] = <<"free">>
         /\ \A t \in Threads : pc[t] = <<"free">> => mine[t] \in Nodes
<1>1. \A t \in Threads : t \in Copying <=> pc[t] = <<"free">>
  BY FreeSection DEF MqInv, PcInv, Copying
<1>2. \A t \in Threads : pc[t] = <<"free">> => mine[t] \in Nodes
  BY DEF MqInv, NodeInv, Holding
<1>3. \A x \in Messages : x # NoLetter
  BY MqAssumption DEF Messages
<1> QED
  BY <1>1, <1>2, <1>3 DEF Hand, MqInv, LetterInv

\* The operators the abstract specification uses are the ones used here.
LEMMA SameOperators ==
  /\ \A S : MqQueue!Cardinality(S) = Cardinality(S)
  /\ \A s, i, e : MqQueue!InsertAt(s, i, e) = InsertAt(s, i, e)
<1>1. \A S : MqQueue!Cardinality(S) = Cardinality(S)
  BY Zenon DEF MqQueue!Cardinality, Cardinality
<1>2. \A s, i, e : MqQueue!InsertAt(s, i, e) = InsertAt(s, i, e)
  BY DEF MqQueue!InsertAt, InsertAt
<1> QED
  BY <1>1, <1>2

\* A thread or handler with a node that is neither in the queue nor with a
\* receiver has room in the queue.
LEMMA Room ==
  ASSUME MqInv, NEW n \in Nodes \ ToSet(linked), \A t \in Threads : pc[t] = <<"free">> => mine[t] # n
  PROVE  MqQueue!HasRoom
<1> DEFINE C == {t \in Threads : pc[t] = <<"free">>}
           L == ToSet(linked)
           M == {mine[t] : t \in C}
           f == [t \in C |-> mine[t]]
<1>1. IsFiniteSet(L) /\ Cardinality(L) = Len(linked) /\ L \subseteq Nodes
  BY LinksLen, LinksFacts DEF MqInv, NodeInv
<1>2. \A t \in C : mine[t] \in Nodes /\ mine[t] # NoNode /\ mine[t] \notin L
  BY DEF MqInv, NodeInv, Holding
<1>3. M \subseteq Nodes \ {n} /\ M \cap L = {}
  BY <1>2
<1>4. f \in Bijection(C, M)
  <2>1. f \in [C -> M] /\ \A x \in M : \E t \in C : f[t] = x
    OBVIOUS
  <2>2. \A t, u \in C : f[t] = f[u] => t = u
    BY <1>2 DEF MqInv, NodeInv
  <2> QED
    BY <2>1, <2>2, Fun_IsBij
<1>5. IsFiniteSet(Nodes) /\ IsFiniteSet(M)
  BY <1>3, MqAssumption, FS_Subset
<1>6. IsFiniteSet(C) /\ Cardinality(C) = Cardinality(M)
  <2>1. ExistsBijection(M, C)
    BY <1>4, Fun_BijInverse, Fun_ExistsBijSymmetric DEF ExistsBijection
  <2> QED
    BY <1>5, <2>1, FS_Bijection
<1>7. Cardinality(L) + Cardinality(M) = Cardinality(L \cup M)
  <2> DEFINE x == Cardinality(L)
             y == Cardinality(M)
             z == Cardinality(L \cap M)
             u == Cardinality(L \cup M)
  <2>1. z = 0 /\ x \in Nat /\ y \in Nat
    <3>1. L \cap M = {}
      BY <1>3
    <3> QED
      BY <1>1, <1>5, <3>1, FS_EmptySet, FS_CardinalityType
  <2>2. u = x + y - z
    BY <1>1, <1>5, FS_Union
  <2> HIDE DEF x, y, z, u
  <2>3. x + y = u
    BY <2>1, <2>2
  <2> QED
    BY <2>3 DEF x, y, u
<1>8. Cardinality(L \cup M) <= Cardinality(Nodes \ {n})
  <2>1. L \cup M \in SUBSET (Nodes \ {n})
    BY <1>1, <1>3
  <2>2. IsFiniteSet(Nodes \ {n})
    BY <1>5, FS_RemoveElement
  <2> QED
    BY <2>1, <2>2, FS_Subset
<1>9. Cardinality(Nodes \ {n}) = Cardinality(Nodes) - 1
  BY <1>5, FS_RemoveElement
<1>10. {t \in Threads : Hand[t] # NoLetter} = C
  BY HandFacts
<1>11. Len(Queue) = Len(linked)
  BY QueueFacts
<1>12. Len(Queue) + Cardinality({t \in Threads : Hand[t] # NoLetter}) < Cardinality(Nodes)
  <2> DEFINE x == Cardinality(L)
             y == Cardinality(M)
             z == Cardinality(Nodes)
             u == Cardinality(L \cup M)
  <2>1. x \in Nat /\ y \in Nat /\ z \in Nat /\ u \in Nat
    BY <1>1, <1>5, FS_CardinalityType, FS_Union
  <2>2. x + y = u /\ u <= z - 1
    BY <1>7, <1>8, <1>9
  <2>3. Len(Queue) = x /\ Cardinality({t \in Threads : Hand[t] # NoLetter}) = y
    BY <1>1, <1>6, <1>10, <1>11
  <2> HIDE DEF x, y, z, u
  <2>4. x + y < z
    BY <2>1, <2>2
  <2> QED
    BY <2>3, <2>4 DEF z
<1> QED
  BY <1>12, SameOperators, Zenon DEF MqQueue!HasRoom, Queue, Hand

\* A step that leaves the messages taken out where they are.
LEMMA HandKept ==
  ASSUME MqInv, MqInv', \A u \in Threads : pc'[u] = <<"free">> <=> pc[u] = <<"free">>,
         \A u \in Threads : pc[u] = <<"free">> =>
             mine'[u] = mine[u] /\ node'[mine[u]] = node[mine[u]]
  PROVE  Hand' = Hand
<1>1. \A t \in Threads : t \in Copying <=> pc[t] = <<"free">>
  BY FreeSection DEF MqInv, PcInv, Copying
<1>2. \A t \in Threads : t \in Copying' <=> pc'[t] = <<"free">>
  BY FreeSection DEF MqInv, PcInv, Copying
<1> QED
  BY <1>1, <1>2 DEF Hand

\* A step in which one thread takes a message out or delivers one.
LEMMA HandChanged ==
  ASSUME NEW t \in Threads, NEW x, Hand'[t] = x, \A u \in Threads \ {t} : Hand'[u] = Hand[u]
  PROVE  Hand' = [Hand EXCEPT ![t] = x]
<1>1. /\ Hand = [u \in Threads |-> Hand[u]] /\ Hand' = [u \in Threads |-> Hand'[u]]
  BY DEF Hand
<1> QED
  BY <1>1, Zenon

\* A step of the implementation is a step of the bounded queue or none.
Refines == MqQueue!Next \/ UNCHANGED MqQueue!vars

LEMMA Stutters ==
  ASSUME Queue' = Queue, Hand' = Hand
  PROVE  Refines
  BY DEF Refines, MqQueue!vars, Queue, Hand

LEMMA SilentSteps ==
  ASSUME MqInv, NEW t \in Threads,
         \/ \E m \in Mail : MqSend(t, m) \/ MqSendWait(t, m)
         \/ MqSendWoken(t) \/ (\E mail \in Letters : MqUrgent(t, mail)) \/ MqRecvWait(t)
         \/ \E w \in {MqReceivers, MqSenders} : MqGiveUp(t, w) \/ MqWaitAgain(t, w)
         \/ (DoSchedule(t) \/ Timeout(t)) /\ UNCHANGED mqState
  PROVE  MqInv' /\ Refines
<1>0. letter = [letter EXCEPT ![t] = letter[t]] /\ letter[t] \in Messages
      /\ (pc[t] \in Sending => letter[t] \in Mail /\ letter[t].mail \in Letters)
  BY DEF MqInv, LetterInv, Messages, Mail
<1>1. ASSUME pc[t] \in {<< >>, <<MqSenders>>}, TakeNode(t), UNCHANGED node, MqInv',
             Queue' = Queue, \A u \in Threads : pc'[u] = <<"free">> <=> pc[u] = <<"free">>
      PROVE  MqInv' /\ Refines
  <2>1. pc[t] # <<"free">>
    BY <1>1, Names
  <2>2. \A u \in Threads \ {t} : mine'[u] = mine[u]
    BY <1>1 DEF TakeNode, MqInv, NodeInv
  <2>3. Hand' = Hand
    BY <1>1, <2>1, <2>2, HandKept
  <2> QED
    BY <1>1, <2>3, Stutters
<1>2. ASSUME UNCHANGED <<node, mine>>, MqInv',
             Queue' = Queue, \A u \in Threads : pc'[u] = <<"free">> <=> pc[u] = <<"free">>
      PROVE  MqInv' /\ Refines
  <2>1. Hand' = Hand
    BY <1>2, HandKept
  <2> QED
    BY <1>2, <2>1, Stutters
<1>3. ASSUME NEW m \in Mail, MqSend(t, m) PROVE MqInv' /\ Refines
  <2>1. pc[t] = << >>
    BY <1>3, AtFacts DEF MqInv, MqSend
  <2> QED
    BY <1>1, <1>3, <2>1, TakeStep DEF MqSend
<1>4. ASSUME NEW m \in Mail, MqSendWait(t, m) PROVE MqInv' /\ Refines
  <2>1. pc[t] = << >> /\ << >> \notin Holding
    BY <1>4, AtFacts, Kinds DEF MqInv, MqSendWait, Others
  <2>2. /\ <<"sched", MqSenders>> \in Sending /\ <<"sched", MqSenders>> \notin Holding
        /\ m \in Messages /\ m.mail \in Letters
    BY Kinds DEF Sending, Mail, Messages
  <2>3. /\ Call(t, <<"sched", MqSenders>>) /\ letter' = [letter EXCEPT ![t] = m]
        /\ UNCHANGED <<free, linked, tail, mqEntry, node, mine>>
    BY <1>4 DEF MqSendWait, WaitOn
  <2> QED
    BY <1>2, <2>1, <2>2, <2>3, MqWaitStep
<1>5. ASSUME MqSendWoken(t) PROVE MqInv' /\ Refines
  <2>1. pc[t] = <<MqSenders>> /\ pc[t] \in Sending
    BY <1>5, AtFacts DEF MqInv, MqSendWoken, Sending
  <2>2. letter' = [letter EXCEPT ![t] = letter[t]]
    BY <1>0, <1>5 DEF MqSendWoken
  <2>3. /\ free # << >> /\ TakeNode(t) /\ Call(t, <<"link">>)
        /\ UNCHANGED <<linked, tail, mqEntry, node>>
    BY <1>5 DEF MqSendWoken
  <2> QED
    BY <1>0, <1>1, <2>1, <2>2, <2>3, TakeStep
<1>6. ASSUME NEW mail \in Letters, MqUrgent(t, mail) PROVE MqInv' /\ Refines
  <2> DEFINE m == [mail |-> mail, prio |-> 0]
  <2>1. pc[t] = << >>
    BY <1>6, AtFacts DEF MqInv, MqUrgent
  <2>2. m \in Mail
    BY MqAssumption DEF Mail
  <2>3. /\ free # << >> /\ TakeNode(t) /\ Call(t, <<"urgent">>)
        /\ letter' = [letter EXCEPT ![t] = m]
        /\ UNCHANGED <<linked, tail, mqEntry, node>>
    BY <1>6 DEF MqUrgent
  <2> HIDE DEF m
  <2> QED
    BY <1>1, <2>1, <2>2, <2>3, TakeStep
<1>7. ASSUME NEW w \in {MqReceivers, MqSenders}, WaitOn(t, w), UNCHANGED mqState,
             pc[t] \in {<< >>, <<w>>}, w = MqSenders => pc[t] \in Sending
      PROVE  MqInv' /\ Refines
  <2>1. pc[t] \notin Holding
    BY <1>7, Kinds DEF Others
  <2>2. /\ <<"sched", w>> \in Sending \cup Others /\ <<"sched", w>> \notin Holding
        /\ <<"sched", w>> \in Sending => w = MqSenders
    BY Kinds DEF Sending, Others
  <2>3. /\ Call(t, <<"sched", w>>) /\ letter' = [letter EXCEPT ![t] = letter[t]]
        /\ UNCHANGED <<free, linked, tail, mqEntry, node, mine>>
    BY <1>0, <1>7 DEF mqState, WaitOn
  <2> QED
    BY <1>0, <1>2, <1>7, <2>1, <2>2, <2>3, MqWaitStep
<1>8. ASSUME MqRecvWait(t) PROVE MqInv' /\ Refines
  <2>1. pc[t] = << >>
    BY <1>8, AtFacts DEF MqInv, MqRecvWait
  <2> QED
    BY <1>7, <1>8, <2>1, Names DEF MqRecvWait
<1>9. ASSUME NEW w \in {MqReceivers, MqSenders}, MqWaitAgain(t, w) PROVE MqInv' /\ Refines
  <2>1. pc[t] = <<w>> /\ (w = MqSenders => pc[t] \in Sending)
    BY <1>9, AtFacts DEF MqInv, MqWaitAgain, Sending
  <2> QED
    BY <1>7, <1>9, <2>1 DEF MqWaitAgain
<1>10. ASSUME NEW w \in {MqReceivers, MqSenders}, MqGiveUp(t, w) PROVE MqInv' /\ Refines
  <2>1. pc[t] = <<w>> /\ Tail(pc[t]) = << >> /\ pc[t] \notin Holding
    BY <1>10, AtFacts, Kinds DEF MqInv, MqGiveUp, Others
  <2>2. << >> \in Others /\ << >> \notin Holding /\ << >> \notin Sending /\ Blank \in Messages
    BY Kinds, MqAssumption DEF Others, Blank, Messages
  <2>3. /\ Call(t, << >>) /\ letter' = [letter EXCEPT ![t] = Blank]
        /\ UNCHANGED <<free, linked, tail, mqEntry, node, mine>>
    BY <1>10, <2>1 DEF MqGiveUp, Done, Call
  <2> QED
    BY <1>2, <2>1, <2>2, <2>3, MqWaitStep
<1>11. ASSUME DoSchedule(t), UNCHANGED mqState PROVE MqInv' /\ Refines
  <2> DEFINE c == Tail(pc[t])
  <2>1. /\ pc[t] \in {<<"sched">>, <<"sched", MqReceivers>>, <<"sched", MqSenders>>}
        /\ c = (IF pc[t] = <<"sched">> THEN << >>
                ELSE IF pc[t] = <<"sched", MqReceivers>> THEN <<MqReceivers>>
                ELSE <<MqSenders>>)
    BY <1>11, AtFacts DEF MqInv, DoSchedule
  <2>2. c \in {<< >>, <<MqReceivers>>, <<MqSenders>>} /\ (c = <<MqSenders>> => pc[t] \in Sending)
    <3>1. << >> # <<MqSenders>> /\ <<MqReceivers>> # <<MqSenders>>
      BY Names
    <3>2. <<"sched", MqSenders>> \in Sending
      BY DEF Sending
    <3> QED
      BY <2>1, <3>1, <3>2
  <2>3. /\ Call(t, c) /\ letter' = [letter EXCEPT ![t] = letter[t]]
        /\ UNCHANGED <<free, linked, tail, mqEntry, node, mine>>
    BY <1>0, <1>11 DEF mqState, DoSchedule, Done, Call
  <2> HIDE DEF c
  <2>4. c \in Sending \cup Others /\ c \notin Holding /\ (c \in Sending => c = <<MqSenders>>)
    BY <2>2, Kinds DEF Sending, Others
  <2>5. pc[t] \notin Holding
    BY <2>1, Kinds DEF Others
  <2> QED
    BY <1>0, <1>2, <2>2, <2>3, <2>4, <2>5, MqWaitStep
<1>12. ASSUME Timeout(t), UNCHANGED mqState PROVE MqInv' /\ Refines
  <2>1. UNCHANGED pc /\ UNCHANGED <<node, mine>> /\ UNCHANGED <<mqState, pc>>
    BY <1>12 DEF Timeout, mqState
  <2> QED
    BY <1>2, <2>1, IdleStep
<1> QED
  BY <1>3, <1>4, <1>5, <1>6, <1>8, <1>9, <1>10, <1>11, <1>12

\* A message goes into the queue.
LEMMA SendRefines ==
  ASSUME MqQueue!HasRoom, NEW m \in Mail, Hand' = Hand,
         \/ \E j \in 0 .. Len(Queue) :
               /\ Queue' = InsertAt(Queue, j + 1, m)
               /\ \A i \in 1 .. j : Queue[i].prio >= m.prio
               /\ j < Len(Queue) => Queue[j + 1].prio < m.prio
         \/ Queue' = <<m>> \o Queue
  PROVE  Refines
<1>1. CASE \E j \in 0 .. Len(Queue) :
               /\ Queue' = InsertAt(Queue, j + 1, m)
               /\ \A i \in 1 .. j : Queue[i].prio >= m.prio
               /\ j < Len(Queue) => Queue[j + 1].prio < m.prio
  <2>1. PICK j \in 0 .. Len(Queue) :
               /\ Queue' = InsertAt(Queue, j + 1, m)
               /\ \A i \in 1 .. j : Queue[i].prio >= m.prio
               /\ j < Len(Queue) => Queue[j + 1].prio < m.prio
    BY <1>1
  <2>2. Queue' = MqQueue!InsertAt(Queue, j + 1, m)
    BY <2>1, SameOperators
  <2>3. MqQueue!Send(m)
    BY <2>1, <2>2, Zenon DEF MqQueue!Send, Queue, Hand
  <2> QED
    BY <2>3 DEF Refines, MqQueue!Next, MqQueue!Messages, Mail
<1>2. CASE Queue' = <<m>> \o Queue
  <2>1. MqQueue!Urgent(m)
    BY <1>2, Zenon DEF MqQueue!Urgent, Queue, Hand
  <2> QED
    BY <2>1 DEF Refines, MqQueue!Next, MqQueue!Messages, Mail
<1> QED
  BY <1>1, <1>2

LEMMA LinkRefines ==
  ASSUME MqInv, NEW t \in Threads, MqLink(t) \/ MqLinkUrgent(t)
  PROVE  MqInv' /\ Refines
<1> DEFINE n == mine[t]
<1>1. /\ MqInv' /\ n \in Nodes \ ToSet(linked) /\ pc[t] \in Holding
      /\ pc[t] # <<"free">> /\ \A u \in Threads : pc'[u] = <<"free">> <=> pc[u] = <<"free">>
      /\ letter[t] \in Mail /\ letter[t].mail \in Letters
      /\ mine' = [mine EXCEPT ![t] = NoNode]
  BY LinkStep DEF Mail
<1>2. \A u \in Threads : pc[u] = <<"free">> => mine[u] # n /\ mine'[u] = mine[u] /\ mine[u] \in Nodes
  BY <1>1 DEF MqInv, NodeInv, Holding
<1>3. MqQueue!HasRoom
  BY <1>1, <1>2, Room
<1>4. \A x \in Nodes \ {n} : node'[x] = node[x]
  <2>1. CASE MqLink(t)
    <3>1. node' = [node EXCEPT ![n] = letter[t]]
      BY <2>1 DEF MqLink, Link
    <3>2. node \in [Nodes -> Messages]
      BY DEF MqInv, LetterInv
    <3> QED
      BY <3>1, <3>2
  <2>2. CASE MqLinkUrgent(t)
    BY <1>1, <2>2, LinkUrgentFacts DEF MqLinkUrgent
  <2> QED
    BY <2>1, <2>2
<1>5. Hand' = Hand
  BY <1>1, <1>2, <1>4, HandKept
<1>6. CASE MqLink(t)
  <2>1. \E j \in 0 .. Len(Queue) :
               /\ Queue' = InsertAt(Queue, j + 1, letter[t])
               /\ \A i \in 1 .. j : Queue[i].prio >= letter[t].prio
               /\ j < Len(Queue) => Queue[j + 1].prio < letter[t].prio
    BY <1>1, <1>6, LinkFacts DEF MqLink
  <2> QED
    BY <1>1, <1>3, <1>5, <2>1, SendRefines
<1>7. CASE MqLinkUrgent(t)
  <2>1. node'[n] \in Mail /\ Queue' = <<node'[n]>> \o Queue
    BY <1>1, <1>7, LinkUrgentFacts DEF MqLinkUrgent
  <2> DEFINE m == node'[n]
  <2> HIDE DEF m
  <2>2. m \in Mail /\ Queue' = <<m>> \o Queue
    BY <2>1 DEF m
  <2> QED
    BY <1>1, <1>3, <1>5, <2>2, SendRefines
<1> QED
  BY <1>6, <1>7

LEMMA SendIsrRefines ==
  ASSUME MqInv, NEW m \in Mail, MqSendIsr(m)
  PROVE  MqInv' /\ Refines
<1> DEFINE n == Head(free)
<1>1. MqInv' /\ n \in ToSet(free) /\ n \in Nodes \ ToSet(linked)
  BY SendIsrStep
<1> HIDE DEF n
<1>2. \A u \in Threads : pc[u] = <<"free">> => mine[u] # n /\ mine[u] \in Nodes
  BY <1>1 DEF MqInv, NodeInv, Holding
<1>3. MqQueue!HasRoom
  BY <1>1, <1>2, Room
<1>4. Link(n, m) /\ UNCHANGED <<pc, mine>>
  BY DEF MqSendIsr, n
<1>5. /\ node' = [node EXCEPT ![n] = m]
      /\ \E j \in 0 .. Len(Queue) :
               /\ Queue' = InsertAt(Queue, j + 1, m)
               /\ \A i \in 1 .. j : Queue[i].prio >= m.prio
               /\ j < Len(Queue) => Queue[j + 1].prio < m.prio
  BY <1>1, <1>4, LinkFacts
<1>6. Hand' = Hand
  BY <1>1, <1>2, <1>4, <1>5, HandKept DEF MqInv, LetterInv
<1> QED
  BY <1>1, <1>3, <1>5, <1>6, SendRefines

LEMMA RecvRefines ==
  ASSUME MqInv, NEW t \in Threads, MqRecv(t)
  PROVE  MqInv' /\ Refines
<1>1. /\ MqInv' /\ linked # << >> /\ pc[t] # <<"free">> /\ pc'[t] = <<"free">>
      /\ \A u \in Threads \ {t} : pc'[u] = pc[u]
  BY RecvStep
<1>2. Unlink(t) /\ node' = node /\ mine' = [mine EXCEPT ![t] = Head(linked)]
  BY DEF MqRecv, Unlink
<1>3. Queue # << >> /\ Head(Queue) = node[Head(linked)] /\ Queue' = Tail(Queue)
  BY <1>1, <1>2, UnlinkFacts
<1>4. mine'[t] = Head(linked) /\ \A u \in Threads \ {t} : mine'[u] = mine[u]
  BY <1>2 DEF MqInv, NodeInv
<1>5. \A u \in Threads : u \in Copying <=> pc[u] = <<"free">>
  BY FreeSection DEF MqInv, PcInv, Copying
<1>6. \A u \in Threads : u \in Copying' <=> pc'[u] = <<"free">>
  BY <1>1, FreeSection DEF MqInv, PcInv, Copying
<1>7. Hand[t] = NoLetter
  BY <1>1, <1>5 DEF Hand
<1>8. Hand' = [Hand EXCEPT ![t] = Head(Queue)]
  <2>1. Hand'[t] = Head(Queue)
    BY <1>1, <1>2, <1>3, <1>4, <1>6 DEF Hand
  <2>2. ASSUME NEW u \in Threads \ {t} PROVE Hand'[u] = Hand[u]
    BY <1>1, <1>2, <1>4, <1>5, <1>6 DEF Hand
  <2> QED
    BY <2>1, <2>2, HandChanged
<1>9. MqQueue!TakeOut(t)
  BY <1>3, <1>7, <1>8, Zenon DEF MqQueue!TakeOut, Queue, Hand
<1> QED
  BY <1>1, <1>9 DEF Refines, MqQueue!Next

LEMMA FreeRefines ==
  ASSUME MqInv, NEW t \in Threads, MqFree(t)
  PROVE  MqInv' /\ Refines
<1>1. /\ MqInv' /\ pc[t] = <<"free">> /\ pc'[t] # <<"free">> /\ mine[t] \in Nodes
      /\ mine[t] \notin ToSet(linked)
      /\ \A u \in Threads \ {t} : pc'[u] = pc[u] /\ mine'[u] = mine[u] /\ mine[u] # mine[t]
      /\ \A x \in Nodes \ {mine[t]} : node'[x] = node[x]
  BY FreeStep
<1>2. linked' = linked /\ \A i \in DOMAIN linked : linked[i] \in Nodes /\ linked[i] # mine[t]
  BY <1>1, QueueFacts DEF MqFree
<1>3. Queue' = Queue
  BY <1>1, <1>2 DEF Queue
<1>4. \A u \in Threads : u \in Copying <=> pc[u] = <<"free">>
  BY FreeSection DEF MqInv, PcInv, Copying
<1>5. \A u \in Threads : u \in Copying' <=> pc'[u] = <<"free">>
  BY <1>1, FreeSection DEF MqInv, PcInv, Copying
<1>6. \A u \in Threads : pc[u] = <<"free">> => mine[u] \in Nodes
  BY DEF MqInv, NodeInv, Holding
<1>7. Hand' = [Hand EXCEPT ![t] = NoLetter]
  <2>1. Hand'[t] = NoLetter
    BY <1>1, <1>5 DEF Hand
  <2>2. ASSUME NEW u \in Threads \ {t} PROVE Hand'[u] = Hand[u]
    BY <1>1, <1>4, <1>5, <1>6 DEF Hand
  <2> QED
    BY <2>1, <2>2, HandChanged
<1>8. Hand[t] # NoLetter
  BY <1>1, HandFacts
<1>9. MqQueue!Deliver(t)
  BY <1>3, <1>7, <1>8, Zenon DEF MqQueue!Deliver, Queue, Hand
<1> QED
  BY <1>1, <1>9 DEF Refines, MqQueue!Next

LEMMA ResetRefines ==
  ASSUME MqInv, NEW t \in Threads, MqReset(t)
  PROVE  MqInv' /\ Refines
<1>1. /\ MqInv' /\ \A u \in Threads : pc'[u] = <<"free">> <=> pc[u] = <<"free">>
      /\ mine' = mine /\ Queue' = << >>
      /\ \A x \in Nodes \ ToSet(linked) : node'[x] = node[x]
  BY ResetStep
<1>2. \A u \in Threads : pc[u] = <<"free">> => mine[u] \in Nodes \ ToSet(linked)
  BY DEF MqInv, NodeInv, Holding
<1>3. Hand' = Hand
  BY <1>1, <1>2, HandKept
<1>4. MqQueue!Reset
  BY <1>1, <1>3, Zenon DEF MqQueue!Reset, Queue, Hand
<1> QED
  BY <1>1, <1>4 DEF Refines, MqQueue!Next

LEMMA MqStep ==
  ASSUME MqInv, [MqNext(Threads, Letters, MqPrios, Letters)]_mqVars
  PROVE  MqInv' /\ Refines
<1>1. CASE UNCHANGED mqVars
  <2>1. UNCHANGED <<mqState, pc>> /\ UNCHANGED <<node, mine>>
    BY <1>1 DEF mqVars, mqState, blockingVars
  <2>2. MqInv' /\ Queue' = Queue /\ \A u \in Threads : pc'[u] = <<"free">> <=> pc[u] = <<"free">>
    BY <2>1, IdleStep
  <2>3. Hand' = Hand
    BY <2>1, <2>2, HandKept
  <2> QED
    BY <2>2, <2>3, Stutters
<1>2. ASSUME NEW t \in Threads,
          \/ \E m \in Mail : MqSend(t, m) \/ MqSendWait(t, m)
          \/ MqSendWoken(t) \/ MqLink(t)
          \/ \E mail \in Letters : MqUrgent(t, mail)
          \/ MqLinkUrgent(t)
          \/ MqRecv(t) \/ MqRecvWait(t) \/ MqFree(t) \/ MqReset(t)
          \/ \E w \in {MqReceivers, MqSenders} : MqGiveUp(t, w) \/ MqWaitAgain(t, w)
          \/ (DoSchedule(t) \/ Timeout(t)) /\ UNCHANGED mqState
      PROVE  MqInv' /\ Refines
  BY <1>2, SilentSteps, LinkRefines, RecvRefines, FreeRefines, ResetRefines
<1>3. ASSUME NEW m \in Mail, MqSendIsr(m) PROVE MqInv' /\ Refines
  BY <1>3, SendIsrRefines
<1>4. ASSUME Slice, UNCHANGED mqState PROVE MqInv' /\ Refines
  <2>1. UNCHANGED <<mqState, pc>> /\ UNCHANGED <<node, mine>>
    BY <1>4 DEF Slice, mqState
  <2>2. MqInv' /\ Queue' = Queue /\ \A u \in Threads : pc'[u] = <<"free">> <=> pc[u] = <<"free">>
    BY <2>1, IdleStep
  <2>3. Hand' = Hand
    BY <2>1, <2>2, HandKept
  <2> QED
    BY <2>2, <2>3, Stutters
<1> QED
  BY <1>1, <1>2, <1>3, <1>4 DEF MqNext, Mail

-----------------------------------------------------------------------------
(* Theorems *)

\* The inductive invariant holds throughout.
THEOREM MqInvariance == MqSpec => []MqInv
<1>1. MqInit => MqInv
  BY MqInitInv
<1>2. MqInv /\ [MqNext(Threads, Letters, MqPrios, Letters)]_mqVars => MqInv'
  BY MqStep
<1> QED
  BY <1>1, <1>2, PTL DEF MqSpec

\* Whatever senders, receivers, handlers and resets come between the two
\* sections of a call, every node of the pool stays in one place, and the
\* tail and the counter of the control block fit the list.
THEOREM MqConserves == MqSpec => []NodesConserved
<1>1. MqInv => NodesConserved
  <2> SUFFICES ASSUME MqInv PROVE NodesConserved
    OBVIOUS
  <2>1. ASSUME NEW n \in Nodes
        PROVE  Cardinality({i \in DOMAIN free : free[i] = n})
                 + Cardinality({i \in DOMAIN linked : linked[i] = n})
                 + Cardinality({t \in Threads : mine[t] = n}) = 1
    <3> DEFINE F == {i \in DOMAIN free : free[i] = n}
               L == {i \in DOMAIN linked : linked[i] = n}
               M == {t \in Threads : mine[t] = n}
    <3>1. /\ IsInjective(free) /\ IsInjective(linked) /\ n # NoNode
          /\ n \in ToSet(free) => n \notin ToSet(linked)
          /\ \A t \in Threads : mine[t] = n => n \notin ToSet(free) \cup ToSet(linked)
          /\ \A t, u \in Threads : mine[t] = n /\ mine[u] = n => t = u
          /\ n \in ToSet(free) \cup ToSet(linked) \/ \E t \in Threads : mine[t] = n
      BY MqAssumption DEF MqInv, NodeInv, Links
    <3>2. /\ n \in ToSet(free) => \E i : F = {i}
          /\ n \notin ToSet(free) => F = {}
      BY <3>1 DEF ToSet, IsInjective
    <3>3. /\ n \in ToSet(linked) => \E i : L = {i}
          /\ n \notin ToSet(linked) => L = {}
      BY <3>1 DEF ToSet, IsInjective
    <3>4. /\ (\E t \in Threads : mine[t] = n) => \E i : M = {i}
          /\ (~ \E t \in Threads : mine[t] = n) => M = {}
      BY <3>1
    <3> HIDE DEF F, L, M
    <3>5. /\ n \in ToSet(free) => Cardinality(F) = 1 /\ Cardinality(L) = 0 /\ Cardinality(M) = 0
          /\ n \in ToSet(linked) => Cardinality(F) = 0 /\ Cardinality(L) = 1 /\ Cardinality(M) = 0
          /\ n \notin ToSet(free) \cup ToSet(linked) =>
                Cardinality(F) = 0 /\ Cardinality(L) = 0 /\ Cardinality(M) = 1
      BY <3>1, <3>2, <3>3, <3>4, FS_Singleton, FS_EmptySet
    <3>6. Cardinality(F) + Cardinality(L) + Cardinality(M) = 1
      BY <3>5
    <3> QED
      BY <3>6 DEF F, L, M
  <2>2. /\ tail = (IF linked = << >> THEN NoNode ELSE Last(linked))
        /\ mqEntry = Len(linked)
    BY DEF MqInv, EndInv, Last
  <2> QED
    BY <2>1, <2>2 DEF NodesConserved
<1> QED
  BY <1>1, MqInvariance, PTL

\* The message queue with its sections, copies in between, handlers, urgent
\* messages, timeouts and resets implements the bounded queue: every message
\* taken out was sent, once, and none is lost but by a reset.
THEOREM MqRefinement == MqSpec => MqImplements
<1>1. MqInit => MqQueue!Init
  <2> SUFFICES ASSUME MqInit PROVE MqQueue!Init
    OBVIOUS
  <2>1. Queue = << >>
    BY DEF MqInit, Queue
  <2>2. \A t \in Threads : t \notin Copying
    BY DEF MqInit, BlockingInit, Copying
  <2>3. Hand = [t \in Threads |-> NoLetter]
    BY <2>2 DEF Hand
  <2> QED
    BY <2>1, <2>3, Zenon DEF MqQueue!Init, Queue, Hand
<1>2. MqInv /\ [MqNext(Threads, Letters, MqPrios, Letters)]_mqVars => [MqQueue!Next]_MqQueue!vars
  BY MqStep DEF Refines
<1> QED
  BY <1>1, <1>2, MqInvariance, PTL DEF MqSpec, MqImplements, MqQueue!Spec


-----------------------------------------------------------------------------
(* Wake-ups *)

\* No wake-up is lost; in the states of MqInv this is inductive.
MqWakeInv == BlockInv /\ err = [t \in Threads |-> err[t]] /\ MqNoLostWakeup

LEMMA MqServed ==
  /\ MqNoLostWakeup <=> /\ Served(k.wait[MqReceivers], mqEntry, Woken(MqReceivers))
                        /\ Served(k.wait[MqSenders], Len(free), Woken(MqSenders))
  /\ MqNoLostWakeup' <=> /\ Served(k'.wait[MqReceivers], mqEntry', Woken(MqReceivers)')
                         /\ Served(k'.wait[MqSenders], Len(free'), Woken(MqSenders)')
  BY DEF MqNoLostWakeup, Served

LEMMA MqNames ==
  /\ MqReceivers \in Waits /\ MqSenders \in Waits /\ MqReceivers # MqSenders
  /\ MqReceivers # "sched" /\ MqSenders # "sched"
  /\ \A s \in {"link", "urgent", "free"} :
        s # "sched" /\ CallOK(<<s>>) /\ Waits \cap ToSet(<<s>>) = {}
<1>1. \A s \in {"link", "urgent", "free"} : s # "sched" /\ s \notin Waits /\ CallOK(<<s>>)
  BY MqAssumption DEF CallOK
<1>2. \A s : ToSet(<<s>>) = {s}
  BY CallFacts
<1> QED
  BY <1>1, <1>2, MqAssumption, SectionAssumption

\* A thread runs application code, a section of its own, or that of a woken call.
LEMMA MqRunning ==
  ASSUME BlockInv, NEW t
  PROVE  /\ Runs(t) => Live(t) /\ \A v : ~ OnCall(t, v)
         /\ \A s \in {"link", "urgent", "free"} : At(t, s) => Live(t) /\ \A v \in Waits : ~ OnCall(t, v)
         /\ \A w \in {MqReceivers, MqSenders} :
               At(t, w) => /\ Live(t) /\ Tail(pc[t]) = << >> /\ OnCall(t, w)
                           /\ \A v \in {MqReceivers, MqSenders} \ {w} : ~ OnCall(t, v)
<1>1. Runs(t) => Live(t) /\ \A v : ~ OnCall(t, v)
  BY RunsLive, CallFacts DEF Runs, OnCall
<1>2. ASSUME NEW s, At(t, s), s # "sched"
      PROVE  Live(t) /\ Tail(pc[t]) = << >> /\ ToSet(pc[t]) = {s}
  BY <1>2, RunsLive, AtLast
<1>3. \A s \in {"link", "urgent", "free"} : s # "sched" /\ s \notin Waits
  BY MqAssumption
<1> QED
  BY <1>1, <1>2, <1>3, MqNames DEF OnCall

\* The counts of what there is for the waiters.
LEMMA MqCounts ==
  ASSUME MqInv
  PROVE  /\ mqEntry \in Nat /\ free \in Seq(Nodes) /\ Len(free) \in Nat
         /\ free # << >> => Len(Tail(free)) = Len(free) - 1
         /\ \A n \in Nodes : Len(<<n>> \o free) = Len(free) + 1
         /\ free = << >> => Len(free) = 0
<1>1. free \in Seq(Nodes) /\ linked \in Seq(Nodes) /\ mqEntry = Len(linked)
  BY DEF MqInv, NodeInv, EndInv, Links
<1>2. Len(free) \in Nat /\ Len(linked) \in Nat
  BY <1>1
<1>3. ASSUME NEW n \in Nodes PROVE Len(<<n>> \o free) = Len(free) + 1
  <2>1. <<n>> \in Seq(Nodes) /\ Len(<<n>>) = 1
    OBVIOUS
  <2>2. Len(<<n>> \o free) = Len(<<n>>) + Len(free)
    BY <1>1, <2>1
  <2> QED
    BY <1>2, <2>1, <2>2
<1> QED
  BY <1>1, <1>2, <1>3

\* A sender takes a free node, or a receiver a message, for a section of its own.
LEMMA MqTakenWakes ==
  ASSUME MqInv, MqWakeInv, NEW t, Live(t), NEW s \in {"link", "urgent", "free"}, Call(t, <<s>>),
         UNCHANGED <<k, timed, err>>,
         \/ Len(free') = Len(free) - 1 /\ mqEntry' = mqEntry /\ ~ OnCall(t, MqReceivers)
         \/ Len(free') = Len(free) /\ mqEntry' = mqEntry - 1 /\ ~ OnCall(t, MqSenders)
  PROVE  MqWakeInv'
<1>1. BlockInv /\ mqEntry \in Int /\ Len(free) \in Int /\ err = [u \in Threads |-> err[u]]
  BY MqCounts DEF MqWakeInv
<1>2. /\ BlockInv'
      /\ \A w \in Waits, n \in Int :
            Served(k.wait[w], n, Woken(w)) =>
               /\ Served(k'.wait[w], n - 1, Woken(w)')
               /\ ~ OnCall(t, w) => Served(k'.wait[w], n, Woken(w)')
  BY <1>1, MqNames, TakenStep
<1>3. Served(k.wait[MqReceivers], mqEntry, Woken(MqReceivers))
      /\ Served(k.wait[MqSenders], Len(free), Woken(MqSenders))
  BY MqServed DEF MqWakeInv
<1>4. Served(k'.wait[MqReceivers], mqEntry', Woken(MqReceivers)')
  BY <1>1, <1>2, <1>3, MqNames
<1>5. Served(k'.wait[MqSenders], Len(free'), Woken(MqSenders)')
  BY <1>1, <1>2, <1>3, MqNames
<1> QED
  BY <1>1, <1>2, <1>4, <1>5, MqServed DEF MqWakeInv

\* A message is linked, or a node freed, and the first waiter for it is told.
LEMMA MqNotifyWakes ==
  ASSUME MqInv, MqWakeInv, NEW t, Live(t), \A v \in Waits : ~ OnCall(t, v),
         NEW w \in {MqReceivers, MqSenders}, MqNotify(t, w),
         mqEntry' = (IF w = MqReceivers THEN mqEntry + 1 ELSE mqEntry),
         Len(free') = (IF w = MqSenders THEN Len(free) + 1 ELSE Len(free))
  PROVE  MqWakeInv'
<1> DEFINE s == IF First(w) # {} THEN <<"sched">> ELSE << >>
<1>0. BlockInv /\ mqEntry \in Int /\ Len(free) \in Int /\ w \in Waits /\ ~ OnCall(t, w)
  BY MqCounts, MqNames DEF MqWakeInv
<1>1. k' = ResumeFirst(k, w) /\ Wake(First(w), "EOK") /\ Call(t, s) /\ s \in {<< >>, <<"sched">>}
  BY DEF MqNotify, MqNotified, First, ResumeFirst
<1> HIDE DEF s
<1>2. /\ BlockInv' /\ err' = [u \in Threads |-> err'[u]]
      /\ \A n \in Int : Served(k.wait[w], n, Woken(w)) => Served(k'.wait[w], n + 1, Woken(w)')
      /\ \A v \in Waits \ {w}, n \in Int :
            Served(k.wait[v], n, Woken(v)) => (~ OnCall(t, v) => Served(k'.wait[v], n, Woken(v)'))
  BY <1>0, <1>1, NotifyStep
<1>3. Served(k.wait[MqReceivers], mqEntry, Woken(MqReceivers))
      /\ Served(k.wait[MqSenders], Len(free), Woken(MqSenders))
  BY MqServed DEF MqWakeInv
<1>4. CASE w = MqReceivers
  <2>1. mqEntry' = mqEntry + 1 /\ Len(free') = Len(free)
    BY <1>4, MqNames
  <2>2. Served(k'.wait[MqReceivers], mqEntry', Woken(MqReceivers)')
    BY <1>0, <1>2, <1>3, <1>4, <2>1
  <2>3. Served(k'.wait[MqSenders], Len(free'), Woken(MqSenders)')
    BY <1>0, <1>2, <1>3, <1>4, <2>1, MqNames
  <2> QED
    BY <1>2, <2>2, <2>3, MqServed DEF MqWakeInv
<1>5. CASE w = MqSenders
  <2>1. mqEntry' = mqEntry /\ Len(free') = Len(free) + 1
    BY <1>5, MqNames
  <2>2. Served(k'.wait[MqReceivers], mqEntry', Woken(MqReceivers)')
    BY <1>0, <1>2, <1>3, <1>5, <2>1, MqNames
  <2>3. Served(k'.wait[MqSenders], Len(free'), Woken(MqSenders)')
    BY <1>0, <1>2, <1>3, <1>5, <2>1
  <2> QED
    BY <1>2, <2>2, <2>3, MqServed DEF MqWakeInv
<1> QED
  BY <1>4, <1>5

\* A handler takes a free node and links it.
LEMMA MqSendIsrWakes ==
  ASSUME MqInv, MqWakeInv, NEW m, MqSendIsr(m)
  PROVE  MqWakeInv'
<1>0. BlockInv /\ mqEntry \in Int /\ Len(free) \in Int
  BY MqCounts DEF MqWakeInv
<1>1. /\ k' = (IF First(MqReceivers) # {} THEN Schedule(ResumeFirst(k, MqReceivers)) ELSE k)
      /\ Wake(First(MqReceivers), "EOK") /\ pc' = pc
      /\ mqEntry' = mqEntry + 1 /\ Len(free') = Len(free) - 1
  BY MqCounts DEF MqSendIsr, MqNotified, Link
<1>2. /\ BlockInv' /\ err' = [u \in Threads |-> err'[u]]
      /\ \A n \in Int : Served(k.wait[MqReceivers], n, Woken(MqReceivers)) =>
                           Served(k'.wait[MqReceivers], n + 1, Woken(MqReceivers)')
      /\ \A v \in Waits \ {MqReceivers}, n \in Int :
            Served(k.wait[v], n, Woken(v)) => Served(k'.wait[v], n - 1, Woken(v)')
  BY <1>0, <1>1, MqNames, NotifyIsrStep
<1>3. Served(k.wait[MqReceivers], mqEntry, Woken(MqReceivers))
      /\ Served(k.wait[MqSenders], Len(free), Woken(MqSenders))
  BY MqServed DEF MqWakeInv
<1>4. Served(k'.wait[MqReceivers], mqEntry', Woken(MqReceivers)')
  BY <1>0, <1>1, <1>2, <1>3
<1>5. Served(k'.wait[MqSenders], Len(free'), Woken(MqSenders)')
  BY <1>0, <1>1, <1>2, <1>3, MqNames
<1> QED
  BY <1>2, <1>4, <1>5, MqServed DEF MqWakeInv

\* A call that finds nothing waits.
LEMMA MqWaitWakes ==
  ASSUME MqInv, MqWakeInv, NEW t, Live(t), NEW w \in {MqReceivers, MqSenders}, WaitOn(t, w), MqBlocked(w),
         \A v \in {MqReceivers, MqSenders} \ {w} : ~ OnCall(t, v), UNCHANGED <<mqEntry, free>>
  PROVE  MqWakeInv'
<1>0. BlockInv /\ err = [u \in Threads |-> err[u]] /\ w \in Waits
  BY MqNames DEF MqWakeInv
<1>1. BlockInv'
  BY <1>0, WaitStep
<1>2. err' = [u \in Threads |-> err'[u]]
  BY <1>0 DEF WaitOn
<1>3. \A v \in {MqReceivers, MqSenders} \ {w} : Woken(v)' = Woken(v) /\ k'.wait[v] = k.wait[v]
  BY <1>0, MqNames, WokenWait
<1>4. Served(k.wait[MqReceivers], mqEntry, Woken(MqReceivers))
      /\ Served(k.wait[MqSenders], Len(free), Woken(MqSenders))
  BY MqServed DEF MqWakeInv
<1>5. Woken(w)' \in SUBSET Threads
  BY DEF Woken
<1>6. Served(k'.wait[w], 0, Woken(w)')
  BY <1>5, ServedNone
<1>7. CASE w = MqReceivers
  <2>1. mqEntry' = 0 /\ free' = free
    BY <1>7, MqNames DEF MqBlocked
  <2> QED
    BY <1>1, <1>2, <1>3, <1>4, <1>6, <1>7, <2>1, MqNames, MqServed DEF MqWakeInv
<1>8. CASE w = MqSenders
  <2>1. Len(free') = 0 /\ mqEntry' = mqEntry
    BY <1>8, MqCounts DEF MqBlocked
  <2> QED
    BY <1>1, <1>2, <1>3, <1>4, <1>6, <1>8, <2>1, MqNames, MqServed DEF MqWakeInv
<1> QED
  BY <1>7, <1>8

\* A woken call gives up.
LEMMA MqGiveUpWakes ==
  ASSUME MqInv, MqWakeInv, NEW t, NEW w \in {MqReceivers, MqSenders}, MqGiveUp(t, w)
  PROVE  MqWakeInv'
<1>0. BlockInv /\ err = [u \in Threads |-> err[u]] /\ w \in Waits /\ mqEntry \in Int /\ Len(free) \in Int
  BY MqCounts, MqNames DEF MqWakeInv
<1>1. /\ At(t, w) /\ (err[t] # "EOK" \/ MqBlocked(w)) /\ Done(t) /\ err' = [err EXCEPT ![t] = "EOK"]
      /\ k' = k /\ timed' = timed /\ free' = free /\ mqEntry' = mqEntry
  BY DEF MqGiveUp
<1>2. Live(t) /\ Tail(pc[t]) = << >> /\ \A v \in {MqReceivers, MqSenders} \ {w} : ~ OnCall(t, v)
  BY <1>0, <1>1, MqRunning
<1>3. Call(t, << >>) /\ CallOK(<< >>) /\ Waits \cap ToSet(<< >>) = {}
  BY <1>1, <1>2, CallFacts DEF Done, Call, CallOK
<1>4. (\A u \in Threads \ {t} : err'[u] = err[u]) /\ err' = [u \in Threads |-> err'[u]]
  BY <1>0, <1>1
<1>5. /\ BlockInv'
      /\ \A v \in Waits, n \in Int :
            Served(k.wait[v], n, Woken(v)) =>
               (~ OnCall(t, v) \/ err[t] # "EOK" => Served(k'.wait[v], n, Woken(v)'))
  BY <1>0, <1>1, <1>2, <1>3, <1>4, TakenStep
<1>6. Served(k.wait[MqReceivers], mqEntry, Woken(MqReceivers))
      /\ Served(k.wait[MqSenders], Len(free), Woken(MqSenders))
  BY MqServed DEF MqWakeInv
<1>7. Woken(w)' \in SUBSET Threads
  BY DEF Woken
<1>8. Served(k'.wait[w], 0, Woken(w)')
  BY <1>7, ServedNone
<1>9. Served(k'.wait[MqReceivers], mqEntry', Woken(MqReceivers)')
  <2>1. CASE mqEntry = 0 /\ w = MqReceivers
    BY <1>1, <1>8, <2>1
  <2>2. CASE ~ (mqEntry = 0 /\ w = MqReceivers)
    <3>1. ~ OnCall(t, MqReceivers) \/ err[t] # "EOK"
      BY <1>1, <1>2, <2>2, MqNames DEF MqBlocked
    <3> QED
      BY <1>0, <1>1, <1>5, <1>6, <3>1, MqNames
  <2> QED
    BY <2>1, <2>2
<1>10. Served(k'.wait[MqSenders], Len(free'), Woken(MqSenders)')
  <2>1. CASE free = << >> /\ w = MqSenders
    BY <1>1, <1>8, <2>1, MqCounts
  <2>2. CASE ~ (free = << >> /\ w = MqSenders)
    <3>1. ~ OnCall(t, MqSenders) \/ err[t] # "EOK"
      BY <1>1, <1>2, <2>2, MqNames DEF MqBlocked
    <3> QED
      BY <1>0, <1>1, <1>5, <1>6, <3>1, MqNames
  <2> QED
    BY <2>1, <2>2
<1> QED
  BY <1>4, <1>5, <1>9, <1>10, MqServed DEF MqWakeInv

\* A reset leaves nobody waiting.
LEMMA MqResetWakes ==
  ASSUME MqWakeInv, NEW t, MqReset(t)
  PROVE  MqWakeInv'
<1>0. BlockInv
  BY DEF MqWakeInv
<1>1. /\ Runs(t) /\ k' = ResumeAll(ResumeAll(k, MqReceivers), MqSenders)
      /\ timed' = timed \ (ToSet(k.wait[MqReceivers]) \cup ToSet(k.wait[MqSenders]))
      /\ err' = [u \in Threads |-> err'[u]] /\ Call(t, <<"sched">>)
  BY DEF MqReset, Wake
<1>2. Live(t) /\ CallOK(<<"sched">>)
  BY <1>0, <1>1, MqRunning DEF CallOK
<1>3. \E u, s : Live(u) /\ CallOK(s) /\ Call(u, s)
  BY <1>1, <1>2
<1>4. BlockInv' /\ k'.wait[MqReceivers] = << >> /\ k'.wait[MqSenders] = << >>
  BY <1>0, <1>1, <1>3, MqNames, AllStep
<1> QED
  BY <1>1, <1>4 DEF MqWakeInv, MqNoLostWakeup

LEMMA MqOthersWake ==
  ASSUME MqWakeInv, UNCHANGED <<mqEntry, free>>, Slice \/ \E t \in Threads : DoSchedule(t) \/ Timeout(t)
  PROVE  MqWakeInv'
<1>1. /\ BlockInv' /\ err' = [u \in Threads |-> err'[u]]
      /\ \A w \in Waits : Woken(w)' = Woken(w) /\ (k.wait[w] = << >> => k'.wait[w] = << >>)
  BY WokenKept DEF MqWakeInv
<1>2. \A w \in Waits : \A n : Served(k.wait[w], n, Woken(w)) => Served(k'.wait[w], n, Woken(w)')
  BY <1>1 DEF Served
<1> QED
  BY <1>1, <1>2, MqNames, MqServed DEF MqWakeInv

LEMMA MqWakeStep ==
  ASSUME MqInv, MqWakeInv, [MqNext(Threads, Letters, MqPrios, Letters)]_mqVars
  PROVE  MqWakeInv'
<1>0. BlockInv
  BY DEF MqWakeInv
<1>1. CASE UNCHANGED mqVars
  BY <1>1 DEF MqWakeInv, BlockInv, MqNoLostWakeup, Woken, mqVars, blockingVars, mqState
<1>2. ASSUME NEW t \in Threads, MqSendWoken(t) \/ (\E m : MqSend(t, m)) \/ \E mail : MqUrgent(t, mail)
      PROVE  MqWakeInv'
  <2>1. /\ Runs(t) \/ At(t, MqSenders)
        /\ Call(t, <<"link">>) \/ Call(t, <<"urgent">>)
        /\ UNCHANGED <<k, timed, err>> /\ free # << >> /\ free' = Tail(free) /\ mqEntry' = mqEntry
    BY <1>2 DEF MqSendWoken, MqSend, MqUrgent, TakeNode
  <2>2. Live(t) /\ ~ OnCall(t, MqReceivers)
    BY <1>0, <2>1, MqRunning, MqNames
  <2>3. Len(free') = Len(free) - 1
    BY <2>1, MqCounts
  <2> QED
    BY <2>1, <2>2, <2>3, MqTakenWakes
<1>3. ASSUME NEW t \in Threads, MqRecv(t)
      PROVE  MqWakeInv'
  <2>1. /\ Runs(t) \/ At(t, MqReceivers)
        /\ Call(t, <<"free">>)
        /\ UNCHANGED <<k, timed, err>> /\ free' = free /\ mqEntry' = mqEntry - 1
    BY <1>3 DEF MqRecv, Unlink
  <2>2. Live(t) /\ ~ OnCall(t, MqSenders)
    BY <1>0, <2>1, MqRunning, MqNames
  <2> QED
    BY <2>1, <2>2, MqTakenWakes
<1>4. ASSUME NEW t \in Threads, MqLink(t) \/ MqLinkUrgent(t)
      PROVE  MqWakeInv'
  <2>1. /\ At(t, "link") \/ At(t, "urgent")
        /\ MqNotify(t, MqReceivers) /\ mqEntry' = mqEntry + 1 /\ free' = free
    BY <1>4 DEF MqLink, MqLinkUrgent, Link, LinkUrgent
  <2>2. Live(t) /\ \A v \in Waits : ~ OnCall(t, v)
    BY <1>0, <2>1, MqRunning
  <2> QED
    BY <2>1, <2>2, MqNotifyWakes, MqNames
<1>5. ASSUME NEW t \in Threads, MqFree(t)
      PROVE  MqWakeInv'
  <2>1. At(t, "free") /\ MqNotify(t, MqSenders) /\ mqEntry' = mqEntry /\ free' = <<mine[t]>> \o free
    BY <1>5 DEF MqFree
  <2>2. Live(t) /\ \A v \in Waits : ~ OnCall(t, v)
    BY <1>0, <2>1, MqRunning
  <2>3. mine[t] \in Nodes
    <3>1. pc[t] = <<"free">>
      BY <1>0, <2>1, MqNames, AtLast
    <3> QED
      BY <3>1 DEF MqInv, NodeInv, Holding
  <2>4. Len(free') = Len(free) + 1
    BY <2>1, <2>3, MqCounts
  <2> QED
    BY <2>1, <2>2, <2>4, MqNotifyWakes, MqNames
<1>6. ASSUME NEW t \in Threads, MqRecvWait(t) \/ \E m : MqSendWait(t, m)
      PROVE  MqWakeInv'
  <2>1. Runs(t) /\ UNCHANGED <<mqEntry, free>>
        /\ \E w \in {MqReceivers, MqSenders} : WaitOn(t, w) /\ MqBlocked(w)
    BY <1>6, MqNames DEF MqRecvWait, MqSendWait, MqBlocked, mqState
  <2>2. Live(t) /\ \A v : ~ OnCall(t, v)
    BY <1>0, <2>1, MqRunning
  <2> QED
    BY <2>1, <2>2, MqWaitWakes
<1>7. ASSUME NEW t \in Threads, NEW w \in {MqReceivers, MqSenders}, MqWaitAgain(t, w)
      PROVE  MqWakeInv'
  <2>1. At(t, w) /\ UNCHANGED <<mqEntry, free>> /\ WaitOn(t, w) /\ MqBlocked(w)
    BY <1>7 DEF MqWaitAgain, mqState
  <2>2. Live(t) /\ \A v \in {MqReceivers, MqSenders} \ {w} : ~ OnCall(t, v)
    BY <1>0, <2>1, MqRunning
  <2> QED
    BY <2>1, <2>2, MqWaitWakes
<1>8. ASSUME NEW t \in Threads, MqReset(t) \/ \E w \in {MqReceivers, MqSenders} : MqGiveUp(t, w)
      PROVE  MqWakeInv'
  BY <1>8, MqResetWakes, MqGiveUpWakes
<1>9. ASSUME NEW m, MqSendIsr(m)
      PROVE  MqWakeInv'
  BY <1>9, MqSendIsrWakes
<1>10. ASSUME UNCHANGED mqState, Slice \/ \E t \in Threads : DoSchedule(t) \/ Timeout(t)
       PROVE  MqWakeInv'
  BY <1>10, MqOthersWake DEF mqState
<1> QED
  BY <1>1, <1>2, <1>3, <1>4, <1>5, <1>6, <1>7, <1>8, <1>9, <1>10 DEF MqNext

LEMMA MqWakeInit == MqInit => MqWakeInv
<1> SUFFICES ASSUME MqInit PROVE MqWakeInv
  OBVIOUS
<1>1. BlockInv /\ \A w \in Waits : k.wait[w] = << >>
  BY BlockingStart DEF MqInit
<1>2. err = [t \in Threads |-> err[t]]
  BY DEF MqInit, BlockingInit
<1> QED
  BY <1>1, <1>2, MqNames DEF MqWakeInv, MqNoLostWakeup

\* The message queue loses no wake-up, although the sections that take a node
\* and those that tell the other side of it are apart.
THEOREM MqWakesAll == MqSpec => []MqNoLostWakeup
<1>1. MqInv /\ MqWakeInv /\ [MqNext(Threads, Letters, MqPrios, Letters)]_mqVars => MqWakeInv'
  BY MqWakeStep
<1>2. MqWakeInv => MqNoLostWakeup
  BY DEF MqWakeInv
<1> QED
  BY <1>1, <1>2, MqWakeInit, MqInvariance, PTL DEF MqSpec

=============================================================================
