---------------------------- MODULE MutexProofs -----------------------------
(***************************************************************************)
(* The mutexes, for any threads, mutexes, priorities and ceilings: who     *)
(* owns a mutex, who waits for it and what rt_mutex_take answers.  The     *)
(* loop of _thread_update_priority moves priorities along a chain of       *)
(* owners of any length; it is shown to leave every list with the threads  *)
(* it had, in order of priority, and every owner as urgent as its waiters. *)
(***************************************************************************)
EXTENDS Mutex, BlockingProofs

-----------------------------------------------------------------------------
(* What a change of priority does to the lists *)

Levels == Prio \cup {Lowest}

\* x and y differ at most in priorities and in the order of lists.
SameWaiters(x, y) ==
    /\ KernelOK(y, {}) /\ SameStats(x, y)
    /\ \A w \in Waits : ToSet(y.wait[w]) = ToSet(x.wait[w])

LEMMA SameThen ==
  ASSUME NEW x, NEW y, NEW z, SameWaiters(x, y), SameWaiters(y, z)
  PROVE  SameWaiters(x, z)
  BY DEF SameWaiters, SameStats

\* The invariant of the thread layer does not depend on priorities.
LEMMA BlockSame ==
  ASSUME NEW x, NEW tm, NEW c, BlockOK(x, tm, c), NEW y, SameWaiters(x, y)
  PROVE  BlockOK(y, tm, c)
  BY DEF BlockOK, SameWaiters, SameStats

\* A change of priority moves a thread at most within the ready table.
LEMMA ChangeWait ==
  ASSUME NEW X, NEW x, KernelOK(x, X), NEW t \in Threads \ X, NEW p \in Prio
  PROVE  ChangePriority(x, t, p).wait = x.wait
<1> DEFINE y == ChangePriority(x, t, p)
<1>1. x \in KernelState
  BY DEF KernelOK
<1>2. CASE x.stat[t] # "READY"
  <2>1. y = Repriced(x, t, p)
    BY <1>2 DEF ChangePriority, Repriced
  <2>2. SameLists(x, Repriced(x, t, p))
    BY <1>1, RepricedFacts
  <2> HIDE DEF y
  <2> QED
    BY <2>1, <2>2 DEF SameLists, y
<1>3. CASE x.stat[t] = "READY"
  <2> DEFINE r == RemoveThread(x, t)
             v == Repriced(r, t, p)
  <2>1. y = InsertThread(v, t)
    BY <1>3 DEF ChangePriority, Repriced
  <2>2. KernelOK(r, X \cup {t}) /\ SameThreads(x, r) /\ r.wait = x.wait
    BY <1>3, RemoveThreadOK, NotWaiting
  <2> HIDE DEF r
  <2>3. r \in KernelState
    BY <2>2 DEF KernelOK
  <2>4. /\ v \in KernelState /\ SameLists(r, v) /\ v.stat = r.stat /\ MaskOK(v, t)
        /\ \A u \in Threads \ {t} : v.prio[u] = r.prio[u] /\ v.mask[u] = r.mask[u]
    BY <2>3, RepricedFacts DEF SameStats
  <2> HIDE DEF v, y
  <2>5. \A u \in Threads \ {t} : v.stat[u] = r.stat[u] /\ v.prio[u] = r.prio[u]
                                                       /\ v.mask[u] = r.mask[u]
    BY <2>4
  <2>6. KernelOK(v, X \cup {t})
    BY <2>2, <2>4, <2>5, RelabelOK
  <2>7. InsertThread(v, t).wait = v.wait
    <3>1. KernelOK(v, X \cup {t}) /\ MaskOK(v, t) /\ t \in Threads
      BY <2>4, <2>6
    <3> QED
      BY <3>1, InsertThreadOK
  <2> QED
    BY <2>1, <2>2, <2>4, <2>7 DEF SameLists, y
<1> QED
  BY <1>2, <1>3

LEMMA ChangeSame ==
  ASSUME NEW x, KernelOK(x, {}), NEW t \in Threads, t = x.cur => x.stat[t] # "READY", NEW p \in Prio
  PROVE  SameWaiters(x, ChangePriority(x, t, p))
<1>1. KernelOK(x, {}) /\ t \in Threads \ {}
  OBVIOUS
<1> QED
  BY <1>1, ChangePriorityOK, ChangeWait DEF SameWaiters

\* A waiter that takes its place anew stays in the list it is in.
LEMMA RequeueLists ==
  ASSUME NEW X, NEW x, KernelOK(x, X), NEW m \in Mutexes, NEW t \in ToSet(x.wait[m]),
         NEW y, y = Requeue(x, t, m)
  PROVE  /\ KernelOK(y, X) /\ SameThreads(x, y)
         /\ \A w \in Waits : ToSet(y.wait[w]) = ToSet(x.wait[w])
<1>1. /\ t \in Threads \ X /\ x.stat[t] = "SUSPEND" /\ m \in Waits /\ x \in KernelState /\ LinksOK(x, X)
      /\ \A v \in Waits \ {m} : t \notin ToSet(x.wait[v])
  BY HoldsFacts DEF KernelOK, LinksOK, Mutexes
<1>2. PICK l : l = ListRemove(x, t)
  OBVIOUS
<1> DEFINE I == {i \in DOMAIN l.wait[m] : l.prio[t] < l.prio[l.wait[m][i]]}
<1>3. KernelOK(l, X \cup {t}) /\ SameThreads(x, l)
  BY <1>1, <1>2, ListRemoveOK
<1>4. \A w \in Waits : ToSet(l.wait[w]) = ToSet(x.wait[w]) \ {t}
  <2>1. \A w \in Waits : l.wait[w] = Unlinked(x.wait[w], t)
    BY <1>1, <1>2 DEF ListRemove, KernelState
  <2>2. \A w \in Waits : Holds(x.wait[w], ToSet(x.wait[w]))
    BY <1>1 DEF LinksOK
  <2>3. \A w \in Waits : Holds(Unlinked(x.wait[w], t), ToSet(x.wait[w]) \ {t})
    BY <1>1, <2>2, HoldsUnlinked
  <2> QED
    BY <2>1, <2>3 DEF Holds
<1>5. y = Join(l, t, m, I) /\ I \in SUBSET DOMAIN l.wait[m]
  BY <1>2 DEF Requeue, Join
<1> HIDE DEF I
<1>6. l.stat[t] = "SUSPEND"
  BY <1>1, <1>3 DEF SameThreads
<1>7. KernelOK(l, X \ {t}) /\ X \ {t} = X
  BY <1>1, <1>3, <1>6, ReleaseOK
<1>8. /\ KernelOK(y, X) /\ SameThreads(l, y)
      /\ ToSet(y.wait[m]) = ToSet(l.wait[m]) \cup {t}
      /\ \A v \in Waits \ {m} : y.wait[v] = l.wait[v]
  <2>1. KernelOK(l, X) /\ KernelOK(l, X \cup {t}) /\ t \in Threads \ X /\ m \in Waits
    BY <1>1, <1>3, <1>7
  <2> QED
    BY <1>5, <1>6, <2>1, JoinOK
<1>9. ASSUME NEW w \in Waits PROVE ToSet(y.wait[w]) = ToSet(x.wait[w])
  <2>1. CASE w = m
    BY <1>1, <1>4, <1>8, <2>1
  <2>2. CASE w # m
    <3>1. y.wait[w] = l.wait[w] /\ t \notin ToSet(x.wait[w])
      BY <1>1, <1>8, <2>2
    <3> QED
      BY <1>4, <3>1
  <2> QED
    BY <2>1, <2>2
<1> QED
  BY <1>3, <1>8, <1>9 DEF SameThreads

LEMMA RequeueSame ==
  ASSUME NEW x, KernelOK(x, {}), NEW m \in Mutexes, NEW t \in ToSet(x.wait[m])
  PROVE  SameWaiters(x, Requeue(x, t, m))
  BY RequeueLists DEF SameWaiters, SameStats, SameThreads

\* The priority a thread is due is a priority.
LEMMA PriorityTyped ==
  ASSUME NEW t \in Threads, NEW S \in SUBSET Mutexes,
         NEW mp \in [Mutexes -> Levels], NEW c \in [Mutexes -> Levels]
  PROVE  MutexPriority(t, S, mp, c) \in Prio
<1> DEFINE R == {BasePrio[t]} \cup {mp[m] : m \in S} \cup {c[m] : m \in S}
<1>1. BasePrio[t] \in Prio /\ NPrio \in Nat
  BY BasePrioAssumption, PrioAssumption
<1>2. R \in SUBSET (Prio \cup {NPrio}) /\ R \in SUBSET Nat /\ BasePrio[t] \in R
  BY <1>1 DEF Levels, Lowest, Prio
<1>3. MutexPriority(t, S, mp, c) = Min(R)
  BY DEF MutexPriority
<1> DEFINE q == Min(R)
<1> HIDE DEF R
<1>4. q \in Nat /\ q <= BasePrio[t]
  BY <1>2, LeastNat
<1> HIDE DEF q
<1>5. q \in Prio
  BY <1>1, <1>4 DEF Prio
<1> QED
  BY <1>3, <1>5 DEF q

\* The priority of the first waiter.
LEMMA WaitersTyped ==
  ASSUME NEW x, KernelOK(x, {}), NEW m \in Mutexes
  PROVE  WaitersPriority(x, m) \in Levels
<1>1. Holds(x.wait[m], ToSet(x.wait[m])) /\ x.prio \in [Threads -> Prio]
  BY DEF KernelOK, LinksOK, KernelState, Mutexes
<1>2. x.wait[m] # << >> => Head(x.wait[m]) \in Threads
  BY <1>1, HoldsFacts
<1> QED
  BY <1>1, <1>2 DEF WaitersPriority, Levels

-----------------------------------------------------------------------------
(* The loop of _thread_update_priority *)

PropagationState ==
    [ k : KernelState, mp : [Mutexes -> Levels], ceil : [Mutexes -> Levels],
      pend : [Threads -> Mutexes \cup {NoMutex}], at : ThreadOrNull ]

\* In every round the lists hold the threads they held in x, where the loop
\* has begun, and the mutex priorities are priorities.
LoopOK(x, s) == s \in PropagationState /\ SameWaiters(x, s.k)

\* A suspended thread that is pending on a mutex waits for it and the mutex
\* has an owner.
PendOK(x, pn) ==
    \A t \in Threads : x.stat[t] = "SUSPEND" /\ pn[t] # NoMutex =>
        t \in ToSet(x.wait[pn[t]]) /\ owner[pn[t]] \in Threads

\* The processor is with no thread of the ready table.
CurOK(x) == \A t \in Threads : t = x.cur => x.stat[t] # "READY"

\* One round of the loop.
LEMMA PropagateOK ==
  ASSUME taken \in [Threads -> SUBSET Mutexes], NEW x, CurOK(x), NEW s, LoopOK(x, s), PendOK(x, s.pend)
  PROVE  LoopOK(x, Propagate(s)) /\ Propagate(s).pend = s.pend /\ Propagate(s).ceil = s.ceil
<1>1. /\ s \in PropagationState /\ s.k \in KernelState /\ s.mp \in [Mutexes -> Levels]
      /\ s.ceil \in [Mutexes -> Levels] /\ s.pend \in [Threads -> Mutexes \cup {NoMutex}]
      /\ s.at \in ThreadOrNull /\ SameWaiters(x, s.k)
  BY DEF LoopOK, PropagationState
<1>2. CASE ~ (s.at # NoThread /\ s.k.stat[s.at] = "SUSPEND" /\ s.pend[s.at] # NoMutex)
  <2>1. Propagate(s) = [s EXCEPT !.at = NoThread]
    BY <1>2 DEF Propagate
  <2>2. NoThread \in ThreadOrNull
    BY DEF ThreadOrNull
  <2> QED
    BY <1>1, <2>1, <2>2 DEF LoopOK, PropagationState
<1>3. CASE s.at # NoThread /\ s.k.stat[s.at] = "SUSPEND" /\ s.pend[s.at] # NoMutex
  <2>0. PICK t, m, o : t = s.at /\ m = s.pend[t] /\ o = owner[m]
    OBVIOUS
  <2>1. t \in Threads /\ m \in Mutexes /\ o \in Threads /\ t \in ToSet(s.k.wait[m])
    <3>1. t \in Threads /\ m \in Mutexes /\ m \in Waits
      BY <1>1, <1>3, <2>0 DEF ThreadOrNull, Mutexes
    <3>2. x.stat[t] = "SUSPEND" /\ ToSet(s.k.wait[m]) = ToSet(x.wait[m])
      BY <1>1, <1>3, <2>0, <3>1 DEF SameWaiters, SameStats
    <3> QED
      BY <1>3, <2>0, <3>1, <3>2 DEF PendOK
  <2>2. PICK k1 : k1 = Requeue(s.k, t, m)
    OBVIOUS
  <2>3. SameWaiters(s.k, k1)
    <3>1. KernelOK(s.k, {})
      BY <1>1 DEF SameWaiters
    <3> QED
      BY <2>1, <2>2, <3>1, RequeueSame
  <2>4. SameWaiters(x, k1)
    BY <1>1, <2>3, SameThen
  <2>5. PICK mp : mp = [s.mp EXCEPT ![m] = WaitersPriority(k1, m)]
    OBVIOUS
  <2>6. mp \in [Mutexes -> Levels]
    <3>1. WaitersPriority(k1, m) \in Levels
      BY <2>1, <2>3, WaitersTyped DEF SameWaiters
    <3> QED
      BY <1>1, <2>5, <3>1
  <2>7. PICK p : p = MutexPriority(o, taken[o], mp, s.ceil)
    OBVIOUS
  <2>8. p \in Prio
    <3>1. taken[o] \in SUBSET Mutexes
      BY <2>1
    <3> QED
      BY <1>1, <2>1, <2>6, <2>7, <3>1, PriorityTyped
  <2>9. SameWaiters(x, ChangePriority(k1, o, p))
    <3>1. KernelOK(k1, {}) /\ (o = k1.cur => k1.stat[o] # "READY")
      BY <2>1, <2>4 DEF SameWaiters, SameStats, CurOK
    <3>2. SameWaiters(k1, ChangePriority(k1, o, p))
      BY <2>1, <2>8, <3>1, ChangeSame
    <3> QED
      BY <2>4, <3>2, SameThen
  <2>10. PICK k2 : k2 = IF p # k1.prio[o] THEN ChangePriority(k1, o, p) ELSE k1
    OBVIOUS
  <2>11. PICK a : a = IF p # k1.prio[o] THEN o ELSE NoThread
    OBVIOUS
  <2>12. SameWaiters(x, k2) /\ a \in ThreadOrNull
    BY <2>1, <2>4, <2>9, <2>10, <2>11 DEF ThreadOrNull
  <2>13. Propagate(s) = [s EXCEPT !.k = k2, !.mp = mp, !.at = a]
    BY <1>3, <2>0, <2>2, <2>5, <2>7, <2>10, <2>11 DEF Propagate
  <2>14. k2 \in KernelState
    BY <2>12 DEF SameWaiters, KernelOK
  <2> QED
    BY <1>1, <2>6, <2>12, <2>13, <2>14 DEF LoopOK, PropagationState
<1> QED
  BY <1>2, <1>3

\* The first change of priority.
Changed(s, t, p) == [s EXCEPT !.k = ChangePriority(s.k, t, p), !.at = t]

\* The states the loop goes through, from the first change of priority on.
LEMMA ChainStates ==
  ASSUME NEW s, NEW t, NEW p
  PROVE  /\ ChainBound \in Nat
         /\ \E f : /\ f[0] = Changed(s, t, p)
                   /\ f[ChainBound] = UpdatePriority(s, t, p)
                   /\ \A n \in 1 .. ChainBound : f[n] = Propagate(f[n-1])
<1>1. PICK z : z = Changed(s, t, p)
  OBVIOUS
<1> DEFINE N == ChainBound
           Body(g, n) == IF n = 0 THEN z ELSE Propagate(g[n - 1])
           Eqn(m, g) == g = [n \in 0 .. m |-> Body(g, n)]
           Bad == {m \in 0 .. N : ~ \E g : Eqn(m, g)}
<1>2. N \in Nat
  BY BasePrioAssumption, FS_CardinalityType DEF ChainBound
<1> HIDE DEF N
<1>3. Bad = {}
  <2> SUFFICES ASSUME Bad # {} PROVE FALSE
    OBVIOUS
  <2> DEFINE m == Min(Bad)
  <2>0. Bad \in SUBSET Nat
    BY <1>2
  <2> HIDE DEF Bad
  <2>1. m \in Bad /\ \A i \in Bad : m <= i
    BY <2>0, LeastNat
  <2> HIDE DEF m
  <2>2. m \in 0 .. N /\ ~ \E g : Eqn(m, g)
    BY <2>1 DEF Bad
  <2>3. CASE m = 0
    <3> DEFINE g == [n \in 0 .. 0 |-> z]
    <3>1. Eqn(0, g)
      OBVIOUS
    <3> QED
      BY <2>2, <2>3, <3>1
  <2>4. CASE m # 0
    <3> DEFINE j == m - 1
    <3>1. j \in 0 .. N /\ j \in Nat /\ j + 1 = m /\ j \notin Bad
      BY <1>2, <2>1, <2>2, <2>4
    <3> HIDE DEF j
    <3>2. PICK g : Eqn(j, g)
      BY <3>1 DEF Bad
    <3> DEFINE h == [n \in 0 .. m |-> IF n = m THEN Propagate(g[j]) ELSE g[n]]
    <3>3. \A n \in 0 .. j : h[n] = g[n]
      BY <3>1
    <3>4. ASSUME NEW n \in 0 .. m PROVE h[n] = Body(h, n)
      <4>1. CASE n = m
        <5>1. h[n] = Propagate(g[j]) /\ j \in 0 .. j /\ n - 1 = j /\ n # 0
          BY <3>1, <4>1
        <5> QED
          BY <3>3, <5>1
      <4>2. CASE n # m
        <5>1. n \in 0 .. j /\ (n # 0 => n - 1 \in 0 .. j)
          BY <3>1, <4>2
        <5>2. h[n] = g[n] /\ g[n] = Body(g, n)
          BY <3>2, <3>3, <5>1
        <5>3. n # 0 => h[n - 1] = g[n - 1]
          BY <3>3, <5>1
        <5> QED
          BY <5>2, <5>3
      <4> QED
        BY <4>1, <4>2
    <3>5. h = [n \in 0 .. m |-> h[n]]
      OBVIOUS
    <3> HIDE DEF h
    <3>6. Eqn(m, h)
      BY <3>4, <3>5, Zenon
    <3> QED
      BY <2>2, <3>6
  <2> QED
    BY <2>3, <2>4
<1>4. \E g : Eqn(N, g)
  <2>1. N \in 0 .. N
    BY <1>2
  <2> QED
    BY <1>3, <2>1
<1> DEFINE G == CHOOSE g : Eqn(N, g)
<1>5. Eqn(N, G)
  BY <1>4
<1>6. UpdatePriority(s, t, p) = G[N]
  BY <1>1 DEF UpdatePriority, Changed, N
<1> HIDE DEF G
<1>7. G[0] = z /\ \A n \in 1 .. N : G[n] = Propagate(G[n-1])
  <2>1. 0 \in 0 .. N
    BY <1>2
  <2>2. \A n \in 0 .. N : G[n] = Body(G, n)
    BY <1>5
  <2>3. \A n \in 1 .. N : n \in 0 .. N /\ n # 0
    BY <1>2
  <2> QED
    BY <2>1, <2>2, <2>3
<1> QED
  BY <1>1, <1>2, <1>6, <1>7 DEF N

\* What holds after the first change of priority and is kept by every round
\* holds when the loop has ended.
LEMMA LoopInduction ==
  ASSUME NEW G, NEW s, NEW t, NEW p, Changed(s, t, p) \in G, \A z \in G : Propagate(z) \in G
  PROVE  UpdatePriority(s, t, p) \in G
<1>1. PICK N : N = ChainBound
  OBVIOUS
<1>2. PICK f : /\ N \in Nat /\ f[0] = Changed(s, t, p) /\ f[N] = UpdatePriority(s, t, p)
               /\ \A n \in 1 .. N : f[n] = Propagate(f[n-1])
  BY <1>1, ChainStates
<1> DEFINE Bad == {n \in 0 .. N : f[n] \notin G}
<1>3. Bad = {}
  <2> SUFFICES ASSUME Bad # {} PROVE FALSE
    OBVIOUS
  <2> DEFINE m == Min(Bad)
  <2>0. Bad \in SUBSET Nat
    BY <1>2
  <2> HIDE DEF Bad
  <2>1. m \in Bad /\ \A i \in Bad : m <= i
    BY <2>0, LeastNat
  <2> HIDE DEF m
  <2>2. m \in 0 .. N /\ f[m] \notin G
    BY <2>1 DEF Bad
  <2>3. m # 0
    BY <1>2, <2>2
  <2>4. m \in 1 .. N /\ m - 1 \in 0 .. N /\ m - 1 \notin Bad
    BY <1>2, <2>1, <2>2, <2>3
  <2>5. f[m - 1] \in G /\ f[m] = Propagate(f[m-1])
    BY <1>2, <2>4 DEF Bad
  <2> QED
    BY <2>2, <2>5
<1>4. N \in 0 .. N
  BY <1>2
<1> QED
  BY <1>2, <1>3, <1>4

\* _thread_update_priority(t, p), whatever the length of the chain.
LEMMA UpdatePriorityOK ==
  ASSUME taken \in [Threads -> SUBSET Mutexes], NEW x, CurOK(x), NEW s, LoopOK(x, s), PendOK(x, s.pend),
         NEW t \in Threads, NEW p \in Prio
  PROVE  LoopOK(x, UpdatePriority(s, t, p))
<1> DEFINE G == {g \in PropagationState : LoopOK(x, g) /\ g.pend = s.pend}
<1>1. PICK z : z = Changed(s, t, p)
  OBVIOUS
<1>2. LoopOK(x, z) /\ z.pend = s.pend
  <2>1. s \in PropagationState /\ SameWaiters(x, s.k) /\ KernelOK(s.k, {}) /\ t \in ThreadOrNull
    BY DEF LoopOK, SameWaiters, ThreadOrNull
  <2>2. t = s.k.cur => s.k.stat[t] # "READY"
    BY <2>1 DEF SameWaiters, SameStats, CurOK
  <2>3. PICK y : y = ChangePriority(s.k, t, p)
    OBVIOUS
  <2>4. SameWaiters(s.k, y)
    BY <2>1, <2>2, <2>3, ChangeSame
  <2>5. SameWaiters(x, y) /\ y \in KernelState
    BY <2>1, <2>4, SameThen DEF SameWaiters, KernelOK
  <2> QED
    BY <1>1, <2>1, <2>3, <2>5 DEF LoopOK, PropagationState, Changed
<1>3. z \in G
  BY <1>2 DEF LoopOK
<1>4. ASSUME NEW g \in G PROVE Propagate(g) \in G
  <2>1. LoopOK(x, g) /\ PendOK(x, g.pend) /\ g.pend = s.pend
    OBVIOUS
  <2>2. LoopOK(x, Propagate(g)) /\ Propagate(g).pend = g.pend
    BY <2>1, PropagateOK
  <2>3. PICK h : h = Propagate(g)
    OBVIOUS
  <2>4. h \in G
    BY <2>1, <2>2, <2>3 DEF LoopOK
  <2> QED
    BY <2>3, <2>4
<1> HIDE DEF G
<1>5. UpdatePriority(s, t, p) \in G
  BY <1>1, <1>3, <1>4, LoopInduction
<1> QED
  BY <1>5 DEF G

LEMMA ReprioritiseOK ==
  ASSUME taken \in [Threads -> SUBSET Mutexes], NEW x, CurOK(x), NEW s, LoopOK(x, s), PendOK(x, s.pend),
         NEW o \in Threads
  PROVE  LoopOK(x, Reprioritise(s, o))
<1>1. PICK p : p = MutexPriority(o, taken[o], s.mp, s.ceil)
  OBVIOUS
<1>2. s.mp \in [Mutexes -> Levels] /\ s.ceil \in [Mutexes -> Levels] /\ taken[o] \in SUBSET Mutexes
  BY DEF LoopOK, PropagationState
<1>3. p \in Prio
  BY <1>1, <1>2, PriorityTyped
<1>4. LoopOK(x, UpdatePriority(s, o, p))
  BY <1>3, UpdatePriorityOK
<1> QED
  BY <1>1, <1>4 DEF Reprioritise

\* The state in which a loop begins.
LEMMA PropagationOK ==
  ASSUME NEW x, KernelOK(x, {}), NEW mp \in [Mutexes -> Levels], NEW c \in [Mutexes -> Levels],
         NEW pn \in [Threads -> Mutexes \cup {NoMutex}],
         NEW s, s = Propagation(x, mp, c, pn)
  PROVE  LoopOK(x, s) /\ s.k = x /\ s.mp = mp /\ s.ceil = c /\ s.pend = pn
<1>1. s.k = x /\ s.mp = mp /\ s.ceil = c /\ s.pend = pn /\ s.at = NoThread
  BY DEF Propagation
<1>2. SameWaiters(x, x) /\ x \in KernelState /\ NoThread \in ThreadOrNull
  BY DEF SameWaiters, SameStats, KernelOK, ThreadOrNull
<1> QED
  BY <1>1, <1>2 DEF LoopOK, PropagationState, Propagation

-----------------------------------------------------------------------------
(* The inductive invariant *)

\* What TypeOK says of the variables of the mutexes.
MutexTypes ==
    /\ err \in [Threads -> {"EOK", "ETIMEOUT"}]
    /\ pc \in [Threads -> Seq({"sched"} \cup Mutexes)]
    /\ owner \in [Mutexes -> ThreadOrNull] /\ hold \in [Mutexes -> 0 .. MaxHold]
    /\ mprio \in [Mutexes -> Levels] /\ ceil \in [Mutexes -> Levels]
    /\ taken \in [Threads -> SUBSET Mutexes]
    /\ pend \in [Threads -> Mutexes \cup {NoMutex}]
    /\ lapsed \in BOOLEAN

\* A call on a mutex that has gone to wait is still waiting, has been made the
\* owner, or has timed out; the error word tells the last two apart.
Stage(t, m) ==
    \/ t \in timed /\ err[t] = "EOK" /\ pend[t] = m /\ owner[m] \in Threads \ {t}
    \/ t \notin timed /\ err[t] = "EOK" /\ pend[t] = NoMutex /\ owner[m] = t
    \/ t \notin timed /\ err[t] = "ETIMEOUT" /\ pend[t] = m /\ owner[m] # t

StageInv ==
    \A t \in Threads :
        /\ \A m \in Mutexes : OnCall(t, m) => Stage(t, m)
        /\ (\A m \in Mutexes : ~ OnCall(t, m)) => err[t] = "EOK" /\ pend[t] = NoMutex

OwnerInv ==
    \A m \in Mutexes :
        /\ owner[m] # NoThread <=> hold[m] > 0
        /\ \A t \in Threads : m \in taken[t] <=> owner[m] = t

MutexInv == BlockInv /\ MutexTypes /\ StageInv /\ OwnerInv

LEMMA BlockCur ==
  ASSUME NEW x, NEW tm, NEW c, BlockOK(x, tm, c)
  PROVE  CurOK(x) /\ KernelOK(x, {}) /\ tm = {t \in Threads : x.stat[t] = "SUSPEND"}
  BY DEF BlockOK, CurOK

\* Who waits for a mutex: the timed threads whose call is about it.
LEMMA PendNow ==
  ASSUME MutexInv
  PROVE  PendOK(k, pend)
<1> SUFFICES ASSUME NEW t \in Threads, k.stat[t] = "SUSPEND", pend[t] # NoMutex
             PROVE  t \in ToSet(k.wait[pend[t]]) /\ owner[pend[t]] \in Threads
  BY DEF PendOK
<1>1. t \in timed
  BY BlockCur DEF MutexInv, BlockInv
<1>2. PICK m \in Mutexes : OnCall(t, m)
  BY DEF MutexInv, StageInv
<1>3. pend[t] = m /\ owner[m] \in Threads \ {t}
  BY <1>1, <1>2 DEF MutexInv, StageInv, Stage
<1>4. ToSet(k.wait[m]) = {u \in timed : OnCall(u, m)}
  BY <1>2, WaitersTimed DEF MutexInv, Mutexes
<1> QED
  BY <1>1, <1>2, <1>3, <1>4

\* The invariant implies the properties.
LEMMA InvOwnership ==
  ASSUME MutexInv
  PROVE  Ownership
<1> SUFFICES ASSUME NEW m \in Mutexes
             PROVE  /\ k.wait[m] # << >> => owner[m] # NoThread
                    /\ \A t \in ToSet(k.wait[m]) : pend[t] = m /\ owner[m] # t
  BY DEF MutexInv, OwnerInv, Ownership
<1>1. /\ ToSet(k.wait[m]) = {u \in timed : OnCall(u, m)} /\ timed \subseteq Threads
      /\ Holds(k.wait[m], ToSet(k.wait[m]))
  BY WaitersTimed DEF MutexInv, Mutexes
<1>2. \A t \in ToSet(k.wait[m]) : pend[t] = m /\ owner[m] \in Threads \ {t}
  BY <1>1 DEF MutexInv, StageInv, Stage
<1>3. k.wait[m] # << >> => \E t : t \in ToSet(k.wait[m])
  BY <1>1, HoldsFacts
<1> QED
  BY <1>2, <1>3, ThreadsAssumption

LEMMA InvTells ==
  ASSUME MutexInv
  PROVE  TakeTellsOwner
<1> SUFFICES ASSUME NEW t \in Threads, NEW m \in Mutexes, At(t, m)
             PROVE  err[t] = "EOK" <=> owner[m] = t
  BY DEF TakeTellsOwner
<1>1. BlockInv /\ m # "sched" /\ m \in Waits
  BY SectionAssumption DEF MutexInv, Mutexes
<1>2. ToSet(pc[t]) = {m} /\ t \notin timed
  BY <1>1, AtLast, RunsLive, LiveFacts
<1>3. Stage(t, m)
  BY <1>2 DEF MutexInv, StageInv, OnCall
<1> QED
  BY <1>2, <1>3 DEF Stage

LEMMA InvTypes ==
  ASSUME MutexInv
  PROVE  TypeOK
<1>1. k \in KernelState /\ timed \subseteq Threads
  BY DEF MutexInv, BlockInv, BlockOK, KernelOK
<1> QED
  BY <1>1 DEF MutexInv, MutexTypes, TypeOK, Levels

-----------------------------------------------------------------------------
(* Every step preserves the invariant *)

\* The sections left of a call are sections.
LEMMA CallTyped ==
  /\ << >> \in Seq({"sched"} \cup Mutexes) /\ <<"sched">> \in Seq({"sched"} \cup Mutexes)
  /\ \A m \in Mutexes : <<"sched", m>> \in Seq({"sched"} \cup Mutexes)
  OBVIOUS

\* Who runs application code or returns from a wait, and what it knows.
LEMMA RunsFacts ==
  ASSUME MutexInv, NEW t, Runs(t)
  PROVE  /\ Live(t) /\ t \in Threads \ {Idle} /\ k.stat[t] = "RUNNING" /\ t \notin timed
         /\ (\A m \in Mutexes : ~ OnCall(t, m)) /\ err[t] = "EOK" /\ pend[t] = NoMutex
<1>1. Live(t) /\ t \in Threads \ {Idle} /\ k.stat[t] = "RUNNING" /\ t \notin timed
  BY RunsLive, LiveFacts DEF MutexInv
<1>2. \A m \in Mutexes : ~ OnCall(t, m)
  BY CallFacts DEF Runs, OnCall
<1> QED
  BY <1>1, <1>2 DEF MutexInv, StageInv

\* A step that leaves alone the threads, the owners and what is pending.
LEMMA StageFrame ==
  ASSUME MutexInv, timed' = timed, err' = err, owner' = owner, pend' = pend,
         \A t \in Threads, m \in Mutexes : OnCall(t, m)' <=> OnCall(t, m)
  PROVE  StageInv'
  BY DEF MutexInv, StageInv, Stage

LEMMA HoldStep ==
  ASSUME MutexInv, NEW t, NEW m \in Mutexes, TakeAgain(t, m) \/ ReleaseInner(t, m)
  PROVE  MutexInv'
<1>1. /\ Runs(t) /\ owner[m] = t /\ UNCHANGED <<k, timed, err, pc, owner, mprio, ceil, taken, pend, lapsed>>
      /\ \/ hold[m] < MaxHold /\ hold' = [hold EXCEPT ![m] = hold[m] + 1]
         \/ hold[m] > 1 /\ hold' = [hold EXCEPT ![m] = hold[m] - 1]
  BY DEF TakeAgain, ReleaseInner
<1>2. t \in Threads /\ t # NoThread /\ MaxHold \in Nat /\ hold \in [Mutexes -> 0 .. MaxHold]
  BY <1>1, RunsFacts, ThreadsAssumption, MutexAssumption DEF MutexInv, MutexTypes
<1>3. hold' \in [Mutexes -> 0 .. MaxHold] /\ hold'[m] > 0 /\ \A n \in Mutexes \ {m} : hold'[n] = hold[n]
  BY <1>1, <1>2
<1>4. BlockInv'
  BY <1>1 DEF MutexInv, BlockInv
<1>5. MutexTypes'
  BY <1>1, <1>3 DEF MutexInv, MutexTypes
<1>6. StageInv'
  BY <1>1, StageFrame DEF OnCall
<1>7. OwnerInv'
  BY <1>1, <1>2, <1>3 DEF MutexInv, OwnerInv
<1> QED
  BY <1>4, <1>5, <1>6, <1>7 DEF MutexInv

LEMMA TakeFreeStep ==
  ASSUME MutexInv, NEW t, NEW m \in Mutexes, TakeFree(t, m)
  PROVE  MutexInv'
<1>1. /\ Runs(t) /\ owner[m] = NoThread /\ owner' = [owner EXCEPT ![m] = t]
      /\ hold' = [hold EXCEPT ![m] = 1] /\ mprio' = [mprio EXCEPT ![m] = Lowest]
      /\ taken' = [taken EXCEPT ![t] = taken[t] \cup {m}]
      /\ k' = IF ceil[m] < k.prio[t] THEN ChangePriority(k, t, ceil[m]) ELSE k
      /\ timed' = timed /\ err' = err /\ pc' = pc /\ ceil' = ceil /\ pend' = pend /\ lapsed' = lapsed
  BY DEF TakeFree
<1>2. /\ t \in Threads /\ k.stat[t] = "RUNNING" /\ t # NoThread
      /\ \A n \in Mutexes : ~ OnCall(t, n)
  BY <1>1, RunsFacts, ThreadsAssumption
<1>3. SameWaiters(k, k')
  <2>1. KernelOK(k, {}) /\ k.prio[t] \in Prio /\ SameWaiters(k, k)
    BY <1>2 DEF MutexInv, BlockInv, BlockOK, KernelOK, KernelState, SameWaiters, SameStats
  <2>2. CASE ceil[m] < k.prio[t]
    <3>1. ceil[m] \in Prio
      <4>1. ceil[m] \in Levels /\ NPrio \in Nat
        BY PrioAssumption DEF MutexInv, MutexTypes
      <4> QED
        BY <2>1, <2>2, <4>1 DEF Levels, Lowest, Prio
    <3> QED
      BY <1>1, <1>2, <2>1, <2>2, <3>1, ChangeSame
  <2> QED
    BY <1>1, <2>1, <2>2
<1>4. BlockInv'
  BY <1>1, <1>3, BlockSame DEF MutexInv, BlockInv
<1>5. MutexTypes'
  <2>1. 1 \in 0 .. MaxHold /\ Lowest \in Levels /\ t \in ThreadOrNull
    BY <1>2, MutexAssumption DEF Levels, ThreadOrNull
  <2> QED
    BY <1>1, <1>2, <2>1 DEF MutexInv, MutexTypes
<1>6. owner'[m] = t /\ hold'[m] = 1 /\ \A n \in Mutexes \ {m} : owner'[n] = owner[n] /\ hold'[n] = hold[n]
  BY <1>1 DEF MutexInv, MutexTypes
<1>7. StageInv'
  <2>1. ASSUME NEW u \in Threads, NEW n \in Mutexes, OnCall(u, n) PROVE Stage(u, n)'
    <3>1. Stage(u, n) /\ u # t
      BY <1>2, <2>1 DEF MutexInv, StageInv
    <3> QED
      BY <1>1, <1>6, <3>1, ThreadsAssumption DEF Stage
  <2> QED
    BY <1>1, <2>1 DEF MutexInv, StageInv, OnCall
<1>8. OwnerInv'
  <2>1. taken'[t] = taken[t] \cup {m} /\ \A u \in Threads \ {t} : taken'[u] = taken[u]
    BY <1>1, <1>2 DEF MutexInv, MutexTypes
  <2> QED
    BY <1>1, <1>2, <1>6, <2>1, ThreadsAssumption DEF MutexInv, OwnerInv
<1> QED
  BY <1>4, <1>5, <1>7, <1>8 DEF MutexInv

\* A thread that waits is pending before the priorities change.
LEMMA PendJoined ==
  ASSUME MutexInv, NEW t \in Threads, NEW m \in Mutexes, owner[m] \in Threads, NEW x,
         x.stat = [k.stat EXCEPT ![t] = "SUSPEND"], Joined(k, x, t, m),
         NEW pn, pn = [pend EXCEPT ![t] = m]
  PROVE  PendOK(x, pn)
<1> SUFFICES ASSUME NEW u \in Threads, x.stat[u] = "SUSPEND", pn[u] # NoMutex
             PROVE  u \in ToSet(x.wait[pn[u]]) /\ owner[pn[u]] \in Threads
  BY DEF PendOK
<1>1. pend \in [Threads -> Mutexes \cup {NoMutex}] /\ k.stat \in [Threads -> Stats]
  BY DEF MutexInv, MutexTypes, BlockInv, BlockOK, KernelOK, KernelState
<1>2. CASE u = t
  BY <1>1, <1>2 DEF Joined
<1>3. CASE u # t
  <2>1. pn[u] = pend[u] /\ k.stat[u] = "SUSPEND" /\ pend[u] \in Waits
    BY <1>1, <1>3 DEF Mutexes
  <2>2. u \in ToSet(k.wait[pend[u]]) /\ owner[pend[u]] \in Threads
    BY <2>1, PendNow DEF PendOK
  <2>3. ToSet(k.wait[pend[u]]) \subseteq ToSet(x.wait[pend[u]])
    BY <2>1 DEF Joined
  <2> QED
    BY <2>1, <2>2, <2>3
<1> QED
  BY <1>2, <1>3

LEMMA TakeWaitStep ==
  ASSUME MutexInv, NEW t, NEW m \in Mutexes, TakeWait(t, m)
  PROVE  MutexInv'
<1>1. PICK p, x, pn, mp, s, r :
        /\ p = k.prio[t] /\ x = IpcListSuspend(k, t, m) /\ pn = [pend EXCEPT ![t] = m]
        /\ mp = [mprio EXCEPT ![m] = IF p < mprio[m] THEN p ELSE mprio[m]]
        /\ s = Propagation(x, mp, ceil, pn)
        /\ r = IF p < mprio[m] /\ p < x.prio[owner[m]] THEN UpdatePriority(s, owner[m], p) ELSE s
  OBVIOUS
<1>2. /\ Runs(t) /\ owner[m] \notin {NoThread, t} /\ pend' = pn /\ k' = r.k /\ mprio' = r.mp
      /\ timed' = timed \cup {t} /\ pc' = [pc EXCEPT ![t] = <<"sched", m>>]
      /\ err' = err /\ owner' = owner /\ hold' = hold /\ ceil' = ceil /\ taken' = taken /\ lapsed' = lapsed
  BY <1>1 DEF TakeWait, Call
<1>3. /\ t \in Threads \ {Idle} /\ k.stat[t] = "RUNNING" /\ t \notin timed
      /\ (\A n \in Mutexes : ~ OnCall(t, n)) /\ err[t] = "EOK" /\ pend[t] = NoMutex
  BY <1>2, RunsFacts
<1>4. owner[m] \in Threads /\ m \in Waits
  BY <1>2 DEF MutexInv, MutexTypes, ThreadOrNull, Mutexes
<1>5. CallsWith(pc, pc', t, <<"sched", m>>)
  BY <1>2, <1>3 DEF CallsWith, MutexInv, MutexTypes
<1>6. BlockOK(x, timed \cup {t}, pc') /\ Joined(k, x, t, m)
  BY <1>1, <1>3, <1>4, <1>5, BlockWait DEF MutexInv, BlockInv
<1>7. x.stat = [k.stat EXCEPT ![t] = "SUSPEND"]
  <2>1. KernelOK(k, {}) /\ t \in Threads \ {}
    BY <1>3 DEF MutexInv, BlockInv, BlockOK
  <2> QED
    BY <1>1, <1>3, <1>4, <2>1, IpcListSuspendOK DEF Restat
<1>8. PendOK(x, pn)
  BY <1>1, <1>3, <1>4, <1>6, <1>7, PendJoined
<1>9. /\ p \in Prio /\ mp \in [Mutexes -> Levels] /\ ceil \in [Mutexes -> Levels]
      /\ pn \in [Threads -> Mutexes \cup {NoMutex}] /\ taken \in [Threads -> SUBSET Mutexes]
  <2>1. p \in Prio
    BY <1>1, <1>3 DEF MutexInv, BlockInv, BlockOK, KernelOK, KernelState
  <2>2. mprio \in [Mutexes -> Levels] /\ p \in Levels
    BY <2>1 DEF MutexInv, MutexTypes, Levels
  <2> QED
    BY <1>1, <1>3, <2>1, <2>2 DEF MutexInv, MutexTypes
<1>10. CurOK(x) /\ KernelOK(x, {})
  BY <1>6, BlockCur
<1>11. LoopOK(x, s) /\ s.pend = pn
  <2>1. s = Propagation(x, mp, ceil, pn)
    BY <1>1
  <2> QED
    BY <1>9, <1>10, <2>1, PropagationOK
<1>12. LoopOK(x, r)
  <2>1. LoopOK(x, UpdatePriority(s, owner[m], p))
    BY <1>4, <1>8, <1>9, <1>10, <1>11, UpdatePriorityOK
  <2> QED
    BY <1>1, <1>11, <2>1
<1>13. BlockInv'
  <2>1. SameWaiters(x, k')
    BY <1>2, <1>12 DEF LoopOK
  <2>2. BlockOK(k', timed \cup {t}, pc')
    BY <1>6, <2>1, BlockSame
  <2> QED
    BY <1>2, <2>2 DEF BlockInv
<1>14. MutexTypes'
  <2>1. r.mp \in [Mutexes -> Levels]
    BY <1>12 DEF LoopOK, PropagationState
  <2>2. pc' \in [Threads -> Seq({"sched"} \cup Mutexes)]
    BY <1>2, <1>3, CallTyped DEF MutexInv, MutexTypes
  <2> QED
    BY <1>2, <1>9, <2>1, <2>2 DEF MutexInv, MutexTypes
<1>15. StageInv'
  <2>1. /\ ToSet(pc'[t]) = {"sched", m} /\ m # "sched" /\ \A u \in Threads \ {t} : pc'[u] = pc[u]
        /\ \A n \in Mutexes : n # "sched"
    BY <1>5, <1>4, CallFacts, SectionAssumption DEF CallsWith, Mutexes
  <2>2. pend'[t] = m /\ \A u \in Threads \ {t} : pend'[u] = pend[u]
    BY <1>1, <1>2, <1>3 DEF MutexInv, MutexTypes
  <2>3. \A n \in Mutexes : OnCall(t, n)' => n = m /\ Stage(t, n)'
    BY <1>2, <1>3, <1>4, <2>1, <2>2 DEF OnCall, Stage
  <2>4. OnCall(t, m)'
    BY <2>1 DEF OnCall
  <2>5. \A u \in Threads \ {t}, n \in Mutexes : (OnCall(u, n)' <=> OnCall(u, n)) /\ (Stage(u, n) => Stage(u, n)')
    BY <1>2, <2>1, <2>2 DEF OnCall, Stage
  <2> QED
    BY <1>2, <2>2, <2>3, <2>4, <2>5 DEF MutexInv, StageInv
<1>16. OwnerInv'
  BY <1>2 DEF MutexInv, OwnerInv
<1> QED
  BY <1>13, <1>14, <1>15, <1>16 DEF MutexInv

LEMMA TakeReturnStep ==
  ASSUME MutexInv, NEW t, NEW m \in Mutexes, TakeReturn(t, m)
  PROVE  MutexInv'
<1>1. /\ At(t, m) /\ pc' = [pc EXCEPT ![t] = Tail(pc[t])] /\ err' = [err EXCEPT ![t] = "EOK"]
      /\ timed' = timed /\ owner' = owner /\ hold' = hold /\ ceil' = ceil /\ taken' = taken /\ lapsed' = lapsed
  BY DEF TakeReturn, Done
<1>2. BlockInv /\ m \in Waits /\ m # "sched"
  BY SectionAssumption DEF MutexInv, Mutexes
<1>3. Live(t) /\ Tail(pc[t]) = << >> /\ ToSet(pc[t]) = {m}
  BY <1>1, <1>2, RunsLive, AtLast
<1>4. t \in Threads \ {Idle} /\ k.stat[t] = "RUNNING" /\ t \notin timed
  BY <1>2, <1>3, LiveFacts
<1>5. Stage(t, m)
  BY <1>3, <1>4 DEF MutexInv, StageInv, OnCall
<1>6. SameWaiters(k, k') /\ mprio' \in [Mutexes -> Levels] /\ pend' = [pend EXCEPT ![t] = NoMutex]
  <2>1. KernelOK(k, {}) /\ CurOK(k) /\ SameWaiters(k, k) /\ PendOK(k, pend)
    BY <1>2, BlockCur, PendNow DEF BlockInv, SameWaiters, SameStats
  <2>2. /\ mprio \in [Mutexes -> Levels] /\ ceil \in [Mutexes -> Levels]
        /\ pend \in [Threads -> Mutexes \cup {NoMutex}] /\ taken \in [Threads -> SUBSET Mutexes]
        /\ owner[m] \in ThreadOrNull
    BY DEF MutexInv, MutexTypes
  <2>3. CASE err[t] = "EOK"
    <3>1. k' = k /\ mprio' = mprio /\ pend' = pend
      BY <2>3 DEF TakeReturn
    <3>2. pend[t] = NoMutex
      BY <1>4, <1>5, <2>3 DEF Stage
    <3>3. pend = [pend EXCEPT ![t] = NoMutex]
      BY <1>4, <2>2, <3>2
    <3> QED
      BY <2>1, <2>2, <3>1, <3>3
  <2>4. CASE err[t] # "EOK"
    <3>1. PICK o, mp, s, r :
            /\ o = owner[m] /\ mp = [mprio EXCEPT ![m] = WaitersPriority(k, m)]
            /\ s = Propagation(k, mp, ceil, pend)
            /\ r = IF o # NoThread /\ k.prio[o] = k.prio[t] THEN Reprioritise(s, o) ELSE s
      OBVIOUS
    <3>2. k' = r.k /\ mprio' = r.mp /\ pend' = [pend EXCEPT ![t] = NoMutex]
      BY <2>4, <3>1 DEF TakeReturn
    <3>3. mp \in [Mutexes -> Levels]
      <4>1. WaitersPriority(k, m) \in Levels
        BY <2>1, WaitersTyped
      <4> QED
        BY <2>2, <3>1, <4>1
    <3>4. LoopOK(k, s) /\ s.pend = pend
      <4>1. s = Propagation(k, mp, ceil, pend)
        BY <3>1
      <4> QED
        BY <2>1, <2>2, <3>3, <4>1, PropagationOK
    <3>5. LoopOK(k, r)
      <4>1. CASE o # NoThread
        <5>1. o \in Threads
          BY <2>2, <3>1, <4>1 DEF ThreadOrNull
        <5>2. LoopOK(k, Reprioritise(s, o))
          BY <2>1, <2>2, <3>4, <5>1, ReprioritiseOK
        <5> QED
          BY <3>1, <3>4, <5>2
      <4> QED
        BY <3>1, <3>4, <4>1
    <3> QED
      BY <3>2, <3>5 DEF LoopOK, PropagationState
  <2> QED
    BY <2>3, <2>4
<1>7. BlockInv'
  <2>1. BlockOK(k', timed, pc) /\ k'.stat[t] = "RUNNING"
    BY <1>2, <1>4, <1>6, BlockSame DEF BlockInv, SameWaiters, SameStats
  <2>2. pc' = [pc EXCEPT ![t] = << >>] /\ CallOK(<< >>)
    BY <1>1, <1>3 DEF CallOK
  <2>3. BlockOK(k', timed, pc')
    BY <1>4, <2>1, <2>2, BlockCall
  <2> QED
    BY <1>1, <2>3 DEF BlockInv
<1>8. MutexTypes'
  <2>1. pc' \in [Threads -> Seq({"sched"} \cup Mutexes)]
    BY <1>1, <1>3, <1>4, CallTyped DEF MutexInv, MutexTypes
  <2> QED
    BY <1>1, <1>4, <1>6, <2>1 DEF MutexInv, MutexTypes
<1>9. StageInv'
  <2>1. /\ pc'[t] = << >> /\ err'[t] = "EOK" /\ pend'[t] = NoMutex
        /\ \A u \in Threads \ {t} : pc'[u] = pc[u] /\ err'[u] = err[u] /\ pend'[u] = pend[u]
    BY <1>1, <1>3, <1>4, <1>6 DEF MutexInv, MutexTypes
  <2>2. \A n \in Mutexes : ~ OnCall(t, n)'
    BY <2>1, CallFacts DEF OnCall
  <2>3. \A u \in Threads \ {t}, n \in Mutexes : (OnCall(u, n)' <=> OnCall(u, n)) /\ (Stage(u, n) => Stage(u, n)')
    BY <1>1, <2>1 DEF OnCall, Stage
  <2> QED
    BY <2>1, <2>2, <2>3 DEF MutexInv, StageInv
<1>10. OwnerInv'
  BY <1>1 DEF MutexInv, OwnerInv
<1> QED
  BY <1>7, <1>8, <1>9, <1>10 DEF MutexInv

LEMMA CeilingStep ==
  ASSUME MutexInv, NEW t, NEW m \in Mutexes, NEW p \in Ceilings, SetPrioCeiling(t, m, p)
  PROVE  MutexInv'
<1>1. PICK c, s, r :
        /\ c = [ceil EXCEPT ![m] = p] /\ s = Propagation(k, mprio, c, pend)
        /\ r = IF owner[m] # NoThread THEN Reprioritise(s, owner[m]) ELSE s
  OBVIOUS
<1>2. /\ ceil' = c /\ k' = r.k /\ mprio' = r.mp
      /\ UNCHANGED <<timed, err, pc, owner, hold, taken, pend, lapsed>>
  BY <1>1 DEF SetPrioCeiling
<1>3. KernelOK(k, {}) /\ CurOK(k) /\ PendOK(k, pend)
  BY BlockCur, PendNow DEF MutexInv, BlockInv
<1>4. /\ mprio \in [Mutexes -> Levels] /\ c \in [Mutexes -> Levels]
      /\ pend \in [Threads -> Mutexes \cup {NoMutex}] /\ taken \in [Threads -> SUBSET Mutexes]
      /\ owner[m] \in ThreadOrNull
  BY <1>1, MutexAssumption DEF MutexInv, MutexTypes, Levels
<1>5. LoopOK(k, s) /\ s.pend = pend
  <2>1. s = Propagation(k, mprio, c, pend)
    BY <1>1
  <2> QED
    BY <1>3, <1>4, <2>1, PropagationOK
<1>6. LoopOK(k, r)
  <2>1. CASE owner[m] # NoThread
    <3>1. owner[m] \in Threads
      BY <1>4, <2>1 DEF ThreadOrNull
    <3>2. LoopOK(k, Reprioritise(s, owner[m]))
      BY <1>3, <1>4, <1>5, <3>1, ReprioritiseOK
    <3> QED
      BY <1>1, <1>5, <3>2
  <2> QED
    BY <1>1, <1>5, <2>1
<1>7. SameWaiters(k, k') /\ mprio' \in [Mutexes -> Levels]
  BY <1>2, <1>6 DEF LoopOK, PropagationState
<1>8. BlockInv'
  BY <1>2, <1>7, BlockSame DEF MutexInv, BlockInv
<1>9. MutexTypes'
  BY <1>2, <1>4, <1>7 DEF MutexInv, MutexTypes
<1>10. StageInv'
  BY <1>2, StageFrame DEF OnCall
<1>11. OwnerInv'
  BY <1>2 DEF MutexInv, OwnerInv
<1> QED
  BY <1>8, <1>9, <1>10, <1>11 DEF MutexInv

LEMMA ReleaseLastStep ==
  ASSUME MutexInv, NEW t, NEW m \in Mutexes, ReleaseLast(t, m)
  PROVE  MutexInv'
<1>1. PICK own, next, k1, k2, sc :
        /\ own = MutexPriority(t, taken[t] \ {m}, mprio, ceil) /\ next = NextOwner(m)
        /\ k1 = IF Drops(t, m) THEN ChangePriority(k, t, own) ELSE k
        /\ k2 = IF next # NoThread THEN Resume(k1, next) ELSE k1
        /\ sc = IF Drops(t, m) \/ next # NoThread THEN <<"sched">> ELSE << >>
  OBVIOUS
<1>2. /\ Runs(t) /\ owner[m] = t /\ hold[m] = 1 /\ k' = k2
      /\ mprio' = [mprio EXCEPT ![m] = WaitersPriority(k2, m)]
      /\ owner' = [owner EXCEPT ![m] = next]
      /\ hold' = [hold EXCEPT ![m] = IF next # NoThread THEN 1 ELSE 0]
      /\ taken' = HandOver(t, m, next)
      /\ pend' = [u \in Threads |-> IF u = next THEN NoMutex ELSE pend[u]]
      /\ timed' = timed \ {next} /\ pc' = [pc EXCEPT ![t] = sc]
      /\ err' = err /\ ceil' = ceil /\ lapsed' = lapsed
  BY <1>1 DEF ReleaseLast, Call, TimersAfterHandOver
<1>3. /\ t \in Threads \ {Idle} /\ k.stat[t] = "RUNNING" /\ t \notin timed /\ t # NoThread
      /\ \A n \in Mutexes : ~ OnCall(t, n)
  BY <1>2, RunsFacts, ThreadsAssumption
<1>4. /\ ToSet(k.wait[m]) = {u \in timed : OnCall(u, m)} /\ timed \subseteq Threads
      /\ Holds(k.wait[m], ToSet(k.wait[m])) /\ KernelOK(k, {}) /\ CurOK(k)
      /\ timed = {u \in Threads : k.stat[u] = "SUSPEND"}
  BY WaitersTimed, BlockCur DEF MutexInv, BlockInv, Mutexes
<1>5. /\ next = NoThread => {u \in timed : OnCall(u, m)} = {}
      /\ next # NoThread => next \in timed /\ OnCall(next, m) /\ next \in Threads
      /\ next \in ThreadOrNull /\ next # t
  <2>1. k.wait[m] = << >> <=> ToSet(k.wait[m]) = {}
    BY <1>4, HoldsFacts
  <2>2. k.wait[m] # << >> => Head(k.wait[m]) \in ToSet(k.wait[m])
    BY <1>4, HoldsFacts
  <2> QED
    BY <1>1, <1>3, <1>4, <2>1, <2>2, ThreadsAssumption DEF NextOwner, ThreadOrNull
<1>6. SameWaiters(k, k1)
  <2>1. own \in Prio
    <3>1. /\ mprio \in [Mutexes -> Levels] /\ ceil \in [Mutexes -> Levels]
          /\ taken[t] \ {m} \in SUBSET Mutexes
      BY <1>3 DEF MutexInv, MutexTypes
    <3> QED
      BY <1>1, <1>3, <3>1, PriorityTyped
  <2>2. SameWaiters(k, ChangePriority(k, t, own))
    BY <1>3, <1>4, <2>1, ChangeSame
  <2>3. SameWaiters(k, k)
    BY <1>4 DEF SameWaiters, SameStats
  <2> QED
    BY <1>1, <2>2, <2>3
<1>7. BlockOK(k1, timed, pc) /\ k1.stat = k.stat
  BY <1>6, BlockSame DEF MutexInv, BlockInv, SameWaiters, SameStats
<1>8. BlockOK(k2, timed', pc) /\ k2.stat[t] = "RUNNING"
  <2>1. CASE next = NoThread
    <3>1. timed' = timed
      BY <1>2, <1>4, <2>1, ThreadsAssumption
    <3> QED
      BY <1>1, <1>3, <1>7, <2>1, <3>1
  <2>2. CASE next # NoThread
    <3>1. KernelOK(k1, {}) /\ next \in Threads /\ k1.stat[next] = "SUSPEND" /\ k2 = Resume(k1, next)
      BY <1>1, <1>4, <1>5, <1>6, <1>7, <2>2 DEF SameWaiters
    <3>2. Resumed(k1, k2, {next})
      BY <3>1, ResumedOne
    <3>3. {next} \in SUBSET timed
      BY <1>5, <2>2
    <3>4. BlockOK(k2, timed \ {next}, pc)
      BY <1>7, <3>2, <3>3, BlockResumed
    <3>5. k2.stat[t] = "RUNNING"
      BY <1>3, <1>5, <1>7, <3>2 DEF Resumed
    <3> QED
      BY <1>2, <3>4, <3>5
  <2> QED
    BY <2>1, <2>2
<1>9. BlockInv'
  <2>1. CallOK(sc)
    BY <1>1 DEF CallOK
  <2>2. BlockOK(k2, timed', pc')
    BY <1>2, <1>3, <1>8, <2>1, BlockCall
  <2> QED
    BY <1>2, <2>2 DEF BlockInv
<1>10. /\ owner'[m] = next /\ hold'[m] = (IF next # NoThread THEN 1 ELSE 0)
       /\ (\A n \in Mutexes \ {m} : owner'[n] = owner[n] /\ hold'[n] = hold[n])
       /\ (\A u \in Threads : pend'[u] = IF u = next THEN NoMutex ELSE pend[u])
       /\ taken'[t] = taken[t] \ {m} /\ (next \in Threads => taken'[next] = taken[next] \cup {m})
       /\ \A u \in Threads \ {t, next} : taken'[u] = taken[u]
  <2>1. /\ owner'[m] = next /\ hold'[m] = (IF next # NoThread THEN 1 ELSE 0)
        /\ (\A n \in Mutexes \ {m} : owner'[n] = owner[n] /\ hold'[n] = hold[n])
    BY <1>2 DEF MutexInv, MutexTypes
  <2>2. \A u \in Threads : pend'[u] = IF u = next THEN NoMutex ELSE pend[u]
    BY <1>2
  <2>3. \A u \in Threads : taken'[u] = CASE u = t    -> taken[u] \ {m}
                                         [] u = next -> taken[u] \cup {m}
                                         [] OTHER    -> taken[u]
    BY <1>2, Zenon DEF HandOver
  <2>4. taken'[t] = taken[t] \ {m}
    BY <1>3, <1>5, <2>3
  <2>5. next \in Threads => taken'[next] = taken[next] \cup {m}
    BY <1>3, <1>5, <2>3
  <2>6. \A u \in Threads \ {t, next} : taken'[u] = taken[u]
    BY <2>3
  <2> QED
    BY <2>1, <2>2, <2>4, <2>5, <2>6
<1>11. MutexTypes'
  <2>1. WaitersPriority(k2, m) \in Levels
    BY <1>8, WaitersTyped DEF BlockOK
  <2>2. 1 \in 0 .. MaxHold /\ 0 \in 0 .. MaxHold
    BY MutexAssumption
  <2>3. pc' \in [Threads -> Seq({"sched"} \cup Mutexes)]
    BY <1>1, <1>2, <1>3, CallTyped DEF MutexInv, MutexTypes
  <2>4. taken' \in [Threads -> SUBSET Mutexes]
    <3>1. taken' = [u \in Threads |-> taken'[u]]
      BY <1>2 DEF HandOver
    <3>2. taken \in [Threads -> SUBSET Mutexes]
      BY DEF MutexInv, MutexTypes
    <3>3. \A u \in Threads : taken'[u] \in SUBSET Mutexes
      BY <1>3, <1>10, <3>2
    <3> QED
      BY <3>1, <3>3
  <2>5. /\ owner' \in [Mutexes -> ThreadOrNull] /\ hold' \in [Mutexes -> 0 .. MaxHold]
        /\ mprio' \in [Mutexes -> Levels] /\ pend' \in [Threads -> Mutexes \cup {NoMutex}]
    BY <1>2, <1>5, <2>1, <2>2 DEF MutexInv, MutexTypes
  <2> QED
    BY <1>2, <2>3, <2>4, <2>5 DEF MutexInv, MutexTypes
<1>12. StageInv'
  <2>1. /\ \A u \in Threads \ {t}, n \in Mutexes : OnCall(u, n)' <=> OnCall(u, n)
        /\ \A n \in Mutexes : ~ OnCall(t, n)'
    <3>1. pc'[t] = sc /\ \A u \in Threads \ {t} : pc'[u] = pc[u]
      BY <1>2, <1>3 DEF MutexInv, MutexTypes
    <3>2. \A n \in Mutexes : n \notin ToSet(sc)
      BY <1>1, CallFacts, SectionAssumption DEF Mutexes
    <3> QED
      BY <3>1, <3>2 DEF OnCall
  <2>2. ASSUME NEW u \in Threads, NEW n \in Mutexes, OnCall(u, n) PROVE Stage(u, n)'
    <3>1. Stage(u, n) /\ u # t
      BY <1>3, <2>2 DEF MutexInv, StageInv
    <3>2. CASE u = next
      <4>1. u \in timed /\ OnCall(u, m) /\ u # NoThread
        BY <1>5, <3>2, ThreadsAssumption
      <4>2. n = m
        BY <2>2, <4>1, OneObject DEF MutexInv, Mutexes
      <4> QED
        BY <1>2, <1>10, <3>1, <3>2, <4>1, <4>2 DEF Stage
    <3>3. CASE u # next
      <4>1. u \in timed' <=> u \in timed
        BY <1>2, <3>3
      <4>2. CASE n = m
        BY <1>2, <1>5, <1>10, <2>2, <3>1, <3>3, <4>1, <4>2 DEF Stage, ThreadOrNull
      <4>3. CASE n # m
        BY <1>2, <1>10, <3>1, <3>3, <4>1, <4>3 DEF Stage
      <4> QED
        BY <4>2, <4>3
    <3> QED
      BY <3>2, <3>3
  <2>3. ASSUME NEW u \in Threads, \A n \in Mutexes : ~ OnCall(u, n)
        PROVE  err'[u] = "EOK" /\ pend'[u] = NoMutex
    BY <1>2, <1>10, <2>3 DEF MutexInv, StageInv
  <2> QED
    BY <1>3, <2>1, <2>2, <2>3 DEF StageInv
<1>13. OwnerInv'
  <2>1. \A u \in Threads : m \in taken'[u] <=> owner'[m] = u
    BY <1>2, <1>3, <1>5, <1>10 DEF MutexInv, OwnerInv
  <2>2. owner'[m] # NoThread <=> hold'[m] > 0
    BY <1>10
  <2>3. \A n \in Mutexes \ {m}, u \in Threads : n \in taken'[u] <=> owner'[n] = u
    BY <1>10 DEF MutexInv, OwnerInv
  <2> QED
    BY <1>10, <2>1, <2>2, <2>3 DEF MutexInv, OwnerInv
<1> QED
  BY <1>9, <1>11, <1>12, <1>13 DEF MutexInv

LEMMA ThreadStep ==
  ASSUME MutexInv, UNCHANGED <<mutexVars, lapsed>>,
         Slice \/ \E t \in Threads : Sleep(t) \/ DoSchedule(t)
  PROVE  MutexInv'
<1>1. /\ owner' = owner /\ hold' = hold /\ mprio' = mprio /\ ceil' = ceil
      /\ taken' = taken /\ pend' = pend /\ lapsed' = lapsed
  BY DEF mutexVars
<1>2. BlockInv /\ pc \in [Threads -> Seq({"sched"} \cup Mutexes)]
  BY DEF MutexInv, MutexTypes
<1>3. OwnerInv'
  BY <1>1 DEF MutexInv, OwnerInv
<1>4. SUFFICES /\ BlockInv' /\ StageInv' /\ err' = err
               /\ pc' \in [Threads -> Seq({"sched"} \cup Mutexes)]
  BY <1>1, <1>3 DEF MutexInv, MutexTypes
<1>5. CASE Slice
  <2>1. BlockInv' /\ pc' = pc /\ timed' = timed /\ err' = err
    BY <1>2, <1>5, SliceStep DEF Slice
  <2> QED
    BY <1>1, <1>2, <2>1, StageFrame DEF OnCall
<1>6. CASE \E t \in Threads : DoSchedule(t)
  <2>1. PICK t \in Threads : DoSchedule(t)
    BY <1>6
  <2>2. /\ BlockInv' /\ timed' = timed /\ err' = err /\ pc' = [pc EXCEPT ![t] = Tail(pc[t])]
        /\ pc[t] # << >> /\ \A u \in Threads, w \in Waits : w \in ToSet(pc'[u]) <=> w \in ToSet(pc[u])
    BY <1>2, <2>1, DoScheduleStep DEF DoSchedule, Done, At
  <2>3. Tail(pc[t]) \in Seq({"sched"} \cup Mutexes)
    BY <1>2, <2>2
  <2>4. pc' \in [Threads -> Seq({"sched"} \cup Mutexes)]
    BY <1>2, <2>2, <2>3
  <2> QED
    BY <1>1, <2>2, <2>4, StageFrame DEF OnCall, Mutexes
<1>7. CASE \E t \in Threads : Sleep(t)
  <2>1. PICK t \in Threads : Sleep(t)
    BY <1>7
  <2>2. /\ BlockInv' /\ ToSet(pc'[t]) = {"sched"} /\ \A u \in Threads \ {t} : pc'[u] = pc[u]
    BY <1>2, <2>1, SleepStep
  <2>3. timed' = timed \cup {t} /\ err' = err /\ pc' = [pc EXCEPT ![t] = <<"sched">>] /\ Runs(t)
    BY <2>1 DEF Sleep, Call
  <2>4. (\A n \in Mutexes : ~ OnCall(t, n)) /\ err[t] = "EOK" /\ pend[t] = NoMutex
    BY <2>3, RunsFacts
  <2>5. pc' \in [Threads -> Seq({"sched"} \cup Mutexes)]
    BY <1>2, <2>3, CallTyped
  <2>6. \A n \in Mutexes : ~ OnCall(t, n)'
    BY <2>2, SectionAssumption DEF OnCall, Mutexes
  <2>7. \A u \in Threads \ {t}, n \in Mutexes : (OnCall(u, n)' <=> OnCall(u, n)) /\ (Stage(u, n) => Stage(u, n)')
    BY <1>1, <2>2, <2>3 DEF OnCall, Stage
  <2>8. StageInv'
    BY <1>1, <2>3, <2>4, <2>6, <2>7 DEF MutexInv, StageInv
  <2> QED
    BY <2>2, <2>3, <2>5, <2>8
<1> QED
  BY <1>5, <1>6, <1>7

LEMMA ExpireStep ==
  ASSUME MutexInv, NEW u, Expire(u)
  PROVE  MutexInv'
<1>1. /\ owner' = owner /\ hold' = hold /\ mprio' = mprio /\ ceil' = ceil /\ taken' = taken /\ pend' = pend
      /\ lapsed' \in BOOLEAN /\ Timeout(u)
  BY DEF Expire, mutexVars, MutexInv, MutexTypes
<1>2. BlockInv' /\ u \in timed /\ u \in Threads /\ pc' = pc
  BY <1>1, TimeoutStep DEF MutexInv
<1>3. /\ timed' = timed \ {u}
      /\ err' = IF Waits \cap ToSet(pc[u]) # {} THEN [err EXCEPT ![u] = "ETIMEOUT"] ELSE err
  BY <1>1 DEF Timeout
<1>4. /\ (\E n \in Mutexes : OnCall(u, n)) => err'[u] = "ETIMEOUT"
      /\ (\A n \in Mutexes : ~ OnCall(u, n)) => err'[u] = err[u]
      /\ \A v \in Threads \ {u} : err'[v] = err[v]
  BY <1>2, <1>3 DEF MutexInv, MutexTypes, OnCall, Mutexes
<1>5. MutexTypes'
  BY <1>1, <1>2, <1>3 DEF MutexInv, MutexTypes
<1>6. StageInv'
  <2>1. ASSUME NEW v \in Threads, NEW n \in Mutexes, OnCall(v, n) PROVE Stage(v, n)'
    <3>1. Stage(v, n)
      BY <2>1 DEF MutexInv, StageInv
    <3>2. CASE v = u
      BY <1>1, <1>2, <1>3, <1>4, <2>1, <3>1, <3>2 DEF Stage
    <3>3. CASE v # u
      BY <1>1, <1>3, <1>4, <3>1, <3>3 DEF Stage
    <3> QED
      BY <3>2, <3>3
  <2>2. ASSUME NEW v \in Threads, \A n \in Mutexes : ~ OnCall(v, n)
        PROVE  err'[v] = "EOK" /\ pend'[v] = NoMutex
    BY <1>1, <1>4, <2>2 DEF MutexInv, StageInv
  <2> QED
    BY <1>2, <2>1, <2>2 DEF StageInv, OnCall
<1>7. OwnerInv'
  BY <1>1 DEF MutexInv, OwnerInv
<1> QED
  BY <1>2, <1>5, <1>6, <1>7 DEF MutexInv

LEMMA MutexStart ==
  ASSUME Init
  PROVE  MutexInv
<1>1. /\ BlockInv /\ pc = [t \in Threads |-> << >>] /\ err = [t \in Threads |-> "EOK"]
  BY BlockingStart DEF Init, BlockingInit
<1>2. /\ owner = [m \in Mutexes |-> NoThread] /\ hold = [m \in Mutexes |-> 0]
      /\ mprio = [m \in Mutexes |-> Lowest] /\ ceil = [m \in Mutexes |-> Lowest]
      /\ taken = [t \in Threads |-> {}] /\ pend = [t \in Threads |-> NoMutex] /\ lapsed = FALSE
  BY DEF Init
<1>3. MutexTypes
  <2>1. 0 \in 0 .. MaxHold
    BY MutexAssumption
  <2>2. Lowest \in Levels /\ NoThread \in ThreadOrNull
    BY DEF Levels, ThreadOrNull
  <2>3. << >> \in Seq({"sched"} \cup Mutexes)
    OBVIOUS
  <2>4. owner \in [Mutexes -> ThreadOrNull] /\ hold \in [Mutexes -> 0 .. MaxHold]
    BY <1>2, <2>1, <2>2
  <2>5. mprio \in [Mutexes -> Levels] /\ ceil \in [Mutexes -> Levels]
    BY <1>2, <2>2
  <2>6. pc \in [Threads -> Seq({"sched"} \cup Mutexes)]
    BY <1>1, <2>3
  <2>7. err \in [Threads -> {"EOK", "ETIMEOUT"}]
    BY <1>1
  <2>8. /\ taken \in [Threads -> SUBSET Mutexes] /\ lapsed \in BOOLEAN
        /\ pend \in [Threads -> Mutexes \cup {NoMutex}]
    BY <1>2
  <2> QED
    BY <2>4, <2>5, <2>6, <2>7, <2>8 DEF MutexTypes
<1>4. StageInv
  BY <1>1, <1>2, CallFacts DEF StageInv, OnCall
<1>5. OwnerInv
  BY <1>2, ThreadsAssumption DEF OwnerInv
<1> QED
  BY <1>1, <1>3, <1>4, <1>5 DEF MutexInv

LEMMA MutexNext ==
  ASSUME MutexInv, [Next]_vars
  PROVE  MutexInv'
<1>1. CASE Next
  <2>1. CASE \E t \in Threads, m \in Mutexes :
               \/ TakeAgain(t, m) \/ TakeFree(t, m) \/ TakeWait(t, m) \/ TakeReturn(t, m)
               \/ ReleaseInner(t, m) \/ ReleaseLast(t, m)
               \/ \E p \in Ceilings : SetPrioCeiling(t, m, p)
    BY <2>1, HoldStep, TakeFreeStep, TakeWaitStep, TakeReturnStep, ReleaseLastStep, CeilingStep
  <2>2. CASE \E t \in Threads : (Sleep(t) \/ DoSchedule(t)) /\ UNCHANGED <<mutexVars, lapsed>>
    BY <2>2, ThreadStep
  <2>3. CASE \E u \in Threads : Expire(u)
    BY <2>3, ExpireStep
  <2>4. CASE Slice /\ UNCHANGED <<mutexVars, lapsed>>
    BY <2>4, ThreadStep
  <2> QED
    BY <1>1, <2>1, <2>2, <2>3, <2>4 DEF Next
<1>2. CASE UNCHANGED vars
  <2>1. /\ k' = k /\ timed' = timed /\ err' = err /\ pc' = pc /\ owner' = owner /\ hold' = hold
        /\ mprio' = mprio /\ ceil' = ceil /\ taken' = taken /\ pend' = pend /\ lapsed' = lapsed
    BY <1>2 DEF vars
  <2>2. BlockInv' /\ StageInv'
    BY <2>1, StageFrame DEF MutexInv, BlockInv, OnCall
  <2> QED
    BY <2>1, <2>2 DEF MutexInv, MutexTypes, OwnerInv
<1> QED
  BY <1>1, <1>2

-----------------------------------------------------------------------------
(* The order of priorities.  The thread e is the one whose priority the loop  *)
(* of _thread_update_priority has just changed.                               *)

\* The waiters of every mutex are in order of priority, e left aside.
InOrder(x, e) == \A m \in Mutexes : Sorted(Unlinked(x.wait[m], e), x.prio)

\* No waiter of a mutex but e is more urgent than the mutex.
Reported(x, mp, e) == \A m \in Mutexes : \A t \in ToSet(x.wait[m]) \ {e} : mp[m] <= x.prio[t]

\* The owner of a mutex, unless it is e, is at least as urgent as the mutex.
Raised(x, mp, e) == \A m \in Mutexes : owner[m] \in Threads \ {e} => x.prio[owner[m]] <= mp[m]

\* The priorities a thread may have: its own and those its mutexes give it.
Claims(t, S, mp, c) == {BasePrio[t]} \cup {mp[m] : m \in S} \cup {c[m] : m \in S}

\* The priority of every thread but e is one it has a claim to.
Claimed(x, mp, c, e) == \A t \in Threads \ {e} : x.prio[t] \in Claims(t, taken[t], mp, c)

\* Priorities are numbers.
LEMMA PrioInt ==
  ASSUME NEW x, x \in KernelState
  PROVE  x.prio \in [Threads -> Int] /\ \A t \in Threads : x.prio[t] \in Int /\ x.prio[t] < Lowest
<1>1. x.prio \in [Threads -> Prio]
  BY KernelStateFields
<1>2. \A p \in Prio : p \in Int /\ p < Lowest
  BY PrioAssumption DEF Prio, Lowest
<1> QED
  BY <1>1, <1>2

LEMMA LevelInt ==
  ASSUME NEW mp \in [Mutexes -> Levels], NEW m \in Mutexes
  PROVE  mp[m] \in Int /\ mp[m] <= Lowest
<1>1. \A p \in Levels : p \in Int /\ p <= Lowest
  BY PrioAssumption DEF Levels, Prio, Lowest
<1> QED
  BY <1>1

\* The list of a mutex.
LEMMA WaitLinks ==
  ASSUME NEW x, KernelOK(x, {}), NEW m \in Mutexes
  PROVE  /\ Links(x.wait[m], Threads, ToSet(x.wait[m])) /\ x.wait[m] \in Seq(Threads)
         /\ ToSet(x.wait[m]) \subseteq Threads /\ Unlinked(x.wait[m], NoThread) = x.wait[m]
<1>1. Holds(x.wait[m], ToSet(x.wait[m]))
  BY DEF KernelOK, LinksOK, Mutexes
<1>2. ToSet(x.wait[m]) \subseteq Threads
  BY <1>1, HoldsFacts
<1>3. Unlinked(x.wait[m], NoThread) = x.wait[m]
  BY <1>2, ThreadsAssumption DEF Unlinked
<1> QED
  BY <1>1, <1>2, <1>3 DEF Holds, Links

LEMMA InOrderAll ==
  ASSUME NEW x, KernelOK(x, {})
  PROVE  InOrder(x, NoThread) <=> \A m \in Mutexes : Sorted(x.wait[m], x.prio)
  BY WaitLinks DEF InOrder

\* A list in order stays so without e whatever the priority of e.
LEMMA OrderBut ==
  ASSUME NEW s, Links(s, Threads, ToSet(s)), NEW key, NEW ky, NEW e, Sorted(s, key),
         \A t \in Threads \ {e} : ky[t] = key[t]
  PROVE  Sorted(Unlinked(s, e), ky)
<1>1. PICK r : r = Unlinked(s, e)
  OBVIOUS
<1>2. Links(r, Threads, ToSet(s) \ {e}) /\ Sorted(r, key)
  BY <1>1, LinksUnlinked
<1>3. DOMAIN r = 1 .. Len(r) /\ \A i \in 1 .. Len(r) : r[i] \in Threads \ {e}
  BY <1>2, LinksFacts DEF Links
<1>4. \A i \in DOMAIN r : ky[r[i]] = key[r[i]]
  BY <1>3
<1>5. Sorted(r, ky)
  BY <1>2, <1>4 DEF Sorted
<1> QED
  BY <1>1, <1>5

\* The first waiter is the most urgent.
LEMMA FirstLeast ==
  ASSUME NEW x, KernelOK(x, {}), NEW m \in Mutexes, Sorted(x.wait[m], x.prio)
  PROVE  \A t \in ToSet(x.wait[m]) : WaitersPriority(x, m) <= x.prio[t]
<1> SUFFICES ASSUME NEW t \in ToSet(x.wait[m])
             PROVE  WaitersPriority(x, m) <= x.prio[t]
  OBVIOUS
<1>1. PICK s : s = x.wait[m]
  OBVIOUS
<1>2. s \in Seq(Threads) /\ x \in KernelState
  BY <1>1, WaitLinks DEF KernelOK
<1>3. PICK i \in 1 .. Len(s) : s[i] = t
  BY <1>1, <1>2 DEF ToSet
<1>4. s # << >> /\ Head(s) = s[1] /\ 1 \in DOMAIN s /\ i \in DOMAIN s /\ s[1] \in Threads
  BY <1>2, <1>3
<1>5. WaitersPriority(x, m) = x.prio[s[1]]
  BY <1>1, <1>4 DEF WaitersPriority
<1>6. CASE i = 1
  <2>1. x.prio[t] \in Int
    BY <1>2, <1>3, <1>4, <1>6, PrioInt
  <2> QED
    BY <1>3, <1>5, <1>6, <2>1
<1>7. CASE i # 1
  <2>1. 1 < i
    BY <1>3, <1>7
  <2> QED
    BY <1>1, <1>3, <1>4, <1>5, <2>1 DEF Sorted
<1> QED
  BY <1>6, <1>7

\* A thread gets the least priority it has a claim to.
LEMMA PriorityLeast ==
  ASSUME NEW t \in Threads, NEW S \in SUBSET Mutexes,
         NEW mp \in [Mutexes -> Levels], NEW c \in [Mutexes -> Levels],
         NEW p, p = MutexPriority(t, S, mp, c)
  PROVE  p \in Claims(t, S, mp, c) /\ \A m \in S : p <= mp[m]
<1>1. BasePrio[t] \in Prio /\ NPrio \in Nat
  BY BasePrioAssumption, PrioAssumption
<1>2. Claims(t, S, mp, c) \in SUBSET Nat /\ Claims(t, S, mp, c) # {}
  BY <1>1 DEF Levels, Lowest, Prio, Claims
<1>3. p = Min(Claims(t, S, mp, c))
  BY DEF MutexPriority, Claims
<1>4. p \in Claims(t, S, mp, c) /\ \A q \in Claims(t, S, mp, c) : p <= q
  BY <1>2, <1>3, LeastNat
<1>5. \A m \in S : mp[m] \in Claims(t, S, mp, c)
  BY DEF Claims
<1> QED
  BY <1>4, <1>5

\* A change of priority changes no other.
LEMMA ChangePrio ==
  ASSUME NEW X, NEW x, KernelOK(x, X), NEW t \in Threads \ X, NEW p \in Prio
  PROVE  /\ ChangePriority(x, t, p).prio[t] = p
         /\ \A u \in Threads \ {t} : ChangePriority(x, t, p).prio[u] = x.prio[u]
<1> DEFINE y == ChangePriority(x, t, p)
<1>0. ASSUME NEW z, z \in KernelState
      PROVE  /\ Repriced(z, t, p).prio[t] = p
             /\ \A u \in Threads \ {t} : Repriced(z, t, p).prio[u] = z.prio[u]
  BY <1>0, KernelStateFields DEF Repriced
<1>1. x \in KernelState
  BY DEF KernelOK
<1>2. CASE x.stat[t] # "READY"
  <2>1. y = Repriced(x, t, p)
    BY <1>2 DEF ChangePriority, Repriced
  <2> HIDE DEF y
  <2> QED
    BY <1>0, <1>1, <2>1 DEF y
<1>3. CASE x.stat[t] = "READY"
  <2> DEFINE r == RemoveThread(x, t)
             v == Repriced(r, t, p)
  <2>1. y = InsertThread(v, t)
    BY <1>3 DEF ChangePriority, Repriced
  <2>2. KernelOK(r, X \cup {t}) /\ SameThreads(x, r)
    BY <1>3, RemoveThreadOK
  <2> HIDE DEF r
  <2>3. r \in KernelState /\ r.prio = x.prio
    BY <2>2 DEF KernelOK, SameThreads
  <2>4. /\ v \in KernelState /\ SameLists(r, v) /\ v.stat = r.stat /\ MaskOK(v, t)
        /\ \A u \in Threads \ {t} : v.prio[u] = r.prio[u] /\ v.mask[u] = r.mask[u]
    BY <2>3, RepricedFacts DEF SameStats
  <2>5. v.prio[t] = p /\ \A u \in Threads \ {t} : v.prio[u] = x.prio[u]
    BY <1>0, <2>3
  <2> HIDE DEF v, y
  <2>6. \A u \in Threads \ {t} : v.stat[u] = r.stat[u] /\ v.prio[u] = r.prio[u]
                                                       /\ v.mask[u] = r.mask[u]
    BY <2>4
  <2>7. KernelOK(v, X \cup {t})
    BY <2>2, <2>4, <2>6, RelabelOK
  <2>8. InsertThread(v, t).prio = v.prio
    <3>1. KernelOK(v, X \cup {t}) /\ MaskOK(v, t) /\ t \in Threads
      BY <2>4, <2>7
    <3>2. Restat(v, InsertThread(v, t), t, IF t = v.cur THEN "RUNNING" ELSE "READY")
      BY <3>1, InsertThreadOK
    <3> QED
      BY <3>2 DEF Restat
  <2> QED
    BY <2>1, <2>5, <2>8 DEF y
<1> QED
  BY <1>2, <1>3

\* A waiter that takes its place anew restores the order.
LEMMA RequeueOrder ==
  ASSUME NEW x, KernelOK(x, {}), NEW m \in Mutexes, NEW t \in ToSet(x.wait[m]), InOrder(x, t),
         NEW y, y = Requeue(x, t, m)
  PROVE  y.prio = x.prio /\ \A n \in Mutexes : Sorted(y.wait[n], y.prio)
<1>1. t \in Threads /\ x \in KernelState /\ x.wait \in [Waits -> Seq(Threads)] /\ Mutexes = Waits
  BY WaitLinks, KernelStateFields DEF KernelOK, Mutexes
<1>2. PICK l : l = ListRemove(x, t)
  OBVIOUS
<1> DEFINE I == {i \in DOMAIN l.wait[m] : l.prio[t] < l.prio[l.wait[m][i]]}
<1>3. l.prio = x.prio /\ \A n \in Mutexes : l.wait[n] = Unlinked(x.wait[n], t)
  BY <1>1, <1>2 DEF ListRemove, KernelState
<1>4. \A n \in Mutexes : Sorted(l.wait[n], x.prio)
  BY <1>3 DEF InOrder
<1>5. \A n \in Mutexes : l.wait[n] \in Seq(Threads)
  BY <1>3, WaitLinks, LinksUnlinked DEF Links
<1>6. y = Join(l, t, m, I)
  BY <1>2 DEF Requeue, Join
<1>7. x.prio \in [Threads -> Int]
  BY <1>1, PrioInt
<1>8. Sorted(InsertBeforeFirst(l.wait[m], I, t), x.prio)
  <2>1. I = {i \in DOMAIN l.wait[m] : x.prio[t] < x.prio[l.wait[m][i]]}
    BY <1>3
  <2> HIDE DEF I
  <2> QED
    BY <1>1, <1>4, <1>5, <1>7, <2>1, SortedInsert
<1> HIDE DEF I
<1>9. /\ y.prio = l.prio /\ y.wait[m] = InsertBeforeFirst(l.wait[m], I, t)
      /\ \A n \in Mutexes \ {m} : y.wait[n] = l.wait[n]
  <2>1. l.wait = [n \in Waits |-> l.wait[n]] /\ DOMAIN l = DOMAIN x
    BY <1>1, <1>2 DEF ListRemove, KernelState
  <2> QED
    BY <1>1, <1>6, <2>1 DEF Join, KernelState
<1> QED
  BY <1>3, <1>4, <1>8, <1>9

\* The thread o gets priority p, which its mutexes call for.
LEMMA ChangeOrder ==
  ASSUME NEW y, KernelOK(y, {}), NEW mp \in [Mutexes -> Levels], NEW c \in [Mutexes -> Levels],
         \A m \in Mutexes : Sorted(y.wait[m], y.prio),
         NEW o \in Threads, Reported(y, mp, NoThread), Raised(y, mp, o),
         NEW p \in Prio, \A m \in Mutexes : owner[m] = o => p <= mp[m],
         NEW z, z = ChangePriority(y, o, p)
  PROVE  /\ InOrder(z, o) /\ Reported(z, mp, o) /\ Raised(z, mp, NoThread)
         /\ Claimed(y, mp, c, o) /\ p \in Claims(o, taken[o], mp, c) => Claimed(z, mp, c, NoThread)
<1>1. z.wait = y.wait /\ z.prio[o] = p /\ \A u \in Threads \ {o} : z.prio[u] = y.prio[u]
  <2>1. KernelOK(y, {}) /\ o \in Threads \ {}
    OBVIOUS
  <2>2. z.wait = y.wait
    BY <2>1, ChangeWait
  <2>3. z.prio[o] = p /\ \A u \in Threads \ {o} : z.prio[u] = y.prio[u]
    BY <2>1, ChangePrio
  <2> QED
    BY <2>2, <2>3
<1>2. InOrder(z, o)
  <2> SUFFICES ASSUME NEW m \in Mutexes PROVE Sorted(Unlinked(z.wait[m], o), z.prio)
    BY DEF InOrder
  <2>1. Links(y.wait[m], Threads, ToSet(y.wait[m])) /\ Sorted(y.wait[m], y.prio)
    BY WaitLinks
  <2> QED
    BY <1>1, <2>1, OrderBut
<1>3. Reported(z, mp, o)
  <2> SUFFICES ASSUME NEW m \in Mutexes, NEW u \in ToSet(z.wait[m]) \ {o} PROVE mp[m] <= z.prio[u]
    BY DEF Reported
  <2>1. u \in ToSet(y.wait[m]) /\ u \in Threads \ {o} /\ u # NoThread
    BY <1>1, WaitLinks, ThreadsAssumption
  <2>2. mp[m] <= y.prio[u]
    BY <2>1 DEF Reported
  <2> QED
    BY <1>1, <2>1, <2>2
<1>4. Raised(z, mp, NoThread)
  <2> SUFFICES ASSUME NEW m \in Mutexes, owner[m] \in Threads PROVE z.prio[owner[m]] <= mp[m]
    BY DEF Raised
  <2>1. CASE owner[m] = o
    BY <1>1, <2>1
  <2>2. CASE owner[m] # o
    BY <1>1, <2>2 DEF Raised
  <2> QED
    BY <2>1, <2>2
<1>5. ASSUME Claimed(y, mp, c, o), p \in Claims(o, taken[o], mp, c) PROVE Claimed(z, mp, c, NoThread)
  BY <1>1, <1>5 DEF Claimed
<1> QED
  BY <1>2, <1>3, <1>4, <1>5

\* What the loop finds in the state x in which it begins: owners and taken
\* lists agree, and a thread waits for what it is pending on.
Setting(x, pn) ==
    /\ taken \in [Threads -> SUBSET Mutexes] /\ owner \in [Mutexes -> ThreadOrNull]
    /\ \A m \in Mutexes, t \in Threads : m \in taken[t] <=> owner[m] = t
    /\ CurOK(x) /\ PendOK(x, pn)
    /\ \A m \in Mutexes : \A t \in ToSet(x.wait[m]) : pn[t] = m

Ordered(s) == InOrder(s.k, s.at) /\ Reported(s.k, s.mp, s.at) /\ Raised(s.k, s.mp, NoThread)

HasClaims(s) == Claimed(s.k, s.mp, s.ceil, NoThread)

\* One round of the loop.
LEMMA PropagateOrder ==
  ASSUME NEW x, NEW s, LoopOK(x, s), Setting(x, s.pend), Ordered(s)
  PROVE  Ordered(Propagate(s)) /\ (HasClaims(s) => HasClaims(Propagate(s)))
<1>1. /\ s \in PropagationState /\ s.k \in KernelState /\ s.mp \in [Mutexes -> Levels]
      /\ s.ceil \in [Mutexes -> Levels] /\ s.pend \in [Threads -> Mutexes \cup {NoMutex}]
      /\ s.at \in ThreadOrNull /\ SameWaiters(x, s.k) /\ KernelOK(s.k, {})
  BY DEF LoopOK, PropagationState, SameWaiters
<1>0. \A m \in Mutexes : ToSet(s.k.wait[m]) = ToSet(x.wait[m])
  BY <1>1 DEF SameWaiters, Mutexes
<1>2. CASE ~ (s.at # NoThread /\ s.k.stat[s.at] = "SUSPEND" /\ s.pend[s.at] # NoMutex)
  <2>1. Propagate(s) = [s EXCEPT !.at = NoThread]
    BY <1>2 DEF Propagate
  <2>2. PICK r : r = Propagate(s)
    OBVIOUS
  <2>3. r.k = s.k /\ r.mp = s.mp /\ r.ceil = s.ceil /\ r.at = NoThread
    BY <1>1, <2>1, <2>2 DEF PropagationState
  <2>4. ASSUME NEW m \in Mutexes PROVE s.at \notin ToSet(s.k.wait[m])
    <3> SUFFICES ASSUME s.at \in ToSet(s.k.wait[m]) PROVE FALSE
      OBVIOUS
    <3>1. s.k.stat[s.at] = "SUSPEND" /\ s.at # NoThread
      BY <1>1, WaitLinks, ThreadsAssumption DEF KernelOK, LinksOK, Mutexes
    <3>2. s.pend[s.at] = m /\ m # NoMutex
      BY <1>0, MutexAssumption DEF Setting, Mutexes, NoMutex
    <3> QED
      BY <1>2, <3>1, <3>2
  <2>5. InOrder(s.k, NoThread) /\ Reported(s.k, s.mp, NoThread)
    <3>1. \A m \in Mutexes : Unlinked(s.k.wait[m], s.at) = s.k.wait[m]
      BY <2>4 DEF Unlinked
    <3>2. \A m \in Mutexes : Unlinked(s.k.wait[m], NoThread) = s.k.wait[m]
      BY <1>1, WaitLinks
    <3> QED
      BY <2>4, <3>1, <3>2 DEF Ordered, InOrder, Reported
  <2> QED
    BY <2>2, <2>3, <2>5 DEF Ordered, HasClaims
<1>3. CASE s.at # NoThread /\ s.k.stat[s.at] = "SUSPEND" /\ s.pend[s.at] # NoMutex
  <2>0. PICK t, m, o : t = s.at /\ m = s.pend[t] /\ o = owner[m]
    OBVIOUS
  <2>1. t \in Threads /\ m \in Mutexes /\ o \in Threads /\ t \in ToSet(s.k.wait[m])
    <3>1. t \in Threads /\ m \in Mutexes /\ m \in Waits
      BY <1>1, <1>3, <2>0 DEF ThreadOrNull, Mutexes
    <3>2. x.stat[t] = "SUSPEND" /\ ToSet(s.k.wait[m]) = ToSet(x.wait[m])
      BY <1>1, <1>3, <2>0, <3>1 DEF SameWaiters, SameStats
    <3> QED
      BY <1>3, <2>0, <3>1, <3>2 DEF PendOK, Setting
  <2>2. PICK k1 : k1 = Requeue(s.k, t, m)
    OBVIOUS
  <2>3. SameWaiters(s.k, k1) /\ KernelOK(k1, {}) /\ \A n \in Mutexes : ToSet(k1.wait[n]) = ToSet(s.k.wait[n])
    BY <1>1, <2>1, <2>2, RequeueSame DEF SameWaiters, Mutexes
  <2>4. k1.prio = s.k.prio /\ \A n \in Mutexes : Sorted(k1.wait[n], k1.prio)
    <3>1. InOrder(s.k, t)
      BY <2>0 DEF Ordered
    <3> QED
      BY <1>1, <2>1, <2>2, <3>1, RequeueOrder
  <2>5. PICK mp : mp = [s.mp EXCEPT ![m] = WaitersPriority(k1, m)]
    OBVIOUS
  <2>6. /\ mp \in [Mutexes -> Levels] /\ mp[m] = WaitersPriority(k1, m)
        /\ \A n \in Mutexes \ {m} : mp[n] = s.mp[n]
    <3>1. WaitersPriority(k1, m) \in Levels
      BY <2>1, <2>3, WaitersTyped
    <3> QED
      BY <1>1, <2>1, <2>5, <3>1
  <2>7. PICK p : p = MutexPriority(o, taken[o], mp, s.ceil)
    OBVIOUS
  <2>8. p \in Prio /\ p \in Claims(o, taken[o], mp, s.ceil) /\ \A n \in Mutexes : owner[n] = o => p <= mp[n]
    <3>1. taken[o] \in SUBSET Mutexes /\ \A n \in Mutexes : owner[n] = o => n \in taken[o]
      BY <2>1 DEF Setting
    <3>2. p \in Prio
      BY <1>1, <2>1, <2>6, <2>7, <3>1, PriorityTyped
    <3>3. p \in Claims(o, taken[o], mp, s.ceil) /\ \A n \in taken[o] : p <= mp[n]
      BY <1>1, <2>1, <2>6, <2>7, <3>1, PriorityLeast
    <3> QED
      BY <3>1, <3>2, <3>3
  <2>9. Reported(k1, mp, NoThread)
    <3> SUFFICES ASSUME NEW n \in Mutexes, NEW u \in ToSet(k1.wait[n]) PROVE mp[n] <= k1.prio[u]
      BY DEF Reported
    <3>1. CASE n = m
      BY <2>1, <2>3, <2>4, <2>6, <3>1, FirstLeast
    <3>2. CASE n # m
      <4>1. u \in ToSet(s.k.wait[n]) /\ u \in ToSet(x.wait[n]) /\ t \in ToSet(x.wait[m])
        BY <1>0, <2>1, <2>3
      <4>2. u # t
        BY <2>1, <3>2, <4>1 DEF Setting
      <4> QED
        BY <2>0, <2>4, <2>6, <3>2, <4>1, <4>2 DEF Ordered, Reported
    <3> QED
      BY <3>1, <3>2
  <2>10. Raised(k1, mp, o)
    <3> SUFFICES ASSUME NEW n \in Mutexes, owner[n] \in Threads \ {o} PROVE k1.prio[owner[n]] <= mp[n]
      BY DEF Raised
    <3>1. n # m /\ owner[n] \in Threads \ {NoThread}
      BY <2>0, ThreadsAssumption
    <3> QED
      BY <2>4, <2>6, <3>1 DEF Ordered, Raised
  <2>11. ASSUME HasClaims(s) PROVE Claimed(k1, mp, s.ceil, o)
    <3> SUFFICES ASSUME NEW u \in Threads \ {o}
                 PROVE  k1.prio[u] \in Claims(u, taken[u], mp, s.ceil)
      BY DEF Claimed
    <3>1. m \notin taken[u] /\ taken[u] \subseteq Mutexes
      BY <2>0, <2>1 DEF Setting
    <3>2. \A n \in taken[u] : mp[n] = s.mp[n]
      BY <2>6, <3>1
    <3>3. s.k.prio[u] \in Claims(u, taken[u], s.mp, s.ceil)
      BY <2>11, ThreadsAssumption DEF HasClaims, Claimed
    <3> QED
      BY <2>4, <3>2, <3>3 DEF Claims
  <2>12. PICK r : r = Propagate(s)
    OBVIOUS
  <2>13. /\ r.k = (IF p # k1.prio[o] THEN ChangePriority(k1, o, p) ELSE k1) /\ r.mp = mp /\ r.ceil = s.ceil
         /\ r.at = IF p # k1.prio[o] THEN o ELSE NoThread
    <3>1. PICK k2 : k2 = IF p # k1.prio[o] THEN ChangePriority(k1, o, p) ELSE k1
      OBVIOUS
    <3>2. PICK a : a = IF p # k1.prio[o] THEN o ELSE NoThread
      OBVIOUS
    <3>3. r = [s EXCEPT !.k = k2, !.mp = mp, !.at = a]
      BY <1>3, <2>0, <2>2, <2>5, <2>7, <2>12, <3>1, <3>2 DEF Propagate
    <3> QED
      BY <1>1, <3>1, <3>2, <3>3 DEF PropagationState
  <2>14. CASE p # k1.prio[o]
    <3>1. r.k = ChangePriority(k1, o, p) /\ r.at = o
      BY <2>13, <2>14
    <3>2. /\ InOrder(r.k, o) /\ Reported(r.k, mp, o) /\ Raised(r.k, mp, NoThread)
          /\ Claimed(k1, mp, s.ceil, o) => Claimed(r.k, mp, s.ceil, NoThread)
      BY <1>1, <2>1, <2>3, <2>4, <2>6, <2>8, <2>9, <2>10, <3>1, ChangeOrder
    <3> QED
      BY <2>11, <2>12, <2>13, <3>1, <3>2 DEF Ordered, HasClaims
  <2>15. CASE p = k1.prio[o]
    <3>1. r.k = k1 /\ r.at = NoThread
      BY <2>13, <2>15
    <3>2. Raised(k1, mp, NoThread)
      BY <2>8, <2>10, <2>15 DEF Raised
    <3>3. Claimed(k1, mp, s.ceil, o) => Claimed(k1, mp, s.ceil, NoThread)
      BY <2>8, <2>15 DEF Claimed
    <3>4. InOrder(k1, NoThread)
      BY <2>3, <2>4, InOrderAll
    <3> QED
      BY <2>9, <2>11, <2>12, <2>13, <3>1, <3>2, <3>3, <3>4 DEF Ordered, HasClaims
  <2> QED
    BY <2>14, <2>15
<1> QED
  BY <1>2, <1>3

\* _thread_update_priority(t, p) for a priority p that the mutexes of t call
\* for: after every round the order holds but for the thread changed last.
LEMMA UpdatePriorityOrder ==
  ASSUME NEW x, NEW s, LoopOK(x, s), Setting(x, s.pend), s.at = NoThread,
         InOrder(s.k, NoThread), Reported(s.k, s.mp, NoThread),
         NEW t \in Threads, Raised(s.k, s.mp, t),
         NEW p \in Prio, \A m \in Mutexes : owner[m] = t => p <= s.mp[m],
         NEW r, r = UpdatePriority(s, t, p)
  PROVE  /\ Ordered(r) /\ r.ceil = s.ceil
         /\ Claimed(s.k, s.mp, s.ceil, t) /\ p \in Claims(t, taken[t], s.mp, s.ceil) => HasClaims(r)
<1> DEFINE C == Claimed(s.k, s.mp, s.ceil, t) /\ p \in Claims(t, taken[t], s.mp, s.ceil)
           G == {g \in PropagationState : /\ LoopOK(x, g) /\ g.pend = s.pend /\ g.ceil = s.ceil
                                          /\ Ordered(g) /\ (C => HasClaims(g))}
<1>1. PICK z : z = Changed(s, t, p)
  OBVIOUS
<1>2. /\ taken \in [Threads -> SUBSET Mutexes] /\ CurOK(x) /\ PendOK(x, s.pend)
      /\ s \in PropagationState /\ SameWaiters(x, s.k) /\ KernelOK(s.k, {})
      /\ s.mp \in [Mutexes -> Levels] /\ s.ceil \in [Mutexes -> Levels]
  BY DEF Setting, LoopOK, PropagationState, SameWaiters
<1>3. PICK y : y = ChangePriority(s.k, t, p)
  OBVIOUS
<1>4. z.k = y /\ z.mp = s.mp /\ z.ceil = s.ceil /\ z.pend = s.pend /\ z.at = t
  BY <1>1, <1>2, <1>3 DEF Changed, PropagationState
<1>5. LoopOK(x, z)
  <2>1. t = s.k.cur => s.k.stat[t] # "READY"
    BY <1>2 DEF SameWaiters, SameStats, CurOK
  <2>2. SameWaiters(s.k, y)
    BY <1>2, <1>3, <2>1, ChangeSame
  <2>3. SameWaiters(x, y) /\ y \in KernelState /\ t \in ThreadOrNull
    BY <1>2, <2>2, SameThen DEF SameWaiters, KernelOK, ThreadOrNull
  <2> QED
    BY <1>1, <1>2, <1>3, <2>3 DEF LoopOK, PropagationState, Changed
<1>6. Ordered(z) /\ (C => HasClaims(z))
  <2>1. \A m \in Mutexes : Sorted(s.k.wait[m], s.k.prio)
    BY <1>2, InOrderAll
  <2>2. /\ InOrder(y, t) /\ Reported(y, s.mp, t) /\ Raised(y, s.mp, NoThread)
        /\ C => Claimed(y, s.mp, s.ceil, NoThread)
    BY <1>2, <1>3, <2>1, ChangeOrder
  <2> HIDE DEF C
  <2> QED
    BY <1>4, <2>2 DEF Ordered, HasClaims
<1> HIDE DEF C
<1>7. z \in G
  BY <1>4, <1>5, <1>6 DEF LoopOK
<1>8. ASSUME NEW g \in G PROVE Propagate(g) \in G
  <2>1. LoopOK(x, g) /\ g.pend = s.pend /\ g.ceil = s.ceil /\ Ordered(g) /\ (C => HasClaims(g))
    OBVIOUS
  <2>2. PICK h : h = Propagate(g)
    OBVIOUS
  <2>3. LoopOK(x, h) /\ h.pend = g.pend /\ h.ceil = g.ceil
    <3>1. PendOK(x, g.pend)
      BY <1>2, <2>1
    <3> QED
      BY <1>2, <2>1, <2>2, <3>1, PropagateOK
  <2>4. Ordered(h) /\ (HasClaims(g) => HasClaims(h))
    <3>1. Setting(x, g.pend)
      BY <2>1
    <3> QED
      BY <2>1, <2>2, <3>1, PropagateOrder
  <2>5. h \in G
    BY <2>1, <2>3, <2>4 DEF LoopOK
  <2> QED
    BY <2>2, <2>5
<1> HIDE DEF G
<1>9. r \in G
  BY <1>1, <1>7, <1>8, LoopInduction
<1> QED
  BY <1>9 DEF G, C

\* The owner o gets the priority its mutexes call for.
LEMMA ReprioritiseOrder ==
  ASSUME NEW x, NEW s, LoopOK(x, s), Setting(x, s.pend), s.at = NoThread, Ordered(s),
         NEW o \in Threads, NEW r, r = Reprioritise(s, o)
  PROVE  Ordered(r) /\ r.ceil = s.ceil /\ (Claimed(s.k, s.mp, s.ceil, o) => HasClaims(r))
<1>1. PICK p : p = MutexPriority(o, taken[o], s.mp, s.ceil)
  OBVIOUS
<1>2. /\ s.mp \in [Mutexes -> Levels] /\ s.ceil \in [Mutexes -> Levels] /\ taken[o] \in SUBSET Mutexes
      /\ \A m \in Mutexes : owner[m] = o => m \in taken[o]
  BY DEF LoopOK, PropagationState, Setting
<1>3. p \in Prio /\ p \in Claims(o, taken[o], s.mp, s.ceil) /\ \A m \in taken[o] : p <= s.mp[m]
  BY <1>1, <1>2, PriorityTyped, PriorityLeast
<1>4. CASE p = s.k.prio[o]
  <2>1. r = s
    BY <1>1, <1>4 DEF Reprioritise
  <2> QED
    BY <1>3, <1>4, <2>1 DEF HasClaims, Claimed
<1>5. CASE p # s.k.prio[o]
  <2>1. r = UpdatePriority(s, o, p)
    BY <1>1, <1>5 DEF Reprioritise
  <2>2. InOrder(s.k, NoThread) /\ Reported(s.k, s.mp, NoThread) /\ Raised(s.k, s.mp, o)
    BY ThreadsAssumption DEF Ordered, Raised
  <2>3. \A m \in Mutexes : owner[m] = o => p <= s.mp[m]
    BY <1>2, <1>3
  <2> QED
    BY <1>3, <2>1, <2>2, <2>3, UpdatePriorityOrder
<1> QED
  BY <1>4, <1>5

-----------------------------------------------------------------------------
(* Every step preserves the order of priorities *)

\* A wait that has timed out is on record.
LapseInv == \A t \in Threads : err[t] = "ETIMEOUT" => lapsed

PrioInv ==
    /\ InOrder(k, NoThread) /\ Reported(k, mprio, NoThread) /\ Raised(k, mprio, NoThread)
    /\ LapseInv /\ (~ lapsed => Claimed(k, mprio, ceil, NoThread))

LEMMA SettingNow ==
  ASSUME MutexInv
  PROVE  /\ Setting(k, pend) /\ KernelOK(k, {}) /\ k \in KernelState
         /\ mprio \in [Mutexes -> Levels] /\ ceil \in [Mutexes -> Levels]
         /\ pend \in [Threads -> Mutexes \cup {NoMutex}]
<1>1. /\ taken \in [Threads -> SUBSET Mutexes] /\ owner \in [Mutexes -> ThreadOrNull]
      /\ mprio \in [Mutexes -> Levels] /\ ceil \in [Mutexes -> Levels]
      /\ pend \in [Threads -> Mutexes \cup {NoMutex}]
  BY DEF MutexInv, MutexTypes
<1>2. CurOK(k) /\ KernelOK(k, {})
  BY BlockCur DEF MutexInv, BlockInv
<1>3. /\ \A m \in Mutexes, t \in Threads : m \in taken[t] <=> owner[m] = t
      /\ \A m \in Mutexes : \A t \in ToSet(k.wait[m]) : pend[t] = m
  BY InvOwnership DEF Ownership
<1> QED
  BY <1>1, <1>2, <1>3, PendNow DEF Setting, KernelOK

\* A thread that waits for nothing changes its priority.
LEMMA RunnerOrder ==
  ASSUME NEW x, KernelOK(x, {}), \A m \in Mutexes : Sorted(x.wait[m], x.prio),
         NEW t, \A m \in Mutexes : t \notin ToSet(x.wait[m]),
         NEW y, y.wait = x.wait, \A u \in Threads \ {t} : y.prio[u] = x.prio[u]
  PROVE  /\ \A m \in Mutexes : Sorted(y.wait[m], y.prio)
         /\ \A m \in Mutexes : \A u \in ToSet(y.wait[m]) : y.prio[u] = x.prio[u]
<1>1. ASSUME NEW m \in Mutexes PROVE Sorted(y.wait[m], y.prio)
  <2>1. Unlinked(x.wait[m], t) = x.wait[m]
    BY DEF Unlinked
  <2>2. Sorted(Unlinked(x.wait[m], t), y.prio)
    BY WaitLinks, OrderBut
  <2> QED
    BY <2>1, <2>2
<1>2. \A m \in Mutexes : \A u \in ToSet(y.wait[m]) : u \in Threads \ {t}
  BY WaitLinks
<1> QED
  BY <1>1, <1>2

\* The mutex is at least as urgent as its waiters say.
LEMMA ReportedFirst ==
  ASSUME NEW x, KernelOK(x, {}), NEW mp \in [Mutexes -> Levels], NEW m \in Mutexes,
         \A t \in ToSet(x.wait[m]) : mp[m] <= x.prio[t]
  PROVE  mp[m] <= WaitersPriority(x, m)
<1>1. CASE x.wait[m] = << >>
  BY <1>1, LevelInt DEF WaitersPriority
<1>2. CASE x.wait[m] # << >>
  <2>1. Head(x.wait[m]) \in ToSet(x.wait[m])
    BY <1>2, WaitLinks, LinksFacts
  <2> QED
    BY <1>2, <2>1 DEF WaitersPriority
<1> QED
  BY <1>1, <1>2

\* The end of a loop is the next state.
LEMMA PrioFrom ==
  ASSUME NEW r, Ordered(r), r.at = NoThread, k' = r.k, mprio' = r.mp, ceil' = r.ceil,
         owner' = owner, taken' = taken, LapseInv', ~ lapsed' => HasClaims(r)
  PROVE  PrioInv'
<1>1. InOrder(k, NoThread)' /\ Reported(k, mprio, NoThread)'
  BY DEF Ordered, InOrder, Reported
<1>2. Raised(k, mprio, NoThread)'
  BY DEF Ordered, Raised
<1>3. ~ lapsed' => Claimed(k, mprio, ceil, NoThread)'
  BY DEF HasClaims, Claimed
<1> QED
  BY <1>1, <1>2, <1>3 DEF PrioInv

\* Steps that leave the mutexes and the priorities alone; lists may shrink.
LEMMA PrioFrame ==
  ASSUME PrioInv, mprio' = mprio, ceil' = ceil, owner' = owner, taken' = taken, k'.prio = k.prio,
         LapseInv', ~ lapsed' => ~ lapsed, InOrder(k', NoThread),
         \A m \in Mutexes : ToSet(k'.wait[m]) \subseteq ToSet(k.wait[m])
  PROVE  PrioInv'
<1>1. InOrder(k, NoThread)' /\ Reported(k, mprio, NoThread)'
  BY DEF PrioInv, InOrder, Reported
<1>2. Raised(k, mprio, NoThread)'
  BY DEF PrioInv, Raised
<1>3. ~ lapsed' => Claimed(k, mprio, ceil, NoThread)'
  BY DEF PrioInv, Claimed
<1> QED
  BY <1>1, <1>2, <1>3 DEF PrioInv

LEMMA StillPrio ==
  ASSUME MutexInv, PrioInv, UNCHANGED <<mprio, ceil, owner, taken, lapsed, err>>,
         k'.prio = k.prio, k'.wait = k.wait
  PROVE  PrioInv'
<1>1. LapseInv'
  BY DEF PrioInv, LapseInv
<1>2. InOrder(k', NoThread)
  BY DEF PrioInv, InOrder
<1> QED
  BY <1>1, <1>2, PrioFrame

LEMMA ThreadPrio ==
  ASSUME MutexInv, PrioInv, UNCHANGED <<mutexVars, lapsed>>,
         Slice \/ \E t \in Threads : Sleep(t) \/ DoSchedule(t)
  PROVE  PrioInv'
<1>1. BlockInv /\ UNCHANGED <<mprio, ceil, owner, taken, lapsed>>
  BY DEF MutexInv, mutexVars
<1>2. err' = err
  BY DEF Slice, Sleep, DoSchedule
<1>3. k'.prio = k.prio /\ k'.wait = k.wait
  BY <1>1, SliceStep, SleepStep, DoScheduleStep
<1> QED
  BY <1>1, <1>2, <1>3, StillPrio

LEMMA ExpirePrio ==
  ASSUME MutexInv, PrioInv, NEW u, Expire(u)
  PROVE  PrioInv'
<1>1. /\ owner' = owner /\ mprio' = mprio /\ ceil' = ceil /\ taken' = taken
      /\ lapsed' = (lapsed \/ pend[u] # NoMutex) /\ Timeout(u) /\ BlockInv
  BY DEF Expire, mutexVars, MutexInv
<1>2. /\ k'.prio = k.prio /\ u \in timed /\ u \in Threads /\ KernelOK(k, {}) /\ BlockInv'
      /\ \A w \in Waits : k'.wait[w] = Unlinked(k.wait[w], u)
      /\ \A w \in Waits : ToSet(k'.wait[w]) = ToSet(k.wait[w]) \ {u}
  BY <1>1, TimeoutStep DEF BlockInv, BlockOK
<1>3. err' = IF Waits \cap ToSet(pc[u]) # {} THEN [err EXCEPT ![u] = "ETIMEOUT"] ELSE err
  BY <1>1 DEF Timeout
<1>4. LapseInv'
  <2>1. CASE Waits \cap ToSet(pc[u]) = {}
    BY <1>1, <1>3, <2>1 DEF PrioInv, LapseInv
  <2>2. CASE Waits \cap ToSet(pc[u]) # {}
    <3>1. PICK m \in Mutexes : OnCall(u, m)
      BY <2>2 DEF OnCall, Mutexes
    <3>2. pend[u] = m
      BY <1>2, <3>1 DEF MutexInv, StageInv, Stage
    <3>3. m # NoMutex
      BY MutexAssumption DEF Mutexes, NoMutex
    <3> QED
      BY <1>1, <3>2, <3>3 DEF LapseInv
  <2> QED
    BY <2>1, <2>2
<1>5. InOrder(k', NoThread)
  <2>1. KernelOK(k', {})
    BY <1>2 DEF BlockInv, BlockOK
  <2>2. \A m \in Mutexes : Sorted(k.wait[m], k.prio)
    BY <1>2, InOrderAll DEF PrioInv
  <2>3. ASSUME NEW m \in Mutexes PROVE Sorted(k'.wait[m], k'.prio)
    <3>1. Sorted(Unlinked(k.wait[m], u), k.prio)
      BY <1>2, <2>2, WaitLinks, LinksUnlinked
    <3> QED
      BY <1>2, <3>1 DEF Mutexes
  <2> QED
    BY <2>1, <2>3, InOrderAll
<1>6. \A m \in Mutexes : ToSet(k'.wait[m]) \subseteq ToSet(k.wait[m])
  BY <1>2 DEF Mutexes
<1>7. ~ lapsed' => ~ lapsed
  BY <1>1
<1> QED
  BY <1>1, <1>2, <1>4, <1>5, <1>6, <1>7, PrioFrame

LEMMA TakeReturnPrio ==
  ASSUME MutexInv, PrioInv, NEW t, NEW m \in Mutexes, TakeReturn(t, m)
  PROVE  PrioInv'
<1>1. /\ err' = [err EXCEPT ![t] = "EOK"] /\ owner' = owner /\ ceil' = ceil /\ taken' = taken
      /\ lapsed' = lapsed /\ err \in [Threads -> {"EOK", "ETIMEOUT"}] /\ owner[m] \in ThreadOrNull
  BY DEF TakeReturn, MutexInv, MutexTypes
<1>2. t \in Threads
  <2>1. BlockInv /\ At(t, m)
    BY DEF MutexInv, TakeReturn
  <2> QED
    BY <2>1, RunsLive
<1>3. LapseInv'
  BY <1>1, <1>2 DEF PrioInv, LapseInv
<1>4. CASE err[t] = "EOK"
  <2>1. k' = k /\ mprio' = mprio
    BY <1>4 DEF TakeReturn
  <2>2. InOrder(k', NoThread)
    BY <2>1 DEF PrioInv
  <2> QED
    BY <1>1, <1>3, <2>1, <2>2, PrioFrame
<1>5. CASE err[t] # "EOK"
  <2>1. PICK o, mp, s, r :
          /\ o = owner[m] /\ mp = [mprio EXCEPT ![m] = WaitersPriority(k, m)]
          /\ s = Propagation(k, mp, ceil, pend)
          /\ r = IF o # NoThread /\ k.prio[o] = k.prio[t] THEN Reprioritise(s, o) ELSE s
    OBVIOUS
  <2>2. k' = r.k /\ mprio' = r.mp /\ r.at = NoThread /\ lapsed
    <3>1. err[t] = "ETIMEOUT"
      BY <1>1, <1>2, <1>5
    <3> QED
      BY <1>2, <1>5, <2>1, <3>1 DEF TakeReturn, PrioInv, LapseInv
  <2>3. /\ Setting(k, pend) /\ KernelOK(k, {}) /\ k \in KernelState
        /\ mprio \in [Mutexes -> Levels] /\ ceil \in [Mutexes -> Levels]
        /\ pend \in [Threads -> Mutexes \cup {NoMutex}]
    BY SettingNow
  <2>4. /\ mp \in [Mutexes -> Levels] /\ mp[m] = WaitersPriority(k, m)
        /\ \A n \in Mutexes \ {m} : mp[n] = mprio[n]
    <3>1. WaitersPriority(k, m) \in Levels
      BY <2>3, WaitersTyped
    <3> QED
      BY <2>1, <2>3, <3>1
  <2>5. LoopOK(k, s) /\ s.k = k /\ s.mp = mp /\ s.ceil = ceil /\ s.pend = pend
    <3>1. s = Propagation(k, mp, ceil, pend)
      BY <2>1
    <3> QED
      BY <2>3, <2>4, <3>1, PropagationOK
  <2>6. s.at = NoThread
    BY <2>1 DEF Propagation
  <2>7. Reported(k, mp, NoThread)
    <3> SUFFICES ASSUME NEW n \in Mutexes, NEW u \in ToSet(k.wait[n]) \ {NoThread} PROVE mp[n] <= k.prio[u]
      BY DEF Reported
    <3>1. CASE n = m
      <4>1. Sorted(k.wait[m], k.prio)
        BY <2>3, InOrderAll DEF PrioInv
      <4> QED
        BY <2>3, <2>4, <3>1, <4>1, FirstLeast
    <3>2. CASE n # m
      BY <2>4, <3>2 DEF PrioInv, Reported
    <3> QED
      BY <3>1, <3>2
  <2>8. Raised(k, mp, NoThread)
    <3> SUFFICES ASSUME NEW n \in Mutexes, owner[n] \in Threads PROVE k.prio[owner[n]] <= mp[n]
      BY DEF Raised
    <3>1. k.prio[owner[n]] <= mprio[n] /\ k.prio[owner[n]] \in Int /\ mprio[n] \in Int /\ mp[n] \in Int
      BY <2>3, <2>4, LevelInt, PrioInt, ThreadsAssumption DEF PrioInv, Raised
    <3>2. CASE n = m
      <4>1. \A u \in ToSet(k.wait[m]) : mprio[m] <= k.prio[u]
        BY <2>3, WaitLinks, ThreadsAssumption DEF PrioInv, Reported
      <4>2. mprio[m] <= WaitersPriority(k, m)
        BY <2>3, <4>1, ReportedFirst
      <4> QED
        BY <2>4, <3>1, <3>2, <4>2
    <3>3. CASE n # m
      BY <2>4, <3>1, <3>3
    <3> QED
      BY <3>2, <3>3
  <2>9. Ordered(s)
    BY <2>5, <2>6, <2>7, <2>8 DEF Ordered, PrioInv
  <2>10. Ordered(r) /\ r.ceil = ceil
    <3>1. CASE o # NoThread
      <4>1. o \in Threads
        BY <1>1, <2>1, <3>1 DEF ThreadOrNull
      <4>2. PICK q : q = Reprioritise(s, o)
        OBVIOUS
      <4>3. Setting(k, s.pend)
        BY <2>3, <2>5
      <4>4. Ordered(q) /\ q.ceil = s.ceil
        BY <2>5, <2>6, <2>9, <4>1, <4>2, <4>3, ReprioritiseOrder
      <4> QED
        BY <2>1, <2>5, <2>9, <4>2, <4>4
    <3> QED
      BY <2>1, <2>5, <2>9, <3>1
  <2> QED
    BY <1>1, <1>3, <2>2, <2>10, PrioFrom
<1> QED
  BY <1>4, <1>5

LEMMA CeilingPrio ==
  ASSUME MutexInv, PrioInv, NEW t, NEW m \in Mutexes, NEW p \in Ceilings, SetPrioCeiling(t, m, p)
  PROVE  PrioInv'
<1>1. PICK c, s, r :
        /\ c = [ceil EXCEPT ![m] = p] /\ s = Propagation(k, mprio, c, pend)
        /\ r = IF owner[m] # NoThread THEN Reprioritise(s, owner[m]) ELSE s
  OBVIOUS
<1>2. /\ ceil' = c /\ k' = r.k /\ mprio' = r.mp /\ r.at = NoThread
      /\ UNCHANGED <<err, owner, taken, lapsed>>
  BY <1>1 DEF SetPrioCeiling
<1>3. /\ Setting(k, pend) /\ KernelOK(k, {}) /\ k \in KernelState
      /\ mprio \in [Mutexes -> Levels] /\ ceil \in [Mutexes -> Levels]
      /\ pend \in [Threads -> Mutexes \cup {NoMutex}] /\ owner[m] \in ThreadOrNull
  BY SettingNow DEF Setting
<1>4. c \in [Mutexes -> Levels] /\ \A n \in Mutexes \ {m} : c[n] = ceil[n]
  BY <1>1, <1>3, MutexAssumption DEF Levels
<1>5. LoopOK(k, s) /\ s.k = k /\ s.mp = mprio /\ s.ceil = c /\ s.pend = pend /\ s.at = NoThread
  <2>1. s = Propagation(k, mprio, c, pend)
    BY <1>1
  <2>2. s.at = NoThread
    BY <2>1 DEF Propagation
  <2> QED
    BY <1>3, <1>4, <2>1, <2>2, PropagationOK
<1>6. Ordered(s) /\ Setting(k, s.pend)
  BY <1>3, <1>5 DEF Ordered, PrioInv
<1>7. LapseInv'
  BY <1>2 DEF PrioInv, LapseInv
<1>8. ASSUME NEW u \in Threads, u # owner[m], ~ lapsed
      PROVE  k.prio[u] \in Claims(u, taken[u], mprio, c)
  <2>1. m \notin taken[u] /\ taken[u] \subseteq Mutexes
    BY <1>3, <1>8 DEF Setting
  <2>2. \A n \in taken[u] : c[n] = ceil[n]
    BY <1>4, <2>1
  <2>3. k.prio[u] \in Claims(u, taken[u], mprio, ceil)
    BY <1>8, ThreadsAssumption DEF PrioInv, Claimed
  <2> QED
    BY <2>2, <2>3 DEF Claims
<1>9. CASE owner[m] # NoThread
  <2>1. owner[m] \in Threads
    BY <1>3, <1>9 DEF ThreadOrNull
  <2>2. r = Reprioritise(s, owner[m])
    BY <1>1, <1>9
  <2>3. Ordered(r) /\ r.ceil = s.ceil /\ (Claimed(s.k, s.mp, s.ceil, owner[m]) => HasClaims(r))
    BY <1>5, <1>6, <2>1, <2>2, ReprioritiseOrder
  <2>4. ~ lapsed => Claimed(s.k, s.mp, s.ceil, owner[m])
    BY <1>5, <1>8 DEF Claimed
  <2> QED
    BY <1>2, <1>5, <1>7, <2>3, <2>4, PrioFrom
<1>10. CASE owner[m] = NoThread
  <2>1. r = s
    BY <1>1, <1>10
  <2>2. ~ lapsed => HasClaims(s)
    BY <1>5, <1>8, <1>10, ThreadsAssumption DEF HasClaims, Claimed
  <2> QED
    BY <1>2, <1>5, <1>6, <1>7, <2>1, <2>2, PrioFrom
<1> QED
  BY <1>9, <1>10

LEMMA TakeFreePrio ==
  ASSUME MutexInv, PrioInv, NEW t, NEW m \in Mutexes, TakeFree(t, m)
  PROVE  PrioInv'
<1>1. /\ Runs(t) /\ owner[m] = NoThread /\ owner' = [owner EXCEPT ![m] = t]
      /\ mprio' = [mprio EXCEPT ![m] = Lowest]
      /\ taken' = [taken EXCEPT ![t] = taken[t] \cup {m}]
      /\ k' = (IF ceil[m] < k.prio[t] THEN ChangePriority(k, t, ceil[m]) ELSE k)
      /\ err' = err /\ ceil' = ceil /\ lapsed' = lapsed
  BY DEF TakeFree
<1>2. /\ Setting(k, pend) /\ KernelOK(k, {}) /\ k \in KernelState
      /\ mprio \in [Mutexes -> Levels] /\ ceil \in [Mutexes -> Levels]
      /\ taken \in [Threads -> SUBSET Mutexes] /\ owner \in [Mutexes -> ThreadOrNull]
  BY SettingNow DEF Setting
<1>3. t \in Threads /\ \A n \in Mutexes : t \notin ToSet(k.wait[n])
  BY <1>1, RunsLive, LiveFacts DEF MutexInv, Mutexes
<1>4. k.wait[m] = << >> /\ ToSet(k.wait[m]) = {}
  <2>1. k.wait[m] = << >>
    BY <1>1, InvOwnership DEF Ownership
  <2> QED
    BY <2>1 DEF ToSet
<1>5. /\ k'.wait = k.wait /\ \A u \in Threads \ {t} : k'.prio[u] = k.prio[u]
      /\ k'.prio[t] <= k.prio[t] /\ k'.prio[t] \in {k.prio[t], ceil[m]} /\ k'.prio[t] \in Int
  <2>1. k.prio[t] \in Int /\ k.prio[t] \in Prio /\ ceil[m] \in Int /\ ceil[m] \in Levels
    BY <1>2, <1>3, PrioInt, LevelInt DEF KernelState
  <2>2. CASE ceil[m] < k.prio[t]
    <3>1. ceil[m] \in Prio
      BY <2>1, <2>2, PrioAssumption DEF Levels, Lowest, Prio
    <3>2. KernelOK(k, {}) /\ t \in Threads \ {} /\ k' = ChangePriority(k, t, ceil[m])
      BY <1>1, <1>2, <1>3, <2>2
    <3>3. k'.wait = k.wait
      BY <3>1, <3>2, ChangeWait
    <3>4. k'.prio[t] = ceil[m] /\ \A u \in Threads \ {t} : k'.prio[u] = k.prio[u]
      BY <3>1, <3>2, ChangePrio
    <3> QED
      BY <2>1, <2>2, <3>3, <3>4
  <2>3. CASE ~ (ceil[m] < k.prio[t])
    BY <1>1, <2>1, <2>3
  <2> QED
    BY <2>2, <2>3
<1>6. /\ owner'[m] = t /\ (\A n \in Mutexes \ {m} : owner'[n] = owner[n])
      /\ mprio'[m] = Lowest /\ (\A n \in Mutexes \ {m} : mprio'[n] = mprio[n])
      /\ taken'[t] = taken[t] \cup {m} /\ (\A u \in Threads \ {t} : taken'[u] = taken[u])
      /\ \A u \in Threads : m \notin taken[u] /\ taken[u] \subseteq Mutexes
  BY <1>1, <1>2, <1>3, ThreadsAssumption DEF Setting
<1>7. /\ \A n \in Mutexes : Sorted(k'.wait[n], k'.prio)
      /\ \A n \in Mutexes : \A u \in ToSet(k'.wait[n]) : k'.prio[u] = k.prio[u]
  <2>1. \A n \in Mutexes : Sorted(k.wait[n], k.prio)
    BY <1>2, InOrderAll DEF PrioInv
  <2>2. /\ KernelOK(k, {}) /\ \A n \in Mutexes : t \notin ToSet(k.wait[n])
        /\ k'.wait = k.wait /\ \A u \in Threads \ {t} : k'.prio[u] = k.prio[u]
    BY <1>2, <1>3, <1>5
  <2> DEFINE y == k'
  <2>3. y.wait = k.wait /\ \A u \in Threads \ {t} : y.prio[u] = k.prio[u]
    BY <2>2
  <2> HIDE DEF y
  <2>4. /\ \A n \in Mutexes : Sorted(y.wait[n], y.prio)
        /\ \A n \in Mutexes : \A u \in ToSet(y.wait[n]) : y.prio[u] = k.prio[u]
    BY <2>1, <2>2, <2>3, RunnerOrder
  <2> QED
    BY <2>4 DEF y
<1>8. InOrder(k, NoThread)'
  <2>1. \A n \in Mutexes : Unlinked(k'.wait[n], NoThread) = k'.wait[n]
    BY <1>2, <1>5, WaitLinks
  <2> QED
    BY <1>7, <2>1 DEF InOrder
<1>9. Reported(k, mprio, NoThread)'
  BY <1>4, <1>5, <1>6, <1>7 DEF PrioInv, Reported
<1>10. Raised(k, mprio, NoThread)'
  <2> SUFFICES ASSUME NEW n \in Mutexes, owner'[n] \in Threads PROVE k'.prio[owner'[n]] <= mprio'[n]
    BY DEF Raised
  <2>1. CASE n = m
    <3>1. k.prio[t] \in Int /\ k.prio[t] < Lowest /\ Lowest \in Int
      BY <1>2, <1>3, PrioInt, PrioAssumption DEF Lowest
    <3> QED
      BY <1>5, <1>6, <2>1, <3>1
  <2>2. CASE n # m
    <3>1. /\ owner'[n] = owner[n] /\ mprio'[n] = mprio[n] /\ owner[n] \in Threads
          /\ k.prio[owner[n]] <= mprio[n]
      BY <1>6, <2>2, ThreadsAssumption DEF PrioInv, Raised
    <3>2. k.prio[owner[n]] \in Int /\ mprio[n] \in Int
      BY <1>2, <3>1, PrioInt, LevelInt
    <3>3. CASE owner[n] = t
      BY <1>5, <3>1, <3>2, <3>3
    <3>4. CASE owner[n] # t
      BY <1>5, <3>1, <3>4
    <3> QED
      BY <3>3, <3>4
  <2> QED
    BY <2>1, <2>2
<1>11. ASSUME ~ lapsed' PROVE Claimed(k, mprio, ceil, NoThread)'
  <2> SUFFICES ASSUME NEW u \in Threads PROVE k'.prio[u] \in Claims(u, taken'[u], mprio', ceil')
    BY DEF Claimed, Claims
  <2>1. k.prio[u] \in Claims(u, taken[u], mprio, ceil)
    BY <1>1, <1>11, ThreadsAssumption DEF PrioInv, Claimed
  <2>2. \A n \in taken[u] : mprio'[n] = mprio[n] /\ ceil'[n] = ceil[n]
    BY <1>1, <1>6
  <2>3. k.prio[u] \in Claims(u, taken[u], mprio', ceil')
    BY <2>1, <2>2 DEF Claims
  <2>4. CASE u # t
    BY <1>5, <1>6, <2>3, <2>4
  <2>5. CASE u = t
    <3>1. /\ Claims(t, taken[t], mprio', ceil') \subseteq Claims(t, taken'[t], mprio', ceil')
          /\ ceil[m] \in Claims(t, taken'[t], mprio', ceil')
      BY <1>1, <1>6 DEF Claims
    <3> QED
      BY <1>5, <2>3, <2>5, <3>1
  <2> QED
    BY <2>4, <2>5
<1>12. LapseInv'
  BY <1>1 DEF PrioInv, LapseInv
<1> QED
  BY <1>8, <1>9, <1>10, <1>11, <1>12 DEF PrioInv

LEMMA TakeWaitPrio ==
  ASSUME MutexInv, PrioInv, NEW t, NEW m \in Mutexes, TakeWait(t, m)
  PROVE  PrioInv'
<1>1. PICK p, x, pn, mp, s, r :
        /\ p = k.prio[t] /\ x = IpcListSuspend(k, t, m) /\ pn = [pend EXCEPT ![t] = m]
        /\ mp = [mprio EXCEPT ![m] = IF p < mprio[m] THEN p ELSE mprio[m]]
        /\ s = Propagation(x, mp, ceil, pn)
        /\ r = IF p < mprio[m] /\ p < x.prio[owner[m]] THEN UpdatePriority(s, owner[m], p) ELSE s
  OBVIOUS
<1>2. /\ Runs(t) /\ owner[m] \notin {NoThread, t} /\ pend' = pn /\ k' = r.k /\ mprio' = r.mp
      /\ r.at = NoThread /\ pc' = [pc EXCEPT ![t] = <<"sched", m>>]
      /\ err' = err /\ owner' = owner /\ ceil' = ceil /\ taken' = taken /\ lapsed' = lapsed
  BY <1>1 DEF TakeWait, Call
<1>3. /\ t \in Threads \ {Idle} /\ k.stat[t] = "RUNNING" /\ \A n \in Mutexes : t \notin ToSet(k.wait[n])
  BY <1>2, RunsLive, LiveFacts DEF MutexInv, Mutexes
<1>4. /\ Setting(k, pend) /\ KernelOK(k, {}) /\ k \in KernelState
      /\ mprio \in [Mutexes -> Levels] /\ ceil \in [Mutexes -> Levels]
      /\ pend \in [Threads -> Mutexes \cup {NoMutex}]
      /\ taken \in [Threads -> SUBSET Mutexes] /\ owner \in [Mutexes -> ThreadOrNull]
  BY SettingNow DEF Setting
<1>5. PICK o : o = owner[m]
  OBVIOUS
<1>6. o \in Threads /\ o # t /\ m \in Waits /\ m \in PrioWaits
  BY <1>2, <1>4, <1>5, MutexAssumption DEF ThreadOrNull, Mutexes
<1>7. BlockOK(x, timed \cup {t}, pc') /\ x.prio = k.prio /\ Joined(k, x, t, m)
  <2>1. CallsWith(pc, pc', t, <<"sched", m>>)
    BY <1>2, <1>3 DEF CallsWith, MutexInv, MutexTypes
  <2> QED
    BY <1>1, <1>3, <1>6, <2>1, BlockWait DEF MutexInv, BlockInv
<1>8. CurOK(x) /\ KernelOK(x, {}) /\ x \in KernelState
  BY <1>7, BlockCur DEF KernelOK
<1>9. /\ \A n \in Mutexes \ {m} : x.wait[n] = k.wait[n]
      /\ ToSet(x.wait[m]) = ToSet(k.wait[m]) \cup {t}
  BY <1>7 DEF Joined, Mutexes
<1>10. Setting(x, pn)
  <2>1. x.stat = [k.stat EXCEPT ![t] = "SUSPEND"]
    <3>1. KernelOK(k, {}) /\ t \in Threads \ {}
      BY <1>3, <1>4
    <3> QED
      BY <1>1, <1>3, <1>6, <3>1, IpcListSuspendOK DEF Restat
  <2>2. PendOK(x, pn)
    BY <1>1, <1>3, <1>5, <1>6, <1>7, <2>1, PendJoined
  <2>3. pn[t] = m /\ \A u \in Threads \ {t} : pn[u] = pend[u]
    BY <1>1, <1>3, <1>4
  <2>4. ASSUME NEW n \in Mutexes, NEW u \in ToSet(x.wait[n]) PROVE pn[u] = n
    <3>1. CASE u = t
      BY <1>3, <1>9, <2>3, <2>4, <3>1
    <3>2. CASE u # t
      <4>1. u \in ToSet(k.wait[n]) /\ u \in Threads
        BY <1>4, <1>9, <2>4, <3>2, WaitLinks
      <4> QED
        BY <1>4, <2>3, <3>2, <4>1 DEF Setting
    <3> QED
      BY <3>1, <3>2
  <2> QED
    BY <1>4, <1>8, <2>2, <2>4 DEF Setting
<1>11. \A n \in Mutexes : Sorted(x.wait[n], x.prio)
  <2>1. \A n \in Mutexes : Sorted(k.wait[n], k.prio)
    BY <1>4, InOrderAll DEF PrioInv
  <2>2. PICK I : I = {i \in DOMAIN k.wait[m] : k.prio[t] < k.prio[k.wait[m][i]]}
    OBVIOUS
  <2>3. x.wait[m] = InsertBeforeFirst(k.wait[m], I, t)
    <3>1. KernelOK(k, {}) /\ t \in Threads \ {}
      BY <1>3, <1>4
    <3>2. IpcListSuspend(k, t, m).wait[m] =
            InsertBeforeFirst(k.wait[m],
              IF m \in PrioWaits THEN {i \in DOMAIN k.wait[m] : k.prio[t] < k.prio[k.wait[m][i]]}
                                 ELSE {}, t)
      BY <1>3, <1>6, <3>1, SuspendWait
    <3> QED
      BY <1>1, <1>6, <2>2, <3>2
  <2>4. k.prio \in [Threads -> Int] /\ k.wait[m] \in Seq(Threads) /\ t \in Threads
    BY <1>3, <1>4, PrioInt, WaitLinks
  <2>5. Sorted(InsertBeforeFirst(k.wait[m], I, t), k.prio)
    BY <2>1, <2>2, <2>4, SortedInsert
  <2> QED
    BY <1>7, <1>9, <2>1, <2>3, <2>5
<1>12. p \in Prio /\ p \in Int /\ k.prio[o] \in Int /\ mprio[m] \in Int
  BY <1>1, <1>3, <1>4, <1>6, PrioInt, LevelInt DEF KernelState
<1>13. /\ mp \in [Mutexes -> Levels] /\ mp[m] = (IF p < mprio[m] THEN p ELSE mprio[m])
       /\ \A n \in Mutexes \ {m} : mp[n] = mprio[n]
  BY <1>1, <1>4, <1>12 DEF Levels
<1>14. /\ LoopOK(x, s) /\ s.k = x /\ s.mp = mp /\ s.ceil = ceil /\ s.pend = pn /\ s.at = NoThread
  <2>1. s = Propagation(x, mp, ceil, pn) /\ pn \in [Threads -> Mutexes \cup {NoMutex}]
    BY <1>1, <1>3, <1>4
  <2>2. s.at = NoThread
    BY <2>1 DEF Propagation
  <2> QED
    BY <1>4, <1>8, <1>13, <2>1, <2>2, PropagationOK
<1>15. InOrder(x, NoThread) /\ Reported(x, mp, NoThread)
  <2>1. ASSUME NEW n \in Mutexes, NEW u \in ToSet(x.wait[n]) PROVE mp[n] <= x.prio[u]
    <3>1. CASE u = t
      BY <1>1, <1>3, <1>7, <1>9, <1>12, <1>13, <2>1, <3>1
    <3>2. CASE u # t
      <4>1. u \in ToSet(k.wait[n]) /\ u \in Threads \ {NoThread}
        BY <1>4, <1>9, <2>1, <3>2, WaitLinks, ThreadsAssumption
      <4>2. mprio[n] <= k.prio[u]
        BY <4>1 DEF PrioInv, Reported
      <4>3. mp[n] <= mprio[n] /\ mp[n] \in Int /\ mprio[n] \in Int /\ k.prio[u] \in Int
        BY <1>4, <1>12, <1>13, <4>1, LevelInt, PrioInt
      <4> QED
        BY <1>7, <4>2, <4>3
    <3> QED
      BY <3>1, <3>2
  <2>2. Reported(x, mp, NoThread)
    BY <2>1 DEF Reported
  <2>3. InOrder(x, NoThread)
    BY <1>8, <1>11, InOrderAll
  <2> QED
    BY <2>2, <2>3
<1>16. Raised(x, mp, o)
  <2> SUFFICES ASSUME NEW n \in Mutexes, owner[n] \in Threads \ {o} PROVE x.prio[owner[n]] <= mp[n]
    BY DEF Raised
  <2>1. n # m /\ owner[n] # NoThread
    BY <1>5, ThreadsAssumption
  <2> QED
    BY <1>7, <1>13, <2>1 DEF PrioInv, Raised
<1>17. \A n \in Mutexes \ {m} : owner[n] = o => k.prio[o] <= mprio[n]
  BY <1>6, ThreadsAssumption DEF PrioInv, Raised
<1>18. ASSUME ~ lapsed PROVE Claimed(x, mp, ceil, o)
  <2> SUFFICES ASSUME NEW u \in Threads \ {o} PROVE x.prio[u] \in Claims(u, taken[u], mp, ceil)
    BY DEF Claimed
  <2>1. m \notin taken[u] /\ taken[u] \subseteq Mutexes
    BY <1>4, <1>5 DEF Setting
  <2>2. \A n \in taken[u] : mp[n] = mprio[n]
    BY <1>13, <2>1
  <2>3. k.prio[u] \in Claims(u, taken[u], mprio, ceil)
    BY <1>18, ThreadsAssumption DEF PrioInv, Claimed
  <2> QED
    BY <1>7, <2>2, <2>3 DEF Claims
<1>19. LapseInv'
  BY <1>2 DEF PrioInv, LapseInv
<1>20. m \in taken[o] /\ taken[o] \subseteq Mutexes /\ x.prio[o] = k.prio[o]
  BY <1>4, <1>5, <1>6, <1>7 DEF Setting
<1>21. CASE p < mprio[m] /\ p < x.prio[owner[m]]
  <2>1. r = UpdatePriority(s, o, p) /\ p < k.prio[o] /\ mp[m] = p
    BY <1>1, <1>5, <1>13, <1>20, <1>21
  <2>2. \A n \in Mutexes : owner[n] = o => p <= mp[n]
    <3> SUFFICES ASSUME NEW n \in Mutexes, owner[n] = o PROVE p <= mp[n]
      OBVIOUS
    <3>1. CASE n = m
      BY <1>12, <2>1, <3>1
    <3>2. CASE n # m
      BY <1>4, <1>12, <1>13, <1>17, <2>1, <3>2, LevelInt
    <3> QED
      BY <3>1, <3>2
  <2>3. p \in Claims(o, taken[o], mp, ceil)
    BY <1>20, <2>1 DEF Claims
  <2>4. /\ Setting(x, s.pend) /\ InOrder(s.k, NoThread) /\ Reported(s.k, s.mp, NoThread)
        /\ Raised(s.k, s.mp, o) /\ \A n \in Mutexes : owner[n] = o => p <= s.mp[n]
    BY <1>10, <1>14, <1>15, <1>16, <2>2
  <2>5. /\ Ordered(r) /\ r.ceil = s.ceil
        /\ Claimed(s.k, s.mp, s.ceil, o) /\ p \in Claims(o, taken[o], s.mp, s.ceil) => HasClaims(r)
    BY <1>6, <1>12, <1>14, <2>1, <2>4, UpdatePriorityOrder
  <2>6. ~ lapsed' => HasClaims(r)
    BY <1>2, <1>14, <1>18, <2>3, <2>5
  <2> QED
    BY <1>2, <1>14, <1>19, <2>5, <2>6, PrioFrom
<1>22. CASE ~ (p < mprio[m] /\ p < x.prio[owner[m]])
  <2>1. r = s
    BY <1>1, <1>22
  <2>2. k.prio[o] <= mprio[m]
    BY <1>5, <1>6, ThreadsAssumption DEF PrioInv, Raised
  <2>3. k.prio[o] <= mp[m] /\ (mp[m] # mprio[m] => k.prio[o] < mprio[m])
    BY <1>5, <1>12, <1>13, <1>20, <1>22, <2>2
  <2>4. Raised(x, mp, NoThread)
    <3> SUFFICES ASSUME NEW n \in Mutexes, owner[n] \in Threads PROVE x.prio[owner[n]] <= mp[n]
      BY DEF Raised
    <3>1. CASE owner[n] # o
      BY <1>16, <3>1 DEF Raised
    <3>2. CASE owner[n] = o
      BY <1>13, <1>17, <1>20, <2>3, <3>2
    <3> QED
      BY <3>1, <3>2
  <2>5. ASSUME ~ lapsed PROVE x.prio[o] \in Claims(o, taken[o], mp, ceil)
    <3>1. k.prio[o] \in Claims(o, taken[o], mprio, ceil)
      BY <1>6, <2>5, ThreadsAssumption DEF PrioInv, Claimed
    <3>2. CASE \E n \in taken[o] : k.prio[o] = mprio[n]
      <4>1. PICK n \in taken[o] : k.prio[o] = mprio[n]
        BY <3>2
      <4>2. mp[n] = mprio[n]
        <5>1. CASE n = m
          BY <1>12, <2>3, <4>1, <5>1
        <5>2. CASE n # m
          BY <1>13, <1>20, <5>2
        <5> QED
          BY <5>1, <5>2
      <4> QED
        BY <1>20, <4>1, <4>2 DEF Claims
    <3>3. CASE ~ \E n \in taken[o] : k.prio[o] = mprio[n]
      BY <1>20, <3>1, <3>3 DEF Claims
    <3> QED
      BY <3>2, <3>3
  <2>6. ~ lapsed' => HasClaims(s)
    BY <1>2, <1>14, <1>18, <2>5 DEF HasClaims, Claimed
  <2>7. Ordered(s)
    BY <1>14, <1>15, <2>4 DEF Ordered
  <2> QED
    BY <1>2, <1>14, <1>19, <2>1, <2>6, <2>7, PrioFrom
<1> QED
  BY <1>21, <1>22

LEMMA ReleaseLastPrio ==
  ASSUME MutexInv, PrioInv, NEW t, NEW m \in Mutexes, ReleaseLast(t, m)
  PROVE  PrioInv'
<1>1. PICK own, next, k1, k2 :
        /\ own = MutexPriority(t, taken[t] \ {m}, mprio, ceil) /\ next = NextOwner(m)
        /\ k1 = IF Drops(t, m) THEN ChangePriority(k, t, own) ELSE k
        /\ k2 = IF next # NoThread THEN Resume(k1, next) ELSE k1
  OBVIOUS
<1>2. /\ Runs(t) /\ owner[m] = t /\ k' = k2
      /\ mprio' = [mprio EXCEPT ![m] = WaitersPriority(k2, m)]
      /\ owner' = [owner EXCEPT ![m] = next] /\ taken' = HandOver(t, m, next)
      /\ err' = err /\ ceil' = ceil /\ lapsed' = lapsed
  BY <1>1 DEF ReleaseLast
<1>3. t \in Threads /\ k.stat[t] = "RUNNING" /\ \A n \in Mutexes : t \notin ToSet(k.wait[n])
  BY <1>2, RunsLive, LiveFacts DEF MutexInv, Mutexes
<1>4. /\ Setting(k, pend) /\ KernelOK(k, {}) /\ k \in KernelState
      /\ mprio \in [Mutexes -> Levels] /\ ceil \in [Mutexes -> Levels]
      /\ taken \in [Threads -> SUBSET Mutexes] /\ owner \in [Mutexes -> ThreadOrNull]
  BY SettingNow DEF Setting
<1>5. \A n \in Mutexes : Sorted(k.wait[n], k.prio)
  BY <1>4, InOrderAll DEF PrioInv
<1>6. /\ next # NoThread => /\ next \in ToSet(k.wait[m]) /\ next \in Threads /\ next # t
                            /\ k.prio[next] = WaitersPriority(k, m)
      /\ next = NoThread => k.wait[m] = << >>
  <2>1. CASE k.wait[m] = << >>
    BY <1>1, <2>1 DEF NextOwner
  <2>2. CASE k.wait[m] # << >>
    <3>1. next = Head(k.wait[m]) /\ k.prio[next] = WaitersPriority(k, m)
      BY <1>1, <2>2 DEF NextOwner, WaitersPriority
    <3>2. next \in ToSet(k.wait[m])
      BY <1>4, <2>2, <3>1, WaitLinks, LinksFacts
    <3>3. next \in Threads
      BY <1>4, <3>2, WaitLinks
    <3> QED
      BY <1>3, <3>1, <3>2, <3>3, ThreadsAssumption
  <2> QED
    BY <2>1, <2>2
<1>7. /\ own \in Prio /\ own \in Claims(t, taken[t] \ {m}, mprio, ceil)
      /\ \A n \in taken[t] \ {m} : own <= mprio[n]
  <2>1. taken[t] \ {m} \in SUBSET Mutexes
    BY <1>3, <1>4
  <2>2. own = MutexPriority(t, taken[t] \ {m}, mprio, ceil)
    BY <1>1
  <2>3. own \in Prio
    BY <1>3, <1>4, <2>1, <2>2, PriorityTyped
  <2>4. own \in Claims(t, taken[t] \ {m}, mprio, ceil) /\ \A n \in taken[t] \ {m} : own <= mprio[n]
    BY <1>3, <1>4, <2>1, <2>2, PriorityLeast
  <2> QED
    BY <2>3, <2>4
<1>8. /\ KernelOK(k1, {}) /\ k1.stat = k.stat /\ k1.wait = k.wait
      /\ \A u \in Threads \ {t} : k1.prio[u] = k.prio[u]
      /\ IF Drops(t, m) THEN k1.prio[t] = own ELSE k1.prio[t] = k.prio[t]
  <2>1. CASE ~ Drops(t, m)
    BY <1>1, <1>4, <2>1
  <2>2. CASE Drops(t, m)
    <3>1. KernelOK(k, {}) /\ t \in Threads \ {} /\ k1 = ChangePriority(k, t, own) /\ k.stat[t] # "READY"
      BY <1>1, <1>3, <1>4, <2>2
    <3>2. SameWaiters(k, k1)
      BY <1>3, <1>7, <3>1, ChangeSame
    <3>3. k1.wait = k.wait
      BY <1>7, <3>1, ChangeWait
    <3>4. k1.prio[t] = own /\ \A u \in Threads \ {t} : k1.prio[u] = k.prio[u]
      BY <1>7, <3>1, ChangePrio
    <3> QED
      BY <2>2, <3>2, <3>3, <3>4 DEF SameWaiters, SameStats
  <2> QED
    BY <2>1, <2>2
<1>9. /\ \A n \in Mutexes : Sorted(k1.wait[n], k1.prio)
      /\ \A n \in Mutexes : \A u \in ToSet(k1.wait[n]) : k1.prio[u] = k.prio[u]
  <2>1. /\ KernelOK(k, {}) /\ k1.wait = k.wait /\ (\A u \in Threads \ {t} : k1.prio[u] = k.prio[u])
        /\ \A n \in Mutexes : t \notin ToSet(k.wait[n])
    BY <1>3, <1>4, <1>8
  <2> QED
    BY <1>5, <2>1, RunnerOrder
<1>10. /\ KernelOK(k2, {}) /\ k2.prio = k1.prio
       /\ \A n \in Mutexes : Sorted(k2.wait[n], k2.prio) /\ ToSet(k2.wait[n]) \subseteq ToSet(k.wait[n])
  <2>1. CASE next = NoThread
    BY <1>1, <1>8, <1>9, <2>1
  <2>2. CASE next # NoThread
    <3>1. k1.stat[next] = "SUSPEND" /\ next \in Threads /\ k2 = Resume(k1, next) /\ KernelOK(k1, {})
      BY <1>1, <1>4, <1>6, <1>8, <2>2 DEF KernelOK, LinksOK, Mutexes
    <3>2. KernelOK(k2, {}) /\ k2.prio = k1.prio
      BY <3>1, ResumedOne DEF Resumed
    <3>3. ASSUME NEW n \in Mutexes
          PROVE  Sorted(k2.wait[n], k2.prio) /\ ToSet(k2.wait[n]) \subseteq ToSet(k.wait[n])
      <4>1. k2.wait[n] = Unlinked(k1.wait[n], next)
        BY <3>1, ResumeWait DEF Mutexes
      <4>2. Links(k1.wait[n], Threads, ToSet(k1.wait[n]))
        BY <1>8, WaitLinks
      <4>3. Sorted(Unlinked(k1.wait[n], next), k1.prio)
        BY <1>9, <4>2, LinksUnlinked
      <4>4. ToSet(Unlinked(k1.wait[n], next)) = ToSet(k1.wait[n]) \ {next}
        BY <4>2, LinksUnlinked DEF Links
      <4> QED
        BY <1>8, <3>2, <4>1, <4>3, <4>4
    <3> QED
      BY <3>2, <3>3
  <2> QED
    BY <2>1, <2>2
<1>11. \A n \in Mutexes : \A u \in ToSet(k2.wait[n]) : k2.prio[u] = k.prio[u] /\ u \in Threads \ {NoThread}
  BY <1>4, <1>8, <1>9, <1>10, WaitLinks, ThreadsAssumption
<1>12. /\ owner'[m] = next /\ (\A n \in Mutexes \ {m} : owner'[n] = owner[n])
       /\ mprio'[m] = WaitersPriority(k2, m) /\ (\A n \in Mutexes \ {m} : mprio'[n] = mprio[n])
       /\ mprio'[m] \in Int
  <2>1. WaitersPriority(k2, m) \in Levels
    BY <1>10, WaitersTyped
  <2>2. \A q \in Levels : q \in Int
    BY PrioAssumption DEF Levels, Lowest, Prio
  <2> QED
    BY <1>2, <1>4, <2>1, <2>2
<1>13. InOrder(k, NoThread)'
  <2>1. InOrder(k2, NoThread)
    BY <1>10, InOrderAll
  <2> QED
    BY <1>2, <2>1 DEF InOrder
<1>14. Reported(k, mprio, NoThread)'
  <2> SUFFICES ASSUME NEW n \in Mutexes, NEW u \in ToSet(k2.wait[n]) PROVE mprio'[n] <= k2.prio[u]
    BY <1>2 DEF Reported
  <2>1. CASE n = m
    BY <1>10, <1>12, <2>1, FirstLeast
  <2>2. CASE n # m
    <3>1. u \in ToSet(k.wait[n]) \ {NoThread}
      BY <1>10, <1>11
    <3> QED
      BY <1>11, <1>12, <2>2, <3>1 DEF PrioInv, Reported
  <2> QED
    BY <2>1, <2>2
<1>15. Raised(k, mprio, NoThread)'
  <2> SUFFICES ASSUME NEW n \in Mutexes, owner'[n] \in Threads PROVE k2.prio[owner'[n]] <= mprio'[n]
    BY <1>2 DEF Raised
  <2>1. CASE n = m
    <3>1. owner'[n] = next /\ next \in Threads \ {t} /\ next # NoThread /\ k.prio[next] = WaitersPriority(k, m)
      BY <1>6, <1>12, <2>1, ThreadsAssumption
    <3>2. k2.prio[next] = k.prio[next] /\ k.prio[next] \in Int /\ k.prio[next] < Lowest /\ Lowest \in Int
      BY <1>4, <1>8, <1>10, <3>1, PrioInt, PrioAssumption DEF Lowest
    <3>3. CASE k2.wait[m] = << >>
      BY <1>12, <2>1, <3>1, <3>2, <3>3 DEF WaitersPriority
    <3>4. CASE k2.wait[m] # << >>
      <4>1. PICK u : u = Head(k2.wait[m])
        OBVIOUS
      <4>2. u \in ToSet(k2.wait[m])
        BY <1>10, <3>4, <4>1, WaitLinks, LinksFacts
      <4>3. u \in ToSet(k.wait[m]) /\ k2.prio[u] = k.prio[u]
        BY <1>10, <1>11, <4>2
      <4>4. WaitersPriority(k, m) <= k.prio[u]
        BY <1>4, <1>5, <4>3, FirstLeast
      <4>5. WaitersPriority(k2, m) = k2.prio[u]
        BY <3>4, <4>1 DEF WaitersPriority
      <4> QED
        BY <1>12, <2>1, <3>1, <3>2, <4>3, <4>4, <4>5
    <3> QED
      BY <3>3, <3>4
  <2>2. CASE n # m
    <3>1. /\ owner'[n] = owner[n] /\ mprio'[n] = mprio[n] /\ owner[n] \in Threads
          /\ k.prio[owner[n]] <= mprio[n]
      BY <1>12, <2>2, ThreadsAssumption DEF PrioInv, Raised
    <3>2. CASE owner[n] # t
      BY <1>8, <1>10, <3>1, <3>2
    <3>3. CASE owner[n] = t
      <4>1. n \in taken[t] \ {m}
        BY <1>3, <1>4, <2>2, <3>3 DEF Setting
      <4> QED
        BY <1>7, <1>8, <1>10, <3>1, <3>3, <4>1
    <3> QED
      BY <3>2, <3>3
  <2> QED
    BY <2>1, <2>2
<1>16. ASSUME ~ lapsed' PROVE Claimed(k, mprio, ceil, NoThread)'
  <2> SUFFICES ASSUME NEW u \in Threads PROVE k2.prio[u] \in Claims(u, taken'[u], mprio', ceil)
    BY <1>2 DEF Claimed, Claims
  <2>1. k.prio[u] \in Claims(u, taken[u], mprio, ceil)
    BY <1>2, <1>16, ThreadsAssumption DEF PrioInv, Claimed
  <2>2. taken'[u] = CASE u = t    -> taken[u] \ {m}
                      [] u = next -> taken[u] \cup {m}
                      [] OTHER    -> taken[u]
    BY <1>2, Zenon DEF HandOver
  <2>3. taken[u] \subseteq Mutexes /\ (u # t => m \notin taken[u])
    BY <1>2, <1>4 DEF Setting
  <2>4. \A n \in taken[u] \ {m} : mprio'[n] = mprio[n]
    BY <1>12, <2>3
  <2>5. CASE u = t
    <3>1. taken'[t] = taken[t] \ {m}
      BY <1>3, <1>6, <2>2, <2>5, ThreadsAssumption
    <3>2. k2.prio[t] \in Claims(t, taken[t] \ {m}, mprio, ceil)
      <4>1. CASE Drops(t, m)
        BY <1>7, <1>8, <1>10, <4>1
      <4>2. CASE ~ Drops(t, m)
        <5>1. k2.prio[t] = k.prio[t] /\ k.prio[t] # mprio[m] /\ ceil[m] = Lowest
          BY <1>8, <1>10, <4>2 DEF Drops
        <5>2. k.prio[t] # Lowest
          <6>1. k.prio[t] \in Int /\ k.prio[t] < Lowest /\ Lowest \in Int
            BY <1>3, <1>4, PrioInt, PrioAssumption DEF Lowest
          <6> QED
            BY <6>1
        <5> QED
          BY <2>1, <2>5, <5>1, <5>2 DEF Claims
      <4> QED
        BY <4>1, <4>2
    <3> QED
      BY <2>4, <2>5, <3>1, <3>2 DEF Claims
  <2>6. CASE u # t
    <3>1. k2.prio[u] = k.prio[u] /\ taken[u] \subseteq taken'[u]
      BY <1>8, <1>10, <2>2, <2>6
    <3>2. \A n \in taken[u] : mprio'[n] = mprio[n]
      BY <2>3, <2>4, <2>6
    <3>3. k.prio[u] \in Claims(u, taken[u], mprio', ceil)
      BY <2>1, <3>2 DEF Claims
    <3> QED
      BY <3>1, <3>3 DEF Claims
  <2> QED
    BY <2>5, <2>6
<1>17. LapseInv'
  BY <1>2 DEF PrioInv, LapseInv
<1> QED
  BY <1>13, <1>14, <1>15, <1>16, <1>17 DEF PrioInv

LEMMA PrioStart ==
  ASSUME Init
  PROVE  PrioInv
<1>1. /\ KernelOK(k, {}) /\ k.prio = BasePrio /\ err = [t \in Threads |-> "EOK"]
      /\ \A m \in Mutexes : k.wait[m] = << >>
  BY BlockingStart DEF Init, BlockingInit, BlockInv, BlockOK, Mutexes
<1>2. owner = [m \in Mutexes |-> NoThread]
  BY DEF Init
<1>3. InOrder(k, NoThread)
  <2>1. \A m \in Mutexes : Sorted(k.wait[m], k.prio)
    BY <1>1 DEF Sorted
  <2> QED
    BY <1>1, <2>1, InOrderAll
<1>4. Reported(k, mprio, NoThread)
  BY <1>1, CallFacts DEF Reported
<1>5. Raised(k, mprio, NoThread)
  BY <1>2, ThreadsAssumption DEF Raised
<1>6. Claimed(k, mprio, ceil, NoThread) /\ LapseInv
  BY <1>1 DEF Claimed, Claims, LapseInv
<1> QED
  BY <1>3, <1>4, <1>5, <1>6 DEF PrioInv

LEMMA PrioNext ==
  ASSUME MutexInv, PrioInv, [Next]_vars
  PROVE  PrioInv'
<1>1. CASE Next
  <2>1. CASE \E t \in Threads, m \in Mutexes :
               \/ TakeAgain(t, m) \/ TakeFree(t, m) \/ TakeWait(t, m) \/ TakeReturn(t, m)
               \/ ReleaseInner(t, m) \/ ReleaseLast(t, m)
               \/ \E p \in Ceilings : SetPrioCeiling(t, m, p)
    <3>1. PICK t \in Threads, m \in Mutexes :
               \/ TakeAgain(t, m) \/ TakeFree(t, m) \/ TakeWait(t, m) \/ TakeReturn(t, m)
               \/ ReleaseInner(t, m) \/ ReleaseLast(t, m)
               \/ \E p \in Ceilings : SetPrioCeiling(t, m, p)
      BY <2>1
    <3>2. CASE TakeAgain(t, m) \/ ReleaseInner(t, m)
      <4>1. k' = k /\ UNCHANGED <<mprio, ceil, owner, taken, lapsed, err>>
        BY <3>2 DEF TakeAgain, ReleaseInner
      <4> QED
        BY <4>1, StillPrio
    <3> QED
      BY <3>1, <3>2, TakeFreePrio, TakeWaitPrio, TakeReturnPrio, ReleaseLastPrio, CeilingPrio
  <2>2. CASE \E t \in Threads : (Sleep(t) \/ DoSchedule(t)) /\ UNCHANGED <<mutexVars, lapsed>>
    BY <2>2, ThreadPrio
  <2>3. CASE \E u \in Threads : Expire(u)
    BY <2>3, ExpirePrio
  <2>4. CASE Slice /\ UNCHANGED <<mutexVars, lapsed>>
    BY <2>4, ThreadPrio
  <2> QED
    BY <1>1, <2>1, <2>2, <2>3, <2>4 DEF Next
<1>2. CASE UNCHANGED vars
  <2>1. k' = k /\ UNCHANGED <<mprio, ceil, owner, taken, lapsed, err>>
    BY <1>2 DEF vars
  <2> QED
    BY <2>1, StillPrio
<1> QED
  BY <1>1, <1>2

\* The order of priorities gives the properties.
LEMMA InvInherited ==
  ASSUME MutexInv, PrioInv
  PROVE  WaitersSorted /\ Inherited
<1>1. KernelOK(k, {}) /\ k \in KernelState /\ mprio \in [Mutexes -> Levels] /\ owner \in [Mutexes -> ThreadOrNull]
  BY SettingNow DEF Setting
<1>2. WaitersSorted
  <2>1. \A m \in Mutexes : Sorted(k.wait[m], k.prio)
    BY <1>1, InOrderAll DEF PrioInv
  <2> QED
    BY <2>1 DEF Sorted, WaitersSorted
<1>3. Inherited
  <2> SUFFICES ASSUME NEW m \in Mutexes, NEW t \in ToSet(k.wait[m]) PROVE k.prio[owner[m]] <= k.prio[t]
    BY DEF Inherited
  <2>1. k.wait[m] # << >>
    BY CallFacts
  <2>2. owner[m] \in Threads /\ t \in Threads
    BY <1>1, <2>1, InvOwnership, WaitLinks DEF Ownership, ThreadOrNull
  <2>3. k.prio[owner[m]] <= mprio[m] /\ mprio[m] <= k.prio[t]
    BY <2>2, ThreadsAssumption DEF PrioInv, Raised, Reported
  <2>4. k.prio[owner[m]] \in Int /\ mprio[m] \in Int /\ k.prio[t] \in Int
    BY <1>1, <2>2, LevelInt, PrioInt
  <2> QED
    BY <2>3, <2>4
<1> QED
  BY <1>2, <1>3

LEMMA InvRestored ==
  ASSUME PrioInv
  PROVE  RestoredWithoutTimeout
<1> SUFFICES ASSUME ~ lapsed, NEW t \in Threads, taken[t] = {} PROVE k.prio[t] = BasePrio[t]
  BY DEF RestoredWithoutTimeout, PriorityRestored
<1>1. k.prio[t] \in Claims(t, taken[t], mprio, ceil)
  BY ThreadsAssumption DEF PrioInv, Claimed
<1> QED
  BY <1>1 DEF Claims

-----------------------------------------------------------------------------
(* Theorems *)

\* The inductive invariant of the mutexes.
THEOREM MutexInvariance == Spec => []MutexInv
  BY MutexStart, MutexNext, PTL DEF Spec

\* Every variable has its type: above all the loop of _thread_update_priority
\* leaves priorities in range and lists well formed, for chains of any length.
THEOREM MutexTypeCorrect == Spec => []TypeOK
<1>1. MutexInv => TypeOK
  BY InvTypes
<1> QED
  BY <1>1, MutexInvariance, PTL

\* hold, the taken lists, the waiters and pending_object agree on the owner,
\* whatever timeouts and releases come between the sections of a take.
THEOREM OwnershipSound == Spec => []Ownership
<1>1. MutexInv => Ownership
  BY InvOwnership
<1> QED
  BY <1>1, MutexInvariance, PTL

\* thread->error says who won the race between a release and the timeout:
\* rt_mutex_take returns RT_EOK just to the owner.
THEOREM TakeSound == Spec => []TakeTellsOwner
<1>1. MutexInv => TakeTellsOwner
  BY InvTells
<1> QED
  BY <1>1, MutexInvariance, PTL

\* The order of priorities is inductive together with the owners.
THEOREM PriorityInvariance == Spec => []PrioInv
<1>1. Init => PrioInv
  BY PrioStart
<1>2. MutexInv /\ PrioInv /\ [Next]_vars => PrioInv'
  BY PrioNext
<1> QED
  BY <1>1, <1>2, MutexInvariance, PTL DEF Spec

\* The waiters of a mutex stay in order of their current priority: the loop of
\* _thread_update_priority re-queues a waiter whose priority it changes, along
\* a chain of owners of any length, so that a release wakes the most urgent.
THEOREM SortedSound == Spec => []WaitersSorted
<1>1. MutexInv /\ PrioInv => WaitersSorted
  BY InvInherited
<1> QED
  BY <1>1, MutexInvariance, PriorityInvariance, PTL

\* Priority inheritance: through chains of owners, releases, timeouts and
\* ceilings the owner of a mutex is at least as urgent as its waiters.
THEOREM InheritedSound == Spec => []Inherited
<1>1. MutexInv /\ PrioInv => Inherited
  BY InvInherited
<1> QED
  BY <1>1, MutexInvariance, PriorityInvariance, PTL

\* A thread that holds no mutex has its own priority, as long as no wait has
\* timed out: the two places at which priorities are lowered, rt_mutex_release
\* and the loop of _thread_update_priority, lose no claim and keep no other.
THEOREM RestoredSound == Spec => []RestoredWithoutTimeout
<1>1. PrioInv => RestoredWithoutTimeout
  BY InvRestored
<1> QED
  BY <1>1, PriorityInvariance, PTL

=============================================================================
