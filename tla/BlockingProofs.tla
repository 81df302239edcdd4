--------------------------- MODULE BlockingProofs ---------------------------
(***************************************************************************)
(* The thread layer under the IPC objects, for any threads, priorities and *)
(* objects: which threads wait, and what a wake-up, a timeout and the      *)
(* scheduler do to the wait lists.                                         *)
(***************************************************************************)
EXTENDS Blocking, KernelProofs

-----------------------------------------------------------------------------
(* Wait lists *)

\* A thread that is not suspended waits nowhere; unlinking it moves no waiter.
LEMMA NotWaiting ==
  ASSUME NEW X, NEW x, KernelOK(x, X), NEW t \in Threads, x.stat[t] # "SUSPEND"
  PROVE  /\ \A w \in Waits : t \notin ToSet(x.wait[w])
         /\ ListRemove(x, t).wait = x.wait
         /\ RemoveThread(x, t).wait = x.wait
<1>1. \A w \in Waits : t \notin ToSet(x.wait[w])
  BY DEF KernelOK, LinksOK
<1>2. \A w \in Waits : Unlinked(x.wait[w], t) = x.wait[w]
  BY <1>1 DEF Unlinked
<1>3. x.wait = [w \in Waits |-> x.wait[w]]
  BY DEF KernelOK, KernelState
<1>4. ListRemove(x, t).wait = [w \in Waits |-> Unlinked(x.wait[w], t)]
  BY DEF ListRemove, KernelOK, KernelState
<1>5. RemoveThread(x, t).wait = ListRemove(x, t).wait
  <2> DEFINE u == ListRemove(x, t)
  <2>1. u \in KernelState
    BY ListRemoveLinks DEF KernelOK
  <2>2. RemoveThread(x, t) = [u EXCEPT !.group = IF u.ready[x.prio[t]] = << >> THEN u.group \ x.mask[t]
                                                 ELSE u.group]
    BY DEF RemoveThread
  <2> HIDE DEF u
  <2>3. RemoveThread(x, t).wait = u.wait
    BY <2>1, <2>2 DEF KernelState
  <2> QED
    BY <2>3 DEF u
<1> QED
  BY <1>1, <1>2, <1>3, <1>4, <1>5

\* A resumed thread leaves the list it waits in.
LEMMA ResumeWait ==
  ASSUME NEW X, NEW x, KernelOK(x, X), NEW t \in Threads, x.stat[t] = "SUSPEND"
  PROVE  \A w \in Waits : Resume(x, t).wait[w] = Unlinked(x.wait[w], t)
<1> DEFINE l == ListRemove(x, t)
<1>1. KernelOK(l, X \cup {t}) /\ SameThreads(x, l)
  BY ListRemoveOK
<1>2. MaskOK(l, t)
  BY <1>1 DEF SameThreads, KernelOK, LinksOK, MaskOK
<1>3. \A w \in Waits : l.wait[w] = Unlinked(x.wait[w], t)
  BY DEF ListRemove, KernelOK, KernelState
<1> HIDE DEF l
<1>4. InsertThread(l, t).wait = l.wait
  BY <1>1, <1>2, InsertThreadOK
<1> QED
  BY <1>3, <1>4 DEF l, Resume

\* rt_schedule moves no waiter.
LEMMA ScheduleWait ==
  ASSUME NEW X, NEW x, KernelOK(x, X), x.cur \in Threads \ X, x.stat[x.cur] # "READY"
  PROVE  Schedule(x).wait = x.wait
<1>1. CASE x.lock # 0 \/ x.group = {}
  BY <1>1 DEF Schedule
<1>2. CASE ~ (x.lock # 0 \/ x.group = {}) /\ KeepsProcessor(x)
  <2> DEFINE v == [x EXCEPT !.yld[x.cur] = FALSE]
  <2>1. x \in KernelState /\ x.stat[x.cur] = "RUNNING"
    BY <1>2 DEF KernelOK, KeepsProcessor
  <2>2. /\ v \in KernelState /\ SameLists(x, v)
        /\ v.stat = x.stat /\ v.prio = x.prio /\ v.mask = x.mask /\ v.cur = x.cur
    <3>1. v = [x EXCEPT !.yld = [x.yld EXCEPT ![x.cur] = FALSE]]
      OBVIOUS
    <3>2. [x.yld EXCEPT ![x.cur] = FALSE] \in [Threads -> BOOLEAN]
      BY <2>1 DEF KernelState
    <3> HIDE DEF v
    <3> QED
      BY <2>1, <3>1, <3>2 DEF KernelState, SameLists
  <2>3. KeepThread(x) = [RemoveThread(v, x.cur) EXCEPT !.stat[x.cur] = "RUNNING"]
    BY DEF KeepThread
  <2> HIDE DEF v
  <2>4. KernelOK(v, X)
    BY <2>2, FrameOK
  <2> DEFINE r == RemoveThread(v, x.cur)
  <2>5. r.wait = v.wait /\ r \in KernelState
    BY <2>1, <2>2, <2>4, NotWaiting, RemoveThreadOK DEF KernelOK
  <2> HIDE DEF r
  <2>6. [r EXCEPT !.stat[x.cur] = "RUNNING"].wait = r.wait
    BY <2>5 DEF KernelState
  <2> QED
    BY <1>2, <2>2, <2>3, <2>5, <2>6 DEF Schedule, r, SameLists
<1>3. CASE ~ (x.lock # 0 \/ x.group = {}) /\ ~ KeepsProcessor(x)
  <2> DEFINE from == x.cur
             to   == Head(x.ready[HighestReadyPriority(x)])
             run  == x.stat[from] = "RUNNING"
             c    == [x EXCEPT !.cur = to, !.yld[from] = @ /\ ~ run]
             q    == IF run THEN InsertThread(c, from) ELSE c
  <2>1. x \in KernelState /\ from \in Threads \ X
    BY DEF KernelOK
  <2>2. to \in Threads \ X /\ x.stat[to] = "READY" /\ to # from
    BY <1>3, HighestReady
  <2>3. Schedule(x) = [RemoveThread(q, to) EXCEPT !.stat[to] = "RUNNING"]
    BY <1>3 DEF Schedule, SwitchThread
  <2> HIDE DEF to, from
  <2>4. /\ c \in KernelState /\ SameLists(x, c)
        /\ c.stat = x.stat /\ c.prio = x.prio /\ c.mask = x.mask /\ c.cur = to
    <3>1. c = [x EXCEPT !.cur = to, !.yld = [x.yld EXCEPT ![from] = @ /\ ~ run]]
      OBVIOUS
    <3>2. [x.yld EXCEPT ![from] = @ /\ ~ run] \in [Threads -> BOOLEAN]
      BY <2>1 DEF KernelState
    <3> HIDE DEF c, run
    <3> QED
      BY <2>1, <2>2, <3>1, <3>2 DEF KernelState, SameLists
  <2> HIDE DEF c
  <2>5. KernelOK(c, X)
    BY <2>4, FrameOK
  <2>6. /\ \E Y : KernelOK(q, Y)
        /\ q.stat[to] = "READY" /\ q.wait = c.wait
    <3>1. CASE run
      <4>1. c.stat[from] = "RUNNING" /\ from # c.cur
        BY <2>2, <2>4, <3>1
      <4>2. KernelOK(c, X \cup {from})
        BY <2>1, <2>5, <4>1, UnlinkedOK
      <4>3. MaskOK(c, from)
        BY <2>1, <2>5, <4>1 DEF KernelOK, LinksOK
      <4>4. /\ KernelOK(InsertThread(c, from), X \ {from}) /\ InsertThread(c, from).wait = c.wait
            /\ Restat(c, InsertThread(c, from), from, IF from = c.cur THEN "RUNNING" ELSE "READY")
        BY <2>1, <4>2, <4>3, InsertThreadOK
      <4>5. KernelOK(q, X \ {from}) /\ q.wait = c.wait /\ q.stat = [c.stat EXCEPT ![from] = "READY"]
        BY <3>1, <4>1, <4>4 DEF Restat
      <4> HIDE DEF q
      <4> QED
        BY <2>1, <2>2, <2>4, <4>5 DEF KernelState
    <3>2. CASE ~ run
      BY <2>2, <2>4, <2>5, <3>2
    <3> QED
      BY <3>1, <3>2
  <2> HIDE DEF q
  <2>7. PICK Y : KernelOK(q, Y)
    BY <2>6
  <2> DEFINE r == RemoveThread(q, to)
  <2>8. r.wait = q.wait
    BY <2>2, <2>6, <2>7, NotWaiting
  <2>9. r \in KernelState
    BY <2>2, <2>6, <2>7, RemoveThreadOK DEF KernelOK
  <2> HIDE DEF r
  <2>10. [r EXCEPT !.stat[to] = "RUNNING"].wait = r.wait
    BY <2>9 DEF KernelState
  <2> QED
    BY <2>3, <2>4, <2>6, <2>8, <2>10 DEF r, SameLists
<1> QED
  BY <1>1, <1>2, <1>3

\* rt_system_scheduler_start moves no waiter.
LEMMA StartWait ==
  ASSUME NEW x, KernelOK(x, {}), x.group # {}
  PROVE  SchedulerStart(x).wait = x.wait /\ SchedulerStart(x).prio = x.prio
<1> DEFINE to == Head(x.ready[HighestReadyPriority(x)])
           v  == [x EXCEPT !.cur = to]
           r  == RemoveThread(v, to)
<1>1. x \in KernelState
  BY DEF KernelOK
<1>2. to \in Threads /\ x.stat[to] = "READY"
  BY HighestReady
<1>3. SchedulerStart(x) = [r EXCEPT !.stat[to] = "RUNNING", !.yld[to] = FALSE]
  BY DEF SchedulerStart
<1> HIDE DEF to
<1>4. /\ v \in KernelState /\ SameLists(x, v)
      /\ v.stat = x.stat /\ v.prio = x.prio /\ v.mask = x.mask
  BY <1>1, <1>2 DEF KernelState, SameLists
<1> HIDE DEF v
<1>5. KernelOK(v, {})
  BY <1>4, FrameOK
<1>6. r.wait = v.wait
  BY <1>2, <1>4, <1>5, NotWaiting
<1>7. r \in KernelState /\ r.prio = v.prio
  <2>1. KernelOK(r, {} \cup {to}) /\ SameThreads(v, r)
    BY <1>2, <1>4, <1>5, RemoveThreadOK
  <2> QED
    BY <2>1 DEF KernelOK, SameThreads
<1> HIDE DEF r
<1>8. /\ [r EXCEPT !.stat[to] = "RUNNING", !.yld[to] = FALSE].wait = r.wait
      /\ [r EXCEPT !.stat[to] = "RUNNING", !.yld[to] = FALSE].prio = r.prio
  BY <1>7 DEF KernelState
<1> QED
  BY <1>3, <1>4, <1>6, <1>7, <1>8 DEF SameLists

\* A thread that suspends itself joins the list of w and no other, in front of
\* the first thread that is less urgent, or last in a FIFO list.
LEMMA SuspendWait ==
  ASSUME NEW X, NEW x, KernelOK(x, X), NEW t \in Threads \ X, x.stat[t] = "RUNNING",
         NEW w \in Waits
  PROVE  /\ \A v \in Waits \ {w} : IpcListSuspend(x, t, w).wait[v] = x.wait[v]
         /\ IpcListSuspend(x, t, w).wait[w] =
              InsertBeforeFirst(x.wait[w],
                IF w \in PrioWaits THEN {i \in DOMAIN x.wait[w] : x.prio[t] < x.prio[x.wait[w][i]]}
                                   ELSE {}, t)
<1> DEFINE s == Suspend(x, t)
<1>1. s \in KernelState /\ Restat(x, s, t, "SUSPEND")
  BY RemoveAndSetOK DEF KernelOK, Suspend, SetStat
<1>2. s.wait = x.wait
  <2>1. RemoveThread(x, t).wait = x.wait /\ RemoveThread(x, t) \in KernelState
    BY NotWaiting, RemoveThreadOK DEF KernelOK
  <2> DEFINE r == RemoveThread(x, t)
  <2> HIDE DEF r
  <2>2. r \in KernelState => [r EXCEPT !.stat[t] = "SUSPEND"].wait = r.wait
    BY DEF KernelState
  <2> QED
    BY <2>1, <2>2 DEF Suspend, r
<1>3. s.prio = x.prio
  BY <1>1 DEF Restat
<1> DEFINE I == IF w \in PrioWaits
                THEN {i \in DOMAIN s.wait[w] : s.prio[t] < s.prio[s.wait[w][i]]} ELSE {}
           l == InsertBeforeFirst(s.wait[w], I, t)
<1>4. IpcListSuspend(x, t, w) = [s EXCEPT !.wait[w] = l]
  BY DEF IpcListSuspend
<1>5. I = (IF w \in PrioWaits
           THEN {i \in DOMAIN x.wait[w] : x.prio[t] < x.prio[x.wait[w][i]]} ELSE {})
  BY <1>2, <1>3
<1> HIDE DEF s, l
<1>6. [s EXCEPT !.wait[w] = l].wait = [s.wait EXCEPT ![w] = l]
  BY <1>1 DEF KernelState
<1>7. /\ [s.wait EXCEPT ![w] = l][w] = l
      /\ \A v \in Waits \ {w} : [s.wait EXCEPT ![w] = l][v] = s.wait[v]
  BY <1>1 DEF KernelState
<1> HIDE DEF I
<1> QED
  BY <1>2, <1>4, <1>5, <1>6, <1>7 DEF l

-----------------------------------------------------------------------------
(* Wake-ups *)

\* The suspended threads ts of kernel state x have been resumed in y.
Resumed(x, y, ts) ==
    /\ KernelOK(y, {})
    /\ y.stat = [t \in Threads |-> IF t \notin ts THEN x.stat[t]
                                   ELSE IF t = x.cur THEN "RUNNING" ELSE "READY"]
    /\ y.prio = x.prio /\ y.cur = x.cur /\ y.lock = x.lock
    /\ \A w \in Waits : ToSet(y.wait[w]) = ToSet(x.wait[w]) \ ts

\* Nobody is resumed.
LEMMA ResumedNone ==
  ASSUME NEW x, KernelOK(x, {})
  PROVE  Resumed(x, x, {})
<1>1. x.stat \in [Threads -> Stats]
  BY DEF KernelOK, KernelState
<1>2. x.stat = [t \in Threads |-> IF t \notin {} THEN x.stat[t]
                                  ELSE IF t = x.cur THEN "RUNNING" ELSE "READY"]
  BY <1>1
<1> QED
  BY <1>2 DEF Resumed

\* rt_thread_resume of one thread.
LEMMA ResumedOne ==
  ASSUME NEW x, KernelOK(x, {}), NEW t \in Threads, x.stat[t] = "SUSPEND"
  PROVE  Resumed(x, Resume(x, t), {t})
<1> DEFINE y == Resume(x, t)
<1>1. KernelOK(y, {}) /\ Restat(x, y, t, IF t = x.cur THEN "RUNNING" ELSE "READY")
  <2>1. {} \ {t} = {}
    OBVIOUS
  <2> QED
    BY <2>1, ResumeOK
<1>2. \A w \in Waits : y.wait[w] = Unlinked(x.wait[w], t)
  BY ResumeWait
<1>3. \A w \in Waits : Holds(x.wait[w], ToSet(x.wait[w]))
  BY DEF KernelOK, LinksOK
<1> HIDE DEF y
<1>4. \A w \in Waits : ToSet(y.wait[w]) = ToSet(x.wait[w]) \ {t}
  BY <1>2, <1>3, HoldsUnlinked DEF Holds
<1>5. x.stat \in [Threads -> Stats]
  BY DEF KernelOK, KernelState
<1>6. y.stat = [u \in Threads |-> IF u \notin {t} THEN x.stat[u]
                                  ELSE IF u = x.cur THEN "RUNNING" ELSE "READY"]
  BY <1>1, <1>5 DEF Restat
<1> QED
  BY <1>1, <1>4, <1>6 DEF Resumed, Restat, y

\* Some threads, then others.
LEMMA ResumedThen ==
  ASSUME NEW x, NEW y, NEW z, NEW A, NEW B, Resumed(x, y, A), Resumed(y, z, B)
  PROVE  Resumed(x, z, A \cup B)
<1>1. z.stat = [t \in Threads |-> IF t \notin A \cup B THEN x.stat[t]
                                  ELSE IF t = x.cur THEN "RUNNING" ELSE "READY"]
  BY DEF Resumed
<1>2. \A w \in Waits : ToSet(z.wait[w]) = ToSet(x.wait[w]) \ (A \cup B)
  BY DEF Resumed
<1> QED
  BY <1>1, <1>2 DEF Resumed

\* The loop body of ResumeThose.
ResumeIf(y, t, ts) == IF t \in ts THEN Resume(y, t) ELSE y

\* The states the loop goes through, from the first thread of list s on.
LEMMA FoldStates ==
  ASSUME NEW x, NEW w, NEW ts, x.wait[w] \in Seq(Threads), NEW s, s = x.wait[w]
  PROVE  \E f : /\ f[0] = x /\ f[Len(s)] = ResumeThose(x, w, ts)
                /\ \A n \in 1 .. Len(s) : f[n] = ResumeIf(f[n-1], s[n], ts)
<1> DEFINE Body(g, S) == IF S = {} THEN x ELSE ResumeIf(g[S \ {Max(S)}], s[Max(S)], ts)
           Eqn(n, g) == g = [S \in SUBSET (1 .. n) |-> Body(g, S)]
           Bad == {n \in 0 .. Len(s) : ~ \E g : Eqn(n, g)}
<1>1. Len(s) \in Nat /\ DOMAIN s = 1 .. Len(s)
  OBVIOUS
<1>2. ASSUME NEW n \in Nat, NEW S \in SUBSET (1 .. n + 1), n + 1 \in S
      PROVE  Max(S) = n + 1 /\ S \ {n + 1} \in SUBSET (1 .. n)
  <2>1. \A i \in S : n + 1 >= i
    BY <1>2
  <2>2. \A m \in S : (\A i \in S : m >= i) => m = n + 1
    BY <1>2
  <2>3. Max(S) = n + 1
    <3>1. Max(S) = CHOOSE m \in S : \A i \in S : m >= i
      BY DEF Max
    <3> QED
      BY <1>2, <2>1, <2>2, <3>1
  <2>4. S \ {n + 1} \in SUBSET (1 .. n)
    BY <1>2
  <2> QED
    BY <2>3, <2>4
<1>3. Bad = {}
  <2> SUFFICES ASSUME Bad # {} PROVE FALSE
    OBVIOUS
  <2> DEFINE m == Min(Bad)
  <2>0. Bad \in SUBSET Nat
    BY <1>1
  <2> HIDE DEF Bad
  <2>1. m \in Bad /\ \A i \in Bad : m <= i
    BY <2>0, LeastNat
  <2> HIDE DEF m
  <2>2. m \in 0 .. Len(s) /\ ~ \E g : Eqn(m, g)
    BY <2>1 DEF Bad
  <2>3. CASE m = 0
    <3> DEFINE g == [S \in SUBSET (1 .. 0) |-> x]
    <3>1. \A S \in SUBSET (1 .. 0) : S = {}
      OBVIOUS
    <3>2. Eqn(0, g)
      BY <3>1
    <3> QED
      BY <2>2, <2>3, <3>2
  <2>4. CASE m # 0
    <3> DEFINE n == m - 1
    <3>1. n \in 0 .. Len(s) /\ n \in Nat /\ n + 1 = m /\ n \notin Bad
      BY <1>1, <2>1, <2>2, <2>4
    <3> HIDE DEF n
    <3>2. PICK g : Eqn(n, g)
      BY <3>1 DEF Bad
    <3> DEFINE h == [S \in SUBSET (1 .. m) |->
                       IF n + 1 \in S THEN ResumeIf(g[S \ {n + 1}], s[n + 1], ts) ELSE g[S]]
    <3>3. \A S \in SUBSET (1 .. n) : S \in SUBSET (1 .. m) /\ n + 1 \notin S
      BY <3>1
    <3>4. \A S \in SUBSET (1 .. n) : h[S] = g[S]
      BY <3>3
    <3>5. ASSUME NEW S \in SUBSET (1 .. m) PROVE h[S] = Body(h, S)
      <4>1. CASE n + 1 \in S
        <5>1. Max(S) = n + 1 /\ S \ {n + 1} \in SUBSET (1 .. n) /\ S # {}
          BY <1>2, <3>1, <4>1
        <5>2. h[S] = ResumeIf(g[S \ {n + 1}], s[n + 1], ts)
          BY <4>1
        <5>3. h[S \ {n + 1}] = g[S \ {n + 1}]
          BY <3>4, <5>1
        <5> QED
          BY <5>1, <5>2, <5>3
      <4>2. CASE n + 1 \notin S
        <5>1. S \in SUBSET (1 .. n)
          BY <3>1, <4>2
        <5>2. h[S] = g[S]
          BY <4>2
        <5>3. g[S] = Body(g, S)
          BY <3>2, <5>1
        <5>4. S \ {Max(S)} \in SUBSET (1 .. n)
          BY <5>1
        <5>5. h[S \ {Max(S)}] = g[S \ {Max(S)}]
          BY <3>4, <5>4
        <5> QED
          BY <5>2, <5>3, <5>5
      <4> QED
        BY <4>1, <4>2
    <3>6. h = [S \in SUBSET (1 .. m) |-> h[S]]
      OBVIOUS
    <3> HIDE DEF h
    <3>7. Eqn(m, h)
      BY <3>5, <3>6, Zenon
    <3> QED
      BY <2>2, <3>7
  <2> QED
    BY <2>3, <2>4
<1>4. Len(s) \in 0 .. Len(s)
  BY <1>1
<1>5. \E g : Eqn(Len(s), g)
  BY <1>3, <1>4
<1> DEFINE G == CHOOSE g : Eqn(Len(s), g)
<1>6. Eqn(Len(s), G)
  BY <1>5
<1>7. ResumeThose(x, w, ts) = G[DOMAIN s]
  <2>1. ResumeThose(x, w, ts) =
          (CHOOSE g : g = [S \in SUBSET DOMAIN s |->
             IF S = {} THEN x ELSE ResumeIf(g[S \ {Max(S)}], s[Max(S)], ts)])[DOMAIN s]
    BY DEF ResumeThose, FoldLeft, MapThenFoldSet, ResumeIf
  <2> QED
    BY <1>1, <2>1
<1> HIDE DEF G
<1> DEFINE f == [n \in 0 .. Len(s) |-> G[1 .. n]]
<1>8. f[0] = x
  <2>1. 1 .. 0 = {} /\ 0 \in 0 .. Len(s) /\ {} \in SUBSET (1 .. Len(s))
    BY <1>1
  <2>2. G[{}] = x
    BY <1>6, <2>1
  <2> QED
    BY <2>1, <2>2
<1>9. ASSUME NEW n \in 1 .. Len(s) PROVE f[n] = ResumeIf(f[n-1], s[n], ts)
  <2> DEFINE S == 1 .. n
  <2>1. S \in SUBSET (1 .. Len(s)) /\ n - 1 \in Nat /\ (n - 1) + 1 \in S /\ S \in SUBSET (1 .. (n - 1) + 1)
    BY <1>1
  <2>2. Max(S) = n /\ S # {}
    <3> DEFINE j == n - 1
    <3>1. j \in Nat /\ j + 1 = n /\ j + 1 \in S /\ S \in SUBSET (1 .. j + 1)
      BY <2>1
    <3> HIDE DEF j, S
    <3>2. Max(S) = j + 1
      BY <1>2, <3>1
    <3> QED
      BY <3>1, <3>2
  <2>3. S \ {n} = 1 .. n - 1
    BY <1>1
  <2>4. G[S] = Body(G, S)
    BY <1>6, <2>1
  <2>5. G[S] = ResumeIf(G[1 .. n - 1], s[n], ts)
    BY <2>2, <2>3, <2>4
  <2>6. n \in 0 .. Len(s) /\ n - 1 \in 0 .. Len(s)
    BY <1>1
  <2> HIDE DEF S
  <2> QED
    BY <2>5, <2>6 DEF S
<1>10. f[Len(s)] = ResumeThose(x, w, ts)
  BY <1>1, <1>4, <1>7
<1> QED
  BY <1>8, <1>9, <1>10

\* The waiters ts of w are resumed in the order of the list.
LEMMA ResumeThoseOK ==
  ASSUME NEW x, KernelOK(x, {}), NEW w \in Waits, NEW ts \in SUBSET ToSet(x.wait[w])
  PROVE  Resumed(x, ResumeThose(x, w, ts), ts)
<1> DEFINE s == x.wait[w]
<1>1. Holds(s, ToSet(s)) /\ \A t \in ToSet(s) : x.stat[t] = "SUSPEND"
  BY DEF KernelOK, LinksOK
<1>2. s \in Seq(Threads) /\ Len(s) \in Nat /\ DOMAIN s = 1 .. Len(s)
  BY <1>1 DEF Holds
<1>3. PICK f : /\ f[0] = x /\ f[Len(s)] = ResumeThose(x, w, ts)
               /\ \A n \in 1 .. Len(s) : f[n] = ResumeIf(f[n-1], s[n], ts)
  BY <1>2, FoldStates, SMTT(30)
<1>4. \A i \in 1 .. Len(s) : s[i] \in Threads /\ s[i] \in ToSet(s)
  BY <1>2 DEF ToSet
<1>5. \A i, j \in 1 .. Len(s) : s[i] = s[j] => i = j
  BY <1>1, <1>2 DEF Holds, IsInjective
<1>6. ToSet(s) = {s[i] : i \in 1 .. Len(s)}
  BY <1>2 DEF ToSet
<1> HIDE DEF s
<1> DEFINE Seen(n) == ts \cap {s[i] : i \in 1 .. n}
           Bad == {n \in 0 .. Len(s) : ~ Resumed(x, f[n], Seen(n))}
<1>7. Bad = {}
  <2> SUFFICES ASSUME Bad # {} PROVE FALSE
    OBVIOUS
  <2>1. Bad \in SUBSET Nat
    BY <1>2
  <2> HIDE DEF Bad
  <2> DEFINE m == Min(Bad)
  <2>2. m \in Bad /\ \A i \in Bad : m <= i
    BY <2>1, LeastNat
  <2> HIDE DEF m
  <2>3. m \in 0 .. Len(s) /\ ~ Resumed(x, f[m], Seen(m))
    BY <2>2 DEF Bad
  <2>4. CASE m = 0
    <3>1. Seen(0) = {}
      OBVIOUS
    <3> QED
      BY <1>3, <2>3, <2>4, <3>1, ResumedNone
  <2>5. CASE m # 0
    <3> DEFINE n == m - 1
    <3>1. n \in 0 .. Len(s) /\ n \in Nat /\ n + 1 = m /\ m \in 1 .. Len(s) /\ ~ (m <= n)
      BY <1>2, <2>3, <2>5
    <3>2. n \notin Bad
      BY <2>2, <3>1
    <3>3. Resumed(x, f[n], Seen(n)) /\ f[m] = ResumeIf(f[n], s[m], ts)
      BY <1>3, <3>1, <3>2 DEF Bad
    <3>4. Seen(m) = Seen(n) \cup (ts \cap {s[m]})
      <4>1. \A i : i \in 1 .. m <=> i \in 1 .. n \/ i = m
        BY <3>1
      <4> QED
        BY <4>1
    <3>5. s[m] \notin Seen(n)
      BY <1>5, <3>1
    <3> HIDE DEF n, Seen
    <3>6. CASE s[m] \in ts
      <4>1. KernelOK(f[n], {}) /\ f[n].stat[s[m]] = "SUSPEND"
        BY <1>1, <1>4, <3>1, <3>3, <3>5 DEF Resumed
      <4>2. Resumed(f[n], f[m], {s[m]})
        BY <1>4, <3>1, <3>3, <3>6, <4>1, ResumedOne DEF ResumeIf
      <4>3. Seen(m) = Seen(n) \cup {s[m]}
        BY <3>4, <3>6
      <4> QED
        BY <2>3, <3>3, <4>2, <4>3, ResumedThen
    <3>7. CASE s[m] \notin ts
      <4>1. Seen(m) = Seen(n)
        BY <3>4, <3>7
      <4> QED
        BY <2>3, <3>3, <3>7, <4>1 DEF ResumeIf
    <3> QED
      BY <3>6, <3>7
  <2> QED
    BY <2>4, <2>5
<1>8. Len(s) \in 0 .. Len(s)
  BY <1>2
<1>9. Resumed(x, f[Len(s)], Seen(Len(s)))
  BY <1>7, <1>8
<1>10. Seen(Len(s)) = ts
  BY <1>6 DEF s
<1> QED
  BY <1>3, <1>9, <1>10

\* The first waiter, if there is one.
LEMMA ResumeFirstOK ==
  ASSUME NEW x, KernelOK(x, {}), NEW w \in Waits,
         NEW ts, ts = (IF x.wait[w] = << >> THEN {} ELSE {Head(x.wait[w])})
  PROVE  /\ ts \subseteq ToSet(x.wait[w]) /\ Resumed(x, ResumeFirst(x, w), ts)
         /\ x.wait[w] # << >> => ResumeFirst(x, w).wait[w] = Tail(x.wait[w])
<1> DEFINE s == x.wait[w]
<1>1. Holds(s, ToSet(s)) /\ \A t \in ToSet(s) : x.stat[t] = "SUSPEND" /\ t \in Threads
  BY HoldsFacts DEF KernelOK, LinksOK
<1>2. CASE s = << >>
  BY <1>2, ResumedNone DEF ResumeFirst
<1>3. CASE s # << >>
  <2>1. Head(s) \in ToSet(s)
    BY <1>1, <1>3, HoldsFacts
  <2>2. ResumeFirst(x, w) = Resume(x, Head(s))
    BY <1>3 DEF ResumeFirst
  <2>3. Resumed(x, Resume(x, Head(s)), {Head(s)})
    BY <1>1, <2>1, ResumedOne
  <2>4. Resume(x, Head(s)).wait[w] = Unlinked(s, Head(s))
    BY <1>1, <2>1, ResumeWait
  <2>5. Unlinked(s, Head(s)) = Tail(s)
    <3>1. s \in Seq(Threads) /\ Len(s) \in Nat \ {0} /\ DOMAIN s = 1 .. Len(s) /\ Head(s) = s[1]
      BY <1>1, <1>3 DEF Holds
    <3>2. \A i \in DOMAIN s : s[i] = Head(s) => i = 1
      BY <1>1, <3>1 DEF Holds, IsInjective
    <3>3. (CHOOSE i \in DOMAIN s : s[i] = Head(s)) = 1
      BY <3>1, <3>2
    <3>4. Unlinked(s, Head(s)) = RemoveAt(s, 1)
      BY <2>1, <3>3 DEF Unlinked
    <3> DEFINE r == RemoveAt(s, 1)
    <3>5. r \in Seq(Threads) /\ Len(r) = Len(s) - 1 /\ \A i \in 1 .. Len(r) : r[i] = s[i + 1]
      BY <3>1, RemoveAtFacts
    <3>6. /\ Tail(s) \in Seq(Threads) /\ Len(Tail(s)) = Len(s) - 1
          /\ \A i \in 1 .. Len(s) - 1 : Tail(s)[i] = s[i + 1]
      BY <3>1
    <3> HIDE DEF r, s
    <3>7. r = Tail(s)
      BY <3>5, <3>6
    <3> QED
      BY <3>4, <3>7 DEF r
  <2> QED
    BY <1>3, <2>1, <2>2, <2>3, <2>4, <2>5
<1> QED
  BY <1>2, <1>3

-----------------------------------------------------------------------------
(* The invariant of the thread layer *)

\* The sections a call may have left: one, or rt_schedule and the section in
\* which it goes on when it has waited.
CallOK(c) ==
    \/ c = << >>
    \/ \E s : c = <<s>>
    \/ \E w \in Waits : c = <<"sched", w>>

\* In kernel state x the threads tm have a running timer and the calls c are in
\* progress: the suspended threads are those with a timer, and they are in the
\* wait list of the object their call is about.  The current thread runs, or is
\* suspended and about to call rt_schedule; idle does neither.
BlockOK(x, tm, c) ==
    /\ KernelOK(x, {}) /\ x.cur \in Threads /\ x.lock = 0
    /\ \A t \in Threads : x.stat[t] \in {"READY", "RUNNING", "SUSPEND"}
    /\ \A t \in Threads : x.stat[t] = "RUNNING" => t = x.cur
    /\ x.stat[x.cur] # "READY" /\ x.stat[Idle] # "SUSPEND"
    /\ tm = {t \in Threads : x.stat[t] = "SUSPEND"}
    /\ \A w \in Waits : ToSet(x.wait[w]) = {t \in tm : w \in ToSet(c[t])}
    /\ c = [t \in Threads |-> c[t]] /\ c[Idle] = << >> /\ \A t \in Threads : CallOK(c[t])
    /\ x.cur \in tm => c[x.cur] # << >> /\ Head(c[x.cur]) = "sched"

\* The members of short calls.
LEMMA CallFacts ==
  /\ ToSet(<< >>) = {}
  /\ \A s : ToSet(<<s>>) = {s} /\ <<s>> # << >> /\ Head(<<s>>) = s /\ Tail(<<s>>) = << >>
  /\ \A s, w : ToSet(<<s, w>>) = {s, w} /\ Head(<<s, w>>) = s /\ Tail(<<s, w>>) = <<w>>
               /\ <<s, w>> # << >>
<1>1. ToSet(<< >>) = {}
  BY DEF ToSet
<1>2. ASSUME NEW s
      PROVE  ToSet(<<s>>) = {s} /\ <<s>> # << >> /\ Head(<<s>>) = s /\ Tail(<<s>>) = << >>
  <2>1. DOMAIN <<s>> = {1} /\ <<s>>[1] = s
    OBVIOUS
  <2>2. ToSet(<<s>>) = {s}
    BY <2>1 DEF ToSet
  <2> QED
    BY <2>2
<1>3. ASSUME NEW s, NEW w
      PROVE  ToSet(<<s, w>>) = {s, w} /\ Head(<<s, w>>) = s /\ Tail(<<s, w>>) = <<w>>
             /\ <<s, w>> # << >>
  <2>1. DOMAIN <<s, w>> = {1, 2} /\ <<s, w>>[1] = s /\ <<s, w>>[2] = w
    OBVIOUS
  <2>2. ToSet(<<s, w>>) = {s, w}
    BY <2>1 DEF ToSet
  <2> QED
    BY <2>2
<1> QED
  BY <1>1, <1>2, <1>3

\* The current thread runs unless it is about to call rt_schedule.
LEMMA BlockRuns ==
  ASSUME NEW x, NEW tm, NEW c, BlockOK(x, tm, c), NEW t, t = x.cur,
         c[t] = << >> \/ Head(c[t]) # "sched"
  PROVE  /\ t \in Threads /\ x.stat[t] = "RUNNING" /\ t \notin tm
         /\ \A w \in Waits : t \notin ToSet(x.wait[w])
         /\ c[t] # << >> => t # Idle
  BY DEF BlockOK

\* A call of the running thread goes on, without waiting.
LEMMA BlockCall ==
  ASSUME NEW x, NEW tm, NEW c, BlockOK(x, tm, c), NEW t \in Threads \ {Idle}, x.stat[t] = "RUNNING",
         NEW s, CallOK(s), NEW d, d = [c EXCEPT ![t] = s]
  PROVE  BlockOK(x, tm, d)
<1>1. d[t] = s /\ (\A u \in Threads \ {t} : d[u] = c[u]) /\ d = [u \in Threads |-> d[u]]
  BY DEF BlockOK
<1>2. t \notin tm /\ t = x.cur
  BY DEF BlockOK
<1>3. \A w \in Waits : {u \in tm : w \in ToSet(d[u])} = {u \in tm : w \in ToSet(c[u])}
  BY <1>1, <1>2 DEF BlockOK
<1>4. d[Idle] = << >> /\ \A u \in Threads : CallOK(d[u])
  BY <1>1, ThreadsAssumption DEF BlockOK
<1> QED
  BY <1>1, <1>2, <1>3, <1>4 DEF BlockOK

\* The calls d are the calls c but for that of t, which has the sections s left.
CallsWith(c, d, t, s) ==
    d = [u \in Threads |-> d[u]] /\ d[t] = s /\ \A u \in Threads \ {t} : d[u] = c[u]

\* In y thread t has joined the wait list of w.
Joined(x, y, t, w) ==
    /\ \A v \in Waits \ {w} : y.wait[v] = x.wait[v]
    /\ ToSet(y.wait[w]) = ToSet(x.wait[w]) \cup {t} /\ y.wait[w] # << >>

\* The running thread suspends itself and joins the list of w.
LEMMA BlockWait ==
  ASSUME NEW x, NEW tm, NEW c, BlockOK(x, tm, c), NEW t \in Threads \ {Idle}, x.stat[t] = "RUNNING",
         NEW w \in Waits, NEW y, y = IpcListSuspend(x, t, w),
         NEW d, CallsWith(c, d, t, <<"sched", w>>)
  PROVE  BlockOK(y, tm \cup {t}, d) /\ y.prio = x.prio /\ Joined(x, y, t, w)
<1>1. KernelOK(y, {}) /\ Restat(x, y, t, "SUSPEND")
  BY IpcListSuspendOK DEF BlockOK
<1> DEFINE I == IF w \in PrioWaits THEN {i \in DOMAIN x.wait[w] : x.prio[t] < x.prio[x.wait[w][i]]}
                                   ELSE {}
<1>2. /\ \A v \in Waits \ {w} : y.wait[v] = x.wait[v]
      /\ y.wait[w] = InsertBeforeFirst(x.wait[w], I, t)
  <2>1. KernelOK(x, {}) /\ t \in Threads \ {}
    BY DEF BlockOK
  <2> QED
    BY <2>1, SuspendWait
<1>3. I \in SUBSET DOMAIN x.wait[w]
  OBVIOUS
<1> HIDE DEF I
<1>4. Holds(x.wait[w], ToSet(x.wait[w])) /\ t \notin ToSet(x.wait[w])
  BY DEF BlockOK, KernelOK, LinksOK
<1>5. Holds(y.wait[w], ToSet(x.wait[w]) \cup {t})
  <2>1. Holds(InsertBeforeFirst(x.wait[w], I, t), ToSet(x.wait[w]) \cup {t})
    BY <1>3, <1>4, HoldsInsert
  <2> QED
    BY <1>2, <2>1
<1>6. ToSet(y.wait[w]) = ToSet(x.wait[w]) \cup {t} /\ y.wait[w] # << >>
  BY <1>5, HoldsFacts DEF Holds
<1>7. /\ d[t] = <<"sched", w>> /\ (\A u \in Threads \ {t} : d[u] = c[u])
      /\ d = [u \in Threads |-> d[u]]
  BY DEF CallsWith
<1>8. y.stat[t] = "SUSPEND" /\ \A u \in Threads \ {t} : y.stat[u] = x.stat[u]
  BY <1>1 DEF Restat, BlockOK, KernelOK, KernelState
<1>9. t \notin tm /\ t = x.cur /\ y.cur = t /\ y.lock = 0 /\ y.prio = x.prio
  BY <1>1 DEF BlockOK, Restat
<1>10. ToSet(d[t]) = {"sched", w} /\ Head(d[t]) = "sched" /\ d[t] # << >>
  BY <1>7, CallFacts
<1>11. ASSUME NEW v \in Waits
       PROVE  ToSet(y.wait[v]) = {u \in tm \cup {t} : v \in ToSet(d[u])}
  <2>1. \A u \in tm : u # t /\ u \in Threads
    BY <1>9 DEF BlockOK
  <2>2. {u \in tm \cup {t} : v \in ToSet(d[u])}
          = {u \in tm : v \in ToSet(c[u])} \cup (IF v = w THEN {t} ELSE {})
    BY <1>7, <1>10, <2>1, SectionAssumption
  <2>3. ToSet(x.wait[v]) = {u \in tm : v \in ToSet(c[u])}
    BY DEF BlockOK
  <2>4. CASE v = w
    BY <1>6, <2>2, <2>3, <2>4
  <2>5. CASE v # w
    BY <1>2, <2>2, <2>3, <2>5
  <2> QED
    BY <2>4, <2>5
<1>12. d[Idle] = << >> /\ \A u \in Threads : CallOK(d[u])
  <2>1. CallOK(<<"sched", w>>)
    BY DEF CallOK
  <2> QED
    BY <1>7, <2>1, ThreadsAssumption DEF BlockOK
<1>13. tm \cup {t} = {u \in Threads : y.stat[u] = "SUSPEND"}
  BY <1>8 DEF BlockOK
<1>14. /\ \A u \in Threads : y.stat[u] \in {"READY", "RUNNING", "SUSPEND"}
       /\ \A u \in Threads : y.stat[u] = "RUNNING" => u = y.cur
       /\ y.stat[y.cur] # "READY" /\ y.stat[Idle] # "SUSPEND"
  BY <1>8, <1>9, ThreadsAssumption DEF BlockOK
<1> QED
  BY <1>1, <1>2, <1>6, <1>7, <1>9, <1>10, <1>11, <1>12, <1>13, <1>14 DEF BlockOK, Joined

\* The running thread goes to sleep.
LEMMA BlockSleep ==
  ASSUME NEW x, NEW tm, NEW c, BlockOK(x, tm, c), NEW t \in Threads \ {Idle}, x.stat[t] = "RUNNING",
         NEW y, y = Suspend(x, t), NEW d, d = [c EXCEPT ![t] = <<"sched">>]
  PROVE  BlockOK(y, tm \cup {t}, d) /\ y.wait = x.wait /\ y.prio = x.prio
<1>1. KernelOK(y, {}) /\ Restat(x, y, t, "SUSPEND")
  <2>1. KernelOK(x, {}) /\ t \in Threads \ {}
    BY DEF BlockOK
  <2>2. y = SetStat(RemoveThread(x, t), t, "SUSPEND")
    BY DEF Suspend, SetStat
  <2> QED
    BY <2>1, <2>2, RemoveAndSetOK
<1>2. y.wait = x.wait
  <2> DEFINE r == RemoveThread(x, t)
  <2>1. r.wait = x.wait /\ r \in KernelState
    BY NotWaiting, RemoveThreadOK DEF KernelOK, BlockOK
  <2> HIDE DEF r
  <2>2. [r EXCEPT !.stat[t] = "SUSPEND"].wait = r.wait
    BY <2>1 DEF KernelState
  <2> QED
    BY <2>1, <2>2 DEF Suspend, r
<1>3. d[t] = <<"sched">> /\ (\A u \in Threads \ {t} : d[u] = c[u]) /\ d = [u \in Threads |-> d[u]]
  BY DEF BlockOK
<1>4. y.stat[t] = "SUSPEND" /\ \A u \in Threads \ {t} : y.stat[u] = x.stat[u]
  BY <1>1 DEF Restat, BlockOK, KernelOK, KernelState
<1>5. t \notin tm /\ t = x.cur /\ y.cur = t /\ y.lock = 0 /\ y.prio = x.prio
  BY <1>1 DEF BlockOK, Restat
<1>6. ToSet(d[t]) = {"sched"} /\ Head(d[t]) = "sched" /\ d[t] # << >>
  BY <1>3, CallFacts
<1>7. ASSUME NEW v \in Waits
      PROVE  ToSet(y.wait[v]) = {u \in tm \cup {t} : v \in ToSet(d[u])}
  <2>1. \A u \in tm : u # t /\ u \in Threads
    BY <1>5 DEF BlockOK
  <2>2. {u \in tm \cup {t} : v \in ToSet(d[u])} = {u \in tm : v \in ToSet(c[u])}
    BY <1>3, <1>6, <2>1, SectionAssumption
  <2> QED
    BY <1>2, <2>2 DEF BlockOK
<1>8. d[Idle] = << >> /\ \A u \in Threads : CallOK(d[u])
  <2>1. CallOK(<<"sched">>)
    BY DEF CallOK
  <2> QED
    BY <1>3, <2>1, ThreadsAssumption DEF BlockOK
<1>9. tm \cup {t} = {u \in Threads : y.stat[u] = "SUSPEND"}
  BY <1>4 DEF BlockOK
<1>10. /\ \A u \in Threads : y.stat[u] \in {"READY", "RUNNING", "SUSPEND"}
       /\ \A u \in Threads : y.stat[u] = "RUNNING" => u = y.cur
       /\ y.stat[y.cur] # "READY" /\ y.stat[Idle] # "SUSPEND"
  BY <1>4, <1>5, ThreadsAssumption DEF BlockOK
<1> QED
  BY <1>1, <1>2, <1>3, <1>5, <1>6, <1>7, <1>8, <1>9, <1>10 DEF BlockOK

\* Suspended threads are resumed.
LEMMA BlockResumed ==
  ASSUME NEW x, NEW tm, NEW c, BlockOK(x, tm, c), NEW ts \in SUBSET tm,
         NEW y, Resumed(x, y, ts)
  PROVE  BlockOK(y, tm \ ts, c)
<1>1. KernelOK(y, {}) /\ y.cur = x.cur /\ y.lock = 0 /\ y.cur \in Threads
  BY DEF Resumed, BlockOK
<1>2. \A t \in Threads : y.stat[t] = IF t \notin ts THEN x.stat[t]
                                     ELSE IF t = x.cur THEN "RUNNING" ELSE "READY"
  BY DEF Resumed
<1>3. tm \ ts = {t \in Threads : y.stat[t] = "SUSPEND"}
  BY <1>2 DEF BlockOK
<1>4. /\ \A u \in Threads : y.stat[u] \in {"READY", "RUNNING", "SUSPEND"}
      /\ \A u \in Threads : y.stat[u] = "RUNNING" => u = y.cur
      /\ y.stat[y.cur] # "READY" /\ y.stat[Idle] # "SUSPEND"
  BY <1>1, <1>2, ThreadsAssumption DEF BlockOK
<1>5. \A w \in Waits : ToSet(y.wait[w]) = {t \in tm \ ts : w \in ToSet(c[t])}
  BY DEF Resumed, BlockOK
<1> QED
  BY <1>1, <1>3, <1>4, <1>5 DEF BlockOK

\* Some thread is ready while the current one is suspended: idle, if no other.
LEMMA BlockReady ==
  ASSUME NEW x, NEW tm, NEW c, BlockOK(x, tm, c), x.cur \in tm
  PROVE  x.group # {}
<1>1. x.stat[Idle] = "READY" /\ Idle \in Threads
  BY ThreadsAssumption DEF BlockOK
<1>2. x.prio[Idle] \in Prio
  BY <1>1 DEF BlockOK, KernelOK, KernelState
<1>3. Holds(x.ready[x.prio[Idle]],
            {t \in Threads : x.stat[t] = "READY" /\ x.prio[t] = x.prio[Idle] /\ t \notin {}})
  BY <1>2 DEF BlockOK, KernelOK, LinksOK
<1>4. x.ready[x.prio[Idle]] # << >>
  <2> DEFINE S == {t \in Threads : x.stat[t] = "READY" /\ x.prio[t] = x.prio[Idle] /\ t \notin {}}
             r == x.ready[x.prio[Idle]]
  <2>1. Idle \in S /\ Holds(r, S)
    BY <1>1, <1>3
  <2> HIDE DEF S, r
  <2>2. r # << >>
    BY <2>1, HoldsFacts
  <2> QED
    BY <2>2 DEF r
<1> QED
  BY <1>2, <1>4 DEF BlockOK, KernelOK, GroupOK

\* rt_schedule: whoever has the processor afterwards runs.
LEMMA BlockSchedule ==
  ASSUME NEW x, NEW tm, NEW c, BlockOK(x, tm, c), NEW y, y = Schedule(x)
  PROVE  /\ BlockOK(y, tm, c) /\ y.cur \notin tm
         /\ y.wait = x.wait /\ y.prio = x.prio
<1>1. /\ KernelOK(y, {}) /\ Scheduled(x, y) /\ y.cur \in Threads
      /\ x.group # {} /\ x.stat[x.cur] # "RUNNING" => Switched(x, y)
  BY ScheduleOK DEF BlockOK
<1>2. y.wait = x.wait
  BY ScheduleWait DEF BlockOK
<1>3. y.prio = x.prio /\ y.lock = 0
  BY <1>1 DEF Scheduled, BlockOK
<1>4. CASE y.cur = x.cur /\ y.stat = x.stat
  <2>1. y.cur \notin tm
    <3> SUFFICES ASSUME x.cur \in tm PROVE FALSE
      BY <1>4
    <3>0. x.stat[x.cur] # "RUNNING"
      BY DEF BlockOK
    <3>1. x.group # {} /\ x.stat[x.cur] # "RUNNING"
      BY <3>0, BlockReady
    <3>2. Switched(x, y)
      BY <1>1, <3>1
    <3> QED
      BY <1>4, <3>2 DEF Switched
  <2> QED
    BY <1>1, <1>2, <1>3, <1>4, <2>1 DEF BlockOK
<1>5. CASE Switched(x, y)
  <2>1. \A u \in Threads : y.stat[u] = IF u = y.cur THEN "RUNNING"
                                       ELSE IF u = x.cur /\ x.stat[u] = "RUNNING" THEN "READY"
                                       ELSE x.stat[u]
    BY <1>5 DEF Switched
  <2>2. y.cur \in Threads /\ y.cur # x.cur /\ x.stat[y.cur] = "READY"
    BY <1>5 DEF Switched
  <2>3. tm = {u \in Threads : y.stat[u] = "SUSPEND"} /\ y.cur \notin tm
    BY <2>1, <2>2 DEF BlockOK
  <2>4. /\ \A u \in Threads : y.stat[u] \in {"READY", "RUNNING", "SUSPEND"}
        /\ \A u \in Threads : y.stat[u] = "RUNNING" => u = y.cur
        /\ y.stat[y.cur] # "READY" /\ y.stat[Idle] # "SUSPEND"
    BY <2>1, <2>2, ThreadsAssumption DEF BlockOK
  <2> QED
    BY <1>1, <1>2, <1>3, <2>3, <2>4 DEF BlockOK
<1> QED
  BY <1>1, <1>4, <1>5 DEF Scheduled

-----------------------------------------------------------------------------
(* The steps the objects have in common *)

BlockInv == BlockOK(k, timed, pc)

\* t runs, in application code or in a section other than rt_schedule.
Live(t) == t = k.cur /\ t # Idle /\ (pc[t] = << >> \/ Head(pc[t]) # "sched")

\* Calls on w in progress.
OnCall(t, w) == w \in ToSet(pc[t])

LEMMA LiveFacts ==
  ASSUME BlockInv, NEW t, Live(t)
  PROVE  /\ t \in Threads \ {Idle} /\ k.stat[t] = "RUNNING" /\ t \notin timed
         /\ \A w \in Waits : t \notin ToSet(k.wait[w])
  BY BlockRuns DEF BlockInv, Live

\* Who runs application code, or the section of an object, is live.
LEMMA RunsLive ==
  ASSUME BlockInv
  PROVE  /\ \A t : Runs(t) => Live(t)
         /\ \A t, s : At(t, s) /\ s # "sched" => Live(t)
         /\ \A t, s : At(t, s) => t # Idle /\ t \in Threads /\ t = k.cur
<1>1. \A t : Runs(t) => Live(t)
  BY DEF Runs, Live
<1>2. \A t, s : At(t, s) => t # Idle /\ t = k.cur /\ t \in Threads
  BY DEF At, BlockInv, BlockOK
<1>3. \A t, s : At(t, s) /\ s # "sched" => Live(t)
  BY <1>2 DEF At, Live
<1> QED
  BY <1>1, <1>2, <1>3

\* The last section of a call: a call at one has nothing else to do.
LEMMA AtLast ==
  ASSUME BlockInv, NEW t, NEW s, At(t, s), s # "sched"
  PROVE  pc[t] = <<s>> /\ Tail(pc[t]) = << >> /\ ToSet(pc[t]) = {s}
<1>1. t \in Threads /\ CallOK(pc[t]) /\ pc[t] # << >> /\ Head(pc[t]) = s
  BY DEF At, BlockInv, BlockOK
<1>2. CASE \E r : pc[t] = <<r>>
  BY <1>1, <1>2, CallFacts
<1>3. CASE \E w \in Waits : pc[t] = <<"sched", w>>
  BY <1>1, <1>3, CallFacts
<1> QED
  BY <1>1, <1>2, <1>3 DEF CallOK

\* A call goes on to the sections s.
LEMMA CallStep ==
  ASSUME BlockInv, NEW t, Live(t), NEW s, CallOK(s), Call(t, s), k' = k, timed' = timed
  PROVE  BlockInv'
<1>1. t \in Threads \ {Idle} /\ k.stat[t] = "RUNNING"
  BY LiveFacts
<1>2. BlockOK(k, timed, pc')
  BY <1>1, BlockCall DEF BlockInv, Call
<1> QED
  BY <1>2 DEF BlockInv

\* A call waits.
LEMMA WaitStep ==
  ASSUME BlockInv, NEW t, Live(t), NEW w \in Waits, WaitOn(t, w)
  PROVE  /\ BlockInv' /\ k'.prio = k.prio /\ Joined(k, k', t, w)
         /\ t \in Threads /\ ToSet(pc'[t]) = {"sched", w} /\ \A u \in Threads \ {t} : pc'[u] = pc[u]
<1>1. t \in Threads \ {Idle} /\ k.stat[t] = "RUNNING"
  BY LiveFacts
<1>2. k' = IpcListSuspend(k, t, w) /\ timed' = timed \cup {t} /\ pc' = [pc EXCEPT ![t] = <<"sched", w>>]
  BY DEF WaitOn, Call
<1>3. BlockOK(k', timed', pc') /\ k'.prio = k.prio /\ Joined(k, k', t, w)
  <2>1. BlockOK(k, timed, pc)
    BY DEF BlockInv
  <2>2. CallsWith(pc, pc', t, <<"sched", w>>)
    BY <1>1, <1>2 DEF BlockInv, BlockOK, CallsWith
  <2> QED
    BY <1>1, <1>2, <2>1, <2>2, BlockWait
<1>4. pc'[t] = <<"sched", w>> /\ \A u \in Threads \ {t} : pc'[u] = pc[u]
  BY <1>1, <1>2 DEF BlockInv, BlockOK
<1> QED
  BY <1>1, <1>3, <1>4, CallFacts DEF BlockInv

\* Suspended threads are resumed, by a call or by a handler.
LEMMA ResumedStep ==
  ASSUME BlockInv, NEW ts \in SUBSET timed, NEW y, Resumed(k, y, ts), timed' = timed \ ts,
         \/ k' = y /\ pc' = pc
         \/ k' = Schedule(y) /\ pc' = pc
         \/ k' = y /\ \E t, s : Live(t) /\ CallOK(s) /\ Call(t, s)
  PROVE  /\ BlockInv' /\ k'.prio = k.prio /\ k'.wait = y.wait
         /\ \A w \in Waits : ToSet(k'.wait[w]) = ToSet(k.wait[w]) \ ts
<1>1. BlockOK(y, timed', pc) /\ y.prio = k.prio
  BY BlockResumed DEF BlockInv, Resumed
<1>2. \A w \in Waits : ToSet(y.wait[w]) = ToSet(k.wait[w]) \ ts
  BY DEF Resumed
<1>3. CASE k' = y /\ pc' = pc
  BY <1>1, <1>2, <1>3 DEF BlockInv
<1>4. CASE k' = Schedule(y) /\ pc' = pc
  BY <1>1, <1>2, <1>4, BlockSchedule DEF BlockInv
<1>5. CASE k' = y /\ \E t, s : Live(t) /\ CallOK(s) /\ Call(t, s)
  <2>1. PICK t, s : Live(t) /\ CallOK(s) /\ Call(t, s)
    BY <1>5
  <2>2. t \in Threads \ {Idle} /\ k.stat[t] = "RUNNING" /\ t \notin ts
    BY <2>1, LiveFacts
  <2>3. y.stat[t] = "RUNNING"
    BY <2>2 DEF Resumed
  <2>4. BlockOK(y, timed', pc')
    BY <1>1, <2>1, <2>2, <2>3, BlockCall DEF Call
  <2> QED
    BY <1>1, <1>2, <1>5, <2>4 DEF BlockInv
<1> QED
  BY <1>3, <1>4, <1>5

\* The waiters of an object have their timer running.
LEMMA WaitersTimed ==
  ASSUME BlockInv, NEW w \in Waits
  PROVE  /\ ToSet(k.wait[w]) = {t \in timed : OnCall(t, w)} /\ timed \subseteq Threads
         /\ KernelOK(k, {}) /\ Holds(k.wait[w], ToSet(k.wait[w]))
  BY DEF BlockInv, BlockOK, OnCall, KernelOK, LinksOK

\* The first waiter of w is resumed, by a call or by a handler.
LEMMA FirstStep ==
  ASSUME BlockInv, NEW w \in Waits, timed' = timed \ First(w),
         \/ k' = ResumeFirst(k, w) /\ pc' = pc
         \/ k' = Schedule(ResumeFirst(k, w)) /\ pc' = pc
         \/ k' = ResumeFirst(k, w) /\ \E t, s : Live(t) /\ CallOK(s) /\ Call(t, s)
  PROVE  /\ BlockInv' /\ k'.prio = k.prio
         /\ First(w) \subseteq ToSet(k.wait[w])
         /\ \A v \in Waits : ToSet(k'.wait[v]) = ToSet(k.wait[v]) \ First(w)
         /\ k.wait[w] # << >> => k'.wait[w] = Tail(k.wait[w]) /\ First(w) = {Head(k.wait[w])}
         /\ k.wait[w] = << >> => k'.wait[w] = << >> /\ First(w) = {}
<1> DEFINE y == ResumeFirst(k, w)
<1>1. First(w) = (IF k.wait[w] = << >> THEN {} ELSE {Head(k.wait[w])})
  BY DEF First
<1>2. /\ First(w) \subseteq ToSet(k.wait[w]) /\ Resumed(k, y, First(w))
      /\ k.wait[w] # << >> => y.wait[w] = Tail(k.wait[w])
  BY <1>1, WaitersTimed, ResumeFirstOK
<1>3. First(w) \in SUBSET timed
  BY <1>2, WaitersTimed
<1>4. k.wait[w] = << >> => y = k
  BY DEF ResumeFirst
<1> HIDE DEF y
<1>5. /\ BlockInv' /\ k'.prio = k.prio /\ k'.wait = y.wait
      /\ \A v \in Waits : ToSet(k'.wait[v]) = ToSet(k.wait[v]) \ First(w)
  BY <1>2, <1>3, ResumedStep DEF y
<1> QED
  BY <1>1, <1>2, <1>4, <1>5

\* The waiters ts of w are resumed, by a call or by a handler.
LEMMA ThoseStep ==
  ASSUME BlockInv, NEW w \in Waits, NEW ts \in SUBSET ToSet(k.wait[w]), timed' = timed \ ts,
         \/ k' = k /\ ts = {} /\ pc' = pc
         \/ k' = Schedule(ResumeThose(k, w, ts)) /\ pc' = pc
         \/ k' = ResumeThose(k, w, ts) /\ \E t, s : Live(t) /\ CallOK(s) /\ Call(t, s)
  PROVE  /\ BlockInv' /\ k'.prio = k.prio
         /\ \A v \in Waits : ToSet(k'.wait[v]) = ToSet(k.wait[v]) \ ts
<1>1. KernelOK(k, {}) /\ ts \in SUBSET timed
  BY WaitersTimed
<1>2. Resumed(k, ResumeThose(k, w, ts), ts)
  BY <1>1, ResumeThoseOK
<1>3. ts = {} => Resumed(k, k, ts)
  BY <1>1, ResumedNone
<1> QED
  BY <1>1, <1>2, <1>3, ResumedStep

\* Both lists of an object are emptied by a call.
LEMMA AllStep ==
  ASSUME BlockInv, NEW v \in Waits, NEW w \in Waits,
         timed' = timed \ (ToSet(k.wait[v]) \cup ToSet(k.wait[w])),
         k' = ResumeAll(ResumeAll(k, v), w), \E t, s : Live(t) /\ CallOK(s) /\ Call(t, s)
  PROVE  /\ BlockInv' /\ k'.prio = k.prio /\ k'.wait[v] = << >> /\ k'.wait[w] = << >>
         /\ \A z \in Waits :
               ToSet(k'.wait[z]) = ToSet(k.wait[z]) \ (ToSet(k.wait[v]) \cup ToSet(k.wait[w]))
<1> DEFINE y == ResumeAll(k, v)
           A == ToSet(k.wait[v])
           B == ToSet(y.wait[w])
<1>1. KernelOK(k, {})
  BY WaitersTimed
<1>2. Resumed(k, y, A)
  BY <1>1, ResumeThoseOK DEF ResumeAll
<1>3. KernelOK(y, {})
  BY <1>2 DEF Resumed
<1> HIDE DEF y
<1>4. Resumed(y, k', B)
  BY <1>3, ResumeThoseOK DEF ResumeAll, y
<1>5. Resumed(k, k', A \cup B)
  BY <1>2, <1>4, ResumedThen
<1>6. A \cup B = ToSet(k.wait[v]) \cup ToSet(k.wait[w])
  BY <1>2 DEF Resumed
<1>7. A \cup B \in SUBSET timed
  BY <1>6, WaitersTimed
<1>8. /\ BlockInv' /\ k'.prio = k.prio
      /\ \A z \in Waits : ToSet(k'.wait[z]) = ToSet(k.wait[z]) \ (A \cup B)
  BY <1>5, <1>6, <1>7, ResumedStep
<1>9. ToSet(k'.wait[v]) = {} /\ ToSet(k'.wait[w]) = {}
  BY <1>6, <1>8
<1>10. \A z \in Waits : Holds(k'.wait[z], ToSet(k'.wait[z]))
  BY <1>8 DEF BlockInv, BlockOK, KernelOK, LinksOK
<1> QED
  BY <1>6, <1>8, <1>9, <1>10, HoldsFacts

\* rt_schedule called by a thread: calls on objects stay in progress.
LEMMA DoScheduleStep ==
  ASSUME BlockInv, NEW t, DoSchedule(t)
  PROVE  /\ BlockInv' /\ k'.prio = k.prio /\ k'.wait = k.wait
         /\ \A u \in Threads, w \in Waits : w \in ToSet(pc'[u]) <=> w \in ToSet(pc[u])
<1>1. t \in Threads \ {Idle} /\ t = k.cur /\ pc[t] # << >> /\ Head(pc[t]) = "sched"
  BY RunsLive DEF DoSchedule, At
<1>2. k' = Schedule(k) /\ pc' = [pc EXCEPT ![t] = Tail(@)] /\ timed' = timed
  BY DEF DoSchedule, Done
<1>3. BlockOK(k', timed, pc) /\ k'.cur \notin timed /\ k'.wait = k.wait /\ k'.prio = k.prio
  BY <1>2, BlockSchedule DEF BlockInv
<1>4. pc'[t] = Tail(pc[t]) /\ (\A u \in Threads \ {t} : pc'[u] = pc[u]) /\ pc' = [u \in Threads |-> pc'[u]]
  BY <1>1, <1>2 DEF BlockInv, BlockOK
<1>5. CallOK(Tail(pc[t])) /\ ToSet(pc[t]) \ {"sched"} = ToSet(Tail(pc[t])) \ {"sched"}
  <2>1. CallOK(pc[t])
    BY <1>1 DEF BlockInv, BlockOK
  <2>2. CASE \E s : pc[t] = <<s>>
    BY <1>1, <2>2, CallFacts DEF CallOK
  <2>3. CASE \E w \in Waits : pc[t] = <<"sched", w>>
    <3>1. PICK w \in Waits : pc[t] = <<"sched", w>>
      BY <2>3
    <3>2. Tail(pc[t]) = <<w>> /\ ToSet(pc[t]) = {"sched", w} /\ ToSet(<<w>>) = {w}
      BY <3>1, CallFacts
    <3> QED
      BY <3>2 DEF CallOK
  <2> QED
    BY <1>1, <2>1, <2>2, <2>3 DEF CallOK
<1>6. \A u \in Threads, w \in Waits : w \in ToSet(pc'[u]) <=> w \in ToSet(pc[u])
  BY <1>4, <1>5, SectionAssumption
<1>7. \A u \in Threads : CallOK(pc'[u])
  BY <1>4, <1>5 DEF BlockInv, BlockOK
<1>8. pc'[Idle] = << >>
  BY <1>1, <1>4, ThreadsAssumption DEF BlockInv, BlockOK
<1>9. \A w \in Waits : ToSet(k'.wait[w]) = {u \in timed : w \in ToSet(pc'[u])}
  BY <1>3, <1>6, WaitersTimed DEF OnCall
<1> QED
  BY <1>2, <1>3, <1>4, <1>6, <1>7, <1>8, <1>9 DEF BlockInv, BlockOK

\* The timer of a suspended thread expires.
LEMMA TimeoutStep ==
  ASSUME BlockInv, NEW u, Timeout(u)
  PROVE  /\ BlockInv' /\ k'.prio = k.prio /\ u \in timed /\ u \in Threads /\ pc' = pc
         /\ \A w \in Waits : k'.wait[w] = Unlinked(k.wait[w], u)
         /\ \A w \in Waits : ToSet(k'.wait[w]) = ToSet(k.wait[w]) \ {u}
<1>1. u \in timed /\ u \in Threads /\ k.stat[u] = "SUSPEND" /\ KernelOK(k, {})
  BY DEF Timeout, BlockInv, BlockOK
<1>2. k' = Schedule(Resume(k, u)) /\ timed' = timed \ {u} /\ pc' = pc
  BY DEF Timeout
<1>3. Resumed(k, Resume(k, u), {u}) /\ \A w \in Waits : Resume(k, u).wait[w] = Unlinked(k.wait[w], u)
  BY <1>1, ResumedOne, ResumeWait
<1> DEFINE y == Resume(k, u)
<1> HIDE DEF y
<1>4. /\ BlockInv' /\ k'.prio = k.prio /\ k'.wait = y.wait
      /\ \A w \in Waits : ToSet(k'.wait[w]) = ToSet(k.wait[w]) \ {u}
  BY <1>1, <1>2, <1>3, ResumedStep DEF y
<1> QED
  BY <1>1, <1>2, <1>3, <1>4 DEF y

\* The time slice of the current thread ends.
LEMMA SliceStep ==
  ASSUME BlockInv, Slice
  PROVE  BlockInv' /\ k'.prio = k.prio /\ k'.wait = k.wait /\ pc' = pc
<1> DEFINE y == [k EXCEPT !.yld[k.cur] = TRUE]
<1>1. k' = Schedule(y) /\ timed' = timed /\ pc' = pc
  BY DEF Slice
<1>2. k \in KernelState /\ KernelOK(k, {})
  BY DEF BlockInv, BlockOK, KernelOK
<1>3. /\ y \in KernelState /\ SameLists(k, y)
      /\ y.stat = k.stat /\ y.prio = k.prio /\ y.mask = k.mask /\ y.cur = k.cur /\ y.lock = k.lock
  <2>1. y = [k EXCEPT !.yld = [k.yld EXCEPT ![k.cur] = TRUE]]
    OBVIOUS
  <2>2. [k.yld EXCEPT ![k.cur] = TRUE] \in [Threads -> BOOLEAN]
    BY <1>2 DEF KernelState
  <2> HIDE DEF y
  <2> QED
    BY <1>2, <2>1, <2>2 DEF KernelState, SameLists
<1> HIDE DEF y
<1>4. KernelOK(y, {})
  BY <1>2, <1>3, FrameOK
<1>5. BlockOK(y, timed, pc)
  BY <1>3, <1>4 DEF BlockInv, BlockOK, SameLists
<1>6. BlockOK(k', timed, pc) /\ k'.wait = y.wait /\ k'.prio = y.prio
  BY <1>1, <1>5, BlockSchedule
<1> QED
  BY <1>1, <1>3, <1>6 DEF BlockInv, SameLists

\* rt_thread_sleep
LEMMA SleepStep ==
  ASSUME BlockInv, NEW t, Sleep(t)
  PROVE  /\ BlockInv' /\ k'.prio = k.prio /\ k'.wait = k.wait /\ t \in Threads /\ pc[t] = << >>
         /\ ToSet(pc'[t]) = {"sched"} /\ \A u \in Threads \ {t} : pc'[u] = pc[u]
<1>1. Live(t) /\ pc[t] = << >>
  BY RunsLive DEF Sleep, Runs
<1>2. t \in Threads \ {Idle} /\ k.stat[t] = "RUNNING"
  BY <1>1, LiveFacts
<1>3. k' = Suspend(k, t) /\ timed' = timed \cup {t} /\ pc' = [pc EXCEPT ![t] = <<"sched">>]
  BY DEF Sleep, Call
<1>4. BlockOK(k, timed, pc)
  BY DEF BlockInv
<1> DEFINE y == Suspend(k, t)
           d == [pc EXCEPT ![t] = <<"sched">>]
<1>5. BlockOK(y, timed \cup {t}, d) /\ y.wait = k.wait /\ y.prio = k.prio
  BY <1>2, <1>4, BlockSleep
<1>6. BlockInv' /\ k'.prio = k.prio /\ k'.wait = k.wait
  BY <1>3, <1>5 DEF BlockInv
<1>7. pc'[t] = <<"sched">> /\ \A u \in Threads \ {t} : pc'[u] = pc[u]
  BY <1>2, <1>3 DEF BlockInv, BlockOK
<1> QED
  BY <1>1, <1>2, <1>6, <1>7, CallFacts

\* The state in which the scheduler starts: every thread is ready.
LEMMA BlockingStart ==
  ASSUME BlockingInit
  PROVE  /\ BlockInv /\ k.prio = BasePrio /\ \A w \in Waits : k.wait[w] = << >>
         /\ pc = [t \in Threads |-> << >>]
<1> DEFINE z == [KernelInit EXCEPT
                   !.stat  = [t \in Threads |-> "READY"],
                   !.prio  = BasePrio,
                   !.mask  = [t \in Threads |-> {BasePrio[t]}],
                   !.ready = [p \in Prio |-> SetToSeq({t \in Threads : BasePrio[t] = p})],
                   !.group = {BasePrio[t] : t \in Threads}]
<1>1. /\ z.stat = [t \in Threads |-> "READY"] /\ z.prio = BasePrio
      /\ z.mask = [t \in Threads |-> {BasePrio[t]}]
      /\ z.ready = [p \in Prio |-> SetToSeq({t \in Threads : BasePrio[t] = p})]
      /\ z.group = {BasePrio[t] : t \in Threads}
      /\ z.wait = [w \in Waits |-> << >>] /\ z.defunct = << >> /\ z.lock = 0 /\ z.cur = NoThread
      /\ z.yld = [t \in Threads |-> FALSE]
  BY DEF KernelInit
<1>2. k = SchedulerStart(z) /\ timed = {} /\ pc = [t \in Threads |-> << >>]
  BY DEF BlockingInit
<1>3. z = [KernelInit EXCEPT !.stat = z.stat, !.prio = z.prio, !.mask = z.mask, !.ready = z.ready,
                             !.group = z.group]
  BY <1>1, Zenon
<1> HIDE DEF z
<1>4. ASSUME NEW p \in Prio
      PROVE  Holds(z.ready[p], {t \in Threads : z.stat[t] = "READY" /\ z.prio[t] = p /\ t \notin {}})
  <2> DEFINE S == {t \in Threads : BasePrio[t] = p}
  <2>1. S \in SUBSET Threads /\ IsFiniteSet(S)
    BY BasePrioAssumption, FS_Subset
  <2>2. S = {t \in Threads : z.stat[t] = "READY" /\ z.prio[t] = p /\ t \notin {}}
    BY <1>1
  <2>3. z.ready[p] = SetToSeq(S)
    BY <1>1
  <2> HIDE DEF S
  <2>4. Links(SetToSeq(S), Threads, S)
    BY <2>1, LinksSetToSeq
  <2> QED
    BY <2>2, <2>3, <2>4 DEF Links, Holds
<1>5. /\ z.stat \in [Threads -> Stats] /\ z.yld \in [Threads -> BOOLEAN]
      /\ z.prio \in [Threads -> Prio] /\ z.mask \in [Threads -> SUBSET Prio]
      /\ z.ready \in [Prio -> Seq(Threads)] /\ z.group \in SUBSET Prio
      /\ z.wait \in [Waits -> Seq(Threads)] /\ z.defunct \in Seq(Threads)
      /\ z.cur \in Threads \cup {NoThread} /\ z.lock \in Nat
  <2>1. \A p \in Prio : z.ready[p] \in Seq(Threads)
    BY <1>4 DEF Holds
  <2>2. z.ready \in [Prio -> Seq(Threads)]
    BY <1>1, <2>1
  <2> QED
    BY <1>1, <2>2, BasePrioAssumption DEF Stats
<1>6. z \in KernelState
  <2>1. KernelInit \in KernelState
    BY KernelInitOK DEF KernelOK
  <2> QED
    BY <1>3, <1>5, <2>1 DEF KernelState
<1>7. GroupOK(z)
  <2>1. ASSUME NEW p \in Prio PROVE p \in z.group <=> z.ready[p] # << >>
    <3> DEFINE S == {t \in Threads : z.stat[t] = "READY" /\ z.prio[t] = p /\ t \notin {}}
    <3>1. Holds(z.ready[p], S)
      BY <1>4
    <3>2. S # {} <=> \E t \in Threads : BasePrio[t] = p
      BY <1>1
    <3> HIDE DEF S
    <3>3. z.ready[p] # << >> <=> S # {}
      BY <3>1, HoldsFacts
    <3> QED
      BY <1>1, <3>2, <3>3
  <2> QED
    BY <1>5, <2>1 DEF GroupOK
<1>8. LinksOK(z, {})
  <2>1. Holds(z.defunct, {t \in Threads : z.stat[t] = "CLOSE" /\ t \notin {}})
    BY <1>1, HoldsEmpty
  <2>2. \A w \in Waits : z.wait[w] = << >> /\ ToSet(z.wait[w]) = {} /\ Holds(z.wait[w], ToSet(z.wait[w]))
    BY <1>1, HoldsEmpty, CallFacts
  <2>3. \A t \in Threads : MaskOK(z, t)
    BY <1>1 DEF MaskOK
  <2> QED
    BY <1>4, <2>1, <2>2, <2>3 DEF LinksOK
<1>9. KernelOK(z, {})
  BY <1>6, <1>7, <1>8 DEF KernelOK
<1>10. z.group # {}
  <2>1. BasePrio[Idle] \in z.group
    BY <1>1, ThreadsAssumption
  <2> QED
    BY <2>1
<1>11. /\ KernelOK(k, {}) /\ k.cur \in Threads
       /\ k.stat = [z.stat EXCEPT ![k.cur] = "RUNNING"] /\ k.lock = z.lock
       /\ k.wait = z.wait /\ k.prio = z.prio
  BY <1>2, <1>9, <1>10, SchedulerStartOK, StartWait
<1>12. \A t \in Threads : k.stat[t] = IF t = k.cur THEN "RUNNING" ELSE "READY"
  BY <1>1, <1>11
<1>13. \A w \in Waits : k.wait[w] = << >> /\ ToSet(k.wait[w]) = {}
  BY <1>1, <1>11, CallFacts
<1>14. timed = {t \in Threads : k.stat[t] = "SUSPEND"}
  BY <1>2, <1>12
<1>15. CallOK(<< >>)
  BY DEF CallOK
<1> QED
  BY <1>1, <1>2, <1>11, <1>12, <1>13, <1>14, <1>15, ThreadsAssumption DEF BlockInv, BlockOK

-----------------------------------------------------------------------------
(* Wake-ups that are not lost *)

\* While list q is not empty, at least n threads T are on their way.
Served(q, n, T) == q # << >> => n <= Cardinality(T)

\* A call is about one object at most.
LEMMA OneObject ==
  ASSUME BlockInv, NEW t \in Threads, NEW v \in Waits, NEW w \in Waits, OnCall(t, v), OnCall(t, w)
  PROVE  v = w
<1>1. CallOK(pc[t]) /\ v # "sched" /\ w # "sched"
  BY SectionAssumption DEF BlockInv, BlockOK
<1>2. CASE pc[t] = << >>
  BY <1>2, CallFacts DEF OnCall
<1>3. CASE \E s : pc[t] = <<s>>
  BY <1>3, CallFacts DEF OnCall
<1>4. CASE \E s \in Waits : pc[t] = <<"sched", s>>
  BY <1>1, <1>4, CallFacts DEF OnCall
<1> QED
  BY <1>1, <1>2, <1>3, <1>4 DEF CallOK

LEMMA WokenFinite ==
  ASSUME NEW T \in SUBSET Threads
  PROVE  /\ IsFiniteSet(T) /\ Cardinality(T) \in Nat
         /\ \A t : Cardinality(T \cup {t}) = IF t \in T THEN Cardinality(T) ELSE Cardinality(T) + 1
         /\ \A t : Cardinality(T \ {t}) = IF t \in T THEN Cardinality(T) - 1 ELSE Cardinality(T)
<1>1. IsFiniteSet(T)
  BY BasePrioAssumption, FS_Subset
<1> QED
  BY <1>1, FS_CardinalityType, FS_AddElement, FS_RemoveElement

\* How a step of threads and lists moves the threads on their way.
LEMMA ServedFrame ==
  ASSUME NEW T \in SUBSET Threads, NEW q, NEW r, r # << >> => q # << >>, NEW n \in Int, Served(q, n, T)
  PROVE  /\ Served(r, n, T) /\ Served(r, n - 1, T)
         /\ \A t : Served(r, n - 1, T \ {t})
         /\ \A t : t \notin T => Served(r, n, T \ {t}) /\ Served(r, n + 1, T \cup {t})
<1>1. /\ Cardinality(T) \in Nat
      /\ \A t : Cardinality(T \cup {t}) = IF t \in T THEN Cardinality(T) ELSE Cardinality(T) + 1
      /\ \A t : Cardinality(T \ {t}) = IF t \in T THEN Cardinality(T) - 1 ELSE Cardinality(T)
  BY WokenFinite
<1> QED
  BY <1>1 DEF Served

LEMMA ServedNone ==
  ASSUME NEW T \in SUBSET Threads, NEW q
  PROVE  Served(q, 0, T) /\ \A n : Served(<< >>, n, T)
  BY WokenFinite DEF Served

\* Thread t joins the list of v; on any other object nothing changes.
LEMMA WokenWait ==
  ASSUME BlockInv, err = [u \in Threads |-> err[u]], NEW t, Live(t), NEW v \in Waits, WaitOn(t, v),
         NEW w \in Waits \ {v}, ~ OnCall(t, w)
  PROVE  Woken(w)' = Woken(w) /\ k'.wait[w] = k.wait[w]
<1>1. /\ Joined(k, k', t, v) /\ t \in Threads /\ ToSet(pc'[t]) = {"sched", v}
      /\ \A u \in Threads \ {t} : pc'[u] = pc[u]
  BY WaitStep
<1>2. err' = [err EXCEPT ![t] = "EINTR"]
  BY DEF WaitOn
<1>3. k'.wait[w] = k.wait[w]
  BY <1>1 DEF Joined
<1>4. \A u \in Threads \ {t} : err'[u] = err[u]
  BY <1>2
<1>5. w \notin ToSet(pc'[t]) /\ w \notin ToSet(pc[t])
  BY <1>1, SectionAssumption DEF OnCall
<1> QED
  BY <1>1, <1>3, <1>4, <1>5 DEF Woken

\* A call goes on in a section of its own or ends, and wakes nobody.
LEMMA WokenCall ==
  ASSUME BlockInv, NEW t, Live(t), NEW s, Call(t, s), Waits \cap ToSet(s) = {}, k' = k,
         \A u \in Threads \ {t} : err'[u] = err[u], NEW w \in Waits
  PROVE  Woken(w)' = Woken(w) \ {t}
<1>1. t \in Threads
  BY LiveFacts
<1>2. pc'[t] = s /\ \A u \in Threads \ {t} : pc'[u] = pc[u]
  BY <1>1 DEF BlockInv, BlockOK, Call
<1> QED
  BY <1>1, <1>2 DEF Woken

\* The first waiter of w is woken; D have left their calls.
LEMMA WokenFirst ==
  ASSUME BlockInv, NEW w \in Waits, NEW D \in SUBSET Threads,
         err' = [t \in Threads |-> IF t \in First(w) THEN "EOK" ELSE err[t]],
         \A v \in Waits : ToSet(k'.wait[v]) = ToSet(k.wait[v]) \ First(w),
         First(w) \subseteq ToSet(k.wait[w]),
         \A u \in Threads \ D : pc'[u] = pc[u],
         \A u \in D, v \in Waits : v \notin ToSet(pc'[u]) /\ u \notin ToSet(k.wait[v])
  PROVE  /\ Woken(w)' = (Woken(w) \ D) \cup First(w)
         /\ First(w) \cap Woken(w) = {}
         /\ \A v \in Waits \ {w} : Woken(v)' = Woken(v) \ D
         /\ \A v \in Waits \ {w} : ToSet(k'.wait[v]) = ToSet(k.wait[v])
<1>1. First(w) \subseteq Threads /\ \A u \in First(w) : OnCall(u, w) /\ u \notin D
  BY WaitersTimed
<1>2. \A v \in Waits \ {w}, u \in First(w) : ~ OnCall(u, v)
  BY <1>1, OneObject
<1>3. \A v \in Waits \ {w}, u \in First(w) : u \notin ToSet(k.wait[v])
  BY <1>2, WaitersTimed
<1>4. Woken(w)' = (Woken(w) \ D) \cup First(w)
  BY <1>1 DEF Woken, OnCall
<1>5. First(w) \cap Woken(w) = {}
  BY DEF Woken
<1>6. ASSUME NEW v \in Waits \ {w}
      PROVE  Woken(v)' = Woken(v) \ D /\ ToSet(k'.wait[v]) = ToSet(k.wait[v])
  <2>1. ToSet(k'.wait[v]) = ToSet(k.wait[v])
    BY <1>3
  <2>2. \A u \in Threads \ D : pc'[u] = pc[u] /\ (v \in ToSet(pc[u]) => err'[u] = err[u])
    BY <1>2 DEF OnCall
  <2> QED
    BY <2>1, <2>2 DEF Woken
<1> QED
  BY <1>4, <1>5, <1>6

\* A list is empty when it has no members.
LEMMA WaitEmpty ==
  ASSUME NEW x, NEW tm, NEW c, BlockOK(x, tm, c), NEW w \in Waits
  PROVE  x.wait[w] = << >> <=> ToSet(x.wait[w]) = {}
<1>1. Holds(x.wait[w], ToSet(x.wait[w]))
  BY DEF BlockOK, KernelOK, LinksOK
<1> QED
  BY <1>1, HoldsFacts

\* An object has one thing more for the waiters of w, and tells the first: a call
\* of t that ends with this.
LEMMA NotifyStep ==
  ASSUME BlockInv, NEW w \in Waits, NEW t, Live(t), ~ OnCall(t, w),
         NEW s, s \in {<< >>, <<"sched">>}, Call(t, s),
         k' = ResumeFirst(k, w), Wake(First(w), "EOK")
  PROVE  /\ BlockInv' /\ k'.prio = k.prio /\ err' = [u \in Threads |-> err'[u]]
         /\ pc'[t] = s /\ \A u \in Threads \ {t} : pc'[u] = pc[u]
         /\ \A n \in Int : Served(k.wait[w], n, Woken(w)) => Served(k'.wait[w], n + 1, Woken(w)')
         /\ \A v \in Waits \ {w}, n \in Int :
               Served(k.wait[v], n, Woken(v)) =>
                  /\ Served(k'.wait[v], n - 1, Woken(v)')
                  /\ ~ OnCall(t, v) => Served(k'.wait[v], n, Woken(v)')
<1>1. /\ t \in Threads /\ timed' = timed \ First(w)
      /\ err' = [u \in Threads |-> IF u \in First(w) THEN "EOK" ELSE err[u]]
      /\ \A v \in Waits : t \notin ToSet(k.wait[v])
  BY LiveFacts DEF Wake
<1>2. CallOK(s) /\ Waits \cap ToSet(s) = {}
  BY CallFacts, SectionAssumption DEF CallOK
<1>3. pc'[t] = s /\ \A u \in Threads \ {t} : pc'[u] = pc[u]
  BY <1>1 DEF Call, BlockInv, BlockOK
<1>4. \E u, r : Live(u) /\ CallOK(r) /\ Call(u, r)
  BY <1>2
<1>5. /\ BlockInv' /\ k'.prio = k.prio
      /\ First(w) \subseteq ToSet(k.wait[w])
      /\ \A v \in Waits : ToSet(k'.wait[v]) = ToSet(k.wait[v]) \ First(w)
      /\ k.wait[w] # << >> => First(w) = {Head(k.wait[w])}
      /\ k.wait[w] = << >> => k'.wait[w] = << >>
  BY <1>1, <1>4, FirstStep
<1>6. {t} \in SUBSET Threads /\ (\A u \in Threads \ {t} : pc'[u] = pc[u])
      /\ \A u \in {t}, v \in Waits : v \notin ToSet(pc'[u]) /\ u \notin ToSet(k.wait[v])
  BY <1>1, <1>2, <1>3
<1>7. /\ Woken(w)' = (Woken(w) \ {t}) \cup First(w) /\ First(w) \cap Woken(w) = {}
      /\ \A v \in Waits \ {w} : Woken(v)' = Woken(v) \ {t}
      /\ \A v \in Waits \ {w} : ToSet(k'.wait[v]) = ToSet(k.wait[v])
  BY <1>1, <1>5, <1>6, WokenFirst
<1>8. \A v \in Waits : Woken(v) \in SUBSET Threads /\ (t \in Woken(v) => OnCall(t, v))
  BY DEF Woken, OnCall
<1>9. ASSUME NEW n \in Int, Served(k.wait[w], n, Woken(w))
      PROVE  Served(k'.wait[w], n + 1, Woken(w)')
  <2>1. CASE k.wait[w] = << >>
    BY <1>5, <2>1 DEF Served
  <2>2. CASE k.wait[w] # << >>
    <3> DEFINE h == Head(k.wait[w])
    <3>1. Woken(w)' = Woken(w) \cup {h} /\ h \notin Woken(w)
      BY <1>5, <1>7, <1>8, <2>2
    <3> HIDE DEF h
    <3>2. Served(k'.wait[w], n + 1, Woken(w) \cup {h})
      BY <1>8, <1>9, <2>2, <3>1, ServedFrame
    <3> QED
      BY <3>1, <3>2
  <2> QED
    BY <2>1, <2>2
<1>10. ASSUME NEW v \in Waits \ {w}, NEW n \in Int, Served(k.wait[v], n, Woken(v))
       PROVE  /\ Served(k'.wait[v], n - 1, Woken(v)')
              /\ ~ OnCall(t, v) => Served(k'.wait[v], n, Woken(v)')
  <2>1. ToSet(k'.wait[v]) = {} <=> k'.wait[v] = << >>
    BY <1>5, WaitEmpty DEF BlockInv
  <2>2. k'.wait[v] # << >> => k.wait[v] # << >>
    BY <1>7, <2>1, WaitEmpty DEF BlockInv
  <2>3. Woken(v)' = Woken(v) \ {t} /\ Woken(v) \in SUBSET Threads /\ (t \in Woken(v) => OnCall(t, v))
    BY <1>7, <1>8
  <2>4. /\ Served(k'.wait[v], n - 1, Woken(v) \ {t})
        /\ t \notin Woken(v) => Served(k'.wait[v], n, Woken(v) \ {t})
    BY <1>10, <2>2, <2>3, ServedFrame
  <2> QED
    BY <2>3, <2>4
<1> QED
  BY <1>1, <1>3, <1>5, <1>9, <1>10

\* The same in a handler.
LEMMA NotifyIsrStep ==
  ASSUME BlockInv, NEW w \in Waits, pc' = pc,
         k' = IF First(w) # {} THEN Schedule(ResumeFirst(k, w)) ELSE k, Wake(First(w), "EOK")
  PROVE  /\ BlockInv' /\ k'.prio = k.prio /\ err' = [u \in Threads |-> err'[u]]
         /\ \A n \in Int : Served(k.wait[w], n, Woken(w)) => Served(k'.wait[w], n + 1, Woken(w)')
         /\ \A v \in Waits \ {w}, n \in Int :
               Served(k.wait[v], n, Woken(v)) => Served(k'.wait[v], n - 1, Woken(v)')
<1>1. /\ timed' = timed \ First(w)
      /\ err' = [u \in Threads |-> IF u \in First(w) THEN "EOK" ELSE err[u]]
  BY DEF Wake
<1>2. First(w) = {} => ResumeFirst(k, w) = k
  BY DEF First, ResumeFirst
<1>5. /\ BlockInv' /\ k'.prio = k.prio
      /\ First(w) \subseteq ToSet(k.wait[w])
      /\ \A v \in Waits : ToSet(k'.wait[v]) = ToSet(k.wait[v]) \ First(w)
      /\ k.wait[w] # << >> => First(w) = {Head(k.wait[w])}
      /\ k.wait[w] = << >> => k'.wait[w] = << >>
  BY <1>1, <1>2, FirstStep
<1>6. {} \in SUBSET Threads /\ (\A u \in Threads \ {} : pc'[u] = pc[u])
      /\ \A u \in {}, v \in Waits : v \notin ToSet(pc'[u]) /\ u \notin ToSet(k.wait[v])
  OBVIOUS
<1>7. /\ Woken(w)' = (Woken(w) \ {}) \cup First(w) /\ First(w) \cap Woken(w) = {}
      /\ \A v \in Waits \ {w} : Woken(v)' = Woken(v) \ {}
      /\ \A v \in Waits \ {w} : ToSet(k'.wait[v]) = ToSet(k.wait[v])
  BY <1>1, <1>5, <1>6, WokenFirst
<1>8. \A v \in Waits : Woken(v) \in SUBSET Threads
  BY DEF Woken
<1>9. ASSUME NEW n \in Int, Served(k.wait[w], n, Woken(w))
      PROVE  Served(k'.wait[w], n + 1, Woken(w)')
  <2>1. CASE k.wait[w] = << >>
    BY <1>5, <2>1 DEF Served
  <2>2. CASE k.wait[w] # << >>
    <3> DEFINE h == Head(k.wait[w])
    <3>1. Woken(w)' = Woken(w) \cup {h} /\ h \notin Woken(w)
      BY <1>5, <1>7, <2>2
    <3> HIDE DEF h
    <3>2. Served(k'.wait[w], n + 1, Woken(w) \cup {h})
      BY <1>8, <1>9, <2>2, <3>1, ServedFrame
    <3> QED
      BY <3>1, <3>2
  <2> QED
    BY <2>1, <2>2
<1>10. ASSUME NEW v \in Waits \ {w}, NEW n \in Int, Served(k.wait[v], n, Woken(v))
       PROVE  Served(k'.wait[v], n - 1, Woken(v)')
  <2>1. ToSet(k'.wait[v]) = {} <=> k'.wait[v] = << >>
    BY <1>5, WaitEmpty DEF BlockInv
  <2>2. k'.wait[v] # << >> => k.wait[v] # << >>
    BY <1>7, <2>1, WaitEmpty DEF BlockInv
  <2>3. Woken(v)' = Woken(v) /\ Woken(v) \in SUBSET Threads
    BY <1>7, <1>8
  <2>4. Served(k'.wait[v], n - 1, Woken(v))
    BY <1>10, <2>2, <2>3, ServedFrame
  <2> QED
    BY <2>3, <2>4
<1> QED
  BY <1>1, <1>5, <1>9, <1>10

\* A call of t goes on or ends: it has taken one of the things that are there.
LEMMA TakenStep ==
  ASSUME BlockInv, NEW t, Live(t), NEW s, CallOK(s), Call(t, s), Waits \cap ToSet(s) = {}, k' = k,
         timed' = timed, \A u \in Threads \ {t} : err'[u] = err[u]
  PROVE  /\ BlockInv' /\ pc'[t] = s /\ \A u \in Threads \ {t} : pc'[u] = pc[u]
         /\ \A w \in Waits, n \in Int :
               Served(k.wait[w], n, Woken(w)) =>
                  /\ Served(k'.wait[w], n - 1, Woken(w)')
                  /\ ~ OnCall(t, w) \/ err[t] # "EOK" => Served(k'.wait[w], n, Woken(w)')
<1>1. t \in Threads /\ BlockInv'
  BY LiveFacts, CallStep
<1>2. pc'[t] = s /\ \A u \in Threads \ {t} : pc'[u] = pc[u]
  BY <1>1 DEF Call, BlockInv, BlockOK
<1>3. ASSUME NEW w \in Waits, NEW n \in Int, Served(k.wait[w], n, Woken(w))
      PROVE  /\ Served(k'.wait[w], n - 1, Woken(w)')
             /\ ~ OnCall(t, w) \/ err[t] # "EOK" => Served(k'.wait[w], n, Woken(w)')
  <2>1. Woken(w)' = Woken(w) \ {t}
    BY WokenCall
  <2>2. Woken(w) \in SUBSET Threads /\ (t \in Woken(w) => OnCall(t, w) /\ err[t] = "EOK")
    BY DEF Woken, OnCall
  <2>3. k'.wait[w] # << >> => k.wait[w] # << >>
    OBVIOUS
  <2>4. /\ Served(k'.wait[w], n - 1, Woken(w) \ {t})
        /\ t \notin Woken(w) => Served(k'.wait[w], n, Woken(w) \ {t})
    BY <1>3, <2>2, <2>3, ServedFrame, ZenonT(30)
  <2> QED
    BY <2>1, <2>2, <2>4
<1> QED
  BY <1>1, <1>2, <1>3

\* Steps that are none of the object's: rt_schedule, a time slice, a timeout.
LEMMA WokenKept ==
  ASSUME BlockInv, err = [u \in Threads |-> err[u]],
         Slice \/ \E t \in Threads : DoSchedule(t) \/ Timeout(t)
  PROVE  /\ BlockInv' /\ k'.prio = k.prio /\ err' = [u \in Threads |-> err'[u]]
         /\ \A u \in Threads, w \in Waits : w \in ToSet(pc'[u]) <=> w \in ToSet(pc[u])
         /\ \A w \in Waits : Woken(w)' = Woken(w) /\ (k.wait[w] = << >> => k'.wait[w] = << >>)
<1> DEFINE Kept == /\ BlockInv' /\ k'.prio = k.prio /\ err' = [u \in Threads |-> err'[u]]
                   /\ \A u \in Threads, w \in Waits : w \in ToSet(pc'[u]) <=> w \in ToSet(pc[u])
                   /\ \A w \in Waits : Woken(w)' = Woken(w) /\ (k.wait[w] = << >> => k'.wait[w] = << >>)
<1>1. CASE Slice
  <2>1. BlockInv' /\ k'.prio = k.prio /\ k'.wait = k.wait /\ pc' = pc /\ err' = err
    BY <1>1, SliceStep DEF Slice
  <2>2. \A w \in Waits : Woken(w)' = Woken(w)
    BY <2>1 DEF Woken
  <2> QED
    BY <2>1, <2>2
<1>2. ASSUME NEW t \in Threads, DoSchedule(t) PROVE Kept
  <2>1. BlockInv' /\ k'.prio = k.prio /\ k'.wait = k.wait /\ err' = err
        /\ \A u \in Threads, w \in Waits : w \in ToSet(pc'[u]) <=> w \in ToSet(pc[u])
    BY <1>2, DoScheduleStep DEF DoSchedule
  <2>2. \A w \in Waits : Woken(w)' = Woken(w)
    BY <2>1 DEF Woken
  <2> QED
    BY <2>1, <2>2
<1>3. ASSUME NEW t \in Threads, Timeout(t) PROVE Kept
  <2>1. BlockInv' /\ k'.prio = k.prio /\ t \in timed /\ pc' = pc
        /\ \A w \in Waits : ToSet(k'.wait[w]) = ToSet(k.wait[w]) \ {t}
    BY <1>3, TimeoutStep
  <2>2. err' = IF Waits \cap ToSet(pc[t]) # {} THEN [err EXCEPT ![t] = "ETIMEOUT"] ELSE err
    BY <1>3 DEF Timeout
  <2>3. err' = [u \in Threads |-> err'[u]] /\ \A u \in Threads \ {t} : err'[u] = err[u]
    BY <2>2
  <2>4. \A w \in Waits : k'.wait[w] = << >> <=> ToSet(k'.wait[w]) = {}
    BY <2>1, WaitEmpty DEF BlockInv
  <2>5. \A w \in Waits : k.wait[w] = << >> => k'.wait[w] = << >>
    BY <2>1, <2>4, WaitEmpty DEF BlockInv
  <2>6. ASSUME NEW w \in Waits PROVE Woken(w)' = Woken(w)
    <3>1. w \in ToSet(pc[t]) => t \in ToSet(k.wait[w]) /\ err'[t] = "ETIMEOUT"
      BY <2>1, <2>2, WaitersTimed DEF OnCall
    <3>2. t \notin Woken(w) /\ t \notin Woken(w)'
      BY <2>1, <3>1 DEF Woken
    <3>3. \A u \in Threads \ {t} : u \in Woken(w) <=> u \in Woken(w)'
      BY <2>1, <2>3 DEF Woken
    <3> QED
      BY <3>2, <3>3 DEF Woken
  <2> QED
    BY <2>1, <2>3, <2>5, <2>6
<1> QED
  BY <1>1, <1>2, <1>3
=============================================================================
