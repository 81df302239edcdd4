---------------------------- MODULE KernelProofs ----------------------------
(***************************************************************************)
(* What the operators of module Kernel preserve.                           *)
(***************************************************************************)
EXTENDS KernelInv, ListProofs

-----------------------------------------------------------------------------
(* Lists *)

\* A list is empty exactly when it holds nothing; its head is one it holds.
LEMMA HoldsFacts ==
  ASSUME NEW S, NEW s, Holds(s, S)
  PROVE  /\ s \in Seq(Threads)
         /\ S \subseteq Threads
         /\ s = << >> <=> S = {}
         /\ s # << >> => Head(s) \in S
<1> QED
  BY DEF Holds, ToSet

\* The empty list.
LEMMA HoldsEmpty == Holds(<< >>, {})
<1> QED
  BY DEF Holds, ToSet, IsInjective

\* Unlinking a thread.
LEMMA HoldsUnlinked ==
  ASSUME NEW S, NEW s, Holds(s, S), NEW t \in Threads
  PROVE  Holds(Unlinked(s, t), S \ {t})
  BY LinksUnlinked DEF Holds, Links

\* Inserting a thread that is not there: sorted, at the head, at the tail.
LEMMA HoldsInsert ==
  ASSUME NEW S, NEW s, Holds(s, S), NEW t \in Threads \ S
  PROVE  /\ \A I \in SUBSET DOMAIN s : Holds(InsertBeforeFirst(s, I, t), S \cup {t})
         /\ Holds(<<t>> \o s, S \cup {t})
         /\ Holds(Append(s, t), S \cup {t})
<1>1. Links(s, Threads, S)
  BY DEF Holds, Links
<1>2. /\ \A I \in SUBSET DOMAIN s : Links(InsertBeforeFirst(s, I, t), Threads, S \cup {t})
      /\ Links(<<t>> \o s, Threads, S \cup {t})
      /\ Links(Append(s, t), Threads, S \cup {t})
  BY <1>1, LinksInsert
<1> QED
  BY <1>2 DEF Holds, Links

-----------------------------------------------------------------------------
(* The functions of scheduler_up.c, thread.c and ipc.c *)

\* x and y differ at most in their lists.
SameThreads(x, y) ==
    /\ y.stat = x.stat /\ y.yld = x.yld /\ y.prio = x.prio /\ y.mask = x.mask
    /\ y.cur = x.cur /\ y.lock = x.lock

\* x and y have the same lists.
SameLists(x, y) ==
    y.ready = x.ready /\ y.group = x.group /\ y.wait = x.wait /\ y.defunct = x.defunct

\* x and y differ at most in their lists and in the state word of t, s in y.
Restat(x, y, t, s) ==
    /\ y.stat = [x.stat EXCEPT ![t] = s]
    /\ y.yld = x.yld /\ y.prio = x.prio /\ y.mask = x.mask
    /\ y.cur = x.cur /\ y.lock = x.lock

\* The record a function returns is a kernel state, field by field.
LEMMA KernelStateFields ==
  ASSUME NEW x
  PROVE  x \in KernelState =>
           /\ x.stat \in [Threads -> Stats] /\ x.yld \in [Threads -> BOOLEAN]
           /\ x.prio \in [Threads -> Prio] /\ x.mask \in [Threads -> SUBSET Prio]
           /\ x.ready \in [Prio -> Seq(Threads)] /\ x.group \in SUBSET Prio
           /\ x.wait \in [Waits -> Seq(Threads)] /\ x.defunct \in Seq(Threads)
           /\ x.cur \in Threads \cup {NoThread} /\ x.lock \in Nat
<1> QED
  BY DEF KernelState

\* The links concern only the lists and the state, priority and mask of threads.
LEMMA LinksFrame ==
  ASSUME NEW X, NEW x, NEW y, LinksOK(x, X),
         y.ready = x.ready, y.wait = x.wait, y.defunct = x.defunct,
         y.stat = x.stat, y.prio = x.prio, y.mask = x.mask
  PROVE  LinksOK(y, X)
<1>1. \A p \in Prio :
        {t \in Threads : y.stat[t] = "READY" /\ y.prio[t] = p /\ t \notin X}
          = {t \in Threads : x.stat[t] = "READY" /\ x.prio[t] = p /\ t \notin X}
  OBVIOUS
<1>2. {t \in Threads : y.stat[t] = "CLOSE" /\ t \notin X}
        = {t \in Threads : x.stat[t] = "CLOSE" /\ t \notin X}
  OBVIOUS
<1> QED
  BY <1>1, <1>2, Zenon DEF LinksOK, MaskOK

\* rt_list_remove(&thread->tlist): all lists without t, the group as it was.
LEMMA ListRemoveLinks ==
  ASSUME NEW X, NEW x, x \in KernelState, LinksOK(x, X), NEW t \in Threads,
         NEW y, y = ListRemove(x, t)
  PROVE  /\ y \in KernelState /\ LinksOK(y, X \cup {t})
         /\ SameThreads(x, y) /\ y.group = x.group
         /\ \A p \in Prio : t \notin ToSet(x.ready[p]) => y.ready[p] = x.ready[p]
         /\ \A w \in Waits : ToSet(y.wait[w]) = ToSet(x.wait[w]) \ {t}
<1>2. /\ y.ready = [p \in Prio |-> Unlinked(x.ready[p], t)]
      /\ y.wait = [w \in Waits |-> Unlinked(x.wait[w], t)]
      /\ y.defunct = Unlinked(x.defunct, t)
      /\ y.group = x.group
      /\ SameThreads(x, y)
  BY DEF ListRemove, KernelState, SameThreads
<1>3. \A p \in Prio : t \notin ToSet(x.ready[p]) => y.ready[p] = x.ready[p]
  BY <1>2 DEF Unlinked
<1>4. \A p \in Prio : Holds(y.ready[p], {u \in Threads : y.stat[u] = "READY" /\ y.prio[u] = p
                                                           /\ u \notin X \cup {t}})
  <2> SUFFICES ASSUME NEW p \in Prio
               PROVE  Holds(y.ready[p], {u \in Threads : y.stat[u] = "READY" /\ y.prio[u] = p
                                                           /\ u \notin X \cup {t}})
    OBVIOUS
  <2> DEFINE R == {u \in Threads : x.stat[u] = "READY" /\ x.prio[u] = p /\ u \notin X}
  <2>1. Holds(x.ready[p], R)
    BY DEF LinksOK
  <2>2. {u \in Threads : y.stat[u] = "READY" /\ y.prio[u] = p /\ u \notin X \cup {t}} = R \ {t}
    BY <1>2 DEF SameThreads
  <2>3. Holds(Unlinked(x.ready[p], t), R \ {t})
    BY <2>1, HoldsUnlinked
  <2> QED
    BY <1>2, <2>2, <2>3
<1>5. Holds(y.defunct, {u \in Threads : y.stat[u] = "CLOSE" /\ u \notin X \cup {t}})
  <2>1. Holds(y.defunct, {u \in Threads : x.stat[u] = "CLOSE" /\ u \notin X} \ {t})
    BY <1>2, HoldsUnlinked DEF LinksOK
  <2>2. {u \in Threads : y.stat[u] = "CLOSE" /\ u \notin X \cup {t}}
          = {u \in Threads : x.stat[u] = "CLOSE" /\ u \notin X} \ {t}
    BY <1>2 DEF SameThreads
  <2> QED
    BY <2>1, <2>2
<1>6. \A w \in Waits : Holds(y.wait[w], ToSet(x.wait[w]) \ {t})
  BY <1>2, HoldsUnlinked DEF LinksOK
<1>7. \A w \in Waits : ToSet(y.wait[w]) = ToSet(x.wait[w]) \ {t}
  BY <1>6 DEF Holds
<1>8. y \in KernelState
  <2>1. \A p \in Prio : Unlinked(x.ready[p], t) \in Seq(Threads)
    BY <1>2, <1>4 DEF Holds
  <2>2. y.ready \in [Prio -> Seq(Threads)]
    BY <1>2, <2>1
  <2>3. y.wait \in [Waits -> Seq(Threads)]
    BY <1>2, <1>6, HoldsFacts
  <2>4. y.defunct \in Seq(Threads)
    BY <1>5, HoldsFacts
  <2>5. y = [x EXCEPT !.ready = y.ready, !.wait = y.wait, !.defunct = y.defunct]
    BY <1>2 DEF ListRemove
  <2> QED
    BY <2>2, <2>3, <2>4, <2>5 DEF KernelState
<1>9. LinksOK(y, X \cup {t})
  <2>1. \A w \in Waits : Holds(y.wait[w], ToSet(y.wait[w]))
    BY <1>6, <1>7
  <2>2. \A w \in Waits : \A u \in ToSet(x.wait[w]) : x.stat[u] = "SUSPEND" /\ u \notin X
    BY DEF LinksOK
  <2>3. \A w \in Waits : \A u \in ToSet(y.wait[w]) : y.stat[u] = "SUSPEND" /\ u \notin X \cup {t}
    BY <1>2, <1>7, <2>2 DEF SameThreads
  <2>4. \A v, w \in Waits : v # w => ToSet(y.wait[v]) \cap ToSet(y.wait[w]) = {}
    BY <1>7 DEF LinksOK
  <2>5. \A u \in Threads : y.stat[u] \in {"READY", "RUNNING", "SUSPEND"} => MaskOK(y, u)
    BY <1>2 DEF LinksOK, SameThreads, MaskOK
  <2> QED
    BY <1>4, <1>5, <2>1, <2>3, <2>4, <2>5 DEF LinksOK
<1> QED
  BY <1>2, <1>3, <1>7, <1>8, <1>9

\* rt_list_remove on a thread that is in no ready list.
LEMMA ListRemoveOK ==
  ASSUME NEW X, NEW x, KernelOK(x, X), NEW t \in Threads, x.stat[t] # "READY" \/ t \in X
  PROVE  /\ KernelOK(ListRemove(x, t), X \cup {t})
         /\ SameThreads(x, ListRemove(x, t))
<1> DEFINE y == ListRemove(x, t)
<1>1. x \in KernelState /\ GroupOK(x) /\ LinksOK(x, X)
  BY DEF KernelOK
<1>2. /\ y \in KernelState /\ LinksOK(y, X \cup {t})
      /\ SameThreads(x, y) /\ y.group = x.group
      /\ \A p \in Prio : t \notin ToSet(x.ready[p]) => y.ready[p] = x.ready[p]
  BY <1>1, ListRemoveLinks
<1>3. \A p \in Prio : t \notin ToSet(x.ready[p])
  BY <1>1 DEF LinksOK, Holds
<1> HIDE DEF y
<1>4. GroupOK(y)
  BY <1>1, <1>2, <1>3 DEF GroupOK
<1> QED
  BY <1>2, <1>4 DEF y, KernelOK

\* rt_schedule_remove_thread on a thread that has been started.
LEMMA RemoveThreadOK ==
  ASSUME NEW X, NEW x, KernelOK(x, X), NEW t \in Threads,
         x.stat[t] \in {"READY", "RUNNING", "SUSPEND"}
  PROVE  /\ KernelOK(RemoveThread(x, t), X \cup {t})
         /\ SameThreads(x, RemoveThread(x, t))
<1> DEFINE u == ListRemove(x, t)
           y == RemoveThread(x, t)
           q == x.prio[t]
<1>1. x \in KernelState /\ GroupOK(x) /\ LinksOK(x, X)
  BY DEF KernelOK
<1>2. /\ u \in KernelState /\ LinksOK(u, X \cup {t})
      /\ SameThreads(x, u) /\ u.group = x.group
      /\ \A p \in Prio : t \notin ToSet(x.ready[p]) => u.ready[p] = x.ready[p]
  BY <1>1, ListRemoveLinks
<1>3. \A p \in Prio : p # q => t \notin ToSet(x.ready[p])
  BY <1>1 DEF LinksOK, Holds
<1>4. q \in Prio /\ x.mask[t] = {q}
  BY <1>1 DEF LinksOK, KernelState, MaskOK
<1>5. y = [u EXCEPT !.group = IF u.ready[q] = << >> THEN @ \ x.mask[t] ELSE @]
  BY DEF RemoveThread
<1> HIDE DEF u, y, q
<1>6. /\ y \in KernelState /\ SameThreads(u, y)
      /\ y.ready = u.ready /\ y.wait = u.wait /\ y.defunct = u.defunct
      /\ y.group = IF u.ready[q] = << >> THEN u.group \ {q} ELSE u.group
  BY <1>2, <1>4, <1>5 DEF KernelState, SameThreads
<1>7. LinksOK(y, X \cup {t})
  BY <1>2, <1>6, LinksFrame DEF SameThreads
<1>8. GroupOK(y)
  <2>1. \A p \in Prio : p # q => u.ready[p] = x.ready[p]
    BY <1>2, <1>3
  <2>2. u.ready[q] # << >> => x.ready[q] # << >>
    <3>1. CASE t \in ToSet(x.ready[q])
      BY <1>1, <1>4, <3>1, HoldsEmpty DEF LinksOK, Holds
    <3>2. CASE t \notin ToSet(x.ready[q])
      BY <1>2, <1>4, <3>2
    <3> QED
      BY <3>1, <3>2
  <2>3. x.group = {p \in Prio : x.ready[p] # << >>}
    BY <1>1 DEF GroupOK
  <2>4. ASSUME NEW p \in Prio PROVE p \in y.group <=> y.ready[p] # << >>
    <3>1. CASE p = q
      BY <1>2, <1>4, <1>6, <2>2, <2>3, <3>1
    <3>2. CASE p # q
      BY <1>2, <1>6, <2>1, <2>3, <3>2
    <3> QED
      BY <3>1, <3>2
  <2>5. y.group \subseteq Prio
    BY <1>6 DEF KernelState
  <2> QED
    BY <2>4, <2>5 DEF GroupOK
<1>9. SameThreads(x, y)
  BY <1>2, <1>6 DEF SameThreads
<1> QED
  BY <1>6, <1>7, <1>8, <1>9 DEF y, KernelOK

\* Only the words of an unlinked thread change.
LEMMA RelabelOK ==
  ASSUME NEW X, NEW x, NEW y, NEW t \in Threads, KernelOK(x, X \cup {t}), y \in KernelState,
         SameLists(x, y),
         \A u \in Threads \ {t} : y.stat[u] = x.stat[u] /\ y.prio[u] = x.prio[u]
                                                        /\ y.mask[u] = x.mask[u],
         y.stat[t] \in {"READY", "RUNNING", "SUSPEND"} => MaskOK(y, t)
  PROVE  KernelOK(y, X \cup {t})
<1>1. x \in KernelState /\ GroupOK(x) /\ LinksOK(x, X \cup {t})
  BY DEF KernelOK
<1>2. GroupOK(y)
  BY <1>1 DEF GroupOK, SameLists
<1>3. \A p \in Prio :
        {u \in Threads : y.stat[u] = "READY" /\ y.prio[u] = p /\ u \notin X \cup {t}}
          = {u \in Threads : x.stat[u] = "READY" /\ x.prio[u] = p /\ u \notin X \cup {t}}
  OBVIOUS
<1>4. {u \in Threads : y.stat[u] = "CLOSE" /\ u \notin X \cup {t}}
        = {u \in Threads : x.stat[u] = "CLOSE" /\ u \notin X \cup {t}}
  OBVIOUS
<1>5. \A w \in Waits : \A u \in ToSet(y.wait[w]) : y.stat[u] = "SUSPEND" /\ u \notin X \cup {t}
  <2> SUFFICES ASSUME NEW w \in Waits, NEW u \in ToSet(x.wait[w])
               PROVE  y.stat[u] = "SUSPEND" /\ u \notin X \cup {t}
    BY DEF SameLists
  <2>1. x.stat[u] = "SUSPEND" /\ u \notin X \cup {t}
    BY <1>1 DEF LinksOK
  <2>2. u \in Threads
    BY <1>1 DEF LinksOK, Holds, ToSet
  <2> QED
    BY <2>1, <2>2
<1>6. \A u \in Threads : y.stat[u] \in {"READY", "RUNNING", "SUSPEND"} => MaskOK(y, u)
  BY <1>1 DEF LinksOK, MaskOK
<1>7. LinksOK(y, X \cup {t})
  <2>1. \A p \in Prio : Holds(y.ready[p], {u \in Threads : y.stat[u] = "READY" /\ y.prio[u] = p
                                                              /\ u \notin X \cup {t}})
    BY <1>1, <1>3 DEF LinksOK, SameLists
  <2>2. Holds(y.defunct, {u \in Threads : y.stat[u] = "CLOSE" /\ u \notin X \cup {t}})
    BY <1>1, <1>4 DEF LinksOK, SameLists
  <2>3. /\ \A w \in Waits : Holds(y.wait[w], ToSet(y.wait[w]))
        /\ \A v, w \in Waits : v # w => ToSet(y.wait[v]) \cap ToSet(y.wait[w]) = {}
    BY <1>1 DEF LinksOK, SameLists
  <2> QED
    BY <1>5, <1>6, <2>1, <2>2, <2>3 DEF LinksOK
<1> QED
  BY <1>2, <1>7 DEF KernelOK

\* An unlinked thread that is neither READY nor closed is where it belongs, and
\* a thread in no list may be counted as unlinked.
LEMMA ReleaseOK ==
  ASSUME NEW X, NEW x, NEW t \in Threads, KernelOK(x, X \cup {t}),
         x.stat[t] \notin {"READY", "CLOSE"}
  PROVE  KernelOK(x, X \ {t})
<1>1. x \in KernelState /\ GroupOK(x) /\ LinksOK(x, X \cup {t})
  BY DEF KernelOK
<1>2. \A p \in Prio :
        {u \in Threads : x.stat[u] = "READY" /\ x.prio[u] = p /\ u \notin X \ {t}}
          = {u \in Threads : x.stat[u] = "READY" /\ x.prio[u] = p /\ u \notin X \cup {t}}
  OBVIOUS
<1>3. {u \in Threads : x.stat[u] = "CLOSE" /\ u \notin X \ {t}}
        = {u \in Threads : x.stat[u] = "CLOSE" /\ u \notin X \cup {t}}
  OBVIOUS
<1>4. LinksOK(x, X \ {t})
  BY <1>1, <1>2, <1>3 DEF LinksOK
<1> QED
  BY <1>1, <1>4 DEF KernelOK

\* rt_schedule_insert_thread on an unlinked thread that has been started.
LEMMA InsertThreadOK ==
  ASSUME NEW X, NEW x, NEW t \in Threads, KernelOK(x, X \cup {t}), MaskOK(x, t)
  PROVE  /\ KernelOK(InsertThread(x, t), X \ {t})
         /\ Restat(x, InsertThread(x, t), t, IF t = x.cur THEN "RUNNING" ELSE "READY")
         /\ InsertThread(x, t).wait = x.wait
<1> DEFINE y == InsertThread(x, t)
<1> HIDE DEF y
<1>1. x \in KernelState /\ GroupOK(x) /\ LinksOK(x, X \cup {t})
  BY DEF KernelOK
<1>2. CASE t = x.cur
  <2>1. y = [x EXCEPT !.stat[t] = "RUNNING"]
    BY <1>2 DEF y, InsertThread
  <2>2. /\ y \in KernelState /\ SameLists(x, y)
        /\ y.stat = [x.stat EXCEPT ![t] = "RUNNING"]
        /\ y.yld = x.yld /\ y.prio = x.prio /\ y.mask = x.mask
        /\ y.cur = x.cur /\ y.lock = x.lock
    <3>1. y = [x EXCEPT !.stat = [x.stat EXCEPT ![t] = "RUNNING"]]
      BY <2>1
    <3>2. [x.stat EXCEPT ![t] = "RUNNING"] \in [Threads -> Stats]
      BY <1>1 DEF KernelState, Stats
    <3> QED
      BY <1>1, <3>1, <3>2 DEF KernelState, SameLists
  <2>3. y.stat[t] = "RUNNING" /\ \A u \in Threads \ {t} : y.stat[u] = x.stat[u]
    BY <1>1, <2>2 DEF KernelState
  <2>4. KernelOK(y, X \cup {t})
    <3>1. \A u \in Threads \ {t} : y.stat[u] = x.stat[u] /\ y.prio[u] = x.prio[u]
                                                         /\ y.mask[u] = x.mask[u]
      BY <2>2, <2>3
    <3>2. MaskOK(y, t)
      BY <2>2 DEF MaskOK
    <3>3. y \in KernelState /\ SameLists(x, y)
      BY <2>2
    <3> QED
      BY <3>1, <3>2, <3>3, RelabelOK
  <2>5. KernelOK(y, X \ {t})
    BY <2>3, <2>4, ReleaseOK
  <2> QED
    BY <1>2, <2>2, <2>5 DEF y, SameLists, Restat
<1>3. CASE t # x.cur
  <2> DEFINE q == x.prio[t]
             l == IF x.yld[t] THEN Append(x.ready[q], t) ELSE <<t>> \o x.ready[q]
             R(p) == {u \in Threads : x.stat[u] = "READY" /\ x.prio[u] = p /\ u \notin X \cup {t}}
  <2>1. q \in Prio /\ x.ready[q] \in Seq(Threads) /\ l \in Seq(Threads)
    BY <1>1 DEF KernelState
  <2>2. y = [x EXCEPT !.stat[t] = "READY", !.ready[q] = l, !.group = @ \cup {q}]
    BY <1>3 DEF y, InsertThread, MaskOK
  <2>3. /\ y \in KernelState
        /\ y.ready = [x.ready EXCEPT ![q] = l] /\ y.group = x.group \cup {q}
        /\ y.wait = x.wait /\ y.defunct = x.defunct
        /\ y.stat = [x.stat EXCEPT ![t] = "READY"]
        /\ y.yld = x.yld /\ y.prio = x.prio /\ y.mask = x.mask
        /\ y.cur = x.cur /\ y.lock = x.lock
    <3>1. y = [x EXCEPT !.stat = [x.stat EXCEPT ![t] = "READY"],
                        !.ready = [x.ready EXCEPT ![q] = l], !.group = x.group \cup {q}]
      BY <2>2
    <3>2. /\ [x.stat EXCEPT ![t] = "READY"] \in [Threads -> Stats]
          /\ [x.ready EXCEPT ![q] = l] \in [Prio -> Seq(Threads)]
          /\ x.group \cup {q} \in SUBSET Prio
      BY <1>1, <2>1 DEF KernelState, Stats
    <3> HIDE DEF l, q
    <3> QED
      BY <1>1, <3>1, <3>2 DEF KernelState
  <2>4. Holds(l, R(q) \cup {t})
    <3>1. Holds(x.ready[q], R(q)) /\ t \in Threads \ R(q)
      BY <1>1, <2>1 DEF LinksOK
    <3> QED
      BY <3>1, HoldsInsert
  <2>5. l # << >>
    <3> HIDE DEF l, R
    <3> QED
      BY <2>4, HoldsFacts
  <2> HIDE DEF l
  <2>6. y.stat[t] = "READY" /\ \A u \in Threads \ {t} : y.stat[u] = x.stat[u]
    BY <1>1, <2>3 DEF KernelState
  <2>7. y.ready[q] = l /\ \A p \in Prio \ {q} : y.ready[p] = x.ready[p]
    BY <1>1, <2>1, <2>3 DEF KernelState
  <2>8. GroupOK(y)
    BY <1>1, <2>1, <2>3, <2>5, <2>7 DEF GroupOK
  <2>9. \A p \in Prio : Holds(y.ready[p], {u \in Threads : y.stat[u] = "READY" /\ y.prio[u] = p
                                                              /\ u \notin X \ {t}})
    <3> SUFFICES ASSUME NEW p \in Prio
                 PROVE  Holds(y.ready[p], {u \in Threads : y.stat[u] = "READY" /\ y.prio[u] = p
                                                              /\ u \notin X \ {t}})
      OBVIOUS
    <3>1. CASE p = q
      <4>1. {u \in Threads : y.stat[u] = "READY" /\ y.prio[u] = p /\ u \notin X \ {t}} = R(q) \cup {t}
        BY <2>3, <2>6, <3>1
      <4> QED
        BY <2>4, <2>7, <3>1, <4>1
    <3>2. CASE p # q
      <4>1. {u \in Threads : y.stat[u] = "READY" /\ y.prio[u] = p /\ u \notin X \ {t}} = R(p)
        BY <2>3, <2>6, <3>2
      <4>2. Holds(x.ready[p], R(p))
        BY <1>1 DEF LinksOK
      <4> QED
        BY <2>7, <3>2, <4>1, <4>2
    <3> QED
      BY <3>1, <3>2
  <2>10. Holds(y.defunct, {u \in Threads : y.stat[u] = "CLOSE" /\ u \notin X \ {t}})
    <3>1. {u \in Threads : y.stat[u] = "CLOSE" /\ u \notin X \ {t}}
            = {u \in Threads : x.stat[u] = "CLOSE" /\ u \notin X \cup {t}}
      BY <2>6
    <3> QED
      BY <1>1, <2>3, <3>1 DEF LinksOK
  <2>11. \A w \in Waits : \A u \in ToSet(y.wait[w]) : y.stat[u] = "SUSPEND" /\ u \notin X \ {t}
    <3> SUFFICES ASSUME NEW w \in Waits, NEW u \in ToSet(x.wait[w])
                 PROVE  y.stat[u] = "SUSPEND" /\ u \notin X \ {t}
      BY <2>3
    <3>1. x.stat[u] = "SUSPEND" /\ u \notin X \cup {t}
      BY <1>1 DEF LinksOK
    <3>2. u \in Threads
      BY <1>1 DEF LinksOK, Holds, ToSet
    <3> QED
      BY <2>6, <3>1, <3>2
  <2>12. \A u \in Threads : y.stat[u] \in {"READY", "RUNNING", "SUSPEND"} => MaskOK(y, u)
    BY <1>1, <2>3, <2>6 DEF LinksOK, MaskOK
  <2>13. /\ \A w \in Waits : Holds(y.wait[w], ToSet(y.wait[w]))
         /\ \A v, w \in Waits : v # w => ToSet(y.wait[v]) \cap ToSet(y.wait[w]) = {}
    BY <1>1, <2>3 DEF LinksOK
  <2>14. LinksOK(y, X \ {t})
    BY <2>9, <2>10, <2>11, <2>12, <2>13 DEF LinksOK
  <2> QED
    BY <1>3, <2>3, <2>8, <2>14 DEF y, KernelOK, Restat
<1> QED
  BY <1>2, <1>3

\* A thread in no list may be counted as unlinked.
LEMMA UnlinkedOK ==
  ASSUME NEW X, NEW x, KernelOK(x, X), NEW t \in Threads,
         x.stat[t] \in {"NONE", "INIT", "RUNNING"}
  PROVE  KernelOK(x, X \cup {t})
<1>1. x \in KernelState /\ GroupOK(x) /\ LinksOK(x, X)
  BY DEF KernelOK
<1>2. \A p \in Prio :
        {u \in Threads : x.stat[u] = "READY" /\ x.prio[u] = p /\ u \notin X \cup {t}}
          = {u \in Threads : x.stat[u] = "READY" /\ x.prio[u] = p /\ u \notin X}
  OBVIOUS
<1>3. {u \in Threads : x.stat[u] = "CLOSE" /\ u \notin X \cup {t}}
        = {u \in Threads : x.stat[u] = "CLOSE" /\ u \notin X}
  OBVIOUS
<1>4. \A w \in Waits : \A u \in ToSet(x.wait[w]) : x.stat[u] = "SUSPEND" /\ u \notin X \cup {t}
  <2> SUFFICES ASSUME NEW w \in Waits, NEW u \in ToSet(x.wait[w])
               PROVE  x.stat[u] = "SUSPEND" /\ u \notin X \cup {t}
    OBVIOUS
  <2>1. x.stat[u] = "SUSPEND" /\ u \notin X
    BY <1>1 DEF LinksOK
  <2> QED
    BY <2>1
<1>5. LinksOK(x, X \cup {t})
  BY <1>1, <1>2, <1>3, <1>4 DEF LinksOK
<1> QED
  BY <1>1, <1>5 DEF KernelOK

\* The current thread, the scheduler lock and the YIELD bits concern no list.
LEMMA FrameOK ==
  ASSUME NEW X, NEW x, NEW y, KernelOK(x, X), y \in KernelState, SameLists(x, y),
         y.stat = x.stat, y.prio = x.prio, y.mask = x.mask
  PROVE  KernelOK(y, X)
<1>1. GroupOK(y)
  BY DEF KernelOK, GroupOK, SameLists
<1>2. LinksOK(y, X)
  BY LinksFrame DEF KernelOK, SameLists
<1> QED
  BY <1>1, <1>2 DEF KernelOK

SetStat(x, t, s) == [x EXCEPT !.stat[t] = s]

\* Setting the state word of a thread just unlinked.
LEMMA SetStatOK ==
  ASSUME NEW X, NEW x, NEW t \in Threads, KernelOK(x, X \cup {t}),
         NEW s \in {"RUNNING", "SUSPEND"}, MaskOK(x, t)
  PROVE  /\ KernelOK(SetStat(x, t, s), X \cup {t}) /\ KernelOK(SetStat(x, t, s), X \ {t})
         /\ Restat(x, SetStat(x, t, s), t, s) /\ SameLists(x, SetStat(x, t, s))
<1> DEFINE y == SetStat(x, t, s)
<1>1. x \in KernelState
  BY DEF KernelOK
<1>2. y = [x EXCEPT !.stat = [x.stat EXCEPT ![t] = s]]
  BY DEF SetStat
<1> HIDE DEF y
<1>3. [x.stat EXCEPT ![t] = s] \in [Threads -> Stats]
  BY <1>1 DEF KernelState, Stats
<1>4. /\ y \in KernelState /\ SameLists(x, y)
      /\ y.stat = [x.stat EXCEPT ![t] = s]
      /\ y.yld = x.yld /\ y.prio = x.prio /\ y.mask = x.mask
      /\ y.cur = x.cur /\ y.lock = x.lock
  BY <1>1, <1>2, <1>3 DEF KernelState, SameLists
<1>5. y.stat[t] = s /\ \A u \in Threads \ {t} : y.stat[u] = x.stat[u]
  BY <1>1, <1>4 DEF KernelState
<1>6. KernelOK(y, X \cup {t})
  <2>1. \A u \in Threads \ {t} : y.stat[u] = x.stat[u] /\ y.prio[u] = x.prio[u]
                                                       /\ y.mask[u] = x.mask[u]
    BY <1>4, <1>5
  <2>2. MaskOK(y, t)
    BY <1>4 DEF MaskOK
  <2>3. y \in KernelState /\ SameLists(x, y)
    BY <1>4
  <2> QED
    BY <2>1, <2>2, <2>3, RelabelOK
<1>7. KernelOK(y, X \ {t})
  BY <1>5, <1>6, ReleaseOK
<1> QED
  BY <1>4, <1>6, <1>7 DEF y, Restat

\* rt_schedule_remove_thread and a new state word, RUNNING or SUSPEND.
LEMMA RemoveAndSetOK ==
  ASSUME NEW X, NEW x, KernelOK(x, X), NEW t \in Threads \ X,
         x.stat[t] \in {"READY", "RUNNING", "SUSPEND"},
         NEW s \in {"RUNNING", "SUSPEND"}
  PROVE  /\ KernelOK(SetStat(RemoveThread(x, t), t, s), X)
         /\ KernelOK(SetStat(RemoveThread(x, t), t, s), X \cup {t})
         /\ Restat(x, SetStat(RemoveThread(x, t), t, s), t, s)
<1> DEFINE r == RemoveThread(x, t)
<1>1. KernelOK(r, X \cup {t}) /\ SameThreads(x, r)
  BY RemoveThreadOK
<1>2. MaskOK(r, t)
  BY <1>1 DEF SameThreads, KernelOK, LinksOK, MaskOK
<1>3. /\ KernelOK(SetStat(r, t, s), X \cup {t}) /\ KernelOK(SetStat(r, t, s), X \ {t})
      /\ Restat(r, SetStat(r, t, s), t, s)
  <2> HIDE DEF r
  <2> QED
    BY <1>1, <1>2, SetStatOK
<1>4. X \ {t} = X
  OBVIOUS
<1>5. Restat(x, SetStat(r, t, s), t, s)
  BY <1>1, <1>3 DEF SameThreads, Restat
<1> QED
  BY <1>3, <1>4, <1>5

\* The head of the most urgent ready list is a READY thread.
LEMMA HighestReady ==
  ASSUME NEW X, NEW x, KernelOK(x, X), x.group # {},
         NEW p, p = HighestReadyPriority(x)
  PROVE  /\ p \in Prio /\ x.ready[p] # << >>
         /\ \A q \in x.group : p <= q
         /\ Head(x.ready[p]) \in Threads \ X /\ x.stat[Head(x.ready[p])] = "READY"
         /\ x.prio[Head(x.ready[p])] = p
<1>1. x.group \in SUBSET Nat /\ x.group = {q \in Prio : x.ready[q] # << >>}
  BY PrioAssumption DEF KernelOK, KernelState, GroupOK, Prio
<1>2. p \in x.group /\ \A q \in x.group : p <= q
  BY <1>1, LeastNat DEF HighestReadyPriority
<1>3. p \in Prio /\ x.ready[p] # << >>
  BY <1>1, <1>2
<1> DEFINE R == {t \in Threads : x.stat[t] = "READY" /\ x.prio[t] = p /\ t \notin X}
<1>4. Holds(x.ready[p], R)
  BY <1>3 DEF KernelOK, LinksOK
<1> HIDE DEF R
<1>5. Head(x.ready[p]) \in R
  BY <1>3, <1>4, HoldsFacts
<1> QED
  BY <1>2, <1>3, <1>5 DEF R

\* What rt_schedule does to the threads: nothing, or the current thread of x,
\* READY if it was RUNNING, makes way for a READY thread.
Switched(x, y) ==
    /\ y.cur \in Threads /\ y.cur # x.cur /\ x.lock = 0 /\ x.stat[y.cur] = "READY"
    /\ \A u \in Threads :
          y.stat[u] = IF u = y.cur THEN "RUNNING"
                      ELSE IF u = x.cur /\ x.stat[u] = "RUNNING" THEN "READY"
                      ELSE x.stat[u]

Scheduled(x, y) ==
    /\ y.prio = x.prio /\ y.mask = x.mask /\ y.lock = x.lock
    /\ (y.cur = x.cur /\ y.stat = x.stat) \/ Switched(x, y)

\* rt_schedule leaving the current thread on the processor.
LEMMA KeepThreadOK ==
  ASSUME NEW X, NEW x, KernelOK(x, X), x.cur \in Threads \ X, x.stat[x.cur] = "RUNNING"
  PROVE  KernelOK(KeepThread(x), X) /\ Scheduled(x, KeepThread(x)) /\ KeepThread(x).cur = x.cur
<1> DEFINE c == x.cur
           v == [x EXCEPT !.yld[x.cur] = FALSE]
           y == SetStat(RemoveThread(v, c), c, "RUNNING")
<1>1. x \in KernelState
  BY DEF KernelOK
<1>2. /\ v \in KernelState /\ SameLists(x, v)
      /\ v.stat = x.stat /\ v.prio = x.prio /\ v.mask = x.mask /\ v.cur = x.cur /\ v.lock = x.lock
  <2>1. v = [x EXCEPT !.yld = [x.yld EXCEPT ![x.cur] = FALSE]]
    OBVIOUS
  <2>2. [x.yld EXCEPT ![x.cur] = FALSE] \in [Threads -> BOOLEAN]
    BY <1>1 DEF KernelState
  <2> HIDE DEF v
  <2> QED
    BY <1>1, <2>1, <2>2 DEF KernelState, SameLists
<1>3. KeepThread(x) = y
  BY DEF KeepThread, SetStat
<1> HIDE DEF v
<1>4. KernelOK(v, X)
  BY <1>2, FrameOK
<1>5. c \in Threads \ X /\ v.stat[c] = "RUNNING"
  BY <1>2
<1> HIDE DEF c
<1>6. KernelOK(y, X) /\ Restat(v, y, c, "RUNNING")
  BY <1>4, <1>5, RemoveAndSetOK
<1>7. y.stat = x.stat
  <2>1. x.stat \in [Threads -> Stats]
    BY <1>1 DEF KernelState
  <2>2. y.stat = [x.stat EXCEPT ![c] = "RUNNING"]
    BY <1>2, <1>6 DEF Restat
  <2> HIDE DEF y
  <2> QED
    BY <1>2, <1>5, <2>1, <2>2
<1>8. Scheduled(x, y)
  BY <1>2, <1>6, <1>7 DEF Restat, Scheduled
<1> QED
  BY <1>2, <1>3, <1>6, <1>8 DEF Restat

\* rt_schedule taking the processor from the current thread, which goes back to
\* its ready list if it is still RUNNING.
LEMMA SwitchThreadOK ==
  ASSUME NEW X, NEW x, KernelOK(x, X), x.cur \in Threads \ X, x.group # {}, x.lock = 0,
         x.stat[x.cur] # "READY"
  PROVE  /\ KernelOK(SwitchThread(x), X) /\ Switched(x, SwitchThread(x))
         /\ Scheduled(x, SwitchThread(x)) /\ SwitchThread(x).cur \in Threads \ X
<1> DEFINE from    == x.cur
           to      == Head(x.ready[HighestReadyPriority(x)])
           running == x.stat[from] = "RUNNING"
           v       == [x EXCEPT !.cur = to, !.yld[from] = @ /\ ~ running]
           queued  == IF running THEN InsertThread(v, from) ELSE v
           y       == SetStat(RemoveThread(queued, to), to, "RUNNING")
<1>1. x \in KernelState
  BY DEF KernelOK
<1>2. to \in Threads \ X /\ x.stat[to] = "READY"
  BY HighestReady
<1>3. SwitchThread(x) = y
  BY DEF SwitchThread, SetStat
<1>4. from \in Threads \ X /\ from # to
  BY <1>2
<1>5. /\ v \in KernelState /\ SameLists(x, v)
      /\ v.stat = x.stat /\ v.prio = x.prio /\ v.mask = x.mask /\ v.cur = to /\ v.lock = x.lock
  <2>1. v = [x EXCEPT !.cur = to, !.yld = [x.yld EXCEPT ![from] = @ /\ ~ running]]
    OBVIOUS
  <2>2. [x.yld EXCEPT ![from] = @ /\ ~ running] \in [Threads -> BOOLEAN]
    BY <1>1, <1>4 DEF KernelState
  <2> HIDE DEF v, to, from
  <2> QED
    BY <1>1, <1>2, <2>1, <2>2 DEF KernelState, SameLists
<1> HIDE DEF v, to, from
<1>6. KernelOK(v, X)
  BY <1>5, FrameOK
<1>7. /\ KernelOK(queued, X) /\ queued.prio = x.prio /\ queued.mask = x.mask
      /\ queued.cur = to /\ queued.lock = x.lock
      /\ queued.stat = [x.stat EXCEPT ![from] = IF running THEN "READY" ELSE @]
  <2>1. CASE running
    <3>1. KernelOK(v, X \cup {from})
      BY <1>4, <1>5, <1>6, <2>1, UnlinkedOK
    <3>2. MaskOK(v, from)
      BY <1>4, <1>5, <1>6, <2>1 DEF KernelOK, LinksOK
    <3>3. /\ KernelOK(InsertThread(v, from), X \ {from})
          /\ Restat(v, InsertThread(v, from), from, IF from = v.cur THEN "RUNNING" ELSE "READY")
      BY <1>4, <3>1, <3>2, InsertThreadOK
    <3>4. X \ {from} = X /\ queued = InsertThread(v, from)
      BY <1>4, <2>1
    <3> QED
      BY <1>4, <1>5, <2>1, <3>3, <3>4 DEF Restat
  <2>2. CASE ~ running
    <3>1. queued = v
      BY <2>2
    <3>2. x.stat = [x.stat EXCEPT ![from] = IF running THEN "READY" ELSE @]
      BY <1>1, <1>4, <2>2 DEF KernelState
    <3> QED
      BY <1>5, <1>6, <3>1, <3>2
  <2> QED
    BY <2>1, <2>2
<1>8. queued.stat[to] = "READY"
  BY <1>1, <1>2, <1>4, <1>7 DEF KernelState
<1> HIDE DEF queued
<1>9. KernelOK(y, X) /\ Restat(queued, y, to, "RUNNING")
  BY <1>2, <1>7, <1>8, RemoveAndSetOK
<1>10. /\ y.prio = x.prio /\ y.mask = x.mask /\ y.cur = to /\ y.lock = x.lock
       /\ y.stat = [queued.stat EXCEPT ![to] = "RUNNING"]
  BY <1>7, <1>9 DEF Restat
<1> HIDE DEF y
<1>11. Switched(x, y)
  <2>1. x.stat \in [Threads -> Stats]
    BY <1>1 DEF KernelState
  <2>2. \A u \in Threads : y.stat[u] = IF u = to THEN "RUNNING"
                                       ELSE IF u = from /\ x.stat[u] = "RUNNING" THEN "READY"
                                       ELSE x.stat[u]
    BY <1>2, <1>4, <1>7, <1>10, <2>1
  <2> QED
    BY <1>2, <1>4, <1>10, <2>2 DEF Switched, from
<1> QED
  BY <1>2, <1>3, <1>9, <1>10, <1>11 DEF Scheduled

\* rt_schedule
LEMMA ScheduleOK ==
  ASSUME NEW X, NEW x, KernelOK(x, X), x.cur \in Threads \ X, x.stat[x.cur] # "READY"
  PROVE  /\ KernelOK(Schedule(x), X) /\ Scheduled(x, Schedule(x))
         /\ Schedule(x).cur \in Threads \ X
         /\ x.lock = 0 /\ x.group # {} /\ x.stat[x.cur] # "RUNNING" => Switched(x, Schedule(x))
<1>1. CASE x.lock # 0 \/ x.group = {}
  BY <1>1 DEF Schedule, Scheduled
<1>2. CASE ~ (x.lock # 0 \/ x.group = {}) /\ KeepsProcessor(x)
  BY <1>2, KeepThreadOK DEF Schedule, KeepsProcessor
<1>3. CASE ~ (x.lock # 0 \/ x.group = {}) /\ ~ KeepsProcessor(x)
  BY <1>3, SwitchThreadOK DEF Schedule
<1> QED
  BY <1>1, <1>2, <1>3

\* The kernel before any thread exists.
LEMMA KernelInitOK == KernelOK(KernelInit, {})
<1>1. /\ KernelInit.stat = [t \in Threads |-> "NONE"]
      /\ KernelInit.ready = [p \in Prio |-> << >>] /\ KernelInit.group = {}
      /\ KernelInit.wait = [w \in Waits |-> << >>] /\ KernelInit.defunct = << >>
  BY DEF KernelInit
<1>2. KernelInit \in KernelState
  BY PrioAssumption DEF KernelInit, KernelState, Stats, Prio
<1>3. GroupOK(KernelInit)
  BY <1>1 DEF GroupOK
<1>4. ToSet(<< >>) = {}
  BY DEF ToSet
<1>5. LinksOK(KernelInit, {})
  <2> DEFINE S(p) == {t \in Threads : KernelInit.stat[t] = "READY" /\ KernelInit.prio[t] = p
                                                                  /\ t \notin {}}
             D == {t \in Threads : KernelInit.stat[t] = "CLOSE" /\ t \notin {}}
  <2>1. \A p \in Prio : S(p) = {} /\ KernelInit.ready[p] = << >>
    BY <1>1
  <2>2. D = {}
    BY <1>1
  <2>3. \A p \in Prio : Holds(KernelInit.ready[p], S(p))
    BY <2>1, HoldsEmpty
  <2>4. Holds(KernelInit.defunct, D)
    BY <1>1, <2>2, HoldsEmpty
  <2>5. \A w \in Waits : KernelInit.wait[w] = << >>
    BY <1>1
  <2>6. \A w \in Waits : Holds(KernelInit.wait[w], ToSet(KernelInit.wait[w]))
    BY <1>4, <2>5, HoldsEmpty
  <2>7. \A w \in Waits : ToSet(KernelInit.wait[w]) = {}
    BY <1>4, <2>5
  <2>8. \A t \in Threads : KernelInit.stat[t] = "NONE"
    BY <1>1
  <2> QED
    BY <2>3, <2>4, <2>6, <2>7, <2>8 DEF LinksOK
<1> QED
  BY <1>2, <1>3, <1>5 DEF KernelOK

\* y is x but for the state word of t, now s.
StatSet(x, y, t, s) ==
    y.stat = [x.stat EXCEPT ![t] = s] /\ y.cur = x.cur /\ y.lock = x.lock

\* rt_thread_defunct_enqueue of an unlinked thread.
LEMMA CloseOK ==
  ASSUME NEW X, NEW x, NEW t \in Threads, KernelOK(x, X \cup {t})
  PROVE  KernelOK(Close(x, t), X \ {t}) /\ StatSet(x, Close(x, t), t, "CLOSE")
<1> DEFINE y == Close(x, t)
           D == {u \in Threads : x.stat[u] = "CLOSE" /\ u \notin X \cup {t}}
<1>1. x \in KernelState /\ GroupOK(x) /\ LinksOK(x, X \cup {t})
  BY DEF KernelOK
<1>2. y = [x EXCEPT !.stat = [x.stat EXCEPT ![t] = "CLOSE"],
                    !.yld = [x.yld EXCEPT ![t] = FALSE], !.defunct = <<t>> \o x.defunct]
  BY DEF Close
<1>3. Holds(x.defunct, D)
  BY <1>1 DEF LinksOK
<1>4. Holds(<<t>> \o x.defunct, D \cup {t})
  BY <1>3, HoldsInsert
<1>5. /\ [x.stat EXCEPT ![t] = "CLOSE"] \in [Threads -> Stats]
      /\ [x.yld EXCEPT ![t] = FALSE] \in [Threads -> BOOLEAN]
      /\ <<t>> \o x.defunct \in Seq(Threads)
  BY <1>1 DEF KernelState, Stats
<1> HIDE DEF y
<1>6. /\ y \in KernelState
      /\ y.stat = [x.stat EXCEPT ![t] = "CLOSE"] /\ y.prio = x.prio /\ y.mask = x.mask
      /\ y.ready = x.ready /\ y.group = x.group /\ y.wait = x.wait
      /\ y.defunct = <<t>> \o x.defunct /\ y.cur = x.cur /\ y.lock = x.lock
  BY <1>1, <1>2, <1>5 DEF KernelState
<1>7. y.stat[t] = "CLOSE" /\ \A u \in Threads \ {t} : y.stat[u] = x.stat[u]
  BY <1>1, <1>6 DEF KernelState
<1>8. GroupOK(y)
  BY <1>1, <1>6 DEF GroupOK
<1>9. \A p \in Prio : Holds(y.ready[p], {u \in Threads : y.stat[u] = "READY" /\ y.prio[u] = p
                                                            /\ u \notin X \ {t}})
  <2>1. \A p \in Prio :
          {u \in Threads : y.stat[u] = "READY" /\ y.prio[u] = p /\ u \notin X \ {t}}
            = {u \in Threads : x.stat[u] = "READY" /\ x.prio[u] = p /\ u \notin X \cup {t}}
    BY <1>6, <1>7
  <2> QED
    BY <1>1, <1>6, <2>1 DEF LinksOK
<1>10. Holds(y.defunct, {u \in Threads : y.stat[u] = "CLOSE" /\ u \notin X \ {t}})
  <2>1. {u \in Threads : y.stat[u] = "CLOSE" /\ u \notin X \ {t}} = D \cup {t}
    BY <1>7
  <2> QED
    BY <1>4, <1>6, <2>1
<1>11. \A w \in Waits : \A u \in ToSet(y.wait[w]) : y.stat[u] = "SUSPEND" /\ u \notin X \ {t}
  <2> SUFFICES ASSUME NEW w \in Waits, NEW u \in ToSet(x.wait[w])
               PROVE  y.stat[u] = "SUSPEND" /\ u \notin X \ {t}
    BY <1>6
  <2>1. x.stat[u] = "SUSPEND" /\ u \notin X \cup {t}
    BY <1>1 DEF LinksOK
  <2>2. u \in Threads
    BY <1>1 DEF LinksOK, Holds, ToSet
  <2> QED
    BY <1>7, <2>1, <2>2
<1>12. \A u \in Threads : y.stat[u] \in {"READY", "RUNNING", "SUSPEND"} => MaskOK(y, u)
  BY <1>1, <1>6, <1>7 DEF LinksOK, MaskOK
<1>13. /\ \A w \in Waits : Holds(y.wait[w], ToSet(y.wait[w]))
       /\ \A v, w \in Waits : v # w => ToSet(y.wait[v]) \cap ToSet(y.wait[w]) = {}
  BY <1>1, <1>6 DEF LinksOK
<1>14. LinksOK(y, X \ {t})
  BY <1>9, <1>10, <1>11, <1>12, <1>13 DEF LinksOK
<1>15. KernelOK(y, X \ {t}) /\ StatSet(x, y, t, "CLOSE")
  BY <1>6, <1>8, <1>14 DEF StatSet, KernelOK
<1> QED
  BY <1>15 DEF y

\* rt_thread_resume and _thread_timeout on a suspended thread.
LEMMA ResumeOK ==
  ASSUME NEW X, NEW x, KernelOK(x, X), NEW t \in Threads, x.stat[t] = "SUSPEND"
  PROVE  /\ KernelOK(Resume(x, t), X \ {t})
         /\ Restat(x, Resume(x, t), t, IF t = x.cur THEN "RUNNING" ELSE "READY")
<1> DEFINE l == ListRemove(x, t)
<1>1. KernelOK(l, X \cup {t}) /\ SameThreads(x, l)
  BY ListRemoveOK
<1>2. MaskOK(l, t)
  BY <1>1 DEF SameThreads, KernelOK, LinksOK, MaskOK
<1>3. l.cur = x.cur
  BY <1>1 DEF SameThreads
<1> HIDE DEF l
<1>4. /\ KernelOK(InsertThread(l, t), X \ {t})
      /\ Restat(l, InsertThread(l, t), t, IF t = l.cur THEN "RUNNING" ELSE "READY")
  BY <1>1, <1>2, InsertThreadOK
<1> QED
  BY <1>1, <1>3, <1>4 DEF l, Resume, Restat, SameThreads

\* t joins the wait list of w, before the first waiter at a position in I.
Join(s, t, w, I) == [s EXCEPT !.wait[w] = InsertBeforeFirst(s.wait[w], I, t)]

\* A suspended thread in no list joins the wait list of w.
LEMMA JoinOK ==
  ASSUME NEW X, NEW s, NEW t \in Threads \ X, KernelOK(s, X \cup {t}), KernelOK(s, X),
         s.stat[t] = "SUSPEND", NEW w \in Waits, NEW I \in SUBSET DOMAIN s.wait[w],
         NEW y, y = Join(s, t, w, I)
  PROVE  /\ KernelOK(y, X) /\ SameThreads(s, y)
         /\ ToSet(y.wait[w]) = ToSet(s.wait[w]) \cup {t}
         /\ \A v \in Waits \ {w} : y.wait[v] = s.wait[v]
<1> DEFINE l == InsertBeforeFirst(s.wait[w], I, t)
<1>1. s \in KernelState /\ GroupOK(s) /\ LinksOK(s, X)
  BY DEF KernelOK
<1>2. \A v \in Waits : Holds(s.wait[v], ToSet(s.wait[v])) /\ t \notin ToSet(s.wait[v])
  BY DEF KernelOK, LinksOK
<1>3. Holds(l, ToSet(s.wait[w]) \cup {t})
  BY <1>2, HoldsInsert
<1> HIDE DEF l
<1>4. l \in Seq(Threads) /\ ToSet(l) = ToSet(s.wait[w]) \cup {t}
  BY <1>3 DEF Holds
<1>5. /\ y \in KernelState /\ y.wait = [s.wait EXCEPT ![w] = l]
      /\ y.stat = s.stat /\ y.yld = s.yld /\ y.prio = s.prio /\ y.mask = s.mask
      /\ y.cur = s.cur /\ y.lock = s.lock
      /\ y.ready = s.ready /\ y.group = s.group /\ y.defunct = s.defunct
  <2>1. y = [s EXCEPT !.wait = [s.wait EXCEPT ![w] = l]]
    BY DEF l, Join
  <2>2. [s.wait EXCEPT ![w] = l] \in [Waits -> Seq(Threads)]
    BY <1>1, <1>4 DEF KernelState
  <2> QED
    BY <1>1, <2>1, <2>2 DEF KernelState
<1>6. y.wait[w] = l /\ \A v \in Waits \ {w} : y.wait[v] = s.wait[v]
  BY <1>1, <1>5 DEF KernelState
<1>7. GroupOK(y)
  BY <1>1, <1>5 DEF GroupOK
<1>8. LinksOK(y, X)
  <2>1. /\ \A p \in Prio :
              Holds(y.ready[p], {u \in Threads : y.stat[u] = "READY" /\ y.prio[u] = p /\ u \notin X})
        /\ Holds(y.defunct, {u \in Threads : y.stat[u] = "CLOSE" /\ u \notin X})
    <3>1. /\ \A p \in Prio :
                Holds(s.ready[p], {u \in Threads : s.stat[u] = "READY" /\ s.prio[u] = p /\ u \notin X})
          /\ Holds(s.defunct, {u \in Threads : s.stat[u] = "CLOSE" /\ u \notin X})
      BY <1>1 DEF LinksOK
    <3> QED
      BY <1>5, <3>1
  <2>2. \A u \in Threads : y.stat[u] \in {"READY", "RUNNING", "SUSPEND"} => MaskOK(y, u)
    BY <1>1, <1>5 DEF LinksOK, MaskOK
  <2>3. ASSUME NEW v \in Waits
        PROVE  /\ Holds(y.wait[v], ToSet(y.wait[v]))
               /\ \A u \in ToSet(y.wait[v]) : y.stat[u] = "SUSPEND" /\ u \notin X
    <3>1. \A u \in ToSet(s.wait[v]) : s.stat[u] = "SUSPEND" /\ u \notin X
      BY <1>1 DEF LinksOK
    <3>2. CASE v = w
      <4>1. y.wait[v] = l
        BY <1>6, <3>2
      <4>2. \A u \in ToSet(l) : y.stat[u] = "SUSPEND" /\ u \notin X
        BY <1>4, <1>5, <3>1, <3>2
      <4> QED
        BY <1>3, <1>4, <4>1, <4>2
    <3>3. CASE v # w
      <4>1. y.wait[v] = s.wait[v]
        BY <1>6, <3>3
      <4> QED
        BY <1>2, <1>5, <3>1, <4>1
    <3> QED
      BY <3>2, <3>3
  <2>4. ASSUME NEW v \in Waits, NEW v2 \in Waits, v # v2
        PROVE  ToSet(y.wait[v]) \cap ToSet(y.wait[v2]) = {}
    <3>1. ToSet(s.wait[v]) \cap ToSet(s.wait[v2]) = {}
      BY <1>1, <2>4 DEF LinksOK
    <3> QED
      BY <1>2, <1>4, <1>6, <2>4, <3>1
  <2> QED
    BY <2>1, <2>2, <2>3, <2>4 DEF LinksOK
<1> QED
  BY <1>4, <1>5, <1>6, <1>7, <1>8 DEF KernelOK, SameThreads

\* _ipc_list_suspend of a running thread.
LEMMA IpcListSuspendOK ==
  ASSUME NEW X, NEW x, KernelOK(x, X), NEW t \in Threads \ X, x.stat[t] = "RUNNING",
         NEW w \in Waits
  PROVE  /\ KernelOK(IpcListSuspend(x, t, w), X)
         /\ Restat(x, IpcListSuspend(x, t, w), t, "SUSPEND")
<1> DEFINE s == SetStat(RemoveThread(x, t), t, "SUSPEND")
           I == IF w \in PrioWaits
                THEN {i \in DOMAIN s.wait[w] : s.prio[t] < s.prio[s.wait[w][i]]}
                ELSE {}
           y == IpcListSuspend(x, t, w)
<1>1. KernelOK(s, X \cup {t}) /\ KernelOK(s, X) /\ Restat(x, s, t, "SUSPEND")
  BY RemoveAndSetOK
<1>2. y = Join(s, t, w, I)
  BY DEF IpcListSuspend, Suspend, SetStat, Join
<1>3. I \in SUBSET DOMAIN s.wait[w]
  OBVIOUS
<1>4. s.stat[t] = "SUSPEND"
  BY <1>1 DEF Restat, KernelOK, KernelState
<1> HIDE DEF s, I, y
<1>5. KernelOK(y, X) /\ SameThreads(s, y)
  BY <1>1, <1>2, <1>3, <1>4, JoinOK
<1> QED
  BY <1>1, <1>5 DEF y, Restat, SameThreads

\* The words of a thread that is not in a ready list.
SameStats(x, y) == y.stat = x.stat /\ y.cur = x.cur /\ y.lock = x.lock

Repriced(x, t, p) == [x EXCEPT !.prio[t] = p, !.mask[t] = {p}]

\* The fields of a state in which only priority and mask of t have changed.
LEMMA RepricedFacts ==
  ASSUME NEW x, x \in KernelState, NEW t \in Threads, NEW p \in Prio
  PROVE  /\ Repriced(x, t, p) \in KernelState /\ SameLists(x, Repriced(x, t, p))
         /\ MaskOK(Repriced(x, t, p), t) /\ SameStats(x, Repriced(x, t, p))
         /\ \A u \in Threads \ {t} : /\ Repriced(x, t, p).prio[u] = x.prio[u]
                                      /\ Repriced(x, t, p).mask[u] = x.mask[u]
<1> DEFINE y == Repriced(x, t, p)
<1>1. y = [x EXCEPT !.prio = [x.prio EXCEPT ![t] = p], !.mask = [x.mask EXCEPT ![t] = {p}]]
  BY DEF Repriced
<1> HIDE DEF y
<1>2. /\ [x.prio EXCEPT ![t] = p] \in [Threads -> Prio]
      /\ [x.mask EXCEPT ![t] = {p}] \in [Threads -> SUBSET Prio]
  BY DEF KernelState
<1>3. /\ y \in KernelState /\ SameLists(x, y)
      /\ y.stat = x.stat /\ y.yld = x.yld /\ y.cur = x.cur /\ y.lock = x.lock
      /\ y.prio = [x.prio EXCEPT ![t] = p] /\ y.mask = [x.mask EXCEPT ![t] = {p}]
  BY <1>1, <1>2 DEF KernelState, SameLists
<1>4. /\ MaskOK(y, t)
      /\ \A u \in Threads \ {t} : y.prio[u] = x.prio[u] /\ y.mask[u] = x.mask[u]
  BY <1>3 DEF KernelState, MaskOK
<1> QED
  BY <1>3, <1>4 DEF y, SameStats

\* A thread in no ready list may change priority.
LEMMA RepricedOK ==
  ASSUME NEW X, NEW x, KernelOK(x, X), NEW t \in Threads, x.stat[t] # "READY", NEW p \in Prio
  PROVE  KernelOK(Repriced(x, t, p), X)
<1> DEFINE y == Repriced(x, t, p)
<1>1. x \in KernelState /\ GroupOK(x) /\ LinksOK(x, X)
  BY DEF KernelOK
<1>2. /\ y \in KernelState /\ SameLists(x, y) /\ y.stat = x.stat
      /\ MaskOK(y, t)
      /\ \A u \in Threads \ {t} : y.prio[u] = x.prio[u] /\ y.mask[u] = x.mask[u]
  BY <1>1, RepricedFacts DEF SameStats
<1> HIDE DEF y
<1>3. GroupOK(y)
  BY <1>1, <1>2 DEF GroupOK, SameLists
<1>4. \A q \in Prio :
        {u \in Threads : y.stat[u] = "READY" /\ y.prio[u] = q /\ u \notin X}
          = {u \in Threads : x.stat[u] = "READY" /\ x.prio[u] = q /\ u \notin X}
  BY <1>2
<1>5. \A q \in Prio : Holds(y.ready[q], {u \in Threads : y.stat[u] = "READY" /\ y.prio[u] = q
                                                            /\ u \notin X})
  BY <1>1, <1>2, <1>4 DEF LinksOK, SameLists
<1>6. \A u \in Threads : y.stat[u] \in {"READY", "RUNNING", "SUSPEND"} => MaskOK(y, u)
  BY <1>1, <1>2 DEF LinksOK, MaskOK
<1>7. LinksOK(y, X)
  <2>1. Holds(y.defunct, {u \in Threads : y.stat[u] = "CLOSE" /\ u \notin X})
    BY <1>1, <1>2 DEF LinksOK, SameLists
  <2>2. /\ \A w \in Waits : /\ Holds(y.wait[w], ToSet(y.wait[w]))
                           /\ \A u \in ToSet(y.wait[w]) : y.stat[u] = "SUSPEND" /\ u \notin X
        /\ \A v, w \in Waits : v # w => ToSet(y.wait[v]) \cap ToSet(y.wait[w]) = {}
    BY <1>1, <1>2 DEF LinksOK, SameLists
  <2> QED
    BY <1>5, <1>6, <2>1, <2>2 DEF LinksOK
<1> QED
  BY <1>2, <1>3, <1>7 DEF y, KernelOK

\* RT_THREAD_CTRL_CHANGE_PRIORITY
LEMMA ChangePriorityOK ==
  ASSUME NEW X, NEW x, KernelOK(x, X), NEW t \in Threads \ X,
         t = x.cur => x.stat[t] # "READY", NEW p \in Prio
  PROVE  KernelOK(ChangePriority(x, t, p), X) /\ SameStats(x, ChangePriority(x, t, p))
<1>0. x \in KernelState
  BY DEF KernelOK
<1>1. CASE x.stat[t] # "READY"
  <2>1. ChangePriority(x, t, p) = Repriced(x, t, p)
    BY <1>1 DEF ChangePriority, Repriced
  <2>2. KernelOK(Repriced(x, t, p), X)
    BY <1>1, RepricedOK
  <2>3. SameStats(x, Repriced(x, t, p))
    BY <1>0, RepricedFacts
  <2> QED
    BY <2>1, <2>2, <2>3
<1>2. CASE x.stat[t] = "READY"
  <2> DEFINE r == RemoveThread(x, t)
             v == Repriced(r, t, p)
  <2>1. ChangePriority(x, t, p) = InsertThread(v, t)
    BY <1>2 DEF ChangePriority, Repriced
  <2>2. KernelOK(r, X \cup {t}) /\ SameThreads(x, r)
    BY <1>2, RemoveThreadOK
  <2> HIDE DEF r
  <2>3. r \in KernelState
    BY <2>2 DEF KernelOK
  <2>4. /\ v \in KernelState /\ SameLists(r, v) /\ v.stat = r.stat /\ MaskOK(v, t)
        /\ v.cur = r.cur /\ v.lock = r.lock
        /\ \A u \in Threads \ {t} : v.prio[u] = r.prio[u] /\ v.mask[u] = r.mask[u]
    BY <2>3, RepricedFacts DEF SameStats
  <2> HIDE DEF v
  <2>5. \A u \in Threads \ {t} : v.stat[u] = r.stat[u] /\ v.prio[u] = r.prio[u]
                                                       /\ v.mask[u] = r.mask[u]
    BY <2>4
  <2>6. KernelOK(v, X \cup {t})
    BY <2>2, <2>4, <2>5, RelabelOK
  <2>7. /\ KernelOK(InsertThread(v, t), X \ {t})
        /\ Restat(v, InsertThread(v, t), t, IF t = v.cur THEN "RUNNING" ELSE "READY")
    BY <2>4, <2>6, InsertThreadOK
  <2>8. X \ {t} = X
    OBVIOUS
  <2>9. v.stat = x.stat /\ v.cur = x.cur /\ v.lock = x.lock
    BY <2>2, <2>4 DEF SameThreads
  <2>10. [x.stat EXCEPT ![t] = "READY"] = x.stat
    BY <1>0, <1>2 DEF KernelState
  <2>11. SameStats(x, InsertThread(v, t))
    BY <1>2, <2>7, <2>9, <2>10 DEF Restat, SameStats
  <2> QED
    BY <2>1, <2>7, <2>8, <2>11
<1> QED
  BY <1>1, <1>2

\* The words of an unlinked thread set anew.
Reset(x, t, s, p, m) ==
    [x EXCEPT !.stat[t] = s, !.yld[t] = FALSE, !.prio[t] = p, !.mask[t] = m]

\* The words of an unlinked thread may be set to any consistent values.
LEMMA ResetOK ==
  ASSUME NEW X, NEW x, NEW t \in Threads, KernelOK(x, X \cup {t}),
         NEW s \in Stats, NEW p \in Prio, NEW m \in SUBSET Prio,
         s \in {"READY", "RUNNING", "SUSPEND"} => m = {p}
  PROVE  /\ KernelOK(Reset(x, t, s, p, m), X \cup {t})
         /\ StatSet(x, Reset(x, t, s, p, m), t, s)
         /\ m = {p} => MaskOK(Reset(x, t, s, p, m), t)
<1> DEFINE y == Reset(x, t, s, p, m)
<1>1. x \in KernelState
  BY DEF KernelOK
<1>2. y = [x EXCEPT !.stat = [x.stat EXCEPT ![t] = s], !.yld = [x.yld EXCEPT ![t] = FALSE],
                    !.prio = [x.prio EXCEPT ![t] = p], !.mask = [x.mask EXCEPT ![t] = m]]
  BY DEF Reset
<1> HIDE DEF y
<1>3. /\ [x.stat EXCEPT ![t] = s] \in [Threads -> Stats]
      /\ [x.yld EXCEPT ![t] = FALSE] \in [Threads -> BOOLEAN]
      /\ [x.prio EXCEPT ![t] = p] \in [Threads -> Prio]
      /\ [x.mask EXCEPT ![t] = m] \in [Threads -> SUBSET Prio]
  BY <1>1 DEF KernelState
<1>4. /\ y \in KernelState /\ SameLists(x, y)
      /\ y.stat = [x.stat EXCEPT ![t] = s] /\ y.cur = x.cur /\ y.lock = x.lock
      /\ y.prio = [x.prio EXCEPT ![t] = p] /\ y.mask = [x.mask EXCEPT ![t] = m]
  BY <1>1, <1>2, <1>3 DEF KernelState, SameLists
<1>5. \A u \in Threads \ {t} : y.stat[u] = x.stat[u] /\ y.prio[u] = x.prio[u]
                                                     /\ y.mask[u] = x.mask[u]
  BY <1>1, <1>4 DEF KernelState
<1>6. y.stat[t] = s /\ y.prio[t] = p /\ y.mask[t] = m
  BY <1>1, <1>4 DEF KernelState
<1>7. m = {p} => MaskOK(y, t)
  BY <1>6 DEF MaskOK
<1>8. y.stat[t] \in {"READY", "RUNNING", "SUSPEND"} => MaskOK(y, t)
  BY <1>6, <1>7
<1>9. y \in KernelState /\ SameLists(x, y)
  BY <1>4
<1>10. KernelOK(y, X \cup {t})
  BY <1>5, <1>8, <1>9, RelabelOK
<1>11. StatSet(x, y, t, s)
  BY <1>4 DEF StatSet
<1> QED
  BY <1>7, <1>10, <1>11 DEF y

\* _thread_init
LEMMA ThreadInitOK ==
  ASSUME NEW X, NEW x, KernelOK(x, X), NEW t \in Threads \ X, x.stat[t] = "NONE", NEW p \in Prio
  PROVE  KernelOK(ThreadInit(x, t, p), X) /\ StatSet(x, ThreadInit(x, t, p), t, "INIT")
<1> DEFINE y == Reset(x, t, "INIT", p, {})
<1>1. KernelOK(x, X \cup {t})
  BY UnlinkedOK
<1>2. KernelOK(y, X \cup {t}) /\ StatSet(x, y, t, "INIT")
  BY <1>1, ResetOK DEF Stats
<1>3. ThreadInit(x, t, p) = y
  BY DEF ThreadInit, Reset
<1> HIDE DEF y
<1>4. y.stat[t] = "INIT"
  BY <1>2 DEF StatSet, KernelOK, KernelState
<1>5. KernelOK(y, X \ {t})
  BY <1>2, <1>4, ReleaseOK
<1>6. X \ {t} = X
  OBVIOUS
<1> QED
  BY <1>2, <1>3, <1>5, <1>6

\* A fresh or an initialised thread is given its mask and state SUSPEND.
LEMMA StartOK ==
  ASSUME NEW X, NEW x, KernelOK(x, X), NEW t \in Threads \ X, x.stat[t] \in {"NONE", "INIT"},
         NEW p \in Prio
  PROVE  /\ KernelOK(Reset(x, t, "SUSPEND", p, {p}), X)
         /\ KernelOK(Reset(x, t, "SUSPEND", p, {p}), X \cup {t})
         /\ StatSet(x, Reset(x, t, "SUSPEND", p, {p}), t, "SUSPEND")
<1> DEFINE y == Reset(x, t, "SUSPEND", p, {p})
<1>1. KernelOK(x, X \cup {t})
  BY UnlinkedOK
<1>2. KernelOK(y, X \cup {t}) /\ StatSet(x, y, t, "SUSPEND")
  BY <1>1, ResetOK DEF Stats
<1> HIDE DEF y
<1>4. y.stat[t] = "SUSPEND"
  BY <1>2 DEF StatSet, KernelOK, KernelState
<1>5. KernelOK(y, X \ {t})
  BY <1>2, <1>4, ReleaseOK
<1>6. X \ {t} = X
  OBVIOUS
<1> QED
  BY <1>2, <1>5, <1>6 DEF y

\* rt_thread_startup: the state it leaves behind when interrupts are enabled.
LEMMA StartupOK ==
  ASSUME NEW X, NEW x, KernelOK(x, X), NEW t \in Threads \ X, x.stat[t] = "INIT",
         NEW y, y = ListRemove([x EXCEPT !.mask[t] = {x.prio[t]}, !.stat[t] = "SUSPEND",
                                         !.yld[t] = FALSE], t)
  PROVE  KernelOK(y, X \cup {t}) /\ StatSet(x, y, t, "SUSPEND")
<1> DEFINE p == x.prio[t]
           v == Reset(x, t, "SUSPEND", p, {p})
           e == [x EXCEPT !.mask[t] = {x.prio[t]}, !.stat[t] = "SUSPEND", !.yld[t] = FALSE]
<1>1. x \in KernelState
  BY DEF KernelOK
<1>2. p \in Prio
  BY <1>1 DEF KernelState
<1>3. KernelOK(v, X \cup {t}) /\ StatSet(x, v, t, "SUSPEND")
  <2> HIDE DEF p
  <2> QED
    BY <1>2, StartOK
<1>4. e = v
  <2>1. [x.prio EXCEPT ![t] = x.prio[t]] = x.prio
    BY <1>1 DEF KernelState
  <2> QED
    BY <1>1, <2>1 DEF Reset, KernelState
<1>5. y = ListRemove(v, t)
  BY <1>4
<1> HIDE DEF v
<1>6. KernelOK(ListRemove(v, t), (X \cup {t}) \cup {t}) /\ SameThreads(v, ListRemove(v, t))
  BY <1>3, ListRemoveOK
<1>7. (X \cup {t}) \cup {t} = X \cup {t}
  OBVIOUS
<1> QED
  BY <1>3, <1>5, <1>6, <1>7 DEF StatSet, SameThreads

\* A thread created and started before the scheduler runs.
LEMMA BootOK ==
  ASSUME NEW X, NEW x, KernelOK(x, X), NEW t \in Threads \ X, x.stat[t] = "NONE", t # x.cur,
         NEW p \in Prio,
         NEW y, y = Resume([ThreadInit(x, t, p) EXCEPT !.mask[t] = {p}, !.stat[t] = "SUSPEND"], t)
  PROVE  KernelOK(y, X) /\ StatSet(x, y, t, "READY")
<1> DEFINE v == Reset(x, t, "SUSPEND", p, {p})
<1>1. x \in KernelState
  BY DEF KernelOK
<1>2. KernelOK(v, X) /\ StatSet(x, v, t, "SUSPEND")
  BY StartOK
<1>3. [ThreadInit(x, t, p) EXCEPT !.mask[t] = {p}, !.stat[t] = "SUSPEND"] = v
  <2> DEFINE mi == [x.mask EXCEPT ![t] = {}]
             si == [x.stat EXCEPT ![t] = "INIT"]
             e(mm, ss) == [x EXCEPT !.stat = ss, !.yld = [x.yld EXCEPT ![t] = FALSE],
                                    !.prio = [x.prio EXCEPT ![t] = p], !.mask = mm]
             i == ThreadInit(x, t, p)
  <2>1. i = e(mi, si)
    BY DEF ThreadInit
  <2>2. /\ [mi EXCEPT ![t] = {p}] = [x.mask EXCEPT ![t] = {p}]
        /\ [si EXCEPT ![t] = "SUSPEND"] = [x.stat EXCEPT ![t] = "SUSPEND"]
    BY <1>1 DEF KernelState
  <2> HIDE DEF mi, si, i
  <2>3. [i EXCEPT !.mask[t] = {p}, !.stat[t] = "SUSPEND"]
          = e([mi EXCEPT ![t] = {p}], [si EXCEPT ![t] = "SUSPEND"])
    BY <1>1, <2>1 DEF KernelState
  <2>4. v = e([x.mask EXCEPT ![t] = {p}], [x.stat EXCEPT ![t] = "SUSPEND"])
    BY DEF Reset
  <2> QED
    BY <2>2, <2>3, <2>4 DEF i
<1>4. y = Resume(v, t)
  BY <1>3
<1> HIDE DEF v
<1>5. v.stat[t] = "SUSPEND" /\ v.cur = x.cur
  BY <1>1, <1>2 DEF StatSet, KernelState
<1>6. KernelOK(y, X \ {t}) /\ Restat(v, y, t, IF t = v.cur THEN "RUNNING" ELSE "READY")
  BY <1>2, <1>4, <1>5, ResumeOK
<1>7. X \ {t} = X
  OBVIOUS
<1>8. StatSet(x, y, t, "READY")
  BY <1>1, <1>2, <1>5, <1>6 DEF StatSet, Restat, KernelState
<1> QED
  BY <1>6, <1>7, <1>8

\* rt_defunct_execute
LEMMA FreeOK ==
  ASSUME NEW X, NEW x, KernelOK(x, X), NEW t \in Threads \ X, x.stat[t] = "CLOSE"
  PROVE  /\ KernelOK(Reset(ListRemove(x, t), t, "NONE", 0, {}), X)
         /\ StatSet(x, Reset(ListRemove(x, t), t, "NONE", 0, {}), t, "NONE")
<1> DEFINE l == ListRemove(x, t)
           y == Reset(l, t, "NONE", 0, {})
<1>1. KernelOK(l, X \cup {t}) /\ SameThreads(x, l)
  BY ListRemoveOK
<1>2. 0 \in Prio
  BY PrioAssumption DEF Prio
<1> HIDE DEF l
<1>3. KernelOK(y, X \cup {t}) /\ StatSet(l, y, t, "NONE")
  BY <1>1, <1>2, ResetOK DEF Stats
<1> HIDE DEF y
<1>4. y.stat[t] = "NONE"
  BY <1>1, <1>3 DEF StatSet, KernelOK, KernelState
<1>5. KernelOK(y, X \ {t})
  BY <1>3, <1>4, ReleaseOK
<1>6. X \ {t} = X
  OBVIOUS
<1>7. StatSet(x, y, t, "NONE")
  BY <1>1, <1>3 DEF StatSet, SameThreads
<1> QED
  BY <1>5, <1>6, <1>7 DEF y, l

\* rt_system_scheduler_start
LEMMA SchedulerStartOK ==
  ASSUME NEW X, NEW x, KernelOK(x, X), x.group # {}
  PROVE  /\ KernelOK(SchedulerStart(x), X)
         /\ SchedulerStart(x).cur \in Threads \ X /\ x.stat[SchedulerStart(x).cur] = "READY"
         /\ SchedulerStart(x).stat = [x.stat EXCEPT ![SchedulerStart(x).cur] = "RUNNING"]
         /\ SchedulerStart(x).lock = x.lock
<1> DEFINE to == Head(x.ready[HighestReadyPriority(x)])
           v  == [x EXCEPT !.cur = to]
           z  == SetStat(RemoveThread(v, to), to, "RUNNING")
           y  == SchedulerStart(x)
<1>1. x \in KernelState
  BY DEF KernelOK
<1>2. to \in Threads \ X /\ x.stat[to] = "READY"
  BY HighestReady
<1>3. y = [z EXCEPT !.yld[to] = FALSE]
  BY DEF SchedulerStart, SetStat
<1> HIDE DEF to
<1>4. /\ v \in KernelState /\ SameLists(x, v)
      /\ v.stat = x.stat /\ v.prio = x.prio /\ v.mask = x.mask /\ v.cur = to /\ v.lock = x.lock
  BY <1>1, <1>2 DEF KernelState, SameLists
<1> HIDE DEF v
<1>5. KernelOK(v, X)
  BY <1>4, FrameOK
<1>6. KernelOK(z, X) /\ Restat(v, z, to, "RUNNING")
  BY <1>2, <1>4, <1>5, RemoveAndSetOK
<1> HIDE DEF z, y
<1>7. z \in KernelState
  BY <1>6 DEF KernelOK
<1>8. /\ y \in KernelState /\ SameLists(z, y)
      /\ y.stat = z.stat /\ y.prio = z.prio /\ y.mask = z.mask /\ y.cur = z.cur /\ y.lock = z.lock
  <2>1. y = [z EXCEPT !.yld = [z.yld EXCEPT ![to] = FALSE]]
    BY <1>3
  <2>2. [z.yld EXCEPT ![to] = FALSE] \in [Threads -> BOOLEAN]
    BY <1>7 DEF KernelState
  <2> QED
    BY <1>7, <2>1, <2>2 DEF KernelState, SameLists
<1>9. KernelOK(y, X)
  BY <1>6, <1>8, FrameOK
<1>10. y.cur = to /\ y.stat = [x.stat EXCEPT ![to] = "RUNNING"] /\ y.lock = x.lock
  BY <1>4, <1>6, <1>8 DEF Restat
<1> QED
  BY <1>2, <1>9, <1>10 DEF y

-----------------------------------------------------------------------------
(* Timers *)

\* The running timers are those of S.
TimersOK(x, S) == x \in TimerState /\ Holds(x.list, S)

\* rt_timer_stop takes the timer out of _timer_list, whether it runs or not.
LEMMA TimerStopOK ==
  ASSUME NEW S, NEW x, TimersOK(x, S), NEW t \in Threads
  PROVE  TimersOK(TimerStop(x, t), S \ {t})
<1>1. Holds(Unlinked(x.list, t), S \ {t})
  BY HoldsUnlinked DEF TimersOK
<1>2. Unlinked(x.list, t) \in Seq(Threads)
  BY <1>1 DEF Holds
<1>3. [x.left EXCEPT ![t] = 0] \in [Threads -> Int]
  BY DEF TimersOK, TimerState
<1> QED
  BY <1>1, <1>2, <1>3 DEF TimersOK, TimerStop, TimerState

\* rt_timer_start links the timer once, restarted or not.
LEMMA TimerStartOK ==
  ASSUME NEW S, NEW x, TimersOK(x, S), NEW t \in Threads, NEW n \in Nat
  PROVE  TimersOK(TimerStart(x, t, n), S \cup {t})
<1> DEFINE s == TimerStop(x, t)
           I == {i \in DOMAIN s.list : n < s.left[s.list[i]]}
           l == InsertBeforeFirst(s.list, I, t)
<1>1. TimersOK(s, S \ {t})
  BY TimerStopOK
<1>2. TimerStart(x, t, n) = [list |-> l, left |-> [s.left EXCEPT ![t] = n]]
  BY DEF TimerStart
<1>3. I \in SUBSET DOMAIN s.list
  OBVIOUS
<1> HIDE DEF s, I
<1>4. Holds(l, (S \ {t}) \cup {t})
  BY <1>1, <1>3, HoldsInsert DEF TimersOK
<1>5. (S \ {t}) \cup {t} = S \cup {t}
  OBVIOUS
<1> HIDE DEF l
<1>6. l \in Seq(Threads) /\ Holds(l, S \cup {t})
  BY <1>4, <1>5 DEF Holds
<1>7. [s.left EXCEPT ![t] = n] \in [Threads -> Int]
  BY <1>1 DEF TimersOK, TimerState
<1> QED
  BY <1>2, <1>6, <1>7 DEF TimersOK, TimerState

\* The tick moves no timer.
LEMMA TimerTickOK ==
  ASSUME NEW S, NEW x, TimersOK(x, S)
  PROVE  TimersOK(TimerTick(x), S)
<1> DEFINE l == [t \in Threads |-> IF TimerOn(x, t) THEN x.left[t] - 1 ELSE x.left[t]]
<1>1. l \in [Threads -> Int]
  BY DEF TimersOK, TimerState
<1>2. TimerTick(x) = [x EXCEPT !.left = l]
  BY DEF TimerTick
<1> HIDE DEF l
<1> QED
  BY <1>1, <1>2 DEF TimersOK, TimerState
=============================================================================
