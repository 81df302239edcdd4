---------------------------- MODULE SchedProofs -----------------------------
(***************************************************************************)
(* The invariant of module SchedInv is inductive, for any threads,         *)
(* priorities, IPC objects, time slices and timeouts, and the safety       *)
(* properties of module Sched follow from it.  One lemma per action; each  *)
(* reduces to what its operator preserves (module KernelProofs) and to the *)
(* lemmas on the parts of the invariant that a step leaves alone.          *)
(***************************************************************************)
EXTENDS KernelProofs, SchedInv

\* The section each sequence of pending sections begins with.
LEMMA SectionFacts ==
  /\ Section(<< >>) = "none" /\ Section(<<"sched">>) = "sched" /\ Section(<<"ret">>) = "ret"
  /\ Section(<<"slept">>) = "slept" /\ Section(<<"insert">>) = "insert"
  /\ Section(<<"close">>) = "close" /\ Section(<<"check">>) = "check"
  /\ Section(<<"free">>) = "free"
  /\ Section(<<"sched", "ret">>) = "sched" /\ Section(<<"sched", "slept">>) = "sched"
  /\ Section(<<"insert", "sched">>) = "insert" /\ Section(<<"close", "sched">>) = "close"
  /\ Section(<<"eintr", "sched", "slept">>) = "eintr"
  /\ Section(<<"drain", "check">>) = "drain"
  BY DEF Section

\* The sections left of a call after the one that runs.
LEMMA ShapeFacts ==
  ASSUME NEW s \in PcShapes
  PROVE  /\ s \in Seq(Labels)
         /\ s # << >> <=> Section(s) # "none"
         /\ s # << >> => Section(s) = Head(s)
         /\ Section(s) = "sched" => Tail(s) \in {<< >>, <<"ret">>, <<"slept">>}
         /\ Section(s) \in {"insert", "close"} => Tail(s) \in {<< >>, <<"sched">>}
         /\ Section(s) = "eintr" => Tail(s) = <<"sched", "slept">>
         /\ Section(s) \in {"slept", "ret", "check"} => Tail(s) = << >>
         /\ Section(s) = "check" => s = <<"check">>
         /\ Section(s) = "drain" => Tail(s) = <<"check">>
<1>1. s \in Seq(Labels)
  <2>1. /\ << >> \in Seq(Labels)
        /\ \A l \in Labels : <<l>> \in Seq(Labels)
        /\ \A l, m \in Labels : <<l, m>> \in Seq(Labels)
        /\ \A l, m, n \in Labels : <<l, m, n>> \in Seq(Labels)
    OBVIOUS
  <2>2. /\ "sched" \in Labels /\ "insert" \in Labels /\ "eintr" \in Labels /\ "slept" \in Labels
        /\ "ret" \in Labels /\ "check" \in Labels /\ "drain" \in Labels /\ "close" \in Labels
        /\ "free" \in Labels
    BY DEF Labels
  <2> QED
    BY <2>1, <2>2 DEF PcShapes
<1>2. /\ Tail(<<"sched">>) = << >> /\ Tail(<<"ret">>) = << >> /\ Tail(<<"slept">>) = << >>
      /\ Tail(<<"insert">>) = << >> /\ Tail(<<"close">>) = << >> /\ Tail(<<"check">>) = << >>
      /\ Tail(<<"sched", "ret">>) = <<"ret">> /\ Tail(<<"sched", "slept">>) = <<"slept">>
      /\ Tail(<<"insert", "sched">>) = <<"sched">> /\ Tail(<<"close", "sched">>) = <<"sched">>
      /\ Tail(<<"eintr", "sched", "slept">>) = <<"sched", "slept">>
      /\ Tail(<<"drain", "check">>) = <<"check">>
  OBVIOUS
<1>3. s # << >> => Section(s) = Head(s)
  BY DEF Section
<1>4. s # << >> => Section(s) # "none"
  BY SectionFacts DEF PcShapes
<1>5. s = << >> => Section(s) = "none"
  BY SectionFacts
<1>6. /\ Section(s) = "sched" => Tail(s) \in {<< >>, <<"ret">>, <<"slept">>}
      /\ Section(s) \in {"insert", "close"} => Tail(s) \in {<< >>, <<"sched">>}
      /\ Section(s) = "eintr" => Tail(s) = <<"sched", "slept">>
      /\ Section(s) \in {"slept", "ret", "check"} => Tail(s) = << >>
      /\ Section(s) = "check" => s = <<"check">>
      /\ Section(s) = "drain" => Tail(s) = <<"check">>
  BY <1>2, SectionFacts DEF PcShapes
<1> QED
  BY <1>1, <1>3, <1>4, <1>5, <1>6

\* The sections left of a handler.
LEMMA IsrFacts ==
  ASSUME NEW s \in IsrShapes, s # << >>
  PROVE  /\ s \in Seq(IsrLabels)
         /\ Head(s) = "sched" => /\ Tail(s) \in {<<"timers", "leave">>, <<"leave">>}
                                 /\ s # <<"drain">>
         /\ Head(s) = "timers" => /\ s = <<"timers", "leave">> /\ Tail(s) = <<"leave">>
         /\ Head(s) = "leave" => s = <<"leave">> /\ Tail(s) = << >>
         /\ Head(s) = "drain" => s = <<"drain">> /\ Tail(s) = << >>
<1>1. /\ "sched" \in IsrLabels /\ "timers" \in IsrLabels /\ "leave" \in IsrLabels
      /\ "drain" \in IsrLabels
  BY DEF IsrLabels
<1>2. /\ \A l \in IsrLabels : <<l>> \in Seq(IsrLabels)
      /\ \A l, m \in IsrLabels : <<l, m>> \in Seq(IsrLabels)
      /\ \A l, m, n \in IsrLabels : <<l, m, n>> \in Seq(IsrLabels)
  OBVIOUS
<1>3. s \in Seq(IsrLabels)
  BY <1>1, <1>2 DEF IsrShapes
<1>4. CASE s = <<"sched", "timers", "leave">>
  BY <1>3, <1>4
<1>5. CASE s = <<"timers", "leave">>
  <2>1. Head(<<"timers", "leave">>) = "timers" /\ Tail(<<"timers", "leave">>) = <<"leave">>
    OBVIOUS
  <2> QED
    BY <1>3, <1>5, <2>1
<1>6. CASE s = <<"sched", "leave">>
  BY <1>3, <1>6
<1>7. CASE s = <<"leave">>
  BY <1>3, <1>7
<1>8. CASE s = <<"drain">>
  BY <1>3, <1>8
<1> QED
  BY <1>4, <1>5, <1>6, <1>7, <1>8 DEF IsrShapes

\* The pending sections of a handler, told apart.
LEMMA IsrDistinct ==
  /\ <<"leave">> # <<"drain">> /\ <<"timers", "leave">> # <<"drain">>
  /\ <<"sched", "leave">> # <<"drain">> /\ <<"sched", "timers", "leave">> # <<"drain">>
  /\ <<"leave">> # << >> /\ <<"timers", "leave">> # << >> /\ <<"drain">> # << >>
  /\ <<"sched", "leave">> # << >> /\ <<"sched", "timers", "leave">> # << >>
  OBVIOUS

-----------------------------------------------------------------------------
(* Threads a call has unlinked *)

\* A call by t unlinks u (rt_thread_resume, rt_thread_delete).
LEMMA TransitAdd ==
  ASSUME tgt \in [Threads -> ThreadOrNull \cup Waits],
         NEW t \in Threads \ {Idle}, NEW u \in Threads \ {t}, tgt[t] \notin Threads,
         tgt' = [tgt EXCEPT ![t] = u]
  PROVE  InTransit' = InTransit \cup {u}
  BY DEF InTransit

\* Idle, and a call on the caller itself or on an IPC object, unlink no thread.
LEMMA TransitSame ==
  ASSUME tgt \in [Threads -> ThreadOrNull \cup Waits],
         NEW t \in Threads, NEW v, t = Idle \/ (tgt[t] \notin Threads \ {t} /\ v \notin Threads \ {t}),
         tgt' = [tgt EXCEPT ![t] = v]
  PROVE  InTransit' = InTransit
  BY DEF InTransit

-----------------------------------------------------------------------------
(* Who takes a step *)

\* A thread calls a service.
LEMMA Caller ==
  ASSUME IInv, NEW t \in Threads, isr = << >>, cpu.exec = t, pc[t] = << >>
  PROVE  /\ t = k.cur /\ k.stat[t] = "RUNNING" /\ t \notin InTransit
         /\ tgt[t] = NoThread /\ ~ cpu.flag
<1>1. ~ cpu.flag /\ t = k.cur
  BY DEF IInv, CpuInv
<1>2. Section(pc[t]) = "none"
  BY SectionFacts
<1>3. tgt[t] \notin Threads /\ tgt[t] \notin Waits
  BY <1>2, IsrDistinct DEF IInv, TargetInv, TargetKind, PcAt
<1>4. tgt[t] \in ThreadOrNull \cup Waits
  BY DEF IInv, TypeOK
<1>5. tgt[t] = NoThread
  BY <1>3, <1>4 DEF ThreadOrNull
<1>6. t # NoThread
  BY ThreadsAssumption
<1>7. k.stat[t] = "RUNNING" /\ t \notin InTransit
  BY <1>1, <1>2, <1>6 DEF IInv, CurrentInv, PcAt
<1> QED
  BY <1>1, <1>5, <1>7

\* A thread runs a section of a call.
LEMMA Worker ==
  ASSUME IInv, NEW t \in Threads, NEW l, At(t, l)
  PROVE  /\ t = k.cur /\ t \notin InTransit /\ ~ cpu.flag /\ isr = << >> /\ cpu.exec = t
         /\ k.stat[t] \in {"RUNNING", "SUSPEND", "CLOSE"}
         /\ Section(pc[t]) = l /\ pc[t] \in PcShapes /\ pc[t] # << >>
<1>1. ~ cpu.flag /\ t = k.cur /\ isr = << >> /\ cpu.exec = t
  BY DEF IInv, CpuInv, At
<1>2. pc[t] \in PcShapes
  BY DEF IInv, Shapes
<1>3. Section(pc[t]) = l /\ pc[t] # << >>
  BY <1>2, ShapeFacts DEF At
<1>4. t # NoThread
  BY ThreadsAssumption
<1>5. k.stat[t] \in {"RUNNING", "SUSPEND", "CLOSE"} /\ t \notin InTransit
  BY <1>1, <1>4 DEF IInv, CurrentInv
<1> QED
  BY <1>1, <1>2, <1>3, <1>5

\* A thread no call works on.
LEMMA FreeThread ==
  ASSUME IInv, NEW u \in Threads, NotTarget(u)
  PROVE  u \notin InTransit /\ \A x \in Threads : tgt[x] # u
  BY DEF NotTarget, InTransit


\* What the pending sections work on: a thread in transit, the caller itself,
\* or a closed thread.
LEMMA Targets ==
  ASSUME IInv, NEW x \in Threads, tgt[x] \in Threads
  PROVE  \/ tgt[x] \in InTransit /\ tgt[x] # x /\ x # Idle
         \/ tgt[x] = x /\ k.stat[x] \in {"READY", "RUNNING"} /\ pc[x] = <<"close", "sched">>
         \/ x = Idle /\ PcAt(x, {"free"}) /\ k.stat[tgt[x]] = "CLOSE"
<1>1. PcAt(x, {"insert", "close", "free"}) /\ TargetStat(x)
  BY DEF IInv, TargetInv, TargetKind
<1>2. CASE PcAt(x, {"free"})
  BY <1>1, <1>2 DEF TargetStat
<1>3. CASE PcAt(x, {"insert"})
  BY <1>1, <1>3 DEF TargetStat, InTransit
<1>4. CASE PcAt(x, {"close"})
  BY <1>1, <1>4 DEF TargetStat, InTransit
<1> QED
  BY <1>1, <1>2, <1>3, <1>4 DEF PcAt

-----------------------------------------------------------------------------
(* Conjuncts of the invariant that a step leaves alone *)

\* Sections that work on no target.
Plain == {"none", "sched", "ret", "slept", "eintr"}

\* What a pending call knows of its target survives steps that keep the
\* target's state word.
LEMMA TargetFrame ==
  ASSUME NEW x \in Threads, TargetKind(x), TargetStat(x), pc'[x] = pc[x], tgt'[x] = tgt[x],
         (isr' = <<"drain">> /\ x = k'.cur) <=> (isr = <<"drain">> /\ x = k.cur),
         tgt[x] \in Threads => \/ k'.stat[tgt[x]] = k.stat[tgt[x]]
                               \/ /\ tgt[x] = x /\ ~ PcAt(x, {"free"})
                                  /\ k'.stat[x] \in {"READY", "RUNNING"}
  PROVE  TargetKind(x)' /\ TargetStat(x)'
<1>1. \A L : PcAt(x, L)' <=> PcAt(x, L)
  BY DEF PcAt
<1>2. TargetKind(x)'
  BY <1>1 DEF TargetKind
<1>3. PcAt(x, {"free"}) \/ PcAt(x, {"insert"}) \/ PcAt(x, {"close"}) => tgt[x] \in Threads
  BY DEF TargetKind, PcAt
<1>4. /\ PcAt(x, {"free"}) => ~ PcAt(x, {"close"})
      /\ PcAt(x, {"insert"}) => ~ PcAt(x, {"close"})
  BY DEF PcAt
<1>5. CASE k'.stat[tgt[x]] = k.stat[tgt[x]] \/ tgt[x] \notin Threads
  BY <1>1, <1>2, <1>3, <1>5 DEF TargetStat
<1>6. CASE /\ tgt[x] = x /\ ~ PcAt(x, {"free"})
           /\ k'.stat[x] \in {"READY", "RUNNING"} /\ k'.stat[x] # k.stat[x]
  <2>1. ~ PcAt(x, {"insert"})
    BY <1>6 DEF TargetStat
  <2>2. ~ PcAt(x, {"free"})
    BY <1>6
  <2> QED
    BY <1>1, <1>2, <1>6, <2>1, <2>2 DEF TargetStat
<1> QED
  BY <1>5, <1>6

\* A call that works on no target has nothing to keep.
LEMMA TargetPlain ==
  ASSUME NEW x \in Threads, tgt'[x] = NoThread, Section(pc'[x]) \in Plain,
         ~ (isr' = <<"drain">> /\ x = k'.cur)
  PROVE  TargetKind(x)' /\ TargetStat(x)'
<1>1. NoThread \notin Threads /\ NoThread \notin Waits
  BY ThreadsAssumption, TargetAssumption DEF ThreadOrNull
<1> QED
  BY <1>1 DEF TargetKind, TargetStat, PcAt, Plain

\* A step that changes no target, and no targeted state word, keeps TargetInv.
LEMMA TargetKeep ==
  ASSUME IInv, tgt' = tgt, isr' = <<"drain">> <=> isr = <<"drain">>,
         isr = <<"drain">> => k'.cur = k.cur,
         \A x \in Threads : \/ pc'[x] = pc[x]
                            \/ tgt[x] = NoThread /\ Section(pc'[x]) \in Plain
                            \/ PcAt(x, {"check", "drain"}) /\ Section(pc'[x]) \in {"check", "drain"},
         \A x \in Threads :
            tgt[x] \in Threads => \/ k'.stat[tgt[x]] = k.stat[tgt[x]]
                                  \/ tgt[x] = x /\ k'.stat[x] \in {"READY", "RUNNING"},
         \A x \in Threads : k'.stat[x] \in {"NONE", "INIT", "CLOSE"} =>
                               k.stat[x] \in {"NONE", "INIT", "CLOSE"} \/ tgt[x] = NoThread
  PROVE  TargetInv' /\ InTransit' = InTransit
<1>1. TargetInv
  BY DEF IInv
<1>2. InTransit' = InTransit
  BY DEF InTransit
<1>3. ASSUME NEW x \in Threads PROVE TargetKind(x)' /\ TargetStat(x)'
  <2>1. TargetKind(x) /\ TargetStat(x)
    BY <1>1 DEF TargetInv
  <2>2. CASE pc'[x] = pc[x]
    <3>1. tgt[x] = x => ~ PcAt(x, {"free"}) \/ k.stat[x] = "CLOSE"
      BY <2>1 DEF TargetStat
    <3>2. k.stat[x] = "CLOSE" => tgt[x] = NoThread
      BY <1>1 DEF TargetInv
    <3>3. tgt[x] = x => ~ PcAt(x, {"free"})
      BY <3>1, <3>2, ThreadsAssumption
    <3> QED
      BY <2>1, <2>2, <3>3, TargetFrame
  <2>3. CASE tgt[x] = NoThread /\ Section(pc'[x]) \in Plain
    <3>1. NoThread \notin Waits
      BY TargetAssumption DEF ThreadOrNull
    <3>2. ~ (isr' = <<"drain">> /\ x = k'.cur)
      BY <2>1, <2>3, <3>1 DEF TargetKind
    <3> QED
      BY <2>3, <3>2, TargetPlain
  <2>4. CASE PcAt(x, {"check", "drain"}) /\ Section(pc'[x]) \in {"check", "drain"}
    BY <2>1, <2>4 DEF TargetKind, TargetStat, PcAt
  <2> QED
    BY <2>2, <2>3, <2>4
<1>4. \A x \in Threads :
         k'.stat[x] \in {"NONE", "INIT", "CLOSE"} \/ x \in InTransit => tgt[x] = NoThread
  BY <1>1 DEF TargetInv
<1>5. /\ \A x, u \in Threads : tgt[x] = tgt[u] /\ tgt[x] \in Threads => x = u
      /\ Idle \notin InTransit
  BY <1>1 DEF TargetInv
<1>6. TargetInv'
  BY <1>2, <1>3, <1>4, <1>5 DEF TargetInv
<1> QED
  BY <1>2, <1>6

\* The running timers and their threads.
LEMMA TimersNow ==
  ASSUME IInv
  PROVE  /\ TimersOK(tm, ToSet(tm.list))
         /\ \A x \in ToSet(tm.list) : x \in Threads /\ k.stat[x] = "SUSPEND" /\ x \notin InTransit
<1>1. TimersOK(tm, ToSet(tm.list))
  BY DEF IInv, TypeOK, TimerInv, TimersOK
<1>2. ToSet(tm.list) \subseteq Threads
  BY <1>1, HoldsFacts DEF TimersOK
<1> QED
  BY <1>1, <1>2 DEF IInv, TimerInv, TimerOn

\* The timers of suspended threads that no call has unlinked may run.
LEMMA TimerKeep ==
  ASSUME NEW S, TimersOK(tm', S),
         \A x \in S : k'.stat[x] = "SUSPEND" /\ x \notin InTransit'
  PROVE  TimerInv' /\ tm' \in TimerState
<1>1. tm' \in TimerState /\ Holds(tm.list', S)
  BY DEF TimersOK
<1>2. ToSet(tm.list') = S
  BY <1>1 DEF Holds
<1> QED
  BY <1>1, <1>2 DEF TimerInv, TimerOn

\* A step that switches no context and creates or frees no thread keeps CpuInv.
LEMMA CpuKeep ==
  ASSUME IInv, cpu' = cpu, k'.cur = k.cur, ~ cpu.flag \/ isr' \notin {<< >>, <<"drain">>},
         \A x \in Threads : k'.stat[x] = "NONE" <=> k.stat[x] = "NONE"
  PROVE  CpuInv' /\ cpu' \in CpuState
<1>1. CpuInv /\ cpu \in CpuState
  BY DEF IInv, TypeOK
<1> QED
  BY <1>1 DEF CpuInv

\* A step that touches no remaining_tick keeps SliceInv.
LEMMA SliceKeep ==
  ASSUME IInv, rem' = rem, \A x \in Threads : k'.stat[x] = "NONE" <=> k.stat[x] = "NONE"
  PROVE  SliceInv' /\ rem' \in [Threads -> Nat]
  BY DEF IInv, TypeOK, SliceInv

\* The shapes of pending calls and handlers have the types of pc and isr.
LEMMA ShapesType ==
  ASSUME Shapes'
  PROVE  pc' \in [Threads -> Seq(Labels)] /\ isr' \in Seq(IsrLabels)
<1>1. \A x \in Threads : pc'[x] \in Seq(Labels)
  BY ShapeFacts DEF Shapes
<1>2. << >> \in Seq(IsrLabels)
  OBVIOUS
<1>3. isr' \in Seq(IsrLabels)
  BY <1>2, IsrFacts DEF Shapes
<1> QED
  BY <1>1, <1>3 DEF Shapes

\* TypeOK, from the invariants of the next state.
LEMMA TypeKeep ==
  ASSUME NEW Y, KernelOK(k', Y), tm' \in TimerState, cpu' \in CpuState,
         rem' \in [Threads -> Nat], err' \in [Threads -> Errors], Shapes',
         tgt' \in [Threads -> ThreadOrNull \cup Waits], lag' \in BOOLEAN
  PROVE  TypeOK'
<1>1. k' \in KernelState
  BY DEF KernelOK
<1> QED
  BY <1>1, ShapesType DEF TypeOK

\* A call by t sets the pending sections of t alone.
LEMMA ShapesCall ==
  ASSUME IInv, NEW t \in Threads, NEW s \in PcShapes, pc' = [pc EXCEPT ![t] = s],
         isr' \in IsrShapes
  PROVE  Shapes' /\ pc'[t] = s /\ \A x \in Threads \ {t} : pc'[x] = pc[x]
  BY DEF IInv, Shapes

-----------------------------------------------------------------------------
(* Calls on the calling thread *)

\* What a call by t that leaves t running finds and may do to CurrentInv.
LEMMA CurrentKeep ==
  ASSUME IInv, k'.cur = k.cur, k.cur \in Threads, k.cur \notin InTransit',
         \A x \in Threads : k'.stat[x] = "RUNNING" => x = k.cur,
         k'.stat[k.cur] \in {"RUNNING", "SUSPEND", "CLOSE"},
         k'.stat[k.cur] # "RUNNING" => k'.lock = 0 /\ Section(pc'[k.cur]) \in {"sched", "eintr"},
         tgt'[k.cur] = k.cur => k'.lock = 0,
         k'.stat[Idle] \in {"READY", "RUNNING"}
  PROVE  CurrentInv'
<1>1. k.cur # NoThread
  BY ThreadsAssumption
<1> QED
  BY <1>1 DEF CurrentInv, PcAt

\* rt_thread_yield preserves the invariant.
LEMMA YieldStep ==
  ASSUME IInv, NEW t \in Threads \ {Idle}, Yield(t)
  PROVE  IInv'
<1>1. /\ t = k.cur /\ k.stat[t] = "RUNNING" /\ t \notin InTransit
      /\ tgt[t] = NoThread /\ ~ cpu.flag
  BY Caller DEF Yield, Calls
<1>2. /\ tgt' = tgt /\ isr' = << >> /\ isr = << >> /\ cpu' = cpu /\ tm' = tm /\ err' = err
      /\ lag' = lag /\ pc' = [pc EXCEPT ![t] = <<"sched">>]
      /\ rem' = [rem EXCEPT ![t] = Slice[t]]
  BY DEF Yield, Calls, Call
<1>3. KernelOK(k', InTransit) /\ SameStats(k, k')
  <2>1. k' = [k EXCEPT !.yld = [k.yld EXCEPT ![t] = TRUE]]
    BY DEF Yield
  <2>2. k \in KernelState /\ KernelOK(k, InTransit)
    BY DEF IInv, TypeOK
  <2>3. [k.yld EXCEPT ![t] = TRUE] \in [Threads -> BOOLEAN]
    BY <2>2 DEF KernelState
  <2>4. /\ k' \in KernelState /\ SameLists(k, k')
        /\ k'.stat = k.stat /\ k'.prio = k.prio /\ k'.mask = k.mask
        /\ k'.cur = k.cur /\ k'.lock = k.lock
    BY <2>1, <2>2, <2>3 DEF KernelState, SameLists
  <2> QED
    BY <2>2, <2>4, FrameOK DEF SameStats
<1>4. k'.stat = k.stat /\ k'.cur = k.cur /\ k'.lock = k.lock
  BY <1>3 DEF SameStats
<1>5. Shapes' /\ pc'[t] = <<"sched">> /\ \A x \in Threads \ {t} : pc'[x] = pc[x]
  BY <1>2, ShapesCall DEF PcShapes, IsrShapes
<1>6. TargetInv' /\ InTransit' = InTransit
  BY <1>1, <1>2, <1>4, <1>5, TargetKeep, SectionFacts, IsrDistinct DEF Plain
<1>7. CurrentInv'
  BY <1>1, <1>2, <1>4, <1>5, <1>6 DEF IInv, CurrentInv
<1>8. TimerInv' /\ tm' \in TimerState
  BY <1>2, <1>4, <1>6, TimersNow, TimerKeep
<1>9. CpuInv' /\ cpu' \in CpuState
  BY <1>1, <1>2, <1>4, CpuKeep
<1>10. SliceInv' /\ rem' \in [Threads -> Nat]
  <2>1. Slice[t] \in Nat \ {0} /\ rem \in [Threads -> Nat]
    BY SliceAssumption DEF IInv, TypeOK
  <2> QED
    BY <1>2, <1>4, <2>1 DEF IInv, SliceInv
<1>11. TypeOK'
  BY <1>2, <1>3, <1>5, <1>8, <1>9, <1>10, TypeKeep DEF IInv, TypeOK
<1> QED
  BY <1>3, <1>5, <1>6, <1>7, <1>8, <1>9, <1>10, <1>11 DEF IInv

\* The running thread t, which may block, becomes SUSPEND or CLOSE and goes on
\* to call rt_schedule.
LEMMA LeaveStep ==
  ASSUME IInv, NEW t \in Threads, isr = << >>, cpu.exec = t, pc[t] = << >>, MayBlock(t),
         NEW s \in {"SUSPEND", "CLOSE"}, s = "CLOSE" => Undisturbed(t),
         KernelOK(k', InTransit), StatSet(k, k', t, s),
         NEW p \in PcShapes, pc' = [pc EXCEPT ![t] = p], Section(p) \in {"sched", "eintr"},
         tgt' = tgt, isr' = isr, cpu' = cpu, rem' = rem, lag' = lag,
         err' \in [Threads -> Errors],
         NEW S, TimersOK(tm', S), S \subseteq ToSet(tm.list) \cup {t},
         s = "CLOSE" => t \notin S
  PROVE  IInv'
<1>1. /\ t = k.cur /\ k.stat[t] = "RUNNING" /\ t \notin InTransit
      /\ tgt[t] = NoThread /\ ~ cpu.flag
  BY Caller
<1>2. k \in KernelState /\ t # NoThread /\ k.lock = 0 /\ t # Idle
  BY ThreadsAssumption DEF IInv, TypeOK, MayBlock
<1>3. /\ k'.stat[t] = s /\ \A x \in Threads \ {t} : k'.stat[x] = k.stat[x]
      /\ k'.cur = k.cur /\ k'.lock = k.lock
  BY <1>2 DEF StatSet, KernelState
<1>4. Shapes' /\ pc'[t] = p /\ \A x \in Threads \ {t} : pc'[x] = pc[x]
  BY ShapesCall DEF IInv, Shapes
<1>5. \A x \in Threads : tgt[x] \in Threads => tgt[x] # t
  <2> SUFFICES ASSUME NEW x \in Threads, tgt[x] = t PROVE FALSE
    OBVIOUS
  <2>1. tgt[x] # x
    BY <1>1, <1>2
  <2> QED
    BY <1>1, <2>1, Targets
<1>6. TargetInv' /\ InTransit' = InTransit
  BY <1>1, <1>3, <1>4, <1>5, TargetKeep, IsrDistinct DEF Plain
<1>7. CurrentInv'
  <2>1. k.stat[Idle] \in {"READY", "RUNNING"} /\ \A x \in Threads : k.stat[x] = "RUNNING" => x = t
    BY <1>1, <1>2 DEF IInv, CurrentInv
  <2>2. k'.stat[Idle] \in {"READY", "RUNNING"}
    BY <1>2, <1>3, <2>1, ThreadsAssumption
  <2> QED
    BY <1>1, <1>2, <1>3, <1>4, <1>6, <2>1, <2>2, CurrentKeep
<1>8. TimerInv' /\ tm' \in TimerState
  <2>1. ASSUME NEW x \in S PROVE k'.stat[x] = "SUSPEND" /\ x \notin InTransit'
    BY <1>1, <1>3, <1>6, TimersNow
  <2> QED
    BY <2>1, TimerKeep
<1>9. CpuInv' /\ cpu' \in CpuState
  BY <1>1, <1>3, CpuKeep
<1>10. SliceInv' /\ rem' \in [Threads -> Nat]
  BY <1>1, <1>3, SliceKeep
<1>11. TypeOK'
  BY <1>4, <1>8, <1>9, <1>10, TypeKeep DEF IInv, TypeOK
<1> QED
  BY <1>4, <1>6, <1>7, <1>8, <1>9, <1>10, <1>11 DEF IInv

\* Suspend(k, t) by the running thread.
LEMMA SuspendCall ==
  ASSUME IInv, NEW t \in Threads, isr = << >>, cpu.exec = t, pc[t] = << >>
  PROVE  KernelOK(Suspend(k, t), InTransit) /\ StatSet(k, Suspend(k, t), t, "SUSPEND")
<1>1. k.stat[t] = "RUNNING" /\ t \notin InTransit
  BY Caller
<1>2. KernelOK(k, InTransit)
  BY DEF IInv
<1>3. /\ KernelOK(SetStat(RemoveThread(k, t), t, "SUSPEND"), InTransit)
      /\ Restat(k, SetStat(RemoveThread(k, t), t, "SUSPEND"), t, "SUSPEND")
  BY <1>1, <1>2, RemoveAndSetOK
<1> QED
  BY <1>3 DEF Suspend, SetStat, Restat, StatSet

\* The timer of a thread that blocks: started, or stopped.
LEMMA BlockTimer ==
  ASSUME IInv, NEW t \in Threads, NEW n \in Nat
  PROVE  /\ TimersOK(TimerStop(tm, t), ToSet(tm.list) \ {t})
         /\ TimersOK(TimerStart(TimerStop(tm, t), t, n), (ToSet(tm.list) \ {t}) \cup {t})
<1>1. TimersOK(tm, ToSet(tm.list))
  BY TimersNow
<1>2. TimersOK(TimerStop(tm, t), ToSet(tm.list) \ {t})
  BY <1>1, TimerStopOK
<1> QED
  BY <1>2, TimerStartOK

\* rt_thread_sleep, up to the point where interrupts are enabled.
LEMMA SleepStep ==
  ASSUME IInv, NEW t \in Threads, NEW n \in Times, Sleep(t, n)
  PROVE  IInv'
<1>1. n \in Nat
  BY BoundAssumption DEF Times
<1>2. isr = << >> /\ cpu.exec = t /\ pc[t] = << >> /\ MayBlock(t)
  BY DEF Sleep, Calls
<1>3. KernelOK(k', InTransit) /\ StatSet(k, k', t, "SUSPEND")
  BY <1>2, SuspendCall DEF Sleep
<1>4. TimersOK(tm', (ToSet(tm.list) \ {t}) \cup {t})
  BY <1>1, BlockTimer DEF Sleep
<1>5. err' \in [Threads -> Errors]
  BY DEF Sleep, IInv, TypeOK, Errors
<1>6. /\ pc' = [pc EXCEPT ![t] = <<"eintr", "sched", "slept">>]
      /\ <<"eintr", "sched", "slept">> \in PcShapes
  BY DEF Sleep, Call, PcShapes
<1>7. Section(<<"eintr", "sched", "slept">>) \in {"sched", "eintr"}
  BY SectionFacts
<1>8. tgt' = tgt /\ isr' = isr /\ cpu' = cpu /\ rem' = rem /\ lag' = lag
  BY DEF Sleep
<1>9. (ToSet(tm.list) \ {t}) \cup {t} \subseteq ToSet(tm.list) \cup {t}
  OBVIOUS
<1> QED
  BY <1>2, <1>3, <1>4, <1>5, <1>6, <1>7, <1>8, <1>9, LeaveStep

\* rt_thread_suspend of the caller.
LEMMA SuspendSelfStep ==
  ASSUME IInv, NEW t \in Threads, SuspendSelf(t)
  PROVE  IInv'
<1>2. isr = << >> /\ cpu.exec = t /\ pc[t] = << >> /\ MayBlock(t)
  BY DEF SuspendSelf, Calls
<1>3. KernelOK(k', InTransit) /\ StatSet(k, k', t, "SUSPEND")
  BY <1>2, SuspendCall DEF SuspendSelf
<1>4. TimersOK(tm', ToSet(tm.list) \ {t})
  BY BlockTimer DEF SuspendSelf
<1>5. err' \in [Threads -> Errors]
  BY DEF SuspendSelf, IInv, TypeOK
<1>6. pc' = [pc EXCEPT ![t] = <<"sched">>] /\ <<"sched">> \in PcShapes
  BY DEF SuspendSelf, Call, PcShapes
<1>7. Section(<<"sched">>) \in {"sched", "eintr"}
  BY SectionFacts
<1>8. tgt' = tgt /\ isr' = isr /\ cpu' = cpu /\ rem' = rem /\ lag' = lag
  BY DEF SuspendSelf
<1>9. ToSet(tm.list) \ {t} \subseteq ToSet(tm.list) \cup {t}
  OBVIOUS
<1> QED
  BY <1>2, <1>3, <1>4, <1>5, <1>6, <1>7, <1>8, <1>9, LeaveStep

\* The blocking path of an IPC call, with and without timeout.
LEMMA BlockStep ==
  ASSUME IInv, NEW t \in Threads, NEW w \in Waits, NEW n \in Times \cup {0}, Block(t, w, n)
  PROVE  IInv'
<1>1. n \in Nat
  BY BoundAssumption DEF Times
<1>2. isr = << >> /\ cpu.exec = t /\ pc[t] = << >> /\ MayBlock(t)
  BY DEF Block, Calls
<1>3. KernelOK(k', InTransit) /\ StatSet(k, k', t, "SUSPEND")
  <2>1. k.stat[t] = "RUNNING" /\ t \notin InTransit
    BY <1>2, Caller
  <2>2. KernelOK(k, InTransit)
    BY DEF IInv
  <2>3. /\ KernelOK(IpcListSuspend(k, t, w), InTransit)
        /\ Restat(k, IpcListSuspend(k, t, w), t, "SUSPEND")
    BY <2>1, <2>2, IpcListSuspendOK
  <2> QED
    BY <2>3 DEF Block, Restat, StatSet
<1>4. PICK S : TimersOK(tm', S) /\ S \subseteq ToSet(tm.list) \cup {t}
  <2>1. CASE n = 0
    BY <2>1, BlockTimer DEF Block
  <2>2. CASE n # 0
    <3>1. TimersOK(tm', (ToSet(tm.list) \ {t}) \cup {t})
      BY <1>1, <2>2, BlockTimer DEF Block
    <3> QED
      BY <3>1
  <2> QED
    BY <2>1, <2>2
<1>5. err' \in [Threads -> Errors]
  BY DEF Block, IInv, TypeOK, Errors
<1>6. pc' = [pc EXCEPT ![t] = <<"sched", "ret">>] /\ <<"sched", "ret">> \in PcShapes
  BY DEF Block, Call, PcShapes
<1>7. Section(<<"sched", "ret">>) \in {"sched", "eintr"}
  BY SectionFacts
<1>8. tgt' = tgt /\ isr' = isr /\ cpu' = cpu /\ rem' = rem /\ lag' = lag
  BY DEF Block
<1> QED
  BY <1>2, <1>3, <1>4, <1>5, <1>6, <1>7, <1>8, LeaveStep

\* _thread_exit.
LEMMA ExitStep ==
  ASSUME IInv, NEW t \in Threads, Exit(t)
  PROVE  IInv'
<1>2. isr = << >> /\ cpu.exec = t /\ pc[t] = << >> /\ MayBlock(t) /\ Undisturbed(t)
  BY DEF Exit, Calls
<1>3. KernelOK(k', InTransit) /\ StatSet(k, k', t, "CLOSE")
  <2>1. k.stat[t] = "RUNNING" /\ t \notin InTransit
    BY <1>2, Caller
  <2>2. KernelOK(k, InTransit)
    BY DEF IInv
  <2>3. KernelOK(RemoveThread(k, t), InTransit \cup {t}) /\ SameThreads(k, RemoveThread(k, t))
    BY <2>1, <2>2, RemoveThreadOK
  <2>4. KernelOK(k', InTransit \ {t}) /\ StatSet(RemoveThread(k, t), k', t, "CLOSE")
    BY <2>3, CloseOK DEF Exit
  <2>5. InTransit \ {t} = InTransit
    BY <2>1
  <2> QED
    BY <2>3, <2>4, <2>5 DEF SameThreads, StatSet
<1>4. TimersOK(tm', ToSet(tm.list) \ {t})
  BY BlockTimer DEF Exit
<1>5. err' \in [Threads -> Errors]
  BY DEF Exit, IInv, TypeOK
<1>6. pc' = [pc EXCEPT ![t] = <<"sched">>] /\ <<"sched">> \in PcShapes
  BY DEF Exit, Call, PcShapes
<1>7. Section(<<"sched">>) \in {"sched", "eintr"}
  BY SectionFacts
<1>8. tgt' = tgt /\ isr' = isr /\ cpu' = cpu /\ rem' = rem /\ lag' = lag
  BY DEF Exit
<1>9. ToSet(tm.list) \ {t} \subseteq ToSet(tm.list) \cup {t} /\ t \notin ToSet(tm.list) \ {t}
  OBVIOUS
<1> QED
  BY <1>2, <1>3, <1>4, <1>5, <1>6, <1>7, <1>8, <1>9, LeaveStep

-----------------------------------------------------------------------------
(* Steps that change no state word *)

\* A step that changes no state word: accounting, priorities, errors, locks.
LEMMA StayStep ==
  ASSUME IInv, KernelOK(k', InTransit), k'.stat = k.stat, k'.cur = k.cur, k.cur \in Threads,
         k'.lock = k.lock \/ (k.stat[k.cur] = "RUNNING" /\ tgt[k.cur] # k.cur),
         tgt' = tgt, cpu' = cpu, isr # <<"drain">>, isr' # <<"drain">>,
         ~ cpu.flag \/ isr' # << >>, Shapes',
         \A x \in Threads : pc'[x] = pc[x] \/ (tgt[x] = NoThread /\ Section(pc'[x]) \in Plain),
         k.stat[k.cur] = "RUNNING" \/ pc'[k.cur] = pc[k.cur] \/ Section(pc'[k.cur]) = "sched",
         TimersOK(tm', ToSet(tm.list)),
         rem' \in [Threads -> Nat], \A x \in Threads : rem[x] >= 1 => rem'[x] >= 1,
         err' \in [Threads -> Errors], lag' \in BOOLEAN
  PROVE  IInv'
<1>1. TargetInv' /\ InTransit' = InTransit
  BY TargetKeep
<1>2. CurrentInv'
  <2>1. k.cur # NoThread
    BY ThreadsAssumption
  <2>2. /\ \A x \in Threads : k.stat[x] = "RUNNING" => x = k.cur
        /\ k.stat[k.cur] \in {"RUNNING", "SUSPEND", "CLOSE"} /\ k.cur \notin InTransit
        /\ k.stat[k.cur] # "RUNNING" => k.lock = 0 /\ Section(pc[k.cur]) \in {"sched", "eintr"}
        /\ tgt[k.cur] = k.cur => k.lock = 0
        /\ k.stat[Idle] \in {"READY", "RUNNING"}
    BY <2>1 DEF IInv, CurrentInv, PcAt
  <2> QED
    BY <1>1, <2>2, CurrentKeep
<1>3. TimerInv' /\ tm' \in TimerState
  BY <1>1, TimersNow, TimerKeep
<1>4. CpuInv' /\ cpu' \in CpuState
  BY CpuKeep
<1>5. SliceInv'
  BY DEF IInv, SliceInv
<1>6. tgt' \in [Threads -> ThreadOrNull \cup Waits]
  BY DEF IInv, TypeOK
<1>7. TypeOK'
  BY <1>3, <1>4, <1>6, TypeKeep
<1> QED
  BY <1>1, <1>2, <1>3, <1>4, <1>5, <1>7 DEF IInv

\* A change of the scheduler lock count.
LEMMA LockOK ==
  ASSUME IInv, NEW n \in Nat, k' = [k EXCEPT !.lock = n]
  PROVE  KernelOK(k', InTransit) /\ k'.stat = k.stat /\ k'.cur = k.cur
<1>1. k \in KernelState /\ KernelOK(k, InTransit)
  BY DEF IInv, TypeOK
<1>2. /\ k' \in KernelState /\ SameLists(k, k')
      /\ k'.stat = k.stat /\ k'.prio = k.prio /\ k'.mask = k.mask /\ k'.cur = k.cur
  BY <1>1 DEF KernelState, SameLists
<1> QED
  BY <1>1, <1>2, FrameOK

\* rt_enter_critical.
LEMMA EnterCriticalStep ==
  ASSUME IInv, NEW t \in Threads, EnterCritical(t)
  PROVE  IInv'
<1>1. /\ t = k.cur /\ k.stat[t] = "RUNNING" /\ tgt[t] = NoThread /\ ~ cpu.flag
  BY Caller DEF EnterCritical, Calls
<1>2. k.lock + 1 \in Nat
  BY DEF IInv, TypeOK, KernelState
<1>3. KernelOK(k', InTransit) /\ k'.stat = k.stat /\ k'.cur = k.cur
  BY <1>2, LockOK DEF EnterCritical
<1>4. /\ tgt' = tgt /\ cpu' = cpu /\ isr = << >> /\ isr' = << >> /\ pc' = pc /\ tm' = tm
      /\ rem' = rem /\ err' = err /\ lag' = lag
  BY DEF EnterCritical, Calls
<1>5. Shapes'
  BY <1>4 DEF IInv, Shapes
<1>6. t # NoThread
  BY ThreadsAssumption
<1>7. TimersOK(tm', ToSet(tm.list))
  BY <1>4, TimersNow
<1> QED
  BY <1>1, <1>3, <1>4, <1>5, <1>6, <1>7, StayStep, IsrDistinct DEF IInv, TypeOK

\* rt_exit_critical.
LEMMA ExitCriticalStep ==
  ASSUME IInv, NEW t \in Threads, ExitCritical(t)
  PROVE  IInv'
<1>1. /\ t = k.cur /\ k.stat[t] = "RUNNING" /\ tgt[t] = NoThread /\ ~ cpu.flag
  BY Caller DEF ExitCritical, Calls
<1>2. PICK n \in Nat : k' = [k EXCEPT !.lock = n]
  <2>1. k.lock \in Nat
    BY DEF IInv, TypeOK, KernelState
  <2>2. (IF k.lock > 0 THEN k.lock - 1 ELSE 0) \in Nat
    BY <2>1
  <2>3. k' = [k EXCEPT !.lock = IF k.lock > 0 THEN k.lock - 1 ELSE 0]
    BY DEF ExitCritical
  <2> QED
    BY <2>2, <2>3
<1>3. KernelOK(k', InTransit) /\ k'.stat = k.stat /\ k'.cur = k.cur
  BY <1>2, LockOK
<1>4. /\ tgt' = tgt /\ cpu' = cpu /\ isr = << >> /\ isr' = << >> /\ tm' = tm
      /\ rem' = rem /\ err' = err /\ lag' = lag
  BY DEF ExitCritical, Calls
<1>5. PICK s \in {<< >>, <<"sched">>} : pc' = [pc EXCEPT ![t] = s]
  BY DEF ExitCritical, Call
<1>6. Shapes' /\ pc'[t] = s /\ \A x \in Threads \ {t} : pc'[x] = pc[x]
  BY <1>4, <1>5, ShapesCall DEF PcShapes, IsrShapes
<1>7. t # NoThread /\ Section(s) \in Plain
  BY ThreadsAssumption, SectionFacts DEF Plain
<1>8. TimersOK(tm', ToSet(tm.list))
  BY <1>4, TimersNow
<1> QED
  BY <1>1, <1>3, <1>4, <1>6, <1>7, <1>8, StayStep, IsrDistinct DEF IInv, TypeOK

\* RT_THREAD_CTRL_CHANGE_PRIORITY, on a thread in any state.
LEMMA SetPriorityStep ==
  ASSUME IInv, NEW t \in Threads, NEW u \in Threads, NEW p \in Prio, SetPriority(t, u, p)
  PROVE  IInv'
<1>1. /\ t = k.cur /\ k.stat[t] = "RUNNING" /\ tgt[t] = NoThread /\ ~ cpu.flag
  BY Caller DEF SetPriority, Calls
<1>2. u \notin InTransit /\ KernelOK(k, InTransit)
  BY FreeThread DEF SetPriority, IInv
<1>3. KernelOK(k', InTransit) /\ SameStats(k, k')
  BY <1>1, <1>2, ChangePriorityOK DEF SetPriority
<1>4. /\ tgt' = tgt /\ cpu' = cpu /\ isr = << >> /\ isr' = << >> /\ pc' = pc /\ tm' = tm
      /\ rem' = rem /\ err' = err /\ lag' = TRUE
  BY DEF SetPriority, Calls
<1>5. Shapes'
  BY <1>4 DEF IInv, Shapes
<1>6. TimersOK(tm', ToSet(tm.list))
  BY <1>4, TimersNow
<1> QED
  BY <1>1, <1>3, <1>4, <1>5, <1>6, StayStep, IsrDistinct DEF IInv, TypeOK, SameStats

\* rt_thread_sleep and an IPC call, back from rt_schedule or on the way to it.
LEMMA ReturnStep ==
  ASSUME IInv, NEW t \in Threads, DoEintr(t) \/ DoSlept(t) \/ DoReturn(t)
  PROVE  IInv'
<1>1. PICK l \in {"eintr", "slept", "ret"} : At(t, l)
  BY DEF DoEintr, DoSlept, DoReturn
<1>2. /\ t = k.cur /\ ~ cpu.flag /\ isr = << >>
      /\ Section(pc[t]) = l /\ pc[t] \in PcShapes
  BY <1>1, Worker
<1>3. /\ tgt' = tgt /\ cpu' = cpu /\ isr' = << >> /\ tm' = tm /\ k' = k
      /\ rem' = rem /\ lag' = lag /\ pc' = [pc EXCEPT ![t] = Tail(pc[t])]
  BY <1>2 DEF DoEintr, DoSlept, DoReturn, Done
<1>4. /\ Tail(pc[t]) \in {<< >>, <<"sched", "slept">>}
      /\ l = "eintr" => Tail(pc[t]) = <<"sched", "slept">>
  BY <1>2, ShapeFacts
<1>5. Shapes' /\ pc'[t] = Tail(pc[t]) /\ \A x \in Threads \ {t} : pc'[x] = pc[x]
  BY <1>3, <1>4, ShapesCall DEF PcShapes, IsrShapes
<1>6. /\ Section(pc'[t]) \in Plain
      /\ l = "eintr" => Section(pc'[t]) = "sched"
  BY <1>4, <1>5, SectionFacts DEF Plain
<1>7. tgt[t] = NoThread
  <2>1. tgt[t] \notin Threads /\ tgt[t] \notin Waits
    BY <1>2, IsrDistinct DEF IInv, TargetInv, TargetKind, PcAt
  <2>2. tgt[t] \in ThreadOrNull \cup Waits
    BY DEF IInv, TypeOK
  <2> QED
    BY <2>1, <2>2 DEF ThreadOrNull
<1>8. l # "eintr" => k.stat[t] = "RUNNING"
  <2>1. t # NoThread
    BY ThreadsAssumption
  <2> QED
    BY <1>2, <2>1 DEF IInv, CurrentInv, PcAt
<1>9. err' \in [Threads -> Errors]
  BY DEF IInv, TypeOK, Errors, DoEintr, DoSlept, DoReturn
<1>10. TimersOK(tm', ToSet(tm.list))
  BY <1>3, TimersNow
<1>11. KernelOK(k', InTransit) /\ rem \in [Threads -> Nat] /\ lag \in BOOLEAN
  BY <1>3 DEF IInv, TypeOK
<1> QED
  BY <1>2, <1>3, <1>5, <1>6, <1>7, <1>8, <1>9, <1>10, <1>11, StayStep, IsrDistinct

-----------------------------------------------------------------------------
(* Wake-ups *)

\* A suspended thread no call works on becomes ready.
LEMMA WakeStep ==
  ASSUME IInv, NEW u \in Threads \ InTransit, k.stat[u] = "SUSPEND", k' = Resume(k, u),
         tm' = TimerStop(tm, u), k.cur \in Threads,
         tgt' = tgt, cpu' = cpu, rem' = rem, isr' = <<"drain">> <=> isr = <<"drain">>,
         ~ cpu.flag \/ isr' \notin {<< >>, <<"drain">>}, Shapes',
         \A x \in Threads : \/ pc'[x] = pc[x]
                            \/ tgt[x] = NoThread /\ Section(pc'[x]) \in Plain
                            \/ PcAt(x, {"check", "drain"}) /\ Section(pc'[x]) \in {"check", "drain"},
         pc'[k.cur] = pc[k.cur] \/ k.stat[k.cur] = "RUNNING",
         err' \in [Threads -> Errors], lag' \in BOOLEAN
  PROVE  IInv'
<1>0. KernelOK(k, InTransit) /\ k \in KernelState
  BY DEF IInv, TypeOK
<1>1. /\ KernelOK(k', InTransit \ {u})
      /\ Restat(k, k', u, IF u = k.cur THEN "RUNNING" ELSE "READY")
  BY <1>0, ResumeOK
<1>2. InTransit \ {u} = InTransit
  OBVIOUS
<1>3. /\ k'.stat[u] = IF u = k.cur THEN "RUNNING" ELSE "READY"
      /\ \A x \in Threads \ {u} : k'.stat[x] = k.stat[x]
      /\ k'.cur = k.cur /\ k'.lock = k.lock
  BY <1>0, <1>1 DEF Restat, KernelState
<1>4. \A x \in Threads : tgt[x] \in Threads => tgt[x] # u
  <2> SUFFICES ASSUME NEW x \in Threads, tgt[x] = u PROVE FALSE
    OBVIOUS
  <2> QED
    BY Targets
<1>5. TargetInv' /\ InTransit' = InTransit
  BY <1>3, <1>4, TargetKeep
<1>6. CurrentInv'
  <2>1. k.cur # NoThread
    BY ThreadsAssumption
  <2>2. /\ \A x \in Threads : k.stat[x] = "RUNNING" => x = k.cur
        /\ k.stat[k.cur] \in {"RUNNING", "SUSPEND", "CLOSE"} /\ k.cur \notin InTransit
        /\ k.stat[k.cur] # "RUNNING" => k.lock = 0 /\ Section(pc[k.cur]) \in {"sched", "eintr"}
        /\ tgt[k.cur] = k.cur => k.lock = 0
        /\ k.stat[Idle] \in {"READY", "RUNNING"}
    BY <2>1 DEF IInv, CurrentInv, PcAt
  <2>3. k'.stat[Idle] \in {"READY", "RUNNING"}
    BY <1>3, <2>2, ThreadsAssumption
  <2>4. \A x \in Threads : k'.stat[x] = "RUNNING" => x = k.cur
    BY <1>3, <2>2
  <2>5. k'.stat[k.cur] = k.stat[k.cur] \/ k'.stat[k.cur] = "RUNNING"
    BY <1>3
  <2> QED
    BY <1>3, <1>5, <2>2, <2>3, <2>4, <2>5, CurrentKeep
<1>7. TimerInv' /\ tm' \in TimerState
  <2>1. TimersOK(tm', ToSet(tm.list) \ {u})
    BY TimersNow, TimerStopOK
  <2>2. \A x \in ToSet(tm.list) \ {u} : k'.stat[x] = "SUSPEND" /\ x \notin InTransit'
    BY <1>3, <1>5, TimersNow
  <2> QED
    BY <2>1, <2>2, TimerKeep
<1>8. \A x \in Threads : k'.stat[x] = "NONE" <=> k.stat[x] = "NONE"
  BY <1>3
<1>9. CpuInv' /\ cpu' \in CpuState
  BY <1>3, <1>8, CpuKeep
<1>10. SliceInv' /\ rem' \in [Threads -> Nat]
  BY <1>8, SliceKeep
<1>11. tgt' \in [Threads -> ThreadOrNull \cup Waits]
  BY DEF IInv, TypeOK
<1>12. KernelOK(k', InTransit')
  BY <1>1, <1>2, <1>5
<1>13. TypeOK'
  BY <1>7, <1>9, <1>10, <1>11, <1>12, TypeKeep
<1> QED
  BY <1>5, <1>6, <1>7, <1>9, <1>10, <1>12, <1>13 DEF IInv

\* The thread WakeFirst takes.
LEMMA FirstWaiter ==
  ASSUME IInv, NEW w \in Waits, NEW e \in Errors, WakeFirst(w, e)
  PROVE  /\ Head(k.wait[w]) \in Threads \ InTransit /\ k.stat[Head(k.wait[w])] = "SUSPEND"
         /\ k' = Resume(k, Head(k.wait[w])) /\ tm' = TimerStop(tm, Head(k.wait[w]))
         /\ err' \in [Threads -> Errors]
<1>1. KernelOK(k, InTransit)
  BY DEF IInv
<1>2. /\ Holds(k.wait[w], ToSet(k.wait[w]))
      /\ \A x \in ToSet(k.wait[w]) : k.stat[x] = "SUSPEND" /\ x \notin InTransit
  BY <1>1 DEF KernelOK, LinksOK
<1>3. k.wait[w] # << >>
  BY DEF WakeFirst
<1>4. Head(k.wait[w]) \in ToSet(k.wait[w]) /\ ToSet(k.wait[w]) \subseteq Threads
  BY <1>2, <1>3, HoldsFacts
<1>5. k' = Resume(k, Head(k.wait[w])) /\ tm' = TimerStop(tm, Head(k.wait[w]))
  BY DEF WakeFirst
<1>6. err' \in [Threads -> Errors]
  BY DEF WakeFirst, IInv, TypeOK
<1> QED
  BY <1>2, <1>4, <1>5, <1>6

\* The errors a waker leaves in a woken thread.
LEMMA ErrorsFacts == "EOK" \in Errors /\ "ERROR" \in Errors /\ "ETIMEOUT" \in Errors
  BY DEF Errors

\* _ipc_list_resume called by a thread.
LEMMA WakeCallStep ==
  ASSUME IInv, NEW t \in Threads, NEW w \in Waits, Wake(t, w)
  PROVE  IInv'
<1>1. /\ t = k.cur /\ k.stat[t] = "RUNNING" /\ tgt[t] = NoThread /\ ~ cpu.flag
  BY Caller DEF Wake, Calls
<1>2. WakeFirst(w, "EOK")
  BY DEF Wake
<1> DEFINE u == Head(k.wait[w])
<1>3. /\ u \in Threads \ InTransit /\ k.stat[u] = "SUSPEND" /\ k' = Resume(k, u)
      /\ tm' = TimerStop(tm, u) /\ err' \in [Threads -> Errors]
  BY <1>2, FirstWaiter, ErrorsFacts
<1>4. /\ tgt' = tgt /\ cpu' = cpu /\ isr = << >> /\ isr' = << >> /\ rem' = rem /\ lag' = lag
      /\ pc' = [pc EXCEPT ![t] = <<"sched">>]
  BY DEF Wake, Calls, Call
<1>5. Shapes' /\ pc'[t] = <<"sched">> /\ \A x \in Threads \ {t} : pc'[x] = pc[x]
  BY <1>4, ShapesCall DEF PcShapes, IsrShapes
<1>6. Section(pc'[t]) \in Plain /\ lag' \in BOOLEAN
  BY <1>4, <1>5, SectionFacts DEF Plain, IInv, TypeOK
<1> HIDE DEF u
<1> QED
  BY <1>1, <1>3, <1>4, <1>5, <1>6, WakeStep, IsrDistinct

\* The loop body of _ipc_list_resume_all, interrupts enabled between rounds.
LEMMA DoDrainStep ==
  ASSUME IInv, NEW t \in Threads, DoDrain(t)
  PROVE  IInv'
<1>1. /\ t = k.cur /\ ~ cpu.flag /\ isr = << >>
      /\ Section(pc[t]) = "drain" /\ pc[t] \in PcShapes
  BY Worker DEF DoDrain
<1>2. tgt[t] \in Waits
  BY <1>1 DEF IInv, TargetInv, TargetKind, PcAt
<1>3. k.stat[t] = "RUNNING"
  <2>1. t # NoThread
    BY ThreadsAssumption
  <2> QED
    BY <1>1, <2>1 DEF IInv, CurrentInv, PcAt
<1> DEFINE u == Head(k.wait[tgt[t]])
<1>4. /\ u \in Threads \ InTransit /\ k.stat[u] = "SUSPEND" /\ k' = Resume(k, u)
      /\ tm' = TimerStop(tm, u) /\ err' \in [Threads -> Errors]
  BY <1>2, FirstWaiter, ErrorsFacts DEF DoDrain
<1>5. /\ tgt' = tgt /\ cpu' = cpu /\ isr' = << >> /\ rem' = rem /\ lag' = TRUE
      /\ pc' = [pc EXCEPT ![t] = Tail(pc[t])]
  BY <1>1 DEF DoDrain, Done
<1>6. Tail(pc[t]) = <<"check">>
  BY <1>1, ShapeFacts
<1>7. Shapes' /\ pc'[t] = <<"check">> /\ \A x \in Threads \ {t} : pc'[x] = pc[x]
  BY <1>5, <1>6, ShapesCall DEF PcShapes, IsrShapes
<1>8. PcAt(t, {"check", "drain"}) /\ Section(pc'[t]) \in {"check", "drain"}
  BY <1>1, <1>7, SectionFacts DEF PcAt
<1> HIDE DEF u
<1> QED
  BY <1>1, <1>3, <1>4, <1>5, <1>7, <1>8, WakeStep, IsrDistinct

\* _ipc_list_resume called by a handler.
LEMMA IsrWakeStep ==
  ASSUME IInv, NEW w \in Waits, IsrWake(w)
  PROVE  IInv'
<1>1. isr = << >> /\ k.cur \in Threads /\ ~ cpu.flag
  BY DEF IsrWake, Interrupts, IInv, CpuInv, TypeOK, KernelState
<1> DEFINE u == Head(k.wait[w])
<1>2. /\ u \in Threads \ InTransit /\ k.stat[u] = "SUSPEND" /\ k' = Resume(k, u)
      /\ tm' = TimerStop(tm, u) /\ err' \in [Threads -> Errors]
  BY FirstWaiter, ErrorsFacts DEF IsrWake
<1>3. /\ tgt' = tgt /\ cpu' = cpu /\ isr' = <<"sched", "leave">> /\ rem' = rem /\ lag' = lag
      /\ pc' = pc /\ lag \in BOOLEAN
  BY DEF IsrWake, IInv, TypeOK
<1>4. Shapes'
  BY <1>3 DEF IInv, Shapes, IsrShapes
<1> HIDE DEF u
<1> QED
  BY <1>1, <1>2, <1>3, <1>4, WakeStep, IsrDistinct

\* rt_thread_resume called by a handler.
LEMMA IsrResumeStep ==
  ASSUME IInv, NEW u \in Threads, IsrResume(u)
  PROVE  IInv'
<1>1. isr = << >> /\ k.cur \in Threads /\ ~ cpu.flag
  BY DEF IsrResume, Interrupts, IInv, CpuInv, TypeOK, KernelState
<1>2. u \notin InTransit /\ k.stat[u] = "SUSPEND" /\ k' = Resume(k, u) /\ tm' = TimerStop(tm, u)
  BY FreeThread DEF IsrResume
<1>3. /\ tgt' = tgt /\ cpu' = cpu /\ isr' = <<"sched", "leave">> /\ rem' = rem /\ lag' = lag
      /\ pc' = pc /\ lag \in BOOLEAN /\ err' \in [Threads -> Errors]
  BY DEF IsrResume, IInv, TypeOK
<1>4. Shapes'
  BY <1>3 DEF IInv, Shapes, IsrShapes
<1> QED
  BY <1>1, <1>2, <1>3, <1>4, WakeStep, IsrDistinct

\* In a handler there is a current thread.
LEMMA HandlerCur ==
  ASSUME IInv, isr # << >>
  PROVE  k.cur \in Threads /\ k.cur # NoThread /\ isr \in IsrShapes
  BY DEF IInv, CurrentInv, TypeOK, KernelState, Shapes

\* _thread_timeout, called from rt_timer_check.
LEMMA IsrTimeoutStep ==
  ASSUME IInv, IsrTimeout
  PROVE  IInv'
<1>1. isr # << >> /\ Head(isr) = "timers" /\ isr \in IsrShapes /\ k.cur \in Threads
  BY HandlerCur DEF IsrTimeout, IsrAt
<1>2. isr = <<"timers", "leave">>
  BY <1>1, IsrFacts
<1> DEFINE u == Head(tm.list)
<1>3. u \in Threads /\ k.stat[u] = "SUSPEND" /\ u \notin InTransit
  <2>1. Holds(tm.list, ToSet(tm.list)) /\ tm.list # << >>
    BY DEF IsrTimeout, TimerDue, IInv, TimerInv
  <2>2. u \in ToSet(tm.list)
    BY <2>1, HoldsFacts
  <2> QED
    BY <2>2, TimersNow
<1>4. /\ k' = Resume(k, u) /\ tm' = TimerStop(tm, u) /\ err' = [err EXCEPT ![u] = "ETIMEOUT"]
      /\ tgt' = tgt /\ cpu' = cpu /\ isr' = <<"sched", "timers", "leave">> /\ rem' = rem
      /\ lag' = lag /\ pc' = pc
  BY DEF IsrTimeout
<1>5. err' \in [Threads -> Errors] /\ lag' \in BOOLEAN
  BY <1>4, ErrorsFacts DEF IInv, TypeOK
<1>6. Shapes'
  BY <1>4 DEF IInv, Shapes, IsrShapes
<1> HIDE DEF u
<1> QED
  BY <1>1, <1>2, <1>3, <1>4, <1>5, <1>6, WakeStep, IsrDistinct

\* The loop body of _ipc_list_resume_all with interrupts off.
LEMMA OffDrainStep ==
  ASSUME IInv, OffDrain
  PROVE  IInv'
<1>1. isr # << >> /\ Head(isr) = "drain" /\ isr \in IsrShapes /\ k.cur \in Threads
  BY HandlerCur DEF OffDrain, IsrAt
<1>2. isr = <<"drain">>
  BY <1>1, IsrFacts
<1>3. ~ cpu.flag /\ cpu.exec = k.cur
  BY <1>2 DEF IInv, CpuInv
<1>4. tgt[k.cur] \in Waits
  BY <1>1, <1>2 DEF IInv, TargetInv, TargetKind
<1> DEFINE u == Head(k.wait[tgt[k.cur]])
<1>5. /\ u \in Threads \ InTransit /\ k.stat[u] = "SUSPEND" /\ k' = Resume(k, u)
      /\ tm' = TimerStop(tm, u) /\ err' \in [Threads -> Errors]
  BY <1>3, <1>4, FirstWaiter, ErrorsFacts DEF OffDrain
<1>6. /\ tgt' = tgt /\ cpu' = cpu /\ isr' = isr /\ rem' = rem /\ lag' = lag
      /\ pc' = pc /\ lag \in BOOLEAN /\ Shapes
  BY DEF OffDrain, IInv, TypeOK
<1>7. Shapes'
  BY <1>6 DEF Shapes
<1> HIDE DEF u
<1> QED
  BY <1>1, <1>3, <1>5, <1>6, <1>7, WakeStep

-----------------------------------------------------------------------------
(* The tick and the end of a handler *)

\* The time slice in rt_tick_increase.
LEMMA TickStep ==
  ASSUME IInv, Tick
  PROVE  IInv'
<1> DEFINE t == k.cur
<1>1. isr = << >> /\ t \in Threads /\ ~ cpu.flag /\ t # NoThread
  BY DEF Tick, Interrupts, IInv, CpuInv, TypeOK, KernelState
<1>2. k.stat[t] # "NONE"
  BY <1>1 DEF IInv, CurrentInv
<1>3. rem \in [Threads -> Nat] /\ rem[t] >= 1 /\ Slice[t] \in Nat \ {0}
  BY <1>1, <1>2, SliceAssumption DEF IInv, TypeOK, SliceInv
<1>4. rem' = [rem EXCEPT ![t] = IF rem[t] = 1 THEN Slice[t] ELSE rem[t] - 1]
  BY DEF Tick
<1>5. rem' \in [Threads -> Nat] /\ \A x \in Threads : rem[x] >= 1 => rem'[x] >= 1
  BY <1>1, <1>3, <1>4
<1>6. KernelOK(k', InTransit) /\ k'.stat = k.stat /\ k'.cur = k.cur /\ k'.lock = k.lock
  <2>1. KernelOK(k, InTransit) /\ k \in KernelState
    BY DEF IInv, TypeOK
  <2>2. CASE k' = k
    BY <2>1, <2>2
  <2>3. CASE k' = [k EXCEPT !.yld[t] = TRUE]
    <3>1. k' = [k EXCEPT !.yld = [k.yld EXCEPT ![t] = TRUE]]
      BY <2>3
    <3>2. [k.yld EXCEPT ![t] = TRUE] \in [Threads -> BOOLEAN]
      BY <2>1 DEF KernelState
    <3>3. /\ k' \in KernelState /\ SameLists(k, k')
          /\ k'.stat = k.stat /\ k'.prio = k.prio /\ k'.mask = k.mask
          /\ k'.cur = k.cur /\ k'.lock = k.lock
      BY <2>1, <3>1, <3>2 DEF KernelState, SameLists
    <3> QED
      BY <2>1, <3>3, FrameOK
  <2> QED
    BY <2>2, <2>3 DEF Tick
<1>7. /\ tgt' = tgt /\ cpu' = cpu /\ pc' = pc /\ err' = err /\ lag' = lag
      /\ isr' \in {<<"sched", "timers", "leave">>, <<"timers", "leave">>}
      /\ tm' = TimerTick(tm)
  BY DEF Tick
<1>8. Shapes'
  BY <1>7 DEF IInv, Shapes, IsrShapes
<1>9. TimersOK(tm', ToSet(tm.list))
  BY <1>7, TimersNow, TimerTickOK
<1>10. err' \in [Threads -> Errors] /\ lag' \in BOOLEAN
  BY <1>7 DEF IInv, TypeOK
<1>11. isr' # <<"drain">> /\ isr' # << >> /\ isr # <<"drain">>
  BY <1>1, <1>7, IsrDistinct
<1> QED
  BY <1>1, <1>5, <1>6, <1>7, <1>8, <1>9, <1>10, <1>11, StayStep

\* rt_timer_check finds nothing due.
LEMMA IsrTimersDoneStep ==
  ASSUME IInv, IsrTimersDone
  PROVE  IInv'
<1>1. isr # << >> /\ Head(isr) = "timers" /\ isr \in IsrShapes /\ k.cur \in Threads
  BY HandlerCur DEF IsrTimersDone, IsrAt
<1>2. isr = <<"timers", "leave">> /\ Tail(isr) = <<"leave">>
  BY <1>1, IsrFacts
<1>3. /\ k' = k /\ tgt' = tgt /\ cpu' = cpu /\ isr' = <<"leave">> /\ rem' = rem /\ tm' = tm
      /\ lag' = lag /\ pc' = pc /\ err' = err
  BY <1>2 DEF IsrTimersDone
<1>4. Shapes'
  BY <1>3 DEF IInv, Shapes, IsrShapes
<1>5. /\ err' \in [Threads -> Errors] /\ lag' \in BOOLEAN /\ rem' \in [Threads -> Nat]
      /\ KernelOK(k', InTransit)
  BY <1>3 DEF IInv, TypeOK
<1>6. TimersOK(tm', ToSet(tm.list))
  BY <1>3, TimersNow
<1> QED
  BY <1>1, <1>2, <1>3, <1>4, <1>5, <1>6, StayStep, IsrDistinct

\* Trap exit: a switch recorded by the handler is carried out.
LEMMA IsrLeaveStep ==
  ASSUME IInv, IsrLeave
  PROVE  IInv'
<1>1. isr # << >> /\ Head(isr) = "leave" /\ isr \in IsrShapes /\ k.cur \in Threads
      /\ k.cur # NoThread
  BY HandlerCur DEF IsrLeave, IsrAt
<1>2. isr = <<"leave">> /\ Tail(isr) = << >>
  BY <1>1, IsrFacts
<1>3. /\ k' = k /\ tgt' = tgt /\ isr' = << >> /\ rem' = rem /\ tm' = tm
      /\ lag' = lag /\ pc' = pc /\ err' = err /\ cpu' = TrapExit(cpu)
  BY <1>2 DEF IsrLeave
<1>4. Shapes'
  BY <1>3 DEF IInv, Shapes, IsrShapes
<1>5. TargetInv' /\ InTransit' = InTransit
  BY <1>2, <1>3, TargetKeep, IsrDistinct
<1>6. CurrentInv'
  BY <1>1, <1>3, <1>5 DEF IInv, CurrentInv, PcAt
<1>7. TimerInv' /\ SliceInv' /\ KernelOK(k', InTransit')
  BY <1>3, <1>5 DEF IInv, TimerInv, TimerOn, SliceInv
<1>8. CpuInv' /\ cpu' \in CpuState
  <2>0. CpuInv /\ cpu \in CpuState /\ k.stat[k.cur] # "NONE"
    BY <1>1 DEF IInv, TypeOK, CurrentInv
  <2>1. CASE ~ cpu.flag
    BY <1>3, <2>0, <2>1 DEF TrapExit, CpuInv
  <2>2. CASE cpu.flag
    <3> DEFINE stored == [cpu.saved EXCEPT ![cpu.from] = cpu.exec]
    <3>1. /\ cpu.exec \in Threads /\ cpu.from = cpu.exec /\ cpu.to = k.cur
          /\ k.stat[cpu.exec] # "NONE"
          /\ \A x \in Threads : k.stat[x] # "NONE" => cpu.saved[x] = x
      BY <2>0, <2>2 DEF CpuInv
    <3>2. stored \in [Threads -> ThreadOrNull] /\ \A x \in Threads : k.stat[x] # "NONE" => stored[x] = x
      BY <2>0, <3>1 DEF CpuState, ThreadOrNull
    <3>3. cpu' = [exec |-> stored[cpu.to], saved |-> stored, flag |-> FALSE,
                  from |-> NoThread, to |-> NoThread]
      BY <1>3, <2>2 DEF TrapExit
    <3> HIDE DEF stored
    <3>4. stored[cpu.to] = k.cur
      BY <1>1, <2>0, <3>1, <3>2
    <3>5. /\ cpu'.exec = k.cur /\ cpu'.saved = stored /\ cpu'.flag = FALSE
      BY <3>3, <3>4
    <3>6. cpu' \in CpuState
      BY <1>1, <3>2, <3>3, <3>4 DEF CpuState, ThreadOrNull
    <3>7. CpuInv'
      BY <1>1, <1>3, <2>0, <3>2, <3>5 DEF CpuInv
    <3> QED
      BY <3>6, <3>7
  <2> QED
    BY <2>1, <2>2
<1>9. /\ err' \in [Threads -> Errors] /\ lag' \in BOOLEAN /\ rem' \in [Threads -> Nat]
      /\ tm' \in TimerState /\ tgt' \in [Threads -> ThreadOrNull \cup Waits]
  BY <1>3 DEF IInv, TypeOK
<1>10. TypeOK'
  BY <1>4, <1>7, <1>8, <1>9, TypeKeep
<1> QED
  BY <1>4, <1>5, <1>6, <1>7, <1>8, <1>10 DEF IInv

-----------------------------------------------------------------------------
(* rt_schedule *)

\* The current thread calls rt_schedule, itself or in a handler.
LEMMA ScheduleFacts ==
  ASSUME IInv, k.cur \in Threads
  PROVE  /\ KernelOK(Schedule(k), InTransit) /\ Scheduled(k, Schedule(k))
         /\ Schedule(k).cur \in Threads \ InTransit
         /\ k.stat[k.cur] # "RUNNING" => Switched(k, Schedule(k))
<1>1. k.cur # NoThread
  BY ThreadsAssumption
<1>2. /\ k.stat[k.cur] \in {"RUNNING", "SUSPEND", "CLOSE"} /\ k.cur \notin InTransit
      /\ k.stat[k.cur] # "RUNNING" => k.lock = 0
      /\ k.stat[Idle] \in {"READY", "RUNNING"}
      /\ k.stat[Idle] = "RUNNING" => Idle = k.cur
      /\ Idle \notin InTransit /\ KernelOK(k, InTransit)
  BY <1>1, ThreadsAssumption DEF IInv, CurrentInv, TargetInv
<1>3. k.stat[k.cur] # "RUNNING" => k.group # {}
  <2> SUFFICES ASSUME k.stat[k.cur] # "RUNNING" PROVE k.group # {}
    OBVIOUS
  <2>1. k.stat[Idle] = "READY" /\ Idle \in Threads
    BY <1>2, ThreadsAssumption
  <2> DEFINE p == k.prio[Idle]
             R == {x \in Threads : k.stat[x] = "READY" /\ k.prio[x] = p /\ x \notin InTransit}
  <2>2. p \in Prio
    BY <2>1 DEF IInv, TypeOK, KernelState
  <2>3. Holds(k.ready[p], R) /\ Idle \in R
    BY <1>2, <2>1, <2>2 DEF KernelOK, LinksOK
  <2> HIDE DEF R
  <2>4. k.ready[p] # << >>
    BY <2>3, HoldsFacts
  <2> QED
    BY <1>2, <2>2, <2>4 DEF KernelOK, GroupOK
<1> QED
  BY <1>2, <1>3, ScheduleOK

\* The control invariants after rt_schedule, which leaves tgt alone.
LEMMA ScheduleKeeps ==
  ASSUME IInv, k.cur \in Threads, k' = Schedule(k), tgt' = tgt,
         isr # <<"drain">>, isr' # <<"drain">>,
         \A x \in Threads : pc'[x] = pc[x] \/ (tgt[x] = NoThread /\ Section(pc'[x]) \in Plain),
         k.stat[k.cur] = "RUNNING" \/ k'.cur # k.cur \/ pc'[k.cur] = pc[k.cur]
  PROVE  /\ KernelOK(k', InTransit') /\ CurrentInv' /\ TargetInv'
         /\ InTransit' = InTransit
         /\ \A x \in Threads : k'.stat[x] = "NONE" <=> k.stat[x] = "NONE"
         /\ \A x \in Threads : k'.stat[x] = "SUSPEND" <=> k.stat[x] = "SUSPEND"
         /\ k'.cur \in Threads
         /\ k'.cur # k.cur => k.stat[k'.cur] = "READY"
<1>1. /\ KernelOK(k', InTransit) /\ Scheduled(k, k') /\ k'.cur \in Threads \ InTransit
      /\ k.stat[k.cur] # "RUNNING" => Switched(k, k')
  BY ScheduleFacts
<1>2. k.cur # NoThread /\ k'.cur # NoThread /\ Idle \in Threads
  BY <1>1, ThreadsAssumption
<1>3. /\ \A x \in Threads : k.stat[x] = "RUNNING" => x = k.cur
      /\ k.stat[k.cur] \in {"RUNNING", "SUSPEND", "CLOSE"} /\ k.cur \notin InTransit
      /\ tgt[k.cur] = k.cur => k.lock = 0
      /\ k.stat[Idle] \in {"READY", "RUNNING"}
  BY <1>2 DEF IInv, CurrentInv
<1>4. CASE k'.cur = k.cur
  <2>1. k'.stat = k.stat /\ k'.lock = k.lock /\ k.stat[k.cur] = "RUNNING"
    BY <1>1, <1>4 DEF Scheduled, Switched
  <2>2. TargetInv' /\ InTransit' = InTransit
    BY <2>1, TargetKeep
  <2>3. CurrentInv'
    BY <1>3, <1>4, <2>1, <2>2, CurrentKeep
  <2> QED
    BY <1>1, <1>4, <2>1, <2>2, <2>3
<1>5. CASE k'.cur # k.cur
  <2>1. /\ k.lock = 0 /\ k'.lock = 0 /\ k.stat[k'.cur] = "READY"
        /\ \A x \in Threads : k'.stat[x] = IF x = k'.cur THEN "RUNNING"
                                           ELSE IF x = k.cur /\ k.stat[x] = "RUNNING" THEN "READY"
                                           ELSE k.stat[x]
    BY <1>1, <1>5 DEF Scheduled, Switched
  <2>2. \A x \in Threads : k'.stat[x] = k.stat[x] \/ (/\ k'.stat[x] \in {"READY", "RUNNING"}
                                                       /\ k.stat[x] \in {"READY", "RUNNING"}
                                                       /\ x \notin InTransit)
    BY <1>1, <1>3, <2>1
  <2>3. \A x \in Threads :
          tgt[x] \in Threads => \/ k'.stat[tgt[x]] = k.stat[tgt[x]]
                                \/ tgt[x] = x /\ k'.stat[x] \in {"READY", "RUNNING"}
    <3> SUFFICES ASSUME NEW x \in Threads, tgt[x] \in Threads
                 PROVE  \/ k'.stat[tgt[x]] = k.stat[tgt[x]]
                        \/ tgt[x] = x /\ k'.stat[x] \in {"READY", "RUNNING"}
      OBVIOUS
    <3>1. CASE tgt[x] \in InTransit
      BY <2>2, <3>1
    <3>2. CASE tgt[x] = x
      BY <2>2, <3>2
    <3>3. CASE k.stat[tgt[x]] = "CLOSE"
      BY <2>2, <3>3
    <3> QED
      BY <3>1, <3>2, <3>3, Targets
  <2>4. TargetInv' /\ InTransit' = InTransit
    BY <2>2, <2>3, TargetKeep
  <2>5. CurrentInv'
    <3>1. \A x \in Threads : k'.stat[x] = "RUNNING" => x = k'.cur
      BY <1>3, <2>1
    <3>2. k'.stat[k'.cur] = "RUNNING" /\ k'.stat[Idle] \in {"READY", "RUNNING"}
      BY <1>1, <1>2, <1>3, <2>1
    <3> QED
      BY <1>1, <1>2, <2>1, <2>4, <3>1, <3>2 DEF CurrentInv
  <2> QED
    BY <1>1, <2>1, <2>2, <2>4, <2>5
<1> QED
  BY <1>4, <1>5

\* rt_schedule called by a thread.
LEMMA DoScheduleStep ==
  ASSUME IInv, NEW t \in Threads, DoSchedule(t)
  PROVE  IInv'
<1>1. /\ t = k.cur /\ ~ cpu.flag /\ isr = << >> /\ cpu.exec = t
      /\ Section(pc[t]) = "sched" /\ pc[t] \in PcShapes
  BY Worker DEF DoSchedule
<1>2. /\ k' = Schedule(k) /\ tgt' = tgt /\ isr' = << >> /\ rem' = rem /\ tm' = tm /\ err' = err
      /\ lag' \in BOOLEAN /\ pc' = [pc EXCEPT ![t] = Tail(pc[t])]
      /\ cpu' = IF k'.cur = k.cur THEN cpu ELSE ContextSwitch(cpu, k.cur, k'.cur)
  BY <1>1 DEF DoSchedule, Done
<1>3. Tail(pc[t]) \in {<< >>, <<"ret">>, <<"slept">>}
  BY <1>1, ShapeFacts
<1>4. Shapes' /\ pc'[t] = Tail(pc[t]) /\ \A x \in Threads \ {t} : pc'[x] = pc[x]
  BY <1>2, <1>3, ShapesCall DEF PcShapes, IsrShapes
<1>5. Section(pc'[t]) \in Plain
  BY <1>3, <1>4, SectionFacts DEF Plain
<1>6. tgt[t] = NoThread
  <2>1. tgt[t] \notin Threads /\ tgt[t] \notin Waits
    BY <1>1, IsrDistinct DEF IInv, TargetInv, TargetKind, PcAt
  <2>2. tgt[t] \in ThreadOrNull \cup Waits
    BY DEF IInv, TypeOK
  <2> QED
    BY <2>1, <2>2 DEF ThreadOrNull
<1>7. k.stat[k.cur] = "RUNNING" \/ k'.cur # k.cur
  BY <1>1, <1>2, ScheduleFacts DEF Switched
<1>8. /\ KernelOK(k', InTransit') /\ CurrentInv' /\ TargetInv' /\ InTransit' = InTransit
      /\ \A x \in Threads : k'.stat[x] = "NONE" <=> k.stat[x] = "NONE"
      /\ \A x \in Threads : k'.stat[x] = "SUSPEND" <=> k.stat[x] = "SUSPEND"
      /\ k'.cur \in Threads
      /\ k'.cur # k.cur => k.stat[k'.cur] = "READY"
  BY <1>1, <1>2, <1>4, <1>5, <1>6, <1>7, ScheduleKeeps, IsrDistinct
<1>9. TimerInv' /\ tm' \in TimerState
  BY <1>2, <1>8, TimersNow, TimerKeep
<1>10. SliceInv' /\ rem' \in [Threads -> Nat]
  BY <1>2, <1>8, SliceKeep
<1>11. CpuInv' /\ cpu' \in CpuState
  <2>1. CASE k'.cur = k.cur
    BY <1>1, <1>2, <1>8, <2>1, CpuKeep
  <2>2. CASE k'.cur # k.cur
    <3>1. CpuInv /\ cpu \in CpuState
      BY DEF IInv, TypeOK
    <3>2. cpu.saved[k'.cur] = k'.cur /\ k'.stat[k'.cur] # "NONE"
      BY <1>8, <2>2, <3>1 DEF CpuInv
    <3> DEFINE stored == [cpu.saved EXCEPT ![k.cur] = cpu.exec]
    <3>3. cpu' = [cpu EXCEPT !.saved = stored, !.exec = k'.cur]
      BY <1>2, <2>2, <3>2 DEF ContextSwitch
    <3>4. /\ stored \in [Threads -> ThreadOrNull]
          /\ \A x \in Threads : k.stat[x] # "NONE" => stored[x] = x
      BY <1>1, <3>1 DEF CpuState, CpuInv, ThreadOrNull
    <3> HIDE DEF stored
    <3>5. /\ cpu'.exec = k'.cur /\ cpu'.saved = stored /\ cpu'.flag = cpu.flag
          /\ cpu' \in CpuState
      BY <1>8, <3>1, <3>3, <3>4 DEF CpuState, ThreadOrNull
    <3>6. CpuInv'
      BY <1>1, <1>8, <3>2, <3>4, <3>5 DEF CpuInv
    <3> QED
      BY <3>5, <3>6
  <2> QED
    BY <2>1, <2>2
<1>12. err' \in [Threads -> Errors] /\ tgt' \in [Threads -> ThreadOrNull \cup Waits]
  BY <1>2 DEF IInv, TypeOK
<1>13. TypeOK'
  BY <1>2, <1>4, <1>8, <1>9, <1>10, <1>11, <1>12, TypeKeep
<1> QED
  BY <1>4, <1>8, <1>9, <1>10, <1>11, <1>13 DEF IInv

\* rt_schedule called by a handler, possibly for the second time.
LEMMA IsrScheduleStep ==
  ASSUME IInv, IsrSchedule
  PROVE  IInv'
<1>1. isr # << >> /\ Head(isr) = "sched" /\ isr \in IsrShapes /\ k.cur \in Threads
  BY HandlerCur DEF IsrSchedule, IsrAt
<1>2. Tail(isr) \in {<<"timers", "leave">>, <<"leave">>} /\ isr # <<"drain">>
  BY <1>1, IsrFacts
<1>3. /\ k' = Schedule(k) /\ tgt' = tgt /\ isr' = Tail(isr) /\ rem' = rem /\ tm' = tm
      /\ err' = err /\ lag' \in BOOLEAN /\ pc' = pc
      /\ cpu' = IF k'.cur = k.cur THEN cpu ELSE ContextSwitchInterrupt(cpu, k.cur, k'.cur)
  BY DEF IsrSchedule
<1>4. isr' # <<"drain">> /\ isr' # << >> /\ isr' \in IsrShapes
  BY <1>2, <1>3, IsrDistinct DEF IsrShapes
<1>5. Shapes'
  BY <1>3, <1>4 DEF IInv, Shapes
<1>6. /\ KernelOK(k', InTransit') /\ CurrentInv' /\ TargetInv' /\ InTransit' = InTransit
      /\ \A x \in Threads : k'.stat[x] = "NONE" <=> k.stat[x] = "NONE"
      /\ \A x \in Threads : k'.stat[x] = "SUSPEND" <=> k.stat[x] = "SUSPEND"
      /\ k'.cur \in Threads
  BY <1>1, <1>2, <1>3, <1>4, ScheduleKeeps
<1>7. TimerInv' /\ tm' \in TimerState
  BY <1>3, <1>6, TimersNow, TimerKeep
<1>8. SliceInv' /\ rem' \in [Threads -> Nat]
  BY <1>3, <1>6, SliceKeep
<1>9. CpuInv' /\ cpu' \in CpuState
  <2>1. CASE k'.cur = k.cur
    BY <1>3, <1>4, <1>6, <2>1, CpuKeep
  <2>2. CASE k'.cur # k.cur
    <3>1. CpuInv /\ cpu \in CpuState
      BY DEF IInv, TypeOK
    <3>2. cpu' = [cpu EXCEPT !.from = IF cpu.flag THEN cpu.from ELSE k.cur, !.to = k'.cur,
                             !.flag = TRUE]
      BY <1>3, <2>2 DEF ContextSwitchInterrupt
    <3>3. cpu.exec \in Threads /\ (IF cpu.flag THEN cpu.from ELSE k.cur) = cpu.exec
      BY <1>1, <3>1 DEF CpuInv
    <3>4. /\ cpu'.exec = cpu.exec /\ cpu'.saved = cpu.saved /\ cpu'.flag = TRUE
          /\ cpu'.from = cpu.exec /\ cpu'.to = k'.cur
          /\ cpu' \in CpuState
      BY <1>6, <3>1, <3>2, <3>3 DEF CpuState, ThreadOrNull
    <3>5. CpuInv'
      BY <1>4, <1>6, <3>1, <3>3, <3>4 DEF CpuInv
    <3> QED
      BY <3>4, <3>5
  <2> QED
    BY <2>1, <2>2
<1>10. err' \in [Threads -> Errors] /\ tgt' \in [Threads -> ThreadOrNull \cup Waits]
  BY <1>3 DEF IInv, TypeOK
<1>11. TypeOK'
  BY <1>3, <1>5, <1>6, <1>7, <1>8, <1>9, <1>10, TypeKeep
<1> QED
  BY <1>5, <1>6, <1>7, <1>8, <1>9, <1>11 DEF IInv

-----------------------------------------------------------------------------
(* Calls on another thread *)

\* An unlinked thread was INIT, READY or SUSPEND, and works on nothing itself.
LEMMA TransitStat ==
  ASSUME IInv, NEW u \in InTransit
  PROVE  u \in Threads /\ k.stat[u] \in {"INIT", "READY", "SUSPEND"} /\ tgt[u] = NoThread
<1>1. PICK x \in Threads \ {Idle, u} : tgt[x] = u
  BY DEF InTransit
<1>2. u \in Threads
  BY DEF InTransit
<1>3. TargetKind(x) /\ TargetStat(x) /\ tgt[u] = NoThread
  BY <1>2 DEF IInv, TargetInv
<1> QED
  BY <1>1, <1>2, <1>3 DEF TargetKind, TargetStat, PcAt

\* The running thread t begins a call that unlinks u.
LEMMA BeginStep ==
  ASSUME IInv, NEW t \in Threads \ {Idle}, isr = << >>, cpu.exec = t, pc[t] = << >>,
         NEW u \in Threads \ {t, Idle}, Undisturbed(u), k.stat[u] # "NONE",
         tgt' = [tgt EXCEPT ![t] = u], isr' = << >>,
         NEW s \in PcShapes, pc' = [pc EXCEPT ![t] = s],
         \/ Section(s) = "insert" /\ k'.stat[u] = "SUSPEND"
         \/ Section(s) = "close" /\ k'.stat[u] \in {"INIT", "READY", "SUSPEND"},
         \A x \in Threads \ {u} : k'.stat[x] = k.stat[x],
         KernelOK(k', InTransit \cup {u}), k'.cur = k.cur, k'.lock = k.lock,
         NEW S, TimersOK(tm', S), S \subseteq ToSet(tm.list) \ {u},
         cpu' = cpu, rem' = rem, err' = err, lag' = lag
  PROVE  IInv'
<1>1. /\ t = k.cur /\ k.stat[t] = "RUNNING" /\ t \notin InTransit
      /\ tgt[t] = NoThread /\ ~ cpu.flag
  BY Caller
<1>2. /\ NoThread \notin Threads /\ NoThread \notin Waits /\ Idle \in Threads
      /\ \A x \in Threads : x \notin Waits
  BY ThreadsAssumption, TargetAssumption DEF ThreadOrNull
<1>3. u \notin InTransit /\ tgt[u] = NoThread /\ \A x \in Threads : tgt[x] # u
  BY FreeThread DEF Undisturbed
<1>4. tgt \in [Threads -> ThreadOrNull \cup Waits]
  BY DEF IInv, TypeOK
<1>5. InTransit' = InTransit \cup {u}
  BY <1>1, <1>2, <1>4, TransitAdd
<1>6. Shapes' /\ pc'[t] = s /\ \A x \in Threads \ {t} : pc'[x] = pc[x]
  <2>1. isr' \in IsrShapes
    BY DEF IsrShapes
  <2>2. pc \in [Threads -> PcShapes]
    BY DEF IInv, Shapes
  <2>3. pc' \in [Threads -> PcShapes] /\ pc'[t] = s /\ \A x \in Threads \ {t} : pc'[x] = pc[x]
    BY <2>2
  <2> QED
    BY <2>1, <2>3 DEF Shapes
<1>7. tgt'[t] = u /\ \A x \in Threads \ {t} : tgt'[x] = tgt[x]
  BY <1>4
<1>8. isr # <<"drain">> /\ isr' # <<"drain">>
  BY IsrDistinct
<1>9. TargetInv'
  <2>1. ASSUME NEW x \in Threads PROVE TargetKind(x)' /\ TargetStat(x)'
    <3>1. CASE x = t
      <4>1. Section(pc'[t]) \in {"insert", "close"}
        BY <1>6
      <4>2. TargetKind(t)'
        BY <1>2, <1>7, <1>8, <4>1 DEF TargetKind, PcAt
      <4>3. TargetStat(t)'
        BY <1>6, <1>7, <4>1 DEF TargetStat, PcAt
      <4> QED
        BY <3>1, <4>2, <4>3
    <3>2. CASE x # t
      <4>1. TargetKind(x) /\ TargetStat(x)
        BY DEF IInv, TargetInv
      <4> QED
        BY <1>3, <1>6, <1>7, <1>8, <3>2, <4>1, TargetFrame
    <3> QED
      BY <3>1, <3>2
  <2>2. TargetInv
    BY DEF IInv
  <2>3. \A x \in Threads :
           k'.stat[x] \in {"NONE", "INIT", "CLOSE"} \/ x \in InTransit' => tgt'[x] = NoThread
    <3> SUFFICES ASSUME NEW x \in Threads,
                        k'.stat[x] \in {"NONE", "INIT", "CLOSE"} \/ x \in InTransit'
                 PROVE  tgt'[x] = NoThread
      OBVIOUS
    <3>1. x # t
      BY <1>1, <1>5
    <3>2. x = u \/ k.stat[x] \in {"NONE", "INIT", "CLOSE"} \/ x \in InTransit
      BY <1>5
    <3> QED
      BY <1>3, <1>7, <2>2, <3>1, <3>2 DEF TargetInv
  <2>4. \A x, y \in Threads : tgt'[x] = tgt'[y] /\ tgt'[x] \in Threads => x = y
    <3>1. \A x, y \in Threads : tgt[x] = tgt[y] /\ tgt[x] \in Threads => x = y
      BY <2>2 DEF TargetInv
    <3> QED
      BY <1>3, <1>7, <3>1
  <2>5. Idle \notin InTransit'
    BY <1>5, <2>2 DEF TargetInv
  <2> QED
    BY <2>1, <2>3, <2>4, <2>5 DEF TargetInv
<1>10. CurrentInv'
  <2>1. t # NoThread
    BY <1>2
  <2>2. k.stat[Idle] \in {"READY", "RUNNING"} /\ \A x \in Threads : k.stat[x] = "RUNNING" => x = t
    BY <1>1, <2>1 DEF IInv, CurrentInv
  <2>3. k'.stat[Idle] \in {"READY", "RUNNING"} /\ \A x \in Threads : k'.stat[x] = "RUNNING" => x = t
    BY <1>2, <2>2
  <2> QED
    BY <1>1, <1>5, <1>7, <2>3, CurrentKeep
<1>11. TimerInv' /\ tm' \in TimerState
  <2>1. \A x \in S : k'.stat[x] = "SUSPEND" /\ x \notin InTransit'
    BY <1>5, TimersNow
  <2> QED
    BY <2>1, TimerKeep
<1>12. \A x \in Threads : k'.stat[x] = "NONE" <=> k.stat[x] = "NONE"
  OBVIOUS
<1>13. CpuInv' /\ cpu' \in CpuState
  BY <1>1, <1>12, CpuKeep
<1>14. SliceInv' /\ rem' \in [Threads -> Nat]
  BY <1>12, SliceKeep
<1>15. /\ err' \in [Threads -> Errors] /\ lag' \in BOOLEAN
       /\ tgt' \in [Threads -> ThreadOrNull \cup Waits]
  BY <1>4 DEF IInv, TypeOK, ThreadOrNull
<1>16. TypeOK'
  BY <1>6, <1>11, <1>13, <1>14, <1>15, TypeKeep
<1> QED
  BY <1>5, <1>6, <1>9, <1>10, <1>11, <1>13, <1>14, <1>16 DEF IInv

\* While the scheduler runs idle is READY or RUNNING.
LEMMA IdleStat ==
  ASSUME IInv, k.cur # NoThread
  PROVE  k.stat[Idle] \in {"READY", "RUNNING"}
  BY DEF IInv, CurrentInv

\* rt_thread_startup, up to the gap in rt_thread_resume.
LEMMA StartupStep ==
  ASSUME IInv, NEW t \in Threads \ {Idle}, NEW u \in Threads, Startup(t, u)
  PROVE  IInv'
<1>1. /\ isr = << >> /\ cpu.exec = t /\ pc[t] = << >> /\ Undisturbed(u) /\ k.stat[u] = "INIT"
      /\ tgt' = [tgt EXCEPT ![t] = u] /\ isr' = << >> /\ cpu' = cpu /\ rem' = rem /\ err' = err
      /\ lag' = lag /\ pc' = [pc EXCEPT ![t] = <<"insert", "sched">>] /\ tm' = TimerStop(tm, u)
  BY DEF Startup, Calls, Call
<1>2. t = k.cur /\ k.stat[t] = "RUNNING"
  BY <1>1, Caller
<1>3. u \in Threads \ {t, Idle}
  BY <1>1, <1>2, IdleStat, ThreadsAssumption
<1>4. u \notin InTransit
  BY <1>1, FreeThread DEF Undisturbed
<1>5. KernelOK(k', InTransit \cup {u}) /\ StatSet(k, k', u, "SUSPEND")
  BY <1>1, <1>4, StartupOK DEF Startup, IInv
<1>6. /\ k'.stat[u] = "SUSPEND" /\ \A x \in Threads \ {u} : k'.stat[x] = k.stat[x]
      /\ k'.cur = k.cur /\ k'.lock = k.lock
  BY <1>5 DEF StatSet, IInv, TypeOK, KernelState
<1>7. TimersOK(tm', ToSet(tm.list) \ {u})
  BY <1>1, TimersNow, TimerStopOK
<1>8. Section(<<"insert", "sched">>) = "insert" /\ <<"insert", "sched">> \in PcShapes
  BY SectionFacts DEF PcShapes
<1> QED
  BY <1>1, <1>3, <1>5, <1>6, <1>7, <1>8, BeginStep

\* rt_thread_resume called by a thread, up to the gap.
LEMMA ResumeThreadStep ==
  ASSUME IInv, NEW t \in Threads \ {Idle}, NEW u \in Threads, ResumeThread(t, u)
  PROVE  IInv'
<1>1. /\ isr = << >> /\ cpu.exec = t /\ pc[t] = << >> /\ Undisturbed(u) /\ k.stat[u] = "SUSPEND"
      /\ tgt' = [tgt EXCEPT ![t] = u] /\ isr' = << >> /\ cpu' = cpu /\ rem' = rem /\ err' = err
      /\ lag' = lag /\ pc' = [pc EXCEPT ![t] = <<"insert">>] /\ tm' = TimerStop(tm, u)
      /\ k' = ListRemove(k, u)
  BY DEF ResumeThread, Calls, Call
<1>2. t = k.cur /\ k.stat[t] = "RUNNING"
  BY <1>1, Caller
<1>3. u \in Threads \ {t, Idle}
  BY <1>1, <1>2, IdleStat, ThreadsAssumption
<1>4. u \notin InTransit
  BY <1>1, FreeThread DEF Undisturbed
<1>5. KernelOK(k', InTransit \cup {u}) /\ SameThreads(k, k')
  BY <1>1, ListRemoveOK DEF IInv
<1>6. k'.stat = k.stat /\ k'.cur = k.cur /\ k'.lock = k.lock
  BY <1>5 DEF SameThreads
<1>7. TimersOK(tm', ToSet(tm.list) \ {u})
  BY <1>1, TimersNow, TimerStopOK
<1>8. Section(<<"insert">>) = "insert" /\ <<"insert">> \in PcShapes
  BY SectionFacts DEF PcShapes
<1> QED
  BY <1>1, <1>3, <1>5, <1>6, <1>7, <1>8, BeginStep

\* rt_thread_delete, rt_thread_detach, RT_THREAD_CTRL_CLOSE on another thread.
LEMMA BeginCloseStep ==
  ASSUME IInv, NEW t \in Threads \ {Idle}, NEW u \in Threads \ {t},
         isr = << >>, cpu.exec = t, pc[t] = << >>, Undisturbed(u), ~ TimerOn(tm, u),
         NEW s \in PcShapes, Section(s) = "close", BeginClose(t, u, s)
  PROVE  IInv'
<1>1. /\ tgt' = [tgt EXCEPT ![t] = u] /\ isr' = << >> /\ cpu' = cpu /\ rem' = rem /\ err' = err
      /\ lag' = lag /\ pc' = [pc EXCEPT ![t] = s] /\ tm' = tm
      /\ k' = (IF k.stat[u] = "INIT" THEN k ELSE RemoveThread(k, u))
      /\ k.stat[u] \notin {"NONE", "CLOSE"} /\ u # Idle
  BY DEF BeginClose, Call
<1>2. t = k.cur /\ k.stat[t] = "RUNNING"
  BY Caller
<1>3. k.stat[u] \in {"INIT", "READY", "SUSPEND"}
  <2>1. k.stat[u] \in Stats
    BY DEF IInv, TypeOK, KernelState
  <2>2. k.stat[u] # "RUNNING"
    BY <1>2 DEF IInv, CurrentInv
  <2> QED
    BY <1>1, <2>1, <2>2 DEF Stats
<1>4. u \notin InTransit /\ KernelOK(k, InTransit)
  BY FreeThread DEF Undisturbed, IInv
<1>5. KernelOK(k', InTransit \cup {u}) /\ SameThreads(k, k')
  <2>1. CASE k.stat[u] = "INIT"
    BY <1>1, <1>4, <2>1, UnlinkedOK DEF SameThreads
  <2>2. CASE k.stat[u] # "INIT"
    BY <1>1, <1>3, <1>4, <2>2, RemoveThreadOK
  <2> QED
    BY <2>1, <2>2
<1>6. k'.stat = k.stat /\ k'.cur = k.cur /\ k'.lock = k.lock
  BY <1>5 DEF SameThreads
<1>7. TimersOK(tm', ToSet(tm.list)) /\ ToSet(tm.list) \subseteq ToSet(tm.list) \ {u}
  BY <1>1, TimersNow DEF TimerOn
<1> QED
  BY <1>1, <1>3, <1>5, <1>6, <1>7, BeginStep

\* rt_thread_delete and rt_thread_detach, up to the gap.
LEMMA DeleteStep ==
  ASSUME IInv, NEW t \in Threads \ {Idle}, NEW u \in Threads, Delete(t, u)
  PROVE  IInv'
<1>1. /\ u \in Threads \ {t} /\ isr = << >> /\ cpu.exec = t /\ pc[t] = << >> /\ Undisturbed(u)
      /\ ~ TimerOn(tm, u) /\ BeginClose(t, u, <<"close">>)
  BY DEF Delete, Calls
<1>2. <<"close">> \in PcShapes /\ Section(<<"close">>) = "close"
  BY SectionFacts DEF PcShapes
<1> QED
  BY <1>1, <1>2, BeginCloseStep

\* RT_THREAD_CTRL_CLOSE, up to the gap, on another thread or on the caller.
LEMMA ControlCloseStep ==
  ASSUME IInv, NEW t \in Threads \ {Idle}, NEW u \in Threads, ControlClose(t, u)
  PROVE  IInv'
<1>1. /\ isr = << >> /\ cpu.exec = t /\ pc[t] = << >> /\ Undisturbed(u)
      /\ ~ TimerOn(tm, u) /\ BeginClose(t, u, <<"close", "sched">>) /\ k.lock = 0
  BY DEF ControlClose, Calls, MayBlock
<1>2. <<"close", "sched">> \in PcShapes /\ Section(<<"close", "sched">>) = "close"
  BY SectionFacts DEF PcShapes
<1>3. CASE u # t
  BY <1>1, <1>2, <1>3, BeginCloseStep
<1>4. CASE u = t
  <2>1. /\ t = k.cur /\ k.stat[t] = "RUNNING" /\ t \notin InTransit
        /\ tgt[t] = NoThread /\ ~ cpu.flag
    BY <1>1, Caller
  <2>2. /\ tgt' = [tgt EXCEPT ![t] = t] /\ isr' = << >> /\ cpu' = cpu /\ rem' = rem
        /\ err' = err /\ lag' = lag /\ pc' = [pc EXCEPT ![t] = <<"close", "sched">>] /\ tm' = tm
        /\ k' = RemoveThread(k, t)
    BY <1>1, <1>4, <2>1 DEF BeginClose, Call
  <2>3. KernelOK(k', InTransit) /\ SameThreads(k, k')
    <3>1. KernelOK(k', InTransit \cup {t}) /\ SameThreads(k, k')
      BY <2>1, <2>2, RemoveThreadOK DEF IInv
    <3>2. k'.stat[t] = "RUNNING"
      BY <2>1, <3>1 DEF SameThreads
    <3>3. KernelOK(k', InTransit \ {t})
      BY <3>1, <3>2, ReleaseOK
    <3>4. InTransit \ {t} = InTransit
      BY <2>1
    <3> QED
      BY <3>1, <3>3, <3>4
  <2>4. k'.stat = k.stat /\ k'.cur = k.cur /\ k'.lock = k.lock
    BY <2>3 DEF SameThreads
  <2>5. /\ NoThread \notin Threads /\ NoThread \notin Waits /\ Idle \in Threads
        /\ \A x \in Threads : x \notin Waits
    BY ThreadsAssumption, TargetAssumption DEF ThreadOrNull
  <2>6. tgt \in [Threads -> ThreadOrNull \cup Waits] /\ TargetInv
    BY DEF IInv, TypeOK
  <2>7. InTransit' = InTransit
    BY <2>1, <2>2, <2>5, <2>6, TransitSame
  <2>8. Shapes' /\ pc'[t] = <<"close", "sched">> /\ \A x \in Threads \ {t} : pc'[x] = pc[x]
    <3>1. isr' \in IsrShapes
      BY <2>2 DEF IsrShapes
    <3> QED
      BY <1>2, <2>2, <3>1, ShapesCall
  <2>9. tgt'[t] = t /\ \A x \in Threads \ {t} : tgt'[x] = tgt[x]
    BY <2>2, <2>6
  <2>10. isr # <<"drain">> /\ isr' # <<"drain">>
    BY <1>1, <2>2, IsrDistinct
  <2>11. TargetInv'
    <3>1. ASSUME NEW x \in Threads PROVE TargetKind(x)' /\ TargetStat(x)'
      <4>1. CASE x = t
        <5>1. Section(pc'[t]) = "close"
          BY <1>2, <2>8
        <5>2. TargetKind(t)'
          BY <2>5, <2>9, <2>10, <5>1 DEF TargetKind, PcAt
        <5>3. TargetStat(t)'
          BY <2>1, <2>4, <2>8, <2>9, <5>1 DEF TargetStat, PcAt
        <5> QED
          BY <4>1, <5>2, <5>3
      <4>2. CASE x # t
        <5>1. TargetKind(x) /\ TargetStat(x)
          BY <2>6 DEF TargetInv
        <5> QED
          BY <2>4, <2>8, <2>9, <2>10, <4>2, <5>1, TargetFrame
      <4> QED
        BY <4>1, <4>2
    <3>2. \A x \in Threads :
             k'.stat[x] \in {"NONE", "INIT", "CLOSE"} \/ x \in InTransit' => tgt'[x] = NoThread
      BY <2>1, <2>4, <2>6, <2>7, <2>9 DEF TargetInv
    <3>3. \A x \in Threads : tgt[x] # t
      BY <1>1, <1>4, FreeThread DEF Undisturbed
    <3>4. \A x, y \in Threads : tgt'[x] = tgt'[y] /\ tgt'[x] \in Threads => x = y
      <4>1. \A x, y \in Threads : tgt[x] = tgt[y] /\ tgt[x] \in Threads => x = y
        BY <2>6 DEF TargetInv
      <4> QED
        BY <2>9, <3>3, <4>1
    <3>5. Idle \notin InTransit'
      BY <2>6, <2>7 DEF TargetInv
    <3> QED
      BY <3>1, <3>2, <3>4, <3>5 DEF TargetInv
  <2>12. CurrentInv'
    <3>1. t # NoThread
      BY <2>5
    <3>2. k.stat[Idle] \in {"READY", "RUNNING"} /\ \A x \in Threads : k.stat[x] = "RUNNING" => x = t
      BY <2>1, <3>1 DEF IInv, CurrentInv
    <3> QED
      BY <1>1, <2>1, <2>4, <2>7, <3>2, CurrentKeep
  <2>13. TimerInv' /\ tm' \in TimerState
    BY <2>2, <2>4, <2>7, TimersNow, TimerKeep
  <2>14. CpuInv' /\ cpu' \in CpuState
    BY <2>1, <2>2, <2>4, CpuKeep
  <2>15. SliceInv' /\ rem' \in [Threads -> Nat]
    BY <2>2, <2>4, SliceKeep
  <2>16. /\ err' \in [Threads -> Errors] /\ lag' \in BOOLEAN
         /\ tgt' \in [Threads -> ThreadOrNull \cup Waits]
    BY <2>2, <2>6 DEF IInv, TypeOK, ThreadOrNull
  <2>17. TypeOK'
    BY <2>3, <2>8, <2>13, <2>14, <2>15, <2>16, TypeKeep
  <2> QED
    BY <2>3, <2>7, <2>8, <2>11, <2>12, <2>13, <2>14, <2>15, <2>17 DEF IInv
<1> QED
  BY <1>3, <1>4

\* The running thread t finishes its work on u.
LEMMA FinishStep ==
  ASSUME IInv, NEW t \in Threads \ {Idle}, isr = << >>, ~ cpu.flag, t = k.cur,
         k.stat[t] = "RUNNING",
         NEW u \in Threads \ {t}, tgt[t] = u, tgt' = [tgt EXCEPT ![t] = NoThread], isr' = << >>,
         NEW s \in PcShapes, pc' = [pc EXCEPT ![t] = s], Section(s) \in Plain,
         k'.stat[u] \in {"READY", "CLOSE"}, \A x \in Threads \ {u} : k'.stat[x] = k.stat[x],
         KernelOK(k', InTransit \ {u}), k'.cur = k.cur, k'.lock = k.lock,
         TimersOK(tm', ToSet(tm.list) \ {u}), cpu' = cpu, rem' = rem, err' = err,
         lag' \in BOOLEAN
  PROVE  IInv'
<1>1. tgt \in [Threads -> ThreadOrNull \cup Waits] /\ TargetInv
  BY DEF IInv, TypeOK
<1>2. /\ NoThread \notin Threads /\ NoThread \notin Waits /\ Idle \in Threads
      /\ \A x \in Threads : x \notin Waits
  BY ThreadsAssumption, TargetAssumption DEF ThreadOrNull
<1>3. \A x \in Threads : tgt[x] = u => x = t
  BY <1>1 DEF TargetInv
<1>4. InTransit' = InTransit \ {u} /\ u \in InTransit
  <2>1. InTransit' = InTransit \ {u}
    <3>1. tgt \in [Threads -> ThreadOrNull \cup Waits]
      BY <1>1
    <3>2. \A x \in Threads : tgt'[x] = IF x = t THEN NoThread ELSE tgt[x]
      BY <3>1
    <3>3. \A x \in Threads : x \in InTransit' => x \in InTransit /\ x # u
      BY <1>2, <1>3, <3>2 DEF InTransit
    <3>4. \A x \in Threads : x \in InTransit /\ x # u => x \in InTransit'
      BY <1>2, <3>2 DEF InTransit
    <3>5. InTransit \subseteq Threads /\ InTransit' \subseteq Threads
      BY DEF InTransit
    <3> QED
      BY <3>3, <3>4, <3>5, Zenon
  <2>2. u \in InTransit
    BY DEF InTransit
  <2> QED
    BY <2>1, <2>2
<1>5. k.stat[u] \in {"INIT", "READY", "SUSPEND"} /\ tgt[u] = NoThread /\ u # Idle
  BY <1>1, <1>4, TransitStat DEF TargetInv
<1>6. Shapes' /\ pc'[t] = s /\ \A x \in Threads \ {t} : pc'[x] = pc[x]
  <2>1. isr' \in IsrShapes
    BY DEF IsrShapes
  <2>2. pc \in [Threads -> PcShapes]
    BY DEF IInv, Shapes
  <2>3. pc' \in [Threads -> PcShapes] /\ pc'[t] = s /\ \A x \in Threads \ {t} : pc'[x] = pc[x]
    BY <2>2
  <2> QED
    BY <2>1, <2>3 DEF Shapes
<1>7. tgt'[t] = NoThread /\ \A x \in Threads \ {t} : tgt'[x] = tgt[x]
  BY <1>1
<1>8. isr # <<"drain">> /\ isr' # <<"drain">>
  BY IsrDistinct
<1>9. TargetInv'
  <2>1. ASSUME NEW x \in Threads PROVE TargetKind(x)' /\ TargetStat(x)'
    <3>1. CASE x = t
      BY <1>6, <1>7, <1>8, <3>1, TargetPlain
    <3>2. CASE x # t
      <4>1. TargetKind(x) /\ TargetStat(x)
        BY <1>1 DEF TargetInv
      <4> QED
        BY <1>3, <1>6, <1>7, <1>8, <3>2, <4>1, TargetFrame
    <3> QED
      BY <3>1, <3>2
  <2>2. \A x \in Threads :
           k'.stat[x] \in {"NONE", "INIT", "CLOSE"} \/ x \in InTransit' => tgt'[x] = NoThread
    <3> SUFFICES ASSUME NEW x \in Threads,
                        k'.stat[x] \in {"NONE", "INIT", "CLOSE"} \/ x \in InTransit'
                 PROVE  tgt'[x] = NoThread
      OBVIOUS
    <3>1. x = u \/ k.stat[x] \in {"NONE", "INIT", "CLOSE"} \/ x \in InTransit
      BY <1>4
    <3>2. tgt[x] = NoThread
      BY <1>1, <1>5, <3>1 DEF TargetInv
    <3> QED
      BY <1>7, <3>2
  <2>3. \A x, y \in Threads : tgt'[x] = tgt'[y] /\ tgt'[x] \in Threads => x = y
    <3>1. \A x, y \in Threads : tgt[x] = tgt[y] /\ tgt[x] \in Threads => x = y
      BY <1>1 DEF TargetInv
    <3> QED
      BY <1>2, <1>7, <3>1
  <2>4. Idle \notin InTransit'
    BY <1>1, <1>4 DEF TargetInv
  <2> QED
    BY <2>1, <2>2, <2>3, <2>4 DEF TargetInv
<1>10. CurrentInv'
  <2>1. t # NoThread /\ t \notin InTransit
    BY <1>2 DEF IInv, CurrentInv
  <2>2. k.stat[Idle] \in {"READY", "RUNNING"} /\ \A x \in Threads : k.stat[x] = "RUNNING" => x = t
    BY <2>1 DEF IInv, CurrentInv
  <2>3. k'.stat[Idle] \in {"READY", "RUNNING"} /\ \A x \in Threads : k'.stat[x] = "RUNNING" => x = t
    BY <1>2, <1>5, <2>2
  <2> QED
    BY <1>2, <1>4, <1>7, <2>1, <2>3, CurrentKeep
<1>11. TimerInv' /\ tm' \in TimerState
  <2>1. \A x \in ToSet(tm.list) \ {u} : k'.stat[x] = "SUSPEND" /\ x \notin InTransit'
    BY <1>4, TimersNow
  <2> QED
    BY <2>1, TimerKeep
<1>12. \A x \in Threads : k'.stat[x] = "NONE" <=> k.stat[x] = "NONE"
  BY <1>5
<1>13. CpuInv' /\ cpu' \in CpuState
  BY <1>12, CpuKeep
<1>14. SliceInv' /\ rem' \in [Threads -> Nat]
  BY <1>12, SliceKeep
<1>15. err' \in [Threads -> Errors] /\ tgt' \in [Threads -> ThreadOrNull \cup Waits]
  BY <1>1 DEF IInv, TypeOK, ThreadOrNull
<1>16. TypeOK'
  BY <1>6, <1>11, <1>13, <1>14, <1>15, TypeKeep
<1> QED
  BY <1>4, <1>6, <1>9, <1>10, <1>11, <1>13, <1>14, <1>16 DEF IInv

\* A section of a call that is not on the way to rt_schedule runs RUNNING.
LEMMA WorkerRuns ==
  ASSUME IInv, NEW t \in Threads, NEW l \in {"insert", "close", "check", "drain", "free"}, At(t, l)
  PROVE  k.stat[t] = "RUNNING"
<1>1. t = k.cur /\ Section(pc[t]) = l
  BY Worker
<1>2. t # NoThread
  BY ThreadsAssumption
<1> QED
  BY <1>1, <1>2 DEF IInv, CurrentInv, PcAt

\* rt_thread_resume, after the gap: rt_schedule_insert_thread.
LEMMA DoInsertStep ==
  ASSUME IInv, NEW t \in Threads, DoInsert(t)
  PROVE  IInv'
<1>1. /\ t = k.cur /\ ~ cpu.flag /\ isr = << >>
      /\ Section(pc[t]) = "insert" /\ pc[t] \in PcShapes
  BY Worker DEF DoInsert
<1>2. k.stat[t] = "RUNNING"
  BY WorkerRuns DEF DoInsert
<1> DEFINE u == tgt[t]
<1>3. u \in Threads \ {t} /\ t # Idle /\ k.stat[u] = "SUSPEND"
  BY <1>1 DEF IInv, TargetInv, TargetKind, TargetStat, PcAt
<1>4. /\ k' = InsertThread(k, u) /\ tgt' = [tgt EXCEPT ![t] = NoThread] /\ isr' = << >>
      /\ pc' = [pc EXCEPT ![t] = Tail(pc[t])] /\ tm' = tm /\ cpu' = cpu /\ rem' = rem
      /\ err' = err /\ lag' = TRUE
  BY <1>1 DEF DoInsert, Done
<1>5. u \in InTransit /\ KernelOK(k, InTransit) /\ k \in KernelState
  BY <1>3 DEF InTransit, IInv, TypeOK
<1>6. u \in Threads
  BY <1>3
<1>7. KernelOK(k, InTransit \cup {u}) /\ MaskOK(k, u)
  <2>1. InTransit \cup {u} = InTransit
    BY <1>5
  <2> QED
    BY <1>3, <1>5, <2>1 DEF KernelOK, LinksOK
<1> HIDE DEF u
<1>8. /\ KernelOK(k', InTransit \ {u})
      /\ Restat(k, k', u, IF u = k.cur THEN "RUNNING" ELSE "READY")
  BY <1>4, <1>6, <1>7, InsertThreadOK
<1>9. /\ k'.stat[u] = "READY" /\ \A x \in Threads \ {u} : k'.stat[x] = k.stat[x]
      /\ k'.cur = k.cur /\ k'.lock = k.lock
  BY <1>1, <1>3, <1>5, <1>8 DEF Restat, KernelState
<1>10. Tail(pc[t]) \in {<< >>, <<"sched">>}
  BY <1>1, ShapeFacts
<1>11. Tail(pc[t]) \in PcShapes /\ Section(Tail(pc[t])) \in Plain
  BY <1>10, SectionFacts DEF PcShapes, Plain
<1>12. TimersOK(tm', ToSet(tm.list) \ {u})
  <2>1. u \notin ToSet(tm.list)
    BY <1>5, TimersNow
  <2>2. ToSet(tm.list) \ {u} = ToSet(tm.list)
    BY <2>1
  <2> QED
    BY <1>4, <2>2, TimersNow
<1>13. tgt[t] = u
  BY DEF u
<1> QED
  BY <1>1, <1>2, <1>3, <1>4, <1>8, <1>9, <1>11, <1>12, <1>13, FinishStep

\* rt_thread_delete, after the gap: RT_THREAD_CLOSE and the defunct list.
LEMMA DoCloseStep ==
  ASSUME IInv, NEW t \in Threads, DoClose(t)
  PROVE  IInv'
<1>1. /\ t = k.cur /\ ~ cpu.flag /\ isr = << >> /\ t \notin InTransit
      /\ Section(pc[t]) = "close" /\ pc[t] \in PcShapes
  BY Worker DEF DoClose
<1>2. k.stat[t] = "RUNNING"
  BY WorkerRuns DEF DoClose
<1>0. /\ tgt[t] \in Threads /\ t # Idle
      /\ tgt[t] = t => pc[t] = <<"close", "sched">>
  BY <1>1 DEF IInv, TargetInv, TargetKind, TargetStat, PcAt
<1>12. PICK u \in Threads : tgt[t] = u
  BY <1>0
<1>3. /\ u \in Threads /\ t # Idle
      /\ u = t => pc[t] = <<"close", "sched">>
  BY <1>0, <1>12
<1>4. /\ k' = Close(k, u) /\ tgt' = [tgt EXCEPT ![t] = NoThread] /\ isr' = << >>
      /\ pc' = [pc EXCEPT ![t] = Tail(pc[t])] /\ tm' = TimerStop(tm, u) /\ cpu' = cpu
      /\ rem' = rem /\ err' = err /\ lag' = lag
  BY <1>1, <1>12 DEF DoClose, Done
<1>5. KernelOK(k, InTransit) /\ k \in KernelState /\ lag \in BOOLEAN
  BY DEF IInv, TypeOK
<1>6. KernelOK(k, InTransit \cup {u})
  <2>1. CASE u = t
    BY <1>2, <1>3, <1>5, <2>1, UnlinkedOK
  <2>2. CASE u # t
    <3>1. InTransit \cup {u} = InTransit
      BY <1>3, <1>12, <2>2 DEF InTransit
    <3> QED
      BY <1>5, <3>1
  <2> QED
    BY <2>1, <2>2
<1>7. /\ KernelOK(k', InTransit \ {u}) /\ k'.stat = [k.stat EXCEPT ![u] = "CLOSE"]
      /\ k'.cur = k.cur /\ k'.lock = k.lock
  <2>1. KernelOK(k', InTransit \ {u}) /\ StatSet(k, k', u, "CLOSE")
    BY <1>4, <1>6, CloseOK
  <2> QED
    BY <2>1 DEF StatSet
<1>8. k'.stat[u] = "CLOSE" /\ \A x \in Threads \ {u} : k'.stat[x] = k.stat[x]
  BY <1>3, <1>5, <1>7 DEF KernelState
<1>9. Tail(pc[t]) \in {<< >>, <<"sched">>}
  BY <1>1, ShapeFacts
<1>10. Tail(pc[t]) \in PcShapes /\ Section(Tail(pc[t])) \in Plain
  BY <1>9, SectionFacts DEF PcShapes, Plain
<1>11. TimersOK(tm', ToSet(tm.list) \ {u})
  BY <1>3, <1>4, TimersNow, TimerStopOK
<1>13. CASE u # t
  BY <1>1, <1>2, <1>3, <1>4, <1>5, <1>7, <1>8, <1>10, <1>11, <1>12, <1>13, FinishStep
<1>14. CASE u = t
  <2>1. Tail(pc[t]) = <<"sched">>
    <3>1. Tail(<<"close", "sched">>) = <<"sched">>
      OBVIOUS
    <3> QED
      BY <1>3, <1>14, <3>1
  <2>2. Shapes' /\ pc'[t] = <<"sched">> /\ \A x \in Threads \ {t} : pc'[x] = pc[x]
    BY <1>4, <2>1, ShapesCall DEF PcShapes, IsrShapes
  <2>3. /\ NoThread \notin Threads /\ NoThread \notin Waits /\ Idle \in Threads
    BY ThreadsAssumption, TargetAssumption DEF ThreadOrNull
  <2>4. tgt \in [Threads -> ThreadOrNull \cup Waits] /\ TargetInv
    BY DEF IInv, TypeOK
  <2>5. InTransit' = InTransit
    BY <1>4, <1>12, <1>14, <2>3, <2>4, TransitSame
  <2>6. InTransit \ {u} = InTransit
    BY <1>1, <1>14
  <2>7. tgt'[t] = NoThread /\ \A x \in Threads \ {t} : tgt'[x] = tgt[x]
    BY <1>4, <2>4
  <2>8. isr # <<"drain">> /\ isr' # <<"drain">>
    BY <1>1, <1>4, IsrDistinct
  <2>9. \A x \in Threads \ {t} : tgt[x] # t
    BY <1>12, <1>14, <2>4 DEF TargetInv
  <2>10. TargetInv'
    <3>1. ASSUME NEW x \in Threads PROVE TargetKind(x)' /\ TargetStat(x)'
      <4>1. CASE x = t
        BY <2>2, <2>7, <2>8, <4>1, TargetPlain, SectionFacts DEF Plain
      <4>2. CASE x # t
        <5>1. TargetKind(x) /\ TargetStat(x)
          BY <2>4 DEF TargetInv
        <5> QED
          BY <1>8, <1>14, <2>2, <2>7, <2>8, <2>9, <4>2, <5>1, TargetFrame
      <4> QED
        BY <4>1, <4>2
    <3>2. \A x \in Threads :
             k'.stat[x] \in {"NONE", "INIT", "CLOSE"} \/ x \in InTransit' => tgt'[x] = NoThread
      BY <1>8, <1>14, <2>4, <2>5, <2>7 DEF TargetInv
    <3>3. \A x, y \in Threads : tgt'[x] = tgt'[y] /\ tgt'[x] \in Threads => x = y
      <4>1. \A x, y \in Threads : tgt[x] = tgt[y] /\ tgt[x] \in Threads => x = y
        BY <2>4 DEF TargetInv
      <4> QED
        BY <2>3, <2>7, <4>1
    <3>4. Idle \notin InTransit'
      BY <2>4, <2>5 DEF TargetInv
    <3> QED
      BY <3>1, <3>2, <3>3, <3>4 DEF TargetInv
  <2>11. CurrentInv'
    <3>1. t # NoThread
      BY <2>3
    <3>2. /\ k.stat[Idle] \in {"READY", "RUNNING"}
          /\ \A x \in Threads : k.stat[x] = "RUNNING" => x = t
          /\ k.lock = 0
      BY <1>1, <1>12, <1>14, <3>1 DEF IInv, CurrentInv
    <3>3. k'.stat[Idle] \in {"READY", "RUNNING"} /\ \A x \in Threads : k'.stat[x] = "RUNNING" => x = t
      BY <1>3, <1>8, <1>14, <2>3, <3>2
    <3>4. Section(pc'[t]) = "sched"
      BY <2>2, SectionFacts
    <3> QED
      BY <1>1, <1>7, <1>8, <1>14, <2>5, <3>2, <3>3, <3>4, CurrentKeep
  <2>12. TimerInv' /\ tm' \in TimerState
    <3>1. \A x \in ToSet(tm.list) \ {u} : k'.stat[x] = "SUSPEND" /\ x \notin InTransit'
      BY <1>8, <2>5, TimersNow
    <3> QED
      BY <1>11, <3>1, TimerKeep
  <2>13. \A x \in Threads : k'.stat[x] = "NONE" <=> k.stat[x] = "NONE"
    BY <1>2, <1>8, <1>14
  <2>14. CpuInv' /\ cpu' \in CpuState
    BY <1>1, <1>4, <1>7, <2>13, CpuKeep
  <2>15. SliceInv' /\ rem' \in [Threads -> Nat]
    BY <1>4, <2>13, SliceKeep
  <2>16. /\ err' \in [Threads -> Errors] /\ lag' \in BOOLEAN
         /\ tgt' \in [Threads -> ThreadOrNull \cup Waits]
    BY <1>4, <2>4 DEF IInv, TypeOK, ThreadOrNull
  <2>17. TypeOK'
    BY <1>7, <2>2, <2>12, <2>14, <2>15, <2>16, TypeKeep
  <2> QED
    BY <1>7, <2>2, <2>5, <2>6, <2>10, <2>11, <2>12, <2>14, <2>15, <2>17 DEF IInv
<1> QED
  BY <1>13, <1>14

-----------------------------------------------------------------------------
(* Tearing down an IPC object *)

\* The running thread t enters, goes round or leaves _ipc_list_resume_all.
LEMMA DrainStep ==
  ASSUME IInv, NEW t \in Threads, t = k.cur, ~ cpu.flag,
         k' = k, tm' = tm, cpu' = cpu, rem' = rem, err' = err, lag' = lag,
         NEW v \in Waits \cup {NoThread}, k.stat[t] = "RUNNING" \/ (pc'[t] = pc[t] /\ v = NoThread),
         tgt' = [tgt EXCEPT ![t] = v], tgt[t] \notin Threads,
         \A x \in Threads \ {t} : pc'[x] = pc[x], Shapes',
         v \in Waits <=> Section(pc'[t]) \in {"check", "drain"} \/ isr' = <<"drain">>,
         Section(pc'[t]) \in Plain \cup {"check", "drain"}
  PROVE  IInv'
<1>1. tgt \in [Threads -> ThreadOrNull \cup Waits] /\ TargetInv
  BY DEF IInv, TypeOK
<1>2. /\ NoThread \notin Threads /\ NoThread \notin Waits /\ Idle \in Threads
      /\ v \notin Threads
  BY ThreadsAssumption, TargetAssumption DEF ThreadOrNull
<1>3. InTransit' = InTransit
  BY <1>1, <1>2, TransitSame
<1>4. tgt'[t] = v /\ \A x \in Threads \ {t} : tgt'[x] = tgt[x]
  BY <1>1
<1>5. TargetInv'
  <2>1. ASSUME NEW x \in Threads PROVE TargetKind(x)' /\ TargetStat(x)'
    <3>1. CASE x = t
      BY <1>2, <1>4, <3>1 DEF TargetKind, TargetStat, PcAt, Plain
    <3>2. CASE x # t
      <4>1. TargetKind(x) /\ TargetStat(x)
        BY <1>1 DEF TargetInv
      <4> QED
        BY <1>4, <3>2, <4>1, TargetFrame
    <3> QED
      BY <3>1, <3>2
  <2>2. \A x \in Threads :
           k'.stat[x] \in {"NONE", "INIT", "CLOSE"} \/ x \in InTransit' => tgt'[x] = NoThread
    <3>1. t \notin InTransit
      BY <1>2 DEF IInv, CurrentInv
    <3> QED
      BY <1>1, <1>3, <1>4, <3>1 DEF TargetInv
  <2>3. \A x, y \in Threads : tgt'[x] = tgt'[y] /\ tgt'[x] \in Threads => x = y
    <3>1. \A x, y \in Threads : tgt[x] = tgt[y] /\ tgt[x] \in Threads => x = y
      BY <1>1 DEF TargetInv
    <3> QED
      BY <1>2, <1>4, <3>1
  <2>4. Idle \notin InTransit'
    BY <1>1, <1>3 DEF TargetInv
  <2> QED
    BY <2>1, <2>2, <2>3, <2>4 DEF TargetInv
<1>6. CurrentInv'
  <2>1. t # NoThread
    BY <1>2
  <2>2. /\ k.stat[Idle] \in {"READY", "RUNNING"} /\ t \notin InTransit
        /\ \A x \in Threads : k.stat[x] = "RUNNING" => x = t
        /\ k.stat[t] \in {"RUNNING", "SUSPEND", "CLOSE"}
        /\ k.stat[t] # "RUNNING" => k.lock = 0 /\ Section(pc[t]) \in {"sched", "eintr"}
    BY <2>1 DEF IInv, CurrentInv, PcAt
  <2> QED
    BY <1>2, <1>3, <1>4, <2>2, CurrentKeep
<1>7. TimerInv' /\ tm' \in TimerState
  BY <1>3, TimersNow, TimerKeep
<1>8. CpuInv' /\ cpu' \in CpuState
  BY CpuKeep
<1>9. SliceInv' /\ rem' \in [Threads -> Nat]
  BY SliceKeep
<1>10. /\ err' \in [Threads -> Errors] /\ lag' \in BOOLEAN /\ KernelOK(k', InTransit')
       /\ tgt' \in [Threads -> ThreadOrNull \cup Waits]
  BY <1>1, <1>3 DEF IInv, TypeOK, ThreadOrNull
<1>11. TypeOK'
  BY <1>7, <1>8, <1>9, <1>10, TypeKeep
<1> QED
  BY <1>5, <1>6, <1>7, <1>8, <1>9, <1>10, <1>11 DEF IInv

\* _ipc_list_resume_all begins with interrupts enabled.
LEMMA WakeAllStep ==
  ASSUME IInv, NEW t \in Threads, NEW w \in Waits, BeginWakeAll(t, w)
  PROVE  IInv'
<1>1. /\ t = k.cur /\ k.stat[t] = "RUNNING" /\ tgt[t] = NoThread /\ ~ cpu.flag
  BY Caller DEF BeginWakeAll, Calls
<1>2. /\ k' = k /\ tm' = tm /\ cpu' = cpu /\ rem' = rem /\ err' = err /\ lag' = lag
      /\ isr' = << >> /\ tgt' = [tgt EXCEPT ![t] = w] /\ pc' = [pc EXCEPT ![t] = <<"check">>]
  BY DEF BeginWakeAll, Calls, Call
<1>3. Shapes' /\ pc'[t] = <<"check">> /\ \A x \in Threads \ {t} : pc'[x] = pc[x]
  BY <1>2, ShapesCall DEF PcShapes, IsrShapes
<1>4. Section(pc'[t]) = "check" /\ tgt[t] \notin Threads
  BY <1>1, <1>3, SectionFacts, ThreadsAssumption
<1> QED
  BY <1>1, <1>2, <1>3, <1>4, DrainStep, IsrDistinct

\* _ipc_list_resume_all begins with interrupts disabled.
LEMMA WakeAllAtomicStep ==
  ASSUME IInv, NEW t \in Threads, NEW w \in Waits, WakeAllAtomic(t, w)
  PROVE  IInv'
<1>1. /\ t = k.cur /\ k.stat[t] = "RUNNING" /\ tgt[t] = NoThread /\ ~ cpu.flag
  BY Caller DEF WakeAllAtomic, Calls
<1>2. /\ k' = k /\ tm' = tm /\ cpu' = cpu /\ rem' = rem /\ err' = err /\ lag' = lag
      /\ isr' = <<"drain">> /\ tgt' = [tgt EXCEPT ![t] = w]
      /\ pc' = [pc EXCEPT ![t] = <<"sched">>]
  BY DEF WakeAllAtomic, Calls, Call
<1>3. Shapes' /\ pc'[t] = <<"sched">> /\ \A x \in Threads \ {t} : pc'[x] = pc[x]
  BY <1>2, ShapesCall DEF PcShapes, IsrShapes
<1>4. Section(pc'[t]) \in Plain /\ tgt[t] \notin Threads
  BY <1>1, <1>3, SectionFacts, ThreadsAssumption DEF Plain
<1> QED
  BY <1>1, <1>2, <1>3, <1>4, DrainStep

\* The loop test of _ipc_list_resume_all.
LEMMA DoCheckStep ==
  ASSUME IInv, NEW t \in Threads, DoCheck(t)
  PROVE  IInv'
<1>1. /\ t = k.cur /\ ~ cpu.flag /\ isr = << >>
      /\ Section(pc[t]) = "check" /\ pc[t] \in PcShapes
  BY Worker DEF DoCheck
<1>2. k.stat[t] = "RUNNING"
  BY WorkerRuns DEF DoCheck
<1>3. tgt[t] \in Waits /\ tgt[t] \notin Threads
  BY <1>1 DEF IInv, TargetInv, TargetKind, PcAt
<1>4. /\ k' = k /\ tm' = tm /\ cpu' = cpu /\ rem' = rem /\ err' = err /\ lag' = lag
      /\ isr' = << >>
  BY <1>1 DEF DoCheck
<1>5. CASE k.wait[tgt[t]] = << >>
  <2>1. pc' = [pc EXCEPT ![t] = << >>] /\ tgt' = [tgt EXCEPT ![t] = NoThread]
    BY <1>1, <1>5, ShapeFacts DEF DoCheck, Done
  <2>2. Shapes' /\ pc'[t] = << >> /\ \A x \in Threads \ {t} : pc'[x] = pc[x]
    BY <1>4, <2>1, ShapesCall DEF PcShapes, IsrShapes
  <2>3. Section(pc'[t]) = "none" /\ NoThread \notin Waits
    BY <2>2, SectionFacts, TargetAssumption DEF ThreadOrNull
  <2>4. Section(pc'[t]) \in Plain /\ Section(pc'[t]) \notin {"check", "drain"}
    BY <2>3 DEF Plain
  <2> QED
    BY <1>1, <1>2, <1>3, <1>4, <2>1, <2>2, <2>3, <2>4, DrainStep, IsrDistinct
<1>6. CASE k.wait[tgt[t]] # << >>
  <2>1. pc' = [pc EXCEPT ![t] = <<"drain", "check">>] /\ tgt' = tgt
    BY <1>6 DEF DoCheck, Call
  <2>2. Shapes' /\ pc'[t] = <<"drain", "check">> /\ \A x \in Threads \ {t} : pc'[x] = pc[x]
    BY <1>4, <2>1, ShapesCall DEF PcShapes, IsrShapes
  <2>3. Section(pc'[t]) = "drain"
    BY <2>2, SectionFacts
  <2>4. tgt' = [tgt EXCEPT ![t] = tgt[t]]
    BY <2>1 DEF IInv, TypeOK
  <2> QED
    BY <1>1, <1>2, <1>3, <1>4, <2>2, <2>3, <2>4, DrainStep
<1> QED
  BY <1>5, <1>6

\* _ipc_list_resume_all with interrupts off ends.
LEMMA OffDrainedStep ==
  ASSUME IInv, DrainInv, OffDrained
  PROVE  IInv'
<1>1. /\ isr # << >> /\ Head(isr) = "drain" /\ isr \in IsrShapes /\ k.cur \in Threads
      /\ k.cur # NoThread
  BY HandlerCur DEF OffDrained, IsrAt
<1>2. isr = <<"drain">> /\ Tail(isr) = << >>
  BY <1>1, IsrFacts
<1>3. ~ cpu.flag
  BY <1>2 DEF IInv, CpuInv
<1>4. tgt[k.cur] \in Waits /\ Section(pc[k.cur]) = "sched"
  BY <1>1, <1>2 DEF IInv, TargetInv, TargetKind, DrainInv, PcAt
<1>5. tgt[k.cur] \notin Threads
  BY <1>1, <1>4, TargetAssumption DEF ThreadOrNull
<1>6. /\ k' = k /\ tm' = tm /\ cpu' = cpu /\ rem' = rem /\ err' = err /\ lag' = lag
      /\ isr' = << >> /\ tgt' = [tgt EXCEPT ![k.cur] = NoThread] /\ pc' = pc
  <2>1. cpu.exec = k.cur
    BY <1>3 DEF IInv, CpuInv
  <2> QED
    BY <1>2, <2>1 DEF OffDrained
<1>7. Shapes'
  BY <1>6 DEF IInv, Shapes, IsrShapes
<1>8. NoThread \notin Waits
  BY TargetAssumption DEF ThreadOrNull
<1>9. Section(pc'[k.cur]) \in Plain /\ Section(pc'[k.cur]) \notin {"check", "drain"}
  BY <1>4, <1>6 DEF Plain
<1> DEFINE c == k.cur
<1>10. /\ c \in Threads /\ c = k.cur /\ pc'[c] = pc[c] /\ tgt' = [tgt EXCEPT ![c] = NoThread]
       /\ tgt[c] \notin Threads /\ \A x \in Threads \ {c} : pc'[x] = pc[x]
       /\ Section(pc'[c]) \in Plain /\ Section(pc'[c]) \notin {"check", "drain"}
  BY <1>1, <1>5, <1>6, <1>9
<1> HIDE DEF c
<1> QED
  BY <1>3, <1>6, <1>7, <1>8, <1>10, DrainStep, IsrDistinct

-----------------------------------------------------------------------------
(* The idle thread frees closed threads *)

\* rt_thread_defunct_dequeue picks a closed thread.
LEMMA ReapStep ==
  ASSUME IInv, Reap
  PROVE  IInv'
<1>1. /\ NoThread \notin Threads /\ NoThread \notin Waits /\ Idle \in Threads
      /\ \A x \in Threads : x \notin Waits
  BY ThreadsAssumption, TargetAssumption DEF ThreadOrNull
<1>2. /\ Idle = k.cur /\ k.stat[Idle] = "RUNNING" /\ Idle \notin InTransit
      /\ tgt[Idle] = NoThread /\ ~ cpu.flag
  BY <1>1, Caller DEF Reap
<1>3. PICK u : u = Head(k.defunct)
  OBVIOUS
<1>4. /\ k' = k /\ tm' = tm /\ cpu' = cpu /\ rem' = rem /\ err' = err /\ lag' = lag
      /\ isr = << >> /\ isr' = << >> /\ tgt' = [tgt EXCEPT ![Idle] = u]
      /\ pc' = [pc EXCEPT ![Idle] = <<"free">>]
  BY <1>3 DEF Reap, Call
<1>5. u \in Threads /\ k.stat[u] = "CLOSE" /\ u \notin InTransit
  <2>1. Holds(k.defunct, {t \in Threads : k.stat[t] = "CLOSE" /\ t \notin InTransit})
    BY DEF IInv, KernelOK, LinksOK
  <2>2. k.defunct \in Seq(Threads) /\ k.defunct # << >>
    BY <2>1 DEF Holds, Reap
  <2>3. Head(k.defunct) \in ToSet(k.defunct)
    BY <2>2 DEF ToSet
  <2> QED
    BY <1>3, <2>1, <2>3 DEF Holds
<1>6. tgt \in [Threads -> ThreadOrNull \cup Waits] /\ TargetInv
  BY DEF IInv, TypeOK
<1>7. Shapes' /\ pc'[Idle] = <<"free">> /\ \A x \in Threads \ {Idle} : pc'[x] = pc[x]
  BY <1>1, <1>4, ShapesCall DEF PcShapes, IsrShapes
<1>8. InTransit' = InTransit
  BY <1>1, <1>4, <1>6, TransitSame
<1>9. tgt'[Idle] = u /\ \A x \in Threads \ {Idle} : tgt'[x] = tgt[x]
  BY <1>1, <1>4, <1>6
<1>10. \A x \in Threads : tgt[x] # u
  <2> SUFFICES ASSUME NEW x \in Threads, tgt[x] = u PROVE FALSE
    OBVIOUS
  <2>1. \/ tgt[x] \in InTransit
        \/ tgt[x] = x /\ k.stat[x] \in {"READY", "RUNNING"}
        \/ x = Idle
    BY <1>5, Targets
  <2> QED
    BY <1>1, <1>2, <1>5, <2>1
<1>11. isr # <<"drain">> /\ isr' # <<"drain">>
  BY <1>4, IsrDistinct
<1>12. TargetInv'
  <2>1. ASSUME NEW x \in Threads PROVE TargetKind(x)' /\ TargetStat(x)'
    <3>1. CASE x = Idle
      <4>1. Section(pc'[x]) = "free"
        BY <1>7, <3>1, SectionFacts
      <4>2. tgt'[x] = u /\ k'.stat[u] = "CLOSE"
        BY <1>4, <1>5, <1>9, <3>1
      <4> QED
        BY <1>1, <1>5, <1>11, <3>1, <4>1, <4>2 DEF TargetKind, TargetStat, PcAt
    <3>2. CASE x # Idle
      <4>1. TargetKind(x) /\ TargetStat(x)
        BY <1>6 DEF TargetInv
      <4> QED
        BY <1>4, <1>7, <1>9, <1>11, <3>2, <4>1, TargetFrame
    <3> QED
      BY <3>1, <3>2
  <2>2. \A x \in Threads :
           k'.stat[x] \in {"NONE", "INIT", "CLOSE"} \/ x \in InTransit' => tgt'[x] = NoThread
    BY <1>2, <1>4, <1>6, <1>8, <1>9 DEF TargetInv
  <2>3. \A x, y \in Threads : tgt'[x] = tgt'[y] /\ tgt'[x] \in Threads => x = y
    <3>1. \A x, y \in Threads : tgt[x] = tgt[y] /\ tgt[x] \in Threads => x = y
      BY <1>6 DEF TargetInv
    <3> QED
      BY <1>9, <1>10, <3>1
  <2>4. Idle \notin InTransit'
    BY <1>2, <1>8
  <2> QED
    BY <2>1, <2>2, <2>3, <2>4 DEF TargetInv
<1>13. CurrentInv'
  <2>1. \A x \in Threads : k.stat[x] = "RUNNING" => x = Idle
    BY <1>2 DEF IInv, CurrentInv
  <2>2. tgt'[Idle] # Idle
    BY <1>2, <1>5, <1>9
  <2> QED
    BY <1>1, <1>2, <1>4, <1>8, <2>1, <2>2, CurrentKeep
<1>14. TimerInv' /\ tm' \in TimerState
  BY <1>4, <1>8, TimersNow, TimerKeep
<1>15. CpuInv' /\ cpu' \in CpuState
  BY <1>2, <1>4, CpuKeep
<1>16. SliceInv' /\ rem' \in [Threads -> Nat]
  BY <1>4, SliceKeep
<1>17. /\ err' \in [Threads -> Errors] /\ lag' \in BOOLEAN /\ KernelOK(k', InTransit')
       /\ tgt' \in [Threads -> ThreadOrNull \cup Waits]
  BY <1>4, <1>5, <1>6, <1>8 DEF IInv, TypeOK, ThreadOrNull
<1>18. TypeOK'
  BY <1>7, <1>14, <1>15, <1>16, <1>17, TypeKeep
<1> QED
  BY <1>7, <1>12, <1>13, <1>14, <1>15, <1>16, <1>17, <1>18 DEF IInv

\* rt_thread_defunct_dequeue unlinks it, rt_defunct_execute frees it.
LEMMA FreeStep ==
  ASSUME IInv, Free
  PROVE  IInv'
<1>1. /\ NoThread \notin Threads /\ NoThread \notin Waits /\ Idle \in Threads
      /\ \A x \in Threads : x \notin Waits
  BY ThreadsAssumption, TargetAssumption DEF ThreadOrNull
<1>2. /\ Idle = k.cur /\ Idle \notin InTransit /\ ~ cpu.flag /\ isr = << >> /\ cpu.exec = Idle
      /\ Section(pc[Idle]) = "free"
  BY <1>1, Worker DEF Free
<1>3. k.stat[Idle] = "RUNNING"
  BY <1>1, WorkerRuns DEF Free
<1>4. tgt[Idle] \in Threads /\ k.stat[tgt[Idle]] = "CLOSE"
  BY <1>1, <1>2 DEF IInv, TargetInv, TargetKind, TargetStat, PcAt
<1>5. PICK u \in Threads : tgt[Idle] = u
  BY <1>4
<1>6. u # Idle /\ k.stat[u] = "CLOSE"
  BY <1>3, <1>4, <1>5
<1>7. tgt \in [Threads -> ThreadOrNull \cup Waits] /\ TargetInv /\ pc \in [Threads -> PcShapes]
  BY DEF IInv, TypeOK, Shapes
<1>8. u \notin InTransit /\ tgt[u] = NoThread /\ \A x \in Threads \ {Idle} : tgt[x] # u
  <2>1. \A x \in Threads \ {Idle} : tgt[x] # u
    BY <1>1, <1>5, <1>7 DEF TargetInv
  <2>2. tgt[u] = NoThread
    BY <1>6, <1>7 DEF TargetInv
  <2> QED
    BY <2>1, <2>2 DEF InTransit
<1>9. /\ k' = Reset(ListRemove(k, u), u, "NONE", 0, {})
      /\ cpu' = [cpu EXCEPT !.saved = [cpu.saved EXCEPT ![u] = NoThread]]
      /\ rem' = [rem EXCEPT ![u] = 0] /\ err' = [err EXCEPT ![u] = "EOK"]
      /\ pc' = [[pc EXCEPT ![Idle] = << >>] EXCEPT ![u] = << >>]
      /\ tgt' = [tgt EXCEPT ![Idle] = NoThread] /\ tm' = tm /\ isr' = << >> /\ lag' = lag
  BY <1>2, <1>5 DEF Free, Reset
<1>10. KernelOK(k', InTransit) /\ StatSet(k, k', u, "NONE")
  <2>1. KernelOK(k, InTransit)
    BY DEF IInv
  <2> QED
    BY <1>6, <1>8, <1>9, <2>1, FreeOK
<1>11. /\ k'.stat[u] = "NONE" /\ \A x \in Threads \ {u} : k'.stat[x] = k.stat[x]
       /\ k'.cur = k.cur /\ k'.lock = k.lock
  <2>1. k \in KernelState
    BY DEF IInv, TypeOK
  <2> QED
    BY <1>10, <2>1 DEF StatSet, KernelState
<1>12. /\ pc'[Idle] = << >> /\ pc'[u] = << >> /\ \A x \in Threads \ {Idle, u} : pc'[x] = pc[x]
       /\ pc' \in [Threads -> PcShapes]
  <2>1. << >> \in PcShapes
    BY DEF PcShapes
  <2> QED
    BY <1>1, <1>6, <1>7, <1>9, <2>1
<1>13. Shapes'
  BY <1>9, <1>12 DEF Shapes, IsrShapes
<1>14. InTransit' = InTransit
  BY <1>1, <1>7, <1>9, TransitSame
<1>15. tgt'[Idle] = NoThread /\ \A x \in Threads \ {Idle} : tgt'[x] = tgt[x]
  BY <1>1, <1>7, <1>9
<1>16. isr # <<"drain">> /\ isr' # <<"drain">>
  BY <1>2, <1>9, IsrDistinct
<1>17. TargetInv'
  <2>1. ASSUME NEW x \in Threads PROVE TargetKind(x)' /\ TargetStat(x)'
    <3>1. CASE x \in {Idle, u}
      <4>1. tgt'[x] = NoThread
        BY <1>6, <1>8, <1>15, <3>1
      <4>2. Section(pc'[x]) \in Plain
        BY <1>12, <3>1, SectionFacts DEF Plain
      <4> QED
        BY <1>16, <4>1, <4>2, TargetPlain
    <3>2. CASE x \notin {Idle, u}
      <4>1. TargetKind(x) /\ TargetStat(x)
        BY <1>7 DEF TargetInv
      <4> QED
        BY <1>8, <1>11, <1>12, <1>15, <1>16, <3>2, <4>1, TargetFrame
    <3> QED
      BY <3>1, <3>2
  <2>2. \A x \in Threads :
           k'.stat[x] \in {"NONE", "INIT", "CLOSE"} \/ x \in InTransit' => tgt'[x] = NoThread
    BY <1>6, <1>7, <1>8, <1>11, <1>14, <1>15 DEF TargetInv
  <2>3. \A x, y \in Threads : tgt'[x] = tgt'[y] /\ tgt'[x] \in Threads => x = y
    <3>1. \A x, y \in Threads : tgt[x] = tgt[y] /\ tgt[x] \in Threads => x = y
      BY <1>7 DEF TargetInv
    <3> QED
      BY <1>1, <1>15, <3>1
  <2>4. Idle \notin InTransit'
    BY <1>2, <1>14
  <2> QED
    BY <2>1, <2>2, <2>3, <2>4 DEF TargetInv
<1>18. CurrentInv'
  <2>1. \A x \in Threads : k.stat[x] = "RUNNING" => x = Idle
    BY <1>1, <1>2 DEF IInv, CurrentInv
  <2>2. tgt'[Idle] # Idle
    BY <1>1, <1>15
  <2>3. k'.stat[Idle] = "RUNNING" /\ \A x \in Threads : k'.stat[x] = "RUNNING" => x = Idle
    BY <1>1, <1>3, <1>6, <1>11, <2>1
  <2> QED
    BY <1>1, <1>2, <1>11, <1>14, <2>2, <2>3, CurrentKeep
<1>19. TimerInv' /\ tm' \in TimerState
  <2>1. \A x \in ToSet(tm.list) : k'.stat[x] = "SUSPEND" /\ x \notin InTransit'
    BY <1>6, <1>11, <1>14, TimersNow
  <2> QED
    BY <1>9, <2>1, TimersNow, TimerKeep
<1>20. CpuInv' /\ cpu' \in CpuState
  <2>1. CpuInv /\ cpu \in CpuState
    BY DEF IInv, TypeOK
  <2>2. [cpu.saved EXCEPT ![u] = NoThread] \in [Threads -> ThreadOrNull]
    BY <2>1 DEF CpuState, ThreadOrNull
  <2>3. /\ cpu' \in CpuState /\ cpu'.exec = cpu.exec /\ cpu'.flag = cpu.flag
        /\ cpu'.saved = [cpu.saved EXCEPT ![u] = NoThread]
    BY <1>9, <2>1, <2>2 DEF CpuState
  <2>4. \A x \in Threads : k'.stat[x] # "NONE" => cpu'.saved[x] = x
    BY <1>11, <2>1, <2>3 DEF CpuInv, CpuState
  <2> QED
    BY <1>1, <1>2, <1>3, <1>6, <1>11, <2>3, <2>4 DEF CpuInv
<1>21. SliceInv' /\ rem' \in [Threads -> Nat]
  <2>1. rem \in [Threads -> Nat] /\ SliceInv
    BY DEF IInv, TypeOK
  <2>2. rem' \in [Threads -> Nat] /\ \A x \in Threads \ {u} : rem'[x] = rem[x]
    BY <1>9, <2>1
  <2> QED
    BY <1>11, <2>1, <2>2 DEF SliceInv
<1>22. /\ err' \in [Threads -> Errors] /\ lag' \in BOOLEAN
       /\ tgt' \in [Threads -> ThreadOrNull \cup Waits]
  <2>1. err \in [Threads -> Errors] /\ lag \in BOOLEAN
    BY DEF IInv, TypeOK
  <2> QED
    BY <1>7, <1>9, <2>1 DEF Errors, ThreadOrNull
<1>23. TypeOK'
  BY <1>10, <1>13, <1>19, <1>20, <1>21, <1>22, TypeKeep
<1> QED
  BY <1>10, <1>13, <1>14, <1>17, <1>18, <1>19, <1>20, <1>21, <1>23 DEF IInv

-----------------------------------------------------------------------------
(* Creation of threads and start of the system *)

\* Thread u comes into being in state s; CurrentInv is left to the caller.
LEMMA MakeStep ==
  ASSUME IInv, NEW u \in Threads, k.stat[u] = "NONE", NEW s \in {"INIT", "READY"},
         KernelOK(k', InTransit), StatSet(k, k', u, s), CurrentInv',
         NEW p, Create(u, p), cpu' = StackInit(cpu, u),
         tm' = tm, tgt' = tgt, isr = << >>, isr' = << >>, lag' = lag,
         pc'[u] = << >>, \A x \in Threads \ {u} : pc'[x] = pc[x], Shapes'
  PROVE  IInv'
<1>1. tgt[u] = NoThread /\ u \notin InTransit
  <2>1. u \notin InTransit
    BY TransitStat
  <2> QED
    BY <2>1 DEF IInv, TargetInv
<1>2. /\ k'.stat[u] = s /\ \A x \in Threads \ {u} : k'.stat[x] = k.stat[x]
      /\ k'.cur = k.cur
  <2>1. k \in KernelState
    BY DEF IInv, TypeOK
  <2> QED
    BY <2>1 DEF StatSet, KernelState
<1>3. \A x \in Threads : tgt[x] # u
  <2> SUFFICES ASSUME NEW x \in Threads, tgt[x] = u PROVE FALSE
    OBVIOUS
  <2>1. \/ tgt[x] \in InTransit
        \/ tgt[x] = x /\ k.stat[x] \in {"READY", "RUNNING"}
        \/ k.stat[tgt[x]] = "CLOSE"
    BY Targets
  <2> QED
    BY <1>1, <2>1
<1>4. TargetInv' /\ InTransit' = InTransit
  <2>1. Section(pc'[u]) \in Plain
    BY SectionFacts DEF Plain
  <2>2. /\ isr' = <<"drain">> <=> isr = <<"drain">>
        /\ isr = <<"drain">> => k'.cur = k.cur
    BY <1>2
  <2>3. \A x \in Threads : pc'[x] = pc[x] \/ (tgt[x] = NoThread /\ Section(pc'[x]) \in Plain)
    BY <1>1, <2>1
  <2>4. /\ \A x \in Threads : tgt[x] \in Threads => k'.stat[tgt[x]] = k.stat[tgt[x]]
        /\ \A x \in Threads : k'.stat[x] \in {"NONE", "INIT", "CLOSE"} =>
                                 k.stat[x] \in {"NONE", "INIT", "CLOSE"}
    BY <1>2, <1>3
  <2> QED
    BY <2>2, <2>3, <2>4, TargetKeep
<1>5. TimerInv' /\ tm' \in TimerState
  <2>1. \A x \in ToSet(tm.list) : k'.stat[x] = "SUSPEND" /\ x \notin InTransit'
    BY <1>2, <1>4, TimersNow
  <2> QED
    BY <2>1, TimersNow, TimerKeep
<1>6. CpuInv' /\ cpu' \in CpuState
  <2>1. CpuInv /\ cpu \in CpuState
    BY DEF IInv, TypeOK
  <2>2. [cpu.saved EXCEPT ![u] = u] \in [Threads -> ThreadOrNull]
    BY <2>1 DEF CpuState, ThreadOrNull
  <2>3. cpu' = [cpu EXCEPT !.saved = [cpu.saved EXCEPT ![u] = u]]
    BY DEF StackInit
  <2>4. /\ cpu' \in CpuState /\ cpu'.exec = cpu.exec /\ cpu'.flag = cpu.flag
        /\ cpu'.saved = [cpu.saved EXCEPT ![u] = u]
    BY <2>1, <2>2, <2>3 DEF CpuState
  <2>5. \A x \in Threads : k'.stat[x] # "NONE" => cpu'.saved[x] = x
    BY <1>2, <2>1, <2>4 DEF CpuInv, CpuState
  <2>6. ~ cpu.flag
    BY <2>1 DEF CpuInv
  <2>7. cpu.exec \in Threads => k'.stat[cpu.exec] # "NONE"
    BY <1>2, <2>1 DEF CpuInv
  <2> QED
    BY <1>2, <2>1, <2>4, <2>5, <2>6, <2>7 DEF CpuInv
<1>7. SliceInv' /\ rem' \in [Threads -> Nat]
  <2>1. rem \in [Threads -> Nat] /\ SliceInv
    BY DEF IInv, TypeOK
  <2>2. rem' = [rem EXCEPT ![u] = Slice[u]] /\ Slice[u] \in Nat \ {0}
    BY SliceAssumption DEF Create
  <2>3. rem' \in [Threads -> Nat] /\ rem'[u] >= 1 /\ \A x \in Threads \ {u} : rem'[x] = rem[x]
    BY <2>1, <2>2
  <2> QED
    BY <1>2, <2>1, <2>3 DEF SliceInv
<1>8. /\ err' \in [Threads -> Errors] /\ lag' \in BOOLEAN
      /\ tgt' \in [Threads -> ThreadOrNull \cup Waits]
  <2>1. /\ err \in [Threads -> Errors] /\ lag \in BOOLEAN
        /\ tgt \in [Threads -> ThreadOrNull \cup Waits]
    BY DEF IInv, TypeOK
  <2>2. err' = [err EXCEPT ![u] = "EOK"]
    BY DEF Create
  <2> QED
    BY <2>1, <2>2 DEF Errors
<1>9. TypeOK'
  BY <1>5, <1>6, <1>7, <1>8, TypeKeep
<1> QED
  BY <1>4, <1>5, <1>6, <1>7, <1>9 DEF IInv

\* rt_thread_create and rt_thread_init.
LEMMA CreateThreadStep ==
  ASSUME IInv, NEW t \in Threads, NEW u \in Threads, NEW p \in Prio, CreateThread(t, u, p)
  PROVE  IInv'
<1>1. /\ isr = << >> /\ isr' = << >> /\ cpu.exec = t /\ pc[t] = << >> /\ k.stat[u] = "NONE"
      /\ Create(u, p) /\ k' = ThreadInit(k, u, p) /\ cpu' = StackInit(cpu, u)
      /\ tm' = tm /\ tgt' = tgt /\ lag' = lag /\ pc' = [pc EXCEPT ![u] = << >>]
  BY DEF CreateThread, Calls, Create, Call
<1>2. t = k.cur /\ k.stat[t] = "RUNNING" /\ t \notin InTransit /\ tgt[t] = NoThread
  BY <1>1, Caller
<1>3. u \notin InTransit
  BY <1>1, TransitStat
<1>4. KernelOK(k', InTransit) /\ StatSet(k, k', u, "INIT")
  <2>1. KernelOK(k, InTransit)
    BY DEF IInv
  <2> QED
    BY <1>1, <1>3, <2>1, ThreadInitOK
<1>5. Shapes' /\ pc'[u] = << >> /\ \A x \in Threads \ {u} : pc'[x] = pc[x]
  BY <1>1, ShapesCall DEF PcShapes, IsrShapes
<1>6. CurrentInv'
  <2>1. k \in KernelState
    BY DEF IInv, TypeOK
  <2>2. /\ k'.stat[u] = "INIT" /\ \A x \in Threads \ {u} : k'.stat[x] = k.stat[x]
        /\ k'.cur = k.cur
    BY <1>4, <2>1 DEF StatSet, KernelState
  <2>3. /\ k.stat[Idle] \in {"READY", "RUNNING"} /\ Idle \in Threads /\ NoThread \notin Threads
        /\ \A x \in Threads : k.stat[x] = "RUNNING" => x = t
    BY <1>2, ThreadsAssumption DEF IInv, CurrentInv
  <2>4. /\ k'.stat[Idle] \in {"READY", "RUNNING"} /\ k'.stat[t] = "RUNNING"
        /\ \A x \in Threads : k'.stat[x] = "RUNNING" => x = t
    BY <1>1, <1>2, <2>2, <2>3
  <2>5. InTransit' = InTransit
    BY <1>1 DEF InTransit
  <2>6. tgt'[t] # t
    BY <1>1, <1>2, <2>3
  <2> QED
    BY <1>2, <2>2, <2>4, <2>5, <2>6, CurrentKeep
<1> QED
  BY <1>1, <1>4, <1>5, <1>6, MakeStep

\* Threads created and started before the scheduler runs.
LEMMA BootThreadStep ==
  ASSUME IInv, NEW u \in Threads, NEW p \in Prio, BootThread(u, p)
  PROVE  IInv'
<1>1. /\ k.cur = NoThread /\ Create(u, p) /\ k.stat[u] = "NONE" /\ cpu' = StackInit(cpu, u)
      /\ tm' = tm /\ pc' = pc /\ tgt' = tgt /\ isr' = isr /\ lag' = lag
      /\ k' = Resume([ThreadInit(k, u, p) EXCEPT !.mask[u] = {p}, !.stat[u] = "SUSPEND"], u)
  BY DEF BootThread, Create
<1>2. /\ \A t \in Threads :
            k.stat[t] \in {"NONE", "READY"} /\ tgt[t] = NoThread /\ pc[t] = << >>
      /\ tm.list = << >> /\ isr = << >> /\ k.lock = 0
  BY <1>1 DEF IInv, CurrentInv
<1>3. u \notin InTransit /\ u # k.cur
  BY <1>1, TransitStat, ThreadsAssumption
<1>4. KernelOK(k', InTransit) /\ StatSet(k, k', u, "READY")
  <2>1. KernelOK(k, InTransit)
    BY DEF IInv
  <2> QED
    BY <1>1, <1>3, <2>1, BootOK
<1>5. Shapes'
  BY <1>1 DEF IInv, Shapes
<1>6. CurrentInv'
  <2>1. k \in KernelState
    BY DEF IInv, TypeOK
  <2>2. /\ k'.stat[u] = "READY" /\ \A x \in Threads \ {u} : k'.stat[x] = k.stat[x]
        /\ k'.cur = NoThread /\ k'.lock = 0
    BY <1>1, <1>2, <1>4, <2>1 DEF StatSet, KernelState
  <2>3. \A x \in Threads : k'.stat[x] \in {"NONE", "READY"}
    BY <1>2, <2>2
  <2> QED
    BY <1>1, <1>2, <2>2, <2>3 DEF CurrentInv
<1> QED
  BY <1>1, <1>2, <1>4, <1>5, <1>6, MakeStep

\* rt_system_scheduler_start.
LEMMA BootStartStep ==
  ASSUME IInv, BootStart
  PROVE  IInv'
<1>1. /\ k.cur = NoThread /\ k.stat[Idle] = "READY" /\ k' = SchedulerStart(k)
      /\ cpu' = ContextSwitchTo(cpu, k'.cur)
      /\ tm' = tm /\ rem' = rem /\ err' = err /\ pc' = pc /\ tgt' = tgt /\ isr' = isr
      /\ lag' = lag
  BY DEF BootStart
<1>2. /\ \A t \in Threads :
            k.stat[t] \in {"NONE", "READY"} /\ tgt[t] = NoThread /\ pc[t] = << >>
      /\ tm.list = << >> /\ isr = << >> /\ k.lock = 0
  BY <1>1 DEF IInv, CurrentInv
<1>3. NoThread \notin Threads /\ NoThread \notin Waits /\ Idle \in Threads
  BY ThreadsAssumption, TargetAssumption DEF ThreadOrNull
<1>4. k \in KernelState /\ KernelOK(k, InTransit)
  BY DEF IInv, TypeOK
<1>5. InTransit = {} /\ InTransit' = {}
  BY <1>1, <1>2, <1>3 DEF InTransit
<1>6. k.group # {}
  <2>1. k.prio[Idle] \in Prio
    BY <1>3, <1>4 DEF KernelState
  <2>2. Holds(k.ready[k.prio[Idle]],
              {t \in Threads : k.stat[t] = "READY" /\ k.prio[t] = k.prio[Idle] /\ t \notin InTransit})
    BY <1>4, <2>1 DEF KernelOK, LinksOK
  <2>3. Idle \in ToSet(k.ready[k.prio[Idle]])
    BY <1>1, <1>3, <1>5, <2>2 DEF Holds
  <2>4. k.ready[k.prio[Idle]] # << >>
    BY <2>3 DEF ToSet
  <2> QED
    BY <1>4, <2>1, <2>4 DEF KernelOK, GroupOK
<1>7. PICK c : c = k'.cur
  OBVIOUS
<1>8. /\ KernelOK(k', InTransit) /\ c \in Threads /\ k.stat[c] = "READY"
      /\ k'.stat = [k.stat EXCEPT ![c] = "RUNNING"] /\ k'.lock = k.lock
  BY <1>1, <1>4, <1>6, <1>7, SchedulerStartOK
<1>9. k'.stat[c] = "RUNNING" /\ \A x \in Threads \ {c} : k'.stat[x] = k.stat[x]
  BY <1>4, <1>8 DEF KernelState
<1>10. TargetInv'
  <2>1. ASSUME NEW x \in Threads PROVE TargetKind(x)' /\ TargetStat(x)'
    <3>1. tgt'[x] = NoThread /\ Section(pc'[x]) \in Plain
      BY <1>1, <1>2, SectionFacts DEF Plain
    <3>2. isr' # <<"drain">>
      BY <1>1, <1>2, IsrDistinct
    <3> QED
      BY <3>1, <3>2, TargetPlain
  <2> QED
    BY <1>1, <1>2, <1>3, <1>5, <2>1 DEF TargetInv
<1>11. CurrentInv'
  <2>1. c # NoThread /\ k'.cur = c
    BY <1>3, <1>7, <1>8
  <2>2. \A x \in Threads : k'.stat[x] = "RUNNING" => x = c
    BY <1>2, <1>9
  <2>3. tgt'[c] # c /\ k'.stat[Idle] \in {"READY", "RUNNING"}
    BY <1>1, <1>2, <1>3, <1>8, <1>9
  <2> QED
    BY <1>5, <1>9, <2>1, <2>2, <2>3 DEF CurrentInv
<1>12. TimerInv' /\ tm' \in TimerState
  <2>1. ToSet(tm.list) = {}
    BY <1>2 DEF ToSet
  <2> QED
    BY <1>1, <2>1, TimersNow, TimerKeep
<1>13. CpuInv' /\ cpu' \in CpuState
  <2>1. CpuInv /\ cpu \in CpuState
    BY DEF IInv, TypeOK
  <2>2. cpu.saved[c] = c /\ ~ cpu.flag
    BY <1>2, <1>8, <2>1 DEF CpuInv
  <2>3. cpu' = [cpu EXCEPT !.exec = c]
    BY <1>1, <1>7, <2>2 DEF ContextSwitchTo
  <2>4. /\ cpu' \in CpuState /\ cpu'.exec = c /\ cpu'.flag = cpu.flag /\ cpu'.saved = cpu.saved
    BY <1>8, <2>1, <2>3 DEF CpuState, ThreadOrNull
  <2>5. \A x \in Threads : k'.stat[x] # "NONE" => cpu'.saved[x] = x
    BY <1>8, <1>9, <2>1, <2>4 DEF CpuInv
  <2> QED
    BY <1>7, <1>8, <1>9, <2>2, <2>4, <2>5 DEF CpuInv
<1>14. SliceInv' /\ rem' \in [Threads -> Nat]
  <2>1. \A x \in Threads : k'.stat[x] = "NONE" <=> k.stat[x] = "NONE"
    BY <1>8, <1>9
  <2> QED
    BY <1>1, <2>1, SliceKeep
<1>15. /\ err' \in [Threads -> Errors] /\ lag' \in BOOLEAN
       /\ tgt' \in [Threads -> ThreadOrNull \cup Waits] /\ Shapes'
  BY <1>1 DEF IInv, TypeOK, Shapes
<1>16. TypeOK'
  BY <1>8, <1>12, <1>13, <1>14, <1>15, TypeKeep
<1> QED
  BY <1>5, <1>8, <1>10, <1>11, <1>12, <1>13, <1>14, <1>15, <1>16 DEF IInv

-----------------------------------------------------------------------------
(* What a function of Kernel leaves alone *)

\* A record with the fields of a kernel state.
Fields(x) ==
    /\ DOMAIN x = {"stat", "yld", "prio", "mask", "ready", "group", "wait", "defunct", "cur", "lock"}
    /\ DOMAIN x.stat = Threads /\ DOMAIN x.prio = Threads /\ DOMAIN x.wait = Waits

\* From x to y only the words of t may have changed; the lists, too.
OnlyWords(x, y, t) ==
    /\ y.cur = x.cur /\ y.lock = x.lock
    /\ \A u \in Threads \ {t} : y.stat[u] = x.stat[u] /\ y.prio[u] = x.prio[u]

\* From x to y only the words of t and the lists it was in may have changed.
Touches(x, y, t) ==
    /\ Fields(y) /\ OnlyWords(x, y, t)
    /\ \A w \in Waits : t \notin ToSet(x.wait[w]) => y.wait[w] = x.wait[w]

LEMMA TouchBasic ==
  ASSUME NEW t \in Threads, NEW x, Fields(x)
  PROVE  /\ Touches(x, ListRemove(x, t), t) /\ ListRemove(x, t).prio = x.prio
         /\ Touches(x, RemoveThread(x, t), t) /\ RemoveThread(x, t).prio = x.prio
         /\ Touches(x, InsertThread(x, t), t) /\ InsertThread(x, t).wait = x.wait
         /\ InsertThread(x, t).prio = x.prio
         /\ Touches(x, Close(x, t), t) /\ Close(x, t).wait = x.wait
         /\ \A s : Touches(x, SetStat(x, t, s), t) /\ SetStat(x, t, s).wait = x.wait
         /\ \A p : Touches(x, Repriced(x, t, p), t) /\ Repriced(x, t, p).wait = x.wait
         /\ \A s, p, m : Touches(x, Reset(x, t, s, p, m), t) /\ Reset(x, t, s, p, m).wait = x.wait
<1>1. Touches(x, ListRemove(x, t), t) /\ ListRemove(x, t).prio = x.prio
  BY DEF ListRemove, Unlinked, Touches, OnlyWords, Fields
<1>2. Touches(x, RemoveThread(x, t), t) /\ RemoveThread(x, t).prio = x.prio
  <2> DEFINE u == ListRemove(x, t)
  <2>1. RemoveThread(x, t) = [u EXCEPT !.group = IF u.ready[x.prio[t]] = << >> THEN @ \ x.mask[t]
                                                 ELSE @]
    BY DEF RemoveThread
  <2>2. Touches(x, u, t) /\ u.prio = x.prio
    BY <1>1
  <2> HIDE DEF u
  <2> QED
    BY <2>1, <2>2 DEF Touches, OnlyWords, Fields
<1>3. /\ Touches(x, InsertThread(x, t), t) /\ InsertThread(x, t).wait = x.wait
      /\ InsertThread(x, t).prio = x.prio
  <2>1. CASE t = x.cur
    BY <2>1 DEF InsertThread, Touches, OnlyWords, Fields
  <2>2. CASE t # x.cur
    BY <2>2 DEF InsertThread, Touches, OnlyWords, Fields
  <2> QED
    BY <2>1, <2>2
<1>4. Touches(x, Close(x, t), t) /\ Close(x, t).wait = x.wait
  BY DEF Close, Touches, OnlyWords, Fields
<1>5. \A s : Touches(x, SetStat(x, t, s), t) /\ SetStat(x, t, s).wait = x.wait
  BY DEF SetStat, Touches, OnlyWords, Fields
<1>6. \A p : Touches(x, Repriced(x, t, p), t) /\ Repriced(x, t, p).wait = x.wait
  BY DEF Repriced, Touches, OnlyWords, Fields
<1>7. \A s, p, m : Touches(x, Reset(x, t, s, p, m), t) /\ Reset(x, t, s, p, m).wait = x.wait
  BY DEF Reset, Touches, OnlyWords, Fields
<1> QED
  BY <1>1, <1>2, <1>3, <1>4, <1>5, <1>6, <1>7

\* Two steps on the same thread, one of which leaves the wait lists alone.
LEMMA TouchTwice ==
  ASSUME NEW t \in Threads, NEW x, NEW y, NEW z, Touches(x, y, t), Touches(y, z, t),
         z.wait = y.wait \/ y.wait = x.wait
  PROVE  Touches(x, z, t)
  BY DEF Touches, OnlyWords

\* The functions of thread.c and ipc.c.
LEMMA TouchOps ==
  ASSUME NEW t \in Threads, NEW x, Fields(x)
  PROVE  /\ Touches(x, Suspend(x, t), t) /\ Touches(x, Resume(x, t), t)
         /\ Touches(x, Close(RemoveThread(x, t), t), t)
         /\ \A p : Touches(x, ThreadInit(x, t, p), t)
         /\ \A p : Touches(x, ChangePriority(x, t, p), t)
         /\ \A s, p, m : Touches(x, Reset(ListRemove(x, t), t, s, p, m), t)
         /\ \A s, p, m : Touches(x, ListRemove(Reset(x, t, s, p, m), t), t)
<1>1. \A y : Touches(x, y, t) => Fields(y)
  BY DEF Touches
<1> DEFINE l == ListRemove(x, t)
           r == RemoveThread(x, t)
<1>2. Touches(x, l, t) /\ Touches(x, r, t) /\ Fields(l) /\ Fields(r)
  BY <1>1, TouchBasic
<1>3. Touches(x, Suspend(x, t), t)
  <2>1. Suspend(x, t) = SetStat(r, t, "SUSPEND")
    BY DEF Suspend, SetStat
  <2> HIDE DEF r
  <2> QED
    BY <1>2, <2>1, TouchBasic, TouchTwice
<1>4. Touches(x, Resume(x, t), t)
  <2>1. Resume(x, t) = InsertThread(l, t)
    BY DEF Resume
  <2> HIDE DEF l
  <2> QED
    BY <1>2, <2>1, TouchBasic, TouchTwice
<1>5. Touches(x, Close(r, t), t)
  <2> HIDE DEF r
  <2> QED
    BY <1>2, TouchBasic, TouchTwice
<1>6. ASSUME NEW p PROVE Touches(x, ThreadInit(x, t, p), t)
  <2>1. ThreadInit(x, t, p) = Reset(x, t, "INIT", p, {})
    BY DEF ThreadInit, Reset
  <2> QED
    BY <2>1, TouchBasic
<1>7. ASSUME NEW p PROVE Touches(x, ChangePriority(x, t, p), t)
  <2> DEFINE c == Repriced(r, t, p)
  <2>1. ChangePriority(x, t, p) = IF x.stat[t] = "READY" THEN InsertThread(c, t)
                                                         ELSE Repriced(x, t, p)
    BY DEF ChangePriority, Repriced
  <2>2. Touches(r, c, t) /\ c.wait = r.wait
    BY <1>2, TouchBasic
  <2>3. Touches(x, c, t)
    BY <1>2, <2>2, TouchTwice
  <2>4. Fields(c)
    BY <1>1, <2>3
  <2> HIDE DEF c
  <2>5. Touches(c, InsertThread(c, t), t) /\ InsertThread(c, t).wait = c.wait
    BY <2>4, TouchBasic
  <2>6. Touches(x, InsertThread(c, t), t)
    BY <2>3, <2>5, TouchTwice
  <2> QED
    BY <2>1, <2>6, TouchBasic
<1>8. ASSUME NEW s, NEW p, NEW m PROVE Touches(x, Reset(l, t, s, p, m), t)
  <2> HIDE DEF l
  <2> QED
    BY <1>2, TouchBasic, TouchTwice
<1>9. ASSUME NEW s, NEW p, NEW m PROVE Touches(x, ListRemove(Reset(x, t, s, p, m), t), t)
  <2> DEFINE y == Reset(x, t, s, p, m)
  <2>1. Touches(x, y, t) /\ y.wait = x.wait /\ Fields(y)
    BY <1>1, TouchBasic
  <2> HIDE DEF y
  <2>2. Touches(y, ListRemove(y, t), t)
    BY <2>1, TouchBasic
  <2> QED
    BY <2>1, <2>2, TouchTwice DEF y
<1> QED
  BY <1>3, <1>4, <1>5, <1>6, <1>7, <1>8, <1>9

\* A kernel state has the fields.
LEMMA KernelFields ==
  ASSUME NEW x \in KernelState
  PROVE  Fields(x)
  BY DEF KernelState, Fields

\* _ipc_list_suspend changes one wait list.
LEMMA TouchSuspend ==
  ASSUME NEW t \in Threads, NEW x, Fields(x), NEW w \in Waits,
         \A v \in Waits : t \notin ToSet(x.wait[v])
  PROVE  /\ OnlyWords(x, IpcListSuspend(x, t, w), t)
         /\ \A v \in Waits \ {w} : IpcListSuspend(x, t, w).wait[v] = x.wait[v]
<1> DEFINE s == Suspend(x, t)
           I == IF w \in PrioWaits THEN {i \in DOMAIN s.wait[w] : s.prio[t] < s.prio[s.wait[w][i]]}
                                    ELSE {}
<1>1. IpcListSuspend(x, t, w) = Join(s, t, w, I)
  BY DEF IpcListSuspend, Join
<1>2. Touches(x, s, t)
  BY TouchOps
<1> HIDE DEF s, I
<1>3. OnlyWords(s, Join(s, t, w, I), t) /\ \A v \in Waits \ {w} : Join(s, t, w, I).wait[v] = s.wait[v]
  BY <1>2 DEF Join, OnlyWords, Touches, Fields
<1> QED
  BY <1>1, <1>2, <1>3 DEF OnlyWords, Touches

-----------------------------------------------------------------------------
(* Frames *)

\* Which pending sections belong to a sleep, which lead to rt_schedule.
LEMMA PcSets ==
  /\ << >> \notin Sleeping \cup Resched /\ <<"sched">> \notin Sleeping /\ <<"sched", "ret">> \notin Sleeping
  /\ <<"ret">> \notin Sleeping \cup Resched /\ <<"check">> \notin Sleeping \cup Resched
  /\ <<"drain", "check">> \notin Sleeping \cup Resched /\ <<"free">> \notin Sleeping \cup Resched
  /\ <<"insert">> \notin Sleeping \cup Resched /\ <<"close">> \notin Sleeping \cup Resched
  /\ <<"insert", "sched">> \notin Sleeping /\ <<"close", "sched">> \notin Sleeping
  /\ <<"slept">> \notin Resched
  BY DEF Sleeping, Resched

LEMMA IsrSets ==
  /\ << >> \notin IsrResched /\ <<"timers", "leave">> \notin IsrResched
  /\ <<"leave">> \notin IsrResched /\ <<"drain">> \notin IsrResched
  BY DEF IsrResched

\* The sections of a tear-down have its object for target.
LEMMA TearDown ==
  ASSUME IInv, NEW x \in Threads, PcAt(x, {"check", "drain"})
  PROVE  tgt[x] \in Waits
  BY DEF IInv, TargetInv, TargetKind

\* A step that stops or starts the timer of u and changes the words of u alone.
LEMMA SleepTouch ==
  ASSUME IInv, SleepInv, NEW u \in Threads, OnlyWords(k, k', u),
         \A x \in Threads \ {u} : TimerOn(tm, x) => TimerOn(tm', x),
         \A x \in Threads \ {u} : pc'[x] \in Sleeping => pc'[x] = pc[x],
         InTransit \ {u} \subseteq InTransit',
         \/ k'.stat[u] # "SUSPEND" \/ pc'[u] \notin Sleeping
         \/ TimerOn(tm', u) \/ u \in InTransit'
  PROVE  SleepInv'
<1> SUFFICES ASSUME NEW x \in Threads, pc'[x] \in Sleeping, k'.stat[x] = "SUSPEND"
             PROVE  TimerOn(tm', x) \/ x \in InTransit'
  BY DEF SleepInv
<1>1. CASE x = u
  BY <1>1
<1>2. CASE x # u
  <2>1. pc[x] \in Sleeping /\ k.stat[x] = "SUSPEND"
    BY <1>2 DEF OnlyWords
  <2>2. TimerOn(tm, x) \/ x \in InTransit
    BY <2>1 DEF SleepInv
  <2> QED
    BY <1>2, <2>2
<1> QED
  BY <1>1, <1>2

\* A step on a thread that waits in no list that is being torn down.
LEMMA TearDownTouch ==
  ASSUME IInv, TearDownInv, NEW u \in Threads,
         \A x \in Threads \ {u} : TimerOn(tm', x) => TimerOn(tm, x),
         \A x \in Threads : tgt[x] \in Waits =>
            k'.wait[tgt[x]] = k.wait[tgt[x]] /\ u \notin ToSet(k.wait[tgt[x]]),
         \A x \in Threads : tgt'[x] \in Waits => tgt'[x] = tgt[x],
         \A x \in Threads : Section(pc'[x]) \in {"check", "drain"} =>
            pc'[x] = pc[x] /\ tgt'[x] = tgt[x]
  PROVE  TearDownInv'
<1>1. \A t, x \in Threads : tgt'[t] = tgt'[x] /\ tgt'[t] \in Waits => t = x
  BY DEF TearDownInv
<1>2. ASSUME NEW t \in Threads, Section(pc'[t]) \in {"check", "drain"}
      PROVE  /\ \A x \in ToSet(k'.wait[tgt'[t]]) : ~ TimerOn(tm', x)
             /\ Section(pc'[t]) = "drain" => k'.wait[tgt'[t]] # << >>
  <2>1. PcAt(t, {"check", "drain"}) /\ tgt'[t] = tgt[t]
    BY <1>2 DEF PcAt
  <2>2. tgt[t] \in Waits
    BY <2>1, TearDown
  <2>3. k'.wait[tgt'[t]] = k.wait[tgt[t]] /\ u \notin ToSet(k.wait[tgt[t]])
    BY <2>1, <2>2
  <2>4. ToSet(k.wait[tgt[t]]) \subseteq Threads
    BY <2>2 DEF IInv, KernelOK, LinksOK, Holds, ToSet
  <2>5. \A x \in ToSet(k.wait[tgt[t]]) : ~ TimerOn(tm, x)
    BY <2>1 DEF TearDownInv
  <2>6. Section(pc'[t]) = "drain" => k.wait[tgt[t]] # << >>
    BY <1>2, <2>1 DEF TearDownInv, PcAt
  <2> QED
    BY <2>3, <2>4, <2>5, <2>6
<1> QED
  BY <1>1, <1>2 DEF TearDownInv, PcAt

\* rt_schedule is still to come, or the scheduler is locked, or the caller is
\* to reschedule.
LEMMA UrgentLater ==
  ASSUME lag' \/ Pending' \/ k'.lock # 0
  PROVE  UrgentInv'
  BY DEF UrgentInv

\* A step on a thread that is neither current nor put into a ready list.
LEMMA UrgentTouch ==
  ASSUME IInv, UrgentInv, k.cur \in Threads, NEW u \in Threads \ {k.cur}, OnlyWords(k, k', u),
         lag' = lag, ~ Pending' => ~ Pending, InTransit \ {u} \subseteq InTransit',
         k'.stat[u] # "READY" \/ u \in InTransit'
  PROVE  UrgentInv'
<1> SUFFICES ASSUME k'.lock = 0, ~ lag', ~ Pending', NEW t \in Threads \ InTransit',
                    k'.stat[t] = "READY"
             PROVE  k'.prio[k'.cur] <= k'.prio[t]
  BY DEF UrgentInv, Urgent
<1>1. k.lock = 0 /\ ~ lag /\ ~ Pending /\ k.cur # NoThread /\ k'.cur = k.cur
  BY ThreadsAssumption DEF OnlyWords
<1>2. Urgent
  BY <1>1 DEF UrgentInv
<1>3. t # u /\ t \notin InTransit
  OBVIOUS
<1>4. k.stat[t] = "READY" /\ k'.prio[t] = k.prio[t] /\ k'.prio[k'.cur] = k.prio[k.cur]
  BY <1>1, <1>3 DEF OnlyWords
<1> QED
  BY <1>2, <1>3, <1>4 DEF Urgent

\* A step that leaves the words of all threads alone.
LEMMA UrgentSame ==
  ASSUME UrgentInv, k'.stat = k.stat, k'.prio = k.prio, k'.cur = k.cur, k'.lock = k.lock,
         lag' = lag, ~ Pending' => ~ Pending, InTransit' = InTransit
  PROVE  UrgentInv'
  BY DEF UrgentInv, Urgent

\* The running timers after rt_timer_stop, and after rt_timer_start.
LEMMA TimerTouch ==
  ASSUME IInv, NEW u \in Threads, NEW n \in Nat
  PROVE  /\ \A x \in Threads \ {u} : TimerOn(TimerStop(tm, u), x) <=> TimerOn(tm, x)
         /\ \A x \in Threads \ {u} : TimerOn(TimerStart(TimerStop(tm, u), u, n), x) <=> TimerOn(tm, x)
         /\ ~ TimerOn(TimerStop(tm, u), u) /\ TimerOn(TimerStart(TimerStop(tm, u), u, n), u)
<1>1. /\ ToSet(TimerStop(tm, u).list) = ToSet(tm.list) \ {u}
      /\ ToSet(TimerStart(TimerStop(tm, u), u, n).list) = (ToSet(tm.list) \ {u}) \cup {u}
  BY BlockTimer DEF TimersOK, Holds
<1> QED
  BY <1>1 DEF TimerOn

\* Who is in no wait list, and whose lists are not being torn down.
LEMMA Unwaited ==
  ASSUME IInv, NEW u \in Threads
  PROVE  /\ k.stat[u] # "SUSPEND" \/ u \in InTransit => \A w \in Waits : u \notin ToSet(k.wait[w])
         /\ NotTarget(u) => \A x \in Threads : tgt[x] \in Waits => u \notin ToSet(k.wait[tgt[x]])
         /\ \A w \in Waits : ~ Draining(w) /\ u \in ToSet(k.wait[w]) =>
               \A x \in Threads : tgt[x] \in Waits => u \notin ToSet(k.wait[tgt[x]])
<1>1. LinksOK(k, InTransit)
  BY DEF IInv, KernelOK
<1>2. k.stat[u] # "SUSPEND" \/ u \in InTransit => \A w \in Waits : u \notin ToSet(k.wait[w])
  BY <1>1 DEF LinksOK
<1>3. NotTarget(u) => \A x \in Threads : tgt[x] \in Waits => u \notin ToSet(k.wait[tgt[x]])
  BY DEF NotTarget, Draining
<1>4. ASSUME NEW w \in Waits, ~ Draining(w), u \in ToSet(k.wait[w]),
             NEW x \in Threads, tgt[x] \in Waits
      PROVE  u \notin ToSet(k.wait[tgt[x]])
  BY <1>1, <1>4 DEF LinksOK, Draining
<1> QED
  BY <1>2, <1>3, <1>4

\* A call by t that touches u, its caller or another thread.
LEMMA CallTouch ==
  ASSUME IInv, LaterInv, NEW t \in Threads, isr = << >>, cpu.exec = t, pc[t] = << >>,
         NEW u \in Threads, OnlyWords(k, k', u),
         \A x \in Threads \ {u} : TimerOn(tm', x) <=> TimerOn(tm, x),
         NEW s \in PcShapes, pc' = [pc EXCEPT ![t] = s],
         Section(s) \notin {"check", "drain"}, s \in Sleeping => u = t,
         \/ k'.stat[u] # "SUSPEND" \/ pc'[u] \notin Sleeping
         \/ TimerOn(tm', u) \/ u \in InTransit',
         InTransit \ {u} \subseteq InTransit',
         \A x \in Threads \ {t} : tgt'[x] = tgt[x], tgt'[t] \notin Waits,
         \A x \in Threads : tgt[x] \in Waits =>
            k'.wait[tgt[x]] = k.wait[tgt[x]] /\ u \notin ToSet(k.wait[tgt[x]]),
         \/ s \in Resched
         \/ isr' = isr /\ lag' = lag /\ u # t /\ (k'.stat[u] # "READY" \/ u \in InTransit')
  PROVE  LaterInv'
<1>1. t = k.cur /\ k.cur \in Threads
  BY Caller
<1>2. pc'[t] = s /\ \A x \in Threads \ {t} : pc'[x] = pc[x]
  BY DEF IInv, TypeOK
<1>3. SleepInv'
  BY <1>2, SleepTouch DEF LaterInv
<1>4. TearDownInv'
  <2>1. \A x \in Threads : tgt'[x] \in Waits => tgt'[x] = tgt[x]
    OBVIOUS
  <2>2. \A x \in Threads : Section(pc'[x]) \in {"check", "drain"} =>
           pc'[x] = pc[x] /\ tgt'[x] = tgt[x]
    BY <1>2
  <2> QED
    BY <2>1, <2>2, TearDownTouch DEF LaterInv
<1>5. UrgentInv'
  <2>1. k'.cur = t
    BY <1>1 DEF OnlyWords
  <2>2. CASE s \in Resched
    BY <1>2, <2>1, <2>2, UrgentLater DEF Pending
  <2>3. CASE ~ (s \in Resched)
    <3>1. ~ Pending
      BY <1>1, PcSets, IsrSets DEF Pending
    <3> QED
      BY <1>1, <2>3, <3>1, UrgentTouch DEF LaterInv
  <2> QED
    BY <2>2, <2>3
<1> QED
  BY <1>3, <1>4, <1>5 DEF LaterInv

-----------------------------------------------------------------------------
(* Calls on the calling thread *)

\* A call that only touches the caller and goes on to rt_schedule.
LEMMA OwnCall ==
  ASSUME IInv, LaterInv, NEW t \in Threads, isr = << >>, cpu.exec = t, pc[t] = << >>,
         OnlyWords(k, k', t),
         \A x \in Threads : tgt[x] \in Waits => k'.wait[tgt[x]] = k.wait[tgt[x]],
         \A x \in Threads \ {t} : TimerOn(tm', x) <=> TimerOn(tm, x),
         NEW s \in PcShapes, pc' = [pc EXCEPT ![t] = s], s \in Resched,
         Section(s) \notin {"check", "drain"}, s \in Sleeping => TimerOn(tm', t), tgt' = tgt
  PROVE  LaterInv'
<1>1. k.stat[t] = "RUNNING" /\ tgt[t] = NoThread
  BY Caller
<1>2. \A w \in Waits : t \notin ToSet(k.wait[w])
  BY <1>1, Unwaited
<1>3. tgt'[t] \notin Waits
  BY <1>1, TargetAssumption DEF ThreadOrNull
<1>4. InTransit' = InTransit
  BY DEF InTransit
<1>5. pc'[t] = s
  BY DEF IInv, TypeOK
<1>6. /\ s \in Sleeping => t = t
      /\ k'.stat[t] # "SUSPEND" \/ pc'[t] \notin Sleeping \/ TimerOn(tm', t) \/ t \in InTransit'
      /\ InTransit \ {t} \subseteq InTransit' /\ \A x \in Threads \ {t} : tgt'[x] = tgt[x]
  BY <1>4, <1>5
<1>7. \A x \in Threads : tgt[x] \in Waits =>
        k'.wait[tgt[x]] = k.wait[tgt[x]] /\ t \notin ToSet(k.wait[tgt[x]])
  BY <1>2
<1> QED
  BY <1>3, <1>6, <1>7, CallTouch

\* The sections that follow a call on the caller.
LEMMA OwnShapes ==
  /\ <<"sched">> \in PcShapes \cap Resched /\ <<"sched", "ret">> \in PcShapes \cap Resched
  /\ <<"eintr", "sched", "slept">> \in PcShapes \cap Resched
  /\ Section(<<"sched">>) = "sched" /\ Section(<<"sched", "ret">>) = "sched"
  /\ Section(<<"eintr", "sched", "slept">>) = "eintr"
  BY SectionFacts DEF PcShapes, Resched

\* What a touched kernel state says of lists being torn down.
LEMMA TouchedLists ==
  ASSUME NEW u \in Threads, Touches(k, k', u)
  PROVE  /\ OnlyWords(k, k', u)
         /\ \A x \in Threads : tgt[x] \in Waits /\ u \notin ToSet(k.wait[tgt[x]]) =>
               k'.wait[tgt[x]] = k.wait[tgt[x]]
  BY DEF Touches

\* rt_thread_yield, rt_thread_sleep, rt_thread_suspend and _thread_exit.
LEMMA OwnLater ==
  ASSUME IInv, LaterInv, NEW t \in Threads,
         \/ Yield(t) \/ SuspendSelf(t) \/ Exit(t) \/ \E n \in Times : Sleep(t, n)
  PROVE  LaterInv'
<1>1. isr = << >> /\ cpu.exec = t /\ pc[t] = << >> /\ tgt' = tgt
  BY DEF Yield, SuspendSelf, Exit, Sleep, Calls
<1>2. Fields(k)
  BY KernelFields DEF IInv, TypeOK
<1>3. \A w \in Waits : t \notin ToSet(k.wait[w])
  BY <1>1, Caller, Unwaited
<1>4. Touches(k, k', t)
  <2>1. CASE Yield(t)
    BY <1>2, <2>1 DEF Yield, Touches, OnlyWords, Fields
  <2>2. CASE ~ Yield(t)
    BY <1>2, <2>2, TouchOps DEF SuspendSelf, Exit, Sleep
  <2> QED
    BY <2>1, <2>2
<1>5. /\ OnlyWords(k, k', t)
      /\ \A x \in Threads : tgt[x] \in Waits => k'.wait[tgt[x]] = k.wait[tgt[x]]
  BY <1>3, <1>4, TouchedLists
<1>6. CASE Yield(t) \/ SuspendSelf(t) \/ Exit(t)
  <2>1. pc' = [pc EXCEPT ![t] = <<"sched">>] /\ (tm' = tm \/ tm' = TimerStop(tm, t))
    BY <1>6 DEF Yield, SuspendSelf, Exit, Call
  <2>2. \A x \in Threads \ {t} : TimerOn(tm', x) <=> TimerOn(tm, x)
    BY <2>1, TimerTouch
  <2>3. <<"sched">> \notin Sleeping
    BY PcSets
  <2> QED
    BY <1>1, <1>5, <2>1, <2>2, <2>3, OwnCall, OwnShapes
<1>7. ASSUME NEW n \in Times, Sleep(t, n) PROVE LaterInv'
  <2>1. n \in Nat
    BY BoundAssumption DEF Times
  <2>2. pc' = [pc EXCEPT ![t] = <<"eintr", "sched", "slept">>]
        /\ tm' = TimerStart(TimerStop(tm, t), t, n)
    BY <1>7 DEF Sleep, Call
  <2>3. TimerOn(tm', t) /\ \A x \in Threads \ {t} : TimerOn(tm', x) <=> TimerOn(tm, x)
    BY <2>1, <2>2, TimerTouch
  <2> QED
    BY <1>1, <1>5, <2>2, <2>3, OwnCall, OwnShapes
<1> QED
  BY <1>6, <1>7

\* The blocking path of an IPC call joins a list that is not being torn down.
LEMMA BlockLater ==
  ASSUME IInv, LaterInv, NEW t \in Threads, NEW w \in Waits, NEW n \in Times \cup {0}, Block(t, w, n)
  PROVE  LaterInv'
<1>1. isr = << >> /\ cpu.exec = t /\ pc[t] = << >> /\ tgt' = tgt /\ ~ Draining(w)
      /\ k' = IpcListSuspend(k, t, w) /\ pc' = [pc EXCEPT ![t] = <<"sched", "ret">>]
      /\ (tm' = TimerStop(tm, t) \/ tm' = TimerStart(TimerStop(tm, t), t, n))
  BY DEF Block, Calls, Call
<1>2. Fields(k)
  BY KernelFields DEF IInv, TypeOK
<1>3. \A v \in Waits : t \notin ToSet(k.wait[v])
  BY <1>1, Caller, Unwaited
<1>4. OnlyWords(k, k', t) /\ \A v \in Waits \ {w} : k'.wait[v] = k.wait[v]
  BY <1>1, <1>2, <1>3, TouchSuspend
<1>5. \A x \in Threads : tgt[x] \in Waits => k'.wait[tgt[x]] = k.wait[tgt[x]]
  BY <1>1, <1>4 DEF Draining
<1>6. n \in Nat
  BY BoundAssumption DEF Times
<1>7. \A x \in Threads \ {t} : TimerOn(tm', x) <=> TimerOn(tm, x)
  BY <1>1, <1>6, TimerTouch
<1>8. <<"sched", "ret">> \notin Sleeping
  BY PcSets
<1> QED
  BY <1>1, <1>4, <1>5, <1>7, <1>8, OwnCall, OwnShapes

\* rt_enter_critical and rt_exit_critical.
LEMMA LockLater ==
  ASSUME IInv, LaterInv, NEW t \in Threads, EnterCritical(t) \/ ExitCritical(t)
  PROVE  LaterInv'
<1>1. isr = << >> /\ cpu.exec = t /\ pc[t] = << >> /\ tgt' = tgt /\ tm' = tm
  BY DEF EnterCritical, ExitCritical, Calls
<1>2. t = k.cur /\ k \in KernelState
  BY <1>1, Caller DEF IInv, TypeOK
<1>3. k'.stat = k.stat /\ k'.wait = k.wait /\ k'.cur = k.cur
  BY <1>2 DEF EnterCritical, ExitCritical, KernelState
<1>4. \A x \in Threads : pc'[x] = pc[x] \/ pc'[x] \in {<<"sched">>, << >>}
  BY DEF EnterCritical, ExitCritical, Call, IInv, TypeOK
<1>5. InTransit' = InTransit
  BY <1>1 DEF InTransit
<1>6. SleepInv'
  BY <1>1, <1>3, <1>4, <1>5, PcSets DEF LaterInv, SleepInv
<1>7. TearDownInv'
  <2>1. \A x \in Threads : Section(pc'[x]) \in {"check", "drain"} => pc'[x] = pc[x]
    BY <1>4, SectionFacts
  <2> QED
    BY <1>1, <1>3, <2>1 DEF LaterInv, TearDownInv, PcAt
<1>8. UrgentInv'
  <2>1. k.lock \in Nat
    BY <1>2 DEF KernelState
  <2>2. CASE EnterCritical(t)
    <3>1. k'.lock = k.lock + 1
      BY <1>2, <2>2 DEF EnterCritical, KernelState
    <3> QED
      BY <2>1, <3>1, UrgentLater
  <2>3. CASE ExitCritical(t) /\ k.lock <= 1
    <3>1. pc'[k'.cur] = <<"sched">>
      BY <1>2, <1>3, <2>3 DEF ExitCritical, Call, IInv, TypeOK
    <3> QED
      BY <3>1, OwnShapes, UrgentLater DEF Pending
  <2>4. CASE ExitCritical(t) /\ ~ (k.lock <= 1)
    <3>1. k'.lock = k.lock - 1
      BY <1>2, <2>1, <2>4 DEF ExitCritical, KernelState
    <3> QED
      BY <2>1, <2>4, <3>1, UrgentLater
  <2> QED
    BY <2>2, <2>3, <2>4
<1> QED
  BY <1>6, <1>7, <1>8 DEF LaterInv

-----------------------------------------------------------------------------
(* Calls on other threads *)

\* A call by t that unlinks u, to insert or to close it in its next section.
LEMMA GrabLater ==
  ASSUME IInv, LaterInv, NEW t \in Threads \ {Idle}, isr = << >>, cpu.exec = t, pc[t] = << >>,
         NEW u \in Threads \ {t}, Undisturbed(u), Touches(k, k', u),
         tm' = tm \/ tm' = TimerStop(tm, u), isr' = isr, lag' = lag,
         tgt' = [tgt EXCEPT ![t] = u],
         NEW s \in {<<"insert">>, <<"insert", "sched">>, <<"close">>, <<"close", "sched">>},
         pc' = [pc EXCEPT ![t] = s]
  PROVE  LaterInv'
<1>1. tgt[t] = NoThread /\ tgt \in [Threads -> ThreadOrNull \cup Waits]
  BY Caller DEF IInv, TypeOK
<1>2. InTransit' = InTransit \cup {u}
  BY <1>1, TransitAdd, ThreadsAssumption
<1>3. tgt'[t] = u /\ \A x \in Threads \ {t} : tgt'[x] = tgt[x]
  BY <1>1
<1>4. u \notin Waits
  BY TargetAssumption DEF ThreadOrNull
<1>5. OnlyWords(k, k', u)
  BY TouchedLists
<1>6. \A x \in Threads : tgt[x] \in Waits =>
        k'.wait[tgt[x]] = k.wait[tgt[x]] /\ u \notin ToSet(k.wait[tgt[x]])
  BY Unwaited, TouchedLists DEF Undisturbed
<1>7. \A x \in Threads \ {u} : TimerOn(tm', x) <=> TimerOn(tm, x)
  BY TimerTouch
<1>8. s \in PcShapes /\ Section(s) \notin {"check", "drain"} /\ s \notin Sleeping
  BY PcSets, SectionFacts DEF PcShapes
<1>9. u \in InTransit' /\ InTransit \ {u} \subseteq InTransit' /\ tgt'[t] \notin Waits /\ u # t
  BY <1>2, <1>3, <1>4
<1> QED
  BY <1>3, <1>5, <1>6, <1>7, <1>8, <1>9, CallTouch

\* rt_thread_startup and rt_thread_resume, up to the gap.
LEMMA StartLater ==
  ASSUME IInv, LaterInv, NEW t \in Threads \ {Idle}, NEW u \in Threads,
         Startup(t, u) \/ ResumeThread(t, u)
  PROVE  LaterInv'
<1>1. /\ isr = << >> /\ cpu.exec = t /\ pc[t] = << >> /\ Undisturbed(u)
      /\ k.stat[u] \in {"INIT", "SUSPEND"} /\ tgt' = [tgt EXCEPT ![t] = u] /\ isr' = isr /\ lag' = lag
      /\ tm' = TimerStop(tm, u)
  BY DEF Startup, ResumeThread, Calls
<1>2. u \in Threads \ {t}
  BY <1>1, Caller
<1>3. Fields(k)
  BY KernelFields DEF IInv, TypeOK
<1>4. CASE Startup(t, u)
  <2> DEFINE y == [k EXCEPT !.mask[u] = {k.prio[u]}, !.stat[u] = "SUSPEND", !.yld[u] = FALSE]
  <2>1. k' = ListRemove(y, u) /\ pc' = [pc EXCEPT ![t] = <<"insert", "sched">>]
    BY <1>4 DEF Startup, Call
  <2>2. Touches(k, y, u) /\ y.wait = k.wait /\ Fields(y)
    BY <1>3 DEF Touches, OnlyWords, Fields
  <2> HIDE DEF y
  <2>3. Touches(y, k', u)
    BY <2>1, <2>2, TouchBasic
  <2>4. Touches(k, k', u)
    BY <2>2, <2>3, TouchTwice
  <2> QED
    BY <1>1, <1>2, <2>1, <2>4, GrabLater
<1>5. CASE ResumeThread(t, u)
  <2>1. Touches(k, k', u) /\ pc' = [pc EXCEPT ![t] = <<"insert">>]
    BY <1>3, <1>5, TouchBasic DEF ResumeThread, Call
  <2> QED
    BY <1>1, <1>2, <2>1, GrabLater
<1> QED
  BY <1>4, <1>5

\* rt_thread_delete, rt_thread_detach and RT_THREAD_CTRL_CLOSE, up to the gap.
LEMMA CloseLater ==
  ASSUME IInv, LaterInv, NEW t \in Threads \ {Idle}, NEW u \in Threads,
         Delete(t, u) \/ ControlClose(t, u)
  PROVE  LaterInv'
<1>1. PICK s \in {<<"close">>, <<"close", "sched">>} :
        BeginClose(t, u, s) /\ (u = t => s = <<"close", "sched">>)
  BY DEF Delete, ControlClose
<1>2. isr = << >> /\ cpu.exec = t /\ pc[t] = << >> /\ Undisturbed(u)
  BY DEF Delete, ControlClose, Calls
<1>3. /\ tgt' = [tgt EXCEPT ![t] = u] /\ isr' = isr /\ lag' = lag /\ tm' = tm
      /\ pc' = [pc EXCEPT ![t] = s]
      /\ k' = (IF k.stat[u] = "INIT" THEN k ELSE RemoveThread(k, u))
  BY <1>1 DEF BeginClose, Call
<1>4. Fields(k)
  BY KernelFields DEF IInv, TypeOK
<1>5. Touches(k, k', u)
  <2>1. Touches(k, k, u)
    BY <1>4 DEF Touches, OnlyWords
  <2> QED
    BY <1>3, <1>4, <2>1, TouchBasic
<1>6. CASE u # t
  BY <1>2, <1>3, <1>5, <1>6, GrabLater
<1>7. CASE u = t
  <2>1. tgt[t] = NoThread /\ tgt \in [Threads -> ThreadOrNull \cup Waits]
    BY <1>2, Caller DEF IInv, TypeOK
  <2>2. InTransit' = InTransit
    BY <1>3, <1>7, <2>1, TransitSame, ThreadsAssumption
  <2>3. tgt'[t] \notin Waits /\ \A x \in Threads \ {t} : tgt'[x] = tgt[x]
    BY <1>3, <1>7, <2>1, TargetAssumption DEF ThreadOrNull
  <2>4. /\ s \in PcShapes /\ Section(s) \notin {"check", "drain"} /\ s \notin Sleeping
        /\ s \in Resched
    BY <1>1, <1>7, PcSets, SectionFacts DEF PcShapes, Resched
  <2>5. \A x \in Threads : tgt[x] \in Waits =>
          k'.wait[tgt[x]] = k.wait[tgt[x]] /\ u \notin ToSet(k.wait[tgt[x]])
    BY <1>2, <1>5, Unwaited, TouchedLists DEF Undisturbed
  <2>6. OnlyWords(k, k', u) /\ \A x \in Threads \ {u} : TimerOn(tm', x) <=> TimerOn(tm, x)
    BY <1>3, <1>5, TouchedLists
  <2>7. pc'[u] \notin Sleeping /\ InTransit \ {u} \subseteq InTransit'
    BY <1>3, <1>7, <2>2, <2>4 DEF IInv, TypeOK
  <2> QED
    BY <1>2, <1>3, <2>3, <2>4, <2>5, <2>6, <2>7, CallTouch
<1> QED
  BY <1>6, <1>7

\* A thread resumed from a list that is not being torn down, rt_schedule to
\* follow.
LEMMA WakeLater ==
  ASSUME IInv, LaterInv, NEW u \in Threads, k.stat[u] = "SUSPEND", k' = Resume(k, u),
         tm' = TimerStop(tm, u), tgt' = tgt, lag' \/ Pending',
         \A x \in Threads : tgt[x] \in Waits => u \notin ToSet(k.wait[tgt[x]]),
         \A x \in Threads : pc'[x] = pc[x] \/ pc'[x] = <<"sched">>
  PROVE  LaterInv'
<1>1. KernelOK(k, InTransit) /\ Fields(k) /\ k \in KernelState
  BY KernelFields DEF IInv, TypeOK
<1>2. Restat(k, k', u, IF u = k.cur THEN "RUNNING" ELSE "READY")
  BY <1>1, ResumeOK
<1>3. k'.stat[u] # "SUSPEND"
  BY <1>1, <1>2 DEF Restat, KernelState
<1>4. Touches(k, k', u)
  BY <1>1, TouchOps
<1>5. OnlyWords(k, k', u) /\ \A x \in Threads : tgt[x] \in Waits => k'.wait[tgt[x]] = k.wait[tgt[x]]
  BY <1>4, TouchedLists
<1>6. \A x \in Threads \ {u} : TimerOn(tm', x) <=> TimerOn(tm, x)
  BY TimerTouch
<1>7. InTransit' = InTransit
  BY DEF InTransit
<1>8. \A x \in Threads : /\ pc'[x] \in Sleeping => pc'[x] = pc[x]
                         /\ Section(pc'[x]) \in {"check", "drain"} => pc'[x] = pc[x]
  BY PcSets, SectionFacts
<1>9. SleepInv'
  BY <1>3, <1>5, <1>6, <1>7, <1>8, SleepTouch DEF LaterInv
<1>10. TearDownInv'
  BY <1>5, <1>6, <1>8, TearDownTouch DEF LaterInv
<1>11. UrgentInv'
  BY UrgentLater
<1> QED
  BY <1>9, <1>10, <1>11 DEF LaterInv

\* The first waiter of a list that is not being torn down.
LEMMA FirstLater ==
  ASSUME IInv, NEW w \in Waits, NEW e \in Errors, WakeFirst(w, e)
  PROVE  /\ Head(k.wait[w]) \in ToSet(k.wait[w])
         /\ ~ Draining(w) => \A x \in Threads : tgt[x] \in Waits => Head(k.wait[w]) \notin ToSet(k.wait[tgt[x]])
<1>1. Holds(k.wait[w], ToSet(k.wait[w])) /\ k.wait[w] # << >>
  BY DEF IInv, KernelOK, LinksOK, WakeFirst
<1>2. Head(k.wait[w]) \in ToSet(k.wait[w]) /\ Head(k.wait[w]) \in Threads
  BY <1>1, HoldsFacts
<1> QED
  BY <1>2, Unwaited

\* _ipc_list_resume called by a thread.
LEMMA WakeCallLater ==
  ASSUME IInv, LaterInv, NEW t \in Threads, NEW w \in Waits, Wake(t, w)
  PROVE  LaterInv'
<1> DEFINE u == Head(k.wait[w])
<1>1. WakeFirst(w, "EOK") /\ ~ Draining(w) /\ t = k.cur
  BY Caller DEF Wake, Calls
<1>2. u \in Threads /\ k.stat[u] = "SUSPEND" /\ k' = Resume(k, u) /\ tm' = TimerStop(tm, u)
  BY <1>1, FirstWaiter, ErrorsFacts
<1>3. \A x \in Threads : tgt[x] \in Waits => u \notin ToSet(k.wait[tgt[x]])
  BY <1>1, FirstLater, ErrorsFacts
<1> HIDE DEF u
<1>4. pc' = [pc EXCEPT ![t] = <<"sched">>] /\ tgt' = tgt
  BY DEF Wake, Call
<1>5. pc'[t] = <<"sched">> /\ \A x \in Threads : pc'[x] = pc[x] \/ pc'[x] = <<"sched">>
  BY <1>4 DEF IInv, TypeOK
<1>6. k'.cur = k.cur
  <2>1. Fields(k)
    BY KernelFields DEF IInv, TypeOK
  <2> QED
    BY <1>2, <2>1, TouchOps DEF Touches, OnlyWords
<1>7. Pending'
  BY <1>1, <1>5, <1>6, OwnShapes DEF Pending
<1> QED
  BY <1>2, <1>3, <1>4, <1>5, <1>7, WakeLater

\* rt_thread_create and rt_thread_init.
LEMMA CreateLater ==
  ASSUME IInv, LaterInv, NEW t \in Threads, NEW u \in Threads, NEW p \in Prio, CreateThread(t, u, p)
  PROVE  LaterInv'
<1>1. /\ isr = << >> /\ cpu.exec = t /\ pc[t] = << >> /\ k.stat[u] = "NONE" /\ isr' = isr
      /\ k' = ThreadInit(k, u, p) /\ pc' = [pc EXCEPT ![u] = << >>] /\ tm' = tm /\ tgt' = tgt
      /\ lag' = lag
  BY DEF CreateThread, Create, Calls, Call
<1>2. t = k.cur /\ u # k.cur /\ Fields(k) /\ k \in KernelState
  BY <1>1, Caller, KernelFields DEF IInv, TypeOK
<1>3. Touches(k, k', u)
  BY <1>1, <1>2, TouchOps
<1>4. k'.stat[u] = "INIT"
  BY <1>1, <1>2 DEF ThreadInit, KernelState
<1>5. \A w \in Waits : u \notin ToSet(k.wait[w])
  BY <1>1, Unwaited
<1>6. OnlyWords(k, k', u) /\ \A x \in Threads : tgt[x] \in Waits => k'.wait[tgt[x]] = k.wait[tgt[x]]
  BY <1>3, <1>5, TouchedLists
<1>7. InTransit' = InTransit
  BY <1>1 DEF InTransit
<1>8. pc'[u] = << >> /\ \A x \in Threads \ {u} : pc'[x] = pc[x]
  BY <1>1 DEF IInv, TypeOK
<1>9. SleepInv'
  BY <1>1, <1>4, <1>6, <1>7, <1>8, SleepTouch DEF LaterInv
<1>10. TearDownInv'
  <2>1. \A x \in Threads : Section(pc'[x]) \in {"check", "drain"} => pc'[x] = pc[x]
    BY <1>8, SectionFacts
  <2> QED
    BY <1>1, <1>5, <1>6, <2>1, TearDownTouch DEF LaterInv
<1>11. UrgentInv'
  <2>1. ~ Pending
    BY <1>1, <1>2, PcSets, IsrSets DEF Pending
  <2> QED
    BY <1>1, <1>2, <1>4, <1>6, <1>7, <2>1, UrgentTouch DEF LaterInv
<1> QED
  BY <1>9, <1>10, <1>11 DEF LaterInv

\* RT_THREAD_CTRL_CHANGE_PRIORITY.
LEMMA SetPriorityLater ==
  ASSUME IInv, LaterInv, NEW t \in Threads, NEW u \in Threads, NEW p \in Prio, SetPriority(t, u, p)
  PROVE  LaterInv'
<1>1. /\ isr = << >> /\ cpu.exec = t /\ pc[t] = << >> /\ NotTarget(u) /\ k' = ChangePriority(k, u, p)
      /\ pc' = pc /\ tm' = tm /\ tgt' = tgt /\ lag' = TRUE
  BY DEF SetPriority, Calls
<1>2. t = k.cur /\ k.stat[t] = "RUNNING" /\ Fields(k) /\ KernelOK(k, InTransit) /\ u \notin InTransit
  BY <1>1, Caller, KernelFields, FreeThread DEF IInv, TypeOK
<1>3. SameStats(k, k')
  BY <1>1, <1>2, ChangePriorityOK
<1>4. Touches(k, k', u)
  BY <1>1, <1>2, TouchOps
<1>5. \A x \in Threads : tgt[x] \in Waits =>
        k'.wait[tgt[x]] = k.wait[tgt[x]] /\ u \notin ToSet(k.wait[tgt[x]])
  BY <1>1, <1>4, Unwaited, TouchedLists
<1>6. SleepInv'
  BY <1>1, <1>3 DEF LaterInv, SleepInv, SameStats, InTransit
<1>7. TearDownInv'
  BY <1>1, <1>5, TearDownTouch DEF LaterInv
<1>8. UrgentInv'
  BY <1>1, UrgentLater
<1> QED
  BY <1>6, <1>7, <1>8 DEF LaterInv

\* _ipc_list_resume_all begins: nobody else is tearing w down, and with
\* interrupts enabled no waiter has a timeout.
LEMMA TearLater ==
  ASSUME IInv, LaterInv, NEW t \in Threads, NEW w \in Waits, WakeAll(t, w) \/ WakeAllAtomic(t, w)
  PROVE  LaterInv'
<1>1. /\ isr = << >> /\ cpu.exec = t /\ pc[t] = << >> /\ ~ Draining(w) /\ k' = k /\ tm' = tm
      /\ tgt' = [tgt EXCEPT ![t] = w] /\ lag' = lag
  BY DEF WakeAll, BeginWakeAll, WakeAllAtomic, Calls
<1>2. t = k.cur /\ tgt[t] = NoThread /\ tgt \in [Threads -> ThreadOrNull \cup Waits]
  BY <1>1, Caller DEF IInv, TypeOK
<1>3. PICK s \in {<<"check">>, <<"sched">>} :
        /\ pc' = [pc EXCEPT ![t] = s]
        /\ s = <<"check">> => isr' = isr /\ \A u \in ToSet(k.wait[w]) : ~ TimerOn(tm, u)
  BY DEF WakeAll, BeginWakeAll, WakeAllAtomic, Call
<1>4. pc'[t] = s /\ \A x \in Threads \ {t} : pc'[x] = pc[x]
  BY <1>3 DEF IInv, TypeOK
<1>5. tgt'[t] = w /\ (\A x \in Threads \ {t} : tgt'[x] = tgt[x]) /\ (\A x \in Threads : tgt[x] # w)
  BY <1>1, <1>2 DEF Draining
<1>6. InTransit' = InTransit
  BY <1>1, <1>2, TransitSame, TargetAssumption, ThreadsAssumption DEF ThreadOrNull
<1>7. SleepInv'
  BY <1>1, <1>3, <1>4, <1>6, PcSets DEF LaterInv, SleepInv
<1>8. TearDownInv'
  <2>1. \A x, y \in Threads : tgt'[x] = tgt'[y] /\ tgt'[x] \in Waits => x = y
    BY <1>5 DEF LaterInv, TearDownInv
  <2>2. \A x \in Threads \ {t} : PcAt(x, {"check", "drain"})' =>
          /\ \A u \in ToSet(k'.wait[tgt'[x]]) : ~ TimerOn(tm', u)
          /\ PcAt(x, {"drain"})' => k'.wait[tgt'[x]] # << >>
    BY <1>1, <1>4, <1>5 DEF LaterInv, TearDownInv, PcAt
  <2>3. /\ PcAt(t, {"check", "drain"})' => \A u \in ToSet(k'.wait[tgt'[t]]) : ~ TimerOn(tm', u)
        /\ ~ PcAt(t, {"drain"})'
    BY <1>1, <1>3, <1>4, <1>5, SectionFacts DEF PcAt
  <2> QED
    BY <2>1, <2>2, <2>3 DEF TearDownInv, PcAt
<1>9. UrgentInv'
  <2>1. CASE s = <<"sched">>
    BY <1>1, <1>2, <1>4, <2>1, OwnShapes, UrgentLater DEF Pending
  <2>2. CASE s = <<"check">>
    <3>1. ~ Pending
      BY <1>1, <1>2, PcSets, IsrSets DEF Pending
    <3> QED
      BY <1>1, <1>3, <1>6, <2>2, <3>1, UrgentSame DEF LaterInv
  <2> QED
    BY <1>3, <2>1, <2>2
<1> QED
  BY <1>7, <1>8, <1>9 DEF LaterInv

\* Every service.
LEMMA ServiceLater ==
  ASSUME IInv, LaterInv, NEW t \in Threads \ {Idle}, Service(t)
  PROVE  LaterInv'
<1>1. CASE \E u \in Threads, p \in Prio : CreateThread(t, u, p) \/ SetPriority(t, u, p)
  BY <1>1, CreateLater, SetPriorityLater
<1>2. CASE \E u \in Threads : \/ Startup(t, u) \/ ResumeThread(t, u) \/ Delete(t, u)
                              \/ ControlClose(t, u)
  BY <1>2, StartLater, CloseLater
<1>3. CASE Yield(t) \/ SuspendSelf(t) \/ Exit(t) \/ \E n \in Times : Sleep(t, n)
  BY <1>3, OwnLater
<1>4. CASE EnterCritical(t) \/ ExitCritical(t)
  BY <1>4, LockLater
<1>5. CASE \E w \in Waits, n \in Times \cup {0} : Block(t, w, n)
  BY <1>5, BlockLater
<1>6. CASE \E w \in Waits : Wake(t, w) \/ WakeAll(t, w) \/ WakeAllAtomic(t, w)
  BY <1>6, WakeCallLater, TearLater
<1> QED
  BY <1>1, <1>2, <1>3, <1>4, <1>5, <1>6 DEF Service

-----------------------------------------------------------------------------
(* rt_schedule *)

\* A READY thread is in the list of its priority, whose bit is set.
LEMMA ReadyBit ==
  ASSUME NEW X, NEW x, KernelOK(x, X), NEW t \in Threads \ X, x.stat[t] = "READY"
  PROVE  x.prio[t] \in x.group
<1> DEFINE p == x.prio[t]
           R == {u \in Threads : x.stat[u] = "READY" /\ x.prio[u] = p /\ u \notin X}
<1>1. p \in Prio
  BY DEF KernelOK, KernelState
<1>2. Holds(x.ready[p], R) /\ t \in R
  BY <1>1 DEF KernelOK, LinksOK
<1> HIDE DEF R
<1>3. x.ready[p] # << >>
  BY <1>2, HoldsFacts
<1> QED
  BY <1>1, <1>3 DEF KernelOK, GroupOK

\* The thread that leaves the processor to the most urgent ready one.
LEMMA SwitchUrgent ==
  ASSUME NEW X, NEW x, KernelOK(x, X), x.cur \in Threads \ X, x.stat[x.cur] # "READY",
         x.group # {}, x.lock = 0
  PROVE  /\ \A w \in Waits : SwitchThread(x).wait[w] = x.wait[w]
         /\ SwitchThread(x).cur = Head(x.ready[HighestReadyPriority(x)])
<1> DEFINE from == x.cur
           to == Head(x.ready[HighestReadyPriority(x)])
           running == x.stat[from] = "RUNNING"
           c == [x EXCEPT !.cur = to, !.yld[from] = @ /\ ~ running]
           q == IF running THEN InsertThread(c, from) ELSE c
           y == SetStat(RemoveThread(q, to), to, "RUNNING")
<1>1. to \in Threads \ X /\ x.stat[to] = "READY"
  BY HighestReady
<1>2. SwitchThread(x) = y
  BY DEF SwitchThread, SetStat
<1>3. Fields(x) /\ \A w \in Waits : to \notin ToSet(x.wait[w])
  BY <1>1, KernelFields DEF KernelOK, LinksOK
<1> HIDE DEF to
<1>4. Fields(c) /\ c.wait = x.wait /\ c.cur = to
  BY <1>3 DEF Fields
<1> HIDE DEF c
<1>5. Fields(q) /\ q.wait = x.wait /\ q.cur = to
  BY <1>4, TouchBasic DEF Touches, OnlyWords
<1> HIDE DEF q
<1>6. Touches(q, RemoveThread(q, to), to) /\ Fields(RemoveThread(q, to))
  BY <1>1, <1>5, TouchBasic DEF Touches
<1>7. /\ Touches(RemoveThread(q, to), y, to) /\ y.wait = RemoveThread(q, to).wait
  BY <1>1, <1>6, TouchBasic
<1>8. Touches(q, y, to)
  BY <1>1, <1>6, <1>7, TouchTwice
<1> HIDE DEF y
<1> QED
  BY <1>2, <1>3, <1>5, <1>8 DEF Touches, OnlyWords, to

\* rt_schedule moves nobody in a wait list, and unlocked it leaves nobody READY
\* who is more urgent than the thread it leaves on the processor.
LEMMA ScheduleUrgent ==
  ASSUME NEW X, NEW x, KernelOK(x, X), x.cur \in Threads \ X, x.stat[x.cur] # "READY",
         NEW y, y = Schedule(x)
  PROVE  /\ \A w \in Waits : y.wait[w] = x.wait[w]
         /\ x.lock = 0 =>
               \A t \in Threads \ X : y.stat[t] = "READY" => y.prio[y.cur] <= y.prio[t]
<1>1. x.prio \in [Threads -> Prio] /\ Prio \subseteq Nat
  BY PrioAssumption DEF KernelOK, KernelState, Prio
<1>2. \A t \in Threads \ X : x.stat[t] = "READY" => x.prio[t] \in x.group
  BY ReadyBit
<1>3. \A p \in Prio : p \in Int
  BY PrioAssumption DEF Prio
<1>4. x.prio[x.cur] \in Prio
  BY <1>1
<1>5. x.prio[x.cur] \in Int /\ \A p \in Prio : p \in Int
  BY <1>3, <1>4
<1>6. CASE x.lock # 0 \/ x.group = {}
  <2>1. y = x
    BY <1>6 DEF Schedule
  <2> QED
    BY <1>2, <1>6, <2>1
<1>7. CASE x.lock = 0 /\ x.group # {} /\ KeepsProcessor(x)
  <2> DEFINE v == [x EXCEPT !.yld[x.cur] = FALSE]
             r == RemoveThread(v, x.cur)
             h == HighestReadyPriority(x)
  <2>1. y = KeepThread(x) /\ x.stat[x.cur] = "RUNNING"
    BY <1>7 DEF Schedule, KeepsProcessor
  <2>2. Scheduled(x, y) /\ y.cur = x.cur
    BY <2>1, KeepThreadOK
  <2>3. y.prio = x.prio /\ y.stat = x.stat
    BY <2>2 DEF Scheduled, Switched
  <2>4. h \in Prio /\ \A g \in x.group : h <= g
    BY <1>7, HighestReady
  <2>5. x.prio[x.cur] <= h
    BY <1>5, <1>7, <2>4 DEF KeepsProcessor
  <2>6. y = SetStat(r, x.cur, "RUNNING")
    BY <2>1 DEF KeepThread, SetStat
  <2>7. Fields(x) /\ \A w \in Waits : x.cur \notin ToSet(x.wait[w])
    BY <2>1, KernelFields DEF KernelOK, LinksOK
  <2>8. Fields(v) /\ v.wait = x.wait
    BY <2>7 DEF Fields
  <2> HIDE DEF v, h
  <2>9. Touches(v, r, x.cur) /\ Fields(r)
    BY <2>8, TouchBasic DEF Touches
  <2> HIDE DEF r
  <2>10. y.wait = r.wait
    BY <2>6, <2>9, TouchBasic
  <2>11. \A w \in Waits : y.wait[w] = x.wait[w]
    BY <2>7, <2>8, <2>9, <2>10 DEF Touches
  <2>12. ASSUME NEW t \in Threads \ X, y.stat[t] = "READY" PROVE y.prio[y.cur] <= y.prio[t]
    <3>1. x.prio[t] \in x.group
      BY <1>2, <2>3, <2>12
    <3>2. h <= x.prio[t] /\ x.prio[t] \in Nat /\ x.prio[x.cur] \in Nat /\ h \in Nat
      BY <1>1, <2>4, <3>1
    <3> QED
      BY <2>2, <2>3, <2>5, <3>2
  <2> QED
    BY <2>11, <2>12
<1>8. CASE x.lock = 0 /\ x.group # {} /\ ~ KeepsProcessor(x)
  <2> DEFINE h == HighestReadyPriority(x)
  <2>1. y = SwitchThread(x)
    BY <1>8 DEF Schedule
  <2>2. Scheduled(x, y) /\ Switched(x, y)
    BY <1>8, <2>1, SwitchThreadOK
  <2>3. (\A w \in Waits : y.wait[w] = x.wait[w]) /\ y.cur = Head(x.ready[h])
    BY <1>8, <2>1, SwitchUrgent
  <2>4. h \in Prio /\ (\A g \in x.group : h <= g) /\ x.prio[Head(x.ready[h])] = h
    BY <1>8, HighestReady
  <2>5. y.prio = x.prio
    BY <2>2 DEF Scheduled
  <2>6. x.stat[x.cur] = "RUNNING" => h <= x.prio[x.cur]
    BY <1>5, <1>8, <2>4 DEF KeepsProcessor
  <2> HIDE DEF h
  <2>7. ASSUME NEW t \in Threads \ X, y.stat[t] = "READY" PROVE y.prio[y.cur] <= y.prio[t]
    <3>1. (t = x.cur /\ x.stat[t] = "RUNNING") \/ x.stat[t] = "READY"
      BY <2>2, <2>7 DEF Switched
    <3>2. h <= x.prio[t]
      BY <1>2, <2>4, <2>6, <3>1
    <3> QED
      BY <2>3, <2>4, <2>5, <3>2
  <2> QED
    BY <2>3, <2>7
<1> QED
  BY <1>6, <1>7, <1>8

\* rt_schedule, from a thread or from a handler.
LEMMA ScheduleLater ==
  ASSUME IInv, LaterInv, k.cur \in Threads, k' = Schedule(k), tm' = tm, tgt' = tgt,
         \A x \in Threads : /\ pc'[x] \in Sleeping => pc[x] \in Sleeping
                            /\ Section(pc'[x]) \in {"check", "drain"} => pc'[x] = pc[x]
  PROVE  LaterInv'
<1>1. k.cur # NoThread
  BY ThreadsAssumption
<1>2. KernelOK(k, InTransit) /\ k.cur \in Threads \ InTransit /\ k.stat[k.cur] # "READY"
  BY <1>1 DEF IInv, CurrentInv
<1>3. Scheduled(k, k')
  BY ScheduleFacts
<1>4. /\ \A w \in Waits : k'.wait[w] = k.wait[w]
      /\ k.lock = 0 =>
            \A t \in Threads \ InTransit : k'.stat[t] = "READY" => k'.prio[k'.cur] <= k'.prio[t]
  BY <1>2, ScheduleUrgent
<1>5. InTransit' = InTransit
  BY DEF InTransit
<1>6. \A x \in Threads : k'.stat[x] = "SUSPEND" => k.stat[x] = "SUSPEND"
  BY <1>3 DEF Scheduled, Switched
<1>7. SleepInv'
  BY <1>5, <1>6 DEF LaterInv, SleepInv
<1>8. TearDownInv'
  <2>1. \A x \in Threads : PcAt(x, {"check", "drain"}) => tgt[x] \in Waits
    BY TearDown
  <2>2. \A x \in Threads : PcAt(x, {"check", "drain"})' =>
          PcAt(x, {"check", "drain"}) /\ pc'[x] = pc[x]
    BY DEF PcAt
  <2>3. ASSUME NEW x \in Threads, PcAt(x, {"check", "drain"})'
        PROVE  /\ \A u \in ToSet(k'.wait[tgt'[x]]) : ~ TimerOn(tm', u)
               /\ PcAt(x, {"drain"})' => k'.wait[tgt'[x]] # << >>
    BY <1>4, <2>1, <2>2, <2>3 DEF LaterInv, TearDownInv, PcAt
  <2>4. \A t, x \in Threads : tgt'[t] = tgt'[x] /\ tgt'[t] \in Waits => t = x
    BY DEF LaterInv, TearDownInv
  <2> QED
    BY <2>3, <2>4 DEF TearDownInv, PcAt
<1>9. UrgentInv'
  BY <1>3, <1>4, <1>5 DEF UrgentInv, Urgent, Scheduled
<1> QED
  BY <1>7, <1>8, <1>9 DEF LaterInv

\* rt_schedule in a call.
LEMMA DoScheduleLater ==
  ASSUME IInv, LaterInv, NEW t \in Threads, DoSchedule(t)
  PROVE  LaterInv'
<1>1. /\ t = k.cur /\ Section(pc[t]) = "sched" /\ pc[t] \in PcShapes
  BY Worker DEF DoSchedule
<1>2. k' = Schedule(k) /\ tm' = tm /\ tgt' = tgt /\ pc' = [pc EXCEPT ![t] = Tail(pc[t])]
  BY DEF DoSchedule, Done
<1>3. pc'[t] = Tail(pc[t]) /\ \A x \in Threads \ {t} : pc'[x] = pc[x]
  BY <1>2 DEF IInv, TypeOK
<1>4. Tail(pc[t]) \in {<< >>, <<"ret">>, <<"slept">>}
  BY <1>1, ShapeFacts
<1>5. Tail(pc[t]) = <<"slept">> => pc[t] \in Sleeping
  <2>1. Tail(<<"sched">>) # <<"slept">> /\ Tail(<<"sched", "ret">>) # <<"slept">>
    OBVIOUS
  <2>2. pc[t] \in {<<"sched">>, <<"sched", "ret">>, <<"sched", "slept">>}
    BY <1>1, SectionFacts DEF PcShapes
  <2> QED
    BY <2>1, <2>2 DEF Sleeping
<1>6. pc'[t] \in Sleeping => pc[t] \in Sleeping
  BY <1>3, <1>4, <1>5, PcSets
<1>7. Section(pc'[t]) \notin {"check", "drain"}
  BY <1>3, <1>4, SectionFacts
<1> QED
  BY <1>1, <1>2, <1>3, <1>6, <1>7, ScheduleLater

-----------------------------------------------------------------------------
(* The remaining sections of a call *)

\* A step that leaves threads, lists and timers alone.
LEMMA QuietLater ==
  ASSUME IInv, LaterInv, k'.stat = k.stat, k'.prio = k.prio, k'.wait = k.wait, k'.cur = k.cur,
         k'.lock = k.lock, tm'.list = tm.list, tgt' = tgt, lag' = lag, Pending' \/ ~ Pending,
         \A x \in Threads : /\ pc'[x] \in Sleeping => pc[x] \in Sleeping
                            /\ Section(pc'[x]) \in {"check", "drain"} => pc'[x] = pc[x]
  PROVE  LaterInv'
<1>1. InTransit' = InTransit
  BY DEF InTransit
<1>2. SleepInv'
  BY <1>1 DEF LaterInv, SleepInv, TimerOn
<1>3. TearDownInv'
  <2>1. ASSUME NEW x \in Threads, PcAt(x, {"check", "drain"})'
        PROVE  /\ \A u \in ToSet(k'.wait[tgt'[x]]) : ~ TimerOn(tm', u)
               /\ PcAt(x, {"drain"})' => k'.wait[tgt'[x]] # << >>
    <3>1. pc'[x] = pc[x]
      BY <2>1 DEF PcAt
    <3> QED
      BY <2>1, <3>1 DEF LaterInv, TearDownInv, PcAt, TimerOn
  <2>2. \A t, x \in Threads : tgt'[t] = tgt'[x] /\ tgt'[t] \in Waits => t = x
    BY DEF LaterInv, TearDownInv
  <2> QED
    BY <2>1, <2>2 DEF TearDownInv, PcAt
<1>4. UrgentInv'
  BY <1>1, UrgentLater, UrgentSame DEF LaterInv
<1> QED
  BY <1>2, <1>3, <1>4 DEF LaterInv

\* rt_thread_sleep sets EINTR, and returns; an IPC call returns.
LEMMA ReturnLater ==
  ASSUME IInv, LaterInv, NEW t \in Threads, DoEintr(t) \/ DoSlept(t) \/ DoReturn(t)
  PROVE  LaterInv'
<1>1. PICK l \in {"eintr", "slept", "ret"} : At(t, l)
  BY DEF DoEintr, DoSlept, DoReturn
<1>2. t = k.cur /\ isr = << >> /\ Section(pc[t]) = l /\ pc[t] \in PcShapes
  BY <1>1, Worker
<1>3. /\ k' = k /\ tm' = tm /\ tgt' = tgt /\ isr' = isr /\ lag' = lag
      /\ pc' = [pc EXCEPT ![t] = Tail(pc[t])]
  BY DEF DoEintr, DoSlept, DoReturn, Done
<1>4. pc'[t] = Tail(pc[t]) /\ \A x \in Threads \ {t} : pc'[x] = pc[x]
  BY <1>3 DEF IInv, TypeOK
<1>5. /\ l = "eintr" => pc[t] = <<"eintr", "sched", "slept">> /\ Tail(pc[t]) = <<"sched", "slept">>
      /\ l = "slept" => pc[t] = <<"slept">> /\ Tail(pc[t]) = << >>
      /\ l = "ret" => pc[t] = <<"ret">> /\ Tail(pc[t]) = << >>
  BY <1>2, ShapeFacts, SectionFacts DEF PcShapes
<1>6. pc'[t] \in Sleeping => pc[t] \in Sleeping
  BY <1>4, <1>5, PcSets DEF Sleeping
<1>7. Section(pc'[t]) \notin {"check", "drain"}
  BY <1>4, <1>5, SectionFacts
<1>8. Pending' \/ ~ Pending
  <2>1. l = "eintr" => pc'[k'.cur] \in Resched
    BY <1>2, <1>3, <1>4, <1>5 DEF Resched
  <2>2. l # "eintr" => pc[k.cur] \notin Resched /\ isr \notin IsrResched
    BY <1>2, <1>5, PcSets, IsrSets
  <2> QED
    BY <2>1, <2>2 DEF Pending
<1> QED
  BY <1>3, <1>4, <1>6, <1>7, <1>8, QuietLater

\* The call of t is done with the thread it works on.
LEMMA FinishLater ==
  ASSUME IInv, LaterInv, NEW t \in Threads, NEW l \in {"insert", "close"}, At(t, l),
         NEW u, u = tgt[t], Touches(k, k', u), k'.stat[u] # "SUSPEND",
         tm' = tm \/ tm' = TimerStop(tm, u),
         tgt' = [tgt EXCEPT ![t] = NoThread], isr' = isr, pc' = [pc EXCEPT ![t] = Tail(pc[t])],
         lag' \/ (k'.stat[u] # "READY" /\ lag' = lag)
  PROVE  LaterInv'
<1>1. t = k.cur /\ isr = << >> /\ Section(pc[t]) = l /\ pc[t] \in PcShapes
  BY Worker
<1>2. u \in Threads /\ tgt \in [Threads -> ThreadOrNull \cup Waits]
  BY <1>1 DEF IInv, TypeOK, TargetInv, TargetKind, PcAt
<1>3. u \in InTransit \/ (u = t /\ k.stat[u] \in {"READY", "RUNNING"} /\ pc[t] = <<"close", "sched">>)
  <2>1. ~ PcAt(t, {"free"})
    BY <1>1 DEF PcAt
  <2> QED
    BY <1>2, <2>1, Targets
<1>4. \A w \in Waits : u \notin ToSet(k.wait[w])
  BY <1>2, <1>3, Unwaited
<1>5. OnlyWords(k, k', u) /\ \A x \in Threads : tgt[x] \in Waits => k'.wait[tgt[x]] = k.wait[tgt[x]]
  BY <1>2, <1>4, TouchedLists
<1>6. \A x \in Threads \ {u} : TimerOn(tm', x) <=> TimerOn(tm, x)
  BY <1>2, TimerTouch
<1>7. tgt'[t] = NoThread /\ \A x \in Threads \ {t} : tgt'[x] = tgt[x]
  BY <1>2
<1>8. InTransit \ {u} \subseteq InTransit'
  BY <1>7 DEF InTransit
<1>9. pc'[t] = Tail(pc[t]) /\ \A x \in Threads \ {t} : pc'[x] = pc[x]
  BY DEF IInv, TypeOK
<1>10. pc'[t] \in {<< >>, <<"sched">>}
  BY <1>1, <1>9, ShapeFacts
<1>11. SleepInv'
  <2>1. \A x \in Threads \ {u} : TimerOn(tm, x) => TimerOn(tm', x)
    BY <1>6
  <2>2. \A x \in Threads \ {u} : pc'[x] \in Sleeping => pc'[x] = pc[x]
    BY <1>9, <1>10, PcSets
  <2>3. SleepInv /\ OnlyWords(k, k', u)
    BY <1>5 DEF LaterInv
  <2> QED
    BY <1>2, <1>8, <2>1, <2>2, <2>3, SleepTouch
<1>12. TearDownInv'
  <2>1. NoThread \notin Waits
    BY TargetAssumption DEF ThreadOrNull
  <2>2. \A x \in Threads : tgt'[x] \in Waits => tgt'[x] = tgt[x]
    BY <1>7, <2>1
  <2>3. \A x \in Threads : Section(pc'[x]) \in {"check", "drain"} =>
          pc'[x] = pc[x] /\ tgt'[x] = tgt[x]
    BY <1>7, <1>9, <1>10, SectionFacts
  <2>4. \A x \in Threads : tgt[x] \in Waits =>
          k'.wait[tgt[x]] = k.wait[tgt[x]] /\ u \notin ToSet(k.wait[tgt[x]])
    BY <1>4, <1>5
  <2>5. \A x \in Threads \ {u} : TimerOn(tm', x) => TimerOn(tm, x)
    BY <1>6
  <2> QED
    BY <1>2, <2>2, <2>3, <2>4, <2>5, TearDownTouch DEF LaterInv
<1>13. UrgentInv'
  <2>1. k'.cur = t
    BY <1>1, <1>5 DEF OnlyWords
  <2>2. CASE lag' \/ pc'[t] = <<"sched">>
    BY <2>1, <2>2, UrgentLater, OwnShapes DEF Pending
  <2>3. CASE ~ lag' /\ pc'[t] # <<"sched">>
    <3>1. Tail(pc[t]) = << >>
      BY <1>9, <1>10, <2>3
    <3>2. pc[t] \in {<<"insert">>, <<"close">>}
      <4>1. /\ Tail(<<"insert", "sched">>) = <<"sched">> /\ Tail(<<"close", "sched">>) = <<"sched">>
            /\ <<"sched">> # << >>
        OBVIOUS
      <4>2. pc[t] \in {<<"insert">>, <<"close">>, <<"insert", "sched">>, <<"close", "sched">>}
        BY <1>1, SectionFacts DEF PcShapes
      <4> QED
        BY <3>1, <4>1, <4>2
    <3>3. ~ Pending
      BY <1>1, <3>2, PcSets, IsrSets DEF Pending
    <3>4. u # k.cur
      <4>1. <<"close", "sched">> \notin {<<"insert">>, <<"close">>}
        OBVIOUS
      <4>2. k.cur \notin InTransit
        BY Worker
      <4> QED
        BY <1>1, <1>3, <3>2, <4>1, <4>2
    <3> QED
      BY <1>1, <1>2, <1>5, <1>8, <2>3, <3>3, <3>4, UrgentTouch DEF LaterInv
  <2> QED
    BY <1>10, <2>2, <2>3
<1> QED
  BY <1>11, <1>12, <1>13 DEF LaterInv

\* The second sections of rt_thread_resume and of rt_thread_delete.
LEMMA InsertCloseLater ==
  ASSUME IInv, LaterInv, NEW t \in Threads, DoInsert(t) \/ DoClose(t)
  PROVE  LaterInv'
<1> DEFINE u == tgt[t]
<1>1. k \in KernelState /\ Fields(k)
  BY KernelFields DEF IInv, TypeOK
<1>2. CASE DoInsert(t)
  <2>1. At(t, "insert")
    BY <1>2 DEF DoInsert
  <2>2. u \in Threads
    BY <2>1, Worker DEF IInv, TargetInv, TargetKind, PcAt
  <2>3. /\ k' = InsertThread(k, u) /\ tm' = tm /\ tgt' = [tgt EXCEPT ![t] = NoThread] /\ isr' = isr
        /\ pc' = [pc EXCEPT ![t] = Tail(pc[t])] /\ lag'
    BY <1>2 DEF DoInsert, Done
  <2> HIDE DEF u
  <2>4. Touches(k, k', u)
    BY <1>1, <2>2, <2>3, TouchBasic
  <2>5. k'.stat[u] # "SUSPEND"
    BY <1>1, <2>2, <2>3 DEF InsertThread, KernelState
  <2> QED
    BY <2>1, <2>3, <2>4, <2>5, FinishLater DEF u
<1>3. CASE DoClose(t)
  <2>1. At(t, "close")
    BY <1>3 DEF DoClose
  <2>2. u \in Threads
    BY <2>1, Worker DEF IInv, TargetInv, TargetKind, PcAt
  <2>3. /\ k' = Close(k, u) /\ tm' = TimerStop(tm, u) /\ tgt' = [tgt EXCEPT ![t] = NoThread]
        /\ isr' = isr /\ pc' = [pc EXCEPT ![t] = Tail(pc[t])] /\ lag' = lag
    BY <1>3 DEF DoClose, Done
  <2> HIDE DEF u
  <2>4. Touches(k, k', u)
    BY <1>1, <2>2, <2>3, TouchBasic
  <2>5. k'.stat[u] = "CLOSE"
    BY <1>1, <2>2, <2>3 DEF Close, KernelState
  <2> QED
    BY <2>1, <2>3, <2>4, <2>5, FinishLater DEF u
<1> QED
  BY <1>2, <1>3

\* _ipc_list_resume_all, the loop test.
LEMMA DoCheckLater ==
  ASSUME IInv, LaterInv, NEW t \in Threads, DoCheck(t)
  PROVE  LaterInv'
<1>1. t = k.cur /\ isr = << >> /\ Section(pc[t]) = "check" /\ pc[t] \in PcShapes
  BY Worker DEF DoCheck
<1>2. pc[t] = <<"check">> /\ Tail(pc[t]) = << >>
  BY <1>1, ShapeFacts
<1>3. tgt[t] \in Waits /\ tgt \in [Threads -> ThreadOrNull \cup Waits]
  BY <1>1 DEF IInv, TypeOK, TargetInv, TargetKind, PcAt
<1>4. k' = k /\ tm' = tm /\ isr' = isr /\ lag' = lag
  BY DEF DoCheck
<1>5. \/ tgt' = [tgt EXCEPT ![t] = NoThread] /\ pc' = [pc EXCEPT ![t] = << >>]
      \/ /\ k.wait[tgt[t]] # << >> /\ tgt' = [tgt EXCEPT ![t] = tgt[t]]
         /\ pc' = [pc EXCEPT ![t] = <<"drain", "check">>]
  BY <1>2, <1>3 DEF DoCheck, Done, Call
<1>6. \A x \in Threads \ {t} : pc'[x] = pc[x] /\ tgt'[x] = tgt[x]
  BY <1>3, <1>5 DEF IInv, TypeOK
<1>7. \/ tgt'[t] = NoThread /\ pc'[t] = << >>
      \/ k.wait[tgt[t]] # << >> /\ tgt'[t] = tgt[t] /\ pc'[t] = <<"drain", "check">>
  BY <1>3, <1>5 DEF IInv, TypeOK
<1>8. NoThread \notin Waits /\ NoThread \notin Threads /\ tgt[t] \notin Threads
  BY <1>3, TargetAssumption, ThreadsAssumption DEF ThreadOrNull
<1>9. InTransit' = InTransit
  BY <1>3, <1>5, <1>8, TransitSame
<1>10. pc'[t] \notin Sleeping
  BY <1>7, PcSets
<1>11. SleepInv'
  BY <1>4, <1>6, <1>9, <1>10 DEF LaterInv, SleepInv
<1>12. TearDownInv'
  <2>1. \A x, y \in Threads : tgt'[x] = tgt'[y] /\ tgt'[x] \in Waits => x = y
    BY <1>6, <1>7, <1>8 DEF LaterInv, TearDownInv
  <2>2. ASSUME NEW x \in Threads \ {t}, PcAt(x, {"check", "drain"})'
        PROVE  /\ \A u \in ToSet(k'.wait[tgt'[x]]) : ~ TimerOn(tm', u)
               /\ PcAt(x, {"drain"})' => k'.wait[tgt'[x]] # << >>
    BY <1>4, <1>6, <2>2 DEF LaterInv, TearDownInv, PcAt
  <2>3. ASSUME PcAt(t, {"check", "drain"})'
        PROVE  /\ \A u \in ToSet(k'.wait[tgt'[t]]) : ~ TimerOn(tm', u)
               /\ k'.wait[tgt'[t]] # << >>
    <3>1. k.wait[tgt[t]] # << >> /\ tgt'[t] = tgt[t]
      BY <1>7, <2>3, SectionFacts DEF PcAt
    <3> QED
      BY <1>1, <1>4, <3>1 DEF LaterInv, TearDownInv, PcAt
  <2>4. \A x \in Threads : PcAt(x, {"check", "drain"})' =>
           /\ \A u \in ToSet(k'.wait[tgt'[x]]) : ~ TimerOn(tm', u)
           /\ PcAt(x, {"drain"})' => k'.wait[tgt'[x]] # << >>
    BY <2>2, <2>3
  <2> QED
    BY <2>1, <2>4 DEF TearDownInv, PcAt
<1>13. UrgentInv'
  <2>1. ~ Pending
    BY <1>1, <1>2, PcSets, IsrSets DEF Pending
  <2> QED
    BY <1>4, <1>9, <2>1, UrgentSame DEF LaterInv
<1> QED
  BY <1>11, <1>12, <1>13 DEF LaterInv

\* Unlinking a thread adds nobody to a wait list.
LEMMA RemovedWaiter ==
  ASSUME NEW X, NEW x \in KernelState, LinksOK(x, X), NEW t \in Threads, NEW w \in Waits
  PROVE  ToSet(ListRemove(x, t).wait[w]) \subseteq ToSet(x.wait[w])
<1>1. Holds(x.wait[w], ToSet(x.wait[w]))
  BY DEF LinksOK
<1>2. Holds(Unlinked(x.wait[w], t), ToSet(x.wait[w]) \ {t})
  BY <1>1, HoldsUnlinked
<1>3. ToSet(Unlinked(x.wait[w], t)) = ToSet(x.wait[w]) \ {t}
  BY <1>2 DEF Holds
<1>4. ListRemove(x, t).wait[w] = Unlinked(x.wait[w], t)
  BY DEF ListRemove, KernelState
<1> QED
  BY <1>3, <1>4

\* The loop body, run by t on the object it tears down: the waiter it resumes
\* waits for no other object, and the waiters that remain were there before.
LEMMA DrainLater ==
  ASSUME IInv, LaterInv, NEW t \in Threads, tgt[t] \in Waits, WakeFirst(tgt[t], "ERROR"),
         tgt' = tgt, lag' \/ Pending', \A x \in Threads \ {t} : pc'[x] = pc[x],
         pc'[t] \in Sleeping => pc'[t] = pc[t], Section(pc'[t]) # "drain",
         Section(pc'[t]) = "check" => PcAt(t, {"check", "drain"})
  PROVE  LaterInv'
<1> DEFINE w == tgt[t]
           u == Head(k.wait[w])
<1>1. KernelOK(k, InTransit) /\ Fields(k) /\ k \in KernelState /\ LinksOK(k, InTransit)
  BY KernelFields DEF IInv, TypeOK, KernelOK
<1>2. u \in Threads /\ k.stat[u] = "SUSPEND" /\ u \in ToSet(k.wait[w]) /\ k' = Resume(k, u)
      /\ tm' = TimerStop(tm, u) /\ w \in Waits /\ u \notin InTransit
  BY FirstWaiter, FirstLater, ErrorsFacts
<1> HIDE DEF u
<1>3. Restat(k, k', u, IF u = k.cur THEN "RUNNING" ELSE "READY")
  BY <1>1, <1>2, ResumeOK
<1>4. k'.stat[u] # "SUSPEND"
  BY <1>1, <1>2, <1>3 DEF Restat, KernelState
<1>5. Touches(k, k', u)
  BY <1>1, <1>2, TouchOps
<1>6. OnlyWords(k, k', u)
  BY <1>2, <1>5, TouchedLists
<1>7. \A x \in Threads \ {u} : TimerOn(tm', x) <=> TimerOn(tm, x)
  BY <1>2, TimerTouch
<1>8. ~ TimerOn(tm', u)
  <2>1. 0 \in Nat
    OBVIOUS
  <2> QED
    BY <1>2, <2>1, TimerTouch
<1>9. \A v \in Waits \ {w} : k'.wait[v] = k.wait[v]
  <2>1. \A v \in Waits \ {w} : u \notin ToSet(k.wait[v])
    BY <1>1, <1>2 DEF LinksOK
  <2> QED
    BY <1>2, <1>5, <2>1 DEF Touches
<1>10. ToSet(k'.wait[w]) \subseteq ToSet(k.wait[w])
  <2>1. PICK l : l = ListRemove(k, u)
    OBVIOUS
  <2>2. ToSet(l.wait[w]) \subseteq ToSet(k.wait[w])
    BY <1>1, <1>2, <2>1, RemovedWaiter
  <2>3. Fields(l) /\ k' = InsertThread(l, u)
    BY <1>1, <1>2, <2>1, TouchBasic DEF Touches, Resume
  <2>4. k'.wait = l.wait
    BY <1>2, <2>3, TouchBasic
  <2> QED
    BY <2>2, <2>4
<1>11. SleepInv'
  <2>1. \A x \in Threads \ {u} : TimerOn(tm, x) => TimerOn(tm', x)
    BY <1>7
  <2>2. InTransit' = InTransit
    BY DEF InTransit
  <2>3. SleepInv
    BY DEF LaterInv
  <2> QED
    BY <1>2, <1>4, <1>6, <2>1, <2>2, <2>3, SleepTouch
<1>12. TearDownInv'
  <2>1. \A x, y \in Threads : tgt'[x] = tgt'[y] /\ tgt'[x] \in Waits => x = y
    BY DEF LaterInv, TearDownInv
  <2>2. ASSUME NEW x \in Threads, PcAt(x, {"check", "drain"})'
        PROVE  /\ \A y \in ToSet(k'.wait[tgt[x]]) : ~ TimerOn(tm', y)
               /\ PcAt(x, {"drain"})' => k'.wait[tgt[x]] # << >>
    <3>1. PcAt(x, {"check", "drain"})
      BY <2>2 DEF PcAt
    <3>2. tgt[x] \in Waits
      BY <3>1, TearDown
    <3>3. ToSet(k'.wait[tgt[x]]) \subseteq ToSet(k.wait[tgt[x]])
      BY <1>9, <1>10, <3>2
    <3>4. ToSet(k.wait[tgt[x]]) \subseteq Threads
      BY <1>1, <3>2 DEF LinksOK, Holds, ToSet
    <3>5. \A y \in ToSet(k.wait[tgt[x]]) : ~ TimerOn(tm, y)
      BY <3>1 DEF LaterInv, TearDownInv
    <3>6. \A y \in ToSet(k'.wait[tgt[x]]) : ~ TimerOn(tm', y)
      BY <1>7, <1>8, <3>3, <3>4, <3>5
    <3>7. ASSUME PcAt(x, {"drain"})' PROVE k'.wait[tgt[x]] # << >>
      <4>1. x # t
        BY <3>7 DEF PcAt
      <4>2. tgt[x] # w
        BY <3>2, <4>1 DEF LaterInv, TearDownInv
      <4>3. PcAt(x, {"drain"})
        BY <3>7, <4>1 DEF PcAt
      <4> QED
        BY <1>9, <3>2, <4>2, <4>3 DEF LaterInv, TearDownInv
    <3> QED
      BY <3>6, <3>7
  <2> QED
    BY <2>1, <2>2 DEF TearDownInv, PcAt
<1>13. UrgentInv'
  BY UrgentLater
<1> QED
  BY <1>11, <1>12, <1>13 DEF LaterInv

\* The loop body with interrupts enabled in between.
LEMMA DoDrainLater ==
  ASSUME IInv, LaterInv, NEW t \in Threads, DoDrain(t)
  PROVE  LaterInv'
<1>1. Section(pc[t]) = "drain" /\ pc[t] \in PcShapes
  BY Worker DEF DoDrain
<1>2. PcAt(t, {"check", "drain"}) /\ tgt[t] \in Waits
  BY <1>1, TearDown DEF PcAt
<1>3. /\ WakeFirst(tgt[t], "ERROR") /\ tgt' = tgt /\ lag'
      /\ pc' = [pc EXCEPT ![t] = Tail(pc[t])]
  BY DEF DoDrain, Done
<1>4. pc'[t] = <<"check">> /\ \A x \in Threads \ {t} : pc'[x] = pc[x]
  BY <1>1, <1>3, ShapeFacts DEF IInv, TypeOK
<1>5. pc'[t] \notin Sleeping /\ Section(pc'[t]) = "check"
  BY <1>4, PcSets, SectionFacts
<1> QED
  BY <1>2, <1>3, <1>4, <1>5, DrainLater

\* Every later section of a call.
LEMMA ContinueLater ==
  ASSUME IInv, LaterInv, NEW t \in Threads, Continue(t)
  PROVE  LaterInv'
  BY DoScheduleLater, ReturnLater, InsertCloseLater, DoCheckLater, DoDrainLater DEF Continue

-----------------------------------------------------------------------------
(* Handlers, and the loop with interrupts off *)

\* The loop of _ipc_list_resume_all in a disabled section.
LEMMA OffLater ==
  ASSUME IInv, DrainInv, LaterInv, OffDrain \/ OffDrained
  PROVE  LaterInv'
<1>1. isr # << >> /\ Head(isr) = "drain"
  BY DEF OffDrain, OffDrained, IsrAt
<1>2. k.cur \in Threads /\ isr = <<"drain">> /\ Tail(isr) = << >>
  BY <1>1, HandlerCur, IsrFacts
<1>3. cpu.exec = k.cur /\ tgt[k.cur] \in Waits /\ tgt \in [Threads -> ThreadOrNull \cup Waits]
  BY <1>2 DEF IInv, TypeOK, CpuInv, TargetInv, TargetKind
<1>4. PcAt(k.cur, {"sched"}) /\ pc' = pc
  BY <1>2 DEF DrainInv, OffDrain, OffDrained
<1>5. pc[k.cur] \in Resched
  <2>1. pc[k.cur] \in PcShapes
    BY <1>2 DEF IInv, Shapes
  <2> QED
    BY <1>4, <2>1, SectionFacts DEF PcAt, PcShapes, Resched
<1>6. CASE OffDrain
  <2>1. WakeFirst(tgt[k.cur], "ERROR") /\ tgt' = tgt
    BY <1>3, <1>6 DEF OffDrain
  <2>2. k'.cur = k.cur
    <3>1. Fields(k)
      BY KernelFields DEF IInv, TypeOK
    <3> QED
      BY <1>3, <2>1, <3>1, FirstWaiter, ErrorsFacts, TouchOps DEF Touches, OnlyWords
  <2>3. Pending'
    BY <1>4, <1>5, <2>2 DEF Pending
  <2>4. Section(pc[k.cur]) = "sched"
    BY <1>4 DEF PcAt
  <2> QED
    BY <1>2, <1>3, <1>4, <2>1, <2>3, <2>4, DrainLater
<1>7. CASE OffDrained
  <2>1. k' = k /\ tm' = tm /\ tgt' = [tgt EXCEPT ![k.cur] = NoThread]
    BY <1>3, <1>7 DEF OffDrained
  <2>2. NoThread \notin Waits /\ NoThread \notin Threads /\ tgt[k.cur] \notin Threads
    BY <1>3, TargetAssumption, ThreadsAssumption DEF ThreadOrNull
  <2>3. InTransit' = InTransit
    BY <1>2, <1>3, <2>1, <2>2, TransitSame
  <2>4. tgt'[k.cur] = NoThread /\ \A x \in Threads \ {k.cur} : tgt'[x] = tgt[x]
    BY <1>2, <1>3, <2>1
  <2>5. SleepInv'
    BY <1>4, <2>1, <2>3 DEF LaterInv, SleepInv
  <2>6. TearDownInv'
    <3>1. \A x, y \in Threads : tgt'[x] = tgt'[y] /\ tgt'[x] \in Waits => x = y
      BY <2>2, <2>4 DEF LaterInv, TearDownInv
    <3>2. \A x \in Threads : PcAt(x, {"check", "drain"}) => tgt'[x] = tgt[x]
      BY <1>4, <2>4 DEF PcAt
    <3> QED
      BY <1>4, <2>1, <3>1, <3>2 DEF LaterInv, TearDownInv, PcAt
  <2>7. UrgentInv'
    BY <1>4, <1>5, <2>1, UrgentLater DEF Pending
  <2> QED
    BY <2>5, <2>6, <2>7 DEF LaterInv
<1> QED
  BY <1>6, <1>7

\* A handler releases an object, resumes a thread, or runs a timeout: the
\* thread that becomes ready waits for no object that is being torn down.
LEMMA IsrWakeLater ==
  ASSUME IInv, LaterInv,
         (\E w \in Waits : IsrWake(w)) \/ (\E u \in Threads : IsrResume(u)) \/ IsrTimeout
  PROVE  LaterInv'
<1>1. isr' \in IsrResched /\ pc' = pc /\ tgt' = tgt
  BY DEF IsrWake, IsrResume, IsrTimeout, IsrResched
<1>2. Pending'
  BY <1>1 DEF Pending
<1>3. ASSUME NEW u \in Threads, k.stat[u] = "SUSPEND", k' = Resume(k, u), tm' = TimerStop(tm, u),
             \A x \in Threads : tgt[x] \in Waits => u \notin ToSet(k.wait[tgt[x]])
      PROVE  LaterInv'
  BY <1>1, <1>2, <1>3, WakeLater
<1>4. ASSUME NEW w \in Waits, IsrWake(w) PROVE LaterInv'
  <2> DEFINE u == Head(k.wait[w])
  <2>1. WakeFirst(w, "EOK") /\ ~ Draining(w)
    BY <1>4 DEF IsrWake
  <2>2. u \in Threads /\ k.stat[u] = "SUSPEND" /\ k' = Resume(k, u) /\ tm' = TimerStop(tm, u)
    BY <2>1, FirstWaiter, ErrorsFacts
  <2>3. \A x \in Threads : tgt[x] \in Waits => u \notin ToSet(k.wait[tgt[x]])
    BY <2>1, FirstLater, ErrorsFacts
  <2> HIDE DEF u
  <2> QED
    BY <1>3, <2>2, <2>3
<1>5. ASSUME NEW u \in Threads, IsrResume(u) PROVE LaterInv'
  <2>1. k.stat[u] = "SUSPEND" /\ k' = Resume(k, u) /\ tm' = TimerStop(tm, u) /\ NotTarget(u)
    BY <1>5 DEF IsrResume
  <2>2. \A x \in Threads : tgt[x] \in Waits => u \notin ToSet(k.wait[tgt[x]])
    BY <2>1, Unwaited
  <2> QED
    BY <1>3, <2>1, <2>2
<1>6. CASE IsrTimeout
  <2> DEFINE u == Head(tm.list)
  <2>1. tm.list # << >> /\ isr # << >> /\ Head(isr) = "timers" /\ k' = Resume(k, u)
        /\ tm' = TimerStop(tm, u)
    BY <1>6 DEF IsrTimeout, TimerDue, IsrAt
  <2>2. u \in ToSet(tm.list)
    <3>1. Holds(tm.list, ToSet(tm.list))
      BY DEF IInv, TimerInv
    <3> QED
      BY <2>1, <3>1, HoldsFacts
  <2>3. u \in Threads /\ k.stat[u] = "SUSPEND" /\ TimerOn(tm, u)
    BY <2>2, TimersNow DEF TimerOn
  <2>4. isr # <<"drain">>
    BY <2>1, HandlerCur, IsrFacts, IsrDistinct
  <2>5. ASSUME NEW x \in Threads, tgt[x] \in Waits PROVE u \notin ToSet(k.wait[tgt[x]])
    <3>1. PcAt(x, {"check", "drain"})
      BY <2>4, <2>5 DEF IInv, TargetInv, TargetKind
    <3> QED
      BY <2>3, <3>1 DEF LaterInv, TearDownInv
  <2> HIDE DEF u
  <2> QED
    BY <1>3, <2>1, <2>3, <2>5
<1> QED
  BY <1>4, <1>5, <1>6

\* rt_schedule in a handler.
LEMMA IsrScheduleLater ==
  ASSUME IInv, LaterInv, IsrSchedule
  PROVE  LaterInv'
<1>1. isr # << >> /\ k' = Schedule(k) /\ tm' = tm /\ tgt' = tgt /\ pc' = pc
  BY DEF IsrSchedule, IsrAt
<1>2. k.cur \in Threads
  BY <1>1, HandlerCur
<1> QED
  BY <1>1, <1>2, ScheduleLater

\* The tick, and a handler that has nothing more to wake.
LEMMA IsrQuietLater ==
  ASSUME IInv, LaterInv, Tick \/ IsrTimersDone \/ IsrLeave
  PROVE  LaterInv'
<1>1. tgt' = tgt /\ pc' = pc /\ lag' = lag /\ k \in KernelState
  BY DEF Tick, IsrTimersDone, IsrLeave, IInv, TypeOK
<1>2. /\ k'.stat = k.stat /\ k'.prio = k.prio /\ k'.wait = k.wait /\ k'.cur = k.cur
      /\ k'.lock = k.lock
  BY <1>1 DEF Tick, IsrTimersDone, IsrLeave, KernelState
<1>3. tm'.list = tm.list
  BY DEF Tick, IsrTimersDone, IsrLeave, TimerTick, TimerState, IInv, TypeOK
<1>4. isr \notin IsrResched
  <2>1. CASE Tick
    BY <2>1, IsrSets DEF Tick, Interrupts
  <2>2. CASE IsrTimersDone \/ IsrLeave
    <3>1. isr # << >> /\ Head(isr) \in {"timers", "leave"}
      BY <2>2 DEF IsrTimersDone, IsrLeave, IsrAt
    <3> QED
      BY <3>1, HandlerCur, IsrFacts, IsrSets
  <2> QED
    BY <2>1, <2>2
<1>5. Pending' \/ ~ Pending
  BY <1>1, <1>2, <1>4 DEF Pending
<1> QED
  BY <1>1, <1>2, <1>3, <1>5, QuietLater

-----------------------------------------------------------------------------
(* The idle thread, and start-up *)

\* rt_thread_defunct_dequeue picks a closed thread.
LEMMA ReapLater ==
  ASSUME IInv, LaterInv, Reap
  PROVE  LaterInv'
<1>1. /\ isr = << >> /\ cpu.exec = Idle /\ pc[Idle] = << >> /\ k.defunct # << >> /\ k' = k /\ tm' = tm
      /\ isr' = isr /\ lag' = lag /\ tgt' = [tgt EXCEPT ![Idle] = Head(k.defunct)]
      /\ pc' = [pc EXCEPT ![Idle] = <<"free">>]
  BY DEF Reap, Call
<1>2. Idle \in Threads /\ tgt \in [Threads -> ThreadOrNull \cup Waits]
  BY ThreadsAssumption DEF IInv, TypeOK
<1>3. Idle = k.cur
  BY <1>1, <1>2, Caller
<1>4. Head(k.defunct) \in Threads
  <2>1. Holds(k.defunct, {u \in Threads : k.stat[u] = "CLOSE" /\ u \notin InTransit})
    BY DEF IInv, KernelOK, LinksOK
  <2> QED
    BY <1>1, <2>1, HoldsFacts
<1>5. Head(k.defunct) \notin Waits
  BY <1>4, TargetAssumption DEF ThreadOrNull
<1>6. InTransit' = InTransit
  BY <1>1, <1>2, TransitSame
<1>7. tgt'[Idle] \notin Waits /\ \A x \in Threads \ {Idle} : tgt'[x] = tgt[x]
  BY <1>1, <1>2, <1>5
<1>8. pc'[Idle] = <<"free">> /\ \A x \in Threads \ {Idle} : pc'[x] = pc[x]
  BY <1>1, <1>2 DEF IInv, TypeOK
<1>9. SleepInv'
  BY <1>1, <1>6, <1>8, PcSets DEF LaterInv, SleepInv
<1>10. TearDownInv'
  <2>1. \A x, y \in Threads : tgt'[x] = tgt'[y] /\ tgt'[x] \in Waits => x = y
    BY <1>7 DEF LaterInv, TearDownInv
  <2>2. \A x \in Threads : Section(pc'[x]) \in {"check", "drain"} => pc'[x] = pc[x] /\ tgt'[x] = tgt[x]
    BY <1>7, <1>8, SectionFacts
  <2> QED
    BY <1>1, <2>1, <2>2 DEF LaterInv, TearDownInv, PcAt
<1>11. UrgentInv'
  <2>1. ~ Pending
    BY <1>1, <1>3, PcSets, IsrSets DEF Pending
  <2> QED
    BY <1>1, <1>6, <2>1, UrgentSame DEF LaterInv
<1> QED
  BY <1>9, <1>10, <1>11 DEF LaterInv

\* rt_defunct_execute frees it.
LEMMA FreeLater ==
  ASSUME IInv, LaterInv, Free
  PROVE  LaterInv'
<1> DEFINE u == tgt[Idle]
<1>1. Idle \in Threads /\ tgt \in [Threads -> ThreadOrNull \cup Waits] /\ At(Idle, "free")
  BY ThreadsAssumption DEF IInv, TypeOK, Free
<1>2. Idle = k.cur /\ isr = << >> /\ PcAt(Idle, {"free"}) /\ k.stat[Idle] = "RUNNING"
      /\ pc[Idle] \in PcShapes
  BY <1>1, Worker, WorkerRuns DEF PcAt
<1>3. u \in Threads /\ k.stat[u] = "CLOSE" /\ u # k.cur
  BY <1>1, <1>2 DEF IInv, TargetInv, TargetKind, TargetStat, PcAt
<1>4. /\ tm' = tm /\ isr' = isr /\ lag' = lag /\ tgt' = [tgt EXCEPT ![Idle] = NoThread]
      /\ pc' = [pc EXCEPT ![Idle] = << >>, ![u] = << >>]
      /\ k' = Reset(ListRemove(k, u), u, "NONE", 0, {})
  BY DEF Free, Reset
<1> HIDE DEF u
<1>5. k \in KernelState /\ Fields(k) /\ KernelOK(k, InTransit) /\ LinksOK(k, InTransit)
  BY KernelFields DEF IInv, TypeOK, KernelOK
<1>6. Touches(k, k', u)
  BY <1>3, <1>4, <1>5, TouchOps
<1>7. k'.stat[u] = "NONE"
  <2>1. PICK l : l = ListRemove(k, u)
    OBVIOUS
  <2>2. l \in KernelState
    BY <1>3, <1>5, <2>1, ListRemoveLinks
  <2> QED
    BY <1>3, <1>4, <2>1, <2>2 DEF Reset, KernelState
<1>8. \A w \in Waits : u \notin ToSet(k.wait[w])
  BY <1>3, Unwaited
<1>9. OnlyWords(k, k', u) /\ \A x \in Threads : tgt[x] \in Waits => k'.wait[tgt[x]] = k.wait[tgt[x]]
  BY <1>3, <1>6, <1>8, TouchedLists
<1>10. InTransit' = InTransit
  BY <1>1, <1>4, TransitSame
<1>11. tgt'[Idle] = NoThread /\ NoThread \notin Waits /\ \A x \in Threads \ {Idle} : tgt'[x] = tgt[x]
  BY <1>1, <1>4, TargetAssumption DEF ThreadOrNull
<1>12. pc'[Idle] = << >> /\ \A x \in Threads : pc'[x] = << >> \/ pc'[x] = pc[x]
  BY <1>1, <1>3, <1>4 DEF IInv, TypeOK
<1>13. SleepInv'
  <2>1. \A x \in Threads \ {u} : pc'[x] \in Sleeping => pc'[x] = pc[x]
    BY <1>12, PcSets
  <2>2. SleepInv /\ InTransit \ {u} \subseteq InTransit'
    BY <1>10 DEF LaterInv
  <2>3. k'.stat[u] # "SUSPEND"
    BY <1>7
  <2> QED
    BY <1>3, <1>4, <1>9, <2>1, <2>2, <2>3, SleepTouch
<1>14. TearDownInv'
  <2>1. \A x \in Threads : tgt'[x] \in Waits => tgt'[x] = tgt[x]
    BY <1>11
  <2>2. \A x \in Threads : Section(pc'[x]) \in {"check", "drain"} => pc'[x] = pc[x] /\ tgt'[x] = tgt[x]
    BY <1>11, <1>12, SectionFacts
  <2>3. \A x \in Threads : tgt[x] \in Waits =>
          k'.wait[tgt[x]] = k.wait[tgt[x]] /\ u \notin ToSet(k.wait[tgt[x]])
    BY <1>8, <1>9
  <2> QED
    BY <1>3, <1>4, <2>1, <2>2, <2>3, TearDownTouch DEF LaterInv
<1>15. UrgentInv'
  <2>1. pc[Idle] = <<"free">>
    BY <1>2, SectionFacts DEF PcAt, PcShapes
  <2>2. ~ Pending
    BY <1>2, <2>1, PcSets, IsrSets DEF Pending
  <2>3. u \in Threads \ {k.cur} /\ k.cur \in Threads
    BY <1>1, <1>2, <1>3
  <2>4. k'.stat[u] # "READY" /\ InTransit \ {u} \subseteq InTransit'
    BY <1>7, <1>10
  <2> QED
    BY <1>4, <1>9, <2>2, <2>3, <2>4, UrgentTouch DEF LaterInv
<1> QED
  BY <1>13, <1>14, <1>15 DEF LaterInv

\* The scheduler starts with the most urgent of the threads created so far.
LEMMA StartUrgent ==
  ASSUME NEW X, NEW x, KernelOK(x, X), x.group # {}, NEW y, y = SchedulerStart(x)
  PROVE  \A t \in Threads \ X : y.stat[t] = "READY" => y.prio[y.cur] <= y.prio[t]
<1> DEFINE h == HighestReadyPriority(x)
           to == Head(x.ready[h])
           v == [x EXCEPT !.cur = to]
           z == SetStat(RemoveThread(v, to), to, "RUNNING")
<1>1. /\ to \in Threads \ X /\ x.stat[to] = "READY" /\ x.prio[to] = h
      /\ \A g \in x.group : h <= g
  BY HighestReady
<1>2. y = [z EXCEPT !.yld[to] = FALSE]
  BY DEF SchedulerStart, SetStat
<1>3. Fields(x)
  BY KernelFields DEF KernelOK
<1> HIDE DEF to, h
<1>4. Fields(v) /\ v.prio = x.prio /\ v.stat = x.stat /\ v.cur = to
  BY <1>3 DEF Fields
<1> HIDE DEF v
<1>5. Touches(v, RemoveThread(v, to), to) /\ RemoveThread(v, to).prio = v.prio
  BY <1>1, <1>4, TouchBasic
<1>6. PICK r : r = RemoveThread(v, to)
  OBVIOUS
<1>7. Fields(r) /\ r.prio = x.prio /\ r.cur = to /\ \A t \in Threads \ {to} : r.stat[t] = x.stat[t]
  BY <1>4, <1>5, <1>6 DEF Touches, OnlyWords
<1>8. z = SetStat(r, to, "RUNNING")
  BY <1>6
<1>9. /\ Fields(z) /\ z.prio = x.prio /\ z.cur = to /\ z.stat[to] = "RUNNING"
      /\ \A t \in Threads \ {to} : z.stat[t] = x.stat[t]
  BY <1>1, <1>7, <1>8 DEF SetStat, Fields
<1> HIDE DEF z
<1>10. /\ y.prio = x.prio /\ y.cur = to /\ y.stat[to] = "RUNNING"
       /\ \A t \in Threads \ {to} : y.stat[t] = x.stat[t]
  BY <1>2, <1>9 DEF Fields
<1>11. ASSUME NEW t \in Threads \ X, y.stat[t] = "READY" PROVE y.prio[y.cur] <= y.prio[t]
  <2>1. x.stat[t] = "READY"
    BY <1>10, <1>11
  <2>2. x.prio[t] \in x.group
    BY <2>1, ReadyBit
  <2> QED
    BY <1>1, <1>10, <2>2
<1> QED
  BY <1>11

\* Before the scheduler starts no call is in progress.
LEMMA BootLater ==
  ASSUME IInv, LaterInv, Boot
  PROVE  LaterInv'
<1>1. k.cur = NoThread /\ tm' = tm /\ pc' = pc /\ tgt' = tgt /\ isr' = isr /\ lag' = lag
  BY DEF Boot, BootThread, BootStart
<1>2. \A t \in Threads : k.stat[t] \in {"NONE", "READY"} /\ tgt[t] = NoThread /\ pc[t] = << >>
  BY <1>1 DEF IInv, CurrentInv
<1>3. NoThread \notin Threads /\ NoThread \notin Waits /\ Idle \in Threads
  BY ThreadsAssumption, TargetAssumption DEF ThreadOrNull
<1>4. SleepInv'
  BY <1>1, <1>2, PcSets DEF SleepInv
<1>5. TearDownInv'
  BY <1>1, <1>2, <1>3, SectionFacts DEF TearDownInv, PcAt
<1>6. UrgentInv'
  <2>1. ASSUME NEW u \in Threads, NEW p \in Prio, BootThread(u, p) PROVE UrgentInv'
    <3>1. /\ KernelOK(k, InTransit) /\ u \in Threads \ InTransit /\ u # k.cur /\ k.stat[u] = "NONE"
          /\ k' = Resume([ThreadInit(k, u, p) EXCEPT !.mask[u] = {p}, !.stat[u] = "SUSPEND"], u)
      BY <1>1, <1>2, <1>3, <2>1 DEF IInv, InTransit, BootThread, Create
    <3>2. StatSet(k, k', u, "READY")
      BY <3>1, BootOK
    <3>3. k'.cur = NoThread
      BY <1>1, <3>2 DEF StatSet
    <3> QED
      BY <3>3 DEF UrgentInv
  <2>2. CASE BootStart
    <3>1. KernelOK(k, InTransit) /\ InTransit = {} /\ InTransit' = {}
      BY <1>1, <1>2, <1>3 DEF IInv, InTransit
    <3>2. k.stat[Idle] = "READY" /\ k' = SchedulerStart(k)
      BY <2>2 DEF BootStart
    <3>3. k.group # {}
      BY <1>3, <3>1, <3>2, ReadyBit
    <3>4. \A t \in Threads \ InTransit' : k'.stat[t] = "READY" => k'.prio[k'.cur] <= k'.prio[t]
      BY <3>1, <3>2, <3>3, StartUrgent
    <3> QED
      BY <3>4 DEF UrgentInv, Urgent
  <2> QED
    BY <2>1, <2>2 DEF Boot
<1> QED
  BY <1>4, <1>5, <1>6 DEF LaterInv

\* The state before the first thread is created.
LEMMA InitLater == Init => LaterInv
<1> SUFFICES ASSUME Init PROVE LaterInv
  OBVIOUS
<1>1. /\ NoThread \notin Waits /\ k.cur = NoThread
      /\ \A t \in Threads : tgt[t] = NoThread /\ pc[t] = << >>
  BY TargetAssumption DEF ThreadOrNull, Init, KernelInit
<1>2. SleepInv /\ UrgentInv
  BY <1>1, PcSets DEF SleepInv, UrgentInv
<1>3. TearDownInv
  BY <1>1, SectionFacts DEF TearDownInv, PcAt
<1> QED
  BY <1>2, <1>3 DEF LaterInv

\* Every step preserves it.
LEMMA LaterKept ==
  ASSUME IInv, DrainInv, LaterInv, Next
  PROVE  LaterInv'
<1>1. CASE IdleLoop
  BY <1>1, ReapLater, FreeLater DEF IdleLoop
<1>2. CASE Interrupt
  BY <1>2, IsrWakeLater, IsrQuietLater DEF Interrupt
<1>3. CASE Handler
  BY <1>3, IsrWakeLater, IsrScheduleLater, IsrQuietLater, OffLater DEF Handler
<1> QED
  BY <1>1, <1>2, <1>3, BootLater, ServiceLater, ContinueLater DEF Next

\* And so does a step of the environment.
LEMMA LaterStutter ==
  ASSUME LaterInv, UNCHANGED vars
  PROVE  LaterInv'
  BY DEF LaterInv, SleepInv, TearDownInv, UrgentInv, Urgent, Pending, InTransit, PcAt, vars

-----------------------------------------------------------------------------
(* The invariant *)

\* The state before the first thread is created.
LEMMA InitOK == Init => IndInv
<1> SUFFICES ASSUME Init PROVE IndInv
  OBVIOUS
<1>1. /\ NoThread \notin Threads /\ NoThread \notin Waits /\ Idle \in Threads
  BY ThreadsAssumption, TargetAssumption DEF ThreadOrNull
<1>2. \A t \in Threads : tgt[t] = NoThread /\ pc[t] = << >> /\ Section(pc[t]) = "none"
  BY SectionFacts DEF Init
<1>3. InTransit = {}
  BY <1>1, <1>2 DEF InTransit
<1>4. KernelOK(k, InTransit)
  BY <1>3, KernelInitOK DEF Init
<1>5. k.cur = NoThread /\ k.lock = 0 /\ \A t \in Threads : k.stat[t] = "NONE"
  BY DEF Init, KernelInit
<1>6. isr = << >> /\ isr # <<"drain">>
  BY IsrDistinct DEF Init
<1>7. Shapes
  <2>1. << >> \in PcShapes /\ << >> \in IsrShapes
    BY DEF PcShapes, IsrShapes
  <2> QED
    BY <2>1 DEF Init, Shapes
<1>8. tm.list = << >> /\ tm \in TimerState
  BY DEF Init, TimerInit, TimerState
<1>9. TimerInv
  <2>1. ToSet(tm.list) = {}
    BY <1>8 DEF ToSet
  <2>2. Holds(tm.list, {})
    BY <1>8, HoldsEmpty
  <2> QED
    BY <2>1, <2>2 DEF TimerInv, TimerOn
<1>10. CurrentInv
  BY <1>1, <1>2, <1>5, <1>6, <1>8 DEF CurrentInv
<1>11. TargetInv
  <2>1. ASSUME NEW t \in Threads PROVE TargetKind(t) /\ TargetStat(t)
    BY <1>1, <1>2, <1>6 DEF TargetKind, TargetStat, PcAt
  <2> QED
    BY <1>1, <1>2, <1>3, <2>1 DEF TargetInv
<1>12. CpuInv /\ cpu \in CpuState
  <2>1. cpu \in CpuState /\ cpu.exec = NoThread /\ cpu.flag = FALSE
    BY DEF Init, CpuInit, CpuState, ThreadOrNull
  <2> QED
    BY <1>1, <1>5, <2>1 DEF CpuInv
<1>13. SliceInv
  BY <1>5 DEF SliceInv
<1>14. TypeOK
  <2>1. k \in KernelState
    BY <1>4 DEF KernelOK
  <2>2. /\ \A t \in Threads : pc[t] \in Seq(Labels)
        /\ isr \in Seq(IsrLabels)
    <3>1. << >> \in Seq(Labels) /\ << >> \in Seq(IsrLabels)
      OBVIOUS
    <3> QED
      BY <1>2, <1>6, <3>1
  <2>3. /\ rem \in [Threads -> Nat] /\ err \in [Threads -> Errors] /\ lag \in BOOLEAN
        /\ tgt \in [Threads -> ThreadOrNull \cup Waits]
    BY DEF Init, Errors, ThreadOrNull
  <2>4. pc \in [Threads -> Seq(Labels)]
    BY <2>2 DEF Init
  <2> QED
    BY <1>8, <1>12, <2>1, <2>2, <2>3, <2>4 DEF TypeOK
<1>15. IInv
  BY <1>4, <1>7, <1>9, <1>10, <1>11, <1>12, <1>13, <1>14 DEF IInv
<1> QED
  BY <1>6, <1>15, InitLater DEF IndInv, DrainInv

\* Each step of the system preserves the invariant.
LEMMA ServiceStep ==
  ASSUME IInv, NEW t \in Threads \ {Idle}, Service(t)
  PROVE  IInv'
<1>1. ASSUME NEW u \in Threads, NEW p \in Prio, CreateThread(t, u, p) PROVE IInv'
  BY <1>1, CreateThreadStep
<1>2. ASSUME NEW u \in Threads, Startup(t, u) PROVE IInv'
  BY <1>2, StartupStep
<1>3. CASE Yield(t)
  BY <1>3, YieldStep
<1>4. ASSUME NEW n \in Times, Sleep(t, n) PROVE IInv'
  BY <1>4, SleepStep
<1>5. CASE SuspendSelf(t)
  BY <1>5, SuspendSelfStep
<1>6. ASSUME NEW w \in Waits, NEW n \in Times \cup {0}, Block(t, w, n) PROVE IInv'
  BY <1>6, BlockStep
<1>7. CASE EnterCritical(t)
  BY <1>7, EnterCriticalStep
<1>8. CASE ExitCritical(t)
  BY <1>8, ExitCriticalStep
<1>9. CASE Exit(t)
  BY <1>9, ExitStep
<1>10. ASSUME NEW w \in Waits, Wake(t, w) PROVE IInv'
  BY <1>10, WakeCallStep
<1>11. ASSUME NEW w \in Waits, WakeAll(t, w) PROVE IInv'
  BY <1>11, WakeAllStep DEF WakeAll
<1>12. ASSUME NEW w \in Waits, WakeAllAtomic(t, w) PROVE IInv'
  BY <1>12, WakeAllAtomicStep
<1>13. ASSUME NEW u \in Threads, ResumeThread(t, u) PROVE IInv'
  BY <1>13, ResumeThreadStep
<1>14. ASSUME NEW u \in Threads, NEW p \in Prio, SetPriority(t, u, p) PROVE IInv'
  BY <1>14, SetPriorityStep
<1>15. ASSUME NEW u \in Threads, Delete(t, u) PROVE IInv'
  BY <1>15, DeleteStep
<1>16. ASSUME NEW u \in Threads, ControlClose(t, u) PROVE IInv'
  BY <1>16, ControlCloseStep
<1> QED
  BY <1>1, <1>2, <1>3, <1>4, <1>5, <1>6, <1>7, <1>8, <1>9, <1>10, <1>11, <1>12, <1>13,
     <1>14, <1>15, <1>16 DEF Service

\* The later sections of a call in progress.
LEMMA ContinueStep ==
  ASSUME IInv, NEW t \in Threads, Continue(t)
  PROVE  IInv'
  BY DoScheduleStep, DoInsertStep, ReturnStep, DoCloseStep, DoCheckStep, DoDrainStep DEF Continue

\* Every step preserves the parts of the invariant.
LEMMA NextStep ==
  ASSUME IndInv, Next
  PROVE  IInv'
<1>1. IInv /\ DrainInv
  BY DEF IndInv
<1>2. CASE Boot
  BY <1>1, <1>2, BootThreadStep, BootStartStep DEF Boot
<1>3. ASSUME NEW t \in Threads \ {Idle}, Service(t) PROVE IInv'
  BY <1>1, <1>3, ServiceStep
<1>4. ASSUME NEW t \in Threads, Continue(t) PROVE IInv'
  BY <1>1, <1>4, ContinueStep
<1>5. CASE IdleLoop
  BY <1>1, <1>5, ReapStep, FreeStep DEF IdleLoop
<1>6. CASE Interrupt
  BY <1>1, <1>6, TickStep, IsrWakeStep, IsrResumeStep DEF Interrupt
<1>7. CASE Handler
  BY <1>1, <1>7, IsrScheduleStep, IsrTimeoutStep, IsrTimersDoneStep, IsrLeaveStep, OffDrainStep,
     OffDrainedStep DEF Handler
<1> QED
  BY <1>2, <1>3, <1>4, <1>5, <1>6, <1>7 DEF Next

\* Interrupts are off for the loop of _ipc_list_resume_all only from a call
\* that goes on with rt_schedule.
LEMMA DrainKept ==
  ASSUME IndInv, Next
  PROVE  DrainInv'
<1>1. IInv /\ DrainInv
  BY DEF IndInv
<1>2. CASE Boot
  <2>1. isr' = isr /\ k.cur = NoThread
    BY <1>2 DEF Boot, BootThread, BootStart
  <2> QED
    BY <1>1, <2>1, IsrDistinct DEF IInv, CurrentInv, DrainInv
<1>3. ASSUME NEW t \in Threads \ {Idle}, Service(t) PROVE DrainInv'
  <2>1. ASSUME NEW w \in Waits, WakeAllAtomic(t, w) PROVE DrainInv'
    <3>1. t = k.cur /\ k' = k /\ pc' = [pc EXCEPT ![t] = <<"sched">>]
      BY <1>1, <2>1, Caller DEF WakeAllAtomic, Calls, Call
    <3>2. pc'[k'.cur] = <<"sched">>
      BY <1>1, <3>1 DEF IInv, TypeOK
    <3> QED
      BY <3>2, SectionFacts DEF DrainInv, PcAt
  <2>2. ASSUME ~ \E w \in Waits : WakeAllAtomic(t, w) PROVE isr' = << >>
    BY <1>3, <2>2 DEF Service, CreateThread, Startup, Yield, Sleep, SuspendSelf, Block,
       EnterCritical, ExitCritical, Exit, Wake, WakeAll, BeginWakeAll, ResumeThread, SetPriority,
       Delete, ControlClose, BeginClose, Calls
  <2> QED
    BY <2>1, <2>2, IsrDistinct DEF DrainInv
<1>4. ASSUME NEW t \in Threads, Continue(t) PROVE DrainInv'
  <2>1. isr' = << >>
    BY <1>4 DEF Continue, DoSchedule, DoInsert, DoEintr, DoSlept, DoClose, DoReturn, DoCheck,
       DoDrain, At
  <2> QED
    BY <2>1, IsrDistinct DEF DrainInv
<1>5. CASE IdleLoop
  <2>1. isr' = << >>
    BY <1>5 DEF IdleLoop, Reap, Free, At
  <2> QED
    BY <2>1, IsrDistinct DEF DrainInv
<1>6. CASE Interrupt
  <2>1. isr' \in {<<"sched", "timers", "leave">>, <<"timers", "leave">>, <<"sched", "leave">>}
    BY <1>6 DEF Interrupt, Tick, IsrWake, IsrResume
  <2> QED
    BY <2>1, IsrDistinct DEF DrainInv
<1>7. CASE Handler
  <2>1. isr # << >> /\ isr \in IsrShapes
    BY <1>1, <1>7, HandlerCur DEF Handler, IsrSchedule, IsrTimeout, IsrTimersDone, IsrLeave,
       OffDrain, OffDrained, IsrAt
  <2>2. CASE OffDrain
    <3>1. isr = <<"drain">>
      BY <2>1, <2>2, IsrFacts DEF OffDrain, IsrAt
    <3>2. isr' = isr /\ pc' = pc /\ cpu' = cpu
      BY <2>2 DEF OffDrain
    <3>3. k'.cur = k.cur
      <4>1. CpuInv /\ CpuInv'
        BY <1>1, <2>2, OffDrainStep DEF IInv
      <4> QED
        BY <3>1, <3>2, <4>1 DEF CpuInv
    <3> QED
      BY <1>1, <3>2, <3>3 DEF DrainInv, PcAt
  <2>3. CASE ~ OffDrain
    <3>1. isr' = Tail(isr) \/ isr' = <<"sched", "timers", "leave">>
      BY <1>7, <2>3 DEF Handler, IsrSchedule, IsrTimeout, IsrTimersDone, IsrLeave, OffDrained
    <3>2. Tail(isr) \in {<<"timers", "leave">>, <<"leave">>, << >>}
      <4>1. Head(isr) \in {"sched", "timers", "leave", "drain"}
        BY <1>7 DEF Handler, IsrSchedule, IsrTimeout, IsrTimersDone, IsrLeave, OffDrain,
           OffDrained, IsrAt
      <4> QED
        BY <2>1, <4>1, IsrFacts
    <3> QED
      BY <3>1, <3>2, IsrDistinct DEF DrainInv
  <2> QED
    BY <2>2, <2>3
<1> QED
  BY <1>2, <1>3, <1>4, <1>5, <1>6, <1>7 DEF Next

\* The inductive invariant of the scheduler: what every interrupts-disabled
\* section relies on holds whenever one begins.
THEOREM Invariance == Spec => []IndInv
<1>1. IInv /\ DrainInv /\ UNCHANGED vars => IInv' /\ DrainInv'
  BY DEF IInv, DrainInv, TypeOK, CurrentInv, TargetInv, TargetKind, TargetStat, TimerInv, CpuInv,
     SliceInv, Shapes, InTransit, PcAt, vars
<1>2. IndInv /\ UNCHANGED vars => IndInv'
  BY <1>1, LaterStutter DEF IndInv
<1>3. IndInv /\ Next => IndInv'
  BY NextStep, DrainKept, LaterKept DEF IndInv
<1>4. IndInv /\ [Next]_vars => IndInv'
  BY <1>2, <1>3
<1> QED
  BY InitOK, <1>4, PTL DEF Spec

-----------------------------------------------------------------------------
(* The safety properties *)

\* The only READY thread that is in no list is one being deleted.
LEMMA ReadyTransit ==
  ASSUME IInv, NEW t \in InTransit, k.stat[t] = "READY"
  PROVE  Closing(t)
<1>1. PICK x \in Threads \ {Idle, t} : tgt[x] = t
  BY DEF InTransit
<1>2. t \in Threads
  BY DEF InTransit
<1>3. TargetKind(x) /\ TargetStat(x) /\ pc[x] \in PcShapes
  BY DEF IInv, TargetInv, Shapes
<1>4. Section(pc[x]) = "close"
  BY <1>1, <1>2, <1>3 DEF TargetKind, TargetStat, PcAt
<1>5. pc[x] # << >> /\ Head(pc[x]) = "close"
  BY <1>3, <1>4, ShapeFacts
<1> QED
  BY <1>1, <1>5 DEF Closing

\* Every variable of the scheduler keeps its type.
THEOREM TypeCorrect == Spec => []TypeOK
<1>1. IndInv => TypeOK
  BY DEF IndInv, IInv
<1> QED
  BY <1>1, Invariance, PTL

\* The ready table and the priority group rt_schedule reads are exact.
THEOREM ReadyTableExact == Spec => []ReadyTable
<1>1. IndInv => ReadyTable
  <2> SUFFICES ASSUME IInv PROVE ReadyTable
    BY DEF IndInv
  <2>1. /\ KernelOK(k, InTransit)
        /\ \A p \in Prio : Holds(k.ready[p], {t \in Threads : k.stat[t] = "READY" /\ k.prio[t] = p
                                                              /\ t \notin InTransit})
    BY DEF IInv, KernelOK, LinksOK
  <2>2. k.group = {p \in Prio : k.ready[p] # << >>}
    BY <2>1 DEF KernelOK, GroupOK
  <2>3. \A p \in Prio : IsInjective(k.ready[p])
    BY <2>1 DEF Holds
  <2>4. \A t \in InTransit : k.stat[t] = "READY" => Closing(t)
    BY ReadyTransit
  <2>5. ASSUME NEW p \in Prio, NEW t \in Threads
        PROVE  /\ t \in ToSet(k.ready[p]) => k.stat[t] = "READY" /\ k.prio[t] = p
               /\ k.stat[t] = "READY" /\ k.prio[t] = p /\ ~ Closing(t) => t \in ToSet(k.ready[p])
    BY <2>1, <2>4 DEF Holds
  <2> QED
    BY <2>2, <2>3, <2>5 DEF ReadyTable
<1> QED
  BY <1>1, Invariance, PTL

\* thread->tlist is in at most one list.
THEOREM LinkedOnceAlways == Spec => []LinkedOnce
<1>1. IndInv => LinkedOnce
  <2> SUFFICES ASSUME IInv PROVE LinkedOnce
    BY DEF IndInv
  <2>1. LinksOK(k, InTransit)
    BY DEF IInv, KernelOK
  <2>2. \A w \in Waits : IsInjective(k.wait[w]) /\ \A t \in ToSet(k.wait[w]) : k.stat[t] = "SUSPEND"
    BY <2>1 DEF LinksOK, Holds
  <2>3. IsInjective(k.defunct) /\ \A t \in ToSet(k.defunct) : k.stat[t] = "CLOSE"
    BY <2>1 DEF LinksOK, Holds
  <2>4. \A p \in Prio : \A t \in ToSet(k.ready[p]) : k.stat[t] = "READY"
    BY <2>1 DEF LinksOK, Holds
  <2>5. \A v, w \in Waits, t \in Threads :
           t \in ToSet(k.wait[v]) /\ t \in ToSet(k.wait[w]) => v = w
    BY <2>1 DEF LinksOK
  <2> QED
    BY <2>2, <2>3, <2>4, <2>5 DEF LinkedOnce
<1> QED
  BY <1>1, Invariance, PTL

\* _thread_timeout always finds its thread suspended.
THEOREM TimeoutSound == Spec => []TimeoutFindsSuspended
<1>1. IndInv => TimeoutFindsSuspended
  BY DEF IndInv, IInv, TimerInv, TimeoutFindsSuspended
<1> QED
  BY <1>1, Invariance, PTL

\* Context switches, deferred to trap exit or not, lose no context.
THEOREM ContextSound == Spec => []ContextIntact
<1>1. IndInv => ContextIntact
  <2> SUFFICES ASSUME IInv PROVE ContextIntact
    BY DEF IndInv
  <2> QED
    BY DEF IInv, CpuInv, ContextIntact
<1> QED
  BY <1>1, Invariance, PTL

\* A thread idle has freed is referenced nowhere.
THEOREM FreedSound == Spec => []FreedUnused
<1>1. IndInv => FreedUnused
  <2> SUFFICES ASSUME IInv, NEW t \in Threads, k.stat[t] = "NONE"
               PROVE  /\ t # k.cur /\ cpu.exec # t /\ ~ TimerOn(tm, t)
                      /\ \A x \in Threads : tgt[x] # t
                      /\ \A p \in Prio : t \notin ToSet(k.ready[p])
                      /\ \A w \in Waits : t \notin ToSet(k.wait[w])
                      /\ t \notin ToSet(k.defunct)
    BY DEF IndInv, FreedUnused
  <2>1. t # k.cur
    BY ThreadsAssumption DEF IInv, CurrentInv
  <2>2. cpu.exec # t
    BY DEF IInv, CpuInv
  <2>3. ~ TimerOn(tm, t)
    BY DEF IInv, TimerInv
  <2>4. \A x \in Threads : tgt[x] # t
    <3> SUFFICES ASSUME NEW x \in Threads, tgt[x] = t PROVE FALSE
      OBVIOUS
    <3>1. \/ tgt[x] \in InTransit
          \/ tgt[x] = x /\ k.stat[x] \in {"READY", "RUNNING"}
          \/ k.stat[tgt[x]] = "CLOSE"
      BY Targets
    <3> QED
      BY <3>1, TransitStat
  <2>5. LinksOK(k, InTransit)
    BY DEF IInv, KernelOK
  <2>6. /\ \A p \in Prio : t \notin ToSet(k.ready[p])
        /\ \A w \in Waits : t \notin ToSet(k.wait[w])
        /\ t \notin ToSet(k.defunct)
    BY <2>5 DEF LinksOK, Holds
  <2> QED
    BY <2>1, <2>2, <2>3, <2>4, <2>6
<1> QED
  BY <1>1, Invariance, PTL

\* Preemptive priority scheduling: a thread that runs its own code with the
\* scheduler unlocked is RUNNING and no READY thread is more urgent, whatever
\* wake-ups, time slices, priority changes and deletions came before.
THEOREM HighestSound == Spec => []HighestRuns
<1>1. IndInv => HighestRuns
  <2> SUFFICES ASSUME IInv, UrgentInv, isr = << >>, k.cur # NoThread, pc[k.cur] = << >>,
                      k.lock = 0, ~ lag
               PROVE  /\ k.stat[k.cur] = "RUNNING"
                      /\ \A t \in Threads : k.stat[t] = "READY" /\ ~ Closing(t) =>
                            k.prio[k.cur] <= k.prio[t]
    BY DEF IndInv, LaterInv, HighestRuns
  <2>1. k.stat[k.cur] = "RUNNING"
    BY SectionFacts DEF IInv, CurrentInv, PcAt
  <2>2. ~ Pending
    BY PcSets, IsrSets DEF Pending
  <2>3. Urgent
    BY <2>2 DEF UrgentInv
  <2> QED
    BY <2>1, <2>3, ReadyTransit DEF Urgent
<1> QED
  BY <1>1, Invariance, PTL

\* A sleeping thread has a running timer, or a call that stopped it has yet to
\* resume or to close the thread.
THEOREM SleeperSound == Spec => []SleeperHasTimer
<1>1. IndInv => SleeperHasTimer
  <2> SUFFICES ASSUME IInv, SleepInv, NEW t \in Threads, pc[t] # << >>, Head(pc[t]) = "slept",
                      k.stat[t] = "SUSPEND"
               PROVE  TimerOn(tm, t) \/ \E x \in Threads : tgt[x] = t
    BY DEF IndInv, LaterInv, SleeperHasTimer
  <2>1. pc[t] \in PcShapes /\ Section(pc[t]) = "slept"
    BY ShapeFacts DEF IInv, Shapes
  <2>2. pc[t] \in Sleeping
    BY <2>1, SectionFacts DEF PcShapes, Sleeping
  <2> QED
    BY <2>2 DEF SleepInv, InTransit
<1> QED
  BY <1>1, Invariance, PTL

\* _ipc_list_resume_all finds a waiter in the list it has tested before.
THEOREM DrainSound == Spec => []DrainFindsWaiter
<1>1. IndInv => DrainFindsWaiter
  <2> SUFFICES ASSUME IInv, TearDownInv, NEW t \in Threads, pc[t] # << >>, Head(pc[t]) = "drain"
               PROVE  k.wait[tgt[t]] # << >>
    BY DEF IndInv, LaterInv, DrainFindsWaiter
  <2>1. PcAt(t, {"drain"})
    BY ShapeFacts DEF IInv, Shapes, PcAt
  <2> QED
    BY <2>1 DEF TearDownInv
<1> QED
  BY <1>1, Invariance, PTL

-----------------------------------------------------------------------------
(* The scheduler lock: an action property, from the inductive invariant. *)

\* No function of Kernel but the scheduler itself changes rt_current_thread.
LEMMA CurKept ==
  ASSUME NEW x, "cur" \in DOMAIN x, NEW t \in Threads
  PROVE  /\ ListRemove(x, t).cur = x.cur
         /\ RemoveThread(x, t).cur = x.cur
         /\ InsertThread(x, t).cur = x.cur
         /\ Suspend(x, t).cur = x.cur
         /\ Resume(x, t).cur = x.cur
         /\ Close(x, t).cur = x.cur
         /\ Close(RemoveThread(x, t), t).cur = x.cur
         /\ \A p \in Prio : ChangePriority(x, t, p).cur = x.cur
         /\ \A p \in Prio : ThreadInit(x, t, p).cur = x.cur
         /\ \A w \in Waits : IpcListSuspend(x, t, w).cur = x.cur
<1>1. "cur" \in DOMAIN x
  OBVIOUS
<1>2. ListRemove(x, t).cur = x.cur /\ "cur" \in DOMAIN ListRemove(x, t)
  BY <1>1 DEF ListRemove
<1>3. RemoveThread(x, t).cur = x.cur /\ "cur" \in DOMAIN RemoveThread(x, t)
  BY <1>2 DEF RemoveThread
<1>4. \A y : "cur" \in DOMAIN y => InsertThread(y, t).cur = y.cur
  BY DEF InsertThread
<1>5. Suspend(x, t).cur = x.cur /\ "cur" \in DOMAIN Suspend(x, t)
  BY <1>3 DEF Suspend
<1>6. Resume(x, t).cur = x.cur
  BY <1>2, <1>4 DEF Resume
<1>7. \A y : "cur" \in DOMAIN y => Close(y, t).cur = y.cur
  BY DEF Close
<1>8. ASSUME NEW p \in Prio PROVE ChangePriority(x, t, p).cur = x.cur
  <2> DEFINE changed(y) == [y EXCEPT !.prio[t] = p, !.mask[t] = {p}]
  <2>1. \A y : "cur" \in DOMAIN y => changed(y).cur = y.cur /\ "cur" \in DOMAIN changed(y)
    OBVIOUS
  <2>2. ChangePriority(x, t, p) = IF x.stat[t] = "READY"
                                  THEN InsertThread(changed(RemoveThread(x, t)), t) ELSE changed(x)
    BY DEF ChangePriority
  <2> HIDE DEF changed
  <2> QED
    BY <1>1, <1>3, <1>4, <2>1, <2>2
<1>9. ASSUME NEW p \in Prio PROVE ThreadInit(x, t, p).cur = x.cur
  BY <1>1 DEF ThreadInit
<1>10. ASSUME NEW w \in Waits PROVE IpcListSuspend(x, t, w).cur = x.cur
  BY <1>5 DEF IpcListSuspend
<1> QED
  BY <1>1, <1>2, <1>3, <1>4, <1>5, <1>6, <1>7, <1>8, <1>9, <1>10

\* The kernel state is a record with the field cur, and a wait list is headed by
\* a thread.
LEMMA CurField ==
  ASSUME IInv
  PROVE  /\ "cur" \in DOMAIN k
         /\ \A w \in Waits : k.wait[w] # << >> => Head(k.wait[w]) \in Threads
<1>1. k \in KernelState
  BY DEF IInv, TypeOK
<1>2. ASSUME NEW w \in Waits, k.wait[w] # << >> PROVE Head(k.wait[w]) \in Threads
  BY <1>1, <1>2, KernelStateFields
<1> QED
  BY <1>1, <1>2 DEF KernelState

\* Only rt_schedule and the start of the scheduler change rt_current_thread.
LEMMA ServiceKeepsCur ==
  ASSUME IInv, NEW t \in Threads \ {Idle}, Service(t)
  PROVE  k'.cur = k.cur
<1> USE CurField
<1>1. ASSUME NEW u \in Threads, NEW p \in Prio, CreateThread(t, u, p) PROVE k'.cur = k.cur
  BY <1>1, CurKept DEF CreateThread
<1>2. ASSUME NEW u \in Threads, Startup(t, u) PROVE k'.cur = k.cur
  <2> DEFINE x == [k EXCEPT !.mask[u] = {k.prio[u]}, !.stat[u] = "SUSPEND", !.yld[u] = FALSE]
  <2>1. x.cur = k.cur /\ "cur" \in DOMAIN x
    OBVIOUS
  <2>2. k' = ListRemove(x, u)
    BY <1>2 DEF Startup
  <2> HIDE DEF x
  <2> QED
    BY <2>1, <2>2, CurKept
<1>3. CASE Yield(t)
  BY <1>3 DEF Yield
<1>4. ASSUME NEW n \in Times, Sleep(t, n) PROVE k'.cur = k.cur
  BY <1>4, CurKept DEF Sleep
<1>5. CASE SuspendSelf(t)
  BY <1>5, CurKept DEF SuspendSelf
<1>6. ASSUME NEW w \in Waits, NEW n \in Times \cup {0}, Block(t, w, n) PROVE k'.cur = k.cur
  BY <1>6, CurKept DEF Block
<1>7. CASE EnterCritical(t) \/ ExitCritical(t)
  BY <1>7 DEF EnterCritical, ExitCritical
<1>8. CASE Exit(t)
  BY <1>8, CurKept DEF Exit
<1>9. ASSUME NEW w \in Waits, Wake(t, w) PROVE k'.cur = k.cur
  BY <1>9, CurKept DEF Wake, WakeFirst
<1>10. ASSUME NEW w \in Waits, WakeAll(t, w) \/ WakeAllAtomic(t, w) PROVE k'.cur = k.cur
  BY <1>10 DEF WakeAll, BeginWakeAll, WakeAllAtomic
<1>11. ASSUME NEW u \in Threads, ResumeThread(t, u) PROVE k'.cur = k.cur
  BY <1>11, CurKept DEF ResumeThread
<1>12. ASSUME NEW u \in Threads, NEW p \in Prio, SetPriority(t, u, p) PROVE k'.cur = k.cur
  BY <1>12, CurKept DEF SetPriority
<1>13. ASSUME NEW u \in Threads, Delete(t, u) \/ ControlClose(t, u) PROVE k'.cur = k.cur
  BY <1>13, CurKept DEF Delete, ControlClose, BeginClose
<1> QED
  BY <1>1, <1>2, <1>3, <1>4, <1>5, <1>6, <1>7, <1>8, <1>9, <1>10, <1>11, <1>12, <1>13 DEF Service

\* While the scheduler is locked rt_schedule does nothing, and it is not locked
\* before it starts.
LEMMA LockedStep ==
  ASSUME IInv, Next, k.lock # 0
  PROVE  k'.cur = k.cur
<1> USE CurField
<1>1. CASE Boot
  <2>1. k.cur = NoThread
    BY <1>1 DEF Boot, BootThread, BootStart
  <2> QED
    BY <2>1 DEF IInv, CurrentInv
<1>2. ASSUME NEW t \in Threads \ {Idle}, Service(t) PROVE k'.cur = k.cur
  BY <1>2, ServiceKeepsCur
<1>3. ASSUME NEW t \in Threads, Continue(t) PROVE k'.cur = k.cur
  <2>1. CASE DoSchedule(t)
    BY <2>1 DEF DoSchedule, Schedule
  <2>2. CASE DoInsert(t) \/ DoClose(t)
    <3>1. tgt[t] \in Threads
      BY <2>2, SectionFacts DEF IInv, TargetInv, TargetKind, PcAt, DoInsert, DoClose, At, Section
    <3> QED
      BY <2>2, <3>1, CurKept DEF DoInsert, DoClose
  <2>3. CASE DoDrain(t)
    <3>1. tgt[t] \in Waits
      BY <2>3 DEF IInv, TargetInv, TargetKind, PcAt, DoDrain, At, Section
    <3> QED
      BY <2>3, <3>1, CurKept DEF DoDrain, WakeFirst
  <2>4. CASE DoEintr(t) \/ DoSlept(t) \/ DoReturn(t) \/ DoCheck(t)
    BY <2>4 DEF DoEintr, DoSlept, DoReturn, DoCheck
  <2> QED
    BY <1>3, <2>1, <2>2, <2>3, <2>4 DEF Continue
<1>4. CASE IdleLoop
  <2>1. CASE Reap
    BY <2>1 DEF Reap
  <2>2. CASE Free
    <3> DEFINE u == tgt[Idle]
    <3>1. Idle \in Threads /\ u \in Threads
      BY <2>2, ThreadsAssumption DEF IInv, TargetInv, TargetKind, PcAt, Free, At, Section
    <3>2. ListRemove(k, u).cur = k.cur /\ "cur" \in DOMAIN ListRemove(k, u)
      BY <3>1 DEF ListRemove
    <3> QED
      BY <2>2, <3>2 DEF Free
  <2> QED
    BY <1>4, <2>1, <2>2 DEF IdleLoop
<1>5. CASE Interrupt
  BY <1>5, CurKept DEF Interrupt, Tick, IsrWake, IsrResume, WakeFirst
<1>6. CASE Handler
  <2>1. CASE IsrSchedule
    BY <2>1 DEF IsrSchedule, Schedule
  <2>2. CASE IsrTimeout
    <3>1. Head(tm.list) \in Threads
      BY <2>2 DEF IsrTimeout, TimerDue, IInv, TypeOK, TimerState
    <3> QED
      BY <2>2, <3>1, CurKept DEF IsrTimeout
  <2>3. CASE OffDrain
    <3>1. isr # << >> /\ Head(isr) = "drain" /\ isr \in IsrShapes /\ k.cur \in Threads
      BY <2>3, HandlerCur DEF OffDrain, IsrAt
    <3>2. isr = <<"drain">>
      BY <3>1, IsrFacts
    <3>3. cpu.exec = k.cur /\ tgt[k.cur] \in Waits
      BY <3>1, <3>2 DEF IInv, CpuInv, TargetInv, TargetKind
    <3> QED
      BY <2>3, <3>3, CurKept DEF OffDrain, WakeFirst
  <2>4. CASE IsrTimersDone \/ IsrLeave \/ OffDrained
    BY <2>4 DEF IsrTimersDone, IsrLeave, OffDrained
  <2> QED
    BY <1>6, <2>1, <2>2, <2>3, <2>4 DEF Handler
<1> QED
  BY <1>1, <1>2, <1>3, <1>4, <1>5, <1>6 DEF Next

\* rt_enter_critical keeps the current thread on the processor, whatever
\* handlers and timers do meanwhile.
THEOREM LockSound == Spec => LockKeepsThread
<1>1. IndInv /\ [Next]_vars => [k.lock # 0 => k'.cur = k.cur]_vars
  BY LockedStep DEF IndInv
<1> QED
  BY <1>1, Invariance, PTL DEF Spec, LockKeepsThread

=============================================================================
