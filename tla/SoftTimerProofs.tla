--------------------------- MODULE SoftTimerProofs --------------------------
(***************************************************************************)
(* The safety properties of module SoftTimer, for any timers, any range of *)
(* the tick and any times and delays that SoftTimerAssumption allows.      *)
(***************************************************************************)
EXTENDS SoftTimer, ListProofs

-----------------------------------------------------------------------------
(* Unsigned arithmetic on ticks *)

\* The remainder is the only number of its range in its class.
LEMMA ModUnique ==
  ASSUME NEW n \in Nat \ {0}, NEW a \in Int, NEW q \in Int, NEW r \in 0 .. n - 1,
         a = q * n + r
  PROVE  a % n = r
  OBVIOUS

\* Numbers that differ by a multiple of n have the same remainder.
LEMMA ModSame ==
  ASSUME NEW n \in Nat \ {0}, NEW a \in Int, NEW b \in Int, NEW q \in Int, a = q * n + b
  PROVE  a % n = b % n
<1> DEFINE p == b \div n
           r == b % n
<1>1. b = p * n + r /\ p \in Int /\ r \in 0 .. n - 1
  OBVIOUS
<1> HIDE DEF p, r
<1>2. q * n + p * n = (q + p) * n
  BY <1>1
<1>3. a = (q + p) * n + r /\ q + p \in Int
  BY <1>1, <1>2
<1> QED
  BY <1>1, <1>3, ModUnique DEF r

\* A remainder is its number less some multiple of n.
LEMMA ModStep ==
  ASSUME NEW n \in Nat \ {0}, NEW a \in Int
  PROVE  \E q \in Int : a % n \in 0 .. n - 1 /\ a % n = q * n + a
<1> DEFINE p == a \div n
           r == a % n
<1>1. a = p * n + r /\ p \in Int /\ r \in 0 .. n - 1
  OBVIOUS
<1> HIDE DEF p, r
<1>2. (- p) * n = - (p * n)
  BY <1>1
<1>3. r = (- p) * n + a /\ - p \in Int
  BY <1>1, <1>2
<1> QED
  BY <1>1, <1>3 DEF r

\* Range of the tick, and the bounds of what the code compares.
LEMMA TickRange ==
  /\ TickMax \in Nat /\ TickMax + 1 \in Nat \ {0} /\ Half \in Nat /\ 2 * Half <= TickMax
  /\ MaxTime \in Nat /\ MaxLate \in Nat /\ MaxSlip \in Nat
  /\ 1 <= MaxTime /\ MaxTime < Half /\ MaxLate < Half
  /\ MaxLate + MaxTime < TickMax + 1 - Half /\ MaxLate + MaxSlip < TickMax + 1 - Half
  /\ 0 \in Ticks /\ Ticks \subseteq Int
  BY SoftTimerAssumption DEF Half, Ticks

\* Sums and differences of ticks.
LEMMA TickSums ==
  ASSUME NEW d \in Int, NEW a \in Int, NEW b \in Int
  PROVE  /\ Plus(d, a) \in Ticks
         /\ Plus(Plus(d, a), b) = Plus(d, a + b)
         /\ Minus(Plus(d, a), Plus(d, b)) = (a - b) % (TickMax + 1)
         /\ Minus(Plus(d, a), d) = a % (TickMax + 1)
         /\ Minus(d, Plus(d, a)) = (- a) % (TickMax + 1)
<1> DEFINE n == TickMax + 1
           x == d + a
           y == d + b
           u == x % n
           v == y % n
<1>0. n \in Nat \ {0} /\ n \in Int
  BY TickRange
<1>1. x \in Int /\ y \in Int /\ x = d + a /\ y = d + b
  OBVIOUS
<1> HIDE DEF n, x, y
<1>2. PICK p \in Int : u \in 0 .. n - 1 /\ u = p * n + x
  BY <1>0, <1>1, ModStep
<1>3. PICK q \in Int : v \in 0 .. n - 1 /\ v = q * n + y
  BY <1>0, <1>1, ModStep
<1> HIDE DEF u, v
<1>4. u \in Int /\ v \in Int /\ p * n \in Int /\ q * n \in Int
  BY <1>0, <1>2, <1>3
<1>5. (u + b) % n = (d + (a + b)) % n
  <2> DEFINE f == u + b
             g == d + (a + b)
  <2>1. f = p * n + g /\ f \in Int /\ g \in Int
    BY <1>1, <1>2, <1>4
  <2> HIDE DEF f, g
  <2>2. f % n = g % n
    BY <1>0, <2>1, ModSame
  <2> QED
    BY <2>2 DEF f, g
<1>6. (u - v) % n = (a - b) % n
  <2> DEFINE f == u - v
             g == a - b
             c == p - q
  <2>1. c * n = p * n - q * n /\ c \in Int
    BY <1>0
  <2>2. f = c * n + g /\ f \in Int /\ g \in Int
    BY <1>1, <1>2, <1>3, <1>4, <2>1
  <2> HIDE DEF f, g, c
  <2>3. f % n = g % n
    BY <1>0, <2>1, <2>2, ModSame
  <2> QED
    BY <2>3 DEF f, g
<1>7. (u - d) % n = a % n
  <2> DEFINE f == u - d
  <2>1. f = p * n + a /\ f \in Int
    BY <1>1, <1>2, <1>4
  <2> HIDE DEF f
  <2>2. f % n = a % n
    BY <1>0, <2>1, ModSame
  <2> QED
    BY <2>2 DEF f
<1>8. (d - u) % n = (- a) % n
  <2> DEFINE f == d - u
             g == - a
             c == - p
  <2>1. c * n = - (p * n) /\ c \in Int
    BY <1>0
  <2>2. f = c * n + g /\ f \in Int /\ g \in Int
    BY <1>1, <1>2, <1>4, <2>1
  <2> HIDE DEF f, g, c
  <2>3. f % n = g % n
    BY <1>0, <2>1, <2>2, ModSame
  <2> QED
    BY <2>3 DEF f, g
<1>9. u \in 0 .. TickMax
  BY <1>2, TickRange DEF n
<1> QED
  BY <1>5, <1>6, <1>7, <1>8, <1>9 DEF Plus, Minus, Ticks, n, x, y, u, v

\* Small differences: up to Half they are seen as they are, negative ones as
\* numbers of at least Half.
LEMMA TickSmall ==
  ASSUME NEW a \in Int, a < Half, - a < TickMax + 1 - Half \/ - a < Half
  PROVE  /\ a >= 0 => a % (TickMax + 1) = a
         /\ a < 0 => a % (TickMax + 1) = a + (TickMax + 1)
         /\ a % (TickMax + 1) < Half <=> a >= 0
<1> DEFINE n == TickMax + 1
<1>0. n \in Nat \ {0} /\ n \in Int /\ n = TickMax + 1 /\ Half \in Nat /\ 2 * Half < n
  BY TickRange
<1> HIDE DEF n
<1>1. a < n /\ a >= - n /\ (a < 0 => a + n >= Half)
  BY <1>0, TickRange
<1>2. a >= 0 => a % n = a
  BY <1>0, <1>1
<1>3. a < 0 => a % n = a + n
  BY <1>0, <1>1
<1> QED
  BY <1>0, <1>1, <1>2, <1>3 DEF n

-----------------------------------------------------------------------------
(* The inductive invariant *)

\* Where the timer thread is: _soft_timer_status is busy during a callback only,
\* it blocks where it looks at the list next, and neither ticks nor racing
\* starts have been counted since its last look at the list.
ThreadInv ==
    /\ busy <=> pc = "callback"
    /\ tstat = "callback" <=> pc = "callback"
    /\ tstat \in {"suspend", "delay"} => pc = "check"
    /\ tstat = "delay" => sleep > 0
    /\ pc \in {"next", "suspend", "callback"} => slip = 0
    /\ pc \in {"next", "callback"} => raced = {}

\* Linked timers are active; the timer in the timer thread's own list is in no
\* other, and active if it is to be restarted.
HeldInv ==
    /\ ToSet(list) \subseteq active
    /\ held => /\ pc = "callback" /\ now \in Timers \ ToSet(list)
               /\ now \in Periodic => now \in active

\* The timers that will expire: linked, or to be restarted.
WantedInv == wanted = ToSet(list) \cup {x \in Periodic : held /\ x = now}

\* timeout_tick is the true expiry time, as far as a word can hold it.
DueInv ==
    \A x \in ToSet(list) : left[x] \in - MaxLate .. MaxTime /\ due[x] = Plus(tick, left[x])

\* What the timer thread knows of the timers that were in the list when it
\* looked: none, none before the tick in reg, none within reg ticks.
LookInv ==
    /\ pc = "suspend" => ToSet(list) \subseteq raced
    /\ pc = "tick" => \E r \in - (MaxLate + slip) .. MaxTime :
                          /\ reg = Plus(tick, r)
                          /\ \A x \in ToSet(list) \ raced : r <= left[x]
    /\ pc = "delay" => \A x \in ToSet(list) \ raced : reg <= left[x] + slip
    /\ OnlyRacedMissed

IInv ==
    /\ TypeOK /\ IsInjective(list) /\ Sorted(list, left)
    /\ ThreadInv /\ HeldInv /\ WantedInv /\ DueInv /\ LookInv

-----------------------------------------------------------------------------
(* The list *)

\* The list as the invariant describes it.
LEMMA TheList ==
  ASSUME IInv
  PROVE  Links(list, Timers, ToSet(list)) /\ ToSet(list) \subseteq Timers
<1>1. Links(list, Timers, ToSet(list))
  BY DEF IInv, TypeOK, Links
<1> QED
  BY <1>1, LinksFacts

\* The comparison of rt_timer_start finds the timers that expire later.
LEMMA PlaceFacts ==
  ASSUME tick \in Ticks, init \in [Timers -> 1 .. MaxTime], NEW x \in Timers,
         NEW s \in Seq(Timers),
         \A y \in ToSet(s) : left[y] \in - MaxLate .. MaxTime /\ due[y] = Plus(tick, left[y])
  PROVE  Place(s, Plus(tick, init[x])) = {i \in DOMAIN s : init[x] < left[s[i]]}
<1> DEFINE n == init[x]
<1>1. n \in 1 .. MaxTime /\ n \in Int /\ tick \in Int
  BY TickRange DEF Ticks
<1> HIDE DEF n
<1>2. ASSUME NEW i \in DOMAIN s
      PROVE  Minus(due[s[i]], Plus(tick, n)) \in 1 .. Half - 1 <=> n < left[s[i]]
  <2> DEFINE l == left[s[i]]
             a == l - n
  <2>1. s[i] \in ToSet(s)
    BY DEF ToSet
  <2>2. l \in - MaxLate .. MaxTime /\ l \in Int /\ due[s[i]] = Plus(tick, l)
    BY <2>1, TickRange
  <2> HIDE DEF l
  <2>3. Minus(Plus(tick, l), Plus(tick, n)) = a % (TickMax + 1)
    BY <1>1, <2>2, TickSums
  <2>4. a \in Int /\ a < Half /\ - a < TickMax + 1 - Half
    BY <1>1, <2>2, TickRange
  <2> HIDE DEF a
  <2>5. /\ a >= 0 => a % (TickMax + 1) = a
        /\ a % (TickMax + 1) < Half <=> a >= 0
    BY <2>4, TickSmall
  <2>6. a < 0 => ~ (a % (TickMax + 1) \in 1 .. Half - 1)
    <3>1. a < 0 => ~ (a % (TickMax + 1) < Half)
      BY <2>4, <2>5
    <3> QED
      BY <3>1, TickRange
  <2>7. a % (TickMax + 1) \in 1 .. Half - 1 <=> a > 0
    BY <2>4, <2>5, <2>6, TickRange
  <2>8. a > 0 <=> n < l
    BY <1>1, <2>2 DEF a
  <2> QED
    BY <2>2, <2>3, <2>7, <2>8 DEF l
<1> QED
  BY <1>2 DEF Place, n

\* rt_timer_start puts a timer that is in no list where it belongs.
LEMMA InsertedFacts ==
  ASSUME tick \in Ticks, init \in [Timers -> 1 .. MaxTime], left \in [Timers -> Int],
         NEW S, NEW s, Links(s, Timers, S), Sorted(s, left), NEW x \in Timers \ S,
         \A y \in S : left[y] \in - MaxLate .. MaxTime /\ due[y] = Plus(tick, left[y])
  PROVE  /\ Links(Inserted(s, x), Timers, S \cup {x})
         /\ Sorted(Inserted(s, x), [left EXCEPT ![x] = init[x]])
<1> DEFINE key == [left EXCEPT ![x] = init[x]]
           I == Place(s, Plus(tick, init[x]))
<1>1. s \in Seq(Timers) /\ ToSet(s) = S /\ \A i \in 1 .. Len(s) : s[i] \in S
  BY LinksFacts DEF Links
<1>2. I = {i \in DOMAIN s : init[x] < left[s[i]]}
  BY <1>1, PlaceFacts
<1>3. key \in [Timers -> Int] /\ key[x] = init[x] /\ \A y \in S : key[y] = left[y]
  BY TickRange
<1>4. DOMAIN s = 1 .. Len(s)
  BY <1>1
<1> HIDE DEF key, I
<1>5. I = {i \in DOMAIN s : key[x] < key[s[i]]}
  BY <1>1, <1>2, <1>3, <1>4
<1>6. Sorted(s, key)
  BY <1>1, <1>3, <1>4 DEF Sorted
<1>7. Sorted(InsertBeforeFirst(s, I, x), key)
  BY <1>1, <1>3, <1>5, <1>6, SortedInsert
<1>8. I \in SUBSET DOMAIN s
  BY <1>5
<1>9. Links(InsertBeforeFirst(s, I, x), Timers, S \cup {x})
  BY <1>8, LinksInsert
<1> QED
  BY <1>7, <1>9 DEF Inserted, I, key

\* The test of rt_soft_timer_check finds the timers whose time has come.
LEMMA DueFacts ==
  ASSUME tick \in Ticks, NEW l \in - MaxLate .. MaxTime
  PROVE  Due(Plus(tick, l)) <=> l <= 0
<1> DEFINE a == - l
<1>1. l \in Int /\ tick \in Int
  BY TickRange DEF Ticks
<1>2. Minus(tick, Plus(tick, l)) = a % (TickMax + 1)
  BY <1>1, TickSums
<1>3. a \in Int /\ a < Half /\ - a < Half
  BY <1>1, TickRange
<1> HIDE DEF a
<1>4. a % (TickMax + 1) < Half <=> a >= 0
  BY <1>3, TickSmall
<1>5. a >= 0 <=> l <= 0
  BY <1>1 DEF a
<1> QED
  BY <1>2, <1>4, <1>5 DEF Due

\* rt_soft_timer_check, once its list is in order: it calls the callback of a
\* timer whose time has come, or returns with nothing held.
LEMMA CheckFacts ==
  ASSUME IInv, tick' = tick, NEW S, NEW s, Links(s, Timers, S), Sorted(s, left'),
         \A y \in S : left'[y] \in - MaxLate .. MaxTime /\ due'[y] = Plus(tick, left'[y]),
         S \subseteq active, wanted = S, Check(s, active)
  PROVE  /\ list' \in Seq(Timers) /\ IsInjective(list') /\ Sorted(list', left')
         /\ active' \subseteq Timers /\ wanted' \subseteq Timers
         /\ HeldInv' /\ WantedInv' /\ DueInv'
         /\ \/ /\ now' = NoTimer /\ held' = FALSE /\ busy' = FALSE
               /\ pc' = "next" /\ tstat' = "run"
            \/ /\ now' \in S /\ held' = TRUE /\ busy' = TRUE
               /\ pc' = "callback" /\ tstat' = "callback" /\ left'[now'] <= 0
<1>0. /\ active \subseteq Timers /\ tick \in Ticks /\ NoTimer \notin Timers
      /\ S \subseteq Timers /\ s \in Seq(Timers) /\ ToSet(s) = S
      /\ \A r, R : Links(r, Timers, R) => r \in Seq(Timers) /\ IsInjective(r) /\ ToSet(r) = R
  BY SoftTimerAssumption, LinksFacts DEF IInv, TypeOK, Links
<1>1. CASE s # << >> /\ Due(due'[Head(s)])
  <2> DEFINE x == Head(s)
  <2>1. x \in S /\ x \in Timers
    BY <1>0, <1>1, LinksFacts
  <2>2. Links(Tail(s), Timers, S \ {x}) /\ Sorted(Tail(s), left')
    BY <1>1, LinksTail
  <2>3. /\ list' = Tail(s) /\ now' = x /\ held' = TRUE /\ busy' = TRUE
        /\ active' = (IF x \in Periodic THEN active ELSE active \ {x})
        /\ wanted' = (IF x \in Periodic THEN wanted ELSE wanted \ {x})
        /\ pc' = "callback" /\ tstat' = "callback"
    BY <1>1 DEF Check
  <2>4. left'[x] <= 0
    <3>1. Due(Plus(tick, left'[x])) /\ left'[x] \in - MaxLate .. MaxTime
      BY <1>1, <2>1
    <3> QED
      BY <1>0, <3>1, DueFacts
  <2>5. ToSet(list') = S \ {x} /\ list' \in Seq(Timers) /\ IsInjective(list')
    BY <1>0, <2>2, <2>3
  <2>6. HeldInv'
    BY <1>0, <2>1, <2>3, <2>5 DEF HeldInv
  <2>7. WantedInv'
    <3>1. CASE x \in Periodic
      BY <2>1, <2>3, <2>5, <3>1 DEF WantedInv
    <3>2. CASE x \notin Periodic
      BY <2>1, <2>3, <2>5, <3>2 DEF WantedInv
    <3> QED
      BY <3>1, <3>2
  <2>8. DueInv'
    BY <2>5 DEF DueInv, Plus
  <2> QED
    BY <1>0, <2>1, <2>2, <2>3, <2>4, <2>5, <2>6, <2>7, <2>8
<1>2. CASE ~ (s # << >> /\ Due(due'[Head(s)]))
  <2>1. /\ list' = s /\ now' = NoTimer /\ held' = FALSE /\ busy' = FALSE
        /\ active' = active /\ wanted' = wanted
        /\ pc' = "next" /\ tstat' = "run"
    BY <1>2 DEF Check
  <2>2. HeldInv' /\ WantedInv'
    BY <1>0, <2>1 DEF HeldInv, WantedInv
  <2>3. DueInv'
    BY <1>0, <2>1 DEF DueInv, Plus
  <2> QED
    BY <1>0, <2>1, <2>2, <2>3
<1> QED
  BY <1>1, <1>2

-----------------------------------------------------------------------------
(* The steps *)

LEMMA InitInv == Init => IInv
<1> SUFFICES ASSUME Init PROVE IInv
  OBVIOUS
<1>1. ToSet(list) = {}
  BY DEF Init, ToSet
<1>2. 0 \in Ticks /\ 0 \in 0 .. MaxSlip
  BY TickRange
<1>3. TypeOK
  <2>1. /\ init \in [Timers -> 1 .. MaxTime] /\ tick \in Ticks
        /\ due \in [Timers -> Ticks] /\ left \in [Timers -> Int] /\ list \in Seq(Timers)
    BY <1>2 DEF Init
  <2> QED
    BY <1>2, <2>1 DEF Init, TypeOK
<1>4. IsInjective(list) /\ Sorted(list, left)
  BY LinksEmpty DEF Init, Links, Sorted
<1>5. ThreadInv
  BY DEF Init, ThreadInv
<1>6. HeldInv /\ WantedInv /\ DueInv
  BY <1>1 DEF Init, HeldInv, WantedInv, DueInv
<1>7. LookInv
  BY DEF Init, LookInv, OnlyRacedMissed
<1> QED
  BY <1>3, <1>4, <1>5, <1>6, <1>7 DEF IInv

LEMMA StartStep ==
  ASSUME IInv, NEW x \in Timers, Start(x)
  PROVE  IInv'
<1> DEFINE r == Without(list, x)
           R == ToSet(list) \ {x}
<1>1. /\ tick \in Ticks /\ init \in [Timers -> 1 .. MaxTime] /\ left \in [Timers -> Int]
      /\ due \in [Timers -> Ticks] /\ tick \in Int /\ init[x] \in 1 .. MaxTime
      /\ ToSet(list) \subseteq Timers
  BY TheList, TickRange DEF IInv, TypeOK
<1>2. Links(r, Timers, R) /\ Sorted(r, left)
  BY TheList, LinksUnlinked DEF IInv, Without
<1>3. \A y \in R : left[y] \in - MaxLate .. MaxTime /\ due[y] = Plus(tick, left[y])
  BY DEF IInv, DueInv
<1>4. /\ list' = Inserted(r, x)
      /\ left' = [left EXCEPT ![x] = init[x]]
      /\ due' = [due EXCEPT ![x] = Plus(tick, init[x])]
      /\ tick' = tick /\ init' = init /\ busy' = busy /\ now' = now /\ pc' = pc
      /\ reg' = reg /\ slip' = slip
  BY DEF Start
<1>5. Links(list', Timers, R \cup {x}) /\ Sorted(list', left')
  <2> HIDE DEF r, R
  <2>1. x \in Timers \ R
    BY DEF R
  <2> QED
    BY <1>1, <1>2, <1>3, <1>4, <2>1, InsertedFacts
<1>6. /\ list' \in Seq(Timers) /\ IsInjective(list') /\ ToSet(list') = ToSet(list) \cup {x}
  BY <1>5 DEF Links
<1>7. /\ left'[x] = init[x] /\ due'[x] = Plus(tick, init[x])
      /\ \A y \in Timers : y # x => left'[y] = left[y] /\ due'[y] = due[y]
  BY <1>1, <1>4
<1>8. TypeOK'
  <2>1. Plus(tick, init[x]) \in Ticks /\ init[x] \in Int /\ 0 \in Ticks
    <3>1. init[x] \in Int
      BY <1>1, TickRange
    <3> QED
      BY <1>1, <3>1, TickSums, TickRange
  <2>2. due' \in [Timers -> Ticks] /\ left' \in [Timers -> Int]
    BY <1>1, <1>4, <2>1
  <2>3. /\ active' \subseteq Timers /\ wanted' \subseteq Timers /\ raced' \subseteq Timers
        /\ held' \in BOOLEAN
    BY DEF Start, IInv, TypeOK
  <2>4. tstat' \in {"run", "suspend", "delay", "callback"} /\ sleep' \in Ticks
    BY <2>1 DEF Start, IInv, TypeOK
  <2> QED
    BY <1>4, <1>6, <2>2, <2>3, <2>4 DEF IInv, TypeOK, Ticks
<1>9. /\ pc \in {"suspend", "tick", "delay"} => raced' = raced \cup {x}
      /\ pc \notin {"suspend", "tick", "delay"} => raced' = raced
  BY DEF Start
<1>10. /\ pc # "callback" => ~ busy /\ tstat' = "run"
       /\ pc = "callback" => busy /\ tstat' = tstat /\ tstat = "callback"
  BY DEF Start, Resumes, IInv, ThreadInv, TypeOK
<1>11. ThreadInv'
  BY <1>4, <1>9, <1>10 DEF ThreadInv, IInv
<1>12. HeldInv'
  <2>1. ToSet(list') \subseteq active'
    BY <1>6 DEF IInv, HeldInv, Start
  <2>2. held' => held /\ now # x /\ active \subseteq active'
    BY DEF Start
  <2> QED
    BY <1>4, <1>6, <2>1, <2>2 DEF IInv, HeldInv
<1>13. WantedInv'
  <2>1. wanted' = wanted \cup {x} /\ held' = (held /\ now # x)
    BY DEF Start
  <2> QED
    BY <1>4, <1>6, <2>1 DEF IInv, WantedInv
<1>14. DueInv'
  <2> SUFFICES ASSUME NEW y \in ToSet(list')
               PROVE  left'[y] \in - MaxLate .. MaxTime /\ due'[y] = Plus(tick, left'[y])
    BY <1>4 DEF DueInv, Plus
  <2>1. CASE y = x
    BY <1>1, <1>7, <2>1, TickRange
  <2>2. CASE y # x
    BY <1>1, <1>3, <1>6, <1>7, <2>2
  <2> QED
    BY <2>1, <2>2
<1>15. pc \in {"suspend", "tick", "delay"} =>
         /\ ToSet(list') \ raced' \subseteq ToSet(list) \ raced
         /\ \A y \in ToSet(list') \ raced' : left'[y] = left[y]
  BY <1>1, <1>6, <1>7, <1>9
<1>16. LookInv'
  <2>1. pc' = "suspend" => ToSet(list') \subseteq raced'
    BY <1>4, <1>6, <1>9 DEF IInv, LookInv
  <2>2. pc' = "tick" => \E q \in - (MaxLate + slip') .. MaxTime :
                          /\ reg' = Plus(tick', q)
                          /\ \A y \in ToSet(list') \ raced' : q <= left'[y]
    BY <1>4, <1>15 DEF IInv, LookInv
  <2>3. pc' = "delay" => \A y \in ToSet(list') \ raced' : reg' <= left'[y] + slip'
    BY <1>4, <1>15 DEF IInv, LookInv
  <2>4. OnlyRacedMissed'
    BY <1>10 DEF OnlyRacedMissed
  <2> QED
    BY <2>1, <2>2, <2>3, <2>4 DEF LookInv, Plus
<1> QED
  BY <1>5, <1>6, <1>8, <1>11, <1>12, <1>13, <1>14, <1>16 DEF IInv

LEMMA TimerRemoveStep ==
  ASSUME IInv, NEW x \in Timers, TimerRemove(x)
  PROVE  IInv'
<1>1. /\ left \in [Timers -> Int] /\ due \in [Timers -> Ticks] /\ 0 \in Ticks
      /\ ToSet(list) \subseteq Timers
  BY TheList, TickRange DEF IInv, TypeOK
<1>2. Links(list', Timers, ToSet(list) \ {x}) /\ Sorted(list', left)
  BY TheList, LinksUnlinked DEF IInv, Without, TimerRemove
<1>3. /\ list' \in Seq(Timers) /\ IsInjective(list') /\ ToSet(list') = ToSet(list) \ {x}
      /\ DOMAIN list' = 1 .. Len(list') /\ \A i \in DOMAIN list' : list'[i] \in ToSet(list')
  <2>1. list' \in Seq(Timers) /\ IsInjective(list') /\ ToSet(list') = ToSet(list) \ {x}
    BY <1>2 DEF Links
  <2>2. \A i \in DOMAIN list' : list'[i] \in ToSet(list')
    BY DEF ToSet
  <2> QED
    BY <2>1, <2>2
<1>4. /\ tick' = tick /\ init' = init /\ busy' = busy /\ now' = now /\ pc' = pc
      /\ tstat' = tstat /\ reg' = reg /\ sleep' = sleep /\ slip' = slip
      /\ due' = [due EXCEPT ![x] = 0] /\ left' = [left EXCEPT ![x] = 0]
      /\ active' = active \ {x} /\ wanted' = wanted \ {x} /\ raced' = raced \ {x}
      /\ held' = (held /\ now # x)
  BY DEF TimerRemove
<1>5. \A y \in ToSet(list') : y \in ToSet(list) /\ left'[y] = left[y] /\ due'[y] = due[y]
  BY <1>1, <1>3, <1>4
<1>6. Sorted(list', left')
  BY <1>2, <1>3, <1>5 DEF Sorted
<1>7. TypeOK'
  <2>1. due' \in [Timers -> Ticks] /\ left' \in [Timers -> Int]
    BY <1>1, <1>4
  <2> QED
    BY <1>3, <1>4, <2>1 DEF IInv, TypeOK, Ticks
<1>8. ThreadInv'
  BY <1>4 DEF ThreadInv, IInv
<1>9. HeldInv' /\ WantedInv'
  BY <1>3, <1>4 DEF IInv, HeldInv, WantedInv
<1>10. DueInv'
  BY <1>4, <1>5 DEF IInv, DueInv, Plus
<1>11. ToSet(list') \ raced' \subseteq ToSet(list) \ raced
  BY <1>3, <1>4
<1>12. LookInv'
  <2>1. pc' = "suspend" => ToSet(list') \subseteq raced'
    BY <1>3, <1>4 DEF IInv, LookInv
  <2>2. pc' = "tick" => \E q \in - (MaxLate + slip') .. MaxTime :
                          /\ reg' = Plus(tick', q)
                          /\ \A y \in ToSet(list') \ raced' : q <= left'[y]
    BY <1>4, <1>5, <1>11 DEF IInv, LookInv
  <2>3. pc' = "delay" => \A y \in ToSet(list') \ raced' : reg' <= left'[y] + slip'
    BY <1>4, <1>5, <1>11 DEF IInv, LookInv
  <2>4. OnlyRacedMissed'
    BY <1>3, <1>4, <1>5, <1>11 DEF IInv, LookInv, OnlyRacedMissed
  <2> QED
    BY <2>1, <2>2, <2>3, <2>4 DEF LookInv, Plus
<1> QED
  BY <1>3, <1>6, <1>7, <1>8, <1>9, <1>10, <1>12 DEF IInv

LEMMA SetTimeStep ==
  ASSUME IInv, NEW x \in Timers, NEW n \in 1 .. MaxTime, SetTime(x, n)
  PROVE  IInv'
<1>1. /\ tick' = tick /\ list' = list /\ due' = due /\ active' = active /\ busy' = busy
      /\ now' = now /\ held' = held /\ pc' = pc /\ tstat' = tstat /\ reg' = reg
      /\ sleep' = sleep /\ left' = left /\ wanted' = wanted /\ raced' = raced /\ slip' = slip
  BY DEF SetTime, appVars
<1>2. TypeOK'
  <2>1. init' \in [Timers -> 1 .. MaxTime]
    BY DEF SetTime, IInv, TypeOK
  <2> QED
    BY <1>1, <2>1 DEF IInv, TypeOK, Ticks
<1>3. ThreadInv' /\ HeldInv' /\ WantedInv' /\ IsInjective(list') /\ Sorted(list', left')
  BY <1>1 DEF IInv, ThreadInv, HeldInv, WantedInv
<1>4. DueInv' /\ LookInv'
  BY <1>1 DEF IInv, DueInv, LookInv, OnlyRacedMissed, Plus
<1> QED
  BY <1>2, <1>3, <1>4 DEF IInv

LEMMA TickStep ==
  ASSUME IInv, Tick
  PROVE  IInv'
<1>1. /\ init' = init /\ busy' = busy /\ now' = now /\ pc' = pc /\ reg' = reg
      /\ list' = list /\ due' = due /\ active' = active /\ held' = held
      /\ wanted' = wanted /\ raced' = raced /\ tick' = Plus(tick, 1)
      /\ slip' = (IF pc \in {"tick", "delay"} THEN slip + 1 ELSE slip)
      /\ sleep' = (IF tstat = "delay" THEN sleep - 1 ELSE sleep)
      /\ tstat' = (IF tstat = "delay" /\ sleep = 1 THEN "run" ELSE tstat)
  BY DEF Tick
<1>2. tick \in Int /\ tick' \in Ticks /\ left \in [Timers -> Int] /\ ToSet(list) \subseteq Timers
  <2>1. tick \in Int /\ left \in [Timers -> Int]
    BY TickRange DEF IInv, TypeOK
  <2>2. tick' \in Ticks
    <3>1. 1 \in Int
      OBVIOUS
    <3> QED
      BY <1>1, <2>1, <3>1, TickSums
  <2> QED
    BY <2>1, <2>2, TheList
<1>3. /\ \A x \in ToSet(list) : left[x] \in Int /\ left'[x] = left[x] - 1
      /\ left' \in [Timers -> Int]
  BY <1>2 DEF Tick
<1>4. \A q \in Int : Plus(tick', q - 1) = Plus(tick, q)
  <2> SUFFICES ASSUME NEW q \in Int PROVE Plus(tick', q - 1) = Plus(tick, q)
    OBVIOUS
  <2>1. q - 1 \in Int /\ 1 + (q - 1) = q /\ 1 \in Int
    OBVIOUS
  <2> QED
    BY <1>1, <1>2, <2>1, TickSums
<1>5. slip \in 0 .. MaxSlip /\ slip' \in 0 .. MaxSlip /\ slip \in Int /\ MaxSlip \in Nat
  BY <1>1, TickRange DEF Tick, IInv, TypeOK
<1>6. TypeOK'
  <2>1. sleep' \in Ticks
    BY <1>1, TickRange DEF IInv, TypeOK, ThreadInv, Ticks
  <2>2. tstat' \in {"run", "suspend", "delay", "callback"}
    BY <1>1 DEF IInv, TypeOK
  <2> QED
    BY <1>1, <1>2, <1>3, <1>5, <2>1, <2>2 DEF IInv, TypeOK, Ticks
<1>7. Sorted(list', left')
  <2>1. DOMAIN list = 1 .. Len(list) /\ \A i \in DOMAIN list : list[i] \in ToSet(list)
    BY DEF IInv, TypeOK, ToSet
  <2> SUFFICES ASSUME NEW i \in DOMAIN list, NEW j \in DOMAIN list, i < j
               PROVE  left'[list[i]] <= left'[list[j]]
    BY <1>1, Zenon DEF Sorted
  <2>2. left[list[i]] <= left[list[j]]
    BY DEF IInv, Sorted
  <2> QED
    BY <1>3, <2>1, <2>2
<1>8. ThreadInv'
  <2>1. tstat' = "delay" => sleep' > 0
    BY <1>1, TickRange DEF IInv, TypeOK, ThreadInv, Ticks
  <2> QED
    BY <1>1, <2>1 DEF IInv, ThreadInv
<1>9. HeldInv' /\ WantedInv'
  BY <1>1 DEF IInv, HeldInv, WantedInv
<1>10. DueInv'
  <2> SUFFICES ASSUME NEW x \in ToSet(list)
               PROVE  left'[x] \in - MaxLate .. MaxTime /\ due[x] = Plus(tick', left'[x])
    BY <1>1 DEF DueInv, Plus
  <2>1. left[x] \in - MaxLate .. MaxTime /\ due[x] = Plus(tick, left[x]) /\ left[x] > - MaxLate
    BY DEF IInv, DueInv, Tick
  <2> QED
    BY <1>3, <1>4, <2>1, TickRange
<1>11. LookInv'
  <2>1. pc' = "suspend" => ToSet(list') \subseteq raced'
    BY <1>1 DEF IInv, LookInv
  <2>2. ASSUME pc = "tick"
        PROVE  \E q \in - (MaxLate + slip') .. MaxTime :
                   /\ reg' = Plus(tick', q)
                   /\ \A y \in ToSet(list') \ raced' : q <= left'[y]
    <3>1. PICK q \in - (MaxLate + slip) .. MaxTime :
              reg = Plus(tick, q) /\ \A y \in ToSet(list) \ raced : q <= left[y]
      BY <2>2 DEF IInv, LookInv
    <3>2. q \in Int /\ q - 1 \in - (MaxLate + slip') .. MaxTime
      BY <1>1, <1>5, <2>2, <3>1, TickRange
    <3>3. reg' = Plus(tick', q - 1)
      BY <1>1, <1>4, <3>1, <3>2
    <3>4. \A y \in ToSet(list') \ raced' : q - 1 <= left'[y]
      BY <1>1, <1>3, <3>1, <3>2
    <3> QED
      BY <3>2, <3>3, <3>4
  <2>3. ASSUME pc = "delay", NEW y \in ToSet(list) \ raced
        PROVE  reg <= left'[y] + slip'
    <3>1. reg <= left[y] + slip /\ reg \in Int
      BY <2>3, TickRange DEF IInv, LookInv, TypeOK
    <3>2. left'[y] = left[y] - 1 /\ left[y] \in Int /\ slip' = slip + 1
      BY <1>1, <1>3, <2>3
    <3> QED
      BY <1>5, <3>1, <3>2
  <2>4. OnlyRacedMissed'
    <3>1. tstat' = "suspend" => ToSet(list') \subseteq raced'
      BY <1>1 DEF IInv, LookInv, OnlyRacedMissed
    <3>2. ASSUME tstat' = "delay", NEW y \in ToSet(list) \ raced
          PROVE  sleep' <= left'[y] + slip'
      <4>1. tstat = "delay" /\ sleep' = sleep - 1
        BY <1>1, <3>2
      <4>2. slip' = slip
        BY <1>1, <4>1 DEF IInv, ThreadInv
      <4>3. sleep <= left[y] + slip /\ sleep \in Int
        BY <4>1, TickRange DEF IInv, LookInv, OnlyRacedMissed, TypeOK
      <4> QED
        BY <1>3, <1>5, <4>1, <4>2, <4>3
    <3> QED
      BY <1>1, <3>1, <3>2 DEF OnlyRacedMissed
  <2> QED
    BY <1>1, <2>1, <2>2, <2>3, <2>4 DEF LookInv, Plus
<1> QED
  BY <1>1, <1>6, <1>7, <1>8, <1>9, <1>10, <1>11 DEF IInv

\* A step of the timer thread on the way to its sleep.
LEMMA SleepStep ==
  ASSUME IInv, NextTimeout \/ SuspendSelf \/ ReadTick \/ Delay
  PROVE  IInv'
<1>1. /\ tick' = tick /\ init' = init /\ list' = list /\ due' = due /\ active' = active
      /\ busy' = busy /\ now' = now /\ held' = held /\ left' = left /\ wanted' = wanted
      /\ raced' = raced /\ slip' = slip /\ tstat = "run"
  BY DEF NextTimeout, SuspendSelf, ReadTick, Delay, At, appVars
<1>2. /\ pc # "callback" /\ pc' # "callback" /\ pc' # "next" /\ tstat' # "callback"
      /\ pc' \in {"suspend", "tick", "delay", "check"} /\ tstat' \in {"run", "suspend", "delay"}
  BY <1>1 DEF NextTimeout, SuspendSelf, ReadTick, Delay, At
<1>3. tick \in Int /\ reg \in Int /\ ToSet(list) \subseteq Timers /\ left \in [Timers -> Int]
  BY TheList, TickRange DEF IInv, TypeOK
<1>4. IsInjective(list') /\ Sorted(list', left') /\ DueInv'
  BY <1>1 DEF IInv, DueInv, Plus
<1>5. HeldInv' /\ WantedInv'
  BY <1>1, <1>2 DEF IInv, HeldInv, WantedInv
<1>6. ASSUME NextTimeout
      PROVE  TypeOK' /\ ThreadInv' /\ LookInv'
  <2>1. /\ pc = "next" /\ tstat' = "run" /\ sleep' = sleep
        /\ pc' = (IF list = << >> THEN "suspend" ELSE "tick")
        /\ reg' = (IF list = << >> THEN 0 ELSE due[Head(list)])
    BY <1>1, <1>6 DEF NextTimeout, At
  <2>2. ASSUME list # << >>
        PROVE  /\ Head(list) \in ToSet(list) /\ reg' \in Ticks
               /\ reg' = Plus(tick, left[Head(list)])
               /\ left[Head(list)] \in - MaxLate .. MaxTime
               /\ \A y \in ToSet(list) : left[Head(list)] <= left[y]
    <3>1. Head(list) \in ToSet(list) /\ Head(list) = list[1] /\ 1 \in DOMAIN list
          /\ DOMAIN list = 1 .. Len(list)
      BY <2>2, TheList, LinksFacts DEF IInv, TypeOK
    <3>2. reg' = due[Head(list)] /\ reg' \in Ticks
      BY <1>3, <2>1, <2>2, <3>1 DEF IInv, TypeOK
    <3>3. left[Head(list)] \in - MaxLate .. MaxTime /\ reg' = Plus(tick, left[Head(list)])
      BY <3>1, <3>2 DEF IInv, DueInv
    <3>4. ASSUME NEW y \in ToSet(list) PROVE left[Head(list)] <= left[y]
      <4>1. PICK j \in DOMAIN list : list[j] = y
        BY DEF ToSet
      <4>2. left[y] \in Int
        BY <1>3
      <4>3. CASE j = 1
        BY <3>1, <4>1, <4>2, <4>3
      <4>4. CASE j # 1
        <5>1. 1 < j
          BY <3>1, <4>4
        <5> QED
          BY <3>1, <4>1, <5>1 DEF IInv, Sorted
      <4> QED
        BY <4>3, <4>4
    <3> QED
      BY <3>1, <3>2, <3>3, <3>4
  <2>3. TypeOK'
    <3>1. reg' \in Ticks
      BY <2>1, <2>2, TickRange
    <3> QED
      BY <1>1, <1>2, <2>1, <3>1 DEF IInv, TypeOK, Ticks
  <2>4. ThreadInv'
    BY <1>1, <2>1 DEF IInv, ThreadInv
  <2>5. LookInv'
    <3>1. pc' = "suspend" => ToSet(list') = {}
      BY <1>1, <2>1 DEF ToSet
    <3>2. ASSUME pc' = "tick"
          PROVE  \E q \in - (MaxLate + slip') .. MaxTime :
                     /\ reg' = Plus(tick', q)
                     /\ \A y \in ToSet(list') \ raced' : q <= left'[y]
      <4>1. list # << >> /\ slip' = 0
        BY <1>1, <2>1, <3>2 DEF IInv, ThreadInv
      <4>2. left[Head(list)] \in - (MaxLate + slip') .. MaxTime
        BY <2>2, <4>1, TickRange
      <4> QED
        BY <1>1, <2>2, <4>1, <4>2
    <3> QED
      BY <2>1, <3>1, <3>2 DEF LookInv, OnlyRacedMissed, Plus
  <2> QED
    BY <2>3, <2>4, <2>5
<1>7. ASSUME SuspendSelf
      PROVE  TypeOK' /\ ThreadInv' /\ LookInv'
  <2>1. /\ pc = "suspend" /\ pc' = "check" /\ tstat' = "suspend" /\ reg' = reg /\ sleep' = sleep
    BY <1>7 DEF SuspendSelf, At
  <2>2. TypeOK'
    BY <1>1, <2>1 DEF IInv, TypeOK, Ticks
  <2>3. ThreadInv'
    BY <1>1, <2>1 DEF IInv, ThreadInv
  <2>4. LookInv'
    BY <1>1, <2>1 DEF IInv, LookInv, OnlyRacedMissed
  <2> QED
    BY <2>2, <2>3, <2>4
<1>8. ASSUME ReadTick
      PROVE  TypeOK' /\ ThreadInv' /\ LookInv'
  <2> DEFINE m == Minus(reg, tick)
  <2>1. /\ pc = "tick" /\ tstat' = "run" /\ sleep' = sleep
        /\ pc' = (IF m < Half THEN "delay" ELSE "check")
        /\ reg' = (IF m < Half THEN m ELSE 0)
    BY <1>1, <1>8 DEF ReadTick, At
  <2>2. PICK q \in - (MaxLate + slip) .. MaxTime :
            reg = Plus(tick, q) /\ \A y \in ToSet(list) \ raced : q <= left[y]
    BY <2>1 DEF IInv, LookInv
  <2>3. slip \in Int /\ slip >= 0 /\ slip <= MaxSlip
    BY TickRange DEF IInv, TypeOK
  <2>4. q \in Int /\ q < Half /\ - q < TickMax + 1 - Half
    BY <2>2, <2>3, TickRange
  <2>5. m = q % (TickMax + 1)
    BY <1>3, <2>2, <2>4, TickSums
  <2>6. m < Half => m = q
    BY <2>4, <2>5, TickSmall
  <2>7. m \in Ticks
    <3>1. q % (TickMax + 1) \in 0 .. TickMax
      BY <2>4, TickRange
    <3> QED
      BY <2>5, <3>1 DEF Ticks
  <2> HIDE DEF m
  <2>8. TypeOK'
    <3>1. reg' \in Ticks
      BY <2>1, <2>7, TickRange
    <3> QED
      BY <1>1, <1>2, <2>1, <3>1 DEF IInv, TypeOK, Ticks
  <2>9. ThreadInv'
    BY <1>1, <1>2, <2>1 DEF IInv, ThreadInv
  <2>10. LookInv'
    <3>1. ASSUME pc' = "delay", NEW y \in ToSet(list) \ raced
          PROVE  reg' <= left[y] + slip
      <4>1. reg' = q /\ q <= left[y] /\ left[y] \in Int
        BY <1>3, <2>1, <2>2, <2>6, <3>1
      <4> QED
        BY <2>3, <2>4, <4>1
    <3> QED
      BY <1>1, <1>2, <2>1, <3>1 DEF LookInv, OnlyRacedMissed
  <2> QED
    BY <2>8, <2>9, <2>10
<1>9. ASSUME Delay
      PROVE  TypeOK' /\ ThreadInv' /\ LookInv'
  <2>1. /\ pc = "delay" /\ pc' = "check" /\ reg' = 0 /\ sleep' = reg
        /\ tstat' = (IF reg = 0 THEN "run" ELSE "delay")
    BY <1>9 DEF Delay, At
  <2>2. TypeOK'
    BY <1>1, <2>1, TickRange DEF IInv, TypeOK, Ticks
  <2>3. ThreadInv'
    <3>1. tstat' = "delay" => sleep' > 0
      BY <2>1, TickRange DEF IInv, TypeOK, Ticks
    <3> QED
      BY <1>1, <2>1, <3>1 DEF IInv, ThreadInv
  <2>4. LookInv'
    BY <1>1, <2>1 DEF IInv, LookInv, OnlyRacedMissed
  <2> QED
    BY <2>2, <2>3, <2>4
<1> QED
  BY <1>4, <1>5, <1>6, <1>7, <1>8, <1>9 DEF IInv

\* rt_soft_timer_check begins: nothing is held, so the timers that are wanted
\* are those in the list.
LEMMA SoftTimerCheckStep ==
  ASSUME IInv, SoftTimerCheck
  PROVE  /\ IInv'
         /\ now' # NoTimer => left[now'] <= 0
<1>1. /\ pc = "check" /\ tstat = "run" /\ due' = due /\ raced' = {} /\ slip' = 0
      /\ tick' = tick /\ init' = init /\ reg' = reg /\ sleep' = sleep /\ left' = left
      /\ Check(list, active)
  BY DEF SoftTimerCheck, At
<1>2. ~ held
  BY <1>1 DEF IInv, HeldInv
<1>3. Links(list, Timers, ToSet(list)) /\ Sorted(list, left')
  BY <1>1, TheList DEF IInv
<1>4. ToSet(list) \subseteq active /\ wanted = ToSet(list)
  BY <1>2 DEF IInv, HeldInv, WantedInv
<1>5. \A y \in ToSet(list) : left'[y] \in - MaxLate .. MaxTime /\ due'[y] = Plus(tick, left'[y])
  BY <1>1 DEF IInv, DueInv
<1> DEFINE S == ToSet(list)
<1> HIDE DEF S
<1>6. /\ list' \in Seq(Timers) /\ IsInjective(list') /\ Sorted(list', left')
      /\ active' \subseteq Timers /\ wanted' \subseteq Timers
      /\ HeldInv' /\ WantedInv' /\ DueInv'
      /\ \/ /\ now' = NoTimer /\ held' = FALSE /\ busy' = FALSE
            /\ pc' = "next" /\ tstat' = "run"
         \/ /\ now' \in S /\ held' = TRUE /\ busy' = TRUE
            /\ pc' = "callback" /\ tstat' = "callback" /\ left'[now'] <= 0
  BY <1>1, <1>3, <1>4, <1>5, CheckFacts DEF S
<1>7. S \subseteq Timers
  BY TheList DEF S
<1>8. TypeOK'
  <2>1. now' \in Timers \cup {NoTimer} /\ held' \in BOOLEAN /\ busy' \in BOOLEAN
        /\ pc' \in {"next", "callback"} /\ tstat' \in {"run", "callback"}
    BY <1>6, <1>7
  <2>2. slip' \in 0 .. MaxSlip
    BY <1>1, TickRange
  <2> QED
    BY <1>1, <1>6, <2>1, <2>2 DEF IInv, TypeOK, Ticks
<1>9. ThreadInv'
  BY <1>1, <1>6 DEF ThreadInv
<1>10. LookInv'
  BY <1>6 DEF LookInv, OnlyRacedMissed
<1> QED
  BY <1>1, <1>6, <1>8, <1>9, <1>10 DEF IInv

\* A callback has returned: the timer that is restarted joins the list, and so
\* again the timers that are wanted are those in the list.
LEMMA CallbackDoneStep ==
  ASSUME IInv, CallbackDone
  PROVE  /\ IInv'
         /\ now' # NoTimer => left[now'] <= 0
<1> DEFINE s == IF Restarts THEN Inserted(list, now) ELSE list
           S == IF Restarts THEN ToSet(list) \cup {now} ELSE ToSet(list)
<1>1. /\ pc = "callback" /\ tick' = tick /\ init' = init /\ reg' = reg /\ sleep' = sleep
      /\ raced' = raced /\ slip' = slip /\ Check(s, active)
      /\ due' = (IF Restarts THEN [due EXCEPT ![now] = Plus(tick, init[now])] ELSE due)
      /\ left' = (IF Restarts THEN [left EXCEPT ![now] = init[now]] ELSE left)
  BY DEF CallbackDone
<1>2. /\ tick \in Ticks /\ init \in [Timers -> 1 .. MaxTime] /\ left \in [Timers -> Int]
      /\ due \in [Timers -> Ticks] /\ tick \in Int
      /\ Links(list, Timers, ToSet(list)) /\ ToSet(list) \subseteq Timers /\ Sorted(list, left)
  BY TheList, TickRange DEF IInv, TypeOK
<1>3. \A y \in ToSet(list) : left[y] \in - MaxLate .. MaxTime /\ due[y] = Plus(tick, left[y])
  BY DEF IInv, DueInv
<1>4. Restarts => now \in Timers \ ToSet(list) /\ now \in Timers /\ now \in active
                    /\ init[now] \in 1 .. MaxTime /\ init[now] \in Int
  BY <1>2, TickRange DEF Restarts, IInv, HeldInv
<1>5. /\ Links(s, Timers, S) /\ Sorted(s, left')
  <2>1. CASE Restarts
    BY <1>1, <1>2, <1>3, <1>4, <2>1, InsertedFacts
  <2>2. CASE ~ Restarts
    BY <1>1, <1>2, <2>2
  <2> QED
    BY <2>1, <2>2
<1>6. ASSUME NEW y \in S
      PROVE  left'[y] \in - MaxLate .. MaxTime /\ due'[y] = Plus(tick, left'[y])
  <2>1. CASE Restarts /\ y = now
    BY <1>1, <1>2, <1>4, <2>1, TickRange
  <2>2. CASE ~ (Restarts /\ y = now)
    BY <1>1, <1>2, <1>3, <1>4, <1>6, <2>2
  <2> QED
    BY <2>1, <2>2
<1>7. S \subseteq active
  BY <1>4 DEF IInv, HeldInv
<1>8. wanted = S
  <2>1. CASE Restarts
    BY <2>1 DEF Restarts, IInv, WantedInv
  <2>2. CASE ~ Restarts
    <3>1. ~ (held /\ now \in Periodic)
      BY <2>2 DEF Restarts, IInv, HeldInv
    <3> QED
      BY <2>2, <3>1 DEF IInv, WantedInv
  <2> QED
    BY <2>1, <2>2
<1>9. S \subseteq Timers /\ NoTimer \notin Timers
  BY <1>2, <1>4, SoftTimerAssumption
<1>10. \A y \in S : left'[y] <= 0 => left[y] <= 0
  BY <1>1, <1>2, <1>4, TickRange
<1>11. due' \in [Timers -> Ticks] /\ left' \in [Timers -> Int]
  <2>1. CASE Restarts
    <3>1. Plus(tick, init[now]) \in Ticks
      BY <1>2, <1>4, <2>1, TickSums
    <3> QED
      BY <1>1, <1>2, <1>4, <2>1, <3>1
  <2>2. CASE ~ Restarts
    BY <1>1, <1>2, <2>2
  <2> QED
    BY <2>1, <2>2
<1> HIDE DEF s, S
<1>12. /\ list' \in Seq(Timers) /\ IsInjective(list') /\ Sorted(list', left')
       /\ active' \subseteq Timers /\ wanted' \subseteq Timers
       /\ HeldInv' /\ WantedInv' /\ DueInv'
       /\ \/ /\ now' = NoTimer /\ held' = FALSE /\ busy' = FALSE
             /\ pc' = "next" /\ tstat' = "run"
          \/ /\ now' \in S /\ held' = TRUE /\ busy' = TRUE
             /\ pc' = "callback" /\ tstat' = "callback" /\ left'[now'] <= 0
  BY <1>1, <1>5, <1>6, <1>7, <1>8, CheckFacts
<1>13. TypeOK'
  <2>1. now' \in Timers \cup {NoTimer} /\ held' \in BOOLEAN /\ busy' \in BOOLEAN
        /\ pc' \in {"next", "callback"} /\ tstat' \in {"run", "callback"}
    BY <1>9, <1>12
  <2> QED
    BY <1>1, <1>11, <1>12, <2>1 DEF IInv, TypeOK, Ticks
<1>14. ThreadInv'
  BY <1>1, <1>12 DEF IInv, ThreadInv
<1>15. LookInv'
  BY <1>12 DEF LookInv, OnlyRacedMissed
<1> QED
  BY <1>9, <1>10, <1>12, <1>13, <1>14, <1>15 DEF IInv

LEMMA StutterStep ==
  ASSUME IInv, UNCHANGED vars
  PROVE  IInv'
<1>1. /\ tick' = tick /\ list' = list /\ due' = due /\ active' = active /\ busy' = busy
      /\ now' = now /\ held' = held /\ pc' = pc /\ tstat' = tstat /\ reg' = reg
      /\ sleep' = sleep /\ left' = left /\ wanted' = wanted /\ raced' = raced /\ slip' = slip
      /\ init' = init
  BY DEF vars, appVars
<1>2. TypeOK' /\ ThreadInv' /\ HeldInv' /\ WantedInv' /\ IsInjective(list') /\ Sorted(list', left')
  BY <1>1 DEF IInv, TypeOK, Ticks, ThreadInv, HeldInv, WantedInv
<1>3. DueInv' /\ LookInv'
  BY <1>1 DEF IInv, DueInv, LookInv, OnlyRacedMissed, Plus
<1> QED
  BY <1>2, <1>3 DEF IInv

LEMMA NextStep ==
  ASSUME IInv, [Next]_vars
  PROVE  IInv'
<1>1. ASSUME NEW x \in Timers, Start(x) \/ Stop(x) \/ Detach(x)
                                 \/ \E n \in 1 .. MaxTime : SetTime(x, n)
      PROVE  IInv'
  BY <1>1, StartStep, TimerRemoveStep, SetTimeStep DEF Stop, Detach
<1>2. ASSUME TimerThread PROVE IInv'
  BY <1>2, SleepStep, SoftTimerCheckStep, CallbackDoneStep DEF TimerThread
<1> QED
  BY <1>1, <1>2, TickStep, StutterStep DEF Next

-----------------------------------------------------------------------------
(* Theorems *)

\* The inductive invariant holds throughout.
THEOREM Invariance == Spec => []IInv
<1>1. Init => IInv
  BY InitInv
<1>2. IInv /\ [Next]_vars => IInv'
  BY NextStep
<1> QED
  BY <1>1, <1>2, PTL DEF Spec

\* Every variable has its type: above all timeout_tick and the delay stay
\* words, and a timer is in the list as itself.
THEOREM TypeCorrect == Spec => []TypeOK
<1>1. IInv => TypeOK
  BY DEF IInv
<1> QED
  BY <1>1, Invariance, PTL

\* The insertion of rt_timer_start keeps the list in the order of the true
\* expiry times although it compares words that wrap around, some of which are
\* in the past.
THEOREM ListInOrder == Spec => []SoftSorted
<1>1. IInv => SoftSorted
  BY DEF IInv, SoftSorted
<1> QED
  BY <1>1, Invariance, PTL

\* Whatever rt_timer_start, stop and detach do while the timer thread runs the
\* callback of the same timer, it is armed once if the application wants it,
\* and not at all if it does not.
THEOREM ArmedOnce == Spec => []ArmedIfWanted
<1>1. IInv => ArmedIfWanted
  <2> SUFFICES ASSUME IInv, NEW x \in Timers
               PROVE  Cardinality({i \in DOMAIN list : list[i] = x})
                        + (IF x = now /\ held /\ x \in Periodic THEN 1 ELSE 0)
                          = IF x \in wanted THEN 1 ELSE 0
    BY DEF ArmedIfWanted
  <2> DEFINE I == {i \in DOMAIN list : list[i] = x}
  <2>1. CASE x \in ToSet(list)
    <3>1. PICK i \in DOMAIN list : list[i] = x
      BY <2>1 DEF ToSet
    <3>2. I = {i}
      BY <3>1 DEF IInv, IsInjective
    <3>3. Cardinality(I) = 1
      BY <3>2, FS_Singleton
    <3>4. ~ (x = now /\ held) /\ x \in wanted
      BY <2>1 DEF IInv, HeldInv, WantedInv
    <3> QED
      BY <3>3, <3>4
  <2>2. CASE x \notin ToSet(list)
    <3>1. I = {}
      BY <2>2 DEF ToSet
    <3>2. Cardinality(I) = 0
      BY <3>1, FS_EmptySet
    <3>3. x \in wanted <=> x = now /\ held /\ x \in Periodic
      BY <2>2 DEF IInv, WantedInv
    <3> QED
      BY <3>2, <3>3
  <2> QED
    BY <2>1, <2>2
<1> QED
  BY <1>1, Invariance, PTL

\* The timer thread oversleeps a timer only if the timer was started between
\* its look at the list and its sleep, outside the section that protects the
\* list.
THEOREM OversleepsOnlyRaced == Spec => []OnlyRacedMissed
<1>1. IInv => OnlyRacedMissed
  BY DEF IInv, LookInv
<1> QED
  BY <1>1, Invariance, PTL

\* rt_soft_timer_check calls no callback early, although it compares words
\* that wrap around.
THEOREM CallbacksNotEarly == Spec => NotEarly
<1> DEFINE A == (now' # NoTimer /\ (now' # now \/ (held' /\ ~ held))) => left[now'] <= 0
<1>1. IInv /\ [Next]_vars => [A]_vars
  <2> SUFFICES ASSUME IInv, Next PROVE A
    OBVIOUS
  <2>1. CASE SoftTimerCheck \/ CallbackDone
    BY <2>1, SoftTimerCheckStep, CallbackDoneStep
  <2>2. ASSUME now' = now, held' => held PROVE A
    BY <2>2
  <2>3. ASSUME NEW x \in Timers, Start(x) \/ Stop(x) \/ Detach(x)
                                   \/ \E n \in 1 .. MaxTime : SetTime(x, n)
        PROVE  A
    BY <2>2, <2>3 DEF Start, Stop, Detach, TimerRemove, SetTime, appVars
  <2>4. ASSUME Tick \/ NextTimeout \/ SuspendSelf \/ ReadTick \/ Delay PROVE A
    BY <2>2, <2>4 DEF Tick, NextTimeout, SuspendSelf, ReadTick, Delay, appVars
  <2> QED
    BY <2>1, <2>3, <2>4 DEF Next, TimerThread
<1> QED
  BY <1>1, Invariance, PTL DEF Spec, NotEarly

=============================================================================
