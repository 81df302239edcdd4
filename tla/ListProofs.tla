---------------------------- MODULE ListProofs ------------------------------
(***************************************************************************)
(* What the operations on lists do, for lists of any elements.             *)
(***************************************************************************)
EXTENDS Lists, TLAPS, WellFoundedInduction, SequenceTheorems, FiniteSetTheorems, FunctionTheorems

\* A non-empty set of naturals has a least element.
LEMMA LeastNat ==
  ASSUME NEW S \in SUBSET Nat, S # {}
  PROVE  Min(S) \in S /\ \A y \in S : Min(S) <= y
<1> DEFINE R == {ss \in Nat \X Nat : ss[1] < ss[2]}
<1>1. IsWellFoundedOn(R, Nat)
  BY NatLessThanWellFounded DEF OpToRel
<1>2. \A x, y \in Nat : y < x => <<y, x>> \in R
  OBVIOUS
<1> HIDE DEF R
<1>3. \E x \in S : \A y \in S : ~ (<<y, x>> \in R)
  BY <1>1, WFMin
<1>4. PICK x \in S : \A y \in S : ~ (<<y, x>> \in R)
  BY <1>3
<1>5. \A y \in S : ~ (y < x)
  BY <1>2, <1>4
<1>6. \A y \in S : x <= y
  BY <1>5
<1> QED
  BY <1>6 DEF Min

\* A list is empty exactly when it links nothing.
LEMMA LinksFacts ==
  ASSUME NEW T, NEW S, NEW s, Links(s, T, S)
  PROVE  /\ s \in Seq(T)
         /\ S \subseteq T
         /\ s = << >> <=> S = {}
         /\ s # << >> => Head(s) \in S
         /\ \A i \in 1 .. Len(s) : s[i] \in S
<1>1. s \in Seq(T) /\ S = {s[i] : i \in 1 .. Len(s)}
  BY DEF Links, ToSet
<1>2. \A i \in 1 .. Len(s) : s[i] \in S
  BY <1>1
<1>3. S \subseteq T
  BY <1>1
<1>4. s # << >> => 1 \in 1 .. Len(s) /\ Head(s) = s[1]
  BY <1>1
<1>5. s = << >> => S = {}
  BY <1>1
<1> QED
  BY <1>1, <1>2, <1>3, <1>4, <1>5

\* The empty list.
LEMMA LinksEmpty == \A T : Links(<< >>, T, {})
<1> QED
  BY DEF Links, ToSet, IsInjective

\* A sequence with one element taken out.
LEMMA RemoveAtFacts ==
  ASSUME NEW T, NEW s \in Seq(T), NEW j \in 1 .. Len(s), NEW r, r = RemoveAt(s, j)
  PROVE  /\ r \in Seq(T)
         /\ Len(r) = Len(s) - 1
         /\ \A i \in 1 .. Len(r) : r[i] = IF i < j THEN s[i] ELSE s[i+1]
<1> DEFINE x == SubSeq(s, 1, j - 1)
           y == SubSeq(s, j + 1, Len(s))
<1>1. /\ x \in Seq(T) /\ Len(x) = j - 1
      /\ \A i \in 1 .. j - 1 : x[i] = s[i]
  BY SubSeqProperties
<1>2. /\ y \in Seq(T) /\ Len(y) = Len(s) - j
      /\ \A i \in 1 .. Len(s) - j : y[i] = s[j + i]
  BY SubSeqProperties
<1> HIDE DEF x, y
<1>3. /\ x \o y \in Seq(T)
      /\ Len(x \o y) = Len(x) + Len(y)
      /\ \A i \in 1 .. Len(x) + Len(y) :
            (x \o y)[i] = IF i <= Len(x) THEN x[i] ELSE y[i - Len(x)]
  BY <1>1, <1>2, ConcatProperties
<1>4. ASSUME NEW i \in 1 .. Len(s) - 1
      PROVE  (x \o y)[i] = IF i < j THEN s[i] ELSE s[i+1]
  <2>1. CASE i < j
    BY <1>1, <1>2, <1>3, <2>1
  <2>2. CASE i >= j
    <3>1. i - Len(x) \in 1 .. Len(s) - j /\ ~ (i <= Len(x))
      BY <1>1, <2>2
    <3>2. (x \o y)[i] = y[i - Len(x)]
      BY <1>1, <1>2, <1>3, <3>1, SMTT(30)
    <3>3. y[i - Len(x)] = s[j + (i - Len(x))] /\ j + (i - Len(x)) = i + 1
      BY <1>1, <1>2, <3>1
    <3> QED
      BY <2>2, <3>2, <3>3
  <2>3. i < j \/ i >= j
    OBVIOUS
  <2> QED
    BY <2>1, <2>2, <2>3
<1>5. r = x \o y
  BY DEF x, y, RemoveAt
<1>6. Len(x) + Len(y) = Len(s) - 1
  BY <1>1, <1>2
<1> QED
  BY <1>3, <1>4, <1>5, <1>6

\* A sequence with one element put in.
LEMMA InsertAtFacts ==
  ASSUME NEW T, NEW s \in Seq(T), NEW t \in T, NEW j \in 1 .. Len(s) + 1,
         NEW r, r = InsertAt(s, j, t)
  PROVE  /\ r \in Seq(T)
         /\ Len(r) = Len(s) + 1
         /\ \A i \in 1 .. Len(r) : r[i] = IF i < j THEN s[i] ELSE IF i = j THEN t ELSE s[i-1]
<1> DEFINE x == SubSeq(s, 1, j - 1)
           y == SubSeq(s, j, Len(s))
           z == x \o <<t>>
<1>1. /\ x \in Seq(T) /\ Len(x) = j - 1
      /\ \A i \in 1 .. j - 1 : x[i] = s[i]
  BY SubSeqProperties
<1>2. /\ y \in Seq(T) /\ Len(y) = Len(s) - j + 1
      /\ \A i \in 1 .. Len(s) - j + 1 : y[i] = s[j + i - 1]
  BY SubSeqProperties
<1>3. <<t>> \in Seq(T) /\ Len(<<t>>) = 1 /\ <<t>>[1] = t
  OBVIOUS
<1>4. r = z \o y
  BY DEF InsertAt
<1> HIDE DEF x, y
<1>5. /\ z \in Seq(T) /\ Len(z) = j
      /\ \A i \in 1 .. j : z[i] = IF i <= j - 1 THEN x[i] ELSE <<t>>[i - (j - 1)]
  BY <1>1, <1>3, ConcatProperties
<1>6. \A i \in 1 .. j : z[i] = IF i < j THEN s[i] ELSE t
  BY <1>1, <1>3, <1>5
<1> HIDE DEF z
<1>7. /\ z \o y \in Seq(T) /\ Len(z \o y) = Len(z) + Len(y)
      /\ \A i \in 1 .. Len(z) + Len(y) :
            (z \o y)[i] = IF i <= Len(z) THEN z[i] ELSE y[i - Len(z)]
  BY <1>2, <1>5, ConcatProperties
<1>8. Len(z) + Len(y) = Len(s) + 1
  BY <1>2, <1>5
<1>9. ASSUME NEW i \in 1 .. Len(s) + 1
      PROVE  (z \o y)[i] = IF i < j THEN s[i] ELSE IF i = j THEN t ELSE s[i-1]
  <2>1. CASE i <= j
    BY <1>5, <1>6, <1>7, <1>8, <2>1
  <2>2. CASE i > j
    <3>1. i - Len(z) \in 1 .. Len(s) - j + 1 /\ ~ (i <= Len(z))
      BY <1>5, <2>2
    <3>2. (z \o y)[i] = y[i - Len(z)]
      BY <1>7, <1>8, <3>1
    <3>3. y[i - Len(z)] = s[j + (i - Len(z)) - 1] /\ j + (i - Len(z)) - 1 = i - 1
      BY <1>2, <1>5, <3>1
    <3> QED
      BY <2>2, <3>2, <3>3
  <2>3. i <= j \/ i > j
    OBVIOUS
  <2> QED
    BY <2>1, <2>2, <2>3
<1> QED
  BY <1>4, <1>7, <1>8, <1>9

\* Unlinking: the others stay linked, in their order.
LEMMA LinksUnlinked ==
  ASSUME NEW T, NEW S, NEW s, Links(s, T, S), NEW t
  PROVE  /\ Links(Unlinked(s, t), T, S \ {t})
         /\ \A key : Sorted(s, key) => Sorted(Unlinked(s, t), key)
<1> s \in Seq(T)
  BY DEF Links
<1>1. CASE t \notin ToSet(s)
  BY <1>1 DEF Unlinked, Links
<1>2. CASE t \in ToSet(s)
  <2> DEFINE j == CHOOSE i \in DOMAIN s : s[i] = t
             r == Unlinked(s, t)
  <2>1. j \in 1 .. Len(s) /\ s[j] = t
    BY <1>2 DEF ToSet
  <2>2. r = RemoveAt(s, j)
    BY <1>2 DEF Unlinked
  <2> HIDE DEF j, r
  <2>3. /\ r \in Seq(T)
        /\ Len(r) = Len(s) - 1
        /\ \A i \in 1 .. Len(r) : r[i] = IF i < j THEN s[i] ELSE s[i+1]
    BY <2>1, <2>2, RemoveAtFacts, SMTT(30)
  <2>4. \A a, b \in 1 .. Len(s) : s[a] = s[b] => a = b
    BY DEF IsInjective, Links
  <2> DEFINE f(i) == IF i < j THEN i ELSE i + 1
  <2>5. \A i \in 1 .. Len(r) : f(i) \in 1 .. Len(s) /\ f(i) # j /\ r[i] = s[f(i)]
    BY <2>1, <2>3
  <2>6. \A a, b \in 1 .. Len(r) : a < b => f(a) < f(b)
    BY <2>1, <2>3
  <2>7. \A i \in 1 .. Len(s) : i # j => \E a \in 1 .. Len(r) : f(a) = i
    <3> SUFFICES ASSUME NEW i \in 1 .. Len(s), i # j
                 PROVE  \E a \in 1 .. Len(r) : f(a) = i
      OBVIOUS
    <3>1. CASE i < j
      BY <2>1, <2>3, <3>1
    <3>2. CASE i > j
      <4>1. i - 1 \in 1 .. Len(r) /\ f(i - 1) = i
        BY <2>1, <2>3, <3>2
      <4> QED
        BY <4>1
    <3> QED
      BY <2>1, <3>1, <3>2
  <2> HIDE DEF f
  <2>8. IsInjective(r)
    <3>1. \A a, b \in 1 .. Len(r) : a # b => f(a) # f(b)
      <4> SUFFICES ASSUME NEW a \in 1 .. Len(r), NEW b \in 1 .. Len(r), a # b
                   PROVE  f(a) # f(b)
        OBVIOUS
      <4>1. f(a) \in Int /\ f(b) \in Int
        BY <2>5
      <4>2. a < b \/ b < a
        OBVIOUS
      <4> QED
        BY <2>6, <4>1, <4>2
    <3>2. \A a, b \in 1 .. Len(r) : r[a] = r[b] => a = b
      BY <2>4, <2>5, <3>1
    <3> QED
      BY <2>3, <3>2 DEF IsInjective
  <2>9. ToSet(r) = ToSet(s) \ {t}
    <3>1. ASSUME NEW x \in ToSet(r) PROVE x \in ToSet(s) \ {t}
      BY <2>1, <2>3, <2>4, <2>5, <3>1 DEF ToSet
    <3>2. ASSUME NEW x \in ToSet(s), x # t PROVE x \in ToSet(r)
      <4>1. PICK i \in 1 .. Len(s) : s[i] = x
        BY <3>2 DEF ToSet
      <4>2. PICK a \in 1 .. Len(r) : f(a) = i
        BY <2>1, <2>7, <3>2, <4>1
      <4> QED
        BY <2>3, <2>5, <4>1, <4>2 DEF ToSet
    <3> QED
      BY <3>1, <3>2
  <2>10. ASSUME NEW key, Sorted(s, key) PROVE Sorted(r, key)
    <3>0. DOMAIN r = 1 .. Len(r) /\ DOMAIN s = 1 .. Len(s)
      BY <2>3
    <3> SUFFICES ASSUME NEW a \in 1 .. Len(r), NEW b \in 1 .. Len(r), a < b
                 PROVE  key[r[a]] <= key[r[b]]
      BY <3>0, Zenon DEF Sorted
    <3>1. f(a) < f(b) /\ f(a) \in DOMAIN s /\ f(b) \in DOMAIN s
      BY <2>5, <2>6, <3>0
    <3>2. key[s[f(a)]] <= key[s[f(b)]]
      BY <2>10, <3>1 DEF Sorted
    <3> QED
      BY <2>5, <3>2
  <2> QED
    BY <2>3, <2>8, <2>9, <2>10 DEF r, Links
<1> QED
  BY <1>1, <1>2

\* Inserting an element that is not there, anywhere.
LEMMA LinksInsertAt ==
  ASSUME NEW T, NEW S, NEW s, Links(s, T, S), NEW t \in T \ S, NEW j \in 1 .. Len(s) + 1
  PROVE  Links(InsertAt(s, j, t), T, S \cup {t})
<1> DEFINE r == InsertAt(s, j, t)
<1> s \in Seq(T) BY DEF Links
<1>1. /\ r \in Seq(T)
      /\ Len(r) = Len(s) + 1
      /\ \A i \in 1 .. Len(r) : r[i] = IF i < j THEN s[i] ELSE IF i = j THEN t ELSE s[i-1]
  BY InsertAtFacts
<1> HIDE DEF r
<1>2. \A i \in 1 .. Len(s) : s[i] # t
  BY DEF Links, ToSet
<1>3. IsInjective(r)
  <2>1. \A a, b \in 1 .. Len(s) : s[a] = s[b] => a = b
    BY DEF IsInjective, Links
  <2> DEFINE f(i) == IF i < j THEN i ELSE i - 1
  <2>2. \A i \in 1 .. Len(r) : i # j => f(i) \in 1 .. Len(s) /\ r[i] = s[f(i)]
    BY <1>1
  <2>3. \A a, b \in 1 .. Len(r) : a # j /\ b # j /\ f(a) = f(b) => a = b
    BY <1>1
  <2>4. j \in 1 .. Len(r) /\ r[j] = t
    BY <1>1
  <2> HIDE DEF f
  <2>5. \A a \in 1 .. Len(r) : r[a] = t => a = j
    BY <1>2, <2>2
  <2>6. \A a, b \in 1 .. Len(r) : r[a] = r[b] => a = b
    BY <2>1, <2>2, <2>3, <2>4, <2>5
  <2> QED
    BY <1>1, <2>6 DEF IsInjective
<1>4. ToSet(r) = ToSet(s) \cup {t}
  <2>1. ToSet(r) \subseteq ToSet(s) \cup {t}
    BY <1>1 DEF ToSet
  <2>2. t \in ToSet(r)
    BY <1>1 DEF ToSet
  <2>3. ASSUME NEW x \in ToSet(s) PROVE x \in ToSet(r)
    <3>1. PICK i \in 1 .. Len(s) : s[i] = x
      BY <2>3 DEF ToSet
    <3>2. CASE i < j
      BY <1>1, <3>1, <3>2 DEF ToSet
    <3>3. CASE i >= j
      <4>1. i + 1 \in 1 .. Len(r)
        BY <1>1, <3>1, <3>3
      <4>2. r[i+1] = x
        BY <1>1, <3>1, <3>3, <4>1
      <4>3. DOMAIN r = 1 .. Len(r)
        BY <1>1
      <4> QED
        BY <4>1, <4>2, <4>3 DEF ToSet
    <3> QED
      BY <3>1, <3>2, <3>3
  <2> QED
    BY <2>1, <2>2, <2>3
<1> QED
  BY <1>1, <1>3, <1>4 DEF r, Links

\* The insertions in use: sorted, at the head, at the tail.
LEMMA LinksInsert ==
  ASSUME NEW T, NEW S, NEW s, Links(s, T, S), NEW t \in T \ S
  PROVE  /\ \A I \in SUBSET DOMAIN s : Links(InsertBeforeFirst(s, I, t), T, S \cup {t})
         /\ Links(<<t>> \o s, T, S \cup {t})
         /\ Links(Append(s, t), T, S \cup {t})
<1> s \in Seq(T) BY DEF Links
<1>1. ASSUME NEW I \in SUBSET DOMAIN s PROVE Links(InsertBeforeFirst(s, I, t), T, S \cup {t})
  <2>1. CASE I = {}
    BY <2>1, LinksInsertAt DEF InsertBeforeFirst
  <2>2. CASE I # {}
    <3>1. I \subseteq Nat
      OBVIOUS
    <3>2. Min(I) \in I
      BY <2>2, <3>1, LeastNat
    <3>3. Min(I) \in 1 .. Len(s) + 1
      BY <3>2
    <3> QED
      BY <2>2, <3>3, LinksInsertAt DEF InsertBeforeFirst
  <2> QED
    BY <2>1, <2>2
<1>2. Links(<<t>> \o s, T, S \cup {t})
  <2>1. InsertAt(s, 1, t) = << >> \o <<t>> \o s
    BY SubSeqEmpty, SubSeqFull DEF InsertAt
  <2>2. << >> \o <<t>> = <<t>>
    BY ConcatEmptySeq
  <2>3. Links(InsertAt(s, 1, t), T, S \cup {t})
    BY LinksInsertAt
  <2> QED
    BY <2>1, <2>2, <2>3
<1>3. Links(Append(s, t), T, S \cup {t})
  <2> DEFINE n == Len(s) + 1
  <2>1. SubSeq(s, 1, n - 1) = s /\ SubSeq(s, n, Len(s)) = << >>
    BY SubSeqEmpty, SubSeqFull
  <2>2. Append(s, t) = s \o <<t>> /\ s \o <<t>> \in Seq(T)
    BY AppendIsConcat
  <2>3. (s \o <<t>>) \o << >> = s \o <<t>>
    BY <2>2, ConcatEmptySeq
  <2>4. InsertAt(s, n, t) = Append(s, t)
    BY <2>1, <2>2, <2>3 DEF InsertAt
  <2>5. Links(InsertAt(s, n, t), T, S \cup {t})
    <3>1. n \in 1 .. Len(s) + 1
      OBVIOUS
    <3> QED
      BY <3>1, LinksInsertAt
  <2> QED
    BY <2>4, <2>5
<1> QED
  BY <1>1, <1>2, <1>3

\* Taking the first element out.
LEMMA LinksTail ==
  ASSUME NEW T, NEW S, NEW s, Links(s, T, S), s # << >>
  PROVE  /\ Links(Tail(s), T, S \ {Head(s)})
         /\ \A key : Sorted(s, key) => Sorted(Tail(s), key)
<1> DEFINE r == Tail(s)
<1>1. /\ s \in Seq(T) /\ r \in Seq(T) /\ Len(r) = Len(s) - 1
      /\ \A i \in 1 .. Len(r) : r[i] = s[i + 1]
      /\ Head(s) = s[1] /\ Len(s) \in Nat \ {0}
  BY DEF Links
<1>2. \A i, j \in 1 .. Len(s) : s[i] = s[j] => i = j
  BY DEF Links, IsInjective
<1> HIDE DEF r
<1>3. IsInjective(r)
  <2>1. \A i, j \in 1 .. Len(r) : r[i] = r[j] => i = j
    BY <1>1, <1>2
  <2> QED
    BY <1>1, <2>1 DEF IsInjective
<1>4. ToSet(r) = ToSet(s) \ {Head(s)}
  <2>1. ASSUME NEW x \in ToSet(r) PROVE x \in ToSet(s) \ {Head(s)}
    BY <1>1, <1>2, <2>1 DEF ToSet
  <2>2. ASSUME NEW x \in ToSet(s), x # Head(s) PROVE x \in ToSet(r)
    <3>1. PICK i \in 1 .. Len(s) : s[i] = x
      BY <1>1 DEF ToSet
    <3>2. i - 1 \in 1 .. Len(r) /\ r[i - 1] = x
      BY <1>1, <2>2, <3>1
    <3> QED
      BY <1>1, <3>2 DEF ToSet
  <2> QED
    BY <2>1, <2>2
<1>5. ASSUME NEW key, Sorted(s, key) PROVE Sorted(r, key)
  <2>0. DOMAIN r = 1 .. Len(r) /\ DOMAIN s = 1 .. Len(s)
    BY <1>1
  <2> SUFFICES ASSUME NEW a \in 1 .. Len(r), NEW b \in 1 .. Len(r), a < b
               PROVE  key[r[a]] <= key[r[b]]
    BY <2>0, Zenon DEF Sorted
  <2>1. /\ a + 1 \in DOMAIN s /\ b + 1 \in DOMAIN s /\ a + 1 < b + 1
        /\ r[a] = s[a + 1] /\ r[b] = s[b + 1]
    BY <1>1, <2>0
  <2>2. key[s[a + 1]] <= key[s[b + 1]]
    BY <1>5, <2>1 DEF Sorted
  <2> QED
    BY <2>1, <2>2
<1> QED
  BY <1>1, <1>3, <1>4, <1>5 DEF r, Links

\* Inserting before the first element with a larger key keeps a list sorted.
LEMMA SortedInsert ==
  ASSUME NEW T, NEW s \in Seq(T), NEW t \in T, NEW key \in [T -> Int], Sorted(s, key),
         NEW I, I = {i \in DOMAIN s : key[t] < key[s[i]]}
  PROVE  Sorted(InsertBeforeFirst(s, I, t), key)
<1> DEFINE j == IF I = {} THEN Len(s) + 1 ELSE Min(I)
           r == InsertBeforeFirst(s, I, t)
<1>0. DOMAIN s = 1 .. Len(s) /\ I \subseteq Nat /\ key[t] \in Int
  OBVIOUS
<1>1. \A i \in 1 .. Len(s) : key[s[i]] \in Int /\ (i \in I <=> key[t] < key[s[i]])
  OBVIOUS
<1>2. \A m, n \in 1 .. Len(s) : m <= n => key[s[m]] <= key[s[n]]
  <2> SUFFICES ASSUME NEW m \in 1 .. Len(s), NEW n \in 1 .. Len(s), m <= n
               PROVE  key[s[m]] <= key[s[n]]
    OBVIOUS
  <2>1. CASE m = n
    BY <2>1, <1>1
  <2>2. CASE m < n
    BY <2>2, <1>0 DEF Sorted
  <2> QED
    BY <2>1, <2>2
<1>3. /\ j \in 1 .. Len(s) + 1
      /\ \A i \in 1 .. Len(s) : i < j => i \notin I
      /\ \A i \in 1 .. Len(s) : j <= i => i \in I
  <2>1. CASE I = {}
    BY <2>1
  <2>2. CASE I # {}
    <3>1. j \in I /\ \A y \in I : j <= y
      BY <1>0, <2>2, LeastNat
    <3> HIDE DEF j
    <3>2. j \in 1 .. Len(s)
      BY <1>0, <3>1
    <3>3. \A i \in 1 .. Len(s) : i < j => i \notin I
      BY <3>1, <3>2
    <3>4. ASSUME NEW i \in 1 .. Len(s), j <= i PROVE i \in I
      <4>1. key[t] < key[s[j]] /\ key[s[j]] <= key[s[i]]
        BY <1>1, <1>2, <3>1, <3>2, <3>4
      <4>2. key[s[j]] \in Int /\ key[s[i]] \in Int
        BY <1>1, <3>2
      <4> QED
        BY <1>0, <1>1, <4>1, <4>2
    <3> QED
      BY <3>2, <3>3, <3>4
  <2> QED
    BY <2>1, <2>2
<1>4. r = InsertAt(s, j, t)
  BY DEF InsertBeforeFirst
<1> HIDE DEF j, r
<1>5. /\ r \in Seq(T)
      /\ Len(r) = Len(s) + 1
      /\ \A i \in 1 .. Len(r) : r[i] = IF i < j THEN s[i] ELSE IF i = j THEN t ELSE s[i-1]
  BY <1>3, <1>4, InsertAtFacts, SMTT(30)
<1>6. /\ \A i \in 1 .. Len(r) : i < j => i \in 1 .. Len(s) /\ r[i] = s[i]
      /\ \A i \in 1 .. Len(r) : i > j => i - 1 \in 1 .. Len(s) /\ j <= i - 1 /\ r[i] = s[i - 1]
      /\ j \in 1 .. Len(r) /\ r[j] = t
  BY <1>3, <1>5
<1>7. ASSUME NEW a \in 1 .. Len(r), NEW b \in 1 .. Len(r), a < b
      PROVE  key[r[a]] <= key[r[b]]
  <2>1. CASE b < j
    <3>1. /\ a \in 1 .. Len(s) /\ r[a] = s[a]
          /\ b \in 1 .. Len(s) /\ r[b] = s[b]
      BY <1>3, <1>6, <1>7, <2>1, SMTT(30)
    <3>2. a <= b
      BY <1>7
    <3>3. key[s[a]] <= key[s[b]]
      BY <1>2, <3>1, <3>2
    <3> QED
      BY <3>1, <3>3
  <2>2. CASE a > j
    <3>1. /\ a - 1 \in 1 .. Len(s) /\ r[a] = s[a - 1]
          /\ b - 1 \in 1 .. Len(s) /\ r[b] = s[b - 1]
      BY <1>3, <1>6, <1>7, <2>2
    <3>2. a - 1 <= b - 1
      BY <1>7
    <3>3. key[s[a - 1]] <= key[s[b - 1]]
      BY <1>2, <3>1, <3>2
    <3> QED
      BY <3>1, <3>3
  <2>3. a < j => key[r[a]] \in Int /\ key[r[a]] <= key[t]
    BY <1>0, <1>1, <1>3, <1>6
  <2>4. b > j => key[r[b]] \in Int /\ key[t] < key[r[b]]
    BY <1>0, <1>1, <1>3, <1>6
  <2>5. CASE a < j /\ b > j
    BY <1>0, <2>3, <2>4, <2>5
  <2>6. CASE a < j /\ b = j
    BY <1>6, <2>3, <2>6
  <2>7. CASE a = j /\ b > j
    BY <1>0, <1>6, <2>4, <2>7
  <2> QED
    BY <1>3, <1>7, <2>1, <2>2, <2>5, <2>6, <2>7
<1>8. DOMAIN r = 1 .. Len(r)
  BY <1>5
<1> QED
  BY <1>7, <1>8, Zenon DEF r, Sorted

\* A list is as long as the set it links.
LEMMA LinksLen ==
  ASSUME NEW T, NEW S, NEW s, Links(s, T, S)
  PROVE  IsFiniteSet(S) /\ Cardinality(S) = Len(s)
<1>1. s \in Seq(T) /\ Len(s) \in Nat /\ DOMAIN s = 1 .. Len(s) /\ S = ToSet(s)
  BY DEF Links
<1>2. s \in [1 .. Len(s) -> S] /\ \A x \in S : \E i \in 1 .. Len(s) : s[i] = x
  BY <1>1 DEF ToSet
<1>3. \A i, j \in 1 .. Len(s) : s[i] = s[j] => i = j
  BY <1>1 DEF Links, IsInjective
<1>4. s \in Bijection(1 .. Len(s), S)
  BY <1>2, <1>3, Fun_IsBij
<1>5. IsFiniteSet(1 .. Len(s)) /\ Cardinality(1 .. Len(s)) = Len(s)
  BY <1>1, FS_Interval, SMTT(30)
<1> QED
  BY <1>4, <1>5, FS_Bijection DEF ExistsBijection

\* A list of all elements of a finite set.
LEMMA LinksSetToSeq ==
  ASSUME NEW T, NEW S \in SUBSET T, IsFiniteSet(S)
  PROVE  Links(SetToSeq(S), T, S)
<1> DEFINE n == Cardinality(S)
           s == SetToSeq(S)
<1>1. n \in Nat /\ ExistsBijection(1 .. n, S)
  BY FS_CardinalityType
<1>2. PICK f : f \in Bijection(1 .. n, S)
  BY <1>1 DEF ExistsBijection
<1>3. f \in [1 .. n -> S] /\ IsInjective(f)
  BY <1>2 DEF Bijection, Injection, IsInjective
<1>4. s \in [1 .. n -> S] /\ IsInjective(s)
  BY <1>3 DEF SetToSeq
<1> HIDE DEF s
<1>5. s \in Injection(1 .. n, S)
  BY <1>4 DEF Injection, IsInjective
<1>6. Cardinality(1 .. n) = n
  BY <1>1, FS_Interval
<1>7. s \in Surjection(1 .. n, S)
  BY <1>5, <1>6, FS_Injection
<1>8. ToSet(s) = S
  <2>1. \A x \in S : \E i \in 1 .. n : s[i] = x
    BY <1>7 DEF Surjection
  <2> QED
    BY <1>4, <2>1 DEF ToSet
<1>9. s \in Seq(T)
  BY <1>1, <1>4
<1> QED
  BY <1>4, <1>8, <1>9 DEF Links, s

\* One list, turned round, in front of another.
LEMMA LinksReverse ==
  ASSUME NEW T, NEW S, NEW s, Links(s, T, S), NEW R, NEW r, Links(r, T, R), S \cap R = {}
  PROVE  Links(Reverse(s) \o r, T, S \cup R)
<1> DEFINE v == Reverse(s)
           q == v \o r
           m == Len(s)
           n == Len(r)
<1>1. s \in Seq(T) /\ r \in Seq(T) /\ m \in Nat /\ n \in Nat
  BY DEF Links
<1>2. v \in Seq(T) /\ Len(v) = m /\ \A i \in 1 .. m : v[i] = s[(m - i) + 1]
  BY <1>1 DEF Reverse
<1>3. \A i, j \in 1 .. m : s[i] = s[j] => i = j
  BY <1>1 DEF Links, IsInjective
<1>4. \A i, j \in 1 .. n : r[i] = r[j] => i = j
  BY <1>1 DEF Links, IsInjective
<1>5. \A i \in 1 .. m : s[i] \in S
  BY LinksFacts
<1>6. \A i \in 1 .. n : r[i] \in R
  BY LinksFacts
<1> HIDE DEF v, m, n
<1>7. /\ q \in Seq(T) /\ Len(q) = m + n
      /\ \A i \in 1 .. m + n : q[i] = IF i <= m THEN v[i] ELSE r[i - m]
  BY <1>1, <1>2, ConcatProperties DEF n
<1> HIDE DEF q
<1>8. \A i \in 1 .. m : q[i] = s[(m - i) + 1] /\ q[i] \in S /\ (m - i) + 1 \in 1 .. m
  BY <1>1, <1>2, <1>5, <1>7
<1>9. \A i \in m + 1 .. m + n : q[i] = r[i - m] /\ q[i] \in R /\ i - m \in 1 .. n
  BY <1>1, <1>6, <1>7
<1>10. IsInjective(q)
  <2> SUFFICES ASSUME NEW i \in 1 .. m + n, NEW j \in 1 .. m + n, q[i] = q[j]
               PROVE  i = j
    BY <1>7 DEF IsInjective
  <2>1. CASE i <= m /\ j <= m
    BY <1>1, <1>3, <1>8, <2>1
  <2>2. CASE i > m /\ j > m
    BY <1>1, <1>4, <1>9, <2>2
  <2>3. CASE (i <= m /\ j > m) \/ (i > m /\ j <= m)
    BY <1>1, <1>8, <1>9, <2>3
  <2> QED
    BY <1>1, <2>1, <2>2, <2>3
<1>11. ToSet(q) = S \cup R
  <2>1. ASSUME NEW i \in 1 .. m + n PROVE q[i] \in S \cup R
    <3>1. CASE i <= m
      BY <1>1, <1>8, <3>1
    <3>2. CASE i > m
      BY <1>1, <1>9, <3>2
    <3> QED
      BY <1>1, <3>1, <3>2
  <2>2. ASSUME NEW x \in S PROVE \E i \in 1 .. m + n : q[i] = x
    <3>1. PICK j \in 1 .. m : s[j] = x
      BY <1>1 DEF Links, ToSet, m
    <3>2. (m - j) + 1 \in 1 .. m /\ (m - ((m - j) + 1)) + 1 = j
      BY <1>1
    <3>3. q[(m - j) + 1] = x
      BY <1>8, <3>1, <3>2
    <3> QED
      BY <1>1, <3>2, <3>3
  <2>3. ASSUME NEW x \in R PROVE \E i \in 1 .. m + n : q[i] = x
    <3>1. PICK j \in 1 .. n : r[j] = x
      BY <1>1 DEF Links, ToSet, n
    <3>2. j + m \in m + 1 .. m + n /\ (j + m) - m = j
      BY <1>1
    <3>3. q[j + m] = x
      BY <1>9, <3>1, <3>2
    <3> QED
      BY <1>1, <3>2, <3>3
  <2>4. DOMAIN q = 1 .. m + n
    BY <1>7
  <2> QED
    BY <2>1, <2>2, <2>3, <2>4 DEF ToSet
<1> QED
  BY <1>7, <1>10, <1>11 DEF Links, q, v

=============================================================================
