------------------------- MODULE FiscalCounters_proofs -------------------------
(***************************************************************************)
(* Theorems about receipts of any length and days of any number of them:   *)
(* amounts, taxes and totals (Money, Receipts), and the counters of both   *)
(* sides (FiscalCounters).  In parts: sums over sequences, sorting,        *)
(* rounding and amounts, the taxes of a receipt, the receipts of the day,  *)
(* counters and what is added to them, merging, the counters of the day.   *)
(***************************************************************************)
EXTENDS FiscalCounters, SequenceTheorems, FiniteSetTheorems, NaturalsInduction, WellFoundedInduction, TLAPS

-----------------------------------------------------------------------------
(* Sums.  What holds of the sums of the first elements holds of the sum.   *)

LEMMA Induction ==
  ASSUME NEW T, 0 \in T, \A k \in Nat : k \in T => k + 1 \in T
  PROVE  \A k \in Nat : k \in T
<1> DEFINE R == OpToRel(<, Nat)
           Missing == {k \in Nat : k \notin T}
<1>1. IsWellFoundedOn(R, Nat)
  BY NatLessThanWellFounded
<1>2. \A k, m \in Nat : k < m => <<k, m>> \in R
  BY DEF OpToRel
<1> HIDE DEF R
<1>3. SUFFICES ASSUME Missing # {}
               PROVE  FALSE
  OBVIOUS
<1>4. PICK m \in Missing : \A k \in Missing : ~ (<<k, m>> \in R)
  BY <1>1, <1>3, WFMin
<1>5. m \in Nat /\ m # 0 /\ m - 1 \in Nat /\ m - 1 < m /\ (m - 1) + 1 = m
  BY <1>4
<1>6. m - 1 \notin Missing
  BY <1>2, <1>4, <1>5
<1> QED
  BY <1>4, <1>5, <1>6

\* g begins with s and takes n steps.
Follows(g, C, s, n, step) ==
  g \in [0..n -> C] /\ g[0] = s /\ \A i \in 1..n : g[i] = step[<<g[i - 1], i>>]

\* A function defined step by step exists.
LEMMA Recursion ==
  ASSUME NEW C, NEW s \in C, NEW n \in Nat, NEW step \in [C \X (1..n) -> C]
  PROVE  \E g : Follows(g, C, s, n, step)
<1> DEFINE Is(g, m) == /\ g \in [0..m -> C] /\ g[0] = s
                       /\ \A i \in 1..m : g[i] = step[<<g[i - 1], i>>]
           Exists(m) == m <= n => \E g : Is(g, m)
           T == {m \in Nat : Exists(m)}
<1>1. Exists(0)
  <2> DEFINE h == [i \in 0..0 |-> s]
  <2>1. h \in [0..0 -> C] /\ h[0] = s
    OBVIOUS
  <2> HIDE DEF h
  <2>2. Is(h, 0)
    BY <2>1
  <2> HIDE DEF Is
  <2> QED
    BY <2>2
<1>2. ASSUME NEW m \in Nat, Exists(m)
      PROVE  Exists(m + 1)
  <2>1. SUFFICES ASSUME m + 1 <= n
                 PROVE  \E g : Is(g, m + 1)
    OBVIOUS
  <2>2. PICK g : Is(g, m)
    <3>1. m <= n
      BY <2>1
    <3> HIDE DEF Is
    <3> QED
      BY ONLY <1>2, <3>1
  <2>3. g \in [0..m -> C] /\ g[0] = s /\ \A i \in 1..m : g[i] = step[<<g[i - 1], i>>]
    BY <2>2
  <2> DEFINE last == step[<<g[m], m + 1>>]
             h == [i \in 0..(m + 1) |-> IF i = m + 1 THEN last ELSE g[i]]
  <2>4. g[m] \in C /\ m + 1 \in 1..n
    BY <2>1, <2>3
  <2>5. last \in C
    BY <2>4
  <2>6. h[m + 1] = last /\ \A i \in 0..m : h[i] = g[i]
    OBVIOUS
  <2>7. h \in [0..(m + 1) -> C]
    <3> HIDE DEF last
    <3> QED
      BY <2>3, <2>5
  <2> HIDE DEF h
  <2>8. h[0] = s
    BY <2>3, <2>6
  <2>9. ASSUME NEW i \in 1..(m + 1)
        PROVE  h[i] = step[<<h[i - 1], i>>]
    <3>1. CASE i = m + 1
      <4>1. h[i] = last /\ i - 1 = m /\ h[m] = g[m]
        BY <2>6, <3>1
      <4> QED
        BY <3>1, <4>1
    <3>2. CASE i # m + 1
      <4>1. i \in 1..m /\ i \in 0..m /\ i - 1 \in 0..m
        BY <3>2
      <4> QED
        BY <2>3, <2>6, <4>1
    <3> QED
      BY <3>1, <3>2
  <2>10. Is(h, m + 1)
    BY <2>7, <2>8, <2>9
  <2> HIDE DEF Is
  <2> QED
    BY <2>10
<1>3. 0 \in T /\ \A k \in Nat : k \in T => k + 1 \in T
  <2> HIDE DEF Exists
  <2> QED
    BY <1>1, <1>2
<1>4. Exists(n)
  <2> HIDE DEF T
  <2>1. n \in T
    BY <1>3, Induction
  <2> QED
    BY <2>1 DEF T
<1> QED
  BY <1>4 DEF Follows

LEMMA PartialSumsExist ==
  ASSUME NEW s \in Seq(Int)
  PROVE  \E g \in [0..Len(s) -> Int] :
           g[0] = 0 /\ \A i \in 1..Len(s) : g[i] = g[i - 1] + s[i]
<1> DEFINE Is(g, n) == g[0] = 0 /\ \A i \in 1..n : g[i] = g[i - 1] + s[i]
           Exists(n) == n <= Len(s) => \E g \in [0..n -> Int] : Is(g, n)
           T == {n \in Nat : Exists(n)}
<1>1. Exists(0)
  <2>1. [i \in 0..0 |-> 0] \in [0..0 -> Int] /\ Is([i \in 0..0 |-> 0], 0)
    OBVIOUS
  <2> QED
    BY <2>1
<1>2. ASSUME NEW n \in Nat, Exists(n)
      PROVE  Exists(n + 1)
  <2>1. SUFFICES ASSUME n + 1 <= Len(s)
                 PROVE  \E g \in [0..(n + 1) -> Int] : Is(g, n + 1)
    OBVIOUS
  <2>0. n <= Len(s)
    BY <2>1
  <2>2. PICK g \in [0..n -> Int] : Is(g, n)
    <3> HIDE DEF Is
    <3> QED
      BY ONLY <1>2, <2>0
  <2> DEFINE h == [i \in 0..(n + 1) |-> IF i = n + 1 THEN g[n] + s[n + 1] ELSE g[i]]
  <2>3. s[n + 1] \in Int
    BY <2>1
  <2>4. h \in [0..(n + 1) -> Int]
    BY <2>2, <2>3
  <2>5. Is(h, n + 1)
    <3>1. h[0] = 0
      BY <2>2
    <3>2. ASSUME NEW i \in 1..(n + 1)
          PROVE  h[i] = h[i - 1] + s[i]
      <4>1. CASE i = n + 1
        <5>1. h[i] = g[n] + s[i] /\ i - 1 = n /\ h[n] = g[n]
          BY <4>1
        <5> QED
          BY <5>1
      <4>2. CASE i # n + 1
        <5>1. i \in 1..n /\ i - 1 \in 0..n /\ i - 1 # n + 1
          BY <4>2
        <5>2. h[i] = g[i] /\ h[i - 1] = g[i - 1]
          BY <5>1
        <5> QED
          BY <2>2, <5>1, <5>2
      <4> QED
        BY <4>1, <4>2
    <3> QED
      BY <3>1, <3>2
  <2> QED
    BY <2>4, <2>5
<1> HIDE DEF Exists
<1>3. 0 \in T /\ \A k \in Nat : k \in T => k + 1 \in T
  BY <1>1, <1>2
<1>4. Exists(Len(s))
  <2> HIDE DEF T
  <2>1. Len(s) \in T
    BY <1>3, Induction
  <2> QED
    BY <2>1 DEF T
<1> QED
  BY <1>4 DEF Exists

LEMMA PartialSumsAre ==
  ASSUME NEW s \in Seq(Int)
  PROVE  /\ PartialSums(s) \in [0..Len(s) -> Int]
         /\ PartialSums(s)[0] = 0
         /\ \A i \in 1..Len(s) : PartialSums(s)[i] = PartialSums(s)[i - 1] + s[i]
         /\ SumOf(s) = PartialSums(s)[Len(s)]
         /\ SumOf(s) \in Int
<1> DEFINE n == Len(s)
           F(f) == [i \in 0..n |-> IF i = 0 THEN 0 ELSE f[i - 1] + s[i]]
<1>0. n \in Nat
  OBVIOUS
<1>1. PartialSums(s) = CHOOSE f : f = F(f)
  BY DEF PartialSums
<1>2. PICK g \in [0..n -> Int] : g[0] = 0 /\ \A i \in 1..n : g[i] = g[i - 1] + s[i]
  BY PartialSumsExist
<1> HIDE DEF n
<1>3. g = F(g)
  <2>1. \A i \in 0..n : g[i] = IF i = 0 THEN 0 ELSE g[i - 1] + s[i]
    BY <1>0, <1>2
  <2> QED
    BY <1>2, <2>1
<1>4. PartialSums(s) = F(PartialSums(s))
  BY <1>1, <1>3
<1> DEFINE p == PartialSums(s)
           T == {k \in Nat : k <= n => p[k] = g[k]}
<1>5. \A i \in 0..n : p[i] = IF i = 0 THEN 0 ELSE p[i - 1] + s[i]
  BY <1>4
<1> HIDE DEF p
<1>6. 0 \in T
  BY <1>0, <1>2, <1>5
<1>7. ASSUME NEW k \in Nat, k \in T
      PROVE  k + 1 \in T
  <2>1. SUFFICES ASSUME k + 1 <= n
                 PROVE  p[k + 1] = g[k + 1]
    BY <1>7
  <2>2. p[k] = g[k] /\ k + 1 \in 0..n /\ k + 1 \in 1..n /\ k + 1 # 0 /\ (k + 1) - 1 = k
    BY <1>0, <1>7, <2>1
  <2>3. p[k + 1] = p[k] + s[k + 1]
    BY <1>5, <2>2
  <2>4. g[k + 1] = g[k] + s[k + 1]
    BY <1>2, <2>2
  <2> QED
    BY <2>2, <2>3, <2>4
<1>8. \A k \in 0..n : p[k] = g[k]
  <2> HIDE DEF T
  <2>1. \A k \in Nat : k \in T
    BY <1>6, <1>7, Induction
  <2> QED
    BY <1>0, <2>1 DEF T
<1>9. DOMAIN p = 0..n /\ p = [i \in 0..n |-> p[i]]
  BY <1>4 DEF p
<1>10. p = g
  BY <1>2, <1>8, <1>9
<1> QED
  BY <1>0, <1>2, <1>10 DEF p, n, SumOf

\* g gives the sums of the first elements.
LEMMA SumIs ==
  ASSUME NEW s \in Seq(Int), NEW g,
         g[0] = 0, \A i \in 1..Len(s) : g[i] = g[i - 1] + s[i]
  PROVE  SumOf(s) = g[Len(s)]
<1> DEFINE n == Len(s)
           p == PartialSums(s)
           T == {k \in Nat : k <= n => p[k] = g[k]}
<1>1. /\ p[0] = 0 /\ SumOf(s) = p[n] /\ n \in Nat
      /\ \A i \in 1..n : p[i] = p[i - 1] + s[i]
  BY ONLY s \in Seq(Int), PartialSumsAre
<1>2. \A i \in 1..n : g[i] = g[i - 1] + s[i]
  OBVIOUS
<1> HIDE DEF n, p
<1>3. 0 \in T
  BY <1>1
<1>4. ASSUME NEW k \in Nat, k \in T
      PROVE  k + 1 \in T
  <2>1. SUFFICES ASSUME k + 1 <= n
                 PROVE  p[k + 1] = g[k + 1]
    BY <1>4
  <2>2. p[k] = g[k] /\ k + 1 \in 1..n /\ (k + 1) - 1 = k
    BY <1>1, <1>4, <2>1
  <2> QED
    BY <1>1, <1>2, <2>2
<1>5. n \in T
  <2> HIDE DEF T
  <2> QED
    BY <1>1, <1>3, <1>4, Induction
<1> QED
  BY <1>1, <1>5 DEF n

LEMMA SumAdd ==
  ASSUME NEW s \in Seq(Int), NEW t \in Seq(Int), NEW u \in Seq(Int),
         Len(t) = Len(s), Len(u) = Len(s), \A i \in 1..Len(s) : u[i] = s[i] + t[i]
  PROVE  SumOf(u) = SumOf(s) + SumOf(t)
<1> DEFINE n == Len(s)
           p == PartialSums(s)
           q == PartialSums(t)
           g == [i \in 0..n |-> p[i] + q[i]]
<1>1. /\ n \in Nat /\ p \in [0..n -> Int] /\ p[0] = 0 /\ SumOf(s) = p[n]
      /\ \A i \in 1..n : p[i] = p[i - 1] + s[i]
  BY ONLY s \in Seq(Int), PartialSumsAre
<1>2. /\ q \in [0..n -> Int] /\ q[0] = 0 /\ SumOf(t) = q[n]
      /\ \A i \in 1..n : q[i] = q[i - 1] + t[i]
  BY ONLY t \in Seq(Int), PartialSumsAre, Len(t) = Len(s)
<1>3. \A i \in 1..n : u[i] = s[i] + t[i] /\ s[i] \in Int /\ t[i] \in Int
  OBVIOUS
<1>4. Len(u) = n
  OBVIOUS
<1> HIDE DEF n, p, q
<1>5. g[0] = 0
  BY <1>1, <1>2
<1>6. ASSUME NEW i \in 1..n
      PROVE  g[i] = g[i - 1] + u[i]
  <2>1. i - 1 \in 0..n /\ i \in 0..n
    BY <1>1
  <2>2. PICK a, b, c, d \in Int : p[i - 1] = a /\ q[i - 1] = b /\ s[i] = c /\ t[i] = d
    BY <1>1, <1>2, <1>3, <2>1
  <2>3. p[i] = a + c /\ q[i] = b + d /\ u[i] = c + d
    BY <1>1, <1>2, <1>3, <2>2
  <2>4. (a + c) + (b + d) = (a + b) + (c + d)
    OBVIOUS
  <2> QED
    BY <2>1, <2>2, <2>3, <2>4
<1>7. SumOf(u) = g[n]
  <2> HIDE DEF g
  <2> QED
    BY <1>4, <1>5, <1>6, SumIs
<1> QED
  BY <1>1, <1>2, <1>7

LEMMA SumScale ==
  ASSUME NEW s \in Seq(Int), NEW u \in Seq(Int), NEW c \in Int,
         Len(u) = Len(s), \A i \in 1..Len(s) : u[i] = c * s[i]
  PROVE  SumOf(u) = c * SumOf(s)
<1> DEFINE n == Len(s)
           p == PartialSums(s)
           g == [i \in 0..n |-> c * p[i]]
<1>1. /\ n \in Nat /\ p \in [0..n -> Int] /\ p[0] = 0 /\ SumOf(s) = p[n]
      /\ \A i \in 1..n : p[i] = p[i - 1] + s[i]
  BY ONLY s \in Seq(Int), PartialSumsAre
<1>2. \A i \in 1..n : u[i] = c * s[i] /\ s[i] \in Int
  OBVIOUS
<1>3. Len(u) = n
  OBVIOUS
<1> HIDE DEF n, p
<1>4. g[0] = 0
  BY <1>1
<1>5. ASSUME NEW i \in 1..n
      PROVE  g[i] = g[i - 1] + u[i]
  <2>1. i - 1 \in 0..n /\ i \in 0..n
    BY <1>1
  <2>2. PICK a, b \in Int : p[i - 1] = a /\ s[i] = b
    BY <1>1, <1>2, <2>1
  <2>3. c * (a + b) = c * a + c * b
    OBVIOUS
  <2>4. p[i] = a + b /\ u[i] = c * b
    BY <1>1, <1>2, <2>2
  <2> QED
    BY <2>1, <2>2, <2>3, <2>4
<1>6. SumOf(u) = g[n]
  <2> HIDE DEF g
  <2> QED
    BY <1>3, <1>4, <1>5, SumIs
<1> QED
  BY <1>1, <1>6

LEMMA SumMonotone ==
  ASSUME NEW s \in Seq(Int), NEW t \in Seq(Int),
         Len(t) = Len(s), \A i \in 1..Len(s) : s[i] <= t[i]
  PROVE  SumOf(s) <= SumOf(t)
<1> DEFINE n == Len(s)
           p == PartialSums(s)
           q == PartialSums(t)
           T == {k \in Nat : k <= n => p[k] <= q[k]}
<1>1. /\ n \in Nat /\ p \in [0..n -> Int] /\ p[0] = 0 /\ SumOf(s) = p[n]
      /\ \A i \in 1..n : p[i] = p[i - 1] + s[i]
  BY ONLY s \in Seq(Int), PartialSumsAre
<1>2. /\ q \in [0..n -> Int] /\ q[0] = 0 /\ SumOf(t) = q[n]
      /\ \A i \in 1..n : q[i] = q[i - 1] + t[i]
  BY ONLY t \in Seq(Int), PartialSumsAre, Len(t) = Len(s)
<1>3. \A i \in 1..n : s[i] <= t[i] /\ s[i] \in Int /\ t[i] \in Int
  OBVIOUS
<1> HIDE DEF n, p, q
<1>4. 0 \in T
  BY <1>1, <1>2
<1>5. ASSUME NEW k \in Nat, k \in T
      PROVE  k + 1 \in T
  <2>1. SUFFICES ASSUME k + 1 <= n
                 PROVE  p[k + 1] <= q[k + 1]
    BY <1>5
  <2>2. p[k] <= q[k] /\ k + 1 \in 1..n /\ (k + 1) - 1 = k /\ p[k] \in Int /\ q[k] \in Int
    BY <1>1, <1>2, <1>5, <2>1
  <2>3. PICK a, b, c, d \in Int : p[k] = a /\ q[k] = b /\ s[k + 1] = c /\ t[k + 1] = d
    BY <1>3, <2>2
  <2>4. p[k + 1] = a + c /\ q[k + 1] = b + d /\ a <= b /\ c <= d
    BY <1>1, <1>2, <1>3, <2>2, <2>3
  <2> QED
    BY <2>4
<1>6. n \in T
  <2> HIDE DEF T
  <2> QED
    BY <1>1, <1>4, <1>5, Induction
<1> QED
  BY <1>1, <1>2, <1>6

\* One element only counts.
LEMMA SumSingle ==
  ASSUME NEW s \in Seq(Int), NEW k \in 1..Len(s), \A i \in 1..Len(s) : i # k => s[i] = 0
  PROVE  SumOf(s) = s[k]
<1> DEFINE n == Len(s)
           g == [i \in 0..n |-> IF i < k THEN 0 ELSE s[k]]
<1>1. n \in Nat /\ k \in Nat /\ 1 <= k /\ k <= n /\ s[k] \in Int
  OBVIOUS
<1>2. \A i \in 1..n : i # k => s[i] = 0
  OBVIOUS
<1> HIDE DEF n
<1>3. g[0] = 0 /\ g[n] = s[k]
  BY <1>1
<1>4. ASSUME NEW i \in 1..n
      PROVE  g[i] = g[i - 1] + s[i]
  BY <1>1, <1>2
<1> HIDE DEF g
<1>5. SumOf(s) = g[n]
  BY <1>3, <1>4, SumIs DEF n
<1> QED
  BY <1>3, <1>5

LEMMA SumZero ==
  ASSUME NEW s \in Seq(Int), \A i \in 1..Len(s) : s[i] = 0
  PROVE  SumOf(s) = 0
<1> DEFINE g == [i \in 0..Len(s) |-> 0]
<1>1. Len(s) \in Nat /\ g[0] = 0 /\ g[Len(s)] = 0 /\ \A i \in 1..Len(s) : g[i] = g[i - 1] + s[i]
  OBVIOUS
<1> HIDE DEF g
<1> QED
  BY <1>1, SumIs

LEMMA SumAppend ==
  ASSUME NEW s \in Seq(Int), NEW t \in Seq(Int),
         Len(t) = Len(s) + 1, \A i \in 1..Len(s) : t[i] = s[i]
  PROVE  SumOf(t) = SumOf(s) + t[Len(s) + 1]
<1> DEFINE n == Len(s)
           p == PartialSums(s)
           g == [i \in 0..(n + 1) |-> IF i = n + 1 THEN p[n] + t[n + 1] ELSE p[i]]
<1>1. /\ n \in Nat /\ p \in [0..n -> Int] /\ p[0] = 0 /\ SumOf(s) = p[n]
      /\ \A i \in 1..n : p[i] = p[i - 1] + s[i]
  BY ONLY s \in Seq(Int), PartialSumsAre
<1>2. Len(t) = n + 1 /\ \A i \in 1..n : t[i] = s[i]
  OBVIOUS
<1> HIDE DEF n, p
<1>3. g[n + 1] = p[n] + t[n + 1] /\ \A i \in 0..n : g[i] = p[i]
  BY <1>1
<1> HIDE DEF g
<1>4. g[0] = 0
  BY <1>1, <1>3
<1>5. ASSUME NEW i \in 1..(n + 1)
      PROVE  g[i] = g[i - 1] + t[i]
  <2>1. CASE i = n + 1
    BY <1>1, <1>3, <2>1
  <2>2. CASE i # n + 1
    <3>1. i \in 1..n /\ i \in 0..n /\ i - 1 \in 0..n
      BY <1>1, <2>2
    <3> QED
      BY <1>1, <1>2, <1>3, <3>1
  <2> QED
    BY <2>1, <2>2
<1>6. SumOf(t) = g[n + 1]
  BY <1>2, <1>4, <1>5, SumIs
<1> QED
  BY <1>1, <1>3, <1>6 DEF n

LEMMA SumConcat ==
  ASSUME NEW s \in Seq(Int), NEW t \in Seq(Int)
  PROVE  SumOf(s \o t) = SumOf(s) + SumOf(t)
<1> DEFINE m == Len(s)
           n == Len(t)
           u == s \o t
           p == PartialSums(s)
           q == PartialSums(t)
           g == [i \in 0..(m + n) |-> IF i <= m THEN p[i] ELSE p[m] + q[i - m]]
<1>1. /\ m \in Nat /\ p \in [0..m -> Int] /\ p[0] = 0 /\ SumOf(s) = p[m]
      /\ \A i \in 1..m : p[i] = p[i - 1] + s[i]
  BY ONLY s \in Seq(Int), PartialSumsAre
<1>2. /\ n \in Nat /\ q \in [0..n -> Int] /\ q[0] = 0 /\ SumOf(t) = q[n]
      /\ \A i \in 1..n : q[i] = q[i - 1] + t[i]
  BY ONLY t \in Seq(Int), PartialSumsAre
<1>3. /\ u \in Seq(Int) /\ Len(u) = m + n
      /\ \A i \in 1..(m + n) : u[i] = IF i <= m THEN s[i] ELSE t[i - m]
      /\ \A i \in 1..n : t[i] \in Int
  OBVIOUS
<1> HIDE DEF m, n, p, q, u
<1>4. g[0] = 0
  BY <1>1, <1>2
<1>5. g[m + n] = p[m] + q[n]
  <2>1. CASE n = 0
    BY <1>1, <1>2, <2>1
  <2>2. CASE n # 0
    BY <1>1, <1>2, <2>2
  <2> QED
    BY <2>1, <2>2
<1>6. ASSUME NEW i \in 1..(m + n)
      PROVE  g[i] = g[i - 1] + u[i]
  <2>1. CASE i <= m
    <3>1. i \in 1..m /\ i - 1 <= m /\ i \in 0..(m + n) /\ i - 1 \in 0..(m + n)
      BY <1>1, <1>2, <2>1
    <3>2. g[i] = p[i] /\ g[i - 1] = p[i - 1] /\ u[i] = s[i]
      BY <1>3, <3>1
    <3> QED
      BY <1>1, <3>1, <3>2
  <2>2. CASE i = m + 1
    <3>0. /\ i - m = 1 /\ i - 1 = m /\ ~(i <= m) /\ m <= m /\ 1 \in 1..n
          /\ i \in 0..(m + n) /\ m \in 0..(m + n)
      BY <1>1, <1>2, <2>2
    <3>1. g[i] = p[m] + q[1] /\ g[i - 1] = p[m] /\ u[i] = t[1] /\ 1 \in 1..n
      BY <1>3, <3>0
    <3>2. q[1] = q[0] + t[1]
      BY <1>2, <3>1
    <3>3. t[1] \in Int /\ p[m] \in Int
      BY <1>1, <1>3, <3>1
    <3> QED
      BY <1>2, <3>1, <3>2, <3>3
  <2>3. CASE m + 1 < i
    <3> DEFINE j == i - m
    <3>1. j \in 1..n /\ j - 1 \in 0..n /\ (i - 1) - m = j - 1 /\ ~(i <= m) /\ ~(i - 1 <= m)
          /\ i \in 0..(m + n) /\ i - 1 \in 0..(m + n)
      BY <1>1, <1>2, <2>3
    <3>2. g[i] = p[m] + q[j] /\ g[i - 1] = p[m] + q[j - 1] /\ u[i] = t[j]
      BY <1>3, <3>1
    <3> HIDE DEF j
    <3>5. p[m] \in Int
      BY <1>1
    <3>6. j \in 1..n /\ j - 1 \in 0..n
      BY <3>1
    <3>7. q[j - 1] \in Int /\ t[j] \in Int
      BY <1>2, <1>3, <3>6
    <3>3. PICK a, b, c \in Int : p[m] = a /\ q[j - 1] = b /\ t[j] = c
      BY ONLY <3>5, <3>7
    <3>4. q[j] = b + c /\ a + (b + c) = (a + b) + c
      BY <1>2, <3>1, <3>3
    <3> QED
      BY <3>2, <3>3, <3>4
  <2> QED
    BY <1>1, <1>2, <2>1, <2>2, <2>3
<1>7. SumOf(u) = g[m + n]
  <2> HIDE DEF g
  <2> QED
    BY <1>3, <1>4, <1>6, SumIs
<1> QED
  BY <1>1, <1>2, <1>5, <1>7 DEF u

LEMMA SumCount ==
  ASSUME NEW n \in Nat, NEW G \in SUBSET (1..n)
  PROVE  SumOf([i \in 1..n |-> IF i \in G THEN 1 ELSE 0]) = Cardinality(G)
<1> DEFINE u == [i \in 1..n |-> IF i \in G THEN 1 ELSE 0]
           H(i) == G \cap (1..i)
           g == [i \in 0..n |-> Cardinality(H(i))]
<1>1. u \in Seq(Int) /\ Len(u) = n
  OBVIOUS
<1>2. \A i \in 0..n : IsFiniteSet(H(i))
  <2> TAKE i \in 0..n
  <2>1. IsFiniteSet(1..i) /\ H(i) \in SUBSET (1..i)
    BY FS_Interval
  <2> QED
    BY <2>1, FS_Subset
<1>3. g[0] = 0
  <2>1. H(0) = {}
    OBVIOUS
  <2> QED
    BY <2>1, FS_EmptySet
<1>4. ASSUME NEW i \in 1..n
      PROVE  g[i] = g[i - 1] + u[i]
  <2>1. i \in 0..n /\ i - 1 \in 0..n
    OBVIOUS
  <2>2. i \notin H(i - 1) /\ H(i) = IF i \in G THEN H(i - 1) \cup {i} ELSE H(i - 1)
    OBVIOUS
  <2>3. IsFiniteSet(H(i - 1)) /\ g[i] = Cardinality(H(i)) /\ g[i - 1] = Cardinality(H(i - 1))
    BY <1>2, <2>1
  <2>4. u[i] = IF i \in G THEN 1 ELSE 0
    OBVIOUS
  <2> HIDE DEF H, g, u
  <2>5. Cardinality(H(i - 1)) \in Nat
    BY <2>3, FS_CardinalityType
  <2>6. Cardinality(H(i - 1) \cup {i}) = Cardinality(H(i - 1)) + 1
    BY ONLY <2>2, <2>3, FS_AddElement
  <2>7. CASE i \in G
    BY <2>2, <2>3, <2>4, <2>6, <2>7
  <2>8. CASE i \notin G
    BY <2>2, <2>3, <2>4, <2>5, <2>8
  <2> QED
    BY <2>7, <2>8
<1>5. g[n] = Cardinality(G)
  <2>1. H(n) = G
    OBVIOUS
  <2> QED
    BY <2>1
<1>6. SumOf(u) = g[n]
  <2> HIDE DEF g, u
  <2> QED
    BY <1>1, <1>3, <1>4, SumIs
<1> QED
  BY <1>5, <1>6

LEMMA SumOverIs ==
  ASSUME NEW s \in Seq(Int), NEW S
  PROVE  LET u == [i \in DOMAIN s |-> IF i \in S THEN s[i] ELSE 0]
         IN  /\ u \in Seq(Int) /\ Len(u) = Len(s)
             /\ SumOver(S, s) = SumOf(u) /\ SumOver(S, s) \in Int
<1> DEFINE u == [i \in DOMAIN s |-> IF i \in S THEN s[i] ELSE 0]
<1>1. DOMAIN s = 1..Len(s) /\ Len(s) \in Nat /\ \A i \in 1..Len(s) : s[i] \in Int
  OBVIOUS
<1>2. u \in Seq(Int) /\ Len(u) = Len(s)
  BY <1>1
<1>3. SumOver(S, s) = SumOf(u)
  BY DEF SumOver
<1> HIDE DEF u
<1>4. SumOf(u) \in Int
  BY <1>2, PartialSumsAre
<1> QED
  BY <1>2, <1>3, <1>4 DEF u

\* Summed up group by group, a sequence comes to the same.
LEMMA SumPartition ==
  ASSUME NEW s \in Seq(Int), NEW K \in Nat, NEW c \in [1..Len(s) -> 1..K]
  PROVE  SumOf([k \in 1..K |-> SumOver({i \in 1..Len(s) : c[i] = k}, s)]) = SumOf(s)
<1> DEFINE n == Len(s)
           M(k) == [i \in DOMAIN s |-> IF i \in {j \in 1..n : c[j] = k} THEN s[i] ELSE 0]
           R(m) == [k \in 1..K |-> PartialSums(M(k))[m]]
           g == [m \in 0..n |-> SumOf(R(m))]
<1>1. n \in Nat /\ DOMAIN s = 1..n /\ \A i \in 1..n : s[i] \in Int /\ c[i] \in 1..K
  OBVIOUS
<1>2. \A k \in 1..K : M(k) \in Seq(Int) /\ Len(M(k)) = n
                      /\ SumOver({i \in 1..n : c[i] = k}, s) = SumOf(M(k))
  BY SumOverIs
<1>3. \A k \in 1..K : \A i \in 1..n : M(k)[i] = IF c[i] = k THEN s[i] ELSE 0
  BY <1>1
<1> HIDE DEF M, n
<1>4. \A k \in 1..K :
        /\ PartialSums(M(k)) \in [0..n -> Int] /\ PartialSums(M(k))[0] = 0
        /\ \A i \in 1..n : PartialSums(M(k))[i] = PartialSums(M(k))[i - 1] + M(k)[i]
        /\ SumOf(M(k)) = PartialSums(M(k))[n]
  BY <1>2, PartialSumsAre
<1>5. \A m \in 0..n : R(m) \in Seq(Int) /\ Len(R(m)) = K
  <2> TAKE m \in 0..n
  <2>1. \A k \in 1..K : PartialSums(M(k))[m] \in Int
    BY <1>4
  <2> QED
    BY <2>1
<1>6. g[0] = 0
  <2>1. \A k \in 1..K : R(0)[k] = 0
    BY <1>4
  <2>2. R(0) \in Seq(Int) /\ Len(R(0)) = K
    BY <1>1, <1>5
  <2> HIDE DEF R
  <2>3. SumOf(R(0)) = 0
    BY <2>1, <2>2, SumZero
  <2> QED
    BY <1>1, <2>3
<1>7. ASSUME NEW m \in 1..n
      PROVE  g[m] = g[m - 1] + s[m]
  <2> DEFINE D == [k \in 1..K |-> IF c[m] = k THEN s[m] ELSE 0]
  <2>1. m \in 0..n /\ m - 1 \in 0..n
    BY <1>1
  <2>2. D \in Seq(Int) /\ Len(D) = K /\ c[m] \in 1..K /\ D[c[m]] = s[m]
        /\ \A k \in 1..K : k # c[m] => D[k] = 0
    BY <1>1
  <2>3. ASSUME NEW k \in 1..K
        PROVE  R(m)[k] = R(m - 1)[k] + D[k]
    <3>1. PartialSums(M(k))[m] = PartialSums(M(k))[m - 1] + M(k)[m]
      BY <1>4
    <3>2. M(k)[m] = D[k]
      BY <1>3
    <3> QED
      BY <3>1, <3>2
  <2>4. R(m) \in Seq(Int) /\ Len(R(m)) = K /\ R(m - 1) \in Seq(Int) /\ Len(R(m - 1)) = K
    BY <1>5, <2>1
  <2>5. g[m] = SumOf(R(m)) /\ g[m - 1] = SumOf(R(m - 1))
    BY <2>1
  <2> HIDE DEF R, D, g
  <2>6. SumOf(D) = s[m]
    BY <2>2, SumSingle
  <2>7. SumOf(R(m)) = SumOf(R(m - 1)) + SumOf(D)
    <3>1. PICK a, b \in Seq(Int) : a = R(m) /\ b = R(m - 1)
      BY <2>4
    <3>2. D \in Seq(Int) /\ Len(a) = Len(b) /\ Len(D) = Len(b)
      BY <2>2, <2>4, <3>1
    <3>3. \A k \in 1..Len(b) : a[k] = b[k] + D[k]
      BY <2>3, <2>4, <3>1
    <3>4. SumOf(a) = SumOf(b) + SumOf(D)
      BY ONLY a \in Seq(Int), b \in Seq(Int), <3>2, <3>3, SumAdd
    <3> QED
      BY <3>1, <3>4
  <2> QED
    BY <2>5, <2>6, <2>7
<1>8. SumOf(s) = g[n]
  <2> HIDE DEF g
  <2> QED
    BY <1>6, <1>7, SumIs DEF n
<1>9. R(n) = [k \in 1..K |-> SumOver({i \in 1..n : c[i] = k}, s)]
  BY <1>2, <1>4
<1>10. g[n] = SumOf(R(n))
  BY <1>1
<1> QED
  BY <1>8, <1>9, <1>10 DEF n

\* Summed up in any order, a sequence comes to the same.
LEMMA PermutedSum ==
  ASSUME NEW n \in Nat, NEW s \in Seq(Int), Len(s) = n, NEW u \in Seq(Int), Len(u) = n,
         NEW order \in Bijection(1..n, 1..n), \A i \in 1..n : u[i] = s[order[i]]
  PROVE  SumOf(u) = SumOf(s)
<1> DEFINE G(k) == {i \in 1..Len(u) : order[i] = k}
           t == [k \in 1..n |-> SumOver(G(k), u)]
<1>1. order \in [1..Len(u) -> 1..n]
  BY DEF Bijection, Injection
<1>2. SumOf(t) = SumOf(u)
  BY ONLY <1>1, n \in Nat, u \in Seq(Int), SumPartition
<1>3. ASSUME NEW k \in 1..n
      PROVE  SumOver(G(k), u) = s[k]
  <2> DEFINE w == [i \in DOMAIN u |-> IF i \in G(k) THEN u[i] ELSE 0]
  <2>1. PICK i \in 1..n : order[i] = k
    BY DEF Bijection, Surjection
  <2>2. \A j \in 1..n : j # i => order[j] # k
    <3>1. \A x, y \in 1..n : order[x] = order[y] => x = y
      BY DEF Bijection, Injection, IsInjective
    <3> QED
      BY <2>1, <3>1
  <2>9. DOMAIN u = 1..n
    OBVIOUS
  <2>3. w \in Seq(Int) /\ Len(w) = n /\ SumOver(G(k), u) = SumOf(w)
    BY SumOverIs
  <2>4. w[i] = s[k]
    BY <2>1
  <2>5. \A j \in 1..Len(w) : j # i => w[j] = 0
    BY <2>2, <2>3
  <2> HIDE DEF w
  <2>6. i \in 1..Len(w)
    BY <2>3
  <2>7. SumOf(w) = w[i]
    BY ONLY <2>3, <2>5, <2>6, SumSingle
  <2> QED
    BY <2>3, <2>4, <2>7
<1>4. t = s
  <2>1. \A k \in 1..n : t[k] = s[k] /\ s[k] \in Int
    BY <1>3
  <2>2. t \in [1..n -> Int] /\ s \in [1..n -> Int]
    BY <2>1
  <2> HIDE DEF t
  <2>3. PICK x, y \in [1..n -> Int] : x = t /\ y = s
    BY <2>2
  <2>4. x = y
    BY ONLY <2>1, <2>3, x \in [1..n -> Int], y \in [1..n -> Int]
  <2> QED
    BY <2>3, <2>4
<1> QED
  BY <1>2, <1>4

-----------------------------------------------------------------------------
(* Sorting.                                                                *)

\* In a total order every element has a rank of its own: nothing is left out
\* and nothing comes twice.
LEMMA OrderedIs ==
  ASSUME NEW S, IsFiniteSet(S),
         \A t \in S : ~Precedes(t, t),
         \A t, u \in S : t # u => Precedes(t, u) \/ Precedes(u, t),
         \A t, u, v \in S : Precedes(t, u) /\ Precedes(u, v) => Precedes(t, v)
  PROVE  /\ Cardinality(S) \in Nat /\ DOMAIN Ordered(S) = 1..Cardinality(S)
         /\ \A k \in 1..Cardinality(S) : Ordered(S)[k] \in S
         /\ \A t \in S : \E k \in 1..Cardinality(S) : Ordered(S)[k] = t
         /\ \A j, k \in 1..Cardinality(S) : j < k => Precedes(Ordered(S)[j], Ordered(S)[k])
<1> DEFINE n == Cardinality(S)
           Below(t) == {u \in S : Precedes(u, t)}
           rank == [t \in S |-> Cardinality(Below(t))]
<1>1. n \in Nat
  BY FS_CardinalityType
<1>2. ASSUME NEW t \in S
      PROVE  IsFiniteSet(Below(t)) /\ rank[t] \in 0..(n - 1)
  <2>1. Below(t) \in SUBSET S /\ t \notin Below(t)
    OBVIOUS
  <2>2. IsFiniteSet(Below(t)) /\ Cardinality(Below(t)) <= n /\ (n = Cardinality(Below(t)) => S = Below(t))
    BY <2>1, FS_Subset
  <2>3. Cardinality(Below(t)) \in Nat
    BY <2>2, FS_CardinalityType
  <2>4. rank[t] = Cardinality(Below(t)) /\ S # Below(t)
    BY <2>1
  <2> HIDE DEF rank, Below, n
  <2> QED
    BY <1>1, <2>2, <2>3, <2>4
<1>a. \A t \in S : rank[t] \in Int /\ 0 <= rank[t] /\ rank[t] <= n - 1
  <2> TAKE t \in S
  <2>1. rank[t] \in 0..(n - 1)
    BY <1>2
  <2> HIDE DEF rank, n
  <2> QED
    BY <1>1, <2>1
<1>3. ASSUME NEW t \in S, NEW u \in S, Precedes(t, u)
      PROVE  rank[t] < rank[u]
  <2>1. Below(t) \in SUBSET Below(u) /\ t \in Below(u) /\ t \notin Below(t)
    BY <1>3
  <2>2. IsFiniteSet(Below(u))
    BY <1>2
  <2>3. /\ Cardinality(Below(t)) <= Cardinality(Below(u))
        /\ Cardinality(Below(u)) = Cardinality(Below(t)) => Below(u) = Below(t)
    BY <2>1, <2>2, FS_Subset
  <2>4. rank[t] = Cardinality(Below(t)) /\ rank[u] = Cardinality(Below(u))
    OBVIOUS
  <2>5. rank[t] \in Int /\ rank[u] \in Int
    BY <1>a
  <2> HIDE DEF rank, Below
  <2> QED
    BY <2>1, <2>3, <2>4, <2>5
<1>4. ASSUME NEW t \in S, NEW u \in S, rank[t] = rank[u]
      PROVE  t = u
  <2>1. rank[t] \in Int /\ rank[u] \in Int
    BY <1>a
  <2>2. ~(rank[t] < rank[u]) /\ ~(rank[u] < rank[t])
    BY <1>4, <2>1
  <2> QED
    BY <1>3, <2>2
<1>5. ASSUME NEW k \in 1..n
      PROVE  \E t \in S : rank[t] = k - 1
  <2> DEFINE Ranks == 0..(n - 1)
  <2>1. IsFiniteSet(Ranks) /\ Cardinality(Ranks) = n
    <3> HIDE DEF n
    <3>1. n - 1 \in Int /\ (n = 0 => 0 > n - 1) /\ (n # 0 => ~(0 > n - 1)) /\ (n - 1) - 0 + 1 = n
      BY <1>1
    <3> QED
      BY <3>1, FS_Interval
  <2>2. DOMAIN rank = S /\ rank \in [S -> Ranks]
    BY <1>2
  <2> HIDE DEF rank, Ranks
  <2>3. rank \in Injection(S, Ranks)
    BY <1>4, <2>2 DEF Injection, IsInjective
  <2>4. rank \in Surjection(S, Ranks)
    BY <2>1, <2>3, FS_Injection
  <2>5. k - 1 \in Ranks
    BY <1>1 DEF Ranks
  <2> QED
    BY <2>4, <2>5 DEF Surjection
<1>6. ASSUME NEW k \in 1..n
      PROVE  Ordered(S)[k] \in S /\ rank[Ordered(S)[k]] = k - 1
  <2>1. Ordered(S)[k] = CHOOSE t \in S : Cardinality(Below(t)) = k - 1
    BY DEF Ordered
  <2>2. PICK t \in S : Cardinality(Below(t)) = k - 1
    BY <1>5
  <2> HIDE DEF Below
  <2>3. Ordered(S)[k] \in S /\ Cardinality(Below(Ordered(S)[k])) = k - 1
    BY <2>1, <2>2
  <2> QED
    BY <2>3
<1> HIDE DEF rank
<1>7. ASSUME NEW t \in S
      PROVE  \E k \in 1..n : Ordered(S)[k] = t
  <2> DEFINE k == rank[t] + 1
  <2>1. k \in 1..n /\ k - 1 = rank[t]
    <3> HIDE DEF n
    <3> QED
      BY <1>1, <1>a
  <2>2. Ordered(S)[k] = t
    BY <1>4, <1>6, <2>1
  <2> QED
    BY <2>1, <2>2
<1>8. ASSUME NEW j \in 1..n, NEW k \in 1..n, j < k
      PROVE  Precedes(Ordered(S)[j], Ordered(S)[k])
  <2>1. rank[Ordered(S)[j]] < rank[Ordered(S)[k]]
    BY <1>1, <1>6, <1>8
  <2>2. Ordered(S)[j] # Ordered(S)[k] /\ ~(rank[Ordered(S)[k]] < rank[Ordered(S)[j]])
    BY <1>1, <1>6, <1>8
  <2> QED
    BY <1>3, <1>6, <2>2
<1>9. DOMAIN Ordered(S) = 1..n
  BY DEF Ordered
<1> QED
  BY <1>1, <1>6, <1>7, <1>8, <1>9

LEMMA LeastIs ==
  ASSUME NEW S \in SUBSET Nat, S # {}
  PROVE  \E m \in S : \A k \in S : m <= k
<1> DEFINE R == OpToRel(<, Nat)
<1>1. IsWellFoundedOn(R, Nat)
  BY NatLessThanWellFounded
<1>2. \A k, m \in Nat : k < m => <<k, m>> \in R
  BY DEF OpToRel
<1> HIDE DEF R
<1>3. PICK m \in S : \A k \in S : ~ (<<k, m>> \in R)
  BY <1>1, WFMin
<1>4. \A k \in S : k \in Nat /\ m \in Nat /\ ~(k < m)
  BY <1>2, <1>3
<1> QED
  BY ONLY <1>4, m \in S

\* Tuples of one length are in lexicographic order.
LEMMA PrecedesOrders ==
  ASSUME NEW m \in Nat, NEW a \in [1..m -> Int], NEW b \in [1..m -> Int], NEW c \in [1..m -> Int]
  PROVE  /\ ~Precedes(a, a)
         /\ a # b => Precedes(a, b) \/ Precedes(b, a)
         /\ Precedes(a, b) /\ Precedes(b, c) => Precedes(a, c)
<1>1. DOMAIN a = 1..m /\ DOMAIN b = 1..m /\ \A i \in 1..m : a[i] \in Int /\ b[i] \in Int /\ c[i] \in Int
  OBVIOUS
<1>2. ~Precedes(a, a)
  BY <1>1 DEF Precedes
<1>3. ASSUME a # b
      PROVE  Precedes(a, b) \/ Precedes(b, a)
  <2> DEFINE D == {i \in 1..m : a[i] # b[i]}
  <2>1. D \in SUBSET Nat /\ D # {}
    <3>1. ASSUME \A i \in 1..m : a[i] = b[i]
          PROVE  a = b
      BY ONLY <3>1, a \in [1..m -> Int], b \in [1..m -> Int]
    <3>2. PICK i \in 1..m : a[i] # b[i]
      BY <1>3, <3>1
    <3>3. i \in D /\ \A k \in D : k \in Nat
      BY <3>2
    <3> QED
      BY ONLY <3>3
  <2>2. PICK i \in D : \A j \in D : i <= j
    <3> HIDE DEF D
    <3> QED
      BY <2>1, LeastIs
  <2>3. \A j \in 1..(i - 1) : a[j] = b[j]
    BY <2>2
  <2>4. a[i] < b[i] \/ b[i] < a[i]
    BY <1>1
  <2> QED
    BY <1>1, <2>3, <2>4 DEF Precedes
<1>4. ASSUME Precedes(a, b), Precedes(b, c)
      PROVE  Precedes(a, c)
  <2>1. PICK i \in 1..m : a[i] < b[i] /\ \A k \in 1..(i - 1) : a[k] = b[k]
    BY <1>1, <1>4 DEF Precedes
  <2>2. PICK j \in 1..m : b[j] < c[j] /\ \A k \in 1..(j - 1) : b[k] = c[k]
    BY <1>1, <1>4 DEF Precedes
  <2>3. PICK p \in 1..m : p <= i /\ p <= j /\ (p = i \/ p = j)
    <3>1. i \in Int /\ j \in Int /\ i <= i /\ j <= j
      BY m \in Nat
    <3>2. i <= j \/ j <= i
      BY ONLY <3>1
    <3> QED
      BY ONLY <3>1, <3>2, i \in 1..m, j \in 1..m
  <2>4. \A k \in 1..(p - 1) : a[k] = c[k]
    BY <2>1, <2>2, <2>3
  <2>5. a[p] < c[p]
    BY <1>1, <2>1, <2>2, <2>3
  <2> QED
    BY <1>1, <2>4, <2>5 DEF Precedes
<1> QED
  BY <1>2, <1>3, <1>4

LEMMA FunctionIsSeq ==
  ASSUME NEW S, NEW n \in Nat, NEW f \in [1..n -> S]
  PROVE  f \in Seq(S) /\ Len(f) = n /\ DOMAIN f = 1..n
  OBVIOUS

LEMMA AppendOne ==
  ASSUME NEW s \in Seq(Int), NEW c \in Int
  PROVE  \E u \in Seq(Int) :
           /\ u = Append(s, c) /\ Len(u) = Len(s) + 1
           /\ \A i \in 1..Len(s) : u[i] = s[i]
           /\ u[Len(s) + 1] = c
<1> DEFINE u == Append(s, c)
<1>1. /\ u \in Seq(Int) /\ Len(u) = Len(s) + 1
      /\ \A i \in 1..Len(s) : u[i] = s[i]
      /\ u[Len(s) + 1] = c
  BY AppendProperties
<1>2. u = Append(s, c)
  OBVIOUS
<1> HIDE DEF u
<1> QED
  BY <1>1, <1>2

\* K positions in a row are those of S, each of them once.
Arranges(order, S, K) ==
  /\ DOMAIN order = 1..K
  /\ \A k \in 1..K : order[k] \in S
  /\ \A i \in S : \E k \in 1..K : order[k] = i
  /\ \A j, k \in 1..K : order[j] = order[k] => j = k

\* The keys of the positions in a row do not descend.
Ascends(order, keys, K) ==
  \A j, k \in 1..K : j < k =>
    Precedes(keys[order[j]], keys[order[k]]) \/ keys[order[j]] = keys[order[k]]

\* Sorting positions by keys of m numbers.
LEMMA SortedByIs ==
  ASSUME NEW n \in Nat, NEW S \in SUBSET (1..n), NEW m \in Nat, NEW keys,
         \A i \in S : keys[i] \in [1..m -> Int]
  PROVE  \E K \in Nat : Arranges(SortedBy(S, keys), S, K) /\ Ascends(SortedBy(S, keys), keys, K)
<1> DEFINE f == [i \in S |-> Append(keys[i], i)]
           T == {Append(keys[i], i) : i \in S}
           K == Cardinality(T)
<1>1. \A i \in S : i \in Int
  OBVIOUS
<1>2. ASSUME NEW i \in S
      PROVE  /\ f[i] \in [1..(m + 1) -> Int] /\ f[i] \in Seq(Int) /\ Len(f[i]) = m + 1
             /\ f[i][m + 1] = i /\ \A j \in 1..m : f[i][j] = keys[i][j]
  <2>1. keys[i] \in [1..m -> Int]
    OBVIOUS
  <2>2. keys[i] \in Seq(Int) /\ Len(keys[i]) = m
    BY ONLY <2>1, m \in Nat, FunctionIsSeq
  <2>3. PICK u \in Seq(Int) :
          /\ u = Append(keys[i], i) /\ Len(u) = Len(keys[i]) + 1
          /\ \A j \in 1..Len(keys[i]) : u[j] = keys[i][j]
          /\ u[Len(keys[i]) + 1] = i
    BY ONLY <1>1, <2>2, AppendOne, i \in S
  <2>4. u = f[i]
    BY <2>3
  <2>5. u \in [1..Len(u) -> Int]
    OBVIOUS
  <2> QED
    BY ONLY <2>2, <2>3, <2>4, <2>5
<1>3. IsFiniteSet(S)
  BY FS_Interval, FS_Subset, 1 \in Int, n \in Int
<1>4. T = {f[i] : i \in S} /\ DOMAIN f = S
  OBVIOUS
<1>5. IsFiniteSet(T)
  <2>1. f \in Surjection(S, T)
    BY <1>4 DEF Surjection
  <2> QED
    BY <1>3, <2>1, FS_Surjection
<1>6. ASSUME NEW k, SortedBy(S, keys)[k] = SortedBy(S, keys)[k], k \in DOMAIN Ordered(T)
      PROVE  SortedBy(S, keys)[k] = Last(Ordered(T)[k])
  BY <1>6 DEF SortedBy
<1>7. DOMAIN SortedBy(S, keys) = DOMAIN Ordered(T)
  BY DEF SortedBy
<1> HIDE DEF T, f
<1>8. /\ K \in Nat /\ DOMAIN Ordered(T) = 1..K
      /\ \A k \in 1..K : Ordered(T)[k] \in T
      /\ \A t \in T : \E k \in 1..K : Ordered(T)[k] = t
      /\ \A j, k \in 1..K : j < k => Precedes(Ordered(T)[j], Ordered(T)[k])
  <2>1. m + 1 \in Nat /\ \A t \in T : t \in [1..(m + 1) -> Int]
    BY <1>2, <1>4
  <2>2. /\ \A t \in T : ~Precedes(t, t)
        /\ \A t, u \in T : t # u => Precedes(t, u) \/ Precedes(u, t)
        /\ \A t, u, v \in T : Precedes(t, u) /\ Precedes(u, v) => Precedes(t, v)
    BY ONLY <2>1, PrecedesOrders
  <2> QED
    BY ONLY <1>5, <2>2, OrderedIs
<1> HIDE DEF K
<1>9. ASSUME NEW k \in 1..K
      PROVE  \E i \in S : Ordered(T)[k] = f[i] /\ SortedBy(S, keys)[k] = i
  <2>1. PICK i \in S : Ordered(T)[k] = f[i]
    BY <1>4, <1>8
  <2>2. Last(f[i]) = i
    BY <1>2 DEF Last
  <2> QED
    BY <1>6, <1>8, <2>1, <2>2
<1>10. ASSUME NEW i \in S
       PROVE  \E k \in 1..K : SortedBy(S, keys)[k] = i
  <2>1. PICK k \in 1..K : Ordered(T)[k] = f[i]
    BY <1>4, <1>8
  <2>2. PICK j \in S : Ordered(T)[k] = f[j] /\ SortedBy(S, keys)[k] = j
    BY <1>9
  <2>3. f[i] = f[j] /\ f[i][m + 1] = i /\ f[j][m + 1] = j
    BY <1>2, <2>1, <2>2
  <2>4. j = i
    BY ONLY <2>3
  <2> QED
    BY <2>2, <2>4
<1>11. ASSUME NEW j \in 1..K, NEW k \in 1..K, j < k
       PROVE  LET a == SortedBy(S, keys)[j]
                  b == SortedBy(S, keys)[k]
              IN  a # b /\ (Precedes(keys[a], keys[b]) \/ keys[a] = keys[b])
  <2>1. PICK a \in S : Ordered(T)[j] = f[a] /\ SortedBy(S, keys)[j] = a
    BY <1>9
  <2>2. PICK b \in S : Ordered(T)[k] = f[b] /\ SortedBy(S, keys)[k] = b
    BY <1>9
  <2>3. Precedes(f[a], f[b])
    BY <1>8, <1>11, <2>1, <2>2
  <2>4. f[a] \in [1..(m + 1) -> Int] /\ f[b] \in [1..(m + 1) -> Int]
    BY <1>2
  <2>5. a # b
    <3>1. ~Precedes(f[a], f[a])
      BY <2>4, m + 1 \in Nat, PrecedesOrders
    <3> QED
      BY <2>3, <3>1
  <2>6. PICK i \in 1..(m + 1) : f[a][i] < f[b][i] /\ \A p \in 1..(i - 1) : f[a][p] = f[b][p]
    BY <2>3, <2>4 DEF Precedes
  <2>7. keys[a] \in [1..m -> Int] /\ keys[b] \in [1..m -> Int]
    OBVIOUS
  <2>8. \A p \in 1..m : f[a][p] = keys[a][p] /\ f[b][p] = keys[b][p]
    BY <1>2
  <2>9. CASE i \in 1..m
    <3>1. keys[a][i] < keys[b][i] /\ \A p \in 1..(i - 1) : keys[a][p] = keys[b][p]
      BY <2>6, <2>8, <2>9
    <3>2. DOMAIN keys[a] = 1..m
      BY <2>7
    <3>3. Precedes(keys[a], keys[b])
      BY <2>9, <3>1, <3>2 DEF Precedes
    <3> QED
      BY <2>1, <2>2, <2>5, <3>3
  <2>10. CASE i = m + 1
    <3>1. \A p \in 1..m : keys[a][p] = keys[b][p]
      BY <2>6, <2>8, <2>10
    <3>2. PICK x, y \in [1..m -> Int] : x = keys[a] /\ y = keys[b]
      BY <2>7
    <3>3. x = y
      BY ONLY <3>1, <3>2, x \in [1..m -> Int], y \in [1..m -> Int]
    <3> QED
      BY <2>1, <2>2, <2>5, <3>2, <3>3
  <2> QED
    BY <2>9, <2>10
<1>12. Arranges(SortedBy(S, keys), S, K)
  <2>1. \A j, k \in 1..K : SortedBy(S, keys)[j] = SortedBy(S, keys)[k] => j = k
    <3>1. \A j, k \in 1..K : j < k \/ k < j \/ j = k
      BY <1>8
    <3> QED
      BY <1>11, <3>1
  <2> QED
    BY <1>7, <1>8, <1>9, <1>10, <2>1 DEF Arranges
<1>13. Ascends(SortedBy(S, keys), keys, K)
  BY <1>11 DEF Ascends
<1> QED
  BY <1>8, <1>12, <1>13

\* The first p of a are the tuples X, in ascending order.
Enumerates(a, p, X) ==
  /\ \A k \in 1..p : a[k] \in X
  /\ \A x \in X : \E k \in 1..p : a[k] = x
  /\ \A j, k \in 1..p : j < k => Precedes(a[j], a[k])

\* Two ascending enumerations of one set of tuples are the same.
LEMMA OneOrder ==
  ASSUME NEW m \in Nat, NEW X \in SUBSET [1..m -> Int],
         NEW p \in Nat, NEW q \in Nat, NEW a, NEW b, Enumerates(a, p, X), Enumerates(b, q, X)
  PROVE  p = q /\ \A k \in 1..p : a[k] = b[k]
<1>0. /\ \A k \in 1..p : a[k] \in X
      /\ \A k \in 1..q : b[k] \in X
      /\ \A x \in X : (\E k \in 1..p : a[k] = x) /\ (\E k \in 1..q : b[k] = x)
      /\ \A j, k \in 1..p : j < k => Precedes(a[j], a[k])
      /\ \A j, k \in 1..q : j < k => Precedes(b[j], b[k])
  BY DEF Enumerates
<1>1. \A x \in X : ~Precedes(x, x)
  BY PrecedesOrders
<1>2. \A x, y \in X : Precedes(x, y) => ~Precedes(y, x)
  <2>1. \A x, y, z \in X : Precedes(x, y) /\ Precedes(y, z) => Precedes(x, z)
    BY PrecedesOrders
  <2> QED
    BY <1>1, <2>1
<1> DEFINE T == {k \in Nat : \A j \in 1..k : j <= p /\ j <= q => a[j] = b[j]}
<1>3. 0 \in T
  OBVIOUS
<1>4. ASSUME NEW k \in Nat, k \in T
      PROVE  k + 1 \in T
  <2>1. ASSUME k + 1 <= p, k + 1 <= q
        PROVE  a[k + 1] = b[k + 1]
    <3>1. PICK n \in Nat : n = k + 1
      OBVIOUS
    <3>2. n \in 1..p /\ n \in 1..q /\ \A j \in 1..p : j < n => a[j] = b[j]
      BY <1>4, <2>1, <3>1
    <3>3. PICK l \in 1..q : b[l] = a[n]
      BY <1>0, <3>2
    <3>4. PICK h \in 1..p : a[h] = b[n]
      BY <1>0, <3>2
    <3>5. ~(l < n)
      <4>1. SUFFICES ASSUME l < n
                     PROVE  FALSE
        OBVIOUS
      <4>2. l \in 1..p /\ a[l] = b[l]
        BY <3>2, <4>1
      <4> QED
        BY <1>0, <1>1, <3>2, <3>3, <4>1, <4>2
    <3>6. ~(h < n)
      <4>1. SUFFICES ASSUME h < n
                     PROVE  FALSE
        OBVIOUS
      <4>2. h \in 1..q /\ a[h] = b[h]
        BY <3>2, <4>1
      <4> QED
        BY <1>0, <1>1, <3>2, <3>4, <4>1, <4>2
    <3>7. l = n \/ n < l
      BY <3>5
    <3>8. h = n \/ n < h
      BY <3>6
    <3>9. n < l => Precedes(b[n], a[n])
      BY <1>0, <3>2, <3>3
    <3>10. n < h => Precedes(a[n], b[n])
      BY <1>0, <3>2, <3>4
    <3>11. a[n] \in X /\ b[n] \in X
      BY <1>0, <3>2
    <3>12. a[n] = b[n]
      BY <1>1, <1>2, <3>3, <3>4, <3>7, <3>8, <3>9, <3>10, <3>11
    <3> QED
      BY <3>1, <3>12
  <2>2. \A j \in 1..(k + 1) : j \in 1..k \/ j = k + 1
    OBVIOUS
  <2>3. \A j \in 1..k : j <= p /\ j <= q => a[j] = b[j]
    BY <1>4
  <2>4. \A j \in 1..(k + 1) : j <= p /\ j <= q => a[j] = b[j]
    BY ONLY <2>1, <2>2, <2>3
  <2>5. k + 1 \in Nat
    OBVIOUS
  <2> QED
    BY ONLY <2>4, <2>5
<1>5. \A k \in Nat : k \in T
  <2> HIDE DEF T
  <2> QED
    BY <1>3, <1>4, Induction
<1>6. \A k \in Nat : 1 <= k /\ k <= p /\ k <= q => a[k] = b[k]
  <2>1. \A k \in Nat : \A j \in 1..k : j <= p /\ j <= q => a[j] = b[j]
    BY <1>5
  <2>2. \A k \in Nat : 1 <= k => k \in 1..k
    OBVIOUS
  <2> QED
    BY ONLY <2>1, <2>2
<1>7. ~(p < q)
  <2>1. SUFFICES ASSUME p < q
                 PROVE  FALSE
    OBVIOUS
  <2>2. PICK n \in 1..q : n = p + 1
    BY <2>1
  <2>3. PICK h \in 1..p : a[h] = b[n]
    BY <1>0
  <2>4. h \in 1..q /\ h < n /\ a[h] = b[h]
    BY <1>6, <2>1, <2>2
  <2> QED
    BY <1>0, <1>1, <2>3, <2>4
<1>8. ~(q < p)
  <2>1. SUFFICES ASSUME q < p
                 PROVE  FALSE
    OBVIOUS
  <2>2. PICK n \in 1..p : n = q + 1
    BY <2>1
  <2>3. PICK l \in 1..q : b[l] = a[n]
    BY <1>0
  <2>4. l \in 1..p /\ l < n /\ a[l] = b[l]
    BY <1>6, <2>1, <2>2
  <2> QED
    BY <1>0, <1>1, <2>3, <2>4
<1> QED
  BY <1>6, <1>7, <1>8

-----------------------------------------------------------------------------
(* Rounding.                                                               *)

\* Division with remainder.
LEMMA Remainder ==
  ASSUME NEW a \in Nat, NEW d \in Nat \ {0}
  PROVE  /\ a \div d \in Nat /\ a % d \in 0..(d - 1)
         /\ a = d * (a \div d) + (a % d)
  OBVIOUS

\* The quotient is within half of the exact value: no tax is off by more than
\* half a cent (divideRoundHalfAwayFromZero()).
THEOREM RoundedWithinHalf ==
  ASSUME NEW n \in Int, NEW d \in Nat \ {0}
  PROVE  /\ DivideRoundHalfAwayFromZero(n, d) \in Int
         /\ 2 * Abs(DivideRoundHalfAwayFromZero(n, d) * d - n) <= d
<1> DEFINE a == Abs(n)
           q == a \div d
           r == a % d
           up == IF 2 * r >= d THEN 1 ELSE 0
<1>1. a \in Nat /\ (n < 0 => n = 0 - a) /\ (~(n < 0) => n = a)
  BY DEF Abs
<1> HIDE DEF a
<1>2. q \in Nat /\ r \in 0..(d - 1) /\ a = d * q + r
  BY <1>1, Remainder
<1>3. up \in {0, 1} /\ (2 * r >= d <=> up = 1)
  BY <1>2
<1>4. DivideRoundHalfAwayFromZero(n, d) = IF n < 0 THEN 0 - (q + up) ELSE q + up
  BY DEF DivideRoundHalfAwayFromZero, a
<1> HIDE DEF q, r, up
<1>5. (q + up) * d = d * q + d * up
  BY <1>2, <1>3
<1>6. d * up = IF up = 1 THEN d ELSE 0
  BY <1>3
<1>7. PICK p \in Nat : p = d * q
  BY <1>2
<1>8. (0 - (q + up)) * d = 0 - (q + up) * d
  BY <1>2, <1>3
<1>9. CASE n < 0
  BY <1>1, <1>2, <1>3, <1>4, <1>5, <1>6, <1>7, <1>8, <1>9 DEF Abs
<1>10. CASE ~(n < 0)
  BY <1>1, <1>2, <1>3, <1>4, <1>5, <1>6, <1>7, <1>10 DEF Abs
<1> QED
  BY <1>9, <1>10

\* Away from zero on either side: the tax of a discount or of what a credit
\* note gives back is that of the sale with its sign turned.
THEOREM RoundingIsSymmetric ==
  ASSUME NEW n \in Int, NEW d \in Nat \ {0}
  PROVE  DivideRoundHalfAwayFromZero(0 - n, d) = 0 - DivideRoundHalfAwayFromZero(n, d)
<1>1. Abs(0 - n) = Abs(n) /\ Abs(n) \in Nat
  BY DEF Abs
<1>2. CASE n = 0
  <2>1. 0 \div d = 0 /\ 0 % d = 0 /\ ~(2 * 0 >= d)
    OBVIOUS
  <2> QED
    BY <1>2, <2>1 DEF DivideRoundHalfAwayFromZero, Abs
<1>3. CASE n # 0
  <2> DEFINE q == Abs(n) \div d + IF 2 * (Abs(n) % d) >= d THEN 1 ELSE 0
  <2>1. q \in Nat
    <3>1. Abs(n) \div d \in Nat
      BY ONLY <1>1, Remainder, d \in Nat \ {0}
    <3> QED
      BY ONLY <3>1
  <2>2. DivideRoundHalfAwayFromZero(n, d) = IF n < 0 THEN 0 - q ELSE q
    BY DEF DivideRoundHalfAwayFromZero
  <2>3. DivideRoundHalfAwayFromZero(0 - n, d) = IF 0 - n < 0 THEN 0 - q ELSE q
    BY <1>1 DEF DivideRoundHalfAwayFromZero
  <2> HIDE DEF q
  <2> QED
    BY <1>3, <2>1, <2>2, <2>3
<1> QED
  BY <1>2, <1>3

\* A line's tax is the exact percentage of what the line costs - or, of a price
\* that includes it, the exact share - to within half a cent (lineTaxCents()).
THEOREM LineTaxIsExact ==
  ASSUME NEW l \in Line, NEW inclusive \in BOOLEAN
  PROVE  LET divisor == TaxDivisor(Percent(l), inclusive)
         IN  2 * Abs(LineTax(l, inclusive) * divisor - LineTotal(l) * Percent(l)) <= divisor
<1> DEFINE percent == Percent(l)
           total == LineTotal(l)
           divisor == TaxDivisor(percent, inclusive)
<1>1. percent \in Nat
  BY DEF Percent, Line
<1>2. total \in Int
  <2>1. 2 * l.price * l.quantity + 1000 \in Int /\ l.price * l.quantity \in Int
    BY DEF Line
  <2> QED
    BY ONLY <2>1 DEF LineTotal, total
<1>3. divisor \in Nat \ {0}
  BY <1>1 DEF TaxDivisor
<1>4. LineTax(l, inclusive) = DivideRoundHalfAwayFromZero(total * percent, divisor)
  BY DEF LineTax
<1> HIDE DEF percent, total, divisor
<1>5. total * percent \in Int
  BY <1>1, <1>2
<1>6. 2 * Abs(LineTax(l, inclusive) * divisor - total * percent) <= divisor
  BY ONLY <1>3, <1>4, <1>5, RoundedWithinHalf
<1> QED
  BY <1>6 DEF percent, total, divisor

-----------------------------------------------------------------------------
(* Amounts.                                                                *)

\* cents() reads a text of two decimals as its digits say, with their sign.
LEMMA CentsOfHundredths ==
  ASSUME NEW f, f.scale = 100, f.digits \in Nat, f.negative \in BOOLEAN
  PROVE  Cents(f) = Signed(f) /\ Cents(f) \in Int
<1> DEFINE d == f.digits
<1>1. Cents(f) = IF f.negative THEN 0 - (100 * (d \div 100) + (d % 100) * (100 \div 100))
                 ELSE 100 * (d \div 100) + (d % 100) * (100 \div 100)
  BY DEF Cents
<1>2. Signed(f) = IF f.negative THEN 0 - d ELSE d
  BY DEF Signed
<1>3. d \in Nat
  OBVIOUS
<1> HIDE DEF d
<1>4. 100 * (d \div 100) + (d % 100) * (100 \div 100) = d
  BY ONLY <1>3
<1>5. Cents(f) = IF f.negative THEN 0 - d ELSE d
  BY ONLY <1>1, <1>4
<1> QED
  BY <1>2, <1>3, <1>5

\* cents() reads what formatCents() writes, whatever the sign.
THEOREM FormattedIsRead ==
  ASSUME NEW c \in Int
  PROVE  Cents(FormatCents(c)) = c
<1> DEFINE f == FormatCents(c)
<1>1. Abs(c) \in Nat /\ (c < 0 => c = 0 - Abs(c)) /\ (~(c < 0) => c = Abs(c))
  BY DEF Abs
<1>2. f.negative = (c < 0) /\ f.digits = Abs(c) /\ f.scale = 100
  BY DEF FormatCents
<1> HIDE DEF f
<1>3. f.digits \in Nat /\ f.negative \in BOOLEAN
  BY <1>1, <1>2
<1>4. Cents(f) = Signed(f)
  BY <1>2, <1>3, CentsOfHundredths
<1>5. Signed(f) = c
  BY <1>1, <1>2 DEF Signed
<1> QED
  BY <1>4, <1>5 DEF f

LEMMA WrittenAre ==
  ASSUME NEW v \in Decimal
  PROVE  /\ v.digits \in Nat /\ v.scale \in Nat \ {0} /\ v.negative \in BOOLEAN
         /\ Signed(v) \in Int /\ ~IsMoney(v)
<1>1. v.digits \in Nat /\ v.scale \in Nat \ {0} /\ v.negative \in BOOLEAN
  BY ScalesAreNumbers DEF Decimal
<1>2. DOMAIN v = {"negative", "digits", "scale"}
  BY DEF Decimal
<1> QED
  BY <1>1, <1>2 DEF Signed, IsMoney

LEMMA ToFixed2Is ==
  ASSUME NEW v \in Decimal
  PROVE  /\ Cents(ToFixed2(v)) = Signed(ToFixed2(v)) /\ Cents(ToFixed2(v)) \in Int
         /\ Signed(ToFixed2(v)) =
              LET d == (200 * v.digits + v.scale) \div (2 * v.scale)
              IN  IF v.negative THEN 0 - d ELSE d
<1> DEFINE f == ToFixed2(v)
           n == v.digits
           s == v.scale
<1>1. n \in Nat /\ s \in Nat \ {0} /\ v.negative \in BOOLEAN
  BY WrittenAre
<1>2. /\ f.negative = v.negative /\ f.scale = 100
      /\ f.digits = (2 * 100 * n + s) \div (2 * s)
  BY DEF ToFixed2
<1> HIDE DEF f, n, s
<1>3. 2 * 100 * n + s = 200 * n + s /\ 200 * n + s \in Nat /\ 2 * s \in Nat \ {0}
  BY <1>1
<1>4. (200 * n + s) \div (2 * s) \in Nat
  BY ONLY <1>3
<1>5. f.digits \in Nat /\ f.digits = (200 * n + s) \div (2 * s)
  BY ONLY <1>2, <1>3, <1>4
<1>6. Cents(f) = Signed(f) /\ Cents(f) \in Int
  BY <1>1, <1>2, <1>5, CentsOfHundredths
<1>7. Signed(f) = IF v.negative THEN 0 - f.digits ELSE f.digits
  BY <1>2 DEF Signed
<1> QED
  BY <1>5, <1>6, <1>7 DEF f, n, s

LEMMA WholeIsExact ==
  ASSUME NEW v \in Decimal, IsWhole(v)
  PROVE  /\ MoneyFromJsonNumber(v) = v /\ IsExact(v)
         /\ AmountToCents(v) \in Int /\ AmountToCents(v) * v.scale = 100 * Signed(v)
<1> DEFINE n == v.digits
           s == v.scale
           q == n \div s
<1>1. n \in Nat /\ s \in Nat \ {0} /\ v.negative \in BOOLEAN
  BY WrittenAre
<1>2. n % s = 0
  BY DEF IsWhole
<1>3. Signed(v) = (IF v.negative THEN 0 - n ELSE n)
  BY DEF Signed
<1>4. AmountToCents(v) = (Signed(v) \div s) * 100
  BY WrittenAre DEF AmountToCents
<1> HIDE DEF n, s
<1>5. q \in Nat /\ n = s * q
  BY <1>1, <1>2
<1> HIDE DEF q
<1>6. (s * q) \div s = q /\ (s * (0 - q)) \div s = 0 - q /\ 0 - n = s * (0 - q)
  BY <1>1, <1>5
<1>7. Signed(v) \div s \in Int /\ (Signed(v) \div s) * s = Signed(v)
  <2> DEFINE w == IF v.negative THEN 0 - q ELSE q
  <2>1. w \in Int
    BY <1>5
  <2>2. Signed(v) = s * w /\ (s * w) \div s = w
    BY <1>3, <1>5, <1>6
  <2> HIDE DEF w
  <2>3. w * s = s * w
    BY <1>1, <2>1
  <2> QED
    BY ONLY <2>1, <2>2, <2>3
<1>8. Signed(v) \in Int
  BY WrittenAre
<1>9. \A x, w \in Int : x * s = w => (x * 100) * s = 100 * w
  BY <1>1
<1>10. (Signed(v) \div s) * 100 \in Int /\ ((Signed(v) \div s) * 100) * s = 100 * Signed(v)
  BY <1>7, <1>8, <1>9
<1> QED
  BY <1>4, <1>10 DEF MoneyFromJsonNumber, IsExact, s

\* An amount of a file that is not refused becomes the cents that are equal to
\* it or no further from it than moneyFromJsonNumber() tolerates, and is then
\* exact for amountToCents().
THEOREM JsonAmountIsNear ==
  ASSUME NEW v \in Decimal, AtMostTwoPlaces(v)
  PROVE  /\ IsExact(MoneyFromJsonNumber(v))
         /\ AmountToCents(MoneyFromJsonNumber(v)) \in Int
         /\ IsNear(AmountToCents(MoneyFromJsonNumber(v)), v)
<1>1. CASE IsWhole(v)
  <2> DEFINE c == AmountToCents(v)
             s == v.scale
  <2>1. MoneyFromJsonNumber(v) = v /\ IsExact(v) /\ c \in Int /\ c * s = 100 * Signed(v)
    BY <1>1, WholeIsExact
  <2>2. s \in Nat \ {0} /\ Signed(v) \in Int
    BY WrittenAre
  <2> HIDE DEF c, s
  <2>3. Abs(c * s - 100 * Signed(v)) = 0
    BY <2>1, <2>2 DEF Abs
  <2>4. 100 * s \in Nat /\ Precision \in Nat \ {0}
    BY <2>2, ScalesAreNumbers
  <2>5. (100 * s) \div Precision >= 0
    BY ONLY <2>4
  <2>6. IsNear(c, v)
    BY <2>3, <2>5 DEF IsNear, s
  <2> QED
    BY <2>1, <2>6 DEF c
<1>2. CASE ~IsWhole(v)
  <2> DEFINE m == [cents |-> Cents(ToFixed2(v))]
  <2>1. MoneyFromJsonNumber(v) = m
    BY <1>2 DEF MoneyFromJsonNumber
  <2>2. IsMoney(m) /\ m.cents = Cents(ToFixed2(v))
    BY DEF IsMoney
  <2> HIDE DEF m
  <2>3. IsExact(m) /\ AmountToCents(m) = Cents(ToFixed2(v))
    BY <2>2 DEF IsExact, AmountToCents
  <2>4. Cents(ToFixed2(v)) \in Int /\ IsNear(Cents(ToFixed2(v)), v)
    BY <1>2, ToFixed2Is DEF AtMostTwoPlaces
  <2> QED
    BY <2>1, <2>3, <2>4
<1> QED
  BY <1>1, <1>2

\* An amount written with at most two decimals is never refused, and becomes
\* exactly the cents written, its sign too, whole units and fractions alike.
THEOREM JsonAmountIsExact ==
  ASSUME NEW v \in Decimal, v.scale \in {1, 10, 100}
  PROVE  /\ AtMostTwoPlaces(v)
         /\ AmountToCents(MoneyFromJsonNumber(v)) * v.scale = 100 * Signed(v)
<1> DEFINE n == v.digits
           s == v.scale
           f == ToFixed2(v)
           d == (200 * n + s) \div (2 * s)
<1>1. n \in Nat /\ s \in {1, 10, 100} /\ v.negative \in BOOLEAN
  BY WrittenAre
<1>2. Signed(v) = (IF v.negative THEN 0 - n ELSE n)
  BY DEF Signed
<1>3. /\ Cents(f) = Signed(f) /\ Cents(f) \in Int
      /\ Signed(f) = IF v.negative THEN 0 - d ELSE d
  BY ToFixed2Is
<1> HIDE DEF n, s, f
<1>4. d \in Nat /\ d * s = 100 * n
  <2>1. CASE s = 1
    BY <1>1, <2>1
  <2>2. CASE s = 10
    BY <1>1, <2>2
  <2>3. CASE s = 100
    BY <1>1, <2>3
  <2> QED
    BY <1>1, <2>1, <2>2, <2>3
<1> HIDE DEF d
<1>5. Signed(f) * s = 100 * Signed(v)
  BY <1>1, <1>2, <1>3, <1>4
<1>6. Signed(f) * s - 100 * Signed(v) = 0
  <2>1. Signed(v) \in Int
    BY WrittenAre
  <2> QED
    BY ONLY <1>5, <2>1
<1>7. 100 * s \in Nat /\ Precision \in Nat \ {0}
  BY <1>1, ScalesAreNumbers
<1>8. (100 * s) \div Precision >= 0
  BY ONLY <1>7
<1>9. AtMostTwoPlaces(v)
  BY <1>6, <1>8 DEF AtMostTwoPlaces, IsNear, Abs, s, f
<1>10. CASE IsWhole(v)
  BY <1>9, <1>10, WholeIsExact
<1>11. CASE ~IsWhole(v)
  <2>1. MoneyFromJsonNumber(v) = [cents |-> Cents(f)]
    BY <1>11 DEF MoneyFromJsonNumber, f
  <2>2. AmountToCents([cents |-> Cents(f)]) = Cents(f)
    BY DEF AmountToCents, IsMoney
  <2> QED
    BY <1>3, <1>5, <1>9, <2>1, <2>2 DEF s
<1> QED
  BY <1>10, <1>11

-----------------------------------------------------------------------------
(* Receipts.                                                               *)

\* The cents of an amount of a file.
FileCents(v) == AmountToCents(MoneyFromJsonNumber(v))

LEMMA InCentsIs ==
  ASSUME NEW file \in ReceiptFile
  PROVE  LET in == InCents(ReceiptInputFromJson(file))
         IN  /\ in.receiptType = file.receiptType /\ in.currency = file.currency
             /\ in.inclusive = file.inclusive
             /\ in.lines = [i \in DOMAIN file.lines |->
                              [file.lines[i] EXCEPT !.price = FileCents(file.lines[i].price)]]
             /\ in.payments = [i \in DOMAIN file.payments |->
                                 [file.payments[i] EXCEPT !.amount = FileCents(file.payments[i].amount)]]
<1> DEFINE lines == [i \in DOMAIN file.lines |->
                       [file.lines[i] EXCEPT !.price = MoneyFromJsonNumber(file.lines[i].price)]]
           payments == [i \in DOMAIN file.payments |->
                          [file.payments[i] EXCEPT !.amount = MoneyFromJsonNumber(file.payments[i].amount)]]
           json == ReceiptInputFromJson(file)
           in == InCents(json)
<1>1. json = [file EXCEPT !.lines = lines, !.payments = payments]
  BY DEF ReceiptInputFromJson, WithAmounts
<1>2. in = [json EXCEPT
              !.lines = [i \in DOMAIN json.lines |->
                           [json.lines[i] EXCEPT !.price = AmountToCents(json.lines[i].price)]],
              !.payments = [i \in DOMAIN json.payments |->
                              [json.payments[i] EXCEPT !.amount = AmountToCents(json.payments[i].amount)]]]
  BY DEF InCents, WithAmounts
<1>0. file.lines \in Seq(FileLine) /\ file.payments \in Seq(FilePayment)
  BY DEF ReceiptFile
<1>3. DOMAIN file = {"receiptType", "currency", "invoiceNo", "creditDebitNote", "inclusive",
                     "lines", "payments"}
  BY DEF ReceiptFile
<1>4. \A i \in DOMAIN file.lines :
        DOMAIN file.lines[i] = {"price", "quantity", "taxID", "taxPercent", "taxCode"}
  <2> TAKE i \in DOMAIN file.lines
  <2>1. file.lines[i] \in FileLine
    BY <1>0
  <2> QED
    BY <2>1 DEF FileLine
<1>5. \A i \in DOMAIN file.payments : DOMAIN file.payments[i] = {"moneyType", "amount"}
  <2> TAKE i \in DOMAIN file.payments
  <2>1. file.payments[i] \in FilePayment
    BY <1>0
  <2> QED
    BY <2>1 DEF FilePayment
<1> HIDE DEF json, in
<1>6. /\ json.lines = lines /\ json.payments = payments
      /\ json.receiptType = file.receiptType /\ json.currency = file.currency
      /\ json.inclusive = file.inclusive /\ DOMAIN json = DOMAIN file
  BY <1>1, <1>3
<1>7. /\ in.receiptType = file.receiptType /\ in.currency = file.currency
      /\ in.inclusive = file.inclusive
      /\ in.lines = [i \in DOMAIN lines |->
                       [lines[i] EXCEPT !.price = AmountToCents(lines[i].price)]]
      /\ in.payments = [i \in DOMAIN payments |->
                          [payments[i] EXCEPT !.amount = AmountToCents(payments[i].amount)]]
  BY <1>2, <1>3, <1>6
<1>8. \A i \in DOMAIN file.lines :
        [lines[i] EXCEPT !.price = AmountToCents(lines[i].price)]
          = [file.lines[i] EXCEPT !.price = FileCents(file.lines[i].price)]
  BY <1>4 DEF FileCents
<1>9. \A i \in DOMAIN file.payments :
        [payments[i] EXCEPT !.amount = AmountToCents(payments[i].amount)]
          = [file.payments[i] EXCEPT !.amount = FileCents(file.payments[i].amount)]
  BY <1>5 DEF FileCents
<1>10. DOMAIN lines = DOMAIN file.lines /\ DOMAIN payments = DOMAIN file.payments
  OBVIOUS
<1> HIDE DEF lines, payments
<1>11. in.lines = [i \in DOMAIN file.lines |->
                     [file.lines[i] EXCEPT !.price = FileCents(file.lines[i].price)]]
  BY ONLY <1>7, <1>8, <1>10
<1>12. in.payments = [i \in DOMAIN file.payments |->
                        [file.payments[i] EXCEPT !.amount = FileCents(file.payments[i].amount)]]
  BY ONLY <1>7, <1>9, <1>10
<1> QED
  BY <1>7, <1>11, <1>12 DEF in, json

\* What an accepted file makes signReceipt() sign: lines and payments with the
\* amounts written, whose taxes are computed exactly and whose sums agree.
LEMMA AcceptedIs ==
  ASSUME NEW file \in AcceptedFiles
  PROVE  LET in == InCents(ReceiptInputFromJson(file))
         IN  /\ file \in Inputs
             /\ in.receiptType \in ReceiptTypes /\ in.currency \in Currency
             /\ in.currency = file.currency /\ in.inclusive \in BOOLEAN
             /\ in.lines \in Seq(Line) /\ Len(in.lines) = Len(file.lines)
             /\ in.payments \in Seq(Payment) /\ Len(in.payments) = Len(file.payments)
             /\ \A i \in 1..Len(file.lines) :
                  IsNear(in.lines[i].price, file.lines[i].price)
             /\ \A i \in 1..Len(file.payments) :
                  IsNear(in.payments[i].amount, file.payments[i].amount)
             /\ Paid(in.payments) = ReceiptTotal(in.lines, in.inclusive)
<1> DEFINE in == InCents(ReceiptInputFromJson(file))
<1>1. /\ file \in Inputs /\ file \in ReceiptFile /\ FileIsExact(file)
      /\ ValidateReceiptInput(in) /\ Paid(in.payments) = ReceiptTotal(in.lines, in.inclusive)
  BY InputsAreFiles DEF AcceptedFiles, Accepts
<1>2. /\ in.receiptType = file.receiptType /\ in.currency = file.currency
      /\ in.inclusive = file.inclusive
      /\ in.lines = [i \in DOMAIN file.lines |->
                       [file.lines[i] EXCEPT !.price = FileCents(file.lines[i].price)]]
      /\ in.payments = [i \in DOMAIN file.payments |->
                          [file.payments[i] EXCEPT !.amount = FileCents(file.payments[i].amount)]]
  BY <1>1, InCentsIs
<1> HIDE DEF in
<1>3. ASSUME NEW v \in Decimal, AtMostTwoPlaces(v)
      PROVE  FileCents(v) \in Int /\ IsNear(FileCents(v), v)
  BY <1>3, JsonAmountIsNear DEF FileCents
<1>4. file.lines \in Seq(FileLine) /\ file.payments \in Seq(FilePayment) /\ file.inclusive \in BOOLEAN
  BY <1>1 DEF ReceiptFile
<1>5. Len(file.lines) \in Nat /\ DOMAIN file.lines = 1..Len(file.lines)
      /\ Len(file.payments) \in Nat /\ DOMAIN file.payments = 1..Len(file.payments)
  BY <1>4
<1>6. ASSUME NEW i \in 1..Len(file.lines)
      PROVE  in.lines[i] \in Line /\ IsNear(in.lines[i].price, file.lines[i].price)
  <2> DEFINE l == file.lines[i]
  <2>1. /\ l \in FileLine /\ AtMostTwoPlaces(l.price)
        /\ in.lines[i] = [l EXCEPT !.price = FileCents(l.price)]
        /\ i \in DOMAIN in.lines
    BY <1>1, <1>2, <1>4, <1>5 DEF FileIsExact
  <2>2. LineIsValid(in.lines[i])
    BY <1>1, <2>1 DEF ValidateReceiptInput
  <2> HIDE DEF l
  <2>3. FileCents(l.price) \in Int /\ IsNear(FileCents(l.price), l.price)
    BY <1>3, <2>1 DEF FileLine
  <2>4. in.lines[i] = [price |-> FileCents(l.price), quantity |-> l.quantity, taxID |-> l.taxID,
                       taxPercent |-> l.taxPercent, taxCode |-> l.taxCode]
    BY <2>1 DEF FileLine
  <2>5. l.quantity \in Int /\ l.taxID \in Int /\ l.taxPercent \in Int \cup {None} /\ l.taxCode \in Nat
    BY <2>1 DEF FileLine
  <2>6. l.quantity > 0 /\ (l.taxPercent # None => l.taxPercent >= 0)
    BY <2>2, <2>4 DEF LineIsValid
  <2>7. l.quantity \in Nat \ {0} /\ l.taxPercent \in Nat \cup {None}
    BY <2>5, <2>6
  <2> QED
    BY <2>3, <2>4, <2>5, <2>7 DEF Line, l
<1>7. ASSUME NEW i \in 1..Len(file.payments)
      PROVE  in.payments[i] \in Payment /\ IsNear(in.payments[i].amount, file.payments[i].amount)
  <2> DEFINE p == file.payments[i]
  <2>1. /\ p \in FilePayment /\ AtMostTwoPlaces(p.amount)
        /\ in.payments[i] = [p EXCEPT !.amount = FileCents(p.amount)]
    BY <1>1, <1>2, <1>4, <1>5 DEF FileIsExact
  <2> HIDE DEF p
  <2>2. FileCents(p.amount) \in Int /\ IsNear(FileCents(p.amount), p.amount)
    BY <1>3, <2>1 DEF FilePayment
  <2>3. in.payments[i] = [moneyType |-> p.moneyType, amount |-> FileCents(p.amount)]
    BY <2>1 DEF FilePayment
  <2>4. p.moneyType \in MoneyTypes
    BY <2>1 DEF FilePayment
  <2> QED
    BY <2>2, <2>3, <2>4 DEF Payment, p
<1>8. in.lines \in Seq(Line) /\ Len(in.lines) = Len(file.lines)
  <2>1. in.lines \in [1..Len(file.lines) -> Line]
    BY ONLY <1>2, <1>5, <1>6
  <2> QED
    BY ONLY <1>5, <2>1, FunctionIsSeq
<1>9. in.payments \in Seq(Payment) /\ Len(in.payments) = Len(file.payments)
  <2>1. in.payments \in [1..Len(file.payments) -> Payment]
    BY ONLY <1>2, <1>5, <1>7
  <2> QED
    BY ONLY <1>5, <2>1, FunctionIsSeq
<1>10. in.receiptType \in ReceiptTypes /\ in.currency \in Currency
  BY <1>1 DEF ValidateReceiptInput
<1> QED
  BY <1>1, <1>2, <1>4, <1>6, <1>7, <1>8, <1>9, <1>10 DEF in

LEMMA LineAmounts ==
  ASSUME NEW l \in Line, NEW inclusive \in BOOLEAN
  PROVE  /\ LineTotal(l) \in Int /\ LineTax(l, inclusive) \in Int
         /\ SaleWithTax(l, inclusive) \in Int
         /\ SaleWithTax(l, inclusive) = LineTotal(l) + IF inclusive THEN 0 ELSE LineTax(l, inclusive)
         /\ Percent(l) \in Nat /\ TaxDivisor(Percent(l), inclusive) \in Nat \ {0}
<1>1. Percent(l) \in Nat
  BY DEF Percent, Line
<1>2. LineTotal(l) \in Int
  <2>1. 2 * l.price * l.quantity + 1000 \in Int /\ l.price * l.quantity \in Int
    BY DEF Line
  <2> QED
    BY ONLY <2>1 DEF LineTotal
<1>3. TaxDivisor(Percent(l), inclusive) \in Nat \ {0}
  BY <1>1 DEF TaxDivisor
<1>4. LineTotal(l) * Percent(l) \in Int
  BY <1>1, <1>2
<1>5. LineTax(l, inclusive) \in Int
  BY <1>3, <1>4, RoundedWithinHalf DEF LineTax
<1> QED
  BY <1>1, <1>2, <1>3, <1>5 DEF SaleWithTax

LEMMA LinesAre ==
  ASSUME NEW lines \in Seq(Line), NEW inclusive \in BOOLEAN
  PROVE  /\ LineTotals(lines) \in Seq(Int) /\ Len(LineTotals(lines)) = Len(lines)
         /\ LineTaxes(lines, inclusive) \in Seq(Int) /\ Len(LineTaxes(lines, inclusive)) = Len(lines)
         /\ SalesWithTax(lines, inclusive) \in Seq(Int)
         /\ Len(SalesWithTax(lines, inclusive)) = Len(lines)
         /\ \A i \in 1..Len(lines) :
              /\ lines[i] \in Line
              /\ LineTotals(lines)[i] = LineTotal(lines[i])
              /\ LineTaxes(lines, inclusive)[i] = LineTax(lines[i], inclusive)
              /\ SalesWithTax(lines, inclusive)[i]
                   = LineTotals(lines)[i] + IF inclusive THEN 0 ELSE LineTaxes(lines, inclusive)[i]
<1>1. /\ Len(lines) \in Nat /\ DOMAIN lines = 1..Len(lines)
      /\ \A i \in 1..Len(lines) : lines[i] \in Line
  OBVIOUS
<1>2. \A i \in 1..Len(lines) :
        /\ LineTotal(lines[i]) \in Int /\ LineTax(lines[i], inclusive) \in Int
        /\ SaleWithTax(lines[i], inclusive) \in Int
        /\ SaleWithTax(lines[i], inclusive)
             = LineTotal(lines[i]) + IF inclusive THEN 0 ELSE LineTax(lines[i], inclusive)
  BY <1>1, LineAmounts
<1>3. LineTotals(lines) \in [1..Len(lines) -> Int]
  BY ONLY <1>1, <1>2 DEF LineTotals
<1>4. LineTaxes(lines, inclusive) \in [1..Len(lines) -> Int]
  BY ONLY <1>1, <1>2 DEF LineTaxes
<1>5. SalesWithTax(lines, inclusive) \in [1..Len(lines) -> Int]
  BY ONLY <1>1, <1>2 DEF SalesWithTax
<1>6. \A i \in 1..Len(lines) :
        /\ LineTotals(lines)[i] = LineTotal(lines[i])
        /\ LineTaxes(lines, inclusive)[i] = LineTax(lines[i], inclusive)
        /\ SalesWithTax(lines, inclusive)[i] = SaleWithTax(lines[i], inclusive)
  BY <1>1 DEF LineTotals, LineTaxes, SalesWithTax
<1>7. /\ LineTotals(lines) \in Seq(Int) /\ Len(LineTotals(lines)) = Len(lines)
      /\ LineTaxes(lines, inclusive) \in Seq(Int) /\ Len(LineTaxes(lines, inclusive)) = Len(lines)
      /\ SalesWithTax(lines, inclusive) \in Seq(Int) /\ Len(SalesWithTax(lines, inclusive)) = Len(lines)
  BY ONLY <1>1, <1>3, <1>4, <1>5, FunctionIsSeq
<1> QED
  BY ONLY <1>1, <1>2, <1>6, <1>7

\* K taxes, and line i is summed up in entry c[i] of them.
Splits(taxes, lines, inclusive, K, c) ==
  /\ taxes \in Seq(ReceiptTax) /\ Len(taxes) = K /\ DOMAIN taxes = 1..K
  /\ \A k \in 1..K :
       LET group == {i \in 1..Len(lines) : c[i] = k}
       IN  /\ group = TaxGroup(lines, <<taxes[k].taxID, taxes[k].taxPercent, taxes[k].taxCode>>)
           /\ taxes[k].taxAmount = SumOver(group, LineTaxes(lines, inclusive))
           /\ taxes[k].salesAmountWithTax = SumOver(group, SalesWithTax(lines, inclusive))

LEMMA TaxesAre ==
  ASSUME NEW lines \in Seq(Line), NEW inclusive \in BOOLEAN
  PROVE  \E K \in Nat : \E c \in [1..Len(lines) -> 1..K] :
           Splits(BuildReceiptTaxes(lines, inclusive), lines, inclusive, K, c)
<1> DEFINE taxes == BuildReceiptTaxes(lines, inclusive)
           n == Len(lines)
           firsts == FirstLines(lines)
           keys == [i \in DOMAIN lines |-> TaxSortKey(lines[i])]
           order == SortedBy(firsts, keys)
           key == [i \in 1..n |-> TaxKey(lines[i])]
<1>1. n \in Nat /\ DOMAIN lines = 1..n
  OBVIOUS
<1>2. \A i \in 1..n : lines[i] \in Line /\ lines[i].taxID \in Int /\ lines[i].taxCode \in Nat
                      /\ lines[i].taxPercent \in Nat \cup {None}
  <2> TAKE i \in 1..n
  <2>1. lines[i] \in Line
    OBVIOUS
  <2> HIDE DEF n
  <2> QED
    BY <2>1 DEF Line
<1>3. firsts = {i \in 1..n : \A j \in 1..(i - 1) : key[j] # key[i]}
  <2>1. \A i \in 1..n : \A j \in 1..(i - 1) : j \in 1..n
    BY <1>1
  <2> HIDE DEF n
  <2> QED
    BY <1>1, <2>1 DEF FirstLines
<1> HIDE DEF n
<1>4. PICK K \in Nat :
        /\ DOMAIN order = 1..K
        /\ \A k \in 1..K : order[k] \in firsts
        /\ \A i \in firsts : \E k \in 1..K : order[k] = i
        /\ \A j, k \in 1..K : order[j] = order[k] => j = k
  <2>1. firsts \in SUBSET (1..n)
    BY <1>3
  <2>2. ASSUME NEW i \in firsts
        PROVE  keys[i] \in [1..2 -> Int]
    <3>1. PICK x, y \in Int : x = lines[i].taxID /\ y = lines[i].taxCode
      BY <1>2, <2>1
    <3>2. keys[i] = <<x, y>>
      BY <1>1, <2>1, <3>1 DEF TaxSortKey
    <3>3. <<x, y>> \in [1..2 -> Int]
      OBVIOUS
    <3> QED
      BY ONLY <3>2, <3>3
  <2> HIDE DEF firsts, keys
  <2>3. PICK S \in SUBSET (1..n), m \in Nat : S = firsts /\ m = 2
    BY <2>1
  <2>4. \A i \in S : keys[i] \in [1..m -> Int]
    BY ONLY <2>2, <2>3
  <2>5. \E K \in Nat : Arranges(SortedBy(S, keys), S, K)
    BY ONLY <1>1, <2>4, SortedByIs, S \in SUBSET (1..n), m \in Nat
  <2> QED
    BY ONLY <2>3, <2>5 DEF Arranges
<1>5. taxes = [k \in 1..K |-> TaxEntry(lines, lines[order[k]], inclusive)]
  BY <1>4 DEF BuildReceiptTaxes
<1> HIDE DEF order, keys, taxes
<1>6. ASSUME NEW i \in 1..n
      PROVE  \E k \in 1..K : key[order[k]] = key[i]
  <2> DEFINE Same == {m \in 1..n : key[m] = key[i]}
  <2>1. Same \in SUBSET Nat /\ i \in Same
    BY <1>1
  <2>2. PICK m \in Same : \A j \in Same : m <= j
    BY <2>1, LeastIs
  <2>3. m \in 1..n /\ \A j \in 1..(m - 1) : key[j] # key[m]
    <3>1. \A j \in 1..(m - 1) : j \in 1..n /\ ~(m <= j)
      BY <1>1, <2>2
    <3> QED
      BY <2>2, <3>1
  <2>4. m \in firsts
    BY <1>3, <2>3
  <2> QED
    BY <1>4, <2>2, <2>4
<1>7. ASSUME NEW j \in 1..K, NEW k \in 1..K, key[order[j]] = key[order[k]]
      PROVE  j = k
  <2>1. PICK a, b \in firsts : a = order[j] /\ b = order[k]
    BY <1>4
  <2>2. /\ a \in Nat /\ b \in Nat /\ a \in 1..n /\ b \in 1..n
        /\ \A m \in 1..(a - 1) : key[m] # key[a]
        /\ \A m \in 1..(b - 1) : key[m] # key[b]
    <3> HIDE DEF key
    <3> QED
      BY ONLY <1>1, <1>3, a \in firsts, b \in firsts
  <2> HIDE DEF key, firsts
  <2>3. a = b
    <3>1. ~(a < b) /\ ~(b < a)
      BY <1>7, <2>1, <2>2
    <3> QED
      BY <2>2, <3>1
  <2> QED
    BY <1>4, <2>1, <2>3
<1> DEFINE c == [i \in 1..n |-> CHOOSE k \in 1..K : key[order[k]] = key[i]]
<1>8. \A i \in 1..n : c[i] \in 1..K /\ key[order[c[i]]] = key[i]
  BY <1>6
<1>9. c \in [1..n -> 1..K]
  BY <1>8
<1> HIDE DEF c
<1>10. ASSUME NEW k \in 1..K
       PROVE  LET group == {i \in 1..n : c[i] = k}
              IN  /\ taxes[k] \in ReceiptTax
                  /\ group = TaxGroup(lines, <<taxes[k].taxID, taxes[k].taxPercent, taxes[k].taxCode>>)
                  /\ taxes[k].taxAmount = SumOver(group, LineTaxes(lines, inclusive))
                  /\ taxes[k].salesAmountWithTax = SumOver(group, SalesWithTax(lines, inclusive))
  <2> DEFINE l == lines[order[k]]
             group == {i \in 1..n : c[i] = k}
  <2>1. order[k] \in 1..n
    BY <1>3, <1>4
  <2>2. l \in Line /\ l.taxID \in Int /\ l.taxCode \in Nat /\ l.taxPercent \in Nat \cup {None}
    BY <1>2, <2>1
  <2>3. taxes[k] = TaxEntry(lines, l, inclusive)
    BY <1>5
  <2>4. TaxKey(l) = key[order[k]]
    BY <2>1
  <2> HIDE DEF l
  <2>5. TaxGroup(lines, TaxKey(l)) = group
    <3>1. TaxGroup(lines, TaxKey(l)) = {i \in 1..n : key[i] = key[order[k]]}
      BY <1>1, <2>4 DEF TaxGroup
    <3>2. \A i \in 1..n : key[i] = key[order[k]] <=> c[i] = k
      <4> HIDE DEF key
      <4> QED
        BY <1>7, <1>8
    <3> HIDE DEF key
    <3> QED
      BY <3>1, <3>2
  <2>6. taxes[k] = [taxID |-> l.taxID, taxPercent |-> l.taxPercent, taxCode |-> l.taxCode,
                    taxAmount |-> SumOver(group, LineTaxes(lines, inclusive)),
                    salesAmountWithTax |-> SumOver(group, SalesWithTax(lines, inclusive))]
    BY ONLY <2>3, <2>5 DEF TaxEntry
  <2>7. SumOver(group, LineTaxes(lines, inclusive)) \in Int
        /\ SumOver(group, SalesWithTax(lines, inclusive)) \in Int
    BY LinesAre, SumOverIs
  <2> HIDE DEF group
  <2>8. taxes[k] \in ReceiptTax
    BY <2>2, <2>6, <2>7 DEF ReceiptTax
  <2>9. <<taxes[k].taxID, taxes[k].taxPercent, taxes[k].taxCode>> = TaxKey(l)
    BY <2>6 DEF TaxKey
  <2> QED
    BY <2>5, <2>6, <2>8, <2>9 DEF group
<1>11. taxes \in Seq(ReceiptTax) /\ Len(taxes) = K /\ DOMAIN taxes = 1..K
  <2>1. taxes \in [1..K -> ReceiptTax]
    BY <1>5, <1>10
  <2> QED
    BY ONLY <2>1, K \in Nat, FunctionIsSeq
<1>12. Splits(taxes, lines, inclusive, K, c)
  BY <1>10, <1>11 DEF n, Splits
<1> QED
  BY <1>9, <1>12 DEF n, taxes

LEMMA SumTotals ==
  ASSUME NEW lines \in Seq(Line), NEW inclusive \in BOOLEAN
  PROVE  /\ SumOf(SalesWithTax(lines, inclusive))
              = LinesTotal(lines) + IF inclusive THEN 0 ELSE SumOf(LineTaxes(lines, inclusive))
         /\ LinesTotal(lines) \in Int /\ SumOf(LineTaxes(lines, inclusive)) \in Int
<1> DEFINE s == LineTotals(lines)
           t == LineTaxes(lines, inclusive)
           u == SalesWithTax(lines, inclusive)
<1>1. /\ s \in Seq(Int) /\ t \in Seq(Int) /\ u \in Seq(Int)
      /\ Len(s) = Len(lines) /\ Len(t) = Len(lines) /\ Len(u) = Len(lines)
      /\ \A i \in 1..Len(lines) : u[i] = s[i] + IF inclusive THEN 0 ELSE t[i]
  BY LinesAre
<1> HIDE DEF s, t, u
<1>2. SumOf(s) \in Int /\ SumOf(t) \in Int
  BY <1>1, PartialSumsAre
<1>3. ASSUME inclusive
      PROVE  SumOf(u) = SumOf(s) + IF inclusive THEN 0 ELSE SumOf(t)
  <2>1. \A i \in 1..Len(s) : u[i] = s[i]
    <3> TAKE i \in 1..Len(s)
    <3>1. s[i] \in Int /\ u[i] = s[i] + 0
      BY <1>1, <1>3
    <3> QED
      BY <3>1
  <2>2. u = s
    BY <1>1, <2>1, SeqEqual
  <2>3. SumOf(u) = SumOf(s)
    BY <2>2
  <2> QED
    BY ONLY <1>2, <1>3, <2>3
<1>4. ASSUME ~inclusive
      PROVE  SumOf(u) = SumOf(s) + IF inclusive THEN 0 ELSE SumOf(t)
  <2>1. \A i \in 1..Len(s) : u[i] = s[i] + t[i]
    BY <1>1, <1>4
  <2>2. SumOf(u) = SumOf(s) + SumOf(t)
    BY <1>1, <2>1, SumAdd
  <2> QED
    BY ONLY <1>2, <1>4, <2>2
<1>5. SumOf(u) = SumOf(s) + IF inclusive THEN 0 ELSE SumOf(t)
  BY ONLY <1>3, <1>4, inclusive \in BOOLEAN
<1> QED
  BY ONLY <1>2, <1>5 DEF s, t, u, LinesTotal

\* The taxes of a receipt and its sales by tax come to what its lines come to.
LEMMA TaxesSum ==
  ASSUME NEW lines \in Seq(Line), NEW inclusive \in BOOLEAN
  PROVE  LET taxes == BuildReceiptTaxes(lines, inclusive)
         IN  /\ TaxTotal(taxes) = SumOf(LineTaxes(lines, inclusive))
             /\ TaxedSales(taxes) = ReceiptTotal(lines, inclusive)
             /\ TaxTotal(taxes) \in Int /\ ReceiptTotal(lines, inclusive) \in Int
<1> DEFINE taxes == BuildReceiptTaxes(lines, inclusive)
           n == Len(lines)
           t == LineTaxes(lines, inclusive)
           u == SalesWithTax(lines, inclusive)
<1>0. PICK K \in Nat : \E c \in [1..Len(lines) -> 1..K] :
        Splits(BuildReceiptTaxes(lines, inclusive), lines, inclusive, K, c)
  BY TaxesAre
<1>1. PICK c \in [1..n -> 1..K] : Splits(taxes, lines, inclusive, K, c)
  BY <1>0
<1>2. t \in Seq(Int) /\ u \in Seq(Int) /\ Len(t) = n /\ Len(u) = n
  BY LinesAre
<1>9. /\ DOMAIN taxes = 1..K
      /\ \A k \in 1..K :
           /\ taxes[k].taxAmount = SumOver({i \in 1..n : c[i] = k}, t)
           /\ taxes[k].salesAmountWithTax = SumOver({i \in 1..n : c[i] = k}, u)
  <2> HIDE DEF taxes
  <2> QED
    BY <1>1 DEF Splits
<1> HIDE DEF taxes, n, t, u
<1>3. [k \in DOMAIN taxes |-> taxes[k].taxAmount]
        = [k \in 1..K |-> SumOver({i \in 1..Len(t) : c[i] = k}, t)]
  BY <1>2, <1>9
<1>4. [k \in DOMAIN taxes |-> taxes[k].salesAmountWithTax]
        = [k \in 1..K |-> SumOver({i \in 1..Len(u) : c[i] = k}, u)]
  BY <1>2, <1>9
<1>5. TaxTotal(taxes) = SumOf(t)
  <2>1. SumOf([k \in 1..K |-> SumOver({i \in 1..Len(t) : c[i] = k}, t)]) = SumOf(t)
    BY ONLY <1>2, SumPartition, K \in Nat, c \in [1..n -> 1..K]
  <2> QED
    BY ONLY <1>3, <2>1 DEF TaxTotal
<1>6. TaxedSales(taxes) = SumOf(u)
  <2>1. SumOf([k \in 1..K |-> SumOver({i \in 1..Len(u) : c[i] = k}, u)]) = SumOf(u)
    BY ONLY <1>2, SumPartition, K \in Nat, c \in [1..n -> 1..K]
  <2> QED
    BY ONLY <1>4, <2>1 DEF TaxedSales
<1>7. /\ SumOf(u) = LinesTotal(lines) + IF inclusive THEN 0 ELSE SumOf(t)
      /\ LinesTotal(lines) \in Int /\ SumOf(t) \in Int
  BY SumTotals DEF t, u
<1>8. ReceiptTotal(lines, inclusive) = LinesTotal(lines) + IF inclusive THEN 0 ELSE SumOf(t)
  BY <1>5 DEF ReceiptTotal, taxes
<1> QED
  BY <1>5, <1>6, <1>7, <1>8 DEF taxes, t

-----------------------------------------------------------------------------
(* The day's receipts: each is built from a file that submit takes.        *)

Built(file) == BuildReceipt(InCents(ReceiptInputFromJson(file)))

SoldInv == sold \in Seq({Built(file) : file \in AcceptedFiles})

LEMMA BuiltIs ==
  ASSUME NEW file \in AcceptedFiles
  PROVE  LET in == InCents(ReceiptInputFromJson(file))
             r == Built(file)
         IN  /\ r.lines = in.lines /\ r.payments = in.payments
             /\ r \in SoldReceipt /\ r.currency = Upper(file.currency) /\ file.currency \in Currency
             /\ r.taxes = BuildReceiptTaxes(r.lines, r.inclusive)
             /\ r.total = ReceiptTotal(r.lines, r.inclusive) /\ Paid(r.payments) = r.total
<1> DEFINE in == InCents(ReceiptInputFromJson(file))
           r == Built(file)
<1>1. /\ in.receiptType \in ReceiptTypes /\ in.currency \in Currency
      /\ in.currency = file.currency /\ in.inclusive \in BOOLEAN
      /\ in.lines \in Seq(Line) /\ in.payments \in Seq(Payment)
      /\ Paid(in.payments) = ReceiptTotal(in.lines, in.inclusive)
  BY AcceptedIs
<1>2. r = BuildReceipt(in)
  BY DEF Built
<1> HIDE DEF in, r
<1>3. r = [receiptType |-> in.receiptType, currency |-> Upper(in.currency),
           inclusive |-> in.inclusive, lines |-> in.lines,
           taxes |-> BuildReceiptTaxes(in.lines, in.inclusive), payments |-> in.payments,
           total |-> ReceiptTotal(in.lines, in.inclusive)]
  BY <1>2 DEF BuildReceipt
<1>4. /\ r.receiptType = in.receiptType /\ r.currency = Upper(in.currency)
      /\ r.inclusive = in.inclusive /\ r.lines = in.lines /\ r.payments = in.payments
      /\ r.taxes = BuildReceiptTaxes(in.lines, in.inclusive)
      /\ r.total = ReceiptTotal(in.lines, in.inclusive)
  BY <1>3
<1>5. BuildReceiptTaxes(in.lines, in.inclusive) \in Seq(ReceiptTax)
  BY <1>1, TaxesAre DEF Splits
<1>6. ReceiptTotal(in.lines, in.inclusive) \in Int
  BY <1>1, TaxesSum
<1>7. Upper(in.currency) \in Currency
  BY <1>1 DEF Upper, Currency
<1>8. r \in SoldReceipt
  BY <1>1, <1>3, <1>5, <1>6, <1>7 DEF SoldReceipt
<1> QED
  BY <1>1, <1>4, <1>8 DEF r, in

\* The day holds receipts that signReceipt() built from files that submit
\* accepts, and no others.
THEOREM SoldInvariant == DaySpec => []SoldInv
<1>1. DayInit => SoldInv
  BY DEF DayInit, SoldInv
<1>2. ASSUME SoldInv, [DayNext]_dayVars
      PROVE  SoldInv'
  <2> DEFINE R == {Built(file) : file \in AcceptedFiles}
  <2>1. CASE Sell
    <3>1. PICK file \in AcceptedFiles : sold' = Append(sold, Built(file))
      BY <2>1 DEF Sell, Built
    <3>2. sold \in Seq(R) /\ Built(file) \in R
      BY <1>2 DEF SoldInv
    <3> HIDE DEF R
    <3>3. sold' \in Seq(R)
      BY <3>1, <3>2
    <3> QED
      BY <3>3 DEF SoldInv, R, AcceptedFiles
  <2>2. CASE Upgrade
    BY <1>2, <2>2 DEF Upgrade, SoldInv, AcceptedFiles
  <2>3. CASE UNCHANGED dayVars
    BY <1>2, <2>3 DEF dayVars, SoldInv, AcceptedFiles
  <2> QED
    BY <1>2, <2>1, <2>2, <2>3 DEF DayNext
<1> QED
  BY <1>1, <1>2, PTL DEF DaySpec

\* Every receipt sold is one of those.
LEMMA SoldAre ==
  ASSUME SoldInv
  PROVE  sold \in Seq(SoldReceipt)
         /\ \A i \in DOMAIN sold : \E file \in AcceptedFiles : sold[i] = Built(file)
<1> DEFINE R == {Built(file) : file \in AcceptedFiles}
<1>1. R \in SUBSET SoldReceipt
  BY BuiltIs
<1>2. sold \in Seq(R)
  BY DEF SoldInv
<1>3. \A i \in DOMAIN sold : sold[i] \in R
  <2> HIDE DEF R
  <2> QED
    BY <1>2
<1>4. \A i \in DOMAIN sold : \E file \in AcceptedFiles : sold[i] = Built(file)
  BY <1>3
<1> HIDE DEF R
<1>5. sold \in Seq(SoldReceipt)
  BY <1>1, <1>2
<1> QED
  BY <1>4, <1>5

\* However lines and prices group into taxes, the lines, the taxes and the
\* payments of every receipt add up on both sides (signReceipt(),
\* buildReceiptTaxes(), and the simulator's checks of a receipt).
THEOREM TotalsAlwaysAddUp == DaySpec => []TotalsAddUp
<1>1. ASSUME SoldInv
      PROVE  TotalsAddUp
  <2>1. SUFFICES ASSUME NEW i \in DOMAIN sold
                 PROVE  /\ ContentErrors(sold[i]) \subseteq {"RCPT013"}
                        /\ TaxedSales(sold[i].taxes) = sold[i].total
    BY DEF TotalsAddUp
  <2>2. PICK file \in AcceptedFiles : sold[i] = Built(file)
    BY <1>1, SoldAre
  <2> DEFINE r == Built(file)
  <2>3. /\ r \in SoldReceipt /\ r.taxes = BuildReceiptTaxes(r.lines, r.inclusive)
        /\ r.total = ReceiptTotal(r.lines, r.inclusive) /\ Paid(r.payments) = r.total
    BY BuiltIs
  <2> HIDE DEF r
  <2>4. r.lines \in Seq(Line) /\ r.inclusive \in BOOLEAN
    BY <2>3 DEF SoldReceipt
  <2>5. TaxedSales(r.taxes) = r.total
    BY <2>3, <2>4, TaxesSum
  <2>6. LinesTotal(r.lines) \in Int
    BY <2>4, SumTotals
  <2>7. ExpectedTotal(r) = r.total
    BY <2>3, <2>4, <2>6 DEF ExpectedTotal, ReceiptTotal
  <2>8. ContentErrors(r) \subseteq {"RCPT013"}
    BY <2>3, <2>7 DEF ContentErrors
  <2> QED
    BY <2>2, <2>5, <2>8 DEF r
<1> QED
  BY <1>1, SoldInvariant, PTL

\* What is signed is what the file says, to what moneyFromJsonNumber()
\* tolerates.
THEOREM AlwaysSignedAsWritten == DaySpec => []SignedAsWritten
<1>1. ASSUME SoldInv
      PROVE  SignedAsWritten
  <2>1. SUFFICES ASSUME NEW i \in DOMAIN sold
                 PROVE  \E file \in Inputs : AmountsOf(sold[i], file)
    BY DEF SignedAsWritten
  <2>2. PICK file \in AcceptedFiles : sold[i] = Built(file)
    BY <1>1, SoldAre
  <2> DEFINE r == Built(file)
  <2>3. /\ file \in Inputs
        /\ r.lines \in Seq(Line) /\ Len(r.lines) = Len(file.lines)
        /\ r.payments \in Seq(Payment) /\ Len(r.payments) = Len(file.payments)
        /\ \A k \in 1..Len(file.lines) : IsNear(r.lines[k].price, file.lines[k].price)
        /\ \A k \in 1..Len(file.payments) : IsNear(r.payments[k].amount, file.payments[k].amount)
    BY AcceptedIs, BuiltIs
  <2> HIDE DEF r
  <2>4. /\ DOMAIN r.lines = 1..Len(file.lines) /\ DOMAIN r.payments = 1..Len(file.payments)
    BY <2>3
  <2> QED
    BY <2>2, <2>3, <2>4 DEF r, AmountsOf
<1> QED
  BY <1>1, SoldInvariant, PTL

\* Errors of up to half a D each add up to at most that many half Ds.
LEMMA SumWithin ==
  ASSUME NEW s \in Seq(Int), NEW G \in SUBSET (1..Len(s)), NEW D \in Nat,
         \A i \in 1..Len(s) : IF i \in G THEN 2 * Abs(s[i]) <= D ELSE s[i] = 0
  PROVE  2 * Abs(SumOf(s)) <= Cardinality(G) * D
<1> DEFINE n == Len(s)
           one == [i \in 1..n |-> IF i \in G THEN 1 ELSE 0]
           most == [i \in 1..n |-> D * one[i]]
           more == [i \in 1..n |-> 2 * s[i]]
           less == [i \in 1..n |-> (0 - 2) * s[i]]
<1>1. n \in Nat /\ \A i \in 1..n : s[i] \in Int
  OBVIOUS
<1>2. \A i \in 1..n : IF i \in G THEN 2 * Abs(s[i]) <= D ELSE s[i] = 0
  OBVIOUS
<1> HIDE DEF n
<1>3. \A i \in 1..n : /\ one[i] \in Int /\ most[i] \in Int /\ more[i] \in Int /\ less[i] \in Int
                      /\ most[i] = IF i \in G THEN D ELSE 0
  BY <1>1
<1>4. \A i \in 1..n : more[i] <= most[i] /\ less[i] <= most[i]
  <2> TAKE i \in 1..n
  <2>1. PICK x \in Int : s[i] = x
    BY <1>1
  <2>2. more[i] = 2 * x /\ less[i] = (0 - 2) * x /\ most[i] = IF i \in G THEN D ELSE 0
    BY <1>3, <2>1
  <2> HIDE DEF more, less, most
  <2>3. IF i \in G THEN 2 * Abs(x) <= D ELSE x = 0
    BY <1>2, <2>1
  <2> QED
    BY <2>2, <2>3 DEF Abs
<1>5. /\ one \in Seq(Int) /\ most \in Seq(Int) /\ more \in Seq(Int) /\ less \in Seq(Int)
      /\ Len(one) = n /\ Len(most) = n /\ Len(more) = n /\ Len(less) = n
  <2>1. one \in [1..n -> Int] /\ most \in [1..n -> Int] /\ more \in [1..n -> Int] /\ less \in [1..n -> Int]
    BY <1>3
  <2> HIDE DEF one, most, more, less
  <2> QED
    BY <1>1, <2>1, FunctionIsSeq
<1>6. SumOf(one) = Cardinality(G)
  BY <1>1, SumCount DEF n
<1>7. /\ \A i \in 1..n : most[i] = D * one[i]
      /\ \A i \in 1..n : more[i] = 2 * s[i]
      /\ \A i \in 1..n : less[i] = (0 - 2) * s[i]
  OBVIOUS
<1> HIDE DEF one, most, more, less
<1>8. SumOf(most) = D * SumOf(one)
  <2>1. Len(most) = Len(one) /\ D \in Int /\ \A i \in 1..Len(one) : most[i] = D * one[i]
    BY <1>5, <1>7
  <2> QED
    BY ONLY <1>5, <2>1, SumScale
<1>9. SumOf(more) = 2 * SumOf(s) /\ SumOf(less) = (0 - 2) * SumOf(s)
  <2>1. Len(more) = Len(s) /\ Len(less) = Len(s)
    BY <1>5 DEF n
  <2>2. SumOf(more) = 2 * SumOf(s)
    BY <1>5, <1>7, <2>1, SumScale DEF n
  <2>3. SumOf(less) = (0 - 2) * SumOf(s)
    BY <1>5, <1>7, <2>1, SumScale, 0 - 2 \in Int DEF n
  <2> QED
    BY <2>2, <2>3
<1>10. SumOf(more) <= SumOf(most) /\ SumOf(less) <= SumOf(most)
  BY <1>4, <1>5, SumMonotone
<1>11. SumOf(s) \in Int /\ SumOf(one) \in Int
  BY <1>5, PartialSumsAre
<1>12. PICK x, c \in Int : x = SumOf(s) /\ c = Cardinality(G)
  BY <1>6, <1>11
<1>13. 2 * x <= D * c /\ (0 - 2) * x <= D * c
  BY <1>6, <1>8, <1>9, <1>10, <1>12
<1>14. 2 * Abs(x) <= c * D
  BY <1>13 DEF Abs
<1> QED
  BY <1>12, <1>14

\* The tax of an entry is exact to within half a cent a line.
Within(t, lines, inclusive) ==
  LET group   == TaxGroup(lines, <<t.taxID, t.taxPercent, t.taxCode>>)
      percent == IF t.taxPercent = None THEN 0 ELSE t.taxPercent
      divisor == TaxDivisor(percent, inclusive)
  IN  2 * Abs(t.taxAmount * divisor - SumOver(group, LineTotals(lines)) * percent)
        <= Cardinality(group) * divisor

\* The tax of every entry is the exact percentage of what its lines cost to
\* within half a cent a line (lineTaxCents(), buildReceiptTaxes()).
THEOREM TaxIsAlwaysExact == DaySpec => []TaxIsExact
<1>1. ASSUME NEW lines \in Seq(Line), NEW inclusive \in BOOLEAN,
             NEW K \in Nat, NEW c \in [1..Len(lines) -> 1..K],
             NEW taxes, Splits(taxes, lines, inclusive, K, c), NEW k \in 1..K
      PROVE  Within(taxes[k], lines, inclusive)
  <2> DEFINE t == taxes[k]
             n == Len(lines)
             G == {i \in 1..n : c[i] = k}
             percent == IF t.taxPercent = None THEN 0 ELSE t.taxPercent
             divisor == TaxDivisor(percent, inclusive)
             x == LineTaxes(lines, inclusive)
             y == LineTotals(lines)
             xs == [i \in DOMAIN x |-> IF i \in G THEN x[i] ELSE 0]
             ys == [i \in DOMAIN y |-> IF i \in G THEN y[i] ELSE 0]
             xd == [i \in 1..n |-> divisor * xs[i]]
             yd == [i \in 1..n |-> (0 - percent) * ys[i]]
             d == [i \in 1..n |-> xd[i] + yd[i]]
  <2>1. /\ G = TaxGroup(lines, <<t.taxID, t.taxPercent, t.taxCode>>)
        /\ t.taxAmount = SumOver(G, x) /\ t \in ReceiptTax
    <3>1. k \in 1..K /\ taxes \in Seq(ReceiptTax) /\ Len(taxes) = K
      BY <1>1 DEF Splits
    <3>2. t \in ReceiptTax
      BY <3>1
    <3>3. /\ G = TaxGroup(lines, <<taxes[k].taxID, taxes[k].taxPercent, taxes[k].taxCode>>)
          /\ taxes[k].taxAmount = SumOver(G, x)
      BY ONLY <1>1, <3>1 DEF Splits
    <3> QED
      BY <3>2, <3>3
  <2>2. /\ n \in Nat /\ DOMAIN lines = 1..n
        /\ x \in Seq(Int) /\ y \in Seq(Int) /\ Len(x) = n /\ Len(y) = n
        /\ DOMAIN x = 1..n /\ DOMAIN y = 1..n
        /\ \A i \in 1..n : /\ lines[i] \in Line /\ x[i] = LineTax(lines[i], inclusive)
                           /\ y[i] = LineTotal(lines[i]) /\ x[i] \in Int /\ y[i] \in Int
    BY LinesAre
  <2>3. percent \in Nat /\ divisor \in Nat \ {0}
    <3>1. percent \in Nat
      BY <2>1 DEF ReceiptTax
    <3> HIDE DEF percent
    <3> QED
      BY <3>1 DEF TaxDivisor
  <2>4. ASSUME NEW i \in G
        PROVE  Percent(lines[i]) = percent
    <3>1. TaxKey(lines[i]) = <<t.taxID, t.taxPercent, t.taxCode>>
      BY <2>1 DEF TaxGroup
    <3>2. lines[i].taxPercent = t.taxPercent
      BY <3>1 DEF TaxKey
    <3> QED
      BY <3>2 DEF Percent
  <2>5. /\ xs \in Seq(Int) /\ Len(xs) = n /\ SumOver(G, x) = SumOf(xs)
        /\ ys \in Seq(Int) /\ Len(ys) = n /\ SumOver(G, y) = SumOf(ys)
    <3> HIDE DEF x, y, n, G
    <3> QED
      BY <2>2, SumOverIs
  <2>6. G \in SUBSET (1..n)
    OBVIOUS
  <2> HIDE DEF t, n, G, percent, divisor, x, y
  <2>7. \A i \in 1..n : /\ xs[i] = IF i \in G THEN x[i] ELSE 0
                        /\ ys[i] = IF i \in G THEN y[i] ELSE 0
                        /\ xs[i] \in Int /\ ys[i] \in Int
    BY <2>2
  <2>8. \A i \in 1..n : /\ xd[i] = divisor * xs[i] /\ xd[i] \in Int
                        /\ yd[i] = (0 - percent) * ys[i] /\ yd[i] \in Int
    <3> HIDE DEF xs, ys
    <3> TAKE i \in 1..n
    <3>1. PICK a, b \in Int : xs[i] = a /\ ys[i] = b
      BY <2>7
    <3> QED
      BY <2>3, <3>1
  <2> HIDE DEF xs, ys
  <2>9. /\ xd \in [1..n -> Int] /\ yd \in [1..n -> Int]
    BY <2>8
  <2> HIDE DEF xd, yd
  <2>10. \A i \in 1..n : d[i] = xd[i] + yd[i] /\ d[i] \in Int
    BY <2>9
  <2>11. d \in [1..n -> Int]
    BY <2>10
  <2> HIDE DEF d
  <2>12. /\ xd \in Seq(Int) /\ yd \in Seq(Int) /\ d \in Seq(Int)
         /\ Len(xd) = n /\ Len(yd) = n /\ Len(d) = n
    BY <2>2, <2>9, <2>11, FunctionIsSeq
  <2>13. SumOf(xd) = divisor * SumOf(xs)
    <3>1. divisor \in Int /\ Len(xd) = Len(xs) /\ \A i \in 1..Len(xs) : xd[i] = divisor * xs[i]
      BY <2>3, <2>5, <2>8, <2>12
    <3> QED
      BY ONLY <2>5, <2>12, <3>1, SumScale
  <2>14. SumOf(yd) = (0 - percent) * SumOf(ys)
    <3>1. 0 - percent \in Int /\ Len(yd) = Len(ys) /\ \A i \in 1..Len(ys) : yd[i] = (0 - percent) * ys[i]
      BY <2>3, <2>5, <2>8, <2>12
    <3> QED
      BY ONLY <2>5, <2>12, <3>1, SumScale
  <2>15. SumOf(d) = SumOf(xd) + SumOf(yd)
    <3>1. Len(yd) = Len(xd) /\ Len(d) = Len(xd) /\ \A i \in 1..Len(xd) : d[i] = xd[i] + yd[i]
      BY <2>10, <2>12
    <3> QED
      BY ONLY <2>12, <3>1, SumAdd
  <2>16. \A i \in 1..n : IF i \in G THEN 2 * Abs(d[i]) <= divisor ELSE d[i] = 0
    <3>1. ASSUME NEW i \in 1..n, i \in G
          PROVE  2 * Abs(d[i]) <= divisor
      <4>1. /\ lines[i] \in Line /\ Percent(lines[i]) = percent
            /\ x[i] = LineTax(lines[i], inclusive) /\ y[i] = LineTotal(lines[i])
        BY <2>2, <2>4, <3>1
      <4>2. 2 * Abs(LineTax(lines[i], inclusive) * divisor - LineTotal(lines[i]) * percent) <= divisor
        BY <4>1, LineTaxIsExact DEF divisor
      <4>3. PICK a, b \in Int : x[i] = a /\ y[i] = b
        BY <2>2
      <4>4. d[i] = divisor * a + (0 - percent) * b
        BY <2>7, <2>8, <2>10, <3>1, <4>3
      <4>5. divisor * a + (0 - percent) * b = a * divisor - b * percent
        BY <2>3
      <4> QED
        BY <4>1, <4>2, <4>3, <4>4, <4>5
    <3>2. ASSUME NEW i \in 1..n, i \notin G
          PROVE  d[i] = 0
      <4>1. xs[i] = 0 /\ ys[i] = 0
        BY <2>7, <3>2
      <4>2. xd[i] = 0 /\ yd[i] = 0
        <5>1. xd[i] = divisor * 0 /\ yd[i] = (0 - percent) * 0
          BY <2>8, <4>1
        <5>2. divisor * 0 = 0 /\ (0 - percent) * 0 = 0
          BY <2>3
        <5> QED
          BY ONLY <5>1, <5>2
      <4> QED
        BY <2>10, <4>2
    <3> QED
      BY <3>1, <3>2
  <2>17. 2 * Abs(SumOf(d)) <= Cardinality(G) * divisor
    BY <2>3, <2>6, <2>12, <2>16, SumWithin
  <2>18. SumOf(xs) \in Int /\ SumOf(ys) \in Int
    BY <2>5, PartialSumsAre
  <2>19. SumOf(d) = t.taxAmount * divisor - SumOver(G, y) * percent
    <3>1. PICK a, b \in Int : a = SumOf(xs) /\ b = SumOf(ys)
      BY <2>18
    <3>2. SumOf(d) = divisor * a + (0 - percent) * b
      BY <2>13, <2>14, <2>15, <3>1
    <3>3. divisor * a + (0 - percent) * b = a * divisor - b * percent
      BY <2>3
    <3> QED
      BY <2>1, <2>5, <3>1, <3>2, <3>3
  <2>20. 2 * Abs(t.taxAmount * divisor - SumOver(TaxGroup(lines, <<t.taxID, t.taxPercent, t.taxCode>>), y) * percent)
           <= Cardinality(TaxGroup(lines, <<t.taxID, t.taxPercent, t.taxCode>>)) * divisor
    BY <2>1, <2>17, <2>19
  <2> QED
    BY <2>20 DEF t, y, percent, divisor, Within
<1>2. ASSUME SoldInv
      PROVE  TaxIsExact
  <2>1. ASSUME NEW i \in DOMAIN sold, NEW k \in DOMAIN sold[i].taxes
        PROVE  Within(sold[i].taxes[k], sold[i].lines, sold[i].inclusive)
    <3>1. PICK r \in SoldReceipt : r = sold[i] /\ r.taxes = BuildReceiptTaxes(r.lines, r.inclusive)
      <4>1. PICK file \in AcceptedFiles : sold[i] = Built(file)
        BY <1>2, SoldAre
      <4> QED
        BY <4>1, BuiltIs
    <3>2. r.lines \in Seq(Line) /\ r.inclusive \in BOOLEAN
      BY DEF SoldReceipt
    <3>3. PICK K \in Nat : \E c \in [1..Len(r.lines) -> 1..K] : Splits(r.taxes, r.lines, r.inclusive, K, c)
      BY <3>1, <3>2, TaxesAre
    <3>4. PICK c \in [1..Len(r.lines) -> 1..K] : Splits(r.taxes, r.lines, r.inclusive, K, c)
      BY <3>3
    <3>5. k \in 1..K
      BY <2>1, <3>1, <3>4 DEF Splits
    <3> QED
      BY <1>1, <3>1, <3>2, <3>4, <3>5
  <2> QED
    BY <2>1 DEF TaxIsExact, Within
<1> QED
  BY <1>2, SoldInvariant, PTL

-----------------------------------------------------------------------------
(* Counters.  A counter is found by its key, and its value is added to.    *)

Key(c) == <<c.type, c.currency.rank, c.taxID, c.moneyType>>

Matches(m, c, asTyped) == SameCounter(m, c) /\ (asTyped => m.currency = c.currency)

Added(m, v) == [m EXCEPT !.value = @ + v]

\* u is s with c added to the counter at that place, the first that matches, or
\* put at its end where none does.
UpsertsAt(s, c, asTyped, at, u) ==
  /\ u \in Seq(Counter)
  /\ at = 0 =>
       /\ Len(u) = Len(s) + 1 /\ u[Len(s) + 1] = c
       /\ \A i \in 1..Len(s) : u[i] = s[i] /\ ~Matches(s[i], c, asTyped)
  /\ at # 0 =>
       /\ Len(u) = Len(s) /\ u[at] = Added(s[at], c.value)
       /\ Matches(s[at], c, asTyped)
       /\ \A i \in 1..(at - 1) : ~Matches(s[i], c, asTyped)
       /\ \A i \in 1..Len(s) : i # at => u[i] = s[i]

LEMMA CounterIs ==
  ASSUME NEW c \in Counter
  PROVE  /\ c.value \in Int /\ c.currency \in Currency /\ c.currency.rank \in Nat
         /\ c.currency.upper \in BOOLEAN /\ c.taxID \in Int \cup {None}
         /\ DOMAIN c = {"type", "currency", "taxID", "taxPercent", "moneyType", "value"}
         /\ DOMAIN c.currency = {"upper", "rank"}
<1>1. c.currency \in Currency /\ c.value \in Int /\ c.taxID \in Int \cup {None}
  BY DEF Counter
<1>2. DOMAIN c = {"type", "currency", "taxID", "taxPercent", "moneyType", "value"}
  BY DEF Counter
<1> QED
  BY <1>1, <1>2 DEF Currency

LEMMA AddedIs ==
  ASSUME NEW m \in Counter, NEW v \in Int
  PROVE  /\ Added(m, v) \in Counter /\ Added(m, v).value = m.value + v
         /\ Key(Added(m, v)) = Key(m) /\ Added(m, v).currency = m.currency
<1>1. m.value + v \in Int
  BY CounterIs
<1>2. DOMAIN m = {"type", "currency", "taxID", "taxPercent", "moneyType", "value"}
  BY CounterIs
<1> DEFINE x == m.value + v
<1>3. Added(m, v) = [m EXCEPT !.value = x]
  BY DEF Added
<1> HIDE DEF x
<1>4. [m EXCEPT !.value = x] \in Counter
  BY <1>1 DEF x, Counter
<1>5. /\ [m EXCEPT !.value = x].value = x /\ [m EXCEPT !.value = x].type = m.type
      /\ [m EXCEPT !.value = x].currency = m.currency /\ [m EXCEPT !.value = x].taxID = m.taxID
      /\ [m EXCEPT !.value = x].moneyType = m.moneyType
  BY <1>2
<1> QED
  BY <1>3, <1>4, <1>5 DEF Key, x

LEMMA SameKey ==
  ASSUME NEW a \in Counter, NEW b \in Counter
  PROVE  SameCounter(a, b) <=> Key(a) = Key(b)
<1>1. Upper(a.currency) = Upper(b.currency) <=> a.currency.rank = b.currency.rank
  BY CounterIs DEF Upper, Currency
<1> QED
  BY <1>1 DEF SameCounter, Key

LEMMA UpsertIs ==
  ASSUME NEW s \in Seq(Counter), NEW c \in Counter, NEW asTyped \in BOOLEAN
  PROVE  \E at \in 0..Len(s) : UpsertsAt(s, c, asTyped, at, Upsert(s, c, asTyped))
<1> DEFINE P(m) == SameCounter(m, c) /\ (asTyped => m.currency = c.currency)
           found == {i \in 1..Len(s) : P(s[i])}
           at == IF found # {} THEN Min(found) ELSE 0
           u == Upsert(s, c, asTyped)
<1>0. Len(s) \in Nat /\ DOMAIN s = 1..Len(s) /\ \A i \in 1..Len(s) : s[i] \in Counter
  OBVIOUS
<1>1. u = IF at = 0 THEN Append(s, c) ELSE [s EXCEPT ![at].value = @ + c.value]
  BY DEF Upsert, SelectInSeq
<1>2. \A m : P(m) <=> Matches(m, c, asTyped)
  BY DEF Matches
<1>3. CASE found = {}
  <2>1. at = 0 /\ u = Append(s, c)
    BY <1>1, <1>3
  <2>2. \A i \in 1..Len(s) : ~Matches(s[i], c, asTyped)
    BY <1>2, <1>3
  <2> HIDE DEF at, P, found, u
  <2>3. /\ u \in Seq(Counter) /\ Len(u) = Len(s) + 1 /\ u[Len(s) + 1] = c
        /\ \A i \in 1..Len(s) : u[i] = s[i]
    BY <2>1, AppendProperties
  <2>4. UpsertsAt(s, c, asTyped, 0, u)
    BY <2>2, <2>3 DEF UpsertsAt
  <2> QED
    BY <1>0, <2>4 DEF u
<1>4. CASE found # {}
  <2>1. found \in SUBSET Nat
    BY <1>0
  <2>2. \E m \in found : \A k \in found : m <= k
    <3> HIDE DEF found
    <3> QED
      BY <1>4, <2>1, LeastIs
  <2>3. at \in found /\ \A k \in found : at <= k
    <3> HIDE DEF found
    <3> QED
      BY <1>4, <2>2 DEF Min
  <2>4. /\ at \in 1..Len(s) /\ at \in Nat /\ at # 0 /\ Matches(s[at], c, asTyped)
        /\ \A i \in 1..Len(s) : Matches(s[i], c, asTyped) => at <= i
    <3> HIDE DEF at, P
    <3> QED
      BY <1>0, <1>2, <2>3
  <2> DEFINE x == Added(s[at], c.value)
  <2>5. u = [s EXCEPT ![at] = x]
    <3> HIDE DEF at
    <3> QED
      BY <1>1, <2>4 DEF Added
  <2> HIDE DEF at, P, found, u
  <2>6. x \in Counter
    BY <1>0, <2>4, AddedIs, CounterIs
  <2>7. u[at] = x
    BY <1>0, <2>4, <2>5
  <2> HIDE DEF x
  <2>8. u \in Seq(Counter) /\ Len(u) = Len(s) /\ \A i \in 1..Len(s) : i # at => u[i] = s[i]
    BY <1>0, <2>4, <2>5, <2>6, ExceptSeq
  <2>9. \A i \in 1..(at - 1) : ~Matches(s[i], c, asTyped)
    BY <1>0, <2>4
  <2>10. UpsertsAt(s, c, asTyped, at, u)
    BY <2>4, <2>7, <2>8, <2>9 DEF UpsertsAt, x
  <2>11. at \in 0..Len(s)
    BY <1>0, <2>4
  <2> QED
    BY <2>10, <2>11 DEF u
<1> QED
  BY <1>3, <1>4

\* The values of the counters whose key is one of Keys.
Where(s, Keys) == [i \in DOMAIN s |-> IF Key(s[i]) \in Keys THEN s[i].value ELSE 0]

Total(s, Keys) == SumOf(Where(s, Keys))

LEMMA WhereIs ==
  ASSUME NEW s \in Seq(Counter), NEW Keys
  PROVE  /\ Where(s, Keys) \in Seq(Int) /\ Len(Where(s, Keys)) = Len(s)
         /\ Total(s, Keys) \in Int
         /\ \A i \in 1..Len(s) :
              Where(s, Keys)[i] = IF Key(s[i]) \in Keys THEN s[i].value ELSE 0
<1>1. Len(s) \in Nat /\ DOMAIN s = 1..Len(s) /\ \A i \in 1..Len(s) : s[i].value \in Int
  <2>1. \A i \in 1..Len(s) : s[i] \in Counter
    OBVIOUS
  <2> QED
    BY <2>1, CounterIs
<1>2. \A i \in 1..Len(s) :
        /\ Where(s, Keys)[i] = IF Key(s[i]) \in Keys THEN s[i].value ELSE 0
        /\ Where(s, Keys)[i] \in Int
  BY <1>1 DEF Where
<1>3. Where(s, Keys) \in [1..Len(s) -> Int]
  BY <1>1, <1>2 DEF Where
<1>4. Where(s, Keys) \in Seq(Int) /\ Len(Where(s, Keys)) = Len(s)
  BY ONLY <1>1, <1>3, FunctionIsSeq
<1>5. Total(s, Keys) \in Int
  BY ONLY <1>4, PartialSumsAre DEF Total
<1> QED
  BY <1>2, <1>4, <1>5

\* What is upserted is added to the total of its key and to no other.
LEMMA UpsertAdds ==
  ASSUME NEW s \in Seq(Counter), NEW c \in Counter, NEW asTyped \in BOOLEAN, NEW Keys
  PROVE  Total(Upsert(s, c, asTyped), Keys)
           = Total(s, Keys) + IF Key(c) \in Keys THEN c.value ELSE 0
<1> DEFINE u == Upsert(s, c, asTyped)
           n == Len(s)
           w == Where(s, Keys)
           x == Where(u, Keys)
           v == IF Key(c) \in Keys THEN c.value ELSE 0
<1>1. PICK at \in 0..n : UpsertsAt(s, c, asTyped, at, u)
  BY UpsertIs
<1>2. n \in Nat /\ v \in Int /\ c.value \in Int /\ \A i \in 1..n : s[i] \in Counter
  BY CounterIs
<1> HIDE DEF u
<1>3. u \in Seq(Counter)
  BY <1>1 DEF UpsertsAt
<1>4. /\ w \in Seq(Int) /\ Len(w) = n
      /\ \A i \in 1..n : w[i] = IF Key(s[i]) \in Keys THEN s[i].value ELSE 0
  BY WhereIs
<1>5. /\ x \in Seq(Int) /\ Len(x) = Len(u)
      /\ \A i \in 1..Len(u) : x[i] = IF Key(u[i]) \in Keys THEN u[i].value ELSE 0
  BY <1>3, WhereIs
<1>6. Total(s, Keys) = SumOf(w) /\ Total(u, Keys) = SumOf(x)
  BY DEF Total
<1> HIDE DEF w, x, n, v
<1>7. CASE at = 0
  <2>1. Len(u) = n + 1 /\ u[n + 1] = c /\ \A i \in 1..n : u[i] = s[i]
    BY <1>1, <1>7 DEF UpsertsAt, n
  <2>2. x[n + 1] = v /\ Len(x) = Len(w) + 1
    <3>1. n + 1 \in 1..Len(u)
      BY ONLY <1>2, <2>1
    <3> QED
      BY ONLY <1>4, <1>5, <2>1, <3>1 DEF v
  <2>3. \A i \in 1..Len(w) : x[i] = w[i]
    BY <1>2, <1>4, <1>5, <2>1
  <2>4. SumOf(x) = SumOf(w) + x[Len(w) + 1]
    BY ONLY <1>4, <1>5, <2>2, <2>3, SumAppend
  <2> QED
    BY <1>4, <1>6, <2>2, <2>4 DEF u, v
<1>8. CASE at # 0
  <2> DEFINE d == [i \in 1..n |-> IF i = at THEN v ELSE 0]
  <2>1. /\ Len(u) = n /\ u[at] = Added(s[at], c.value) /\ Matches(s[at], c, asTyped)
        /\ \A i \in 1..n : i # at => u[i] = s[i]
    BY <1>1, <1>8 DEF UpsertsAt, n
  <2>2. at \in 1..n /\ s[at] \in Counter
    BY <1>2, <1>8
  <2>3. d \in Seq(Int) /\ Len(d) = n /\ d[at] = v /\ \A i \in 1..n : i # at => d[i] = 0
    BY <1>2, <2>2
  <2> HIDE DEF d
  <2>4. Key(u[at]) = Key(c) /\ Key(s[at]) = Key(c) /\ u[at].value = s[at].value + c.value
    <3>1. SameCounter(s[at], c)
      BY <2>1 DEF Matches
    <3>2. Key(s[at]) = Key(c)
      BY <2>2, <3>1, SameKey
    <3>3. Key(Added(s[at], c.value)) = Key(s[at])
          /\ Added(s[at], c.value).value = s[at].value + c.value
      BY <1>2, <2>2, AddedIs
    <3> QED
      BY ONLY <2>1, <3>2, <3>3
  <2>5. ASSUME NEW i \in 1..n
        PROVE  x[i] = w[i] + d[i]
    <3>1. CASE i = at
      <4>1. PICK a, b \in Int : a = s[at].value /\ b = c.value
        BY <1>2, <2>2, CounterIs
      <4>2. x[at] = IF Key(c) \in Keys THEN a + b ELSE 0
        BY <1>5, <2>1, <2>2, <2>4, <4>1
      <4>3. w[at] = IF Key(c) \in Keys THEN a ELSE 0
        BY <1>4, <2>2, <2>4, <4>1
      <4>4. d[at] = IF Key(c) \in Keys THEN b ELSE 0
        BY <2>3, <4>1 DEF v
      <4> QED
        BY <3>1, <4>2, <4>3, <4>4
    <3>2. CASE i # at
      <4>1. x[i] = w[i]
        BY <1>4, <1>5, <2>1, <3>2
      <4>2. w[i] \in Int
        BY ONLY <1>4, i \in 1..n
      <4>3. d[i] = 0
        BY <2>3, <3>2
      <4> QED
        BY ONLY <4>1, <4>2, <4>3
    <3> QED
      BY <3>1, <3>2
  <2>6. Len(x) = n
    BY <1>5, <2>1
  <2>7. SumOf(x) = SumOf(w) + SumOf(d)
    <3>1. Len(d) = Len(w) /\ Len(x) = Len(w) /\ \A i \in 1..Len(w) : x[i] = w[i] + d[i]
      BY ONLY <1>4, <2>3, <2>5, <2>6
    <3> QED
      BY ONLY <1>4, <1>5, <2>3, <3>1, SumAdd
  <2>8. SumOf(d) = v
    BY <2>2, <2>3, SumSingle
  <2> QED
    BY <1>6, <2>7, <2>8 DEF u, v
<1> QED
  BY <1>7, <1>8

LEMMA UpsertType ==
  ASSUME NEW s \in Seq(Counter), NEW c \in Counter, NEW asTyped \in BOOLEAN
  PROVE  Upsert(s, c, asTyped) \in Seq(Counter)
  BY UpsertIs DEF UpsertsAt

\* g gives the counters after the first deltas.
Runs(s, ds, asTyped, g) ==
  /\ g \in [0..Len(ds) -> Seq(Counter)] /\ g[0] = s
  /\ \A i \in 1..Len(ds) : g[i] = Upsert(g[i - 1], ds[i], asTyped)

LEMMA RunExists ==
  ASSUME NEW s \in Seq(Counter), NEW ds \in Seq(Counter), NEW asTyped \in BOOLEAN
  PROVE  \E g : Runs(s, ds, asTyped, g)
<1> DEFINE C == Seq(Counter)
           n == Len(ds)
           step == [p \in C \X (1..n) |-> Upsert(p[1], ds[p[2]], asTyped)]
<1>1. n \in Nat /\ s \in C /\ \A i \in 1..n : ds[i] \in Counter
  OBVIOUS
<1>2. \A a \in C : \A i \in 1..n : Upsert(a, ds[i], asTyped) \in C
  BY UpsertType
<1> HIDE DEF C, n
<1>3. step \in [C \X (1..n) -> C]
  BY <1>2
<1>4. \A a \in C : \A i \in 1..n : step[<<a, i>>] = Upsert(a, ds[i], asTyped)
  OBVIOUS
<1> HIDE DEF step
<1>5. PICK g : Follows(g, C, s, n, step)
  BY ONLY <1>1, <1>3, Recursion
<1>6. \A i \in 1..n : g[i - 1] \in C
  BY <1>1, <1>5 DEF Follows
<1> QED
  BY <1>4, <1>5, <1>6 DEF Runs, Follows, C, n

LEMMA AccumulateIs ==
  ASSUME NEW s \in Seq(Counter), NEW ds \in Seq(Counter), NEW asTyped \in BOOLEAN,
         NEW g, Runs(s, ds, asTyped, g)
  PROVE  Accumulate(s, ds, asTyped) = g[Len(ds)]
<1> DEFINE n == Len(ds)
           F(f) == [i \in 0..n |-> IF i = 0 THEN s ELSE Upsert(f[i - 1], ds[i], asTyped)]
           a == CHOOSE f : f = F(f)
           T == {k \in Nat : k <= n => a[k] = g[k]}
<1>1. Accumulate(s, ds, asTyped) = a[n]
  BY DEF Accumulate
<1>2. /\ n \in Nat /\ g \in [0..n -> Seq(Counter)] /\ g[0] = s
      /\ \A i \in 1..n : g[i] = Upsert(g[i - 1], ds[i], asTyped)
  BY DEF Runs
<1> HIDE DEF n
<1>3. g = F(g)
  <2>1. \A i \in 0..n : g[i] = IF i = 0 THEN s ELSE Upsert(g[i - 1], ds[i], asTyped)
    BY <1>2
  <2> QED
    BY <1>2, <2>1
<1>4. a = F(a)
  <2> HIDE DEF F
  <2> QED
    BY <1>3
<1>5. \A i \in 0..n : a[i] = IF i = 0 THEN s ELSE Upsert(a[i - 1], ds[i], asTyped)
  <2> HIDE DEF a
  <2> QED
    BY <1>4
<1> HIDE DEF a
<1>6. 0 \in T
  BY <1>2, <1>5
<1>7. ASSUME NEW k \in Nat, k \in T
      PROVE  k + 1 \in T
  <2>1. SUFFICES ASSUME k + 1 <= n
                 PROVE  a[k + 1] = g[k + 1]
    BY <1>7
  <2>2. a[k] = g[k] /\ k + 1 \in 0..n /\ k + 1 \in 1..n /\ k + 1 # 0 /\ (k + 1) - 1 = k
    BY <1>2, <1>7, <2>1
  <2> QED
    BY <1>2, <1>5, <2>2
<1>8. a[n] = g[n]
  <2> HIDE DEF T
  <2>1. n \in T
    BY <1>2, <1>6, <1>7, Induction
  <2> QED
    BY <1>2, <2>1 DEF T
<1> QED
  BY <1>1, <1>8 DEF n

\* Every total grows by what the deltas come to.
LEMMA AccumulateAdds ==
  ASSUME NEW s \in Seq(Counter), NEW ds \in Seq(Counter), NEW asTyped \in BOOLEAN
  PROVE  /\ Accumulate(s, ds, asTyped) \in Seq(Counter)
         /\ \A Keys : Total(Accumulate(s, ds, asTyped), Keys) = Total(s, Keys) + Total(ds, Keys)
<1> DEFINE n == Len(ds)
<1>1. PICK g : Runs(s, ds, asTyped, g)
  BY RunExists
<1>2. Accumulate(s, ds, asTyped) = g[n]
  BY <1>1, AccumulateIs
<1>3. /\ n \in Nat /\ g \in [0..n -> Seq(Counter)] /\ g[0] = s
      /\ \A i \in 1..n : g[i] = Upsert(g[i - 1], ds[i], asTyped) /\ ds[i] \in Counter
  BY <1>1 DEF Runs
<1>4. g[n] \in Seq(Counter)
  BY <1>3
<1>5. ASSUME NEW Keys
      PROVE  Total(g[n], Keys) = Total(s, Keys) + Total(ds, Keys)
  <2> DEFINE w == Where(ds, Keys)
             h == [i \in 0..n |-> Total(g[i], Keys) - Total(s, Keys)]
  <2>1. /\ w \in Seq(Int) /\ Len(w) = n
        /\ \A i \in 1..n : w[i] = IF Key(ds[i]) \in Keys THEN ds[i].value ELSE 0
    BY WhereIs
  <2>2. Total(ds, Keys) = SumOf(w)
    BY DEF Total
  <2> HIDE DEF n, w
  <2>3. \A i \in 0..n : Total(g[i], Keys) \in Int
    BY <1>3, WhereIs
  <2>4. Total(s, Keys) \in Int
    BY WhereIs
  <2>5. h[0] = 0
    BY <1>3, <2>4
  <2>6. ASSUME NEW i \in 1..n
        PROVE  h[i] = h[i - 1] + w[i]
    <3>1. i \in 0..n /\ i - 1 \in 0..n
      BY <1>3
    <3>2. Total(g[i], Keys) = Total(g[i - 1], Keys) + w[i]
      <4>1. g[i - 1] \in Seq(Counter) /\ ds[i] \in Counter /\ g[i] = Upsert(g[i - 1], ds[i], asTyped)
        BY ONLY <1>3, <3>1, i \in 1..n
      <4>2. Total(Upsert(g[i - 1], ds[i], asTyped), Keys)
              = Total(g[i - 1], Keys) + IF Key(ds[i]) \in Keys THEN ds[i].value ELSE 0
        BY ONLY <4>1, asTyped \in BOOLEAN, UpsertAdds
      <4> QED
        BY ONLY <2>1, <4>1, <4>2, i \in 1..n
    <3>3. w[i] \in Int
      BY <2>1
    <3>4. PICK a, b, c \in Int : a = Total(g[i - 1], Keys) /\ b = w[i] /\ c = Total(s, Keys)
      BY <2>3, <2>4, <3>1, <3>3
    <3>5. h[i] = Total(g[i], Keys) - c /\ h[i - 1] = a - c
      BY <3>1, <3>4
    <3> HIDE DEF h
    <3>6. h[i] = (a + b) - c /\ h[i - 1] = a - c /\ w[i] = b
      BY <3>2, <3>4, <3>5
    <3> QED
      BY ONLY <3>6, a \in Int, b \in Int, c \in Int
  <2>7. h[n] = Total(g[n], Keys) - Total(s, Keys)
    BY <1>3
  <2> HIDE DEF h
  <2>8. SumOf(w) = h[n]
    BY <2>1, <2>5, <2>6, SumIs
  <2>9. Total(g[n], Keys) \in Int
    BY <1>3, <2>3
  <2> QED
    BY <2>2, <2>4, <2>7, <2>8, <2>9
<1> QED
  BY <1>2, <1>4, <1>5

-----------------------------------------------------------------------------
(* What a receipt adds to the counters.                                    *)

LEMMA SumOdd ==
  ASSUME NEW u \in Seq(Int), NEW w \in Seq(Int), Len(w) = 2 * Len(u),
         \A k \in 1..Len(u) : w[2 * k - 1] = u[k] /\ w[2 * k] = 0
  PROVE  SumOf(w) = SumOf(u)
<1> DEFINE n == Len(u)
           p == PartialSums(u)
           g == [i \in 0..(2 * n) |-> p[(i + 1) \div 2]]
<1>1. /\ n \in Nat /\ p \in [0..n -> Int] /\ p[0] = 0 /\ SumOf(u) = p[n]
      /\ \A i \in 1..n : p[i] = p[i - 1] + u[i]
  BY ONLY u \in Seq(Int), PartialSumsAre
<1>2. /\ Len(w) = 2 * n
      /\ \A k \in 1..n : w[2 * k - 1] = u[k] /\ w[2 * k] = 0 /\ u[k] \in Int
  OBVIOUS
<1> HIDE DEF n, p
<1>3. g[0] = 0 /\ g[2 * n] = p[n]
  <2>1. (0 + 1) \div 2 = 0 /\ (2 * n + 1) \div 2 = n /\ 0 \in 0..(2 * n) /\ 2 * n \in 0..(2 * n)
    BY <1>1
  <2> QED
    BY <1>1, <2>1
<1>4. ASSUME NEW i \in 1..(2 * n)
      PROVE  g[i] = g[i - 1] + w[i]
  <2> DEFINE k == (i + 1) \div 2
  <2>1. k \in 1..n /\ (i = 2 * k - 1 \/ i = 2 * k)
    BY <1>1
  <2>2. g[i] = p[k] /\ g[i - 1] = p[i \div 2]
    <3>1. i \in 0..(2 * n) /\ i - 1 \in 0..(2 * n) /\ (i - 1) + 1 = i
      BY <1>1
    <3> QED
      BY <3>1
  <2> HIDE DEF k, g
  <2>3. CASE i = 2 * k
    <3>0. k \in Nat /\ (2 * k) \div 2 = k
      BY <1>1, <2>1
    <3>1. i \div 2 = k /\ w[i] = 0 /\ p[k] \in Int
      <4>1. i \div 2 = k
        BY <2>3, <3>0
      <4>2. w[i] = 0
        BY <1>2, <2>1, <2>3
      <4>3. p[k] \in Int
        BY <1>1, <2>1
      <4> QED
        BY <4>1, <4>2, <4>3
    <3> QED
      BY <2>2, <3>1
  <2>4. CASE i = 2 * k - 1
    <3>0. k \in Nat /\ (2 * k - 1) \div 2 = k - 1
      BY <1>1, <2>1
    <3>1. i \div 2 = k - 1 /\ w[i] = u[k]
      BY <1>2, <2>1, <2>4, <3>0
    <3> QED
      BY <1>1, <2>1, <2>2, <3>1
  <2> QED
    BY <2>1, <2>3, <2>4
<1>5. SumOf(w) = g[2 * n]
  <2> HIDE DEF g
  <2> QED
    BY <1>2, <1>3, <1>4, SumIs
<1> QED
  BY <1>1, <1>3, <1>5

LEMMA TotalConcat ==
  ASSUME NEW s \in Seq(Counter), NEW t \in Seq(Counter), NEW Keys
  PROVE  Total(s \o t, Keys) = Total(s, Keys) + Total(t, Keys)
<1> DEFINE u == s \o t
           a == Where(s, Keys)
           b == Where(t, Keys)
           c == Where(u, Keys)
<1>1. /\ u \in Seq(Counter) /\ Len(u) = Len(s) + Len(t)
      /\ \A i \in 1..(Len(s) + Len(t)) : u[i] = IF i <= Len(s) THEN s[i] ELSE t[i - Len(s)]
  BY ConcatProperties
<1>2. /\ a \in Seq(Int) /\ Len(a) = Len(s)
      /\ \A i \in 1..Len(s) : a[i] = IF Key(s[i]) \in Keys THEN s[i].value ELSE 0
  BY WhereIs
<1>3. /\ b \in Seq(Int) /\ Len(b) = Len(t)
      /\ \A i \in 1..Len(t) : b[i] = IF Key(t[i]) \in Keys THEN t[i].value ELSE 0
  BY WhereIs
<1>4. /\ c \in Seq(Int) /\ Len(c) = Len(u)
      /\ \A i \in 1..Len(u) : c[i] = IF Key(u[i]) \in Keys THEN u[i].value ELSE 0
  <2>1. u \in Seq(Counter)
    BY <1>1
  <2> HIDE DEF u
  <2> QED
    BY ONLY <2>1, WhereIs DEF c
<1>5. Len(s) \in Nat /\ Len(t) \in Nat
  OBVIOUS
<1> HIDE DEF u, a, b, c
<1>6. /\ a \o b \in Seq(Int) /\ Len(a \o b) = Len(a) + Len(b)
      /\ \A i \in 1..(Len(a) + Len(b)) : (a \o b)[i] = IF i <= Len(a) THEN a[i] ELSE b[i - Len(a)]
  <2>1. a \in Seq(Int) /\ b \in Seq(Int)
    BY <1>2, <1>3
  <2> QED
    BY ONLY <2>1, ConcatProperties
<1>7. ASSUME NEW i \in 1..Len(u)
      PROVE  c[i] = (a \o b)[i]
  <2>1. CASE i <= Len(s)
    <3>1. i \in 1..Len(s) /\ u[i] = s[i]
      BY <1>1, <1>5, <2>1
    <3> QED
      BY <1>1, <1>2, <1>3, <1>4, <1>6, <2>1, <3>1
  <2>2. CASE ~(i <= Len(s))
    <3>1. i - Len(s) \in 1..Len(t) /\ u[i] = t[i - Len(s)]
      BY <1>1, <1>5, <2>2
    <3> QED
      BY <1>1, <1>2, <1>3, <1>4, <1>6, <2>2, <3>1
  <2> QED
    BY <2>1, <2>2
<1>8. c = a \o b
  BY <1>1, <1>2, <1>3, <1>4, <1>6, <1>7, SeqEqual
<1> QED
  BY <1>2, <1>3, <1>8, SumConcat DEF Total, a, b, c, u

TaxTypes == {"SaleByTax", "SaleTaxByTax", "CreditNoteByTax", "CreditNoteTaxByTax",
             "DebitNoteByTax", "DebitNoteTaxByTax"}

LEMMA CounterTypesAre ==
  Range(CounterTypes) = TaxTypes \cup {"BalanceByMoneyType"}
<1> DEFINE s == CounterTypes
<1>1. DOMAIN s = {1, 2, 3, 4, 5, 6, 7}
  BY DEF CounterTypes
<1>2. /\ s[1] = "SaleByTax" /\ s[2] = "SaleTaxByTax" /\ s[3] = "CreditNoteByTax"
      /\ s[4] = "CreditNoteTaxByTax" /\ s[5] = "DebitNoteByTax" /\ s[6] = "DebitNoteTaxByTax"
      /\ s[7] = "BalanceByMoneyType"
  BY DEF CounterTypes
<1> HIDE DEF s
<1>3. Range(s) = {s[1], s[2], s[3], s[4], s[5], s[6], s[7]}
  BY <1>1 DEF Range
<1> QED
  BY <1>2, <1>3 DEF s, TaxTypes

\* The sale and the tax of an entry, of a receipt in a currency.
LEMMA TaxCountersAre ==
  ASSUME NEW r \in SoldReceipt, NEW t \in ReceiptTax, NEW amount \in Int, NEW type \in TaxTypes
  PROVE  LET c == TaxCounter(type, r, t, amount)
         IN  /\ c \in Counter /\ c.type = type /\ c.currency = r.currency
             /\ Key(c) = <<type, r.currency.rank, t.taxID, None>> /\ c.value = SignOf(r) * amount
<1> DEFINE v == SignOf(r) * amount
           c == TaxCounter(type, r, t, amount)
<1>1. v \in Int
  <2>1. SignOf(r) \in Int
    BY DEF SignOf
  <2> QED
    BY ONLY <2>1, amount \in Int
<1>2. c = [type |-> type, currency |-> r.currency, taxID |-> t.taxID, taxPercent |-> t.taxPercent,
           moneyType |-> None, value |-> v]
  BY DEF TaxCounter
<1>3. type \in Range(CounterTypes)
  BY CounterTypesAre
<1>4. r.currency \in Currency /\ t.taxID \in Int /\ t.taxPercent \in Nat \cup {None}
  BY DEF SoldReceipt, ReceiptTax
<1> HIDE DEF v, c
<1>5. c \in Counter
  BY ONLY <1>1, <1>2, <1>3, <1>4 DEF Counter
<1>6. /\ c.type = type /\ c.currency = r.currency /\ c.taxID = t.taxID /\ c.moneyType = None
      /\ c.value = v
  BY ONLY <1>2
<1> QED
  BY <1>5, <1>6 DEF v, c, Key

LEMMA MoneyCountersAre ==
  ASSUME NEW r \in SoldReceipt, NEW p \in Payment
  PROVE  LET c == MoneyCounter(r, p)
         IN  /\ c \in Counter /\ c.type = "BalanceByMoneyType" /\ c.currency = r.currency
             /\ Key(c) = <<"BalanceByMoneyType", r.currency.rank, None, p.moneyType>>
             /\ c.value = SignOf(r) * p.amount
<1> DEFINE v == SignOf(r) * p.amount
           c == MoneyCounter(r, p)
<1>1. v \in Int
  <2>1. SignOf(r) \in Int /\ p.amount \in Int
    BY DEF SignOf, Payment
  <2> QED
    BY ONLY <2>1
<1>2. c = [type |-> "BalanceByMoneyType", currency |-> r.currency, taxID |-> None,
           taxPercent |-> None, moneyType |-> p.moneyType, value |-> v]
  BY DEF MoneyCounter
<1>3. "BalanceByMoneyType" \in Range(CounterTypes)
  BY CounterTypesAre
<1>4. r.currency \in Currency /\ p.moneyType \in MoneyTypes
  BY DEF SoldReceipt, Payment
<1> HIDE DEF v, c
<1>5. c \in Counter
  BY ONLY <1>1, <1>2, <1>3, <1>4 DEF Counter
<1>6. /\ c.type = "BalanceByMoneyType" /\ c.currency = r.currency /\ c.taxID = None
      /\ c.moneyType = p.moneyType /\ c.value = v
  BY ONLY <1>2
<1> QED
  BY <1>5, <1>6 DEF v, c, Key

MoneyDeltas(r) == [i \in DOMAIN r.payments |-> MoneyCounter(r, r.payments[i])]

LEMMA DeltasAre ==
  ASSUME NEW r \in SoldReceipt
  PROVE  /\ Deltas(r) = TaxDeltas(r) \o MoneyDeltas(r) /\ Deltas(r) \in Seq(Counter)
         /\ TaxDeltas(r) \in Seq(Counter) /\ Len(TaxDeltas(r)) = 2 * Len(r.taxes)
         /\ MoneyDeltas(r) \in Seq(Counter) /\ Len(MoneyDeltas(r)) = Len(r.payments)
         /\ \A k \in 1..Len(r.taxes) :
              /\ TaxDeltas(r)[2 * k - 1] = TaxCounter(ByTaxType(r), r, r.taxes[k], r.taxes[k].salesAmountWithTax)
              /\ TaxDeltas(r)[2 * k] = TaxCounter(TaxByTaxType(r), r, r.taxes[k], r.taxes[k].taxAmount)
         /\ \A i \in 1..Len(r.payments) : MoneyDeltas(r)[i] = MoneyCounter(r, r.payments[i])
<1> DEFINE K == Len(r.taxes)
           P == Len(r.payments)
           D(n) == LET t == r.taxes[(n + 1) \div 2]
                   IN  IF n % 2 = 1 THEN TaxCounter(ByTaxType(r), r, t, t.salesAmountWithTax)
                       ELSE TaxCounter(TaxByTaxType(r), r, t, t.taxAmount)
           M(i) == MoneyCounter(r, r.payments[i])
<1>1. /\ r.taxes \in Seq(ReceiptTax) /\ r.payments \in Seq(Payment)
      /\ r.receiptType \in ReceiptTypes
  BY DEF SoldReceipt
<1>2. /\ K \in Nat /\ P \in Nat /\ DOMAIN r.payments = 1..P
      /\ \A k \in 1..K : r.taxes[k] \in ReceiptTax
      /\ \A i \in 1..P : r.payments[i] \in Payment
  BY <1>1
<1>3. ByTaxType(r) \in TaxTypes /\ TaxByTaxType(r) \in TaxTypes
  BY <1>1 DEF ByTaxType, TaxByTaxType, ReceiptTypes, TaxTypes
<1>4. TaxDeltas(r) = [n \in 1..(2 * K) |-> D(n)]
  BY DEF TaxDeltas
<1>5. MoneyDeltas(r) = [i \in 1..P |-> M(i)]
  BY <1>2 DEF MoneyDeltas
<1>6. \A n \in 1..(2 * K) : D(n) \in Counter
  <2> TAKE n \in 1..(2 * K)
  <2>1. (n + 1) \div 2 \in 1..K
    <3> HIDE DEF K
    <3> QED
      BY <1>2
  <2> DEFINE t == r.taxes[(n + 1) \div 2]
  <2>2. t \in ReceiptTax
    BY <1>2, <2>1
  <2>3. t.salesAmountWithTax \in Int /\ t.taxAmount \in Int
    BY <2>2 DEF ReceiptTax
  <2> HIDE DEF t
  <2>4. /\ TaxCounter(ByTaxType(r), r, t, t.salesAmountWithTax) \in Counter
        /\ TaxCounter(TaxByTaxType(r), r, t, t.taxAmount) \in Counter
    BY <1>3, <2>2, <2>3, TaxCountersAre
  <2> QED
    BY <2>4 DEF t
<1>7. \A i \in 1..P : M(i) \in Counter
  BY <1>2, MoneyCountersAre
<1>8. ASSUME NEW k \in 1..K
      PROVE  /\ TaxDeltas(r)[2 * k - 1] = TaxCounter(ByTaxType(r), r, r.taxes[k], r.taxes[k].salesAmountWithTax)
             /\ TaxDeltas(r)[2 * k] = TaxCounter(TaxByTaxType(r), r, r.taxes[k], r.taxes[k].taxAmount)
  <2>1. /\ 2 * k - 1 \in 1..(2 * K) /\ 2 * k \in 1..(2 * K)
        /\ (2 * k - 1) % 2 = 1 /\ (2 * k) % 2 = 0
        /\ ((2 * k - 1) + 1) \div 2 = k /\ (2 * k + 1) \div 2 = k
    <3> HIDE DEF K
    <3> QED
      BY <1>2
  <2>2. TaxDeltas(r)[2 * k - 1] = D(2 * k - 1) /\ TaxDeltas(r)[2 * k] = D(2 * k)
    <3> HIDE DEF D, K
    <3> QED
      BY <1>4, <2>1
  <2> QED
    BY <2>1, <2>2
<1>9. \A i \in 1..P : MoneyDeltas(r)[i] = M(i)
  BY <1>5
<1> HIDE DEF D, M
<1>10. TaxDeltas(r) \in [1..(2 * K) -> Counter] /\ MoneyDeltas(r) \in [1..P -> Counter]
  BY <1>4, <1>5, <1>6, <1>7
<1>11. 2 * K \in Nat
  <2> HIDE DEF K
  <2> QED
    BY <1>2
<1>12. /\ TaxDeltas(r) \in Seq(Counter) /\ Len(TaxDeltas(r)) = 2 * K
       /\ MoneyDeltas(r) \in Seq(Counter) /\ Len(MoneyDeltas(r)) = P
  BY ONLY <1>2, <1>10, <1>11, FunctionIsSeq
<1>13. Deltas(r) = TaxDeltas(r) \o MoneyDeltas(r)
  BY DEF Deltas, MoneyDeltas
<1>14. Deltas(r) \in Seq(Counter)
  BY ONLY <1>12, <1>13, ConcatProperties
<1> QED
  BY <1>8, <1>9, <1>12, <1>13, <1>14 DEF M

\* The keys of the counters of these types in a currency.
KeysOf(types, rank) == types \X {rank} \X (Int \cup {None}) \X (MoneyTypes \cup {None})

LEMMA KeyIn ==
  ASSUME NEW c \in Counter, NEW types, NEW rank
  PROVE  Key(c) \in KeysOf(types, rank) <=> c.type \in types /\ c.currency.rank = rank
<1>1. c.taxID \in Int \cup {None} /\ c.moneyType \in MoneyTypes \cup {None}
  BY DEF Counter
<1> QED
  BY <1>1 DEF Key, KeysOf

LEMMA CounterTotalIs ==
  ASSUME NEW s \in Seq(Counter), NEW types, NEW rank
  PROVE  CounterTotal(s, types, rank) = Total(s, KeysOf(types, rank))
<1> DEFINE S == {i \in DOMAIN s : s[i].type \in types /\ s[i].currency.rank = rank}
           v == [i \in DOMAIN s |-> s[i].value]
           x == [i \in DOMAIN v |-> IF i \in S THEN v[i] ELSE 0]
           w == Where(s, KeysOf(types, rank))
<1>1. \A i \in DOMAIN s : s[i] \in Counter
  OBVIOUS
<1>2. \A i \in DOMAIN s : i \in S <=> Key(s[i]) \in KeysOf(types, rank)
  BY <1>1, KeyIn
<1>3. DOMAIN v = DOMAIN s /\ \A i \in DOMAIN s : v[i] = s[i].value
  OBVIOUS
<1> HIDE DEF S, v
<1>4. w = [i \in DOMAIN s |-> IF i \in S THEN s[i].value ELSE 0]
  BY <1>2 DEF Where
<1>5. x = w
  BY <1>3, <1>4
<1>6. CounterTotal(s, types, rank) = SumOf(x)
  BY DEF CounterTotal, SumOver, S, v
<1> QED
  BY <1>5, <1>6 DEF Total

\* What a receipt adds to the sales by tax and to the balances is the same.
LEMMA SalesAreBalances ==
  ASSUME NEW r \in SoldReceipt, TaxedSales(r.taxes) = Paid(r.payments), NEW rank
  PROVE  Total(Deltas(r), KeysOf(SaleTypes, rank)) = Total(Deltas(r), KeysOf(BalanceTypes, rank))
<1> DEFINE S == KeysOf(SaleTypes, rank)
           B == KeysOf(BalanceTypes, rank)
           K == Len(r.taxes)
           P == Len(r.payments)
           x == TaxDeltas(r)
           y == MoneyDeltas(r)
           sign == IF r.currency.rank = rank THEN SignOf(r) ELSE 0
           sales == [k \in DOMAIN r.taxes |-> r.taxes[k].salesAmountWithTax]
           paid == [i \in DOMAIN r.payments |-> r.payments[i].amount]
           signed == [k \in 1..K |-> sign * sales[k]]
<1>1. /\ r.taxes \in Seq(ReceiptTax) /\ r.payments \in Seq(Payment) /\ r.receiptType \in ReceiptTypes
  BY DEF SoldReceipt
<1>2. /\ K \in Nat /\ P \in Nat /\ DOMAIN r.taxes = 1..K /\ DOMAIN r.payments = 1..P
      /\ \A k \in 1..K : r.taxes[k] \in ReceiptTax
      /\ \A i \in 1..P : r.payments[i] \in Payment
  BY <1>1
<1>3. \A k \in 1..K : r.taxes[k].salesAmountWithTax \in Int /\ r.taxes[k].taxAmount \in Int
  BY <1>2 DEF ReceiptTax
<1>4. \A i \in 1..P : r.payments[i].amount \in Int
  BY <1>2 DEF Payment
<1>5. sign \in Int /\ SignOf(r) \in Int
  BY DEF SignOf
<1>6. /\ Deltas(r) = x \o y /\ x \in Seq(Counter) /\ Len(x) = 2 * K
      /\ y \in Seq(Counter) /\ Len(y) = P
      /\ \A k \in 1..K :
           /\ x[2 * k - 1] = TaxCounter(ByTaxType(r), r, r.taxes[k], r.taxes[k].salesAmountWithTax)
           /\ x[2 * k] = TaxCounter(TaxByTaxType(r), r, r.taxes[k], r.taxes[k].taxAmount)
      /\ \A i \in 1..P : y[i] = MoneyCounter(r, r.payments[i])
  BY DeltasAre
<1>7. /\ ByTaxType(r) \in SaleTypes /\ TaxByTaxType(r) \notin SaleTypes
      /\ ByTaxType(r) \in TaxTypes /\ TaxByTaxType(r) \in TaxTypes
  BY <1>1 DEF ByTaxType, TaxByTaxType, ReceiptTypes, TaxTypes, SaleTypes
<1>8. TaxTypes \cap BalanceTypes = {} /\ "BalanceByMoneyType" \notin SaleTypes
      /\ "BalanceByMoneyType" \in BalanceTypes
  BY DEF TaxTypes, BalanceTypes, SaleTypes
<1>9. /\ sales \in Seq(Int) /\ Len(sales) = K /\ paid \in Seq(Int) /\ Len(paid) = P
      /\ \A k \in 1..K : sales[k] = r.taxes[k].salesAmountWithTax
      /\ \A i \in 1..P : paid[i] = r.payments[i].amount
  <2>1. sales \in [1..K -> Int] /\ paid \in [1..P -> Int]
    BY <1>2, <1>3, <1>4
  <2>2. /\ \A k \in 1..K : sales[k] = r.taxes[k].salesAmountWithTax
        /\ \A i \in 1..P : paid[i] = r.payments[i].amount
    BY <1>2
  <2> HIDE DEF sales, paid, K, P
  <2> QED
    BY <1>2, <2>1, <2>2, FunctionIsSeq
<1>10. TaxedSales(r.taxes) = SumOf(sales) /\ Paid(r.payments) = SumOf(paid)
  BY DEF TaxedSales, Paid
<1> HIDE DEF S, B, K, P, x, y, sales, paid, sign
<1>11. \A n \in 1..(2 * K) :
         /\ Where(x, S)[n] = IF Key(x[n]) \in S THEN x[n].value ELSE 0
         /\ Where(x, B)[n] = IF Key(x[n]) \in B THEN x[n].value ELSE 0
  <2>1. x \in Seq(Counter) /\ Len(x) = 2 * K
    BY <1>6
  <2> QED
    BY ONLY <2>1, WhereIs
<1>12. \A i \in 1..P :
         /\ Where(y, S)[i] = IF Key(y[i]) \in S THEN y[i].value ELSE 0
         /\ Where(y, B)[i] = IF Key(y[i]) \in B THEN y[i].value ELSE 0
  <2>1. y \in Seq(Counter) /\ Len(y) = P
    BY <1>6
  <2> QED
    BY ONLY <2>1, WhereIs
<1>13. ASSUME NEW k \in 1..K
       PROVE  /\ Where(x, S)[2 * k - 1] = sign * sales[k] /\ Where(x, S)[2 * k] = 0
              /\ Where(x, B)[2 * k - 1] = 0 /\ Where(x, B)[2 * k] = 0
  <2>1. 2 * k - 1 \in 1..(2 * K) /\ 2 * k \in 1..(2 * K)
    BY <1>2
  <2> DEFINE a == x[2 * k - 1]
             b == x[2 * k]
             t == r.taxes[k]
  <2>2. /\ a \in Counter /\ a.type = ByTaxType(r) /\ a.currency = r.currency
        /\ a.value = SignOf(r) * sales[k]
    <3>1. /\ t \in ReceiptTax /\ t.salesAmountWithTax \in Int /\ sales[k] = t.salesAmountWithTax
          /\ ByTaxType(r) \in TaxTypes
          /\ a = TaxCounter(ByTaxType(r), r, t, t.salesAmountWithTax)
      BY <1>2, <1>3, <1>6, <1>7, <1>9
    <3> HIDE DEF a, t
    <3> QED
      BY ONLY <3>1, TaxCountersAre, r \in SoldReceipt
  <2>3. b \in Counter /\ b.type = TaxByTaxType(r)
    <3>1. /\ t \in ReceiptTax /\ t.taxAmount \in Int /\ TaxByTaxType(r) \in TaxTypes
          /\ b = TaxCounter(TaxByTaxType(r), r, t, t.taxAmount)
      BY <1>2, <1>3, <1>6, <1>7
    <3> HIDE DEF b, t
    <3> QED
      BY ONLY <3>1, TaxCountersAre, r \in SoldReceipt
  <2>4. /\ Where(x, S)[2 * k - 1] = IF Key(a) \in S THEN a.value ELSE 0
        /\ Where(x, S)[2 * k] = IF Key(b) \in S THEN b.value ELSE 0
        /\ Where(x, B)[2 * k - 1] = IF Key(a) \in B THEN a.value ELSE 0
        /\ Where(x, B)[2 * k] = IF Key(b) \in B THEN b.value ELSE 0
    BY <1>11, <2>1
  <2> HIDE DEF a, b
  <2>5. Key(a) \in S <=> r.currency.rank = rank
    BY <1>7, <2>2, KeyIn DEF S
  <2>6. Key(b) \notin S /\ Key(a) \notin B /\ Key(b) \notin B
    BY <1>7, <1>8, <2>2, <2>3, KeyIn DEF S, B
  <2>7. sign * sales[k] = IF r.currency.rank = rank THEN SignOf(r) * sales[k] ELSE 0
    <3>1. sales[k] \in Int
      BY <1>3, <1>9
    <3> QED
      BY <1>5, <3>1 DEF sign
  <2> QED
    BY <2>2, <2>4, <2>5, <2>6, <2>7
<1>14. ASSUME NEW i \in 1..P
       PROVE  Where(y, S)[i] = 0 /\ Where(y, B)[i] = sign * paid[i]
  <2> DEFINE a == y[i]
             p == r.payments[i]
  <2>1. /\ a \in Counter /\ a.type = "BalanceByMoneyType" /\ a.currency = r.currency
        /\ a.value = SignOf(r) * paid[i]
    <3>1. /\ p \in Payment /\ paid[i] = p.amount /\ a = MoneyCounter(r, p)
      BY <1>2, <1>6, <1>9
    <3> HIDE DEF a, p
    <3> QED
      BY ONLY <3>1, MoneyCountersAre, r \in SoldReceipt
  <2>2. /\ Where(y, S)[i] = IF Key(a) \in S THEN a.value ELSE 0
        /\ Where(y, B)[i] = IF Key(a) \in B THEN a.value ELSE 0
    BY <1>12
  <2> HIDE DEF a
  <2>3. Key(a) \notin S /\ (Key(a) \in B <=> r.currency.rank = rank)
    BY <1>8, <2>1, KeyIn DEF S, B
  <2>4. sign * paid[i] = IF r.currency.rank = rank THEN SignOf(r) * paid[i] ELSE 0
    <3>1. paid[i] \in Int
      BY <1>4, <1>9
    <3> QED
      BY <1>5, <3>1 DEF sign
  <2> QED
    BY <2>1, <2>2, <2>3, <2>4
<1>15. /\ Where(x, S) \in Seq(Int) /\ Len(Where(x, S)) = 2 * K
       /\ Where(x, B) \in Seq(Int) /\ Len(Where(x, B)) = 2 * K
       /\ Where(y, S) \in Seq(Int) /\ Len(Where(y, S)) = P
       /\ Where(y, B) \in Seq(Int) /\ Len(Where(y, B)) = P
  BY <1>6, WhereIs
<1>16. Total(x, S) = sign * SumOf(sales)
  <2>1. \A k \in 1..K : signed[k] = sign * sales[k]
    OBVIOUS
  <2>2. signed \in [1..K -> Int]
    BY <1>3, <1>5, <1>9
  <2> HIDE DEF signed
  <2>3. signed \in Seq(Int) /\ Len(signed) = K
    BY <1>2, <2>2, FunctionIsSeq
  <2>4. SumOf(signed) = sign * SumOf(sales)
    <3>1. Len(signed) = Len(sales) /\ \A k \in 1..Len(sales) : signed[k] = sign * sales[k]
      BY <1>9, <2>1, <2>3
    <3> QED
      BY ONLY <1>5, <1>9, <2>3, <3>1, SumScale
  <2>5. \A k \in 1..Len(signed) : Where(x, S)[2 * k - 1] = signed[k] /\ Where(x, S)[2 * k] = 0
    BY <1>13, <2>1, <2>3
  <2>6. Len(Where(x, S)) = 2 * Len(signed)
    BY <1>15, <2>3
  <2>7. SumOf(Where(x, S)) = SumOf(signed)
    BY ONLY <1>15, <2>3, <2>5, <2>6, SumOdd
  <2> QED
    BY <2>4, <2>7 DEF Total
<1>17. Total(x, B) = 0
  <2>1. ASSUME NEW n \in 1..(2 * K)
        PROVE  Where(x, B)[n] = 0
    <3>1. (n + 1) \div 2 \in 1..K
      BY <1>2
    <3>2. n = 2 * ((n + 1) \div 2) \/ n = 2 * ((n + 1) \div 2) - 1
      BY <1>2
    <3> QED
      BY <1>13, <3>1, <3>2
  <2> QED
    BY <1>15, <2>1, SumZero DEF Total
<1>18. Total(y, S) = 0
  BY <1>14, <1>15, SumZero DEF Total
<1>19. Total(y, B) = sign * SumOf(paid)
  <2>1. Len(Where(y, B)) = Len(paid) /\ \A i \in 1..Len(paid) : Where(y, B)[i] = sign * paid[i]
    BY <1>9, <1>14, <1>15
  <2>2. SumOf(Where(y, B)) = sign * SumOf(paid)
    BY ONLY <1>5, <1>9, <1>15, <2>1, SumScale
  <2> QED
    BY <2>2 DEF Total
<1>20. /\ Total(Deltas(r), S) = Total(x, S) + Total(y, S)
       /\ Total(Deltas(r), B) = Total(x, B) + Total(y, B)
  BY <1>6, TotalConcat
<1>21. sign * SumOf(sales) \in Int /\ SumOf(sales) = SumOf(paid)
  <2>1. SumOf(sales) \in Int
    BY <1>9, PartialSumsAre
  <2>2. SumOf(sales) = SumOf(paid)
    BY <1>10
  <2> QED
    BY ONLY <1>5, <2>1, <2>2
<1> QED
  BY <1>16, <1>17, <1>18, <1>19, <1>20, <1>21 DEF S, B

-----------------------------------------------------------------------------
(* Merging.  What the device counts under either version, put in capitals  *)
(* and counted again, is what FDMS counts.                                 *)

Capital(c) == [c EXCEPT !.currency = Upper(c.currency)]

\* p is the first counter of that key, or 0.
IsPlace(s, key, p) ==
  \/ p = 0 /\ \A i \in 1..Len(s) : Key(s[i]) # key
  \/ p \in 1..Len(s) /\ Key(s[p]) = key /\ \A i \in 1..(p - 1) : Key(s[i]) # key

\* u is s with c counted at place p.
Puts(s, c, p, u) ==
  /\ u \in Seq(Counter)
  /\ Len(u) = Len(s) + IF p = 0 THEN 1 ELSE 0
  /\ p = 0 => u[Len(s) + 1] = c
  /\ p # 0 => u[p] = Added(s[p], c.value)
  /\ \A i \in 1..Len(s) : i # p => u[i] = s[i]

Has(s, key) == \E i \in 1..Len(s) : Key(s[i]) = key

LEMMA CapitalIs ==
  ASSUME NEW c \in Counter
  PROVE  /\ Capital(c) \in Counter /\ Key(Capital(c)) = Key(c) /\ Capital(c).value = c.value
         /\ Capital(c).currency = Upper(c.currency)
         /\ \A v \in Int : Capital(Added(c, v)) = Added(Capital(c), v)
<1> DEFINE m == Upper(c.currency)
           d == [c EXCEPT !.currency = m]
<1>1. m \in Currency /\ m.rank = c.currency.rank
  BY CounterIs DEF Upper, Currency
<1>2. Capital(c) = d
  BY DEF Capital
<1>3. DOMAIN c = {"type", "currency", "taxID", "taxPercent", "moneyType", "value"}
  BY CounterIs
<1> HIDE DEF m
<1>4. d \in Counter
  BY <1>1 DEF Counter
<1>5. /\ d.type = c.type /\ d.currency = m /\ d.taxID = c.taxID /\ d.moneyType = c.moneyType
      /\ d.value = c.value
  BY <1>3
<1>6. Key(d) = Key(c)
  BY <1>1, <1>5 DEF Key
<1>7. ASSUME NEW v \in Int
      PROVE  Capital(Added(c, v)) = Added(d, v)
  <2> DEFINE x == c.value + v
             a == [c EXCEPT !.value = x]
  <2>1. Added(c, v) = a /\ Added(d, v) = [d EXCEPT !.value = x]
    BY <1>5 DEF Added
  <2> HIDE DEF x
  <2>2. a.currency = c.currency
    BY <1>3
  <2>3. Capital(a) = [a EXCEPT !.currency = m]
    BY <2>2 DEF Capital, m
  <2>4. [a EXCEPT !.currency = m] = [d EXCEPT !.value = x]
    BY <1>3
  <2> QED
    BY <2>1, <2>3, <2>4
<1> QED
  BY <1>2, <1>4, <1>5, <1>6, <1>7 DEF m

LEMMA AddedTwice ==
  ASSUME NEW c \in Counter, NEW v \in Int, NEW w \in Int
  PROVE  Added(Added(c, v), w) = Added(c, v + w)
<1>1. DOMAIN c = {"type", "currency", "taxID", "taxPercent", "moneyType", "value"} /\ c.value \in Int
  BY CounterIs
<1> DEFINE x == c.value + v
           a == [c EXCEPT !.value = x]
           y == x + w
<1>2. Added(c, v) = a /\ a.value = x
  BY <1>1 DEF Added
<1>3. Added(a, w) = [a EXCEPT !.value = y]
  BY <1>2 DEF Added
<1>4. Added(c, v + w) = [c EXCEPT !.value = y]
  <2>1. c.value + (v + w) = y
    BY <1>1
  <2> QED
    BY <2>1 DEF Added
<1> HIDE DEF x, y
<1>5. [a EXCEPT !.value = y] = [c EXCEPT !.value = y]
  BY <1>1
<1> QED
  BY <1>2, <1>3, <1>4, <1>5

LEMMA PlaceIsOne ==
  ASSUME NEW s \in Seq(Counter), NEW key, NEW p, NEW q, IsPlace(s, key, p), IsPlace(s, key, q)
  PROVE  p = q /\ p \in 0..Len(s) /\ (p # 0 <=> Has(s, key))
<1>1. Len(s) \in Nat
  OBVIOUS
<1>2. p \in 0..Len(s) /\ q \in 0..Len(s)
  BY <1>1 DEF IsPlace
<1>3. CASE p = 0
  BY <1>1, <1>3 DEF IsPlace, Has
<1>4. CASE p # 0
  <2>1. p \in 1..Len(s) /\ Key(s[p]) = key /\ \A i \in 1..(p - 1) : Key(s[i]) # key
    BY <1>4 DEF IsPlace
  <2>2. q \in 1..Len(s) /\ Key(s[q]) = key /\ \A i \in 1..(q - 1) : Key(s[i]) # key
    BY <2>1 DEF IsPlace
  <2>3. ~(p < q) /\ ~(q < p)
    BY <1>1, <2>1, <2>2
  <2> QED
    BY <1>1, <1>2, <1>4, <2>1, <2>2, <2>3 DEF Has
<1> QED
  BY <1>3, <1>4

LEMMA UpsertPuts ==
  ASSUME NEW s \in Seq(Counter), NEW c \in Counter
  PROVE  \E p \in 0..Len(s) : IsPlace(s, Key(c), p) /\ Puts(s, c, p, Upsert(s, c, FALSE))
<1> DEFINE u == Upsert(s, c, FALSE)
<1>1. PICK p \in 0..Len(s) : UpsertsAt(s, c, FALSE, p, u)
  BY UpsertIs
<1>2. Len(s) \in Nat /\ \A i \in 1..Len(s) : s[i] \in Counter
  OBVIOUS
<1>3. \A i \in 1..Len(s) : Matches(s[i], c, FALSE) <=> Key(s[i]) = Key(c)
  BY <1>2, SameKey DEF Matches
<1> HIDE DEF u
<1>4. CASE p = 0
  <2>1. /\ u \in Seq(Counter) /\ Len(u) = Len(s) + 1 /\ u[Len(s) + 1] = c
        /\ \A i \in 1..Len(s) : u[i] = s[i] /\ ~Matches(s[i], c, FALSE)
    BY <1>1, <1>4 DEF UpsertsAt
  <2>2. IsPlace(s, Key(c), p)
    BY <1>3, <1>4, <2>1 DEF IsPlace
  <2>3. Puts(s, c, p, u)
    BY <1>4, <2>1 DEF Puts
  <2> QED
    BY <2>2, <2>3 DEF u
<1>5. CASE p # 0
  <2>1. p \in 1..Len(s) /\ \A i \in 1..(p - 1) : i \in 1..Len(s)
    BY <1>2, <1>5
  <2>2. IsPlace(s, Key(c), p)
    BY <1>1, <1>3, <1>5, <2>1 DEF UpsertsAt, IsPlace
  <2>3. Puts(s, c, p, u)
    BY <1>1, <1>2, <1>5 DEF UpsertsAt, Puts
  <2> QED
    BY <2>2, <2>3 DEF u
<1> QED
  BY <1>4, <1>5

\* Counting keeps the keys and adds one where it was missing.
LEMMA PutsKeys ==
  ASSUME NEW s \in Seq(Counter), NEW c \in Counter, NEW p, NEW u,
         IsPlace(s, Key(c), p), Puts(s, c, p, u)
  PROVE  /\ \A i \in 1..Len(s) : i \in 1..Len(u) /\ Key(u[i]) = Key(s[i])
         /\ Has(u, Key(c)) /\ \A key : Has(s, key) => Has(u, key)
         /\ \A key, q : IsPlace(s, key, q) /\ q # 0 => IsPlace(u, key, q)
         /\ \A key : IsPlace(s, key, 0) /\ key # Key(c) => IsPlace(u, key, 0)
<1>1. Len(s) \in Nat /\ \A i \in 1..Len(s) : s[i] \in Counter
  OBVIOUS
<1>2. p \in 0..Len(s)
  BY <1>1, PlaceIsOne
<1>3. u \in Seq(Counter) /\ Len(u) \in Nat /\ Len(u) >= Len(s)
  BY <1>1 DEF Puts
<1>4. ASSUME NEW i \in 1..Len(s)
      PROVE  i \in 1..Len(u) /\ Key(u[i]) = Key(s[i])
  <2>1. i \in 1..Len(u)
    BY <1>1, <1>3
  <2>2. CASE i = p
    <3>1. p # 0 /\ u[p] = Added(s[p], c.value) /\ s[p] \in Counter
      BY <1>1, <2>2 DEF Puts
    <3> QED
      <4>1. Key(Added(s[p], c.value)) = Key(s[p])
        BY <3>1, AddedIs, CounterIs
      <4> QED
        BY ONLY <2>1, <2>2, <3>1, <4>1
  <2>3. CASE i # p
    BY <2>1, <2>3 DEF Puts
  <2> QED
    BY <2>2, <2>3
<1>5. Has(u, Key(c))
  <2>1. CASE p = 0
    <3>1. Len(u) = Len(s) + 1 /\ u[Len(s) + 1] = c /\ Len(s) + 1 \in 1..Len(u)
      BY <1>1, <2>1 DEF Puts
    <3> QED
      BY <3>1 DEF Has
  <2>2. CASE p # 0
    <3>1. p \in 1..Len(s) /\ Key(s[p]) = Key(c)
      BY <2>2 DEF IsPlace
    <3> QED
      BY <1>4, <3>1 DEF Has
  <2> QED
    BY <2>1, <2>2
<1>6. \A key : Has(s, key) => Has(u, key)
  BY <1>4 DEF Has
<1>7. ASSUME NEW key, NEW q, IsPlace(s, key, q), q # 0
      PROVE  IsPlace(u, key, q)
  <2>1. q \in 1..Len(s) /\ Key(s[q]) = key /\ \A i \in 1..(q - 1) : Key(s[i]) # key
    BY <1>7 DEF IsPlace
  <2>2. \A i \in 1..(q - 1) : i \in 1..Len(s)
    BY <1>1, <2>1
  <2> QED
    BY <1>4, <2>1, <2>2 DEF IsPlace
<1>8. ASSUME NEW key, IsPlace(s, key, 0), key # Key(c)
      PROVE  IsPlace(u, key, 0)
  <2>1. \A i \in 1..Len(s) : Key(s[i]) # key
    BY <1>8 DEF IsPlace
  <2>2. ASSUME NEW i \in 1..Len(u)
        PROVE  Key(u[i]) # key
    <3>1. CASE i \in 1..Len(s)
      BY <1>4, <2>1, <3>1
    <3>2. CASE i \notin 1..Len(s)
      <4>1. p = 0 /\ i = Len(s) + 1 /\ u[Len(s) + 1] = c
        BY <1>1, <1>2, <3>2 DEF Puts
      <4> QED
        BY <1>8, <4>1
    <3> QED
      BY <3>1, <3>2
  <2> QED
    BY <2>2 DEF IsPlace
<1> QED
  BY <1>4, <1>5, <1>6, <1>7, <1>8

LEMMA HasPlace ==
  ASSUME NEW s \in Seq(Counter), NEW c \in Counter
  PROVE  \E p \in 0..Len(s) : IsPlace(s, Key(c), p) /\ (p # 0 <=> Has(s, Key(c)))
<1>1. PICK p \in 0..Len(s) : IsPlace(s, Key(c), p)
  BY UpsertPuts
<1>2. p # 0 <=> Has(s, Key(c))
  BY <1>1, PlaceIsOne
<1> QED
  BY <1>1, <1>2

\* Two of one key count like their sum.
LEMMA UpsertTwice ==
  ASSUME NEW s \in Seq(Counter), NEW a \in Counter, NEW b \in Counter, Key(a) = Key(b)
  PROVE  Upsert(Upsert(s, a, FALSE), b, FALSE) = Upsert(s, Added(a, b.value), FALSE)
<1> DEFINE u == Upsert(s, a, FALSE)
           w == Upsert(u, b, FALSE)
           d == Added(a, b.value)
           z == Upsert(s, d, FALSE)
<1>1. Len(s) \in Nat /\ a.value \in Int /\ b.value \in Int /\ \A i \in 1..Len(s) : s[i] \in Counter
  BY CounterIs
<1>2. d \in Counter /\ Key(d) = Key(a) /\ d.value = a.value + b.value
  BY <1>1, AddedIs
<1>3. PICK p \in 0..Len(s) : IsPlace(s, Key(a), p) /\ Puts(s, a, p, u)
  BY UpsertPuts
<1>4. u \in Seq(Counter)
  BY <1>3 DEF Puts
<1> HIDE DEF u, d
<1>5. PICK q \in 0..Len(u) : IsPlace(u, Key(a), q) /\ Puts(u, b, q, w)
  BY <1>4, UpsertPuts
<1>6. PICK r \in 0..Len(s) : IsPlace(s, Key(a), r) /\ Puts(s, d, r, z)
  BY <1>2, UpsertPuts
<1>7. r = p
  BY <1>3, <1>6, PlaceIsOne
<1> HIDE DEF w, z
<1>8. w \in Seq(Counter) /\ z \in Seq(Counter)
  BY <1>5, <1>6 DEF Puts
<1>9. \A i \in 1..Len(s) : i \in 1..Len(u) /\ Key(u[i]) = Key(s[i])
  BY <1>3, PutsKeys
<1>10. CASE p = 0
  <2>1. /\ Len(u) = Len(s) + 1 /\ u[Len(s) + 1] = a /\ \A i \in 1..Len(s) : u[i] = s[i]
    BY <1>1, <1>3, <1>10 DEF Puts
  <2>2. \A i \in 1..Len(s) : Key(u[i]) # Key(a)
    BY <1>3, <1>9, <1>10, <1>1 DEF IsPlace
  <2>3. IsPlace(u, Key(a), Len(s) + 1)
    <3>1. Len(s) + 1 \in 1..Len(u) /\ \A i \in 1..((Len(s) + 1) - 1) : i \in 1..Len(s)
      BY <1>1, <2>1
    <3> QED
      BY <2>1, <2>2, <3>1 DEF IsPlace
  <2>4. q = Len(s) + 1 /\ q # 0
    BY <1>1, <1>4, <1>5, <2>3, PlaceIsOne
  <2>5. /\ Len(w) = Len(s) + 1 /\ w[Len(s) + 1] = d /\ \A i \in 1..Len(s) : w[i] = s[i]
    <3>1. /\ Len(w) = Len(u) + 0 /\ w[q] = Added(u[q], b.value)
          /\ \A i \in 1..Len(u) : i # q => w[i] = u[i]
      BY <1>5, <2>4 DEF Puts
    <3>2. \A i \in 1..Len(s) : i \in 1..Len(u) /\ i # Len(s) + 1
      BY <1>1, <2>1
    <3> QED
      BY <1>1, <2>1, <2>4, <3>1, <3>2 DEF d
  <2>6. /\ Len(z) = Len(s) + 1 /\ z[Len(s) + 1] = d /\ \A i \in 1..Len(s) : z[i] = s[i]
    BY <1>1, <1>6, <1>7, <1>10 DEF Puts
  <2>7. \A i \in 1..Len(w) : w[i] = z[i]
    <3> TAKE i \in 1..Len(w)
    <3>1. i \in 1..Len(s) \/ i = Len(s) + 1
      BY <1>1, <2>5
    <3> QED
      BY <2>5, <2>6, <3>1
  <2>8. w = z
    BY ONLY <1>8, <2>5, <2>6, <2>7, SeqEqual
  <2> QED
    BY <2>8 DEF w, z, u, d
<1>11. CASE p # 0
  <2>1. p \in 1..Len(s) /\ s[p] \in Counter
    BY <1>1, <1>3, <1>11
  <2>2. Len(u) = Len(s) /\ u[p] = Added(s[p], a.value) /\ \A i \in 1..Len(s) : i # p => u[i] = s[i]
    BY <1>1, <1>3, <1>11 DEF Puts
  <2>3. IsPlace(u, Key(a), p)
    BY <1>3, <1>11, PutsKeys
  <2>4. q = p
    BY <1>4, <1>5, <2>3, PlaceIsOne
  <2>5. Len(w) = Len(s) /\ w[p] = Added(u[p], b.value) /\ \A i \in 1..Len(s) : i # p => w[i] = s[i]
    <3>1. /\ Len(w) = Len(u) + 0 /\ w[p] = Added(u[p], b.value)
          /\ \A i \in 1..Len(u) : i # p => w[i] = u[i]
      BY ONLY <1>5, <1>11, <2>4 DEF Puts
    <3> QED
      BY ONLY <1>1, <2>2, <3>1
  <2>6. Len(z) = Len(s) /\ z[p] = Added(s[p], d.value) /\ \A i \in 1..Len(s) : i # p => z[i] = s[i]
    BY ONLY <1>1, <1>6, <1>7, <1>11 DEF Puts
  <2>7. w[p] = z[p]
    <3>1. Added(Added(s[p], a.value), b.value) = Added(s[p], a.value + b.value)
      BY ONLY <1>1, <2>1, AddedTwice
    <3> QED
      BY ONLY <1>2, <2>2, <2>5, <2>6, <3>1
  <2>8. \A i \in 1..Len(w) : w[i] = z[i]
    BY <2>5, <2>6, <2>7
  <2>9. w = z
    BY ONLY <1>8, <2>5, <2>6, <2>8, SeqEqual
  <2> QED
    BY <2>9 DEF w, z, u, d
<1> QED
  BY <1>10, <1>11

\* Where there is a counter to add c to, it may as well be added later.
LEMMA UpsertCommutes ==
  ASSUME NEW s \in Seq(Counter), NEW c \in Counter, NEW d \in Counter, Has(s, Key(c))
  PROVE  Upsert(Upsert(s, c, FALSE), d, FALSE) = Upsert(Upsert(s, d, FALSE), c, FALSE)
<1> DEFINE u == Upsert(s, c, FALSE)
           v == Upsert(s, d, FALSE)
           w == Upsert(u, d, FALSE)
           z == Upsert(v, c, FALSE)
           n == Len(s)
<1>1. n \in Nat /\ c.value \in Int /\ d.value \in Int /\ \A i \in 1..n : s[i] \in Counter
  BY CounterIs
<1>2. PICK p \in 0..n : IsPlace(s, Key(c), p) /\ Puts(s, c, p, u)
  BY UpsertPuts
<1>3. PICK q \in 0..n : IsPlace(s, Key(d), q) /\ Puts(s, d, q, v)
  BY UpsertPuts
<1>4. u \in Seq(Counter) /\ v \in Seq(Counter)
  BY <1>2, <1>3 DEF Puts
<1>5. p # 0 /\ p \in 1..n
  <2>1. p # 0
    BY <1>2, PlaceIsOne
  <2> HIDE DEF n
  <2> QED
    BY <1>1, <2>1
<1> HIDE DEF u, v
<1>6. Puts(u, d, q, w)
  <2>1. PICK r \in 0..Len(u) : IsPlace(u, Key(d), r) /\ Puts(u, d, r, w)
    BY <1>4, UpsertPuts
  <2>2. IsPlace(u, Key(d), q)
    <3>1. CASE q # 0
      BY <1>2, <1>3, <3>1, PutsKeys
    <3>2. CASE q = 0
      <4>1. Key(d) # Key(c)
        <5>1. ~Has(s, Key(d))
          BY <1>3, <3>2, PlaceIsOne
        <5> QED
          BY <5>1
      <4> QED
        BY <1>2, <1>3, <3>2, <4>1, PutsKeys
    <3> QED
      BY <3>1, <3>2
  <2>3. r = q
    BY <1>4, <2>1, <2>2, PlaceIsOne
  <2> QED
    BY <2>1, <2>3
<1>7. Puts(v, c, p, z)
  <2>1. PICK r \in 0..Len(v) : IsPlace(v, Key(c), r) /\ Puts(v, c, r, z)
    BY <1>4, UpsertPuts
  <2>2. IsPlace(v, Key(c), p)
    BY <1>2, <1>3, <1>5, PutsKeys
  <2>3. r = p
    BY <1>4, <2>1, <2>2, PlaceIsOne
  <2> QED
    BY <2>1, <2>3
<1> HIDE DEF w, z
<1>8. /\ Len(u) = n /\ u[p] = Added(s[p], c.value) /\ \A i \in 1..n : i # p => u[i] = s[i]
  BY <1>1, <1>2, <1>5 DEF Puts
<1>9. w \in Seq(Counter) /\ z \in Seq(Counter)
  BY <1>6, <1>7 DEF Puts
<1>10. CASE q = 0
  <2>1. Len(v) = n + 1 /\ v[n + 1] = d /\ \A i \in 1..n : v[i] = s[i]
    BY <1>1, <1>3, <1>10 DEF Puts
  <2>2. Len(w) = n + 1 /\ w[n + 1] = d /\ \A i \in 1..n : w[i] = u[i]
    BY <1>1, <1>6, <1>8, <1>10 DEF Puts
  <2>3. Len(z) = n + 1 /\ z[p] = Added(v[p], c.value) /\ \A i \in 1..(n + 1) : i # p => z[i] = v[i]
    BY <1>1, <1>5, <1>7, <2>1 DEF Puts
  <2> HIDE DEF n
  <2>4. \A i \in 1..Len(w) : w[i] = z[i]
    <3> TAKE i \in 1..Len(w)
    <3>1. CASE i = p
      <4>1. w[p] = u[p] /\ v[p] = s[p]
        BY <1>5, <2>1, <2>2
      <4> QED
        BY <1>8, <2>3, <3>1, <4>1
    <3>2. CASE i = n + 1
      <4>1. n + 1 # p /\ n + 1 \in 1..(n + 1)
        BY <1>1, <1>5
      <4> QED
        BY <2>1, <2>2, <2>3, <3>2, <4>1
    <3>3. CASE i # p /\ i # n + 1
      <4>1. i \in 1..n /\ i \in 1..(n + 1)
        BY <1>1, <2>2, <3>3
      <4> QED
        BY <1>8, <2>1, <2>2, <2>3, <3>3, <4>1
    <3> QED
      BY <3>1, <3>2, <3>3
  <2>5. w = z
    BY ONLY <1>9, <2>2, <2>3, <2>4, SeqEqual
  <2> QED
    BY <2>5 DEF w, z, u, v
<1>11. CASE q # 0
  <2>0. q \in 1..n
    <3> HIDE DEF n
    <3> QED
      BY <1>1, <1>11
  <2>1. Len(v) = n /\ v[q] = Added(s[q], d.value) /\ \A i \in 1..n : i # q => v[i] = s[i]
    BY <1>1, <1>3, <1>11 DEF Puts
  <2>2. Len(w) = n /\ w[q] = Added(u[q], d.value) /\ \A i \in 1..n : i # q => w[i] = u[i]
    BY <1>1, <1>6, <1>8, <1>11 DEF Puts
  <2>3. Len(z) = n /\ z[p] = Added(v[p], c.value) /\ \A i \in 1..n : i # p => z[i] = v[i]
    BY <1>1, <1>5, <1>7, <2>1 DEF Puts
  <2> HIDE DEF n
  <2>4. \A i \in 1..Len(w) : w[i] = z[i]
    <3> TAKE i \in 1..Len(w)
    <3>0. i \in 1..n /\ s[i] \in Counter
      BY <1>1, <2>2
    <3>1. CASE i = p /\ i = q
      <4>1. w[i] = Added(Added(s[i], c.value), d.value) /\ z[i] = Added(Added(s[i], d.value), c.value)
        BY <1>8, <2>1, <2>2, <2>3, <3>1
      <4>2. c.value + d.value = d.value + c.value
        BY <1>1
      <4>3. /\ Added(Added(s[i], c.value), d.value) = Added(s[i], c.value + d.value)
            /\ Added(Added(s[i], d.value), c.value) = Added(s[i], d.value + c.value)
        BY ONLY <1>1, <3>0, AddedTwice
      <4> QED
        BY ONLY <4>1, <4>2, <4>3
    <3>2. CASE i = p /\ i # q
      <4>1. w[i] = u[i] /\ u[i] = Added(s[i], c.value)
        BY ONLY <1>8, <2>2, <3>0, <3>2
      <4>2. z[i] = Added(v[i], c.value) /\ v[i] = s[i]
        BY ONLY <2>1, <2>3, <3>0, <3>2
      <4> QED
        BY ONLY <4>1, <4>2
    <3>3. CASE i # p /\ i = q
      <4>1. w[i] = Added(u[i], d.value) /\ u[i] = s[i]
        BY ONLY <1>8, <2>2, <3>0, <3>3
      <4>2. z[i] = v[i] /\ v[i] = Added(s[i], d.value)
        BY ONLY <2>1, <2>3, <3>0, <3>3
      <4> QED
        BY ONLY <4>1, <4>2
    <3>4. CASE i # p /\ i # q
      BY <1>8, <2>1, <2>2, <2>3, <3>0, <3>4
    <3> QED
      BY <3>1, <3>2, <3>3, <3>4
  <2>5. w = z
    BY ONLY <1>9, <2>2, <2>3, <2>4, SeqEqual
  <2> QED
    BY <2>5 DEF w, z, u, v
<1> QED
  BY <1>10, <1>11

LEMMA UpsertHas ==
  ASSUME NEW s \in Seq(Counter), NEW c \in Counter
  PROVE  /\ Has(Upsert(s, c, FALSE), Key(c))
         /\ \A key : Has(s, key) => Has(Upsert(s, c, FALSE), key)
<1>1. PICK p \in 0..Len(s) : IsPlace(s, Key(c), p) /\ Puts(s, c, p, Upsert(s, c, FALSE))
  BY UpsertPuts
<1> QED
  BY <1>1, PutsKeys

LEMMA InCapitalsIs ==
  ASSUME NEW s \in Seq(Counter)
  PROVE  /\ InCapitals(s) \in Seq(Counter) /\ Len(InCapitals(s)) = Len(s)
         /\ \A i \in 1..Len(s) : InCapitals(s)[i] = Capital(s[i])
<1>1. Len(s) \in Nat /\ DOMAIN s = 1..Len(s) /\ \A i \in 1..Len(s) : s[i] \in Counter
  OBVIOUS
<1>2. InCapitals(s) = [i \in 1..Len(s) |-> Capital(s[i])]
  BY <1>1 DEF InCapitals, Capital
<1>3. InCapitals(s) \in [1..Len(s) -> Counter]
  BY <1>1, <1>2, CapitalIs
<1>4. InCapitals(s) \in Seq(Counter) /\ Len(InCapitals(s)) = Len(s)
  BY ONLY <1>1, <1>3, FunctionIsSeq
<1> QED
  BY <1>2, <1>4

\* What is counted last is upserted last.
LEMMA AccumulateEnds ==
  ASSUME NEW s \in Seq(Counter), NEW ds \in Seq(Counter), NEW es \in Seq(Counter),
         NEW asTyped \in BOOLEAN,
         Len(es) = Len(ds) + 1, \A i \in 1..Len(ds) : es[i] = ds[i]
  PROVE  Accumulate(s, es, asTyped)
           = Upsert(Accumulate(s, ds, asTyped), es[Len(ds) + 1], asTyped)
<1>1. PICK g : Runs(s, ds, asTyped, g)
  BY RunExists
<1>2. PICK h : Runs(s, es, asTyped, h)
  BY RunExists
<1>3. Accumulate(s, ds, asTyped) = g[Len(ds)]
  BY <1>1, AccumulateIs
<1>4. Accumulate(s, es, asTyped) = h[Len(es)]
  BY <1>2, AccumulateIs
<1>5. PICK n \in Nat : n = Len(ds)
  OBVIOUS
<1>6. g[0] = s /\ \A i \in 1..n : g[i] = Upsert(g[i - 1], ds[i], asTyped)
  BY <1>1, <1>5 DEF Runs
<1>7. h[0] = s /\ \A i \in 1..(n + 1) : h[i] = Upsert(h[i - 1], es[i], asTyped)
  BY <1>2, <1>5 DEF Runs
<1>8. \A i \in 1..n : es[i] = ds[i]
  BY <1>5
<1> DEFINE T == {k \in Nat : k <= n => h[k] = g[k]}
<1>9. 0 \in T
  BY <1>6, <1>7
<1>10. ASSUME NEW k \in Nat, k \in T
       PROVE  k + 1 \in T
  <2>1. SUFFICES ASSUME k + 1 <= n
                 PROVE  h[k + 1] = g[k + 1]
    BY <1>10
  <2>2. h[k] = g[k] /\ k + 1 \in 1..n /\ k + 1 \in 1..(n + 1) /\ (k + 1) - 1 = k
    BY <1>5, <1>10, <2>1
  <2>3. g[k + 1] = Upsert(g[k], ds[k + 1], asTyped)
    BY ONLY <1>6, <2>2
  <2>4. h[k + 1] = Upsert(h[k], es[k + 1], asTyped)
    BY ONLY <1>7, <2>2
  <2>5. es[k + 1] = ds[k + 1]
    BY ONLY <1>8, <2>2
  <2> QED
    BY ONLY <2>2, <2>3, <2>4, <2>5
<1>11. h[n] = g[n]
  <2> HIDE DEF T
  <2>1. n \in T
    BY <1>5, <1>9, <1>10, Induction
  <2> QED
    BY <1>5, <2>1 DEF T
<1>12. n + 1 \in 1..(n + 1) /\ (n + 1) - 1 = n
  BY <1>5
<1>13. h[n + 1] = Upsert(h[n], es[n + 1], asTyped)
  BY ONLY <1>7, <1>12
<1> QED
  BY <1>3, <1>4, <1>5, <1>11, <1>13

\* A greater value of one of them comes to the same as counting it at the end.
LEMMA AccumulateRaises ==
  ASSUME NEW s \in Seq(Counter), NEW ds \in Seq(Counter), NEW es \in Seq(Counter),
         NEW c \in Counter, NEW at \in 1..Len(ds),
         Len(es) = Len(ds), es[at] = Added(ds[at], c.value), Key(ds[at]) = Key(c),
         \A i \in 1..Len(ds) : i # at => es[i] = ds[i]
  PROVE  Accumulate(s, es, FALSE) = Upsert(Accumulate(s, ds, FALSE), c, FALSE)
<1>0. FALSE \in BOOLEAN
  OBVIOUS
<1>1. PICK g : Runs(s, ds, FALSE, g)
  BY <1>0, RunExists
<1>2. PICK h : Runs(s, es, FALSE, h)
  BY <1>0, RunExists
<1>3. Accumulate(s, ds, FALSE) = g[Len(ds)]
  BY <1>0, <1>1, AccumulateIs
<1>4. Accumulate(s, es, FALSE) = h[Len(es)]
  BY <1>0, <1>2, AccumulateIs
<1>5. PICK n \in Nat : n = Len(ds)
  OBVIOUS
<1>6. /\ g[0] = s /\ \A i \in 0..n : g[i] \in Seq(Counter)
      /\ \A i \in 1..n : g[i] = Upsert(g[i - 1], ds[i], FALSE) /\ ds[i] \in Counter
  <2>1. \A i \in 1..n : ds[i] \in Counter
    BY <1>5
  <2>2. /\ g \in [0..n -> Seq(Counter)] /\ g[0] = s
        /\ \A i \in 1..n : g[i] = Upsert(g[i - 1], ds[i], FALSE)
    BY ONLY <1>1, <1>5 DEF Runs
  <2> QED
    BY <2>1, <2>2
<1>7. h[0] = s /\ \A i \in 1..n : h[i] = Upsert(h[i - 1], es[i], FALSE)
  BY <1>2, <1>5 DEF Runs
<1>8. /\ at \in 1..n /\ es[at] = Added(ds[at], c.value) /\ Key(ds[at]) = Key(c)
      /\ \A i \in 1..n : i # at => es[i] = ds[i]
  BY <1>5
<1> DEFINE Before(k) == h[k] = g[k]
           After(k) == h[k] = Upsert(g[k], c, FALSE) /\ Has(g[k], Key(c))
           T == {k \in Nat : k <= n => (k < at => Before(k)) /\ (at <= k => After(k))}
<1>9. 0 \in T
  <2>1. Before(0) /\ ~(at <= 0)
    BY ONLY <1>5, <1>6, <1>7, <1>8
  <2> HIDE DEF Before, After
  <2> QED
    BY <2>1
<1>10. ASSUME NEW k \in Nat, k \in T
       PROVE  k + 1 \in T
  <2>1. SUFFICES ASSUME k + 1 <= n
                 PROVE  (k + 1 < at => Before(k + 1)) /\ (at <= k + 1 => After(k + 1))
    <3> HIDE DEF Before, After
    <3> QED
      BY <1>10
  <2>2. k + 1 \in 1..n /\ (k + 1) - 1 = k /\ k \in 0..n
    BY ONLY <1>5, <2>1, k \in Nat
  <2>3. (k < at => Before(k)) /\ (at <= k => After(k))
    <3> HIDE DEF Before, After
    <3> QED
      BY ONLY <1>5, <1>10, <2>1, k \in Nat
  <2>4. /\ g[k] \in Seq(Counter) /\ ds[k + 1] \in Counter
        /\ g[k + 1] = Upsert(g[k], ds[k + 1], FALSE)
    BY ONLY <1>6, <2>2
  <2>5. h[k + 1] = Upsert(h[k], es[k + 1], FALSE)
    BY ONLY <1>7, <2>2
  <2>6. CASE k + 1 < at
    <3>1. k < at /\ k + 1 # at /\ ~(at <= k + 1)
      BY ONLY <1>5, <1>8, <2>2, <2>6, k \in Nat
    <3>2. es[k + 1] = ds[k + 1]
      BY ONLY <1>8, <2>2, <3>1
    <3>3. h[k] = g[k]
      BY ONLY <2>3, <3>1
    <3>4. Before(k + 1)
      BY ONLY <2>4, <2>5, <3>2, <3>3
    <3> QED
      BY ONLY <3>1, <3>4
  <2>7. CASE k + 1 = at
    <3>1. k < at /\ ~(k + 1 < at)
      BY ONLY <1>5, <1>8, <2>2, <2>7, k \in Nat
    <3>2. h[k] = g[k]
      BY ONLY <2>3, <3>1
    <3>3. es[k + 1] = Added(ds[k + 1], c.value) /\ Key(ds[k + 1]) = Key(c)
      BY ONLY <1>8, <2>7
    <3>4. Upsert(Upsert(g[k], ds[k + 1], FALSE), c, FALSE)
            = Upsert(g[k], Added(ds[k + 1], c.value), FALSE)
      BY ONLY <2>4, <3>3, c \in Counter, UpsertTwice
    <3>5. Has(Upsert(g[k], ds[k + 1], FALSE), Key(ds[k + 1]))
      BY ONLY <2>4, UpsertHas
    <3>6. After(k + 1)
      BY ONLY <2>4, <2>5, <3>2, <3>3, <3>4, <3>5
    <3> QED
      BY ONLY <3>1, <3>6
  <2>8. CASE k + 1 > at
    <3>1. at <= k /\ ~(k + 1 < at) /\ k + 1 # at
      BY ONLY <1>5, <1>8, <2>2, <2>8, k \in Nat
    <3>2. h[k] = Upsert(g[k], c, FALSE) /\ Has(g[k], Key(c))
      BY ONLY <2>3, <3>1
    <3>3. es[k + 1] = ds[k + 1]
      BY ONLY <1>8, <2>2, <3>1
    <3>4. Upsert(Upsert(g[k], c, FALSE), ds[k + 1], FALSE)
            = Upsert(Upsert(g[k], ds[k + 1], FALSE), c, FALSE)
      BY ONLY <2>4, <3>2, c \in Counter, UpsertCommutes
    <3>5. Has(Upsert(g[k], ds[k + 1], FALSE), Key(c))
      BY ONLY <2>4, <3>2, UpsertHas
    <3>6. After(k + 1)
      BY ONLY <2>4, <2>5, <3>2, <3>3, <3>4, <3>5
    <3> QED
      BY ONLY <3>1, <3>6
  <2>9. k + 1 < at \/ k + 1 = at \/ k + 1 > at
    BY ONLY <1>5, <1>8, k \in Nat
  <2> QED
    BY ONLY <2>6, <2>7, <2>8, <2>9
<1>11. After(n)
  <2> HIDE DEF Before, After
  <2>1. n \in T
    <3> HIDE DEF T
    <3> QED
      BY <1>5, <1>9, <1>10, Induction
  <2>2. n <= n /\ at <= n
    BY ONLY <1>5, <1>8
  <2> QED
    BY ONLY <2>1, <2>2
<1> QED
  BY <1>3, <1>4, <1>5, <1>11

LEMMA MergeType ==
  ASSUME NEW s \in Seq(Counter)
  PROVE  MergeCurrencyCase(s) \in Seq(Counter)
<1>1. InCapitals(s) \in Seq(Counter) /\ <<>> \in Seq(Counter) /\ FALSE \in BOOLEAN
  BY InCapitalsIs
<1> QED
  BY ONLY <1>1, AccumulateAdds DEF MergeCurrencyCase

\* Merging before and after something is counted comes to the same, however
\* the counter it is added to was found.
LEMMA MergeUpsert ==
  ASSUME NEW s \in Seq(Counter), NEW c \in Counter, NEW asTyped \in BOOLEAN
  PROVE  MergeCurrencyCase(Upsert(s, c, asTyped))
           = Upsert(MergeCurrencyCase(s), Capital(c), FALSE)
<1> DEFINE u == Upsert(s, c, asTyped)
           a == InCapitals(s)
           b == InCapitals(u)
<1>1. PICK at \in 0..Len(s) : UpsertsAt(s, c, asTyped, at, u)
  BY UpsertIs
<1>2. PICK n \in Nat : n = Len(s)
  OBVIOUS
<1>3. \A i \in 1..n : s[i] \in Counter
  BY <1>2
<1> HIDE DEF u
<1>4. u \in Seq(Counter)
  BY <1>1 DEF UpsertsAt
<1>5. a \in Seq(Counter) /\ Len(a) = n /\ \A i \in 1..n : a[i] = Capital(s[i])
  BY <1>2, InCapitalsIs
<1>6. b \in Seq(Counter) /\ Len(b) = Len(u) /\ \A i \in 1..Len(u) : b[i] = Capital(u[i])
  BY <1>4, InCapitalsIs
<1>7. /\ Capital(c) \in Counter /\ Key(Capital(c)) = Key(c) /\ Capital(c).value = c.value
      /\ c.value \in Int
  BY CapitalIs, CounterIs
<1>8. <<>> \in Seq(Counter) /\ FALSE \in BOOLEAN
  OBVIOUS
<1>9. MergeCurrencyCase(s) = Accumulate(<<>>, a, FALSE)
      /\ MergeCurrencyCase(u) = Accumulate(<<>>, b, FALSE)
  BY DEF MergeCurrencyCase
<1> HIDE DEF a, b
<1>10. CASE at = 0
  <2>1. Len(u) = n + 1 /\ u[n + 1] = c /\ \A i \in 1..n : u[i] = s[i]
    BY <1>1, <1>2, <1>10 DEF UpsertsAt
  <2>2. /\ n + 1 \in 1..Len(u) /\ \A i \in 1..n : i \in 1..Len(u)
    BY ONLY <1>2, <2>1
  <2>3. b[n + 1] = Capital(c) /\ \A i \in 1..Len(a) : b[i] = a[i]
    BY ONLY <1>5, <1>6, <2>1, <2>2
  <2>4. Len(b) = Len(a) + 1
    BY ONLY <1>5, <1>6, <2>1
  <2>5. Accumulate(<<>>, b, FALSE) = Upsert(Accumulate(<<>>, a, FALSE), b[Len(a) + 1], FALSE)
    BY ONLY <1>5, <1>6, <1>8, <2>3, <2>4, AccumulateEnds
  <2> QED
    BY <1>5, <1>9, <2>3, <2>5 DEF u
<1>11. CASE at # 0
  <2>1. at \in 1..n
    BY <1>2, <1>11
  <2>2. /\ Len(u) = n /\ u[at] = Added(s[at], c.value) /\ Matches(s[at], c, asTyped)
        /\ \A i \in 1..n : i # at => u[i] = s[i]
    BY <1>1, <1>2, <1>11 DEF UpsertsAt
  <2>3. Key(s[at]) = Key(c)
    BY <1>3, <2>1, <2>2, SameKey DEF Matches
  <2>4. Capital(Added(s[at], c.value)) = Added(Capital(s[at]), c.value)
        /\ Key(Capital(s[at])) = Key(s[at])
    BY ONLY <1>3, <1>7, <2>1, CapitalIs
  <2>5. /\ b[at] = Added(a[at], Capital(c).value) /\ Key(a[at]) = Key(Capital(c))
    BY ONLY <1>5, <1>6, <1>7, <2>1, <2>2, <2>3, <2>4
  <2>6. Len(b) = Len(a) /\ at \in 1..Len(a) /\ \A i \in 1..Len(a) : i # at => b[i] = a[i]
    BY ONLY <1>5, <1>6, <2>1, <2>2
  <2>7. Accumulate(<<>>, b, FALSE) = Upsert(Accumulate(<<>>, a, FALSE), Capital(c), FALSE)
    BY ONLY <1>5, <1>6, <1>7, <1>8, <2>5, <2>6, AccumulateRaises
  <2> QED
    BY <1>9, <2>7 DEF u
<1> QED
  BY <1>10, <1>11

LEMMA MergeAccumulate ==
  ASSUME NEW s \in Seq(Counter), NEW ds \in Seq(Counter), NEW asTyped \in BOOLEAN
  PROVE  MergeCurrencyCase(Accumulate(s, ds, asTyped))
           = Accumulate(MergeCurrencyCase(s), InCapitals(ds), FALSE)
<1>1. PICK g : Runs(s, ds, asTyped, g)
  BY RunExists
<1>2. Accumulate(s, ds, asTyped) = g[Len(ds)]
  BY <1>1, AccumulateIs
<1>3. PICK n \in Nat : n = Len(ds)
  OBVIOUS
<1>4. /\ g[0] = s /\ \A i \in 0..n : g[i] \in Seq(Counter)
      /\ \A i \in 1..n : g[i] = Upsert(g[i - 1], ds[i], asTyped)
  BY ONLY <1>1, <1>3 DEF Runs
<1>5. \A i \in 1..n : ds[i] \in Counter
  BY <1>3
<1> DEFINE cs == InCapitals(ds)
           m == MergeCurrencyCase(s)
           h == [i \in 0..n |-> MergeCurrencyCase(g[i])]
<1>6. cs \in Seq(Counter) /\ Len(cs) = n /\ \A i \in 1..n : cs[i] = Capital(ds[i])
  BY <1>3, InCapitalsIs
<1>7. m \in Seq(Counter)
  BY MergeType
<1>8. \A i \in 0..n : h[i] = MergeCurrencyCase(g[i]) /\ h[i] \in Seq(Counter)
  BY <1>4, MergeType
<1>9. h \in [0..n -> Seq(Counter)]
  BY <1>8
<1>10. h[0] = m
  BY <1>3, <1>4, <1>8
<1> HIDE DEF cs, m, h
<1>11. ASSUME NEW i \in 1..n
       PROVE  h[i] = Upsert(h[i - 1], cs[i], FALSE)
  <2>1. i \in 0..n /\ i - 1 \in 0..n
    BY <1>3
  <2>2. g[i - 1] \in Seq(Counter) /\ ds[i] \in Counter /\ g[i] = Upsert(g[i - 1], ds[i], asTyped)
    BY <1>4, <1>5, <2>1
  <2>3. MergeCurrencyCase(g[i]) = Upsert(MergeCurrencyCase(g[i - 1]), Capital(ds[i]), FALSE)
    BY ONLY <2>2, asTyped \in BOOLEAN, MergeUpsert
  <2> QED
    BY ONLY <1>6, <1>8, <2>1, <2>3, i \in 1..n
<1>12. Runs(m, cs, FALSE, h)
  BY ONLY <1>6, <1>9, <1>10, <1>11 DEF Runs
<1>13. Accumulate(m, cs, FALSE) = h[Len(cs)]
  BY <1>6, <1>7, <1>12, AccumulateIs, FALSE \in BOOLEAN
<1>14. n \in 0..n
  BY <1>3
<1> QED
  BY <1>2, <1>3, <1>6, <1>8, <1>13, <1>14 DEF cs, m

\* u is a followed by b.
Joins(u, a, m, b, p) ==
  Len(u) = m + p /\ \A i \in 1..(m + p) : u[i] = IF i <= m THEN a[i] ELSE b[i - m]

LEMMA JoinedIs ==
  ASSUME NEW a \in Seq(Counter), NEW b \in Seq(Counter), NEW u, u = a \o b,
         NEW m \in Nat, Len(a) = m, NEW p \in Nat, Len(b) = p
  PROVE  Joins(u, a, m, b, p)
<1>1. /\ Len(a \o b) = Len(a) + Len(b)
      /\ \A i \in 1..(Len(a) + Len(b)) : (a \o b)[i] = IF i <= Len(a) THEN a[i] ELSE b[i - Len(a)]
  BY ONLY a \in Seq(Counter), b \in Seq(Counter), ConcatProperties
<1> QED
  BY ONLY <1>1, u = a \o b, Len(a) = m, Len(b) = p DEF Joins

\* The earlier version counted a receipt as this one does, but for the case.
LEMMA DeltasInCapitals ==
  ASSUME NEW q \in SoldReceipt, NEW r \in SoldReceipt, r = [q EXCEPT !.currency = Upper(q.currency)]
  PROVE  InCapitals(Deltas(q)) = Deltas(r)
<1> DEFINE K == Len(q.taxes)
           P == Len(q.payments)
           u == Deltas(q)
           v == Deltas(r)
           w == InCapitals(u)
<1>1. DOMAIN q = {"receiptType", "currency", "inclusive", "lines", "taxes", "payments", "total"}
  BY DEF SoldReceipt
<1>2. /\ r.currency = Upper(q.currency) /\ r.taxes = q.taxes /\ r.payments = q.payments
      /\ r.receiptType = q.receiptType
  BY <1>1
<1>3. q.taxes \in Seq(ReceiptTax) /\ q.payments \in Seq(Payment)
  BY DEF SoldReceipt
<1>4. K \in Nat /\ P \in Nat
  BY <1>3
<1>5. ByTaxType(r) = ByTaxType(q) /\ TaxByTaxType(r) = TaxByTaxType(q) /\ SignOf(r) = SignOf(q)
  BY <1>2 DEF ByTaxType, TaxByTaxType, SignOf
<1>6. \A type, t, amount :
        Capital(TaxCounter(type, q, t, amount)) = TaxCounter(type, r, t, amount)
  BY <1>2, <1>5 DEF Capital, TaxCounter
<1>7. \A p : Capital(MoneyCounter(q, p)) = MoneyCounter(r, p)
  BY <1>2, <1>5 DEF Capital, MoneyCounter
<1>8. /\ u = TaxDeltas(q) \o MoneyDeltas(q) /\ u \in Seq(Counter)
      /\ TaxDeltas(q) \in Seq(Counter) /\ Len(TaxDeltas(q)) = 2 * K
      /\ MoneyDeltas(q) \in Seq(Counter) /\ Len(MoneyDeltas(q)) = P
      /\ \A k \in 1..K :
           /\ TaxDeltas(q)[2 * k - 1] = TaxCounter(ByTaxType(q), q, q.taxes[k], q.taxes[k].salesAmountWithTax)
           /\ TaxDeltas(q)[2 * k] = TaxCounter(TaxByTaxType(q), q, q.taxes[k], q.taxes[k].taxAmount)
      /\ \A i \in 1..P : MoneyDeltas(q)[i] = MoneyCounter(q, q.payments[i])
  BY DeltasAre
<1>9. /\ v = TaxDeltas(r) \o MoneyDeltas(r) /\ v \in Seq(Counter)
      /\ TaxDeltas(r) \in Seq(Counter) /\ Len(TaxDeltas(r)) = 2 * K
      /\ MoneyDeltas(r) \in Seq(Counter) /\ Len(MoneyDeltas(r)) = P
      /\ \A k \in 1..K :
           /\ TaxDeltas(r)[2 * k - 1] = TaxCounter(ByTaxType(q), r, q.taxes[k], q.taxes[k].salesAmountWithTax)
           /\ TaxDeltas(r)[2 * k] = TaxCounter(TaxByTaxType(q), r, q.taxes[k], q.taxes[k].taxAmount)
      /\ \A i \in 1..P : MoneyDeltas(r)[i] = MoneyCounter(r, q.payments[i])
  <2>1. /\ v = TaxDeltas(r) \o MoneyDeltas(r) /\ v \in Seq(Counter)
        /\ TaxDeltas(r) \in Seq(Counter) /\ Len(TaxDeltas(r)) = 2 * Len(r.taxes)
        /\ MoneyDeltas(r) \in Seq(Counter) /\ Len(MoneyDeltas(r)) = Len(r.payments)
        /\ \A k \in 1..Len(r.taxes) :
             /\ TaxDeltas(r)[2 * k - 1] = TaxCounter(ByTaxType(r), r, r.taxes[k], r.taxes[k].salesAmountWithTax)
             /\ TaxDeltas(r)[2 * k] = TaxCounter(TaxByTaxType(r), r, r.taxes[k], r.taxes[k].taxAmount)
        /\ \A i \in 1..Len(r.payments) : MoneyDeltas(r)[i] = MoneyCounter(r, r.payments[i])
    BY ONLY r \in SoldReceipt, DeltasAre
  <2> QED
    BY ONLY <1>2, <1>5, <2>1
<1> HIDE DEF K, P, u, v
<1>10. /\ Len(u) = 2 * K + P
       /\ \A i \in 1..(2 * K + P) :
            u[i] = IF i <= 2 * K THEN TaxDeltas(q)[i] ELSE MoneyDeltas(q)[i - 2 * K]
  <2>1. PICK m \in Nat : m = 2 * K
    BY <1>4
  <2>2. Len(TaxDeltas(q)) = m
    BY <1>8, <2>1
  <2>3. Joins(u, TaxDeltas(q), m, MoneyDeltas(q), P)
    BY ONLY <1>4, <1>8, <2>2, JoinedIs, m \in Nat
  <2> QED
    BY <2>1, <2>3 DEF Joins
<1>11. /\ Len(v) = 2 * K + P
       /\ \A i \in 1..(2 * K + P) :
            v[i] = IF i <= 2 * K THEN TaxDeltas(r)[i] ELSE MoneyDeltas(r)[i - 2 * K]
  <2>1. PICK m \in Nat : m = 2 * K
    BY <1>4
  <2>2. Len(TaxDeltas(r)) = m
    BY <1>9, <2>1
  <2>3. Joins(v, TaxDeltas(r), m, MoneyDeltas(r), P)
    BY ONLY <1>4, <1>9, <2>2, JoinedIs, m \in Nat
  <2> QED
    BY <2>1, <2>3 DEF Joins
<1>12. w \in Seq(Counter) /\ Len(w) = 2 * K + P /\ \A i \in 1..(2 * K + P) : w[i] = Capital(u[i])
  <2>1. u \in Seq(Counter) /\ Len(u) = 2 * K + P
    BY <1>8, <1>10
  <2> QED
    BY ONLY <2>1, InCapitalsIs DEF w
<1> HIDE DEF w
<1>13. ASSUME NEW n \in 1..(2 * K)
       PROVE  Capital(TaxDeltas(q)[n]) = TaxDeltas(r)[n]
  <2> DEFINE k == (n + 1) \div 2
  <2>1. k \in 1..K /\ (n = 2 * k \/ n = 2 * k - 1)
    BY <1>4
  <2> HIDE DEF k
  <2>2. CASE n = 2 * k
    BY ONLY <1>6, <1>8, <1>9, <2>1, <2>2
  <2>3. CASE n = 2 * k - 1
    BY ONLY <1>6, <1>8, <1>9, <2>1, <2>3
  <2> QED
    BY ONLY <2>1, <2>2, <2>3
<1>14. ASSUME NEW i \in 1..P
       PROVE  Capital(MoneyDeltas(q)[i]) = MoneyDeltas(r)[i]
  BY <1>7, <1>8, <1>9
<1>15. ASSUME NEW i \in 1..(2 * K + P)
       PROVE  w[i] = v[i]
  <2>1. CASE i <= 2 * K
    <3>1. i \in 1..(2 * K)
      BY <1>4, <2>1
    <3> QED
      BY <1>10, <1>11, <1>12, <1>13, <2>1, <3>1
  <2>2. CASE ~(i <= 2 * K)
    <3>1. i - 2 * K \in 1..P
      BY <1>4, <2>2
    <3> QED
      BY <1>10, <1>11, <1>12, <1>14, <2>2, <3>1
  <2> QED
    BY <2>1, <2>2
<1>16. w = v
  <2>1. v \in Seq(Counter) /\ Len(w) = Len(v) /\ \A i \in 1..Len(w) : w[i] = v[i]
    BY <1>9, <1>11, <1>12, <1>15
  <2> QED
    BY ONLY <1>12, <2>1, SeqEqual
<1> QED
  BY <1>16 DEF u, v, w

\* Nothing is merged into nothing.
LEMMA MergeNothing ==
  MergeCurrencyCase(<<>>) = <<>>
<1> DEFINE a == InCapitals(<<>>)
<1>1. <<>> \in Seq(Counter) /\ FALSE \in BOOLEAN /\ Len(<<>>) = 0
  OBVIOUS
<1>2. a \in Seq(Counter) /\ Len(a) = 0
  BY <1>1, InCapitalsIs
<1>3. MergeCurrencyCase(<<>>) = Accumulate(<<>>, a, FALSE)
  BY DEF MergeCurrencyCase
<1> HIDE DEF a
<1>4. PICK g : Runs(<<>>, a, FALSE, g)
  BY ONLY <1>1, <1>2, RunExists
<1>5. g[0] = <<>>
  BY <1>4 DEF Runs
<1>6. Accumulate(<<>>, a, FALSE) = g[Len(a)]
  BY ONLY <1>1, <1>2, <1>4, AccumulateIs
<1> QED
  BY ONLY <1>2, <1>3, <1>5, <1>6

-----------------------------------------------------------------------------
(* The counters of the day.                                                *)

\* No two counters of one key.
KeysDiffer(s) == \A i, j \in 1..Len(s) : Key(s[i]) = Key(s[j]) => i = j

LEMMA UpsertKeepsKeys ==
  ASSUME NEW s \in Seq(Counter), NEW c \in Counter, KeysDiffer(s)
  PROVE  KeysDiffer(Upsert(s, c, FALSE))
<1> DEFINE u == Upsert(s, c, FALSE)
<1>1. PICK p \in 0..Len(s) : IsPlace(s, Key(c), p) /\ Puts(s, c, p, u)
  BY UpsertPuts
<1> HIDE DEF u
<1>2. PICK n \in Nat : n = Len(s)
  OBVIOUS
<1>3. \A i \in 1..n : i \in 1..Len(u) /\ Key(u[i]) = Key(s[i])
  BY <1>1, <1>2, PutsKeys
<1>4. \A i, j \in 1..n : Key(s[i]) = Key(s[j]) => i = j
  BY <1>2 DEF KeysDiffer
<1>5. CASE p = 0
  <2>1. Len(u) = n + 1 /\ u[n + 1] = c
    BY <1>1, <1>2, <1>5 DEF Puts
  <2>2. \A i \in 1..n : Key(s[i]) # Key(c)
    BY <1>1, <1>2, <1>5 DEF IsPlace
  <2>3. \A i \in 1..(n + 1) : i \in 1..n \/ i = n + 1
    BY <1>2
  <2>4. ASSUME NEW i \in 1..(n + 1), NEW j \in 1..(n + 1), Key(u[i]) = Key(u[j])
        PROVE  i = j
    <3>1. CASE i \in 1..n /\ j \in 1..n
      BY <1>3, <1>4, <2>4, <3>1
    <3>2. CASE i = n + 1 \/ j = n + 1
      BY <1>3, <2>1, <2>2, <2>3, <2>4, <3>2
    <3> QED
      BY <2>3, <3>1, <3>2
  <2> QED
    BY <2>1, <2>4 DEF KeysDiffer, u
<1>6. CASE p # 0
  <2>1. Len(u) = n
    BY <1>1, <1>2, <1>6 DEF Puts
  <2> QED
    BY <1>3, <1>4, <2>1 DEF KeysDiffer, u
<1> QED
  BY <1>5, <1>6

LEMMA AccumulateKeepsKeys ==
  ASSUME NEW s \in Seq(Counter), NEW ds \in Seq(Counter), KeysDiffer(s)
  PROVE  KeysDiffer(Accumulate(s, ds, FALSE))
<1>0. FALSE \in BOOLEAN
  OBVIOUS
<1>1. PICK g : Runs(s, ds, FALSE, g)
  BY <1>0, RunExists
<1>2. Accumulate(s, ds, FALSE) = g[Len(ds)]
  BY <1>0, <1>1, AccumulateIs
<1>3. PICK n \in Nat : n = Len(ds)
  OBVIOUS
<1>4. /\ g[0] = s /\ \A i \in 0..n : g[i] \in Seq(Counter)
      /\ \A i \in 1..n : g[i] = Upsert(g[i - 1], ds[i], FALSE)
  BY ONLY <1>1, <1>3 DEF Runs
<1>5. \A i \in 1..n : ds[i] \in Counter
  BY <1>3
<1> DEFINE T == {k \in Nat : k <= n => KeysDiffer(g[k])}
<1>6. 0 \in T
  BY <1>4
<1>7. ASSUME NEW k \in Nat, k \in T
      PROVE  k + 1 \in T
  <2>1. SUFFICES ASSUME k + 1 <= n
                 PROVE  KeysDiffer(g[k + 1])
    BY <1>7
  <2>2. k \in 0..n /\ k + 1 \in 1..n /\ (k + 1) - 1 = k /\ KeysDiffer(g[k])
    BY <1>3, <1>7, <2>1
  <2>3. g[k] \in Seq(Counter) /\ ds[k + 1] \in Counter /\ g[k + 1] = Upsert(g[k], ds[k + 1], FALSE)
    BY ONLY <1>4, <1>5, <2>2
  <2> QED
    BY ONLY <2>2, <2>3, UpsertKeepsKeys
<1>8. KeysDiffer(g[n])
  <2> HIDE DEF T
  <2>1. n \in T
    BY <1>3, <1>6, <1>7, Induction
  <2> QED
    BY <1>3, <2>1 DEF T
<1> QED
  BY <1>2, <1>3, <1>8

\* Where keys differ, the total of one is its counter's value.
LEMMA TotalOfOne ==
  ASSUME NEW s \in Seq(Counter), KeysDiffer(s), NEW i \in 1..Len(s)
  PROVE  Total(s, {Key(s[i])}) = s[i].value
<1> DEFINE w == Where(s, {Key(s[i])})
<1>1. /\ w \in Seq(Int) /\ Len(w) = Len(s)
      /\ \A j \in 1..Len(s) : w[j] = IF Key(s[j]) \in {Key(s[i])} THEN s[j].value ELSE 0
  BY WhereIs
<1> HIDE DEF w
<1>2. w[i] = s[i].value /\ \A j \in 1..Len(w) : j # i => w[j] = 0
  BY <1>1 DEF KeysDiffer
<1>3. SumOf(w) = w[i]
  BY <1>1, <1>2, SumSingle
<1> QED
  BY <1>2, <1>3 DEF Total, w

\* A credit takes from a balance what the sale it takes back added to it.
LEMMA CreditTakesBack ==
  ASSUME NEW sale \in SoldReceipt, NEW credit \in SoldReceipt, TakesBack(credit, sale),
         NEW key, key[1] = "BalanceByMoneyType"
  PROVE  Total(Deltas(credit), {key}) + Total(Deltas(sale), {key}) = 0
<1>1. ASSUME NEW r \in SoldReceipt
      PROVE  Total(Deltas(r), {key}) = Total(MoneyDeltas(r), {key})
  <2> DEFINE x == TaxDeltas(r)
             y == MoneyDeltas(r)
             w == Where(x, {key})
             K == Len(r.taxes)
  <2>1. /\ Deltas(r) = x \o y /\ x \in Seq(Counter) /\ y \in Seq(Counter) /\ Len(x) = 2 * K
        /\ \A k \in 1..K :
             /\ x[2 * k - 1] = TaxCounter(ByTaxType(r), r, r.taxes[k], r.taxes[k].salesAmountWithTax)
             /\ x[2 * k] = TaxCounter(TaxByTaxType(r), r, r.taxes[k], r.taxes[k].taxAmount)
    BY DeltasAre
  <2>2. ByTaxType(r) # "BalanceByMoneyType" /\ TaxByTaxType(r) # "BalanceByMoneyType"
    <3>1. r.receiptType \in ReceiptTypes
      BY DEF SoldReceipt
    <3> QED
      BY <3>1 DEF ByTaxType, TaxByTaxType, ReceiptTypes
  <2>3. K \in Nat
    BY DEF SoldReceipt
  <2> HIDE DEF x, y, K
  <2>4. ASSUME NEW n \in 1..(2 * K)
        PROVE  Key(x[n])[1] # "BalanceByMoneyType"
    <3> DEFINE k == (n + 1) \div 2
    <3>1. k \in 1..K /\ (n = 2 * k \/ n = 2 * k - 1)
      BY <2>3
    <3> HIDE DEF k
    <3>2. Key(x[n])[1] = x[n].type
      BY DEF Key
    <3>3. CASE n = 2 * k
      <4>1. x[n] = TaxCounter(TaxByTaxType(r), r, r.taxes[k], r.taxes[k].taxAmount)
        BY ONLY <2>1, <3>1, <3>3
      <4>2. x[n].type = TaxByTaxType(r)
        BY ONLY <4>1 DEF TaxCounter
      <4> QED
        BY ONLY <2>2, <3>2, <4>2
    <3>4. CASE n = 2 * k - 1
      <4>1. x[n] = TaxCounter(ByTaxType(r), r, r.taxes[k], r.taxes[k].salesAmountWithTax)
        BY ONLY <2>1, <3>1, <3>4
      <4>2. x[n].type = ByTaxType(r)
        BY ONLY <4>1 DEF TaxCounter
      <4> QED
        BY ONLY <2>2, <3>2, <4>2
    <3> QED
      BY <3>1, <3>3, <3>4
  <2>5. /\ w \in Seq(Int) /\ Len(w) = 2 * K
        /\ \A n \in 1..(2 * K) : w[n] = IF Key(x[n]) \in {key} THEN x[n].value ELSE 0
    <3>1. x \in Seq(Counter) /\ Len(x) = 2 * K
      BY <2>1
    <3> QED
      BY ONLY <3>1, WhereIs DEF w
  <2> HIDE DEF w
  <2>6. \A n \in 1..Len(w) : w[n] = 0
    BY <2>4, <2>5
  <2>7. Total(x, {key}) = 0
    BY <2>5, <2>6, SumZero DEF Total, w
  <2>8. Total(y, {key}) \in Int
    BY <2>1, WhereIs
  <2>9. Total(x \o y, {key}) = Total(x, {key}) + Total(y, {key})
    BY <2>1, TotalConcat
  <2> QED
    BY <2>1, <2>7, <2>8, <2>9 DEF y
<1>2. /\ sale.payments = credit.payments /\ sale.currency = credit.currency
      /\ SignOf(sale) = 1 /\ SignOf(credit) = -1
  <2>1. DOMAIN credit = {"receiptType", "currency", "inclusive", "lines", "taxes", "payments", "total"}
    BY DEF SoldReceipt
  <2> QED
    BY <2>1 DEF TakesBack, SignOf
<1> DEFINE P == Len(sale.payments)
           x == MoneyDeltas(sale)
           y == MoneyDeltas(credit)
           v == Where(x, {key})
           w == Where(y, {key})
<1>3. /\ x \in Seq(Counter) /\ Len(x) = P /\ y \in Seq(Counter) /\ Len(y) = P
      /\ \A i \in 1..P : /\ x[i] = MoneyCounter(sale, sale.payments[i])
                         /\ y[i] = MoneyCounter(credit, sale.payments[i])
  BY <1>2, DeltasAre
<1>4. \A i \in 1..P : sale.payments[i].amount \in Int
  <2>1. sale.payments \in Seq(Payment)
    BY DEF SoldReceipt
  <2>2. \A i \in 1..P : sale.payments[i] \in Payment
    BY <2>1
  <2> QED
    BY <2>2 DEF Payment
<1> HIDE DEF x, y, P
<1>5. \A i \in 1..P : /\ Key(y[i]) = Key(x[i]) /\ x[i].value = 1 * sale.payments[i].amount
                      /\ y[i].value = (-1) * sale.payments[i].amount
  BY <1>2, <1>3 DEF MoneyCounter, Key
<1>6. /\ v \in Seq(Int) /\ Len(v) = P
      /\ \A i \in 1..P : v[i] = IF Key(x[i]) \in {key} THEN x[i].value ELSE 0
  <2>1. x \in Seq(Counter) /\ Len(x) = P
    BY <1>3
  <2> QED
    BY ONLY <2>1, WhereIs
<1>7. /\ w \in Seq(Int) /\ Len(w) = P
      /\ \A i \in 1..P : w[i] = IF Key(y[i]) \in {key} THEN y[i].value ELSE 0
  <2>1. y \in Seq(Counter) /\ Len(y) = P
    BY <1>3
  <2> QED
    BY ONLY <2>1, WhereIs
<1>8. Total(Deltas(sale), {key}) = SumOf(v) /\ Total(Deltas(credit), {key}) = SumOf(w)
  BY <1>1 DEF Total, v, w, x, y
<1> HIDE DEF v, w
<1>9. \A i \in 1..Len(v) : w[i] = (-1) * v[i]
  <2> TAKE i \in 1..Len(v)
  <2>1. i \in 1..P
    BY <1>6
  <2>2. PICK a \in Int : a = sale.payments[i].amount
    BY <1>4, <2>1
  <2>3. v[i] = (IF Key(x[i]) \in {key} THEN 1 * a ELSE 0)
        /\ w[i] = (IF Key(x[i]) \in {key} THEN (-1) * a ELSE 0)
    BY ONLY <1>5, <1>6, <1>7, <2>1, <2>2
  <2> QED
    BY ONLY <2>2, <2>3
<1>10. SumOf(w) = (-1) * SumOf(v)
  <2>1. -1 \in Int /\ Len(w) = Len(v)
    BY <1>6, <1>7
  <2> QED
    BY ONLY <1>6, <1>7, <1>9, <2>1, SumScale
<1>11. PICK a \in Int : a = SumOf(v)
  BY <1>6, PartialSumsAre
<1> QED
  BY ONLY <1>8, <1>10, <1>11

\* The receipt as the earlier version counted it.
AsTyped(file) == [Built(file) EXCEPT !.currency = file.currency]

LEMMA TypedIs ==
  ASSUME NEW file \in AcceptedFiles
  PROVE  \A q \in {Built(file), AsTyped(file)} :
           /\ q \in SoldReceipt /\ Built(file) = [q EXCEPT !.currency = Upper(q.currency)]
           /\ TaxedSales(q.taxes) = Paid(q.payments)
<1> DEFINE r == Built(file)
           m == file.currency
           typed == [r EXCEPT !.currency = m]
<1>1. /\ r \in SoldReceipt /\ r.currency = Upper(m) /\ m \in Currency
      /\ r.taxes = BuildReceiptTaxes(r.lines, r.inclusive)
      /\ r.total = ReceiptTotal(r.lines, r.inclusive) /\ Paid(r.payments) = r.total
  BY BuiltIs
<1> HIDE DEF r, m
<1>2. DOMAIN r = {"receiptType", "currency", "inclusive", "lines", "taxes", "payments", "total"}
  BY <1>1 DEF SoldReceipt
<1>3. r.lines \in Seq(Line) /\ r.inclusive \in BOOLEAN
  BY <1>1 DEF SoldReceipt
<1>4. TaxedSales(r.taxes) = Paid(r.payments)
  BY <1>1, <1>3, TaxesSum
<1>5. Upper(Upper(m)) = Upper(m)
  BY DEF Upper
<1>6. r = [r EXCEPT !.currency = Upper(r.currency)]
  <2> DEFINE z == Upper(r.currency)
  <2>1. z = r.currency
    BY <1>1, <1>5
  <2> HIDE DEF z
  <2>2. r = [r EXCEPT !.currency = z]
    BY ONLY <1>1, <2>1 DEF SoldReceipt
  <2> QED
    BY <2>2 DEF z
<1>7. typed \in SoldReceipt
  BY <1>1 DEF SoldReceipt
<1>8. typed.currency = m /\ typed.taxes = r.taxes /\ typed.payments = r.payments
  BY <1>2
<1>9. r = [typed EXCEPT !.currency = Upper(typed.currency)]
  <2> DEFINE z == Upper(typed.currency)
  <2>1. z = r.currency
    BY <1>1, <1>8
  <2> HIDE DEF z
  <2>2. r = [typed EXCEPT !.currency = z]
    BY ONLY <1>1, <2>1 DEF SoldReceipt
  <2> QED
    BY <2>2 DEF z
<1>10. AsTyped(file) = typed
  BY DEF AsTyped, r, m
<1> QED
  BY <1>1, <1>4, <1>6, <1>7, <1>8, <1>9, <1>10 DEF r

Balanced(s) ==
  \A rank : Total(s, KeysOf(SaleTypes, rank)) = Total(s, KeysOf(BalanceTypes, rank))

\* Whichever version counts a receipt: its counters stay balanced, and come,
\* once merged, to what FDMS counts.
LEMMA DeviceCounts ==
  ASSUME NEW s \in Seq(Counter), NEW file \in AcceptedFiles,
         NEW q \in {Built(file), AsTyped(file)}, NEW asTyped \in BOOLEAN
  PROVE  LET u == Accumulate(s, Deltas(q), asTyped)
         IN  /\ u \in Seq(Counter)
             /\ MergeCurrencyCase(u) = AccumulateCounters(MergeCurrencyCase(s), Built(file))
             /\ Balanced(s) => Balanced(u)
<1> DEFINE u == Accumulate(s, Deltas(q), asTyped)
           r == Built(file)
<1>1. /\ q \in SoldReceipt /\ r = [q EXCEPT !.currency = Upper(q.currency)]
      /\ TaxedSales(q.taxes) = Paid(q.payments)
  BY TypedIs
<1>2. r \in SoldReceipt
  BY TypedIs
<1> HIDE DEF r
<1>3. Deltas(q) \in Seq(Counter)
  BY <1>1, DeltasAre
<1>4. InCapitals(Deltas(q)) = Deltas(r)
  BY ONLY <1>1, <1>2, DeltasInCapitals
<1>5. u \in Seq(Counter) /\ \A Keys : Total(u, Keys) = Total(s, Keys) + Total(Deltas(q), Keys)
  BY ONLY <1>3, s \in Seq(Counter), asTyped \in BOOLEAN, AccumulateAdds
<1>6. MergeCurrencyCase(u) = Accumulate(MergeCurrencyCase(s), InCapitals(Deltas(q)), FALSE)
  BY ONLY <1>3, s \in Seq(Counter), asTyped \in BOOLEAN, MergeAccumulate
<1>7. MergeCurrencyCase(u) = AccumulateCounters(MergeCurrencyCase(s), r)
  BY ONLY <1>4, <1>6 DEF AccumulateCounters
<1>8. ASSUME Balanced(s)
      PROVE  Balanced(u)
  <2>1. SUFFICES ASSUME NEW rank
                 PROVE  Total(u, KeysOf(SaleTypes, rank)) = Total(u, KeysOf(BalanceTypes, rank))
    BY DEF Balanced
  <2>2. Total(s, KeysOf(SaleTypes, rank)) = Total(s, KeysOf(BalanceTypes, rank))
    BY <1>8 DEF Balanced
  <2>3. Total(Deltas(q), KeysOf(SaleTypes, rank)) = Total(Deltas(q), KeysOf(BalanceTypes, rank))
    BY ONLY <1>1, SalesAreBalances
  <2> HIDE DEF u
  <2> QED
    BY ONLY <1>5, <2>2, <2>3
<1> QED
  BY <1>5, <1>7, <1>8 DEF r

\* What a counter says of its tax: its key and percent.
Mark(c) == <<Key(c), c.taxPercent>>

Marked(s, X) == \A i \in 1..Len(s) : Mark(s[i]) \in X

LEMMA AddedMark ==
  ASSUME NEW m \in Counter, NEW v \in Int
  PROVE  Mark(Added(m, v)) = Mark(m)
<1>1. DOMAIN m = {"type", "currency", "taxID", "taxPercent", "moneyType", "value"}
  BY CounterIs
<1>2. Added(m, v).taxPercent = m.taxPercent
  BY <1>1 DEF Added
<1> QED
  BY <1>2, AddedIs DEF Mark

LEMMA UpsertMarked ==
  ASSUME NEW s \in Seq(Counter), NEW c \in Counter, NEW X, Marked(s, X), Mark(c) \in X
  PROVE  Marked(Upsert(s, c, FALSE), X)
<1> DEFINE u == Upsert(s, c, FALSE)
<1>1. PICK at \in 0..Len(s) : UpsertsAt(s, c, FALSE, at, u)
  <2>1. FALSE \in BOOLEAN
    OBVIOUS
  <2> QED
    BY <2>1, UpsertIs
<1> HIDE DEF u
<1>2. PICK n \in Nat : n = Len(s)
  OBVIOUS
<1>3. \A i \in 1..n : s[i] \in Counter /\ Mark(s[i]) \in X
  BY <1>2 DEF Marked
<1>4. CASE at = 0
  <2>1. Len(u) = n + 1 /\ u[n + 1] = c /\ \A i \in 1..n : u[i] = s[i]
    BY <1>1, <1>2, <1>4 DEF UpsertsAt
  <2>2. \A i \in 1..(n + 1) : i \in 1..n \/ i = n + 1
    BY <1>2
  <2> QED
    BY <1>3, <2>1, <2>2 DEF Marked, u
<1>5. CASE at # 0
  <2>1. /\ Len(u) = n /\ u[at] = Added(s[at], c.value)
        /\ \A i \in 1..n : i # at => u[i] = s[i]
    BY <1>1, <1>2, <1>5 DEF UpsertsAt
  <2>2. at \in 1..n
    BY <1>2, <1>5
  <2>3. Mark(u[at]) = Mark(s[at])
    BY <1>3, <2>1, <2>2, AddedMark, CounterIs
  <2> QED
    BY <1>3, <2>1, <2>2, <2>3 DEF Marked, u
<1> QED
  BY <1>4, <1>5

LEMMA AccumulateMarked ==
  ASSUME NEW s \in Seq(Counter), NEW ds \in Seq(Counter), NEW X, Marked(s, X), Marked(ds, X)
  PROVE  Marked(Accumulate(s, ds, FALSE), X)
<1>0. FALSE \in BOOLEAN
  OBVIOUS
<1>1. PICK g : Runs(s, ds, FALSE, g)
  BY <1>0, RunExists
<1>2. Accumulate(s, ds, FALSE) = g[Len(ds)]
  BY <1>0, <1>1, AccumulateIs
<1>3. PICK n \in Nat : n = Len(ds)
  OBVIOUS
<1>4. /\ g[0] = s /\ \A i \in 0..n : g[i] \in Seq(Counter)
      /\ \A i \in 1..n : g[i] = Upsert(g[i - 1], ds[i], FALSE)
  BY ONLY <1>1, <1>3 DEF Runs
<1>5. \A i \in 1..n : ds[i] \in Counter /\ Mark(ds[i]) \in X
  BY <1>3 DEF Marked
<1> DEFINE T == {k \in Nat : k <= n => Marked(g[k], X)}
<1>6. 0 \in T
  BY <1>4
<1>7. ASSUME NEW k \in Nat, k \in T
      PROVE  k + 1 \in T
  <2>1. SUFFICES ASSUME k + 1 <= n
                 PROVE  Marked(g[k + 1], X)
    BY <1>7
  <2>2. k \in 0..n /\ k + 1 \in 1..n /\ (k + 1) - 1 = k /\ Marked(g[k], X)
    BY <1>3, <1>7, <2>1
  <2>3. /\ g[k] \in Seq(Counter) /\ ds[k + 1] \in Counter /\ Mark(ds[k + 1]) \in X
        /\ g[k + 1] = Upsert(g[k], ds[k + 1], FALSE)
    BY ONLY <1>4, <1>5, <2>2
  <2> QED
    BY ONLY <2>2, <2>3, UpsertMarked
<1>8. Marked(g[n], X)
  <2> HIDE DEF T
  <2>1. n \in T
    BY <1>3, <1>6, <1>7, Induction
  <2> QED
    BY <1>3, <2>1 DEF T
<1> QED
  BY <1>2, <1>3, <1>8

\* What the receipts sold add to a key, one by one.
Adds(key) == [i \in DOMAIN sold |-> Total(Deltas(sold[i]), {key})]

LEMMA AddsAre ==
  ASSUME sold \in Seq(SoldReceipt), NEW key
  PROVE  /\ Adds(key) \in Seq(Int) /\ Len(Adds(key)) = Len(sold)
         /\ \A i \in 1..Len(sold) : Adds(key)[i] = Total(Deltas(sold[i]), {key})
<1>1. Len(sold) \in Nat /\ DOMAIN sold = 1..Len(sold)
      /\ \A i \in 1..Len(sold) : sold[i] \in SoldReceipt
  OBVIOUS
<1>2. \A i \in 1..Len(sold) : Total(Deltas(sold[i]), {key}) \in Int
  BY <1>1, DeltasAre, WhereIs
<1>3. \A i \in 1..Len(sold) : Adds(key)[i] = Total(Deltas(sold[i]), {key})
  BY <1>1 DEF Adds
<1>4. Adds(key) \in [1..Len(sold) -> Int]
  BY <1>1, <1>2 DEF Adds
<1> QED
  BY <1>1, <1>3, <1>4, FunctionIsSeq

\* The marks of what the day's receipts add.
DayMarks == UNION {{Mark(Deltas(sold[k])[i]) : i \in 1..Len(Deltas(sold[k]))} : k \in DOMAIN sold}

\* The counters s account for the day: no key is there twice, each comes from a
\* receipt, and each total is what the receipts add.
Accounts(s) ==
  /\ s \in Seq(Counter)
  /\ KeysDiffer(s)
  /\ Marked(s, DayMarks)
  /\ \A key : Total(s, {key}) = SumOf(Adds(key))

LEMMA NothingIsMarked ==
  ASSUME NEW X
  PROVE  LET e == <<>>
         IN  /\ e \in Seq(Counter) /\ KeysDiffer(e) /\ Marked(e, X)
             /\ \A Keys : Total(e, Keys) = 0
<1> DEFINE e == <<>>
<1>1. e \in Seq(Counter) /\ Len(e) = 0
  OBVIOUS
<1> HIDE DEF e
<1>2. ASSUME NEW Keys
      PROVE  Total(e, Keys) = 0
  <2> DEFINE w == Where(e, Keys)
  <2>1. w \in Seq(Int) /\ Len(w) = 0
    BY <1>1, WhereIs
  <2> HIDE DEF w
  <2>2. \A i \in 1..Len(w) : w[i] = 0
    BY <2>1
  <2>3. SumOf(w) = 0
    BY ONLY <2>1, <2>2, SumZero
  <2> QED
    BY <2>3 DEF Total, w
<1>3. KeysDiffer(e) /\ Marked(e, X)
  BY <1>1 DEF KeysDiffer, Marked
<1> QED
  BY <1>1, <1>2, <1>3 DEF e

LEMMA AccumulateCountersType ==
  ASSUME NEW s \in Seq(Counter), NEW r \in SoldReceipt
  PROVE  /\ AccumulateCounters(s, r) \in Seq(Counter)
         /\ \A Keys : Total(AccumulateCounters(s, r), Keys) = Total(s, Keys) + Total(Deltas(r), Keys)
<1>1. FALSE \in BOOLEAN /\ Deltas(r) \in Seq(Counter)
  BY DeltasAre
<1> QED
  BY <1>1, AccumulateAdds DEF AccumulateCounters

LEMMA CountedMarked ==
  ASSUME sold \in Seq(SoldReceipt), NEW k \in 1..Len(sold), NEW s \in Seq(Counter),
         KeysDiffer(s), Marked(s, DayMarks)
  PROVE  LET u == AccumulateCounters(s, sold[k]) IN KeysDiffer(u) /\ Marked(u, DayMarks)
<1> DEFINE d == Deltas(sold[k])
<1>1. d \in Seq(Counter)
  <2>1. sold[k] \in SoldReceipt
    OBVIOUS
  <2> QED
    BY <2>1, DeltasAre
<1>2. Marked(d, DayMarks)
  BY DEF Marked, DayMarks
<1> HIDE DEF d
<1>3. KeysDiffer(Accumulate(s, d, FALSE)) /\ Marked(Accumulate(s, d, FALSE), DayMarks)
  <2>1. KeysDiffer(Accumulate(s, d, FALSE))
    BY ONLY <1>1, s \in Seq(Counter), KeysDiffer(s), AccumulateKeepsKeys
  <2>2. Marked(Accumulate(s, d, FALSE), DayMarks)
    BY ONLY <1>1, <1>2, s \in Seq(Counter), Marked(s, DayMarks), AccumulateMarked
  <2> QED
    BY <2>1, <2>2
<1> QED
  BY <1>3 DEF AccumulateCounters, d

CountingInv ==
  /\ CountersTypeOK
  /\ MergeCurrencyCase(deviceCounters) = fdmsCounters
  /\ Balanced(deviceCounters)
  /\ Accounts(fdmsCounters)

LEMMA CountingInit == DayInit => CountingInv
<1> SUFFICES ASSUME DayInit
             PROVE  CountingInv
  OBVIOUS
<1> DEFINE e == <<>>
<1>1. e \in Seq(Counter) /\ e \in Seq(SoldReceipt) /\ Len(e) = 0
  OBVIOUS
<1>2. sold = e /\ deviceCounters = e /\ fdmsCounters = e /\ earlier \in BOOLEAN
  BY DEF DayInit
<1>3. MergeCurrencyCase(e) = e
  BY MergeNothing
<1> HIDE DEF e
<1>4. CountersTypeOK
  BY <1>1, <1>2 DEF CountersTypeOK
<1>5. e \in Seq(Counter) /\ KeysDiffer(e) /\ Marked(e, DayMarks) /\ \A Keys : Total(e, Keys) = 0
  BY NothingIsMarked DEF e
<1>6. Balanced(e)
  BY <1>5 DEF Balanced
<1>7. ASSUME NEW key
      PROVE  SumOf(Adds(key)) = 0
  <2>1. Adds(key) \in Seq(Int) /\ Len(Adds(key)) = 0
    BY <1>1, <1>2, AddsAre
  <2>2. \A i \in 1..Len(Adds(key)) : Adds(key)[i] = 0
    BY ONLY <2>1
  <2> QED
    BY ONLY <2>1, <2>2, SumZero
<1> QED
  BY <1>2, <1>3, <1>4, <1>5, <1>6, <1>7 DEF CountingInv, Accounts

LEMMA CountingNext ==
  ASSUME SoldInv, SoldInv', CountingInv, [DayNext]_dayVars
  PROVE  CountingInv'
<1>1. /\ deviceCounters \in Seq(Counter) /\ fdmsCounters \in Seq(Counter)
      /\ sold \in Seq(SoldReceipt) /\ earlier \in BOOLEAN
      /\ MergeCurrencyCase(deviceCounters) = fdmsCounters
      /\ Balanced(deviceCounters) /\ KeysDiffer(fdmsCounters) /\ Marked(fdmsCounters, DayMarks)
      /\ \A key : Total(fdmsCounters, {key}) = SumOf(Adds(key))
  BY DEF CountingInv, CountersTypeOK, Accounts
<1>2. CASE Sell
  <2>1. PICK file \in AcceptedFiles :
          /\ sold' = Append(sold, Built(file))
          /\ deviceCounters' = IF earlier THEN AccumulateAsTyped(deviceCounters, AsTyped(file))
                               ELSE AccumulateCounters(deviceCounters, Built(file))
          /\ fdmsCounters' = AccumulateCounters(fdmsCounters, Built(file))
          /\ earlier' = earlier
    BY <1>2 DEF Sell, Built, AsTyped
  <2> DEFINE r == Built(file)
             d == Deltas(r)
             n == Len(sold)
  <2>2. PICK q \in {Built(file), AsTyped(file)}, asTyped \in BOOLEAN :
          deviceCounters' = Accumulate(deviceCounters, Deltas(q), asTyped)
    BY <1>1, <2>1 DEF AccumulateAsTyped, AccumulateCounters
  <2>3. /\ deviceCounters' \in Seq(Counter)
        /\ MergeCurrencyCase(deviceCounters') = AccumulateCounters(fdmsCounters, r)
        /\ Balanced(deviceCounters')
    BY ONLY <1>1, <2>2, DeviceCounts, file \in AcceptedFiles
  <2>4. r \in SoldReceipt
    BY BuiltIs
  <2>5. fdmsCounters' = Accumulate(fdmsCounters, d, FALSE)
    BY <2>1 DEF AccumulateCounters
  <2> HIDE DEF r
  <2>6. d \in Seq(Counter) /\ FALSE \in BOOLEAN
    BY <2>4, DeltasAre
  <2>7. /\ fdmsCounters' \in Seq(Counter)
        /\ \A Keys : Total(fdmsCounters', Keys) = Total(fdmsCounters, Keys) + Total(d, Keys)
    <3> DEFINE u == Accumulate(fdmsCounters, d, FALSE)
    <3> HIDE DEF d
    <3>1. u \in Seq(Counter) /\ \A Keys : Total(u, Keys) = Total(fdmsCounters, Keys) + Total(d, Keys)
      BY ONLY <1>1, <2>6, AccumulateAdds
    <3> HIDE DEF u
    <3>2. fdmsCounters' = u
      BY <2>5 DEF u
    <3> QED
      BY ONLY <3>1, <3>2
  <2>8. KeysDiffer(fdmsCounters')
    BY ONLY <1>1, <2>5, <2>6, AccumulateKeepsKeys
  <2>9. sold' \in Seq(SoldReceipt) /\ Len(sold') = n + 1 /\ n \in Nat /\ sold'[n + 1] = r
        /\ \A i \in 1..n : sold'[i] = sold[i]
    <3>1. sold' = Append(sold, r)
      BY <2>1 DEF r
    <3> QED
      BY ONLY <1>1, <2>4, <3>1, AppendProperties
  <2> HIDE DEF n
  <2>10. ASSUME NEW key
         PROVE  Total(fdmsCounters', {key}) = SumOf(Adds(key)')
    <3> DEFINE a == Adds(key)
               b == Adds(key)'
    <3>1. /\ a \in Seq(Int) /\ Len(a) = n
          /\ \A i \in 1..n : a[i] = Total(Deltas(sold[i]), {key})
      BY <1>1, AddsAre DEF n
    <3>2. DOMAIN sold' = 1..(n + 1) /\ \A i \in 1..(n + 1) : sold'[i] \in SoldReceipt
      BY <2>9
    <3>3. \A i \in 1..(n + 1) : Total(Deltas(sold'[i]), {key}) \in Int
      BY <3>2, DeltasAre, WhereIs
    <3>4. b = [i \in 1..(n + 1) |-> Total(Deltas(sold'[i]), {key})]
      BY <3>2 DEF Adds
    <3> HIDE DEF a, b
    <3>5. b \in [1..(n + 1) -> Int] /\ n + 1 \in Nat
      <4>1. n + 1 \in Nat
        BY ONLY <2>9
      <4>2. b \in [1..(n + 1) -> Int]
        BY ONLY <3>3, <3>4
      <4> QED
        BY ONLY <4>1, <4>2
    <3>6. b \in Seq(Int) /\ Len(b) = n + 1
      BY ONLY <3>5, FunctionIsSeq
    <3>7. \A i \in 1..Len(a) : b[i] = a[i]
      <4>1. \A i \in 1..n : i \in 1..(n + 1) /\ sold'[i] = sold[i]
        BY ONLY <2>9
      <4> QED
        BY ONLY <3>1, <3>4, <4>1
    <3>8. b[n + 1] = Total(d, {key})
      BY <2>9, <3>4
    <3>9. SumOf(b) = SumOf(a) + b[Len(a) + 1]
      BY ONLY <3>1, <3>6, <3>7, SumAppend
    <3>10. Total(fdmsCounters, {key}) = SumOf(a)
      BY <1>1 DEF a
    <3> QED
      BY <2>7, <3>1, <3>8, <3>9, <3>10 DEF b
  <2>11. Marked(fdmsCounters', DayMarks')
    <3>1. \A k \in DOMAIN sold : k \in DOMAIN sold' /\ sold'[k] = sold[k]
      BY <1>1, <2>9 DEF n
    <3>2. n + 1 \in DOMAIN sold' /\ sold'[n + 1] = r
      BY <2>9
    <3>3. \A mark \in DayMarks : mark \in DayMarks'
      BY <3>1 DEF DayMarks
    <3>4. Marked(fdmsCounters, DayMarks')
      BY <1>1, <3>3 DEF Marked
    <3>5. Marked(d, DayMarks')
      BY <3>2 DEF DayMarks, Marked
    <3> HIDE DEF d
    <3>6. Marked(Accumulate(fdmsCounters, d, FALSE), DayMarks')
      BY ONLY <1>1, <2>6, <3>4, <3>5, AccumulateMarked
    <3> QED
      BY <2>5, <3>6
  <2>12. Accounts(fdmsCounters)'
    BY <2>7, <2>8, <2>10, <2>11 DEF Accounts
  <2> QED
    BY <1>1, <2>1, <2>3, <2>9, <2>12 DEF CountingInv, CountersTypeOK, Balanced, Accounts, r
<1>3. CASE Upgrade \/ UNCHANGED dayVars
  <2>1. /\ sold' = sold /\ deviceCounters' = deviceCounters /\ fdmsCounters' = fdmsCounters
        /\ earlier' \in BOOLEAN
    BY <1>1, <1>3 DEF Upgrade, dayVars
  <2>2. DayMarks' = DayMarks /\ \A key : Adds(key)' = Adds(key)
    BY <2>1 DEF Adds, DayMarks
  <2> QED
    BY <1>1, <2>1, <2>2 DEF CountingInv, CountersTypeOK, Accounts
<1> QED
  BY <1>2, <1>3 DEF DayNext

\* What accumulateCounters() keeps on both sides, through an upgrade: merged by
\* mergeCurrencyCase(), the device's counters are FDMS's, in their order; sales
\* and balances agree; FDMS's counters account for the day.
THEOREM CountingInvariant == DaySpec => []CountingInv
<1>1. DayInit => CountingInv
  BY CountingInit
<1>2. SoldInv /\ SoldInv' /\ CountingInv /\ [DayNext]_dayVars => CountingInv'
  BY CountingNext
<1> QED
  BY <1>1, <1>2, SoldInvariant, PTL DEF DaySpec

\* Both sides hold counters, whatever is sold and whenever the device is
\* upgraded.
THEOREM CountersTypeCorrect == DaySpec => []CountersTypeOK
<1>1. CountingInv => CountersTypeOK
  BY DEF CountingInv
<1> QED
  BY <1>1, CountingInvariant, PTL

\* closeDay() signs what FDMS derives from its own counters, also on a day that
\* the earlier version began with a currency counted apart by its letter case.
THEOREM AlwaysSignedAsFdmsCounts == DaySpec => []SignedAsFdmsCounts
<1>1. CountingInv => SignedAsFdmsCounts
  BY DEF CountingInv, SignedAsFdmsCounts
<1> QED
  BY <1>1, CountingInvariant, PTL

\* In every currency the counters that accumulateCounters() keeps say that what
\* was sold, credits deducted, was paid.
THEOREM CountersAlwaysBalance == DaySpec => []CountersBalance
<1>1. ASSUME CountingInv
      PROVE  CountersBalance
  <2>1. deviceCounters \in Seq(Counter) /\ Balanced(deviceCounters)
    BY <1>1 DEF CountingInv, CountersTypeOK
  <2>2. \A rank : CounterTotal(deviceCounters, SaleTypes, rank)
                    = CounterTotal(deviceCounters, BalanceTypes, rank)
    BY <2>1, CounterTotalIs DEF Balanced
  <2> QED
    BY <2>2 DEF CountersBalance
<1> QED
  BY <1>1, CountingInvariant, PTL

\* A sale and the credit note for all of it leave no balance in any money,
\* whichever comes first.
THEOREM CreditsAlwaysCancel == DaySpec => []CreditsCancel
<1>1. ASSUME CountingInv
      PROVE  CreditsCancel
  <2>1. SUFFICES ASSUME Len(sold) = 2,
                        TakesBack(sold[2], sold[1]) \/ TakesBack(sold[1], sold[2]),
                        NEW i \in DOMAIN fdmsCounters,
                        fdmsCounters[i].type = "BalanceByMoneyType"
                 PROVE  fdmsCounters[i].value = 0
    BY DEF CreditsCancel
  <2> DEFINE key == Key(fdmsCounters[i])
             a == Adds(key)
             p == PartialSums(a)
  <2>2. fdmsCounters \in Seq(Counter) /\ sold \in Seq(SoldReceipt) /\ KeysDiffer(fdmsCounters)
        /\ Total(fdmsCounters, {key}) = SumOf(a)
    BY <1>1 DEF CountingInv, CountersTypeOK, Accounts
  <2>3. key[1] = "BalanceByMoneyType"
    BY <2>1 DEF Key
  <2>4. fdmsCounters[i].value = Total(fdmsCounters, {key})
    <3>1. i \in 1..Len(fdmsCounters)
      BY <2>1, <2>2
    <3> QED
      BY <2>2, <3>1, TotalOfOne
  <2> HIDE DEF key
  <2>5. sold[1] \in SoldReceipt /\ sold[2] \in SoldReceipt
    <3>1. \A k \in 1..Len(sold) : sold[k] \in SoldReceipt
      BY ONLY <2>2
    <3>2. 1 \in 1..Len(sold) /\ 2 \in 1..Len(sold)
      BY ONLY <2>1
    <3> QED
      BY ONLY <3>1, <3>2
  <2>6. /\ a \in Seq(Int) /\ Len(a) = 2 /\ a[1] = Total(Deltas(sold[1]), {key})
        /\ a[2] = Total(Deltas(sold[2]), {key})
    <3>1. /\ a \in Seq(Int) /\ Len(a) = 2
          /\ \A k \in 1..2 : a[k] = Total(Deltas(sold[k]), {key})
      BY ONLY <2>1, <2>2, AddsAre
    <3> HIDE DEF a
    <3> QED
      BY ONLY <3>1
  <2>7. a[1] \in Int /\ a[2] \in Int
    BY ONLY <2>5, <2>6, DeltasAre, WhereIs
  <2> HIDE DEF a
  <2>8. SumOf(a) = a[1] + a[2]
    <3>1. /\ p[0] = 0 /\ SumOf(a) = p[2] /\ \A k \in 1..2 : p[k] = p[k - 1] + a[k]
      BY <2>6, PartialSumsAre
    <3>2. p[1] = p[0] + a[1] /\ p[2] = p[1] + a[2]
      BY ONLY <3>1
    <3> QED
      BY ONLY <2>7, <3>1, <3>2
  <2>9. CASE TakesBack(sold[2], sold[1])
    <3>1. Total(Deltas(sold[2]), {key}) + Total(Deltas(sold[1]), {key}) = 0
      BY ONLY <2>3, <2>5, <2>9, CreditTakesBack
    <3> QED
      BY ONLY <2>2, <2>4, <2>6, <2>8, <2>7, <3>1
  <2>10. CASE TakesBack(sold[1], sold[2])
    <3>1. Total(Deltas(sold[1]), {key}) + Total(Deltas(sold[2]), {key}) = 0
      BY ONLY <2>3, <2>5, <2>10, CreditTakesBack
    <3> QED
      BY ONLY <2>2, <2>4, <2>6, <2>8, <2>7, <3>1
  <2> QED
    BY <2>1, <2>9, <2>10
<1> QED
  BY <1>1, CountingInvariant, PTL

-----------------------------------------------------------------------------
(* What is signed at the close, whatever the order of the receipts.        *)

LEMMA PlaceIs ==
  ASSUME NEW order, NEW i \in DOMAIN order
  PROVE  Place(order[i], order) \in DOMAIN order /\ order[Place(order[i], order)] = order[i]
  BY DEF Place

LEMMA SortKeyIs ==
  ASSUME NEW c \in Counter
  PROVE  /\ SortKey(c) \in [1..4 -> Int]
         /\ SortKey(c)[1] \in 1..7 /\ CounterTypes[SortKey(c)[1]] = c.type
         /\ SortKey(c)[2] = c.currency.rank
         /\ c.taxID # None => SortKey(c)[3] = c.taxID
         /\ c.moneyType # None =>
              SortKey(c)[4] \in 1..7 /\ MoneyTypeOrder[SortKey(c)[4]] = c.moneyType
         /\ c.moneyType = None => SortKey(c)[4] = 99
<1> DEFINE x == Place(c.type, CounterTypes)
           y == c.currency.rank
           z == IF c.taxID = None THEN -1 ELSE c.taxID
           w == IF c.moneyType = None THEN 99 ELSE Place(c.moneyType, MoneyTypeOrder)
<1>1. DOMAIN CounterTypes = 1..7 /\ DOMAIN MoneyTypeOrder = 1..7
  BY DEF CounterTypes, MoneyTypeOrder
<1>2. x \in 1..7 /\ CounterTypes[x] = c.type
  <2>1. PICK i \in DOMAIN CounterTypes : c.type = CounterTypes[i]
    BY DEF Counter, Range
  <2> QED
    BY <1>1, <2>1, PlaceIs
<1>3. y \in Int
  BY CounterIs
<1>4. z \in Int
  BY CounterIs
<1>5. ASSUME c.moneyType # None
      PROVE  w \in 1..7 /\ MoneyTypeOrder[w] = c.moneyType
  <2>1. c.moneyType \in MoneyTypes
    BY <1>5 DEF Counter
  <2>2. PICK i \in DOMAIN MoneyTypeOrder : c.moneyType = MoneyTypeOrder[i]
    BY <1>1, <2>1 DEF MoneyTypes, MoneyTypeOrder
  <2> QED
    BY <1>1, <1>5, <2>2, PlaceIs
<1>6. w \in Int
  BY <1>5
<1>7. SortKey(c) = <<x, y, z, w>>
  BY DEF SortKey
<1>8. (c.taxID # None => z = c.taxID) /\ (c.moneyType = None => w = 99)
  OBVIOUS
<1> HIDE DEF x, y, z, w
<1>9. x \in Int
  BY <1>2
<1>10. <<x, y, z, w>> \in [1..4 -> Int] /\ <<x, y, z, w>>[1] = x /\ <<x, y, z, w>>[2] = y
       /\ <<x, y, z, w>>[3] = z /\ <<x, y, z, w>>[4] = w
  BY ONLY <1>3, <1>4, <1>6, <1>9
<1> QED
  BY ONLY <1>2, <1>5, <1>7, <1>8, <1>10 DEF y

\* A counter of a tax has a tax ID and no money type, one of a balance a money
\* type and no tax ID.
Proper(c) ==
  \/ c.type \in TaxTypes /\ c.taxID \in Int /\ c.moneyType = None
  \/ c.type = "BalanceByMoneyType" /\ c.taxID = None

\* Counters of different keys are sorted apart.
LEMMA SortKeysDiffer ==
  ASSUME NEW a \in Counter, NEW b \in Counter, Proper(a), Proper(b), SortKey(a) = SortKey(b)
  PROVE  Key(a) = Key(b)
<1>1. a.type = b.type /\ a.currency.rank = b.currency.rank
  BY SortKeyIs
<1>2. a.moneyType = b.moneyType
  <2>1. ~(99 \in 1..7)
    OBVIOUS
  <2>2. a.moneyType = None <=> b.moneyType = None
    BY ONLY <2>1, SortKeyIs, a \in Counter, b \in Counter, SortKey(a) = SortKey(b)
  <2> QED
    BY <2>2, SortKeyIs
<1>3. a.taxID = b.taxID
  <2>1. "BalanceByMoneyType" \notin TaxTypes
    BY DEF TaxTypes
  <2>2. (a.taxID = None /\ b.taxID = None) \/ (a.taxID \in Int /\ b.taxID \in Int)
    BY <1>1, <2>1 DEF Proper
  <2>3. CASE a.taxID \in Int /\ b.taxID \in Int
    <3>1. a.taxID # None /\ b.taxID # None
      BY <2>3, NoneIsNoNumber
    <3> QED
      BY <3>1, SortKeyIs
  <2> QED
    BY <2>2, <2>3
<1> QED
  BY <1>1, <1>2, <1>3 DEF Key
\* The string signed of counters s lists the first K of order.
Signs(order, s, K) ==
  /\ Arranges(order, NonZero(s), K)
  /\ \A j, k \in 1..K : j < k => Precedes(SortKey(s[order[j]]), SortKey(s[order[k]]))
  /\ FiscalDaySigningString(s) = [k \in 1..K |-> SignedPart(s[order[k]])]

LEMMA SigningStringIs ==
  ASSUME NEW s \in Seq(Counter),
         \A i, j \in NonZero(s) : SortKey(s[i]) = SortKey(s[j]) => i = j
  PROVE  \E order : \E K \in Nat : Signs(order, s, K)
<1> DEFINE S == NonZero(s)
           keys == [i \in DOMAIN s |-> SortKey(s[i])]
           order == SortedBy(S, keys)
<1>1. DOMAIN s = 1..Len(s) /\ Len(s) \in Nat /\ \A i \in 1..Len(s) : s[i] \in Counter
  OBVIOUS
<1>2. S \in SUBSET (1..Len(s))
  BY <1>1 DEF NonZero
<1>3. \A i \in S : keys[i] = SortKey(s[i]) /\ keys[i] \in [1..4 -> Int]
  <2> TAKE i \in S
  <2>1. i \in 1..Len(s) /\ keys[i] = SortKey(s[i])
    BY <1>1, <1>2
  <2> QED
    BY <1>1, <2>1, SortKeyIs
<1>4. FiscalDaySigningString(s) = [k \in DOMAIN order |-> SignedPart(s[order[k]])]
  BY DEF FiscalDaySigningString
<1> HIDE DEF keys, S
<1>5. PICK K \in Nat : Arranges(order, S, K) /\ Ascends(order, keys, K)
  <2>1. 4 \in Nat
    OBVIOUS
  <2> QED
    BY ONLY <1>1, <1>2, <1>3, <2>1, SortedByIs
<1> HIDE DEF order
<1>6. DOMAIN order = 1..K
  BY <1>5 DEF Arranges
<1>7. ASSUME NEW j \in 1..K, NEW k \in 1..K, j < k
      PROVE  Precedes(SortKey(s[order[j]]), SortKey(s[order[k]]))
  <2>1. order[j] \in S /\ order[k] \in S /\ j # k
    BY <1>5, <1>7 DEF Arranges
  <2>2. order[j] # order[k]
    BY <1>5, <2>1 DEF Arranges
  <2>3. keys[order[j]] # keys[order[k]]
    BY <1>3, <2>1, <2>2 DEF S
  <2> QED
    BY <1>3, <1>5, <1>7, <2>1, <2>3 DEF Ascends
<1> QED
  BY <1>4, <1>5, <1>6, <1>7 DEF S, Signs

\* One of the counters t is sorted and signed like c.
SignedAmong(c, t) == \E j \in NonZero(t) : SortKey(t[j]) = SortKey(c) /\ SignedPart(t[j]) = SignedPart(c)

\* What is signed does not depend on the order in which counters were created.
LEMMA SameSigned ==
  ASSUME NEW s \in Seq(Counter), NEW t \in Seq(Counter),
         \A i, j \in NonZero(s) : SortKey(s[i]) = SortKey(s[j]) => i = j,
         \A i, j \in NonZero(t) : SortKey(t[i]) = SortKey(t[j]) => i = j,
         \A i \in NonZero(s) : SignedAmong(s[i], t),
         \A i \in NonZero(t) : SignedAmong(t[i], s)
  PROVE  FiscalDaySigningString(s) = FiscalDaySigningString(t)
<1>1. PICK order : \E p \in Nat : Signs(order, s, p)
  BY SigningStringIs
<1>2. PICK p \in Nat : Signs(order, s, p)
  BY <1>1
<1>3. PICK other : \E q \in Nat : Signs(other, t, q)
  BY SigningStringIs
<1>4. PICK q \in Nat : Signs(other, t, q)
  BY <1>3
<1> DEFINE a == [k \in 1..p |-> SortKey(s[order[k]])]
           b == [k \in 1..q |-> SortKey(t[other[k]])]
           X == {SortKey(s[i]) : i \in NonZero(s)}
<1>5. X = {SortKey(t[i]) : i \in NonZero(t)}
  BY DEF SignedAmong
<1>6. X \in SUBSET [1..4 -> Int]
  <2>1. \A i \in NonZero(s) : s[i] \in Counter
    BY DEF NonZero
  <2> QED
    BY <2>1, SortKeyIs
<1>7. \A k \in 1..p : a[k] \in X
  BY <1>2 DEF Arranges, Signs
<1>8. \A k \in 1..q : b[k] \in X
  BY <1>4, <1>5 DEF Arranges, Signs
<1>9. \A x \in X : (\E k \in 1..p : a[k] = x) /\ (\E k \in 1..q : b[k] = x)
  <2> TAKE x \in X
  <2>1. \E k \in 1..p : a[k] = x
    BY <1>2 DEF Arranges, Signs
  <2>2. PICK i \in NonZero(t) : x = SortKey(t[i])
    BY <1>5
  <2>3. \E k \in 1..q : b[k] = x
    BY <1>4, <2>2 DEF Arranges, Signs
  <2> QED
    BY <2>1, <2>3
<1>10. /\ \A j, k \in 1..p : j < k => Precedes(a[j], a[k])
      /\ \A j, k \in 1..q : j < k => Precedes(b[j], b[k])
  BY <1>2, <1>4 DEF Signs
<1>11. \A k \in 1..p : a[k] = SortKey(s[order[k]])
  OBVIOUS
<1>12. \A k \in 1..q : b[k] = SortKey(t[other[k]])
  OBVIOUS
<1> HIDE DEF a, b, X
<1>0. Enumerates(a, p, X) /\ Enumerates(b, q, X)
  BY <1>7, <1>8, <1>9, <1>10 DEF Enumerates
<1>13. p = q /\ \A k \in 1..p : a[k] = b[k]
  <2>1. PICK m \in Nat : m = 4
    OBVIOUS
  <2>2. X \in SUBSET [1..m -> Int]
    BY <1>6, <2>1
  <2>3. PICK x, y, Z : x = a /\ y = b /\ Z = X
    OBVIOUS
  <2>4. Enumerates(x, p, Z) /\ Enumerates(y, q, Z) /\ Z \in SUBSET [1..m -> Int]
    BY ONLY <1>0, <2>2, <2>3
  <2>5. p = q /\ \A k \in 1..p : x[k] = y[k]
    BY ONLY <2>4, m \in Nat, p \in Nat, q \in Nat, OneOrder
  <2> QED
    BY ONLY <2>3, <2>5
<1>14. ASSUME NEW k \in 1..p
       PROVE  SignedPart(s[order[k]]) = SignedPart(t[other[k]])
  <2>1. order[k] \in NonZero(s) /\ other[k] \in NonZero(t)
    BY <1>2, <1>4, <1>13 DEF Arranges, Signs
  <2>2. PICK j \in NonZero(t) :
          SortKey(t[j]) = SortKey(s[order[k]]) /\ SignedPart(t[j]) = SignedPart(s[order[k]])
    BY <2>1 DEF SignedAmong
  <2>3. SortKey(t[j]) = SortKey(t[other[k]])
    BY <1>11, <1>12, <1>13, <2>2
  <2>4. j = other[k]
    BY <2>1, <2>3
  <2> QED
    BY <2>2, <2>4
<1> QED
  BY <1>2, <1>4, <1>13, <1>14 DEF Signs
\* A delta is a sale, a tax or a payment of its receipt.
LEMMA DeltaIs ==
  ASSUME NEW r \in SoldReceipt, NEW i \in 1..Len(Deltas(r))
  PROVE  LET d == Deltas(r)[i]
         IN  /\ d \in Counter /\ Proper(d)
             /\ \/ /\ d.type \in TaxTypes
                   /\ \E k \in 1..Len(r.taxes) : d.taxID = r.taxes[k].taxID
                                                 /\ d.taxPercent = r.taxes[k].taxPercent
                \/ d.type = "BalanceByMoneyType" /\ d.taxPercent = None
<1> DEFINE d == Deltas(r)[i]
           a == TaxDeltas(r)
           b == MoneyDeltas(r)
<1>1. PICK K, P \in Nat : K = Len(r.taxes) /\ P = Len(r.payments)
  BY DEF SoldReceipt
<1>2. /\ Deltas(r) = a \o b /\ a \in Seq(Counter) /\ Len(a) = 2 * K
      /\ b \in Seq(Counter) /\ Len(b) = P
      /\ \A k \in 1..K :
           /\ a[2 * k - 1] = TaxCounter(ByTaxType(r), r, r.taxes[k], r.taxes[k].salesAmountWithTax)
           /\ a[2 * k] = TaxCounter(TaxByTaxType(r), r, r.taxes[k], r.taxes[k].taxAmount)
      /\ \A k \in 1..P : b[k] = MoneyCounter(r, r.payments[k])
      /\ Deltas(r) \in Seq(Counter)
  BY <1>1, DeltasAre
<1>3. d \in Counter
  BY <1>2
<1> HIDE DEF a, b
<1>4. i \in 1..(2 * K + P) /\ d = IF i <= 2 * K THEN a[i] ELSE b[i - 2 * K]
  <2>1. PICK m \in Nat : m = 2 * K
    OBVIOUS
  <2>2. PICK e : e = Deltas(r)
    OBVIOUS
  <2>3. e = a \o b /\ Len(a) = m
    BY <1>2, <2>1, <2>2
  <2>4. Joins(e, a, m, b, P)
    BY ONLY <1>2, <2>3, JoinedIs, m \in Nat, P \in Nat
  <2> QED
    BY <2>1, <2>2, <2>4 DEF Joins
<1>5. /\ r.receiptType \in ReceiptTypes /\ r.taxes \in Seq(ReceiptTax)
      /\ r.payments \in Seq(Payment)
  BY DEF SoldReceipt
<1>6. ByTaxType(r) \in TaxTypes /\ TaxByTaxType(r) \in TaxTypes
  BY <1>5 DEF ByTaxType, TaxByTaxType, ReceiptTypes, TaxTypes
<1> HIDE DEF d
<1>7. CASE i <= 2 * K
  <2>1. PICK k \in 1..K : i = 2 * k - 1 \/ i = 2 * k
    <3>1. (i + 1) \div 2 \in 1..K
          /\ (i = 2 * ((i + 1) \div 2) - 1 \/ i = 2 * ((i + 1) \div 2))
      BY <1>4, <1>7
    <3> QED
      BY <3>1
  <2> DEFINE t == r.taxes[k]
  <2>2. t \in ReceiptTax
    BY <1>1, <1>5
  <2>3. t.taxID \in Int
    BY <2>2 DEF ReceiptTax
  <2> HIDE DEF t
  <2>4. PICK type \in TaxTypes : \E amount : d = TaxCounter(type, r, t, amount)
    <3>1. CASE i = 2 * k - 1
      <4>1. d = TaxCounter(ByTaxType(r), r, t, t.salesAmountWithTax)
        BY <1>2, <1>4, <1>7, <3>1 DEF t
      <4> QED
        BY <1>6, <4>1
    <3>2. CASE i = 2 * k
      <4>1. d = TaxCounter(TaxByTaxType(r), r, t, t.taxAmount)
        BY <1>2, <1>4, <1>7, <3>2 DEF t
      <4> QED
        BY <1>6, <4>1
    <3> QED
      BY <2>1, <3>1, <3>2
  <2>5. d.type = type /\ d.taxID = t.taxID /\ d.taxPercent = t.taxPercent /\ d.moneyType = None
    BY <2>4 DEF TaxCounter
  <2> QED
    BY <1>1, <1>3, <2>3, <2>5 DEF Proper, d, t
<1>8. CASE ~(i <= 2 * K)
  <2>1. i - 2 * K \in 1..P
    BY <1>4, <1>8
  <2>2. d = MoneyCounter(r, r.payments[i - 2 * K])
    BY <1>2, <1>4, <1>8, <2>1
  <2>3. d.type = "BalanceByMoneyType" /\ d.taxID = None /\ d.taxPercent = None
    BY <2>2 DEF MoneyCounter
  <2> QED
    BY <1>3, <2>3 DEF Proper, d
<1> QED
  BY <1>7, <1>8
\* g counts the day's receipts one by one, in this order.
Counts(order, g) ==
  /\ g \in [0..Len(sold) -> Seq(Counter)] /\ g[0] = <<>>
  /\ \A i \in 1..Len(sold) : g[i] = AccumulateCounters(g[i - 1], sold[order[i]])

LEMMA CountedIs ==
  ASSUME sold \in Seq(SoldReceipt), NEW order \in [1..Len(sold) -> 1..Len(sold)]
  PROVE  \E g : Counts(order, g) /\ CountedIn(order) = g[Len(sold)]
<1> DEFINE C == Seq(Counter)
           n == Len(sold)
           e == <<>>
           step == [p \in C \X (1..n) |-> AccumulateCounters(p[1], sold[order[p[2]]])]
           F(f) == [i \in 0..n |-> IF i = 0 THEN e ELSE AccumulateCounters(f[i - 1], sold[order[i]])]
           a == CHOOSE f : f = F(f)
<1>1. n \in Nat /\ e \in C /\ \A i \in 1..n : sold[order[i]] \in SoldReceipt
  OBVIOUS
<1>2. \A s \in C : \A i \in 1..n : AccumulateCounters(s, sold[order[i]]) \in C
  BY <1>1, AccumulateCountersType
<1>3. CountedIn(order) = a[n]
  BY DEF CountedIn
<1> HIDE DEF C, n, e
<1>4. step \in [C \X (1..n) -> C]
  BY <1>2
<1>5. \A s \in C : \A i \in 1..n : step[<<s, i>>] = AccumulateCounters(s, sold[order[i]])
  OBVIOUS
<1> HIDE DEF step
<1>6. PICK g : Follows(g, C, e, n, step)
  BY ONLY <1>1, <1>4, Recursion
<1>7. /\ g \in [0..n -> C] /\ g[0] = e
      /\ \A i \in 1..n : g[i] = AccumulateCounters(g[i - 1], sold[order[i]])
  <2>1. g \in [0..n -> C] /\ g[0] = e /\ \A i \in 1..n : g[i] = step[<<g[i - 1], i>>]
    BY <1>6 DEF Follows
  <2>2. \A i \in 1..n : g[i - 1] \in C
    BY <1>1, <2>1
  <2> QED
    BY <1>5, <2>1, <2>2
<1>8. g = F(g)
  <2>1. \A i \in 0..n : g[i] = IF i = 0 THEN e ELSE AccumulateCounters(g[i - 1], sold[order[i]])
    BY <1>7
  <2> QED
    BY <1>7, <2>1
<1>9. a = F(a)
  <2> HIDE DEF F
  <2> QED
    BY <1>8
<1>10. \A i \in 0..n : a[i] = IF i = 0 THEN e ELSE AccumulateCounters(a[i - 1], sold[order[i]])
  <2> HIDE DEF a
  <2> QED
    BY <1>9
<1> HIDE DEF a
<1> DEFINE T == {k \in Nat : k <= n => a[k] = g[k]}
<1>11. 0 \in T
  BY <1>1, <1>7, <1>10
<1>12. ASSUME NEW k \in Nat, k \in T
       PROVE  k + 1 \in T
  <2>1. SUFFICES ASSUME k + 1 <= n
                 PROVE  a[k + 1] = g[k + 1]
    BY <1>12
  <2>2. a[k] = g[k] /\ k + 1 \in 0..n /\ k + 1 \in 1..n /\ k + 1 # 0 /\ (k + 1) - 1 = k
    BY <1>1, <1>12, <2>1
  <2> QED
    BY <1>7, <1>10, <2>2
<1>13. a[n] = g[n]
  <2> HIDE DEF T
  <2>1. n \in T
    BY <1>1, <1>11, <1>12, Induction
  <2> QED
    BY <1>1, <2>1 DEF T
<1>14. Counts(order, g)
  BY <1>7 DEF Counts, n, C, e
<1> QED
  BY <1>3, <1>13, <1>14 DEF n

\* In whatever order the day's receipts are counted, they are accounted for.
LEMMA CountedAccounts ==
  ASSUME sold \in Seq(SoldReceipt), NEW order \in Bijection(1..Len(sold), 1..Len(sold))
  PROVE  Accounts(CountedIn(order))
<1> DEFINE n == Len(sold)
           e == <<>>
<1>1. order \in [1..n -> 1..n]
  BY DEF Bijection, Injection
<1>2. PICK g : Counts(order, g) /\ CountedIn(order) = g[n]
  BY <1>1, CountedIs
<1>3. /\ n \in Nat /\ g \in [0..n -> Seq(Counter)] /\ g[0] = e
      /\ \A i \in 1..n : g[i] = AccumulateCounters(g[i - 1], sold[order[i]])
  BY <1>2 DEF Counts
<1>4. \A i \in 1..n : sold[order[i]] \in SoldReceipt /\ order[i] \in 1..Len(sold)
  BY <1>1
<1>5. KeysDiffer(e) /\ Marked(e, DayMarks) /\ \A Keys : Total(e, Keys) = 0
  BY NothingIsMarked
<1> HIDE DEF n, e
<1>6. \A i \in 0..n : g[i] \in Seq(Counter)
  BY <1>3
<1> DEFINE T == {k \in Nat : k <= n => KeysDiffer(g[k]) /\ Marked(g[k], DayMarks)}
<1>7. 0 \in T
  BY <1>3, <1>5
<1>8. ASSUME NEW k \in Nat, k \in T
      PROVE  k + 1 \in T
  <2>1. SUFFICES ASSUME k + 1 <= n
                 PROVE  KeysDiffer(g[k + 1]) /\ Marked(g[k + 1], DayMarks)
    BY <1>8
  <2>2. k \in 0..n /\ k + 1 \in 1..n /\ (k + 1) - 1 = k
        /\ KeysDiffer(g[k]) /\ Marked(g[k], DayMarks)
    BY <1>3, <1>8, <2>1
  <2>3. g[k] \in Seq(Counter) /\ order[k + 1] \in 1..Len(sold)
        /\ g[k + 1] = AccumulateCounters(g[k], sold[order[k + 1]])
    BY ONLY <1>3, <1>4, <1>6, <2>2
  <2> QED
    BY <2>2, <2>3, CountedMarked
<1>9. KeysDiffer(g[n]) /\ Marked(g[n], DayMarks)
  <2> HIDE DEF T
  <2>1. n \in T
    BY <1>3, <1>7, <1>8, Induction
  <2> QED
    BY <1>3, <2>1 DEF T
<1>10. ASSUME NEW key
       PROVE  Total(g[n], {key}) = SumOf(Adds(key))
  <2> DEFINE b == Adds(key)
             h == [i \in 0..n |-> Total(g[i], {key})]
             w == [i \in 1..n |-> b[order[i]]]
  <2>1. b \in Seq(Int) /\ Len(b) = n /\ \A i \in 1..n : b[i] = Total(Deltas(sold[i]), {key})
    BY AddsAre DEF n
  <2> HIDE DEF b
  <2>2. \A i \in 1..n : b[order[i]] = Total(Deltas(sold[order[i]]), {key}) /\ b[order[i]] \in Int
    <3>1. \A i \in 1..n : b[i] \in Int
      BY <2>1
    <3>2. \A i \in 1..n : order[i] \in 1..n
      BY <1>1 DEF n
    <3> QED
      BY ONLY <2>1, <3>1, <3>2
  <2>3. w \in Seq(Int) /\ Len(w) = n /\ \A i \in 1..n : w[i] = b[order[i]]
    <3>1. w \in [1..n -> Int] /\ \A i \in 1..n : w[i] = b[order[i]]
      BY <2>2
    <3> HIDE DEF w
    <3> QED
      BY <1>3, <3>1, FunctionIsSeq
  <2> HIDE DEF w
  <2>4. h[0] = 0
    BY <1>3, <1>5
  <2>5. ASSUME NEW i \in 1..n
        PROVE  h[i] = h[i - 1] + w[i]
    <3>1. i \in 0..n /\ i - 1 \in 0..n
      BY <1>3
    <3>2. g[i - 1] \in Seq(Counter) /\ sold[order[i]] \in SoldReceipt
      BY <1>4, <1>6, <3>1
    <3>3. Total(AccumulateCounters(g[i - 1], sold[order[i]]), {key})
            = Total(g[i - 1], {key}) + Total(Deltas(sold[order[i]]), {key})
      BY ONLY <3>2, AccumulateCountersType
    <3> QED
      BY <1>3, <2>2, <2>3, <3>1, <3>3
  <2>6. h[n] = Total(g[n], {key})
    BY <1>3
  <2> HIDE DEF h
  <2>7. SumOf(w) = h[n]
    BY <2>3, <2>4, <2>5, SumIs
  <2>8. SumOf(w) = SumOf(b)
    BY <1>3, <2>1, <2>3, PermutedSum DEF n
  <2> QED
    BY <2>6, <2>7, <2>8 DEF b
<1>11. g[n] \in Seq(Counter)
  BY <1>3, <1>6
<1> QED
  BY <1>2, <1>9, <1>10, <1>11 DEF Accounts

\* What the counters of a day say of a tax, its receipts say.
LEMMA DayMarkIs ==
  ASSUME sold \in Seq(SoldReceipt), NEW c \in Counter, Mark(c) \in DayMarks
  PROVE  /\ Proper(c)
         /\ \/ /\ c.type \in TaxTypes
               /\ \E k \in DOMAIN sold : \E m \in DOMAIN sold[k].taxes :
                    c.taxID = sold[k].taxes[m].taxID /\ c.taxPercent = sold[k].taxes[m].taxPercent
            \/ c.type = "BalanceByMoneyType" /\ c.taxPercent = None
<1>1. PICK k \in DOMAIN sold : \E i \in 1..Len(Deltas(sold[k])) : Mark(c) = Mark(Deltas(sold[k])[i])
  BY DEF DayMarks
<1>2. PICK i \in 1..Len(Deltas(sold[k])) : Mark(c) = Mark(Deltas(sold[k])[i])
  BY <1>1
<1> DEFINE d == Deltas(sold[k])[i]
<1>3. c.type = d.type /\ c.taxID = d.taxID /\ c.moneyType = d.moneyType /\ c.taxPercent = d.taxPercent
  BY <1>2 DEF Mark, Key
<1>4. sold[k] \in SoldReceipt
  OBVIOUS
<1>5. /\ Proper(d)
      /\ \/ /\ d.type \in TaxTypes
            /\ \E m \in 1..Len(sold[k].taxes) :
                 d.taxID = sold[k].taxes[m].taxID /\ d.taxPercent = sold[k].taxes[m].taxPercent
         \/ d.type = "BalanceByMoneyType" /\ d.taxPercent = None
  BY <1>4, DeltaIs
<1> HIDE DEF d
<1>6. DOMAIN sold[k].taxes = 1..Len(sold[k].taxes)
  BY <1>4 DEF SoldReceipt
<1> QED
  BY <1>3, <1>5, <1>6 DEF Proper

\* Counters that account for the day are sorted apart.
LEMMA AccountsSorted ==
  ASSUME sold \in Seq(SoldReceipt), NEW s, Accounts(s),
         NEW i \in NonZero(s), NEW j \in NonZero(s), SortKey(s[i]) = SortKey(s[j])
  PROVE  i = j
<1>1. /\ s \in Seq(Counter) /\ i \in 1..Len(s) /\ j \in 1..Len(s)
      /\ KeysDiffer(s) /\ Marked(s, DayMarks)
  BY DEF Accounts, NonZero
<1>2. s[i] \in Counter /\ s[j] \in Counter /\ Mark(s[i]) \in DayMarks /\ Mark(s[j]) \in DayMarks
  BY <1>1 DEF Marked
<1>3. Proper(s[i]) /\ Proper(s[j])
  BY <1>2, DayMarkIs
<1>4. Key(s[i]) = Key(s[j])
  BY <1>2, <1>3, SortKeysDiffer
<1> QED
  BY <1>1, <1>4 DEF KeysDiffer

\* The counters of one key that account for the day are signed alike.
LEMMA AccountsSigned ==
  ASSUME sold \in Seq(SoldReceipt), OnePercentPerTax,
         NEW s, NEW t, Accounts(s), Accounts(t), NEW i \in NonZero(s)
  PROVE  SignedAmong(s[i], t)
<1>1. /\ s \in Seq(Counter) /\ t \in Seq(Counter) /\ KeysDiffer(s) /\ KeysDiffer(t)
      /\ Marked(s, DayMarks) /\ Marked(t, DayMarks)
      /\ \A key : Total(s, {key}) = Total(t, {key})
  BY DEF Accounts
<1>2. i \in 1..Len(s) /\ s[i].value # 0
  BY <1>1 DEF NonZero
<1> DEFINE key == Key(s[i])
<1>3. Total(t, {key}) = s[i].value
  <2>1. Total(s, {key}) = s[i].value
    BY <1>1, <1>2, TotalOfOne
  <2> QED
    BY <1>1, <2>1
<1>4. PICK j \in 1..Len(t) : Key(t[j]) = key
  <2>1. SUFFICES ASSUME \A j \in 1..Len(t) : Key(t[j]) # key
                 PROVE  FALSE
    OBVIOUS
  <2> DEFINE w == Where(t, {key})
  <2>2. w \in Seq(Int) /\ \A j \in 1..Len(w) : w[j] = 0
    <3> HIDE DEF key
    <3> QED
      BY <1>1, <2>1, WhereIs
  <2> HIDE DEF w
  <2>3. SumOf(w) = 0
    BY <2>2, SumZero
  <2> QED
    BY <1>2, <1>3, <2>3 DEF Total, w
<1>5. t[j].value = s[i].value
  <2>1. Total(t, {Key(t[j])}) = t[j].value
    BY <1>1, TotalOfOne
  <2> QED
    BY <1>3, <1>4, <2>1
<1>6. PICK a, b \in Counter : a = s[i] /\ b = t[j]
  BY <1>1, <1>2
<1>7. Mark(a) \in DayMarks /\ Mark(b) \in DayMarks
  BY <1>1, <1>2, <1>6 DEF Marked
<1>8. /\ a.type = b.type /\ a.currency.rank = b.currency.rank /\ a.taxID = b.taxID
      /\ a.moneyType = b.moneyType /\ a.value = b.value
  BY <1>4, <1>5, <1>6 DEF Key
<1>9. a.taxPercent = b.taxPercent
  <2>1. "BalanceByMoneyType" \notin TaxTypes
    BY DEF TaxTypes
  <2>2. CASE a.type \in TaxTypes
    <3>1. PICK k \in DOMAIN sold : \E m \in DOMAIN sold[k].taxes :
            a.taxID = sold[k].taxes[m].taxID /\ a.taxPercent = sold[k].taxes[m].taxPercent
      BY <1>7, <2>1, <2>2, DayMarkIs
    <3>2. PICK l \in DOMAIN sold : \E m \in DOMAIN sold[l].taxes :
            b.taxID = sold[l].taxes[m].taxID /\ b.taxPercent = sold[l].taxes[m].taxPercent
      BY <1>7, <1>8, <2>1, <2>2, DayMarkIs
    <3> QED
      BY <1>8, <3>1, <3>2 DEF OnePercentPerTax
  <2>3. CASE a.type \notin TaxTypes
    BY <1>7, <1>8, <2>3, DayMarkIs
  <2> QED
    BY <2>2, <2>3
<1>10. Upper(a.currency) = Upper(b.currency)
  BY <1>8, CounterIs DEF Upper, Currency
<1>11. SortKey(a) = SortKey(b)
  BY <1>8 DEF SortKey
<1>12. SignedPart(a) = SignedPart(b)
  BY <1>8, <1>9, <1>10 DEF SignedPart
<1>13. j \in NonZero(t)
  BY <1>1, <1>2, <1>5 DEF NonZero
<1> QED
  BY <1>6, <1>11, <1>12, <1>13 DEF SignedAmong

\* Whatever counters account for the day, one string is signed of them.
LEMMA AccountsAgree ==
  ASSUME sold \in Seq(SoldReceipt), OnePercentPerTax, NEW s, NEW t, Accounts(s), Accounts(t)
  PROVE  FiscalDaySigningString(s) = FiscalDaySigningString(t)
<1>1. s \in Seq(Counter) /\ t \in Seq(Counter)
  BY DEF Accounts
<1>2. /\ \A i, j \in NonZero(s) : SortKey(s[i]) = SortKey(s[j]) => i = j
      /\ \A i, j \in NonZero(t) : SortKey(t[i]) = SortKey(t[j]) => i = j
  BY AccountsSorted
<1>3. (\A i \in NonZero(s) : SignedAmong(s[i], t)) /\ \A i \in NonZero(t) : SignedAmong(t[i], s)
  BY AccountsSigned
<1> QED
  BY <1>1, <1>2, <1>3, SameSigned

LEMMA OrderIrrelevant ==
  ASSUME sold \in Seq(SoldReceipt), MergeCurrencyCase(deviceCounters) = fdmsCounters, Accounts(fdmsCounters)
  PROVE  OrderDoesNotMatter
<1>1. SUFFICES ASSUME OnePercentPerTax, NEW order \in Bijection(DOMAIN sold, DOMAIN sold)
               PROVE  FiscalDaySigningString(CountedIn(order)) = FiscalDaySigningString(fdmsCounters)
  BY DEF OrderDoesNotMatter
<1>2. order \in Bijection(1..Len(sold), 1..Len(sold))
  BY <1>1
<1>3. Accounts(CountedIn(order))
  BY <1>2, CountedAccounts
<1> QED
  BY <1>1, <1>3, AccountsAgree
\* What closeDay() signs does not depend on the order in which the day's
\* receipts were counted, as long as a tax ID has one percent.
THEOREM OrderNeverMatters == DaySpec => []OrderDoesNotMatter
<1>1. CountingInv => OrderDoesNotMatter
  BY OrderIrrelevant DEF CountingInv, CountersTypeOK
<1> QED
  BY <1>1, CountingInvariant, PTL

=============================================================================
