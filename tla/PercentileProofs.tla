--------------------------- MODULE PercentileProofs ---------------------------
(***************************************************************************)
(* The budgets of repeat, for any number of runs: the nearest-rank p95 is  *)
(* within the limit exactly if at least 95% of the runs are.  It needs     *)
(* that sorting is possible, which is an induction over the length: the    *)
(* least length at which it failed would be one more than a length at      *)
(* which it succeeds.                                                      *)
(***************************************************************************)
EXTENDS Batch, FiniteSetTheorems, WellFoundedInduction, TLAPS

Less == {p \in Nat \X Nat : p[1] < p[2]}

\* A set of numbers that is not empty has a least one.
LEMMA LeastExists ==
    ASSUME NEW S \in SUBSET Nat, S # {}
    PROVE  \E m \in S : \A n \in S : m <= n
<1>1. IsWellFoundedOn(Less, Nat)
  BY NatLessThanWellFounded DEF OpToRel, Less
<1>2. PICK m \in S : \A n \in S : <<n, m>> \notin Less
  BY <1>1, WFMin
<1>3. ASSUME NEW n \in S PROVE m <= n
  <2>1. n < m => <<n, m>> \in Less
    BY DEF Less
  <2>2. QED BY <1>2, <2>1
<1>4. QED BY <1>3

------------------------------------------------------------------------------
\* Sorting

\* p puts the n values of f in order.
Sorts(p, f, n) ==
    /\ p \in [1..n -> 1..n]
    /\ \A i, j \in 1..n : p[i] = p[j] => i = j
    /\ \A k \in 1..n : \E i \in 1..n : p[i] = k
    /\ \A i, j \in 1..n : i < j => f[p[i]] <= f[p[j]]

Sortable(n) == \A f \in [1..n -> Nat] : \E p : Sorts(p, f, n)

\* The last value is inserted before the first one that is greater.
LEMMA Insertion ==
    ASSUME NEW n \in Nat, Sortable(n), NEW f \in [1..n + 1 -> Nat]
    PROVE  \E q : Sorts(q, f, n + 1)
<1> DEFINE g == [i \in 1..n |-> f[i]]
<1>1. PICK p : Sorts(p, g, n)
  <2>1. g \in [1..n -> Nat]
    OBVIOUS
  <2>2. QED BY <2>1 DEF Sortable
<1>2. /\ p \in [1..n -> 1..n]
      /\ \A i, j \in 1..n : p[i] = p[j] => i = j
      /\ \A l \in 1..n : \E i \in 1..n : p[i] = l
  BY <1>1 DEF Sorts
<1> DEFINE v == [i \in 1..n |-> f[p[i]]]
<1>3. v \in [1..n -> Nat] /\ f[n + 1] \in Nat
  <2>1. ASSUME NEW i \in 1..n PROVE f[p[i]] \in Nat
    <3>1. p[i] \in 1..n
      BY <1>2
    <3>2. p[i] \in 1..n + 1
      BY <3>1
    <3>3. QED BY <3>2
  <2>2. QED BY <2>1
<1>4. \A i, j \in 1..n : i < j => v[i] <= v[j]
  <2>1. \A i, j \in 1..n : i < j => g[p[i]] <= g[p[j]]
    BY <1>1 DEF Sorts
  <2>2. \A i \in 1..n : g[p[i]] = v[i]
    BY <1>2
  <2>3. QED BY <2>1, <2>2
<1>5. /\ \A i \in 1..n : v[i] = f[p[i]]
      /\ DOMAIN v = 1..n
  OBVIOUS
<1> HIDE DEF g, v
<1> DEFINE Greater == {l \in 1..n + 1 : l = n + 1 \/ v[l] > f[n + 1]}
<1>6. PICK k \in Greater : \A l \in Greater : k <= l
  <2>1. Greater \in SUBSET Nat /\ n + 1 \in Greater
    OBVIOUS
  <2>2. QED BY <2>1, LeastExists
<1>7. /\ k \in 1..n + 1
      /\ \A i \in 1..n : i < k => v[i] <= f[n + 1]
      /\ \A i \in 1..n : i >= k => v[i] > f[n + 1]
  <2>1. k \in 1..n + 1
    BY <1>6
  <2>2. ASSUME NEW i \in 1..n, i < k PROVE v[i] <= f[n + 1]
    <3>1. i \notin Greater
      BY <1>6, <2>1, <2>2
    <3>2. QED BY <1>3, <3>1
  <2>3. ASSUME NEW i \in 1..n, i >= k PROVE v[i] > f[n + 1]
    <3>1. k \in 1..n /\ v[k] > f[n + 1]
      BY <1>6, <2>1, <2>3
    <3>2. QED BY <1>3, <1>4, <2>3, <3>1
  <2>4. QED BY <2>1, <2>2, <2>3
<1> HIDE DEF Greater
<1> DEFINE q == [i \in 1..n + 1 |->
                    IF i < k THEN p[i] ELSE IF i = k THEN n + 1 ELSE p[i - 1]]
<1> DEFINE Slot(i) == IF i < k THEN i ELSE i + 1
<1>8. DOMAIN q = 1..n + 1 /\ q[k] = n + 1
  BY <1>7
<1>9. ASSUME NEW i \in 1..n
      PROVE  /\ Slot(i) \in 1..n + 1 /\ Slot(i) # k
             /\ q[Slot(i)] = p[i] /\ p[i] \in 1..n
             /\ Slot(i) < k => i < k
             /\ Slot(i) > k => i >= k
  <2>1. p[i] \in 1..n
    BY <1>2
  <2>2. CASE i < k
    BY <1>7, <2>1, <2>2
  <2>3. CASE i >= k
    <3>1. Slot(i) = i + 1 /\ i + 1 \in 1..n + 1 /\ ~(i + 1 < k) /\ i + 1 # k
      BY <1>7, <2>3
    <3>2. (i + 1) - 1 = i
      OBVIOUS
    <3>3. q[i + 1] = p[i]
      BY <3>1, <3>2
    <3>4. QED BY <1>7, <2>1, <2>3, <3>1, <3>3
  <2>4. QED BY <1>7, <2>2, <2>3
<1>10. ASSUME NEW j \in 1..n + 1, j # k PROVE \E i \in 1..n : j = Slot(i)
  <2>1. CASE j < k
    <3>1. j \in 1..n /\ Slot(j) = j
      BY <1>7, <2>1
    <3>2. QED BY <3>1
  <2>2. CASE j > k
    <3>1. j - 1 \in 1..n /\ ~(j - 1 < k) /\ j = (j - 1) + 1
      BY <1>7, <2>2
    <3>2. QED BY <3>1
  <2>3. QED BY <1>7, <1>10, <2>1, <2>2
<1>11. ASSUME NEW i \in 1..n, NEW j \in 1..n, Slot(i) < Slot(j) PROVE i < j
  BY <1>7, <1>11
<1> HIDE DEF q, Slot
<1>12. q \in [1..n + 1 -> 1..n + 1]
  <2>1. ASSUME NEW j \in 1..n + 1 PROVE q[j] \in 1..n + 1
    <3>1. CASE j = k
      BY <1>8, <3>1
    <3>2. CASE j # k
      <4>1. PICK i \in 1..n : j = Slot(i)
        BY <1>10, <3>2
      <4>2. q[j] = p[i] /\ p[i] \in 1..n
        BY <1>9, <4>1
      <4>3. QED BY <4>2
    <3>3. QED BY <3>1, <3>2
  <2>2. q = [j \in 1..n + 1 |-> q[j]]
    BY DEF q
  <2>3. QED BY <2>1, <2>2
<1>13. ASSUME NEW i \in 1..n + 1, NEW j \in 1..n + 1, q[i] = q[j] PROVE i = j
  <2>1. CASE i = k
    <3>1. SUFFICES ASSUME j # k PROVE FALSE
      BY <2>1
    <3>2. PICK b \in 1..n : j = Slot(b)
      BY <1>10, <3>1
    <3>3. q[j] = p[b] /\ p[b] \in 1..n
      BY <1>9, <3>2
    <3>4. n + 1 \in 1..n
      BY <1>8, <1>13, <2>1, <3>3
    <3>5. QED BY <3>4
  <2>2. CASE j = k
    <3>1. SUFFICES ASSUME i # k PROVE FALSE
      BY <2>2
    <3>2. PICK a \in 1..n : i = Slot(a)
      BY <1>10, <3>1
    <3>3. q[i] = p[a] /\ p[a] \in 1..n
      BY <1>9, <3>2
    <3>4. n + 1 \in 1..n
      BY <1>8, <1>13, <2>2, <3>3
    <3>5. QED BY <3>4
  <2>3. CASE i # k /\ j # k
    <3>1. PICK a \in 1..n : i = Slot(a)
      BY <1>10, <2>3
    <3>2. PICK b \in 1..n : j = Slot(b)
      BY <1>10, <2>3
    <3>3. p[a] = p[b]
      BY <1>9, <1>13, <3>1, <3>2
    <3>4. QED BY <1>2, <3>1, <3>2, <3>3
  <2>4. QED BY <2>1, <2>2, <2>3
<1>14. ASSUME NEW l \in 1..n + 1 PROVE \E i \in 1..n + 1 : q[i] = l
  <2>1. CASE l = n + 1
    BY <1>7, <1>8, <2>1
  <2>2. CASE l # n + 1
    <3>1. PICK i \in 1..n : p[i] = l
      BY <1>2, <2>2
    <3>2. QED BY <1>9, <3>1
  <2>3. QED BY <2>1, <2>2
<1>15. ASSUME NEW i \in 1..n + 1, NEW j \in 1..n + 1, i < j
       PROVE  f[q[i]] <= f[q[j]]
  <2>1. ASSUME NEW l \in 1..n PROVE f[q[Slot(l)]] = v[l] /\ v[l] \in Nat
    BY <1>3, <1>5, <1>9
  <2>2. f[q[k]] = f[n + 1]
    BY <1>8
  <2>3. CASE i = k
    <3>1. PICK b \in 1..n : j = Slot(b)
      BY <1>10, <1>15, <2>3
    <3>2. f[n + 1] < v[b]
      BY <1>3, <1>7, <1>9, <1>15, <2>3, <3>1
    <3>3. QED BY <1>3, <2>1, <2>2, <2>3, <3>1, <3>2
  <2>4. CASE j = k
    <3>1. PICK a \in 1..n : i = Slot(a)
      BY <1>10, <1>15, <2>4
    <3>2. v[a] <= f[n + 1]
      BY <1>7, <1>9, <1>15, <2>4, <3>1
    <3>3. QED BY <1>3, <2>1, <2>2, <2>4, <3>1, <3>2
  <2>5. CASE i # k /\ j # k
    <3>1. PICK a \in 1..n : i = Slot(a)
      BY <1>10, <2>5
    <3>2. PICK b \in 1..n : j = Slot(b)
      BY <1>10, <2>5
    <3>3. v[a] <= v[b]
      BY <1>4, <1>11, <1>15, <3>1, <3>2
    <3>4. QED BY <2>1, <3>1, <3>2, <3>3
  <2>6. QED BY <2>3, <2>4, <2>5
<1>16. QED BY <1>12, <1>13, <1>14, <1>15 DEF Sorts

\* Any number of values can be sorted.
LEMMA AllSortable == \A n \in Nat : Sortable(n)
<1> DEFINE T == {n \in Nat : ~Sortable(n)}
<1> SUFFICES ASSUME T # {} PROVE FALSE
  OBVIOUS
<1>1. PICK m \in T : \A n \in T : m <= n
  BY LeastExists
<1>2. CASE m = 0
  <2>1. ASSUME NEW f \in [1..0 -> Nat] PROVE Sorts([i \in 1..0 |-> i], f, 0)
    BY DEF Sorts
  <2>2. QED BY <1>1, <1>2, <2>1 DEF Sortable
<1>3. CASE m # 0
  <2>1. m - 1 \in Nat /\ Sortable(m - 1)
    BY <1>1, <1>3
  <2>2. Sortable((m - 1) + 1)
    BY <2>1, Insertion DEF Sortable
  <2>3. QED BY <1>1, <2>2
<1>4. QED BY <1>2, <1>3

\* What Sorted returns, whichever of the orders it chooses.
LEMMA SortedOrders ==
    ASSUME NEW n \in Nat, NEW s \in [1..n -> Nat]
    PROVE  \E p \in Bijection(1..n, 1..n) :
               /\ \A i, j \in 1..n : i < j => s[p[i]] <= s[p[j]]
               /\ Sorted(s) = [i \in 1..n |-> s[p[i]]]
<1> DEFINE Ordered(p) == \A i, j \in 1..n : i < j => s[p[i]] <= s[p[j]]
           order == CHOOSE p \in Bijection(1..n, 1..n) : Ordered(p)
<1>1. \E p \in Bijection(1..n, 1..n) : Ordered(p)
  <2>1. PICK p : Sorts(p, s, n)
    BY AllSortable DEF Sortable
  <2>2. p \in Bijection(1..n, 1..n)
    BY <2>1 DEF Sorts, Bijection, Injection, Surjection, IsInjective
  <2>3. Ordered(p)
    BY <2>1 DEF Sorts
  <2>4. QED BY <2>2, <2>3
<1>2. DOMAIN s = 1..n
  OBVIOUS
<1>3. Sorted(s) = [i \in 1..n |-> s[order[i]]]
  BY <1>2 DEF Sorted
<1>4. order \in Bijection(1..n, 1..n) /\ Ordered(order)
  <2> HIDE DEF Ordered
  <2>1. QED BY <1>1
<1> HIDE DEF order
<1>5. QED BY <1>3, <1>4

------------------------------------------------------------------------------
\* The percentile

\* The rank leaves at most 5% of the runs above it, and one less would not.
LEMMA RankIsRight ==
    ASSUME NEW n \in Nat \ {0}
    PROVE  /\ Rank(n) \in 1..n
           /\ 20 * (n - Rank(n)) <= n
           /\ 20 * (n - Rank(n) + 1) > n
  BY DEF Rank

\* The value at the rank is within the limit exactly if at most 5% are over.
LEMMA NearestRankIsRight ==
    ASSUME NEW n \in Nat \ {0}, NEW s \in [1..n -> Nat], NEW limit \in Nat
    PROVE  NearestRank(Sorted(s)) <= limit
               <=> 20 * Cardinality({i \in 1..n : s[i] > limit}) <= n
<1> DEFINE Over == {i \in 1..n : s[i] > limit}
           r == Rank(n)
<1>1. PICK p \in Bijection(1..n, 1..n) :
          /\ \A i, j \in 1..n : i < j => s[p[i]] <= s[p[j]]
          /\ Sorted(s) = [i \in 1..n |-> s[p[i]]]
  BY SortedOrders
<1>2. /\ p \in [1..n -> 1..n]
      /\ \A i, j \in 1..n : p[i] = p[j] => i = j
      /\ \A k \in 1..n : \E i \in 1..n : p[i] = k
  BY DEF Bijection, Injection, Surjection, IsInjective
<1>3. r \in 1..n /\ 20 * (n - r) <= n /\ 20 * (n - r + 1) > n
  BY RankIsRight
<1> HIDE DEF r
<1>4. NearestRank(Sorted(s)) = s[p[r]]
  <2>1. Len(Sorted(s)) = n
    BY <1>1
  <2>2. Larger(0, Smaller(r - 1, n - 1)) = r - 1
    BY <1>3 DEF Larger, Smaller
  <2>3. NearestRank(Sorted(s)) = Sorted(s)[(r - 1) + 1]
    BY <2>1, <2>2 DEF NearestRank, r
  <2>4. (r - 1) + 1 = r
    BY <1>3
  <2>5. QED BY <1>1, <1>3, <2>3, <2>4
<1>5. IsFiniteSet(Over) /\ Cardinality(Over) \in Nat
  <2>1. IsFiniteSet(1..n)
    BY FS_Interval
  <2>2. IsFiniteSet(Over)
    BY <2>1, FS_Subset
  <2>3. QED BY <2>2, FS_CardinalityType
<1>6. ASSUME NEW i \in 1..n, NEW j \in 1..n, i <= j
      PROVE  s[p[i]] \in Nat /\ s[p[j]] \in Nat /\ s[p[i]] <= s[p[j]]
  <2>1. p[i] \in 1..n /\ p[j] \in 1..n
    BY <1>2
  <2>2. s[p[i]] \in Nat /\ s[p[j]] \in Nat
    BY <2>1
  <2>3. CASE i = j
    BY <2>2, <2>3
  <2>4. CASE i < j
    BY <1>1, <2>2, <2>4
  <2>5. QED BY <1>6, <2>3, <2>4
<1>7. ASSUME s[p[r]] <= limit PROVE 20 * Cardinality(Over) <= n
  <2> DEFINE After == (r + 1)..n
             f == [k \in Over |-> CHOOSE i \in 1..n : p[i] = k]
  <2>1. ASSUME NEW k \in Over PROVE f[k] \in After /\ p[f[k]] = k
    <3>1. f[k] \in 1..n /\ p[f[k]] = k
      BY <1>2
    <3>2. PICK i \in 1..n : i = f[k] /\ s[p[i]] > limit
      BY <3>1
    <3>3. ~(i <= r)
      <4>1. i <= r => s[p[i]] \in Nat /\ s[p[r]] \in Nat /\ s[p[i]] <= s[p[r]]
        BY <1>3, <1>6
      <4>2. QED BY <1>7, <3>2, <4>1
    <3>4. QED BY <1>3, <3>1, <3>2, <3>3
  <2>2. f \in Injection(Over, After)
    <3>1. f \in [Over -> After]
      BY <2>1
    <3>2. \A k, l \in Over : f[k] = f[l] => k = l
      BY <2>1
    <3> HIDE DEF f
    <3>3. QED BY <3>1, <3>2 DEF Injection, IsInjective
  <2>3. IsFiniteSet(After) /\ Cardinality(After) = n - r
    <3>1. r + 1 \in Int /\ n \in Int
      BY <1>3
    <3>2. /\ IsFiniteSet(After)
          /\ Cardinality(After) = IF r + 1 > n THEN 0 ELSE n - (r + 1) + 1
      BY <3>1, FS_Interval
    <3>3. QED BY <1>3, <3>2
  <2>4. Cardinality(Over) <= n - r
    BY <2>2, <2>3, FS_Injection
  <2>5. QED BY <1>3, <1>5, <2>4
<1>8. ASSUME s[p[r]] > limit PROVE 20 * Cardinality(Over) > n
  <2> DEFINE From == r..n
             f == [i \in From |-> p[i]]
  <2>1. ASSUME NEW i \in From PROVE f[i] \in Over
    <3>0. i \in 1..n /\ r <= i
      BY <1>3
    <3>1. i \in 1..n /\ p[i] \in 1..n
      BY <1>2, <3>0
    <3>2. s[p[r]] <= s[p[i]]
      BY <1>3, <1>6, <3>0
    <3>3. s[p[i]] \in Nat /\ s[p[r]] \in Nat
      BY <1>2, <1>3, <3>1
    <3>4. QED BY <1>8, <3>1, <3>2, <3>3
  <2>2. \A i \in From : i \in 1..n
    BY <1>3
  <2>3. f \in Injection(From, Over)
    <3>1. \A i, j \in From : f[i] = f[j] => i = j
      BY <1>2, <2>2
    <3>2. QED BY <2>1, <3>1 DEF Injection, IsInjective
  <2>4. IsFiniteSet(From) /\ Cardinality(From) = n - r + 1
    <3>1. r \in Int /\ n \in Int /\ ~(r > n)
      BY <1>3
    <3>2. /\ IsFiniteSet(From)
          /\ Cardinality(From) = IF r > n THEN 0 ELSE n - r + 1
      BY <3>1, FS_Interval
    <3>3. QED BY <3>1, <3>2
  <2>5. n - r + 1 <= Cardinality(Over)
    BY <1>5, <2>3, <2>4, FS_Injection
  <2>6. QED BY <1>3, <1>5, <2>5
<1>9. QED BY <1>3, <1>4, <1>5, <1>7, <1>8, <1>6

\* No more than one in twenty of the samples is over the limit.
MostWithin(n, samples, b, limit) ==
    20 * Cardinality({i \in 1..n : samples[i][b] > limit}) <= n

\* repeat.md: a budget passes exactly if at least 95% of the passing runs are
\* within its limit, for any number of runs.
THEOREM BudgetIsRight ==
    ASSUME NEW n \in Nat \ {0}, NEW samples \in [1..n -> [Budgets -> Nat]],
           NEW b \in Budgets, NEW limit \in Nat
    PROVE  P95(samples, b) <= limit <=> MostWithin(n, samples, b, limit)
<1> DEFINE s == [i \in 1..n |-> samples[i][b]]
<1>1. s \in [1..n -> Nat]
  OBVIOUS
<1>2. DOMAIN samples = 1..n /\ samples # <<>>
  OBVIOUS
<1>3. P95(samples, b) = NearestRank(Sorted(s))
  BY <1>2 DEF P95
<1>4. {i \in 1..n : samples[i][b] > limit} = {i \in 1..n : s[i] > limit}
  OBVIOUS
<1> HIDE DEF s
<1>5. NearestRank(Sorted(s)) <= limit
          <=> 20 * Cardinality({i \in 1..n : s[i] > limit}) <= n
  BY <1>1, NearestRankIsRight
<1>6. QED BY <1>3, <1>4, <1>5 DEF MostWithin
==============================================================================
