----------------------------- MODULE PlanningProofs -----------------------------
(***************************************************************************)
(* Proofs about the labs of Labs, continued: those that are about sums of    *)
(* what was counted.  The packs and plans of EpisodePlanning and the fits of *)
(* DecisionTier, for every value of their constants.                         *)
(***************************************************************************)
EXTENDS LabsProofs

-------------------------------------------------------------------------------
(* EpisodePlanning: sums along a list first, then shares by largest          *)
(* remainder, then a plan, and last the pack it is made from.                *)

\* A sum is taken step by step (Total of a list of numbers).
LEMMA SumOf ==
  ASSUME NEW n \in Nat, NEW f \in [1..n -> Int]
  PROVE  \E g \in [0..n -> Int] :
           /\ g[0] = 0 /\ \A k \in 1..n : g[k] = g[k - 1] + f[k]
           /\ Planning!Total(f) = g[n]
  <1>1. Len(f) = n
    <2>1. f \in Seq(Int) /\ DOMAIN f = 1..n
      OBVIOUS
    <2> QED
      BY <2>1
  <1>2. PICK g : Sums(g, n, f)
    BY SumExists
  <1> DEFINE G == CHOOSE h : h = [k \in 0..Len(f) |-> IF k = 0 THEN 0 ELSE h[k - 1] + f[k]]
  <1>3. \E h : h = [k \in 0..Len(f) |-> IF k = 0 THEN 0 ELSE h[k - 1] + f[k]]
    BY <1>1, <1>2 DEF Sums
  <1>4. G = [k \in 0..Len(f) |-> IF k = 0 THEN 0 ELSE G[k - 1] + f[k]]
    BY <1>3
  <1>5. Planning!Total(f) = G[Len(f)]
    BY DEF Planning!Total
  <1> HIDE DEF G
  <1>6. Sums(G, n, f)
    BY <1>1, <1>4 DEF Sums
  <1>7. ASSUME NEW k \in 0..n PROVE G[k] \in Int
    <2> DEFINE S == {m \in Nat : m <= n => G[m] \in Int}
    <2>1. 0 \in S
      BY <1>6 DEF Sums
    <2>2. ASSUME NEW m \in Nat, m \in S PROVE m + 1 \in S
      <3> SUFFICES ASSUME m + 1 <= n PROVE G[m + 1] \in Int
        OBVIOUS
      <3>1. m + 1 \in 0..n /\ m + 1 \in 1..n /\ m + 1 # 0 /\ (m + 1) - 1 = m
        OBVIOUS
      <3>2. G[m + 1] = G[m] + f[m + 1]
        BY <1>6, <3>1 DEF Sums
      <3> QED
        BY <2>2, <3>1, <3>2
    <2> HIDE DEF S
    <2>3. k \in Nat /\ k <= n
      OBVIOUS
    <2>4. k \in S
      BY <2>1, <2>2, <2>3, EveryNumber
    <2> QED
      BY <2>3, <2>4 DEF S
  <1>8. G \in [0..n -> Int]
    BY <1>6, <1>7 DEF Sums
  <1>9. G[0] = 0
    BY <1>6 DEF Sums
  <1>10. \A k \in 1..n : G[k] = G[k - 1] + f[k]
    BY <1>6 DEF Sums
  <1> QED
    BY <1>1, <1>5, <1>8, <1>9, <1>10

\* Sums of lists that are related place by place are related as a whole.
LEMMA SumsRelate ==
  ASSUME NEW n \in Nat, NEW f \in [1..n -> Int], NEW h \in [1..n -> Int]
  PROVE  /\ Planning!Total(f) \in Int
         /\ (\A k \in 1..n : f[k] \in Nat) => Planning!Total(f) \in Nat
         /\ (\A k \in 1..n : f[k] <= h[k]) => Planning!Total(f) <= Planning!Total(h)
         /\ \A j \in 1..n : (\A k \in 1..n : f[k] <= h[k]) /\ f[j] < h[j]
              => Planning!Total(f) < Planning!Total(h)
  <1>1. PICK g \in [0..n -> Int] : /\ g[0] = 0 /\ \A k \in 1..n : g[k] = g[k - 1] + f[k]
                                   /\ Planning!Total(f) = g[n]
    BY SumOf
  <1>2. PICK s \in [0..n -> Int] : /\ s[0] = 0 /\ \A k \in 1..n : s[k] = s[k - 1] + h[k]
                                   /\ Planning!Total(h) = s[n]
    BY SumOf
  <1>3. n \in 0..n
    OBVIOUS
  <1>4. ASSUME \A k \in 1..n : f[k] \in Nat PROVE g[n] \in Nat
    <2> DEFINE S == {m \in Nat : m <= n => g[m] \in Nat}
    <2>1. 0 \in S
      BY <1>1
    <2>2. ASSUME NEW m \in Nat, m \in S PROVE m + 1 \in S
      <3> SUFFICES ASSUME m + 1 <= n PROVE g[m + 1] \in Nat
        OBVIOUS
      <3>1. m + 1 \in 1..n /\ (m + 1) - 1 = m
        OBVIOUS
      <3>2. g[m + 1] = g[m] + f[m + 1]
        BY <1>1, <3>1
      <3> QED
        BY <1>4, <2>2, <3>1, <3>2
    <2> HIDE DEF S
    <2>3. n \in S
      BY <2>1, <2>2, EveryNumber
    <2> QED
      BY <2>3 DEF S
  <1>5. ASSUME \A k \in 1..n : f[k] <= h[k], NEW j \in 0..n, j # 0 => f[j] < h[j]
        PROVE  g[n] <= s[n] /\ (j # 0 => g[n] < s[n])
    <2> DEFINE S == {m \in Nat : m <= n => g[m] <= s[m] /\ (j # 0 /\ j <= m => g[m] < s[m])}
    <2>1. 0 \in S
      BY <1>1, <1>2
    <2>2. ASSUME NEW m \in Nat, m \in S PROVE m + 1 \in S
      <3> SUFFICES ASSUME m + 1 <= n
                   PROVE  g[m + 1] <= s[m + 1] /\ (j # 0 /\ j <= m + 1 => g[m + 1] < s[m + 1])
        OBVIOUS
      <3>1. m + 1 \in 1..n /\ (m + 1) - 1 = m /\ m \in 0..n /\ g[m] \in Int /\ s[m] \in Int
            /\ f[m + 1] \in Int /\ h[m + 1] \in Int
        OBVIOUS
      <3>2. g[m + 1] = g[m] + f[m + 1] /\ s[m + 1] = s[m] + h[m + 1]
        BY <1>1, <1>2, <3>1
      <3>3. f[m + 1] <= h[m + 1] /\ (j = m + 1 => f[m + 1] < h[m + 1])
        BY <1>5, <3>1
      <3>4. g[m] <= s[m] /\ (j # 0 /\ j <= m => g[m] < s[m])
        BY <2>2
      <3>5. j <= m + 1 => j <= m \/ j = m + 1
        OBVIOUS
      <3> QED
        BY <3>1, <3>2, <3>3, <3>4, <3>5
    <2> HIDE DEF S
    <2>3. n \in S
      BY <2>1, <2>2, EveryNumber
    <2>4. j <= n
      OBVIOUS
    <2> QED
      BY <2>3, <2>4 DEF S
  <1>6. ASSUME \A k \in 1..n : f[k] <= h[k] PROVE g[n] <= s[n]
    BY <1>5, <1>6, 0 \in 0..n
  <1>7. ASSUME NEW j \in 1..n, \A k \in 1..n : f[k] <= h[k], f[j] < h[j] PROVE g[n] < s[n]
    <2>1. j \in 0..n /\ j # 0
      OBVIOUS
    <2> QED
      BY <1>5, <1>7, <2>1
  <1> QED
    BY <1>1, <1>2, <1>3, <1>4, <1>6, <1>7

LEMMA Distributes ==
  ASSUME NEW a \in Int, NEW b \in Int, NEW x \in Int
  PROVE  a * (b + x) = a * b + a * x /\ (b + x) * a = b * a + x * a
  OBVIOUS

\* A list of noughts and ones adds up to the number of its ones.
LEMMA SumCounts ==
  ASSUME NEW n \in Nat, NEW f \in [1..n -> {0, 1}]
  PROVE  Planning!Total(f) = Cardinality({k \in 1..n : f[k] = 1})
  <1>0. f \in [1..n -> Int]
    OBVIOUS
  <1>1. PICK g \in [0..n -> Int] : /\ g[0] = 0 /\ \A k \in 1..n : g[k] = g[k - 1] + f[k]
                                   /\ Planning!Total(f) = g[n]
    BY <1>0, SumOf
  <1> DEFINE Ones(m) == {k \in 1..n : f[k] = 1 /\ k <= m}
             S == {m \in Nat : m <= n => IsFiniteSet(Ones(m)) /\ g[m] = Cardinality(Ones(m))}
  <1>2. 0 \in S
    <2>1. Ones(0) = {}
      OBVIOUS
    <2> QED
      BY <1>1, <2>1, FS_EmptySet
  <1>3. ASSUME NEW m \in Nat, m \in S PROVE m + 1 \in S
    <2> SUFFICES ASSUME m + 1 <= n
                 PROVE  IsFiniteSet(Ones(m + 1)) /\ g[m + 1] = Cardinality(Ones(m + 1))
      OBVIOUS
    <2>1. IsFiniteSet(Ones(m)) /\ g[m] = Cardinality(Ones(m))
      BY <1>3
    <2>2. m + 1 \in 1..n /\ (m + 1) - 1 = m
      OBVIOUS
    <2>3. g[m + 1] = g[m] + f[m + 1]
      BY <1>1, <2>2
    <2>4. CASE f[m + 1] = 1
      <3>1. Ones(m + 1) = Ones(m) \cup {m + 1} /\ m + 1 \notin Ones(m)
        BY <2>2, <2>4
      <3> HIDE DEF Ones
      <3> QED
        BY <2>1, <2>3, <2>4, <3>1, FS_AddElement
    <2>5. CASE f[m + 1] = 0
      <3>1. Ones(m + 1) = Ones(m)
        BY <2>2, <2>5
      <3>2. g[m] \in Int
        BY <2>2
      <3> HIDE DEF Ones
      <3> QED
        BY <2>1, <2>3, <2>5, <3>1, <3>2
    <2> QED
      BY <2>2, <2>4, <2>5
  <1>4. Ones(n) = {k \in 1..n : f[k] = 1}
    OBVIOUS
  <1> HIDE DEF S
  <1>5. n \in S
    BY <1>2, <1>3, EveryNumber
  <1>6. g[n] = Cardinality(Ones(n))
    BY <1>5 DEF S
  <1> HIDE DEF Ones
  <1> QED
    BY <1>1, <1>4, <1>6

\* The sum of two sums, and of multiples.
LEMMA SumsPlus ==
  ASSUME NEW n \in Nat, NEW f \in [1..n -> Int], NEW h \in [1..n -> Int],
         NEW t \in [1..n -> Int], \A k \in 1..n : t[k] = f[k] + h[k]
  PROVE  Planning!Total(t) = Planning!Total(f) + Planning!Total(h)
  <1>1. PICK g \in [0..n -> Int] : /\ g[0] = 0 /\ \A k \in 1..n : g[k] = g[k - 1] + f[k]
                                   /\ Planning!Total(f) = g[n]
    BY SumOf
  <1>2. PICK s \in [0..n -> Int] : /\ s[0] = 0 /\ \A k \in 1..n : s[k] = s[k - 1] + h[k]
                                   /\ Planning!Total(h) = s[n]
    BY SumOf
  <1>3. PICK u \in [0..n -> Int] : /\ u[0] = 0 /\ \A k \in 1..n : u[k] = u[k - 1] + t[k]
                                   /\ Planning!Total(t) = u[n]
    BY SumOf
  <1> DEFINE S == {m \in Nat : m <= n => u[m] = g[m] + s[m]}
  <1>4. 0 \in S
    BY <1>1, <1>2, <1>3
  <1>5. ASSUME NEW m \in Nat, m \in S PROVE m + 1 \in S
    <2> SUFFICES ASSUME m + 1 <= n PROVE u[m + 1] = g[m + 1] + s[m + 1]
      OBVIOUS
    <2>1. m + 1 \in 1..n /\ (m + 1) - 1 = m /\ m \in 0..n
      OBVIOUS
    <2>2. PICK p \in Int, q \in Int, x \in Int, y \in Int :
            p = g[m] /\ q = s[m] /\ x = f[m + 1] /\ y = h[m + 1]
      BY <2>1
    <2>3. u[m] = p + q
      BY <1>5, <2>1, <2>2
    <2>4. g[m + 1] = p + x /\ s[m + 1] = q + y
      BY <1>1, <1>2, <2>1, <2>2
    <2>5. t[m + 1] = x + y
      BY <2>1, <2>2
    <2>6. u[m + 1] = u[m] + t[m + 1]
      BY <1>3, <2>1
    <2> QED
      BY ONLY <2>3, <2>4, <2>5, <2>6
  <1> HIDE DEF S
  <1>6. n \in S
    BY <1>4, <1>5, EveryNumber
  <1> QED
    BY <1>1, <1>2, <1>3, <1>6 DEF S

LEMMA SumsTimes ==
  ASSUME NEW n \in Nat, NEW f \in [1..n -> Int], NEW c \in Int
  PROVE  Planning!Total([k \in 1..n |-> c * f[k]]) = c * Planning!Total(f)
  <1> DEFINE t == [k \in 1..n |-> c * f[k]]
  <1>1. PICK g \in [0..n -> Int] : /\ g[0] = 0 /\ \A k \in 1..n : g[k] = g[k - 1] + f[k]
                                   /\ Planning!Total(f) = g[n]
    BY SumOf
  <1>2. t \in [1..n -> Int] /\ \A k \in 1..n : t[k] = c * f[k]
    OBVIOUS
  <1> HIDE DEF t
  <1>3. PICK u \in [0..n -> Int] : /\ u[0] = 0 /\ \A k \in 1..n : u[k] = u[k - 1] + t[k]
                                   /\ Planning!Total(t) = u[n]
    BY <1>2, SumOf
  <1> DEFINE S == {m \in Nat : m <= n => u[m] = c * g[m]}
  <1>4. 0 \in S
    BY <1>1, <1>3
  <1>5. ASSUME NEW m \in Nat, m \in S PROVE m + 1 \in S
    <2> SUFFICES ASSUME m + 1 <= n PROVE u[m + 1] = c * g[m + 1]
      OBVIOUS
    <2>1. m + 1 \in 1..n /\ (m + 1) - 1 = m /\ m \in 0..n
      OBVIOUS
    <2>2. PICK p \in Int, x \in Int : p = g[m] /\ x = f[m + 1]
      BY <2>1
    <2>3. u[m] = c * p
      BY <1>5, <2>1, <2>2
    <2>4. t[m + 1] = c * x
      BY <1>2, <2>1, <2>2
    <2>5. g[m + 1] = p + x
      BY <1>1, <2>1, <2>2
    <2>6. u[m + 1] = u[m] + t[m + 1]
      BY <1>3, <2>1
    <2>7. c * (p + x) = c * p + c * x
      BY Distributes
    <2> QED
      BY ONLY <2>3, <2>4, <2>5, <2>6, <2>7
  <1> HIDE DEF S
  <1>6. n \in S
    BY <1>4, <1>5, EveryNumber
  <1>7. Planning!Total(t) = c * Planning!Total(f)
    BY <1>1, <1>3, <1>6 DEF S
  <1> QED
    BY <1>7 DEF t

\* Sums of rows are sums of columns.
LEMMA SumsSwap ==
  ASSUME NEW n \in Nat, NEW m \in Nat, NEW M \in [1..n -> [1..m -> Int]]
  PROVE  Planning!Total([i \in 1..n |-> Planning!Total([j \in 1..m |-> M[i][j]])]) =
         Planning!Total([j \in 1..m |-> Planning!Total([i \in 1..n |-> M[i][j]])])
  <1> DEFINE Row == [i \in 1..n |-> Planning!Total([j \in 1..m |-> M[i][j]])]
             Column(j) == [i \in 1..n |-> M[i][j]]
             Sum(g, j) == /\ g \in [0..n -> Int] /\ g[0] = 0
                          /\ \A k \in 1..n : g[k] = g[k - 1] + M[k][j]
                          /\ Planning!Total(Column(j)) = g[n]
             G == [j \in 1..m |-> CHOOSE g : Sum(g, j)]
             Upto(k) == [j \in 1..m |-> G[j][k]]
  <1>1. ASSUME NEW j \in 1..m PROVE Sum(G[j], j)
    <2>1. Column(j) \in [1..n -> Int] /\ \A k \in 1..n : Column(j)[k] = M[k][j]
      OBVIOUS
    <2>2. PICK g \in [0..n -> Int] : /\ g[0] = 0 /\ \A k \in 1..n : g[k] = g[k - 1] + Column(j)[k]
                                     /\ Planning!Total(Column(j)) = g[n]
      <3> HIDE DEF Column
      <3> QED
        BY <2>1, SumOf
    <2>3. Sum(g, j)
      BY <2>1, <2>2
    <2> HIDE DEF Sum
    <2> QED
      BY <2>3
  <1> HIDE DEF G
  <1>2. \A k \in 0..n : Upto(k) \in [1..m -> Int]
    BY <1>1
  <1>3. ASSUME NEW i \in 1..n PROVE Row[i] \in Int /\ Row[i] = Planning!Total(M[i])
    <2>1. [j \in 1..m |-> M[i][j]] = M[i] /\ M[i] \in [1..m -> Int]
      OBVIOUS
    <2> QED
      BY <2>1, SumsRelate
  <1>4. PICK r \in [0..n -> Int] : /\ r[0] = 0 /\ \A k \in 1..n : r[k] = r[k - 1] + Row[k]
                                   /\ Planning!Total(Row) = r[n]
    <2>1. Row \in [1..n -> Int]
      BY <1>3
    <2> HIDE DEF Row
    <2> QED
      BY <2>1, SumOf
  <1> DEFINE S == {k \in Nat : k <= n => r[k] = Planning!Total(Upto(k))}
  <1>5. 0 \in S
    <2>1. \A j \in 1..m : G[j][0] = 0
      BY <1>1
    <2>2. Upto(0) \in [1..m -> {0, 1}] /\ {j \in 1..m : Upto(0)[j] = 1} = {}
      BY <2>1
    <2>3. Planning!Total(Upto(0)) = Cardinality({})
      <3> HIDE DEF Upto
      <3> QED
        BY <2>2, SumCounts
    <2> QED
      BY <1>4, <2>3, FS_EmptySet
  <1>6. ASSUME NEW k \in Nat, k \in S PROVE k + 1 \in S
    <2> SUFFICES ASSUME k + 1 <= n PROVE r[k + 1] = Planning!Total(Upto(k + 1))
      OBVIOUS
    <2>1. k + 1 \in 1..n /\ (k + 1) - 1 = k /\ k \in 0..n /\ k + 1 \in 0..n
      OBVIOUS
    <2>2. \A j \in 1..m : Upto(k + 1)[j] = Upto(k)[j] + M[k + 1][j]
      <3> SUFFICES ASSUME NEW j \in 1..m PROVE G[j][k + 1] = G[j][k] + M[k + 1][j]
        OBVIOUS
      <3> QED
        BY <1>1, <2>1
    <2>3. PICK t \in [1..m -> Int], f \in [1..m -> Int], h \in [1..m -> Int] :
            t = Upto(k + 1) /\ f = Upto(k) /\ h = M[k + 1]
      BY <1>2, <2>1
    <2>4. Planning!Total(Upto(k + 1)) = Planning!Total(Upto(k)) + Planning!Total(M[k + 1])
      <3> HIDE DEF Upto
      <3>2. \A j \in 1..m : t[j] = f[j] + h[j]
        BY <2>2, <2>3
      <3>3. Planning!Total(t) = Planning!Total(f) + Planning!Total(h)
        BY <3>2, SumsPlus
      <3> QED
        BY <2>3, <3>3
    <2>5. r[k + 1] = r[k] + Row[k + 1] /\ r[k] = Planning!Total(Upto(k))
          /\ Row[k + 1] = Planning!Total(M[k + 1]) /\ r[k] \in Int /\ Row[k + 1] \in Int
      BY <1>3, <1>4, <1>6, <2>1
    <2> QED
      BY ONLY <2>4, <2>5
  <1>7. Upto(n) = [j \in 1..m |-> Planning!Total([i \in 1..n |-> M[i][j]])]
    BY <1>1
  <1> HIDE DEF S, Upto, Row
  <1>8. n \in S
    BY <1>5, <1>6, EveryNumber
  <1>9. Planning!Total(Row) = Planning!Total(Upto(n))
    BY <1>4, <1>8 DEF S
  <1> QED
    BY <1>7, <1>9 DEF Row
\* Who has more left, or as much and comes first: a rank, and as many as one
\* likes are ranked below it (allocateCharacters' order, apportion.ts:39).
Ahead(R, n, b) == {a \in 1..n : R[a] > R[b] \/ (R[a] = R[b] /\ a < b)}

LEMMA RankIs ==
  ASSUME NEW n \in Nat, NEW R \in [1..n -> Nat]
  PROVE  /\ \A b \in 1..n : IsFiniteSet(Ahead(R, n, b)) /\ Cardinality(Ahead(R, n, b)) \in 0..(n - 1)
         /\ \A a, b \in 1..n : a \in Ahead(R, n, b) =>
              Cardinality(Ahead(R, n, a)) < Cardinality(Ahead(R, n, b))
         /\ \A a, b \in 1..n : a # b => a \in Ahead(R, n, b) \/ b \in Ahead(R, n, a)
  <1>1. IsFiniteSet(1..n) /\ Cardinality(1..n) = n
    BY FS_Interval
  <1>2. ASSUME NEW b \in 1..n
        PROVE  IsFiniteSet(Ahead(R, n, b)) /\ Cardinality(Ahead(R, n, b)) \in 0..(n - 1)
    <2>1. Ahead(R, n, b) \in SUBSET ((1..n) \ {b})
      BY DEF Ahead
    <2>2. IsFiniteSet((1..n) \ {b}) /\ Cardinality((1..n) \ {b}) = n - 1
      BY <1>1, FS_RemoveElement
    <2>3. IsFiniteSet(Ahead(R, n, b)) /\ Cardinality(Ahead(R, n, b)) <= n - 1
      BY <2>1, <2>2, FS_Subset
    <2>4. Cardinality(Ahead(R, n, b)) \in Nat
      BY <2>3, FS_CardinalityType
    <2> QED
      BY <2>3, <2>4
  <1>3. ASSUME NEW a \in 1..n, NEW b \in 1..n, a \in Ahead(R, n, b)
        PROVE  Cardinality(Ahead(R, n, a)) < Cardinality(Ahead(R, n, b))
    <2>1. a \notin Ahead(R, n, a)
      BY DEF Ahead
    <2>2. Ahead(R, n, a) \cup {a} \in SUBSET Ahead(R, n, b)
      <3> SUFFICES ASSUME NEW x \in Ahead(R, n, a) PROVE x \in Ahead(R, n, b)
        BY <1>3
      <3>1. x \in 1..n /\ R[x] \in Nat /\ R[a] \in Nat /\ R[b] \in Nat
        BY DEF Ahead
      <3>2. R[x] > R[a] \/ (R[x] = R[a] /\ x < a)
        BY DEF Ahead
      <3>3. R[a] > R[b] \/ (R[a] = R[b] /\ a < b)
        BY <1>3 DEF Ahead
      <3>4. R[x] > R[b] \/ (R[x] = R[b] /\ x < b)
        BY <3>1, <3>2, <3>3
      <3> QED
        BY <3>1, <3>4 DEF Ahead
    <2>3. Cardinality(Ahead(R, n, a) \cup {a}) = Cardinality(Ahead(R, n, a)) + 1
      BY <1>2, <2>1, FS_AddElement
    <2>4. Cardinality(Ahead(R, n, a) \cup {a}) <= Cardinality(Ahead(R, n, b))
      BY <1>2, <2>2, FS_Subset
    <2> QED
      BY <1>2, <2>3, <2>4
  <1>4. ASSUME NEW a \in 1..n, NEW b \in 1..n, a # b PROVE a \in Ahead(R, n, b) \/ b \in Ahead(R, n, a)
    <2>1. R[a] \in Nat /\ R[b] \in Nat
      OBVIOUS
    <2> QED
      BY <1>4, <2>1 DEF Ahead
  <1> QED
    BY <1>2, <1>3, <1>4

LEMMA RankedBelow ==
  ASSUME NEW n \in Nat, NEW R \in [1..n -> Nat], NEW r \in 0..n
  PROVE  Cardinality({b \in 1..n : Cardinality(Ahead(R, n, b)) < r}) = r
  <1> DEFINE rank == [b \in 1..n |-> Cardinality(Ahead(R, n, b))]
             Below == {b \in 1..n : rank[b] < r}
             Above == {b \in 1..n : rank[b] >= r}
  <1>1. rank \in [1..n -> 0..(n - 1)]
    BY RankIs
  <1>2. \A a, b \in 1..n : a # b => rank[a] # rank[b]
    <2> SUFFICES ASSUME NEW a \in 1..n, NEW b \in 1..n, a # b PROVE rank[a] # rank[b]
      OBVIOUS
    <2>1. rank[a] < rank[b] \/ rank[b] < rank[a]
      BY RankIs
    <2>2. rank[a] \in Int /\ rank[b] \in Int
      BY <1>1
    <2> HIDE DEF rank
    <2> QED
      BY <2>1, <2>2
  <1> HIDE DEF rank
  <1>3. IsFiniteSet(Below) /\ Cardinality(Below) <= r
    <2> DEFINE f == [b \in Below |-> rank[b]]
    <2>1. f \in Injection(Below, 0..(r - 1))
      <3>1. f \in [Below -> 0..(r - 1)]
        BY <1>1
      <3> QED
        BY <1>2, <3>1 DEF Injection, IsInjective
    <2>2. IsFiniteSet(0..(r - 1)) /\ Cardinality(0..(r - 1)) = r
      BY FS_Interval
    <2> HIDE DEF f, Below
    <2> QED
      BY <2>1, <2>2, FS_Injection
  <1>4. IsFiniteSet(Above) /\ Cardinality(Above) <= n - r
    <2> DEFINE f == [b \in Above |-> rank[b]]
    <2>1. f \in Injection(Above, r..(n - 1))
      <3>1. f \in [Above -> r..(n - 1)]
        BY <1>1
      <3> QED
        BY <1>2, <3>1 DEF Injection, IsInjective
    <2>2. IsFiniteSet(r..(n - 1)) /\ Cardinality(r..(n - 1)) = n - r
      BY FS_Interval
    <2> HIDE DEF f, Above
    <2> QED
      BY <2>1, <2>2, FS_Injection
  <1>5. Below \cup Above = 1..n /\ Below \cap Above = {}
    BY <1>1
  <1>6. Cardinality(1..n) = Cardinality(Below) + Cardinality(Above) /\ Cardinality(1..n) = n
    <2> HIDE DEF Below, Above
    <2>1. Cardinality(Below) \in Nat /\ Cardinality(Above) \in Nat
      BY <1>3, <1>4, FS_CardinalityType
    <2>2. Cardinality(Below \cup Above) = Cardinality(Below) + Cardinality(Above) - Cardinality({})
      BY <1>3, <1>4, <1>5, FS_Union
    <2>3. Cardinality({}) = 0
      BY FS_EmptySet
    <2>4. Cardinality(1..n) = n
      BY FS_Interval
    <2>5. Cardinality(Below \cup Above) = Cardinality(Below) + Cardinality(Above)
      BY ONLY <2>1, <2>2, <2>3
    <2> QED
      BY <1>5, <2>4, <2>5
  <1>7. Cardinality(Below) \in Nat /\ Cardinality(Above) \in Nat
    BY <1>3, <1>4, FS_CardinalityType
  <1>8. Cardinality(Below) = r
    <2> HIDE DEF Below, Above
    <2> QED
      BY <1>3, <1>4, <1>6, <1>7
  <1> QED
    BY <1>8 DEF rank
LEMMA Divides ==
  ASSUME NEW x \in Nat, NEW d \in Nat \ {0}
  PROVE  /\ x \div d \in Nat /\ x % d \in Nat /\ x % d < d
         /\ x = d * (x \div d) + (x % d)
  <1>1. x % d \in 0..(d - 1)
    OBVIOUS
  <1>2. x = d * (x \div d) + (x % d)
    OBVIOUS
  <1>3. x \div d \in Int
    OBVIOUS
  <1>4. x \div d >= 0
    <2> SUFFICES ASSUME x \div d < 0 PROVE FALSE
      BY <1>3
    <2>1. PICK q \in Int, r \in Int : q = x \div d /\ r = x % d
      BY <1>1, <1>3
    <2>2. d * q <= d * (-1)
      BY <2>1, TimesMore
    <2> QED
      BY <1>1, <1>2, <2>1, <2>2
  <1> QED
    BY <1>1, <1>2, <1>3, <1>4

\* What allocateCharacters() gives: the whole shares, and one more to as many as
\* are characters left, by what is left of their shares.
Whole(c, n, w, total) == [b \in 1..n |-> (c * w[b]) \div total]
Left(c, n, w, total) == [b \in 1..n |-> (c * w[b]) % total]
Spare(c, n, w, total) == c - Planning!Total(Whole(c, n, w, total))

LEMMA AllocationIs ==
  ASSUME NEW c \in Nat, NEW n \in Nat, NEW w \in [1..n -> Nat], NEW total \in Nat \ {0},
         total = Planning!Total(w)
  PROVE  Planning!allocateCharacters(c, w) =
           [b \in 1..n |-> Whole(c, n, w, total)[b] +
              (IF Cardinality(Ahead(Left(c, n, w, total), n, b)) < Spare(c, n, w, total)
               THEN 1 ELSE 0)]
  <1> DEFINE F(b) == (c * w[b]) \div total
             R(b) == (c * w[b]) % total
             Before(b) == {a \in DOMAIN w : R(a) > R(b) \/ (R(a) = R(b) /\ a < b)}
             rest == c - Planning!Total([b \in DOMAIN w |-> F(b)])
  <1>1. DOMAIN w = 1..n /\ total # 0
    OBVIOUS
  <1>2. Planning!allocateCharacters(c, w) =
          [b \in DOMAIN w |-> IF total = 0 THEN 0 ELSE
             F(b) + (IF Planning!Cardinality(Before(b)) < rest THEN 1 ELSE 0)]
    BY Zenon DEF Planning!allocateCharacters
  <1>3. [b \in DOMAIN w |-> F(b)] = Whole(c, n, w, total)
    BY <1>1 DEF Whole
  <1>4. rest = Spare(c, n, w, total)
    BY <1>3 DEF Spare
  <1>5. ASSUME NEW b \in 1..n PROVE F(b) = Whole(c, n, w, total)[b] /\ R(b) = Left(c, n, w, total)[b]
    BY DEF Whole, Left
  <1> HIDE DEF rest, F, R
  <1>6. ASSUME NEW b \in 1..n PROVE Before(b) = Ahead(Left(c, n, w, total), n, b)
    BY <1>1, <1>5 DEF Ahead
  <1> HIDE DEF Before
  <1>7. ASSUME NEW b \in 1..n
        PROVE  Planning!Cardinality(Before(b)) = Cardinality(Ahead(Left(c, n, w, total), n, b))
    BY <1>6, Zenon DEF Planning!Cardinality, Cardinality
  <1> QED
    BY <1>1, <1>2, <1>4, <1>5, <1>7

\* As many characters are left as there are weights with a remainder, or fewer.
LEMMA SpareIs ==
  ASSUME NEW c \in Nat, NEW n \in Nat, NEW w \in [1..n -> Nat], NEW total \in Nat \ {0},
         total = Planning!Total(w)
  PROVE  /\ Whole(c, n, w, total) \in [1..n -> Nat]
         /\ Left(c, n, w, total) \in [1..n -> Nat]
         /\ Spare(c, n, w, total) \in Nat
         /\ Spare(c, n, w, total) <= Cardinality({b \in 1..n : Left(c, n, w, total)[b] > 0})
  <1> DEFINE F == Whole(c, n, w, total)
             R == Left(c, n, w, total)
             rest == Spare(c, n, w, total)
             Some == {b \in 1..n : R[b] > 0}
             one == [b \in 1..n |-> IF R[b] > 0 THEN 1 ELSE 0]
             times == [b \in 1..n |-> total * F[b]]
             all == [b \in 1..n |-> c * w[b]]
             most == [b \in 1..n |-> total * one[b]]
  <1>1. ASSUME NEW b \in 1..n
        PROVE  /\ F[b] \in Nat /\ R[b] \in Nat /\ R[b] < total /\ c * w[b] = total * F[b] + R[b]
    <2>1. PICK x \in Nat : x = c * w[b]
      OBVIOUS
    <2>2. F[b] = x \div total /\ R[b] = x % total
      BY <2>1 DEF Whole, Left
    <2>3. /\ x \div total \in Nat /\ x % total \in Nat /\ x % total < total
          /\ x = total * (x \div total) + (x % total)
      BY Divides
    <2> QED
      BY ONLY <2>1, <2>2, <2>3
  <1>2. F \in [1..n -> Nat] /\ R \in [1..n -> Nat]
    BY <1>1 DEF Whole, Left
  <1>3. rest = c - Planning!Total(F)
    BY DEF Spare
  <1> HIDE DEF F, R, rest
  <1>4. all \in [1..n -> Int] /\ times \in [1..n -> Int] /\ most \in [1..n -> Int]
    BY <1>2
  <1>5. Planning!Total(all) = c * total
    <2>1. w \in [1..n -> Int] /\ c \in Int /\ n \in Nat
      OBVIOUS
    <2> HIDE DEF all
    <2>2. Planning!Total([b \in 1..n |-> c * w[b]]) = c * Planning!Total(w)
      BY <2>1, SumsTimes
    <2> QED
      BY <2>2 DEF all
  <1>6. Planning!Total(times) = total * Planning!Total(F)
    <2>1. F \in [1..n -> Int]
      BY <1>2
    <2> QED
      BY <2>1, SumsTimes
  <1>7. Planning!Total(all) = Planning!Total(times) + Planning!Total(R)
    <2>1. \A b \in 1..n : all[b] = times[b] + R[b]
      BY <1>1
    <2>2. R \in [1..n -> Int]
      BY <1>2
    <2> HIDE DEF all, times
    <2>3. PICK f \in [1..n -> Int], h \in [1..n -> Int], t \in [1..n -> Int] :
            f = times /\ h = R /\ t = all
      BY <1>4, <2>2, Zenon
    <2>4. \A b \in 1..n : t[b] = f[b] + h[b]
      BY <2>1, <2>3
    <2>5. Planning!Total(t) = Planning!Total(f) + Planning!Total(h)
      BY <2>4, SumsPlus
    <2> QED
      BY <2>3, <2>5, Zenon
  <1>8. Planning!Total(most) = total * Cardinality(Some)
    <2>1. one \in [1..n -> {0, 1}] /\ {b \in 1..n : one[b] = 1} = Some
      OBVIOUS
    <2> HIDE DEF one, Some
    <2>2. Planning!Total(one) = Cardinality(Some)
      BY <2>1, SumCounts
    <2>3. one \in [1..n -> Int]
      BY <2>1
    <2> QED
      BY <2>2, <2>3, SumsTimes
  <1>9. Planning!Total(R) \in Nat /\ Planning!Total(R) <= Planning!Total(most)
    <2>1. \A b \in 1..n : R[b] \in Nat /\ R[b] <= most[b]
      <3> SUFFICES ASSUME NEW b \in 1..n PROVE R[b] \in Nat /\ R[b] <= most[b]
        OBVIOUS
      <3>1. R[b] \in Nat /\ R[b] < total
        BY <1>1
      <3> QED
        BY <3>1
    <2>2. R \in [1..n -> Int]
      BY <1>2
    <2> HIDE DEF most
    <2> QED
      BY <1>4, <2>1, <2>2, SumsRelate
  <1>10. PICK f \in Int, s \in Nat, r \in Nat :
           f = Planning!Total(F) /\ s = Cardinality(Some) /\ r = Planning!Total(R)
    <2>1. F \in [1..n -> Int]
      BY <1>2
    <2>2. Planning!Total(F) \in Int
      BY <2>1, SumsRelate
    <2>3. IsFiniteSet(1..n) /\ Some \in SUBSET (1..n)
      BY FS_Interval
    <2>4. Cardinality(Some) \in Nat
      <3> HIDE DEF Some
      <3> QED
        BY <2>3, FS_Subset, FS_CardinalityType
    <2> QED
      BY <1>9, <2>2, <2>4
  <1>11. c * total = total * f + r /\ r <= total * s
    <2> HIDE DEF all, times, most, Some
    <2> QED
      BY <1>5, <1>6, <1>7, <1>8, <1>9, <1>10
  <1>12. total * (c - f) = r
    <2>1. total * (f + (c - f)) = total * f + total * (c - f)
      BY Distributes
    <2>2. f + (c - f) = c /\ c * total = total * c
      OBVIOUS
    <2>3. PICK x \in Int, y \in Int : x = total * f /\ y = total * (c - f)
      OBVIOUS
    <2> QED
      BY ONLY <1>11, <2>1, <2>2, <2>3
  <1>13. c - f >= 0
    <2> SUFFICES ASSUME c - f < 0 PROVE FALSE
      OBVIOUS
    <2>1. total * (c - f) < total * 0
      BY TimesLarger
    <2> QED
      BY <1>12, <2>1
  <1>14. c - f <= s
    <2> SUFFICES ASSUME s < c - f PROVE FALSE
      OBVIOUS
    <2>1. total * s < total * (c - f)
      BY TimesLarger
    <2> QED
      BY <1>11, <1>12, <2>1
  <1>15. rest \in Nat /\ rest <= Cardinality(Some)
    <2> HIDE DEF Some
    <2> QED
      BY <1>3, <1>10, <1>13, <1>14
  <1> QED
    BY <1>1, <1>2, <1>15 DEF F, R, rest
\* A share within one of its proportion, multiplied out by the sum of the weights.
Near(share, total, c, weightOf) ==
  -total < share * total - c * weightOf /\ share * total - c * weightOf < total

\* No character is lost, each share is within one of its proportion, and a
\* heavier weight does not get less.
LEMMA SharedOut ==
  ASSUME NEW c \in Nat, NEW n \in Nat, NEW w \in [1..n -> Nat], NEW total \in Nat \ {0},
         total = Planning!Total(w), NEW s, s = Planning!allocateCharacters(c, w)
  PROVE  /\ s \in [1..n -> Nat]
         /\ Planning!Total(s) = c
         /\ \A b \in 1..n : /\ w[b] = 0 => s[b] = 0
                            /\ Near(s[b], total, c, w[b])
         /\ \A a, b \in 1..n : w[b] < w[a] => s[b] <= s[a]
  <1>a. Whole(c, n, w, total) \in [1..n -> Nat]
    BY SpareIs
  <1>b. Left(c, n, w, total) \in [1..n -> Nat]
    BY SpareIs
  <1>c. Spare(c, n, w, total) \in Nat
    BY SpareIs
  <1>d. Spare(c, n, w, total) <= Cardinality({b \in 1..n : Left(c, n, w, total)[b] > 0})
    BY SpareIs
  <1>0. PICK F, R, rest :
          F = Whole(c, n, w, total) /\ R = Left(c, n, w, total) /\ rest = Spare(c, n, w, total)
    OBVIOUS
  <1> DEFINE Some == {b \in 1..n : R[b] > 0}
             rank(b) == Cardinality(Ahead(R, n, b))
             more == [b \in 1..n |-> IF rank(b) < rest THEN 1 ELSE 0]
  <1>1. s = [b \in 1..n |-> F[b] + more[b]]
    <2>1. s = [b \in 1..n |-> F[b] + (IF Cardinality(Ahead(R, n, b)) < rest THEN 1 ELSE 0)]
      BY <1>0, AllocationIs
    <2> QED
      BY <2>1
  <1>2. /\ F \in [1..n -> Nat] /\ R \in [1..n -> Nat] /\ rest \in Nat /\ rest <= Cardinality(Some)
        /\ \A b \in 1..n : R[b] < total /\ c * w[b] = total * F[b] + R[b]
    <2>2. \A b \in 1..n : /\ Left(c, n, w, total)[b] < total
                          /\ c * w[b] = total * Whole(c, n, w, total)[b] + Left(c, n, w, total)[b]
      <3> SUFFICES ASSUME NEW b \in 1..n
                   PROVE  /\ Left(c, n, w, total)[b] < total
                          /\ c * w[b] = total * Whole(c, n, w, total)[b] + Left(c, n, w, total)[b]
        OBVIOUS
      <3>1. PICK x \in Nat : x = c * w[b]
        OBVIOUS
      <3>2. Whole(c, n, w, total)[b] = x \div total /\ Left(c, n, w, total)[b] = x % total
        BY <3>1 DEF Whole, Left
      <3>3. x % total < total /\ x = total * (x \div total) + (x % total)
        BY Divides
      <3> QED
        BY ONLY <3>1, <3>2, <3>3
    <2>4. \A b \in 1..n : R[b] < total /\ c * w[b] = total * F[b] + R[b]
      BY ONLY <1>0, <2>2
    <2>5. rest \in Nat /\ rest <= Cardinality(Some)
      BY ONLY <1>0, <1>c, <1>d
    <2> QED
      BY ONLY <1>0, <1>a, <1>b, <2>4, <2>5
  <1>3. IsFiniteSet(Some) /\ Cardinality(Some) \in Nat /\ Cardinality(Some) <= n
    <2>1. IsFiniteSet(1..n) /\ Cardinality(1..n) = n
      BY FS_Interval
    <2>2. Some \in SUBSET (1..n)
      OBVIOUS
    <2> HIDE DEF Some
    <2>3. IsFiniteSet(Some) /\ Cardinality(Some) <= Cardinality(1..n)
      BY ONLY <2>1, <2>2, FS_Subset
    <2>4. Cardinality(Some) \in Nat
      BY ONLY <2>3, FS_CardinalityType
    <2> QED
      BY ONLY <2>1, <2>3, <2>4
  <1>4. rest \in 0..n
    <2> HIDE DEF Some
    <2> QED
      BY <1>2, <1>3
  <1>5. more \in [1..n -> {0, 1}] /\ more \in [1..n -> Int] /\ F \in [1..n -> Int]
    BY <1>2
  <1>6. s \in [1..n -> Nat] /\ s \in [1..n -> Int] /\ \A b \in 1..n : s[b] = F[b] + more[b]
    <2> HIDE DEF more
    <2>1. \A b \in 1..n : F[b] + more[b] \in Nat
      <3> SUFFICES ASSUME NEW b \in 1..n PROVE F[b] + more[b] \in Nat
        OBVIOUS
      <3>1. F[b] \in Nat /\ more[b] \in {0, 1}
        BY <1>2, <1>5
      <3> QED
        BY ONLY <3>1
    <2>2. s \in [1..n -> Nat]
      BY <1>1, <2>1
    <2> QED
      BY <1>1, <2>2
  <1>7. Planning!Total(s) = c
    <2>1. {b \in 1..n : more[b] = 1} = {b \in 1..n : Cardinality(Ahead(R, n, b)) < rest}
      OBVIOUS
    <2>2. Cardinality({b \in 1..n : Cardinality(Ahead(R, n, b)) < rest}) = rest
      BY <1>2, <1>4, RankedBelow
    <2> HIDE DEF more
    <2>7. Planning!Total(more) = Cardinality({b \in 1..n : more[b] = 1})
      BY <1>5, SumCounts
    <2>3. Planning!Total(more) = rest
      BY ONLY <2>1, <2>2, <2>7
    <2>4. Planning!Total(s) = Planning!Total(F) + Planning!Total(more)
      <3>1. /\ n \in Nat /\ F \in [1..n -> Int] /\ more \in [1..n -> Int] /\ s \in [1..n -> Int]
            /\ \A b \in 1..n : s[b] = F[b] + more[b]
        BY <1>5, <1>6
      <3> QED
        BY ONLY <3>1, SumsPlus
    <2>5. rest = c - Planning!Total(F)
      BY <1>0 DEF Spare
    <2>6. Planning!Total(F) \in Int
      BY <1>5, SumsRelate
    <2> QED
      BY ONLY <2>3, <2>4, <2>5, <2>6
  <1>8. ASSUME NEW b \in 1..n, R[b] = 0 PROVE more[b] = 0
    <2>1. Some \in SUBSET Ahead(R, n, b)
      BY <1>2, <1>8 DEF Ahead
    <2>2. IsFiniteSet(Ahead(R, n, b)) /\ rank(b) \in Nat
      BY <1>2, RankIs, FS_CardinalityType
    <2>3. Cardinality(Some) <= rank(b)
      <3> HIDE DEF Some
      <3> QED
        BY <2>1, <2>2, FS_Subset
    <2>4. ~(rank(b) < rest)
      <3> HIDE DEF Some, rank
      <3> QED
        BY <1>2, <1>3, <2>2, <2>3
    <2> QED
      BY <2>4
  <1>9. ASSUME NEW b \in 1..n
        PROVE  /\ w[b] = 0 => s[b] = 0
               /\ -total < s[b] * total - c * w[b] /\ s[b] * total - c * w[b] < total
    <2>1. PICK f \in Nat, r \in Nat, x \in {0, 1}, v \in Nat :
            f = F[b] /\ r = R[b] /\ x = more[b] /\ v = w[b]
      BY <1>2, <1>5
    <2>2. r < total /\ c * v = total * f + r /\ (r = 0 => x = 0) /\ s[b] = f + x
      <3> HIDE DEF more
      <3> QED
        BY <1>2, <1>6, <1>8, <2>1
    <2>3. v = 0 => f = 0 /\ r = 0
      <3> SUFFICES ASSUME v = 0 PROVE f = 0 /\ r = 0
        OBVIOUS
      <3>1. total * f + r = 0 /\ total * f >= 0
        BY <2>2
      <3>2. total * f = 0 /\ r = 0
        BY <3>1
      <3>3. f > 0 => total * f > total * 0
        BY TimesLarger
      <3> QED
        BY <3>2, <3>3
    <2>4. s[b] * total - c * v = x * total - r
      <3>1. (f + x) * total = f * total + x * total
        BY Distributes
      <3>2. f * total = total * f
        OBVIOUS
      <3>3. PICK y \in Int, z \in Int : y = total * f /\ z = x * total
        OBVIOUS
      <3> QED
        BY ONLY <2>2, <3>1, <3>2, <3>3
    <2>5. -total < x * total - r /\ x * total - r < total
      <3>1. CASE x = 0
        BY <2>2, <3>1
      <3>2. CASE x = 1
        BY <2>2, <3>2
      <3> QED
        BY <3>1, <3>2
    <2> HIDE DEF more
    <2>6. v = 0 => s[b] = 0
      BY <2>2, <2>3
    <2> QED
      BY <2>1, <2>4, <2>5, <2>6
  <1>10. ASSUME NEW a \in 1..n, NEW b \in 1..n, w[b] < w[a] PROVE s[b] <= s[a]
    <2>1. PICK f \in Nat, r \in Nat, x \in {0, 1}, v \in Nat :
            f = F[b] /\ r = R[b] /\ x = more[b] /\ v = w[b]
      BY <1>2, <1>5
    <2>2. PICK g \in Nat, q \in Nat, y \in {0, 1}, u \in Nat :
            g = F[a] /\ q = R[a] /\ y = more[a] /\ u = w[a]
      BY <1>2, <1>5
    <2>3. /\ r < total /\ c * v = total * f + r /\ (r = 0 => x = 0) /\ s[b] = f + x
          /\ q < total /\ c * u = total * g + q /\ s[a] = g + y
      <3> HIDE DEF more
      <3> QED
        BY <1>2, <1>6, <1>8, <2>1, <2>2
    <2>4. v < u
      BY <1>10, <2>1, <2>2
    <2>5. total * f + r <= total * g + q
      <3>1. c * v <= c * u
        BY <2>4, TimesMore
      <3> QED
        BY <2>3, <3>1
    <2>6. f <= g
      <3> SUFFICES ASSUME g + 1 <= f PROVE FALSE
        OBVIOUS
      <3>1. total * (g + 1) <= total * f
        BY TimesMore, total \in Nat, g + 1 \in Int
      <3>2. total * (g + 1) = total * g + total
        BY Distributes
      <3>3. PICK m \in Int, k \in Int : m = total * f /\ k = total * g
        OBVIOUS
      <3>4. k + total <= m /\ m + r <= k + q /\ q < total
        BY <2>3, <2>5, <3>1, <3>2, <3>3
      <3> QED
        BY ONLY <3>3, <3>4
    <2>7. f = g => x <= y
      <3> SUFFICES ASSUME f = g PROVE x <= y
        OBVIOUS
      <3>1. r <= q
        <4>1. PICK m \in Int : m = total * f
          OBVIOUS
        <4> QED
          BY <2>5, <4>1
      <3>2. CASE r < q
        <4>1. a \in Ahead(R, n, b)
          BY <2>1, <2>2, <3>2 DEF Ahead
        <4>2. rank(a) < rank(b)
          BY <1>2, <4>1, RankIs
        <4>4. rank(a) \in Int /\ rank(b) \in Int
          <5>1. IsFiniteSet(Ahead(R, n, a)) /\ IsFiniteSet(Ahead(R, n, b))
            BY <1>2, RankIs
          <5> QED
            BY <5>1, FS_CardinalityType
        <4>3. more[b] = 1 => more[a] = 1
          <5> HIDE DEF rank
          <5> QED
            BY <1>2, <4>2, <4>4
        <4> QED
          BY <2>1, <2>2, <4>3
      <3>3. CASE r = q
        <4>1. c * v = c * u
          BY <2>3, <3>3
        <4>2. c = 0
          <5> SUFFICES ASSUME c # 0 PROVE FALSE
            OBVIOUS
          <5>1. c * v < c * u
            BY <2>4, TimesLarger
          <5> QED
            BY <4>1, <5>1
        <4>3. r = 0
          <5>1. total * f + r = 0 /\ total * f >= 0
            BY <2>3, <4>2
          <5>2. PICK m \in Int : m = total * f
            OBVIOUS
          <5> QED
            BY <5>1, <5>2
        <4> QED
          BY <2>3, <4>3
      <3> QED
        BY <3>1, <3>2, <3>3
    <2>8. f + x <= g + y
      BY <2>6, <2>7
    <2> QED
      BY ONLY <2>3, <2>8
  <1>11. \A b \in 1..n : (w[b] = 0 => s[b] = 0) /\ Near(s[b], total, c, w[b])
    BY <1>9 DEF Near
  <1> QED
    BY <1>6, <1>7, <1>10, <1>11
\* Noughts add up to nothing, and what is not all noughts does not.
LEMMA SumsSome ==
  ASSUME NEW n \in Nat, NEW f \in [1..n -> Nat]
  PROVE  /\ (\A k \in 1..n : f[k] = 0) => Planning!Total(f) = 0
         /\ (\E k \in 1..n : f[k] # 0) => Planning!Total(f) \in Nat \ {0}
         /\ Planning!Total(f) \in Nat
  <1> DEFINE none == [k \in 1..n |-> 0]
  <1>1. Planning!Total(none) = 0
    <2>1. none \in [1..n -> {0, 1}] /\ {k \in 1..n : none[k] = 1} = {}
      OBVIOUS
    <2> HIDE DEF none
    <2> QED
      BY <2>1, SumCounts, FS_EmptySet
  <1>2. none \in [1..n -> Int] /\ f \in [1..n -> Int] /\ \A k \in 1..n : f[k] \in Nat /\ none[k] = 0
    OBVIOUS
  <1>3. Planning!Total(f) \in Nat
    BY <1>2, SumsRelate
  <1>4. ASSUME \A k \in 1..n : f[k] = 0 PROVE Planning!Total(f) = 0
    <2>1. f = none
      BY <1>4
    <2> QED
      BY <1>1, <2>1
  <1>5. ASSUME NEW j \in 1..n, f[j] # 0 PROVE Planning!Total(f) \in Nat \ {0}
    <2>1. (\A k \in 1..n : none[k] <= f[k]) /\ none[j] < f[j]
      BY <1>2, <1>5
    <2> HIDE DEF none
    <2>2. Planning!Total(none) < Planning!Total(f)
      BY <1>2, <2>1, SumsRelate
    <2> QED
      BY <1>1, <1>3, <2>2
  <1> QED
    BY <1>3, <1>4, <1>5

\* What is multiplied may be multiplied in another order.
LEMMA Reorders ==
  ASSUME NEW a \in Int, NEW b \in Int, NEW c \in Int
  PROVE  /\ a * b \in Int /\ a * b = b * a
         /\ (a * b) * c = (a * c) * b
         /\ (a * b) * c = a * (b * c)
  OBVIOUS

\* A sequence appended to none.
LEMMA Padded ==
  ASSUME NEW n \in Nat, NEW S, NEW f \in [1..n -> S]
  PROVE  <<>> \o f = f
  <1>1. f \in Seq(S) /\ Len(f) = n /\ f = [i \in 1..n |-> f[i]]
    OBVIOUS
  <1>2. Len(<<>>) = 0
    OBVIOUS
  <1>3. <<>> \o f = [i \in 1..n |-> f[i]]
    BY <1>1
  <1> QED
    BY <1>1, <1>3

\* A pack's excerpts are a list of sections that are not empty, and a draft's
\* beats cite some of them or what is none, and weigh something.
Beats == [cites : ((SUBSET (1..Len(Planning!excerpts))) \ {{}}) \cup {{Planning!Invented}},
          weight : BeatWeights]
Drafted(n) == n \in Nat /\ draft \in [1..n -> Beats]
Sourced(m) ==
  /\ m \in Nat /\ m = Len(Planning!excerpts) /\ DOMAIN Planning!excerpts = 1..m
  /\ \A e \in 1..m : Planning!excerpts[e].length \in Nat \ {0}

LEMMA BeatIs ==
  ASSUME NEW n, Drafted(n)
  PROVE  /\ DOMAIN draft = 1..n
         /\ \A b \in 1..n : draft[b].weight \in Nat \ {0}
         /\ Planning!Invented \notin UNION {draft[b].cites : b \in DOMAIN draft} =>
              \A b \in 1..n : draft[b].cites # {} /\ draft[b].cites \subseteq 1..Len(Planning!excerpts)
  <1>1. DOMAIN draft = 1..n /\ \A b \in 1..n : draft[b] \in Beats
    BY DEF Drafted
  <1>2. BeatWeights \subseteq Nat \ {0}
    BY Zenon, LabsAssumption DEF LabsAssumption
  <1>3. \A b \in 1..n : /\ draft[b].weight \in BeatWeights
                        /\ draft[b].cites \in ((SUBSET (1..Len(Planning!excerpts))) \ {{}}) \cup {{Planning!Invented}}
    BY <1>1 DEF Beats
  <1>4. ASSUME Planning!Invented \notin UNION {draft[b].cites : b \in DOMAIN draft}, NEW b \in 1..n
        PROVE  draft[b].cites # {} /\ draft[b].cites \subseteq 1..Len(Planning!excerpts)
    <2>1. draft[b].cites # {Planning!Invented}
      BY <1>1, <1>4
    <2>2. draft[b].cites \in (SUBSET (1..Len(Planning!excerpts))) \ {{}}
      BY <1>3, <2>1
    <2> QED
      BY ONLY <2>2
  <1> QED
    BY <1>1, <1>2, <1>3, <1>4
LEMMA AllocatesNothing ==
  ASSUME NEW c \in Nat, NEW n \in Nat, NEW w \in [1..n -> Nat], Planning!Total(w) = 0
  PROVE  Planning!allocateCharacters(c, w) = [b \in 1..n |-> 0]
  <1> DEFINE G(b) == ((c * w[b]) \div Planning!Total(w)) +
                (IF Planning!Cardinality({a \in DOMAIN w :
                       \/ (c * w[a]) % Planning!Total(w) > (c * w[b]) % Planning!Total(w)
                       \/ /\ (c * w[a]) % Planning!Total(w) = (c * w[b]) % Planning!Total(w)
                          /\ a < b})
                    < c - Planning!Total([x \in DOMAIN w |-> (c * w[x]) \div Planning!Total(w)])
                 THEN 1 ELSE 0)
  <1>1. Planning!allocateCharacters(c, w) =
          [b \in DOMAIN w |-> IF Planning!Total(w) = 0 THEN 0 ELSE G(b)]
    BY Zenon DEF Planning!allocateCharacters
  <1> HIDE DEF G
  <1>2. DOMAIN w = 1..n
    OBVIOUS
  <1> QED
    BY <1>1, <1>2

\* Of an excerpt that is cited every character is shared out, among those who cite
\* it and by what they weigh; of another none is.
Cites(b, e) == e \in draft[b].cites

LEMMA ShareIs ==
  ASSUME NEW n, Drafted(n), NEW m, Sourced(m), NEW e \in 1..m
  PROVE  LET s == Planning!Shares(e)
             w == Planning!WeightsOn(e)
             c == Planning!excerpts[e].length
         IN  /\ s \in [1..n -> Nat] /\ w \in [1..n -> Nat]
             /\ (\E b \in 1..n : Cites(b, e)) => Planning!Total(s) = c
             /\ (\A b \in 1..n : ~Cites(b, e)) => Planning!Total(s) = 0
             /\ \A b \in 1..n : ~Cites(b, e) => s[b] = 0
             /\ \A b \in 1..n : Cites(b, e) => Near(s[b], Planning!Total(w), c, draft[b].weight)
             /\ \A a, b \in 1..n : (Cites(b, e) => Cites(a, e)) /\ draft[b].weight < draft[a].weight
                  => s[b] <= s[a]
  <1>1. PICK c \in Nat : c = Planning!excerpts[e].length
    BY DEF Sourced
  <1>2. n \in Nat /\ DOMAIN draft = 1..n /\ \A b \in 1..n : draft[b].weight \in Nat \ {0}
    BY BeatIs DEF Drafted
  <1>3. PICK w : w = Planning!WeightsOn(e)
    OBVIOUS
  <1>4. w = [b \in 1..n |-> IF Cites(b, e) THEN draft[b].weight ELSE 0]
    BY <1>2, <1>3 DEF Planning!WeightsOn, Cites
  <1>5. w \in [1..n -> Nat]
    BY <1>2, <1>4
  <1>6. <<>> \o w = w
    BY <1>2, <1>5, Padded
  <1>7. PICK s : s = Planning!allocateCharacters(c, w)
    OBVIOUS
  <1>8. Planning!Shares(e) = s
    BY <1>1, <1>3, <1>6, <1>7 DEF Planning!Shares
  <1>9. CASE \E b \in 1..n : Cites(b, e)
    <2>1. Planning!Total(w) \in Nat \ {0}
      <3>1. \E b \in 1..n : w[b] # 0
        BY <1>2, <1>4, <1>9
      <3> QED
        BY <1>2, <1>5, <3>1, SumsSome
    <2>2. PICK total \in Nat \ {0} : total = Planning!Total(w)
      BY <2>1
    <2>3. /\ s \in [1..n -> Nat]
          /\ Planning!Total(s) = c
          /\ \A b \in 1..n : /\ w[b] = 0 => s[b] = 0
                             /\ Near(s[b], total, c, w[b])
          /\ \A a, b \in 1..n : w[b] < w[a] => s[b] <= s[a]
      <3>1. c \in Nat
        BY <1>1
      <3> QED
        BY ONLY <1>2, <1>5, <1>7, <2>2, <3>1, SharedOut
    <2>4. \A b \in 1..n : ~Cites(b, e) => s[b] = 0
      BY <1>4, <2>3
    <2>5. ASSUME NEW b \in 1..n, Cites(b, e)
          PROVE  Near(s[b], total, c, draft[b].weight)
      <3>1. w[b] = draft[b].weight
        BY <1>4, <2>5
      <3> QED
        BY ONLY <2>3, <3>1, b \in 1..n
    <2>6. ASSUME NEW a \in 1..n, NEW b \in 1..n, Cites(b, e) => Cites(a, e),
                 draft[b].weight < draft[a].weight
          PROVE  s[b] <= s[a]
      <3>1. CASE Cites(b, e)
        <4>1. w[b] < w[a]
          BY <1>4, <2>6, <3>1
        <4> QED
          BY ONLY <2>3, <4>1, a \in 1..n, b \in 1..n
      <3>2. CASE ~Cites(b, e)
        <4>1. s[b] = 0 /\ s[a] \in Nat
          BY <2>3, <2>4, <3>2
        <4> QED
          BY <4>1
      <3> QED
        BY <3>1, <3>2
    <2>7. Planning!Total(s) = c /\ s \in [1..n -> Nat]
      BY ONLY <2>3
    <2> QED
      BY ONLY <1>1, <1>3, <1>5, <1>8, <1>9, <2>2, <2>4, <2>5, <2>6, <2>7
  <1>10. CASE \A b \in 1..n : ~Cites(b, e)
    <2>1. Planning!Total(w) = 0
      BY <1>2, <1>4, <1>5, <1>10, SumsSome
    <2>2. s = [b \in 1..n |-> 0]
      BY <1>2, <1>5, <1>7, <2>1, AllocatesNothing
    <2>3. s \in [1..n -> Nat] /\ \A b \in 1..n : s[b] = 0
      BY <2>2
    <2>4. Planning!Total(s) = 0
      BY <1>2, <2>3, SumsSome
    <2> QED
      BY <1>1, <1>3, <1>5, <1>8, <1>10, <2>3, <2>4
  <1> QED
    BY <1>9, <1>10
\* What apportion() returns, its sequences evaluated.
Apportioned(m) == [e \in 1..m |-> Planning!Shares(e)]
Allocated(n, m) == [b \in 1..n |-> Planning!Total([e \in 1..m |-> Planning!Shares(e)[b]])]
Desired(n) == [b \in 1..n |-> Requested * draft[b].weight * CharsPerSecond]
Supportable(n, m) == [b \in 1..n |-> Expansion * Allocated(n, m)[b] * Planning!totalWeight]
Thin(n, m) == {b \in 1..n : Desired(n)[b] > Supportable(n, m)[b]}

LEMMA PlanIs ==
  ASSUME NEW n, Drafted(n), NEW m, Sourced(m)
  PROVE  /\ Planning!apportion =
              [shares |-> Apportioned(m), allocatedCharacters |-> Allocated(n, m),
               thinBeats |-> Thin(n, m),
               plannedSeconds |-> Planning!Total([b \in 1..n |->
                 IF b \in Thin(n, m) THEN Supportable(n, m)[b] ELSE Desired(n)[b]])]
         /\ Allocated(n, m) \in [1..n -> Nat]
  <1>1. DOMAIN draft = 1..n /\ DOMAIN Planning!excerpts = 1..m /\ n \in Nat /\ m \in Nat
    BY BeatIs DEF Drafted, Sourced
  <1>2. ASSUME NEW e \in 1..m PROVE Planning!Shares(e) \in [1..n -> Nat]
    BY ShareIs
  <1>3. ASSUME NEW e \in 1..m PROVE <<>> \o Planning!Shares(e) = Planning!Shares(e)
    BY <1>1, <1>2, Padded
  <1>4. [e \in 1..m |-> <<>> \o Planning!Shares(e)] = Apportioned(m)
    BY <1>3 DEF Apportioned
  <1>5. <<>> \o Apportioned(m) = Apportioned(m)
    <2>1. Apportioned(m) \in [1..m -> [1..n -> Nat]]
      BY <1>2 DEF Apportioned
    <2> QED
      BY <1>1, <2>1, Padded
  <1>6. \A b \in 1..n : [e \in 1..m |-> Apportioned(m)[e][b]] = [e \in 1..m |-> Planning!Shares(e)[b]]
    BY DEF Apportioned
  <1>7. ASSUME NEW b \in 1..n PROVE Planning!Total([e \in 1..m |-> Planning!Shares(e)[b]]) \in Nat
    <2> DEFINE f == [e \in 1..m |-> Planning!Shares(e)[b]]
    <2>1. f \in [1..m -> Nat]
      BY <1>2
    <2> HIDE DEF f
    <2>2. Planning!Total(f) \in Nat
      BY <1>1, <2>1, SumsSome
    <2> QED
      BY <2>2 DEF f
  <1>8. Allocated(n, m) \in [1..n -> Nat]
    BY <1>7 DEF Allocated
  <1>9. [b \in 1..n |-> Planning!Total([e \in 1..m |-> Apportioned(m)[e][b]])] = Allocated(n, m)
    BY <1>6 DEF Allocated
  <1>10. <<>> \o Allocated(n, m) = Allocated(n, m)
    BY <1>1, <1>8, Padded
  <1> DEFINE shares == <<>> \o [e \in DOMAIN Planning!excerpts |-> <<>> \o Planning!Shares(e)]
             allocated == <<>> \o [b \in DOMAIN draft |->
                            Planning!Total([e \in DOMAIN Planning!excerpts |-> shares[e][b]])]
             desired(b) == Requested * draft[b].weight * CharsPerSecond
             supportable(b) == Expansion * allocated[b] * Planning!totalWeight
             thin == {b \in DOMAIN draft : desired(b) > supportable(b)}
             planned == Planning!Total([b \in DOMAIN draft |->
                          IF b \in thin THEN supportable(b) ELSE desired(b)])
  <1>11. Planning!apportion = [shares |-> shares, allocatedCharacters |-> allocated,
                               thinBeats |-> thin, plannedSeconds |-> planned]
    BY DEF Planning!apportion
  <1>12. shares = Apportioned(m)
    BY <1>1, <1>4, <1>5
  <1> HIDE DEF shares
  <1>13. allocated = Allocated(n, m)
    BY <1>1, <1>9, <1>10, <1>12
  <1> HIDE DEF allocated
  <1>14. \A b \in 1..n : desired(b) = Desired(n)[b] /\ supportable(b) = Supportable(n, m)[b]
    BY <1>13 DEF Desired, Supportable
  <1> HIDE DEF desired, supportable
  <1>15. thin = Thin(n, m)
    BY <1>1, <1>14 DEF Thin
  <1> HIDE DEF thin
  <1>16. [b \in DOMAIN draft |-> IF b \in thin THEN supportable(b) ELSE desired(b)] =
         [b \in 1..n |-> IF b \in Thin(n, m) THEN Supportable(n, m)[b] ELSE Desired(n)[b]]
    BY <1>1, <1>14, <1>15
  <1>17. planned = Planning!Total([b \in 1..n |->
                     IF b \in Thin(n, m) THEN Supportable(n, m)[b] ELSE Desired(n)[b]])
    BY <1>16
  <1> HIDE DEF planned
  <1> QED
    BY <1>8, <1>11, <1>12, <1>13, <1>15, <1>17

\* Every character of what is cited is allocated, and a heavier beat that cites as
\* much has no less of it.
LEMMA AllocatedAll ==
  ASSUME NEW n, Drafted(n), NEW m, Sourced(m)
  PROVE  LET cited == UNION {draft[b].cites : b \in DOMAIN draft}
         IN  /\ Planning!Total(Allocated(n, m)) =
                  Planning!Total([e \in DOMAIN Planning!excerpts |->
                    IF e \in cited THEN Planning!excerpts[e].length ELSE 0])
             /\ \A a, b \in 1..n :
                  draft[b].cites \subseteq draft[a].cites /\ draft[b].weight < draft[a].weight
                    => Allocated(n, m)[b] <= Allocated(n, m)[a]
  <1> DEFINE cited == UNION {draft[b].cites : b \in DOMAIN draft}
             had == [e \in 1..m |-> IF e \in cited THEN Planning!excerpts[e].length ELSE 0]
             M == Apportioned(m)
             rows == [e \in 1..m |-> Planning!Total([b \in 1..n |-> M[e][b]])]
             columns == [b \in 1..n |-> Planning!Total([e \in 1..m |-> M[e][b]])]
  <1>1. DOMAIN draft = 1..n /\ DOMAIN Planning!excerpts = 1..m /\ n \in Nat /\ m \in Nat
    BY BeatIs DEF Drafted, Sourced
  <1>2. M \in [1..m -> [1..n -> Nat]] /\ \A e \in 1..m : M[e] = Planning!Shares(e)
    <2>1. \A e \in 1..m : Planning!Shares(e) \in [1..n -> Nat]
      BY ShareIs
    <2> QED
      BY <2>1 DEF Apportioned
  <1>3. columns = Allocated(n, m)
    BY DEF Apportioned, Allocated
  <1> HIDE DEF M
  <1>4. rows = had
    <2>1. ASSUME NEW e \in 1..m PROVE Planning!Total([b \in 1..n |-> M[e][b]]) = had[e]
      <3>1. [b \in 1..n |-> M[e][b]] = Planning!Shares(e)
        BY <1>2
      <3>2. CASE e \in cited
        <4>1. \E b \in 1..n : Cites(b, e)
          BY <1>1, <3>2 DEF Cites
        <4> QED
          BY <3>1, <3>2, <4>1, ShareIs
      <3>3. CASE e \notin cited
        <4>1. \A b \in 1..n : ~Cites(b, e)
          BY <1>1, <3>3 DEF Cites
        <4> QED
          BY <3>1, <3>3, <4>1, ShareIs
      <3> QED
        BY <3>2, <3>3
    <2> HIDE DEF cited
    <2> QED
      BY <2>1
  <1>5. Planning!Total(rows) = Planning!Total(columns)
    <2>1. M \in [1..m -> [1..n -> Int]]
      BY <1>2
    <2> QED
      BY <1>1, <2>1, SumsSwap
  <1>6. ASSUME NEW a \in 1..n, NEW b \in 1..n,
               draft[b].cites \subseteq draft[a].cites, draft[b].weight < draft[a].weight
        PROVE  Allocated(n, m)[b] <= Allocated(n, m)[a]
    <2> DEFINE of(x) == [e \in 1..m |-> M[e][x]]
    <2>1. \A e \in 1..m : of(b)[e] <= of(a)[e]
      <3> SUFFICES ASSUME NEW e \in 1..m PROVE Planning!Shares(e)[b] <= Planning!Shares(e)[a]
        BY <1>2
      <3>1. Cites(b, e) => Cites(a, e)
        BY <1>6 DEF Cites
      <3> QED
        BY <1>6, <3>1, ShareIs
    <2>2. of(b) \in [1..m -> Int] /\ of(a) \in [1..m -> Int]
      <3>1. \A e \in 1..m : M[e] \in [1..n -> Nat]
        BY <1>2
      <3>2. ASSUME NEW e \in 1..m PROVE M[e][b] \in Int /\ M[e][a] \in Int
        <4>1. M[e] \in [1..n -> Nat]
          BY <3>1
        <4>2. \A f \in [1..n -> Nat] : f[b] \in Int /\ f[a] \in Int
          OBVIOUS
        <4> QED
          BY ONLY <4>1, <4>2
      <3> QED
        BY <3>2
    <2>3. Allocated(n, m)[b] = Planning!Total(of(b)) /\ Allocated(n, m)[a] = Planning!Total(of(a))
      BY <1>3
    <2> HIDE DEF of
    <2> QED
      BY <1>1, <2>1, <2>2, <2>3, SumsRelate
  <1>7. Planning!Total(Allocated(n, m)) = Planning!Total(had)
    <2> HIDE DEF rows, had, columns
    <2> QED
      BY <1>3, <1>4, <1>5
  <1> QED
    BY <1>1, <1>6, <1>7
\* A plan is as long as requested where the beat's share supports it, and as long
\* as it supports where not.
LEMMA PlannedIs ==
  ASSUME NEW n, Drafted(n), NEW m, Sourced(m), NEW quoted \in Nat \ {0},
         Planning!Total(Allocated(n, m)) = quoted
  PROVE  LET planned == Planning!Total([b \in 1..n |->
               IF b \in Thin(n, m) THEN Supportable(n, m)[b] ELSE Desired(n)[b]])
         IN  /\ planned \in Nat \ {0}
             /\ planned <= Requested * Planning!Unit
             /\ planned <= Expansion * quoted * Planning!totalWeight
             /\ Thin(n, m) = {} <=> planned = Requested * Planning!Unit
             /\ Planning!Unit \in Nat \ {0}
  <1>1. /\ Requested \in Nat \ {0} /\ Expansion \in Nat \ {0} /\ CharsPerSecond \in Nat \ {0}
    BY Zenon, LabsAssumption DEF LabsAssumption
  <1>2. n \in Nat /\ DOMAIN draft = 1..n /\ \A b \in 1..n : draft[b].weight \in Nat \ {0}
    BY BeatIs DEF Drafted
  <1> DEFINE w == [b \in 1..n |-> draft[b].weight]
             d == Desired(n)
             s == Supportable(n, m)
             p == [b \in 1..n |-> IF b \in Thin(n, m) THEN s[b] ELSE d[b]]
  <1>3. PICK a \in [1..n -> Nat] : a = Allocated(n, m)
    BY PlanIs
  <1>4. PICK t : t = Planning!totalWeight
    OBVIOUS
  <1>5. w \in [1..n -> Nat] /\ t = Planning!Total(w)
    BY <1>2, <1>4 DEF Planning!totalWeight
  <1>6. n # 0
    <2> SUFFICES ASSUME n = 0 PROVE FALSE
      OBVIOUS
    <2>1. Planning!Total(a) = 0
      <3>1. \A b \in 1..n : a[b] = 0
        OBVIOUS
      <3> QED
        BY <1>2, <3>1, SumsSome
    <2> QED
      BY <1>3, <2>1
  <1>7. t \in Nat \ {0}
    <2>1. 1 \in 1..n /\ w[1] # 0
      BY <1>2, <1>6
    <2> HIDE DEF w
    <2> QED
      BY <1>2, <1>5, <2>1, SumsSome
  <1>8. PICK unit \in Nat \ {0} : unit = Planning!Unit /\ unit = t * CharsPerSecond
    <2>1. t * CharsPerSecond \in Nat \ {0}
      <3>1. CharsPerSecond * 0 < CharsPerSecond * t
        BY <1>1, <1>7, TimesLarger
      <3> QED
        BY <1>1, <1>7, <3>1
    <2> QED
      BY <1>4, <2>1 DEF Planning!Unit
  <1>9. d \in [1..n -> Nat] /\ Planning!Total(d) = Requested * unit /\ \A b \in 1..n : d[b] # 0
    <2>1. PICK c \in Nat \ {0} : c = Requested * CharsPerSecond
      <3>1. Requested * 0 < Requested * CharsPerSecond
        BY <1>1, TimesLarger
      <3> QED
        BY <1>1, <3>1
    <2>2. ASSUME NEW b \in 1..n PROVE d[b] = c * w[b] /\ c * w[b] \in Nat \ {0}
      <3>1. PICK x \in Nat \ {0} : x = draft[b].weight
        BY <1>2
      <3>2. d[b] = Requested * x * CharsPerSecond
        BY <3>1 DEF Desired
      <3>3. (Requested * x) * CharsPerSecond = (Requested * CharsPerSecond) * x
        BY <1>1, Reorders
      <3>4. c * 0 < c * x
        BY TimesLarger
      <3> QED
        BY <2>1, <3>1, <3>2, <3>3, <3>4
    <2>3. d = [b \in 1..n |-> c * w[b]]
      <3>1. d = [b \in 1..n |-> d[b]]
        BY DEF Desired
      <3> HIDE DEF d
      <3> QED
        BY <2>2, <3>1
    <2>4. Planning!Total(d) = c * t
      <3>1. w \in [1..n -> Int] /\ c \in Int
        BY <1>5
      <3> HIDE DEF w, d
      <3> QED
        BY <1>2, <1>5, <2>3, <3>1, SumsTimes
    <2>5. c * t = Requested * unit
      <3>1. (Requested * CharsPerSecond) * t = (Requested * t) * CharsPerSecond
        BY <1>1, <1>7, Reorders
      <3>2. (Requested * t) * CharsPerSecond = Requested * (t * CharsPerSecond)
        BY <1>1, <1>7, Reorders
      <3> QED
        BY <1>8, <2>1, <3>1, <3>2
    <2> HIDE DEF d, w
    <2> QED
      BY <2>2, <2>3, <2>4, <2>5
  <1>10. s \in [1..n -> Nat] /\ Planning!Total(s) = Expansion * quoted * t
         /\ \A b \in 1..n : a[b] # 0 => s[b] # 0
    <2>1. PICK c \in Nat \ {0} : c = Expansion * t
      <3>1. Expansion * 0 < Expansion * t
        BY <1>1, <1>7, TimesLarger
      <3> QED
        BY <1>1, <1>7, <3>1
    <2>2. ASSUME NEW b \in 1..n PROVE s[b] = c * a[b] /\ c * a[b] \in Nat /\ (a[b] # 0 => c * a[b] # 0)
      <3>1. PICK x \in Nat : x = a[b]
        OBVIOUS
      <3>2. s[b] = Expansion * x * t
        BY <1>3, <1>4, <3>1 DEF Supportable
      <3>3. (Expansion * x) * t = (Expansion * t) * x
        BY <1>1, <1>7, Reorders
      <3>4. x # 0 => c * 0 < c * x
        BY TimesLarger
      <3> QED
        BY <2>1, <3>1, <3>2, <3>3, <3>4
    <2>3. s = [b \in 1..n |-> c * a[b]]
      <3>1. s = [b \in 1..n |-> s[b]]
        BY DEF Supportable
      <3> HIDE DEF s
      <3> QED
        BY <2>2, <3>1
    <2>4. Planning!Total(s) = c * quoted
      <3>1. a \in [1..n -> Int] /\ c \in Int /\ Planning!Total(a) = quoted
        BY <1>3
      <3> HIDE DEF s
      <3> QED
        BY <1>2, <2>3, <3>1, SumsTimes
    <2>5. c * quoted = Expansion * quoted * t
      BY <1>1, <1>7, <2>1, Reorders
    <2> HIDE DEF s
    <2> QED
      BY <2>2, <2>3, <2>4, <2>5
  <1>11. Thin(n, m) = {b \in 1..n : d[b] > s[b]}
    BY DEF Thin
  <1> HIDE DEF d, s, w
  <1>12. p \in [1..n -> Nat] /\ \A b \in 1..n : p[b] <= d[b] /\ p[b] <= s[b]
    <2>1. \A b \in 1..n : d[b] \in Nat /\ s[b] \in Nat
      BY <1>9, <1>10
    <2> QED
      BY <1>11, <2>1
  <1>13. Planning!Total(p) <= Planning!Total(d) /\ Planning!Total(p) <= Planning!Total(s)
    <2>1. p \in [1..n -> Int] /\ d \in [1..n -> Int] /\ s \in [1..n -> Int]
      BY <1>9, <1>10, <1>12
    <2> HIDE DEF p
    <2> QED
      BY <1>2, <1>12, <2>1, SumsRelate
  <1>14. Planning!Total(p) \in Nat \ {0}
    <2>1. \E b \in 1..n : a[b] # 0
      <3> SUFFICES ASSUME \A b \in 1..n : a[b] = 0 PROVE FALSE
        OBVIOUS
      <3>1. Planning!Total(a) = 0
        BY <1>2, SumsSome
      <3> QED
        BY <1>3, <3>1
    <2>2. PICK b \in 1..n : a[b] # 0
      BY <2>1
    <2>3. p[b] # 0
      BY <1>9, <1>10, <2>2
    <2> HIDE DEF p
    <2> QED
      BY <1>2, <1>12, <2>3, SumsSome
  <1>15. Thin(n, m) = {} <=> Planning!Total(p) = Planning!Total(d)
    <2>1. ASSUME Thin(n, m) = {} PROVE Planning!Total(p) = Planning!Total(d)
      <3>1. p = d
        BY <1>9, <2>1
      <3> QED
        BY <3>1
    <2>2. ASSUME NEW b \in Thin(n, m) PROVE Planning!Total(p) # Planning!Total(d)
      <3>1. b \in 1..n /\ p[b] < d[b]
        BY <1>9, <1>10, <1>11
      <3>2. p \in [1..n -> Int] /\ d \in [1..n -> Int]
        BY <1>9, <1>12
      <3> HIDE DEF p
      <3>3. Planning!Total(p) < Planning!Total(d)
        BY <1>2, <1>12, <3>1, <3>2, SumsRelate
      <3>4. Planning!Total(p) \in Int /\ Planning!Total(d) \in Int
        BY <1>2, <3>2, SumsRelate
      <3> QED
        BY <3>3, <3>4
    <2> QED
      BY <2>1, <2>2
  <1> QED
    BY <1>4, <1>8, <1>9, <1>10, <1>13, <1>14, <1>15 DEF p, d, s
\* As many segments as maxSegments() says are rendered below the ceiling, and
\* not one more.
LEMMA SegmentsFit ==
  ASSUME NEW unit \in Nat \ {0}, unit = Planning!Unit, NEW planned \in Nat, NEW q,
         q = Planning!maxSegments(planned)
  PROVE  /\ q * Fixed * unit + Marginal * planned <= Ceiling * unit
         /\ (q + 1) * Fixed * unit + Marginal * planned > Ceiling * unit
  <1>1. Fixed \in Nat \ {0} /\ Ceiling \in Nat \ {0} /\ Marginal \in Nat
    BY Zenon, LabsAssumption DEF LabsAssumption
  <1>2. PICK d \in Nat \ {0} : d = Fixed * unit
    <2>1. Fixed * 0 < Fixed * unit
      BY <1>1, TimesLarger
    <2> QED
      BY <1>1, <2>1
  <1>3. PICK c \in Nat, r \in Nat : c = Ceiling * unit /\ r = Marginal * planned
    BY <1>1
  <1>4. q = (c - r) \div d
    BY <1>2, <1>3 DEF Planning!maxSegments
  <1>5. q \in Int /\ c - r = d * q + ((c - r) % d) /\ (c - r) % d \in 0..(d - 1)
    <2>1. PICK x \in Int : x = c - r
      OBVIOUS
    <2>2. x = d * (x \div d) + (x % d) /\ x % d \in 0..(d - 1) /\ x \div d \in Int
      OBVIOUS
    <2> QED
      BY <1>4, <2>1, <2>2
  <1>6. q * Fixed * unit = d * q /\ (q + 1) * Fixed * unit = d * q + d
    <2>1. (q * Fixed) * unit = q * (Fixed * unit)
      BY <1>1, <1>5, Reorders
    <2>2. ((q + 1) * Fixed) * unit = (q + 1) * (Fixed * unit)
      BY <1>1, <1>5, Reorders
    <2>3. (q + 1) * d = q * d + 1 * d /\ q * d = d * q
      BY <1>5, Distributes
    <2> QED
      BY <1>2, <1>5, <2>1, <2>2, <2>3
  <1>7. PICK y \in Int, z \in 0..(d - 1) : y = d * q /\ z = (c - r) % d
    BY <1>5
  <1>8. c - r = y + z
    BY <1>5, <1>7
  <1>9. y + r <= c /\ (y + d) + r > c
    BY <1>7, <1>8
  <1> QED
    BY <1>3, <1>6, <1>7, <1>9

\* What is promised of a plan, whatever it is made from.
LEMMA PlanHolds ==
  ASSUME NEW n, Drafted(n), NEW m, Sourced(m)
  PROVE  Planning!DraftGrounded
  <1> DEFINE cited == UNION {draft[b].cites : b \in DOMAIN draft}
             quoted == Planning!Total([e \in DOMAIN Planning!excerpts |->
                       IF e \in cited THEN Planning!excerpts[e].length ELSE 0])
             plan == Planning!apportion
             planned == plan.plannedSeconds
             weightOn(e) == Planning!Total(Planning!WeightsOn(e))
             off(e, b) == plan.shares[e][b] * weightOn(e)
                            - Planning!excerpts[e].length * draft[b].weight
             render(k) == k * Fixed * Planning!Unit + Marginal * planned
  <1> SUFFICES ASSUME draft # <<>>, Planning!Invented \notin cited
               PROVE  /\ Planning!outcome(planned) # "no supporting text"
                      /\ Planning!Total(plan.allocatedCharacters) = quoted
                      /\ \A b \in DOMAIN draft, e \in DOMAIN Planning!excerpts :
                           IF e \in draft[b].cites
                           THEN -weightOn(e) < off(e, b) /\ off(e, b) < weightOn(e)
                           ELSE plan.shares[e][b] = 0
                      /\ \A a, b \in DOMAIN draft :
                           draft[b].cites \subseteq draft[a].cites /\ draft[b].weight < draft[a].weight
                             => plan.allocatedCharacters[b] <= plan.allocatedCharacters[a]
                      /\ planned <= Requested * Planning!Unit
                      /\ planned <= Expansion * quoted * Planning!totalWeight
                      /\ plan.thinBeats = {} <=> planned = Requested * Planning!Unit
                      /\ Planning!outcome(planned) = "planned" =>
                           /\ render(Planning!maxSegments(planned)) <= Ceiling * Planning!Unit
                           /\ render(Planning!maxSegments(planned) + 1) > Ceiling * Planning!Unit
    BY Zenon DEF Planning!DraftGrounded
  <1>1. /\ DOMAIN draft = 1..n /\ DOMAIN Planning!excerpts = 1..m /\ n \in Nat /\ m \in Nat
        /\ m = Len(Planning!excerpts)
        /\ \A e \in 1..m : Planning!excerpts[e].length \in Nat \ {0}
    BY BeatIs DEF Drafted, Sourced
  <1>2. \A b \in 1..n : draft[b].cites # {} /\ draft[b].cites \subseteq 1..m
    BY <1>1, BeatIs
  <1>3. 1 \in 1..n
    <2> SUFFICES ASSUME n = 0 PROVE FALSE
      BY <1>1
    <2> QED
      BY <1>1 DEF Drafted
  <1>4. quoted \in Nat \ {0}
    <2> DEFINE had == [e \in 1..m |-> IF e \in cited THEN Planning!excerpts[e].length ELSE 0]
    <2>1. PICK e \in 1..m : e \in draft[1].cites
      BY <1>2, <1>3
    <2>2. e \in cited
      BY <1>1, <1>3, <2>1
    <2> HIDE DEF cited
    <2>3. had \in [1..m -> Nat] /\ had[e] # 0
      BY <1>1, <2>2
    <2>4. quoted = Planning!Total(had)
      BY <1>1
    <2> HIDE DEF had
    <2>5. Planning!Total(had) \in Nat \ {0}
      BY <1>1, <2>3, SumsSome
    <2> QED
      BY <2>4, <2>5
  <1>5. /\ Planning!Total(Allocated(n, m)) = quoted
        /\ \A a, b \in 1..n :
             draft[b].cites \subseteq draft[a].cites /\ draft[b].weight < draft[a].weight
               => Allocated(n, m)[b] <= Allocated(n, m)[a]
    BY AllocatedAll
  <1> HIDE DEF quoted
  <1>6. /\ plan.shares = Apportioned(m) /\ plan.allocatedCharacters = Allocated(n, m)
        /\ plan.thinBeats = Thin(n, m)
        /\ planned = Planning!Total([b \in 1..n |->
             IF b \in Thin(n, m) THEN Supportable(n, m)[b] ELSE Desired(n)[b]])
    BY PlanIs
  <1> HIDE DEF plan
  <1>7. /\ planned \in Nat \ {0}
        /\ planned <= Requested * Planning!Unit
        /\ planned <= Expansion * quoted * Planning!totalWeight
        /\ Thin(n, m) = {} <=> planned = Requested * Planning!Unit
        /\ Planning!Unit \in Nat \ {0}
    BY <1>4, <1>5, <1>6, PlannedIs
  <1> HIDE DEF planned
  <1>8. Planning!outcome(planned) # "no supporting text"
    BY <1>7 DEF Planning!outcome
  <1>9. ASSUME NEW b \in 1..n, NEW e \in 1..m
        PROVE  IF e \in draft[b].cites THEN -weightOn(e) < off(e, b) /\ off(e, b) < weightOn(e)
               ELSE plan.shares[e][b] = 0
    <2>1. plan.shares[e] = Planning!Shares(e)
      BY <1>6 DEF Apportioned
    <2>2. CASE e \in draft[b].cites
      <3>1. Near(Planning!Shares(e)[b], Planning!Total(Planning!WeightsOn(e)),
                 Planning!excerpts[e].length, draft[b].weight)
        BY <2>2, ShareIs DEF Cites
      <3> QED
        BY <2>1, <2>2, <3>1 DEF Near
    <2>3. CASE e \notin draft[b].cites
      <3>1. Planning!Shares(e)[b] = 0
        BY <2>3, ShareIs DEF Cites
      <3> QED
        BY <2>1, <2>3, <3>1
    <2> QED
      BY <2>2, <2>3
  <1>10. /\ render(Planning!maxSegments(planned)) <= Ceiling * Planning!Unit
         /\ render(Planning!maxSegments(planned) + 1) > Ceiling * Planning!Unit
    <2>1. PICK unit \in Nat \ {0} : unit = Planning!Unit
      BY <1>7
    <2>2. PICK q : q = Planning!maxSegments(planned)
      OBVIOUS
    <2>3. /\ q * Fixed * unit + Marginal * planned <= Ceiling * unit
          /\ (q + 1) * Fixed * unit + Marginal * planned > Ceiling * unit
      BY <1>7, <2>1, <2>2, SegmentsFit
    <2> QED
      BY ONLY <2>1, <2>2, <2>3
  <1> HIDE DEF off, render, weightOn
  <1>11. \A a, b \in DOMAIN draft :
           draft[b].cites \subseteq draft[a].cites /\ draft[b].weight < draft[a].weight
             => plan.allocatedCharacters[b] <= plan.allocatedCharacters[a]
    BY ONLY <1>1, <1>5, <1>6
  <1>12. Planning!Total(plan.allocatedCharacters) = quoted
    BY ONLY <1>5, <1>6
  <1>13. plan.thinBeats = {} <=> planned = Requested * Planning!Unit
    BY ONLY <1>6, <1>7
  <1> QED
    BY ONLY <1>1, <1>7, <1>8, <1>9, <1>10, <1>11, <1>12, <1>13
\* One step after the other, within a set that no step leaves: there is such a
\* walk, and whatever walks like it is one.
Walk(g, N, start, step) == g[0] = start /\ \A k \in 1..N : g[k] = step[k][g[k - 1]]

LEMMA WalkExists ==
  ASSUME NEW N \in Nat, NEW S, NEW start \in S, NEW step \in [1..N -> [S -> S]]
  PROVE  \E g \in [0..N -> S] : Walk(g, N, start, step)
  <1> DEFINE T == {n \in Nat : n <= N => \E g \in [0..n -> S] : Walk(g, n, start, step)}
  <1>1. 0 \in T
    <2> DEFINE g == [k \in 0..0 |-> start]
    <2>1. g \in [0..0 -> S] /\ Walk(g, 0, start, step)
      BY DEF Walk
    <2> HIDE DEF g
    <2> QED
      BY <2>1
  <1>2. ASSUME NEW n \in Nat, n \in T PROVE n + 1 \in T
    <2> SUFFICES ASSUME n + 1 <= N
                 PROVE  \E g \in [0..(n + 1) -> S] : Walk(g, n + 1, start, step)
      OBVIOUS
    <2>1. PICK g \in [0..n -> S] : Walk(g, n, start, step)
      BY <1>2
    <2>2. n + 1 \in 1..N /\ step[n + 1] \in [S -> S] /\ g[n] \in S
      OBVIOUS
    <2> DEFINE h == [k \in 0..(n + 1) |-> IF k = n + 1 THEN step[n + 1][g[n]] ELSE g[k]]
    <2>3. h \in [0..(n + 1) -> S]
      <3>1. step[n + 1][g[n]] \in S
        BY <2>2
      <3>2. \A k \in 0..(n + 1) : k = n + 1 \/ k \in 0..n
        OBVIOUS
      <3>3. \A k \in 0..n : g[k] \in S
        OBVIOUS
      <3> QED
        BY <3>1, <3>2, <3>3
    <2>4. h[0] = start
      BY <2>1 DEF Walk
    <2>5. ASSUME NEW k \in 1..(n + 1) PROVE h[k] = step[k][h[k - 1]]
      <3>1. CASE k = n + 1
        <4>1. h[k] = step[k][g[n]] /\ h[k - 1] = g[n]
          BY <3>1
        <4> QED
          BY <4>1
      <3>2. CASE k # n + 1
        <4>1. k \in 1..n /\ k - 1 # n + 1 /\ k - 1 \in 0..(n + 1)
          BY <3>2
        <4>2. h[k] = g[k] /\ h[k - 1] = g[k - 1]
          BY <3>2, <4>1
        <4>3. g[k] = step[k][g[k - 1]]
          BY <2>1, <4>1 DEF Walk
        <4> HIDE DEF h
        <4> QED
          BY <4>2, <4>3
      <3> QED
        BY <3>1, <3>2
    <2> HIDE DEF h
    <2>6. Walk(h, n + 1, start, step)
      BY <2>4, <2>5 DEF Walk
    <2> QED
      BY <2>3, <2>6
  <1> HIDE DEF T
  <1>3. N \in T
    BY <1>1, <1>2, EveryNumber
  <1> QED
    BY <1>3 DEF T

LEMMA WalkStays ==
  ASSUME NEW N \in Nat, NEW S, NEW h, h[0] \in S, \A k \in 1..N : h[k - 1] \in S => h[k] \in S
  PROVE  \A k \in 0..N : h[k] \in S
  <1> DEFINE T == {n \in Nat : n <= N => h[n] \in S}
  <1>1. 0 \in T
    OBVIOUS
  <1>2. ASSUME NEW n \in Nat, n \in T PROVE n + 1 \in T
    <2> SUFFICES ASSUME n + 1 <= N PROVE h[n + 1] \in S
      OBVIOUS
    <2>1. n + 1 \in 1..N /\ (n + 1) - 1 = n /\ h[n] \in S
      BY <1>2
    <2> QED
      BY <2>1
  <1> HIDE DEF T
  <1>3. \A k \in 0..N : k \in Nat /\ k <= N
    OBVIOUS
  <1>4. \A k \in 0..N : k \in T
    BY <1>1, <1>2, <1>3, EveryNumber
  <1> QED
    BY <1>3, <1>4 DEF T

\* What a page's sections are excerpted as, unless they are empty.
Piece(pages, p, k) ==
  [page |-> p, slug |-> pages[p].sections[k].slug, length |-> pages[p].sections[k].length]
Pieces(pages) ==
  UNION {{Piece(pages, p, k) : k \in {j \in 1..Len(pages[p].sections) : pages[p].sections[j].length # 0}} :
         p \in DOMAIN pages}

LEMMA PageIs ==
  ASSUME NEW pages \in Sites, NEW p \in DOMAIN pages
  PROVE  /\ pages[p].links \in Seq(Nat) /\ Len(pages[p].sections) \in Nat
         /\ \A k \in 1..Len(pages[p].sections) :
              LET slug == pages[p].sections[k].slug
              IN  /\ pages[p].sections[k].length \in Nat
                  /\ Len(slug) \in Nat /\ slug = [i \in 1..Len(slug) |-> slug[i]]
  <1>1. \A s \in Sites : \A page \in DOMAIN s :
          /\ s[page].links \in Seq(Nat) /\ Len(s[page].sections) \in Nat
          /\ \A n \in 1..Len(s[page].sections) :
               LET slug == s[page].sections[n].slug
               IN  /\ s[page].sections[n].length \in Nat
                   /\ Len(slug) \in Nat /\ slug = [i \in 1..Len(slug) |-> slug[i]]
    BY Zenon, LabsAssumption DEF LabsAssumption
  <1> QED
    BY <1>1, Zenon

LEMMA PieceIs ==
  ASSUME NEW pages \in Sites, NEW x \in Pieces(pages)
  PROVE  /\ x.page \in DOMAIN pages /\ x.length \in Nat \ {0}
         /\ Len(x.slug) \in Nat /\ x.slug = [i \in 1..Len(x.slug) |-> x.slug[i]]
  <1>1. PICK p \in DOMAIN pages : \E k \in 1..Len(pages[p].sections) :
          pages[p].sections[k].length # 0 /\ x = Piece(pages, p, k)
    BY DEF Pieces
  <1>2. PICK k \in 1..Len(pages[p].sections) :
          pages[p].sections[k].length # 0 /\ x = Piece(pages, p, k)
    BY <1>1
  <1>3. PICK section : section = pages[p].sections[k]
    OBVIOUS
  <1>4. /\ section.length \in Nat /\ Len(section.slug) \in Nat
        /\ section.slug = [i \in 1..Len(section.slug) |-> section.slug[i]]
    BY <1>3, PageIs
  <1>5. x.page = p /\ x.slug = section.slug /\ x.length = section.length
    BY <1>2, <1>3 DEF Piece
  <1> QED
    BY <1>2, <1>3, <1>4, <1>5

LEMMA ExcerptsAre ==
  ASSUME NEW pages \in Sites, NEW p \in DOMAIN pages
  PROVE  Planning!excerptsFor(pages, p) \in Seq(Pieces(pages))
  <1>1. PICK N \in Nat : N = Len(pages[p].sections)
    BY PageIs
  <1> DEFINE S == Seq(Pieces(pages))
             all == pages[p].sections
             F(x, k) == IF all[k].length = 0 THEN x
                        ELSE Append(x, [page |-> p, slug |-> all[k].slug, length |-> all[k].length])
             step == [k \in 1..N |-> [x \in S |-> F(x, k)]]
             G == CHOOSE g : g = [k \in 0..Len(all) |-> IF k = 0 THEN <<>> ELSE F(g[k - 1], k)]
  <1>2. \A k \in 1..N, x \in S : F(x, k) \in S
    <2> SUFFICES ASSUME NEW k \in 1..N, NEW x \in S, all[k].length # 0 PROVE F(x, k) \in S
      OBVIOUS
    <2>1. Piece(pages, p, k) \in Pieces(pages)
      BY <1>1 DEF Pieces
    <2>2. F(x, k) = Append(x, Piece(pages, p, k))
      BY DEF Piece
    <2> HIDE DEF F
    <2> QED
      BY <2>1, <2>2
  <1>3. <<>> \in S
    OBVIOUS
  <1>4. Planning!excerptsFor(pages, p) = G[Len(all)]
    BY DEF Planning!excerptsFor
  <1> HIDE DEF F, S, all
  <1>5. step \in [1..N -> [S -> S]] /\ \A k \in 1..N, x \in S : step[k][x] = F(x, k)
    BY <1>2
  <1> HIDE DEF step
  <1>6. \E g : g = [k \in 0..N |-> IF k = 0 THEN <<>> ELSE F(g[k - 1], k)]
    <2>1. PICK g \in [0..N -> S] : Walk(g, N, <<>>, step)
      BY <1>3, <1>5, WalkExists
    <2>2. \A k \in 1..N : g[k - 1] \in S
      OBVIOUS
    <2>3. g[0] = <<>> /\ \A k \in 1..N : g[k] = F(g[k - 1], k)
      BY <1>5, <2>1, <2>2 DEF Walk
    <2>4. \A k \in 0..N : k = 0 \/ k \in 1..N
      OBVIOUS
    <2>5. g = [k \in 0..N |-> IF k = 0 THEN <<>> ELSE F(g[k - 1], k)]
      BY <2>3, <2>4
    <2> QED
      BY <2>5
  <1>7. G = [k \in 0..N |-> IF k = 0 THEN <<>> ELSE F(G[k - 1], k)]
    BY <1>1, <1>6 DEF all
  <1> HIDE DEF G
  <1>8. G[0] = <<>> /\ \A k \in 1..N : G[k] = F(G[k - 1], k)
    BY <1>7
  <1>9. \A k \in 0..N : G[k] \in S
    <2>1. \A k \in 1..N : G[k - 1] \in S => G[k] \in S
      BY <1>2, <1>8
    <2>2. G[0] \in S
      BY <1>3, <1>8
    <2> QED
      BY <2>1, <2>2, WalkStays
  <1> QED
    BY <1>1, <1>4, <1>9 DEF S, all
\* What is in a sequence, and in the two it is put together of.
LEMMA InBoth ==
  ASSUME NEW S, NEW x \in Seq(S), NEW y \in Seq(S)
  PROVE  /\ x \o y \in Seq(S)
         /\ Planning!ToSet(x \o y) = Planning!ToSet(x) \cup Planning!ToSet(y)
         /\ Planning!ToSet(x) \subseteq S
  <1>1. /\ x \o y \in Seq(S) /\ Len(x \o y) = Len(x) + Len(y) /\ Len(x) \in Nat /\ Len(y) \in Nat
        /\ DOMAIN x = 1..Len(x) /\ DOMAIN y = 1..Len(y) /\ DOMAIN (x \o y) = 1..(Len(x) + Len(y))
    OBVIOUS
  <1>2. \A i \in 1..(Len(x) + Len(y)) :
          (x \o y)[i] = IF i <= Len(x) THEN x[i] ELSE y[i - Len(x)]
    OBVIOUS
  <1>3. ASSUME NEW i \in DOMAIN (x \o y) PROVE (x \o y)[i] \in Planning!ToSet(x) \cup Planning!ToSet(y)
    <2>1. i \in 1..(Len(x) + Len(y))
      BY <1>1
    <2>2. CASE i <= Len(x)
      BY <1>1, <1>2, <2>1, <2>2 DEF Planning!ToSet
    <2>3. CASE ~(i <= Len(x))
      <3>1. i - Len(x) \in 1..Len(y)
        BY <1>1, <2>1, <2>3
      <3> QED
        BY <1>1, <1>2, <2>1, <2>3, <3>1 DEF Planning!ToSet
    <2> QED
      BY <2>2, <2>3
  <1>4. ASSUME NEW i \in DOMAIN x PROVE x[i] \in Planning!ToSet(x \o y)
    <2>1. i \in 1..(Len(x) + Len(y)) /\ i <= Len(x)
      BY <1>1
    <2>2. (x \o y)[i] = x[i]
      BY <1>2, <2>1
    <2> QED
      BY <1>1, <2>1, <2>2 DEF Planning!ToSet
  <1>5. ASSUME NEW i \in DOMAIN y PROVE y[i] \in Planning!ToSet(x \o y)
    <2>1. PICK j \in 1..(Len(x) + Len(y)) : j = Len(x) + i
      BY <1>1
    <2>2. ~(j <= Len(x)) /\ j - Len(x) = i
      BY <1>1, <2>1
    <2>3. (x \o y)[j] = y[i]
      BY <1>2, <2>2
    <2> QED
      BY <1>1, <2>3 DEF Planning!ToSet
  <1>6. Planning!ToSet(x) \subseteq S
    BY DEF Planning!ToSet
  <1> QED
    BY <1>1, <1>3, <1>4, <1>5, <1>6 DEF Planning!ToSet

LEMMA FlattenIs ==
  ASSUME NEW n \in Nat, NEW S, NEW seqs \in [1..n -> Seq(S)]
  PROVE  /\ Planning!FlattenSeq(seqs) \in Seq(S)
         /\ Planning!ToSet(Planning!FlattenSeq(seqs)) =
              UNION {Planning!ToSet(seqs[i]) : i \in 1..n}
  <1>1. Len(seqs) = n /\ DOMAIN seqs = 1..n
    <2>1. PICK T : T = Seq(S)
      OBVIOUS
    <2>2. seqs \in [1..n -> T]
      BY <2>1
    <2> QED
      BY ONLY n \in Nat, <2>2
  <1>2. CASE n = 0
    <2>1. seqs = <<>>
      BY <1>1, <1>2
    <2>2. Planning!FlattenSeq(seqs) = <<>>
      BY <1>1, <1>2, <2>1 DEF Planning!FlattenSeq
    <2>3. Planning!ToSet(<<>>) = {}
      BY DEF Planning!ToSet
    <2>4. UNION {Planning!ToSet(seqs[i]) : i \in 1..n} = {}
      BY <1>2
    <2>5. <<>> \in Seq(S)
      OBVIOUS
    <2> QED
      BY ONLY <2>2, <2>3, <2>4, <2>5
  <1>3. CASE n # 0
    <2> DEFINE step == [k \in 1..n |-> [x \in Seq(S) |-> x \o seqs[k]]]
    <2>1. step \in [1..n -> [Seq(S) -> Seq(S)]] /\ \A k \in 1..n, x \in Seq(S) : step[k][x] = x \o seqs[k]
      OBVIOUS
    <2> HIDE DEF step
    <2>2. PICK g \in [0..n -> Seq(S)] : Walk(g, n, <<>>, step)
      <3>0. <<>> \in Seq(S)
        OBVIOUS
      <3>1. PICK T, start : T = Seq(S) /\ start = <<>> /\ start \in T
        BY ONLY <3>0, Zenon
      <3>2. \E g \in [0..n -> T] : Walk(g, n, start, step)
        BY <2>1, <3>1, WalkExists
      <3> QED
        BY <3>1, <3>2
    <2>3. g[0] = <<>> /\ \A k \in 1..n : g[k] = g[k - 1] \o seqs[k]
      <3>1. \A k \in 1..n : g[k - 1] \in Seq(S)
        OBVIOUS
      <3> QED
        BY <2>1, <2>2, <3>1 DEF Walk
    <2>4. g[1] = seqs[1]
      <3>0. 1 \in 1..n /\ 1 - 1 = 0
        BY <1>3
      <3>1. seqs[1] \in Seq(S) /\ g[1] = g[0] \o seqs[1]
        BY <2>3, <3>0
      <3>2. <<>> \o seqs[1] = seqs[1]
        BY <3>1
      <3> QED
        BY <2>3, <3>1, <3>2
    <2> DEFINE F == [i \in 1..n |-> g[i]]
               G == CHOOSE f : f = [i \in 1..Len(seqs) |->
                                      IF i = 1 THEN seqs[i] ELSE f[i - 1] \o seqs[i]]
    <2>5. F = [i \in 1..n |-> IF i = 1 THEN seqs[i] ELSE F[i - 1] \o seqs[i]]
      <3>1. ASSUME NEW i \in 1..n PROVE F[i] = IF i = 1 THEN seqs[i] ELSE F[i - 1] \o seqs[i]
        <4>1. CASE i = 1
          BY <2>4, <4>1
        <4>2. CASE i # 1
          <5>1. i - 1 \in 1..n /\ F[i - 1] = g[i - 1] /\ F[i] = g[i]
            BY <4>2
          <5> HIDE DEF F
          <5> QED
            BY <2>3, <4>2, <5>1
        <4> QED
          BY <4>1, <4>2
      <3>2. F = [i \in 1..n |-> F[i]]
        OBVIOUS
      <3> HIDE DEF F
      <3> QED
        BY <3>1, <3>2
    <2> HIDE DEF F
    <2>6. \E f : f = [i \in 1..Len(seqs) |-> IF i = 1 THEN seqs[i] ELSE f[i - 1] \o seqs[i]]
      BY <1>1, <2>5
    <2>7. G = [i \in 1..Len(seqs) |-> IF i = 1 THEN seqs[i] ELSE G[i - 1] \o seqs[i]]
      BY <2>6
    <2>8. Planning!FlattenSeq(seqs) = G[Len(seqs)]
      BY <1>1, <1>3 DEF Planning!FlattenSeq
    <2> HIDE DEF G
    <2> DEFINE Members(k) == UNION {Planning!ToSet(seqs[i]) : i \in 1..k}
               T == {k \in Nat : k + 1 <= n => /\ G[k + 1] \in Seq(S)
                                               /\ Planning!ToSet(G[k + 1]) = Members(k + 1)}
    <2>9. 0 \in T
      <3>1. G[1] = seqs[1] /\ 1 \in 1..n
        BY <1>1, <1>3, <2>7
      <3>2. Members(1) = Planning!ToSet(seqs[1])
        OBVIOUS
      <3> QED
        BY <3>1, <3>2
    <2>10. ASSUME NEW k \in Nat, k \in T PROVE k + 1 \in T
      <3> SUFFICES ASSUME (k + 1) + 1 <= n
                   PROVE  /\ G[(k + 1) + 1] \in Seq(S)
                          /\ Planning!ToSet(G[(k + 1) + 1]) = Members((k + 1) + 1)
        OBVIOUS
      <3>1. PICK j \in 1..n : j = (k + 1) + 1 /\ j - 1 = k + 1 /\ j # 1
        OBVIOUS
      <3>2. G[j] = G[j - 1] \o seqs[j]
        BY <1>1, <2>7, <3>1
      <3>3. G[j - 1] \in Seq(S) /\ Planning!ToSet(G[j - 1]) = Members(j - 1)
        BY <2>10, <3>1
      <3>4. seqs[j] \in Seq(S)
        OBVIOUS
      <3>5. Members(j) = Members(j - 1) \cup Planning!ToSet(seqs[j])
        <4>1. 1..j = (1..(j - 1)) \cup {j}
          OBVIOUS
        <4> QED
          BY <4>1
      <3>6. G[j] \in Seq(S) /\ Planning!ToSet(G[j]) = Planning!ToSet(G[j - 1]) \cup Planning!ToSet(seqs[j])
        BY <3>2, <3>3, <3>4, InBoth
      <3> HIDE DEF Members
      <3> QED
        BY <3>1, <3>3, <3>5, <3>6
    <2> HIDE DEF T
    <2>11. n - 1 \in Nat /\ (n - 1) + 1 = n
      BY <1>3
    <2>12. n - 1 \in T
      BY <2>9, <2>10, <2>11, EveryNumber
    <2>13. G[n] \in Seq(S) /\ Planning!ToSet(G[n]) = Members(n)
      <3> HIDE DEF Members
      <3> QED
        BY <2>11, <2>12 DEF T
    <2> QED
      BY <1>1, <2>8, <2>13
  <1> QED
    BY <1>2, <1>3
LEMMA SameSequence ==
  ASSUME NEW S, NEW l, NEW r, l \in Seq(S), r \in Seq(S), Len(l) = Len(r),
         \A i \in 1..Len(l) : l[i] = r[i]
  PROVE  l = r
  <1>1. l = [i \in 1..Len(l) |-> l[i]] /\ r = [i \in 1..Len(r) |-> r[i]]
    OBVIOUS
  <1> QED
    BY <1>1

\* A sequence and one more: what is in it, whether twice, and appended to another.
LEMMA Appends ==
  ASSUME NEW S, NEW s \in Seq(S), NEW x \in S
  PROVE  /\ Append(s, x) \in Seq(S)
         /\ Planning!ToSet(Append(s, x)) = Planning!ToSet(s) \cup {x}
         /\ Planning!IsInjective(s) /\ x \notin Planning!ToSet(s) => Planning!IsInjective(Append(s, x))
  <1>1. PICK n \in Nat : n = Len(s) /\ DOMAIN s = 1..n
    OBVIOUS
  <1>2. PICK t : t = Append(s, x)
    OBVIOUS
  <1>3. t \in Seq(S) /\ Len(t) = n + 1 /\ DOMAIN t = 1..(n + 1)
    BY <1>1, <1>2
  <1>4. /\ \A i \in 1..n : t[i] = s[i] /\ i \in 1..(n + 1)
        /\ t[n + 1] = x /\ n + 1 \in 1..(n + 1)
    BY <1>1, <1>2
  <1>5. \A i \in 1..(n + 1) : i \in 1..n \/ i = n + 1
    OBVIOUS
  <1>6. Planning!ToSet(t) = Planning!ToSet(s) \cup {x}
    BY <1>1, <1>3, <1>4, <1>5 DEF Planning!ToSet
  <1>7. ASSUME Planning!IsInjective(s), x \notin Planning!ToSet(s) PROVE Planning!IsInjective(t)
    <2>1. \A i \in 1..n : s[i] # x
      BY <1>1, <1>7 DEF Planning!ToSet
    <2>2. \A i, j \in 1..n : s[i] = s[j] => i = j
      BY <1>1, <1>7 DEF Planning!IsInjective
    <2>3. \A i, j \in 1..(n + 1) : t[i] = t[j] => i = j
      BY <1>4, <1>5, <2>1, <2>2
    <2> QED
      BY <1>3, <2>3 DEF Planning!IsInjective
  <1> QED
    BY <1>2, <1>3, <1>6, <1>7

AppendedTo(a, s, x) == Append(a \o s, x) = a \o Append(s, x)

LEMMA AppendsTo ==
  ASSUME NEW S, NEW a \in Seq(S), NEW s \in Seq(S), NEW x \in S
  PROVE  AppendedTo(a, s, x)
  <1>1. PICK n \in Nat : n = Len(s) /\ DOMAIN s = 1..n
    OBVIOUS
  <1>2. PICK t : t = Append(s, x)
    OBVIOUS
  <1>3. t \in Seq(S) /\ Len(t) = n + 1 /\ DOMAIN t = 1..(n + 1)
    BY <1>1, <1>2
  <1>4. /\ \A i \in 1..n : t[i] = s[i] /\ i \in 1..(n + 1)
        /\ t[n + 1] = x /\ n + 1 \in 1..(n + 1)
    BY <1>1, <1>2
  <1>11. PICK m \in Nat : m = Len(a)
    OBVIOUS
  <1>13. Len(a \o s) = m + n /\ a \o s \in Seq(S)
    BY <1>1, <1>11
  <1>18. Append(a \o s, x) \in Seq(S)
    BY <1>13
  <1>19. a \o t \in Seq(S)
    BY <1>3
  <1>12. PICK l, r : l = Append(a \o s, x) /\ r = a \o t /\ l \in Seq(S) /\ r \in Seq(S)
    BY <1>18, <1>19, Zenon
  <1>14. Len(l) = m + n + 1 /\ Len(r) = m + n + 1
    BY <1>3, <1>11, <1>12, <1>13
  <1>15. ASSUME NEW i \in 1..(m + n + 1) PROVE l[i] = r[i]
    <2>1. r[i] = IF i <= m THEN a[i] ELSE t[i - m]
      BY <1>3, <1>11, <1>12
    <2>2. CASE i = m + n + 1
      <3>1. l[i] = x
        <4>1. PICK b \in Seq(S) : b = a \o s /\ Len(b) = m + n
          BY <1>13
        <4>2. Append(b, x)[Len(b) + 1] = x
          OBVIOUS
        <4> QED
          BY <1>12, <2>2, <4>1, <4>2
      <3>2. ~(i <= m) /\ i - m = n + 1
        BY <2>2
      <3> QED
        BY <1>4, <2>1, <3>1, <3>2
    <2>3. CASE i # m + n + 1
      <3>1. i \in 1..(m + n)
        BY <2>3
      <3>2. l[i] = (a \o s)[i]
        BY <1>12, <1>13, <3>1
      <3>3. (a \o s)[i] = IF i <= m THEN a[i] ELSE s[i - m]
        BY <1>1, <1>11, <3>1
      <3>4. ~(i <= m) => i - m \in 1..n
        BY <3>1
      <3> QED
        BY <1>4, <2>1, <3>2, <3>3, <3>4
    <2> QED
      BY <2>2, <2>3
  <1>17. l = r
    <2>1. Len(l) = Len(r) /\ \A i \in 1..Len(l) : l[i] = r[i]
      BY ONLY <1>14, <1>15
    <2> QED
      BY ONLY <1>12, <2>1, SameSequence
  <1> QED
    BY <1>2, <1>12, <1>17 DEF AppendedTo
\* What a hop has found: the pages that are linked from the frontier and were not
\* seen before, each once, and they are the next frontier.
Founds(pages) ==
  [seen : SUBSET DOMAIN pages, ordered : Seq(DOMAIN pages), next : Seq(DOMAIN pages)]
Linked(pages, S) == DOMAIN pages \cap UNION {Planning!ToSet(pages[p].links) : p \in S}
Hopped(found, w, new) ==
  /\ w.seen = found.seen \cup new
  /\ w.ordered = found.ordered \o w.next
  /\ Planning!ToSet(w.next) = w.seen \ found.seen
  /\ Planning!IsInjective(w.next)

LEMMA FollowStays ==
  ASSUME NEW pages, NEW w \in Founds(pages), NEW link
  PROVE  Planning!Follow(pages, w, link) \in Founds(pages)
  <1> DEFINE P == DOMAIN pages
  <1>0. w.seen \in SUBSET P /\ w.ordered \in Seq(P) /\ w.next \in Seq(P)
    BY DEF Founds
  <1>1. CASE link \notin P \ w.seen
    BY <1>1 DEF Planning!Follow
  <1>2. CASE link \in P \ w.seen
    <2>1. Append(w.ordered, link) \in Seq(P) /\ Append(w.next, link) \in Seq(P)
      BY <1>0, <1>2
    <2>2. w.seen \cup {link} \in SUBSET P
      BY <1>0, <1>2
    <2> QED
      BY <1>2, <2>1, <2>2 DEF Founds, Planning!Follow
  <1> QED
    BY <1>1, <1>2

LEMMA FollowIs ==
  ASSUME NEW pages, NEW found \in Founds(pages), NEW w \in Founds(pages), NEW new, NEW link,
         Hopped(found, w, new)
  PROVE  Hopped(found, Planning!Follow(pages, w, link), new \cup (DOMAIN pages \cap {link}))
  <1> DEFINE P == DOMAIN pages
             f == Planning!Follow(pages, w, link)
  <1>0. /\ w.seen \in SUBSET P /\ w.ordered \in Seq(P) /\ w.next \in Seq(P)
        /\ found.seen \in SUBSET P /\ found.ordered \in Seq(P)
    BY DEF Founds
  <1>1. CASE link \notin P \ w.seen
    <2>1. f = w
      BY <1>1 DEF Planning!Follow
    <2>2. w.seen = found.seen \cup (new \cup (P \cap {link}))
      BY <1>1 DEF Hopped
    <2> HIDE DEF f
    <2>3. Hopped(found, f, new \cup (P \cap {link}))
      BY <2>1, <2>2 DEF Hopped
    <2> QED
      BY <2>3 DEF f
  <1>2. CASE link \in P \ w.seen
    <2>1. f = [seen |-> w.seen \cup {link}, ordered |-> Append(w.ordered, link),
               next |-> Append(w.next, link)]
      BY <1>2 DEF Planning!Follow
    <2>2. link \in P /\ link \notin w.seen
      BY <1>2
    <2>3. PICK next : next = w.next /\ next \in Seq(P)
      BY <1>0
    <2>4. PICK ordered : ordered = found.ordered /\ ordered \in Seq(P)
      BY <1>0
    <2>5. PICK T : T = P
      OBVIOUS
    <2>6. link \in T /\ next \in Seq(T) /\ ordered \in Seq(T)
      BY <2>2, <2>3, <2>4, <2>5
    <2>7. /\ Planning!ToSet(Append(next, link)) = Planning!ToSet(next) \cup {link}
          /\ Planning!IsInjective(next) /\ link \notin Planning!ToSet(next)
               => Planning!IsInjective(Append(next, link))
      BY ONLY <2>6, Appends
    <2>14. Append(ordered \o next, link) = ordered \o Append(next, link)
      <3>1. AppendedTo(ordered, next, link)
        BY ONLY <2>6, AppendsTo
      <3> QED
        BY ONLY <3>1 DEF AppendedTo
    <2>8. /\ f.seen = w.seen \cup {link} /\ f.ordered = Append(w.ordered, link)
          /\ f.next = Append(next, link)
      BY <2>1, <2>3
    <2> HIDE DEF f
    <2>9. f.seen = found.seen \cup (new \cup (P \cap {link}))
      BY <2>2, <2>8 DEF Hopped
    <2>10. f.ordered = found.ordered \o f.next
      BY <2>3, <2>4, <2>8, <2>14 DEF Hopped
    <2>11. link \notin Planning!ToSet(next) /\ Planning!ToSet(next) = w.seen \ found.seen
           /\ found.seen \subseteq w.seen
      BY <2>2, <2>3 DEF Hopped
    <2>12. Planning!ToSet(f.next) = f.seen \ found.seen
      BY <2>2, <2>7, <2>8, <2>11
    <2>13. Planning!IsInjective(f.next)
      BY <2>3, <2>7, <2>8, <2>11 DEF Hopped
    <2>15. Hopped(found, f, new \cup (P \cap {link}))
      BY ONLY <2>9, <2>10, <2>12, <2>13 DEF Hopped
    <2> QED
      BY <2>15 DEF f
  <1> QED
    BY <1>1, <1>2

LEMMA HopIs ==
  ASSUME NEW pages \in Sites, NEW found \in Founds(pages)
  PROVE  /\ Planning!Hop(pages, found) \in Founds(pages)
         /\ Hopped(found, Planning!Hop(pages, found), Linked(pages, Planning!ToSet(found.next)))
  <1> DEFINE P == DOMAIN pages
             follow == [i \in DOMAIN found.next |-> pages[found.next[i]].links]
             links == Planning!FlattenSeq(follow)
             N == Len(links)
             S == Founds(pages)
             F(w, k) == Planning!Follow(pages, w, links[k])
             start == [found EXCEPT !.next = <<>>]
             G == CHOOSE g : g = [k \in 0..N |-> IF k = 0 THEN start ELSE F(g[k - 1], k)]
             Good(k) == {w \in S : Hopped(found, w, P \cap {links[i] : i \in 1..k})}
  <1>0. found.seen \in SUBSET P /\ found.ordered \in Seq(P) /\ found.next \in Seq(P)
    BY DEF Founds
  <1>1. PICK n \in Nat : n = Len(found.next) /\ DOMAIN found.next = 1..n
    BY <1>0
  <1>2. follow \in [1..n -> Seq(Nat)]
    <2>1. \A i \in 1..n : found.next[i] \in P
      BY <1>0, <1>1
    <2>2. \A p \in P : pages[p].links \in Seq(Nat)
      BY PageIs
    <2> QED
      BY <1>1, <2>1, <2>2
  <1>3. links \in Seq(Nat) /\ Planning!ToSet(links) = UNION {Planning!ToSet(follow[i]) : i \in 1..n}
    <2> HIDE DEF follow
    <2> QED
      BY <1>2, FlattenIs
  <1>4. P \cap Planning!ToSet(links) = Linked(pages, Planning!ToSet(found.next))
    <2>1. \A i \in 1..n : follow[i] = pages[found.next[i]].links
      BY <1>1
    <2>2. Planning!ToSet(found.next) = {found.next[i] : i \in 1..n}
      BY <1>1 DEF Planning!ToSet
    <2> HIDE DEF follow, links
    <2> QED
      BY <1>3, <2>1, <2>2 DEF Linked
  <1>5. Planning!Hop(pages, found) = G[N]
    BY DEF Planning!Hop
  <1> HIDE DEF links
  <1>6. N \in Nat /\ Planning!ToSet(links) = {links[i] : i \in 1..N}
    BY <1>3 DEF Planning!ToSet
  <1>7. start \in Good(0)
    <2>1. start.seen = found.seen /\ start.ordered = found.ordered /\ start.next = <<>>
          /\ start = [seen |-> start.seen, ordered |-> start.ordered, next |-> start.next]
      BY DEF Founds
    <2>2. <<>> \in Seq(P)
      OBVIOUS
    <2>3. start \in S
      BY <1>0, <2>1, <2>2 DEF Founds
    <2>4. found.ordered = found.ordered \o <<>>
      <3>1. PICK o : o = found.ordered /\ o \in Seq(P)
        BY <1>0
      <3>2. o \o <<>> \in Seq(P) /\ Len(o \o <<>>) = Len(o) /\ \A i \in 1..Len(o) : o[i] = (o \o <<>>)[i]
        BY <3>1
      <3>3. o = o \o <<>>
        BY ONLY <3>1, <3>2, SameSequence
      <3> QED
        BY <3>1, <3>3
    <2>5. Planning!ToSet(<<>>) = {} /\ Planning!IsInjective(<<>>)
      BY DEF Planning!ToSet, Planning!IsInjective
    <2>6. {links[i] : i \in 1..0} = {}
      OBVIOUS
    <2> HIDE DEF start
    <2> QED
      BY <2>1, <2>3, <2>4, <2>5, <2>6 DEF Hopped
  <1>8. ASSUME NEW k \in 1..N, NEW w \in S PROVE F(w, k) \in S /\ (w \in Good(k - 1) => F(w, k) \in Good(k))
    <2>1. F(w, k) \in S
      BY FollowStays
    <2>2. ASSUME w \in Good(k - 1) PROVE F(w, k) \in Good(k)
      <3>1. Hopped(found, w, P \cap {links[i] : i \in 1..(k - 1)})
        BY <2>2
      <3>2. /\ Hopped(found, F(w, k), (P \cap {links[i] : i \in 1..(k - 1)}) \cup (P \cap {links[k]}))
        BY <3>1, FollowIs
      <3>3. 1..k = (1..(k - 1)) \cup {k}
        OBVIOUS
      <3>4. (P \cap {links[i] : i \in 1..(k - 1)}) \cup (P \cap {links[k]}) = P \cap {links[i] : i \in 1..k}
        BY <3>3
      <3> QED
        BY <2>1, <3>2, <3>4
    <2> QED
      BY <2>1, <2>2
  <1> DEFINE step == [k \in 1..N |-> [w \in S |-> F(w, k)]]
  <1>9. start \in S
    BY <1>7
  <1> HIDE DEF F, S, start, N, Good
  <1>10. step \in [1..N -> [S -> S]] /\ \A k \in 1..N, w \in S : step[k][w] = F(w, k)
    BY <1>8
  <1> HIDE DEF step
  <1>11. \E g : g = [k \in 0..N |-> IF k = 0 THEN start ELSE F(g[k - 1], k)]
    <2>1. PICK g \in [0..N -> S] : Walk(g, N, start, step)
      BY <1>6, <1>9, <1>10, WalkExists
    <2>2. \A k \in 1..N : g[k - 1] \in S
      BY <1>6
    <2>3. g[0] = start /\ \A k \in 1..N : g[k] = F(g[k - 1], k)
      BY <1>10, <2>1, <2>2 DEF Walk
    <2>4. \A k \in 0..N : k = 0 \/ k \in 1..N
      BY <1>6
    <2>5. g = [k \in 0..N |-> IF k = 0 THEN start ELSE F(g[k - 1], k)]
      BY <2>3, <2>4
    <2> QED
      BY <2>5
  <1>12. G = [k \in 0..N |-> IF k = 0 THEN start ELSE F(G[k - 1], k)]
    BY <1>11
  <1> HIDE DEF G
  <1>13. G[0] = start /\ \A k \in 1..N : G[k] = F(G[k - 1], k)
    BY <1>6, <1>12
  <1> DEFINE T == {k \in Nat : k <= N => G[k] \in S /\ G[k] \in Good(k)}
  <1>14. 0 \in T
    BY <1>7, <1>9, <1>13
  <1>15. ASSUME NEW k \in Nat, k \in T PROVE k + 1 \in T
    <2> SUFFICES ASSUME k + 1 <= N PROVE G[k + 1] \in S /\ G[k + 1] \in Good(k + 1)
      OBVIOUS
    <2>1. k + 1 \in 1..N /\ (k + 1) - 1 = k /\ G[k] \in S /\ G[k] \in Good(k)
      BY <1>6, <1>15
    <2>2. G[k + 1] = F(G[k], k + 1)
      BY <1>13, <2>1
    <2> QED
      BY <1>8, <2>1, <2>2
  <1> HIDE DEF T
  <1>16. N \in T
    BY <1>6, <1>14, <1>15, EveryNumber
  <1>17. G[N] \in S /\ G[N] \in Good(N)
    BY <1>6, <1>16 DEF T
  <1>18. Hopped(found, G[N], P \cap {links[i] : i \in 1..N})
    BY <1>17 DEF Good
  <1> QED
    BY <1>4, <1>5, <1>6, <1>17, <1>18 DEF S

\* The pages within n links are those within n - 1 and the ones these link to.
Spreads(near, n, pages, primary) ==
  /\ near \in [0..n -> SUBSET DOMAIN pages] /\ near[0] = {primary}
  /\ \A k \in 1..n : near[k] = near[k - 1] \cup Linked(pages, near[k - 1])

LEMMA WithinIs ==
  ASSUME NEW pages, NEW primary \in DOMAIN pages, NEW n \in Nat
  PROVE  \E near : Spreads(near, n, pages, primary) /\ Planning!Within(pages, primary, n) = near[n]
  <1> DEFINE S == SUBSET DOMAIN pages
             F(X) == X \cup (DOMAIN pages \cap UNION {Planning!ToSet(pages[p].links) : p \in X})
             step == [k \in 1..n |-> [X \in S |-> F(X)]]
             G == CHOOSE g : g = [m \in 0..n |-> IF m = 0 THEN {primary} ELSE F(g[m - 1])]
  <1>1. \A X \in S : F(X) \in S /\ F(X) = X \cup Linked(pages, X)
    BY DEF Linked
  <1>2. Planning!Within(pages, primary, n) = G[n]
    BY DEF Planning!Within
  <1>3. {primary} \in S
    OBVIOUS
  <1> HIDE DEF F, S
  <1>4. step \in [1..n -> [S -> S]] /\ \A k \in 1..n, X \in S : step[k][X] = F(X)
    BY <1>1
  <1> HIDE DEF step
  <1>5. \E g : g = [m \in 0..n |-> IF m = 0 THEN {primary} ELSE F(g[m - 1])]
    <2>1. PICK g \in [0..n -> S] : Walk(g, n, {primary}, step)
      BY <1>3, <1>4, WalkExists
    <2>2. \A k \in 1..n : g[k - 1] \in S
      OBVIOUS
    <2>3. g[0] = {primary} /\ \A k \in 1..n : g[k] = F(g[k - 1])
      BY <1>4, <2>1, <2>2 DEF Walk
    <2>4. \A k \in 0..n : k = 0 \/ k \in 1..n
      OBVIOUS
    <2>5. g = [m \in 0..n |-> IF m = 0 THEN {primary} ELSE F(g[m - 1])]
      BY <2>3, <2>4
    <2> QED
      BY <2>5
  <1>6. G = [m \in 0..n |-> IF m = 0 THEN {primary} ELSE F(G[m - 1])]
    BY <1>5
  <1> HIDE DEF G
  <1>7. G[0] = {primary} /\ \A k \in 1..n : G[k] = F(G[k - 1])
    <2>1. 0 \in 0..n /\ \A k \in 1..n : k \in 0..n /\ k # 0
      OBVIOUS
    <2>2. \A k \in 0..n : G[k] = IF k = 0 THEN {primary} ELSE F(G[k - 1])
      BY Zenon, <1>6
    <2> QED
      BY <2>1, <2>2
  <1>8. \A k \in 0..n : G[k] \in S
    <2>1. G[0] \in S /\ \A k \in 1..n : G[k - 1] \in S => G[k] \in S
      BY <1>1, <1>3, <1>7
    <2> QED
      BY <2>1, WalkStays
  <1>9. \A k \in 1..n : k - 1 \in 0..n /\ G[k] = G[k - 1] \cup Linked(pages, G[k - 1])
    BY <1>1, <1>7, <1>8
  <1>10. G \in [0..n -> S]
    <2>1. PICK h : h = [k \in 0..n |-> G[k]]
      OBVIOUS
    <2>2. h = G
      BY <1>6, <2>1
    <2> QED
      BY <1>8, <2>1, <2>2
  <1>11. Spreads(G, n, pages, primary)
    BY <1>7, <1>9, <1>10 DEF Spreads, S
  <1> QED
    BY <1>2, <1>11

LEMMA SpreadsAgree ==
  ASSUME NEW pages, NEW primary, NEW m \in Nat, NEW n \in Nat, m <= n, NEW a, NEW b,
         Spreads(a, m, pages, primary), Spreads(b, n, pages, primary)
  PROVE  a[m] = b[m]
  <1> DEFINE T == {k \in Nat : k <= m => a[k] = b[k]}
  <1>1. 0 \in T
    BY DEF Spreads
  <1>2. ASSUME NEW k \in Nat, k \in T PROVE k + 1 \in T
    <2> SUFFICES ASSUME k + 1 <= m PROVE a[k + 1] = b[k + 1]
      OBVIOUS
    <2>1. PICK j \in 1..m : j = k + 1 /\ j \in 1..n /\ j - 1 = k /\ a[j - 1] = b[j - 1]
      BY <1>2
    <2>2. /\ \A i \in 1..m : a[i] = a[i - 1] \cup Linked(pages, a[i - 1])
          /\ \A i \in 1..n : b[i] = b[i - 1] \cup Linked(pages, b[i - 1])
      BY Zenon DEF Spreads
    <2>3. a[j] = b[j]
      BY <2>1, <2>2, Zenon
    <2> QED
      BY <2>1, <2>3
  <1> HIDE DEF T
  <1>3. m \in T
    BY <1>1, <1>2, EveryNumber
  <1> QED
    BY <1>3 DEF T

LEMMA WithinStep ==
  ASSUME NEW pages, NEW primary \in DOMAIN pages, NEW n \in Nat
  PROVE  LET near(k) == Planning!Within(pages, primary, k)
         IN  /\ near(0) = {primary} /\ near(n) \in SUBSET DOMAIN pages
             /\ near(n + 1) = near(n) \cup Linked(pages, near(n))
  <1>1. PICK a : Spreads(a, n, pages, primary) /\ Planning!Within(pages, primary, n) = a[n]
    BY WithinIs
  <1>2. PICK b : Spreads(b, n + 1, pages, primary) /\ Planning!Within(pages, primary, n + 1) = b[n + 1]
    BY WithinIs
  <1>3. PICK c : Spreads(c, 0, pages, primary) /\ Planning!Within(pages, primary, 0) = c[0]
    BY WithinIs
  <1>4. a[n] = b[n]
    BY <1>1, <1>2, SpreadsAgree
  <1>5. b[n + 1] = b[n] \cup Linked(pages, b[n])
    <2>1. n + 1 \in 1..(n + 1) /\ (n + 1) - 1 = n
      OBVIOUS
    <2> QED
      BY <1>2, <2>1 DEF Spreads
  <1> QED
    BY <1>1, <1>2, <1>3, <1>4, <1>5 DEF Spreads

LEMMA WithinGrows ==
  ASSUME NEW pages, NEW primary \in DOMAIN pages, NEW n \in Nat
  PROVE  \A k \in 0..n : Planning!Within(pages, primary, k) \subseteq Planning!Within(pages, primary, n)
  <1> DEFINE near(k) == Planning!Within(pages, primary, k)
             T == {m \in Nat : \A k \in 0..m : near(k) \subseteq near(m)}
  <1> HIDE DEF near
  <1>1. 0 \in T
    OBVIOUS
  <1>2. ASSUME NEW m \in Nat, m \in T PROVE m + 1 \in T
    <2>1. near(m) \subseteq near(m + 1)
      BY WithinStep DEF near
    <2>2. \A k \in 0..(m + 1) : k \in 0..m \/ k = m + 1
      OBVIOUS
    <2>3. \A k \in 0..(m + 1) : near(k) \subseteq near(m + 1)
      BY <1>2, <2>1, <2>2
    <2> QED
      BY <2>3
  <1> HIDE DEF T
  <1>3. n \in T
    BY <1>1, <1>2, EveryNumber
  <1> QED
    BY <1>3 DEF T, near

\* What n hops have found, nearer pages first; what the pages before the frontier
\* link to has all been seen.
NearerFirst(pages, primary, n, list) ==
  \A k \in 0..n : \A i, j \in DOMAIN list :
    i < j /\ list[j] \in Planning!Within(pages, primary, k)
      => list[i] \in Planning!Within(pages, primary, k)
Around(pages, primary, n, list) ==
  /\ list \in Seq(DOMAIN pages)
  /\ {primary} \cup Planning!ToSet(list) = Planning!Within(pages, primary, n)
  /\ primary \notin Planning!ToSet(list) /\ Planning!IsInjective(list)
  /\ NearerFirst(pages, primary, n, list)
Reached(pages, primary, n, found) ==
  /\ found \in Founds(pages)
  /\ found.seen = Planning!Within(pages, primary, n)
  /\ Linked(pages, found.seen \ Planning!ToSet(found.next)) \subseteq found.seen
  /\ Planning!ToSet(found.next) \subseteq found.seen
  /\ Around(pages, primary, n, found.ordered)

\* Two sequences without repetition that share nothing, one after the other.
Joins(z, x, y) == z = x \o y
KeepsOrder(z, x) == \A i, j \in DOMAIN z : i < j /\ j \in DOMAIN x => i \in DOMAIN x

LEMMA Joined ==
  ASSUME NEW S, NEW x \in Seq(S), NEW y \in Seq(S), Planning!IsInjective(x), Planning!IsInjective(y),
         Planning!ToSet(x) \cap Planning!ToSet(y) = {}, NEW z, Joins(z, x, y)
  PROVE  /\ Planning!IsInjective(z)
         /\ \A i \in DOMAIN z : z[i] \notin Planning!ToSet(y) => i \in DOMAIN x /\ z[i] = x[i]
         /\ \A i \in DOMAIN x : i \in DOMAIN z /\ z[i] = x[i]
         /\ KeepsOrder(z, x)
  <1>1. PICK n \in Nat : n = Len(x) /\ DOMAIN x = 1..n
    OBVIOUS
  <1>2. PICK m \in Nat : m = Len(y) /\ DOMAIN y = 1..m
    OBVIOUS
  <1>4. DOMAIN z = 1..(n + m)
    BY <1>1, <1>2 DEF Joins
  <1>5. \A i \in 1..(n + m) : IF i <= n THEN z[i] = x[i] ELSE z[i] = y[i - n]
    BY <1>1, <1>2 DEF Joins
  <1>6. \A i \in 1..(n + m) : i \in 1..n \/ (~(i <= n) /\ i - n \in 1..m)
    OBVIOUS
  <1>7. \A i \in 1..n : i <= n /\ i \in 1..(n + m)
    OBVIOUS
  <1>8. \A i \in 1..n : x[i] \in Planning!ToSet(x)
    BY <1>1 DEF Planning!ToSet
  <1>9. \A i \in 1..m : y[i] \in Planning!ToSet(y)
    BY <1>2 DEF Planning!ToSet
  <1>10. /\ \A i, j \in 1..n : x[i] = x[j] => i = j
         /\ \A i, j \in 1..m : y[i] = y[j] => i = j
    BY <1>1, <1>2 DEF Planning!IsInjective
  <1>11. ASSUME NEW i \in 1..(n + m), NEW j \in 1..(n + m), z[i] = z[j] PROVE i = j
    <2>1. CASE i \in 1..n /\ j \in 1..n
      BY <1>5, <1>7, <1>10, <1>11, <2>1
    <2>2. CASE ~(i <= n) /\ i - n \in 1..m /\ ~(j <= n) /\ j - n \in 1..m
      <3>1. i - n = j - n
        BY <1>5, <1>10, <1>11, <2>2
      <3> QED
        BY <3>1
    <2>3. CASE i \in 1..n /\ ~(j <= n) /\ j - n \in 1..m
      BY <1>5, <1>7, <1>8, <1>9, <1>11, <2>3
    <2>4. CASE j \in 1..n /\ ~(i <= n) /\ i - n \in 1..m
      BY <1>5, <1>7, <1>8, <1>9, <1>11, <2>4
    <2> QED
      BY <1>6, <2>1, <2>2, <2>3, <2>4
  <1>12. Planning!IsInjective(z)
    BY <1>4, <1>11 DEF Planning!IsInjective
  <1>13. \A i \in 1..(n + m) : z[i] \notin Planning!ToSet(y) => i \in 1..n /\ z[i] = x[i]
    BY <1>5, <1>6, <1>7, <1>9
  <1>14. \A i, j \in 1..(n + m) : i < j /\ j \in 1..n => i \in 1..n
    OBVIOUS
  <1>15. \A i \in 1..n : i \in 1..(n + m) /\ z[i] = x[i]
    BY <1>5, <1>7
  <1> QED
    BY <1>1, <1>4, <1>12, <1>13, <1>14, <1>15 DEF KeepsOrder

LEMMA HopReaches ==
  ASSUME NEW pages \in Sites, NEW primary \in DOMAIN pages, NEW n \in Nat, NEW f,
         Reached(pages, primary, n, f)
  PROVE  Reached(pages, primary, n + 1, Planning!Hop(pages, f))
  <1> DEFINE P == DOMAIN pages
             near(k) == Planning!Within(pages, primary, k)
  <1>1. PICK h : h = Planning!Hop(pages, f)
    OBVIOUS
  <1>2. f \in Founds(pages)
    BY DEF Reached
  <1>3. h \in Founds(pages) /\ Hopped(f, h, Linked(pages, Planning!ToSet(f.next)))
    BY <1>1, <1>2, HopIs
  <1>4. f.ordered \in Seq(P) /\ h.next \in Seq(P) /\ f.seen \in SUBSET P
    BY <1>2, <1>3 DEF Founds
  <1>5. /\ h.seen = f.seen \cup Linked(pages, Planning!ToSet(f.next))
        /\ h.ordered = f.ordered \o h.next
        /\ Planning!ToSet(h.next) = h.seen \ f.seen /\ Planning!IsInjective(h.next)
    BY <1>3 DEF Hopped
  <1>6. /\ f.seen = near(n) /\ Planning!ToSet(f.next) \subseteq f.seen
        /\ Linked(pages, f.seen \ Planning!ToSet(f.next)) \subseteq f.seen
    BY DEF Reached
  <1>7. /\ {primary} \cup Planning!ToSet(f.ordered) = near(n)
        /\ primary \notin Planning!ToSet(f.ordered) /\ Planning!IsInjective(f.ordered)
        /\ NearerFirst(pages, primary, n, f.ordered)
    BY DEF Reached, Around
  <1>8. near(n + 1) = near(n) \cup Linked(pages, near(n))
    BY WithinStep
  <1>9. Linked(pages, f.seen) = Linked(pages, f.seen \ Planning!ToSet(f.next))
                                  \cup Linked(pages, Planning!ToSet(f.next))
    BY <1>6 DEF Linked
  <1>10. h.seen = near(n + 1)
    BY <1>5, <1>6, <1>8, <1>9
  <1>11. h.seen \ Planning!ToSet(h.next) = f.seen /\ Planning!ToSet(h.next) \subseteq h.seen
    BY <1>5
  <1>12. Linked(pages, h.seen \ Planning!ToSet(h.next)) \subseteq h.seen
    BY <1>5, <1>6, <1>9, <1>11
  <1>13. h.ordered \in Seq(P) /\ Planning!ToSet(h.ordered) =
           Planning!ToSet(f.ordered) \cup Planning!ToSet(h.next)
    BY <1>4, <1>5, InBoth
  <1>14. {primary} \cup Planning!ToSet(h.ordered) = near(n + 1) /\ primary \notin Planning!ToSet(h.ordered)
    BY <1>5, <1>6, <1>7, <1>10, <1>13
  <1>15. Planning!ToSet(f.ordered) \cap Planning!ToSet(h.next) = {}
    BY <1>5, <1>6, <1>7
  <1>16. PICK x : x = f.ordered /\ x \in Seq(P)
    BY <1>4
  <1>17. PICK y : y = h.next /\ y \in Seq(P)
    BY <1>4
  <1>18. PICK z : z = x \o y /\ z = h.ordered
    BY <1>5, <1>16, <1>17
  <1>19. /\ Planning!IsInjective(z)
         /\ \A i \in DOMAIN z : z[i] \notin Planning!ToSet(y) => i \in DOMAIN x /\ z[i] = x[i]
         /\ \A i \in DOMAIN x : i \in DOMAIN z /\ z[i] = x[i]
         /\ KeepsOrder(z, x)
    <2>1. Planning!IsInjective(x) /\ Planning!IsInjective(y)
          /\ Planning!ToSet(x) \cap Planning!ToSet(y) = {}
      BY <1>5, <1>7, <1>15, <1>16, <1>17
    <2>2. PICK Q : Q = P
      OBVIOUS
    <2>3. x \in Seq(Q) /\ y \in Seq(Q) /\ Joins(z, x, y)
      BY <1>16, <1>17, <1>18, <2>2 DEF Joins
    <2> QED
      BY ONLY <2>1, <2>3, Joined
  <1> HIDE DEF near
  <1>20. \A k \in 0..n : near(k) \subseteq near(n)
    BY WithinGrows DEF near
  <1>21. \A k \in 0..n : \A i, j \in DOMAIN x : i < j /\ x[j] \in near(k) => x[i] \in near(k)
    BY <1>7, <1>16 DEF NearerFirst, near
  <1>22. ASSUME NEW k \in 0..(n + 1), NEW i \in DOMAIN z, NEW j \in DOMAIN z, i < j, z[j] \in near(k)
         PROVE  z[i] \in near(k)
    <2>1. CASE k = n + 1
      <3>1. z[i] \in Planning!ToSet(h.ordered)
        BY <1>18 DEF Planning!ToSet
      <3> QED
        BY <1>14, <2>1, <3>1
    <2>2. CASE k \in 0..n
      <3>1. z[j] \notin Planning!ToSet(y)
        BY <1>5, <1>6, <1>17, <1>20, <1>22, <2>2
      <3>2. j \in DOMAIN x /\ z[j] = x[j] /\ i \in DOMAIN x /\ z[i] = x[i]
        BY <1>19, <1>22, <3>1 DEF KeepsOrder
      <3> QED
        BY <1>21, <1>22, <2>2, <3>2
    <2> QED
      BY <2>1, <2>2
  <1>23. NearerFirst(pages, primary, n + 1, h.ordered)
    BY <1>18, <1>22 DEF NearerFirst, near
  <1>24. Around(pages, primary, n + 1, h.ordered)
    BY <1>13, <1>14, <1>18, <1>19, <1>23 DEF Around, near
  <1>25. Reached(pages, primary, n + 1, h)
    BY <1>3, <1>10, <1>11, <1>12, <1>24 DEF Reached, near
  <1> QED
    BY <1>1, <1>25

LEMMA RelatedIs ==
  ASSUME NEW pages \in Sites, NEW primary \in DOMAIN pages, NEW depth \in Nat
  PROVE  Around(pages, primary, depth, Planning!resolveRelated(pages, primary, depth))
  <1> DEFINE S == Founds(pages)
             start == [seen |-> {primary}, ordered |-> <<>>, next |-> <<primary>>]
             step == [k \in 1..depth |-> [f \in S |-> Planning!Hop(pages, f)]]
             G == CHOOSE g : g = [k \in 0..depth |-> IF k = 0 THEN start ELSE Planning!Hop(pages, g[k - 1])]
  <1>1. Planning!resolveRelated(pages, primary, depth) = G[depth].ordered
    BY DEF Planning!resolveRelated
  <1>2. start \in S
    BY DEF Founds
  <1>3. step \in [1..depth -> [S -> S]] /\ \A k \in 1..depth, f \in S : step[k][f] = Planning!Hop(pages, f)
    BY HopIs
  <1>4. Reached(pages, primary, 0, start)
    <2>1. Planning!Within(pages, primary, 0) = {primary}
      BY WithinStep
    <2>2. /\ Planning!ToSet(<<>>) = {} /\ Planning!IsInjective(<<>>) /\ DOMAIN <<>> = {}
          /\ Planning!ToSet(<<primary>>) = {primary}
      BY DEF Planning!ToSet, Planning!IsInjective
    <2>3. <<>> \in Seq(DOMAIN pages)
      OBVIOUS
    <2>4. Around(pages, primary, 0, <<>>)
      BY <2>1, <2>2, <2>3 DEF Around, NearerFirst
    <2>5. Linked(pages, {}) = {}
      BY DEF Linked
    <2>6. start.seen = {primary} /\ start.ordered = <<>> /\ start.next = <<primary>>
      OBVIOUS
    <2> HIDE DEF start
    <2> QED
      BY <1>2, <2>1, <2>2, <2>4, <2>5, <2>6 DEF Reached
  <1> HIDE DEF S, start, step
  <1>5. \E g : g = [k \in 0..depth |-> IF k = 0 THEN start ELSE Planning!Hop(pages, g[k - 1])]
    <2>1. PICK g \in [0..depth -> S] : Walk(g, depth, start, step)
      BY <1>2, <1>3, WalkExists
    <2>2. \A k \in 1..depth : g[k - 1] \in S
      OBVIOUS
    <2>3. g[0] = start /\ \A k \in 1..depth : g[k] = Planning!Hop(pages, g[k - 1])
      BY <1>3, <2>1, <2>2 DEF Walk
    <2>4. \A k \in 0..depth : k = 0 \/ k \in 1..depth
      OBVIOUS
    <2>5. g = [k \in 0..depth |-> IF k = 0 THEN start ELSE Planning!Hop(pages, g[k - 1])]
      BY <2>3, <2>4
    <2> QED
      BY <2>5
  <1>6. G = [k \in 0..depth |-> IF k = 0 THEN start ELSE Planning!Hop(pages, G[k - 1])]
    BY <1>5
  <1> HIDE DEF G
  <1>7. G[0] = start /\ \A k \in 1..depth : G[k] = Planning!Hop(pages, G[k - 1])
    <2>1. 0 \in 0..depth /\ \A k \in 1..depth : k \in 0..depth /\ k # 0
      OBVIOUS
    <2>2. \A k \in 0..depth : G[k] = IF k = 0 THEN start ELSE Planning!Hop(pages, G[k - 1])
      BY Zenon, <1>6
    <2> QED
      BY <2>1, <2>2
  <1> DEFINE T == {k \in Nat : k <= depth => Reached(pages, primary, k, G[k])}
  <1>8. 0 \in T
    BY <1>4, <1>7
  <1>9. ASSUME NEW k \in Nat, k \in T PROVE k + 1 \in T
    <2> SUFFICES ASSUME k + 1 <= depth PROVE Reached(pages, primary, k + 1, G[k + 1])
      OBVIOUS
    <2>1. k + 1 \in 1..depth /\ (k + 1) - 1 = k /\ Reached(pages, primary, k, G[k])
      BY <1>9
    <2>2. G[k + 1] = Planning!Hop(pages, G[k])
      BY <1>7, <2>1
    <2> QED
      BY <2>1, <2>2, HopReaches
  <1> HIDE DEF T
  <1>10. depth \in T
    BY <1>8, <1>9, EveryNumber
  <1>11. Reached(pages, primary, depth, G[depth])
    BY <1>10 DEF T
  <1> QED
    BY <1>1, <1>11 DEF Reached

\* One more number is that much more.
LEMMA SumAppends ==
  ASSUME NEW n \in Nat, NEW f \in [1..n -> Int], NEW t \in [1..(n + 1) -> Int],
         \A k \in 1..n : t[k] = f[k]
  PROVE  Planning!Total(t) = Planning!Total(f) + t[n + 1]
  <1>1. PICK g \in [0..n -> Int] : /\ g[0] = 0 /\ \A k \in 1..n : g[k] = g[k - 1] + f[k]
                                   /\ Planning!Total(f) = g[n]
    BY SumOf
  <1>2. PICK h \in [0..(n + 1) -> Int] : /\ h[0] = 0 /\ \A k \in 1..(n + 1) : h[k] = h[k - 1] + t[k]
                                         /\ Planning!Total(t) = h[n + 1]
    <2>1. n + 1 \in Nat
      OBVIOUS
    <2> QED
      BY ONLY <2>1, t \in [1..(n + 1) -> Int], SumOf
  <1> DEFINE T == {k \in Nat : k <= n => g[k] = h[k]}
  <1>3. 0 \in T
    BY <1>1, <1>2
  <1>4. ASSUME NEW k \in Nat, k \in T PROVE k + 1 \in T
    <2> SUFFICES ASSUME k + 1 <= n PROVE g[k + 1] = h[k + 1]
      OBVIOUS
    <2>1. k + 1 \in 1..n /\ k + 1 \in 1..(n + 1) /\ (k + 1) - 1 = k /\ g[k] = h[k]
      BY <1>4
    <2> QED
      BY <1>1, <1>2, <2>1
  <1> HIDE DEF T
  <1>5. n \in T
    BY <1>3, <1>4, EveryNumber
  <1>6. g[n] = h[n]
    BY <1>5 DEF T
  <1>7. n + 1 \in 1..(n + 1) /\ (n + 1) - 1 = n
    OBVIOUS
  <1>8. h[n + 1] = h[n] + t[n + 1]
    BY <1>2, <1>7
  <1> QED
    BY <1>1, <1>2, <1>6, <1>8

LEMMA CostIs ==
  ASSUME NEW pages \in Sites, NEW p \in DOMAIN pages
  PROVE  Planning!documentCost(pages, p) \in Nat
  <1>1. PICK own : own = Planning!excerptsFor(pages, p)
    OBVIOUS
  <1>2. own \in Seq(Pieces(pages))
    BY <1>1, ExcerptsAre
  <1>3. PICK n \in Nat : n = Len(own) /\ DOMAIN own = 1..n
    BY <1>2
  <1> DEFINE f == [i \in 1..n |-> Planning!CeilDiv(own[i].length, 4)]
  <1>4. \A i \in 1..n : own[i].length \in Nat
    <2>1. \A i \in 1..n : own[i] \in Pieces(pages)
      BY <1>2, <1>3
    <2>2. \A x \in Pieces(pages) : x.length \in Nat
      BY PieceIs
    <2> QED
      BY <2>1, <2>2
  <1>5. \A l \in Nat : Planning!CeilDiv(l, 4) \in Nat
    BY DEF Planning!CeilDiv
  <1>6. f \in [1..n -> Nat]
    BY <1>4, <1>5
  <1>7. Planning!documentCost(pages, p) = Planning!Total(f)
    BY <1>1, <1>3 DEF Planning!documentCost
  <1> HIDE DEF f
  <1> QED
    BY <1>6, <1>7, SumsSome

\* What the pages of a list cost together; with one more page, that much more.
CostOf(pages, list) ==
  Planning!Total([i \in DOMAIN list |-> Planning!documentCost(pages, list[i])])

LEMMA CostAppends ==
  ASSUME NEW pages \in Sites, NEW list \in Seq(DOMAIN pages), NEW p \in DOMAIN pages,
         NEW more, more = Append(list, p)
  PROVE  /\ CostOf(pages, list) \in Nat
         /\ CostOf(pages, more) = CostOf(pages, list) + Planning!documentCost(pages, p)
  <1> DEFINE P == DOMAIN pages
             c(q) == Planning!documentCost(pages, q)
  <1>1. PICK n \in Nat : n = Len(list) /\ DOMAIN list = 1..n /\ list \in [1..n -> P]
    OBVIOUS
  <1>2. DOMAIN more = 1..(n + 1) /\ (\A i \in 1..n : more[i] = list[i]) /\ more[n + 1] = p
    BY <1>1
  <1>3. \A i \in 1..(n + 1) : i \in 1..n \/ i = n + 1
    OBVIOUS
  <1>4. \A i \in 1..(n + 1) : more[i] \in P
    BY <1>1, <1>2, <1>3
  <1>5. \A q \in P : c(q) \in Nat
    BY CostIs
  <1> DEFINE f == [i \in 1..n |-> c(list[i])]
             t == [i \in 1..(n + 1) |-> c(more[i])]
  <1>6. CostOf(pages, list) = Planning!Total(f) /\ CostOf(pages, more) = Planning!Total(t)
    BY <1>1, <1>2 DEF CostOf
  <1> HIDE DEF c
  <1>7. f \in [1..n -> Nat] /\ f \in [1..n -> Int] /\ t \in [1..(n + 1) -> Int]
    BY <1>1, <1>4, <1>5
  <1>8. (\A i \in 1..n : t[i] = f[i]) /\ t[n + 1] = c(p)
    BY <1>2
  <1> HIDE DEF f, t
  <1>9. Planning!Total(t) = Planning!Total(f) + c(p)
    BY <1>7, <1>8, SumAppends
  <1>10. Planning!Total(f) \in Nat
    BY <1>7, SumsSome
  <1> QED
    BY <1>6, <1>9, <1>10 DEF c

\* How far the packing is after the first k related pages.
InOrder(R, primary, k, list) ==
  \A i, j \in DOMAIN list : i < j =>
    \E b \in 1..k : /\ list[j] = R[b]
                    /\ list[i] = primary \/ \E a \in 1..k : a < b /\ list[i] = R[a]
Packing(pages, primary, depth, tokens, R, k, p) ==
  /\ p = [included |-> p.included, dropped |-> p.dropped, depth |-> depth, excerpts |-> <<>>,
          total |-> p.total, maxTokens |-> tokens]
  /\ p.included \in Seq(DOMAIN pages) /\ p.dropped \in Seq(DOMAIN pages)
  /\ 1 \in DOMAIN p.included /\ p.included[1] = primary
  /\ Planning!ToSet(p.included) \cup Planning!ToSet(p.dropped) = {primary} \cup {R[i] : i \in 1..k}
  /\ Planning!ToSet(p.included) \cap Planning!ToSet(p.dropped) = {}
  /\ Planning!IsInjective(p.included) /\ Planning!IsInjective(p.dropped)
  /\ InOrder(R, primary, k, p.included)
  /\ p.total = CostOf(pages, p.included)
  /\ p.total <= tokens \/ p.included = <<primary>>
  /\ \A d \in Planning!ToSet(p.dropped) : p.total + Planning!documentCost(pages, d) > tokens

LEMMA PackedIs ==
  ASSUME NEW pages \in Sites, NEW primary \in DOMAIN pages, NEW depth, NEW tokens \in Nat,
         NEW R \in Seq(DOMAIN pages), Planning!IsInjective(R), primary \notin Planning!ToSet(R),
         NEW k \in Nat, k + 1 \in DOMAIN R, NEW p, Packing(pages, primary, depth, tokens, R, k, p)
  PROVE  Packing(pages, primary, depth, tokens, R, k + 1, Planning!Packed(pages, p, R[k + 1]))
  <1> DEFINE P == DOMAIN pages
             c(q) == Planning!documentCost(pages, q)
             page == R[k + 1]
             q == Planning!Packed(pages, p, R[k + 1])
  <1>1. /\ p = [included |-> p.included, dropped |-> p.dropped, depth |-> depth, excerpts |-> <<>>,
                total |-> p.total, maxTokens |-> tokens]
        /\ p.included \in Seq(P) /\ p.dropped \in Seq(P)
        /\ 1 \in DOMAIN p.included /\ p.included[1] = primary
        /\ p.total = CostOf(pages, p.included)
        /\ p.total <= tokens \/ p.included = <<primary>>
        /\ \A d \in Planning!ToSet(p.dropped) : p.total + c(d) > tokens
    BY DEF Packing
  <1>2. /\ Planning!ToSet(p.included) \cup Planning!ToSet(p.dropped) = {primary} \cup {R[i] : i \in 1..k}
        /\ Planning!ToSet(p.included) \cap Planning!ToSet(p.dropped) = {}
        /\ Planning!IsInjective(p.included) /\ Planning!IsInjective(p.dropped)
        /\ InOrder(R, primary, k, p.included)
    BY DEF Packing
  <1>3. PICK n \in Nat : n = Len(R) /\ DOMAIN R = 1..n /\ R \in [1..n -> P]
    OBVIOUS
  <1>4. page \in P /\ \A i \in 1..k : i \in DOMAIN R /\ i # k + 1
    BY <1>3
  <1>5. page \notin {primary} \cup {R[i] : i \in 1..k}
    <2>1. page # primary
      BY DEF Planning!ToSet
    <2>2. \A i \in 1..k : R[i] # R[k + 1]
      BY <1>4 DEF Planning!IsInjective
    <2> QED
      BY <2>1, <2>2
  <1>6. {primary} \cup {R[i] : i \in 1..(k + 1)} = ({primary} \cup {R[i] : i \in 1..k}) \cup {page}
    <2>1. 1..(k + 1) = (1..k) \cup {k + 1}
      OBVIOUS
    <2> QED
      BY <2>1
  <1>7. p.maxTokens = tokens /\ c(page) \in Nat /\ p.total \in Nat
    <2>1. CostOf(pages, p.included) \in Nat
      BY <1>1, <1>4, CostAppends
    <2>2. c(page) \in Nat
      BY <1>4, CostIs
    <2>3. p.maxTokens = tokens
      BY <1>1
    <2> QED
      BY <1>1, <2>1, <2>2, <2>3
  <1>8. \A d \in Planning!ToSet(p.dropped) : c(d) \in Nat
    <2>1. Planning!ToSet(p.dropped) \subseteq P
      BY <1>1, InBoth
    <2> QED
      BY <2>1, CostIs
  <1>9. PICK inc : inc = p.included /\ inc \in Seq(P)
    BY <1>1
  <1>10. PICK drop : drop = p.dropped /\ drop \in Seq(P)
    BY <1>1
  <1>11. CASE p.total + c(page) > tokens
    <2>1. PICK more : more = Append(drop, page)
      OBVIOUS
    <2>2. /\ more \in Seq(P) /\ Planning!ToSet(more) = Planning!ToSet(drop) \cup {page}
          /\ Planning!IsInjective(drop) /\ page \notin Planning!ToSet(drop) => Planning!IsInjective(more)
      BY <1>4, <1>10, <2>1, Appends
    <2>3. q = [included |-> inc, dropped |-> more, depth |-> depth, excerpts |-> <<>>,
               total |-> p.total, maxTokens |-> tokens]
      <3>1. q = [p EXCEPT !.dropped = Append(@, page)]
        BY <1>7, <1>11 DEF Planning!Packed
      <3>2. q = [p EXCEPT !.dropped = more]
        BY <1>10, <2>1, <3>1
      <3>3. PICK total : total = p.total
        OBVIOUS
      <3>4. p = [included |-> inc, dropped |-> drop, depth |-> depth, excerpts |-> <<>>,
                 total |-> total, maxTokens |-> tokens]
        BY <1>1, <1>9, <1>10, <3>3
      <3> HIDE DEF q, page
      <3> QED
        BY ONLY <3>2, <3>3, <3>4
    <2>4. /\ q.included = inc /\ q.dropped = more /\ q.total = p.total
          /\ q = [included |-> q.included, dropped |-> q.dropped, depth |-> depth, excerpts |-> <<>>,
                  total |-> q.total, maxTokens |-> tokens]
      BY <2>3
    <2> HIDE DEF q, page
    <2>5. InOrder(R, primary, k + 1, inc)
      <3>1. \A b \in 1..k : b \in 1..(k + 1)
        OBVIOUS
      <3>2. \A i, j \in DOMAIN inc : i < j =>
              \E b \in 1..k : /\ inc[j] = R[b]
                              /\ inc[i] = primary \/ \E a \in 1..k : a < b /\ inc[i] = R[a]
        <4>1. InOrder(R, primary, k, inc)
          BY <1>2, <1>9
        <4> QED
          BY <4>1 DEF InOrder
      <3> QED
        BY <3>1, <3>2 DEF InOrder
    <2>6. \A d \in Planning!ToSet(more) : p.total + c(d) > tokens
      BY <1>1, <1>10, <1>11, <2>2
    <2>7. page \notin Planning!ToSet(inc) \cup Planning!ToSet(drop)
      BY <1>2, <1>5, <1>9, <1>10
    <2>8. /\ Planning!ToSet(inc) \cup Planning!ToSet(more) = {primary} \cup {R[i] : i \in 1..(k + 1)}
          /\ Planning!ToSet(inc) \cap Planning!ToSet(more) = {}
      BY <1>2, <1>6, <1>9, <1>10, <2>2, <2>7
    <2>9. Planning!IsInjective(inc) /\ Planning!IsInjective(more)
      BY <1>2, <1>9, <1>10, <2>2, <2>7
    <2>10. /\ 1 \in DOMAIN inc /\ inc[1] = primary /\ p.total = CostOf(pages, inc)
           /\ p.total <= tokens \/ inc = <<primary>>
      BY <1>1, <1>9
    <2>11. Packing(pages, primary, depth, tokens, R, k + 1, q)
      BY <1>9, <2>2, <2>4, <2>5, <2>6, <2>8, <2>9, <2>10 DEF Packing
    <2> QED
      BY <2>11 DEF q
  <1>12. CASE ~(p.total + c(page) > tokens)
    <2>1. PICK more : more = Append(inc, page)
      OBVIOUS
    <2>2. /\ more \in Seq(P) /\ Planning!ToSet(more) = Planning!ToSet(inc) \cup {page}
          /\ Planning!IsInjective(inc) /\ page \notin Planning!ToSet(inc) => Planning!IsInjective(more)
      BY <1>4, <1>9, <2>1, Appends
    <2>3. q = [included |-> more, dropped |-> drop, depth |-> depth, excerpts |-> <<>>,
               total |-> p.total + c(page), maxTokens |-> tokens]
      <3>1. q = [p EXCEPT !.included = Append(@, page), !.total = @ + c(page)]
        BY <1>7, <1>12 DEF Planning!Packed
      <3>2. q = [p EXCEPT !.included = more, !.total = p.total + c(page)]
        BY <1>1, <1>9, <2>1, <3>1
      <3>3. PICK total : total = p.total
        OBVIOUS
      <3>4. p = [included |-> inc, dropped |-> drop, depth |-> depth, excerpts |-> <<>>,
                 total |-> total, maxTokens |-> tokens]
        BY <1>1, <1>9, <1>10, <3>3
      <3>5. PICK sum : sum = p.total + c(page)
        OBVIOUS
      <3>6. q = [p EXCEPT !.included = more, !.total = sum]
        BY <3>2, <3>5
      <3> HIDE DEF q, page, c
      <3> QED
        BY ONLY <3>4, <3>5, <3>6
    <2>4. /\ q.included = more /\ q.dropped = drop /\ q.total = p.total + c(page)
          /\ q = [included |-> q.included, dropped |-> q.dropped, depth |-> depth, excerpts |-> <<>>,
                  total |-> q.total, maxTokens |-> tokens]
      BY <2>3
    <2> HIDE DEF q, page
    <2>5. InOrder(R, primary, k + 1, more)
      <3>0. PICK m \in Nat : m = Len(inc) /\ DOMAIN inc = 1..m /\ inc \in [1..m -> P]
        BY <1>9
      <3>1. /\ DOMAIN more = 1..(m + 1) /\ (\A i \in 1..m : more[i] = inc[i]) /\ more[m + 1] = page
            /\ \A i, j \in 1..(m + 1) : i < j => i \in 1..m /\ (j \in 1..m \/ j = m + 1)
        BY <1>9, <2>1, <3>0
      <3>2. \A b \in 1..k : b \in 1..(k + 1) /\ b < k + 1
        OBVIOUS
      <3>3. \A i, j \in 1..m : i < j =>
              \E b \in 1..k : /\ inc[j] = R[b]
                              /\ inc[i] = primary \/ \E a \in 1..k : a < b /\ inc[i] = R[a]
        <4>1. InOrder(R, primary, k, inc)
          BY <1>2, <1>9
        <4> QED
          BY <3>0, <4>1 DEF InOrder
      <3>4. \A i \in 1..m : inc[i] \in {primary} \cup {R[a] : a \in 1..k}
        <4>1. \A i \in 1..m : inc[i] \in Planning!ToSet(inc)
          BY <3>0 DEF Planning!ToSet
        <4> QED
          BY <1>2, <1>9, <4>1
      <3>5. k + 1 \in 1..(k + 1)
        OBVIOUS
      <3>6. ASSUME NEW i \in 1..(m + 1), NEW j \in 1..(m + 1), i < j
            PROVE  \E b \in 1..(k + 1) :
                     /\ more[j] = R[b]
                     /\ more[i] = primary \/ \E a \in 1..(k + 1) : a < b /\ more[i] = R[a]
        <4>1. i \in 1..m /\ more[i] = inc[i] /\ (j \in 1..m \/ j = m + 1)
          BY <3>1, <3>6
        <4>2. CASE j \in 1..m
          <5>1. more[j] = inc[j]
            BY <3>1, <4>2
          <5>2. PICK b \in 1..k : /\ inc[j] = R[b]
                                  /\ inc[i] = primary \/ \E a \in 1..k : a < b /\ inc[i] = R[a]
            BY <3>3, <3>6, <4>1, <4>2
          <5> QED
            BY <3>2, <4>1, <5>1, <5>2
        <4>3. CASE j = m + 1
          <5>1. more[j] = R[k + 1]
            BY <3>1, <4>3 DEF page
          <5>2. inc[i] = primary \/ \E a \in 1..k : inc[i] = R[a]
            BY <3>4, <4>1
          <5>3. more[i] = primary \/ \E a \in 1..(k + 1) : a < k + 1 /\ more[i] = R[a]
            BY <3>2, <4>1, <5>2
          <5> QED
            BY <3>5, <5>1, <5>3
        <4> QED
          BY <4>1, <4>2, <4>3
      <3>7. \A i, j \in 1..(m + 1) : i < j =>
              \E b \in 1..(k + 1) :
                /\ more[j] = R[b]
                /\ more[i] = primary \/ \E a \in 1..(k + 1) : a < b /\ more[i] = R[a]
        BY <3>6
      <3>8. DOMAIN more = 1..(m + 1)
        BY <3>1
      <3> QED
        BY ONLY <3>7, <3>8 DEF InOrder
    <2>6. \A d \in Planning!ToSet(drop) : (p.total + c(page)) + c(d) > tokens
      <3>1. \A d \in Planning!ToSet(drop) : p.total + c(d) > tokens /\ c(d) \in Nat
        BY <1>1, <1>8, <1>10
      <3> HIDE DEF c
      <3> QED
        BY <1>7, <3>1
    <2>7. page \notin Planning!ToSet(inc) \cup Planning!ToSet(drop)
      BY <1>2, <1>5, <1>9, <1>10 DEF page
    <2>8. /\ Planning!ToSet(more) \cup Planning!ToSet(drop) = {primary} \cup {R[i] : i \in 1..(k + 1)}
          /\ Planning!ToSet(more) \cap Planning!ToSet(drop) = {}
      BY <1>2, <1>6, <1>9, <1>10, <2>2, <2>7
    <2>9. Planning!IsInjective(more) /\ Planning!IsInjective(drop)
      BY <1>2, <1>9, <1>10, <2>2, <2>7
    <2>10. 1 \in DOMAIN more /\ more[1] = primary
      <3>0. PICK m \in Nat : m = Len(inc) /\ DOMAIN inc = 1..m
        BY <1>9
      <3>1. 1 \in 1..m /\ inc[1] = primary
        BY <1>1, <1>9, <3>0
      <3> QED
        BY <1>9, <2>1, <3>0, <3>1
    <2>11. p.total + c(page) = CostOf(pages, more)
      <3>1. CostOf(pages, more) = CostOf(pages, inc) + c(page)
        BY <1>4, <1>9, <2>1, CostAppends
      <3> QED
        BY <1>1, <1>9, <3>1
    <2>12. p.total + c(page) <= tokens
      BY <1>7, <1>12
    <2>13. Packing(pages, primary, depth, tokens, R, k + 1, q)
      BY <1>10, <2>2, <2>4, <2>5, <2>6, <2>8, <2>9, <2>10, <2>11, <2>12 DEF Packing
    <2> QED
      BY <2>13 DEF q
  <1> QED
    BY <1>11, <1>12

Parcels(pages, depth, tokens) ==
  [included : Seq(DOMAIN pages), dropped : Seq(DOMAIN pages), depth : {depth},
   excerpts : {<<>>}, total : Nat, maxTokens : {tokens}]

LEMMA PackStays ==
  ASSUME NEW pages \in Sites, NEW depth, NEW tokens \in Nat, NEW p \in Parcels(pages, depth, tokens),
         NEW page \in DOMAIN pages
  PROVE  Planning!Packed(pages, p, page) \in Parcels(pages, depth, tokens)
  <1>1. p.included \in Seq(DOMAIN pages) /\ p.dropped \in Seq(DOMAIN pages) /\ p.total \in Nat
    BY DEF Parcels
  <1>2. Append(p.included, page) \in Seq(DOMAIN pages) /\ Append(p.dropped, page) \in Seq(DOMAIN pages)
    BY <1>1
  <1>3. p.total + Planning!documentCost(pages, page) \in Nat
    BY <1>1, CostIs
  <1>4. CASE p.total + Planning!documentCost(pages, page) > p.maxTokens
    <2>1. Planning!Packed(pages, p, page) = [p EXCEPT !.dropped = Append(@, page)]
      BY <1>4 DEF Planning!Packed
    <2> QED
      BY <1>2, <2>1 DEF Parcels
  <1>5. CASE ~(p.total + Planning!documentCost(pages, page) > p.maxTokens)
    <2>1. Planning!Packed(pages, p, page) =
            [p EXCEPT !.included = Append(@, page), !.total = @ + Planning!documentCost(pages, page)]
      BY <1>5 DEF Planning!Packed
    <2> QED
      BY <1>2, <1>3, <2>1 DEF Parcels
  <1> QED
    BY <1>4, <1>5

\* The pack that is returned: all related pages packed or dropped, and its excerpts.
ExcerptsOf(pages, list) ==
  Planning!FlattenSeq([i \in DOMAIN list |-> Planning!excerptsFor(pages, list[i])])

LEMMA PackIs ==
  ASSUME NEW pages \in Sites, NEW primary \in DOMAIN pages, NEW depth \in Nat, NEW tokens \in Nat,
         NEW R, R = Planning!resolveRelated(pages, primary, depth)
  PROVE  \E p : /\ Packing(pages, primary, depth, tokens, R, Len(R), p)
                /\ Planning!buildSourcePack(pages, primary, depth, tokens) =
                     [p EXCEPT !.excerpts = ExcerptsOf(pages, p.included)]
  <1> DEFINE P == DOMAIN pages
             N == Len(R)
             S == Parcels(pages, depth, tokens)
             start == [included |-> <<primary>>, dropped |-> <<>>, depth |-> depth, excerpts |-> <<>>,
                       total |-> Planning!documentCost(pages, primary), maxTokens |-> tokens]
             F(x, k) == Planning!Packed(pages, x, R[k])
             step == [k \in 1..N |-> [x \in S |-> F(x, k)]]
             G == CHOOSE g : g = [k \in 0..N |-> IF k = 0 THEN start ELSE F(g[k - 1], k)]
             At(k, x) == Packing(pages, primary, depth, tokens, R, k, x)
  <1>1. R \in Seq(P) /\ primary \notin Planning!ToSet(R) /\ Planning!IsInjective(R)
    BY RelatedIs DEF Around
  <1>2. N \in Nat /\ DOMAIN R = 1..N /\ \A k \in 1..N : R[k] \in P
    BY <1>1
  <1>3. Planning!documentCost(pages, primary) \in Nat
    BY CostIs
  <1>4. start \in S
    BY <1>3 DEF Parcels
  <1>5. step \in [1..N -> [S -> S]] /\ \A k \in 1..N, x \in S : step[k][x] = F(x, k)
    BY <1>2, PackStays
  <1>6. At(0, start)
    <2>1. /\ Planning!ToSet(<<>>) = {} /\ Planning!IsInjective(<<>>)
          /\ Planning!ToSet(<<primary>>) = {primary} /\ Planning!IsInjective(<<primary>>)
      BY DEF Planning!ToSet, Planning!IsInjective
    <2>2. <<>> \in Seq(P) /\ <<primary>> \in Seq(P) /\ DOMAIN <<primary>> = {1} /\ <<primary>>[1] = primary
      OBVIOUS
    <2>3. {R[i] : i \in 1..0} = {}
      OBVIOUS
    <2>4. InOrder(R, primary, 0, <<primary>>)
      BY <2>2 DEF InOrder
    <2>5. CostOf(pages, <<primary>>) = Planning!documentCost(pages, primary)
      <3>1. PICK one : one = <<primary>>
        OBVIOUS
      <3>2. one = Append(<<>>, primary) /\ <<>> \in Seq(P)
        BY <3>1
      <3>3. CostOf(pages, one) = CostOf(pages, <<>>) + Planning!documentCost(pages, primary)
        BY <3>2, CostAppends
      <3> DEFINE none == [i \in DOMAIN <<>> |-> Planning!documentCost(pages, <<>>[i])]
      <3>4. none \in [1..0 -> Nat] /\ \A i \in 1..0 : none[i] = 0
        OBVIOUS
      <3>5. CostOf(pages, <<>>) = Planning!Total(none)
        BY DEF CostOf
      <3> HIDE DEF none
      <3>6. Planning!Total(none) = 0
        BY <3>4, SumsSome
      <3> QED
        BY <1>3, <3>1, <3>3, <3>5, <3>6
    <2>6. /\ start.included = <<primary>> /\ start.dropped = <<>>
          /\ start.total = Planning!documentCost(pages, primary)
          /\ start = [included |-> start.included, dropped |-> start.dropped, depth |-> depth,
                      excerpts |-> <<>>, total |-> start.total, maxTokens |-> tokens]
      OBVIOUS
    <2> HIDE DEF start
    <2> QED
      BY <2>1, <2>2, <2>3, <2>4, <2>5, <2>6 DEF Packing
  <1>7. Planning!buildSourcePack(pages, primary, depth, tokens) =
          [G[N] EXCEPT !.excerpts = ExcerptsOf(pages, G[N].included)]
    BY DEF Planning!buildSourcePack, ExcerptsOf
  <1>8. ASSUME NEW k \in Nat, k + 1 \in 1..N, NEW x, At(k, x) PROVE At(k + 1, F(x, k + 1))
    BY <1>1, <1>2, <1>8, PackedIs
  <1> HIDE DEF F, S, start, N, At
  <1> HIDE DEF step
  <1>9. \E g : g = [k \in 0..N |-> IF k = 0 THEN start ELSE F(g[k - 1], k)]
    <2>1. PICK g \in [0..N -> S] : Walk(g, N, start, step)
      BY <1>2, <1>4, <1>5, WalkExists
    <2>2. \A k \in 1..N : g[k - 1] \in S
      BY <1>2
    <2>3. g[0] = start /\ \A k \in 1..N : g[k] = F(g[k - 1], k)
      BY <1>5, <2>1, <2>2 DEF Walk
    <2>4. \A k \in 0..N : k = 0 \/ k \in 1..N
      BY <1>2
    <2>5. g = [k \in 0..N |-> IF k = 0 THEN start ELSE F(g[k - 1], k)]
      BY <2>3, <2>4
    <2> QED
      BY <2>5
  <1>10. G = [k \in 0..N |-> IF k = 0 THEN start ELSE F(G[k - 1], k)]
    BY <1>9
  <1> HIDE DEF G
  <1>11. G[0] = start /\ \A k \in 1..N : G[k] = F(G[k - 1], k)
    <2>1. 0 \in 0..N /\ \A k \in 1..N : k \in 0..N /\ k # 0
      BY <1>2
    <2>2. \A k \in 0..N : G[k] = IF k = 0 THEN start ELSE F(G[k - 1], k)
      BY Zenon, <1>10
    <2> QED
      BY <2>1, <2>2
  <1> DEFINE T == {k \in Nat : k <= N => At(k, G[k])}
  <1>12. 0 \in T
    BY <1>6, <1>11
  <1>13. ASSUME NEW k \in Nat, k \in T PROVE k + 1 \in T
    <2> SUFFICES ASSUME k + 1 <= N PROVE At(k + 1, G[k + 1])
      OBVIOUS
    <2>1. k + 1 \in 1..N /\ (k + 1) - 1 = k /\ At(k, G[k])
      BY <1>2, <1>13
    <2>2. G[k + 1] = F(G[k], k + 1)
      BY <1>11, <2>1
    <2> QED
      BY <1>8, <2>1, <2>2
  <1> HIDE DEF T
  <1>14. N \in T
    BY <1>2, <1>12, <1>13, EveryNumber
  <1>15. At(N, G[N])
    BY <1>2, <1>14 DEF T
  <1>16. Packing(pages, primary, depth, tokens, R, Len(R), G[N])
    BY <1>15 DEF At, N
  <1> QED
    BY <1>7, <1>16

LEMMA LastTells ==
  ASSUME NEW S, NEW b \in Seq(S), NEW n, NEW m, Append(b, n) = Append(b, m)
  PROVE  n = m
  <1>1. PICK Q : Q = S \cup {n, m}
    OBVIOUS
  <1>2. b \in Seq(Q) /\ n \in Q /\ m \in Q
    <2>1. PICK k \in Nat : k = Len(b) /\ b \in [1..k -> S]
      OBVIOUS
    <2>2. S \subseteq Q
      BY <1>1
    <2>3. b \in [1..k -> Q]
      BY <2>1, <2>2
    <2> QED
      BY <1>1, <2>1, <2>3
  <1>3. Append(b, n)[Len(b) + 1] = n /\ Append(b, m)[Len(b) + 1] = m
    BY <1>2
  <1> QED
    BY <1>3

\* The base of an id is a sequence; so an id and its suffix tell each other.
LEMMA BaseIs ==
  ASSUME NEW pages \in Sites, Planning!excerpts \in Seq(Pieces(pages)), NEW i \in DOMAIN Planning!excerpts
  PROVE  \E S : Planning!Base(i) \in Seq(S)
  <1>1. PICK e : e = Planning!excerpts[i]
    OBVIOUS
  <1>2. e \in Pieces(pages)
    BY <1>1
  <1>3. Len(e.slug) \in Nat /\ e.slug = [j \in 1..Len(e.slug) |-> e.slug[j]]
    BY <1>2, PieceIs
  <1>4. PICK ordinal : ordinal = Planning!Cardinality({j \in 1..(i - 1) : Planning!excerpts[j].page = e.page})
    OBVIOUS
  <1> DEFINE S == {e.slug[j] : j \in 1..Len(e.slug)} \cup {e.page, "section", ordinal}
             rest == IF e.slug = <<>> THEN <<"section", ordinal>> ELSE e.slug
  <1>5. Planning!Base(i) = <<e.page>> \o rest
    BY <1>1, <1>4 DEF Planning!Base
  <1>6. e.slug \in Seq(S)
    <2>1. PICK n \in Nat : n = Len(e.slug)
      BY <1>3
    <2>2. \A j \in 1..n : e.slug[j] \in S
      BY <2>1
    <2> HIDE DEF S
    <2>3. e.slug \in [1..n -> S]
      BY <1>3, <2>1, <2>2
    <2> QED
      BY <2>3
  <1>7. e.page \in S /\ "section" \in S /\ ordinal \in S
    OBVIOUS
  <1> HIDE DEF S
  <1>8. rest \in Seq(S) /\ <<e.page>> \in Seq(S)
    BY <1>6, <1>7
  <1> HIDE DEF rest
  <1>9. <<e.page>> \o rest \in Seq(S)
    BY <1>8
  <1> QED
    BY <1>5, <1>9

\* The least of some numbers, as the code's loop finds it.
LeastIn(free) == CHOOSE n \in free : \A m \in free : n <= m
Ids(count) ==
  {Planning!Base(i) : i \in 1..count}
    \cup UNION {{Append(Planning!Base(i), n) : n \in Nat \cup {LeastIn({})}} : i \in 1..count}

\* The i-th id is none of the i - 1 before it: of i suffixes, one is free.
LEMMA NextIdIs ==
  ASSUME NEW pages \in Sites, Planning!excerpts \in Seq(Pieces(pages)), NEW count \in Nat,
         count = Len(Planning!excerpts), NEW i \in 1..count, NEW ids \in Seq(Ids(count))
  PROVE  /\ Planning!NextId(ids, i) \in Seq(Ids(count))
         /\ Len(ids) = i - 1 /\ Planning!IsInjective(ids)
              => Len(Planning!NextId(ids, i)) = i /\ Planning!IsInjective(Planning!NextId(ids, i))
  <1> DEFINE b == Planning!Base(i)
             taken == Planning!ToSet(ids)
             free == {n \in 2..(i + 1) : Append(b, n) \notin taken}
             id == IF b \notin taken THEN b ELSE Append(b, LeastIn(free))
  <1>1. Planning!NextId(ids, i) = Append(ids, id)
    BY DEF Planning!NextId, LeastIn
  <1>2. i \in DOMAIN Planning!excerpts
    OBVIOUS
  <1>3. PICK S : b \in Seq(S)
    BY <1>2, BaseIs
  <1>4. ASSUME free # {} PROVE LeastIn(free) \in free
    <2>1. free \subseteq Nat
      OBVIOUS
    <2>2. \E n \in free : \A m \in free : n <= m
      BY <1>4, <2>1, LeastNumber
    <2> HIDE DEF free
    <2> QED
      BY <2>2 DEF LeastIn
  <1>5. id \in Ids(count)
    <2>1. b \in Ids(count) /\ \A n \in Nat \cup {LeastIn({})} : Append(b, n) \in Ids(count)
      BY DEF Ids
    <2>2. LeastIn(free) \in Nat \cup {LeastIn({})}
      <3>1. free \subseteq Nat
        OBVIOUS
      <3>2. CASE free = {}
        BY <3>2
      <3>3. CASE free # {}
        BY <1>4, <3>1, <3>3
      <3> QED
        BY <3>2, <3>3
    <2> HIDE DEF b, free
    <2> QED
      BY <2>1, <2>2
  <1>6. ASSUME Len(ids) = i - 1, b \in taken PROVE free # {}
    <2> SUFFICES ASSUME \A n \in 2..(i + 1) : Append(b, n) \in taken PROVE FALSE
      OBVIOUS
    <2>1. taken = {ids[k] : k \in 1..(i - 1)}
      BY <1>6 DEF Planning!ToSet
    <2>2. \A n \in 2..(i + 1) : \E k \in 1..(i - 1) : ids[k] = Append(b, n)
      BY <2>1
    <2> HIDE DEF b
    <2> DEFINE f == [n \in 2..(i + 1) |-> CHOOSE k \in 1..(i - 1) : ids[k] = Append(b, n)]
    <2>3. f \in [2..(i + 1) -> 1..(i - 1)] /\ \A n \in 2..(i + 1) : ids[f[n]] = Append(b, n)
      BY <2>2
    <2> HIDE DEF f
    <2>4. /\ IsFiniteSet(1..(i - 1)) /\ Cardinality(1..(i - 1)) = i - 1
          /\ IsFiniteSet(2..(i + 1)) /\ Cardinality(2..(i + 1)) = i
      <3>1. Cardinality(1..(i - 1)) = IF 1 > i - 1 THEN 0 ELSE (i - 1) - 1 + 1
        BY FS_Interval
      <3>2. Cardinality(2..(i + 1)) = IF 2 > i + 1 THEN 0 ELSE (i + 1) - 2 + 1
        BY FS_Interval
      <3> QED
        BY <3>1, <3>2, FS_Interval
    <2>5. \E n, m \in 2..(i + 1) : n # m /\ f[n] = f[m]
      <3>1. PICK A : A = 2..(i + 1)
        OBVIOUS
      <3>2. PICK B : B = 1..(i - 1)
        OBVIOUS
      <3>3. IsFiniteSet(A) /\ IsFiniteSet(B) /\ Cardinality(B) < Cardinality(A) /\ f \in [A -> B]
        BY <2>3, <2>4, <3>1, <3>2
      <3>4. \E n, m \in A : n # m /\ f[n] = f[m]
        BY ONLY <3>3, FS_PigeonHole
      <3> QED
        BY <3>1, <3>4
    <2> QED
      BY <1>3, <2>3, <2>5, LastTells
  <1>7. ASSUME Len(ids) = i - 1 PROVE id \notin taken
    <2>1. CASE b \notin taken
      BY <2>1
    <2>2. CASE b \in taken
      <3>1. LeastIn(free) \in free
        BY <1>4, <1>6, <1>7, <2>2
      <3>2. Append(b, LeastIn(free)) \notin taken
        BY <3>1
      <3> QED
        BY <2>2, <3>2
    <2> QED
      BY <2>1, <2>2
  <1> HIDE DEF id
  <1>8. /\ Append(ids, id) \in Seq(Ids(count)) /\ Len(Append(ids, id)) = Len(ids) + 1
        /\ Planning!IsInjective(ids) /\ id \notin Planning!ToSet(ids)
             => Planning!IsInjective(Append(ids, id))
    BY <1>5, Appends
  <1>9. Len(ids) = i - 1 => Len(ids) + 1 = i
    OBVIOUS
  <1> QED
    BY <1>1, <1>7, <1>8, <1>9

LEMMA IdsDiffer ==
  ASSUME NEW pages \in Sites, Planning!excerpts \in Seq(Pieces(pages))
  PROVE  Planning!IsInjective(Planning!deriveExcerptIds)
  <1>0. PICK N \in Nat : N = Len(Planning!excerpts)
    OBVIOUS
  <1> DEFINE S == Seq(Ids(N))
             step == [k \in 1..N |-> [x \in S |-> Planning!NextId(x, k)]]
             G == CHOOSE g : g = [k \in 0..N |-> IF k = 0 THEN <<>> ELSE Planning!NextId(g[k - 1], k)]
  <1>1. Planning!deriveExcerptIds = G[N]
    BY <1>0 DEF Planning!deriveExcerptIds
  <1>2. ASSUME NEW k \in 1..N, NEW x \in S
        PROVE  /\ Planning!NextId(x, k) \in S
               /\ Len(x) = k - 1 /\ Planning!IsInjective(x)
                    => Len(Planning!NextId(x, k)) = k /\ Planning!IsInjective(Planning!NextId(x, k))
    BY <1>0, NextIdIs
  <1>3. <<>> \in S /\ Planning!IsInjective(<<>>) /\ Len(<<>>) = 0
    BY DEF Planning!IsInjective
  <1> HIDE DEF S
  <1>4. step \in [1..N -> [S -> S]] /\ \A k \in 1..N, x \in S : step[k][x] = Planning!NextId(x, k)
    BY <1>2
  <1> HIDE DEF step
  <1>5. \E g : g = [k \in 0..N |-> IF k = 0 THEN <<>> ELSE Planning!NextId(g[k - 1], k)]
    <2>1. PICK g \in [0..N -> S] : Walk(g, N, <<>>, step)
      BY <1>3, <1>4, WalkExists
    <2>2. \A k \in 1..N : g[k - 1] \in S
      OBVIOUS
    <2>3. g[0] = <<>> /\ \A k \in 1..N : g[k] = Planning!NextId(g[k - 1], k)
      BY <1>4, <2>1, <2>2 DEF Walk
    <2>4. \A k \in 0..N : k = 0 \/ k \in 1..N
      OBVIOUS
    <2>5. g = [k \in 0..N |-> IF k = 0 THEN <<>> ELSE Planning!NextId(g[k - 1], k)]
      BY <2>3, <2>4
    <2> QED
      BY <2>5
  <1>6. G = [k \in 0..N |-> IF k = 0 THEN <<>> ELSE Planning!NextId(G[k - 1], k)]
    BY <1>5
  <1> HIDE DEF G
  <1>7. G[0] = <<>> /\ \A k \in 1..N : G[k] = Planning!NextId(G[k - 1], k)
    <2>1. 0 \in 0..N /\ \A k \in 1..N : k \in 0..N /\ k # 0
      OBVIOUS
    <2>2. \A k \in 0..N : G[k] = IF k = 0 THEN <<>> ELSE Planning!NextId(G[k - 1], k)
      BY Zenon, <1>6
    <2> QED
      BY <2>1, <2>2
  <1> DEFINE T == {k \in Nat : k <= N => G[k] \in S /\ Len(G[k]) = k /\ Planning!IsInjective(G[k])}
  <1>8. 0 \in T
    BY <1>3, <1>7
  <1>9. ASSUME NEW k \in Nat, k \in T PROVE k + 1 \in T
    <2> SUFFICES ASSUME k + 1 <= N
                 PROVE  /\ G[k + 1] \in S /\ Len(G[k + 1]) = k + 1
                        /\ Planning!IsInjective(G[k + 1])
      OBVIOUS
    <2>1. /\ k + 1 \in 1..N /\ (k + 1) - 1 = k
          /\ G[k] \in S /\ Len(G[k]) = k /\ Planning!IsInjective(G[k])
      BY <1>9
    <2>2. G[k + 1] = Planning!NextId(G[k], k + 1)
      BY <1>7, <2>1
    <2> QED
      BY <1>2, <2>1, <2>2
  <1> HIDE DEF T
  <1>10. N \in T
    BY <1>8, <1>9, EveryNumber
  <1> QED
    BY <1>1, <1>10 DEF T

\* What is packed is closed and in order, and made of pieces of the site's pages.
LEMMA PackHolds ==
  ASSUME site \in Sites, NEW primary \in DOMAIN site, NEW depth \in Nat, NEW tokens \in Nat,
         pack = Planning!buildSourcePack(site, primary, depth, tokens)
  PROVE  Planning!PackClosed /\ Planning!excerpts \in Seq(Pieces(site))
  <1> DEFINE P == DOMAIN site
             near(n) == Planning!Within(site, primary, n)
             cost(page) == Planning!documentCost(site, page)
  <1>1. PICK R : R = Planning!resolveRelated(site, primary, depth)
    OBVIOUS
  <1>2. Around(site, primary, depth, R)
    BY <1>1, RelatedIs
  <1>3. R \in Seq(P) /\ {primary} \cup Planning!ToSet(R) = near(depth) /\ Planning!IsInjective(R)
        /\ NearerFirst(site, primary, depth, R) /\ primary \notin Planning!ToSet(R)
    BY <1>2 DEF Around
  <1>4. PICK N \in Nat : N = Len(R) /\ DOMAIN R = 1..N
    BY <1>3
  <1>5. PICK p : /\ Packing(site, primary, depth, tokens, R, Len(R), p)
                 /\ pack = [p EXCEPT !.excerpts = ExcerptsOf(site, p.included)]
    BY <1>1, PackIs
  <1>6. Packing(site, primary, depth, tokens, R, N, p)
    BY <1>4, <1>5
  <1>7. PICK e : e = ExcerptsOf(site, p.included)
    OBVIOUS
  <1>8. PICK inc : inc = p.included
    OBVIOUS
  <1>9. PICK drop : drop = p.dropped
    OBVIOUS
  <1>10. PICK total : total = p.total
    OBVIOUS
  <1>11. /\ p = [included |-> inc, dropped |-> drop, depth |-> depth, excerpts |-> <<>>,
                 total |-> total, maxTokens |-> tokens]
         /\ inc \in Seq(P) /\ drop \in Seq(P) /\ 1 \in DOMAIN inc /\ inc[1] = primary
         /\ Planning!ToSet(inc) \cup Planning!ToSet(drop) = {primary} \cup {R[i] : i \in 1..N}
         /\ Planning!ToSet(inc) \cap Planning!ToSet(drop) = {}
         /\ Planning!IsInjective(inc) /\ Planning!IsInjective(drop)
         /\ InOrder(R, primary, N, inc)
         /\ total = CostOf(site, inc)
         /\ total <= tokens \/ inc = <<primary>>
         /\ \A d \in Planning!ToSet(drop) : total + cost(d) > tokens
    BY <1>6, <1>8, <1>9, <1>10 DEF Packing
  <1>12. pack = [included |-> inc, dropped |-> drop, depth |-> depth, excerpts |-> e,
                 total |-> total, maxTokens |-> tokens]
    <2>1. pack = [p EXCEPT !.excerpts = e]
      BY <1>5, <1>7
    <2> QED
      BY ONLY <1>11, <2>1
  <1>13. /\ pack.included = inc /\ pack.dropped = drop /\ pack.depth = depth /\ pack.excerpts = e
         /\ pack.total = total /\ pack.maxTokens = tokens
    BY <1>12
  <1>14. e \in Seq(Pieces(site))
    <2>1. PICK n \in Nat : n = Len(inc) /\ DOMAIN inc = 1..n /\ inc \in [1..n -> P]
      BY <1>11
    <2> DEFINE seqs == [i \in 1..n |-> Planning!excerptsFor(site, inc[i])]
    <2>2. seqs \in [1..n -> Seq(Pieces(site))]
      BY <2>1, ExcerptsAre
    <2>3. e = Planning!FlattenSeq(seqs)
      BY <1>7, <1>8, <2>1 DEF ExcerptsOf
    <2> HIDE DEF seqs
    <2> QED
      BY <2>2, <2>3, FlattenIs
  <1>15. Planning!excerpts \in Seq(Pieces(site))
    BY <1>13, <1>14 DEF Planning!excerpts
  <1>16. Planning!IsInjective(Planning!deriveExcerptIds)
    BY <1>15, IdsDiffer
  <1>17. PICK both : both = inc \o drop
    OBVIOUS
  <1>18. Planning!ToSet(both) = near(depth) /\ Planning!IsInjective(both)
    <2>1. Planning!ToSet(both) = Planning!ToSet(inc) \cup Planning!ToSet(drop)
      BY <1>11, <1>17, InBoth
    <2>2. Planning!ToSet(R) = {R[i] : i \in 1..N}
      BY <1>4 DEF Planning!ToSet
    <2>3. Joins(both, inc, drop)
      BY <1>17 DEF Joins
    <2>4. Planning!IsInjective(both)
      BY <1>11, <2>3, Joined
    <2> QED
      BY <1>3, <1>11, <2>1, <2>2, <2>4
  <1> HIDE DEF near, cost
  <1>19. ASSUME NEW n \in 0..depth, NEW i \in DOMAIN inc, NEW j \in DOMAIN inc,
                i < j, inc[j] \in near(n)
         PROVE  inc[i] \in near(n)
    <2>1. PICK b \in 1..N : /\ inc[j] = R[b]
                            /\ inc[i] = primary \/ \E a \in 1..N : a < b /\ inc[i] = R[a]
      BY <1>11, <1>19 DEF InOrder
    <2>2. CASE inc[i] = primary
      <3>1. near(0) \subseteq near(n) /\ near(0) = {primary}
        <4>1. n \in Nat /\ 0 \in 0..n
          BY <1>19
        <4> QED
          BY <4>1, WithinGrows, WithinStep DEF near
      <3> QED
        BY <2>2, <3>1
    <2>3. CASE \E a \in 1..N : a < b /\ inc[i] = R[a]
      <3>1. PICK a \in 1..N : a < b /\ inc[i] = R[a]
        BY <2>3
      <3>2. R[b] \in near(n)
        BY <1>19, <2>1
      <3> QED
        BY <1>3, <1>4, <3>1, <3>2 DEF NearerFirst, near
    <2> QED
      BY <2>1, <2>2, <2>3
  <1>20. Planning!PackClosed
    <2>1. CostOf(site, inc) = Planning!Total([i \in DOMAIN inc |-> Planning!documentCost(site, inc[i])])
      BY DEF CostOf
    <2>2. Planning!ToSet(inc \o drop) = near(depth) /\ Planning!IsInjective(inc \o drop)
      BY <1>17, <1>18
    <2>3. /\ \A n \in 0..depth : \A i, j \in DOMAIN inc :
               i < j /\ inc[j] \in Planning!Within(site, primary, n)
                 => inc[i] \in Planning!Within(site, primary, n)
          /\ Planning!ToSet(inc \o drop) = Planning!Within(site, primary, depth)
      BY <1>19, <2>2 DEF near
    <2>4. \A d \in Planning!ToSet(drop) : total + Planning!documentCost(site, d) > tokens
      BY <1>11 DEF cost
    <2>5. total = Planning!Total([i \in DOMAIN inc |-> Planning!documentCost(site, inc[i])])
      BY <1>11, <2>1
    <2>6. inc[1] = primary /\ (total <= tokens \/ inc = <<primary>>)
      BY <1>11
    <2> QED
      BY <1>13, <1>16, <2>2, <2>3, <2>4, <2>5, <2>6 DEF Planning!PackClosed
  <1> QED
    BY <1>15, <1>20

\* The site never changes, the pack is one of its pages', and the draft is about its excerpts.
PlanningInv ==
  /\ site \in Sites
  /\ \/ pack = Planning!NoPack
     \/ \E primary \in DOMAIN site, depth \in Depths, tokens \in PackTokens :
          pack = Planning!buildSourcePack(site, primary, depth, tokens)
  /\ draft = <<>> \/ (pack # Planning!NoPack /\ \E n \in Nat : Drafted(n))

LEMMA PlanningInvariant == PlanningSpec => []PlanningInv
  <1>1. Planning!PlanningInit => PlanningInv
    BY DEF Planning!PlanningInit, PlanningInv
  <1>2. PlanningInv /\ [Planning!PlanningNext]_(Planning!planningVars) => PlanningInv'
    <2> SUFFICES ASSUME PlanningInv, [Planning!PlanningNext]_(Planning!planningVars)
                 PROVE  PlanningInv'
      OBVIOUS
    <2>1. CASE UNCHANGED Planning!planningVars
      BY <2>1 DEF PlanningInv, Drafted, Beats, Planning!planningVars, Planning!excerpts
    <2>2. ASSUME NEW primary \in DOMAIN site, NEW depth \in Depths, NEW tokens \in PackTokens,
                 Planning!BuildSourcePack(primary, depth, tokens)
          PROVE  PlanningInv'
      <3>1. /\ pack' = Planning!buildSourcePack(site, primary, depth, tokens)
            /\ site' = site /\ draft' = draft /\ pack = Planning!NoPack
        BY <2>2 DEF Planning!BuildSourcePack
      <3>2. draft' = <<>>
        BY <3>1 DEF PlanningInv
      <3>3. \E a \in DOMAIN site', b \in Depths, c \in PackTokens :
              pack' = Planning!buildSourcePack(site', a, b, c)
        BY <3>1
      <3> QED
        BY <3>1, <3>2, <3>3 DEF PlanningInv
    <2>3. CASE Planning!ModelDrafts
      <3>1. /\ pack # Planning!NoPack /\ site' = site /\ pack' = pack
            /\ draft' \in Planning!Drafts
        BY <2>3 DEF Planning!ModelDrafts
      <3>2. PICK n \in 1..MaxBeats : draft' \in [1..n -> Beats]
        BY <3>1 DEF Planning!Drafts, Beats
      <3>3. n \in Nat /\ Beats' = Beats
        BY <3>1 DEF Beats, Planning!excerpts
      <3>4. \E k \in Nat : Drafted(k)'
        BY <3>2, <3>3 DEF Drafted
      <3> QED
        BY <3>1, <3>4 DEF PlanningInv
    <2> QED
      BY <2>1, <2>2, <2>3 DEF Planning!PlanningNext
  <1> QED
    BY <1>1, <1>2, PTL DEF PlanningSpec

LEMMA PlanningHolds == PlanningInv => Planning!PackClosed /\ Planning!DraftGrounded
  <1> SUFFICES ASSUME PlanningInv PROVE Planning!PackClosed /\ Planning!DraftGrounded
    OBVIOUS
  <1>1. CASE pack = Planning!NoPack
    BY <1>1 DEF PlanningInv, Planning!PackClosed, Planning!DraftGrounded
  <1>2. CASE pack # Planning!NoPack
    <2>1. PICK primary \in DOMAIN site, depth \in Depths, tokens \in PackTokens :
            pack = Planning!buildSourcePack(site, primary, depth, tokens)
      BY <1>2 DEF PlanningInv
    <2>2. site \in Sites /\ depth \in Nat /\ tokens \in Nat
      <3>1. Depths \subseteq Nat /\ PackTokens \subseteq Nat
        BY Zenon, LabsAssumption DEF LabsAssumption
      <3>2. site \in Sites
        BY DEF PlanningInv
      <3> QED
        BY <2>1, <3>1, <3>2
    <2>3. Planning!PackClosed /\ Planning!excerpts \in Seq(Pieces(site))
      BY <2>1, <2>2, PackHolds
    <2>4. PICK m \in Nat : m = Len(Planning!excerpts) /\ DOMAIN Planning!excerpts = 1..m
      BY <2>3
    <2>5. \A e \in 1..m : Planning!excerpts[e].length \in Nat \ {0}
      <3>1. \A x \in Pieces(site) : x.length \in Nat \ {0}
        BY <2>2, PieceIs
      <3>2. \A e \in 1..m : Planning!excerpts[e] \in Pieces(site)
        BY <2>3, <2>4
      <3> QED
        BY <3>1, <3>2
    <2>6. Sourced(m)
      BY <2>4, <2>5 DEF Sourced
    <2>7. CASE draft = <<>>
      BY <2>3, <2>7 DEF Planning!DraftGrounded
    <2>8. CASE draft # <<>>
      <3>1. PICK n : Drafted(n)
        BY <2>8 DEF PlanningInv
      <3> QED
        BY <2>3, <2>6, <3>1, PlanHolds
    <2> QED
      BY <2>7, <2>8
  <1> QED
    BY <1>1, <1>2

\* For any site, every pack is a closed set of sources, nearer pages first, within
\* its budget, and the ids of its excerpts differ (source-pack.ts:200-225, ids.ts:41).
THEOREM PackCorrect == PlanningSpec => []Planning!PackClosed
  BY PlanningInvariant, PlanningHolds, PTL

\* And whatever draft the model answers with, no plan made of the pack promises
\* more than its sources hold (apportion.ts:54-153, budget.ts:70).
THEOREM PlanCorrect == PlanningSpec => []PlanGrounded
  <1>1. PlanningInv => PlanGrounded
    BY PlanningHolds DEF PlanGrounded, Planning!PlanGrounded
  <1> QED
    BY <1>1, PlanningInvariant, PTL
-------------------------------------------------------------------------------
(* DecisionTier: the fitted threshold is what a sweep would choose, by       *)
(* induction over the values walked; bins are sums again.                    *)

TierInv == records \in Seq(Decisions)

\* A finite set of numbers has a least one (Min of the library).
LEMMA LeastOfSome ==
  ASSUME NEW S, IsFiniteSet(S), S \subseteq Int, S # {}
  PROVE  Tier!Min(S) \in S /\ \A x \in S : Tier!Min(S) <= x
  <1> DEFINE P == {n \in Nat : \A T : IsFiniteSet(T) /\ Cardinality(T) = n + 1 /\ T \subseteq Int
                                        => \E m \in T : \A x \in T : m <= x}
  <1>1. 0 \in P
    <2> SUFFICES ASSUME NEW T, IsFiniteSet(T), Cardinality(T) = 0 + 1, T \subseteq Int
                 PROVE  \E m \in T : \A x \in T : m <= x
      OBVIOUS
    <2>1. Cardinality(T) = 1
      OBVIOUS
    <2>2. PICK m : T = {m}
      BY <2>1, FS_Singleton
    <2> QED
      BY <2>2
  <1>2. ASSUME NEW n \in Nat, n \in P PROVE n + 1 \in P
    <2> SUFFICES ASSUME NEW T, IsFiniteSet(T), Cardinality(T) = (n + 1) + 1, T \subseteq Int
                 PROVE  \E m \in T : \A x \in T : m <= x
      OBVIOUS
    <2>1. PICK t \in T : TRUE
      <3>1. Cardinality(T) # 0
        OBVIOUS
      <3> QED
        BY <3>1, FS_EmptySet
    <2>2. PICK R : R = T \ {t}
      OBVIOUS
    <2>3. IsFiniteSet(R) /\ Cardinality(R) = Cardinality(T) - 1
      BY <2>1, <2>2, FS_RemoveElement
    <2>4. Cardinality(R) = n + 1 /\ R \subseteq Int
      BY <2>2, <2>3
    <2>5. PICK m \in R : \A x \in R : m <= x
      BY <1>2, <2>3, <2>4
    <2>6. t \in Int /\ m \in Int /\ T = R \cup {t}
      BY <2>1, <2>2, <2>5
    <2>7. CASE t <= m
      BY <2>1, <2>4, <2>5, <2>6, <2>7
    <2>8. CASE m < t
      BY <2>4, <2>5, <2>6, <2>8
    <2> QED
      BY <2>6, <2>7, <2>8
  <1> HIDE DEF P
  <1>3. PICK n \in Nat : Cardinality(S) = n + 1
    <2>1. Cardinality(S) \in Nat /\ Cardinality(S) # 0
      BY FS_CardinalityType, FS_EmptySet
    <2>2. Cardinality(S) - 1 \in Nat /\ Cardinality(S) = (Cardinality(S) - 1) + 1
      BY <2>1
    <2> QED
      BY <2>2
  <1>4. n \in P
    BY <1>1, <1>2, EveryNumber
  <1>5. \E m \in S : \A x \in S : m <= x
    BY <1>3, <1>4 DEF P
  <1> QED
    BY <1>5 DEF Tier!Min

\* What is counted here is what is counted there.
LEMMA TierCounts ==
  /\ \A S : Tier!Cardinality(S) = Cardinality(S)
  /\ \A f : Tier!Total(f) = Planning!Total(f)
  <1>1. \A S : Tier!Cardinality(S) = Cardinality(S)
    BY Zenon DEF Tier!Cardinality, Cardinality
  <1>2. \A f : Tier!Total(f) = Planning!Total(f)
    BY Zenon DEF Tier!Total, Planning!Total
  <1> QED
    BY <1>1, <1>2

\* A decision's highest probability is one, and its signals are numbers (top, typesafe_confidence()).
LEMMA SignalIs ==
  ASSUME NEW r \in Decisions
  PROVE  /\ Tier!top(r) \in 0..Grain
         /\ \A how : Tier!Signal(how, r) \in Int
         /\ Tier!options(r) \in Nat \ {0, 1}
         /\ Scale \div (Tier!options(r) - 1) \in Nat \ {0}
  <1>1. /\ Grain \in Nat \ {0} /\ Scale \in Nat \ {0}
        /\ r.probs \in Seq(0..Grain) /\ Len(r.probs) > 1 /\ Scale % (Len(r.probs) - 1) = 0
    BY Zenon, LabsAssumption DEF LabsAssumption
  <1>2. PICK n \in Nat \ {0, 1} : n = Len(r.probs) /\ DOMAIN r.probs = 1..n
    BY <1>1
  <1>3. \A i \in 1..n : r.probs[i] \in 0..Grain
    BY <1>1, <1>2
  <1> DEFINE said == {r.probs[i] : i \in DOMAIN r.probs}
  <1>4. said \subseteq 0..Grain /\ said # {}
    <2>1. 1 \in DOMAIN r.probs
      BY <1>2
    <2>2. r.probs[1] \in said
      BY <2>1
    <2>3. \A i \in DOMAIN r.probs : r.probs[i] \in 0..Grain
      BY <1>2, <1>3
    <2> QED
      BY <2>2, <2>3
  <1>5. \E x \in said : \A y \in said : x >= y
    <2> DEFINE back == [x \in said |-> Grain - x]
    <2> HIDE DEF said
    <2>1. \A x \in said : back[x] \in Nat
      BY <1>1, <1>4
    <2>2. PICK x \in said : \A y \in said : back[x] <= back[y]
      <3> HIDE DEF back
      <3> QED
        BY <1>4, <2>1, LeastOf
    <2>3. \A y \in said : x >= y
      BY <1>1, <1>4, <2>2
    <2> QED
      BY <2>3
  <1>6. Tier!top(r) \in said
    BY <1>5 DEF Tier!top, Tier!Max
  <1>7. Tier!top(r) \in 0..Grain
    BY <1>4, <1>6
  <1>8. Tier!options(r) = n
    BY <1>2 DEF Tier!options
  <1>9. Scale \div (n - 1) \in Nat \ {0}
    <2>1. n - 1 \in Nat \ {0} /\ Scale \in Nat
      BY <1>1
    <2>2. PICK d \in Nat \ {0} : d = n - 1
      BY <2>1
    <2>3. Scale \div d \in Nat /\ Scale = d * (Scale \div d) + (Scale % d)
      BY <2>1, <2>2, Divides
    <2>4. Scale % d = 0
      BY <1>1, <1>2, <2>2
    <2>5. Scale \div d # 0
      <3> SUFFICES ASSUME Scale \div d = 0 PROVE FALSE
        OBVIOUS
      <3>1. Scale = d * 0 + 0
        BY <2>3, <2>4
      <3> QED
        BY <1>1, <2>2, <3>1
    <2> QED
      BY <2>2, <2>3, <2>5
  <1>10. ASSUME NEW how PROVE Tier!Signal(how, r) \in Int
    <2>1. PICK c \in Nat : c = Scale \div (n - 1)
      BY <1>9
    <2>2. Tier!typesafe(r) = c * (n * Tier!top(r) - Grain)
      BY <1>8, <2>1 DEF Tier!typesafe
    <2>3. Tier!typesafe(r) \in Int
      BY <1>1, <1>7, <2>2
    <2> QED
      BY <1>7, <2>3 DEF Tier!Signal
  <1> QED
    BY <1>7, <1>8, <1>9, <1>10

\* The records so far, and the places of those with certain signals.
LEMMA SampleIs ==
  ASSUME TierInv
  PROVE  \E n \in Nat : /\ n = Len(records) /\ DOMAIN records = 1..n
                        /\ \A i \in 1..n : records[i] \in Decisions
  BY DEF TierInv
At(how, S) == {i \in DOMAIN records : Tier!Signal(how, records[i]) \in S}

LEMMA PlacesAreFinite ==
  ASSUME TierInv, NEW places \in SUBSET DOMAIN records
  PROVE  IsFiniteSet(places) /\ Cardinality(places) \in Nat /\ Tier!Right(places) \in Nat
  <1>1. PICK n \in Nat : DOMAIN records = 1..n
    BY SampleIs
  <1>2. IsFiniteSet(1..n)
    BY FS_Interval
  <1>3. \A P \in SUBSET (1..n) : IsFiniteSet(P) /\ Cardinality(P) \in Nat
    BY <1>2, FS_Subset, FS_CardinalityType
  <1>4. {i \in places : Tier!correct(records[i])} \in SUBSET (1..n)
    BY <1>1
  <1> QED
    BY <1>1, <1>3, <1>4, TierCounts DEF Tier!Right

\* Places that are told apart are counted apart.
LEMMA PlacesAdd ==
  ASSUME TierInv, NEW P \in SUBSET DOMAIN records, NEW Q \in SUBSET DOMAIN records, P \cap Q = {}
  PROVE  /\ Cardinality(P \cup Q) = Cardinality(P) + Cardinality(Q)
         /\ Tier!Right(P \cup Q) = Tier!Right(P) + Tier!Right(Q)
  <1>1. \A S, T \in SUBSET DOMAIN records : S \cap T = {} =>
          Cardinality(S \cup T) = Cardinality(S) + Cardinality(T)
    <2> SUFFICES ASSUME NEW S \in SUBSET DOMAIN records, NEW T \in SUBSET DOMAIN records, S \cap T = {}
                 PROVE  Cardinality(S \cup T) = Cardinality(S) + Cardinality(T)
      OBVIOUS
    <2>1. IsFiniteSet(S) /\ IsFiniteSet(T) /\ Cardinality(S) \in Nat /\ Cardinality(T) \in Nat
      BY PlacesAreFinite
    <2>2. Cardinality(S \cup T) = Cardinality(S) + Cardinality(T) - Cardinality(S \cap T)
      BY <2>1, FS_Union
    <2> QED
      BY <2>1, <2>2, FS_EmptySet
  <1> DEFINE right(S) == {i \in S : Tier!correct(records[i])}
  <1>2. /\ right(P \cup Q) = right(P) \cup right(Q) /\ right(P) \cap right(Q) = {}
        /\ right(P) \in SUBSET DOMAIN records /\ right(Q) \in SUBSET DOMAIN records
    OBVIOUS
  <1>3. \A S : Tier!Right(S) = Cardinality(right(S))
    BY TierCounts DEF Tier!Right
  <1> HIDE DEF right
  <1> QED
    BY <1>1, <1>2, <1>3

LEMMA ValuesAre ==
  ASSUME TierInv, NEW how
  PROVE  IsFiniteSet(Tier!Values(how)) /\ Tier!Values(how) \subseteq Int
  <1>1. PICK n \in Nat : DOMAIN records = 1..n /\ \A i \in 1..n : records[i] \in Decisions
    BY SampleIs
  <1> DEFINE f == [i \in 1..n |-> Tier!Signal(how, records[i])]
             V == Tier!Values(how)
  <1>2. V = {f[i] : i \in 1..n}
    BY <1>1 DEF Tier!Values
  <1>3. V \subseteq Int
    BY <1>1, SignalIs DEF Tier!Values
  <1>4. f \in [1..n -> V] /\ \A v \in V : \E i \in 1..n : f[i] = v
    BY <1>2
  <1> HIDE DEF f, V
  <1>5. f \in Surjection(1..n, V)
    BY <1>4 DEF Surjection
  <1>6. IsFiniteSet(V)
    BY <1>5, FS_Interval, FS_Surjection
  <1> QED
    BY <1>3, <1>6 DEF V

\* fit_threshold()'s walk over the distinct values is a function that exists.
Fitting(g, how, target) ==
  g = [values \in SUBSET Tier!Values(how) |->
        IF values = {} THEN [kept |-> 0, right |-> 0, best |-> Tier!None]
        ELSE Tier!Lowered(how, target, g[values \ {Tier!Min(values)}], Tier!Min(values))]
LEMMA FittingExists ==
  ASSUME TierInv, NEW how, NEW target
  PROVE  \E g : Fitting(g, how, target)
  <1> DEFINE V == Tier!Values(how)
             Next(g, values) ==
               IF values = {} THEN [kept |-> 0, right |-> 0, best |-> Tier!None]
               ELSE Tier!Lowered(how, target, g[values \ {Tier!Min(values)}], Tier!Min(values))
             Upto(g, n) == \A S \in SUBSET V : Cardinality(S) <= n => g[S] = Next(g, S)
             P == {n \in Nat : \E g : DOMAIN g = SUBSET V /\ g = [S \in SUBSET V |-> g[S]] /\ Upto(g, n)}
  <1>1. IsFiniteSet(V) /\ V \subseteq Int
    BY ValuesAre
  <1>2. ASSUME NEW S \in SUBSET V
        PROVE  /\ IsFiniteSet(S) /\ Cardinality(S) \in Nat
               /\ Cardinality(S) <= Cardinality(V) /\ Cardinality(V) \in Nat
               /\ S # {} => /\ S \ {Tier!Min(S)} \in SUBSET V
                            /\ Cardinality(S \ {Tier!Min(S)}) = Cardinality(S) - 1
    <2>1. IsFiniteSet(S) /\ Cardinality(S) \in Nat /\ Cardinality(S) <= Cardinality(V)
          /\ Cardinality(V) \in Nat
      <3> HIDE DEF V
      <3> QED
        BY <1>1, FS_Subset, FS_CardinalityType
    <2>2. ASSUME S # {} PROVE Cardinality(S \ {Tier!Min(S)}) = Cardinality(S) - 1
      <3>1. Tier!Min(S) \in S
        BY <1>1, <2>1, <2>2, LeastOfSome
      <3> QED
        BY <2>1, <3>1, FS_RemoveElement
    <2> QED
      BY <2>1, <2>2
  <1> HIDE DEF V, Next
  <1>3. 0 \in P
    <2> DEFINE g == [S \in SUBSET V |-> Next(<<>>, {})]
    <2>1. ASSUME NEW S \in SUBSET V, Cardinality(S) <= 0 PROVE g[S] = Next(g, S)
      <3>1. S = {}
        <4>1. Cardinality(S) \in Nat /\ IsFiniteSet(S)
          BY <1>2
        <4>2. Cardinality(S) = 0
          BY <2>1, <4>1
        <4> QED
          BY <4>1, <4>2, FS_EmptySet
      <3>2. Next(g, {}) = Next(<<>>, {})
        BY DEF Next
      <3> QED
        BY <3>1, <3>2
    <2>2. DOMAIN g = SUBSET V /\ g = [S \in SUBSET V |-> g[S]]
      OBVIOUS
    <2> HIDE DEF g
    <2>3. Upto(g, 0)
      BY <2>1
    <2> HIDE DEF Upto
    <2> QED
      BY <2>2, <2>3
  <1>4. ASSUME NEW n \in Nat, n \in P PROVE n + 1 \in P
    <2>1. PICK g : DOMAIN g = SUBSET V /\ g = [S \in SUBSET V |-> g[S]] /\ Upto(g, n)
      BY <1>4
    <2> DEFINE h == [S \in SUBSET V |-> IF Cardinality(S) <= n THEN g[S] ELSE Next(g, S)]
    <2>2. \A S \in SUBSET V : h[S] = Next(g, S)
      BY <2>1
    <2>3. \A S \in SUBSET V : Cardinality(S) <= n => h[S] = g[S]
      OBVIOUS
    <2>4. DOMAIN h = SUBSET V /\ h = [S \in SUBSET V |-> h[S]]
      OBVIOUS
    <2> HIDE DEF h, Upto
    <2>5. ASSUME NEW S \in SUBSET V, Cardinality(S) <= n + 1 PROVE h[S] = Next(h, S)
      <3>1. CASE S = {}
        <4>1. Next(h, S) = Next(g, S)
          BY <3>1 DEF Next
        <4> QED
          BY <2>2, <4>1
      <3>2. CASE S # {}
        <4>1. PICK R \in SUBSET V : R = S \ {Tier!Min(S)} /\ Cardinality(R) = Cardinality(S) - 1
          BY <1>2, <3>2
        <4>2. Cardinality(R) <= n
          <5>1. Cardinality(S) \in Nat
            BY <1>2
          <5> QED
            BY <2>5, <4>1, <5>1
        <4>3. h[R] = g[R]
          BY <2>3, <4>2
        <4>4. Next(h, S) = Next(g, S)
          BY <3>2, <4>1, <4>3 DEF Next
        <4> QED
          BY <2>2, <4>4
      <3> QED
        BY <3>1, <3>2
    <2>6. Upto(h, n + 1)
      BY <2>5 DEF Upto
    <2> QED
      BY <2>4, <2>6
  <1>5. Cardinality(V) \in Nat
    BY <1>2
  <1> HIDE DEF P
  <1>6. Cardinality(V) \in P
    BY <1>3, <1>4, <1>5, EveryNumber
  <1>7. PICK g : DOMAIN g = SUBSET V /\ g = [S \in SUBSET V |-> g[S]] /\ Upto(g, Cardinality(V))
    BY <1>6 DEF P
  <1>8. \A S \in SUBSET V : g[S] = Next(g, S)
    BY <1>2, <1>7
  <1>9. g = [S \in SUBSET V |-> Next(g, S)]
    BY <1>7, <1>8
  <1> QED
    BY Zenon, <1>9 DEF Fitting, V, Next

\* The values of S that keep enough, of the records with a signal in S, with few enough wrong.
Atop(S, v) == {w \in S : w >= v}
GoodOf(how, target, S) ==
  {v \in S : Tier!Enough(Cardinality(At(how, Atop(S, v))), Tier!Right(At(how, Atop(S, v))), target)}

\* Some values walked, what is kept is the records that have them, and the last good value is the
\* least (fit_threshold()).
LEMMA WalkedDown ==
  ASSUME TierInv, NEW how, NEW target, NEW g, Fitting(g, how, target),
         NEW S \in SUBSET Tier!Values(how)
  PROVE  /\ g[S].kept = Cardinality(At(how, S)) /\ g[S].right = Tier!Right(At(how, S))
         /\ g[S].best = IF GoodOf(how, target, S) = {} THEN {} ELSE {Tier!Min(GoodOf(how, target, S))}
  <1> DEFINE V == Tier!Values(how)
             Holds(T) ==
               /\ g[T].kept = Cardinality(At(how, T)) /\ g[T].right = Tier!Right(At(how, T))
               /\ g[T].best = IF GoodOf(how, target, T) = {} THEN {}
                              ELSE {Tier!Min(GoodOf(how, target, T))}
             P == {n \in Nat : \A T \in SUBSET V : Cardinality(T) = n => Holds(T)}
  <1>1. IsFiniteSet(V) /\ V \subseteq Int
    BY ValuesAre
  <1>2. \A T \in SUBSET V : IsFiniteSet(T) /\ Cardinality(T) \in Nat /\ T \subseteq Int
    <2> HIDE DEF V
    <2> QED
      BY <1>1, FS_Subset, FS_CardinalityType
  <1>3. \A T \in SUBSET V :
          g[T] = IF T = {} THEN [kept |-> 0, right |-> 0, best |-> Tier!None]
                 ELSE Tier!Lowered(how, target, g[T \ {Tier!Min(T)}], Tier!Min(T))
    BY Zenon DEF Fitting
  <1>4. \A T : At(how, T) \in SUBSET DOMAIN records
    BY DEF At
  <1>5. \A T : /\ Cardinality(At(how, T)) \in Nat /\ Tier!Right(At(how, T)) \in Nat
    BY <1>4, PlacesAreFinite
  <1>6. Holds({})
    <2>1. At(how, {}) = {} /\ GoodOf(how, target, {}) = {}
      BY DEF At, GoodOf
    <2>2. Tier!Right({}) = 0 /\ Cardinality({}) = 0
      <3>1. {i \in {} : Tier!correct(records[i])} = {}
        OBVIOUS
      <3> QED
        BY <3>1, TierCounts, FS_EmptySet DEF Tier!Right
    <2>3. g[{}] = [kept |-> 0, right |-> 0, best |-> Tier!None]
      BY <1>3
    <2> QED
      BY <2>1, <2>2, <2>3 DEF Tier!None
  <1>7. ASSUME NEW T \in SUBSET V, T # {}, Holds(T \ {Tier!Min(T)}) PROVE Holds(T)
    <2> DEFINE v == Tier!Min(T)
               R == T \ {v}
               at == {i \in DOMAIN records : Tier!Signal(how, records[i]) = v}
               kept == Cardinality(At(how, T))
               right == Tier!Right(At(how, T))
    <2>1. v \in T /\ \A x \in T : v <= x
      BY <1>2, <1>7, LeastOfSome
    <2>2. T \subseteq Int /\ T = R \cup {v} /\ v \notin R /\ R \subseteq Int
      BY <1>2, <2>1
    <2> HIDE DEF v
    <2>3. at = At(how, {v}) /\ At(how, T) = At(how, R) \cup at /\ At(how, R) \cap at = {}
      BY <2>2 DEF At
    <2>4. /\ kept = Cardinality(At(how, R)) + Cardinality(at)
          /\ right = Tier!Right(At(how, R)) + Tier!Right(at)
      BY <1>4, <2>3, PlacesAdd
    <2>5. g[T] = Tier!Lowered(how, target, g[R], v)
      BY <1>3, <1>7 DEF v
    <2>6. /\ g[R].kept = Cardinality(At(how, R)) /\ g[R].right = Tier!Right(At(how, R))
          /\ g[R].best = IF GoodOf(how, target, R) = {} THEN {} ELSE {Tier!Min(GoodOf(how, target, R))}
      BY <1>7 DEF v
    <2>7. g[T] = [kept |-> kept, right |-> right,
                  best |-> IF Tier!Enough(kept, right, target) THEN {v} ELSE g[R].best]
      <3>1. Tier!Cardinality(at) = Cardinality(at)
        BY TierCounts
      <3> HIDE DEF R
      <3> QED
        BY <2>4, <2>5, <2>6, <3>1 DEF Tier!Lowered
    <2>8. Atop(T, v) = T
      BY <2>1 DEF Atop
    <2>9. \A u \in R : Atop(T, u) = Atop(R, u)
      <3> SUFFICES ASSUME NEW u \in R PROVE Atop(T, u) = Atop(R, u)
        OBVIOUS
      <3>1. u \in Int /\ v \in Int /\ v < u
        BY <2>1, <2>2
      <3>2. \A w \in T : w >= u => w \in R
        BY <2>2, <3>1
      <3> QED
        BY <2>2, <3>2 DEF Atop
    <2>10. GoodOf(how, target, T) = IF Tier!Enough(kept, right, target)
                                     THEN GoodOf(how, target, R) \cup {v} ELSE GoodOf(how, target, R)
      <3> HIDE DEF R
      <3> QED
        BY <2>2, <2>8, <2>9 DEF GoodOf
    <2>11. g[T].kept = kept /\ g[T].right = right
           /\ g[T].best = IF Tier!Enough(kept, right, target) THEN {v} ELSE g[R].best
      BY <2>7
    <2>12. CASE Tier!Enough(kept, right, target)
      <3> DEFINE Good == GoodOf(how, target, T)
      <3>1. v \in Good /\ Good \subseteq T
        BY <2>2, <2>10, <2>12 DEF GoodOf
      <3>2. IsFiniteSet(Good) /\ Good \subseteq Int
        <4>1. IsFiniteSet(T)
          BY <1>2
        <4> QED
          BY <2>2, <3>1, <4>1, FS_Subset
      <3> HIDE DEF Good
      <3>3. Tier!Min(Good) \in Good /\ \A x \in Good : Tier!Min(Good) <= x
        BY <3>1, <3>2, LeastOfSome
      <3>4. Tier!Min(Good) = v
        <4>1. Tier!Min(Good) <= v /\ v <= Tier!Min(Good)
          BY <2>1, <3>1, <3>3
        <4>2. Tier!Min(Good) \in Int /\ v \in Int
          BY <3>1, <3>2, <3>3
        <4> QED
          BY <4>1, <4>2
      <3> QED
        BY <2>11, <2>12, <3>1, <3>4 DEF Good
    <2>13. CASE ~Tier!Enough(kept, right, target)
      BY <2>6, <2>10, <2>11, <2>13
    <2> QED
      BY <2>12, <2>13
  <1> HIDE DEF Holds, V
  <1>8. 0 \in P
    <2> SUFFICES ASSUME NEW T \in SUBSET V, Cardinality(T) = 0 PROVE Holds(T)
      OBVIOUS
    <2>1. T = {}
      BY <1>2, FS_EmptySet
    <2> QED
      BY <1>6, <2>1
  <1>9. ASSUME NEW n \in Nat, n \in P PROVE n + 1 \in P
    <2> SUFFICES ASSUME NEW T \in SUBSET V, Cardinality(T) = n + 1 PROVE Holds(T)
      OBVIOUS
    <2>1. T # {} /\ IsFiniteSet(T) /\ T \subseteq Int
      BY <1>2, FS_EmptySet
    <2>2. PICK R \in SUBSET V : R = T \ {Tier!Min(T)}
      OBVIOUS
    <2>3. Tier!Min(T) \in T
      BY <2>1, LeastOfSome
    <2>4. Cardinality(R) = n
      <3>1. Cardinality(R) = Cardinality(T) - 1
        BY <2>1, <2>2, <2>3, FS_RemoveElement
      <3> QED
        BY <3>1
    <2>5. Holds(R)
      BY <1>9, <2>4
    <2> QED
      BY <1>7, <2>1, <2>2, <2>5
  <1> HIDE DEF P
  <1>10. Holds(S)
    <2>1. S \in SUBSET V /\ Cardinality(S) \in Nat
      BY <1>2 DEF V
    <2>2. Cardinality(S) \in P
      BY <1>8, <1>9, <2>1, EveryNumber
    <2> QED
      BY <2>1, <2>2 DEF P
  <1> QED
    BY <1>10 DEF Holds

\* The good values of a sweep over all records are those of the walk over all values.
Good(how, target) ==
  {v \in Tier!Values(how) :
     Tier!Enough(Tier!Cardinality(Tier!Kept(how, v)), Tier!Right(Tier!Kept(how, v)), target)}
LEMMA FittedIs ==
  ASSUME TierInv, NEW how, NEW target
  PROVE  /\ Tier!fit_threshold(how, target)
              = IF Good(how, target) = {} THEN Tier!None ELSE {Tier!Min(Good(how, target))}
         /\ IsFiniteSet(Good(how, target)) /\ Good(how, target) \subseteq Int
  <1> DEFINE V == Tier!Values(how)
             G == CHOOSE g : Fitting(g, how, target)
  <1>1. Fitting(G, how, target)
    BY FittingExists
  <1>2. Tier!fit_threshold(how, target) = G[V].best
    BY Zenon DEF Tier!fit_threshold, Fitting
  <1>3. \A v \in V : At(how, Atop(V, v)) = Tier!Kept(how, v)
    BY DEF At, Atop, Tier!Kept, Tier!Values
  <1>4. GoodOf(how, target, V) = Good(how, target)
    <2> HIDE DEF V
    <2>1. \A v \in V : Cardinality(At(how, Atop(V, v))) = Tier!Cardinality(Tier!Kept(how, v))
      BY <1>3, TierCounts
    <2>2. Good(how, target) =
            {v \in V : Tier!Enough(Tier!Cardinality(Tier!Kept(how, v)),
                                   Tier!Right(Tier!Kept(how, v)), target)}
      BY DEF Good, V
    <2> QED
      BY <1>3, <2>1, <2>2 DEF GoodOf
  <1> HIDE DEF G
  <1>5. G[V].best = IF GoodOf(how, target, V) = {} THEN {} ELSE {Tier!Min(GoodOf(how, target, V))}
    <2>1. V \in SUBSET Tier!Values(how)
      OBVIOUS
    <2> HIDE DEF V
    <2> QED
      BY ONLY TierInv, <1>1, <2>1, WalkedDown
  <1>6. IsFiniteSet(Good(how, target)) /\ Good(how, target) \subseteq Int
    <2>1. Good(how, target) \in SUBSET V
      BY DEF Good
    <2>2. IsFiniteSet(V) /\ V \subseteq Int
      BY ValuesAre
    <2> HIDE DEF V
    <2> QED
      BY <2>1, <2>2, FS_Subset
  <1> QED
    BY <1>2, <1>4, <1>5, <1>6 DEF Tier!None

\* Over uniform, times a scale: of one number of options the signals have one order.
LEMMA OneOrder ==
  ASSUME NEW c \in Nat \ {0}, NEW o \in Nat \ {0}, NEW u \in Int, NEW a \in Int, NEW b \in Int
  PROVE  c * (o * a - u) >= c * (o * b - u) <=> a >= b
  <1>1. ASSUME NEW x \in Int, NEW y \in Int, x < y PROVE c * (o * x - u) < c * (o * y - u)
    <2>1. o * x < o * y
      BY <1>1, TimesLarger
    <2>2. PICK p \in Int, q \in Int : p = o * x - u /\ q = o * y - u
      OBVIOUS
    <2>3. p < q
      <3>1. o * x \in Int /\ o * y \in Int
        BY <1>1
      <3> QED
        BY <2>1, <2>2, <3>1
    <2> QED
      BY <2>2, <2>3, TimesLarger
  <1>2. a = b => c * (o * a - u) = c * (o * b - u)
    OBVIOUS
  <1>3. c * (o * a - u) \in Int /\ c * (o * b - u) \in Int
    OBVIOUS
  <1>4. CASE a < b
    BY <1>1, <1>3, <1>4
  <1>5. CASE b < a
    BY <1>1, <1>3, <1>5
  <1>6. CASE a = b
    BY <1>2, <1>3, <1>6
  <1> QED
    BY <1>4, <1>5, <1>6

\* The records whose signal is as high as that of one of them are the same for either signal
\* (typesafe_confidence() of a fixed number of options).
LEMMA SameOrder ==
  ASSUME TierInv, Cardinality({Tier!options(records[i]) : i \in DOMAIN records}) = 1,
         NEW j \in DOMAIN records
  PROVE  Tier!Kept("top", Tier!Signal("top", records[j]))
           = Tier!Kept("typesafe", Tier!Signal("typesafe", records[j]))
  <1> DEFINE All == {Tier!options(records[i]) : i \in DOMAIN records}
  <1>1. PICK n \in Nat : DOMAIN records = 1..n /\ \A i \in 1..n : records[i] \in Decisions
    BY SampleIs
  <1>2. IsFiniteSet(All)
    <2> DEFINE f == [i \in 1..n |-> Tier!options(records[i])]
    <2>1. f \in [1..n -> All] /\ \A v \in All : \E i \in 1..n : f[i] = v
      BY <1>1
    <2> HIDE DEF f, All
    <2>2. f \in Surjection(1..n, All)
      BY <2>1 DEF Surjection
    <2> QED
      BY <2>2, FS_Interval, FS_Surjection
  <1>3. PICK o : All = {o}
    <2> HIDE DEF All
    <2>1. Cardinality(All) = 1
      BY DEF All
    <2> QED
      BY <1>2, <2>1, FS_Singleton
  <1>4. \A i \in 1..n : Tier!options(records[i]) = o
    BY <1>1, <1>3
  <1>5. o \in Nat \ {0, 1} /\ Scale \div (o - 1) \in Nat \ {0}
    BY <1>1, <1>4, SignalIs
  <1>6. PICK c \in Nat \ {0} : c = Scale \div (o - 1)
    BY <1>5
  <1>7. \A i \in 1..n : /\ Tier!top(records[i]) \in Int
                        /\ Tier!Signal("top", records[i]) = Tier!top(records[i])
                        /\ Tier!Signal("typesafe", records[i]) = c * (o * Tier!top(records[i]) - Grain)
    BY <1>1, <1>4, <1>6, SignalIs DEF Tier!Signal, Tier!typesafe
  <1>8. Grain \in Int
    <2>1. Grain \in Nat \ {0}
      BY Zenon, LabsAssumption DEF LabsAssumption
    <2> QED
      BY <2>1
  <1>9. \A i \in 1..n : c * (o * Tier!top(records[i]) - Grain) >= c * (o * Tier!top(records[j]) - Grain)
                          <=> Tier!top(records[i]) >= Tier!top(records[j])
    BY <1>1, <1>5, <1>7, <1>8, OneOrder
  <1>10. \A i \in 1..n : Tier!Signal("typesafe", records[i]) >= Tier!Signal("typesafe", records[j])
                           <=> Tier!Signal("top", records[i]) >= Tier!Signal("top", records[j])
    BY <1>1, <1>7, <1>9
  <1> QED
    BY <1>1, <1>10 DEF Tier!Kept

\* So it does not matter which signal a threshold is fitted to.
LEMMA SignalsAgree ==
  ASSUME TierInv, Cardinality({Tier!options(records[i]) : i \in DOMAIN records}) = 1,
         NEW target, NEW a \in Tier!fit_threshold("top", target)
  PROVE  \E b \in Tier!fit_threshold("typesafe", target) :
           Tier!Kept("top", a) = Tier!Kept("typesafe", b)
  <1> DEFINE one == Good("top", target)
             other == Good("typesafe", target)
             S(how, i) == Tier!Signal(how, records[i])
  <1>1. one # {} /\ a = Tier!Min(one)
    BY FittedIs DEF Tier!None
  <1>2. a \in one /\ \A x \in one : a <= x
    <2>1. IsFiniteSet(one) /\ one \subseteq Int
      BY FittedIs
    <2> HIDE DEF one
    <2> QED
      BY <1>1, <2>1, LeastOfSome
  <1>3. \A i \in DOMAIN records : Tier!Kept("top", S("top", i)) = Tier!Kept("typesafe", S("typesafe", i))
    BY SameOrder
  <1>4. \A i \in DOMAIN records : S("top", i) \in one <=> S("typesafe", i) \in other
    BY <1>3 DEF Good, Tier!Values
  <1>5. PICK i \in DOMAIN records : a = S("top", i)
    BY <1>2 DEF Good, Tier!Values
  <1>6. other # {} /\ IsFiniteSet(other) /\ other \subseteq Int
    <2>1. S("typesafe", i) \in other
      BY <1>2, <1>4, <1>5
    <2>2. IsFiniteSet(other) /\ other \subseteq Int
      BY FittedIs
    <2> QED
      BY <2>1, <2>2
  <1>7. PICK b : b = Tier!Min(other) /\ b \in other /\ \A x \in other : b <= x
    <2> HIDE DEF other
    <2> QED
      BY <1>6, LeastOfSome
  <1>8. PICK j \in DOMAIN records : b = S("typesafe", j)
    BY <1>7 DEF Good, Tier!Values
  <1>9. S("typesafe", j) <= S("typesafe", i) /\ S("top", i) <= S("top", j)
    BY <1>2, <1>4, <1>5, <1>7, <1>8
  <1>10. /\ S("typesafe", i) \in Int /\ S("typesafe", j) \in Int
         /\ S("top", i) \in Int /\ S("top", j) \in Int
    <2>1. PICK n \in Nat : DOMAIN records = 1..n /\ \A k \in 1..n : records[k] \in Decisions
      BY SampleIs
    <2> QED
      BY <2>1, SignalIs
  <1>11. i \in Tier!Kept("typesafe", S("typesafe", j)) /\ j \in Tier!Kept("top", S("top", i))
    BY <1>9, <1>10 DEF Tier!Kept
  <1>12. S("top", i) >= S("top", j)
    BY <1>3, <1>11 DEF Tier!Kept
  <1>13. a = S("top", j)
    BY <1>5, <1>9, <1>10, <1>12
  <1>14. b \in Tier!fit_threshold("typesafe", target)
    BY <1>6, <1>7, FittedIs
  <1> QED
    BY <1>3, <1>8, <1>13, <1>14

\* A list with one number that is not nought sums up to it.
LEMMA SumOne ==
  ASSUME NEW n \in Nat, NEW f \in [1..n -> Int], NEW j \in 1..n, \A k \in 1..n : k # j => f[k] = 0
  PROVE  Planning!Total(f) = f[j]
  <1>1. PICK g \in [0..n -> Int] : /\ g[0] = 0 /\ \A k \in 1..n : g[k] = g[k - 1] + f[k]
                                   /\ Planning!Total(f) = g[n]
    BY SumOf
  <1> DEFINE S == {m \in Nat : m <= n => g[m] = IF m < j THEN 0 ELSE f[j]}
  <1>2. 0 \in S
    BY <1>1
  <1>3. ASSUME NEW m \in Nat, m \in S PROVE m + 1 \in S
    <2> SUFFICES ASSUME m + 1 <= n PROVE g[m + 1] = IF m + 1 < j THEN 0 ELSE f[j]
      OBVIOUS
    <2>1. m + 1 \in 1..n /\ (m + 1) - 1 = m /\ g[m] \in Int /\ f[m + 1] \in Int /\ f[j] \in Int
      OBVIOUS
    <2>2. g[m + 1] = g[m] + f[m + 1]
      BY <1>1, <2>1
    <2>3. g[m] = IF m < j THEN 0 ELSE f[j]
      BY <1>3, <2>1
    <2>4. CASE m + 1 = j
      <3>0. m \in Int /\ j \in Int /\ m + 1 = j
        BY <2>4
      <3>1. m < j /\ ~(m + 1 < j) /\ f[m + 1] = f[j]
        <4>1. m < j /\ ~(m + 1 < j)
          BY ONLY <3>0
        <4>2. f[m + 1] = f[j]
          BY ONLY <3>0
        <4> QED
          BY <4>1, <4>2
      <3>2. g[m] = 0
        BY <2>3, <3>1
      <3>3. g[m + 1] = f[j]
        BY <2>1, <2>2, <3>1, <3>2
      <3> QED
        BY <3>1, <3>3
    <2>5. CASE m + 1 # j
      <3>1. f[m + 1] = 0
        BY <2>1, <2>5
      <3>2. m + 1 < j <=> m < j
        BY <2>5
      <3>3. g[m + 1] = g[m]
        BY <2>1, <2>2, <3>1
      <3>4. CASE m < j
        BY <2>3, <3>2, <3>3, <3>4
      <3>5. CASE ~(m < j)
        BY <2>3, <3>2, <3>3, <3>5
      <3> QED
        BY <3>4, <3>5
    <2> QED
      BY <2>4, <2>5
  <1> HIDE DEF S
  <1>4. n \in S
    BY <1>2, <1>3, EveryNumber
  <1> QED
    BY <1>1, <1>4 DEF S

\* The sum of a list lies between the sums of what each of its numbers lies between.
LEMMA SumWithin ==
  ASSUME NEW n \in Nat, NEW f \in [1..n -> Int], NEW h \in [1..n -> Int],
         \A k \in 1..n : -h[k] <= f[k] /\ f[k] <= h[k]
  PROVE  -Planning!Total(h) <= Planning!Total(f) /\ Planning!Total(f) <= Planning!Total(h)
  <1> DEFINE t == [k \in 1..n |-> (-1) * h[k]]
  <1>1. t \in [1..n -> Int] /\ \A k \in 1..n : t[k] = -h[k]
    OBVIOUS
  <1>2. Planning!Total(t) = (-1) * Planning!Total(h)
    BY SumsTimes, -1 \in Int
  <1> HIDE DEF t
  <1>3. Planning!Total(t) <= Planning!Total(f) /\ Planning!Total(f) <= Planning!Total(h)
    BY <1>1, SumsRelate
  <1>4. Planning!Total(h) \in Int
    BY SumsRelate
  <1> QED
    BY <1>2, <1>3, <1>4

\* A record is in a bin whose range holds its highest probability (int(r.top * bins), the last bin
\* takes in what is certain).
LEMMA BinIs ==
  ASSUME NEW r \in Decisions, NEW bins \in Nat \ {0}
  PROVE  /\ Tier!Bin(r, bins) \in 0..(bins - 1)
         /\ Tier!Bin(r, bins) * Grain <= Tier!top(r) * bins
         /\ Tier!top(r) * bins <= (Tier!Bin(r, bins) + 1) * Grain
         /\ \E q \in Nat : /\ Grain * q <= Tier!top(r) * bins /\ Tier!top(r) * bins < Grain * (q + 1)
                           /\ Tier!Bin(r, bins) = IF q < bins THEN q ELSE bins - 1
  <1>1. Grain \in Nat \ {0}
    BY Zenon, LabsAssumption DEF LabsAssumption
  <1>2. PICK t \in 0..Grain : t = Tier!top(r)
    BY SignalIs
  <1>3. PICK x \in Nat : x = t * bins
    OBVIOUS
  <1>4. PICK q \in Nat : q = x \div Grain
    BY <1>1
  <1>5. Grain * q <= x /\ x < Grain * (q + 1)
    <2>1. x = Grain * q + (x % Grain) /\ x % Grain \in Nat /\ x % Grain < Grain
      BY <1>1, <1>4, Divides
    <2>2. Grain * (q + 1) = Grain * q + Grain /\ Grain * q \in Int
      BY <1>1
    <2> QED
      BY <1>1, <2>1, <2>2
  <1>6. Tier!Bin(r, bins) = IF q < bins THEN q ELSE bins - 1
    <2>1. PICK b : b = Tier!Min({q, bins - 1})
      OBVIOUS
    <2>2. b \in {q, bins - 1} /\ b <= q /\ b <= bins - 1
      <3>1. {q, bins - 1} = {q} \cup {bins - 1} /\ IsFiniteSet({q})
        BY FS_Singleton
      <3>2. IsFiniteSet({q} \cup {bins - 1})
        BY <3>1, FS_AddElement
      <3>3. {q, bins - 1} \subseteq Int /\ {q, bins - 1} # {}
        OBVIOUS
      <3> QED
        BY <2>1, <3>1, <3>2, <3>3, LeastOfSome
    <2>3. Tier!Bin(r, bins) = b
      BY <1>2, <1>3, <1>4, <2>1 DEF Tier!Bin
    <2> QED
      BY <2>2, <2>3
  <1>7. PICK b \in 0..(bins - 1) : b = Tier!Bin(r, bins)
    BY <1>6
  <1>8. Grain * b <= x /\ x <= Grain * (b + 1)
    <2>1. CASE q < bins
      <3>1. b = q
        BY <1>6, <1>7, <2>1
      <3>2. Grain * (q + 1) \in Int
        BY <1>1
      <3> QED
        BY <1>5, <3>1, <3>2
    <2>2. CASE ~(q < bins)
      <3>1. b = bins - 1 /\ b <= q /\ b + 1 = bins
        BY <1>6, <1>7, <2>2
      <3>2. Grain * b <= Grain * q
        BY <1>1, <3>1, TimesMore
      <3>3. bins * t <= bins * Grain
        BY <1>1, TimesMore
      <3>4. x = bins * t /\ bins * Grain = Grain * (b + 1)
        BY <1>1, <1>3, <3>1
      <3>5. Grain * b \in Int /\ Grain * q \in Int /\ bins * t \in Int /\ bins * Grain \in Int
        BY <1>1
      <3> QED
        BY <1>5, <3>2, <3>3, <3>4, <3>5
    <2> QED
      BY <2>1, <2>2
  <1>9. Grain * b = b * Grain /\ Grain * (b + 1) = (b + 1) * Grain
    BY <1>1
  <1>10. /\ b * Grain <= x /\ x <= (b + 1) * Grain
         /\ \E p \in Nat : Grain * p <= x /\ x < Grain * (p + 1) /\ b = IF p < bins THEN p ELSE bins - 1
    BY <1>5, <1>6, <1>7, <1>8, <1>9
  <1>11. b \in 0..(bins - 1) /\ b = Tier!Bin(r, bins) /\ x = Tier!top(r) * bins
    BY <1>2, <1>3, <1>7
  <1> QED
    BY ONLY <1>10, <1>11

\* Fine bin j is a part of coarse bin i, one of k parts.
PartOf(k, j, i) == k * i <= j /\ j < k * (i + 1)
LEMMA PartOfOne ==
  ASSUME NEW k \in Nat \ {0}, NEW j \in Nat
  PROVE  /\ \E i \in Nat : PartOf(k, j, i)
         /\ \A c \in Nat : j < k * c => \A i \in Nat : PartOf(k, j, i) => i < c
         /\ \A i, h \in Nat : PartOf(k, j, i) /\ PartOf(k, j, h) => i = h
  <1>1. ASSUME NEW i \in Nat, NEW c \in Nat, PartOf(k, j, i), j < k * c PROVE i < c
    <2> SUFFICES ASSUME c <= i PROVE FALSE
      OBVIOUS
    <2>1. k * c <= k * i
      BY TimesMore
    <2>2. k * c \in Int /\ k * i \in Int
      OBVIOUS
    <2> QED
      BY <1>1, <2>1, <2>2 DEF PartOf
  <1>2. ASSUME NEW i \in Nat, NEW h \in Nat, PartOf(k, j, i), PartOf(k, j, h) PROVE i = h
    <2>1. j < k * (i + 1) /\ j < k * (h + 1) /\ i + 1 \in Nat /\ h + 1 \in Nat
      BY <1>2 DEF PartOf
    <2>2. i < h + 1 /\ h < i + 1
      BY <1>1, <1>2, <2>1
    <2> QED
      BY <2>2
  <1>3. \E i \in Nat : PartOf(k, j, i)
    <2>1. PICK q \in Nat, m \in Nat : q = j \div k /\ m = j % k /\ m < k /\ j = k * q + m
      BY Divides
    <2>2. k * (q + 1) = k * q + k /\ k * q \in Int
      OBVIOUS
    <2>3. PartOf(k, j, q)
      BY <2>1, <2>2 DEF PartOf
    <2> QED
      BY <2>3
  <1> QED
    BY <1>1, <1>2, <1>3

\* A record's fine bin is a part of its coarse bin.
LEMMA BinsNest ==
  ASSUME NEW r \in Decisions, NEW bins \in Nat \ {0}, NEW k \in Nat \ {0}
  PROVE  PartOf(k, Tier!Bin(r, k * bins), Tier!Bin(r, bins))
  <1>1. Grain \in Nat \ {0}
    BY Zenon, LabsAssumption DEF LabsAssumption
  <1>2. PICK t \in Nat : t = Tier!top(r)
    BY <1>1, SignalIs
  <1>3. PICK all \in Nat \ {0} : all = k * bins
    OBVIOUS
  <1>4. PICK q \in Nat : /\ Grain * q <= t * bins /\ t * bins < Grain * (q + 1)
                         /\ Tier!Bin(r, bins) = IF q < bins THEN q ELSE bins - 1
    BY <1>2, BinIs
  <1>5. PICK p \in Nat : /\ Grain * p <= t * all /\ t * all < Grain * (p + 1)
                         /\ Tier!Bin(r, all) = IF p < all THEN p ELSE all - 1
    BY <1>2, <1>3, BinIs
  <1>6. t * all = k * (t * bins)
    BY <1>3
  <1>7. k * q <= p
    <2> SUFFICES ASSUME p + 1 <= k * q PROVE FALSE
      OBVIOUS
    <2>1. Grain * (p + 1) <= Grain * (k * q)
      BY <1>1, TimesMore
    <2>2. k * (Grain * q) <= k * (t * bins)
      BY <1>1, <1>4, TimesMore
    <2>3. Grain * (k * q) = k * (Grain * q)
      BY <1>1
    <2>4. Grain * (p + 1) \in Int /\ Grain * (k * q) \in Int /\ k * (t * bins) \in Int
      BY <1>1
    <2> QED
      BY <1>5, <1>6, <2>1, <2>2, <2>3, <2>4
  <1>8. p < k * (q + 1)
    <2> SUFFICES ASSUME k * (q + 1) <= p PROVE FALSE
      OBVIOUS
    <2>1. Grain * (k * (q + 1)) <= Grain * p
      BY <1>1, TimesMore
    <2>2. k * (t * bins) < k * (Grain * (q + 1))
      BY <1>1, <1>4, TimesLarger
    <2>3. Grain * (k * (q + 1)) = k * (Grain * (q + 1))
      BY <1>1
    <2>4. Grain * p \in Int /\ Grain * (k * (q + 1)) \in Int /\ k * (t * bins) \in Int
      BY <1>1
    <2> QED
      BY <1>5, <1>6, <2>1, <2>2, <2>3, <2>4
  <1>9. CASE q < bins
    <2>1. k * (q + 1) <= all
      BY <1>3, <1>9, TimesMore
    <2>2. p < all
      <3>1. k * (q + 1) \in Int
        OBVIOUS
      <3> QED
        BY <1>8, <2>1, <3>1
    <2> QED
      BY <1>3, <1>4, <1>5, <1>7, <1>8, <1>9, <2>2 DEF PartOf
  <1>10. CASE ~(q < bins)
    <2>1. all <= k * q
      BY <1>3, <1>10, TimesMore
    <2>2. ~(p < all)
      <3>1. k * q \in Int
        OBVIOUS
      <3> QED
        BY <1>7, <2>1, <3>1
    <2>3. Tier!Bin(r, bins) = bins - 1 /\ Tier!Bin(r, k * bins) = all - 1
      BY <1>3, <1>4, <1>5, <1>10, <2>2
    <2>4. k * (bins - 1) = all - k /\ k * ((bins - 1) + 1) = all
      BY <1>3
    <2> QED
      BY <2>3, <2>4 DEF PartOf
  <1> QED
    BY <1>9, <1>10

\* What a record adds to its bucket: how much more right it was than sure.
Hit(i) == IF Tier!correct(records[i]) THEN Grain ELSE 0
Off(places) == [i \in DOMAIN records |-> IF i \in places THEN Hit(i) - Tier!top(records[i]) ELSE 0]
Sure(places) == [i \in DOMAIN records |-> IF i \in places THEN Tier!top(records[i]) ELSE 0]
Ones(places) == [i \in DOMAIN records |-> IF i \in places THEN 1 ELSE 0]

\* A record's highest probability and hit are at most certain.
LEMMA RecordIs ==
  ASSUME TierInv
  PROVE  /\ Grain \in Nat \ {0}
         /\ \E n \in Nat :
              /\ DOMAIN records = 1..n /\ n = Len(records)
              /\ \A i \in 1..n : records[i] \in Decisions /\ Tier!top(records[i]) \in 0..Grain
                                 /\ Hit(i) \in {0, Grain}
              /\ \A P : Off(P) \in [1..n -> Int] /\ Sure(P) \in [1..n -> Nat] /\ Ones(P) \in [1..n -> {0, 1}]
  <1>1. Grain \in Nat \ {0}
    BY Zenon, LabsAssumption DEF LabsAssumption
  <1>2. PICK n \in Nat : /\ DOMAIN records = 1..n /\ n = Len(records)
                         /\ \A i \in 1..n : records[i] \in Decisions
    BY SampleIs
  <1>3. \A i \in 1..n : Tier!top(records[i]) \in 0..Grain /\ Hit(i) \in {0, Grain}
    BY <1>1, <1>2, SignalIs DEF Hit
  <1>4. \A i \in 1..n : Tier!top(records[i]) \in Nat /\ Hit(i) - Tier!top(records[i]) \in Int
    BY <1>1, <1>3
  <1>5. ASSUME NEW P
        PROVE  Off(P) \in [1..n -> Int] /\ Sure(P) \in [1..n -> Nat] /\ Ones(P) \in [1..n -> {0, 1}]
    <2>1. Off(P) \in [1..n -> Int]
      BY <1>2, <1>4 DEF Off
    <2>2. Sure(P) \in [1..n -> Nat]
      BY <1>2, <1>4 DEF Sure
    <2>3. Ones(P) \in [1..n -> {0, 1}]
      BY <1>2 DEF Ones
    <2> QED
      BY <2>1, <2>2, <2>3
  <1> QED
    BY <1>1, <1>2, <1>3, <1>5

LEMMA OnesCount ==
  ASSUME TierInv, NEW places \in SUBSET DOMAIN records
  PROVE  Planning!Total(Ones(places)) = Cardinality(places)
  <1>1. PICK n \in Nat : DOMAIN records = 1..n /\ Ones(places) \in [1..n -> {0, 1}]
    BY RecordIs
  <1>2. Planning!Total(Ones(places)) = Cardinality({k \in 1..n : Ones(places)[k] = 1})
    BY <1>1, SumCounts
  <1>3. {k \in 1..n : Ones(places)[k] = 1} = places
    BY <1>1 DEF Ones
  <1> QED
    BY <1>2, <1>3

\* A bucket's gap is that of the sum, and no more than what the bucket holds (ece()).
LEMMA GapIs ==
  ASSUME TierInv, NEW places \in SUBSET DOMAIN records
  PROVE  /\ Tier!SumTop(places) = Planning!Total(Sure(places))
         /\ Planning!Total(Off(places)) \in Int
         /\ Tier!Gap(places) = IF Planning!Total(Off(places)) < 0
                               THEN -Planning!Total(Off(places)) ELSE Planning!Total(Off(places))
         /\ Tier!Gap(places) \in Nat /\ Tier!Gap(places) <= Grain * Cardinality(places)
  <1>1. Grain \in Nat \ {0}
    BY RecordIs
  <1>2. PICK n \in Nat :
              /\ DOMAIN records = 1..n /\ n = Len(records)
              /\ \A i \in 1..n : records[i] \in Decisions /\ Tier!top(records[i]) \in 0..Grain
                                 /\ Hit(i) \in {0, Grain}
              /\ \A P : Off(P) \in [1..n -> Int] /\ Sure(P) \in [1..n -> Nat] /\ Ones(P) \in [1..n -> {0, 1}]
    BY RecordIs
  <1>3. Tier!SumTop(places) = Planning!Total(Sure(places))
    BY Zenon, TierCounts DEF Tier!SumTop, Sure
  <1> DEFINE right == {i \in places : Tier!correct(records[i])}
             hits == [i \in 1..n |-> Grain * Ones(right)[i]]
             all == [i \in 1..n |-> Grain * Ones(places)[i]]
  <1>4. /\ Ones(right) \in [1..n -> Int] /\ Ones(places) \in [1..n -> Int]
        /\ Off(places) \in [1..n -> Int] /\ Sure(places) \in [1..n -> Int]
    BY <1>2
  <1>5. Planning!Total(hits) = Grain * Tier!Right(places)
    <2>1. Planning!Total(hits) = Grain * Planning!Total(Ones(right))
      <3>0. Grain \in Int /\ Ones(right) \in [1..n -> Int]
        BY <1>1, <1>4
      <3>1. PICK f \in [1..n -> Int], c \in Int : f = Ones(right) /\ c = Grain
        BY Zenon, <3>0
      <3>2. Planning!Total([i \in 1..n |-> c * f[i]]) = c * Planning!Total(f)
        BY SumsTimes
      <3> QED
        BY <3>1, <3>2
    <2>2. Planning!Total(Ones(right)) = Cardinality(right)
      <3>1. right \in SUBSET DOMAIN records
        OBVIOUS
      <3> HIDE DEF right
      <3> QED
        BY <3>1, OnesCount
    <2>3. Tier!Right(places) = Cardinality(right)
      BY TierCounts DEF Tier!Right
    <2> QED
      BY <2>1, <2>2, <2>3
  <1>6. Planning!Total(hits) = Planning!Total(Off(places)) + Planning!Total(Sure(places))
    <2>1. \A i \in 1..n : hits[i] = Off(places)[i] + Sure(places)[i]
      BY <1>1, <1>2 DEF Off, Sure, Ones, Hit
    <2>2. hits \in [1..n -> Int]
      <3>0. Grain \in Int /\ Ones(right) \in [1..n -> Int]
        BY <1>1, <1>4
      <3>1. PICK f \in [1..n -> Int], c \in Int : f = Ones(right) /\ c = Grain
        BY Zenon, <3>0
      <3>2. [i \in 1..n |-> c * f[i]] \in [1..n -> Int]
        OBVIOUS
      <3> QED
        BY <3>1, <3>2
    <2> HIDE DEF hits
    <2> QED
      BY <1>4, <2>1, <2>2, SumsPlus
  <1>7. Planning!Total(all) = Grain * Cardinality(places)
    <2>1. Planning!Total(all) = Grain * Planning!Total(Ones(places))
      <3>0. Grain \in Int /\ Ones(places) \in [1..n -> Int]
        BY <1>1, <1>4
      <3>1. PICK f \in [1..n -> Int], c \in Int : f = Ones(places) /\ c = Grain
        BY Zenon, <3>0
      <3>2. Planning!Total([i \in 1..n |-> c * f[i]]) = c * Planning!Total(f)
        BY SumsTimes
      <3> QED
        BY <3>1, <3>2
    <2> QED
      BY <2>1, OnesCount
  <1>8. -Planning!Total(all) <= Planning!Total(Off(places)) /\ Planning!Total(Off(places)) <= Planning!Total(all)
    <2>1. \A i \in 1..n : -all[i] <= Off(places)[i] /\ Off(places)[i] <= all[i]
      BY <1>1, <1>2 DEF Off, Ones
    <2>2. all \in [1..n -> Int]
      BY <1>1, <1>4
    <2> HIDE DEF all
    <2> QED
      BY <1>4, <2>1, <2>2, SumWithin
  <1>9. /\ Planning!Total(Off(places)) \in Int /\ Planning!Total(Sure(places)) \in Int
        /\ Cardinality(places) \in Nat /\ Tier!Right(places) \in Nat
    BY <1>4, SumsRelate, PlacesAreFinite
  <1>10. PICK d \in Int : d = Planning!Total(Off(places))
    BY <1>9
  <1>11. Tier!Right(places) * Grain - Tier!SumTop(places) = d
    <2>1. Tier!Right(places) * Grain = Grain * Tier!Right(places) /\ Tier!Right(places) * Grain \in Int
      BY <1>1, <1>9
    <2> QED
      BY <1>3, <1>5, <1>6, <1>9, <1>10, <2>1
  <1>12. Tier!Gap(places) = IF d < 0 THEN -d ELSE d
    BY <1>11 DEF Tier!Gap
  <1>13. Tier!Gap(places) <= Grain * Cardinality(places)
    <2>1. Grain * Cardinality(places) \in Int
      BY <1>1, <1>9
    <2> QED
      BY <1>7, <1>8, <1>10, <1>12, <2>1
  <1> QED
    BY <1>3, <1>10, <1>12, <1>13

\* Every record is in one bucket.
LEMMA CountsAdd ==
  ASSUME TierInv, NEW bins \in Nat \ {0}
  PROVE  Planning!Total([i \in 1..bins |-> Cardinality(Tier!Bucket(i - 1, bins))]) = Len(records)
  <1>1. PICK n \in Nat : /\ DOMAIN records = 1..n /\ n = Len(records)
                         /\ \A m \in 1..n : records[m] \in Decisions
    BY RecordIs
  <1> DEFINE M == [i \in 1..bins |-> [m \in 1..n |-> IF Tier!Bin(records[m], bins) = i - 1 THEN 1 ELSE 0]]
  <1>2. M \in [1..bins -> [1..n -> Int]]
    OBVIOUS
  <1>3. \A i \in 1..bins, m \in 1..n : M[i][m] = IF Tier!Bin(records[m], bins) = i - 1 THEN 1 ELSE 0
    OBVIOUS
  <1>4. \A i \in 1..bins : Planning!Total([m \in 1..n |-> M[i][m]]) = Cardinality(Tier!Bucket(i - 1, bins))
    <2> SUFFICES ASSUME NEW i \in 1..bins
                 PROVE  Planning!Total([m \in 1..n |-> M[i][m]]) = Cardinality(Tier!Bucket(i - 1, bins))
      OBVIOUS
    <2>1. [m \in 1..n |-> M[i][m]] = Ones(Tier!Bucket(i - 1, bins))
      BY <1>1 DEF Ones, Tier!Bucket
    <2>2. Tier!Bucket(i - 1, bins) \in SUBSET DOMAIN records
      BY DEF Tier!Bucket
    <2> QED
      BY <2>1, <2>2, OnesCount
  <1>5. \A m \in 1..n : Planning!Total([i \in 1..bins |-> M[i][m]]) = 1
    <2> SUFFICES ASSUME NEW m \in 1..n PROVE Planning!Total([i \in 1..bins |-> M[i][m]]) = 1
      OBVIOUS
    <2> DEFINE f == [i \in 1..bins |-> M[i][m]]
    <2>1. PICK b \in 0..(bins - 1) : b = Tier!Bin(records[m], bins)
      BY <1>1, BinIs
    <2>2. b + 1 \in 1..bins /\ f \in [1..bins -> Int]
      BY <1>2
    <2>3. f[b + 1] = 1 /\ \A i \in 1..bins : i # b + 1 => f[i] = 0
      BY <1>3, <2>1, <2>2
    <2> HIDE DEF f
    <2>4. Planning!Total(f) = f[b + 1]
      BY <2>2, <2>3, SumOne
    <2> QED
      BY <2>3, <2>4 DEF f
  <1> HIDE DEF M
  <1>6. Planning!Total([i \in 1..bins |-> Planning!Total([m \in 1..n |-> M[i][m]])])
          = Planning!Total([m \in 1..n |-> Planning!Total([i \in 1..bins |-> M[i][m]])])
    BY <1>2, SumsSwap
  <1>7. [i \in 1..bins |-> Planning!Total([m \in 1..n |-> M[i][m]])]
          = [i \in 1..bins |-> Cardinality(Tier!Bucket(i - 1, bins))]
    BY <1>4
  <1>8. [m \in 1..n |-> Planning!Total([i \in 1..bins |-> M[i][m]])] = Ones(DOMAIN records)
    BY <1>1, <1>5 DEF Ones
  <1>9. Planning!Total(Ones(DOMAIN records)) = n
    <2>1. Planning!Total(Ones(DOMAIN records)) = Cardinality(1..n)
      BY <1>1, OnesCount
    <2>2. Cardinality(1..n) = n
      BY FS_Interval
    <2> QED
      BY <2>1, <2>2
  <1> QED
    BY <1>1, <1>6, <1>7, <1>8, <1>9

\* What a bucket's records say of themselves is in the bucket's range (reliability()).
LEMMA RowIs ==
  ASSUME TierInv, NEW bins \in Nat \ {0}, NEW i \in 0..(bins - 1)
  PROVE  LET row == Tier!reliability(bins)[i] IN
         /\ row.count = Cardinality(Tier!Bucket(i, bins))
         /\ row.count * row.low * Grain <= row.confidence * bins
         /\ row.confidence * bins <= row.count * row.high * Grain
  <1> DEFINE b == Tier!Bucket(i, bins)
             row == Tier!reliability(bins)[i]
  <1>1. b \in SUBSET DOMAIN records
    BY DEF Tier!Bucket
  <1>2. /\ row.count = Cardinality(b) /\ row.low = i /\ row.high = i + 1
        /\ row.confidence = Planning!Total(Sure(b))
    BY <1>1, TierCounts, GapIs DEF Tier!reliability
  <1>3. Grain \in Nat \ {0}
    BY RecordIs
  <1>4. PICK n \in Nat :
              /\ DOMAIN records = 1..n
              /\ \A m \in 1..n : records[m] \in Decisions /\ Tier!top(records[m]) \in 0..Grain
              /\ Sure(b) \in [1..n -> Nat] /\ Ones(b) \in [1..n -> {0, 1}]
    BY RecordIs
  <1>5. PICK f \in [1..n -> Int], h \in [1..n -> Int] : f = Ones(b) /\ h = Sure(b)
    <2>1. Ones(b) \in [1..n -> Int] /\ Sure(b) \in [1..n -> Int]
      BY <1>4
    <2> QED
      BY Zenon, <2>1
  <1>6. PICK low \in Int, high \in Int : low = i * Grain /\ high = (i + 1) * Grain
    BY <1>3
  <1>7. \A m \in 1..n : low * f[m] <= bins * h[m] /\ bins * h[m] <= high * f[m]
    <2> SUFFICES ASSUME NEW m \in 1..n
                 PROVE  low * f[m] <= bins * h[m] /\ bins * h[m] <= high * f[m]
      OBVIOUS
    <2>1. CASE m \in b
      <3>1. PICK t \in Nat : t = Tier!top(records[m])
        BY <1>3, <1>4
      <3>2. f[m] = 1 /\ h[m] = t
        BY <1>4, <1>5, <2>1, <3>1 DEF Ones, Sure
      <3>3. Tier!Bin(records[m], bins) = i
        BY <2>1 DEF Tier!Bucket
      <3>4. i * Grain <= t * bins /\ t * bins <= (i + 1) * Grain
        BY <1>4, <3>1, <3>3, BinIs
      <3>5. t * bins = bins * t
        OBVIOUS
      <3> QED
        BY <1>6, <3>2, <3>4, <3>5
    <2>2. CASE m \notin b
      <3>1. f[m] = 0 /\ h[m] = 0
        BY <1>4, <1>5, <2>2 DEF Ones, Sure
      <3> QED
        BY <3>1
    <2> QED
      BY <2>1, <2>2
  <1>8. PICK count \in Int, total \in Int : count = Planning!Total(f) /\ total = Planning!Total(h)
    BY SumsRelate
  <1>9. row.count = count /\ row.confidence = total
    BY <1>1, <1>2, <1>5, <1>8, OnesCount
  <1> HIDE DEF b, row
  <1> DEFINE lows == [m \in 1..n |-> low * f[m]]
             highs == [m \in 1..n |-> high * f[m]]
             tops == [m \in 1..n |-> bins * h[m]]
  <1>10. /\ lows \in [1..n -> Int] /\ highs \in [1..n -> Int] /\ tops \in [1..n -> Int]
         /\ \A m \in 1..n : lows[m] <= tops[m] /\ tops[m] <= highs[m]
    BY <1>7
  <1>11. /\ Planning!Total(lows) = low * count /\ Planning!Total(highs) = high * count
         /\ Planning!Total(tops) = bins * total
    <2>1. bins \in Int
      OBVIOUS
    <2>2. Planning!Total(lows) = low * Planning!Total(f)
      BY SumsTimes
    <2>3. Planning!Total(highs) = high * Planning!Total(f)
      BY SumsTimes
    <2>4. Planning!Total(tops) = bins * Planning!Total(h)
      BY <2>1, SumsTimes
    <2> QED
      BY <1>8, <2>2, <2>3, <2>4
  <1> HIDE DEF lows, highs, tops
  <1>12. Planning!Total(lows) <= Planning!Total(tops) /\ Planning!Total(tops) <= Planning!Total(highs)
    BY <1>10, SumsRelate
  <1>13. low * count <= total * bins /\ total * bins <= high * count
    BY <1>11, <1>12
  <1>14. count * i * Grain = low * count /\ count * (i + 1) * Grain = high * count
    BY <1>3, <1>6
  <1>15. /\ row.count * row.low * Grain <= row.confidence * bins
         /\ row.confidence * bins <= row.count * row.high * Grain
    BY <1>2, <1>9, <1>13, <1>14
  <1> QED
    BY <1>2, <1>15 DEF row, b

LEMMA BucketIs ==
  ASSUME NEW i, NEW bins
  PROVE  Tier!Bucket(i, bins) \in SUBSET DOMAIN records
  BY DEF Tier!Bucket

\* The error of a calibration is the sum of the gaps, and at most certain (ece()).
LEMMA EceBounded ==
  ASSUME TierInv, NEW bins \in Nat \ {0}
  PROVE  /\ Tier!ece(bins) = Planning!Total([i \in 1..bins |-> Tier!Gap(Tier!Bucket(i - 1, bins))])
         /\ Tier!ece(bins) <= Len(records) * Grain
  <1> DEFINE gaps == [i \in 1..bins |-> Tier!Gap(Tier!Bucket(i - 1, bins))]
             counts == [i \in 1..bins |-> Cardinality(Tier!Bucket(i - 1, bins))]
  <1>1. Tier!ece(bins) = Planning!Total(gaps)
    BY Zenon, TierCounts DEF Tier!ece
  <1>2. Grain \in Nat \ {0} /\ Len(records) \in Nat
    BY RecordIs
  <1>3. gaps \in [1..bins -> Int] /\ counts \in [1..bins -> Int]
    BY BucketIs, GapIs, PlacesAreFinite
  <1>4. \A i \in 1..bins : gaps[i] <= Grain * counts[i]
    BY BucketIs, GapIs
  <1>5. Planning!Total(counts) = Len(records)
    BY CountsAdd
  <1>6. PICK c \in Int : c = Grain
    BY <1>2
  <1> HIDE DEF gaps, counts
  <1> DEFINE most == [i \in 1..bins |-> c * counts[i]]
  <1>7. most \in [1..bins -> Int] /\ \A i \in 1..bins : gaps[i] <= most[i]
    BY <1>3, <1>4, <1>6
  <1>8. Planning!Total(most) = c * Planning!Total(counts)
    BY <1>3, SumsTimes
  <1> HIDE DEF most
  <1>9. Planning!Total(gaps) <= Planning!Total(most)
    BY <1>3, <1>7, SumsRelate
  <1>10. Tier!ece(bins) <= Len(records) * Grain
    BY <1>1, <1>2, <1>5, <1>6, <1>8, <1>9
  <1> QED
    BY <1>1, <1>10 DEF gaps

\* Noughts sum up to nought.
LEMMA SumNone ==
  ASSUME NEW n \in Nat
  PROVE  Planning!Total([k \in 1..n |-> 0]) = 0
  <1> DEFINE f == [k \in 1..n |-> 0]
  <1>1. f \in [1..n -> {0, 1}] /\ {k \in 1..n : f[k] = 1} = {}
    OBVIOUS
  <1> HIDE DEF f
  <1>2. Planning!Total(f) = 0
    BY <1>1, SumCounts, FS_EmptySet
  <1> QED
    BY <1>2 DEF f

\* A coarse bucket's gap is no more than those of its fine buckets together.
Parted(k, j, i) == PartOf(k, j - 1, i - 1)
LEMMA GapsPart ==
  ASSUME TierInv, NEW bins \in Nat \ {0}, NEW k \in Nat \ {0}, NEW i \in 1..bins,
         NEW all \in Nat \ {0}, all = k * bins
  PROVE  Tier!Gap(Tier!Bucket(i - 1, bins))
           <= Planning!Total([j \in 1..all |->
                IF Parted(k, j, i) THEN Tier!Gap(Tier!Bucket(j - 1, all)) ELSE 0])
  <1> DEFINE fine(j) == Tier!Bucket(j - 1, all)
             coarse == Tier!Bucket(i - 1, bins)
  <1>1. PICK n \in Nat :
              /\ DOMAIN records = 1..n
              /\ \A m \in 1..n : records[m] \in Decisions
              /\ \A P : Off(P) \in [1..n -> Int]
    BY RecordIs
  <1> DEFINE M == [j \in 1..all |-> [m \in 1..n |-> IF Parted(k, j, i) THEN Off(fine(j))[m] ELSE 0]]
             D == [j \in 1..all |-> IF Parted(k, j, i) THEN Planning!Total(Off(fine(j))) ELSE 0]
             G == [j \in 1..all |-> IF Parted(k, j, i) THEN Tier!Gap(fine(j)) ELSE 0]
  <1>2. M \in [1..all -> [1..n -> Int]]
    BY <1>1
  <1>3. ASSUME NEW j \in 1..all PROVE Planning!Total([m \in 1..n |-> M[j][m]]) = D[j]
    <2>1. CASE Parted(k, j, i)
      <3>1. [m \in 1..n |-> M[j][m]] = [m \in 1..n |-> Off(fine(j))[m]]
        BY <2>1
      <3>2. [m \in 1..n |-> Off(fine(j))[m]] = Off(fine(j))
        BY <1>1
      <3> QED
        BY <2>1, <3>1, <3>2
    <2>2. CASE ~Parted(k, j, i)
      <3>1. [m \in 1..n |-> M[j][m]] = [m \in 1..n |-> 0]
        BY <2>2
      <3> QED
        BY <2>2, <3>1, SumNone
    <2> QED
      BY <2>1, <2>2
  <1>4. ASSUME NEW m \in 1..n PROVE Planning!Total([j \in 1..all |-> M[j][m]]) = Off(coarse)[m]
    <2> DEFINE f == [j \in 1..all |-> M[j][m]]
    <2>1. f \in [1..all -> Int]
      BY <1>2
    <2>2. PICK b \in 0..(all - 1), c \in 0..(bins - 1) :
            b = Tier!Bin(records[m], all) /\ c = Tier!Bin(records[m], bins)
      BY <1>1, BinIs
    <2>3. PartOf(k, b, c)
      BY <1>1, <2>2, BinsNest
    <2>4. b + 1 \in 1..all /\ (b + 1) - 1 = b /\ i - 1 \in Nat /\ c \in Nat /\ b \in Nat
      OBVIOUS
    <2>5. Parted(k, b + 1, i) <=> c = i - 1
      BY <2>3, <2>4, PartOfOne DEF Parted
    <2>6. \A j \in 1..all : m \in fine(j) <=> j = b + 1
      BY <1>1, <2>2 DEF Tier!Bucket
    <2>7. m \in coarse <=> c = i - 1
      BY <1>1, <2>2 DEF Tier!Bucket
    <2>8. f[b + 1] = Off(coarse)[m]
      <3>1. f[b + 1] = IF Parted(k, b + 1, i) THEN Off(fine(b + 1))[m] ELSE 0
        BY <2>4
      <3> HIDE DEF f, fine, coarse
      <3>2. m \in fine(b + 1)
        BY <2>4, <2>6
      <3> QED
        BY <1>1, <2>5, <2>7, <3>1, <3>2 DEF Off
    <2>9. \A j \in 1..all : j # b + 1 => f[j] = 0
      <3> SUFFICES ASSUME NEW j \in 1..all, j # b + 1 PROVE f[j] = 0
        OBVIOUS
      <3>1. f[j] = IF Parted(k, j, i) THEN Off(fine(j))[m] ELSE 0
        OBVIOUS
      <3> HIDE DEF f, fine
      <3>2. Off(fine(j))[m] = 0
        BY <1>1, <2>6 DEF Off
      <3> QED
        BY <3>1, <3>2
    <2> HIDE DEF f
    <2>10. Planning!Total(f) = f[b + 1]
      BY <2>1, <2>4, <2>9, SumOne
    <2> QED
      BY <2>8, <2>10 DEF f
  <1>5. \A j \in 1..all : /\ Planning!Total(Off(fine(j))) \in Int
                          /\ Tier!Gap(fine(j)) = IF Planning!Total(Off(fine(j))) < 0
                               THEN -Planning!Total(Off(fine(j))) ELSE Planning!Total(Off(fine(j)))
    BY BucketIs, GapIs
  <1>6. D \in [1..all -> Int] /\ G \in [1..all -> Int] /\ \A j \in 1..all : -G[j] <= D[j] /\ D[j] <= G[j]
    <2> HIDE DEF fine
    <2> QED
      BY <1>5
  <1> HIDE DEF M, fine
  <1>7. Planning!Total([j \in 1..all |-> Planning!Total([m \in 1..n |-> M[j][m]])])
          = Planning!Total([m \in 1..n |-> Planning!Total([j \in 1..all |-> M[j][m]])])
    BY ONLY all \in Nat \ {0}, n \in Nat, <1>2, SumsSwap
  <1> HIDE DEF D, G, coarse
  <1>8. [j \in 1..all |-> Planning!Total([m \in 1..n |-> M[j][m]])] = D
    <2>1. [j \in 1..all |-> Planning!Total([m \in 1..n |-> M[j][m]])] = [j \in 1..all |-> D[j]]
      BY <1>3
    <2> QED
      BY <1>6, <2>1
  <1>9. [m \in 1..n |-> Planning!Total([j \in 1..all |-> M[j][m]])] = Off(coarse)
    <2>1. [m \in 1..n |-> Planning!Total([j \in 1..all |-> M[j][m]])] = [m \in 1..n |-> Off(coarse)[m]]
      BY <1>4
    <2>2. Off(coarse) \in [1..n -> Int]
      BY <1>1
    <2> QED
      BY <2>1, <2>2
  <1>10. -Planning!Total(G) <= Planning!Total(Off(coarse)) /\ Planning!Total(Off(coarse)) <= Planning!Total(G)
    <2>1. -Planning!Total(G) <= Planning!Total(D) /\ Planning!Total(D) <= Planning!Total(G)
      BY <1>6, SumWithin
    <2> QED
      BY <1>7, <1>8, <1>9, <2>1
  <1>11. PICK d \in Int, g \in Int : d = Planning!Total(Off(coarse)) /\ g = Planning!Total(G)
    <2>1. coarse \in SUBSET DOMAIN records
      BY BucketIs DEF coarse
    <2>2. Planning!Total(Off(coarse)) \in Int
      BY <2>1, GapIs
    <2>3. Planning!Total(G) \in Int
      BY <1>6, SumsRelate
    <2> QED
      BY <2>2, <2>3
  <1>12. Tier!Gap(coarse) = IF d < 0 THEN -d ELSE d
    <2>1. coarse \in SUBSET DOMAIN records
      BY BucketIs DEF coarse
    <2> QED
      BY <1>11, <2>1, GapIs
  <1>13. Tier!Gap(coarse) <= Planning!Total(G)
    BY <1>10, <1>11, <1>12
  <1> QED
    BY <1>13 DEF coarse, G, fine

\* Bins within bins can only show more error.
LEMMA EceNests ==
  ASSUME TierInv, NEW bins \in Nat \ {0}, NEW k \in Nat \ {0}, NEW all \in Nat \ {0}, all = k * bins
  PROVE  Tier!ece(bins) <= Tier!ece(all)
  <1> DEFINE gap(j) == Tier!Gap(Tier!Bucket(j - 1, all))
             N == [i \in 1..bins |-> [j \in 1..all |-> IF Parted(k, j, i) THEN gap(j) ELSE 0]]
             coarse == [i \in 1..bins |-> Tier!Gap(Tier!Bucket(i - 1, bins))]
             rows == [i \in 1..bins |-> Planning!Total([j \in 1..all |-> N[i][j]])]
             fine == [j \in 1..all |-> gap(j)]
  <1>1. /\ Tier!ece(bins) = Planning!Total(coarse) /\ Tier!ece(all) = Planning!Total(fine)
    BY EceBounded
  <1>2. \A j \in 1..all : gap(j) \in Int
    BY BucketIs, GapIs
  <1>3. \A i \in 1..bins : Tier!Gap(Tier!Bucket(i - 1, bins)) \in Int
    BY BucketIs, GapIs
  <1>4. \A i \in 1..bins : Tier!Gap(Tier!Bucket(i - 1, bins))
          <= Planning!Total([j \in 1..all |-> IF Parted(k, j, i) THEN gap(j) ELSE 0])
    BY GapsPart
  <1> HIDE DEF gap
  <1>5. N \in [1..bins -> [1..all -> Int]]
    BY <1>2
  <1>6. \A i \in 1..bins : [j \in 1..all |-> N[i][j]] = [j \in 1..all |-> IF Parted(k, j, i) THEN gap(j) ELSE 0]
    OBVIOUS
  <1>7. \A i \in 1..bins : Planning!Total([j \in 1..all |-> N[i][j]]) \in Int
    <2> SUFFICES ASSUME NEW i \in 1..bins PROVE Planning!Total([j \in 1..all |-> N[i][j]]) \in Int
      OBVIOUS
    <2>1. PICK f \in [1..all -> Int] : f = [j \in 1..all |-> N[i][j]]
      BY <1>5
    <2> QED
      BY <2>1, SumsRelate
  <1>8. coarse \in [1..bins -> Int] /\ rows \in [1..bins -> Int] /\ \A i \in 1..bins : coarse[i] <= rows[i]
    <2> HIDE DEF N
    <2> QED
      BY <1>3, <1>4, <1>6, <1>7
  <1>9. ASSUME NEW j \in 1..all PROVE Planning!Total([i \in 1..bins |-> N[i][j]]) = gap(j)
    <2>1. j - 1 \in Nat /\ j - 1 < k * bins /\ bins \in Nat
      OBVIOUS
    <2>2. PICK c \in Nat : PartOf(k, j - 1, c) /\ c < bins
      BY <2>1, PartOfOne
    <2>3. \A i \in 1..bins : Parted(k, j, i) <=> i = c + 1
      <3>1. \A i \in 1..bins : i - 1 \in Nat
        OBVIOUS
      <3>2. \A i \in 1..bins : Parted(k, j, i) <=> i - 1 = c
        BY <2>1, <2>2, <3>1, PartOfOne DEF Parted
      <3> QED
        BY <2>2, <3>2
    <2> DEFINE f == [i \in 1..bins |-> N[i][j]]
    <2>4. f \in [1..bins -> Int]
      BY <1>5
    <2>5. c + 1 \in 1..bins
      BY <2>2
    <2>6. f[c + 1] = gap(j) /\ \A i \in 1..bins : i # c + 1 => f[i] = 0
      BY <2>3, <2>5
    <2> HIDE DEF f
    <2>7. Planning!Total(f) = f[c + 1]
      BY <2>4, <2>5, <2>6, SumOne
    <2> QED
      BY <2>6, <2>7 DEF f
  <1> HIDE DEF N
  <1>10. Planning!Total(rows) = Planning!Total([j \in 1..all |-> Planning!Total([i \in 1..bins |-> N[i][j]])])
    BY <1>5, SumsSwap
  <1>11. [j \in 1..all |-> Planning!Total([i \in 1..bins |-> N[i][j]])] = fine
    BY <1>9
  <1> HIDE DEF rows, coarse, fine
  <1>12. Planning!Total(coarse) <= Planning!Total(rows)
    BY <1>8, SumsRelate
  <1> QED
    BY <1>1, <1>10, <1>11, <1>12

\* The bins add up to the records, each in its range (reliability()).
LEMMA BinsHold ==
  ASSUME TierInv, NEW bins \in Nat \ {0}
  PROVE  /\ Tier!Total([i \in 1..bins |-> Tier!reliability(bins)[i - 1].count]) = Len(records)
         /\ \A i \in 0..(bins - 1) : LET row == Tier!reliability(bins)[i] IN
              /\ row.count * row.low * Grain <= row.confidence * bins
              /\ row.confidence * bins <= row.count * row.high * Grain
  <1>1. ASSUME NEW i \in 1..bins
        PROVE  Tier!reliability(bins)[i - 1].count = Cardinality(Tier!Bucket(i - 1, bins))
    <2>1. i - 1 \in 0..(bins - 1)
      OBVIOUS
    <2> QED
      BY <2>1, RowIs
  <1>2. [i \in 1..bins |-> Tier!reliability(bins)[i - 1].count]
          = [i \in 1..bins |-> Cardinality(Tier!Bucket(i - 1, bins))]
    BY <1>1, Zenon
  <1>3. Tier!Total([i \in 1..bins |-> Tier!reliability(bins)[i - 1].count]) = Len(records)
    BY <1>2, CountsAdd, TierCounts, Zenon
  <1>4. ASSUME NEW i \in 0..(bins - 1)
        PROVE  LET row == Tier!reliability(bins)[i] IN
               /\ row.count * row.low * Grain <= row.confidence * bins
               /\ row.confidence * bins <= row.count * row.high * Grain
    BY RowIs, Zenon
  <1> QED
    BY <1>3, <1>4, Zenon

LEMMA TierHolds == TierInv => Tier!FittedAsPromised
  <1> SUFFICES ASSUME TierInv PROVE Tier!FittedAsPromised
    OBVIOUS
  <1>1. /\ CoarseBins \in Nat \ {0} /\ FineBins \in Nat \ {0} /\ FineBins % CoarseBins = 0
    <2>1. {CoarseBins, FineBins} \subseteq Nat \ {0} /\ FineBins % CoarseBins = 0
      BY Zenon, LabsAssumption DEF LabsAssumption
    <2> QED
      BY <2>1
  <1>2. PICK k \in Nat \ {0} : FineBins = k * CoarseBins
    <2>1. FineBins \div CoarseBins \in Nat /\ FineBins = CoarseBins * (FineBins \div CoarseBins)
      <3>1. /\ FineBins \div CoarseBins \in Nat
            /\ FineBins = CoarseBins * (FineBins \div CoarseBins) + (FineBins % CoarseBins)
        BY <1>1, Divides
      <3> QED
        BY <1>1, <3>1
    <2>2. PICK q \in Nat : q = FineBins \div CoarseBins
      BY <2>1
    <2>3. FineBins = q * CoarseBins /\ q # 0
      BY <1>1, <2>1, <2>2
    <2> QED
      BY <2>2, <2>3
  <1>3. \A how \in {"top", "typesafe"}, target \in Targets :
          Tier!fit_threshold(how, target)
            = IF Good(how, target) = {} THEN Tier!None ELSE {Tier!Min(Good(how, target))}
    BY FittedIs, Zenon
  <1>4. \A target \in Targets :
          Tier!Cardinality({Tier!options(records[i]) : i \in DOMAIN records}) = 1 =>
            \A a \in Tier!fit_threshold("top", target) : \E b \in Tier!fit_threshold("typesafe", target) :
              Tier!Kept("top", a) = Tier!Kept("typesafe", b)
    BY SignalsAgree, TierCounts, Zenon
  <1>5. \A bins \in {CoarseBins, FineBins} :
          /\ Tier!Total([i \in 1..bins |-> Tier!reliability(bins)[i - 1].count]) = Len(records)
          /\ \A i \in 0..(bins - 1) : LET row == Tier!reliability(bins)[i] IN
               /\ row.count * row.low * Grain <= row.confidence * bins
               /\ row.confidence * bins <= row.count * row.high * Grain
    <2>1. \A bins \in {CoarseBins, FineBins} : bins \in Nat \ {0}
      BY <1>1
    <2> QED
      BY <2>1, BinsHold, Zenon
  <1>6. Tier!ece(CoarseBins) <= Tier!ece(FineBins)
    BY <1>1, <1>2, EceNests
  <1>7. Tier!ece(FineBins) <= Len(records) * Grain
    BY <1>1, EceBounded
  <1> QED
    BY <1>3, <1>4, <1>5, <1>6, <1>7, Zenon DEF Tier!FittedAsPromised, Good

\* For any decisions, targets and bins that nest, the threshold fitted is the lowest that a sweep
\* finds good enough, whichever signal it is fitted to, and the bins hold what they say
\* (threshold.py:57-80, metrics.py:33-84).
THEOREM FittingCorrect == TierSpec => []FittedAsPromised
  <1>1. Tier!TierInit => TierInv
    BY DEF Tier!TierInit, TierInv
  <1>2. TierInv /\ [Tier!TierNext]_(Tier!tierVars) => TierInv'
    BY DEF TierInv, Tier!TierNext, Tier!tierVars
  <1>3. TierInv => FittedAsPromised
    BY TierHolds DEF FittedAsPromised
  <1> QED
    BY <1>1, <1>2, <1>3, PTL DEF TierSpec
===============================================================================
