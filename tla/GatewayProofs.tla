---------------------------- MODULE GatewayProofs ----------------------------
(****************************************************************************)
(* Proofs about Gateway: permits are neither lost nor doubled and nobody     *)
(* sleeps beside a free one that no one will pass on; the drain manager      *)
(* counts those inside; attempts spare ejected providers.                    *)
(*                                                                           *)
(* Every step that frees or passes on permits goes through Wake, so the one  *)
(* lemma about it (WakeConserves) is what the steps rest on.                 *)
(****************************************************************************)
EXTENDS Gateway, FiniteSetTheorems, SequenceTheorems, TLAPS

Phases == {"new"} \cup Holding \cup Inside \cup Ended
InQueue == {"queued", "woken"}

\* Those who hold a permit, and those the drain manager counts, by their phases.
Those(K, ph) == {r \in Requests : ph[r] \in K}
HoldersIn(ph) == Those(Holding, ph)
InsideIn(ph) == Those(Inside, ph)

\* The queue is in order: a sequence of requests, each once, those who wait.
Ordered(q, ph) ==
  /\ q \in Seq(Requests)
  /\ IsInjective(q)
  /\ ToSet(q) = {r \in Requests : ph[r] \in InQueue}

\* What CapacityConserved says, and that the queue is in order.
PermitsKept ==
  /\ phase \in [Requests -> Phases]
  /\ Ordered(waiters, phase)
  /\ free \in 0..MaxConcurrency
  /\ free + Cardinality(HoldersIn(phase)) = MaxConcurrency
  /\ free > 0 /\ (\E r \in Requests : phase[r] = "queued")
       => \E r \in Requests : phase[r] = "woken"

Counted == active = Cardinality(InsideIn(phase))

\* Nobody is inside once the drain is over: who arrives is refused.
Quiet ==
  /\ draining \in {"no", "waiting", "drained", "cut"}
  /\ draining = "drained" => active = 0

\* A request that has not been admitted has called nobody, and one that backs
\* off has an attempt left: no attempt exceeds the last.
Attempted ==
  /\ attempt \in [Requests -> 0..MaxAttempts]
  /\ \A r \in Requests :
       /\ phase[r] \in {"new"} \cup InQueue => attempt[r] = 0
       /\ phase[r] = "backoff" => attempt[r] < MaxAttempts

Health == [successes : Nat, failures : Nat, consecutive : Nat, ejected_until : Nat]

RestTyped ==
  /\ asked \in [Requests -> Providers \cup {AnyProvider}]
  /\ provider \in [Requests -> Providers \cup {AnyProvider}]
  /\ called \in [Requests -> SUBSET Providers]
  /\ health \in [Providers -> Health]
  /\ now \in Nat

GatewayInv == PermitsKept /\ Counted /\ Quiet /\ Attempted /\ RestTyped

-----------------------------------------------------------------------------
\* A set of requests is finite, and has one member more once one joins it.
LEMMA FewRequests ==
  ASSUME NEW S \in SUBSET Requests
  PROVE  /\ IsFiniteSet(S) /\ Cardinality(S) \in 0..Cardinality(Requests)
         /\ \A r \in S : Cardinality(S \ {r}) = Cardinality(S) - 1
         /\ \A r \in Requests \ S : Cardinality(S \cup {r}) = Cardinality(S) + 1
<1>1. IsFiniteSet(Requests)
  BY GatewayAssumption
<1>2. IsFiniteSet(S) /\ Cardinality(S) <= Cardinality(Requests)
  BY <1>1, FS_Subset
<1>3. Cardinality(S) \in Nat /\ Cardinality(Requests) \in Nat
  BY <1>1, <1>2, FS_CardinalityType
<1>4. \A r \in S : Cardinality(S \ {r}) = Cardinality(S) - 1
  BY <1>2, FS_RemoveElement
<1>5. \A r \in Requests \ S : Cardinality(S \cup {r}) = Cardinality(S) + 1
  BY <1>2, FS_AddElement
<1> QED BY <1>2, <1>3, <1>4, <1>5

\* RemoveAt(q, i) without its i-th element: the others keep their order.
LEMMA RemovedAt ==
  ASSUME NEW S, NEW q \in Seq(S), NEW i \in DOMAIN q
  PROVE  /\ RemoveAt(q, i) \in Seq(S)
         /\ Len(RemoveAt(q, i)) = Len(q) - 1
         /\ \A j \in 1..(Len(q) - 1) :
              RemoveAt(q, i)[j] = IF j < i THEN q[j] ELSE q[j + 1]
<1> DEFINE a == SubSeq(q, 1, i - 1)
           b == SubSeq(q, i + 1, Len(q))
<1>1. i \in 1..Len(q) /\ Len(q) \in Nat
  OBVIOUS
<1>2. a \in Seq(S) /\ Len(a) = i - 1 /\ \A j \in 1..(i - 1) : a[j] = q[j]
  BY <1>1, SubSeqProperties
<1>3. b \in Seq(S) /\ Len(b) = Len(q) - i /\ \A j \in 1..(Len(q) - i) : b[j] = q[i + j]
  BY <1>1, SubSeqProperties
<1>4. RemoveAt(q, i) = a \o b
  BY DEF RemoveAt
<1> HIDE DEF a, b
<1>5. /\ a \o b \in Seq(S) /\ Len(a \o b) = Len(a) + Len(b)
      /\ \A j \in 1..(Len(a) + Len(b)) : (a \o b)[j] = IF j <= Len(a) THEN a[j] ELSE b[j - Len(a)]
  BY <1>2, <1>3, ConcatProperties
<1>6. ASSUME NEW j \in 1..(Len(q) - 1)
      PROVE  (a \o b)[j] = IF j < i THEN q[j] ELSE q[j + 1]
  <2>1. j \in Int /\ i \in Int /\ 1 <= j /\ j <= Len(q) - 1 /\ 1 <= i /\ i <= Len(q)
    BY <1>1
  <2>2. (a \o b)[j] = IF j <= i - 1 THEN a[j] ELSE b[j - (i - 1)]
    <3>1. Len(a) + Len(b) = Len(q) - 1
      BY <1>1, <1>2, <1>3
    <3>2. j \in 1..(Len(a) + Len(b))
      BY <3>1
    <3> QED BY <3>2, <1>2, <1>5
  <2>3. CASE j < i
    BY <2>1, <2>2, <2>3, <1>2
  <2>4. CASE ~(j < i)
    <3>1. j - (i - 1) \in 1..(Len(q) - i)
      BY <2>1, <2>4, <1>1
    <3>2. b[j - (i - 1)] = q[i + (j - (i - 1))]
      BY <3>1, <1>3
    <3>3. i + (j - (i - 1)) = j + 1 /\ ~(j <= i - 1)
      BY <2>1, <2>4
    <3> QED BY <2>2, <2>4, <3>2, <3>3
  <2> QED BY <2>3, <2>4
<1>7. Len(a) + Len(b) = Len(q) - 1
  BY <1>1, <1>2, <1>3
<1> QED BY <1>4, <1>5, <1>6, <1>7

\* Who leaves the queue leaves the others in order.
LEMMA WithoutOne ==
  ASSUME NEW ph, NEW r \in Requests, Ordered(waiters, ph), ph[r] \in InQueue
  PROVE  /\ Without(r) \in Seq(Requests)
         /\ IsInjective(Without(r))
         /\ ToSet(Without(r)) = ToSet(waiters) \ {r}
<1> DEFINE i == CHOOSE h \in DOMAIN waiters : waiters[h] = r
           w == Without(r)
<1>1. waiters \in Seq(Requests) /\ IsInjective(waiters) /\ r \in ToSet(waiters)
  BY DEF Ordered
<1>2. i \in DOMAIN waiters /\ waiters[i] = r
  BY <1>1 DEF ToSet
<1>3. w = RemoveAt(waiters, i)
  BY DEF Without
<1> HIDE DEF i, w
<1>4. /\ w \in Seq(Requests) /\ Len(w) = Len(waiters) - 1
      /\ \A j \in 1..(Len(waiters) - 1) : w[j] = IF j < i THEN waiters[j] ELSE waiters[j + 1]
  BY <1>1, <1>2, <1>3, RemovedAt
<1>5. Len(waiters) \in Nat /\ DOMAIN waiters = 1..Len(waiters) /\ DOMAIN w = 1..(Len(waiters) - 1)
  BY <1>1, <1>4
<1>6. IsInjective(w)
  <2>1. SUFFICES ASSUME NEW j \in 1..(Len(waiters) - 1), NEW h \in 1..(Len(waiters) - 1), w[j] = w[h]
                 PROVE  j = h
    BY <1>5 DEF IsInjective
  <2>2. \A x, y \in 1..Len(waiters) : waiters[x] = waiters[y] => x = y
    BY <1>1, <1>5 DEF IsInjective
  <2>3. i \in Int /\ j \in Int /\ h \in Int /\ i >= 1
    BY <1>2, <1>5
  <2>4. j \in 1..Len(waiters) /\ h \in 1..Len(waiters) /\ j + 1 \in 1..Len(waiters) /\ h + 1 \in 1..Len(waiters)
    BY <1>5
  <2>5. /\ w[j] = IF j < i THEN waiters[j] ELSE waiters[j + 1]
        /\ w[h] = IF h < i THEN waiters[h] ELSE waiters[h + 1]
    BY <1>4
  <2>6. CASE j < i /\ h < i
    BY <2>6, <2>1, <2>2, <2>4, <2>5
  <2>7. CASE j < i /\ ~(h < i)
    <3>1. j = h + 1
      BY <2>7, <2>1, <2>2, <2>4, <2>5
    <3> QED BY <3>1, <2>3, <2>7
  <2>8. CASE ~(j < i) /\ h < i
    <3>1. j + 1 = h
      BY <2>8, <2>1, <2>2, <2>4, <2>5
    <3> QED BY <3>1, <2>3, <2>8
  <2>9. CASE ~(j < i) /\ ~(h < i)
    <3>1. j + 1 = h + 1
      BY <2>9, <2>1, <2>2, <2>4, <2>5
    <3> QED BY <3>1, <2>3
  <2> QED BY <2>6, <2>7, <2>8, <2>9
<1>7. ToSet(w) \subseteq ToSet(waiters) \ {r}
  BY <1>1, <1>2, <1>4, <1>5 DEF ToSet, IsInjective
<1>8. ASSUME NEW x \in ToSet(waiters), x # r
      PROVE  x \in ToSet(w)
  <2>1. PICK h \in 1..Len(waiters) : waiters[h] = x
    BY <1>8, <1>5 DEF ToSet
  <2>2. h # i
    BY <2>1, <1>2, <1>8
  <2>3. CASE h < i
    <3>1. h \in 1..(Len(waiters) - 1) /\ w[h] = x
      BY <2>1, <2>3, <1>2, <1>4, <1>5
    <3> QED BY <3>1, <1>5 DEF ToSet
  <2>4. CASE h > i
    <3>1. h - 1 \in 1..(Len(waiters) - 1) /\ ~(h - 1 < i) /\ (h - 1) + 1 = h
      BY <2>1, <2>4, <1>2, <1>5
    <3>2. w[h - 1] = x
      BY <3>1, <2>1, <1>4
    <3> QED BY <3>1, <3>2, <1>5 DEF ToSet
  <2> QED BY <2>2, <2>3, <2>4, <2>1, <1>2, <1>5
<1> QED BY <1>4, <1>6, <1>7, <1>8 DEF w

-----------------------------------------------------------------------------
\* The permits that Wake hands out are those it takes from the free ones, and
\* it stops at a sleeper only for want of permits or beside one it has woken.
LEMMA WakeConserves ==
  ASSUME NEW ph \in [Requests -> Phases], NEW q, Ordered(q, ph),
         NEW n \in Nat, NEW k \in Nat, k <= n, k = 0 => n = 0,
         n + Cardinality(HoldersIn(ph)) = MaxConcurrency,
         Wake(n, k, q, ph)
  PROVE  /\ PermitsKept'
         /\ InsideIn(phase') = InsideIn(ph)
         /\ \A r \in Requests :
              phase'[r] = ph[r] \/ (ph[r] = "queued" /\ phase'[r] = "woken")
<1> DEFINE asleep == Sleeping(q, ph)
<1>1. PICK up \in SUBSET asleep :
        /\ Cardinality(up) = IF k < Cardinality(asleep) THEN k ELSE Cardinality(asleep)
        /\ phase' = [r \in Requests |-> IF r \in up THEN "woken" ELSE ph[r]]
        /\ waiters' = q
        /\ free' = n - Cardinality(up)
  BY DEF Wake
<1>2. asleep \subseteq Requests /\ \A r \in Requests : r \in asleep <=> ph[r] = "queued"
  BY DEF Ordered, Sleeping, InQueue
<1> HIDE DEF asleep
<1>3. /\ IsFiniteSet(asleep) /\ IsFiniteSet(up)
      /\ Cardinality(asleep) \in Nat /\ Cardinality(up) \in Nat
      /\ IsFiniteSet(HoldersIn(ph)) /\ Cardinality(HoldersIn(ph)) \in Nat
  <2>1. up \subseteq Requests /\ HoldersIn(ph) \subseteq Requests
    BY <1>2 DEF HoldersIn, Those
  <2>2. IsFiniteSet(asleep) /\ IsFiniteSet(up) /\ IsFiniteSet(HoldersIn(ph))
    BY <1>2, <2>1, FewRequests
  <2> QED BY <2>2, FS_CardinalityType
<1>4. \A r \in Requests : phase'[r] = IF r \in up THEN "woken" ELSE ph[r]
  BY <1>1
<1>5. \A r \in up : r \in Requests /\ ph[r] = "queued" /\ phase'[r] = "woken"
  BY <1>2, <1>4
<1>6. phase' \in [Requests -> Phases]
  BY <1>1 DEF Phases, Holding
<1>7. HoldersIn(phase') = HoldersIn(ph) \cup up /\ HoldersIn(ph) \cap up = {}
  BY <1>4, <1>5 DEF HoldersIn, Those, Holding
<1>8. Cardinality(HoldersIn(phase')) = Cardinality(HoldersIn(ph)) + Cardinality(up)
  <2>1. Cardinality(HoldersIn(ph) \cap up) = 0
    BY <1>7, FS_EmptySet
  <2>2. Cardinality(HoldersIn(ph) \cup up)
          = Cardinality(HoldersIn(ph)) + Cardinality(up) - Cardinality(HoldersIn(ph) \cap up)
    BY <1>3, FS_Union
  <2> QED BY <1>3, <1>7, <2>1, <2>2
<1>9. free' \in 0..MaxConcurrency /\ free' + Cardinality(HoldersIn(phase')) = MaxConcurrency
  BY <1>1, <1>3, <1>8, GatewayAssumption
<1>10. Ordered(waiters', phase')
  <2>1. {r \in Requests : phase'[r] \in InQueue} = {r \in Requests : ph[r] \in InQueue}
    BY <1>4, <1>5 DEF InQueue
  <2> QED BY <1>1, <2>1 DEF Ordered
<1>11. ASSUME free' > 0, NEW r \in Requests, phase'[r] = "queued"
       PROVE  \E s \in Requests : phase'[s] = "woken"
  <2>1. r \in asleep /\ r \notin up
    BY <1>2, <1>4, <1>11
  <2>2. Cardinality(up) # Cardinality(asleep)
    BY <2>1, <1>3, FS_Subset
  <2>3. Cardinality(up) = k /\ k # 0
    BY <2>2, <1>1, <1>3, <1>11
  <2>4. up # {}
    BY <2>3, FS_EmptySet
  <2> QED BY <2>4, <1>5
<1>12. InsideIn(phase') = InsideIn(ph)
  BY <1>4, <1>5 DEF InsideIn, Those, Inside
<1>13. \A r \in Requests : phase'[r] = ph[r] \/ (ph[r] = "queued" /\ phase'[r] = "woken")
  BY <1>4, <1>5
<1> QED BY <1>6, <1>9, <1>10, <1>11, <1>12, <1>13 DEF PermitsKept

\* One request changes its phase: who is in a set of phases, and how many.
OneMoved(K, ph, moved, r, e) ==
  /\ Cardinality(Those(K, ph)) \in 0..Cardinality(Requests)
  /\ Cardinality(Those(K, moved)) \in Nat
  /\ e \in K /\ ph[r] \notin K
       => Cardinality(Those(K, moved)) = Cardinality(Those(K, ph)) + 1
  /\ e \notin K /\ ph[r] \in K
       => Cardinality(Those(K, moved)) = Cardinality(Those(K, ph)) - 1
  /\ (e \in K <=> ph[r] \in K) => Those(K, moved) = Those(K, ph)

\* A request that moves on leaves one set of phases and enters another.
LEMMA OneMoves ==
  ASSUME NEW ph \in [Requests -> Phases], NEW r \in Requests, NEW e \in Phases,
         NEW moved, moved = [ph EXCEPT ![r] = e]
  PROVE  /\ moved \in [Requests -> Phases] /\ moved[r] = e
         /\ \A s \in Requests : s # r => moved[s] = ph[s]
         /\ OneMoved(Holding, ph, moved, r, e)
         /\ OneMoved(Inside, ph, moved, r, e)
<1>1. moved \in [Requests -> Phases] /\ moved[r] = e /\ \A s \in Requests : s # r => moved[s] = ph[s]
  OBVIOUS
<1>2. ASSUME NEW K PROVE OneMoved(K, ph, moved, r, e)
  <2>2. Those(K, ph) \subseteq Requests /\ Those(K, moved) \subseteq Requests
    BY DEF Those
  <2>3. /\ Cardinality(Those(K, ph)) \in 0..Cardinality(Requests)
        /\ Cardinality(Those(K, moved)) \in 0..Cardinality(Requests)
        /\ \A s \in Those(K, ph) : Cardinality(Those(K, ph) \ {s}) = Cardinality(Those(K, ph)) - 1
        /\ \A s \in Requests \ Those(K, ph) : Cardinality(Those(K, ph) \cup {s}) = Cardinality(Those(K, ph)) + 1
    BY <2>2, FewRequests
  <2>4. Cardinality(Requests) \in Nat
    BY GatewayAssumption, FS_CardinalityType
  <2>5. ASSUME e \in K, ph[r] \notin K
        PROVE  Cardinality(Those(K, moved)) = Cardinality(Those(K, ph)) + 1
    <3>1. Those(K, moved) = Those(K, ph) \cup {r} /\ r \in Requests \ Those(K, ph)
      BY <1>1, <2>5 DEF Those
    <3> QED BY <3>1, <2>3
  <2>6. ASSUME e \notin K, ph[r] \in K
        PROVE  Cardinality(Those(K, moved)) = Cardinality(Those(K, ph)) - 1
    <3>1. Those(K, moved) = Those(K, ph) \ {r} /\ r \in Those(K, ph)
      BY <1>1, <2>6 DEF Those
    <3> QED BY <3>1, <2>3
  <2>7. (e \in K <=> ph[r] \in K) => Those(K, moved) = Those(K, ph)
    BY <1>1 DEF Those
  <2> QED BY <2>3, <2>4, <2>5, <2>6, <2>7 DEF OneMoved
<1> QED BY <1>1, <1>2

\* release(): who held a permit gives it back.
LEMMA ReleaseConserves ==
  ASSUME PermitsKept, Counted, NEW r \in Requests, phase[r] \in Holding \ InQueue,
         NEW e \in Ended \cup {"closing"}, Release(r, e)
  PROVE  /\ PermitsKept'
         /\ phase[r] \in Inside /\ e \in Ended => Cardinality(InsideIn(phase')) = active - 1
         /\ (phase[r] \in Inside <=> e \in Inside) => Cardinality(InsideIn(phase')) = active
         /\ phase'[r] = e
         /\ \A s \in Requests :
              s # r => phase'[s] = phase[s] \/ (phase[s] = "queued" /\ phase'[s] = "woken")
<1> DEFINE ph == [phase EXCEPT ![r] = e]
<1>1. /\ phase \in [Requests -> Phases] /\ e \in Phases /\ e \notin Holding
      /\ e \in Ended => e \notin Inside
  BY DEF PermitsKept, Phases, Holding, Inside, Ended
<1>0. /\ ph \in [Requests -> Phases] /\ ph[r] = e
      /\ \A s \in Requests : s # r => ph[s] = phase[s]
      /\ OneMoved(Holding, phase, ph, r, e)
      /\ OneMoved(Inside, phase, ph, r, e)
  BY <1>1, OneMoves
<1>2. /\ Cardinality(HoldersIn(phase)) \in Nat
      /\ Cardinality(HoldersIn(ph)) = Cardinality(HoldersIn(phase)) - 1
      /\ Cardinality(HoldersIn(ph)) \in Nat
  BY <1>0, <1>1 DEF HoldersIn, OneMoved
<1>3. /\ Cardinality(InsideIn(phase)) \in Nat
      /\ phase[r] \in Inside /\ e \in Ended
           => Cardinality(InsideIn(ph)) = Cardinality(InsideIn(phase)) - 1
      /\ (phase[r] \in Inside <=> e \in Inside) => InsideIn(ph) = InsideIn(phase)
  BY <1>0, <1>1 DEF InsideIn, OneMoved
<1>4. Wake(free + 1, 1, waiters, ph)
  BY DEF Release
<1> HIDE DEF ph
<1>5. Ordered(waiters, ph)
  BY <1>0, <1>1, <1>2 DEF PermitsKept, Ordered, InQueue, Ended
<1>6. free + 1 \in Nat /\ 1 <= free + 1 /\ (free + 1) + Cardinality(HoldersIn(ph)) = MaxConcurrency
  BY <1>2, GatewayAssumption DEF PermitsKept
<1>7. /\ PermitsKept'
      /\ InsideIn(phase') = InsideIn(ph)
      /\ \A s \in Requests :
           phase'[s] = ph[s] \/ (ph[s] = "queued" /\ phase'[s] = "woken")
  BY <1>0, <1>2, <1>4, <1>5, <1>6, WakeConserves
<1>8. e # "queued"
  BY DEF Ended
<1> QED BY <1>0, <1>1, <1>3, <1>7, <1>8 DEF Counted

\* acquire() leaves the queue with the permit (e is "calling"), or without one.
LEMMA LeaveConserves ==
  ASSUME PermitsKept, Counted, NEW r \in Requests, phase[r] \in InQueue,
         NEW e \in {"calling", "overloaded"}, e = "calling" => phase[r] = "woken",
         NEW n, n = IF e = "overloaded" /\ phase[r] = "woken" THEN free + 1 ELSE free,
         Leaves(r, n, [phase EXCEPT ![r] = e])
  PROVE  /\ PermitsKept'
         /\ Cardinality(InsideIn(phase')) = IF e = "calling" THEN active ELSE active - 1
         /\ phase'[r] = e
         /\ \A s \in Requests :
              s # r => phase'[s] = phase[s] \/ (phase[s] = "queued" /\ phase'[s] = "woken")
<1> DEFINE ph == [phase EXCEPT ![r] = e]
<1>1. phase \in [Requests -> Phases] /\ e \in Phases /\ phase[r] \in Inside
  BY DEF PermitsKept, Phases, Holding, Inside, Ended, InQueue
<1>0. /\ ph \in [Requests -> Phases] /\ ph[r] = e
      /\ \A s \in Requests : s # r => ph[s] = phase[s]
      /\ OneMoved(Holding, phase, ph, r, e)
      /\ OneMoved(Inside, phase, ph, r, e)
  BY <1>1, OneMoves
<1>2. /\ Cardinality(HoldersIn(phase)) \in Nat /\ Cardinality(HoldersIn(ph)) \in Nat
      /\ e \notin Holding /\ phase[r] \in Holding
           => Cardinality(HoldersIn(ph)) = Cardinality(HoldersIn(phase)) - 1
      /\ (e \in Holding <=> phase[r] \in Holding) => HoldersIn(ph) = HoldersIn(phase)
  BY <1>0, <1>1 DEF HoldersIn, OneMoved
<1>3. /\ Cardinality(InsideIn(phase)) \in Nat
      /\ e \notin Inside => Cardinality(InsideIn(ph)) = Cardinality(InsideIn(phase)) - 1
      /\ e \in Inside => InsideIn(ph) = InsideIn(phase)
  BY <1>0, <1>1 DEF InsideIn, OneMoved
<1>4. Wake(n, n, Without(r), ph)
  BY DEF Leaves
<1> HIDE DEF ph
<1>5. Ordered(Without(r), ph)
  <2>1. Ordered(waiters, phase)
    BY DEF PermitsKept
  <2>2. /\ Without(r) \in Seq(Requests) /\ IsInjective(Without(r))
        /\ ToSet(Without(r)) = ToSet(waiters) \ {r}
    BY <2>1, WithoutOne
  <2>3. ToSet(waiters) \ {r} = {s \in Requests : ph[s] \in InQueue}
    BY <2>1, <1>0 DEF Ordered, InQueue
  <2> QED BY <2>2, <2>3 DEF Ordered
<1>6. n \in Nat /\ n + Cardinality(HoldersIn(ph)) = MaxConcurrency
  BY <1>2, GatewayAssumption DEF PermitsKept, InQueue, Holding
<1>7. /\ PermitsKept'
      /\ InsideIn(phase') = InsideIn(ph)
      /\ \A s \in Requests :
           phase'[s] = ph[s] \/ (ph[s] = "queued" /\ phase'[s] = "woken")
  BY <1>0, <1>2, <1>4, <1>5, <1>6, WakeConserves
<1>8. Cardinality(InsideIn(phase')) = IF e = "calling" THEN active ELSE active - 1
  BY <1>1, <1>3, <1>7 DEF Counted, Inside
<1> QED BY <1>0, <1>7, <1>8

\* A holder that neither ends nor joins the queue changes nothing of the permits.
LEMMA HolderMoves ==
  ASSUME PermitsKept, NEW r \in Requests, phase[r] \in Holding \ InQueue,
         NEW e \in Holding \ InQueue, phase' = [phase EXCEPT ![r] = e],
         UNCHANGED <<free, waiters>>
  PROVE  /\ PermitsKept'
         /\ Cardinality(InsideIn(phase)) \in Nat
         /\ e \in Inside /\ phase[r] \in Inside => InsideIn(phase') = InsideIn(phase)
         /\ e \notin Inside /\ phase[r] \in Inside
              => Cardinality(InsideIn(phase')) = Cardinality(InsideIn(phase)) - 1
<1>1. phase \in [Requests -> Phases] /\ e \in Phases
  BY DEF PermitsKept, Phases, Holding, InQueue
<1>0. /\ phase' \in [Requests -> Phases] /\ phase'[r] = e
      /\ \A s \in Requests : s # r => phase'[s] = phase[s]
      /\ OneMoved(Holding, phase, phase', r, e)
      /\ OneMoved(Inside, phase, phase', r, e)
  BY <1>1, OneMoves
<1>2. HoldersIn(phase') = HoldersIn(phase)
  BY <1>0, <1>1 DEF HoldersIn, OneMoved
<1>3. /\ Cardinality(InsideIn(phase)) \in Nat
      /\ e \in Inside /\ phase[r] \in Inside => InsideIn(phase') = InsideIn(phase)
      /\ e \notin Inside /\ phase[r] \in Inside
           => Cardinality(InsideIn(phase')) = Cardinality(InsideIn(phase)) - 1
  BY <1>0, <1>1 DEF InsideIn, OneMoved
<1>4. Ordered(waiters', phase')
  BY <1>0, <1>1 DEF PermitsKept, Ordered, InQueue
<1>5. (\E s \in Requests : phase'[s] = "queued") => \E s \in Requests : phase[s] = "queued"
  BY <1>0 DEF InQueue
<1>6. (\E s \in Requests : phase[s] = "woken") => \E s \in Requests : phase'[s] = "woken"
  BY <1>0 DEF InQueue
<1> QED BY <1>0, <1>2, <1>3, <1>4, <1>5, <1>6 DEF PermitsKept

-----------------------------------------------------------------------------
\* A set of those inside is finite.
LEMMA InsideFew ==
  ASSUME NEW ph PROVE Cardinality(InsideIn(ph)) \in 0..Cardinality(Requests)
<1>1. InsideIn(ph) \in SUBSET Requests
  BY DEF InsideIn, Those
<1> QED BY <1>1, FewRequests

\* A stream that has given its permit back leaves, and nobody's permit moves.
LEMMA ClosedConserves ==
  ASSUME PermitsKept, NEW r \in Requests, phase[r] = "closing",
         NEW e \in {"answered", "gone"}, phase' = [phase EXCEPT ![r] = e],
         UNCHANGED <<free, waiters>>
  PROVE  /\ PermitsKept' /\ phase'[r] = e
         /\ Cardinality(InsideIn(phase')) = Cardinality(InsideIn(phase)) - 1
         /\ \A s \in Requests : s # r => phase'[s] = phase[s]
<1>1. /\ phase \in [Requests -> Phases] /\ e \in Phases
      /\ e \notin Holding /\ e \notin Inside /\ e \notin InQueue
      /\ phase[r] \notin Holding /\ phase[r] \in Inside /\ phase[r] \notin InQueue
  BY DEF PermitsKept, Phases, Holding, Inside, Ended, InQueue
<1>0. /\ phase' \in [Requests -> Phases] /\ phase'[r] = e
      /\ \A s \in Requests : s # r => phase'[s] = phase[s]
      /\ OneMoved(Holding, phase, phase', r, e)
      /\ OneMoved(Inside, phase, phase', r, e)
  BY <1>1, OneMoves
<1>2. HoldersIn(phase') = HoldersIn(phase)
  BY <1>0, <1>1 DEF HoldersIn, OneMoved
<1>3. Cardinality(InsideIn(phase')) = Cardinality(InsideIn(phase)) - 1
  BY <1>0, <1>1 DEF InsideIn, OneMoved
<1>4. Ordered(waiters', phase')
  BY <1>0, <1>1 DEF PermitsKept, Ordered, InQueue
<1>5. /\ (\E s \in Requests : phase'[s] = "queued") => \E s \in Requests : phase[s] = "queued"
      /\ (\E s \in Requests : phase[s] = "woken") => \E s \in Requests : phase'[s] = "woken"
  BY <1>0, <1>1 DEF InQueue
<1> QED BY <1>0, <1>2, <1>3, <1>4, <1>5 DEF PermitsKept

\* The drain's promise outlasts every step that leaves draining alone and lets
\* nobody in: nobody can leave either once none is inside.
LEMMA StaysQuiet ==
  ASSUME Quiet, Counted', UNCHANGED draining,
         active' = active \/ active' = active - 1 \/ draining = "no"
  PROVE  Quiet'
<1>1. active' \in Nat
  <2>1. Cardinality(InsideIn(phase')) \in 0..Cardinality(Requests)
    BY InsideFew
  <2>2. Cardinality(Requests) \in Nat
    BY GatewayAssumption, FS_CardinalityType
  <2> QED BY <2>1, <2>2 DEF Counted
<1> QED BY <1>1 DEF Quiet

\* Those who are not r at most wake up in a step.
OthersWake(r) ==
  \A s \in Requests :
    s # r => phase'[s] = phase[s] \/ (phase[s] = "queued" /\ phase'[s] = "woken")

\* No step but a call counts an attempt, and none starts one too many.
LEMMA AttemptsLeft ==
  ASSUME Attempted, NEW r \in Requests, OthersWake(r),
         \/ UNCHANGED attempt /\ phase'[r] \in Ended \cup {"orphan", "closing"}
         \/ UNCHANGED attempt /\ phase[r] = "new" /\ phase'[r] = "queued"
         \/ UNCHANGED attempt /\ attempt[r] # MaxAttempts /\ phase'[r] = "backoff"
         \/ /\ attempt' = [attempt EXCEPT ![r] = @ + 1]
            /\ phase[r] \in {"new", "woken", "backoff"} /\ phase'[r] = "calling"
  PROVE  Attempted'
<1>1. attempt \in [Requests -> 0..MaxAttempts] /\ MaxAttempts \in Nat \ {0}
  BY GatewayAssumption DEF Attempted
<1>2. attempt[r] \in 0..MaxAttempts
  BY <1>1
<1>3. \A s \in Requests : s # r => attempt'[s] = attempt[s]
  BY <1>1
<1>4. attempt' \in [Requests -> 0..MaxAttempts]
  <2>1. CASE UNCHANGED attempt
    BY <2>1, <1>1
  <2>2. CASE attempt' = [attempt EXCEPT ![r] = @ + 1] /\ phase[r] \in {"new", "woken", "backoff"}
    <3>1. attempt[r] < MaxAttempts
      BY <2>2, <1>1, <1>2 DEF Attempted, InQueue
    <3>2. attempt[r] + 1 \in 0..MaxAttempts
      BY <3>1, <1>1, <1>2
    <3> QED BY <2>2, <3>2, <1>1
  <2> QED BY <2>1, <2>2
<1>5. ASSUME NEW s \in Requests, s # r
      PROVE  /\ phase'[s] \in {"new"} \cup InQueue => attempt'[s] = 0
             /\ phase'[s] = "backoff" => attempt'[s] < MaxAttempts
  <2>1. phase'[s] = phase[s] \/ (phase[s] = "queued" /\ phase'[s] = "woken")
    BY <1>5 DEF OthersWake
  <2> QED BY <2>1, <1>3, <1>5 DEF Attempted, InQueue
<1>6. /\ phase'[r] \in {"new"} \cup InQueue => attempt'[r] = 0
      /\ phase'[r] = "backoff" => attempt'[r] < MaxAttempts
  <2>1. CASE phase'[r] \in Ended \cup {"orphan", "closing", "calling"}
    BY <2>1 DEF Ended, InQueue
  <2>2. CASE UNCHANGED attempt /\ phase[r] = "new" /\ phase'[r] = "queued"
    BY <2>2 DEF Attempted
  <2>3. CASE UNCHANGED attempt /\ attempt[r] # MaxAttempts /\ phase'[r] = "backoff"
    BY <2>3, <1>1, <1>2 DEF InQueue
  <2> QED BY <2>1, <2>2, <2>3
<1> QED BY <1>4, <1>5, <1>6 DEF Attempted

\* A health record stays one as it is updated.
LEMMA HealthIsTyped ==
  ASSUME NEW h \in Health, NEW x \in Nat, NEW y \in Nat, NEW z \in Nat
  PROVE  /\ [h EXCEPT !.successes = x, !.consecutive = y] \in Health
         /\ [h EXCEPT !.failures = x, !.consecutive = y, !.ejected_until = z] \in Health
BY DEF Health

\* What providers did is recorded with its type.
LEMMA RecordsTyped ==
  ASSUME RestTyped, NEW p, RecordSuccess(p) \/ RecordFailure(p)
  PROVE  health' \in [Providers -> Health]
<1>1. health \in [Providers -> Health] /\ now + EjectionTime \in Nat
  BY GatewayAssumption DEF RestTyped, Health
<1>2. CASE p \notin Providers
  <2>1. health' = health
    BY <1>1, <1>2 DEF RecordSuccess, RecordFailure
  <2> QED BY <2>1, <1>1
<1>3. CASE p \in Providers
  <2>1. /\ health[p] \in Health
        /\ health[p].successes + 1 \in Nat /\ health[p].failures + 1 \in Nat
        /\ health[p].consecutive + 1 \in Nat /\ health[p].ejected_until \in Nat
    BY <1>1, <1>3 DEF Health
  <2>2. \E h \in Health : health' = [health EXCEPT ![p] = h]
    <3>1. CASE RecordSuccess(p)
      <4>1. health' = [health EXCEPT ![p] =
              [health[p] EXCEPT !.successes = health[p].successes + 1, !.consecutive = 0]]
        BY <3>1, <1>1, <1>3 DEF RecordSuccess
      <4>2. [health[p] EXCEPT !.successes = health[p].successes + 1, !.consecutive = 0] \in Health
        BY <2>1, HealthIsTyped
      <4> QED BY <4>1, <4>2
    <3>2. CASE RecordFailure(p)
      <4> DEFINE until == IF health[p].consecutive + 1 >= FailureThreshold
                          THEN now + EjectionTime ELSE health[p].ejected_until
      <4>1. health' = [health EXCEPT ![p] =
              [health[p] EXCEPT !.failures = health[p].failures + 1,
                 !.consecutive = health[p].consecutive + 1, !.ejected_until = until]]
        BY <3>2, <1>1, <1>3 DEF RecordFailure
      <4>2. until \in Nat
        BY <1>1, <2>1
      <4> HIDE DEF until
      <4>3. [health[p] EXCEPT !.failures = health[p].failures + 1,
               !.consecutive = health[p].consecutive + 1, !.ejected_until = until] \in Health
        BY <2>1, <4>2, HealthIsTyped
      <4> QED BY <4>1, <4>3
    <3> QED BY <3>1, <3>2
  <2> QED BY <2>2, <1>1
<1> QED BY <1>2, <1>3

-----------------------------------------------------------------------------
\* A provider's call starts: by a request that is new, woken or backing off.
LEMMA CallsTyped ==
  ASSUME RestTyped, NEW r \in Requests, NEW p \in Providers,
         provider' = [provider EXCEPT ![r] = p],
         called' = [called EXCEPT ![r] = @ \cup {p}],
         UNCHANGED <<asked, health, now>>
  PROVE  RestTyped'
BY DEF RestTyped

\* A request is admitted, unless the manager drains.
LEMMA EntersKeeps ==
  ASSUME GatewayInv, NEW r \in Requests, Enters(r) PROVE GatewayInv'
<1>1. /\ PermitsKept /\ Counted /\ Quiet /\ Attempted /\ RestTyped /\ phase[r] = "new"
      /\ phase \in [Requests -> Phases] /\ waiters \in Seq(Requests)
      /\ UNCHANGED <<asked, draining, health, now>>
  BY DEF GatewayInv, PermitsKept, Ordered, Enters
<1>2. r \notin ToSet(waiters) /\ \A s \in Requests : s \in ToSet(waiters) <=> phase[s] \in InQueue
  BY <1>1 DEF PermitsKept, Ordered, InQueue
<1>3. ASSUME NEW e \in Phases, phase' = [phase EXCEPT ![r] = e]
      PROVE  /\ phase' \in [Requests -> Phases] /\ phase'[r] = e
             /\ \A s \in Requests : s # r => phase'[s] = phase[s]
             /\ Cardinality(HoldersIn(phase)) \in Nat /\ Cardinality(InsideIn(phase)) \in Nat
             /\ HoldersIn(phase') = HoldersIn(phase) \/ e \in Holding
             /\ e \in Holding => Cardinality(HoldersIn(phase')) = Cardinality(HoldersIn(phase)) + 1
             /\ InsideIn(phase') = InsideIn(phase) \/ e \in Inside
             /\ e \in Inside => Cardinality(InsideIn(phase')) = Cardinality(InsideIn(phase)) + 1
  <2>1. /\ phase' \in [Requests -> Phases] /\ phase'[r] = e
        /\ \A s \in Requests : s # r => phase'[s] = phase[s]
        /\ OneMoved(Holding, phase, phase', r, e)
        /\ OneMoved(Inside, phase, phase', r, e)
    BY <1>1, <1>3, OneMoves
  <2>2. phase[r] \notin Holding /\ phase[r] \notin Inside
    BY <1>1 DEF Holding, Inside
  <2>3. Cardinality(Requests) \in Nat
    BY GatewayAssumption, FS_CardinalityType
  <2> QED BY <2>1, <2>2, <2>3 DEF OneMoved, HoldersIn, InsideIn
<1>4. CASE draining # "no" /\ phase' = [phase EXCEPT ![r] = "refused"]
           /\ UNCHANGED <<provider, attempt, called, free, waiters, active>>
  <2>1. "refused" \in Phases \ (Holding \cup Inside) /\ "refused" \in Ended
    BY DEF Phases, Holding, Inside, Ended
  <2>2. /\ phase' \in [Requests -> Phases] /\ phase'[r] = "refused"
        /\ \A s \in Requests : s # r => phase'[s] = phase[s]
        /\ HoldersIn(phase') = HoldersIn(phase) /\ InsideIn(phase') = InsideIn(phase)
    BY <1>3, <1>4, <2>1
  <2>3. Ordered(waiters', phase')
    BY <1>1, <1>4, <2>2 DEF PermitsKept, Ordered, InQueue
  <2>4. /\ (\E s \in Requests : phase'[s] = "queued") => \E s \in Requests : phase[s] = "queued"
        /\ (\E s \in Requests : phase[s] = "woken") => \E s \in Requests : phase'[s] = "woken"
    BY <1>1, <2>2
  <2>5. PermitsKept' /\ Counted'
    BY <1>1, <1>4, <2>2, <2>3, <2>4 DEF PermitsKept, Counted
  <2>6. OthersWake(r) /\ Attempted'
    <3>1. OthersWake(r)
      BY <2>2 DEF OthersWake
    <3> QED BY <1>1, <1>4, <2>1, <2>2, <3>1, AttemptsLeft
  <2>7. Quiet' /\ RestTyped'
    BY <1>1, <1>4 DEF Quiet, RestTyped
  <2> QED BY <2>5, <2>6, <2>7 DEF GatewayInv
<1>5. CASE draining = "no" /\ free > 0 /\ waiters = <<>> /\ active' = active + 1 /\ free' = free - 1
           /\ (\E p \in Providers : Selects(r, p) /\ Calls(r, p)) /\ UNCHANGED waiters
  <2>1. PICK p \in Providers :
          /\ phase' = [phase EXCEPT ![r] = "calling"] /\ provider' = [provider EXCEPT ![r] = p]
          /\ attempt' = [attempt EXCEPT ![r] = @ + 1] /\ called' = [called EXCEPT ![r] = @ \cup {p}]
    BY <1>5 DEF Calls
  <2>2. "calling" \in Phases /\ "calling" \in Holding /\ "calling" \in Inside
    BY DEF Phases, Holding, Inside
  <2>3. /\ phase' \in [Requests -> Phases] /\ phase'[r] = "calling"
        /\ \A s \in Requests : s # r => phase'[s] = phase[s]
        /\ Cardinality(HoldersIn(phase)) \in Nat
        /\ Cardinality(HoldersIn(phase')) = Cardinality(HoldersIn(phase)) + 1
        /\ Cardinality(InsideIn(phase')) = Cardinality(InsideIn(phase)) + 1
    BY <1>3, <2>1, <2>2
  <2>4. Ordered(waiters', phase')
    BY <1>1, <1>5, <2>3 DEF PermitsKept, Ordered, InQueue
  <2>5. \A s \in Requests : phase'[s] # "queued"
    <3>1. ToSet(waiters) = {}
      BY <1>5 DEF ToSet
    <3> QED BY <3>1, <1>2, <2>3 DEF InQueue
  <2>6. free' \in 0..MaxConcurrency /\ free' + Cardinality(HoldersIn(phase')) = MaxConcurrency
    <3>1. free \in 0..MaxConcurrency /\ free + Cardinality(HoldersIn(phase)) = MaxConcurrency
      BY <1>1 DEF PermitsKept
    <3> QED BY <3>1, <1>5, <2>3, GatewayAssumption
  <2>7. PermitsKept' /\ Counted'
    BY <1>1, <1>5, <2>3, <2>4, <2>5, <2>6 DEF PermitsKept, Counted
  <2>8. Attempted'
    <3>1. OthersWake(r)
      BY <2>3 DEF OthersWake
    <3> QED BY <1>1, <2>1, <2>3, <3>1, AttemptsLeft
  <2>9. RestTyped'
    BY <1>1, <2>1, CallsTyped
  <2>10. Quiet'
    BY <1>1, <1>5 DEF Quiet
  <2> QED BY <2>7, <2>8, <2>9, <2>10 DEF GatewayInv
<1>6. CASE draining = "no" /\ (free = 0 \/ waiters # <<>>) /\ active' = active + 1
           /\ phase' = [phase EXCEPT ![r] = "queued"] /\ waiters' = Append(waiters, r)
           /\ (IF r \in Streams
               THEN \E p \in Providers : Selects(r, p) /\ provider' = [provider EXCEPT ![r] = p]
               ELSE UNCHANGED provider)
           /\ UNCHANGED <<attempt, called, free>>
  <2>1. "queued" \in Phases /\ "queued" \notin Holding /\ "queued" \in Inside
    BY DEF Phases, Holding, Inside
  <2>2. /\ phase' \in [Requests -> Phases] /\ phase'[r] = "queued"
        /\ \A s \in Requests : s # r => phase'[s] = phase[s]
        /\ HoldersIn(phase') = HoldersIn(phase)
        /\ Cardinality(InsideIn(phase')) = Cardinality(InsideIn(phase)) + 1
    BY <1>3, <1>6, <2>1
  <2>3. Ordered(waiters', phase')
    <3>1. /\ waiters' \in Seq(Requests) /\ Len(waiters') = Len(waiters) + 1
          /\ \A i \in 1..Len(waiters) : waiters'[i] = waiters[i]
          /\ waiters'[Len(waiters) + 1] = r
      BY <1>1, <1>6
    <3>2. /\ Len(waiters) \in Nat /\ DOMAIN waiters = 1..Len(waiters)
          /\ DOMAIN waiters' = 1..(Len(waiters) + 1)
      BY <1>1, <3>1
    <3>3. \A i \in 1..Len(waiters) : waiters[i] # r
      BY <1>2, <3>2 DEF ToSet
    <3>4. IsInjective(waiters)
      BY <1>1 DEF PermitsKept, Ordered
    <3>5. IsInjective(waiters')
      BY <3>1, <3>2, <3>3, <3>4 DEF IsInjective
    <3>6. ToSet(waiters') = ToSet(waiters) \cup {r}
      BY <3>1, <3>2 DEF ToSet
    <3>7. ToSet(waiters') = {s \in Requests : phase'[s] \in InQueue}
      <4>1. ToSet(waiters) \subseteq Requests
        BY <1>1 DEF PermitsKept, Ordered
      <4> QED BY <4>1, <3>6, <1>2, <2>2 DEF InQueue
    <3> QED BY <3>1, <3>5, <3>7 DEF Ordered
  <2>4. free > 0 => \E s \in Requests : phase'[s] = "woken"
    <3>1. SUFFICES ASSUME free > 0 PROVE \E s \in Requests : phase'[s] = "woken"
      OBVIOUS
    <3>2. waiters # <<>>
      BY <3>1, <1>6
    <3>3. ToSet(waiters) # {}
      <4>1. Len(waiters) \in Nat /\ Len(waiters) # 0
        BY <3>2, <1>1, EmptySeq
      <4>2. 1 \in DOMAIN waiters
        BY <4>1, <1>1
      <4> QED BY <4>2 DEF ToSet
    <3>4. PICK s \in Requests : phase[s] \in InQueue
      BY <3>3, <1>1 DEF PermitsKept, Ordered
    <3>5. \E t \in Requests : phase[t] = "woken"
      BY <3>1, <3>4, <1>1 DEF PermitsKept, InQueue
    <3> QED BY <3>5, <1>1, <2>2
  <2>5. PermitsKept' /\ Counted'
    BY <1>1, <1>6, <2>2, <2>3, <2>4 DEF PermitsKept, Counted
  <2>6. Attempted'
    <3>1. OthersWake(r)
      BY <2>2 DEF OthersWake
    <3> QED BY <1>1, <1>6, <2>2, <3>1, AttemptsLeft
  <2>7. Quiet' /\ RestTyped'
    BY <1>1, <1>6 DEF Quiet, RestTyped
  <2> QED BY <2>5, <2>6, <2>7 DEF GatewayInv
<1> QED BY <1>4, <1>5, <1>6 DEF Enters

\* The steps that end a request, or move it on within its permit, keep what the
\* lemmas above say of them.
LEMMA MovesKeep ==
  ASSUME GatewayInv, NEW r \in Requests, Moves(r) \/ Breaks(r) \/ Disconnects(r)
  PROVE  GatewayInv'
<1>1. /\ PermitsKept /\ Counted /\ Quiet /\ Attempted /\ RestTyped
      /\ phase \in [Requests -> Phases]
  BY DEF GatewayInv, PermitsKept
<1>2. {"calling", "backoff", "orphan"} \subseteq Holding \ InQueue
  BY DEF Holding, InQueue
<1>3. /\ "orphan" \notin Inside /\ "calling" \in Inside /\ "backoff" \in Inside
      /\ "closing" \in Inside /\ \A e \in Ended : e \notin Inside
  BY DEF Inside, Ended
<1>4. ASSUME NEW e \in Ended, Release(r, e), phase[r] \in {"calling", "backoff"}, active' = active - 1,
             UNCHANGED <<asked, provider, attempt, called, draining, now>>,
             RestTyped'
      PROVE  GatewayInv'
  <2>1. /\ PermitsKept' /\ Cardinality(InsideIn(phase')) = active - 1
        /\ phase'[r] = e /\ OthersWake(r)
    BY <1>1, <1>2, <1>3, <1>4, ReleaseConserves DEF OthersWake
  <2>2. Counted'
    BY <2>1, <1>4 DEF Counted
  <2>3. Quiet'
    BY <1>1, <1>4, <2>2, StaysQuiet
  <2>4. Attempted'
    BY <1>1, <1>4, <2>1, AttemptsLeft
  <2> QED BY <1>4, <2>1, <2>2, <2>3, <2>4 DEF GatewayInv
<1>5. CASE Resumes(r)
  <2>1. PICK p \in Providers :
          /\ provider' = [provider EXCEPT ![r] = p]
          /\ called' = [called EXCEPT ![r] = @ \cup {p}]
    BY <1>5 DEF Resumes
  <2>2. /\ phase[r] = "woken" /\ attempt' = [attempt EXCEPT ![r] = @ + 1]
        /\ Leaves(r, free, [phase EXCEPT ![r] = "calling"])
        /\ UNCHANGED <<asked, active, draining, health, now>>
    BY <1>5 DEF Resumes
  <2>3. /\ PermitsKept' /\ Cardinality(InsideIn(phase')) = active
        /\ phase'[r] = "calling" /\ OthersWake(r)
    <3>1. phase[r] \in InQueue
      BY <2>2 DEF InQueue
    <3> QED BY <1>1, <2>2, <3>1, LeaveConserves DEF OthersWake
  <2>4. Counted'
    BY <2>2, <2>3 DEF Counted
  <2>5. Quiet'
    BY <1>1, <2>2, <2>4, StaysQuiet
  <2>6. Attempted'
    BY <1>1, <2>2, <2>3, AttemptsLeft
  <2>7. RestTyped'
    BY <1>1, <2>1, <2>2, CallsTyped
  <2> QED BY <2>3, <2>4, <2>5, <2>6, <2>7 DEF GatewayInv
<1>6. CASE QueueTimesOut(r)
  <2>1. /\ phase[r] \in InQueue /\ active' = active - 1
        /\ Leaves(r, IF phase[r] = "woken" THEN free + 1 ELSE free,
                  [phase EXCEPT ![r] = "overloaded"])
        /\ UNCHANGED <<asked, provider, attempt, called, draining, health, now>>
    BY <1>6 DEF QueueTimesOut, InQueue
  <2>2. /\ PermitsKept' /\ Cardinality(InsideIn(phase')) = active - 1
        /\ phase'[r] = "overloaded" /\ OthersWake(r)
    BY <1>1, <2>1, LeaveConserves DEF OthersWake
  <2>3. Counted'
    BY <2>1, <2>2 DEF Counted
  <2>4. Quiet'
    BY <1>1, <2>1, <2>3, StaysQuiet
  <2>5. Attempted'
    BY <1>1, <2>1, <2>2, AttemptsLeft DEF Ended
  <2>6. RestTyped'
    BY <1>1, <2>1 DEF RestTyped
  <2> QED BY <2>2, <2>3, <2>4, <2>5, <2>6 DEF GatewayInv
<1>7. CASE Answers(r)
  <2>1. /\ phase[r] = "calling" /\ RecordSuccess(provider[r])
        /\ \/ Release(r, "answered") /\ active' = active - 1
           \/ Release(r, "closing") /\ UNCHANGED active
        /\ "answered" \in Ended
        /\ UNCHANGED <<asked, provider, attempt, called, draining, now>>
    BY <1>7 DEF Answers, Ends, Ended
  <2>2. health' \in [Providers -> Health]
    BY <1>1, <2>1, RecordsTyped
  <2>3. RestTyped'
    BY <1>1, <2>1, <2>2 DEF RestTyped
  <2>4. CASE Release(r, "answered") /\ active' = active - 1
    BY <2>1, <2>3, <2>4, <1>4
  <2>5. CASE Release(r, "closing") /\ UNCHANGED active
    <3>1. /\ PermitsKept' /\ Cardinality(InsideIn(phase')) = active
          /\ phase'[r] = "closing" /\ OthersWake(r)
      BY <1>1, <1>2, <1>3, <2>1, <2>5, ReleaseConserves DEF OthersWake
    <3>2. Counted'
      BY <2>5, <3>1 DEF Counted
    <3>3. Quiet'
      BY <1>1, <2>1, <2>5, <3>2, StaysQuiet
    <3>4. Attempted'
      BY <1>1, <2>1, <3>1, AttemptsLeft
    <3> QED BY <2>3, <3>1, <3>2, <3>3, <3>4 DEF GatewayInv
  <2> QED BY <2>1, <2>4, <2>5
<1>8. CASE ProviderFails(r)
  <2>1. /\ phase[r] = "calling" /\ RecordFailure(provider[r])
        /\ UNCHANGED <<asked, provider, attempt, called, draining, now>>
    BY <1>8 DEF ProviderFails
  <2>2. health' \in [Providers -> Health]
    BY <1>1, <2>1, RecordsTyped
  <2>3. RestTyped'
    BY <1>1, <2>1, <2>2 DEF RestTyped
  <2>4. CASE Ends(r, "failed")
    BY <2>1, <2>3, <2>4, <1>4 DEF Ends, Ended
  <2>5. CASE ~LastAttempt(r) /\ phase' = [phase EXCEPT ![r] = "backoff"]
             /\ UNCHANGED <<free, waiters, active>>
    <3>1. /\ PermitsKept' /\ InsideIn(phase') = InsideIn(phase)
      BY <1>1, <1>2, <1>3, <2>1, <2>5, HolderMoves
    <3>2. phase'[r] = "backoff" /\ OthersWake(r)
      BY <1>1, <2>5 DEF OthersWake
    <3>3. Counted'
      BY <1>1, <2>5, <3>1 DEF Counted
    <3>4. Quiet'
      BY <1>1, <2>1, <2>5 DEF Quiet
    <3>5. Attempted'
      BY <1>1, <2>1, <2>5, <3>2, AttemptsLeft DEF LastAttempt
    <3> QED BY <2>3, <3>1, <3>3, <3>4, <3>5 DEF GatewayInv
  <2> QED BY <1>8, <2>4, <2>5 DEF ProviderFails
<1>9. CASE BackoffEnds(r)
  <2>1. PICK p \in Providers :
          /\ phase' = [phase EXCEPT ![r] = "calling"] /\ provider' = [provider EXCEPT ![r] = p]
          /\ attempt' = [attempt EXCEPT ![r] = @ + 1] /\ called' = [called EXCEPT ![r] = @ \cup {p}]
    BY <1>9 DEF BackoffEnds, Calls
  <2>2. phase[r] = "backoff" /\ UNCHANGED <<asked, free, waiters, active, draining, health, now>>
    BY <1>9 DEF BackoffEnds
  <2>3. PermitsKept' /\ InsideIn(phase') = InsideIn(phase)
    BY <1>1, <1>2, <1>3, <2>1, <2>2, HolderMoves
  <2>4. phase'[r] = "calling" /\ OthersWake(r)
    BY <1>1, <2>1 DEF OthersWake
  <2>5. Counted' /\ Quiet'
    BY <1>1, <2>2, <2>3 DEF Counted, Quiet
  <2>6. Attempted'
    BY <1>1, <2>1, <2>2, <2>4, AttemptsLeft
  <2>7. RestTyped'
    BY <1>1, <2>1, <2>2, CallsTyped
  <2> QED BY <2>3, <2>5, <2>6, <2>7 DEF GatewayInv
<1>10. CASE DeadlinePasses(r)
  <2>1. RestTyped'
    BY <1>1, <1>10 DEF RestTyped, DeadlinePasses
  <2> QED BY <1>10, <2>1, <1>4 DEF DeadlinePasses, Ends, Ended
<1>11. CASE Breaks(r)
  <2>1. RestTyped'
    BY <1>1, <1>11 DEF RestTyped, Breaks
  <2> QED BY <1>11, <2>1, <1>4 DEF Breaks, Ends, Ended
<1>12. CASE Disconnects(r)
  <2>1. /\ phase[r] = "calling" /\ phase' = [phase EXCEPT ![r] = "orphan"] /\ active' = active - 1
        /\ UNCHANGED <<asked, provider, attempt, called, free, waiters, draining, health, now>>
    BY <1>12 DEF Disconnects
  <2>2. PermitsKept' /\ Cardinality(InsideIn(phase')) = Cardinality(InsideIn(phase)) - 1
    BY <1>1, <1>2, <1>3, <2>1, HolderMoves
  <2>3. Counted'
    BY <1>1, <2>1, <2>2 DEF Counted
  <2>4. Quiet'
    BY <1>1, <2>1, <2>3, StaysQuiet
  <2>5. Attempted'
    <3>1. phase'[r] = "orphan" /\ OthersWake(r)
      BY <1>1, <2>1 DEF OthersWake
    <3> QED BY <1>1, <2>1, <3>1, AttemptsLeft
  <2>6. RestTyped'
    BY <1>1, <2>1 DEF RestTyped
  <2> QED BY <2>2, <2>3, <2>4, <2>5, <2>6 DEF GatewayInv
<1>13. CASE Finalised(r)
  <2>1. /\ phase[r] = "orphan" /\ Release(r, "gone") /\ "gone" \in Ended
        /\ UNCHANGED <<asked, provider, attempt, called, active, draining, health, now>>
    BY <1>13 DEF Finalised, Ended
  <2>2. /\ PermitsKept' /\ Cardinality(InsideIn(phase')) = active
        /\ phase'[r] = "gone" /\ OthersWake(r)
    BY <1>1, <1>2, <1>3, <2>1, ReleaseConserves DEF OthersWake
  <2>3. Counted'
    BY <2>1, <2>2 DEF Counted
  <2>4. Quiet'
    BY <1>1, <2>1, <2>3, StaysQuiet
  <2>5. Attempted'
    BY <1>1, <2>1, <2>2, AttemptsLeft
  <2>6. RestTyped'
    BY <1>1, <2>1 DEF RestTyped
  <2> QED BY <2>2, <2>3, <2>4, <2>5, <2>6 DEF GatewayInv
<1>14. CASE Closes(r)
  <2>1. PICK e \in {"answered", "gone"} : phase' = [phase EXCEPT ![r] = e]
    BY <1>14 DEF Closes
  <2>2. /\ phase[r] = "closing" /\ active' = active - 1
        /\ UNCHANGED <<asked, provider, attempt, called, free, waiters, draining, health, now>>
    BY <1>14 DEF Closes
  <2>3. /\ PermitsKept' /\ Cardinality(InsideIn(phase')) = Cardinality(InsideIn(phase)) - 1
        /\ phase'[r] = e /\ OthersWake(r)
    BY <1>1, <2>1, <2>2, ClosedConserves DEF OthersWake
  <2>4. Counted'
    BY <1>1, <2>2, <2>3 DEF Counted
  <2>5. Quiet'
    BY <1>1, <2>2, <2>4, StaysQuiet
  <2>6. Attempted'
    BY <1>1, <2>1, <2>2, <2>3, AttemptsLeft DEF Ended
  <2>7. RestTyped'
    BY <1>1, <2>2 DEF RestTyped
  <2> QED BY <2>3, <2>4, <2>5, <2>6, <2>7 DEF GatewayInv
<1> QED BY <1>5, <1>6, <1>7, <1>8, <1>9, <1>10, <1>11, <1>12, <1>13, <1>14 DEF Moves

\* begin_drain() and the clock touch no permit.
LEMMA DrainKeeps ==
  ASSUME GatewayInv, Shutdown \/ DrainEnds \/ Tick \/ UNCHANGED vars
  PROVE  GatewayInv'
<1>1. /\ UNCHANGED <<asked, phase, provider, attempt, called, free, waiters, active, health>>
      /\ PermitsKept /\ Counted /\ Quiet /\ Attempted /\ RestTyped
  BY DEF GatewayInv, Shutdown, DrainEnds, Tick, vars, requestVars
<1>2. PermitsKept' /\ Counted' /\ Attempted'
  BY <1>1 DEF PermitsKept, Counted, Attempted
<1>3. Quiet'
  BY <1>1 DEF Quiet, Shutdown, DrainEnds, Tick, vars, requestVars
<1>4. RestTyped'
  <2>1. now' \in Nat
    BY <1>1 DEF RestTyped, Shutdown, DrainEnds, Tick, vars, requestVars
  <2> QED BY <1>1, <2>1 DEF RestTyped
<1> QED BY <1>2, <1>3, <1>4 DEF GatewayInv

\* All permits are free and nobody is inside.
LEMMA GatewayInit == Init => GatewayInv
<1> SUFFICES ASSUME Init PROVE GatewayInv
  OBVIOUS
<1>1. phase = [r \in Requests |-> "new"]
  BY DEF Init
<1>2. HoldersIn(phase) = {} /\ InsideIn(phase) = {}
  BY <1>1 DEF HoldersIn, InsideIn, Those, Holding, Inside
<1>3. Cardinality(HoldersIn(phase)) = 0 /\ Cardinality(InsideIn(phase)) = 0
  BY <1>2, FS_EmptySet
<1>4. Ordered(waiters, phase)
  <2>1. waiters = <<>>
    BY DEF Init
  <2>2. waiters \in Seq(Requests) /\ IsInjective(waiters) /\ ToSet(waiters) = {}
    BY <2>1 DEF IsInjective, ToSet
  <2> QED BY <2>2, <1>1 DEF Ordered, InQueue
<1>5. PermitsKept
  BY <1>1, <1>3, <1>4, GatewayAssumption DEF PermitsKept, Init, Phases
<1>6. Counted /\ Quiet
  BY <1>3 DEF Counted, Quiet, Init
<1>7. Attempted
  BY <1>1, GatewayAssumption DEF Attempted, Init
<1>8. RestTyped
  BY DEF RestTyped, Init, Health
<1> QED BY <1>5, <1>6, <1>7, <1>8 DEF GatewayInv

\* The invariant says what the two properties of the component promise.
LEMMA GatewayPromises == GatewayInv => CapacityConserved /\ DrainedIsQuiet
<1> SUFFICES ASSUME GatewayInv PROVE CapacityConserved /\ DrainedIsQuiet
  OBVIOUS
<1>1. HoldersIn(phase) = {r \in Requests : phase[r] \in Holding}
  BY DEF HoldersIn, Those
<1>2. InsideIn(phase) = {r \in Requests : phase[r] \in Inside}
  BY DEF InsideIn, Those
<1>3. active \in 0..Cardinality(Requests)
  BY InsideFew DEF GatewayInv, Counted
<1>4. TypeOK
  BY <1>3 DEF TypeOK, GatewayInv, PermitsKept, Ordered, Quiet, Attempted, RestTyped,
              Phases, InQueue, Health
<1>5. CapacityConserved
  BY <1>1, <1>4 DEF CapacityConserved, GatewayInv, PermitsKept
<1> QED BY <1>2, <1>5 DEF DrainedIsQuiet, GatewayInv, Counted, Quiet

\* Whatever the requests, providers, permits and thresholds, the invariant holds.
THEOREM GatewayInvAlways == Spec => []GatewayInv
<1>1. GatewayInv /\ [Next]_vars => GatewayInv'
  BY EntersKeeps, MovesKeep, DrainKeeps DEF Next
<1> QED BY <1>1, GatewayInit, PTL DEF Spec

\* Capacity (gateway.py:57-60, 101-102, 128-129): permits are conserved whatever
\* way requests end, and no sleeper is left beside a permit nobody will pass on.
THEOREM CapacityCorrect == Spec => []CapacityConserved
BY GatewayInvAlways, GatewayPromises, PTL

\* Draining (lifecycle.py:28-52): begin_drain() returns True to an empty house.
THEOREM DrainCorrect == Spec => []DrainedIsQuiet
BY GatewayInvAlways, GatewayPromises, PTL

-----------------------------------------------------------------------------
\* select() gives an ejected provider only to who asks for it, or for want of others.
LEMMA SelectsSpares ==
  ASSUME NEW r, NEW p, Selects(r, p), provider'[r] = p PROVE Spares(r)
BY DEF Selects, Candidates, Spares

\* A request starts an attempt only in its own steps, with the provider it selects.
LEMMA AttemptsSelect ==
  ASSUME GatewayInv, NEW r \in Requests \ Streams, Next, attempt'[r] # attempt[r]
  PROVE  Spares(r)
<1>1. /\ attempt \in [Requests -> 0..MaxAttempts]
      /\ provider \in [Requests -> Providers \cup {AnyProvider}]
  BY DEF GatewayInv, Attempted, RestTyped
<1>2. ASSUME NEW q \in Requests, NEW p, attempt' = [attempt EXCEPT ![q] = @ + 1],
             provider' = [provider EXCEPT ![q] = p], q \notin Streams => Selects(q, p)
      PROVE  Spares(r)
  <2>1. q = r
    BY <1>1, <1>2
  <2>2. provider'[r] = p /\ Selects(r, p)
    BY <1>1, <1>2, <2>1
  <2> QED BY <2>2, SelectsSpares
<1>3. PICK q \in Requests : Enters(q) \/ Resumes(q) \/ BackoffEnds(q)
  BY DEF Next, Moves, QueueTimesOut, Answers, Closes, ProviderFails, DeadlinePasses, Finalised,
         Breaks, Disconnects, Shutdown, DrainEnds, Tick, requestVars
<1>4. PICK p : /\ attempt' = [attempt EXCEPT ![q] = @ + 1]
               /\ provider' = [provider EXCEPT ![q] = p]
               /\ q \notin Streams => Selects(q, p)
  <2>1. CASE Enters(q)
    BY <2>1 DEF Enters, Calls
  <2>2. CASE Resumes(q)
    BY <2>2 DEF Resumes
  <2>3. CASE BackoffEnds(q)
    BY <2>3 DEF BackoffEnds, Calls
  <2> QED BY <1>3, <2>1, <2>2, <2>3
<1> QED BY <1>2, <1>4

\* Ejection (health_aware.py:38-52): no attempt of generate() that was free to
\* choose goes to a provider that is ejected while another one is not.
THEOREM EjectionCorrect == Spec => EjectedSpared
<1> DEFINE Sparing ==
      \A r \in Requests \ Streams :
        phase'[r] = "calling" /\ attempt'[r] # attempt[r] => Spares(r)
<1>1. GatewayInv /\ [Next]_vars => [Sparing]_vars
  BY AttemptsSelect
<1> QED BY <1>1, GatewayInvAlways, PTL DEF Spec, EjectedSpared
=============================================================================
