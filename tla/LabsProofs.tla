------------------------------- MODULE LabsProofs -------------------------------
(***************************************************************************)
(* Proofs about the labs of Labs, which share nothing, for every value of   *)
(* their constants: the quota of RateLimits, the metrics of CanaryRouter,   *)
(* the isolation of Tenancy, the delegation of Identity, the hits of        *)
(* SemanticCache, the escalations of ModelRouting, the history Operations   *)
(* goes by, the detections of Failover, the snapshots of CheckpointCost,    *)
(* the statistics of Evaluation.  PlanningProofs goes on with EpisodePlanning *)
(* and DecisionTier.                                                        *)
(***************************************************************************)
EXTENDS Labs, FiniteSetTheorems, WellFoundedInduction, TLAPS

-------------------------------------------------------------------------------
(* RateLimits: for every capacity, rate, expiry and skew, and any number of  *)
(* buckets, replicas and calls.  First what a reading does to an account.    *)
\* A larger time refills no less (the product in local refill, rate_limit.py).
LEMMA RefillMonotone ==
  ASSUME NEW r \in Nat, NEW x \in Int, NEW y \in Int, x <= y
  PROVE  r * x <= r * y
  <1>1. PICK d \in Nat : y = x + d
    BY x <= y, y = x + (y - x), y - x \in Nat
  <1>2. r * y = r * x + r * d
    BY <1>1
  <1>3. r * d \in Nat /\ r * x \in Int
    OBVIOUS
  <1> QED
    BY <1>2, <1>3

\* Refilling in two goes is refilling at once.
LEMMA RefillAdds ==
  ASSUME NEW r \in Nat, NEW x \in Int, NEW y \in Int
  PROVE  r * (x + y) = r * x + r * y /\ r * x \in Int /\ r * y \in Int
  OBVIOUS

\* The account of one bucket: given out g, left t, last reading u, first f, time
\* given twice l, forgiven w.  After a reading r that is taken as it is, what is given out
\* and left has grown by no more than the account allows.
LEMMA AccountAdds ==
  ASSUME NEW cap \in Nat, NEW r \in Nat, NEW g \in Nat, NEW t \in Nat,
         NEW u \in Nat, NEW f \in Nat, NEW l \in Nat, NEW n \in Nat, NEW full \in Nat,
         NEW late \in Nat, NEW w \in Nat,
         g + t <= cap + r * (u - f + l) + w,
         full <= t + Positive(n - u) * r, late = l + Positive(u - n)
  PROVE  g + full <= cap + r * (n - f + late) + w
  <1> DEFINE before == u - f + l
             more == Positive(n - u)
  <1>1. before \in Int /\ more \in Nat /\ Positive(u - n) \in Nat
    BY DEF Positive
  <1>2. n - f + late = before + more
    BY DEF Positive
  <1>3. r * (before + more) = r * before + r * more /\ r * before \in Int /\ r * more \in Int
    BY <1>1, RefillAdds
  <1>4. more * r = r * more
    BY <1>1
  <1> HIDE DEF before, more
  <1>5. g + t <= cap + r * before + w /\ full <= t + more * r
    BY DEF before, more
  <1> QED
    BY <1>1, <1>2, <1>3, <1>4, <1>5

\* After an expiry the bucket is full again: the time since the last reading has
\* filled it, or what is missing of Ttl is counted twice, and the rest is forgiven.
LEMMA AccountExpires ==
  ASSUME NEW cap \in Nat, NEW r \in Nat, NEW g \in Nat, NEW t \in Nat, NEW ttl \in Nat,
         NEW u \in Nat, NEW f \in Nat, NEW l \in Nat, NEW n \in Nat, NEW w \in Nat,
         g + t <= cap + r * (u - f + l) + w
  PROVE  g + cap <= cap + r * (n - f + (l + Positive(u + ttl - n)))
                      + (w + Positive(cap - (t + ttl * r)))
  <1> DEFINE before == u - f + l
             after == n - f + (l + Positive(u + ttl - n))
  <1>1. before \in Int /\ after \in Int /\ before + ttl <= after
    BY DEF Positive
  <1> HIDE DEF before, after
  <1>2. r * (before + ttl) = r * before + r * ttl /\ r * before \in Int /\ r * ttl \in Int
    BY <1>1, RefillAdds
  <1>3. r * (before + ttl) <= r * after /\ r * after \in Int
    BY <1>1, RefillMonotone
  <1>4. ttl * r = r * ttl /\ ttl * r \in Nat
    OBVIOUS
  <1> DEFINE back == Positive(cap - (t + ttl * r))
  <1>5. back \in Nat /\ cap <= t + ttl * r + back
    BY <1>4 DEF Positive
  <1> HIDE DEF back
  <1>7. g + t <= cap + r * before + w
    BY DEF before
  <1>6. g + cap <= cap + r * after + (w + back)
    BY <1>2, <1>3, <1>4, <1>5, <1>7
  <1> QED
    BY <1>6 DEF after, back
-------------------------------------------------------------------------------
(* The invariant *)

\* QuotaHeld does not say when a bucket begins: with its first reading, before
\* which nothing is given out.  And a local bucket was last read in the past,
\* so that its clock cannot run backwards.
Begun(k) ==
  /\ bucket[k].updated = Never <=> first[k] = Never
  /\ first[k] = Never => bucket[k] = NoBucket /\ granted[k] = 0 /\ lag[k] = 0 /\ forgiven[k] = 0
  /\ k \in LocalKeys => bucket[k].updated <= now
Account(k) ==
  granted[k] + (IF first[k] = Never THEN 0 ELSE bucket[k].tokens)
    <= Capacity + Refill * (bucket[k].updated - first[k] + lag[k]) + forgiven[k]
Forgiven(k) == Ttl * Refill >= Capacity \/ k \in LocalKeys => forgiven[k] = 0
Kept(k) == Account(k) /\ Begun(k) /\ Forgiven(k) /\ (k \in LocalKeys => lag[k] = 0)
LimitsInv == LimitsTypeOK /\ now >= Skew /\ \A k \in Keys : Kept(k)

\* The invariant says that the quota is held.
LEMMA InvIsEnough == LimitsInv => QuotaHeld
  BY DEF LimitsInv, Kept, Account, Forgiven, QuotaHeld

\* Nothing was given out before the first call.
LEMMA LimitsBegin == LimitsInit => LimitsInv
  <1> SUFFICES ASSUME LimitsInit PROVE LimitsInv
    OBVIOUS
  <1> USE LimitsAssumption
  <1>1. LimitsTypeOK
    BY DEF LimitsInit, LimitsTypeOK, NoBucket, Never
  <1>2. ASSUME NEW k \in Keys PROVE Kept(k)
    <2>1. /\ bucket[k] = NoBucket /\ first[k] = Never /\ granted[k] = 0 /\ lag[k] = 0
          /\ forgiven[k] = 0 /\ now \in Nat
      BY DEF LimitsInit
    <2>2. Refill * (Never - Never + 0) = 0
      BY DEF Never
    <2> QED
      BY <2>1, <2>2 DEF Kept, Account, Begun, Forgiven, NoBucket, Never
  <1>3. now >= Skew
    BY DEF LimitsInit
  <1> QED
    BY <1>1, <1>2, <1>3 DEF LimitsInv

\* One reading of a bucket, local or shared: k is read at time n from what is
\* left of it, b - the bucket, or a new one if it has expired - and filled up
\* to full.
Reads(k, b, n, cost, full, allowed, until) ==
  /\ k \in Keys /\ n \in Nat /\ cost \in Nat /\ allowed \in BOOLEAN /\ until \in Nat \cup {Never}
  /\ b = bucket[k] \/ b = NoBucket
  /\ full = Replenished(b, Positive(Elapsed(b, n)))
  /\ allowed => cost <= full
  /\ k \in LocalKeys => n = now /\ b = bucket[k]
  /\ bucket' = [bucket EXCEPT ![k] =
       [tokens |-> IF allowed THEN full - cost ELSE full, updated |-> n, until |-> until]]
  /\ Noted(k, b, n, cost, allowed) /\ now' = now
  /\ sent' \in [Calls -> [key : SharedKeys, reading : Nat] \cup {NoCall}]

\* One reading of one bucket, wherever it comes from, keeps the accounts.
LEMMA OneReading ==
  ASSUME LimitsInv, NEW k, NEW b, NEW n, NEW cost, NEW full, NEW allowed, NEW until,
         Reads(k, b, n, cost, full, allowed, until)
  PROVE  LimitsInv'
  <1>0. k \in Keys /\ n \in Nat /\ cost \in Nat /\ allowed \in BOOLEAN /\ until \in Nat \cup {Never}
    BY DEF Reads
  <1>b. /\ b = bucket[k] \/ b = NoBucket
        /\ full = Replenished(b, Positive(Elapsed(b, n)))
        /\ allowed => cost <= full
        /\ k \in LocalKeys => n = now /\ b = bucket[k]
        /\ bucket' = [bucket EXCEPT ![k] =
             [tokens |-> IF allowed THEN full - cost ELSE full, updated |-> n, until |-> until]]
        /\ Noted(k, b, n, cost, allowed) /\ now' = now
        /\ sent' \in [Calls -> [key : SharedKeys, reading : Nat] \cup {NoCall}]
    BY DEF Reads
  <1> USE <1>0, <1>b
  <1> USE LimitsAssumption DEF Never
  <1> DEFINE B == bucket[k]
             left == IF allowed THEN full - cost ELSE full
             more == IF b = NoBucket THEN B.updated + Ttl ELSE B.updated
  <1>1. /\ bucket \in [Keys -> [tokens : 0..Capacity, updated : Nat \cup {Never}, until : Nat \cup {Never}]]
        /\ granted \in [Keys -> Nat] /\ lag \in [Keys -> Nat] /\ first \in [Keys -> Nat \cup {Never}]
        /\ forgiven \in [Keys -> Nat] /\ now \in Nat
    BY DEF LimitsInv, LimitsTypeOK
  <1>2. /\ B.tokens \in 0..Capacity /\ B.updated \in Nat \cup {Never}
        /\ granted[k] \in Nat /\ lag[k] \in Nat /\ first[k] \in Nat \cup {Never}
        /\ forgiven[k] \in Nat
    BY <1>1
  <1>3. Account(k) /\ Begun(k) /\ Forgiven(k) /\ (k \in LocalKeys => lag[k] = 0)
    BY DEF LimitsInv, Kept
  <1>4. b = NoBucket => full = Capacity
    BY DEF Replenished, Elapsed, AtMost, NoBucket, Positive
  <1>5. full \in 0..Capacity /\ left \in 0..Capacity
    <2>1. CASE b = NoBucket
      BY <2>1, <1>4
    <2>2. CASE b = B /\ b # NoBucket
      <3>1. Positive(Elapsed(b, n)) \in Nat
        BY <2>2, <1>2 DEF Positive, Elapsed
      <3>2. Positive(Elapsed(b, n)) * Refill \in Nat
        BY <3>1
      <3>3. full \in 0..Capacity
        BY <2>2, <3>2, <1>2 DEF Replenished, AtMost
      <3> QED
        BY <3>3
    <2> QED
      BY <2>1, <2>2
  <1>6. /\ bucket'[k] = [tokens |-> left, updated |-> n, until |-> until]
        /\ granted'[k] = IF allowed THEN granted[k] + cost ELSE granted[k]
        /\ first'[k] = IF first[k] = Never THEN n ELSE first[k]
    BY <1>1 DEF Noted
  <1>7. /\ b = NoBucket /\ B.updated # Never => lag'[k] = lag[k] + Positive(B.updated + Ttl - n)
        /\ b # NoBucket /\ B.updated # Never => lag'[k] = lag[k] + Positive(B.updated - n)
        /\ B.updated = Never => lag'[k] = lag[k]
    BY <1>1, <1>2 DEF Noted, Positive
  <1> DEFINE back == Positive(Capacity - (B.tokens + Ttl * Refill))
  <1>z. /\ B.updated = Never \/ b # NoBucket => forgiven'[k] = forgiven[k]
        /\ B.updated # Never /\ b = NoBucket => forgiven'[k] = forgiven[k] + back
    BY <1>1, <1>2 DEF Noted
  <1>y. Ttl * Refill \in Nat
    OBVIOUS
  <1>x. back \in Nat /\ (Ttl * Refill >= Capacity => back = 0)
    BY <1>2, <1>y DEF Positive
  <1> HIDE DEF back
  <1>w. forgiven' \in [Keys -> Nat] /\ forgiven'[k] \in Nat /\ Forgiven(k)'
    <2>1. forgiven'[k] \in Nat
      BY <1>2, <1>z, <1>x
    <2>2. forgiven' = [forgiven EXCEPT ![k] = forgiven'[k]]
      BY <1>1 DEF Noted
    <2>3. k \in LocalKeys => forgiven'[k] = forgiven[k]
      <3>1. ASSUME k \in LocalKeys, B = NoBucket PROVE B.updated = Never
        BY <3>1 DEF NoBucket
      <3> QED
        BY <1>z, <3>1
    <2>4. Ttl * Refill >= Capacity => forgiven'[k] = forgiven[k]
      BY <1>2, <1>z, <1>x
    <2>5. Forgiven(k)'
      BY <1>3, <2>3, <2>4 DEF Forgiven
    <2> QED
      BY <1>1, <2>1, <2>2, <2>5
  <1>8. granted'[k] + left = granted[k] + full
    BY <1>2, <1>5, <1>6
  <1>9. LimitsTypeOK'
    <2>1. left \in 0..Capacity /\ n \in Nat /\ until \in Nat \cup {Never}
      BY <1>5
    <2>2. bucket' \in [Keys -> [tokens : 0..Capacity, updated : Nat \cup {Never}, until : Nat \cup {Never}]]
      BY <1>1, <2>1
    <2>3. granted' \in [Keys -> Nat] /\ first' \in [Keys -> Nat \cup {Never}]
      BY <1>1 DEF Noted
    <2>4. Positive(more - n) \in Nat \/ B.updated = Never
      BY <1>2 DEF Positive
    <2>5. lag' \in [Keys -> Nat]
      BY <1>1, <2>4 DEF Noted
    <2> QED
      BY <1>1, <1>w, <2>2, <2>3, <2>5 DEF LimitsTypeOK
  <1>10. Kept(k)'
    <2>1. CASE first[k] = Never
      <3>1. B = NoBucket /\ granted[k] = 0 /\ lag[k] = 0 /\ b = NoBucket /\ B.updated = Never
        BY <2>1, <1>3 DEF Begun
      <3>2. first'[k] = n /\ lag'[k] = 0 /\ granted'[k] + left = Capacity
        BY <2>1, <3>1, <1>4, <1>5, <1>6, <1>7, <1>8
      <3>w. forgiven'[k] \in Nat
        BY <1>w
      <3>3. Refill * (n - n + 0) = 0
        OBVIOUS
      <3>4. Account(k)'
        BY <3>2, <3>3, <3>w, <1>6 DEF Account
      <3> QED
        BY <3>2, <3>4, <1>6, <1>w DEF Kept, Begun
    <2>2. CASE first[k] # Never
      <3>1. B.updated \in Nat /\ first[k] \in Nat /\ first'[k] = first[k]
        BY <2>2, <1>2, <1>3, <1>6 DEF Begun
      <3>2. granted[k] + B.tokens <= Capacity + Refill * (B.updated - first[k] + lag[k]) + forgiven[k]
        BY <2>2, <1>3 DEF Account
      <3>3. lag'[k] \in Nat
        BY <3>1, <1>2, <1>7 DEF Positive
      <3>t. /\ Capacity \in Nat /\ Refill \in Nat /\ Ttl \in Nat /\ forgiven[k] \in Nat
            /\ granted[k] \in Nat /\ B.tokens \in Nat /\ lag[k] \in Nat /\ full \in Nat
        BY <1>2, <1>5
      <3>4. granted[k] + full <= Capacity + Refill * (n - first[k] + lag'[k]) + forgiven'[k]
        <4>1. CASE b = NoBucket
          <5>1. full = Capacity
            BY <4>1, <1>4
          <5>2. lag'[k] = lag[k] + Positive(B.updated + Ttl - n)
            BY <4>1, <3>1, <1>7
          <5>4. forgiven'[k] = forgiven[k] + Positive(Capacity - (B.tokens + Ttl * Refill))
            BY <4>1, <3>1, <1>z DEF back
          <5>3. granted[k] + Capacity
                  <= Capacity + Refill * (n - first[k] + (lag[k] + Positive(B.updated + Ttl - n)))
                       + (forgiven[k] + Positive(Capacity - (B.tokens + Ttl * Refill)))
            BY ONLY <3>1, <3>2, <3>t, AccountExpires, n \in Nat, ZenonT(30)
          <5> QED
            BY ONLY <5>1, <5>2, <5>3, <5>4, Zenon
        <4>2. CASE b # NoBucket
          <5>1. full <= B.tokens + Positive(n - B.updated) * Refill
            <6>1. b = B /\ Elapsed(b, n) = n - B.updated
              BY <4>2, <3>1 DEF Elapsed
            <6>2. Positive(n - B.updated) * Refill \in Nat
              BY <3>1 DEF Positive
            <6> QED
              BY <6>1, <6>2, <1>2 DEF Replenished, AtMost
          <5>2. lag'[k] = lag[k] + Positive(B.updated - n)
            BY <4>2, <3>1, <1>7
          <5> QED
            BY <3>1, <3>2, <3>3, <3>t, <4>2, <5>1, <5>2, <1>z, AccountAdds, ZenonT(30)
        <4> QED
          BY <4>1, <4>2
      <3>5. Account(k)'
        BY <3>1, <3>4, <1>6, <1>8, <1>w DEF Account
      <3>6. k \in LocalKeys => lag'[k] = 0
        <4> SUFFICES ASSUME k \in LocalKeys PROVE lag'[k] = 0
          OBVIOUS
        <4>1. b = B /\ b # NoBucket /\ B.updated <= n /\ lag[k] = 0
          BY <3>1, <1>3 DEF Begun, NoBucket
        <4> QED
          BY <4>1, <3>1, <1>2, <1>7 DEF Positive
      <3>7. Begun(k)'
        BY <3>1, <1>6 DEF Begun
      <3> QED
        BY <3>5, <3>6, <3>7, <1>w DEF Kept
    <2> QED
      BY <2>1, <2>2
  <1>11. ASSUME NEW j \in Keys, j # k PROVE Kept(j)'
    <2>1. /\ bucket'[j] = bucket[j] /\ granted'[j] = granted[j] /\ first'[j] = first[j]
          /\ lag'[j] = lag[j] /\ forgiven'[j] = forgiven[j]
      BY <1>1, <1>11 DEF Noted
    <2>2. Kept(j)
      BY DEF LimitsInv
    <2> QED
      BY <2>1, <2>2 DEF Kept, Account, Begun, Forgiven
  <1>12. (now >= Skew)'
    BY DEF LimitsInv
  <1> QED
    BY <1>9, <1>10, <1>11, <1>12 DEF LimitsInv

\* Steps that read no bucket.
LEMMA NoReading ==
  ASSUME LimitsInv, UNCHANGED <<bucket, granted, first, lag, forgiven>>, now' \in Nat, now <= now',
         sent' \in [Calls -> [key : SharedKeys, reading : Nat] \cup {NoCall}]
  PROVE  LimitsInv'
  <1>1. LimitsTypeOK'
    BY DEF LimitsInv, LimitsTypeOK
  <1>2. ASSUME NEW k \in Keys PROVE Kept(k)'
    <2>1. Kept(k) /\ bucket[k].updated \in Int /\ now \in Int
      BY DEF LimitsInv, LimitsTypeOK, Never
    <2> QED
      BY <2>1 DEF Kept, Account, Begun, Forgiven
  <1>3. (now >= Skew)'
    <2>1. now >= Skew /\ now \in Nat /\ Skew \in Nat
      BY LimitsAssumption DEF LimitsInv, LimitsTypeOK
    <2> QED
      BY <2>1
  <1> QED
    BY <1>1, <1>2, <1>3 DEF LimitsInv
-------------------------------------------------------------------------------
(* The steps *)

\* acquire() in the process is such a reading.
LEMMA AcquireKeeps ==
  ASSUME LimitsInv, NEW k \in LocalKeys, NEW cost \in Costs, Acquire(k, cost)
  PROVE  LimitsInv'
  <1> DEFINE full == Replenished(bucket[k], Elapsed(bucket[k], now))
             allowed == full >= cost
  <1>1. k \in Keys /\ cost \in Nat /\ now \in Nat
    BY LimitsAssumption DEF Keys, LimitsInv, LimitsTypeOK
  <1>2. /\ bucket' = [bucket EXCEPT ![k] =
             [tokens |-> IF allowed THEN full - cost ELSE full, updated |-> now, until |-> Never]]
        /\ Noted(k, bucket[k], now, cost, allowed) /\ now' = now /\ sent' = sent
    BY DEF Acquire
  <1>3. Elapsed(bucket[k], now) = Positive(Elapsed(bucket[k], now))
    <2>1. Begun(k) /\ bucket[k].updated \in Nat \cup {Never}
      BY <1>1 DEF LimitsInv, Kept, LimitsTypeOK
    <2> QED
      BY <1>1, <2>1 DEF Begun, Elapsed, Positive, Never
  <1>4. full = Replenished(bucket[k], Positive(Elapsed(bucket[k], now)))
    BY <1>3
  <1>5. sent' \in [Calls -> [key : SharedKeys, reading : Nat] \cup {NoCall}]
    BY <1>2 DEF LimitsInv, LimitsTypeOK
  <1>6. (allowed => cost <= full) /\ allowed \in BOOLEAN
    <2>1. full >= cost <=> cost <= full
      OBVIOUS
    <2> QED
      BY <2>1
  <1> HIDE DEF full, allowed
  <1>7. Reads(k, bucket[k], now, cost, full, allowed, Never)
    BY <1>1, <1>2, <1>4, <1>5, <1>6 DEF Reads
  <1> QED
    BY <1>7, OneReading

\* So is a script that runs in Redis, however late.
LEMMA RunsKeeps ==
  ASSUME LimitsInv, NEW c \in Calls, NEW cost \in Costs, Runs(c, cost)
  PROVE  LimitsInv'
  <1> DEFINE k == sent[c].key
             n == sent[c].reading
             b == IF bucket[k].until <= now THEN NoBucket ELSE bucket[k]
             full == Replenished(b, ScriptElapsed(b, n))
             allowed == full >= cost
  <1>1. sent[c] \in [key : SharedKeys, reading : Nat]
    BY DEF Runs, LimitsInv, LimitsTypeOK
  <1>2. /\ k \in SharedKeys /\ n \in Nat /\ cost \in Nat /\ now \in Nat /\ now + Ttl \in Nat
        /\ k \in Keys /\ k \notin LocalKeys
    BY <1>1, LimitsAssumption DEF Keys, LimitsInv, LimitsTypeOK
  <1>3. /\ bucket' = [bucket EXCEPT ![k] =
             [tokens |-> IF allowed THEN full - cost ELSE full, updated |-> n, until |-> now + Ttl]]
        /\ Noted(k, b, n, cost, allowed) /\ now' = now
        /\ sent' = [sent EXCEPT ![c] = NoCall]
    BY DEF Runs
  <1>4. b = bucket[k] \/ b = NoBucket
    OBVIOUS
  <1>5. full = Replenished(b, Positive(Elapsed(b, n)))
    BY DEF ScriptElapsed
  <1>6. sent' \in [Calls -> [key : SharedKeys, reading : Nat] \cup {NoCall}]
    BY <1>3 DEF LimitsInv, LimitsTypeOK
  <1>7. (allowed => cost <= full) /\ allowed \in BOOLEAN
    <2>1. full >= cost <=> cost <= full
      OBVIOUS
    <2> QED
      BY <2>1
  <1> HIDE DEF k, n, b, full, allowed
  <1>8. Reads(k, b, n, cost, full, allowed, now + Ttl)
    BY <1>2, <1>3, <1>4, <1>5, <1>6, <1>7 DEF Reads
  <1> QED
    BY <1>8, OneReading

\* The invariant is inductive.
LEMMA StepsKeep ==
  ASSUME LimitsInv, [LimitsNext]_limitVars
  PROVE  LimitsInv'
  <1>0. now \in Nat /\ sent \in [Calls -> [key : SharedKeys, reading : Nat] \cup {NoCall}]
    BY DEF LimitsInv, LimitsTypeOK
  <1>1. CASE Tick
    BY <1>0, <1>1, NoReading DEF Tick
  <1>2. ASSUME NEW k \in LocalKeys, NEW cost \in Costs, Acquire(k, cost) PROVE LimitsInv'
    BY <1>2, AcquireKeeps
  <1>3. ASSUME NEW c \in Calls, NEW k \in SharedKeys, NEW n \in (now - Skew)..now, Sends(c, k, n)
        PROVE  LimitsInv'
    <2>1. n \in Nat
      BY <1>0, LimitsAssumption DEF LimitsInv
    <2>2. sent' \in [Calls -> [key : SharedKeys, reading : Nat] \cup {NoCall}]
      BY <1>0, <1>3, <2>1 DEF Sends
    <2> QED
      BY <1>0, <1>3, <2>2, NoReading DEF Sends
  <1>4. ASSUME NEW c \in Calls, NEW cost \in Costs, Runs(c, cost) PROVE LimitsInv'
    BY <1>4, RunsKeeps
  <1>5. ASSUME NEW c \in Calls, Lost(c) PROVE LimitsInv'
    <2>1. sent' \in [Calls -> [key : SharedKeys, reading : Nat] \cup {NoCall}]
      BY <1>0, <1>5 DEF Lost
    <2> QED
      BY <1>0, <1>5, <2>1, NoReading DEF Lost
  <1>6. CASE UNCHANGED limitVars
    BY <1>0, <1>6, NoReading DEF limitVars
  <1> QED
    BY <1>1, <1>2, <1>3, <1>4, <1>5, <1>6 DEF LimitsNext

\* No bucket gives out more than its quota: its capacity, what its readings
\* refill, what readings out of order count twice and what expiries give back
\* (QuotaHeld), for every capacity, rate, expiry and skew.
THEOREM QuotaCorrect == LimitsSpec => []QuotaHeld
  <1>1. LimitsInit => LimitsInv
    BY LimitsBegin
  <1>2. LimitsInv /\ [LimitsNext]_limitVars => LimitsInv'
    BY StepsKeep
  <1>3. LimitsInv => QuotaHeld
    BY InvIsEnough
  <1> QED
    BY <1>1, <1>2, <1>3, PTL DEF LimitsSpec

-------------------------------------------------------------------------------
(* CanaryRouter: a version's metrics are about its own requests, and who was *)
(* promoted alone gets what names no version.                                *)

Metrics == [request_count : Nat, error_count : Nat]
Sent(g, how) == {r \in Inferences : request[r].generation = g /\ request[r].state = how}

\* A generation is of one version, and so is a request that has it: whoever
\* was sent to a version that is replaced counts for nobody.
Generations ==
  /\ registered \in Nat
  /\ generation \in [Versions -> 0..registered]
  /\ \A u, v \in Versions : generation[u] = generation[v] /\ generation[u] # 0 => u = v

Sendings ==
  /\ request \in [Inferences -> [state : {"idle", "waiting", "answered", "failed", "cancelled"},
                               version : Versions \cup {NoVersion}, generation : 0..registered,
                               ruled : Versions \cup {NoVersion}]]
  /\ \A r \in Inferences :
       /\ request[r].state = "idle" => request[r].generation = 0
       /\ request[r].state = "waiting" => request[r].version \in Versions
       /\ \A v \in Versions : generation[v] # 0 /\ request[r].generation = generation[v]
                             => request[r].version = v

Told(v) ==
  metrics[v] = [request_count |-> Cardinality(Sent(generation[v], "answered")
                                              \cup Sent(generation[v], "failed")),
                error_count |-> Cardinality(Sent(generation[v], "failed"))]

Ruling ==
  /\ promoted \in Versions \cup {NoVersion}
  /\ promoted # NoVersion => \A v \in Versions : generation[v] # 0 /\ weight[v] > 0 => v = promoted
  /\ \A r \in Inferences : request[r].ruled \in {NoVersion, request[r].version}

RouterInv ==
  /\ Generations /\ Sendings /\ Ruling
  /\ DOMAIN weight = Versions /\ metrics \in [Versions -> Metrics]
  /\ \A v \in Versions : generation[v] # 0 => Told(v)

\* Nothing is registered and nobody was sent anywhere.
LEMMA RouterStarts ==
  ASSUME IsFiniteSet(Inferences), Router!RouterInit PROVE RouterInv
  <1>1. /\ weight = [v \in Versions |-> 0] /\ generation = weight /\ registered = 0
        /\ metrics = [v \in Versions |-> [request_count |-> 0, error_count |-> 0]]
        /\ promoted = NoVersion
        /\ request = [r \in Inferences |-> [state |-> "idle", version |-> NoVersion,
                                          generation |-> 0, ruled |-> NoVersion]]
    BY DEF Router!RouterInit, Router!NoMetrics, Router!Idle
  <1>2. Generations
    BY <1>1 DEF Generations
  <1>3. Sendings
    BY <1>1 DEF Sendings
  <1>4. Ruling
    BY <1>1 DEF Ruling
  <1>5. metrics \in [Versions -> Metrics]
    BY <1>1 DEF Metrics
  <1>6. DOMAIN weight = Versions /\ \A v \in Versions : generation[v] = 0
    BY <1>1
  <1> QED
    BY <1>2, <1>3, <1>4, <1>5, <1>6 DEF RouterInv

\* A version that is registered, perhaps anew, has a generation nobody was sent to.
LEMMA RegisterKeeps ==
  ASSUME IsFiniteSet(Inferences), RouterInv, NEW v \in Versions, NEW w \in Weights,
         Router!Register(v, w)
  PROVE  RouterInv'
  <1>1. /\ registered' = registered + 1 /\ weight' = [weight EXCEPT ![v] = w]
        /\ generation' = [generation EXCEPT ![v] = registered + 1]
        /\ metrics' = [metrics EXCEPT ![v] = [request_count |-> 0, error_count |-> 0]]
        /\ promoted' = IF v # promoted /\ w = 0 THEN promoted ELSE NoVersion
        /\ UNCHANGED request
    BY DEF Router!Register, Router!NoMetrics
  <1>2. Generations /\ Sendings /\ Ruling /\ DOMAIN weight = Versions /\ metrics \in [Versions -> Metrics]
    BY DEF RouterInv
  <1>3. /\ generation'[v] = registered + 1 /\ weight'[v] = w
        /\ \A u \in Versions : u # v => /\ generation'[u] = generation[u]
                                        /\ weight'[u] = weight[u] /\ metrics'[u] = metrics[u]
    BY <1>1, <1>2 DEF Generations
  <1>4. /\ registered \in Nat /\ \A u \in Versions : generation[u] \in 0..registered
        /\ \A r \in Inferences : request[r].generation \in 0..registered
    BY <1>2 DEF Generations, Sendings
  <1>5. Generations'
    <2>1. generation' \in [Versions -> 0..(registered + 1)]
      BY <1>1, <1>2, <1>4 DEF Generations
    <2> QED
      BY <1>1, <1>2, <1>3, <1>4, <2>1 DEF Generations
  <1>6. Sendings'
    <2>1. 0..registered \subseteq 0..(registered + 1) /\ registered + 1 \notin 0..registered
      BY <1>4
    <2>2. request' \in [Inferences -> [state : {"idle", "waiting", "answered", "failed", "cancelled"},
                                     version : Versions \cup {NoVersion},
                                     generation : 0..(registered + 1),
                                     ruled : Versions \cup {NoVersion}]]
      BY <1>1, <1>2, <2>1 DEF Sendings
    <2>3. ASSUME NEW r \in Inferences, NEW u \in Versions, generation'[u] # 0,
                 request'[r].generation = generation'[u]
          PROVE  request'[r].version = u
      BY <1>1, <1>2, <1>3, <1>4, <2>1, <2>3 DEF Sendings
    <2> QED
      BY <1>1, <1>2, <2>2, <2>3 DEF Sendings
  <1>7. Ruling'
    BY <1>1, <1>2, <1>3 DEF Ruling
  <1>8. DOMAIN weight' = Versions /\ metrics' \in [Versions -> Metrics]
    <2>1. [request_count |-> 0, error_count |-> 0] \in Metrics
      BY DEF Metrics
    <2> QED
      BY <1>1, <1>2, <2>1
  <1>9. ASSUME NEW u \in Versions, generation'[u] # 0 PROVE Told(u)'
    <2>1. CASE u # v
      <3>1. Told(u) /\ metrics'[u] = metrics[u] /\ generation'[u] = generation[u]
        BY <1>3, <1>9, <2>1 DEF RouterInv
      <3>2. /\ Sent(generation[u], "answered")' = Sent(generation[u], "answered")
            /\ Sent(generation[u], "failed")' = Sent(generation[u], "failed")
        BY <1>1, <3>1 DEF Sent
      <3> QED
        BY <3>1, <3>2 DEF Told
    <2>2. CASE u = v
      <3>1. Sent(generation[u], "answered")' = {} /\ Sent(generation[u], "failed")' = {}
        BY <1>1, <1>3, <1>4, <2>2 DEF Sent
      <3>2. Cardinality({}) = 0 /\ {} \cup {} = {}
        BY FS_EmptySet
      <3>3. metrics'[u] = [request_count |-> 0, error_count |-> 0]
        BY <1>1, <1>2, <2>2
      <3> QED
        BY <3>1, <3>2, <3>3 DEF Told
    <2> QED
      BY <2>1, <2>2
  <1> QED
    BY <1>5, <1>6, <1>7, <1>8, <1>9 DEF RouterInv

\* A request is sent to a version of now.
LEMMA InfersKeeps ==
  ASSUME IsFiniteSet(Inferences), RouterInv, NEW r \in Inferences,
         NEW asked \in Versions \cup {NoVersion}, Router!Infers(r, asked)
  PROVE  RouterInv'
  <1> DEFINE ruled == IF asked = NoVersion THEN promoted ELSE NoVersion
  <1>1. PICK v \in IF asked = NoVersion THEN Router!Servable ELSE {asked} \cap Router!Known :
          /\ request[r] = [state |-> "idle", version |-> NoVersion,
                           generation |-> 0, ruled |-> NoVersion]
          /\ request' = [request EXCEPT ![r] =
               [state |-> "waiting", version |-> v, generation |-> generation[v],
                ruled |-> ruled]]
          /\ UNCHANGED <<weight, generation, metrics, registered, promoted>>
    BY DEF Router!Infers, Router!Idle
  <1>2. Generations /\ Sendings /\ Ruling
    BY DEF RouterInv
  <1>3. /\ v \in Versions /\ generation[v] # 0
        /\ asked = NoVersion => weight[v] > 0
    BY DEF Router!Servable, Router!Known
  <1>4. ruled \in {NoVersion, v} /\ ruled \in Versions \cup {NoVersion}
    BY <1>2, <1>3 DEF Ruling
  <1> HIDE DEF ruled
  <1>5. /\ request'[r] = [state |-> "waiting", version |-> v, generation |-> generation[v],
                          ruled |-> ruled]
        /\ \A s \in Inferences : s # r => request'[s] = request[s]
    BY <1>1, <1>2 DEF Sendings
  <1>6. Sendings'
    <2>1. request'[r] \in [state : {"idle", "waiting", "answered", "failed", "cancelled"},
                           version : Versions \cup {NoVersion}, generation : 0..registered,
                           ruled : Versions \cup {NoVersion}]
      BY <1>2, <1>3, <1>4, <1>5 DEF Generations
    <2>2. request' \in [Inferences -> [state : {"idle", "waiting", "answered", "failed", "cancelled"},
                                     version : Versions \cup {NoVersion}, generation : 0..registered,
                                     ruled : Versions \cup {NoVersion}]]
      BY <1>1, <1>2, <1>5, <2>1 DEF Sendings
    <2>3. ASSUME NEW s \in Inferences
          PROVE  /\ request'[s].state = "idle" => request'[s].generation = 0
                 /\ request'[s].state = "waiting" => request'[s].version \in Versions
                 /\ \A u \in Versions : generation[u] # 0 /\ request'[s].generation = generation[u]
                                          => request'[s].version = u
      <3>1. CASE s = r
        BY <1>2, <1>3, <1>5, <3>1 DEF Generations
      <3>2. CASE s # r
        BY <1>2, <1>5, <3>2 DEF Sendings
      <3> QED
        BY <3>1, <3>2
    <2> QED
      BY <1>1, <2>2, <2>3 DEF Sendings
  <1>7. Ruling'
    BY <1>1, <1>2, <1>4, <1>5 DEF Ruling
  <1>8. Generations'
    BY <1>1, <1>2 DEF Generations
  <1>9. ASSUME NEW u \in Versions, generation'[u] # 0 PROVE Told(u)'
    <2>1. \A g : \A h \in {"answered", "failed"} :
            {s \in Inferences : request'[s].generation = g /\ request'[s].state = h} = Sent(g, h)
      BY <1>1, <1>5 DEF Sent
    <2>2. Sent(generation[u], "answered")' = Sent(generation[u], "answered")
      BY <1>1, <2>1 DEF Sent
    <2>3. Sent(generation[u], "failed")' = Sent(generation[u], "failed")
      BY <1>1, <2>1 DEF Sent
    <2>4. Told(u)
      BY <1>1, <1>9 DEF RouterInv
    <2> QED
      BY <1>1, <2>2, <2>3, <2>4 DEF Told
  <1> QED
    BY <1>1, <1>6, <1>7, <1>8, <1>9 DEF RouterInv

\* A promotion, a rollback: nothing is counted, and at most the promoted version
\* has weight.
LEMMA WeighsKeeps ==
  ASSUME RouterInv, NEW v \in Versions, Router!Promote(v) \/ Router!Rollback(v)
  PROVE  RouterInv'
  <1>1. UNCHANGED <<generation, metrics, request, registered>>
    BY DEF Router!Promote, Router!Rollback
  <1>2. Ruling /\ Generations /\ DOMAIN weight = Versions
    BY DEF RouterInv
  <1>3. Ruling' /\ DOMAIN weight' = Versions
    <2>1. CASE Router!Promote(v)
      <3>1. /\ promoted' = v
            /\ weight' = [u \in Versions |-> IF u = v THEN 1 ELSE IF u \in Router!Known THEN 0
                                             ELSE weight[u]]
        BY <2>1 DEF Router!Promote
      <3>2. \A u \in Versions : u # v /\ generation[u] # 0 => weight'[u] = 0
        BY <3>1 DEF Router!Known
      <3> QED
        BY <1>1, <1>2, <3>1, <3>2 DEF Ruling
    <2>2. CASE Router!Rollback(v)
      <3>1. /\ promoted' = IF v = promoted THEN NoVersion ELSE promoted
            /\ weight' = [weight EXCEPT ![v] = 0]
        BY <2>2 DEF Router!Rollback
      <3>2. weight'[v] = 0 /\ \A u \in Versions : u # v => weight'[u] = weight[u]
        BY <1>2, <3>1
      <3> QED
        BY <1>1, <1>2, <3>1, <3>2 DEF Ruling
    <2> QED
      BY <2>1, <2>2
  <1>4. Generations' /\ Sendings' /\ metrics' \in [Versions -> Metrics]
    BY <1>1 DEF RouterInv, Generations, Sendings
  <1>5. ASSUME NEW u \in Versions, generation'[u] # 0 PROVE Told(u)'
    <2>1. Told(u)
      BY <1>1, <1>5 DEF RouterInv
    <2>2. /\ Sent(generation[u], "answered")' = Sent(generation[u], "answered")
          /\ Sent(generation[u], "failed")' = Sent(generation[u], "failed")
      BY <1>1 DEF Sent
    <2> QED
      BY <1>1, <2>1, <2>2 DEF Told
  <1> QED
    BY <1>3, <1>4, <1>5 DEF RouterInv
\* A request ends and is counted, if the generation it was sent to is there still.
LEMMA EndsKeeps ==
  ASSUME IsFiniteSet(Inferences), RouterInv, NEW r \in Inferences,
         NEW how \in {"answered", "failed", "cancelled"}, Router!Ends(r, how)
  PROVE  RouterInv'
  <1> DEFINE v == request[r].version
             g == request[r].generation
  <1>1. /\ request[r].state = "waiting" /\ request' = [request EXCEPT ![r].state = how]
        /\ metrics' = Router!Counted(v, g, how)
        /\ UNCHANGED <<weight, generation, registered, promoted>>
    BY DEF Router!Ends
  <1>2. Generations /\ Sendings /\ Ruling /\ metrics \in [Versions -> Metrics]
    BY DEF RouterInv
  <1>3. v \in Versions /\ metrics[v] \in Metrics
    BY <1>1, <1>2 DEF Sendings
  <1>4. /\ request'[r] = [request[r] EXCEPT !.state = how]
        /\ \A s \in Inferences : s # r => request'[s] = request[s]
        /\ \A s \in Inferences : request'[s].generation = request[s].generation
        /\ \A s \in Inferences : request'[s].version = request[s].version
        /\ \A s \in Inferences : request'[s].ruled = request[s].ruled
        /\ request'[r].state = how
    BY <1>1, <1>2 DEF Sendings
  <1>5. Sendings'
    <2>1. request' \in [Inferences -> [state : {"idle", "waiting", "answered", "failed", "cancelled"},
                                     version : Versions \cup {NoVersion}, generation : 0..registered,
                                     ruled : Versions \cup {NoVersion}]]
      BY <1>1, <1>2 DEF Sendings
    <2>2. ASSUME NEW s \in Inferences
          PROVE  /\ request'[s].state = "idle" => request'[s].generation = 0
                 /\ request'[s].state = "waiting" => request'[s].version \in Versions
      BY <1>2, <1>4 DEF Sendings
    <2>3. ASSUME NEW s \in Inferences, NEW u \in Versions, generation[u] # 0,
                 request'[s].generation = generation[u]
          PROVE  request'[s].version = u
      BY <1>2, <1>4, <2>3 DEF Sendings
    <2> QED
      BY <1>1, <2>1, <2>2, <2>3 DEF Sendings
  <1>6. Ruling'
    BY <1>1, <1>2, <1>4 DEF Ruling
  <1>7. Generations' /\ DOMAIN weight' = Versions
    BY <1>1 DEF RouterInv, Generations
  <1> DEFINE counts == how # "cancelled" /\ g = generation[v]
             more == [request_count |-> metrics[v].request_count + 1,
                      error_count |-> IF how = "failed" THEN metrics[v].error_count + 1
                                      ELSE metrics[v].error_count]
  <1>8. metrics' = IF counts THEN [metrics EXCEPT ![v] = more] ELSE metrics
    BY <1>1 DEF Router!Counted
  <1>9. more \in Metrics
    BY <1>3 DEF Metrics
  <1>10. /\ metrics' \in [Versions -> Metrics]
         /\ counts => metrics'[v] = more
         /\ \A u \in Versions : u # v \/ ~counts => metrics'[u] = metrics[u]
    BY <1>2, <1>3, <1>8, <1>9
  <1>11. ASSUME NEW u \in Versions, generation'[u] # 0 PROVE Told(u)'
    <2> DEFINE answered == Sent(generation[u], "answered")
               failed == Sent(generation[u], "failed")
               of == request[r].generation = generation[u]
    <2>1. Told(u) /\ generation'[u] = generation[u] /\ generation[u] # 0
      BY <1>1, <1>11 DEF RouterInv
    <2>2. /\ Sent(generation[u], "answered")'
               = IF of /\ how = "answered" THEN answered \cup {r} ELSE answered
          /\ Sent(generation[u], "failed")'
               = IF of /\ how = "failed" THEN failed \cup {r} ELSE failed
          /\ r \notin answered /\ r \notin failed
      BY <1>1, <1>4, <2>1 DEF Sent
    <2>3. IsFiniteSet(failed) /\ IsFiniteSet(answered \cup failed)
      <3>1. failed \subseteq Inferences /\ answered \cup failed \subseteq Inferences
        BY DEF Sent
      <3> QED
        BY <3>1, FS_Subset
    <2>4. of => u = v /\ g = generation[v]
      BY <1>2, <2>1 DEF Sendings
    <2>5. u = v /\ g = generation[v] => of
      OBVIOUS
    <2> HIDE DEF answered, failed
    <2>6. /\ Cardinality(failed \cup {r}) = Cardinality(failed) + 1
          /\ Cardinality((answered \cup failed) \cup {r}) = Cardinality(answered \cup failed) + 1
          /\ Cardinality(failed) \in Nat /\ Cardinality(answered \cup failed) \in Nat
      BY <2>2, <2>3, FS_AddElement, FS_CardinalityType
    <2>7. metrics[u] = [request_count |-> Cardinality(answered \cup failed),
                        error_count |-> Cardinality(failed)]
      BY <2>1 DEF Told, answered, failed
    <2>8. CASE counts /\ of
      <3>1. metrics'[u] = [request_count |-> Cardinality(answered \cup failed) + 1,
                           error_count |-> IF how = "failed" THEN Cardinality(failed) + 1
                                           ELSE Cardinality(failed)]
        <4>1. u = v /\ metrics'[v] = more
          BY <1>10, <2>4, <2>8
        <4>2. metrics[v].request_count = Cardinality(answered \cup failed)
              /\ metrics[v].error_count = Cardinality(failed)
          BY ONLY <2>7, <4>1
        <4> QED
          BY ONLY <4>1, <4>2
      <3>2. CASE how = "answered"
        <4>1. /\ Sent(generation[u], "answered")' \cup Sent(generation[u], "failed")'
                   = (answered \cup failed) \cup {r}
              /\ Sent(generation[u], "failed")' = failed
          BY <2>2, <2>8, <3>2
        <4> QED
          BY <2>6, <3>1, <3>2, <4>1 DEF Told
      <3>3. CASE how = "failed"
        <4>1. /\ Sent(generation[u], "answered")' \cup Sent(generation[u], "failed")'
                   = (answered \cup failed) \cup {r}
              /\ Sent(generation[u], "failed")' = failed \cup {r}
          BY <2>2, <2>8, <3>3
        <4> QED
          BY <2>6, <3>1, <3>3, <4>1 DEF Told
      <3> QED
        BY <2>8, <3>2, <3>3
    <2>9. CASE ~(counts /\ of)
      <3>1. metrics'[u] = metrics[u]
        BY <1>10, <2>5, <2>9
      <3>2. /\ Sent(generation[u], "answered")' = answered
            /\ Sent(generation[u], "failed")' = failed
        BY <2>2, <2>4, <2>9
      <3> QED
        BY <2>7, <3>1, <3>2 DEF Told
    <2> QED
      BY <2>8, <2>9
  <1> QED
    BY <1>5, <1>6, <1>7, <1>10, <1>11 DEF RouterInv

\* A promotion is decided on metrics of the version they are shown for, and while it
\* stands no request goes elsewhere unasked - for any versions, weights and any
\* finite number of requests.
THEOREM TrafficCorrect == RouterSpec => []TrafficTold
  <1>0. IsFiniteSet(Inferences)
    BY LabsAssumption DEF LabsAssumption
  <1>1. Router!RouterInit => RouterInv
    BY <1>0, RouterStarts
  <1>2. RouterInv /\ [Router!RouterNext]_(Router!routerVars) => RouterInv'
    <2> SUFFICES ASSUME RouterInv, [Router!RouterNext]_(Router!routerVars) PROVE RouterInv'
      OBVIOUS
    <2>1. CASE UNCHANGED Router!routerVars
      <3>1. UNCHANGED <<weight, generation, metrics, request, registered, promoted>>
        BY <2>1 DEF Router!routerVars
      <3>2. Generations' /\ Sendings' /\ Ruling' /\ DOMAIN weight' = Versions
            /\ metrics' \in [Versions -> Metrics]
        BY <3>1 DEF RouterInv, Generations, Sendings, Ruling
      <3>3. ASSUME NEW v \in Versions, generation'[v] # 0 PROVE Told(v)'
        <4>1. Told(v)
          BY <3>1, <3>3 DEF RouterInv
        <4>2. /\ Sent(generation[v], "answered")' = Sent(generation[v], "answered")
              /\ Sent(generation[v], "failed")' = Sent(generation[v], "failed")
          BY <3>1 DEF Sent
        <4> QED
          BY <3>1, <4>1, <4>2 DEF Told
      <3> QED
        BY <3>2, <3>3 DEF RouterInv
    <2>2. CASE Router!RouterNext
      BY <1>0, <2>2, RegisterKeeps, InfersKeeps, EndsKeeps, WeighsKeeps DEF Router!RouterNext
    <2> QED
      BY <2>1, <2>2
  <1>3. RouterInv => TrafficTold
    <2>1. \A S : Router!Cardinality(S) = Cardinality(S)
      BY Zenon DEF Router!Cardinality, Cardinality
    <2> QED
      BY <2>1 DEF RouterInv, Ruling, Told, Sent, TrafficTold, Router!TrafficTold, Router!Known
  <1> QED
    BY <1>1, <1>2, <1>3, PTL DEF RouterSpec
-------------------------------------------------------------------------------
(* Tenancy: a request is answered from what its token stood for.             *)

Registry ==
  /\ by_token \in [Tokens -> Tenants \cup {NoTenant}]
  /\ mcp_request = [r \in Callers |-> mcp_request[r]]
  /\ held = [r \in Callers |-> held[r]]

\* A request on its way has a token, which stands for a tenant, and what it stands
\* for now is among what it stood for.
Bears(q, tenants) ==
  /\ q.token \in Tokens
  /\ by_token[q.token] \in tenants
  /\ q.stage \in {"verified", "handling", "handled", "answered"} => NoTenant \notin tenants

\* What the middleware let through and keeps.
LetThrough(q, tenants) ==
  /\ q.method \in Server!TENANT_SCOPED_METHODS => q.tenant \in tenants
  /\ q.method = "tools/call" => q.name \in q.tenant.tools

NotFound == {"Unknown tool"}
ReadOf(name) == IF name \in ServerResources THEN {name} ELSE {"Unknown resource"}

\* A tool answers in the name of a tenant, one that is not there for nobody.
NamedCall(q, tenants) ==
  IF q.name \in ServerTools THEN \E t \in tenants \cap Tenants : q.result = {t.id}
  ELSE q.result = NotFound

Raw(q, tenants) ==
  /\ q.method = "tools/list" => q.result = ServerTools
  /\ q.method = "resources/list" => q.result = ServerResources
  /\ q.method = "tools/call" => NamedCall(q, tenants)
  /\ q.method = "resources/read" => q.result = ReadOf(q.name)

\* The answer is the property's, and is given to somebody.
Answered(q, tenants) ==
  /\ q.method = "tools/list" => \E t \in tenants : q.result \subseteq t.tools
  /\ q.method = "resources/list" => \E t \in tenants : q.result = ServerResources \cap t.resources
  /\ q.method = "tools/call" =>
       IF q.result = NotFound THEN \E t \in tenants : q.name \notin ServerTools \cap t.tools
       ELSE /\ \E t \in tenants : q.name \in ServerTools \cap t.tools
            /\ \E t \in tenants : q.result = {t.id}
  /\ q.method = "resources/read" => q.result = ReadOf(q.name)

Shaped(q) ==
  q = [token |-> q.token, method |-> q.method, name |-> q.name, stage |-> q.stage,
       tenant |-> q.tenant, result |-> q.result]

Stands(q, tenants) ==
  /\ Shaped(q)
  /\ q = Server!Idle \/ Bears(q, tenants)
  /\ q.stage = "handling" => LetThrough(q, tenants)
  /\ q.stage = "handled" => LetThrough(q, tenants) /\ Raw(q, tenants)
  /\ q.stage = "answered" => Answered(q, tenants)

TenancyInv == Registry /\ \A r \in Callers : Stands(mcp_request[r], held[r])

Advanced(q, next, stage, result) == next = [q EXCEPT !.stage = stage, !.result = result]

KeptFor(q, next, stage, tenant) == next = [q EXCEPT !.stage = stage, !.tenant = tenant]

\* A request that moves on is one: its stage and its result change, ...
LEMMA AnsweredShape ==
  ASSUME NEW q, Shaped(q), NEW stage, NEW result, NEW next,
         Advanced(q, next, stage, result)
  PROVE  /\ Shaped(next)
         /\ next.token = q.token /\ next.method = q.method /\ next.name = q.name
         /\ next.stage = stage /\ next.tenant = q.tenant /\ next.result = result
  <1> DEFINE k == q.token
             m == q.method
             n == q.name
             s == q.stage
             t == q.tenant
             e == q.result
  <1>1. q = [token |-> k, method |-> m, name |-> n, stage |-> s, tenant |-> t, result |-> e]
    BY DEF Shaped
  <1>2. k = q.token /\ m = q.method /\ n = q.name /\ t = q.tenant
    OBVIOUS
  <1> HIDE DEF k, m, n, s, t, e
  <1>3. next = [token |-> k, method |-> m, name |-> n, stage |-> stage, tenant |-> t,
                result |-> result]
    BY <1>1 DEF Advanced
  <1> QED
    BY <1>2, <1>3 DEF Shaped

\* ... or its stage and its tenant.
LEMMA KeptShape ==
  ASSUME NEW q, Shaped(q), NEW stage, NEW tenant, NEW next,
         KeptFor(q, next, stage, tenant)
  PROVE  /\ Shaped(next)
         /\ next.token = q.token /\ next.method = q.method /\ next.name = q.name
         /\ next.stage = stage /\ next.tenant = tenant /\ next.result = q.result
  <1> DEFINE k == q.token
             m == q.method
             n == q.name
             s == q.stage
             t == q.tenant
             e == q.result
  <1>1. q = [token |-> k, method |-> m, name |-> n, stage |-> s, tenant |-> t, result |-> e]
    BY DEF Shaped
  <1>2. k = q.token /\ m = q.method /\ n = q.name /\ e = q.result
    OBVIOUS
  <1> HIDE DEF k, m, n, s, t, e
  <1>3. next = [token |-> k, method |-> m, name |-> n, stage |-> stage, tenant |-> tenant,
                result |-> e]
    BY <1>1 DEF KeptFor
  <1> QED
    BY <1>2, <1>3 DEF Shaped

\* What a request stood for once it stood for ever.
LEMMA MoreTenants ==
  ASSUME NEW q, NEW tenants, NEW more, tenants \subseteq more
  PROVE  /\ LetThrough(q, tenants) => LetThrough(q, more)
         /\ Raw(q, tenants) => Raw(q, more)
         /\ Answered(q, tenants) => Answered(q, more)
  <1>1. LetThrough(q, tenants) => LetThrough(q, more)
    BY DEF LetThrough
  <1>2. Raw(q, tenants) => Raw(q, more)
    BY DEF Raw, NamedCall
  <1>3. Answered(q, tenants) => Answered(q, more)
    BY DEF Answered
  <1> QED
    BY <1>1, <1>2, <1>3

\* Nobody has asked and no token is registered at first.
LEMMA TenancyStarts == ASSUME Server!TenancyInit PROVE TenancyInv
  <1>1. /\ by_token = [t \in Tokens |-> NoTenant]
        /\ mcp_request = [r \in Callers |-> Server!Idle] /\ held = [r \in Callers |-> {}]
    BY DEF Server!TenancyInit
  <1>2. Stands(Server!Idle, {})
    BY DEF Stands, Shaped, Server!Idle
  <1> QED
    BY <1>1, <1>2 DEF TenancyInv, Registry

\* A step of one request leaves the others where they stand.
LEMMA OneRequest ==
  ASSUME TenancyInv, NEW r \in Callers, NEW q, NEW tenants, Stands(q, tenants),
         mcp_request' = [mcp_request EXCEPT ![r] = q], held' = [held EXCEPT ![r] = tenants],
         UNCHANGED by_token
  PROVE  TenancyInv'
  <1>1. /\ Registry' /\ mcp_request'[r] = q /\ held'[r] = tenants
        /\ \A s \in Callers : s # r => mcp_request'[s] = mcp_request[s] /\ held'[s] = held[s]
    BY DEF TenancyInv, Registry
  <1>2. ASSUME NEW p, NEW some, Stands(p, some) PROVE Stands(p, some)'
    BY <1>2 DEF Stands, Bears
  <1>3. ASSUME NEW s \in Callers PROVE Stands(mcp_request[s], held[s])'
    <2>1. Stands(mcp_request'[s], held'[s])
      BY <1>1 DEF TenancyInv
    <2>2. ASSUME NEW p, NEW some, p = mcp_request'[s], some = held'[s] PROVE Stands(p, some)'
      BY <1>2, <2>1, <2>2
    <2> QED
      BY <2>1 DEF Stands, Bears
  <1> QED
    BY <1>1, <1>3 DEF TenancyInv
\* A token is registered, or registered anew in the middle of a request: what it
\* stood for before stays among what the request may be answered from.
LEMMA RegistersKeeps ==
  ASSUME TenancyInv, NoTenant \notin Tenants, NEW token \in Tokens, NEW tenant \in Tenants,
         NEW resource, Server!Register(token, tenant, resource)
  PROVE  TenancyInv'
  <1>1. /\ by_token' = [by_token EXCEPT ![token] = tenant] /\ UNCHANGED mcp_request
        /\ held' = [r \in Callers |-> IF mcp_request[r].token = token THEN held[r] \cup {tenant}
                                       ELSE held[r]]
    BY DEF Server!Register
  <1>2. Registry
    BY DEF TenancyInv
  <1>3. Registry'
    BY <1>1, <1>2 DEF Registry
  <1>4. ASSUME NEW r \in Callers PROVE Stands(mcp_request[r], held[r])'
    <2> DEFINE q == mcp_request[r]
    <2>1. Stands(q, held[r]) /\ held[r] \subseteq held'[r] /\ mcp_request'[r] = q
      BY <1>1 DEF TenancyInv
    <2>2. CASE q = Server!Idle
      BY <2>1, <2>2 DEF Stands, Server!Idle, Shaped
    <2>3. CASE Bears(q, held[r])
      <3>1. by_token'[q.token] \in held'[r]
        <4>1. CASE q.token = token
          BY <1>1, <1>2, <4>1 DEF Registry
        <4>2. CASE q.token # token
          BY <1>1, <1>2, <2>1, <2>3, <4>2 DEF Registry, Bears
        <4> QED
          BY <4>1, <4>2
      <3>2. q.stage \in {"verified", "handling", "handled", "answered"}
              => NoTenant \notin held'[r]
        BY <1>1, <1>2, <2>3 DEF Registry, Bears
      <3>3. Bears(mcp_request[r], held[r])'
        BY <2>1, <2>3, <3>1, <3>2 DEF Bears
      <3>4. /\ q.stage = "handling" => LetThrough(q, held'[r])
            /\ q.stage = "handled" => LetThrough(q, held'[r]) /\ Raw(q, held'[r])
            /\ q.stage = "answered" => Answered(q, held'[r])
        <4>1. ASSUME NEW some, some = held'[r]
              PROVE  /\ q.stage = "handling" => LetThrough(q, some)
                     /\ q.stage = "handled" => LetThrough(q, some) /\ Raw(q, some)
                     /\ q.stage = "answered" => Answered(q, some)
          BY <2>1, <4>1, MoreTenants DEF Stands
        <4> QED
          BY <4>1
      <3>5. Shaped(q)
        BY <2>1 DEF Stands
      <3> HIDE DEF q
      <3> QED
        BY <2>1, <3>3, <3>4, <3>5 DEF Stands, Shaped, LetThrough, Raw, NamedCall, Answered
    <2> QED
      BY <2>1, <2>2, <2>3 DEF Stands
  <1> QED
    BY <1>3, <1>4 DEF TenancyInv

\* A request arrives with a token.
LEMMA ArrivesKeeps ==
  ASSUME TenancyInv, NEW r \in Callers, NEW token \in Tokens, NEW method, NEW name,
         Server!Arrives(r, token, method, name)
  PROVE  TenancyInv'
  <1> DEFINE q == [token |-> token, method |-> method, name |-> name, tenant |-> NoTenant,
                   result |-> {},
                   stage |-> IF Server!Verified(token) THEN "verified" ELSE "rejected"]
  <1>1. /\ mcp_request' = [mcp_request EXCEPT ![r] = q]
        /\ held' = [held EXCEPT ![r] = {by_token[token]}] /\ UNCHANGED by_token
    BY DEF Server!Arrives
  <1>2. Server!Verified(token) => by_token[token] # NoTenant
    BY DEF Server!Verified
  <1>3. Stands(q, {by_token[token]})
    BY <1>2 DEF Stands, Shaped, Bears
  <1> HIDE DEF q
  <1> QED
    BY <1>1, <1>3, OneRequest

\* A request moves on.
LEMMA MovesKeeps ==
  ASSUME TenancyInv, NEW r \in Callers, NEW next, Stands(next, held[r]), Server!Moves(r, next)
  PROVE  TenancyInv'
  <1>1. /\ mcp_request' = [mcp_request EXCEPT ![r] = next]
        /\ UNCHANGED <<by_token, held>> /\ held' = [held EXCEPT ![r] = held[r]]
    BY DEF Server!Moves, TenancyInv, Registry
  <1> QED
    BY <1>1, OneRequest

\* The middleware lets it through for the tenant it keeps, or answers itself.
LEMMA ScopesKeeps ==
  ASSUME TenancyInv, NEW r \in Callers, Server!Scopes(r) PROVE TenancyInv'
  <1> DEFINE q == mcp_request[r]
             tenant == by_token[q.token]
  <1>1. /\ q.stage = "verified" /\ Stands(q, held[r])
        /\ Server!Moves(r, IF q.method \notin Server!TENANT_SCOPED_METHODS
                           THEN [q EXCEPT !.stage = "handling"]
                           ELSE IF tenant = NoTenant THEN [q EXCEPT !.stage = "rejected"]
                           ELSE IF Server!Refused(q, tenant)
                           THEN [q EXCEPT !.stage = "answered", !.result = NotFound]
                           ELSE [q EXCEPT !.stage = "handling", !.tenant = tenant])
    BY DEF Server!Scopes, TenancyInv, NotFound
  <1>2. /\ Shaped(q) /\ Bears(q, held[r])
    BY <1>1 DEF Stands, Server!Idle
  <1>3. tenant \in held[r] /\ tenant # NoTenant /\ NoTenant \notin held[r]
    BY <1>1, <1>2 DEF Bears
  <1>4. CASE q.method \notin Server!TENANT_SCOPED_METHODS
    <2>1. Stands([q EXCEPT !.stage = "handling"], held[r])
      BY <1>2, <1>3, <1>4 DEF Stands, Shaped, Bears, LetThrough, Server!TENANT_SCOPED_METHODS
    <2> QED
      BY <1>1, <1>4, <2>1, MovesKeeps
  <1>5. CASE q.method \in Server!TENANT_SCOPED_METHODS /\ Server!Refused(q, tenant)
    <2>1. q.method = "tools/call" /\ q.name \notin tenant.tools
      BY <1>5 DEF Server!Refused
    <2> DEFINE next == [q EXCEPT !.stage = "answered", !.result = NotFound]
    <2>2. /\ Shaped(next) /\ next.token = q.token /\ next.method = q.method
          /\ next.name = q.name /\ next.stage = "answered" /\ next.result = NotFound
      <3>1. Advanced(q, next, "answered", NotFound) /\ Shaped(q)
        BY <1>2 DEF Advanced
      <3> HIDE DEF next, q
      <3> QED
        BY <3>1, AnsweredShape
    <2>3. Server!Moves(r, next)
      BY <1>1, <1>3, <1>5
    <2> HIDE DEF next
    <2>4. Bears(next, held[r]) /\ Answered(next, held[r])
      BY <1>2, <1>3, <2>1, <2>2 DEF Bears, Answered
    <2> QED
      BY <2>2, <2>3, <2>4, MovesKeeps DEF Stands
  <1>6. CASE q.method \in Server!TENANT_SCOPED_METHODS /\ ~Server!Refused(q, tenant)
    <2>1. q.method = "tools/call" => q.name \in tenant.tools
      BY <1>6 DEF Server!Refused
    <2> DEFINE next == [q EXCEPT !.stage = "handling", !.tenant = tenant]
    <2>2. /\ Shaped(next) /\ next.token = q.token /\ next.method = q.method
          /\ next.name = q.name /\ next.stage = "handling" /\ next.tenant = tenant
      <3>1. KeptFor(q, next, "handling", tenant) /\ Shaped(q)
        BY <1>2 DEF KeptFor
      <3> HIDE DEF next, q, tenant
      <3> QED
        BY <3>1, KeptShape
    <2>3. Server!Moves(r, next)
      BY <1>1, <1>3, <1>6
    <2> HIDE DEF next
    <2>4. Bears(next, held[r]) /\ LetThrough(next, held[r])
      BY <1>2, <1>3, <2>1, <2>2 DEF Bears, LetThrough
    <2> QED
      BY <2>2, <2>3, <2>4, MovesKeeps DEF Stands
  <1> QED
    BY <1>4, <1>5, <1>6

\* The handler answers in the name of whom the token stands for by then.
LEMMA HandlesKeeps ==
  ASSUME TenancyInv, NEW r \in Callers, Server!Handles(r) PROVE TenancyInv'
  <1> DEFINE q == mcp_request[r]
             answer == Server!Answer(q)
  <1>1. /\ q.stage = "handling" /\ Stands(q, held[r])
        /\ Server!Moves(r, [q EXCEPT !.stage = "handled", !.result = answer])
    BY DEF Server!Handles, TenancyInv
  <1>2. Shaped(q) /\ Bears(q, held[r]) /\ LetThrough(q, held[r])
    BY <1>1 DEF Stands, Server!Idle
  <1>3. /\ q.method = "tools/list" => answer = ServerTools
        /\ q.method = "resources/list" => answer = ServerResources
        /\ q.method = "tools/call" => IF q.name \in ServerTools
                                      THEN \E t \in held[r] \cap Tenants : answer = {t.id}
                                      ELSE answer = NotFound
        /\ q.method = "resources/read" => answer = ReadOf(q.name)
    <2>1. by_token[q.token] \in held[r] \cap Tenants
      BY <1>1, <1>2 DEF Bears, TenancyInv, Registry
    <2>2. CASE q.method = "tools/list"
      BY <2>2 DEF Server!Answer
    <2>3. CASE q.method = "resources/list"
      BY <2>3 DEF Server!Answer
    <2>4. CASE q.method = "tools/call"
      BY <2>1, <2>4 DEF Server!Answer, NotFound
    <2>5. CASE q.method = "resources/read"
      BY <2>5 DEF Server!Answer, ReadOf
    <2> QED
      BY <2>2, <2>3, <2>4, <2>5
  <1> HIDE DEF answer
  <1> DEFINE next == [q EXCEPT !.stage = "handled", !.result = answer]
  <1>4. /\ Shaped(next) /\ next.token = q.token /\ next.method = q.method /\ next.name = q.name
        /\ next.stage = "handled" /\ next.tenant = q.tenant /\ next.result = answer
    <2>1. Advanced(q, next, "handled", answer) /\ Shaped(q)
      BY <1>2 DEF Advanced
    <2> HIDE DEF next, q
    <2> QED
      BY <2>1, AnsweredShape
  <1>5. Server!Moves(r, next)
    BY <1>1
  <1> HIDE DEF next
  <1>6. Bears(next, held[r]) /\ LetThrough(next, held[r]) /\ Raw(next, held[r])
    BY <1>1, <1>2, <1>3, <1>4 DEF Bears, LetThrough, Raw, NamedCall
  <1> QED
    BY <1>4, <1>5, <1>6, MovesKeeps DEF Stands

\* A listing is filtered for the tenant that was kept.
LEMMA FiltersKeeps ==
  ASSUME TenancyInv, "Unknown tool" \notin Server!TenantIds, NEW r \in Callers,
         Server!Filters(r)
  PROVE  TenancyInv'
  <1> DEFINE q == mcp_request[r]
             answer == Server!Filtered(q)
  <1>1. /\ q.stage = "handled" /\ Stands(q, held[r])
        /\ Server!Moves(r, [q EXCEPT !.stage = "answered", !.result = answer])
    BY DEF Server!Filters, TenancyInv
  <1>2. Shaped(q) /\ Bears(q, held[r]) /\ LetThrough(q, held[r]) /\ Raw(q, held[r])
    <2>1. Server!Idle.stage = "idle"
      BY DEF Server!Idle
    <2>2. q.stage = "handled"
      BY <1>1
    <2> HIDE DEF q
    <2>3. q # Server!Idle
      BY <2>1, <2>2
    <2> QED
      BY <1>1, <2>2, <2>3 DEF Stands
  <1> HIDE DEF answer
  <1> DEFINE next == [q EXCEPT !.stage = "answered", !.result = answer]
  <1>3. /\ Shaped(next) /\ Bears(next, held[r]) /\ next.stage = "answered"
        /\ next.method = q.method /\ next.name = q.name /\ next.result = answer
    <2>1. /\ Shaped(next) /\ next.token = q.token /\ next.stage = "answered"
          /\ next.method = q.method /\ next.name = q.name /\ next.result = answer
      <3>1. Advanced(q, next, "answered", answer) /\ Shaped(q)
        BY <1>2 DEF Advanced
      <3> HIDE DEF next, q
      <3> QED
        BY ONLY <3>1, AnsweredShape
    <2> HIDE DEF next
    <2> QED
      BY <1>1, <1>2, <2>1 DEF Bears
  <1>4. Answered(next, held[r])
    <2>1. q.method \in {"tools/list", "tools/call", "resources/list"} => q.tenant \in held[r]
      BY <1>2 DEF LetThrough, Server!TENANT_SCOPED_METHODS
    <2>2. CASE q.method = "tools/list"
      <3>1. answer = ServerTools \cap q.tenant.tools
        BY <1>2, <2>2 DEF answer, Server!Filtered, Raw
      <3> QED
        BY <1>3, <2>1, <2>2, <3>1 DEF Answered
    <2>3. CASE q.method = "resources/list"
      <3>1. answer = ServerResources \cap q.tenant.resources
        BY <1>2, <2>3 DEF answer, Server!Filtered, Raw
      <3> QED
        BY <1>3, <2>1, <2>3, <3>1 DEF Answered
    <2>4. CASE q.method = "tools/call"
      <3>1. /\ answer = q.result /\ NamedCall(q, held[r])
            /\ q.tenant \in held[r] /\ q.name \in q.tenant.tools
        BY <1>2, <2>1, <2>4 DEF answer, Server!Filtered, Raw, LetThrough
      <3>2. CASE q.name \in ServerTools
        <4>1. PICK t \in held[r] \cap Tenants : answer = {t.id}
          BY <3>1, <3>2 DEF NamedCall
        <4>2. t.id # "Unknown tool"
          BY <4>1 DEF Server!TenantIds
        <4>3. answer # NotFound
          BY <4>1, <4>2 DEF NotFound
        <4> QED
          BY <1>3, <2>4, <3>1, <3>2, <4>1, <4>3 DEF Answered
      <3>3. CASE q.name \notin ServerTools
        <4>1. answer = NotFound
          BY <3>1, <3>3 DEF NamedCall
        <4> QED
          BY <1>3, <2>4, <3>1, <3>3, <4>1 DEF Answered
      <3> QED
        BY <3>2, <3>3
    <2>5. CASE q.method = "resources/read"
      <3>1. answer = q.result /\ q.result = ReadOf(q.name)
        BY <1>2, <2>5 DEF answer, Server!Filtered, Raw
      <3> QED
        BY <1>3, <2>5, <3>1 DEF Answered
    <2>6. CASE q.method \notin {"tools/list", "tools/call", "resources/list", "resources/read"}
      BY <1>3, <2>6 DEF Answered
    <2> QED
      BY <2>2, <2>3, <2>4, <2>5, <2>6
  <1>5. Stands(next, held[r])
    BY <1>3, <1>4 DEF Stands
  <1> QED
    BY <1>1, <1>5, MovesKeeps

\* Whatever is registered while a request is on its way, it is answered from the
\* grants and in the name of tenants its token stood for meanwhile - for any tokens,
\* tenants, requests and registrations; the absence of a tenant is not one, and no
\* tenant is called like the error.
THEOREM IsolationCorrect == ServerSpec => []AnsweredForItsTenant
  <1>0. NoTenant \notin Tenants /\ "Unknown tool" \notin Server!TenantIds
    BY LabsAssumption DEF LabsAssumption, Server!TenantIds
  <1>1. Server!TenancyInit => TenancyInv
    BY <1>0, TenancyStarts
  <1>2. TenancyInv /\ [Server!TenancyNext]_(Server!tenancyVars) => TenancyInv'
    <2> SUFFICES ASSUME TenancyInv, [Server!TenancyNext]_(Server!tenancyVars) PROVE TenancyInv'
      OBVIOUS
    <2>1. CASE UNCHANGED Server!tenancyVars
      <3>1. UNCHANGED <<by_token, mcp_request, held>>
        BY <2>1 DEF Server!tenancyVars
      <3>2. Registry'
        BY <3>1 DEF TenancyInv, Registry
      <3>3. ASSUME NEW r \in Callers PROVE Stands(mcp_request[r], held[r])'
        <4>1. Stands(mcp_request[r], held[r]) /\ UNCHANGED <<by_token, mcp_request[r], held[r]>>
          BY <3>1 DEF TenancyInv
        <4> QED
          BY <4>1 DEF Stands, Shaped, Bears, LetThrough, Raw, NamedCall, Answered
      <3> QED
        BY <3>2, <3>3 DEF TenancyInv
    <2>2. CASE Server!TenancyNext
      BY <1>0, <2>2, RegistersKeeps, ArrivesKeeps, ScopesKeeps, HandlesKeeps, FiltersKeeps
         DEF Server!TenancyNext
    <2> QED
      BY <2>1, <2>2
  <1>3. TenancyInv => AnsweredForItsTenant
    <2>1. ASSUME TenancyInv, NEW r \in Callers, mcp_request[r].stage = "answered"
          PROVE  /\ Answered(mcp_request[r], held[r])
                 /\ held[r] # {} /\ NoTenant \notin held[r]
      BY <2>1 DEF TenancyInv, Stands, Bears, Server!Idle
    <2> QED
      BY <2>1 DEF AnsweredForItsTenant, Server!AnsweredForItsTenant, Answered, NotFound, ReadOf
  <1> QED
    BY <1>1, <1>2, <1>3, PTL DEF ServerSpec
-------------------------------------------------------------------------------
(* Induction over the natural numbers, for sets; and what it says of a       *)
(* function that is defined along the parents of something.                  *)

\* Numbers have a least one.
LEMMA LeastNumber ==
  ASSUME NEW S, S \subseteq Nat, S # {}
  PROVE  \E m \in S : \A n \in S : m <= n
  <1> DEFINE Below == OpToRel(<, Nat)
  <1>1. IsWellFoundedOn(Below, Nat)
    BY NatLessThanWellFounded
  <1>2. \A x, y \in Nat : x < y => <<x, y>> \in Below
    BY DEF OpToRel
  <1> HIDE DEF Below
  <1>3. PICK m \in S : \A n \in S : <<n, m>> \notin Below
    BY <1>1, WFMin
  <1>4. \A n \in S : ~(n < m)
    BY <1>2, <1>3
  <1> QED
    BY <1>3, <1>4

\* A set that has 0 and the successor of whatever it has has every number.
LEMMA EveryNumber ==
  ASSUME NEW S, 0 \in S, \A n \in Nat : n \in S => n + 1 \in S
  PROVE  Nat \subseteq S
  <1> SUFFICES ASSUME Nat \ S # {} PROVE FALSE
    OBVIOUS
  <1>1. PICK m \in Nat \ S : \A n \in Nat \ S : m <= n
    BY LeastNumber
  <1>2. m # 0 /\ m - 1 \in Nat /\ m - 1 < m /\ (m - 1) + 1 = m
    BY <1>1
  <1>3. m - 1 \in S
    BY <1>1, <1>2
  <1> QED
    BY <1>1, <1>2, <1>3

\* A function that is top[i] where i has no parent, and what it is at the parent elsewhere.
Follows(g, n, up, top) == g = [i \in 1..n |-> IF up[i] = 0 THEN top[i] ELSE g[up[i]]]

\* There is one, if parents come first.
LEMMA Unfolds ==
  ASSUME NEW n \in Nat, NEW up, NEW top, \A i \in 1..n : up[i] \in 0..(i - 1)
  PROVE  \E g : Follows(g, n, up, top)
  <1> DEFINE S == {k \in Nat : k <= n =>
                     \E g : g = [i \in 1..k |-> IF up[i] = 0 THEN top[i] ELSE g[up[i]]]}
  <1>1. 0 \in S
    <2> DEFINE g == [i \in 1..0 |-> top[i]]
    <2>1. g = [i \in 1..0 |-> IF up[i] = 0 THEN top[i] ELSE g[up[i]]]
      OBVIOUS
    <2> QED
      BY <2>1
  <1>2. ASSUME NEW k \in Nat, k \in S PROVE k + 1 \in S
    <2> SUFFICES ASSUME k + 1 <= n
                 PROVE  \E h : h = [i \in 1..(k + 1) |-> IF up[i] = 0 THEN top[i] ELSE h[up[i]]]
      OBVIOUS
    <2>1. PICK g : g = [i \in 1..k |-> IF up[i] = 0 THEN top[i] ELSE g[up[i]]]
      BY <1>2
    <2> DEFINE h == [i \in 1..(k + 1) |-> IF up[i] = 0 THEN top[i] ELSE g[up[i]]]
    <2>2. ASSUME NEW i \in 1..(k + 1), up[i] # 0 PROVE g[up[i]] = h[up[i]]
      <3>1. up[i] \in 1..k
        BY <2>2
      <3>2. g[up[i]] = IF up[up[i]] = 0 THEN top[up[i]] ELSE g[up[up[i]]]
        BY <2>1, <3>1
      <3> QED
        BY <3>1, <3>2
    <2>3. h = [i \in 1..(k + 1) |-> IF up[i] = 0 THEN top[i] ELSE h[up[i]]]
      BY <2>2
    <2> QED
      BY <2>3
  <1> HIDE DEF S
  <1>3. n \in S
    BY <1>1, <1>2, EveryNumber
  <1> QED
    BY <1>3 DEF S, Follows
-------------------------------------------------------------------------------
(* Identity: what an exchange hands on is less than what it was given, so    *)
(* by induction along the parents it is less than what the user had.         *)

Claims == [sub : Subjects, aud : Servers \cup {Front}, scope : SUBSET TokenScopes,
           may_act : SUBSET Agents, act : Agents \cup {Nobody}, exp : Nat, parent : Nat]

\* What a token has of the one it was exchanged for.
Narrows(i) ==
  LET token == minted[i]
      above == minted[token.parent]
  IN  /\ token.parent \in 0..(i - 1)
      /\ token.parent # 0 =>
           /\ token.sub = above.sub /\ token.scope \subseteq above.scope
           /\ token.act \in above.may_act \cap Agents
           /\ token.exp <= id_now + Lifetime

BrokerInv ==
  /\ id_now \in Nat /\ minted \in Seq(Claims)
  /\ \A i \in DOMAIN minted : Narrows(i)

\* No token has been minted.
LEMMA BrokerStarts == ASSUME Broker!IdentityInit PROVE BrokerInv
  BY DEF Broker!IdentityInit, BrokerInv

\* One more token, narrower than its parent.
LEMMA MintsKeeps ==
  ASSUME BrokerInv, NEW claims \in Claims, Broker!Mints(claims),
         claims.parent \in 0..Len(minted),
         claims.parent # 0 =>
           /\ claims.sub = minted[claims.parent].sub
           /\ claims.scope \subseteq minted[claims.parent].scope
           /\ claims.act \in minted[claims.parent].may_act \cap Agents
           /\ claims.exp <= id_now + Lifetime
  PROVE  BrokerInv'
  <1>1. minted' = Append(minted, claims) /\ id_now' = id_now
    BY DEF Broker!Mints
  <1>2. /\ minted \in Seq(Claims) /\ minted' \in Seq(Claims) /\ id_now \in Nat
        /\ Len(minted) \in Nat /\ DOMAIN minted = 1..Len(minted)
        /\ DOMAIN minted' = 1..(Len(minted) + 1)
        /\ \A i \in 1..Len(minted) : minted'[i] = minted[i]
        /\ minted'[Len(minted) + 1] = claims
    BY <1>1 DEF BrokerInv
  <1>3. ASSUME NEW i \in DOMAIN minted' PROVE Narrows(i)'
    <2>1. CASE i \in 1..Len(minted)
      <3>1. Narrows(i) /\ minted'[i] = minted[i]
        BY <1>2, <2>1 DEF BrokerInv
      <3>2. minted[i].parent # 0 => minted'[minted[i].parent] = minted[minted[i].parent]
        <4>1. minted[i].parent \in 0..(i - 1)
          BY <3>1 DEF Narrows
        <4> QED
          BY <1>2, <2>1, <4>1
      <3> QED
        BY <1>1, <3>1, <3>2 DEF Narrows
    <2>2. CASE i = Len(minted) + 1
      <3>1. claims.parent # 0 => minted'[claims.parent] = minted[claims.parent]
        BY <1>2
      <3> QED
        BY <1>1, <1>2, <2>2, <3>1 DEF Narrows
    <2> QED
      BY <1>2, <2>1, <2>2
  <1> QED
    BY <1>1, <1>2, <1>3 DEF BrokerInv

\* A user signs in.
LEMMA IssueKeeps ==
  ASSUME BrokerInv, UserLifetime \in Nat, NEW subject \in Subjects, NEW scopes \in SUBSET TokenScopes,
         NEW may_act \in SUBSET Agents, Broker!IssueUserToken(subject, scopes, may_act)
  PROVE  BrokerInv'
  <1> DEFINE claims == [sub |-> subject, aud |-> Front, scope |-> scopes, may_act |-> may_act,
                        act |-> Nobody, exp |-> id_now + UserLifetime, parent |-> 0]
  <1>1. claims \in Claims /\ Broker!Mints(claims) /\ claims.parent = 0
    BY DEF BrokerInv, Claims, Broker!IssueUserToken
  <1>2. 0 \in 0..Len(minted)
    BY DEF BrokerInv
  <1> HIDE DEF claims
  <1> QED
    BY <1>1, <1>2, MintsKeeps

\* A token is exchanged, also one that is the result of an exchange.
LEMMA ExchangeKeeps ==
  ASSUME BrokerInv, Lifetime \in Nat, NEW i, NEW at,
         NEW resource \in Servers \cup {Front}, NEW scopes \in SUBSET TokenScopes,
         NEW actor \in Agents, Broker!Exchange(i, at, resource, scopes, actor)
  PROVE  BrokerInv'
  <1> DEFINE claims == [sub |-> minted[i].sub, aud |-> resource, scope |-> scopes,
                        may_act |-> Agents, act |-> actor, exp |-> id_now + Lifetime,
                        parent |-> i]
  <1>1. /\ i \in DOMAIN minted /\ scopes \subseteq minted[i].scope /\ actor \in minted[i].may_act
        /\ Broker!Mints(claims)
    BY DEF Broker!Exchange, Broker!Permits
  <1>2. minted[i] \in Claims /\ i \in 1..Len(minted) /\ Len(minted) \in Nat /\ id_now \in Nat
    BY <1>1 DEF BrokerInv
  <1>3. minted[i].sub \in Subjects
    BY <1>2 DEF Claims
  <1>4. claims \in Claims
    BY <1>2, <1>3 DEF Claims
  <1>5. /\ claims.parent = i /\ claims.sub = minted[i].sub /\ claims.scope = scopes
        /\ claims.act = actor /\ claims.exp = id_now + Lifetime
    OBVIOUS
  <1> HIDE DEF claims
  <1> QED
    BY <1>1, <1>2, <1>4, <1>5, MintsKeeps

\* Time passes.
LEMMA BrokerTickKeeps ==
  ASSUME BrokerInv, Lifetime \in Nat, Broker!Tick PROVE BrokerInv'
  <1>1. id_now' = id_now + 1 /\ minted' = minted /\ id_now \in Nat
    BY DEF Broker!Tick, BrokerInv
  <1>2. ASSUME NEW i \in DOMAIN minted PROVE Narrows(i)'
    <2>1. Narrows(i) /\ minted[i] \in Claims
      BY DEF BrokerInv
    <2>2. minted[i].exp \in Nat
      BY <2>1 DEF Claims
    <2> QED
      BY <1>1, <2>1, <2>2 DEF Narrows
  <1> QED
    BY <1>1, <1>2 DEF BrokerInv
\* Where a token came from, token by token.
LEMMA OriginUnfolds ==
  ASSUME BrokerInv
  PROVE  Broker!Origin = [i \in DOMAIN minted |->
           IF minted[i].parent = 0 THEN i ELSE Broker!Origin[minted[i].parent]]
  <1> DEFINE n == Len(minted)
             up == [i \in 1..n |-> minted[i].parent]
             top == [i \in 1..n |-> i]
  <1>1. n \in Nat /\ DOMAIN minted = 1..n /\ \A i \in 1..n : up[i] \in 0..(i - 1)
    BY DEF BrokerInv, Narrows
  <1>2. \E g : Follows(g, n, up, top)
    <2> HIDE DEF n, up, top
    <2> QED
      BY <1>1, Unfolds
  <1>3. \E g : g = [i \in DOMAIN minted |-> IF minted[i].parent = 0 THEN i
                                            ELSE g[minted[i].parent]]
    <2>1. PICK g : g = [i \in 1..n |-> IF up[i] = 0 THEN top[i] ELSE g[up[i]]]
      BY <1>2 DEF Follows
    <2>2. g = [i \in DOMAIN minted |-> IF minted[i].parent = 0 THEN i ELSE g[minted[i].parent]]
      BY <1>1, <2>1
    <2> QED
      BY <2>2
  <1> QED
    BY <1>3 DEF Broker!Origin

\* And who acted on it first.
LEMMA FirstAgentUnfolds ==
  ASSUME BrokerInv
  PROVE  Broker!FirstAgent = [i \in DOMAIN minted |->
           IF minted[i].parent = 0 THEN Nobody
           ELSE IF minted[minted[i].parent].parent = 0 THEN minted[i].act
           ELSE Broker!FirstAgent[minted[i].parent]]
  <1> DEFINE n == Len(minted)
             ends(i) == minted[i].parent = 0 \/ minted[minted[i].parent].parent = 0
             up == [i \in 1..n |-> IF ends(i) THEN 0 ELSE minted[i].parent]
             top == [i \in 1..n |-> IF minted[i].parent = 0 THEN Nobody ELSE minted[i].act]
  <1>1. n \in Nat /\ DOMAIN minted = 1..n /\ \A i \in 1..n : minted[i].parent \in 0..(i - 1)
    BY DEF BrokerInv, Narrows
  <1>2. \A i \in 1..n : up[i] \in 0..(i - 1)
    BY <1>1
  <1>3. \E g : Follows(g, n, up, top)
    <2> HIDE DEF n, up, top
    <2> QED
      BY <1>1, <1>2, Unfolds
  <1>4. \E g : g = [i \in DOMAIN minted |->
                      IF minted[i].parent = 0 THEN Nobody
                      ELSE IF minted[minted[i].parent].parent = 0 THEN minted[i].act
                      ELSE g[minted[i].parent]]
    <2>1. PICK g : g = [i \in 1..n |-> IF up[i] = 0 THEN top[i] ELSE g[up[i]]]
      BY <1>3 DEF Follows
    <2>2. g = [i \in DOMAIN minted |->
                 IF minted[i].parent = 0 THEN Nobody
                 ELSE IF minted[minted[i].parent].parent = 0 THEN minted[i].act
                 ELSE g[minted[i].parent]]
      BY <1>1, <2>1
    <2> QED
      BY <2>2
  <1> QED
    BY <1>4 DEF Broker!FirstAgent

\* What a token has of the user's it came from.
OfItsUser(i) ==
  LET token == minted[i]
      user == minted[Broker!Origin[i]]
  IN  /\ Broker!Origin[i] \in DOMAIN minted /\ user.parent = 0
      /\ token.sub = user.sub /\ token.scope \subseteq user.scope
      /\ token.parent # 0 => Broker!FirstAgent[i] \in user.may_act

\* Every token has: by induction, since its parent was minted before it.
LEMMA AllOfTheirUsers ==
  ASSUME BrokerInv PROVE \A i \in DOMAIN minted : OfItsUser(i)
  <1>1. Len(minted) \in Nat /\ DOMAIN minted = 1..Len(minted)
    BY DEF BrokerInv
  <1> DEFINE S == {n \in Nat : \A i \in DOMAIN minted : i <= n => OfItsUser(i)}
  <1>2. 0 \in S
    BY <1>1
  <1>3. ASSUME NEW n \in Nat, n \in S PROVE n + 1 \in S
    <2> SUFFICES ASSUME n + 1 \in DOMAIN minted PROVE OfItsUser(n + 1)
      BY <1>1, <1>3
    <2> DEFINE i == n + 1
               above == minted[i].parent
    <2>1. i \in 1..Len(minted) /\ i - 1 = n
      BY <1>1
    <2>2. above \in 0..n /\ Narrows(i)
      BY <1>1, <2>1 DEF BrokerInv, Narrows
    <2>3. CASE above = 0
      <3>1. Broker!Origin[i] = i
        BY <1>1, <2>1, <2>3, OriginUnfolds
      <3> QED
        BY <1>1, <2>1, <2>3, <3>1 DEF OfItsUser
    <2>4. CASE above # 0
      <3>1. above \in DOMAIN minted /\ OfItsUser(above)
        BY <1>1, <1>3, <2>1, <2>2, <2>4
      <3>2. Broker!Origin[i] = Broker!Origin[above]
        BY <1>1, <2>1, <2>4, OriginUnfolds
      <3>3. minted[above].parent # 0 => Broker!FirstAgent[i] = Broker!FirstAgent[above]
        BY <1>1, <2>1, <2>4, FirstAgentUnfolds
      <3>4. minted[above].parent = 0 => /\ Broker!FirstAgent[i] = minted[i].act
                                        /\ Broker!Origin[above] = above
        BY <1>1, <2>1, <2>4, <3>1, OriginUnfolds, FirstAgentUnfolds
      <3>5. /\ minted[i].sub = minted[above].sub /\ minted[i].scope \subseteq minted[above].scope
            /\ minted[i].act \in minted[above].may_act
        BY <2>2, <2>4 DEF Narrows
      <3> HIDE DEF i, above
      <3>6. OfItsUser(i)
        BY <3>1, <3>2, <3>3, <3>4, <3>5 DEF OfItsUser
      <3> QED
        BY <3>6 DEF i
    <2> QED
      BY <2>3, <2>4
  <1> HIDE DEF S
  <1>4. Nat \subseteq S
    BY <1>2, <1>3, EveryNumber
  <1> QED
    BY <1>1, <1>4 DEF S

\* An agent holds no more than the user it speaks for had, was let in by that user, and
\* opens one server at most for as long as its own lifetime - through any number of
\* exchanges, for any users, agents, scopes, servers and lifetimes.
THEOREM DelegationCorrect == BrokerSpec => []DelegationNarrows
  <1>0. Lifetime \in Nat /\ UserLifetime \in Nat
    BY LabsAssumption DEF LabsAssumption
  <1>1. Broker!IdentityInit => BrokerInv
    BY BrokerStarts
  <1>2. BrokerInv /\ [Broker!IdentityNext]_(Broker!identityVars) => BrokerInv'
    <2> SUFFICES ASSUME BrokerInv, [Broker!IdentityNext]_(Broker!identityVars) PROVE BrokerInv'
      OBVIOUS
    <2>1. CASE UNCHANGED Broker!identityVars
      <3>1. UNCHANGED <<id_now, minted>>
        BY <2>1 DEF Broker!identityVars
      <3> QED
        BY <3>1 DEF BrokerInv, Narrows
    <2>2. CASE Broker!IdentityNext
      BY <1>0, <2>2, IssueKeeps, ExchangeKeeps, BrokerTickKeeps DEF Broker!IdentityNext
    <2> QED
      BY <2>1, <2>2
  <1>3. BrokerInv => DelegationNarrows
    <2> SUFFICES ASSUME BrokerInv, NEW i \in DOMAIN minted, minted[i].parent # 0
                 PROVE  LET token == minted[i]
                            user == minted[Broker!Origin[i]]
                            opened == Broker!Measure(token)
                        IN  /\ token.sub = user.sub /\ token.act \in Agents
                            /\ Broker!FirstAgent[i] \in user.may_act
                            /\ \A p \in opened : p[1] = token.aud /\ p[2] \in user.scope
                            /\ opened # {} => id_now < token.exp /\ token.exp <= id_now + Lifetime
      BY DEF DelegationNarrows, Broker!DelegationNarrows
    <2>1. OfItsUser(i)
      BY AllOfTheirUsers
    <2>2. minted[i].act \in Agents /\ minted[i].exp <= id_now + Lifetime
      BY DEF BrokerInv, Narrows
    <2>3. \A p \in Broker!Measure(minted[i]) :
            p[1] = minted[i].aud /\ p[2] \in minted[i].scope /\ id_now < minted[i].exp
      BY DEF Broker!Measure, Broker!CallTool, Broker!Decodes
    <2> QED
      BY <2>1, <2>2, <2>3 DEF OfItsUser
  <1> QED
    BY <1>1, <1>2, <1>3, PTL DEF BrokerSpec
-------------------------------------------------------------------------------
(* SemanticCache: the exact tier has the newest entry of what it has at all, *)
(* and the other tier finds a nearest one because there is one.              *)

Entry == [question : Questions, answer : CachedAnswers, scope : CacheScopes, stored_at : Nat]
About(i, s, q) == entries[i].scope = s /\ entries[i].question = q

\* The exact tier has the newest entry for a question, or there is none.
Newest(s, q) ==
  \/ exact[<<s, q>>] = Cache!NoEntry /\ \A i \in DOMAIN entries : ~About(i, s, q)
  \/ \E i \in DOMAIN entries : /\ About(i, s, q) /\ exact[<<s, q>>] = entries[i]
                               /\ \A j \in DOMAIN entries : About(j, s, q) => j <= i

CacheInv ==
  /\ cache_now \in Nat /\ entries \in Seq(Entry)
  /\ \A i \in DOMAIN entries : entries[i].stored_at <= cache_now
  /\ \A i, j \in DOMAIN entries : i <= j => entries[i].stored_at <= entries[j].stored_at
  /\ DOMAIN exact = CacheScopes \X Questions /\ exact = [k \in DOMAIN exact |-> exact[k]]
  /\ \A s \in CacheScopes, q \in Questions : Newest(s, q)

\* Nothing is stored.
LEMMA CacheStarts == ASSUME Cache!CacheInit PROVE CacheInv
  <1>1. /\ cache_now = 0 /\ entries = <<>>
        /\ exact = [k \in CacheScopes \X Questions |-> Cache!NoEntry]
    BY DEF Cache!CacheInit
  <1>2. ASSUME NEW s \in CacheScopes, NEW q \in Questions PROVE Newest(s, q)
    BY <1>1 DEF Newest
  <1> QED
    BY <1>1, <1>2 DEF CacheInv

\* Time passes.
LEMMA CacheTickKeeps == ASSUME CacheInv, Cache!Tick PROVE CacheInv'
  <1>1. cache_now' = cache_now + 1 /\ entries' = entries /\ exact' = exact /\ cache_now \in Nat
    BY DEF Cache!Tick, CacheInv
  <1>2. \A i \in DOMAIN entries : entries[i].stored_at <= cache_now + 1
    <2> TAKE i \in DOMAIN entries
    <2>1. entries[i] \in Entry /\ entries[i].stored_at <= cache_now
      BY DEF CacheInv
    <2>2. entries[i].stored_at \in Nat
      BY <2>1 DEF Entry
    <2> QED
      BY <1>1, <2>1, <2>2
  <1> QED
    BY <1>1, <1>2 DEF CacheInv, Newest, About

\* An entry is added: it is the newest of its question.
LEMMA PutKeeps ==
  ASSUME CacheInv, NEW q \in Questions, NEW a \in CachedAnswers, NEW s \in CacheScopes, Cache!Put(q, a, s)
  PROVE  CacheInv'
  <1> DEFINE e == [question |-> q, answer |-> a, scope |-> s, stored_at |-> cache_now]
  <1>0. PICK n \in Nat : n = Len(entries)
    BY DEF CacheInv
  <1>1. /\ entries' = Append(entries, e) /\ cache_now' = cache_now
        /\ exact' = [exact EXCEPT ![<<s, q>>] = e]
    BY DEF Cache!Put
  <1>2. /\ e \in Entry /\ e.stored_at = cache_now /\ e.scope = s /\ e.question = q
        /\ cache_now \in Nat /\ entries \in Seq(Entry)
    BY DEF CacheInv, Entry
  <1> HIDE DEF e
  <1>3. /\ n \in Nat /\ DOMAIN entries = 1..n /\ entries' \in Seq(Entry)
        /\ DOMAIN entries' = 1..(n + 1) /\ entries'[n + 1] = e
        /\ \A i \in 1..n : entries'[i] = entries[i]
    BY <1>0, <1>1, <1>2
  <1>4. \A i \in 1..n : entries[i].stored_at <= cache_now
    BY <1>3 DEF CacheInv
  <1>5. \A i \in DOMAIN entries' : entries'[i].stored_at <= cache_now'
    BY <1>1, <1>2, <1>3, <1>4
  <1>6. \A i, j \in DOMAIN entries' : i <= j => entries'[i].stored_at <= entries'[j].stored_at
    <2> SUFFICES ASSUME NEW i \in 1..(n + 1), NEW j \in 1..(n + 1), i <= j
                 PROVE  entries'[i].stored_at <= entries'[j].stored_at
      BY <1>3
    <2>1. CASE j \in 1..n
      <3>1. i \in 1..n
        BY <1>3, <2>1
      <3> QED
        BY <1>3, <2>1, <3>1 DEF CacheInv
    <2>2. CASE j = n + 1
      BY <1>2, <1>3, <1>4, <2>2
    <2> QED
      BY <1>3, <2>1, <2>2
  <1>7. /\ DOMAIN exact' = CacheScopes \X Questions /\ exact' = [k \in DOMAIN exact' |-> exact'[k]]
        /\ exact'[<<s, q>>] = e
        /\ \A t \in CacheScopes, p \in Questions :
             <<t, p>> # <<s, q>> => exact'[<<t, p>>] = exact[<<t, p>>]
    BY <1>1 DEF CacheInv
  <1>8. ASSUME NEW t \in CacheScopes, NEW p \in Questions PROVE Newest(t, p)'
    <2>1. CASE t = s /\ p = q
      <3>1. About(n + 1, t, p)'
        BY <1>2, <1>3, <2>1 DEF About
      <3> QED
        BY <1>3, <1>7, <2>1, <3>1 DEF Newest
    <2>2. CASE ~(t = s /\ p = q)
      <3>1. exact'[<<t, p>>] = exact[<<t, p>>]
        BY <1>7, <2>2
      <3>2. ~About(n + 1, t, p)'
        BY <1>2, <1>3, <2>2 DEF About
      <3>3. \A i \in 1..n : About(i, t, p)' <=> About(i, t, p)
        BY <1>3 DEF About
      <3>4. Newest(t, p)
        BY DEF CacheInv
      <3>5. CASE exact[<<t, p>>] = Cache!NoEntry /\ \A i \in DOMAIN entries : ~About(i, t, p)
        <4>1. \A i \in DOMAIN entries' : ~About(i, t, p)'
          BY <1>3, <3>2, <3>3, <3>5
        <4> QED
          BY <3>1, <3>5, <4>1 DEF Newest, Cache!NoEntry
      <3>6. CASE \E i \in DOMAIN entries : /\ About(i, t, p) /\ exact[<<t, p>>] = entries[i]
                                           /\ \A j \in DOMAIN entries : About(j, t, p) => j <= i
        <4>1. PICK i \in 1..n : /\ About(i, t, p) /\ exact[<<t, p>>] = entries[i]
                                /\ \A j \in 1..n : About(j, t, p) => j <= i
          BY <1>3, <3>6
        <4>2. /\ i \in DOMAIN entries' /\ About(i, t, p)' /\ exact'[<<t, p>>] = entries'[i]
              /\ \A j \in DOMAIN entries' : About(j, t, p)' => j <= i
          BY <1>3, <3>1, <3>2, <3>3, <4>1
        <4> QED
          BY <4>2 DEF Newest
      <3> QED
        BY <3>4, <3>5, <3>6 DEF Newest
    <2> QED
      BY <2>1, <2>2
  <1> QED
    BY <1>1, <1>2, <1>3, <1>5, <1>6, <1>7, <1>8 DEF CacheInv
Sim(q, i) == Similarity[<<q, entries[i].question>>]

\* The first of the nearest, of some candidates.
IsNearest(q, found, i) ==
  i \in found /\ \A j \in found : Sim(q, i) > Sim(q, j) \/ (Sim(q, i) = Sim(q, j) /\ i <= j)

\* There is one: a greatest similarity, and a first candidate that has it.
LEMMA OneIsNearest ==
  ASSUME CacheInv, NEW q \in Questions, NEW found \in SUBSET (DOMAIN entries), found # {}
  PROVE  IsNearest(q, found, Cache!Nearest(q, found))
  <1>1. \A i \in found : i \in Nat /\ Sim(q, i) \in 0..100
    <2> TAKE i \in found
    <2>1. entries[i] \in Entry /\ i \in Nat
      BY DEF CacheInv
    <2>2. <<q, entries[i].question>> \in Questions \X Questions
      BY <2>1 DEF Entry
    <2> QED
      BY <2>1, <2>2, LabsAssumption DEF LabsAssumption, Sim
  <1> DEFINE Distances == {100 - Sim(q, i) : i \in found}
  <1>2. Distances \subseteq Nat /\ Distances # {}
    BY <1>1
  <1> HIDE DEF Distances
  <1>3. PICK d \in Distances : \A e \in Distances : d <= e
    BY <1>2, LeastNumber
  <1> DEFINE Nearby == {i \in found : 100 - Sim(q, i) = d}
  <1>4. Nearby \subseteq Nat /\ Nearby # {}
    BY <1>1, <1>3 DEF Distances
  <1> HIDE DEF Nearby
  <1>5. PICK i \in Nearby : \A j \in Nearby : i <= j
    BY <1>4, LeastNumber
  <1>6. i \in found /\ 100 - Sim(q, i) = d
    BY <1>5 DEF Nearby
  <1>7. ASSUME NEW j \in found PROVE Sim(q, i) > Sim(q, j) \/ (Sim(q, i) = Sim(q, j) /\ i <= j)
    <2>1. d <= 100 - Sim(q, j)
      BY <1>3 DEF Distances
    <2>2. 100 - Sim(q, j) = d => i <= j
      BY <1>5 DEF Nearby
    <2> QED
      BY <1>1, <1>6, <2>1, <2>2
  <1>8. \E k \in found : \A j \in found :
          Sim(q, k) > Sim(q, j) \/ (Sim(q, k) = Sim(q, j) /\ k <= j)
    BY <1>6, <1>7
  <1> QED
    BY <1>8 DEF IsNearest, Cache!Nearest, Sim

\* What is fresh are the candidates.
LEMMA FreshAreCandidates ==
  ASSUME CacheInv, NEW s \in CacheScopes PROVE Cache!Fresh(s) = Cache!Candidates(s)
  <1>1. \A i \in DOMAIN entries : Cache!Expired(entries[i])
                                   <=> ~(entries[i].stored_at + EntryTtl > cache_now)
    <2> TAKE i \in DOMAIN entries
    <2>1. entries[i] \in Entry
      BY DEF CacheInv
    <2>2. entries[i].stored_at \in Nat /\ cache_now \in Nat /\ EntryTtl \in Nat
      BY <2>1, LabsAssumption DEF Entry, CacheInv, LabsAssumption
    <2> QED
      BY <2>2 DEF Cache!Expired
  <1> QED
    BY <1>1 DEF Cache!Fresh, Cache!Candidates

ExactHit(s, q) == exact[<<s, q>>] # Cache!NoEntry /\ ~Cache!Expired(exact[<<s, q>>])
Same(s, q) == {i \in Cache!Fresh(s) : entries[i].question = q}

\* The exact tier answers when a fresh entry is there, with the newest.
LEMMA ExactIsNewest ==
  ASSUME CacheInv, NEW s \in CacheScopes, NEW q \in Questions
  PROVE  /\ ExactHit(s, q) <=> Same(s, q) # {}
         /\ Same(s, q) # {} => \E i \in Same(s, q) : /\ \A j \in Same(s, q) : j <= i
                                                     /\ entries[i] = exact[<<s, q>>]
  <1>1. Newest(s, q) /\ Cache!Fresh(s) = Cache!Candidates(s)
    BY FreshAreCandidates DEF CacheInv
  <1>2. \A i : i \in Same(s, q) <=> /\ i \in DOMAIN entries /\ About(i, s, q)
                                    /\ ~Cache!Expired(entries[i])
    BY <1>1 DEF Same, Cache!Candidates, About
  <1>3. CASE exact[<<s, q>>] = Cache!NoEntry /\ \A i \in DOMAIN entries : ~About(i, s, q)
    BY <1>2, <1>3 DEF ExactHit
  <1>4. ASSUME NEW i \in DOMAIN entries, About(i, s, q), exact[<<s, q>>] = entries[i],
               \A j \in DOMAIN entries : About(j, s, q) => j <= i
        PROVE  /\ ExactHit(s, q) <=> i \in Same(s, q)
               /\ Same(s, q) # {} => i \in Same(s, q)
               /\ \A j \in Same(s, q) : j <= i
    <2>1. entries[i] \in Entry
      BY DEF CacheInv
    <2>2. entries[i] # Cache!NoEntry
      BY <2>1 DEF Entry, Cache!NoEntry
    <2>3. ASSUME NEW j \in Same(s, q) PROVE j <= i /\ ~Cache!Expired(entries[i])
      <3>1. /\ j \in DOMAIN entries /\ About(j, s, q) /\ ~Cache!Expired(entries[j])
            /\ entries[j] \in Entry
        BY <1>2 DEF CacheInv
      <3>2. j <= i /\ entries[j].stored_at <= entries[i].stored_at
        BY <1>4, <3>1 DEF CacheInv
      <3>3. /\ entries[i].stored_at \in Nat /\ entries[j].stored_at \in Nat /\ cache_now \in Nat
            /\ EntryTtl \in Nat
        BY <2>1, <3>1, LabsAssumption DEF Entry, CacheInv, LabsAssumption
      <3> QED
        BY <3>1, <3>2, <3>3 DEF Cache!Expired
    <2>4. ExactHit(s, q) <=> i \in Same(s, q)
      BY <1>2, <1>4, <2>2 DEF ExactHit
    <2> QED
      BY <1>2, <1>4, <2>3, <2>4
  <1> QED
    BY <1>1, <1>3, <1>4 DEF Newest

\* What get() answers, by the tiers.
LEMMA GetAnswers ==
  ASSUME CacheInv, NEW s \in CacheScopes, NEW q \in Questions, NEW threshold \in Thresholds
  PROVE  LET got == Cache!Get(q, s, threshold)
             found == Cache!Fresh(s)
             best == Cache!Nearest(q, found)
         IN  /\ ExactHit(s, q) => got = [kind |-> "exact", entry |-> exact[<<s, q>>]]
             /\ ~ExactHit(s, q) /\ found # {} /\ Sim(q, best) >= threshold
                  => got = [kind |-> "semantic", entry |-> entries[best]]
             /\ ~ExactHit(s, q) /\ ~(found # {} /\ Sim(q, best) >= threshold) => got = Cache!Miss
  BY FreshAreCandidates DEF Cache!Get, ExactHit, Sim
\* A question that is stored and fresh is answered by its newest answer, another one only by a
\* nearest fresh entry of its scope, and a threshold only decides whether there is an
\* answer - for any questions, scopes, similarities, thresholds, lifetimes and entries.
THEOREM CacheCorrect == CacheSpec => []CacheAnswers
  <1>1. Cache!CacheInit => CacheInv
    BY CacheStarts
  <1>2. CacheInv /\ [Cache!CacheNext]_(Cache!cacheVars) => CacheInv'
    <2> SUFFICES ASSUME CacheInv, [Cache!CacheNext]_(Cache!cacheVars) PROVE CacheInv'
      OBVIOUS
    <2>1. CASE UNCHANGED Cache!cacheVars
      <3>1. UNCHANGED <<cache_now, entries, exact>>
        BY <2>1 DEF Cache!cacheVars
      <3> QED
        BY <3>1 DEF CacheInv, Newest, About
    <2>2. CASE Cache!CacheNext
      BY <2>2, CacheTickKeeps, PutKeeps DEF Cache!CacheNext
    <2> QED
      BY <2>1, <2>2
  <1>3. CacheInv => CacheAnswers
    <2> SUFFICES ASSUME CacheInv, NEW q \in Questions, NEW s \in CacheScopes,
                        NEW threshold \in Thresholds
                 PROVE  LET got == Cache!Get(q, s, threshold)
                            same == Same(s, q)
                        IN  /\ same # {} => /\ got.kind = "exact"
                                            /\ \E i \in same : /\ \A j \in same : j <= i
                                                               /\ entries[i] = got.entry
                            /\ same = {} /\ got # Cache!Miss =>
                                 \E i \in Cache!Fresh(s) :
                                   /\ entries[i] = got.entry /\ Sim(q, i) >= threshold
                                   /\ \A j \in Cache!Fresh(s) : Sim(q, j) <= Sim(q, i)
                            /\ got # Cache!Miss => \A lower \in Thresholds :
                                 lower <= threshold => Cache!Get(q, s, lower) = got
                            /\ got = Cache!Miss => \A i \in Cache!Fresh(s) : Sim(q, i) < threshold
      BY DEF CacheAnswers, Cache!CacheAnswers, Same, Sim
    <2> DEFINE got == Cache!Get(q, s, threshold)
               found == Cache!Fresh(s)
               best == Cache!Nearest(q, found)
    <2>1. /\ found \subseteq DOMAIN entries
          /\ \A i \in found : Sim(q, i) \in 0..100
          /\ found # {} => IsNearest(q, found, best)
          /\ Thresholds \subseteq Nat
      <3>1. found \in SUBSET (DOMAIN entries)
        BY DEF Cache!Fresh
      <3>2. ASSUME NEW i \in found PROVE Sim(q, i) \in 0..100
        <4>1. entries[i] \in Entry
          BY <3>1 DEF CacheInv
        <4>2. <<q, entries[i].question>> \in Questions \X Questions
          BY <4>1 DEF Entry
        <4> QED
          BY <4>2, LabsAssumption DEF LabsAssumption, Sim
      <3> QED
        BY <3>1, <3>2, OneIsNearest, LabsAssumption DEF LabsAssumption
    <2>2. \A other \in Thresholds :
            /\ ExactHit(s, q) => Cache!Get(q, s, other) = [kind |-> "exact",
                                                           entry |-> exact[<<s, q>>]]
            /\ ~ExactHit(s, q) /\ found # {} /\ Sim(q, best) >= other
                 => Cache!Get(q, s, other) = [kind |-> "semantic", entry |-> entries[best]]
            /\ ~ExactHit(s, q) /\ ~(found # {} /\ Sim(q, best) >= other)
                 => Cache!Get(q, s, other) = Cache!Miss
      BY GetAnswers
    <2>3. found # {} => /\ best \in found /\ Sim(q, best) \in 0..100
                        /\ \A j \in found : Sim(q, j) \in 0..100 /\ Sim(q, j) <= Sim(q, best)
      BY <2>1 DEF IsNearest
    <2> HIDE DEF found, best
    <2>4. CASE Same(s, q) # {}
      <3>1. ExactHit(s, q)
        BY <2>4, ExactIsNewest
      <3>2. \A other \in Thresholds :
              Cache!Get(q, s, other) = [kind |-> "exact", entry |-> exact[<<s, q>>]]
        BY <2>2, <3>1
      <3>3. got # Cache!Miss /\ got.kind = "exact" /\ got.entry = exact[<<s, q>>]
        BY <3>2 DEF Cache!Miss
      <3> QED
        BY <2>4, <3>2, <3>3, ExactIsNewest
    <2>5. CASE Same(s, q) = {} /\ found # {} /\ Sim(q, best) >= threshold
      <3>1. ~ExactHit(s, q)
        BY <2>5, ExactIsNewest
      <3>2. got = [kind |-> "semantic", entry |-> entries[best]]
        BY <2>2, <2>5, <3>1
      <3>3. got # Cache!Miss /\ got.entry = entries[best]
        BY <3>2 DEF Cache!Miss
      <3>4. ASSUME NEW lower \in Thresholds, lower <= threshold
            PROVE  Cache!Get(q, s, lower) = got
        <4>1. Sim(q, best) >= lower
          BY <2>1, <2>3, <2>5, <3>4
        <4> QED
          BY <2>2, <2>5, <3>1, <3>2, <4>1
      <3>5. \E i \in found : /\ entries[i] = got.entry /\ Sim(q, i) >= threshold
                             /\ \A j \in found : Sim(q, j) <= Sim(q, i)
        BY <2>3, <2>5, <3>3
      <3> QED
        BY <2>5, <3>3, <3>4, <3>5 DEF found
    <2>6. CASE Same(s, q) = {} /\ ~(found # {} /\ Sim(q, best) >= threshold)
      <3>1. ~ExactHit(s, q)
        BY <2>6, ExactIsNewest
      <3>2. got = Cache!Miss
        BY <2>2, <2>6, <3>1
      <3>3. \A i \in found : Sim(q, i) < threshold
        BY <2>1, <2>3, <2>6
      <3> QED
        BY <2>6, <3>2, <3>3 DEF found
    <2> QED
      BY <2>4, <2>5, <2>6
  <1> QED
    BY <1>1, <1>2, <1>3, PTL DEF CacheSpec
-------------------------------------------------------------------------------
(* ModelRouting: what is first in an order exists, and a task adds the same *)
(* on both sides of the account.                                            *)

Model == [cost : Prices, quality : 0..Certain, supports : BOOLEAN]
Result == [total_cost : Nat, correct : Nat, total : Nat, escalations : Nat]
RoutingTypes ==
  /\ models \in [Names -> Model] /\ policy \in [floor : Floors, ceiling : Ceilings]
  /\ direct \in Result /\ escalating \in Result
Spendings ==
  LET best == models[Routing!best_for]
  IN  /\ Routing!Able # {} =>
           escalating.total_cost = direct.total_cost + escalating.escalations * best.cost
      /\ escalating.correct <= direct.correct + escalating.escalations
      /\ signal = "informative" =>
           /\ direct.correct <= escalating.correct
           /\ Routing!best_for # Routing!Chosen =>
                escalating.escalations = direct.total - direct.correct
      /\ Routing!best_for = Routing!Chosen => escalating = direct
RoutingInv == RoutingTypes /\ Spendings

\* Some element of a set has the least of what a function counts of them.
LEMMA LeastOf ==
  ASSUME NEW S, S # {}, NEW f, \A x \in S : f[x] \in Nat
  PROVE  \E x \in S : \A y \in S : f[x] <= f[y]
  <1> DEFINE Values == {f[x] : x \in S}
  <1>1. PICK m \in Values : \A n \in Values : m <= n
    <2>1. Values \subseteq Nat /\ Values # {}
      OBVIOUS
    <2> HIDE DEF Values
    <2> QED
      BY <2>1, LeastNumber
  <1> QED
    BY <1>1

\* What models and names are.
LEMMA ModelsAre ==
  ASSUME RoutingTypes
  PROVE  /\ \A n \in Names : /\ n \in Nat /\ n <= Cardinality(Names)
                             /\ models[n].cost \in Nat /\ models[n].quality \in 0..Certain
         /\ Cardinality(Names) \in Nat /\ Certain \in Nat /\ policy.floor \in Nat
  <1>1. Cardinality(Names) \in Nat
    BY LabsAssumption, FS_CardinalityType DEF LabsAssumption
  <1>2. \A n \in Names : models[n] \in Model
    BY DEF RoutingTypes
  <1>3. /\ Names = 1..Cardinality(Names) /\ Prices \subseteq Nat
        /\ Certain \in Nat /\ Floors \subseteq Nat
    BY LabsAssumption DEF LabsAssumption
  <1>4. \A n \in Names : n \in Nat /\ n <= Cardinality(Names)
    BY <1>1, <1>3
  <1>5. policy.floor \in Nat
    BY <1>3 DEF RoutingTypes
  <1> QED
    BY <1>1, <1>2, <1>3, <1>4, <1>5 DEF Model

\* Of some models one is the cheapest, and the first of its price.
LEMMA FirstIsCheapest ==
  ASSUME RoutingTypes, NEW S \in SUBSET Names, S # {}
  PROVE  Routing!First(S) \in S /\ \A m \in S : Routing!Cheaper(Routing!First(S), m)
  <1>1. PICK c \in S : \A m \in S : models[c].cost <= models[m].cost
    <2> DEFINE f == [n \in S |-> models[n].cost]
    <2>1. \A n \in S : f[n] \in Nat
      BY ModelsAre
    <2>2. PICK c \in S : \A m \in S : f[c] <= f[m]
      BY <2>1, LeastOf
    <2> QED
      BY <2>2
  <1> DEFINE T == {n \in S : models[n].cost = models[c].cost}
  <1>2. PICK n \in T : \A m \in T : n <= m
    <2>1. T \subseteq Nat /\ T # {}
      BY ModelsAre
    <2> HIDE DEF T
    <2> QED
      BY <2>1, LeastNumber
  <1>3. \A m \in S : Routing!Cheaper(n, m)
    BY <1>1, <1>2, ModelsAre DEF Routing!Cheaper
  <1> QED
    BY <1>2, <1>3 DEF Routing!First

\* Of the models that are able one is the best, the cheapest of those, and the last of its price.
LEMMA BestIsBest ==
  ASSUME RoutingTypes, Routing!Able # {}
  PROVE  Routing!best_for \in Routing!Able /\ \A b \in Routing!Able : Routing!Better(Routing!best_for, b)
  <1> DEFINE S == Routing!Able
  <1>0. S \subseteq Names
    BY DEF Routing!Able
  <1> HIDE DEF S
  <1>1. PICK q \in S : \A m \in S : models[q].quality >= models[m].quality
    <2> DEFINE f == [n \in S |-> Certain - models[n].quality]
    <2>1. \A n \in S : f[n] \in Nat
      BY <1>0, ModelsAre
    <2>2. PICK q \in S : \A m \in S : f[q] <= f[m]
      BY <2>1, LeastOf DEF S
    <2>3. \A m \in S : models[q].quality >= models[m].quality
      BY <1>0, <2>2, ModelsAre
    <2> QED
      BY <2>3
  <1> DEFINE Q == {n \in S : models[n].quality = models[q].quality}
  <1>2. PICK c \in Q : \A m \in Q : models[c].cost <= models[m].cost
    <2> DEFINE f == [n \in Q |-> models[n].cost]
    <2>1. \A n \in Q : f[n] \in Nat
      BY <1>0, ModelsAre
    <2>2. Q # {}
      OBVIOUS
    <2>3. PICK c \in Q : \A m \in Q : f[c] <= f[m]
      BY <2>1, <2>2, LeastOf
    <2> QED
      BY <2>3
  <1> DEFINE C == {n \in Q : models[n].cost = models[c].cost}
             g == [n \in C |-> Cardinality(Names) - n]
  <1>3. \A n \in C : g[n] \in Nat
    BY <1>0, ModelsAre
  <1>4. C # {}
    BY <1>2
  <1>5. PICK a \in C : \A m \in C : g[a] <= g[m]
    BY <1>3, <1>4, LeastOf
  <1>6. ASSUME NEW b \in S PROVE Routing!Better(a, b)
    <2>1. a \in S /\ models[a].quality = models[q].quality /\ models[a].cost = models[c].cost
      BY <1>5
    <2>2. models[b].quality = models[q].quality => models[c].cost <= models[b].cost
      BY <1>2
    <2>3. models[b].quality = models[q].quality /\ models[b].cost = models[c].cost => a >= b
      <3> SUFFICES ASSUME b \in C PROVE a >= b
        OBVIOUS
      <3>1. Cardinality(Names) - a <= Cardinality(Names) - b
        BY <1>5
      <3> QED
        BY <1>0, <2>1, <3>1, ModelsAre
    <2> QED
      BY <1>0, <1>1, <2>1, <2>2, <2>3, ModelsAre DEF Routing!Better
  <1> QED
    BY <1>5, <1>6 DEF S, Routing!best_for

\* The model chosen is able, the cheapest that clears the floor, or the finest.
LEMMA ChosenIsRight ==
  ASSUME RoutingTypes, Routing!Able # {}
  PROVE  /\ Routing!Chosen \in Routing!Able
         /\ \A n \in Routing!Able : Routing!Clears(n) =>
              Routing!Clears(Routing!Chosen) /\ models[Routing!Chosen].cost <= models[n].cost
         /\ \A n \in Routing!Able : ~Routing!Clears(Routing!Chosen) =>
              models[n].quality <= models[Routing!Chosen].quality
  <1> DEFINE S == IF Routing!Cleared # {} THEN Routing!Cleared ELSE Routing!Finest
  <1>1. Routing!Finest # {}
    <2>1. \A n \in Routing!Able : n \in Names
      BY DEF Routing!Able
    <2>2. \A n \in Routing!Able :
            models[Routing!best_for].quality \in Nat /\ models[n].quality \in Nat
            /\ models[Routing!best_for].quality >= models[n].quality
      BY <2>1, BestIsBest, ModelsAre DEF Routing!Better
    <2> QED
      BY <2>2, BestIsBest DEF Routing!Finest
  <1>2. S \subseteq Routing!Able /\ S # {}
    BY <1>1 DEF Routing!Cleared, Routing!Finest
  <1>3. S \subseteq Names
    BY <1>2 DEF Routing!Able
  <1> HIDE DEF S
  <1>4. Routing!Chosen \in S /\ \A m \in S : Routing!Cheaper(Routing!Chosen, m)
    BY <1>2, <1>3, FirstIsCheapest DEF Routing!Chosen, S
  <1>5. \A n \in Routing!Able : models[n].cost \in Nat /\ models[n].quality \in Nat
    BY ModelsAre DEF Routing!Able
  <1>6. CASE Routing!Cleared # {}
    BY <1>4, <1>5, <1>6 DEF S, Routing!Cleared, Routing!Cheaper
  <1>7. CASE Routing!Cleared = {}
    BY <1>4, <1>5, <1>7 DEF S, Routing!Cleared, Routing!Finest
  <1> QED
    BY <1>6, <1>7

\* The models and the policy alone say which model is chosen and which is the best.
LEMMA SameChoice ==
  ASSUME UNCHANGED <<models, policy>>
  PROVE  UNCHANGED <<Routing!Able, Routing!Chosen, Routing!best_for>>
  <1>1. \A a, b : /\ Routing!Cheaper(a, b)' <=> Routing!Cheaper(a, b)
                  /\ Routing!Better(a, b)' <=> Routing!Better(a, b)
                  /\ Routing!Clears(a)' <=> Routing!Clears(a)
    BY DEF Routing!Cheaper, Routing!Better, Routing!Clears
  <1>2. Routing!Able' = Routing!Able
    BY DEF Routing!Able
  <1>3. Routing!Cleared' = Routing!Cleared /\ Routing!Finest' = Routing!Finest
    BY <1>1, <1>2 DEF Routing!Cleared, Routing!Finest
  <1>4. Routing!best_for' = Routing!best_for
    BY <1>1, <1>2 DEF Routing!best_for
  <1>5. Routing!Chosen' = Routing!Chosen
    BY <1>1, <1>3 DEF Routing!Chosen, Routing!First
  <1> QED
    BY <1>2, <1>4, <1>5

\* What one task adds, with escalation and without: the router's model answers, and where
\* that one is not sure, the best one as well.
LEMMA HandleKeeps ==
  ASSUME RoutingInv, Routing!Handle
  PROVE  RoutingInv'
  <1> DEFINE chosen == Routing!Chosen
             best == Routing!best_for
  <1>1. chosen \in Names /\ best \in Names
    <2>1. Routing!Able # {} /\ Routing!Able \subseteq Names
      BY DEF Routing!Handle, Routing!Able
    <2>2. best \in Names
      BY <2>1, BestIsBest DEF RoutingInv
    <2>3. chosen \in Names
      BY <2>1, ChosenIsRight DEF RoutingInv
    <2> QED
      BY <2>2, <2>3
  <1>2. models[chosen].cost \in Nat /\ models[best].cost \in Nat
    BY <1>1, ModelsAre DEF RoutingInv
  <1>3. /\ chosen' = chosen /\ best' = best
        /\ UNCHANGED <<models, policy, signal>>
    <2>1. UNCHANGED <<models, policy, signal>>
      BY DEF Routing!Handle
    <2>2. best' = best /\ chosen' = chosen
      BY <2>1, SameChoice
    <2> QED
      BY <2>1, <2>2
  <1>4. PICK right \in SUBSET {chosen, best}, sure \in SUBSET {chosen, best} :
          /\ signal = "informative" => sure = right
          /\ LET escalates == Routing!Escalates(sure) IN
             /\ direct' = Routing!Pays(direct, models[chosen].cost, chosen \in right, FALSE)
             /\ escalating' = Routing!Pays(escalating,
                  models[chosen].cost + (IF escalates THEN models[best].cost ELSE 0),
                  (IF escalates THEN best ELSE chosen) \in right, escalates)
    BY DEF Routing!Handle, Routing!Rolls, Routing!Confident
  <1> DEFINE escalates == Routing!Escalates(sure)
  <1>5. escalates <=> chosen \notin sure /\ best # chosen
    BY DEF Routing!Escalates
  <1>6. /\ direct'.total_cost = direct.total_cost + models[chosen].cost
        /\ direct'.total = direct.total + 1
        /\ direct'.correct = direct.correct + (IF chosen \in right THEN 1 ELSE 0)
        /\ escalating'.total_cost = escalating.total_cost
             + (models[chosen].cost + (IF escalates THEN models[best].cost ELSE 0))
        /\ escalating'.correct = escalating.correct
             + (IF (IF escalates THEN best ELSE chosen) \in right THEN 1 ELSE 0)
        /\ escalating'.escalations = escalating.escalations + (IF escalates THEN 1 ELSE 0)
    BY <1>4 DEF Routing!Pays
  <1>7. RoutingTypes'
    <2>1. direct' \in Result /\ escalating' \in Result
      BY <1>2, <1>4 DEF Routing!Pays, RoutingInv, RoutingTypes, Result
    <2> QED
      BY <1>3, <2>1 DEF RoutingInv, RoutingTypes
  <1>13. best = chosen => escalating' = direct'
    <2> SUFFICES ASSUME best = chosen PROVE escalating' = direct'
      OBVIOUS
    <2>1. escalating = direct
      BY DEF RoutingInv, Spendings
    <2>2. ~escalates /\ ~Routing!Escalates(sure)
      BY <1>5
    <2>3. models[chosen].cost + 0 = models[chosen].cost
      BY <1>2
    <2>4. escalating' = Routing!Pays(escalating, models[chosen].cost + 0, chosen \in right, FALSE)
      <3> HIDE DEF chosen, best
      <3> QED
        BY <1>4, <2>2 DEF Routing!Pays
    <2> QED
      BY <1>4, <2>1, <2>3, <2>4
  <1> HIDE DEF chosen, best, escalates
  <1>8. /\ direct.total_cost \in Nat /\ direct.correct \in Nat /\ direct.total \in Nat
        /\ escalating.correct \in Nat /\ escalating.escalations \in Nat
    BY DEF RoutingInv, RoutingTypes, Result
  <1>9. escalating'.total_cost = direct'.total_cost + escalating'.escalations * models[best].cost
    <2>1. escalating.total_cost = direct.total_cost + escalating.escalations * models[best].cost
      BY DEF RoutingInv, Spendings, best, Routing!Handle
    <2>2. (escalating.escalations + 1) * models[best].cost
            = escalating.escalations * models[best].cost + models[best].cost
      BY <1>2, <1>8
    <2>3. escalating.escalations * models[best].cost \in Nat
      BY <1>2, <1>8
    <2>4. CASE escalates
      BY ONLY <1>2, <1>6, <1>8, <2>1, <2>2, <2>3, <2>4
    <2>5. CASE ~escalates
      BY ONLY <1>2, <1>6, <1>8, <2>1, <2>3, <2>5
    <2> QED
      BY <2>4, <2>5
  <1>10. escalating'.correct <= direct'.correct + escalating'.escalations
    BY <1>6, <1>8 DEF RoutingInv, Spendings
  <1>11. ASSUME signal = "informative"
         PROVE  /\ direct'.correct <= escalating'.correct
                /\ best # chosen => escalating'.escalations = direct'.total - direct'.correct
    <2>1. /\ direct.correct <= escalating.correct
          /\ best # chosen => escalating.escalations = direct.total - direct.correct
      BY <1>11 DEF RoutingInv, Spendings, best, chosen
    <2>2. escalates <=> chosen \notin right /\ best # chosen
      BY <1>4, <1>5, <1>11
    <2>3. CASE chosen \in right
      BY ONLY <1>6, <1>8, <2>1, <2>2, <2>3
    <2>4. CASE chosen \notin right
      BY ONLY <1>6, <1>8, <2>1, <2>2, <2>4
    <2> QED
      BY <2>3, <2>4
  <1>12. best = chosen => escalating' = direct'
    BY <1>13
  <1> QED
    BY <1>3, <1>7, <1>9, <1>10, <1>11, <1>12 DEF RoutingInv, Spendings, best, chosen

\* Escalating adds up: over any workload, of any models, prices, floor and ceiling, the model
\* chosen is the one the policy names, what escalation costs is its count times the price of the
\* best model, and what it gains is at most its count (router.py:64, workload.py:34-56).
THEOREM EscalationCorrect == RoutingSpec => []EscalationAddsUp
  <1>1. Routing!RoutingInit => RoutingInv
    <2> SUFFICES ASSUME Routing!RoutingInit PROVE RoutingInv
      OBVIOUS
    <2>1. direct = Routing!NoResult /\ escalating = Routing!NoResult
      BY DEF Routing!RoutingInit
    <2>2. RoutingTypes
      BY <2>1 DEF Routing!RoutingInit, Routing!NoResult, RoutingTypes, Model, Result
    <2>3. Routing!Able # {} => 0 = 0 + 0 * models[Routing!best_for].cost
      <3> SUFFICES ASSUME Routing!Able # {} PROVE 0 = 0 + 0 * models[Routing!best_for].cost
        OBVIOUS
      <3>1. models[Routing!best_for].cost \in Nat
        BY <2>2, BestIsBest, ModelsAre DEF Routing!Able
      <3> QED
        BY <3>1
    <2> QED
      BY <2>1, <2>2, <2>3 DEF RoutingInv, Spendings, Routing!NoResult
  <1>2. RoutingInv /\ [Routing!RoutingNext]_(Routing!routingVars) => RoutingInv'
    <2>1. RoutingInv /\ Routing!Handle => RoutingInv'
      BY HandleKeeps
    <2>2. RoutingInv /\ UNCHANGED (Routing!routingVars) => RoutingInv'
      <3> SUFFICES ASSUME RoutingInv, UNCHANGED (Routing!routingVars) PROVE RoutingInv'
        OBVIOUS
      <3>1. UNCHANGED <<models, policy, signal, direct, escalating>>
        BY DEF Routing!routingVars
      <3>2. UNCHANGED <<Routing!Able, Routing!Chosen, Routing!best_for>>
        BY <3>1, SameChoice
      <3> QED
        BY <3>1, <3>2 DEF RoutingInv, RoutingTypes, Spendings
    <2> QED
      BY <2>1, <2>2 DEF Routing!RoutingNext
  <1>3. RoutingInv => EscalationAddsUp
    <2> SUFFICES ASSUME RoutingInv, Routing!Able # {} PROVE EscalationAddsUp
      BY DEF EscalationAddsUp, Routing!EscalationAddsUp
    <2> DEFINE best == models[Routing!best_for]
               chosen == models[Routing!Chosen]
    <2>1. /\ escalating.total_cost = direct.total_cost + escalating.escalations * best.cost
          /\ escalating.correct <= direct.correct + escalating.escalations
          /\ signal = "informative" =>
               /\ direct.correct <= escalating.correct
               /\ Routing!best_for # Routing!Chosen =>
                    escalating.escalations = direct.total - direct.correct
          /\ Routing!best_for = Routing!Chosen => escalating = direct
      BY DEF RoutingInv, Spendings
    <2>2. direct \in Result /\ escalating \in Result
      BY DEF RoutingInv, RoutingTypes
    <2>3. Routing!Chosen \in Routing!Able /\ Routing!best_for \in Routing!Able
      BY ChosenIsRight, BestIsBest DEF RoutingInv
    <2>4. /\ best.cost \in Nat /\ best.quality \in Nat /\ chosen.quality \in Nat
          /\ chosen.supports = TRUE
      BY <2>3, ModelsAre DEF Routing!Able, RoutingInv
    <2>5. escalating.escalations * best.cost \in Nat
      BY <2>2, <2>4 DEF Result
    <2>6. escalating.total_cost - direct.total_cost = escalating.escalations * best.cost
      <3> HIDE DEF best
      <3> QED
        BY <2>1, <2>2, <2>5 DEF Result
    <2>7. escalating.correct - direct.correct <= escalating.escalations
          /\ (signal = "informative" => escalating.correct - direct.correct >= 0)
      <3> HIDE DEF best
      <3> QED
        BY <2>1, <2>2 DEF Result
    <2>8. best.quality >= chosen.quality
      BY <2>3, <2>4, BestIsBest DEF Routing!Better, RoutingInv
    <2> QED
      BY <2>1, <2>3, <2>4, <2>6, <2>7, <2>8, ChosenIsRight, BestIsBest
      DEF EscalationAddsUp, Routing!EscalationAddsUp, RoutingInv
  <1> QED
    BY <1>1, <1>2, <1>3, PTL DEF RoutingSpec
-------------------------------------------------------------------------------
(* Operations: what was pruned is too old to be asked for, so a report is    *)
(* what the whole history calls for.                                         *)

OutcomeTold == [nth : Nat, success : BOOLEAN, at : Int]
Incident == [service : Services, severity : {"ok", "ticket", "page"}, step : Nat,
             status : {"running", "resolved", "exhausted", "lost"},
             final_escalation : {"nobody"} \cup {Runbook[n] : n \in Nat}]
OpsTypes ==
  /\ ops_now \in Nat /\ incidents \in Seq(Incident) /\ replicas \in [Services -> Nat]
  /\ outcomes \in [Services -> SUBSET OutcomeTold] /\ history \in [Services -> SUBSET OutcomeTold]
  /\ \A s \in Services : IsFiniteSet(history[s])
  /\ last_scaled_at \in [Services -> Int] /\ changed \in [Services -> Int]
\* Only what is older than the window has left the outcomes.
OpsPruned(s) ==
  /\ outcomes[s] \subseteq history[s]
  /\ \A o \in history[s] : o.at <= ops_now /\ (o.at >= ops_now - Window => o \in outcomes[s])
\* The autoscaler knows of every change it made, or of a later one.
OpsScaled(s) ==
  /\ changed[s] <= last_scaled_at[s] /\ last_scaled_at[s] <= ops_now
  /\ last_scaled_at[s] >= -1 /\ changed[s] >= -1
OpsInv == OpsTypes /\ \A s \in Services : OpsPruned(s) /\ OpsScaled(s)

\* Within a rule's window, or the SLO's if that is shorter, nothing has been pruned.
LEMMA NothingMissing ==
  ASSUME OpsInv, NEW s \in Services, NEW lookback \in Nat
  PROVE  Ops!Recent(Ops!Pruned(outcomes[s]), lookback)
           = {o \in history[s] : ops_now - o.at <= Ops!Smaller(lookback, Window)}
  <1>1. \A o \in history[s] : o.at \in Int
    BY DEF OpsInv, OpsTypes, OutcomeTold
  <1>2. ops_now \in Nat /\ Window \in Nat
    BY LabsAssumption DEF OpsInv, OpsTypes, LabsAssumption
  <1>3. /\ outcomes[s] \subseteq history[s]
        /\ \A o \in history[s] : o.at >= ops_now - Window => o \in outcomes[s]
    BY DEF OpsInv, OpsPruned
  <1> QED
    BY <1>1, <1>2, <1>3 DEF Ops!Recent, Ops!Pruned, Ops!Smaller

\* A rule burns in the outcomes that are left exactly if it burns in the history.
LEMMA BurnsAsBurned ==
  ASSUME OpsInv, NEW s \in Services, NEW rule \in Rules, NEW lookback \in Nat
  PROVE  Ops!Burns(Ops!Pruned(outcomes[s]), lookback, rule.threshold)
           <=> Ops!Burned(s, rule, lookback)
  <1> DEFINE late == {o \in history[s] : ops_now - o.at <= Ops!Smaller(lookback, Window)}
             bad == {o \in late : ~o.success}
             all == Cardinality(late)
             failed == Cardinality(bad)
             u == rule.threshold * Allowed * all
  <1>1. \A S : Ops!Cardinality(S) = Cardinality(S)
    BY Zenon DEF Ops!Cardinality, Cardinality
  <1>2. IsFiniteSet(late) /\ IsFiniteSet(bad)
    <2>1. IsFiniteSet(history[s])
      BY DEF OpsInv, OpsTypes
    <2>2. bad \subseteq late /\ late \subseteq history[s]
      OBVIOUS
    <2> QED
      BY <2>1, <2>2, FS_Subset
  <1>3. /\ all \in Nat /\ failed \in Nat
        /\ failed = 0 <=> bad = {}
        /\ all = 0 <=> late = {}
    BY <1>2, FS_CardinalityType, FS_EmptySet
  <1>4. rule.threshold \in Nat /\ Allowed \in Nat
    BY LabsAssumption DEF LabsAssumption
  <1>5. Ops!Burns(Ops!Pruned(outcomes[s]), lookback, rule.threshold)
          <=> IF late = {} \/ (Allowed = 0 /\ failed = 0) THEN rule.threshold = 0
              ELSE failed * 100 >= u
    <2>1. Ops!Recent(Ops!Pruned(outcomes[s]), lookback) = late
      BY NothingMissing
    <2> QED
      BY <1>1, <2>1 DEF Ops!Burns, Ops!Failures
  <1>6. Ops!Burned(s, rule, lookback) <=> rule.threshold = 0 \/ (bad # {} /\ failed * 100 >= u)
    BY <1>1 DEF Ops!Burned
  <1>7. bad # {} => late # {}
    OBVIOUS
  <1>8. u \in Nat /\ (rule.threshold = 0 \/ Allowed = 0 => u = 0)
    <2> HIDE DEF all
    <2> QED
      BY <1>3, <1>4
  <1>9. rule.threshold # 0 /\ Allowed # 0 /\ late # {} => u > 0
    <2> DEFINE t == rule.threshold
    <2> HIDE DEF t, all, late
    <2>1. ASSUME t # 0, Allowed # 0, late # {} PROVE t * Allowed * all > 0
      <3>1. PICK w \in Nat : w = t * Allowed /\ w > 0
        <4>1. t \in Nat /\ t > 0 /\ Allowed \in Nat /\ Allowed > 0
          BY <1>4, <2>1 DEF t
        <4>2. t * Allowed \in Nat /\ t * Allowed > 0
          BY <4>1
        <4> QED
          BY <4>2
      <3>2. all \in Nat /\ all > 0
        BY <1>3, <2>1
      <3>3. w * all > 0
        BY <3>1, <3>2
      <3> QED
        BY <3>1, <3>3
    <2> QED
      BY <2>1 DEF t
  <1> HIDE DEF late, bad, all, failed, u
  <1>10. CASE rule.threshold = 0
    BY <1>3, <1>5, <1>6, <1>8, <1>10
  <1>11. CASE rule.threshold # 0
    BY <1>3, <1>4, <1>5, <1>6, <1>7, <1>8, <1>9, <1>11
  <1> QED
    BY <1>10, <1>11

\* A report is the severity that is due.
LEMMA ReportIsDue ==
  ASSUME OpsInv, NEW s \in Services
  PROVE  Ops!Report(outcomes[s]) = Ops!Due(s)
  <1> DEFINE fired == {rule.severity : rule \in Ops!Fired(Ops!Pruned(outcomes[s]))} \cup {"ok"}
  <1>1. \A rule \in Rules : /\ rule.severity \in {"ok", "ticket", "page"}
                            /\ rule.long \in Nat /\ rule.short \in Nat
    BY LabsAssumption DEF LabsAssumption
  <1>2. \A c \in {"ticket", "page"} : c \in fired <=> Ops!CalledFor(s, c)
    <2>1. \A rule \in Rules : rule \in Ops!Fired(Ops!Pruned(outcomes[s])) <=>
            Ops!Burned(s, rule, rule.long) /\ Ops!Burned(s, rule, rule.short)
      BY <1>1, BurnsAsBurned DEF Ops!Fired
    <2>2. \A rule \in Ops!Fired(Ops!Pruned(outcomes[s])) : rule \in Rules
      BY DEF Ops!Fired
    <2> QED
      BY <2>1, <2>2 DEF Ops!CalledFor
  <1>3. fired \subseteq {"ok", "ticket", "page"} /\ "ok" \in fired
    BY <1>1 DEF Ops!Fired
  <1>4. Ops!Report(outcomes[s]) =
          CHOOSE c \in fired : \A d \in fired : Ops!severity_rank(d) <= Ops!severity_rank(c)
    BY DEF Ops!Report
  <1>5. /\ Ops!severity_rank("ok") = 0 /\ Ops!severity_rank("ticket") = 1
        /\ Ops!severity_rank("page") = 2
    BY DEF Ops!severity_rank
  <1>6. Ops!Due(s) \in fired /\ \A c \in fired : Ops!severity_rank(c) <= Ops!severity_rank(Ops!Due(s))
    BY <1>2, <1>3, <1>5 DEF Ops!Due
  <1>7. \A c \in fired : Ops!severity_rank(Ops!Due(s)) <= Ops!severity_rank(c) => c = Ops!Due(s)
    <2> HIDE DEF fired
    <2>1. PICK due \in {"ok", "ticket", "page"} : due = Ops!Due(s)
      BY DEF Ops!Due
    <2>2. \A c, d \in {"ok", "ticket", "page"} :
            Ops!severity_rank(d) <= Ops!severity_rank(c) /\ Ops!severity_rank(c) <= Ops!severity_rank(d)
              => c = d
      BY <1>5
    <2> QED
      BY ONLY <1>3, <1>6, <2>1, <2>2
  <1> HIDE DEF fired
  <1> QED
    BY <1>4, <1>6, <1>7

\* What pruning keeps: nothing of the window goes.
LEMMA PruningKeeps ==
  ASSUME NEW log \in SUBSET OutcomeTold, NEW kept \in SUBSET log, ops_now \in Nat,
         \A o \in log : o.at >= ops_now - Window => o \in kept
  PROVE  /\ Ops!Pruned(kept) \subseteq log
         /\ \A o \in log : o.at >= ops_now - Window => o \in Ops!Pruned(kept)
  BY DEF Ops!Pruned, Ops!Recent

\* What the autoscaler is told to set is a number.
LEMMA TargetIsBound ==
  ASSUME NEW current \in Nat, NEW u \in Nat
  PROVE  /\ \A n \in Int : Ops!Clamped(n) \in Policy.min..Ops!Larger(Policy.min, Policy.max)
         /\ \/ Ops!Target(current, u) = current
            \/ Ops!Target(current, u) \in Policy.min..Ops!Larger(Policy.min, Policy.max)
         /\ Ops!Target(current, u) \in Nat
  <1>1. /\ Policy.min \in Nat /\ Policy.max \in Nat
        /\ Policy.target \in Nat
    BY LabsAssumption DEF LabsAssumption
  <1>2. \A n \in Int : Ops!Clamped(n) \in Policy.min..Ops!Larger(Policy.min, Policy.max)
    BY <1>1 DEF Ops!Clamped, Ops!Larger, Ops!Smaller
  <1>3. \A n \in Int : Policy.target > 0 => Ops!Round(n, Policy.target) \in Int
    <2>1. \A n, d \in Int : d > 0 => n \div d \in Int
      OBVIOUS
    <2> QED
      BY <1>1, <2>1 DEF Ops!Round
  <1>4. current * u \in Int
    OBVIOUS
  <1> QED
    BY <1>1, <1>2, <1>3, <1>4 DEF Ops!Target

\* What an autoscaler's answer keeps, and what it changes.
LEMMA AutoscaleKeeps ==
  ASSUME OpsInv, NEW s \in Services, NEW u \in Utilizations, Ops!Autoscale(s, u)
  PROVE  /\ OpsInv'
         /\ IF Ops!Due(s) = "page" /\ replicas[s] < Policy.max
            THEN replicas'[s] = Ops!Larger(replicas[s] + 1, Policy.min)
            ELSE \/ replicas'[s] = replicas[s]
                 \/ /\ replicas'[s] \in Policy.min..Ops!Larger(Policy.min, Policy.max)
                    /\ changed[s] = Ops!Never \/ ops_now - changed[s] >= Policy.cooldown
  <1> DEFINE current == replicas[s]
             severity == Ops!Report(outcomes[s])
             target == Ops!Decide(s, current, u, severity)
             fast == Ops!FastBurn(current, severity)
  <1>1. /\ UNCHANGED <<ops_now, incidents, history>>
        /\ outcomes' = [outcomes EXCEPT ![s] = Ops!Pruned(@)]
        /\ replicas' = [replicas EXCEPT ![s] = target]
        /\ last_scaled_at' = IF fast \/ target # current
                             THEN [last_scaled_at EXCEPT ![s] = ops_now] ELSE last_scaled_at
        /\ changed' = IF target = current THEN changed ELSE [changed EXCEPT ![s] = ops_now]
    BY DEF Ops!Autoscale
  <1>2. /\ ops_now \in Nat /\ outcomes \in [Services -> SUBSET OutcomeTold] /\ current \in Nat
        /\ replicas \in [Services -> Nat] /\ last_scaled_at \in [Services -> Int]
        /\ changed \in [Services -> Int] /\ history \in [Services -> SUBSET OutcomeTold]
    BY DEF OpsInv, OpsTypes
  <1>3. /\ Policy.min \in Nat /\ Policy.max \in Nat
        /\ u \in Nat /\ Policy.cooldown \in Nat
    BY LabsAssumption DEF LabsAssumption
  <1>4. severity = Ops!Due(s)
    BY ReportIsDue
  <1>5. OpsScaled(s)
    BY DEF OpsInv
  <1>6. /\ target \in Nat
        /\ IF Ops!Due(s) = "page" /\ current < Policy.max
           THEN target = Ops!Larger(current + 1, Policy.min)
           ELSE \/ target = current
                \/ /\ target \in Policy.min..Ops!Larger(Policy.min, Policy.max)
                   /\ changed[s] = Ops!Never \/ ops_now - changed[s] >= Policy.cooldown
    <2>1. fast <=> Ops!Due(s) = "page" /\ current < Policy.max
      BY <1>4 DEF Ops!FastBurn
    <2>2. CASE fast
      <3>1. target = Ops!Clamped(current + 1)
        BY <2>2 DEF Ops!Decide
      <3> HIDE DEF target, current, severity, fast
      <3>2. target = Ops!Larger(current + 1, Policy.min) /\ target \in Nat
        BY <1>2, <1>3, <2>1, <2>2, <3>1 DEF Ops!Clamped, Ops!Larger, Ops!Smaller
      <3> QED
        BY <2>1, <2>2, <3>2
    <2>3. CASE ~fast
      <3>1. target = IF Ops!InCooldown(s) THEN current ELSE Ops!Target(current, u)
        BY <2>3 DEF Ops!Decide
      <3>2. \/ Ops!Target(current, u) = current
            \/ Ops!Target(current, u) \in Policy.min..Ops!Larger(Policy.min, Policy.max)
        BY <1>2, <1>3, TargetIsBound
      <3>3. Ops!Target(current, u) \in Nat
        BY <1>2, <1>3, TargetIsBound
      <3>4. Ops!InCooldown(s) \/ changed[s] = Ops!Never \/ ops_now - changed[s] >= Policy.cooldown
        BY <1>2, <1>3, <1>5 DEF Ops!InCooldown, OpsScaled, Ops!Never
      <3> HIDE DEF target, current, severity, fast
      <3> QED
        BY <1>2, <2>1, <2>3, <3>1, <3>2, <3>3, <3>4
    <2> QED
      BY <2>2, <2>3
  <1>8. target \in Nat
    BY <1>6
  <1> HIDE DEF target, current, severity, fast
  <1>9. OpsTypes'
    <2>1. Ops!Pruned(outcomes[s]) \in SUBSET OutcomeTold
      BY <1>2 DEF Ops!Pruned, Ops!Recent
    <2> QED
      BY <1>1, <1>2, <1>8, <2>1 DEF OpsInv, OpsTypes
  <1>10. ASSUME NEW t \in Services PROVE OpsPruned(t)'
    <2>1. CASE t = s
      BY <1>1, <1>2, <2>1, PruningKeeps DEF OpsInv, OpsPruned
    <2>2. CASE t # s
      BY <1>1, <1>2, <2>2 DEF OpsInv, OpsPruned
    <2> QED
      BY <2>1, <2>2
  <1>11. ASSUME NEW t \in Services PROVE OpsScaled(t)'
    BY <1>1, <1>2 DEF OpsInv, OpsScaled
  <1>12. replicas'[s] = target
    BY <1>1, <1>2
  <1> QED
    BY <1>6, <1>9, <1>10, <1>11, <1>12 DEF OpsInv, current

\* An incident starts with the severity that is due, and pruning keeps the invariant.
LEMMA TriggerKeeps ==
  ASSUME OpsInv, NEW s \in Services, Ops!TriggerIncident(s)
  PROVE  OpsInv' /\ incidents'[Len(incidents')].severity = Ops!Due(s)
  <1> DEFINE inc == [service |-> s, severity |-> Ops!Report(outcomes[s]), status |-> "running",
                     step |-> 0, final_escalation |-> "nobody"]
  <1>1. /\ UNCHANGED <<ops_now, last_scaled_at, replicas, history, changed>>
        /\ incidents' = Append(incidents, inc)
        /\ outcomes' = [outcomes EXCEPT ![s] = Ops!Pruned(@)]
    BY DEF Ops!TriggerIncident
  <1>2. /\ ops_now \in Nat /\ outcomes \in [Services -> SUBSET OutcomeTold] /\ incidents \in Seq(Incident)
        /\ history \in [Services -> SUBSET OutcomeTold]
    BY DEF OpsInv, OpsTypes
  <1>3. inc.severity = Ops!Due(s) /\ inc.severity \in {"ok", "ticket", "page"}
    BY ReportIsDue DEF Ops!Due
  <1>4. inc \in Incident
    BY <1>3 DEF Incident
  <1> HIDE DEF inc
  <1>5. incidents' \in Seq(Incident) /\ incidents'[Len(incidents')] = inc
    BY <1>1, <1>2, <1>4
  <1>6. OpsTypes'
    <2>1. Ops!Pruned(outcomes[s]) \in SUBSET OutcomeTold
      BY <1>2 DEF Ops!Pruned, Ops!Recent
    <2> QED
      BY <1>1, <1>2, <1>5, <2>1 DEF OpsInv, OpsTypes
  <1>7. ASSUME NEW t \in Services PROVE OpsPruned(t)' /\ OpsScaled(t)'
    <2>1. OpsScaled(t)'
      BY <1>1 DEF OpsInv, OpsScaled
    <2>2. CASE t = s
      BY <1>1, <1>2, <2>1, <2>2, PruningKeeps DEF OpsInv, OpsPruned
    <2>3. CASE t # s
      BY <1>1, <1>2, <2>1, <2>3 DEF OpsInv, OpsPruned
    <2> QED
      BY <2>2, <2>3
  <1> QED
    BY <1>3, <1>5, <1>6, <1>7 DEF OpsInv

\* Recording an outcome adds it to both, and prunes.
LEMMA RecordKeeps ==
  ASSUME OpsInv, NEW s \in Services, NEW ok \in BOOLEAN, Ops!Record(s, ok)
  PROVE  OpsInv'
  <1> DEFINE o == Ops!Outcome(s, ok)
  <1>1. /\ UNCHANGED <<ops_now, last_scaled_at, replicas, incidents, changed>>
        /\ outcomes' = [outcomes EXCEPT ![s] = Ops!Pruned(@ \cup {o})]
        /\ history' = [history EXCEPT ![s] = @ \cup {o}]
    BY DEF Ops!Record
  <1>2. /\ ops_now \in Nat /\ outcomes \in [Services -> SUBSET OutcomeTold]
        /\ history \in [Services -> SUBSET OutcomeTold] /\ IsFiniteSet(history[s])
    BY DEF OpsInv, OpsTypes
  <1>3. o \in OutcomeTold /\ o.at = ops_now
    <2>1. \A S : Ops!Cardinality(S) = Cardinality(S)
      BY Zenon DEF Ops!Cardinality, Cardinality
    <2>2. Ops!Cardinality(history[s]) \in Nat
      BY <1>2, <2>1, FS_CardinalityType
    <2> QED
      BY <1>2, <2>2 DEF Ops!Outcome, OutcomeTold
  <1> HIDE DEF o
  <1>4. IsFiniteSet(history[s] \cup {o})
    BY <1>2, FS_AddElement
  <1>5. OpsTypes'
    <2>1. Ops!Pruned(outcomes[s] \cup {o}) \in SUBSET OutcomeTold
      BY <1>2, <1>3 DEF Ops!Pruned, Ops!Recent
    <2>2. outcomes' \in [Services -> SUBSET OutcomeTold] /\ history' \in [Services -> SUBSET OutcomeTold]
      BY <1>1, <1>2, <1>3, <2>1
    <2>3. \A t \in Services : IsFiniteSet(history'[t])
      BY <1>1, <1>2, <1>4 DEF OpsInv, OpsTypes
    <2> QED
      BY <1>1, <2>2, <2>3 DEF OpsInv, OpsTypes
  <1>6. ASSUME NEW t \in Services PROVE OpsPruned(t)' /\ OpsScaled(t)'
    <2>1. OpsScaled(t)'
      BY <1>1 DEF OpsInv, OpsScaled
    <2>2. CASE t = s
      <3> DEFINE log == history[s] \cup {o}
                 kept == outcomes[s] \cup {o}
      <3>1. /\ log \in SUBSET OutcomeTold /\ kept \in SUBSET log
            /\ \A p \in log : p.at <= ops_now /\ (p.at >= ops_now - Window => p \in kept)
        BY <1>2, <1>3 DEF OpsInv, OpsPruned
      <3>2. history'[s] = log /\ outcomes'[s] = Ops!Pruned(kept)
        BY <1>1, <1>2
      <3> HIDE DEF log, kept
      <3> QED
        BY <1>1, <1>2, <2>1, <2>2, <3>1, <3>2, PruningKeeps DEF OpsPruned
    <2>3. CASE t # s
      BY <1>1, <1>2, <2>1, <2>3 DEF OpsInv, OpsPruned
    <2> QED
      BY <2>2, <2>3
  <1> QED
    BY <1>5, <1>6 DEF OpsInv

\* A step of a runbook moves an incident on and leaves all else alone.
LEMMA StepEndsKeeps ==
  ASSUME OpsInv, NEW i \in DOMAIN incidents, NEW how \in {"resolved", "unresolved", "raised"},
         Ops!StepEnds(i, how)
  PROVE  OpsInv'
  <1> DEFINE inc == incidents[i]
  <1>1. incidents \in Seq(Incident) /\ inc \in Incident
    BY DEF OpsInv, OpsTypes
  <1>2. PICK next : /\ incidents' = [incidents EXCEPT ![i] = next]
                    /\ next \in Incident
    <2> DEFINE ended == [inc EXCEPT !.step = @ + 1]
    <2>1. ended \in Incident /\ ended.step \in Nat /\ Runbook[ended.step] \in {Runbook[n] : n \in Nat}
      <3>1. ended.step = inc.step + 1 /\ inc.step \in Nat
        BY <1>1 DEF Incident
      <3>2. ended.step \in Nat
        BY <3>1
      <3>3. ended \in Incident
        <4> HIDE DEF inc
        <4>1. inc \in Incident /\ inc.step + 1 \in Nat
          BY <1>1, <3>1
        <4> QED
          BY <4>1 DEF Incident
      <3> QED
        BY <3>2, <3>3
    <2>2. /\ [ended EXCEPT !.status = "resolved", !.final_escalation = "nobody"] \in Incident
          /\ [inc EXCEPT !.status = "lost"] \in Incident
          /\ \A e \in {Runbook[n] : n \in Nat}, u \in {ended.status, "exhausted"} :
               [ended EXCEPT !.final_escalation = e, !.status = u] \in Incident
      BY <1>1, <2>1 DEF Incident
    <2> HIDE DEF inc
    <2>3. CASE how = "resolved"
      BY <2>2, <2>3 DEF Ops!StepEnds, inc
    <2>4. CASE how = "raised"
      BY <2>2, <2>4 DEF Ops!StepEnds, inc
    <2>5. CASE how = "unresolved"
      BY <2>1, <2>2, <2>5 DEF Ops!StepEnds, inc
    <2> QED
      BY <2>3, <2>4, <2>5
  <1>3. incidents' \in Seq(Incident)
    BY <1>1, <1>2
  <1>4. UNCHANGED <<ops_now, outcomes, last_scaled_at, replicas, history, changed>>
    BY DEF Ops!StepEnds
  <1> QED
    BY <1>3, <1>4 DEF OpsInv, OpsTypes, OpsPruned, OpsScaled

\* Alerts and scaling follow the history: for any services, rules, policy, window and runbook, and
\* however outcomes are pruned and replicas set by hand, an incident starts with the severity that
\* is due, a page adds a replica at once, and any other change of the autoscaler comes a cooldown
\* after its last and ends within bounds, also for rules that look further back than the SLO and
\* for bounds the wrong way round (autoscaler.py:28, slo.py:72).
THEOREM OperationsCorrect == OpsSpec => OperatesOnHistory
  <1>1. Ops!OpsInit => OpsInv
    <2> SUFFICES ASSUME Ops!OpsInit PROVE OpsInv
      OBVIOUS
    <2>1. Policy.min \in Nat
      BY LabsAssumption DEF LabsAssumption
    <2>2. OpsTypes
      BY <2>1, FS_EmptySet DEF Ops!OpsInit, OpsTypes, Ops!Never
    <2> QED
      BY <2>2 DEF Ops!OpsInit, OpsInv, OpsPruned, OpsScaled, Ops!Never
  <1>2. OpsInv /\ [Ops!OpsNext]_(Ops!opsVars) => OpsInv'
    <2> SUFFICES ASSUME OpsInv, [Ops!OpsNext]_(Ops!opsVars) PROVE OpsInv'
      OBVIOUS
    <2>1. CASE UNCHANGED (Ops!opsVars)
      BY <2>1 DEF Ops!opsVars, OpsInv, OpsTypes, OpsPruned, OpsScaled
    <2>2. CASE Ops!Tick
      <3>1. \A s \in Services : \A o \in history[s] : o.at \in Int
        BY DEF OpsInv, OpsTypes, OutcomeTold
      <3>2. OpsTypes'
        BY <2>2 DEF Ops!Tick, OpsInv, OpsTypes
      <3>3. /\ ops_now \in Nat /\ ops_now' = ops_now + 1 /\ Window \in Nat
            /\ \A s \in Services : last_scaled_at[s] \in Int
        BY <2>2, LabsAssumption DEF Ops!Tick, OpsInv, OpsTypes, LabsAssumption
      <3>4. \A s \in Services : OpsPruned(s)' /\ OpsScaled(s)'
        BY <2>2, <3>1, <3>3 DEF Ops!Tick, OpsInv, OpsPruned, OpsScaled
      <3> QED
        BY <3>2, <3>4 DEF OpsInv
    <2>3. ASSUME NEW s \in Services, Ops!Register(s) PROVE OpsInv'
      BY <2>3, FS_EmptySet DEF Ops!Register, OpsInv, OpsTypes, OpsPruned, OpsScaled, Ops!Never
    <2>4. ASSUME NEW s \in Services, NEW n \in ByHand, Ops!SetByHand(s, n) PROVE OpsInv'
      <3>1. n \in Nat
        BY LabsAssumption DEF LabsAssumption
      <3> QED
        BY <2>4, <3>1 DEF Ops!SetByHand, OpsInv, OpsTypes, OpsPruned, OpsScaled
    <2> QED
      BY <2>1, <2>2, <2>3, <2>4, RecordKeeps, AutoscaleKeeps, TriggerKeeps, StepEndsKeeps
      DEF Ops!OpsNext
  <1>3. OpsInv => [\A s \in Services :
       /\ Ops!TriggerIncident(s) => incidents'[Len(incidents')].severity = Ops!Due(s)
       /\ (\E u \in Utilizations : Ops!Autoscale(s, u)) =>
            IF Ops!Due(s) = "page" /\ replicas[s] < Policy.max
            THEN replicas'[s] = Ops!Larger(replicas[s] + 1, Policy.min)
            ELSE \/ replicas'[s] = replicas[s]
                 \/ /\ replicas'[s] \in Policy.min..Ops!Larger(Policy.min, Policy.max)
                    /\ changed[s] = Ops!Never \/ ops_now - changed[s] >= Policy.cooldown]_(Ops!opsVars)
    BY TriggerKeeps, AutoscaleKeeps
  <1> QED
    BY <1>1, <1>2, <1>3, PTL DEF OpsSpec, OperatesOnHistory, Ops!OperatesOnHistory
-------------------------------------------------------------------------------
(* Failover: what a trigger remembers is what was seen since the region was  *)
(* last found healthy after a fire, so its fires are earned, and an outage   *)
(* that shows itself for long enough finds it failed over, or firing.        *)

Probed == {"up", "down", "none"}
FailoverTypes ==
  /\ outage \in [at : 0..Steps, silent : BOOLEAN] /\ seen \in Seq(Probed)
  /\ failed_over \in [Triggers -> BOOLEAN]
  /\ fires \in [Triggers -> SUBSET (0..(Len(seen) - 1))]
  /\ state \in [Triggers -> [checks : SUBSET [at : Nat, ok : {"up", "down"}], failures : Nat]]
Reading(t, i) == Region!Recorded(t, seen[i + 1])
Steady(t, i) == \A j \in i..(Len(seen) - 1) : Reading(t, j) # "up"
Downs(t, i) == Cardinality({j \in i..(Len(seen) - 1) : Region!Down(t, j)})
\* s is what t remembers of the probes from `since' on
Watched(t, since) == {j \in since..(Len(seen) - 1) :
                        j >= Len(seen) - 1 - t.size /\ Reading(t, j) # "none"}
Remembers(t, s, since) ==
  /\ t.kind = "window" => s.checks = {[at |-> i, ok |-> Reading(t, i)] : i \in Watched(t, since)}
  /\ t.kind = "consecutive" =>
       /\ \E i \in since..Len(seen) : Steady(t, i) /\ s.failures = Downs(t, i)
       /\ \A i \in since..Len(seen) : Steady(t, i) => Downs(t, i) <= s.failures
\* `since' is when the region was found healthy after the last fire
Since(t, since) ==
  /\ since \in 0..Len(seen)
  /\ IF fires[t] = {} THEN since = 0
     ELSE /\ since < Len(seen) /\ seen[since + 1] = "up"
          /\ \A f \in fires[t] : f < since
Alert(t) ==
  IF failed_over[t]
  THEN \E f \in fires[t] : \A i \in (f + 1)..(Len(seen) - 1) : seen[i + 1] # "up"
  ELSE \E since \in 0..Len(seen) : Since(t, since) /\ Remembers(t, state[t], since)
Explained(t) ==
  \A f \in fires[t] :
    LET earlier == {g \in fires[t] : g < f} IN
    IF earlier = {} THEN Region!Earned(t, f, 0)
    ELSE \E up \in (Region!Latest(earlier) + 1)..f : seen[up + 1] = "up" /\ Region!Earned(t, f, up)
Caught(t) ==
  (/\ Len(seen) - outage.at >= Region!Needed(t)
   /\ \A i \in outage.at..(Len(seen) - 1) : Region!Down(t, i)) =>
     \E f \in fires[t] : /\ f < outage.at + Region!Needed(t)
                         /\ \/ f >= outage.at
                            \/ \A i \in (f + 1)..(outage.at - 1) : seen[i + 1] # "up"
RegionInv ==
  /\ FailoverTypes /\ \A i \in outage.at..(Len(seen) - 1) : seen[i + 1] # "up"
  /\ \A t \in Triggers : Alert(t) /\ Explained(t) /\ Caught(t)

\* Of some times one is the first and one the latest.
LEMMA EndsOf ==
  ASSUME NEW m \in Int, NEW times \in SUBSET (0..m), times # {}
  PROVE  /\ Region!Latest(times) \in times /\ \A g \in times : g <= Region!Latest(times)
         /\ Region!First(times) \in times /\ \A g \in times : Region!First(times) <= g
  <1>1. \E f \in times : \A g \in times : g <= f
    <2> DEFINE back == [g \in times |-> m - g]
    <2>1. \A g \in times : back[g] \in Nat
      OBVIOUS
    <2>2. PICK f \in times : \A g \in times : back[f] <= back[g]
      BY <2>1, LeastOf
    <2> QED
      BY <2>2
  <1>2. \E f \in times : \A g \in times : f <= g
    <2>1. times \subseteq Nat
      OBVIOUS
    <2> QED
      BY <2>1, LeastNumber
  <1> QED
    BY <1>1, <1>2 DEF Region!Latest, Region!First

\* What a trigger is, and what it makes of a probe.
LEMMA TriggerIs ==
  ASSUME NEW t \in Triggers
  PROVE  /\ t.kind \in {"window", "consecutive"} /\ t.size \in Nat \ {0}
         /\ \A p \in Probed : /\ Region!Recorded(t, p) \in Probed
                              /\ Region!Recorded(t, p) = "up" <=> p = "up"
         /\ Region!Needed(t) \in Nat \ {0}
  <1>1. t \in [kind : {"window", "consecutive"}, size : Nat \ {0}, silence_is_failure : BOOLEAN]
    BY LabsAssumption DEF LabsAssumption
  <1> QED
    BY <1>1 DEF Probed, Region!Recorded, Region!Needed

\* One more probe changes nothing of the earlier ones.
LEMMA ProbeAppends ==
  ASSUME FailoverTypes, NEW healthy \in Probed, seen' = Append(seen, healthy), NEW n, n = Len(seen)
  PROVE  /\ n \in Nat /\ Len(seen)' = n + 1 /\ seen' \in Seq(Probed) /\ seen'[n + 1] = healthy
         /\ \A i \in 0..(n - 1) : seen'[i + 1] = seen[i + 1] /\ seen[i + 1] \in Probed
         /\ \A t : /\ Reading(t, n)' = Region!Recorded(t, healthy)
                   /\ \A i \in 0..(n - 1) : Reading(t, i)' = Reading(t, i)
                   /\ \A i \in 0..(n - 1) : Region!Down(t, i)' <=> Region!Down(t, i)
  <1>1. seen \in Seq(Probed) /\ n \in Nat
    BY DEF FailoverTypes
  <1>2. \A i \in 0..(n - 1) : seen'[i + 1] = seen[i + 1] /\ seen[i + 1] \in Probed
    BY <1>1
  <1>3. Len(seen)' = n + 1 /\ seen' \in Seq(Probed) /\ seen'[n + 1] = healthy
    BY <1>1
  <1>4. \A t : \A i \in 0..(n - 1) : Reading(t, i)' = Reading(t, i)
    BY <1>2 DEF Reading, Region!Recorded
  <1>5. \A t : \A i \in 0..(n - 1) : Region!Down(t, i)' <=> Region!Down(t, i)
    BY <1>2 DEF Region!Down, Region!Recorded
  <1>6. \A t : Reading(t, n)' = Region!Recorded(t, healthy)
    BY <1>3 DEF Reading, Region!Recorded
  <1> QED
    BY <1>1, <1>2, <1>3, <1>4, <1>5, <1>6

\* What a trigger remembers is of its type.
LEMMA ObservedIs ==
  ASSUME NEW healthy, NEW t \in Triggers, NEW n \in Nat, healthy \in Probed,
         NEW s \in [checks : SUBSET [at : Nat, ok : {"up", "down"}], failures : Nat]
  PROVE  Region!Observed(t, s, n, healthy)
           \in [checks : SUBSET [at : Nat, ok : {"up", "down"}], failures : Nat]
  <1> DEFINE ok == Region!Recorded(t, healthy)
             added == s.checks \cup (IF ok = "none" THEN {} ELSE {[at |-> n, ok |-> ok]})
  <1>1. ok \in Probed
    BY TriggerIs
  <1>2. added \in SUBSET [at : Nat, ok : {"up", "down"}]
    BY <1>1 DEF Probed
  <1> QED
    BY <1>2 DEF Region!Observed, Region!InWindow

\* Observing a probe, a trigger remembers one more.
LEMMA ObserveRemembers ==
  ASSUME FailoverTypes, NEW healthy \in Probed, seen' = Append(seen, healthy), NEW t \in Triggers,
         NEW n \in Nat, n = Len(seen), NEW since \in 0..n,
         NEW s \in [checks : SUBSET [at : Nat, ok : {"up", "down"}], failures : Nat],
         Remembers(t, s, since)
  PROVE  /\ Remembers(t, Region!Observed(t, s, n, healthy), since)'
         /\ Region!Observed(t, s, n, healthy)
              \in [checks : SUBSET [at : Nat, ok : {"up", "down"}], failures : Nat]
  <1> DEFINE ok == Region!Recorded(t, healthy)
             added == s.checks \cup (IF ok = "none" THEN {} ELSE {[at |-> n, ok |-> ok]})
             after == Region!Observed(t, s, n, healthy)
  <1>1. /\ t.kind \in {"window", "consecutive"} /\ t.size \in Nat \ {0} /\ ok \in Probed
    BY TriggerIs
  <1>2. after \in [checks : SUBSET [at : Nat, ok : {"up", "down"}], failures : Nat]
    BY ObservedIs
  <1>3. /\ Len(seen)' = n + 1
        /\ \A i \in 0..(n - 1) : Reading(t, i)' = Reading(t, i)
        /\ \A i \in 0..(n - 1) : Region!Down(t, i)' <=> Region!Down(t, i)
        /\ Reading(t, n)' = ok
    <2>1. Len(seen)' = n + 1
      BY ProbeAppends
    <2>2. /\ \A i \in 0..(n - 1) : Reading(t, i)' = Reading(t, i)
          /\ \A i \in 0..(n - 1) : Region!Down(t, i)' <=> Region!Down(t, i)
      BY ProbeAppends
    <2>3. Reading(t, n)' = ok
      BY ProbeAppends
    <2> QED
      BY <2>1, <2>2, <2>3
  <1>4. ASSUME t.kind = "window"
        PROVE  after.checks = {[at |-> i, ok |-> Reading(t, i)'] : i \in Watched(t, since)'}
    <2>1. s.checks = {[at |-> i, ok |-> Reading(t, i)] : i \in Watched(t, since)}
      BY <1>4 DEF Remembers
    <2>2. after.checks = {c \in added : c.at >= n - t.size}
      BY <1>4 DEF Region!Observed, Region!InWindow
    <2>3. Watched(t, since)' = {j \in since..n : j >= n - t.size /\ Reading(t, j)' # "none"}
      BY <1>3 DEF Watched
    <2>4. Watched(t, since) = {j \in since..(n - 1) : j >= n - 1 - t.size /\ Reading(t, j) # "none"}
      BY DEF Watched
    <2>5. ASSUME NEW c \in after.checks
          PROVE  c \in {[at |-> i, ok |-> Reading(t, i)'] : i \in Watched(t, since)'}
      <3>1. c \in added /\ c.at >= n - t.size
        BY <2>2, <2>5
      <3>2. CASE c \in s.checks
        <4>1. PICK i \in Watched(t, since) : c = [at |-> i, ok |-> Reading(t, i)]
          BY <2>1, <3>2
        <4>2. i \in Watched(t, since)' /\ Reading(t, i)' = Reading(t, i)
          BY <1>1, <1>3, <2>3, <2>4, <3>1, <4>1
        <4> QED
          BY <4>1, <4>2
      <3>3. CASE c \notin s.checks
        <4>1. ok # "none" /\ c = [at |-> n, ok |-> ok]
          BY <3>1, <3>3
        <4>2. n \in Watched(t, since)'
          BY <1>1, <1>3, <2>3, <4>1
        <4> QED
          BY <1>3, <4>1, <4>2
      <3> QED
        BY <3>2, <3>3
    <2>6. ASSUME NEW i \in Watched(t, since)'
          PROVE  [at |-> i, ok |-> Reading(t, i)'] \in after.checks
      <3>1. i \in since..n /\ i >= n - t.size /\ Reading(t, i)' # "none"
        BY <2>3
      <3>2. CASE i = n
        BY <1>3, <2>2, <3>1, <3>2
      <3>3. CASE i # n
        <4>1. i \in Watched(t, since) /\ Reading(t, i)' = Reading(t, i)
          BY <1>1, <1>3, <2>4, <3>1, <3>3
        <4> QED
          BY <2>1, <2>2, <3>1, <4>1
      <3> QED
        BY <3>2, <3>3
    <2> HIDE DEF after
    <2> QED
      BY <2>5, <2>6
  <1>5. ASSUME t.kind = "consecutive"
        PROVE  /\ \E i \in since..(n + 1) : Steady(t, i)' /\ after.failures = Downs(t, i)'
               /\ \A i \in since..(n + 1) : Steady(t, i)' => Downs(t, i)' <= after.failures
    <2>1. /\ \E i \in since..n : Steady(t, i) /\ s.failures = Downs(t, i)
          /\ \A i \in since..n : Steady(t, i) => Downs(t, i) <= s.failures
      BY <1>5 DEF Remembers
    <2>2. after.failures = IF ok = "none" THEN s.failures ELSE IF ok = "up" THEN 0 ELSE s.failures + 1
      BY <1>1, <1>5 DEF Region!Observed
    <2>3. \A i \in since..n : Steady(t, i)' <=> Steady(t, i) /\ ok # "up"
      BY <1>3 DEF Steady
    <2>4. ASSUME NEW i \in since..n
          PROVE  Downs(t, i)' = Downs(t, i) + (IF ok = "down" THEN 1 ELSE 0) /\ Downs(t, i) \in Nat
      <3> DEFINE before == {j \in i..(n - 1) : Region!Down(t, j)}
      <3>1. Region!Down(t, n)' <=> ok = "down"
        BY <1>3 DEF Region!Down, Reading
      <3>2. {j \in i..n : Region!Down(t, j)'} = before \cup (IF ok = "down" THEN {n} ELSE {})
        BY <1>3, <3>1
      <3>3. IsFiniteSet(before)
        <4>1. before \subseteq i..(n - 1) /\ i \in Int /\ n - 1 \in Int
          OBVIOUS
        <4>2. IsFiniteSet(i..(n - 1))
          BY <4>1, FS_Interval
        <4> QED
          BY <4>1, <4>2, FS_Subset
      <3>4. n \notin before
        OBVIOUS
      <3>5. Downs(t, i) = Cardinality(before)
        BY DEF Downs
      <3>6. Downs(t, i)' = Cardinality({j \in i..n : Region!Down(t, j)'})
        BY <1>3 DEF Downs
      <3> HIDE DEF before
      <3>7. Cardinality(before) \in Nat /\ Cardinality(before \cup {n}) = Cardinality(before) + 1
        BY <3>3, <3>4, FS_AddElement, FS_CardinalityType
      <3>8. CASE ok = "down"
        <4>1. Downs(t, i)' = Cardinality(before \cup {n})
          BY <3>2, <3>6, <3>8
        <4> QED
          BY <3>5, <3>7, <3>8, <4>1
      <3>9. CASE ok # "down"
        <4>1. Downs(t, i)' = Cardinality(before)
          BY <3>2, <3>6, <3>9
        <4> QED
          BY <3>5, <3>7, <3>9, <4>1
      <3> QED
        BY <3>8, <3>9
    <2>5. Steady(t, n + 1)' /\ Downs(t, n + 1)' = 0
      <3>1. \A j : j \notin (n + 1)..(Len(seen)' - 1)
        BY <1>3
      <3>2. Steady(t, n + 1)'
        BY <3>1 DEF Steady
      <3>3. {j \in (n + 1)..(Len(seen)' - 1) : Region!Down(t, j)'} = {}
        BY <3>1
      <3> QED
        BY <3>2, <3>3, FS_EmptySet DEF Downs
    <2> HIDE DEF after
    <2>6. CASE ok = "up"
      <3>1. \A i \in since..(n + 1) : Steady(t, i)' => i = n + 1
        BY <2>3, <2>6
      <3>2. after.failures = 0
        BY <2>2, <2>6
      <3> QED
        BY <2>5, <3>1, <3>2
    <2>7. CASE ok # "up"
      <3>1. s.failures \in Nat /\ after.failures = s.failures + (IF ok = "down" THEN 1 ELSE 0)
        BY <1>1, <2>2, <2>7 DEF Probed
      <3>2. PICK i \in since..n : Steady(t, i) /\ s.failures = Downs(t, i)
        BY <2>1
      <3>3. i \in since..(n + 1) /\ Steady(t, i)' /\ after.failures = Downs(t, i)'
        BY <2>3, <2>4, <2>7, <3>1, <3>2
      <3>4. ASSUME NEW j \in since..(n + 1), Steady(t, j)' PROVE Downs(t, j)' <= after.failures
        <4>1. CASE j = n + 1
          BY <2>5, <3>1, <4>1
        <4>2. CASE j # n + 1
          <5>1. j \in since..n
            BY <4>2
          <5> QED
            BY <2>1, <2>3, <2>4, <3>1, <3>4, <5>1
        <4> QED
          BY <4>1, <4>2
      <3> QED
        BY <3>3, <3>4
    <2> QED
      BY <2>6, <2>7
  <1>6. Remembers(t, s, since)
    OBVIOUS
  <1> HIDE DEF after
  <1>7. \A a : a = after => Remembers(t, a, since)'
    BY <1>3, <1>4, <1>5 DEF Remembers
  <1> QED
    BY <1>2, <1>7 DEF after

\* A fire is earned by what the trigger remembers.
LEMMA FiresEarned ==
  ASSUME FailoverTypes, NEW healthy \in Probed, seen' = Append(seen, healthy), NEW t \in Triggers,
         NEW n \in Nat, n = Len(seen), NEW since \in 0..n,
         NEW s \in [checks : SUBSET [at : Nat, ok : {"up", "down"}], failures : Nat],
         Remembers(t, s, since)', Region!Fires(t, s, healthy)
  PROVE  Region!Earned(t, n, since)'
  <1>1. /\ t.kind \in {"window", "consecutive"} /\ t.size \in Nat \ {0}
    BY TriggerIs
  <1>2. Len(seen)' = n + 1
    BY ProbeAppends
  <1>3. \A i : Region!Down(t, i)' <=> Reading(t, i)' = "down"
    BY DEF Region!Down, Reading
  <1>4. CASE t.kind = "window"
    <2>1. /\ s.checks = {[at |-> i, ok |-> Reading(t, i)'] : i \in Watched(t, since)'}
          /\ s.checks # {} /\ \A c \in s.checks : c.ok = "down"
      BY <1>4 DEF Remembers, Region!Fires
    <2>2. Watched(t, since)' = {j \in since..n : j >= n - t.size /\ Reading(t, j)' # "none"}
      BY <1>2 DEF Watched
    <2>3. Watched(t, since)' # {} /\ \A i \in Watched(t, since)' : Reading(t, i)' = "down"
      <3>1. Watched(t, since)' # {}
        BY <2>1
      <3>2. ASSUME NEW i \in Watched(t, since)' PROVE Reading(t, i)' = "down"
        <4> DEFINE c == [at |-> i, ok |-> Reading(t, i)']
        <4>1. c \in s.checks
          BY <2>1
        <4>2. c.ok = "down"
          BY <2>1, <4>1
        <4> QED
          BY <4>2
      <3> QED
        BY <3>1, <3>2
    <2>4. \E i \in since..n : i >= n - t.size /\ Region!Down(t, i)'
      BY <1>3, <2>2, <2>3
    <2>5. \A i \in since..n : i >= n - t.size => Reading(t, i)' # "up"
      BY <2>2, <2>3
    <2> QED
      BY <1>4, <2>4, <2>5 DEF Region!Earned, Reading
  <1>5. CASE t.kind = "consecutive"
    <2>1. PICK i \in since..(n + 1) : Steady(t, i)' /\ s.failures = Downs(t, i)'
      BY <1>2, <1>5 DEF Remembers
    <2>2. s.failures >= t.size
      BY <1>5 DEF Region!Fires
    <2>3. Downs(t, i)' = Cardinality({j \in i..n : Region!Down(t, j)'})
      BY <1>2 DEF Downs
    <2>4. i # n + 1
      <3> SUFFICES ASSUME i = n + 1 PROVE FALSE
        OBVIOUS
      <3>1. {j \in i..n : Region!Down(t, j)'} = {}
        OBVIOUS
      <3>2. s.failures = 0
        BY <2>1, <2>3, <3>1, FS_EmptySet
      <3> QED
        BY <1>1, <2>2, <3>2
    <2>5. i \in since..n
      BY <2>4
    <2>6. \A j \in i..n : Reading(t, j)' # "up"
      BY <1>2, <2>1 DEF Steady
    <2>7. \A S : Region!Cardinality(S) = Cardinality(S)
      BY Zenon DEF Region!Cardinality, Cardinality
    <2>8. Region!Cardinality({j \in i..n : Region!Down(t, j)'}) >= t.size
      BY <2>1, <2>2, <2>3, <2>7
    <2> QED
      BY <1>5, <2>5, <2>6, <2>8 DEF Region!Earned, Reading
  <1> QED
    BY <1>1, <1>4, <1>5

\* A trigger that watches an outage fires as soon as it has shown enough of it.
LEMMA FiresInTime ==
  ASSUME FailoverTypes, NEW healthy \in Probed, seen' = Append(seen, healthy), NEW t \in Triggers,
         NEW n \in Nat, n = Len(seen), NEW at \in 0..n, NEW since \in 0..at,
         NEW s \in [checks : SUBSET [at : Nat, ok : {"up", "down"}], failures : Nat],
         Remembers(t, s, since)', n + 1 - at = Region!Needed(t),
         \A i \in at..n : Region!Down(t, i)'
  PROVE  Region!Fires(t, s, healthy)
  <1>1. /\ t.kind \in {"window", "consecutive"} /\ t.size \in Nat \ {0}
    BY TriggerIs
  <1>2. Len(seen)' = n + 1 /\ Reading(t, n)' = Region!Recorded(t, healthy)
    BY ProbeAppends
  <1>3. \A i \in at..n : Reading(t, i)' = "down"
    BY DEF Region!Down, Reading
  <1>4. CASE t.kind = "window"
    <2>1. at = n - t.size
      <3>1. Region!Needed(t) = t.size + 1
        BY <1>4 DEF Region!Needed
      <3>2. n \in Int /\ at \in Int /\ t.size \in Int /\ n + 1 - at = t.size + 1
        BY <1>1, <3>1
      <3> QED
        BY ONLY <3>2
    <2>2. Watched(t, since)' = {j \in since..n : j >= at /\ Reading(t, j)' # "none"}
      BY <1>2, <2>1 DEF Watched
    <2>3. n \in Watched(t, since)' /\ \A i \in Watched(t, since)' : Reading(t, i)' = "down"
      BY <1>3, <2>2
    <2>4. s.checks = {[at |-> i, ok |-> Reading(t, i)'] : i \in Watched(t, since)'}
      BY <1>4 DEF Remembers
    <2>5. [at |-> n, ok |-> Reading(t, n)'] \in s.checks
      BY <2>3, <2>4
    <2>6. ASSUME NEW c \in s.checks PROVE c.ok = "down"
      <3>1. PICK i \in Watched(t, since)' : c = [at |-> i, ok |-> Reading(t, i)']
        BY <2>4, <2>6
      <3> QED
        BY <2>3, <3>1
    <2> QED
      BY <1>4, <2>5, <2>6 DEF Region!Fires
  <1>5. CASE t.kind = "consecutive"
    <2>1. Steady(t, at)'
      BY <1>2, <1>3 DEF Steady
    <2>2. Downs(t, at)' <= s.failures
      BY <1>2, <1>5, <2>1 DEF Remembers
    <2>3. {j \in at..(Len(seen)' - 1) : Region!Down(t, j)'} = at..n
      BY <1>2
    <2>4. Downs(t, at)' = Cardinality(at..n)
      BY <2>3 DEF Downs
    <2>5. Cardinality(at..n) = n + 1 - at
      BY FS_Interval
    <2>6. n + 1 - at = t.size
      BY <1>5 DEF Region!Needed
    <2>7. Region!Recorded(t, healthy) = "down"
      BY <1>2, <1>3
    <2> QED
      BY <1>5, <2>2, <2>4, <2>5, <2>6, <2>7 DEF Region!Fires
  <1> QED
    BY <1>1, <1>4, <1>5

\* What earned a fire remains what it was.
LEMMA EarnedStays ==
  ASSUME FailoverTypes, NEW healthy \in Probed, seen' = Append(seen, healthy), NEW t \in Triggers,
         NEW n \in Nat, n = Len(seen), NEW f \in 0..(n - 1), NEW since \in 0..f,
         Region!Earned(t, f, since)
  PROVE  Region!Earned(t, f, since)'
  <1>1. /\ \A i \in since..f : Reading(t, i)' = Reading(t, i)
        /\ \A i \in since..f : Region!Down(t, i)' <=> Region!Down(t, i)
    <2>1. since..f \subseteq 0..(n - 1)
      OBVIOUS
    <2> QED
      BY <2>1, ProbeAppends
  <1>2. CASE t.kind = "window"
    BY <1>1, <1>2 DEF Region!Earned, Reading
  <1>3. CASE t.kind # "window"
    <2>1. PICK i \in since..f : /\ Region!Cardinality({j \in i..f : Region!Down(t, j)}) >= t.size
                               /\ \A j \in i..f : Reading(t, j) # "up"
      BY <1>3 DEF Region!Earned, Reading
    <2>2. \A j \in i..f : j \in since..f
      OBVIOUS
    <2>3. {j \in i..f : Region!Down(t, j)'} = {j \in i..f : Region!Down(t, j)}
      BY <1>1, <2>2
    <2>4. \A j \in i..f : Reading(t, j)' # "up"
      BY <1>1, <2>1, <2>2
    <2>5. Region!Cardinality({j \in i..f : Region!Down(t, j)'}) >= t.size
      BY <2>1, <2>3
    <2> QED
      BY <1>3, <2>4, <2>5 DEF Region!Earned, Reading
  <1> QED
    BY <1>2, <1>3

\* The fires there were are explained as before.
LEMMA StillExplained ==
  ASSUME RegionInv, NEW healthy \in Probed, seen' = Append(seen, healthy), NEW t \in Triggers,
         NEW n \in Nat, n = Len(seen), fires'[t] \in {fires[t], fires[t] \cup {n}},
         NEW f \in fires[t]
  PROVE  LET earlier == {g \in fires'[t] : g < f} IN
         IF earlier = {} THEN Region!Earned(t, f, 0)'
         ELSE \E up \in (Region!Latest(earlier) + 1)..f :
                seen'[up + 1] = "up" /\ Region!Earned(t, f, up)'
  <1> DEFINE earlier == {g \in fires[t] : g < f}
  <1>1. fires[t] \subseteq 0..(n - 1) /\ FailoverTypes
    BY DEF RegionInv, FailoverTypes
  <1>2. {g \in fires'[t] : g < f} = earlier
    BY <1>1
  <1>3. IF earlier = {} THEN Region!Earned(t, f, 0)
        ELSE \E up \in (Region!Latest(earlier) + 1)..f : seen[up + 1] = "up" /\ Region!Earned(t, f, up)
    BY DEF RegionInv, Explained
  <1>4. f \in 0..(n - 1) /\ earlier \in SUBSET (0..(n - 1))
    BY <1>1
  <1> HIDE DEF earlier
  <1>5. CASE earlier = {}
    <2>1. Region!Earned(t, f, 0)'
      BY <1>1, <1>3, <1>4, <1>5, EarnedStays
    <2> QED
      BY <1>2, <1>5, <2>1
  <1>6. CASE earlier # {}
    <2>1. Region!Latest(earlier) \in 0..(n - 1)
      <3>1. n - 1 \in Int
        OBVIOUS
      <3> QED
        BY <1>4, <1>6, <3>1, EndsOf
    <2>2. PICK up \in (Region!Latest(earlier) + 1)..f : seen[up + 1] = "up" /\ Region!Earned(t, f, up)
      BY <1>3, <1>6
    <2>3. up \in 0..f /\ up \in 0..(n - 1)
      BY <1>4, <2>1
    <2>4. Region!Earned(t, f, up)'
      BY <1>1, <1>4, <2>2, <2>3, EarnedStays
    <2>5. seen'[up + 1] = "up"
      BY <1>1, <2>2, <2>3, ProbeAppends
    <2> QED
      BY <1>2, <1>6, <2>2, <2>4, <2>5
  <1> QED
    BY <1>5, <1>6

\* An outage that has been seen for long enough was caught when it had been for just that long.
LEMMA CaughtOnce ==
  ASSUME RegionInv, NEW healthy \in Probed, seen' = Append(seen, healthy), NEW t \in Triggers,
         NEW n \in Nat, n = Len(seen), UNCHANGED outage, fires[t] \subseteq fires'[t],
         n + 1 - outage.at = Region!Needed(t) /\ (\A i \in outage.at..n : Region!Down(t, i)') =>
           \E f \in fires'[t] : /\ f \in 0..n
                               /\ \/ f >= outage.at
                                  \/ \A i \in (f + 1)..(outage.at - 1) : seen[i + 1] # "up"
  PROVE  Caught(t)'
  <1> DEFINE at == outage.at
  <1>1. FailoverTypes /\ at \in Nat
    BY DEF RegionInv, FailoverTypes
  <1>2. Region!Needed(t) \in Nat \ {0} /\ Region!Needed(t)' = Region!Needed(t)
    BY TriggerIs DEF Region!Needed
  <1>3. Len(seen)' = n + 1
    BY <1>1, ProbeAppends
  <1>4. \A i \in 0..(n - 1) : seen'[i + 1] = seen[i + 1]
    BY <1>1, ProbeAppends
  <1>5. \A i \in 0..(n - 1) : Region!Down(t, i)' <=> Region!Down(t, i)
    BY <1>1, ProbeAppends
  <1>6. fires[t] \subseteq 0..(n - 1)
    BY DEF RegionInv, FailoverTypes
  <1> SUFFICES ASSUME Len(seen)' - outage'.at >= Region!Needed(t),
                      \A i \in outage'.at..(Len(seen)' - 1) : Region!Down(t, i)'
               PROVE  \E f \in fires'[t] : /\ f < at + Region!Needed(t)
                                          /\ \/ f >= at
                                             \/ \A i \in (f + 1)..(at - 1) : seen'[i + 1] # "up"
    BY DEF Caught, Region!Needed
  <1>9. n + 1 - at >= Region!Needed(t) /\ \A i \in at..n : Region!Down(t, i)'
    <2>1. outage'.at = at /\ Len(seen)' = n + 1 /\ Len(seen)' - 1 = n
      BY <1>3
    <2>2. n + 1 - at >= Region!Needed(t)
      <3>1. Len(seen)' - outage'.at = n + 1 - at
        <4> HIDE DEF at
        <4> QED
          BY <1>1, <2>1
      <3>2. Len(seen)' - outage'.at >= Region!Needed(t)
        OBVIOUS
      <3> QED
        BY ONLY <3>1, <3>2
    <2>3. \A i \in outage'.at..(Len(seen)' - 1) : Region!Down(t, i)'
      OBVIOUS
    <2>4. \A i \in at..n : Region!Down(t, i)'
      BY <2>1, <2>3
    <2> QED
      BY <2>2, <2>4
  <1>7. \E f \in fires'[t] : /\ f < at + Region!Needed(t) /\ f \in Nat
                            /\ \/ f >= at
                               \/ \A i \in (f + 1)..(at - 1) : seen[i + 1] # "up"
    <2>1. CASE n + 1 - at = Region!Needed(t)
      <3>1. PICK f \in fires'[t] : /\ f \in 0..n
                                  /\ \/ f >= at
                                     \/ \A i \in (f + 1)..(at - 1) : seen[i + 1] # "up"
        BY <1>9, <2>1
      <3>2. f < at + Region!Needed(t)
        BY <1>1, <1>2, <2>1, <3>1
      <3> QED
        BY <3>1, <3>2
    <2>2. CASE n + 1 - at # Region!Needed(t)
      <3>1. n - at >= Region!Needed(t)
        BY <1>1, <1>2, <1>9, <2>2
      <3>2. \A i \in at..(n - 1) : Region!Down(t, i)
        BY <1>1, <1>5, <1>9
      <3>3. Caught(t)
        BY DEF RegionInv
      <3> HIDE DEF at
      <3>4. PICK f \in fires[t] : /\ f < at + Region!Needed(t)
                                 /\ \/ f >= at
                                    \/ \A i \in (f + 1)..(at - 1) : seen[i + 1] # "up"
        BY <3>1, <3>2, <3>3 DEF Caught, at
      <3> QED
        BY <1>6, <3>4
    <2> QED
      BY <2>1, <2>2
  <1>8. at <= n
    BY <1>1, <1>2, <1>9
  <1> QED
    BY <1>1, <1>4, <1>7, <1>8

\* A probe that is not observed: the region is failed over, and not found healthy.
LEMMA QuietKeeps ==
  ASSUME RegionInv, NEW healthy \in Probed, seen' = Append(seen, healthy), NEW t \in Triggers,
         UNCHANGED outage, failed_over[t], healthy # "up", failed_over'[t], fires'[t] = fires[t]
  PROVE  Alert(t)' /\ Explained(t)' /\ Caught(t)'
  <1>1. PICK n \in Nat : n = Len(seen)
    BY DEF RegionInv, FailoverTypes
  <1>2. FailoverTypes /\ fires[t] \subseteq 0..(n - 1) /\ outage.at \in Nat
    BY <1>1 DEF RegionInv, FailoverTypes
  <1>3. PICK f \in fires[t] : \A i \in (f + 1)..(n - 1) : seen[i + 1] # "up"
    BY <1>1 DEF RegionInv, Alert
  <1>4. Len(seen)' = n + 1 /\ seen'[n + 1] = healthy
    BY <1>1, <1>2, ProbeAppends
  <1>5. \A i \in 0..(n - 1) : seen'[i + 1] = seen[i + 1]
    BY <1>1, <1>2, ProbeAppends
  <1>6. Alert(t)'
    <2>1. f \in 0..(n - 1)
      BY <1>2
    <2>2. \A i \in (f + 1)..n : seen'[i + 1] # "up"
      BY <1>3, <1>4, <1>5, <2>1
    <2>3. \A i \in (f + 1)..(Len(seen)' - 1) : seen'[i + 1] # "up"
      <3>1. Len(seen)' - 1 = n
        BY <1>4
      <3> QED
        BY <2>2, <3>1
    <2> QED
      BY <2>3 DEF Alert
  <1>7. Explained(t)'
    BY <1>1, StillExplained DEF Explained
  <1>8. Caught(t)'
    <2>1. n + 1 - outage.at = Region!Needed(t) => \A i \in (f + 1)..(outage.at - 1) : seen[i + 1] # "up"
      BY <1>2, <1>3, TriggerIs
    <2>2. f \in 0..n
      BY <1>2
    <2> QED
      BY <1>1, <2>1, <2>2, CaughtOnce
  <1> QED
    BY <1>6, <1>7, <1>8

\* A probe that is observed: the trigger fires, or remembers it.
LEMMA WatchKeeps ==
  ASSUME RegionInv, NEW healthy \in Probed, seen' = Append(seen, healthy), NEW t \in Triggers,
         UNCHANGED outage, ~(failed_over[t] /\ healthy # "up"), NEW n \in Nat, n = Len(seen),
         n >= outage.at => healthy # "up",
         NEW s, s = Region!Observed(t, IF failed_over[t] THEN Region!NoHistory ELSE state[t], n, healthy),
         NEW fired \in BOOLEAN, fired <=> Region!Fires(t, s, healthy),
         failed_over'[t] <=> fired, fires'[t] = fires[t] \cup (IF fired THEN {n} ELSE {}),
         state'[t] = s
  PROVE  Alert(t)' /\ Explained(t)' /\ Caught(t)'
  <1> DEFINE State == [checks : SUBSET [at : Nat, ok : {"up", "down"}], failures : Nat]
             before == IF failed_over[t] THEN Region!NoHistory ELSE state[t]
  <1>1. FailoverTypes /\ fires[t] \subseteq 0..(n - 1) /\ outage.at \in Nat
    BY DEF RegionInv, FailoverTypes
  <1>2. Len(seen)' = n + 1 /\ seen'[n + 1] = healthy
    BY <1>1, ProbeAppends
  <1>3. \A i \in 0..(n - 1) : seen'[i + 1] = seen[i + 1]
    BY <1>1, ProbeAppends
  <1>4. before \in State
    BY <1>1 DEF Region!NoHistory, FailoverTypes
  <1>5. PICK since \in 0..n :
          /\ Remembers(t, before, since)
          /\ fires[t] = {} => since = 0
          /\ fires[t] # {} => seen'[since + 1] = "up"
          /\ \A f \in fires[t] : f < since
    <2>1. CASE failed_over[t]
      <3>1. fires[t] # {} /\ healthy = "up"
        BY <2>1 DEF RegionInv, Alert
      <3>2. Watched(t, n) = {}
        BY DEF Watched
      <3>3. Steady(t, n)
        BY DEF Steady
      <3>4. Downs(t, n) = 0
        <4>1. {j \in n..(n - 1) : Region!Down(t, j)} = {}
          OBVIOUS
        <4> QED
          BY <4>1, FS_EmptySet DEF Downs
      <3>5. before.checks = {} /\ before.failures = 0
        BY <2>1 DEF Region!NoHistory
      <3> HIDE DEF before
      <3>6. t.kind = "window" => before.checks = {[at |-> i, ok |-> Reading(t, i)] : i \in Watched(t, n)}
        BY <3>2, <3>5
      <3>7. /\ \E i \in n..Len(seen) : Steady(t, i) /\ before.failures = Downs(t, i)
            /\ \A i \in n..Len(seen) : Steady(t, i) => Downs(t, i) <= before.failures
        BY <3>3, <3>4, <3>5
      <3>8. Remembers(t, before, n)
        BY <3>6, <3>7 DEF Remembers
      <3> QED
        BY <1>1, <1>2, <3>1, <3>8
    <2>2. CASE ~failed_over[t]
      <3>1. PICK since \in 0..n : Since(t, since) /\ Remembers(t, state[t], since)
        BY <2>2 DEF RegionInv, Alert
      <3>2. fires[t] # {} => since \in 0..(n - 1)
        BY <3>1 DEF Since
      <3>3. fires[t] # {} => seen'[since + 1] = "up"
        BY <1>3, <3>1, <3>2 DEF Since
      <3> QED
        BY <2>2, <3>1, <3>3 DEF Since
    <2> QED
      BY <2>1, <2>2
  <1> HIDE DEF before
  <1>6. s \in State /\ Remembers(t, s, since)'
    BY <1>1, <1>4, <1>5, ObserveRemembers DEF before
  <1>7. Alert(t)'
    <2>1. CASE fired
      <3>1. n \in fires'[t] /\ \A i \in (n + 1)..(Len(seen)' - 1) : seen'[i + 1] # "up"
        BY <1>2, <2>1
      <3> QED
        BY <2>1, <3>1 DEF Alert
    <2>2. CASE ~fired
      <3>1. since \in 0..(n + 1) /\ since < n + 1 /\ fires'[t] = fires[t]
        BY <2>2
      <3>2. Since(t, since)'
        BY <1>2, <1>5, <3>1 DEF Since
      <3> QED
        BY <1>2, <1>6, <2>2, <3>1, <3>2 DEF Alert
    <2> QED
      BY <2>1, <2>2
  <1>8. Explained(t)'
    <2>1. ASSUME NEW f \in fires[t]
          PROVE  LET earlier == {g \in fires'[t] : g < f} IN
                 IF earlier = {} THEN Region!Earned(t, f, 0)'
                 ELSE \E up \in (Region!Latest(earlier) + 1)..f :
                        seen'[up + 1] = "up" /\ Region!Earned(t, f, up)'
      BY StillExplained
    <2>2. ASSUME fired
          PROVE  LET earlier == {g \in fires'[t] : g < n} IN
                 IF earlier = {} THEN Region!Earned(t, n, 0)'
                 ELSE \E up \in (Region!Latest(earlier) + 1)..n :
                        seen'[up + 1] = "up" /\ Region!Earned(t, n, up)'
      <3>1. Region!Earned(t, n, since)'
        BY <1>1, <1>6, <2>2, FiresEarned
      <3>2. {g \in fires'[t] : g < n} = fires[t]
        BY <1>1, <2>2
      <3>3. fires[t] # {} => since \in (Region!Latest(fires[t]) + 1)..n
        <4> SUFFICES ASSUME fires[t] # {} PROVE since \in (Region!Latest(fires[t]) + 1)..n
          OBVIOUS
        <4>1. n - 1 \in Int
          OBVIOUS
        <4>2. Region!Latest(fires[t]) \in fires[t]
          BY <1>1, <4>1, EndsOf
        <4> QED
          BY <1>1, <1>5, <4>2
      <3> QED
        BY <1>5, <3>1, <3>2, <3>3
    <2>3. ASSUME NEW f \in fires'[t]
          PROVE  LET earlier == {g \in fires'[t] : g < f} IN
                 IF earlier = {} THEN Region!Earned(t, f, 0)'
                 ELSE \E up \in (Region!Latest(earlier) + 1)..f :
                        seen'[up + 1] = "up" /\ Region!Earned(t, f, up)'
      <3>1. f \in fires[t] \/ (fired /\ f = n)
        OBVIOUS
      <3>2. CASE f \in fires[t]
        BY <2>1, <3>2
      <3>3. CASE fired /\ f = n
        BY <2>2, <3>3
      <3> QED
        BY <3>1, <3>2, <3>3
    <2> QED
      BY <2>3 DEF Explained
  <1>9. Caught(t)'
    <2>1. ASSUME n + 1 - outage.at = Region!Needed(t), \A i \in outage.at..n : Region!Down(t, i)'
          PROVE  \E f \in fires'[t] : f \in 0..n /\ f >= outage.at
      <3>1. outage.at \in 0..n /\ healthy # "up"
        BY <1>1, <2>1, TriggerIs
      <3>2. since \in 0..outage.at
        <4>1. \A i \in outage.at..n : seen'[i + 1] # "up"
          <5>1. \A i \in outage.at..(n - 1) : seen[i + 1] # "up"
            BY DEF RegionInv
          <5>2. \A i \in outage.at..(n - 1) : i \in 0..(n - 1)
            BY <1>1
          <5> QED
            BY <1>1, <1>2, <1>3, <3>1, <5>1, <5>2
        <4> QED
          BY <1>1, <1>5, <4>1
      <3>3. Region!Fires(t, s, healthy)
        BY <1>1, <1>6, <2>1, <3>1, <3>2, FiresInTime
      <3> QED
        BY <3>1, <3>3
    <2> QED
      BY <2>1, CaughtOnce
  <1> QED
    BY <1>7, <1>8, <1>9

\* Detection is sound: for any triggers, any sequence of probes and any outage, a fire is earned by
\* what was seen since the region was last found healthy, and an outage that has shown what a
\* trigger needs is detected within it (simulate.py:25-61, triggers.py).
THEOREM DetectionCorrect == RegionSpec => []DetectionSound
  <1>1. Region!FailoverInit => RegionInv
    <2> SUFFICES ASSUME Region!FailoverInit PROVE RegionInv
      OBVIOUS
    <2>1. /\ outage \in [at : 0..Steps, silent : BOOLEAN] /\ seen = <<>> /\ Len(seen) = 0
          /\ state = [t \in Triggers |-> Region!NoHistory]
          /\ failed_over = [t \in Triggers |-> FALSE] /\ fires = [t \in Triggers |-> {}]
      BY DEF Region!FailoverInit
    <2>2. FailoverTypes
      BY <2>1 DEF FailoverTypes, Region!NoHistory
    <2>3. outage.at \in Nat
      BY <2>1
    <2>4. ASSUME NEW t \in Triggers PROVE Alert(t)
      <3>1. Since(t, 0)
        BY <2>1 DEF Since
      <3>2. Watched(t, 0) = {}
        BY <2>1 DEF Watched
      <3>3. Steady(t, 0)
        BY <2>1 DEF Steady
      <3>4. {j \in 0..(Len(seen) - 1) : Region!Down(t, j)} = {}
        BY <2>1
      <3>5. Downs(t, 0) = 0
        BY <3>4, FS_EmptySet DEF Downs
      <3>6. state[t].checks = {} /\ state[t].failures = 0
        BY <2>1 DEF Region!NoHistory
      <3>7. Remembers(t, state[t], 0)
        <4>1. 0..Len(seen) = {0}
          BY <2>1
        <4>2. {[at |-> i, ok |-> Reading(t, i)] : i \in Watched(t, 0)} = {}
          BY <3>2
        <4> QED
          BY <3>3, <3>5, <3>6, <4>1, <4>2 DEF Remembers
      <3> QED
        BY <2>1, <3>1, <3>7 DEF Alert
    <2>5. ASSUME NEW t \in Triggers PROVE Explained(t) /\ Caught(t)
      BY <2>1, <2>3, TriggerIs DEF Explained, Caught
    <2>6. \A i \in outage.at..(Len(seen) - 1) : seen[i + 1] # "up"
      BY <2>1, <2>3
    <2> QED
      BY <2>2, <2>4, <2>5, <2>6 DEF RegionInv
  <1>2. RegionInv /\ [Region!FailoverNext]_(Region!failoverVars) => RegionInv'
    <2>1. ASSUME RegionInv, UNCHANGED (Region!failoverVars) PROVE RegionInv'
      <3>1. UNCHANGED <<outage, seen, state, failed_over, fires>>
        BY <2>1 DEF Region!failoverVars
      <3>2. \A t : \A i : Reading(t, i)' = Reading(t, i) /\ (Region!Down(t, i)' <=> Region!Down(t, i))
        BY <3>1 DEF Reading, Region!Down, Region!Recorded
      <3>3. \A t : \A i : (Steady(t, i)' <=> Steady(t, i)) /\ Downs(t, i)' = Downs(t, i)
                         /\ Watched(t, i)' = Watched(t, i) /\ (Since(t, i)' <=> Since(t, i))
        BY <3>1, <3>2 DEF Steady, Downs, Watched, Since
      <3>4. \A t : \A s, since : Remembers(t, s, since)' <=> Remembers(t, s, since)
        BY <3>1, <3>2, <3>3 DEF Remembers
      <3>5. \A t : \A f, since : Region!Earned(t, f, since)' <=> Region!Earned(t, f, since)
        BY <3>1, <3>2 DEF Region!Earned
      <3>6. FailoverTypes'
        BY <2>1, <3>1 DEF RegionInv, FailoverTypes
      <3>7. ASSUME NEW t \in Triggers PROVE Alert(t)' /\ Explained(t)' /\ Caught(t)'
        <4>1. Alert(t)'
          BY <2>1, <3>1, <3>3, <3>4 DEF RegionInv, Alert
        <4>2. Explained(t)'
          BY <2>1, <3>1, <3>5 DEF RegionInv, Explained
        <4>3. Caught(t)'
          BY <2>1, <3>1, <3>2 DEF RegionInv, Caught, Region!Needed
        <4> QED
          BY <4>1, <4>2, <4>3
      <3> QED
        BY <2>1, <3>1, <3>6, <3>7 DEF RegionInv
    <2>2. ASSUME RegionInv, NEW healthy \in Probed, Region!Probe(healthy) PROVE RegionInv'
      <3>1. PICK n \in Nat : n = Len(seen)
        BY <2>2 DEF RegionInv, FailoverTypes
      <3> DEFINE s(t) == Region!Observed(t, IF failed_over[t] THEN Region!NoHistory ELSE state[t],
                                         n, healthy)
      <3>2. /\ seen' = Append(seen, healthy) /\ UNCHANGED outage
            /\ healthy \in Region!Due(n)
        BY <2>2, <3>1 DEF Region!Probe
      <3>3. ASSUME NEW t \in Triggers
            PROVE  LET fired == ~Region!Quiet(t, healthy) /\ Region!Fires(t, s(t), healthy) IN
                   /\ state'[t] = IF Region!Quiet(t, healthy) THEN state[t] ELSE s(t)
                   /\ failed_over'[t] = (fired \/ Region!Quiet(t, healthy))
                   /\ fires'[t] = fires[t] \cup (IF fired THEN {n} ELSE {})
        BY <2>2, <3>1 DEF Region!Probe
      <3> HIDE DEF s
      <3>4. /\ DOMAIN state' = Triggers /\ DOMAIN failed_over' = Triggers /\ DOMAIN fires' = Triggers
            /\ state' = [t \in Triggers |-> state'[t]]
            /\ failed_over' = [t \in Triggers |-> failed_over'[t]]
            /\ fires' = [t \in Triggers |-> fires'[t]]
        BY <2>2 DEF Region!Probe
      <3>5. n >= outage.at => healthy # "up"
        BY <2>2, <3>1, <3>2 DEF Region!Due, RegionInv, FailoverTypes
      <3>6. FailoverTypes /\ RegionInv
        BY <2>2 DEF RegionInv
      <3>7. \A i \in outage'.at..(Len(seen)' - 1) : seen'[i + 1] # "up"
        <4>1. /\ Len(seen)' = n + 1 /\ seen'[n + 1] = healthy /\ outage' = outage
              /\ \A i \in 0..(n - 1) : seen'[i + 1] = seen[i + 1]
          BY <3>1, <3>2, <3>6, ProbeAppends
        <4>2. Len(seen)' - 1 = n /\ outage.at \in Nat
          BY <3>6, <4>1 DEF FailoverTypes
        <4>3. \A i \in outage.at..(n - 1) : seen[i + 1] # "up"
          BY <3>1, <3>6 DEF RegionInv
        <4>4. \A i \in outage.at..n : seen'[i + 1] # "up"
          BY <3>5, <4>1, <4>2, <4>3
        <4> QED
          BY <4>1, <4>2, <4>4
      <3>8. FailoverTypes'
        <4> DEFINE State == [checks : SUBSET [at : Nat, ok : {"up", "down"}], failures : Nat]
        <4>1. Len(seen)' = n + 1 /\ seen' \in Seq(Probed)
          BY <3>1, <3>2, <3>6, ProbeAppends
        <4>2. \A t \in Triggers : state[t] \in State /\ Region!NoHistory \in State
          BY <3>6 DEF FailoverTypes, Region!NoHistory
        <4>3. \A t \in Triggers : s(t) \in State
          <5> HIDE DEF State
          <5> QED
            BY <4>2, ObservedIs DEF s, State
        <4>4. \A t \in Triggers : state'[t] \in State /\ failed_over'[t] \in BOOLEAN
          BY <3>3, <4>2, <4>3
        <4>5. \A t \in Triggers : fires'[t] \in SUBSET (0..n)
          BY <3>1, <3>3, <3>6 DEF FailoverTypes
        <4>6. Len(seen)' - 1 = n
          BY <4>1
        <4> HIDE DEF State
        <4>7. /\ state' \in [Triggers -> State] /\ failed_over' \in [Triggers -> BOOLEAN]
              /\ fires' \in [Triggers -> SUBSET (0..(Len(seen)' - 1))]
          BY <3>4, <4>4, <4>5, <4>6
        <4> QED
          BY <3>2, <3>6, <4>1, <4>7 DEF FailoverTypes, State
      <3>9. ASSUME NEW t \in Triggers PROVE Alert(t)' /\ Explained(t)' /\ Caught(t)'
        <4>1. CASE Region!Quiet(t, healthy)
          <5>1. failed_over[t] /\ healthy # "up" /\ failed_over'[t] /\ fires'[t] = fires[t]
            BY <3>3, <4>1 DEF Region!Quiet
          <5> QED
            BY <3>2, <3>6, <5>1, QuietKeeps
        <4>2. CASE ~Region!Quiet(t, healthy)
          <5>1. PICK fired \in BOOLEAN : fired <=> Region!Fires(t, s(t), healthy)
            OBVIOUS
          <5>2. /\ state'[t] = s(t) /\ (failed_over'[t] <=> fired)
                /\ fires'[t] = fires[t] \cup (IF fired THEN {n} ELSE {})
            BY <3>3, <4>2, <5>1
          <5>3. ~(failed_over[t] /\ healthy # "up")
            BY <4>2 DEF Region!Quiet
          <5>4. PICK r : r = s(t)
            OBVIOUS
          <5>5. r = Region!Observed(t, IF failed_over[t] THEN Region!NoHistory ELSE state[t], n, healthy)
            BY <5>4 DEF s
          <5>6. state'[t] = r /\ (fired <=> Region!Fires(t, r, healthy))
            BY <5>1, <5>2, <5>4
          <5> QED
            BY <3>1, <3>2, <3>5, <3>6, <5>2, <5>3, <5>5, <5>6, WatchKeeps
        <4> QED
          BY <4>1, <4>2
      <3> QED
        BY <3>7, <3>8, <3>9 DEF RegionInv
    <2> QED
      BY <2>1, <2>2 DEF Region!FailoverNext, Probed
  <1>3. RegionInv => DetectionSound
    <2> SUFFICES ASSUME RegionInv PROVE DetectionSound
      OBVIOUS
    <2>1. ASSUME NEW t \in Triggers, Len(seen) - outage.at >= Region!Needed(t),
                 \A i \in outage.at..(Len(seen) - 1) : Region!Down(t, i)
          PROVE  Region!Delay(t) \in 0..(Region!Needed(t) - 1)
      <3> DEFINE before == {f \in fires[t] : f < outage.at}
                 after == fires[t] \ before
                 m == Len(seen) - 1
      <3>1. /\ fires[t] \in SUBSET (0..m) /\ outage.at \in Nat /\ m \in Int
            /\ Region!Needed(t) \in Nat \ {0}
        BY TriggerIs DEF RegionInv, FailoverTypes
      <3>2. PICK f \in fires[t] : /\ f < outage.at + Region!Needed(t)
                                 /\ \/ f >= outage.at
                                    \/ \A i \in (f + 1)..(outage.at - 1) : seen[i + 1] # "up"
        BY <2>1 DEF RegionInv, Caught
      <3>3. Region!Delay(t) = IF before # {} /\ ~Region!HealthyBetween(Region!Latest(before), outage.at)
                              THEN 0 ELSE IF after = {} THEN Region!None
                                          ELSE Region!First(after) - outage.at
        BY DEF Region!Delay
      <3>4. before \in SUBSET (0..m) /\ after \in SUBSET (0..m) /\ \A g \in after : g >= outage.at
        BY <3>1
      <3>5. CASE f >= outage.at
        <4>1. f \in after
          BY <3>1, <3>5
        <4> HIDE DEF after, before, m
        <4>2. Region!First(after) \in after /\ Region!First(after) <= f
          BY <3>1, <3>4, <4>1, EndsOf
        <4>3. PICK a \in 0..m : a = Region!First(after) /\ a <= f /\ a >= outage.at
          BY <3>4, <4>2
        <4>4. a - outage.at \in 0..(Region!Needed(t) - 1)
          <5>1. f \in Int /\ a \in Int
            BY <3>1
          <5> QED
            BY <3>1, <3>2, <4>3, <5>1
        <4>5. Region!Delay(t) \in {0, a - outage.at}
          BY <3>3, <4>1, <4>3
        <4> QED
          BY <3>1, <3>3, <3>5, <4>1, <4>3, <4>4, <4>5
      <3>6. CASE f < outage.at
        <4>1. f \in before
          BY <3>6
        <4>2. \A i \in (f + 1)..(outage.at - 1) : seen[i + 1] # "up"
          BY <3>1, <3>2, <3>6
        <4> HIDE DEF after, before, m
        <4>3. Region!Latest(before) \in 0..m /\ f <= Region!Latest(before) /\ f \in 0..m
          BY <3>1, <3>4, <4>1, EndsOf
        <4>4. ~Region!HealthyBetween(Region!Latest(before), outage.at)
          BY <3>1, <4>2, <4>3 DEF Region!HealthyBetween
        <4> QED
          BY <3>1, <3>3, <4>1, <4>4
      <3> QED
        BY <3>1, <3>5, <3>6
    <2>2. ASSUME NEW d \in Int, NEW b \in Region!Standbys
          PROVE  Region!Breaches(d, b) <=> d > Region!Allowance(b)
      <3>1. /\ RTO \in Int /\ Platform.promotion \in Int /\ Platform.traffic_shift \in Int
            /\ Platform.capacity \in Int /\ Platform.weights \in Int
        BY LabsAssumption DEF LabsAssumption
      <3>2. Region!Warmup(b) \in Int
        BY <3>1 DEF Region!Warmup
      <3> QED
        BY <3>1, <3>2 DEF Region!Breaches, Region!Recovery, Region!Allowance
    <2>3. \A t \in Triggers : Explained(t) /\ Region!Needed(t) \in Nat \ {0}
      BY TriggerIs DEF RegionInv
    <2>4. ASSUME NEW t \in Triggers, Len(seen) - outage.at >= Region!Needed(t),
                 \A i \in outage.at..(Len(seen) - 1) : Region!Down(t, i)
          PROVE  /\ Region!Delay(t) \in 0..(Region!Needed(t) - 1)
                 /\ \A b \in Region!Standbys :
                      Region!Breaches(Region!Delay(t), b) <=> Region!Delay(t) > Region!Allowance(b)
      <3>1. Region!Delay(t) \in 0..(Region!Needed(t) - 1)
        BY <2>1, <2>4
      <3>2. Region!Delay(t) \in Int
        BY <2>3, <3>1
      <3> QED
        BY <2>2, <3>1, <3>2
    <2> QED
      BY <2>3, <2>4 DEF DetectionSound, Region!DetectionSound, Explained
  <1> QED
    BY <1>1, <1>2, <1>3, PTL DEF RegionSpec
-------------------------------------------------------------------------------
(* CheckpointCost: what is measured adds up because one more checkpoint adds *)
(* its cost, and what is read back is right because the writes since the     *)
(* last snapshot are exactly the numbers after it.                           *)

\* A sum along a list (total_bytes, measuring_saver.py).
Sums(g, n, list) == g = [k \in 0..n |-> IF k = 0 THEN 0 ELSE g[k - 1] + list[k]]

\* There is one.
LEMMA SumExists ==
  ASSUME NEW n \in Nat, NEW list
  PROVE  \E g : Sums(g, n, list)
  <1> DEFINE S == {k \in Nat : \E g : g = [i \in 0..k |-> IF i = 0 THEN 0 ELSE g[i - 1] + list[i]]}
  <1>1. 0 \in S
    <2> DEFINE g == [i \in 0..0 |-> 0]
    <2>1. g = [i \in 0..0 |-> IF i = 0 THEN 0 ELSE g[i - 1] + list[i]]
      OBVIOUS
    <2> QED
      BY <2>1
  <1>2. ASSUME NEW k \in Nat, k \in S PROVE k + 1 \in S
    <2>1. PICK g : g = [i \in 0..k |-> IF i = 0 THEN 0 ELSE g[i - 1] + list[i]]
      BY <1>2
    <2> DEFINE h == [i \in 0..(k + 1) |-> IF i = 0 THEN 0 ELSE g[i - 1] + list[i]]
    <2>2. ASSUME NEW i \in 0..(k + 1), i # 0 PROVE g[i - 1] = h[i - 1]
      <3>1. i - 1 \in 0..k /\ i - 1 \in 0..(k + 1)
        BY <2>2
      <3>2. g[i - 1] = IF i - 1 = 0 THEN 0 ELSE g[(i - 1) - 1] + list[i - 1]
        BY <2>1, <3>1
      <3> QED
        BY <3>1, <3>2
    <2>3. h = [i \in 0..(k + 1) |-> IF i = 0 THEN 0 ELSE h[i - 1] + list[i]]
      BY <2>2
    <2>4. \E f : f = [i \in 0..(k + 1) |-> IF i = 0 THEN 0 ELSE f[i - 1] + list[i]]
      <3> HIDE DEF h
      <3> QED
        BY <2>3
    <2>5. k + 1 \in Nat
      OBVIOUS
    <2> QED
      BY <2>4, <2>5
  <1> HIDE DEF S
  <1>3. n \in S
    BY <1>1, <1>2, EveryNumber
  <1> QED
    BY <1>3 DEF S, Sums

\* And only one, which is a number at every place (Total of a list of numbers).
LEMMA SumsAgree ==
  ASSUME NEW n \in Nat, NEW m \in Nat, n <= m, NEW s, NEW t, NEW g, NEW h,
         Sums(g, n, s), Sums(h, m, t), \A k \in 1..n : s[k] \in Int /\ t[k] = s[k]
  PROVE  g[n] = h[n] /\ g[n] \in Int
  <1> DEFINE S == {k \in Nat : k <= n => g[k] = h[k] /\ g[k] \in Int}
  <1>1. 0 \in S
    BY DEF Sums
  <1>2. ASSUME NEW k \in Nat, k \in S PROVE k + 1 \in S
    <2> SUFFICES ASSUME k + 1 <= n PROVE g[k + 1] = h[k + 1] /\ g[k + 1] \in Int
      OBVIOUS
    <2>1. k + 1 \in 0..n /\ k + 1 \in 0..m /\ k + 1 \in 1..n /\ k + 1 # 0 /\ (k + 1) - 1 = k
      OBVIOUS
    <2>2. g[k + 1] = g[k] + s[k + 1] /\ h[k + 1] = h[k] + t[k + 1]
      BY <2>1 DEF Sums
    <2> QED
      BY <1>2, <2>1, <2>2
  <1> HIDE DEF S
  <1>3. n \in S
    BY <1>1, <1>2, EveryNumber
  <1> QED
    BY <1>3 DEF S

\* What a total is.
LEMMA TotalIs ==
  ASSUME NEW list \in Seq(Int)
  PROVE  \E g : Sums(g, Len(list), list) /\ Checkpoints!Total(list) = g[Len(list)]
  <1>1. Len(list) \in Nat
    OBVIOUS
  <1>2. \E g : g = [k \in 0..Len(list) |-> IF k = 0 THEN 0 ELSE g[k - 1] + list[k]]
    BY <1>1, SumExists DEF Sums
  <1> DEFINE G == CHOOSE g : g = [k \in 0..Len(list) |-> IF k = 0 THEN 0 ELSE g[k - 1] + list[k]]
  <1>3. G = [k \in 0..Len(list) |-> IF k = 0 THEN 0 ELSE G[k - 1] + list[k]]
    BY <1>2
  <1>4. Checkpoints!Total(list) = G[Len(list)]
    BY DEF Checkpoints!Total
  <1> HIDE DEF G
  <1> QED
    BY <1>3, <1>4 DEF Sums

\* Nothing weighs nothing, and one more adds its weight (log_metadata, measuring_saver.py).
LEMMA TotalAppends ==
  /\ Checkpoints!Total(<<>>) = 0
  /\ \A list \in Seq(Int), x \in Int :
       /\ Checkpoints!Total(list) \in Int
       /\ Checkpoints!Total(Append(list, x)) = Checkpoints!Total(list) + x
  <1>1. Checkpoints!Total(<<>>) = 0
    <2> DEFINE none == <<>>
    <2>1. none \in Seq(Int) /\ Len(none) = 0 /\ 0 \in 0..0
      OBVIOUS
    <2> HIDE DEF none
    <2>2. PICK g : Sums(g, Len(none), none) /\ Checkpoints!Total(none) = g[Len(none)]
      BY <2>1, TotalIs
    <2>3. g[0] = 0
      BY <2>1, <2>2 DEF Sums
    <2>4. Checkpoints!Total(none) = 0
      BY <2>1, <2>2, <2>3
    <2> QED
      BY <2>4 DEF none
  <1>2. ASSUME NEW list \in Seq(Int), NEW x \in Int
        PROVE  /\ Checkpoints!Total(list) \in Int
               /\ Checkpoints!Total(Append(list, x)) = Checkpoints!Total(list) + x
    <2> DEFINE n == Len(list)
               longer == Append(list, x)
    <2>1. /\ n \in Nat /\ n + 1 \in Nat /\ n <= n + 1 /\ longer \in Seq(Int) /\ Len(longer) = n + 1
          /\ longer[n + 1] = x
          /\ \A k \in 1..n : list[k] \in Int /\ longer[k] = list[k]
      OBVIOUS
    <2>2. PICK g : Sums(g, n, list) /\ Checkpoints!Total(list) = g[n]
      BY TotalIs
    <2> HIDE DEF longer, n
    <2>3. PICK h : Sums(h, n + 1, longer) /\ Checkpoints!Total(longer) = h[n + 1]
      BY <2>1, TotalIs
    <2>4. g[n] = h[n] /\ g[n] \in Int
      BY <2>1, <2>2, <2>3, SumsAgree
    <2>5. n + 1 \in 0..(n + 1) /\ n + 1 # 0 /\ (n + 1) - 1 = n
      BY <2>1
    <2>6. h[n + 1] = h[n] + longer[n + 1]
      BY <2>3, <2>5 DEF Sums
    <2>7. Checkpoints!Total(longer) = Checkpoints!Total(list) + x
      BY <2>1, <2>2, <2>3, <2>4, <2>6
    <2> QED
      BY <2>2, <2>4, <2>7 DEF longer
  <1> QED
    BY <1>1, <1>2

\* How many steps have run by an update, and what it writes: nothing for the input, then the
\* numbers of the steps (invoke and _step, graphs.py).
Ran(u) == IF u = 0 THEN 0 ELSE u - 1
Batch(u) == IF u < 2 THEN <<>> ELSE <<u - 1>>
Weight(u) == IF u < 2 THEN 0 ELSE 1
\* The numbers after one, and what so many updates after one write and weigh.
After(a, k) == [i \in 1..k |-> a + i]
Batches(b, k) == [i \in 1..k |-> Batch(b + i)]
Weighed(b, k) == [i \in 1..k |-> Weight(b + i)]

\* The input is no step, every other update is one.
LEMMA RanIs ==
  ASSUME NEW u \in Nat
  PROVE  /\ Ran(u) \in Nat /\ Ran(u) <= u /\ Ran(u + 1) = u /\ Ran(0) = 0
         /\ u # 0 => Ran(u) = u - 1
         /\ Weight(u) \in Nat /\ Weight(u + 1) = Ran(u + 1) - Ran(u)
  BY DEF Ran, Weight

\* What the numbers after another look like, and the batches.
LEMMA AfterIs ==
  ASSUME NEW b \in Nat, NEW k \in Nat
  PROVE  /\ After(b, k) \in Seq(Nat) /\ Len(After(b, k)) = k
         /\ \A i \in 1..k : After(b, k)[i] = b + i
         /\ After(b, 0) = <<>> /\ After(b, 1) = <<b + 1>>
         /\ Batches(b, k) \in Seq(Seq(Nat)) /\ Len(Batches(b, k)) = k
         /\ \A i \in 1..k : Batches(b, k)[i] = Batch(b + i)
         /\ Batches(b, 0) = <<>>
  <1>1. \A i \in 1..k : Batch(b + i) \in Seq(Nat)
    BY DEF Batch
  <1>2. \A i \in 1..k : b + i \in Nat
    OBVIOUS
  <1>3. After(b, k) \in Seq(Nat) /\ Len(After(b, k)) = k /\ After(b, 0) = <<>> /\ After(b, 1) = <<b + 1>>
    BY <1>2 DEF After
  <1>4. Batches(b, k) \in Seq(Seq(Nat)) /\ Len(Batches(b, k)) = k /\ Batches(b, 0) = <<>>
    <2> HIDE DEF Batch
    <2> QED
      BY <1>1 DEF Batches
  <1> QED
    BY <1>3, <1>4 DEF After, Batches

\* Some numbers and those after them are all of them.
LEMMA AfterJoins ==
  ASSUME NEW a \in Nat, NEW m \in Nat, NEW k \in Nat
  PROVE  After(a, m) \o After(a + m, k) = After(a, m + k)
  <1> DEFINE s == After(a, m)
             t == After(a + m, k)
             l == s \o t
  <1>1. s \in Seq(Nat) /\ Len(s) = m /\ \A i \in 1..m : s[i] = a + i
    BY AfterIs
  <1>2. t \in Seq(Nat) /\ Len(t) = k /\ \A i \in 1..k : t[i] = (a + m) + i
    BY AfterIs, a + m \in Nat
  <1> HIDE DEF s, t
  <1>3. l \in Seq(Nat) /\ Len(l) = m + k /\ DOMAIN l = 1..(m + k)
    BY <1>1, <1>2
  <1>4. ASSUME NEW i \in 1..(m + k) PROVE l[i] = a + i
    <2>1. CASE i <= m
      <3>1. l[i] = s[i] /\ i \in 1..m
        BY <1>1, <1>2, <2>1
      <3> QED
        BY <1>1, <3>1
    <2>2. CASE i > m
      <3>1. l[i] = t[i - m] /\ i - m \in 1..k
        BY <1>1, <1>2, <2>2
      <3>2. t[i - m] = (a + m) + (i - m)
        BY <1>2, <3>1
      <3>3. (a + m) + (i - m) = a + i
        OBVIOUS
      <3> QED
        BY <3>1, <3>2, <3>3
    <2>3. i <= m \/ i > m
      OBVIOUS
    <2> QED
      BY <2>1, <2>2, <2>3
  <1> HIDE DEF l
  <1>5. l = [i \in 1..(m + k) |-> l[i]]
    BY <1>3
  <1>6. l = After(a, m + k)
    BY <1>4, <1>5 DEF After
  <1> QED
    BY <1>6 DEF l, s, t

\* What the updates after one write, folded, are the steps after those run
\* (operator.add over the writes, graphs.py).
LEMMA FlattenBatches ==
  ASSUME NEW b \in Nat, NEW k \in Nat
  PROVE  Checkpoints!FlattenSeq(Batches(b, k)) = After(Ran(b), Ran(b + k) - Ran(b))
  <1> DEFINE seqs == Batches(b, k)
             Folded(j) == After(Ran(b), Ran(b + j) - Ran(b))
  <1>0. /\ seqs \in Seq(Seq(Nat)) /\ Len(seqs) = k
        /\ \A i \in 1..k : seqs[i] = Batch(b + i)
    BY AfterIs
  <1>1. CASE k = 0
    <2>1. seqs = <<>> /\ Folded(0) = <<>>
      <3>1. Ran(b) \in Nat /\ b + 0 = b /\ Ran(b) - Ran(b) = 0
        BY RanIs
      <3> QED
        BY <1>1, <3>1, AfterIs, 0 \in Nat
    <2> QED
      BY <1>0, <1>1, <2>1 DEF Checkpoints!FlattenSeq
  <1>2. CASE k # 0
    <2> HIDE DEF seqs
    <2> DEFINE F == [j \in 1..k |-> Folded(j)]
    <2>1. ASSUME NEW j \in 1..k, j # 1 PROVE Folded(j) = Folded(j - 1) \o seqs[j]
      <3> DEFINE a == Ran(b)
                 m == ((b + j) - 2) - a
      <3>1. /\ a \in Nat /\ m \in Nat /\ (a + m) + 1 = (b + j) - 1
            /\ Ran(b + (j - 1)) - a = m /\ Ran(b + j) - a = m + 1
        BY <2>1 DEF Ran
      <3>2. seqs[j] = <<(a + m) + 1>>
        BY <1>0, <2>1, <3>1 DEF Batch
      <3> HIDE DEF a, m
      <3>3. After(a, m) \o After(a + m, 1) = After(a, m + 1)
        BY <3>1, AfterJoins, 1 \in Nat
      <3>4. After(a + m, 1) = <<(a + m) + 1>>
        BY <3>1, AfterIs, a + m \in Nat, 1 \in Nat
      <3> QED
        BY <3>1, <3>2, <3>3, <3>4 DEF a
    <2>2. Folded(1) = seqs[1]
      <3>1. seqs[1] = Batch(b + 1)
        BY <1>0, <1>2
      <3>2. CASE b = 0
        <4>1. Ran(b) = 0 /\ Ran(b + 1) - Ran(b) = 0 /\ Batch(b + 1) = <<>>
          BY <3>2 DEF Ran, Batch
        <4> QED
          BY <3>1, <4>1, AfterIs, 0 \in Nat
      <3>3. CASE b # 0
        <4>1. Ran(b) \in Nat /\ Ran(b + 1) - Ran(b) = 1 /\ Batch(b + 1) = <<Ran(b) + 1>>
          BY <3>3 DEF Ran, Batch
        <4> QED
          BY <3>1, <4>1, AfterIs, 1 \in Nat
      <3> QED
        BY <3>2, <3>3
    <2> HIDE DEF Folded
    <2>3. \A j \in 1..k : j # 1 => j - 1 \in 1..k
      OBVIOUS
    <2>4. F = [j \in 1..k |-> IF j = 1 THEN seqs[j] ELSE F[j - 1] \o seqs[j]]
      BY <2>1, <2>2, <2>3
    <2> DEFINE G == CHOOSE g : g = [j \in 1..Len(seqs) |->
                                      IF j = 1 THEN seqs[j] ELSE g[j - 1] \o seqs[j]]
    <2> HIDE DEF F
    <2>5. G = [j \in 1..k |-> IF j = 1 THEN seqs[j] ELSE G[j - 1] \o seqs[j]]
      BY <1>0, <2>4
    <2>6. Checkpoints!FlattenSeq(seqs) = G[k]
      BY <1>0, <1>2 DEF Checkpoints!FlattenSeq
    <2> HIDE DEF G
    <2> DEFINE S == {j \in Nat : j + 1 <= k => G[j + 1] = Folded(j + 1)}
    <2>7. 0 \in S
      BY <1>2, <2>2, <2>5
    <2>8. ASSUME NEW j \in Nat, j \in S PROVE j + 1 \in S
      <3> SUFFICES ASSUME (j + 1) + 1 <= k PROVE G[(j + 1) + 1] = Folded((j + 1) + 1)
        OBVIOUS
      <3> DEFINE m == (j + 1) + 1
      <3>1. m \in 1..k /\ m # 1 /\ m - 1 = j + 1 /\ j + 1 <= k
        OBVIOUS
      <3> HIDE DEF m
      <3>2. G[m] = G[m - 1] \o seqs[m]
        BY <2>5, <3>1
      <3>3. G[m - 1] = Folded(m - 1)
        BY <2>8, <3>1
      <3>4. Folded(m) = Folded(m - 1) \o seqs[m]
        BY <2>1, <3>1
      <3> QED
        BY <3>2, <3>3, <3>4 DEF m
    <2> HIDE DEF S
    <2>9. k - 1 \in Nat /\ (k - 1) + 1 = k
      BY <1>2
    <2>10. k - 1 \in S
      BY <2>7, <2>8, <2>9, EveryNumber
    <2> QED
      BY <2>6, <2>9, <2>10 DEF S, seqs, Folded
  <1> QED
    BY <1>1, <1>2

\* A batch more is a batch at the end, and so is its weight.
LEMMA BatchesAppend ==
  ASSUME NEW b \in Nat, NEW k \in Nat
  PROVE  /\ Batches(b, k) \o <<Batch((b + k) + 1)>> = Batches(b, k + 1)
         /\ Append(Weighed(b, k), Weight((b + k) + 1)) = Weighed(b, k + 1)
  <1>1. Batches(b, k) \o <<Batch((b + k) + 1)>> = Batches(b, k + 1)
    <2> DEFINE s == Batches(b, k)
               e == Batch((b + k) + 1)
               l == s \o <<e>>
    <2>1. s \in Seq(Seq(Nat)) /\ Len(s) = k /\ \A i \in 1..k : s[i] = Batch(b + i)
      BY AfterIs
    <2>2. e \in Seq(Nat) /\ e = Batch(b + (k + 1))
      BY DEF Batch
    <2> HIDE DEF s, e
    <2>3. Len(l) = k + 1 /\ l \in Seq(Seq(Nat)) /\ l[k + 1] = e /\ \A i \in 1..k : l[i] = s[i]
      BY <2>1, <2>2
    <2> HIDE DEF l
    <2>4. l = [i \in 1..(k + 1) |-> l[i]]
      BY <2>3
    <2>5. \A i \in 1..(k + 1) : l[i] = Batch(b + i)
      <3>1. \A i \in 1..(k + 1) : i \in 1..k \/ i = k + 1
        OBVIOUS
      <3>2. \A i \in 1..k : l[i] = Batch(b + i)
        BY <2>1, <2>3
      <3>3. l[k + 1] = Batch(b + (k + 1))
        BY <2>2, <2>3
      <3> QED
        BY Zenon, <3>1, <3>2, <3>3
    <2> QED
      BY <2>4, <2>5 DEF l, s, e, Batches
  <1>2. Append(Weighed(b, k), Weight((b + k) + 1)) = Weighed(b, k + 1)
    <2> DEFINE s == Weighed(b, k)
               e == Weight((b + k) + 1)
               l == Append(s, e)
    <2>1. s \in Seq(Nat) /\ Len(s) = k /\ \A i \in 1..k : s[i] = Weight(b + i)
      <3>1. \A i \in 1..k : Weight(b + i) \in Nat
        BY DEF Weight
      <3> QED
        BY <3>1 DEF Weighed
    <2>2. e \in Nat /\ e = Weight(b + (k + 1))
      BY DEF Weight
    <2> HIDE DEF s, e
    <2>3. Len(l) = k + 1 /\ l \in Seq(Nat) /\ l[k + 1] = e /\ \A i \in 1..k : l[i] = s[i]
      BY <2>1, <2>2
    <2> HIDE DEF l
    <2>4. l = [i \in 1..(k + 1) |-> l[i]]
      BY <2>3
    <2>5. \A i \in 1..(k + 1) : l[i] = Weight(b + i)
      BY <2>1, <2>2, <2>3
    <2> QED
      BY <2>4, <2>5 DEF l, s, e, Weighed
  <1> QED
    BY <1>1, <1>2

\* Together the updates weigh as much as steps were run (total_write_bytes, measuring_saver.py).
LEMMA WeightsTotal ==
  ASSUME NEW b \in Nat, NEW k \in Nat
  PROVE  /\ Weighed(b, k) \in Seq(Nat) /\ Len(Weighed(b, k)) = k
         /\ Checkpoints!Total(Weighed(b, k)) = Ran(b + k) - Ran(b)
  <1> DEFINE list == Weighed(b, k)
  <1>1. \A i \in 1..k : Weight(b + i) \in Nat
    BY DEF Weight
  <1>2. list \in Seq(Nat) /\ Len(list) = k /\ \A i \in 1..k : list[i] = Weight(b + i)
    BY <1>1 DEF Weighed
  <1>3. PICK g : Sums(g, k, list) /\ Checkpoints!Total(list) = g[k]
    <2>1. list \in Seq(Int)
      BY <1>2
    <2> QED
      BY <1>2, <2>1, TotalIs
  <1> HIDE DEF list
  <1> DEFINE S == {j \in Nat : j <= k => g[j] = Ran(b + j) - Ran(b)}
  <1>4. 0 \in S
    <2>1. Ran(b) \in Nat /\ b + 0 = b
      BY RanIs
    <2> QED
      BY <1>3, <2>1 DEF Sums
  <1>5. ASSUME NEW j \in Nat, j \in S PROVE j + 1 \in S
    <2> SUFFICES ASSUME j + 1 <= k PROVE g[j + 1] = Ran(b + (j + 1)) - Ran(b)
      OBVIOUS
    <2>1. j + 1 \in 0..k /\ j + 1 \in 1..k /\ j + 1 # 0 /\ (j + 1) - 1 = j
      OBVIOUS
    <2>2. g[j + 1] = g[j] + list[j + 1]
      BY <1>3, <2>1 DEF Sums
    <2>3. list[j + 1] = Weight(b + (j + 1)) /\ b + (j + 1) = (b + j) + 1
      BY <1>2, <2>1
    <2>4. /\ Weight((b + j) + 1) = Ran((b + j) + 1) - Ran(b + j)
          /\ Ran(b + j) \in Nat /\ Ran((b + j) + 1) \in Nat /\ Ran(b) \in Nat
      BY RanIs, b + j \in Nat, (b + j) + 1 \in Nat
    <2>5. g[j] = Ran(b + j) - Ran(b)
      BY <1>5, <2>1
    <2> QED
      BY <2>2, <2>3, <2>4, <2>5
  <1> HIDE DEF S
  <1>6. k \in S
    BY <1>4, <1>5, EveryNumber
  <1> QED
    BY <1>2, <1>3, <1>6 DEF S, list

\* One update's write, folded.
LEMMA OneBatch ==
  ASSUME NEW u \in Nat
  PROVE  /\ Checkpoints!FlattenSeq(<<Batch(u + 1)>>) = Batch(u + 1)
         /\ After(Ran(u), Ran(u + 1) - Ran(u)) = Batch(u + 1)
         /\ Len(Batch(u + 1)) = Ran(u + 1) - Ran(u) /\ Batch(u + 1) \in Seq(Nat)
  <1>1. Batches(u, 1) = <<Batch(u + 1)>>
    BY DEF Batches
  <1>2. Checkpoints!FlattenSeq(<<Batch(u + 1)>>) = After(Ran(u), Ran(u + 1) - Ran(u))
    BY <1>1, FlattenBatches, 1 \in Nat
  <1>3. Ran(u) \in Nat /\ Ran(u + 1) = u
    BY RanIs
  <1>4. CASE u = 0
    <2>1. Batch(u + 1) = <<>> /\ Ran(u) = 0 /\ Ran(u + 1) - Ran(u) = 0
      BY <1>4 DEF Batch, Ran
    <2>2. After(0, 0) = <<>> /\ Len(<<>>) = 0 /\ <<>> \in Seq(Nat)
      BY AfterIs, 0 \in Nat
    <2> QED
      BY <1>2, <2>1, <2>2
  <1>5. CASE u # 0
    <2>1. Batch(u + 1) = <<Ran(u) + 1>> /\ Ran(u + 1) - Ran(u) = 1
      BY <1>5 DEF Batch, Ran
    <2>2. After(Ran(u), 1) = <<Ran(u) + 1>> /\ Len(<<Ran(u) + 1>>) = 1 /\ <<Ran(u) + 1>> \in Seq(Nat)
      BY <1>3, AfterIs, 1 \in Nat
    <2> QED
      BY <1>2, <2>1, <2>2
  <1> QED
    BY <1>4, <1>5

\* The rest of a number that is so many frequencies and less than one more (delta channels).
LEMMA RestOf ==
  ASSUME NEW q \in Nat, NEW f \in Nat \ {0}, NEW r \in Nat, r < f
  PROVE  (q * f + r) % f = r
  <1> DEFINE x == q * f + r
             d == x \div f
             m == x % f
  <1>1. x \in Nat /\ q * f \in Nat /\ q * f = f * q
    OBVIOUS
  <1>2. d \in Nat /\ m \in 0..(f - 1) /\ x = f * d + m
    <2> HIDE DEF x
    <2> QED
      BY <1>1
  <1> HIDE DEF d, m
  <1>3. f * q + r = f * d + m /\ f * d \in Nat /\ f * q \in Nat /\ m \in Nat /\ m < f
    BY <1>1, <1>2
  <1>4. q <= d
    <2> SUFFICES ASSUME d + 1 <= q PROVE FALSE
      BY <1>2
    <2>1. f * (d + 1) <= f * q
      BY <1>2, RefillMonotone
    <2>2. f * (d + 1) = f * d + f
      BY <1>2
    <2> QED
      BY <1>3, <2>1, <2>2
  <1>5. d <= q
    <2> SUFFICES ASSUME q + 1 <= d PROVE FALSE
      BY <1>2
    <2>1. f * (q + 1) <= f * d
      BY <1>2, RefillMonotone
    <2>2. f * (q + 1) = f * q + f
      OBVIOUS
    <2> QED
      BY <1>3, <2>1, <2>2
  <1>6. q = d
    BY <1>2, <1>4, <1>5
  <1>7. m = r
    BY <1>3, <1>6
  <1> QED
    BY <1>7 DEF m

SaverTypes ==
  /\ kind \in {"accumulating", "replacing", "delta"} /\ frequency \in Nat \ {0}
  /\ costs \in Seq(Nat) /\ Len(write_costs) \in Nat
  /\ write_costs = Weighed(0, Len(write_costs))
  /\ Len(costs) = IF Len(write_costs) = 0 THEN 0 ELSE Len(write_costs) + 1

\* A snapshot, and the batches after it, of which there are less than a frequency.
Snapshot(b) ==
  /\ b \in 0..Len(write_costs) /\ Len(write_costs) - b < frequency
  /\ blob = After(0, Ran(b)) /\ write_log = Batches(b, Len(write_costs) - b)
  /\ kind # "delta" => b = Len(write_costs)
  /\ kind = "delta" => \E q \in Nat : b = q * frequency

Stored ==
  IF kind = "replacing"
    THEN items = Batch(Len(write_costs)) /\ blob = items /\ write_log = <<>>
    ELSE items = After(0, Ran(Len(write_costs))) /\ \E b \in Nat : Snapshot(b)

\* What so many updates have put, of the kinds whose checkpoints hold the value.
AddsUp(list, u) ==
  LET total == Checkpoints!Total(list)
  IN  /\ kind = "accumulating" => 2 * total = Ran(u) * (Ran(u) + 1) + 2 * Overhead * Len(list)
      /\ kind = "replacing" => total = Ran(u) + Overhead * Len(list)

HeardOut ==
  \/ approval = Checkpoints!NoApproval
  \/ approval = [state |-> "interrupted", approved |-> FALSE, log |-> <<"requested">>]
  \/ \E yes \in BOOLEAN :
       approval = [state |-> "done", approved |-> yes,
                   log |-> <<"requested", IF yes THEN "granted" ELSE "denied">>]

SaverInv == SaverTypes /\ Stored /\ AddsUp(costs, Len(write_costs)) /\ HeardOut

\* An update costs what it stores (put, put_writes, measuring_saver.py).
LEMMA UpdateIs ==
  ASSUME SaverInv, Overhead \in Nat, NEW u, u = Len(write_costs), NEW before,
         Checkpoints!Update(<<Batch(u + 1)>>, before)
  PROVE  /\ u \in Nat /\ kind' = kind /\ frequency' = frequency /\ approval' = approval
         /\ write_costs' = Weighed(0, u + 1)
         /\ items' = (IF kind = "replacing" THEN Batch(u + 1) ELSE After(0, Ran(u + 1)))
         /\ IF Checkpoints!Snapshots(u + 1)
              THEN /\ costs' = Append(before, Len(items') + Overhead)
                   /\ blob' = items' /\ write_log' = <<>>
              ELSE /\ costs' = Append(before, Overhead)
                   /\ blob' = blob /\ write_log' = write_log \o <<Batch(u + 1)>>
  <1>1. u \in Nat /\ write_costs = Weighed(0, u)
    BY DEF SaverInv, SaverTypes
  <1> DEFINE writes == <<Batch(u + 1)>>
  <1>2. Checkpoints!FlattenSeq(writes) = Batch(u + 1) /\ Checkpoints!Last(writes) = Batch(u + 1)
    <2>1. Len(writes) = 1 /\ writes[1] = Batch(u + 1)
      OBVIOUS
    <2>2. Checkpoints!FlattenSeq(writes) = Batch(u + 1)
      BY <1>1, OneBatch
    <2> HIDE DEF writes
    <2> QED
      BY <2>1, <2>2 DEF Checkpoints!Last
  <1>3. Checkpoints!Reduced(items, writes) = (IF kind = "replacing" THEN Batch(u + 1) ELSE After(0, Ran(u + 1)))
    <2>1. CASE kind = "replacing"
      BY <1>2, <2>1 DEF Checkpoints!Reduced
    <2>2. CASE kind # "replacing"
      <3>1. items = After(0, Ran(u))
        BY <2>2 DEF SaverInv, Stored
      <3>2. After(0, Ran(u)) \o Batch(u + 1) = After(0, Ran(u + 1))
        <4> DEFINE a == Ran(u)
                   k == Ran(u + 1) - Ran(u)
        <4>1. a \in Nat /\ k \in Nat /\ a + k = Ran(u + 1) /\ 0 + a = a
          BY <1>1 DEF Ran
        <4>2. After(a, k) = Batch(u + 1)
          BY <1>1, OneBatch
        <4> HIDE DEF a, k
        <4>3. After(0, a) \o After(0 + a, k) = After(0, a + k)
          BY <4>1, AfterJoins, 0 \in Nat
        <4> QED
          BY <4>1, <4>2, <4>3 DEF a
      <3> HIDE DEF writes
      <3>3. Checkpoints!Reduced(items, writes) = items \o Batch(u + 1)
        BY <1>2, <2>2 DEF Checkpoints!Reduced, Checkpoints!AppendAll
      <3> QED
        BY <2>2, <3>1, <3>2, <3>3
    <2> QED
      BY <2>1, <2>2
  <1>4. Append(write_costs, Len(Checkpoints!FlattenSeq(writes))) = Weighed(0, u + 1)
    <2>1. Len(Checkpoints!FlattenSeq(writes)) = Weight(u + 1)
      <3>1. Len(Batch(u + 1)) = Ran(u + 1) - Ran(u) /\ Weight(u + 1) = Ran(u + 1) - Ran(u)
        BY <1>1, OneBatch, RanIs
      <3> HIDE DEF writes
      <3> QED
        BY <1>2, <3>1
    <2>2. Append(Weighed(0, u), Weight((0 + u) + 1)) = Weighed(0, u + 1)
      BY <1>1, BatchesAppend, 0 \in Nat
    <2>3. 0 + u = u
      BY <1>1
    <2> QED
      BY <1>1, <2>1, <2>2, <2>3
  <1> DEFINE value == Checkpoints!Reduced(items, writes)
  <1>5. /\ items' = value
        /\ write_costs' = Append(write_costs, Len(Checkpoints!FlattenSeq(writes)))
        /\ kind' = kind /\ frequency' = frequency /\ approval' = approval
        /\ costs' = Append(before, Checkpoints!Measured(IF Checkpoints!Snapshots(u + 1) THEN value ELSE <<>>))
        /\ blob' = IF Checkpoints!Snapshots(u + 1) THEN value ELSE blob
        /\ write_log' = IF Checkpoints!Snapshots(u + 1) THEN <<>> ELSE write_log \o writes
    BY DEF Checkpoints!Update
  <1>6. Checkpoints!Measured(<<>>) = Overhead /\ Checkpoints!Measured(value) = Len(value) + Overhead
    BY DEF Checkpoints!Measured
  <1> HIDE DEF value
  <1> QED
    BY <1>1, <1>3, <1>4, <1>5, <1>6 DEF value

\* The input is the first update, each step one more, after what was put before it.
LEMMA StepUpdates ==
  ASSUME SaverInv, Overhead \in Nat, Checkpoints!Input \/ Checkpoints!Step,
         NEW u, u = Len(write_costs)
  PROVE  \E before \in Seq(Nat) : /\ Checkpoints!Update(<<Batch(u + 1)>>, before)
                                  /\ Len(before) = u + 1 /\ AddsUp(before, u)
  <1>1. /\ u \in Nat /\ write_costs \in Seq(Nat) /\ costs \in Seq(Nat)
        /\ Len(costs) = (IF u = 0 THEN 0 ELSE u + 1)
    BY WeightsTotal, 0 \in Nat DEF SaverInv, SaverTypes
  <1>2. write_costs = <<>> <=> u = 0
    BY <1>1
  <1>3. CASE Checkpoints!Input
    <2>1. u = 0 /\ Checkpoints!Update(<<<<>>>>, <<Overhead>>)
      BY <1>2, <1>3 DEF Checkpoints!Input
    <2>2. Batch(u + 1) = <<>> /\ Ran(u) = 0
      BY <2>1 DEF Batch, Ran
    <2> DEFINE before == <<Overhead>>
    <2>3. before \in Seq(Nat) /\ Len(before) = 1 /\ before = Append(<<>>, Overhead)
      OBVIOUS
    <2>4. Checkpoints!Total(before) = Overhead
      <3> DEFINE none == <<>>
      <3>1. none \in Seq(Int) /\ Overhead \in Int /\ before = Append(none, Overhead)
        BY <2>3
      <3>2. Checkpoints!Total(none) = 0
        BY TotalAppends
      <3> HIDE DEF none, before
      <3>3. Checkpoints!Total(Append(none, Overhead)) = Checkpoints!Total(none) + Overhead
        BY <3>1, TotalAppends
      <3> QED
        BY <3>1, <3>2, <3>3
    <2>5. Checkpoints!Update(<<Batch(u + 1)>>, before)
      BY <2>1, <2>2
    <2> HIDE DEF before
    <2>6. AddsUp(before, u)
      <3>1. 2 * Overhead = 0 * (0 + 1) + 2 * Overhead * 1 /\ Overhead = 0 + Overhead * 1
        OBVIOUS
      <3> QED
        BY <2>2, <2>3, <2>4, <3>1 DEF AddsUp
    <2>7. Len(before) = u + 1
      BY <1>1, <2>1, <2>3
    <2>8. before \in Seq(Nat)
      BY <2>3
    <2> QED
      BY Zenon, <2>5, <2>6, <2>7, <2>8
  <1>4. CASE Checkpoints!Step
    <2>1. u # 0 /\ Checkpoints!Update(<<<<u>>>>, costs)
      BY <1>2, <1>4 DEF Checkpoints!Step
    <2>2. Batch(u + 1) = <<u>>
      BY <1>1, <2>1 DEF Batch
    <2>3. AddsUp(costs, u)
      BY DEF SaverInv
    <2> QED
      BY <1>1, <2>1, <2>2, <2>3
  <1> QED
    BY <1>3, <1>4

\* An update keeps what is stored, one batch more.
LEMMA SaverStepKeeps ==
  ASSUME SaverInv, Overhead \in Nat, Checkpoints!Input \/ Checkpoints!Step PROVE SaverInv'
  <1>1. PICK u : u = Len(write_costs)
    OBVIOUS
  <1>0. PICK before \in Seq(Nat) : /\ Checkpoints!Update(<<Batch(u + 1)>>, before)
                                   /\ Len(before) = u + 1 /\ AddsUp(before, u)
    BY <1>1, StepUpdates
  <1> DEFINE whole == Checkpoints!Snapshots(u + 1)
  <1>2. /\ u \in Nat /\ kind' = kind /\ frequency' = frequency /\ approval' = approval
        /\ write_costs' = Weighed(0, u + 1)
        /\ items' = (IF kind = "replacing" THEN Batch(u + 1) ELSE After(0, Ran(u + 1)))
        /\ IF whole
             THEN /\ costs' = Append(before, Len(items') + Overhead)
                  /\ blob' = items' /\ write_log' = <<>>
             ELSE /\ costs' = Append(before, Overhead)
                  /\ blob' = blob /\ write_log' = write_log \o <<Batch(u + 1)>>
    BY <1>0, <1>1, UpdateIs
  <1>3. kind \in {"accumulating", "replacing", "delta"} /\ frequency \in Nat \ {0}
    BY DEF SaverInv, SaverTypes
  <1>4. whole <=> kind # "delta" \/ (u + 1) % frequency = 0
    BY DEF Checkpoints!Snapshots
  <1> HIDE DEF whole
  <1>5. /\ Ran(u) \in Nat /\ Ran(u + 1) = u /\ (u # 0 => Ran(u) = u - 1) /\ (u = 0 => Ran(u) = 0)
        /\ Len(items') \in Nat
        /\ (kind = "replacing" => Len(items') = u - Ran(u)) /\ (kind # "replacing" => Len(items') = u)
    <2>1. Len(After(0, Ran(u + 1))) = Ran(u + 1) /\ Len(Batch(u + 1)) = Ran(u + 1) - Ran(u)
      <3>1. Ran(u + 1) = u /\ Len(After(0, u)) = u
        BY <1>2, RanIs, AfterIs, 0 \in Nat
      <3>2. Len(Batch(u + 1)) = Ran(u + 1) - Ran(u)
        BY <1>2, OneBatch
      <3> QED
        BY <3>1, <3>2
    <2>2. /\ Ran(u) \in Nat /\ Ran(u) <= u /\ Ran(u + 1) = u /\ Ran(0) = 0
          /\ u # 0 => Ran(u) = u - 1
      BY <1>2, RanIs
    <2> QED
      BY <1>2, <2>1, <2>2
  <1>6. PICK cost \in Nat : costs' = Append(before, cost) /\ (whole => cost = Len(items') + Overhead)
    BY <1>2, <1>5
  <1>7. /\ costs' \in Seq(Nat) /\ Len(costs') = u + 2 /\ Len(write_costs') = u + 1
        /\ write_costs' = Weighed(0, Len(write_costs'))
    <2>1. Len(Weighed(0, u + 1)) = u + 1
      BY <1>2, WeightsTotal, 0 \in Nat, u + 1 \in Nat
    <2>2. costs' \in Seq(Nat) /\ Len(costs') = u + 2
      BY <1>0, <1>2, <1>6
    <2> QED
      BY <1>2, <2>1, <2>2
  <1>8. SaverTypes'
    BY <1>2, <1>3, <1>7 DEF SaverTypes
  <1>9. Stored'
    <2>1. CASE kind = "replacing"
      BY <1>2, <1>4, <1>7, <2>1 DEF Stored
    <2>2. CASE kind # "replacing"
      <3>1. PICK b \in Nat : Snapshot(b)
        BY <2>2 DEF SaverInv, Stored
      <3>2. /\ b \in 0..u /\ u - b < frequency /\ blob = After(0, Ran(b))
            /\ write_log = Batches(b, u - b) /\ (kind # "delta" => b = u)
        BY <1>1, <3>1 DEF Snapshot
      <3>3. items' = After(0, Ran(u + 1)) /\ kind' # "replacing"
        BY <1>2, <2>2
      <3>4. CASE whole
        <4>1. /\ blob' = After(0, Ran(u + 1)) /\ write_log' = <<>> /\ u + 1 \in Nat
              /\ (u + 1) - (u + 1) = 0 /\ 0 < frequency /\ u + 1 \in 0..(u + 1)
          BY <1>2, <1>3, <3>3, <3>4
        <4>2. Batches(u + 1, 0) = <<>>
          BY <4>1, AfterIs, 0 \in Nat
        <4>3. kind = "delta" => \E q \in Nat : u + 1 = q * frequency
          <5> SUFFICES ASSUME kind = "delta" PROVE \E q \in Nat : u + 1 = q * frequency
            OBVIOUS
          <5>1. PICK q \in Nat : b = q * frequency
            BY <3>1 DEF Snapshot
          <5>2. u - b + 1 \in Nat /\ u + 1 = q * frequency + (u - b + 1)
            BY <1>2, <3>2, <5>1
          <5>3. u - b + 1 >= frequency
            <6> SUFFICES ASSUME u - b + 1 < frequency PROVE FALSE
              BY <1>3, <5>2
            <6>1. (q * frequency + (u - b + 1)) % frequency = u - b + 1
              BY <1>3, <5>2, RestOf
            <6>2. (u + 1) % frequency = u - b + 1
              BY <5>2, <6>1
            <6> QED
              BY <1>2, <1>4, <3>2, <3>4, <6>2
          <5>4. u - b + 1 = frequency
            BY <1>2, <1>3, <3>2, <5>3
          <5>5. u + 1 = (q + 1) * frequency
            BY <1>3, <5>2, <5>4
          <5> QED
            BY <5>5
        <4>4. Snapshot(u + 1)'
          BY <1>2, <1>7, <4>1, <4>2, <4>3 DEF Snapshot
        <4> QED
          BY <1>7, <3>3, <4>1, <4>4 DEF Stored
      <3>5. CASE ~whole
        <4>1. kind = "delta" /\ (u + 1) % frequency # 0
          BY <1>4, <3>5
        <4>2. PICK q \in Nat : b = q * frequency
          BY <3>1, <4>1 DEF Snapshot
        <4>3. (u + 1) - b < frequency
          <5> SUFFICES ASSUME (u + 1) - b = frequency PROVE FALSE
            BY <1>2, <1>3, <3>2
          <5>1. u + 1 = (q + 1) * frequency + 0
            BY <1>2, <1>3, <4>2
          <5>2. ((q + 1) * frequency + 0) % frequency = 0
            BY <1>3, RestOf, q + 1 \in Nat, 0 \in Nat, 0 < frequency
          <5> QED
            BY <4>1, <5>1, <5>2
        <4>4. /\ blob' = After(0, Ran(b)) /\ write_log' = Batches(b, u - b) \o <<Batch(u + 1)>>
              /\ u - b \in Nat /\ (b + (u - b)) + 1 = u + 1 /\ (u - b) + 1 = (u + 1) - b
              /\ b \in 0..(u + 1)
          BY <1>2, <3>2, <3>5
        <4>5. write_log' = Batches(b, (u + 1) - b)
          <5>1. Batches(b, u - b) \o <<Batch((b + (u - b)) + 1)>> = Batches(b, (u - b) + 1)
            BY <4>4, BatchesAppend
          <5> QED
            BY <4>4, <5>1
        <4>6. Snapshot(b)'
          BY <1>2, <1>7, <4>1, <4>2, <4>3, <4>4, <4>5 DEF Snapshot
        <4> QED
          BY <1>7, <3>3, <4>6 DEF Stored
      <3> QED
        BY <3>4, <3>5
    <2> QED
      BY <2>1, <2>2
  <1>10. AddsUp(costs, Len(write_costs))'
    <2> DEFINE total == Checkpoints!Total(before)
               later == Checkpoints!Total(Append(before, cost))
               r == Ran(u)
    <2>1. total \in Int /\ later = total + cost
      <3>1. before \in Seq(Int) /\ cost \in Int
        BY <1>0
      <3> QED
        BY <3>1, TotalAppends
    <2>2. Checkpoints!Total(costs)' = later
      BY <1>6 DEF Checkpoints!Total
    <2>3. /\ kind = "accumulating" => 2 * total = r * (r + 1) + 2 * Overhead * (u + 1)
          /\ kind = "replacing" => total = r + Overhead * (u + 1)
      BY <1>0 DEF AddsUp
    <2> HIDE DEF total, later
    <2>4. ASSUME kind = "accumulating"
          PROVE  2 * later = u * (u + 1) + 2 * Overhead * (u + 2)
      <3>1. cost = u + Overhead
        BY <1>4, <1>5, <1>6, <2>4
      <3>2. 2 * total = r * (r + 1) + 2 * Overhead * (u + 1)
        BY <2>3, <2>4
      <3>3. 2 * Overhead * (u + 2) = 2 * Overhead * (u + 1) + 2 * Overhead
        BY <1>2
      <3>4. r * (r + 1) + 2 * u = u * (u + 1)
        <4>1. CASE u = 0
          BY <1>5, <4>1
        <4>2. CASE u # 0
          <5>1. r = u - 1
            BY <1>5, <4>2
          <5> HIDE DEF r
          <5>2. r * (r + 1) = (u - 1) * u
            BY <1>2, <5>1
          <5>3. (u - 1) * u + 2 * u = u * (u + 1)
            BY <1>2
          <5> QED
            BY <5>2, <5>3
        <4> QED
          BY <4>1, <4>2
      <3>5. PICK x \in Int : x = r * (r + 1)
        BY <1>5
      <3>6. PICK y \in Int : y = 2 * Overhead * (u + 1)
        BY <1>2
      <3> QED
        BY <1>2, <2>1, <3>1, <3>2, <3>3, <3>4, <3>5, <3>6
    <2>5. ASSUME kind = "replacing" PROVE later = u + Overhead * (u + 2)
      <3>1. cost = u - r + Overhead
        BY <1>4, <1>5, <1>6, <2>5
      <3>2. Overhead * (u + 2) = Overhead * (u + 1) + Overhead
        BY <1>2
      <3>3. PICK y \in Int : y = Overhead * (u + 1)
        BY <1>2
      <3>4. r \in Nat
        BY <1>5
      <3> HIDE DEF r
      <3> QED
        BY <1>2, <2>1, <2>3, <2>5, <3>1, <3>2, <3>3, <3>4
    <2> QED
      BY <1>2, <1>5, <1>7, <2>2, <2>4, <2>5 DEF AddsUp
  <1>11. HeardOut'
    BY <1>2 DEF SaverInv, HeardOut
  <1> QED
    BY <1>8, <1>9, <1>10, <1>11 DEF SaverInv

\* An approval is asked for, and answered, whatever the other graph does (approval, graphs.py).
LEMMA ApprovalKeeps ==
  ASSUME SaverInv,
         \/ Checkpoints!Requests
         \/ \E yes \in BOOLEAN : Checkpoints!Answers(yes)
  PROVE  SaverInv'
  <1>1. /\ kind' = kind /\ frequency' = frequency /\ items' = items /\ blob' = blob
        /\ write_log' = write_log /\ costs' = costs /\ write_costs' = write_costs
    BY DEF Checkpoints!Requests, Checkpoints!Answers
  <1>2. SaverTypes' /\ Stored' /\ AddsUp(costs, Len(write_costs))'
    <2>1. SaverTypes'
      BY <1>1 DEF SaverInv, SaverTypes
    <2>2. Stored'
      BY <1>1 DEF SaverInv, Stored, Snapshot
    <2>3. AddsUp(costs, Len(write_costs))'
      BY <1>1 DEF SaverInv, AddsUp, Checkpoints!Total
    <2> QED
      BY <2>1, <2>2, <2>3
  <1>3. HeardOut'
    <2>1. HeardOut
      BY DEF SaverInv
    <2>2. CASE Checkpoints!Requests
      <3>1. approval = Checkpoints!NoApproval
        BY <2>1, <2>2 DEF HeardOut, Checkpoints!Requests
      <3>2. approval' = [state |-> "interrupted", approved |-> FALSE,
                         log |-> Append(<<>>, "requested")]
        BY <2>2, <3>1 DEF Checkpoints!Requests, Checkpoints!NoApproval
      <3>3. Append(<<>>, "requested") = <<"requested">>
        OBVIOUS
      <3> QED
        BY <3>2, <3>3 DEF HeardOut
    <2>3. ASSUME NEW yes \in BOOLEAN, Checkpoints!Answers(yes) PROVE HeardOut'
      <3>1. approval.log = <<"requested">>
        BY <2>1, <2>3 DEF HeardOut, Checkpoints!Answers, Checkpoints!NoApproval
      <3>2. approval' = [state |-> "done", approved |-> yes,
                         log |-> Append(approval.log, IF yes THEN "granted" ELSE "denied")]
        BY <2>3 DEF Checkpoints!Answers
      <3>3. ASSUME NEW x, NEW y PROVE Append(<<x>>, y) = <<x, y>>
        <4> DEFINE s == Append(<<x>>, y)
                   t == <<x, y>>
        <4>1. DOMAIN s = 1..2 /\ s[1] = x /\ s[2] = y /\ s = [i \in 1..2 |-> s[i]]
          <5>1. <<x>> \in Seq({x, y}) /\ Len(<<x>>) = 1 /\ <<x>>[1] = x
            OBVIOUS
          <5>2. s \in Seq({x, y}) /\ Len(s) = 2 /\ s[1] = x /\ s[2] = y
            BY <5>1
          <5> HIDE DEF s
          <5> QED
            BY <5>2
        <4>2. t \in Seq({x, y}) /\ Len(t) = 2 /\ t[1] = x /\ t[2] = y
          OBVIOUS
        <4> HIDE DEF s, t
        <4>3. t = [i \in 1..2 |-> t[i]]
          BY <4>2
        <4>4. \A i \in 1..2 : s[i] = t[i]
          BY <4>1, <4>2
        <4>5. s = t
          BY <4>1, <4>3, <4>4
        <4> QED
          BY <4>5 DEF s, t
      <3> QED
        BY <3>1, <3>2, <3>3 DEF HeardOut
    <2> QED
      BY <2>2, <2>3
  <1> QED
    BY <1>2, <1>3 DEF SaverInv

\* What is stored reads back as it is, and the writes after the snapshot are the rest of it.
LEMMA StoredReadsBack ==
  ASSUME SaverInv, NEW u, u = Len(write_costs)
  PROVE  /\ Checkpoints!Reconstructed = items
         /\ Len(items) = IF kind = "replacing" THEN IF Ran(u) = 0 THEN 0 ELSE 1 ELSE Ran(u)
         /\ Len(write_log) = IF kind = "delta" THEN u % frequency ELSE 0
         /\ Len(write_log) \in 0..u
         /\ Len(items) - Len(blob) = Ran(u) - Ran(u - Len(write_log))
  <1>1. u \in Nat /\ frequency \in Nat \ {0} /\ Ran(u) \in Nat
    BY RanIs DEF SaverInv, SaverTypes
  <1>2. CASE kind = "replacing"
    <2>1. items = Batch(u) /\ blob = items /\ write_log = <<>>
      BY <1>2 DEF SaverInv, Stored
    <2>2. Len(Batch(u)) = IF Ran(u) = 0 THEN 0 ELSE 1
      BY <1>1 DEF Batch, Ran
    <2>3. Len(write_log) = 0 /\ Len(items) - Len(blob) = 0 /\ u - 0 = u /\ Ran(u) - Ran(u) = 0
      BY <1>1, <2>1, <2>2
    <2> QED
      BY <1>1, <1>2, <2>1, <2>2, <2>3 DEF Checkpoints!Reconstructed
  <1>3. CASE kind # "replacing"
    <2>1. PICK b \in Nat : Snapshot(b)
      BY <1>3 DEF SaverInv, Stored
    <2>2. /\ b \in 0..u /\ u - b < frequency /\ blob = After(0, Ran(b)) /\ write_log = Batches(b, u - b)
          /\ (kind # "delta" => b = u) /\ u - b \in Nat
      BY <1>1, <2>1 DEF Snapshot
    <2>3. items = After(0, Ran(u)) /\ Ran(b) \in Nat /\ Ran(u) - Ran(b) \in Nat
      BY <1>1, <1>3, <2>2 DEF SaverInv, Stored, Ran
    <2>4. Len(items) = Ran(u) /\ Len(blob) = Ran(b) /\ Len(write_log) = u - b
      BY <1>1, <2>2, <2>3, AfterIs, 0 \in Nat
    <2>5. Checkpoints!Reconstructed = items
      <3>1. CASE write_log = <<>>
        <4>1. u - b = 0
          BY <2>4, <3>1
        <4>2. b = u
          BY <1>1, <4>1
        <4> QED
          BY <2>2, <2>3, <3>1, <4>2 DEF Checkpoints!Reconstructed
      <3>2. CASE write_log # <<>>
        <4> DEFINE k == Ran(u) - Ran(b)
        <4>1. Checkpoints!FlattenSeq(write_log) = After(Ran(b), k)
          <5>1. b + (u - b) = u
            BY <1>1
          <5> QED
            BY <2>2, <5>1, FlattenBatches
        <4>2. After(0, Ran(b)) \o After(Ran(b), k) = After(0, Ran(u))
          <5>1. k \in Nat /\ Ran(b) + k = Ran(u) /\ 0 + Ran(b) = Ran(b)
            BY <1>1, <2>3
          <5> HIDE DEF k
          <5>2. After(0, Ran(b)) \o After(0 + Ran(b), k) = After(0, Ran(b) + k)
            BY <2>3, <5>1, AfterJoins, 0 \in Nat
          <5> QED
            BY <5>1, <5>2
        <4> QED
          BY <1>3, <2>2, <2>3, <3>2, <4>1, <4>2
          DEF Checkpoints!Reconstructed, Checkpoints!Reduced, Checkpoints!AppendAll
      <3> QED
        BY <3>1, <3>2
    <2>6. kind = "delta" => u % frequency = u - b
      <3> SUFFICES ASSUME kind = "delta" PROVE u % frequency = u - b
        OBVIOUS
      <3>1. PICK q \in Nat : b = q * frequency
        BY <2>1 DEF Snapshot
      <3>2. (q * frequency + (u - b)) % frequency = u - b
        BY <1>1, <2>2, RestOf
      <3>3. q * frequency + (u - b) = u
        BY <1>1, <2>2, <3>1
      <3> QED
        BY <3>2, <3>3
    <2>7. u - (u - b) = b
      BY <1>1
    <2> QED
      BY <1>1, <1>3, <2>2, <2>4, <2>5, <2>6, <2>7
  <1> QED
    BY <1>2, <1>3

\* What was measured is what there is to read back: for any kind of graph, any frequency of
\* snapshots, any overhead and any number of steps after the input, a second graph gets the state from
\* the saver, replays what the frequency leaves it, and the costs add up (measuring_saver.py:86,
\* resume.py:21).
THEOREM CheckpointsCorrect == CheckpointSpec => []ReadsBackWhatWasMeasured
  <1>1. Checkpoints!CheckpointInit => SaverInv
    <2> SUFFICES ASSUME Checkpoints!CheckpointInit PROVE SaverInv
      OBVIOUS
    <2>1. /\ kind \in Kinds /\ frequency \in Frequencies /\ items = <<>> /\ blob = <<>>
          /\ write_log = <<>> /\ costs = <<>> /\ write_costs = <<>>
          /\ approval = Checkpoints!NoApproval
      BY DEF Checkpoints!CheckpointInit
    <2>2. Len(write_costs) = 0 /\ Len(costs) = 0 /\ costs \in Seq(Nat) /\ Len(<<>>) = 0
      BY <2>1
    <2>3. Weighed(0, 0) = <<>> /\ Ran(0) = 0 /\ Batch(0) = <<>>
      BY DEF Weighed, Ran, Batch
    <2>4. After(0, 0) = <<>> /\ Batches(0, 0) = <<>>
      BY AfterIs, 0 \in Nat
    <2>5. SaverTypes
      <3>1. kind \in {"accumulating", "replacing", "delta"} /\ frequency \in Nat \ {0}
        BY <2>1, LabsAssumption DEF LabsAssumption
      <3> QED
        BY <2>1, <2>2, <2>3, <3>1 DEF SaverTypes
    <2>6. Snapshot(0)
      <3>1. 0 \in 0..0 /\ 0 < frequency /\ 0 = 0 * frequency /\ 0 - 0 = 0 /\ 0 \in Nat
        BY <2>5 DEF SaverTypes
      <3> QED
        BY <2>1, <2>2, <2>3, <2>4, <3>1 DEF Snapshot
    <2>7. Stored
      BY <2>1, <2>2, <2>3, <2>4, <2>6 DEF Stored
    <2>8. AddsUp(costs, Len(write_costs))
      <3>1. Overhead \in Nat
        BY LabsAssumption DEF LabsAssumption
      <3>2. Checkpoints!Total(costs) = 0
        BY <2>1, TotalAppends
      <3> QED
        BY <2>2, <2>3, <3>1, <3>2 DEF AddsUp
    <2> QED
      BY <2>1, <2>5, <2>7, <2>8 DEF SaverInv, HeardOut
  <1>2. SaverInv /\ [Checkpoints!CheckpointNext]_(Checkpoints!checkpointVars) => SaverInv'
    <2> SUFFICES ASSUME SaverInv, [Checkpoints!CheckpointNext]_(Checkpoints!checkpointVars)
                 PROVE  SaverInv'
      OBVIOUS
    <2>1. Overhead \in Nat
      BY LabsAssumption DEF LabsAssumption
    <2>2. CASE Checkpoints!CheckpointNext
      BY <2>1, <2>2, SaverStepKeeps, ApprovalKeeps DEF Checkpoints!CheckpointNext
    <2>3. CASE UNCHANGED Checkpoints!checkpointVars
      <3>1. /\ kind' = kind /\ frequency' = frequency /\ items' = items /\ blob' = blob
            /\ write_log' = write_log /\ costs' = costs /\ write_costs' = write_costs
            /\ approval' = approval
        BY <2>3 DEF Checkpoints!checkpointVars
      <3>2. SaverTypes'
        BY <3>1 DEF SaverInv, SaverTypes
      <3>3. Stored'
        BY <3>1 DEF SaverInv, Stored, Snapshot
      <3>4. AddsUp(costs, Len(write_costs))'
        BY <3>1 DEF SaverInv, AddsUp, Checkpoints!Total
      <3>5. HeardOut'
        BY <3>1 DEF SaverInv, HeardOut
      <3> QED
        BY <3>2, <3>3, <3>4, <3>5 DEF SaverInv
    <2> QED
      BY <2>2, <2>3
  <1>3. SaverInv => ReadsBackWhatWasMeasured
    <2> SUFFICES ASSUME SaverInv PROVE Checkpoints!ReadsBackWhatWasMeasured
      BY DEF ReadsBackWhatWasMeasured
    <2>1. PICK u : u = Len(write_costs)
      OBVIOUS
    <2>2. u \in Nat /\ write_costs = Weighed(0, u) /\ write_costs \in Seq(Nat)
      BY <2>1, WeightsTotal, 0 \in Nat DEF SaverInv, SaverTypes
    <2>3. /\ Checkpoints!Reconstructed = items
          /\ Len(items) = IF kind = "replacing" THEN IF Ran(u) = 0 THEN 0 ELSE 1 ELSE Ran(u)
          /\ Len(write_log) = IF kind = "delta" THEN u % frequency ELSE 0
          /\ Len(write_log) \in 0..u
          /\ Len(items) - Len(blob) = Ran(u) - Ran(u - Len(write_log))
      BY <2>1, StoredReadsBack
    <2>4. Checkpoints!steps = Ran(u)
      <3>1. write_costs = <<>> <=> u = 0
        BY <2>1, <2>2
      <3> QED
        BY <2>1, <3>1 DEF Checkpoints!steps, Ran
    <2>5. Len(items) = Checkpoints!expected_items
      BY <2>3, <2>4 DEF Checkpoints!expected_items
    <2>6. Checkpoints!total_write_bytes = Checkpoints!steps
      <3>1. Checkpoints!Total(Weighed(0, u)) = Ran(0 + u) - Ran(0)
        BY <2>2, WeightsTotal, 0 \in Nat
      <3>2. 0 + u = u /\ Ran(0) = 0 /\ Ran(u) \in Nat
        BY <2>2, RanIs
      <3> QED
        BY <2>2, <2>4, <3>1, <3>2 DEF Checkpoints!total_write_bytes
    <2> DEFINE l == Len(write_log)
               rest == SubSeq(write_costs, Len(write_costs) - l + 1, Len(write_costs))
    <2>7. Checkpoints!Total(rest) = Ran(u) - Ran(u - l)
      <3>1. l \in Nat /\ u - l \in Nat /\ (u - l) + l = u
        BY <2>2, <2>3
      <3> HIDE DEF l
      <3>2. rest = Weighed(u - l, l)
        <4>1. /\ Len(rest) = l /\ rest \in Seq(Nat)
              /\ \A i \in 1..l : rest[i] = write_costs[((u - l) + 1) + (i - 1)]
          BY <2>1, <2>2, <3>1
        <4>2. \A i \in 1..l : /\ ((u - l) + 1) + (i - 1) = (u - l) + i
                              /\ (u - l) + i \in 1..u /\ 0 + ((u - l) + i) = (u - l) + i
          BY <2>2, <3>1
        <4>3. \A j \in 1..u : write_costs[j] = Weight(0 + j)
          BY <2>2 DEF Weighed
        <4> HIDE DEF rest
        <4>4. \A i \in 1..l : rest[i] = Weight((u - l) + i)
          BY <4>1, <4>2, <4>3
        <4>5. rest = [i \in 1..l |-> rest[i]]
          BY <4>1
        <4> QED
          BY <4>4, <4>5 DEF Weighed
      <3> HIDE DEF rest
      <3> QED
        BY <3>1, <3>2, WeightsTotal
    <2> HIDE DEF rest
    <2>8. /\ kind = "accumulating" =>
               2 * Checkpoints!total_bytes = Ran(u) * (Ran(u) + 1) + 2 * Overhead * Len(costs)
          /\ kind = "replacing" => Checkpoints!total_bytes = Ran(u) + Overhead * Len(costs)
      BY <2>1 DEF SaverInv, AddsUp, Checkpoints!total_bytes
    <2>9. approval.state = "done" => approval.log = <<"requested",
                                        IF approval.approved THEN "granted" ELSE "denied">>
      BY DEF SaverInv, HeardOut, Checkpoints!NoApproval
    <2> QED
      BY <2>1, <2>3, <2>4, <2>5, <2>6, <2>7, <2>8, <2>9
      DEF Checkpoints!ReadsBackWhatWasMeasured, rest, l
  <1> QED
    BY <1>1, <1>2, <1>3, PTL DEF CheckpointSpec
-------------------------------------------------------------------------------
(* Evaluation: the algebra of two rates.  x of m hits and y of n, H hits and *)
(* P = H * (m + n - H), e the difference of the numerators.                  *)

\* A product with something larger is no less.
LEMMA TimesMore ==
  ASSUME NEW c \in Nat, NEW x \in Int, NEW y \in Int, x <= y
  PROVE  c * x <= c * y
  BY RefillMonotone

\* And it is larger if neither is nothing.
LEMMA TimesLarger ==
  ASSUME NEW c \in Nat \ {0}, NEW x \in Int, NEW y \in Int, x < y
  PROVE  c * x < c * y
  <1>1. c * (x + 1) <= c * y
    BY TimesMore
  <1>2. c * (x + 1) = c * x + c
    OBVIOUS
  <1> QED
    BY <1>1, <1>2

\* No square is negative.
LEMMA Squares ==
  ASSUME NEW x \in Int
  PROVE  x * x \in Nat /\ (x # 0 => x * x > 0)
  <1>1. CASE x >= 0
    <2>1. x \in Nat
      BY <1>1
    <2>2. x # 0 => x * 0 < x * x
      BY <2>1, TimesLarger
    <2> QED
      BY <2>1, <2>2
  <1>2. CASE x < 0
    <2>1. (-x) \in Nat \ {0}
      BY <1>2
    <2>2. (-x) * 0 < (-x) * (-x)
      BY <2>1, TimesLarger
    <2>3. x * x = (-x) * (-x)
      OBVIOUS
    <2> QED
      BY <2>1, <2>2, <2>3
  <1> QED
    BY <1>1, <1>2

\* A run that is possible.
Possible(run) == run \in [total : Nat, correct : Nat] /\ run.correct <= run.total

\* Some hit more of a better candidate: the numerator grows by what its arm weighs, the spread by
\* N - 2H - 1 at most (test_statistic, significance.py).
LEMMA OneHitMore ==
  ASSUME NEW d \in Nat \ {0}, NEW m \in Nat \ {0}, NEW H \in Nat, NEW M \in Nat \ {0},
         d <= m * H
  PROVE  (d + m) * (d + m) * (H * M) >= d * d * ((H + 1) * (M - 1))
  <1>1. (H + 1) * (M - 1) = H * M + (M - H - 1)
    OBVIOUS
  <1>2. M - H - 1 <= M
    OBVIOUS
  <1>3. d * (M - H - 1) <= d * M
    BY TimesMore, M - H - 1 \in Int, <1>2
  <1>4. M * d <= M * (m * H)
    BY TimesMore, m * H \in Int
  <1>5. M * (m * H) = m * (H * M) /\ M * d = d * M /\ m * (H * M) \in Nat
    OBVIOUS
  <1>6. d * (M - H - 1) <= m * (H * M)
    BY <1>3, <1>4, <1>5
  <1>7. d * (d * (M - H - 1)) <= d * (m * (H * M))
    BY <1>5, <1>6, TimesMore, d * (M - H - 1) \in Int
  <1> DEFINE P == H * M
             w == M - H - 1
  <1>8. P \in Nat /\ w \in Int
    OBVIOUS
  <1>9. d * (d * w) <= d * (m * P)
    BY <1>7
  <1>10. (H + 1) * (M - 1) = P + w
    BY <1>1
  <1> HIDE DEF P, w
  <1>11. (d + m) * (d + m) * P = d * d * P + 2 * (d * (m * P)) + m * m * P
    BY <1>8
  <1>12. d * d * (P + w) = d * d * P + d * (d * w)
    BY <1>8
  <1>13. d * (m * P) \in Nat /\ m * m * P \in Nat
    BY <1>8
  <1>14. (d + m) * (d + m) * P >= d * d * (P + w)
    BY <1>8, <1>9, <1>11, <1>12, <1>13
  <1> QED
    BY <1>10, <1>14 DEF P

\* What the statistics are made of.
LEMMA Statistics ==
  ASSUME NEW a, NEW b, Possible(a), Possible(b)
  PROVE  /\ a.total \in Nat /\ b.total \in Nat
         /\ Compared!Hits(a, b) \in Nat /\ Compared!Both(a, b) \in Nat
         /\ Compared!Both(a, b) - Compared!Hits(a, b) \in Nat
         /\ Compared!delta(a, b) \in Int
         /\ Compared!Hits(b, a) = Compared!Hits(a, b)
         /\ Compared!Both(b, a) = Compared!Both(a, b)
         /\ Compared!delta(b, a) = -Compared!delta(a, b)
  <1>1. /\ a.total \in Nat /\ b.total \in Nat /\ a.correct \in Nat /\ b.correct \in Nat
        /\ a.correct <= a.total /\ b.correct <= b.total
    BY DEF Possible
  <1>2. a.correct * b.total \in Nat /\ b.correct * a.total \in Nat
    BY <1>1
  <1> QED
    BY <1>1, <1>2 DEF Compared!Hits, Compared!Both, Compared!delta

\* The smaller of two does not depend on which comes first.
LEMMA LeastSame ==
  ASSUME NEW m \in Int, NEW n \in Int
  PROVE  Compared!Least(m, n) = Compared!Least(n, m) /\ Compared!Least(m, n) \in Int
  BY DEF Compared!Least

\* Answers are the same when what they are made of is, up to its sign.
LEMMA SameAnswers ==
  ASSUME NEW a, NEW b, NEW c, NEW d, Possible(a), Possible(b), Possible(c), Possible(d),
         \/ c.total = a.total /\ d.total = b.total
         \/ c.total = b.total /\ d.total = a.total,
         \/ Compared!Hits(c, d) = Compared!Hits(a, b)
         \/ Compared!Hits(c, d) = Compared!Both(a, b) - Compared!Hits(a, b),
         Compared!delta(c, d) = -Compared!delta(a, b)
  PROVE  Compared!is_significant(c, d) = Compared!is_significant(a, b)
  <1> DEFINE N == Compared!Both(a, b)
             H == Compared!Hits(a, b)
             D == Compared!delta(a, b)
             p == a.total * b.total
  <1>1. /\ a.total \in Nat /\ b.total \in Nat /\ N \in Nat /\ H \in Nat /\ N - H \in Nat
        /\ D \in Int
    BY Statistics
  <1>2. Compared!Both(c, d) = N
    BY <1>1 DEF Compared!Both
  <1>3. Compared!Least(c.total, d.total) = Compared!Least(a.total, b.total)
    <2>1. Compared!Least(a.total, b.total) = Compared!Least(b.total, a.total)
      <3>1. a.total \in Int /\ b.total \in Int
        BY <1>1
      <3> QED
        BY <3>1, LeastSame
    <2>2. CASE c.total = a.total /\ d.total = b.total
      BY <2>2
    <2>3. CASE c.total = b.total /\ d.total = a.total
      BY <2>1, <2>3
    <2> QED
      BY <2>2, <2>3
  <1> DEFINE G == Compared!Hits(c, d)
  <1>4. G = H \/ G = N - H
    OBVIOUS
  <1> HIDE DEF G, N, H
  <1>5. Compared!Least(G, N - G) = Compared!Least(H, N - H)
    <2>1. N - (N - H) = H
      BY <1>1
    <2>2. Compared!Least(N - H, H) = Compared!Least(H, N - H)
      BY <1>1, LeastSame
    <2> QED
      BY <1>4, <2>1, <2>2
  <1>6. G * (N - G) = H * (N - H) /\ G \in Int
    BY <1>1, <1>4
  <1>7. Compared!Usable(c, d) = Compared!Usable(a, b)
    BY <1>2, <1>3, <1>5 DEF Compared!Usable, G, N, H
  <1>8. Compared!Significant(c, d) <=> Compared!Significant(a, b)
    <2>1. c.total * d.total = p /\ p \in Nat
      BY <1>1
    <2> HIDE DEF D, p
    <2>2. 25 * (-D) * (-D) * N = 25 * D * D * N
      BY <1>1
    <2>3. 96 * p * G * (N - G) = 96 * p * H * (N - H)
      <3>1. 96 * p * G * (N - G) = 96 * p * (G * (N - G))
        BY <1>1, <1>6, <2>1
      <3>2. 96 * p * H * (N - H) = 96 * p * (H * (N - H))
        BY <1>1, <2>1
      <3> QED
        BY <1>6, <3>1, <3>2
    <2>4. Compared!Significant(c, d) <=> 25 * (-D) * (-D) * N > 96 * c.total * d.total * G * (N - G)
      BY <1>2 DEF Compared!Significant, D, G
    <2>5. Compared!Significant(a, b) <=> 25 * D * D * N > 96 * a.total * b.total * H * (N - H)
      BY DEF Compared!Significant, D, H, N
    <2>6. /\ c.total \in Nat /\ d.total \in Nat
          /\ 96 * c.total * d.total * G * (N - G) = 96 * p * G * (N - G)
          /\ 96 * a.total * b.total * H * (N - H) = 96 * p * H * (N - H)
      <3>1. c.total \in Nat /\ d.total \in Nat
        BY <1>1
      <3>2. 96 * c.total * d.total = 96 * (c.total * d.total) /\ 96 * a.total * b.total = 96 * (a.total * b.total)
        BY <1>1, <3>1
      <3> QED
        BY <2>1, <3>1, <3>2 DEF p
    <2> QED
      BY <2>2, <2>3, <2>4, <2>5, <2>6
  <1> QED
    BY <1>7, <1>8 DEF Compared!is_significant

\* Two rates that are the same are never told apart.
LEMMA EqualRates ==
  ASSUME NEW a, NEW b, Possible(a), Possible(b), Compared!delta(a, b) = 0
  PROVE  ~Compared!Significant(a, b)
  <1> DEFINE N == Compared!Both(a, b)
             H == Compared!Hits(a, b)
             S == 96 * a.total * b.total * H * (N - H)
  <1>1. a.total \in Nat /\ b.total \in Nat /\ N \in Nat /\ H \in Nat /\ N - H \in Nat
    BY Statistics
  <1> HIDE DEF N, H
  <1>2. S \in Nat
    <2>1. a.total * b.total \in Nat
      BY <1>1
    <2>2. 96 * a.total * b.total \in Nat
      BY <1>1, <2>1
    <2>3. 96 * a.total * b.total * H \in Nat
      BY <1>1, <2>2
    <2> QED
      BY <1>1, <2>3
  <1>3. 25 * 0 * 0 * N = 0
    BY <1>1
  <1>4. Compared!Significant(a, b) <=> 25 * 0 * 0 * N > S
    BY DEF Compared!Significant, N, H
  <1> HIDE DEF S
  <1> QED
    BY <1>2, <1>3, <1>4

\* An answer is one of a usable comparison or none.
LEMMA AnswersAre ==
  ASSUME NEW a, NEW b
  PROVE  /\ "True" \in Compared!is_significant(a, b) => Compared!Significant(a, b)
         /\ "False" \in Compared!is_significant(a, b) =>
              ~Compared!Significant(a, b) /\ TRUE \in Compared!Usable(a, b)
  BY DEF Compared!is_significant

\* A better candidate with one hit more is as far from noise (test_statistic, significance.py).
LEMMA BetterStays ==
  ASSUME NEW a, NEW b, NEW c, Possible(a), Possible(b), a.total > 0, b.correct < b.total,
         c = [b EXCEPT !.correct = @ + 1],
         Compared!delta(a, b) > 0, Compared!Significant(a, b)
  PROVE  Compared!Significant(a, c)
  <1> DEFINE N == Compared!Both(a, b)
             H == Compared!Hits(a, b)
             D == Compared!delta(a, b)
             m == a.total
             M == N - H
             q == 96 * m * b.total
  <1>1. /\ m \in Nat \ {0} /\ b.total \in Nat /\ a.correct \in Nat /\ b.correct \in Nat
        /\ a.correct <= m /\ b.correct <= b.total
    BY DEF Possible
  <1>2. c \in [total : Nat, correct : Nat] /\ c.total = b.total /\ c.correct = b.correct + 1
    BY DEF Possible
  <1>3. /\ N = m + b.total /\ H = a.correct + b.correct
        /\ D = b.correct * m - a.correct * b.total
    BY DEF Compared!Both, Compared!Hits, Compared!delta
  <1>4. N \in Nat \ {0} /\ H \in Nat /\ M \in Nat \ {0}
    BY <1>1, <1>3
  <1>5. b.correct * m \in Nat /\ a.correct * b.total \in Nat /\ a.correct * m \in Nat
    BY <1>1
  <1>6. D \in Nat \ {0}
    BY <1>3, <1>5
  <1>7. D <= m * H
    <2>1. m * H = a.correct * m + b.correct * m
      BY <1>1, <1>3
    <2> QED
      BY <1>3, <1>5, <2>1
  <1>8. /\ Compared!Both(a, c) = N /\ Compared!Hits(a, c) = H + 1
        /\ Compared!delta(a, c) = D + m
    <2>1. (b.correct + 1) * m = b.correct * m + m
      BY <1>1
    <2>2. Compared!Both(a, c) = N
      BY <1>2 DEF Compared!Both
    <2>3. Compared!Hits(a, c) = a.correct + (b.correct + 1)
      BY <1>2 DEF Compared!Hits
    <2>4. Compared!delta(a, c) = (b.correct + 1) * m - a.correct * b.total
      BY <1>2 DEF Compared!delta
    <2> HIDE DEF N, H, D, m
    <2>5. m \in Nat
      BY <1>1
    <2> QED
      BY <1>1, <1>3, <1>5, <2>1, <2>2, <2>3, <2>4, <2>5
  <1>9. Compared!Significant(a, b) <=> 25 * D * D * N > 96 * m * b.total * H * M
    BY DEF Compared!Significant
  <1>10. Compared!Significant(a, c)
           <=> 25 * (D + m) * (D + m) * N > 96 * m * b.total * (H + 1) * (M - 1)
    <2>1. N - (H + 1) = M - 1
      BY <1>4
    <2> QED
      BY <1>2, <1>8, <2>1 DEF Compared!Significant
  <1> HIDE DEF N, H, D, m, M
  <1>11. q \in Nat
    <2>1. m * b.total \in Nat
      BY <1>1
    <2> QED
      BY <1>1, <2>1
  <1> HIDE DEF q
  <1> DEFINE P == H * M
             R == (H + 1) * (M - 1)
             A == D * D
             B == (D + m) * (D + m)
  <1>12. P \in Nat /\ R \in Nat /\ A \in Nat /\ B \in Nat
    BY <1>1, <1>4, <1>6
  <1>13. P > 0
    <2>1. H # 0
      BY <1>1, <1>4, <1>6, <1>7
    <2>2. H * 0 < H * M
      BY <1>4, <2>1, TimesLarger
    <2> QED
      BY <1>4, <2>2
  <1>14. B * P >= A * R
    BY <1>1, <1>4, <1>6, <1>7, OneHitMore
  <1>15. /\ 25 * D * D * N = 25 * N * A /\ 25 * (D + m) * (D + m) * N = 25 * N * B
    BY <1>1, <1>4, <1>6
  <1>16. 96 * m * b.total * H * M = q * P /\ 96 * m * b.total * (H + 1) * (M - 1) = q * R
    <2>1. q \in Nat /\ q * H * M = q * P /\ q * (H + 1) * (M - 1) = q * R
      BY <1>4, <1>11
    <2> QED
      BY <2>1 DEF q
  <1>17. 25 * N * A > q * P
    BY <1>9, <1>15, <1>16
  <1> HIDE DEF P, R, A, B
  <1>18. 25 * N * B > q * R
    <2> DEFINE k == 25 * N
    <2>1. k \in Nat \ {0}
      BY <1>4
    <2>2. k * (A * R) <= k * (B * P)
      BY <1>12, <1>14, <2>1, TimesMore, A * R \in Int, B * P \in Int
    <2> HIDE DEF k
    <2>3. CASE R = 0
      <3>1. B > 0
        <4>1. D + m \in Int /\ D + m # 0
          BY <1>1, <1>6
        <4> QED
          BY <4>1, Squares DEF B
      <3>2. k * 0 < k * B
        BY <1>12, <2>1, <3>1, TimesLarger
      <3>3. k * B > q * R
        BY <1>11, <1>12, <2>1, <2>3, <3>2
      <3> QED
        BY <3>3 DEF k
    <2>4. CASE R # 0
      <3>1. R \in Nat \ {0} /\ q * P < k * A /\ q * P \in Int /\ k * A \in Int
        BY <1>11, <1>12, <1>17, <2>1, <2>4 DEF k
      <3>2. R * (q * P) < R * (k * A)
        BY <3>1, TimesLarger
      <3>3. R * (k * A) = k * (A * R) /\ R * (q * P) = P * (q * R) /\ k * (B * P) = P * (k * B)
        BY <1>11, <1>12, <2>1
      <3>4. k * (A * R) \in Int /\ R * (k * A) \in Int /\ k * (B * P) \in Int /\ R * (q * P) \in Int
        BY <1>11, <1>12, <2>1
      <3>5. q * R \in Int /\ k * B \in Int /\ P * (q * R) \in Int /\ P * (k * B) \in Int
        BY <1>11, <1>12, <2>1
      <3>6. P * (q * R) < P * (k * B)
        BY ONLY <2>2, <3>2, <3>3, <3>4, <3>5
      <3>7. ~(k * B <= q * R)
        <4> SUFFICES ASSUME k * B <= q * R PROVE FALSE
          OBVIOUS
        <4>1. P * (k * B) <= P * (q * R)
          BY <1>12, <3>5, TimesMore
        <4> QED
          BY <3>5, <3>6, <4>1
      <3>8. k * B > q * R
        BY <3>5, <3>7
      <3> QED
        BY <3>8 DEF k
    <2> QED
      BY <2>3, <2>4
  <1> QED
    BY <1>10, <1>15, <1>16, <1>18

\* Two rates of one dataset spread as each does, and as far as they are apart.
LEMMA SpreadOfTwo ==
  ASSUME NEW n \in Int, NEW x \in Int, NEW y \in Int
  PROVE  (y + x) * (2 * n - (y + x)) = 2 * (y * (n - y) + x * (n - x)) + (x - y) * (x - y)
  OBVIOUS

\* On one dataset, the statistics without what they have in common.
LEMMA OneSize ==
  ASSUME NEW a, NEW b, Possible(a), Possible(b), NEW n \in Nat \ {0}, a.total = n, b.total = n,
         NEW V, V = Compared!Variance(a) + Compared!Variance(b),
         NEW E, E = (b.correct - a.correct) * (b.correct - a.correct)
  PROVE  /\ V \in Nat /\ E \in Nat
         /\ Compared!Hits(a, b) \in Nat /\ Compared!Both(a, b) = 2 * n
         /\ Compared!Significant(a, b) <=> 50 * (n * E) > 96 * (2 * V + E)
         /\ Compared!ExcludesZero(a, b) <=> 25 * (n * E) > 96 * V
  <1> DEFINE x == b.correct
             y == a.correct
             e == x - y
             H == Compared!Hits(a, b)
             D == Compared!delta(a, b)
             Q == H * (2 * n - H)
             nn == n * n
             nnn == n * n * n
  <1>1. x \in Nat /\ y \in Nat /\ x <= n /\ y <= n
    BY DEF Possible
  <1>2. H = y + x /\ Compared!Both(a, b) = 2 * n
    BY <1>1 DEF Compared!Hits, Compared!Both
  <1>3. D = n * e
    <2>1. D = x * n - y * n
      BY DEF Compared!delta
    <2> QED
      BY <1>1, <2>1
  <1>4. Compared!Variance(a) = y * (n - y) /\ Compared!Variance(b) = x * (n - x)
    BY DEF Compared!Variance
  <1>5. y * (n - y) \in Nat /\ x * (n - x) \in Nat
    BY <1>1
  <1>6. V \in Nat /\ E \in Nat /\ H \in Nat
    BY <1>1, <1>2, <1>4, <1>5, Squares, x - y \in Int
  <1>7. Q = 2 * V + E
    BY <1>1, <1>2, <1>4, SpreadOfTwo
  <1>8. e \in Int /\ E = e * e
    BY <1>1
  <1>9. nn \in Nat \ {0} /\ nnn \in Nat \ {0}
    <2>1. n * 0 < n * n
      BY TimesLarger
    <2>2. nn \in Nat \ {0}
      BY <2>1
    <2>3. nn * 0 < nn * n
      BY <2>2, TimesLarger
    <2> QED
      BY <2>2, <2>3
  <1>10. Compared!Significant(a, b) <=> 25 * D * D * (2 * n) > 96 * n * n * H * (2 * n - H)
    BY <1>2 DEF Compared!Significant
  <1>11. Compared!ExcludesZero(a, b)
           <=> 25 * D * D * n * n > 96 * (Compared!Variance(a) * nnn + Compared!Variance(b) * nnn)
    BY DEF Compared!ExcludesZero, Compared!Cube
  <1> HIDE DEF H, D, Q, x, y, e
  <1>12. 25 * D * D * (2 * n) = nn * (50 * (n * E))
    BY <1>3, <1>8
  <1>13. 96 * n * n * H * (2 * n - H) = nn * (96 * (2 * V + E))
    <2>1. 96 * n * n * H * (2 * n - H) = nn * (96 * (H * (2 * n - H)))
      BY <1>6
    <2> QED
      BY <1>7, <2>1 DEF Q
  <1>14. 25 * D * D * n * n = nnn * (25 * (n * E))
    BY <1>3, <1>8
  <1>15. 96 * (Compared!Variance(a) * nnn + Compared!Variance(b) * nnn) = nnn * (96 * V)
    BY <1>4, <1>5, <1>9
  <1> HIDE DEF nn, nnn
  <1>16. ASSUME NEW k \in Nat \ {0}, NEW p \in Int, NEW q \in Int PROVE k * p > k * q <=> p > q
    <2>1. p > q => k * p > k * q
      BY TimesLarger
    <2>2. p <= q => k * p <= k * q
      BY TimesMore
    <2> QED
      BY <2>1, <2>2
  <1>17. 50 * (n * E) \in Int /\ 96 * (2 * V + E) \in Int /\ 25 * (n * E) \in Int /\ 96 * V \in Int
    BY <1>6
  <1>18. Compared!Significant(a, b) <=> 50 * (n * E) > 96 * (2 * V + E)
    BY <1>9, <1>10, <1>12, <1>13, <1>16, <1>17
  <1>19. Compared!ExcludesZero(a, b) <=> 25 * (n * E) > 96 * V
    BY <1>9, <1>11, <1>14, <1>15, <1>16, <1>17
  <1> QED
    BY <1>2, <1>6, <1>18, <1>19 DEF H

\* A dataset as large as asked for pays for the delta (required_sample_size, significance.py).
LEMMA LargeEnough ==
  ASSUME NEW n \in Nat, NEW W \in Nat, NEW d \in Nat \ {0}, n >= (W + d - 1) \div d
  PROVE  n * d >= W
  <1> DEFINE s == W + d - 1
             r == s \div d
  <1>1. s \in Nat
    OBVIOUS
  <1>2. r \in Int /\ s % d \in 0..(d - 1) /\ s = d * r + (s % d)
    <2> HIDE DEF s
    <2> QED
      BY <1>1
  <1>3. d * r <= d * n
    <2>1. r <= n
      OBVIOUS
    <2> HIDE DEF r
    <2> QED
      BY <1>2, <2>1, TimesMore
  <1>4. d * r >= W
    <2> DEFINE m == s % d
               t == d * r
    <2>1. W + d - 1 = t + m /\ m \in Int /\ m <= d - 1 /\ t \in Int
      BY <1>2
    <2> HIDE DEF m, t
    <2> QED
      BY <2>1 DEF t
  <1>5. n * d = d * n /\ n * d \in Int /\ d * r \in Int
    <2> HIDE DEF r
    <2> QED
      BY <1>2
  <1> HIDE DEF r
  <1> QED
    BY <1>3, <1>4, <1>5

\* On such a dataset the answer is not that the delta is noise.
LEMMA NotNoise ==
  ASSUME NEW a, NEW b, Possible(a), Possible(b), NEW n \in Nat \ {0}, a.total = n, b.total = n,
         b.correct > a.correct, n >= Compared!required_sample_size(a, b),
         TRUE \in Compared!Usable(a, b)
  PROVE  Compared!Significant(a, b)
  <1>1. PICK V : V = Compared!Variance(a) + Compared!Variance(b)
    OBVIOUS
  <1>2. PICK E : E = (b.correct - a.correct) * (b.correct - a.correct)
    OBVIOUS
  <1>3. /\ V \in Nat /\ E \in Nat /\ Compared!Hits(a, b) \in Nat /\ Compared!Both(a, b) = 2 * n
        /\ Compared!Significant(a, b) <=> 50 * (n * E) > 96 * (2 * V + E)
    BY <1>1, <1>2, OneSize
  <1>4. a.correct \in Nat /\ b.correct \in Nat /\ b.correct - a.correct # 0
    BY DEF Possible
  <1>5. E > 0
    BY <1>2, <1>4, Squares, b.correct - a.correct \in Int
  <1>6. n * (1000 * E) >= 7849 * V
    <2>1. 1000 * (b.correct - a.correct) * (b.correct - a.correct) = 1000 * E
      BY <1>2, <1>4
    <2>2. n >= (7849 * V + 1000 * E - 1) \div (1000 * E)
      BY <1>1, <2>1 DEF Compared!required_sample_size
    <2>3. 7849 * V \in Nat /\ 1000 * E \in Nat \ {0}
      BY <1>3, <1>5
    <2> QED
      BY <2>2, <2>3, LargeEnough
  <1>7. n >= 10
    <2> DEFINE H == Compared!Hits(a, b)
               l == Compared!Least(H, 2 * n - H)
    <2>1. l \in Int /\ l <= H /\ l <= 2 * n - H
      BY <1>3 DEF Compared!Least
    <2>2. Compared!Least(n, n) = n
      BY DEF Compared!Least
    <2>3. n * l >= 5 * (2 * n)
      <3>1. TRUE \in {n * l >= 5 * (2 * n), n * l > 5 * (2 * n)}
        <4>1. Compared!Usable(a, b) = {n * l >= 5 * (2 * n), n * l > 5 * (2 * n)}
          BY <1>3, <2>2 DEF Compared!Usable
        <4> QED
          BY <4>1
      <3> HIDE DEF l
      <3>2. n * l >= 5 * (2 * n) \/ n * l > 5 * (2 * n)
        BY <3>1, Zenon
      <3>3. n * l \in Int /\ 5 * (2 * n) \in Int
        BY <2>1
      <3> QED
        BY <3>2, <3>3
    <2> HIDE DEF l
    <2>4. l >= 10
      <3> SUFFICES ASSUME l < 10 PROVE FALSE
        BY <2>1
      <3>1. n * l < n * 10
        BY <2>1, TimesLarger
      <3> QED
        BY <2>1, <2>3, <3>1
    <2> QED
      BY <1>3, <2>1, <2>4
  <1> DEFINE T == n * E
  <1>8. T \in Nat /\ n * (1000 * E) = 1000 * T
    BY <1>3
  <1>9. T >= 10 * E
    <2>1. E * 10 <= E * n
      BY <1>3, <1>7, TimesMore
    <2> QED
      BY <1>3, <2>1
  <1> HIDE DEF T
  <1>10. 50 * T > 96 * (2 * V + E)
    BY <1>3, <1>5, <1>6, <1>8, <1>9
  <1> QED
    BY <1>3, <1>10 DEF T

\* What passed once and not another time is flaky, so the score moves by that at most
\* (detect_flakiness, runner.py).
LEMMA FlakyMoves ==
  ASSUME passes \in Seq(SUBSET Examples), NEW i \in DOMAIN passes, NEW j \in DOMAIN passes
  PROVE  Cardinality(passes[i]) - Cardinality(passes[j]) <= Cardinality(Compared!unstable)
  <1> DEFINE U == Compared!unstable
  <1>1. /\ IsFiniteSet(Examples) /\ passes[i] \subseteq Examples /\ passes[j] \subseteq Examples
        /\ U \subseteq Examples
    <2>1. IsFiniteSet(Examples)
      BY LabsAssumption DEF LabsAssumption
    <2>2. passes[i] \in SUBSET Examples /\ passes[j] \in SUBSET Examples
      OBVIOUS
    <2> QED
      BY <2>1, <2>2 DEF Compared!unstable
  <1>2. /\ IsFiniteSet(U) /\ IsFiniteSet(passes[i]) /\ IsFiniteSet(passes[j])
    BY <1>1, FS_Subset
  <1>3. ASSUME NEW e \in passes[i], e \notin passes[j] PROVE e \in U
    <2>1. Compared!Verdicts(e) = {TRUE} \cup {FALSE}
      <3>1. TRUE \in Compared!Verdicts(e) /\ FALSE \in Compared!Verdicts(e)
        <4>1. (e \in passes[i]) = TRUE /\ (e \in passes[j]) = FALSE
          BY <1>3
        <4> QED
          BY <4>1, Zenon DEF Compared!Verdicts
      <3>2. Compared!Verdicts(e) \subseteq BOOLEAN
        <4>1. \A k \in DOMAIN passes : (e \in passes[k]) \in BOOLEAN
          <5>1. \A k \in DOMAIN passes : (e \in passes[k]) = TRUE \/ (e \in passes[k]) = FALSE
            OBVIOUS
          <5> QED
            BY <5>1
        <4> QED
          BY <4>1 DEF Compared!Verdicts
      <3> QED
        BY <3>1, <3>2, Zenon
    <2>2. Cardinality({TRUE} \cup {FALSE}) = 2
      <3>1. /\ IsFiniteSet({TRUE}) /\ IsFiniteSet({FALSE})
            /\ Cardinality({TRUE}) = 1 /\ Cardinality({FALSE}) = 1
        BY FS_Singleton, Zenon
      <3>2. {TRUE} \cap {FALSE} = {}
        BY Zenon
      <3>3. Cardinality({TRUE} \cup {FALSE})
              = Cardinality({TRUE}) + Cardinality({FALSE}) - Cardinality({TRUE} \cap {FALSE})
        BY <3>1, FS_Union, Zenon
      <3>4. Cardinality({TRUE} \cap {FALSE}) = 0
        BY <3>2, FS_EmptySet, Zenon
      <3> DEFINE c == Cardinality({TRUE} \cup {FALSE})
                 t == Cardinality({TRUE})
                 f == Cardinality({FALSE})
                 z == Cardinality({TRUE} \cap {FALSE})
      <3>5. c = t + f - z /\ t = 1 /\ f = 1 /\ z = 0
        BY <3>1, <3>3, <3>4, Zenon
      <3> HIDE DEF c, t, f, z
      <3>6. c = 2
        BY ONLY <3>5
      <3> QED
        BY <3>6 DEF c
    <2>3. \A S : Compared!Cardinality(S) = Cardinality(S)
      BY Zenon DEF Compared!Cardinality, Cardinality
    <2>4. Compared!Cardinality(Compared!Verdicts(e)) = 2
      BY <2>1, <2>2, <2>3, Zenon
    <2>5. e \in Examples
      BY <1>1
    <2> DEFINE v == Compared!Cardinality(Compared!Verdicts(e))
    <2>6. v > 1
      <3>1. v = 2
        BY <2>4
      <3> HIDE DEF v
      <3> QED
        BY <3>1
    <2> QED
      BY <2>5, <2>6, Zenon DEF Compared!unstable
  <1> HIDE DEF U
  <1>4. passes[i] \subseteq passes[j] \cup U
    BY <1>3
  <1>5. /\ IsFiniteSet(passes[j] \cup U)
        /\ Cardinality(passes[j] \cup U)
             = Cardinality(passes[j]) + Cardinality(U) - Cardinality(passes[j] \cap U)
    BY <1>2, FS_Union
  <1>6. Cardinality(passes[i]) <= Cardinality(passes[j] \cup U)
    BY <1>4, <1>5, FS_Subset
  <1>7. IsFiniteSet(passes[j] \cap U)
    BY <1>2, FS_Subset
  <1>8. /\ Cardinality(passes[j] \cap U) \in Nat /\ Cardinality(passes[j]) \in Nat
        /\ Cardinality(U) \in Nat /\ Cardinality(passes[i]) \in Nat
    BY <1>2, <1>7, FS_CardinalityType
  <1>9. Cardinality(passes[i]) - Cardinality(passes[j]) <= Cardinality(U)
    BY <1>5, <1>6, <1>8
  <1> QED
    BY <1>9 DEF U

EvaluationInv == Possible(baseline) /\ Possible(candidate) /\ passes \in Seq(SUBSET Examples)

\* A comparison answers what it can, for runs of any size: which arm is called the baseline, and
\* whether hits or misses are counted, makes no difference; equal rates are never told apart; a
\* better candidate that is significant stays so with one hit more; on one dataset a significant
\* delta has an interval without zero and a set as large as asked for does not call its delta noise;
\* and a score moves by the flaky examples at most (significance.py:64-112, runner.py:83-93).
THEOREM EvaluationCorrect == EvaluationSpec => []AnswersWhatItCan
  <1>1. Compared!EvaluationInit => EvaluationInv
    <2>1. Compared!EmptyRun \in [total : Nat, correct : Nat]
          /\ Compared!EmptyRun.correct <= Compared!EmptyRun.total
      BY DEF Compared!EmptyRun
    <2>2. <<>> \in Seq(SUBSET Examples)
      OBVIOUS
    <2> QED
      BY <2>1, <2>2 DEF Compared!EvaluationInit, EvaluationInv, Possible
  <1>2. EvaluationInv /\ [Compared!EvaluationNext]_(Compared!evaluationVars) => EvaluationInv'
    <2> SUFFICES ASSUME EvaluationInv, [Compared!EvaluationNext]_(Compared!evaluationVars)
                 PROVE  EvaluationInv'
      OBVIOUS
    <2>1. ASSUME NEW run, Possible(run), NEW passed \in BOOLEAN
          PROVE  Possible(Compared!Graded(run, passed))
      BY <2>1 DEF Possible, Compared!Graded
    <2>2. CASE Compared!GradesBaseline
      <3>1. PICK passed \in BOOLEAN : baseline' = Compared!Graded(baseline, passed)
        BY <2>2 DEF Compared!GradesBaseline
      <3>2. candidate' = candidate /\ passes' = passes
        BY <2>2 DEF Compared!GradesBaseline
      <3>3. Possible(baseline)' /\ Possible(candidate)'
        <4>1. Possible(Compared!Graded(baseline, passed))
          BY <2>1 DEF EvaluationInv
        <4> QED
          BY <3>1, <3>2, <4>1 DEF EvaluationInv, Possible
      <3> QED
        BY <3>2, <3>3 DEF EvaluationInv
    <2>3. CASE Compared!GradesCandidate
      <3>1. PICK passed \in BOOLEAN : candidate' = Compared!Graded(candidate, passed)
        BY <2>3 DEF Compared!GradesCandidate
      <3>2. baseline' = baseline /\ passes' = passes
        BY <2>3 DEF Compared!GradesCandidate
      <3>3. Possible(baseline)' /\ Possible(candidate)'
        <4>1. Possible(Compared!Graded(candidate, passed))
          BY <2>1 DEF EvaluationInv
        <4> QED
          BY <3>1, <3>2, <4>1 DEF EvaluationInv, Possible
      <3> QED
        BY <3>2, <3>3 DEF EvaluationInv
    <2>4. CASE Compared!Repeat
      <3>1. PICK passed \in SUBSET Examples : passes' = Append(passes, passed)
        BY <2>4 DEF Compared!Repeat
      <3>2. baseline' = baseline /\ candidate' = candidate
        BY <2>4 DEF Compared!Repeat
      <3> QED
        BY <3>1, <3>2 DEF EvaluationInv, Possible
    <2>5. CASE UNCHANGED Compared!evaluationVars
      BY <2>5 DEF EvaluationInv, Possible, Compared!evaluationVars
    <2> QED
      BY <2>2, <2>3, <2>4, <2>5 DEF Compared!EvaluationNext
  <1>3. EvaluationInv => AnswersWhatItCan
    <2> SUFFICES ASSUME EvaluationInv PROVE Compared!AnswersWhatItCan
      BY DEF AnswersWhatItCan
    <2>1. PICK a, b : a = baseline /\ b = candidate
      OBVIOUS
    <2>2. Possible(a) /\ Possible(b)
      BY <2>1 DEF EvaluationInv
    <2>3. /\ a.total \in Nat /\ b.total \in Nat /\ a.correct \in Nat /\ b.correct \in Nat
          /\ a.correct <= a.total /\ b.correct <= b.total
      BY <2>2 DEF Possible
    <2>4. Compared!is_significant(b, a) = Compared!is_significant(a, b)
      <3>1. Compared!Hits(b, a) = Compared!Hits(a, b) /\ Compared!delta(b, a) = -Compared!delta(a, b)
        BY <2>2, Statistics
      <3> QED
        BY <2>2, <3>1, SameAnswers
    <2>5. Compared!is_significant(Compared!Missed(a), Compared!Missed(b)) = Compared!is_significant(a, b)
      <3> DEFINE c == Compared!Missed(a)
                 d == Compared!Missed(b)
      <3>1. /\ c \in [total : Nat, correct : Nat] /\ c.total = a.total /\ c.correct = a.total - a.correct
            /\ d \in [total : Nat, correct : Nat] /\ d.total = b.total /\ d.correct = b.total - b.correct
        <4>1. a.total - a.correct \in Nat /\ b.total - b.correct \in Nat
          BY <2>3
        <4> QED
          BY <2>2, <4>1 DEF Possible, Compared!Missed
      <3> HIDE DEF c, d
      <3>2. Possible(c) /\ Possible(d)
        BY <2>3, <3>1 DEF Possible
      <3>3. Compared!Hits(c, d) = Compared!Both(a, b) - Compared!Hits(a, b)
        BY <2>3, <3>1 DEF Compared!Hits, Compared!Both
      <3>4. Compared!delta(c, d) = -Compared!delta(a, b)
        <4>1. Compared!delta(c, d) = (b.total - b.correct) * a.total - (a.total - a.correct) * b.total
          BY <3>1 DEF Compared!delta
        <4>2. Compared!delta(a, b) = b.correct * a.total - a.correct * b.total
          BY DEF Compared!delta
        <4>3. /\ (b.total - b.correct) * a.total = b.total * a.total - b.correct * a.total
              /\ (a.total - a.correct) * b.total = b.total * a.total - a.correct * b.total
          BY <2>3
        <4>4. b.total * a.total \in Int /\ b.correct * a.total \in Int /\ a.correct * b.total \in Int
          BY <2>3
        <4> QED
          BY ONLY <4>1, <4>2, <4>3, <4>4
      <3>5. Compared!is_significant(c, d) = Compared!is_significant(a, b)
        BY <2>2, <3>1, <3>2, <3>3, <3>4, SameAnswers
      <3> QED
        BY <3>5 DEF c, d
    <2>6. Compared!delta(a, b) = 0 => "True" \notin Compared!is_significant(a, b)
      BY <2>2, EqualRates, AnswersAre
    <2>7. ASSUME a.total > 0, "True" \in Compared!is_significant(a, b), Compared!delta(a, b) > 0,
                 b.correct < b.total
          PROVE  "False" \notin Compared!is_significant(a, [b EXCEPT !.correct = @ + 1])
      BY <2>2, <2>7, BetterStays, AnswersAre
    <2>8. ASSUME a.total > 0, a.total = b.total, "True" \in Compared!is_significant(a, b)
          PROVE  Compared!ExcludesZero(a, b)
      <3>1. PICK V, E : /\ V = Compared!Variance(a) + Compared!Variance(b)
                        /\ E = (b.correct - a.correct) * (b.correct - a.correct)
        OBVIOUS
      <3>2. a.total \in Nat \ {0}
        BY <2>3, <2>8
      <3>3. /\ V \in Nat /\ E \in Nat
            /\ Compared!Significant(a, b) <=> 50 * (a.total * E) > 96 * (2 * V + E)
            /\ Compared!ExcludesZero(a, b) <=> 25 * (a.total * E) > 96 * V
        BY <2>2, <2>8, <3>1, <3>2, OneSize
      <3>4. Compared!Significant(a, b)
        BY <2>8, AnswersAre
      <3>5. a.total * E \in Nat
        BY <2>3, <3>3
      <3> QED
        BY <3>3, <3>4, <3>5
    <2>9. ASSUME a.total > 0, a.total = b.total, b.correct > a.correct,
                 a.total >= Compared!required_sample_size(a, b)
          PROVE  "False" \notin Compared!is_significant(a, b)
      <3>1. a.total \in Nat \ {0}
        BY <2>3, <2>9
      <3> QED
        BY <2>2, <2>9, <3>1, NotNoise, AnswersAre
    <2>10. ASSUME NEW i \in DOMAIN passes, NEW j \in DOMAIN passes
           PROVE  Compared!Cardinality(passes[i]) - Compared!Cardinality(passes[j])
                    <= Compared!Cardinality(Compared!unstable)
      <3>1. Cardinality(passes[i]) - Cardinality(passes[j]) <= Cardinality(Compared!unstable)
        BY FlakyMoves DEF EvaluationInv
      <3>2. \A S : Compared!Cardinality(S) = Cardinality(S)
        BY Zenon DEF Compared!Cardinality, Cardinality
      <3> QED
        BY <3>1, <3>2
    <2> QED
      BY <2>1, <2>4, <2>5, <2>6, <2>7, <2>8, <2>9, <2>10 DEF Compared!AnswersWhatItCan
  <1> QED
    BY <1>1, <1>2, <1>3, PTL DEF EvaluationSpec
===============================================================================
