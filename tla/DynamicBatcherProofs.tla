------------------------- MODULE DynamicBatcherProofs -------------------------
(***************************************************************************)
(* No request of DynamicBatcher.tla is lost or given another's answer, for *)
(* any number of requests and every batch size.                            *)
(***************************************************************************)
EXTENDS DynamicBatcher, SequenceTheorems, TLAPS

-------------------------------------------------------------------------------
(* Sequences *)

\* The elements of a sequence.
LEMMA Elements ==
  ASSUME NEW S, NEW s \in Seq(S)
  PROVE  /\ ToSet(s) \subseteq S
         /\ \A x : x \in ToSet(s) <=> \E i \in 1..Len(s) : s[i] = x
         /\ s = <<>> => ToSet(s) = {}
         /\ IsInjective(s) <=> \A i, j \in 1..Len(s) : s[i] = s[j] => i = j
  BY DEF ToSet, IsInjective

\* A concatenation has the elements of both, and repeats none if neither does
\* and they share none.
LEMMA ConcatElements ==
  ASSUME NEW S, NEW s \in Seq(S), NEW t \in Seq(S)
  PROVE  /\ ToSet(s \o t) = ToSet(s) \cup ToSet(t)
         /\ IsInjective(s \o t) <=>
              IsInjective(s) /\ IsInjective(t) /\ ToSet(s) \cap ToSet(t) = {}
  <1> DEFINE u == s \o t
  <1>0. /\ u \in Seq(S) /\ Len(u) = Len(s) + Len(t) /\ Len(s) \in Nat /\ Len(t) \in Nat
        /\ \A i \in 1..Len(u) : u[i] = IF i <= Len(s) THEN s[i] ELSE t[i - Len(s)]
    BY ConcatProperties
  <1>1. \A i \in 1..Len(s) : i \in 1..Len(u) /\ u[i] = s[i]
    BY <1>0
  <1>2. \A i \in 1..Len(t) : i + Len(s) \in 1..Len(u) /\ u[i + Len(s)] = t[i]
    BY <1>0
  <1>3. \A i \in 1..Len(u) : \/ i \in 1..Len(s) /\ u[i] = s[i]
                             \/ i - Len(s) \in 1..Len(t) /\ u[i] = t[i - Len(s)]
    BY <1>0
  <1> HIDE DEF u
  <1>4. ToSet(u) = ToSet(s) \cup ToSet(t)
    <2>1. ASSUME NEW x, x \in ToSet(u) PROVE x \in ToSet(s) \/ x \in ToSet(t)
      <3>1. PICK i \in 1..Len(u) : u[i] = x
        BY <1>0, <2>1, Elements
      <3>2. CASE i \in 1..Len(s) /\ u[i] = s[i]
        BY <3>1, <3>2, Elements
      <3>3. CASE i - Len(s) \in 1..Len(t) /\ u[i] = t[i - Len(s)]
        BY <3>1, <3>3, Elements
      <3> QED
        BY <1>3, <3>2, <3>3
    <2>2. \A x : x \in ToSet(s) => x \in ToSet(u)
      BY <1>0, <1>1, Elements
    <2>3. ASSUME NEW x, x \in ToSet(t) PROVE x \in ToSet(u)
      <3>1. PICK i \in 1..Len(t) : t[i] = x
        BY <2>3, Elements
      <3>2. i + Len(s) \in 1..Len(u) /\ u[i + Len(s)] = x
        BY <1>2, <3>1
      <3> QED
        BY <1>0, <3>2, Elements
    <2> QED
      BY <2>1, <2>2, <2>3
  <1>5. ASSUME IsInjective(u)
        PROVE  IsInjective(s) /\ IsInjective(t) /\ ToSet(s) \cap ToSet(t) = {}
    <2>0. \A i, j \in 1..Len(u) : u[i] = u[j] => i = j
      BY <1>0, <1>5, Elements
    <2>1. IsInjective(s)
      BY <1>1, <2>0, Elements
    <2>2. IsInjective(t)
      <3> SUFFICES ASSUME NEW i \in 1..Len(t), NEW j \in 1..Len(t), t[i] = t[j] PROVE i = j
        BY Elements
      <3>1. i + Len(s) = j + Len(s)
        BY <1>2, <2>0
      <3> QED
        BY <1>0, <3>1
    <2>3. ASSUME NEW x, x \in ToSet(s), x \in ToSet(t) PROVE FALSE
      <3>1. PICK i \in 1..Len(s) : s[i] = x
        BY <2>3, Elements
      <3>2. PICK j \in 1..Len(t) : t[j] = x
        BY <2>3, Elements
      <3>3. i = j + Len(s)
        BY <1>1, <1>2, <2>0, <3>1, <3>2
      <3> QED
        BY <1>0, <3>3
    <2> QED
      BY <2>1, <2>2, <2>3
  <1>6. ASSUME IsInjective(s), IsInjective(t), ToSet(s) \cap ToSet(t) = {}
        PROVE  IsInjective(u)
    <2> SUFFICES ASSUME NEW i \in 1..Len(u), NEW j \in 1..Len(u), u[i] = u[j] PROVE i = j
      BY <1>0, Elements
    <2>1. CASE i \in 1..Len(s) /\ j \in 1..Len(s)
      BY <1>1, <1>6, <2>1, Elements
    <2>2. CASE i - Len(s) \in 1..Len(t) /\ j - Len(s) \in 1..Len(t)
      <3>1. t[i - Len(s)] = t[j - Len(s)]
        BY <1>0, <1>2, <2>2
      <3>2. i - Len(s) = j - Len(s)
        BY <1>6, <2>2, <3>1, Elements
      <3> QED
        BY <1>0, <3>2
    <2>3. ASSUME NEW m \in 1..Len(s), NEW n \in 1..Len(t), s[m] = t[n] PROVE FALSE
      BY <1>6, <2>3, Elements
    <2> QED
      BY <1>0, <1>3, <2>1, <2>2, <2>3
  <1> QED
    BY <1>4, <1>5, <1>6 DEF u

\* A request appended to a sequence.
LEMMA AppendElements ==
  ASSUME NEW S, NEW s \in Seq(S), NEW x \in S
  PROVE  /\ Append(s, x) \in Seq(S) /\ Append(s, x) # <<>>
         /\ ToSet(Append(s, x)) = ToSet(s) \cup {x}
         /\ IsInjective(s) /\ x \notin ToSet(s) => IsInjective(Append(s, x))
  <1> DEFINE u == Append(s, x)
  <1>1. /\ u \in Seq(S) /\ u # <<>> /\ Len(u) = Len(s) + 1 /\ Len(s) \in Nat
        /\ \A i \in 1..Len(s) : i \in 1..Len(u) /\ u[i] = s[i]
        /\ Len(u) \in 1..Len(u) /\ u[Len(u)] = x
        /\ \A i \in 1..Len(u) : i \in 1..Len(s) \/ i = Len(u)
    OBVIOUS
  <1> HIDE DEF u
  <1>2. ToSet(u) = ToSet(s) \cup {x}
    <2>1. ASSUME NEW y, y \in ToSet(u) PROVE y \in ToSet(s) \cup {x}
      <3>1. PICK i \in 1..Len(u) : u[i] = y
        BY <1>1, <2>1, Elements
      <3> QED
        BY <1>1, <3>1, Elements
    <2>2. ASSUME NEW y, y \in ToSet(s) PROVE y \in ToSet(u)
      <3>1. PICK i \in 1..Len(s) : s[i] = y
        BY <2>2, Elements
      <3> QED
        BY <1>1, <3>1, Elements
    <2>3. x \in ToSet(u)
      BY <1>1, Elements
    <2> QED
      BY <2>1, <2>2, <2>3
  <1>3. ASSUME IsInjective(s), x \notin ToSet(s) PROVE IsInjective(u)
    <2>1. \A i \in 1..Len(s) : s[i] # x
      BY <1>3, Elements
    <2> SUFFICES ASSUME NEW i \in 1..Len(u), NEW j \in 1..Len(u), u[i] = u[j] PROVE i = j
      BY <1>1, Elements
    <2>2. CASE i \in 1..Len(s) /\ j \in 1..Len(s)
      BY <1>1, <1>3, <2>2, Elements
    <2> QED
      BY <1>1, <2>1, <2>2
  <1> QED
    BY <1>1, <1>2, <1>3 DEF u

-------------------------------------------------------------------------------
(* The invariant *)

LeftToWait == {"crashed", "cancelled"}

\* The requests in the batcher's hands.
Held == ToSet(pending) \cup ToSet(batch["run"]) \cup ToSet(batch["shutdown"])

\* No request is in the batcher's hands twice.
OnceHeld ==
  /\ IsInjective(pending) /\ \A f \in Flushers : IsInjective(batch[f])
  /\ \A f \in Flushers : ToSet(pending) \cap ToSet(batch[f]) = {}
  /\ ToSet(batch["run"]) \cap ToSet(batch["shutdown"]) = {}

\* Whoever waits is in the batcher's hands, unless a flusher left its batch behind.
WaitingHeld ==
  (\A f \in Flushers : at[f] \notin LeftToWait)
    => \A r \in Requests : Waiting(r) => r \in Held

\* What is in the batcher's hands was accepted by submit().
HeldAccepted == \A r \in Held : request[r].state \notin {"new", "refused"}

HoldsInv ==
  /\ TypeOK /\ OwnAnswer /\ (stopping => pending = <<>>)
  /\ OnceHeld /\ WaitingHeld /\ HeldAccepted

\* With it nobody is forgotten.
LEMMA HeldIsNobodyForgotten == HoldsInv => NobodyForgotten
  <1> SUFFICES ASSUME HoldsInv PROVE NobodyForgotten
    OBVIOUS
  <1> DEFINE P == pending
             R == batch["run"]
             S == batch["shutdown"]
  <1>1. /\ P \in Seq(Requests) /\ R \in Seq(Requests) /\ S \in Seq(Requests)
        /\ IsInjective(P) /\ IsInjective(R) /\ IsInjective(S)
        /\ ToSet(P) \cap ToSet(R) = {} /\ ToSet(P) \cap ToSet(S) = {}
        /\ ToSet(R) \cap ToSet(S) = {}
    BY DEF HoldsInv, OnceHeld, TypeOK, Flushers
  <1>2. /\ P \o R \in Seq(Requests) /\ ToSet(P \o R) = ToSet(P) \cup ToSet(R)
        /\ IsInjective(P \o R)
    BY <1>1, ConcatElements
  <1> DEFINE Q == P \o R
  <1> HIDE DEF Q
  <1>3. /\ Q \in Seq(Requests) /\ ToSet(Q) \cap ToSet(S) = {} /\ IsInjective(Q)
        /\ ToSet(Q) = ToSet(P) \cup ToSet(R)
    BY <1>1, <1>2 DEF Q
  <1>4. ToSet(Q \o S) = ToSet(P) \cup ToSet(R) \cup ToSet(S) /\ IsInjective(Q \o S)
    <2> HIDE DEF P, R, S
    <2> QED
      BY <1>1, <1>3, ConcatElements
  <1>5. Q \o S = pending \o batch["run"] \o batch["shutdown"]
    BY DEF Q
  <1> QED
    BY <1>4, <1>5 DEF NobodyForgotten, HoldsInv, WaitingHeld, Held, LeftToWait

\* The empty sequence holds nobody.
LEMMA EmptyElements ==
  <<>> \in Seq(Requests) /\ ToSet(<<>>) = {} /\ IsInjective(<<>>)
  <1>1. <<>> \in Seq(Requests) /\ Len(<<>>) = 0
    OBVIOUS
  <1> QED
    BY <1>1, Elements

\* Before the first request nobody is held, nobody waits.
LEMMA HoldsInitially == ASSUME BatcherAssumption, Init PROVE HoldsInv
  <1>1. /\ request = [r \in Requests |-> [state |-> "new", output |-> NoOutput]]
        /\ pending = <<>> /\ batch_full = FALSE /\ stopping = FALSE /\ miscounts = 0
        /\ batch = [f \in Flushers |-> <<>>]
        /\ at = [f \in Flushers |-> IF f = "run" THEN "waiting" ELSE "no"]
        /\ "run" \in Flushers /\ "shutdown" \in Flushers
    BY DEF Init, Flushers
  <1>2. TypeOK /\ OwnAnswer
    <2>1. \A f \in Flushers : batch[f] = <<>> /\ at[f] \in {"no", "waiting"}
      BY <1>1
    <2>2. batch \in [Flushers -> Seq(Requests)]
      BY <1>1, EmptyElements
    <2>3. at \in [Flushers -> {"no", "waiting", "flushing", "done", "crashed", "cancelled"}]
      BY <1>1
    <2>4. /\ request \in [Requests -> [state : {"new", "waiting", "refused", "cancelled",
                                               "answered", "failed"},
                                      output : Requests \cup {NoOutput}]]
          /\ OwnAnswer
      BY <1>1 DEF OwnAnswer
    <2>5. pending \in Seq(Requests) /\ miscounts \in 0..MaxMiscounts
      BY <1>1, EmptyElements DEF BatcherAssumption
    <2>6. \A f \in Flushers : at[f] = "flushing" <=> batch[f] # <<>>
      BY <2>1
    <2> QED
      BY <1>1, <2>2, <2>3, <2>4, <2>5, <2>6 DEF TypeOK
  <1>3. OnceHeld /\ Held = {}
    BY <1>1, EmptyElements DEF OnceHeld, Held
  <1>4. WaitingHeld /\ HeldAccepted
    BY <1>1, <1>3 DEF WaitingHeld, HeldAccepted, Waiting
  <1> QED
    BY <1>1, <1>2, <1>3, <1>4 DEF HoldsInv

-------------------------------------------------------------------------------
(* Each step keeps it *)

\* A request that submit() accepts comes in as the only new one.
LEMMA SubmitsHolds ==
  ASSUME BatcherAssumption, HoldsInv, NEW r \in Requests, Submits(r) PROVE HoldsInv'
  <1>0. /\ TypeOK /\ OwnAnswer /\ (stopping => pending = <<>>)
        /\ OnceHeld /\ WaitingHeld /\ HeldAccepted
    BY DEF HoldsInv
  <1>1. r \notin Held
    BY <1>0 DEF HeldAccepted, Submits
  <1>2. CASE stopping
    <2>1. /\ request' = [request EXCEPT ![r].state = "refused"]
          /\ UNCHANGED <<pending, batch_full, stopping, at, batch, miscounts>>
      BY <1>2 DEF Submits
    <2>2. /\ request[r].output = NoOutput
          /\ TypeOK' /\ OwnAnswer'
      BY <1>0, <2>1 DEF TypeOK, OwnAnswer, Submits
    <2>3. OnceHeld' /\ Held' = Held
      BY <1>0, <2>1 DEF OnceHeld, Held
    <2>4. WaitingHeld' /\ HeldAccepted'
      BY <1>0, <1>1, <2>1, <2>3 DEF WaitingHeld, HeldAccepted, Waiting, TypeOK
    <2> QED
      BY <1>0, <2>1, <2>2, <2>3, <2>4 DEF HoldsInv
  <1>3. CASE ~stopping
    <2>1. /\ request' = [request EXCEPT ![r].state = "waiting"]
          /\ pending' = Append(pending, r)
          /\ batch_full' \in BOOLEAN
          /\ UNCHANGED <<stopping, at, batch, miscounts>>
      BY <1>0, <1>3 DEF Submits, TypeOK
    <2>2. /\ pending' \in Seq(Requests) /\ ToSet(pending') = ToSet(pending) \cup {r}
          /\ IsInjective(pending) /\ r \notin ToSet(pending) => IsInjective(pending')
      BY <1>0, <2>1, AppendElements DEF TypeOK
    <2>3. TypeOK' /\ OwnAnswer'
      BY <1>0, <2>1, <2>2 DEF TypeOK, OwnAnswer, Submits
    <2>4. OnceHeld' /\ Held' = Held \cup {r}
      BY <1>0, <1>1, <2>1, <2>2 DEF OnceHeld, Held, Flushers
    <2>5. WaitingHeld' /\ HeldAccepted'
      BY <1>0, <2>1, <2>4 DEF WaitingHeld, HeldAccepted, Waiting, TypeOK
    <2> QED
      BY <1>0, <1>3, <2>1, <2>3, <2>4, <2>5 DEF HoldsInv
  <1> QED
    BY <1>2, <1>3

\* One that is cancelled stays where it is, and waits no more.
LEMMA AbandonsHolds ==
  ASSUME BatcherAssumption, HoldsInv, NEW r \in Requests, Abandons(r) PROVE HoldsInv'
  <1>0. /\ TypeOK /\ OwnAnswer /\ (stopping => pending = <<>>)
        /\ OnceHeld /\ WaitingHeld /\ HeldAccepted
    BY DEF HoldsInv
  <1>1. TypeOK' /\ OwnAnswer'
    BY <1>0 DEF TypeOK, OwnAnswer, Abandons, Waiting
  <1>2. OnceHeld' /\ Held' = Held
    BY <1>0 DEF OnceHeld, Held, Abandons
  <1>3. WaitingHeld' /\ HeldAccepted'
    BY <1>0, <1>2 DEF WaitingHeld, HeldAccepted, Waiting, TypeOK, Abandons
  <1> QED
    BY <1>0, <1>1, <1>2, <1>3 DEF HoldsInv, Abandons

\* All that is pending moves into the hands of a flusher that holds nothing.
LEMMA FlushesHolds ==
  ASSUME BatcherAssumption, HoldsInv, NEW f \in Flushers, NEW stop \in BOOLEAN,
         at[f] \in {"waiting", "no"}, Flushes(f, stop), stopping' \in BOOLEAN,
         UNCHANGED <<request, miscounts>>
  PROVE  HoldsInv'
  <1>0. /\ TypeOK /\ OwnAnswer /\ (stopping => pending = <<>>)
        /\ OnceHeld /\ WaitingHeld /\ HeldAccepted
    BY DEF HoldsInv
  <1>1. batch[f] = <<>> /\ pending \in Seq(Requests)
    BY <1>0 DEF TypeOK
  <1>2. PICK g \in Flushers : Flushers = {f, g} /\ f # g
    BY DEF Flushers
  <1>3. /\ pending' = <<>> /\ batch_full' = FALSE
        /\ batch' = [batch EXCEPT ![f] = pending]
        /\ at' = [at EXCEPT ![f] = IF pending = <<>> THEN After(f, stop) ELSE "flushing"]
    BY DEF Flushes
  <1>4. /\ batch'[f] = pending /\ batch'[g] = batch[g] /\ at'[g] = at[g]
        /\ at'[f] = IF pending = <<>> THEN After(f, stop) ELSE "flushing"
        /\ batch' \in [Flushers -> Seq(Requests)]
    BY <1>0, <1>1, <1>2, <1>3 DEF TypeOK
  <1>5. After(f, stop) \in {"done", "waiting"}
    BY DEF After
  <1>6. TypeOK'
    <2>1. at' \in [Flushers -> {"no", "waiting", "flushing", "done", "crashed", "cancelled"}]
      BY <1>0, <1>3, <1>5 DEF TypeOK
    <2>2. \A h \in Flushers : at'[h] = "flushing" <=> batch'[h] # <<>>
      BY <1>0, <1>2, <1>4, <1>5 DEF TypeOK
    <2> QED
      BY <1>0, <1>3, <1>4, <2>1, <2>2, EmptyElements DEF TypeOK
  <1>7. Held' = Held
    BY <1>1, <1>2, <1>3, <1>4, EmptyElements DEF Held, Flushers
  <1>8. OnceHeld'
    BY <1>0, <1>1, <1>2, <1>3, <1>4, EmptyElements DEF OnceHeld, Flushers
  <1>9. WaitingHeld' /\ HeldAccepted' /\ OwnAnswer'
    <2>1. (\A h \in Flushers : at'[h] \notin LeftToWait) => \A h \in Flushers : at[h] \notin LeftToWait
      BY <1>2, <1>4 DEF LeftToWait
    <2> QED
      BY <1>0, <1>7, <2>1 DEF WaitingHeld, HeldAccepted, OwnAnswer, Waiting
  <1> QED
    BY <1>3, <1>6, <1>7, <1>8, <1>9 DEF HoldsInv

\* A flusher that is through with its batch drops it; those it leaves waiting
\* were left behind.
LEMMA LeavesHolds ==
  ASSUME BatcherAssumption, HoldsInv, NEW f \in Flushers, at[f] \notin LeftToWait,
         NEW where \in {"done", "waiting"} \cup LeftToWait, Leaves(f, where),
         UNCHANGED <<pending, batch_full, stopping>>, miscounts' \in 0..MaxMiscounts,
         request' \in [Requests -> [state : {"new", "waiting", "refused", "cancelled",
                                             "answered", "failed"},
                                    output : Requests \cup {NoOutput}]],
         OwnAnswer',
         \A r \in Requests : request'[r] # request[r] =>
           Waiting(r) /\ request'[r].state \in {"answered", "failed"},
         where \notin LeftToWait => \A r \in ToSet(batch[f]) : ~Waiting(r)'
  PROVE  HoldsInv'
  <1>0. /\ TypeOK /\ (stopping => pending = <<>>)
        /\ OnceHeld /\ WaitingHeld /\ HeldAccepted
    BY DEF HoldsInv
  <1>1. PICK g \in Flushers : Flushers = {f, g} /\ f # g
    BY DEF Flushers
  <1>2. /\ batch'[f] = <<>> /\ batch'[g] = batch[g] /\ at'[g] = at[g] /\ at'[f] = where
        /\ batch' \in [Flushers -> Seq(Requests)]
        /\ at' \in [Flushers -> {"no", "waiting", "flushing", "done", "crashed", "cancelled"}]
    BY <1>0, <1>1, EmptyElements DEF TypeOK, Leaves, LeftToWait
  <1>3. TypeOK'
    BY <1>0, <1>1, <1>2 DEF TypeOK, LeftToWait
  <1>4. OnceHeld'
    BY <1>0, <1>1, <1>2, EmptyElements DEF OnceHeld, Flushers
  <1>5. Held = Held' \cup ToSet(batch[f])
    BY <1>1, <1>2, EmptyElements DEF Held, Flushers
  <1>6. \A r \in Requests : Waiting(r)' => Waiting(r)
    BY DEF Waiting
  <1>7. WaitingHeld'
    <2> SUFFICES ASSUME \A h \in Flushers : at'[h] \notin LeftToWait, NEW r \in Requests, Waiting(r)'
                 PROVE  r \in Held'
      BY DEF WaitingHeld
    <2>1. where \notin LeftToWait
      BY <1>2
    <2>2. \A h \in Flushers : at[h] \notin LeftToWait
      BY <1>1, <1>2
    <2> QED
      BY <1>0, <1>1, <1>2, <1>5, <1>6, <2>1, <2>2 DEF WaitingHeld
  <1>8. HeldAccepted'
    <2>1. Held \subseteq Requests
      BY <1>0, Elements DEF Held, TypeOK, Flushers
    <2> QED
      BY <1>0, <1>5, <2>1 DEF HeldAccepted
  <1> QED
    BY <1>0, <1>3, <1>4, <1>7, <1>8 DEF HoldsInv

\* The outputs set: to the requests of the batch that still wait, each its own;
\* and to all of them, unless outputs are missing.
LEMMA SetsOwn ==
  ASSUME HoldsInv, NEW f \in Flushers, NEW n \in 0..Len(batch[f]),
         NEW outputs, outputs = SubSeq(batch[f], 1, n), Sets(batch[f], outputs)
  PROVE  /\ request' \in [Requests -> [state : {"new", "waiting", "refused", "cancelled",
                                                "answered", "failed"},
                                       output : Requests \cup {NoOutput}]]
         /\ OwnAnswer'
         /\ \A r \in Requests : request'[r] # request[r] =>
              Waiting(r) /\ request'[r].state \in {"answered", "failed"}
         /\ n = Len(batch[f]) => \A r \in ToSet(batch[f]) : ~Waiting(r)'
  <1> DEFINE b == batch[f]
             o == outputs
  <1>0. /\ TypeOK /\ OwnAnswer /\ b \in Seq(Requests)
        /\ \A i, j \in 1..Len(b) : b[i] = b[j] => i = j
    BY Elements DEF HoldsInv, OnceHeld, TypeOK
  <1>1. /\ DOMAIN b = 1..Len(b) /\ DOMAIN o = 1..n /\ Len(b) \in Nat /\ n \in Nat
        /\ \A i \in 1..n : i \in 1..Len(b) /\ o[i] = b[i]
    BY <1>0
  <1> DEFINE Gets(r) == Waiting(r) /\ \E i \in DOMAIN b \cap DOMAIN o : b[i] = r
  <1>2. ASSUME NEW r \in Requests, Gets(r)
        PROVE  o[CHOOSE i \in DOMAIN b : b[i] = r] = r
    <2>1. PICK i \in 1..n : i \in 1..Len(b) /\ b[i] = r
      BY <1>1, <1>2
    <2>2. (CHOOSE j \in DOMAIN b : b[j] = r) = i
      <3> HIDE DEF b, o
      <3>1. PICK j : j = CHOOSE k \in DOMAIN b : b[k] = r
        OBVIOUS
      <3>2. j \in DOMAIN b /\ b[j] = r
        BY <1>1, <2>1, <3>1
      <3> QED
        BY <1>0, <1>1, <2>1, <3>1, <3>2
    <2> QED
      BY <1>1, <2>1, <2>2
  <1>3. request' = [r \in Requests |->
          IF Gets(r) THEN [state |-> "answered", output |-> o[CHOOSE i \in DOMAIN b : b[i] = r]]
          ELSE request[r]]
    BY DEF Sets
  <1> HIDE DEF Gets, o
  <1>4. request' = [r \in Requests |->
          IF Gets(r) THEN [state |-> "answered", output |-> r] ELSE request[r]]
    BY <1>2, <1>3
  <1>5. \A r \in Requests : Gets(r) => Waiting(r)
    BY DEF Gets
  <1>6. ASSUME n = Len(b), NEW r \in ToSet(b) PROVE ~Waiting(r)'
    <2>1. r \in Requests /\ \E i \in DOMAIN b \cap DOMAIN o : b[i] = r
      BY <1>0, <1>1, <1>6, Elements
    <2> QED
      BY <1>4, <2>1 DEF Waiting, Gets
  <1> QED
    BY <1>0, <1>4, <1>5, <1>6 DEF TypeOK, OwnAnswer

\* Everyone of the batch who waits hears of the handler's failure.
LEMMA RaisesFails ==
  ASSUME HoldsInv, NEW f \in Flushers, HandlerRaises(f)
  PROVE  /\ request' \in [Requests -> [state : {"new", "waiting", "refused", "cancelled",
                                                "answered", "failed"},
                                       output : Requests \cup {NoOutput}]]
         /\ OwnAnswer'
         /\ \A r \in Requests : request'[r] # request[r] =>
              Waiting(r) /\ request'[r].state \in {"answered", "failed"}
         /\ \A r \in ToSet(batch[f]) : ~Waiting(r)'
  <1>1. TypeOK /\ OwnAnswer /\ ToSet(batch[f]) \subseteq Requests
    BY Elements DEF HoldsInv, TypeOK
  <1>2. request' = [r \in Requests |->
          IF Waiting(r) /\ r \in ToSet(batch[f])
          THEN [state |-> "failed", output |-> NoOutput] ELSE request[r]]
    BY DEF HandlerRaises
  <1> QED
    BY <1>1, <1>2 DEF TypeOK, OwnAnswer, Waiting

\* The handler returns: with as many outputs as it was given inputs, or not.
LEMMA HandlerHolds ==
  ASSUME BatcherAssumption, HoldsInv, NEW f \in Flushers,
         HandlerEnds(f) \/ HandlerMiscounts(f)
  PROVE  HoldsInv'
  <1>0. /\ TypeOK /\ at[f] = "flushing" /\ at[f] \notin LeftToWait
        /\ batch[f] \in Seq(Requests) /\ Len(batch[f]) \in 0..Len(batch[f])
        /\ SubSeq(batch[f], 1, Len(batch[f])) = batch[f]
        /\ After(f, stopping) \in {"done", "waiting"}
        /\ miscounts \in 0..MaxMiscounts /\ MaxMiscounts \in Nat
    BY DEF HoldsInv, HandlerEnds, HandlerReturns, HandlerRaises, HandlerMiscounts, Flushing,
           LeftToWait, TypeOK, After, BatcherAssumption
  <1>1. CASE HandlerReturns(f)
    <2>1. /\ Sets(batch[f], batch[f]) /\ Leaves(f, After(f, stopping))
          /\ UNCHANGED <<pending, batch_full, stopping, miscounts>>
      BY <1>1 DEF HandlerReturns
    <2>2. /\ request' \in [Requests -> [state : {"new", "waiting", "refused", "cancelled",
                                                "answered", "failed"},
                                       output : Requests \cup {NoOutput}]]
          /\ OwnAnswer'
          /\ \A r \in Requests : request'[r] # request[r] =>
               Waiting(r) /\ request'[r].state \in {"answered", "failed"}
          /\ \A r \in ToSet(batch[f]) : ~Waiting(r)'
      BY <1>0, <2>1, SetsOwn
    <2> QED
      BY <1>0, <2>1, <2>2, LeavesHolds
  <1>2. CASE HandlerRaises(f)
    <2>1. /\ Leaves(f, After(f, stopping))
          /\ UNCHANGED <<pending, batch_full, stopping, miscounts>>
      BY <1>2 DEF HandlerRaises
    <2> QED
      BY <1>0, <1>2, <2>1, RaisesFails, LeavesHolds
  <1>3. CASE HandlerMiscounts(f)
    <2>1. PICK n \in 0..Len(batch[f]) : Sets(batch[f], SubSeq(batch[f], 1, n))
      BY <1>3 DEF HandlerMiscounts
    <2>2. /\ Leaves(f, "crashed") /\ miscounts' \in 0..MaxMiscounts
          /\ UNCHANGED <<pending, batch_full, stopping>>
      BY <1>0, <1>3 DEF HandlerMiscounts
    <2>3. /\ request' \in [Requests -> [state : {"new", "waiting", "refused", "cancelled",
                                                "answered", "failed"},
                                       output : Requests \cup {NoOutput}]]
          /\ OwnAnswer'
          /\ \A r \in Requests : request'[r] # request[r] =>
               Waiting(r) /\ request'[r].state \in {"answered", "failed"}
      BY <2>1, SetsOwn
    <2> QED
      BY <1>0, <2>2, <2>3, LeavesHolds DEF LeftToWait
  <1> QED
    BY <1>1, <1>2, <1>3 DEF HandlerEnds

\* The app cancels run(): whom it leaves waiting was left behind.
LEMMA LoopCancelledHolds ==
  ASSUME BatcherAssumption, HoldsInv, LoopCancelled PROVE HoldsInv'
  <1>1. /\ "run" \in Flushers /\ at["run"] \notin LeftToWait /\ "cancelled" \in LeftToWait
        /\ Leaves("run", "cancelled")
        /\ UNCHANGED <<request, pending, batch_full, stopping, miscounts>>
    BY DEF LoopCancelled, Flushers, LeftToWait
  <1>2. TypeOK /\ OwnAnswer
    BY DEF HoldsInv
  <1>3. OwnAnswer' /\ miscounts' \in 0..MaxMiscounts
    BY <1>1, <1>2 DEF OwnAnswer, TypeOK
  <1> QED
    BY <1>1, <1>2, <1>3, LeavesHolds DEF TypeOK

-------------------------------------------------------------------------------
(* The theorem *)

\* Nobody is forgotten (NobodyForgotten; batcher.py:45-91): however submissions,
\* cancellations, the run() loop, shutdown() and handlers that fail interleave,
\* a request that waits is in exactly one place while the flushers live, and no
\* request ever gets another's output.
THEOREM BatcherCorrect == Spec => []NobodyForgotten
  <1>1. ASSUME Init PROVE HoldsInv
    BY <1>1, BatcherAssumption, HoldsInitially
  <1>2. ASSUME HoldsInv, [Next]_vars PROVE HoldsInv'
    <2>1. ASSUME NEW r \in Requests, Submits(r) \/ Abandons(r) PROVE HoldsInv'
      BY <1>2, <2>1, BatcherAssumption, SubmitsHolds, AbandonsHolds
    <2>2. CASE LoopFlushes
      BY <1>2, <2>2, BatcherAssumption, FlushesHolds DEF LoopFlushes, HoldsInv, TypeOK, Flushers
    <2>3. ASSUME NEW f \in Flushers, HandlerEnds(f) \/ HandlerMiscounts(f) PROVE HoldsInv'
      BY <1>2, <2>3, BatcherAssumption, HandlerHolds
    <2>4. CASE Shutdown
      BY <1>2, <2>4, BatcherAssumption, FlushesHolds DEF Shutdown, Flushers
    <2>5. CASE LoopCancelled
      BY <1>2, <2>5, BatcherAssumption, LoopCancelledHolds
    <2>6. CASE UNCHANGED vars
      BY <1>2, <2>6 DEF vars, HoldsInv, TypeOK, OwnAnswer, OnceHeld, WaitingHeld, HeldAccepted,
                        Held, Waiting
    <2> QED
      BY <1>2, <2>1, <2>2, <2>3, <2>4, <2>5, <2>6 DEF Next
  <1>3. HoldsInv => NobodyForgotten
    BY HeldIsNobodyForgotten
  <1> QED
    BY <1>1, <1>2, <1>3, PTL DEF Spec
===============================================================================
