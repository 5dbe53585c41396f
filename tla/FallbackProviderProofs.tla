------------------------ MODULE FallbackProviderProofs ------------------------
(***************************************************************************)
(* The circuit breakers of FallbackProvider.tla, for any number of         *)
(* providers and requests, every threshold and every timeout.              *)
(***************************************************************************)
EXTENDS FallbackProvider, Integers, TLAPS

\* What CircuitSound says of one breaker by itself ...
Coherent(b) ==
  /\ b.state = "closed" => b.failures < FailureThreshold
  /\ b.probe_locked <=> b.state = "half_open"

\* ... and of the request that holds its lock.
Probing(r, p) ==
  calls[r].at = p /\ calls[r].probe /\ calls[r].phase \in {"calling", "aborted"}

\* A call goes to a provider.
Placed(r) == calls[r].phase = "calling" => calls[r].at \in Providers

SoundInv == CircuitSound /\ \A r \in Requests : Placed(r)

\* CircuitSound, one breaker at a time.
LEMMA Restated ==
  CircuitSound <=>
    /\ TypeOK
    /\ \A p \in Providers :
         /\ Coherent(breakers[p])
         /\ breakers[p].probe_locked => \E r \in Requests : Probing(r, p)
  BY DEF CircuitSound, Coherent, Probing

-------------------------------------------------------------------------------
(* The breaker's own operations *)

\* record_success() closes a breaker, whoever calls it.
LEMMA SucceededIsCoherent ==
  ASSUME NEW b \in Breaker
  PROVE  /\ Succeeded(b) \in Breaker /\ Coherent(Succeeded(b))
         /\ ~Succeeded(b).probe_locked
  <1>1. /\ Succeeded(b).state = "closed" /\ Succeeded(b).failures = 0
        /\ Succeeded(b).probe_locked = FALSE
    BY DEF Succeeded, Breaker
  <1>2. Succeeded(b) \in Breaker
    BY DEF Succeeded, Breaker
  <1> QED
    BY <1>1, <1>2, FallbackAssumption DEF Coherent

\* record_failure() leaves a closed breaker below its threshold, and none half
\* open.
LEMMA FailedIsCoherent ==
  ASSUME NEW b \in Breaker, now \in Nat, Coherent(b)
  PROVE  /\ Failed(b) \in Breaker /\ Coherent(Failed(b))
         /\ ~Failed(b).probe_locked
  <1>1. /\ Failed(b).state = (IF Trips(b) THEN "open" ELSE b.state)
        /\ Failed(b).failures = b.failures + 1
        /\ Failed(b).probe_locked = FALSE
    BY DEF Failed, Breaker
  <1>2. ~Trips(b) => b.failures + 1 < FailureThreshold /\ b.state # "half_open"
    BY FallbackAssumption DEF Trips, Breaker
  <1>3. Failed(b) \in Breaker
    <2> DEFINE n == b.failures + 1
               st == IF Trips(b) THEN "open" ELSE b.state
               at == IF Trips(b) THEN now ELSE b.opened_at
    <2>1. n \in Nat /\ st \in {"closed", "open", "half_open"} /\ at \in Nat
      BY DEF Breaker
    <2>2. Failed(b) = [b EXCEPT !.failures = n, !.probe_locked = FALSE, !.state = st, !.opened_at = at]
      BY DEF Failed
    <2> HIDE DEF n, st, at
    <2> QED
      BY <2>1, <2>2 DEF Breaker
  <1> QED
    BY <1>1, <1>2, <1>3 DEF Coherent

\* allow() takes the lock exactly when the breaker reports half-open.
LEMMA AdmittedIsCoherent ==
  ASSUME NEW b \in Breaker, now \in Nat, Coherent(b), Admits(b)
  PROVE  /\ Admitted(b) \in Breaker /\ Coherent(Admitted(b))
         /\ Admitted(b).probe_locked => StateOf(b) = "half_open"
  BY FallbackAssumption DEF Admitted, Admits, StateOf, Breaker, Coherent

-------------------------------------------------------------------------------
(* The steps *)

\* A request that goes on to the next provider: whoever holds a lock is another.
LEMMA ProceedsIsSound ==
  ASSUME TypeOK, NEW r \in Requests, NEW first \in Nat \ {0},
         NEW bs \in [Providers -> Breaker], \A p \in Providers : Coherent(bs[p]),
         \A p \in Providers : bs[p].probe_locked => \E q \in Requests \ {r} : Probing(q, p),
         Proceeds(r, first, bs), UNCHANGED <<aborts, now>>, \A q \in Requests \ {r} : Placed(q)
  PROVE  SoundInv'
  <1>1. CASE breakers' = bs /\ calls' = [calls EXCEPT ![r].phase = "failed"]
    <2>1. TypeOK'
      BY <1>1 DEF TypeOK, Call
    <2>2. ASSUME NEW p \in Providers, bs[p].probe_locked
          PROVE  \E q \in Requests : Probing(q, p)'
      <3>1. PICK q \in Requests \ {r} : Probing(q, p)
        BY <2>2
      <3> QED
        BY <1>1, <3>1 DEF Probing, TypeOK
    <2>3. \A q \in Requests : Placed(q)'
      BY <1>1 DEF Placed, TypeOK
    <2> QED
      BY <1>1, <2>1, <2>2, <2>3 DEF SoundInv, CircuitSound, Coherent, Probing
  <1>2. ASSUME NEW p \in first..NumProviders, Admits(bs[p]),
               breakers' = [bs EXCEPT ![p] = Admitted(@)],
               calls' = [calls EXCEPT ![r].phase = "calling", ![r].at = p,
                                      ![r].probe = StateOf(bs[p]) = "half_open"]
        PROVE  SoundInv'
    <2>1. p \in Providers /\ p \in 0..NumProviders /\ now \in Nat
      BY FallbackAssumption DEF Providers, TypeOK
    <2>2. /\ Admitted(bs[p]) \in Breaker /\ Coherent(Admitted(bs[p]))
          /\ Admitted(bs[p]).probe_locked => StateOf(bs[p]) = "half_open"
      BY <1>2, <2>1, AdmittedIsCoherent
    <2>3. calls'[r] = [calls[r] EXCEPT !.phase = "calling", !.at = p,
                                       !.probe = StateOf(bs[p]) = "half_open"]
      BY <1>2 DEF TypeOK
    <2>4. TypeOK'
      <3>1. (StateOf(bs[p]) = "half_open") \in BOOLEAN
        OBVIOUS
      <3>2. calls'[r] \in Call
        BY <2>1, <2>3, <3>1 DEF TypeOK, Call
      <3>3. calls' \in [Requests -> Call]
        BY <1>2, <3>2 DEF TypeOK
      <3>4. breakers' \in [Providers -> Breaker]
        BY <1>2, <2>2
      <3> QED
        BY <3>3, <3>4 DEF TypeOK
    <2>5. \A q \in Providers : Coherent(breakers'[q])
      BY <1>2, <2>1, <2>2
    <2>6. ASSUME NEW q \in Providers, breakers'[q].probe_locked
          PROVE  \E x \in Requests : Probing(x, q)'
      <3>1. CASE q = p
        <4>1. StateOf(bs[p]) = "half_open"
          BY <1>2, <2>1, <2>2, <2>6, <3>1
        <4>2. Probing(r, q)'
          <5>1. calls[r] \in Call /\ calls' \in [Requests -> Call]
            BY <2>4 DEF TypeOK
          <5>2. calls'[r].at = p /\ calls'[r].phase = "calling"
            BY <2>3, <5>1 DEF Call
          <5>3. calls'[r].probe = (StateOf(bs[p]) = "half_open")
            BY <2>3, <5>1 DEF Call
          <5> QED
            BY <3>1, <4>1, <5>2, <5>3 DEF Probing
        <4> QED
          BY <4>2
      <3>2. CASE q # p
        <4>1. PICK x \in Requests \ {r} : Probing(x, q)
          BY <1>2, <2>6, <3>2
        <4> QED
          BY <1>2, <4>1 DEF Probing, TypeOK
      <3> QED
        BY <3>1, <3>2
    <2>7. \A q \in Requests : Placed(q)'
      BY <1>2, <2>1, <2>3 DEF Placed, TypeOK, Call
    <2> QED
      BY <2>4, <2>5, <2>6, <2>7 DEF SoundInv, CircuitSound, Coherent, Probing
  <1> QED
    BY <1>1, <1>2 DEF Proceeds

\* Every step keeps the breakers coherent and their locks held.
LEMMA SoundnessIsInductive ==
  ASSUME SoundInv, [Next]_vars
  PROVE  SoundInv'
  <1>0. /\ TypeOK /\ now \in Nat
        /\ \A p \in Providers :
             /\ breakers[p] \in Breaker /\ Coherent(breakers[p])
             /\ breakers[p].probe_locked => \E r \in Requests : Probing(r, p)
        /\ \A r \in Requests : Placed(r)
    BY Restated DEF TypeOK, SoundInv
  <1>1. ASSUME NEW r \in Requests, Starts(r) PROVE SoundInv'
    <2>1. \A p \in Providers : ~Probing(r, p)
      BY <1>1 DEF Starts, Probing
    <2> QED
      BY <1>0, <1>1, <2>1, ProceedsIsSound DEF Starts, TypeOK
  <1>2. ASSUME NEW r \in Requests, Answers(r) PROVE SoundInv'
    <2> DEFINE at == calls[r].at
    <2>1. calls[r] \in Call
      BY <1>0 DEF TypeOK
    <2>2. /\ breakers' = [breakers EXCEPT ![at] = Succeeded(@)]
          /\ calls' = [calls EXCEPT ![r].phase = "answered"] /\ UNCHANGED <<aborts, now>>
      BY <1>2 DEF Answers
    <2>3. ASSUME NEW p \in Providers
          PROVE  /\ breakers'[p] \in Breaker /\ Coherent(breakers'[p])
                 /\ breakers'[p].probe_locked => p # at /\ breakers[p].probe_locked
      <3>1. CASE p = at
        BY <1>0, <2>2, <3>1, SucceededIsCoherent DEF TypeOK
      <3>2. CASE p # at
        BY <1>0, <2>2, <3>2 DEF TypeOK
      <3> QED
        BY <3>1, <3>2
    <2>4. TypeOK'
      <3>1. breakers' \in [Providers -> Breaker]
        BY <1>0, <2>2, <2>3 DEF TypeOK
      <3>2. calls' \in [Requests -> Call]
        BY <1>0, <2>2 DEF TypeOK, Call
      <3> QED
        BY <1>0, <2>2, <3>1, <3>2 DEF TypeOK
    <2>5. ASSUME NEW p \in Providers, breakers'[p].probe_locked
          PROVE  \E q \in Requests : Probing(q, p)'
      <3>1. p # at /\ breakers[p].probe_locked
        BY <2>3, <2>5
      <3>2. PICK q \in Requests : Probing(q, p)
        BY <1>0, <3>1
      <3> QED
        BY <1>0, <2>2, <3>1, <3>2 DEF Probing, TypeOK
    <2>p. \A q \in Requests : Placed(q)'
      BY <1>0, <2>1, <2>2 DEF Placed, TypeOK, Call
    <2> QED
      BY <2>3, <2>4, <2>5, <2>p DEF SoundInv, CircuitSound, Coherent, Probing
  <1>3. ASSUME NEW r \in Requests, Fails(r) PROVE SoundInv'
    <2> DEFINE at == calls[r].at
               bs == [breakers EXCEPT ![at] = Failed(@)]
    <2>1. calls[r] \in Call /\ at + 1 \in Nat \ {0}
      BY <1>0, FallbackAssumption DEF TypeOK, Call
    <2>2. ASSUME NEW p \in Providers
          PROVE  /\ bs[p] \in Breaker /\ Coherent(bs[p])
                 /\ bs[p].probe_locked => p # at /\ breakers[p].probe_locked
      <3>1. CASE p = at
        BY <1>0, <3>1, FailedIsCoherent DEF TypeOK
      <3>2. CASE p # at
        BY <1>0, <3>2 DEF TypeOK
      <3> QED
        BY <3>1, <3>2
    <2>3. bs \in [Providers -> Breaker]
      BY <1>0, <2>2 DEF TypeOK
    <2>4. \A p \in Providers : bs[p].probe_locked => \E q \in Requests \ {r} : Probing(q, p)
      BY <1>0, <2>2 DEF Probing
    <2>5. Proceeds(r, at + 1, bs) /\ UNCHANGED <<aborts, now>>
      BY <1>3 DEF Fails
    <2> HIDE DEF bs, at
    <2> QED
      BY <1>0, <2>1, <2>2, <2>3, <2>4, <2>5, ProceedsIsSound
  <1>4. ASSUME NEW r \in Requests, Aborts(r) PROVE SoundInv'
    <2>1. calls' = [calls EXCEPT ![r].phase = "aborted"] /\ breakers' = breakers
      BY <1>4 DEF Aborts
    <2>2. TypeOK'
      BY <1>0, <1>4, FallbackAssumption DEF Aborts, TypeOK, Call
    <2>3. \A q \in Requests, p \in Providers : Probing(q, p) => Probing(q, p)'
      BY <1>0, <2>1 DEF Probing, TypeOK, Call
    <2>p. \A q \in Requests : Placed(q)'
      BY <1>0, <2>1 DEF Placed, TypeOK, Call
    <2> QED
      BY <1>0, <2>1, <2>2, <2>3, <2>p DEF SoundInv, CircuitSound, Coherent, Probing
  <1>5. ASSUME NEW r \in Requests, SendsChunk(r) PROVE SoundInv'
    <2>1. /\ calls' = [calls EXCEPT ![r].sent = @ \cup {calls[r].at}]
          /\ breakers' = breakers /\ UNCHANGED <<aborts, now>>
      BY <1>5 DEF SendsChunk
    <2>2. calls' \in [Requests -> Call]
      <3>1. calls[r].at \in 0..NumProviders /\ calls[r].sent \subseteq Providers
        BY <1>0 DEF TypeOK, Call
      <3>2. calls[r].at # 0
        BY <1>0, <1>5 DEF SendsChunk, Calling, Placed, Providers
      <3>3. calls[r].sent \cup {calls[r].at} \subseteq Providers
        BY <3>1, <3>2, FallbackAssumption DEF Providers
      <3> QED
        BY <1>0, <2>1, <3>3 DEF TypeOK, Call
    <2>3. TypeOK'
      BY <1>0, <2>1, <2>2 DEF TypeOK
    <2>4. \A q \in Requests, p \in Providers : Probing(q, p) => Probing(q, p)'
      BY <1>0, <2>1 DEF Probing, TypeOK, Call
    <2>p. \A q \in Requests : Placed(q)'
      BY <1>0, <2>1 DEF Placed, TypeOK, Call
    <2> QED
      BY <1>0, <2>1, <2>3, <2>4, <2>p DEF SoundInv, CircuitSound, Coherent, Probing
  <1>6. CASE Tick
    BY <1>0, <1>6 DEF Tick, SoundInv, CircuitSound, Placed, Probing, TypeOK
  <1>7. CASE UNCHANGED vars
    BY <1>0, <1>7 DEF vars, SoundInv, CircuitSound, Placed, Probing, TypeOK
  <1> QED
    BY <1>1, <1>2, <1>3, <1>4, <1>5, <1>6, <1>7 DEF Next

\* CircuitSound: a closed breaker is below its threshold, a half-open one has
\* exactly one probe on its lock, and that probe is out or was lost.
THEOREM CircuitCorrect == Spec => []CircuitSound
  <1>1. Init => SoundInv
    <2> SUFFICES ASSUME Init PROVE SoundInv
      OBVIOUS
    <2>1. TypeOK
      BY FallbackAssumption DEF Init, TypeOK, Breaker, Call
    <2>2. CircuitSound
      BY <2>1, FallbackAssumption DEF Init, CircuitSound
    <2> QED
      BY <2>2 DEF SoundInv, Init, Placed
  <1>2. SoundInv /\ [Next]_vars => SoundInv'
    BY SoundnessIsInductive
  <1>3. SoundInv => CircuitSound
    BY DEF SoundInv
  <1> QED
    BY <1>1, <1>2, <1>3, PTL DEF Spec
===============================================================================
