---------------------------- MODULE TaskEngineProofs ----------------------------
(****************************************************************************)
(* The durable task engine, for every value of its constants.                *)
(*                                                                           *)
(* First of the store by itself (TaskStore): its types, the faithful index,  *)
(* fencing, checkpoint integrity, and that every task lives as TaskLifecycle *)
(* says.  Then of the workers over it (TaskWorker): permits, reports and     *)
(* shutdown.  Every step of the workers is one of the store, so what is      *)
(* proved of the store in the first part holds under them.                   *)
(****************************************************************************)
EXTENDS TaskWorker, FiniteSetTheorems, SequenceTheorems, TLAPS

-------------------------------------------------------------------------------
(* The store: one task *)

\* What no operation on a task ever changes of it.
SameIdentity(u, t) ==
  /\ u \in Task
  /\ u.queue = t.queue
  /\ u.idempotency_key = t.idempotency_key
  /\ u.max_attempts = t.max_attempts

\* What an id that was not submitted yet stands for.
LEMMA AbsentFacts ==
  /\ AbsentTask.status = "absent" /\ AbsentTask.max_attempts = 0
  /\ AbsentTask.attempts = 0 /\ AbsentTask.lease_token = NoToken
  /\ AbsentTask.checkpoint = EmptyCheckpoint
BY SMT DEF AbsentTask

\* submit() makes a pending task with an empty checkpoint (store.py:45-51).
LEMMA NewTaskFacts ==
  ASSUME NEW q \in Queues, NEW k \in Keys, NEW limit \in Nat, now \in Nat
  PROVE  /\ NewTask(q, k, limit) \in Task
         /\ NewTask(q, k, limit).status = "pending"
         /\ NewTask(q, k, limit).queue = q
         /\ NewTask(q, k, limit).idempotency_key = k
         /\ NewTask(q, k, limit).max_attempts = limit
         /\ NewTask(q, k, limit).attempts = 0
         /\ NewTask(q, k, limit).lease_token = NoToken
         /\ NewTask(q, k, limit).checkpoint = EmptyCheckpoint
<1>1. EmptyCheckpoint \in [Fields -> Nat]
  BY DEF EmptyCheckpoint, NoToken
<1>2. 0 \in Nat
  OBVIOUS
<1>3. AbsentTask \in Task
  BY <1>1, <1>2, Zenon DEF AbsentTask, Task, Statuses, NoToken, None
<1> QED
  BY <1>1, <1>2, <1>3, Zenon DEF NewTask, Task, AbsentTask, Statuses

\* A reclaimed lease leaves a pending task without a token (store.py:103-106).
LEMMA ReclaimFacts ==
  ASSUME NEW t \in Task, now \in Nat
  PROVE  /\ SameIdentity(Reclaim(t), t)
         /\ Reclaim(t).status = "pending"
         /\ Reclaim(t).lease_token = NoToken
         /\ Reclaim(t).attempts = t.attempts
         /\ Reclaim(t).checkpoint = t.checkpoint
         /\ Reclaim(t).last_error = t.last_error
<1>1. 0 \in Nat /\ NoToken \in Nat
  BY DEF NoToken
<1> QED
  BY <1>1, Zenon DEF Reclaim, Task, Statuses, SameIdentity

\* A spent candidate becomes a dead letter with an error (store.py:70-75).
LEMMA BuryFacts ==
  ASSUME NEW t \in Task
  PROVE  /\ SameIdentity(Bury(t), t)
         /\ Bury(t).status = "dead_letter"
         /\ Bury(t).lease_token = t.lease_token
         /\ Bury(t).attempts = t.attempts + 1
         /\ Bury(t).checkpoint = t.checkpoint
         /\ Bury(t).last_error # None
<1>1. t.attempts + 1 \in Nat
  BY DEF Task
<1>2. "exhausted" # None
  BY DEF None
<1>3. (IF t.last_error = None THEN "exhausted" ELSE t.last_error)
        \in {None, "exhausted", "handler"} \ {None}
  BY <1>2, Zenon DEF Task
<1> QED
  BY <1>1, <1>3, Zenon DEF Bury, Task, Statuses, SameIdentity

\* A granted task is held by the next token (store.py:70, 77-79).
LEMMA GrantFacts ==
  ASSUME NEW t \in Task, NEW secs \in Nat, now \in Nat, Len(issued) \in Nat
  PROVE  /\ SameIdentity(Grant(t, secs), t)
         /\ Grant(t, secs).status = "leased"
         /\ Grant(t, secs).lease_token = Len(issued) + 1
         /\ Grant(t, secs).leased_until = now + secs
         /\ Grant(t, secs).attempts = t.attempts + 1
         /\ Grant(t, secs).checkpoint = t.checkpoint
         /\ Grant(t, secs).last_error = t.last_error
<1>1. t.attempts + 1 \in Nat /\ now + secs \in Nat /\ Len(issued) + 1 \in Nat
  BY DEF Task
<1> QED
  BY <1>1, Zenon DEF Grant, Task, Statuses, SameIdentity

\* A heartbeat moves the deadline only (store.py:112).
LEMMA RenewFacts ==
  ASSUME NEW t \in Task, NEW secs \in Nat, now \in Nat
  PROVE  /\ SameIdentity(Renew(t, secs), t)
         /\ Renew(t, secs).status = t.status
         /\ Renew(t, secs).lease_token = t.lease_token
         /\ Renew(t, secs).leased_until = now + secs
         /\ Renew(t, secs).attempts = t.attempts
         /\ Renew(t, secs).checkpoint = t.checkpoint
         /\ Renew(t, secs).last_error = t.last_error
<1>1. now + secs \in Nat
  OBVIOUS
<1> QED
  BY <1>1, Zenon DEF Renew, Task, SameIdentity

\* A save changes the saved fields of the checkpoint only (store.py:118).
LEMMA MergeFacts ==
  ASSUME NEW t \in Task, NEW token \in Nat, NEW saved
  PROVE  /\ SameIdentity(Merge(t, token, saved), t)
         /\ Merge(t, token, saved).status = t.status
         /\ Merge(t, token, saved).lease_token = t.lease_token
         /\ Merge(t, token, saved).leased_until = t.leased_until
         /\ Merge(t, token, saved).attempts = t.attempts
         /\ Merge(t, token, saved).last_error = t.last_error
         /\ \A f \in Fields : Merge(t, token, saved).checkpoint[f]
                                = IF f \in saved THEN token ELSE t.checkpoint[f]
<1> DEFINE c == [f \in Fields |-> IF f \in saved THEN token ELSE t.checkpoint[f]]
<1>1. c \in [Fields -> Nat]
  BY DEF Task
<1>2. Merge(t, token, saved) = [t EXCEPT !.checkpoint = c]
  BY Zenon DEF Merge
<1>3. \A f \in Fields : c[f] = IF f \in saved THEN token ELSE t.checkpoint[f]
  OBVIOUS
<1> HIDE DEF c
<1>4. [t EXCEPT !.checkpoint = c].checkpoint = c
  BY Zenon DEF Task
<1> QED
  BY <1>1, <1>2, <1>3, <1>4, Zenon DEF Task, SameIdentity

\* An acked task is done and free (store.py:124-126).
LEMMA SucceedFacts ==
  ASSUME NEW t \in Task
  PROVE  /\ SameIdentity(Succeed(t), t)
         /\ Succeed(t).status = "succeeded"
         /\ Succeed(t).lease_token = NoToken
         /\ Succeed(t).attempts = t.attempts
         /\ Succeed(t).checkpoint = t.checkpoint
<1>1. 0 \in Nat /\ NoToken \in Nat
  BY DEF NoToken
<1> QED
  BY <1>1, Zenon DEF Succeed, Task, Statuses, SameIdentity

\* A failed task is free, pending or dead, with the error (store.py:140-148).
LEMMA FailFacts ==
  ASSUME NEW t \in Task, NEW delay \in Nat, now \in Nat
  PROVE  /\ SameIdentity(Retry(t, delay), t) /\ SameIdentity(GiveUp(t), t)
         /\ Retry(t, delay).status = "pending" /\ GiveUp(t).status = "dead_letter"
         /\ Retry(t, delay).lease_token = NoToken /\ GiveUp(t).lease_token = NoToken
         /\ Retry(t, delay).attempts = t.attempts /\ GiveUp(t).attempts = t.attempts
         /\ Retry(t, delay).checkpoint = t.checkpoint
         /\ GiveUp(t).checkpoint = t.checkpoint
         /\ GiveUp(t).last_error # None
<1>1. 0 \in Nat /\ NoToken \in Nat /\ now + delay \in Nat /\ "handler" # None
  BY DEF NoToken, None
<1> QED
  BY <1>1, Zenon DEF Retry, GiveUp, Task, Statuses, SameIdentity

\* A revived task is pending, with all its attempts or none (store.py:175-178).
LEMMA ReviveFacts ==
  ASSUME NEW t \in Task, NEW reset \in BOOLEAN, now \in Nat
  PROVE  /\ SameIdentity(Revive(t, reset), t)
         /\ Revive(t, reset).status = "pending"
         /\ Revive(t, reset).lease_token = t.lease_token
         /\ Revive(t, reset).attempts = IF reset THEN 0 ELSE t.attempts
         /\ Revive(t, reset).checkpoint = t.checkpoint
<1>1. 0 \in Nat /\ (IF reset THEN 0 ELSE t.attempts) \in Nat
  BY DEF Task
<1> QED
  BY <1>1, Zenon DEF Revive, Task, Statuses, SameIdentity

-----------------------------------------------------------------------------
\* What one step can do to one task.
Overdue(t) == t.status = "leased" /\ t.leased_until <= now

\* The task as lease() sees it after its reclaim scan.
Seen(t) == IF Overdue(t) THEN Reclaim(t) ELSE t

Created(i, q, k, limit) ==
  /\ i = created + 1 /\ index[<<q, k>>] = NoTask
  /\ tasks'[i] = NewTask(q, k, limit)
  /\ index' = [index EXCEPT ![<<q, k>>] = i]

Scanned(i) ==
  \/ Overdue(tasks[i]) /\ tasks'[i] = Reclaim(tasks[i])
  \/ /\ Seen(tasks[i]).status = "pending" /\ ~HasBudget(Seen(tasks[i]))
     /\ tasks'[i] = Bury(Seen(tasks[i]))

Called(i) ==
  /\ tasks[i].status = "leased"
  /\ \/ \E secs \in LeaseTimes : tasks'[i] = Renew(tasks[i], secs)
     \/ \E saved \in SUBSET Fields :
           tasks'[i] = Merge(tasks[i], tasks[i].lease_token, saved)
     \/ tasks'[i] = Succeed(tasks[i])
     \/ \E delay \in RetryDelays : HasBudget(tasks[i]) /\ tasks'[i] = Retry(tasks[i], delay)
     \/ ~HasBudget(tasks[i]) /\ tasks'[i] = GiveUp(tasks[i])

Revived(i) ==
  /\ tasks[i].status = "dead_letter"
  /\ \E reset \in BOOLEAN : tasks'[i] = Revive(tasks[i], reset)

Moved(i) ==
  tasks'[i] = tasks[i] \/ Scanned(i) \/ Called(i) \/ Revived(i)

Granted(i) ==
  /\ Seen(tasks[i]).status = "pending" /\ HasBudget(Seen(tasks[i]))
  /\ \E secs \in LeaseTimes : tasks'[i] = Grant(Seen(tasks[i]), secs)
  /\ issued' = Append(issued, [task |-> i, attempt |-> Seen(tasks[i]).attempts + 1,
                               checkpoint |-> Seen(tasks[i]).checkpoint])

\* A step creates one task, or moves each of them, or moves all but the one
\* that lease() grants.
CreateShape ==
  /\ issued' = issued /\ created' = created + 1
  /\ \E n \in TaskIds, q \in Queues, k \in Keys, limit \in AttemptLimits :
        Created(n, q, k, limit) /\ \A i \in TaskIds \ {n} : tasks'[i] = tasks[i]

MoveShape ==
  /\ issued' = issued /\ created' = created /\ index' = index
  /\ \A i \in TaskIds : Moved(i)

LeaseShape ==
  /\ created' = created /\ index' = index
  /\ \E g \in TaskIds : Granted(g) /\ \A i \in TaskIds \ {g} : Moved(i)

Shape ==
  /\ tasks' = [i \in TaskIds |-> tasks'[i]]
  /\ CreateShape \/ MoveShape \/ LeaseShape

\* Tokens are the positions of the leases issued so far.
LEMMA IssuedFacts ==
  ASSUME StoreTypeOK
  PROVE  /\ Len(issued) \in Nat /\ DOMAIN issued = 1..Len(issued)
         /\ \A l \in DOMAIN issued : issued[l] \in Lease /\ l \in Nat
BY ElementOfSeq DEF StoreTypeOK

\* The scan of one queue shows each task as it was or reclaimed, and what is
\* pending and due there is what lease() can claim.
LEMMA ScanShape ==
  ASSUME StoreTypeOK, NEW q \in Queues, NEW i \in TaskIds
  PROVE  /\ Reclaimed(q)[i] = tasks[i]
              \/ (Overdue(tasks[i]) /\ Reclaimed(q)[i] = Reclaim(tasks[i]))
         /\ i \in Candidates(Reclaimed(q), q) =>
              /\ Reclaimed(q)[i] = Seen(tasks[i])
              /\ Seen(tasks[i]).status = "pending"
<1>1. tasks[i] \in Task /\ now \in Nat
  BY DEF StoreTypeOK
<1>2. Reclaimed(q)[i] = IF Expired(tasks[i], q) THEN Reclaim(tasks[i]) ELSE tasks[i]
  BY DEF Reclaimed
<1>3. Expired(tasks[i], q) => Overdue(tasks[i])
  BY DEF Expired, Overdue
<1>4. i \in Candidates(Reclaimed(q), q) => Reclaimed(q)[i].status = "pending"
  BY DEF Candidates
<1>5. Overdue(tasks[i]) /\ Reclaimed(q)[i] = tasks[i]
        => i \notin Candidates(Reclaimed(q), q)
  BY <1>4 DEF Overdue
<1> QED
  BY <1>2, <1>3, <1>4, <1>5 DEF Seen

\* lease() that grants nothing.
LEMMA NoneShape ==
  ASSUME StoreTypeOK, NEW q \in Queues, LeaseNone(q)
  PROVE  Shape
<1> DEFINE ts == Reclaimed(q)
           cs == Candidates(ts, q)
<1>1. /\ \A i \in cs : ~HasBudget(ts[i])
      /\ tasks' = [i \in TaskIds |-> IF i \in cs THEN Bury(ts[i]) ELSE ts[i]]
      /\ UNCHANGED <<created, index, issued>>
  BY Zenon DEF LeaseNone
<1>2. ASSUME NEW i \in TaskIds
      PROVE  Moved(i)
  <2>1. CASE i \in cs
    BY <1>1, <2>1, ScanShape DEF Moved, Scanned
  <2>2. CASE i \notin cs
    <3>1. tasks'[i] = ts[i]
      BY <1>1, <2>2
    <3> QED
      BY <3>1, ScanShape DEF Moved, Scanned
  <2> QED
    BY <2>1, <2>2
<1> QED
  BY <1>1, <1>2 DEF Shape, MoveShape

\* lease() that grants task g.
LEMMA GrantShape ==
  ASSUME StoreTypeOK, NEW q \in Queues, NEW secs \in LeaseTimes, NEW g \in TaskIds,
         LeaseGranted(q, secs, g)
  PROVE  Shape
<1> DEFINE ts == Reclaimed(q)
           cs == Candidates(ts, q)
<1>1. /\ g \in cs /\ HasBudget(ts[g])
      /\ \A i \in cs \ {g} : HasBudget(ts[i]) => Ahead(ts, g, i)
      /\ tasks' = [i \in TaskIds |-> IF i = g THEN Grant(ts[i], secs)
                                     ELSE IF i \in cs /\ Ahead(ts, i, g) THEN Bury(ts[i])
                                     ELSE ts[i]]
      /\ issued' = Append(issued, [task |-> g, attempt |-> ts[g].attempts + 1,
                                   checkpoint |-> ts[g].checkpoint])
      /\ UNCHANGED <<created, index>>
  BY Zenon DEF LeaseGranted
<1>2. Granted(g)
  <2>1. tasks'[g] = Grant(ts[g], secs)
    BY <1>1
  <2>2. ts[g] = Seen(tasks[g]) /\ Seen(tasks[g]).status = "pending"
    BY <1>1, ScanShape
  <2> HIDE DEF ts, cs
  <2> QED
    BY <1>1, <2>1, <2>2 DEF Granted
<1>3. ASSUME NEW i \in TaskIds \ {g}
      PROVE  Moved(i)
  <2>1. CASE i \in cs /\ Ahead(ts, i, g)
    <3>1. ts[i].available_at \in Nat /\ ts[g].available_at \in Nat
      <4>1. \A j \in TaskIds : ts[j] \in Task
        <5> TAKE j \in TaskIds
        <5>1. tasks[j] \in Task /\ now \in Nat
          BY DEF StoreTypeOK
        <5>2. Reclaim(tasks[j]) \in Task
          BY <5>1, ReclaimFacts DEF SameIdentity
        <5> QED
          BY <5>1, <5>2, ScanShape
      <4> QED
        BY <4>1 DEF Task
    <3>2. ~Ahead(ts, g, i)
      BY <2>1, <3>1 DEF Ahead, TaskIds
    <3>3. ~HasBudget(ts[i]) /\ tasks'[i] = Bury(ts[i])
      BY <1>1, <2>1, <3>2
    <3> QED
      BY <2>1, <3>3, ScanShape DEF Moved, Scanned
  <2>2. CASE ~(i \in cs /\ Ahead(ts, i, g))
    <3>1. tasks'[i] = ts[i]
      BY <1>1, <2>2
    <3> QED
      BY <3>1, ScanShape DEF Moved, Scanned
  <2> QED
    BY <2>1, <2>2
<1> QED
  BY <1>1, <1>2, <1>3 DEF Shape, LeaseShape

\* One call made with a lease: the task it is for, if its token is current.
LEMMA CallShape ==
  ASSUME StoreTypeOK, NEW i \in TaskIds, NEW t, Change(i, t),
         [tasks EXCEPT ![i] = t] = tasks' => Moved(i)
  PROVE  Shape
<1>1. /\ tasks' = [tasks EXCEPT ![i] = t]
      /\ UNCHANGED <<created, index, issued>>
  BY Zenon DEF Change
<1>2. \A j \in TaskIds \ {i} : tasks'[j] = tasks[j]
  BY <1>1 DEF StoreTypeOK
<1>3. tasks' = [j \in TaskIds |-> tasks'[j]]
  BY <1>1 DEF StoreTypeOK
<1>4. \A j \in TaskIds : Moved(j)
  BY <1>1, <1>2, Zenon DEF Moved
<1> QED
  BY <1>1, <1>3, <1>4 DEF Shape, MoveShape

\* Every step of the store has the shape above.
LEMMA NextShape ==
  ASSUME StoreTypeOK, [StoreNext]_storeVars
  PROVE  Shape
<1> USE DEF StoreTypeOK
<1>1. ASSUME NEW q \in Queues, NEW k \in Keys, NEW limit \in AttemptLimits,
             Submit(q, k, limit)
      PROVE  Shape
  <2>1. created + 1 \in TaskIds
    BY <1>1, StoreAssumption DEF Submit, TaskIds
  <2>2. tasks'[created + 1] = NewTask(q, k, limit)
    BY <1>1, <2>1 DEF Submit
  <2>3. \A i \in TaskIds \ {created + 1} : tasks'[i] = tasks[i]
    BY <1>1 DEF Submit
  <2>4. tasks' = [i \in TaskIds |-> tasks'[i]]
    BY <1>1 DEF Submit
  <2> QED
    BY <1>1, <2>1, <2>2, <2>3, <2>4 DEF Submit, Shape, CreateShape, Created
<1>2. ASSUME NEW q \in Queues, NEW secs \in LeaseTimes, NEW i \in TaskIds,
             LeaseGranted(q, secs, i)
      PROVE  Shape
  BY <1>2, GrantShape
<1>3. ASSUME NEW q \in Queues, LeaseNone(q)
      PROVE  Shape
  BY <1>3, NoneShape
<1>4. ASSUME CallerActs
      PROVE  Shape
  <2>1. PICK token \in DOMAIN issued :
          LET i == issued[token].task IN
          \/ Ack(i, token)
          \/ \E delay \in RetryDelays : Fail(i, token, delay)
          \/ \E saved \in SUBSET Fields \ {{}} : Checkpoint(i, token, saved)
          \/ now <= MaxTime /\ \E secs \in LeaseTimes : Heartbeat(i, token, secs)
    BY <1>4, Zenon DEF CallerActs
  <2> DEFINE i == issued[token].task
  <2>2. i \in TaskIds
    BY IssuedFacts DEF Lease
  <2> HIDE DEF i
  <2>3. Holds(i, token) => tasks[i].status = "leased" /\ token = tasks[i].lease_token
    BY DEF Holds
  <2>4. \A t : [tasks EXCEPT ![i] = t][i] = t
    BY <2>2
  <2>5. CASE Ack(i, token)
    BY <2>2, <2>3, <2>4, <2>5, CallShape, Zenon DEF Ack, Moved, Called
  <2>6. ASSUME NEW delay \in RetryDelays, Fail(i, token, delay)
        PROVE  Shape
    <3>1. CASE HasBudget(tasks[i])
      BY <2>2, <2>3, <2>4, <2>6, <3>1, CallShape, Zenon DEF Fail, Moved, Called
    <3>2. CASE ~HasBudget(tasks[i])
      BY <2>2, <2>3, <2>4, <2>6, <3>2, CallShape, Zenon DEF Fail, Moved, Called
    <3> QED
      BY <3>1, <3>2
  <2>7. ASSUME NEW saved \in SUBSET Fields, Checkpoint(i, token, saved)
        PROVE  Shape
    BY <2>2, <2>3, <2>4, <2>7, CallShape, Zenon DEF Checkpoint, Moved, Called
  <2>8. ASSUME NEW secs \in LeaseTimes, Heartbeat(i, token, secs)
        PROVE  Shape
    BY <2>2, <2>3, <2>4, <2>8, CallShape, Zenon DEF Heartbeat, Moved, Called
  <2> QED
    BY <2>1, <2>5, <2>6, <2>7, <2>8 DEF i
<1>5. ASSUME NEW i \in TaskIds, NEW reset \in BOOLEAN, RequeueDeadLetter(i, reset)
      PROVE  Shape
  <2>1. tasks'[i] = Revive(tasks[i], reset) /\ tasks[i].status = "dead_letter"
    BY <1>5 DEF RequeueDeadLetter
  <2>2. \A j \in TaskIds \ {i} : tasks'[j] = tasks[j]
    BY <1>5 DEF RequeueDeadLetter
  <2>3. tasks' = [j \in TaskIds |-> tasks'[j]]
    BY <1>5 DEF RequeueDeadLetter
  <2>4. \A j \in TaskIds : Moved(j)
    BY <2>1, <2>2, Zenon DEF Moved, Revived
  <2> QED
    BY <1>5, <2>3, <2>4 DEF RequeueDeadLetter, Shape, MoveShape
<1>6. CASE Tick \/ UNCHANGED storeVars
  <2>1. UNCHANGED <<tasks, created, index, issued>>
    BY <1>6 DEF Tick, storeVars
  <2>2. tasks' = [j \in TaskIds |-> tasks'[j]]
    BY <2>1
  <2> QED
    BY <2>1, <2>2 DEF Shape, MoveShape, Moved
<1> QED
  BY <1>1, <1>2, <1>3, <1>4, <1>5, <1>6, Zenon DEF StoreNext

-----------------------------------------------------------------------------
\* A task lease() can claim is free once it was reclaimed.
LEMMA SeenFacts ==
  ASSUME NEW t \in Task, now \in Nat, Seen(t).status = "pending",
         t.status # "leased" => t.lease_token = NoToken
  PROVE  /\ SameIdentity(Seen(t), t)
         /\ t.status \in {"pending", "leased"}
         /\ t.status = "leased" => t.leased_until <= now
         /\ Seen(t).lease_token = NoToken
         /\ Seen(t).attempts = t.attempts
         /\ Seen(t).checkpoint = t.checkpoint
BY ReclaimFacts DEF Seen, Overdue, SameIdentity

\* A task that is not granted keeps its identity; if it stays leased, it stays
\* with the same token and attempt; if not, its token is gone; and only a leased
\* task's checkpoint changes, to fields saved under its token.
LEMMA MovedFacts ==
  ASSUME StoreTypeOK, NewestLeaseRules, NEW i \in TaskIds, Moved(i)
  PROVE  /\ SameIdentity(tasks'[i], tasks[i])
         /\ tasks'[i].status = "absent" <=> tasks[i].status = "absent"
         /\ tasks[i].status = "absent" => tasks'[i] = tasks[i]
         /\ tasks'[i].status = "leased" =>
              /\ tasks[i].status = "leased"
              /\ tasks'[i].lease_token = tasks[i].lease_token
              /\ tasks'[i].attempts = tasks[i].attempts
         /\ tasks'[i].status # "leased" =>
              /\ tasks'[i].lease_token = NoToken
              /\ tasks'[i].checkpoint = tasks[i].checkpoint
         /\ tasks[i].status # "leased" => tasks'[i].checkpoint = tasks[i].checkpoint
         /\ \A f \in Fields :
              tasks'[i].checkpoint[f] \in {tasks[i].checkpoint[f], tasks[i].lease_token}
<1> DEFINE t == tasks[i]
           u == tasks'[i]
<1>1. t \in Task /\ now \in Nat /\ t.lease_token \in Nat
  BY DEF StoreTypeOK, Task
<1>2. t.status # "leased" => t.lease_token = NoToken
  BY DEF NewestLeaseRules
<1>3. CASE u = t
  BY <1>1, <1>2, <1>3 DEF SameIdentity
<1>4. CASE Scanned(i)
  <2>1. CASE Overdue(t) /\ u = Reclaim(t)
    BY <1>1, <2>1, ReclaimFacts DEF Overdue, SameIdentity
  <2>2. CASE Seen(t).status = "pending" /\ u = Bury(Seen(t))
    <3>1. Seen(t) \in Task
      BY <1>1, <1>2, <2>2, SeenFacts DEF SameIdentity
    <3>2. /\ SameIdentity(u, Seen(t)) /\ u.status = "dead_letter"
          /\ u.lease_token = Seen(t).lease_token
          /\ u.checkpoint = Seen(t).checkpoint
      BY <2>2, <3>1, BuryFacts
    <3>3. SameIdentity(u, t)
      BY <1>1, <1>2, <2>2, <3>2, SeenFacts DEF SameIdentity
    <3> QED
      BY <1>1, <1>2, <2>2, <3>2, <3>3, SeenFacts
  <2> QED
    BY <1>4, <2>1, <2>2 DEF Scanned
<1>5. CASE Called(i)
  <2>1. ASSUME NEW secs \in LeaseTimes, u = Renew(t, secs)
        PROVE  /\ SameIdentity(u, t) /\ u.status = t.status
               /\ u.lease_token = t.lease_token /\ u.attempts = t.attempts
               /\ u.checkpoint = t.checkpoint
    BY <1>1, <2>1, RenewFacts, StoreAssumption
  <2>2. ASSUME NEW saved \in SUBSET Fields, u = Merge(t, t.lease_token, saved)
        PROVE  /\ SameIdentity(u, t) /\ u.status = t.status
               /\ u.lease_token = t.lease_token /\ u.attempts = t.attempts
               /\ \A f \in Fields : u.checkpoint[f] \in {t.checkpoint[f], t.lease_token}
    BY <1>1, <2>2, MergeFacts
  <2>3. ASSUME u = Succeed(t)
        PROVE  /\ SameIdentity(u, t) /\ u.status = "succeeded"
               /\ u.lease_token = NoToken /\ u.checkpoint = t.checkpoint
    BY <1>1, <2>3, SucceedFacts
  <2>4. ASSUME NEW delay \in RetryDelays, u = Retry(t, delay)
        PROVE  /\ SameIdentity(u, t) /\ u.status = "pending"
               /\ u.lease_token = NoToken /\ u.checkpoint = t.checkpoint
    BY <1>1, <2>4, FailFacts, StoreAssumption
  <2>5. ASSUME u = GiveUp(t)
        PROVE  /\ SameIdentity(u, t) /\ u.status = "dead_letter"
               /\ u.lease_token = NoToken /\ u.checkpoint = t.checkpoint
    <3>1. 0 \in Nat
      OBVIOUS
    <3> QED
      BY <1>1, <2>5, <3>1, FailFacts
  <2> HIDE DEF t, u
  <2>6. t.status = "leased"
    BY <1>5 DEF Called, t
  <2>7. \/ \E secs \in LeaseTimes : u = Renew(t, secs)
        \/ \E saved \in SUBSET Fields : u = Merge(t, t.lease_token, saved)
        \/ u = Succeed(t)
        \/ \E delay \in RetryDelays : u = Retry(t, delay)
        \/ u = GiveUp(t)
    BY <1>5, Zenon DEF Called, t, u
  <2>8. \/ /\ SameIdentity(u, t) /\ u.status = "leased"
           /\ u.lease_token = t.lease_token /\ u.attempts = t.attempts
           /\ \A f \in Fields : u.checkpoint[f] \in {t.checkpoint[f], t.lease_token}
        \/ /\ SameIdentity(u, t) /\ u.status \in {"succeeded", "pending", "dead_letter"}
           /\ u.lease_token = NoToken /\ u.checkpoint = t.checkpoint
    BY <2>1, <2>2, <2>3, <2>4, <2>5, <2>6, <2>7
  <2> QED
    BY <2>6, <2>8 DEF t, u
<1>6. CASE Revived(i)
  BY <1>1, <1>2, <1>6, ReviveFacts DEF Revived
<1> QED
  BY <1>3, <1>4, <1>5, <1>6 DEF Moved

\* A granted task gets the next token, a lease that says so, and keeps its
\* checkpoint; its attempt is within its budget.
LEMMA GrantedFacts ==
  ASSUME StoreTypeOK, NewestLeaseRules, NEW i \in TaskIds, Granted(i)
  PROVE  /\ SameIdentity(tasks'[i], tasks[i])
         /\ tasks[i].status \in {"pending", "leased"}
         /\ tasks[i].status = "leased" => tasks[i].leased_until <= now
         /\ tasks'[i].status = "leased"
         /\ tasks'[i].lease_token = Len(issued) + 1
         /\ \E secs \in LeaseTimes : tasks'[i].leased_until = now + secs
         /\ tasks[i].attempts < tasks[i].max_attempts
         /\ tasks'[i].attempts = tasks[i].attempts + 1
         /\ tasks'[i].checkpoint = tasks[i].checkpoint
         /\ \E r \in Lease : /\ issued' = Append(issued, r)
                             /\ r.task = i /\ r.attempt = tasks[i].attempts + 1
                             /\ r.checkpoint = tasks[i].checkpoint
<1> DEFINE t == tasks[i]
<1>1. t \in Task /\ now \in Nat /\ Len(issued) \in Nat
  BY IssuedFacts DEF StoreTypeOK
<1>2. t.status # "leased" => t.lease_token = NoToken
  BY DEF NewestLeaseRules
<1>3. /\ Seen(t).status = "pending" /\ HasBudget(Seen(t))
      /\ issued' = Append(issued, [task |-> i, attempt |-> Seen(t).attempts + 1,
                                   checkpoint |-> Seen(t).checkpoint])
  BY Zenon DEF Granted
<1>4. /\ SameIdentity(Seen(t), t) /\ t.status \in {"pending", "leased"}
      /\ t.status = "leased" => t.leased_until <= now
      /\ Seen(t).attempts = t.attempts /\ Seen(t).checkpoint = t.checkpoint
  BY <1>1, <1>2, <1>3, SeenFacts
<1>5. PICK secs \in LeaseTimes : tasks'[i] = Grant(Seen(t), secs)
  BY Zenon DEF Granted
<1>6. secs \in Nat /\ Seen(t) \in Task
  BY <1>4, StoreAssumption DEF SameIdentity
<1>7. /\ SameIdentity(tasks'[i], Seen(t))
      /\ tasks'[i].status = "leased" /\ tasks'[i].lease_token = Len(issued) + 1
      /\ tasks'[i].leased_until = now + secs
      /\ tasks'[i].attempts = Seen(t).attempts + 1
      /\ tasks'[i].checkpoint = Seen(t).checkpoint
  BY <1>1, <1>5, <1>6, GrantFacts
<1>8. SameIdentity(tasks'[i], t)
  BY <1>4, <1>7 DEF SameIdentity
<1>9. t.attempts < t.max_attempts
  BY <1>3, <1>4 DEF HasBudget, SameIdentity
<1>10. [task |-> i, attempt |-> t.attempts + 1, checkpoint |-> t.checkpoint] \in Lease
  BY <1>1 DEF Lease, Task
<1> QED
  BY <1>3, <1>4, <1>7, <1>8, <1>9, <1>10

-----------------------------------------------------------------------------
\* Fencing and types are one inductive invariant: a task keeps its type and its
\* absence of token only because a task that is not leased has none.
Fenced == StoreTypeOK /\ NewestLeaseRules

\* No task is leased at first.
LEMMA InitFenced == StoreInit => Fenced
<1> SUFFICES ASSUME StoreInit PROVE Fenced
  OBVIOUS
<1>1. EmptyCheckpoint \in [Fields -> Nat] /\ 0 \in Nat
  BY DEF EmptyCheckpoint, NoToken
<1>2. AbsentTask \in Task /\ AbsentTask.status = "absent" /\ AbsentTask.lease_token = NoToken
  BY <1>1, Zenon DEF AbsentTask, Task, None, NoToken
<1>3. /\ tasks \in [TaskIds -> Task]
      /\ \A i \in TaskIds : tasks[i].status = "absent" /\ tasks[i].lease_token = NoToken
  BY <1>2 DEF StoreInit
<1>4. /\ created \in 0..MaxTasks /\ now \in Nat /\ requeues \in 0..MaxRequeues
      /\ index \in [Queues \X Keys -> 0..MaxTasks] /\ issued \in Seq(Lease)
  BY StoreAssumption DEF StoreInit, NoTask
<1>5. \A i \in TaskIds : i > created
  BY StoreAssumption DEF StoreInit, TaskIds
<1>6. StoreTypeOK
  BY <1>3, <1>4, <1>5 DEF StoreTypeOK
<1>7. NewestLeaseRules
  BY <1>3 DEF NewestLeaseRules
<1> QED
  BY <1>6, <1>7 DEF Fenced

\* The clock and the counters the shape says nothing of.
LEMMA CountersType ==
  ASSUME StoreTypeOK, [StoreNext]_storeVars
  PROVE  now' \in Nat /\ requeues' \in 0..MaxRequeues
<1> USE DEF StoreTypeOK
<1>1. ASSUME NEW q \in Queues, NEW k \in Keys, NEW limit \in AttemptLimits,
             Submit(q, k, limit)
      PROVE  UNCHANGED <<now, requeues>>
  BY <1>1 DEF Submit
<1>2. ASSUME NEW q \in Queues, NEW secs \in LeaseTimes, NEW i \in TaskIds,
             LeaseGranted(q, secs, i)
      PROVE  UNCHANGED <<now, requeues>>
  BY <1>2, Zenon DEF LeaseGranted
<1>3. ASSUME NEW q \in Queues, LeaseNone(q)
      PROVE  UNCHANGED <<now, requeues>>
  BY <1>3, Zenon DEF LeaseNone
<1>4. CallerActs => UNCHANGED <<now, requeues>>
  BY Zenon DEF CallerActs, Ack, Fail, Checkpoint, Heartbeat, Change
<1>5. ASSUME NEW i \in TaskIds, NEW reset \in BOOLEAN, RequeueDeadLetter(i, reset)
      PROVE  now' \in Nat /\ requeues' \in 0..MaxRequeues
  BY <1>5, StoreAssumption DEF RequeueDeadLetter
<1>6. Tick => now' \in Nat /\ requeues' = requeues
  BY DEF Tick
<1>7. UNCHANGED storeVars => UNCHANGED <<now, requeues>>
  BY DEF storeVars
<1> QED
  BY <1>1, <1>2, <1>3, <1>4, <1>5, <1>6, <1>7 DEF StoreNext

\* Every step keeps the types.
LEMMA NextType ==
  ASSUME Fenced, [StoreNext]_storeVars
  PROVE  StoreTypeOK'
<1> USE DEF Fenced
<1>1. now' \in Nat /\ requeues' \in 0..MaxRequeues
  BY CountersType
<1>2. Shape
  BY NextShape
<1>3. CASE CreateShape
  <2>1. PICK n \in TaskIds, q \in Queues, k \in Keys, limit \in AttemptLimits :
          Created(n, q, k, limit) /\ \A i \in TaskIds \ {n} : tasks'[i] = tasks[i]
    BY <1>3 DEF CreateShape
  <2>2. tasks'[n] \in Task /\ tasks'[n].status = "pending"
    BY <2>1, NewTaskFacts, StoreAssumption DEF Created, StoreTypeOK
  <2>3. tasks' \in [TaskIds -> Task]
    BY <1>2, <2>1, <2>2 DEF Shape, StoreTypeOK
  <2>4. n = created + 1 /\ created' = created + 1 /\ issued' = issued
    BY <1>3, <2>1 DEF CreateShape, Created
  <2>5. created' \in 0..MaxTasks
    BY <2>4, StoreAssumption DEF StoreTypeOK, TaskIds
  <2>6. \A i \in TaskIds : tasks'[i].status = "absent" <=> i > created'
    BY <2>1, <2>2, <2>4 DEF StoreTypeOK, TaskIds
  <2>7. index' \in [Queues \X Keys -> 0..MaxTasks]
    BY <2>1, <2>5, <2>4 DEF Created, StoreTypeOK
  <2> QED
    BY <1>1, <2>3, <2>4, <2>5, <2>6, <2>7 DEF StoreTypeOK
<1>4. CASE MoveShape
  <2>1. \A i \in TaskIds : /\ tasks'[i] \in Task
                           /\ tasks'[i].status = "absent" <=> tasks[i].status = "absent"
    BY <1>4, MovedFacts DEF MoveShape, SameIdentity
  <2> QED
    BY <1>1, <1>2, <1>4, <2>1 DEF MoveShape, Shape, StoreTypeOK
<1>5. CASE LeaseShape
  <2>1. PICK g \in TaskIds : Granted(g) /\ \A i \in TaskIds \ {g} : Moved(i)
    BY <1>5 DEF LeaseShape
  <2>2. \A i \in TaskIds : /\ tasks'[i] \in Task
                           /\ tasks'[i].status = "absent" <=> tasks[i].status = "absent"
    BY <2>1, MovedFacts, GrantedFacts DEF SameIdentity
  <2>3. issued' \in Seq(Lease)
    <3>1. PICK r \in Lease : issued' = Append(issued, r)
      BY <2>1, GrantedFacts, Zenon
    <3>2. issued \in Seq(Lease)
      BY DEF StoreTypeOK
    <3> QED
      BY <3>1, <3>2
  <2> QED
    BY <1>1, <1>2, <1>5, <2>2, <2>3 DEF LeaseShape, Shape, StoreTypeOK
<1> QED
  BY <1>2, <1>3, <1>4, <1>5 DEF Shape

\* Every step keeps the fence: only the granted task answers to a new token, and
\* the lease behind each token stays what it was.
LEMMA NextFenced ==
  ASSUME Fenced, [StoreNext]_storeVars
  PROVE  NewestLeaseRules'
<1> USE DEF Fenced
<1>1. Shape
  BY NextShape
<1>2. CASE CreateShape
  <2>1. PICK n \in TaskIds, q \in Queues, k \in Keys, limit \in AttemptLimits :
          Created(n, q, k, limit) /\ \A i \in TaskIds \ {n} : tasks'[i] = tasks[i]
    BY <1>2 DEF CreateShape
  <2>2. tasks'[n].status = "pending" /\ tasks'[n].lease_token = NoToken
    <3>1. limit \in Nat
      BY StoreAssumption
    <3>2. now \in Nat
      BY DEF StoreTypeOK
    <3>3. tasks'[n] = NewTask(q, k, limit)
      BY <2>1 DEF Created
    <3> QED
      BY <3>1, <3>2, <3>3, NewTaskFacts
  <2> QED
    BY <1>2, <2>1, <2>2 DEF CreateShape, NewestLeaseRules
<1>3. CASE MoveShape
  <2>1. issued' = issued
    BY <1>3 DEF MoveShape
  <2>2. ASSUME NEW i \in TaskIds, tasks'[i].status = "leased"
        PROVE  /\ tasks[i].status = "leased"
               /\ tasks'[i].lease_token = tasks[i].lease_token
               /\ tasks'[i].attempts = tasks[i].attempts
               /\ tasks'[i].max_attempts = tasks[i].max_attempts
    BY <1>3, <2>2, MovedFacts DEF MoveShape, SameIdentity
  <2>3. \A i \in TaskIds : tasks'[i].status # "leased" => tasks'[i].lease_token = NoToken
    BY <1>3, MovedFacts DEF MoveShape
  <2> QED
    BY <2>1, <2>2, <2>3 DEF NewestLeaseRules
<1>4. CASE LeaseShape
  <2>1. PICK g \in TaskIds : Granted(g) /\ \A i \in TaskIds \ {g} : Moved(i)
    BY <1>4 DEF LeaseShape
  <2>2. PICK r \in Lease : /\ issued' = Append(issued, r) /\ r.task = g
                           /\ r.attempt = tasks[g].attempts + 1
    BY <2>1, GrantedFacts
  <2>3. /\ Len(issued) \in Nat /\ DOMAIN issued = 1..Len(issued)
        /\ DOMAIN issued' = 1..(Len(issued) + 1)
        /\ issued'[Len(issued) + 1] = r
        /\ \A l \in DOMAIN issued : issued'[l] = issued[l]
    BY <2>2, IssuedFacts, AppendProperties DEF StoreTypeOK
  <2>4. /\ tasks'[g].status = "leased" /\ tasks'[g].lease_token = Len(issued) + 1
        /\ tasks'[g].attempts = r.attempt /\ tasks'[g].attempts <= tasks'[g].max_attempts
    <3>1. tasks[g].attempts \in Nat /\ tasks[g].max_attempts \in Nat
      BY DEF StoreTypeOK, Task
    <3> QED
      BY <2>1, <2>2, <3>1, GrantedFacts DEF SameIdentity
  <2>5. ASSUME NEW i \in TaskIds \ {g}, tasks'[i].status = "leased"
        PROVE  /\ tasks[i].status = "leased"
               /\ tasks'[i].lease_token = tasks[i].lease_token
               /\ tasks'[i].attempts = tasks[i].attempts
               /\ tasks'[i].max_attempts = tasks[i].max_attempts
    BY <2>1, <2>5, MovedFacts DEF SameIdentity
  <2>6. \A i \in TaskIds \ {g} : tasks'[i].status # "leased"
          => tasks'[i].lease_token = NoToken
    BY <2>1, MovedFacts
  <2> DEFINE Rules(i) ==
        /\ tasks'[i].lease_token \in DOMAIN issued'
        /\ issued'[tasks'[i].lease_token].task = i
        /\ issued'[tasks'[i].lease_token].attempt = tasks'[i].attempts
        /\ tasks'[i].attempts <= tasks'[i].max_attempts
        /\ \A l \in DOMAIN issued' : issued'[l].task = i => l <= tasks'[i].lease_token
  <2>7. Rules(g)
    BY <2>2, <2>3, <2>4
  <2>8. ASSUME NEW i \in TaskIds \ {g}, tasks'[i].status = "leased"
        PROVE  Rules(i)
    <3>1. /\ tasks[i].lease_token \in DOMAIN issued
          /\ issued[tasks[i].lease_token].task = i
          /\ issued[tasks[i].lease_token].attempt = tasks[i].attempts
          /\ tasks[i].attempts <= tasks[i].max_attempts
          /\ \A l \in DOMAIN issued : issued[l].task = i => l <= tasks[i].lease_token
      BY <2>5, <2>8 DEF NewestLeaseRules
    <3> QED
      BY <2>2, <2>3, <2>5, <2>8, <3>1
  <2> QED
    BY <2>4, <2>6, <2>7, <2>8 DEF NewestLeaseRules
<1> QED
  BY <1>1, <1>2, <1>3, <1>4 DEF Shape

\* Types and fencing hold for every number of tasks, queues, callers and times.
THEOREM FencedAlways == StoreSpec => []Fenced
<1>1. StoreInit => Fenced
  BY InitFenced
<1>2. Fenced /\ [StoreNext]_storeVars => Fenced'
  BY NextType, NextFenced DEF Fenced
<1> QED
  BY <1>1, <1>2, PTL DEF StoreSpec

\* Every variable of the store keeps its type (StoreTypeOK).
THEOREM TypeCorrect == StoreSpec => []StoreTypeOK
<1>1. Fenced => StoreTypeOK
  BY DEF Fenced
<1> QED
  BY <1>1, FencedAlways, PTL

\* Only the newest lease of a task is ever honoured (store.py:20, 182-188).
THEOREM FencingCorrect == StoreSpec => []NewestLeaseRules
<1>1. Fenced => NewestLeaseRules
  BY DEF Fenced
<1> QED
  BY <1>1, FencedAlways, PTL

-----------------------------------------------------------------------------
\* The idempotency index stays the inverse of the tasks (store.py:40-53).
LEMMA NextIndex ==
  ASSUME Fenced, IndexFaithful, [StoreNext]_storeVars
  PROVE  IndexFaithful'
<1> USE DEF Fenced
<1>1. Shape
  BY NextShape
<1>2. DOMAIN index = Queues \X Keys /\ created \in 0..MaxTasks
  BY DEF StoreTypeOK
<1>3. CASE CreateShape
  <2>1. PICK n \in TaskIds, q \in Queues, k \in Keys, limit \in AttemptLimits :
          Created(n, q, k, limit) /\ \A i \in TaskIds \ {n} : tasks'[i] = tasks[i]
    BY <1>3 DEF CreateShape
  <2>2. /\ n = created + 1 /\ created' = created + 1 /\ index[<<q, k>>] = NoTask
        /\ index' = [index EXCEPT ![<<q, k>>] = n]
    BY <1>3, <2>1 DEF CreateShape, Created
  <2>3. tasks'[n].queue = q /\ tasks'[n].idempotency_key = k
    BY <2>1, NewTaskFacts, StoreAssumption DEF Created, StoreTypeOK
  <2>4. /\ DOMAIN index' = Queues \X Keys /\ <<q, k>> \in Queues \X Keys
        /\ index'[<<q, k>>] = n
        /\ \A slot \in (Queues \X Keys) \ {<<q, k>>} : index'[slot] = index[slot]
    BY <2>2 DEF StoreTypeOK
  <2>5. 1..created' = (1..created) \cup {n} /\ n \notin 1..created
    BY <1>2, <2>2
  <2>6. 1..created \subseteq TaskIds \ {n}
    BY <1>2, <2>2, <2>5, StoreAssumption DEF TaskIds
  <2>7. ASSUME NEW slot \in DOMAIN index', index'[slot] # NoTask
        PROVE  /\ index'[slot] \in 1..created'
               /\ <<tasks'[index'[slot]].queue, tasks'[index'[slot]].idempotency_key>> = slot
    <3>1. CASE slot = <<q, k>>
      BY <2>3, <2>4, <2>5, <3>1
    <3>2. CASE slot # <<q, k>>
      BY <1>2, <2>1, <2>4, <2>5, <2>6, <2>7, <3>2 DEF IndexFaithful
    <3> QED
      BY <3>1, <3>2
  <2>8. ASSUME NEW i \in 1..created'
        PROVE  /\ <<tasks'[i].queue, tasks'[i].idempotency_key>> \in DOMAIN index'
               /\ index'[<<tasks'[i].queue, tasks'[i].idempotency_key>>] = i
    <3>1. CASE i = n
      BY <2>3, <2>4, <3>1
    <3>2. CASE i \in 1..created
      <4>1. tasks'[i] = tasks[i]
        BY <2>1, <2>6, <3>2
      <4> DEFINE slot == <<tasks[i].queue, tasks[i].idempotency_key>>
      <4>2. slot \in DOMAIN index /\ index[slot] = i
        BY <3>2 DEF IndexFaithful
      <4>3. slot # <<q, k>>
        BY <2>2, <3>2, <4>2 DEF NoTask
      <4> QED
        BY <1>2, <2>4, <4>1, <4>2, <4>3
    <3> QED
      BY <2>5, <2>8, <3>1, <3>2
  <2> QED
    BY <2>7, <2>8 DEF IndexFaithful
<1>4. CASE MoveShape \/ LeaseShape
  <2>1. index' = index /\ created' = created
    BY <1>4 DEF MoveShape, LeaseShape
  <2>2. \A i \in TaskIds : /\ tasks'[i].queue = tasks[i].queue
                           /\ tasks'[i].idempotency_key = tasks[i].idempotency_key
    BY <1>4, MovedFacts, GrantedFacts DEF MoveShape, LeaseShape, SameIdentity
  <2>3. 1..created \subseteq TaskIds
    BY <1>2, StoreAssumption DEF TaskIds
  <2> QED
    BY <2>1, <2>2, <2>3 DEF IndexFaithful
<1> QED
  BY <1>1, <1>3, <1>4 DEF Shape

\* Submission is idempotent: no two tasks ever share a queue and a key, and each
\* is found under its own (IndexFaithful).
THEOREM IdempotentSubmission == StoreSpec => []IndexFaithful
<1>1. StoreInit => IndexFaithful
  BY StoreAssumption DEF StoreInit, IndexFaithful, NoTask
<1>2. Fenced /\ IndexFaithful /\ [StoreNext]_storeVars => IndexFaithful'
  BY NextIndex
<1> QED
  BY <1>1, <1>2, FencedAlways, PTL DEF StoreSpec

-----------------------------------------------------------------------------
\* Checkpoint integrity and resumption need one another, and that no checkpoint
\* names a token that was not issued yet.
Recorded ==
  /\ CheckpointIntegrity
  /\ CheckpointResumes
  /\ \A i \in TaskIds, f \in Fields : tasks[i].checkpoint[f] <= Len(issued)
  /\ \A i \in TaskIds : tasks[i].status = "absent"
                            => tasks[i] = AbsentTask

\* A task that is not granted keeps what CheckpointIntegrity says of it, and its
\* fields only move on to newer tokens.
LEMMA MovedRecord ==
  ASSUME Fenced, Recorded, NEW i \in TaskIds, Moved(i), NEW f \in Fields
  PROVE  /\ tasks[i].checkpoint[f] \in Nat /\ tasks'[i].checkpoint[f] \in Nat
         /\ tasks[i].checkpoint[f] <= tasks'[i].checkpoint[f]
         /\ tasks'[i].checkpoint[f] <= Len(issued)
         /\ tasks'[i].status = "leased" =>
              /\ tasks'[i].lease_token \in DOMAIN issued
              /\ tasks'[i].checkpoint[f]
                   \in {tasks'[i].lease_token, issued[tasks'[i].lease_token].checkpoint[f]}
<1> USE DEF Fenced
<1>1. /\ tasks[i] \in Task /\ tasks'[i] \in Task
      /\ Len(issued) \in Nat /\ DOMAIN issued = 1..Len(issued)
      /\ \A l \in DOMAIN issued : issued[l].checkpoint[f] \in Nat
  <2>1. tasks[i] \in Task /\ tasks'[i] \in Task
    BY MovedFacts DEF StoreTypeOK, SameIdentity
  <2>2. /\ Len(issued) \in Nat /\ DOMAIN issued = 1..Len(issued)
        /\ \A l \in DOMAIN issued : issued[l] \in Lease
    BY IssuedFacts
  <2>3. \A r \in Lease : r.checkpoint[f] \in Nat
    BY DEF Lease
  <2> QED
    BY <2>1, <2>2, <2>3
<1>2. /\ tasks[i].checkpoint[f] \in Nat /\ tasks'[i].checkpoint[f] \in Nat
      /\ tasks[i].lease_token \in Nat
  BY <1>1 DEF Task
<1>3. tasks'[i].checkpoint[f] \in {tasks[i].checkpoint[f], tasks[i].lease_token}
  BY MovedFacts
<1>4. tasks[i].checkpoint[f] <= Len(issued)
  BY DEF Recorded
<1>5. CASE tasks[i].status = "leased"
  <2>1. /\ tasks[i].lease_token \in DOMAIN issued
        /\ issued[tasks[i].lease_token].checkpoint[f] < tasks[i].lease_token
        /\ tasks[i].checkpoint[f]
             \in {tasks[i].lease_token, issued[tasks[i].lease_token].checkpoint[f]}
    BY <1>5 DEF NewestLeaseRules, Recorded, CheckpointIntegrity, CheckpointResumes
  <2>2. tasks'[i].status = "leased" => tasks'[i].lease_token = tasks[i].lease_token
    BY MovedFacts
  <2>3. /\ tasks[i].checkpoint[f] <= tasks'[i].checkpoint[f]
        /\ tasks'[i].checkpoint[f] <= Len(issued)
    <3> DEFINE token == tasks[i].lease_token
               given == issued[token].checkpoint[f]
               old == tasks[i].checkpoint[f]
               new == tasks'[i].checkpoint[f]
    <3>1. token \in 1..Len(issued) /\ given \in Nat /\ given < token
      BY <1>1, <2>1
    <3>2. old \in {token, given} /\ new \in {old, token}
      BY <1>3, <2>1
    <3> HIDE DEF token, given, old, new
    <3>3. old <= new /\ new <= Len(issued)
      BY <1>1, <3>1, <3>2
    <3> QED
      BY <3>3 DEF old, new
  <2>4. tasks'[i].status = "leased" =>
          tasks'[i].checkpoint[f]
            \in {tasks'[i].lease_token, issued[tasks'[i].lease_token].checkpoint[f]}
    BY <1>3, <2>1, <2>2, Zenon
  <2> QED
    BY <1>2, <2>1, <2>2, <2>3, <2>4, Zenon
<1>6. CASE tasks[i].status # "leased"
  <2>1. tasks'[i].checkpoint = tasks[i].checkpoint /\ tasks'[i].status # "leased"
    BY <1>6, MovedFacts
  <2> QED
    BY <1>2, <1>4, <2>1
<1> QED
  BY <1>5, <1>6

\* Every step keeps the checkpoints' record.
LEMMA NextRecorded ==
  ASSUME Fenced, Recorded, [StoreNext]_storeVars
  PROVE  Recorded'
<1> USE DEF Fenced
<1>1. Shape /\ Fenced'
  BY NextShape, NextType, NextFenced
<1>2. /\ Len(issued) \in Nat /\ DOMAIN issued = 1..Len(issued)
      /\ \A l \in DOMAIN issued : issued[l].task \in TaskIds /\ l \in Nat
      /\ \A l \in DOMAIN issued : issued[l] \in Lease
  BY IssuedFacts DEF Lease
<1>3. CASE CreateShape
  <2>1. PICK n \in TaskIds, q \in Queues, k \in Keys, limit \in AttemptLimits :
          Created(n, q, k, limit) /\ \A i \in TaskIds \ {n} : tasks'[i] = tasks[i]
    BY <1>3 DEF CreateShape
  <2>2. /\ tasks'[n].checkpoint = EmptyCheckpoint /\ tasks'[n].status = "pending"
        /\ n = created + 1 /\ issued' = issued
    BY <1>3, <2>1, NewTaskFacts, StoreAssumption DEF CreateShape, Created, StoreTypeOK
  <2>3. n > created
    BY <2>2 DEF StoreTypeOK
  <2>4. tasks[n] = AbsentTask /\ AbsentTask.checkpoint = EmptyCheckpoint
    <3>1. AbsentTask.checkpoint = EmptyCheckpoint
      BY Zenon DEF AbsentTask
    <3> QED
      BY <2>3, <3>1 DEF StoreTypeOK, Recorded
  <2>5. /\ \A i \in TaskIds : tasks'[i].checkpoint = tasks[i].checkpoint
        /\ \A i \in TaskIds : i # n => tasks'[i] = tasks[i]
    BY <2>1, <2>2, <2>4 DEF Recorded
  <2>6. CheckpointIntegrity'
    <3>1. SUFFICES ASSUME NEW i \in TaskIds, tasks'[i].status = "leased", NEW f \in Fields
                   PROVE  tasks'[i].checkpoint[f] \in
                            {tasks'[i].lease_token, issued'[tasks'[i].lease_token].checkpoint[f]}
      BY DEF CheckpointIntegrity
    <3>2. tasks'[i] = tasks[i] /\ issued' = issued
      BY <2>2, <2>5, <3>1
    <3> QED
      BY <3>1, <3>2 DEF Recorded, CheckpointIntegrity
  <2>7. CheckpointResumes'
    <3>1. \A l \in DOMAIN issued : tasks'[issued[l].task].checkpoint
                                     = tasks[issued[l].task].checkpoint
      BY <1>2, <2>5
    <3> QED
      BY <2>2, <3>1 DEF Recorded, CheckpointResumes
  <2>8. \A i \in TaskIds, f \in Fields : tasks'[i].checkpoint[f] <= Len(issued')
    BY <2>2, <2>5 DEF Recorded
  <2>9. \A i \in TaskIds : tasks'[i].status = "absent" => tasks'[i] = AbsentTask
    BY <2>2, <2>5 DEF Recorded
  <2> QED
    BY <2>6, <2>7, <2>8, <2>9, Zenon DEF Recorded
<1>4. CASE MoveShape
  <2>1. issued' = issued /\ \A i \in TaskIds : Moved(i)
    BY <1>4 DEF MoveShape
  <2>2. CheckpointIntegrity'
    BY <2>1, MovedRecord DEF CheckpointIntegrity
  <2>3. CheckpointResumes'
    <3>1. \A l \in DOMAIN issued, f \in Fields :
            issued[l].checkpoint[f] <= tasks'[issued[l].task].checkpoint[f]
      <4> TAKE l \in DOMAIN issued, f \in Fields
      <4>1. issued[l].checkpoint[f] \in Nat /\ issued[l].task \in TaskIds
        BY <1>2 DEF Lease
      <4>2. issued[l].checkpoint[f] <= tasks[issued[l].task].checkpoint[f]
        BY DEF Recorded, CheckpointResumes
      <4> QED
        BY <2>1, <4>1, <4>2, MovedRecord
    <3> QED
      BY <2>1, <3>1 DEF Recorded, CheckpointResumes
  <2>4. \A i \in TaskIds, f \in Fields : tasks'[i].checkpoint[f] <= Len(issued')
    BY <2>1, MovedRecord
  <2>5. \A i \in TaskIds : tasks'[i].status = "absent"
                            => tasks'[i] = AbsentTask
    BY <2>1, MovedFacts DEF Recorded
  <2> QED
    BY <2>2, <2>3, <2>4, <2>5 DEF Recorded
<1>5. CASE LeaseShape
  <2>1. PICK g \in TaskIds : Granted(g) /\ \A i \in TaskIds \ {g} : Moved(i)
    BY <1>5 DEF LeaseShape
  <2>2. PICK r \in Lease : /\ issued' = Append(issued, r) /\ r.task = g
                           /\ r.checkpoint = tasks[g].checkpoint
    BY <2>1, GrantedFacts
  <2>3. /\ DOMAIN issued' = (DOMAIN issued) \cup {Len(issued) + 1}
        /\ issued'[Len(issued) + 1] = r /\ Len(issued') = Len(issued) + 1
        /\ \A l \in DOMAIN issued : issued'[l] = issued[l]
    BY <1>2, <2>2, AppendProperties DEF StoreTypeOK
  <2>4. /\ tasks'[g].status = "leased" /\ tasks'[g].lease_token = Len(issued) + 1
        /\ tasks'[g].checkpoint = tasks[g].checkpoint
        /\ \A f \in Fields : tasks[g].checkpoint[f] \in Nat
    BY <2>1, GrantedFacts DEF StoreTypeOK, Task
  <2>5. \A i \in TaskIds, f \in Fields :
          /\ tasks[i].checkpoint[f] \in Nat /\ tasks'[i].checkpoint[f] \in Nat
          /\ tasks[i].checkpoint[f] <= tasks'[i].checkpoint[f]
          /\ tasks'[i].checkpoint[f] <= Len(issued)
    <3> TAKE i \in TaskIds, f \in Fields
    <3>1. CASE i = g
      BY <2>4, <3>1 DEF Recorded
    <3>2. CASE i # g
      BY <2>1, <3>2, MovedRecord
    <3> QED
      BY <3>1, <3>2
  <2>6. CheckpointIntegrity'
    <3> SUFFICES ASSUME NEW i \in TaskIds, NEW f \in Fields, tasks'[i].status = "leased"
                 PROVE  tasks'[i].checkpoint[f] \in {tasks'[i].lease_token,
                          issued'[tasks'[i].lease_token].checkpoint[f]}
      BY DEF CheckpointIntegrity
    <3>1. CASE i = g
      BY <2>2, <2>3, <2>4, <3>1
    <3>2. CASE i # g
      BY <2>1, <2>3, <3>2, MovedRecord
    <3> QED
      BY <3>1, <3>2
  <2>7. CheckpointResumes'
    <3> SUFFICES ASSUME NEW l \in DOMAIN issued', NEW f \in Fields
                 PROVE  /\ issued'[l].checkpoint[f] <= tasks'[issued'[l].task].checkpoint[f]
                        /\ issued'[l].checkpoint[f] < l
                        /\ \A m \in 1..l : issued'[m].task = issued'[l].task
                             => issued'[m].checkpoint[f] <= issued'[l].checkpoint[f]
      BY DEF CheckpointResumes
    <3>1. CASE l \in DOMAIN issued
      <4>1. \A m \in 1..l : m \in DOMAIN issued
        BY <1>2, <3>1
      <4>2. /\ issued[l].checkpoint[f] \in Nat /\ issued[l].task \in TaskIds
        BY <1>2, <3>1 DEF Lease
      <4>3. /\ issued[l].checkpoint[f] <= tasks[issued[l].task].checkpoint[f]
            /\ issued[l].checkpoint[f] < l
            /\ \A m \in 1..l : issued[m].task = issued[l].task
                 => issued[m].checkpoint[f] <= issued[l].checkpoint[f]
        BY <3>1 DEF Recorded, CheckpointResumes
      <4>4. issued[l].checkpoint[f] <= tasks'[issued[l].task].checkpoint[f]
        BY <2>5, <4>2, <4>3
      <4> QED
        BY <2>3, <3>1, <4>1, <4>3, <4>4
    <3>2. CASE l = Len(issued) + 1
      <4>1. issued'[l].task = g /\ issued'[l].checkpoint[f] = tasks[g].checkpoint[f]
        BY <2>2, <2>3, <3>2
      <4>2. \A m \in DOMAIN issued : issued[m].task = g
              => issued[m].checkpoint[f] <= tasks[g].checkpoint[f]
        BY DEF Recorded, CheckpointResumes
      <4>3. \A m \in 1..l : m = l \/ m \in DOMAIN issued
        BY <1>2, <3>2
      <4>4. \A m \in 1..l : issued'[m].task = g
              => issued'[m].checkpoint[f] <= tasks[g].checkpoint[f]
        BY <2>3, <2>5, <4>1, <4>2, <4>3
      <4>5. tasks[g].checkpoint[f] < l
        BY <1>2, <2>4, <3>2 DEF Recorded
      <4> QED
        BY <2>4, <2>5, <4>1, <4>4, <4>5
    <3> QED
      BY <2>3, <3>1, <3>2
  <2>8. \A i \in TaskIds : tasks'[i].status = "absent"
                            => tasks'[i] = AbsentTask
    BY <2>1, <2>4, MovedFacts DEF Recorded
  <2>9. \A i \in TaskIds, f \in Fields : tasks'[i].checkpoint[f] <= Len(issued')
    BY <1>2, <2>3, <2>5
  <2> QED
    BY <2>6, <2>7, <2>8, <2>9 DEF Recorded
<1> QED
  BY <1>1, <1>3, <1>4, <1>5 DEF Shape

\* The strengthened record is an invariant: at first nothing is saved.
THEOREM RecordedAlways == StoreSpec => []Recorded
<1>1. StoreInit => Recorded
  <2> SUFFICES ASSUME StoreInit PROVE Recorded
    OBVIOUS
  <2>1. AbsentTask.status = "absent" /\ AbsentTask.checkpoint = EmptyCheckpoint
    BY Zenon DEF AbsentTask
  <2>2. /\ \A i \in TaskIds : /\ tasks[i].status = "absent" /\ tasks[i] = AbsentTask
                              /\ tasks[i].checkpoint = EmptyCheckpoint
        /\ issued = <<>>
    BY <2>1 DEF StoreInit
  <2>3. \A i \in TaskIds, f \in Fields : tasks[i].checkpoint[f] <= Len(issued)
    BY <2>2 DEF EmptyCheckpoint, NoToken
  <2>4. CheckpointIntegrity /\ CheckpointResumes
    BY <2>2 DEF CheckpointIntegrity, CheckpointResumes
  <2> QED
    BY <2>2, <2>3, <2>4 DEF Recorded
<1>2. Fenced /\ Recorded /\ [StoreNext]_storeVars => Recorded'
  BY NextRecorded
<1> QED
  BY <1>1, <1>2, FencedAlways, PTL DEF StoreSpec

\* No zombie's save survives in a checkpoint, and every redelivery resumes from
\* at least what the deliveries before it were given (store.py:99-102, 115-119).
THEOREM CheckpointsCorrect == StoreSpec => []CheckpointsFollowLeases
<1>1. Recorded => CheckpointsFollowLeases
  BY DEF Recorded, CheckpointsFollowLeases
<1> QED
  BY <1>1, RecordedAlways, PTL

-----------------------------------------------------------------------------
\* A task that becomes a dead letter is out of attempts and has an error.
LEMMA MovedExplained ==
  ASSUME Fenced, NEW i \in TaskIds, Moved(i), tasks'[i].status = "dead_letter"
  PROVE  \/ tasks'[i] = tasks[i]
         \/ /\ tasks'[i].attempts >= tasks'[i].max_attempts
            /\ tasks'[i].last_error # None
<1> DEFINE t == tasks[i]
           u == tasks'[i]
<1> USE DEF Fenced
<1>1. /\ t \in Task /\ now \in Nat /\ u \in Task
      /\ t.status # "leased" => t.lease_token = NoToken
  BY MovedFacts DEF StoreTypeOK, NewestLeaseRules, SameIdentity
<1>2. u # Reclaim(t) /\ u # Succeed(t)
  BY <1>1, ReclaimFacts, SucceedFacts
<1>3. \A secs \in LeaseTimes : t.status = "leased" => u # Renew(t, secs)
  BY <1>1, RenewFacts, StoreAssumption
<1>4. \A saved \in SUBSET Fields : t.status = "leased" => u # Merge(t, t.lease_token, saved)
  BY <1>1, MergeFacts DEF Task
<1>5. \A delay \in RetryDelays : u # Retry(t, delay)
  BY <1>1, FailFacts, StoreAssumption
<1>6. \A reset \in BOOLEAN : u # Revive(t, reset)
  BY <1>1, ReviveFacts
<1>7. \/ u = t
      \/ ~HasBudget(t) /\ u = GiveUp(t)
      \/ Seen(t).status = "pending" /\ ~HasBudget(Seen(t)) /\ u = Bury(Seen(t))
  BY <1>2, <1>3, <1>4, <1>5, <1>6, Zenon DEF Moved, Scanned, Called, Revived
<1>8. CASE ~HasBudget(t) /\ u = GiveUp(t)
  <2>1. 0 \in Nat
    OBVIOUS
  <2> QED
    BY <1>1, <1>8, <2>1, FailFacts DEF HasBudget, SameIdentity, Task
<1>9. CASE Seen(t).status = "pending" /\ ~HasBudget(Seen(t)) /\ u = Bury(Seen(t))
  <2>1. Seen(t) \in Task
    BY <1>1, <1>9, SeenFacts DEF SameIdentity
  <2> QED
    BY <1>9, <2>1, BuryFacts DEF HasBudget, SameIdentity, Task
<1> QED
  BY <1>7, <1>8, <1>9

\* A task is set aside only with its attempt budget spent, and never without an
\* error (store.py:71-75, 144-145).
THEOREM DeadLettersExplained == StoreSpec => []DeadLetterExplained
<1>1. StoreInit => DeadLetterExplained
  BY AbsentFacts DEF StoreInit, DeadLetterExplained
<1>2. Fenced /\ DeadLetterExplained /\ [StoreNext]_storeVars => DeadLetterExplained'
  <2> SUFFICES ASSUME Fenced, DeadLetterExplained, [StoreNext]_storeVars,
                      NEW i \in TaskIds, tasks'[i].status = "dead_letter"
               PROVE  /\ tasks'[i].attempts >= tasks'[i].max_attempts
                      /\ tasks'[i].last_error # None
    BY DEF DeadLetterExplained
  <2>1. StoreTypeOK /\ NewestLeaseRules /\ Shape
    BY NextShape DEF Fenced
  <2>2. Moved(i)
    <3>1. CASE CreateShape
      BY <2>1, <3>1, NewTaskFacts, StoreAssumption
         DEF CreateShape, Created, StoreTypeOK, Moved
    <3>2. CASE MoveShape
      BY <3>2 DEF MoveShape
    <3>3. CASE LeaseShape
      BY <2>1, <3>3, GrantedFacts DEF LeaseShape
    <3> QED
      BY <2>1, <3>1, <3>2, <3>3 DEF Shape
  <2> QED
    BY <2>2, MovedExplained DEF DeadLetterExplained
<1> QED
  BY <1>1, <1>2, FencedAlways, PTL DEF StoreSpec

-----------------------------------------------------------------------------
\* Time moves only in a step that changes no task.
LEMMA NextTime ==
  ASSUME StoreTypeOK, [StoreNext]_storeVars
  PROVE  now' = now \/ (now' = now + 1 /\ UNCHANGED <<tasks, issued>>)
<1>1. ASSUME NEW q \in Queues, NEW k \in Keys, NEW limit \in AttemptLimits,
             Submit(q, k, limit)
      PROVE  now' = now
  BY <1>1 DEF Submit
<1>2. ASSUME NEW q \in Queues, NEW secs \in LeaseTimes, NEW i \in TaskIds,
             LeaseGranted(q, secs, i)
      PROVE  now' = now
  BY <1>2, Zenon DEF LeaseGranted
<1>3. ASSUME NEW q \in Queues, LeaseNone(q)
      PROVE  now' = now
  BY <1>3, Zenon DEF LeaseNone
<1>4. CallerActs => now' = now
  BY Zenon DEF CallerActs, Ack, Fail, Checkpoint, Heartbeat, Change
<1>5. ASSUME NEW i \in TaskIds, NEW reset \in BOOLEAN, RequeueDeadLetter(i, reset)
      PROVE  now' = now
  BY <1>5 DEF RequeueDeadLetter
<1>6. Tick => now' = now + 1 /\ UNCHANGED <<tasks, issued>>
  BY DEF Tick
<1>7. UNCHANGED storeVars => now' = now
  BY DEF storeVars
<1> QED
  BY <1>1, <1>2, <1>3, <1>4, <1>5, <1>6, <1>7 DEF StoreNext

\* The lease a step grants is the only one it adds to its task's tokens.
LEMMA TokensStep ==
  ASSUME StoreTypeOK, NEW i \in TaskIds
  PROVE  /\ issued' = issued => TokensOf(i)' = TokensOf(i)
         /\ \A r \in Lease : issued' = Append(issued, r) =>
              TokensOf(i)' = IF r.task = i THEN TokensOf(i) \cup {Len(issued) + 1}
                             ELSE TokensOf(i)
         /\ \A l \in TokensOf(i) : l < Len(issued) + 1
<1>1. Len(issued) \in Nat /\ DOMAIN issued = 1..Len(issued)
  BY IssuedFacts
<1>2. issued' = issued => TokensOf(i)' = TokensOf(i)
  BY DEF TokensOf
<1>3. ASSUME NEW r \in Lease, issued' = Append(issued, r)
      PROVE  TokensOf(i)' = IF r.task = i THEN TokensOf(i) \cup {Len(issued) + 1}
                            ELSE TokensOf(i)
  <2>1. /\ DOMAIN issued' = (DOMAIN issued) \cup {Len(issued) + 1}
        /\ issued'[Len(issued) + 1] = r
        /\ \A l \in DOMAIN issued : issued'[l] = issued[l]
        /\ Len(issued) + 1 \notin DOMAIN issued
    BY <1>1, <1>3, AppendProperties DEF StoreTypeOK
  <2>2. TokensOf(i)' = {l \in DOMAIN issued' : issued'[l].task = i}
    BY DEF TokensOf
  <2> QED
    BY <2>1, <2>2, Zenon DEF TokensOf
<1> QED
  BY <1>1, <1>2, <1>3 DEF TokensOf

\* The deliveries counted for a task stand still, start again or go up by one.
LEMMA DeliveriesStep ==
  ASSUME NEW t \in Task, NEW u \in Task, u.max_attempts = t.max_attempts
  PROVE  /\ u.attempts = t.attempts => DeliveriesOf(u) = DeliveriesOf(t)
         /\ ~HasBudget(t) => /\ DeliveriesOf(t) = t.max_attempts
                             /\ u.attempts = t.attempts + 1 => DeliveriesOf(u) = t.max_attempts
         /\ HasBudget(t) /\ u.attempts = t.attempts + 1 =>
              DeliveriesOf(t) < t.max_attempts /\ DeliveriesOf(u) = DeliveriesOf(t) + 1
         /\ u.attempts = 0 => DeliveriesOf(u) = 0
BY DEF DeliveriesOf, HasBudget, Task

\* A task that is neither created nor granted takes a step of its life.
LEMMA MovedLives ==
  ASSUME Fenced, NEW i \in TaskIds, Moved(i), now' = now, TokensOf(i)' = TokensOf(i)
  PROVE  Life(i)!LifeNext \/ UNCHANGED Life(i)!lifeVars
<1> DEFINE t == tasks[i]
           u == tasks'[i]
           due == t.status = "leased" /\ t.leased_until <= now
           due2 == u.status = "leased" /\ u.leased_until <= now
<1> USE DEF Fenced
<1>1. t \in Task /\ now \in Nat /\ u \in Task /\ u.max_attempts = t.max_attempts
  BY MovedFacts DEF StoreTypeOK, SameIdentity
<1>2. t.status # "leased" => t.lease_token = NoToken
  BY DEF NewestLeaseRules
<1>3. CASE u = t
  BY <1>3, Zenon DEF Life!lifeVars
<1>4. CASE Overdue(t) /\ u = Reclaim(t)
  <2>1. /\ u.status = "pending" /\ u.lease_token = NoToken /\ u.checkpoint = t.checkpoint
        /\ DeliveriesOf(u) = DeliveriesOf(t) /\ t.status = "leased"
    BY <1>1, <1>4, ReclaimFacts, DeliveriesStep DEF Overdue
  <2>2. Life(i)!Release
    BY <1>1, <2>1 DEF Life!Release, Life!Settle, PhaseOf, NoToken
  <2> QED
    BY <2>2 DEF Life!LifeNext
<1>5. CASE Seen(t).status = "pending" /\ ~HasBudget(Seen(t)) /\ u = Bury(Seen(t))
  <2>1. /\ Seen(t) \in Task /\ SameIdentity(Seen(t), t)
        /\ t.status \in {"pending", "leased"}
        /\ Seen(t).lease_token = NoToken
        /\ Seen(t).attempts = t.attempts /\ Seen(t).checkpoint = t.checkpoint
    BY <1>1, <1>2, <1>5, SeenFacts DEF SameIdentity
  <2>2. /\ u.status = "dead_letter" /\ u.lease_token = NoToken
        /\ u.attempts = t.attempts + 1 /\ u.checkpoint = t.checkpoint
    BY <1>5, <2>1, BuryFacts
  <2>3. ~HasBudget(t)
    BY <1>5, <2>1 DEF HasBudget, SameIdentity
  <2>4. DeliveriesOf(t) = t.max_attempts /\ DeliveriesOf(u) = t.max_attempts
    BY <1>1, <2>2, <2>3, DeliveriesStep
  <2>5. Life(i)!Abandon
    BY <1>1, <2>1, <2>2, <2>4 DEF Life!Abandon, Life!Settle, PhaseOf, NoToken
  <2> QED
    BY <2>5 DEF Life!LifeNext
<1>6. ASSUME t.status = "leased", NEW secs \in LeaseTimes, u = Renew(t, secs)
      PROVE  Life(i)!LifeNext \/ UNCHANGED Life(i)!lifeVars
  <2>1. secs \in Nat \ {0}
    BY StoreAssumption
  <2>2. /\ u.status = "leased" /\ u.lease_token = t.lease_token
        /\ u.leased_until = now + secs
        /\ u.attempts = t.attempts /\ u.checkpoint = t.checkpoint
    BY <1>1, <1>6, <2>1, RenewFacts
  <2>3. DeliveriesOf(u) = DeliveriesOf(t) /\ ~due2
    BY <1>1, <2>1, <2>2, DeliveriesStep
  <2>4. due => Life(i)!Lapse
    BY <1>1, <1>6, <2>2, <2>3 DEF Life!Lapse, PhaseOf
  <2>5. ~due => UNCHANGED Life(i)!lifeVars
    BY <1>1, <1>6, <2>2, <2>3 DEF Life!lifeVars, PhaseOf
  <2> QED
    BY <2>4, <2>5 DEF Life!LifeNext
<1>7. ASSUME t.status = "leased", NEW saved \in SUBSET Fields,
             u = Merge(t, t.lease_token, saved)
      PROVE  Life(i)!LifeNext
  <2>1. /\ u.status = "leased" /\ u.lease_token = t.lease_token
        /\ u.leased_until = t.leased_until /\ u.attempts = t.attempts
        /\ \A f \in Fields : u.checkpoint[f] \in {t.checkpoint[f], t.lease_token}
    BY <1>1, <1>7, MergeFacts DEF Task
  <2>2. DeliveriesOf(u) = DeliveriesOf(t) /\ DOMAIN u.checkpoint = Fields
    BY <1>1, <2>1, DeliveriesStep DEF Task
  <2>3. Life(i)!Save
    BY <1>1, <1>7, <2>1, <2>2 DEF Life!Save, PhaseOf
  <2> QED
    BY <2>3 DEF Life!LifeNext
<1>8. ASSUME t.status = "leased", u = Succeed(t)
      PROVE  Life(i)!LifeNext
  <2>1. /\ u.status = "succeeded" /\ u.lease_token = NoToken
        /\ DeliveriesOf(u) = DeliveriesOf(t) /\ u.checkpoint = t.checkpoint
    BY <1>1, <1>8, SucceedFacts, DeliveriesStep
  <2>2. Life(i)!Finish
    BY <1>1, <1>8, <2>1 DEF Life!Finish, Life!Settle, PhaseOf, NoToken
  <2> QED
    BY <2>2 DEF Life!LifeNext
<1>9. ASSUME t.status = "leased", NEW delay \in RetryDelays, u = Retry(t, delay)
      PROVE  Life(i)!LifeNext
  <2>1. delay \in Nat
    BY StoreAssumption
  <2>2. /\ u.status = "pending" /\ u.lease_token = NoToken
        /\ DeliveriesOf(u) = DeliveriesOf(t) /\ u.checkpoint = t.checkpoint
    BY <1>1, <1>9, <2>1, FailFacts, DeliveriesStep
  <2>3. Life(i)!Release
    BY <1>1, <1>9, <2>2 DEF Life!Release, Life!Settle, PhaseOf, NoToken
  <2> QED
    BY <2>3 DEF Life!LifeNext
<1>10. ASSUME t.status = "leased", ~HasBudget(t), u = GiveUp(t)
       PROVE  Life(i)!LifeNext
  <2>1. 0 \in Nat
    OBVIOUS
  <2>2. /\ u.status = "dead_letter" /\ u.lease_token = NoToken
        /\ u.attempts = t.attempts /\ u.checkpoint = t.checkpoint
    BY <1>1, <1>10, <2>1, FailFacts
  <2>3. DeliveriesOf(u) = DeliveriesOf(t) /\ DeliveriesOf(t) = t.max_attempts
    BY <1>1, <1>10, <2>2, DeliveriesStep
  <2>4. Life(i)!Abandon
    BY <1>1, <1>10, <2>2, <2>3 DEF Life!Abandon, Life!Settle, PhaseOf, NoToken
  <2> QED
    BY <2>4 DEF Life!LifeNext
<1>11. ASSUME t.status = "dead_letter", NEW reset \in BOOLEAN, u = Revive(t, reset)
       PROVE  Life(i)!LifeNext
  <2>1. /\ u.status = "pending" /\ u.lease_token = t.lease_token
        /\ u.attempts = 0 \/ u.attempts = t.attempts
        /\ u.checkpoint = t.checkpoint
    BY <1>1, <1>11, ReviveFacts
  <2>2. DeliveriesOf(u) \in {0, DeliveriesOf(t)}
    BY <1>1, <2>1, DeliveriesStep
  <2>3. Life(i)!Revive
    BY <1>1, <1>11, <2>1, <2>2 DEF Life!Revive, PhaseOf
  <2> QED
    BY <2>3 DEF Life!LifeNext
<1>12. Scanned(i) => Life(i)!LifeNext \/ UNCHANGED Life(i)!lifeVars
  BY <1>4, <1>5, Zenon DEF Scanned
<1>13. Called(i) => Life(i)!LifeNext \/ UNCHANGED Life(i)!lifeVars
  BY <1>6, <1>7, <1>8, <1>9, <1>10, Zenon DEF Called
<1>14. Revived(i) => Life(i)!LifeNext
  BY <1>11, Zenon DEF Revived
<1> QED
  BY <1>3, <1>12, <1>13, <1>14, Zenon DEF Moved

\* The task lease() grants is delivered.
LEMMA GrantedLives ==
  ASSUME Fenced, NEW i \in TaskIds, Granted(i), now' = now
  PROVE  Life(i)!Deliver
<1> DEFINE t == tasks[i]
           u == tasks'[i]
<1> USE DEF Fenced
<1>1. /\ t \in Task /\ now \in Nat /\ u \in Task /\ u.max_attempts = t.max_attempts
      /\ t.status \in {"pending", "leased"}
      /\ t.status = "leased" => t.leased_until <= now
      /\ u.status = "leased" /\ u.lease_token = Len(issued) + 1
      /\ t.attempts < t.max_attempts /\ u.attempts = t.attempts + 1
      /\ u.checkpoint = t.checkpoint
  BY GrantedFacts DEF StoreTypeOK, SameIdentity
<1>2. PICK r \in Lease : issued' = Append(issued, r) /\ r.task = i
  BY GrantedFacts
<1>3. /\ TokensOf(i)' = TokensOf(i) \cup {u.lease_token}
      /\ \A l \in TokensOf(i) : l < u.lease_token
  BY <1>1, <1>2, TokensStep
<1>4. DeliveriesOf(t) < t.max_attempts /\ DeliveriesOf(u) = DeliveriesOf(t) + 1
  BY <1>1, DeliveriesStep DEF HasBudget
<1>5. ~(u.status = "leased" /\ u.leased_until <= now)
  <2>1. PICK secs \in LeaseTimes : u.leased_until = now + secs
    BY GrantedFacts
  <2> QED
    BY <1>1, <2>1, StoreAssumption
<1> QED
  BY <1>1, <1>3, <1>4, <1>5 DEF Life!Deliver, PhaseOf

\* A submitted task is accepted.
LEMMA CreatedLives ==
  ASSUME Fenced, Recorded, NEW i \in TaskIds, NEW q \in Queues, NEW k \in Keys,
         NEW limit \in AttemptLimits, Created(i, q, k, limit), issued' = issued
  PROVE  Life(i)!Accept
<1> DEFINE t == tasks[i]
           u == tasks'[i]
<1> USE DEF Fenced
<1>1. t = AbsentTask
  BY DEF Recorded, StoreTypeOK, Created
<1>2. /\ u.status = "pending" /\ u.max_attempts = limit /\ u.attempts = 0
      /\ u.lease_token = NoToken /\ u.checkpoint = EmptyCheckpoint /\ u \in Task
  BY NewTaskFacts, StoreAssumption DEF Created, StoreTypeOK
<1>3. /\ t.status = "absent" /\ t.max_attempts = 0 /\ t.attempts = 0
      /\ t.lease_token = NoToken /\ t.checkpoint = EmptyCheckpoint
  BY <1>1, AbsentFacts
<1>4. DeliveriesOf(t) = 0 /\ DeliveriesOf(u) = 0
  BY <1>2, <1>3, StoreAssumption DEF DeliveriesOf, HasBudget
<1>5. TokensOf(i)' = TokensOf(i)
  BY TokensStep
<1> QED
  BY <1>2, <1>3, <1>4, <1>5 DEF Life!Accept, PhaseOf

\* Every step of the store is, for every task, a step of its life or none.
LEMMA NextLives ==
  ASSUME Fenced, Recorded, [StoreNext]_storeVars, NEW i \in TaskIds
  PROVE  Life(i)!LifeNext \/ UNCHANGED Life(i)!lifeVars
<1> USE DEF Fenced
<1>1. Shape
  BY NextShape
<1>2. CASE now' = now + 1 /\ UNCHANGED <<tasks, issued>>
  <2>1. now \in Nat /\ tasks[i] \in Task /\ TokensOf(i)' = TokensOf(i)
    BY <1>2, TokensStep DEF StoreTypeOK
  <2>2. CASE tasks[i].status = "leased" /\ tasks[i].leased_until = now + 1
    BY <1>2, <2>1, <2>2 DEF Life!LifeNext, Life!Lapse, PhaseOf
  <2>3. CASE ~(tasks[i].status = "leased" /\ tasks[i].leased_until = now + 1)
    BY <1>2, <2>1, <2>3 DEF Life!lifeVars, Task
  <2> QED
    BY <2>2, <2>3
<1>3. CASE now' = now
  <2>1. CASE CreateShape
    <3>1. PICK n \in TaskIds, q \in Queues, k \in Keys, limit \in AttemptLimits :
            Created(n, q, k, limit) /\ \A j \in TaskIds \ {n} : tasks'[j] = tasks[j]
      BY <2>1 DEF CreateShape
    <3>2. CASE i = n
      BY <2>1, <3>1, <3>2, CreatedLives DEF CreateShape, Life!LifeNext
    <3>3. CASE i # n
      <4>1. Moved(i) /\ TokensOf(i)' = TokensOf(i)
        BY <2>1, <3>1, <3>3, TokensStep DEF CreateShape, Moved
      <4> QED
        BY <1>3, <4>1, MovedLives
    <3> QED
      BY <3>2, <3>3
  <2>2. CASE MoveShape
    <3>1. Moved(i) /\ TokensOf(i)' = TokensOf(i)
      BY <2>2, TokensStep DEF MoveShape
    <3> QED
      BY <1>3, <3>1, MovedLives
  <2>3. CASE LeaseShape
    <3>1. PICK g \in TaskIds : Granted(g) /\ \A j \in TaskIds \ {g} : Moved(j)
      BY <2>3 DEF LeaseShape
    <3>2. CASE i = g
      BY <1>3, <3>1, <3>2, GrantedLives DEF Life!LifeNext
    <3>3. CASE i # g
      <4>1. PICK r \in Lease : issued' = Append(issued, r) /\ r.task = g
        BY <3>1, GrantedFacts
      <4>2. TokensOf(i)' = TokensOf(i)
        BY <3>3, <4>1, TokensStep
      <4> QED
        BY <1>3, <3>1, <3>3, <4>2, MovedLives
    <3> QED
      BY <3>2, <3>3
  <2> QED
    BY <1>1, <2>1, <2>2, <2>3 DEF Shape
<1> QED
  BY <1>2, <1>3, NextTime

\* The store implements the abstract task: it starts as TaskLifecycle does, and
\* each of its steps is a step of the life of every task, or leaves it alone
\* (store.py:11-24).
THEOREM StoreImplementsLifecycle == StoreSpec => EveryTaskLives
<1>1. StoreInit => \A i \in TaskIds : Life(i)!LifeInit
  <2> SUFFICES ASSUME StoreInit, NEW i \in TaskIds PROVE Life(i)!LifeInit
    OBVIOUS
  <2>1. /\ tasks[i] = AbsentTask /\ issued = <<>>
    BY DEF StoreInit
  <2>2. /\ tasks[i].status = "absent" /\ tasks[i].max_attempts = 0
        /\ tasks[i].attempts = 0 /\ tasks[i].lease_token = 0
        /\ tasks[i].checkpoint = [f \in Fields |-> 0]
    BY <2>1, AbsentFacts DEF EmptyCheckpoint, NoToken
  <2> QED
    BY <2>1, <2>2 DEF Life!LifeInit, PhaseOf, DeliveriesOf, HasBudget, TokensOf
<1>2. Fenced /\ Recorded /\ [StoreNext]_storeVars =>
        [\A i \in TaskIds : Life(i)!LifeNext \/ UNCHANGED Life(i)!lifeVars]_storeVars
  BY NextLives
<1> QED
  BY <1>1, <1>2, FencedAlways, RecordedAlways, PTL DEF StoreSpec, EveryTaskLives

\* Of the other methods, none hands out a lease.
LEMMA OnlyLeaseGrants ==
  ASSUME StoreTypeOK, [StoreNext]_storeVars
  PROVE  \/ issued' = issued
         \/ \E q \in Queues, secs \in LeaseTimes, g \in TaskIds : LeaseGranted(q, secs, g)
<1>1. ASSUME NEW q \in Queues, NEW k \in Keys, NEW limit \in AttemptLimits,
             Submit(q, k, limit)
      PROVE  issued' = issued
  BY <1>1 DEF Submit
<1>2. ASSUME NEW q \in Queues, LeaseNone(q)
      PROVE  issued' = issued
  BY <1>2, Zenon DEF LeaseNone
<1>3. CallerActs => issued' = issued
  BY Zenon DEF CallerActs, Ack, Fail, Checkpoint, Heartbeat, Change
<1>4. ASSUME NEW i \in TaskIds, NEW reset \in BOOLEAN, RequeueDeadLetter(i, reset)
      PROVE  issued' = issued
  BY <1>4 DEF RequeueDeadLetter
<1>5. Tick \/ UNCHANGED storeVars => issued' = issued
  BY DEF Tick, storeVars
<1> QED
  BY <1>1, <1>2, <1>3, <1>4, <1>5 DEF StoreNext

\* lease() grants a task that is due, and leaves leases that are in time alone.
LEMMA GrantInTime ==
  ASSUME StoreTypeOK, NEW q \in Queues, NEW secs \in LeaseTimes, NEW g \in TaskIds,
         LeaseGranted(q, secs, g)
  PROVE  /\ issued'[Len(issued')].task = g
         /\ \/ tasks[g].status = "pending" /\ tasks[g].available_at <= now
            \/ tasks[g].status = "leased" /\ tasks[g].leased_until <= now
         /\ \A i \in TaskIds :
              tasks[i].status = "leased" /\ tasks[i].leased_until > now
                => tasks'[i] = tasks[i]
<1> DEFINE ts == Reclaimed(q)
           cs == Candidates(ts, q)
           r == [task |-> g, attempt |-> ts[g].attempts + 1,
                 checkpoint |-> ts[g].checkpoint]
<1>1. /\ g \in cs
      /\ tasks' = [i \in TaskIds |-> IF i = g THEN Grant(ts[i], secs)
                                     ELSE IF i \in cs /\ Ahead(ts, i, g) THEN Bury(ts[i])
                                     ELSE ts[i]]
      /\ issued' = Append(issued, r)
  BY Zenon DEF LeaseGranted
<1>2. issued'[Len(issued')] = r
  <2> HIDE DEF r
  <2> QED
    BY <1>1 DEF StoreTypeOK
<1>3. \A i \in TaskIds :
        /\ ~Expired(tasks[i], q) => ts[i] = tasks[i]
        /\ i \in cs => ts[i].status = "pending" /\ ts[i].available_at <= now
  BY DEF Reclaimed, Candidates
<1>4. \A i \in TaskIds : Expired(tasks[i], q)
        => tasks[i].status = "leased" /\ tasks[i].leased_until <= now
  BY DEF Expired
<1>5. ASSUME NEW i \in TaskIds, tasks[i].status = "leased", tasks[i].leased_until > now
      PROVE  tasks'[i] = tasks[i]
  <2>1. tasks[i].leased_until \in Nat /\ now \in Nat
    BY DEF StoreTypeOK, Task
  <2>2. ts[i] = tasks[i] /\ i \notin cs
    BY <1>3, <1>4, <1>5, <2>1
  <2> HIDE DEF ts, cs
  <2> QED
    BY <1>1, <2>2
<1>6. r.task = g
  OBVIOUS
<1> HIDE DEF ts, cs, r
<1> QED
  BY <1>1, <1>2, <1>3, <1>4, <1>5, <1>6

\* lease() takes a task away from nobody who is in time, hands out none before
\* its retry delay is over, and leaves the other leases that are in time alone
\* (store.py:61-66, 91-97).
THEOREM DeliveryInTime == StoreSpec => NoEarlyDelivery
<1> DEFINE InTime ==
      Len(issued') > Len(issued) =>
        \A i \in TaskIds :
          LET t == tasks[i] IN
          /\ i = issued'[Len(issued')].task =>
               \/ t.status = "pending" /\ t.available_at <= now
               \/ t.status = "leased" /\ t.leased_until <= now
          /\ t.status = "leased" /\ t.leased_until > now => tasks'[i] = t
<1>1. Fenced /\ [StoreNext]_storeVars => [InTime]_storeVars
  <2> SUFFICES ASSUME Fenced, [StoreNext]_storeVars, Len(issued') > Len(issued),
                      NEW i \in TaskIds
               PROVE  LET t == tasks[i] IN
                      /\ i = issued'[Len(issued')].task =>
                           \/ t.status = "pending" /\ t.available_at <= now
                           \/ t.status = "leased" /\ t.leased_until <= now
                      /\ t.status = "leased" /\ t.leased_until > now => tasks'[i] = t
    BY Zenon
  <2>1. StoreTypeOK /\ Len(issued) \in Nat
    BY IssuedFacts DEF Fenced
  <2>2. PICK q \in Queues, secs \in LeaseTimes, g \in TaskIds : LeaseGranted(q, secs, g)
    BY <2>1, OnlyLeaseGrants
  <2> QED
    BY <2>1, <2>2, GrantInTime, Zenon
<1> QED
  BY <1>1, FencedAlways, PTL DEF StoreSpec, NoEarlyDelivery

-------------------------------------------------------------------------------
(* The store under the workers *)

\* No step but an ack completes a task.
CompletesNothing ==
  \A i \in TaskIds : tasks'[i].status = "succeeded" => tasks[i].status = "succeeded"

\* What is completed stays so.
CompletedStays ==
  \A i \in TaskIds : tasks[i].status = "succeeded" => tasks'[i].status = "succeeded"

\* No step of the store undoes an ack.
LEMMA SucceededIsFinal ==
  ASSUME StoreTypeOK, [StoreNext]_storeVars PROVE CompletedStays
  <1> SUFFICES ASSUME NEW i \in TaskIds, tasks[i].status = "succeeded"
               PROVE  tasks'[i].status = "succeeded"
    BY DEF CompletedStays
  <1>1. Seen(tasks[i]) = tasks[i] /\ ~Overdue(tasks[i])
    BY DEF Seen, Overdue
  <1>2. ~Scanned(i) /\ ~Called(i) /\ ~Revived(i) /\ ~Granted(i)
    BY <1>1 DEF Scanned, Called, Revived, Granted
  <1>3. ASSUME Moved(i) PROVE tasks'[i] = tasks[i]
    BY <1>2, <1>3 DEF Moved
  <1>4. Shape
    BY NextShape
  <1>5. CASE CreateShape
    <2>1. PICK n \in TaskIds, q \in Queues, k \in Keys, limit \in AttemptLimits :
            Created(n, q, k, limit) /\ \A j \in TaskIds \ {n} : tasks'[j] = tasks[j]
      BY <1>5 DEF CreateShape
    <2>2. tasks[n].status = "absent"
      BY <2>1 DEF Created, StoreTypeOK
    <2> QED
      BY <2>1, <2>2
  <1>6. CASE MoveShape
    BY <1>3, <1>6 DEF MoveShape
  <1>7. CASE LeaseShape
    BY <1>2, <1>3, <1>7 DEF LeaseShape
  <1> QED
    BY <1>4, <1>5, <1>6, <1>7 DEF Shape

\* A lease once lost is not held again: the token of a later lease is another.
LEMMA HoldsOnlyBefore ==
  ASSUME Fenced, [StoreNext]_storeVars, NEW l \in DOMAIN issued, NEW i \in TaskIds,
         tasks'[i].status = "leased", tasks'[i].lease_token = l
  PROVE  Holds(i, l)
  <1>0. /\ StoreTypeOK /\ NewestLeaseRules /\ Len(issued) \in Nat
        /\ l \in 1..Len(issued) /\ Shape
    BY IssuedFacts, NextShape DEF Fenced
  <1>1. ASSUME Moved(i) PROVE Holds(i, l)
    <2>1. tasks[i].status = "leased" /\ tasks'[i].lease_token = tasks[i].lease_token
      BY <1>0, <1>1, MovedFacts
    <2> QED
      BY <2>1 DEF Holds
  <1>2. ~Granted(i)
    <2>1. Granted(i) => tasks'[i].lease_token = Len(issued) + 1
      BY <1>0, GrantedFacts
    <2> QED
      BY <1>0, <2>1
  <1>3. CASE CreateShape
    <2>1. PICK n \in TaskIds, q \in Queues, k \in Keys, limit \in AttemptLimits :
            Created(n, q, k, limit) /\ \A j \in TaskIds \ {n} : tasks'[j] = tasks[j]
      BY <1>3 DEF CreateShape
    <2>2. tasks'[n].status = "pending"
      <3>1. limit \in Nat /\ now \in Nat
        BY <1>0, StoreAssumption DEF StoreTypeOK
      <3>2. tasks'[n] = NewTask(q, k, limit)
        BY <2>1 DEF Created
      <3> QED
        BY <3>1, <3>2, NewTaskFacts
    <2>3. Moved(i)
      BY <2>1, <2>2 DEF Moved
    <2> QED
      BY <1>1, <2>3
  <1>4. CASE MoveShape
    BY <1>1, <1>4 DEF MoveShape
  <1>5. CASE LeaseShape
    BY <1>1, <1>2, <1>5 DEF LeaseShape
  <1> QED
    BY <1>0, <1>3, <1>4, <1>5 DEF Shape

\* What lease() reclaims or buries is not completed by it.
LEMMA ScanCompletesNothing ==
  ASSUME StoreTypeOK, NEW q \in Queues, NEW i \in TaskIds
  PROVE  /\ Reclaimed(q)[i] \in Task
         /\ Reclaimed(q)[i].status = "succeeded" => tasks[i].status = "succeeded"
  <1>1. tasks[i] \in Task /\ now \in Nat
    BY DEF StoreTypeOK
  <1>2. Reclaim(tasks[i]) \in Task /\ Reclaim(tasks[i]).status = "pending"
    BY <1>1, ReclaimFacts DEF SameIdentity
  <1>3. Reclaimed(q)[i] = tasks[i] \/ Reclaimed(q)[i] = Reclaim(tasks[i])
    BY ScanShape
  <1> QED
    BY <1>1, <1>2, <1>3

\* Nor is what it hands out.
LEMMA LeaseCompletesNothing ==
  ASSUME StoreTypeOK, NEW q \in Queues, NEW secs \in LeaseTimes, NEW g \in TaskIds,
         LeaseGranted(q, secs, g) \/ LeaseNone(q)
  PROVE  CompletesNothing
  <1> SUFFICES ASSUME NEW i \in TaskIds, tasks'[i].status = "succeeded"
               PROVE  tasks[i].status = "succeeded"
    BY DEF CompletesNothing
  <1>1. Reclaimed(q)[i] \in Task
    BY ScanCompletesNothing
  <1>2. secs \in Nat /\ now \in Nat /\ Len(issued) \in Nat
    BY StoreAssumption, IssuedFacts DEF StoreTypeOK
  <1>3. /\ Bury(Reclaimed(q)[i]).status = "dead_letter"
        /\ Grant(Reclaimed(q)[i], secs).status = "leased"
    BY <1>1, <1>2, BuryFacts, GrantFacts
  <1>4. tasks'[i] \in {Grant(Reclaimed(q)[i], secs), Bury(Reclaimed(q)[i]), Reclaimed(q)[i]}
    BY DEF LeaseGranted, LeaseNone
  <1> QED
    BY <1>3, <1>4, ScanCompletesNothing

\* So do submissions, failures, saves, heartbeats and the revival of dead letters.
LEMMA CallsCompleteNothing ==
  ASSUME StoreTypeOK, NEW i \in TaskIds, NEW l \in Nat,
         \/ \E q \in Queues, k \in Keys, limit \in AttemptLimits : Submit(q, k, limit)
         \/ \E reset \in BOOLEAN : RequeueDeadLetter(i, reset)
         \/ \E delay \in RetryDelays : Fail(i, l, delay)
         \/ \E saved \in SUBSET Fields \ {{}} : Checkpoint(i, l, saved)
         \/ \E secs \in LeaseTimes : Heartbeat(i, l, secs)
  PROVE  CompletesNothing
  <1> USE DEF CompletesNothing
  <1>0. tasks[i] \in Task /\ now \in Nat /\ tasks \in [TaskIds -> Task]
    BY DEF StoreTypeOK
  <1>1. ASSUME NEW t, tasks' = [tasks EXCEPT ![i] = t],
               t.status = "succeeded" => tasks[i].status = "succeeded"
        PROVE  CompletesNothing
    BY <1>0, <1>1
  <1>2. ASSUME NEW q \in Queues, NEW k \in Keys, NEW limit \in AttemptLimits, Submit(q, k, limit)
        PROVE  CompletesNothing
    <2>1. limit \in Nat
      BY StoreAssumption
    <2>2. NewTask(q, k, limit).status = "pending"
      BY <1>0, <2>1, NewTaskFacts
    <2> QED
      BY <1>0, <1>2, <2>2 DEF Submit
  <1>3. ASSUME NEW reset \in BOOLEAN, RequeueDeadLetter(i, reset) PROVE CompletesNothing
    <2>1. Revive(tasks[i], reset).status = "pending"
      BY <1>0, ReviveFacts
    <2> QED
      BY <1>1, <1>3, <2>1 DEF RequeueDeadLetter
  <1>4. ASSUME NEW delay \in RetryDelays, Fail(i, l, delay) PROVE CompletesNothing
    <2>1. delay \in Nat
      BY StoreAssumption
    <2>2. Retry(tasks[i], delay).status = "pending" /\ GiveUp(tasks[i]).status = "dead_letter"
      BY <1>0, <2>1, FailFacts
    <2> QED
      BY <1>1, <1>4, <2>2 DEF Fail, Change
  <1>5. ASSUME NEW saved \in SUBSET Fields \ {{}}, Checkpoint(i, l, saved) PROVE CompletesNothing
    <2>1. Merge(tasks[i], l, saved).status = tasks[i].status
      BY <1>0, MergeFacts
    <2> QED
      BY <1>1, <1>5, <2>1 DEF Checkpoint, Change
  <1>6. ASSUME NEW secs \in LeaseTimes, Heartbeat(i, l, secs) PROVE CompletesNothing
    <2>1. secs \in Nat
      BY StoreAssumption
    <2>2. Renew(tasks[i], secs).status = tasks[i].status
      BY <1>0, <2>1, RenewFacts
    <2> QED
      BY <1>1, <1>6, <2>2 DEF Heartbeat, Change
  <1> QED
    BY <1>2, <1>3, <1>4, <1>5, <1>6

-------------------------------------------------------------------------------
(* The invariant *)

Conserved ==
  \A w \in Workers : permits[w] + Cardinality(InFlight(w)) = Concurrency[w]

Successes(i) == {r \in results : r.outcome = "succeeded" /\ issued[r.lease].task = i}

\* One report of success for each completed task, none for another.
Reported ==
  \A i \in TaskIds :
    IF tasks[i].status = "succeeded" THEN \E r \in results : Successes(i) = {r}
    ELSE Successes(i) = {}

\* shutdown() sets _stopping first, and returns when nothing is in flight.
Stopped ==
  \A w \in Workers :
    /\ shutdown[w] # "no" => stopping[w]
    /\ shutdown[w] \in {"clean", "cut"} => InFlight(w) = {}

\* The store no longer answers to a lease whose handler has ended, unless it was
\* cut off.
Settled ==
  \A l \in DOMAIN runs :
    runs[l].phase # "running" /\ shutdown[runs[l].worker] # "cut"
      => ~Holds(issued[l].task, l)

LoopsTyped ==
  /\ loop \in [Workers -> {"looping", "acquiring", "polling", "stopped"}]
  /\ stopping \in [Workers -> BOOLEAN]
  /\ shutdown \in [Workers -> {"no", "draining", "clean", "cut"}]

\* What is known of leases and permits.
RunsTyped ==
  /\ permits \in [Workers -> Nat]
  /\ runs \in Seq([worker : Workers, phase : Live \cup {"over"}])
  /\ Len(runs) = Len(issued)
  /\ \A r \in results : r.lease \in DOMAIN runs

WorkInv ==
  /\ Fenced /\ LoopsTyped /\ RunsTyped
  /\ Conserved /\ Reported /\ Stopped /\ Settled

\* Each lease has its _process task.
LEMMA RunsFacts ==
  ASSUME Fenced, RunsTyped
  PROVE  /\ Len(runs) \in Nat /\ DOMAIN runs = 1..Len(runs) /\ DOMAIN issued = DOMAIN runs
         /\ \A l \in DOMAIN runs : /\ runs[l] \in [worker : Workers, phase : Live \cup {"over"}]
                                   /\ issued[l].task \in TaskIds /\ l \in Nat
         /\ \A w \in Workers : /\ IsFiniteSet(InFlight(w))
                               /\ Cardinality(InFlight(w)) \in Nat
  <1>1. /\ Len(runs) \in Nat /\ DOMAIN runs = 1..Len(runs) /\ DOMAIN issued = DOMAIN runs
        /\ \A l \in DOMAIN issued : issued[l] \in Lease
    BY IssuedFacts DEF Fenced, RunsTyped
  <1>2. \A l \in DOMAIN runs : /\ runs[l] \in [worker : Workers, phase : Live \cup {"over"}]
                               /\ issued[l].task \in TaskIds /\ l \in Nat
    <2> SUFFICES ASSUME NEW l \in DOMAIN runs
                 PROVE  /\ runs[l] \in [worker : Workers, phase : Live \cup {"over"}]
                        /\ issued[l].task \in TaskIds /\ l \in Nat
      OBVIOUS
    <2>1. runs[l] \in [worker : Workers, phase : Live \cup {"over"}]
      <3> DEFINE R == [worker : Workers, phase : Live \cup {"over"}]
      <3>1. runs \in Seq(R) /\ l \in 1..Len(runs)
        BY <1>1 DEF RunsTyped
      <3> HIDE DEF R
      <3>2. runs[l] \in R
        BY <3>1, ElementOfSeq
      <3> QED
        BY <3>2 DEF R
    <2>2. issued[l].task \in TaskIds
      BY <1>1 DEF Lease
    <2> QED
      BY <1>1, <2>1, <2>2
  <1>3. ASSUME NEW w \in Workers
        PROVE  IsFiniteSet(InFlight(w)) /\ Cardinality(InFlight(w)) \in Nat
    <2>1. IsFiniteSet(1..Len(runs))
      BY <1>1, FS_Interval
    <2>2. InFlight(w) \in SUBSET (1..Len(runs))
      BY <1>1 DEF InFlight
    <2> QED
      BY <2>1, <2>2, FS_Subset, FS_CardinalityType
  <1> QED
    BY <1>1, <1>2, <1>3

-------------------------------------------------------------------------------
(* What a step does to the leases and permits *)

Same == UNCHANGED <<runs, permits>> /\ Len(issued') = Len(issued)

Takes(w) ==
  /\ permits[w] > 0 /\ ~stopping[w] /\ UNCHANGED <<stopping, shutdown>>
  /\ permits' = [permits EXCEPT ![w] = @ - 1]
  /\ runs' = Append(runs, [worker |-> w, phase |-> "running"])
  /\ Len(issued') = Len(issued) + 1

\* The handler of l ends with a report still to be emitted, or is over.
Goes(l, phase) ==
  /\ runs[l].phase \in Live
  /\ runs' = [runs EXCEPT ![l].phase = phase]
  /\ permits' = IF phase = "over" THEN [permits EXCEPT ![runs[l].worker] = @ + 1] ELSE permits
  /\ UNCHANGED <<stopping, shutdown>> /\ Len(issued') = Len(issued)

Cuts(w) ==
  /\ shutdown' = [shutdown EXCEPT ![w] = "cut"]
  /\ runs' = [l \in DOMAIN runs |->
                IF l \in InFlight(w) THEN [runs[l] EXCEPT !.phase = "over"] ELSE runs[l]]
  /\ permits' = [permits EXCEPT ![w] = @ + Cardinality(InFlight(w))]
  /\ UNCHANGED <<issued, stopping>>

\* Permits stay conserved under each of them.
LEMMA TakesConserves ==
  ASSUME Fenced, RunsTyped, Conserved, NEW w \in Workers, Takes(w)
  PROVE  /\ permits' \in [Workers -> Nat] /\ Conserved'
         /\ runs' \in Seq([worker : Workers, phase : Live \cup {"over"}])
         /\ Len(runs') = Len(issued')
         /\ \A v \in Workers \ {w} : InFlight(v)' = InFlight(v)
         /\ \A l \in DOMAIN runs : l \in DOMAIN runs' /\ runs'[l] = runs[l]
         /\ \A l \in DOMAIN runs' : l \in DOMAIN runs \/ runs'[l].phase = "running"
  <1> DEFINE n == Len(runs) + 1
  <1>0. /\ Len(runs) \in Nat /\ DOMAIN runs = 1..Len(runs)
        /\ \A v \in Workers : /\ IsFiniteSet(InFlight(v)) /\ Cardinality(InFlight(v)) \in Nat
                              /\ permits[v] \in Nat
        /\ permits \in [Workers -> Nat] /\ Len(runs) = Len(issued)
    BY RunsFacts DEF RunsTyped
  <1>1. /\ [worker |-> w, phase |-> "running"] \in [worker : Workers, phase : Live \cup {"over"}]
        /\ runs' = Append(runs, [worker |-> w, phase |-> "running"])
    BY DEF Live, Takes
  <1>2. /\ runs' \in Seq([worker : Workers, phase : Live \cup {"over"}]) /\ Len(runs') = n
        /\ DOMAIN runs' = 1..n /\ runs'[n] = [worker |-> w, phase |-> "running"]
        /\ \A l \in 1..Len(runs) : runs'[l] = runs[l]
    BY <1>1 DEF RunsTyped
  <1>3. n \notin 1..Len(runs) /\ 1..n = 1..Len(runs) \cup {n}
    BY <1>0
  <1> HIDE DEF n
  <1>4. InFlight(w)' = InFlight(w) \cup {n} /\ n \notin InFlight(w)
    BY <1>0, <1>2, <1>3 DEF InFlight, Live
  <1>5. \A v \in Workers \ {w} : InFlight(v)' = InFlight(v)
    BY <1>0, <1>2, <1>3 DEF InFlight
  <1>6. permits[w] > 0 /\ permits' = [permits EXCEPT ![w] = permits[w] - 1]
    BY DEF Takes
  <1>7. permits' \in [Workers -> Nat]
    BY <1>0, <1>6
  <1>8. Cardinality(InFlight(w)') = Cardinality(InFlight(w)) + 1
    BY <1>0, <1>4, FS_AddElement
  <1>9. Conserved'
    BY <1>0, <1>5, <1>6, <1>8 DEF Conserved
  <1> QED
    BY <1>0, <1>2, <1>3, <1>5, <1>7, <1>9 DEF Takes, n

\* A handler that ends gives its permit back, and has had one.
LEMMA GoesConserves ==
  ASSUME Fenced, RunsTyped, Conserved, NEW l \in DOMAIN runs,
         NEW phase \in {"emitting", "over"}, Goes(l, phase)
  PROVE  /\ permits' \in [Workers -> Nat] /\ Conserved'
         /\ runs' \in Seq([worker : Workers, phase : Live \cup {"over"}])
         /\ Len(runs') = Len(issued') /\ DOMAIN runs' = DOMAIN runs
         /\ \A v \in Workers : InFlight(v)' \subseteq InFlight(v)
         /\ runs'[l] = [runs[l] EXCEPT !.phase = phase]
         /\ \A m \in DOMAIN runs \ {l} : runs'[m] = runs[m]
  <1> PICK w : w = runs[l].worker
    OBVIOUS
  <1>0. /\ Len(runs) \in Nat /\ DOMAIN runs = 1..Len(runs)
        /\ runs[l] \in [worker : Workers, phase : Live \cup {"over"}] /\ runs[l].phase \in Live
        /\ \A v \in Workers : /\ IsFiniteSet(InFlight(v)) /\ Cardinality(InFlight(v)) \in Nat
                              /\ permits[v] \in Nat
        /\ permits \in [Workers -> Nat] /\ Len(runs) = Len(issued)
        /\ w \in Workers
    BY RunsFacts DEF RunsTyped, Goes
  <1>1. /\ [runs[l] EXCEPT !.phase = phase] \in [worker : Workers, phase : Live \cup {"over"}]
        /\ [runs[l] EXCEPT !.phase = phase].worker = runs[l].worker
        /\ [runs[l] EXCEPT !.phase = phase].phase = phase
    BY <1>0 DEF Live
  <1>2. runs' = [runs EXCEPT ![l] = [runs[l] EXCEPT !.phase = phase]]
    BY DEF Goes
  <1>3. /\ runs' \in Seq([worker : Workers, phase : Live \cup {"over"}])
        /\ Len(runs') = Len(runs) /\ DOMAIN runs' = DOMAIN runs
        /\ runs'[l] = [runs[l] EXCEPT !.phase = phase]
        /\ \A m \in DOMAIN runs \ {l} : runs'[m] = runs[m]
    BY <1>1, <1>2 DEF RunsTyped
  <1>4. l \in InFlight(w)
    BY <1>0 DEF InFlight
  <1>5. \A v \in Workers : v # w => InFlight(v)' = InFlight(v)
    BY <1>1, <1>3 DEF InFlight
  <1>6. CASE phase = "over"
    <2>1. InFlight(w)' = InFlight(w) \ {l}
      BY <1>1, <1>3, <1>6 DEF InFlight, Live
    <2>2. Cardinality(InFlight(w)') = Cardinality(InFlight(w)) - 1
      BY <1>0, <1>4, <2>1, FS_RemoveElement
    <2>3. permits' = [permits EXCEPT ![w] = permits[w] + 1]
      BY <1>6 DEF Goes
    <2>4. permits' \in [Workers -> Nat] /\ permits'[w] = permits[w] + 1
      BY <1>0, <2>3
    <2>5. \A v \in Workers \ {w} : permits'[v] = permits[v]
      BY <1>0, <2>3
    <2>6. permits'[w] + Cardinality(InFlight(w)') = Concurrency[w]
      BY <1>0, <2>2, <2>4 DEF Conserved
    <2>7. Conserved'
      BY <1>5, <2>5, <2>6 DEF Conserved
    <2> QED
      BY <1>0, <1>3, <1>5, <2>1, <2>4, <2>7 DEF Goes
  <1>7. CASE phase = "emitting"
    <2>1. InFlight(w)' = InFlight(w)
      BY <1>1, <1>3, <1>4, <1>7 DEF InFlight, Live
    <2>2. permits' = permits
      BY <1>7 DEF Goes
    <2>3. Conserved'
      BY <1>5, <2>1, <2>2 DEF Conserved
    <2> QED
      BY <1>0, <1>3, <1>5, <2>1, <2>2, <2>3 DEF Goes
  <1> QED
    BY <1>6, <1>7

\* A worker that is cut off gives back the permits of all it had in flight.
LEMMA CutsConserves ==
  ASSUME Fenced, RunsTyped, Conserved, NEW w \in Workers, Cuts(w)
  PROVE  /\ permits' \in [Workers -> Nat] /\ Conserved'
         /\ runs' \in Seq([worker : Workers, phase : Live \cup {"over"}])
         /\ Len(runs') = Len(issued') /\ DOMAIN runs' = DOMAIN runs
         /\ InFlight(w)' = {} /\ \A v \in Workers \ {w} : InFlight(v)' = InFlight(v)
         /\ \A l \in DOMAIN runs : /\ runs'[l].worker = runs[l].worker
                                   /\ runs[l].worker # w => runs'[l] = runs[l]
  <1>0. /\ Len(runs) \in Nat /\ DOMAIN runs = 1..Len(runs)
        /\ \A l \in DOMAIN runs : runs[l] \in [worker : Workers, phase : Live \cup {"over"}]
        /\ \A v \in Workers : /\ IsFiniteSet(InFlight(v)) /\ Cardinality(InFlight(v)) \in Nat
                              /\ permits[v] \in Nat
        /\ permits \in [Workers -> Nat] /\ Len(runs) = Len(issued)
    BY RunsFacts DEF RunsTyped
  <1>1. runs' = [l \in 1..Len(runs) |->
                   IF l \in InFlight(w) THEN [runs[l] EXCEPT !.phase = "over"] ELSE runs[l]]
    BY <1>0 DEF Cuts
  <1>2. ASSUME NEW l \in DOMAIN runs
        PROVE  /\ runs'[l] \in [worker : Workers, phase : Live \cup {"over"}]
               /\ runs'[l].worker = runs[l].worker
               /\ runs'[l].phase = IF l \in InFlight(w) THEN "over" ELSE runs[l].phase
               /\ runs[l].worker # w => runs'[l] = runs[l]
    BY <1>0, <1>1 DEF InFlight
  <1>3. runs' \in Seq([worker : Workers, phase : Live \cup {"over"}]) /\ DOMAIN runs' = DOMAIN runs
    BY <1>0, <1>1, <1>2
  <1>4. Len(runs') = Len(runs)
    BY <1>0, <1>3
  <1>5. InFlight(w)' = {} /\ \A v \in Workers \ {w} : InFlight(v)' = InFlight(v)
    BY <1>2, <1>3 DEF InFlight, Live
  <1>6. permits' = [permits EXCEPT ![w] = permits[w] + Cardinality(InFlight(w))]
    BY DEF Cuts
  <1>7. Cardinality(InFlight(w)') = 0
    BY <1>5, FS_EmptySet
  <1>8. permits' \in [Workers -> Nat]
    BY <1>0, <1>6
  <1>9. Conserved'
    <2>1. permits'[w] = permits[w] + Cardinality(InFlight(w)) + Cardinality(InFlight(w)')
      BY <1>0, <1>6, <1>7
    <2>2. \A v \in Workers \ {w} : permits'[v] = permits[v]
      BY <1>0, <1>6
    <2>3. permits'[w] + Cardinality(InFlight(w)') = Concurrency[w]
      BY <1>0, <1>7, <2>1 DEF Conserved
    <2> QED
      BY <1>5, <2>2, <2>3 DEF Conserved
  <1> QED
    BY <1>0, <1>2, <1>3, <1>4, <1>5, <1>8, <1>9 DEF Cuts

-------------------------------------------------------------------------------
(* The workers' steps *)

\* Whatever the workers do, the store does one of its own steps or none.
LEMMA WorkersStepTheStore ==
  ASSUME Fenced, RunsTyped, [Next]_vars PROVE [StoreNext]_storeVars
  <1>0. DOMAIN runs = DOMAIN issued
    BY RunsFacts
  <1>1. ASSUME NEW w \in Workers, Loop(w) PROVE [StoreNext]_storeVars
    <2>1. CASE PollEnds(w) \/ LoopStops(w) \/ LoopWaits(w)
      BY <2>1 DEF PollEnds, LoopStops, LoopWaits
    <2>2. CASE LoopLeases(w)
      BY <2>2, WorkerAssumption DEF LoopLeases, StoreNext
    <2>3. CASE LoopIdles(w)
      BY <2>3, WorkerAssumption DEF LoopIdles, StoreNext
    <2> QED
      BY <1>1, <2>1, <2>2, <2>3 DEF Loop
  <1>2. ASSUME NEW l \in DOMAIN runs, Handler(l) \/ HandlerSaves(l) \/ HandlerBeats(l)
        PROVE  [StoreNext]_storeVars
    <2>1. CASE HandlerReturns(l)
      BY <1>0, <2>1 DEF HandlerReturns, StoreNext, CallerActs
    <2>2. CASE HandlerRaises(l)
      BY <1>0, <2>2 DEF HandlerRaises, StoreNext, CallerActs
    <2>3. CASE EmitEnds(l)
      BY <2>3 DEF EmitEnds
    <2>4. CASE HandlerSaves(l)
      BY <1>0, <2>4 DEF HandlerSaves, StoreNext, CallerActs
    <2>5. CASE HandlerBeats(l)
      BY <1>0, <2>5 DEF HandlerBeats, StoreNext, CallerActs
    <2> QED
      BY <1>2, <2>1, <2>2, <2>3, <2>4, <2>5 DEF Handler
  <1>3. ASSUME NEW w \in Workers, Shutdown(w) \/ DrainEnds(w) \/ DrainTimesOut(w) \/ LoopCancelled(w)
        PROVE  [StoreNext]_storeVars
    BY <1>3 DEF Shutdown, DrainEnds, DrainTimesOut, LoopCancelled
  <1>4. CASE Clients
    BY <1>4, WorkerAssumption DEF Clients, StoreNext
  <1>5. CASE Time \/ UNCHANGED vars
    BY <1>5 DEF Time, vars, StoreNext
  <1> QED
    BY <1>1, <1>2, <1>3, <1>4, <1>5, WorkerAssumption DEF Next

\* A lease stays what it was, and once its task is not held under it, never is.
LEMMA OldLeasesStay ==
  ASSUME Fenced, RunsTyped, [StoreNext]_storeVars
  PROVE  \A l \in DOMAIN runs :
           /\ l \in DOMAIN issued' /\ issued'[l] = issued[l]
           /\ ~Holds(issued[l].task, l) => ~Holds(issued[l].task, l)'
  <1>1. DOMAIN runs = DOMAIN issued /\ Shape /\ StoreTypeOK
        /\ Len(issued) \in Nat /\ DOMAIN issued = 1..Len(issued)
        /\ \A l \in DOMAIN runs : issued[l].task \in TaskIds
    BY RunsFacts, NextShape, IssuedFacts DEF Fenced
  <1>2. issued' = issued \/ \E r \in Lease : issued' = Append(issued, r)
    <2>1. CASE LeaseShape
      <3>1. PICK g \in TaskIds : Granted(g)
        BY <2>1 DEF LeaseShape
      <3> QED
        BY <1>1, <3>1, GrantedFacts DEF Fenced
    <2> QED
      BY <1>1, <2>1 DEF Shape, CreateShape, MoveShape
  <1>3. \A l \in DOMAIN issued : l \in DOMAIN issued' /\ issued'[l] = issued[l]
    BY <1>1, <1>2 DEF StoreTypeOK
  <1>4. ASSUME NEW l \in DOMAIN runs, ~Holds(issued[l].task, l)
        PROVE  ~Holds(issued[l].task, l)'
    <2>1. PICK i \in TaskIds : i = issued[l].task
      BY <1>1
    <2>2. l \in DOMAIN issued /\ ~Holds(i, l)
      BY <1>1, <1>4, <2>1
    <2>3. ~(tasks'[i].status = "leased" /\ tasks'[i].lease_token = l)
      BY <2>2, HoldsOnlyBefore
    <2>4. issued'[l].task = i
      BY <1>3, <2>1, <2>2
    <2> QED
      BY <2>3, <2>4 DEF Holds
  <1> QED
    BY <1>1, <1>3, <1>4

\* The reports stay right while no success is reported and none comes about.
LEMMA ReportsStay ==
  ASSUME Fenced, RunsTyped, Reported, [StoreNext]_storeVars, CompletesNothing,
         {r \in results' : r.outcome = "succeeded"} = {r \in results : r.outcome = "succeeded"}
  PROVE  Reported'
  <1>1. /\ CompletedStays /\ \A l \in DOMAIN runs : issued'[l] = issued[l]
        /\ \A r \in results : r.lease \in DOMAIN runs
    BY SucceededIsFinal, OldLeasesStay DEF Fenced, RunsTyped
  <1> SUFFICES ASSUME NEW i \in TaskIds
               PROVE  IF tasks'[i].status = "succeeded" THEN \E r \in results' : Successes(i)' = {r}
                      ELSE Successes(i)' = {}
    BY DEF Reported
  <1>2. Successes(i)' = Successes(i)
    BY <1>1 DEF Successes
  <1>3. tasks'[i].status = "succeeded" <=> tasks[i].status = "succeeded"
    BY <1>1 DEF CompletesNothing, CompletedStays
  <1>4. IF tasks[i].status = "succeeded" THEN \E r \in results : Successes(i) = {r}
        ELSE Successes(i) = {}
    BY DEF Reported
  <1>5. \A r : Successes(i) = {r} => r \in results'
    BY DEF Successes
  <1> QED
    BY <1>2, <1>3, <1>4, <1>5

\* Each loop stands where run() can stand, and shutdown() sets _stopping first.
LEMMA LoopsKept ==
  ASSUME LoopsTyped, Stopped, [Next]_vars
  PROVE  /\ LoopsTyped' /\ \A w \in Workers : shutdown'[w] # "no" => stopping'[w]
         /\ \A w \in Workers : shutdown[w] = "cut" => shutdown'[w] = "cut"
  <1> USE DEF LoopsTyped, Stopped
  <1>1. ASSUME NEW w \in Workers,
               \/ PollEnds(w) \/ LoopStops(w) \/ LoopWaits(w) \/ LoopLeases(w)
               \/ LoopIdles(w) \/ LoopCancelled(w)
        PROVE  /\ \E where \in {"looping", "acquiring", "polling", "stopped"} :
                    loop' = [loop EXCEPT ![w] = where]
               /\ UNCHANGED <<stopping, shutdown>>
    BY <1>1 DEF PollEnds, LoopStops, LoopWaits, LoopLeases, LoopIdles, LoopCancelled
  <1>2. ASSUME NEW l \in DOMAIN runs, Handler(l) \/ HandlerSaves(l) \/ HandlerBeats(l)
        PROVE  UNCHANGED <<loop, stopping, shutdown>>
    BY <1>2 DEF Handler, HandlerReturns, HandlerRaises, EmitEnds, HandlerSaves, HandlerBeats, workerVars
  <1>3. ASSUME NEW w \in Workers, Shutdown(w) \/ DrainEnds(w) \/ DrainTimesOut(w)
        PROVE  /\ UNCHANGED loop
               /\ \E how \in {"draining", "clean", "cut"} :
                    /\ shutdown[w] # "cut" /\ shutdown' = [shutdown EXCEPT ![w] = how]
               /\ \/ stopping' = [stopping EXCEPT ![w] = TRUE]
                  \/ UNCHANGED stopping /\ stopping[w]
    <2>1. CASE Shutdown(w)
      BY <2>1 DEF Shutdown
    <2>2. CASE DrainEnds(w) \/ DrainTimesOut(w)
      BY <2>2 DEF DrainEnds, DrainTimesOut
    <2> QED
      BY <1>3, <2>1, <2>2
  <1>4. CASE Clients \/ Time \/ UNCHANGED vars
    BY <1>4 DEF Clients, Time, vars, workerVars
  <1>5. ASSUME NEW w \in Workers,
               PollEnds(w) \/ LoopStops(w) \/ LoopWaits(w) \/ LoopLeases(w)
               \/ LoopIdles(w) \/ LoopCancelled(w)
        PROVE  /\ LoopsTyped' /\ \A v \in Workers : shutdown'[v] # "no" => stopping'[v]
               /\ \A v \in Workers : shutdown[v] = "cut" => shutdown'[v] = "cut"
    BY <1>1, <1>5
  <1>6. ASSUME NEW w \in Workers, Shutdown(w) \/ DrainEnds(w) \/ DrainTimesOut(w)
        PROVE  /\ LoopsTyped' /\ \A v \in Workers : shutdown'[v] # "no" => stopping'[v]
               /\ \A v \in Workers : shutdown[v] = "cut" => shutdown'[v] = "cut"
    BY <1>3, <1>6
  <1> QED
    BY <1>2, <1>4, <1>5, <1>6, WorkerAssumption DEF Next, Loop

-------------------------------------------------------------------------------
(* Each kind of step keeps the invariant *)

\* What every step brings along.
Underway ==
  /\ [StoreNext]_storeVars /\ LoopsTyped'
  /\ \A w \in Workers : shutdown'[w] # "no" => stopping'[w]
  /\ \A w \in Workers : shutdown[w] = "cut" => shutdown'[w] = "cut"

\* What the store promises holds under the workers.
LEMMA FencedKept == ASSUME Fenced, [StoreNext]_storeVars PROVE Fenced'
  BY NextType, NextFenced DEF Fenced

\* A step that leaves the handlers alone.
LEMMA CalmKept ==
  ASSUME WorkInv, Underway, UNCHANGED <<runs, permits, results>>, Len(issued') = Len(issued),
         CompletesNothing,
         \A w \in Workers : shutdown'[w] \in {"clean", "cut"} => InFlight(w) = {}
  PROVE  WorkInv'
  <1>1. Fenced' /\ LoopsTyped' /\ RunsTyped' /\ Conserved' /\ Reported'
    BY FencedKept, ReportsStay DEF WorkInv, Underway, RunsTyped, Conserved, InFlight
  <1>2. Stopped'
    BY DEF Underway, Stopped, InFlight
  <1>3. Settled'
    <2> SUFFICES ASSUME NEW l \in DOMAIN runs, runs[l].phase # "running",
                        shutdown'[runs[l].worker] # "cut"
                 PROVE  ~Holds(issued[l].task, l)'
      BY DEF Settled
    <2>1. runs[l].worker \in Workers
      BY RunsFacts DEF WorkInv
    <2>2. shutdown[runs[l].worker] # "cut"
      BY <2>1 DEF Underway
    <2>3. ~Holds(issued[l].task, l)
      BY <2>2 DEF WorkInv, Settled
    <2> QED
      BY <2>3, OldLeasesStay DEF WorkInv, Underway
  <1> QED
    BY <1>1, <1>2, <1>3 DEF WorkInv

\* A lease is taken: its worker is not stopping.
LEMMA TakesKept ==
  ASSUME WorkInv, Underway, NEW w \in Workers, Takes(w), UNCHANGED results, CompletesNothing
  PROVE  WorkInv'
  <1>1. /\ permits' \in [Workers -> Nat] /\ Conserved'
        /\ runs' \in Seq([worker : Workers, phase : Live \cup {"over"}])
        /\ Len(runs') = Len(issued')
        /\ \A v \in Workers \ {w} : InFlight(v)' = InFlight(v)
        /\ \A l \in DOMAIN runs : l \in DOMAIN runs' /\ runs'[l] = runs[l]
        /\ \A l \in DOMAIN runs' : l \in DOMAIN runs \/ runs'[l].phase = "running"
    BY TakesConserves DEF WorkInv
  <1>2. RunsTyped'
    BY <1>1 DEF WorkInv, RunsTyped
  <1>3. Fenced' /\ Reported'
    BY FencedKept, ReportsStay DEF WorkInv, Underway
  <1>4. Stopped'
    BY <1>1 DEF Takes, WorkInv, Stopped, LoopsTyped
  <1>5. Settled'
    <2> SUFFICES ASSUME NEW l \in DOMAIN runs', runs'[l].phase # "running",
                        shutdown'[runs'[l].worker] # "cut"
                 PROVE  ~Holds(issued[l].task, l)'
      BY DEF Settled
    <2>1. l \in DOMAIN runs /\ runs'[l] = runs[l] /\ shutdown' = shutdown
      BY <1>1 DEF Takes
    <2>2. ~Holds(issued[l].task, l)
      BY <2>1 DEF WorkInv, Settled
    <2> QED
      BY <2>1, <2>2, OldLeasesStay DEF WorkInv, Underway
  <1> QED
    BY <1>1, <1>2, <1>3, <1>4, <1>5 DEF WorkInv, Underway

\* A handler's call ends: the store does not answer to its lease any more.
LEMMA GoesKept ==
  ASSUME WorkInv, Underway, NEW l \in DOMAIN runs, NEW phase \in {"emitting", "over"},
         Goes(l, phase), Reported', ~Holds(issued[l].task, l)',
         \A r \in results' : r \in results \/ r.lease = l
  PROVE  WorkInv'
  <1>1. /\ permits' \in [Workers -> Nat] /\ Conserved'
        /\ runs' \in Seq([worker : Workers, phase : Live \cup {"over"}])
        /\ Len(runs') = Len(issued') /\ DOMAIN runs' = DOMAIN runs
        /\ \A v \in Workers : InFlight(v)' \subseteq InFlight(v)
        /\ runs'[l] = [runs[l] EXCEPT !.phase = phase]
        /\ \A m \in DOMAIN runs \ {l} : runs'[m] = runs[m]
    BY GoesConserves DEF WorkInv
  <1>2. RunsTyped'
    BY <1>1 DEF WorkInv, RunsTyped
  <1>3. Fenced'
    BY FencedKept DEF WorkInv, Underway
  <1>4. Stopped'
    BY <1>1 DEF Goes, WorkInv, Stopped
  <1>5. Settled'
    <2> SUFFICES ASSUME NEW m \in DOMAIN runs, runs'[m].phase # "running",
                        shutdown'[runs'[m].worker] # "cut"
                 PROVE  ~Holds(issued[m].task, m)'
      BY <1>1 DEF Settled
    <2>1. CASE m = l
      BY <2>1
    <2>2. CASE m # l
      <3>1. runs'[m] = runs[m] /\ shutdown' = shutdown
        BY <1>1, <2>2 DEF Goes
      <3>2. ~Holds(issued[m].task, m)
        BY <3>1 DEF WorkInv, Settled
      <3> QED
        BY <3>2, OldLeasesStay DEF WorkInv, Underway
    <2> QED
      BY <2>1, <2>2
  <1> QED
    BY <1>1, <1>2, <1>3, <1>4, <1>5 DEF WorkInv, Underway

\* The drain times out: what w had in flight is over, whatever became of it.
LEMMA CutsKept ==
  ASSUME WorkInv, Underway, NEW w \in Workers, Cuts(w), UNCHANGED <<storeVars, results>>
  PROVE  WorkInv'
  <1>1. /\ permits' \in [Workers -> Nat] /\ Conserved'
        /\ runs' \in Seq([worker : Workers, phase : Live \cup {"over"}])
        /\ Len(runs') = Len(issued') /\ DOMAIN runs' = DOMAIN runs
        /\ InFlight(w)' = {} /\ \A v \in Workers \ {w} : InFlight(v)' = InFlight(v)
        /\ \A l \in DOMAIN runs : /\ runs'[l].worker = runs[l].worker
                                  /\ runs[l].worker # w => runs'[l] = runs[l]
    BY CutsConserves DEF WorkInv
  <1>2. RunsTyped'
    BY <1>1 DEF WorkInv, RunsTyped
  <1>3. Fenced' /\ Reported'
    <2>1. CompletesNothing
      BY DEF CompletesNothing, storeVars
    <2> QED
      BY <2>1, FencedKept, ReportsStay DEF WorkInv, Underway
  <1>4. shutdown'[w] = "cut" /\ \A v \in Workers \ {w} : shutdown'[v] = shutdown[v]
    BY DEF Cuts, WorkInv, LoopsTyped
  <1>5. Stopped'
    BY <1>1, <1>4 DEF Underway, WorkInv, Stopped
  <1>6. Settled'
    <2> SUFFICES ASSUME NEW l \in DOMAIN runs, runs'[l].phase # "running",
                        shutdown'[runs'[l].worker] # "cut"
                 PROVE  ~Holds(issued[l].task, l)'
      BY <1>1 DEF Settled
    <2>1. runs[l].worker \in Workers /\ runs'[l].worker = runs[l].worker
      BY <1>1, RunsFacts DEF WorkInv
    <2>2. runs[l].worker # w
      BY <1>4, <2>1
    <2>3. runs'[l] = runs[l] /\ shutdown[runs[l].worker] # "cut"
      BY <1>1, <1>4, <2>1, <2>2
    <2>4. ~Holds(issued[l].task, l)
      BY <2>3 DEF WorkInv, Settled
    <2> QED
      BY <2>4, OldLeasesStay DEF WorkInv, Underway
  <1> QED
    BY <1>1, <1>2, <1>3, <1>5, <1>6 DEF WorkInv, Underway

-------------------------------------------------------------------------------
(* The actions *)

\* The ack of a lease that is current: one report for a task that had none.
LEMMA AckReports ==
  ASSUME WorkInv, NEW l \in DOMAIN runs, Ack(issued[l].task, l),
         results' = results \cup {[lease |-> l, outcome |-> "succeeded"]}
  PROVE  Reported' /\ ~Holds(issued[l].task, l)' /\ Len(issued') = Len(issued)
  <1>1. PICK i \in TaskIds : i = issued[l].task
    BY RunsFacts DEF WorkInv
  <1>2. /\ tasks[i].status = "leased" /\ tasks' = [tasks EXCEPT ![i] = Succeed(tasks[i])]
        /\ issued' = issued /\ issued'[l].task = i
    BY <1>1 DEF Ack, Holds, Change
  <1>3. tasks \in [TaskIds -> Task] /\ Succeed(tasks[i]).status = "succeeded"
    BY SucceedFacts DEF WorkInv, Fenced, StoreTypeOK
  <1>4. tasks'[i].status = "succeeded" /\ \A j \in TaskIds \ {i} : tasks'[j] = tasks[j]
    BY <1>2, <1>3
  <1>5. Successes(i)' = {[lease |-> l, outcome |-> "succeeded"]}
    <2>1. Successes(i) = {}
      BY <1>2 DEF WorkInv, Reported
    <2> QED
      BY <1>1, <1>2, <2>1 DEF Successes
  <1>6. \A j \in TaskIds \ {i} : Successes(j)' = Successes(j)
    BY <1>1, <1>2 DEF Successes
  <1>7. ASSUME NEW j \in TaskIds
        PROVE  IF tasks'[j].status = "succeeded" THEN \E r \in results' : Successes(j)' = {r}
               ELSE Successes(j)' = {}
    <2>1. CASE j = i
      BY <1>4, <1>5, <2>1
    <2>2. CASE j # i
      BY <1>4, <1>6, <2>2 DEF WorkInv, Reported
    <2> QED
      BY <2>1, <2>2
  <1>8. ~Holds(issued[l].task, l)'
    BY <1>2, <1>4 DEF Holds
  <1> QED
    BY <1>2, <1>7, <1>8 DEF Reported

\* A failure of a lease that is current: the task waits, or is set aside.
LEMMA FailEnds ==
  ASSUME WorkInv, NEW l \in DOMAIN runs, NEW delay \in RetryDelays,
         Fail(issued[l].task, l, delay)
  PROVE  CompletesNothing /\ ~Holds(issued[l].task, l)' /\ Len(issued') = Len(issued)
  <1>1. PICK i \in TaskIds : i = issued[l].task
    BY RunsFacts DEF WorkInv
  <1>2. l \in Nat /\ Fail(i, l, delay) /\ StoreTypeOK
    BY <1>1, RunsFacts DEF WorkInv, Fenced
  <1>3. tasks \in [TaskIds -> Task] /\ tasks[i] \in Task /\ now \in Nat /\ delay \in Nat
    BY StoreAssumption DEF WorkInv, Fenced, StoreTypeOK
  <1>4. Retry(tasks[i], delay).status = "pending" /\ GiveUp(tasks[i]).status = "dead_letter"
    BY <1>3, FailFacts
  <1>5. /\ tasks'[i].status # "leased" /\ issued' = issued /\ issued'[l].task = i
    BY <1>1, <1>2, <1>3, <1>4 DEF Fail, Change
  <1>6. CompletesNothing
    BY <1>2, CallsCompleteNothing
  <1> QED
    BY <1>5, <1>6 DEF Holds

\* A handler returns, raises, or its result is reported.
LEMMA HandlerKept ==
  ASSUME WorkInv, Underway, NEW l \in DOMAIN runs, Handler(l) PROVE WorkInv'
  <1>0. /\ Fenced /\ RunsTyped /\ Reported /\ [StoreNext]_storeVars
        /\ runs[l].phase \in Live => \A phase : Goes(l, phase) <=>
             /\ runs' = [runs EXCEPT ![l].phase = phase]
             /\ permits' = IF phase = "over" THEN [permits EXCEPT ![runs[l].worker] = @ + 1]
                           ELSE permits
             /\ UNCHANGED <<stopping, shutdown>> /\ Len(issued') = Len(issued)
    BY DEF WorkInv, Underway, Goes
  <1>1. ASSUME Running(l), ~Holds(issued[l].task, l), Over(l),
               UNCHANGED <<storeVars, results, stopping, shutdown>>
        PROVE  WorkInv'
    <2>1. Goes(l, "over")
      BY <1>1 DEF Running, Over, Goes, Live, storeVars
    <2>2. Reported' /\ ~Holds(issued[l].task, l)'
      BY <1>0, <1>1 DEF Reported, Successes, Holds, storeVars
    <2> QED
      BY <1>1, <2>1, <2>2, GoesKept
  <1>2. CASE HandlerReturns(l)
    <2>1. Running(l) /\ UNCHANGED <<stopping, shutdown>>
      BY <1>2 DEF HandlerReturns
    <2>2. CASE Ack(issued[l].task, l) /\ Report(l, "succeeded")
      <3>1. results' = results \cup {[lease |-> l, outcome |-> "succeeded"]}
        BY <2>2 DEF Report
      <3>2. Reported' /\ ~Holds(issued[l].task, l)' /\ Len(issued') = Len(issued)
        BY <2>2, <3>1, AckReports
      <3>3. Goes(l, "emitting")
        BY <2>1, <2>2, <3>2 DEF Running, Report, Goes, Live
      <3> QED
        BY <3>1, <3>2, <3>3, GoesKept
    <2> QED
      BY <1>1, <1>2, <2>1, <2>2 DEF HandlerReturns
  <1>3. CASE HandlerRaises(l)
    <2>1. Running(l) /\ UNCHANGED <<stopping, shutdown>>
      BY <1>3 DEF HandlerRaises
    <2>2. ASSUME NEW delay \in RetryDelays, Fail(issued[l].task, l, delay),
                 NEW outcome \in {"dead_letter", "retrying"}, Report(l, outcome)
          PROVE  WorkInv'
      <3>1. results' = results \cup {[lease |-> l, outcome |-> outcome]}
        BY <2>2 DEF Report
      <3>2. CompletesNothing /\ ~Holds(issued[l].task, l)' /\ Len(issued') = Len(issued)
        BY <2>2, FailEnds
      <3>3. {r \in results' : r.outcome = "succeeded"} = {r \in results : r.outcome = "succeeded"}
        BY <3>1
      <3>4. Reported'
        BY <1>0, <3>2, <3>3, ReportsStay
      <3>5. Goes(l, "emitting")
        BY <2>1, <2>2, <3>2 DEF Running, Report, Goes, Live
      <3> QED
        BY <3>1, <3>2, <3>4, <3>5, GoesKept
    <2> QED
      BY <1>1, <1>3, <2>1, <2>2 DEF HandlerRaises
  <1>4. CASE EmitEnds(l)
    <2>1. /\ runs[l].phase = "emitting" /\ Over(l)
          /\ UNCHANGED <<storeVars, stopping, shutdown, results>>
      BY <1>4 DEF EmitEnds
    <2>2. Goes(l, "over")
      BY <2>1 DEF Over, Goes, Live, storeVars
    <2>3. Reported'
      BY <1>0, <2>1 DEF Reported, Successes, storeVars
    <2>4. shutdown[runs[l].worker] # "cut"
      <3>1. runs[l].worker \in Workers /\ l \in InFlight(runs[l].worker)
        BY <1>0, <2>1, RunsFacts DEF InFlight, Live
      <3> QED
        BY <3>1 DEF WorkInv, Stopped
    <2>5. ~Holds(issued[l].task, l)'
      BY <2>1, <2>4 DEF WorkInv, Settled, Holds, storeVars
    <2> QED
      BY <2>1, <2>2, <2>3, <2>5, GoesKept
  <1> QED
    BY <1>2, <1>3, <1>4 DEF Handler

\* The loop, the shutdown and everybody else.
LEMMA LoopKept ==
  ASSUME WorkInv, Underway, NEW w \in Workers, Loop(w) \/ LoopCancelled(w) PROVE WorkInv'
  <1>0. Fenced /\ StoreTypeOK /\ Stopped
    BY DEF WorkInv, Fenced
  <1>1. CASE PollEnds(w) \/ LoopStops(w) \/ LoopWaits(w) \/ LoopCancelled(w)
    <2>1. UNCHANGED <<storeVars, permits, stopping, shutdown, runs, results>>
      BY <1>1 DEF PollEnds, LoopStops, LoopWaits, LoopCancelled
    <2> QED
      BY <1>0, <2>1, CalmKept DEF storeVars, CompletesNothing, Stopped
  <1>2. CASE LoopIdles(w)
    <2>1. LeaseNone(Queue) /\ UNCHANGED <<permits, stopping, shutdown, runs, results>>
      BY <1>2 DEF LoopIdles
    <2>2. CompletesNothing
      <3> SUFFICES ASSUME NEW i \in TaskIds, tasks'[i].status = "succeeded"
                   PROVE  tasks[i].status = "succeeded"
        BY DEF CompletesNothing
      <3>1. /\ Reclaimed(Queue)[i] \in Task
            /\ Reclaimed(Queue)[i].status = "succeeded" => tasks[i].status = "succeeded"
        BY <1>0, WorkerAssumption, ScanCompletesNothing
      <3>2. Bury(Reclaimed(Queue)[i]).status = "dead_letter"
        BY <3>1, BuryFacts
      <3>3. tasks'[i] \in {Bury(Reclaimed(Queue)[i]), Reclaimed(Queue)[i]}
        BY <2>1 DEF LeaseNone
      <3> QED
        BY <3>1, <3>2, <3>3
    <2>3. Len(issued') = Len(issued)
      BY <2>1 DEF LeaseNone
    <2> QED
      BY <1>0, <2>1, <2>2, <2>3, CalmKept DEF Stopped
  <1>3. CASE LoopLeases(w)
    <2>1. PICK secs \in LeaseTimes, i \in TaskIds : LeaseGranted(Queue, secs, i)
      BY <1>3 DEF LoopLeases
    <2>2. CompletesNothing
      BY <1>0, <2>1, WorkerAssumption, LeaseCompletesNothing
    <2>3. Len(issued') = Len(issued) + 1
      <3>1. issued \in Seq(Lease) /\ \E r : issued' = Append(issued, r)
        BY <1>0, <2>1 DEF LeaseGranted, StoreTypeOK
      <3> QED
        BY <3>1
    <2>4. Takes(w)
      BY <1>3, <2>3 DEF LoopLeases, HasPermit, Takes
    <2> QED
      BY <1>3, <2>2, <2>4, TakesKept DEF LoopLeases
  <1> QED
    BY <1>1, <1>2, <1>3 DEF Loop

\* shutdown() is called, and its drain ends or times out.
LEMMA ShutdownKept ==
  ASSUME WorkInv, Underway, NEW w \in Workers, Shutdown(w) \/ DrainEnds(w) \/ DrainTimesOut(w)
  PROVE  WorkInv'
  <1>0. /\ Stopped /\ shutdown \in [Workers -> {"no", "draining", "clean", "cut"}]
    BY DEF WorkInv, LoopsTyped
  <1>1. CASE Shutdown(w) \/ DrainEnds(w)
    <2>1. /\ UNCHANGED <<storeVars, permits, runs, results>>
          /\ \A v \in Workers : shutdown'[v] \in {"clean", "cut"} => InFlight(v) = {}
      BY <1>0, <1>1 DEF Shutdown, DrainEnds, Stopped
    <2> QED
      BY <2>1, CalmKept DEF storeVars, CompletesNothing
  <1>2. CASE DrainTimesOut(w)
    BY <1>2, CutsKept DEF DrainTimesOut, Cuts, storeVars
  <1> QED
    BY <1>1, <1>2

\* Clients, time, and a handler that saves or beats touch no worker.
LEMMA OthersKept ==
  ASSUME WorkInv, Underway,
         \/ Clients \/ Time \/ UNCHANGED vars
         \/ \E l \in DOMAIN runs : HandlerSaves(l) \/ HandlerBeats(l)
  PROVE  WorkInv'
  <1>0. /\ Fenced /\ StoreTypeOK /\ RunsTyped /\ Stopped
        /\ \A l \in DOMAIN runs : issued[l].task \in TaskIds /\ l \in Nat
    BY RunsFacts DEF WorkInv, Fenced
  <1>1. UNCHANGED workerVars
    BY DEF Clients, Time, vars, HandlerSaves, HandlerBeats
  <1>2. Len(issued') = Len(issued) /\ CompletesNothing
    <2>1. CASE Time \/ UNCHANGED vars
      BY <2>1 DEF Time, Tick, vars, storeVars, CompletesNothing
    <2>2. ASSUME NEW k \in Keys, NEW limit \in AttemptLimits, Submit(Queue, k, limit)
          PROVE  Len(issued') = Len(issued) /\ CompletesNothing
      <3>1. CompletesNothing
        <4>1. limit \in Nat /\ now \in Nat /\ Queue \in Queues /\ tasks \in [TaskIds -> Task]
          BY <1>0, StoreAssumption, WorkerAssumption DEF StoreTypeOK
        <4>2. NewTask(Queue, k, limit).status = "pending"
          BY <4>1, NewTaskFacts
        <4> QED
          BY <2>2, <4>1, <4>2 DEF Submit, CompletesNothing
      <3> QED
        BY <2>2, <3>1 DEF Submit
    <2>3. ASSUME NEW i \in TaskIds, NEW reset \in BOOLEAN, RequeueDeadLetter(i, reset)
          PROVE  Len(issued') = Len(issued) /\ CompletesNothing
      <3>1. 0 \in Nat
        OBVIOUS
      <3>2. CompletesNothing
        BY <1>0, <2>3, <3>1, CallsCompleteNothing
      <3> QED
        BY <2>3, <3>2 DEF RequeueDeadLetter
    <2>4. ASSUME NEW l \in DOMAIN runs, HandlerSaves(l) \/ HandlerBeats(l)
          PROVE  Len(issued') = Len(issued) /\ CompletesNothing
      <3>1. PICK i \in TaskIds : i = issued[l].task
        BY <1>0
      <3>2. \/ \E saved \in SUBSET Fields \ {{}} : Checkpoint(i, l, saved)
            \/ \E secs \in LeaseTimes : Heartbeat(i, l, secs)
        BY <2>4, <3>1 DEF HandlerSaves, HandlerBeats
      <3>3. CompletesNothing
        BY <1>0, <3>2, CallsCompleteNothing
      <3> QED
        BY <3>2, <3>3 DEF Checkpoint, Heartbeat, Change
    <2>5. Clients => \/ \E k \in Keys, limit \in AttemptLimits : Submit(Queue, k, limit)
                     \/ \E i \in TaskIds, reset \in BOOLEAN : RequeueDeadLetter(i, reset)
      BY DEF Clients
    <2> QED
      BY <2>1, <2>2, <2>3, <2>4, <2>5
  <1> QED
    BY <1>0, <1>1, <1>2, CalmKept DEF workerVars, Stopped

\* Every permit is free and nothing is in flight.
LEMMA WorkersStartRight == ASSUME Init PROVE WorkInv
  <1>1. /\ StoreInit /\ loop = [w \in Workers |-> "polling"] /\ permits = Concurrency
        /\ stopping = [w \in Workers |-> FALSE] /\ shutdown = [w \in Workers |-> "no"]
        /\ runs = <<>> /\ results = {} /\ issued = <<>>
        /\ Concurrency \in [Workers -> Nat \ {0}]
    BY WorkerAssumption DEF Init, StoreInit
  <1>2. Fenced
    BY <1>1, InitFenced
  <1>3. LoopsTyped /\ RunsTyped
    <2>1. runs \in Seq([worker : Workers, phase : Live \cup {"over"}]) /\ Len(runs) = Len(issued)
      BY <1>1
    <2>2. permits \in [Workers -> Nat]
      BY <1>1
    <2> QED
      BY <1>1, <2>1, <2>2 DEF LoopsTyped, RunsTyped
  <1>4. \A w \in Workers : InFlight(w) = {}
    BY <1>1 DEF InFlight
  <1>5. Conserved
    <2>1. \A w \in Workers : Cardinality(InFlight(w)) = 0 /\ permits[w] \in Nat
      BY <1>1, <1>4, FS_EmptySet
    <2> QED
      BY <1>1, <2>1 DEF Conserved
  <1>6. Reported
    <2>1. \A i \in TaskIds : tasks[i].status = "absent" /\ Successes(i) = {}
      BY <1>1, AbsentFacts DEF StoreInit, Successes
    <2> QED
      BY <2>1 DEF Reported
  <1>7. Stopped /\ Settled
    BY <1>1, <1>4 DEF Stopped, Settled
  <1> QED
    BY <1>2, <1>3, <1>5, <1>6, <1>7 DEF WorkInv

\* The invariant of workers and store together.
THEOREM WorkInvAlways == Spec => []WorkInv
  <1>1. Init => WorkInv
    BY WorkersStartRight
  <1>2. WorkInv /\ [Next]_vars => WorkInv'
    <2> SUFFICES ASSUME WorkInv, [Next]_vars PROVE WorkInv'
      OBVIOUS
    <2>1. Underway
      BY WorkersStepTheStore, LoopsKept DEF WorkInv, Underway
    <2>2. ASSUME NEW l \in DOMAIN runs, Handler(l) PROVE WorkInv'
      BY <2>1, <2>2, HandlerKept
    <2>3. ASSUME NEW w \in Workers, Loop(w) \/ LoopCancelled(w) PROVE WorkInv'
      BY <2>1, <2>3, LoopKept
    <2>4. ASSUME NEW w \in Workers, Shutdown(w) \/ DrainEnds(w) \/ DrainTimesOut(w) PROVE WorkInv'
      BY <2>1, <2>4, ShutdownKept
    <2>5. ASSUME \/ Clients \/ Time \/ UNCHANGED vars
                 \/ \E l \in DOMAIN runs : HandlerSaves(l) \/ HandlerBeats(l)
          PROVE  WorkInv'
      BY <2>1, <2>5, OthersKept
    <2> QED
      BY <2>2, <2>3, <2>4, <2>5, WorkerAssumption DEF Next
  <1> QED
    BY <1>1, <1>2, PTL DEF Spec

\* Permits are conserved (PermitsConserved; worker.py:85, 97-113, 124-125): each
\* is free or with exactly one handler call in flight.
THEOREM PermitsCorrect == Spec => []PermitsConserved
  <1>1. WorkInv => PermitsConserved
    <2> SUFFICES ASSUME WorkInv PROVE PermitsConserved
      OBVIOUS
    <2>1. ASSUME NEW w \in Workers PROVE permits[w] \in 0..Concurrency[w]
      <3>1. /\ permits[w] \in Nat /\ Cardinality(InFlight(w)) \in Nat
            /\ permits[w] + Cardinality(InFlight(w)) = Concurrency[w]
        BY RunsFacts DEF WorkInv, RunsTyped, Conserved
      <3>2. Concurrency[w] \in Nat
        BY WorkerAssumption
      <3> QED
        BY <3>1, <3>2
    <2> QED
      BY <2>1 DEF WorkInv, PermitsConserved, TypeOK, LoopsTyped, RunsTyped, Conserved, Fenced
  <1> QED
    BY <1>1, WorkInvAlways, PTL

\* A task is SUCCEEDED exactly when one delivery reported it (SuccessReportedOnce;
\* worker.py:127-153), however many handlers ran to the end on it.
THEOREM ReportsCorrect == Spec => []SuccessReportedOnce
  <1>1. WorkInv => SuccessReportedOnce
    <2> SUFFICES ASSUME WorkInv, NEW i \in TaskIds
                 PROVE  Cardinality(Successes(i)) = IF tasks[i].status = "succeeded" THEN 1 ELSE 0
      BY DEF SuccessReportedOnce, Successes
    <2> QED
      BY FS_Singleton, FS_EmptySet DEF WorkInv, Reported
  <1> QED
    BY <1>1, WorkInvAlways, PTL

\* Shutdown settles what it drained (ShutdownSettles; worker.py:95-100, 162-172):
\* nothing is in flight once it has returned, and no lease is left open by one
\* that returned True.
THEOREM ShutdownCorrect == Spec => []ShutdownSettles
  <1>1. WorkInv => ShutdownSettles
    <2> SUFFICES ASSUME WorkInv, NEW w \in Workers
                 PROVE  /\ shutdown[w] \in {"clean", "cut"} => InFlight(w) = {}
                        /\ shutdown[w] = "clean" =>
                             \A l \in DOMAIN runs :
                               runs[l].worker = w => ~Holds(issued[l].task, l)
      BY DEF ShutdownSettles
    <2>1. shutdown[w] \in {"clean", "cut"} => InFlight(w) = {}
      BY DEF WorkInv, Stopped
    <2>2. ASSUME shutdown[w] = "clean", NEW l \in DOMAIN runs, runs[l].worker = w
          PROVE  ~Holds(issued[l].task, l)
      <3>1. runs[l].phase # "running"
        BY <2>1, <2>2 DEF InFlight, Live
      <3> QED
        BY <2>2, <3>1 DEF WorkInv, Settled
    <2> QED
      BY <2>1, <2>2
  <1> QED
    BY <1>1, WorkInvAlways, PTL
===============================================================================
