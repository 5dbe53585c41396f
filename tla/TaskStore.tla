------------------------------ MODULE TaskStore ------------------------------
(****************************************************************************)
(* The durable task store of labs/durable-agent-task-engine                  *)
(* (src/task_queue/store.py).  Every method of InMemoryTaskStore takes the   *)
(* store's asyncio.Lock and suspends nowhere inside it, so each method is    *)
(* one atomic action.  The callers here are arbitrary: any lease that was    *)
(* ever handed out may be presented again, however late, which is what a     *)
(* worker that stalls, is cancelled or wakes up after its lease does.        *)
(*                                                                           *)
(* A call the store refuses (LeaseExpiredError, TaskNotFoundError,           *)
(* TaskQueueStateError) and a repeated submission, which returns the task    *)
(* already there, change nothing: they are stuttering steps.                 *)
(****************************************************************************)
EXTENDS Naturals, Sequences

CONSTANTS
  Queues, Keys,    \* queue names and idempotency keys
  MaxTasks,        \* bound: how many distinct tasks are submitted
  AttemptLimits,   \* the max_attempts a submission may ask for
  LeaseTimes,      \* the lease_seconds a caller may ask for
  RetryDelays,     \* the retry_in_seconds a failing caller may ask for
  Fields,          \* the keys a handler may save in its checkpoint
  MaxTime,         \* bound: the clock once nothing is due, and the last heartbeat
  MaxRequeues      \* bound: how often an operator revives a dead letter

ASSUME StoreAssumption ==
  /\ MaxTasks \in Nat /\ MaxTime \in Nat /\ MaxRequeues \in Nat
  /\ AttemptLimits \subseteq Nat \ {0}
  /\ LeaseTimes \subseteq Nat \ {0}
  /\ RetryDelays \subseteq Nat

TaskIds == 1..MaxTasks
NoTask == 0
NoToken == 0
None == "none"

VARIABLES
  tasks,     \* _tasks: task id -> Task, ids in insertion order
  created,   \* how many ids of TaskIds are in _tasks
  index,     \* _idempotency_index: (queue, key) -> task id
  issued,    \* the Lease objects handed out; a token is a position in it
  now,       \* time.monotonic()
  requeues   \* how many dead letters were revived

storeVars == <<tasks, created, index, issued, now, requeues>>

Statuses == {"pending", "leased", "succeeded", "dead_letter"}

Task ==
  [status: Statuses \cup {"absent"}, queue: Queues \cup {None},
   idempotency_key: Keys \cup {None}, max_attempts: Nat, attempts: Nat,
   available_at: Nat, lease_token: Nat, leased_until: Nat,
   checkpoint: [Fields -> Nat], last_error: {None, "exhausted", "handler"}]

\* What a checkpoint holds of each field: the token of the lease it was last
\* saved under, NoToken if it never was.
EmptyCheckpoint == [f \in Fields |-> NoToken]

AbsentTask ==
  [status |-> "absent", queue |-> None, idempotency_key |-> None,
   max_attempts |-> 0, attempts |-> 0, available_at |-> 0,
   lease_token |-> NoToken, leased_until |-> 0,
   checkpoint |-> EmptyCheckpoint, last_error |-> None]

NewTask(q, k, limit) ==
  [AbsentTask EXCEPT !.status = "pending", !.queue = q, !.idempotency_key = k,
                     !.max_attempts = limit, !.available_at = now]

Lease == [task: TaskIds, attempt: Nat, checkpoint: [Fields -> Nat]]

StoreInit ==
  /\ tasks = [i \in TaskIds |-> AbsentTask]
  /\ created = 0
  /\ index = [slot \in Queues \X Keys |-> NoTask]
  /\ issued = <<>>
  /\ now = 0
  /\ requeues = 0

-----------------------------------------------------------------------------
\* Definitions headed "Slip" are what their neighbour would be with a plausible
\* bug; nothing uses them: they show which property would notice.

\* Slips: submit() does not look the key up, or does not count the new task.
SubmitUnchecked(q, k, limit) ==
  /\ created < MaxTasks
  /\ created' = created + 1
  /\ tasks' = [tasks EXCEPT ![created + 1] = NewTask(q, k, limit)]
  /\ index' = [index EXCEPT ![<<q, k>>] = created + 1]
  /\ UNCHANGED <<issued, now, requeues>>

SubmitUncounted(q, k, limit) ==
  /\ created < MaxTasks
  /\ index[<<q, k>>] = NoTask
  /\ tasks' = [tasks EXCEPT ![created + 1] = NewTask(q, k, limit)]
  /\ index' = [index EXCEPT ![<<q, k>>] = created + 1]
  /\ UNCHANGED <<created, issued, now, requeues>>

\* submit(): a key already used in its queue creates nothing.
Submit(q, k, limit) ==
  /\ created < MaxTasks
  /\ index[<<q, k>>] = NoTask
  /\ created' = created + 1
  /\ tasks' = [tasks EXCEPT ![created + 1] = NewTask(q, k, limit)]
  /\ index' = [index EXCEPT ![<<q, k>>] = created + 1]
  /\ UNCHANGED <<issued, now, requeues>>

\* Slip: a lease counts as expired one tick early.
ExpiredEarly(t, q) ==
  t.queue = q /\ t.status = "leased" /\ t.leased_until <= now + 1

\* _reclaim_expired_locked(): what the scan of lease() makes of one task.
Expired(t, q) ==
  t.queue = q /\ t.status = "leased" /\ t.leased_until <= now

\* Slip: the reclaimed task keeps its token.
ReclaimKeepingToken(t) ==
  [t EXCEPT !.status = "pending", !.available_at = now, !.leased_until = 0]

Reclaim(t) ==
  [t EXCEPT !.status = "pending", !.available_at = now,
            !.lease_token = NoToken, !.leased_until = 0]

\* Slip: lease() does not look for expired leases.
ReclaimedNone(q) == [i \in TaskIds |-> tasks[i]]

Reclaimed(q) ==
  [i \in TaskIds |-> IF Expired(tasks[i], q) THEN Reclaim(tasks[i]) ELSE tasks[i]]

Candidates(ts, q) ==
  {i \in TaskIds : ts[i].queue = q /\ ts[i].status = "pending"
                                   /\ ts[i].available_at <= now}

\* The stable sort by available_at: ties keep insertion order.
Ahead(ts, i, j) ==
  \/ ts[i].available_at < ts[j].available_at
  \/ ts[i].available_at = ts[j].available_at /\ i < j

\* Slip: one delivery too many.
HasBudgetPlusOne(t) == t.attempts <= t.max_attempts

HasBudget(t) == t.attempts < t.max_attempts

Bury(t) ==
  [t EXCEPT !.attempts = @ + 1, !.status = "dead_letter",
            !.last_error = IF @ = None THEN "exhausted" ELSE @]

Grant(t, secs) ==
  [t EXCEPT !.attempts = @ + 1, !.status = "leased",
            !.lease_token = Len(issued) + 1, !.leased_until = now + secs]

\* lease(): reclaim, bury the spent candidates in front, grant the next one.
LeaseGranted(q, secs, i) ==
  LET ts == Reclaimed(q)
      cs == Candidates(ts, q)
  IN  /\ i \in cs /\ HasBudget(ts[i])
      /\ \A j \in cs \ {i} : HasBudget(ts[j]) => Ahead(ts, i, j)
      /\ tasks' = [j \in TaskIds |->
                     IF j = i THEN Grant(ts[j], secs)
                     ELSE IF j \in cs /\ Ahead(ts, j, i) THEN Bury(ts[j])
                     ELSE ts[j]]
      /\ issued' = Append(issued, [task |-> i, attempt |-> ts[i].attempts + 1,
                                   checkpoint |-> ts[i].checkpoint])
      /\ UNCHANGED <<created, index, now, requeues>>

\* lease() with no candidate that has an attempt left: all of them are buried.
LeaseNone(q) ==
  LET ts == Reclaimed(q)
      cs == Candidates(ts, q)
  IN  /\ \A j \in cs : ~HasBudget(ts[j])
      /\ tasks' = [j \in TaskIds |-> IF j \in cs THEN Bury(ts[j]) ELSE ts[j]]
      /\ UNCHANGED <<created, index, issued, now, requeues>>

\* Slip: any token will do while the task is leased.
HoldsAny(i, token) == tasks[i].status = "leased"

\* _require_leased(): the token is compared, the deadline is not.
Holds(i, token) ==
  tasks[i].status = "leased" /\ tasks[i].lease_token = token

\* A call that changes one task and nothing else.
Change(i, t) ==
  /\ tasks' = [tasks EXCEPT ![i] = t]
  /\ UNCHANGED <<created, index, issued, now, requeues>>

Renew(t, secs) == [t EXCEPT !.leased_until = now + secs]

Heartbeat(i, token, secs) == Holds(i, token) /\ Change(i, Renew(tasks[i], secs))

\* checkpoint(): the saved fields are merged over those already there.
Merge(t, token, saved) ==
  [t EXCEPT !.checkpoint =
     [f \in Fields |-> IF f \in saved THEN token ELSE t.checkpoint[f]]]

Checkpoint(i, token, saved) ==
  Holds(i, token) /\ Change(i, Merge(tasks[i], token, saved))

Succeed(t) ==
  [t EXCEPT !.status = "succeeded", !.lease_token = NoToken, !.leased_until = 0]

Ack(i, token) == Holds(i, token) /\ Change(i, Succeed(tasks[i]))

\* fail(): the last attempt goes to the dead letters, the others wait.
Retry(t, delay) ==
  [t EXCEPT !.last_error = "handler", !.lease_token = NoToken,
            !.leased_until = 0, !.status = "pending", !.available_at = now + delay]

GiveUp(t) ==
  [t EXCEPT !.last_error = "handler", !.lease_token = NoToken,
            !.leased_until = 0, !.status = "dead_letter"]

Fail(i, token, delay) ==
  /\ Holds(i, token)
  /\ Change(i, IF HasBudget(tasks[i]) THEN Retry(tasks[i], delay) ELSE GiveUp(tasks[i]))

\* requeue_dead_letter(): the checkpoint and the last error stay.
Revive(t, reset) ==
  [t EXCEPT !.status = "pending", !.available_at = now,
            !.attempts = IF reset THEN 0 ELSE @]

RequeueDeadLetter(i, reset) ==
  /\ requeues < MaxRequeues
  /\ tasks[i].status = "dead_letter"
  /\ tasks' = [tasks EXCEPT ![i] = Revive(tasks[i], reset)]
  /\ requeues' = requeues + 1
  /\ UNCHANGED <<created, index, issued, now>>

\* Time passes while something is due later, and freely up to MaxTime.
SomethingDue ==
  \E i \in TaskIds : \/ tasks[i].status = "leased" /\ tasks[i].leased_until > now
                     \/ tasks[i].status = "pending" /\ tasks[i].available_at > now

Tick ==
  /\ now < MaxTime \/ SomethingDue
  /\ now' = now + 1
  /\ UNCHANGED <<tasks, created, index, issued, requeues>>

-----------------------------------------------------------------------------
\* A call made with a lease handed out earlier, current or stale.
CallerActs ==
  \E token \in DOMAIN issued :
    LET i == issued[token].task IN
    \/ Ack(i, token)
    \/ \E delay \in RetryDelays : Fail(i, token, delay)
    \/ \E saved \in SUBSET Fields \ {{}} : Checkpoint(i, token, saved)
    \/ now <= MaxTime /\ \E secs \in LeaseTimes : Heartbeat(i, token, secs)

StoreNext ==
  \/ \E q \in Queues, k \in Keys, limit \in AttemptLimits : Submit(q, k, limit)
  \/ \E q \in Queues, secs \in LeaseTimes, i \in TaskIds : LeaseGranted(q, secs, i)
  \/ \E q \in Queues : LeaseNone(q)
  \/ CallerActs
  \/ \E i \in TaskIds, reset \in BOOLEAN : RequeueDeadLetter(i, reset)
  \/ Tick

StoreSpec == StoreInit /\ [][StoreNext]_storeVars

-----------------------------------------------------------------------------
\* Every variable has its type; ids are given out in order, without gaps.
StoreTypeOK ==
  /\ tasks \in [TaskIds -> Task]
  /\ created \in 0..MaxTasks
  /\ \A i \in TaskIds : tasks[i].status = "absent" <=> i > created
  /\ index \in [Queues \X Keys -> 0..MaxTasks]
  /\ issued \in Seq(Lease)
  /\ now \in Nat
  /\ requeues \in 0..MaxRequeues

\* Idempotent submission (store.py:19, 40-53): the index and the tasks are
\* inverse to each other, so no two tasks share a queue and a key, and every
\* task can be found again under the key it was submitted with.
IndexFaithful ==
  /\ \A slot \in DOMAIN index : index[slot] # NoTask =>
        /\ index[slot] \in 1..created
        /\ <<tasks[index[slot]].queue, tasks[index[slot]].idempotency_key>> = slot
  /\ \A i \in 1..created :
        /\ <<tasks[i].queue, tasks[i].idempotency_key>> \in DOMAIN index
        /\ index[<<tasks[i].queue, tasks[i].idempotency_key>>] = i

\* Fencing (store.py:20, 182-188): a leased task answers to exactly one of the
\* leases ever issued for it, the newest; that lease carries the attempt number
\* the store counts, within the budget; no other task carries a token at all.
NewestLeaseRules ==
  \A i \in TaskIds :
    LET t == tasks[i] IN
    IF t.status = "leased"
    THEN /\ t.lease_token \in DOMAIN issued
         /\ issued[t.lease_token].task = i
         /\ issued[t.lease_token].attempt = t.attempts
         /\ t.attempts <= t.max_attempts
         /\ \A l \in DOMAIN issued : issued[l].task = i => l <= t.lease_token
    ELSE t.lease_token = NoToken

\* Dead letters (store.py:71-75, 144-145): a task is set aside only once its
\* whole attempt budget is spent, and always with an error that says why.
DeadLetterExplained ==
  \A i \in TaskIds : tasks[i].status = "dead_letter" =>
     /\ tasks[i].attempts >= tasks[i].max_attempts
     /\ tasks[i].last_error # None

\* Checkpoint integrity (store.py:115-119): while a lease is current, each field
\* is what the task's holder was given when it was leased, or what that holder
\* saved since.  A zombie's save would put an older token there.
CheckpointIntegrity ==
  \A i \in TaskIds : tasks[i].status = "leased" =>
     \A f \in Fields : tasks[i].checkpoint[f]
        \in {tasks[i].lease_token, issued[tasks[i].lease_token].checkpoint[f]}

\* Resumption (store.py:99-102): whatever happens between them, a later
\* delivery of a task starts from a checkpoint at least as recent in every
\* field as an earlier one did, and what is stored is more recent still.
CheckpointResumes ==
  \A l \in DOMAIN issued : \A f \in Fields :
     /\ issued[l].checkpoint[f] <= tasks[issued[l].task].checkpoint[f]
     /\ issued[l].checkpoint[f] < l
     /\ \A m \in 1..l : issued[m].task = issued[l].task
                          => issued[m].checkpoint[f] <= issued[l].checkpoint[f]

\* Both, of every delivery: what a task resumes from is what its own holders
\* saved (store.py:99-119).
CheckpointsFollowLeases == CheckpointIntegrity /\ CheckpointResumes

\* Visibility (store.py:61-66, 91-97): a task is handed out only if nobody holds
\* it within its deadline and its retry delay has passed, and the other tasks'
\* unexpired leases survive the scan.
NoEarlyDelivery ==
  [][Len(issued') > Len(issued) =>
       \A i \in TaskIds :
         LET t == tasks[i] IN
         /\ i = issued'[Len(issued')].task =>
              \/ t.status = "pending" /\ t.available_at <= now
              \/ t.status = "leased" /\ t.leased_until <= now
         /\ t.status = "leased" /\ t.leased_until > now => tasks'[i] = t
    ]_storeVars

-----------------------------------------------------------------------------
\* How the store implements TaskLifecycle, task by task.
PhaseOf(t) ==
  CASE t.status = "absent" -> "absent"
    [] t.status = "pending" -> "waiting"
    [] t.status = "leased" -> "held"
    [] t.status = "succeeded" -> "done"
    [] t.status = "dead_letter" -> "dead"

\* lease() goes on counting when it buries a task: attempts then exceeds the
\* deliveries that were made.
DeliveriesOf(t) == IF HasBudget(t) THEN t.attempts ELSE t.max_attempts

TokensOf(i) == {l \in DOMAIN issued : issued[l].task = i}

Life(i) == INSTANCE TaskLifecycle WITH
  Limits <- AttemptLimits,
  phase <- PhaseOf(tasks[i]),
  limit <- tasks[i].max_attempts,
  tries <- DeliveriesOf(tasks[i]),
  holder <- tasks[i].lease_token,
  overdue <- tasks[i].status = "leased" /\ tasks[i].leased_until <= now,
  tokens <- TokensOf(i),
  saved <- tasks[i].checkpoint

\* Every task of the store lives as TaskLifecycle says (store.py:11-24).
\* One step of the store may be a step of several tasks' lives at once.
EveryTaskLives ==
  /\ \A i \in TaskIds : Life(i)!LifeInit
  /\ [][\A i \in TaskIds : Life(i)!LifeNext \/ UNCHANGED Life(i)!lifeVars]_storeVars
=============================================================================
