----------------------------- MODULE TaskWorker -----------------------------
(****************************************************************************)
(* Workers of labs/durable-agent-task-engine (src/task_queue/worker.py)      *)
(* polling one queue of the store of TaskStore, on one asyncio event loop.   *)
(*                                                                           *)
(* Worker.run suspends in two places only: acquiring a permit when none is   *)
(* left, and waiting out the poll interval.  Between them it leases task     *)
(* after task without giving way, so while a worker is "looping" nothing     *)
(* else of the event loop runs; only time passes.                            *)
(*                                                                           *)
(* A handler may save checkpoints, heartbeat, return, raise, or hang; it may *)
(* take any time over it, so that its lease expires while it still runs.  A  *)
(* save or heartbeat the store refuses raises inside the handler and changes *)
(* nothing: the handler then raises or goes on, as it does anyway.           *)
(****************************************************************************)
EXTENDS TaskStore, FiniteSets

CONSTANTS
  Workers,
  Queue,         \* the queue they all poll
  Concurrency,   \* the permits of each worker's semaphore
  Mortal,        \* the workers that may be shut down
  Saving,        \* bound: the leases whose handler saves checkpoints
  Hanging        \* bound: the leases whose handler call need not end by itself

ASSUME WorkerAssumption ==
  /\ Concurrency \in [Workers -> Nat \ {0}] /\ Saving \subseteq Nat /\ Hanging \subseteq Nat
  /\ Queue \in Queues /\ Mortal \subseteq Workers

VARIABLES
  loop,       \* where each worker's run() stands
  permits,    \* _semaphore
  stopping,   \* _stopping
  shutdown,   \* where its shutdown() stands
  runs,       \* the _process task of each lease: whose it is and its phase
  results     \* what the workers reported

workerVars == <<loop, permits, stopping, shutdown, runs, results>>
vars == <<storeVars, workerVars>>

Live == {"running", "emitting"}
\* _in_flight: the lease tokens whose _process task has not ended.
InFlight(w) == {l \in DOMAIN runs : runs[l].worker = w /\ runs[l].phase \in Live}

Quiet == \A w \in Workers : loop[w] # "looping"

Init ==
  /\ StoreInit
  /\ loop = [w \in Workers |-> "polling"]
  /\ permits = Concurrency
  /\ stopping = [w \in Workers |-> FALSE]
  /\ shutdown = [w \in Workers |-> "no"]
  /\ runs = <<>>
  /\ results = {}

-----------------------------------------------------------------------------
\* The poll interval ends, or run() starts: back to the top of the loop.
PollEnds(w) ==
  /\ Quiet /\ loop[w] = "polling"
  /\ loop' = [loop EXCEPT ![w] = "looping"]
  /\ UNCHANGED <<storeVars, permits, stopping, shutdown, runs, results>>

\* The loop condition, or the check after acquire(), sees _stopping.
LoopStops(w) ==
  /\ stopping[w]
  /\ \/ loop[w] = "looping"
     \/ Quiet /\ loop[w] = "acquiring" /\ permits[w] > 0
  /\ loop' = [loop EXCEPT ![w] = "stopped"]
  /\ UNCHANGED <<storeVars, permits, stopping, shutdown, runs, results>>

\* acquire() finds no permit and suspends.
LoopWaits(w) ==
  /\ loop[w] = "looping" /\ ~stopping[w] /\ permits[w] = 0
  /\ loop' = [loop EXCEPT ![w] = "acquiring"]
  /\ UNCHANGED <<storeVars, permits, stopping, shutdown, runs, results>>

\* Slip: _stopping is not looked at again once the permit is there.
HasPermitUnchecked(w) ==
  /\ permits[w] > 0
  /\ loop[w] = "looping" \/ (Quiet /\ loop[w] = "acquiring")

HasPermit(w) ==
  /\ ~stopping[w] /\ permits[w] > 0
  /\ loop[w] = "looping" \/ (Quiet /\ loop[w] = "acquiring")

\* A permit and a lease: the handler is started and the loop goes on.
LoopLeases(w) ==
  /\ HasPermit(w)
  /\ \E secs \in LeaseTimes, i \in TaskIds : LeaseGranted(Queue, secs, i)
  /\ permits' = [permits EXCEPT ![w] = @ - 1]
  /\ runs' = Append(runs, [worker |-> w, phase |-> "running"])
  /\ loop' = [loop EXCEPT ![w] = "looping"]
  /\ UNCHANGED <<stopping, shutdown, results>>

\* Slip: the permit is kept while the loop waits.
LoopIdlesKeeping(w) ==
  /\ HasPermit(w)
  /\ LeaseNone(Queue)
  /\ loop' = [loop EXCEPT ![w] = "polling"]
  /\ permits' = [permits EXCEPT ![w] = @ - 1]
  /\ UNCHANGED <<stopping, shutdown, runs, results>>

\* A permit but nothing to lease: the permit goes back, the loop waits.
LoopIdles(w) ==
  /\ HasPermit(w)
  /\ LeaseNone(Queue)
  /\ loop' = [loop EXCEPT ![w] = "polling"]
  /\ UNCHANGED <<permits, stopping, shutdown, runs, results>>

-----------------------------------------------------------------------------
Running(l) == Quiet /\ l \in DOMAIN runs /\ runs[l].phase = "running"

\* The semaphore is released in _process's finally clause.
Over(l) ==
  /\ runs' = [runs EXCEPT ![l].phase = "over"]
  /\ permits' = [permits EXCEPT ![runs[l].worker] = @ + 1]

\* _emit(): the result is recorded, then on_result may suspend.
Report(l, outcome) ==
  /\ results' = results \cup {[lease |-> l, outcome |-> outcome]}
  /\ runs' = [runs EXCEPT ![l].phase = "emitting"]
  /\ UNCHANGED permits

HandlerSaves(l) ==
  /\ Running(l) /\ l \in Saving
  /\ \E saved \in SUBSET Fields \ {{}} : Checkpoint(issued[l].task, l, saved)
  /\ UNCHANGED workerVars

HandlerBeats(l) ==
  /\ Running(l) /\ now <= MaxTime
  /\ \E secs \in LeaseTimes : Heartbeat(issued[l].task, l, secs)
  /\ UNCHANGED workerVars

\* Slip: success is reported although the ack was refused.
HandlerReturnsRegardless(l) ==
  /\ Running(l)
  /\ Ack(issued[l].task, l) \/ (~Holds(issued[l].task, l) /\ UNCHANGED storeVars)
  /\ Report(l, "succeeded")
  /\ UNCHANGED <<loop, stopping, shutdown>>

\* _on_success(): ack, or LeaseExpiredError and nothing is reported.
HandlerReturns(l) ==
  /\ Running(l)
  /\ \/ Ack(issued[l].task, l) /\ Report(l, "succeeded")
     \/ ~Holds(issued[l].task, l) /\ Over(l) /\ UNCHANGED <<storeVars, results>>
  /\ UNCHANGED <<loop, stopping, shutdown>>

\* _on_failure(): fail, or LeaseExpiredError and nothing is reported.
HandlerRaises(l) ==
  /\ Running(l)
  /\ \/ /\ \E delay \in RetryDelays : Fail(issued[l].task, l, delay)
        /\ Report(l, IF tasks'[issued[l].task].status = "dead_letter"
                     THEN "dead_letter" ELSE "retrying")
     \/ ~Holds(issued[l].task, l) /\ Over(l) /\ UNCHANGED <<storeVars, results>>
  /\ UNCHANGED <<loop, stopping, shutdown>>

EmitEnds(l) ==
  /\ Quiet /\ l \in DOMAIN runs /\ runs[l].phase = "emitting"
  /\ Over(l)
  /\ UNCHANGED <<storeVars, loop, stopping, shutdown, results>>

-----------------------------------------------------------------------------
\* shutdown(): no new leases; with nothing in flight it returns at once.
Shutdown(w) ==
  /\ Quiet /\ shutdown[w] = "no"
  /\ stopping' = [stopping EXCEPT ![w] = TRUE]
  /\ shutdown' = [shutdown EXCEPT ![w] = IF InFlight(w) = {} THEN "clean" ELSE "draining"]
  /\ UNCHANGED <<storeVars, loop, permits, runs, results>>

\* gather() is done: shutdown() returns True.
DrainEnds(w) ==
  /\ Quiet /\ shutdown[w] = "draining" /\ InFlight(w) = {}
  /\ shutdown' = [shutdown EXCEPT ![w] = "clean"]
  /\ UNCHANGED <<storeVars, loop, permits, stopping, runs, results>>

\* The timeout cancels gather() and so every _process task: CancelledError is
\* not an Exception, so nothing is acked or failed, and each permit goes back.
DrainTimesOut(w) ==
  /\ Quiet /\ shutdown[w] = "draining" /\ InFlight(w) # {}
  /\ shutdown' = [shutdown EXCEPT ![w] = "cut"]
  /\ runs' = [l \in DOMAIN runs |->
                IF l \in InFlight(w) THEN [runs[l] EXCEPT !.phase = "over"] ELSE runs[l]]
  /\ permits' = [permits EXCEPT ![w] = @ + Cardinality(InFlight(w))]
  /\ UNCHANGED <<storeVars, loop, stopping, results>>

\* app.py cancels the run() task once shutdown() has returned.
LoopCancelled(w) ==
  /\ Quiet /\ shutdown[w] \in {"clean", "cut"}
  /\ loop[w] \in {"acquiring", "polling"}
  /\ loop' = [loop EXCEPT ![w] = "stopped"]
  /\ UNCHANGED <<storeVars, permits, stopping, shutdown, runs, results>>

-----------------------------------------------------------------------------
Loop(w) ==
  PollEnds(w) \/ LoopStops(w) \/ LoopWaits(w) \/ LoopLeases(w) \/ LoopIdles(w)

Handler(l) == HandlerReturns(l) \/ HandlerRaises(l) \/ EmitEnds(l)

Clients ==
  /\ \/ \E k \in Keys, limit \in AttemptLimits : Submit(Queue, k, limit)
     \/ \E i \in TaskIds, reset \in BOOLEAN : RequeueDeadLetter(i, reset)
  /\ Quiet
  /\ UNCHANGED workerVars

Time == Tick /\ UNCHANGED workerVars

Next ==
  \/ \E w \in Workers : Loop(w)
  \/ \E l \in DOMAIN runs :
       Handler(l) \/ HandlerSaves(l) \/ HandlerBeats(l)
  \/ \E w \in Mortal : Shutdown(w)
  \/ \E w \in Workers : DrainEnds(w) \/ DrainTimesOut(w) \/ LoopCancelled(w)
  \/ Clients
  \/ Time

Spec == Init /\ [][Next]_vars

\* The event loop runs whatever is ready, timers fire, time goes on, and a
\* handler ends, except those of Hanging: they may await for ever, as there is
\* no handler timeout.  Nobody has to submit, requeue, save, heartbeat or shut
\* down.
Fairness ==
  /\ \A w \in Workers : WF_vars(Loop(w))
  /\ \A w \in Workers : WF_vars(\E l \in InFlight(w) \ Hanging : Handler(l))
  /\ \A w \in Workers : WF_vars(DrainEnds(w) \/ DrainTimesOut(w))
  /\ \A w \in Workers : WF_vars(LoopCancelled(w))
  /\ WF_vars(Time)

FairSpec == Spec /\ Fairness

-----------------------------------------------------------------------------
\* Every variable has its type, and each lease has its _process task.
TypeOK ==
  /\ StoreTypeOK
  /\ loop \in [Workers -> {"looping", "acquiring", "polling", "stopped"}]
  /\ \A w \in Workers : permits[w] \in 0..Concurrency[w]
  /\ stopping \in [Workers -> BOOLEAN]
  /\ shutdown \in [Workers -> {"no", "draining", "clean", "cut"}]
  /\ runs \in Seq([worker : Workers, phase : Live \cup {"over"}])
  /\ Len(runs) = Len(issued)
  /\ \A r \in results : r.lease \in DOMAIN runs

\* Permits (worker.py:85, 97-113, 124-125): in a well-typed state each permit is
\* either free or with exactly one handler call in flight, whatever way calls and
\* shutdowns end.
PermitsConserved ==
  /\ TypeOK
  /\ \A w \in Workers : permits[w] + Cardinality(InFlight(w)) = Concurrency[w]

\* What the workers report agrees with the store (worker.py:127-153): a task is
\* SUCCEEDED exactly when one single delivery of it reported success, although
\* several handlers may have run to the end on it.
SuccessReportedOnce ==
  \A i \in TaskIds :
    Cardinality({r \in results : r.outcome = "succeeded" /\ issued[r.lease].task = i})
      = IF tasks[i].status = "succeeded" THEN 1 ELSE 0

\* Shutdown (worker.py:95-100, 162-172): once shutdown() has returned, the
\* worker has nothing in flight and takes no further lease; and when it returned
\* True, none of its leases is left open: each was acked, failed, or superseded.
ShutdownSettles ==
  \A w \in Workers :
    /\ shutdown[w] \in {"clean", "cut"} => InFlight(w) = {}
    /\ shutdown[w] = "clean" =>
         \A l \in DOMAIN runs : runs[l].worker = w => ~Holds(issued[l].task, l)

\* A worker that is up and not stuck behind handlers that need not end.
Available(w) ==
  ~stopping[w] /\ Cardinality(InFlight(w) \cap Hanging) < Concurrency[w]

\* No task is lost (store.py:21-22, worker.py:64-67): a task that waits or is
\* leased, even by a handler that hangs or by a worker that was cut off, ends as
\* succeeded or dead letter, unless every worker is gone or stuck.
EveryTaskSettles ==
  \A i \in TaskIds :
    tasks[i].status \in {"pending", "leased"}
      ~> \/ tasks[i].status \in {"succeeded", "dead_letter"}
         \/ \A w \in Workers : ~Available(w)
=============================================================================
