----------------------------- MODULE CanaryRouter -----------------------------
(***************************************************************************)
(* labs/dynamic-batching-inference: CanaryRouter (router.py) sends each    *)
(* request to a model version by weight, while versions are registered,    *)
(* registered anew, promoted and rolled back.  infer() takes the version's *)
(* batcher and metrics before it waits for the batcher: a generation is    *)
(* what one register() made.  How a batcher answers is DynamicBatcher's.   *)
(***************************************************************************)
EXTENDS Naturals, FiniteSets

CONSTANTS Versions, Requests, NoVersion,
          Weights,           \* what a version may be registered with
          MaxGenerations     \* bound

VARIABLES
  weight,       \* weight[v] of the versions registered
  generation,   \* generation[v]: which register() the version is from, 0 if none
  metrics,      \* metrics[v]: [request_count, error_count] of its generation
  request,      \* [state, version, generation] and what ruled when it started
  registered,   \* number of register() calls
  promoted      \* the version promote() left alone in charge (for the property)
routerVars == <<weight, generation, metrics, request, registered, promoted>>

NoMetrics == [request_count |-> 0, error_count |-> 0]
Idle == [state |-> "idle", version |-> NoVersion, generation |-> 0, ruled |-> NoVersion]
Known == {v \in Versions : generation[v] # 0}
Servable == {v \in Known : weight[v] > 0}

RouterInit ==
  /\ weight = [v \in Versions |-> 0] /\ generation = weight
  /\ metrics = [v \in Versions |-> NoMetrics] /\ request = [r \in Requests |-> Idle]
  /\ registered = 0 /\ promoted = NoVersion

\* register(): version, batcher and metrics are replaced if they exist
Register(v, w) ==
  /\ registered < MaxGenerations /\ registered' = registered + 1
  /\ weight' = [weight EXCEPT ![v] = w]
  /\ generation' = [generation EXCEPT ![v] = registered + 1]
  /\ metrics' = [metrics EXCEPT ![v] = NoMetrics]
  /\ promoted' = IF v # promoted /\ w = 0 THEN promoted ELSE NoVersion
  /\ UNCHANGED request

\* infer() up to its await: the version asked for, or choose_version(), which
\* may pick any that is servable; with none the call raises.
Infers(r, asked) ==
  \E v \in IF asked = NoVersion THEN Servable ELSE {asked} \cap Known :
    /\ request[r] = Idle
    /\ request' = [request EXCEPT ![r] =
         [state |-> "waiting", version |-> v, generation |-> generation[v],
          ruled |-> IF asked = NoVersion THEN promoted ELSE NoVersion]]
    /\ UNCHANGED <<weight, generation, metrics, registered, promoted>>

\* Its end: only an Exception counts as an error, a cancellation counts as
\* nothing.  Metrics of a generation that was replaced are nobody's any more.
CountedByName(v, g, how) ==      \* mutant: looked up again at the end
  IF how = "cancelled" THEN metrics
  ELSE [metrics EXCEPT ![v] =
         [request_count |-> @.request_count + 1,
          error_count |-> IF how = "failed" THEN @.error_count + 1 ELSE @.error_count]]
Counted(v, g, how) ==
  IF how = "cancelled" \/ g # generation[v] THEN metrics
  ELSE [metrics EXCEPT ![v] =
         [request_count |-> @.request_count + 1,
          error_count |-> IF how = "failed" THEN @.error_count + 1 ELSE @.error_count]]
Ends(r, how) ==
  /\ request[r].state = "waiting"
  /\ request' = [request EXCEPT ![r].state = how]
  /\ metrics' = Counted(request[r].version, request[r].generation, how)
  /\ UNCHANGED <<weight, generation, registered, promoted>>

Promote(v) ==
  /\ v \in Known /\ promoted' = v
  /\ weight' = [u \in Versions |-> IF u = v THEN 1 ELSE IF u \in Known THEN 0 ELSE weight[u]]
  /\ UNCHANGED <<generation, metrics, request, registered>>

Rollback(v) ==
  /\ v \in Known /\ weight' = [weight EXCEPT ![v] = 0]
  /\ promoted' = IF v = promoted THEN NoVersion ELSE promoted
  /\ UNCHANGED <<generation, metrics, request, registered>>

RouterNext ==
  \/ \E v \in Versions : Promote(v) \/ Rollback(v) \/ \E w \in Weights : Register(v, w)
  \/ \E r \in Requests : \/ \E asked \in Versions \cup {NoVersion} : Infers(r, asked)
                         \/ \E how \in {"answered", "failed", "cancelled"} : Ends(r, how)
-------------------------------------------------------------------------------
\* What operators see decides on a promotion, so it must be about the version
\* they look at (router.py:68-78): a version's metrics count the requests that
\* were sent to it since it was registered last and have ended, stragglers of
\* the one it replaced left out; and from a promotion on no request goes
\* elsewhere unless it names its version, until a version is registered or the
\* promoted one rolled back (router.py:90-101).
TrafficTold ==
  /\ \A v \in Known :
       LET sent(how) == {r \in Requests : /\ request[r].generation = generation[v]
                                          /\ request[r].state = how}
       IN  metrics[v] = [request_count |-> Cardinality(sent("answered") \cup sent("failed")),
                         error_count |-> Cardinality(sent("failed"))]
  /\ \A r \in Requests : request[r].ruled \in {NoVersion, request[r].version}
===============================================================================
