-------------------------- MODULE PopularProducts --------------------------
(***************************************************************************)
(* The popular products load test of src/k6/popular-products-test.js.     *)
(*                                                                         *)
(* Each VU GETs /api/products/popular.  A 200 counts in request_success,   *)
(* adds a cache_hit_indicator sample (true when the latency is under       *)
(* 50 ms, spec 9's heuristic) and records three checks: the status, a body *)
(* holding a product array, a response time under 100 ms.  Anything else   *)
(* counts in request_failed, adds a false sample and fails the check       *)
(* 'request failed'.  The response is abstracted to its status, whether    *)
(* its body is a product array, and its latency band.                      *)
(***************************************************************************)
EXTENDS Naturals

CONSTANTS
  VUs,        \* virtual users (model values)
  MaxIters,   \* bound on iterations started
  Faults      \* TRUE: the service may fail and transport may time out

VARIABLES
  pc,        \* per VU: "idle" | "sent" | "replied"
  resp,      \* per VU: [status, products, band]
  iters, running,
  metrics,   \* the counters, the Trend's sample count and the Rate
  checks,    \* check name -> [passes, fails]
  report     \* handleSummary: [printed, total]

vars == <<pc, resp, iters, running, metrics, checks, report>>

(* Latency bands of the two thresholds the script compares with.           *)
Bands == {"under50", "under100", "slow"}
NoResponse == [status |-> 0, products |-> FALSE, band |-> "slow"]
CheckNames == {"status is 200", "has products", "response time < 100ms",
               "request failed"}
NoMetrics == [requestSuccess |-> 0, requestFailed |-> 0, responseLatency |-> 0,
              cacheHitIndicator |-> [trues |-> 0, total |-> 0]]

Sample(rate, b) == [trues |-> rate.trues + (IF b THEN 1 ELSE 0), total |-> rate.total + 1]
Check(c, name, ok) ==
  [c EXCEPT ![name] = IF ok THEN [@ EXCEPT !.passes = @ + 1]
                            ELSE [@ EXCEPT !.fails = @ + 1]]

(* Mutant: cacheHitIndicator.add(0) of the failure branch dropped.         *)
FailureSampleDropped(rate) == rate

(* The failure branch's cacheHitIndicator.add(0).                          *)
FailureSample(rate) == Sample(rate, FALSE)

-----------------------------------------------------------------------------
Init ==
  /\ pc = [v \in VUs |-> "idle"]
  /\ resp = [v \in VUs |-> NoResponse]
  /\ iters = 0 /\ running = TRUE
  /\ metrics = NoMetrics
  /\ checks = [n \in CheckNames |-> [passes |-> 0, fails |-> 0]]
  /\ report = [printed |-> FALSE, total |-> 0]

(* GET /api/products/popular with the default headers.                     *)
SendRequest(v) ==
  /\ running /\ pc[v] = "idle" /\ iters < MaxIters
  /\ pc' = [pc EXCEPT ![v] = "sent"]
  /\ iters' = iters + 1
  /\ UNCHANGED <<resp, running, metrics, checks, report>>

(* The service answers 200, with faults also 500; the body is a product    *)
(* array or not; any band.                                                 *)
ServeRequest(v) ==
  /\ pc[v] = "sent"
  /\ \E s \in (IF Faults THEN {200, 500} ELSE {200}), p \in BOOLEAN, b \in Bands :
       resp' = [resp EXCEPT ![v] = [status |-> s, products |-> p, band |-> b]]
  /\ pc' = [pc EXCEPT ![v] = "replied"]
  /\ UNCHANGED <<iters, running, metrics, checks, report>>

(* The http timeout fires: status 0, a null body.                          *)
Timeout(v) ==
  /\ Faults /\ pc[v] = "sent"
  /\ resp' = [resp EXCEPT ![v] = NoResponse]
  /\ pc' = [pc EXCEPT ![v] = "replied"]
  /\ UNCHANGED <<iters, running, metrics, checks, report>>

(* Lines 51-82: responseLatency.add, then the success or failure branch.   *)
HandleResponse(v) ==
  LET r == resp[v] IN
  /\ pc[v] = "replied"
  /\ IF r.status = 200
     THEN /\ metrics' = [metrics EXCEPT
                !.responseLatency = @ + 1, !.requestSuccess = @ + 1,
                !.cacheHitIndicator = Sample(@, r.band = "under50")]
          /\ checks' = Check(Check(Check(checks, "status is 200", TRUE),
                                   "has products", r.products),
                             "response time < 100ms", r.band # "slow")
     ELSE /\ metrics' = [metrics EXCEPT
                !.responseLatency = @ + 1, !.requestFailed = @ + 1,
                !.cacheHitIndicator = FailureSample(@)]
          /\ checks' = Check(checks, "request failed", FALSE)
  /\ pc' = [pc EXCEPT ![v] = "idle"]
  /\ resp' = [resp EXCEPT ![v] = NoResponse]
  /\ UNCHANGED <<iters, running, report>>

(* The stages elapse: no iteration starts after this.                      *)
EndRun ==
  /\ running /\ running' = FALSE
  /\ UNCHANGED <<pc, resp, iters, metrics, checks, report>>

(* handleSummary, once every VU is idle: total = success + failed.         *)
handleSummary ==
  /\ ~running /\ ~report.printed /\ \A v \in VUs : pc[v] = "idle"
  /\ report' = [printed |-> TRUE,
                total |-> metrics.requestSuccess + metrics.requestFailed]
  /\ UNCHANGED <<pc, resp, iters, running, metrics, checks>>

Finished == report.printed /\ UNCHANGED vars

Next ==
  \/ \E v \in VUs : SendRequest(v) \/ ServeRequest(v) \/ Timeout(v) \/ HandleResponse(v)
  \/ EndRun \/ handleSummary \/ Finished

Spec == Init /\ [][Next]_vars

-----------------------------------------------------------------------------
TypeOK ==
  /\ pc \in [VUs -> {"idle", "sent", "replied"}]
  /\ resp \in [VUs -> [status : {0, 200, 500}, products : BOOLEAN, band : Bands]]
  /\ iters \in 0..MaxIters

(* Every finished iteration, either branch, leaves one cache_hit_indicator *)
(* sample and one latency sample, so the printed hit rate is over all      *)
(* requests and "총 요청" (total requests) is their number; a true sample  *)
(* is always a counted success.                                            *)
EveryRequestSampled ==
  LET m == metrics IN
  /\ m.cacheHitIndicator.total = m.requestSuccess + m.requestFailed
  /\ m.responseLatency = m.cacheHitIndicator.total
  /\ m.cacheHitIndicator.trues <= m.requestSuccess
  /\ report.printed => report.total = iters

=============================================================================
