--------------------- MODULE RealisticPopularProducts ---------------------
(***************************************************************************)
(* The popular products run of src/k6/realistic-popular-products.js.      *)
(*                                                                         *)
(* background_traffic (constant-vus) GETs the product list or a random     *)
(* product and counts its 200s in bg_success.  popular_products_load       *)
(* (ramping-vus, from 10 s) GETs /api/products/top: a 200 counts in        *)
(* popular_success, and also in cache_hit when its latency is under 10 ms  *)
(* (spec 9: a heuristic); anything else counts in popular_failure.         *)
(* handleSummary prints the hit rate hits / popSuccess * 100, 0 when no    *)
(* request succeeded, and a verdict.  The responses carry whether their    *)
(* latency is under the 10 ms threshold ("fast"); the service keeps no     *)
(* state the script reads.                                                 *)
(***************************************************************************)
EXTENDS Naturals

CONSTANTS
  PopularVUs,   \* the popular_products_load VUs (model values)
  MaxIters,     \* bound on popular iterations
  BgMaxIters,   \* bound on background iterations
  Faults        \* TRUE: the service may fail and transport may time out

VARIABLES
  pc,        \* per popular VU: "idle" | "sent" | "replied"
  resp,      \* per popular VU: [status, fast]
  iters,     \* popular iterations started
  bg,        \* the background VU: [pc, status, iters]
  active,    \* scenario -> its stages / duration still running
  metrics,   \* the six custom metrics (Trends by their sample counts)
  report     \* handleSummary: what it prints

vars == <<pc, resp, iters, bg, active, metrics, report>>

Scenarios == {"background_traffic", "popular_products_load"}
NoResponse == [status |-> 0, fast |-> FALSE]
NoMetrics == [bgSuccess |-> 0, bgLatency |-> 0, popularSuccess |-> 0,
              popularFailure |-> 0, popularLatency |-> 0, cacheHit |-> 0]
Verdicts == {"none", "apiError", "cacheWeak", "impacted", "normal"}

(* if (latency < 10) cacheHit.add(1), inside the 200 branch.               *)
CountsAsHit(r) == r.status = 200 /\ r.fast

-----------------------------------------------------------------------------
Init ==
  /\ pc = [v \in PopularVUs |-> "idle"]
  /\ resp = [v \in PopularVUs |-> NoResponse]
  /\ iters = 0
  /\ bg = [pc |-> "idle", status |-> 0, iters |-> 0]
  /\ active = [s \in Scenarios |-> TRUE]
  /\ metrics = NoMetrics
  /\ report = [printed |-> FALSE, popSuccess |-> 0, popFail |-> 0, hits |-> 0,
               verdict |-> "none"]

(* backgroundTraffic: one of the two GETs, drawn at random; its status.    *)
SendBackground ==
  /\ active["background_traffic"] /\ bg.pc = "idle" /\ bg.iters < BgMaxIters
  /\ \E s \in (IF Faults THEN {0, 200, 500} ELSE {200}) :
       bg' = [pc |-> "sent", status |-> s, iters |-> bg.iters + 1]
  /\ UNCHANGED <<pc, resp, iters, active, metrics, report>>

(* bgLatency.add; if (res.status === 200) bgSuccess.add(1); sleep.         *)
HandleBackground ==
  /\ bg.pc = "sent"
  /\ metrics' = [metrics EXCEPT !.bgLatency = @ + 1,
                                !.bgSuccess = @ + (IF bg.status = 200 THEN 1 ELSE 0)]
  /\ bg' = [bg EXCEPT !.pc = "idle", !.status = 0]
  /\ UNCHANGED <<pc, resp, iters, active, report>>

(* popularProductsLoad: GET /api/products/top.                             *)
SendPopular(v) ==
  /\ active["popular_products_load"] /\ pc[v] = "idle" /\ iters < MaxIters
  /\ pc' = [pc EXCEPT ![v] = "sent"]
  /\ iters' = iters + 1
  /\ UNCHANGED <<resp, bg, active, metrics, report>>

(* The service answers 200, or with faults 500, fast or not.               *)
ServePopular(v) ==
  /\ pc[v] = "sent"
  /\ \E s \in (IF Faults THEN {200, 500} ELSE {200}), fast \in BOOLEAN :
       resp' = [resp EXCEPT ![v] = [status |-> s, fast |-> fast]]
  /\ pc' = [pc EXCEPT ![v] = "replied"]
  /\ UNCHANGED <<iters, bg, active, metrics, report>>

(* The http timeout fires: status 0, after 60 s.                           *)
Timeout(v) ==
  /\ Faults /\ pc[v] = "sent"
  /\ resp' = [resp EXCEPT ![v] = NoResponse]
  /\ pc' = [pc EXCEPT ![v] = "replied"]
  /\ UNCHANGED <<iters, bg, active, metrics, report>>

(* Lines 73-84: popularLatency.add; popular_success (and cache_hit when    *)
(* fast) on 200, popular_failure otherwise; sleep.                         *)
HandlePopularResponse(v) ==
  LET r == resp[v]
      ok == r.status = 200
  IN
  /\ pc[v] = "replied"
  /\ metrics' = [metrics EXCEPT
       !.popularLatency = @ + 1,
       !.popularSuccess = @ + (IF ok THEN 1 ELSE 0),
       !.popularFailure = @ + (IF ok THEN 0 ELSE 1),
       !.cacheHit = @ + (IF CountsAsHit(r) THEN 1 ELSE 0)]
  /\ pc' = [pc EXCEPT ![v] = "idle"]
  /\ resp' = [resp EXCEPT ![v] = NoResponse]
  /\ UNCHANGED <<iters, bg, active, report>>

(* A scenario's stages or duration elapse: it starts no more iterations.   *)
EndScenario(s) ==
  /\ active[s] /\ active' = [active EXCEPT ![s] = FALSE]
  /\ UNCHANGED <<pc, resp, iters, bg, metrics, report>>

(* handleSummary, once every VU is idle: the counts, the hit rate (its     *)
(* operands), and the verdict: popFail > 0 first, then !cacheWorking       *)
(* (popP95 < 100 fails), then impacted (bgP95 > 500); the percentiles are  *)
(* not modelled.                                                           *)
handleSummary ==
  /\ \A s \in Scenarios : ~active[s]
  /\ bg.pc = "idle" /\ \A v \in PopularVUs : pc[v] = "idle"
  /\ ~report.printed
  /\ \E cacheWorking, impacted \in BOOLEAN :
       report' = [printed |-> TRUE, popSuccess |-> metrics.popularSuccess,
                  popFail |-> metrics.popularFailure, hits |-> metrics.cacheHit,
                  verdict |-> IF metrics.popularFailure > 0 THEN "apiError"
                              ELSE IF ~cacheWorking THEN "cacheWeak"
                              ELSE IF impacted THEN "impacted" ELSE "normal"]
  /\ UNCHANGED <<pc, resp, iters, bg, active, metrics>>

Finished == report.printed /\ UNCHANGED vars

Next ==
  \/ SendBackground \/ HandleBackground
  \/ \E v \in PopularVUs :
       SendPopular(v) \/ ServePopular(v) \/ Timeout(v) \/ HandlePopularResponse(v)
  \/ \E s \in Scenarios : EndScenario(s)
  \/ handleSummary \/ Finished

Spec == Init /\ [][Next]_vars

-----------------------------------------------------------------------------
TypeOK ==
  /\ pc \in [PopularVUs -> {"idle", "sent", "replied"}]
  /\ resp \in [PopularVUs -> [status : {0, 200, 500}, fast : BOOLEAN]]
  /\ iters \in 0..MaxIters /\ bg.iters \in 0..BgMaxIters
  /\ report.verdict \in Verdicts

=============================================================================
