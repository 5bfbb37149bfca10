------------------------------ MODULE RunAll ------------------------------
(***************************************************************************)
(* The combined run of src/k6/run-all-tests.js.                            *)
(*                                                                         *)
(* options.scenarios declares four scenarios, each with an exec function  *)
(* and a startTime offset; k6 starts each at its offset.  Every scenario   *)
(* is represented by one VU, which loops over its exec function while the  *)
(* scenario is active.  When a scenario's stages (or duration, or          *)
(* maxDuration) are over, an iteration in flight may still finish during   *)
(* k6's gracefulStop / gracefulRampDown (30 s by default) and is           *)
(* interrupted after it, with nothing recorded.                            *)
(*                                                                         *)
(* Time is the clock now, in seconds, advanced in steps of 10 s: every    *)
(* offset and duration of the options is a multiple of 10.  The JS of an  *)
(* iteration between the response and the sleep runs in no time, and the  *)
(* sleeps (at most 1 s) fall within a step.                                *)
(***************************************************************************)
EXTENDS Naturals, FiniteSets, Sequences, SequencesExt

CONSTANTS
  PointIterations,  \* iterations of point_charge (10 in the options)
  MaxIters          \* bound on iterations of each other scenario

VARIABLES
  now,          \* seconds since the start of the test
  pc,           \* per scenario: "idle" | "sent" | "replied"
  sentAt,       \* per scenario: when the request in flight was sent (0 if none)
  resp,         \* per scenario: [status, fast] of the response
  iters,        \* per scenario: iterations started
  totalRequests, totalSuccess, totalFailed,  \* Counter metrics
  overallSuccessRate,                        \* Rate metric: [trues, total]
  checks,       \* check name -> [passes, fails]
  report,       \* handleSummary: [total, success, failed, printed]
  interrupted,  \* history: iterations k6 interrupted at a hard stop
  refusals      \* history: 400/409 answers the service gave couponTest and orderTest

vars == <<now, pc, sentAt, resp, iters, totalRequests, totalSuccess,
          totalFailed, overallSuccessRate, checks, report, interrupted, refusals>>
metrics == <<totalRequests, totalSuccess, totalFailed, overallSuccessRate, checks>>

Step == 10          \* the clock's resolution
GracefulStop == 30  \* k6's default gracefulStop and gracefulRampDown
HttpTimeout == 60   \* k6's default http timeout

NoResponse == [status |-> 0, fast |-> FALSE]

-----------------------------------------------------------------------------
(* Mutant: order_load started at 60s, inside coupon_rush's stages.         *)
scenariosOrderEarly ==
  [coupon_rush |-> [executor |-> "ramping-vus", stages |-> <<10, 20, 30, 10>>,
                    exec |-> "couponTest", startTime |-> 0],
   order_load |-> [executor |-> "ramping-vus", stages |-> <<20, 40, 10>>,
                   exec |-> "orderTest", startTime |-> 60],
   popular_products |-> [executor |-> "constant-vus", duration |-> 60,
                         exec |-> "popularTest", startTime |-> 160],
   point_charge |-> [executor |-> "per-vu-iterations", iterations |-> PointIterations,
                     maxDuration |-> 120, exec |-> "pointTest", startTime |-> 230]]

(* options.scenarios: executor, stage durations / duration / maxDuration,  *)
(* exec and startTime, in seconds (the VU targets are not modelled).       *)
scenarios ==
  [coupon_rush |-> [executor |-> "ramping-vus", stages |-> <<10, 20, 30, 10>>,
                    exec |-> "couponTest", startTime |-> 0],
   order_load |-> [executor |-> "ramping-vus", stages |-> <<20, 40, 10>>,
                   exec |-> "orderTest", startTime |-> 80],
   popular_products |-> [executor |-> "constant-vus", duration |-> 60,
                         exec |-> "popularTest", startTime |-> 160],
   point_charge |-> [executor |-> "per-vu-iterations", iterations |-> PointIterations,
                     maxDuration |-> 120, exec |-> "pointTest", startTime |-> 230]]

Scenarios == DOMAIN scenarios

(* How long a scenario starts iterations, by its executor.                 *)
Duration(s) ==
  LET c == scenarios[s] IN
  CASE c.executor = "ramping-vus"       -> FoldLeft(+, 0, c.stages)
    [] c.executor = "constant-vus"      -> c.duration
    [] c.executor = "per-vu-iterations" -> c.maxDuration

StageEnd(s) == scenarios[s].startTime + Duration(s)
HardStop(s) == StageEnd(s) + GracefulStop

(* Iterations left: per-vu-iterations runs its count, the others are only  *)
(* bounded for the model.                                                  *)
IterationsLeft(s) ==
  IF scenarios[s].executor = "per-vu-iterations"
  THEN iters[s] < scenarios[s].iterations
  ELSE iters[s] < MaxIters

Active(s) ==
  scenarios[s].startTime <= now /\ now < StageEnd(s) /\ IterationsLeft(s)

(* Mutant: a scenario only done after all its iterations.                 *)
ScenarioDoneIterationsOnly(s) ==
  pc[s] = "idle" /\ ~IterationsLeft(s)

(* A scenario is over once its VU is idle and it can start no iteration.   *)
ScenarioDone(s) == pc[s] = "idle" /\ (now >= StageEnd(s) \/ ~IterationsLeft(s))

-----------------------------------------------------------------------------
(* The exec functions' response handling.  couponTest, orderTest and       *)
(* pointTest count 200/201 as success, popularTest 200 only; couponTest    *)
(* and orderTest count 400/409 in no counter but as a true Rate sample.    *)
Succeeded(s, st) ==
  IF scenarios[s].exec = "popularTest" THEN st = 200 ELSE st \in {200, 201}

(* Mutant: a 400/409 handled as any other failure.                        *)
RefusedNever(s, st) == FALSE

Refused(s, st) == scenarios[s].exec \in {"couponTest", "orderTest"} /\ st \in {400, 409}

(* The checks each exec function records: name -> passed.                  *)
CheckResults(s, r) ==
  CASE scenarios[s].exec = "couponTest" -> "coupon response received" :> (r.status # 0)
    [] scenarios[s].exec = "orderTest"  -> "order response received" :> (r.status # 0)
    [] scenarios[s].exec = "pointTest"  -> "point charge response received" :> (r.status # 0)
    [] scenarios[s].exec = "popularTest" ->
         ("popular products status 200" :> (r.status = 200)) @@
         ("response time < 100ms (cache hit)" :> r.fast)

CheckNames == {"coupon response received", "order response received",
               "point charge response received", "popular products status 200",
               "response time < 100ms (cache hit)"}

Check(c, res) ==
  [n \in CheckNames |->
     IF n \in DOMAIN res
     THEN [passes |-> c[n].passes + (IF res[n] THEN 1 ELSE 0),
           fails |-> c[n].fails + (IF res[n] THEN 0 ELSE 1)]
     ELSE c[n]]

-----------------------------------------------------------------------------
Init ==
  /\ now = 0
  /\ pc = [s \in Scenarios |-> "idle"]
  /\ sentAt = [s \in Scenarios |-> 0]
  /\ resp = [s \in Scenarios |-> NoResponse]
  /\ iters = [s \in Scenarios |-> 0]
  /\ totalRequests = 0 /\ totalSuccess = 0 /\ totalFailed = 0
  /\ overallSuccessRate = [trues |-> 0, total |-> 0]
  /\ checks = [n \in CheckNames |-> [passes |-> 0, fails |-> 0]]
  /\ report = [total |-> 0, success |-> 0, failed |-> 0, printed |-> FALSE]
  /\ interrupted = 0 /\ refusals = 0

(* An iteration of the scenario's exec function sends its request.         *)
StartIteration(s) ==
  /\ Active(s) /\ pc[s] = "idle"
  /\ pc' = [pc EXCEPT ![s] = "sent"]
  /\ sentAt' = [sentAt EXCEPT ![s] = now]
  /\ iters' = [iters EXCEPT ![s] = @ + 1]
  /\ UNCHANGED <<now, resp, metrics, report, interrupted, refusals>>

(* The service's answers, one status of each class the exec functions    *)
(* tell apart (201 is handled as 200, 400 as 409); fast: the answer took   *)
(* under 100 ms, which only popularTest checks.                            *)
Answers ==
  [coupon_rush |-> {200, 409, 500}, order_load |-> {200, 409, 500},
   popular_products |-> {200, 500}, point_charge |-> {200, 409}]

Serve(s) ==
  /\ pc[s] = "sent"
  /\ \E st \in Answers[s], f \in (IF s = "popular_products" THEN BOOLEAN ELSE {FALSE}) :
       /\ resp' = [resp EXCEPT ![s] = [status |-> st, fast |-> f]]
       /\ refusals' = refusals + (IF s \in {"coupon_rush", "order_load"} /\ st = 409 THEN 1 ELSE 0)
  /\ pc' = [pc EXCEPT ![s] = "replied"]
  /\ UNCHANGED <<now, sentAt, iters, metrics, report, interrupted>>

(* The http timeout fires: status 0.                                       *)
Timeout(s) ==
  /\ pc[s] = "sent"
  /\ resp' = [resp EXCEPT ![s] = NoResponse]
  /\ pc' = [pc EXCEPT ![s] = "replied"]
  /\ UNCHANGED <<now, sentAt, iters, metrics, report, interrupted, refusals>>

(* The rest of the exec function: totalRequests.add(1), the branch with    *)
(* its counter and Rate sample, the checks; then the sleep.                *)
HandleResponse(s) ==
  LET st == resp[s].status
      ok == Succeeded(s, st)
      refused == ~ok /\ Refused(s, st)
  IN
  /\ pc[s] = "replied"
  /\ totalRequests' = totalRequests + 1
  /\ totalSuccess' = totalSuccess + (IF ok THEN 1 ELSE 0)
  /\ totalFailed' = totalFailed + (IF ok \/ refused THEN 0 ELSE 1)
  /\ overallSuccessRate' = [trues |-> overallSuccessRate.trues + (IF ok \/ refused THEN 1 ELSE 0),
                            total |-> overallSuccessRate.total + 1]
  /\ checks' = Check(checks, CheckResults(s, resp[s]))
  /\ pc' = [pc EXCEPT ![s] = "idle"]
  /\ resp' = [resp EXCEPT ![s] = NoResponse]
  /\ sentAt' = [sentAt EXCEPT ![s] = 0]
  /\ UNCHANGED <<now, iters, report, interrupted, refusals>>

(* Ten seconds pass.  No request outlives the http timeout, and a request  *)
(* still in flight at its scenario's hard stop is interrupted: the         *)
(* iteration ends with nothing recorded.                                   *)
Tick ==
  /\ ~\A s \in Scenarios : ScenarioDone(s)
  /\ \A s \in Scenarios : pc[s] # "replied"
  /\ now' = now + Step
  /\ \A s \in Scenarios :
       pc[s] = "sent" /\ now' < HardStop(s) => now' - sentAt[s] <= HttpTimeout
  /\ LET cut == {s \in Scenarios : pc[s] = "sent" /\ now' >= HardStop(s)} IN
       /\ pc' = [s \in Scenarios |-> IF s \in cut THEN "idle" ELSE pc[s]]
       /\ sentAt' = [s \in Scenarios |-> IF s \in cut THEN 0 ELSE sentAt[s]]
       /\ interrupted' = interrupted + Cardinality(cut)
  /\ UNCHANGED <<resp, iters, metrics, report, refusals>>

(* handleSummary: the counts, and overall_success_rate's rate (0 when it   *)
(* has no sample, by "|| 0").                                              *)
handleSummary ==
  /\ \A s \in Scenarios : ScenarioDone(s)
  /\ ~report.printed
  /\ report' = [total |-> totalRequests, success |-> totalSuccess,
                failed |-> totalFailed, printed |-> TRUE]
  /\ UNCHANGED <<now, pc, sentAt, resp, iters, metrics, interrupted, refusals>>

Finished == report.printed /\ UNCHANGED vars

Next ==
  \/ \E s \in Scenarios :
       StartIteration(s) \/ Serve(s) \/ Timeout(s) \/ HandleResponse(s)
  \/ Tick \/ handleSummary \/ Finished

(* Time passes, an answer or the timeout comes, the JS after a response    *)
(* runs, and handleSummary runs after the last scenario.                   *)
Fairness ==
  /\ WF_vars(Tick) /\ WF_vars(handleSummary)
  /\ \A s \in Scenarios : WF_vars(Serve(s) \/ Timeout(s)) /\ WF_vars(HandleResponse(s))

Spec == Init /\ [][Next]_vars /\ Fairness

-----------------------------------------------------------------------------
LastStop == Max({HardStop(s) : s \in Scenarios})

InFlight(s) == pc[s] # "idle"

(* Types, and the end of the test: the clock never passes the last hard    *)
(* stop, so every scenario, however its iterations went, is over by then.  *)
TypeOK ==
  /\ now \in {Step * k : k \in 0..(LastStop \div Step)}
  /\ pc \in [Scenarios -> {"idle", "sent", "replied"}]
  /\ resp \in [Scenarios -> [status : {0, 200, 201, 400, 409, 500}, fast : BOOLEAN]]
  /\ \A s \in Scenarios : iters[s] <= (IF s = "point_charge" THEN PointIterations ELSE MaxIters)
  /\ overallSuccessRate.trues <= overallSuccessRate.total

(* The startTime offsets leave the scenarios' stage windows disjoint: two  *)
(* scenarios have iterations in flight together only while one of them is *)
(* past its stages, draining within its graceful stop.                     *)
OverlapOnlyWhileDraining ==
  \A s1, s2 \in Scenarios :
    s1 # s2 /\ InFlight(s1) /\ InFlight(s2) => now >= StageEnd(s1) \/ now >= StageEnd(s2)

(* What the summary's lines miss.  total_requests is every request sent  *)
(* except those k6 interrupted at a hard stop (the end of the stages, or  *)
(* line 72's maxDuration, plus the graceful stop: nothing is recorded)    *)
(* and those still in flight.  Once printed, total - success - failed is  *)
(* exactly the 400/409 refusals the service gave couponTest and           *)
(* orderTest: true overall_success_rate samples that lines 107-114 and    *)
(* 147-149 count in no counter.                                            *)
RequestsAccounted ==
  /\ SumFunction(iters) = totalRequests + interrupted + Cardinality({s \in Scenarios : InFlight(s)})
  /\ overallSuccessRate.total = totalRequests
  /\ report.printed => report.total - report.success - report.failed = refusals

(* The header (line 4): the scenarios run sequentially; no two scenarios  *)
(* ever have iterations in flight at the same time.                        *)
ScenariosSequential ==
  \A s1, s2 \in Scenarios : s1 # s2 => ~(InFlight(s1) /\ InFlight(s2))

=============================================================================
