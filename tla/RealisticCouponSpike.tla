------------------------ MODULE RealisticCouponSpike ------------------------
(***************************************************************************)
(* The coupon spike run of src/k6/realistic-coupon-spike.js.               *)
(*                                                                         *)
(* background_traffic (constant-vus) GETs a random product url: a 200      *)
(* counts in bg_success and passes a check, anything else counts in        *)
(* bg_failure and fails one.  coupon_spike (ramping-vus, from 30 s) POSTs  *)
(* an issue of coupon 1 for a random user: a 200/201 counts in             *)
(* coupon_issued and a true coupon_success_rate sample; anything else is a *)
(* false sample, and when its body parses with a sold-out signature it     *)
(* also counts in coupon_sold_out; the rest is swallowed by "catch {}".    *)
(* The coupon service (spec 6) holds Stock coupons and refuses a second    *)
(* coupon to the same user.                                                *)
(***************************************************************************)
EXTENDS Naturals, FiniteSets, K6Response

CONSTANTS
  SpikeVUs,            \* the coupon_spike VUs (model values)
  USERS,               \* Math.floor(Math.random() * 10000) + 1 (10000)
  Stock,               \* coupons the service may issue
  SoldOutBodies,       \* bodies of a sold-out refusal
  AlreadyIssuedBodies, \* bodies of a duplicate refusal
  FaultBodies,         \* bodies of a 5xx answer
  MaxIters,            \* bound on spike iterations
  BgMaxIters,          \* bound on background iterations
  Faults               \* TRUE: the service may fail and transport may time out

VARIABLES
  pc,        \* per spike VU: "idle" | "sent" | "replied"
  userOf,    \* per spike VU: userId of its request
  resp,      \* per spike VU: response
  issued,    \* service: users holding coupon 1
  iters,     \* spike iterations started
  bg,        \* the background VU: [pc, status, iters]
  active,    \* scenario -> its stages / duration still running
  metrics,   \* counters, Trend sample counts, the check and the Rate
  report     \* handleSummary: what it prints

vars == <<pc, userOf, resp, issued, iters, bg, active, metrics, report>>

Users == 1..USERS
Scenarios == {"background_traffic", "coupon_spike"}
TransportError == [status |-> 0, body |-> Unparsable]
NoMetrics == [bgSuccess |-> 0, bgFailure |-> 0, bgLatency |-> 0,
              bgCheck |-> [passes |-> 0, fails |-> 0],
              couponIssued |-> 0, couponSoldOut |-> 0, couponLatency |-> 0,
              successRate |-> [trues |-> 0, total |-> 0]]
Verdicts == {"none", "serverDown", "impacted", "normal"}

(* Lines 119-120: code includes SOLD_OUT or EXHAUSTED, or message includes *)
(* 'sold out' or '소진' (exhausted; "sojin" stands for the Korean word).   *)
IsSoldOut(b) ==
  \/ CodeIncludes(b, "SOLD_OUT") \/ "sold out" \in b.message
  \/ CodeIncludes(b, "EXHAUSTED") \/ "sojin" \in b.message

(* Mutant: couponSuccessRate.add(0) of line 115 dropped.                   *)
RateSampleOnSuccessOnly(rate, ok) ==
  IF ok THEN [trues |-> rate.trues + 1, total |-> rate.total + 1] ELSE rate

(* couponSuccessRate.add(1) on success, add(0) otherwise.                  *)
RateSample(rate, ok) ==
  [trues |-> rate.trues + (IF ok THEN 1 ELSE 0), total |-> rate.total + 1]

-----------------------------------------------------------------------------
Init ==
  /\ pc = [v \in SpikeVUs |-> "idle"]
  /\ userOf = [v \in SpikeVUs |-> 1]
  /\ resp = [v \in SpikeVUs |-> TransportError]
  /\ issued = {}
  /\ iters = 0
  /\ bg = [pc |-> "idle", status |-> 0, iters |-> 0]
  /\ active = [s \in Scenarios |-> TRUE]
  /\ metrics = NoMetrics
  /\ report = [printed |-> FALSE, issued |-> 0, soldOut |-> 0, samples |-> 0,
               verdict |-> "none"]

(* backgroundTraffic: GET a random endpoint; the answer's status.          *)
SendBackground ==
  /\ active["background_traffic"] /\ bg.pc = "idle" /\ bg.iters < BgMaxIters
  /\ \E s \in (IF Faults THEN {0, 200, 500} ELSE {200}) :
       bg' = [pc |-> "sent", status |-> s, iters |-> bg.iters + 1]
  /\ UNCHANGED <<pc, userOf, resp, issued, iters, active, metrics, report>>

(* bgLatency.add; bg_success and a passed check on 200, else bg_failure    *)
(* and a failed check; sleep.                                              *)
HandleBackground ==
  LET ok == bg.status = 200 IN
  /\ bg.pc = "sent"
  /\ metrics' = [metrics EXCEPT
       !.bgLatency = @ + 1,
       !.bgSuccess = @ + (IF ok THEN 1 ELSE 0),
       !.bgFailure = @ + (IF ok THEN 0 ELSE 1),
       !.bgCheck = IF ok THEN [@ EXCEPT !.passes = @ + 1] ELSE [@ EXCEPT !.fails = @ + 1]]
  /\ bg' = [bg EXCEPT !.pc = "idle", !.status = 0]
  /\ UNCHANGED <<pc, userOf, resp, issued, iters, active, report>>

(* couponSpike: random userId, POST /api/coupons/1/issue?userId=...        *)
SendIssue(v) ==
  /\ active["coupon_spike"] /\ pc[v] = "idle" /\ iters < MaxIters
  /\ \E u \in Users : userOf' = [userOf EXCEPT ![v] = u]
  /\ pc' = [pc EXCEPT ![v] = "sent"]
  /\ iters' = iters + 1
  /\ UNCHANGED <<resp, issued, bg, active, metrics, report>>

(* The service issues, or refuses a holder or an exhausted stock (either   *)
(* refusal may come first when both hold).                                 *)
ServeIssue(v) ==
  LET u == userOf[v] IN
  /\ pc[v] = "sent"
  /\ \/ /\ u \notin issued /\ Cardinality(issued) < Stock
        /\ issued' = issued \cup {u}
        /\ \E s \in {200, 201} :
             resp' = [resp EXCEPT ![v] = [status |-> s, body |-> Unparsable]]
     \/ /\ u \in issued /\ issued' = issued
        /\ \E s \in {400, 409}, b \in AlreadyIssuedBodies :
             resp' = [resp EXCEPT ![v] = [status |-> s, body |-> b]]
     \/ /\ Cardinality(issued) >= Stock /\ issued' = issued
        /\ \E s \in {400, 409}, b \in SoldOutBodies :
             resp' = [resp EXCEPT ![v] = [status |-> s, body |-> b]]
  /\ pc' = [pc EXCEPT ![v] = "replied"]
  /\ UNCHANGED <<userOf, iters, bg, active, metrics, report>>

(* The service fails the request without acting.                           *)
ServiceFault(v) ==
  /\ Faults /\ pc[v] = "sent"
  /\ \E b \in FaultBodies : resp' = [resp EXCEPT ![v] = [status |-> 500, body |-> b]]
  /\ pc' = [pc EXCEPT ![v] = "replied"]
  /\ UNCHANGED <<userOf, issued, iters, bg, active, metrics, report>>

(* The http timeout fires, before or after the service acted.              *)
Timeout(v) ==
  /\ Faults /\ pc[v] \in {"sent", "replied"}
  /\ resp' = [resp EXCEPT ![v] = TransportError]
  /\ pc' = [pc EXCEPT ![v] = "replied"]
  /\ UNCHANGED <<userOf, issued, iters, bg, active, metrics, report>>

(* Lines 108-126: couponLatency.add; on 200/201 coupon_issued and a true   *)
(* sample; else a false sample and, in the try, a sold-out signature       *)
(* counts coupon_sold_out; sleep.                                          *)
HandleIssueResponse(v) ==
  LET r == resp[v]
      ok == r.status \in {200, 201}
  IN
  /\ pc[v] = "replied"
  /\ metrics' = [metrics EXCEPT
       !.couponLatency = @ + 1,
       !.couponIssued = @ + (IF ok THEN 1 ELSE 0),
       !.successRate = RateSample(@, ok),
       !.couponSoldOut = @ + (IF ~ok /\ r.body.parsed /\ IsSoldOut(r.body) THEN 1 ELSE 0)]
  /\ pc' = [pc EXCEPT ![v] = "idle"]
  /\ resp' = [resp EXCEPT ![v] = TransportError]
  /\ userOf' = [userOf EXCEPT ![v] = 1]
  /\ UNCHANGED <<issued, iters, bg, active, report>>

(* A scenario's stages or duration elapse: it starts no more iterations.   *)
EndScenario(s) ==
  /\ active[s] /\ active' = [active EXCEPT ![s] = FALSE]
  /\ UNCHANGED <<pc, userOf, resp, issued, iters, bg, metrics, report>>

(* The report handleSummary prints; serverDown is bgFailCount >             *)
(* bgSuccessCount * 0.1, for integers 10 * fail > success; impacted reads  *)
(* bgP95 (latencies are not modelled).                                     *)
Report(impacted) ==
  [printed |-> TRUE, issued |-> metrics.couponIssued,
   soldOut |-> metrics.couponSoldOut, samples |-> metrics.successRate.total,
   verdict |-> IF 10 * metrics.bgFailure > metrics.bgSuccess THEN "serverDown"
               ELSE IF impacted THEN "impacted" ELSE "normal"]

(* Mutant: handleSummary before the VUs have finished their iterations.    *)
handleSummaryEarly ==
  /\ \A s \in Scenarios : ~active[s]
  /\ ~report.printed
  /\ \E impacted \in BOOLEAN : report' = Report(impacted)
  /\ UNCHANGED <<pc, userOf, resp, issued, iters, bg, active, metrics>>

(* handleSummary, once every VU is idle.                                   *)
handleSummary ==
  /\ \A s \in Scenarios : ~active[s]
  /\ bg.pc = "idle" /\ \A v \in SpikeVUs : pc[v] = "idle"
  /\ ~report.printed
  /\ \E impacted \in BOOLEAN : report' = Report(impacted)
  /\ UNCHANGED <<pc, userOf, resp, issued, iters, bg, active, metrics>>

Finished == report.printed /\ UNCHANGED vars

Next ==
  \/ SendBackground \/ HandleBackground
  \/ \E v \in SpikeVUs :
       SendIssue(v) \/ ServeIssue(v) \/ ServiceFault(v) \/ Timeout(v)
       \/ HandleIssueResponse(v)
  \/ \E s \in Scenarios : EndScenario(s)
  \/ handleSummary \/ Finished

Spec == Init /\ [][Next]_vars

-----------------------------------------------------------------------------
TypeOK ==
  /\ pc \in [SpikeVUs -> {"idle", "sent", "replied"}]
  /\ userOf \in [SpikeVUs -> Users]
  /\ issued \subseteq Users /\ Cardinality(issued) <= Stock
  /\ iters \in 0..MaxIters /\ bg.iters \in 0..BgMaxIters
  /\ report.verdict \in Verdicts

(* A run whose printed counts add up (every coupon_success_rate sample is  *)
(* a coupon_issued or a coupon_sold_out) prints exactly the coupons the    *)
(* service issued: an issuance whose answer was lost, or a refusal of a    *)
(* user drawn twice, always leaves a sample in neither counter.            *)
IssuedExact ==
  report.printed /\ report.issued + report.soldOut = report.samples
    => report.issued = Cardinality(issued)

(* The spike loop refines OutcomeLedger: every iteration leaves exactly    *)
(* one coupon_success_rate sample, and the swallowed refusals are the      *)
(* samples counted in neither coupon_issued nor coupon_sold_out.           *)
Ledger == INSTANCE OutcomeLedger WITH
  VUs <- SpikeVUs,
  busy <- [v \in SpikeVUs |-> pc[v] # "idle"],
  tally <- [success |-> metrics.couponIssued, expectedFailure |-> metrics.couponSoldOut,
            unexpectedFailure |-> metrics.successRate.total - metrics.couponIssued
                                    - metrics.couponSoldOut,
            parseError |-> 0]
LedgerSpec == Ledger!Spec

=============================================================================
