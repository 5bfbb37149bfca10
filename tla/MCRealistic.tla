---------------------------- MODULE MCRealistic ----------------------------
(***************************************************************************)
(* One run of one of the product-load scripts: the four realistic          *)
(* two-scenario scripts and popular-products-test.js.  The script is       *)
(* chosen in the initial state and only its steps are taken, so the state  *)
(* space is the disjoint union of the five scripts' state spaces and each  *)
(* property of a script is checked on exactly its own behaviours.          *)
(***************************************************************************)
EXTENDS Naturals, K6Response

VARIABLES
  script,
  psPc, psIter, psResp, psInService, psApplied, psBgPc, psBgStatus, psBgIters,
  psActive, psBgSuccess, psBgLatency, psChargeSuccess, psChargeFailed,
  psLockContention, psChargeLatency, psReport,
  csPc, csUserOf, csResp, csIssued, csIters, csBg, csActive, csMetrics, csReport,
  olPc, olProduct, olResp, olStock, olIters, olBg, olActive, olMetrics, olReport,
  rpPc, rpResp, rpIters, rpBg, rpActive, rpMetrics, rpReport,
  ppPc, ppResp, ppIters, ppRunning, ppMetrics, ppChecks, ppReport

psVars == <<psPc, psIter, psResp, psInService, psApplied, psBgPc, psBgStatus,
            psBgIters, psActive, psBgSuccess, psBgLatency, psChargeSuccess,
            psChargeFailed, psLockContention, psChargeLatency, psReport>>
csVars == <<csPc, csUserOf, csResp, csIssued, csIters, csBg, csActive, csMetrics, csReport>>
olVars == <<olPc, olProduct, olResp, olStock, olIters, olBg, olActive, olMetrics, olReport>>
rpVars == <<rpPc, rpResp, rpIters, rpBg, rpActive, rpMetrics, rpReport>>
ppVars == <<ppPc, ppResp, ppIters, ppRunning, ppMetrics, ppChecks, ppReport>>
allVars == <<script, psVars, csVars, olVars, rpVars, ppVars>>

FaultBodies == {Body("INTERNAL_SERVER_ERROR", {}), Unparsable}

(* Stress VUs 1..3 over 2 users: VUs 1 and 3 charge user 2.  A lock        *)
(* refusal by code, and one whose only marker is 'timeout' in the message. *)
PS == INSTANCE PointStress WITH
  StressVUs <- {1, 2, 3}, USERS <- 2, MaxIters <- 2, BgMaxIters <- 1, Faults <- TRUE,
  LockBodies <- {Body("LOCK_ACQUISITION_FAILED", {}), Body("INTERNAL_ERROR", {"timeout"})},
  FaultBodies <- FaultBodies,
  pc <- psPc, iter <- psIter, resp <- psResp, inService <- psInService,
  applied <- psApplied, bgPc <- psBgPc, bgStatus <- psBgStatus, bgIters <- psBgIters,
  active <- psActive, bgSuccess <- psBgSuccess, bgLatency <- psBgLatency,
  chargeSuccess <- psChargeSuccess, chargeFailed <- psChargeFailed,
  lockContention <- psLockContention, chargeLatency <- psChargeLatency, report <- psReport

(* Two spike VUs, two users, one coupon: a sold-out refusal by code and by *)
(* the Korean message, a duplicate refusal.                                *)
CS == INSTANCE RealisticCouponSpike WITH
  SpikeVUs <- {1, 2}, USERS <- 2, Stock <- 1, MaxIters <- 3, BgMaxIters <- 1,
  Faults <- TRUE, FaultBodies <- FaultBodies,
  SoldOutBodies <- {Body("COUPON_EXHAUSTED", {}), Body("BAD_REQUEST", {"sojin"})},
  AlreadyIssuedBodies <- {Body("COUPON_ALREADY_ISSUED", {})},
  pc <- csPc, userOf <- csUserOf, resp <- csResp, issued <- csIssued, iters <- csIters,
  bg <- csBg, active <- csActive, metrics <- csMetrics, report <- csReport

(* Two order VUs, two products of one unit: a stock refusal by code and by *)
(* the Korean message.                                                     *)
OL == INSTANCE RealisticOrderLoad WITH
  OrderVUs <- {1, 2}, PRODUCTS <- 2, InitialStock <- 1, MaxIters <- 3, BgMaxIters <- 1,
  Faults <- TRUE, FaultBodies <- FaultBodies,
  StockBodies <- {Body("INSUFFICIENT_STOCK", {}), Body("BAD_REQUEST", {"jaego"})},
  pc <- olPc, product <- olProduct, resp <- olResp, stock <- olStock, iters <- olIters,
  bg <- olBg, active <- olActive, metrics <- olMetrics, report <- olReport

RP == INSTANCE RealisticPopularProducts WITH
  PopularVUs <- {1, 2}, MaxIters <- 3, BgMaxIters <- 1, Faults <- TRUE,
  pc <- rpPc, resp <- rpResp, iters <- rpIters, bg <- rpBg, active <- rpActive,
  metrics <- rpMetrics, report <- rpReport

PP == INSTANCE PopularProducts WITH
  VUs <- {1, 2}, MaxIters <- 3, Faults <- TRUE,
  pc <- ppPc, resp <- ppResp, iters <- ppIters, running <- ppRunning,
  metrics <- ppMetrics, checks <- ppChecks, report <- ppReport

Scripts == {"point_stress", "coupon_spike", "order_load", "popular_products",
            "popular_products_test"}

-----------------------------------------------------------------------------
(* A step of one script, the others' variables unchanged.                  *)
PSStep(A) == script = "point_stress" /\ A /\ UNCHANGED <<script, csVars, olVars, rpVars, ppVars>>
CSStep(A) == script = "coupon_spike" /\ A /\ UNCHANGED <<script, psVars, olVars, rpVars, ppVars>>
OLStep(A) == script = "order_load" /\ A /\ UNCHANGED <<script, psVars, csVars, rpVars, ppVars>>
RPStep(A) == script = "popular_products" /\ A /\ UNCHANGED <<script, psVars, csVars, olVars, ppVars>>
PPStep(A) == script = "popular_products_test" /\ A /\ UNCHANGED <<script, psVars, csVars, olVars, rpVars>>

Init ==
  /\ script \in Scripts
  /\ PS!Init /\ CS!Init /\ OL!Init /\ RP!Init /\ PP!Init

Next == PSStep(PS!Next) \/ CSStep(CS!Next) \/ OLStep(OL!Next) \/ RPStep(RP!Next) \/ PPStep(PP!Next)

(* In the script that runs, a VU's iteration ends: the service answers or  *)
(* k6's http timeout fires, and a VU with an answer resumes.  Only the two *)
(* scripts with a liveness property need it.                               *)
Fairness ==
  /\ \A v \in {1, 2, 3} :
       /\ WF_allVars(PSStep(PS!Timeout(v) \/ \E r \in psInService : r.vu = v /\ PS!ServeCharge(r)))
       /\ WF_allVars(PSStep(PS!HandleChargeResponse(v)))
  /\ \A v \in {1, 2} :
       /\ WF_allVars(CSStep(CS!ServeIssue(v) \/ CS!Timeout(v)))
       /\ WF_allVars(CSStep(CS!HandleIssueResponse(v)))

Spec == Init /\ [][Next]_allVars /\ Fairness

-----------------------------------------------------------------------------
TypeOK ==
  /\ script \in Scripts
  /\ PS!TypeOK /\ CS!TypeOK /\ OL!TypeOK /\ RP!TypeOK /\ PP!TypeOK

(* realistic-point-stress.js: charge_success never exceeds the charges     *)
(* applied, with two VUs charging one user at once.                        *)
ChargesNeverOverCounted == PS!ChargesNeverOverCounted

(* realistic-point-stress.js: every charge iteration is counted once.      *)
PointLedger == PS!LedgerSpec

(* realistic-coupon-spike.js: a run whose counts add up prints exactly the *)
(* coupons issued.                                                         *)
IssuedExact == CS!IssuedExact

(* realistic-coupon-spike.js: every spike iteration leaves one Rate        *)
(* sample, the swallowed refusals included.                                *)
SpikeLedger == CS!LedgerSpec

(* realistic-order-load.js: a run whose counts add up prints exactly the   *)
(* units sold.                                                             *)
OrderCreatedExact == OL!OrderCreatedExact

(* realistic-order-load.js against spec 4.4: every order response is       *)
(* classified.                                                             *)
EveryOrderClassified == OL!EveryOrderClassified

(* popular-products-test.js: every request leaves one Rate and one latency *)
(* sample, and the printed total counts them.                              *)
EveryRequestSampled == PP!EveryRequestSampled

=============================================================================
