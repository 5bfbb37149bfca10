---------------------------- MODULE PointStress ----------------------------
(***************************************************************************)
(* The point charge stress run of src/k6/realistic-point-stress.js.        *)
(*                                                                         *)
(* Two scenarios run together: background_traffic (constant-vus) GETs the  *)
(* product list and counts its 200s; point_stress (ramping-vus) charges    *)
(* user (__VU % 20) + 1, so the VUs whose ids agree modulo 20 charge the   *)
(* same user at the same time.  A charge is counted as charge_success on   *)
(* 200/201 and as charge_failed otherwise; a failure whose body parses and *)
(* carries a lock signature also counts as lock_contention, and a body    *)
(* that does not parse is swallowed by "catch {}".  The point service      *)
(* (spec 6) applies a charge under a per-user lock and may refuse one that *)
(* meets another charge of the same user; a request whose http timeout     *)
(* fired stays in the service and may still be applied.                    *)
(***************************************************************************)
EXTENDS Naturals, FiniteSets, Functions, K6Response

CONSTANTS
  StressVUs,   \* the point_stress VUs, by k6 id (__VU)
  USERS,       \* the modulus of line 64 (20)
  LockBodies,  \* bodies of a refusal on the user's lock
  FaultBodies, \* bodies of a 5xx answer
  MaxIters,    \* bound on charge iterations
  BgMaxIters,  \* bound on background iterations
  Faults       \* TRUE: the service may fail and transport may time out

VARIABLES
  pc,          \* per stress VU: "idle" | "sent" | "replied"
  iter,        \* per stress VU: iterations started
  resp,        \* per stress VU: the response of its current request (res)
  inService,   \* charges [vu, n, user] the service holds and has not answered
  applied,     \* per user: charges the service applied
  bgPc, bgStatus, bgIters,   \* the background VU
  active,      \* scenario -> its stages / duration still running
  bgSuccess, bgLatency,                        \* Counter, Trend (samples)
  chargeSuccess, chargeFailed, lockContention, \* Counters
  chargeLatency,                               \* Trend (samples)
  report       \* handleSummary: [total, rateShown, verdict, printed]

vars == <<pc, iter, resp, inService, applied, bgPc, bgStatus, bgIters, active,
          bgSuccess, bgLatency, chargeSuccess, chargeFailed, lockContention,
          chargeLatency, report>>
chargeMetrics == <<chargeSuccess, chargeFailed, lockContention, chargeLatency>>

Users == 1..USERS
TransportError == [status |-> 0, body |-> Unparsable]
Scenarios == {"background_traffic", "point_stress"}

-----------------------------------------------------------------------------
(* Mutant: the "+ 1" of line 64 dropped.                                   *)
userIdNoOffset(v) == v % USERS

(* const userId = (__VU % 20) + 1                                          *)
userId(v) == (v % USERS) + 1

(* Mutant: success tested as any status below 500.                         *)
ChargeSucceededBelow500(r) == r.status >= 200 /\ r.status < 500

(* res.status === 200 || res.status === 201                                *)
ChargeSucceeded(r) == r.status \in {200, 201}

(* Lines 85-86: code includes LOCK, message includes 'lock', or code       *)
(* includes TIMEOUT (a message with 'timeout' is not a signature here).    *)
IsLockContention(b) ==
  CodeIncludes(b, "LOCK") \/ "lock" \in b.message \/ CodeIncludes(b, "TIMEOUT")

(* Mutant: chargeFailed.add(1) moved into the try, after JSON.parse, so a  *)
(* body that does not parse is counted nowhere.                            *)
CountsAsFailedInTry(r) == ~ChargeSucceeded(r) /\ r.body.parsed

(* chargeFailed.add(1) runs before the try, for every non-2xx answer.      *)
CountsAsFailed(r) == ~ChargeSucceeded(r)

(* The answer reaches the VU only while it still waits for that request.   *)
Deliver(r, answer) ==
  IF pc[r.vu] = "sent" /\ iter[r.vu] = r.n
  THEN /\ resp' = [resp EXCEPT ![r.vu] = answer]
       /\ pc' = [pc EXCEPT ![r.vu] = "replied"]
  ELSE UNCHANGED <<resp, pc>>

-----------------------------------------------------------------------------
Init ==
  /\ pc = [v \in StressVUs |-> "idle"]
  /\ iter = [v \in StressVUs |-> 0]
  /\ resp = [v \in StressVUs |-> TransportError]
  /\ inService = {}
  /\ applied = [u \in Users |-> 0]
  /\ bgPc = "idle" /\ bgStatus = 0 /\ bgIters = 0
  /\ active = [s \in Scenarios |-> TRUE]
  /\ bgSuccess = 0 /\ bgLatency = 0
  /\ chargeSuccess = 0 /\ chargeFailed = 0 /\ lockContention = 0
  /\ chargeLatency = 0
  /\ report = [total |-> 0, rateShown |-> FALSE, verdict |-> "none", printed |-> FALSE]

(* backgroundTraffic: GET /api/products ...                                *)
SendBackground ==
  /\ active["background_traffic"] /\ bgPc = "idle" /\ bgIters < BgMaxIters
  /\ bgPc' = "sent" /\ bgIters' = bgIters + 1
  /\ \E s \in (IF Faults THEN {0, 200, 500} ELSE {200}) : bgStatus' = s
  /\ UNCHANGED <<pc, iter, resp, inService, applied, active, bgSuccess, bgLatency,
                 chargeMetrics, report>>

(* ... bgLatency.add, bgSuccess.add(1) on a 200, sleep(0.5).               *)
HandleBackground ==
  /\ bgPc = "sent"
  /\ bgLatency' = bgLatency + 1
  /\ bgSuccess' = bgSuccess + (IF bgStatus = 200 THEN 1 ELSE 0)
  /\ bgPc' = "idle" /\ bgStatus' = 0
  /\ UNCHANGED <<pc, iter, resp, inService, applied, bgIters, active,
                 chargeMetrics, report>>

(* pointStress: POST /api/points/users/{userId}/charge.                    *)
SendCharge(v) ==
  /\ active["point_stress"] /\ pc[v] = "idle"
  /\ SumFunction(iter) < MaxIters
  /\ inService' = inService \cup {[vu |-> v, n |-> iter[v] + 1, user |-> userId(v)]}
  /\ iter' = [iter EXCEPT ![v] = @ + 1]
  /\ pc' = [pc EXCEPT ![v] = "sent"]
  /\ UNCHANGED <<resp, applied, bgPc, bgStatus, bgIters, active, bgSuccess,
                 bgLatency, chargeMetrics, report>>

(* The service applies a charge, or refuses it on the user's lock while    *)
(* another charge of the same user is in the service.                      *)
ServeCharge(r) ==
  /\ inService' = inService \ {r}
  /\ \/ /\ applied' = [applied EXCEPT ![r.user] = @ + 1]
        /\ \E s \in {200, 201} : Deliver(r, [status |-> s, body |-> Unparsable])
     \/ /\ \E o \in inService \ {r} : o.user = r.user
        /\ applied' = applied
        /\ \E b \in LockBodies : Deliver(r, [status |-> 409, body |-> b])
  /\ UNCHANGED <<iter, bgPc, bgStatus, bgIters, active, bgSuccess, bgLatency,
                 chargeMetrics, report>>

(* The service fails a charge without applying it.                         *)
ServiceFault(r) ==
  /\ Faults
  /\ inService' = inService \ {r}
  /\ \E b \in FaultBodies : Deliver(r, [status |-> 500, body |-> b])
  /\ UNCHANGED <<iter, applied, bgPc, bgStatus, bgIters, active, bgSuccess,
                 bgLatency, chargeMetrics, report>>

(* The http timeout fires; the charge may still be in the service.         *)
Timeout(v) ==
  /\ Faults /\ pc[v] \in {"sent", "replied"}
  /\ resp' = [resp EXCEPT ![v] = TransportError]
  /\ pc' = [pc EXCEPT ![v] = "replied"]
  /\ UNCHANGED <<iter, inService, applied, bgPc, bgStatus, bgIters, active,
                 bgSuccess, bgLatency, chargeMetrics, report>>

(* The rest of pointStress: chargeLatency.add, then the counters; sleep.   *)
HandleChargeResponse(v) ==
  LET r == resp[v] IN
  /\ pc[v] = "replied"
  /\ chargeLatency' = chargeLatency + 1
  /\ chargeSuccess' = chargeSuccess + (IF ChargeSucceeded(r) THEN 1 ELSE 0)
  /\ chargeFailed' = chargeFailed + (IF CountsAsFailed(r) THEN 1 ELSE 0)
  /\ lockContention' = lockContention +
       (IF ~ChargeSucceeded(r) /\ r.body.parsed /\ IsLockContention(r.body) THEN 1 ELSE 0)
  /\ pc' = [pc EXCEPT ![v] = "idle"]
  /\ resp' = [resp EXCEPT ![v] = TransportError]
  /\ UNCHANGED <<iter, inService, applied, bgPc, bgStatus, bgIters, active,
                 bgSuccess, bgLatency, report>>

(* A scenario's stages or duration elapse: it starts no more iterations.   *)
EndScenario(s) ==
  /\ active[s] /\ active' = [active EXCEPT ![s] = FALSE]
  /\ UNCHANGED <<pc, iter, resp, inService, applied, bgPc, bgStatus, bgIters,
                 bgSuccess, bgLatency, chargeMetrics, report>>

(* handleSummary: total = success + fail; the rate only when total > 0;    *)
(* the verdict: highContention (lockCount > total * 0.1, for integers      *)
(* exactly 10 * lockCount > total) first, then impacted (bgP95 > 500,     *)
(* latencies are not modelled), else normal.                               *)
handleSummary ==
  LET total == chargeSuccess + chargeFailed IN
  /\ \A s \in Scenarios : ~active[s]
  /\ bgPc = "idle" /\ \A v \in StressVUs : pc[v] = "idle"
  /\ ~report.printed
  /\ \E impacted \in BOOLEAN :
       report' = [total |-> total, rateShown |-> total > 0, printed |-> TRUE,
                  verdict |-> IF 10 * lockContention > total THEN "highContention"
                              ELSE IF impacted THEN "impacted" ELSE "normal"]
  /\ UNCHANGED <<pc, iter, resp, inService, applied, bgPc, bgStatus, bgIters,
                 active, bgSuccess, bgLatency, chargeMetrics>>

Finished == report.printed /\ UNCHANGED vars

Next ==
  \/ SendBackground \/ HandleBackground
  \/ \E v \in StressVUs : SendCharge(v) \/ Timeout(v) \/ HandleChargeResponse(v)
  \/ \E r \in inService : ServeCharge(r) \/ ServiceFault(r)
  \/ \E s \in Scenarios : EndScenario(s)
  \/ handleSummary \/ Finished

(* The service answers or the timeout fires; the VUs resume; the stages    *)
(* end and handleSummary runs.                                             *)
Fairness ==
  /\ \A v \in StressVUs :
       WF_vars(Timeout(v) \/ \E r \in inService : r.vu = v /\ ServeCharge(r))
  /\ \A v \in StressVUs : WF_vars(HandleChargeResponse(v))
  /\ WF_vars(HandleBackground)
  /\ \A s \in Scenarios : WF_vars(EndScenario(s))
  /\ WF_vars(handleSummary)

Spec == Init /\ [][Next]_vars /\ Fairness

-----------------------------------------------------------------------------
TypeOK ==
  /\ pc \in [StressVUs -> {"idle", "sent", "replied"}]
  /\ inService \subseteq [vu : StressVUs, n : 1..MaxIters, user : Users]
  /\ applied \in [Users -> 0..MaxIters]
  /\ bgPc \in {"idle", "sent"} /\ bgIters \in 0..BgMaxIters
  /\ lockContention <= chargeFailed
  /\ report.verdict \in {"none", "highContention", "impacted", "normal"}

(* charge_success never exceeds the charges the service applied, however   *)
(* the charges of the VUs sharing a user, the lock refusals, failures,     *)
(* timeouts and late applications interleave.                              *)
ChargesNeverOverCounted == chargeSuccess <= SumFunction(applied)

(* The stress loop refines OutcomeLedger: every charge iteration ends      *)
(* counted once, as charge_success or charge_failed, a lock refusal being  *)
(* the expected kind of failure; an unparsable body, swallowed by the      *)
(* empty catch, still counts as a failure.                                 *)
Ledger == INSTANCE OutcomeLedger WITH
  VUs <- StressVUs,
  busy <- [v \in StressVUs |-> pc[v] # "idle"],
  tally <- [success |-> chargeSuccess, expectedFailure |-> lockContention,
            unexpectedFailure |-> chargeFailed - lockContention, parseError |-> 0]
LedgerSpec == Ledger!Spec

=============================================================================
