---------------------------- MODULE PointCharge ----------------------------
(***************************************************************************)
(* The concurrent point charge of src/k6/point-charge-test.js.             *)
(*                                                                         *)
(* The per-vu-iterations executor starts USER_COUNT VUs; VU v (k6's __VU,  *)
(* 1-based) charges user v CHARGES_PER_USER times, one iteration after    *)
(* the other, unless maxDuration cuts the scenario short.  The point       *)
(* service (not under src/, spec 6) applies a charge under a per-user      *)
(* lock; a charge that meets another charge of the same user in the       *)
(* service may fail on the lock.  A request whose http timeout fired stays *)
(* in the service and may still be applied; its late answer is dropped.   *)
(* After the VUs stop, teardown reads some balances, then handleSummary    *)
(* prints the totals.                                                      *)
(***************************************************************************)
EXTENDS Naturals, FiniteSets, Functions, K6Response

CONSTANTS
  USER_COUNT,        \* vus of the executor, and the users charged
  CHARGES_PER_USER,  \* iterations of each VU
  LockBodies,        \* bodies of a refusal on the user's lock
  FaultBodies,       \* bodies of a 5xx answer
  Faults             \* TRUE: the service may fail and transport may time out

ASSUME USER_COUNT \in Nat \ {0} /\ CHARGES_PER_USER \in Nat /\ Faults \in BOOLEAN

VARIABLES
  pc,          \* per VU: "idle" | "sent" | "replied"
  iter,        \* per VU: iterations started
  resp,        \* per VU: the response of its current request
  inService,   \* requests [vu, n, user] the service holds and has not answered
  applied,     \* per user: charges the service applied
  cutOff,      \* maxDuration elapsed
  chargeSuccess, chargeFailed, lockContention,  \* Counter metrics
  chargeLatency,  \* Trend metric: number of samples
  successRate,    \* Rate metric: [trues, total]
  checks,         \* k6 checks: name -> [passes, fails]
  phase,          \* "run" | "teardown" | "end"
  verification,   \* teardown's [passed, failed]
  report          \* handleSummary's totals

vars == <<pc, iter, resp, inService, applied, cutOff, chargeSuccess,
          chargeFailed, lockContention, chargeLatency, successRate, checks,
          phase, verification, report>>

metrics == <<chargeSuccess, chargeFailed, lockContention, chargeLatency,
             successRate, checks>>

VUs == 1..USER_COUNT
Users == 1..USER_COUNT

CheckNames == {"charge completed", "lock contention (expected under stress)",
               "unexpected charge error", "parse error response"}

TransportError == [status |-> 0, body |-> Unparsable]

Request == [vu : VUs, n : 1..CHARGES_PER_USER, user : Users]

-----------------------------------------------------------------------------
(* Mutant: userId drawn with randomUserId(USER_COUNT), as the other       *)
(* scripts draw theirs.                                                    *)
userIdRandom(v) == 1..USER_COUNT

(* const userId = __VU: the users a VU's iteration may charge.             *)
userIdOf(v) == {v}

(* Mutant: success tested as any status below 500.                         *)
ChargeSucceededBelow500(r) == r.status >= 200 /\ r.status < 500

(* response.status === 200 || response.status === 201                      *)
ChargeSucceeded(r) == r.status \in {200, 201}

(* The lock-contention signature: code includes LOCK or TIMEOUT, message   *)
(* includes 'lock' or 'timeout'.                                           *)
IsLockContention(b) ==
  \/ CodeIncludes(b, "LOCK") \/ CodeIncludes(b, "TIMEOUT")
  \/ "lock" \in b.message \/ "timeout" \in b.message

(* The branch of the default function a response takes.                    *)
ChargeOutcome(r) ==
  IF ChargeSucceeded(r) THEN "success"
  ELSE IF ~r.body.parsed THEN "parseError"
  ELSE IF IsLockContention(r.body) THEN "lockContention"
  ELSE "unexpected"

CheckOf(o) ==
  CASE o = "success"        -> <<"charge completed", TRUE>>
    [] o = "lockContention" -> <<"lock contention (expected under stress)", TRUE>>
    [] o = "unexpected"     -> <<"unexpected charge error", FALSE>>
    [] o = "parseError"     -> <<"parse error response", FALSE>>

Check(c, name, ok) ==
  [c EXCEPT ![name] = IF ok THEN [@ EXCEPT !.passes = @ + 1]
                            ELSE [@ EXCEPT !.fails = @ + 1]]

(* A VU of per-vu-iterations stops once its iterations are done or the     *)
(* scenario is cut off, after the iteration it is in.                      *)
VUFinished(v) == pc[v] = "idle" /\ (iter[v] = CHARGES_PER_USER \/ cutOff)

(* The answer reaches the VU only while it still waits for that request.   *)
Deliver(r, answer) ==
  IF pc[r.vu] = "sent" /\ iter[r.vu] = r.n
  THEN /\ resp' = [resp EXCEPT ![r.vu] = answer]
       /\ pc' = [pc EXCEPT ![r.vu] = "replied"]
  ELSE UNCHANGED <<resp, pc>>

-----------------------------------------------------------------------------
Init ==
  /\ pc = [v \in VUs |-> "idle"]
  /\ iter = [v \in VUs |-> 0]
  /\ resp = [v \in VUs |-> TransportError]
  /\ inService = {}
  /\ applied = [u \in Users |-> 0]
  /\ cutOff = FALSE
  /\ chargeSuccess = 0 /\ chargeFailed = 0 /\ lockContention = 0
  /\ chargeLatency = 0
  /\ successRate = [trues |-> 0, total |-> 0]
  /\ checks = [n \in CheckNames |-> [passes |-> 0, fails |-> 0]]
  /\ phase = "run"
  /\ verification = [passed |-> 0, failed |-> 0]
  /\ report = [success |-> 0, failed |-> 0, contention |-> 0, percentShown |-> FALSE]

(* Mutant: one iteration too many per VU.                                  *)
SendChargeExtra(v) ==
  /\ phase = "run" /\ ~cutOff
  /\ pc[v] = "idle" /\ iter[v] <= CHARGES_PER_USER
  /\ \E u \in userIdOf(v) :
       inService' = inService \cup {[vu |-> v, n |-> iter[v] + 1, user |-> u]}
  /\ iter' = [iter EXCEPT ![v] = @ + 1]
  /\ pc' = [pc EXCEPT ![v] = "sent"]
  /\ UNCHANGED <<resp, applied, cutOff, metrics, phase, verification, report>>

(* An iteration starts: userId = __VU, POST /api/points/charge.            *)
SendCharge(v) ==
  /\ phase = "run" /\ ~cutOff
  /\ pc[v] = "idle" /\ iter[v] < CHARGES_PER_USER
  /\ \E u \in userIdOf(v) :
       inService' = inService \cup {[vu |-> v, n |-> iter[v] + 1, user |-> u]}
  /\ iter' = [iter EXCEPT ![v] = @ + 1]
  /\ pc' = [pc EXCEPT ![v] = "sent"]
  /\ UNCHANGED <<resp, applied, cutOff, metrics, phase, verification, report>>

(* The service applies a charge, or refuses it on the user's lock while    *)
(* another charge of the same user is in the service.                      *)
ServeCharge(r) ==
  /\ r \in inService
  /\ inService' = inService \ {r}
  /\ \/ /\ applied' = [applied EXCEPT ![r.user] = @ + 1]
        /\ \E s \in {200, 201} : Deliver(r, [status |-> s, body |-> Unparsable])
     \/ /\ \E o \in inService \ {r} : o.user = r.user
        /\ applied' = applied
        /\ \E b \in LockBodies : Deliver(r, [status |-> 409, body |-> b])
  /\ UNCHANGED <<iter, cutOff, metrics, phase, verification, report>>

(* The service fails a charge without applying it.                         *)
ServiceFault(r) ==
  /\ Faults /\ r \in inService
  /\ inService' = inService \ {r}
  /\ \E b \in FaultBodies : Deliver(r, [status |-> 500, body |-> b])
  /\ UNCHANGED <<iter, applied, cutOff, metrics, phase, verification, report>>

(* The http timeout fires; the request may still be in the service.        *)
Timeout(v) ==
  /\ Faults /\ pc[v] \in {"sent", "replied"}
  /\ resp' = [resp EXCEPT ![v] = TransportError]
  /\ pc' = [pc EXCEPT ![v] = "replied"]
  /\ UNCHANGED <<iter, inService, applied, cutOff, metrics, phase,
                 verification, report>>

(* Mutants of the handler: the catch branch without chargeFailed.add(1);   *)
(* a VU that stops on a transport error instead of recording it.          *)
HandleParseErrorUncounted(v) ==
  LET o == ChargeOutcome(resp[v]) IN
  /\ pc[v] = "replied"
  /\ chargeLatency' = chargeLatency + 1
  /\ chargeSuccess' = chargeSuccess + (IF o = "success" THEN 1 ELSE 0)
  /\ chargeFailed' = chargeFailed + (IF o \in {"success", "parseError"} THEN 0 ELSE 1)
  /\ lockContention' = lockContention + (IF o = "lockContention" THEN 1 ELSE 0)
  /\ successRate' = [trues |-> successRate.trues + (IF o = "success" THEN 1 ELSE 0),
                     total |-> successRate.total + 1]
  /\ checks' = Check(checks, CheckOf(o)[1], CheckOf(o)[2])
  /\ pc' = [pc EXCEPT ![v] = "idle"]
  /\ UNCHANGED <<iter, resp, inService, applied, cutOff, phase,
                 verification, report>>

HandleStopsOnTransportError(v) ==
  LET o == ChargeOutcome(resp[v]) IN
  /\ pc[v] = "replied" /\ resp[v].status # 0
  /\ chargeLatency' = chargeLatency + 1
  /\ chargeSuccess' = chargeSuccess + (IF o = "success" THEN 1 ELSE 0)
  /\ chargeFailed' = chargeFailed + (IF o = "success" THEN 0 ELSE 1)
  /\ lockContention' = lockContention + (IF o = "lockContention" THEN 1 ELSE 0)
  /\ successRate' = [trues |-> successRate.trues + (IF o = "success" THEN 1 ELSE 0),
                     total |-> successRate.total + 1]
  /\ checks' = Check(checks, CheckOf(o)[1], CheckOf(o)[2])
  /\ pc' = [pc EXCEPT ![v] = "idle"]
  /\ UNCHANGED <<iter, resp, inService, applied, cutOff, phase,
                 verification, report>>

(* The rest of the default function: chargeLatency.add, the branch with    *)
(* its counters, Rate sample and check, then the sleep.                    *)
HandleChargeResponse(v) ==
  LET o == ChargeOutcome(resp[v]) IN
  /\ pc[v] = "replied"
  /\ chargeLatency' = chargeLatency + 1
  /\ chargeSuccess' = chargeSuccess + (IF o = "success" THEN 1 ELSE 0)
  /\ chargeFailed' = chargeFailed + (IF o = "success" THEN 0 ELSE 1)
  /\ lockContention' = lockContention + (IF o = "lockContention" THEN 1 ELSE 0)
  /\ successRate' = [trues |-> successRate.trues + (IF o = "success" THEN 1 ELSE 0),
                     total |-> successRate.total + 1]
  /\ checks' = Check(checks, CheckOf(o)[1], CheckOf(o)[2])
  /\ pc' = [pc EXCEPT ![v] = "idle"]
  /\ UNCHANGED <<iter, resp, inService, applied, cutOff, phase,
                 verification, report>>

(* maxDuration ('5m') elapses before every VU is done.                     *)
MaxDurationCutOff ==
  /\ phase = "run" /\ ~cutOff
  /\ cutOff' = TRUE
  /\ UNCHANGED <<pc, iter, resp, inService, applied, metrics, phase,
                 verification, report>>

(* teardown: GET /api/points/{userId} for userId 1..min(10, USER_COUNT);   *)
(* a 200 whose body parses counts as passed, anything else as failed.      *)
teardown ==
  LET m == IF USER_COUNT < 10 THEN USER_COUNT ELSE 10 IN
  /\ phase = "run" /\ \A v \in VUs : VUFinished(v)
  /\ \E k \in (IF Faults THEN 0..m ELSE {m}) :
       verification' = [passed |-> k, failed |-> m - k]
  /\ phase' = "teardown"
  /\ UNCHANGED <<pc, iter, resp, inService, applied, cutOff, metrics, report>>

(* handleSummary: the counts, and the success percentage only when some    *)
(* charge was made (total > 0).                                            *)
handleSummary ==
  /\ phase = "teardown"
  /\ report' = [success |-> chargeSuccess, failed |-> chargeFailed,
                contention |-> lockContention,
                percentShown |-> chargeSuccess + chargeFailed > 0]
  /\ phase' = "end"
  /\ UNCHANGED <<pc, iter, resp, inService, applied, cutOff, metrics, verification>>

Finished == phase = "end" /\ UNCHANGED vars

Next ==
  \/ \E v \in VUs : SendCharge(v) \/ Timeout(v) \/ HandleChargeResponse(v)
  \/ \E r \in inService : ServeCharge(r) \/ ServiceFault(r)
  \/ MaxDurationCutOff \/ teardown \/ handleSummary \/ Finished

(* The service answers or the timeout fires; a VU resumes after its        *)
(* response; teardown and handleSummary follow the VUs.  The cutoff is not *)
(* fair: a run may finish within maxDuration.                              *)
Fairness ==
  /\ \A v \in VUs : WF_vars(Timeout(v) \/ \E r \in inService : r.vu = v /\ ServeCharge(r))
  /\ \A v \in VUs : WF_vars(HandleChargeResponse(v))
  /\ WF_vars(teardown) /\ WF_vars(handleSummary)

Spec == Init /\ [][Next]_vars /\ Fairness

-----------------------------------------------------------------------------
Bodies == {Unparsable} \cup LockBodies \cup FaultBodies

TypeOK ==
  /\ pc \in [VUs -> {"idle", "sent", "replied"}]
  /\ iter \in [VUs -> 0..CHARGES_PER_USER]
  /\ resp \in [VUs -> [status : {0, 200, 201, 409, 500}, body : Bodies]]
  /\ inService \subseteq Request
  /\ applied \in [Users -> Nat] /\ cutOff \in BOOLEAN
  /\ {chargeSuccess, chargeFailed, lockContention, chargeLatency} \subseteq Nat
  /\ successRate \in [trues : Nat, total : Nat]
  /\ checks \in [CheckNames -> [passes : Nat, fails : Nat]]
  /\ phase \in {"run", "teardown", "end"}

Busy == {v \in VUs : pc[v] # "idle"}

(* charge_success never exceeds the charges the service applied, however   *)
(* lock refusals, failures, timeouts and late applications interleave.    *)
ChargesNeverOverCounted == chargeSuccess <= SumFunction(applied)

(* Every finished iteration adds one charge_latency sample, one           *)
(* success_rate sample, and exactly one of charge_success / charge_failed *)
(* (each of the three failure branches adds charge_failed itself);        *)
(* lock_contention counts a subset of the failures.                        *)
FailuresPartitioned ==
  /\ chargeLatency = SumFunction(iter) - Cardinality(Busy)
  /\ chargeSuccess + chargeFailed = chargeLatency
  /\ successRate.total = chargeLatency /\ successRate.trues = chargeSuccess
  /\ lockContention <= chargeFailed

(* The header's aim, "concurrent requests for the same user": with        *)
(* userId = __VU, two charges of one user meet in the service only when    *)
(* at most one of them is still awaited, the other left behind by a client *)
(* timeout; lock contention needs such a leftover.                         *)
Awaited(r) == pc[r.vu] = "sent" /\ iter[r.vu] = r.n

SameUserOverlapOnlyAfterTimeout ==
  \A r1, r2 \in inService :
    r1 # r2 /\ r1.user = r2.user => ~(Awaited(r1) /\ Awaited(r2))

(* The VU loop implements the outcome ledger.                              *)
Ledger == INSTANCE OutcomeLedger WITH
  busy <- [v \in VUs |-> pc[v] # "idle"],
  tally <- [success |-> chargeSuccess,
            expectedFailure |-> lockContention,
            unexpectedFailure |-> checks["unexpected charge error"].fails,
            parseError |-> checks["parse error response"].fails]

LedgerSpec == Ledger!Spec

=============================================================================
