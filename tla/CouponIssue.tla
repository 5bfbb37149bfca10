---------------------------- MODULE CouponIssue ----------------------------
(***************************************************************************)
(* The first-come coupon rush of src/k6/coupon-issue-test.js.              *)
(*                                                                         *)
(* Each virtual user (VU) loops over the script's default function: draw   *)
(* a random userId, POST /api/coupons/issue, classify the response, add    *)
(* to the custom metrics and checks, sleep.  The coupon service under test *)
(* (not under src/, modelled from the contract of spec section 6) holds a  *)
(* limited stock and refuses a second coupon to the same user.  Requests   *)
(* may time out in transport (k6 then returns status 0 and a null body),   *)
(* before or after the service acted on them.  When the run ends, VUs     *)
(* finish their iteration and handleSummary prints the totals.             *)
(***************************************************************************)
EXTENDS Naturals, FiniteSets, K6Response

CONSTANTS
  VUs,            \* virtual users (model values)
  MAX_USERS,      \* randomUserId(MAX_USERS) draws from 1..MAX_USERS
  Stock,          \* coupons the service may issue (500 in the script header)
  MaxIters,       \* bound on iterations started in one run
  SoldOutBodies,      \* bodies the service sends with a sold-out refusal
  AlreadyIssuedBodies,\* bodies the service sends with a duplicate refusal
  FaultBodies,        \* bodies of a 5xx answer
  Faults          \* TRUE: the service may fail and transport may time out

ASSUME MAX_USERS \in Nat \ {0} /\ Stock \in Nat /\ MaxIters \in Nat
ASSUME Faults \in BOOLEAN

VARIABLES
  pc,            \* per VU: "idle" | "sent" (awaiting the service) | "replied"
  userOf,        \* per VU: userId of its current request
  resp,          \* per VU: the response http.post returns
  issued,        \* service: the users holding the coupon
  iters,         \* iterations started so far (bounded by MaxIters)
  running,       \* the scenario's stages have not yet elapsed
  couponIssued, couponSoldOut, couponDuplicate,   \* Counter metrics
  successRate,   \* Rate metric: [trues, total]
  issueLatency,  \* Trend metric: number of latency samples
  checks,        \* k6 checks: name -> [passes, fails]
  report         \* the totals handleSummary prints, NoReport before

vars == <<pc, userOf, resp, issued, iters, running, couponIssued,
          couponSoldOut, couponDuplicate, successRate, issueLatency,
          checks, report>>

(* The users the service knows.                                          *)
Users == 1..MAX_USERS

(* Mutant: the "+ 1" of randomUserId dropped.                              *)
randomUserIdNoOffset(max) == 0..(max - 1)

(* common.js randomUserId(maxUserId): Math.floor(Math.random() * max) + 1 *)
randomUserId(max) == 1..max

CheckNames == {"coupon issued successfully", "coupon sold out (expected)",
               "duplicate issue prevented", "unexpected error",
               "parse error response"}

NoReport == [issued |-> 0, soldOut |-> 0, duplicate |-> 0, total |-> 0,
             printed |-> FALSE]

(* k6 returns status 0 and a null body when the request fails in transport; *)
(* JSON.parse(null) yields null and reading .code of it throws.             *)
TransportError == [status |-> 0, body |-> Unparsable]

-----------------------------------------------------------------------------
(* Mutant: the upper bound of isSuccess off by a hundred and one.          *)
isSuccessUpTo400(r) == r.status >= 200 /\ r.status <= 400

(* common.js isSuccess: 2xx.                                               *)
isSuccess(r) == r.status >= 200 /\ r.status < 300

(* The two signatures the script accepts as expected business failures.    *)
IsSoldOut(b) == b.code = "COUPON_SOLD_OUT" \/ "sold out" \in b.message
IsAlreadyIssued(b) == b.code = "COUPON_ALREADY_ISSUED" \/ "already" \in b.message

(* The branch of the default function a response takes.                    *)
IssueOutcome(r) ==
  IF isSuccess(r) THEN "issued"
  ELSE IF ~r.body.parsed THEN "parseError"
  ELSE IF IsSoldOut(r.body) THEN "soldOut"
  ELSE IF IsAlreadyIssued(r.body) THEN "duplicate"
  ELSE "unexpected"

(* check(response, {name: cond}) adds one pass or one fail to the check.   *)
Check(c, name, ok) ==
  [c EXCEPT ![name] = IF ok THEN [@ EXCEPT !.passes = @ + 1]
                            ELSE [@ EXCEPT !.fails = @ + 1]]

(* The check each branch records.                                          *)
CheckOf(r) ==
  CASE IssueOutcome(r) = "issued"     -> <<"coupon issued successfully",
                                           r.status \in {200, 201}>>
    [] IssueOutcome(r) = "soldOut"    -> <<"coupon sold out (expected)", TRUE>>
    [] IssueOutcome(r) = "duplicate"  -> <<"duplicate issue prevented", TRUE>>
    [] IssueOutcome(r) = "unexpected" -> <<"unexpected error", FALSE>>
    [] IssueOutcome(r) = "parseError" -> <<"parse error response", FALSE>>

-----------------------------------------------------------------------------
Init ==
  /\ pc = [v \in VUs |-> "idle"]
  /\ userOf = [v \in VUs |-> 1]
  /\ resp = [v \in VUs |-> TransportError]
  /\ issued = {}
  /\ iters = 0
  /\ running = TRUE
  /\ couponIssued = 0 /\ couponSoldOut = 0 /\ couponDuplicate = 0
  /\ successRate = [trues |-> 0, total |-> 0]
  /\ issueLatency = 0
  /\ checks = [n \in CheckNames |-> [passes |-> 0, fails |-> 0]]
  /\ report = NoReport

(* Start of an iteration: randomUserId(MAX_USERS), build the payload and   *)
(* dispatch http.post; the VU is suspended until the response.            *)
SendIssue(v) ==
  /\ running /\ pc[v] = "idle" /\ iters < MaxIters
  /\ \E u \in randomUserId(MAX_USERS) : userOf' = [userOf EXCEPT ![v] = u]
  /\ pc' = [pc EXCEPT ![v] = "sent"]
  /\ iters' = iters + 1
  /\ UNCHANGED <<resp, issued, running, couponIssued, couponSoldOut,
                 couponDuplicate, successRate, issueLatency, checks, report>>

(* The coupon service handles one request atomically (its own locking is   *)
(* outside the harness).  When the user already holds a coupon and the     *)
(* stock is gone either refusal may come first.                            *)
ServeIssue(v) ==
  LET u == userOf[v] IN
  /\ pc[v] = "sent"
  /\ \/ /\ u \notin issued /\ Cardinality(issued) < Stock
        /\ issued' = issued \cup {u}
        /\ \E s \in {200, 201} :
             resp' = [resp EXCEPT ![v] = [status |-> s, body |-> Unparsable]]
     \/ /\ u \in issued /\ issued' = issued
        /\ \E s \in {400, 409}, b \in AlreadyIssuedBodies :
             resp' = [resp EXCEPT ![v] = [status |-> s, body |-> b]]
     \/ /\ Cardinality(issued) >= Stock /\ issued' = issued
        /\ \E s \in {400, 409}, b \in SoldOutBodies :
             resp' = [resp EXCEPT ![v] = [status |-> s, body |-> b]]
  /\ pc' = [pc EXCEPT ![v] = "replied"]
  /\ UNCHANGED <<userOf, iters, running, couponIssued, couponSoldOut,
                 couponDuplicate, successRate, issueLatency, checks, report>>

(* The service fails the request without issuing.                          *)
ServiceFault(v) ==
  /\ Faults /\ pc[v] = "sent"
  /\ \E b \in FaultBodies :
       resp' = [resp EXCEPT ![v] = [status |-> 500, body |-> b]]
  /\ pc' = [pc EXCEPT ![v] = "replied"]
  /\ UNCHANGED <<userOf, issued, iters, running, couponIssued, couponSoldOut,
                 couponDuplicate, successRate, issueLatency, checks, report>>

(* The http timeout fires: before the service saw the request, or after it *)
(* acted but before its answer arrived.                                    *)
Timeout(v) ==
  /\ Faults /\ pc[v] \in {"sent", "replied"}
  /\ resp' = [resp EXCEPT ![v] = TransportError]
  /\ pc' = [pc EXCEPT ![v] = "replied"]
  /\ UNCHANGED <<userOf, issued, iters, running, couponIssued, couponSoldOut,
                 couponDuplicate, successRate, issueLatency, checks, report>>

(* Mutants of the handler: issueLatency.add moved into the success branch; *)
(* a missing "else" letting a sold-out refusal fall into the duplicate     *)
(* branch.                                                                 *)
HandleLatencyOnSuccess(v) ==
  LET o == IssueOutcome(resp[v]) IN
  /\ pc[v] = "replied"
  /\ issueLatency' = issueLatency + (IF o = "issued" THEN 1 ELSE 0)
  /\ couponIssued' = couponIssued + (IF o = "issued" THEN 1 ELSE 0)
  /\ couponSoldOut' = couponSoldOut + (IF o = "soldOut" THEN 1 ELSE 0)
  /\ couponDuplicate' = couponDuplicate + (IF o = "duplicate" THEN 1 ELSE 0)
  /\ successRate' = [trues |-> successRate.trues + (IF o = "issued" THEN 1 ELSE 0),
                     total |-> successRate.total + 1]
  /\ checks' = Check(checks, CheckOf(resp[v])[1], CheckOf(resp[v])[2])
  /\ pc' = [pc EXCEPT ![v] = "idle"]
  /\ UNCHANGED <<userOf, resp, issued, iters, running, report>>

HandleSoldOutFallsThrough(v) ==
  LET o == IssueOutcome(resp[v]) IN
  /\ pc[v] = "replied"
  /\ issueLatency' = issueLatency + 1
  /\ couponIssued' = couponIssued + (IF o = "issued" THEN 1 ELSE 0)
  /\ couponSoldOut' = couponSoldOut + (IF o = "soldOut" THEN 1 ELSE 0)
  /\ couponDuplicate' = couponDuplicate + (IF o \in {"soldOut", "duplicate"} THEN 1 ELSE 0)
  /\ successRate' = [trues |-> successRate.trues + (IF o = "issued" THEN 1 ELSE 0),
                     total |-> successRate.total + 1]
  /\ checks' = Check(checks, CheckOf(resp[v])[1], CheckOf(resp[v])[2])
  /\ pc' = [pc EXCEPT ![v] = "idle"]
  /\ UNCHANGED <<userOf, resp, issued, iters, running, report>>

(* The rest of the default function: issueLatency.add, the branch on the   *)
(* response with its counters, Rate sample and check, then sleep(0.1).     *)
HandleIssueResponse(v) ==
  LET r == resp[v]
      o == IssueOutcome(r)
  IN
  /\ pc[v] = "replied"
  /\ issueLatency' = issueLatency + 1
  /\ couponIssued' = couponIssued + (IF o = "issued" THEN 1 ELSE 0)
  /\ couponSoldOut' = couponSoldOut + (IF o = "soldOut" THEN 1 ELSE 0)
  /\ couponDuplicate' = couponDuplicate + (IF o = "duplicate" THEN 1 ELSE 0)
  /\ successRate' = [trues |-> successRate.trues + (IF o = "issued" THEN 1 ELSE 0),
                     total |-> successRate.total + 1]
  /\ checks' = Check(checks, CheckOf(r)[1], CheckOf(r)[2])
  /\ pc' = [pc EXCEPT ![v] = "idle"]
  /\ UNCHANGED <<userOf, resp, issued, iters, running, report>>

(* The last stage elapses: no new iterations start, running ones finish.   *)
EndRun ==
  /\ running
  /\ running' = FALSE
  /\ UNCHANGED <<pc, userOf, resp, issued, iters, couponIssued, couponSoldOut,
                 couponDuplicate, successRate, issueLatency, checks, report>>

(* Mutant: the summary taken without waiting for the VUs to finish.      *)
handleSummaryEarly ==
  /\ ~running /\ ~report.printed
  /\ report' = [issued |-> couponIssued, soldOut |-> couponSoldOut,
                duplicate |-> couponDuplicate,
                total |-> couponIssued + couponSoldOut + couponDuplicate,
                printed |-> TRUE]
  /\ UNCHANGED <<pc, userOf, resp, issued, iters, running, couponIssued,
                 couponSoldOut, couponDuplicate, successRate, issueLatency, checks>>

(* handleSummary, once every VU has finished: issued, soldOut, duplicate   *)
(* and the "총 요청" (total requests) line, their sum.                      *)
handleSummary ==
  /\ ~running /\ ~report.printed
  /\ \A v \in VUs : pc[v] = "idle"
  /\ report' = [issued |-> couponIssued, soldOut |-> couponSoldOut,
                duplicate |-> couponDuplicate,
                total |-> couponIssued + couponSoldOut + couponDuplicate,
                printed |-> TRUE]
  /\ UNCHANGED <<pc, userOf, resp, issued, iters, running, couponIssued,
                 couponSoldOut, couponDuplicate, successRate, issueLatency, checks>>

(* The run is over.                                                        *)
Finished == report.printed /\ UNCHANGED vars

Next ==
  \/ \E v \in VUs :
       SendIssue(v) \/ ServeIssue(v) \/ ServiceFault(v) \/ Timeout(v)
       \/ HandleIssueResponse(v)
  \/ EndRun \/ handleSummary \/ Finished

(* A response or the http timeout always comes, a VU always resumes after  *)
(* it, the stages are finite and handleSummary runs once the VUs stop.     *)
Fairness ==
  /\ \A v \in VUs : WF_vars(ServeIssue(v) \/ Timeout(v) \/ ServiceFault(v))
  /\ \A v \in VUs : WF_vars(HandleIssueResponse(v))
  /\ WF_vars(EndRun) /\ WF_vars(handleSummary)

Spec == Init /\ [][Next]_vars /\ Fairness

-----------------------------------------------------------------------------
Statuses == {0, 200, 201, 400, 409, 500}
Bodies == {Unparsable} \cup SoldOutBodies \cup AlreadyIssuedBodies \cup FaultBodies

TypeOK ==
  /\ pc \in [VUs -> {"idle", "sent", "replied"}]
  /\ userOf \in [VUs -> Users]
  /\ resp \in [VUs -> [status : Statuses, body : Bodies]]
  /\ issued \subseteq Users
  /\ iters \in 0..MaxIters /\ running \in BOOLEAN
  /\ {couponIssued, couponSoldOut, couponDuplicate, issueLatency} \subseteq Nat
  /\ successRate \in [trues : Nat, total : Nat]
  /\ checks \in [CheckNames -> [passes : Nat, fails : Nat]]

Busy == {v \in VUs : pc[v] # "idle"}

(* The coupon_issued counter never exceeds the coupons the service really  *)
(* issued: a response the script counts as issued (isSuccess) is always    *)
(* one on which the service handed out a coupon, whatever refusals,        *)
(* failures and timeouts interleave.  This is what makes the script's     *)
(* threshold 'coupon_issued': ['count<=500'] a sound check of the service. *)
HarnessNeverOverCounts == couponIssued <= Cardinality(issued)

(* The sinks agree: every finished iteration added one issueLatency sample *)
(* and one success_rate sample, and success_rate's true samples are       *)
(* exactly the coupon_issued count; no iteration in flight has added any.  *)
SinksAgree ==
  /\ issueLatency = iters - Cardinality(Busy)
  /\ successRate.total = issueLatency
  /\ successRate.trues = couponIssued

(* The VU loop implements the outcome ledger: each iteration ends with     *)
(* exactly one classification, counted in the counters and failed checks.  *)
Ledger == INSTANCE OutcomeLedger WITH
  busy <- [v \in VUs |-> pc[v] # "idle"],
  tally <- [success |-> couponIssued,
            expectedFailure |-> couponSoldOut + couponDuplicate,
            unexpectedFailure |-> checks["unexpected error"].fails,
            parseError |-> checks["parse error response"].fails]

LedgerSpec == Ledger!Spec

(* The header's goal "exactly 500 succeed" as the printed count shows it:  *)
(* a run whose checks record no failed 'unexpected error' and no failed    *)
(* 'parse error response' prints exactly the number of coupons the service *)
(* issued; an issuance lost to a 5xx or a timeout always shows up as one   *)
(* of those failed checks.                                                 *)
IssuedCountExact ==
  report.printed /\ checks["unexpected error"].fails = 0
                 /\ checks["parse error response"].fails = 0
    => report.issued = Cardinality(issued)

(* The "총 요청" (total requests) line of handleSummary counts every       *)
(* request the run made.                                                   *)
ReportTotalCountsAllRequests == report.printed => report.total = successRate.total

(* Spec 8: with a correct service, every request that is not issued is     *)
(* refused as sold out, and no response is unexpected.                     *)
OnlySoldOutRejections ==
  report.printed =>
    /\ report.soldOut = successRate.total - report.issued
    /\ checks["unexpected error"].fails = 0

=============================================================================
