---------------------------- MODULE OrderCreate ----------------------------
(***************************************************************************)
(* The order load test of src/k6/order-create-test.js.                     *)
(*                                                                         *)
(* Each VU loops: draw a random userId, POST /api/orders for one unit of   *)
(* PRODUCT_ID, add a latency sample, then count the order as created on    *)
(* 200/201 or, for any other answer, parse the body and count a stock      *)
(* refusal when its code is STOCK_INSUFFICIENT or INSUFFICIENT_STOCK or    *)
(* its message contains "stock" or "재고"; sleep.  The order service (spec *)
(* 6) holds the product's stock.                                           *)
(***************************************************************************)
EXTENDS Naturals, K6Response

CONSTANTS
  VUs,            \* virtual users (model values)
  MAX_USERS,      \* randomUserId(MAX_USERS)
  InitialStock,   \* units of PRODUCT_ID (1,000 in the header)
  MaxIters,       \* bound on iterations started
  StockBodies,    \* bodies the service sends with a stock refusal
  FaultBodies,    \* bodies of a 5xx answer
  Faults          \* TRUE: the service may fail and transport may time out

VARIABLES
  pc,             \* per VU: "idle" | "sent" | "replied"
  userOf,         \* per VU: the userId of its payload
  resp,           \* per VU: the response of its request
  stock,          \* service: units of PRODUCT_ID left
  iters, running,
  orderCreated, stockInsufficient,   \* Counter metrics
  orderLatency,                      \* Trend metric: number of samples
  successRate,                       \* Rate metric: [trues, total]
  checks,
  report          \* handleSummary: [created, insufficient, total, printed]

vars == <<pc, userOf, resp, stock, iters, running, orderCreated, stockInsufficient,
          orderLatency, successRate, checks, report>>
metrics == <<orderCreated, stockInsufficient, orderLatency, successRate, checks>>

CheckNames == {"order created successfully", "stock insufficient (expected)",
               "unexpected error", "parse error response"}
TransportError == [status |-> 0, body |-> Unparsable]
Users == 1..MAX_USERS

(* Mutant: the "+ 1" of randomUserId dropped.                              *)
randomUserIdNoOffset(max) == 0..(max - 1)

(* common.js randomUserId(maxUserId): Math.floor(Math.random() * max) + 1 *)
randomUserId(max) == 1..max

-----------------------------------------------------------------------------
(* Mutant: an answer counts as created unless it is a 500.                 *)
OrderSucceededNot500(r) == r.status # 500

(* response.status === 200 || response.status === 201                      *)
OrderSucceeded(r) == r.status \in {200, 201}

(* The stock-refusal signature of lines 84-87.                             *)
IsStockInsufficient(b) ==
  \/ b.code \in {"STOCK_INSUFFICIENT", "INSUFFICIENT_STOCK"}
  \/ "stock" \in b.message
  \/ "재고" \in b.message

(* Mutant: the catch block's check written "() => true".                  *)
OrderCheckParsePasses(r) ==
  CASE OrderSucceeded(r) -> [name |-> "order created successfully", pass |-> TRUE]
    [] ~r.body.parsed -> [name |-> "parse error response", pass |-> TRUE]
    [] IsStockInsufficient(r.body) ->
         [name |-> "stock insufficient (expected)", pass |-> TRUE]
    [] OTHER -> [name |-> "unexpected error", pass |-> FALSE]

(* The check a response records: [name, passed].                           *)
OrderCheck(r) ==
  CASE OrderSucceeded(r) -> [name |-> "order created successfully", pass |-> TRUE]
    [] ~r.body.parsed -> [name |-> "parse error response", pass |-> FALSE]
    [] IsStockInsufficient(r.body) ->
         [name |-> "stock insufficient (expected)", pass |-> TRUE]
    [] OTHER -> [name |-> "unexpected error", pass |-> FALSE]

-----------------------------------------------------------------------------
Init ==
  /\ pc = [v \in VUs |-> "idle"]
  /\ userOf = [v \in VUs |-> 1]
  /\ resp = [v \in VUs |-> TransportError]
  /\ stock = InitialStock
  /\ iters = 0 /\ running = TRUE
  /\ orderCreated = 0 /\ stockInsufficient = 0 /\ orderLatency = 0
  /\ successRate = [trues |-> 0, total |-> 0]
  /\ checks = [n \in CheckNames |-> [passes |-> 0, fails |-> 0]]
  /\ report = [created |-> 0, insufficient |-> 0, total |-> 0, printed |-> FALSE]

(* An iteration starts: randomUserId(MAX_USERS), then POST /api/orders    *)
(* for one unit of PRODUCT_ID.                                             *)
SendOrder(v) ==
  /\ running /\ pc[v] = "idle" /\ iters < MaxIters
  /\ \E u \in randomUserId(MAX_USERS) : userOf' = [userOf EXCEPT ![v] = u]
  /\ pc' = [pc EXCEPT ![v] = "sent"]
  /\ iters' = iters + 1
  /\ UNCHANGED <<resp, stock, running, metrics, report>>

(* The service takes one unit, or refuses for stock.                       *)
ServeOrder(v) ==
  /\ pc[v] = "sent"
  /\ \/ /\ stock > 0 /\ stock' = stock - 1
        /\ \E s \in {200, 201} :
             resp' = [resp EXCEPT ![v] = [status |-> s, body |-> Unparsable]]
     \/ /\ stock = 0 /\ stock' = 0
        /\ \E s \in {400, 409}, b \in StockBodies :
             resp' = [resp EXCEPT ![v] = [status |-> s, body |-> b]]
  /\ pc' = [pc EXCEPT ![v] = "replied"]
  /\ UNCHANGED <<userOf, iters, running, metrics, report>>

(* The service fails the request without taking stock.                     *)
ServiceFault(v) ==
  /\ Faults /\ pc[v] = "sent"
  /\ \E b \in FaultBodies : resp' = [resp EXCEPT ![v] = [status |-> 500, body |-> b]]
  /\ pc' = [pc EXCEPT ![v] = "replied"]
  /\ UNCHANGED <<userOf, stock, iters, running, metrics, report>>

(* The http timeout fires, before or after the service acted.              *)
Timeout(v) ==
  /\ Faults /\ pc[v] \in {"sent", "replied"}
  /\ resp' = [resp EXCEPT ![v] = TransportError]
  /\ pc' = [pc EXCEPT ![v] = "replied"]
  /\ UNCHANGED <<userOf, stock, iters, running, metrics, report>>

(* The rest of the default function: orderLatency.add, the counters, the   *)
(* Rate sample and one check, then sleep(0.5).                             *)
HandleOrderResponse(v) ==
  LET r == resp[v]
      ok == OrderSucceeded(r)
      c == OrderCheck(r)
  IN
  /\ pc[v] = "replied"
  /\ orderLatency' = orderLatency + 1
  /\ orderCreated' = IF ok THEN orderCreated + 1 ELSE orderCreated
  /\ stockInsufficient' = IF c.name = "stock insufficient (expected)"
                          THEN stockInsufficient + 1 ELSE stockInsufficient
  /\ successRate' = [trues |-> successRate.trues + (IF ok THEN 1 ELSE 0),
                     total |-> successRate.total + 1]
  /\ checks' = [checks EXCEPT ![c.name] =
                  IF c.pass THEN [@ EXCEPT !.passes = @ + 1] ELSE [@ EXCEPT !.fails = @ + 1]]
  /\ pc' = [pc EXCEPT ![v] = "idle"]
  /\ UNCHANGED <<userOf, resp, stock, iters, running, report>>

(* The stages elapse: no iteration starts after this.                      *)
EndRun ==
  /\ running /\ running' = FALSE
  /\ UNCHANGED <<pc, userOf, resp, stock, iters, metrics, report>>

(* Mutant: the summary taken without waiting for the VUs to finish.      *)
handleSummaryEarly ==
  /\ ~running /\ ~report.printed
  /\ report' = [created |-> orderCreated, insufficient |-> stockInsufficient,
                total |-> orderCreated + stockInsufficient, printed |-> TRUE]
  /\ UNCHANGED <<pc, userOf, resp, stock, iters, running, metrics>>

(* handleSummary, once every VU is idle: created, insufficient and the     *)
(* "총 요청" (total requests) line, their sum.                              *)
handleSummary ==
  /\ ~running /\ ~report.printed /\ \A v \in VUs : pc[v] = "idle"
  /\ report' = [created |-> orderCreated, insufficient |-> stockInsufficient,
                total |-> orderCreated + stockInsufficient, printed |-> TRUE]
  /\ UNCHANGED <<pc, userOf, resp, stock, iters, running, metrics>>

Finished == report.printed /\ UNCHANGED vars

Next ==
  \/ \E v \in VUs :
       SendOrder(v) \/ ServeOrder(v) \/ ServiceFault(v) \/ Timeout(v)
       \/ HandleOrderResponse(v)
  \/ EndRun \/ handleSummary \/ Finished

(* An answer or the http timeout always comes, a VU with one resumes, the  *)
(* stages end and handleSummary runs.                                      *)
Fairness ==
  /\ \A v \in VUs : WF_vars(ServeOrder(v) \/ ServiceFault(v) \/ Timeout(v))
  /\ \A v \in VUs : WF_vars(HandleOrderResponse(v))
  /\ WF_vars(EndRun) /\ WF_vars(handleSummary)

Spec == Init /\ [][Next]_vars /\ Fairness

-----------------------------------------------------------------------------
TypeOK ==
  /\ pc \in [VUs -> {"idle", "sent", "replied"}]
  /\ userOf \in [VUs -> Users]
  /\ resp \in [VUs -> [status : {0, 200, 201, 400, 409, 500},
                       body : {Unparsable} \cup StockBodies \cup FaultBodies]]
  /\ stock \in 0..InitialStock
  /\ iters \in 0..MaxIters
  /\ successRate.trues <= successRate.total

(* order_created never exceeds the units the service really sold: only a   *)
(* 200/201 answer is counted, and a timeout after a sale only leaves the   *)
(* count short.                                                            *)
OrdersNeverOverCounted == orderCreated <= InitialStock - stock

(* The VU loop refines OutcomeLedger: stock refusals are the expected      *)
(* failures, the failed checks the others.                                 *)
Ledger == INSTANCE OutcomeLedger WITH
  busy <- [v \in VUs |-> pc[v] # "idle"],
  tally <- [success |-> orderCreated,
            expectedFailure |-> stockInsufficient,
            unexpectedFailure |-> checks["unexpected error"].fails,
            parseError |-> checks["parse error response"].fails]
LedgerSpec == Ledger!Spec

(* The header's goal "1,000 succeed, 1,000 fail for stock", as printed: a  *)
(* run whose checks record no failed 'unexpected error' and no failed      *)
(* 'parse error response' prints as created exactly the units sold and     *)
(* every other request as a stock refusal, whichever of the four refusal   *)
(* signatures the service uses; a sale lost to a 5xx or a timeout always   *)
(* shows up as one of those failed checks.                                 *)
SoldAndRefusedExact ==
  report.printed /\ checks["unexpected error"].fails = 0
                 /\ checks["parse error response"].fails = 0
    => /\ report.created = InitialStock - stock
       /\ report.insufficient = successRate.total - report.created

=============================================================================
