------------------------------ MODULE Payment ------------------------------
(***************************************************************************)
(* The order payment stress test of src/k6/payment-test.js.                *)
(*                                                                         *)
(* setup() creates orders for users 1..SETUP_ORDERS and returns them; the  *)
(* VU function receives them as data but never reads them.  Each VU        *)
(* iteration creates an order for a random user and product, returns early *)
(* (counting payment_failed) when the order status is not 200/201, its     *)
(* body does not parse, or it carries no id, and otherwise pays the order  *)
(* with 1000 points or none and coupon 1 or none.  The service (spec 6)    *)
(* keeps product stock, orders, point balances and the users' coupons.    *)
(***************************************************************************)
EXTENDS Naturals, FiniteSets, Sequences, K6Response

CONSTANTS
  VUs,            \* virtual users (model values)
  MAX_USERS,      \* randomUserId(MAX_USERS)
  PRODUCTS,       \* Math.floor(Math.random() * PRODUCTS) + 1 (10 in the script)
  SETUP_ORDERS,   \* orders setup() creates (100 in the script)
  InitialStock,   \* per product
  InitialPoints,  \* per user
  CouponHolders,  \* users holding coupon 1
  MaxIters,       \* bound on iterations started
  Faults          \* TRUE: failures, timeouts and malformed 2xx bodies occur

ASSUME SETUP_ORDERS <= MAX_USERS /\ Faults \in BOOLEAN

Users == 1..MAX_USERS
Products == 1..PRODUCTS
OrderIds == 1..(SETUP_ORDERS + MaxIters)

VARIABLES
  pc,        \* per VU: "idle" | "orderSent" | "orderReplied" | "paySent" | "payReplied"
  cur,       \* per VU: [user, product, orderId, usePoint, coupon] of its iteration
  resp,      \* per VU: response of its current request
  stock,     \* service: units left per product
  orders,    \* service: orderId -> [user, paid]
  points,    \* service: balance per user
  coupons,   \* service: users still holding an unused coupon 1
  setupDone, setupOrders,   \* setup() has run; the orders it returned
  iters, running,
  paymentSuccess, paymentFailed,   \* Counter metrics
  paymentLatency,                  \* Trend metric: number of samples
  successRate,                     \* Rate metric: [trues, total]
  checks,
  report                           \* handleSummary: [printed, ratioDefined]

vars == <<pc, cur, resp, stock, orders, points, coupons, setupDone,
          setupOrders, iters, running, paymentSuccess, paymentFailed,
          paymentLatency, successRate, checks, report>>
service == <<stock, orders, points, coupons>>
metrics == <<paymentSuccess, paymentFailed, paymentLatency, successRate, checks>>

NoCoupon == 0          \* couponId: null
CheckNames == {"payment completed", "business error (expected)",
               "unexpected payment error", "parse payment error"}
TransportError == [status |-> 0, body |-> Unparsable]

(* What an order response's body yields for body.orderId || body.id: an    *)
(* id, nothing (a body without either field), or a parse failure.          *)
OrderBody(id) == [parsed |-> TRUE, code |-> "none", message |-> {}, id |-> id]
NoIdBody == OrderBody(0)
UnparsableOrder == [parsed |-> FALSE, code |-> "none", message |-> {}, id |-> 0]

-----------------------------------------------------------------------------
(* The service creates order Len(orders) + 1, taking one unit of stock.    *)
CreateOrder(u, p) ==
  /\ stock[p] > 0
  /\ stock' = [stock EXCEPT ![p] = @ - 1]
  /\ orders' = Append(orders, [user |-> u, paid |-> FALSE])

(* The service pays an unpaid order, or refuses on points or coupon.       *)
PaymentAnswer(id, usePoint, coupon) ==
  LET u == orders[id].user IN
  CASE points[u] < usePoint ->
         [status |-> 400, body |-> Body("POINT_INSUFFICIENT", {})]
    [] coupon # NoCoupon /\ u \notin coupons ->
         [status |-> 400, body |-> Body("COUPON_NOT_FOUND", {})]
    [] OTHER -> [status |-> 200, body |-> Unparsable]

-----------------------------------------------------------------------------
Init ==
  /\ pc = [v \in VUs |-> "idle"]
  /\ cur = [v \in VUs |-> [user |-> 1, product |-> 1, orderId |-> 0,
                           usePoint |-> 0, coupon |-> NoCoupon]]
  /\ resp = [v \in VUs |-> TransportError]
  /\ stock = [p \in Products |-> InitialStock]
  /\ orders = <<>>
  /\ points = [u \in Users |-> InitialPoints]
  /\ coupons = CouponHolders
  /\ setupDone = FALSE /\ setupOrders = 0
  /\ iters = 0 /\ running = TRUE
  /\ paymentSuccess = 0 /\ paymentFailed = 0 /\ paymentLatency = 0
  /\ successRate = [trues |-> 0, total |-> 0]
  /\ checks = [n \in CheckNames |-> [passes |-> 0, fails |-> 0]]
  /\ report = [printed |-> FALSE, ratioDefined |-> FALSE]

(* setup(): for users 1..SETUP_ORDERS, POST an order of product 1 and keep *)
(* those answered 200/201 whose body parses with an id.  The service      *)
(* creates them while product 1 lasts; with faults some created orders     *)
(* are not returned and some requests create nothing.                      *)
setup ==
  LET n == IF SETUP_ORDERS < InitialStock THEN SETUP_ORDERS ELSE InitialStock IN
  /\ ~setupDone
  /\ \E c \in (IF Faults THEN 0..n ELSE {n}) :
       /\ stock' = [stock EXCEPT ![1] = @ - c]
       /\ orders' = [i \in 1..c |-> [user |-> i, paid |-> FALSE]]
       /\ setupOrders' \in (IF Faults THEN 0..c ELSE {c})
  /\ setupDone' = TRUE
  /\ UNCHANGED <<pc, cur, resp, points, coupons, iters, running, metrics, report>>

(* Mutant: randomProductId without the "+ 1".                              *)
randomProductFrom0 == 0..(PRODUCTS - 1)

(* productId: Math.floor(Math.random() * 10) + 1                           *)
randomProduct == 1..PRODUCTS

(* An iteration starts: userId = randomUserId(MAX_USERS), then POST        *)
(* /api/orders with one unit of a random product.                          *)
SendOrder(v) ==
  /\ running /\ setupDone /\ pc[v] = "idle" /\ iters < MaxIters
  /\ \E u \in Users, p \in randomProduct :
       cur' = [cur EXCEPT ![v] = [@ EXCEPT !.user = u, !.product = p, !.orderId = 0]]
  /\ pc' = [pc EXCEPT ![v] = "orderSent"]
  /\ iters' = iters + 1
  /\ UNCHANGED <<resp, service, setupDone, setupOrders, running, metrics, report>>

(* The service creates the order or refuses it for stock.                  *)
ServeOrder(v) ==
  LET u == cur[v].user  p == cur[v].product IN
  /\ pc[v] = "orderSent"
  /\ \/ /\ CreateOrder(u, p)
        /\ \E s \in {200, 201} :
             resp' = [resp EXCEPT ![v] = [status |-> s, body |-> OrderBody(Len(orders) + 1)]]
     \/ /\ stock[p] = 0
        /\ resp' = [resp EXCEPT ![v] = [status |-> 409, body |-> Body("STOCK_INSUFFICIENT", {})]]
        /\ UNCHANGED <<stock, orders>>
  /\ pc' = [pc EXCEPT ![v] = "orderReplied"]
  /\ UNCHANGED <<cur, points, coupons, setupDone, setupOrders, iters, running, metrics, report>>

(* A 2xx order answer whose body lacks an id or does not parse.            *)
MalformedOrder(v) ==
  /\ Faults /\ pc[v] = "orderSent"
  /\ CreateOrder(cur[v].user, cur[v].product)
  /\ \E b \in {NoIdBody, UnparsableOrder} :
       resp' = [resp EXCEPT ![v] = [status |-> 200, body |-> b]]
  /\ pc' = [pc EXCEPT ![v] = "orderReplied"]
  /\ UNCHANGED <<cur, points, coupons, setupDone, setupOrders, iters, running, metrics, report>>

(* The service pays the order: marks it paid, takes the points, uses the   *)
(* coupon; or refuses on points or coupon.                                 *)
ServePayment(v) ==
  LET c == cur[v]
      a == PaymentAnswer(c.orderId, c.usePoint, c.coupon)
      u == orders[c.orderId].user
  IN
  /\ pc[v] = "paySent"
  /\ resp' = [resp EXCEPT ![v] = a]
  /\ IF a.status = 200
     THEN /\ orders' = [orders EXCEPT ![c.orderId].paid = TRUE]
          /\ points' = [points EXCEPT ![u] = @ - c.usePoint]
          /\ coupons' = IF c.coupon = NoCoupon THEN coupons ELSE coupons \ {u}
     ELSE UNCHANGED <<orders, points, coupons>>
  /\ pc' = [pc EXCEPT ![v] = "payReplied"]
  /\ UNCHANGED <<cur, stock, setupDone, setupOrders, iters, running, metrics, report>>

(* The service fails either request without acting.                        *)
ServiceFault(v) ==
  /\ Faults /\ pc[v] \in {"orderSent", "paySent"}
  /\ \E b \in {Body("INTERNAL_SERVER_ERROR", {}), Unparsable} :
       resp' = [resp EXCEPT ![v] = [status |-> 500, body |-> b]]
  /\ pc' = [pc EXCEPT ![v] = IF @ = "orderSent" THEN "orderReplied" ELSE "payReplied"]
  /\ UNCHANGED <<cur, service, setupDone, setupOrders, iters, running, metrics, report>>

(* The http timeout fires, before or after the service acted.              *)
Timeout(v) ==
  /\ Faults /\ pc[v] \in {"orderSent", "orderReplied", "paySent", "payReplied"}
  /\ resp' = [resp EXCEPT ![v] = TransportError]
  /\ pc' = [pc EXCEPT ![v] = IF @ \in {"orderSent", "orderReplied"}
                             THEN "orderReplied" ELSE "payReplied"]
  /\ UNCHANGED <<cur, service, setupDone, setupOrders, iters, running, metrics, report>>

(* The iteration's locals (cur, resp) go out of scope when it returns.    *)
EndIteration(v) ==
  /\ pc' = [pc EXCEPT ![v] = "idle"]
  /\ cur' = [cur EXCEPT ![v] = [user |-> 1, product |-> 1, orderId |-> 0,
                                usePoint |-> 0, coupon |-> NoCoupon]]
  /\ resp' = [resp EXCEPT ![v] = TransportError]

(* Mutants of the early return of lines 104-124.                           *)
EarlyReturnNoRate(v) ==
  /\ paymentFailed' = paymentFailed + 1
  /\ EndIteration(v)
  /\ UNCHANGED <<paymentSuccess, paymentLatency, successRate, checks>>

EarlyReturnUncounted(v) ==
  /\ successRate' = [successRate EXCEPT !.total = @ + 1]
  /\ EndIteration(v)
  /\ UNCHANGED <<paymentSuccess, paymentFailed, paymentLatency, checks>>

(* paymentFailed.add(1); successRate.add(0); return                        *)
EarlyReturn(v) ==
  /\ paymentFailed' = paymentFailed + 1
  /\ successRate' = [successRate EXCEPT !.total = @ + 1]
  /\ EndIteration(v)
  /\ UNCHANGED <<paymentSuccess, paymentLatency, checks>>

(* The order response: three early returns, or POST the payment with a     *)
(* random usePoint (1000 or 0) and couponId (1 or null).                  *)
HandleOrderResponse(v) ==
  LET r == resp[v] IN
  /\ pc[v] = "orderReplied"
  /\ \/ /\ r.status \notin {200, 201}
        /\ EarlyReturn(v)
     \/ /\ r.status \in {200, 201} /\ ~r.body.parsed
        /\ EarlyReturn(v)
     \/ /\ r.status \in {200, 201} /\ r.body.parsed /\ r.body.id = 0
        /\ EarlyReturn(v)
     \/ /\ r.status \in {200, 201} /\ r.body.parsed /\ r.body.id # 0
        /\ \E usePoint \in {1000, 0}, coupon \in {1, NoCoupon} :
             cur' = [cur EXCEPT ![v] = [@ EXCEPT !.orderId = r.body.id,
                                                 !.usePoint = usePoint, !.coupon = coupon]]
        /\ pc' = [pc EXCEPT ![v] = "paySent"]
        /\ UNCHANGED <<resp, paymentSuccess, paymentFailed, paymentLatency, successRate, checks>>
  /\ UNCHANGED <<service, setupDone, setupOrders, iters, running, report>>

(* Mutant: any status below 500 counts as a completed payment.             *)
PaymentSucceededBelow500(r) == r.status \in 1..499

(* paymentResponse.status === 200 || paymentResponse.status === 201        *)
PaymentSucceeded(r) == r.status \in {200, 201}

(* The check the payment response records: [name, passed].                *)
PaymentCheck(r) ==
  CASE PaymentSucceeded(r) -> [name |-> "payment completed", pass |-> TRUE]
    [] ~r.body.parsed -> [name |-> "parse payment error", pass |-> FALSE]
    [] CodeIncludes(r.body, "POINT") \/ CodeIncludes(r.body, "COUPON") ->
         [name |-> "business error (expected)", pass |-> TRUE]
    [] OTHER -> [name |-> "unexpected payment error", pass |-> FALSE]

(* The payment response: latency sample, success or failure counters, the  *)
(* Rate sample and one check.                                              *)
HandlePaymentResponse(v) ==
  LET r == resp[v]
      ok == PaymentSucceeded(r)
      c == PaymentCheck(r)
  IN
  /\ pc[v] = "payReplied"
  /\ paymentLatency' = paymentLatency + 1
  /\ paymentSuccess' = IF ok THEN paymentSuccess + 1 ELSE paymentSuccess
  /\ paymentFailed' = IF ok THEN paymentFailed ELSE paymentFailed + 1
  /\ successRate' = [trues |-> successRate.trues + (IF ok THEN 1 ELSE 0),
                     total |-> successRate.total + 1]
  /\ checks' = [checks EXCEPT ![c.name] =
                  IF c.pass THEN [@ EXCEPT !.passes = @ + 1] ELSE [@ EXCEPT !.fails = @ + 1]]
  /\ EndIteration(v)
  /\ UNCHANGED <<service, setupDone, setupOrders, iters, running, report>>

(* The stages elapse: no iteration starts after this.                      *)
EndRun ==
  /\ running /\ setupDone
  /\ running' = FALSE
  /\ UNCHANGED <<pc, cur, resp, service, setupDone, setupOrders, iters, metrics, report>>

(* handleSummary: printed once every VU is idle; the ratio is a number     *)
(* only when success + failed > 0.                                         *)
handleSummary ==
  /\ ~running /\ ~report.printed /\ \A v \in VUs : pc[v] = "idle"
  /\ report' = [printed |-> TRUE, ratioDefined |-> paymentSuccess + paymentFailed > 0]
  /\ UNCHANGED <<pc, cur, resp, service, setupDone, setupOrders, iters, running, metrics>>

Finished == report.printed /\ UNCHANGED vars

Next ==
  \/ setup \/ EndRun \/ handleSummary \/ Finished
  \/ \E v \in VUs :
       \/ SendOrder(v) \/ ServeOrder(v) \/ MalformedOrder(v) \/ HandleOrderResponse(v)
       \/ ServePayment(v) \/ ServiceFault(v) \/ Timeout(v) \/ HandlePaymentResponse(v)

(* k6's HTTP timeout answers every request; a VU with an answer resumes;   *)
(* setup runs, the stages end and handleSummary runs.                      *)
Fairness ==
  /\ WF_vars(setup) /\ WF_vars(EndRun) /\ WF_vars(handleSummary)
  /\ \A v \in VUs :
       /\ WF_vars(ServeOrder(v) \/ MalformedOrder(v) \/ ServePayment(v)
                  \/ ServiceFault(v) \/ Timeout(v))
       /\ WF_vars(HandleOrderResponse(v)) /\ WF_vars(HandlePaymentResponse(v))

Spec == Init /\ [][Next]_vars /\ Fairness

-----------------------------------------------------------------------------
Busy == {v \in VUs : pc[v] # "idle"}
Paid == {i \in 1..Len(orders) : orders[i].paid}

TypeOK ==
  /\ pc \in [VUs -> {"idle", "orderSent", "orderReplied", "paySent", "payReplied"}]
  /\ cur \in [VUs -> [user : Users, product : Products, orderId : 0..Len(orders),
                      usePoint : {0, 1000}, coupon : {1, NoCoupon}]]
  /\ stock \in [Products -> 0..InitialStock]
  /\ \A i \in 1..Len(orders) : orders[i].user \in Users
  /\ points \in [Users -> 0..InitialPoints] /\ coupons \subseteq CouponHolders
  /\ iters \in 0..MaxIters
  /\ successRate.trues <= successRate.total

(* payment_success never exceeds the orders the service marked paid: a     *)
(* payment is counted only on a 200/201 answer, and a timeout after the    *)
(* service paid can only leave the count short.                            *)
PaymentsNeverOverCounted == paymentSuccess <= Cardinality(Paid)

(* Every finished iteration, whichever of the four exits of lines 104-171  *)
(* it took, is counted once in payment_success + payment_failed and once   *)
(* in success_rate, whose trues are payment_success.                       *)
EveryIterationCountedOnce ==
  /\ paymentSuccess + paymentFailed = iters - Cardinality(Busy)
  /\ successRate.total = paymentSuccess + paymentFailed
  /\ successRate.trues = paymentSuccess

(* The "결제 실패" (payment failed) line counts only payments that were    *)
(* attempted and refused, the reading its label and the metric's name give. *)
PaymentFailedCountsPayments == paymentFailed = paymentLatency - paymentSuccess

(* The VU loop refines OutcomeLedger: early returns are unexpected         *)
(* failures, the payment checks classify the rest.                         *)
EarlyReturns == paymentFailed - (paymentLatency - paymentSuccess)
Ledger == INSTANCE OutcomeLedger WITH
  busy <- [v \in VUs |-> pc[v] # "idle"],
  tally <- [success |-> paymentSuccess,
            expectedFailure |-> checks["business error (expected)"].passes,
            unexpectedFailure |-> checks["unexpected payment error"].fails + EarlyReturns,
            parseError |-> checks["parse payment error"].fails]
LedgerSpec == Ledger!Spec
=============================================================================
