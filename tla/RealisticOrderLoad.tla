------------------------- MODULE RealisticOrderLoad -------------------------
(***************************************************************************)
(* The order load run of src/k6/realistic-order-load.js.                   *)
(*                                                                         *)
(* background_traffic (constant-vus) GETs one of three product urls and    *)
(* counts its 200s in bg_success; nothing counts its other answers.        *)
(* order_load (ramping-vus, from 20 s) POSTs an order of one unit of a     *)
(* random product: a 200/201 counts in order_created; otherwise the body   *)
(* is parsed and a STOCK code or a '재고' (stock) message counts in        *)
(* stock_insufficient, and anything else, an unparsable body included, is *)
(* swallowed by "catch {}" and counted nowhere.  The order service (spec   *)
(* 6) keeps each product's stock.                                          *)
(***************************************************************************)
EXTENDS Naturals, Functions, K6Response

CONSTANTS
  OrderVUs,      \* the order_load VUs (model values)
  PRODUCTS,      \* Math.floor(Math.random() * 5) + 1 (5 in the script)
  InitialStock,  \* units per product
  StockBodies,   \* bodies of a 400/409 stock refusal
  FaultBodies,   \* bodies of a 5xx answer
  MaxIters,      \* bound on order iterations
  BgMaxIters,    \* bound on background iterations
  Faults         \* TRUE: the service may fail and transport may time out

VARIABLES
  pc,        \* per order VU: "idle" | "sent" | "replied"
  product,   \* per order VU: productId of its payload
  resp,      \* per order VU: res
  stock,     \* service: units left per product
  iters,     \* order iterations started
  bg,        \* the background VU: [pc, status, iters]
  active,    \* scenario -> its stages / duration still running
  metrics,   \* the five custom metrics (counters; a Trend by its sample count)
  report     \* handleSummary: what it prints

vars == <<pc, product, resp, stock, iters, bg, active, metrics, report>>

Products == 1..PRODUCTS
Scenarios == {"background_traffic", "order_load"}
TransportError == [status |-> 0, body |-> Unparsable]
NoMetrics == [bgSuccess |-> 0, bgLatency |-> 0, orderCreated |-> 0,
              stockInsufficient |-> 0, orderLatency |-> 0]

(* Units the service sold.                                                 *)
Sold == SumFunction([p \in Products |-> InitialStock - stock[p]])

(* Line 89: body.code?.includes('STOCK') || body.message?.includes('재고'); *)
(* "jaego" stands for the Korean word.                                     *)
IsStockOut(b) == CodeIncludes(b, "STOCK") \/ "jaego" \in b.message

-----------------------------------------------------------------------------
Init ==
  /\ pc = [v \in OrderVUs |-> "idle"]
  /\ product = [v \in OrderVUs |-> 1]
  /\ resp = [v \in OrderVUs |-> TransportError]
  /\ stock = [p \in Products |-> InitialStock]
  /\ iters = 0
  /\ bg = [pc |-> "idle", status |-> 0, iters |-> 0]
  /\ active = [s \in Scenarios |-> TRUE]
  /\ metrics = NoMetrics
  /\ report = [printed |-> FALSE, orders |-> 0, stockOut |-> 0, samples |-> 0]

(* backgroundTraffic: GET one of the urls; the answer's status.            *)
SendBackground ==
  /\ active["background_traffic"] /\ bg.pc = "idle" /\ bg.iters < BgMaxIters
  /\ \E s \in (IF Faults THEN {0, 200, 500} ELSE {200}) :
       bg' = [pc |-> "sent", status |-> s, iters |-> bg.iters + 1]
  /\ UNCHANGED <<pc, product, resp, stock, iters, active, metrics, report>>

(* bgLatency.add; if (res.status === 200) bgSuccess.add(1); sleep.         *)
HandleBackground ==
  /\ bg.pc = "sent"
  /\ metrics' = [metrics EXCEPT !.bgLatency = @ + 1,
                                !.bgSuccess = @ + (IF bg.status = 200 THEN 1 ELSE 0)]
  /\ bg' = [bg EXCEPT !.pc = "idle", !.status = 0]
  /\ UNCHANGED <<pc, product, resp, stock, iters, active, report>>

(* orderLoad: random userId and productId, POST /api/orders.               *)
SendOrder(v) ==
  /\ active["order_load"] /\ pc[v] = "idle" /\ iters < MaxIters
  /\ \E p \in Products : product' = [product EXCEPT ![v] = p]
  /\ pc' = [pc EXCEPT ![v] = "sent"]
  /\ iters' = iters + 1
  /\ UNCHANGED <<resp, stock, bg, active, metrics, report>>

(* The service takes a unit, or refuses for stock.                         *)
ServeOrder(v) ==
  LET p == product[v] IN
  /\ pc[v] = "sent"
  /\ \/ /\ stock[p] > 0
        /\ stock' = [stock EXCEPT ![p] = @ - 1]
        /\ \E s \in {200, 201} :
             resp' = [resp EXCEPT ![v] = [status |-> s, body |-> Unparsable]]
     \/ /\ stock[p] = 0 /\ stock' = stock
        /\ \E s \in {400, 409}, b \in StockBodies :
             resp' = [resp EXCEPT ![v] = [status |-> s, body |-> b]]
  /\ pc' = [pc EXCEPT ![v] = "replied"]
  /\ UNCHANGED <<product, iters, bg, active, metrics, report>>

(* The service fails the order without acting.                             *)
ServiceFault(v) ==
  /\ Faults /\ pc[v] = "sent"
  /\ \E b \in FaultBodies : resp' = [resp EXCEPT ![v] = [status |-> 500, body |-> b]]
  /\ pc' = [pc EXCEPT ![v] = "replied"]
  /\ UNCHANGED <<product, stock, iters, bg, active, metrics, report>>

(* The http timeout fires, before or after the service acted.              *)
Timeout(v) ==
  /\ Faults /\ pc[v] \in {"sent", "replied"}
  /\ resp' = [resp EXCEPT ![v] = TransportError]
  /\ pc' = [pc EXCEPT ![v] = "replied"]
  /\ UNCHANGED <<product, stock, iters, bg, active, metrics, report>>

(* orderLatency.add; order_created on 200/201; else, inside the try, a     *)
(* stock signature counts stock_insufficient; sleep.                       *)
HandleOrderResponse(v) ==
  LET r == resp[v]
      ok == r.status \in {200, 201}
  IN
  /\ pc[v] = "replied"
  /\ metrics' = [metrics EXCEPT
       !.orderLatency = @ + 1,
       !.orderCreated = @ + (IF ok THEN 1 ELSE 0),
       !.stockInsufficient = @ + (IF ~ok /\ r.body.parsed /\ IsStockOut(r.body) THEN 1 ELSE 0)]
  /\ pc' = [pc EXCEPT ![v] = "idle"]
  /\ resp' = [resp EXCEPT ![v] = TransportError]
  /\ product' = [product EXCEPT ![v] = 1]
  /\ UNCHANGED <<stock, iters, bg, active, report>>

(* A scenario's stages or duration elapse: it starts no more iterations.   *)
EndScenario(s) ==
  /\ active[s] /\ active' = [active EXCEPT ![s] = FALSE]
  /\ UNCHANGED <<pc, product, resp, stock, iters, bg, metrics, report>>

(* Mutant: handleSummary before the VUs have finished their iterations.    *)
handleSummaryEarly ==
  /\ \A s \in Scenarios : ~active[s]
  /\ ~report.printed
  /\ report' = [printed |-> TRUE, orders |-> metrics.orderCreated,
                stockOut |-> metrics.stockInsufficient, samples |-> metrics.orderLatency]
  /\ UNCHANGED <<pc, product, resp, stock, iters, bg, active, metrics>>

(* handleSummary, once every VU is idle: the success and stock-out lines,  *)
(* the latency summary; the verdict reads only bgP95 (not modelled).       *)
handleSummary ==
  /\ \A s \in Scenarios : ~active[s]
  /\ bg.pc = "idle" /\ \A v \in OrderVUs : pc[v] = "idle"
  /\ ~report.printed
  /\ report' = [printed |-> TRUE, orders |-> metrics.orderCreated,
                stockOut |-> metrics.stockInsufficient, samples |-> metrics.orderLatency]
  /\ UNCHANGED <<pc, product, resp, stock, iters, bg, active, metrics>>

Finished == report.printed /\ UNCHANGED vars

Next ==
  \/ SendBackground \/ HandleBackground
  \/ \E v \in OrderVUs :
       SendOrder(v) \/ ServeOrder(v) \/ ServiceFault(v) \/ Timeout(v)
       \/ HandleOrderResponse(v)
  \/ \E s \in Scenarios : EndScenario(s)
  \/ handleSummary \/ Finished

Spec == Init /\ [][Next]_vars

-----------------------------------------------------------------------------
TypeOK ==
  /\ pc \in [OrderVUs -> {"idle", "sent", "replied"}]
  /\ product \in [OrderVUs -> Products]
  /\ stock \in [Products -> 0..InitialStock]
  /\ iters \in 0..MaxIters /\ bg.iters \in 0..BgMaxIters
  /\ metrics.orderCreated + metrics.stockInsufficient <= metrics.orderLatency

(* A run whose printed counts add up (every order latency sample is an     *)
(* order_created or a stock_insufficient) prints exactly the units the     *)
(* service sold: a created order whose answer was lost always shows as a   *)
(* sample in neither counter.                                              *)
OrderCreatedExact ==
  report.printed /\ report.orders + report.stockOut = report.samples
    => report.orders = Sold

(* Spec 4.4: every order response is classified exactly once, as success, *)
(* expected failure, unexpected failure or parse error; the script's only  *)
(* classes are order_created and stock_insufficient.                       *)
EveryOrderClassified ==
  metrics.orderCreated + metrics.stockInsufficient = metrics.orderLatency

=============================================================================
