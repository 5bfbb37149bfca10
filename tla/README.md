# TLA+ models of the k6 load-test harness

The repository's `src/` holds the k6 load-test scripts of an e-commerce
server (`src/k6/*.js`). Each script declares one or more *scenarios*: an
executor with its stages (`ramping-vus`, `constant-vus` or `per-vu-iterations`),
the function every virtual user (VU) runs in a loop, the custom metrics it
feeds (`Counter`, `Rate`, `Trend`), its `check`s, and `setup`, `teardown` and
`handleSummary` hooks. The k6 runtime that schedules VUs and aggregates
metrics, and the e-commerce service the scripts call, are not under `src/`.
They are modelled from `spec.md` as the scripts' environment.

## 1. Inventory

### Components

| Component | Source | State | Operations |
|---|---|---|---|
| common helpers | `common.js` | none | `isSuccess` (2xx), `isBusinessError` (unused), `randomUserId(max)` = 1..max, `randomProductId` |
| coupon rush | `coupon-issue-test.js` | counters `coupon_issued`, `coupon_sold_out`, `coupon_duplicate`, Trend `issue_latency`, Rate `success_rate`, checks | VU iteration: draw user, POST issue, classify (success / sold out / already issued / unexpected / parse error), sleep; `handleSummary` totals |
| order create | `order-create-test.js` | `order_created`, `stock_insufficient`, `order_latency`, `success_rate` | VU iteration: POST order for one product, classify by four stock signatures |
| payment | `payment-test.js` | `payment_success`, `payment_failed`, `payment_latency`, `success_rate` | `setup` creates 100 orders (never used); VU iteration: POST order, three early returns (status, parse, no id), POST payment, classify POINT/COUPON codes; `handleSummary` success ratio |
| point charge | `point-charge-test.js` | `charge_success`, `charge_failed`, `lock_contention`, `charge_latency`, `success_rate` | per-vu-iterations: VU *i* charges user *i* `CHARGES_PER_USER` times, lock/timeout signatures; `teardown` reads balances of users 1..min(10, USER_COUNT) |
| popular products | `popular-products-test.js` | request counters, Trend, `cache_hit_indicator` Rate | GET popular, latency < 50 ms counted as cache hit |
| dashboard | `dashboard-test.js` | `success_count`, `failure_count`, Trend | `selectEndpoint`: weighted choice over 4 GET endpoints, weights 40/30/15/15 against `Math.random() * 100`, fallback `endpoints[0]` |
| realistic runs | `realistic-*.js` | background and foreground metrics | a `constant-vus` background scenario beside a `ramping-vus` scenario with `startTime`; coupon spike swallows parse errors; point stress maps `__VU % 20 + 1` to users |
| run-all | `run-all-tests.js` | `total_requests`, `total_success`, `total_failed`, `overall_success_rate` | four scenarios on start offsets 0/80/160/230 s; any 400/409 counts as overall success |
| k6 runtime (spec) | — | active VUs, ramp stage, metric sinks | ramp interpolation, VU start/retire at iteration boundaries, atomic metric appends, setup → scenarios → teardown → handleSummary |
| service under test (spec) | — | coupon stock and holders, product stock, balances, orders | the endpoint contracts of spec section 6 |

### How they interact

k6 runs `setup` once, then every scenario's VUs in parallel; VUs interleave
freely and are suspended while waiting for an HTTP response and while
sleeping. A VU's iteration is sequential (request, classification, metric
adds, sleep); concurrency comes only from many VUs. Metric adds from all VUs
go to per-run sinks. When a scenario's stages elapse no new iteration starts,
running ones finish, then `teardown` and `handleSummary` run. The service is
shared by all VUs; its answers, its failures and transport timeouts are the
nondeterminism every model explores.

### What is hard

* Interleavings of many VUs on one service state (coupon stock, one coupon per
  user, a user's point balance when several VUs charge the same user).
* A timeout racing the service: k6 returns status 0 and a null body even when
  the service acted, so the harness's counts and the service's state drift.
* Classification: every response must land in exactly one branch; the
  `try`/`catch` around `JSON.parse` turns transport errors into parse errors.
* Summaries computed from counters that do not cover every branch, and ratios
  with a zero denominator.
* Start offsets and executors (`per-vu-iterations` with `maxDuration`, ramps
  on `startTime`).

### What makes each component correct

* VU loop: each started iteration ends with exactly one classification,
  recorded once in the sinks; a failure never ends the loop (spec 4.2, 4.4).
* Counters sound against the service: `coupon_issued` never exceeds the
  coupons the service issued (the script's `count<=500` threshold relies on
  it); the sinks agree with each other.
* Summaries: the printed totals are what their labels say.
* Executors: constant and per-vu-iterations counts (spec 8).
* Weighted selection: each endpoint chosen for exactly its weight's share of
  draws.

## 2. Modules

| Module | Models |
|---|---|
| `K6Response` | what a script sees of a response body: parsed or not, its `code`, the marker words its `message` contains |
| `CouponIssue` | `coupon-issue-test.js`: VU loop (`SendIssue`, `HandleIssueResponse`), the coupon service (`ServeIssue`, `ServiceFault`), transport timeouts (`Timeout`), the end of the stages (`EndRun`) and `handleSummary` |
| `OutcomeLedger` | abstract specification of a VU loop and its sinks: one iteration per VU at a time, exactly one classification per iteration |
| `MCCouponIssue` | three VUs as model values, response bodies, symmetry |
| `PointCharge` | `point-charge-test.js`: per-vu-iterations VUs charging user `__VU` (`SendCharge`, `HandleChargeResponse`), the point service with a per-user lock (`ServeCharge`, `ServiceFault`), timeouts that leave the request in the service (`Timeout`), the `maxDuration` cutoff, `teardown` and `handleSummary` |
| `MCPointCharge` | two users, two charges each, lock-refusal bodies |
| `OrderCreate` | `order-create-test.js`: `SendOrder`, `HandleOrderResponse` with the stock-refusal signature `IsStockInsufficient` and the check `OrderCheck`; the order service (`ServeOrder`, `ServiceFault`), `Timeout`, `EndRun`, `handleSummary` |
| `MCOrderCreate` | three VUs, one unit of stock, one refusal body per signature |
| `Dashboard` | `dashboard-test.js`: `selectEndpoint` (`SelectIn`, a recursive walk over the weights), `SendRequest`, `HandleResponse` with `CountOutcome`, `EndRun`, `handleSummary`; a stateless GET service (`ServeRequest`) and `Timeout` |
| `MCDashboard` | two VUs |
| `Payment` | `payment-test.js`: `setup`, the order request and its three early returns (`SendOrder`, `HandleOrderResponse`, `EarlyReturn`), the payment request and its classification (`HandlePaymentResponse`, `PaymentCheck`), `EndRun`, `handleSummary`; the order and payment service (`ServeOrder`, `MalformedOrder`, `ServePayment`, `ServiceFault`, `Timeout`) |
| `MCPayment` | two VUs, two users, one product of two units |
| `RunAll` | `run-all-tests.js`: the four scenarios of `options.scenarios` on a 10 s clock (`Tick`), one VU each (`StartIteration`, `HandleResponse` for the four exec functions), k6's graceful stop and http timeout, `handleSummary`; the service (`Serve`) and `Timeout` |
| `MCRunAll` | two point_charge iterations, one iteration of each other scenario |
| `PointStress` | `realistic-point-stress.js`: the background VU (`SendBackground`, `HandleBackground`), stress VUs charging user `(__VU % 20) + 1` (`SendCharge`, `HandleChargeResponse`), the point service with a per-user lock (`ServeCharge`, `ServiceFault`), `Timeout`, the end of each scenario (`EndScenario`) and `handleSummary`'s verdict |
| `RealisticCouponSpike` | `realistic-coupon-spike.js`: the background VU (`SendBackground`, `HandleBackground` with `bg_success`, `bg_failure` and the check), spike VUs issuing coupon 1 to a random user (`SendIssue`, `HandleIssueResponse` with `IsSoldOut` inside the `try`), the coupon service (`ServeIssue`, `ServiceFault`), `Timeout`, `EndScenario`, `handleSummary` with the `serverDown` / impacted verdict (`Report`) |
| `RealisticOrderLoad` | `realistic-order-load.js`: the background VU, order VUs ordering one unit of a random product (`SendOrder`, `HandleOrderResponse` with `IsStockOut`), the order service with per-product stock (`ServeOrder`, `ServiceFault`), `Timeout`, `EndScenario`, `handleSummary` |
| `RealisticPopularProducts` | `realistic-popular-products.js`: the background VU, popular VUs on `/api/products/top` (`SendPopular`, `HandlePopularResponse` with the hit heuristic `CountsAsHit`), `ServePopular`, `Timeout`, `EndScenario`, `handleSummary` with the hit-rate operands and the verdict |
| `PopularProducts` | `popular-products-test.js`: `SendRequest`, `HandleResponse` (both branches, the three checks, the `cache_hit_indicator` Rate), `ServeRequest`, `Timeout`, `EndRun`, `handleSummary` |
| `MCRealistic` | one run of one of five scripts: `PointStress`, the three modules above and `PopularProducts`, each instantiated with its own variables; the script is chosen in `Init` and only its steps are taken (`PSStep` ... `PPStep`), so the state space is the disjoint union of the five |

### CouponIssue, state and actions against the code

* `pc[v]`: `"idle"` between iterations, `"sent"` after `http.post` is
  dispatched (line 57), `"replied"` when its response is available.
* `userOf[v]`: `randomUserId(MAX_USERS)` of line 48, drawn from `1..MAX_USERS`.
* `resp[v]`: status and abstract body (`K6Response`).
* `issued`: the service's holders of the coupon (spec 6).
* `couponIssued`, `couponSoldOut`, `couponDuplicate`, `successRate`,
  `issueLatency` (sample count) and `checks`: the metrics of lines 17-21 and
  the `check` calls.
* `SendIssue` is lines 47-61; `HandleIssueResponse` is lines 63-103 in one
  step: the latency sample, the branch (`IssueOutcome`), its counter, the Rate
  sample and the check. `handleSummary` is lines 105-115.
* `ServeIssue`: the service acts atomically: issue if the user holds none and
  stock remains, refuse as already issued, or refuse as sold out (when both
  refusals apply either may come). `ServiceFault`: a 500 with a body from a
  small set, including an unparsable one. `Timeout`: status 0, null body,
  before or after the service acted.

### PointCharge, state and actions against the code

* `iter[v]`: the charges VU `v` has started (per-vu-iterations, line 33);
  the user is `__VU` (line 47), so `userIdOf(v) = {v}`.
* `inService`: requests the point service holds, each tagged with its VU and
  iteration; a request whose client timed out stays there, and the late
  answer is dropped (`Deliver`).
* `ServeCharge` refuses with a lock body only while another request of the
  same user is in service; `HandleChargeResponse` is lines 62-103.
* `MaxDurationCutOff` is the 5-minute `maxDuration` (line 36) and is not
  fair; `teardown` (lines 106-138) reads the first `min(10, USER_COUNT)`
  balances.

### Payment, state and actions against the code

* `pc[v]`: `"orderSent"`/`"orderReplied"` around the order POST (lines
  98-102), `"paySent"`/`"payReplied"` around the payment POST (135-139).
* `cur[v]`: user, product, order id, `usePoint` and `couponId` of the
  iteration (lines 87, 94, 113, 129-130).
* `orders` (a sequence: id = position), `stock`, `points`, `coupons`: the
  service. An order body is abstracted to parsed or not and its id, 0 for a
  body without `orderId` or `id`.
* `EarlyReturn` is the three blocks of lines 104-124; `HandlePaymentResponse`
  is lines 141-171, with the check chosen by `PaymentCheck`.
* `setup` creates orders for users 1..`SETUP_ORDERS` of product 1 and keeps
  those returned with an id; the VU function never reads them. The header
  (line 7) and setup's comment (line 50) call them the payment targets, yet
  no iteration pays one: they only consume product 1's stock. (This is
  visible in the model directly; no run is spent on it.)

### RunAll, state and actions against the code

* `scenarios` is `options.scenarios` (lines 32-76) in seconds; `StageEnd(s)`
  is its `startTime` plus its stage durations (`FoldLeft` over `stages`), its
  `duration`, or its `maxDuration`; `HardStop(s)` adds k6's default 30 s
  graceful stop. The stage windows are 0-70, 80-150, 160-220 and 230-350 s.
* `now` advances by 10 s (`Tick`). `Tick` waits while a response is being
  handled (the JS after `http.post` takes no time), never lets a request
  outlive the 60 s http timeout, and interrupts a request still in flight at
  its scenario's hard stop: the iteration ends with nothing recorded.
* Two history variables, not in the code, count what the sinks cannot see:
  `interrupted` (requests `Tick` cut off) and `refusals` (409 answers
  `Serve` gave couponTest and orderTest, standing for 400 and 409).
* `HandleResponse` is the part of each exec function after the request:
  `totalRequests.add(1)`, the 2xx / 400-409 / other branch (`Succeeded`,
  `Refused`), the Rate sample and the checks (`CheckResults`; popularTest's
  `timings.duration < 100` is the `fast` bit of the response). The user and
  product ids of the payloads are not modelled: no decision depends on them.
* The VU targets (2000/5000 VUs, ...) are abstracted to one VU per scenario:
  the question asked of this module is about time, not about the
  interleaving of one scenario's VUs, which the single-scenario modules
  cover.

### PointStress, state and actions against the code

* `userId(v) = (v % USERS) + 1` (line 64); in `MCRealistic` VUs 1 and 3
  map to user 2, so two awaited charges of one user meet in the service and
  the lock refusal happens without a timeout, unlike in `PointCharge`.
* `HandleChargeResponse` is lines 76-93: the latency sample, `charge_success`
  on 200/201, otherwise `charge_failed` (before the `try`, `CountsAsFailed`)
  and `lock_contention` when the body parses and matches lines 85-86 (code
  includes LOCK or TIMEOUT, or message includes 'lock'; unlike
  `point-charge-test.js`, a message with 'timeout' is not a lock signature);
  an unparsable body is swallowed by `catch {}`.
* `handleSummary` (lines 95-128): `total`, the rate only when `total > 0`,
  and the verdict, `highContention` first (`lockCount > total * 0.1`, which
  for integers is exactly `10 * lockCount > total`), then `impacted` (a free
  choice: latencies are not modelled), else normal.

### The other realistic scripts and popular-products-test, against the code

* Each realistic module has one background VU (`bg`: its `pc`, the status
  of its answer, its iteration count) and a set of load VUs (`pc`, `resp`
  and the random id the iteration drew), `active` per scenario (its stages
  or duration still running) and `metrics`, a record of the script's custom
  metrics: counters as numbers, a Trend by its sample count, a Rate by its
  true and total samples.
* `HandleIssueResponse` (coupon spike, lines 108-126) and
  `HandleOrderResponse` (order load, lines 82-95) are the whole handler in
  one step: latency sample, the 2xx counter, and otherwise the signature test
  inside `try`, where an unparsable body, a 500 or a timeout is swallowed by
  `catch {}` and counted nowhere. The coupon spike also adds its Rate sample
  in both branches (`RateSample`).
* `HandlePopularResponse` (lines 73-84): `popular_success`, and
  `cache_hit` when the latency is under 10 ms (`CountsAsHit`), on 200 only;
  `popular_failure` otherwise. A response carries whether it was fast.
* `PopularProducts.HandleResponse` (lines 51-82): a response carries its
  latency band (under 50 ms, under 100 ms, slower), which is all the
  `cache_hit_indicator` sample and the 'response time < 100ms' check read,
  and whether its body is a product array ('has products').
* `handleSummary` runs once every scenario has ended and every VU is idle;
  it keeps the counts it prints. Verdicts read latency percentiles, which
  are free booleans (`impacted`, `cacheWorking`); `serverDown` reads counts
  and is modelled exactly (`10 * bgFailure > bgSuccess`).
* The services keep what the script's counts depend on: the holders of
  coupon 1 and its stock, each product's stock; the popular endpoints are
  stateless.

## 3. Runs

| Run | Config | Expect | Shows |
|---|---|---|---|
| coupon_safety | `MCCouponIssue.cfg` | pass | `TypeOK`, `HarnessNeverOverCounts` (the harness never counts more coupons than were issued, through faults and timeouts), `SinksAgree` (Trend and Rate sample counts equal completed iterations; Rate's trues equal `coupon_issued`), `IssuedCountExact` (a run with no failed 'unexpected error' or 'parse error response' check prints exactly the coupons issued: a lost issuance always shows as such a failure), `LedgerSpec` (the VU loop refines `OutcomeLedger`, liveness included) |
| coupon_report_total | `MCCouponIssue_total.cfg` | violation | the "총 요청" (total requests) line leaves out unexpected and unparsable responses |
| coupon_unique_ids | `MCCouponIssue_unique.cfg` | violation | with a correct service, repeated random ids produce duplicate refusals, against spec 8's "remainder sold out" |
| point_safety | `MCPointCharge.cfg` | pass | `TypeOK`, `ChargesNeverOverCounted`, `FailuresPartitioned` (every failure is in exactly one of lock contention / other), `SameUserOverlapOnlyAfterTimeout` (two charges of one user are in the service together only when one was left there by a client timeout, so the header's "concurrent same-user charges" never happen as intended), `LedgerSpec` for the charge loop |
| order_safety | `MCOrderCreate.cfg` | pass | `TypeOK`, `OrdersNeverOverCounted`, `SoldAndRefusedExact` (a run with no failed unexpected/parse check prints the units sold and every other request as a stock refusal, whichever signature the service uses), `LedgerSpec`, with faults and timeouts |
| dashboard | `MCDashboard.cfg` | pass | `SelectionMatchesWeights`: over the 100 draws each endpoint is chosen for exactly its weight, and the loop agrees with spec 4.3's reference (`ReferenceSelect`: first cumulative above the draw, else the last) on every list of up to three weights in 0..3; `LedgerSpec` for the mixed-load loop |
| payment_safety | `MCPayment.cfg` | pass | `TypeOK`, `PaymentsNeverOverCounted`, `EveryIterationCountedOnce` (each finished iteration, whichever of its four exits, is counted once in success + failed and in the Rate), `LedgerSpec` for the payment loop, early returns as unexpected failures |
| payment_failed_mix | `MCPayment_failed.cfg` | violation | an order refused for stock is counted as a payment failure |
| runall_overlap | `MCRunAll.cfg` | pass | `TypeOK` (with the end of the test: the clock never passes the last hard stop, 380 s), `OverlapOnlyWhileDraining` (the offsets keep the stage windows disjoint: two scenarios are in flight together only while one of them is past its stages), `RequestsAccounted` (total_requests is every request sent but those interrupted at a hard stop and those in flight; the printed total minus success and failed is exactly the 400/409 refusals of couponTest and orderTest) |
| runall_sequential | `MCRunAll_sequential.cfg` | violation | the header's "scenarios run sequentially": a coupon_rush request sent at 20 s is still in flight when order_load starts at 80 s; spec 4.1 itself says scenarios on offsets run concurrently |
| realistic_runs | `MCRealistic.cfg` | pass | `TypeOK` of the five modules; point stress: `ChargesNeverOverCounted` (with two VUs charging one user at once, lock refusals, faults, timeouts and late applications), `PointLedger` (each charge iteration counted once, an unparsable failure as a failure); coupon spike: `IssuedExact` (a report whose issued and sold-out counts add up to the Rate's samples prints exactly the coupons issued), `SpikeLedger` (every spike iteration leaves one Rate sample; the swallowed refusals are the rest); order load: `OrderCreatedExact` (the same for units sold); popular products: its type invariant only (see section 5); popular-products-test: `EveryRequestSampled` (each request, either branch, leaves one Rate and one latency sample, and the printed total is the number of requests) |
| order_load_unclassified | `MCRealistic_classified.cfg` | violation | `EveryOrderClassified`: a 500 order answer is counted in neither `order_created` nor `stock_insufficient`, against spec 4.4's "every response is classified exactly once" |

Bounds: 3 VUs, `MAX_USERS = 2`, `Stock = 1`, 3 iterations, no symmetry
(the run checks liveness). Two users and one coupon are the smallest values in which a
coupon runs out, a user is refused a second coupon, and both refusals apply
at once; three VUs let two requests for the same user be in flight while a
third meets the sold-out state. Symmetry over the VUs is used only in
safety runs.

Dashboard: `Math.random() * 100` is a real, but every cumulative weight is
an integer, so `rand < c` iff `floor(rand) < c`: the 100 integer draws are
exactly the equally likely cases, and the weight check is exhaustive, not
sampled. Spec 8's statistical convergence follows from it. The fallback
`endpoints[0]` differs from spec 4.3's "last candidate" but is unreachable
because the script's weights sum to 100.

OrderCreate: three VUs, one unit, 3 iterations with faults:
the unit sells, later requests meet the refusal in every signature, and a
timeout can fall on either side of the sale.

PointCharge: two users and two charges each, enough for a timed-out
request to still be in the service when its VU's next charge arrives (the
only source of lock contention). Payment: two VUs, two users, two products
of one product of two units, one setup order, 1000 points per user and coupon 1
held by user 1: the stock runs out (409 early return) after two orders, a
second 1000-point payment of a user is refused for points, a coupon is
refused to user 2 and after its use by user 1; 3 iterations, with liveness,
in one run (186 k states). The iteration's locals are reset when it ends, as
they go out of scope in the code.

RunAll: the clock runs in 10 s steps because every offset and duration of
the options is a multiple of 10 s; one iteration of each ramping or constant
scenario is enough for an iteration to be in flight across a boundary (the
overlap needs nothing more), and two point_charge iterations let the
scenario end either by its iteration count or by `maxDuration`.
PointStress: three stress VUs over two users is the smallest instance with
both a shared and an unshared user; two charge iterations (kept at two so
that the five scripts with liveness finish in under two minutes) still let
the two sharers of user 2 charge at once, and a timed-out charge linger
while the other sharer charges. The background VU makes one request (it
shares nothing with the charges).

Coupon spike: two VUs, two users, one coupon, three iterations: the coupon
is issued, a later user meets the sold-out state in both signatures, a user
drawn twice is refused as a holder, and a timeout falls before or after the
issue. Order load: two VUs, two products of one unit, three iterations: one
product sells out while the other still sells. Popular products (both
scripts): two VUs, three iterations, every status, band and body shape.
Each background VU makes one request with every status.

Fairness: a request in flight is eventually answered or timed out (k6's HTTP
timeout), a VU with a response resumes, the stages are finite and
`handleSummary` runs after the VUs stop; in `RunAll` time passes (`Tick`).
In `MCRealistic` only the two loops with a ledger property get fairness
(answer or timeout, and resumption, of each VU), stated of the step of the
script that runs.
Nothing else is fair: a VU need not
start another iteration. `MaxDurationCutOff` (PointCharge) is not fair: the
5-minute cutoff need not fire. `Payment`'s `setup` is fair: k6 runs it before
any VU.

## 4. Plan

1. (done) `CouponIssue` + `OutcomeLedger`: the most exercised scenario and the
   shared VU-loop contract.
2. (done) `OrderCreate` and `PointCharge`: stock decrement with four signatures;
   per-vu-iterations with `__VU` as user, `maxDuration` cutoff, lock
   contention and balance accounting (spec 8: `vus=5, iterations=3` gives
   15 iterations), each refining `OutcomeLedger`.
3. (done) `Payment`: `setup`, the two-request iteration and its early returns, the
   zero-denominator summary.
4. (done, as `Dashboard`) `selectEndpoint` as an operator checked against the
   reference `weight / total` count over the integer draws 0..99.
5. (done) `RunAll`: the scenarios on their offsets with k6's graceful stop;
   the overlap of consecutive scenarios. `PointStress`: five VUs per user.
6. (left out, see section 5) `RampSchedule` (spec 4.1): interpolated
   targets of a stage list; VUs started and retired at iteration boundaries.
8. (done) What `run-all-tests.js`'s printed lines miss
   (`RequestsAccounted`), added to an existing run.
7. (done) The remaining realistic variants (coupon spike, order load, popular
   products) and `popular-products-test.js`, in one run with the point
   stress script (`MCRealistic`).

The project holds twelve runs, the most it keeps; the no-fault runs of the
coupon and order scenarios were folded into their fault runs by stating
their exactness under the premise that no failure was observed.

## 5. Not modelled

* A property of `realistic-popular-products.js`: its one count relation,
  `cache_hit <= popular_success`, is the nesting of line 79 inside the 200
  branch, and the hit rate's division is guarded by `popSuccess > 0` (line
  95), so nothing about it is hard to get right; the module is explored by
  the run under its type invariant only.
* k6's ramp interpolation (spec 4.1's `RampSchedule`): it is k6's code, not
  this repository's, and it only decides how many VUs run at a time. Every
  model lets a fixed small set of VUs start iterations at any moment while
  their scenario runs, which includes every population the stages allow;
  no script reads the target, so no property of the scripts depends on it.
* Latency values, percentiles and thresholds on them: only the number of
  Trend samples is kept; percentile order-independence is a property of
  k6, not of these scripts.
* Rendering: `textSummary`, console boxes, result files.
* Environment parsing (`__ENV`): constants of the models. `run-all-tests.js`
  reads `SCENARIO` (line 20), documented as selecting one scenario, but never
  uses it: every scenario always runs, which is what `RunAll` models.
* Background failures in `realistic-order-load.js` and
  `realistic-popular-products.js`: only 200s are counted, and the verdicts
  read only latency percentiles, so no printed count can be wrong because of
  them; they are modelled (the status is drawn) but no property is about
  them.
* Interrupted iterations in the single-scenario modules: they let every
  in-flight iteration finish before `handleSummary`; in k6 an iteration still
  running 30 s after the stages end is interrupted, as `RunAll` models, where
  `RequestsAccounted` counts what the interruption loses.
* Global VU ids: k6 numbers VUs across all scenarios, so `__VU` of a
  scenario's VUs need not start at 1; `PointStress` takes its VU ids as a
  constant, `PointCharge` and `RunAll` start them at 1.
