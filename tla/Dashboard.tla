----------------------------- MODULE Dashboard -----------------------------
(***************************************************************************)
(* The mixed-load test of src/k6/dashboard-test.js.                        *)
(*                                                                         *)
(* Each VU loops: selectEndpoint() picks one of four GET endpoints by      *)
(* weight (40/30/15/15) against Math.random() * 100, the request is sent,  *)
(* a latency sample is added, success_count or failure_count counts the    *)
(* 2xx test, and one check records it; sleep.  handleSummary prints the    *)
(* total and the two shares.                                               *)
(*                                                                         *)
(* The draw is a real in [0, 100); since every cumulative weight is an     *)
(* integer, rand < c holds exactly when floor(rand) < c, so the draw is    *)
(* modelled by the integer d = floor(rand) in 0..99, each value standing   *)
(* for an interval of equal probability.                                   *)
(***************************************************************************)
EXTENDS Naturals, Sequences, SequencesExt

CONSTANTS
  VUs,        \* virtual users (model values)
  MaxIters,   \* bound on iterations started
  Faults      \* TRUE: requests may fail or time out

VARIABLES
  pc,          \* per VU: "idle" | "sent" | "replied"
  ep,          \* per VU: index of the endpoint selectEndpoint returned
  resp,        \* per VU: status of the response
  iters, running,
  successCount, failureCount,   \* Counter metrics
  responseLatency,              \* Trend metric: number of samples
  checks,                       \* 'status is success': [passes, fails]
  report                        \* handleSummary: [total, printed, sharesDefined]

vars == <<pc, ep, resp, iters, running, successCount, failureCount,
          responseLatency, checks, report>>
metrics == <<successCount, failureCount, responseLatency, checks>>

(* The endpoints array: name (상품 목록 / 상품 상세 1-3: product list and   *)
(* product details), method, url, weight.                                  *)
endpoints ==
  << [name |-> "list",    method |-> "GET", url |-> "/api/products",   weight |-> 40],
     [name |-> "detail1", method |-> "GET", url |-> "/api/products/1", weight |-> 30],
     [name |-> "detail2", method |-> "GET", url |-> "/api/products/2", weight |-> 15],
     [name |-> "detail3", method |-> "GET", url |-> "/api/products/3", weight |-> 15] >>

Weights == [i \in 1..Len(endpoints) |-> endpoints[i].weight]

(* floor(Math.random() * 100)                                              *)
Draws == 0..99

-----------------------------------------------------------------------------
(* Mutant: the comparison written rand <= cumulative.                       *)
SelectInLe(ws, rand) ==
  LET RECURSIVE Walk(_, _)
      Walk(i, cumulative) ==
        IF i > Len(ws) THEN 1
        ELSE IF rand <= cumulative + ws[i] THEN i
        ELSE Walk(i + 1, cumulative + ws[i])
  IN Walk(1, 0)

(* The loop of selectEndpoint over a weight list: add each weight to the   *)
(* running cumulative and return the first index whose cumulative exceeds  *)
(* the draw; past the end, endpoints[0] (index 1).                         *)
SelectIn(ws, rand) ==
  LET RECURSIVE Walk(_, _)
      Walk(i, cumulative) ==
        IF i > Len(ws) THEN 1
        ELSE IF rand < cumulative + ws[i] THEN i
        ELSE Walk(i + 1, cumulative + ws[i])
  IN Walk(1, 0)

selectEndpoint(rand) == SelectIn(Weights, rand)

(* Mutant: the else of lines 67-71 dropped, failure_count added always.    *)
CountOutcomeNoElse(success) ==
  /\ successCount' = IF success THEN successCount + 1 ELSE successCount
  /\ failureCount' = failureCount + 1

(* if (success) successCount.add(1) else failureCount.add(1)               *)
CountOutcome(success) ==
  /\ successCount' = IF success THEN successCount + 1 ELSE successCount
  /\ failureCount' = IF success THEN failureCount ELSE failureCount + 1

-----------------------------------------------------------------------------
Init ==
  /\ pc = [v \in VUs |-> "idle"]
  /\ ep = [v \in VUs |-> 1]
  /\ resp = [v \in VUs |-> 0]
  /\ iters = 0 /\ running = TRUE
  /\ successCount = 0 /\ failureCount = 0 /\ responseLatency = 0
  /\ checks = [passes |-> 0, fails |-> 0]
  /\ report = [total |-> 0, printed |-> FALSE, sharesDefined |-> FALSE]

(* An iteration starts: selectEndpoint(), then http.get of its url (every  *)
(* endpoint's method is GET, so the http.post branch is never taken).      *)
SendRequest(v) ==
  /\ running /\ pc[v] = "idle" /\ iters < MaxIters
  /\ \E d \in Draws : ep' = [ep EXCEPT ![v] = selectEndpoint(d)]
  /\ pc' = [pc EXCEPT ![v] = "sent"]
  /\ iters' = iters + 1
  /\ UNCHANGED <<resp, running, metrics, report>>

(* The service answers the GET: 200, or with faults a 404 or a 500.        *)
ServeRequest(v) ==
  /\ pc[v] = "sent"
  /\ \E s \in (IF Faults THEN {200, 404, 500} ELSE {200}) :
       resp' = [resp EXCEPT ![v] = s]
  /\ pc' = [pc EXCEPT ![v] = "replied"]
  /\ UNCHANGED <<ep, iters, running, metrics, report>>

(* The http timeout fires: status 0.                                       *)
Timeout(v) ==
  /\ Faults /\ pc[v] \in {"sent", "replied"}
  /\ resp' = [resp EXCEPT ![v] = 0]
  /\ pc' = [pc EXCEPT ![v] = "replied"]
  /\ UNCHANGED <<ep, iters, running, metrics, report>>

(* The rest of the default function: latency sample, the counter of the   *)
(* 2xx test, the check, then the sleep.                                    *)
HandleResponse(v) ==
  LET success == resp[v] >= 200 /\ resp[v] < 300 IN
  /\ pc[v] = "replied"
  /\ responseLatency' = responseLatency + 1
  /\ CountOutcome(success)
  /\ checks' = IF success THEN [checks EXCEPT !.passes = @ + 1]
                          ELSE [checks EXCEPT !.fails = @ + 1]
  /\ pc' = [pc EXCEPT ![v] = "idle"]
  /\ UNCHANGED <<ep, resp, iters, running, report>>

(* The stages elapse: no iteration starts after this.                      *)
EndRun ==
  /\ running /\ running' = FALSE
  /\ UNCHANGED <<pc, ep, resp, iters, metrics, report>>

(* handleSummary: total = success + failure; the shares success/total and  *)
(* failure/total are numbers only when total > 0.                          *)
handleSummary ==
  /\ ~running /\ ~report.printed /\ \A v \in VUs : pc[v] = "idle"
  /\ report' = [total |-> successCount + failureCount, printed |-> TRUE,
                sharesDefined |-> successCount + failureCount > 0]
  /\ UNCHANGED <<pc, ep, resp, iters, running, metrics>>

Finished == report.printed /\ UNCHANGED vars

Next ==
  \/ \E v \in VUs :
       SendRequest(v) \/ ServeRequest(v) \/ Timeout(v) \/ HandleResponse(v)
  \/ EndRun \/ handleSummary \/ Finished

(* An answer or the http timeout always comes, a VU with one resumes, the  *)
(* stages end and handleSummary runs.                                      *)
Fairness ==
  /\ \A v \in VUs : WF_vars(ServeRequest(v) \/ Timeout(v))
  /\ \A v \in VUs : WF_vars(HandleResponse(v))
  /\ WF_vars(EndRun) /\ WF_vars(handleSummary)

Spec == Init /\ [][Next]_vars /\ Fairness

-----------------------------------------------------------------------------
(* Spec 4.3's selection: the first candidate whose cumulative weight       *)
(* exceeds the draw, the last one if none does.                            *)
Cumulative(ws) == [i \in 1..Len(ws) |-> FoldLeft(+, 0, SubSeq(ws, 1, i))]
ReferenceSelect(ws, d) ==
  LET k == SelectInSeq(Cumulative(ws), LAMBDA c : d < c)
  IN IF k = 0 THEN Len(ws) ELSE k

(* Weight lists of up to three candidates with weights 0..3.               *)
WeightLists == UNION {[1..n -> 0..3] : n \in 1..3}

(* selectEndpoint meets spec 4.3 and spec 8: over the 100 equally likely   *)
(* draws, endpoint i is returned for exactly weight(i) of them (40/30/15/  *)
(* 15 per cent), and the loop agrees with the reference selection on the   *)
(* script's endpoints and on every small weight list with a positive       *)
(* total, for every draw below that total; every VU requests one of the   *)
(* endpoints.                                                              *)
SelectionMatchesWeights ==
  /\ ep \in [VUs -> 1..Len(endpoints)]
  /\ \A i \in 1..Len(endpoints) :
       Cardinality({d \in Draws : selectEndpoint(d) = i}) = endpoints[i].weight
  /\ \A d \in Draws : selectEndpoint(d) = ReferenceSelect(Weights, d)
  /\ \A ws \in WeightLists :
       \A d \in 0..(FoldLeft(+, 0, ws) - 1) : SelectIn(ws, d) = ReferenceSelect(ws, d)

(* The VU loop refines OutcomeLedger: every iteration ends counted once,   *)
(* as success_count or as failure_count.                                   *)
Ledger == INSTANCE OutcomeLedger WITH
  busy <- [v \in VUs |-> pc[v] # "idle"],
  tally <- [success |-> successCount, expectedFailure |-> 0,
            unexpectedFailure |-> failureCount, parseError |-> 0]
LedgerSpec == Ledger!Spec

=============================================================================
