----------------------------- MODULE K6Response -----------------------------
(***************************************************************************)
(* What the scripts see of an HTTP response: the status and the result of  *)
(* JSON.parse(response.body).  A body is abstracted to what the scripts'   *)
(* matchers read of it: whether parsing (and reading its fields) succeeds, *)
(* its "code" field ("none" when absent) and the set of marker substrings  *)
(* its "message" field contains (body.message?.includes(w) holds iff w is *)
(* in the set; an absent message contains none).                           *)
(***************************************************************************)

Body(code, words) == [parsed |-> TRUE, code |-> code, message |-> words]

(* A body JSON.parse rejects, or a null body (transport error), whose      *)
(* field access throws inside the scripts' try blocks.                      *)
Unparsable == [parsed |-> FALSE, code |-> "none", message |-> {}]

(* body.code?.includes(m): the marker substrings of the error codes the   *)
(* scripts meet.  A missing code includes nothing.                         *)
CodeMarkers(code) ==
  CASE code = "COUPON_SOLD_OUT"         -> {"COUPON", "SOLD_OUT"}
    [] code = "COUPON_EXHAUSTED"        -> {"COUPON", "EXHAUSTED"}
    [] code = "COUPON_ALREADY_ISSUED"   -> {"COUPON"}
    [] code = "LOCK_ACQUISITION_FAILED" -> {"LOCK"}
    [] code = "LOCK_TIMEOUT"            -> {"LOCK", "TIMEOUT"}
    [] code = "STOCK_INSUFFICIENT"      -> {"STOCK"}
    [] code = "INSUFFICIENT_STOCK"      -> {"STOCK"}
    [] code = "POINT_INSUFFICIENT"      -> {"POINT"}
    [] code = "COUPON_NOT_FOUND"        -> {"COUPON"}
    [] OTHER                            -> {}

CodeIncludes(b, m) == m \in CodeMarkers(b.code)

=============================================================================
