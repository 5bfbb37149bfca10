--------------------------- MODULE MCCouponIssue ---------------------------
EXTENDS CouponIssue, TLC

CONSTANTS v1, v2, v3

MCVUs == {v1, v2, v3}

Symmetry == Permutations(MCVUs)

(* Refusals as the service sends them, with and without a message.         *)
MCSoldOutBodies ==
  {Body("COUPON_SOLD_OUT", {}), Body("COUPON_SOLD_OUT", {"sold out"})}
MCAlreadyIssuedBodies ==
  {Body("COUPON_ALREADY_ISSUED", {"already"})}
MCFaultBodies ==
  {Body("INTERNAL_SERVER_ERROR", {}), Unparsable}

=============================================================================
