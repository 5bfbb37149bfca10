--------------------------- MODULE MCPointCharge ---------------------------
EXTENDS PointCharge

(* Lock refusals by code and by message; a 5xx with and without a body.    *)
MCLockBodies ==
  {Body("LOCK_ACQUISITION_FAILED", {}), Body("INTERNAL_ERROR", {"timeout"})}
MCFaultBodies ==
  {Body("INTERNAL_SERVER_ERROR", {}), Unparsable}

=============================================================================
