--------------------------- MODULE MCOrderCreate ---------------------------
EXTENDS OrderCreate, TLC

CONSTANTS v1, v2, v3

MCVUs == {v1, v2, v3}

Symmetry == Permutations(MCVUs)

(* The four refusal signatures lines 84-87 accept, one body each.          *)
MCStockBodies ==
  {Body("STOCK_INSUFFICIENT", {}), Body("INSUFFICIENT_STOCK", {}),
   Body("OUT_OF_STOCK", {"stock"}), Body("OUT_OF_STOCK", {"재고"})}
MCFaultBodies ==
  {Body("INTERNAL_SERVER_ERROR", {}), Unparsable}

=============================================================================
