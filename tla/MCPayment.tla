----------------------------- MODULE MCPayment -----------------------------
EXTENDS Payment, TLC

CONSTANTS v1, v2

MCVUs == {v1, v2}

Symmetry == Permutations(MCVUs)

=============================================================================
