------------------------------ MODULE MCRunAll ------------------------------
EXTENDS RunAll, TLC

=============================================================================
