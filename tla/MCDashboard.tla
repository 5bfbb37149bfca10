---------------------------- MODULE MCDashboard ----------------------------
EXTENDS Dashboard, TLC

CONSTANTS v1, v2

MCVUs == {v1, v2}

=============================================================================
