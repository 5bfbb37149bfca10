--------------------------- MODULE OutcomeLedger ---------------------------
(***************************************************************************)
(* What a scenario's VU loop promises its metric sinks (spec 4.2, 4.4):    *)
(* a VU runs one iteration at a time, and every iteration it starts ends   *)
(* by recording exactly one classification of its response.  No sample is *)
(* lost and none is counted twice.                                         *)
(***************************************************************************)
EXTENDS Naturals

CONSTANT VUs

VARIABLES busy, tally

Classes == {"success", "expectedFailure", "unexpectedFailure", "parseError"}

Init ==
  /\ busy = [v \in VUs |-> FALSE]
  /\ tally = [c \in Classes |-> 0]

Begin(v) ==
  /\ ~busy[v]
  /\ busy' = [busy EXCEPT ![v] = TRUE]
  /\ UNCHANGED tally

Record(v) ==
  /\ busy[v]
  /\ busy' = [busy EXCEPT ![v] = FALSE]
  /\ \E c \in Classes : tally' = [tally EXCEPT ![c] = @ + 1]

Next == \E v \in VUs : Begin(v) \/ Record(v)

Spec == Init /\ [][Next]_<<busy, tally>> /\ \A v \in VUs : WF_<<busy, tally>>(Record(v))

=============================================================================
