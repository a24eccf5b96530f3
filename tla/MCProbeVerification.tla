------------------------ MODULE MCProbeVerification ------------------------
(* Constants of the run probe_careful.      *)
EXTENDS ProbeVerification, TLC

CONSTANTS m1, m2

\* The two scopes share a module; an edit of the other spares the first pairs.
TwoScopes == [p \in Pairs |-> IF p <= 2 THEN {m1} ELSE {m1, m2}]

\* The second pair is too slow alone, the last two only together.
MixedCosts == [p \in Pairs |-> IF p = 2 THEN 4 ELSE IF p = 1 THEN 1 ELSE 2]
=============================================================================
