---------------------------- MODULE MCIndexBuild ----------------------------
(* Constants of the IndexBuild runs. *)
EXTENDS IndexBuild, TLC

\* The second declaration is slow to print, the last but one slow with its
\* features added, the others quick.
PrintCosts   == [d \in Decls |-> IF d = 1 THEN 9 ELSE 1]
FeatureCosts == [d \in Decls |-> IF d = D - 2 THEN 5 ELSE 1]

\* The second declaration is slow in its features only.
SlowFeatures == [d \in Decls |-> IF d = 1 THEN 9 ELSE 1]
QuickRows    == [d \in Decls |-> 1]
=============================================================================
