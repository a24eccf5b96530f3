---------------------------- MODULE MCIndexCache ----------------------------
(* Constants of the IndexCache runs: who works where, and who may be killed. *)
EXTENDS CacheDiagnosis, TLC

CONSTANTS w1, w2, a1, a2, c1

OneWorkspace  == {w1}
TwoWorkspaces == {w1, w2}

SoleAuditor    == [a \in {a1} |-> w1]
OwnWorkspaces  == a1 :> w1 @@ a2 :> w2

\* The auditors with their workspaces are interchangeable.
Alike == {p \in Permutations(Auditors \cup Workspaces) :
             \A a \in Auditors : /\ p[a] \in Auditors
                                 /\ p[WorkspaceOf[a]] = WorkspaceOf[p[a]]}
=============================================================================
