-------------------------- MODULE MCAuditSnapshots --------------------------
(* Constants of the AuditSnapshots runs. *)
EXTENDS AuditSnapshots, TLC
CONSTANTS p1, p2
Group(id, pair, digest, target, members) ==
    [id |-> id, pair |-> pair, digest |-> digest, target |-> target, members |-> members]
\* Two replacements by one declaration, and a pair of definitions.
G1 == Group("g1", "q1", 0, "t", {"d1", "t"})
G2 == Group("g2", "q2", 0, "t", {"d2", "t"})
G3 == Group("g3", "q3", 0, None, {"d3", "d4"})
\* An edit removes the second and changes the evidence of the third; private
\* declarations are in the second group; lint looks at the first only.
MCReview ==
    0 :> [m \in Modes |-> CASE m = "plain" -> {G1, G3}
                            [] m = "private" -> {G1, G2, G3} [] m = "lint" -> {G1}]
 @@ 1 :> [m \in Modes |-> CASE m = "lint" -> {G1} [] OTHER -> {G1, [G3 EXCEPT !.digest = 1]}]
Exactly(id) == [id |-> id, short |-> FALSE, begins |-> {}, ends |-> {}]
\* Whole ids of a group, a member and a family; and a text that begins two ids
\* of the private audit only and ends one of every audit.
MCRequests ==
    {Exactly({"g2"}), Exactly({"d1"}), Exactly({"q1", "q2"}),
     [Exactly(None) EXCEPT !.begins = {{"g2"}, {"d2"}}, !.ends = {{"g3"}}]}
MCAsked ==
    {[op |-> "audit", mode |-> "plain", name |-> "v1"],
     [op |-> "audit", mode |-> "private", name |-> None],
     [op |-> "lint", mode |-> "lint", name |-> None],
     [op |-> "show", request |-> Exactly({"g2"}), cached |-> FALSE]}
    \cup {j \in Jobs : j.op \in {"baseline", "cleanup", "diff"} \/ (j.op = "show" /\ j.cached)}
CommandSymmetry == Permutations(Commands)
=============================================================================
