----------------------------- MODULE Observation -----------------------------
(***************************************************************************)
(* observe_search and rescore_observation: what evaluation gets to see of  *)
(* a search.  A pair is observed under the names of its declarations, once *)
(* for each anchor that has it as a candidate; a pair that is asked for by *)
(* name and is no candidate is walked again, in one orientation, to say    *)
(* whether it was never generated or not selected.                         *)
(***************************************************************************)
EXTENDS Ranking, Integers

CONSTANTS
    Qualified(_), \* the name of a declaration
    VisibleScore  \* of a pair, under the variants of the scorer

Variants == {"all-features", "no-role-features", "no-connective-conclusion-features",
             "no-source-module-features", "no-static-evidence-features",
             "semantic-evidence-only-rerank"}

Everywhere(C) == {d.id : d \in C.rows}

NamesOf(p) == {Qualified(d) : d \in Members(p)}

\* symbolic_observation_visible: any blocker of the policy hides a pair.
SymbolicVisible(p) == PolicyBlockers(p) = {} /\ Shares(p, {"statement", "permutation"})

\* The place of p among the candidates of its anchor.
RankIn(pairs, p) == 1 + Cardinality({q \in pairs :
    /\ q.anchor = p.anchor
    /\ q.score > p.score \/ (q.score = p.score /\ q.candidate.id < p.candidate.id)})

\* rank is 0 for a pair that is not ranked.
Seen(p, ranked, rank) ==
    [names |-> NamesOf(p), pair |-> p, ranked |-> ranked, rank |-> rank,
     shown |-> SymbolicVisible(p)]

ObservedCandidates(C) ==
    LET pairs == Retrieved(C, Everywhere(C))
    IN {Seen(p, TRUE, RankIn(pairs, p)) : p \in pairs}

-----------------------------------------------------------------------------
(* Pairs asked for by name *)

\* tracked_declarations: the workspace before the indexes.
Located(C, n) ==
    LET local == {d \in C.rows : Qualified(d) = n}
    IN IF local # {} THEN local ELSE {d \in AllRows(C) : Qualified(d) = n}

\* orient_pair: the anchor is the local one, or the first by name.
Orientations(C, names) ==
    {o \in {<<a, c>> : a, c \in UNION {Located(C, n) : n \in names}} :
        /\ o[1] \in C.rows /\ names = {Qualified(o[1]), Qualified(o[2])}
        /\ o[2] \in C.rows => Qualified(o[1]) <= Qualified(o[2])}

Probed(C, o) ==
    LET keys == Admitted(o[1], Walked(C, o[1], o[2]))
    IN [anchor |-> o[1], candidate |-> o[2], keys |-> keys,
        score |-> Worth(C, o[1], o[2], keys), semantic |-> FALSE]

\* Mutant: a pair is looked for among the candidates of its first name only.
RankedInOrder(observed, names) ==
    \E o \in observed : o.names = names /\ \A n \in names : Qualified(o.pair.anchor) <= n

\* pair_key, of either order.
AlreadyRanked(observed, names) == \E o \in observed : o.names = names

\* tracked_generated_pairs
Untaken(C, observed, tracked) ==
    UNION {Orientations(C, names) : names \in {n \in tracked : ~AlreadyRanked(observed, n)}}

\* The pairs observed and those lost to a posting that is too wide.
Observation(C, tracked) ==
    LET ranked == ObservedCandidates(C)
        asked  == Untaken(C, ranked, tracked)
    IN [pairs |-> ranked \cup {Seen(Probed(C, o), FALSE, 0) :
                    o \in {x \in asked : Account(C, x[1], x[2]) = "generated, not selected"}},
        losses |-> {{Qualified(o[1]), Qualified(o[2])} :
                    o \in {x \in asked : Account(C, x[1], x[2]) = "fan-out pruned"}},
        groups |-> [found |-> {o.pair.anchor : o \in {x \in ranked : x.shown}},
                    total |-> {o.pair.anchor : o \in ranked}]]

-----------------------------------------------------------------------------
(* Another scorer over the same pairs *)

RoleFamily(role) == IF role \in Heads THEN "role_head" ELSE role

\* pair_features: kinds of keys, each once, and roles by family.
PrintFamilies(p) == {k[1] : k \in p.keys} \cap Prints
RoleFamilies(p)  == {RoleFamily(k[1]) : k \in {x \in p.keys : x[1] \in Roles}}

\* evidence_mode; a file of none is a declaration without a place in a source.
StaticEvidence(p) ==
    p.anchor.origin # p.candidate.origin /\ \E d \in Members(p) : d.file = "none"

\* score_features; nothing has been verified when a search is observed.
Score(p, variant) ==
    LET print(f, w)  == IF f \in PrintFamilies(p) THEN w ELSE 0
        connective   == print("connective", 24) + print("conclusion", 24)
        roles        == 8 * Cardinality(RoleFamilies(p))
        module       == IF p.anchor.module = p.candidate.module THEN 4 ELSE 2
        static       == IF StaticEvidence(p) THEN 2 ELSE 0
        unless(v, n) == IF variant = v THEN 0 ELSE n
    IN unless("semantic-evidence-only-rerank",
              print("statement", 100) + print("permutation", 80)
              + unless("no-connective-conclusion-features", connective)
              + unless("no-role-features", roles)
              + unless("no-source-module-features", module)
              + unless("no-static-evidence-features", static))

\* score_observation: the review policy speaks under the ordinary scorer only.
Rated(o, variant) ==
    LET ranked == o.ranked /\ Score(o.pair, variant) > 0
    IN [o EXCEPT !.ranked = ranked,
                 !.shown = ranked /\ Score(o.pair, variant) >= VisibleScore]

\* rerank_pairs: one order for all anchors.
Ahead(o, q, variant) ==
    LET place(x) == <<-Score(x.pair, variant), IF x.rank = 0 THEN 999 ELSE x.rank,
                      Qualified(x.pair.anchor), Qualified(x.pair.candidate)>>
    IN \E i \in 1 .. 4 : /\ place(o)[i] < place(q)[i]
                         /\ \A j \in 1 .. i - 1 : place(o)[j] = place(q)[j]

\* rescore_observation
Rescored(seen, variant) ==
    LET rated   == {Rated(o, variant) : o \in seen.pairs}
        rank(o) == IF ~o.ranked THEN 0
                   ELSE 1 + Cardinality({q \in rated : q.ranked /\ Ahead(q, o, variant)})
        anchors(S) == {Qualified(o.pair.anchor) : o \in S}
    IN IF variant = "all-features" THEN seen
       ELSE [seen EXCEPT !.pairs = {[o EXCEPT !.rank = rank(o)] : o \in rated},
                         !.groups = [found |-> anchors({o \in rated : o.shown}),
                                     total |-> anchors({o \in rated : o.ranked})]]

=============================================================================
