----------------------------- MODULE Retrieval -----------------------------
(***************************************************************************)
(* retrieve_candidates: which declarations are worth comparing with each   *)
(* anchor of the workspace.  Declarations meet in the postings of the keys *)
(* that Lean printed for them; a posting that is too wide is not opened,   *)
(* and of those that meet the best are kept, over all keys and within each *)
(* of two lanes.  observe_search explains the loss of a pair with a second *)
(* walk over the same keys, for that pair only.                            *)
(***************************************************************************)
EXTENDS Naturals, FiniteSetsExt

CONSTANTS
    LeanModules,
    TopK, LaneTopK,        \* candidates kept for an anchor: overall, by lane
    RoleLimit, BroadLimit, \* the widest posting opened for a feature
    Rarity(_, _)           \* worth of a key: declarations, holders of the key

ASSUME LimitAssumption ==
    /\ {TopK, LaneTopK, RoleLimit, BroadLimit} \subseteq Nat
    /\ BroadLimit <= RoleLimit

Prints == {"statement", "permutation", "connective", "conclusion"}
Heads  == {"conclusion_head", "hypothesis_head", "binder_domain_head"}
Roles  == Heads \cup {"conclusion_const", "hypothesis_const"}

\* id, the place of the declaration id, of its name and of its index row;
\* inst, whether its display name begins with "inst";
\* keys, the fingerprints and role features that Lean printed, each with its
\* value; broad, values marked as broad heads; dull, any other mark of a low
\* signal; text, the source text up to names (0: none); file, whether the
\* source can be found and read; uses, the modules, and in them the
\* declarations (0: none), whose text has a token of the name.
Declaration == [id : 1 .. 99, origin : {"workspace", "mathlib", "library"},
                module : LeanModules,
                kind : {"theorem", "axiom", "def", "abbrev", "instance"},
                inst : BOOLEAN, public : BOOLEAN, generated : BOOLEAN,
                keys : SUBSET ((Prints \cup Roles) \X Nat),
                broad : SUBSET Nat, dull : BOOLEAN, text : Nat,
                file : {"read", "unread", "none"}, uses : SUBSET (LeanModules \X Nat)]

\* mode: what an index of this provenance can be used for in this audit.
Index == [mode : {"static", "not-importable", "proof-grade"},
          rows : SUBSET Declaration]

\* imports: what the text of a file imports by name.
Corpus == [rows : SUBSET Declaration, indexes : SUBSET Index,
           imports : [LeanModules -> SUBSET LeanModules]]

AllRows(C) == C.rows \cup UNION {x.rows : x \in C.indexes}

-----------------------------------------------------------------------------
(* Keys *)

Base == [statement |-> 100, permutation |-> 85, connective |-> 65, conclusion |-> 45,
         conclusion_const |-> 18, hypothesis_const |-> 10, conclusion_head |-> 8,
         hypothesis_head |-> 4, binder_domain_head |-> 3]

Broad(d, k) == k[1] \in Heads /\ k[2] \in d.broad

\* A key that can bring in a candidate; the others only add to its score.
Admits(d, k) == ~Broad(d, k) /\ k[1] # "binder_domain_head"

Weight(d, k) == IF Broad(d, k) THEN 1 ELSE Base[k[1]]

Holders(k, rows) == {d \in rows : k \in d.keys}

\* d opens a posting of k that has n entries.
Opens(d, k, n) ==
    k[1] \in Prints \/ n <= (IF Broad(d, k) THEN BroadLimit ELSE RoleLimit)

\* The rows whose postings hold c.
Home(C, c) == UNION {S \in {C.rows} \cup {x.rows : x \in C.indexes} : c \in S}

Fanout(C, c, k) == Cardinality(Holders(k, Home(C, c)))

\* Mutant: features are not limited in the workspace.
MeetInAll(C, a, c) ==
    {k \in a.keys \cap c.keys :
        c \in C.rows \/ \A d \in Holders(k, C.rows) : Opens(d, k, Fanout(C, c, k))}

\* Where a meets c.  The postings of an index are fetched once for all
\* anchors, under the tightest of their limits.
Meet(C, a, c) ==
    {k \in a.keys \cap c.keys :
        IF c \in C.rows THEN Opens(a, k, Fanout(C, c, k))
        ELSE \A d \in Holders(k, C.rows) : Opens(d, k, Fanout(C, c, k))}

Admitted(a, keys) == {k \in keys : \E m \in keys : Admits(a, m)}

Contributions(C, a, c) == Admitted(a, Meet(C, a, c))

Worth(C, a, c, keys) == MapThenSumSet(
    LAMBDA k : Weight(a, k) * Rarity(Cardinality(Home(C, c)), Fanout(C, c, k)), keys)

-----------------------------------------------------------------------------
(* Selection *)

Others(C, a) == (C.rows \ {a}) \cup UNION {x.rows : x \in C.indexes}

\* The candidates of a before the selection, with what they share.
Found(C, a) ==
    LET shared == [c \in Others(C, a) |-> Contributions(C, a, c)]
    IN [c \in {d \in Others(C, a) : shared[d] # {}} |-> shared[c]]

\* The n best by value; among equals the heap keeps the later key.
Best(S, n, value) ==
    {c \in S : Cardinality({d \in S : \/ value[d] > value[c]
                                      \/ value[d] = value[c] /\ d.id > c.id}) < n}

Lanes == {Prints, Roles}

\* Mutant: the lanes share the overall bound.
InLaneOfAll(C, a, found, lane) ==
    LET S == DOMAIN found
    IN {c \in Best(S, LaneTopK, [c \in S |-> Worth(C, a, c, found[c])]) :
            \E k \in found[c] : k[1] \in lane}

\* select_subset_by_score, over the keys of a lane alone.
InLane(C, a, found, lane) ==
    LET kept == [c \in DOMAIN found |-> {k \in found[c] : k[1] \in lane}]
        S    == {c \in DOMAIN found : kept[c] # {}}
    IN Best(S, LaneTopK, [c \in S |-> Worth(C, a, c, kept[c])])

\* select_top, with what the stages after retrieval see of a pair.
Candidates(C, a) ==
    LET found == Found(C, a)
        score == [c \in DOMAIN found |-> Worth(C, a, c, found[c])]
        lanes == UNION {InLane(C, a, found, lane) : lane \in Lanes}
    IN {[anchor |-> a, candidate |-> c, keys |-> found[c],
         score |-> score[c], semantic |-> c \in lanes] :
            c \in Best(DOMAIN found, TopK, score) \cup lanes}

\* Anchors outside the focus are skipped, and remain candidates of others.
Retrieved(C, focus) == UNION {Candidates(C, a) : a \in {d \in C.rows : d.id \in focus}}

-----------------------------------------------------------------------------
(* The account of observe_search *)

\* The tracked pair is walked under the limits of its own anchor.
Walked(C, a, c) == {k \in a.keys \cap c.keys : Opens(a, k, Fanout(C, c, k))}

\* What the observation says of a pair that is not among the candidates.
Account(C, a, c) ==
    IF Admitted(a, Walked(C, a, c)) # {} THEN "generated, not selected"
    ELSE IF (a.keys \cap c.keys) \ Walked(C, a, c) # {} THEN "fan-out pruned"
    ELSE "no shared key"

\* Some other declaration of the workspace holds the key as a broad head.
Narrowed(C, a, c) == \E k \in Walked(C, a, c) : k \notin Meet(C, a, c)

=============================================================================
