------------------------------ MODULE Ranking ------------------------------
(***************************************************************************)
(* rank_candidates, the review policy and the replacement hints: what an   *)
(* audit makes of its candidate pairs.  A pair becomes a group with a      *)
(* relation, blockers, a place in the queue and an action; what Lean said  *)
(* of the pair counts before what the fingerprints suggest.  E maps pairs  *)
(* to evidence, F holds the source facts: the rows whose files were read,  *)
(* and the ids of those whose uses were looked for.                        *)
(***************************************************************************)
EXTENDS Retrieval

CONSTANTS
    NearScore,     \* min_near_score, in the units of Rarity
    AliasCallers,  \* transitional_alias_callers
    MaxUses        \* references listed for a declaration before truncation

ASSUME RankingAssumption == {NearScore, AliasCallers, MaxUses} \subseteq Nat \ {0}

TheoremKinds == {"theorem", "axiom"}

\* In the order of their labels, which begin the ids of groups.
Relations == <<"connective-equivalent", "exact-statement", "near-statement",
               "permuted-statement", "source-clone", "specialization",
               "subsumption-candidate">>

High == 1
Medium == 2
Low == 3
Noise == 4

\* pair_id; it says which of the two is the anchor.
Key(p) == p.anchor.id * 100 + p.candidate.id

Shares(p, prints) == \E k \in p.keys : k[1] \in prints

StrongPair(p) == Shares(p, {"statement", "permutation", "connective"})

\* kind_class
InstanceLike(d) == d.kind = "instance" \/ d.inst

TheoremLike(d) == d.kind \in TheoremKinds /\ ~InstanceLike(d)

TheoremPair(p) == TheoremLike(p.anchor) /\ TheoremLike(p.candidate)

Status(E, p) == IF Key(p) \in DOMAIN E THEN E[Key(p)].status ELSE "none"

\* proof_grade: the kind that was verified, if one was.
Proved(E, p) == {E[x].kind : x \in {y \in DOMAIN E : y = Key(p) /\ E[y].status = "verified"}}

\* The origin of an index decides; the workspace has no mode of its own.
Mode(C, d) ==
    IF d \in C.rows THEN "static" ELSE (CHOOSE x \in C.indexes : d \in x.rows).mode

Required(C, p) == Mode(C, p.candidate) = "proof-grade"

Clones(F, p) ==
    /\ {p.anchor, p.candidate} \subseteq {d \in F.rows : d.file = "read"}
    /\ p.anchor.text # 0 /\ p.anchor.text = p.candidate.text

-----------------------------------------------------------------------------
(* Source facts *)

\* Uses are looked for in the files of the rows, and nowhere else.
Uses(F, d) == {u \in d.uses : \E r \in F.rows : r.file = "read" /\ r.module = u[1]}

WasScanned(F, d) == d \in F.rows /\ d.id \in F.scanned

UseStatus(F, d) ==
    CASE ~WasScanned(F, d) -> "not-requested"
      [] WasScanned(F, d) /\ d.file = "none" -> "missing-source"
      [] WasScanned(F, d) /\ d.file = "unread" -> "unavailable"
      [] WasScanned(F, d) /\ d.file = "read" ->
             IF Cardinality(Uses(F, d)) >= MaxUses THEN "truncated" ELSE "complete"

Listed(F, d) == IF UseStatus(F, d) \in {"complete", "truncated"} THEN Uses(F, d) ELSE {}

\* import_status_for: whether the file of d sees module m.
ImportOf(C, F, d, m) ==
    CASE d \in F.rows /\ d.module = m -> "direct"
      [] d \notin F.rows \/ (d.module # m /\ d.file # "read") -> "unknown"
      [] OTHER -> IF m \in C.imports[d.module] THEN "direct" ELSE "missing"

\* local_import_status and aggregate_import_status, which agree here.
Imports(C, F, ds, m) ==
    LET all == {ImportOf(C, F, d, m) : d \in ds}
    IN CASE all = {"direct"} -> "direct"
         [] "missing" \in all -> "missing"
         [] OTHER -> "unknown"

-----------------------------------------------------------------------------
(* One pair *)

Members(p) == {p.anchor, p.candidate}

Marked(d) == d.broad # {} \/ d.dull

BroadHeadOnly(p) ==
    /\ p.keys # {}
    /\ \A k \in p.keys : k[1] \in Roles /\ k[2] \in p.anchor.broad \cup p.candidate.broad

\* visibility_blockers
PolicyBlockers(p) ==
    {b \in {"generated", "non-public", "low-signal", "broad-head-only", "instance", "static-only"} :
        CASE b = "generated"       -> \E d \in Members(p) : d.generated
          [] b = "non-public"      -> \E d \in Members(p) : ~d.public
          [] b = "low-signal"      -> \E d \in Members(p) : Marked(d)
          [] b = "broad-head-only" -> BroadHeadOnly(p)
          [] b = "instance"        -> \E d \in Members(p) : InstanceLike(d)
          [] b = "static-only"     -> ~TheoremPair(p)}

Near(p) == p.score >= NearScore \/ Shares(p, {"conclusion"})

\* What is known of the pair, from Lean or, where that is allowed, from
\* fingerprints, the strongest first.
Holds(C, E, F, p, relation) ==
    LET static(prints) == ~Required(C, p) /\ TheoremPair(p) /\ Shares(p, prints)
        proved(kinds)  == Proved(E, p) \cap kinds # {}
    IN CASE relation = "exact-statement" ->
                proved({"ExactTheorem", "ReducibleDefinition"}) \/ static({"statement"})
         [] relation = "specialization" -> TheoremPair(p) /\ proved({"Specialization"})
         [] relation = "permuted-statement" ->
                proved({"PermutedTheorem"}) \/ static({"permutation"})
         [] relation = "connective-equivalent" ->
                proved({"Replacement"}) \/ static({"connective"})
         [] relation = "source-clone" -> Clones(F, p)
         [] relation = "subsumption-candidate" -> Near(p)
         [] relation = "near-statement" -> TRUE

Strength == <<"exact-statement", "specialization", "permuted-statement",
              "connective-equivalent", "source-clone", "subsumption-candidate",
              "near-statement">>

RelationOf(C, E, F, p) ==
    Strength[Min({i \in DOMAIN Strength : Holds(C, E, F, p, Strength[i])})]

\* Mutant: what Lean says does not lift the rule for definitions.
SettlesOfClones(F, E, p) == Clones(F, p)

\* A clone, or something that Lean has verified other than a local duplicate.
Settles(F, E, p) ==
    Clones(F, p) \/ Proved(E, p) \ {"LocalDuplicate"} # {}

BlockersOf(C, E, F, p, relation) ==
    {b \in PolicyBlockers(p) : b = "static-only" => ~Settles(F, E, p)}
    \cup {b \in {"rejected", "unavailable", "unverified", "weak"} :
            CASE b = "unverified" -> Required(C, p) /\ StrongPair(p) /\ Proved(E, p) = {}
              [] b = "weak"       -> relation = "near-statement"
              [] OTHER            -> Status(E, p) = b}

\* blockers_force_noise
Silenced(F, E, p, relation, blockers) ==
    \/ blockers \cap {"generated", "broad-head-only", "instance", "static-only",
                      "unverified"} # {}
    \/ /\ "low-signal" \in blockers /\ ~Settles(F, E, p)
       /\ ~( /\ Shares(p, {"statement"}) /\ Shares(p, {"permutation"})
             /\ relation \in {"exact-statement", "permuted-statement"} )

\* priority_for, and what rank_pair makes of its answer.
PriorityOf(p, relation, blockers, silenced) ==
    LET faint   == {"weak", "low-signal"} \cap blockers # {} \/ p.score < NearScore
        foreign == relation = "subsumption-candidate" /\ p.candidate.origin = "mathlib"
        minor   == faint \/ foreign \/ relation \in {"source-clone", "near-statement"}
    IN CASE silenced -> Noise
         [] ~silenced /\ minor -> Low
         [] ~silenced /\ ~minor -> IF relation = "exact-statement" THEN High ELSE Medium

ConfidenceOf(relation, priority) ==
    CASE priority = Noise -> Noise
      [] priority # Noise /\ relation = "exact-statement" -> High
      [] priority # Noise /\ relation = "near-statement" -> Low
      [] OTHER -> Medium

\* recommended_target: mathlib first, the workspace last, then by name.
TargetOf(p) ==
    LET place(d) == CASE d.origin = "mathlib" -> 0
                      [] d.origin = "library" -> 1
                      [] d.origin = "workspace" -> 2
        a == p.anchor    c == p.candidate
    IN IF place(a) < place(c) \/ (place(a) = place(c) /\ a.id <= c.id) THEN a ELSE c

LocalMembers(C, p) == {p.anchor, p.candidate} \cap C.rows

\* Each use of each local member, at its own place.
Callers(C, F, p) == UNION {{d} \X Listed(F, d) : d \in LocalMembers(C, p)}

CallerCount(C, F, p) == Cardinality(Callers(C, F, p))

\* action_for
ActionOf(C, F, p, relation) ==
    LET exact   == relation = "exact-statement"
        known   == p.candidate.origin = "mathlib"
        fewUses == /\ CallerCount(C, F, p) \in 1 .. AliasCallers - 1
                   /\ Imports(C, F, LocalMembers(C, p), TargetOf(p).module) # "missing"
    IN CASE exact /\ known -> "already-in-mathlib"
         [] exact /\ ~known /\ fewUses -> "replace-local-uses"
         [] exact /\ ~known /\ ~fewUses -> "local-alias"
         [] relation \in {"permuted-statement", "connective-equivalent"} -> "local-alias"
         [] relation = "specialization" -> "specialization-of"
         [] relation = "source-clone" -> "probable-source-clone"
         [] relation = "subsumption-candidate" -> "merge-generalization"
         [] relation = "near-statement" -> "manual-review"

EvidenceMode(C, E, p) ==
    IF Proved(E, p) # {} THEN "proof-grade" ELSE Mode(C, p.candidate)

\* rank_pair
Group(C, E, F, p) ==
    LET relation == RelationOf(C, E, F, p)
        blockers == BlockersOf(C, E, F, p, relation)
        priority == PriorityOf(p, relation, blockers,
                               Silenced(F, E, p, relation, blockers))
    IN [id |-> <<relation, {p.anchor.id, p.candidate.id}>>, pair |-> p,
        relation |-> relation, blockers |-> blockers,
        priority |-> priority, confidence |-> ConfidenceOf(relation, priority),
        action |-> ActionOf(C, F, p, relation), target |-> TargetOf(p),
        mode |-> EvidenceMode(C, E, p), callers |-> CallerCount(C, F, p), hints |-> {}]

-----------------------------------------------------------------------------
(* The review *)

\* Of two groups with one id, that is of both orders of a pair under the same
\* relation, the first stays; anchors come in the order of their ids.
Stays(C, E, F, pairs, p) ==
    \A q \in {r \in pairs : Members(r) = Members(p)} :
        RelationOf(C, E, F, q) = RelationOf(C, E, F, p) => p.anchor.id <= q.anchor.id

\* rank_candidates
Ranked(C, E, F, pairs) ==
    {Group(C, E, F, p) : p \in {q \in pairs : Stays(C, E, F, pairs, q)}}

RelationPlace(g) == CHOOSE i \in DOMAIN Relations : Relations[i] = g.relation

\* The order of the queue.  The digests in ids are in no order of their own:
\* that of the pairs stands for it.
QueueRank(g) == <<g.priority, g.confidence, RelationPlace(g),
                  Min(g.id[2]), Max(g.id[2])>>

Precedes(g, h) == \E i \in 1 .. 5 :
    /\ QueueRank(g)[i] < QueueRank(h)[i]
    /\ \A j \in 1 .. i - 1 : QueueRank(g)[j] = QueueRank(h)[j]

\* ReviewFilter::includes, of the options of a command.
LowestShown(o) == CASE o.diagnostics -> Noise
                    [] ~o.diagnostics /\ o.low -> Low
                    [] ~o.diagnostics /\ ~o.low -> Medium

Includes(o, g) ==
    /\ g.priority = Noise => o.diagnostics
    /\ "generated" \in g.blockers => o.generated \/ o.diagnostics
    /\ (\E d \in Members(g.pair) : ~d.public) => o.private \/ o.diagnostics
    /\ g.blockers \cap {"rejected", "unavailable"} # {} => o.diagnostics
    /\ g.priority <= LowestShown(o)

-----------------------------------------------------------------------------
(* Replacement hints *)

Cleanups == {"already-in-mathlib", "replace-local-uses", "local-alias", "inline-private-helper"}

\* eligible
Hinted(g) ==
    /\ g.confidence \in {High, Medium}
    /\ g.blockers \cap {"generated", "broad-head-only", "weak"} = {}
    /\ g.action \in Cleanups

\* Mutant: only the uses of anchors are looked for.
WantedUsesOfAnchors(C, o, review) ==
    {g.pair.anchor.id : g \in {h \in review : Includes(o, h) /\ Hinted(h)}}

\* reference_declarations_for_hints
WantedUses(C, o, review) ==
    {d.id : d \in UNION {LocalMembers(C, g.pair) :
                            g \in {h \in review : Includes(o, h) /\ Hinted(h)}}}

\* private_helper_wrapper_cleanup: the target is the only user of the helper.
WrapsHelper(C, F, g) ==
    LET helpers == {d \in LocalMembers(C, g.pair) : ~d.public}
    IN /\ "non-public" \in g.blockers /\ g.action \in {"replace-local-uses", "local-alias"}
       /\ g.target \in C.rows /\ g.target.public /\ Cardinality(helpers) = 1
       /\ g.target.file # "none"
       /\ \A d \in helpers : /\ UseStatus(F, d) = "complete" /\ Uses(F, d) # {}
                             /\ \A u \in Uses(F, d) : u = <<g.target.module, g.target.id>>

\* What is known of the uses of a group is what is known of the least known
\* of its local members.
Doubt == <<"missing-source", "unavailable", "truncated", "not-requested", "complete">>

UsesKnown(C, F, g) ==
    LET known == {UseStatus(F, d) : d \in LocalMembers(C, g.pair)}
    IN IF LocalMembers(C, g.pair) \subseteq F.rows
       THEN Doubt[Min({i \in DOMAIN Doubt : Doubt[i] \in known})]
       ELSE "not-requested"

\* wrapper_only, asked again when the action has been changed.
WrapperOnly(C, F, g) ==
    LET helpers == {d \in LocalMembers(C, g.pair) \cap F.rows : ~d.public}
    IN /\ g.target \in C.rows /\ g.target.public /\ g.target.file # "none"
       /\ helpers # {}
       /\ \A d \in helpers : /\ UseStatus(F, d) = "complete"
                             /\ \A u \in Listed(F, d) : u = <<g.target.module, g.target.id>>

CallerImpact(C, F, g) ==
    LET known == UsesKnown(C, F, g)
        calls == Callers(C, F, g.pair)
    IN CASE known \in {"missing-source", "truncated"} -> known
         [] known \in {"not-requested", "unavailable"} -> "unknown"
         [] known = "complete" /\ calls = {} -> "none"
         [] known = "complete" /\ calls # {} ->
                IF g.action = "inline-private-helper" /\ WrapperOnly(C, F, g)
                THEN "wrapper-only" ELSE "bounded"

\* aggregate_import_status, unless the evidence is of no importable module.
HintImports(C, F, g) ==
    IF g.mode = "not-importable" THEN "not-importable"
    ELSE Imports(C, F, LocalMembers(C, g.pair), g.target.module)

\* hint_for_group: at most one.
HintsOf(C, F, g) ==
    {[imports |-> HintImports(C, F, g), impact |-> CallerImpact(C, F, g),
      callers |-> Callers(C, F, g.pair)] :
        x \in {y \in {g} : Hinted(y) /\ LocalMembers(C, y.pair) # {}}}

\* attach_replacement_hints
Advised(C, F, review) ==
    LET acted(g) == [g EXCEPT !.action = IF WrapsHelper(C, F, g)
                                         THEN "inline-private-helper" ELSE @]
    IN {[acted(g) EXCEPT !.hints = HintsOf(C, F, acted(g))] : g \in review}

-----------------------------------------------------------------------------
(* Families *)

\* family_key
FamilyKey(g) == IF g.action \in Cleanups THEN <<g.action, g.target.id>> ELSE g.id

Families(groups) == {{h \in groups : FamilyKey(h) = FamilyKey(g)} : g \in groups}

\* A family speaks with the voice of the group that comes first in the queue.
First(family) == CHOOSE g \in family : \A h \in family \ {g} : Precedes(g, h)

=============================================================================
