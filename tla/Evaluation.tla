------------------------------ MODULE Evaluation ------------------------------
(***************************************************************************)
(* `lean-dup eval`: labels written by hand are resolved to declarations of *)
(* a corpus, a search is observed, and the suite is scored.  The production*)
(* gate runs the four suites in turn and says whether a release may go.    *)
(* Fixture suites fail on a bad score; manual suites, whose corpora are    *)
(* private, are blocked by a lost positive and skipped when the corpus is  *)
(* not there.                                                              *)
(***************************************************************************)
EXTENDS Observation, Sequences

CONSTANTS
    Display(_),  \* the short name of a qualified one
    Settings,    \* what suites may meet, by number
    Requests,    \* each with the settings that it may meet
    RecallGate,  \* 10
    UsualKs      \* 1, 5, 10

Gated  == <<"default", "hard-negatives", "manual-internal", "manual-mathlib">>
Manual == {"manual-internal", "manual-mathlib"}
Suites == {Gated[i] : i \in 1 .. 4}

\* A label is a pair of names, two unless it is spoiled, whether they are
\* duplicates, and what else a typed label says (terms).
Label == [names : {n \in SUBSET Nat : \E x, y \in n : n = {x, y}}, positive : BOOLEAN,
          terms : Nat]

\* file: clusters stand for all of their pairs; fault: what breaks the run
\* after the prerequisites were checked.
Setting == [suite : Suites, rows : SUBSET Declaration, indexes : SUBSET Index,
            clusters : SUBSET [members : SUBSET Nat, positive : BOOLEAN, terms : Nat],
            pairs : SUBSET Label,
            workspace : {"absent", "broken", "uncompiled", "ready"},
            mathlib : {"broken", "uncompiled", "ready"},
            fault : {"none", "prerequisite", "other"}]

\* suite: one of them or the gate; details: the data set and the ablations.
Request == [suite : Suites \cup {"production-gate"}, ks : SUBSET Nat,
            details : BOOLEAN, meets : SUBSET DOMAIN Settings]

UniqueNames(S) ==
    /\ \A d \in S : Qualified(d) \in Nat
    /\ \A d, e \in S : d.origin = e.origin /\ Qualified(d) = Qualified(e) => d = e

\* The origins that suite_definition gives the workspace and the other index.
Apart(s) ==
    /\ \A d \in s.rows : d.origin = "workspace"
    /\ \A x \in s.indexes : \A d \in x.rows : d.origin # "workspace"

\* A corpus and a label file are finite.
Finite(s) ==
    /\ IsFiniteSet(AllRows(s)) /\ IsFiniteSet(s.pairs) /\ IsFiniteSet(s.clusters)
    /\ \A c \in s.clusters : IsFiniteSet(c.members)

ASSUME EvaluationAssumption ==
    /\ \A i \in DOMAIN Settings : LET s == Settings[i] IN
           s \in Setting /\ UniqueNames(AllRows(s)) /\ Apart(s) /\ Finite(s)
    /\ Requests \subseteq Request
    /\ RecallGate \in UsualKs /\ UsualKs \subseteq Nat \ {0}
    /\ VisibleScore \in Nat

-----------------------------------------------------------------------------
(* Labels *)

\* expand_typed_clusters
Expanded(c) == {[names |-> {x, y}, positive |-> c.positive, terms |-> c.terms] :
                    x \in c.members, y \in c.members}
               \ {[names |-> {x}, positive |-> c.positive, terms |-> c.terms] : x \in c.members}

\* validate_typed_labels, of which equal labels are one.
Labels(s) == s.pairs \cup UNION {Expanded(c) : c \in s.clusters}

Malformed(s) ==
    \/ \E c \in s.clusters : Cardinality(c.members) < 2
    \/ \E l, m \in Labels(s) : l.names = m.names /\ l # m

\* LabelDeclarationIndex::resolve: a qualified name before a short one.
Meant(s, n) ==
    LET exact == {d \in AllRows(s) : Qualified(d) = n}
    IN IF exact # {} THEN exact ELSE {d \in AllRows(s) : Display(Qualified(d)) = n}

Ends(s, label) == UNION {Meant(s, n) : n \in label.names}

From(S, origin) == {d \in S : d.origin = origin}

\* canonical_pair
Resolves(s, label) ==
    /\ \A n \in label.names : Cardinality(Meant(s, n)) = 1
    /\ s.suite = "manual-mathlib" =>
           /\ Cardinality(From(Ends(s, label), "workspace")) = 1
           /\ Cardinality(From(Ends(s, label), "mathlib")) = 1

\* resolve_label_references: a label that does not resolve keeps its names.
Seed(s, label) ==
    [label |-> label, resolved |-> Resolves(s, label),
     names |-> IF Resolves(s, label) THEN {Qualified(d) : d \in Ends(s, label)}
               ELSE label.names]

Seeds(s) == {Seed(s, l) : l \in Labels(s)}

\* rebuild_labels: two labels of the file may become one pair.
Wanted(seeds, positive) == {x.names : x \in {y \in seeds : y.label.positive = positive}}

-----------------------------------------------------------------------------
(* Scores *)

Ratio(of, in) == [found |-> Cardinality(of \cap in), total |-> Cardinality(of)]

\* suite_k_values and normalized_k_values
KsOf(suite, ks) ==
    LET asked == ks \cup (IF suite = "default" THEN {RecallGate} ELSE {})
    IN IF asked = {} THEN UsualKs ELSE asked \ {0}

NamesIn(S) == {o.names : o \in S}

\* Where the pairs of some polarity were lost.
Survival(wanted, seen) ==
    [generated |-> Ratio(wanted, NamesIn(seen.pairs)),
     lanes     |-> Ratio(wanted, NamesIn({o \in seen.pairs : o.pair.semantic})),
     ranked    |-> Ratio(wanted, NamesIn({o \in seen.pairs : o.ranked})),
     visible   |-> Ratio(wanted, NamesIn({o \in seen.pairs : o.shown})),
     dropped   |-> Ratio(wanted, NamesIn({o \in seen.pairs : ~o.ranked})),
     pruned    |-> Ratio(wanted, seen.losses)]

\* The counts by origin and family: how often f takes each of its values.
CountBy(f) == [x \in Range(f) |-> Cardinality({i \in DOMAIN f : f[i] = x})]

FeatureFamilies(o) == {k[1] : k \in o.pair.keys}

\* Each observation counts.
ByFamily(S) ==
    CountBy([x \in UNION {{o} \X FeatureFamilies(o) : o \in S} |-> x[2]])

\* Each pair counts once, whichever of the two is the anchor.
PairsByFamily(S) ==
    CountBy([x \in UNION {{o.names} \X FeatureFamilies(o) : o \in S} |-> x[2]])

\* stage_metrics::score
StageMetrics(positives, negatives, seen) ==
    LET ranked     == {o \in seen.pairs : o.ranked}
        of(S, names) == {o \in S : o.names \in names}
    IN [positive |-> Survival(positives, seen),
        negative |-> Survival(negatives, seen),
        origins  |-> CountBy([o \in ranked |-> o.pair.candidate.origin]),
        ranked    |-> ByFamily(ranked),
        generated |-> ByFamily(seen.pairs),
        negatives |-> PairsByFamily(of(seen.pairs, negatives)),
        dropped_positives |-> PairsByFamily(of(seen.pairs \ ranked, positives)),
        dropped_negatives |-> PairsByFamily(of(seen.pairs \ ranked, negatives))]

\* score_run
Scored(seeds, seen, ks) ==
    LET positives == Wanted(seeds, TRUE)
        negatives == Wanted(seeds, FALSE)
        ranked    == {o \in seen.pairs : o.ranked}
        shown     == NamesIn({o \in seen.pairs : o.shown})
        within(k) == NamesIn({o \in ranked : o.rank <= k})
    IN [recall    |-> [k \in ks |-> Ratio(positives, within(k))],
        entered   |-> [k \in ks |-> Ratio(negatives, within(k))],
        precision |-> Ratio(shown, positives),
        hits      |-> Ratio(negatives, shown),
        groups    |-> [found |-> Cardinality(seen.groups.found),
                       total |-> Cardinality(seen.groups.total)],
        stages    |-> StageMetrics(positives, negatives, seen),
        ranked    |-> Cardinality(ranked)]

\* Mutant: the suite of hard negatives is scored and passes whatever it says.
MissesGateOfDefault(suite, m) ==
    /\ suite = "default"
    /\ \/ m.hits.found # 0
       \/ m.recall[RecallGate].found # m.recall[RecallGate].total

\* enforce_suite_gates
MissesGate(suite, m) ==
    \/ suite \in {"default", "hard-negatives"} /\ m.hits.found # 0
    \/ suite = "default" /\ m.recall[RecallGate].found # m.recall[RecallGate].total

-----------------------------------------------------------------------------
(* What became of each label *)

\* skip_reasons; the statement of an extracted declaration is never empty, as it
\* begins with kind and name (statementText in Extract.lean).
Eligible(d) ==
    /\ d.public /\ ~d.generated /\ ~Marked(d)
    /\ d.kind \in {"theorem", "axiom", "def", "instance"}

\* Of two observations of one pair the later is kept, tracked pairs last.
LastOf(S) ==
    LET tracked == {o \in S : ~o.ranked}
    IN IF tracked # {} THEN CHOOSE o \in tracked : TRUE
       ELSE CHOOSE o \in S : \A q \in S : q.pair.anchor.id <= o.pair.anchor.id

\* loss_reason
LostAt(s, seed, seen) ==
    LET observed == {o \in seen.pairs : o.names = seed.names}
    IN CASE ~seed.resolved -> "resolution"
         [] seed.resolved /\ \E d \in Ends(s, seed.label) : ~Eligible(d) -> "eligibility"
         [] OTHER -> IF observed = {} THEN "generation"
                     ELSE IF ~LastOf(observed).ranked THEN "ranking"
                     ELSE IF ~LastOf(observed).shown THEN "visibility" ELSE "none"

\* trace_labels
Traces(s, seeds, seen) == {[seed |-> x, lost |-> LostAt(s, x, seen)] : x \in seeds}

Blocked(s, traces) ==
    LET positive == {t \in traces : t.seed.label.positive}
    IN /\ s.suite \in Manual
       /\ \/ \E t \in positive : t.lost # "none"
          \/ Cardinality({t.seed.names : t \in positive})
                # Cardinality({t \in positive : t.seed.resolved})

-----------------------------------------------------------------------------
(* Artifacts *)

\* search_dataset::build; of contrary labels that became one pair the last
\* of the file is written.
Dataset(seeds, seen) ==
    {[observed |-> o, labels |-> {x.label.positive : x \in {y \in seeds : y.names = o.names}}] :
        o \in seen.pairs}

\* scorer_ablation_variants
Ablations(seeds, seen, ks) ==
    [v \in Variants |-> Scored(seeds, Rescored(seen, v), ks)]

-----------------------------------------------------------------------------
(* One suite after another *)

VARIABLES
    request,
    met,     \* the numbers of the settings met, in the order of the suites
    runs,    \* the reports of the suites
    outcome, \* "" until the command ends
    totals   \* of the gate

evaluationVars == <<request, met, runs, outcome, totals>>

IsGate == request.suite = "production-gate"

Todo == IF IsGate THEN Gated ELSE <<request.suite>>

Met(i) == Settings[met[i]]

NotRun(status) == [status |-> status, metrics |-> {}, traces |-> {}, dataset |-> {}, ablations |-> {}]

\* manual_prerequisites
Satisfied(s) ==
    /\ ~Malformed(s)
    /\ s.workspace = "ready"
    /\ s.suite = "manual-mathlib" => s.mathlib = "ready"

Tell(i, run) == met' = Append(met, i) /\ runs' = Append(runs, run)

\* run_manual_single, run_child_suite
Skip(i) ==
    /\ Settings[i].suite \in Manual /\ ~Satisfied(Settings[i])
    /\ Tell(i, NotRun("skipped"))

Starts(s) == s.suite \in Manual => Satisfied(s)

\* An error that looks like a prerequisite skips a manual suite of the gate.
Break(i) ==
    /\ Starts(Settings[i])
    /\ Settings[i].fault # "none" \/ Malformed(Settings[i])
    /\ LET excused == /\ IsGate /\ Settings[i].suite \in Manual
                      /\ Settings[i].fault = "prerequisite"
       IN Tell(i, NotRun(IF excused THEN "skipped" ELSE "failed"))

\* run_single
RunOf(s, r) ==
    LET seeds   == Seeds(s)
        seen    == Observation(s, Wanted(seeds, TRUE) \cup Wanted(seeds, FALSE))
        ks      == KsOf(s.suite, r.ks)
        metrics == Scored(seeds, seen, ks)
        traces  == Traces(s, seeds, seen)
    IN IF MissesGate(s.suite, metrics) THEN NotRun("failed")
       ELSE [status    |-> IF Blocked(s, traces) THEN "blocked" ELSE "ok",
             metrics   |-> {metrics},
             traces    |-> IF s.suite \in Manual THEN traces ELSE {},
             dataset   |-> IF r.details /\ r.suite # "production-gate"
                           THEN Dataset(seeds, seen) ELSE {},
             ablations |-> IF r.details THEN {Ablations(seeds, seen, ks)} ELSE {}]

Evaluate(i) ==
    /\ Starts(Settings[i])
    /\ Settings[i].fault = "none" /\ ~Malformed(Settings[i])
    /\ Tell(i, RunOf(Settings[i], request))

RunSuite ==
    /\ Len(runs) < Len(Todo)
    /\ \E i \in request.meets :
           /\ Settings[i].suite = Todo[Len(runs) + 1]
           /\ Skip(i) \/ Break(i) \/ Evaluate(i)
    /\ UNCHANGED <<request, outcome, totals>>

\* Sums over the suites that have metrics.
Sum(ns) == MapThenSumSet(LAMBDA j : ns[j], DOMAIN ns)

SumRatio(rs) == [found |-> Sum([j \in DOMAIN rs |-> rs[j].found]),
                 total |-> Sum([j \in DOMAIN rs |-> rs[j].total])]

\* Only the suites that report some k count for it.
SumAt(fs) ==
    [k \in UNION {DOMAIN fs[j] : j \in DOMAIN fs} |->
        SumRatio([j \in {i \in DOMAIN fs : k \in DOMAIN fs[i]} |-> fs[j][k]])]

SumSurvival(ss) ==
    [stage \in {"generated", "lanes", "ranked", "visible", "dropped", "pruned"} |->
        SumRatio([j \in DOMAIN ss |-> ss[j][stage]])]

SumMaps(fs) ==
    [x \in UNION {DOMAIN fs[j] : j \in DOMAIN fs} |->
        Sum([j \in {i \in DOMAIN fs : x \in DOMAIN fs[i]} |-> fs[j][x]])]

\* stage_metrics::aggregate
AggregateStages(ms) ==
    LET every(field) == [j \in DOMAIN ms |-> ms[j][field]]
    IN [positive |-> SumSurvival(every("positive")),
        negative |-> SumSurvival(every("negative")),
        counts   |-> [field \in {"origins", "ranked", "generated", "negatives",
                                 "dropped_positives", "dropped_negatives"} |->
                         SumMaps(every(field))]]

\* aggregate_metrics, of the suites that have any.
Aggregate(ms) ==
    LET every(field) == [j \in DOMAIN ms |-> ms[j][field]]
    IN [recall    |-> SumAt(every("recall")),
        entered   |-> SumAt(every("entered")),
        precision |-> SumRatio(every("precision")),
        hits      |-> SumRatio(every("hits")),
        groups    |-> SumRatio(every("groups")),
        stages    |-> AggregateStages(every("stages")),
        ranked    |-> Sum(every("ranked"))]

TheOne(S) == CHOOSE x \in S : TRUE

Completed == [i \in {j \in DOMAIN runs : runs[j].metrics # {}} |-> TheOne(runs[i].metrics)]

\* aggregate_scorer_ablations
CompletedAblations(v) ==
    [i \in {j \in DOMAIN runs : runs[j].ablations # {}} |-> TheOne(runs[i].ablations)[v]]

Said(status) == \E i \in DOMAIN runs : runs[i].status = status

GateStatus == IF Said("failed") THEN "failed"
              ELSE IF Said("blocked") THEN "blocked"
              ELSE IF Said("skipped") THEN "incomplete" ELSE "ok"

\* run_production_gate; a single suite that fails is the error of the command.
Conclude ==
    /\ outcome = "" /\ Len(runs) = Len(Todo)
    /\ outcome' = IF IsGate THEN GateStatus
                  ELSE IF Said("failed") THEN "error" ELSE runs[1].status
    /\ totals' = IF ~IsGate THEN {}
                 ELSE {[metrics |-> Aggregate(Completed),
                        ablations |-> IF request.details
                                      THEN [v \in Variants |-> Aggregate(CompletedAblations(v))]
                                      ELSE <<>>]}
    /\ UNCHANGED <<request, met, runs>>

EvaluationInit ==
    request \in Requests /\ met = <<>> /\ runs = <<>> /\ outcome = "" /\ totals = {}

EvaluationNext == RunSuite \/ Conclude

EvaluationSpec == EvaluationInit /\ [][EvaluationNext]_evaluationVars

-----------------------------------------------------------------------------
(* Properties *)

Pairs(s) == Retrieved(s, Everywhere(s))

\* The candidate pairs of the declarations that a label speaks of.
PairsOf(s, label) == {p \in Pairs(s) : Members(p) = Ends(s, label)}

WithinGate(s, p) == RankIn(Pairs(s), p) <= RecallGate

\* When the gate says ok, all four suites were run, every duplicate of the
\* default suite is among the first candidates of one of the two, every
\* duplicate of the private corpora would be shown for review, and no hard
\* negative of a fixture whose names resolve would.
GateIsHonest == IsGate /\ outcome = "ok" =>
    /\ Len(met) = 4
    /\ \A i \in 1 .. 4, l \in UNION {Labels(Met(j)) : j \in 1 .. 4} : LET s == Met(i) IN
        l \in Labels(s) =>
            IF l.positive
            THEN /\ s.suite = "default" /\ Resolves(s, l) =>
                        \E p \in PairsOf(s, l) : WithinGate(s, p)
                 /\ s.suite \in Manual => \E p \in PairsOf(s, l) : SymbolicVisible(p)
            ELSE s.suite \notin Manual /\ Resolves(s, l) =>
                        \A p \in PairsOf(s, l) : ~SymbolicVisible(p)

\* Whether the pair of a label was lost at some layer: found from neither side,
\* found and not taken, taken and not shown, or not lost.  The walk that tells
\* the first two apart opens postings that were narrowed for other anchors, and
\* walks from a declaration to itself if both names of the label mean it.
LostThere(s, label, layer) ==
    LET pairs == PairsOf(s, label)
        sides == (Ends(s, label) \cap s.rows) \X Ends(s, label)
        found == \E x \in sides : x[2] # x[1] /\ x[2] \in DOMAIN Found(s, x[1])
        apart == \E x \in sides : x[2] = x[1] \/ Narrowed(s, x[1], x[2])
    IN CASE layer \in {"resolution", "eligibility"} -> TRUE
         [] layer = "generation" -> ~found
         [] layer = "ranking"    -> pairs = {} /\ (found \/ apart)
         [] layer = "visibility" -> pairs # {} /\ \A p \in pairs : ~SymbolicVisible(p)
         [] layer = "none"       -> \E p \in pairs : SymbolicVisible(p)

\* The report of a manual suite says of each label where it was lost, and
\* that is where the search lost it.
LossIsLocated == \A i \in DOMAIN runs : \A t \in runs[i].traces :
    LostThere(Met(i), t.seed.label, t.lost)

=============================================================================
