---------------------------- MODULE AuditPipeline ----------------------------
(***************************************************************************)
(* run_audit_workflow from the index to the report of lint: candidates are *)
(* retrieved and ranked cheaply, ProbePlanning takes the pairs that are    *)
(* worth a verdict, Lean is asked, and the review is made again from what  *)
(* it said, a second time when callers have to be counted.  All up to the  *)
(* plan is a function of the corpus and the request, so behaviours begin   *)
(* with the plan.                                                          *)
(***************************************************************************)
EXTENDS ProbePlanning, Ranking, LintFocus, Functions

CONSTANTS
    Audits,       \* the requests, each with the corpus that it meets
    VisibleLimit  \* families in a report

\* selection: what the command names as its focus, and tree: the source files;
\* mathlib: --compare-mathlib; probing: "none" for a budget or a chunk of zero;
\* skipped: the index lacks declarations that ran out of heartbeats.
Audit == [rows : SUBSET Declaration, indexes : SUBSET Index,
          imports : [LeanModules -> SUBSET LeanModules],
          selection : Selection, tree : [LeanModules -> SourceFile], mathlib : BOOLEAN,
          options : [private : BOOLEAN, low : BOOLEAN,
                     diagnostics : BOOLEAN, generated : BOOLEAN],
          settings : Settings, probing : {"on", "off", "none"}, skipped : BOOLEAN]

-----------------------------------------------------------------------------
(* What the plan starts from *)

\* candidate_sets_for_review
Reviewed(a, pairs) ==
    {p \in pairs :
        \/ a.options.diagnostics
        \/ /\ a.mathlib => p.candidate.origin = "mathlib"
           /\ p.candidate.kind \in Supported /\ StrongPair(p)}

\* source_fact_declarations, before any use is looked for.
FirstFacts(a, pairs) ==
    [rows |-> IF a.options.diagnostics THEN a.rows
              ELSE a.rows \cap UNION {{p.anchor, p.candidate} : p \in pairs},
     scanned |-> {}]

NoEvidence == <<>>

Importable(a, d) == d \in a.rows \/ Mode(a, d) = "proof-grade"

\* A pair as plan_probes sees it, with its group of the cheap review.
CandidateOf(a, pair, group, ranked) ==
    [id |-> Key(pair), anchor |-> pair.anchor.id,
     left |-> pair.anchor.module, right |-> pair.candidate.module,
     leftKind |-> pair.anchor.kind, rightKind |-> pair.candidate.kind,
     ranked |-> ranked,
     blocked |-> group.blockers \cap {"generated", "broad-head-only", "weak"} # {},
     recommended |-> /\ group.action \in Cleanups
                     /\ group.confidence <= Medium /\ group.priority <= Medium,
     importable |-> \A d \in Members(pair) : Importable(a, d),
     matches |-> {k[1] : k \in pair.keys} \cap Prints,
     relation |-> IF group.relation \in {"exact-statement", "permuted-statement",
                                         "connective-equivalent"}
                  THEN "exact" ELSE "near",
     family |-> IF pair.semantic THEN 0 ELSE 1,
     merit |-> (group.priority * 10 + group.confidence) * 100000 - pair.score]

\* The declarations that anchor retrieval.
Focus(a) == FocusOn(a.rows, a.selection, a.tree)

\* What an audit has in hand when it begins to plan.
Prepared(a) ==
    LET pairs    == Retrieved(a, Focus(a))
        reviewed == Reviewed(a, pairs)
        first    == FirstFacts(a, reviewed)
        cheap(p) == CandidateOf(a, p, Group(a, NoEvidence, first, p),
                                Stays(a, NoEvidence, first, reviewed, p))
    IN [audit |-> a, retrieved |-> pairs, facts |-> first,
        workload |-> [candidates |-> IF a.probing = "on" THEN {cheap(p) : p \in reviewed} ELSE {},
                      settings |-> a.settings, imports |-> a.imports]]

Beginnings == {Prepared(a) : a \in Audits}

ASSUME AuditAssumption ==
    /\ VisibleLimit \in Nat /\ LeanModules = Modules
    /\ Audits \subseteq Audit
    /\ \A b \in Beginnings : b.workload \in Workloads
    /\ \A a \in Audits : \A d, e \in AllRows(a) : d.id = e.id => d = e

\* A module is one file, and min_near_score is no more than the least weight of a
\* statement, up to order and connectives, at the least rarity.
ASSUME CorpusAssumption == \A a \in Audits : \A d \in AllRows(a) :
    /\ d.file = "read" => ~\E e \in AllRows(a) : e.module = d.module /\ e.file = "unread"
    /\ IsFiniteSet(d.keys)
    /\ \A k \in d.keys : LET rarity == Rarity(Cardinality(Home(a, d)), Fanout(a, d, k))
                         IN rarity \in Nat /\ Base.connective * rarity >= NearScore

\* A file that Git does not track was not tracked at the revision, and the lines
\* of a declaration follow one another.
ASSUME TreeAssumption == \A a \in Audits : \A m \in LeanModules : LET f == a.tree[m] IN
    /\ f.git = "untracked" => f.old = <<>>
    /\ Len(f.built) <= LastLine
    /\ \A i, k \in DOMAIN f.built : f.built[i][1] = f.built[k][1] /\ f.built[i][1] # 0 =>
           \A j \in i .. k : f.built[j][1] = f.built[i][1]

VARIABLES
    audit,     \* the request
    retrieved, \* its candidate pairs
    stage,     \* "plan", "verified", "scan", "ranked" or "reported"
    evidence,  \* of pairs, by Key
    facts,     \* source facts
    review,    \* groups
    report     \* families shown, findings of lint, what makes it incomplete,
               \* and what the probes and the queue come to

auditVars == <<audit, retrieved, stage, evidence, facts, review, report>>
allVars   == <<closureVars, planVars, auditVars>>

\* Before there is one.
NoReport == [shown |-> {}, findings |-> {}, reasons |-> {}, probes |-> <<>>,
             queue |-> <<>>, counts |-> <<>>]

AuditInit ==
    /\ ClosureInit
    /\ \E b \in Beginnings :
        /\ audit = b.audit /\ retrieved = b.retrieved /\ facts = b.facts
        /\ candidates = b.workload.candidates
        /\ settings = b.workload.settings
        /\ imports = b.workload.imports
    /\ phase = "collect"
    /\ unsuited = {} /\ waiting = {} /\ overlooked = {} /\ preflight = {}
    /\ keying = None /\ key = <<>>
    /\ planned = {}
    /\ stage = "plan"
    /\ evidence = NoEvidence
    /\ review = {}
    /\ report = NoReport

-----------------------------------------------------------------------------
(* After the plan *)

Plan == stage = "plan" /\ PlanNext /\ UNCHANGED auditVars

\* A row for a pair, from the cache or from Lean: something that holds, if
\* anything does, or a text that says why nothing can be said; only some words of
\* it matter.  A pair under which the worker died has such a row, too.
\* ProbeVerification has the way to it.
Holding == {"statement", "reordering", "connective", "implication", "definition",
            "specialization"}

Texts == {{}, {"opaque"}, {"late", "opaque"}}

Rows == [ok : {TRUE}, says : {{}} \cup {{h} : h \in Holding}] \cup [ok : {FALSE}, says : Texts]

\* What verifies an obligation.
Sufficient ==
    [ExactTheorem        |-> {"statement"},
     PermutedTheorem     |-> {"statement", "reordering"},
     Replacement         |-> {"statement", "connective", "implication"},
     ReducibleDefinition |-> {"definition"},
     Specialization      |-> {"statement", "specialization"},
     LocalDuplicate      |-> {"statement", "reordering", "definition", "implication"}]

\* The words are looked for in this order.
ReasonIn(text) ==
    CASE "missing" \in text -> "missing"
      [] "missing" \notin text /\ "late" \in text -> "timeout"
      [] text \cap {"missing", "late"} = {} /\ "opaque" \in text -> "opaque"
      [] OTHER -> "internal"

\* semantic_evidence
Said(c, row) ==
    LET o == MatchClass(c)
    IN [obligation |-> o,
        status |-> CASE ~row.ok -> "unavailable"
                     [] row.ok /\ row.says \cap Sufficient[o] # {} -> "verified"
                     [] row.ok /\ row.says \cap Sufficient[o] = {} -> "rejected",
        kind |-> o, reason |-> IF row.ok THEN "none" ELSE ReasonIn(row.says)]

\* The evidence of a pair that Lean cannot be asked about.
Unasked(c) ==
    [obligation |-> "LocalDuplicate", status |-> "unavailable", kind |-> "LocalDuplicate",
     reason |-> IF c.importable THEN "unsupported" ELSE "missing"]

CandidateAt(k) == CHOOSE c \in candidates : c.id = k

Verify ==
    /\ stage = "plan" /\ phase = "done"
    /\ \E said \in [{c.id : c \in Asked} -> Rows] :
           evidence' = [k \in {c.id : c \in Taken} |->
                           IF k \in DOMAIN said THEN Said(CandidateAt(k), said[k])
                           ELSE Unasked(CandidateAt(k))]
    /\ stage' = "verified"
    /\ UNCHANGED <<closureVars, planVars, audit, retrieved, facts, review, report>>

RankFinal ==
    /\ stage = "verified"
    /\ review' = Ranked(audit, evidence, facts, Reviewed(audit, retrieved))
    /\ stage' = IF WantedUses(audit, audit.options, review') = {} THEN "ranked" ELSE "scan"
    /\ UNCHANGED <<closureVars, planVars, audit, retrieved, evidence, facts, report>>

\* Uses of the declarations that hints will speak of, and a last ranking.
ScanReferences ==
    /\ stage = "scan"
    /\ facts' = [facts EXCEPT !.scanned = WantedUses(audit, audit.options, review)]
    /\ review' = Ranked(audit, evidence, facts', Reviewed(audit, retrieved))
    /\ stage' = "ranked"
    /\ UNCHANGED <<closureVars, planVars, audit, retrieved, evidence, report>>

-----------------------------------------------------------------------------
(* The probes of the report *)

\* Pairs by what became of them.
Met(status) == Quantify(DOMAIN evidence, LAMBDA k : evidence[k].status = status)

\* record_unavailable_reason: what is opaque is counted as unsupported.
UnavailableFor(reasons) == Quantify(DOMAIN evidence, LAMBDA k : evidence[k].reason \in reasons)

\* record_planned_obligation
PlannedAs(o) == Quantify(Asked, LAMBDA c : MatchClass(c) = o)

\* increment_yield: pairs that Lean is not asked about are local duplicates.
YieldOf(o) ==
    LET of == {k \in DOMAIN evidence : evidence[k].obligation = o}
        met(status) == Quantify(of, LAMBDA k : evidence[k].status = status)
    IN [planned |-> Quantify(Taken, LAMBDA c : MatchClass(c) = o), verified |-> met("verified"),
        rejected |-> met("rejected"), unavailable |-> met("unavailable")]

\* audit_probe_summary, of the counters that the steps of the plan and of the
\* probes have kept.
ProbeSummary ==
    [considered |-> Cardinality(candidates), planned |-> Cardinality(Taken),
     skipped_by_policy |-> Quantify(unsuited, LAMBDA c : ~Eligible(c)),
     cheap_summary_rejects |-> Quantify(unsuited, LAMBDA c : Eligible(c)),
     skipped_by_budget |-> Cardinality(overlooked),
     verified |-> Met("verified"), rejected |-> Met("rejected"),
     unavailable |-> Met("unavailable"),
     missing |-> UnavailableFor({"missing"}), timeout |-> UnavailableFor({"timeout"}),
     internal |-> UnavailableFor({"internal"}),
     unsupported |-> UnavailableFor({"unsupported", "opaque"}),
     obligations |-> [o \in Range(Obligations) |-> PlannedAs(o)],
     yields |-> [o \in Range(Obligations) |-> YieldOf(o)]]

\* Mutant: an answer that came too late is no failed measurement.
BlockingButLate(probes) == probes.missing + probes.internal

Blocking(probes) == probes.missing + probes.timeout + probes.internal

\* What makes the silence of lint incomplete.
Reasons(probes, families) ==
    {r \in {"skipped", "budget", "none", "unmeasured", "truncated", "unmatched"} :
        CASE r = "skipped"    -> audit.skipped
          [] r = "budget"     -> probes.skipped_by_budget > 0
          [] r = "none"       -> audit.probing = "none" /\ retrieved # {}
          [] r = "unmeasured" -> Blocking(probes) > 0
          [] r = "truncated"  -> Cardinality(families) > VisibleLimit
          [] r = "unmatched"  -> UnmatchedNames(audit.rows, audit.selection) # {}}

-----------------------------------------------------------------------------
(* The queue of the report *)

\* audit_hidden_reason.  The last reason of the code, other blockers, is that of
\* no group: all that diagnostics leaves out is generated.
HiddenReasons == <<"generated", "unverified", "unavailable", "visibility-or-noise">>

HiddenReason(o, g) ==
    LET told == {"visibility-or-noise"} \cup
                IF o.generated \/ o.diagnostics THEN g.blockers \ {"generated"} ELSE g.blockers
    IN HiddenReasons[Min({i \in DOMAIN HiddenReasons : HiddenReasons[i] \in told})]

Visible(o) == Families({g \in review' : Includes(o, g)})

\* audit_queue_summary: families are visible, groups are hidden.
QueueSummary(emitted) ==
    LET hidden == {g \in review' : ~Includes(audit.options, g)}
    IN [visible |-> Cardinality(Visible(audit.options)), emitted |-> Cardinality(emitted),
        total |-> Cardinality(review'),
        hidden |-> [r \in Range(HiddenReasons) |->
                       Quantify(hidden, LAMBDA g : HiddenReason(audit.options, g) = r)]]

\* The queues of other options, for a reader who wonders what is left out.
Cleanup == [private |-> FALSE, low |-> FALSE, diagnostics |-> FALSE, generated |-> FALSE]

QueueCounts ==
    [cleanup |-> Cardinality(Visible(Cleanup)),
     private |-> Cardinality(Visible([Cleanup EXCEPT !.private = TRUE])),
     low     |-> Cardinality(Visible([Cleanup EXCEPT !.low = TRUE])),
     all     |-> Cardinality(Visible([o \in DOMAIN Cleanup |-> TRUE]))]

\* lint_finding: one needs a place in the sources.
IsFinding(f) ==
    /\ First(f).mode = "proof-grade"
    /\ First(f).relation \in {"exact-statement", "permuted-statement", "connective-equivalent"}
    /\ \E g \in f : \E d \in LocalMembers(audit, g.pair) : d.file # "none"

\* project_audit_output and lint_report
Report ==
    /\ stage = "ranked"
    /\ review' = Advised(audit, facts, review)
    /\ LET families == Visible(audit.options)
           shown    == {f \in families : VisibleLimit >
                           Cardinality({e \in families : Precedes(First(e), First(f))})}
       IN report' = [shown |-> shown,
                     findings |-> {f \in shown : IsFinding(f)},
                     reasons |-> Reasons(ProbeSummary, families),
                     probes |-> ProbeSummary, queue |-> QueueSummary(shown),
                     counts |-> QueueCounts]
    /\ stage' = "reported"
    /\ UNCHANGED <<closureVars, planVars, audit, retrieved, evidence, facts>>

AuditNext == Plan \/ Verify \/ RankFinal \/ ScanReferences \/ Report

AuditSpec == AuditInit /\ [][AuditNext]_allVars

\* run_audit_workflow is one call that runs through.
FairAuditSpec == AuditSpec /\ WF_allVars(AuditNext)

-----------------------------------------------------------------------------
(* Properties *)

Focused(d) == d.id \in Focus(audit)

\* A lint of what changed since a revision looks at the declarations that have a
\* line which their file did not have there, and at no other that was not chosen
\* by name or file: if the index was built from the current text, and not for
\* files that Git ignores.  To lose lines is not enough.
ChangesAreFocused == phase = "collect" /\ audit.selection.since =>
    \A d \in audit.rows : LET f == audit.tree[d.module] IN
        f.git # "ignored" /\ f.built = f.new =>
            LET changed == \E line \in Range(f.new) \ Range(f.old) : line[1] = d.id
            IN /\ changed => Focused(d)
               /\ Focused(d) => \/ changed \/ d.id \in audit.selection.names
                                \/ d.module \in audit.selection.files

\* Retrieval is bounded, but a declaration that shares the statement, or the
\* statement up to order or connectives, of a focused one is not lost to any
\* number of declarations that only use the same constants.
StrongMatchesSurvive == phase = "collect" =>
    \A a \in {d \in audit.rows : Focused(d)} :
        LET prints == [d \in Others(audit, a) |-> {k \in a.keys \cap d.keys : k[1] \in Prints}]
            worth  == [d \in Others(audit, a) |-> Worth(audit, a, d, prints[d])]
            kept   == {p.candidate : p \in Candidates(audit, a)}
        IN \A c \in Others(audit, a) \ kept : (\E k \in prints[c] : k[1] # "conclusion") =>
               Cardinality({d \in Others(audit, a) \ {c} :
                                /\ prints[d] # {}
                                /\ worth[d] > worth[c] \/ worth[d] = worth[c]}) >= LaneTopK

\* What observe_search says of a tracked pair is what retrieval did with it,
\* unless another declaration narrowed a posting of an index for all anchors.
ObservationAgrees == phase = "collect" =>
    \A a \in audit.rows : LET found == DOMAIN Found(audit, a) IN
        \A c \in Others(audit, a) :
            LET seen == Account(audit, a, c) = "generated, not selected"
            IN /\ c \in found => seen
               /\ seen /\ ~Narrowed(audit, a, c) => c \in found

\* Every finding of lint is a fact that Lean has verified, of the kind that the
\* finding names, about a declaration in the focus.
Kind(relation) == CASE relation = "exact-statement" -> {"ExactTheorem", "ReducibleDefinition"}
                    [] relation = "permuted-statement" -> {"PermutedTheorem"}
                    [] relation = "connective-equivalent" -> {"Replacement"}

LintIsPrecise == \A f \in report.findings :
    /\ Proved(evidence, First(f).pair) \cap Kind(First(f).relation) # {}
    /\ Focused(First(f).pair.anchor)

\* When lint says ok and probes are on, Lean has answered for every pair that
\* retrieval thought a match and that can be stated as an obligation, be it that
\* it cannot reduce them.
Stated(p) == \E S \in {Theorems, Definitions} : {p.anchor.kind, p.candidate.kind} \subseteq S

SilenceIsMeasured ==
    stage = "reported" /\ report.reasons = {} /\ audit.probing = "on" =>
        \A p \in retrieved :
            /\ StrongPair(p) /\ Stated(p)
            /\ audit.mathlib => p.candidate.origin = "mathlib"
            /\ settings.policy = "broad" \/ \A d \in Members(p) : ~d.generated
            => \E k \in {Key(p), p.candidate.id * 100 + p.anchor.id} \cap DOMAIN evidence :
                   evidence[k].reason \in {"none", "opaque"}

\* A verified duplicate that no option hides is not lost in the review: it is in
\* a family that is shown, and a finding if it is the first of it and has a place
\* in the sources.
Presentable(p) ==
    /\ \/ audit.options.low
       \/ /\ p.score >= NearScore
          /\ ~\E d \in Members(p) : Marked(d)
    /\ \A d \in Members(p) : /\ ~d.generated /\ ~InstanceLike(d)
                             /\ d.public \/ audit.options.private

VerifiedIsShown == stage = "reported" /\ "truncated" \notin report.reasons =>
    \A p \in Reviewed(audit, retrieved) :
        Presentable(p) /\ Proved(evidence, p) \ {"LocalDuplicate", "Specialization"} # {} =>
            \E f \in report.shown :
                /\ \E g \in f : g.pair = p
                /\ First(f).pair = p /\ (\E d \in LocalMembers(audit, p) : d.file # "none")
                       => f \in report.findings

\* The advice of a report rests on uses that were looked for after the verdicts:
\* what it says of callers and imports agrees with the action it recommends, it
\* knows of no uses only if no file of a declaration under review has one, and
\* nothing but a file that could not be read is a reason not to know.  Where a
\* private helper is to be inlined the hint says that its wrapper is its only
\* user, unless the wrapper has more uses than are listed.
HintsAreInformed == \A g \in UNION report.shown : \A h \in g.hints :
    LET locals == LocalMembers(audit, g.pair)
    IN /\ h.impact = "unknown" => \E d \in locals : d.file = "unread"
       /\ h.impact = "none" => \A d \in locals : d.uses \cap
              ({r.module : r \in {x \in facts.rows : x.file = "read"}} \X Nat) = {}
       /\ g.action = "replace-local-uses" => h.imports # "missing" /\ h.impact # "none"
       /\ g.action = "inline-private-helper" =>
              h.impact = "wrapper-only" \/ UseStatus(facts, g.target) = "truncated"

\* An audit ends with a report, if the headers have no cycle.
AuditEnds == <>(stage = "reported")

=============================================================================
