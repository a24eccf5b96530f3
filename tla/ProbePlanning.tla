---------------------------- MODULE ProbePlanning ----------------------------
(***************************************************************************)
(* plan_probes: which of the candidate pairs of an audit are worth a       *)
(* verdict of Lean, and under which key each verdict is stored.  Pairs     *)
(* that the policy leaves out are dropped; the others are taken best first *)
(* while the budget, the cap of their anchor and the quotas of their kind  *)
(* last.  A pair taken for the worker gets a key made of the import        *)
(* closures of its two modules, found by the resolver of ImportClosure,    *)
(* whose memo serves all pairs of the plan.                                *)
(***************************************************************************)
EXTENDS ImportClosure, FiniteSetsExt

CONSTANT
    Workloads   \* what an audit may start from: candidates, settings, headers

Theorems     == {"theorem", "axiom"}
Definitions  == {"def", "abbrev"}
Supported    == Theorems \cup Definitions
StrongMatch  == {"statement", "permutation", "connective"}
Obligations  == <<"ExactTheorem", "PermutedTheorem", "Replacement",
                  "ReducibleDefinition", "Specialization", "LocalDuplicate">>
Risks        == <<"ordinary", "reducible", "hard-negative">>

\* A candidate pair: id orders pair ids; ranked, the cheap review has a group
\* for it; blocked, that group has one of the three blockers; recommended, its
\* action, confidence and priority speak for a probe; matches, the fingerprints
\* the two declarations share; merit, the place of priority, confidence and
\* score taken together; importable, Lean can import both modules.
Candidate == [id : Nat, anchor : Nat, left : Modules, right : Modules,
              leftKind : Supported \cup {"instance"},
              rightKind : Supported \cup {"instance"},
              ranked : BOOLEAN, blocked : BOOLEAN, recommended : BOOLEAN,
              importable : BOOLEAN,
              matches : SUBSET (StrongMatch \cup {"conclusion"}),
              relation : {"exact", "specialization", "near"},
              family : {0, 1}, merit : Nat]

Settings == [policy : {"actionable", "broad"}, budget : Nat \ {0}, cap : Nat]

ASSUME WorkloadAssumption == \A w \in Workloads :
    /\ w.imports \in Graphs /\ w.settings \in Settings
    /\ IsFiniteSet(w.candidates) /\ w.candidates \subseteq Candidate
    /\ None \notin w.candidates
    /\ \A c, d \in w.candidates : c.id = d.id => c = d

VARIABLES
    candidates, settings,
    phase,      \* "collect", "select" or "done"
    unsuited,   \* skipped by policy, or without an obligation
    waiting,    \* collected, in taken in the order of Before
    overlooked, \* skipped for the budget, a cap or a quota
    preflight,  \* taken, but Lean cannot be asked: unavailable at once
    keying,     \* taken, the key is being made: this pair, or None
    key,        \* the closures that are in it so far
    planned     \* pairs with their keys

planVars == <<candidates, settings, phase, unsuited, waiting, overlooked,
              preflight, keying, key, planned>>

PlanInit ==
    /\ ClosureInit
    /\ \E w \in Workloads : /\ candidates = w.candidates
                            /\ settings = w.settings
                            /\ imports = w.imports
    /\ phase = "collect"
    /\ unsuited = {} /\ waiting = {} /\ overlooked = {} /\ preflight = {}
    /\ keying = None /\ key = <<>>
    /\ planned = {}

PlanTypeOK ==
    /\ settings \in Settings
    /\ phase \in {"collect", "select", "done"}
    /\ \A S \in {unsuited, waiting, overlooked, preflight} : S \subseteq candidates
    /\ keying \in candidates \cup {None}
    /\ key \in UNION {[1 .. n -> SUBSET Modules] : n \in 0 .. 2}
    /\ planned \subseteq candidates \X [1 .. 2 -> SUBSET Modules]

-----------------------------------------------------------------------------
(* What a candidate deserves *)

Among(c, kinds) == c.leftKind \in kinds /\ c.rightKind \in kinds

Strong(c) == c.rightKind \in Supported /\ c.matches \cap StrongMatch # {}

Eligible(c) ==
    /\ c.ranked
    /\ \/ settings.policy = "broad"
       \/ /\ ~c.blocked
          /\ Strong(c) \/ c.relation = "exact" \/ c.recommended

\* Lean can be asked about the pair.
Askable(c) == c.importable /\ Among(c, Supported)

\* Mutant: the conclusion decides before the statement.
TheoremObligationByConclusion(c) ==
    CASE "conclusion" \in c.matches -> {"Specialization"}
      [] "conclusion" \notin c.matches /\ "statement" \in c.matches -> {"ExactTheorem"}
      [] OTHER -> {"Replacement" : x \in c.matches \cap {"connective"}}

TheoremObligation(c) ==
    CASE "statement" \in c.matches -> {"ExactTheorem"}
      [] "statement" \notin c.matches /\ "permutation" \in c.matches ->
             {"PermutedTheorem"}
      [] OTHER ->
             IF c.relation = "specialization" \/ "conclusion" \in c.matches
             THEN {"Specialization"}
             ELSE {"Replacement" : x \in c.matches \cap {"connective"}}

\* probe_obligation: at most one element.
Obligation(c) ==
    LET proof == IF Among(c, Theorems) THEN TheoremObligation(c) ELSE {}
    IN CASE proof # {} -> proof
         [] proof = {} /\ Among(c, Definitions) /\ Strong(c) -> {"ReducibleDefinition"}
         [] OTHER -> {"LocalDuplicate" : x \in {"broad"} \cap {settings.policy}}

\* An unavailable pair counts, and is ordered, as a local duplicate.
MatchClass(c) ==
    IF Askable(c) THEN CHOOSE o \in Obligation(c) : TRUE ELSE "LocalDuplicate"

Risk(c) ==
    CASE c.blocked -> "hard-negative"
      [] ~c.blocked /\ (MatchClass(c) = "ReducibleDefinition" \/ Among(c, Definitions)) ->
             "reducible"
      [] OTHER -> "ordinary"

Place(x, s) == CHOOSE i \in DOMAIN s : s[i] = x

\* Mutant: how sure the review is decides before what has to be proved.
RankByMerit(c) == <<c.merit, Place(MatchClass(c), Obligations), Place(Risk(c), Risks),
                    c.family, c.id>>

Rank(c) == <<Place(MatchClass(c), Obligations), Place(Risk(c), Risks),
             c.family, c.merit, c.id>>

\* The order of the sort: the first difference in rank decides.
Before(c, d) == \E i \in 1 .. 5 :
    /\ Rank(c)[i] < Rank(d)[i]
    /\ \A j \in 1 .. i - 1 : Rank(c)[j] = Rank(d)[j]

-----------------------------------------------------------------------------
(* What is left to spend *)

\* percentage_quota: rounded up, never zero and never above the budget.
Share(percent) ==
    Min({Max({(settings.budget * percent + 99) \div 100, 1}), settings.budget})

Kinds(c) == {c.leftKind, c.rightKind}

ClassQuota(c) == CASE MatchClass(c) = "ReducibleDefinition" -> Share(30)
                   [] MatchClass(c) = "LocalDuplicate" -> Share(10)
                   [] OTHER -> settings.budget

KindQuota(c) == IF Among(c, Definitions) THEN Share(30) ELSE settings.budget

RiskQuota(c) == CASE Risk(c) = "reducible" -> Share(30)
                  [] Risk(c) = "hard-negative" -> Share(10)
                  [] OTHER -> settings.budget

\* Quotas after the pairs in S were taken.  That of a source is the budget.
QuotaAllows(c, S) ==
    \/ settings.policy = "broad"
    \/ /\ Quantify(S, LAMBDA d : MatchClass(d) = MatchClass(c)) < ClassQuota(c)
       /\ Quantify(S, LAMBDA d : Kinds(d) = Kinds(c)) < KindQuota(c)
       /\ Quantify(S, LAMBDA d : Risk(d) = Risk(c)) < RiskQuota(c)

Affordable(c, S) ==
    /\ Cardinality(S) < settings.budget
    /\ Quantify(S, LAMBDA d : d.anchor = c.anchor) < settings.cap
    /\ QuotaAllows(c, S)

Asked == {p[1] : p \in planned}
Taken == preflight \cup Asked

-----------------------------------------------------------------------------
Collect ==
    /\ phase = "collect"
    /\ waiting' = {c \in candidates : Eligible(c) /\ (Askable(c) => Obligation(c) # {})}
    /\ unsuited' = candidates \ waiting'
    /\ phase' = "select"
    /\ UNCHANGED <<closureVars, candidates, settings, overlooked, preflight,
                   keying, key, planned>>

\* Mutant: candidates are not sorted.
TurnOfAny(c) == phase = "select" /\ keying = None /\ c \in waiting

\* The selection has come to c.
Turn(c) ==
    /\ phase = "select" /\ keying = None
    /\ c \in waiting /\ \A d \in waiting \ {c} : Before(c, d)

Overlook(c) ==
    /\ Turn(c) /\ ~Affordable(c, Taken)
    /\ waiting' = waiting \ {c}
    /\ overlooked' = overlooked \cup {c}
    /\ UNCHANGED <<closureVars, candidates, settings, phase, unsuited, preflight,
                   keying, key, planned>>

TakeUnavailable(c) ==
    /\ Turn(c) /\ Affordable(c, Taken) /\ ~Askable(c)
    /\ waiting' = waiting \ {c}
    /\ preflight' = preflight \cup {c}
    /\ UNCHANGED <<closureVars, candidates, settings, phase, unsuited, overlooked,
                   keying, key, planned>>

TakeAskable(c) ==
    /\ Turn(c) /\ Affordable(c, Taken) /\ Askable(c)
    /\ waiting' = waiting \ {c}
    /\ keying' = c
    /\ UNCHANGED <<closureVars, candidates, settings, phase, unsuited, overlooked,
                   preflight, key, planned>>

\* Mutant: the key repeats the closure of the anchor.
DigestAnchor ==
    /\ keying # None /\ Len(key) < 2
    /\ Resolve(keying.left)
    /\ UNCHANGED planVars

\* probe_cache_key asks for the closure of one module, then of the other.
Digest ==
    /\ keying # None /\ Len(key) < 2
    /\ Resolve(IF key = <<>> THEN keying.left ELSE keying.right)
    /\ UNCHANGED planVars

Visit == Search /\ UNCHANGED planVars

Digested ==
    /\ Return
    /\ key' = Append(key, Closure)
    /\ UNCHANGED <<candidates, settings, phase, unsuited, waiting, overlooked,
                   preflight, keying, planned>>

\* Both closures are in the key.
PlanProbe ==
    /\ keying # None /\ Len(key) = 2
    /\ planned' = planned \cup {<<keying, key>>}
    /\ keying' = None /\ key' = <<>>
    /\ UNCHANGED <<closureVars, candidates, settings, phase, unsuited, waiting,
                   overlooked, preflight>>

Finish ==
    /\ phase = "select" /\ keying = None
    /\ waiting = {}
    /\ phase' = "done"
    /\ UNCHANGED <<closureVars, candidates, settings, unsuited, waiting, overlooked,
                   preflight, keying, key, planned>>

Select == \E c \in waiting : Overlook(c) \/ TakeUnavailable(c) \/ TakeAskable(c)

PlanNext == Collect \/ Select \/ Digest \/ Visit \/ Digested \/ PlanProbe \/ Finish

PlanSpec == PlanInit /\ [][PlanNext]_<<closureVars, planVars>>

\* plan_probes is called once and runs through.
FairPlanSpec == PlanSpec /\ WF_<<closureVars, planVars>>(PlanNext)

-----------------------------------------------------------------------------
(* Properties *)

\* Both halves of every key are the whole import closures of the two modules,
\* whichever pairs, and in which order, have used the resolver before.
KeysCoverClosures == \A p \in planned :
    p[2] = <<Reach(p[1].left), Reach(p[1].right)>>

\* No candidate is lost and none counts twice: candidates_considered is the sum
\* of skipped_by_policy and cheap_summary_rejects, skipped_by_budget and
\* planned_pairs.
AllAccountedFor == phase = "done" =>
    /\ candidates = unsuited \cup overlooked \cup Taken
    /\ Cardinality(candidates) = Cardinality(unsuited) + Cardinality(overlooked)
                                   + Cardinality(preflight) + Cardinality(planned)

\* What is taken can be said without the loop: a pair is taken exactly if the
\* better pairs that are taken leave room for it.
BestFirst == phase = "done" => \A c \in candidates \ unsuited :
    c \in Taken <=> Affordable(c, {d \in Taken : Before(d, c)})

\* Under the default policy a pair that Lean cannot be asked about never takes
\* the place of one that it can: those overlooked lost to pairs that are asked.
UnaskableTakeNoPlace ==
    settings.policy = "actionable" =>
        \A c \in overlooked : Askable(c) => ~Affordable(c, Asked)

=============================================================================
