----------------------------- MODULE MCEvaluation -----------------------------
(* Constants of the run evaluation. *)
EXTENDS Evaluation, TLC

\* Names: 1 to 9 are short, the qualified ones end in the short one.
MCDisplay(n) == n % 10

\* A lemma of mathlib has the name of one of the workspace.
MCQualified(d) == IF d.id = 13 THEN 23 ELSE d.id

MCRarity(total, holders) == 10 + (20 * (total - holders)) \div (total + holders + 2)

-----------------------------------------------------------------------------
Printed(s, p, c, e) ==
    {k \in {<<"statement", s>>, <<"permutation", p>>, <<"connective", c>>, <<"conclusion", e>>} :
        k[2] # 0}

Heading(n) == {<<"conclusion_head", n>>, <<"conclusion_const", n>>}

Local(id, keys) ==
    [id |-> id, origin |-> "workspace", module |-> "M", kind |-> "theorem",
     inst |-> FALSE, public |-> TRUE, generated |-> FALSE, keys |-> keys,
     broad |-> {}, dull |-> FALSE, text |-> 0, file |-> "read", uses |-> {}]

Foreign(id, origin, keys) == [Local(id, keys) EXCEPT !.origin = origin, !.file = "none"]

Main     == Local(21, Printed(1, 1, 1, 1) \cup Heading(1))
Copy     == Local(22, Printed(1, 1, 1, 1) \cup Heading(1))
Permuted == Local(23, Printed(3, 1, 3, 1) \cup Heading(1))
Similar  == Local(24, Printed(4, 4, 1, 4) \cup Heading(2))
Third    == Local(29, Printed(1, 1, 1, 1))
Private  == [Local(25, Printed(1, 1, 1, 1)) EXCEPT !.public = FALSE]
Short    == Local(5, Printed(1, 1, 1, 2))
Abbrev   == [Local(26, Printed(4, 4, 4, 4)) EXCEPT !.kind = "abbrev"]
Marked1  == [Local(27, Printed(3, 1, 3, 3) \cup Heading(1)) EXCEPT !.broad = {1}]
Far      == Local(28, Heading(2) \cup Heading(1))

Mathlib == [mode |-> "proof-grade",
            rows |-> {Foreign(11, "mathlib", Printed(1, 1, 1, 1)),
                      Foreign(12, "mathlib", Printed(2, 1, 2, 2) \cup Heading(2)),
                      Foreign(13, "mathlib", Printed(4, 4, 4, 4))}]
Library == [mode |-> "not-importable",
            rows |-> {Foreign(14, "library", Printed(1, 1, 1, 1)),
                      Foreign(16, "library", Heading(2))}]

Corpora == <<{Main, Copy, Similar},
             {Main, Copy, Permuted, Third, Short, Far},
             {Main, Permuted, Private, Short, Marked1},
             {Similar, Abbrev, Far, Marked1, Permuted}>>

IndexesOf(suite) == CASE suite = "manual-internal" -> {}
                      [] suite = "manual-mathlib" -> {Mathlib}
                      [] OTHER -> {Library}

Meeting(suite, rows, pairs, clusters) ==
    [suite |-> suite, rows |-> rows, indexes |-> IndexesOf(suite), clusters |-> clusters,
     pairs |-> pairs, workspace |-> "ready", mathlib |-> "ready", fault |-> "none"]

Duplicates(x, y) == [names |-> {x, y}, positive |-> TRUE, terms |-> 0]
Distinct(x, y)   == [names |-> {x, y}, positive |-> FALSE, terms |-> 0]

-----------------------------------------------------------------------------
\* For the gate: for each suite one that passes and some that do not.
AtGate ==
    <<Meeting("default", Corpora[1], {Duplicates(21, 22), Distinct(1, 4)}, {}),
      Meeting("default", Corpora[2], {}, {[members |-> {1, 2, 23}, positive |-> TRUE, terms |-> 0]}),
      Meeting("default", Corpora[1], {Duplicates(24, 22)}, {}),
      Meeting("default", Corpora[1], {Distinct(2, 14)}, {}),
      Meeting("hard-negatives", Corpora[1], {Distinct(21, 24), Distinct(7, 24)}, {}),
      Meeting("hard-negatives", Corpora[1], {Distinct(1, 22)}, {}),
      [Meeting("hard-negatives", Corpora[1], {}, {}) EXCEPT !.fault = "prerequisite"],
      Meeting("manual-internal", Corpora[2], {Duplicates(1, 22), Distinct(21, 29)}, {}),
      Meeting("manual-internal", Corpora[3], {Duplicates(21, 25)}, {}),
      Meeting("manual-internal", Corpora[1], {Duplicates(1, 2), Duplicates(21, 22)}, {}),
      [Meeting("manual-internal", Corpora[1], {}, {}) EXCEPT !.workspace = "uncompiled"],
      [Meeting("manual-internal", Corpora[1], {}, {}) EXCEPT !.fault = "other"],
      Meeting("manual-mathlib", Corpora[1], {Duplicates(21, 11), Distinct(24, 12)}, {}),
      Meeting("manual-mathlib", Corpora[4], {Duplicates(24, 23), Duplicates(28, 12)}, {}),
      [Meeting("manual-mathlib", Corpora[1], {Duplicates(21, 11)}, {}) EXCEPT !.mathlib = "broken"],
      [Meeting("manual-mathlib", Corpora[1], {}, {}) EXCEPT !.fault = "prerequisite"],
      Meeting("manual-mathlib", Corpora[1], {}, {[members |-> {1}, positive |-> TRUE, terms |-> 0]}),
      \* Two labels that agree on the names and that they are duplicates only.
      Meeting("manual-internal", Corpora[1],
              {Duplicates(21, 22), [Duplicates(21, 22) EXCEPT !.terms = 1]}, {})>>

\* Any two names in any corpus, under any suite.
Labelled(c) ==
    LET long == {MCQualified(d) : d \in Corpora[c]} \cup {11, 12, 13}
    IN {{x, y} : x, y \in long \cup {MCDisplay(n) : n \in long}}

Alone == UNION {{<<i, c, names, p>> : i \in {1, 3, 4}, p \in {0, 1},
                                      names \in {n \in Labelled(c) : Cardinality(n) = 2}} :
                    c \in DOMAIN Corpora}

MCSettings ==
    [x \in {<<i>> : i \in DOMAIN AtGate} \cup Alone |->
        IF Len(x) = 1 THEN AtGate[x[1]]
        ELSE Meeting(Gated[x[1]], Corpora[x[2]], {[names |-> x[3], positive |-> x[4] = 1, terms |-> 0]}, {})]

Ask(suite, ks, details, meets) ==
    [suite |-> suite, ks |-> ks, details |-> details, meets |-> meets]

GateMeets == {<<i>> : i \in DOMAIN AtGate}

MCRequests ==
    {Ask("production-gate", {}, FALSE, GateMeets)}
    \cup {Ask("production-gate", {0, 3}, TRUE, {<<i>> : i \in {1, 5, 6, 8, 9, 13}})}
    \cup {Ask(Gated[i], {1}, TRUE, GateMeets) : i \in 1 .. 4}
    \cup {Ask(Gated[i], {1}, FALSE, {x \in Alone : x[1] = i}) : i \in {1, 3, 4}}
=============================================================================
