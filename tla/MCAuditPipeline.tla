-------------------------- MODULE MCAuditPipeline --------------------------
(* Constants of the run audit_pipeline. *)
EXTENDS AuditPipeline, TLC

CONSTANTS m1, m2, m3, m4

MCModules == {m1, m2, m3, m4}

Depth == (m1 :> 1) @@ (m2 :> 2) @@ (m3 :> 3) @@ (m4 :> 4)

\* All headers without a cycle, up to the names of the modules.
Headers == {g \in [Modules -> SUBSET Modules] :
                \A m \in Modules : \A i \in g[m] : Depth[i] < Depth[m]}

Diamond == (m1 :> {}) @@ (m2 :> {m1}) @@ (m3 :> {m1}) @@ (m4 :> {m2, m3})

\* Tenths, with the first term of a series for the logarithm.
MCRarity(total, holders) == 10 + (20 * (total - holders)) \div (total + holders + 2)

-----------------------------------------------------------------------------
\* Fingerprints: statement, permutation, connective, conclusion; 0 is none.
Printed(s, p, c, e) ==
    {k \in {<<"statement", s>>, <<"permutation", p>>, <<"connective", c>>, <<"conclusion", e>>} :
        k[2] # 0}

Uses1 == {<<"conclusion_head", 1>>, <<"conclusion_const", 1>>}

Local(id, m, keys) ==
    [id |-> id, origin |-> "workspace", module |-> m, kind |-> "theorem",
     inst |-> FALSE, public |-> TRUE, generated |-> FALSE, keys |-> keys \cup Uses1,
     broad |-> {}, dull |-> FALSE, text |-> id, file |-> "read", uses |-> {<<m4, 0>>}]

Constants == {"conclusion_const"} \X (2 .. 6)

Main     == [Local(21, m1, Printed(1, 1, 1, 1) \cup Constants) EXCEPT !.uses = {}]
Copy     == [Local(22, m3, Printed(1, 1, 1, 1)) EXCEPT !.text = 21]
Helper   == [Local(23, m1, Printed(1, 1, 1, 1)) EXCEPT !.public = FALSE, !.uses = {<<m1, 21>>}]
Permuted == Local(24, m4, Printed(4, 1, 4, 1))
Special  == Local(25, m4, Printed(5, 5, 1, 1))
Turned   == [Local(26, m2, Printed(6, 6, 1, 6)) EXCEPT !.file = "unread"]
Vague    == [Local(27, m3, Constants) EXCEPT !.broad = {1}, !.text = 25]
Def      == [Local(28, m3, Printed(9, 9, 9, 9)) EXCEPT !.kind = "def"]
Abbrev   == [Local(29, m4, Printed(9, 9, 9, 9)) EXCEPT !.kind = "abbrev", !.dull = TRUE]
Instance == [Local(30, m4, Printed(1, 1, 1, 1)) EXCEPT !.kind = "instance"]
Named    == [Local(33, m2, Printed(1, 1, 1, 1)) EXCEPT !.inst = TRUE]
Made     == [Local(31, m1, Printed(1, 1, 1, 1)) EXCEPT !.generated = TRUE, !.file = "none"]

Wordy    == Local(32, m4, Constants)
Busy     == [Main EXCEPT !.uses = {m3, m4} \X {0}]
Lost     == [Def EXCEPT !.file = "none"]

Pool == {Main, Copy, Helper, Permuted, Special, Turned, Vague, Def, Abbrev, Instance, Made}

Foreign(id, origin, m, keys) ==
    [Local(id, m, keys) EXCEPT !.origin = origin, !.file = "none", !.uses = {}]

Mathlib == [mode |-> "proof-grade",
            rows |-> {Foreign(11, "mathlib", m1, Printed(1, 1, 1, 1)),
                      Foreign(12, "mathlib", m2, Printed(7, 1, 7, 1)),
                      Foreign(13, "mathlib", m2, Printed(6, 6, 6, 6))}]
Library == [mode |-> "not-importable",
            rows |-> {Foreign(5, "library", m1, Printed(1, 1, 1, 1)),
                      Foreign(6, "library", m1, {})}]

-----------------------------------------------------------------------------
Options(private, low, diagnostics, generated) ==
    [private |-> private, low |-> low, diagnostics |-> diagnostics, generated |-> generated]

Quiet   == Options(FALSE, FALSE, FALSE, FALSE)
Private == Options(TRUE, TRUE, FALSE, FALSE)
All     == Options(TRUE, TRUE, TRUE, TRUE)

Set(policy, budget, cap) == [policy |-> policy, budget |-> budget, cap |-> cap]

Text(git, old, new, built) == [git |-> git, old |-> old, new |-> new, built |-> built]

Blank == Text("tracked", <<>>, <<>>, <<>>)

\* A lint of some corpus under the default policy.
Request(rows, indexes) ==
    [rows |-> rows, indexes |-> indexes, imports |-> Diamond,
     selection |-> Everything, tree |-> [m \in Modules |-> Blank], mathlib |-> FALSE,
     options |-> Quiet, settings |-> Set("actionable", 2, 2),
     probing |-> "on", skipped |-> FALSE]

Corpora == {S \in SUBSET Pool : Cardinality(S) \in 2 .. 3}
Pairs == {S \in Corpora : Cardinality(S) = 2}

Some == {Main, Copy, Permuted, Special, Vague}

\* A file with two declarations between other lines, as it was and as it is.
Page  == <<<<22, 1>>, <<22, 2>>, <<0, 1>>, <<28, 1>>, <<28, 2>>>>
After == <<<<0, 2>>, <<21, 1>>>>

Excerpts == {SelectSeq(Page, LAMBDA line : line \in S) : S \in SUBSET Range(Page)}

Changes == {Text("tracked", old, new, built) :
    <<old, new, built>> \in {t \in Excerpts \X Excerpts \X {Page, Tail(Page)} :
        /\ t[3] = t[2] \/ t[1] = Page
        /\ \A d \in {22, 28} : \E line \in Range(t[2]) : line[1] = d}}

MCAudits ==
    \* Any two or three declarations alone, any two compared with mathlib.
    {Request(rows, {}) : rows \in Corpora}
    \cup {[Request(rows, {Mathlib}) EXCEPT !.mathlib = TRUE] : rows \in Pairs}
    \* Private declarations and a library.
    \cup {[Request(rows, {Library}) EXCEPT !.options = Private] : rows \in Pairs}
    \* All groups, with little to spend, beside everything.
    \cup {[Request(rows, {Library, Mathlib})
              EXCEPT !.options = All, !.settings = Set("broad", 2, 1)] : rows \in Pairs}
    \* Any focus, with and without probes, on four that match and one that does not.
    \cup {[Request(Some, {}) EXCEPT !.selection.names = names, !.probing = probing,
                                     !.settings = Set("actionable", 2, 1)] :
              names \in {{99}} \cup (SUBSET {d.id : d \in Some} \ {{}}),
              probing \in {"on", "off", "none"}}
    \* Any change of two declarations in a file, and some ways to choose besides.
    \cup {[Request({Copy, Def}, {}) EXCEPT !.selection.since = TRUE, !.probing = "off",
                                            !.tree[m3] = file] : file \in Changes}
    \cup {[Request({Main, Copy, Def}, {})
              EXCEPT !.selection = [names |-> names, files |-> files, since |-> TRUE],
                     !.tree[m1] = Text("untracked", <<>>, After, After), !.tree[m3] = file] :
              names \in {{}, {28}}, files \in {{}, {m1}, {m3}},
              file \in {Text(git, <<>>, Page, Page) : git \in {"untracked", "ignored"}}}
    \* A pair without a place in the sources.
    \cup {Request({Main, Turned, Vague, Wordy}, {}),
           Request({Lost, [Abbrev EXCEPT !.dull = FALSE, !.file = "none"]}, {})}
    \* A theorem whose name makes it pass for an instance.
    \cup {[Request({Main, Named, Permuted}, {Mathlib}) EXCEPT !.options = options] :
              options \in {Quiet, All}}
    \* A wrapper with more uses than are listed.
    \cup {[Request({Busy, Copy, Helper, Special}, {}) EXCEPT !.options = Private]}
    \* Any headers.
    \cup {[Request({Main, Copy, Permuted}, {}) EXCEPT !.imports = g, !.skipped = TRUE] :
              g \in Headers}

MCWorkloads == {b.workload : b \in Beginnings}
=============================================================================
