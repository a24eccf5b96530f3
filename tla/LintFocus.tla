------------------------------ MODULE LintFocus ------------------------------
(***************************************************************************)
(* What a lint is asked about: named declarations, source files, and what  *)
(* changed since a revision.  Files and Git become ranges of current lines, *)
(* and a declaration is in focus when its span in the index meets one.     *)
(***************************************************************************)
EXTENDS Retrieval, Sequences

\* A line: the declaration it belongs to, 0 for none, and what tells it apart.
Line == (0 .. 99) \X Nat

\* A module's file.  git: how Git knows it; old: its text under this path at
\* the revision; new: its text now; built: its text when it was compiled.  Lines
\* are distinct, and edits add and remove them without changing their order.
SourceFile == [git : {"tracked", "untracked", "ignored"},
               old : Seq(Line), new : Seq(Line), built : Seq(Line)]

Selection == [names : SUBSET (1 .. 99), files : SUBSET LeanModules, since : BOOLEAN]

Everything == [names |-> {}, files |-> {}, since |-> FALSE]

-----------------------------------------------------------------------------
(* Git *)

Position(text, line) == CHOOSE i \in DOMAIN text : text[i] = line

\* The hunks of `git diff --unified=0`, from one common line to the next: each
\* is +start, or +start,count unless the count is one.  A hunk that only
\* removes has the line before as its start.
Hunks(f) ==
    LET common == {i \in DOMAIN f.new : f.new[i] \in Range(f.old)}
        Old(i) == IF i = 0 THEN 0
                  ELSE IF i > Len(f.new) THEN Len(f.old) + 1 ELSE Position(f.old, f.new[i])
        Gaps   == {g \in (common \cup {0}) \X (common \cup {Len(f.new) + 1}) :
                      g[1] < g[2] /\ \A k \in common : k <= g[1] \/ k >= g[2]}
        Header(i, added) == IF added = 0 THEN <<i, 0>>
                            ELSE IF added = 1 THEN <<i + 1>> ELSE <<i + 1, added>>
    IN {Header(g[1], g[2] - g[1] - 1) :
            g \in {x \in Gaps : x[2] - x[1] > 1 \/ Old(x[2]) - Old(x[1]) > 1}}

-----------------------------------------------------------------------------
(* Ranges *)

\* u64::MAX, behind every line.
LastLine == 999

Whole(m) == [file |-> m, first |-> 1, last |-> LastLine]

\* Mutant: the end of a hunk is exclusive.
LongRanges(m, hunks) ==
    LET Count(h) == IF Len(h) = 1 THEN 1 ELSE h[2]
    IN {[file |-> m, first |-> h[1], last |-> h[1] + Count(h)] :
            h \in {x \in hunks : Count(x) # 0}}

\* parse_current_range: a hunk without current lines has no range.
CurrentRanges(m, hunks) ==
    LET Count(h) == IF Len(h) = 1 THEN 1 ELSE h[2]
    IN {[file |-> m, first |-> h[1], last |-> h[1] + Count(h) - 1] :
            h \in {x \in hunks : Count(x) # 0}}

\* source_ranges: the hunks of files with a diff, and untracked files in full.
ChangedRanges(tree) ==
    UNION {CASE tree[m].git = "tracked"   -> CurrentRanges(m, Hunks(tree[m]))
             [] tree[m].git = "untracked" -> {Whole(m)}
             [] tree[m].git = "ignored"   -> {} : m \in LeanModules}

RequestedRanges(selection, tree) ==
    {Whole(m) : m \in selection.files}
        \cup (IF selection.since THEN ChangedRanges(tree) ELSE {})

-----------------------------------------------------------------------------
(* Declarations *)

Restricted(selection) == selection # Everything

\* The lines of d's span in the index.
Span(tree, d) ==
    {i \in DOMAIN tree[d.module].built : tree[d.module].built[i][1] = d.id}

\* AuditFocus::matches, for spans without gaps.
Matches(selection, tree, d) ==
    \/ d.id \in selection.names
    \/ \E r \in RequestedRanges(selection, tree) :
         /\ r.file = d.module
         /\ \E i \in Span(tree, d) : r.first <= i
         /\ \E i \in Span(tree, d) : i <= r.last

\* The declarations that a lint of these rows is about.
FocusOn(rows, selection, tree) ==
    {d.id : d \in {d \in rows : Restricted(selection) => Matches(selection, tree, d)}}

\* unmatched_declarations
UnmatchedNames(rows, selection) ==
    {n \in selection.names : \A d \in rows : d.id # n}
=============================================================================
