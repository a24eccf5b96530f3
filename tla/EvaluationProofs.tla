--------------------------- MODULE EvaluationProofs ---------------------------
(***************************************************************************)
(* For any settings and requests: a trace names the stage at which the     *)
(* search lost a label, and an "ok" of the production gate means that the  *)
(* labels of all four suites are where they belong.  A label that resolves *)
(* names its declarations alone, so observations, which go by names, can   *)
(* be compared with candidate pairs, which go by declarations.             *)
(***************************************************************************)
EXTENDS Evaluation, FiniteSetTheorems, SequenceTheorems, TLAPS

Usual(s) == s \in Setting /\ UniqueNames(AllRows(s)) /\ Apart(s) /\ Finite(s)

LEMMA SettingsAreUsual ==
    ASSUME NEW i \in DOMAIN Settings
    PROVE  Usual(Settings[i])
BY EvaluationAssumption DEF Usual

-----------------------------------------------------------------------------
(* Labels *)

LEMMA LabelsAreLabels ==
    ASSUME NEW s, Usual(s), NEW l \in Labels(s)
    PROVE  /\ \E x, y \in l.names : l.names = {x, y}
           /\ l.positive \in BOOLEAN
<1>1. CASE l \in s.pairs
  BY <1>1 DEF Usual, Setting, Label
<1>2. CASE \E c \in s.clusters : l \in Expanded(c)
  <2>1. PICK c \in s.clusters : l \in Expanded(c)
    BY <1>2
  <2>2. PICK x, y \in c.members : l = [names |-> {x, y}, positive |-> c.positive, terms |-> c.terms]
    BY <2>1 DEF Expanded
  <2>3. c.positive \in BOOLEAN
    BY <2>1 DEF Usual, Setting
  <2> QED
    BY <2>2, <2>3
<1> QED
  BY <1>1, <1>2 DEF Labels

\* The library states this of operators, which no prover can instantiate.
LEMMA ImageIsFinite ==
    ASSUME NEW S, IsFiniteSet(S), NEW f
    PROVE  IsFiniteSet({f[x] : x \in S})
<1> DEFINE T == {f[x] : x \in S}
           g == [x \in S |-> f[x]]
<1>1. g \in Surjection(S, T)
  BY DEF Surjection
<1> QED
  BY <1>1, FS_Surjection

LEMMA LabelsAreFinite ==
    ASSUME NEW s, Usual(s)
    PROVE  IsFiniteSet(Labels(s))
<1>1. ASSUME NEW c \in s.clusters
      PROVE  IsFiniteSet(Expanded(c))
  <2> DEFINE P == c.members \X c.members
             f == [x \in P |-> [names |-> {x[1], x[2]}, positive |-> c.positive, terms |-> c.terms]]
             F == {f[x] : x \in P}
  <2>1. IsFiniteSet(P)
    BY <1>1, FS_Product DEF Usual, Finite
  <2>2. ASSUME NEW l \in Expanded(c)
        PROVE  l \in F
    <3>1. PICK x, y \in c.members : l = [names |-> {x, y}, positive |-> c.positive, terms |-> c.terms]
      BY <2>2 DEF Expanded
    <3>2. <<x, y>> \in P /\ f[<<x, y>>] = l
      BY <3>1
    <3> QED
      BY <3>2
  <2> HIDE DEF P, f
  <2>3. IsFiniteSet(F)
    BY <2>1, ImageIsFinite
  <2> QED
    BY <2>2, <2>3, FS_Subset
<1> DEFINE f == [c \in s.clusters |-> Expanded(c)]
           E == {f[c] : c \in s.clusters}
<1>2. E = {Expanded(c) : c \in s.clusters} /\ \A T \in E : IsFiniteSet(T)
  BY <1>1
<1> HIDE DEF f
<1>3. IsFiniteSet(E)
  BY ImageIsFinite DEF Usual, Finite
<1>4. IsFiniteSet(UNION E)
  BY <1>2, <1>3, FS_UNION
<1> QED
  BY <1>2, <1>4, FS_Union DEF Usual, Finite, Labels

\* A name that is meant once is that of one declaration: if others had the same
\* qualified name, the label would not resolve.
LEMMA MeantAlone ==
    ASSUME NEW s, Usual(s), NEW n, Cardinality(Meant(s, n)) = 1
    PROVE  \E d \in AllRows(s) : /\ Meant(s, n) = {d}
                                 /\ \A e \in AllRows(s) : Qualified(e) = Qualified(d) => e = d
<1>1. Meant(s, n) \subseteq AllRows(s)
  BY DEF Meant
<1>2. IsFiniteSet(Meant(s, n))
  BY <1>1, FS_Subset DEF Usual, Finite
<1>3. PICK d : Meant(s, n) = {d}
  BY <1>2, FS_Singleton
<1>4. ASSUME NEW e \in AllRows(s), Qualified(e) = Qualified(d)
      PROVE  e \in Meant(s, n)
  BY <1>3, <1>4 DEF Meant
<1> QED
  BY <1>1, <1>3, <1>4

\* What a label that resolves stands for.
LEMMA EndsOfLabel ==
    ASSUME NEW s, Usual(s), NEW l \in Labels(s), Resolves(s, l)
    PROVE  \E d, e \in AllRows(s) :
               /\ Ends(s, l) = {d, e}
               /\ Seed(s, l).names = {Qualified(d), Qualified(e)}
               /\ \A x \in AllRows(s) : /\ Qualified(x) = Qualified(d) => x = d
                                        /\ Qualified(x) = Qualified(e) => x = e
<1>1. PICK x, y \in l.names : l.names = {x, y}
  BY LabelsAreLabels
<1>2. PICK d \in AllRows(s) : /\ Meant(s, x) = {d}
                              /\ \A z \in AllRows(s) : Qualified(z) = Qualified(d) => z = d
  BY MeantAlone DEF Resolves
<1>3. PICK e \in AllRows(s) : /\ Meant(s, y) = {e}
                              /\ \A z \in AllRows(s) : Qualified(z) = Qualified(e) => z = e
  BY MeantAlone DEF Resolves
<1>4. Ends(s, l) = {d, e}
  BY <1>1, <1>2, <1>3 DEF Ends
<1>5. Seed(s, l).names = {Qualified(d), Qualified(e)}
  BY <1>4 DEF Seed
<1> QED
  BY <1>2, <1>3, <1>4, <1>5

\* Of declarations of the corpus, those with the names are those that are meant.
LEMMA NamesTell ==
    ASSUME NEW s, Usual(s), NEW l \in Labels(s), Resolves(s, l),
           NEW a \in AllRows(s), NEW c \in AllRows(s)
    PROVE  {Qualified(a), Qualified(c)} = Seed(s, l).names <=> {a, c} = Ends(s, l)
<1>1. PICK d, e \in AllRows(s) :
          /\ Ends(s, l) = {d, e}
          /\ Seed(s, l).names = {Qualified(d), Qualified(e)}
          /\ \A x \in AllRows(s) : /\ Qualified(x) = Qualified(d) => x = d
                                   /\ Qualified(x) = Qualified(e) => x = e
  BY EndsOfLabel
<1>2. ASSUME {Qualified(a), Qualified(c)} = {Qualified(d), Qualified(e)}
      PROVE  {a, c} = {d, e}
  <2>1. a \in {d, e} /\ c \in {d, e}
    BY <1>1, <1>2
  <2>2. d \in {a, c} /\ e \in {a, c}
    BY <1>1, <1>2
  <2> QED
    BY <2>1, <2>2
<1>3. ASSUME {a, c} = {d, e}
      PROVE  {Qualified(a), Qualified(c)} = {Qualified(d), Qualified(e)}
  BY <1>3
<1> QED
  BY <1>1, <1>2, <1>3

-----------------------------------------------------------------------------
(* Candidate pairs *)

LEMMA Corpora ==
    ASSUME NEW s, Usual(s)
    PROVE  /\ s.rows \subseteq AllRows(s)
           /\ \A d \in AllRows(s) : d \in Declaration
           /\ \A d \in s.rows : \A x \in s.indexes : d \notin x.rows
<1>1. s.rows \subseteq Declaration /\ \A x \in s.indexes : x.rows \subseteq Declaration
  BY DEF Usual, Setting, Index
<1> QED
  BY <1>1 DEF AllRows, Usual, Apart

LEMMA PairIsFound ==
    ASSUME NEW s, Usual(s), NEW p \in Pairs(s)
    PROVE  /\ p.anchor \in s.rows /\ p.candidate \in Others(s, p.anchor)
           /\ p.candidate \in AllRows(s) /\ p.candidate # p.anchor
           /\ p.keys = Contributions(s, p.anchor, p.candidate) /\ p.keys # {}
<1>1. PICK a \in s.rows : p \in Candidates(s, a)
  BY DEF Pairs, Retrieved
<1> DEFINE found == Found(s, a)
           score == [c \in DOMAIN found |-> Worth(s, a, c, found[c])]
           lanes == UNION {InLane(s, a, found, lane) : lane \in Lanes}
<1>2. Best(DOMAIN found, TopK, score) \subseteq DOMAIN found /\ lanes \subseteq DOMAIN found
  BY DEF InLane, Best
<1>3. PICK c \in Best(DOMAIN found, TopK, score) \cup lanes :
          p = [anchor |-> a, candidate |-> c, keys |-> found[c],
               score |-> score[c], semantic |-> c \in lanes]
  BY <1>1 DEF Candidates
<1>4. c \in DOMAIN found
  BY <1>2, <1>3
<1> HIDE DEF score, lanes
<1>5. p.anchor = a /\ p.candidate = c /\ p.keys = found[c]
  BY <1>3
<1>6. /\ c \in Others(s, a) /\ found[c] = Contributions(s, a, c)
      /\ Contributions(s, a, c) # {}
  BY <1>4 DEF Found
<1>7. c \in AllRows(s) /\ c # a
  BY <1>6, Corpora DEF Others, AllRows
<1> QED
  BY <1>1, <1>5, <1>6, <1>7

\* PairsOf by its two declarations.
LEMMA PairOfLabel ==
    ASSUME NEW s, Usual(s), NEW l \in Labels(s), Resolves(s, l), NEW p \in Pairs(s)
    PROVE  NamesOf(p) = Seed(s, l).names <=> p \in PairsOf(s, l)
<1>1. p.anchor \in AllRows(s) /\ p.candidate \in AllRows(s)
  BY PairIsFound, Corpora
<1>2. NamesOf(p) = {Qualified(p.anchor), Qualified(p.candidate)}
  BY DEF NamesOf, Members
<1> QED
  BY <1>1, <1>2, NamesTell DEF PairsOf, Members

\* Without broad heads, it is of no account which of two declarations of the
\* workspace is the anchor.
LEMMA KeysEitherWay ==
    ASSUME NEW s, Usual(s), NEW a \in s.rows, NEW c \in s.rows, a.broad = {}, c.broad = {}
    PROVE  /\ Contributions(s, a, c) = Contributions(s, c, a)
           /\ Walked(s, a, c) = Meet(s, a, c) /\ Walked(s, a, c) = Walked(s, c, a)
<1>1. Home(s, a) = s.rows /\ Home(s, c) = s.rows
  BY Corpora DEF Home
<1>2. \A k : Fanout(s, a, k) = Fanout(s, c, k)
  BY <1>1 DEF Fanout
<1>3. \A k : ~Broad(a, k) /\ ~Broad(c, k)
  BY DEF Broad
<1>4. \A k, n : Opens(a, k, n) <=> Opens(c, k, n)
  BY <1>3 DEF Opens
<1>5. \A k : Admits(a, k) <=> Admits(c, k)
  BY <1>3 DEF Admits
<1>6. Meet(s, a, c) = Meet(s, c, a)
  BY <1>2, <1>4 DEF Meet
<1>7. Meet(s, a, c) = Walked(s, a, c) /\ Meet(s, c, a) = Walked(s, c, a)
  BY DEF Meet, Walked
<1>8. Contributions(s, a, c) = Contributions(s, c, a)
  BY <1>5, <1>6 DEF Contributions, Admitted
<1> QED
  BY <1>6, <1>7, <1>8

\* If no declaration is marked, the policy looks at the declarations and at what
\* they share.
LEMMA VisibleByMembers ==
    ASSUME NEW p, \A d \in Members(p) : ~Marked(d)
    PROVE  SymbolicVisible(p) <=>
               /\ \A d \in Members(p) : ~d.generated /\ d.public /\ ~InstanceLike(d)
               /\ TheoremPair(p) /\ Shares(p, {"statement", "permutation"})
<1>1. ~BroadHeadOnly(p)
  BY DEF BroadHeadOnly, Marked, Members
<1>2. ASSUME PolicyBlockers(p) = {}
      PROVE  /\ \A d \in Members(p) : ~d.generated /\ d.public /\ ~InstanceLike(d)
             /\ TheoremPair(p)
  <2>1. /\ "generated" \notin PolicyBlockers(p) /\ "non-public" \notin PolicyBlockers(p)
        /\ "instance" \notin PolicyBlockers(p) /\ "static-only" \notin PolicyBlockers(p)
    BY <1>2
  <2> QED
    BY <2>1 DEF PolicyBlockers
<1>3. ASSUME \A d \in Members(p) : ~d.generated /\ d.public /\ ~InstanceLike(d),
             TheoremPair(p)
      PROVE  PolicyBlockers(p) = {}
  BY <1>1, <1>3 DEF PolicyBlockers
<1> QED
  BY <1>2, <1>3 DEF SymbolicVisible

LEMMA SameMembersSameView ==
    ASSUME NEW s, Usual(s), NEW p \in Pairs(s), NEW q \in Pairs(s), Members(p) = Members(q),
           \A d \in Members(p) : ~Marked(d)
    PROVE  SymbolicVisible(p) <=> SymbolicVisible(q)
<1>1. /\ p.anchor \in s.rows /\ p.keys = Contributions(s, p.anchor, p.candidate)
      /\ q.anchor \in s.rows /\ q.keys = Contributions(s, q.anchor, q.candidate)
      /\ p.anchor # p.candidate /\ q.anchor # q.candidate
  BY PairIsFound
<1>2. \/ q.anchor = p.anchor /\ q.candidate = p.candidate
      \/ q.anchor = p.candidate /\ q.candidate = p.anchor
  BY <1>1 DEF Members
<1>3. p.keys = q.keys
  BY <1>1, <1>2, KeysEitherWay DEF Marked, Members
<1>4. /\ TheoremPair(p) <=> TheoremPair(q)
      /\ \A S : Shares(p, S) <=> Shares(q, S)
  BY <1>2, <1>3 DEF TheoremPair, Shares
<1> QED
  BY <1>4, VisibleByMembers

-----------------------------------------------------------------------------
(* What is observed *)

LEMMA AdmittedIfAny ==
    ASSUME NEW a, NEW keys
    PROVE  Admitted(a, keys) # {} <=> \E k \in keys : Admits(a, k)
BY DEF Admitted

\* A walk for one anchor opens what is opened for all of them.
LEMMA WalkGoesFurther ==
    ASSUME NEW s, NEW a \in s.rows, NEW c
    PROVE  /\ Contributions(s, a, c) # {} => Admitted(a, Walked(s, a, c)) # {}
           /\ Admitted(a, Walked(s, a, c)) # {} /\ ~Narrowed(s, a, c)
                  => Contributions(s, a, c) # {}
<1>1. ASSUME NEW k \in Meet(s, a, c)
      PROVE  k \in Walked(s, a, c)
  <2>1. k \in a.keys \cap c.keys /\ a \in Holders(k, s.rows)
    BY <1>1 DEF Meet, Holders
  <2> QED
    BY <1>1, <2>1 DEF Meet, Walked
<1> QED
  BY <1>1, AdmittedIfAny DEF Contributions, Narrowed

LEMMA CandidatesAreObserved ==
    ASSUME NEW s, NEW T, NEW p \in Pairs(s)
    PROVE  LET o == Seen(p, TRUE, RankIn(Pairs(s), p))
           IN o \in ObservedCandidates(s) /\ o \in Observation(s, T).pairs
BY DEF ObservedCandidates, Observation, Pairs

\* An observation is of a candidate, or of a pair that was asked for, is none,
\* and is found by a walk of its own.
LEMMA ObservedHow ==
    ASSUME NEW s, NEW T, NEW o \in Observation(s, T).pairs
    PROVE  \/ \E p \in Pairs(s) : o = Seen(p, TRUE, RankIn(Pairs(s), p))
           \/ /\ ~o.ranked /\ o.ranked \in BOOLEAN
              /\ ~AlreadyRanked(ObservedCandidates(s), o.names)
              /\ \E a \in s.rows, c \in AllRows(s) :
                     /\ o.names = {Qualified(a), Qualified(c)}
                     /\ Admitted(a, Walked(s, a, c)) # {}
<1> DEFINE ranked == ObservedCandidates(s)
           asked  == Untaken(s, ranked, T)
<1>1. CASE o \in ranked
  BY <1>1 DEF ObservedCandidates, Pairs
<1>2. CASE o \notin ranked
  <2>1. PICK x \in asked : /\ Account(s, x[1], x[2]) = "generated, not selected"
                           /\ o = Seen(Probed(s, x), FALSE, 0)
    BY <1>2 DEF Observation
  <2>2. PICK names \in T : ~AlreadyRanked(ranked, names) /\ x \in Orientations(s, names)
    BY <2>1 DEF Untaken
  <2>3. \A n : Located(s, n) \subseteq AllRows(s)
    BY DEF Located, AllRows
  <2>4. /\ x[1] \in s.rows /\ x[2] \in AllRows(s)
        /\ names = {Qualified(x[1]), Qualified(x[2])}
    <3>1. PICK a, c \in UNION {Located(s, n) : n \in names} :
              x = <<a, c>> /\ a \in s.rows /\ names = {Qualified(a), Qualified(c)}
      BY <2>2 DEF Orientations
    <3> QED
      BY <2>3, <3>1
  <2>5. ~o.ranked /\ o.ranked \in BOOLEAN /\ o.names = names
    BY <2>1, <2>4 DEF Seen, NamesOf, Members, Probed
  <2>6. Admitted(x[1], Walked(s, x[1], x[2])) # {}
    BY <2>1 DEF Account
  <2> QED
    BY <2>2, <2>4, <2>5, <2>6
<1> QED
  BY <1>1, <1>2

\* A label that resolves is asked for in some orientation.
LEMMA LabelIsAsked ==
    ASSUME NEW s, Usual(s), NEW l \in Labels(s), Resolves(s, l),
           NEW a \in s.rows, NEW c, Ends(s, l) = {a, c}
    PROVE  \E x, y : /\ <<x, y>> \in Orientations(s, Seed(s, l).names)
                     /\ \/ x = a /\ y = c
                        \/ x = c /\ y = a /\ c \in s.rows
<1> DEFINE names == Seed(s, l).names
<1>1. PICK d, e \in AllRows(s) :
          /\ Ends(s, l) = {d, e}
          /\ \A x \in AllRows(s) : /\ Qualified(x) = Qualified(d) => x = d
                                   /\ Qualified(x) = Qualified(e) => x = e
  BY EndsOfLabel
<1>2. a \in AllRows(s) /\ c \in AllRows(s) /\ names = {Qualified(a), Qualified(c)}
  BY <1>1, NamesTell
<1>3. ASSUME NEW x \in {a, c}
      PROVE  x \in UNION {Located(s, n) : n \in names}
  <2>1. \A z \in AllRows(s) : Qualified(z) = Qualified(x) => z = x
    BY <1>1, <1>3
  <2>2. x \in Located(s, Qualified(x))
    BY <1>2, <1>3, <2>1, Corpora DEF Located
  <2> QED
    BY <1>2, <2>2
<1>4. Qualified(a) \in Nat /\ Qualified(c) \in Nat
  BY <1>2 DEF Usual, UniqueNames
<1> HIDE DEF names
<1>5. CASE c \notin s.rows \/ Qualified(a) <= Qualified(c)
  <2>1. <<a, c>> \in Orientations(s, names)
    BY <1>2, <1>3, <1>5 DEF Orientations
  <2> QED
    BY <2>1 DEF names
<1>6. CASE c \in s.rows /\ Qualified(c) <= Qualified(a)
  <2>1. <<c, a>> \in Orientations(s, names)
    BY <1>2, <1>3, <1>6 DEF Orientations
  <2> QED
    BY <1>6, <2>1 DEF names
<1>7. Qualified(a) <= Qualified(c) \/ Qualified(c) <= Qualified(a)
  BY <1>4
<1> QED
  BY <1>5, <1>6, <1>7

-----------------------------------------------------------------------------
(* Where a label was lost *)

EvidenceFor(s, T, l) == {o \in Observation(s, T).pairs : o.names = Seed(s, l).names}

\* A label of declarations without marks: what is observed of it is what became of
\* its pairs.
LEMMA EvidenceOfLabel ==
    ASSUME NEW s, Usual(s), NEW l \in Labels(s), Resolves(s, l), NEW T
    PROVE  LET observed == EvidenceFor(s, T, l)
               pairs    == PairsOf(s, l)
           IN /\ \A p \in pairs : Seen(p, TRUE, RankIn(Pairs(s), p)) \in observed
              /\ \A o \in observed : o.ranked =>
                     o.pair \in pairs /\ o.shown = SymbolicVisible(o.pair)
              /\ \A o \in observed : ~o.ranked =>
                     /\ pairs = {}
                     /\ \E a \in s.rows, c \in AllRows(s) :
                            Ends(s, l) = {a, c} /\ Admitted(a, Walked(s, a, c)) # {}
<1> DEFINE observed == EvidenceFor(s, T, l)
           pairs    == PairsOf(s, l)
           names    == Seed(s, l).names
<1>1. ASSUME NEW p \in pairs
      PROVE  LET o == Seen(p, TRUE, RankIn(Pairs(s), p))
             IN o \in observed /\ o \in ObservedCandidates(s)
  <2>1. p \in Pairs(s) /\ NamesOf(p) = names
    BY <1>1, PairOfLabel DEF PairsOf
  <2> QED
    BY <2>1, CandidatesAreObserved DEF EvidenceFor, Seen
<1>2. ASSUME NEW o \in observed, o.ranked
      PROVE  o.pair \in pairs /\ o.shown = SymbolicVisible(o.pair)
  <2>1. PICK p \in Pairs(s) : o = Seen(p, TRUE, RankIn(Pairs(s), p))
    BY <1>2, ObservedHow DEF EvidenceFor
  <2>2. o.pair = p /\ o.names = NamesOf(p) /\ o.shown = SymbolicVisible(p)
    BY <2>1 DEF Seen
  <2> QED
    BY <1>2, <2>1, <2>2, PairOfLabel DEF EvidenceFor
<1>3. ASSUME NEW o \in observed, ~o.ranked
      PROVE  /\ pairs = {}
             /\ \E a \in s.rows, c \in AllRows(s) :
                    Ends(s, l) = {a, c} /\ Admitted(a, Walked(s, a, c)) # {}
  <2>1. /\ ~AlreadyRanked(ObservedCandidates(s), names)
        /\ \E a \in s.rows, c \in AllRows(s) :
               names = {Qualified(a), Qualified(c)} /\ Admitted(a, Walked(s, a, c)) # {}
    BY <1>3, ObservedHow DEF EvidenceFor, Seen
  <2>2. \A p \in pairs : FALSE
    BY <1>1, <2>1 DEF AlreadyRanked, EvidenceFor
  <2> QED
    BY <2>1, <2>2, NamesTell, Corpora
<1> QED
  BY <1>1, <1>2, <1>3

\* LastOf is one of the observations, and unranked if any of them is.
LEMMA LastIsObserved ==
    ASSUME NEW S, S # {}, NEW d, NEW e, d.id \in Nat, e.id \in Nat,
           \A o \in S : o.ranked => o.pair.anchor \in {d, e},
           \A o \in S : o.ranked \in BOOLEAN
    PROVE  LastOf(S) \in S /\ (LastOf(S).ranked => \A o \in S : o.ranked)
<1>1. CASE \E o \in S : ~o.ranked
  BY <1>1 DEF LastOf
<1>2. CASE \A o \in S : o.ranked
  <2>1. \E o \in S : \A q \in S : q.pair.anchor.id <= o.pair.anchor.id
    <3>1. PICK o \in S : TRUE
      OBVIOUS
    <3>2. CASE \A q \in S : q.pair.anchor.id <= o.pair.anchor.id
      BY <3>2
    <3>3. ASSUME NEW q \in S, ~(q.pair.anchor.id <= o.pair.anchor.id)
          PROVE  \A r \in S : r.pair.anchor.id <= q.pair.anchor.id
      BY <1>2, <3>3
    <3> QED
      BY <3>2, <3>3
  <2>2. {o \in S : ~o.ranked} = {}
    BY <1>2
  <2> QED
    BY <1>2, <2>1, <2>2 DEF LastOf
<1> QED
  BY <1>1, <1>2

\* Why no observation means that nothing was found, from either side.
LEMMA FoundIsObserved ==
    ASSUME NEW s, Usual(s), NEW l \in Labels(s), Resolves(s, l),
           \A d \in Ends(s, l) : ~Marked(d),
           NEW T, Seed(s, l).names \in T,
           NEW a \in Ends(s, l) \cap s.rows, NEW c \in Ends(s, l), c # a,
           c \in DOMAIN Found(s, a)
    PROVE  EvidenceFor(s, T, l) # {}
<1> DEFINE names == Seed(s, l).names
           ranked == ObservedCandidates(s)
<1>1. Ends(s, l) = {a, c}
  <2>1. \E d, e : Ends(s, l) = {d, e}
    BY EndsOfLabel
  <2> QED
    BY <2>1
<1>2. CASE AlreadyRanked(ranked, names)
  <2>1. PICK o \in ranked : o.names = names
    BY <1>2 DEF AlreadyRanked
  <2>2. o \in Observation(s, T).pairs
    BY <2>1 DEF Observation
  <2> QED
    BY <2>1, <2>2 DEF EvidenceFor
<1>3. CASE ~AlreadyRanked(ranked, names)
  <2>1. PICK x, y : /\ <<x, y>> \in Orientations(s, names)
                    /\ \/ x = a /\ y = c
                       \/ x = c /\ y = a /\ c \in s.rows
    <3>1. a \in s.rows
      OBVIOUS
    <3> QED
      BY <1>1, <3>1, LabelIsAsked
  <2>2. Contributions(s, a, c) # {}
    BY DEF Found
  <2>3. Contributions(s, x, y) # {} /\ x \in s.rows
    BY <1>1, <2>1, <2>2, KeysEitherWay DEF Marked
  <2>4. Account(s, x, y) = "generated, not selected"
    BY <2>3, WalkGoesFurther DEF Account
  <2>5. <<x, y>> \in Untaken(s, ranked, T)
    BY <1>3, <2>1 DEF Untaken
  <2> DEFINE o == Seen(Probed(s, <<x, y>>), FALSE, 0)
  <2>6. o \in Observation(s, T).pairs
    BY <2>4, <2>5 DEF Observation
  <2>7. o.names = {Qualified(x), Qualified(y)}
    BY DEF Seen, NamesOf, Members, Probed
  <2>8. names = {Qualified(x), Qualified(y)}
    BY <2>1 DEF Orientations
  <2> QED
    BY <2>6, <2>7, <2>8 DEF EvidenceFor
<1> QED
  BY <1>2, <1>3

\* Wherever loss_reason says that a label was lost, the search lost it there.
LEMMA LossOfLabel ==
    ASSUME NEW s, Usual(s), NEW l \in Labels(s), NEW T, Seed(s, l).names \in T
    PROVE  LET lost == LostAt(s, Seed(s, l), Observation(s, T))
           IN LostThere(s, l, lost)
              /\ lost \in {"resolution", "eligibility", "generation", "ranking",
                           "visibility", "none"}
<1> DEFINE seen     == Observation(s, T)
           lost     == LostAt(s, Seed(s, l), seen)
           observed == EvidenceFor(s, T, l)
           pairs    == PairsOf(s, l)
           sides    == (Ends(s, l) \cap s.rows) \X Ends(s, l)
           found    == \E x \in sides : x[2] # x[1] /\ x[2] \in DOMAIN Found(s, x[1])
           apart    == \E x \in sides : x[2] = x[1] \/ Narrowed(s, x[1], x[2])
<1>1. /\ Seed(s, l).resolved = Resolves(s, l) /\ Seed(s, l).label = l
      /\ Resolves(s, l) \in BOOLEAN
  BY DEF Seed, Resolves
<1>2. CASE ~Resolves(s, l) \/ \E d \in Ends(s, l) : ~Eligible(d)
  <2>1. lost \in {"resolution", "eligibility"}
    BY <1>1, <1>2 DEF LostAt
  <2> QED
    BY <2>1 DEF LostThere
<1>3. CASE Resolves(s, l) /\ \A d \in Ends(s, l) : Eligible(d)
  <2>1. lost = IF observed = {} THEN "generation"
               ELSE IF ~LastOf(observed).ranked THEN "ranking"
               ELSE IF ~LastOf(observed).shown THEN "visibility" ELSE "none"
    BY <1>1, <1>3 DEF LostAt, EvidenceFor
  <2>2. \A d \in Ends(s, l) : ~Marked(d)
    BY <1>3 DEF Eligible
  <2>3. /\ \A p \in pairs : Seen(p, TRUE, RankIn(Pairs(s), p)) \in observed
        /\ \A o \in observed : o.ranked =>
               o.pair \in pairs /\ o.shown = SymbolicVisible(o.pair)
        /\ \A o \in observed : ~o.ranked =>
               /\ pairs = {}
               /\ \E a \in s.rows, c \in AllRows(s) :
                      Ends(s, l) = {a, c} /\ Admitted(a, Walked(s, a, c)) # {}
    BY <1>3, EvidenceOfLabel
  <2>4. CASE observed = {}
    <3>1. ~found
      BY <1>3, <2>2, <2>4, FoundIsObserved
    <3> QED
      BY <2>1, <2>4, <3>1 DEF LostThere
  <2>5. ASSUME observed # {}
        PROVE  /\ LastOf(observed) \in observed
               /\ LastOf(observed).ranked => \A o \in observed : o.ranked
    <3>1. PICK d, e \in AllRows(s) : Ends(s, l) = {d, e}
      BY <1>3, EndsOfLabel
    <3>2. d.id \in Nat /\ e.id \in Nat
      BY Corpora DEF Declaration
    <3>3. \A o \in observed : o.ranked => o.pair.anchor \in {d, e}
      BY <2>3, <3>1 DEF PairsOf, Members
    <3>4. ASSUME NEW o \in observed
          PROVE  o.ranked \in BOOLEAN
      <4>1. o \in seen.pairs
        BY DEF EvidenceFor
      <4>2. CASE \E p \in Pairs(s) : o = Seen(p, TRUE, RankIn(Pairs(s), p))
        BY <4>2 DEF Seen
      <4> QED
        BY <4>1, <4>2, ObservedHow DEF Seen
    <3> QED
      BY <2>5, <3>2, <3>3, <3>4, LastIsObserved
  <2>6. CASE observed # {} /\ ~LastOf(observed).ranked
    <3>1. pairs = {}
      BY <2>3, <2>5, <2>6
    <3>2. PICK a \in s.rows, c \in AllRows(s) :
              Ends(s, l) = {a, c} /\ Admitted(a, Walked(s, a, c)) # {}
      BY <2>3, <2>5, <2>6
    <3>3. <<a, c>> \in sides
      BY <3>2
    <3>4. ASSUME ~apart
          PROVE  found
      <4>1. c # a /\ ~Narrowed(s, a, c)
        BY <3>3, <3>4
      <4>2. c \in Others(s, a)
        BY <4>1 DEF Others, AllRows
      <4>3. Contributions(s, a, c) # {}
        BY <3>2, <4>1, WalkGoesFurther
      <4>4. c \in DOMAIN Found(s, a)
        BY <4>2, <4>3 DEF Found
      <4> QED
        BY <3>3, <4>1, <4>4
    <3>5. lost = "ranking"
      BY <2>1, <2>6
    <3> HIDE DEF found, apart, lost, pairs
    <3>6. pairs = {} /\ (found \/ apart)
      BY <3>1, <3>4
    <3> USE DEF found, apart, pairs
    <3>7. LostThere(s, l, "ranking")
      BY <3>6 DEF LostThere
    <3> QED
      BY <3>5, <3>7 DEF lost
  <2>7. CASE observed # {} /\ LastOf(observed).ranked
    <3> DEFINE q == LastOf(observed).pair
    <3>1. q \in pairs /\ LastOf(observed).shown = SymbolicVisible(q)
      BY <2>3, <2>5, <2>7
    <3>2. ASSUME NEW p \in pairs
          PROVE  SymbolicVisible(p) <=> SymbolicVisible(q)
      <4>1. /\ p \in Pairs(s) /\ q \in Pairs(s)
            /\ Members(p) = Ends(s, l) /\ Members(q) = Ends(s, l)
        BY <3>1 DEF PairsOf
      <4> QED
        BY <2>2, <4>1, SameMembersSameView
    <3>3. lost = IF SymbolicVisible(q) THEN "none" ELSE "visibility"
      BY <2>1, <2>7, <3>1
    <3> HIDE DEF q, lost
    <3>4. CASE SymbolicVisible(q)
      <4>1. LostThere(s, l, "none")
        BY <3>1, <3>4 DEF LostThere
      <4> QED
        BY <3>3, <3>4, <4>1 DEF lost
    <3>5. CASE ~SymbolicVisible(q)
      <4>1. LostThere(s, l, "visibility")
        BY <3>1, <3>2, <3>5 DEF LostThere
      <4> QED
        BY <3>3, <3>5, <4>1 DEF lost
    <3> QED
      BY <3>4, <3>5
  <2> QED
    BY <2>4, <2>6, <2>7
<1> QED
  BY <1>2, <1>3

-----------------------------------------------------------------------------
(* The report of a suite *)

Asked(s) == Wanted(Seeds(s), TRUE) \cup Wanted(Seeds(s), FALSE)

Metrics(s, ks) == Scored(Seeds(s), Observation(s, Asked(s)), KsOf(s.suite, ks))

TracesOf(s) == Traces(s, Seeds(s), Observation(s, Asked(s)))

LEMMA SeedIsWanted ==
    ASSUME NEW s, Usual(s), NEW l \in Labels(s)
    PROVE  /\ l.positive => Seed(s, l).names \in Wanted(Seeds(s), TRUE)
           /\ ~l.positive => Seed(s, l).names \in Wanted(Seeds(s), FALSE)
           /\ Seed(s, l).names \in Asked(s)
<1>1. l.positive \in BOOLEAN
  BY LabelsAreLabels
<1>2. Seed(s, l) \in Seeds(s) /\ Seed(s, l).label = l
  BY DEF Seeds, Seed
<1>3. /\ l.positive => Seed(s, l).names \in Wanted(Seeds(s), TRUE)
      /\ ~l.positive => Seed(s, l).names \in Wanted(Seeds(s), FALSE)
  BY <1>1, <1>2 DEF Wanted
<1> QED
  BY <1>3 DEF Asked

LEMMA WantedIsFinite ==
    ASSUME NEW s, Usual(s), NEW positive
    PROVE  IsFiniteSet(Wanted(Seeds(s), positive))
<1> DEFINE f == [l \in Labels(s) |-> Seed(s, l).names]
<1>1. Wanted(Seeds(s), positive) \subseteq {f[l] : l \in Labels(s)}
  BY DEF Wanted, Seeds
<1> HIDE DEF f
<1>2. IsFiniteSet({f[l] : l \in Labels(s)})
  BY LabelsAreFinite, ImageIsFinite
<1> QED
  BY <1>1, <1>2, FS_Subset

LEMMA ReportOfSuite ==
    ASSUME NEW s, NEW r
    PROVE  LET run == RunOf(s, r)
           IN /\ run.status \in {"ok", "blocked", "failed"}
              /\ run.traces \subseteq TracesOf(s)
              /\ run.status = "ok" => /\ ~MissesGate(s.suite, Metrics(s, r.ks))
                                      /\ ~Blocked(s, TracesOf(s))
<1> DEFINE metrics == Metrics(s, r.ks)
           traces  == TracesOf(s)
           other   == IF r.details /\ r.suite # "production-gate"
                      THEN Dataset(Seeds(s), Observation(s, Asked(s))) ELSE {}
           another == IF r.details
                      THEN {Ablations(Seeds(s), Observation(s, Asked(s)), KsOf(s.suite, r.ks))}
                      ELSE {}
<1>1. RunOf(s, r) = IF MissesGate(s.suite, metrics) THEN NotRun("failed")
                    ELSE [status |-> IF Blocked(s, traces) THEN "blocked" ELSE "ok",
                          metrics |-> {metrics},
                          traces |-> IF s.suite \in Manual THEN traces ELSE {},
                          dataset |-> other, ablations |-> another]
  BY DEF RunOf, Asked, Metrics, TracesOf
<1>2. NotRun("failed").status = "failed" /\ NotRun("failed").traces = {}
  BY DEF NotRun
<1> HIDE DEF metrics, traces, other, another
<1>3. /\ RunOf(s, r).status \in {"ok", "blocked", "failed"}
      /\ RunOf(s, r).traces \subseteq traces
      /\ RunOf(s, r).status = "ok" => ~MissesGate(s.suite, metrics) /\ ~Blocked(s, traces)
  BY <1>1, <1>2
<1> QED
  BY <1>3 DEF metrics, traces

LEMMA TraceIsLocated ==
    ASSUME NEW s, Usual(s), NEW t \in TracesOf(s)
    PROVE  LostThere(s, t.seed.label, t.lost)
<1>1. PICK l \in Labels(s) :
          t = [seed |-> Seed(s, l), lost |-> LostAt(s, Seed(s, l), Observation(s, Asked(s)))]
  BY DEF TracesOf, Traces, Seeds
<1>2. Seed(s, l).label = l
  BY DEF Seed
<1> QED
  BY <1>1, <1>2, LossOfLabel, SeedIsWanted

\* A manual suite that is not blocked has lost no duplicate.
LEMMA UnblockedIsVisible ==
    ASSUME NEW s, Usual(s), s.suite \in Manual, ~Blocked(s, TracesOf(s)),
           NEW l \in Labels(s), l.positive
    PROVE  \E p \in PairsOf(s, l) : SymbolicVisible(p)
<1> DEFINE t == [seed |-> Seed(s, l), lost |-> LostAt(s, Seed(s, l), Observation(s, Asked(s)))]
<1>1. t \in TracesOf(s) /\ t.seed.label = l
  BY DEF TracesOf, Traces, Seeds, Seed
<1>2. t.lost = "none"
  BY <1>1 DEF Blocked
<1>3. LostThere(s, l, t.lost)
  BY <1>1, TraceIsLocated
<1> HIDE DEF t
<1> QED
  BY <1>2, <1>3 DEF LostThere

\* The numbers of the gate are of finite sets, so they count what they should.
LEMMA FullRecall ==
    ASSUME NEW s, Usual(s), NEW ks, s.suite = "default", ~MissesGate(s.suite, Metrics(s, ks)),
           NEW l \in Labels(s), l.positive, Resolves(s, l)
    PROVE  \E p \in PairsOf(s, l) : WithinGate(s, p)
<1> DEFINE seen      == Observation(s, Asked(s))
           positives == Wanted(Seeds(s), TRUE)
           ranked    == {o \in seen.pairs : o.ranked}
           within    == NamesIn({o \in ranked : o.rank <= RecallGate})
<1>1. RecallGate \in KsOf(s.suite, ks)
  BY EvaluationAssumption DEF KsOf
<1>2. Metrics(s, ks).recall[RecallGate] = Ratio(positives, within)
  BY <1>1 DEF Metrics, Scored
<1>3. Cardinality(positives \cap within) = Cardinality(positives)
  <2> DEFINE m == Metrics(s, ks)
  <2> HIDE DEF m, positives, within
  <2>1. m.recall[RecallGate].found = m.recall[RecallGate].total
    BY DEF MissesGate, m
  <2>2. m.recall[RecallGate] = [found |-> Cardinality(positives \cap within),
                                total |-> Cardinality(positives)]
    BY <1>2 DEF Ratio, m
  <2> QED
    BY <2>1, <2>2
<1>4. IsFiniteSet(positives)
  BY WantedIsFinite
<1>5. positives \cap within \in SUBSET positives
  OBVIOUS
<1> HIDE DEF positives, within
<1>6. positives \subseteq within
  BY <1>3, <1>4, <1>5, FS_Subset
<1>7. Seed(s, l).names \in within
  BY <1>6, SeedIsWanted DEF positives
<1>8. PICK o \in seen.pairs : o.ranked /\ o.rank <= RecallGate /\ o.names = Seed(s, l).names
  BY <1>7 DEF within, NamesIn
<1>9. PICK p \in Pairs(s) : o = Seen(p, TRUE, RankIn(Pairs(s), p))
  BY <1>8, ObservedHow DEF Seen
<1>10. NamesOf(p) = Seed(s, l).names /\ RankIn(Pairs(s), p) <= RecallGate
  BY <1>8, <1>9 DEF Seen
<1> QED
  BY <1>10, PairOfLabel DEF WithinGate

LEMMA NoHits ==
    ASSUME NEW s, Usual(s), NEW ks, s.suite \in {"default", "hard-negatives"},
           ~MissesGate(s.suite, Metrics(s, ks)),
           NEW l \in Labels(s), ~l.positive, Resolves(s, l), NEW p \in PairsOf(s, l)
    PROVE  ~SymbolicVisible(p)
<1> DEFINE seen      == Observation(s, Asked(s))
           negatives == Wanted(Seeds(s), FALSE)
           shown     == NamesIn({o \in seen.pairs : o.shown})
           o         == Seen(p, TRUE, RankIn(Pairs(s), p))
<1> SUFFICES ASSUME SymbolicVisible(p)
             PROVE  FALSE
  OBVIOUS
<1>1. p \in Pairs(s) /\ NamesOf(p) = Seed(s, l).names
  BY PairOfLabel DEF PairsOf
<1>2. o \in seen.pairs /\ o.names = Seed(s, l).names /\ o.shown
  BY <1>1, CandidatesAreObserved DEF Seen
<1>3. Seed(s, l).names \in negatives \cap shown
  BY <1>2, SeedIsWanted DEF NamesIn
<1>4. Metrics(s, ks).hits = Ratio(negatives, shown)
  BY DEF Metrics, Scored
<1>5. Cardinality(negatives \cap shown) = 0
  BY <1>4 DEF MissesGate, Ratio
<1>6. IsFiniteSet(negatives)
  BY WantedIsFinite
<1> HIDE DEF negatives, shown
<1>7. IsFiniteSet(negatives \cap shown)
  BY <1>6, FS_Subset
<1> QED
  BY <1>3, <1>5, <1>7, FS_EmptySet

-----------------------------------------------------------------------------
(* One suite after another *)

Reports(s) == {NotRun("skipped"), NotRun("failed"), RunOf(s, request)}

\* Each suite has met a setting of its own, and its report is of that setting.
SuitesInv ==
    /\ request \in Requests
    /\ met \in Seq(DOMAIN Settings)
    /\ runs \in Seq(UNION {Reports(Settings[i]) : i \in DOMAIN Settings})
    /\ Len(met) = Len(runs) /\ Len(runs) <= Len(Todo)
    /\ \A i \in DOMAIN runs : Met(i).suite = Todo[i] /\ runs[i] \in Reports(Met(i))

\* The outcome of the gate is that of all of its suites.
OutcomeInv ==
    outcome = "ok" /\ IsGate => Len(runs) = Len(Todo) /\ GateStatus = "ok"

IInv == SuitesInv /\ OutcomeInv

LEMMA TodoOfRequest ==
    ASSUME request \in Requests
    PROVE  /\ Len(Todo) \in Nat /\ Len(Todo) >= 1
           /\ IsGate => Todo = Gated /\ Len(Todo) = 4
BY EvaluationAssumption DEF Todo, Gated, IsGate

LEMMA IInvInit == EvaluationInit => IInv
<1> SUFFICES ASSUME EvaluationInit
             PROVE  IInv
  OBVIOUS
<1>1. /\ request \in Requests /\ met = <<>> /\ runs = <<>> /\ outcome = ""
  BY DEF EvaluationInit
<1> DEFINE m == Len(met) n == Len(runs)
<1>0. m = 0 /\ n = 0
  BY <1>1
<1> HIDE DEF m, n
<1>2. <<>> \in Seq(DOMAIN Settings)
  OBVIOUS
<1>3. <<>> \in Seq(UNION {Reports(Settings[i]) : i \in DOMAIN Settings})
  OBVIOUS
<1>4. ASSUME NEW i \in DOMAIN runs
      PROVE  FALSE
  <2>1. <<>> \in Seq({})
    BY EmptySeq
  <2>2. runs \in Seq({})
    BY <1>1, <2>1
  <2>3. DOMAIN runs = 1 .. n
    BY <2>2, LenProperties DEF n
  <2> QED
    BY <1>0, <2>3
<1>5. Len(met) = Len(runs) /\ Len(runs) <= Len(Todo)
  <2>1. Len(Todo) \in Nat
    BY <1>1, TodoOfRequest
  <2>2. m = n /\ n <= Len(Todo)
    BY <1>0, <2>1
  <2> QED
    BY <2>2 DEF m, n
<1>6. met \in Seq(DOMAIN Settings) /\ runs \in Seq(UNION {Reports(Settings[i]) : i \in DOMAIN Settings})
  BY <1>1, <1>2, <1>3
<1>7. SuitesInv
  BY <1>1, <1>4, <1>5, <1>6 DEF SuitesInv
<1> QED
  BY <1>1, <1>7 DEF IInv, OutcomeInv

LEMMA SuitesNext ==
    ASSUME SuitesInv, RunSuite
    PROVE  SuitesInv'
<1>1. PICK i \in request.meets :
          /\ Settings[i].suite = Todo[Len(runs) + 1]
          /\ Skip(i) \/ Break(i) \/ Evaluate(i)
  BY DEF RunSuite
<1>2. i \in DOMAIN Settings
  BY <1>1, EvaluationAssumption DEF SuitesInv, Request
<1>3. PICK run \in Reports(Settings[i]) : met' = Append(met, i) /\ runs' = Append(runs, run)
  BY <1>1 DEF Skip, Break, Evaluate, Tell, Reports
<1>4. request' = request /\ Todo' = Todo /\ \A s : Reports(s)' = Reports(s)
  BY DEF RunSuite, Todo, IsGate, Reports
<1> DEFINE n == Len(runs)
<1>5. /\ met' \in Seq(DOMAIN Settings) /\ Len(met') = n + 1
      /\ met'[n + 1] = i /\ \A j \in 1 .. n : met'[j] = met[j]
  BY <1>2, <1>3, AppendProperties DEF SuitesInv
<1> DEFINE All == UNION {Reports(Settings[j]) : j \in DOMAIN Settings}
<1>6. runs \in Seq(All) /\ run \in All
  BY <1>2 DEF SuitesInv
<1> HIDE DEF All
<1>7. /\ runs' \in Seq(All) /\ Len(runs') = n + 1 /\ n \in Nat
      /\ runs'[n + 1] = run /\ \A j \in 1 .. n : runs'[j] = runs[j]
  BY <1>3, <1>6, AppendProperties
<1>8. DOMAIN runs = 1 .. n /\ DOMAIN runs' = 1 .. n + 1
  BY <1>6, <1>7
<1>9. ASSUME NEW j \in DOMAIN runs'
      PROVE  Met(j)'.suite = Todo'[j] /\ runs'[j] \in Reports(Met(j))'
  <2>1. CASE j \in 1 .. n
    <3>1. Met(j)' = Met(j) /\ runs'[j] = runs[j]
      BY <1>5, <1>7, <2>1 DEF Met
    <3>2. Met(j).suite = Todo[j] /\ runs[j] \in Reports(Met(j))
      BY <1>8, <2>1 DEF SuitesInv
    <3>3. Reports(Met(j))' = Reports(Met(j))
      BY <1>4, <3>1 DEF Reports
    <3> QED
      BY <1>4, <3>1, <3>2, <3>3
  <2>2. CASE j = n + 1
    <3>1. Met(j)' = Settings[i] /\ runs'[j] = run
      BY <1>5, <1>7, <2>2 DEF Met
    <3>2. Reports(Met(j))' = Reports(Settings[i])
      BY <1>4, <3>1 DEF Reports
    <3> QED
      BY <1>1, <1>3, <1>4, <2>2, <3>1, <3>2
  <2> QED
    BY <1>7, <1>8, <1>9, <2>1, <2>2
<1>10. Len(met') = Len(runs') /\ Len(runs') <= Len(Todo')
  BY <1>4, <1>5, <1>7, TodoOfRequest DEF RunSuite, SuitesInv
<1>11. runs' \in Seq(UNION {Reports(Settings[j]) : j \in DOMAIN Settings})'
  BY <1>4, <1>7 DEF All
<1> QED
  BY <1>4, <1>5, <1>9, <1>10, <1>11 DEF SuitesInv

LEMMA IInvNext == IInv /\ [EvaluationNext]_evaluationVars => IInv'
<1> SUFFICES ASSUME IInv, [EvaluationNext]_evaluationVars
             PROVE  IInv'
  OBVIOUS
<1>1. CASE RunSuite
  <2>1. outcome' = outcome /\ IsGate' = IsGate /\ Len(runs) < Len(Todo)
    BY <1>1 DEF RunSuite, IsGate
  <2>2. Len(runs) \in Nat /\ Len(Todo) \in Nat
    BY TodoOfRequest DEF IInv, SuitesInv
  <2> QED
    BY <1>1, <2>1, <2>2, SuitesNext DEF IInv, OutcomeInv
<1>2. CASE Conclude
  <2>1. /\ UNCHANGED <<request, met, runs>> /\ Len(runs) = Len(Todo)
        /\ IsGate => outcome' = GateStatus
    BY <1>2 DEF Conclude
  <2>2. SuitesInv'
    BY <2>1 DEF IInv, SuitesInv, Reports, Met, Todo, IsGate
  <2>3. OutcomeInv'
    BY <2>1 DEF OutcomeInv, GateStatus, Said, Todo, IsGate
  <2> QED
    BY <2>2, <2>3 DEF IInv
<1>3. CASE UNCHANGED evaluationVars
  BY <1>3 DEF IInv, SuitesInv, OutcomeInv, Reports, Met, Todo, IsGate, GateStatus, Said,
              evaluationVars
<1> QED
  BY <1>1, <1>2, <1>3 DEF EvaluationNext

LEMMA Invariance == EvaluationSpec => []IInv
BY IInvInit, IInvNext, PTL DEF EvaluationSpec

-----------------------------------------------------------------------------
(* Theorems *)

\* For any settings and requests: where a report of trace_labels says that a label
\* was lost, there the search lost it.
THEOREM TracesTellTheLoss == EvaluationSpec => []LossIsLocated
<1>1. ASSUME IInv
      PROVE  LossIsLocated
  <2> SUFFICES ASSUME NEW i \in DOMAIN runs, NEW t \in runs[i].traces
               PROVE  LostThere(Met(i), t.seed.label, t.lost)
    BY DEF LossIsLocated
  <2>1. met[i] \in DOMAIN Settings /\ runs[i] \in Reports(Met(i))
    BY <1>1, ElementOfSeq DEF IInv, SuitesInv
  <2>2. t \in TracesOf(Met(i))
    <3>1. NotRun("skipped").traces = {} /\ NotRun("failed").traces = {}
      BY DEF NotRun
    <3> QED
      BY <2>1, <3>1, ReportOfSuite DEF Reports
  <2>3. Usual(Met(i))
    BY <2>1, SettingsAreUsual DEF Met
  <2> QED
    BY <2>2, <2>3, TraceIsLocated
<1> QED
  BY <1>1, Invariance, PTL

\* For any settings and requests: when run_production_gate says ok, it has run all
\* four suites and their labels are where they belong.
THEOREM GateVouches == EvaluationSpec => []GateIsHonest
<1>1. ASSUME IInv
      PROVE  GateIsHonest
  <2> SUFFICES ASSUME IsGate, outcome = "ok"
               PROVE  /\ Len(met) = 4
                      /\ \A i \in 1 .. 4 : \A l \in Labels(Met(i)) : LET s == Met(i) IN
                             IF l.positive
                             THEN /\ s.suite = "default" /\ Resolves(s, l) =>
                                         \E p \in PairsOf(s, l) : WithinGate(s, p)
                                  /\ s.suite \in Manual =>
                                         \E p \in PairsOf(s, l) : SymbolicVisible(p)
                             ELSE s.suite \notin Manual /\ Resolves(s, l) =>
                                         \A p \in PairsOf(s, l) : ~SymbolicVisible(p)
    BY DEF GateIsHonest
  <2>1. Len(runs) = 4 /\ Len(met) = 4 /\ Todo = Gated
    BY <1>1, TodoOfRequest DEF IInv, SuitesInv, OutcomeInv
  <2>2. \A i \in DOMAIN runs : runs[i].status \notin {"failed", "blocked", "skipped"}
    BY <1>1 DEF IInv, OutcomeInv, GateStatus, Said
  <2>3. ASSUME NEW i \in 1 .. 4, NEW l \in Labels(Met(i))
        PROVE  LET s == Met(i) IN
                   IF l.positive
                   THEN /\ s.suite = "default" /\ Resolves(s, l) =>
                               \E p \in PairsOf(s, l) : WithinGate(s, p)
                        /\ s.suite \in Manual =>
                               \E p \in PairsOf(s, l) : SymbolicVisible(p)
                   ELSE s.suite \notin Manual /\ Resolves(s, l) =>
                               \A p \in PairsOf(s, l) : ~SymbolicVisible(p)
    <3> DEFINE s == Met(i)
    <3>1. i \in DOMAIN runs /\ i \in 1 .. Len(met)
      BY <1>1, <2>1 DEF IInv, SuitesInv
    <3>2. met[i] \in DOMAIN Settings /\ runs[i] \in Reports(s) /\ s.suite = Gated[i]
      BY <1>1, <2>1, <3>1, ElementOfSeq DEF IInv, SuitesInv
    <3>3. Usual(s)
      BY <3>2, SettingsAreUsual DEF Met
    <3>4. runs[i] = RunOf(s, request)
      <4>1. NotRun("skipped").status = "skipped" /\ NotRun("failed").status = "failed"
        BY DEF NotRun
      <4> QED
        BY <2>2, <3>1, <3>2, <4>1 DEF Reports
    <3>5. /\ ~MissesGate(s.suite, Metrics(s, request.ks))
          /\ ~Blocked(s, TracesOf(s))
      BY <2>2, <3>1, <3>4, ReportOfSuite
    <3>6. s.suite \in Suites
      BY <3>2 DEF Suites
    <3> HIDE DEF s
    <3>7. CASE l.positive
      BY <3>3, <3>5, <3>7, FullRecall, UnblockedIsVisible DEF s
    <3>8. CASE ~l.positive
      <4>1. s.suite \notin Manual => s.suite \in {"default", "hard-negatives"}
        BY <3>6 DEF Suites, Gated, Manual
      <4> QED
        BY <3>3, <3>5, <3>8, <4>1, NoHits DEF s
    <3> QED
      BY <3>7, <3>8
  <2> QED
    BY <2>1, <2>3
<1> QED
  BY <1>1, Invariance, PTL

=============================================================================
