------------------------- MODULE AuditPipelineProofs -------------------------
(***************************************************************************)
(* For any imports: the resolver's answers are exact, with or without      *)
(* cycles, and whatever was asked before.  For any workload: the plan uses *)
(* the resolver as ImportClosure allows, the keys cover the closures of    *)
(* their pairs, and the selection is the one that BestFirst describes.     *)
(* For any corpora and requests: an audit plans as ProbePlanning does, the *)
(* account of evaluation is that of retrieval, and the findings of lint    *)
(* are facts that Lean has verified.  Limits on number lose no strong      *)
(* match to weak ones, silence means that everything was measured, what    *)
(* was verified is shown, advice rests on the uses that were found, and a  *)
(* lint of changes looks at what changed.                                  *)
(***************************************************************************)
EXTENDS AuditPipeline, FiniteSetTheorems, SequenceTheorems, WellFoundedInduction, TLAPS

-----------------------------------------------------------------------------
(* The resolver *)

LEMMA ReachContainsSelf ==
    ASSUME NEW m \in Modules
    PROVE  m \in Reach(m)
BY DEF Reach

LEMMA ReachIsClosed ==
    ASSUME imports \in [Modules -> SUBSET Modules], NEW m \in Modules
    PROVE  Closed(Reach(m))
BY DEF Reach, Closed

\* The closure of a module is that of its imports and itself.
LEMMA ReachUnfolds ==
    ASSUME imports \in [Modules -> SUBSET Modules], NEW m \in Modules
    PROVE  Reach(m) = {m} \cup UNION {Reach(i) : i \in imports[m]}
<1> DEFINE S == {m} \cup UNION {Reach(i) : i \in imports[m]}
<1>1. S \subseteq Modules
  BY DEF Reach
<1>2. Closed(S)
  <2> SUFFICES ASSUME NEW x \in S, NEW y \in imports[x]
               PROVE  y \in S
    BY DEF Closed
  <2>1. CASE x = m
    BY <2>1, ReachContainsSelf
  <2>2. ASSUME NEW i \in imports[m], x \in Reach(i)
        PROVE  y \in Reach(i)
    BY <2>2, ReachIsClosed DEF Closed
  <2> QED
    BY <2>1, <2>2
<1>3. Reach(m) \subseteq S
  BY <1>1, <1>2 DEF Reach
<1>4. S \subseteq Reach(m)
  <2> SUFFICES ASSUME NEW i \in imports[m], NEW n \in Reach(i)
               PROVE  n \in Reach(m)
    BY ReachContainsSelf
  <2> QED
    BY DEF Reach, Closed
<1> QED
  BY <1>3, <1>4

-----------------------------------------------------------------------------
\* The inductive invariant.
Inv == ClosureTypeOK /\ MemoInv /\ StackInv

LEMMA ImportsType ==
    ASSUME ClosureTypeOK
    PROVE  imports \in [Modules -> SUBSET Modules]
BY ClosureAssumption DEF ClosureTypeOK

\* The module on top of the stack, and the stack below it.
LEMMA TopOfStack ==
    ASSUME ClosureTypeOK, stack # <<>>
    PROVE  /\ Len(stack) \in Nat \ {0}
           /\ stack[Len(stack)] \in Modules \X BOOLEAN
           /\ Current \in Modules /\ Expanded \in BOOLEAN
           /\ Below \in Seq(Modules \X BOOLEAN)
           /\ Len(Below) = Len(stack) - 1
           /\ \A k \in 1 .. Len(stack) - 1 : Below[k] = stack[k]
<1>1. /\ stack \in Seq(Modules \X BOOLEAN)
      /\ Len(stack) \in Nat \ {0}
  BY DEF ClosureTypeOK
<1>2. stack[Len(stack)] \in Modules \X BOOLEAN
  BY <1>1
<1>3. /\ Below \in Seq(Modules \X BOOLEAN)
      /\ Len(Below) = Len(stack) - 1
      /\ \A k \in 1 .. Len(stack) - 1 : Below[k] = stack[k]
  <2> DEFINE n == Len(stack) - 1
  <2>1. /\ n \in Int /\ n \in Nat
        /\ \A i \in 1 .. n : stack[i] \in Modules \X BOOLEAN
    BY <1>1
  <2> HIDE DEF n
  <2>2. /\ SubSeq(stack, 1, n) \in Seq(Modules \X BOOLEAN)
        /\ Len(SubSeq(stack, 1, n)) = IF 1 <= n THEN n - 1 + 1 ELSE 0
        /\ \A i \in 1 .. n - 1 + 1 : SubSeq(stack, 1, n)[i] = stack[1 + i - 1]
    BY <2>1, SubSeqProperties
  <2>3. n - 1 + 1 = n
    BY <2>1
  <2>4. \A i \in 1 .. n : 1 + i - 1 = i
    BY <2>1
  <2>5. Below = SubSeq(stack, 1, n)
    BY DEF Below, n
  <2>6. Len(Below) = n
    BY <2>1, <2>2, <2>3, <2>5
  <2>7. \A k \in 1 .. n : Below[k] = stack[k]
    BY <2>2, <2>3, <2>4, <2>5
  <2> QED
    BY <2>2, <2>5, <2>6, <2>7 DEF n
<1> QED
  BY <1>1, <1>2, <1>3 DEF Current, Expanded

\* A module may leave the top of the stack once it is known: those that wait
\* for it, and the call, find it in the memo.
LEMMA PopKeepsStackInv ==
    ASSUME Inv, stack # <<>>, stack' = Below,
           members' \in [Modules -> (SUBSET Modules) \cup {None}],
           \A m \in Modules : Known(m) => members'[m] # None,
           members'[Current] # None,
           UNCHANGED <<imports, target>>
    PROVE  StackInv'
<1> USE DEF Inv
<1>1. /\ Len(stack) \in Nat \ {0} /\ Current = stack[Len(stack)][1]
      /\ Len(Below) = Len(stack) - 1
      /\ \A k \in 1 .. Len(stack) - 1 : Below[k] = stack[k]
      /\ \A k \in 1 .. Len(stack) : stack[k][1] \in Modules
  BY TopOfStack DEF Current, ClosureTypeOK
<1> DEFINE n == Len(stack)
<1>2. ASSUME NEW k \in 1 .. n - 1, stack[k][2], NEW i \in imports[stack[k][1]]
      PROVE  members'[i] # None \/ \E j \in k + 1 .. n - 1 : stack[j][1] = i
  <2>1. i \in Modules
    BY <1>1, ImportsType
  <2>2. Known(i) \/ \E j \in k + 1 .. n : stack[j][1] = i
    BY <1>1, <1>2 DEF StackInv
  <2> QED
    BY <1>1, <2>1, <2>2
<1>3. target # None => members'[target] # None \/ \E j \in 1 .. n - 1 : stack[j][1] = target
  <2>1. target # None => Known(target) \/ \E j \in 1 .. n : stack[j][1] = target
    BY DEF StackInv
  <2> QED
    BY <1>1, <2>1, ClosureAssumption DEF ClosureTypeOK
<1> QED
  BY <1>1, <1>2, <1>3 DEF StackInv, Known

\* Exactness of the memo does not change while the memo and the headers do not.
LEMMA MemoUnchanged ==
    ASSUME MemoInv, UNCHANGED <<imports, members>>,
           \A n \in result' : Known(n)
    PROVE  MemoInv'
BY DEF MemoInv, Known, Reach, Closed

LEMMA InitInv == ClosureInit => Inv
BY ClosureAssumption
   DEF ClosureInit, Inv, ClosureTypeOK, MemoInv, StackInv, Known

LEMMA ResolveKeepsInv ==
    ASSUME Inv, NEW m \in Modules, Resolve(m)
    PROVE  Inv'
<1> USE DEF Inv
<1>1. CASE Known(m)
  <2>1. stack' = <<>>
    BY <1>1 DEF Resolve
  <2>2. ClosureTypeOK'
    <3>1. stack' \in Seq(Modules \X BOOLEAN)
      BY <2>1, EmptySeq
    <3> QED
      BY <3>1 DEF Resolve, ClosureTypeOK
  <2>3. StackInv'
    BY <1>1, <2>1 DEF Resolve, StackInv, Known
  <2> QED
    BY <2>2, <2>3, MemoUnchanged DEF Resolve
<1>2. CASE ~Known(m)
  <2>1. stack' = <<<<m, FALSE>>>>
    BY <1>2 DEF Resolve
  <2>2. /\ stack' \in Seq(Modules \X BOOLEAN) /\ Len(stack') = 1
        /\ stack'[1][1] = m /\ stack'[1][2] = FALSE
    <3> DEFINE e == <<m, FALSE>>
               T == Modules \X BOOLEAN
    <3>1. e \in T /\ e[1] = m /\ e[2] = FALSE
      OBVIOUS
    <3> HIDE DEF e, T
    <3>2. <<e>> \in Seq(T) /\ Len(<<e>>) = 1 /\ <<e>>[1] = e
      BY <3>1
    <3>3. stack' = <<e>>
      BY <2>1 DEF e
    <3> QED
      BY <3>1, <3>2, <3>3 DEF T
  <2>3. ClosureTypeOK'
    BY <2>2 DEF Resolve, ClosureTypeOK
  <2>4. \A k \in 1 .. Len(stack') : stack'[k][2] = FALSE
    BY <2>2
  <2>5. 1 \in 1 .. Len(stack') /\ target' = m
    BY <2>2 DEF Resolve
  <2>6. StackInv'
    BY <2>2, <2>4, <2>5 DEF StackInv
  <2> QED
    BY <2>3, <2>6, MemoUnchanged DEF Resolve
<1> QED
  BY <1>1, <1>2

LEMMA SkipKeepsInv ==
    ASSUME Inv, Skip
    PROVE  Inv'
<1> USE DEF Inv
<1>1. Known(Current)
  BY DEF Skip, MemoInv
<1>2. ClosureTypeOK'
  BY TopOfStack DEF Skip, ClosureTypeOK
<1>3. MemoInv'
  BY MemoUnchanged DEF Skip, MemoInv
<1>4. StackInv'
  BY <1>1, PopKeepsStackInv DEF Skip, ClosureTypeOK, Known
<1> QED
  BY <1>2, <1>3, <1>4

\* When an expanded module is on top, all its imports are known.
LEMMA ImportsKnown ==
    ASSUME Inv, stack # <<>>, Expanded
    PROVE  \A i \in imports[Current] : Known(i)
<1> DEFINE n == Len(stack)
<1>1. n \in Nat \ {0}
  BY TopOfStack DEF Inv
<1>2. \A i \in imports[stack[n][1]] :
         Known(i) \/ \E j \in n + 1 .. n : stack[j][1] = i
  BY <1>1 DEF Inv, StackInv, Expanded
<1> QED
  BY <1>1, <1>2 DEF Current

LEMMA MergeKeepsInv ==
    ASSUME Inv, Merge
    PROVE  Inv'
<1> USE DEF Inv
<1> DEFINE merged == {Current} \cup
                     UNION {members[i] : i \in {j \in imports[Current] : Known(j)}}
<1>1. /\ stack # <<>> /\ Expanded /\ Current \in Modules
      /\ imports[Current] \subseteq Modules
      /\ imports \in [Modules -> SUBSET Modules]
  BY TopOfStack, ImportsType DEF Merge
<1>2. /\ result' = result \cup merged
      /\ members' = [members EXCEPT ![Current] = merged]
      /\ stack' = Below /\ UNCHANGED <<imports, target>>
  BY DEF Merge
<1>3. \A i \in imports[Current] :
         Known(i) /\ members[i] = Reach(i) /\ \A n \in members[i] : Known(n)
  BY <1>1, ImportsKnown DEF MemoInv
<1>4. merged = Reach(Current)
  BY <1>1, <1>3, ReachUnfolds
<1>5. merged \subseteq Modules /\ merged # None
  <2>1. merged \subseteq Modules
    BY <1>4 DEF Reach
  <2> QED
    BY <2>1, ClosureAssumption
<1>6. \A n \in merged : n = Current \/ Known(n)
  BY <1>3
<1> HIDE DEF merged
<1>7. ClosureTypeOK'
  BY <1>1, <1>2, <1>5, TopOfStack DEF ClosureTypeOK
<1>8. \A m \in Modules : members'[m] = IF m = Current THEN merged ELSE members[m]
  BY <1>1, <1>2 DEF ClosureTypeOK
<1>9. MemoInv'
  <2>1. \A m \in Modules : Reach(m)' = Reach(m)
    BY <1>2 DEF Reach, Closed
  <2>2. \A n \in Modules : Known(n) => members'[n] # None
    BY <1>5, <1>8 DEF Known
  <2>3. \A n \in result' : n \in Modules /\ members'[n] # None
    BY <1>1, <1>2, <1>5, <1>6, <1>8, <2>2 DEF MemoInv, ClosureTypeOK
  <2>4. ASSUME NEW m \in Modules, members'[m] # None
        PROVE  members'[m] = Reach(m) /\ \A n \in members'[m] : members'[n] # None
    <3>1. CASE m = Current
      BY <3>1, <1>2, <1>4, <1>8, <2>3
    <3>2. CASE m # Current
      <4>1. members[m] = Reach(m) /\ \A n \in members[m] : Known(n)
        BY <3>2, <2>4, <1>8 DEF MemoInv, Known
      <4> QED
        BY <4>1, <3>2, <1>8, <2>2 DEF Reach
    <3> QED
      BY <3>1, <3>2
  <2> QED
    BY <2>1, <2>3, <2>4 DEF MemoInv, Known
<1>10. StackInv'
  <2>1. \A m \in Modules : Known(m) => members'[m] # None
    BY <1>5, <1>8 DEF Known
  <2>2. members'[Current] # None
    BY <1>1, <1>5, <1>8
  <2>3. members' \in [Modules -> (SUBSET Modules) \cup {None}]
    BY <1>7 DEF ClosureTypeOK
  <2> QED
    BY <1>1, <1>2, <2>1, <2>2, <2>3, PopKeepsStackInv
<1> QED
  BY <1>7, <1>9, <1>10

LEMMA PushKeepsInv ==
    ASSUME Inv, Push
    PROVE  Inv'
<1> USE DEF Inv
<1> DEFINE n == Len(stack)
           c == Current
<1>1. PICK s \in Orders : stack' = Append(Below, <<Current, TRUE>>) \o s
  BY DEF Push
<1>2. /\ n \in Nat \ {0} /\ c \in Modules /\ c = stack[n][1]
      /\ Below \in Seq(Modules \X BOOLEAN) /\ Len(Below) = n - 1
      /\ \A k \in 1 .. n - 1 : Below[k] = stack[k]
      /\ imports[c] \subseteq Modules
  BY TopOfStack, ImportsType DEF Push, Current
<1>3. /\ Unknown \subseteq Modules
      /\ Cardinality(Unknown) \in Nat
  <2>1. Unknown \subseteq Modules
    BY <1>2 DEF Unknown
  <2> QED
    BY <2>1, ClosureAssumption, FS_Subset, FS_CardinalityType
<1>4. /\ s \in Seq(Modules \X BOOLEAN) /\ Len(s) = Cardinality(Unknown)
      /\ \A i \in Unknown : \E k \in 1 .. Len(s) : s[k] = <<i, FALSE>>
      /\ \A k \in 1 .. Len(s) : s[k][2] = FALSE
  <2>1. s \in [1 .. Cardinality(Unknown) -> Unknown \X {FALSE}]
    BY DEF Orders
  <2>2. s \in Seq(Modules \X BOOLEAN) /\ Len(s) = Cardinality(Unknown)
    <3> DEFINE N == Cardinality(Unknown)
    <3>1. N \in Nat /\ s \in [1 .. N -> Modules \X BOOLEAN]
      BY <2>1, <1>3
    <3> HIDE DEF N
    <3>2. s \in Seq(Modules \X BOOLEAN) /\ Len(s) = N
      BY <3>1
    <3> QED
      BY <3>2 DEF N
  <2>3. \A k \in 1 .. Len(s) : s[k][2] = FALSE
    BY <2>1, <2>2
  <2>4. \A i \in Unknown : \E k \in DOMAIN s : s[k] = <<i, FALSE>>
    BY DEF Orders
  <2> QED
    BY <2>1, <2>2, <2>3, <2>4
<1>5. /\ stack' \in Seq(Modules \X BOOLEAN)
      /\ Len(stack') = n + Len(s)
      /\ \A k \in 1 .. n - 1 : stack'[k] = stack[k]
      /\ stack'[n] = <<c, TRUE>>
      /\ \A k \in 1 .. Len(s) : stack'[n + k] = s[k]
  <2> DEFINE T == Modules \X BOOLEAN
             b == Append(Below, <<c, TRUE>>)
  <2>1. stack' = b \o s
    BY <1>1
  <2>2. <<c, TRUE>> \in T /\ Below \in Seq(T) /\ s \in Seq(T)
    BY <1>2, <1>4
  <2>3. n \in Nat \ {0} /\ Len(s) \in Nat /\ n - 1 + 1 = n
    BY <1>2, <1>4
  <2> HIDE DEF n, T
  <2>4. /\ b \in Seq(T) /\ Len(b) = n
        /\ \A k \in 1 .. n - 1 : b[k] = stack[k]
        /\ b[n] = <<c, TRUE>>
    <3> DEFINE e == <<c, TRUE>>
    <3>1. /\ e \in T /\ Below \in Seq(T) /\ Len(Below) = n - 1
          /\ \A k \in 1 .. n - 1 : Below[k] = stack[k]
      BY <2>2, <1>2 DEF n
    <3> HIDE DEF e
    <3>2. /\ Append(Below, e) \in Seq(T)
          /\ Len(Append(Below, e)) = n - 1 + 1
          /\ \A k \in 1 .. n - 1 : Append(Below, e)[k] = Below[k]
          /\ Append(Below, e)[n - 1 + 1] = e
      BY <3>1, AppendProperties
    <3>3. b = Append(Below, e)
      BY DEF e
    <3> HIDE DEF b
    <3> QED
      BY <3>1, <3>2, <3>3, <2>3 DEF e
  <2> HIDE DEF b, c
  <2>5. /\ b \o s \in Seq(T)
        /\ Len(b \o s) = n + Len(s)
        /\ \A k \in 1 .. n + Len(s) : (b \o s)[k] = IF k <= n THEN b[k] ELSE s[k - n]
    BY <2>2, <2>4, ConcatProperties
  <2> DEFINE l == Len(s)
  <2> HIDE DEF l
  <2>7. \A k \in 1 .. l : (b \o s)[n + k] = s[k]
    <3> SUFFICES ASSUME NEW k \in 1 .. l
                 PROVE  (b \o s)[n + k] = s[k]
      OBVIOUS
    <3> DEFINE f == b \o s
               j == n + k
    <3>1. j \in 1 .. n + l /\ ~(j <= n) /\ j - n = k
      <4>1. n \in Nat /\ l \in Nat
        BY <2>3 DEF l
      <4> QED
        BY <4>1
    <3>2. \A i \in 1 .. n + l : f[i] = IF i <= n THEN b[i] ELSE s[i - n]
      BY <2>5 DEF l
    <3> HIDE DEF f, j
    <3>3. f[j] = s[k]
      BY <3>1, <3>2
    <3> QED
      BY <3>3 DEF f, j
  <2>8. \A k \in 1 .. n : k \in 1 .. n + l /\ k <= n
    BY <2>3 DEF l
  <2>9. \A k \in 1 .. n : (b \o s)[k] = b[k]
    BY <2>5, <2>8 DEF l
  <2>10. n \in 1 .. n /\ \A k \in 1 .. n - 1 : k \in 1 .. n
    BY <2>3
  <2> QED
    BY <2>1, <2>4, <2>5, <2>7, <2>9, <2>10 DEF l, T
<1>6. UNCHANGED <<imports, members, target, result>>
  BY DEF Push
<1>7. ClosureTypeOK'
  BY <1>5, <1>6 DEF ClosureTypeOK
<1>8. MemoInv'
  BY <1>6, MemoUnchanged DEF MemoInv
<1>9. /\ Len(s) \in Nat
      /\ \A k \in 1 .. n : k \in 1 .. n + Len(s) /\ stack'[k][1] = stack[k][1]
  <2>1. Len(s) \in Nat
    BY <1>4
  <2> DEFINE l == Len(s)
  <2> HIDE DEF l, n, c
  <2>2. stack[n][1] = c /\ n \in Nat \ {0} /\ l \in Nat
    BY <1>2, <2>1 DEF l
  <2>3. \A k \in 1 .. n : /\ k \in 1 .. n + l
                          /\ k = n \/ k \in 1 .. n - 1
    BY <2>2
  <2>4. stack'[n][1] = c
    BY <1>5
  <2> QED
    BY <2>1, <2>2, <2>3, <2>4, <1>5 DEF l
<1> DEFINE l == Len(s)
<1> HIDE DEF l, n, c
<1>10. n \in Nat \ {0} /\ l \in Nat
  BY <1>2, <1>9 DEF l
<1>11. \A k \in 1 .. n : k \in 1 .. n + l /\ stack'[k][1] = stack[k][1]
  BY <1>9 DEF l
<1>12. ASSUME NEW k \in 1 .. n + l, stack'[k][2], NEW i \in imports[stack'[k][1]]
       PROVE  Known(i) \/ \E j \in k + 1 .. n + l : stack'[j][1] = i
  <2>1. CASE k \in 1 .. n - 1
    <3>1. k \in 1 .. n /\ \A j \in k + 1 .. n : j \in 1 .. n /\ j \in k + 1 .. n + l
      BY <2>1, <1>10
    <3>2. stack[k][2] /\ i \in imports[stack[k][1]]
      BY <2>1, <3>1, <1>5, <1>11, <1>12
    <3>3. Known(i) \/ \E j \in k + 1 .. n : stack[j][1] = i
      BY <3>1, <3>2 DEF StackInv, n
    <3> QED
      BY <3>1, <3>3, <1>11
  <2>2. CASE k = n
    <3>1. i \in imports[c]
      BY <2>2, <1>5, <1>12
    <3>2. CASE i \in Unknown
      <4>1. PICK j \in 1 .. l : s[j] = <<i, FALSE>>
        BY <3>2, <1>4 DEF l
      <4>2. n + j \in k + 1 .. n + l
        BY <2>2, <1>10
      <4>3. stack'[n + j] = <<i, FALSE>>
        BY <4>1, <1>5 DEF l
      <4> QED
        BY <4>2, <4>3
    <3>3. CASE i \notin Unknown
      BY <3>1, <3>3 DEF Unknown, MemoInv, c
    <3> QED
      BY <3>2, <3>3
  <2>3. CASE k \in n + 1 .. n + l
    <3>1. k - n \in 1 .. l /\ n + (k - n) = k
      BY <2>3, <1>10
    <3>2. stack'[n + (k - n)] = s[k - n] /\ s[k - n][2] = FALSE
      BY <3>1, <1>4, <1>5 DEF l
    <3> QED
      BY <3>1, <3>2, <1>12
  <2> QED
    BY <2>1, <2>2, <2>3, <1>10
<1>13. target # None => Known(target) \/ \E j \in 1 .. n + l : stack'[j][1] = target
  <2>1. target # None => Known(target) \/ \E j \in 1 .. n : stack[j][1] = target
    BY DEF StackInv, n
  <2> QED
    BY <2>1, <1>11
<1>14. StackInv'
  <2>1. Len(stack') = n + l
    BY <1>5 DEF l
  <2> QED
    BY <2>1, <1>6, <1>12, <1>13 DEF StackInv, Known
<1> QED
  BY <1>7, <1>8, <1>14

LEMMA ReturnKeepsInv ==
    ASSUME Inv, Return
    PROVE  Inv'
<1>1. ClosureTypeOK' /\ StackInv'
  BY DEF Inv, Return, ClosureTypeOK, StackInv, Known
<1>2. MemoInv'
  BY MemoUnchanged DEF Inv, Return, MemoInv
<1> QED
  BY <1>1, <1>2 DEF Inv

LEMMA NextKeepsInv ==
    ASSUME Inv, [ClosureNext]_closureVars
    PROVE  Inv'
<1>1. CASE UNCHANGED closureVars
  BY <1>1 DEF closureVars, Inv, ClosureTypeOK, MemoInv, StackInv, Known, Reach, Closed
<1>2. CASE ClosureNext
  BY <1>2, ResolveKeepsInv, SkipKeepsInv, MergeKeepsInv, PushKeepsInv, ReturnKeepsInv
     DEF ClosureNext, Search
<1> QED
  BY <1>1, <1>2

LEMMA InvImpliesExact == Inv => ClosuresAreExact
BY DEF Inv, MemoInv, StackInv, ClosuresAreExact, Closure, ClosureTypeOK

\* ClosureTypeOK, MemoInv and StackInv hold in every state of the resolver.
THEOREM ResolverInvariant == ClosureSpec => []Inv
<1> QED
  BY InitInv, NextKeepsInv, PTL DEF ClosureSpec

\* Whatever was resolved before, in whatever order headers list their imports,
\* closure_members returns all modules that are reachable and no others, and
\* so does every closure it leaves in the memo (closure_members).
THEOREM ResolverIsExact == ClosureSpec => []ClosuresAreExact
<1> QED
  BY ResolverInvariant, InvImpliesExact, PTL

-----------------------------------------------------------------------------
(* The plan *)

planAll == <<closureVars, planVars>>

\* The pairs that steps handle are candidates.
PairInv ==
    /\ candidates \subseteq Candidate /\ None \notin candidates
    /\ waiting \subseteq candidates /\ overlooked \subseteq candidates
    /\ Taken \subseteq candidates
    /\ keying # None => keying \in candidates

LEMMA PairInvInit == PlanInit => PairInv
BY WorkloadAssumption DEF PlanInit, PairInv, Taken, Asked

LEMMA PairInvNext ==
    ASSUME PairInv, [PlanNext]_planAll
    PROVE  PairInv'
<1> USE DEF PairInv, Taken, Asked
<1>1. CASE UNCHANGED planAll
  BY <1>1 DEF planAll, planVars
<1>2. CASE Collect
  BY <1>2 DEF Collect
<1>3. ASSUME NEW c \in waiting, Overlook(c)
      PROVE  PairInv'
  BY <1>3 DEF Overlook
<1>4. ASSUME NEW c \in waiting, TakeUnavailable(c)
      PROVE  PairInv'
  BY <1>4 DEF TakeUnavailable
<1>5. ASSUME NEW c \in waiting, TakeAskable(c)
      PROVE  PairInv'
  BY <1>5 DEF TakeAskable
<1>6. CASE Digest \/ Visit
  BY <1>6 DEF Digest, Visit, planVars
<1>7. CASE Digested
  BY <1>7 DEF Digested
<1>8. CASE PlanProbe
  BY <1>8 DEF PlanProbe
<1>9. CASE Finish
  BY <1>9 DEF Finish
<1> QED
  BY <1>1, <1>2, <1>3, <1>4, <1>5, <1>6, <1>7, <1>8, <1>9 DEF PlanNext, Select

\* Every step of the planner is one of the resolver or leaves it alone.
LEMMA StepOfResolver ==
    ASSUME PairInv, [PlanNext]_planAll
    PROVE  [ClosureNext]_closureVars
<1>1. CASE Digest
  <2>1. keying \in Candidate
    BY <1>1 DEF Digest, PairInv
  <2>2. keying.left \in Modules /\ keying.right \in Modules
    BY <2>1 DEF Candidate
  <2> QED
    BY <1>1, <2>2 DEF Digest, ClosureNext
<1>2. CASE Visit \/ Digested
  BY <1>2 DEF Visit, Digested, ClosureNext
<1>3. CASE Collect \/ Select \/ PlanProbe \/ Finish \/ UNCHANGED planAll
  BY <1>3 DEF Collect, Select, Overlook, TakeUnavailable, TakeAskable, PlanProbe,
              Finish, planAll
<1> QED
  BY <1>1, <1>2, <1>3 DEF PlanNext

\* The planner drives the resolver only through its interface: a plan is a
\* behaviour of the resolver (plan_probes and closure_members).
THEOREM PlanUsesResolver == PlanSpec => ClosureSpec
<1>1. PlanInit => ClosureInit
  BY DEF PlanInit
<1>2. PlanSpec => []PairInv
  BY PairInvInit, PairInvNext, PTL DEF PlanSpec, planAll
<1> QED
  BY <1>1, <1>2, StepOfResolver, PTL DEF PlanSpec, ClosureSpec, planAll

-----------------------------------------------------------------------------
\* The key in the making and the closure that is asked for belong to one pair.
KeyInv ==
    /\ \/ key = <<>>
       \/ key = <<Reach(keying.left)>>
       \/ key = <<Reach(keying.left), Reach(keying.right)>>
    /\ keying = None => key = <<>> /\ target = None
    /\ target # None =>
         \/ key = <<>> /\ target = keying.left
         \/ key = <<Reach(keying.left)>> /\ target = keying.right
    /\ KeysCoverClosures

LEMMA AppendToOne ==
    ASSUME NEW x, NEW y
    PROVE  Append(<<>>, x) = <<x>> /\ Append(<<x>>, y) = <<x, y>>
<1> DEFINE S == {x, y}
<1>1. /\ <<x>> \in Seq(S) /\ <<x, y>> \in Seq(S) /\ y \in S
      /\ Len(<<x>>) = 1 /\ Len(<<x, y>>) = 2
  OBVIOUS
<1>2. /\ Append(<<x>>, y) \in Seq(S) /\ Len(Append(<<x>>, y)) = 2
      /\ Append(<<x>>, y)[1] = x /\ Append(<<x>>, y)[2] = y
  BY <1>1, AppendProperties
<1>3. \A i \in 1 .. 2 : Append(<<x>>, y)[i] = <<x, y>>[i]
  BY <1>2
<1>4. Append(<<>>, x) = <<x>>
  OBVIOUS
<1> QED
  BY <1>1, <1>2, <1>3, <1>4, SeqEqual

LEMMA KeyInvInit == PlanInit => KeyInv
BY DEF PlanInit, ClosureInit, KeyInv, KeysCoverClosures

LEMMA KeyInvNext ==
    ASSUME KeyInv, ClosuresAreExact, [PlanNext]_planAll
    PROVE  KeyInv'
<1> USE DEF KeyInv, KeysCoverClosures, Reach, Closed
<1>1. CASE UNCHANGED planAll
  BY <1>1 DEF planAll, planVars, closureVars
<1>2. CASE Collect \/ Finish
  BY <1>2 DEF Collect, Finish, closureVars
<1>3. ASSUME NEW c \in waiting, Overlook(c) \/ TakeUnavailable(c)
      PROVE  KeyInv'
  BY <1>3 DEF Overlook, TakeUnavailable, closureVars
<1>4. ASSUME NEW c \in waiting, TakeAskable(c)
      PROVE  KeyInv'
  BY <1>4 DEF TakeAskable, Turn, closureVars
<1>5. CASE Digest
  <2>1. /\ UNCHANGED imports /\ UNCHANGED planVars
        /\ target' = IF key = <<>> THEN keying.left ELSE keying.right
        /\ keying # None /\ Len(key) < 2
    BY <1>5 DEF Digest, Resolve
  <2>2. key # <<Reach(keying.left), Reach(keying.right)>>
    BY <2>1
  <2> QED
    BY <2>1, <2>2 DEF planVars
<1>6. CASE Visit
  BY <1>6 DEF Visit, Search, Skip, Merge, Push, planVars
<1>7. CASE Digested
  <2>1. /\ UNCHANGED <<imports, keying, planned>>
        /\ target # None /\ target' = None /\ stack = <<>>
        /\ key' = Append(key, Closure)
    BY <1>7 DEF Digested, Return
  <2>2. Closure = Reach(target)
    BY <2>1 DEF ClosuresAreExact
  <2>3. \/ key = <<>> /\ key' = <<Reach(keying.left)>>
        \/ /\ key = <<Reach(keying.left)>>
           /\ key' = <<Reach(keying.left), Reach(keying.right)>>
    <3>1. \/ key = <<>> /\ key' = Append(key, Reach(keying.left))
          \/ /\ key = <<Reach(keying.left)>>
             /\ key' = Append(key, Reach(keying.right))
      BY <2>1, <2>2
    <3> DEFINE x == Reach(keying.left)
               y == Reach(keying.right)
    <3> HIDE DEF x, y
    <3>2. Append(<<>>, x) = <<x>> /\ Append(<<x>>, y) = <<x, y>>
      BY AppendToOne
    <3> QED
      BY <3>1, <3>2 DEF x, y
  <2> QED
    BY <2>1, <2>3
<1>8. CASE PlanProbe
  <2>1. /\ UNCHANGED <<imports, target>> /\ Len(key) = 2
        /\ planned' = planned \cup {<<keying, key>>}
        /\ keying' = None /\ key' = <<>>
    BY <1>8 DEF PlanProbe, closureVars
  <2>2. key = <<Reach(keying.left), Reach(keying.right)>> /\ target = None
    <3> HIDE DEF Reach
    <3> QED
      BY <2>1
  <2> QED
    BY <2>1, <2>2
<1> QED
  BY <1>1, <1>2, <1>3, <1>4, <1>5, <1>6, <1>7, <1>8 DEF PlanNext, Select

\* Each key holds the whole closures of the two modules of its pair, however
\* many pairs have used the resolver before and whatever the headers say
\* (probe_cache_key).
THEOREM KeysAreCovering == PlanSpec => []KeysCoverClosures
<1>1. PlanSpec => []ClosuresAreExact
  BY PlanUsesResolver, ResolverIsExact, PTL
<1>2. KeyInv => KeysCoverClosures
  BY DEF KeyInv
<1> QED
  BY <1>1, <1>2, KeyInvInit, KeyInvNext, PTL DEF PlanSpec, planAll

-----------------------------------------------------------------------------
(* The order of the selection *)

\* What probe_obligation accepts, or cannot be asked about.
Suited(c) == c \in Candidate /\ (Askable(c) => Obligation(c) # {})

LEMMA PlaceType ==
    ASSUME NEW s, NEW x, NEW i \in DOMAIN s, s[i] = x, DOMAIN s \subseteq Nat
    PROVE  Place(x, s) \in Nat
BY DEF Place

LEMMA ClassType ==
    ASSUME NEW c, Suited(c)
    PROVE  MatchClass(c) \in {"ExactTheorem", "PermutedTheorem", "Replacement",
                              "ReducibleDefinition", "Specialization",
                              "LocalDuplicate"}
<1> DEFINE Os == {"ExactTheorem", "PermutedTheorem", "Replacement",
                  "ReducibleDefinition", "Specialization", "LocalDuplicate"}
<1>1. TheoremObligation(c) \subseteq Os
  BY DEF TheoremObligation
<1>2. Obligation(c) \subseteq Os
  BY <1>1 DEF Obligation
<1>3. CASE Askable(c)
  <2>1. Obligation(c) # {}
    BY <1>3 DEF Suited
  <2>2. (CHOOSE o \in Obligation(c) : TRUE) \in Obligation(c)
    BY <2>1
  <2> QED
    BY <1>2, <1>3, <2>2 DEF MatchClass
<1>4. CASE ~Askable(c)
  BY <1>4 DEF MatchClass
<1> QED
  BY <1>3, <1>4

LEMMA RankType ==
    ASSUME NEW c, Suited(c)
    PROVE  \A i \in 1 .. 5 : Rank(c)[i] \in Nat
<1>1. Place(MatchClass(c), Obligations) \in Nat
  <2>1. DOMAIN Obligations \subseteq Nat
    BY DEF Obligations
  <2>2. \E i \in DOMAIN Obligations : Obligations[i] = MatchClass(c)
    BY ClassType DEF Obligations
  <2> QED
    BY <2>1, <2>2, PlaceType
<1>2. Place(Risk(c), Risks) \in Nat
  <2>1. DOMAIN Risks \subseteq Nat
    BY DEF Risks
  <2>2. \E i \in DOMAIN Risks : Risks[i] = Risk(c)
    BY DEF Risks, Risk
  <2> QED
    BY <2>1, <2>2, PlaceType
<1>3. c.family \in Nat /\ c.merit \in Nat /\ c.id \in Nat
  BY DEF Suited, Candidate
<1> QED
  BY <1>1, <1>2, <1>3 DEF Rank

\* The comparison never holds both ways.
LEMMA BeforeAsymmetric ==
    ASSUME NEW c, NEW d, Suited(c), Suited(d), Before(c, d)
    PROVE  ~Before(d, c)
<1> SUFFICES ASSUME Before(d, c)
             PROVE  FALSE
  OBVIOUS
<1>1. PICK i \in 1 .. 5 : /\ Rank(c)[i] < Rank(d)[i]
                          /\ \A k \in 1 .. i - 1 : Rank(c)[k] = Rank(d)[k]
  BY DEF Before
<1>2. PICK j \in 1 .. 5 : /\ Rank(d)[j] < Rank(c)[j]
                          /\ \A k \in 1 .. j - 1 : Rank(d)[k] = Rank(c)[k]
  BY DEF Before
<1>3. /\ Rank(c)[i] \in Nat /\ Rank(d)[i] \in Nat
      /\ Rank(c)[j] \in Nat /\ Rank(d)[j] \in Nat
  BY RankType
<1>4. CASE i < j
  <2>1. i \in 1 .. j - 1
    BY <1>4
  <2> QED
    BY <1>1, <1>2, <1>3, <2>1
<1>5. CASE j < i
  <2>1. j \in 1 .. i - 1
    BY <1>5
  <2> QED
    BY <1>1, <1>2, <1>3, <2>1
<1>6. CASE i = j
  BY <1>1, <1>2, <1>3, <1>6
<1> QED
  BY <1>4, <1>5, <1>6

\* Settings are those of the audit: neither the order nor what a pair may cost
\* changes on the way.
LEMMA ClassFixed ==
    ASSUME settings' = settings, NEW c
    PROVE  MatchClass(c)' = MatchClass(c) /\ Risk(c)' = Risk(c)
<1>1. Obligation(c)' = Obligation(c)
  BY DEF Obligation
<1>2. MatchClass(c)' = MatchClass(c)
  BY <1>1 DEF MatchClass
<1> QED
  BY <1>2 DEF Risk

LEMMA BeforeFixed ==
    ASSUME settings' = settings, NEW c, NEW d
    PROVE  Before(c, d)' <=> Before(c, d)
<1>1. Rank(c)' = Rank(c) /\ Rank(d)' = Rank(d)
  BY ClassFixed DEF Rank
<1> QED
  BY <1>1 DEF Before

LEMMA AffordableFixed ==
    ASSUME settings' = settings, NEW c, NEW S
    PROVE  Affordable(c, S)' <=> Affordable(c, S)
<1>1. /\ ClassQuota(c)' = ClassQuota(c) /\ KindQuota(c)' = KindQuota(c)
      /\ RiskQuota(c)' = RiskQuota(c)
  <2>1. Share(30)' = Share(30) /\ Share(10)' = Share(10)
    BY DEF Share
  <2> QED
    BY <2>1, ClassFixed DEF ClassQuota, KindQuota, RiskQuota
<1>2. /\ {d \in S : MatchClass(d) = MatchClass(c)}' = {d \in S : MatchClass(d) = MatchClass(c)}
      /\ {d \in S : Risk(d) = Risk(c)}' = {d \in S : Risk(d) = Risk(c)}
  BY ClassFixed
<1>3. QuotaAllows(c, S)' <=> QuotaAllows(c, S)
  BY <1>1, <1>2 DEF QuotaAllows, Quantify
<1> QED
  BY <1>3 DEF Affordable, Quantify

-----------------------------------------------------------------------------
\* The pairs that were taken and that the sort puts before c.
Better(c, S) == S = {d \in Taken : Before(d, c)}

\* While the selection runs every pair dealt with comes before those waiting,
\* so what was taken when its turn came are the better ones that are taken.
Working == waiting \cup ({keying} \ {None})

OrderInv ==
    /\ \A c \in waiting \cup overlooked \cup Taken : Suited(c)
    /\ keying # None => Suited(keying)
    /\ \A c \in overlooked \cup Taken : \A d \in Working : Before(c, d)
    /\ keying # None => \A d \in waiting : Before(keying, d)
    /\ keying # None => \A S : S = Taken => Affordable(keying, S)
    /\ \A c \in Taken : \A S : Better(c, S) => Affordable(c, S)
    /\ \A c \in overlooked : \A S : Better(c, S) => ~Affordable(c, S)

\* Where the candidates are.
HeapInv ==
    /\ phase = "collect" => waiting \cup overlooked \cup Taken = {} /\ keying = None
    /\ phase # "collect" => candidates \ unsuited \subseteq Working \cup overlooked \cup Taken
    /\ phase = "done" => Working = {}

LEMMA OrderInvInit == PlanInit => OrderInv /\ HeapInv
BY DEF PlanInit, OrderInv, HeapInv, Working, Taken, Asked

\* The pair whose key is complete joins those that are taken.
LEMMA PlanProbeTakes == PlanProbe => Taken' = Taken \cup {keying}
<1>1. \A x, y : <<x, y>>[1] = x
  OBVIOUS
<1> QED
  BY <1>1 DEF PlanProbe, Taken, Asked

LEMMA HeapInvNext ==
    ASSUME PairInv, HeapInv, [PlanNext]_planAll
    PROVE  HeapInv'
<1> USE DEF HeapInv, Working, Taken, Asked
<1>1. CASE UNCHANGED planAll
  BY <1>1 DEF planAll, planVars
<1>2. CASE Collect
  BY <1>2 DEF Collect
<1>3. ASSUME NEW c \in waiting, Overlook(c)
      PROVE  HeapInv'
  BY <1>3 DEF Overlook, Turn
<1>4. ASSUME NEW c \in waiting, TakeUnavailable(c)
      PROVE  HeapInv'
  BY <1>4 DEF TakeUnavailable, Turn
<1>5. ASSUME NEW c \in waiting, TakeAskable(c)
      PROVE  HeapInv'
  <2>1. /\ phase = "select" /\ keying = None /\ c # None
        /\ waiting' = waiting \ {c} /\ keying' = c
        /\ UNCHANGED <<candidates, phase, unsuited, overlooked, preflight, planned>>
    BY <1>5 DEF TakeAskable, Turn, PairInv
  <2>2. Taken' = Taken
    BY <2>1
  <2>3. Working' = Working
    BY <2>1
  <2> HIDE DEF Taken, Working
  <2> QED
    BY <2>1, <2>2, <2>3
<1>6. CASE Digest \/ Visit
  BY <1>6 DEF Digest, Visit, planVars
<1>7. CASE Digested
  BY <1>7 DEF Digested
<1>8. CASE PlanProbe
  <2>1. /\ keying # None /\ keying' = None
        /\ UNCHANGED <<candidates, phase, unsuited, waiting, overlooked, preflight>>
    BY <1>8 DEF PlanProbe
  <2>2. Taken' = Taken \cup {keying}
    BY <1>8, PlanProbeTakes
  <2>3. keying \in Working /\ Working \subseteq Working' \cup {keying}
    BY <2>1
  <2> HIDE DEF Taken, Working
  <2> QED
    BY <2>1, <2>2, <2>3
<1>9. CASE Finish
  BY <1>9 DEF Finish
<1> QED
  BY <1>1, <1>2, <1>3, <1>4, <1>5, <1>6, <1>7, <1>8, <1>9 DEF PlanNext, Select

LEMMA SuitedFixed ==
    ASSUME settings' = settings, NEW c
    PROVE  Suited(c)' <=> Suited(c)
<1>1. Obligation(c)' = Obligation(c)
  BY DEF Obligation
<1> QED
  BY <1>1 DEF Suited

LEMMA WorkingIsSuited ==
    ASSUME OrderInv, NEW c \in Working
    PROVE  Suited(c)
BY DEF OrderInv, Working

\* A pair whose turn it is does not come before those dealt with.
LEMMA BetterStays ==
    ASSUME OrderInv, settings' = settings, NEW c \in Working,
           Taken' = Taken \/ Taken' = Taken \cup {c},
           NEW x \in overlooked \cup Taken, NEW S
    PROVE  Better(x, S)' <=> Better(x, S)
<1>1. ~Before(c, x)
  BY WorkingIsSuited, BeforeAsymmetric DEF OrderInv
<1>2. \A d : Before(d, x)' <=> Before(d, x)
  BY BeforeFixed
<1>3. {d \in Taken' : Before(d, x)'} = {d \in Taken : Before(d, x)}
  BY <1>1, <1>2
<1>4. Better(x, S)' <=> S = {d \in Taken' : Before(d, x)'}
  BY DEF Better
<1> QED
  BY <1>3, <1>4 DEF Better

\* All that was taken before its turn is better.
LEMMA BetterIsTaken ==
    ASSUME OrderInv, settings' = settings, NEW c \in Working,
           Taken' = Taken \/ Taken' = Taken \cup {c},
           NEW S, Better(c, S)'
    PROVE  S = Taken
<1>1. ~Before(c, c)
  BY WorkingIsSuited, BeforeAsymmetric
<1>2. \A d : Before(d, c)' <=> Before(d, c)
  BY BeforeFixed
<1>3. \A d \in Taken : Before(d, c)
  BY DEF OrderInv
<1>4. {d \in Taken' : Before(d, c)'} = Taken
  BY <1>1, <1>2, <1>3
<1> QED
  BY <1>4 DEF Better

\* What is kept of OrderInv by any step that moves at most one pair, c, from
\* those at work to those dealt with.
LEMMA PairsDealtWith ==
    ASSUME OrderInv, settings' = settings, NEW c \in Working,
           Taken' = Taken \/ Taken' = Taken \cup {c},
           NEW x \in overlooked \cup Taken
    PROVE  /\ x \in Taken => \A S : Better(x, S)' => Affordable(x, S)'
           /\ x \in overlooked => \A S : Better(x, S)' => ~Affordable(x, S)'
<1> SUFFICES ASSUME NEW S, Better(x, S)'
             PROVE  /\ x \in Taken => Affordable(x, S)'
                    /\ x \in overlooked => ~Affordable(x, S)'
  OBVIOUS
<1>1. Better(x, S)
  BY BetterStays
<1> QED
  BY <1>1, AffordableFixed DEF OrderInv

\* Nothing changes but what the resolver, the key or the phase keep.
LEMMA OrderUntouched ==
    ASSUME OrderInv,
           UNCHANGED <<settings, waiting, overlooked, preflight, keying, planned>>
    PROVE  OrderInv'
<1>1. UNCHANGED <<Taken, Working>>
  BY DEF Taken, Asked, Working
<1>2. /\ \A c : Suited(c)' <=> Suited(c)
      /\ \A c, d : Before(c, d)' <=> Before(c, d)
      /\ \A c, S : Affordable(c, S)' <=> Affordable(c, S)
  BY SuitedFixed, BeforeFixed, AffordableFixed
<1>3. \A c, S : Better(c, S)' <=> Better(c, S)
  <2> SUFFICES ASSUME NEW c, NEW S
               PROVE  Better(c, S)' <=> Better(c, S)
    OBVIOUS
  <2>1. {d \in Taken' : Before(d, c)'} = {d \in Taken : Before(d, c)}
    BY <1>1, <1>2
  <2>2. Better(c, S)' <=> S = {d \in Taken' : Before(d, c)'}
    BY DEF Better
  <2> QED
    BY <2>1, <2>2 DEF Better
<1>4. PICK k : k = keying
  OBVIOUS
<1>5. keying' = k
  BY <1>4
<1>6. Suited(keying)' <=> Suited(k)
  BY <1>2, <1>5 DEF Suited, Obligation
<1> QED
  BY <1>1, <1>2, <1>3, <1>4, <1>5 DEF OrderInv

LEMMA OrderCollect ==
    ASSUME PairInv, HeapInv, OrderInv, Collect
    PROVE  OrderInv'
<1>1. /\ settings' = settings /\ keying' = None
      /\ overlooked' = {} /\ Taken' = {}
      /\ waiting' = {c \in candidates : Eligible(c) /\ (Askable(c) => Obligation(c) # {})}
  BY DEF Collect, HeapInv, Taken, Asked
<1>2. \A c \in waiting' : Suited(c)
  BY <1>1 DEF PairInv, Suited
<1> QED
  BY <1>1, <1>2, SuitedFixed DEF OrderInv

LEMMA OrderOverlook ==
    ASSUME OrderInv, NEW c \in waiting, Overlook(c)
    PROVE  OrderInv'
<1>1. /\ settings' = settings /\ keying = None /\ keying' = None
      /\ waiting' = waiting \ {c} /\ overlooked' = overlooked \cup {c}
      /\ Taken' = Taken /\ ~Affordable(c, Taken)
      /\ \A d \in waiting \ {c} : Before(c, d)
  BY DEF Overlook, Turn, Taken, Asked
<1>2. c \in Working /\ Suited(c) /\ Working' = Working \ {c} /\ Working = waiting
  BY <1>1, WorkingIsSuited DEF OrderInv, Working
<1>3. \A x \in overlooked' \cup Taken' : \A d \in Working' : Before(x, d)'
  BY <1>1, <1>2, BeforeFixed DEF OrderInv
<1>4. \A x \in overlooked \cup Taken :
         /\ x \in Taken => \A S : Better(x, S)' => Affordable(x, S)'
         /\ x \in overlooked => \A S : Better(x, S)' => ~Affordable(x, S)'
  BY <1>1, <1>2, PairsDealtWith
<1>5. \A S : Better(c, S)' => ~Affordable(c, S)'
  <2> SUFFICES ASSUME NEW S, Better(c, S)'
               PROVE  ~Affordable(c, S)'
    OBVIOUS
  <2>1. S = Taken
    BY <1>1, <1>2, BetterIsTaken
  <2>2. ~Affordable(c, S)
    BY <1>1, <2>1
  <2> QED
    BY <1>1, <2>2, AffordableFixed
<1>6. \A x \in waiting' \cup overlooked' \cup Taken' : Suited(x)'
  BY <1>1, SuitedFixed DEF OrderInv
<1> QED
  BY <1>1, <1>3, <1>4, <1>5, <1>6 DEF OrderInv

\* A pair at work is taken: at once, or when its key is complete.
LEMMA OrderTaken ==
    ASSUME OrderInv, NEW c \in Working, settings' = settings, keying' = None,
           Working' = Working \ {c}, waiting' = Working',
           overlooked' = overlooked, Taken' = Taken \cup {c},
           \A d \in Working \ {c} : Before(c, d), Affordable(c, Taken)
    PROVE  OrderInv'
<1>1. Suited(c)
  BY WorkingIsSuited
<1>2. \A x \in overlooked' \cup Taken' : \A d \in Working' : Before(x, d)'
  BY BeforeFixed DEF OrderInv
<1>3. \A x \in overlooked \cup Taken :
         /\ x \in Taken => \A S : Better(x, S)' => Affordable(x, S)'
         /\ x \in overlooked => \A S : Better(x, S)' => ~Affordable(x, S)'
  BY PairsDealtWith
<1>4. \A S : Better(c, S)' => Affordable(c, S)'
  <2> SUFFICES ASSUME NEW S, Better(c, S)'
               PROVE  Affordable(c, S)'
    OBVIOUS
  <2>1. S = Taken
    BY BetterIsTaken
  <2>2. Affordable(c, S)
    BY <2>1
  <2> QED
    BY <2>2, AffordableFixed
<1>5. \A x \in waiting' \cup overlooked' \cup Taken' : Suited(x)'
  BY <1>1, WorkingIsSuited, SuitedFixed DEF OrderInv
<1> QED
  BY <1>2, <1>3, <1>4, <1>5 DEF OrderInv

LEMMA OrderTakeAskable ==
    ASSUME PairInv, OrderInv, NEW c \in waiting, TakeAskable(c)
    PROVE  OrderInv'
<1>1. /\ settings' = settings /\ keying = None /\ keying' = c /\ c # None
      /\ waiting' = waiting \ {c} /\ overlooked' = overlooked
      /\ Taken' = Taken /\ Affordable(c, Taken)
      /\ \A d \in waiting \ {c} : Before(c, d)
  BY DEF TakeAskable, Turn, Taken, Asked, PairInv
<1>2. c \in Working /\ Suited(c) /\ Working' = Working
  BY <1>1, WorkingIsSuited DEF Working
<1>3. \A x \in overlooked' \cup Taken' : \A d \in Working' : Before(x, d)'
  BY <1>1, <1>2, BeforeFixed DEF OrderInv
<1>4. \A x \in overlooked \cup Taken :
         /\ x \in Taken => \A S : Better(x, S)' => Affordable(x, S)'
         /\ x \in overlooked => \A S : Better(x, S)' => ~Affordable(x, S)'
  BY <1>1, <1>2, PairsDealtWith
<1>5. \A x \in waiting' \cup overlooked' \cup Taken' : Suited(x)'
  BY <1>1, SuitedFixed DEF OrderInv
<1>6. Suited(keying)'
  BY <1>1, <1>2 DEF Suited, Obligation
<1>7. \A S : S = Taken' => Affordable(keying, S)'
  <2> SUFFICES ASSUME NEW S, S = Taken'
               PROVE  Affordable(keying, S)'
    OBVIOUS
  <2>1. Affordable(c, S)'
    BY <1>1, AffordableFixed
  <2> QED
    BY <1>1, <2>1
<1>8. \A d \in waiting' : Before(keying, d)'
  <2> SUFFICES ASSUME NEW d \in waiting'
               PROVE  Before(keying, d)'
    OBVIOUS
  <2>1. Before(c, d)'
    BY <1>1, BeforeFixed
  <2> QED
    BY <1>1, <2>1
<1> QED
  BY <1>1, <1>3, <1>4, <1>5, <1>6, <1>7, <1>8 DEF OrderInv

LEMMA OrderInvNext ==
    ASSUME PairInv, HeapInv, OrderInv, [PlanNext]_planAll
    PROVE  OrderInv'
<1>1. CASE UNCHANGED planAll \/ Digest \/ Visit \/ Digested \/ Finish
  BY <1>1, OrderUntouched DEF planAll, planVars, Digest, Visit, Digested, Finish
<1>2. ASSUME NEW c \in waiting, TakeUnavailable(c)
      PROVE  OrderInv'
  <2>1. /\ settings' = settings /\ keying = None /\ keying' = None
        /\ waiting' = waiting \ {c} /\ overlooked' = overlooked
        /\ Taken' = Taken \cup {c} /\ Affordable(c, Taken)
        /\ \A d \in waiting \ {c} : Before(c, d)
    BY <1>2 DEF TakeUnavailable, Turn, Taken, Asked
  <2>2. c \in Working /\ Working = waiting /\ Working' = waiting'
    BY <2>1 DEF Working
  <2> QED
    BY <2>1, <2>2, OrderTaken
<1>3. CASE PlanProbe
  <2>1. PICK c : c = keying
    OBVIOUS
  <2>2. /\ settings' = settings /\ c # None /\ keying' = None
        /\ waiting' = waiting /\ overlooked' = overlooked
    BY <1>3, <2>1 DEF PlanProbe
  <2>3. Taken' = Taken \cup {c}
    BY <1>3, <2>1, PlanProbeTakes
  <2>4. Affordable(c, Taken)
    BY <2>1, <2>2 DEF OrderInv
  <2>5. c \notin waiting
    <3>1. Suited(c) /\ \A d \in waiting : Before(c, d)
      BY <2>1, <2>2 DEF OrderInv
    <3> QED
      BY <3>1, BeforeAsymmetric
  <2>6. /\ c \in Working /\ Working' = Working \ {c} /\ waiting' = Working'
        /\ Working \ {c} = waiting
    BY <2>1, <2>2, <2>5 DEF Working
  <2>7. \A d \in Working \ {c} : Before(c, d)
    BY <2>1, <2>2, <2>6 DEF OrderInv
  <2> QED
    BY <2>2, <2>3, <2>4, <2>6, <2>7, OrderTaken
<1> QED
  BY <1>1, <1>2, <1>3, OrderCollect, OrderOverlook, OrderTakeAskable
     DEF PlanNext, Select

\* Whatever candidates and settings, exactly those pairs are taken for which
\* the better pairs that are taken leave room: the loop over the sorted list
\* neither skips nor prefers one (plan_probes).
THEOREM SelectionIsBestFirst == PlanSpec => []BestFirst
<1>1. PairInv /\ HeapInv /\ OrderInv => BestFirst
  <2> SUFFICES ASSUME HeapInv, OrderInv, phase = "done", NEW c \in candidates \ unsuited
               PROVE  c \in Taken <=> Affordable(c, {d \in Taken : Before(d, c)})
    BY DEF BestFirst
  <2>1. c \in overlooked \cup Taken
    BY DEF HeapInv
  <2>2. Better(c, {d \in Taken : Before(d, c)})
    BY DEF Better
  <2> QED
    BY <2>1, <2>2 DEF OrderInv
<1> QED
  BY <1>1, PairInvInit, PairInvNext, OrderInvInit, HeapInvNext, OrderInvNext, PTL
     DEF PlanSpec, planAll

-----------------------------------------------------------------------------
(* Pairs that Lean cannot be asked about *)

LEMMA ShareType ==
    ASSUME settings \in Settings
    PROVE  Share(30) \in Nat /\ Share(10) \in Nat
<1>1. /\ settings.budget \in Nat
      /\ (settings.budget * 30 + 99) \div 100 \in Nat
      /\ (settings.budget * 10 + 99) \div 100 \in Nat
  BY DEF Settings
<1>2. ASSUME NEW a \in Nat, NEW b \in Nat
      PROVE  Max({a, b}) \in Nat /\ Min({a, b}) \in Nat
  <2>1. (\E x \in {a, b} : \A y \in {a, b} : x >= y) => Max({a, b}) \in {a, b}
    BY DEF Max
  <2>2. (\E x \in {a, b} : \A y \in {a, b} : x <= y) => Min({a, b}) \in {a, b}
    BY DEF Min
  <2>3. a <= b \/ b <= a
    BY <1>2
  <2> QED
    BY <1>2, <2>1, <2>2, <2>3
<1> QED
  BY <1>1, <1>2 DEF Share

\* What is affordable remains so if less was taken.
LEMMA AffordableAntitone ==
    ASSUME settings \in Settings, NEW c, NEW T, IsFiniteSet(T),
           NEW S \in SUBSET T, Affordable(c, T)
    PROVE  Affordable(c, S)
<1>1. /\ settings.budget \in Nat /\ settings.cap \in Nat
      /\ ClassQuota(c) \in Nat /\ KindQuota(c) \in Nat /\ RiskQuota(c) \in Nat
  BY ShareType DEF Settings, ClassQuota, KindQuota, RiskQuota
<1>2. ASSUME NEW U \in SUBSET T, NEW V \in SUBSET U, NEW q \in Nat,
             Cardinality(U) < q
      PROVE  Cardinality(V) < q
  <2>1. IsFiniteSet(U) /\ IsFiniteSet(V)
    BY FS_Subset
  <2>2. /\ Cardinality(V) <= Cardinality(U)
        /\ Cardinality(U) \in Nat /\ Cardinality(V) \in Nat
    BY <2>1, FS_Subset, FS_CardinalityType
  <2> QED
    BY <1>2, <2>2
<1>3. Cardinality(S) < settings.budget
  BY <1>1, <1>2 DEF Affordable
<1>4. Quantify(S, LAMBDA d : d.anchor = c.anchor) < settings.cap
  BY <1>1, <1>2 DEF Affordable, Quantify
<1>5. QuotaAllows(c, S)
  <2>1. CASE settings.policy = "broad"
    BY <2>1 DEF QuotaAllows
  <2>2. CASE settings.policy # "broad"
    <3>1. QuotaAllows(c, T)
      BY DEF Affordable
    <3>2. Quantify(S, LAMBDA d : MatchClass(d) = MatchClass(c)) < ClassQuota(c)
      BY <1>1, <1>2, <2>2, <3>1 DEF QuotaAllows, Quantify
    <3>3. Quantify(S, LAMBDA d : Kinds(d) = Kinds(c)) < KindQuota(c)
      BY <1>1, <1>2, <2>2, <3>1 DEF QuotaAllows, Quantify
    <3>4. Quantify(S, LAMBDA d : Risk(d) = Risk(c)) < RiskQuota(c)
      BY <1>1, <1>2, <2>2, <3>1 DEF QuotaAllows, Quantify
    <3> QED
      BY <3>2, <3>3, <3>4 DEF QuotaAllows
  <2> QED
    BY <2>1, <2>2
<1> QED
  BY <1>3, <1>4, <1>5 DEF Affordable

\* Under the default policy nothing that Lean can be asked about is a local
\* duplicate, which comes last.
LEMMA UnaskableComeLast ==
    ASSUME settings.policy = "actionable", NEW c, Suited(c), Askable(c),
           NEW d, Suited(d), ~Askable(d)
    PROVE  ~Before(d, c)
<1>1. MatchClass(d) = "LocalDuplicate"
  BY DEF MatchClass
<1>2. MatchClass(c) # "LocalDuplicate"
  <2>1. "LocalDuplicate" \notin Obligation(c)
    BY DEF Obligation, TheoremObligation
  <2>2. MatchClass(c) \in Obligation(c)
    BY DEF MatchClass, Suited
  <2> QED
    BY <2>1, <2>2
<1>3. Place("LocalDuplicate", Obligations) = 6
  BY DEF Place, Obligations
<1>4. Place(MatchClass(c), Obligations) \in 1 .. 5
  BY <1>2, ClassType DEF Place, Obligations
<1>5. Rank(d)[1] = 6 /\ Rank(c)[1] \in 1 .. 5
  BY <1>1, <1>3, <1>4 DEF Rank
<1>6. ASSUME NEW i \in 1 .. 5, i # 1
      PROVE  1 \in 1 .. i - 1
  BY <1>6
<1> QED
  BY <1>5, <1>6 DEF Before

AuditInv ==
    /\ settings \in Settings /\ IsFiniteSet(candidates)
    /\ \A c \in preflight : ~Askable(c)

LEMMA AuditInvInit == PlanInit => AuditInv
BY WorkloadAssumption DEF PlanInit, AuditInv

LEMMA AuditInvNext ==
    ASSUME AuditInv, [PlanNext]_planAll
    PROVE  AuditInv'
BY DEF AuditInv, PlanNext, Select, Collect, Overlook, TakeUnavailable, TakeAskable,
       Digest, Visit, Digested, PlanProbe, Finish, planAll, planVars

\* For any candidates and settings of the default policy, a pair that could have
\* been asked about is overlooked only for others that are (plan_probes).
THEOREM UnaskableTakeNone == PlanSpec => []UnaskableTakeNoPlace
<1>1. PairInv /\ OrderInv /\ AuditInv => UnaskableTakeNoPlace
  <2> SUFFICES ASSUME PairInv, OrderInv, AuditInv, settings.policy = "actionable",
                      NEW c \in overlooked, Askable(c), Affordable(c, Asked)
               PROVE  FALSE
    BY DEF UnaskableTakeNoPlace
  <2> DEFINE B == {d \in Taken : Before(d, c)}
  <2>1. B \subseteq Asked
    <3> SUFFICES ASSUME NEW d \in preflight, Before(d, c)
                 PROVE  FALSE
      BY DEF Taken
    <3> QED
      BY UnaskableComeLast DEF OrderInv, AuditInv, Taken
  <2>2. IsFiniteSet(Asked)
    <3>1. Asked \subseteq candidates
      BY DEF PairInv, Taken
    <3> QED
      BY <3>1, FS_Subset DEF AuditInv
  <2>3. Affordable(c, B)
    BY <2>1, <2>2, AffordableAntitone DEF AuditInv
  <2>4. ~Affordable(c, B)
    BY DEF OrderInv, Better
  <2> QED
    BY <2>3, <2>4
<1> QED
  BY <1>1, PairInvInit, PairInvNext, OrderInvInit, HeapInvNext, OrderInvNext,
     AuditInvInit, AuditInvNext, PTL DEF PlanSpec, planAll

-----------------------------------------------------------------------------
(* The account of the candidates *)

\* Each candidate is in one place, and each key belongs to a pair of its own.
LedgerInv ==
    /\ IsFiniteSet(candidates)
    /\ phase # "collect" => candidates = unsuited \cup Working \cup overlooked \cup Taken
    /\ unsuited \cap (Working \cup overlooked \cup Taken) = {}
    /\ Working \cap (overlooked \cup Taken) = {}
    /\ overlooked \cap Taken = {} /\ preflight \cap Asked = {}
    /\ keying \notin waiting
    /\ \A p, q \in planned : p[1] = q[1] => p = q

LEMMA LedgerInvInit == PlanInit => LedgerInv
BY WorkloadAssumption DEF PlanInit, LedgerInv, Working, Taken, Asked

LEMMA PlanProbeAsks == PlanProbe => Asked' = Asked \cup {keying}
<1>1. \A x, y : <<x, y>>[1] = x
  OBVIOUS
<1> QED
  BY <1>1 DEF PlanProbe, Asked

LEMMA LedgerInvNext ==
    ASSUME PairInv, HeapInv, LedgerInv, [PlanNext]_planAll
    PROVE  LedgerInv'
<1> USE DEF LedgerInv, Working, Taken, Asked
<1>1. CASE UNCHANGED planAll
  BY <1>1 DEF planAll, planVars
<1>2. CASE Collect
  <2>1. /\ phase = "collect" /\ phase' = "select"
        /\ waiting' \subseteq candidates /\ unsuited' = candidates \ waiting'
        /\ UNCHANGED <<candidates, overlooked, preflight, keying, planned>>
    BY <1>2 DEF Collect
  <2>2. overlooked = {} /\ Taken = {} /\ keying = None
    BY <2>1 DEF HeapInv
  <2>3. Taken' = Taken /\ Asked' = Asked /\ Working' = waiting'
    BY <2>1, <2>2
  <2>4. None \notin candidates
    BY DEF PairInv
  <2> HIDE DEF Taken, Working, Asked
  <2> QED
    BY <2>1, <2>2, <2>3, <2>4
<1>3. ASSUME NEW c \in waiting, Overlook(c)
      PROVE  LedgerInv'
  <2>1. /\ phase = "select" /\ keying = None
        /\ waiting' = waiting \ {c} /\ overlooked' = overlooked \cup {c}
        /\ UNCHANGED <<candidates, phase, unsuited, preflight, keying, planned>>
    BY <1>3 DEF Overlook, Turn
  <2>2. Working = waiting /\ Working' = waiting'
    BY <2>1
  <2>3. Taken' = Taken /\ Asked' = Asked
    BY <2>1
  <2> HIDE DEF Taken, Working, Asked
  <2> QED
    BY <2>1, <2>2, <2>3
<1>4. ASSUME NEW c \in waiting, TakeUnavailable(c)
      PROVE  LedgerInv'
  <2>1. /\ phase = "select" /\ keying = None
        /\ waiting' = waiting \ {c} /\ preflight' = preflight \cup {c}
        /\ UNCHANGED <<candidates, phase, unsuited, overlooked, keying, planned>>
    BY <1>4 DEF TakeUnavailable, Turn
  <2>2. Working = waiting /\ Working' = waiting'
    BY <2>1
  <2>3. Asked' = Asked /\ Taken' = Taken \cup {c} /\ Asked \subseteq Taken
    BY <2>1
  <2> HIDE DEF Taken, Working, Asked
  <2> QED
    BY <2>1, <2>2, <2>3
<1>5. ASSUME NEW c \in waiting, TakeAskable(c)
      PROVE  LedgerInv'
  <2>1. /\ phase = "select" /\ keying = None /\ c # None
        /\ waiting' = waiting \ {c} /\ keying' = c
        /\ UNCHANGED <<candidates, phase, unsuited, overlooked, preflight, planned>>
    BY <1>5 DEF TakeAskable, Turn, PairInv
  <2>2. Taken' = Taken /\ Asked' = Asked /\ Working' = Working
    BY <2>1
  <2> HIDE DEF Taken, Working, Asked
  <2> QED
    BY <2>1, <2>2
<1>6. CASE Digest \/ Visit
  BY <1>6 DEF Digest, Visit, planVars
<1>7. CASE Digested
  BY <1>7 DEF Digested
<1>8. CASE PlanProbe
  <2>1. /\ keying # None /\ keying' = None
        /\ planned' = planned \cup {<<keying, key>>}
        /\ UNCHANGED <<candidates, phase, unsuited, waiting, overlooked, preflight>>
    BY <1>8 DEF PlanProbe
  <2>2. <<keying, key>>[1] = keying
    OBVIOUS
  <2>3. keying \in Working /\ Working' = Working \ {keying}
    BY <2>1
  <2>4. Asked' = Asked \cup {keying} /\ Taken' = Taken \cup {keying}
    <3>1. Taken' = Taken \cup {keying}
      BY <1>8, PlanProbeTakes
    <3>2. Asked' = Asked \cup {keying}
      BY <1>8, PlanProbeAsks
    <3> QED
      BY <3>1, <3>2
  <2>5. \A p \in planned : p[1] \in Taken
    OBVIOUS
  <2>6. None \notin candidates /\ waiting \subseteq candidates
    BY DEF PairInv
  <2> HIDE DEF Taken, Working, Asked
  <2>7. \A p, q \in planned' : p[1] = q[1] => p = q
    BY <2>1, <2>2, <2>3, <2>5
  <2>8. preflight \subseteq Taken /\ Asked \subseteq Taken
    BY DEF Taken
  <2> QED
    BY <2>1, <2>3, <2>4, <2>6, <2>7, <2>8
<1>9. CASE Finish
  BY <1>9 DEF Finish
<1> QED
  BY <1>1, <1>2, <1>3, <1>4, <1>5, <1>6, <1>7, <1>8, <1>9 DEF PlanNext, Select

\* There are as many keys as pairs that are asked about.
LEMMA KeysCountPairs ==
    ASSUME IsFiniteSet(Asked), \A p, q \in planned : p[1] = q[1] => p = q
    PROVE  Cardinality(planned) = Cardinality(Asked)
<1> DEFINE entry == [c \in Asked |-> CHOOSE p \in planned : p[1] = c]
<1>1. \A c \in Asked : entry[c] \in planned /\ entry[c][1] = c
  BY DEF Asked
<1>2. \A p \in planned : p[1] \in Asked /\ entry[p[1]] = p
  BY <1>1 DEF Asked
<1> HIDE DEF entry
<1>3. entry \in Bijection(Asked, planned)
  <2>1. entry \in [Asked -> planned]
    BY <1>1 DEF entry
  <2>2. \A c, d \in Asked : entry[c] = entry[d] => c = d
    BY <1>1
  <2>3. \A p \in planned : \E c \in Asked : entry[c] = p
    BY <1>2
  <2> QED
    BY <2>1, <2>2, <2>3 DEF Bijection, Injection, Surjection, IsInjective
<1> QED
  BY <1>3, FS_Bijection DEF ExistsBijection

LEMMA DisjointSum ==
    ASSUME NEW S, NEW T, IsFiniteSet(S), IsFiniteSet(T), S \cap T = {}
    PROVE  Cardinality(S \cup T) = Cardinality(S) + Cardinality(T)
<1>1. Cardinality(S) \in Nat /\ Cardinality(T) \in Nat
  BY FS_CardinalityType
<1>2. Cardinality(S \cap T) = 0
  BY FS_EmptySet
<1>3. Cardinality(S \cup T) = Cardinality(S) + Cardinality(T) - Cardinality(S \cap T)
  BY FS_Union
<1> QED
  BY <1>1, <1>2, <1>3

\* The counters of the report add up to the candidates, whatever is dropped,
\* taken or overlooked on the way (plan_probes, ProbeSummary).
THEOREM CandidatesAreAccountedFor == PlanSpec => []AllAccountedFor
<1>1. HeapInv /\ LedgerInv => AllAccountedFor
  <2> SUFFICES ASSUME HeapInv, LedgerInv, phase = "done"
               PROVE  /\ candidates = unsuited \cup overlooked \cup Taken
                      /\ Cardinality(candidates) =
                            Cardinality(unsuited) + Cardinality(overlooked)
                                + Cardinality(preflight) + Cardinality(planned)
    BY DEF AllAccountedFor
  <2>1. candidates = unsuited \cup overlooked \cup Taken
    BY DEF HeapInv, LedgerInv
  <2>2. /\ IsFiniteSet(unsuited) /\ IsFiniteSet(overlooked) /\ IsFiniteSet(Taken)
        /\ IsFiniteSet(preflight) /\ IsFiniteSet(Asked)
    BY <2>1, FS_Subset DEF LedgerInv, Taken
  <2>3. Cardinality(Taken) = Cardinality(preflight) + Cardinality(Asked)
    BY <2>2, DisjointSum DEF LedgerInv, Taken
  <2>4. Cardinality(Asked) = Cardinality(planned)
    BY <2>2, KeysCountPairs DEF LedgerInv
  <2>5. Cardinality(overlooked \cup Taken) = Cardinality(overlooked) + Cardinality(Taken)
    BY <2>2, DisjointSum DEF LedgerInv
  <2>6. IsFiniteSet(overlooked \cup Taken)
    BY <2>2, FS_Union
  <2>7. Cardinality(unsuited \cup (overlooked \cup Taken)) =
            Cardinality(unsuited) + Cardinality(overlooked \cup Taken)
    BY <2>2, <2>6, DisjointSum DEF LedgerInv
  <2>8. /\ Cardinality(unsuited) \in Nat /\ Cardinality(overlooked) \in Nat
        /\ Cardinality(preflight) \in Nat /\ Cardinality(Asked) \in Nat
    BY <2>2, FS_CardinalityType
  <2>9. candidates = unsuited \cup (overlooked \cup Taken)
    BY <2>1
  <2>10. Cardinality(candidates) = Cardinality(unsuited \cup (overlooked \cup Taken))
    BY <2>9
  <2>11. Cardinality(candidates) =
            Cardinality(unsuited) + Cardinality(overlooked)
                + Cardinality(preflight) + Cardinality(planned)
    BY <2>3, <2>4, <2>5, <2>7, <2>8, <2>10
  <2> QED
    BY <2>1, <2>11
<1> QED
  BY <1>1, PairInvInit, PairInvNext, OrderInvInit, HeapInvNext, LedgerInvInit,
     LedgerInvNext, PTL DEF PlanSpec, planAll

-----------------------------------------------------------------------------
(* The plan of an audit *)

LEMMA InitIsPlan == AuditInit => PlanInit
<1> SUFFICES ASSUME AuditInit
             PROVE  PlanInit
  OBVIOUS
<1>1. PICK b \in Beginnings : /\ candidates = b.workload.candidates
                              /\ settings = b.workload.settings
                              /\ imports = b.workload.imports
  BY DEF AuditInit
<1>2. b.workload \in Workloads
  BY <1>1, AuditAssumption
<1> QED
  BY <1>1, <1>2 DEF AuditInit, PlanInit

LEMMA StepIsPlan ==
    ASSUME [AuditNext]_allVars
    PROVE  [PlanNext]_planAll
BY DEF AuditNext, Plan, Verify, RankFinal, ScanReferences, Report, allVars, planAll

\* run_audit_workflow uses plan_probes as it is: nothing that the other stages
\* do touches the plan, so all that holds of plans holds of audits.
THEOREM AuditRunsPlan == AuditSpec => PlanSpec
BY InitIsPlan, StepIsPlan, PTL DEF AuditSpec, PlanSpec, planAll

\* Whatever the declarations of an audit are, its keys cover the closures, its
\* counters add up, and the pairs that it asks about are the best.
THEOREM AuditPlansWell ==
    AuditSpec => [](/\ KeysCoverClosures /\ AllAccountedFor
                    /\ BestFirst /\ UnaskableTakeNoPlace)
BY AuditRunsPlan, KeysAreCovering, CandidatesAreAccountedFor, SelectionIsBestFirst,
   UnaskableTakeNone, PTL

-----------------------------------------------------------------------------
(* The account of a search *)

LEMMA AdmittedIfAny ==
    ASSUME NEW a, NEW keys
    PROVE  Admitted(a, keys) # {} <=> \E k \in keys : Admits(a, k)
BY DEF Admitted

\* What is opened for all anchors is opened for each of them.
LEMMA MeetIsWalked ==
    ASSUME NEW C, NEW a \in C.rows, NEW c
    PROVE  Meet(C, a, c) \subseteq Walked(C, a, c)
<1> SUFFICES ASSUME NEW k \in Meet(C, a, c)
             PROVE  k \in Walked(C, a, c)
  OBVIOUS
<1>1. k \in a.keys \cap c.keys
  BY DEF Meet
<1>2. a \in Holders(k, C.rows)
  BY <1>1 DEF Holders
<1> QED
  BY <1>1, <1>2 DEF Meet, Walked

LEMMA FoundIfContributing ==
    ASSUME NEW C, NEW a, NEW c \in Others(C, a)
    PROVE  c \in DOMAIN Found(C, a) <=> Contributions(C, a, c) # {}
BY DEF Found

\* For any corpus, what observe_search says of a pair is what retrieval does
\* with it, unless a posting was narrowed for another anchor.
THEOREM ObservationIsTrue == AuditSpec => []ObservationAgrees
<1>1. ObservationAgrees
  <2> SUFFICES ASSUME NEW a \in audit.rows, NEW c \in Others(audit, a)
               PROVE  LET seen == Account(audit, a, c) = "generated, not selected"
                      IN /\ c \in DOMAIN Found(audit, a) => seen
                         /\ seen /\ ~Narrowed(audit, a, c) => c \in DOMAIN Found(audit, a)
    BY DEF ObservationAgrees
  <2>1. Account(audit, a, c) = "generated, not selected"
            <=> \E k \in Walked(audit, a, c) : Admits(a, k)
    BY AdmittedIfAny DEF Account
  <2>2. c \in DOMAIN Found(audit, a) <=> \E k \in Meet(audit, a, c) : Admits(a, k)
    BY FoundIfContributing, AdmittedIfAny DEF Contributions
  <2>3. Meet(audit, a, c) \subseteq Walked(audit, a, c)
    BY MeetIsWalked
  <2>4. ~Narrowed(audit, a, c) => Walked(audit, a, c) \subseteq Meet(audit, a, c)
    BY DEF Narrowed
  <2> QED
    BY <2>1, <2>2, <2>3, <2>4
<1> QED
  BY <1>1, PTL

-----------------------------------------------------------------------------
(* The first group of a family *)

LEMMA LeastNat ==
    ASSUME NEW S \in SUBSET Nat, S # {}
    PROVE  \E m \in S : \A n \in S : m <= n
<1> DEFINE R == OpToRel(<, Nat)
<1>1. ASSUME NEW m \in S, NEW n \in S, n < m
      PROVE  <<n, m>> \in R
  <2>1. <<n, m>> \in Nat \X Nat /\ <<n, m>>[1] < <<n, m>>[2]
    BY <1>1
  <2> QED
    BY <2>1 DEF OpToRel
<1>2. IsWellFoundedOn(R, Nat)
  BY NatLessThanWellFounded
<1> HIDE DEF R
<1>3. PICK m \in S : \A n \in S : ~(<<n, m>> \in R)
  BY <1>2, WFMin
<1>4. ASSUME NEW n \in S
      PROVE  m <= n
  <2>1. m \in Nat /\ n \in Nat
    OBVIOUS
  <2>2. ~(n < m)
    BY <1>1, <1>3
  <2> QED
    BY <2>1, <2>2
<1> QED
  BY <1>4

\* Those with the least value of f.
Leasts(S, f) == {x \in S : \A y \in S : f[x] <= f[y]}

LEMMA LeastsExist ==
    ASSUME NEW S, NEW f, \A x \in S : f[x] \in Nat, S # {}
    PROVE  Leasts(S, f) # {} /\ Leasts(S, f) \subseteq S
<1> DEFINE values == {f[x] : x \in S}
<1>1. PICK m \in values : \A n \in values : m <= n
  <2>1. values \in SUBSET Nat /\ values # {}
    OBVIOUS
  <2> HIDE DEF values
  <2> QED
    BY <2>1, LeastNat
<1>2. PICK x \in S : f[x] = m
  OBVIOUS
<1>3. x \in Leasts(S, f)
  BY <1>1, <1>2 DEF Leasts
<1> QED
  BY <1>3 DEF Leasts

\* A family of groups, each with a rank of its own, has a first one.
LEMMA FirstOfFamily ==
    ASSUME NEW f, f # {},
           \A g \in f : \A i \in 1 .. 5 : QueueRank(g)[i] \in Nat,
           \A g, h \in f : (\A i \in 1 .. 5 : QueueRank(g)[i] = QueueRank(h)[i]) => g = h
    PROVE  First(f) \in f
<1> DEFINE value(i) == [g \in f |-> QueueRank(g)[i]]
           s1 == Leasts(f, value(1))
           s2 == Leasts(s1, value(2))
           s3 == Leasts(s2, value(3))
           s4 == Leasts(s3, value(4))
           s5 == Leasts(s4, value(5))
<1>1. \A i \in 1 .. 5 : \A g \in f : value(i)[g] = QueueRank(g)[i] /\ value(i)[g] \in Nat
  OBVIOUS
<1> HIDE DEF value
<1>2. s1 # {} /\ s1 \subseteq f
  BY <1>1, LeastsExist
<1>3. s2 # {} /\ s2 \subseteq s1
  BY <1>1, <1>2, LeastsExist
<1>4. s3 # {} /\ s3 \subseteq s2
  BY <1>1, <1>2, <1>3, LeastsExist
<1>5. s4 # {} /\ s4 \subseteq s3
  BY <1>1, <1>2, <1>3, <1>4, LeastsExist
<1>6. s5 # {} /\ s5 \subseteq s4
  BY <1>1, <1>2, <1>3, <1>4, <1>5, LeastsExist
<1>7. PICK g \in s5 : TRUE
  BY <1>6
<1>8. ASSUME NEW h \in f \ {g}
      PROVE  Precedes(g, h)
  <2> DEFINE rank(x, i) == QueueRank(x)[i]
  <2>1. /\ g \in f /\ g \in s1 /\ g \in s2 /\ g \in s3 /\ g \in s4
    BY <1>2, <1>3, <1>4, <1>5, <1>6, <1>7
  <2>2. \A i \in 1 .. 5 : rank(g, i) \in Nat /\ rank(h, i) \in Nat
    BY <2>1
  <2>3. rank(g, 1) <= rank(h, 1)
    BY <1>1, <2>1 DEF Leasts
  <2>4. rank(g, 1) = rank(h, 1) => h \in s1
    BY <1>1, <2>1 DEF Leasts
  <2>5. h \in s1 => rank(g, 2) <= rank(h, 2)
    BY <1>1, <2>1 DEF Leasts
  <2>6. h \in s1 /\ rank(g, 2) = rank(h, 2) => h \in s2
    BY <1>1, <1>2, <2>1 DEF Leasts
  <2>7. h \in s2 => rank(g, 3) <= rank(h, 3)
    BY <1>1, <2>1 DEF Leasts
  <2>8. h \in s2 /\ rank(g, 3) = rank(h, 3) => h \in s3
    BY <1>1, <1>2, <1>3, <2>1 DEF Leasts
  <2>9. h \in s3 => rank(g, 4) <= rank(h, 4)
    BY <1>1, <2>1 DEF Leasts
  <2>10. h \in s3 /\ rank(g, 4) = rank(h, 4) => h \in s4
    BY <1>1, <1>2, <1>3, <1>4, <2>1 DEF Leasts
  <2>11. h \in s4 => rank(g, 5) <= rank(h, 5)
    BY <1>1, <1>7, <2>1 DEF Leasts
  <2>12. ~(\A i \in 1 .. 5 : rank(g, i) = rank(h, i))
    BY <2>1
  <2> HIDE DEF rank, s1, s2, s3, s4, s5
  <2>13. \E i \in 1 .. 5 : rank(g, i) < rank(h, i) /\ \A j \in 1 .. i - 1 : rank(g, j) = rank(h, j)
    <3>1. CASE rank(g, 1) # rank(h, 1)
      BY <2>2, <2>3, <3>1
    <3>2. CASE rank(g, 1) = rank(h, 1) /\ rank(g, 2) # rank(h, 2)
      <4>1. rank(g, 2) < rank(h, 2)
        BY <2>2, <2>4, <2>5, <3>2
      <4> QED
        BY <3>2, <4>1
    <3>3. CASE rank(g, 1) = rank(h, 1) /\ rank(g, 2) = rank(h, 2) /\ rank(g, 3) # rank(h, 3)
      <4>1. rank(g, 3) < rank(h, 3)
        BY <2>2, <2>4, <2>6, <2>7, <3>3
      <4> QED
        BY <3>3, <4>1
    <3>4. CASE /\ rank(g, 1) = rank(h, 1) /\ rank(g, 2) = rank(h, 2)
               /\ rank(g, 3) = rank(h, 3) /\ rank(g, 4) # rank(h, 4)
      <4>1. rank(g, 4) < rank(h, 4)
        BY <2>2, <2>4, <2>6, <2>8, <2>9, <3>4
      <4> QED
        BY <3>4, <4>1
    <3>5. CASE /\ rank(g, 1) = rank(h, 1) /\ rank(g, 2) = rank(h, 2)
               /\ rank(g, 3) = rank(h, 3) /\ rank(g, 4) = rank(h, 4)
      <4>1. rank(g, 5) # rank(h, 5)
        BY <2>12, <3>5
      <4>2. rank(g, 5) < rank(h, 5)
        BY <2>2, <2>4, <2>6, <2>8, <2>10, <2>11, <3>5, <4>1
      <4> QED
        BY <3>5, <4>2
    <3> QED
      BY <3>1, <3>2, <3>3, <3>4, <3>5
  <2> QED
    BY <2>13 DEF Precedes, rank
<1>9. g \in f
  BY <1>2, <1>3, <1>4, <1>5, <1>6, <1>7
<1> QED
  BY <1>8, <1>9 DEF First

LEMMA MinIsLeast ==
    ASSUME NEW S \in SUBSET Nat, S # {}
    PROVE  Min(S) \in S /\ \A i \in S : Min(S) <= i
<1>1. \E m \in S : \A n \in S : m <= n
  BY LeastNat
<1> QED
  BY <1>1 DEF Min

\* The least and the greatest of two ids are numbers and determine them.
LEMMA EndsOfIds ==
    ASSUME NEW i \in Nat, NEW j \in Nat
    PROVE  /\ Min({i, j}) \in Nat /\ Max({i, j}) \in Nat
           /\ {i, j} = {Min({i, j}), Max({i, j})}
<1>1. CASE i <= j
  <2>1. Min({i, j}) = i /\ Max({i, j}) = j
    BY <1>1 DEF Min, Max
  <2> QED
    BY <2>1
<1>2. CASE j < i
  <2>1. Min({i, j}) = j /\ Max({i, j}) = i
    BY <1>2 DEF Min, Max
  <2> QED
    BY <2>1
<1> QED
  BY <1>1, <1>2

-----------------------------------------------------------------------------
(* What a pair is worth *)

\* The worth of a pair is a sum over its keys, taken one by one.
Part(C, a, c, k) == Weight(a, k) * Rarity(Cardinality(Home(C, c)), Fanout(C, c, k))

Pick(S) == CHOOSE k \in S : TRUE

IsSum(C, a, c, S, f) ==
    f = [s \in SUBSET S |-> IF s = {} THEN 0
                            ELSE Part(C, a, c, Pick(s)) + f[s \ {Pick(s)}]]

LEMMA WorthIsSum ==
    ASSUME NEW C, NEW a, NEW c, NEW S
    PROVE  Worth(C, a, c, S) = (CHOOSE f : IsSum(C, a, c, S, f))[S]
BY DEF Worth, MapThenSumSet, MapThenFoldSet, IsSum, Part, Pick

LEMMA PickIsSmaller ==
    ASSUME NEW S, IsFiniteSet(S), NEW s \in SUBSET S, s # {}
    PROVE  /\ Pick(s) \in s /\ s \ {Pick(s)} \in SUBSET S
           /\ Cardinality(s) \in Nat /\ Cardinality(s) # 0
           /\ Cardinality(s \ {Pick(s)}) = Cardinality(s) - 1
<1>1. Pick(s) \in s
  BY DEF Pick
<1>2. IsFiniteSet(s)
  BY FS_Subset
<1>3. Cardinality(s \ {Pick(s)}) = Cardinality(s) - 1
  BY <1>1, <1>2, FS_RemoveElement
<1>4. Cardinality(s) \in Nat /\ Cardinality(s) # 0
  BY <1>2, FS_CardinalityType, FS_EmptySet
<1> QED
  BY <1>1, <1>3, <1>4

LEMMA SumExists ==
    ASSUME NEW C, NEW a, NEW c, NEW S, IsFiniteSet(S)
    PROVE  \E f : IsSum(C, a, c, S, f)
<1> DEFINE next(f, s) == IF s = {} THEN 0 ELSE Part(C, a, c, Pick(s)) + f[s \ {Pick(s)}]
           upto(n, f) == \A s \in SUBSET S : Cardinality(s) <= n => f[s] = next(f, s)
           good(n) == \E f : upto(n, f)
<1>1. \A s \in SUBSET S : Cardinality(s) \in Nat /\ (Cardinality(s) = 0 => s = {})
  BY FS_Subset, FS_CardinalityType, FS_EmptySet
<1>2. good(0)
  <2>1. upto(0, [s \in SUBSET S |-> 0])
    BY <1>1
  <2> QED
    BY <2>1
<1>3. ASSUME NEW n \in Nat, good(n)
      PROVE  good(n + 1)
  <2>1. PICK f : upto(n, f)
    BY <1>3
  <2> DEFINE g == [s \in SUBSET S |-> IF Cardinality(s) <= n THEN f[s] ELSE next(f, s)]
  <2>2. ASSUME NEW s \in SUBSET S
        PROVE  g[s] = next(f, s)
    BY <2>1
  <2>3. ASSUME NEW s \in SUBSET S, Cardinality(s) <= n + 1, s # {}
        PROVE  g[s \ {Pick(s)}] = f[s \ {Pick(s)}]
    <3>1. s \ {Pick(s)} \in SUBSET S /\ Cardinality(s \ {Pick(s)}) <= n
      BY <2>3, PickIsSmaller
    <3> QED
      BY <3>1
  <2> HIDE DEF g
  <2>4. upto(n + 1, g)
    BY <2>2, <2>3
  <2> QED
    BY <2>4
<1>4. ASSUME NEW n \in Nat
      PROVE  good(n)
  <2> DEFINE bad == {m \in Nat : ~good(m)}
  <2>1. CASE bad = {}
    BY <2>1
  <2>2. CASE bad # {}
    <3>1. PICK m \in bad : \A k \in bad : m <= k
      BY <2>2, LeastNat
    <3> HIDE DEF good
    <3>2. m # 0
      BY <1>2, <3>1
    <3>3. m - 1 \in Nat /\ m = (m - 1) + 1
      BY <3>2
    <3>4. good(m - 1)
      BY <3>1, <3>3
    <3> QED
      BY <1>3, <3>1, <3>3, <3>4
  <2> QED
    BY <2>1, <2>2
<1>5. PICK f : upto(Cardinality(S), f)
  BY <1>1, <1>4
<1>6. \A s \in SUBSET S : f[s] = next(f, s)
  BY <1>1, <1>5, FS_Subset
<1> DEFINE g == [s \in SUBSET S |-> f[s]]
<1>7. IsSum(C, a, c, S, g)
  <2>1. ASSUME NEW s \in SUBSET S
        PROVE  next(f, s) = next(g, s)
    OBVIOUS
  <2>2. g = [s \in SUBSET S |-> next(g, s)]
    BY <1>6, <2>1
  <2> QED
    BY <2>2 DEF IsSum
<1> QED
  BY <1>7

\* If the parts are numbers then so is the sum, and it is no less than any part.
LEMMA WorthBoundsParts ==
    ASSUME NEW C, NEW a, NEW c, NEW S, IsFiniteSet(S), \A k \in S : Part(C, a, c, k) \in Nat
    PROVE  /\ Worth(C, a, c, S) \in Nat
           /\ \A k \in S : Part(C, a, c, k) <= Worth(C, a, c, S)
<1> DEFINE sum == CHOOSE f : IsSum(C, a, c, S, f)
           part(k) == Part(C, a, c, k)
           good(s) == sum[s] \in Nat /\ \A k \in s : part(k) <= sum[s]
           bad == {n \in Nat : \E s \in SUBSET S : Cardinality(s) = n /\ ~good(s)}
<1>1. IsSum(C, a, c, S, sum)
  BY SumExists
<1>2. \A s \in SUBSET S : sum[s] = IF s = {} THEN 0 ELSE part(Pick(s)) + sum[s \ {Pick(s)}]
  BY <1>1 DEF IsSum
<1> HIDE DEF sum
<1>3. good({})
  <2>1. sum[{}] = 0
    BY <1>2
  <2> QED
    BY <2>1
<1>4. ASSUME NEW s \in SUBSET S, s # {}, good(s \ {Pick(s)})
      PROVE  good(s)
  <2>1. Pick(s) \in s /\ part(Pick(s)) \in Nat
    BY <1>4, PickIsSmaller
  <2>2. sum[s] = part(Pick(s)) + sum[s \ {Pick(s)}] /\ sum[s \ {Pick(s)}] \in Nat
    BY <1>2, <1>4
  <2>3. ASSUME NEW k \in s
        PROVE  part(k) <= sum[s]
    <3>1. CASE k = Pick(s)
      BY <2>1, <2>2, <3>1
    <3>2. CASE k # Pick(s)
      <4>1. part(k) <= sum[s \ {Pick(s)}] /\ part(k) \in Nat
        BY <1>4, <3>2
      <4> HIDE DEF part
      <4> QED
        BY <2>1, <2>2, <4>1
    <3> QED
      BY <3>1, <3>2
  <2> HIDE DEF part
  <2>4. sum[s] \in Nat
    BY <2>1, <2>2
  <2> QED
    BY <2>3, <2>4
<1> HIDE DEF good
<1>5. bad = {}
  <2> SUFFICES ASSUME bad # {}
               PROVE  FALSE
    OBVIOUS
  <2>1. PICK m \in bad : \A n \in bad : m <= n
    BY LeastNat
  <2>2. PICK s \in SUBSET S : Cardinality(s) = m /\ ~good(s)
    BY <2>1
  <2>3. s # {}
    BY <1>3, <2>2
  <2> DEFINE less == s \ {Pick(s)}
  <2>4. less \in SUBSET S /\ Cardinality(less) = m - 1 /\ m - 1 \in Nat
    BY <2>1, <2>2, <2>3, PickIsSmaller
  <2>5. ~good(less)
    BY <1>4, <2>2, <2>3
  <2> HIDE DEF less
  <2>6. m - 1 \in bad
    BY <2>4, <2>5
  <2> QED
    BY <2>1, <2>4, <2>6
<1>6. good(S)
  BY <1>5, FS_CardinalityType
<1> QED
  BY <1>6, WorthIsSum DEF good, sum

-----------------------------------------------------------------------------
(* Pairs *)

PairFor(C, a, c) ==
    LET found == Found(C, a)
    IN [anchor |-> a, candidate |-> c, keys |-> found[c], score |-> Worth(C, a, c, found[c]),
        semantic |-> c \in UNION {InLane(C, a, found, lane) : lane \in Lanes}]

LEMMA PairsAreFor ==
    ASSUME NEW C, NEW a, NEW p \in Candidates(C, a)
    PROVE  \E c \in DOMAIN Found(C, a) : p = PairFor(C, a, c)
<1> DEFINE found == Found(C, a)
           score == [c \in DOMAIN found |-> Worth(C, a, c, found[c])]
           lanes == UNION {InLane(C, a, found, lane) : lane \in Lanes}
<1>1. Best(DOMAIN found, TopK, score) \subseteq DOMAIN found
  BY DEF Best
<1>2. lanes \subseteq DOMAIN found
  BY DEF InLane, Best
<1>3. PICK c \in Best(DOMAIN found, TopK, score) \cup lanes :
          p = [anchor |-> a, candidate |-> c, keys |-> found[c],
               score |-> score[c], semantic |-> c \in lanes]
  BY DEF Candidates
<1>4. c \in DOMAIN found
  BY <1>1, <1>2, <1>3
<1>5. score[c] = Worth(C, a, c, found[c])
  BY <1>4
<1> HIDE DEF score
<1>6. p = PairFor(C, a, c)
  BY <1>3, <1>5 DEF PairFor
<1> QED
  BY <1>4, <1>6

LEMMA EndsOfPair ==
    ASSUME NEW C, NEW focus, NEW p \in Retrieved(C, focus)
    PROVE  /\ p.anchor \in C.rows /\ p.anchor.id \in focus
           /\ p.candidate \in AllRows(C)
           /\ p.candidate \in DOMAIN Found(C, p.anchor)
           /\ p = PairFor(C, p.anchor, p.candidate)
<1>1. PICK a \in C.rows : a.id \in focus /\ p \in Candidates(C, a)
  BY DEF Retrieved
<1>2. PICK c \in DOMAIN Found(C, a) : p = PairFor(C, a, c)
  BY <1>1, PairsAreFor
<1>3. p.anchor = a /\ p.candidate = c
  BY <1>2 DEF PairFor
<1>4. c \in Others(C, a)
  BY <1>2 DEF Found
<1> QED
  BY <1>1, <1>2, <1>3, <1>4 DEF Others, AllRows

LEMMA RowsOfAudit ==
    ASSUME NEW a \in Audits
    PROVE  /\ \A d \in AllRows(a) : d.id \in 1 .. 99
           /\ \A d, e \in AllRows(a) : d.id = e.id => d = e
           /\ a.rows \subseteq AllRows(a)
<1>1. a \in Audit
  BY AuditAssumption
<1>2. AllRows(a) \subseteq Declaration
  BY <1>1 DEF AllRows, Audit, Index
<1> QED
  BY <1>2, AuditAssumption DEF Declaration, AllRows

\* Pair ids are ids: of pairs, and of their ends.
LEMMA KeyOfPair ==
    ASSUME NEW a \in Audits,
           NEW p \in Retrieved(a, Focus(a)), NEW q \in Retrieved(a, Focus(a))
    PROVE  /\ p.anchor.id \in 1 .. 99 /\ p.candidate.id \in 1 .. 99
           /\ p.anchor.id = q.anchor.id /\ p.candidate.id = q.candidate.id => p = q
           /\ Key(p) = Key(q) => p = q
<1>1. /\ p.anchor \in AllRows(a) /\ p.candidate \in AllRows(a)
      /\ q.anchor \in AllRows(a) /\ q.candidate \in AllRows(a)
  BY EndsOfPair, RowsOfAudit
<1>2. /\ p.anchor.id \in 1 .. 99 /\ p.candidate.id \in 1 .. 99
      /\ q.anchor.id \in 1 .. 99 /\ q.candidate.id \in 1 .. 99
  BY <1>1, RowsOfAudit
<1>3. p.anchor.id = q.anchor.id /\ p.candidate.id = q.candidate.id => p = q
  BY <1>1, RowsOfAudit, EndsOfPair
<1>4. ASSUME Key(p) = Key(q)
      PROVE  p.anchor.id = q.anchor.id /\ p.candidate.id = q.candidate.id
  <2>1. PICK i \in 1 .. 99, j \in 1 .. 99 : i = p.anchor.id /\ j = p.candidate.id
    BY <1>2
  <2>2. PICK k \in 1 .. 99, l \in 1 .. 99 : k = q.anchor.id /\ l = q.candidate.id
    BY <1>2
  <2>3. i * 100 + j = k * 100 + l
    BY <1>4, <2>1, <2>2 DEF Key
  <2>4. i = k /\ j = l
    BY <2>3
  <2> QED
    BY <2>1, <2>2, <2>4
<1> QED
  BY <1>2, <1>3, <1>4

-----------------------------------------------------------------------------
(* Fingerprints *)

PrintsOf(a, c) == {k \in a.keys \cap c.keys : k[1] \in Prints}

\* No posting of a fingerprint is too wide, and each can bring in a candidate.
LEMMA PrintsMeet ==
    ASSUME NEW C, NEW a, NEW c
    PROVE  /\ {k \in Meet(C, a, c) : k[1] \in Prints} = PrintsOf(a, c)
           /\ \A k \in PrintsOf(a, c) : Admits(a, k)
<1>1. ASSUME NEW d, NEW k, NEW n, k[1] \in Prints
      PROVE  Opens(d, k, n)
  BY <1>1 DEF Opens
<1>2. Meet(C, a, c) \subseteq a.keys \cap c.keys
  BY DEF Meet
<1>3. PrintsOf(a, c) \subseteq Meet(C, a, c)
  BY <1>1 DEF Meet, PrintsOf
<1>4. \A k \in PrintsOf(a, c) : Admits(a, k)
  BY DEF PrintsOf, Admits, Broad, Prints, Heads
<1> QED
  BY <1>2, <1>3, <1>4 DEF PrintsOf

LEMMA PrintsAreFound ==
    ASSUME NEW C, NEW a, NEW c \in Others(C, a)
    PROVE  /\ PrintsOf(a, c) # {} => c \in DOMAIN Found(C, a)
           /\ c \in DOMAIN Found(C, a) =>
                  /\ Found(C, a)[c] = Meet(C, a, c)
                  /\ {k \in Found(C, a)[c] : k[1] \in Prints} = PrintsOf(a, c)
<1>1. PrintsOf(a, c) # {} => \E k \in Meet(C, a, c) : Admits(a, k)
  BY PrintsMeet
<1>2. PrintsOf(a, c) # {} => c \in DOMAIN Found(C, a)
  BY <1>1, FoundIfContributing, AdmittedIfAny DEF Contributions
<1>3. ASSUME c \in DOMAIN Found(C, a)
      PROVE  Found(C, a)[c] = Meet(C, a, c)
  <2>1. Found(C, a)[c] = Contributions(C, a, c) /\ Contributions(C, a, c) # {}
    BY <1>3 DEF Found
  <2> QED
    BY <2>1 DEF Contributions, Admitted
<1> QED
  BY <1>2, <1>3, PrintsMeet

LEMMA FewRows ==
    ASSUME NEW a \in Audits
    PROVE  IsFiniteSet(AllRows(a))
<1> DEFINE f == [d \in AllRows(a) |-> d.id]
<1>1. f \in Injection(AllRows(a), 1 .. 99)
  BY RowsOfAudit DEF Injection, IsInjective
<1>2. IsFiniteSet(1 .. 99)
  <2> DEFINE ids == 1 .. 99
  <2>1. ids \in SUBSET Nat /\ \A i \in ids : i <= 99
    OBVIOUS
  <2> HIDE DEF ids
  <2>2. IsFiniteSet(ids)
    BY <2>1, FS_BoundedSetOfNaturals
  <2> QED
    BY <2>2 DEF ids
<1> QED
  BY <1>1, <1>2, FS_Injection

LEMMA OthersAreRows ==
    ASSUME NEW a, NEW d
    PROVE  Others(a, d) \subseteq AllRows(a)
BY DEF Others, AllRows

\* The parts that the worth of a pair is made of are numbers, and a fingerprint
\* of the statement, up to order and connectives, makes the pair near.
LEMMA PartsOfAudit ==
    ASSUME NEW a \in Audits, NEW d \in AllRows(a), NEW c \in AllRows(a), NEW k \in d.keys \cap c.keys
    PROVE  /\ Part(a, d, c, k) \in Nat
           /\ k[1] \in {"statement", "permutation", "connective"} => Part(a, d, c, k) >= NearScore
<1> DEFINE rarity == Rarity(Cardinality(Home(a, c)), Fanout(a, c, k))
<1>1. rarity \in Nat /\ 65 * rarity >= NearScore /\ NearScore \in Nat
  BY CorpusAssumption, RankingAssumption DEF Base
<1>2. a \in Audit
  BY AuditAssumption
<1>3. d \in Declaration
  BY <1>2 DEF AllRows, Audit, Index
<1>4. k[1] \in Prints \cup Roles
  BY <1>3 DEF Declaration
<1>5. Weight(d, k) \in Nat
  BY <1>4 DEF Weight, Base, Prints, Roles, Heads
<1>6. k[1] \in {"statement", "permutation", "connective"} => Weight(d, k) \in {100, 85, 65}
  BY DEF Weight, Base, Broad, Heads
<1>7. Part(a, d, c, k) = Weight(d, k) * rarity
  BY DEF Part
<1> HIDE DEF rarity
<1>8. \A w, r, n \in Nat : w * r \in Nat /\ (w \in {100, 85, 65} /\ 65 * r >= n => w * r >= n)
  OBVIOUS
<1> QED
  BY <1>1, <1>5, <1>6, <1>7, <1>8

LEMMA WorthOfAudit ==
    ASSUME NEW a \in Audits, NEW d \in AllRows(a), NEW c \in AllRows(a),
           NEW S \in SUBSET (d.keys \cap c.keys)
    PROVE  /\ Worth(a, d, c, S) \in Nat
           /\ (\E k \in S : k[1] \in {"statement", "permutation", "connective"}) =>
                  Worth(a, d, c, S) >= NearScore
<1>1. IsFiniteSet(S)
  BY CorpusAssumption, FS_Subset
<1>2. \A k \in S : Part(a, d, c, k) \in Nat
  BY PartsOfAudit
<1>3. /\ Worth(a, d, c, S) \in Nat
      /\ \A k \in S : Part(a, d, c, k) <= Worth(a, d, c, S)
  BY <1>1, <1>2, WorthBoundsParts
<1>4. ASSUME NEW k \in S, k[1] \in {"statement", "permutation", "connective"}
      PROVE  Worth(a, d, c, S) >= NearScore
  <2>1. Part(a, d, c, k) >= NearScore /\ Part(a, d, c, k) \in Nat
    BY <1>4, PartsOfAudit
  <2>2. NearScore \in Nat
    BY RankingAssumption
  <2> QED
    BY <1>3, <2>1, <2>2
<1> QED
  BY <1>3, <1>4

\* The fingerprint lane keeps what is better.
LEMMA LaneKeepsStrong ==
    ASSUME NEW C \in Audits, NEW a \in C.rows, NEW c \in Others(C, a), PrintsOf(a, c) # {},
           c \notin {p.candidate : p \in Candidates(C, a)}
    PROVE  LET worth == [d \in Others(C, a) |-> Worth(C, a, d, PrintsOf(a, d))]
           IN Cardinality({d \in Others(C, a) \ {c} :
                  /\ PrintsOf(a, d) # {}
                  /\ worth[d] > worth[c] \/ worth[d] = worth[c]}) >= LaneTopK
<1> DEFINE others == Others(C, a)
           worth == [d \in others |-> Worth(C, a, d, PrintsOf(a, d))]
           found == Found(C, a)
           kept == [d \in DOMAIN found |-> {k \in found[d] : k[1] \in Prints}]
           S == {d \in DOMAIN found : kept[d] # {}}
           value == [d \in S |-> Worth(C, a, d, kept[d])]
           better == {d \in S : \/ value[d] > value[c]
                                \/ value[d] = value[c] /\ d.id > c.id}
           as_good == {d \in others \ {c} : /\ PrintsOf(a, d) # {}
                                            /\ worth[d] > worth[c] \/ worth[d] = worth[c]}
<1>1. DOMAIN found \subseteq others
  BY DEF Found
<1>2. \A d \in DOMAIN found : kept[d] = PrintsOf(a, d)
  BY <1>1, PrintsAreFound
<1>3. c \in S
  BY <1>2, PrintsAreFound
<1>4. c \notin InLane(C, a, found, Prints)
  <2> DEFINE lanes == UNION {InLane(C, a, found, lane) : lane \in Lanes}
             score == [d \in DOMAIN found |-> Worth(C, a, d, found[d])]
             pair(d) == [anchor |-> a, candidate |-> d, keys |-> found[d],
                         score |-> score[d], semantic |-> d \in lanes]
  <2>0. Candidates(C, a) = {pair(d) : d \in Best(DOMAIN found, TopK, score) \cup lanes}
    BY DEF Candidates
  <2>1. c \notin lanes
    <3> SUFFICES ASSUME c \in lanes
                 PROVE  FALSE
      OBVIOUS
    <3>1. pair(c) \in Candidates(C, a)
      BY <2>0
    <3>2. pair(c).candidate = c
      OBVIOUS
    <3> HIDE DEF pair
    <3> QED
      BY <3>1, <3>2
  <2> QED
    BY <2>1 DEF Lanes
<1>5. ~(Cardinality(better) < LaneTopK)
  <2>1. InLane(C, a, found, Prints) = Best(S, LaneTopK, value)
    BY DEF InLane
  <2> QED
    BY <1>3, <1>4, <2>1 DEF Best
<1>6. \A d \in S : value[d] = worth[d] /\ worth[d] \in Nat
  <2>1. ASSUME NEW d \in S
        PROVE  Worth(C, a, d, PrintsOf(a, d)) \in Nat
    <3>1. a \in AllRows(C) /\ d \in AllRows(C)
      BY <1>1, RowsOfAudit, OthersAreRows
    <3>2. PrintsOf(a, d) \in SUBSET (a.keys \cap d.keys)
      BY DEF PrintsOf
    <3> QED
      BY <3>1, <3>2, WorthOfAudit
  <2> QED
    BY <1>1, <1>2, <2>1
<1>7. \A d \in S : d.id \in 1 .. 99
  BY <1>1, RowsOfAudit, OthersAreRows
<1>8. better \subseteq as_good
  <2> SUFFICES ASSUME NEW d \in better
               PROVE  d \in as_good
    OBVIOUS
  <2>1. d \in S /\ d \in others /\ PrintsOf(a, d) # {}
    BY <1>1, <1>2
  <2> HIDE DEF S, value, worth
  <2>2. worth[d] > worth[c] \/ (worth[d] = worth[c] /\ d.id > c.id)
    BY <1>3, <1>6, <2>1
  <2>3. d # c
    BY <1>3, <1>6, <1>7, <2>1, <2>2
  <2> QED
    BY <2>1, <2>2, <2>3
<1>9. IsFiniteSet(as_good)
  <2>1. as_good \subseteq AllRows(C)
    BY OthersAreRows
  <2> HIDE DEF as_good
  <2> QED
    BY <2>1, FewRows, FS_Subset
<1> HIDE DEF better, as_good
<1>10. Cardinality(better) \in Nat /\ Cardinality(as_good) \in Nat
           /\ Cardinality(better) <= Cardinality(as_good)
  BY <1>8, <1>9, FS_Subset, FS_CardinalityType
<1>11. Cardinality(as_good) >= LaneTopK
  BY <1>5, <1>10, LimitAssumption
<1> QED
  BY <1>11 DEF as_good

-----------------------------------------------------------------------------
(* Groups *)

\* A group has the strongest relation that holds.
LEMMA RelationIsStrongest ==
    ASSUME NEW C, NEW E, NEW F, NEW p
    PROVE  \E n \in 1 .. 7 : /\ RelationOf(C, E, F, p) = Strength[n]
                            /\ Holds(C, E, F, p, Strength[n])
                            /\ \A i \in 1 .. n - 1 : ~Holds(C, E, F, p, Strength[i])
<1> DEFINE S == {i \in DOMAIN Strength : Holds(C, E, F, p, Strength[i])}
<1>1. DOMAIN Strength = 1 .. 7
  BY DEF Strength
<1>2. Holds(C, E, F, p, Strength[7])
  BY DEF Holds, Strength
<1>3. S \in SUBSET (1 .. 7) /\ 7 \in S
  BY <1>1, <1>2
<1>4. Min(S) \in S /\ \A i \in S : Min(S) <= i
  <2>1. S \in SUBSET Nat /\ S # {}
    BY <1>3
  <2> QED
    BY <2>1, MinIsLeast
<1> QED
  BY <1>1, <1>4 DEF RelationOf

LEMMA RankOfGroup ==
    ASSUME NEW g, g.priority \in Nat, g.confidence \in Nat,
           NEW n \in 1 .. 7, g.relation = Strength[n],
           NEW i \in Nat, NEW j \in Nat, g.id = <<g.relation, {i, j}>>
    PROVE  /\ \A k \in 1 .. 5 : QueueRank(g)[k] \in Nat
           /\ g.relation = Relations[QueueRank(g)[3]]
           /\ g.id[2] = {QueueRank(g)[4], QueueRank(g)[5]}
<1>1. g.id[2] = {i, j}
  OBVIOUS
<1>2. /\ Min({i, j}) \in Nat /\ Max({i, j}) \in Nat
      /\ {i, j} = {Min({i, j}), Max({i, j})}
  BY EndsOfIds
<1>3. RelationPlace(g) \in DOMAIN Relations /\ Relations[RelationPlace(g)] = g.relation
  <2>1. \E k \in DOMAIN Relations : Relations[k] = g.relation
    BY DEF Relations, Strength
  <2> QED
    BY <2>1 DEF RelationPlace
<1>4. RelationPlace(g) \in Nat
  BY <1>3 DEF Relations
<1>5. QueueRank(g) = <<g.priority, g.confidence, RelationPlace(g), Min({i, j}), Max({i, j})>>
  BY <1>1 DEF QueueRank
<1> QED
  BY <1>1, <1>2, <1>3, <1>4, <1>5

\* What the ranking promises of groups: they are made of pairs that were
\* retrieved and of the evidence, and have ids of their own.
Sound(a, E, F, R) ==
    /\ \A g \in R : /\ g.pair \in Retrieved(a, Focus(a))
                     /\ g.relation = RelationOf(a, E, F, g.pair)
                     /\ g.mode = EvidenceMode(a, E, g.pair)
                     /\ g.id = <<g.relation, {g.pair.anchor.id, g.pair.candidate.id}>>
                     /\ g.priority \in Nat /\ g.confidence \in Nat
    /\ \A g, h \in R : g.id = h.id => g = h

LEMMA GroupFields ==
    ASSUME NEW a, NEW E, NEW F, NEW p
    PROVE  LET g == Group(a, E, F, p) IN
           /\ g.pair = p /\ g.relation = RelationOf(a, E, F, p)
           /\ g.mode = EvidenceMode(a, E, p)
           /\ g.id = <<RelationOf(a, E, F, p), {p.anchor.id, p.candidate.id}>>
           /\ g.priority \in Nat /\ g.confidence \in Nat
<1> DEFINE relation == RelationOf(a, E, F, p)
           blockers == BlockersOf(a, E, F, p, relation)
           priority == PriorityOf(p, relation, blockers,
                                  Silenced(F, E, p, relation, blockers))
<1>1. priority \in Nat
  BY DEF PriorityOf, Noise, Low, Medium, High
<1>2. ConfidenceOf(relation, priority) \in Nat
  <2>1. CASE priority = Noise
    BY <2>1 DEF ConfidenceOf, Noise
  <2>2. CASE priority # Noise /\ relation = "exact-statement"
    BY <2>2 DEF ConfidenceOf, High
  <2>3. CASE priority # Noise /\ relation = "near-statement"
    BY <2>3 DEF ConfidenceOf, Low
  <2>4. CASE priority # Noise /\ relation \notin {"exact-statement", "near-statement"}
    BY <2>4 DEF ConfidenceOf, Medium
  <2> QED
    BY <2>1, <2>2, <2>3, <2>4
<1> HIDE DEF priority, blockers, relation
<1> QED
  BY <1>1, <1>2 DEF Group, relation, blockers, priority

LEMMA RankedIsSound ==
    ASSUME NEW a \in Audits, NEW E, NEW F, NEW pairs \in SUBSET Retrieved(a, Focus(a))
    PROVE  Sound(a, E, F, Ranked(a, E, F, pairs))
<1> DEFINE R == Ranked(a, E, F, pairs)
           staying == {q \in pairs : Stays(a, E, F, pairs, q)}
<1>1. ASSUME NEW g \in R
      PROVE  \E p \in staying : g = Group(a, E, F, p)
  BY DEF Ranked
<1>2. ASSUME NEW p \in staying, NEW q \in staying,
             RelationOf(a, E, F, p) = RelationOf(a, E, F, q),
             {p.anchor.id, p.candidate.id} = {q.anchor.id, q.candidate.id}
      PROVE  p = q
  <2>1. p \in Retrieved(a, Focus(a)) /\ q \in Retrieved(a, Focus(a))
    OBVIOUS
  <2>2. /\ p.anchor \in AllRows(a) /\ p.candidate \in AllRows(a)
        /\ q.anchor \in AllRows(a) /\ q.candidate \in AllRows(a)
    BY <2>1, EndsOfPair, RowsOfAudit
  <2>3. Members(p) = Members(q)
    <3>1. p.anchor.id = q.anchor.id \/ p.anchor.id = q.candidate.id
      BY <1>2
    <3>2. p.candidate.id = q.anchor.id \/ p.candidate.id = q.candidate.id
      BY <1>2
    <3>3. q.anchor.id = p.anchor.id \/ q.anchor.id = p.candidate.id
      BY <1>2
    <3>4. q.candidate.id = p.anchor.id \/ q.candidate.id = p.candidate.id
      BY <1>2
    <3>5. \A d, e \in AllRows(a) : d.id = e.id => d = e
      BY RowsOfAudit
    <3> QED
      BY <2>2, <3>1, <3>2, <3>3, <3>4, <3>5 DEF Members
  <2>4. p.anchor.id <= q.anchor.id /\ q.anchor.id <= p.anchor.id
    BY <1>2, <2>3 DEF Stays
  <2>5. /\ p.anchor.id \in 1 .. 99 /\ p.candidate.id \in 1 .. 99
        /\ q.anchor.id \in 1 .. 99 /\ q.candidate.id \in 1 .. 99
    BY <2>1, KeyOfPair
  <2>6. p.anchor.id = q.anchor.id
    <3>1. \A i, j \in 1 .. 99 : i <= j /\ j <= i => i = j
      OBVIOUS
    <3> QED
      BY <2>4, <2>5, <3>1
  <2>7. p.candidate.id = q.candidate.id
    <3>1. \A i, j, k : {i, j} = {i, k} => j = k
      <4> SUFFICES ASSUME NEW i, NEW j, NEW k, {i, j} = {i, k}
                   PROVE  j = k
        OBVIOUS
      <4>1. j \in {i, k} /\ k \in {i, j}
        OBVIOUS
      <4> QED
        BY <4>1
    <3> QED
      BY <1>2, <2>6, <3>1
  <2> QED
    BY <2>1, <2>6, <2>7, KeyOfPair
<1>3. ASSUME NEW g \in R, NEW h \in R, g.id = h.id
      PROVE  g = h
  <2>1. PICK p \in staying : g = Group(a, E, F, p)
    BY <1>1
  <2>2. PICK q \in staying : h = Group(a, E, F, q)
    BY <1>1
  <2>3. <<RelationOf(a, E, F, p), {p.anchor.id, p.candidate.id}>>
            = <<RelationOf(a, E, F, q), {q.anchor.id, q.candidate.id}>>
    BY <1>3, <2>1, <2>2, GroupFields
  <2>4. p = q
    BY <1>2, <2>3
  <2> QED
    BY <2>1, <2>2, <2>4
<1>4. ASSUME NEW g \in R
      PROVE  /\ g.pair \in Retrieved(a, Focus(a))
             /\ g.relation = RelationOf(a, E, F, g.pair)
             /\ g.mode = EvidenceMode(a, E, g.pair)
             /\ g.id = <<g.relation, {g.pair.anchor.id, g.pair.candidate.id}>>
             /\ g.priority \in Nat /\ g.confidence \in Nat
  <2>1. PICK p \in staying : g = Group(a, E, F, p)
    BY <1>1
  <2> QED
    BY <2>1, GroupFields
<1> QED
  BY <1>3, <1>4 DEF Sound

\* Hints change what a group advises, not what it says.
LEMMA AdvisedIsSound ==
    ASSUME NEW a, NEW E, NEW F, NEW R, Sound(a, E, F, R),
           \A g \in R : \E p : g = Group(a, E, F, p)
    PROVE  Sound(a, E, F, Advised(a, F, R))
<1> DEFINE acted(g) == [g EXCEPT !.action = IF WrapsHelper(a, F, g)
                                            THEN "inline-private-helper" ELSE @]
           told(g) == [acted(g) EXCEPT !.hints = HintsOf(a, F, acted(g))]
<1>1. Advised(a, F, R) = {told(g) : g \in R}
  BY DEF Advised
<1>2. ASSUME NEW g \in R
      PROVE  /\ told(g).pair = g.pair /\ told(g).relation = g.relation
             /\ told(g).mode = g.mode /\ told(g).id = g.id
             /\ told(g).priority = g.priority /\ told(g).confidence = g.confidence
  <2>1. DOMAIN g = {"id", "pair", "relation", "blockers", "priority", "confidence",
                    "action", "target", "mode", "callers", "hints"}
    BY DEF Group
  <2> QED
    BY <2>1
<1> HIDE DEF told
<1> QED
  BY <1>1, <1>2 DEF Sound

LEMMA RankOfSound ==
    ASSUME NEW a \in Audits, NEW E, NEW F, NEW R, Sound(a, E, F, R), NEW g \in R
    PROVE  /\ \A k \in 1 .. 5 : QueueRank(g)[k] \in Nat
           /\ g.id = <<Relations[QueueRank(g)[3]], {QueueRank(g)[4], QueueRank(g)[5]}>>
<1>1. PICK n \in 1 .. 7 : g.relation = Strength[n]
  BY RelationIsStrongest DEF Sound
<1>2. g.pair.anchor.id \in Nat /\ g.pair.candidate.id \in Nat
  BY KeyOfPair DEF Sound
<1>3. g.id = <<g.relation, {g.pair.anchor.id, g.pair.candidate.id}>>
  BY DEF Sound
<1>4. g.priority \in Nat /\ g.confidence \in Nat
  BY DEF Sound
<1>5. /\ \A k \in 1 .. 5 : QueueRank(g)[k] \in Nat
      /\ g.relation = Relations[QueueRank(g)[3]]
      /\ g.id[2] = {QueueRank(g)[4], QueueRank(g)[5]}
  BY <1>1, <1>2, <1>3, <1>4, RankOfGroup
<1>6. g.id[2] = {g.pair.anchor.id, g.pair.candidate.id}
  BY <1>3
<1> QED
  BY <1>3, <1>5, <1>6

LEMMA FamilyHasFirst ==
    ASSUME NEW a \in Audits, NEW E, NEW F, NEW R, Sound(a, E, F, R),
           NEW S \in SUBSET R, NEW f \in Families(S)
    PROVE  First(f) \in f /\ f \subseteq S
<1>1. f \subseteq S /\ f # {}
  BY DEF Families
<1>2. ASSUME NEW g \in f
      PROVE  /\ \A k \in 1 .. 5 : QueueRank(g)[k] \in Nat
             /\ g.id = <<Relations[QueueRank(g)[3]], {QueueRank(g)[4], QueueRank(g)[5]}>>
  BY <1>1, RankOfSound
<1>3. ASSUME NEW g \in f, NEW h \in f, \A k \in 1 .. 5 : QueueRank(g)[k] = QueueRank(h)[k]
      PROVE  g = h
  <2>1. /\ QueueRank(g)[3] = QueueRank(h)[3]
        /\ QueueRank(g)[4] = QueueRank(h)[4] /\ QueueRank(g)[5] = QueueRank(h)[5]
    BY <1>3
  <2>2. g.id = h.id
    BY <1>2, <2>1
  <2> QED
    BY <1>1, <2>2 DEF Sound
<1> QED
  BY <1>1, <1>2, <1>3, FirstOfFamily

-----------------------------------------------------------------------------
(* What Lean was asked *)

Represents(c, p) ==
    /\ c.id = Key(p)
    /\ c.leftKind = p.anchor.kind /\ c.rightKind = p.candidate.kind
    /\ c.matches = {k[1] : k \in p.keys} \cap Prints

LEMMA CandidateIsOfPair ==
    ASSUME NEW a, NEW c \in Prepared(a).workload.candidates
    PROVE  \E p \in Retrieved(a, Focus(a)) : Represents(c, p)
<1> DEFINE pairs == Reviewed(a, Retrieved(a, Focus(a)))
<1>1. PICK p \in pairs : \E group, ranked : c = CandidateOf(a, p, group, ranked)
  BY DEF Prepared
<1>2. p \in Retrieved(a, Focus(a))
  BY DEF Reviewed
<1> QED
  BY <1>1, <1>2 DEF CandidateOf, Represents

LEMMA ObligationOfTheorems ==
    ASSUME NEW c, Askable(c), Obligation(c) # {}, Among(c, Theorems)
    PROVE  /\ "statement" \in c.matches => MatchClass(c) = "ExactTheorem"
           /\ "statement" \notin c.matches /\ "permutation" \in c.matches =>
                  MatchClass(c) = "PermutedTheorem"
           /\ /\ c.matches \cap {"statement", "permutation"} = {}
              /\ "connective" \in c.matches
              => MatchClass(c) \in {"Specialization", "Replacement"}
<1>1. MatchClass(c) \in Obligation(c)
  BY DEF MatchClass
<1>2. TheoremObligation(c) # {} => Obligation(c) = TheoremObligation(c)
  BY DEF Obligation
<1>3. CASE "statement" \in c.matches
  BY <1>1, <1>2, <1>3 DEF TheoremObligation
<1>4. CASE "statement" \notin c.matches /\ "permutation" \in c.matches
  BY <1>1, <1>2, <1>4 DEF TheoremObligation
<1>5. CASE c.matches \cap {"statement", "permutation"} = {} /\ "connective" \in c.matches
  <2>1. TheoremObligation(c) \in {{"Specialization"}, {"Replacement"}}
    <3>1. {"Replacement" : x \in c.matches \cap {"connective"}} = {"Replacement"}
      BY <1>5
    <3> QED
      BY <1>5, <3>1 DEF TheoremObligation
  <2> QED
    BY <1>1, <1>2, <1>5, <2>1
<1> QED
  BY <1>3, <1>4, <1>5

\* Evidence is of a kind that was asked for.
Answers(a, E) == \A k \in DOMAIN E : E[k].status = "verified" =>
    \E c \in Prepared(a).workload.candidates :
        c.id = k /\ Askable(c) /\ Obligation(c) # {} /\ E[k].kind = MatchClass(c)

\* A group that Lean stands behind has the relation that Lean has verified: what
\* the fingerprints suggest is what Lean was asked.
LEMMA RelationIsProved ==
    ASSUME NEW a \in Audits, NEW E, NEW F, Answers(a, E),
           NEW p \in Retrieved(a, Focus(a)),
           EvidenceMode(a, E, p) = "proof-grade",
           RelationOf(a, E, F, p)
               \in {"exact-statement", "permuted-statement", "connective-equivalent"}
    PROVE  Proved(E, p) \cap Kind(RelationOf(a, E, F, p)) # {}
<1> DEFINE relation == RelationOf(a, E, F, p)
           static(prints) == ~Required(a, p) /\ TheoremPair(p) /\ Shares(p, prints)
<1>1. PICK n \in 1 .. 7 : /\ relation = Strength[n]
                          /\ Holds(a, E, F, p, Strength[n])
                          /\ \A i \in 1 .. n - 1 : ~Holds(a, E, F, p, Strength[i])
  BY RelationIsStrongest
<1>2. /\ Holds(a, E, F, p, "exact-statement") <=>
             \/ Proved(E, p) \cap {"ExactTheorem", "ReducibleDefinition"} # {}
             \/ static({"statement"})
      /\ Holds(a, E, F, p, "specialization") <=>
             TheoremPair(p) /\ Proved(E, p) \cap {"Specialization"} # {}
      /\ Holds(a, E, F, p, "permuted-statement") <=>
             Proved(E, p) \cap {"PermutedTheorem"} # {} \/ static({"permutation"})
      /\ Holds(a, E, F, p, "connective-equivalent") <=>
             Proved(E, p) \cap {"Replacement"} # {} \/ static({"connective"})
  BY DEF Holds
<1>3. /\ relation = "exact-statement" => Holds(a, E, F, p, "exact-statement")
      /\ relation = "permuted-statement" =>
             /\ Holds(a, E, F, p, "permuted-statement")
             /\ ~Holds(a, E, F, p, "exact-statement")
      /\ relation = "connective-equivalent" =>
             /\ Holds(a, E, F, p, "connective-equivalent")
             /\ ~Holds(a, E, F, p, "exact-statement")
             /\ ~Holds(a, E, F, p, "specialization")
             /\ ~Holds(a, E, F, p, "permuted-statement")
  <2>1. /\ relation = "exact-statement" => n = 1
        /\ relation = "permuted-statement" => n = 3
        /\ relation = "connective-equivalent" => n = 4
    BY <1>1 DEF Strength
  <2>2. /\ Strength[1] = "exact-statement" /\ Strength[2] = "specialization"
        /\ Strength[3] = "permuted-statement" /\ Strength[4] = "connective-equivalent"
    BY DEF Strength
  <2> HIDE DEF relation
  <2> QED
    BY <1>1, <2>1, <2>2
<1>4. Proved(E, p) # {}
  <2> SUFFICES ASSUME Proved(E, p) = {}
               PROVE  FALSE
    OBVIOUS
  <2>1. Required(a, p)
    BY DEF EvidenceMode, Required
  <2> QED
    BY <1>2, <1>3, <2>1
<1>5. PICK x \in DOMAIN E : x = Key(p) /\ E[x].status = "verified" /\ E[x].kind \in Proved(E, p)
  BY <1>4 DEF Proved
<1>6. PICK c \in Prepared(a).workload.candidates :
          c.id = x /\ Askable(c) /\ Obligation(c) # {} /\ E[x].kind = MatchClass(c)
  BY <1>5 DEF Answers
<1>7. PICK q \in Retrieved(a, Focus(a)) : Represents(c, q)
  BY CandidateIsOfPair
<1>8. p = q
  <2>1. Key(p) = Key(q)
    BY <1>5, <1>6, <1>7 DEF Represents
  <2> QED
    BY <2>1, KeyOfPair
<1>9. MatchClass(c) \in Proved(E, p)
  BY <1>5, <1>6
<1>10. TheoremPair(p) => Among(c, Theorems)
  BY <1>7, <1>8 DEF Represents, TheoremPair, TheoremLike, TheoremKinds, Among, Theorems
<1>11. \A m \in Prints : m \in c.matches <=> Shares(p, {m})
  BY <1>7, <1>8 DEF Represents, Shares
<1>12. /\ "statement" \in c.matches <=> Shares(p, {"statement"})
       /\ "permutation" \in c.matches <=> Shares(p, {"permutation"})
       /\ "connective" \in c.matches <=> Shares(p, {"connective"})
  BY <1>11 DEF Prints
<1> HIDE DEF relation
<1>13. CASE relation = "exact-statement"
  <2>1. CASE static({"statement"})
    <3>1. MatchClass(c) = "ExactTheorem"
      BY <1>6, <1>10, <1>12, <2>1, ObligationOfTheorems
    <3> QED
      BY <1>9, <1>13, <3>1 DEF Kind, relation
  <2>2. CASE Proved(E, p) \cap {"ExactTheorem", "ReducibleDefinition"} # {}
    BY <1>13, <2>2 DEF Kind, relation
  <2> QED
    BY <1>2, <1>3, <1>13, <2>1, <2>2
<1>14. CASE relation = "permuted-statement"
  <2>1. CASE static({"permutation"})
    <3>1. ~Shares(p, {"statement"})
      BY <1>2, <1>3, <1>14, <2>1
    <3>2. MatchClass(c) = "PermutedTheorem"
      BY <1>6, <1>10, <1>12, <2>1, <3>1, ObligationOfTheorems
    <3> QED
      BY <1>9, <1>14, <3>2 DEF Kind, relation
  <2>2. CASE Proved(E, p) \cap {"PermutedTheorem"} # {}
    BY <1>14, <2>2 DEF Kind, relation
  <2> QED
    BY <1>2, <1>3, <1>14, <2>1, <2>2
<1>15. CASE relation = "connective-equivalent"
  <2>1. CASE static({"connective"})
    <3>1. ~Shares(p, {"statement"}) /\ ~Shares(p, {"permutation"})
      BY <1>2, <1>3, <1>15, <2>1
    <3>2. MatchClass(c) \in {"Specialization", "Replacement"}
      BY <1>6, <1>10, <1>12, <2>1, <3>1, ObligationOfTheorems
    <3>3. MatchClass(c) # "Specialization"
      BY <1>2, <1>3, <1>9, <1>15, <2>1
    <3> QED
      BY <1>9, <1>15, <3>2, <3>3 DEF Kind, relation
  <2>2. CASE Proved(E, p) \cap {"Replacement"} # {}
    BY <1>15, <2>2 DEF Kind, relation
  <2> QED
    BY <1>2, <1>3, <1>15, <2>1, <2>2
<1> QED
  BY <1>13, <1>14, <1>15 DEF relation

-----------------------------------------------------------------------------
(* What hints know *)

LEMMA CleanupsOfRelations ==
    ASSUME NEW C, NEW F, NEW p, NEW n \in 1 .. 7
    PROVE  /\ ActionOf(C, F, p, Strength[n]) \in Cleanups <=> n \in {1, 3, 4}
           /\ ActionOf(C, F, p, Strength[n]) # "inline-private-helper"
<1> DEFINE action(relation) == ActionOf(C, F, p, relation)
<1>1. action("exact-statement") \in {"already-in-mathlib", "local-alias", "replace-local-uses"}
  <2>1. CASE p.candidate.origin = "mathlib"
    BY <2>1 DEF ActionOf
  <2>2. CASE p.candidate.origin # "mathlib"
    BY <2>2 DEF ActionOf
  <2> QED
    BY <2>1, <2>2
<1>2. action("permuted-statement") = "local-alias"
  BY DEF ActionOf
<1>3. action("connective-equivalent") = "local-alias"
  BY DEF ActionOf
<1>4. action("specialization") = "specialization-of"
  BY DEF ActionOf
<1>5. action("source-clone") = "probable-source-clone"
  BY DEF ActionOf
<1>6. action("subsumption-candidate") = "merge-generalization"
  BY DEF ActionOf
<1>7. action("near-statement") = "manual-review"
  BY DEF ActionOf
<1> HIDE DEF action
<1>8. /\ Strength[1] = "exact-statement" /\ Strength[2] = "specialization"
      /\ Strength[3] = "permuted-statement" /\ Strength[4] = "connective-equivalent"
      /\ Strength[5] = "source-clone" /\ Strength[6] = "subsumption-candidate"
      /\ Strength[7] = "near-statement"
  BY DEF Strength
<1>9. /\ action(Strength[n]) \in Cleanups <=> n \in {1, 3, 4}
      /\ action(Strength[n]) # "inline-private-helper"
  <2>1. n = 1 \/ n = 2 \/ n = 3 \/ n = 4 \/ n = 5 \/ n = 6 \/ n = 7
    OBVIOUS
  <2> QED
    BY <1>1, <1>2, <1>3, <1>4, <1>5, <1>6, <1>7, <1>8, <2>1 DEF Cleanups
<1> QED
  BY <1>9 DEF action

\* A search for uses changes no more of a group than its callers and its choice
\* among the cleanups.
LEMMA RelationOfRows ==
    ASSUME NEW C, NEW E, NEW F, NEW G, F.rows = G.rows, NEW p
    PROVE  RelationOf(C, E, F, p) = RelationOf(C, E, G, p)
<1>1. Clones(F, p) = Clones(G, p)
  BY DEF Clones
<1>2. ASSUME NEW i \in DOMAIN Strength
      PROVE  Holds(C, E, F, p, Strength[i]) <=> Holds(C, E, G, p, Strength[i])
  <2>1. Strength[i] # "source-clone" =>
            (Holds(C, E, F, p, Strength[i]) <=> Holds(C, E, G, p, Strength[i]))
    BY DEF Holds, Strength
  <2>2. Holds(C, E, F, p, "source-clone") <=> Holds(C, E, G, p, "source-clone")
    BY <1>1 DEF Holds
  <2> QED
    BY <2>1, <2>2
<1>3. {i \in DOMAIN Strength : Holds(C, E, F, p, Strength[i])}
          = {i \in DOMAIN Strength : Holds(C, E, G, p, Strength[i])}
  BY <1>2
<1> QED
  BY <1>3 DEF RelationOf

LEMMA GroupOfRows ==
    ASSUME NEW C, NEW E, NEW F, NEW G, F.rows = G.rows, NEW p
    PROVE  LET g == Group(C, E, F, p)
               h == Group(C, E, G, p)
           IN /\ Hinted(g) <=> Hinted(h)
              /\ \A o : Includes(o, g) <=> Includes(o, h)
<1> DEFINE relation == RelationOf(C, E, F, p)
           blockers(H) == BlockersOf(C, E, H, p, relation)
           priority(H) == PriorityOf(p, relation, blockers(H),
                                     Silenced(H, E, p, relation, blockers(H)))
           g == Group(C, E, F, p)
           h == Group(C, E, G, p)
<1>1. RelationOf(C, E, G, p) = relation
  BY RelationOfRows
<1>2. Settles(F, E, p) = Settles(G, E, p)
  BY DEF Settles, Clones
<1>3. blockers(F) = blockers(G)
  BY <1>2 DEF BlockersOf
<1>4. priority(F) = priority(G)
  BY <1>2, <1>3 DEF Silenced
<1>5. /\ g.pair = h.pair /\ g.blockers = h.blockers
      /\ g.priority = h.priority /\ g.confidence = h.confidence
  BY <1>1, <1>3, <1>4 DEF Group
<1>6. g.action \in Cleanups <=> h.action \in Cleanups
  <2>1. PICK n \in 1 .. 7 : relation = Strength[n]
    BY RelationIsStrongest
  <2>2. g.action = ActionOf(C, F, p, relation) /\ h.action = ActionOf(C, G, p, relation)
    BY <1>1 DEF Group
  <2> HIDE DEF relation, g, h
  <2> QED
    BY <2>1, <2>2, CleanupsOfRelations
<1> HIDE DEF g, h
<1> QED
  BY <1>5, <1>6 DEF Hinted, Includes, g, h

\* The pairs whose uses are looked for.
HintedPairs(C, o, E, F, pairs) ==
    {p \in pairs : /\ Stays(C, E, F, pairs, p)
                   /\ Includes(o, Group(C, E, F, p)) /\ Hinted(Group(C, E, F, p))}

LEMMA WantedOfRows ==
    ASSUME NEW C, NEW o, NEW E, NEW F, NEW G, F.rows = G.rows, NEW pairs,
           NEW p \in HintedPairs(C, o, E, F, pairs), NEW d \in LocalMembers(C, p)
    PROVE  d.id \in WantedUses(C, o, Ranked(C, E, G, pairs))
<1>1. \A q : RelationOf(C, E, F, q) = RelationOf(C, E, G, q)
  BY RelationOfRows
<1>2. Stays(C, E, G, pairs, p)
  BY <1>1 DEF HintedPairs, Stays
<1> DEFINE g == Group(C, E, G, p)
<1>3. Includes(o, g) /\ Hinted(g)
  BY GroupOfRows DEF HintedPairs
<1>4. g \in Ranked(C, E, G, pairs)
  BY <1>2 DEF HintedPairs, Ranked
<1>5. g.pair = p
  BY GroupFields
<1> HIDE DEF g
<1>6. d \in UNION {LocalMembers(C, h.pair) :
                     h \in {x \in Ranked(C, E, G, pairs) : Includes(o, x) /\ Hinted(x)}}
  BY <1>3, <1>4, <1>5
<1> QED
  BY <1>6 DEF WantedUses

\* attach_replacement_hints, for one group.
Acted(C, F, g) ==
    [g EXCEPT !.action = IF WrapsHelper(C, F, g) THEN "inline-private-helper" ELSE @]

Told(C, F, g) == [Acted(C, F, g) EXCEPT !.hints = HintsOf(C, F, Acted(C, F, g))]

LEMMA AdvisedAreTold ==
    ASSUME NEW C, NEW F, NEW R
    PROVE  Advised(C, F, R) = {Told(C, F, g) : g \in R}
BY DEF Advised, Told, Acted

LEMMA ToldFields ==
    ASSUME NEW C, NEW E, NEW F, NEW p
    PROVE  LET g == Group(C, E, F, p)
               x == Acted(C, F, g)
               t == Told(C, F, g)
           IN /\ x.pair = p /\ x.blockers = g.blockers /\ x.priority = g.priority
              /\ x.confidence = g.confidence /\ x.target = TargetOf(p) /\ x.mode = g.mode
              /\ x.action = IF WrapsHelper(C, F, g) THEN "inline-private-helper" ELSE g.action
              /\ t.pair = p /\ t.blockers = g.blockers /\ t.priority = g.priority
              /\ t.relation = g.relation /\ t.mode = g.mode
              /\ t.target = TargetOf(p) /\ t.action = x.action /\ t.hints = HintsOf(C, F, x)
<1> DEFINE g == Group(C, E, F, p)
           x == Acted(C, F, g)
<1>1. DOMAIN g = {"id", "pair", "relation", "blockers", "priority", "confidence",
                  "action", "target", "mode", "callers", "hints"}
  BY DEF Group
<1>2. g.pair = p /\ g.target = TargetOf(p)
  BY DEF Group
<1> HIDE DEF g
<1>3. /\ x.pair = p /\ x.blockers = g.blockers /\ x.priority = g.priority
      /\ x.relation = g.relation
      /\ x.confidence = g.confidence /\ x.target = TargetOf(p) /\ x.mode = g.mode
      /\ x.action = IF WrapsHelper(C, F, g) THEN "inline-private-helper" ELSE g.action
      /\ DOMAIN x = DOMAIN g
  BY <1>1, <1>2 DEF Acted
<1> DEFINE t == [x EXCEPT !.hints = HintsOf(C, F, x)]
<1> HIDE DEF x
<1>4. /\ t.pair = x.pair /\ t.blockers = x.blockers /\ t.priority = x.priority
      /\ t.relation = x.relation /\ t.mode = x.mode
      /\ t.target = x.target /\ t.action = x.action /\ t.hints = HintsOf(C, F, x)
  BY <1>1, <1>3
<1>5. Told(C, F, g) = t
  BY DEF Told, x
<1> QED
  BY <1>3, <1>4, <1>5 DEF g, x

LEMMA ReplacedHaveFewUses ==
    ASSUME NEW C, NEW F, NEW p, NEW n \in 1 .. 7,
           ActionOf(C, F, p, Strength[n]) = "replace-local-uses"
    PROVE  /\ CallerCount(C, F, p) \in 1 .. AliasCallers - 1
           /\ Imports(C, F, LocalMembers(C, p), TargetOf(p).module) # "missing"
<1>1. n = 1
  <2>1. n \in {1, 3, 4}
    BY CleanupsOfRelations DEF Cleanups
  <2>2. n = 3 \/ n = 4 => Strength[n] \in {"permuted-statement", "connective-equivalent"}
    BY DEF Strength
  <2>3. ASSUME NEW r \in {"permuted-statement", "connective-equivalent"}
        PROVE  ActionOf(C, F, p, r) = "local-alias"
    BY DEF ActionOf
  <2> QED
    BY <2>1, <2>2, <2>3
<1>2. ActionOf(C, F, p, "exact-statement") = "replace-local-uses"
  BY <1>1 DEF Strength
<1>3. CASE p.candidate.origin = "mathlib"
  BY <1>2, <1>3 DEF ActionOf
<1>4. CASE p.candidate.origin # "mathlib"
  BY <1>2, <1>4 DEF ActionOf
<1> QED
  BY <1>3, <1>4

\* What may be said of a declaration whose uses were looked for.
LEMMA UsesOfScanned ==
    ASSUME NEW F, NEW d, WasScanned(F, d), d.file \in {"read", "unread", "none"}
    PROVE  /\ UseStatus(F, d) \in {"missing-source", "unavailable", "truncated", "complete"}
           /\ UseStatus(F, d) = "unavailable" <=> d.file = "unread"
           /\ UseStatus(F, d) = "missing-source" <=> d.file = "none"
           /\ UseStatus(F, d) = "complete" => Listed(F, d) = Uses(F, d)
<1>1. CASE d.file = "none"
  BY <1>1 DEF UseStatus
<1>2. CASE d.file = "unread"
  BY <1>2 DEF UseStatus
<1>3. CASE d.file = "read"
  <2>1. UseStatus(F, d) \in {"truncated", "complete"}
    BY <1>3 DEF UseStatus
  <2>2. UseStatus(F, d) = "complete" => Listed(F, d) = Uses(F, d)
    BY DEF Listed
  <2> QED
    BY <1>3, <2>1, <2>2
<1> QED
  BY <1>1, <1>2, <1>3

\* Where all local members were looked for, the least known decides.
LEMMA LeastKnown ==
    ASSUME NEW a, NEW F, NEW g, LocalMembers(a, g.pair) \subseteq F.rows,
           LocalMembers(a, g.pair) # {},
           \A d \in LocalMembers(a, g.pair) :
               UseStatus(F, d) \in {"missing-source", "unavailable", "truncated", "complete"}
    PROVE  /\ \E d \in LocalMembers(a, g.pair) : UsesKnown(a, F, g) = UseStatus(F, d)
           /\ UsesKnown(a, F, g) = "complete" <=>
                  \A d \in LocalMembers(a, g.pair) : UseStatus(F, d) = "complete"
<1> DEFINE locals == LocalMembers(a, g.pair)
           known == {UseStatus(F, d) : d \in locals}
           S == {i \in DOMAIN Doubt : Doubt[i] \in known}
<1>1. /\ DOMAIN Doubt = 1 .. 5 /\ Doubt[1] = "missing-source" /\ Doubt[2] = "unavailable"
      /\ Doubt[3] = "truncated" /\ Doubt[4] = "not-requested" /\ Doubt[5] = "complete"
  BY DEF Doubt
<1>2. known # {} /\ known \subseteq {Doubt[1], Doubt[2], Doubt[3], Doubt[5]}
  BY <1>1
<1>3. S \in SUBSET Nat /\ S # {}
  BY <1>1, <1>2
<1>4. Min(S) \in S /\ \A i \in S : Min(S) <= i
  BY <1>3, MinIsLeast
<1>5. UsesKnown(a, F, g) = Doubt[Min(S)]
  BY DEF UsesKnown
<1> DEFINE m == Min(S)
<1> HIDE DEF known, m
<1>6. m \in 1 .. 5 /\ Doubt[m] \in known /\ \A i \in 1 .. 5 : Doubt[i] \in known => m <= i
  BY <1>1, <1>4 DEF m
<1>7. Doubt[m] = "complete" <=> known = {"complete"}
  <2>1. ASSUME Doubt[m] = "complete"
        PROVE  known = {"complete"}
    <3>1. m = 5
      BY <1>1, <1>6, <2>1
    <3>2. Doubt[1] \notin known /\ Doubt[2] \notin known /\ Doubt[3] \notin known
      BY <1>6, <3>1
    <3> QED
      BY <1>1, <1>2, <3>2
  <2> QED
    BY <1>6, <2>1
<1>8. known = {"complete"} <=> \A d \in locals : UseStatus(F, d) = "complete"
  BY DEF known
<1> QED
  BY <1>5, <1>6, <1>7, <1>8 DEF known, m

LEMMA ImpactOf ==
    ASSUME NEW a, NEW F, NEW g,
           UsesKnown(a, F, g) \in {"missing-source", "unavailable", "truncated", "complete"}
    PROVE  /\ CallerImpact(a, F, g) = "unknown" => UsesKnown(a, F, g) = "unavailable"
           /\ CallerImpact(a, F, g) = "none" =>
                  UsesKnown(a, F, g) = "complete" /\ Callers(a, F, g.pair) = {}
BY DEF CallerImpact

\* What the hint of a group says, if all its local members are among the rows of
\* the source facts and were looked for.
LEMMA HintIsInformed ==
    ASSUME NEW a \in Audits, NEW E, NEW F, NEW p \in Retrieved(a, Focus(a)),
           F.rows \subseteq a.rows, LocalMembers(a, p) \subseteq F.rows,
           \A d \in LocalMembers(a, p) : d.id \in F.scanned,
           NEW h \in Told(a, F, Group(a, E, F, p)).hints
    PROVE  LET g == Told(a, F, Group(a, E, F, p))
               locals == LocalMembers(a, p)
           IN /\ h.impact = "unknown" => \E d \in locals : d.file = "unread"
              /\ h.impact = "none" => \A d \in locals : d.uses \cap
                     ({r.module : r \in {x \in F.rows : x.file = "read"}} \X Nat) = {}
              /\ g.action = "replace-local-uses" => h.imports # "missing" /\ h.impact # "none"
              /\ g.action = "inline-private-helper" =>
                     h.impact = "wrapper-only" \/ UseStatus(F, g.target) = "truncated"
<1> DEFINE locals == LocalMembers(a, p)
           group == Group(a, E, F, p)
           x == Acted(a, F, group)
           g == Told(a, F, group)
           t == TargetOf(p)
<1>1. /\ x.pair = p /\ x.target = t /\ g.target = t /\ g.action = x.action
      /\ g.hints = HintsOf(a, F, x)
      /\ x.action = IF WrapsHelper(a, F, group) THEN "inline-private-helper" ELSE group.action
  BY ToldFields
<1>2. group.pair = p /\ group.target = t /\ group.action = ActionOf(a, F, p, RelationOf(a, E, F, p))
  BY DEF Group
<1> HIDE DEF x, g, group, t
<1>3. /\ h.impact = CallerImpact(a, F, x) /\ h.imports = HintImports(a, F, x)
      /\ locals # {}
  BY <1>1 DEF HintsOf, g, group
<1>4. ASSUME NEW d \in locals
      PROVE  /\ d \in Declaration /\ WasScanned(F, d)
             /\ UseStatus(F, d) \in {"missing-source", "unavailable", "truncated", "complete"}
             /\ UseStatus(F, d) = "unavailable" <=> d.file = "unread"
             /\ UseStatus(F, d) = "missing-source" <=> d.file = "none"
             /\ UseStatus(F, d) = "complete" => Listed(F, d) = Uses(F, d)
  <2>1. d \in Declaration
    BY AuditAssumption DEF LocalMembers, Audit
  <2>2. WasScanned(F, d)
    BY DEF WasScanned
  <2>3. d.file \in {"read", "unread", "none"}
    BY <2>1 DEF Declaration
  <2> QED
    BY <2>1, <2>2, <2>3, UsesOfScanned
<1>5. /\ \E d \in locals : UsesKnown(a, F, x) = UseStatus(F, d)
      /\ UsesKnown(a, F, x) = "complete" <=> \A d \in locals : UseStatus(F, d) = "complete"
  BY <1>1, <1>3, <1>4, LeastKnown
<1>6. UsesKnown(a, F, x) \in {"missing-source", "unavailable", "truncated", "complete"}
  BY <1>4, <1>5
<1>7. /\ h.impact = "unknown" => UsesKnown(a, F, x) = "unavailable"
      /\ h.impact = "none" => UsesKnown(a, F, x) = "complete" /\ Callers(a, F, p) = {}
      /\ /\ UsesKnown(a, F, x) = "complete" /\ Callers(a, F, p) # {}
         /\ x.action = "inline-private-helper" /\ WrapperOnly(a, F, x)
         => h.impact = "wrapper-only"
  <2>1. /\ CallerImpact(a, F, x) = "unknown" => UsesKnown(a, F, x) = "unavailable"
        /\ CallerImpact(a, F, x) = "none" =>
               UsesKnown(a, F, x) = "complete" /\ Callers(a, F, x.pair) = {}
    BY <1>6, ImpactOf
  <2>2. ASSUME UsesKnown(a, F, x) = "complete", Callers(a, F, x.pair) # {},
               x.action = "inline-private-helper", WrapperOnly(a, F, x)
        PROVE  CallerImpact(a, F, x) = "wrapper-only"
    BY <2>2 DEF CallerImpact
  <2>3. x.pair = p /\ h.impact = CallerImpact(a, F, x)
    BY <1>1, <1>3
  <2> QED
    BY <2>1, <2>2, <2>3
<1>8. h.impact = "unknown" => \E d \in locals : d.file = "unread"
  BY <1>4, <1>5, <1>7
<1>9. ASSUME h.impact = "none", NEW d \in locals
      PROVE  d.uses \cap ({r.module : r \in {y \in F.rows : y.file = "read"}} \X Nat) = {}
  <2>1. Listed(F, d) = {}
    <3>1. \A v \in Listed(F, d) : <<d, v>> \in Callers(a, F, p)
      BY DEF Callers
    <3> QED
      BY <1>7, <1>9, <3>1
  <2>2. Uses(F, d) = {}
    BY <1>4, <1>5, <1>7, <1>9, <2>1
  <2> QED
    BY <2>2 DEF Uses
<1>10. PICK n \in 1 .. 7 : RelationOf(a, E, F, p) = Strength[n]
  BY RelationIsStrongest
<1>11. ASSUME g.action = "replace-local-uses"
       PROVE  h.imports # "missing" /\ h.impact # "none"
  <2>1. ActionOf(a, F, p, Strength[n]) = "replace-local-uses"
    BY <1>1, <1>2, <1>10, <1>11
  <2>2. /\ CallerCount(a, F, p) \in 1 .. AliasCallers - 1
        /\ Imports(a, F, LocalMembers(a, p), t.module) # "missing"
    BY <2>1, ReplacedHaveFewUses DEF t
  <2>3. Callers(a, F, p) # {}
    <3>1. CallerCount(a, F, p) # 0
      BY <2>2
    <3> QED
      BY <3>1, FS_EmptySet DEF CallerCount
  <2>4. h.imports # "missing"
    BY <1>1, <1>3, <2>2 DEF HintImports
  <2> QED
    BY <1>7, <2>3, <2>4
<1>12. ASSUME g.action = "inline-private-helper"
       PROVE  h.impact = "wrapper-only" \/ UseStatus(F, t) = "truncated"
  <2>1. WrapsHelper(a, F, group)
    <3>1. group.action # "inline-private-helper"
      BY <1>2, <1>10, CleanupsOfRelations
    <3> QED
      BY <1>1, <1>12, <3>1
  <2> DEFINE helpers == {d \in locals : ~d.public}
  <2>2. /\ t \in a.rows /\ t.public /\ Cardinality(helpers) = 1 /\ t.file # "none"
        /\ \A d \in helpers : /\ UseStatus(F, d) = "complete" /\ Uses(F, d) # {}
                              /\ \A u \in Uses(F, d) : u = <<t.module, t.id>>
    BY <1>2, <2>1 DEF WrapsHelper
  <2>3. PICK e : helpers = {e}
    <3>1. IsFiniteSet({p.anchor, p.candidate})
      <4>1. IsFiniteSet({p.anchor} \cup {p.candidate})
        BY FS_Singleton, FS_AddElement
      <4>2. {p.anchor} \cup {p.candidate} = {p.anchor, p.candidate}
        OBVIOUS
      <4> QED
        BY <4>1, <4>2
    <3>2. helpers \in SUBSET {p.anchor, p.candidate}
      BY DEF LocalMembers
    <3>3. IsFiniteSet(helpers)
      BY <3>1, <3>2, FS_Subset
    <3> HIDE DEF helpers
    <3> QED
      BY <2>2, <3>3, FS_Singleton
  <2>4. e \in locals /\ ~e.public
    BY <2>3
  <2>5. locals = {e, t} /\ t \in locals
    <3>1. t \in {p.anchor, p.candidate}
      BY DEF t, TargetOf
    <3>2. e # t
      BY <2>2, <2>4
    <3> QED
      BY <2>2, <2>4, <3>1, <3>2 DEF LocalMembers
  <2>6. PICK u \in Uses(F, e) : u = <<t.module, t.id>>
    BY <2>2, <2>3
  <2>7. t.file # "unread"
    <3>1. PICK r \in F.rows : r.file = "read" /\ r.module = t.module
      BY <2>6 DEF Uses
    <3>2. r \in AllRows(a) /\ t \in AllRows(a)
      BY <2>2, <3>1 DEF AllRows
    <3> QED
      BY <3>1, <3>2, CorpusAssumption
  <2>8. UseStatus(F, t) \in {"truncated", "complete"}
    BY <1>4, <2>2, <2>5, <2>7
  <2>9. ASSUME UseStatus(F, t) = "complete"
        PROVE  h.impact = "wrapper-only"
    <3>1. UsesKnown(a, F, x) = "complete"
      BY <1>5, <2>2, <2>3, <2>5, <2>9
    <3>2. Listed(F, e) = Uses(F, e)
      BY <1>4, <2>2, <2>3, <2>4
    <3>3. Callers(a, F, p) # {}
      <4>1. <<e, u>> \in {e} \X Listed(F, e)
        BY <2>6, <3>2
      <4> QED
        BY <2>4, <4>1 DEF Callers
    <3>4. {d \in LocalMembers(a, x.pair) \cap F.rows : ~d.public} = {e}
      BY <1>1, <2>3
    <3>5. WrapperOnly(a, F, x)
      BY <1>1, <2>2, <2>3, <3>2, <3>4 DEF WrapperOnly
    <3>6. x.action = "inline-private-helper"
      BY <1>1, <1>12
    <3> QED
      BY <1>7, <3>1, <3>3, <3>5, <3>6
  <2> QED
    BY <2>8, <2>9
<1> QED
  BY <1>1, <1>8, <1>9, <1>11, <1>12 DEF g, group

-----------------------------------------------------------------------------
(* The course of an audit *)

CourseInv ==
    /\ audit \in Audits
    /\ retrieved = Retrieved(audit, Focus(audit))
    /\ candidates = Prepared(audit).workload.candidates
    /\ (\A c \in Asked : Askable(c)) /\ (keying # None => Askable(keying))
    /\ Answers(audit, evidence)
    /\ stage \in {"scan", "ranked"} =>
           /\ Sound(audit, evidence, facts, review)
           /\ \A g \in review : \E p : g = Group(audit, evidence, facts, p)
    /\ stage # "reported" => report.findings = {}
    /\ LintIsPrecise

LEMMA CourseInvInit == AuditInit => CourseInv
<1> SUFFICES ASSUME AuditInit
             PROVE  CourseInv
  OBVIOUS
<1>1. PICK a \in Audits : /\ audit = Prepared(a).audit
                          /\ retrieved = Prepared(a).retrieved
                          /\ candidates = Prepared(a).workload.candidates
  BY DEF AuditInit, Beginnings
<1>2. Prepared(a).audit = a /\ Prepared(a).retrieved = Retrieved(a, Focus(a))
  BY DEF Prepared
<1>3. Asked = {} /\ keying = None
  BY DEF AuditInit, Asked
<1>4. Answers(audit, evidence)
  BY DEF AuditInit, NoEvidence, Answers
<1>5. stage = "plan" /\ report.findings = {}
  BY DEF AuditInit, NoReport
<1> QED
  BY <1>1, <1>2, <1>3, <1>4, <1>5 DEF CourseInv, LintIsPrecise

LEMMA AnswersFixed ==
    ASSUME CourseInv, settings' = settings, evidence' = evidence, audit' = audit
    PROVE  Answers(audit, evidence)'
<1>1. ASSUME NEW c
      PROVE  Obligation(c)' = Obligation(c) /\ MatchClass(c)' = MatchClass(c)
  <2>1. Obligation(c)' = Obligation(c)
    BY DEF Obligation
  <2> QED
    BY <2>1, ClassFixed
<1> QED
  BY <1>1 DEF CourseInv, Answers

LEMMA PreciseFixed ==
    ASSUME CourseInv, UNCHANGED <<evidence, audit, report>>
    PROVE  LintIsPrecise'
BY DEF CourseInv, LintIsPrecise, Focused

LEMMA CoursePlan ==
    ASSUME CourseInv, Plan
    PROVE  CourseInv'
<1>1. candidates' = candidates /\ settings' = settings
  BY DEF Plan, PlanNext, Collect, Select, Overlook, TakeUnavailable, TakeAskable,
         Digest, Visit, Digested, PlanProbe, Finish, planVars
<1>2. (\A c \in Asked' : Askable(c)) /\ (keying' # None => Askable(keying'))
  <2>1. CASE PlanProbe
    <3>1. Asked' = Asked \cup {keying} /\ keying # None /\ keying' = None
      BY <2>1, PlanProbeAsks DEF PlanProbe
    <3> QED
      BY <3>1 DEF CourseInv
  <2>2. CASE Select
    BY <2>2 DEF CourseInv, Select, Overlook, TakeUnavailable, TakeAskable, Asked
  <2>3. CASE Collect \/ Digest \/ Visit \/ Digested \/ Finish
    BY <2>3 DEF CourseInv, Collect, Digest, Visit, Digested, Finish, planVars, Asked
  <2> QED
    BY <2>1, <2>2, <2>3 DEF Plan, PlanNext
<1>3. UNCHANGED auditVars /\ stage = "plan"
  BY DEF Plan
<1>4. Answers(audit, evidence)'
  BY <1>1, <1>3, AnswersFixed DEF auditVars
<1>5. LintIsPrecise'
  BY <1>3, PreciseFixed DEF auditVars
<1> QED
  BY <1>1, <1>2, <1>3, <1>4, <1>5 DEF CourseInv, auditVars

LEMMA CourseVerify ==
    ASSUME PairInv, OrderInv, CourseInv, Verify
    PROVE  CourseInv'
<1>1. UNCHANGED <<audit, retrieved, candidates, settings, keying, planned, facts, review, report>>
  BY DEF Verify, closureVars, planVars
<1>2. stage = "plan" /\ stage' = "verified"
  BY DEF Verify
<1>3. PICK said \in [{c.id : c \in Asked} -> Rows] :
          evidence' = [k \in {c.id : c \in Taken} |->
                          IF k \in DOMAIN said THEN Said(CandidateAt(k), said[k])
                          ELSE Unasked(CandidateAt(k))]
  BY DEF Verify
<1>4. \A c, d \in candidates : c.id = d.id => c = d
  <2>1. Prepared(audit).workload \in Workloads
    BY AuditAssumption DEF CourseInv, Beginnings
  <2> QED
    BY <2>1, WorkloadAssumption DEF CourseInv
<1>5. ASSUME NEW k \in DOMAIN evidence', evidence'[k].status = "verified"
      PROVE  \E c \in candidates : /\ c.id = k /\ Askable(c) /\ Obligation(c) # {}
                                   /\ evidence'[k].kind = MatchClass(c)
  <2>1. k \in DOMAIN said
    <3>1. Unasked(CandidateAt(k)).status = "unavailable"
      BY DEF Unasked
    <3> QED
      BY <1>3, <1>5, <3>1
  <2>2. PICK c \in Asked : c.id = k
    BY <2>1
  <2>3. c \in candidates /\ Askable(c) /\ Obligation(c) # {}
    BY DEF PairInv, OrderInv, CourseInv, Taken, Suited
  <2>4. CandidateAt(k) = c
    BY <1>4, <2>2, <2>3 DEF CandidateAt
  <2>5. evidence'[k] = Said(c, said[k])
    BY <1>3, <1>5, <2>1, <2>4
  <2>6. evidence'[k].kind = MatchClass(c)
    BY <2>5 DEF Said
  <2> QED
    BY <2>2, <2>3, <2>6
<1>6. Answers(audit, evidence)'
  <2>1. ASSUME NEW c
        PROVE  Obligation(c)' = Obligation(c) /\ MatchClass(c)' = MatchClass(c)
    <3>1. Obligation(c)' = Obligation(c)
      BY <1>1 DEF Obligation
    <3> QED
      BY <1>1, <3>1, ClassFixed
  <2> QED
    BY <1>1, <1>5, <2>1 DEF CourseInv, Answers
<1>7. LintIsPrecise'
  BY <1>1, <1>2 DEF CourseInv, LintIsPrecise
<1> QED
  BY <1>1, <1>2, <1>6, <1>7 DEF CourseInv, Asked

LEMMA ReviewedAreRetrieved ==
    ASSUME NEW a, NEW pairs
    PROVE  Reviewed(a, pairs) \subseteq pairs
BY DEF Reviewed

LEMMA CourseRank ==
    ASSUME CourseInv, RankFinal \/ ScanReferences
    PROVE  CourseInv'
<1>1. /\ UNCHANGED <<audit, retrieved, candidates, settings, keying, planned, evidence, report>>
      /\ review' = Ranked(audit, evidence, facts', Reviewed(audit, retrieved))
  BY DEF RankFinal, ScanReferences, closureVars, planVars
<1>2. stage # "reported"
  BY DEF RankFinal, ScanReferences
<1>3. Answers(audit, evidence)'
  BY <1>1, AnswersFixed
<1>4. LintIsPrecise'
  BY <1>1, PreciseFixed
<1>5. Sound(audit, evidence, facts', review')
  <2>1. Reviewed(audit, retrieved) \in SUBSET Retrieved(audit, Focus(audit))
    BY ReviewedAreRetrieved DEF CourseInv
  <2>2. audit \in Audits
    BY DEF CourseInv
  <2> QED
    BY <1>1, <2>1, <2>2, RankedIsSound
<1>6. \A g \in review' : \E p : g = Group(audit, evidence, facts', p)
  BY <1>1 DEF Ranked
<1>7. Sound(audit, evidence, facts, review)'
         /\ (\A g \in review : \E p : g = Group(audit, evidence, facts, p))'
  BY <1>1, <1>5, <1>6
<1> QED
  BY <1>1, <1>2, <1>3, <1>4, <1>7 DEF CourseInv, Asked

LEMMA CourseReport ==
    ASSUME CourseInv, Report
    PROVE  CourseInv'
<1>1. /\ UNCHANGED <<audit, retrieved, candidates, settings, keying, planned, evidence, facts>>
      /\ review' = Advised(audit, facts, review)
      /\ stage = "ranked" /\ stage' = "reported"
  BY DEF Report, closureVars, planVars
<1>2. Answers(audit, evidence)'
  BY <1>1, AnswersFixed
<1>3. audit \in Audits /\ Answers(audit, evidence)
  BY DEF CourseInv
<1>4. Sound(audit, evidence, facts, review')
  BY <1>1, AdvisedIsSound DEF CourseInv
<1>5. ASSUME NEW f \in report'.findings
      PROVE  /\ Proved(evidence, First(f).pair) \cap Kind(First(f).relation) # {}
             /\ First(f).pair.anchor.id \in Focus(audit)
  <2>1. f \in Visible(audit.options) /\ IsFinding(f)
    BY DEF Report
  <2>2. PICK S \in SUBSET review' : f \in Families(S)
    BY <2>1 DEF Visible
  <2>3. First(f) \in review'
    BY <1>3, <1>4, <2>2, FamilyHasFirst
  <2> DEFINE g == First(f)
  <2>4. /\ g.pair \in Retrieved(audit, Focus(audit))
        /\ g.relation = RelationOf(audit, evidence, facts, g.pair)
        /\ g.mode = EvidenceMode(audit, evidence, g.pair)
    BY <1>4, <2>3 DEF Sound
  <2>5. /\ g.mode = "proof-grade"
        /\ g.relation \in {"exact-statement", "permuted-statement", "connective-equivalent"}
    BY <2>1 DEF IsFinding
  <2>6. g.pair.anchor.id \in Focus(audit)
    BY <2>4, EndsOfPair
  <2> HIDE DEF g
  <2>7. Proved(evidence, g.pair) \cap Kind(g.relation) # {}
    BY <1>3, <2>4, <2>5, RelationIsProved
  <2> QED
    BY <2>6, <2>7 DEF g
<1>6. LintIsPrecise'
  BY <1>1, <1>5 DEF LintIsPrecise, Focused
<1> QED
  BY <1>1, <1>2, <1>6 DEF CourseInv, Asked

LEMMA CourseInvNext ==
    ASSUME PairInv, OrderInv, CourseInv, [AuditNext]_allVars
    PROVE  CourseInv'
<1>1. CASE UNCHANGED allVars
  <2>1. UNCHANGED <<settings, candidates, keying, planned, audit, retrieved, stage,
                    evidence, facts, review, report>>
    BY <1>1 DEF allVars, planVars, auditVars
  <2>2. Answers(audit, evidence)' /\ LintIsPrecise'
    BY <2>1, AnswersFixed, PreciseFixed
  <2> QED
    BY <2>1, <2>2 DEF CourseInv, Asked
<1> QED
  BY <1>1, CoursePlan, CourseVerify, CourseRank, CourseReport DEF AuditNext

LEMMA CourseInvariant == AuditSpec => [](PairInv /\ OrderInv /\ CourseInv)
<1>1. PlanSpec => [](PairInv /\ HeapInv /\ OrderInv)
  BY PairInvInit, PairInvNext, OrderInvInit, HeapInvNext, OrderInvNext, PTL
     DEF PlanSpec, planAll
<1>2. AuditSpec => [](PairInv /\ HeapInv /\ OrderInv)
  BY <1>1, AuditRunsPlan, PTL
<1> QED
  BY <1>2, CourseInvInit, CourseInvNext, PTL DEF AuditSpec

\* Lint reports nothing, of any corpus, that Lean has not verified as just the
\* relation that it names: what lint_finding filters by, the mode and relation of
\* the first group of a family, comes from the evidence of that very pair.
THEOREM LintReportsFacts == AuditSpec => []LintIsPrecise
<1>1. CourseInv => LintIsPrecise
  BY DEF CourseInv
<1> QED
  BY <1>1, CourseInvariant, PTL

\* Whatever else a corpus holds, a declaration that shares the statement of one
\* in focus, up to order and connectives, is a candidate, or the lane of
\* fingerprints is full of others that share no less.
THEOREM StrongMatchesAreKept == AuditSpec => []StrongMatchesSurvive
<1>1. CourseInv => StrongMatchesSurvive
  <2> SUFFICES ASSUME CourseInv,
                      NEW a \in {d \in audit.rows : Focused(d)},
                      NEW c \in Others(audit, a) \ {p.candidate : p \in Candidates(audit, a)},
                      \E k \in PrintsOf(a, c) : k[1] # "conclusion"
               PROVE  LET worth == [d \in Others(audit, a) |-> Worth(audit, a, d, PrintsOf(a, d))]
                      IN Cardinality({d \in Others(audit, a) \ {c} :
                             /\ PrintsOf(a, d) # {}
                             /\ worth[d] > worth[c] \/ worth[d] = worth[c]}) >= LaneTopK
    <3> DEFINE prints(b) == [d \in Others(audit, b) |-> PrintsOf(b, d)]
    <3> QED
      BY DEF StrongMatchesSurvive, PrintsOf
  <2>1. audit \in Audits /\ a \in audit.rows
    BY DEF CourseInv
  <2>2. PrintsOf(a, c) # {}
    OBVIOUS
  <2> QED
    BY <2>1, <2>2, LaneKeepsStrong
<1> QED
  BY <1>1, CourseInvariant, PTL

-----------------------------------------------------------------------------
(* What a report advises *)

\* The review is the ranking of what was retrieved, by the facts at hand; what
\* the hints will speak of was looked for.
ReviewInv ==
    /\ facts = [rows |-> FirstFacts(audit, Reviewed(audit, retrieved)).rows,
                scanned |-> facts.scanned]
    /\ stage \in {"scan", "ranked"} =>
           review = Ranked(audit, evidence, facts, Reviewed(audit, retrieved))
    /\ stage = "ranked" => WantedUses(audit, audit.options, review) \subseteq facts.scanned
    /\ stage # "reported" => report.shown = {}
    /\ HintsAreInformed

LEMMA ReviewInvInit == AuditInit => ReviewInv
<1> SUFFICES ASSUME AuditInit
             PROVE  ReviewInv
  OBVIOUS
<1>1. PICK a \in Audits : /\ audit = Prepared(a).audit /\ facts = Prepared(a).facts
                          /\ retrieved = Prepared(a).retrieved
  BY DEF AuditInit, Beginnings
<1>2. audit = a /\ facts = FirstFacts(a, Reviewed(a, retrieved))
  BY <1>1 DEF Prepared
<1>3. stage = "plan" /\ report.shown = {}
  BY DEF AuditInit, NoReport
<1> QED
  BY <1>2, <1>3 DEF ReviewInv, FirstFacts, HintsAreInformed

LEMMA MembersAreFacts ==
    ASSUME NEW a, NEW pairs
    PROVE  /\ FirstFacts(a, pairs).rows \subseteq a.rows
           /\ \A p \in pairs : LocalMembers(a, p) \subseteq FirstFacts(a, pairs).rows
BY DEF FirstFacts, LocalMembers

LEMMA ReviewScan ==
    ASSUME ReviewInv, ScanReferences
    PROVE  ReviewInv'
<1> DEFINE pairs == Reviewed(audit, retrieved)
<1>1. /\ UNCHANGED <<audit, retrieved, evidence, report>>
      /\ stage = "scan" /\ stage' = "ranked"
      /\ facts' = [facts EXCEPT !.scanned = WantedUses(audit, audit.options, review)]
      /\ review' = Ranked(audit, evidence, facts', pairs)
  BY DEF ScanReferences
<1>2. /\ facts' = [rows |-> FirstFacts(audit, pairs).rows,
                   scanned |-> WantedUses(audit, audit.options, review)]
      /\ facts'.rows = facts.rows
  BY <1>1 DEF ReviewInv
<1>3. review = Ranked(audit, evidence, facts, pairs)
  BY <1>1 DEF ReviewInv
<1>4. WantedUses(audit, audit.options, review') \subseteq WantedUses(audit, audit.options, review)
  <2> SUFFICES ASSUME NEW i \in WantedUses(audit, audit.options, review')
               PROVE  i \in WantedUses(audit, audit.options, review)
    OBVIOUS
  <2>1. PICK g \in review' : /\ Includes(audit.options, g) /\ Hinted(g)
                             /\ \E d \in LocalMembers(audit, g.pair) : i = d.id
    BY DEF WantedUses
  <2>2. PICK p \in pairs : Stays(audit, evidence, facts', pairs, p)
                              /\ g = Group(audit, evidence, facts', p)
    BY <1>1 DEF Ranked
  <2>3. p \in HintedPairs(audit, audit.options, evidence, facts', pairs)
    BY <2>1, <2>2 DEF HintedPairs
  <2>4. PICK d \in LocalMembers(audit, p) : i = d.id
    BY <2>1, <2>2, GroupFields
  <2> QED
    BY <1>2, <1>3, <2>1, <2>3, <2>4, WantedOfRows
<1>5. HintsAreInformed'
  BY <1>1 DEF ReviewInv, HintsAreInformed
<1> QED
  BY <1>1, <1>2, <1>4, <1>5 DEF ReviewInv

LEMMA IncludesTold ==
    ASSUME NEW C, NEW E, NEW F, NEW p, NEW o
    PROVE  Includes(o, Told(C, F, Group(C, E, F, p))) <=> Includes(o, Group(C, E, F, p))
<1> DEFINE g == Group(C, E, F, p)
           t == Told(C, F, g)
<1>1. t.pair = g.pair /\ t.blockers = g.blockers /\ t.priority = g.priority
  BY ToldFields, GroupFields
<1> HIDE DEF g, t
<1>2. Includes(o, t) <=> Includes(o, g)
  BY <1>1 DEF Includes
<1> QED
  BY <1>2 DEF g, t

LEMMA HintedIfTold ==
    ASSUME NEW C, NEW E, NEW F, NEW p, NEW h \in Told(C, F, Group(C, E, F, p)).hints
    PROVE  Hinted(Group(C, E, F, p))
<1> DEFINE g == Group(C, E, F, p)
           x == Acted(C, F, g)
<1>1. /\ Told(C, F, g).hints = HintsOf(C, F, x)
      /\ x.blockers = g.blockers /\ x.confidence = g.confidence
      /\ x.action = IF WrapsHelper(C, F, g) THEN "inline-private-helper" ELSE g.action
  BY ToldFields
<1> HIDE DEF g, x
<1>2. h \in HintsOf(C, F, x)
  BY <1>1 DEF g
<1>3. Hinted(x)
  BY <1>2 DEF HintsOf
<1>4. g.action \in Cleanups
  BY <1>1, <1>3 DEF Hinted, WrapsHelper, Cleanups
<1>5. Hinted(g)
  BY <1>1, <1>3, <1>4 DEF Hinted
<1> QED
  BY <1>5 DEF g

LEMMA ReviewReport ==
    ASSUME CourseInv, ReviewInv, Report
    PROVE  ReviewInv'
<1> DEFINE pairs == Reviewed(audit, retrieved)
<1>1. /\ UNCHANGED <<audit, retrieved, evidence, facts>>
      /\ review' = Advised(audit, facts, review)
      /\ stage = "ranked" /\ stage' = "reported"
  BY DEF Report
<1>2. review = Ranked(audit, evidence, facts, pairs)
  BY <1>1 DEF ReviewInv
<1>3. audit \in Audits /\ retrieved = Retrieved(audit, Focus(audit))
  BY DEF CourseInv
<1>4. facts.rows = FirstFacts(audit, pairs).rows
  BY DEF ReviewInv
<1>5. ASSUME NEW g \in UNION report'.shown, NEW h \in g.hints
      PROVE  LET locals == LocalMembers(audit, g.pair)
             IN /\ h.impact = "unknown" => \E d \in locals : d.file = "unread"
                /\ h.impact = "none" => \A d \in locals : d.uses \cap
                       ({r.module : r \in {x \in facts.rows : x.file = "read"}} \X Nat) = {}
                /\ g.action = "replace-local-uses" => h.imports # "missing" /\ h.impact # "none"
                /\ g.action = "inline-private-helper" =>
                       h.impact = "wrapper-only" \/ UseStatus(facts, g.target) = "truncated"
  <2>1. g \in review' /\ Includes(audit.options, g)
    <3>1. PICK f \in Visible(audit.options) : g \in f
      BY DEF Report
    <3> QED
      BY <3>1 DEF Visible, Families
  <2>2. PICK p \in pairs : /\ Stays(audit, evidence, facts, pairs, p)
                           /\ g = Told(audit, facts, Group(audit, evidence, facts, p))
    BY <1>1, <1>2, <2>1, AdvisedAreTold DEF Ranked
  <2>3. p \in HintedPairs(audit, audit.options, evidence, facts, pairs)
    BY <2>1, <2>2, <1>5, IncludesTold, HintedIfTold DEF HintedPairs
  <2>4. \A d \in LocalMembers(audit, p) : d.id \in facts.scanned
    BY <1>1, <1>2, <2>3, WantedOfRows DEF ReviewInv
  <2>5. p \in Retrieved(audit, Focus(audit))
    BY <1>3 DEF Reviewed
  <2>6. facts.rows \subseteq audit.rows /\ LocalMembers(audit, p) \subseteq facts.rows
    BY <1>4, MembersAreFacts
  <2>7. g.pair = p
    BY <2>2, ToldFields
  <2> QED
    BY <1>3, <1>5, <2>2, <2>4, <2>5, <2>6, <2>7, HintIsInformed
<1>6. HintsAreInformed'
  BY <1>1, <1>5 DEF HintsAreInformed
<1> QED
  BY <1>1, <1>6 DEF ReviewInv

LEMMA ReviewInvNext ==
    ASSUME CourseInv, ReviewInv, [AuditNext]_allVars
    PROVE  ReviewInv'
<1>1. CASE UNCHANGED allVars \/ Plan \/ Verify
  <2>1. UNCHANGED <<audit, retrieved, facts, review, report>>
    BY <1>1 DEF Plan, Verify, allVars, auditVars
  <2>2. (stage' = stage /\ evidence' = evidence) \/ (stage = "plan" /\ stage' = "verified")
    BY <1>1 DEF Plan, Verify, allVars, auditVars
  <2>3. HintsAreInformed'
    BY <2>1 DEF ReviewInv, HintsAreInformed
  <2> QED
    BY <2>1, <2>2, <2>3 DEF ReviewInv
<1>2. CASE RankFinal
  <2>1. /\ UNCHANGED <<audit, retrieved, evidence, facts, report>>
        /\ stage = "verified"
        /\ review' = Ranked(audit, evidence, facts, Reviewed(audit, retrieved))
        /\ stage' = IF WantedUses(audit, audit.options, review') = {} THEN "ranked" ELSE "scan"
    BY <1>2 DEF RankFinal
  <2>2. HintsAreInformed'
    BY <2>1 DEF ReviewInv, HintsAreInformed
  <2> QED
    BY <2>1, <2>2 DEF ReviewInv
<1> QED
  BY <1>1, <1>2, ReviewScan, ReviewReport DEF AuditNext

\* For any corpus, what the report advises of uses and imports comes from a
\* search that was made for those very declarations.
THEOREM AdviceIsInformed == AuditSpec => []HintsAreInformed
<1>1. ReviewInv => HintsAreInformed
  BY DEF ReviewInv
<1> QED
  BY <1>1, CourseInvariant, ReviewInvInit, ReviewInvNext, PTL DEF AuditSpec

-----------------------------------------------------------------------------
(* Matches *)

\* What retrieval keeps of a pair holds all the fingerprints that it shares.
LEMMA SharedPrints ==
    ASSUME NEW a \in Audits, NEW p \in Retrieved(a, Focus(a)), NEW prints \in SUBSET Prints
    PROVE  Shares(p, prints) <=> \E k \in PrintsOf(p.anchor, p.candidate) : k[1] \in prints
<1>1. /\ p.candidate \in DOMAIN Found(a, p.anchor)
      /\ p = PairFor(a, p.anchor, p.candidate)
  BY EndsOfPair
<1>2. p.keys = Found(a, p.anchor)[p.candidate]
  BY <1>1 DEF PairFor
<1>3. p.candidate \in Others(a, p.anchor)
  BY <1>1 DEF Found
<1>4. {k \in p.keys : k[1] \in Prints} = PrintsOf(p.anchor, p.candidate)
  BY <1>1, <1>2, <1>3, PrintsAreFound
<1> QED
  BY <1>4 DEF Shares

LEMMA StrongIsNear ==
    ASSUME NEW a \in Audits, NEW p \in Retrieved(a, Focus(a)), StrongPair(p)
    PROVE  Near(p) /\ ~BroadHeadOnly(p) /\ p.score \in Nat
<1>1. /\ p.candidate \in DOMAIN Found(a, p.anchor)
      /\ p = PairFor(a, p.anchor, p.candidate)
      /\ p.anchor \in AllRows(a) /\ p.candidate \in AllRows(a)
  BY EndsOfPair, RowsOfAudit
<1>2. p.keys = Found(a, p.anchor)[p.candidate] /\ p.score = Worth(a, p.anchor, p.candidate, p.keys)
  BY <1>1 DEF PairFor
<1>3. p.candidate \in Others(a, p.anchor)
  BY <1>1 DEF Found
<1>4. p.keys = Meet(a, p.anchor, p.candidate)
  BY <1>1, <1>2, <1>3, PrintsAreFound
<1>5. p.keys \in SUBSET (p.anchor.keys \cap p.candidate.keys)
  BY <1>4 DEF Meet
<1>6. PICK k \in p.keys : k[1] \in {"statement", "permutation", "connective"}
  BY DEF StrongPair, Shares
<1>7. p.score >= NearScore /\ p.score \in Nat
  BY <1>1, <1>2, <1>5, <1>6, WorthOfAudit
<1>8. k[1] \notin Roles
  BY <1>6 DEF Roles, Heads
<1> QED
  BY <1>6, <1>7, <1>8 DEF Near, BroadHeadOnly

\* Two pairs of the same declarations are the two orders of them.
LEMMA ReversedPair ==
    ASSUME NEW a \in Audits, NEW p \in Retrieved(a, Focus(a)), NEW q \in Retrieved(a, Focus(a)),
           Members(p) = Members(q), p # q
    PROVE  q.anchor = p.candidate /\ q.candidate = p.anchor
<1>1. ~(p.anchor = q.anchor /\ p.candidate = q.candidate)
  BY KeyOfPair
<1>2. {p.anchor, p.candidate} = {q.anchor, q.candidate}
  BY DEF Members
<1> QED
  BY <1>1, <1>2

LEMMA ReversedIsAlike ==
    ASSUME NEW a \in Audits, NEW p \in Retrieved(a, Focus(a)), NEW q \in Retrieved(a, Focus(a)),
           Members(p) = Members(q), StrongPair(p), NEW F
    PROVE  /\ StrongPair(q)
           /\ RelationOf(a, NoEvidence, F, p) = RelationOf(a, NoEvidence, F, q)
<1>1. CASE p = q
  BY <1>1
<1>2. CASE p # q
  <2>1. q.anchor = p.candidate /\ q.candidate = p.anchor
    BY <1>2, ReversedPair
  <2>2. p.anchor \in a.rows /\ p.candidate \in a.rows
    BY <2>1, EndsOfPair
  <2>3. PrintsOf(p.anchor, p.candidate) = PrintsOf(q.anchor, q.candidate)
    BY <2>1 DEF PrintsOf
  <2>4. ASSUME NEW prints \in SUBSET Prints
        PROVE  Shares(p, prints) <=> Shares(q, prints)
    BY <2>3, SharedPrints
  <2>5. StrongPair(q)
    BY <2>4 DEF StrongPair, Prints
  <2>6. Near(p) /\ Near(q)
    BY <2>5, StrongIsNear
  <2>7. ~Required(a, p) /\ ~Required(a, q)
    BY <2>1, <2>2 DEF Required, Mode
  <2>8. TheoremPair(p) <=> TheoremPair(q)
    BY <2>1 DEF TheoremPair
  <2>9. Clones(F, p) <=> Clones(F, q)
    BY <2>1 DEF Clones
  <2>10. Proved(NoEvidence, p) = {} /\ Proved(NoEvidence, q) = {}
    BY DEF Proved, NoEvidence
  <2>11. ASSUME NEW i \in DOMAIN Strength
         PROVE  Holds(a, NoEvidence, F, p, Strength[i]) <=> Holds(a, NoEvidence, F, q, Strength[i])
    <3>1. /\ Shares(p, {"statement"}) <=> Shares(q, {"statement"})
          /\ Shares(p, {"permutation"}) <=> Shares(q, {"permutation"})
          /\ Shares(p, {"connective"}) <=> Shares(q, {"connective"})
      BY <2>4 DEF Prints
    <3>2. Strength[i] \in {"exact-statement", "specialization", "permuted-statement",
                           "connective-equivalent", "source-clone", "subsumption-candidate",
                           "near-statement"}
      BY DEF Strength
    <3> QED
      BY <2>6, <2>7, <2>8, <2>9, <2>10, <3>1, <3>2 DEF Holds
  <2>12. {i \in DOMAIN Strength : Holds(a, NoEvidence, F, p, Strength[i])}
             = {i \in DOMAIN Strength : Holds(a, NoEvidence, F, q, Strength[i])}
    BY <2>11
  <2> QED
    BY <2>5, <2>12 DEF RelationOf
<1> QED
  BY <1>1, <1>2

\* Of the two orders of a match it is the same that stays before and after the
\* verdicts.
LEMMA MatchStays ==
    ASSUME NEW a \in Audits, NEW pairs \in SUBSET Retrieved(a, Focus(a)), NEW F,
           NEW p \in pairs, StrongPair(p), Stays(a, NoEvidence, F, pairs, p), NEW E, NEW G
    PROVE  Stays(a, E, G, pairs, p)
<1> SUFFICES ASSUME NEW q \in pairs, Members(q) = Members(p)
             PROVE  p.anchor.id <= q.anchor.id
  BY DEF Stays
<1>1. RelationOf(a, NoEvidence, F, p) = RelationOf(a, NoEvidence, F, q)
  BY ReversedIsAlike
<1> QED
  BY <1>1 DEF Stays

LEMMA OneOrderStays ==
    ASSUME NEW a \in Audits, NEW pairs \in SUBSET Retrieved(a, Focus(a)), NEW F,
           NEW p \in pairs, StrongPair(p)
    PROVE  \E q \in pairs : Members(q) = Members(p) /\ Stays(a, NoEvidence, F, pairs, q)
<1>1. CASE Stays(a, NoEvidence, F, pairs, p)
  BY <1>1
<1>2. CASE ~Stays(a, NoEvidence, F, pairs, p)
  <2>1. PICK q \in pairs : Members(q) = Members(p) /\ ~(p.anchor.id <= q.anchor.id)
    BY <1>2 DEF Stays
  <2>2. p.anchor.id \in 1 .. 99 /\ q.anchor.id \in 1 .. 99
    BY KeyOfPair
  <2>3. q # p
    BY <2>1, <2>2
  <2>4. q.candidate = p.anchor
    BY <2>1, <2>3, ReversedPair
  <2>5. ASSUME NEW r \in pairs, Members(r) = Members(q)
        PROVE  q.anchor.id <= r.anchor.id
    <3>1. CASE r = q
      BY <2>2, <3>1
    <3>2. CASE r # q
      <4>1. r.anchor = p.anchor
        BY <2>4, <2>5, <3>2, ReversedPair
      <4>2. \A i, j \in 1 .. 99 : i <= j \/ j <= i
        OBVIOUS
      <4> QED
        BY <2>1, <2>2, <4>1, <4>2
    <3> QED
      BY <3>1, <3>2
  <2> QED
    BY <2>1, <2>5 DEF Stays
<1> QED
  BY <1>1, <1>2

-----------------------------------------------------------------------------
(* Policy *)

LEMMA PolicyOf ==
    ASSUME NEW p
    PROVE  LET B == PolicyBlockers(p) IN
           /\ "generated" \in B <=> \E d \in Members(p) : d.generated
           /\ "non-public" \in B <=> \E d \in Members(p) : ~d.public
           /\ "low-signal" \in B <=> \E d \in Members(p) : Marked(d)
           /\ "broad-head-only" \in B <=> BroadHeadOnly(p)
           /\ "instance" \in B <=> \E d \in Members(p) : InstanceLike(d)
           /\ "static-only" \in B <=> ~TheoremPair(p)
           /\ B \cap {"rejected", "unavailable", "unverified", "weak"} = {}
BY DEF PolicyBlockers

LEMMA BlockersOfPair ==
    ASSUME NEW C, NEW E, NEW F, NEW p, NEW relation
    PROVE  LET B == BlockersOf(C, E, F, p, relation) IN
           /\ \A b \in {"generated", "non-public", "low-signal", "broad-head-only", "instance"} :
                  b \in B <=> b \in PolicyBlockers(p)
           /\ "static-only" \in B <=> "static-only" \in PolicyBlockers(p) /\ ~Settles(F, E, p)
           /\ "unverified" \in B <=> Required(C, p) /\ StrongPair(p) /\ Proved(E, p) = {}
           /\ "weak" \in B <=> relation = "near-statement"
           /\ "rejected" \in B <=> Status(E, p) = "rejected"
           /\ "unavailable" \in B <=> Status(E, p) = "unavailable"
<1> DEFINE B == BlockersOf(C, E, F, p, relation)
           policy == PolicyBlockers(p)
           verdicts == {"rejected", "unavailable", "unverified", "weak"}
           held == {b \in policy : b = "static-only" => ~Settles(F, E, p)}
           said == {b \in verdicts :
                       CASE b = "unverified" -> Required(C, p) /\ StrongPair(p) /\ Proved(E, p) = {}
                         [] b = "weak"       -> relation = "near-statement"
                         [] OTHER            -> Status(E, p) = b}
<1>1. B = held \cup said
  BY DEF BlockersOf
<1>2. policy \cap verdicts = {}
  BY PolicyOf
<1>3. /\ "unverified" \in said <=> Required(C, p) /\ StrongPair(p) /\ Proved(E, p) = {}
      /\ "weak" \in said <=> relation = "near-statement"
      /\ "rejected" \in said <=> Status(E, p) = "rejected"
      /\ "unavailable" \in said <=> Status(E, p) = "unavailable"
      /\ said \subseteq verdicts
  OBVIOUS
<1> HIDE DEF said, policy, B
<1>4. "static-only" \in B <=> "static-only" \in policy /\ ~Settles(F, E, p)
  BY <1>1, <1>3
<1>5. \A b \in {"generated", "non-public", "low-signal", "broad-head-only", "instance"} :
          b \in B <=> b \in policy
  BY <1>1, <1>3
<1>6. \A b \in verdicts : b \in B <=> b \in said
  BY <1>1, <1>2
<1> QED
  BY <1>3, <1>4, <1>5, <1>6 DEF B, policy

LEMMA NearIsNotWeak ==
    ASSUME NEW C, NEW E, NEW F, NEW p, Near(p)
    PROVE  RelationOf(C, E, F, p) # "near-statement"
<1>1. PICK n \in 1 .. 7 : /\ RelationOf(C, E, F, p) = Strength[n]
                          /\ \A i \in 1 .. n - 1 : ~Holds(C, E, F, p, Strength[i])
  BY RelationIsStrongest
<1>2. Holds(C, E, F, p, Strength[6])
  BY DEF Holds, Strength
<1>3. n # 7
  BY <1>1, <1>2
<1> QED
  BY <1>1, <1>3 DEF Strength

\* The relation of a pair that Lean has verified as a duplicate is one of those
\* that lint reports.
LEMMA RelationOfVerified ==
    ASSUME NEW C, NEW E, NEW F, NEW p,
           Proved(E, p) \cap {"ExactTheorem", "ReducibleDefinition", "PermutedTheorem",
                              "Replacement"} # {}
    PROVE  RelationOf(C, E, F, p)
               \in {"exact-statement", "permuted-statement", "connective-equivalent"}
<1>1. PICK n \in 1 .. 7 : /\ RelationOf(C, E, F, p) = Strength[n]
                          /\ Holds(C, E, F, p, Strength[n])
                          /\ \A i \in 1 .. n - 1 : ~Holds(C, E, F, p, Strength[i])
  BY RelationIsStrongest
<1>2. Proved(E, p) \cap {"Specialization"} = {}
  BY DEF Proved
<1>3. n # 2
  <2>1. ~Holds(C, E, F, p, "specialization")
    BY <1>2 DEF Holds
  <2> QED
    BY <1>1, <2>1 DEF Strength
<1>4. \/ Holds(C, E, F, p, "exact-statement") \/ Holds(C, E, F, p, "permuted-statement")
      \/ Holds(C, E, F, p, "connective-equivalent")
  BY DEF Holds
<1>5. Holds(C, E, F, p, Strength[1]) \/ Holds(C, E, F, p, Strength[3])
          \/ Holds(C, E, F, p, Strength[4])
  BY <1>4 DEF Strength
<1>6. n \in 1 .. 4
  BY <1>1, <1>5
<1>7. n \in {1, 3, 4}
  BY <1>3, <1>6
<1> QED
  BY <1>1, <1>7 DEF Strength

\* What no option hides and Lean has verified is in the queue.
LEMMA VerifiedIsIncluded ==
    ASSUME NEW C, NEW E, NEW F, NEW p, NEW o, Presentable(p), ~BroadHeadOnly(p), o = audit.options,
           o.low \in BOOLEAN, o.private \in BOOLEAN, o.diagnostics \in BOOLEAN,
           \A d \in Members(p) : d.generated \in BOOLEAN /\ d.public \in BOOLEAN,
           p.score \in Nat,
           Proved(E, p) \cap {"ExactTheorem", "ReducibleDefinition", "PermutedTheorem",
                              "Replacement"} # {}
    PROVE  Includes(o, Group(C, E, F, p)) /\ Group(C, E, F, p).mode = "proof-grade"
<1> DEFINE g == Group(C, E, F, p)
           relation == RelationOf(C, E, F, p)
           blockers == BlockersOf(C, E, F, p, relation)
           silenced == Silenced(F, E, p, relation, blockers)
           priority == PriorityOf(p, relation, blockers, silenced)
<1>1. relation \in {"exact-statement", "permuted-statement", "connective-equivalent"}
  BY RelationOfVerified
<1>2. Settles(F, E, p)
  BY DEF Settles
<1>3. Status(E, p) = "verified"
  BY DEF Proved, Status
<1>4. /\ blockers \cap {"generated", "broad-head-only", "instance", "static-only",
                        "unverified", "weak", "rejected", "unavailable"} = {}
      /\ "low-signal" \in blockers => o.low
  <2>1. /\ "generated" \notin PolicyBlockers(p) /\ "broad-head-only" \notin PolicyBlockers(p)
        /\ "instance" \notin PolicyBlockers(p)
        /\ "low-signal" \in PolicyBlockers(p) => o.low
    BY PolicyOf DEF Presentable
  <2>2. /\ "generated" \notin blockers /\ "broad-head-only" \notin blockers
        /\ "instance" \notin blockers
        /\ "low-signal" \in blockers => o.low
    BY <2>1, BlockersOfPair
  <2>3. "static-only" \notin blockers /\ "unverified" \notin blockers
    BY <1>2, BlockersOfPair
  <2>4. "weak" \notin blockers /\ "rejected" \notin blockers /\ "unavailable" \notin blockers
    BY <1>1, <1>3, BlockersOfPair
  <2> HIDE DEF blockers
  <2> QED
    BY <2>2, <2>3, <2>4
<1>5. ~silenced
  BY <1>2, <1>4 DEF Silenced
<1>6. priority \in {High, Medium, Low} /\ (priority = Low => o.low)
  <2>1. "low-signal" \in blockers \/ p.score < NearScore => o.low
    <3>1. p.score < NearScore => ~(p.score >= NearScore)
      BY RankingAssumption
    <3> QED
      BY <1>4, <3>1 DEF Presentable
  <2> HIDE DEF relation, blockers, silenced
  <2>2. CASE relation = "exact-statement"
    BY <1>1, <1>4, <1>5, <2>1, <2>2 DEF PriorityOf, High, Medium, Low
  <2>3. CASE relation # "exact-statement"
    BY <1>1, <1>4, <1>5, <2>1, <2>3 DEF PriorityOf, High, Medium, Low
  <2> QED
    BY <2>2, <2>3
<1>7. g.pair = p /\ g.blockers = blockers /\ g.priority = priority /\ g.mode = EvidenceMode(C, E, p)
  BY DEF Group
<1>8. g.mode = "proof-grade"
  BY <1>7 DEF EvidenceMode
<1> HIDE DEF g, priority, blockers
<1>9. priority # Noise /\ priority <= LowestShown(o)
  <2>1. LowestShown(o) \in {Medium, Low, Noise} /\ (o.low => LowestShown(o) \in {Low, Noise})
    BY DEF LowestShown
  <2> QED
    BY <1>6, <2>1 DEF High, Medium, Low, Noise
<1>10. (\E d \in Members(p) : ~d.public) => o.private
  BY DEF Presentable
<1>11. Includes(o, g)
  BY <1>4, <1>7, <1>9, <1>10 DEF Includes
<1> QED
  BY <1>8, <1>11 DEF g

-----------------------------------------------------------------------------
(* What became of the candidates *)

\* A pair that is worth a probe is in the plan, and no other is.
Deserving(c) == Eligible(c) /\ (Askable(c) => Obligation(c) # {})

DesertInv ==
    /\ \A c \in Working \cup Taken : Deserving(c)
    /\ phase # "collect" => \A c \in unsuited : ~Deserving(c)

LEMMA DesertFixed ==
    ASSUME settings' = settings, NEW c
    PROVE  Deserving(c)' <=> Deserving(c)
<1>1. Obligation(c)' = Obligation(c)
  BY DEF Obligation
<1>2. Eligible(c)' <=> Eligible(c)
  BY DEF Eligible
<1> QED
  BY <1>1, <1>2 DEF Deserving

LEMMA DesertInvInit == PlanInit => DesertInv
BY DEF PlanInit, DesertInv, Working, Taken, Asked

LEMMA DesertInvNext ==
    ASSUME DesertInv, [PlanNext]_planAll
    PROVE  DesertInv'
<1>1. settings' = settings
  BY DEF PlanNext, Collect, Select, Overlook, TakeUnavailable, TakeAskable,
         Digest, Visit, Digested, PlanProbe, Finish, planAll, planVars
<1>2. ASSUME ~Collect
      PROVE  /\ Working' \cup Taken' \subseteq Working \cup Taken
             /\ unsuited' = unsuited
             /\ phase = "collect" => phase' = "collect"
  <2>1. CASE PlanProbe
    <3>1. Taken' = Taken \cup {keying} /\ keying \in Working
      BY <2>1, PlanProbeTakes DEF PlanProbe, Working
    <3>2. Working' \subseteq Working /\ UNCHANGED <<unsuited, phase>>
      BY <2>1 DEF PlanProbe, Working
    <3> QED
      BY <3>1, <3>2
  <2>2. CASE Select \/ Digest \/ Visit \/ Digested \/ Finish \/ UNCHANGED planAll
    BY <2>2 DEF Select, Overlook, TakeUnavailable, TakeAskable, Turn,
                Digest, Visit, Digested, Finish, planAll, planVars, Working, Taken, Asked
  <2> QED
    BY <1>2, <2>1, <2>2 DEF PlanNext
<1>3. CASE Collect
  <2>1. /\ waiting' = {c \in candidates : Deserving(c)}
        /\ unsuited' = candidates \ waiting'
        /\ UNCHANGED <<preflight, planned, keying>>
    BY <1>3 DEF Collect, Deserving
  <2>2. \A c \in waiting' \cup Taken' : Deserving(c)
    BY <2>1 DEF DesertInv, Taken, Asked
  <2>3. \A c \in Working' : c \in waiting' \/ c \in Working
    BY <2>1 DEF Working
  <2>4. \A c \in Working' \cup Taken' : Deserving(c)
    BY <2>2, <2>3 DEF DesertInv
  <2>5. \A c \in unsuited' : ~Deserving(c)
    BY <2>1
  <2> QED
    BY <1>1, <2>4, <2>5, DesertFixed DEF DesertInv
<1>4. CASE ~Collect
  BY <1>1, <1>2, <1>4, DesertFixed DEF DesertInv
<1> QED
  BY <1>3, <1>4

\* A pair that Lean was asked about has an answer, or the reason why there is
\* none; the others say why they were not asked.
Explained(c) ==
    \/ evidence[c.id].reason \in {"none", "missing", "timeout", "opaque", "internal"}
    \/ /\ c \in preflight
       /\ evidence[c.id].reason = IF c.importable THEN "unsupported" ELSE "missing"

VerdictInv == stage # "plan" =>
    /\ phase = "done"
    /\ DOMAIN evidence = {c.id : c \in Taken}
    /\ \A c \in Taken : Explained(c)

LEMMA VerdictInvInit == AuditInit => VerdictInv
BY DEF AuditInit, VerdictInv

LEMMA VerdictInvNext ==
    ASSUME PairInv, CourseInv, VerdictInv, [AuditNext]_allVars
    PROVE  VerdictInv'
<1>1. CASE Verify
  <2>1. /\ phase = "done" /\ UNCHANGED <<phase, preflight, planned, candidates>>
    BY <1>1 DEF Verify, planVars
  <2>2. PICK said \in [{c.id : c \in Asked} -> Rows] :
            evidence' = [k \in {c.id : c \in Taken} |->
                            IF k \in DOMAIN said THEN Said(CandidateAt(k), said[k])
                            ELSE Unasked(CandidateAt(k))]
    BY <1>1 DEF Verify
  <2>3. \A c, d \in candidates : c.id = d.id => c = d
    <3>1. Prepared(audit).workload \in Workloads
      BY AuditAssumption DEF CourseInv, Beginnings
    <3> QED
      BY <3>1, WorkloadAssumption DEF CourseInv
  <2>4. ASSUME NEW c \in Taken
        PROVE  Explained(c)'
    <3>1. c \in candidates
      BY DEF PairInv
    <3>2. CandidateAt(c.id) = c
      BY <2>3, <3>1 DEF CandidateAt
    <3>3. CASE c.id \in DOMAIN said
      <4>1. evidence'[c.id] = Said(c, said[c.id])
        BY <2>2, <3>2, <3>3
      <4>2. ASSUME NEW text
            PROVE  ReasonIn(text) \in {"missing", "timeout", "opaque", "internal"}
        BY DEF ReasonIn
      <4>3. evidence'[c.id].reason \in {"none", "missing", "timeout", "opaque", "internal"}
        BY <4>1, <4>2 DEF Said
      <4> QED
        BY <4>3 DEF Explained
    <3>4. CASE c.id \notin DOMAIN said
      <4>1. evidence'[c.id] = Unasked(c)
        BY <2>2, <3>2, <3>4
      <4>2. c \in preflight
        BY <2>2, <3>4 DEF Taken
      <4> QED
        BY <2>1, <4>1, <4>2 DEF Explained, Unasked
    <3> QED
      BY <3>3, <3>4
  <2>5. Taken' = Taken
    BY <2>1 DEF Taken, Asked
  <2>6. DOMAIN evidence' = {c.id : c \in Taken}
    BY <2>2
  <2> QED
    BY <2>1, <2>4, <2>5, <2>6 DEF VerdictInv
<1>2. CASE UNCHANGED <<phase, preflight, planned, evidence>> /\ (stage' # "plan" => stage # "plan")
  <2>1. Taken' = Taken
    BY <1>2 DEF Taken, Asked
  <2>2. \A c : Explained(c)' <=> Explained(c)
    BY <1>2 DEF Explained
  <2> QED
    BY <1>2, <2>1, <2>2 DEF VerdictInv
<1>3. CASE Plan
  BY <1>3 DEF Plan, auditVars, VerdictInv
<1>4. CASE RankFinal \/ ScanReferences \/ Report
  <2>1. UNCHANGED <<phase, preflight, planned, evidence>> /\ stage # "plan"
    BY <1>4 DEF RankFinal, ScanReferences, Report, planVars
  <2> QED
    BY <1>2, <2>1
<1>5. CASE UNCHANGED allVars
  BY <1>2, <1>5 DEF allVars, planVars, auditVars
<1> QED
  BY <1>1, <1>3, <1>4, <1>5 DEF AuditNext

\* All that is known when an audit reports.
LEMMA AuditInvariant ==
    AuditSpec => [](PairInv /\ LedgerInv /\ AuditInv /\ DesertInv /\ HeapInv
                        /\ CourseInv /\ ReviewInv /\ VerdictInv)
<1>1. PlanSpec => [](PairInv /\ HeapInv /\ LedgerInv /\ AuditInv /\ DesertInv)
  BY PairInvInit, PairInvNext, OrderInvInit, HeapInvNext, LedgerInvInit, LedgerInvNext,
     AuditInvInit, AuditInvNext, DesertInvInit, DesertInvNext, PTL DEF PlanSpec, planAll
<1>2. AuditSpec => [](PairInv /\ HeapInv /\ LedgerInv /\ AuditInv /\ DesertInv)
  BY <1>1, AuditRunsPlan, PTL
<1> QED
  BY <1>2, CourseInvariant, ReviewInvInit, ReviewInvNext, VerdictInvInit, VerdictInvNext, PTL
     DEF AuditSpec

-----------------------------------------------------------------------------
(* What a report leaves out *)

LEMMA CountsNone ==
    ASSUME NEW S, IsFiniteSet(S), ~(Cardinality(S) > 0)
    PROVE  S = {}
<1>1. Cardinality(S) \in Nat
  BY FS_CardinalityType
<1> QED
  BY <1>1, FS_EmptySet

\* What a report without reasons says of the probes.
LEMMA NothingMissing ==
    ASSUME LedgerInv, VerdictInv, stage # "plan", NEW families,
           Reasons(ProbeSummary, families) = {}
    PROVE  /\ overlooked = {}
           /\ \A k \in DOMAIN evidence :
                  evidence[k].reason \notin {"missing", "timeout", "internal"}
<1> DEFINE missing == {k \in DOMAIN evidence : evidence[k].reason \in {"missing"}}
           timeout == {k \in DOMAIN evidence : evidence[k].reason \in {"timeout"}}
           internal == {k \in DOMAIN evidence : evidence[k].reason \in {"internal"}}
<1>1. ~(ProbeSummary.skipped_by_budget > 0) /\ ~(Blocking(ProbeSummary) > 0)
  BY DEF Reasons
<1>2. /\ ProbeSummary.skipped_by_budget = Cardinality(overlooked)
      /\ ProbeSummary.missing = UnavailableFor({"missing"})
      /\ ProbeSummary.timeout = UnavailableFor({"timeout"})
      /\ ProbeSummary.internal = UnavailableFor({"internal"})
  BY DEF ProbeSummary
<1>3. /\ UnavailableFor({"missing"}) = Cardinality(missing)
      /\ UnavailableFor({"timeout"}) = Cardinality(timeout)
      /\ UnavailableFor({"internal"}) = Cardinality(internal)
  BY DEF UnavailableFor, Quantify
<1>4. /\ candidates = unsuited \cup Working \cup overlooked \cup Taken
      /\ IsFiniteSet(candidates)
      /\ DOMAIN evidence = {c.id : c \in Taken}
  BY DEF LedgerInv, VerdictInv
<1>5. IsFiniteSet(overlooked) /\ IsFiniteSet(Taken)
  BY <1>4, FS_Subset
<1>6. IsFiniteSet(DOMAIN evidence)
  <2> DEFINE ids == {c.id : c \in Taken}
             id == [c \in Taken |-> c.id]
  <2>1. id \in Surjection(Taken, ids)
    BY DEF Surjection
  <2> HIDE DEF id
  <2>2. IsFiniteSet(ids)
    BY <1>5, <2>1, FS_Surjection
  <2> QED
    BY <1>4, <2>2
<1>7. IsFiniteSet(missing) /\ IsFiniteSet(timeout) /\ IsFiniteSet(internal)
  BY <1>6, FS_Subset
<1> HIDE DEF missing, timeout, internal
<1>8. /\ Cardinality(missing) \in Nat /\ Cardinality(timeout) \in Nat
      /\ Cardinality(internal) \in Nat
      /\ Blocking(ProbeSummary) =
             Cardinality(missing) + Cardinality(timeout) + Cardinality(internal)
  BY <1>2, <1>3, <1>7, FS_CardinalityType DEF Blocking
<1>9. missing = {} /\ timeout = {} /\ internal = {}
  BY <1>1, <1>7, <1>8, CountsNone
<1>10. overlooked = {}
  BY <1>1, <1>2, <1>5, CountsNone
<1> QED
  BY <1>9, <1>10 DEF missing, timeout, internal

\* A match is worth a probe.
LEMMA MatchDeserves ==
    ASSUME NEW a \in Audits, NEW p \in Retrieved(a, Focus(a)), StrongPair(p), Stated(p), NEW F,
           settings.policy = "broad" \/ \A d \in Members(p) : ~d.generated,
           NEW c, c = CandidateOf(a, p, Group(a, NoEvidence, F, p), TRUE)
    PROVE  Deserving(c) /\ Among(c, Supported)
<1> DEFINE relation == RelationOf(a, NoEvidence, F, p)
           group == Group(a, NoEvidence, F, p)
<1>1. /\ c.ranked = TRUE
      /\ c.blocked = (group.blockers \cap {"generated", "broad-head-only", "weak"} # {})
      /\ c.leftKind = p.anchor.kind /\ c.rightKind = p.candidate.kind
      /\ c.matches = {k[1] : k \in p.keys} \cap Prints
  BY DEF CandidateOf
<1>2. group.blockers = BlockersOf(a, NoEvidence, F, p, relation)
  BY DEF Group
<1>3. Near(p) /\ ~BroadHeadOnly(p)
  BY StrongIsNear
<1>4. relation # "near-statement"
  BY <1>3, NearIsNotWeak
<1>5. PICK m \in {"statement", "permutation", "connective"} : m \in c.matches
  BY <1>1 DEF StrongPair, Shares, Prints
<1>6. Among(c, Theorems) \/ Among(c, Definitions)
  BY <1>1 DEF Stated, Among
<1>7. Among(c, Supported)
  BY <1>6 DEF Among, Supported
<1>8. Strong(c)
  BY <1>5, <1>7 DEF Strong, StrongMatch, Among
<1>9. Eligible(c)
  <2>1. CASE settings.policy = "broad"
    BY <1>1, <2>1 DEF Eligible
  <2>2. CASE \A d \in Members(p) : ~d.generated
    <3>1. "generated" \notin PolicyBlockers(p) /\ "broad-head-only" \notin PolicyBlockers(p)
      BY <1>3, <2>2, PolicyOf
    <3>2. /\ "generated" \notin group.blockers /\ "broad-head-only" \notin group.blockers
          /\ "weak" \notin group.blockers
      BY <1>2, <1>4, <3>1, BlockersOfPair
    <3> HIDE DEF group
    <3>3. ~c.blocked
      BY <1>1, <3>2
    <3> QED
      BY <1>1, <1>8, <3>3 DEF Eligible
  <2> QED
    BY <2>1, <2>2
<1>10. Obligation(c) # {}
  <2>1. ASSUME Among(c, Theorems)
        PROVE  TheoremObligation(c) # {}
    <3>1. "connective" \in c.matches => {"Replacement" : x \in c.matches \cap {"connective"}} # {}
      OBVIOUS
    <3>2. CASE "statement" \in c.matches \/ "permutation" \in c.matches
      BY <3>2 DEF TheoremObligation
    <3>3. CASE "statement" \notin c.matches /\ "permutation" \notin c.matches
      BY <1>5, <3>1, <3>3 DEF TheoremObligation
    <3> QED
      BY <3>2, <3>3
  <2>2. CASE Among(c, Theorems)
    BY <2>1, <2>2 DEF Obligation
  <2>3. CASE ~Among(c, Theorems)
    BY <1>6, <1>8, <2>3 DEF Obligation
  <2> QED
    BY <2>2, <2>3
<1> QED
  BY <1>7, <1>9, <1>10 DEF Deserving

\* The pair of a match that stays was put to the plan.
LEMMA MatchIsCandidate ==
    ASSUME NEW a \in Audits, a.probing = "on", NEW p \in Reviewed(a, Retrieved(a, Focus(a)))
    PROVE  LET pairs == Reviewed(a, Retrieved(a, Focus(a)))
               first == FirstFacts(a, pairs)
           IN Stays(a, NoEvidence, first, pairs, p) =>
                  CandidateOf(a, p, Group(a, NoEvidence, first, p), TRUE)
                      \in Prepared(a).workload.candidates
<1> DEFINE pairs == Reviewed(a, Retrieved(a, Focus(a)))
           first == FirstFacts(a, pairs)
           stays == Stays(a, NoEvidence, first, pairs, p)
<1> SUFFICES ASSUME stays
             PROVE  CandidateOf(a, p, Group(a, NoEvidence, first, p), TRUE)
                        \in Prepared(a).workload.candidates
  OBVIOUS
<1>1. stays = TRUE
  BY DEF Stays
<1>2. CandidateOf(a, p, Group(a, NoEvidence, first, p), stays)
          \in Prepared(a).workload.candidates
  BY DEF Prepared
<1> QED
  BY <1>1, <1>2

LEMMA SilenceOfMatch ==
    ASSUME PairInv, LedgerInv, AuditInv, DesertInv, HeapInv, CourseInv, VerdictInv,
           stage # "plan", NEW families, Reasons(ProbeSummary, families) = {},
           audit.probing = "on",
           NEW p \in retrieved, StrongPair(p), Stated(p),
           audit.mathlib => p.candidate.origin = "mathlib",
           settings.policy = "broad" \/ \A d \in Members(p) : ~d.generated
    PROVE  \E k \in {Key(p), p.candidate.id * 100 + p.anchor.id} \cap DOMAIN evidence :
               evidence[k].reason \in {"none", "opaque"}
<1> DEFINE pairs == Reviewed(audit, retrieved)
           first == FirstFacts(audit, pairs)
<1>1. audit \in Audits /\ retrieved = Retrieved(audit, Focus(audit))
      /\ candidates = Prepared(audit).workload.candidates
  BY DEF CourseInv
<1>2. pairs \in SUBSET Retrieved(audit, Focus(audit))
  BY <1>1, ReviewedAreRetrieved
<1>3. p \in pairs
  BY DEF Reviewed, Stated, Supported
<1>4. PICK q \in pairs : Members(q) = Members(p) /\ Stays(audit, NoEvidence, first, pairs, q)
  <2> HIDE DEF pairs, first
  <2> QED
    BY <1>1, <1>2, <1>3, OneOrderStays
<1>5. q = p \/ (q.anchor = p.candidate /\ q.candidate = p.anchor)
  BY <1>1, <1>2, <1>4, ReversedPair
<1>6. StrongPair(q)
  BY <1>1, <1>2, <1>3, <1>4, ReversedIsAlike
<1>7. Stated(q)
  BY <1>5 DEF Stated
<1> DEFINE c == CandidateOf(audit, q, Group(audit, NoEvidence, first, q), TRUE)
<1>8. c \in candidates
  BY <1>1, <1>4, MatchIsCandidate
<1>9. Deserving(c) /\ Among(c, Supported)
  BY <1>1, <1>2, <1>4, <1>6, <1>7, MatchDeserves
<1>10. c.id = Key(q)
  BY DEF CandidateOf
<1> HIDE DEF c, first, pairs
<1>11. c \in Taken
  BY <1>8, <1>9, NothingMissing DEF LedgerInv, HeapInv, DesertInv, VerdictInv
<1>12. Explained(c) /\ Key(q) \in DOMAIN evidence
  BY <1>10, <1>11 DEF VerdictInv
<1>13. evidence[c.id].reason \notin {"missing", "timeout", "internal"}
  BY <1>10, <1>12, NothingMissing
<1>14. evidence[c.id].reason \in {"none", "opaque"}
  <2>1. CASE c \in preflight
    <3>1. ~c.importable
      BY <1>9, <2>1 DEF AuditInv, Askable
    <3> QED
      BY <1>12, <1>13, <3>1 DEF Explained
  <2>2. CASE c \notin preflight
    BY <1>12, <1>13, <2>2 DEF Explained
  <2> QED
    BY <2>1, <2>2
<1>15. Key(q) \in {Key(p), p.candidate.id * 100 + p.anchor.id}
  BY <1>5 DEF Key
<1> QED
  BY <1>10, <1>12, <1>14, <1>15

LEMMA SilenceFixed ==
    ASSUME SilenceIsMeasured, [AuditNext]_allVars, ~Report
    PROVE  SilenceIsMeasured'
<1>1. CASE stage' = "reported"
  <2>1. UNCHANGED <<stage, report, audit, retrieved, settings, evidence>>
    BY <1>1 DEF AuditNext, Plan, Verify, RankFinal, ScanReferences, allVars, planVars, auditVars
  <2> QED
    BY <2>1 DEF SilenceIsMeasured
<1>2. CASE stage' # "reported"
  BY <1>2 DEF SilenceIsMeasured
<1> QED
  BY <1>1, <1>2

\* For any corpus and limits: when lint has no reason to be incomplete and probes
\* are on, each match that can be stated has the answer of Lean.
THEOREM SilenceIsComplete == AuditSpec => []SilenceIsMeasured
<1> DEFINE Facts == /\ PairInv /\ LedgerInv /\ AuditInv /\ DesertInv /\ HeapInv
                    /\ CourseInv /\ ReviewInv /\ VerdictInv
<1>1. AuditInit => SilenceIsMeasured
  BY DEF AuditInit, SilenceIsMeasured
<1>2. ASSUME Facts, SilenceIsMeasured, [AuditNext]_allVars
      PROVE  SilenceIsMeasured'
  <2>1. CASE Report
    <3>1. /\ UNCHANGED <<audit, retrieved, settings, evidence>> /\ stage = "ranked"
          /\ \E families : report'.reasons = Reasons(ProbeSummary, families)
      BY <2>1 DEF Report, planVars
    <3>2. ASSUME report'.reasons = {}, audit.probing = "on", NEW p \in retrieved,
                 StrongPair(p), Stated(p),
                 audit.mathlib => p.candidate.origin = "mathlib",
                 settings.policy = "broad" \/ \A d \in Members(p) : ~d.generated
          PROVE  \E k \in {Key(p), p.candidate.id * 100 + p.anchor.id} \cap DOMAIN evidence :
                     evidence[k].reason \in {"none", "opaque"}
      BY <1>2, <3>1, <3>2, SilenceOfMatch
    <3> QED
      BY <3>1, <3>2 DEF SilenceIsMeasured
  <2>2. CASE ~Report
    BY <1>2, <2>2, SilenceFixed
  <2> QED
    BY <2>1, <2>2
<1>3. AuditSpec => []Facts
  BY AuditInvariant, PTL
<1> QED
  BY <1>1, <1>2, <1>3, PTL DEF AuditSpec

-----------------------------------------------------------------------------
(* What a report shows *)

\* Families come before others, never before themselves: if there are no more
\* than the limit, all are shown.
LEMMA AllAreShown ==
    ASSUME NEW a \in Audits, NEW E, NEW F, NEW R, Sound(a, E, F, R), NEW S \in SUBSET R,
           IsFiniteSet(R), ~(Cardinality(Families(S)) > VisibleLimit), NEW f \in Families(S)
    PROVE  VisibleLimit > Cardinality({e \in Families(S) : Precedes(First(e), First(f))})
<1> DEFINE families == Families(S)
           before == {e \in families : Precedes(First(e), First(f))}
           family == [g \in S |-> {h \in S : FamilyKey(h) = FamilyKey(g)}]
<1>1. IsFiniteSet(families)
  <2>1. IsFiniteSet(S)
    BY FS_Subset
  <2>2. family \in Surjection(S, families)
    BY DEF Surjection, Families
  <2> HIDE DEF family, families
  <2> QED
    BY <2>1, <2>2, FS_Surjection
<1>2. f \notin before
  <2>1. First(f) \in R
    BY FamilyHasFirst
  <2>2. \A i \in 1 .. 5 : QueueRank(First(f))[i] \in Nat
    BY <2>1, RankOfSound
  <2>3. \A n \in Nat : ~(n < n)
    OBVIOUS
  <2>4. ~Precedes(First(f), First(f))
    BY <2>2, <2>3 DEF Precedes
  <2> QED
    BY <2>4
<1>3. before \subseteq families \ {f} /\ f \in families
  BY <1>2
<1> HIDE DEF before, families
<1>4. /\ IsFiniteSet(families \ {f})
      /\ Cardinality(families \ {f}) = Cardinality(families) - 1
  BY <1>1, <1>3, FS_RemoveElement
<1>5. Cardinality(before) <= Cardinality(families \ {f}) /\ IsFiniteSet(before)
  BY <1>3, <1>4, FS_Subset
<1>6. Cardinality(families) \in Nat /\ Cardinality(before) \in Nat /\ VisibleLimit \in Nat
  BY <1>1, <1>5, FS_CardinalityType, AuditAssumption
<1>7. ~(Cardinality(families) > VisibleLimit)
  BY DEF families
<1>8. VisibleLimit > Cardinality(before)
  BY <1>4, <1>5, <1>6, <1>7
<1> QED
  BY <1>8 DEF before, families

LEMMA FewPairs ==
    ASSUME NEW a \in Audits
    PROVE  IsFiniteSet(Retrieved(a, Focus(a)))
<1> DEFINE pairs == Retrieved(a, Focus(a))
           keys == 1 .. 9999
           f == [p \in pairs |-> Key(p)]
<1>1. ASSUME NEW p \in pairs
      PROVE  Key(p) \in keys
  <2>1. PICK i \in 1 .. 99, j \in 1 .. 99 : i = p.anchor.id /\ j = p.candidate.id
    BY KeyOfPair
  <2>2. i * 100 + j \in 1 .. 9999
    OBVIOUS
  <2>3. Key(p) = i * 100 + j
    BY <2>1 DEF Key
  <2> QED
    BY <2>2, <2>3
<1>2. \A i \in keys : i \in Nat /\ i <= 9999
  OBVIOUS
<1> HIDE DEF keys
<1>3. IsFiniteSet(keys)
  <2>1. keys \in SUBSET Nat
    BY <1>2
  <2> QED
    BY <1>2, <2>1, FS_BoundedSetOfNaturals
<1>4. f \in Injection(pairs, keys)
  BY <1>1, KeyOfPair DEF Injection, IsInjective
<1> HIDE DEF pairs, f
<1>5. IsFiniteSet(pairs)
  BY <1>3, <1>4, FS_Injection
<1> QED
  BY <1>5 DEF pairs

\* All that Lean verifies, but for what comes with the policy or a weaker
\* obligation, shares a fingerprint of the statement.
LEMMA ObligationIsStrong ==
    ASSUME NEW c, NEW o \in Obligation(c), o \notin {"LocalDuplicate", "Specialization"}
    PROVE  /\ o \in {"ExactTheorem", "ReducibleDefinition", "PermutedTheorem", "Replacement"}
           /\ c.matches \cap StrongMatch # {}
<1>1. \/ o \in TheoremObligation(c)
      \/ o = "ReducibleDefinition" /\ Strong(c)
      \/ o = "LocalDuplicate"
  BY DEF Obligation
<1>2. ASSUME o \in TheoremObligation(c)
      PROVE  /\ o \in {"ExactTheorem", "PermutedTheorem", "Replacement"}
             /\ c.matches \cap {"statement", "permutation", "connective"} # {}
  <2>1. CASE "statement" \in c.matches
    BY <1>2, <2>1 DEF TheoremObligation
  <2>2. CASE "statement" \notin c.matches /\ "permutation" \in c.matches
    BY <1>2, <2>2 DEF TheoremObligation
  <2>3. CASE "statement" \notin c.matches /\ "permutation" \notin c.matches
    <3>1. o \in {"Replacement" : x \in c.matches \cap {"connective"}} \/ o = "Specialization"
      BY <1>2, <2>3 DEF TheoremObligation
    <3> QED
      BY <3>1
  <2> QED
    BY <2>1, <2>2, <2>3
<1> QED
  BY <1>1, <1>2 DEF Strong, StrongMatch

LEMMA VerifiedIsRanked ==
    ASSUME PairInv, DesertInv, CourseInv, VerdictInv, stage # "plan",
           NEW p \in Reviewed(audit, retrieved),
           Proved(evidence, p) \ {"LocalDuplicate", "Specialization"} # {}, NEW F
    PROVE  /\ StrongPair(p)
           /\ Stays(audit, evidence, F, Reviewed(audit, retrieved), p)
           /\ Proved(evidence, p) \cap {"ExactTheorem", "ReducibleDefinition",
                                        "PermutedTheorem", "Replacement"} # {}
<1> DEFINE pairs == Reviewed(audit, retrieved)
           first == FirstFacts(audit, pairs)
<1>1. audit \in Audits /\ retrieved = Retrieved(audit, Focus(audit))
      /\ candidates = Prepared(audit).workload.candidates
  BY DEF CourseInv
<1>2. pairs \in SUBSET Retrieved(audit, Focus(audit))
  BY <1>1, ReviewedAreRetrieved
<1>3. PICK k \in DOMAIN evidence : /\ k = Key(p) /\ evidence[k].status = "verified"
                                   /\ evidence[k].kind \in Proved(evidence, p)
                                   /\ evidence[k].kind \notin {"LocalDuplicate", "Specialization"}
  BY DEF Proved
<1>4. PICK c \in candidates : /\ c.id = k /\ Askable(c) /\ Obligation(c) # {}
                              /\ evidence[k].kind = MatchClass(c)
  BY <1>1, <1>3 DEF CourseInv, Answers
<1>5. c \in Taken
  <2>1. PICK d \in Taken : d.id = k
    BY <1>3 DEF VerdictInv
  <2>2. d \in candidates
    BY DEF PairInv
  <2>3. \A e, x \in candidates : e.id = x.id => e = x
    <3>1. Prepared(audit).workload \in Workloads
      BY <1>1, AuditAssumption DEF Beginnings
    <3> QED
      BY <1>1, <3>1, WorkloadAssumption
  <2> QED
    BY <1>4, <2>1, <2>2, <2>3
<1>6. c.ranked
  BY <1>5 DEF DesertInv, Deserving, Eligible
<1>7. PICK q \in pairs : c = CandidateOf(audit, q, Group(audit, NoEvidence, first, q),
                                         Stays(audit, NoEvidence, first, pairs, q))
  BY <1>1, <1>4 DEF Prepared
<1>8. c.id = Key(q) /\ c.ranked = Stays(audit, NoEvidence, first, pairs, q)
          /\ c.matches = {m[1] : m \in q.keys} \cap Prints
  BY <1>7 DEF CandidateOf
<1>9. q = p
  <2>1. Key(q) = Key(p)
    BY <1>3, <1>4, <1>8
  <2>2. /\ p \in Retrieved(audit, Focus(audit)) /\ q \in Retrieved(audit, Focus(audit))
        /\ audit \in Audits
    BY <1>1, <1>2
  <2> QED
    BY <2>1, <2>2, KeyOfPair
<1>10. MatchClass(c) \in Obligation(c)
  BY <1>4 DEF MatchClass
<1>11. /\ MatchClass(c) \in {"ExactTheorem", "ReducibleDefinition", "PermutedTheorem", "Replacement"}
       /\ c.matches \cap StrongMatch # {}
  BY <1>3, <1>4, <1>10, ObligationIsStrong
<1>12. StrongPair(p)
  BY <1>8, <1>9, <1>11 DEF StrongMatch, StrongPair, Shares
<1>13. Stays(audit, NoEvidence, first, pairs, p)
  BY <1>6, <1>8, <1>9
<1>14. Stays(audit, evidence, F, pairs, p)
  <2> HIDE DEF pairs, first
  <2> QED
    BY <1>1, <1>2, <1>9, <1>12, <1>13, MatchStays
<1> QED
  BY <1>3, <1>4, <1>11, <1>12, <1>14

LEMMA ShownOfVerified ==
    ASSUME PairInv, DesertInv, CourseInv, ReviewInv, VerdictInv, Report,
           "truncated" \notin report'.reasons,
           NEW p \in Reviewed(audit, retrieved), Presentable(p),
           Proved(evidence, p) \ {"LocalDuplicate", "Specialization"} # {}
    PROVE  \E f \in report'.shown :
               /\ \E g \in f : g.pair = p
               /\ First(f).pair = p /\ (\E d \in LocalMembers(audit, p) : d.file # "none")
                      => f \in report'.findings
<1> DEFINE pairs == Reviewed(audit, retrieved)
           S == {g \in review' : Includes(audit.options, g)}
           group(q) == Group(audit, evidence, facts, q)
           told(q) == Told(audit, facts, group(q))
           staying == {q \in pairs : Stays(audit, evidence, facts, pairs, q)}
<1>1. /\ audit' = audit /\ review' = Advised(audit, facts, review)
      /\ stage = "ranked" /\ review = Ranked(audit, evidence, facts, pairs)
  BY DEF Report, ReviewInv
<1>2. audit \in Audits /\ retrieved = Retrieved(audit, Focus(audit)) /\ audit \in Audit
  BY AuditAssumption DEF CourseInv
<1>3. pairs \in SUBSET Retrieved(audit, Focus(audit))
  BY <1>2, ReviewedAreRetrieved
<1>4. review' = {told(q) : q \in staying}
  <2>1. review = {group(q) : q \in staying}
    BY <1>1 DEF Ranked
  <2> HIDE DEF staying, group
  <2>2. review' = {Told(audit, facts, g) : g \in review}
    BY <1>1, AdvisedAreTold
  <2> QED
    BY <2>1, <2>2
<1>5. \A q : told(q).pair = q
  BY ToldFields
<1>6. /\ StrongPair(p) /\ p \in staying
      /\ Proved(evidence, p) \cap {"ExactTheorem", "ReducibleDefinition", "PermutedTheorem",
                                   "Replacement"} # {}
  BY <1>1, VerifiedIsRanked
<1>7. /\ Includes(audit.options, group(p)) /\ group(p).mode = "proof-grade"
      /\ group(p).relation
             \in {"exact-statement", "permuted-statement", "connective-equivalent"}
  <2>1. p \in Retrieved(audit, Focus(audit))
    BY <1>3
  <2>2. \A d \in Members(p) : d.generated \in BOOLEAN /\ d.public \in BOOLEAN
    <3>1. p.anchor \in AllRows(audit) /\ p.candidate \in AllRows(audit)
      BY <1>2, <2>1, EndsOfPair, RowsOfAudit
    <3>2. AllRows(audit) \subseteq Declaration
      BY <1>2 DEF AllRows, Audit, Index
    <3> QED
      BY <3>1, <3>2 DEF Members, Declaration
  <2>3. /\ audit.options.low \in BOOLEAN /\ audit.options.private \in BOOLEAN
        /\ audit.options.diagnostics \in BOOLEAN
    BY <1>2 DEF Audit
  <2>4. ~BroadHeadOnly(p) /\ p.score \in Nat
    BY <1>2, <1>6, <2>1, StrongIsNear
  <2>5. group(p).relation = RelationOf(audit, evidence, facts, p)
    BY GroupFields
  <2> HIDE DEF group
  <2>6. group(p).relation
            \in {"exact-statement", "permuted-statement", "connective-equivalent"}
    BY <1>6, <2>5, RelationOfVerified
  <2>7. Includes(audit.options, group(p)) /\ group(p).mode = "proof-grade"
    BY <1>6, <2>2, <2>3, <2>4, VerifiedIsIncluded DEF group
  <2> QED
    BY <2>6, <2>7
<1>8. /\ told(p).mode = "proof-grade" /\ Includes(audit.options, told(p))
      /\ told(p).relation
             \in {"exact-statement", "permuted-statement", "connective-equivalent"}
  BY <1>7, ToldFields, IncludesTold
<1> DEFINE f == {h \in S : FamilyKey(h) = FamilyKey(told(p))}
<1>9. told(p) \in S /\ told(p) \in f /\ f \in Families(S)
  <2> HIDE DEF told
  <2>1. told(p) \in S
    BY <1>4, <1>6, <1>8
  <2> QED
    BY <2>1 DEF Families
<1> HIDE DEF told, group, pairs, staying
<1>10. Sound(audit, evidence, facts, review')
  BY <1>1, AdvisedIsSound DEF CourseInv
<1>11. IsFiniteSet(review')
  <2> DEFINE t == [q \in staying |-> told(q)]
             T == {told(q) : q \in staying}
  <2>1. IsFiniteSet(staying)
    <3>1. staying \subseteq Retrieved(audit, Focus(audit))
      BY <1>3 DEF staying
    <3> QED
      BY <1>2, <3>1, FewPairs, FS_Subset
  <2>2. t \in Surjection(staying, T)
    BY DEF Surjection
  <2> HIDE DEF t
  <2>3. IsFiniteSet(T)
    BY <2>1, <2>2, FS_Surjection
  <2> QED
    BY <1>4, <2>3
<1>12. Visible(audit.options) = Families(S)
  BY DEF Visible
<1> DEFINE shown == {e \in Families(S) : VisibleLimit >
                        Cardinality({x \in Families(S) : Precedes(First(x), First(e))})}
<1>13. /\ report'.shown = shown
       /\ report'.findings = {e \in shown : IsFinding(e)}
       /\ report'.reasons = Reasons(ProbeSummary, Families(S))
  BY <1>12 DEF Report
<1> HIDE DEF f, S
<1>14. S \subseteq review'
  BY DEF S
<1>15. ~(Cardinality(Families(S)) > VisibleLimit)
  BY <1>13 DEF Reasons
<1>16. f \in shown
  BY <1>2, <1>9, <1>10, <1>11, <1>14, <1>15, AllAreShown
<1>17. ASSUME First(f).pair = p, \E d \in LocalMembers(audit, p) : d.file # "none"
       PROVE  f \in report'.findings
  <2>1. First(f) \in f /\ f \subseteq S
    BY <1>2, <1>9, <1>10, <1>14, FamilyHasFirst
  <2>2. First(f) = told(p)
    <3>1. PICK q \in staying : First(f) = told(q)
      BY <1>4, <1>14, <2>1
    <3> QED
      BY <1>5, <1>17, <3>1
  <2>3. told(p).pair = p
    BY <1>5
  <2>4. IsFinding(f)
    BY <1>8, <1>9, <1>17, <2>2, <2>3 DEF IsFinding
  <2> QED
    BY <1>13, <1>16, <2>4
<1>18. told(p).pair = p
  BY <1>5
<1> QED
  BY <1>9, <1>13, <1>16, <1>17, <1>18

LEMMA ShownFixed ==
    ASSUME VerifiedIsShown, [AuditNext]_allVars, ~Report
    PROVE  VerifiedIsShown'
<1>1. CASE stage' = "reported"
  <2>1. UNCHANGED <<stage, report, audit, retrieved, evidence>>
    BY <1>1 DEF AuditNext, Plan, Verify, RankFinal, ScanReferences, allVars, planVars, auditVars
  <2>2. \A p : Presentable(p)' <=> Presentable(p)
    BY <2>1 DEF Presentable
  <2> QED
    BY <2>1, <2>2 DEF VerifiedIsShown
<1>2. CASE stage' # "reported"
  BY <1>2 DEF VerifiedIsShown
<1> QED
  BY <1>1, <1>2

\* For any corpus and limits: a duplicate that Lean has verified, and that no
\* option hides, is shown unless the report says that it is truncated; as the
\* first of its family it is a finding.
THEOREM VerifiedIsReported == AuditSpec => []VerifiedIsShown
<1> DEFINE Facts == /\ PairInv /\ LedgerInv /\ AuditInv /\ DesertInv /\ HeapInv
                    /\ CourseInv /\ ReviewInv /\ VerdictInv
<1>1. AuditInit => VerifiedIsShown
  BY DEF AuditInit, VerifiedIsShown
<1>2. ASSUME Facts, VerifiedIsShown, [AuditNext]_allVars
      PROVE  VerifiedIsShown'
  <2>1. CASE Report
    <3>1. UNCHANGED <<audit, retrieved, evidence>>
      BY <2>1 DEF Report
    <3>2. \A p : Presentable(p)' <=> Presentable(p)
      BY <3>1 DEF Presentable
    <3>3. ASSUME "truncated" \notin report'.reasons,
                 NEW p \in Reviewed(audit, retrieved), Presentable(p),
                 Proved(evidence, p) \ {"LocalDuplicate", "Specialization"} # {}
          PROVE  \E f \in report'.shown :
                     /\ \E g \in f : g.pair = p
                     /\ First(f).pair = p /\ (\E d \in LocalMembers(audit, p) : d.file # "none")
                            => f \in report'.findings
      BY <1>2, <2>1, <3>3, ShownOfVerified
    <3> QED
      BY <3>1, <3>2, <3>3 DEF VerifiedIsShown
  <2>2. CASE ~Report
    BY <1>2, <2>2, ShownFixed
  <2> QED
    BY <2>1, <2>2
<1>3. AuditSpec => []Facts
  BY AuditInvariant, PTL
<1> QED
  BY <1>1, <1>2, <1>3, PTL DEF AuditSpec

-----------------------------------------------------------------------------
(* What a change puts in focus *)

Common(f) == {i \in DOMAIN f.new : f.new[i] \in Range(f.old)}

\* g: two common lines, or ends of the file, without a common line in between.
IsGap(f, g) ==
    /\ g[1] \in Common(f) \cup {0} /\ g[2] \in Common(f) \cup {Len(f.new) + 1}
    /\ g[1] < g[2] /\ \A k \in Common(f) : k <= g[1] \/ k >= g[2]

LEMMA LinesOfFile ==
    ASSUME NEW f \in SourceFile
    PROVE  /\ f.new \in Seq(Line) /\ f.old \in Seq(Line) /\ f.built \in Seq(Line)
           /\ Len(f.new) \in Nat /\ DOMAIN f.new = 1 .. Len(f.new)
           /\ Len(f.built) \in Nat /\ DOMAIN f.built = 1 .. Len(f.built)
<1>1. f.new \in Seq(Line) /\ f.old \in Seq(Line) /\ f.built \in Seq(Line)
  BY DEF SourceFile
<1> HIDE DEF Line
<1> QED
  BY <1>1

Header(i, added) == IF added = 0 THEN <<i, 0>>
                    ELSE IF added = 1 THEN <<i + 1>> ELSE <<i + 1, added>>

Count(h) == IF Len(h) = 1 THEN 1 ELSE h[2]

LEMMA CountOfHeader ==
    ASSUME NEW i \in Nat, NEW added \in Nat
    PROVE  /\ Count(Header(i, added)) = added
           /\ added # 0 => Header(i, added)[1] = i + 1
<1>1. CASE added = 0
  BY <1>1 DEF Count, Header
<1>2. CASE added = 1
  BY <1>2 DEF Count, Header
<1>3. CASE added # 0 /\ added # 1
  BY <1>3 DEF Count, Header
<1> QED
  BY <1>1, <1>2, <1>3

\* The ranges of a file are its gaps with a line.
LEMMA RangesOfGaps ==
    ASSUME NEW f \in SourceFile, NEW m
    PROVE  /\ \A i \in Nat, j \in Nat : IsGap(f, <<i, j>>) /\ j - i > 1 =>
                  [file |-> m, first |-> i + 1, last |-> j - 1] \in CurrentRanges(m, Hunks(f))
           /\ \A r \in CurrentRanges(m, Hunks(f)) : \E i \in Nat, j \in Nat :
                  /\ IsGap(f, <<i, j>>) /\ j - i > 1
                  /\ r = [file |-> m, first |-> i + 1, last |-> j - 1]
<1> DEFINE Old(i) == IF i = 0 THEN 0
                     ELSE IF i > Len(f.new) THEN Len(f.old) + 1 ELSE Position(f.old, f.new[i])
           Gaps == {g \in (Common(f) \cup {0}) \X (Common(f) \cup {Len(f.new) + 1}) :
                       g[1] < g[2] /\ \A k \in Common(f) : k <= g[1] \/ k >= g[2]}
           hunks == {Header(g[1], g[2] - g[1] - 1) :
                        g \in {x \in Gaps : x[2] - x[1] > 1 \/ Old(x[2]) - Old(x[1]) > 1}}
           range(h) == [file |-> m, first |-> h[1], last |-> h[1] + Count(h) - 1]
<1>1. Hunks(f) = hunks
  BY DEF Hunks, Header, Common
<1>2. CurrentRanges(m, Hunks(f)) = {range(h) : h \in {x \in Hunks(f) : Count(x) # 0}}
  BY DEF CurrentRanges, Count
<1>3. Common(f) \subseteq Nat /\ Len(f.new) + 1 \in Nat
  BY LinesOfFile DEF Common
<1>4. ASSUME NEW i \in Nat, NEW j \in Nat, i < j, j - i - 1 # 0
      PROVE  range(Header(i, j - i - 1)) = [file |-> m, first |-> i + 1, last |-> j - 1]
  <2>1. j - i - 1 \in Nat
    BY <1>4
  <2>2. Count(Header(i, j - i - 1)) = j - i - 1 /\ Header(i, j - i - 1)[1] = i + 1
    BY <1>4, <2>1, CountOfHeader
  <2>3. i + 1 + (j - i - 1) - 1 = j - 1
    BY <1>4
  <2> QED
    BY <2>2, <2>3
<1>5. ASSUME NEW i \in Nat, NEW j \in Nat, IsGap(f, <<i, j>>), j - i > 1
      PROVE  [file |-> m, first |-> i + 1, last |-> j - 1] \in CurrentRanges(m, Hunks(f))
  <2>1. <<i, j>> \in Gaps
    BY <1>5 DEF IsGap
  <2>2. Header(i, j - i - 1) \in Hunks(f)
    <3> HIDE DEF Gaps, Old
    <3> QED
      BY <1>1, <1>5, <2>1
  <2>3. j - i - 1 \in Nat /\ j - i - 1 # 0 /\ i < j
    BY <1>5
  <2>4. Count(Header(i, j - i - 1)) # 0
    BY <2>3, CountOfHeader
  <2>5. range(Header(i, j - i - 1)) \in CurrentRanges(m, Hunks(f))
    BY <1>2, <2>2, <2>4
  <2> HIDE DEF range
  <2> QED
    BY <1>4, <2>3, <2>5
<1>6. ASSUME NEW r \in CurrentRanges(m, Hunks(f))
      PROVE  \E i \in Nat, j \in Nat :
                 /\ IsGap(f, <<i, j>>) /\ j - i > 1
                 /\ r = [file |-> m, first |-> i + 1, last |-> j - 1]
  <2>1. PICK h \in Hunks(f) : Count(h) # 0 /\ r = range(h)
    BY <1>2
  <2>2. PICK g \in Gaps : h = Header(g[1], g[2] - g[1] - 1)
    <3> HIDE DEF Gaps, Old
    <3> QED
      BY <1>1
  <2>3. g[1] \in Nat /\ g[2] \in Nat /\ g[1] < g[2] /\ g = <<g[1], g[2]>>
    BY <1>3
  <2>4. IsGap(f, g)
    BY DEF IsGap
  <2>5. g[2] - g[1] - 1 \in Nat
    BY <2>3
  <2>6. g[2] - g[1] - 1 # 0
    BY <2>1, <2>2, <2>3, <2>5, CountOfHeader
  <2>7. g[2] - g[1] > 1
    BY <2>3, <2>6
  <2> HIDE DEF range, Gaps
  <2>8. r = [file |-> m, first |-> g[1] + 1, last |-> g[2] - 1]
    BY <1>4, <2>1, <2>2, <2>3, <2>6
  <2> QED
    BY <2>3, <2>4, <2>7, <2>8
<1> QED
  BY <1>5, <1>6

\* A line that is not common lies within a gap.
LEMMA GapOfLine ==
    ASSUME NEW f \in SourceFile, NEW i \in DOMAIN f.new, i \notin Common(f)
    PROVE  \E g \in Nat, h \in Nat : IsGap(f, <<g, h>>) /\ g < i /\ i < h
<1> DEFINE n == Len(f.new)
           Ahead == {k \in Common(f) \cup {0} : k < i}
           After  == {k \in Common(f) \cup {n + 1} : k > i}
           Behind == {n - k : k \in Ahead}
<1>1. n \in Nat /\ i \in 1 .. n /\ Common(f) \subseteq 1 .. n
  BY LinesOfFile DEF Common
<1> HIDE DEF n
<1>2. PICK h \in After : \A k \in After : h <= k
  <2>1. After \subseteq Nat /\ n + 1 \in After
    BY <1>1
  <2> HIDE DEF After
  <2> QED
    BY <2>1, LeastNat
<1>3. PICK g \in Ahead : \A k \in Ahead : k <= g
  <2>1. Ahead \subseteq 0 .. n /\ 0 \in Ahead
    BY <1>1
  <2> HIDE DEF Ahead
  <2>2. Behind \subseteq Nat /\ Behind # {}
    BY <1>1, <2>1
  <2>3. PICK x \in Behind : \A y \in Behind : x <= y
    BY <2>2, LeastNat
  <2>4. PICK g \in Ahead : x = n - g
    BY <2>3
  <2>5. ASSUME NEW k \in Ahead
        PROVE  k <= g
    <3>1. n - g <= n - k
      BY <2>3, <2>4
    <3>2. g \in 0 .. n /\ k \in 0 .. n
      BY <2>1
    <3> QED
      BY <1>1, <3>1, <3>2
  <2> QED
    BY <2>5
<1>4. g \in Nat /\ h \in Nat /\ g < i /\ i < h /\ g < h
  BY <1>1
<1>5. ASSUME NEW k \in Common(f)
      PROVE  k <= g \/ k >= h
  <2>1. k \in Nat /\ i \in Nat /\ k # i
    BY <1>1
  <2>2. CASE k < i
    BY <1>3, <2>2
  <2>3. CASE k > i
    BY <1>2, <1>4, <2>1, <2>3
  <2> QED
    BY <2>1, <2>2, <2>3
<1>6. IsGap(f, <<g, h>>)
  BY <1>4, <1>5 DEF IsGap, n
<1> QED
  BY <1>4, <1>6

\* The lines of the ranges of a file with a diff are those that it did not have.
LEMMA LinesOfRanges ==
    ASSUME NEW f \in SourceFile, NEW m
    PROVE  /\ \A i \in DOMAIN f.new : f.new[i] \notin Range(f.old) =>
                  \E r \in CurrentRanges(m, Hunks(f)) :
                      r.file = m /\ r.first <= i /\ i <= r.last
           /\ \A r \in CurrentRanges(m, Hunks(f)) :
                  /\ r.file = m /\ r.first \in Nat /\ r.last \in Nat /\ r.first <= r.last
                  /\ \A i \in r.first .. r.last :
                         i \in DOMAIN f.new /\ f.new[i] \notin Range(f.old)
<1>1. Len(f.new) \in Nat /\ DOMAIN f.new = 1 .. Len(f.new)
  BY LinesOfFile
<1>2. Common(f) \subseteq 1 .. Len(f.new)
  BY <1>1 DEF Common
<1>3. ASSUME NEW i \in DOMAIN f.new, f.new[i] \notin Range(f.old)
      PROVE  \E r \in CurrentRanges(m, Hunks(f)) : r.file = m /\ r.first <= i /\ i <= r.last
  <2>1. i \notin Common(f)
    BY <1>3 DEF Common
  <2>2. PICK g \in Nat : \E h \in Nat : IsGap(f, <<g, h>>) /\ g < i /\ i < h
    BY <2>1, GapOfLine
  <2>3. PICK h \in Nat : IsGap(f, <<g, h>>) /\ g < i /\ i < h
    BY <2>2
  <2> DEFINE r == [file |-> m, first |-> g + 1, last |-> h - 1]
  <2>4. i \in Nat /\ h - g > 1 /\ g + 1 <= i /\ i <= h - 1
    BY <1>1, <2>3
  <2>5. r \in CurrentRanges(m, Hunks(f))
    BY <2>3, <2>4, RangesOfGaps
  <2>6. r.file = m /\ r.first <= i /\ i <= r.last
    BY <2>4
  <2> QED
    BY <2>5, <2>6
<1>4. ASSUME NEW r \in CurrentRanges(m, Hunks(f))
      PROVE  /\ r.file = m /\ r.first \in Nat /\ r.last \in Nat /\ r.first <= r.last
             /\ \A i \in r.first .. r.last :
                    i \in DOMAIN f.new /\ f.new[i] \notin Range(f.old)
  <2>1. PICK g \in Nat : \E h \in Nat :
            /\ IsGap(f, <<g, h>>) /\ h - g > 1
            /\ r = [file |-> m, first |-> g + 1, last |-> h - 1]
    BY RangesOfGaps
  <2>2. PICK h \in Nat :
            /\ IsGap(f, <<g, h>>) /\ h - g > 1
            /\ r = [file |-> m, first |-> g + 1, last |-> h - 1]
    BY <2>1
  <2>3. r.file = m /\ r.first = g + 1 /\ r.last = h - 1
    BY <2>2
  <2>4. r.first \in Nat /\ r.last \in Nat /\ r.first <= r.last
    BY <2>2, <2>3
  <2>5. h <= Len(f.new) + 1
    BY <1>1, <1>2, <2>2 DEF IsGap
  <2>6. ASSUME NEW i \in r.first .. r.last
        PROVE  i \in DOMAIN f.new /\ f.new[i] \notin Range(f.old)
    <3>1. i \in Nat /\ g < i /\ i < h
      BY <2>3
    <3>2. i \in DOMAIN f.new
      BY <1>1, <2>5, <3>1
    <3>3. i \notin Common(f)
      BY <2>2, <3>1 DEF IsGap
    <3> QED
      BY <3>2, <3>3 DEF Common
  <2> QED
    BY <2>3, <2>4, <2>6
<1> QED
  BY <1>3, <1>4

\* A span that begins before the end of some lines and ends after their start
\* has one of them.
LEMMA SpanMeets ==
    ASSUME NEW a \in Audits, NEW d \in a.rows, NEW first \in Nat, NEW last \in Nat,
           first <= last, NEW i \in Span(a.tree, d), NEW k \in Span(a.tree, d),
           first <= i, k <= last
    PROVE  \E j \in first .. last : j \in Span(a.tree, d)
<1> DEFINE f == a.tree[d.module]
<1>1. d.id \in 1 .. 99 /\ d.module \in LeanModules /\ f \in SourceFile
  BY AuditAssumption DEF Audit, Declaration
<1>2. DOMAIN f.built = 1 .. Len(f.built) /\ Len(f.built) \in Nat
  BY <1>1, LinesOfFile
<1>3. /\ i \in DOMAIN f.built /\ f.built[i][1] = d.id
      /\ k \in DOMAIN f.built /\ f.built[k][1] = d.id
  BY DEF Span
<1>4. \A j \in k .. i : f.built[j][1] = d.id
  <2>1. d.id # 0
    BY <1>1
  <2>2. \A x, y \in DOMAIN f.built : f.built[x][1] = f.built[y][1] /\ f.built[x][1] # 0 =>
            \A j \in x .. y : f.built[j][1] = f.built[x][1]
    BY <1>1, TreeAssumption
  <2> HIDE DEF f
  <2> QED
    BY <1>3, <2>1, <2>2
<1> HIDE DEF f
<1>5. i \in Nat /\ k \in Nat
  BY <1>2, <1>3
<1>6. CASE i <= last
  BY <1>5, <1>6
<1>7. CASE k >= first
  BY <1>5, <1>7
<1>8. CASE i > last /\ k < first
  <2>1. first \in k .. i /\ first \in first .. last /\ first \in DOMAIN f.built
    BY <1>2, <1>3, <1>5, <1>8
  <2>2. first \in Span(a.tree, d)
    BY <1>4, <2>1 DEF Span, f
  <2> QED
    BY <2>1, <2>2
<1> QED
  BY <1>5, <1>6, <1>7, <1>8

\* One row has the id of a row, so it is in focus if it matches.
LEMMA FocusOfRow ==
    ASSUME NEW a \in Audits, a.selection.since, NEW d \in a.rows
    PROVE  d.id \in Focus(a) <=> Matches(a.selection, a.tree, d)
<1>1. Restricted(a.selection)
  BY DEF Restricted, Everything
<1>2. \A e \in a.rows : e.id = d.id => e = d
  BY RowsOfAudit
<1> QED
  BY <1>1, <1>2 DEF Focus, FocusOn

\* What the ranges of a revision say of the file of a declaration.
LEMMA RangesOfFile ==
    ASSUME NEW a \in Audits, NEW m \in LeanModules, NEW r
    PROVE  LET f == a.tree[m]
               changed == CASE f.git = "tracked"   -> CurrentRanges(m, Hunks(f))
                            [] f.git = "untracked" -> {Whole(m)}
                            [] f.git = "ignored"   -> {}
           IN r.file = m => (r \in ChangedRanges(a.tree) <=> r \in changed)
<1> DEFINE changed(n) == CASE a.tree[n].git = "tracked"   -> CurrentRanges(n, Hunks(a.tree[n]))
                           [] a.tree[n].git = "untracked" -> {Whole(n)}
                           [] a.tree[n].git = "ignored"   -> {}
<1>1. \A n \in LeanModules : a.tree[n] \in SourceFile
  BY AuditAssumption DEF Audit
<1>2. \A n \in LeanModules : a.tree[n].git \in {"tracked", "untracked", "ignored"}
  BY <1>1 DEF SourceFile
<1>3. ASSUME NEW n \in LeanModules, NEW x \in changed(n)
      PROVE  x.file = n
  <2>1. CASE a.tree[n].git = "tracked"
    <3>1. x \in CurrentRanges(n, Hunks(a.tree[n]))
      BY <1>3, <2>1
    <3> QED
      BY <1>1, <3>1, LinesOfRanges
  <2>2. CASE a.tree[n].git = "untracked"
    BY <1>3, <2>2 DEF Whole
  <2>3. CASE a.tree[n].git = "ignored"
    BY <1>3, <2>3
  <2> QED
    BY <1>2, <2>1, <2>2, <2>3
<1>4. ChangedRanges(a.tree) = UNION {changed(n) : n \in LeanModules}
  BY DEF ChangedRanges
<1> HIDE DEF changed
<1>5. r.file = m => (r \in ChangedRanges(a.tree) <=> r \in changed(m))
  BY <1>3, <1>4
<1> QED
  BY <1>5 DEF changed

LEMMA ChangedIsFocused ==
    ASSUME NEW a \in Audits, a.selection.since, NEW d \in a.rows,
           a.tree[d.module].git # "ignored",
           a.tree[d.module].built = a.tree[d.module].new,
           NEW line \in Range(a.tree[d.module].new) \ Range(a.tree[d.module].old),
           line[1] = d.id
    PROVE  d.id \in Focus(a)
<1> DEFINE f == a.tree[d.module]
<1>1. d.module \in LeanModules /\ f \in SourceFile /\ f.git \in {"tracked", "untracked"}
  BY AuditAssumption DEF Audit, Declaration, SourceFile
<1>2. PICK i \in DOMAIN f.new : f.new[i] = line
  BY DEF Range
<1>3. i \in Span(a.tree, d)
  BY <1>2 DEF Span
<1>4. \E r \in ChangedRanges(a.tree) : r.file = d.module /\ r.first <= i /\ i <= r.last
  <2>1. CASE f.git = "tracked"
    <3> HIDE DEF f
    <3>1. PICK r \in CurrentRanges(d.module, Hunks(f)) :
              r.file = d.module /\ r.first <= i /\ i <= r.last
      BY <1>1, <1>2, LinesOfRanges DEF f
    <3>2. r \in ChangedRanges(a.tree)
      BY <1>1, <2>1, <3>1, RangesOfFile DEF f
    <3> QED
      BY <3>1, <3>2
  <2>2. CASE f.git = "untracked"
    <3>1. Whole(d.module) \in ChangedRanges(a.tree)
      BY <1>1, <2>2, RangesOfFile DEF Whole
    <3>2. i \in Nat /\ 1 <= i /\ i <= LastLine
      <4>1. Len(f.new) \in Nat /\ DOMAIN f.new = 1 .. Len(f.new) /\ Len(f.built) <= LastLine
        BY <1>1, LinesOfFile, TreeAssumption
      <4>2. Len(f.new) <= LastLine /\ LastLine \in Nat
        BY <4>1 DEF LastLine
      <4> HIDE DEF f
      <4> QED
        BY <1>2, <4>1, <4>2
    <3> QED
      BY <3>1, <3>2 DEF Whole
  <2> QED
    BY <1>1, <2>1, <2>2
<1>5. PICK r \in RequestedRanges(a.selection, a.tree) :
          r.file = d.module /\ r.first <= i /\ i <= r.last
  BY <1>4 DEF RequestedRanges
<1>6. Matches(a.selection, a.tree, d)
  BY <1>3, <1>5 DEF Matches
<1> QED
  BY <1>6, FocusOfRow

LEMMA FocusedIsChanged ==
    ASSUME NEW a \in Audits, a.selection.since, NEW d \in a.rows,
           a.tree[d.module].git # "ignored",
           a.tree[d.module].built = a.tree[d.module].new,
           d.id \in Focus(a)
    PROVE  \/ \E line \in Range(a.tree[d.module].new) \ Range(a.tree[d.module].old) :
                  line[1] = d.id
           \/ d.id \in a.selection.names
           \/ d.module \in a.selection.files
<1> DEFINE f == a.tree[d.module]
           changed(i) == i \in DOMAIN f.new /\ f.new[i] \notin Range(f.old) /\ f.new[i][1] = d.id
<1>1. d.module \in LeanModules /\ f \in SourceFile /\ f.git \in {"tracked", "untracked"}
  BY AuditAssumption DEF Audit, Declaration, SourceFile
<1>2. \A i : changed(i) => \E line \in Range(f.new) \ Range(f.old) : line[1] = d.id
  BY DEF Range
<1>3. Matches(a.selection, a.tree, d)
  BY FocusOfRow
<1>4. CASE d.id \in a.selection.names
  BY <1>4
<1>5. ASSUME NEW r \in RequestedRanges(a.selection, a.tree), r.file = d.module,
             NEW i \in Span(a.tree, d), r.first <= i,
             NEW k \in Span(a.tree, d), k <= r.last
      PROVE  (\E j : changed(j)) \/ d.module \in a.selection.files
  <2>1. CASE \E m \in a.selection.files : r = Whole(m)
    BY <1>5, <2>1 DEF Whole
  <2>2. CASE r \in ChangedRanges(a.tree)
    <3>1. CASE f.git = "tracked"
      <4>1. r \in CurrentRanges(d.module, Hunks(f))
        BY <1>1, <1>5, <2>2, <3>1, RangesOfFile
      <4> HIDE DEF f
      <4>2. /\ r.first \in Nat /\ r.last \in Nat /\ r.first <= r.last
            /\ \A j \in r.first .. r.last :
                   j \in DOMAIN f.new /\ f.new[j] \notin Range(f.old)
        BY <1>1, <4>1, LinesOfRanges
      <4>3. PICK j \in r.first .. r.last : j \in Span(a.tree, d)
        BY <1>5, <4>2, SpanMeets
      <4>4. f.new[j][1] = d.id
        BY <4>3 DEF Span, f
      <4>5. changed(j)
        BY <4>2, <4>3, <4>4
      <4> QED
        BY <4>5
    <3>2. CASE f.git = "untracked"
      <4>1. f.old = <<>>
        BY <1>1, <3>2, TreeAssumption
      <4>2. Range(f.old) = {}
        BY <4>1 DEF Range
      <4>3. changed(i)
        BY <4>2 DEF Span
      <4> QED
        BY <4>3
    <3> QED
      BY <1>1, <3>1, <3>2
  <2> QED
    BY <2>1, <2>2 DEF RequestedRanges
<1>6. (\E j : changed(j)) \/ d.id \in a.selection.names \/ d.module \in a.selection.files
  <2> HIDE DEF changed
  <2> QED
    BY <1>3, <1>5 DEF Matches
<1> QED
  BY <1>2, <1>6

\* If the index was built from the current text, a lint since a revision is
\* about the declarations with a line that their file did not have there, all
\* of them and no other that was not chosen by name or file.
THEOREM LintsAreOfChanges == AuditSpec => []ChangesAreFocused
<1>1. CourseInv => ChangesAreFocused
  <2> SUFFICES ASSUME CourseInv, audit.selection.since, NEW d \in audit.rows,
                      audit.tree[d.module].git # "ignored",
                      audit.tree[d.module].built = audit.tree[d.module].new
               PROVE  LET f == audit.tree[d.module]
                          changed == \E line \in Range(f.new) \ Range(f.old) : line[1] = d.id
                      IN /\ changed => Focused(d)
                         /\ Focused(d) => \/ changed \/ d.id \in audit.selection.names
                                          \/ d.module \in audit.selection.files
    BY DEF ChangesAreFocused
  <2>1. audit \in Audits
    BY DEF CourseInv
  <2> QED
    BY <2>1, ChangedIsFocused, FocusedIsChanged DEF Focused
<1> QED
  BY <1>1, CourseInvariant, PTL

=============================================================================
