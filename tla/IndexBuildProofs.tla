--------------------------- MODULE IndexBuildProofs ---------------------------
(***************************************************************************)
(* Proofs about IndexBuild, for any number of declarations, any costs,     *)
(* budget, chunk size and parallelism, and whatever fails.                 *)
(***************************************************************************)
EXTENDS IndexBuild, FiniteSetTheorems, FunctionTheorems, SequenceTheorems, TLAPS

USE DEF Decls

-----------------------------------------------------------------------------
(* Ranges of declarations *)

Ranges == {r \in (0 .. D) \X (0 .. D) : r[1] < r[2]}

\* Tasks p in line and a at work: no two of them have a declaration in common.
Apart(p, a) ==
    /\ p \in Seq(Ranges) /\ a \subseteq Ranges
    /\ \A i, j \in DOMAIN p : i # j => Of(p[i]) \cap Of(p[j]) = {}
    /\ \A r, q \in a : r # q => Of(r) \cap Of(q) = {}
    /\ \A i \in DOMAIN p : \A r \in a : Of(p[i]) \cap Of(r) = {}

Room(a) == IsFiniteSet(a) /\ Cardinality(a) <= Parallelism

\* The declarations that a task still has to process.
Left(p, a) == {d \in Decls : \E r \in ToSet(p) \cup a : d \in Of(r)}

LEMMA LinesUp ==
    ASSUME NEW p \in Seq(Ranges)
    PROVE  /\ Len(p) \in Nat /\ DOMAIN p = 1 .. Len(p)
           /\ \A i \in 1 .. Len(p) : p[i] \in Ranges
           /\ ToSet(p) = {p[i] : i \in 1 .. Len(p)}
<1> HIDE DEF Decls
<1>1. Len(p) \in Nat /\ DOMAIN p = 1 .. Len(p) /\ \A i \in 1 .. Len(p) : p[i] \in Ranges
  OBVIOUS
<1> QED
  BY <1>1 DEF ToSet

LEMMA MinOfNats ==
    ASSUME NEW i \in Nat, NEW j \in Nat
    PROVE  Min({i, j}) = IF i <= j THEN i ELSE j
<1>1. CASE i <= j
  BY <1>1 DEF Min
<1>2. CASE j < i
  BY <1>2 DEF Min
<1> QED
  BY <1>1, <1>2

\* The first n tasks, and the others.
LEMMA SplitLine ==
    ASSUME NEW p \in Seq(Ranges), NEW n \in 0 .. Len(p)
    PROVE  LET front == SubSeq(p, 1, n)
               rest  == SubSeq(p, n + 1, Len(p))
           IN /\ front \in Seq(Ranges) /\ Len(front) = n
              /\ \A i \in 1 .. n : front[i] = p[i]
              /\ rest \in Seq(Ranges) /\ Len(rest) = Len(p) - n
              /\ \A i \in 1 .. Len(p) - n : rest[i] = p[n + i]
<1>1. Len(p) \in Nat /\ \A i \in 1 .. Len(p) : p[i] \in Ranges
  BY LinesUp
<1> HIDE DEF Ranges
<1>2. /\ SubSeq(p, 1, n) \in Seq(Ranges) /\ Len(SubSeq(p, 1, n)) = n
      /\ \A i \in 1 .. n : SubSeq(p, 1, n)[i] = p[i]
  <2>1. \A i \in 1 .. n : p[i] \in Ranges
    BY <1>1
  <2>2. /\ SubSeq(p, 1, n) \in Seq(Ranges)
        /\ Len(SubSeq(p, 1, n)) = IF 1 <= n THEN n - 1 + 1 ELSE 0
        /\ \A i \in 1 .. n - 1 + 1 : SubSeq(p, 1, n)[i] = p[1 + i - 1]
    BY <1>1, <2>1, SubSeqProperties
  <2> QED
    BY <1>1, <2>2
<1>3. /\ SubSeq(p, n + 1, Len(p)) \in Seq(Ranges)
      /\ Len(SubSeq(p, n + 1, Len(p))) = Len(p) - n
      /\ \A i \in 1 .. Len(p) - n : SubSeq(p, n + 1, Len(p))[i] = p[n + i]
  <2>1. \A i \in n + 1 .. Len(p) : p[i] \in Ranges
    BY <1>1
  <2>2. n + 1 \in Int /\ Len(p) \in Int
    BY <1>1
  <2> DEFINE m == n + 1
             k == Len(p)
  <2> HIDE DEF m, k
  <2>3. /\ SubSeq(p, m, k) \in Seq(Ranges)
        /\ Len(SubSeq(p, m, k)) = IF m <= k THEN k - m + 1 ELSE 0
        /\ \A i \in 1 .. k - m + 1 : SubSeq(p, m, k)[i] = p[m + i - 1]
    BY <2>1, <2>2, SubSeqProperties DEF m, k
  <2>4. k - m + 1 = Len(p) - n /\ (~(m <= k) => Len(p) - n = 0)
    BY <1>1 DEF m, k
  <2>5. \A i \in 1 .. Len(p) - n : m + i - 1 = n + i
    BY <1>1 DEF m
  <2> QED
    BY <2>3, <2>4, <2>5 DEF m, k
<1> QED
  BY <1>2, <1>3

\* Filling moves tasks from the line to the workers: none is lost, none comes
\* to be there twice, and none waits while nobody works.
LEMMA FillKeeps ==
    ASSUME NEW p, NEW a, Apart(p, a), Room(a), Fill(p, a)
    PROVE  /\ Apart(pending', active') /\ Room(active')
           /\ Left(pending', active') = Left(p, a)
           /\ active' = {} => pending' = <<>>
<1> DEFINE room  == Parallelism - Cardinality(a)
           count == Min({room, Len(p)})
           front == SubSeq(p, 1, count)
<1>1. p \in Seq(Ranges) /\ a \subseteq Ranges /\ IsFiniteSet(a) /\ Cardinality(a) \in Nat
  BY FS_CardinalityType DEF Apart, Room
<1>2. /\ Len(p) \in Nat /\ DOMAIN p = 1 .. Len(p)
      /\ \A i \in 1 .. Len(p) : p[i] \in Ranges
      /\ ToSet(p) = {p[i] : i \in 1 .. Len(p)}
  BY <1>1, LinesUp
<1>3. room \in Nat /\ Parallelism \in Nat
  BY <1>1, BuildAssumption DEF Room
<1>4. /\ count = IF room <= Len(p) THEN room ELSE Len(p)
      /\ count \in 0 .. Len(p)
  <2> HIDE DEF room
  <2>1. count = IF room <= Len(p) THEN room ELSE Len(p)
    BY <1>2, <1>3, MinOfNats
  <2> QED
    BY <1>2, <1>3, <2>1
<1>5. active' = a \cup ToSet(front) /\ pending' = SubSeq(p, count + 1, Len(p))
  BY DEF Fill
<1>6. /\ front \in Seq(Ranges) /\ Len(front) = count
      /\ \A i \in 1 .. count : front[i] = p[i]
      /\ pending' \in Seq(Ranges) /\ Len(pending') = Len(p) - count
      /\ \A i \in 1 .. Len(p) - count : pending'[i] = p[count + i]
  <2> HIDE DEF count
  <2> QED
    BY <1>1, <1>4, <1>5, SplitLine
<1>a. Len(p) \in Nat
  BY <1>2
<1>b. room \in Nat
  BY <1>3
<1> HIDE DEF room, count, front
<1>c. count \in Nat /\ count <= Len(p) /\ count <= room
  BY <1>a, <1>b, <1>4
<1>d. \A i \in 1 .. count : i \in 1 .. Len(p) /\ front[i] = p[i]
  BY <1>a, <1>c, <1>6
<1>7. ToSet(front) = {p[i] : i \in 1 .. count}
  <2>1. ToSet(front) = {front[i] : i \in 1 .. count}
    BY <1>6, LinesUp
  <2> QED
    BY <1>d, <2>1
<1>8. ToSet(pending') = {p[i] : i \in count + 1 .. Len(p)}
  <2>1. ToSet(pending') = {pending'[i] : i \in 1 .. Len(p) - count}
    BY <1>6, LinesUp
  <2>2. ASSUME NEW i \in 1 .. Len(p) - count
        PROVE  count + i \in count + 1 .. Len(p) /\ pending'[i] = p[count + i]
    <3>1. count + i \in count + 1 .. Len(p)
      BY <1>a, <1>c
    <3> QED
      BY <1>6, <3>1
  <2>3. ASSUME NEW i \in count + 1 .. Len(p)
        PROVE  i - count \in 1 .. Len(p) - count /\ pending'[i - count] = p[i]
    <3>1. i - count \in 1 .. Len(p) - count /\ count + (i - count) = i
      BY <1>a, <1>c
    <3> QED
      BY <1>6, <3>1
  <2> QED
    BY <2>1, <2>2, <2>3
<1>9. ToSet(pending') \cup active' = ToSet(p) \cup a
  <2>1. ToSet(p) = {p[i] : i \in 1 .. count} \cup {p[i] : i \in count + 1 .. Len(p)}
    <3>1. 1 .. Len(p) = (1 .. count) \cup (count + 1 .. Len(p))
      BY <1>a, <1>c
    <3> QED
      BY <1>2, <3>1
  <2> QED
    BY <1>5, <1>7, <1>8, <2>1
<1>10. Room(active')
  <2>1. IsFiniteSet(ToSet(front)) /\ Cardinality(ToSet(front)) <= count
         /\ Cardinality(ToSet(front)) \in Nat
    <3>1. IsFiniteSet(1 .. count) /\ Cardinality(1 .. count) = count
      BY <1>c, FS_Interval
    <3>2. front \in [1 .. count -> ToSet(front)]
      BY <1>6, LenProperties DEF ToSet
    <3>3. front \in Surjection(1 .. count, ToSet(front))
      <4>1. \A t \in ToSet(front) : \E i \in 1 .. count : front[i] = t
        BY <3>2 DEF ToSet
      <4> QED
        BY <3>2, <4>1, Fun_IsSurj
    <3>4. IsFiniteSet(ToSet(front)) /\ Cardinality(ToSet(front)) <= Cardinality(1 .. count)
      BY <3>1, <3>3, FS_Surjection
    <3> QED
      BY <3>1, <3>4, FS_CardinalityType
  <2>2. /\ IsFiniteSet(active')
        /\ Cardinality(active')
              = Cardinality(a) + Cardinality(ToSet(front)) - Cardinality(a \cap ToSet(front))
    BY <1>1, <1>5, <2>1, FS_Union
  <2>3. Cardinality(a \cap ToSet(front)) \in Nat
    BY <1>1, FS_Intersection, FS_CardinalityType
  <2>4. Cardinality(a) + room = Parallelism
    BY <1>1, <1>3 DEF room
  <2> HIDE DEF Room
  <2>5. Cardinality(active') <= Parallelism
    BY <1>1, <1>3, <1>b, <1>c, <2>1, <2>2, <2>3, <2>4
  <2> QED
    BY <2>2, <2>5 DEF Room
<1>11. Apart(pending', active')
  <2>1. active' \subseteq Ranges
    <3> HIDE DEF Ranges
    <3> QED
      BY <1>1, <1>2, <1>5, <1>7, <1>d
  <2>2. DOMAIN pending' = 1 .. Len(p) - count
    BY <1>6, LinesUp
  <2>3. ASSUME NEW i \in DOMAIN pending'
        PROVE  /\ count + i \in DOMAIN p /\ pending'[i] = p[count + i]
               /\ i \in Nat /\ count + i \notin 1 .. count
    <3>1. i \in 1 .. Len(p) - count
      BY <2>2
    <3>2. count + i \in 1 .. Len(p) /\ i \in Nat /\ count + i \notin 1 .. count
      BY <1>a, <1>c, <3>1
    <3> QED
      BY <1>2, <1>6, <3>1, <3>2
  <2>4. ASSUME NEW i \in DOMAIN pending', NEW j \in DOMAIN pending', i # j
        PROVE  Of(pending'[i]) \cap Of(pending'[j]) = {}
    <3>1. count + i # count + j
      BY <1>c, <2>3, <2>4
    <3> QED
      BY <2>3, <3>1 DEF Apart
  <2>5. \A i \in 1 .. count : i \in DOMAIN p
    BY <1>2, <1>d
  <2>6. ASSUME NEW i \in DOMAIN pending', NEW r \in active'
        PROVE  Of(pending'[i]) \cap Of(r) = {}
    <3>1. CASE r \in a
      BY <2>3, <3>1 DEF Apart
    <3>2. CASE r \in ToSet(front)
      <4>1. PICK j \in 1 .. count : r = p[j]
        BY <1>7, <3>2
      <4>2. j \in DOMAIN p /\ j # count + i
        BY <2>3, <2>5
      <4> QED
        BY <2>3, <4>1, <4>2 DEF Apart
    <3> QED
      BY <1>5, <3>1, <3>2
  <2>7. ASSUME NEW r \in active', NEW q \in active', r # q
        PROVE  Of(r) \cap Of(q) = {}
    <3>1. ASSUME NEW x \in active'
          PROVE  x \in a \/ \E i \in 1 .. count : i \in DOMAIN p /\ x = p[i]
      BY <1>5, <1>7, <2>5
    <3> QED
      BY <2>7, <3>1 DEF Apart
  <2> QED
    BY <1>6, <2>1, <2>4, <2>6, <2>7 DEF Apart
<1>12. Left(pending', active') = Left(p, a)
  BY <1>9 DEF Left
<1>13. ASSUME active' = {}
       PROVE  pending' = <<>>
  <2>1. a = {} /\ ToSet(front) = {}
    BY <1>5, <1>13
  <2>2. room # 0
    BY <2>1, FS_EmptySet, BuildAssumption DEF room
  <2>3. count = 0
    <3> SUFFICES ASSUME count # 0
                 PROVE  FALSE
      OBVIOUS
    <3>1. 1 \in 1 .. count
      BY <1>c
    <3> QED
      BY <1>7, <2>1, <3>1
  <2>4. Len(p) = 0
    BY <1>4, <1>a, <1>b, <2>2, <2>3
  <2>5. Len(pending') = 0
    BY <1>6, <2>3, <2>4
  <2> QED
    BY <1>6, <2>5, EmptySeq
<1> QED
  BY <1>10, <1>11, <1>12, <1>13

\* The chunks do not overlap, and cover the declarations.
LEMMA ChunksCover == Apart(Chunks, {}) /\ Left(Chunks, {}) = Decls
<1> DEFINE n == (D + ChunkSize - 1) \div ChunkSize
<1>0. D \in Nat /\ ChunkSize \in Nat \ {0}
  BY BuildAssumption
<1>1. n \in Nat /\ D <= n * ChunkSize
  <2>1. D + ChunkSize - 1 \in Nat
    BY <1>0
  <2>2. D + ChunkSize - 1 < (n + 1) * ChunkSize /\ n \in Nat
    BY <1>0, <2>1
  <2> HIDE DEF n
  <2>3. (n + 1) * ChunkSize = n * ChunkSize + ChunkSize /\ n * ChunkSize \in Nat
    BY <1>0, <2>2
  <2> QED
    BY <1>0, <2>2, <2>3
<1>2. n * ChunkSize < D + ChunkSize
  <2>1. D + ChunkSize - 1 \in Nat
    BY <1>0
  <2>2. n * ChunkSize <= D + ChunkSize - 1 /\ n * ChunkSize \in Nat
    BY <1>0, <2>1
  <2> HIDE DEF n
  <2> QED
    BY <1>0, <2>2
<1>3. Chunks = [i \in 1 .. n |-> <<(i - 1) * ChunkSize, Min({D, i * ChunkSize})>>]
  BY DEF Chunks
<1> HIDE DEF n
<1>4. ASSUME NEW i \in 1 .. n
      PROVE  /\ (i - 1) * ChunkSize \in Nat /\ i * ChunkSize \in Nat
             /\ (i - 1) * ChunkSize < D /\ (i - 1) * ChunkSize < i * ChunkSize
             /\ Chunks[i] = <<(i - 1) * ChunkSize,
                              IF D <= i * ChunkSize THEN D ELSE i * ChunkSize>>
  <2>1. i \in Nat /\ i - 1 \in Nat /\ i <= n
    BY <1>1
  <2>2. i * ChunkSize \in Nat /\ i * ChunkSize <= n * ChunkSize /\ n * ChunkSize \in Nat
    BY <1>0, <1>1, <2>1
  <2>3. i * ChunkSize = (i - 1) * ChunkSize + ChunkSize /\ (i - 1) * ChunkSize \in Nat
    BY <1>0, <2>1
  <2>4. Min({D, i * ChunkSize}) = IF D <= i * ChunkSize THEN D ELSE i * ChunkSize
    BY <1>0, <2>2, MinOfNats
  <2>5. Chunks[i] = <<(i - 1) * ChunkSize, Min({D, i * ChunkSize})>>
    BY <1>3
  <2>6. (i - 1) * ChunkSize < D /\ (i - 1) * ChunkSize < i * ChunkSize
    BY <1>0, <1>2, <2>2, <2>3
  <2> QED
    BY <2>2, <2>3, <2>4, <2>5, <2>6
<1>5. ASSUME NEW i \in 1 .. n
      PROVE  Chunks[i] \in Ranges
  <2> DEFINE low  == (i - 1) * ChunkSize
             high == i * ChunkSize
  <2>1. low \in Nat /\ high \in Nat /\ low < D /\ low < high
        /\ Chunks[i] = <<low, IF D <= high THEN D ELSE high>>
    BY <1>4
  <2> HIDE DEF low, high
  <2> QED
    BY <1>0, <2>1 DEF Ranges
<1>6. Chunks \in Seq(Ranges) /\ DOMAIN Chunks = 1 .. n
  <2>1. Chunks \in [1 .. n -> Ranges]
    BY <1>3, <1>5
  <2> HIDE DEF Ranges
  <2> QED
    BY <1>1, <2>1
<1>7. ASSUME NEW i \in 1 .. n, NEW j \in 1 .. n, i < j
      PROVE  Of(Chunks[i]) \cap Of(Chunks[j]) = {}
  <2> DEFINE high == i * ChunkSize
             low  == (j - 1) * ChunkSize
             start == (i - 1) * ChunkSize
             stop == j * ChunkSize
  <2>1. i \in Nat /\ j - 1 \in Nat /\ i <= j - 1
    BY <1>1, <1>7
  <2>2. high \in Nat /\ low \in Nat /\ high <= low
    BY <1>0, <2>1
  <2>3. /\ Chunks[i] = <<start, IF D <= high THEN D ELSE high>>
        /\ Chunks[j] = <<low, IF D <= stop THEN D ELSE stop>>
        /\ start \in Nat /\ stop \in Nat
    BY <1>4
  <2> HIDE DEF high, low, start, stop
  <2>4. Chunks[i][2] <= high /\ Chunks[i][2] \in Nat /\ Chunks[j][1] = low
        /\ Chunks[i][1] \in Nat /\ Chunks[j][2] \in Nat
    BY <1>0, <2>2, <2>3
  <2> QED
    BY <2>2, <2>4 DEF Of
<1>8. Apart(Chunks, {})
  <2>1. \A i, j \in 1 .. n : i # j => Of(Chunks[i]) \cap Of(Chunks[j]) = {}
    <3> SUFFICES ASSUME NEW i \in 1 .. n, NEW j \in 1 .. n, i # j
                 PROVE  Of(Chunks[i]) \cap Of(Chunks[j]) = {}
      OBVIOUS
    <3>1. i < j \/ j < i
      BY <1>1
    <3> QED
      BY <1>7, <3>1
  <2> QED
    BY <1>6, <2>1 DEF Apart
<1>9. ASSUME NEW d \in Decls
      PROVE  \E r \in ToSet(Chunks) : d \in Of(r)
  <2> DEFINE k == d \div ChunkSize
  <2>1. d \in Nat /\ d < D
    BY <1>0
  <2>2. k \in Nat /\ k * ChunkSize <= d /\ d < (k + 1) * ChunkSize
    BY <1>0, <2>1
  <2> HIDE DEF k
  <2>3. k + 1 \in 1 .. n
    <3> SUFFICES ASSUME n <= k
                 PROVE  FALSE
      BY <1>1, <2>2
    <3>1. n * ChunkSize <= k * ChunkSize /\ n * ChunkSize \in Nat /\ k * ChunkSize \in Nat
      BY <1>0, <1>1, <2>2
    <3> QED
      BY <1>0, <1>1, <2>1, <2>2, <3>1
  <2> DEFINE i    == k + 1
             low  == (i - 1) * ChunkSize
             high == i * ChunkSize
  <2>a. i \in 1 .. n /\ i - 1 = k
    BY <2>2, <2>3
  <2>b. low <= d /\ d < high
    BY <2>2, <2>a
  <2> HIDE DEF i
  <2>4. Chunks[i] = <<low, IF D <= high THEN D ELSE high>> /\ low \in Nat /\ high \in Nat
    BY <1>4, <2>a
  <2> HIDE DEF low, high
  <2>6. Chunks[i][1] = low /\ d < Chunks[i][2] /\ Chunks[i][2] \in Nat
    BY <1>0, <2>1, <2>4, <2>b
  <2>7. d \in Of(Chunks[i])
    BY <2>1, <2>4, <2>b, <2>6 DEF Of
  <2> QED
    BY <1>6, <2>a, <2>7 DEF ToSet
<1>10. Left(Chunks, {}) = Decls
  BY <1>9 DEF Left
<1> QED
  BY <1>8, <1>10

-----------------------------------------------------------------------------
(* The frames of a task *)

\* A set of numbers can be put in order: each has as its place how many are no
\* greater.
LEMMA OrderExists ==
    ASSUME NEW S, S \subseteq Decls
    PROVE  /\ Cardinality(S) \in Nat
           /\ InOrder(S) \in Bijection(1 .. Cardinality(S), S)
<1> DEFINE n == Cardinality(S)
           upTo(d) == {e \in S : e <= d}
           place == [d \in S |-> Cardinality(upTo(d))]
<1>1. IsFiniteSet(S) /\ n \in Nat /\ S \subseteq Nat
  <2>0. D \in Nat
    BY BuildAssumption
  <2>1. IsFiniteSet(0 .. D - 1) /\ S \in SUBSET (0 .. D - 1)
    BY <2>0, FS_Interval
  <2>2. IsFiniteSet(S)
    BY <2>1, FS_Subset
  <2>3. S \subseteq Nat
    BY <2>0
  <2> QED
    BY <2>2, <2>3, FS_CardinalityType
<1>2. ASSUME NEW d \in S
      PROVE  /\ IsFiniteSet(upTo(d)) /\ place[d] = Cardinality(upTo(d))
             /\ place[d] \in 1 .. n
  <2>1. IsFiniteSet(upTo(d)) /\ Cardinality(upTo(d)) <= n
    BY <1>1, FS_Subset
  <2>2. Cardinality(upTo(d)) \in Nat
    BY <2>1, FS_CardinalityType
  <2>3. d \in upTo(d)
    BY <1>1
  <2>4. Cardinality(upTo(d)) # 0
    BY <2>1, <2>3, FS_EmptySet
  <2>5. place[d] = Cardinality(upTo(d))
    OBVIOUS
  <2> HIDE DEF n, place, upTo
  <2> QED
    BY <1>1, <2>1, <2>2, <2>4, <2>5
<1>3. ASSUME NEW d \in S, NEW e \in S, d < e
      PROVE  place[d] < place[e]
  <2>0. d \in Nat /\ e \in Nat
    BY <1>1
  <2>a. \A x \in S : x <= d => x <= e
    BY <1>1, <1>3, <2>0
  <2>b. e \in upTo(e) /\ e \notin upTo(d)
    BY <1>3, <2>0
  <2>1. upTo(d) \in SUBSET upTo(e) /\ upTo(e) # upTo(d)
    BY <2>a, <2>b
  <2> HIDE DEF upTo, place
  <2>2. Cardinality(upTo(d)) <= Cardinality(upTo(e))
        /\ Cardinality(upTo(d)) # Cardinality(upTo(e))
    BY <1>2, <2>1, FS_Subset
  <2>3. place[d] \in Nat /\ place[e] \in Nat
    BY <1>2
  <2> QED
    BY <1>2, <2>2, <2>3
<1> HIDE DEF place, upTo
<1>4. place \in Injection(S, 1 .. n)
  <2>1. place \in [S -> 1 .. n]
    BY <1>2 DEF place
  <2>2. \A d, e \in S : place[d] = place[e] => d = e
    <3> SUFFICES ASSUME NEW d \in S, NEW e \in S, d # e
                 PROVE  place[d] # place[e]
      OBVIOUS
    <3>1. d < e \/ e < d
      BY <1>1
    <3>2. place[d] \in Nat /\ place[e] \in Nat
      BY <1>2
    <3>3. place[d] < place[e] \/ place[e] < place[d]
      BY <1>3, <3>1
    <3> QED
      BY <3>2, <3>3
  <2> QED
    BY <2>1, <2>2, Fun_IsInj
<1>5. place \in Bijection(S, 1 .. n)
  <2>1. IsFiniteSet(1 .. n) /\ Cardinality(1 .. n) = n
    BY <1>1, FS_Interval
  <2>2. place \in Surjection(S, 1 .. n)
    BY <1>4, <2>1, FS_Injection
  <2> QED
    BY <1>4, <2>2, Fun_IsBij
<1> DEFINE q == Inverse(place, S, 1 .. n)
           sorted(f) == \A i, j \in DOMAIN f : i < j => f[i] < f[j]
<1>6. q \in Bijection(1 .. n, S) /\ \A i \in 1 .. n : place[q[i]] = i
  <2>1. q \in Bijection(1 .. n, S)
    BY <1>5, Fun_BijInverse
  <2>2. \A i \in Range(place) : place[q[i]] = i
    BY <1>5, Fun_BijectionProperties, Fun_InverseProperties
  <2>3. Range(place) = 1 .. n
    BY <1>5 DEF Bijection, Surjection, Range
  <2> QED
    BY <2>1, <2>2, <2>3
<1> HIDE DEF q
<1>7. q \in [1 .. n -> S] /\ sorted(q)
  <2>1. q \in [1 .. n -> S]
    BY <1>6, Fun_BijectionProperties
  <2>2. ASSUME NEW i \in 1 .. n, NEW j \in 1 .. n, i < j
        PROVE  q[i] < q[j]
    <3>1. q[i] \in S /\ q[j] \in S /\ place[q[i]] = i /\ place[q[j]] = j
      BY <1>6, <2>1
    <3>a. i \in Nat /\ j \in Nat
      OBVIOUS
    <3>b. q[i] \in Nat /\ q[j] \in Nat
      <4> HIDE DEF Decls
      <4> QED
        BY <1>1, <3>1
    <3>2. q[i] \in Nat /\ q[j] \in Nat /\ i \in Nat /\ j \in Nat
      BY <3>a, <3>b
    <3>3. q[i] # q[j]
      BY <2>2, <3>1, <3>2
    <3>4. ~(q[j] < q[i])
      <4> SUFFICES ASSUME q[j] < q[i]
                   PROVE  FALSE
        OBVIOUS
      <4>1. place[q[j]] < place[q[i]]
        BY <1>3, <3>1
      <4> QED
        BY <2>2, <3>1, <3>2, <4>1
    <3> QED
      BY <3>2, <3>3, <3>4
  <2> QED
    BY <2>1, <2>2
<1> DEFINE f == InOrder(S)
<1>8. f \in [1 .. n -> S] /\ sorted(f)
  BY <1>7 DEF InOrder
<1> HIDE DEF f
<1>9. f \in Injection(1 .. n, S)
  <2>1. \A i, j \in 1 .. n : f[i] = f[j] => i = j
    <3> SUFFICES ASSUME NEW i \in 1 .. n, NEW j \in 1 .. n, i # j
                 PROVE  f[i] # f[j]
      OBVIOUS
    <3>1. i < j \/ j < i
      BY <1>1
    <3>2. f[i] < f[j] \/ f[j] < f[i]
      BY <1>8, <3>1
    <3>3. f[i] \in Nat /\ f[j] \in Nat
      BY <1>1, <1>8
    <3> QED
      BY <3>2, <3>3
  <2> QED
    BY <1>8, <2>1, Fun_IsInj
<1>10. f \in Surjection(1 .. n, S)
  <2>1. Cardinality(1 .. n) = n
    BY <1>1, FS_Interval
  <2> QED
    BY <1>1, <1>9, <2>1, FS_Injection
<1>11. f \in Bijection(1 .. n, S)
  BY <1>9, <1>10, Fun_IsBij
<1> QED
  BY <1>1, <1>11 DEF f

Row(stream, d) == [stream |-> stream, id |-> d]

Rows == {Row(s, d) : s \in {"declarations", "features"}, d \in Decls}

Ends == {[stream |-> s] : s \in {"complete", "failed"}}

In(f, x) == \E i \in DOMAIN f : f[i] = x

\* Frames in the order they may have: none is sent twice, a declaration's display
\* row comes before its features, and nothing comes after the end.
Ordered(f) ==
    /\ f \in Seq(Rows \cup Ends)
    /\ \A i, j \in DOMAIN f : f[i] = f[j] => i = j
    /\ \A i, j \in DOMAIN f : \A d \in Decls :
          f[i] = Row("declarations", d) /\ f[j] = Row("features", d) => i < j
    /\ \A i \in DOMAIN f : f[i] \in Ends => i = Len(f)

Open(f) == \A x \in Ends : ~In(f, x)

LEMMA RowsAreNoEnds ==
    /\ Rows \cap Ends = {}
    /\ \A s, t \in {"declarations", "features"} : \A d, e \in Decls :
          /\ Row(s, d) \in Rows
          /\ Row(s, d) = Row(t, e) => s = t /\ d = e
          /\ Row(s, d).stream = s /\ Row(s, d).id = d
    /\ \A x \in Rows : \E s \in {"declarations", "features"} : \E d \in Decls : x = Row(s, d)
    /\ \A x \in Ends : x.stream \in {"complete", "failed"}
    /\ \A x \in Rows : x.stream \in {"declarations", "features"}
<1>1. ASSUME NEW s, NEW d
      PROVE  Row(s, d).stream = s /\ Row(s, d).id = d
  BY DEF Row
<1>2. \A x \in Rows : \E s \in {"declarations", "features"} : \E d \in Decls : x = Row(s, d)
  BY DEF Rows
<1>3. \A x \in Ends : x.stream \in {"complete", "failed"}
  BY DEF Ends
<1>4. \A x \in Rows : x.stream \in {"declarations", "features"}
  BY <1>1, <1>2
<1>5. Rows \cap Ends = {}
  BY <1>3, <1>4
<1>6. ASSUME NEW s \in {"declarations", "features"}, NEW t \in {"declarations", "features"},
             NEW d \in Decls, NEW e \in Decls
      PROVE  /\ Row(s, d) \in Rows
             /\ Row(s, d) = Row(t, e) => s = t /\ d = e
  <2>1. Row(s, d) \in Rows
    BY DEF Rows
  <2>2. Row(s, d) = Row(t, e) => s = t /\ d = e
    BY <1>1
  <2> QED
    BY <2>1, <2>2
<1> QED
  BY <1>1, <1>2, <1>3, <1>4, <1>5, <1>6

\* A task sends each of its rows once.
LEMMA RowsOfTask ==
    ASSUME NEW S, S \subseteq Decls, NEW s \in {"declarations", "features"}
    PROVE  /\ RowFrames(s, S) \in Seq(Rows) /\ Len(RowFrames(s, S)) = Cardinality(S)
           /\ Cardinality(S) \in Nat
           /\ \A i \in 1 .. Cardinality(S) : \E d \in S : RowFrames(s, S)[i] = Row(s, d)
           /\ \A i, j \in 1 .. Cardinality(S) :
                 RowFrames(s, S)[i] = RowFrames(s, S)[j] => i = j
           /\ \A d \in S : \E i \in 1 .. Cardinality(S) : RowFrames(s, S)[i] = Row(s, d)
<1> DEFINE n == Cardinality(S)
           q == InOrder(S)
           f == RowFrames(s, S)
<1>1. n \in Nat /\ q \in Bijection(1 .. n, S)
  BY OrderExists
<1> HIDE DEF q, Decls
<1>2. /\ q \in [1 .. n -> S]
      /\ \A i, j \in 1 .. n : q[i] = q[j] => i = j
      /\ \A d \in S : \E i \in 1 .. n : q[i] = d
  <2> HIDE DEF n
  <2>1. q \in [1 .. n -> S] /\ IsInjective(q) /\ \A d \in S : \E i \in 1 .. n : q[i] = d
    BY <1>1 DEF Bijection, Injection, Surjection
  <2> QED
    BY <2>1 DEF IsInjective
<1>3. f = [i \in 1 .. n |-> [stream |-> s, id |-> q[i]]]
  BY <1>2 DEF RowFrames, q
<1> HIDE DEF f, n
<1>4. \A i \in 1 .. n : f[i] = Row(s, q[i]) /\ q[i] \in S
  BY <1>2, <1>3 DEF Row
<1>5. f \in Seq(Rows) /\ Len(f) = n
  <2>1. \A i \in 1 .. n : f[i] \in Rows
    BY <1>4, RowsAreNoEnds
  <2>2. f \in [1 .. n -> Rows]
    BY <1>3, <2>1
  <2> QED
    BY <1>1, <2>2, LenProperties
<1>6. \A i, j \in 1 .. n : f[i] = f[j] => i = j
  BY <1>2, <1>4, RowsAreNoEnds
<1> QED
  BY <1>1, <1>2, <1>4, <1>5, <1>6 DEF f, n

LEMMA JoinedLine ==
    ASSUME NEW U, NEW s \in Seq(U), NEW t \in Seq(U)
    PROVE  /\ s \o t \in Seq(U) /\ Len(s \o t) = Len(s) + Len(t)
           /\ Len(s) \in Nat /\ Len(t) \in Nat
           /\ \A i \in 1 .. Len(s) : (s \o t)[i] = s[i]
           /\ \A i \in 1 .. Len(t) : (s \o t)[Len(s) + i] = t[i]
<1>1. Len(s) \in Nat /\ Len(t) \in Nat
  OBVIOUS
<1>2. /\ s \o t \in Seq(U) /\ Len(s \o t) = Len(s) + Len(t)
      /\ \A i \in 1 .. Len(s) + Len(t) :
            (s \o t)[i] = IF i <= Len(s) THEN s[i] ELSE t[i - Len(s)]
  BY ConcatProperties
<1>3. ASSUME NEW i \in 1 .. Len(s)
      PROVE  (s \o t)[i] = s[i]
  <2>1. i \in 1 .. Len(s) + Len(t) /\ i <= Len(s)
    BY <1>1
  <2> QED
    BY <1>2, <2>1
<1>4. ASSUME NEW i \in 1 .. Len(t)
      PROVE  (s \o t)[Len(s) + i] = t[i]
  <2>1. /\ Len(s) + i \in 1 .. Len(s) + Len(t) /\ ~(Len(s) + i <= Len(s))
        /\ Len(s) + i - Len(s) = i
    BY <1>1
  <2> QED
    BY <1>2, <2>1
<1> QED
  BY <1>1, <1>2, <1>3, <1>4

\* The rows of a task come behind those of the others.
LEMMA RowsComeBehind ==
    ASSUME NEW f, Ordered(f), Open(f), NEW S, S \subseteq Decls,
           \A s \in {"declarations", "features"} : \A d \in S : ~In(f, Row(s, d))
    PROVE  LET g == f \o RowFrames("declarations", S) \o RowFrames("features", S)
           IN /\ Ordered(g) /\ Open(g)
              /\ \A s \in {"declarations", "features"} : \A d \in Decls :
                    In(g, Row(s, d)) <=> In(f, Row(s, d)) \/ d \in S
<1> DEFINE a == RowFrames("declarations", S)
           b == RowFrames("features", S)
           g == f \o a \o b
           N == Len(f)
           n == Cardinality(S)
<1>1. /\ a \in Seq(Rows) /\ Len(a) = n /\ b \in Seq(Rows) /\ Len(b) = n /\ n \in Nat
      /\ \A i \in 1 .. n : \E d \in S : a[i] = Row("declarations", d)
      /\ \A i \in 1 .. n : \E d \in S : b[i] = Row("features", d)
      /\ \A i, j \in 1 .. n : a[i] = a[j] => i = j
      /\ \A i, j \in 1 .. n : b[i] = b[j] => i = j
      /\ \A d \in S : \E i \in 1 .. n : a[i] = Row("declarations", d)
      /\ \A d \in S : \E i \in 1 .. n : b[i] = Row("features", d)
  BY RowsOfTask
<1> HIDE DEF a, b, n, Decls
<1>2. f \in Seq(Rows \cup Ends) /\ N \in Nat /\ DOMAIN f = 1 .. N
  BY LenProperties DEF Ordered
<1> HIDE DEF N
<1>3. /\ g \in Seq(Rows \cup Ends) /\ Len(g) = N + n + n /\ DOMAIN g = 1 .. N + n + n
      /\ \A i \in 1 .. N : g[i] = f[i]
      /\ \A i \in 1 .. n : g[N + i] = a[i]
      /\ \A i \in 1 .. n : g[N + n + i] = b[i]
  <2>1. a \in Seq(Rows \cup Ends) /\ b \in Seq(Rows \cup Ends)
    <3>1. \A i \in 1 .. n : a[i] \in Rows \cup Ends /\ b[i] \in Rows \cup Ends
      BY <1>1, ElementOfSeq
    <3> QED
      BY <1>1, <3>1, SeqDef, LenProperties
  <2> DEFINE h == f \o a
             U == Rows \cup Ends
  <2>u. f \in Seq(U) /\ a \in Seq(U)
    BY <1>2, <2>1
  <2> HIDE DEF U
  <2>2. /\ h \in Seq(U) /\ Len(h) = N + n
        /\ \A i \in 1 .. N : h[i] = f[i]
        /\ \A i \in 1 .. n : h[N + i] = a[i]
    <3>1. /\ h \in Seq(U) /\ Len(h) = Len(f) + Len(a)
          /\ \A i \in 1 .. Len(f) : h[i] = f[i]
          /\ \A i \in 1 .. Len(a) : h[Len(f) + i] = a[i]
      BY <2>u, JoinedLine
    <3> HIDE DEF h
    <3> QED
      BY <1>1, <3>1 DEF N
  <2> HIDE DEF h
  <2>v. h \in Seq(U) /\ b \in Seq(U)
    BY <2>1, <2>2 DEF U
  <2>3. /\ h \o b \in Seq(U) /\ Len(h \o b) = N + n + n
        /\ \A i \in 1 .. N + n : (h \o b)[i] = h[i]
        /\ \A i \in 1 .. n : (h \o b)[N + n + i] = b[i]
    <3> DEFINE l == h \o b
    <3>1. /\ l \in Seq(U) /\ Len(l) = Len(h) + Len(b)
          /\ \A i \in 1 .. Len(h) : l[i] = h[i]
          /\ \A i \in 1 .. Len(b) : l[Len(h) + i] = b[i]
      BY <2>v, JoinedLine
    <3> HIDE DEF l
    <3> QED
      BY <1>1, <2>2, <3>1 DEF l
  <2>4. g = h \o b
    BY DEF h
  <2> HIDE DEF g
  <2>5. DOMAIN g = 1 .. N + n + n
    BY <2>3, <2>4, LenProperties
  <2>6. ASSUME NEW i \in 1 .. N
        PROVE  g[i] = f[i]
    <3>1. i \in 1 .. N + n
      BY <1>1, <1>2
    <3> QED
      BY <2>2, <2>3, <2>4, <3>1
  <2>7. ASSUME NEW i \in 1 .. n
        PROVE  g[N + i] = a[i]
    <3>1. N + i \in 1 .. N + n
      BY <1>1, <1>2
    <3> QED
      BY <2>2, <2>3, <2>4, <3>1
  <2>8. \A i \in 1 .. n : g[N + n + i] = b[i]
    BY <2>3, <2>4
  <2> QED
    BY <2>3, <2>4, <2>5, <2>6, <2>7, <2>8 DEF U
<1> HIDE DEF g
\* Where a frame comes from.
<1>4. ASSUME NEW k \in DOMAIN g
      PROVE  \/ k \in 1 .. N /\ k \in DOMAIN f /\ g[k] = f[k]
             \/ \E i \in 1 .. n : k = N + i /\ g[k] = a[i]
             \/ \E i \in 1 .. n : k = N + n + i /\ g[k] = b[i]
  <2>a. n \in Nat /\ N \in Nat /\ k \in 1 .. N + n + n
    BY <1>1, <1>2, <1>3
  <2>1. k \in 1 .. N \/ k - N \in 1 .. n \/ k - (N + n) \in 1 .. n
    BY <2>a
  <2>2. k = N + (k - N) /\ k = N + n + (k - (N + n))
    BY <2>a
  <2> QED
    BY <1>2, <1>3, <2>1, <2>2
<1>5. ASSUME NEW s \in {"declarations", "features"}, NEW d \in Decls
      PROVE  In(g, Row(s, d)) <=> In(f, Row(s, d)) \/ d \in S
  <2>1. ASSUME NEW k \in DOMAIN g, g[k] = Row(s, d)
        PROVE  In(f, Row(s, d)) \/ d \in S
    <3>1. CASE k \in DOMAIN f /\ g[k] = f[k]
      BY <2>1, <3>1 DEF In
    <3>2. ASSUME NEW i \in 1 .. n, g[k] = a[i] \/ g[k] = b[i]
          PROVE  d \in S
      <4>1. PICK t \in {"declarations", "features"}, e \in S : g[k] = Row(t, e)
        BY <1>1, <3>2
      <4>2. Row(t, e) = Row(s, d) /\ e \in Decls
        BY <2>1, <4>1
      <4> QED
        BY <4>2, RowsAreNoEnds
    <3> QED
      BY <1>4, <3>1, <3>2
  <2>2. ASSUME In(f, Row(s, d))
        PROVE  In(g, Row(s, d))
    <3>1. PICK i \in 1 .. N : f[i] = Row(s, d)
      BY <1>2, <2>2 DEF In
    <3>a. n \in Nat /\ N \in Nat
      BY <1>1, <1>2
    <3>b. i \in 1 .. N + n + n
      BY <3>a
    <3>2. i \in DOMAIN g
      BY <1>3, <3>b
    <3> QED
      BY <1>3, <3>1, <3>2 DEF In
  <2>3. ASSUME d \in S
        PROVE  In(g, Row(s, d))
    <3>1. CASE s = "declarations"
      <4>1. PICK i \in 1 .. n : a[i] = Row("declarations", d)
        BY <1>1, <2>3
      <4>a. n \in Nat /\ N \in Nat
        BY <1>1, <1>2
      <4>b. N + i \in 1 .. N + n + n
        BY <4>a
      <4>2. N + i \in DOMAIN g
        BY <1>3, <4>b
      <4> QED
        BY <1>3, <3>1, <4>1, <4>2 DEF In
    <3>2. CASE s = "features"
      <4>1. PICK i \in 1 .. n : b[i] = Row("features", d)
        BY <1>1, <2>3
      <4>a. n \in Nat /\ N \in Nat
        BY <1>1, <1>2
      <4>b. N + n + i \in 1 .. N + n + n
        BY <4>a
      <4>2. N + n + i \in DOMAIN g
        BY <1>3, <4>b
      <4> QED
        BY <1>3, <3>2, <4>1, <4>2 DEF In
    <3> QED
      BY <3>1, <3>2
  <2> QED
    BY <2>1, <2>2, <2>3 DEF In
\* No frame of f is one of the new ones, and the new ones are rows.
<1>6. ASSUME NEW i \in DOMAIN f, NEW j \in 1 .. n
      PROVE  f[i] # a[j] /\ f[i] # b[j]
  BY <1>1 DEF In
<1>7. \A i, j \in 1 .. n : a[i] # b[j] /\ a[i] \in Rows /\ b[i] \in Rows
  BY <1>1, RowsAreNoEnds
<1>8. Open(g)
  <2>1. ASSUME NEW k \in DOMAIN g
        PROVE  g[k] \notin Ends
    <3>1. CASE k \in DOMAIN f /\ g[k] = f[k]
      BY <3>1 DEF Open, In
    <3>2. ASSUME NEW i \in 1 .. n, g[k] = a[i] \/ g[k] = b[i]
          PROVE  g[k] \notin Ends
      BY <1>7, <3>2, RowsAreNoEnds
    <3> QED
      BY <1>4, <3>1, <3>2
  <2> QED
    BY <2>1 DEF Open, In
<1>9. \A i, j \in DOMAIN g : g[i] = g[j] => i = j
  <2> SUFFICES ASSUME NEW i \in DOMAIN g, NEW j \in DOMAIN g, g[i] = g[j]
               PROVE  i = j
    OBVIOUS
  <2>1. ASSUME NEW k \in 1 .. n, NEW l \in 1 .. n, g[i] = a[k], i = N + k, g[j] = a[l], j = N + l
        PROVE  i = j
    BY <1>1, <2>1
  <2>2. ASSUME NEW k \in 1 .. n, NEW l \in 1 .. n,
               g[i] = b[k], i = N + n + k, g[j] = b[l], j = N + n + l
        PROVE  i = j
    BY <1>1, <2>2
  <2>3. CASE i \in DOMAIN f /\ g[i] = f[i] /\ j \in DOMAIN f /\ g[j] = f[j]
    BY <2>3 DEF Ordered
  <2> QED
    BY <1>4, <1>6, <1>7, <2>1, <2>2, <2>3
<1>10. ASSUME NEW i \in DOMAIN g, NEW j \in DOMAIN g, NEW d \in Decls,
              g[i] = Row("declarations", d), g[j] = Row("features", d)
       PROVE  i < j
  <2>1. ASSUME NEW k \in 1 .. n, g[i] = b[k]
        PROVE  FALSE
    BY <1>1, <1>10, <2>1, RowsAreNoEnds
  <2>2. ASSUME NEW k \in 1 .. n, g[j] = a[k]
        PROVE  FALSE
    BY <1>1, <1>10, <2>2, RowsAreNoEnds
  <2>3. CASE i \in DOMAIN f /\ g[i] = f[i] /\ j \in DOMAIN f /\ g[j] = f[j]
    BY <1>10, <2>3 DEF Ordered
  <2>4. ASSUME NEW l \in 1 .. n, j = N + n + l, i \in 1 .. N
        PROVE  i < j
    BY <1>1, <1>2, <2>4
  <2>5. ASSUME NEW k \in 1 .. n, NEW l \in 1 .. n, i = N + k, j = N + n + l
        PROVE  i < j
    BY <1>1, <1>2, <2>5
  <2>6. ASSUME NEW k \in 1 .. n, g[i] = a[k], j \in DOMAIN f, g[j] = f[j]
        PROVE  FALSE
    <3>1. d \in S
      BY <1>1, <1>10, <2>6, RowsAreNoEnds
    <3> QED
      BY <1>10, <2>6, <3>1 DEF In
  <2> QED
    BY <1>4, <2>1, <2>2, <2>3, <2>4, <2>5, <2>6
<1>11. \A i \in DOMAIN g : g[i] \in Ends => i = Len(g)
  BY <1>8 DEF Open, In
<1>12. Ordered(g)
  BY <1>3, <1>9, <1>10, <1>11 DEF Ordered
<1> QED
  BY <1>5, <1>8, <1>12 DEF g, a, b

\* The end of an answer comes last.
LEMMA EndComesLast ==
    ASSUME NEW f, Ordered(f), Open(f), NEW x \in Ends
    PROVE  LET g == Append(f, x)
           IN /\ Ordered(g) /\ g # <<>> /\ g[Len(g)] = x
              /\ \A s \in {"declarations", "features"} : \A d \in Decls :
                    In(g, Row(s, d)) <=> In(f, Row(s, d))
<1> DEFINE g == Append(f, x)
           N == Len(f)
<1> HIDE DEF Decls
<1>1. f \in Seq(Rows \cup Ends) /\ N \in Nat /\ DOMAIN f = 1 .. N
  BY LenProperties DEF Ordered
<1>2. /\ g \in Seq(Rows \cup Ends) /\ Len(g) = N + 1 /\ DOMAIN g = 1 .. N + 1
      /\ \A i \in 1 .. N : g[i] = f[i]
      /\ g[N + 1] = x /\ g # <<>>
  <2>1. /\ g \in Seq(Rows \cup Ends) /\ Len(g) = N + 1
        /\ \A i \in 1 .. N : g[i] = f[i]
        /\ g[N + 1] = x
    BY <1>1, AppendProperties
  <2>2. g # <<>>
    BY <1>1, <2>1, EmptySeq
  <2> QED
    BY <2>1, <2>2, LenProperties
<1> HIDE DEF g, N
<1>3. ASSUME NEW k \in DOMAIN g
      PROVE  \/ k \in DOMAIN f /\ k \in 1 .. N /\ g[k] = f[k]
             \/ k = N + 1 /\ g[k] = x
  BY <1>1, <1>2
<1>4. ASSUME NEW k \in DOMAIN f
      PROVE  f[k] # x /\ f[k] \notin Ends
  BY DEF Open, In
<1>5. ASSUME NEW k \in DOMAIN f
      PROVE  k \in DOMAIN g /\ g[k] = f[k]
  BY <1>1, <1>2
<1>6. ASSUME NEW s \in {"declarations", "features"}, NEW d \in Decls
      PROVE  In(g, Row(s, d)) <=> In(f, Row(s, d))
  <2>1. x # Row(s, d)
    BY RowsAreNoEnds
  <2> QED
    BY <1>3, <1>5, <2>1 DEF In
<1>7. \A i, j \in DOMAIN g : g[i] = g[j] => i = j
  BY <1>3, <1>4 DEF Ordered
<1>8. ASSUME NEW i \in DOMAIN g, NEW j \in DOMAIN g, NEW d \in Decls,
             g[i] = Row("declarations", d), g[j] = Row("features", d)
      PROVE  i < j
  <2>1. x # Row("declarations", d) /\ x # Row("features", d)
    BY RowsAreNoEnds
  <2> QED
    BY <1>3, <1>8, <2>1 DEF Ordered
<1>9. \A i \in DOMAIN g : g[i] \in Ends => i = Len(g)
  BY <1>2, <1>3, <1>4
<1>10. Ordered(g)
  BY <1>2, <1>7, <1>8, <1>9 DEF Ordered
<1> QED
  BY <1>2, <1>6, <1>10 DEF g

\* Reading takes the first frame off.
LEMMA ReadTakesFirst ==
    ASSUME NEW f, Ordered(f), f # <<>>
    PROVE  LET g == Tail(f)
           IN /\ Ordered(g)
              /\ \A x : In(g, x) <=> In(f, x) /\ x # Head(f)
              /\ Head(f) \in Rows \cup Ends /\ In(f, Head(f))
              /\ Head(f) \in Ends => g = <<>>
              /\ g # <<>> => g[Len(g)] = f[Len(f)]
              /\ g = <<>> => Head(f) = f[Len(f)]
              /\ \A d \in Decls :
                    Head(f) = Row("features", d) => ~In(f, Row("declarations", d))
<1> DEFINE g == Tail(f)
           N == Len(f)
<1> HIDE DEF Decls
<1>1. f \in Seq(Rows \cup Ends) /\ N \in Nat /\ DOMAIN f = 1 .. N /\ N # 0
  BY LenProperties, EmptySeq DEF Ordered
<1>2. /\ g \in Seq(Rows \cup Ends) /\ Len(g) = N - 1 /\ DOMAIN g = 1 .. N - 1
      /\ \A i \in 1 .. N - 1 : g[i] = f[i + 1]
      /\ Head(f) = f[1]
  <2>1. /\ g \in Seq(Rows \cup Ends) /\ Len(g) = N - 1
        /\ \A i \in 1 .. N - 1 : g[i] = f[i + 1]
    BY <1>1, HeadTailProperties
  <2> QED
    BY <1>1, <2>1, LenProperties
<1> HIDE DEF g, N
<1>3. ASSUME NEW k \in DOMAIN g
      PROVE  k + 1 \in DOMAIN f /\ g[k] = f[k + 1] /\ k + 1 # 1 /\ k \in Nat
  BY <1>1, <1>2
<1>4. ASSUME NEW k \in DOMAIN f, k # 1
      PROVE  k - 1 \in DOMAIN g /\ g[k - 1] = f[k]
  <2>1. k - 1 \in 1 .. N - 1 /\ (k - 1) + 1 = k
    BY <1>1, <1>4
  <2> QED
    BY <1>2, <2>1
<1>5. 1 \in DOMAIN f
  BY <1>1
<1>6. ASSUME NEW x
      PROVE  In(g, x) <=> In(f, x) /\ x # Head(f)
  <2>1. ASSUME In(g, x)
        PROVE  In(f, x) /\ x # Head(f)
    BY <1>2, <1>3, <1>5, <2>1 DEF In, Ordered
  <2>2. ASSUME In(f, x), x # Head(f)
        PROVE  In(g, x)
    BY <1>2, <1>4, <2>2 DEF In
  <2> QED
    BY <2>1, <2>2
<1>7. Head(f) \in Rows \cup Ends /\ In(f, Head(f))
  BY <1>1, <1>2, <1>5, ElementOfSeq DEF In
<1>8. ASSUME Head(f) \in Ends
      PROVE  g = <<>>
  <2>1. 1 = N
    BY <1>2, <1>5, <1>8 DEF Ordered, N
  <2>2. Len(g) = 0
    BY <1>2, <2>1
  <2> QED
    BY <1>2, <2>2, EmptySeq
<1>9. ASSUME g # <<>>
      PROVE  g[Len(g)] = f[Len(f)]
  <2>1. Len(g) # 0
    BY <1>2, <1>9, EmptySeq
  <2>2. N - 1 \in 1 .. N - 1 /\ N - 1 + 1 = N
    BY <1>1, <1>2, <2>1
  <2>3. g[N - 1] = f[N - 1 + 1]
    BY <1>2, <2>2
  <2> QED
    BY <1>2, <2>2, <2>3 DEF N
<1>10. ASSUME g = <<>>
       PROVE  Head(f) = f[Len(f)]
  <2>1. Len(g) = 0
    BY <1>10, EmptySeq
  <2>2. N = 1
    BY <1>1, <1>2, <2>1
  <2> QED
    BY <1>2, <2>2 DEF N
<1>11. Ordered(g)
  <2>1. \A i, j \in DOMAIN g : g[i] = g[j] => i = j
    <3> SUFFICES ASSUME NEW i \in DOMAIN g, NEW j \in DOMAIN g, g[i] = g[j]
                 PROVE  i = j
      OBVIOUS
    <3>1. i + 1 = j + 1
      BY <1>3 DEF Ordered
    <3> QED
      BY <1>3, <3>1
  <2>2. ASSUME NEW i \in DOMAIN g, NEW j \in DOMAIN g, NEW d \in Decls,
               g[i] = Row("declarations", d), g[j] = Row("features", d)
        PROVE  i < j
    <3>1. i + 1 < j + 1
      BY <1>3, <2>2 DEF Ordered
    <3> QED
      BY <1>3, <3>1
  <2>3. ASSUME NEW i \in DOMAIN g, g[i] \in Ends
        PROVE  i = Len(g)
    <3>1. i + 1 = N
      BY <1>3, <2>3 DEF Ordered, N
    <3> QED
      BY <1>2, <1>3, <3>1
  <2> QED
    BY <1>2, <2>1, <2>2, <2>3 DEF Ordered
<1>12. ASSUME NEW d \in Decls, Head(f) = Row("features", d), In(f, Row("declarations", d))
       PROVE  FALSE
  <2>1. PICK k \in DOMAIN f : f[k] = Row("declarations", d)
    BY <1>12 DEF In
  <2>2. k < 1
    BY <1>2, <1>5, <1>12, <2>1 DEF Ordered
  <2>3. k \in 1 .. N
    BY <1>1
  <2> QED
    BY <2>2, <2>3
<1> QED
  BY <1>6, <1>7, <1>8, <1>9, <1>10, <1>11, <1>12 DEF g

-----------------------------------------------------------------------------
(* What becomes of a declaration of a mathlib index *)

ShownSent(d)    == In(frames, Row("declarations", d))
FeaturesSent(d) == In(frames, Row("features", d))

\* No task has ended with it, or none sent it; both rows are on the way; its
\* display row waits for the features; or it is in the index.
Untouched(d) == ~ShownSent(d) /\ ~FeaturesSent(d) /\ d \notin declarations /\ written[d] = 0
BothSent(d)  == ShownSent(d) /\ FeaturesSent(d) /\ d \notin declarations /\ written[d] = 0
HalfRead(d)  == ~ShownSent(d) /\ FeaturesSent(d) /\ d \in declarations /\ written[d] = 0
Joined(d)    == ~ShownSent(d) /\ ~FeaturesSent(d) /\ d \notin declarations /\ written[d] = 1

RowsInv ==
    /\ features = {} /\ declarations \subseteq Decls
    /\ \A d \in Decls :
          Untouched(d) \/ (~Omitted(d) /\ (BothSent(d) \/ HalfRead(d) \/ Joined(d)))

\* Before and while tasks run: what is left of them is untouched, and of what is
\* within the budget, nothing else is.
TasksInv ==
    /\ phase = "start" => frames = <<>> /\ \A d \in Decls : Untouched(d)
    /\ phase = "streaming" =>
          /\ Open(frames) /\ Apart(pending, active) /\ Room(active)
          /\ active = {} => pending = <<>>
          /\ \A d \in Left(pending, active) : Untouched(d)
          /\ \A d \in Decls : Untouched(d) /\ ~Omitted(d) => d \in Left(pending, active)

\* An answer that says it is complete is.
Whole == \A d \in Decls : ~Omitted(d) => ~Untouched(d)

EndInv ==
    /\ phase = "answered" =>
          /\ frames # <<>>
          /\ \/ frames[Len(frames)] = [stream |-> "complete"] /\ Whole
             \/ frames[Len(frames)] = [stream |-> "failed"] /\ faults # 0
    /\ phase = "published" => Whole /\ frames = <<>> /\ declarations = {}
    /\ phase = "failed" => faults # 0

StreamInv ==
    /\ phase \in {"start", "streaming", "answered"} \cup Ended
    /\ Ordered(frames)
    /\ RowsInv /\ TasksInv /\ EndInv

\* The other kinds have one command after the other.
TwoCommandsInv ==
    /\ phase \in {"extract", "features", "join"} \cup Ended
    /\ active = {}
    /\ phase \in {"features", "join"} => declarations = {d \in Decls : RowCost[d] <= Budget}
    /\ phase = "join" => features = {d \in Decls : FeatureCost[d] <= Budget}
    /\ phase = "published" => IndexIsComplete

IInv ==
    /\ kind \in {"mathlib", "local"}
    /\ faults \in Nat /\ written \in [Decls -> Nat]
    /\ IF kind = "mathlib" THEN StreamInv ELSE TwoCommandsInv

-----------------------------------------------------------------------------
(* The steps of a mathlib index *)

\* A task that ends leaves what no other task has.
LEMMA TaskEnds ==
    ASSUME NEW p, NEW a, Apart(p, a), Room(a), NEW r \in a
    PROVE  /\ Apart(p, a \ {r}) /\ Room(a \ {r}) /\ Of(r) \subseteq Decls
           /\ \A d \in Of(r) : d \in Left(p, a) /\ d \notin Left(p, a \ {r})
           /\ \A d \in Left(p, a) : d \in Of(r) \/ d \in Left(p, a \ {r})
           /\ Left(p, a \ {r}) \subseteq Left(p, a)
<1>1. r \in Ranges /\ D \in Nat
  BY BuildAssumption DEF Apart
<1>2. Of(r) \subseteq Decls
  <2>1. r[1] \in Nat /\ r[2] \in Nat /\ r[2] <= D
    BY <1>1 DEF Ranges
  <2> QED
    BY <1>1, <2>1 DEF Of
<1>3. Apart(p, a \ {r})
  BY DEF Apart
<1>4. Room(a \ {r})
  <2>1. IsFiniteSet(a \ {r}) /\ Cardinality(a \ {r}) <= Cardinality(a)
    BY FS_Subset DEF Room
  <2>2. Cardinality(a \ {r}) \in Nat /\ Cardinality(a) \in Nat /\ Parallelism \in Nat
    BY <2>1, FS_CardinalityType, BuildAssumption DEF Room
  <2> QED
    BY <2>1, <2>2 DEF Room
<1>5. ASSUME NEW d \in Of(r)
      PROVE  d \in Left(p, a) /\ d \notin Left(p, a \ {r})
  <2>1. d \in Left(p, a)
    BY <1>2 DEF Left
  <2>2. ASSUME NEW q \in ToSet(p) \cup (a \ {r}), d \in Of(q)
        PROVE  FALSE
    <3>1. CASE q \in a \ {r}
      BY <2>2, <3>1 DEF Apart
    <3>2. CASE q \in ToSet(p)
      <4>1. PICK i \in DOMAIN p : q = p[i]
        BY <3>2 DEF ToSet
      <4> QED
        BY <2>2, <4>1 DEF Apart
    <3> QED
      BY <2>2, <3>1, <3>2
  <2> QED
    BY <2>1, <2>2 DEF Left
<1>6. \A d \in Left(p, a) : d \in Of(r) \/ d \in Left(p, a \ {r})
  BY DEF Left
<1>7. Left(p, a \ {r}) \subseteq Left(p, a)
  BY DEF Left
<1> QED
  BY <1>2, <1>3, <1>4, <1>5, <1>6, <1>7

\* The two halves of a range are that range.
LEMMA HalvesAreRange ==
    ASSUME NEW p, NEW a, Apart(p, a), Room(a), NEW r \in a, r[2] - r[1] > 1
    PROVE  LET mid == r[1] + (r[2] - r[1]) \div 2
               q   == <<<<r[1], mid>>, <<mid, r[2]>>>> \o p
           IN Apart(q, a \ {r}) /\ Left(q, a \ {r}) = Left(p, a)
<1> DEFINE mid == r[1] + (r[2] - r[1]) \div 2
           h == <<r[1], mid>>
           l == <<mid, r[2]>>
           q == <<h, l>> \o p
<1>1. r \in Ranges /\ p \in Seq(Ranges) /\ Len(p) \in Nat /\ DOMAIN p = 1 .. Len(p)
  BY LinesUp DEF Apart
<1>2. r[1] \in 0 .. D /\ r[2] \in 0 .. D /\ r[1] \in Nat /\ r[2] \in Nat /\ D \in Nat
  BY <1>1, BuildAssumption DEF Ranges
<1>3. mid \in Nat /\ r[1] < mid /\ mid < r[2]
  <2> DEFINE m == r[2] - r[1]
  <2>1. m \in Nat /\ m > 1
    BY <1>2
  <2>2. m \div 2 \in Nat /\ 1 <= m \div 2 /\ m \div 2 < m
    BY <2>1
  <2> HIDE DEF mid
  <2>3. mid = r[1] + m \div 2
    BY DEF mid
  <2> DEFINE e == m \div 2
  <2>4. e \in Nat /\ 1 <= e /\ e < m /\ mid = r[1] + e
    BY <2>2, <2>3
  <2> HIDE DEF e
  <2> QED
    BY <1>2, <2>4
<1> HIDE DEF mid
<1>4. h \in Ranges /\ l \in Ranges
  BY <1>2, <1>3 DEF Ranges
<1>5. Of(h) \cap Of(l) = {} /\ Of(h) \cup Of(l) = Of(r)
  <2>1. Of(h) = r[1] .. mid - 1 /\ Of(l) = mid .. r[2] - 1 /\ Of(r) = r[1] .. r[2] - 1
    BY DEF Of
  <2> QED
    BY <1>2, <1>3, <2>1
<1> HIDE DEF h, l, Ranges
<1>6. /\ q \in Seq(Ranges) /\ DOMAIN q = 1 .. 2 + Len(p)
      /\ q[1] = h /\ q[2] = l
      /\ \A i \in DOMAIN p : q[2 + i] = p[i]
  <2> DEFINE s == <<h, l>>
  <2>1. s \in Seq(Ranges) /\ Len(s) = 2 /\ s[1] = h /\ s[2] = l
    BY <1>4
  <2> HIDE DEF s
  <2> DEFINE j == s \o p
  <2>2. /\ j \in Seq(Ranges) /\ Len(j) = Len(s) + Len(p)
        /\ \A i \in 1 .. Len(s) : j[i] = s[i]
        /\ \A i \in 1 .. Len(p) : j[Len(s) + i] = p[i]
    <3>1. s \in Seq(Ranges) /\ p \in Seq(Ranges)
      BY <1>1, <2>1
    <3> QED
      BY <3>1, JoinedLine
  <2>3. q = j
    BY DEF s
  <2> HIDE DEF q, j
  <2>4. DOMAIN q = 1 .. 2 + Len(p)
    BY <2>1, <2>2, <2>3, LenProperties
  <2>5. q[1] = h /\ q[2] = l
    BY <2>1, <2>2, <2>3
  <2> QED
    BY <1>1, <2>1, <2>2, <2>3, <2>4, <2>5
<1> HIDE DEF q
<1>7. ASSUME NEW i \in DOMAIN q
      PROVE  \/ i = 1 /\ q[i] = h
             \/ i = 2 /\ q[i] = l
             \/ \E k \in DOMAIN p : i = 2 + k /\ q[i] = p[k]
  <2>1. i = 1 \/ i = 2 \/ (i - 2 \in 1 .. Len(p) /\ i = 2 + (i - 2))
    BY <1>1, <1>6
  <2> QED
    BY <1>1, <1>6, <2>1
<1>8. \A k \in DOMAIN p : Of(p[k]) \cap Of(h) = {} /\ Of(p[k]) \cap Of(l) = {}
  BY <1>5 DEF Apart
<1>9. \A k \in a \ {r} : Of(k) \cap Of(h) = {} /\ Of(k) \cap Of(l) = {}
  BY <1>5 DEF Apart
<1>10. Apart(q, a \ {r})
  <2>1. ASSUME NEW i \in DOMAIN q, NEW j \in DOMAIN q, i # j
        PROVE  Of(q[i]) \cap Of(q[j]) = {}
    <3>1. CASE \E k \in DOMAIN p : i = 2 + k /\ q[i] = p[k]
      <4>1. PICK k \in DOMAIN p : i = 2 + k /\ q[i] = p[k]
        BY <3>1
      <4>2. ASSUME NEW m \in DOMAIN p, j = 2 + m, q[j] = p[m]
            PROVE  Of(q[i]) \cap Of(q[j]) = {}
        <5>1. k # m
          BY <2>1, <4>1, <4>2
        <5> QED
          BY <4>1, <4>2, <5>1 DEF Apart
      <4> QED
        BY <1>7, <1>8, <4>1, <4>2
    <3>2. CASE i = 1 /\ q[i] = h
      BY <1>5, <1>7, <1>8, <2>1, <3>2
    <3>3. CASE i = 2 /\ q[i] = l
      BY <1>5, <1>7, <1>8, <2>1, <3>3
    <3> QED
      BY <1>7, <3>1, <3>2, <3>3
  <2>2. \A i \in DOMAIN q : \A k \in a \ {r} : Of(q[i]) \cap Of(k) = {}
    BY <1>7, <1>9 DEF Apart
  <2> QED
    BY <1>6, <2>1, <2>2 DEF Apart
<1>11. Left(q, a \ {r}) = Left(p, a)
  <2>1. ToSet(q) = ToSet(p) \cup {h, l}
    <3>1. 1 \in DOMAIN q /\ 2 \in DOMAIN q
      BY <1>1, <1>6
    <3>2. \A k \in DOMAIN p : 2 + k \in DOMAIN q
      BY <1>1, <1>6
    <3> QED
      BY <1>6, <1>7, <3>1, <3>2 DEF ToSet
  <2> QED
    BY <1>5, <2>1 DEF Left
<1> QED
  BY <1>10, <1>11 DEF q, h, l, mid

\* A row is read: its declaration moves on, the others stay as they are.
LEMMA RowMoves ==
    ASSUME IInv, kind = "mathlib", ReadRow
    PROVE  /\ RowsInv' /\ Ordered(frames)' /\ written' \in [Decls -> Nat]
           /\ \A d \in Decls : Untouched(d)' <=> Untouched(d)
           /\ \A x \in Ends : In(frames, x)' => In(frames, x)
           /\ Len(frames) \in Nat /\ frames # <<>>
           /\ frames[Len(frames)] \in Ends =>
                 frames' # <<>> /\ frames'[Len(frames')] = frames[Len(frames)]
<1> DEFINE x == Head(frames)
<1> HIDE DEF Decls
<1>1. /\ Ordered(frames) /\ RowsInv /\ written \in [Decls -> Nat]
      /\ frames # <<>> /\ frames' = Tail(frames)
  BY DEF IInv, StreamInv, ReadRow
<1>2. /\ Ordered(frames')
      /\ \A y : In(frames', y) <=> In(frames, y) /\ y # x
      /\ x \in Rows \cup Ends /\ In(frames, x)
      /\ frames' # <<>> => frames'[Len(frames')] = frames[Len(frames)]
      /\ frames' = <<>> => x = frames[Len(frames)]
      /\ \A d \in Decls : x = Row("features", d) => ~In(frames, Row("declarations", d))
  BY <1>1, ReadTakesFirst
<1>3. Len(frames) \in Nat
  BY <1>1 DEF Ordered
<1>4. x.stream \in {"declarations", "features"}
  BY DEF ReadRow
<1>5. x \notin Ends /\ x \in Rows
  BY <1>2, <1>4, RowsAreNoEnds
<1>6. PICK s \in {"declarations", "features"}, d \in Decls : x = Row(s, d)
  BY <1>5, RowsAreNoEnds
<1>7. x.stream = s /\ x.id = d
  BY <1>6, RowsAreNoEnds
<1> HIDE DEF x
\* The rows of other declarations, and the other row of this one.
<1>8. \A e \in Decls : e # d =>
         (ShownSent(e)' <=> ShownSent(e)) /\ (FeaturesSent(e)' <=> FeaturesSent(e))
  <2> SUFFICES ASSUME NEW e \in Decls, e # d
               PROVE  (ShownSent(e)' <=> ShownSent(e)) /\ (FeaturesSent(e)' <=> FeaturesSent(e))
    OBVIOUS
  <2>1. Row("declarations", e) # x /\ Row("features", e) # x
    BY <1>6, RowsAreNoEnds
  <2> QED
    BY <1>2, <2>1 DEF ShownSent, FeaturesSent
<1>9. CASE s = "declarations"
  <2>1. features = {} /\ declarations' = declarations \cup {d} /\ UNCHANGED <<features, written>>
    BY <1>1, <1>7, <1>9 DEF ReadRow, AcceptDeclaration, RowsInv, x
  <2>2. ShownSent(d) /\ ~ShownSent(d)'
    BY <1>2, <1>6, <1>9 DEF ShownSent
  <2>3. BothSent(d)
    BY <1>1, <2>2 DEF RowsInv, Untouched, BothSent, HalfRead, Joined
  <2>4. FeaturesSent(d)'
    <3>1. Row("features", d) # x
      BY <1>6, <1>9, RowsAreNoEnds
    <3> QED
      BY <1>2, <2>3, <3>1 DEF BothSent, FeaturesSent
  <2>5. HalfRead(d)' /\ ~Untouched(d)' /\ ~Untouched(d) /\ ~Omitted(d)
    BY <1>1, <2>1, <2>2, <2>3, <2>4 DEF RowsInv, Untouched, BothSent, HalfRead
  <2>6. \A e \in Decls : e # d =>
           /\ Untouched(e)' <=> Untouched(e)
           /\ BothSent(e)' <=> BothSent(e)
           /\ HalfRead(e)' <=> HalfRead(e)
           /\ Joined(e)' <=> Joined(e)
    BY <1>8, <2>1 DEF Untouched, BothSent, HalfRead, Joined
  <2>7. RowsInv'
    BY <1>1, <2>1, <2>5, <2>6 DEF RowsInv, Omitted
  <2>8. written' \in [Decls -> Nat] /\ \A e \in Decls : Untouched(e)' <=> Untouched(e)
    BY <1>1, <2>1, <2>5, <2>6
  <2> QED
    BY <1>1, <1>2, <1>3, <1>5, <2>7, <2>8
<1>10. CASE s = "features"
  <2>1. FeaturesSent(d) /\ ~FeaturesSent(d)' /\ ~ShownSent(d)
    BY <1>2, <1>6, <1>10 DEF FeaturesSent, ShownSent
  <2>2. HalfRead(d)
    BY <1>1, <2>1 DEF RowsInv, Untouched, BothSent, HalfRead, Joined
  <2>3. /\ declarations' = declarations \ {d} /\ features' = features
        /\ written' = [written EXCEPT ![d] = @ + 1]
    BY <1>7, <1>10, <2>2 DEF ReadRow, AcceptFeature, Insert, HalfRead, x
  <2>4. written' \in [Decls -> Nat] /\ written'[d] = 1
        /\ \A e \in Decls : e # d => written'[e] = written[e]
    BY <1>1, <2>2, <2>3 DEF HalfRead
  <2>5. ~ShownSent(d)'
    BY <1>2, <2>1 DEF ShownSent
  <2>6. Joined(d)' /\ ~Untouched(d)' /\ ~Untouched(d) /\ ~Omitted(d)
    BY <1>1, <2>1, <2>2, <2>3, <2>4, <2>5 DEF RowsInv, Untouched, HalfRead, Joined, BothSent
  <2>7. \A e \in Decls : e # d =>
           /\ Untouched(e)' <=> Untouched(e)
           /\ BothSent(e)' <=> BothSent(e)
           /\ HalfRead(e)' <=> HalfRead(e)
           /\ Joined(e)' <=> Joined(e)
    BY <1>8, <2>3, <2>4 DEF Untouched, BothSent, HalfRead, Joined
  <2>8. RowsInv'
    BY <1>1, <2>3, <2>6, <2>7 DEF RowsInv, Omitted
  <2>9. \A e \in Decls : Untouched(e)' <=> Untouched(e)
    BY <2>6, <2>7
  <2> QED
    BY <1>1, <1>2, <1>3, <1>5, <2>4, <2>8, <2>9
<1> QED
  BY <1>9, <1>10

LEMMA InitInv == Init => IInv
<1> SUFFICES ASSUME Init
             PROVE  IInv
  OBVIOUS
<1>1. kind \in {"mathlib", "local"} /\ faults \in Nat /\ written \in [Decls -> Nat]
  BY BuildAssumption DEF Init
<1>2. frames = <<>> /\ declarations = {} /\ features = {} /\ active = {}
      /\ \A d \in Decls : written[d] = 0
  BY DEF Init
<1> HIDE DEF Decls
<1>3. ASSUME kind = "mathlib"
      PROVE  StreamInv
  <2>1. phase = "start"
    BY <1>3 DEF Init
  <2>2. frames \in Seq(Rows \cup Ends) /\ DOMAIN frames = {}
    BY <1>2
  <2>3. Ordered(frames)
    BY <2>2 DEF Ordered
  <2>4. \A d \in Decls : Untouched(d)
    BY <1>2, <2>2 DEF Untouched, ShownSent, FeaturesSent, In
  <2> QED
    BY <1>2, <2>1, <2>3, <2>4 DEF StreamInv, RowsInv, TasksInv, EndInv
<1>4. ASSUME kind # "mathlib"
      PROVE  TwoCommandsInv
  BY <1>2, <1>4 DEF Init, TwoCommandsInv
<1> QED
  BY <1>1, <1>3, <1>4 DEF IInv

\* While rows and frames stay, so does what becomes of a declaration.
LEMMA RowsStay ==
    ASSUME UNCHANGED <<frames, writerVars>>
    PROVE  /\ \A d \in Decls : Untouched(d)' <=> Untouched(d)
           /\ RowsInv' <=> RowsInv
<1>1. ASSUME NEW d \in Decls
      PROVE  /\ Untouched(d)' <=> Untouched(d)
             /\ BothSent(d)' <=> BothSent(d)
             /\ HalfRead(d)' <=> HalfRead(d)
             /\ Joined(d)' <=> Joined(d)
  BY DEF writerVars, Untouched, BothSent, HalfRead, Joined, ShownSent, FeaturesSent
<1> HIDE DEF Decls
<1>2. RowsInv' <=> RowsInv
  BY <1>1 DEF writerVars, RowsInv, Omitted
<1> QED
  BY <1>1, <1>2

LEMMA StreamStep == IInv /\ kind = "mathlib" /\ [Next]_vars => IInv'
<1> SUFFICES ASSUME IInv, kind = "mathlib", [Next]_vars
             PROVE  IInv'
  OBVIOUS
<1> HIDE DEF Decls
<1>1. /\ StreamInv /\ Ordered(frames) /\ RowsInv /\ TasksInv /\ EndInv
      /\ phase \in {"start", "streaming", "answered"} \cup Ended
      /\ faults \in Nat /\ written \in [Decls -> Nat]
  BY DEF IInv, StreamInv
<1>2. CASE Start
  <2>1. /\ phase = "start" /\ phase' = "streaming" /\ frames = <<>>
        /\ \A d \in Decls : Untouched(d)
        /\ UNCHANGED <<kind, frames, writerVars, faults>>
    BY <1>1, <1>2 DEF Start, TasksInv
  <2>2. Fill(Chunks, {})
    BY <1>2 DEF Start
  <2>3. Room({})
    BY FS_EmptySet, BuildAssumption DEF Room
  <2>4. Apart(Chunks, {}) /\ Left(Chunks, {}) = Decls
    BY ChunksCover
  <2>5. /\ Apart(pending', active') /\ Room(active')
        /\ Left(pending', active') = Decls
        /\ active' = {} => pending' = <<>>
    BY <2>2, <2>3, <2>4, FillKeeps
  <2>6. (\A d \in Decls : Untouched(d)') /\ RowsInv'
    BY <1>1, <2>1, RowsStay
  <2>7. Open(frames')
    BY <2>1 DEF Open, In
  <2>8. TasksInv'
    <3>1. /\ Apart(pending, active)' /\ Room(active)' /\ Open(frames)'
          /\ (Left(pending, active) = Decls)'
      BY <2>5, <2>7
    <3> QED
      BY <2>1, <2>5, <2>6, <3>1 DEF TasksInv
  <2>9. EndInv'
    BY <2>1 DEF EndInv
  <2>10. Ordered(frames)' /\ written' \in [Decls -> Nat]
    BY <1>1, <2>1 DEF writerVars
  <2> QED
    BY <1>1, <2>1, <2>6, <2>8, <2>9, <2>10 DEF IInv, StreamInv
<1>3. CASE Complete
  <2> DEFINE x == [stream |-> "complete"]
  <2>1. /\ phase = "streaming" /\ active = {} /\ phase' = "answered"
        /\ frames' = Append(frames, x)
        /\ UNCHANGED <<kind, leanVars, writerVars, faults>>
    BY <1>3 DEF Complete
  <2>2. x \in Ends
    BY DEF Ends
  <2>3. pending = <<>> /\ Open(frames)
    BY <1>1, <2>1 DEF TasksInv
  <2> HIDE DEF x
  <2>4. /\ Ordered(frames') /\ frames' # <<>> /\ frames'[Len(frames')] = x
        /\ \A s \in {"declarations", "features"} : \A d \in Decls :
              In(frames', Row(s, d)) <=> In(frames, Row(s, d))
    BY <1>1, <2>1, <2>2, <2>3, EndComesLast
  <2>5. ASSUME NEW d \in Decls
        PROVE  /\ Untouched(d)' <=> Untouched(d)
               /\ BothSent(d)' <=> BothSent(d)
               /\ HalfRead(d)' <=> HalfRead(d)
               /\ Joined(d)' <=> Joined(d)
    BY <2>1, <2>4 DEF writerVars, Untouched, BothSent, HalfRead, Joined, ShownSent, FeaturesSent
  <2>6. RowsInv'
    BY <1>1, <2>1, <2>5 DEF writerVars, RowsInv, Omitted
  <2>7. Left(pending, active) = {}
    BY <2>1, <2>3 DEF Left, ToSet
  <2>8. Whole'
    BY <1>1, <2>1, <2>5, <2>7 DEF TasksInv, Whole, Omitted
  <2>9. TasksInv'
    BY <2>1 DEF TasksInv
  <2>10. EndInv'
    BY <2>1, <2>4, <2>8 DEF EndInv, x
  <2>11. Ordered(frames)' /\ written' \in [Decls -> Nat]
    BY <1>1, <2>1, <2>4 DEF writerVars
  <2> QED
    BY <1>1, <2>1, <2>6, <2>9, <2>10, <2>11 DEF IInv, StreamInv
<1>4. CASE ReadRow
  <2>1. /\ RowsInv' /\ Ordered(frames)' /\ written' \in [Decls -> Nat]
        /\ \A d \in Decls : Untouched(d)' <=> Untouched(d)
        /\ \A x \in Ends : In(frames, x)' => In(frames, x)
        /\ Len(frames) \in Nat /\ frames # <<>>
        /\ frames[Len(frames)] \in Ends =>
              frames' # <<>> /\ frames'[Len(frames')] = frames[Len(frames)]
    BY <1>4, RowMoves
  <2>2. /\ phase \in {"streaming", "answered"} /\ phase' = phase
        /\ UNCHANGED <<kind, leanVars, faults>>
    BY <1>4 DEF ReadRow
  <2>3. TasksInv'
    <3> SUFFICES ASSUME phase = "streaming"
                 PROVE  TasksInv'
      BY <2>2 DEF TasksInv
    <3>1. Open(frames)'
      BY <1>1, <2>1 DEF TasksInv, Open
    <3>2. Apart(pending, active)' /\ Room(active)' /\ (active = {} => pending = <<>>)'
      BY <1>1, <2>2 DEF TasksInv, leanVars
    <3>3. Left(pending, active)' = Left(pending, active)
      BY <2>2 DEF leanVars
    <3>4. Left(pending, active) \subseteq Decls
      BY DEF Left
    <3>5. /\ \A d \in Left(pending, active) : Untouched(d)
          /\ \A d \in Decls : Untouched(d) /\ ~Omitted(d) => d \in Left(pending, active)
      BY <1>1 DEF TasksInv
    <3>6. /\ \A d \in Left(pending, active)' : Untouched(d)'
          /\ \A d \in Decls : Untouched(d)' /\ ~Omitted(d) => d \in Left(pending, active)'
      BY <2>1, <3>3, <3>4, <3>5
    <3> QED
      BY <2>2, <3>1, <3>2, <3>6 DEF TasksInv, Omitted
  <2>4. EndInv'
    <3> SUFFICES ASSUME phase = "answered"
                 PROVE  EndInv'
      BY <2>2 DEF EndInv
    <3> DEFINE c == [stream |-> "complete"]
               e == [stream |-> "failed"]
               last == frames[Len(frames)]
    <3>1. c \in Ends /\ e \in Ends
      BY DEF Ends
    <3>2. (last = c /\ Whole) \/ (last = e /\ faults # 0)
      BY <1>1 DEF EndInv
    <3>3. Whole => Whole'
      BY <2>1 DEF Whole, Omitted
    <3> HIDE DEF c, e
    <3>4. frames' # <<>> /\ frames'[Len(frames')] = last
      BY <2>1, <3>1, <3>2
    <3>5. ((frames[Len(frames)])' = c /\ Whole') \/ ((frames[Len(frames)])' = e /\ faults' # 0)
      BY <2>2, <3>2, <3>3, <3>4
    <3> QED
      BY <2>2, <3>4, <3>5 DEF EndInv, c, e
  <2> QED
    BY <1>1, <2>1, <2>2, <2>3, <2>4 DEF IInv, StreamInv
<1>5. CASE ReadEnd
  <2> DEFINE x == Head(frames)
             c == [stream |-> "complete"]
             e == [stream |-> "failed"]
  <2>1. /\ phase = "answered" /\ frames # <<>> /\ x.stream \in {"complete", "failed"}
        /\ frames' = Tail(frames)
        /\ phase' = IF x.stream = "complete" /\ declarations = {} /\ features = {}
                    THEN "published" ELSE "failed"
        /\ UNCHANGED <<kind, leanVars, writerVars, faults>>
    BY <1>5 DEF ReadEnd
  <2>2. /\ Ordered(frames')
        /\ \A y : In(frames', y) <=> In(frames, y) /\ y # x
        /\ x \in Rows \cup Ends
        /\ x \in Ends => frames' = <<>>
        /\ frames' = <<>> => x = frames[Len(frames)]
    BY <1>1, <2>1, ReadTakesFirst
  <2>3. x \in Ends
    BY <2>1, <2>2, RowsAreNoEnds
  <2>4. (x = c /\ Whole) \/ (x = e /\ faults # 0)
    BY <1>1, <2>1, <2>2, <2>3 DEF EndInv
  <2>5. c.stream = "complete" /\ e.stream = "failed"
    OBVIOUS
  <2> HIDE DEF x, c, e
  <2>6. frames' = <<>>
    BY <2>2, <2>3
  <2>7. ASSUME NEW d \in Decls
        PROVE  ~ShownSent(d) /\ ~FeaturesSent(d) /\ ~ShownSent(d)' /\ ~FeaturesSent(d)'
    <3>1. ~In(frames', Row("declarations", d)) /\ ~In(frames', Row("features", d))
      BY <2>6 DEF In
    <3>2. x # Row("declarations", d) /\ x # Row("features", d)
      BY <2>3, RowsAreNoEnds
    <3> QED
      BY <2>2, <3>1, <3>2 DEF ShownSent, FeaturesSent
  <2>8. ASSUME NEW d \in Decls
        PROVE  /\ Untouched(d)' <=> Untouched(d)
               /\ BothSent(d)' <=> BothSent(d)
               /\ HalfRead(d)' <=> HalfRead(d)
               /\ Joined(d)' <=> Joined(d)
    BY <2>1, <2>7 DEF writerVars, Untouched, BothSent, HalfRead, Joined
  <2>9. RowsInv'
    BY <1>1, <2>1, <2>8 DEF writerVars, RowsInv, Omitted
  <2>10. declarations = {} /\ features = {}
    BY <1>1, <2>7 DEF RowsInv, Untouched, BothSent, HalfRead, Joined
  <2>11. Whole => Whole'
    BY <2>8 DEF Whole, Omitted
  <2>12. EndInv'
    <3>1. CASE x = c /\ Whole
      <4>1. phase' = "published"
        BY <2>1, <2>5, <2>10, <3>1
      <4>2. declarations' = {}
        BY <2>1, <2>10 DEF writerVars
      <4> QED
        BY <2>6, <2>11, <3>1, <4>1, <4>2 DEF EndInv
    <3>2. CASE x = e /\ faults # 0
      <4>1. phase' = "failed" /\ faults' # 0
        BY <2>1, <2>5, <3>2
      <4> QED
        BY <4>1 DEF EndInv
    <3> QED
      BY <2>4, <3>1, <3>2
  <2>13. phase' \in Ended /\ TasksInv'
    BY <2>1 DEF Ended, TasksInv
  <2>14. Ordered(frames)' /\ written' \in [Decls -> Nat]
    BY <1>1, <2>1, <2>2 DEF writerVars
  <2> QED
    BY <1>1, <2>1, <2>9, <2>12, <2>13, <2>14 DEF IInv, StreamInv
<1>6. CASE Extract \/ ComputeFeatures \/ Join
  BY <1>1, <1>6 DEF Extract, ComputeFeatures, Join, Ended
<1>7. ASSUME NEW r \in active, TaskSucceeds(r)
      PROVE  IInv'
  <2> DEFINE rows == {d \in Of(r) : ~Omitted(d)}
             rest == active \ {r}
  <2>1. /\ phase = "streaming" /\ phase' = phase
        /\ frames' = frames \o RowFrames("declarations", rows) \o RowFrames("features", rows)
        /\ Fill(pending, rest)
        /\ UNCHANGED <<kind, writerVars, faults>>
    BY <1>7 DEF TaskSucceeds
  <2>2. /\ Open(frames) /\ Apart(pending, active) /\ Room(active)
        /\ \A d \in Left(pending, active) : Untouched(d)
        /\ \A d \in Decls : Untouched(d) /\ ~Omitted(d) => d \in Left(pending, active)
    BY <1>1, <2>1 DEF TasksInv
  <2>3. /\ Apart(pending, rest) /\ Room(rest) /\ Of(r) \subseteq Decls
        /\ \A d \in Of(r) : d \in Left(pending, active) /\ d \notin Left(pending, rest)
        /\ \A d \in Left(pending, active) : d \in Of(r) \/ d \in Left(pending, rest)
        /\ Left(pending, rest) \subseteq Left(pending, active)
    BY <2>2, TaskEnds
  <2>4. rows \subseteq Decls /\ rows \subseteq Of(r)
    BY <2>3
  <2>5. \A d \in rows : Untouched(d) /\ ~Omitted(d)
    BY <2>2, <2>3
  <2>a. \A d \in Of(r) : ~Omitted(d) => d \in rows
    OBVIOUS
  <2> HIDE DEF rows, rest
  <2>6. \A s \in {"declarations", "features"} : \A d \in rows : ~In(frames, Row(s, d))
    BY <2>5 DEF Untouched, ShownSent, FeaturesSent
  <2>7. /\ Ordered(frames') /\ Open(frames')
        /\ \A s \in {"declarations", "features"} : \A d \in Decls :
              In(frames', Row(s, d)) <=> In(frames, Row(s, d)) \/ d \in rows
    BY <1>1, <2>1, <2>2, <2>4, <2>6, RowsComeBehind
  <2>8. /\ Apart(pending', active') /\ Room(active')
        /\ Left(pending', active') = Left(pending, rest)
        /\ active' = {} => pending' = <<>>
    BY <2>1, <2>3, FillKeeps
  <2>9. \A d \in Decls : d \notin rows =>
           /\ Untouched(d)' <=> Untouched(d)
           /\ BothSent(d)' <=> BothSent(d)
           /\ HalfRead(d)' <=> HalfRead(d)
           /\ Joined(d)' <=> Joined(d)
    BY <2>1, <2>7 DEF writerVars, Untouched, BothSent, HalfRead, Joined, ShownSent, FeaturesSent
  <2>10. \A d \in rows : BothSent(d)' /\ ~Untouched(d)' /\ ~Omitted(d)
    BY <2>1, <2>4, <2>5, <2>7 DEF writerVars, Untouched, BothSent, ShownSent, FeaturesSent
  <2>11. RowsInv'
    BY <1>1, <2>1, <2>9, <2>10 DEF writerVars, RowsInv, Omitted
  <2>12. \A d \in Left(pending, rest) : Untouched(d)'
    <3>1. \A d \in Left(pending, rest) : d \in Decls /\ d \notin rows /\ Untouched(d)
      BY <2>2, <2>3, <2>4 DEF Left
    <3> QED
      BY <2>9, <3>1
  <2>13. ASSUME NEW d \in Decls, Untouched(d)', ~Omitted(d)
         PROVE  d \in Left(pending, rest)
    <3>1. d \notin rows /\ Untouched(d)
      BY <2>9, <2>10, <2>13
    <3>2. d \in Left(pending, active) /\ d \notin Of(r)
      BY <2>2, <2>a, <2>13, <3>1
    <3> QED
      BY <2>3, <3>2
  <2>14. TasksInv'
    <3>1. Apart(pending, active)' /\ Room(active)' /\ Open(frames)'
          /\ Left(pending, active)' = Left(pending, rest)
      BY <2>7, <2>8
    <3>2. /\ \A d \in Left(pending, active)' : Untouched(d)'
          /\ \A d \in Decls : Untouched(d)' /\ ~Omitted(d) => d \in Left(pending, active)'
      BY <2>12, <2>13, <3>1
    <3> QED
      BY <2>1, <2>8, <3>1, <3>2 DEF TasksInv, Omitted
  <2>15. EndInv'
    BY <2>1 DEF EndInv
  <2>16. Ordered(frames)' /\ written' \in [Decls -> Nat]
    BY <1>1, <2>1, <2>7 DEF writerVars
  <2> QED
    BY <1>1, <2>1, <2>11, <2>14, <2>15, <2>16 DEF IInv, StreamInv
<1>8. ASSUME NEW r \in active, TaskSplits(r)
      PROVE  IInv'
  <2> DEFINE mid == r[1] + (r[2] - r[1]) \div 2
             q == <<<<r[1], mid>>, <<mid, r[2]>>>> \o pending
             rest == active \ {r}
  <2>1. /\ phase = "streaming" /\ phase' = phase /\ r[2] - r[1] > 1
        /\ Fill(q, rest)
        /\ UNCHANGED <<kind, frames, writerVars, faults>>
    BY <1>8 DEF TaskSplits
  <2>2. /\ Open(frames) /\ Apart(pending, active) /\ Room(active)
        /\ \A d \in Left(pending, active) : Untouched(d)
        /\ \A d \in Decls : Untouched(d) /\ ~Omitted(d) => d \in Left(pending, active)
    BY <1>1, <2>1 DEF TasksInv
  <2>3. Apart(q, rest) /\ Left(q, rest) = Left(pending, active)
    BY <2>1, <2>2, HalvesAreRange
  <2>4. Room(rest)
    BY <2>2, TaskEnds
  <2> HIDE DEF q, rest
  <2>5. /\ Apart(pending', active') /\ Room(active')
        /\ Left(pending', active') = Left(pending, active)
        /\ active' = {} => pending' = <<>>
    BY <2>1, <2>3, <2>4, FillKeeps
  <2>6. RowsInv' /\ \A d \in Decls : Untouched(d)' <=> Untouched(d)
    BY <1>1, <2>1, RowsStay
  <2>7. Left(pending, active) \subseteq Decls
    BY DEF Left
  <2>8. TasksInv'
    <3>1. Apart(pending, active)' /\ Room(active)' /\ Open(frames)'
          /\ Left(pending, active)' = Left(pending, active)
      BY <2>1, <2>2, <2>5
    <3>2. /\ \A d \in Left(pending, active)' : Untouched(d)'
          /\ \A d \in Decls : Untouched(d)' /\ ~Omitted(d) => d \in Left(pending, active)'
      BY <2>2, <2>6, <2>7, <3>1
    <3> QED
      BY <2>1, <2>5, <3>1, <3>2 DEF TasksInv, Omitted
  <2>9. EndInv'
    BY <2>1 DEF EndInv
  <2>10. Ordered(frames)' /\ written' \in [Decls -> Nat]
    BY <1>1, <2>1 DEF writerVars
  <2> QED
    BY <1>1, <2>1, <2>6, <2>8, <2>9, <2>10 DEF IInv, StreamInv
<1>9. ASSUME NEW r \in active, TaskFails(r)
      PROVE  IInv'
  <2> DEFINE x == [stream |-> "failed"]
  <2>1. /\ phase = "streaming" /\ phase' = "answered"
        /\ frames' = Append(frames, x) /\ faults' = faults + 1
        /\ UNCHANGED <<kind, writerVars>>
    BY <1>9 DEF TaskFails
  <2>2. x \in Ends /\ Open(frames)
    BY <1>1, <2>1 DEF Ends, TasksInv
  <2> HIDE DEF x
  <2>3. /\ Ordered(frames') /\ frames' # <<>> /\ frames'[Len(frames')] = x
        /\ \A s \in {"declarations", "features"} : \A d \in Decls :
              In(frames', Row(s, d)) <=> In(frames, Row(s, d))
    BY <1>1, <2>1, <2>2, EndComesLast
  <2>4. ASSUME NEW d \in Decls
        PROVE  /\ Untouched(d)' <=> Untouched(d)
               /\ BothSent(d)' <=> BothSent(d)
               /\ HalfRead(d)' <=> HalfRead(d)
               /\ Joined(d)' <=> Joined(d)
    BY <2>1, <2>3 DEF writerVars, Untouched, BothSent, HalfRead, Joined, ShownSent, FeaturesSent
  <2>5. RowsInv'
    BY <1>1, <2>1, <2>4 DEF writerVars, RowsInv, Omitted
  <2>6. faults' \in Nat /\ faults' # 0
    BY <1>1, <2>1
  <2>7. EndInv' /\ TasksInv'
    BY <2>1, <2>3, <2>6 DEF EndInv, TasksInv, x
  <2>8. Ordered(frames)' /\ written' \in [Decls -> Nat]
    BY <1>1, <2>1, <2>3 DEF writerVars
  <2> QED
    BY <1>1, <2>1, <2>5, <2>6, <2>7, <2>8 DEF IInv, StreamInv
<1>10. CASE WorkerFails
  <2>1. /\ phase' = "failed" /\ faults' = faults + 1
        /\ UNCHANGED <<kind, frames, writerVars>>
    BY <1>10 DEF WorkerFails
  <2>2. RowsInv'
    BY <1>1, <2>1, RowsStay
  <2>3. faults' \in Nat /\ faults' # 0
    BY <1>1, <2>1
  <2>4. EndInv' /\ TasksInv' /\ phase' \in Ended
    BY <2>1, <2>3 DEF EndInv, TasksInv, Ended
  <2>5. Ordered(frames)' /\ written' \in [Decls -> Nat]
    BY <1>1, <2>1 DEF writerVars
  <2> QED
    BY <1>1, <2>1, <2>2, <2>3, <2>4, <2>5 DEF IInv, StreamInv
<1>11. CASE UNCHANGED vars
  <2>1. UNCHANGED <<kind, phase, pending, active, frames, writerVars, faults>>
    BY <1>11 DEF vars, leanVars
  <2>2. RowsInv' /\ \A d \in Decls : Untouched(d)' <=> Untouched(d)
    BY <1>1, <2>1, RowsStay
  <2>3. Left(pending, active)' = Left(pending, active) /\ Left(pending, active) \subseteq Decls
    BY <2>1 DEF Left
  <2>4. TasksInv'
    BY <1>1, <2>1, <2>2, <2>3 DEF TasksInv, Omitted
  <2>5. Whole => Whole'
    BY <2>2 DEF Whole, Omitted
  <2>6. EndInv'
    BY <1>1, <2>1, <2>5 DEF EndInv, writerVars
  <2>7. Ordered(frames)' /\ written' \in [Decls -> Nat]
    BY <1>1, <2>1 DEF writerVars
  <2> QED
    BY <1>1, <2>1, <2>2, <2>4, <2>6, <2>7 DEF IInv, StreamInv
<1> QED
  BY <1>2, <1>3, <1>4, <1>5, <1>6, <1>7, <1>8, <1>9, <1>10, <1>11 DEF Next, Proceed

-----------------------------------------------------------------------------
(* The steps of the other kinds *)

LEMMA CommandStep == IInv /\ kind # "mathlib" /\ [Next]_vars => IInv'
<1> SUFFICES ASSUME IInv, kind # "mathlib", [Next]_vars
             PROVE  IInv'
  OBVIOUS
<1> HIDE DEF Decls
<1>1. /\ TwoCommandsInv /\ active = {} /\ kind = "local" /\ faults \in Nat
      /\ written \in [Decls -> Nat]
      /\ phase \in {"extract", "features", "join"} \cup Ended
  BY DEF IInv, TwoCommandsInv
<1>2. CASE Start \/ Complete \/ ReadRow \/ ReadEnd
  BY <1>1, <1>2 DEF Start, Complete, ReadRow, ReadEnd, Ended
<1>3. CASE Extract
  <2>1. /\ phase' = "features" /\ declarations' = {d \in Decls : RowCost[d] <= Budget}
        /\ UNCHANGED <<kind, active, written, faults>>
    BY <1>3 DEF Extract
  <2>2. TwoCommandsInv'
    BY <1>1, <2>1 DEF TwoCommandsInv
  <2> QED
    BY <1>1, <2>1, <2>2 DEF IInv
<1>4. CASE ComputeFeatures
  <2>1. /\ phase = "features" /\ phase' = "join"
        /\ features' = {d \in Decls : FeatureCost[d] <= Budget}
        /\ UNCHANGED <<kind, active, declarations, written, faults>>
    BY <1>4 DEF ComputeFeatures
  <2>2. TwoCommandsInv'
    BY <1>1, <2>1 DEF TwoCommandsInv
  <2> QED
    BY <1>1, <2>1, <2>2 DEF IInv
<1>5. CASE Join
  <2>1. /\ phase = "join"
        /\ UNCHANGED <<kind, active, faults, declarations, features>>
    BY <1>5 DEF Join, leanVars
  <2>2. /\ declarations = {d \in Decls : RowCost[d] <= Budget}
        /\ features = {d \in Decls : FeatureCost[d] <= Budget}
    BY <1>1, <2>1 DEF TwoCommandsInv
  <2>3. CASE declarations \subseteq features
    <3>1. phase' = "published" /\ written' = [d \in Decls |-> IF d \in declarations THEN 1 ELSE 0]
      BY <1>5, <2>3 DEF Join
    <3>2. ASSUME NEW d \in Decls
          PROVE  written'[d] = IF InBudget(d)' THEN 1 ELSE 0
      <4>1. InBudget(d)' <=> d \in declarations
        BY <1>1, <2>1, <2>2, <2>3 DEF InBudget
      <4> QED
        BY <3>1, <4>1
    <3>3. IndexIsComplete' /\ written' \in [Decls -> Nat]
      BY <3>1, <3>2 DEF IndexIsComplete
    <3>4. TwoCommandsInv'
      BY <1>1, <2>1, <3>1, <3>3 DEF TwoCommandsInv, Ended
    <3> QED
      BY <1>1, <2>1, <3>3, <3>4 DEF IInv
  <2>4. CASE ~(declarations \subseteq features)
    <3>1. phase' = "failed" /\ written' = written
      BY <1>5, <2>4 DEF Join
    <3>2. TwoCommandsInv'
      BY <1>1, <2>1, <3>1 DEF TwoCommandsInv, Ended
    <3> QED
      BY <1>1, <2>1, <3>1, <3>2 DEF IInv
  <2> QED
    BY <2>3, <2>4
<1>6. CASE WorkerFails
  <2>1. phase' = "failed" /\ faults' = faults + 1 /\ UNCHANGED <<kind, active, written>>
    BY <1>6 DEF WorkerFails, leanVars, writerVars
  <2>2. TwoCommandsInv' /\ faults' \in Nat
    BY <1>1, <2>1 DEF TwoCommandsInv, Ended
  <2> QED
    BY <1>1, <2>1, <2>2 DEF IInv
<1>7. CASE UNCHANGED vars
  <2>1. UNCHANGED <<kind, phase, active, declarations, features, written, faults>>
    BY <1>7 DEF vars, leanVars, writerVars
  <2>2. IndexIsComplete => IndexIsComplete'
    BY <2>1 DEF IndexIsComplete, InBudget, Omitted
  <2>3. TwoCommandsInv'
    BY <1>1, <2>1, <2>2 DEF TwoCommandsInv
  <2> QED
    BY <1>1, <2>1, <2>3 DEF IInv
<1> QED
  BY <1>1, <1>2, <1>3, <1>4, <1>5, <1>6, <1>7 DEF Next, Proceed

LEMMA InvHolds == Spec => []IInv
<1>1. IInv /\ [Next]_vars => IInv'
  BY StreamStep, CommandStep
<1> QED
  BY InitInv, <1>1, PTL DEF Spec

-----------------------------------------------------------------------------
(* The properties *)

\* Whatever tasks a mathlib index was cut into, and however they were split and
\* ended, a published index has each declaration within the budget once, and no
\* other (emitIndexRanges, StreamingIndexWriter::finish); the same of the two
\* commands of the other kinds (write_sqlite_index).
THEOREM PublishedIsComplete == Spec => []IndexIsComplete
<1>1. IInv => IndexIsComplete
  <2> SUFFICES ASSUME IInv, phase = "published"
               PROVE  IndexIsComplete
    BY DEF IndexIsComplete
  <2> HIDE DEF Decls
  <2>1. CASE kind = "mathlib"
    <3>1. Whole /\ frames = <<>> /\ declarations = {} /\ RowsInv
      BY <2>1 DEF IInv, StreamInv, EndInv
    <3>2. ASSUME NEW d \in Decls
          PROVE  written[d] = IF InBudget(d) THEN 1 ELSE 0
      <4>1. ~ShownSent(d) /\ ~FeaturesSent(d)
        BY <3>1 DEF ShownSent, FeaturesSent, In
      <4>2. Untouched(d) \/ (~Omitted(d) /\ Joined(d))
        BY <3>1, <4>1 DEF RowsInv, BothSent, HalfRead
      <4>3. InBudget(d) <=> ~Omitted(d)
        BY <2>1 DEF InBudget
      <4> QED
        BY <3>1, <4>2, <4>3 DEF Whole, Untouched, Joined
    <3> QED
      BY <3>2 DEF IndexIsComplete
  <2>2. CASE kind # "mathlib"
    BY <2>2 DEF IInv, TwoCommandsInv
  <2> QED
    BY <2>1, <2>2
<1> QED
  BY InvHolds, <1>1, PTL

\* A declaration that is too slow for the budget is left out of both streams, so
\* that a mathlib build fails only when something else does.
THEOREM SlowIsSkipped == Spec => []StreamsPairUp
<1>1. IInv => StreamsPairUp
  BY DEF IInv, StreamInv, EndInv, StreamsPairUp
<1> QED
  BY InvHolds, <1>1, PTL
=============================================================================
