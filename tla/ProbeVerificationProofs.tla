----------------------- MODULE ProbeVerificationProofs -----------------------
(***************************************************************************)
(* Proofs about ProbeVerification, for any number of pairs, any scopes,    *)
(* costs, budget and chunk size, and whatever fails.                       *)
(***************************************************************************)
EXTENDS ProbeVerification, SequenceTheorems, FiniteSetTheorems,
        WellFoundedInduction, TLAPS

USE DEF Pairs

Inv == TypeOK /\ PartsInv /\ AnsweredInv

\* What is within a scope is scoped contents, so keys are keys.
LEMMA WithinType ==
    ASSUME NEW S, NEW v \in Contents PROVE Within(S, v) \in Scoped
BY DEF Within, Contents, Scoped

\* Results are no markers, and results they are.
LEMMA ResultTypes ==
    /\ Unavailable \in Results
    /\ \A c \in Scoped : Verdict(c) \in Results
    /\ None \notin Results /\ None \notin Contents
BY NoneAssumption DEF Results

LEMMA KeyType ==
    ASSUME NEW p \in Pairs, NEW v \in Contents PROVE Key(p, v) \in Keys
BY WithinType DEF Key, Keys

\* The first part, while there is one, lies within the missing pairs.
LEMMA FirstPart ==
    ASSUME TypeOK, PartsInv, phase \in {"asking", "waiting"}
    PROVE /\ Head(ends) = ends[1] /\ Len(ends) >= 1 /\ Len(ends) \in Nat
          /\ ends[1] \in next .. Len(missing) /\ next \in Nat
          /\ Len(missing) \in Nat
<1>1. ends \in Seq(1 .. Len(missing)) /\ ends # <<>> /\ missing \in Seq(Pairs)
  BY DEF TypeOK, PartsInv
<1>2. Len(ends) \in Nat /\ Len(ends) >= 1 /\ Head(ends) = ends[1]
  BY <1>1
<1>3. ends[1] \in 1 .. Len(missing) /\ Len(missing) \in Nat
  BY <1>1, <1>2
<1> QED BY <1>2, <1>3 DEF TypeOK, PartsInv

-----------------------------------------------------------------------------
\* Init establishes the invariant.
LEMMA InitInv == Init => Inv
<1> SUFFICES ASSUME Init PROVE Inv
  OBVIOUS
<1>1. TypeOK
  BY ProbeAssumption DEF Init, TypeOK, Resting, Phases
<1>2. PartsInv
  BY DEF Init, PartsInv, Probing
<1>3. AnsweredInv
  BY DEF Init, AnsweredInv, EveryPairAnswered, Probing
<1> QED BY <1>1, <1>2, <1>3 DEF Inv

\* Results for the first part keep every variable in its range, and what is
\* left of the parts follows on.
LEMMA SettleInv ==
    ASSUME Inv, phase = "waiting", NEW results \in [Pairs -> Results],
           Settle(results)
    PROVE /\ store' \in [Keys -> Results \cup {None}]
          /\ evidence' \in [Pairs -> Results \cup {None}]
          /\ next' \in 1 .. Len(missing) + 1
          /\ ends' \in Seq(1 .. Len(missing))
          /\ phase' \in {"probe", "asking"}
          /\ phase' = "asking" => ends' # <<>> /\ next' <= ends'[1]
          /\ \A i, j \in 1 .. Len(ends') : i < j => ends'[i] < ends'[j]
          /\ \A p \in Pairs :
               evidence'[p] # None \/ \E i \in next' .. Len(missing) : missing[i] = p
<1> USE DEF Inv
<1>1. /\ Head(ends) = ends[1] /\ Len(ends) >= 1 /\ Len(ends) \in Nat
      /\ ends[1] \in next .. Len(missing) /\ next \in Nat
      /\ Len(missing) \in Nat
  BY FirstPart
<1>a. Len(ends) \in Nat /\ Len(ends) >= 1
  BY <1>1
<1>2. ends \in Seq(1 .. Len(missing)) /\ ends # <<>> /\ missing \in Seq(Pairs)
  BY <1>1 DEF TypeOK
<1>3. /\ Tail(ends) \in Seq(1 .. Len(missing))
      /\ Len(Tail(ends)) = Len(ends) - 1
      /\ \A i \in 1 .. Len(Tail(ends)) : Tail(ends)[i] = ends[i + 1]
  BY <1>2, HeadTailProperties
<1>4. store' \in [Keys -> Results \cup {None}]
  <2> SUFFICES ASSUME NEW k \in Keys
               PROVE (IF \E p \in Chunk : k = Key(p, closure)
                      THEN results[k[1]] ELSE store[k]) \in Results \cup {None}
    BY DEF Settle, Stored
  <2>1. k[1] \in Pairs
    BY DEF Keys
  <2> QED BY <2>1 DEF TypeOK
<1>5. evidence' \in [Pairs -> Results \cup {None}]
  BY DEF Settle, Stored, TypeOK
<1>6. next' \in 1 .. Len(missing) + 1
  BY <1>1 DEF Settle, Stored
<1>7. ends' = Tail(ends) /\ next' = ends[1] + 1
  BY <1>1 DEF Settle, Stored
<1>8. phase' = IF Len(ends) = 1 THEN "probe" ELSE "asking"
  BY DEF Settle, Stored
<1>9. ASSUME phase' = "asking" PROVE ends' # <<>> /\ next' <= ends'[1]
  <2>0. Len(ends) # 1
    BY <1>8, <1>9
  <2>1. Len(ends) \in Nat /\ Len(ends) > 1
    <3> HIDE DEF Inv
    <3> DEFINE len == Len(ends)
    <3> len \in Nat /\ len >= 1 /\ len # 1
      BY <2>0, <1>a
    <3> HIDE DEF len
    <3> len > 1
      OBVIOUS
    <3> QED BY DEF len
  <2>2. ends[1] < ends[2] /\ ends[2] \in Nat
    BY <2>1, <1>1, <1>2 DEF PartsInv
  <2>3. ends'[1] = ends[2] /\ Len(ends') >= 1
    BY <2>1, <1>3, <1>7
  <2> QED BY <2>2, <2>3, <1>1, <1>7
<1>10. \A i, j \in 1 .. Len(ends') : i < j => ends'[i] < ends'[j]
  <2> SUFFICES ASSUME NEW i \in 1 .. Len(Tail(ends)), NEW j \in 1 .. Len(Tail(ends)),
                      i < j
               PROVE Tail(ends)[i] < Tail(ends)[j]
    BY <1>7
  <2>1. i + 1 \in 1 .. Len(ends) /\ j + 1 \in 1 .. Len(ends) /\ i + 1 < j + 1
    BY <1>1, <1>3
  <2> QED BY <2>1, <1>3 DEF PartsInv
<1>11. ASSUME NEW p \in Pairs
       PROVE evidence'[p] # None \/ \E i \in next' .. Len(missing) : missing[i] = p
  <2>1. CASE p \in Chunk
    BY <2>1, ResultTypes DEF Settle, Stored
  <2>2. CASE p \notin Chunk /\ evidence[p] # None
    BY <2>2 DEF Settle, Stored
  <2>3. CASE p \notin Chunk /\ evidence[p] = None
    <3>1. PICK i \in next .. Len(missing) : missing[i] = p
      BY <2>3 DEF AnsweredInv, Probing, Open
    <3>2. i \notin next .. ends[1]
      BY <2>3, <3>1, <1>1 DEF Chunk
    <3>3. i \in next' .. Len(missing)
      BY <3>1, <3>2, <1>1, <1>7
    <3> QED BY <3>1, <3>3
  <2> QED BY <2>1, <2>2, <2>3
<1> QED BY <1>3, <1>4, <1>5, <1>6, <1>7, <1>8, <1>9, <1>10, <1>11

-----------------------------------------------------------------------------
\* Both halves of a part of two pairs or more have a pair.
LEMMA Halves ==
    ASSUME NEW first \in Nat, NEW last \in Nat, last - first + 1 > 1
    PROVE first + (last - first + 1) \div 2 - 1 \in first .. last - 1
OBVIOUS

\* Neither half of a failed chunk reaches beyond it, and a single pair is
\* settled as unavailable.
LEMMA BisectInv ==
    ASSUME Inv, phase = "waiting", Bisect
    PROVE /\ store' \in [Keys -> Results \cup {None}]
          /\ evidence' \in [Pairs -> Results \cup {None}]
          /\ next' \in 1 .. Len(missing) + 1
          /\ ends' \in Seq(1 .. Len(missing))
          /\ phase' \in {"probe", "asking"}
          /\ phase' = "asking" => ends' # <<>> /\ next' <= ends'[1]
          /\ \A i, j \in 1 .. Len(ends') : i < j => ends'[i] < ends'[j]
          /\ \A p \in Pairs :
               evidence'[p] # None \/ \E i \in next' .. Len(missing) : missing[i] = p
<1> USE DEF Inv
<1> DEFINE size == Head(ends) - next + 1
           mid  == next + size \div 2 - 1
<1>1. /\ Head(ends) = ends[1] /\ Len(ends) >= 1 /\ Len(ends) \in Nat
      /\ ends[1] \in next .. Len(missing) /\ next \in Nat
      /\ Len(missing) \in Nat
  BY FirstPart
<1>2. CASE size > 1
  <2>1. ends' = <<mid>> \o ends /\ phase' = "asking" /\ next' = next
        /\ store' = store /\ evidence' = evidence
    BY <1>2 DEF Bisect
  <2>2. mid \in next .. ends[1] - 1 /\ mid \in 1 .. Len(missing)
    <3>1. next \in Nat /\ next >= 1 /\ ends[1] \in Nat /\ ends[1] <= Len(missing)
      BY <1>1 DEF TypeOK
    <3>2. ends[1] - next + 1 > 1 /\ mid = next + (ends[1] - next + 1) \div 2 - 1
      BY <1>1, <1>2
    <3> HIDE DEF Inv, mid, size
    <3>3. mid \in next .. ends[1] - 1
      BY <3>1, <3>2, Halves
    <3> QED BY <3>1, <3>3, <1>1
  <2> HIDE DEF mid, size
  <2>3. ends \in Seq(1 .. Len(missing)) /\ <<mid>> \in Seq(1 .. Len(missing))
    BY <2>2 DEF TypeOK
  <2>4. /\ ends' \in Seq(1 .. Len(missing))
        /\ Len(ends') = Len(ends) + 1
        /\ ends'[1] = mid
        /\ \A i \in 2 .. Len(ends') : ends'[i] = ends[i - 1]
    BY <2>1, <2>3, <1>1, ConcatProperties
  <2>5. \A i, j \in 1 .. Len(ends') : i < j => ends'[i] < ends'[j]
    <3> SUFFICES ASSUME NEW i \in 1 .. Len(ends'), NEW j \in 1 .. Len(ends'), i < j
                 PROVE ends'[i] < ends'[j]
      OBVIOUS
    <3>1. j - 1 \in 1 .. Len(ends) /\ ends'[j] = ends[j - 1]
      BY <2>4, <1>1
    <3>2. ends[1] <= ends[j - 1] /\ ends[j - 1] \in Nat
      <4>1. ends[1] \in Nat /\ ends[j - 1] \in Nat
        BY <3>1, <2>3, <1>1
      <4>2. CASE j - 1 = 1
        BY <4>1, <4>2
      <4>3. CASE j - 1 # 1
        <5>1. 1 \in 1 .. Len(ends) /\ 1 < j - 1
          BY <4>3, <3>1, <1>1
        <5>2. ends[1] < ends[j - 1]
          BY <5>1, <3>1 DEF PartsInv
        <5> QED BY <5>2, <4>1
      <4> QED BY <4>2, <4>3
    <3>3. CASE i = 1
      BY <3>1, <3>2, <3>3, <2>2, <2>4, <1>1
    <3>4. CASE i # 1
      <4>1. i - 1 \in 1 .. Len(ends) /\ i - 1 < j - 1 /\ ends'[i] = ends[i - 1]
        BY <3>4, <2>4, <1>1
      <4> QED BY <4>1, <3>1 DEF PartsInv
    <3> QED BY <3>3, <3>4
  <2>6. ends' # <<>> /\ next' <= ends'[1]
    BY <2>1, <2>2, <2>4, <1>1
  <2>7. \A p \in Pairs :
           evidence'[p] # None \/ \E i \in next' .. Len(missing) : missing[i] = p
    BY <2>1 DEF AnsweredInv, Probing, Open
  <2> QED BY <2>1, <2>4, <2>5, <2>6, <2>7 DEF TypeOK
<1>3. CASE ~(size > 1)
  <2>1. Settle([p \in Pairs |-> Unavailable])
    BY <1>3 DEF Bisect
  <2>2. [p \in Pairs |-> Unavailable] \in [Pairs -> Results]
    BY ResultTypes
  <2> QED BY <2>1, <2>2, SettleInv
<1> QED BY <1>2, <1>3

-----------------------------------------------------------------------------
\* What the steps that end a command have in common.
LEMMA CommandInv ==
    ASSUME Inv, phase = "waiting",
           store' \in [Keys -> Results \cup {None}],
           evidence' \in [Pairs -> Results \cup {None}],
           next' \in 1 .. Len(missing) + 1,
           ends' \in Seq(1 .. Len(missing)),
           phase' \in {"probe", "asking"},
           phase' = "asking" => ends' # <<>> /\ next' <= ends'[1],
           \A i, j \in 1 .. Len(ends') : i < j => ends'[i] < ends'[j],
           \A p \in Pairs :
             evidence'[p] # None \/ \E i \in next' .. Len(missing) : missing[i] = p,
           UNCHANGED <<workspaceVars, closure, looked, missing, audits>>,
           env' \in Contents \cup {None}, faults' \in 0 .. MaxFaults
    PROVE Inv'
<1> USE DEF Inv
<1>0. /\ UNCHANGED <<source, olean, closure, looked, missing, audits>>
      /\ phase' \in Phases
  BY DEF workspaceVars, Phases
<1>1. TypeOK'
  <2>1. (/\ source \in Contents /\ olean \in Contents /\ closure \in Contents
         /\ looked \in 0 .. N /\ missing \in Seq(Pairs)
         /\ audits \in 0 .. MaxAudits)'
    BY <1>0 DEF TypeOK
  <2>2. next' \in 1 .. Len(missing') + 1 /\ ends' \in Seq(1 .. Len(missing'))
    BY <1>0
  <2> QED BY <1>0, <2>1, <2>2 DEF TypeOK
<1>2. PartsInv'
  BY <1>0 DEF PartsInv, Probing
<1>3. AnsweredInv'
  BY <1>0 DEF AnsweredInv, Probing, Open, EveryPairAnswered
<1> QED BY <1>1, <1>2, <1>3

\* Every step preserves the invariant.
LEMMA NextInv == Inv /\ [Next]_vars => Inv'
<1> SUFFICES ASSUME Inv, [Next]_vars PROVE Inv'
  OBVIOUS
<1> USE DEF Inv
<1>1. ASSUME NEW m \in Modules, EditSource(m) PROVE Inv'
  <2>1. UNCHANGED <<store, phase, closure, looked, missing, chunkVars,
                    evidence, env, audits, faults, olean>>
    BY <1>1 DEF EditSource, UserOnly
  <2>2. source' \in Contents
    BY <1>1 DEF EditSource, TypeOK, Contents
  <2> QED BY <2>1, <2>2 DEF TypeOK, PartsInv, AnsweredInv, Open,
                           EveryPairAnswered, chunkVars
<1>2. CASE LakeBuild
  BY <1>2 DEF LakeBuild, UserOnly, TypeOK, PartsInv, AnsweredInv, Open,
              EveryPairAnswered, chunkVars
<1>3. CASE StartAudit
  <2>1. TypeOK'
    <3>1. audits' \in 0 .. MaxAudits
      BY <1>3, ProbeAssumption DEF StartAudit, TypeOK
    <3>2. /\ looked' \in 0 .. N /\ missing' \in Seq(Pairs)
          /\ next' \in 1 .. Len(missing') + 1 /\ ends' \in Seq(1 .. Len(missing'))
          /\ evidence' \in [Pairs -> Results \cup {None}]
      BY <1>3, ProbeAssumption DEF StartAudit
    <3> QED BY <1>3, <3>1, <3>2 DEF StartAudit, TypeOK, Phases, workspaceVars
  <2>2. PartsInv'
    BY <1>3 DEF StartAudit, PartsInv, Probing
  <2>3. AnsweredInv'
    BY <1>3 DEF StartAudit, AnsweredInv, Probing, EveryPairAnswered
  <2> QED BY <2>1, <2>2, <2>3
<1>4. CASE Plan
  <2>1. TypeOK'
    BY <1>4 DEF Plan, TypeOK, Phases, workspaceVars, chunkVars
  <2>2. PartsInv'
    BY <1>4 DEF Plan, PartsInv, Probing, chunkVars
  <2>3. AnsweredInv'
    BY <1>4 DEF Plan, PartsInv, AnsweredInv, Probing, EveryPairAnswered
  <2> QED BY <2>1, <2>2, <2>3
<1>5. CASE LookUp
  <2> DEFINE p == looked + 1
  <2>1. /\ phase = "lookup" /\ phase' = "lookup" /\ looked' = p /\ p \in Pairs
        /\ next = 1 /\ next' = 1 /\ ends = <<>> /\ ends' = <<>>
        /\ missing \in Seq(Pairs) /\ Len(missing) \in Nat
    BY <1>5, ProbeAssumption DEF LookUp, Cached, TypeOK, PartsInv, chunkVars
  <2>2. CASE store[Key(p, closure)] = None
    <3>1. missing' = Append(missing, p) /\ evidence' = evidence
      BY <1>5, <2>2 DEF LookUp, Cached
    <3>2. /\ missing' \in Seq(Pairs) /\ Len(missing') = Len(missing) + 1
          /\ missing'[Len(missing) + 1] = p
          /\ \A i \in 1 .. Len(missing) : missing'[i] = missing[i]
      BY <2>1, <3>1, AppendProperties
    <3>3. TypeOK'
      BY <1>5, <2>1, <3>1, <3>2 DEF LookUp, Cached, TypeOK, Phases, workspaceVars
    <3>4. ASSUME NEW q \in 1 .. p
          PROVE evidence'[q] # None \/ \E i \in 1 .. Len(missing') : missing'[i] = q
      <4>1. CASE q = p
        BY <4>1, <2>1, <3>2
      <4>2. CASE q # p
        <5>1. q \in 1 .. looked
          BY <4>2, <2>1 DEF TypeOK
        <5> QED BY <5>1, <2>1, <3>1, <3>2 DEF AnsweredInv, Open
      <4> QED BY <4>1, <4>2
    <3>5. PartsInv'
      BY <2>1 DEF PartsInv, Probing
    <3>6. AnsweredInv'
      BY <2>1, <3>4 DEF AnsweredInv, Probing, Open, EveryPairAnswered
    <3> QED BY <3>3, <3>5, <3>6
  <2>3. CASE store[Key(p, closure)] # None
    <3>1. missing' = missing /\ evidence' = [evidence EXCEPT ![p] = store[Key(p, closure)]]
      BY <1>5, <2>3 DEF LookUp, Cached
    <3>2. store[Key(p, closure)] \in Results
      BY <2>1, <2>3, KeyType DEF TypeOK
    <3>3. TypeOK'
      BY <1>5, <2>1, <3>1, <3>2 DEF LookUp, Cached, TypeOK, Phases, workspaceVars
    <3>4. ASSUME NEW q \in 1 .. p
          PROVE evidence'[q] # None \/ \E i \in 1 .. Len(missing') : missing'[i] = q
      <4>1. CASE q = p
        BY <4>1, <2>1, <2>3, <3>1 DEF TypeOK
      <4>2. CASE q # p
        <5>1. q \in 1 .. looked /\ evidence'[q] = evidence[q]
          BY <4>2, <2>1, <3>1 DEF TypeOK
        <5> QED BY <5>1, <2>1, <3>1 DEF AnsweredInv, Open
      <4> QED BY <4>1, <4>2
    <3>5. PartsInv'
      BY <2>1 DEF PartsInv, Probing
    <3>6. AnsweredInv'
      BY <2>1, <3>4 DEF AnsweredInv, Probing, Open, EveryPairAnswered
    <3> QED BY <3>3, <3>5, <3>6
  <2> QED BY <2>2, <2>3
<1>6. CASE StartProbing
  <2>1. TypeOK'
    BY <1>6 DEF StartProbing, TypeOK, Phases, workspaceVars, chunkVars
  <2>2. PartsInv'
    BY <1>6 DEF StartProbing, PartsInv, Probing, chunkVars
  <2>3. AnsweredInv'
    BY <1>6 DEF StartProbing, AnsweredInv, Probing, Open, EveryPairAnswered, chunkVars
  <2> QED BY <2>1, <2>2, <2>3
<1>7. CASE NextChunk
  <2> DEFINE last == next + ChunkSize - 1
             stop == IF last < Len(missing) THEN last ELSE Len(missing)
  <2>1. /\ phase = "probe" /\ phase' = "asking" /\ ends' = <<stop>>
        /\ next <= Len(missing) /\ next' = next /\ missing' = missing
        /\ evidence' = evidence
    BY <1>7 DEF NextChunk
  <2>2. stop \in next .. Len(missing) /\ next \in 1 .. Len(missing)
    BY <2>1, ProbeAssumption DEF TypeOK
  <2> HIDE DEF stop, last
  <2>3. TypeOK'
    BY <1>7, <2>1, <2>2 DEF NextChunk, TypeOK, Phases, workspaceVars
  <2>4. PartsInv'
    BY <1>7, <2>1, <2>2 DEF NextChunk, PartsInv, Probing
  <2>5. AnsweredInv'
    BY <2>1 DEF AnsweredInv, Probing, Open, EveryPairAnswered
  <2> QED BY <2>3, <2>4, <2>5
<1>8. CASE FinishAudit
  <2>1. TypeOK'
    BY <1>8 DEF FinishAudit, TypeOK, Phases, Resting, workspaceVars, chunkVars
  <2>2. PartsInv'
    BY <1>8 DEF FinishAudit, PartsInv, Probing, chunkVars
  <2>3. \A p \in Pairs : ~Open(p)
    BY <1>8 DEF FinishAudit, Open, TypeOK
  <2>4. AnsweredInv'
    BY <1>8, <2>3 DEF FinishAudit, AnsweredInv, Probing, EveryPairAnswered
  <2> QED BY <2>1, <2>2, <2>4
<1>9. CASE AskWorker
  <2>1. TypeOK'
    BY <1>9 DEF AskWorker, TypeOK, Phases, workspaceVars, chunkVars
  <2>2. PartsInv'
    BY <1>9 DEF AskWorker, PartsInv, Probing, chunkVars, TypeOK
  <2>3. AnsweredInv'
    BY <1>9 DEF AskWorker, AnsweredInv, Probing, Open, EveryPairAnswered, chunkVars
  <2> QED BY <2>1, <2>2, <2>3
<1>10. CASE Answer
  <2> DEFINE results == [p \in Pairs |-> Verdict(Within(Scope[p], env))]
  <2>1. phase = "waiting" /\ Settle(results)
        /\ UNCHANGED <<workspaceVars, closure, looked, missing, env, audits, faults>>
    BY <1>10 DEF Answer
  <2>2. results \in [Pairs -> Results]
    BY <2>1, WithinType, ResultTypes DEF PartsInv
  <2> HIDE DEF results
  <2> QED BY <2>1, <2>2, SettleInv, CommandInv DEF TypeOK
<1>11. CASE OverBudget
  BY <1>11, BisectInv, CommandInv DEF OverBudget, TypeOK
<1>12. CASE WorkerDies
  BY <1>12, BisectInv, CommandInv, ProbeAssumption DEF WorkerDies, TypeOK
<1>13. CASE Abort
  <2>1. TypeOK'
    BY <1>13, ProbeAssumption DEF Abort, TypeOK, Phases, Resting, workspaceVars, chunkVars
  <2>2. PartsInv'
    BY <1>13 DEF Abort, PartsInv, Probing, chunkVars
  <2>3. AnsweredInv'
    BY <1>13 DEF Abort, AnsweredInv, Probing, EveryPairAnswered
  <2> QED BY <2>1, <2>2, <2>3
<1>14. CASE UNCHANGED vars
  BY <1>14 DEF vars, workspaceVars, chunkVars, TypeOK, PartsInv, AnsweredInv,
               Open, EveryPairAnswered
<1> QED BY <1>1, <1>2, <1>3, <1>4, <1>5, <1>6, <1>7, <1>8, <1>9, <1>10, <1>11,
           <1>12, <1>13, <1>14 DEF Next, Verify

LEMMA InvHolds == Spec => []Inv
BY InitInv, NextInv, PTL DEF Spec

\* Every variable of ProbeVerification stays in its range.
THEOREM TypeCorrect == Spec => []TypeOK
<1>1. Inv => TypeOK
  BY DEF Inv
<1> QED BY <1>1, InvHolds, PTL

\* An audit that succeeds has evidence for every planned pair.
THEOREM AllPairsAnswered == Spec => []EveryPairAnswered
<1>1. Inv => EveryPairAnswered
  BY DEF Inv, AnsweredInv
<1> QED BY <1>1, InvHolds, PTL

-----------------------------------------------------------------------------
\* Results are stored for the pairs of a part, which come before all that
\* still wait.
LEMMA SettleUnasked ==
    ASSUME Inv, UnaskedInv, phase = "waiting", NEW results,
           Settle(results), UNCHANGED <<closure, looked, missing>>
    PROVE UnaskedInv'
<1>1. /\ ends[1] \in next .. Len(missing) /\ next \in Nat /\ next >= 1
      /\ Head(ends) = ends[1] /\ Len(missing) \in Nat
      /\ missing \in Seq(Pairs) /\ closure \in Contents
  BY FirstPart DEF Inv, TypeOK
<1>a. \A k \in 1 .. Len(missing) : missing[k] \in Pairs
  <2>1. missing \in Seq(Pairs)
    BY <1>1
  <2> HIDE DEF Pairs
  <2> QED BY <2>1
<1>2. next' = ends[1] + 1
  BY <1>1 DEF Settle, Stored
<1>3. ASSUME NEW i \in next' .. Len(missing)
      PROVE store'[Key(missing[i], closure)] = None
  <2>1. i \in next .. Len(missing) /\ i \in 1 .. Len(missing) /\ i > ends[1]
    BY <1>1, <1>2
  <2>2. missing[i] \in Pairs
    BY <1>a, <2>1
  <2>3. ASSUME NEW p \in Chunk PROVE Key(missing[i], closure) # Key(p, closure)
    <3>1. PICK j \in next .. ends[1] : missing[j] = p
      BY <1>1 DEF Chunk
    <3>2. j \in 1 .. Len(missing) /\ j < i /\ missing[j] \in Pairs
      <4>1. j \in 1 .. Len(missing) /\ j < i
        BY <1>1, <2>1
      <4> QED BY <4>1, <1>a
    <3>3. missing[j] < missing[i]
      BY <3>2, <2>1 DEF UnaskedInv
    <3>4. p # missing[i]
      BY <3>1, <3>2, <3>3, <2>2, ProbeAssumption
    <3> QED BY <3>4 DEF Key
  <2>4. Key(missing[i], closure) \in Keys
    BY <1>1, <2>2, KeyType
  <2>5. store'[Key(missing[i], closure)] = store[Key(missing[i], closure)]
    BY <2>3, <2>4 DEF Settle, Stored
  <2>6. store[Key(missing[i], closure)] = None
    BY <2>1 DEF UnaskedInv, Probing
  <2> QED BY <2>5, <2>6
<1> QED BY <1>3 DEF UnaskedInv

LEMMA BisectUnasked ==
    ASSUME Inv, UnaskedInv, phase = "waiting", Bisect,
           UNCHANGED <<closure, looked, missing>>
    PROVE UnaskedInv'
<1>1. CASE Settle([p \in Pairs |-> Unavailable])
  BY <1>1, SettleUnasked
<1>2. CASE UNCHANGED <<store, next>>
  BY <1>2 DEF UnaskedInv, Probing
<1> QED BY <1>1, <1>2 DEF Bisect

LEMMA NextUnasked == Inv /\ UnaskedInv /\ [Next]_vars => UnaskedInv'
<1> SUFFICES ASSUME Inv, UnaskedInv, [Next]_vars PROVE UnaskedInv'
  OBVIOUS
<1>1. CASE UNCHANGED <<store, closure, looked, missing, next>> /\
           (phase' \in Resting \/ phase' = phase \/ phase \in {"lookup"} \cup Probing)
  BY <1>1 DEF UnaskedInv, Probing, Resting
<1>2. CASE StartAudit
  BY <1>2 DEF StartAudit, UnaskedInv, Probing
<1>3. CASE Plan
  <2>1. missing' = <<>> /\ next' = 1
    BY <1>3 DEF Plan, Inv, PartsInv, chunkVars
  <2>2. Len(missing') = 0
    BY <2>1
  <2>3. 1 .. Len(missing') = {} /\ next' .. Len(missing') = {}
    BY <2>1, <2>2
  <2> HIDE DEF Inv
  <2> QED BY <2>3 DEF UnaskedInv
<1>4. CASE LookUp
  <2> DEFINE p == looked + 1
  <2>1. /\ phase = "lookup" /\ next = 1 /\ missing \in Seq(Pairs)
        /\ looked \in Nat /\ Len(missing) \in Nat /\ looked' = p
        /\ UNCHANGED <<store, closure, next>>
    BY <1>4, ProbeAssumption DEF LookUp, Cached, Inv, TypeOK, PartsInv, chunkVars
  <2>2. CASE UNCHANGED missing
    <3>1. \A i \in 1 .. Len(missing) : missing[i] \in Nat /\ missing[i] <= looked'
      <4> SUFFICES ASSUME NEW i \in 1 .. Len(missing)
                   PROVE missing[i] \in Nat /\ missing[i] <= looked'
        OBVIOUS
      <4>1. missing[i] \in Nat
        BY <2>1, ProbeAssumption
      <4>2. missing[i] <= looked
        BY DEF UnaskedInv
      <4> QED BY <4>1, <4>2, <2>1
    <3> QED BY <2>1, <2>2, <3>1 DEF UnaskedInv
  <2>3. CASE store[Key(p, closure)] = None /\ missing' = Append(missing, p)
    <3>1. /\ Len(missing') = Len(missing) + 1
          /\ missing'[Len(missing) + 1] = p
          /\ \A i \in 1 .. Len(missing) : missing'[i] = missing[i]
      BY <2>1, <2>3, AppendProperties
    <3>2. \A i \in 1 .. Len(missing) : missing[i] \in Nat /\ missing[i] < p
      <4> SUFFICES ASSUME NEW i \in 1 .. Len(missing)
                   PROVE missing[i] \in Nat /\ missing[i] < p
        OBVIOUS
      <4>1. missing[i] \in Nat
        BY <2>1, ProbeAssumption
      <4>2. missing[i] <= looked
        BY DEF UnaskedInv
      <4> QED BY <4>1, <4>2, <2>1
    <3>3. ASSUME NEW i \in 1 .. Len(missing')
          PROVE missing'[i] <= looked' /\ store'[Key(missing'[i], closure')] = None
      <4>1. CASE i = Len(missing) + 1
        BY <4>1, <3>1, <2>1, <2>3
      <4>2. CASE i # Len(missing) + 1
        <5>1. i \in 1 .. Len(missing)
          BY <4>2, <3>1, <2>1
        <5>2. store[Key(missing[i], closure)] = None
          BY <5>1, <2>1 DEF UnaskedInv
        <5> QED BY <5>1, <5>2, <3>1, <3>2, <2>1
      <4> QED BY <4>1, <4>2
    <3>4. ASSUME NEW i \in 1 .. Len(missing'), NEW j \in 1 .. Len(missing'), i < j
          PROVE missing'[i] < missing'[j]
      <4>1. i \in 1 .. Len(missing)
        BY <3>4, <3>1, <2>1
      <4>2. CASE j = Len(missing) + 1
        BY <4>1, <4>2, <3>1, <3>2
      <4>3. CASE j # Len(missing) + 1
        <5>1. j \in 1 .. Len(missing)
          BY <4>3, <3>1, <2>1
        <5> QED BY <5>1, <4>1, <3>4, <3>1 DEF UnaskedInv
      <4> QED BY <4>2, <4>3
    <3> QED BY <3>3, <3>4, <2>1 DEF UnaskedInv
  <2> QED BY <1>4, <2>2, <2>3 DEF LookUp, Cached
<1>5. CASE Answer
  BY <1>5, SettleUnasked DEF Answer
<1>6. CASE OverBudget
  BY <1>6, BisectUnasked DEF OverBudget
<1>7. CASE WorkerDies
  BY <1>7, BisectUnasked DEF WorkerDies
<1>8. ASSUME NEW m \in Modules, EditSource(m) PROVE UnaskedInv'
  BY <1>1, <1>8 DEF EditSource, UserOnly, chunkVars
<1>9. CASE LakeBuild
  BY <1>1, <1>9 DEF LakeBuild, UserOnly, chunkVars
<1>10. CASE StartProbing \/ NextChunk \/ FinishAudit \/ AskWorker \/ Abort
  BY <1>1, <1>10 DEF StartProbing, NextChunk, FinishAudit, AskWorker, Abort,
                     chunkVars, Probing, Resting
<1>11. CASE UNCHANGED vars
  BY <1>1, <1>11 DEF vars, chunkVars
<1> QED BY <1>2, <1>3, <1>4, <1>5, <1>6, <1>7, <1>8, <1>9, <1>10, <1>11
        DEF Next, Verify

\* No pair with a stored result is sent to the worker.
THEOREM StoredPairsAreNotAsked == Spec => NothingAskedTwice
<1>1. Init => UnaskedInv
  BY DEF Init, UnaskedInv, Probing
<1>2. Inv /\ UnaskedInv /\ [Next]_vars =>
        [AskWorker => \A p \in Chunk : Cached(p) = None]_vars
  <2> SUFFICES ASSUME Inv, UnaskedInv, AskWorker, NEW p \in Chunk
               PROVE Cached(p) = None
    OBVIOUS
  <2>1. phase = "asking"
    BY DEF AskWorker
  <2>2. Head(ends) = ends[1] /\ ends[1] \in next .. Len(missing) /\ next \in Nat
        /\ Len(missing) \in Nat
    BY <2>1, FirstPart DEF Inv
  <2>3. PICK i \in next .. ends[1] : missing[i] = p
    BY <2>2 DEF Chunk
  <2>4. i \in next .. Len(missing)
    BY <2>2
  <2> QED BY <2>1, <2>3, <2>4 DEF UnaskedInv, Probing, Cached
<1> QED BY <1>1, <1>2, NextUnasked, InvHolds, PTL DEF Spec, NothingAskedTwice

-----------------------------------------------------------------------------
(* Current evidence, for a careful user with one toolchain                 *)

\* What a part is settled with is the verdict of its key, or none.
LEMMA SettleCurrent ==
    ASSUME Core = {}, Inv, StoreInv, CurrentInv, phase = "waiting",
           NEW results, Settle(results), closure' = closure,
           \A p \in Pairs : \/ results[p] = Unavailable
                            \/ results[p] = Verdict(Within(Scope[p], closure))
    PROVE /\ StoreInv'
          /\ \A p \in Pairs : evidence'[p] \notin {None, Unavailable} =>
               evidence'[p] = Verdict(Within(Scope[p], closure'))
<1>1. StoreInv'
  <2> SUFFICES ASSUME NEW k \in Keys, store'[k] \notin {None, Unavailable}
               PROVE store'[k] = Verdict(k[2])
    BY DEF StoreInv
  <2>1. CASE \E p \in Chunk : k = Key(p, closure)
    <3>1. PICK p \in Chunk : k = Key(p, closure)
      BY <2>1
    <3>2. store'[k] = results[k[1]] /\ k[1] \in Pairs
      BY <2>1 DEF Settle, Stored, Keys
    <3>3. k[1] = p /\ k[2] = Within(Scope[p], closure)
      <4>1. Scope[p] \ Core = Scope[p]
        OBVIOUS
      <4> QED BY <3>1, <4>1 DEF Key
    <3> QED BY <3>2, <3>3
  <2>2. CASE ~\E p \in Chunk : k = Key(p, closure)
    BY <2>2 DEF Settle, Stored, StoreInv
  <2> QED BY <2>1, <2>2
<1>2. ASSUME NEW p \in Pairs, evidence'[p] \notin {None, Unavailable}
      PROVE evidence'[p] = Verdict(Within(Scope[p], closure'))
  <2>1. CASE p \in Chunk
    BY <1>2, <2>1 DEF Settle, Stored
  <2>2. CASE p \notin Chunk
    BY <1>2, <2>2 DEF Settle, Stored, CurrentInv
  <2> QED BY <2>1, <2>2
<1> QED BY <1>1, <1>2

\* The workspace stays as it was built while an audit runs.
LEMMA NextCurrent ==
    ASSUME Careful, Core = {}, Inv, StoreInv, CurrentInv, [Next]_vars
    PROVE StoreInv' /\ CurrentInv'
<1>1. CASE
        /\ UNCHANGED <<workspaceVars, store, closure, evidence>>
        /\ \/ phase' \in Resting
           \/ phase' = phase /\ env' = env
           \/ phase \in {"lookup"} \cup Probing /\ env' \in {env, None}
  BY <1>1 DEF StoreInv, CurrentInv, workspaceVars, Probing, Resting
<1>2. ASSUME NEW m \in Modules, EditSource(m) PROVE StoreInv' /\ CurrentInv'
  BY <1>2 DEF EditSource, UserOnly, StoreInv, CurrentInv, Probing, Resting
<1>3. CASE LakeBuild
  BY <1>3 DEF LakeBuild, UserOnly, StoreInv, CurrentInv, Probing, Resting
<1>4. CASE StartAudit
  BY <1>4 DEF StartAudit, StoreInv, CurrentInv, workspaceVars, Probing, Resting
<1>5. CASE Plan
  BY <1>5 DEF Plan, Inv, PartsInv, StoreInv, CurrentInv, workspaceVars, Probing, Resting
<1>6. CASE LookUp
  <2> DEFINE p == looked + 1
  <2>1. /\ phase = "lookup" /\ p \in Pairs /\ closure \in Contents
        /\ UNCHANGED <<workspaceVars, store, phase, closure, env>>
    BY <1>6, ProbeAssumption DEF LookUp, Cached, Inv, TypeOK
  <2>2. CASE UNCHANGED evidence
    BY <1>1, <2>1, <2>2
  <2>3. CASE /\ store[Key(p, closure)] # None
             /\ evidence' = [evidence EXCEPT ![p] = store[Key(p, closure)]]
    <3>1. Key(p, closure) \in Keys
      BY <2>1, KeyType
    <3>2. Key(p, closure)[2] = Within(Scope[p], closure)
      <4>1. Scope[p] \ Core = Scope[p]
        OBVIOUS
      <4> QED BY <4>1 DEF Key
    <3>3. store[Key(p, closure)] # Unavailable =>
            store[Key(p, closure)] = Verdict(Within(Scope[p], closure))
      BY <2>3, <3>1, <3>2 DEF StoreInv
    <3>4. \A q \in Pairs : evidence'[q] \notin {None, Unavailable} =>
            evidence'[q] = Verdict(Within(Scope[q], closure'))
      <4> SUFFICES ASSUME NEW q \in Pairs, evidence'[q] \notin {None, Unavailable}
                   PROVE evidence'[q] = Verdict(Within(Scope[q], closure))
        BY <2>1
      <4>1. CASE q = p
        BY <4>1, <2>3, <3>3 DEF Inv, TypeOK
      <4>2. CASE q # p
        BY <4>2, <2>3 DEF Inv, TypeOK, CurrentInv
      <4> QED BY <4>1, <4>2
    <3> QED BY <3>4, <2>1 DEF StoreInv, CurrentInv, workspaceVars, Probing, Resting
  <2> QED BY <1>6, <2>2, <2>3 DEF LookUp, Cached
<1>7. CASE AskWorker
  BY <1>7 DEF AskWorker, StoreInv, CurrentInv, workspaceVars, Probing, Resting
<1>8. CASE Answer
  <2>1. /\ phase = "waiting" /\ closure = source /\ env = source
        /\ UNCHANGED <<workspaceVars, closure, env>>
    BY <1>8, ResultTypes DEF Answer, Inv, PartsInv, CurrentInv, Probing, Resting
  <2>2. /\ StoreInv'
        /\ \A p \in Pairs : evidence'[p] \notin {None, Unavailable} =>
             evidence'[p] = Verdict(Within(Scope[p], closure'))
    BY <1>8, <2>1, SettleCurrent DEF Answer
  <2> QED BY <2>1, <2>2 DEF CurrentInv, workspaceVars, Probing, Resting
<1>9. CASE OverBudget \/ WorkerDies
  <2>1. /\ phase = "waiting" /\ UNCHANGED <<workspaceVars, closure>>
        /\ env' \in {env, None} /\ Bisect
    BY <1>9 DEF OverBudget, WorkerDies
  <2>2. CASE Settle([p \in Pairs |-> Unavailable])
    <3>1. /\ StoreInv'
          /\ \A p \in Pairs : evidence'[p] \notin {None, Unavailable} =>
               evidence'[p] = Verdict(Within(Scope[p], closure'))
      BY <2>1, <2>2, SettleCurrent
    <3> QED BY <2>1, <3>1 DEF CurrentInv, workspaceVars, Probing, Resting
  <2>3. CASE UNCHANGED <<store, evidence>>
    BY <1>1, <2>1, <2>3 DEF Probing
  <2> QED BY <2>1, <2>2, <2>3 DEF Bisect
<1>10. CASE StartProbing \/ NextChunk \/ FinishAudit
  BY <1>1, <1>10 DEF StartProbing, NextChunk, FinishAudit, Probing, Resting
<1>11. CASE Abort
  <2>1. /\ UNCHANGED <<store, closure, evidence>>
        /\ phase' \in Resting /\ phase' \notin {"lookup"} \cup Probing
    BY <1>11 DEF Abort, Resting, Probing
  <2> QED BY <2>1 DEF StoreInv, CurrentInv
<1>12. CASE UNCHANGED vars
  BY <1>1, <1>12 DEF vars
<1> QED BY <1>2, <1>3, <1>4, <1>5, <1>6, <1>7, <1>8, <1>9, <1>10, <1>11, <1>12
        DEF Next, Verify

\* If the user builds before an audit, leaves the workspace alone while it
\* runs and keeps the toolchain, every verdict is that of the audited sources.
THEOREM CarefulEvidenceIsCurrent ==
    ASSUME Careful, Core = {} PROVE Spec => []EvidenceIsCurrent
<1>1. Init => StoreInv /\ CurrentInv
  BY DEF Init, StoreInv, CurrentInv, Probing, Resting
<1>2. Inv /\ StoreInv /\ CurrentInv /\ [Next]_vars => StoreInv' /\ CurrentInv'
  BY NextCurrent
<1>3. Inv /\ CurrentInv => EvidenceIsCurrent
  BY DEF Inv, AnsweredInv, EveryPairAnswered, CurrentInv, EvidenceIsCurrent
<1> QED BY <1>1, <1>2, <1>3, InvHolds, PTL DEF Spec

-----------------------------------------------------------------------------
(* What the pairs of a command cost together                               *)

LEMMA LeastNat ==
    ASSUME NEW S \in SUBSET Nat, S # {}
    PROVE  \E m \in S : \A n \in S : m <= n
<1> DEFINE R == OpToRel(<, Nat)
<1>1. ASSUME NEW m \in S, NEW n \in S, n < m PROVE <<n, m>> \in R
  <2>1. <<n, m>> \in Nat \X Nat /\ <<n, m>>[1] < <<n, m>>[2]
    BY <1>1
  <2> QED BY <2>1 DEF OpToRel
<1>2. IsWellFoundedOn(R, Nat)
  BY NatLessThanWellFounded
<1> HIDE DEF R
<1>3. PICK m \in S : \A n \in S : ~(<<n, m>> \in R)
  BY <1>2, WFMin
<1>4. ASSUME NEW n \in S PROVE m <= n
  <2>1. m \in Nat /\ n \in Nat
    OBVIOUS
  <2>2. ~(n < m)
    BY <1>1, <1>3
  <2> QED BY <2>1, <2>2
<1> QED BY <1>4

First(S) == CHOOSE p \in S : TRUE

\* The cost of a set of pairs, taken one by one.
IsSum(f, S) ==
    f = [s \in SUBSET S |-> IF s = {} THEN 0 ELSE Cost[First(s)] + f[s \ {First(s)}]]

LEMMA LoadIsSum == Load = (CHOOSE f : IsSum(f, Chunk))[Chunk]
BY DEF Load, FoldFunctionOnSet, MapThenFoldSet, IsSum, First

LEMMA RestIsSmaller ==
    ASSUME NEW S, IsFiniteSet(S), NEW s \in SUBSET S, s # {}
    PROVE  /\ First(s) \in s /\ s \ {First(s)} \in SUBSET S
           /\ Cardinality(s) \in Nat /\ Cardinality(s) # 0
           /\ Cardinality(s \ {First(s)}) = Cardinality(s) - 1
<1>1. First(s) \in s
  BY DEF First
<1>2. IsFiniteSet(s)
  BY FS_Subset
<1>3. Cardinality(s \ {First(s)}) = Cardinality(s) - 1
  BY <1>1, <1>2, FS_RemoveElement
<1>4. Cardinality(s) \in Nat /\ Cardinality(s) # 0
  BY <1>2, FS_CardinalityType, FS_EmptySet
<1> QED BY <1>1, <1>3, <1>4

\* The recursion has a solution: one for sets of up to n pairs, for every n.
LEMMA SumExists ==
    ASSUME NEW S, IsFiniteSet(S) PROVE \E f : IsSum(f, S)
<1> DEFINE rec(f, s) == IF s = {} THEN 0 ELSE Cost[First(s)] + f[s \ {First(s)}]
           upto(n, f) == \A s \in SUBSET S : Cardinality(s) <= n => f[s] = rec(f, s)
           good(n) == \E f : upto(n, f)
<1>1. \A s \in SUBSET S : Cardinality(s) \in Nat /\ (Cardinality(s) = 0 => s = {})
  BY FS_Subset, FS_CardinalityType, FS_EmptySet
<1>2. good(0)
  <2>1. upto(0, [s \in SUBSET S |-> 0])
    BY <1>1
  <2> QED BY <2>1
<1>3. ASSUME NEW n \in Nat, good(n) PROVE good(n + 1)
  <2>1. PICK f : upto(n, f)
    BY <1>3
  <2> DEFINE g == [s \in SUBSET S |-> IF Cardinality(s) <= n THEN f[s] ELSE rec(f, s)]
  <2>2. ASSUME NEW s \in SUBSET S PROVE g[s] = rec(f, s)
    BY <2>1
  <2>3. ASSUME NEW s \in SUBSET S, Cardinality(s) <= n + 1, s # {}
        PROVE  g[s \ {First(s)}] = f[s \ {First(s)}]
    <3>1. s \ {First(s)} \in SUBSET S /\ Cardinality(s \ {First(s)}) <= n
      BY <2>3, RestIsSmaller
    <3> QED BY <3>1
  <2> HIDE DEF g
  <2>4. upto(n + 1, g)
    BY <2>2, <2>3
  <2> QED BY <2>4
<1>4. ASSUME NEW n \in Nat PROVE good(n)
  <2> DEFINE bad == {m \in Nat : ~good(m)}
  <2>1. CASE bad = {}
    BY <2>1
  <2>2. CASE bad # {}
    <3>1. PICK m \in bad : \A k \in bad : m <= k
      BY <2>2, LeastNat
    <3> HIDE DEF good
    <3>2. m # 0
      BY <1>2, <3>1
    <3>3. m - 1 \in Nat /\ m = (m - 1) + 1
      BY <3>2
    <3>4. good(m - 1)
      BY <3>1, <3>3
    <3> QED BY <1>3, <3>1, <3>3, <3>4
  <2> QED BY <2>1, <2>2
<1>5. PICK f : upto(Cardinality(S), f)
  BY <1>1, <1>4
<1>6. \A s \in SUBSET S : f[s] = rec(f, s)
  BY <1>1, <1>5, FS_Subset
<1> DEFINE g == [s \in SUBSET S |-> f[s]]
<1>7. IsSum(g, S)
  <2>1. ASSUME NEW s \in SUBSET S PROVE rec(f, s) = rec(g, s)
    OBVIOUS
  <2>2. g = [s \in SUBSET S |-> rec(g, s)]
    BY <1>6, <2>1
  <2> QED BY <2>2 DEF IsSum
<1> QED BY <1>7

\* A command costs no less than any of its pairs, and what its pair costs if it
\* has one.
LEMMA LoadOfPairs ==
    ASSUME Chunk \subseteq Pairs
    PROVE  /\ Load \in Nat
           /\ \A p \in Chunk : Cost[p] <= Load
           /\ \A p \in Pairs : Chunk = {p} => Load = Cost[p]
<1> DEFINE sum == CHOOSE f : IsSum(f, Chunk)
           good(s) == sum[s] \in Nat /\ \A p \in s : Cost[p] <= sum[s]
           bad == {n \in Nat : \E s \in SUBSET Chunk : Cardinality(s) = n /\ ~good(s)}
<1>0. /\ IsFiniteSet(Chunk)
      /\ \A p \in Chunk : Cost[p] \in Nat
  <2>1. IsFiniteSet(Pairs)
    BY FS_Interval, ProbeAssumption
  <2> QED BY <2>1, FS_Subset, ProbeAssumption
<1>1. IsSum(sum, Chunk)
  BY <1>0, SumExists
<1>2. \A s \in SUBSET Chunk :
        sum[s] = IF s = {} THEN 0 ELSE Cost[First(s)] + sum[s \ {First(s)}]
  BY <1>1 DEF IsSum
<1> HIDE DEF sum
<1>3. sum[{}] = 0
  BY <1>2
<1>4. ASSUME NEW s \in SUBSET Chunk, s # {}, good(s \ {First(s)}) PROVE good(s)
  <2>1. First(s) \in s /\ Cost[First(s)] \in Nat
    BY <1>0, <1>4, RestIsSmaller
  <2>2. sum[s] = Cost[First(s)] + sum[s \ {First(s)}] /\ sum[s \ {First(s)}] \in Nat
    BY <1>2, <1>4
  <2>3. ASSUME NEW p \in s PROVE Cost[p] <= sum[s]
    <3>1. CASE p = First(s)
      BY <2>1, <2>2, <3>1
    <3>2. CASE p # First(s)
      <4>1. Cost[p] <= sum[s \ {First(s)}] /\ Cost[p] \in Nat
        BY <1>0, <1>4, <3>2
      <4> QED BY <2>1, <2>2, <4>1
    <3> QED BY <3>1, <3>2
  <2>4. sum[s] \in Nat
    BY <2>1, <2>2
  <2> QED BY <2>3, <2>4
<1>5. bad = {}
  <2> SUFFICES ASSUME bad # {} PROVE FALSE
    OBVIOUS
  <2>0. good({})
    BY <1>3
  <2> HIDE DEF good
  <2>1. PICK m \in bad : \A n \in bad : m <= n
    BY LeastNat
  <2>2. PICK s \in SUBSET Chunk : Cardinality(s) = m /\ ~good(s)
    BY <2>1
  <2>3. s # {}
    BY <2>0, <2>2
  <2> DEFINE less == s \ {First(s)}
  <2>4. less \in SUBSET Chunk /\ Cardinality(less) = m - 1 /\ m - 1 \in Nat
    <3>1. /\ less \in SUBSET Chunk /\ Cardinality(less) = Cardinality(s) - 1
          /\ Cardinality(s) \in Nat /\ Cardinality(s) # 0
      BY <1>0, <2>3, RestIsSmaller
    <3> QED BY <2>2, <3>1
  <2>5. ~good(less)
    BY <1>4, <2>2, <2>3
  <2> HIDE DEF less
  <2>6. m - 1 \in bad
    BY <2>4, <2>5
  <2> QED BY <2>1, <2>4, <2>6
<1>6. good(Chunk)
  <2> HIDE DEF good
  <2>1. Cardinality(Chunk) \in Nat
    BY <1>0, FS_CardinalityType
  <2> QED BY <1>5, <2>1
<1>7. Load = sum[Chunk]
  BY LoadIsSum DEF sum
<1>8. ASSUME NEW p \in Pairs, Chunk = {p} PROVE Load = Cost[p]
  <2>1. First(Chunk) = p /\ Chunk \ {p} = {} /\ Cost[p] \in Nat
    BY <1>0, <1>8 DEF First
  <2>2. sum[Chunk] = Cost[p] + sum[{}]
    BY <1>2, <1>8, <2>1
  <2> QED BY <1>3, <1>7, <2>1, <2>2
<1> QED BY <1>6, <1>7, <1>8

-----------------------------------------------------------------------------
(* Only slow pairs are unavailable                                         *)

\* While nothing else has failed, no result but that of a slow pair is
\* unavailable, in the store or in the evidence.
FastOrSlow(p, result) == result # None => (result = Unavailable <=> Cost[p] > Budget)

SlowInv == faults = 0 =>
    /\ \A k \in Keys : FastOrSlow(k[1], store[k])
    /\ \A p \in Pairs : FastOrSlow(p, evidence[p])

LEMMA SettleSlow ==
    ASSUME TypeOK, SlowInv, NEW results, Settle(results), faults = 0,
           \A p \in Chunk : FastOrSlow(p, results[p])
    PROVE  SlowInv'
<1>1. ASSUME NEW k \in Keys PROVE FastOrSlow(k[1], store'[k])
  <2>1. CASE \E p \in Chunk : k = Key(p, closure)
    <3>1. store'[k] = results[k[1]]
      BY <2>1 DEF Settle, Stored
    <3>2. k[1] \in Chunk
      BY <2>1 DEF Key
    <3> QED BY <3>1, <3>2
  <2>2. CASE ~\E p \in Chunk : k = Key(p, closure)
    <3>1. store'[k] = store[k]
      BY <2>2 DEF Settle, Stored
    <3> QED BY <3>1 DEF SlowInv
  <2> QED BY <2>1, <2>2
<1>2. ASSUME NEW p \in Pairs PROVE FastOrSlow(p, evidence'[p])
  <2>1. evidence'[p] = IF p \in Chunk THEN results[p] ELSE evidence[p]
    BY DEF Settle
  <2> QED BY <2>1 DEF SlowInv
<1> QED BY <1>1, <1>2 DEF SlowInv, FastOrSlow

\* The pairs of a command are pairs, and one if the command cannot be halved.
LEMMA ChunkOfOne ==
    ASSUME Inv, phase = "waiting"
    PROVE  /\ Chunk \subseteq Pairs
           /\ ~(Head(ends) - next + 1 > 1) => \E p \in Pairs : Chunk = {p}
<1>1. /\ Head(ends) = ends[1] /\ ends[1] \in next .. Len(missing)
      /\ next \in Nat /\ next >= 1 /\ Len(missing) \in Nat /\ missing \in Seq(Pairs)
  BY FirstPart DEF Inv, TypeOK
<1>2. \A i \in 1 .. Len(missing) : missing[i] \in Pairs
  <2> HIDE DEF Pairs
  <2> QED BY <1>1
<1>3. Chunk = {missing[i] : i \in next .. ends[1]}
  BY <1>1 DEF Chunk
<1>4. next .. ends[1] \subseteq 1 .. Len(missing) /\ next \in next .. ends[1]
  BY <1>1
<1>5. ASSUME ~(Head(ends) - next + 1 > 1) PROVE Chunk = {missing[next]}
  <2>1. next .. ends[1] = {next}
    BY <1>1, <1>5
  <2> QED BY <1>3, <2>1
<1> HIDE DEF Pairs
<1> QED BY <1>2, <1>3, <1>4, <1>5

LEMMA NextSlow == Inv /\ SlowInv /\ [Next]_vars => SlowInv'
<1> SUFFICES ASSUME Inv, SlowInv, [Next]_vars PROVE SlowInv'
  OBVIOUS
<1>1. CASE UNCHANGED <<store, evidence, faults>>
  BY <1>1 DEF SlowInv, FastOrSlow
<1>2. ASSUME NEW m \in Modules, EditSource(m) PROVE SlowInv'
  BY <1>1, <1>2 DEF EditSource, UserOnly
<1>3. CASE LakeBuild
  BY <1>1, <1>3 DEF LakeBuild, UserOnly
<1>4. CASE StartAudit
  BY <1>4 DEF StartAudit, SlowInv, FastOrSlow
<1>5. CASE Plan \/ StartProbing \/ NextChunk \/ FinishAudit \/ AskWorker
  BY <1>1, <1>5 DEF Plan, StartProbing, NextChunk, FinishAudit, AskWorker
<1>6. CASE LookUp
  <2> DEFINE p == looked + 1
  <2>1. p \in Pairs /\ closure \in Contents /\ UNCHANGED <<store, faults>>
    BY <1>6, ProbeAssumption DEF LookUp, Inv, TypeOK
  <2>2. CASE UNCHANGED evidence
    BY <1>1, <2>1, <2>2
  <2>3. CASE evidence' = [evidence EXCEPT ![p] = store[Key(p, closure)]]
    <3>1. Key(p, closure) \in Keys /\ Key(p, closure)[1] = p
      BY <2>1, KeyType DEF Key
    <3>2. ASSUME faults = 0, NEW q \in Pairs PROVE FastOrSlow(q, evidence'[q])
      <4>1. CASE q = p
        <5>1. evidence'[q] = store[Key(p, closure)]
          BY <4>1, <2>3 DEF Inv, TypeOK
        <5> QED BY <3>1, <3>2, <4>1, <5>1 DEF SlowInv
      <4>2. CASE q # p
        <5>1. evidence'[q] = evidence[q]
          BY <4>2, <2>3 DEF Inv, TypeOK
        <5> QED BY <3>2, <5>1 DEF SlowInv
      <4> QED BY <4>1, <4>2
    <3> QED BY <2>1, <3>2 DEF SlowInv, FastOrSlow
  <2> QED BY <1>6, <2>2, <2>3 DEF LookUp, Cached
<1>7. CASE Answer
  <2> DEFINE results == [p \in Pairs |-> Verdict(Within(Scope[p], env))]
  <2>1. /\ phase = "waiting" /\ Load <= Budget /\ Settle(results) /\ faults' = faults
    BY <1>7 DEF Answer
  <2>2. ASSUME NEW p \in Chunk PROVE FastOrSlow(p, results[p])
    <3>1. Cost[p] <= Load /\ Load \in Nat /\ p \in Pairs
      BY <2>1, ChunkOfOne, LoadOfPairs
    <3>2. Cost[p] \in Nat /\ Budget \in Nat
      BY <3>1, ProbeAssumption
    <3>3. ~(Cost[p] > Budget)
      BY <2>1, <3>1, <3>2
    <3>4. results[p] # Unavailable
      <4>1. results[p].kind = "verdict" /\ Unavailable.kind = "unavailable"
        BY <3>1 DEF Verdict, Unavailable
      <4> QED BY <4>1
    <3> QED BY <3>3, <3>4 DEF FastOrSlow
  <2> HIDE DEF results
  <2> QED BY <2>1, <2>2, SettleSlow DEF Inv, SlowInv
<1>8. CASE OverBudget
  <2>1. phase = "waiting" /\ Load > Budget /\ Bisect /\ faults' = faults
    BY <1>8 DEF OverBudget
  <2>2. CASE Head(ends) - next + 1 > 1
    BY <1>1, <2>1, <2>2 DEF Bisect
  <2>3. CASE ~(Head(ends) - next + 1 > 1)
    <3> DEFINE results == [p \in Pairs |-> Unavailable]
    <3>1. PICK p \in Pairs : Chunk = {p}
      BY <2>1, <2>3, ChunkOfOne
    <3>2. Load = Cost[p]
      BY <3>1, LoadOfPairs
    <3>3. Settle(results)
      BY <2>1, <2>3 DEF Bisect
    <3>4. \A q \in Chunk : FastOrSlow(q, results[q])
      BY <2>1, <3>1, <3>2 DEF FastOrSlow
    <3> HIDE DEF results
    <3> QED BY <2>1, <3>3, <3>4, SettleSlow DEF Inv, SlowInv
  <2> QED BY <2>2, <2>3
<1>9. CASE WorkerDies \/ Abort
  <2>1. faults' = faults + 1 /\ faults \in Nat
    BY <1>9, ProbeAssumption DEF WorkerDies, Abort, Inv, TypeOK
  <2>2. faults' # 0
    BY <2>1
  <2> QED BY <2>2 DEF SlowInv
<1>10. CASE UNCHANGED vars
  BY <1>1, <1>10 DEF vars
<1> QED BY <1>2, <1>3, <1>4, <1>5, <1>6, <1>7, <1>8, <1>9, <1>10 DEF Next, Verify

\* While nothing else fails, a pair is unavailable exactly if it is too slow on
\* its own, whatever it shared a command with.
THEOREM OnlySlowAreUnavailable == Spec => []OnlySlowPairsUnavailable
<1>1. Init => SlowInv
  BY DEF Init, SlowInv, FastOrSlow
<1>2. Inv /\ SlowInv => OnlySlowPairsUnavailable
  BY DEF Inv, AnsweredInv, EveryPairAnswered, SlowInv, FastOrSlow,
         OnlySlowPairsUnavailable
<1> QED BY <1>1, <1>2, NextSlow, InvHolds, PTL DEF Spec
=============================================================================
