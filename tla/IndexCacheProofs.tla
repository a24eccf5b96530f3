-------------------------- MODULE IndexCacheProofs --------------------------
(***************************************************************************)
(* Theorems about IndexCache and CacheDiagnosis, for every set of          *)
(* processes, workspaces and versions.  TypeOK is inductive as it stands.  *)
(* What else holds depends on who shares the cache.  Builders of different *)
(* entries leave complete entries (EntryInv); one command at a time,       *)
(* cleanups included, leaves entries that doctor describes rightly, a      *)
(* pointer that each audit can follow to its own, and an active entry that *)
(* no cleanup touches (SoloInv, RowsInv).                                  *)
(***************************************************************************)
EXTENDS CacheDiagnosis, FiniteSetTheorems, TLAPS

(* Type correctness *)

LEMMA InitTypeOK == Init => TypeOK
BY ConstantsAssumption
   DEF Init, TypeOK, WorkspaceTypeOK, EntryTypeOK, AuditTypeOK, CleanerTypeOK,
       File, NoFile, FileStates, AuditPcs, CleanerPcs

\* The values written into the file variables are files.
LEMMA FileTypes ==
    /\ NoFile \in File
    /\ \A st \in FileStates, r \in Versions \cup {None},
          b \in Auditors \cup {None} :
          [state |-> st, rows |-> r, writer |-> b] \in File
    /\ \A files \in [Key -> File] : \A a : Closed(files, a) \in [Key -> File]
BY DEF NoFile, File, FileStates, Closed

LEMMA RequestedKeyType ==
    ASSUME WorkspaceTypeOK, NEW w \in Workspaces
    PROVE  KeyNow(w) \in Key
BY DEF WorkspaceTypeOK, Key, KeyNow

LEMMA JobKeyType ==
    ASSUME AuditTypeOK, NEW a \in Auditors, pc[a] # "idle"
    PROVE  key[a] \in Key
BY DEF AuditTypeOK

LEMMA FailEnds ==
    ASSUME TypeOK, NEW a \in Auditors, Fail(a)
    PROVE  pc'[a] = "failed"
BY DEF Fail, Goto, TypeOK, AuditTypeOK

\* An error return, whichever operation it comes from.
LEMMA FailTypeOK ==
    ASSUME TypeOK, NEW a \in Auditors, Fail(a), pc[a] # "idle",
           UNCHANGED <<key, force, extracted, opened, latest>>,
           faults' \in 0 .. MaxFaults
    PROVE  EntryTypeOK' /\ AuditTypeOK'
<1>1. EntryTypeOK'
  BY FileTypes DEF TypeOK, EntryTypeOK, Fail
<1>2. AuditTypeOK'
  BY DEF TypeOK, AuditTypeOK, Fail, Goto, AuditPcs
<1> QED
  BY <1>1, <1>2

\* The steps of an auditor that leave the entries alone when they succeed.
LEMMA JobTypeOK ==
    ASSUME TypeOK, NEW a \in Auditors,
           \/ ReuseEntry(a) \/ MissEntry(a) \/ TruncateLatest(a)
           \/ WriteLatest(a) \/ Finish(a)
    PROVE  EntryTypeOK' /\ AuditTypeOK'
<1> USE DEF TypeOK, At
<1>1. EntryTypeOK'
  BY JobKeyType
     DEF EntryTypeOK, ReuseEntry, MissEntry, TruncateLatest, WriteLatest,
         Finish, entryVars
<1>2. CASE Finish(a)
  <2>1. AuditTypeOK'
    BY <1>2, MarkersAssumption
       DEF AuditTypeOK, AuditPcs, Finish, Forget, Goto
  <2> QED
    BY <1>1, <2>1
<1>3. CASE MissEntry(a)
  <2>1. AuditTypeOK'
    BY <1>3 DEF AuditTypeOK, AuditPcs, MissEntry, KeepJob, Goto
  <2> QED
    BY <1>1, <2>1
<1>4. CASE ReuseEntry(a) \/ TruncateLatest(a) \/ WriteLatest(a)
  <2>1. AuditTypeOK'
    BY <1>4
       DEF AuditTypeOK, AuditPcs, ReuseEntry, TruncateLatest, WriteLatest,
           KeepJob, Goto
  <2> QED
    BY <1>1, <2>1
<1> QED
  BY <1>2, <1>3, <1>4

\* The steps that read rows or an entry, or fail to.
LEMMA ReaderTypeOK ==
    ASSUME TypeOK, NEW a \in Auditors,
           ExtractBatch(a) \/ IndexStream(a) \/ Resolve(a) \/ Hydrate(a)
    PROVE  EntryTypeOK' /\ AuditTypeOK'
<1> USE ConstantsAssumption DEF At
<1>1. CASE Fail(a)
  <2>1. UNCHANGED <<key, force, latest, faults>> /\ pc[a] # "idle"
    BY DEF ExtractBatch, IndexStream, Resolve, Hydrate, KeepJob
  <2>2. UNCHANGED <<extracted, opened>>
    BY <1>1, FailEnds
       DEF ExtractBatch, IndexStream, Resolve, Hydrate, KeepJob, Goto, TypeOK,
           AuditTypeOK
  <2> QED
    BY <1>1, <2>1, <2>2, FailTypeOK DEF TypeOK, EntryTypeOK
<1>2. CASE ~Fail(a) /\ (ExtractBatch(a) \/ IndexStream(a))
  <2>1. UNCHANGED <<entryVars, latest, faults, key, force, opened>>
    BY <1>2 DEF ExtractBatch, IndexStream
  <2>2. olean[WorkspaceOf[a]] \in Versions \ {None}
    BY <1>2 DEF ExtractBatch, IndexStream, TypeOK, WorkspaceTypeOK
  <2>3. /\ extracted' = [extracted EXCEPT ![a] = olean[WorkspaceOf[a]]]
        /\ \/ pc[a] = "extract" /\ pc' = [pc EXCEPT ![a] = "prepare"]
           \/ pc[a] = "stream" /\ pc' = [pc EXCEPT ![a] = "publish"]
    BY <1>2 DEF ExtractBatch, IndexStream, Goto
  <2> QED
    BY <2>1, <2>2, <2>3
       DEF TypeOK, EntryTypeOK, AuditTypeOK, AuditPcs, entryVars
<1>3. CASE ~Fail(a) /\ (Resolve(a) \/ Hydrate(a))
  <2>1. UNCHANGED <<entryVars, latest, faults, key, force, extracted>>
    BY <1>3 DEF Resolve, Hydrate, KeepJob
  <2>2. \/ /\ pc[a] = "resolve" /\ pc' = [pc EXCEPT ![a] = "hydrate"]
           /\ opened' = [opened EXCEPT ![a] = latest] /\ latest \in Key
        \/ /\ pc[a] = "hydrate" /\ pc' = [pc EXCEPT ![a] = "done"]
           /\ opened' = opened
    BY <1>3 DEF Resolve, Hydrate, Goto, KeepJob
  <2> QED
    BY <2>1, <2>2, MarkersAssumption
       DEF TypeOK, EntryTypeOK, AuditTypeOK, AuditPcs, entryVars
<1> QED
  BY <1>1, <1>2, <1>3

\* The steps that write the files of an entry, or fail to.
LEMMA WriterTypeOK ==
    ASSUME TypeOK, NEW a \in Auditors,
           \/ PrepareTemp(a) \/ OpenTemp(a) \/ PublishCorpus(a)
           \/ CommitIndex(a) \/ ReplaceFile(a)
    PROVE  EntryTypeOK' /\ AuditTypeOK'
<1> USE DEF At
<1>1. key[a] \in Key /\ UNCHANGED <<latest, faults>> /\ KeepJob
  BY JobKeyType
     DEF PrepareTemp, OpenTemp, PublishCorpus, CommitIndex, ReplaceFile, TypeOK
<1>2. CASE Fail(a)
  BY <1>1, <1>2, FailTypeOK
     DEF PrepareTemp, OpenTemp, PublishCorpus, CommitIndex, ReplaceFile,
         KeepJob, TypeOK, EntryTypeOK
<1>3. CASE ~Fail(a)
  <2>1. AuditTypeOK'
    BY <1>1, <1>3
       DEF PrepareTemp, OpenTemp, PublishCorpus, CommitIndex, ReplaceFile,
           KeepJob, Goto, TypeOK, AuditTypeOK, AuditPcs
  <2>2. dirs' \subseteq Key
    BY <1>1, <1>3
       DEF PrepareTemp, OpenTemp, PublishCorpus, CommitIndex, ReplaceFile,
           TypeOK, EntryTypeOK
  <2>3. corpus' \in [Key -> Versions \cup {None}]
    BY <1>1, <1>3
       DEF PrepareTemp, OpenTemp, PublishCorpus, CommitIndex, ReplaceFile,
           TypeOK, EntryTypeOK, AuditTypeOK
  <2>4. temp' \in [Key -> File] /\ index' \in [Key -> File]
    <3>1. CASE PrepareTemp(a) \/ ReplaceFile(a) \/ PublishCorpus(a)
      BY <1>1, <1>3, <3>1, FileTypes
         DEF PrepareTemp, ReplaceFile, PublishCorpus, TypeOK, EntryTypeOK
    <3>2. CASE OpenTemp(a)
      <4>1. [state |-> IF Batched THEN "keyed" ELSE "schema",
             rows |-> None, writer |-> a] \in File
        BY FileTypes DEF FileStates
      <4> QED
        BY <1>1, <1>3, <3>2, <4>1 DEF OpenTemp, TypeOK, EntryTypeOK
    <3>3. CASE CommitIndex(a)
      <4>1. [state |-> "full", rows |-> extracted[a], writer |-> None] \in File
        BY FileTypes DEF FileStates, TypeOK, AuditTypeOK
      <4> QED
        BY <3>3, <4>1 DEF CommitIndex, TypeOK, EntryTypeOK
    <3> QED
      BY <3>1, <3>2, <3>3
  <2> QED
    BY <1>1, <2>1, <2>2, <2>3, <2>4 DEF TypeOK, EntryTypeOK
<1> QED
  BY <1>2, <1>3

LEMMA CleanerTypes ==
    ASSUME TypeOK, NEW c \in Cleaners, CleanerStep(c) \/ CleanerDies(c)
    PROVE  EntryTypeOK' /\ CleanerTypeOK'
<1> USE DEF TypeOK
<1>1. CASE ReadProtected(c) \/ ListDirs(c) \/ EnterDir(c) \/ SweepDone(c)
  <2>1. EntryTypeOK'
    BY <1>1
       DEF EntryTypeOK, ReadProtected, ListDirs, EnterDir, SweepDone, entryVars
  <2>2. CASE ReadProtected(c)
    <3>1. PICK requested \in SUBSET Workspaces :
             protected' = [protected EXCEPT ![c] =
               {KeyNow(w) : w \in requested} \cup ({latest} \cap Key)]
      BY <2>2 DEF ReadProtected
    <3>2. {KeyNow(w) : w \in requested} \cup ({latest} \cap Key)
            \in SUBSET Key
      BY RequestedKeyType
    <3> QED
      BY <2>1, <2>2, <3>1, <3>2 DEF ReadProtected, CleanerTypeOK, CleanerPcs
  <2>3. CASE ListDirs(c) \/ EnterDir(c) \/ SweepDone(c)
    BY <2>1, <2>3, MarkersAssumption
       DEF ListDirs, EnterDir, SweepDone, EndSweep, EntryTypeOK, CleanerTypeOK,
           CleanerPcs, FilesIn
  <2> QED
    BY <1>1, <2>2, <2>3
<1>2. CASE RemoveFile(c)
  BY <1>2, FileTypes DEF RemoveFile, EntryTypeOK, CleanerTypeOK
<1>3. CASE RemoveDir(c) \/ CleanerDies(c)
  BY <1>3, ConstantsAssumption, MarkersAssumption
     DEF RemoveDir, CleanerDies, EndSweep, EntryTypeOK, CleanerTypeOK,
         CleanerPcs, entryVars
<1> QED
  BY <1>1, <1>2, <1>3 DEF CleanerStep

LEMMA NextTypeOK == TypeOK /\ [Next]_vars => TypeOK'
<1> SUFFICES ASSUME TypeOK, [Next]_vars
             PROVE  TypeOK'
  OBVIOUS
<1>1. ASSUME NEW a \in Auditors,
             AuditorStep(a) \/ WorkerFails(a) \/ AuditorDies(a)
      PROVE  TypeOK'
  <2>1. WorkspaceTypeOK' /\ CleanerTypeOK'
    BY <1>1
       DEF AuditorStep, RequestIndex, ReuseEntry, MissEntry, ExtractBatch,
           PrepareTemp, OpenTemp, IndexStream, PublishCorpus, CommitIndex,
           ReplaceFile, TruncateLatest, WriteLatest, Resolve, Hydrate, Finish,
           WorkerFails, AuditorDies, AuditorOnly, workspaceVars, cleanerVars,
           TypeOK, WorkspaceTypeOK, CleanerTypeOK
  <2>2. CASE RequestIndex(a)
    <3>1. KeyNow(WorkspaceOf[a]) \in Key \ {None}
      BY RequestedKeyType, ConstantsAssumption, MarkersAssumption DEF TypeOK
    <3>2. PICK f \in BOOLEAN : force' = [force EXCEPT ![a] = f]
      BY <2>2 DEF RequestIndex, ForceChoices
    <3> QED
      BY <2>1, <2>2, <3>1, <3>2
         DEF RequestIndex, At, Goto, AuditPcs, entryVars, TypeOK, EntryTypeOK,
             AuditTypeOK
  <2>3. CASE AuditorDies(a)
    BY <2>1, <2>3, FileTypes, ConstantsAssumption
       DEF AuditorDies, Forget, Goto, AuditPcs, TypeOK, EntryTypeOK,
           AuditTypeOK
  <2>4. CASE WorkerFails(a)
    <3>1. faults' \in 0 .. MaxFaults
      BY <2>4, ConstantsAssumption DEF WorkerFails, TypeOK, EntryTypeOK
    <3> QED
      BY <2>1, <2>4, <3>1, FailTypeOK DEF WorkerFails, KeepJob, TypeOK
  <2> QED
    BY <1>1, <2>1, <2>2, <2>3, <2>4, JobTypeOK, ReaderTypeOK, WriterTypeOK
       DEF AuditorStep, TypeOK
<1>2. ASSUME NEW c \in Cleaners, CleanerStep(c) \/ CleanerDies(c)
      PROVE  TypeOK'
  <2>1. WorkspaceTypeOK' /\ AuditTypeOK'
    BY <1>2
       DEF CleanerStep, ReadProtected, ListDirs, EnterDir, SweepDone,
           RemoveFile, RemoveDir, CleanerDies, CleanerOnly, workspaceVars,
           auditVars, TypeOK, WorkspaceTypeOK, AuditTypeOK
  <2> QED
    BY <1>2, <2>1, CleanerTypes DEF TypeOK
<1>3. ASSUME NEW w \in Workspaces, EditSource(w) \/ LakeBuild(w)
      PROVE  TypeOK'
  BY <1>3
     DEF EditSource, LakeBuild, entryVars, auditVars, cleanerVars, TypeOK,
         WorkspaceTypeOK, EntryTypeOK, AuditTypeOK, CleanerTypeOK
<1>4. CASE UNCHANGED vars
  BY <1>4
     DEF vars, workspaceVars, entryVars, auditVars, cleanerVars, TypeOK,
         WorkspaceTypeOK, EntryTypeOK, AuditTypeOK, CleanerTypeOK
<1> QED
  BY <1>1, <1>2, <1>3, <1>4 DEF Next

\* Every variable stays in its range, and the phase of a process agrees with
\* the key, the rows and the directory it holds.
THEOREM TypeCorrect == Spec => []TypeOK
BY InitTypeOK, NextTypeOK, PTL DEF Spec

(* Complete entries *)

LEMMA InitEntryInv == Init => EntryInv
BY MarkersAssumption
   DEF Init, EntryInv, KeyInv, TempInv, IndexInv, BuildInv, BuildAt, LatestInv,
       ServedInv, NoFile, Writing, Building, Served

\* The others stay where they are while auditor a moves.
OnlyMoves(a) ==
    \A b \in Auditors \ {a} : pc'[b] = pc[b] /\ key'[b] = key[b]

\* The key of auditor a is of its own place, and nobody else builds under it.
OwnKey(a) ==
    /\ key'[a] # None => key'[a][1] = Place(WorkspaceOf[a])
    /\ pc'[a] \in Building =>
          \A b \in Auditors \ {a} : pc[b] \in Building => key[b] # key'[a]

\* Two processes that build at the same time build different entries.
LEMMA RequestOwnKey ==
    ASSUME OwnEntries, TypeOK, KeyInv, NEW a \in Auditors, RequestIndex(a)
    PROVE  OwnKey(a)
<1> DEFINE w == WorkspaceOf[a]
<1>1. key'[a] = KeyNow(w) /\ key'[a][1] = Place(w) /\ Vacant(KeyNow(w)) /\ pc[a] = "idle"
  BY DEF RequestIndex, At, KeyNow, TypeOK, AuditTypeOK
<1>2. ASSUME NEW b \in Auditors \ {a}, pc[b] \in Building
      PROVE  key[b] # key'[a]
  <2>1. CASE OnePerKey
    BY <1>1, <1>2, <2>1 DEF Vacant
  <2>2. CASE ~OnePerKey
    <3>1. key[b] # None /\ key[b][1] = Place(WorkspaceOf[b])
      BY <1>2 DEF KeyInv, Building, TypeOK, AuditTypeOK
    <3> QED
      BY <1>1, <2>2, <3>1 DEF OwnEntries, Place
  <2> QED
    BY <2>1, <2>2
<1> QED
  BY <1>1, <1>2 DEF OwnKey

LEMMA KeepsOwnKey ==
    ASSUME TypeOK, KeyInv, NEW a \in Auditors, key'[a] = key[a],
           pc'[a] \in Building => pc[a] \in Building
    PROVE  OwnKey(a)
BY DEF OwnKey, KeyInv

\* A step that touches no file: it must not enter the writing phases, and a
\* pointer it is about to write, or writes, leads to a published index.
LEMMA QuietEntryInv ==
    ASSUME TypeOK, EntryInv, NEW a \in Auditors, OnlyMoves(a), OwnKey(a),
           pc[a] \notin Writing, pc'[a] \notin Writing \cup {"replace"},
           pc'[a] \in {"point", "pointing"} \cup Served => index[key'[a]].state = "full",
           latest' \in Key => index[latest'].state = "full",
           UNCHANGED <<temp, index, corpus>>
    PROVE  EntryInv'
<1> USE DEF EntryInv, OnlyMoves
<1>1. KeyInv'
  BY DEF KeyInv, OwnKey
<1>2. TempInv'
  BY DEF TempInv
<1>3. IndexInv' /\ LatestInv'
  BY DEF IndexInv, LatestInv
<1>4. BuildInv' /\ ServedInv'
  BY DEF BuildInv, BuildAt, Writing, ServedInv, Served
<1> QED
  BY <1>1, <1>2, <1>3, <1>4

\* An error return, or a death: the kernel closes the temp file, and no index
\* was open.
LEMMA ClosingEntryInv ==
    ASSUME OwnEntries, TypeOK, EntryInv, NEW a \in Auditors,
           OnlyMoves(a), OwnKey(a), pc'[a] \in {"failed", "idle"},
           temp' = Closed(temp, a), index' = Closed(index, a),
           UNCHANGED <<corpus, latest>>
    PROVE  EntryInv'
<1> USE MarkersAssumption DEF EntryInv, OnlyMoves
<1>1. index' = index
  <2>1. \A k \in Key : index[k].writer # a
    BY DEF IndexInv
  <2> QED
    BY <2>1 DEF Closed, TypeOK, EntryTypeOK
<1>2. \A k \in Key :
        /\ temp[k].writer = a => temp'[k].writer = None
        /\ temp[k].writer # a => temp'[k].writer = temp[k].writer
        /\ temp'[k].state = temp[k].state
  BY DEF Closed, TypeOK, EntryTypeOK, File
<1>3. KeyInv'
  BY DEF KeyInv, OwnKey
<1>4. TempInv'
  <2> SUFFICES ASSUME NEW k \in Key, NEW b \in Auditors, temp'[k].writer = b
               PROVE  pc'[b] \in Writing /\ key'[b] = k
    BY DEF TempInv
  <2>1. temp[k].writer = b /\ b # a
    BY <1>2
  <2> QED
    BY <2>1 DEF TempInv
<1>5. IndexInv' /\ LatestInv' /\ ServedInv'
  BY <1>1 DEF IndexInv, LatestInv, ServedInv, Served
<1>6. BuildInv'
  <2> SUFFICES ASSUME NEW b \in Auditors PROVE BuildAt(b)'
    BY DEF BuildInv
  <2>1. CASE b = a
    BY <2>1 DEF BuildAt, Writing
  <2>2. CASE b # a /\ pc[b] = "idle"
    BY <2>2 DEF BuildAt, Writing
  <2>3. CASE b # a /\ pc[b] # "idle"
    <3>1. key[b] \in Key /\ pc'[b] = pc[b] /\ key'[b] = key[b]
      BY <2>3 DEF TypeOK, AuditTypeOK
    <3>2. /\ pc[b] \in Writing => temp'[key[b]].writer = b
          /\ temp'[key[b]].state = temp[key[b]].state
      BY <1>2, <2>3, <3>1 DEF BuildInv, BuildAt
    <3> QED
      BY <1>1, <3>1, <3>2 DEF BuildInv, BuildAt
  <2> QED
    BY <2>1, <2>2, <2>3
<1> QED
  BY <1>3, <1>4, <1>5, <1>6

LEMMA FailEntryInv ==
    ASSUME OwnEntries, TypeOK, EntryInv, NEW a \in Auditors, Fail(a),
           UNCHANGED <<key, latest>>
    PROVE  EntryInv'
<1>1. OnlyMoves(a) /\ OwnKey(a) /\ pc'[a] = "failed"
  BY KeepsOwnKey DEF Fail, Goto, OnlyMoves, Building, EntryInv, TypeOK, AuditTypeOK
<1> QED
  BY <1>1, ClosingEntryInv DEF Fail

\* A file is written in directory key[a] only, where nobody else builds.
LEMMA OwnDirectory ==
    ASSUME TypeOK, EntryInv, NEW a \in Auditors, pc[a] \in Building,
           NEW b \in Auditors \ {a}, pc[b] \in Building
    PROVE  key[a] \in Key /\ key[b] # key[a]
BY DEF EntryInv, KeyInv, Building, TypeOK, AuditTypeOK

\* A step of a builder that keeps its key: what it must establish about the
\* files of its own directory, the files of all others being left alone.
LEMMA BuilderEntryInv ==
    ASSUME TypeOK, EntryInv, NEW a \in Auditors, pc[a] \in Building,
           NEW there \in Building \cup {"point", "pointing"}, Goto(a, there),
           \A k \in Key \ {key[a]} : /\ temp'[k] = temp[k]
                                     /\ index'[k] = index[k]
                                     /\ corpus'[k] = corpus[k],
           temp'[key[a]].writer \in {a, None},
           temp'[key[a]].writer = a <=> there \in Writing,
           index'[key[a]].state \in {"absent", "full"},
           index'[key[a]].writer = None,
           index[key[a]].state = "full" => index'[key[a]].state = "full",
           index'[key[a]].state = "full" => corpus'[key[a]] # None,
           there = "replace" => temp'[key[a]].state = "full",
           there \in {"commit", "replace"} => corpus'[key[a]] # None,
           there \in {"point", "pointing"} => index'[key[a]].state = "full",
           UNCHANGED <<key, latest>>
    PROVE  EntryInv'
<1> USE MarkersAssumption DEF EntryInv
<1>1. /\ pc'[a] = there /\ key[a] \in Key
      /\ \A b \in Auditors \ {a} :
            pc'[b] = pc[b] /\ (pc[b] \in Building => key[b] # key[a])
  BY OwnDirectory DEF Goto, Building, TypeOK, AuditTypeOK
<1>2. KeyInv'
  BY <1>1 DEF KeyInv
<1>3. TempInv'
  <2> SUFFICES ASSUME NEW k \in Key, NEW b \in Auditors, temp'[k].writer = b
               PROVE  pc'[b] \in Writing /\ key[b] = k
    BY DEF TempInv
  <2>1. CASE k = key[a]
    BY <1>1, <2>1
  <2>2. CASE k # key[a]
    BY <1>1, <2>2 DEF TempInv
  <2> QED
    BY <2>1, <2>2
<1>4. IndexInv'
  BY <1>1 DEF IndexInv
<1>5. \A k \in Key : index[k].state = "full" => index'[k].state = "full"
  BY <1>1
<1>6. BuildInv'
  <2> SUFFICES ASSUME NEW b \in Auditors PROVE BuildAt(b)'
    BY DEF BuildInv
  <2>1. CASE b = a
    BY <1>1, <2>1 DEF BuildAt
  <2>2. CASE b # a /\ pc[b] \in Building
    <3>1. key[b] \in Key \ {key[a]}
      BY <1>1, <2>2 DEF Building, TypeOK, AuditTypeOK
    <3> QED
      BY <1>1, <2>2, <3>1 DEF BuildInv, BuildAt
  <2>3. CASE b # a /\ pc[b] \notin Building
    <3>1. pc[b] \in {"point", "pointing"} => key[b] \in Key
      BY DEF TypeOK, AuditTypeOK
    <3> QED
      BY <1>1, <1>5, <2>3, <3>1 DEF BuildInv, BuildAt, Building, Writing
  <2> QED
    BY <2>1, <2>2, <2>3
<1>7. ServedInv'
  <2>1. \A b \in Auditors : pc[b] \in Served => key[b] \in Key
    BY DEF Served, TypeOK, AuditTypeOK
  <2> QED
    BY <1>1, <1>5, <2>1 DEF ServedInv, Served, Building
<1>8. LatestInv'
  BY <1>1 DEF LatestInv
<1> QED
  BY <1>2, <1>3, <1>4, <1>6, <1>7, <1>8

LEMMA NextEntryInv ==
    ASSUME OwnEntries
    PROVE  TypeOK /\ EntryInv /\ [Next]_vars => EntryInv'
<1> SUFFICES ASSUME TypeOK, EntryInv, [Next]_vars
             PROVE  EntryInv'
  OBVIOUS
<1> USE OwnEntries, ConstantsAssumption, MarkersAssumption
<1>1. ASSUME NEW a \in Auditors,
             \/ RequestIndex(a) \/ ReuseEntry(a) \/ MissEntry(a)
             \/ TruncateLatest(a) \/ WriteLatest(a) \/ Finish(a)
      PROVE  EntryInv'
  <2>1. UNCHANGED <<temp, index, corpus>> /\ pc[a] \notin Writing
    BY <1>1
       DEF RequestIndex, ReuseEntry, MissEntry, TruncateLatest, WriteLatest,
           Finish, At, entryVars, Writing
  <2>2. OnlyMoves(a)
    BY <1>1
       DEF RequestIndex, ReuseEntry, MissEntry, TruncateLatest, WriteLatest,
           Finish, Forget, KeepJob, Goto, OnlyMoves, TypeOK, AuditTypeOK
  <2>6. OwnKey(a)
    <3>1. CASE RequestIndex(a)
      BY <3>1, RequestOwnKey DEF EntryInv
    <3>2. CASE Finish(a)
      BY <3>2 DEF Finish, Forget, Goto, OwnKey, Building, TypeOK, AuditTypeOK
    <3>3. CASE ReuseEntry(a) \/ MissEntry(a) \/ TruncateLatest(a) \/ WriteLatest(a)
      BY <3>3, KeepsOwnKey
         DEF ReuseEntry, MissEntry, TruncateLatest, WriteLatest, KeepJob, At, Goto,
             Building, EntryInv, TypeOK, AuditTypeOK
    <3> QED
      BY <1>1, <3>1, <3>2, <3>3
  <2>3. pc'[a] \notin Writing \cup {"replace"}
    BY <1>1
       DEF RequestIndex, ReuseEntry, MissEntry, TruncateLatest, WriteLatest,
           Finish, Goto, Writing, TypeOK, AuditTypeOK
  <2>4. pc'[a] \in {"point", "pointing"} \cup Served => index[key'[a]].state = "full"
    BY <1>1
       DEF RequestIndex, ReuseEntry, MissEntry, TruncateLatest, WriteLatest,
           Finish, KeepJob, At, Goto, Current, EntryInv, IndexInv, BuildInv,
           BuildAt, Served, TypeOK, AuditTypeOK
  <2>5. latest' \in Key => index[latest'].state = "full"
    BY <1>1
       DEF RequestIndex, ReuseEntry, MissEntry, TruncateLatest, WriteLatest,
           Finish, At, EntryInv, LatestInv, BuildInv, BuildAt
  <2> QED
    BY <2>1, <2>2, <2>3, <2>4, <2>5, <2>6, QuietEntryInv
<1>2. ASSUME NEW a \in Auditors,
             ExtractBatch(a) \/ Resolve(a) \/ Hydrate(a)
      PROVE  EntryInv'
  <2>1. UNCHANGED <<key, latest>>
    BY <1>2 DEF ExtractBatch, Resolve, Hydrate, KeepJob
  <2>2. CASE Fail(a)
    BY <2>1, <2>2, FailEntryInv
  <2>3. CASE ~Fail(a)
    <3>1. /\ UNCHANGED <<temp, index, corpus>> /\ pc[a] \notin Writing
          /\ pc' = [pc EXCEPT ![a] = pc'[a]]
          /\ pc'[a] \in {"prepare", "hydrate", "done"}
      BY <1>2, <2>3
         DEF ExtractBatch, Resolve, Hydrate, At, Goto, entryVars, Writing,
             TypeOK, AuditTypeOK
    <3>2. OnlyMoves(a)
      BY <2>1, <3>1 DEF OnlyMoves, TypeOK, AuditTypeOK
    <3>3. /\ pc'[a] \in Building => pc[a] \in Building
          /\ pc'[a] \in Served => pc[a] \in Served
      BY <1>2, <3>1
         DEF ExtractBatch, Resolve, Hydrate, At, Goto, Fail, Building, Served,
             TypeOK, AuditTypeOK
    <3>4. OwnKey(a)
      BY <2>1, <3>3, KeepsOwnKey DEF EntryInv
    <3> QED
      BY <2>1, <3>1, <3>2, <3>3, <3>4, QuietEntryInv
         DEF Writing, EntryInv, LatestInv, ServedInv
  <2> QED
    BY <2>2, <2>3
<1>3. ASSUME NEW a \in Auditors, PrepareTemp(a)
      PROVE  EntryInv'
  <2> USE <1>3 DEF PrepareTemp, At, Writing, Building
  <2>1. key[a] \in Key /\ temp'[key[a]] = NoFile
    BY DEF TypeOK, EntryTypeOK, AuditTypeOK
  <2> QED
    BY <2>1, BuilderEntryInv
       DEF NoFile, KeepJob, EntryInv, IndexInv, TypeOK, EntryTypeOK
<1>4. ASSUME NEW a \in Auditors, OpenTemp(a)
      PROVE  EntryInv'
  <2> USE <1>4 DEF OpenTemp, At, Writing, Building
  <2>1. UNCHANGED <<key, latest>>
    BY DEF KeepJob
  <2>2. CASE Fail(a)
    BY <2>1, <2>2, FailEntryInv
  <2>3. CASE ~Fail(a)
    <3>1. /\ key[a] \in Key /\ temp'[key[a]].writer = a
          /\ UNCHANGED <<index, corpus>>
          /\ \A k \in Key \ {key[a]} : temp'[k] = temp[k]
          /\ Goto(a, IF Batched THEN "stream" ELSE "publish")
      BY <2>3 DEF TypeOK, EntryTypeOK, AuditTypeOK
    <3> QED
      BY <2>1, <3>1, BuilderEntryInv DEF EntryInv, IndexInv
  <2> QED
    BY <2>2, <2>3
<1>5. ASSUME NEW a \in Auditors, IndexStream(a) \/ PublishCorpus(a)
      PROVE  EntryInv'
  <2>1. /\ UNCHANGED <<key, latest>> /\ pc[a] \in Writing
        /\ key[a] \in Key
    BY <1>5
       DEF IndexStream, PublishCorpus, KeepJob, At, Writing, TypeOK, AuditTypeOK
  <2>2. CASE Fail(a)
    BY <2>1, <2>2, FailEntryInv
  <2>3. CASE ~Fail(a) /\ IndexStream(a)
    <3>1. Goto(a, "publish") /\ UNCHANGED <<temp, index, corpus>>
      BY <2>3 DEF IndexStream, entryVars
    <3> QED
      BY <2>1, <3>1, BuilderEntryInv
         DEF Writing, Building, EntryInv, IndexInv, BuildInv, BuildAt
  <2>4. CASE ~Fail(a) /\ PublishCorpus(a)
    <3>1. /\ Goto(a, "commit") /\ UNCHANGED <<temp, index>>
          /\ corpus' = [corpus EXCEPT ![key[a]] = extracted[a]]
          /\ extracted[a] # None
      BY <2>4 DEF PublishCorpus, At, TypeOK, AuditTypeOK
    <3>2. /\ corpus'[key[a]] # None
          /\ \A k \in Key \ {key[a]} : corpus'[k] = corpus[k]
      BY <2>1, <3>1 DEF TypeOK, EntryTypeOK
    <3> QED
      BY <2>1, <3>1, <3>2, BuilderEntryInv
         DEF Writing, Building, EntryInv, IndexInv, BuildInv, BuildAt
  <2> QED
    BY <1>5, <2>2, <2>3, <2>4
<1>6. ASSUME NEW a \in Auditors, CommitIndex(a)
      PROVE  EntryInv'
  <2> USE <1>6 DEF CommitIndex, At, Writing, Building
  <2>1. key[a] \in Key /\ temp[key[a]].writer = a /\ corpus[key[a]] # None
    BY DEF EntryInv, BuildInv, BuildAt, TypeOK, AuditTypeOK
  <2>2. \A k \in Key : index[k].writer # a
    BY DEF EntryInv, IndexInv
  <2>3. \A k \in Key \ {key[a]} : temp[k].writer # a
    BY DEF EntryInv, TempInv
  <2>4. /\ temp'[key[a]].writer = None /\ temp'[key[a]].state = "full"
        /\ \A k \in Key : index'[k] = index[k]
        /\ \A k \in Key \ {key[a]} : temp'[k] = temp[k]
    BY <2>1, <2>2, <2>3 DEF TypeOK, EntryTypeOK
  <2> QED
    BY <2>1, <2>4, BuilderEntryInv DEF KeepJob, EntryInv, IndexInv
<1>7. ASSUME NEW a \in Auditors, ReplaceFile(a)
      PROVE  EntryInv'
  <2> USE <1>7 DEF ReplaceFile, At, Writing, Building
  <2>1. UNCHANGED <<key, latest>>
    BY DEF KeepJob
  <2>2. CASE Fail(a)
    BY <2>1, <2>2, FailEntryInv
  <2>3. CASE ~Fail(a)
    <3>1. /\ key[a] \in Key /\ corpus[key[a]] # None
          /\ temp[key[a]].state = "full" /\ temp[key[a]].writer = None
      <4>1. \A b \in Auditors : temp[key[a]].writer # b
        BY OwnDirectory DEF EntryInv, TempInv, TypeOK, AuditTypeOK
      <4> QED
        BY <4>1
           DEF EntryInv, BuildInv, BuildAt, File, TypeOK, EntryTypeOK,
               AuditTypeOK
    <3>2. /\ index'[key[a]] = temp[key[a]] /\ temp'[key[a]].writer = None
          /\ \A k \in Key \ {key[a]} : /\ temp'[k] = temp[k]
                                       /\ index'[k] = index[k]
          /\ UNCHANGED corpus /\ Goto(a, "point")
      BY <2>3, <3>1 DEF NoFile, TypeOK, EntryTypeOK
    <3> QED
      BY <2>1, <3>1, <3>2, BuilderEntryInv
  <2> QED
    BY <2>2, <2>3
<1>8. ASSUME NEW a \in Auditors, WorkerFails(a)
      PROVE  EntryInv'
  BY <1>8, FailEntryInv DEF WorkerFails, KeepJob
<1>9. ASSUME NEW a \in Auditors, AuditorDies(a)
      PROVE  EntryInv'
  <2>1. OnlyMoves(a) /\ OwnKey(a) /\ pc'[a] = "idle"
    BY <1>9
       DEF AuditorDies, Goto, Forget, OnlyMoves, OwnKey, Building, TypeOK, AuditTypeOK
  <2> QED
    BY <1>9, <2>1, ClosingEntryInv DEF AuditorDies
<1>10. ASSUME NEW w \in Workspaces, EditSource(w) \/ LakeBuild(w)
       PROVE  EntryInv'
  BY <1>10
     DEF EditSource, LakeBuild, entryVars, auditVars, EntryInv, KeyInv, TempInv,
         IndexInv, BuildInv, BuildAt, ServedInv, LatestInv
<1>11. CASE UNCHANGED vars
  BY <1>11
     DEF vars, entryVars, auditVars, EntryInv, KeyInv, TempInv, IndexInv,
         BuildInv, BuildAt, ServedInv, LatestInv
<1>12. QED
  BY <1>1, <1>2, <1>3, <1>4, <1>5, <1>6, <1>7, <1>8, <1>9, <1>10, <1>11
     DEF Next, AuditorStep, OwnEntries

\* However many processes run and die, with one mathlib among them or several
\* versions of their sources, an entry the cache accepts is complete, as long as
\* nobody asks for an entry that another process is building and nobody cleans.
\* Outside mathlib, processes of different workspaces cannot do the former.
THEOREM CurrentEntriesComplete ==
    ASSUME OwnEntries
    PROVE  Spec => []CurrentEntryIsComplete
<1>1. TypeOK /\ EntryInv => CurrentEntryIsComplete
  BY DEF EntryInv, IndexInv, CurrentEntryIsComplete, Complete, Current
<1> QED
  BY <1>1, InitTypeOK, NextTypeOK, InitEntryInv, NextEntryInv, PTL DEF Spec

\* Under the same condition a pointer that parses leads to a complete entry:
\* write_latest comes after the rename, whoever is killed in between.
THEOREM LatestTargetsComplete ==
    ASSUME OwnEntries
    PROVE  Spec => []LatestTargetIsComplete
<1>1. TypeOK /\ EntryInv => LatestTargetIsComplete
  BY DEF EntryInv, IndexInv, LatestInv, LatestTargetIsComplete, Complete
<1> QED
  BY <1>1, InitTypeOK, NextTypeOK, InitEntryInv, NextEntryInv, PTL DEF Spec

\* And whoever reuses an entry, one of a mathlib that another project has
\* indexed among them, has a finished one as long as the job lasts.
THEOREM SharedReusesAreSafe ==
    ASSUME OwnEntries
    PROVE  Spec => []SharedReuseIsSafe
<1>1. TypeOK /\ EntryInv => SharedReuseIsSafe
  <2> SUFFICES ASSUME TypeOK, EntryInv, NEW a \in Auditors,
                      pc[a] \in {"point", "pointing"} \cup Served
               PROVE  Complete(key[a])
    BY DEF SharedReuseIsSafe, Served
  <2>1. key[a] \in Key
    BY DEF TypeOK, AuditTypeOK, Served
  <2>2. index[key[a]].state = "full"
    BY DEF EntryInv, BuildInv, BuildAt, ServedInv
  <2> QED
    BY <2>1, <2>2 DEF EntryInv, IndexInv, Complete
<1> QED
  BY <1>1, InitTypeOK, NextTypeOK, InitEntryInv, NextEntryInv, PTL DEF Spec

-----------------------------------------------------------------------------
(* One command at a time *)

\* Nobody but auditor a is at work.
Sole(a) ==
    /\ \A b \in Auditors \ {a} : pc[b] \in Resting
    /\ \A c \in Cleaners : cpc[c] = "idle"

\* There is one process at work at most.
SoleInv ==
    /\ \A a \in Auditors : pc[a] \notin Resting => Sole(a)
    /\ \A c, d \in Cleaners : cpc[c] # "idle" /\ cpc[d] # "idle" => c = d

\* What a directory looks like, whoever was killed in it: the index is absent
\* or wholly built, its temp file is open in the builder of that very key at
\* most, and only a cleanup or a fault parts it from its corpus.
EntryOK(k) ==
    /\ index[k].state \in {"absent", "full"} /\ index[k].writer = None
    /\ FilesIn(k) # {} => k \in dirs
    /\ \A a \in Auditors : temp[k].writer = a => pc[a] \in Writing /\ key[a] = k
    /\ index[k].state = "full" /\ corpus[k] = None =>
          faults > 0 \/ \E c \in Cleaners : cpc[c] = "remove" /\ victim[c] = k

DirsInv == \A k \in Key : EntryOK(k)

\* The pointer leads to a published index, is torn only in the hands of its
\* writer or after a fault, and is the one an auditor wrote until it has
\* followed it.
PointsOwn(a) ==
    /\ pc[a] = "resolve" => latest = key[a]
    /\ pc[a] \in {"hydrate", "done"} => opened[a] = key[a]

PointerInv ==
    /\ LatestInv
    /\ latest = Torn => faults > 0 \/ \E a \in Auditors : pc[a] = "pointing"
    /\ \A a \in Auditors : PointsOwn(a)

\* A cleaner keeps the entry the pointer leads to, and has listed all that is
\* in the directory it removes.
SweepOK(c) ==
    /\ cpc[c] = "list" => {latest} \cap Key \subseteq protected[c]
    /\ cpc[c] \in {"sweep", "remove"} => latest \notin removable[c]
    /\ cpc[c] = "remove" => victim[c] \in removable[c] /\ FilesIn(victim[c]) \subseteq todo[c]

SweepInv == \A c \in Cleaners : SweepOK(c)

SoloInv == SoleInv /\ DirsInv /\ BuildInv /\ PointerInv /\ SweepInv

\* Without --force a build begins where there is no index; the index it
\* publishes has the rows of its corpus.
RowsOK(a) ==
    /\ ~force[a]
    /\ pc[a] \in {"extract", "prepare", "open", "stream", "publish", "commit", "replace"} =>
          index[key[a]].state # "full"
    /\ pc[a] = "commit" => corpus[key[a]] = extracted[a]
    /\ pc[a] = "replace" => temp[key[a]].rows = corpus[key[a]]

RowsInv == EntryIsOneBuild /\ \A a \in Auditors : RowsOK(a)

\* Which files a directory has, one by one.
LEMMA FilesOf ==
    ASSUME NEW k
    PROVE  /\ FilesIn(k) # {} <=> Exists(temp, k) \/ Exists(index, k) \/ corpus[k] # None
           /\ \A S : FilesIn(k) \subseteq S <=>
                 /\ Exists(temp, k) => "temp" \in S
                 /\ Exists(index, k) => "index" \in S
                 /\ corpus[k] # None => "corpus" \in S
BY DEF FilesIn, FileNames

\* The same after a step.
LEMMA FilesOfNext ==
    ASSUME NEW k
    PROVE  FilesIn(k)' # {} <=> Exists(temp, k)' \/ Exists(index, k)' \/ corpus'[k] # None
BY DEF FilesIn, FileNames

\* An empty cache.
LEMMA InitSoloInv == Init => SoloInv
<1> SUFFICES ASSUME Init PROVE SoloInv
  OBVIOUS
<1> USE MarkersAssumption DEF Init
<1>1. SoleInv
  BY DEF SoleInv, Sole, Resting
<1>2. DirsInv
  <2> SUFFICES ASSUME NEW k \in Key PROVE EntryOK(k)
    BY DEF DirsInv
  <2>1. temp[k] = NoFile /\ index[k] = NoFile /\ corpus[k] = None
    OBVIOUS
  <2> QED
    BY <2>1, FilesOf DEF EntryOK, Exists, NoFile
<1>3. BuildInv /\ PointerInv /\ SweepInv
  BY DEF BuildInv, BuildAt, Writing, PointerInv, LatestInv, PointsOwn, SweepInv, SweepOK
<1> QED
  BY <1>1, <1>2, <1>3 DEF SoloInv

\* A step of the only process at work: what it owes.
LEMMA SoloStep ==
    ASSUME SoloInv, NEW a \in Auditors, Sole(a), OnlyMoves(a), UNCHANGED cpc,
           \A b \in Auditors \ {a} : opened'[b] = opened[b],
           DirsInv', BuildAt(a)', LatestInv', PointsOwn(a)',
           latest' = Torn => faults' > 0 \/ pc'[a] = "pointing"
    PROVE  SoloInv'
<1> USE DEF SoloInv, OnlyMoves
<1>1. \A b \in Auditors \ {a} : pc'[b] = pc[b] /\ pc[b] \in Resting
  BY DEF Sole
<1>2. SoleInv'
  BY <1>1 DEF SoleInv, Sole
<1>3. BuildInv'
  BY <1>1 DEF BuildInv, BuildAt, Resting, Writing
<1>4. PointerInv'
  BY <1>1 DEF PointerInv, PointsOwn, Resting
<1>5. SweepInv'
  BY DEF SweepInv, SweepOK, Sole
<1> QED
  BY <1>2, <1>3, <1>4, <1>5

\* A file is written in directory key[a] only.
LEMMA SoloDirs ==
    ASSUME TypeOK, SoloInv, NEW a \in Auditors, Sole(a), OnlyMoves(a),
           UNCHANGED <<cpc, faults>>, dirs \subseteq dirs',
           \A k \in Key \ {key[a]} : /\ temp'[k] = temp[k] /\ index'[k] = index[k]
                                     /\ corpus'[k] = corpus[k],
           \A k \in Key : k = key[a] => EntryOK(k)'
    PROVE  DirsInv'
<1> SUFFICES ASSUME NEW k \in Key, k # key[a] PROVE EntryOK(k)'
  BY DEF DirsInv
<1>1. EntryOK(k) /\ temp'[k] = temp[k] /\ index'[k] = index[k] /\ corpus'[k] = corpus[k]
  BY DEF SoloInv, DirsInv
<1>2. \A b \in Auditors : temp[k].writer # b
  BY <1>1 DEF EntryOK, Sole, Resting, Writing
<1>3. FilesIn(k)' # {} <=> FilesIn(k) # {}
  BY <1>1, FilesOf, FilesOfNext DEF Exists
<1>4. index[k].state = "full" /\ corpus[k] = None => faults' > 0
  BY <1>1 DEF EntryOK, Sole
<1> QED
  BY <1>1, <1>2, <1>3, <1>4 DEF EntryOK

\* A step that touches no file.
LEMMA SoloQuiet ==
    ASSUME TypeOK, SoloInv, NEW a \in Auditors, Sole(a), OnlyMoves(a),
           UNCHANGED <<entryVars, cpc, faults>>,
           pc[a] \in Writing => pc'[a] \in Writing /\ key'[a] = key[a]
    PROVE  DirsInv'
<1> SUFFICES ASSUME NEW k \in Key PROVE EntryOK(k)'
  BY DEF DirsInv
<1>1. EntryOK(k)
  BY DEF SoloInv, DirsInv
<1>2. index[k].state = "full" /\ corpus[k] = None => faults' > 0
  BY <1>1 DEF EntryOK, Sole
<1>3. FilesIn(k)' = FilesIn(k)
  BY DEF FilesIn, Exists, entryVars
<1> QED
  BY <1>1, <1>2, <1>3 DEF EntryOK, OnlyMoves, entryVars

\* An error return, or a death.
LEMMA SoloCloses ==
    ASSUME TypeOK, SoloInv, NEW a \in Auditors, Sole(a), OnlyMoves(a),
           \A b \in Auditors \ {a} : opened'[b] = opened[b],
           pc'[a] \in {"failed", "idle"},
           temp' = Closed(temp, a), index' = Closed(index, a),
           UNCHANGED <<dirs, corpus, latest, cpc>>,
           faults > 0 => faults' > 0, pc[a] # "pointing" \/ faults' > 0
    PROVE  SoloInv'
<1> USE MarkersAssumption DEF SoloInv
<1>1. index' = index
  <2>1. \A k \in Key : index[k].writer # a
    BY DEF DirsInv, EntryOK
  <2> QED
    BY <2>1 DEF Closed, TypeOK, EntryTypeOK
<1>2. \A k \in Key : /\ temp'[k].state = temp[k].state
                     /\ \A b \in Auditors : temp'[k].writer # b
  <2> SUFFICES ASSUME NEW k \in Key
               PROVE  /\ temp'[k].state = temp[k].state
                      /\ \A b \in Auditors : temp'[k].writer # b
    OBVIOUS
  <2>1. \A b \in Auditors \ {a} : temp[k].writer # b
    BY DEF DirsInv, EntryOK, Sole, Resting, Writing
  <2> QED
    BY <2>1 DEF Closed, TypeOK, EntryTypeOK, File
<1>3. DirsInv'
  <2> SUFFICES ASSUME NEW k \in Key PROVE EntryOK(k)'
    BY DEF DirsInv
  <2>1. EntryOK(k)
    BY DEF DirsInv
  <2>2. FilesIn(k)' # {} <=> FilesIn(k) # {}
    BY <1>1, <1>2, FilesOf, FilesOfNext DEF Exists
  <2>3. index[k].state = "full" /\ corpus[k] = None => faults' > 0
    BY <2>1 DEF EntryOK, Sole
  <2> QED
    BY <1>1, <1>2, <2>1, <2>2, <2>3 DEF EntryOK
<1>4. LatestInv'
  BY <1>1 DEF PointerInv, LatestInv
<1>5. BuildAt(a)' /\ PointsOwn(a)'
  BY DEF BuildAt, PointsOwn, Writing
<1>6. latest' = Torn => faults' > 0
  BY DEF PointerInv, Sole, Resting
<1> QED
  BY <1>3, <1>4, <1>5, <1>6, SoloStep

\* An error return.
LEMMA SoloFails ==
    ASSUME TypeOK, SoloInv, NEW a \in Auditors, Sole(a), Fail(a), pc[a] # "pointing",
           UNCHANGED <<key, opened, latest, cpc>>, faults > 0 => faults' > 0
    PROVE  SoloInv'
<1>1. OnlyMoves(a) /\ pc'[a] = "failed"
  BY DEF Fail, Goto, OnlyMoves, TypeOK, AuditTypeOK
<1> QED
  BY <1>1, SoloCloses DEF Fail

\* Asking, the lookup, and the pointer.
LEMMA SoloJob ==
    ASSUME TypeOK, SoloInv, NEW a \in Auditors, Sole(a),
           \/ RequestIndex(a) \/ ReuseEntry(a) \/ MissEntry(a)
           \/ TruncateLatest(a) \/ WriteLatest(a)
    PROVE  SoloInv'
<1> USE MarkersAssumption DEF SoloInv, At
<1>1. /\ UNCHANGED <<entryVars, cpc, faults, opened>> /\ OnlyMoves(a) /\ pc[a] \notin Writing
  BY DEF RequestIndex, ReuseEntry, MissEntry, TruncateLatest, WriteLatest, KeepJob, Goto,
         AuditorOnly, cleanerVars, OnlyMoves, Writing, TypeOK, AuditTypeOK
<1>2. DirsInv'
  BY <1>1, SoloQuiet
<1>3. pc[a] # "idle" => key[a] \in Key
  BY JobKeyType DEF TypeOK
<1>4. /\ pc'[a] \in {"lookup", "point", "prepare", "extract", "pointing", "resolve"}
      /\ pc'[a] \in {"point", "pointing"} =>
            key'[a] = key[a] /\ index[key[a]].state = "full"
      /\ latest' \in {latest, Torn, key[a]}
      /\ latest' = Torn => latest = Torn \/ pc'[a] = "pointing"
      /\ pc'[a] = "resolve" => latest' = key'[a]
      /\ latest' = key[a] => latest = key[a] \/ (key[a] \in Key /\ index[key[a]].state = "full")
  <2>1. CASE RequestIndex(a)
    BY <2>1 DEF RequestIndex, Goto, TypeOK, AuditTypeOK
  <2>2. CASE ReuseEntry(a)
    BY <1>3, <2>2 DEF ReuseEntry, Goto, KeepJob, Current, DirsInv, EntryOK, TypeOK, AuditTypeOK
  <2>3. CASE MissEntry(a)
    BY <2>3 DEF MissEntry, Goto, TypeOK, AuditTypeOK
  <2>4. CASE TruncateLatest(a) \/ WriteLatest(a)
    BY <1>3, <2>4
       DEF TruncateLatest, WriteLatest, Goto, KeepJob, BuildInv, BuildAt, TypeOK, AuditTypeOK
  <2> QED
    BY <2>1, <2>2, <2>3, <2>4
<1>5. LatestInv'
  BY <1>1, <1>4 DEF PointerInv, LatestInv, entryVars
<1>6. BuildAt(a)' /\ PointsOwn(a)'
  BY <1>1, <1>4 DEF BuildAt, PointsOwn, Writing, entryVars
<1>7. latest' = Torn => faults' > 0 \/ pc'[a] = "pointing"
  <2>1. latest = Torn => faults > 0 \/ pc[a] = "pointing"
    BY DEF PointerInv, Sole, Resting
  <2>2. CASE WriteLatest(a)
    BY <1>3, <2>2 DEF WriteLatest
  <2>3. CASE ~WriteLatest(a)
    BY <1>1, <1>4, <2>1, <2>3
       DEF RequestIndex, ReuseEntry, MissEntry, TruncateLatest
  <2> QED
    BY <2>2, <2>3
<1> QED
  BY <1>1, <1>2, <1>5, <1>6, <1>7, SoloStep

\* Rows are read, or an entry.
LEMMA SoloReader ==
    ASSUME TypeOK, SoloInv, NEW a \in Auditors, Sole(a),
           ExtractBatch(a) \/ IndexStream(a) \/ Resolve(a) \/ Hydrate(a)
    PROVE  SoloInv'
<1> USE DEF SoloInv, At
<1>1. /\ UNCHANGED <<key, latest, cpc, faults>>
      /\ pc[a] \in {"extract", "stream", "resolve", "hydrate"} /\ key[a] \in Key
  BY JobKeyType
     DEF ExtractBatch, IndexStream, Resolve, Hydrate, KeepJob, AuditorOnly, cleanerVars, TypeOK
<1>2. CASE Fail(a)
  <2>1. pc'[a] = "failed"
    BY <1>2, FailEnds
  <2>2. UNCHANGED opened
    BY <1>2, <2>1 DEF ExtractBatch, IndexStream, Resolve, Hydrate, KeepJob, Goto,
                      TypeOK, AuditTypeOK
  <2> QED
    BY <1>1, <1>2, <2>2, SoloFails
<1>3. CASE ~Fail(a)
  <2>1. /\ UNCHANGED entryVars
        /\ \/ /\ UNCHANGED opened
              /\ \/ pc[a] = "extract" /\ pc' = [pc EXCEPT ![a] = "prepare"]
                 \/ pc[a] = "stream" /\ pc' = [pc EXCEPT ![a] = "publish"]
                 \/ pc[a] = "hydrate" /\ pc' = [pc EXCEPT ![a] = "done"]
           \/ /\ opened' = [opened EXCEPT ![a] = latest]
              /\ pc[a] = "resolve" /\ pc' = [pc EXCEPT ![a] = "hydrate"]
    BY <1>3 DEF ExtractBatch, IndexStream, Resolve, Hydrate, KeepJob, Goto
  <2>2. /\ OnlyMoves(a) /\ \A b \in Auditors \ {a} : opened'[b] = opened[b]
        /\ pc'[a] \in {"prepare", "publish", "done", "hydrate"}
        /\ pc[a] = "stream" <=> pc'[a] = "publish"
    BY <1>1, <2>1 DEF OnlyMoves, TypeOK, AuditTypeOK
  <2>3. DirsInv'
    BY <1>1, <2>1, <2>2, SoloQuiet DEF Writing
  <2>4. PointsOwn(a) /\ BuildAt(a) /\ LatestInv /\ (latest = Torn => faults > 0)
    BY <1>1 DEF PointerInv, BuildInv, Sole, Resting
  <2>5. PointsOwn(a)'
    BY <1>1, <2>1, <2>2, <2>4 DEF PointsOwn, TypeOK, AuditTypeOK
  <2>6. BuildAt(a)'
    BY <1>1, <2>1, <2>2, <2>4 DEF BuildAt, Writing, entryVars
  <2>7. LatestInv'
    BY <1>1, <2>1, <2>4 DEF LatestInv, entryVars
  <2> QED
    BY <1>1, <2>2, <2>3, <2>4, <2>5, <2>6, <2>7, SoloStep
<1> QED
  BY <1>2, <1>3

\* A step of a builder that writes in its directory: what it owes.
LEMMA SoloWrites ==
    ASSUME TypeOK, SoloInv, NEW a \in Auditors, Sole(a),
           pc[a] \notin Resting \cup {"pointing"},
           NEW there \in {"open", "stream", "publish", "commit", "replace", "point"},
           Goto(a, there), UNCHANGED <<key, opened, latest, cpc, faults>>,
           dirs \subseteq dirs',
           \A k \in Key \ {key[a]} : /\ temp'[k] = temp[k] /\ index'[k] = index[k]
                                     /\ corpus'[k] = corpus[k],
           index'[key[a]].state \in {"absent", "full"},
           index'[key[a]].writer = None,
           index[key[a]].state = "full" => index'[key[a]].state = "full",
           key[a] \in dirs',
           temp'[key[a]].writer \in {a, None},
           temp'[key[a]].writer = a <=> there \in Writing,
           index'[key[a]].state = "full" /\ corpus'[key[a]] = None => faults > 0,
           there = "replace" => temp'[key[a]].state = "full",
           there \in {"commit", "replace"} => corpus'[key[a]] # None,
           there = "point" => index'[key[a]].state = "full"
    PROVE  SoloInv'
<1> USE MarkersAssumption DEF SoloInv
<1>1. OnlyMoves(a) /\ pc'[a] = there
  BY DEF Goto, OnlyMoves, TypeOK, AuditTypeOK
<1>2. \A k \in Key : k = key[a] => EntryOK(k)'
  BY <1>1 DEF EntryOK, OnlyMoves
<1>3. DirsInv'
  BY <1>1, <1>2, SoloDirs
<1>4. BuildAt(a)'
  BY <1>1 DEF BuildAt
<1>5. LatestInv'
  BY DEF PointerInv, LatestInv
<1>6. latest = Torn => faults > 0
  BY DEF PointerInv, Sole, Resting
<1>7. PointsOwn(a)'
  BY <1>1 DEF PointsOwn
<1> QED
  BY <1>1, <1>3, <1>4, <1>5, <1>6, <1>7, SoloStep

\* From the directory to the published index.
LEMMA SoloBuilder ==
    ASSUME TypeOK, SoloInv, NEW a \in Auditors, Sole(a),
           \/ PrepareTemp(a) \/ OpenTemp(a) \/ PublishCorpus(a)
           \/ CommitIndex(a) \/ ReplaceFile(a)
    PROVE  SoloInv'
<1> USE MarkersAssumption DEF SoloInv, At
<1> DEFINE k == key[a]
<1>1. /\ UNCHANGED <<key, opened, latest, cpc, faults>> /\ k \in Key
      /\ pc[a] \notin Resting \cup {"pointing"}
  BY JobKeyType
     DEF PrepareTemp, OpenTemp, PublishCorpus, CommitIndex, ReplaceFile, KeepJob, AuditorOnly,
         cleanerVars, Resting, TypeOK
<1>2. /\ EntryOK(k) /\ BuildAt(a) /\ temp[k] \in File /\ index[k] \in File
      /\ temp \in [Key -> File] /\ index \in [Key -> File]
      /\ corpus \in [Key -> Versions \cup {None}] /\ dirs \subseteq Key
  BY <1>1 DEF DirsInv, BuildInv, TypeOK, EntryTypeOK
<1>3. /\ index[k].state \in {"absent", "full"} /\ index[k].writer = None
      /\ index[k].state = "full" /\ corpus[k] = None => faults > 0
      /\ temp[k].writer \in {a, None}
      /\ temp[k].writer = a => pc[a] \in Writing
      /\ k \notin dirs => /\ temp[k].state = "absent" /\ index[k].state = "absent"
                          /\ corpus[k] = None
  <2>1. \A b \in Auditors \ {a} : temp[k].writer # b
    BY <1>2 DEF EntryOK, Sole, Resting, Writing
  <2>2. temp[k].writer \in Auditors \cup {None}
    BY <1>2 DEF File
  <2> QED
    BY <1>2, <2>1, <2>2, FilesOf DEF EntryOK, Sole, Exists
<1>4. CASE Fail(a)
  BY <1>1, <1>4, SoloFails
<1> HIDE DEF k
<1>5. CASE PrepareTemp(a)
  <2>1. /\ Goto(a, "open") /\ dirs' = dirs \cup {k}
        /\ temp' = [temp EXCEPT ![k] = NoFile] /\ UNCHANGED <<index, corpus>>
    BY <1>5 DEF PrepareTemp, k
  <2>2. temp'[k].writer = None /\ \A x \in Key \ {k} : temp'[x] = temp[x]
    BY <1>1, <1>2, <2>1 DEF NoFile
  <2> QED
    BY <1>1, <1>3, <2>1, <2>2, SoloWrites DEF Writing, k
<1>6. CASE OpenTemp(a) /\ ~Fail(a)
  <2>1. PICK there \in {"stream", "publish"} : Goto(a, there)
    BY <1>6 DEF OpenTemp
  <2>2. /\ k \in dirs /\ temp'[k].writer = a /\ UNCHANGED <<dirs, index, corpus>>
        /\ \A x \in Key \ {k} : temp'[x] = temp[x]
    BY <1>1, <1>2, <1>6 DEF OpenTemp, k
  <2> QED
    BY <1>1, <1>3, <2>1, <2>2, SoloWrites DEF Writing, k
<1>7. CASE PublishCorpus(a) /\ ~Fail(a)
  <2>1. /\ k \in dirs /\ pc[a] = "publish" /\ Goto(a, "commit")
        /\ corpus' = [corpus EXCEPT ![k] = extracted[a]] /\ UNCHANGED <<dirs, temp, index>>
    BY <1>7 DEF PublishCorpus, k
  <2>2. /\ corpus'[k] # None /\ \A x \in Key \ {k} : corpus'[x] = corpus[x]
    BY <1>1, <1>2, <2>1 DEF TypeOK, AuditTypeOK
  <2>3. temp[k].writer = a
    BY <1>2, <2>1 DEF BuildAt, Writing, k
  <2> QED
    BY <1>1, <1>3, <2>1, <2>2, <2>3, SoloWrites DEF Writing, k
<1>8. CASE CommitIndex(a)
  <2>1. pc[a] = "commit" /\ Goto(a, "replace") /\ UNCHANGED <<dirs, corpus>>
    BY <1>8 DEF CommitIndex
  <2>2. temp[k].writer = a /\ corpus[k] # None
    BY <1>2, <2>1 DEF BuildAt, Writing, k
  <2>3. /\ \A x \in Key : index[x].writer # a
        /\ \A x \in Key \ {k} : temp[x].writer # a
    BY DEF DirsInv, EntryOK, k
  <2>4. /\ temp'[k].state = "full" /\ temp'[k].writer = None
        /\ \A x \in Key : index'[x] = index[x]
        /\ \A x \in Key \ {k} : temp'[x] = temp[x]
    BY <1>1, <1>2, <1>8, <2>2, <2>3 DEF CommitIndex
  <2>5. k \in dirs
    BY <1>3, <2>2
  <2> QED
    BY <1>1, <1>3, <2>1, <2>2, <2>4, <2>5, SoloWrites DEF Writing, k
<1>9. CASE ReplaceFile(a) /\ ~Fail(a)
  <2>1. /\ pc[a] = "replace" /\ Goto(a, "point") /\ UNCHANGED <<dirs, corpus>>
        /\ index' = [index EXCEPT ![k] = temp[k]] /\ temp' = [temp EXCEPT ![k] = NoFile]
    BY <1>9 DEF ReplaceFile, k
  <2>2. temp[k].state = "full" /\ corpus[k] # None /\ temp[k].writer = None
    BY <1>2, <1>3, <2>1 DEF BuildAt, Writing, k
  <2>3. /\ index'[k] = temp[k] /\ temp'[k] = NoFile
        /\ \A x \in Key \ {k} : temp'[x] = temp[x] /\ index'[x] = index[x]
    BY <1>1, <1>2, <2>1
  <2>4. k \in dirs
    BY <1>3, <2>2
  <2> QED
    BY <1>1, <2>1, <2>2, <2>3, <2>4, SoloWrites DEF Writing, NoFile, k
<1> QED
  BY <1>4, <1>5, <1>6, <1>7, <1>8, <1>9

\* The only process at work is a cleaner: what its step owes.
LEMMA SoloSweep ==
    ASSUME SoloInv, NEW c \in Cleaners, \A a \in Auditors : pc[a] \in Resting,
           \A d \in Cleaners \ {c} : cpc[d] = "idle" /\ cpc'[d] = "idle",
           UNCHANGED <<pc, key, opened, latest>>, faults > 0 => faults' > 0,
           DirsInv', LatestInv', SweepOK(c)'
    PROVE  SoloInv'
<1> USE DEF SoloInv
<1>1. SoleInv'
  BY DEF SoleInv
<1>2. BuildInv'
  BY DEF BuildInv, BuildAt, Resting, Writing
<1>3. PointerInv'
  BY DEF PointerInv, PointsOwn
<1>4. SweepInv'
  BY DEF SweepInv, SweepOK
<1> QED
  BY <1>1, <1>2, <1>3, <1>4

\* It looks, or stops.
LEMMA SoloLooks ==
    ASSUME OneAtATime, TypeOK, SoloInv, NEW c \in Cleaners,
           ReadProtected(c) \/ ListDirs(c) \/ EnterDir(c) \/ SweepDone(c) \/ CleanerDies(c)
    PROVE  SoloInv'
<1> USE MarkersAssumption DEF SoloInv
<1>1. /\ \A a \in Auditors : pc[a] \in Resting
      /\ \A d \in Cleaners \ {c} : cpc[d] = "idle" /\ cpc'[d] = "idle"
  BY DEF ReadProtected, ListDirs, EnterDir, SweepDone, CleanerDies, EndSweep, Alone, SoleInv,
         Sole, TypeOK, CleanerTypeOK
<1>2. /\ UNCHANGED <<pc, key, opened, latest, entryVars>> /\ faults \in 0 .. MaxFaults
      /\ faults' = faults \/ CleanerDies(c)
  BY DEF ReadProtected, ListDirs, EnterDir, SweepDone, CleanerDies, CleanerOnly, auditVars,
         TypeOK, EntryTypeOK
<1>3. CleanerDies(c) => faults' = faults + 1
  BY DEF CleanerDies
<1>4. (faults > 0 => faults' > 0) /\ (CleanerDies(c) => faults' > 0)
  BY <1>2, <1>3, ConstantsAssumption
<1>5. cpc[c] = "remove" => CleanerDies(c)
  BY DEF ReadProtected, ListDirs, EnterDir, SweepDone
<1>6. DirsInv'
  <2> SUFFICES ASSUME NEW k \in Key PROVE EntryOK(k)'
    BY DEF DirsInv
  <2>1. EntryOK(k)
    BY DEF DirsInv
  <2>2. FilesIn(k)' = FilesIn(k)
    BY <1>2 DEF FilesIn, Exists, entryVars
  <2>3. index[k].state = "full" /\ corpus[k] = None => faults' > 0
    <3>1. \A d \in Cleaners : cpc[d] = "remove" => d = c
      BY <1>1
    <3> QED
      BY <1>4, <1>5, <2>1, <3>1 DEF EntryOK
  <2> QED
    BY <1>2, <2>1, <2>2, <2>3 DEF EntryOK, entryVars
<1>7. LatestInv'
  BY <1>2 DEF PointerInv, LatestInv, entryVars
<1>8. SweepOK(c)'
  <2> USE DEF TypeOK, CleanerTypeOK, EntryTypeOK
  <2>1. CASE ReadProtected(c)
    BY <2>1 DEF ReadProtected, SweepOK
  <2>2. CASE ListDirs(c)
    <3>1. cpc'[c] = "sweep" /\ removable'[c] = dirs \ protected[c] /\ latest' = latest
      BY <2>2 DEF ListDirs
    <3>2. {latest} \cap Key \subseteq protected[c]
      BY <2>2 DEF ListDirs, SweepInv, SweepOK
    <3> QED
      BY <3>1, <3>2 DEF SweepOK
  <2>3. CASE cpc'[c] = "remove"
    <3>1. /\ EnterDir(c) /\ removable' = removable /\ latest \notin removable[c]
          /\ victim'[c] \in removable[c]
          /\ todo'[c] = FilesIn(victim'[c])
      BY <2>3 DEF ReadProtected, ListDirs, EnterDir, SweepDone, CleanerDies, EndSweep,
                  SweepInv, SweepOK
    <3>2. FilesIn(victim[c])' = FilesIn(victim'[c])
      BY <1>2 DEF FilesIn, Exists, entryVars
    <3> QED
      BY <1>2, <2>3, <3>1, <3>2 DEF SweepOK
  <2>4. CASE (EnterDir(c) \/ SweepDone(c) \/ CleanerDies(c)) /\ cpc'[c] # "remove"
    <3>1. cpc'[c] = "idle"
      BY <2>4 DEF EnterDir, SweepDone, CleanerDies, EndSweep
    <3> QED
      BY <3>1 DEF SweepOK
  <2> QED
    BY <2>1, <2>2, <2>3, <2>4
<1> QED
  BY <1>1, <1>2, <1>4, <1>6, <1>7, <1>8, SoloSweep

\* It removes: a file, or in the end the directory.
LEMMA SoloRemoves ==
    ASSUME TypeOK, SoloInv, NEW c \in Cleaners, RemoveFile(c) \/ RemoveDir(c)
    PROVE  SoloInv'
<1> USE MarkersAssumption DEF SoloInv
<1> DEFINE v == victim[c]
<1>1. /\ cpc[c] = "remove" /\ v \in Key /\ v # latest /\ v \in removable[c]
      /\ latest \notin removable[c] /\ FilesIn(v) \subseteq todo[c]
  BY DEF RemoveFile, RemoveDir, SweepInv, SweepOK, TypeOK, CleanerTypeOK
<1>2. /\ \A a \in Auditors : pc[a] \in Resting
      /\ \A d \in Cleaners \ {c} : cpc[d] = "idle" /\ cpc'[d] = "idle"
  BY <1>1 DEF RemoveFile, RemoveDir, EndSweep, SoleInv, Sole, TypeOK, CleanerTypeOK
<1>3. /\ UNCHANGED <<pc, key, opened, latest, faults>>
      /\ \A k \in Key \ {v} : temp'[k] = temp[k] /\ index'[k] = index[k] /\ corpus'[k] = corpus[k]
  BY <1>1 DEF RemoveFile, RemoveDir, CleanerOnly, auditVars, TypeOK, EntryTypeOK
<1>4. \A k \in Key \ {v} : EntryOK(k)'
  <2> SUFFICES ASSUME NEW k \in Key, k # v PROVE EntryOK(k)'
    OBVIOUS
  <2>1. EntryOK(k)
    BY DEF DirsInv
  <2>2. k \in dirs => k \in dirs'
    BY DEF RemoveFile, RemoveDir
  <2>3. FilesIn(k)' # {} <=> FilesIn(k) # {}
    BY <1>3, FilesOf, FilesOfNext DEF Exists
  <2>4. index[k].state = "full" /\ corpus[k] = None => faults > 0
    <3>1. \A d \in Cleaners : cpc[d] = "remove" => d = c
      BY <1>2
    <3> QED
      BY <2>1, <3>1 DEF EntryOK
  <2> QED
    BY <1>3, <2>1, <2>2, <2>3, <2>4 DEF EntryOK
<1>5. LatestInv'
  BY <1>1, <1>3 DEF PointerInv, LatestInv
<1>6. /\ EntryOK(v) /\ temp \in [Key -> File] /\ index \in [Key -> File]
      /\ corpus \in [Key -> Versions \cup {None}]
      /\ \A b \in Auditors : temp[v].writer # b
  BY <1>1, <1>2 DEF DirsInv, EntryOK, Resting, Writing, TypeOK, EntryTypeOK
<1> HIDE DEF v
<1>7. CASE RemoveFile(c)
  <2>1. PICK f \in todo[c] :
          /\ todo' = [todo EXCEPT ![c] = @ \ {f}]
          /\ temp' = IF f = "temp" THEN [temp EXCEPT ![v] = NoFile] ELSE temp
          /\ index' = IF f = "index" THEN [index EXCEPT ![v] = NoFile] ELSE index
          /\ corpus' = IF f = "corpus" THEN [corpus EXCEPT ![v] = None] ELSE corpus
    BY <1>7 DEF RemoveFile, v
  <2>2. UNCHANGED <<cpc, dirs, removable, victim>>
    BY <1>7 DEF RemoveFile
  <2>3. todo'[c] = todo[c] \ {f}
    BY <2>1 DEF TypeOK, CleanerTypeOK
  <2>4. /\ temp'[v] = IF f = "temp" THEN NoFile ELSE temp[v]
        /\ index'[v] = IF f = "index" THEN NoFile ELSE index[v]
        /\ corpus'[v] = IF f = "corpus" THEN None ELSE corpus[v]
    BY <1>1, <1>6, <2>1
  <2>5. /\ temp'[v].state # "absent" => temp[v].state # "absent" /\ f # "temp"
        /\ index'[v].state # "absent" => index[v].state # "absent" /\ f # "index"
        /\ corpus'[v] # None => corpus[v] # None /\ f # "corpus"
    BY <2>4 DEF NoFile
  <2>6. /\ FilesIn(v)' \subseteq todo'[c]
        /\ FilesIn(v)' # {} => FilesIn(v) # {}
    <3>1. FilesIn(v) # {} /\ FilesIn(v) \subseteq todo[c] =>
             /\ temp[v].state # "absent" => "temp" \in todo[c]
             /\ index[v].state # "absent" => "index" \in todo[c]
             /\ corpus[v] # None => "corpus" \in todo[c]
      BY FilesOf DEF Exists
    <3>2. v' = v
      BY <2>2 DEF v
    <3>3. FilesIn(v)' = {g \in FileNames : \/ g = "temp" /\ temp'[v].state # "absent"
                                           \/ g = "index" /\ index'[v].state # "absent"
                                           \/ g = "corpus" /\ corpus'[v] # None}
      BY <3>2 DEF FilesIn, Exists
    <3>4. FilesIn(v) = {g \in FileNames : \/ g = "temp" /\ temp[v].state # "absent"
                                          \/ g = "index" /\ index[v].state # "absent"
                                          \/ g = "corpus" /\ corpus[v] # None}
      BY DEF FilesIn, Exists
    <3> QED
      BY <1>1, <2>3, <2>5, <3>3, <3>4
  <2>7. \A k \in {v} : EntryOK(k)'
    <3> SUFFICES ASSUME NEW k \in {v} PROVE EntryOK(k)'
      OBVIOUS
    <3>1. v' = v /\ k = v
      BY <2>2 DEF v
    <3>2. FilesIn(k)' = FilesIn(v)'
      BY <3>1 DEF FilesIn, Exists
    <3>3. \A b \in Auditors : temp'[v].writer # b
      BY <1>6, <2>4 DEF NoFile
    <3>4. index'[v].state \in {"absent", "full"} /\ index'[v].writer = None
      BY <1>6, <2>4 DEF EntryOK, NoFile
    <3>5. cpc'[c] = "remove" /\ victim'[c] = v
      BY <1>1, <2>2 DEF v
    <3> QED
      BY <1>6, <2>2, <2>6, <3>1, <3>2, <3>3, <3>4, <3>5 DEF EntryOK
  <2>8. SweepOK(c)'
    BY <1>1, <1>3, <2>2, <2>6 DEF SweepOK, v
  <2>9. DirsInv'
    BY <1>4, <2>7 DEF DirsInv
  <2> QED
    BY <1>2, <1>3, <1>5, <2>8, <2>9, SoloSweep
<1>8. CASE RemoveDir(c)
  <2>1. /\ todo[c] = {} /\ UNCHANGED <<temp, index, corpus>>
        /\ dirs' \in {dirs, dirs \ {v}}
        /\ \/ cpc'[c] = "idle"
           \/ cpc'[c] = "sweep" /\ removable'[c] = removable[c] \ {v}
    BY <1>8 DEF RemoveDir, EndSweep, v, TypeOK, CleanerTypeOK
  <2>2. FilesIn(v) = {}
    BY <1>1, <2>1
  <2>3. index[v].state = "absent"
    BY <2>2, FilesOf DEF Exists
  <2>4. \A k \in {v} : EntryOK(k)'
    <3> SUFFICES ASSUME NEW k \in {v} PROVE EntryOK(k)'
      OBVIOUS
    <3>1. FilesIn(k)' = {}
      BY <2>1, <2>2 DEF FilesIn, Exists
    <3> QED
      BY <1>6, <2>1, <2>3, <3>1 DEF EntryOK
  <2>5. SweepOK(c)'
    BY <1>1, <1>3, <2>1 DEF SweepOK
  <2>6. DirsInv'
    BY <1>4, <2>4 DEF DirsInv
  <2> QED
    BY <1>2, <1>3, <1>5, <2>5, <2>6, SoloSweep
<1> QED
  BY <1>7, <1>8

\* Whatever runs, it runs alone.
LEMMA NextSoloInv ==
    ASSUME OneAtATime, TypeOK, SoloInv, [Next]_vars
    PROVE  SoloInv'
<1> USE MarkersAssumption DEF SoloInv
<1>1. ASSUME NEW a \in Auditors, AuditorStep(a), ~Finish(a)
      PROVE  SoloInv'
  <2>1. Sole(a)
    BY <1>1 DEF AuditorStep, RequestIndex, ReuseEntry, MissEntry, ExtractBatch, PrepareTemp,
                OpenTemp, IndexStream, PublishCorpus, CommitIndex, ReplaceFile, TruncateLatest,
                WriteLatest, Resolve, Hydrate, At, Alone, Resting, SoleInv, Sole
  <2> QED
    BY <1>1, <2>1, SoloJob, SoloReader, SoloBuilder DEF AuditorStep
<1>2. ASSUME NEW a \in Auditors, Finish(a)
      PROVE  SoloInv'
  <2>1. /\ UNCHANGED <<entryVars, cleanerVars, latest, faults>>
        /\ pc[a] \in Resting /\ pc'[a] = "idle"
        /\ \A b \in Auditors \ {a} : pc'[b] = pc[b] /\ key'[b] = key[b] /\ opened'[b] = opened[b]
    BY <1>2 DEF Finish, Goto, Forget, AuditorOnly, Resting, TypeOK, AuditTypeOK
  <2>2. SoleInv'
    BY <2>1 DEF SoleInv, Sole, Resting, cleanerVars
  <2>3. DirsInv'
    <3> SUFFICES ASSUME NEW k \in Key PROVE EntryOK(k)'
      BY DEF DirsInv
    <3>1. EntryOK(k)
      BY DEF DirsInv
    <3>2. FilesIn(k)' = FilesIn(k)
      BY <2>1 DEF FilesIn, Exists, entryVars
    <3> QED
      BY <2>1, <3>1, <3>2 DEF EntryOK, entryVars, cleanerVars, Resting, Writing
  <2>4. BuildInv'
    BY <2>1 DEF BuildInv, BuildAt, Writing, entryVars
  <2>5. PointerInv'
    BY <2>1 DEF PointerInv, LatestInv, PointsOwn, Resting, entryVars
  <2>6. SweepInv'
    BY <2>1 DEF SweepInv, SweepOK, FilesIn, Exists, entryVars, cleanerVars
  <2> QED
    BY <2>2, <2>3, <2>4, <2>5, <2>6
<1>3. ASSUME NEW a \in Auditors, WorkerFails(a) \/ AuditorDies(a)
      PROVE  SoloInv'
  <2>1. faults' > 0
    BY <1>3, ConstantsAssumption DEF WorkerFails, AuditorDies, TypeOK, EntryTypeOK
  <2>2. Sole(a)
    BY <1>3 DEF WorkerFails, AuditorDies, Resting, SoleInv
  <2>3. CASE WorkerFails(a)
    BY <2>1, <2>2, <2>3, SoloFails DEF WorkerFails, KeepJob, AuditorOnly, cleanerVars
  <2>4. CASE AuditorDies(a)
    <3>1. /\ OnlyMoves(a) /\ pc'[a] = "idle"
          /\ \A b \in Auditors \ {a} : opened'[b] = opened[b]
      BY <2>4 DEF AuditorDies, Goto, Forget, OnlyMoves, TypeOK, AuditTypeOK
    <3> QED
      BY <2>1, <2>2, <2>4, <3>1, SoloCloses DEF AuditorDies, AuditorOnly, cleanerVars
  <2> QED
    BY <1>3, <2>3, <2>4
<1>4. ASSUME NEW c \in Cleaners, CleanerStep(c) \/ CleanerDies(c)
      PROVE  SoloInv'
  BY <1>4, SoloLooks, SoloRemoves DEF CleanerStep
<1>5. CASE \/ \E w \in Workspaces : EditSource(w) \/ LakeBuild(w)
           \/ UNCHANGED vars
  <2>1. UNCHANGED <<entryVars, auditVars, cleanerVars, latest, faults>>
    BY <1>5 DEF EditSource, LakeBuild, vars
  <2> QED
    BY <2>1
       DEF SoleInv, Sole, DirsInv, EntryOK, BuildInv, BuildAt, PointerInv, LatestInv, PointsOwn,
           SweepInv, SweepOK, FilesIn, Exists, entryVars, auditVars, cleanerVars
<1> QED
  BY <1>1, <1>2, <1>3, <1>4, <1>5 DEF Next

\* One command at a time, killed or not, leaves behind indexes that are wholly
\* built, and a pointer that leads to one of them.
THEOREM SoloInvariance ==
    ASSUME OneAtATime
    PROVE  Spec => [](TypeOK /\ SoloInv)
BY InitTypeOK, NextTypeOK, InitSoloInv, NextSoloInv, PTL DEF Spec

\* Then an audit reads the index its own build_or_reuse wrote or accepted,
\* although it finds it by the label, over a pointer that all workspaces share.
THEOREM AuditsOpenOwn ==
    ASSUME OneAtATime
    PROVE  Spec => []AuditOpensOwnEntry
<1>1. TypeOK /\ SoloInv => AuditOpensOwnEntry
  BY DEF SoloInv, PointerInv, PointsOwn, AuditOpensOwnEntry
<1> QED
  BY <1>1, SoloInvariance, PTL

\* And cache-cleanup, with or without a workspace, takes no file from the index
\* that the pointer leads to.
THEOREM CleanupSpares ==
    ASSUME OneAtATime
    PROVE  Spec => CleanupSparesActive
<1>1. TypeOK /\ SoloInv /\ [Next]_vars =>
          [\A c \in Cleaners : RemoveFile(c) => victim[c] # latest]_vars
  BY DEF SoloInv, SweepInv, SweepOK, RemoveFile
<1> QED
  BY <1>1, SoloInvariance, PTL DEF Spec, CleanupSparesActive

\* A step of the only process at work that leaves the published files alone.
LEMMA RowsKept ==
    ASSUME RowsInv, NEW a \in Auditors, Sole(a), OnlyMoves(a),
           \A b \in Auditors : ~force'[b],
           UNCHANGED <<index, corpus>>, RowsOK(a)'
    PROVE  RowsInv'
<1>1. EntryIsOneBuild'
  BY DEF RowsInv, EntryIsOneBuild, Complete
<1>2. \A b \in Auditors \ {a} : RowsOK(b)'
  BY DEF RowsOK, Sole, OnlyMoves, Resting
<1> QED
  BY <1>1, <1>2 DEF RowsInv

\* An error return, or a death, closes files of which no index is one.
LEMMA RowsClosed ==
    ASSUME TypeOK, SoloInv, RowsInv, NEW a \in Auditors, Sole(a),
           pc' \in [Auditors -> AuditPcs], OnlyMoves(a), pc'[a] \in Resting,
           \A b \in Auditors : ~force'[b], index' = Closed(index, a), UNCHANGED corpus
    PROVE  RowsInv'
<1>1. index' = index
  <2>1. \A k \in Key : index[k].writer # a
    BY MarkersAssumption DEF SoloInv, DirsInv, EntryOK
  <2> QED
    BY <2>1 DEF Closed, TypeOK, EntryTypeOK
<1>2. RowsOK(a)'
  BY DEF RowsOK, Resting
<1> QED
  BY <1>1, <1>2, RowsKept

\* Up to the open temp file, and after the index is replaced.
LEMMA RowsQuiet ==
    ASSUME Kind = "Local", TypeOK, SoloInv, RowsInv, NEW a \in Auditors, Sole(a),
           \/ RequestIndex(a) \/ ReuseEntry(a) \/ MissEntry(a) \/ ExtractBatch(a)
           \/ PrepareTemp(a) \/ OpenTemp(a) \/ IndexStream(a)
           \/ TruncateLatest(a) \/ WriteLatest(a) \/ Resolve(a) \/ Hydrate(a)
    PROVE  RowsInv'
<1> USE DEF At, TypeOK, AuditTypeOK
<1>1. OnlyMoves(a) /\ UNCHANGED corpus /\ pc' \in [Auditors -> AuditPcs]
  BY DEF RequestIndex, ReuseEntry, MissEntry, ExtractBatch, PrepareTemp, OpenTemp, IndexStream,
         TruncateLatest, WriteLatest, Resolve, Hydrate, Fail, Goto, KeepJob, OnlyMoves, entryVars,
         AuditPcs
<1>2. \A b \in Auditors : ~force'[b]
  BY DEF RequestIndex, ReuseEntry, MissEntry, ExtractBatch, PrepareTemp, OpenTemp, IndexStream,
         TruncateLatest, WriteLatest, Resolve, Hydrate, KeepJob, ForceChoices, RowsInv, RowsOK
<1>3. CASE Fail(a)
  BY <1>1, <1>2, <1>3, RowsClosed, FailEnds DEF Fail, Resting
<1>4. CASE ~Fail(a)
  <2>1. UNCHANGED index
    BY <1>4
       DEF RequestIndex, ReuseEntry, MissEntry, ExtractBatch, PrepareTemp, OpenTemp, IndexStream,
           TruncateLatest, WriteLatest, Resolve, Hydrate, entryVars
  <2>2. RequestIndex(a) => RowsOK(a)'
    BY <1>2 DEF RequestIndex, Goto, RowsOK
  <2>3. ASSUME MissEntry(a)
        PROVE  RowsOK(a)'
    <3>1. UNCHANGED key /\ ~Current(key[a])
      BY <2>3 DEF MissEntry, KeepJob, RowsInv, RowsOK
    <3>2. pc'[a] \in {"prepare", "extract"}
      BY <2>3 DEF MissEntry, Goto
    <3> QED
      BY <1>2, <2>1, <3>1, <3>2 DEF RowsOK, Current
  <2>4. ASSUME ExtractBatch(a) \/ PrepareTemp(a) \/ OpenTemp(a) \/ IndexStream(a)
        PROVE  RowsOK(a)'
    <3>1. /\ UNCHANGED key /\ pc[a] \in {"extract", "prepare", "open", "stream"}
          /\ pc'[a] \in {"prepare", "open", "stream", "publish"}
      BY <1>4, <2>4 DEF ExtractBatch, PrepareTemp, OpenTemp, IndexStream, KeepJob, Goto
    <3> QED
      BY <1>2, <2>1, <3>1 DEF RowsInv, RowsOK
  <2>5. ASSUME \/ ReuseEntry(a) \/ TruncateLatest(a) \/ WriteLatest(a)
               \/ Resolve(a) \/ Hydrate(a)
        PROVE  RowsOK(a)'
    <3>1. pc'[a] \in {"point", "pointing", "resolve", "hydrate", "done"}
      BY <1>4, <2>5 DEF ReuseEntry, TruncateLatest, WriteLatest, Resolve, Hydrate, Goto
    <3> QED
      BY <1>2, <3>1 DEF RowsOK
  <2>6. RowsOK(a)'
    BY <2>2, <2>3, <2>4, <2>5
  <2> QED
    BY <1>1, <1>2, <2>1, <2>6, RowsKept
<1> QED
  BY <1>3, <1>4

\* The corpus is published while there is no index, and the index is of the
\* rows of that corpus.
LEMMA RowsPublished ==
    ASSUME TypeOK, SoloInv, RowsInv, NEW a \in Auditors, Sole(a),
           PublishCorpus(a) \/ CommitIndex(a) \/ ReplaceFile(a)
    PROVE  RowsInv'
<1> USE MarkersAssumption DEF At
<1> DEFINE k == key[a]
<1>1. /\ UNCHANGED <<key, force, extracted>> /\ OnlyMoves(a) /\ k \in Key
      /\ pc' \in [Auditors -> AuditPcs] /\ \A b \in Auditors : ~force'[b]
  BY JobKeyType
     DEF PublishCorpus, CommitIndex, ReplaceFile, KeepJob, Fail, Goto, OnlyMoves, RowsInv, RowsOK,
         TypeOK, AuditTypeOK, AuditPcs
<1>2. /\ EntryOK(k) /\ BuildAt(a) /\ RowsOK(a) /\ EntryIsOneBuild
      /\ temp \in [Key -> File] /\ index \in [Key -> File]
      /\ corpus \in [Key -> Versions \cup {None}]
  BY <1>1 DEF SoloInv, DirsInv, BuildInv, RowsInv, TypeOK, EntryTypeOK
<1>3. CASE Fail(a)
  BY <1>1, <1>3, RowsClosed, FailEnds DEF Fail, Resting
<1> HIDE DEF k
<1>4. CASE PublishCorpus(a) /\ ~Fail(a)
  <2>1. /\ pc[a] = "publish" /\ pc'[a] = "commit" /\ UNCHANGED index
        /\ corpus' = [corpus EXCEPT ![k] = extracted[a]]
    BY <1>4 DEF PublishCorpus, Goto, TypeOK, AuditTypeOK, k
  <2>2. index[k].state # "full"
    BY <1>2, <2>1 DEF RowsOK, k
  <2>3. corpus'[k] = extracted[a] /\ \A x \in Key \ {k} : corpus'[x] = corpus[x]
    BY <1>1, <1>2, <2>1
  <2>4. EntryIsOneBuild'
    BY <1>2, <2>1, <2>2, <2>3 DEF EntryIsOneBuild, Complete
  <2>5. \A b \in Auditors : RowsOK(b)'
    BY <1>1, <2>1, <2>2, <2>3 DEF RowsOK, Sole, OnlyMoves, Resting, k
  <2> QED
    BY <2>4, <2>5 DEF RowsInv
<1>5. CASE CommitIndex(a)
  <2>1. pc[a] = "commit" /\ pc'[a] = "replace" /\ UNCHANGED corpus
    BY <1>5 DEF CommitIndex, Goto, TypeOK, AuditTypeOK
  <2>2. temp[k].writer = a /\ corpus[k] = extracted[a] /\ index[k].state # "full"
    BY <1>2, <2>1 DEF BuildAt, RowsOK, Writing, k
  <2>3. \A x \in Key : index[x].writer # a
    BY DEF SoloInv, DirsInv, EntryOK
  <2>4. temp'[k].rows = extracted[a] /\ UNCHANGED index
    BY <1>1, <1>2, <1>5, <2>2, <2>3 DEF CommitIndex
  <2>5. RowsOK(a)'
    BY <1>1, <2>1, <2>2, <2>4 DEF RowsOK, k
  <2> QED
    BY <1>1, <2>1, <2>4, <2>5, RowsKept
<1>6. CASE ReplaceFile(a) /\ ~Fail(a)
  <2>1. /\ pc[a] = "replace" /\ pc'[a] = "point" /\ UNCHANGED corpus
        /\ index' = [index EXCEPT ![k] = temp[k]]
    BY <1>6 DEF ReplaceFile, Goto, TypeOK, AuditTypeOK, k
  <2>2. temp[k].rows = corpus[k]
    BY <1>2, <2>1 DEF RowsOK, k
  <2>3. index'[k] = temp[k] /\ \A x \in Key \ {k} : index'[x] = index[x]
    BY <1>1, <1>2, <2>1
  <2>4. EntryIsOneBuild'
    BY <1>2, <2>1, <2>2, <2>3 DEF EntryIsOneBuild, Complete
  <2>5. \A b \in Auditors : RowsOK(b)'
    BY <1>1, <2>1 DEF RowsOK, Sole, OnlyMoves, Resting
  <2> QED
    BY <2>4, <2>5 DEF RowsInv
<1> QED
  BY <1>3, <1>4, <1>5, <1>6

\* A cleanup only takes files away.
LEMMA RowsSwept ==
    ASSUME OneAtATime, TypeOK, SoloInv, RowsInv, NEW c \in Cleaners,
           CleanerStep(c) \/ CleanerDies(c)
    PROVE  RowsInv'
<1> USE MarkersAssumption DEF CleanerStep
<1>1. \A a \in Auditors : pc[a] \in Resting
  BY DEF ReadProtected, ListDirs, EnterDir, SweepDone, RemoveFile, RemoveDir, CleanerDies, Alone,
         SoloInv, SoleInv, Sole
<1>2. UNCHANGED auditVars
  BY DEF ReadProtected, ListDirs, EnterDir, SweepDone, RemoveFile, RemoveDir, CleanerDies,
         CleanerOnly
<1>3. \A k \in Key : /\ index'[k].state = "full" => index'[k] = index[k]
                     /\ corpus'[k] # None => corpus'[k] = corpus[k]
  <2>1. CASE RemoveFile(c)
    BY <2>1 DEF RemoveFile, NoFile, TypeOK, EntryTypeOK
  <2>2. CASE ~RemoveFile(c)
    BY <2>2 DEF ReadProtected, ListDirs, EnterDir, SweepDone, RemoveDir, CleanerDies, entryVars
  <2> QED
    BY <2>1, <2>2
<1>4. EntryIsOneBuild'
  BY <1>3 DEF RowsInv, EntryIsOneBuild, Complete
<1>5. \A a \in Auditors : RowsOK(a)'
  BY <1>1, <1>2 DEF RowsInv, RowsOK, Resting, auditVars
<1> QED
  BY <1>4, <1>5 DEF RowsInv

\* Every step keeps the databases of an entry together.
LEMMA NextRowsInv ==
    ASSUME OneAtATime, Kind = "Local", TypeOK, SoloInv, RowsInv, [Next]_vars
    PROVE  RowsInv'
<1>1. ASSUME NEW a \in Auditors, AuditorStep(a), ~Finish(a)
      PROVE  RowsInv'
  <2>1. Sole(a)
    BY <1>1 DEF AuditorStep, RequestIndex, ReuseEntry, MissEntry, ExtractBatch, PrepareTemp,
                OpenTemp, IndexStream, PublishCorpus, CommitIndex, ReplaceFile, TruncateLatest,
                WriteLatest, Resolve, Hydrate, At, Alone, Resting, SoloInv, SoleInv, Sole
  <2> QED
    BY <1>1, <2>1, RowsQuiet, RowsPublished DEF AuditorStep
<1>2. ASSUME NEW a \in Auditors, Finish(a)
      PROVE  RowsInv'
  <2>1. /\ UNCHANGED entryVars /\ pc'[a] = "idle" /\ ~force'[a]
        /\ \A b \in Auditors \ {a} : /\ pc'[b] = pc[b] /\ key'[b] = key[b]
                                     /\ force'[b] = force[b] /\ extracted'[b] = extracted[b]
    BY <1>2 DEF Finish, Goto, Forget, TypeOK, AuditTypeOK
  <2> QED
    BY <2>1 DEF RowsInv, RowsOK, EntryIsOneBuild, Complete, entryVars
<1>3. ASSUME NEW a \in Auditors, WorkerFails(a) \/ AuditorDies(a)
      PROVE  RowsInv'
  <2>1. /\ Sole(a) /\ OnlyMoves(a) /\ pc' \in [Auditors -> AuditPcs] /\ pc'[a] \in Resting
        /\ index' = Closed(index, a) /\ UNCHANGED corpus
    BY <1>3 DEF WorkerFails, AuditorDies, Fail, Goto, KeepJob, Forget, OnlyMoves, Resting, SoloInv,
                SoleInv, TypeOK, AuditTypeOK, AuditPcs
  <2>2. \A b \in Auditors : ~force'[b]
    BY <1>3 DEF WorkerFails, AuditorDies, KeepJob, Forget, RowsInv, RowsOK, TypeOK, AuditTypeOK
  <2> QED
    BY <2>1, <2>2, RowsClosed
<1>4. ASSUME NEW c \in Cleaners, CleanerStep(c) \/ CleanerDies(c)
      PROVE  RowsInv'
  BY <1>4, RowsSwept
<1>5. CASE \/ \E w \in Workspaces : EditSource(w) \/ LakeBuild(w)
           \/ UNCHANGED vars
  <2>1. UNCHANGED <<entryVars, auditVars>>
    BY <1>5 DEF EditSource, LakeBuild, vars
  <2> QED
    BY <2>1 DEF RowsInv, RowsOK, EntryIsOneBuild, Complete, entryVars, auditVars
<1> QED
  BY <1>1, <1>2, <1>3, <1>4, <1>5 DEF Next

\* The two databases of a local entry are replaced at two moments, and still no
\* kill parts the rows of one build from the features of another: a build begins
\* where there is no index, and publishes it last.
THEOREM BuildsAreWhole ==
    ASSUME OneAtATime, Kind = "Local"
    PROVE  Spec => []EntryIsOneBuild
<1>1. Init => RowsInv
  BY DEF Init, RowsInv, RowsOK, EntryIsOneBuild, Complete, NoFile
<1>2. Spec => [](TypeOK /\ SoloInv)
  BY SoloInvariance
<1>3. TypeOK /\ SoloInv /\ RowsInv /\ [Next]_vars => RowsInv'
  BY NextRowsInv
<1>4. RowsInv => EntryIsOneBuild
  BY DEF RowsInv
<1> QED
  BY <1>1, <1>2, <1>3, <1>4, PTL DEF Spec

-----------------------------------------------------------------------------
(* What doctor says *)

\* Of a quiet cache: an entry is there or missing, and never stale.
LEMMA QuietEntries ==
    ASSUME SoloInv, Quiet, NEW k \in Key, NEW expected
    PROVE  /\ EntryStatus(k, expected) \in {"missing", "current", "unchecked"}
           /\ EntryStatus(k, expected) # "missing" => index[k].state = "full"
           /\ index[k].state = "full" => (faults = 0 => Complete(k)) /\ k \in dirs
<1>1. /\ index[k].state \in {"absent", "full"}
      /\ index[k].state = "full" => k \in dirs
      /\ index[k].state = "full" /\ corpus[k] = None => faults > 0
  BY FilesOf DEF SoloInv, DirsInv, EntryOK, Quiet, Exists
<1>2. CASE index[k].state = "absent"
  BY <1>2 DEF EntryStatus, Exists, Versioned
<1>3. CASE index[k].state = "full"
  <2>1. EntryStatus(k, expected) \in {"current", "unchecked"}
    BY <1>3 DEF EntryStatus, Exists, Versioned, Current
  <2> QED
    BY <1>1, <1>3, <2>1 DEF Complete
<1> QED
  BY <1>1, <1>2, <1>3

\* And the pointer is missing, good, or torn by a fault.
LEMMA QuietPointer ==
    ASSUME TypeOK, SoloInv, Quiet
    PROVE  /\ latest = None => LatestStatus = "missing"
           /\ latest = Torn => LatestStatus = "corrupt-pointer" /\ faults > 0
           /\ latest \in Key => LatestStatus = "ok" /\ index[latest].state = "full"
<1> USE MarkersAssumption
<1>1. latest = Torn => faults > 0
  BY DEF SoloInv, PointerInv, Quiet, Resting
<1>2. latest \in Key => index[latest].state = "full"
  BY DEF SoloInv, PointerInv, LatestInv
<1>3. latest \in Key \cup {None, Torn}
  BY DEF TypeOK, EntryTypeOK
<1> QED
  BY <1>1, <1>2, <1>3 DEF LatestStatus, Exists

\* With one command at a time doctor can be believed, after any number of kills.
THEOREM DoctorIsTrusted ==
    ASSUME OneAtATime
    PROVE  Spec => []DoctorIsRight
<1>1. ASSUME TypeOK, SoloInv
      PROVE  DoctorIsRight
  <2> SUFFICES ASSUME Quiet, NEW w \in Workspaces
               PROVE  LET mine == ExpectedEntry(w) IN
                      /\ DoctorStatus(w, FALSE) = "warning" => latest = Torn /\ faults > 0
                      /\ Problems(w, FALSE) = {} =>
                            \A k \in {mine, latest} : /\ index[k].state = "full"
                                                      /\ faults = 0 => Complete(k)
                      /\ latest \in Key => LabelSummary(w).active = 1
                      /\ LET kept == CleanupReport({mine}).protected
                         IN \A k \in DOMAIN kept :
                               kept[k] = "active latest pointer" => index[k].state = "full"
    BY DEF DoctorIsRight
  <2> USE <1>1, MarkersAssumption
  <2> DEFINE mine == ExpectedEntry(w)
             said == Diagnosis(w)
  <2>1. mine \in Key /\ dirs \subseteq Key /\ latest \in Key \cup {None, Torn}
    BY RequestedKeyType DEF TypeOK, EntryTypeOK, ExpectedEntry
  <2>2. /\ said.latest = LatestStatus
        /\ DOMAIN said.entries = dirs \cup {mine}
        /\ \A k \in dirs \cup {mine} :
              /\ said.entries[k].status = EntryStatus(k, {mine})
              /\ said.entries[k].active <=> k = latest
              /\ said.entries[k].expected <=> k = mine
    BY DEF Diagnosis, LabelDiagnosis, EntryDiagnosis
  <2>3. DoctorStatus(w, FALSE) = "warning" => latest = Torn /\ faults > 0
    <3>1. \A k \in DOMAIN said.entries : said.entries[k].status \notin {"corrupt", "stale"}
      BY <2>1, <2>2, QuietEntries
    <3>2. said.latest \in {"corrupt-pointer", "target-missing"} => latest = Torn /\ faults > 0
      BY <2>1, <2>2, QuietPointer
    <3> QED
      BY <3>1, <3>2 DEF DoctorStatus
  <2>4. Problems(w, FALSE) = {} =>
           \A k \in {mine, latest} : /\ index[k].state = "full"
                                     /\ faults = 0 => Complete(k)
    <3> HAVE Problems(w, FALSE) = {}
    <3> DEFINE wanted == {k \in DOMAIN said.entries :
                             said.entries[k].active \/ said.entries[k].expected}
    <3>1. /\ {said.latest} \ {"ok"} = {}
          /\ {said.entries[k].status : k \in wanted} \cap {"missing", "corrupt"} = {}
      <4> DEFINE A == {said.latest} \ {"ok"}
                 B == {said.entries[k].status : k \in wanted} \cap {"missing", "corrupt"}
      <4>1. /\ {<<"latest", status>> : status \in A} \subseteq Problems(w, FALSE)
            /\ {<<"entry", status>> : status \in B} \subseteq Problems(w, FALSE)
        BY DEF Problems
      <4> HIDE DEF A, B
      <4>2. A = {} /\ B = {}
        BY <4>1
      <4> QED
        BY <4>2 DEF A, B
    <3>2. latest \in Key /\ index[latest].state = "full"
      BY <2>1, <2>2, <3>1, QuietPointer
    <3>3. mine \in wanted
      BY <2>2
    <3>4. EntryStatus(mine, {mine}) # "missing"
      BY <2>2, <3>1, <3>3
    <3>5. index[mine].state = "full"
      BY <2>1, <3>4, QuietEntries
    <3> QED
      BY <2>1, <3>2, <3>5, QuietEntries
  <2>5. latest \in Key => LabelSummary(w).active = 1
    <3> HAVE latest \in Key
    <3>1. latest \in dirs
      BY QuietPointer, QuietEntries
    <3>2. {k \in DOMAIN said.entries : said.entries[k].active} = {latest}
      BY <2>2, <3>1
    <3>3. LabelSummary(w).active = Cardinality({k \in DOMAIN said.entries : said.entries[k].active})
      BY DEF LabelSummary, Quantify
    <3> QED
      BY <3>2, <3>3, FS_Singleton
  <2>6. LET kept == CleanupReport({mine}).protected
        IN \A k \in DOMAIN kept :
              kept[k] = "active latest pointer" => index[k].state = "full"
    <3> DEFINE kept == CleanupReport({mine}).protected
    <3>1. kept = [k \in dirs \cap Protected({mine}) |-> ProtectedFor(k, {mine})]
      BY DEF CleanupReport
    <3>2. SUFFICES ASSUME NEW k \in DOMAIN kept, kept[k] = "active latest pointer"
                   PROVE  index[k].state = "full"
      OBVIOUS
    <3>3. k \in Key /\ k = latest
      BY <2>1, <3>1, <3>2 DEF Protected, ProtectedFor
    <3> QED
      BY <3>3, QuietPointer
  <2> QED
    BY <2>3, <2>4, <2>5, <2>6
<1> QED
  BY <1>1, SoloInvariance, PTL

=============================================================================
