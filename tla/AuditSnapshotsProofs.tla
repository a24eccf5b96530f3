------------------------ MODULE AuditSnapshotsProofs ------------------------
(***************************************************************************)
(* For any number of commands, sources, baselines and requests: show and   *)
(* diff answer from analyses of the sources that they name, show blames    *)
(* changed sources only when they changed, no file but a baseline asked    *)
(* for fails an audit, and only commands that overlap leave a torn one.    *)
(***************************************************************************)
EXTENDS AuditSnapshots, TLAPS

Fields == {"job", "fp", "now", "then", "wanted", "kind", "todo"}

\* A file kept under f, if it can be read at all, was made from f.
Under(c, f) == c \in {None, Torn} \/ c.of = f

Filed(F) ==
    /\ DOMAIN F = Kinds /\ \A k \in Kinds : DOMAIN F[k] = Sources
    /\ \A k \in Kinds, f \in Sources : Under(F[k][f], f)

\* What a command holds in a step: an analysis is of the sources whose
\* fingerprint the command took.
Held(l, step, s) ==
    /\ DOMAIN l = Fields /\ l.kind \in Kinds
    /\ l.now # None => l.now.of = l.fp
    /\ step = "analyse" => l.job \in Jobs /\ l.fp = s /\ l.now = None
    /\ step \in {"look", "detail"} => l.job \in Jobs /\ l.now = None
    /\ step = "compare" => l.job \in Jobs
    /\ step \in {"write", "fill", "rename", "save", "saving", "report"} =>
           /\ l.job \in Jobs /\ l.fp \in Sources
           /\ l.now \in Content /\ l.now.of = l.fp
    /\ step \in {"save", "saving"} => l.job.op = "audit" /\ l.job.name # None
    /\ step = "sweep" => l.job.op = "cleanup" /\ l.now = None

HeldInv ==
    /\ DOMAIN local = Commands /\ DOMAIN pc = Commands
    /\ \A p \in Commands : Held(local[p], pc[p], sources)

SourceInv ==
    /\ sources \in Sources /\ faults \in Nat
    /\ Filed(file) /\ Filed(temp)
    /\ HeldInv
    /\ AnswersAreCurrent /\ FilesNeverFailAudits

-----------------------------------------------------------------------------
(* Lemmas about updates *)

LEMMA FiledUpdate ==
    ASSUME NEW F, Filed(F), NEW k \in Kinds, NEW f \in Sources, NEW c, Under(c, f)
    PROVE  Filed([F EXCEPT ![k][f] = c])
BY DEF Filed

LEMMA HeldUpdate ==
    ASSUME HeldInv, sources' = sources, NEW p \in Commands, NEW l, NEW step,
           local' = [local EXCEPT ![p] = l], pc' = [pc EXCEPT ![p] = step],
           Held(l, step, sources)
    PROVE  HeldInv'
BY DEF HeldInv

LEMMA HeldGoto ==
    ASSUME HeldInv, sources' = sources, NEW p \in Commands, NEW step,
           local' = local, pc' = [pc EXCEPT ![p] = step],
           Held(local[p], step, sources)
    PROVE  HeldInv'
BY DEF HeldInv

LEMMA HeldStay ==
    ASSUME HeldInv, sources' = sources, NEW p \in Commands, NEW l,
           local' = [local EXCEPT ![p] = l], pc' = pc,
           Held(l, pc[p], sources)
    PROVE  HeldInv'
BY DEF HeldInv

LEMMA IdleHeld == Held(Idle, "idle", sources)
BY DEF Held, Idle, Fields, Kinds

\* A command that ends says what it held, or nothing.
LEMMA Ends ==
    ASSUME HeldInv, sources' = sources, NEW p \in Commands, NEW a, End(p, a)
    PROVE  HeldInv' /\ answer' = a
BY HeldUpdate, IdleHeld DEF End, Goto, Set

LEMMA Finishes ==
    ASSUME HeldInv, sources' = sources, NEW p \in Commands, NEW outcome, Finish(p, outcome)
    PROVE  /\ HeldInv' /\ AnswersAreCurrent'
           /\ answer'.outcome = outcome /\ answer'.local = local[p]
<1>1. HeldInv' /\ answer' = [NoAnswer EXCEPT !.outcome = outcome, !.local = local[p]]
  BY Ends DEF Finish
<1>2. answer'.outcome = outcome /\ answer'.local = local[p]
  BY <1>1 DEF NoAnswer
<1> QED
  BY <1>1, <1>2 DEF AnswersAreCurrent, HeldInv, Held

LEMMA NothingSaid ==
    ASSUME answer' = NoAnswer
    PROVE  AnswersAreCurrent' /\ FilesNeverFailAudits'
BY DEF NoAnswer, Idle, AnswersAreCurrent, FilesNeverFailAudits

LEMMA SaidBefore ==
    ASSUME answer' = answer, faults' = faults, SourceInv
    PROVE  AnswersAreCurrent' /\ FilesNeverFailAudits'
BY DEF SourceInv, AnswersAreCurrent, FilesNeverFailAudits

LEMMA InitSource == Init => SourceInv
<1> SUFFICES ASSUME Init
             PROVE  SourceInv
  OBVIOUS
<1>1. HeldInv
  BY IdleHeld DEF Init, HeldInv
<1>2. Filed(file) /\ Filed(temp)
  BY DEF Init, Filed, Under
<1>3. AnswersAreCurrent /\ FilesNeverFailAudits
  BY DEF Init, NoAnswer, Idle, AnswersAreCurrent, FilesNeverFailAudits
<1> QED
  BY <1>1, <1>2, <1>3 DEF Init, SourceInv

-----------------------------------------------------------------------------
(* The steps of one command *)

LEMMA StartSource ==
    ASSUME SourceInv, NEW p \in Commands, Start(p)
    PROVE  SourceInv'
<1>1. PICK j \in Asked :
          /\ Goto(p, FirstStep(j))
          /\ Set(p, [Idle EXCEPT
                 !.job = j,
                 !.fp = IF j.op = "cleanup" /\ ~j.guarded THEN None ELSE sources,
                 !.wanted = IF j.op = "show" THEN j.request.id ELSE None,
                 !.todo = {f \in Sources : j.op = "cleanup" /\ file["snapshot"][f] # None}])
  BY DEF Start
<1> DEFINE l == [Idle EXCEPT
                 !.job = j,
                 !.fp = IF j.op = "cleanup" /\ ~j.guarded THEN None ELSE sources,
                 !.wanted = IF j.op = "show" THEN j.request.id ELSE None,
                 !.todo = {f \in Sources : j.op = "cleanup" /\ file["snapshot"][f] # None}]
<1>2. /\ DOMAIN l = Fields /\ l.kind = "snapshot" /\ l.now = None /\ l.job = j
      /\ j.op # "cleanup" => l.fp = sources
  BY DEF Idle, Fields
<1>3. j \in Jobs
  BY JobsAssumption
<1>4. /\ FirstStep(j) \in {"analyse", "look", "delete", "sweep"}
      /\ FirstStep(j) = "sweep" => j.op = "cleanup"
      /\ FirstStep(j) = "analyse" => j.op # "cleanup"
  BY <1>3 DEF Jobs, FirstStep
<1>5. Held(l, FirstStep(j), sources)
  BY <1>2, <1>3, <1>4 DEF Held, Kinds
<1>6. sources' = sources /\ UNCHANGED files /\ faults' = faults /\ answer' = NoAnswer
  BY DEF Start
<1>7. HeldInv'
  <2>1. HeldInv
    BY DEF SourceInv
  <2> HIDE DEF l
  <2>2. local' = [local EXCEPT ![p] = l] /\ pc' = [pc EXCEPT ![p] = FirstStep(j)]
    BY <1>1 DEF Set, Goto, l
  <2> QED
    BY <1>5, <1>6, <2>1, <2>2, HeldUpdate
<1> QED
  BY <1>6, <1>7, NothingSaid DEF SourceInv, files

LEMMA AnalyseSource ==
    ASSUME SourceInv, NEW p \in Commands, Analyse(p)
    PROVE  SourceInv'
<1> DEFINE now == [fp |-> local[p].fp, of |-> sources, mode |-> ModeOf(local[p].job)]
           l == [local[p] EXCEPT !.now = now]
<1>1. Held(local[p], "analyse", sources)
  BY DEF SourceInv, HeldInv, Analyse
<1>2. now \in Content
  <2>1. ModeOf(local[p].job) \in Modes
    BY <1>1, JobsAssumption DEF Held, ModeOf, Jobs
  <2> QED
    BY <1>1, <2>1 DEF Held, Content, SourceInv
<1>3. now.of = sources /\ local[p].fp = sources /\ sources \in Sources
  BY <1>1 DEF Held, SourceInv
<1> HIDE DEF now
<1>4. DOMAIN l = Fields /\ l.kind \in Kinds /\ l.now = now /\ l.fp = sources /\ l.job \in Jobs
  BY <1>1, <1>3 DEF Held, Fields
<1> HIDE DEF l
<1>5. Held(l, "write", sources)
  BY <1>2, <1>3, <1>4 DEF Held
<1>6. /\ local' = [local EXCEPT ![p] = l] /\ pc' = [pc EXCEPT ![p] = "write"]
      /\ answer' = answer /\ faults' = faults /\ sources' = sources /\ UNCHANGED files
  BY DEF Analyse, Set, Continue, Goto, meta, l, now
<1>7. HeldInv'
  BY <1>5, <1>6, HeldUpdate DEF SourceInv
<1> QED
  BY <1>6, <1>7, SaidBefore DEF SourceInv, files

\* AfterSave goes on with the detail, the baseline or the report.
LEMMA AfterSaveHeld ==
    ASSUME SourceInv, NEW p \in Commands, AfterSave(p), sources' = sources,
           pc[p] \in {"fill", "rename"}
    PROVE  HeldInv' /\ answer' = answer
<1>1. Held(local[p], "rename", sources)
  BY DEF SourceInv, HeldInv, Held
<1>2. CASE local[p].kind = "snapshot"
  <2> DEFINE l == [local[p] EXCEPT !.kind = "detail"]
  <2>1. Held(l, "write", sources)
    BY <1>1 DEF Held, Fields, Kinds
  <2>2. local' = [local EXCEPT ![p] = l] /\ pc' = [pc EXCEPT ![p] = "write"] /\ answer' = answer
    BY <1>2 DEF AfterSave, Set, Continue, Goto
  <2> HIDE DEF l
  <2> QED
    BY <2>1, <2>2, HeldUpdate DEF SourceInv
<1>3. CASE local[p].kind # "snapshot"
  <2>1. PICK step \in {"save", "report"} :
            /\ pc' = [pc EXCEPT ![p] = step]
            /\ step = "save" => local[p].job.op = "audit" /\ local[p].job.name # None
    BY <1>3 DEF AfterSave, Continue, Goto
  <2>2. Held(local[p], step, sources)
    BY <1>1, <2>1 DEF Held
  <2>3. local' = local /\ answer' = answer
    BY <1>3 DEF AfterSave, Continue
  <2> QED
    BY <2>1, <2>2, <2>3, HeldGoto DEF SourceInv
<1> QED
  BY <1>2, <1>3

LEMMA SaveSource ==
    ASSUME SourceInv, NEW p \in Commands, WriteTemp(p) \/ FillTemp(p) \/ RenameTemp(p)
    PROVE  SourceInv'
<1> DEFINE k == local[p].kind
           f == local[p].fp
<1>1. /\ Held(local[p], pc[p], sources) /\ pc[p] \in {"write", "fill", "rename"}
      /\ sources' = sources /\ faults' = faults
  BY DEF SourceInv, HeldInv, WriteTemp, FillTemp, RenameTemp, meta
<1>2. /\ k \in Kinds /\ f \in Sources
      /\ Under(local[p].now, f) /\ Under(Torn, f) /\ Under(None, f)
  BY <1>1 DEF Held, Under
<1>3. Filed(file) /\ Filed(temp)
  BY DEF SourceInv
<1>4. Under(temp[k][f], f)
  BY <1>2, <1>3 DEF Filed
<1>5. CASE WriteTemp(p)
  <2>1. Filed(temp')
    BY <1>2, <1>3, <1>5, FiledUpdate DEF WriteTemp
  <2>2. file' = file /\ local' = local /\ pc' = [pc EXCEPT ![p] = "fill"] /\ answer' = answer
    BY <1>5 DEF WriteTemp, Continue, Goto
  <2>3. Held(local[p], "fill", sources)
    BY <1>1 DEF Held
  <2>4. HeldInv'
    BY <1>1, <2>2, <2>3, HeldGoto DEF SourceInv
  <2> QED
    BY <1>1, <1>3, <2>1, <2>2, <2>4, SaidBefore DEF SourceInv
<1>6. CASE FillTemp(p)
  <2>1. \A old : \A c \in Mixed(old, local[p].now) : Under(c, f)
    BY <1>2 DEF Mixed
  <2>2. Filed(temp') /\ Filed(file')
    <3>1. CASE UNCHANGED <<file, temp>>
      BY <1>3, <3>1
    <3>2. CASE \E c \in Mixed(Temp(p), local[p].now) :
                   temp' = [temp EXCEPT ![k][f] = c] /\ file' = file
      <4>1. PICK c \in Mixed(Temp(p), local[p].now) : temp' = [temp EXCEPT ![k][f] = c]
        BY <3>2
      <4>2. Under(c, f)
        BY <2>1, <4>1
      <4> QED
        BY <1>2, <1>3, <3>2, <4>1, <4>2, FiledUpdate
    <3>3. CASE \E c \in Mixed(Here(p), local[p].now) :
                   file' = [file EXCEPT ![k][f] = c] /\ temp' = temp
      <4>1. PICK c \in Mixed(Here(p), local[p].now) : file' = [file EXCEPT ![k][f] = c]
        BY <3>3
      <4>2. Under(c, f)
        BY <2>1, <4>1
      <4> QED
        BY <1>2, <1>3, <3>3, <4>1, <4>2, FiledUpdate
    <3> QED
      BY <1>6, <3>1, <3>2, <3>3 DEF FillTemp
  <2>3. local' = local /\ pc' = [pc EXCEPT ![p] = "rename"] /\ answer' = answer
    BY <1>6 DEF FillTemp, Continue, Goto
  <2>4. Held(local[p], "rename", sources)
    BY <1>1, <1>6 DEF Held, FillTemp
  <2>5. HeldInv'
    BY <1>1, <2>3, <2>4, HeldGoto DEF SourceInv
  <2> QED
    BY <1>1, <2>2, <2>3, <2>5, SaidBefore DEF SourceInv
<1>7. CASE RenameTemp(p)
  <2>1. Filed(temp') /\ Filed(file')
    <3>1. CASE UNCHANGED <<file, temp>>
      BY <1>3, <3>1
    <3>2. CASE /\ file' = [file EXCEPT ![k][f] = temp[k][f]]
               /\ temp' = [temp EXCEPT ![k][f] = None]
      BY <1>2, <1>3, <1>4, <3>2, FiledUpdate
    <3> QED
      BY <1>7, <3>1, <3>2 DEF RenameTemp, Temp
  <2>2. HeldInv' /\ answer' = answer
    BY <1>1, <1>7, AfterSaveHeld DEF RenameTemp
  <2> QED
    BY <1>1, <2>1, <2>2, SaidBefore DEF SourceInv
<1> QED
  BY <1>5, <1>6, <1>7

\* A command that ends, and how it may end.
LEMMA EndSource ==
    ASSUME SourceInv, NEW p \in Commands, NEW outcome, Finish(p, outcome),
           UNCHANGED <<sources, files>>, faults' \in Nat,
           \/ outcome \notin {"failed", "unsaved"}
           \/ /\ outcome = "failed"
              /\ \/ local[p].job.op \notin {"audit", "lint", "show"}
                 \/ faults' > 0 /\ local[p].now = None
           \/ /\ outcome = "unsaved" /\ faults' > 0
              /\ local[p].job.op = "audit" /\ local[p].job.name # None
    PROVE  SourceInv'
<1>1. /\ HeldInv' /\ AnswersAreCurrent'
      /\ answer'.outcome = outcome /\ answer'.local = local[p]
  BY Finishes DEF SourceInv
<1>2. FilesNeverFailAudits'
  BY <1>1 DEF FilesNeverFailAudits
<1> QED
  BY <1>1, <1>2 DEF SourceInv, files

LEMMA FaultSource ==
    ASSUME SourceInv, NEW p \in Commands, Fault(p)
    PROVE  SourceInv'
<1>1. faults \in Nat /\ faults' = faults + 1 /\ UNCHANGED <<sources, files>>
  BY DEF SourceInv, Fault, AnalysisFails, SaveFails, BaselineFails, Kill
<1>2. CASE AnalysisFails(p)
  <2>1. local[p].now = None
    BY <1>2 DEF AnalysisFails, SourceInv, HeldInv, Held
  <2> QED
    BY <1>1, <1>2, <2>1, EndSource DEF AnalysisFails
<1>5. CASE BaselineFails(p)
  <2>1. local[p].job.op = "audit" /\ local[p].job.name # None
    BY <1>5 DEF BaselineFails, SourceInv, HeldInv, Held
  <2> QED
    BY <1>1, <1>5, <2>1, EndSource DEF BaselineFails
<1>3. CASE SaveFails(p)
  <2>1. HeldInv' /\ answer' = answer
    BY <1>1, <1>3, AfterSaveHeld DEF SaveFails
  <2>2. AnswersAreCurrent' /\ FilesNeverFailAudits'
    BY <1>1, <2>1 DEF SourceInv, AnswersAreCurrent, FilesNeverFailAudits
  <2> QED
    BY <1>1, <2>1, <2>2 DEF SourceInv, files
<1>4. CASE Kill(p)
  <2>1. HeldInv' /\ answer' = NoAnswer
    BY <1>1, <1>4, Ends DEF SourceInv, Kill
  <2> QED
    BY <1>1, <2>1, NothingSaid DEF SourceInv, files
<1> QED
  BY <1>2, <1>3, <1>4, <1>5 DEF Fault

LEMMA BaselineSource ==
    ASSUME SourceInv, NEW p \in Commands,
           SaveBaseline(p) \/ BaselineShow(p) \/ BaselineDelete(p)
    PROVE  SourceInv'
<1>1. CASE SaveBaseline(p)
  <2>1. PICK step \in {"saving", "report"} : pc' = [pc EXCEPT ![p] = step]
    BY <1>1 DEF SaveBaseline, Continue, Goto
  <2>2. /\ local' = local /\ answer' = answer /\ faults' = faults /\ sources' = sources
        /\ UNCHANGED <<file, temp>> /\ pc[p] \in {"save", "saving"}
    BY <1>1 DEF SaveBaseline, Continue, meta
  <2>3. Held(local[p], step, sources)
    BY <2>1, <2>2 DEF SourceInv, HeldInv, Held
  <2>4. HeldInv'
    BY <2>1, <2>2, <2>3, HeldGoto DEF SourceInv
  <2> QED
    BY <2>2, <2>4, SaidBefore DEF SourceInv
<1>2. CASE BaselineShow(p)
  <2>1. UNCHANGED <<sources, files>> /\ faults' \in Nat
    BY <1>2 DEF BaselineShow, meta, SourceInv
  <2>2. PICK outcome \in {"unknown", "ok"} : Finish(p, outcome)
    BY <1>2 DEF BaselineShow
  <2> QED
    BY <2>1, <2>2, EndSource
<1>3. CASE BaselineDelete(p)
  <2>1. /\ sources' = sources /\ UNCHANGED <<file, temp>> /\ faults' = faults
    BY <1>3 DEF BaselineDelete, meta
  <2>2. PICK outcome \in {"unknown", "ok"} : Finish(p, outcome)
    BY <1>3 DEF BaselineDelete
  <2>3. /\ HeldInv' /\ AnswersAreCurrent'
        /\ answer'.outcome = outcome /\ answer'.local = local[p]
    BY <2>1, <2>2, Finishes DEF SourceInv
  <2>4. FilesNeverFailAudits'
    BY <2>2, <2>3 DEF FilesNeverFailAudits
  <2> QED
    BY <2>1, <2>3, <2>4 DEF SourceInv
<1> QED
  BY <1>1, <1>2, <1>3

LEMMA SweepSource ==
    ASSUME SourceInv, NEW p \in Commands, SweepFile(p) \/ SweepNext(p)
    PROVE  SourceInv'
<1>1. /\ Held(local[p], "sweep", sources) /\ pc[p] = "sweep"
      /\ sources' = sources /\ faults' = faults /\ temp' = temp
  BY DEF SourceInv, HeldInv, SweepFile, SweepNext, meta, files
<1>2. ASSUME NEW outcome \in {"ok", "failed"}, Finish(p, outcome), file' = file
      PROVE  SourceInv'
  <2>1. /\ HeldInv' /\ AnswersAreCurrent'
        /\ answer'.outcome = outcome /\ answer'.local = local[p]
    BY <1>1, <1>2, Finishes DEF SourceInv
  <2>2. FilesNeverFailAudits'
    BY <1>1, <2>1 DEF Held, FilesNeverFailAudits
  <2> QED
    BY <1>1, <1>2, <2>1, <2>2 DEF SourceInv
<1>3. ASSUME NEW l, Set(p, l), Stay(p), Held(l, "sweep", sources), Filed(file')
      PROVE  SourceInv'
  <2>1. HeldInv'
    BY <1>1, <1>3, HeldStay DEF SourceInv, Set, Stay
  <2> QED
    BY <1>1, <1>3, <2>1, SaidBefore DEF SourceInv, Stay
<1>4. ASSUME NEW todo
      PROVE  /\ Held([local[p] EXCEPT !.todo = todo], "sweep", sources)
             /\ Held([local[p] EXCEPT !.kind = "detail", !.todo = todo], "sweep", sources)
  BY <1>1 DEF Held, Fields, Kinds
<1>5. CASE SweepFile(p)
  <2>1. PICK f \in local[p].todo :
            \/ /\ Set(p, [local[p] EXCEPT !.todo = @ \ {f}])
               /\ Stay(p)
               /\ file' = file
            \/ /\ Finish(p, "failed")
               /\ file' = file
            \/ /\ file' = [file EXCEPT ![local[p].kind][f] = None]
               /\ Set(p, [local[p] EXCEPT !.todo = @ \ {f}])
               /\ Stay(p)
    BY <1>5 DEF SweepFile
  <2> DEFINE l == [local[p] EXCEPT !.todo = @ \ {f}]
  <2>2. Held(l, "sweep", sources)
    <3>1. l = [local[p] EXCEPT !.todo = local[p].todo \ {f}]
      OBVIOUS
    <3> QED
      BY <1>4, <3>1
  <2> HIDE DEF l
  <2>3. Filed(file) /\ Filed([file EXCEPT ![local[p].kind][f] = None])
    BY <1>1 DEF Filed, Under, SourceInv, Held
  <2> QED
    BY <1>2, <1>3, <2>1, <2>2, <2>3 DEF l
<1>6. CASE SweepNext(p)
  <2>1. file' = file /\ Filed(file)
    BY <1>6 DEF SweepNext, files, SourceInv
  <2>2. CASE Finish(p, "ok")
    BY <1>2, <2>1, <2>2
  <2> DEFINE listed == {f \in Sources : file["detail"][f] # None}
  <2>3. CASE /\ Set(p, [local[p] EXCEPT !.kind = "detail", !.todo = listed])
             /\ Stay(p)
    <3> HIDE DEF listed
    <3> QED
      BY <1>3, <1>4, <2>1, <2>3
  <2> QED
    BY <1>6, <2>2, <2>3 DEF SweepNext
<1> QED
  BY <1>5, <1>6

\* An answer that is neither a failure nor out of date.
LEMMA AnswerSource ==
    ASSUME SourceInv, NEW p \in Commands, NEW a, End(p, a),
           UNCHANGED <<sources, files, faults>>, a.outcome = "ok",
           a.local.now # None => a.local.now.of = a.local.fp
    PROVE  SourceInv'
<1>1. HeldInv' /\ answer' = a
  BY Ends DEF SourceInv
<1>2. AnswersAreCurrent' /\ FilesNeverFailAudits'
  BY <1>1 DEF AnswersAreCurrent, FilesNeverFailAudits
<1> QED
  BY <1>1, <1>2 DEF SourceInv, files

LEMMA ComparedSource ==
    ASSUME SourceInv, NEW p \in Commands, NEW old, Compared(p, old),
           UNCHANGED <<sources, files, faults>>
    PROVE  SourceInv'
<1> DEFINE a == [outcome |-> "ok", local |-> [local[p] EXCEPT !.then = old], family |-> {},
                 diff |-> Diff(GroupsOf(old), GroupsOf(local[p].now))]
<1>1. Held(local[p], pc[p], sources)
  BY DEF SourceInv, HeldInv
<1>2. a.outcome = "ok" /\ a.local.now = local[p].now /\ a.local.fp = local[p].fp
  BY <1>1 DEF Held, Fields
<1>3. End(p, a)
  BY DEF Compared
<1> HIDE DEF a
<1> QED
  BY <1>1, <1>2, <1>3, AnswerSource DEF Held

LEMMA ShownSource ==
    ASSUME SourceInv, NEW p \in Commands, NEW family, NEW now, NEW f, Shown(p, family, now, f),
           UNCHANGED <<sources, files, faults>>, now # None => now.of = f
    PROVE  SourceInv'
<1> DEFINE a == [outcome |-> "ok", local |-> [local[p] EXCEPT !.now = now, !.fp = f],
                 family |-> family, diff |-> None]
<1>1. Held(local[p], pc[p], sources)
  BY DEF SourceInv, HeldInv
<1>2. a.outcome = "ok" /\ a.local.now = now /\ a.local.fp = f
  BY <1>1 DEF Held, Fields
<1>3. End(p, a)
  BY DEF Shown
<1> HIDE DEF a
<1> QED
  BY <1>2, <1>3, AnswerSource

LEMMA ReportSource ==
    ASSUME SourceInv, NEW p \in Commands, ReportAudit(p) \/ ReportShow(p) \/ ReportDiff(p)
    PROVE  SourceInv'
<1>1. /\ Held(local[p], "report", sources) /\ UNCHANGED <<sources, files, faults>>
      /\ faults \in Nat
  BY DEF SourceInv, HeldInv, ReportAudit, ReportShow, ReportDiff, meta
<1>2. CASE ReportAudit(p)
  BY <1>1, <1>2, EndSource DEF ReportAudit
<1>3. CASE ReportShow(p)
  <2>1. CASE \E family : Shown(p, family, local[p].now, local[p].fp)
    BY <1>1, <2>1, ShownSource DEF Held
  <2>2. CASE Finish(p, "gone") \/ Finish(p, "unknown")
    BY <1>1, <2>2, EndSource
  <2> QED
    BY <1>3, <2>1, <2>2 DEF ReportShow
<1>4. CASE ReportDiff(p)
  <2>1. CASE Finish(p, "failed")
    <3>1. local[p].job.op \notin {"audit", "lint", "show"}
      BY <1>4 DEF ReportDiff
    <3> QED
      BY <1>1, <2>1, <3>1, EndSource
  <2>2. CASE \E old : Compared(p, old)
    BY <1>1, <2>2, ComparedSource
  <2> QED
    BY <1>4, <2>1, <2>2 DEF ReportDiff
<1> QED
  BY <1>2, <1>3, <1>4

LEMMA ContinueSource ==
    ASSUME SourceInv, NEW p \in Commands, NEW l, NEW step, Set(p, l), Continue(p, step),
           UNCHANGED <<sources, files, faults>>, Held(l, step, sources)
    PROVE  SourceInv'
<1>1. HeldInv' /\ answer' = answer
  BY HeldUpdate DEF SourceInv, Set, Continue, Goto
<1> QED
  BY <1>1, SaidBefore DEF SourceInv, files

LEMMA ReadSource ==
    ASSUME SourceInv, NEW p \in Commands,
           LookUpGroup(p) \/ ShowFromDetail(p) \/ LoadCurrent(p) \/ CompareBaseline(p)
    PROVE  SourceInv'
<1>1. /\ Held(local[p], pc[p], sources) /\ pc[p] \in {"look", "detail", "compare"}
      /\ UNCHANGED <<sources, files, faults>> /\ faults \in Nat /\ sources \in Sources
      /\ local[p].job \in Jobs
  <2>1. Held(local[p], pc[p], sources) /\ pc[p] \in {"look", "detail", "compare"}
    BY DEF SourceInv, HeldInv, LookUpGroup, ShowFromDetail, LoadCurrent, CompareBaseline
  <2> QED
    BY <2>1 DEF SourceInv, Held, LookUpGroup, ShowFromDetail, LoadCurrent, CompareBaseline, meta
<1>2. ASSUME NEW k \in Kinds
      PROVE  Parse(file[k][sources]) # None => Parse(file[k][sources]).of = sources
  BY <1>1 DEF Parse, SourceInv, Filed, Under
<1>3. Held([local[p] EXCEPT !.fp = sources, !.now = None], "analyse", sources)
  BY <1>1 DEF Held, Fields
<1>4. CASE LookUpGroup(p)
  <2> DEFINE snapshot == Parse(file["snapshot"][sources])
             known == Resolve(local[p].job.request, GroupsOf(snapshot))
  <2>1. CASE local' = local /\ Continue(p, "detail")
    <3>1. Held(local[p], "detail", sources)
      BY <1>1, <1>4 DEF Held, LookUpGroup
    <3>2. HeldInv' /\ answer' = answer
      BY <1>1, <2>1, <3>1, HeldGoto DEF SourceInv, Continue, Goto
    <3> QED
      BY <1>1, <3>2, SaidBefore DEF SourceInv, files
  <2>2. CASE \E c, id : /\ Set(p, [local[p] EXCEPT !.then = c, !.wanted = id])
                        /\ Continue(p, "detail")
    <3>1. PICK c, id : Set(p, [local[p] EXCEPT !.then = c, !.wanted = id])
      BY <2>2
    <3>2. Held([local[p] EXCEPT !.then = c, !.wanted = id], "detail", sources)
      BY <1>1, <1>4 DEF Held, Fields, LookUpGroup
    <3> QED
      BY <1>1, <2>2, <3>1, <3>2, ContinueSource
  <2>3. CASE Finish(p, known.outcome)
    <3>1. known.outcome \notin {"failed", "unsaved"}
      BY DEF Resolve
    <3> HIDE DEF known
    <3> QED
      BY <1>1, <2>3, <3>1, EndSource
  <2> QED
    BY <1>4, <2>1, <2>2, <2>3 DEF LookUpGroup
<1>5. CASE ShowFromDetail(p)
  <2> DEFINE detail == Parse(file["detail"][sources])
  <2>1. CASE Set(p, [local[p] EXCEPT !.fp = sources]) /\ Continue(p, "analyse")
    <3>1. Held([local[p] EXCEPT !.fp = sources], "analyse", sources)
      BY <1>1, <1>5 DEF Held, Fields, ShowFromDetail
    <3> QED
      BY <1>1, <2>1, <3>1, ContinueSource
  <2>2. CASE \E family : Shown(p, family, detail, sources)
    <3>1. detail # None => detail.of = sources
      BY <1>2 DEF Kinds
    <3> HIDE DEF detail
    <3> QED
      BY <1>1, <2>2, <3>1, ShownSource
  <2> QED
    BY <1>5, <2>1, <2>2 DEF ShowFromDetail
<1>6. CASE LoadCurrent(p)
  <2> DEFINE current == Parse(file["snapshot"][sources])
  <2>1. current # None => current.of = sources
    BY <1>2 DEF Kinds
  <2> HIDE DEF current
  <2>2. CASE /\ current # None
             /\ Set(p, [local[p] EXCEPT !.fp = sources, !.now = current])
             /\ Continue(p, "compare")
    <3>1. Held([local[p] EXCEPT !.fp = sources, !.now = current], "compare", sources)
      BY <1>1, <2>1, <2>2 DEF Held, Fields
    <3> QED
      BY <1>1, <2>2, <3>1, ContinueSource
  <2>3. CASE Set(p, [local[p] EXCEPT !.fp = sources]) /\ Continue(p, "analyse")
    <3>1. Held([local[p] EXCEPT !.fp = sources], "analyse", sources)
      BY <1>1, <1>6 DEF Held, Fields, LoadCurrent
    <3> QED
      BY <1>1, <2>3, <3>1, ContinueSource
  <2> QED
    BY <1>6, <2>2, <2>3 DEF LoadCurrent, current
<1>7. CASE CompareBaseline(p)
  <2>1. CASE \E old : Compared(p, old)
    BY <1>1, <2>1, ComparedSource
  <2>2. CASE /\ Set(p, [local[p] EXCEPT !.fp = sources, !.now = None])
             /\ Continue(p, "analyse")
    BY <1>1, <1>3, <2>2, ContinueSource
  <2> QED
    BY <1>7, <2>1, <2>2 DEF CompareBaseline
<1> QED
  BY <1>4, <1>5, <1>6, <1>7

LEMMA EditSource ==
    ASSUME SourceInv, Edit
    PROVE  SourceInv'
<1>1. /\ sources' \in Sources /\ \A p \in Commands : pc[p] # "analyse"
      /\ UNCHANGED <<file, temp, pc, local, answer, faults>>
  BY DEF Edit, files
<1>2. HeldInv'
  BY <1>1 DEF SourceInv, HeldInv, Held
<1> QED
  BY <1>1, <1>2, SaidBefore DEF SourceInv

LEMMA NextSource ==
    ASSUME SourceInv, [Next]_vars
    PROVE  SourceInv'
<1>1. CASE UNCHANGED vars
  <2>1. UNCHANGED <<sources, file, temp, pc, local, answer, faults>>
    BY <1>1 DEF vars
  <2>2. HeldInv'
    BY <2>1 DEF SourceInv, HeldInv
  <2> QED
    BY <2>1, <2>2, SaidBefore DEF SourceInv
<1>2. ASSUME NEW p \in Commands, Step(p)
      PROVE  SourceInv'
  BY <1>2, AnalyseSource, SaveSource, BaselineSource, ReportSource, ReadSource, SweepSource
     DEF Step, SaveSnapshot, SaveDetail
<1> QED
  BY <1>1, <1>2, StartSource, FaultSource, EditSource DEF Next

\* However many commands run on one machine, and however they overlap, are
\* killed or fail, show and diff answer from an analysis of the very sources
\* whose fingerprint they took.
THEOREM SourcesAreNamed == Spec => []AnswersAreCurrent
<1>1. SourceInv => AnswersAreCurrent
  BY DEF SourceInv
<1> QED
  BY <1>1, InitSource, NextSource, PTL DEF Spec

\* Nothing that happens to the files makes an audit, a lint or a show fail, but
\* the failing write of a baseline that an audit was asked to keep.
THEOREM FilesAreBestEffort == Spec => []FilesNeverFailAudits
<1>1. SourceInv => FilesNeverFailAudits
  BY DEF SourceInv
<1> QED
  BY <1>1, InitSource, NextSource, PTL DEF Spec

-----------------------------------------------------------------------------
(* Torn files *)

\* One command at a time: what it has begun to write it has open, and what it
\* is about to rename is whole.
WholeInv == ~overlapped =>
    /\ \A k \in Kinds, f \in Sources : file[k][f] # Torn
    /\ \A p, q \in Commands : pc[p] # "idle" /\ pc[q] # "idle" => p = q
    /\ \A p \in Commands : pc[p] = "fill" => handle[p] = "temp" /\ Temp(p) = Torn
    /\ \A p \in Commands : pc[p] = "rename" => Temp(p) # Torn
    /\ DOMAIN handle = Commands

\* What AfterSave leads to.
LEMMA AfterSaveGoes ==
    ASSUME HeldInv, NEW p \in Commands, AfterSave(p)
    PROVE  /\ \E step \in {"write", "save", "report"} : pc' = [pc EXCEPT ![p] = step]
           /\ \A q \in Commands \ {p} : local'[q] = local[q]
BY DEF AfterSave, Continue, Goto, Set, HeldInv

LEMMA InitWhole == Init => WholeInv
BY MarkersAssumption DEF Init, WholeInv

\* The step of a command that does not go to a step of writing.
LEMMA WholeElsewhere ==
    ASSUME SourceInv, WholeInv, NEW p \in Commands, pc[p] # "idle",
           \E step : /\ step \notin {"fill", "rename"}
                     /\ pc' = [pc EXCEPT ![p] = step],
           \A k \in Kinds, f \in Sources : file[k][f] # Torn => file'[k][f] # Torn,
           overlapped' = overlapped, DOMAIN handle = Commands => DOMAIN handle' = Commands
    PROVE  WholeInv'
<1> SUFFICES ASSUME ~overlapped'
             PROVE  WholeInv'
  BY DEF WholeInv
<1>1. DOMAIN pc = Commands
  BY DEF SourceInv, HeldInv
<1>2. \A q \in Commands \ {p} : pc[q] = "idle"
  BY DEF WholeInv
<1>3. \A q \in Commands \ {p} : pc'[q] = "idle"
  BY <1>1, <1>2
<1>4. pc'[p] \notin {"fill", "rename"}
  BY <1>1
<1> QED
  BY <1>3, <1>4 DEF WholeInv

LEMMA WriteWhole ==
    ASSUME SourceInv, WholeInv, NEW p \in Commands, WriteTemp(p) \/ FillTemp(p) \/ RenameTemp(p)
    PROVE  WholeInv'
<1> SUFFICES ASSUME ~overlapped
             PROVE  WholeInv'
  BY DEF WholeInv, WriteTemp, FillTemp, RenameTemp, meta
<1> DEFINE k == local[p].kind
           f == local[p].fp
<1>1. /\ Held(local[p], pc[p], sources) /\ pc[p] \in {"write", "fill", "rename"}
      /\ overlapped' = overlapped /\ DOMAIN pc = Commands
      /\ DOMAIN handle = Commands
  BY DEF SourceInv, HeldInv, WholeInv, WriteTemp, FillTemp, RenameTemp, meta
<1>2. /\ k \in Kinds /\ f \in Sources /\ local[p].now # Torn
  BY <1>1, MarkersAssumption DEF Held
<1>3. Filed(file) /\ Filed(temp)
  BY DEF SourceInv
<1>4. \A q \in Commands \ {p} : pc[q] = "idle"
  BY <1>1 DEF WholeInv
<1>5. CASE WriteTemp(p)
  <2>1. /\ file' = file /\ local' = local /\ pc' = [pc EXCEPT ![p] = "fill"]
        /\ temp' = [temp EXCEPT ![k][f] = Torn] /\ handle' = [handle EXCEPT ![p] = "temp"]
    BY <1>5 DEF WriteTemp, Continue, Goto
  <2>2. temp'[k][f] = Torn
    BY <1>2, <1>3, <2>1 DEF Filed
  <2> QED
    BY <1>1, <1>4, <2>1, <2>2 DEF WholeInv, Temp
<1>6. CASE FillTemp(p)
  <2>1. handle[p] = "temp" /\ temp[k][f] = Torn
    BY <1>6 DEF FillTemp, WholeInv, Temp
  <2>2. /\ file' = file /\ local' = local /\ pc' = [pc EXCEPT ![p] = "rename"]
        /\ handle' = [handle EXCEPT ![p] = "none"]
        /\ \E c \in Mixed(Temp(p), local[p].now) : temp' = [temp EXCEPT ![k][f] = c]
    BY <1>6, <2>1 DEF FillTemp, Continue, Goto
  <2>3. temp' = [temp EXCEPT ![k][f] = local[p].now]
    BY <2>1, <2>2 DEF Mixed, Temp
  <2>4. temp'[k][f] # Torn
    BY <1>2, <1>3, <2>3 DEF Filed
  <2> QED
    BY <1>1, <1>4, <2>2, <2>4 DEF WholeInv, Temp
<1>7. CASE RenameTemp(p)
  <2>1. PICK step \in {"write", "save", "report"} : pc' = [pc EXCEPT ![p] = step]
    BY <1>7, AfterSaveGoes DEF RenameTemp, SourceInv
  <2>2. DOMAIN handle' = Commands
    BY <1>1, <1>7 DEF RenameTemp, Moved
  <2>3. temp[k][f] # Torn
    BY <1>7 DEF RenameTemp, WholeInv, Temp
  <2>4. \A i \in Kinds, j \in Sources : file[i][j] # Torn => file'[i][j] # Torn
    <3>1. CASE file' = file
      BY <3>1
    <3>2. CASE file' = [file EXCEPT ![k][f] = temp[k][f]]
      BY <1>2, <1>3, <2>3, <3>2 DEF Filed
    <3> QED
      BY <1>7, <3>1, <3>2 DEF RenameTemp, Temp
  <2> QED
    BY <1>1, <2>1, <2>2, <2>4, WholeElsewhere
<1> QED
  BY <1>5, <1>6, <1>7

LEMMA OtherStepWhole ==
    ASSUME SourceInv, WholeInv, NEW p \in Commands,
           \/ Analyse(p) \/ SaveBaseline(p)
           \/ ReportAudit(p) \/ ReportShow(p) \/ ReportDiff(p)
           \/ LookUpGroup(p) \/ ShowFromDetail(p) \/ LoadCurrent(p) \/ CompareBaseline(p)
           \/ BaselineShow(p) \/ BaselineDelete(p) \/ Fault(p)
    PROVE  WholeInv'
<1>1. pc[p] # "idle" /\ file' = file /\ overlapped' = overlapped
  BY DEF Analyse, SaveBaseline, ReportAudit, ReportShow, ReportDiff, LookUpGroup,
         ShowFromDetail, LoadCurrent, CompareBaseline, BaselineShow, BaselineDelete,
         Fault, AnalysisFails, SaveFails, BaselineFails, Kill, files, meta
<1>2. DOMAIN handle = Commands => DOMAIN handle' = Commands
  BY DEF Analyse, SaveBaseline, ReportAudit, ReportShow, ReportDiff, LookUpGroup,
         ShowFromDetail, LoadCurrent, CompareBaseline, BaselineShow, BaselineDelete,
         Fault, AnalysisFails, SaveFails, BaselineFails, Kill, files, meta
<1>3. \E step : step \notin {"fill", "rename"} /\ pc' = [pc EXCEPT ![p] = step]
  <2>1. CASE SaveFails(p)
    BY <2>1, AfterSaveGoes DEF SaveFails, SourceInv
  <2>2. CASE Analyse(p) \/ SaveBaseline(p) \/ BaselineShow(p) \/ BaselineDelete(p)
    BY <2>2 DEF Analyse, SaveBaseline, BaselineShow, BaselineDelete, Continue, Goto, Finish, End
  <2>3. CASE ReportAudit(p) \/ ReportShow(p) \/ ReportDiff(p)
    BY <2>3 DEF ReportAudit, ReportShow, ReportDiff, Goto, Finish, End, Shown, Compared
  <2>4. CASE LookUpGroup(p) \/ ShowFromDetail(p)
    BY <2>4 DEF LookUpGroup, ShowFromDetail, Goto, Continue, Finish, End, Shown
  <2>5. CASE LoadCurrent(p) \/ CompareBaseline(p)
    BY <2>5 DEF LoadCurrent, CompareBaseline, Goto, Continue, End, Compared
  <2>6. CASE AnalysisFails(p) \/ BaselineFails(p) \/ Kill(p)
    BY <2>6 DEF AnalysisFails, BaselineFails, Kill, Goto, Finish, End
  <2> QED
    BY <2>1, <2>2, <2>3, <2>4, <2>5, <2>6 DEF Fault
<1> QED
  BY <1>1, <1>2, <1>3, WholeElsewhere

LEMMA SweepWhole ==
    ASSUME SourceInv, WholeInv, NEW p \in Commands, SweepFile(p) \/ SweepNext(p)
    PROVE  WholeInv'
<1>1. pc[p] = "sweep" /\ overlapped' = overlapped /\ DOMAIN pc = Commands
  BY DEF SweepFile, SweepNext, SourceInv, HeldInv, meta
<1>2. DOMAIN handle = Commands => DOMAIN handle' = Commands
  BY DEF SweepFile, SweepNext
<1>3. pc' = [pc EXCEPT ![p] = "idle"] \/ pc' = pc
  BY DEF SweepFile, SweepNext, Finish, End, Goto, Stay
<1>4. \A k \in Kinds, f \in Sources : file[k][f] # Torn => file'[k][f] # Torn
  <2>1. Filed(file)
    BY DEF SourceInv
  <2>2. \/ file' = file
        \/ \E k, f : file' = [file EXCEPT ![k][f] = None]
    BY DEF SweepFile, SweepNext, files
  <2> QED
    BY <2>1, <2>2, MarkersAssumption DEF Filed
<1>5. CASE pc' = [pc EXCEPT ![p] = "idle"]
  BY <1>1, <1>2, <1>4, <1>5, WholeElsewhere
<1>6. CASE pc' = pc
  <2> SUFFICES ASSUME ~overlapped'
               PROVE  WholeInv'
    BY DEF WholeInv
  <2>1. \A q \in Commands : pc[q] \notin {"fill", "rename"}
    BY <1>1 DEF WholeInv
  <2> QED
    BY <1>1, <1>2, <1>4, <1>6, <2>1 DEF WholeInv
<1> QED
  BY <1>3, <1>5, <1>6

LEMMA StartWhole ==
    ASSUME SourceInv, WholeInv, NEW p \in Commands, Start(p)
    PROVE  WholeInv'
<1> SUFFICES ASSUME ~overlapped'
             PROVE  WholeInv'
  BY DEF WholeInv
<1>1. /\ ~overlapped /\ \A q \in Commands : pc[q] = "idle"
      /\ file' = file /\ handle' = handle
  BY DEF Start, files
<1>2. PICK j \in Asked : pc' = [pc EXCEPT ![p] = FirstStep(j)]
  BY DEF Start, Goto
<1>3. FirstStep(j) \notin {"fill", "rename"}
  BY <1>2, JobsAssumption DEF Jobs, FirstStep
<1>4. DOMAIN pc = Commands
  BY DEF SourceInv, HeldInv
<1>5. \A q \in Commands : /\ pc'[q] \notin {"fill", "rename"}
                          /\ pc'[q] # "idle" => q = p
  BY <1>1, <1>2, <1>3, <1>4
<1> QED
  BY <1>1, <1>5 DEF WholeInv

LEMMA NextWhole ==
    ASSUME SourceInv, WholeInv, [Next]_vars
    PROVE  WholeInv'
<1>1. CASE UNCHANGED vars \/ Edit
  BY <1>1 DEF vars, Edit, files, WholeInv, Temp
<1>2. ASSUME NEW p \in Commands, Step(p)
      PROVE  WholeInv'
  BY <1>2, WriteWhole, OtherStepWhole, SweepWhole DEF Step, SaveSnapshot, SaveDetail
<1>3. ASSUME NEW p \in Commands, Fault(p)
      PROVE  WholeInv'
  BY <1>3, OtherStepWhole
<1> QED
  BY <1>1, <1>2, <1>3, StartWhole DEF Next

\* Kills and full disks alone leave no last snapshot or detail that does not
\* parse: that takes two commands at once, which share a temporary name.
THEOREM TornByOverlapOnly == Spec => []WholeUnlessOverlapped
<1>1. WholeInv => WholeUnlessOverlapped
  BY DEF WholeInv, WholeUnlessOverlapped, SnapshotsAreWhole
<1> QED
  BY <1>1, InitSource, NextSource, InitWhole, NextWhole, PTL DEF Spec

-----------------------------------------------------------------------------
(* Groups that are gone *)

Agree == \A f \in Sources : file["detail"][f] = file["snapshot"][f]

AgreeElsewhere(f) == \A g \in Sources \ {f} : file["detail"][g] = file["snapshot"][g]

\* show may say that a group is gone: it was in a snapshot of other sources, or
\* it was no ranked group there.
Excused(l) ==
    l.then # None => \/ l.then.fp # l.fp
                     \/ l.wanted \notin {{id} : id \in GroupIds(GroupsOf(l.then))}

\* The snapshot is saved first, then the detail of the same audit.
SavesBoth(l) ==
    /\ l.now.fp = l.fp
    /\ l.kind = "snapshot" => Agree
    /\ l.kind = "detail" => AgreeElsewhere(l.fp) /\ file["snapshot"][l.fp] = l.now

\* The snapshots are removed first, then their details.
SweepsBoth(l) ==
    /\ l.todo \subseteq Sources
    /\ \A f \in l.todo : file[l.kind][f] # None
    /\ \A f \in Sources :
          IF f = l.fp \/ (l.kind = "snapshot" /\ f \in l.todo)
          THEN file["detail"][f] = file["snapshot"][f]
          ELSE /\ file["snapshot"][f] = None
               /\ l.kind = "detail" /\ f \notin l.todo => file["detail"][f] = None

\* What the one command at work finds and has found.
Course(p) ==
    LET l == local[p] IN
    /\ pc[p] \in {"write", "fill", "rename"} => SavesBoth(l)
    /\ pc[p] = "rename" => Temp(p) = l.now
    /\ pc[p] = "sweep" => SweepsBoth(l)
    /\ pc[p] \notin {"write", "fill", "rename", "sweep"} => Agree
    /\ pc[p] \in {"look", "detail", "compare", "analyse"} => l.kind = "snapshot"
    /\ l.job.op = "show" =>
          /\ pc[p] # "compare" /\ (pc[p] = "look" => l.then = None)
          /\ pc[p] = "detail" /\ l.then # None =>
                l.then.fp \in Sources /\ file["snapshot"][l.then.fp] = l.then
          /\ pc[p] \notin {"look", "detail"} => Excused(l)

\* As long as commands neither overlap nor fail.
PairInv == ~overlapped /\ faults = 0 =>
    /\ \A k \in Kinds, f \in Sources : file[k][f] \notin {None, Torn} => file[k][f].fp = f
    /\ (\A p \in Commands : pc[p] = "idle") => Agree
    /\ \A p \in Commands : pc[p] # "idle" => Course(p)

\* What the command at work knows when none has failed or overlapped.
LEMMA OneAtWork ==
    ASSUME SourceInv, WholeInv, PairInv, NEW p \in Commands, pc[p] # "idle",
           ~overlapped, faults = 0
    PROVE  /\ Course(p) /\ Held(local[p], pc[p], sources)
           /\ \A q \in Commands \ {p} : pc[q] = "idle"
           /\ DOMAIN pc = Commands /\ DOMAIN local = Commands
           /\ \A k \in Kinds, f \in Sources : file[k][f] # Torn
           /\ \A k \in Kinds, f \in Sources :
                 file[k][f] # None => file[k][f].fp = f
BY DEF SourceInv, HeldInv, WholeInv, PairInv

\* A step of it, and what the step owes.
LEMMA PairStep ==
    ASSUME SourceInv, WholeInv, PairInv, NEW p \in Commands, pc[p] # "idle",
           ~overlapped, faults = 0, NEW step,
           pc' = [pc EXCEPT ![p] = step] \/ (pc' = pc /\ pc[p] = step),
           \A k \in Kinds, f \in Sources :
               file'[k][f] \notin {None, Torn} => file'[k][f].fp = f,
           IF step = "idle" THEN Agree' ELSE Course(p)'
    PROVE  PairInv'
<1>1. /\ \A q \in Commands \ {p} : pc'[q] = "idle"
      /\ pc'[p] = step
  BY OneAtWork
<1> QED
  BY <1>1 DEF PairInv

\* It touches no snapshot and no detail, and neither saves nor sweeps.
LEMMA PairQuiet ==
    ASSUME SourceInv, WholeInv, PairInv, NEW p \in Commands, pc[p] # "idle",
           ~overlapped, faults = 0, NEW step, pc' = [pc EXCEPT ![p] = step],
           file' = file, pc[p] \notin {"write", "fill", "rename", "sweep"},
           step \notin {"write", "fill", "rename", "sweep"},
           step # "idle" =>
              /\ step \in {"look", "detail", "compare", "analyse"} => local'[p].kind = "snapshot"
              /\ local'[p].job.op = "show" =>
                    /\ step \notin {"compare", "look"}
                    /\ step = "detail" /\ local'[p].then # None =>
                          /\ local'[p].then.fp \in Sources
                          /\ file["snapshot"][local'[p].then.fp] = local'[p].then
                    /\ step # "detail" => Excused(local'[p])
    PROVE  PairInv'
<1>1. Agree /\ pc'[p] = step
  BY OneAtWork DEF Course
<1>2. Agree'
  BY <1>1 DEF Agree
<1>3. \A k \in Kinds, f \in Sources :
          file'[k][f] \notin {None, Torn} => file'[k][f].fp = f
  BY DEF PairInv
<1>4. step # "idle" => Course(p)'
  BY <1>1, <1>2 DEF Course, Excused
<1> QED
  BY <1>2, <1>3, <1>4, PairStep

\* A command that begins, and what it finds.
LEMMA PairStart ==
    ASSUME SourceInv, WholeInv, PairInv, NEW p \in Commands, Start(p),
           ~overlapped', faults' = 0
    PROVE  PairInv'
<1>1. /\ \A q \in Commands : pc[q] = "idle"
      /\ ~overlapped /\ faults = 0 /\ file' = file
      /\ DOMAIN pc = Commands /\ DOMAIN local = Commands
  BY DEF Start, files, SourceInv, HeldInv
<1>2. Agree
  BY <1>1 DEF PairInv
<1>3. PICK j \in Asked :
        /\ pc' = [pc EXCEPT ![p] = FirstStep(j)]
        /\ local' = [local EXCEPT ![p] = [Idle EXCEPT
                !.job = j,
                !.fp = IF j.op = "cleanup" /\ ~j.guarded THEN None ELSE sources,
                !.wanted = IF j.op = "show" THEN j.request.id ELSE None,
                !.todo = {f \in Sources : j.op = "cleanup" /\ file["snapshot"][f] # None}]]
  BY DEF Start, Goto, Set
<1>4. /\ FirstStep(j) \in {"analyse", "look", "delete", "sweep"}
      /\ FirstStep(j) = "sweep" => j.op = "cleanup"
  BY JobsAssumption DEF Jobs, FirstStep
<1>5. /\ \A q \in Commands \ {p} : pc'[q] = "idle"
      /\ pc'[p] = FirstStep(j)
  BY <1>1, <1>3
<1>6. /\ local'[p].job = j /\ local'[p].kind = "snapshot" /\ local'[p].then = None
      /\ local'[p].todo = {f \in Sources : j.op = "cleanup" /\ file["snapshot"][f] # None}
  BY <1>1, <1>3 DEF Idle
<1>7. Agree'
  BY <1>1, <1>2 DEF Agree
<1>8. FirstStep(j) = "sweep" => SweepsBoth(local[p])'
  BY <1>1, <1>2, <1>4, <1>6 DEF SweepsBoth, Agree
<1>9. Course(p)'
  BY <1>4, <1>5, <1>6, <1>7, <1>8 DEF Course, Excused, SweepsBoth
<1>10. \A k \in Kinds, f \in Sources : file'[k][f] \notin {None, Torn} => file'[k][f].fp = f
  BY <1>1 DEF PairInv
<1> QED
  BY <1>4, <1>5, <1>9, <1>10 DEF PairInv

\* Analysis and saving: the detail follows the snapshot it belongs to.
LEMMA PairSave ==
    ASSUME SourceInv, WholeInv, PairInv, NEW p \in Commands, ~overlapped, faults = 0,
           Analyse(p) \/ WriteTemp(p) \/ FillTemp(p) \/ RenameTemp(p)
    PROVE  PairInv'
<1> DEFINE l == local[p]
           k == local[p].kind
           f == local[p].fp
<1>1. /\ pc[p] \in {"analyse", "write", "fill", "rename"} /\ pc[p] # "idle"
  BY DEF Analyse, WriteTemp, FillTemp, RenameTemp
<1>2. /\ Course(p) /\ Held(l, pc[p], sources) /\ DOMAIN local = Commands /\ DOMAIN pc = Commands
      /\ \A i \in Kinds, g \in Sources : file[i][g] # None => file[i][g].fp = g
  BY <1>1, OneAtWork
<1>3. CASE Analyse(p)
  <2>1. /\ pc' = [pc EXCEPT ![p] = "write"] /\ pc'[p] = "write" /\ file' = file
        /\ local' = [local EXCEPT ![p] = [l EXCEPT
              !.now = [fp |-> f, of |-> sources, mode |-> ModeOf(l.job)]]]
    BY <1>2, <1>3 DEF Analyse, Continue, Goto, Set, files
  <2>2. /\ local'[p].now.fp = f /\ local'[p].fp = f /\ local'[p].kind = "snapshot"
        /\ local'[p].job = l.job /\ local'[p].then = l.then /\ local'[p].wanted = l.wanted
    BY <1>2, <1>3, <2>1 DEF Held, Fields, Course, Analyse
  <2>3. Agree'
    BY <1>2, <1>3, <2>1 DEF Agree, Course, Analyse
  <2>4. SavesBoth(local[p])'
    BY <2>2, <2>3 DEF SavesBoth
  <2>5. Course(p)'
    BY <1>2, <1>3, <2>1, <2>2, <2>4 DEF Course, Excused, SavesBoth, Analyse
  <2> QED
    BY <1>1, <1>2, <2>1, <2>5, PairStep
<1>4. CASE WriteTemp(p)
  <2>1. pc' = [pc EXCEPT ![p] = "fill"] /\ pc'[p] = "fill" /\ file' = file /\ local' = local
    BY <1>2, <1>4 DEF WriteTemp, Continue, Goto
  <2>2. Course(p)'
    BY <1>2, <1>4, <2>1 DEF Course, SavesBoth, Excused, Agree, AgreeElsewhere, WriteTemp
  <2> QED
    BY <1>1, <1>2, <2>1, <2>2, PairStep
<1>5. CASE FillTemp(p)
  <2>1. handle[p] = "temp" /\ temp[k][f] = Torn
    BY <1>5 DEF FillTemp, WholeInv, Temp
  <2>2. /\ pc' = [pc EXCEPT ![p] = "rename"] /\ pc'[p] = "rename"
        /\ file' = file /\ local' = local
        /\ \E c \in Mixed(Temp(p), l.now) : temp' = [temp EXCEPT ![k][f] = c]
    BY <1>2, <1>5, <2>1 DEF FillTemp, Continue, Goto
  <2>3. temp' = [temp EXCEPT ![k][f] = l.now]
    BY <2>1, <2>2 DEF Mixed, Temp
  <2>4. k \in Kinds /\ f \in Sources /\ Filed(temp)
    BY <1>2, <1>5 DEF Held, FillTemp, SourceInv
  <2>5. Temp(p)' = l.now
    BY <2>2, <2>3, <2>4 DEF Temp, Filed
  <2>6. Course(p)'
    BY <1>2, <1>5, <2>2, <2>5 DEF Course, SavesBoth, Excused, Agree, AgreeElsewhere, FillTemp
  <2> QED
    BY <1>1, <1>2, <2>2, <2>6, PairStep
<1>6. CASE RenameTemp(p)
  <2>1. /\ pc[p] = "rename" /\ SavesBoth(l) /\ Temp(p) = l.now
        /\ k \in Kinds /\ f \in Sources /\ l.now \in Content /\ Filed(file)
    BY <1>2, <1>6 DEF RenameTemp, Course, Held, SourceInv
  <2>2. file' = [file EXCEPT ![k][f] = l.now] /\ AfterSave(p)
    BY <1>6, <2>1, MarkersAssumption DEF RenameTemp
  <2>3. /\ file'[k][f] = l.now
        /\ \A i \in Kinds, g \in Sources : i # k \/ g # f => file'[i][g] = file[i][g]
    BY <2>1, <2>2 DEF Filed
  <2>4. \A i \in Kinds, g \in Sources : file'[i][g] # None => file'[i][g].fp = g
    BY <1>2, <2>1, <2>3 DEF SavesBoth
  <2>5. CASE k = "snapshot"
    <3>1. /\ pc' = [pc EXCEPT ![p] = "write"] /\ pc'[p] = "write"
          /\ local' = [local EXCEPT ![p] = [l EXCEPT !.kind = "detail"]]
      BY <1>2, <2>2, <2>5 DEF AfterSave, Continue, Goto, Set
    <3>2. /\ local'[p].now = l.now /\ local'[p].fp = f /\ local'[p].kind = "detail"
          /\ local'[p].job = l.job /\ local'[p].then = l.then /\ local'[p].wanted = l.wanted
      BY <1>2, <3>1 DEF Held, Fields
    <3>3. \A g \in Sources \ {f} : file'["detail"][g] = file'["snapshot"][g]
      BY <2>1, <2>3, <2>5 DEF SavesBoth, Agree, Kinds
    <3>4. SavesBoth(local[p])'
      BY <2>1, <2>3, <2>5, <3>2, <3>3 DEF SavesBoth, AgreeElsewhere
    <3>5. Course(p)'
      BY <1>2, <2>1, <3>1, <3>2, <3>4 DEF Course, Excused, SavesBoth
    <3> QED
      BY <1>1, <2>4, <3>1, <3>5, PairStep
  <2>6. CASE k = "detail"
    <3>1. PICK step \in {"save", "report"} : pc' = [pc EXCEPT ![p] = step]
      BY <2>2, <2>6 DEF AfterSave, Continue, Goto
    <3>2. local' = local /\ pc'[p] = step
      BY <1>2, <2>2, <2>6, <3>1 DEF AfterSave
    <3>3. Agree'
      BY <2>1, <2>3, <2>6 DEF Agree, AgreeElsewhere, SavesBoth, Kinds
    <3>4. Course(p)'
      BY <1>2, <2>1, <3>2, <3>3 DEF Course, Excused
    <3> QED
      BY <1>1, <2>4, <3>1, <3>2, <3>4, PairStep
  <2> QED
    BY <2>1, <2>5, <2>6 DEF Kinds
<1> QED
  BY <1>3, <1>4, <1>5, <1>6

\* A whole sweep leaves what it spares, with both files.
LEMMA PairSweep ==
    ASSUME SourceInv, WholeInv, PairInv, NEW p \in Commands, ~overlapped, faults = 0,
           SweepFile(p) \/ SweepNext(p)
    PROVE  PairInv'
<1> DEFINE l == local[p]
           k == local[p].kind
<1>1. pc[p] = "sweep"
  BY DEF SweepFile, SweepNext
<1>2. /\ SweepsBoth(l) /\ Held(l, pc[p], sources) /\ DOMAIN local = Commands
      /\ DOMAIN pc = Commands /\ k \in Kinds /\ Filed(file) /\ l.job.op # "show"
      /\ \A i \in Kinds, g \in Sources : file[i][g] # None => file[i][g].fp = g
  BY <1>1, OneAtWork DEF Course, Held, SourceInv
<1>3. CASE SweepFile(p)
  <2>1. PICK f \in l.todo :
         \/ /\ f = l.fp /\ Set(p, [l EXCEPT !.todo = @ \ {f}])
            /\ Stay(p) /\ file' = file
         \/ /\ f # l.fp /\ file[k][f] = None /\ Finish(p, "failed")
         \/ /\ f # l.fp /\ file' = [file EXCEPT ![k][f] = None]
            /\ Set(p, [l EXCEPT !.todo = @ \ {f}]) /\ Stay(p)
    BY <1>3 DEF SweepFile
  <2>2. f \in Sources /\ file[k][f] # None
    BY <1>2, <2>1 DEF SweepsBoth
  <2>3. /\ pc' = pc /\ local' = [local EXCEPT ![p] = [l EXCEPT !.todo = @ \ {f}]]
        /\ \/ f = l.fp /\ file' = file
           \/ f # l.fp /\ file' = [file EXCEPT ![k][f] = None]
    BY <2>1, <2>2 DEF Set, Stay
  <2>4. /\ local'[p].todo = l.todo \ {f} /\ local'[p].kind = k /\ local'[p].fp = l.fp
        /\ local'[p].job = l.job
    BY <1>2, <2>3 DEF Held, Fields
  <2>5. /\ \A i \in Kinds, g \in Sources : i # k \/ g # f => file'[i][g] = file[i][g]
        /\ f # l.fp => file'[k][f] = None
        /\ f = l.fp => file' = file
    BY <1>2, <2>2, <2>3 DEF Filed
  <2>6. SweepsBoth(local[p])'
    <3>1. CASE f = l.fp
      BY <1>2, <2>4, <2>5, <3>1 DEF SweepsBoth
    <3>2. CASE f # l.fp /\ k = "snapshot"
      BY <1>2, <2>2, <2>4, <2>5, <3>2 DEF SweepsBoth, Kinds
    <3>3. CASE f # l.fp /\ k = "detail"
      BY <1>2, <2>2, <2>4, <2>5, <3>3 DEF SweepsBoth, Kinds
    <3> QED
      BY <1>2, <3>1, <3>2, <3>3 DEF Kinds
  <2>7. Course(p)'
    BY <1>1, <1>2, <2>3, <2>4, <2>6 DEF Course
  <2>8. \A i \in Kinds, g \in Sources : file'[i][g] # None => file'[i][g].fp = g
    BY <1>2, <2>2, <2>5
  <2> QED
    BY <1>1, <2>3, <2>7, <2>8, PairStep
<1>4. CASE SweepNext(p) /\ k = "snapshot"
  <2>1. /\ l.todo = {} /\ pc' = pc /\ file' = file
        /\ local' = [local EXCEPT ![p] = [l EXCEPT
              !.kind = "detail", !.todo = {f \in Sources : file["detail"][f] # None}]]
    BY <1>4 DEF SweepNext, Set, Stay, files
  <2>2. /\ local'[p].todo = {f \in Sources : file["detail"][f] # None}
        /\ local'[p].kind = "detail" /\ local'[p].fp = l.fp /\ local'[p].job = l.job
    BY <1>2, <2>1 DEF Held, Fields
  <2>3. SweepsBoth(local[p])'
    BY <1>2, <1>4, <2>1, <2>2 DEF SweepsBoth
  <2>4. Course(p)'
    BY <1>1, <1>2, <2>1, <2>2, <2>3 DEF Course
  <2> QED
    BY <1>1, <1>2, <2>1, <2>4, PairStep
<1>5. CASE SweepNext(p) /\ k # "snapshot"
  <2>1. /\ l.todo = {} /\ file' = file /\ pc' = [pc EXCEPT ![p] = "idle"]
    BY <1>5 DEF SweepNext, Finish, End, Goto, files
  <2>2. k = "detail"
    BY <1>2, <1>5 DEF Kinds
  <2>3. Agree'
    BY <1>2, <2>1, <2>2 DEF Agree, SweepsBoth
  <2> QED
    BY <1>1, <1>2, <2>1, <2>3, PairStep
<1> QED
  BY <1>3, <1>4, <1>5

\* A ranked group is found by its id.
LEMMA FoundById ==
    ASSUME NEW groups, NEW wanted \in {{id} : id \in GroupIds(groups)}
    PROVE  Found(wanted, groups) # {}
<1>1. PICK g \in groups : wanted = {g.id}
  BY DEF GroupIds
<1>2. g \in Family(g, groups)
  BY DEF Family
<1>3. Family(g, groups) \in Families(groups)
  BY DEF Families
<1>4. wanted \in Surfaces(Family(g, groups))
  BY <1>1, <1>2 DEF Surfaces
<1> QED
  BY <1>3, <1>4 DEF Found

\* show, diff and baseline read, and a report ends a command.
LEMMA PairRead ==
    ASSUME SourceInv, WholeInv, PairInv, NEW p \in Commands, ~overlapped, faults = 0,
           \/ SaveBaseline(p) \/ ReportAudit(p) \/ ReportShow(p) \/ ReportDiff(p)
           \/ LookUpGroup(p) \/ ShowFromDetail(p) \/ LoadCurrent(p) \/ CompareBaseline(p)
           \/ BaselineShow(p) \/ BaselineDelete(p)
    PROVE  PairInv'
<1> DEFINE l == local[p]
<1>1. /\ file' = file /\ pc[p] # "idle"
      /\ pc[p] \in {"save", "saving", "report", "look", "detail", "compare", "delete"}
  BY DEF SaveBaseline, ReportAudit, ReportShow, ReportDiff, LookUpGroup, ShowFromDetail,
         LoadCurrent, CompareBaseline, BaselineShow, BaselineDelete, files
<1>2. /\ Course(p) /\ Held(l, pc[p], sources) /\ DOMAIN local = Commands
      /\ \A k \in Kinds, f \in Sources : file[k][f] # Torn
      /\ \A k \in Kinds, f \in Sources : file[k][f] # None => file[k][f].fp = f
      /\ sources \in Sources
  BY <1>1, OneAtWork DEF SourceInv
<1>3. Agree /\ "snapshot" \in Kinds /\ "detail" \in Kinds
  BY <1>1, <1>2 DEF Course, Kinds
<1>4. CASE pc' = [pc EXCEPT ![p] = "idle"]
  BY <1>1, <1>4, PairQuiet
<1>5. CASE SaveBaseline(p)
  <2>1. PICK step \in {"saving", "report"} : pc' = [pc EXCEPT ![p] = step]
    BY <1>5 DEF SaveBaseline, Continue, Goto
  <2>2. local' = local /\ pc[p] \in {"save", "saving"}
    BY <1>5 DEF SaveBaseline
  <2>3. l.job.op = "show" => Excused(l)
    BY <1>2, <2>2 DEF Course
  <2> QED
    BY <1>1, <2>1, <2>2, <2>3, PairQuiet
<1>6. CASE LookUpGroup(p)
  <2> DEFINE snapshot == Parse(file["snapshot"][sources])
  <2>1. l.job.op = "show" /\ l.then = None /\ l.kind = "snapshot"
    BY <1>2, <1>6 DEF Course, LookUpGroup
  <2>2. CASE local' = local /\ Continue(p, "detail")
    <3>1. pc' = [pc EXCEPT ![p] = "detail"]
      BY <2>2 DEF Continue, Goto
    <3> QED
      BY <1>1, <2>1, <2>2, <3>1, PairQuiet
  <2>3. ASSUME NEW id, snapshot # None, Set(p, [l EXCEPT !.then = snapshot, !.wanted = id]),
               Continue(p, "detail")
        PROVE  PairInv'
    <3>1. snapshot = file["snapshot"][sources] /\ snapshot.fp = sources
      BY <1>2, <1>3, <2>3 DEF Parse
    <3> HIDE DEF snapshot
    <3>2. /\ local'[p].then = snapshot /\ local'[p].kind = "snapshot"
          /\ pc' = [pc EXCEPT ![p] = "detail"]
      BY <1>2, <2>1, <2>3 DEF Set, Held, Fields, Continue, Goto
    <3> QED
      BY <1>1, <1>2, <3>1, <3>2, PairQuiet
  <2> QED
    BY <1>4, <1>6, <2>2, <2>3 DEF LookUpGroup, Finish, End, Goto
<1>7. CASE ShowFromDetail(p)
  <2> DEFINE detail == Parse(file["detail"][sources])
             found == IF detail = None THEN {} ELSE Found(l.wanted, GroupsOf(detail))
  <2>1. CASE found = {} /\ Set(p, [l EXCEPT !.fp = sources]) /\ Continue(p, "analyse")
    <3>1. pc[p] = "detail" /\ l.kind = "snapshot"
      BY <1>2, <1>7 DEF ShowFromDetail, Course
    <3>2. /\ local'[p].fp = sources /\ local'[p].then = l.then /\ local'[p].wanted = l.wanted
          /\ local'[p].job = l.job /\ local'[p].kind = "snapshot"
          /\ pc' = [pc EXCEPT ![p] = "analyse"]
      BY <1>2, <2>1, <3>1 DEF Set, Held, Fields, Continue, Goto
    <3>3. l.job.op = "show" => Excused(local'[p])
      <4> SUFFICES ASSUME l.job.op = "show", l.then # None, l.then.fp = sources
                   PROVE  l.wanted \notin {{id} : id \in GroupIds(GroupsOf(l.then))}
        BY <3>2 DEF Excused
      <4>1. file["detail"][sources] = l.then
        BY <1>2, <1>3, <3>1 DEF Course, Agree
      <4>2. detail = l.then
        BY <1>2, <1>3, <4>1 DEF Parse
      <4>3. Found(l.wanted, GroupsOf(l.then)) = {}
        BY <2>1, <4>2
      <4> QED
        BY <4>3, FoundById
    <3> QED
      BY <1>1, <3>2, <3>3, PairQuiet
  <2>2. CASE \E family : Shown(p, family, detail, sources)
    BY <1>4, <2>2 DEF Shown, End, Goto
  <2> QED
    BY <1>7, <2>1, <2>2 DEF ShowFromDetail
<1>8. CASE LoadCurrent(p)
  <2>1. l.job.op = "diff" /\ l.kind = "snapshot"
    BY <1>2, <1>8 DEF LoadCurrent, Course
  <2>2. PICK step \in {"compare", "analyse"} : pc' = [pc EXCEPT ![p] = step]
    BY <1>8 DEF LoadCurrent, Continue, Goto
  <2>3. local'[p].job = l.job /\ local'[p].kind = "snapshot"
    BY <1>2, <1>8, <2>1 DEF LoadCurrent, Set, Held, Fields
  <2> QED
    BY <1>1, <2>1, <2>2, <2>3, PairQuiet
<1>9. CASE CompareBaseline(p)
  <2>1. l.job.op # "show" /\ l.kind = "snapshot"
    BY <1>2, <1>9 DEF CompareBaseline, Course
  <2>2. CASE /\ Set(p, [l EXCEPT !.fp = sources, !.now = None])
             /\ Continue(p, "analyse")
    <3>1. /\ local'[p].job = l.job /\ local'[p].kind = "snapshot"
          /\ pc' = [pc EXCEPT ![p] = "analyse"]
      BY <1>2, <2>1, <2>2 DEF Set, Held, Fields, Continue, Goto
    <3> QED
      BY <1>1, <2>1, <3>1, PairQuiet
  <2> QED
    BY <1>4, <1>9, <2>2 DEF CompareBaseline, Compared, End, Goto
<1>10. CASE \/ ReportAudit(p) \/ ReportShow(p) \/ ReportDiff(p)
            \/ BaselineShow(p) \/ BaselineDelete(p)
  <2>1. pc' = [pc EXCEPT ![p] = "idle"]
    BY <1>10 DEF ReportAudit, ReportShow, ReportDiff, BaselineShow, BaselineDelete, Shown,
                 Compared, Finish, End, Goto
  <2> QED
    BY <1>4, <2>1
<1> QED
  BY <1>5, <1>6, <1>7, <1>8, <1>9, <1>10

\* Every step keeps the snapshot and the detail of one audit together.
LEMMA NextPair ==
    ASSUME SourceInv, WholeInv, PairInv, [Next]_vars
    PROVE  PairInv'
<1> SUFFICES ASSUME ~overlapped', faults' = 0
             PROVE  PairInv'
  BY DEF PairInv
<1>1. CASE UNCHANGED vars \/ Edit
  <2>1. UNCHANGED <<file, temp, pc, local, overlapped, faults>>
    BY <1>1 DEF vars, Edit, files
  <2> QED
    BY <2>1 DEF PairInv, Course, SavesBoth, SweepsBoth, Agree, AgreeElsewhere, Excused, Temp
<1>2. ASSUME NEW p \in Commands, Step(p)
      PROVE  PairInv'
  <2>1. UNCHANGED meta
    BY <1>2 DEF Step, Analyse, SaveSnapshot, SaveDetail, WriteTemp, FillTemp, RenameTemp,
                SaveBaseline, ReportAudit, ReportShow, ReportDiff, LookUpGroup, ShowFromDetail,
                LoadCurrent, CompareBaseline, BaselineShow, BaselineDelete, SweepFile, SweepNext
  <2>2. ~overlapped /\ faults = 0
    BY <2>1 DEF meta
  <2> QED
    BY <1>2, <2>2, PairSave, PairSweep, PairRead DEF Step, SaveSnapshot, SaveDetail
<1>3. ASSUME NEW p \in Commands, Fault(p)
      PROVE  FALSE
  <2>1. faults' = faults + 1 /\ faults \in Nat
    BY <1>3 DEF Fault, AnalysisFails, SaveFails, BaselineFails, Kill, SourceInv
  <2> QED
    BY <2>1
<1> QED
  BY <1>1, <1>2, <1>3, PairStart DEF Next

\* A command that finishes otherwise than by calling a group gone.
LEMMA NotGone ==
    ASSUME NEW p \in Commands, NEW outcome, Finish(p, outcome), outcome # "gone"
    PROVE  answer'.outcome # "gone"
BY DEF Finish, End, NoAnswer

\* What is said, and by which step.
LEMMA NextGone ==
    ASSUME SourceInv, WholeInv, PairInv, GoneIsExplained, [Next]_vars
    PROVE  GoneIsExplained'
<1> SUFFICES ASSUME ~overlapped', faults' = 0, answer'.outcome = "gone"
             PROVE  GoneIsExplained'
  <2>1. faults' \in Nat
    BY NextSource DEF SourceInv
  <2> QED
    BY <2>1 DEF GoneIsExplained
<1>1. CASE answer' = answer
  <2>1. GoneIsExplained /\ ~overlapped /\ faults = 0
    <3>1. faults \in Nat
      BY DEF SourceInv
    <3>2. faults' = faults \/ faults' = faults + 1
      BY DEF Next, Start, Step, Analyse, SaveSnapshot, SaveDetail, WriteTemp, FillTemp, RenameTemp,
             SaveBaseline, ReportAudit, ReportShow, ReportDiff, LookUpGroup, ShowFromDetail,
             LoadCurrent, CompareBaseline, BaselineShow, BaselineDelete, SweepFile, SweepNext,
             Edit, Fault, AnalysisFails, SaveFails, BaselineFails, Kill, meta, vars
    <3>3. overlapped => overlapped'
      BY DEF Next, Start, Step, Analyse, SaveSnapshot, SaveDetail, WriteTemp, FillTemp, RenameTemp,
             SaveBaseline, ReportAudit, ReportShow, ReportDiff, LookUpGroup, ShowFromDetail,
             LoadCurrent, CompareBaseline, BaselineShow, BaselineDelete, SweepFile, SweepNext,
             Edit, Fault, AnalysisFails, SaveFails, BaselineFails, Kill, meta, vars
    <3> QED
      BY <3>1, <3>2, <3>3
  <2> QED
    BY <1>1, <2>1 DEF GoneIsExplained
<1>2. ASSUME NEW p \in Commands, ReportShow(p)
      PROVE  GoneIsExplained'
  <2>1. /\ ~overlapped /\ faults = 0 /\ pc[p] = "report" /\ local[p].job.op = "show"
    BY <1>2 DEF ReportShow, meta
  <2>2. Excused(local[p])
    BY <2>1, OneAtWork DEF Course
  <2>3. /\ Finish(p, "gone") /\ local[p].then # None
    BY <1>2, NotGone DEF ReportShow, Shown, End
  <2>4. answer'.local = local[p]
    BY <2>3 DEF Finish, End, NoAnswer
  <2> QED
    BY <2>2, <2>3, <2>4 DEF GoneIsExplained, Excused
<1>3. ASSUME NEW p \in Commands, LookUpGroup(p)
      PROVE  answer' = answer
  <2> DEFINE known == Resolve(local[p].job.request,
                              GroupsOf(Parse(file["snapshot"][sources])))
  <2>1. known.outcome # "gone"
    BY DEF Resolve
  <2> HIDE DEF known
  <2>2. Continue(p, "detail") \/ Finish(p, known.outcome)
    BY <1>3 DEF LookUpGroup, known
  <2> QED
    BY <2>1, <2>2, NotGone DEF Continue
<1>4. ASSUME NEW p \in Commands, ~ReportShow(p), ~LookUpGroup(p), Step(p)
      PROVE  answer' = answer
  <2>1. CASE Analyse(p) \/ SaveSnapshot(p) \/ SaveDetail(p) \/ SaveBaseline(p)
    BY <2>1 DEF Analyse, SaveSnapshot, SaveDetail, WriteTemp, FillTemp, RenameTemp, AfterSave,
                SaveBaseline, Continue
  <2>2. CASE ReportAudit(p) \/ ReportDiff(p) \/ ShowFromDetail(p) \/ LoadCurrent(p)
             \/ CompareBaseline(p)
    BY <2>2, NotGone DEF ReportAudit, ReportDiff, ShowFromDetail, LoadCurrent, CompareBaseline,
                         Shown, Compared, End, Continue
  <2>3. CASE BaselineShow(p) \/ BaselineDelete(p) \/ SweepFile(p) \/ SweepNext(p)
    BY <2>3, NotGone DEF BaselineShow, BaselineDelete, SweepFile, SweepNext, Stay
  <2> QED
    BY <1>4, <2>1, <2>2, <2>3 DEF Step
<1>5. ASSUME NEW p \in Commands, Start(p) \/ Fault(p)
      PROVE  answer' = answer
  <2>1. NoAnswer.outcome = "none"
    BY DEF NoAnswer
  <2>2. CASE Start(p) \/ Kill(p)
    <3>1. answer' = NoAnswer
      BY <2>2 DEF Start, Kill, End
    <3> QED
      BY <2>1, <3>1
  <2>3. CASE AnalysisFails(p) \/ BaselineFails(p)
    BY <2>3, NotGone DEF AnalysisFails, BaselineFails
  <2>4. CASE SaveFails(p)
    BY <2>4 DEF SaveFails, AfterSave, Continue
  <2> QED
    BY <1>5, <2>2, <2>3, <2>4 DEF Fault
<1>6. CASE UNCHANGED vars \/ Edit
  BY <1>6, <1>1 DEF vars, Edit
<1> QED
  BY <1>1, <1>2, <1>3, <1>4, <1>5, <1>6 DEF Next

\* As long as no commands overlap and none is killed or fails, show calls a
\* ranked group gone only after the sources have changed: whatever was audited,
\* edited, undone and swept in between, the snapshot it saw and the detail it
\* missed the group in are of one audit.
THEOREM GoneMeansChanged == Spec => []GoneIsExplained
<1>1. Init => PairInv /\ GoneIsExplained
  <2> SUFFICES ASSUME Init
               PROVE  PairInv /\ GoneIsExplained
    OBVIOUS
  <2>1. \A k \in Kinds, f \in Sources : file[k][f] = None
    BY DEF Init
  <2>2. Agree /\ \A p \in Commands : pc[p] = "idle"
    BY <2>1 DEF Init, Agree, Kinds
  <2>3. answer.outcome = "none"
    BY DEF Init, NoAnswer
  <2> QED
    BY <2>1, <2>2, <2>3 DEF PairInv, GoneIsExplained
<1> QED
  BY <1>1, InitSource, NextSource, InitWhole, NextWhole, NextPair, NextGone, PTL DEF Spec

=============================================================================
