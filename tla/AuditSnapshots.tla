--------------------------- MODULE AuditSnapshots ---------------------------
(* What an audit leaves for later commands under the cache root, and the
   commands that read it: the ranked groups of the last audit of a
   fingerprint (baseline.rs), the families of the same audit
   (audit_detail.rs), and named baselines.  audit, lint, show, diff, baseline
   and cache-cleanup are processes over these shared files; any of them may
   be killed.  What an audit finds is a constant here (Review): it depends on
   the sources and on the options the command runs with. *)
EXTENDS Naturals, FiniteSets

CONSTANTS
    Commands,     \* processes: command lines that run on this machine
    Sources,      \* states of the workspace; one fingerprint each
    Modes,        \* option sets audits run with, "plain" and "lint" among them
    Review,       \* [Sources -> [Modes -> sets of ranked groups]]
    Names,        \* names of baselines
    Requests,     \* what users pass to `show --group`
    Asked,        \* the command lines in use, of all Jobs
    Serial,       \* TRUE: a command starts only when the others have ended
    MaxRuns,      \* bound: command lines started
    MaxFaults,    \* bound: kills and failed writes
    MaxEdits,     \* bound: changes of the sources
    None, Torn    \* no file; a file that does not parse

Kinds == {"snapshot", "detail"}

(* A file stands for the audit it was written by: the fingerprint it is filed
   under, the sources that were analysed and the options. *)
Content == [fp : Sources, of : Sources, mode : Modes]
Parse(file) == IF file = Torn THEN None ELSE file

(* A ranked group has an id, a pair id, members, a digest of its evidence and,
   for the actions that replace one declaration by another, a target. *)
GroupsOf(c) == Review[c.of][c.mode]
\* Ids are sets of atoms: those of groups, members and pairs have one, those of
\* families the pairs they digest.
GroupIds(groups) == {g.id : g \in groups}
KnownIds(groups) == {{id} : id \in GroupIds(groups) \cup UNION {g.members : g \in groups}}

(* Groups with one target and action are shown as one family, whose id is a
   digest of its pairs; a group of its own keeps its id. *)
Family(g, groups) == IF g.target = None THEN {g} ELSE {h \in groups : h.target = g.target}
Families(groups)  == {Family(g, groups) : g \in groups}
FamilyId(family) ==
    IF Cardinality(family) = 1 THEN GroupIds(family) ELSE {g.pair : g \in family}
Surfaces(family) ==
    {FamilyId(family)} \cup {{g.id} : g \in family} \cup {{g.pair} : g \in family}
Found(id, groups) == {family \in Families(groups) : id \in Surfaces(family)}

(* What is passed to show, looked up among the ids of the last snapshot: the
   whole id, or else the only id it begins, or else the only id it ends. *)
Hits(request, ids) ==
    IF request.begins \cap ids # {} THEN request.begins \cap ids ELSE request.ends \cap ids
Resolve(request, groups) ==
    LET ids  == KnownIds(groups)
        hits == Hits(request, ids)
    IN  CASE request.id # None /\ request.id \in ids -> [outcome |-> "id", id |-> request.id]
          [] request.short                           -> [outcome |-> "short", id |-> None]
          [] OTHER ->
               IF Cardinality(hits) = 1
               THEN [outcome |-> "id", id |-> CHOOSE id \in hits : TRUE]
               ELSE [outcome |-> IF hits = {} THEN "unknown" ELSE "ambiguous", id |-> None]

(* The comparison of two snapshots by id and digest of the evidence. *)
Diff(before, after) ==
    [appeared    |-> {g \in after  : g.id \notin GroupIds(before)},
     disappeared |-> {g \in before : g.id \notin GroupIds(after)},
     changed     |-> {g \in after  : \E h \in before : h.id = g.id /\ h.digest # g.digest}]

Jobs == [op : {"audit"}, mode : Modes \ {"lint"}, name : Names \cup {None}]
        \cup [op : {"lint"}, mode : {"lint"}, name : {None}]
        \cup [op : {"show"}, request : Requests, cached : BOOLEAN]
        \cup [op : {"diff"}, name : Names, cached : BOOLEAN]
        \cup [op : {"baseline"}, name : Names, action : {"show", "delete"}]
        \cup [op : {"cleanup"}, guarded : BOOLEAN]
ASSUME JobsAssumption == Asked \subseteq Jobs /\ {"plain", "lint"} \subseteq Modes
ASSUME MarkersAssumption == None # Torn /\ {None, Torn} \cap Content = {}
ModeOf(j) == IF j.op \in {"audit", "lint"} THEN j.mode ELSE "plain"

VARIABLES
    sources,      \* the workspace's sources
    file,         \* [Kinds -> [Sources -> file]]: last-snapshot, last-audit-detail
    temp,         \* the same with .json.tmp
    named,        \* [Names -> file]: the baselines
    pc,           \* per command: its next step
    local,        \* per command: what it was asked and what it holds
    handle,       \* per command: where the file it is writing is by now
    answer,       \* the last report, until another command starts
    runs, faults, edits,
    overlapped    \* some command has started while another was running
vars  == <<sources, file, temp, named, pc, local, handle, answer, runs, faults, edits, overlapped>>
files == <<file, temp, named>>
meta  == <<runs, faults, edits, overlapped>>

Idle == [job |-> None, fp |-> None, now |-> None, then |-> None, wanted |-> None,
         kind |-> "snapshot", todo |-> {}]
NoAnswer == [outcome |-> "none", local |-> Idle, family |-> {}, diff |-> None]
TypeOK ==
    /\ sources \in Sources
    /\ file \in [Kinds -> [Sources -> Content \cup {None, Torn}]]
    /\ temp \in [Kinds -> [Sources -> Content \cup {None, Torn}]]
    /\ named \in [Names -> Content \cup {None, Torn}]
    /\ pc \in [Commands -> {"idle", "analyse", "write", "fill", "rename", "save", "saving",
                            "report", "look", "detail", "compare", "delete", "sweep"}]
    /\ \A p \in Commands :
         /\ pc[p] = "idle" => local[p] = Idle
         /\ pc[p] # "idle" => local[p].job \in Jobs
         /\ local[p].fp \in Sources \cup {None}
         /\ local[p].now \in Content \cup {None}
         /\ local[p].then \in Content \cup {None}
         /\ local[p].kind \in Kinds
         /\ local[p].todo \subseteq Sources
    /\ handle \in [Commands -> {"none", "temp", "file", "lost"}]
    /\ runs \in 0..MaxRuns /\ faults \in 0..MaxFaults /\ edits \in 0..MaxEdits
    /\ overlapped \in BOOLEAN

Init ==
    /\ sources \in Sources
    /\ file = [k \in Kinds |-> [f \in Sources |-> None]]
    /\ temp = file
    /\ named = [n \in Names |-> None]
    /\ pc = [p \in Commands |-> "idle"]
    /\ local = [p \in Commands |-> Idle]
    /\ handle = [p \in Commands |-> "none"]
    /\ answer = NoAnswer
    /\ runs = 0 /\ faults = 0 /\ edits = 0 /\ overlapped = FALSE

-----------------------------------------------------------------------------
(* Steps of one command. *)

Goto(p, step) == pc' = [pc EXCEPT ![p] = step]
Stay(p)       == pc' = pc /\ answer' = answer
Continue(p, step) == Goto(p, step) /\ answer' = answer
Set(p, fields) == local' = [local EXCEPT ![p] = fields]
Here(p)  == file[local[p].kind][local[p].fp]
Temp(p)  == temp[local[p].kind][local[p].fp]

(* A command ends; what it held goes into its report. *)
End(p, a) ==
    /\ Goto(p, "idle")
    /\ Set(p, Idle)
    /\ answer' = a
Finish(p, outcome) == End(p, [NoAnswer EXCEPT !.outcome = outcome, !.local = local[p]])

FirstStep(j) ==
    CASE j.op \in {"audit", "lint"}     -> "analyse"
      [] j.op \in {"show", "diff"}      -> IF j.cached THEN "look" ELSE "analyse"
      [] j.op = "baseline"              -> IF j.action = "show" THEN "look" ELSE "delete"
      [] j.op = "cleanup"               -> "sweep"

(* A command line: the workspace is resolved and fingerprinted first.  show
   without the cache looks for what it was given. *)
Start(p) ==
    /\ pc[p] = "idle"
    /\ runs < MaxRuns
    /\ Serial => \A q \in Commands : pc[q] = "idle"
    /\ \E j \in Asked :
         /\ Goto(p, FirstStep(j))
         /\ Set(p, [Idle EXCEPT
                 !.job = j,
                 !.fp = IF j.op = "cleanup" /\ ~j.guarded THEN None ELSE sources,
                 !.wanted = IF j.op = "show" THEN j.request.id ELSE None,
                 !.todo = {f \in Sources : j.op = "cleanup" /\ file["snapshot"][f] # None}])
    /\ answer' = NoAnswer
    /\ runs' = runs + 1
    /\ overlapped' = (overlapped \/ \E q \in Commands : pc[q] # "idle")
    /\ UNCHANGED <<sources, files, handle, faults, edits>>

(* The pipeline from the index to the hints, or an error of it. *)
Analyse(p) ==
    /\ pc[p] = "analyse"
    /\ Set(p, [local[p] EXCEPT
            !.now = [fp |-> local[p].fp, of |-> sources, mode |-> ModeOf(local[p].job)]])
    /\ Continue(p, "write")
    /\ UNCHANGED <<sources, files, handle, meta>>
AnalysisFails(p) ==
    /\ pc[p] = "analyse"
    /\ faults < MaxFaults
    /\ Finish(p, "failed")
    /\ faults' = faults + 1
    /\ UNCHANGED <<sources, files, handle, runs, edits, overlapped>>

\* Mutant: an audit leaves the detail of the one before it.
AfterSaveOfSome(p) ==
    IF local[p].kind = "snapshot" /\ local[p].job.op # "audit"
    THEN /\ Set(p, [local[p] EXCEPT !.kind = "detail"])
         /\ Continue(p, "write")
    ELSE /\ local' = local
         /\ Continue(p, "report")
(* After the snapshot comes the detail, then the baseline if one was asked
   for; a failed write of the first two is an event of the progress log. *)
AfterSave(p) ==
    IF local[p].kind = "snapshot"
    THEN /\ Set(p, [local[p] EXCEPT !.kind = "detail"])
         /\ Continue(p, "write")
    ELSE /\ local' = local
         /\ Continue(p, IF local[p].job.op = "audit" /\ local[p].job.name # None
                        THEN "save" ELSE "report")

(* std::fs::write opens with truncation, then writes; the file it has open may
   meanwhile be renamed, replaced or removed by others. *)
Mixed(old, mine) == IF old \in {mine, Torn} THEN {mine} ELSE {mine, Torn}

\* Mutant: the file is written in place.
WriteInPlace(p) ==
    /\ pc[p] = "write"
    /\ file' = [file EXCEPT ![local[p].kind][local[p].fp] = Torn]
    /\ handle' = [handle EXCEPT ![p] = "file"]
    /\ Continue(p, "fill")
    /\ UNCHANGED <<sources, temp, named, local, meta>>
WriteTemp(p) ==
    /\ pc[p] = "write"
    /\ temp' = [temp EXCEPT ![local[p].kind][local[p].fp] = Torn]
    /\ handle' = [handle EXCEPT ![p] = "temp"]
    /\ Continue(p, "fill")
    /\ UNCHANGED <<sources, file, named, local, meta>>

FillTemp(p) ==
    /\ pc[p] = "fill"
    /\ \/ /\ handle[p] = "temp"
          /\ \E c \in Mixed(Temp(p), local[p].now) :
               temp' = [temp EXCEPT ![local[p].kind][local[p].fp] = c]
          /\ file' = file
       \/ /\ handle[p] = "file"
          /\ \E c \in Mixed(Here(p), local[p].now) :
               file' = [file EXCEPT ![local[p].kind][local[p].fp] = c]
          /\ temp' = temp
       \/ /\ handle[p] = "lost"
          /\ UNCHANGED <<file, temp>>
    /\ handle' = [handle EXCEPT ![p] = "none"]
    /\ Continue(p, "rename")
    /\ UNCHANGED <<sources, named, local, meta>>

(* The rename publishes whatever now has the temporary name; another command's
   rename of that name makes this one fail. *)
Filling(q, k, f) == pc[q] = "fill" /\ local[q].kind = k /\ local[q].fp = f
Moved(p) ==
    [q \in Commands |->
        IF ~Filling(q, local[p].kind, local[p].fp) THEN handle[q]
        ELSE IF handle[q] = "temp" THEN "file" ELSE "lost"]
\* Mutants: filed under the sources as they are now; an error ends the command.
RenameToCurrent(p) ==
    /\ pc[p] = "rename"
    /\ Temp(p) # None
    /\ file' = [file EXCEPT ![local[p].kind][sources] = Temp(p)]
    /\ temp' = [temp EXCEPT ![local[p].kind][local[p].fp] = None]
    /\ handle' = Moved(p)
    /\ AfterSave(p)
    /\ UNCHANGED <<sources, named, meta>>
RenameOrFail(p) ==
    /\ pc[p] = "rename"
    /\ \/ /\ Temp(p) # None
          /\ file' = [file EXCEPT ![local[p].kind][local[p].fp] = Temp(p)]
          /\ temp' = [temp EXCEPT ![local[p].kind][local[p].fp] = None]
          /\ handle' = Moved(p)
          /\ AfterSave(p)
       \/ /\ Temp(p) = None
          /\ Finish(p, "failed")
          /\ UNCHANGED <<file, temp, handle>>
    /\ UNCHANGED <<sources, named, meta>>
RenameTemp(p) ==
    /\ pc[p] = "rename"
    /\ \/ /\ Temp(p) # None
          /\ file' = [file EXCEPT ![local[p].kind][local[p].fp] = Temp(p)]
          /\ temp' = [temp EXCEPT ![local[p].kind][local[p].fp] = None]
          /\ handle' = Moved(p)
       \/ /\ Temp(p) = None
          /\ UNCHANGED <<file, temp, handle>>
    /\ AfterSave(p)
    /\ UNCHANGED <<sources, named, meta>>

SaveSnapshot(p) ==
    local[p].kind = "snapshot" /\ (WriteTemp(p) \/ FillTemp(p) \/ RenameTemp(p))
SaveDetail(p) ==
    local[p].kind = "detail" /\ (WriteTemp(p) \/ FillTemp(p) \/ RenameTemp(p))

(* A full disk: the write of a file fails after it was created. *)
SaveFails(p) ==
    /\ pc[p] = "fill"
    /\ faults < MaxFaults
    /\ handle' = [handle EXCEPT ![p] = "none"]
    /\ AfterSave(p)
    /\ faults' = faults + 1
    /\ UNCHANGED <<sources, files, runs, edits, overlapped>>

(* A named baseline is written in place, and an error of that write ends the
   audit: `baseline::save(...)?`. *)
SaveBaseline(p) ==
    LET name == local[p].job.name IN
    /\ \/ /\ pc[p] = "save"
          /\ named' = [named EXCEPT ![name] = Torn]
          /\ handle' = [handle EXCEPT ![p] = "file"]
          /\ Continue(p, "saving")
       \/ /\ pc[p] = "saving"
          /\ IF handle[p] = "file"
             THEN \E c \in Mixed(named[name], local[p].now) :
                      named' = [named EXCEPT ![name] = c]
             ELSE named' = named
          /\ handle' = [handle EXCEPT ![p] = "none"]
          /\ Continue(p, "report")
    /\ UNCHANGED <<sources, file, temp, local, meta>>

BaselineFails(p) ==
    /\ pc[p] \in {"save", "saving"}
    /\ faults < MaxFaults
    /\ handle' = [handle EXCEPT ![p] = "none"]
    /\ Finish(p, "unsaved")
    /\ faults' = faults + 1
    /\ UNCHANGED <<sources, files, runs, edits, overlapped>>

(* The end of an audit or lint, and of the slow paths of show and diff. *)
Shown(p, family, detail, f) ==
    End(p, [outcome |-> "ok", local |-> [local[p] EXCEPT !.now = detail, !.fp = f],
            family |-> family, diff |-> None])
Compared(p, old) ==
    End(p, [outcome |-> "ok", local |-> [local[p] EXCEPT !.then = old], family |-> {},
            diff |-> Diff(GroupsOf(old), GroupsOf(local[p].now))])

ReportAudit(p) ==
    /\ pc[p] = "report" /\ local[p].job.op \in {"audit", "lint"}
    /\ Finish(p, "ok")
    /\ UNCHANGED <<sources, files, handle, meta>>
ReportShow(p) ==
    /\ pc[p] = "report" /\ local[p].job.op = "show"
    /\ LET found == Found(local[p].wanted, GroupsOf(local[p].now))
           was   == local[p].then
       IN  \/ \E family \in found : Shown(p, family, local[p].now, local[p].fp)
           \/ /\ found = {}
              /\ Finish(p, IF was # None /\ local[p].wanted \in KnownIds(GroupsOf(was))
                           THEN "gone" ELSE "unknown")
    /\ UNCHANGED <<sources, files, handle, meta>>
ReportDiff(p) ==
    /\ pc[p] = "report" /\ local[p].job.op = "diff"
    /\ LET old == Parse(named[local[p].job.name])
       IN  IF old = None THEN Finish(p, "failed") ELSE Compared(p, old)
    /\ UNCHANGED <<sources, files, handle, meta>>

-----------------------------------------------------------------------------
(* The fast paths. *)

(* show: load_snapshot_for, then resolve_group.  `then` keeps the snapshot for
   the wording of a later error. *)
LookUpGroup(p) ==
    /\ pc[p] = "look" /\ local[p].job.op = "show"
    /\ LET snapshot == Parse(file["snapshot"][sources])
           known    == Resolve(local[p].job.request, GroupsOf(snapshot))
       IN  \/ /\ snapshot = None
              /\ Continue(p, "detail")
              /\ local' = local
           \/ /\ snapshot # None
              /\ known.outcome = "id"
              /\ Set(p, [local[p] EXCEPT !.then = snapshot, !.wanted = known.id])
              /\ Continue(p, "detail")
           \/ /\ snapshot # None
              /\ known.outcome # "id"
              /\ Finish(p, known.outcome)
    /\ UNCHANGED <<sources, files, handle, meta>>

(* try_show_from_detail resolves and fingerprints the workspace again; on a
   miss show runs the whole audit with the default options. *)
ShowFromDetail(p) ==
    /\ pc[p] = "detail"
    /\ LET detail == Parse(file["detail"][sources])
           found  == IF detail = None THEN {} ELSE Found(local[p].wanted, GroupsOf(detail))
       IN  \/ /\ found = {}
              /\ Set(p, [local[p] EXCEPT !.fp = sources])
              /\ Continue(p, "analyse")
           \/ \E family \in found : Shown(p, family, detail, sources)
    /\ UNCHANGED <<sources, files, handle, meta>>

(* diff: the last snapshot of the sources as they are now ... *)
LoadCurrent(p) ==
    /\ pc[p] = "look" /\ local[p].job.op = "diff"
    /\ LET current == Parse(file["snapshot"][sources])
       IN  IF current # None /\ current.fp = sources
           THEN /\ Set(p, [local[p] EXCEPT !.fp = sources, !.now = current])
                /\ Continue(p, "compare")
           ELSE /\ Set(p, [local[p] EXCEPT !.fp = sources])
                /\ Continue(p, "analyse")
    /\ UNCHANGED <<sources, files, handle, meta>>
(* ... and the baseline; without one the slow path gives the error. *)
CompareBaseline(p) ==
    /\ pc[p] = "compare"
    /\ LET old == Parse(named[local[p].job.name])
       IN  IF old # None THEN Compared(p, old)
           ELSE /\ Set(p, [local[p] EXCEPT !.fp = sources, !.now = None])
                /\ Continue(p, "analyse")
    /\ UNCHANGED <<sources, files, handle, meta>>

(* baseline show says "not found" for a file that does not parse, too. *)
BaselineShow(p) ==
    /\ pc[p] = "look" /\ local[p].job.op = "baseline"
    /\ Finish(p, IF Parse(named[local[p].job.name]) = None THEN "unknown" ELSE "ok")
    /\ UNCHANGED <<sources, files, handle, meta>>
BaselineDelete(p) ==
    /\ pc[p] = "delete"
    /\ LET name == local[p].job.name IN
       IF named[name] = None
       THEN Finish(p, "unknown") /\ UNCHANGED <<named, handle>>
       ELSE /\ named' = [named EXCEPT ![name] = None]
            /\ handle' = [q \in Commands |->
                 IF pc[q] = "saving" /\ local[q].job.name = name THEN "lost" ELSE handle[q]]
            /\ Finish(p, "ok")
    /\ UNCHANGED <<sources, file, temp, meta>>

(* cache-cleanup: the listing of a directory, file by file; only .json files,
   so temporary files stay, and none of the protected fingerprint.  A listed
   file that is gone by now ends the command. *)
SweepFile(p) ==
    /\ pc[p] = "sweep"
    /\ \E f \in local[p].todo :
         LET k == local[p].kind IN
         \/ /\ f = local[p].fp
            /\ Set(p, [local[p] EXCEPT !.todo = @ \ {f}])
            /\ Stay(p)
            /\ UNCHANGED <<file, handle>>
         \/ /\ f # local[p].fp /\ file[k][f] = None
            /\ Finish(p, "failed")
            /\ UNCHANGED <<file, handle>>
         \/ /\ f # local[p].fp /\ file[k][f] # None
            /\ file' = [file EXCEPT ![k][f] = None]
            /\ handle' = [q \in Commands |->
                 IF Filling(q, k, f) /\ handle[q] = "file" THEN "lost" ELSE handle[q]]
            /\ Set(p, [local[p] EXCEPT !.todo = @ \ {f}])
            /\ Stay(p)
    /\ UNCHANGED <<sources, temp, named, meta>>
SweepNext(p) ==
    /\ pc[p] = "sweep"
    /\ local[p].todo = {}
    /\ IF local[p].kind = "snapshot"
       THEN /\ Set(p, [local[p] EXCEPT !.kind = "detail",
                                       !.todo = {f \in Sources : file["detail"][f] # None}])
            /\ Stay(p)
       ELSE Finish(p, "ok")
    /\ UNCHANGED <<sources, files, handle, meta>>

-----------------------------------------------------------------------------
(* The user edits between commands or while one reads, but not between the
   fingerprint of an audit and its analysis. *)
Edit ==
    /\ \A p \in Commands : pc[p] # "analyse"
    /\ edits < MaxEdits
    /\ sources' \in Sources \ {sources}
    /\ edits' = edits + 1
    /\ UNCHANGED <<files, pc, local, handle, answer, runs, faults, overlapped>>

Kill(p) ==
    /\ pc[p] # "idle"
    /\ faults < MaxFaults
    /\ End(p, NoAnswer)
    /\ handle' = [handle EXCEPT ![p] = "none"]
    /\ faults' = faults + 1
    /\ UNCHANGED <<sources, files, runs, edits, overlapped>>

Step(p) ==
    \/ Analyse(p) \/ SaveSnapshot(p) \/ SaveDetail(p) \/ SaveBaseline(p)
    \/ ReportAudit(p) \/ ReportShow(p) \/ ReportDiff(p)
    \/ LookUpGroup(p) \/ ShowFromDetail(p) \/ LoadCurrent(p) \/ CompareBaseline(p)
    \/ BaselineShow(p) \/ BaselineDelete(p) \/ SweepFile(p) \/ SweepNext(p)
Fault(p) == AnalysisFails(p) \/ SaveFails(p) \/ BaselineFails(p) \/ Kill(p)
Next == Edit \/ \E p \in Commands : Start(p) \/ Step(p) \/ Fault(p)
Spec == Init /\ [][Next]_vars

-----------------------------------------------------------------------------
(* What show and diff answer from, a file or an audit of their own, is an
   analysis of the sources whose fingerprint they took: files are kept under
   the fingerprint of the audit that wrote them (save_last, load_last). *)
AnswersAreCurrent ==
    answer.local.now # None => answer.local.now.of = answer.local.fp

(* "was in the last audit snapshot but is missing from current findings -
   source files may have changed" is said of a ranked group only when they
   have, or when a fault or two commands at once kept the snapshot and the
   detail of one audit from being there together (decorate_unknown_group). *)
GoneIsExplained ==
    answer.outcome = "gone" =>
        \/ answer.local.then.fp # answer.local.fp
        \/ answer.local.wanted \notin {{id} : id \in GroupIds(GroupsOf(answer.local.then))}
        \/ overlapped
        \/ faults > 0

(* "The file is written atomically (tmp + rename) so concurrent audits never
   expose a half-written snapshot" (save_last): no last snapshot or detail
   that does not parse. *)
SnapshotsAreWhole == \A k \in Kinds, f \in Sources : file[k][f] # Torn

(* Kills and full disks never leave one; two commands at once can. *)
WholeUnlessOverlapped == ~overlapped => SnapshotsAreWhole

(* "Best-effort: failures are reported but must not break the audit command":
   audit, lint and show fail only when the pipeline does, before they have
   findings to save, whatever other commands do to the files.  What else can
   end an audit is the write of a baseline that was asked for by name. *)
FilesNeverFailAudits ==
    /\ answer.outcome = "failed" /\ answer.local.job.op \in {"audit", "lint", "show"} =>
           faults > 0 /\ answer.local.now = None
    /\ answer.outcome = "unsaved" =>
           faults > 0 /\ answer.local.job.op = "audit" /\ answer.local.job.name # None
=============================================================================
