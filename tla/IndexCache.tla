----------------------------- MODULE IndexCache -----------------------------
(***************************************************************************)
(* One label directory of the on-disk index cache, as several lean-dup     *)
(* processes share it: auditors run IndexStore::build_or_reuse, resolve    *)
(* the label and hydrate what they opened; cleaners run cache-cleanup;     *)
(* users edit sources and run `lake build` at any moment.  Any process can *)
(* die between two steps and only the files survive.                       *)
(*                                                                         *)
(* An index directory is named by its cache key, and the key is a digest   *)
(* of the workspace's path and sources: here a key is a workspace paired   *)
(* with the version of its sources.  The mathlib that projects pin is      *)
(* indexed without a path, so that projects with the same mathlib share    *)
(* one entry.  The rows come from compiled artifacts, so the contents of   *)
(* an entry are the version of the artifacts they were extracted from.     *)
(***************************************************************************)
EXTENDS Naturals, FiniteSets

CONSTANTS
    Auditors,       \* processes that run an audit or an index command
    Cleaners,       \* processes that run `cache-cleanup --execute`
    Workspaces,     \* the Lake workspaces that share this label
    Versions,       \* contents the sources of a workspace can have
    WorkspaceOf,    \* the workspace each auditor works on
    Kind,           \* IndexBuildKind of the label
    RequireOleans,  \* IndexBuildRequest.require_oleans
    Mortal,         \* the processes that may be killed
    OneAtATime,     \* TRUE: the user runs one lean-dup process at a time
    OnePerKey,      \* TRUE: nobody asks for an entry that another builds
    MaxFaults,      \* bound on the kills and worker failures of a behaviour
    None, Torn      \* "no value", and a pointer file that does not parse

Kinds == {"Local", "External", "ProjectMathlib"}

ASSUME ConstantsAssumption ==
    /\ WorkspaceOf \in [Auditors -> Workspaces]
    /\ Kind \in Kinds
    /\ RequireOleans \in BOOLEAN
    /\ OneAtATime \in BOOLEAN /\ OnePerKey \in BOOLEAN
    /\ MaxFaults \in Nat
    /\ Mortal \subseteq Auditors \cup Cleaners

\* index_cache_key's workspace_root.
Place(w) == IF Kind = "ProjectMathlib" THEN "project-pinned-mathlib" ELSE w

Key == {<<Place(w), v>> : w \in Workspaces, v \in Versions}

ASSUME MarkersAssumption ==
    /\ None \notin Auditors /\ None \notin Versions /\ None \notin Key
    /\ Torn \notin Key /\ Torn # None

\* Only the index commands take --force; an audit never does.
ForceChoices == IF Kind = "Local" THEN {FALSE} ELSE BOOLEAN

\* write_batched_sqlite_index serves mathlib, write_sqlite_index the others.
Batched == Kind = "ProjectMathlib"

-----------------------------------------------------------------------------
(* State *)

VARIABLES
    source, olean,                 \* the workspaces on disk
    dirs,                          \* index directories that exist
    temp, index, corpus, latest,   \* index.tmp.sqlite, index.sqlite,
                                   \* corpus.sqlite, latest.json
    pc, key, force, extracted, opened,          \* each auditor
    cpc, protected, removable, victim, todo,    \* each cleaner
    faults

workspaceVars == <<source, olean>>
entryVars     == <<dirs, temp, index, corpus>>
auditVars     == <<pc, key, force, extracted, opened>>
cleanerVars   == <<cpc, protected, removable, victim, todo>>
vars == <<workspaceVars, entryVars, latest, auditVars, cleanerVars, faults>>

(* A database file: what a reader of its metadata and rows would see, and   *)
(* the process that still has it open for writing.  "schema": the tables    *)
(* only; "keyed": the cache key is visible and the rows are not; "full":    *)
(* the build transaction is committed.                                      *)
FileStates == {"absent", "schema", "keyed", "full"}
File == [state : FileStates, rows : Versions \cup {None},
         writer : Auditors \cup {None}]
NoFile == [state |-> "absent", rows |-> None, writer |-> None]

Exists(files, k)  == files[k].state # "absent"

\* The files of a directory, as remove_dir_all meets them.
FileNames == {"temp", "index", "corpus"}
FilesIn(k) ==
    {f \in FileNames : \/ f = "temp" /\ Exists(temp, k)
                       \/ f = "index" /\ Exists(index, k)
                       \/ f = "corpus" /\ corpus[k] # None}

\* sqlite_cache_is_current: schema version and cache key of index.sqlite,
\* and of nothing else.
Current(k) == index[k].state \in {"keyed", "full"}

AuditPcs == {"idle", "lookup", "extract", "prepare", "open", "stream",
             "publish", "commit", "replace", "point", "pointing",
             "resolve", "hydrate", "done", "failed"}
CleanerPcs == {"idle", "list", "sweep", "remove"}

Resting == {"idle", "done", "failed"}
Alone == OneAtATime => /\ \A a \in Auditors : pc[a] \in Resting
                       /\ \A c \in Cleaners : cpc[c] = "idle"

\* expected_entry, from the sources as they are now.
KeyNow(w) == <<Place(w), source[w]>>

\* An auditor that builds an entry or may yet decide to.
Building == {"lookup", "extract", "prepare", "open", "stream",
             "publish", "commit", "replace"}
Vacant(k) == OnePerKey => \A a \in Auditors : pc[a] \in Building => key[a] # k

Init ==
    /\ source \in [Workspaces -> Versions]
    /\ olean \in [Workspaces -> Versions \cup {None}]
    /\ dirs = {}
    /\ temp = [k \in Key |-> NoFile]
    /\ index = [k \in Key |-> NoFile]
    /\ corpus = [k \in Key |-> None]
    /\ latest = None
    /\ pc = [a \in Auditors |-> "idle"]
    /\ key = [a \in Auditors |-> None]
    /\ force = [a \in Auditors |-> FALSE]
    /\ extracted = [a \in Auditors |-> None]
    /\ opened = [a \in Auditors |-> None]
    /\ cpc = [c \in Cleaners |-> "idle"]
    /\ protected = [c \in Cleaners |-> {}]
    /\ removable = [c \in Cleaners |-> {}]
    /\ victim = [c \in Cleaners |-> None]
    /\ todo = [c \in Cleaners |-> {}]
    /\ faults = 0

WorkspaceTypeOK ==
    /\ source \in [Workspaces -> Versions]
    /\ olean \in [Workspaces -> Versions \cup {None}]

EntryTypeOK ==
    /\ dirs \subseteq Key
    /\ temp \in [Key -> File]
    /\ index \in [Key -> File]
    /\ corpus \in [Key -> Versions \cup {None}]
    /\ latest \in Key \cup {None, Torn}
    /\ faults \in 0 .. MaxFaults

AuditTypeOK ==
    /\ pc \in [Auditors -> AuditPcs]
    /\ key \in [Auditors -> Key \cup {None}]
    /\ force \in [Auditors -> BOOLEAN]
    /\ extracted \in [Auditors -> Versions \cup {None}]
    /\ opened \in [Auditors -> Key \cup {None}]
    /\ \A a \in Auditors :
         /\ key[a] = None <=> pc[a] = "idle"
         /\ pc[a] \in {"publish", "commit"} => extracted[a] # None
         /\ ~Batched /\ pc[a] \in {"prepare", "open"} => extracted[a] # None
         /\ pc[a] = "hydrate" => opened[a] # None

CleanerTypeOK ==
    /\ cpc \in [Cleaners -> CleanerPcs]
    /\ protected \in [Cleaners -> SUBSET Key]
    /\ removable \in [Cleaners -> SUBSET Key]
    /\ victim \in [Cleaners -> Key \cup {None}]
    /\ todo \in [Cleaners -> SUBSET FileNames]
    /\ \A c \in Cleaners : cpc[c] = "remove" => victim[c] # None

\* Every variable in its range, and the phase of a process in step with the
\* key, rows and directory it holds.
TypeOK == WorkspaceTypeOK /\ EntryTypeOK /\ AuditTypeOK /\ CleanerTypeOK

-----------------------------------------------------------------------------
(* Helpers of the auditors' actions *)

At(a, here) == pc[a] = here
Goto(a, there) == pc' = [pc EXCEPT ![a] = there]

\* The kernel closes the files of a process that returns or dies.
Closed(files, a) ==
    [k \in Key |-> IF files[k].writer = a
                   THEN [files[k] EXCEPT !.writer = None] ELSE files[k]]

\* An error return of build_or_reuse, resolve or hydrate.
Fail(a) ==
    /\ Goto(a, "failed")
    /\ temp' = Closed(temp, a)
    /\ index' = Closed(index, a)
    /\ UNCHANGED <<dirs, corpus>>

AuditorOnly == UNCHANGED <<workspaceVars, cleanerVars>>
KeepJob == UNCHANGED <<key, force, extracted, opened>>

-----------------------------------------------------------------------------
(* An auditor: build_or_reuse, resolve, hydrate                            *)

\* require_oleans_if_requested, the worker handshake and expected_entry: the
\* key is the digest of the sources as they are now.  Where require_oleans
\* is refused nothing has changed yet, so the refusal is a disabled action.
RequestIndex(a) ==
    LET w == WorkspaceOf[a] IN
    /\ At(a, "idle")
    /\ Alone
    /\ Vacant(KeyNow(w))
    /\ RequireOleans => olean[w] # None
    /\ key' = [key EXCEPT ![a] = KeyNow(w)]
    /\ \E f \in ForceChoices : force' = [force EXCEPT ![a] = f]
    /\ Goto(a, "lookup")
    /\ UNCHANGED <<extracted, opened, entryVars, latest, faults>>
    /\ AuditorOnly

\* Mutant: a reused entry is not made the latest one.
ReuseWithoutPointer(a) ==
    /\ At(a, "lookup")
    /\ ~force[a] /\ Current(key[a])
    /\ Goto(a, "resolve")
    /\ UNCHANGED <<entryVars, latest, faults>>
    /\ KeepJob /\ AuditorOnly

ReuseEntry(a) ==
    /\ At(a, "lookup")
    /\ ~force[a] /\ Current(key[a])
    /\ Goto(a, "point")
    /\ UNCHANGED <<entryVars, latest, faults>>
    /\ KeepJob /\ AuditorOnly

\* Mutant: rebuilds an entry whether or not it is current.
MissEntryAlways(a) ==
    /\ At(a, "lookup")
    /\ Goto(a, IF Batched THEN "prepare" ELSE "extract")
    /\ UNCHANGED <<entryVars, latest, faults>>
    /\ KeepJob /\ AuditorOnly

MissEntry(a) ==
    /\ At(a, "lookup")
    /\ force[a] \/ ~Current(key[a])
    /\ Goto(a, IF Batched THEN "prepare" ELSE "extract")
    /\ UNCHANGED <<entryVars, latest, faults>>
    /\ KeepJob /\ AuditorOnly

\* extract_batch and features_batch: one worker child answers both from one
\* imported environment, so the rows have the version of the artifacts it
\* loaded.  Without artifacts the import fails.
ExtractBatch(a) ==
    /\ At(a, "extract")
    /\ IF olean[WorkspaceOf[a]] = None
       THEN Fail(a) /\ UNCHANGED extracted
       ELSE /\ extracted' = [extracted EXCEPT ![a] = olean[WorkspaceOf[a]]]
            /\ Goto(a, "prepare")
            /\ UNCHANGED entryVars
    /\ UNCHANGED <<key, force, opened, latest, faults>>
    /\ AuditorOnly

\* Mutant: a left-over temp file is not removed.
PrepareKeepsTemp(a) ==
    /\ At(a, "prepare")
    /\ dirs' = dirs \cup {key[a]}
    /\ Goto(a, "open")
    /\ UNCHANGED <<temp, index, corpus, latest, faults>>
    /\ KeepJob /\ AuditorOnly

\* create_dir_all, and the removal of a left-over index.tmp.sqlite, which may
\* be another process's live file: that process keeps an unlinked file.
PrepareTemp(a) ==
    /\ At(a, "prepare")
    /\ dirs' = dirs \cup {key[a]}
    /\ temp' = [temp EXCEPT ![key[a]] = NoFile]
    /\ Goto(a, "open")
    /\ UNCHANGED <<index, corpus, latest, faults>>
    /\ KeepJob /\ AuditorOnly

\* Mutant: the index is written in place instead of beside itself.
OpenInPlace(a) ==
    LET k == key[a]
        fresh == [state |-> IF Batched THEN "keyed" ELSE "schema",
                  rows |-> None, writer |-> a] IN
    /\ At(a, "open")
    /\ k \in dirs
    /\ index' = [index EXCEPT ![k] = fresh]
    /\ Goto(a, IF Batched THEN "stream" ELSE "publish")
    /\ UNCHANGED <<dirs, temp, corpus, latest, faults>>
    /\ KeepJob /\ AuditorOnly

\* Connection::open, initialize_schema and, in the batched writer, the
\* metadata outside any transaction.  CREATE TABLE fails on a file that
\* already has the tables; open fails when the directory is gone.
OpenTemp(a) ==
    LET k == key[a]
        fresh == [state |-> IF Batched THEN "keyed" ELSE "schema",
                  rows |-> None, writer |-> a] IN
    /\ At(a, "open")
    /\ IF k \in dirs /\ ~Exists(temp, k)
       THEN /\ temp' = [temp EXCEPT ![k] = fresh]
            /\ Goto(a, IF Batched THEN "stream" ELSE "publish")
            /\ UNCHANGED <<dirs, index, corpus>>
       ELSE Fail(a)
    /\ UNCHANGED <<latest, faults>>
    /\ KeepJob /\ AuditorOnly

\* index_stream inside BEGIN IMMEDIATE: rows arrive and stay uncommitted.
IndexStream(a) ==
    /\ At(a, "stream")
    /\ IF olean[WorkspaceOf[a]] = None
       THEN Fail(a) /\ UNCHANGED extracted
       ELSE /\ extracted' = [extracted EXCEPT ![a] = olean[WorkspaceOf[a]]]
            /\ Goto(a, "publish")
            /\ UNCHANGED entryVars
    /\ UNCHANGED <<key, force, opened, latest, faults>>
    /\ AuditorOnly

\* StoreBuilder::publish, the last thing before the commit in both writers.
PublishCorpus(a) ==
    /\ At(a, "publish")
    /\ IF key[a] \in dirs
       THEN /\ corpus' = [corpus EXCEPT ![key[a]] = extracted[a]]
            /\ Goto(a, "commit")
            /\ UNCHANGED <<dirs, temp, index>>
       ELSE Fail(a)
    /\ UNCHANGED <<latest, faults>>
    /\ KeepJob /\ AuditorOnly

\* Mutant: the pointer is written before the temp file is renamed.
CommitThenPoint(a) ==
    LET full == [state |-> "full", rows |-> extracted[a], writer |-> None] IN
    /\ At(a, "commit")
    /\ temp' = [temp EXCEPT ![key[a]] = full]
    /\ Goto(a, "point")
    /\ UNCHANGED <<dirs, index, corpus, latest, faults>>
    /\ KeepJob /\ AuditorOnly

\* COMMIT: the process's own file becomes complete, under whichever name
\* another process's rename has left it, or under none.
CommitIndex(a) ==
    LET full == [state |-> "full", rows |-> extracted[a], writer |-> None]
        Committed(files) ==
            [k \in Key |-> IF files[k].writer = a THEN full ELSE files[k]] IN
    /\ At(a, "commit")
    /\ temp' = Committed(temp)
    /\ index' = Committed(index)
    /\ Goto(a, "replace")
    /\ UNCHANGED <<dirs, corpus, latest, faults>>
    /\ KeepJob /\ AuditorOnly

\* replace_file renames whatever is at index.tmp.sqlite by now.
ReplaceFile(a) ==
    LET k == key[a] IN
    /\ At(a, "replace")
    /\ IF Exists(temp, k)
       THEN /\ index' = [index EXCEPT ![k] = temp[k]]
            /\ temp' = [temp EXCEPT ![k] = NoFile]
            /\ Goto(a, "point")
            /\ UNCHANGED <<dirs, corpus>>
       ELSE Fail(a)
    /\ UNCHANGED <<latest, faults>>
    /\ KeepJob /\ AuditorOnly

\* write_latest is std::fs::write: the old pointer is truncated first, and
\* written afterwards.
TruncateLatest(a) ==
    /\ At(a, "point")
    /\ latest' = Torn
    /\ Goto(a, "pointing")
    /\ UNCHANGED <<entryVars, faults>>
    /\ KeepJob /\ AuditorOnly

WriteLatest(a) ==
    /\ At(a, "pointing")
    /\ latest' = key[a]
    /\ Goto(a, "resolve")
    /\ UNCHANGED <<entryVars, faults>>
    /\ KeepJob /\ AuditorOnly

\* declaration_count of the entry just written, then IndexStore::resolve of
\* the LABEL, which follows the pointer as it is now and checks the schema
\* version of the index it leads to.
Resolve(a) ==
    /\ At(a, "resolve")
    /\ IF /\ Exists(index, key[a])
          /\ latest \in Key
          /\ Current(latest)
       THEN /\ opened' = [opened EXCEPT ![a] = latest]
            /\ Goto(a, "hydrate")
            /\ UNCHANGED entryVars
       ELSE Fail(a) /\ UNCHANGED opened
    /\ UNCHANGED <<key, force, extracted, latest, faults>>
    /\ AuditorOnly

\* all_handles and hydrate: display rows from index.sqlite, features from
\* corpus.sqlite; without handles the corpus is not even opened.
Hydrate(a) ==
    LET k == opened[a] IN
    /\ At(a, "hydrate")
    /\ IF /\ Current(k)
          /\ index[k].state = "full" => corpus[k] # None
       THEN Goto(a, "done") /\ UNCHANGED entryVars
       ELSE Fail(a)
    /\ UNCHANGED <<latest, faults>>
    /\ KeepJob /\ AuditorOnly

Forget(a) ==
    /\ key' = [key EXCEPT ![a] = None]
    /\ force' = [force EXCEPT ![a] = FALSE]
    /\ extracted' = [extracted EXCEPT ![a] = None]
    /\ opened' = [opened EXCEPT ![a] = None]

Finish(a) ==
    /\ pc[a] \in {"done", "failed"}
    /\ Goto(a, "idle") /\ Forget(a)
    /\ UNCHANGED <<entryVars, latest, faults>>
    /\ AuditorOnly

\* A worker command fails, or its rows do not pair up or cannot be inserted:
\* the error returns from build_or_reuse and the temp file stays behind.
WorkerFails(a) ==
    /\ pc[a] \in {"extract", "stream", "publish"}
    /\ faults < MaxFaults
    /\ faults' = faults + 1
    /\ Fail(a)
    /\ UNCHANGED latest
    /\ KeepJob /\ AuditorOnly

AuditorDies(a) ==
    /\ a \in Mortal
    /\ pc[a] \notin Resting
    /\ faults < MaxFaults
    /\ faults' = faults + 1
    /\ Goto(a, "idle") /\ Forget(a)
    /\ temp' = Closed(temp, a)
    /\ index' = Closed(index, a)
    /\ UNCHANGED <<dirs, corpus, latest>>
    /\ AuditorOnly

-----------------------------------------------------------------------------
(* A cleaner: cleanup_cache with policy.execute                            *)

CleanerOnly == UNCHANGED <<workspaceVars, auditVars>>

\* Mutant: only the requested entry is protected.
ReadProtectedRequest(c) ==
    /\ cpc[c] = "idle"
    /\ Alone
    /\ \E requested \in SUBSET Workspaces :
         /\ Cardinality(requested) <= 1
         /\ protected' = [protected EXCEPT ![c] =
                {KeyNow(w) : w \in requested}]
    /\ cpc' = [cpc EXCEPT ![c] = "list"]
    /\ UNCHANGED <<entryVars, latest, removable, victim, todo, faults>>
    /\ CleanerOnly

\* protected_dirs: the entry the workspace given on the command line would
\* publish, if one is given, and the target of a pointer that parses.
ReadProtected(c) ==
    /\ cpc[c] = "idle"
    /\ Alone
    /\ \E requested \in SUBSET Workspaces :
         /\ Cardinality(requested) <= 1
         /\ protected' = [protected EXCEPT ![c] =
                {KeyNow(w) : w \in requested} \cup ({latest} \cap Key)]
    /\ cpc' = [cpc EXCEPT ![c] = "list"]
    /\ UNCHANGED <<entryVars, latest, removable, victim, todo, faults>>
    /\ CleanerOnly

\* index_dirs: every directory of the label, split by protection.
ListDirs(c) ==
    /\ cpc[c] = "list"
    /\ removable' = [removable EXCEPT ![c] = dirs \ protected[c]]
    /\ cpc' = [cpc EXCEPT ![c] = "sweep"]
    /\ UNCHANGED <<entryVars, latest, protected, victim, todo, faults>>
    /\ CleanerOnly

EndSweep(c) ==
    /\ cpc' = [cpc EXCEPT ![c] = "idle"]
    /\ protected' = [protected EXCEPT ![c] = {}]
    /\ removable' = [removable EXCEPT ![c] = {}]
    /\ victim' = [victim EXCEPT ![c] = None]
    /\ todo' = [todo EXCEPT ![c] = {}]

\* remove_dir_all of the next removable directory: it lists the directory,
\* unlinks what it listed and then removes the directory.  A directory that
\* is already gone is an error, and an error ends the whole cleanup.
EnterDir(c) ==
    /\ cpc[c] = "sweep"
    /\ \E k \in removable[c] :
         IF k \in dirs
         THEN /\ victim' = [victim EXCEPT ![c] = k]
              /\ todo' = [todo EXCEPT ![c] = FilesIn(k)]
              /\ cpc' = [cpc EXCEPT ![c] = "remove"]
              /\ UNCHANGED <<protected, removable>>
         ELSE EndSweep(c)
    /\ UNCHANGED <<entryVars, latest, faults>>
    /\ CleanerOnly

SweepDone(c) ==
    /\ cpc[c] = "sweep"
    /\ removable[c] = {}
    /\ EndSweep(c)
    /\ UNCHANGED <<entryVars, latest, faults>>
    /\ CleanerOnly

RemoveFile(c) ==
    LET k == victim[c] IN
    /\ cpc[c] = "remove"
    /\ \E f \in todo[c] :
         /\ todo' = [todo EXCEPT ![c] = @ \ {f}]
         /\ temp' = IF f = "temp" THEN [temp EXCEPT ![k] = NoFile] ELSE temp
         /\ index' = IF f = "index" THEN [index EXCEPT ![k] = NoFile] ELSE index
         /\ corpus' = IF f = "corpus"
                      THEN [corpus EXCEPT ![k] = None] ELSE corpus
    /\ UNCHANGED <<dirs, latest, cpc, protected, removable, victim, faults>>
    /\ CleanerOnly

\* The final rmdir: refused when a file has appeared since the listing.
RemoveDir(c) ==
    LET k == victim[c] IN
    /\ cpc[c] = "remove"
    /\ todo[c] = {}
    /\ IF k \in dirs /\ FilesIn(k) = {}
       THEN /\ dirs' = dirs \ {k}
            /\ removable' = [removable EXCEPT ![c] = @ \ {k}]
            /\ victim' = [victim EXCEPT ![c] = None]
            /\ cpc' = [cpc EXCEPT ![c] = "sweep"]
            /\ UNCHANGED <<protected, todo>>
       ELSE EndSweep(c) /\ UNCHANGED dirs
    /\ UNCHANGED <<temp, index, corpus, latest, faults>>
    /\ CleanerOnly

CleanerDies(c) ==
    /\ c \in Mortal
    /\ cpc[c] # "idle"
    /\ faults < MaxFaults
    /\ faults' = faults + 1
    /\ EndSweep(c)
    /\ UNCHANGED <<entryVars, latest>>
    /\ CleanerOnly

-----------------------------------------------------------------------------
(* The workspaces, from the outside *)

EditSource(w) ==
    /\ \E v \in Versions \ {source[w]} : source' = [source EXCEPT ![w] = v]
    /\ UNCHANGED <<olean, entryVars, latest, auditVars, cleanerVars, faults>>

LakeBuild(w) ==
    /\ olean[w] # source[w]
    /\ olean' = [olean EXCEPT ![w] = source[w]]
    /\ UNCHANGED <<source, entryVars, latest, auditVars, cleanerVars, faults>>

-----------------------------------------------------------------------------
AuditorStep(a) ==
    \/ RequestIndex(a) \/ ReuseEntry(a) \/ MissEntry(a)
    \/ ExtractBatch(a) \/ PrepareTemp(a) \/ OpenTemp(a) \/ IndexStream(a)
    \/ PublishCorpus(a) \/ CommitIndex(a) \/ ReplaceFile(a)
    \/ TruncateLatest(a) \/ WriteLatest(a)
    \/ Resolve(a) \/ Hydrate(a) \/ Finish(a)

CleanerStep(c) ==
    \/ ReadProtected(c) \/ ListDirs(c) \/ EnterDir(c) \/ SweepDone(c)
    \/ RemoveFile(c) \/ RemoveDir(c)

Next ==
    \/ \E a \in Auditors : AuditorStep(a) \/ WorkerFails(a) \/ AuditorDies(a)
    \/ \E c \in Cleaners : CleanerStep(c) \/ CleanerDies(c)
    \/ \E w \in Workspaces : EditSource(w) \/ LakeBuild(w)

Spec == Init /\ [][Next]_vars

(* Processes that were started run on.  Somebody builds the workspace and    *)
(* asks for audits again and again, also when cleanups are asked for between  *)
(* them; nobody has to edit, clean or die.                                    *)
Fairness ==
    /\ \A a \in Auditors : WF_vars(AuditorStep(a)) /\ SF_vars(RequestIndex(a))
    /\ \A c \in Cleaners : WF_vars(CleanerStep(c) /\ cpc[c] # "idle")
    /\ \A w \in Workspaces : WF_vars(LakeBuild(w))

FairSpec == Spec /\ Fairness

-----------------------------------------------------------------------------
(* Properties *)

Complete(k) == index[k].state = "full" /\ corpus[k] # None

BeingRemoved(k) == \E c \in Cleaners : victim[c] = k

\* What sqlite_cache_is_current accepts can be served: the build transaction
\* is committed and the corpus beside it is published.  The next audit with
\* this key will not rebuild, so an incomplete entry is never repaired.
CurrentEntryIsComplete ==
    \A k \in Key : Current(k) /\ ~BeingRemoved(k) => Complete(k)

\* A pointer that parses leads to an entry that resolve and hydrate can open,
\* whoever died or was edited under it.
LatestTargetIsComplete == latest \in Key => Complete(latest)

\* The same for whoever reuses an entry, a mathlib that another project may have
\* indexed: it was finished, when it was found and as long as it is read.
SharedReuseIsSafe ==
    \A a \in Auditors :
        /\ extracted[a] = None
        /\ pc[a] \in {"point", "pointing", "resolve", "hydrate", "done"}
        => Complete(key[a])

\* The display rows and the feature rows of an entry come from one extraction:
\* index.sqlite and corpus.sqlite are two files, replaced at two moments.
EntryIsOneBuild ==
    \A k \in Key : Complete(k) => index[k].rows = corpus[k]

\* The entry an audit reads is the one its own build_or_reuse produced: the
\* label it resolves is shared by every workspace under the cache root.
AuditOpensOwnEntry ==
    \A a \in Auditors : pc[a] \in {"hydrate", "done"} => opened[a] = key[a]

\* Cleanup never takes a file out of the entry the pointer leads to.
CleanupSparesActive ==
    [][\A c \in Cleaners : RemoveFile(c) => victim[c] # latest]_vars

\* After the last fault audits succeed again: no left-over temp file, torn
\* pointer or half-built entry blocks a workspace for good.  What does is an
\* entry that a killed cleanup leaves without its corpus and that passes for
\* current, so that nobody builds it again.
AuditsRecover ==
    []<>CurrentEntryIsComplete => \A a \in Auditors : []<>(pc[a] = "done")

-----------------------------------------------------------------------------
(* What the steps of a builder maintain when nobody else works in its        *)
(* directory: the inductive invariant behind CurrentEntryIsComplete and      *)
(* LatestTargetIsComplete.                                                   *)

OwnEntries ==
    /\ Cleaners = {}
    /\ \/ OnePerKey
       \/ /\ Kind # "ProjectMathlib"
          /\ \A a, b \in Auditors : WorkspaceOf[a] = WorkspaceOf[b] => a = b

Writing == {"stream", "publish", "commit"}

\* A job stays in the directories of its own place, and nobody else builds there.
KeyInv ==
    /\ \A a \in Auditors : key[a] # None => key[a][1] = Place(WorkspaceOf[a])
    /\ \A a, b \in Auditors :
           pc[a] \in Building /\ pc[b] \in Building /\ key[a] = key[b] => a = b

\* A temp file is open only in the builder of that very key.
TempInv ==
    \A k \in Key, a \in Auditors :
        temp[k].writer = a => pc[a] \in Writing /\ key[a] = k

\* A published index is committed, closed and has its corpus.
IndexInv ==
    \A k \in Key : /\ index[k].state \in {"absent", "full"}
                   /\ index[k].writer = None
                   /\ index[k].state = "full" => corpus[k] # None

BuildAt(a) ==
    /\ pc[a] \in Writing => temp[key[a]].writer = a
    /\ pc[a] = "replace" => temp[key[a]].state = "full"
    /\ pc[a] \in {"commit", "replace"} => corpus[key[a]] # None
    /\ pc[a] \in {"point", "pointing"} => index[key[a]].state = "full"

BuildInv == \A a \in Auditors : BuildAt(a)

\* What was published, or found, for a job stays published.
Served == {"resolve", "hydrate", "done"}
ServedInv ==
    \A a \in Auditors : pc[a] \in Served => index[key[a]].state = "full"

LatestInv == latest \in Key => index[latest].state = "full"

EntryInv == KeyInv /\ TempInv /\ IndexInv /\ BuildInv /\ ServedInv /\ LatestInv

=============================================================================
