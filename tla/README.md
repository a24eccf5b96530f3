# lean-dup: TLA+ models, checks and proofs

lean-dup is a Rust command-line program that finds declarations of a Lean 4
workspace which duplicate other declarations. It asks a Lean worker process for
declarations and features, keeps them in an index cache, retrieves and ranks
pairs, asks the worker to confirm them with kernel probes, and reports groups.
This directory holds TLA+ modules that model its stateful parts and the pure
functions between them, TLC configurations that check them on small instances,
and proofs that TLAPS checks for every value of the constants.

Paths below are relative to the repository (`src/` in PROJECT.json).

| modules | system part | runs | proved |
|---|---|---|---|
| `IndexCache` | processes that share one directory of the index cache | `index_private`, `index_shared`, `index_sole` | `IndexCacheProofs` |
| `CacheDiagnosis` | what `doctor` says of that directory and what cleanup would remove | `index_sole` | `IndexCacheProofs` |
| `IndexBuild` | how the rows of one index come together | `index_stream`, `index_slow_features` | `IndexBuildProofs` |
| `WorkerSession`, `WorkerService` | the engine that talks to the Lean worker, and what it promises | `session_shared`, `session_service` | `WorkerSessionProofs` |
| `ProbeVerification` | the verification loop and the verdict store | `probe_careful` | `ProbeVerificationProofs` |
| `ImportClosure` | the memoised search for import closures | within `audit_pipeline` | `AuditPipelineProofs` |
| `ProbePlanning` | which pairs are asked about, and under which keys | within `audit_pipeline` | `AuditPipelineProofs` |
| `Retrieval` | which declarations are compared, under limits of fan-out and number | within `audit_pipeline`, `evaluation` | `AuditPipelineProofs` |
| `Ranking` | relations, blockers, queue order, families, replacement hints | within `audit_pipeline`, `evaluation` | `AuditPipelineProofs` |
| `LintFocus` | which declarations a lint of files, names or changes is about | within `audit_pipeline` | `AuditPipelineProofs` |
| `AuditPipeline` | one audit from the corpus to the report of lint | `audit_pipeline` | `AuditPipelineProofs` |
| `Observation`, `Evaluation` | what evaluation sees of a search, its scores, suites and gate | `evaluation` | `EvaluationProofs` |
| `AuditSnapshots` | last snapshot, last detail and baselines, shared by all commands | `snapshots` | `AuditSnapshotsProofs` |
| `WorkerInstall` | installation and resolution of the worker | `worker_install` | `WorkerInstallProofs` |

To check: `tlc -config <run>.cfg MC<module>.tla` (PROJECT.json names the module
of each run), `tlapm <module>Proofs.tla`.

## Inventory

| component | state it keeps | operations | interacts with |
|---|---|---|---|
| index cache (`crates/index/src/index.rs`, `cache.rs`) | per label: one directory per cache key with `index.sqlite` and `corpus.sqlite`, and `latest.json` | `build_or_reuse`, `resolve`, `hydrate` | worker (rows), cleanup, every other lean-dup process through the file system |
| cache diagnosis and cleanup (`cache_lifecycle.rs`) | none of its own | `diagnose_*`, `cleanup_cache` | index cache files |
| index build (`index.rs`, `lean/LeanDup/Index.lean`) | ranges, tasks, rows that wait for their counterpart | `emitIndexRanges`, `StreamingIndexWriter`, `write_sqlite_index` | worker session (frames), index cache (the file) |
| probe verdict store (`probe_store.rs`) | one SQLite table keyed by a digest | `load`, `store` | probe verification |
| import graph (`import_graph.rs`) | `ModuleClosureResolver`: source roots, memos of direct imports, closures and content digests | `closure_digest`, `closure_members` | build artifacts, probe planning |
| probe verification (`search/semantic_verification.rs`) | settings, planned pairs, evidence by pair | `plan_probes`, `cached_probe`, `run_probe_chunk`, `probe_cache_key` | worker, probe store, import graph |
| worker session (`worker/src/worker/mod.rs`, `engine/subprocess.rs`) | child process, session map, cancel flag, frame channels | `run_command`, `session`, `retire`, `drive_command` | Lean worker, index build, verification |
| Lean worker (`lean/LeanDup/*.lean`) | imported environment, heartbeat budget | handshake, extract, features, index stream, probe batch | worker session |
| baselines, audit detail, their cleanup (`baseline.rs`, `audit_detail.rs`, `workspace_cleanup.rs`) | last snapshot, last detail, named baselines, all files per fingerprint | `save_last`, `load_last`, `diff`, sweep | `audit`, `lint`, `show`, `diff` commands |
| retrieval (`retrieval.rs`) | none between runs | postings, fan-out limits, selection by score and lane | index cache, planning |
| ranking, review policy, scoring (`ranking.rs`, `review_policy.rs`, `scorer.rs`, `pair_features.rs`) | none between runs | `rank_candidates`, visibility, order of the queue | retrieval, verification, source facts |
| replacement hints, source references (`replacement_hints.rs`, `source_refs.rs`) | files read, uses found | `attach_replacement_hints`, `collect_references` | ranking, the workspace's files |
| audit workflow (`search/audit.rs`) | the stages of one audit | `run_audit_workflow` | everything above |
| reports (`report/src/*`) | none | JSON and text reports, lint outcome and exit code | everything above |
| evaluation (`eval/src/*`, `observation.rs`) | reports of suites | label resolution, scores, traces, ablations, production gate | retrieval, review policy |
| CLI (`cli/src/*`) | none | command dispatch, focus of lint (`changed.rs`), argument parsing | everything above |
| worker installation and toolchain (`install_worker.rs`, `toolchain.rs`) | worker executable and its sidecar | install, smoke test, currentness, resolution | worker session |
| project (`project/src/*`) | none | workspace and mathlib discovery, fingerprint | CLI, index cache |
| external provenance (`external_provenance.rs`) | none | a table of the mathlib index joined at audit time | index cache, retrieval |
| embedding, vector index, vector search | vector cache, vector table | optional semantic retrieval | retrieval |
| diagnostics, test-support | logs | progress and performance counters | none of them changes the state above |

PROJECT.json lists all of them with their status and, under `hazards`, each
place in the code where something can go wrong that a test would hardly reach.

### How an audit runs through the parts

`audit` builds or reuses the indexes (`IndexCache`); a missing one is filled
from the worker (`IndexBuild`), over the session (`WorkerSession`), whose
executable was installed before (`WorkerInstall`). Retrieval and a cheap ranking
turn the indexes into candidate pairs (`Retrieval`, `Ranking`), of which
`plan_probes` chooses those worth a verdict of Lean and computes a key for each
(`ProbePlanning`, with `ImportClosure`). Verdicts come from the store or, in
chunks, from the worker (`ProbeVerification`). The pairs are ranked again with
the verdicts, uses are looked for, hints attached and the report projected
(`AuditPipeline`, which composes these steps). Snapshots for `show` and `diff`
are written last (`AuditSnapshots`). Evaluation observes the same retrieval and
review policy under labels (`Observation`, `Evaluation`).

### What is hard in it

* Several lean-dup processes share one cache root without any lock. The index
  cache publishes through temp files, renames and a pointer file; the baselines
  through fixed temp names; installers through one executable and one sidecar; a
  cleanup deletes concurrently with all of them. Any process may be killed
  between two steps.
* A cache key names what went into an entry. What the key leaves out can change
  under a valid key: compiled artifacts, the Lean toolchain of a probe verdict.
* The worker is a child process that can fail, time out, be cancelled, answer
  late, or die; its sessions are pooled and replaced, and a batch is retried,
  split or given up on. Verdicts from failed attempts must not be mistaken for
  evidence, and every planned pair must end with exactly one verdict.
* The Lean worker splits a job over tasks under a heartbeat budget and must
  still emit every declaration once, in two streams that are joined again.
* The selection of pairs is a loop with four kinds of limits that interact, and
  its keys come out of a search with a memo shared by all pairs.
* The review of an audit is made three times, from fingerprints, from verdicts
  and from uses; what an earlier one decides has to suit the later ones.
* Retrieval prunes in two places and evaluation explains its losses with a
  second walk; the two must agree, or a release is judged by a wrong account.

### What makes each component correct

* index cache: what is accepted as current is complete and from one build; the
  pointer leads to something usable; an audit reads what it built; a left-over
  from a crash never blocks a workspace.
* diagnosis and cleanup: `doctor` warns exactly when a command would meet
  something broken; nothing in use is deleted.
* index build: every declaration within the budget once; a slow declaration does
  not end the build.
* worker session: a request gets its own response or an error; a dead or
  poisoned session is not handed out again; cancellation ends what runs.
* probe verification: each planned pair gets one verdict; a verdict stored under
  a key is the one the same question would get again; nothing is asked twice.
* import closure: the memoised search computes reachability.
* probe planning: the best pairs are taken, none is lost, keys cover all that a
  verdict can depend on.
* retrieval: a bound on candidates never loses a strong match to weak ones.
* focus of lint: what changed is looked at, and nothing else.
* review and lint: a finding is a verified fact; silence means that everything
  was measured; a verified duplicate is not lost; advice rests on what was read.
* evaluation: a gate that says ok has looked at what it vouches for; a loss is
  reported where it happened.
* snapshots: never seen half written, saved at the expense of no audit, and what
  `show` and `diff` answer from describes the sources they claim to describe.
* worker installation: a served worker works; the advice to install helps.

## The index cache

`IndexCache.tla` models one label directory as several processes share it.

| model | code |
|---|---|
| `temp[k]`, `index[k]`, `corpus[k]`, `dirs`, `latest` | `index.tmp.sqlite`, `index.sqlite`, `corpus.sqlite` of the directory of key `k`, the directories, `latest.json` |
| a key `<<Place(w), v>>` | the cache key JSON: the path of the workspace, which a project-pinned mathlib goes without, and the digest of its sources |
| the rows of a file | the version of the compiled artifacts they were extracted from |
| `pc`, `key`, `force`, `extracted`, `opened` | an auditor's progress through `build_or_reuse`, `resolve` and `hydrate`, and its locals |
| `cpc`, `protected`, `removable`, `victim`, `todo` | a cleaner's progress through `cleanup_cache`, and its locals |
| `source`, `olean` | the workspaces on disk, changed by `EditSource` and `LakeBuild` |

Actions are cut where another process can see a difference: between the removal
of the left-over temp file and its creation, between the metadata and the rows
in the batched writer (which serves mathlib and writes its metadata outside the
transaction), between the corpus and the commit, between the rename and the
pointer, and inside the write of the pointer (`std::fs::write` truncates first).
A file remembers its writer because a process that lost its file name to
another's `remove_file` or `rename` keeps writing to the same file. `WorkerFails`
is an error return, `AuditorDies` and `CleanerDies` a kill, after which the
kernel closes files.

`CacheDiagnosis.tla` adds what only reads: the diagnosis of the pointer and of
each entry, the status and the list of problems of `doctor`, which the code
computes separately, its table of labels, and the report of a cleanup.

Abstracted: the tables' contents (absent, schema, keyed or full), SQLite's lock
waits, `StoreBuilder` (an external crate that writes and renames its corpus,
taken as one step), sizes and paths. `Kind` chooses between the two writers.

| run | configuration | shows |
|---|---|---|
| `index_private` | two killable builders for projects that pin one mathlib or two versions of it (`ProjectMathlib`, batched writer), nobody asks for an entry being built (`OnePerKey`), one kill or failure, symmetry | `CurrentEntryIsComplete`, `LatestTargetIsComplete`, `SharedReuseIsSafe` |
| `index_shared` | the same two without that discipline, one version, no fault | violates `SharedReuseIsSafe` |
| `index_sole` | one command at a time (`OneAtATime`), two source versions, a cleaner, two faults, fairness | `EntryIsOneBuild`, `AuditOpensOwnEntry`, `CleanupSparesActive`, `DoctorIsRight`, `AuditsRecover` |

They say under which discipline the cache is safe: nobody asks for an entry that
another process is building, or one command at a time. The code enforces
neither.

The key of a project-pinned mathlib has a constant in the place of the
project's path and paths relative to it (`index.rs:962`, `:978-999`), so projects
that pin one mathlib share one directory. That they reuse each other's entries
is safe (`SharedReuseIsSafe` in `index_private`); that they build them at the
same time is not. Both use one `index.tmp.sqlite`: the second unlinks and
recreates it, with schema and key but without rows as long as its transaction
is open, and the first renames it into place. An audit that finds the entry then takes
it for a whole one (`index_shared`), and so do all later ones if the second
builder dies. Two audits of one
workspace at once are the same case. `OnePerKey` excludes exactly this: a
request waits while another builder of its key is between the request and the
last rename.

`cleanup_cache` reads the pointers first and removes directories later; what an
audit publishes in between is not protected, so `CleanupSparesActive` needs
commands that take turns (known divergences). So does `AuditOpensOwnEntry`,
whose run has one workspace and whose theorem any number under one label.
A cleanup removes a directory file by file: killed half way it may leave
`index.sqlite` without its corpus, hence the run with a cleaner does not check
`CurrentEntryIsComplete`, and `AuditsRecover` and `DoctorIsRight` except this
entry.

Bounds: `MaxFaults` bounds kills and worker failures together; two are enough
for a fault in the recovery from a fault, and one in `index_private`, where
another builder goes on beside the one that died. Two versions give a stale and
a fresh entry, and two mathlibs; two processes give every pairwise race, and no
property speaks of three at once. The symmetry of
`index_private` exchanges the two auditors together with their workspaces.

Fairness (`FairSpec`): weak fairness of each auditor's steps, and of a cleaner
that was started, is what an operating system gives a process; users build their
workspace (weak) and keep asking for audits (strong, because another command may
come first each time). Kills, failures, edits and the start of a cleanup are not
fair.

## Building one index

`IndexBuild.tla` models what happens inside the writing phase of `IndexCache`.

| model | code |
|---|---|
| `pending`, `active`, `skipped`; `Start`, `TaskSucceeds`, `TaskSplits`, `TaskFails`, `Complete` | `emitIndexRanges` in the Lean worker: ranges not yet started, tasks, `skippedTotal` |
| `frames` | the stream of row frames and its terminal frame |
| `declarations`, `features`, `written`; `ReadRow`, `ReadEnd` | `StreamingIndexWriter`: rows that wait for their counterpart, and the inserts |
| `Extract`, `ComputeFeatures`, `Join` | the two commands of a local index, and `write_sqlite_index` |

A task either emits the rows of a range or, when it runs out of heartbeats,
gives way to the two halves of the range, which are taken up before anything
that waits. The writer reads at its own pace.

| run | configuration | shows |
|---|---|---|
| `index_stream` | seven declarations, chunks of three, two tasks, one fault, both kinds of index | `IndexIsComplete`, `StreamsPairUp`, `BuildEnds` |
| `index_slow_features` | a local index, one declaration slow in its features only, no fault | violates `SlowIsNotFatal` |

Bounds: seven declarations in chunks of three give two full chunks and one of a
single declaration, so that splits reach their last range on both sides while
another task is at work; one declaration is slow to print and one only with its
features. Fairness: tasks end and answers are read; failures are not fair, and
splits end by themselves because ranges shrink.

Abstracted: what a row contains; which error text counts as a heartbeat limit (a
task may split at any time); the flush of rows in batches.

## The worker session

`WorkerService.tla` is what callers of a `WorkerClient` rely on: `Ask`, then
`Return` with the complete answer to this very request, or `Error`.
`WorkerSession.tla` is the engine that has to provide it.

| model | code |
|---|---|
| `pool`, `holder` | the session map of `SubprocessEngine` for one root, and the mutex of a session |
| `pc`, `using`, `got`, `outcome` | a caller in `run_command` and `drive_command`: the `Arc` it holds, rows decoded so far, the result |
| `proc`, `stdin`, `serving`, `frames` | a child process, its stdin pipe, the loop of the Lean server, the bounded frame channel |
| `cancelled` | `WorkerClient.cancelled` |

The request goes into the pipe, rows and a terminal frame come back through a
reader thread and a channel; the deadline and the cancel flag are looked at
between frames. A fatal outcome kills the child and removes *whatever* session
the map holds; a row that cannot be decoded is reported only after the terminal
frame. With `Wrapped` the child is `lake env`: a kill ends it and leaves the
worker below it running until it meets its closed pipes. With `LargeRequest` a
request blocks in the pipe until the worker reads.

| run | configuration | shows |
|---|---|---|
| `session_shared` | two threads, three sessions, large requests, one crash or hang, symmetry in the sessions | `AnswersAreOwn`, `PooledSessionIsQuiet` |
| `session_service` | one thread, three calls, two rows, `Wrapped`, one crash or hang, fairness | `ImplementsService`, `CancelEndsCalls`, `PooledSessionIsQuiet` |

`PooledSessionIsQuiet` is about every session that waits for a command: the one
in the map, and one in the hands of a caller about to write to it. It says that
the worker below it has nothing left of an earlier command. Under `lake env`
this is what keeps the survivors of a kill from answering the next call.
`ImplementsService` is the refinement: `asking` is "not idle", `answer` the rows
of a call that returned successfully. It includes the fairness of the service,
that every call ends.

Bounds: two threads are enough for a session that one of them retires while the
other waits for its mutex, and three sessions for a replacement while both are
still held; sessions are interchangeable, which the symmetry uses (safety run
only). A channel of one frame makes the worker wait. Fairness: a caller in a
call runs; the clock reaches its deadline, but after a cancellation nothing is
drawn from it, so `CancelEndsCalls` does not rest on a timeout of half an hour.
The worker owes nothing: it may be silent for ever. A write of a large request
to a hung worker knows no deadline; therefore `session_service`, which promises
that calls return, has requests that fit the pipe.

Abstracted: contents of requests and rows, the handshake (part of the start of a
child), other roots, which have sessions of their own.

## Probe verification

`ProbeVerification.tla` models audits one after another on a shared verdict
store while sources, build and toolchain change.

| model | code |
|---|---|
| `store` | the table of `ProbeStore`, by probe key |
| `closure` | the sources as the resolver digested them when the plan was made |
| `looked`, `missing`, `evidence` | the loop over planned pairs with `cached_probe`, and its results |
| `next`, `ends` | the recursion of `run_probe_chunk`: the first pair without an answer, the ends of the parts of the chunk that remain |
| `env` | what the worker session has imported |

A verdict is known by the contents it was elaborated against, restricted to the
scope of the pair (the closures of its two modules), and a key by the contents
that were digested. Whether a verdict is the right one is then a comparison.

| run | configuration | shows |
|---|---|---|
| `probe_careful` | four pairs over two modules in two versions, chunks of three, three audits, two faults | `EveryPairAnswered`, `OnlySlowPairsUnavailable`, `EvidenceIsCurrent`, `NothingAskedTwice`, `AuditEnds` |

`Careful` restricts the user: `lake build` before an audit, no edit while it
runs. Without it the digest of a source and the compiled artifact of an older
one can meet in one audit, and the old verdict is stored under the new key (a
hazard in PROJECT.json). `Core` holds toolchain modules, which a key names
without their contents.

Bounds: four missing pairs in chunks of three give a full chunk, one that is cut
short, and a bisection in two levels; pair 2 is too slow alone and the last two
only together. Three audits give one that stores, one that finds and one after a
change. Fairness: a command returns, with an answer or a failure, which
`session_service` shows of the session.

Abstracted: the plan (the pairs are given), the resolver (one step here, in full
in `ImportClosure`), declaration facts in the key, reasons and texts of results.
A verdict is a function of the imported environment: elaboration is external.

## Import closures and probe planning

`ImportClosure.tla` is `ModuleClosureResolver::closure_members` step by step: an
explicit stack of modules, each visited before and after its imports, and a memo
that outlives the call. `Reach` is the definition it is compared with, the least
set closed under imports. `ProbePlanning.tla` extends it with `plan_probes`.

| model | code |
|---|---|
| `imports`, `members` | the memos `direct_imports` and `members` |
| `stack`, `result`, `target` | the locals of `closure_members` |
| `Collect` | eligibility under the policy, and the obligation of a pair |
| `Before`, `Turn` | the sort by obligation, risk, source family, merit and id |
| `Overlook`, `TakeUnavailable`, `TakeAskable` | the selection loop: budget, cap per anchor, quotas |
| `Digest`, `Visit`, `Digested`, `PlanProbe` | `probe_cache_key` with its two closures |

Both run inside `audit_pipeline`, whose candidates come from declarations; its
properties about them are `KeysCoverClosures`, `BestFirst` and
`UnaskableTakeNoPlace`. `BestFirst` says without the loop what the loop
chooses: a pair is taken exactly if the better ones that are taken leave room.
`UnaskableTakeNoPlace` relates the order to the quotas: a pair that Lean cannot
be asked about sorts with the last obligation class, and never takes the place
of one that it can be asked about. `ClosuresAreExact`, which follows in the run from
`KeysCoverClosures`, and `AllAccountedFor`, that the counters of a plan add up to
its candidates, are proved only.

Abstracted: priority, confidence and score are one number (`merit`);
`recommended` stands for the review action and thresholds that speak for a probe;
"exact" for the three relations of equivalence; counters are sizes of sets. The
quota of a source is the whole budget, so it cannot bind. The order of imports
in a header is left open.

## One audit

`Retrieval.tla` and `Ranking.tla` hold the pure functions of an audit as
operators over a corpus, a record of declarations and indexes;
`AuditPipeline.tla` is `run_audit_workflow`, which composes them with
`ProbePlanning`.

| model | code |
|---|---|
| `Declaration`, its `keys` | a row of an index with the fingerprints and role features that Lean printed |
| `Opens`, `Meet`, `Contributions` | fan-out limits, postings, `add_local_matches` and `add_external_matches` |
| `Best`, `InLane`, `Candidates` | `select_top`, `select_subset_by_score` and the two lanes |
| `Walked`, `Account` | the second walk of `observe_search` for one pair |
| `RelationOf`, `BlockersOf`, `PriorityOf`, `ActionOf`, `Group` | `rank_pair` and the review policy, with what Lean proved before what fingerprints suggest |
| `Ranked`, `Precedes`, `Includes`, `Families` | removal of double groups, the order of the queue, `ReviewFilter`, families |
| `Uses`, `UseStatus`, `WrapsHelper`, `HintsOf`, `Advised` | `source_refs`, `attach_replacement_hints` |
| `stage`, `evidence`, `facts`, `review`, `report` | the locals of `run_audit_workflow` |
| `Verify`, `RankFinal`, `ScanReferences`, `Report` | its stages after the plan |
| `ProbeSummary`, `Reasons`, `QueueSummary`, `IsFinding` | `audit_probe_summary`, the outcome and findings of lint, the queue of the report |

`LintFocus.tla` is how `lint` gets its anchors: `--declaration` by name, `--file`
as a range without end, `--changed-since` by the hunks of `git diff --unified=0`
(Git is external: `Hunks` computes them from the file's text at the revision and
now), all compared with the spans that the index has from the last build.

A behaviour starts with the plan: all before it is a function of the corpus and
the request (`Prepared`). `Verify` gives each planned pair any of the rows that
the worker can return; the way to such a row is in `ProbeVerification`.

The run `audit_pipeline` starts from any two or three of eleven declarations
(one of each sort the code distinguishes) alone, from any two beside mathlib,
beside a library, and beside both with everything shown and little to spend;
from five declarations under each focus and each kind of probing; from a pair
without a place in the sources, a theorem whose name begins with "inst" and a
wrapper with more uses than are listed; from three declarations over each of the
64 acyclic import graphs of four modules; and from two declarations in a file with
any lines added or removed since the revision. It checks the three properties of the plan and

* `ChangesAreFocused`: a lint of changes looks at exactly the declarations with a
  line that their file did not have, if the index is of the current text;
* `StrongMatchesSurvive`: selection by number loses no strong match to any number
  of declarations that only use the same constants;
* `ObservationAgrees`: what `observe_search` says of a pair is what retrieval did
  with it;
* `LintIsPrecise`: a finding is a fact verified by Lean, of the kind it names, in
  the focus;
* `SilenceIsMeasured`: when lint says ok, Lean has answered for every strong pair
  that can be stated as an obligation, in spite of budgets, caps, quotas, unasked
  pairs, late answers and the second orientation of a pair;
* `VerifiedIsShown`: a verified duplicate that no option hides is not lost in the
  two later reviews, in families or in the queue;
* `HintsAreInformed`: the callers, imports and action of a hint agree, and rest
  on uses that were looked for after the verdicts;
* `AuditEnds`, under weak fairness of the whole audit, which is one call that
  runs through. It needs headers without cycles, which Lean guarantees; the
  safety properties do not.

Bounds: three declarations give two pairs that compete for one place (`TopK` 2,
`LaneTopK` 1, two families visible) and both orientations of each; the limits of
fan-out are so low that three holders of a key are too many. A file of five
lines has hunks of one line and of several, at both ends and next to each other.

Abstracted: digests are small numbers, and equal if the texts are; scores are in
the units of `MCRarity`, tenths with the first term of a series for the
logarithm; tokens of a line are sets of modules and declarations; the texts of
reasons, hints and reports. Embedding-based retrieval is off, as by default.

## Evaluation

`Observation.tla` is `observe_search` and `rescore_observation`;
`Evaluation.tla` labels, scores, traces, ablations and the production gate.

| model | code |
|---|---|
| `Meant`, `Resolves`, `Seeds` | resolution of labels against qualified and short names |
| `Observation`, `Rescored` | candidates, tracked pairs and losses, and the six variants of the scorer |
| `Scored`, `StageMetrics`, `Aggregate` | `score_run`, `stage_metrics`, the sums of the gate |
| `LostAt`, `Traces`, `Blocked` | `loss_reason` and the status of manual suites |
| `Skip`, `Break`, `Evaluate`, `Conclude` | one suite after another: prerequisites, errors, gates, outcome |

The run `evaluation` lets the gate meet eighteen settings (for each suite one
that passes and some that do not) and each suite any one label over any two
names of four corpora. `GateIsHonest` says what an "ok" of the gate vouches for,
computed from retrieval and not from the scores; `LossIsLocated` that a trace
names the stage that lost the pair: not found from either side; found and not
taken; taken and not shown. The suites are independent but for the
outcome, so one setting of each is enough. There is no fairness: both are safety.

Abstracted: of what a typed label says besides its names and its polarity there
is one number (`terms`), by which labels of one pair contradict each other. An
empty statement, one more reason for a declaration not to be eligible
(`suites.rs:689`), does not come out of the extractor, which begins each
statement with the kind and the name.

## Snapshots, details and baselines

`AuditSnapshots.tla` models the files that `audit` and `lint` leave for `show`,
`diff` and `baseline`, with all commands as processes on them.

| model | code |
|---|---|
| `file`, `temp`, `named` | `last-snapshot` and `last-audit-detail` by fingerprint, their `.json.tmp`, the named baselines |
| `Content` | the fingerprint a file is kept under, the sources it describes, the options of its audit |
| `WriteTemp`, `FillTemp`, `RenameTemp`, `SaveFails` | `save_last`, whose errors are reported and no more; an open file may be renamed or removed by another process |
| `SaveBaseline`, `BaselineFails` | `baseline::save`, written in place, whose error ends the audit |
| `LookUpGroup`, `ShowFromDetail`, `ReportShow` | `show` on its fast and slow path, `decorate_unknown_group` |
| `LoadCurrent`, `CompareBaseline`, `ReportDiff` | `diff` on its fast and slow path |
| `SweepFile`, `SweepNext` | the sweep of `cache-cleanup` |
| `answer` | the report of the last command, with what it was made from |

The run `snapshots` has two processes, three command lines, one edit and one
kill, full disk, unwritable baseline or failed analysis. `AnswersAreCurrent`
holds for any overlap, and so does `FilesNeverFailAudits`: an audit ends with an
error by its analysis, before it has anything to save, or by the write of the
baseline that it was asked for, and by no other file. `WholeUnlessOverlapped`
says that a torn file needs two writers at once; two writers do tear one (known
divergences), though the comment of `save_last` promises `SnapshotsAreWhole`.
`GoneIsExplained` says that `show` blames changed sources only when they changed,
or a fault or an overlap kept the two files of one audit apart. Three command lines are one that writes, one that
overlaps or removes, and one that reads. What an audit finds is a constant.
`Edit` does not happen between a fingerprint and the analysis it stands for.

## Worker installation

`WorkerInstall.tla` models `install-worker`, the resolution of the installed
worker by other commands, and the toolchain manager around them.

| model | code |
|---|---|
| `header`, `bin`, `exe`, `sidecar` | `lean.h` of each toolchain, what lake built last, `lean-dup-worker` and `worker.json` in the install directory |
| `Install` to `WriteSidecar`, `SmokeTest` | `install_worker` from the decision to build to the outcome of the smoke test |
| `ResolveIn`, `CheckInstalled` | `resolve_in` and its refusals |
| `UpdateToolchain`, `Fault` | elan, kills, full disks, a smoke test that takes too long |
| `last`, `disturbed` | ghosts: how the last installation ended, and whether others interfered |

The run `worker_install` has two installers, an audit, two toolchains with two
headers, two installations, two updates and one fault; the checkout is on
another device, so a copy can be torn. `ServedWorkerWorks` says that what an
audit starts fits the toolchain and passed its test, after installations that
ran to an end by themselves. It excepts those that are under way, were cut short
or were disturbed, and does not hold for them: a kill after the executable was
moved leaves it untested and served (known divergences). `AdviceHelps` says that
the command which a refusal names repairs it. Two installations give one over the other, two updates one
away and back. `lake build` is taken to make a new executable whenever the
toolchain has changed.

## Proofs

Every safety property that a run expects to hold is a theorem as well. All
results hold for any number of processes, threads, sessions, calls, installers,
toolchains, declarations, pairs, modules and files, and any costs and budgets.

### What they assume

The named assumptions of the modules. Most are on types of constants and on
markers that differ from values (`ConstantsAssumption`, `BuildAssumption`,
`SessionAssumption`, `ProbeAssumption`, `NoneAssumption`, `ClosureAssumption`,
`WorkloadAssumption`, `LimitAssumption`, `RankingAssumption`, `JobsAssumption`,
`InstallAssumption`, the two `MarkersAssumption`). Four say more:

* `AuditAssumption`: a corpus is finite and no two of its declarations have one id;
* `CorpusAssumption`: a module is one file, so declarations of a module are all
  read or all unread; and a strong match at the least rarity scores no less than
  `min_near_score` (`scorer.rs`: weights of 65 and more, rarity at least 1.0,
  against 24);
* `TreeAssumption`: a file that Git does not track was not tracked at the revision
  either. After `git rm --cached` a file is listed as untracked, and all of it is
  in focus although nothing changed. Lines of one declaration are contiguous;
* `EvaluationAssumption`: corpora and label files are finite, names are unique
  within an origin, and the rows of a suite's own workspace and those of its other
  index are of different origins, as `suite_definition` gives them
  (`suites.rs:1469`). The same short name may stand for several declarations, and
  the same qualified name may be in both.

Some theorems hold under a discipline that the code does not enforce, stated as a
hypothesis: `OwnEntries`, `OneAtATime`, `Kind = "Local"`, `Careful` with
`Core = {}`, `KillsOrAlone`. Each is the configuration of the run that checks the
property, and what happens outside of it is under known divergences.

### Index cache and index build

`IndexCacheProofs`: `TypeCorrect`; `CurrentEntriesComplete`,
`LatestTargetsComplete` and `SharedReusesAreSafe`, assuming `OwnEntries`: no
cleaner, and nobody asks for an entry that another builds (`OnePerKey`) or, for
kinds of index whose key has the workspace's path, no two auditors work on one
workspace. For a shared mathlib only the former will do. The invariants are not
inductive. `EntryInv` strengthens them: two jobs that build have different keys
(`KeyInv`; `RequestOwnKey` shows that a request keeps it), a temp file is open
only in the builder of that key, in a writing phase (`TempInv`), a published
index is committed, closed and has its corpus (`IndexInv`), each builder finds
on disk what its phase expects (`BuildInv`), what an audit was served stays
published (`ServedInv`) and the pointer leads to a published index
(`LatestInv`). The proof groups steps into those that touch no file
(`QuietEntryInv`), those that end in an error or a death (`ClosingEntryInv`) and
those that write in their own directory (`BuilderEntryInv`); `OwnDirectory` says
that nobody else builds there. A builder that is forced to rebuild replaces an
entry others may be reading by a rename, so they find a whole one at any time.

For one command at a time, cleanups and kills included, `SoloInv` takes its
place: whoever is at work is alone (`SoleInv`), a directory without a command in
it holds no half of anything that a fault does not explain (`DirsInv`), the
pointer of an auditor about to read is its own (`PointerInv`), and a sweep has
in hand only what the pointer does not lead to (`SweepInv`). From it follow
`AuditsOpenOwn`, `CleanupSpares` and `DoctorIsTrusted`. `BuildsAreWhole` needs
`RowsInv` besides, which is about where the rows of the two databases come from,
and a local index: there, a build begins without an index and publishes it last.

`IndexBuildProofs`: `PublishedIsComplete` and `SlowIsSkipped`. `Apart` says that
ranges in line and at work have no declaration in common; `FillKeeps` that the
inner loop of the scheduler loses none of them, `ChunksCover` that the first
chunks cover all, `HalvesAreRange` that a split keeps what it splits. `RowsInv`
follows each declaration of a mathlib index: no task has sent it, both its rows
are on the way, its display row waits for its features, or it is inserted. That
there is no fifth case (a feature row that waits) needs the order of the frames
(`Ordered`), because a task sends its display rows first. `TasksInv` connects the
two: what is within the budget and untouched is left to some task. `EndInv` says
what an answer that is complete, or failed, means.

### Worker session

`WorkerSessionProofs`: `AnswersOfOwnCall`, `PooledSessionsAreQuiet`,
`EngineIsService`. That an answer is the caller's own cannot be told from the
caller's state. `InFlightOK` says of a caller that drains where its command is:
still in the pipe (`Waits`), being served (`Served`) or ended (`Finished`), and
that the rows received, on the way and still to come are its rows in order.
`QuietOK` says that a session that is referred to and that nobody drains has
nothing of any command left in it; so a request meets a quiet child
(`WriterIsAlone`). This fails for a child that was killed while wrapped in
`lake env`, if another thread waits for its mutex: hence `KillsOrAlone`, a child
without a wrapper or a single caller, as the commands have it.
`PooledSessionsAreQuiet` holds under the same condition, audits of Lake packages
included: a caller that gives up on a wrapped child removes its session from the
map before it asks again. `EngineIsService` is the safety part of the refinement: every
step of the engine is one of the service or a stutter.

### Verification and planning

`ProbeVerificationProofs`: `TypeCorrect` and `AllPairsAnswered` from `PartsInv`
(the parts of a chunk that remain follow one another from the first unanswered
pair; this is what keeps a bisection from losing one) and `AnsweredInv` (every
pair has evidence or waits for its turn); `StoredPairsAreNotAsked` from
`UnaskedInv` (nothing is stored for a pair that waits);
`CarefulEvidenceIsCurrent` from `StoreInv` (a stored verdict is that of its key)
and `CurrentInv`, assuming `Careful` and no toolchain modules; and
`OnlySlowAreUnavailable` from `SlowInv` (without faults, whatever is stored or
found as unavailable is too slow alone). The load of a command is a sum over its
pairs; `LoadOfPairs` shows that it is at least each cost, and no more than the
cost of a pair that is alone.

`AuditPipelineProofs`, first on import closures: `ResolverInvariant` and
`ResolverIsExact`, for any finite set of modules and any headers, cyclic ones
included. `ReachUnfolds` says that the closure of a module is the module and the
closures of its imports; `StackInv` that an expanded module waits below those of
its imports that are still unknown; so they are known when it is merged, and
`MemoInv` is kept. On plans: `PlanUsesResolver` (every step of a plan is a step
of the resolver or leaves it alone, so `ResolverIsExact` applies),
`KeysAreCovering`, `SelectionIsBestFirst`, `UnaskableTakeNone` and
`CandidatesAreAccountedFor`. For the third, `OrderInv` says that the better ones
of a pair that was dealt with had all been dealt with before it, so what was
taken at its turn is what `BestFirst` compares with; the order is asymmetric
because ranks are tuples of numbers (`RankType`, `BeforeAsymmetric`). For the
fourth, `AffordableAntitone`: what is unaffordable after few pairs stays so
after more. For the last, `LedgerInv` says that the pairs taken and those
overlooked for each reason are disjoint and make up what was dealt with; the
numbers follow by the library's facts on cardinality.

### Audits

`AuditPipelineProofs` again: an audit implements the plan of `ProbePlanning`
(`AuditRunsPlan`: each step is one of the plan or leaves it alone), so what was
proved of plans holds in audits (`AuditPlansWell`). `ObservationIsTrue` compares
the two walks over the postings. `CourseInv` says which parts of the audit are
there at which stage, and that each of them is sound; the theorems about reports
add what they need:

* `LintReportsFacts`: groups have ids of their own since declarations do
  (`KeyOfPair`); a family is shown by its first group, which exists because ids
  have a least value (`FirstOfFamily`); the relation that Lean proved outweighs
  the one fingerprints suggest (`RelationIsStrongest`, `RelationIsProved`).
* `StrongMatchesAreKept` and the score of a strong pair: a score is a sum over the
  keys in common. Facts about it go by a least counterexample among the subsets
  of keys, since induction over data is not available.
* `AdviceIsInformed`: uses are looked for in all files of reviewed declarations, so
  what a hint says rests on each of them. The attempt found a case that the
  property now names: the wrapper of a helper with more uses than are listed.
* `SilenceIsComplete` from `DesertInv` (which pairs have no evidence at each stage,
  and why) and `VerdictInv`: each way to lose an answer leaves a reason in the
  report.
* `VerifiedIsReported`: a pair that Lean verified is ranked with what it proved,
  keeps its place among its doubles, and its family is before the limit. Here
  the attempt found that a finding needs a place in the sources.
* `LintsAreOfChanges`: the hunks of a diff are the gaps between common lines, and a
  declaration has a new line exactly if its span meets a gap that is not empty.

### Evaluation

`EvaluationProofs`: `TracesTellTheLoss` and `GateVouches`. Observations go by
names, candidate pairs by declarations. They can be compared because a label that
resolves means declarations that are alone under their qualified names
(`MeantAlone`, `EndsOfLabel`), so its names tell which they are (`NamesTell`,
`PairOfLabel`).

* A pair asked for by name is walked in one orientation only. That suffices for
  labels that reach the later layers: their declarations are eligible, hence
  unmarked, and then the keys in common are the same from either side
  (`KeysEitherWay`). `FoundIsObserved` says that what is found from one of the
  two sides is observed, as a candidate or by that walk; `WalkGoesFurther` that
  this walk opens whatever the search opened.
* `EvidenceOfLabel` says what the observations of a label are: its candidate
  pairs, or, if there are none, walks that reached it. `LossOfLabel` goes through
  the layers with it; all observations of a pair agree on whether it is shown
  (`SameMembersSameView`), so it does not matter which of them is kept.
* The attempt showed that the property said too little of "ranking": a pair may
  be reported as generated and not selected although it was not found from
  either side, if a posting was narrowed for other anchors, or if both names of
  the label mean one declaration. `LossIsLocated` now names these cases.
* The gates compare numbers. That a full recall leaves no label out
  (`FullRecall`) and that no hit means none is shown (`NoHits`) need finite sets.
* `SuitesInv`: each report is that of the suite whose turn it was, of a setting of
  its own; `OutcomeInv`: an "ok" was computed from the reports of all four.

### Snapshots and installation

`AuditSnapshotsProofs`: `SourcesAreNamed` proves `AnswersAreCurrent` from
`SourceInv`: a file kept under a fingerprint, a temp file on its way there, and
whatever a command holds in memory were made from the sources of that
fingerprint. `FilesAreBestEffort` proves `FilesNeverFailAudits`, the failing write of a
baseline included.
`TornByOverlapOnly` proves `WholeUnlessOverlapped` from `WholeInv`: as long as
commands do not overlap there is one open temp file, and it is torn only while
its writer fills it. `GoneMeansChanged` proves `GoneIsExplained` from `PairInv`:
without overlap and fault, snapshot and detail of a fingerprint are from one
audit.

`WorkerInstallProofs`: `ServedWorkers` and `AdviceIsGood`. `BuiltInv` says where
an undisturbed installation stands: its own product is where its next step takes
it from, its digest is that of the header it was built with, and it passed its
test only if it works. `ExclusiveInv` says that installations which share a place
know of each other, `SettledInv` what is in the directory of a toolchain between
installations, `UnsettledInv` when it says nothing, and `AuditInv` that an
undisturbed audit acts on the sidecar as it is.

### Only model-checked

Liveness, which is out of the prover's reach: `AuditsRecover`, `BuildEnds`,
`CancelEndsCalls`, the two `AuditEnds`, and the fairness that `ImplementsService`
includes.

## Plan

1. The files of embeddings and the vector index, for the crash hazards named under
   "Not modelled".
2. What `diff` compares with: a hazard of PROJECT.json that no property covers.

## Known divergences

Two disagreements between documents and code have a run: `index_shared` and
`index_slow_features` (see `findings` in PROJECT.json). The following were met
while modelling; the models do what the code does. Documents are named where
they say otherwise.

Cache and worker
* A cleanup may remove an entry that an overlapping audit has made the target of
  the pointer (`cache_lifecycle.rs:189`;
  `docs/architecture/cache-validity-lifecycle.md:94-99`: "Active latest entries are
  protected even when stale"). A cleanup and an audit without faults show it:
  the cleanup reads the pointers, the audit publishes and points, the cleanup
  removes the directory.
* A cleanup that is killed half way can leave an entry that every later audit
  accepts and fails on, and that `doctor` finds in order
  (`cache_lifecycle.rs:234`).
* An audit finds its entry by a label; when audits of one label overlap, another
  workspace can repoint it in between, and the audit reads that one's entry.
* Reuse of an index looks at sources only, not at compiled artifacts
  (`cache-validity-lifecycle.md:56`).
* After a change of toolchain the store of probe verdicts still answers with those
  of the old one: the key digests no Lean version, and modules of the toolchain,
  which have no sources under the build roots, go by name only
  (`semantic_verification.rs:1487`; `docs/architecture/probe-cache-scoping.md:71`
  has "lean_version" in the key). `EvidenceIsCurrent` fails with a module in
  `Core`, after an audit, an upgrade and another audit.
* `doctor` advises a cleanup for a torn pointer (`render.rs:462`: "will
  rebuild"); a cleanup rebuilds nothing, and without a workspace it then removes
  every entry. Its status and its list of problems are computed separately.
* Declarations that both commands of a local build skip count twice in the total
  (`index.rs:566`).
* `semantic_verification.rs` recognises failures by their text: `timeout` is not
  in "timed out" (:1213), and `internal` and `import` are not in the code every
  failure of the worker carries (:1177). One probe command imports the modules of
  all missing pairs together (:362), so two that clash fail for all.
* `LEAN_DUP_WORKERS_DIR` shared by two toolchains: `resolve_in` does not compare
  the toolchain of the sidecar, and the check whether a worker is current uses
  another header than resolution (`install_worker.rs:107-109`).
* A forced rebuild (`index --force`, `index-mathlib --force`) publishes its corpus
  before it replaces the index: a kill in between leaves rows of two builds under
  one current entry.
* With a worker under `lake env`, a thread that waited for a session whose child
  was killed writes to the worker that survived the kill of `lake`, and reads what
  is left of the other call. The commands use a client from one thread at a time.
* A forced installation that is killed after the executable was moved leaves a
  new, untested worker under the old sidecar that says "passed"; only `--force`
  repairs it (`docs/getting-started.md:290-294`). While it runs, audits are
  served the untested worker; two installers from one checkout can swap theirs.

Audit and lint
* `lint --compare-mathlib` verifies only pairs with mathlib
  (`semantic_verification.rs:275-300`; `README.md:87-91`,
  `end-to-end-architecture.md:167`).
* `lint --changed-since` does not look at a declaration that only lost lines, say a
  hypothesis (`changed.rs:143`, which a test asks for; `cli.rs:383`: "whose current
  source spans intersect Git changes"). After an edit without `lake build` it
  compares lines of the current text with spans of the old one. A file under
  `--file` without declarations of the module is not reported as unmatched.
* An obligation that is "unsupported" counts as measured. A finding is dropped if
  no declaration of the pair in the workspace has a source span.
* The static twin of a verified group can represent its family. The queue's
  summary counts visible families but hidden groups. Family ids differ between
  the report and `show` (`report-contract.md:179`, `commands.rs:611`).
* A group's id contains its relation, so a baseline calls a group new that Lean
  has merely verified meanwhile.
* Uses are looked for only in the files of reviewed declarations. The hidden
  reason `OtherBlocker` is never given.
* A key that is broad for one declaration has its posting limit narrowed for all of
  them (`retrieval.rs:1181`).
* A snapshot may be renamed into place half written when two commands overlap
  (`baseline.rs:104-105`: "so concurrent audits never expose a half-written
  snapshot"): both use one temporary file, and the rename of the first publishes
  what the second has written so far.

Evaluation
* An unresolved hard negative counts as "not shown", and manual hard negatives
  that are shown fail no gate (`production-readiness.md:41,71-73`,
  `search-quality.md:19`).
* A tracked pair dropped by top-k keeps `shown` from its default policy and counts
  among the hits of hard negatives and for precision.
* Recall at k is summed over the suites that report this k. Ablations rank
  globally where the default ranks per anchor, and ignore the review policy for
  visibility. Two labels that resolve to one pair block a manual suite;
  contradictory ones are not noticed.

## Not modelled

* Extraction, features and elaboration in Lean, and what happens within a probe
  command: meta-programs over terms of the kernel. Their results are external
  choices in the models; their protocol with the engine is modelled.
* Rendering, the transfer of fields into reports, argument parsing, extensions,
  progress and diagnostics: text and pure input and output. What `lint` decides
  and what `doctor` reports is modelled.
* Project discovery and external provenance: read-only; their results are
  constants and source variables of the models.
* Embeddings, vector index and vector search: numerical, experimental and off by
  default. Their files do have crash hazards, which no run covers yet: a cached
  vector is written in place (`embedding/src/vector_cache.rs:69`), so one torn by
  a kill fails every later read of it; and a rebuild of the corpus removes the
  database before it replaces the manifest
  (`vector-index/src/lancedb_backend.rs:178` and `:70`), so after a kill in
  between the old manifest vouches, for a request of the old provenance, for a
  table that is missing or another's.
* Capability source and test support are not part of a command.
