----------------------------- MODULE IndexBuild -----------------------------
(***************************************************************************)
(* How the rows of one index come together.  For a mathlib index the Lean  *)
(* worker cuts the declarations into chunks, processes some of them at a   *)
(* time, splits a chunk that runs out of heartbeats, and sends two streams *)
(* of rows that the index writer joins as they arrive.  For any other      *)
(* index, one command returns all declaration rows, a second one all       *)
(* feature rows, and the writer joins the two.  A declaration that takes   *)
(* more heartbeats than the budget is skipped.                             *)
(*                                                                         *)
(* What goes on around it, the files and their renames, is in IndexCache.  *)
(***************************************************************************)
EXTENDS Naturals, Sequences, SequencesExt, FiniteSetsExt

CONSTANTS
    D,            \* accepted declarations, known by their position
    ChunkSize,    \* declaration_chunk_size
    Parallelism,  \* declaration_parallelism
    RowCost,      \* heartbeats of each declaration's display row ...
    FeatureCost,  \* ... and of its feature row
    Budget,       \* max_heartbeats, spent per declaration
    Kinds,        \* kinds of index: "mathlib" or "local"
    MaxFaults     \* bound on failures that no budget is the cause of

Decls == 0 .. D - 1

ASSUME BuildAssumption ==
    /\ D \in Nat /\ ChunkSize \in Nat \ {0} /\ Parallelism \in Nat \ {0}
    /\ RowCost \in [Decls -> Nat] /\ FeatureCost \in [Decls -> Nat]
    /\ Budget \in Nat /\ MaxFaults \in Nat
    /\ Kinds \subseteq {"mathlib", "local"}

-----------------------------------------------------------------------------
VARIABLES
    kind,          \* IndexBuildRequest.kind
    phase,         \* of the worker's command and the writer: "start", "streaming",
                   \* "answered" or "extract", "features", "join"; then "published"
                   \* or "failed"
    pending,       \* ranges <<start, stop>> that no task has yet, in order
    active,        \* ranges that a task is at work on
    skipped,       \* skippedTotal, and the sum that goes into the metadata
    frames,        \* frames that the writer has not read yet
    declarations,  \* declaration rows without their feature row
    features,      \* feature rows without their declaration row
    written,       \* how often each declaration has been inserted
    faults

leanVars   == <<pending, active, skipped>>
writerVars == <<declarations, features, written>>
vars == <<kind, phase, leanVars, frames, writerVars, faults>>

Init ==
    /\ kind \in Kinds
    /\ phase = IF kind = "mathlib" THEN "start" ELSE "extract"
    /\ pending = <<>> /\ active = {} /\ skipped = 0
    /\ frames = <<>>
    /\ declarations = {} /\ features = {}
    /\ written = [d \in Decls |-> 0]
    /\ faults = 0

-----------------------------------------------------------------------------
(* emitIndexRanges, in the Lean worker                                     *)

Chunks ==
    [i \in 1 .. (D + ChunkSize - 1) \div ChunkSize |->
        <<(i - 1) * ChunkSize, Min({D, i * ChunkSize})>>]

\* The inner loop: ranges of p, in order, become tasks while a has room.
Fill(p, a) ==
    LET room  == Parallelism - Cardinality(a)
        count == Min({room, Len(p)})
    IN /\ active' = a \cup ToSet(SubSeq(p, 1, count))
       /\ pending' = SubSeq(p, count + 1, Len(p))

Start ==
    /\ phase = "start"
    /\ Fill(Chunks, {})
    /\ phase' = "streaming"
    /\ UNCHANGED <<kind, skipped, frames, writerVars, faults>>

Of(r) == r[1] .. r[2] - 1

Omitted(d) == RowCost[d] + FeatureCost[d] > Budget

InOrder(ds) == CHOOSE q \in [1 .. Cardinality(ds) -> ds] :
    \A i, j \in DOMAIN q : i < j => q[i] < q[j]

RowFrames(stream, ds) ==
    [i \in DOMAIN InOrder(ds) |-> [stream |-> stream, id |-> InOrder(ds)[i]]]

\* Mutant: each row has a budget of its own.
TaskSucceedsRowByRow(r) ==
    /\ phase = "streaming" /\ r \in active
    /\ frames' = frames
         \o RowFrames("declarations", {d \in Of(r) : RowCost[d] <= Budget})
         \o RowFrames("features", {d \in Of(r) : ~Omitted(d)})
    /\ skipped' = skipped + Cardinality({d \in Of(r) : Omitted(d)})
    /\ Fill(pending, active \ {r})
    /\ UNCHANGED <<kind, phase, writerVars, faults>>

\* The two rows of a declaration share its budget.
TaskSucceeds(r) ==
    LET rows == {d \in Of(r) : ~Omitted(d)} IN
    /\ phase = "streaming" /\ r \in active
    /\ frames' = frames \o RowFrames("declarations", rows)
                        \o RowFrames("features", rows)
    /\ skipped' = skipped + Cardinality(Of(r) \ rows)
    /\ Fill(pending, active \ {r})
    /\ UNCHANGED <<kind, phase, writerVars, faults>>

\* Mutant: the second half starts one too late.
TaskSplitsWithGap(r) ==
    LET mid == r[1] + (r[2] - r[1]) \div 2 IN
    /\ phase = "streaming" /\ r \in active /\ r[2] - r[1] > 1
    /\ Fill(SelectSeq(<<<<r[1], mid>>, <<mid + 1, r[2]>>>>,
                      LAMBDA h : h[1] < h[2]) \o pending, active \ {r})
    /\ UNCHANGED <<kind, phase, skipped, frames, writerVars, faults>>

\* Mutant: a single declaration is split as well.
TaskSplitsSingles(r) ==
    LET mid == r[1] + (r[2] - r[1]) \div 2 IN
    /\ phase = "streaming" /\ r \in active /\ r[2] - r[1] > 0
    /\ Fill(<<<<r[1], mid>>, <<mid, r[2]>>>> \o pending, active \ {r})
    /\ UNCHANGED <<kind, phase, skipped, frames, writerVars, faults>>

\* An error that reads like a heartbeat limit, beyond the single declaration's.
TaskSplits(r) ==
    LET mid == r[1] + (r[2] - r[1]) \div 2 IN
    /\ phase = "streaming" /\ r \in active /\ r[2] - r[1] > 1
    /\ Fill(<<<<r[1], mid>>, <<mid, r[2]>>>> \o pending, active \ {r})
    /\ UNCHANGED <<kind, phase, skipped, frames, writerVars, faults>>

\* Any other error, or that one for a single declaration: the other tasks are
\* cancelled.
TaskFails(r) ==
    /\ phase = "streaming" /\ r \in active
    /\ faults < MaxFaults
    /\ faults' = faults + 1
    /\ frames' = Append(frames, [stream |-> "failed"])
    /\ active' = {}
    /\ phase' = "answered"
    /\ UNCHANGED <<kind, pending, skipped, writerVars>>

Complete ==
    /\ phase = "streaming" /\ active = {}
    /\ frames' = Append(frames, [stream |-> "complete"])
    /\ phase' = "answered"
    /\ UNCHANGED <<kind, leanVars, writerVars, faults>>

-----------------------------------------------------------------------------
(* StreamingIndexWriter                                                    *)

Insert(d) == written' = [written EXCEPT ![d] = @ + 1]

\* accept_declaration and accept_feature: the row waits for its counterpart.
AcceptDeclaration(d) ==
    IF d \in features
    THEN Insert(d) /\ features' = features \ {d} /\ UNCHANGED declarations
    ELSE declarations' = declarations \cup {d} /\ UNCHANGED <<features, written>>

AcceptFeature(d) ==
    IF d \in declarations
    THEN Insert(d) /\ declarations' = declarations \ {d} /\ UNCHANGED features
    ELSE features' = features \cup {d} /\ UNCHANGED <<declarations, written>>

ReadRow ==
    /\ phase \in {"streaming", "answered"}
    /\ frames # <<>>
    /\ \/ Head(frames).stream = "declarations" /\ AcceptDeclaration(Head(frames).id)
       \/ Head(frames).stream = "features" /\ AcceptFeature(Head(frames).id)
    /\ frames' = Tail(frames)
    /\ UNCHANGED <<kind, phase, leanVars, faults>>

\* finish refuses an answer with unmatched rows; a failure rolls all back.
ReadEnd ==
    /\ phase = "answered"
    /\ frames # <<>> /\ Head(frames).stream \in {"complete", "failed"}
    /\ phase' = IF Head(frames).stream = "complete" /\ declarations = {}
                   /\ features = {}
                THEN "published" ELSE "failed"
    /\ frames' = Tail(frames)
    /\ UNCHANGED <<kind, leanVars, writerVars, faults>>

-----------------------------------------------------------------------------
(* The two commands of the other kinds, and write_sqlite_index             *)

Extract ==
    /\ phase = "extract"
    /\ declarations' = {d \in Decls : RowCost[d] <= Budget}
    /\ skipped' = skipped + Cardinality({d \in Decls : RowCost[d] > Budget})
    /\ phase' = "features"
    /\ UNCHANGED <<kind, pending, active, frames, features, written, faults>>

ComputeFeatures ==
    /\ phase = "features"
    /\ features' = {d \in Decls : FeatureCost[d] <= Budget}
    /\ skipped' = skipped + Cardinality({d \in Decls : FeatureCost[d] > Budget})
    /\ phase' = "join"
    /\ UNCHANGED <<kind, pending, active, frames, declarations, written, faults>>

\* A declaration without features is an error; features without a declaration
\* are not noticed.
Join ==
    /\ phase = "join"
    /\ IF declarations \subseteq features
       THEN /\ written' = [d \in Decls |-> IF d \in declarations THEN 1 ELSE 0]
            /\ phase' = "published"
       ELSE phase' = "failed" /\ UNCHANGED written
    /\ UNCHANGED <<kind, leanVars, frames, declarations, features, faults>>

-----------------------------------------------------------------------------
Ended == {"published", "failed"}

\* The worker dies, is cancelled or misses its deadline.
WorkerFails ==
    /\ phase \notin Ended \cup {"join"}
    /\ faults < MaxFaults
    /\ faults' = faults + 1
    /\ phase' = "failed"
    /\ UNCHANGED <<kind, leanVars, frames, writerVars>>

Proceed ==
    \/ Start \/ Complete \/ ReadRow \/ ReadEnd
    \/ Extract \/ ComputeFeatures \/ Join
    \/ \E r \in active : TaskSucceeds(r) \/ TaskSplits(r)

Next == Proceed \/ WorkerFails \/ \E r \in active : TaskFails(r)

Spec == Init /\ [][Next]_vars

(* Tasks end, the worker's answers are read.                                *)
FairSpec == Spec /\ WF_vars(Proceed)

-----------------------------------------------------------------------------
(* Properties *)

InBudget(d) == IF kind = "mathlib"
               THEN ~Omitted(d)
               ELSE RowCost[d] <= Budget /\ FeatureCost[d] <= Budget

\* However chunks were split and in whatever order they ended, a published
\* index has each declaration within the budget once, and no other.
IndexIsComplete ==
    phase = "published" =>
        \A d \in Decls : written[d] = IF InBudget(d) THEN 1 ELSE 0

\* A slow declaration is skipped from both streams, so no build of a mathlib
\* index fails for it.
StreamsPairUp ==
    kind = "mathlib" /\ faults = 0 => phase # "failed"

\* "A declaration whose elaboration exceeds the heartbeat budget is skipped,
\* not fatal" (README.md): for whatever kind of index.
SlowIsNotFatal == faults = 0 => phase # "failed"

\* Chunks cannot be split for ever: a build ends.
BuildEnds == <>(phase \in Ended)

=============================================================================
