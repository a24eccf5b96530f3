-------------------------- MODULE ProbeVerification --------------------------
(***************************************************************************)
(* Semantic verification: the planned pairs of an audit are looked up in   *)
(* the shared probe store, the missing ones go to the Lean worker in       *)
(* chunks, a chunk that fails is bisected, and verdicts are stored under a *)
(* key that digests the sources a verdict can depend on.  Audits follow    *)
(* one another while sources, toolchain and build change.                  *)
(*                                                                         *)
(* A verdict is known by what it was elaborated against: the contents, in  *)
(* the environment the worker had imported, of the modules in the scope of *)
(* the pair.                                                               *)
(***************************************************************************)
EXTENDS Naturals, Sequences, Functions

CONSTANTS
    N,           \* planned pairs, in plan order: pair p is planned as p-th
    Modules,     \* modules whose contents verdicts depend on
    Core,        \* those of the toolchain, which no build root shows
    Scope,       \* for each pair, the import closures of its two modules
    Versions,    \* contents a module can have
    ChunkSize,   \* ProbeSettings.chunk_size
    Cost,        \* heartbeats that each pair takes
    Budget,      \* ProbeSettings.max_heartbeats, spent per command
    Careful,     \* TRUE: the user builds before an audit and leaves the
                 \* workspace alone while it runs
    MaxAudits,   \* bound on the audits of a behaviour
    MaxFaults,   \* bound on failures that the pairs are not the cause of
    None

Pairs == 1 .. N

ASSUME ProbeAssumption ==
    /\ N \in Nat /\ ChunkSize \in Nat \ {0}
    /\ Core \subseteq Modules
    /\ Scope \in [Pairs -> SUBSET Modules]
    /\ Cost \in [Pairs -> Nat] /\ Budget \in Nat
    /\ Careful \in BOOLEAN
    /\ MaxAudits \in Nat /\ MaxFaults \in Nat
    /\ None \notin Versions

-----------------------------------------------------------------------------
VARIABLES
    source, olean,     \* the workspace and its packages: text, and as built
    store,             \* ProbeStore: the result under each probe key
    phase,
    closure,           \* what ModuleClosureResolver read, memoised
    looked,            \* planned pairs looked up so far
    missing,           \* pairs the store has no result for
    next, ends,        \* run_probe_chunk: the first pair without an answer,
                       \* and the last indices of the parts, still to be
                       \* run, of the chunk that it is in
    evidence,          \* ProbeVerification.evidence
    env,               \* the environment imported by the worker session
    audits, faults

workspaceVars == <<source, olean>>
chunkVars     == <<next, ends>>
vars == <<workspaceVars, store, phase, closure, looked, missing, chunkVars,
          evidence, env, audits, faults>>

Contents == [Modules -> Versions]

\* The contents v in the modules of S; the rest does not count.
Within(S, v) == [m \in Modules |-> IF m \in S THEN v[m] ELSE None]

Scoped == [Modules -> Versions \cup {None}]
Unavailable == [kind |-> "unavailable"]
Verdict(against) == [kind |-> "verdict", against |-> against]
Results == {Verdict(c) : c \in Scoped} \cup {Unavailable}

ASSUME NoneAssumption == None \notin Results \cup Contents

\* Mutant: the content of the two declarations, without their imports.
KeyOfPairOnly(p, v) == <<p, Within({}, v)>>

\* probe_cache_key, for a pair and the sources read by the resolver.  A
\* toolchain module has neither source nor .ilean under the build roots, so
\* it is digested by its name.
Key(p, v) == <<p, Within(Scope[p] \ Core, v)>>
Keys == Pairs \X Scoped

Resting == {"idle", "done", "failed"}
Phases  == Resting \cup {"plan", "lookup", "probe", "asking", "waiting"}

Init ==
    /\ source \in Contents /\ olean \in Contents
    /\ store = [k \in Keys |-> None]
    /\ phase = "idle"
    /\ closure = source
    /\ looked = 0
    /\ missing = <<>>
    /\ next = 1 /\ ends = <<>>
    /\ evidence = [p \in Pairs |-> None]
    /\ env = None
    /\ audits = 0 /\ faults = 0

\* Every variable in its range; what is to be run is there to be run.
TypeOK ==
    /\ source \in Contents /\ olean \in Contents /\ closure \in Contents
    /\ store \in [Keys -> Results \cup {None}]
    /\ phase \in Phases
    /\ looked \in 0 .. N
    /\ missing \in Seq(Pairs)
    /\ next \in 1 .. Len(missing) + 1
    /\ ends \in Seq(1 .. Len(missing))
    /\ evidence \in [Pairs -> Results \cup {None}]
    /\ env \in Contents \cup {None}
    /\ audits \in 0 .. MaxAudits /\ faults \in 0 .. MaxFaults

-----------------------------------------------------------------------------
(* The user                                                                *)

UserOnly == UNCHANGED <<store, phase, closure, looked, missing, chunkVars,
                        evidence, env, audits, faults>>

\* An edit, a package update or, for a core module, another toolchain.
EditSource(m) ==
    /\ Careful => phase \in Resting
    /\ \E v \in Versions \ {source[m]} : source' = [source EXCEPT ![m] = v]
    /\ UNCHANGED olean
    /\ UserOnly

LakeBuild ==
    /\ Careful => phase \in Resting
    /\ olean # source
    /\ olean' = source
    /\ UNCHANGED source
    /\ UserOnly

-----------------------------------------------------------------------------
(* verify_candidate_probes                                                 *)

\* The worker session comes with an environment if the same modules were just
\* indexed with it.
StartAudit ==
    /\ phase \in Resting
    /\ audits < MaxAudits
    /\ Careful => olean = source
    /\ audits' = audits + 1
    /\ env' \in {None, olean}
    /\ looked' = 0 /\ missing' = <<>>
    /\ next' = 1 /\ ends' = <<>>
    /\ evidence' = [p \in Pairs |-> None]
    /\ phase' = "plan"
    /\ UNCHANGED <<workspaceVars, store, closure, faults>>

\* plan_probes digests the closures of all planned pairs.
Plan ==
    /\ phase = "plan"
    /\ closure' = source
    /\ phase' = "lookup"
    /\ UNCHANGED <<workspaceVars, store, looked, missing, chunkVars, evidence,
                   env, audits, faults>>

\* Mutant: the store is not consulted.
LookUpNothing ==
    /\ phase = "lookup" /\ looked < N
    /\ looked' = looked + 1
    /\ missing' = Append(missing, looked + 1)
    /\ UNCHANGED <<workspaceVars, store, phase, closure, chunkVars, evidence,
                   env, audits, faults>>

\* What the store has for a planned pair.
Cached(p) == store[Key(p, closure)]

\* cached_probe for the next planned pair.
LookUp ==
    LET p == looked + 1 IN
    /\ phase = "lookup" /\ looked < N
    /\ looked' = p
    /\ IF Cached(p) = None
       THEN missing' = Append(missing, p) /\ UNCHANGED evidence
       ELSE evidence' = [evidence EXCEPT ![p] = Cached(p)] /\ UNCHANGED missing
    /\ UNCHANGED <<workspaceVars, store, phase, closure, chunkVars, env,
                   audits, faults>>

StartProbing ==
    /\ phase = "lookup" /\ looked = N
    /\ phase' = "probe"
    /\ UNCHANGED <<workspaceVars, store, closure, looked, missing, chunkVars,
                   evidence, env, audits, faults>>

\* missing.chunks(chunk_size)
NextChunk ==
    LET last == next + ChunkSize - 1 IN
    /\ phase = "probe" /\ next <= Len(missing)
    /\ ends' = <<IF last < Len(missing) THEN last ELSE Len(missing)>>
    /\ phase' = "asking"
    /\ UNCHANGED <<workspaceVars, store, closure, looked, missing, next,
                   evidence, env, audits, faults>>

FinishAudit ==
    /\ phase = "probe" /\ next > Len(missing)
    /\ phase' = "done"
    /\ UNCHANGED <<workspaceVars, store, closure, looked, missing, chunkVars,
                   evidence, env, audits, faults>>

-----------------------------------------------------------------------------
(* run_probe_chunk, for the first part of the chunk still to be run        *)

Chunk == {missing[i] : i \in next .. Head(ends)}

\* The worker imports once per session, what is built at that moment.
AskWorker ==
    /\ phase = "asking"
    /\ env' = IF env = None THEN olean ELSE env
    /\ phase' = "waiting"
    /\ UNCHANGED <<workspaceVars, store, closure, looked, missing, chunkVars,
                   evidence, audits, faults>>

\* The heartbeats of one command, which all its pairs share.
Load == FoldFunctionOnSet(LAMBDA a, b : a + b, 0, Cost, Chunk)

\* The store after one transaction with the results of these pairs.
Stored(results) == [k \in Keys |->
    IF \E p \in Chunk : k = Key(p, closure) THEN results[k[1]] ELSE store[k]]

\* The results are stored and turned into evidence; run_probe_chunk returns to
\* the other half or to the loop.
Settle(results) ==
    /\ store' = Stored(results)
    /\ evidence' = [p \in Pairs |->
         IF p \in Chunk THEN results[p] ELSE evidence[p]]
    /\ next' = Head(ends) + 1
    /\ ends' = Tail(ends)
    /\ phase' = IF Len(ends) = 1 THEN "probe" ELSE "asking"

\* One row for every pair of the chunk.
Answer ==
    /\ phase = "waiting"
    /\ Load <= Budget
    /\ Settle([p \in Pairs |-> Verdict(Within(Scope[p], env))])
    /\ UNCHANGED <<workspaceVars, closure, looked, missing, env, audits, faults>>

\* Mutant: the first half does not reach up to the second.
BisectShort ==
    LET size == Head(ends) - next + 1 IN
    IF size > 1
    THEN /\ next' = next + size \div 2
         /\ phase' = "asking"
         /\ UNCHANGED <<store, evidence, ends>>
    ELSE Settle([p \in Pairs |-> Unavailable])

\* Mutant: a failed chunk is unavailable as a whole.
BisectNever == Settle([p \in Pairs |-> Unavailable])

\* Mutant: the failed chunk itself is tried again.
BisectAgain ==
    LET size == Head(ends) - next + 1 IN
    IF size > 1
    THEN /\ phase' = "asking"
         /\ UNCHANGED <<store, evidence, next, ends>>
    ELSE Settle([p \in Pairs |-> Unavailable])

\* A recoverable failure: the two halves in turn, or, for a single pair, an
\* unavailable result that is stored like any other.
Bisect ==
    LET size == Head(ends) - next + 1 IN
    IF size > 1
    THEN /\ ends' = <<next + size \div 2 - 1>> \o ends
         /\ phase' = "asking"
         /\ UNCHANGED <<store, evidence, next>>
    ELSE Settle([p \in Pairs |-> Unavailable])

\* "maximum number of heartbeats" ends the command; the session goes on.
OverBudget ==
    /\ phase = "waiting"
    /\ Load > Budget
    /\ Bisect
    /\ UNCHANGED <<workspaceVars, closure, looked, missing, env, audits, faults>>

\* A timeout or an exit: also recoverable, and the session is retired.
WorkerDies ==
    /\ phase = "waiting"
    /\ faults < MaxFaults
    /\ faults' = faults + 1
    /\ Bisect
    /\ env' = None
    /\ UNCHANGED <<workspaceVars, closure, looked, missing, audits>>

\* An error that is not recoverable (an import that fails, a cancellation, the
\* store's own errors), or the death of the process.
Abort ==
    /\ phase \notin Resting
    /\ faults < MaxFaults
    /\ faults' = faults + 1
    /\ phase' = "failed"
    /\ env' = None
    /\ UNCHANGED <<workspaceVars, store, closure, looked, missing, chunkVars,
                   evidence, audits>>

-----------------------------------------------------------------------------
Verify ==
    \/ Plan \/ LookUp \/ StartProbing \/ NextChunk \/ FinishAudit
    \/ AskWorker \/ Answer \/ OverBudget

Next ==
    \/ \E m \in Modules : EditSource(m)
    \/ LakeBuild
    \/ StartAudit \/ Verify \/ WorkerDies \/ Abort

Spec == Init /\ [][Next]_vars

(* A command returns, with an answer or a failure: WorkerSession shows it.  *)
FairSpec == Spec /\ WF_vars(Verify)

-----------------------------------------------------------------------------
(* Properties *)

\* An audit that succeeds has evidence for every planned pair, wherever its
\* chunk was cut and however often the worker died under it.
EveryPairAnswered ==
    phase = "done" => \A p \in Pairs : evidence[p] # None

\* A pair too slow for the budget costs no other pair its verdict, although
\* they share the heartbeats of a command.
OnlySlowPairsUnavailable ==
    phase = "done" /\ faults = 0 =>
        \A p \in Pairs : evidence[p] = Unavailable <=> Cost[p] > Budget

\* A verdict, cached or new, is what elaboration says of the sources that this
\* audit has seen: of everything in the scope of the pair.
EvidenceIsCurrent ==
    phase = "done" =>
        \A p \in Pairs : evidence[p] # Unavailable =>
            evidence[p] = Verdict(Within(Scope[p], closure))

\* A pair with a stored result is not sent to the worker, not even when the
\* audit that stored it failed later on.
NothingAskedTwice ==
    [][AskWorker => \A p \in Chunk : Cached(p) = None]_vars

\* Bisection comes to an end, and with it the audit.
AuditEnds == phase \notin Resting ~> phase \in Resting

-----------------------------------------------------------------------------
(* What the steps maintain: the inductive invariants behind the properties   *)

Probing == {"probe", "asking", "waiting"}

\* The parts still to be run follow one another from the first pair without
\* an answer.
PartsInv ==
    /\ phase \in {"plan", "lookup"} => next = 1 /\ ends = <<>>
    /\ phase = "plan" => /\ looked = 0 /\ missing = <<>>
                         /\ evidence = [p \in Pairs |-> None]
    /\ phase \in Probing => looked = N
    /\ phase \in {"asking", "waiting"} => ends # <<>> /\ next <= ends[1]
    /\ phase = "waiting" => env \in Contents
    /\ \A i, j \in 1 .. Len(ends) : i < j => ends[i] < ends[j]

\* A pair that still waits for its turn.
Open(p) == \E i \in next .. Len(missing) : missing[i] = p

AnsweredInv ==
    /\ phase = "lookup" => \A p \in 1 .. looked : evidence[p] # None \/ Open(p)
    /\ phase \in Probing => \A p \in Pairs : evidence[p] # None \/ Open(p)
    /\ EveryPairAnswered

\* Nothing is stored for a pair that waits for its turn.
UnaskedInv ==
    /\ \A i \in 1 .. Len(missing) : missing[i] <= looked
    /\ \A i, j \in 1 .. Len(missing) : i < j => missing[i] < missing[j]
    /\ phase \in {"lookup"} \cup Probing =>
         \A i \in next .. Len(missing) : store[Key(missing[i], closure)] = None

\* For a careful user with one toolchain: a stored verdict is the verdict of
\* its key, and what is built, imported and digested is what the sources say.
StoreInv ==
    \A k \in Keys : store[k] \notin {None, Unavailable} => store[k] = Verdict(k[2])

CurrentInv ==
    /\ phase \notin Resting => olean = source
    /\ phase \notin Resting /\ env # None => env = source
    /\ phase \in {"lookup"} \cup Probing => closure = source
    /\ \A p \in Pairs : evidence[p] \notin {None, Unavailable} =>
         evidence[p] = Verdict(Within(Scope[p], closure))

=============================================================================
