---------------------------- MODULE WorkerSession ----------------------------
(***************************************************************************)
(* The JSONL subprocess engine behind WorkerClient, for one workspace root: *)
(* callers that share the engine, the session map, the worker children with *)
(* their stdin, reader thread and frame channel, and the Lean server loop.  *)
(* A child answers one request line with row frames and one terminal frame; *)
(* timeout and cancellation kill it, and the next command spawns another.   *)
(***************************************************************************)
EXTENDS Naturals, Sequences

CONSTANTS
    Callers,       \* threads that share the engine
    Sessions,      \* identities of child processes
    MaxCalls,      \* bound on the commands of each caller
    Rows,          \* rows of a complete answer
    ChannelBound,  \* FRAME_CHANNEL_BOUND
    LargeRequest,  \* TRUE: a request does not fit the stdin pipe's buffer
    Wrapped,       \* TRUE: the child is `lake env`, which runs the worker as
                   \* a process of its own that outlives a kill of lake
    MaxFaults,     \* bound on the crashes and hangs of worker processes
    None

ASSUME SessionAssumption ==
    /\ MaxCalls \in Nat /\ Rows \in Nat /\ MaxFaults \in Nat
    /\ ChannelBound \in Nat \ {0}
    /\ LargeRequest \in BOOLEAN /\ Wrapped \in BOOLEAN
    /\ None \notin Sessions \cup Callers \cup (Callers \X (1 .. MaxCalls))

-----------------------------------------------------------------------------
VARIABLES
    cancelled,  \* WorkerClient.cancelled
    pool,       \* SubprocessEngine.sessions, for the workspace
    pc,         \* of each caller: "idle", "locking", "writing", "draining", "ending"
    calls,      \* how many it has made
    using,      \* the session it holds a reference to, exactly during a call
    got,        \* the rows received
    outcome,    \* of the last call
    holder,     \* the caller that has the session's mutex
    proc,       \* each child: "up", "hung" or "gone"
    stdin,      \* the requests it has not read
    serving,    \* the request it is at, and the rows sent
    frames,     \* rows and terminal frames in its channel
    faults

callerVars == <<pc, calls, using, got, outcome>>
childVars  == <<proc, stdin, serving, frames>>
vars == <<cancelled, pool, callerVars, holder, childVars, faults>>

Call == Callers \X (1 .. MaxCalls)
NotServing == [call |-> None, sent |-> 0]

Outcomes == {"none", "ok", "error", "timeout", "cancelled", "exit"}

\* WorkerError::retires_session.
Retires == {"timeout", "cancelled", "exit"}

Init ==
    /\ cancelled = FALSE
    /\ pool = None
    /\ pc = [c \in Callers |-> "idle"]
    /\ calls = [c \in Callers |-> 0]
    /\ using = [c \in Callers |-> None]
    /\ got = [c \in Callers |-> <<>>]
    /\ outcome = [c \in Callers |-> "none"]
    /\ holder = [s \in Sessions |-> None]
    /\ proc = [s \in Sessions |-> "gone"]
    /\ stdin = [s \in Sessions |-> <<>>]
    /\ serving = [s \in Sessions |-> NotServing]
    /\ frames = [s \in Sessions |-> <<>>]
    /\ faults = 0

-----------------------------------------------------------------------------
(* The session map and its reference counts                                *)

Referenced(s) == pool = s \/ \E c \in Callers : using[c] = s

\* Session::kill, and Drop of the last reference: SIGKILL for the child.  A
\* worker below `lake env` goes on, and ends when it meets its closed pipes.
Kill(s) ==
    proc' = IF Wrapped THEN proc ELSE [proc EXCEPT ![s] = "gone"]

\* The caller lets go of its session; the map holds `left` afterwards.
LetGo(c, left) ==
    /\ pool' = left
    /\ using' = [using EXCEPT ![c] = None]
    /\ LET Kept(s) == left = s \/ \E d \in Callers \ {c} : using[d] = s IN
       proc' = IF Wrapped THEN proc
               ELSE [s \in Sessions |-> IF Kept(s) THEN proc[s] ELSE "gone"]

ThisCall(c) == <<c, calls[c]>>

-----------------------------------------------------------------------------
(* A caller: run_command and drive_command                                 *)

\* WorkerClient::cancel, from any thread at any time.
Cancel ==
    /\ ~cancelled
    /\ cancelled' = TRUE
    /\ UNCHANGED <<pool, callerVars, holder, childVars, faults>>

NewCall(c) ==
    /\ pc[c] = "idle"
    /\ calls[c] < MaxCalls
    /\ calls' = [calls EXCEPT ![c] = @ + 1]
    /\ got' = [got EXCEPT ![c] = <<>>]

\* run_command on a client that is cancelled, which stays cancelled.
RefuseCancelled(c) ==
    /\ NewCall(c)
    /\ cancelled
    /\ outcome' = [outcome EXCEPT ![c] = "cancelled"]
    /\ UNCHANGED <<cancelled, pool, pc, using, holder, childVars, faults>>

ReuseSession(c) ==
    /\ NewCall(c)
    /\ ~cancelled /\ pool # None
    /\ using' = [using EXCEPT ![c] = pool]
    /\ pc' = [pc EXCEPT ![c] = "locking"]
    /\ outcome' = [outcome EXCEPT ![c] = "none"]
    /\ UNCHANGED <<cancelled, pool, holder, childVars, faults>>

\* SubprocessEngine::session and spawn_session, under the map's mutex.
SpawnSession(c) ==
    /\ NewCall(c)
    /\ ~cancelled /\ pool = None
    /\ \E s \in Sessions :
         /\ proc[s] = "gone" /\ ~Referenced(s)
         /\ pool' = s
         /\ using' = [using EXCEPT ![c] = s]
         /\ proc' = [proc EXCEPT ![s] = "up"]
         /\ stdin' = [stdin EXCEPT ![s] = <<>>]
         /\ serving' = [serving EXCEPT ![s] = NotServing]
         /\ frames' = [frames EXCEPT ![s] = <<>>]
    /\ pc' = [pc EXCEPT ![c] = "locking"]
    /\ outcome' = [outcome EXCEPT ![c] = "none"]
    /\ UNCHANGED <<cancelled, holder, faults>>

LockSession(c) ==
    /\ pc[c] = "locking"
    /\ holder[using[c]] = None
    /\ holder' = [holder EXCEPT ![using[c]] = c]
    /\ pc' = [pc EXCEPT ![c] = "writing"]
    /\ UNCHANGED <<cancelled, pool, calls, using, got, outcome, childVars, faults>>

\* The end of the block that holds the mutex, with the command's outcome.
EndCommand(c, result) ==
    /\ pc' = [pc EXCEPT ![c] = "ending"]
    /\ outcome' = [outcome EXCEPT ![c] = result]
    /\ holder' = [holder EXCEPT ![using[c]] = None]
    /\ UNCHANGED <<cancelled, pool, calls, using, faults>>

\* writeln of the request envelope.  It knows no deadline: a request larger
\* than the pipe's buffer waits for the worker to read it.
WriteRequest(c) ==
    LET s == using[c] IN
    /\ pc[c] = "writing"
    /\ proc[s] # "gone"
    /\ LargeRequest => proc[s] = "up" /\ serving[s] = NotServing
    /\ stdin' = [stdin EXCEPT ![s] = Append(@, ThisCall(c))]
    /\ pc' = [pc EXCEPT ![c] = "draining"]
    /\ UNCHANGED <<cancelled, pool, calls, using, got, outcome, holder, proc,
                   serving, frames, faults>>

WriteFails(c) ==
    /\ pc[c] = "writing"
    /\ proc[using[c]] = "gone"
    /\ EndCommand(c, "exit")
    /\ UNCHANGED <<got, childVars>>

\* Mutant: a row that cannot be decoded ends the command where it stands.
BadRowEnds(c) ==
    LET s == using[c] IN
    /\ pc[c] = "draining"
    /\ frames[s] # <<>> /\ Head(frames[s]).kind = "row"
    /\ EndCommand(c, "error")
    /\ frames' = [frames EXCEPT ![s] = Tail(@)]
    /\ UNCHANGED <<got, proc, stdin, serving>>

\* A row, decoded into the caller's rows or forwarded to its sink.
ReceiveRow(c) ==
    LET s == using[c] IN
    /\ pc[c] = "draining"
    /\ frames[s] # <<>>
    /\ LET frame == Head(frames[s]) IN
         /\ frame.kind = "row"
         /\ got' = [got EXCEPT ![c] =
                Append(@, [call |-> frame.call, row |-> frame.row])]
    /\ frames' = [frames EXCEPT ![s] = Tail(@)]
    /\ UNCHANGED <<cancelled, pool, pc, calls, using, outcome, holder, proc,
                   stdin, serving, faults>>

\* The terminal frame: finish_streaming.  A row that could not be decoded, or
\* that the sink refused, is an error only now, when the answer is drained.
ReceiveEnd(c) ==
    LET s == using[c] IN
    /\ pc[c] = "draining"
    /\ frames[s] # <<>>
    /\ Head(frames[s]).kind # "row"
    /\ \E result \in {"ok", "error"} :
         /\ result = "ok" => Head(frames[s]).kind = "end"
         /\ EndCommand(c, result)
    /\ frames' = [frames EXCEPT ![s] = Tail(@)]
    /\ UNCHANGED <<got, proc, stdin, serving>>

\* The channel is drained and its sender, the reader thread, has met EOF.
Disconnected(c) ==
    LET s == using[c] IN
    /\ pc[c] = "draining"
    /\ frames[s] = <<>> /\ proc[s] = "gone"
    /\ EndCommand(c, "exit")
    /\ UNCHANGED <<got, childVars>>

\* Mutant: a command that is out of time leaves its child to the next one.
TimeoutSpares(c) ==
    /\ pc[c] = "draining"
    /\ EndCommand(c, "timeout")
    /\ UNCHANGED <<got, childVars>>

\* The deadline, which may fall anywhere between two receptions.
Timeout(c) ==
    /\ pc[c] = "draining"
    /\ Kill(using[c])
    /\ EndCommand(c, "timeout")
    /\ UNCHANGED <<got, stdin, serving, frames>>

\* Mutant: the flag is looked at when a frame arrives.
SeeCancelledLate(c) ==
    /\ pc[c] = "draining"
    /\ cancelled
    /\ frames[using[c]] # <<>>
    /\ Kill(using[c])
    /\ EndCommand(c, "cancelled")
    /\ UNCHANGED <<got, stdin, serving, frames>>

\* The poll of the flag, at most CANCEL_POLL away.
SeeCancelled(c) ==
    /\ pc[c] = "draining"
    /\ cancelled
    /\ Kill(using[c])
    /\ EndCommand(c, "cancelled")
    /\ UNCHANGED <<got, stdin, serving, frames>>

\* Mutant: a fatal outcome leaves the dead session in the map.
EndWithoutRetire(c) ==
    /\ pc[c] = "ending"
    /\ LetGo(c, pool)
    /\ pc' = [pc EXCEPT ![c] = "idle"]
    /\ UNCHANGED <<cancelled, calls, got, outcome, holder, stdin, serving,
                   frames, faults>>

\* retire, for the outcomes that make the child unusable: it removes whatever
\* session the map holds by now.  Then the caller returns.
EndCall(c) ==
    /\ pc[c] = "ending"
    /\ LetGo(c, IF outcome[c] \in Retires THEN None ELSE pool)
    /\ pc' = [pc EXCEPT ![c] = "idle"]
    /\ UNCHANGED <<cancelled, calls, got, outcome, holder, stdin, serving,
                   frames, faults>>

-----------------------------------------------------------------------------
(* The Lean server loop                                                    *)

ChildOnly == UNCHANGED <<cancelled, pool, callerVars, holder>>

\* main: getLine and serveLine.
ReadRequest(s) ==
    /\ proc[s] = "up"
    /\ serving[s] = NotServing
    /\ stdin[s] # <<>>
    /\ serving' = [serving EXCEPT ![s] = [call |-> Head(stdin[s]), sent |-> 0]]
    /\ stdin' = [stdin EXCEPT ![s] = Tail(@)]
    /\ UNCHANGED <<proc, frames, faults>>
    /\ ChildOnly

Emit(s, frame) ==
    /\ proc[s] = "up"
    /\ serving[s] # NotServing
    /\ Len(frames[s]) < ChannelBound
    /\ frames' = [frames EXCEPT ![s] = Append(@, frame)]
    /\ UNCHANGED <<proc, stdin, faults>>
    /\ ChildOnly

EmitRow(s) ==
    LET n == serving[s].sent + 1 IN
    /\ n <= Rows
    /\ Emit(s, [kind |-> "row", call |-> serving[s].call, row |-> n])
    /\ serving' = [serving EXCEPT ![s].sent = n]

\* The success summary, after all rows.
EmitEnd(s) ==
    /\ serving[s].sent = Rows
    /\ Emit(s, [kind |-> "end", call |-> serving[s].call])
    /\ serving' = [serving EXCEPT ![s] = NotServing]

\* dispatch frames every failure, also one after some rows were emitted.
EmitFailure(s) ==
    /\ Emit(s, [kind |-> "fail", call |-> serving[s].call])
    /\ serving' = [serving EXCEPT ![s] = NotServing]

\* The pipes of a session that was dropped are closed: the loop ends at EOF,
\* or at its next emit.
WorkerSeesEof(s) ==
    /\ proc[s] = "up"
    /\ ~Referenced(s)
    /\ proc' = [proc EXCEPT ![s] = "gone"]
    /\ UNCHANGED <<stdin, serving, frames, faults>>
    /\ ChildOnly

Crash(s) ==
    /\ proc[s] # "gone"
    /\ faults < MaxFaults
    /\ faults' = faults + 1
    /\ proc' = [proc EXCEPT ![s] = "gone"]
    /\ UNCHANGED <<stdin, serving, frames>>
    /\ ChildOnly

\* An elaboration without end, or a start-up that never gets to getLine.
Hang(s) ==
    /\ proc[s] = "up"
    /\ faults < MaxFaults
    /\ faults' = faults + 1
    /\ proc' = [proc EXCEPT ![s] = "hung"]
    /\ UNCHANGED <<stdin, serving, frames>>
    /\ ChildOnly

-----------------------------------------------------------------------------
StartCall(c) == RefuseCancelled(c) \/ ReuseSession(c) \/ SpawnSession(c)

ContinueCall(c) ==
    \/ LockSession(c) \/ WriteRequest(c) \/ WriteFails(c)
    \/ ReceiveRow(c) \/ ReceiveEnd(c) \/ Disconnected(c)
    \/ SeeCancelled(c) \/ EndCall(c)

ServerStep(s) ==
    \/ ReadRequest(s) \/ EmitRow(s) \/ EmitEnd(s) \/ WorkerSeesEof(s)

Next ==
    \/ Cancel
    \/ \E c \in Callers : StartCall(c) \/ ContinueCall(c) \/ Timeout(c)
    \/ \E s \in Sessions : \/ ServerStep(s) \/ EmitFailure(s)
                           \/ Crash(s) \/ Hang(s)

Spec == Init /\ [][Next]_vars

(* A thread that is in a call runs, and the clock reaches its deadline.  The *)
(* worker owes nothing: it may be slow for ever.  After a cancellation no    *)
(* progress is drawn from a deadline, which may be half an hour away.        *)
Fairness ==
    \A c \in Callers :
        WF_vars(ContinueCall(c)) /\ WF_vars(~cancelled /\ Timeout(c))

FairSpec == Spec /\ Fairness

-----------------------------------------------------------------------------
(* Properties *)

\* A call that succeeds has every row of its own answer, in order, and no row
\* of another call: not of one that timed out on the same child before it.
AnswersAreOwn ==
    \A c \in Callers : outcome[c] = "ok" =>
        got[c] = [i \in 1 .. Rows |-> [call |-> ThisCall(c), row |-> i]]

\* A session that waits for its next command, in the map or in the hands of a
\* caller that is about to write it, has nothing left of the last one, however
\* that ended: also when the kill of `lake env` has spared the worker, as soon
\* as the caller that killed it has returned.
BeingRetired(s) ==
    \E c \in Callers : using[c] = s /\ pc[c] = "ending" /\ outcome[c] \in Retires

WaitsForCommand(s) ==
    \/ pool = s /\ holder[s] = None /\ ~BeingRetired(s)
    \/ \E c \in Callers : using[c] = s /\ pc[c] = "writing"

PooledSessionIsQuiet ==
    \A s \in Sessions :
        proc[s] = "up" /\ WaitsForCommand(s) =>
            /\ stdin[s] = <<>> /\ frames[s] = <<>>
            /\ serving[s] = NotServing

\* Cancellation interrupts what runs: every call in progress ends, without
\* waiting for its deadline.
CancelEndsCalls == cancelled ~> \A c \in Callers : pc[c] = "idle"

Returned(c) == pc[c] = "idle" /\ outcome[c] = "ok"

Service == INSTANCE WorkerService WITH
    asking <- [c \in Callers |-> pc[c] # "idle"],
    answer <- [c \in Callers |-> IF Returned(c) THEN got[c] ELSE None]

\* The engine is the service its callers see.
ImplementsService == Service!FairSpec

=============================================================================
