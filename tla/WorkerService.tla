---------------------------- MODULE WorkerService ----------------------------
(***************************************************************************)
(* What a WorkerClient promises its callers: a call returns the complete   *)
(* answer to its own request, or an error, and it does return.             *)
(***************************************************************************)
EXTENDS Naturals

CONSTANTS Callers,   \* threads that share one client
          MaxCalls,  \* bound on the calls of each caller
          Rows,      \* the rows of a complete answer
          None

VARIABLES calls,     \* calls each caller has made
          asking,    \* the call is in progress
          answer     \* what the last finished call returned: rows, or None

serviceVars == <<calls, asking, answer>>

\* A row is known by the call it answers and its position.
Complete(c, n) == [i \in 1 .. Rows |-> [call |-> <<c, n>>, row |-> i]]

Init ==
    /\ calls = [c \in Callers |-> 0]
    /\ asking = [c \in Callers |-> FALSE]
    /\ answer = [c \in Callers |-> None]

Ask(c) ==
    /\ ~asking[c] /\ calls[c] < MaxCalls
    /\ calls' = [calls EXCEPT ![c] = @ + 1]
    /\ asking' = [asking EXCEPT ![c] = TRUE]
    /\ answer' = [answer EXCEPT ![c] = None]

\* A call on a client that is already cancelled never leaves the caller.
Refuse(c) ==
    /\ ~asking[c] /\ calls[c] < MaxCalls
    /\ calls' = [calls EXCEPT ![c] = @ + 1]
    /\ answer' = [answer EXCEPT ![c] = None]
    /\ UNCHANGED asking

Return(c) ==
    /\ asking[c]
    /\ asking' = [asking EXCEPT ![c] = FALSE]
    /\ answer' = [answer EXCEPT ![c] = Complete(c, calls[c])]
    /\ UNCHANGED calls

Error(c) ==
    /\ asking[c]
    /\ asking' = [asking EXCEPT ![c] = FALSE]
    /\ UNCHANGED <<calls, answer>>

Next == \E c \in Callers : Ask(c) \/ Refuse(c) \/ Return(c) \/ Error(c)

Spec == Init /\ [][Next]_serviceVars

FairSpec ==
    Spec /\ \A c \in Callers : WF_serviceVars(Return(c) \/ Error(c))

=============================================================================
