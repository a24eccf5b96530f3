---------------------------- MODULE ImportClosure ----------------------------
(***************************************************************************)
(* ModuleClosureResolver: the modules that a module imports, directly or   *)
(* not, found by a depth-first search with an explicit stack.  Closures    *)
(* found on the way are memoised for as long as the resolver lives, which  *)
(* is for all pairs of a plan.                                             *)
(***************************************************************************)
EXTENDS Naturals, Sequences, FiniteSets

CONSTANTS
    Modules,
    Graphs,     \* what the headers of the built modules may say
    None

ASSUME ClosureAssumption ==
    /\ IsFiniteSet(Modules)
    /\ Graphs \subseteq [Modules -> SUBSET Modules]
    /\ None \notin Modules /\ \A S \in SUBSET Modules : S # None

VARIABLES
    imports,    \* direct_imports; of a module that is not built, none
    members,    \* the closures that are known
    target,     \* the module that closure_members was called for, or None
    stack,      \* modules to visit, the next one last; TRUE: visited before
    result      \* modules found since the call

closureVars == <<imports, members, target, stack, result>>

Known(m) == members[m] # None

ClosureInit ==
    /\ imports \in Graphs
    /\ members = [m \in Modules |-> None]
    /\ target = None
    /\ stack = <<>>
    /\ result = {}

ClosureTypeOK ==
    /\ imports \in Graphs
    /\ members \in [Modules -> (SUBSET Modules) \cup {None}]
    /\ target \in Modules \cup {None}
    /\ stack \in Seq(Modules \X BOOLEAN)
    /\ result \subseteq Modules

-----------------------------------------------------------------------------
\* closure_members is called: a known closure is there at once.
Resolve(m) ==
    /\ target = None
    /\ target' = m
    /\ stack' = IF Known(m) THEN <<>> ELSE <<<<m, FALSE>>>>
    /\ result' = {}
    /\ UNCHANGED <<imports, members>>

Current  == stack[Len(stack)][1]
Expanded == stack[Len(stack)][2]
Below    == SubSeq(stack, 1, Len(stack) - 1)

\* The module has been dealt with since it was pushed.
Skip ==
    /\ stack # <<>>
    /\ Current \in result \/ (~Expanded /\ Known(Current))
    /\ stack' = Below
    /\ UNCHANGED <<imports, members, target, result>>

\* The imports are known by now: the closure is theirs and the module itself.
Merge ==
    LET merged == {Current} \cup
                  UNION {members[i] : i \in {j \in imports[Current] : Known(j)}}
    IN /\ stack # <<>>
       /\ Current \notin result /\ Expanded
       /\ result' = result \cup merged
       /\ members' = [members EXCEPT ![Current] = merged]
       /\ stack' = Below
       /\ UNCHANGED <<imports, target>>

\* The imports still to be visited, in any order: that of the header is left open.
Unknown == {i \in imports[Current] : ~Known(i) /\ i \notin result}
Orders  == {s \in [1 .. Cardinality(Unknown) -> Unknown \X {FALSE}] :
                \A i \in Unknown : \E k \in DOMAIN s : s[k] = <<i, FALSE>>}

\* Mutant: the module is pushed again as if it had not been visited.
PushUnmarked ==
    /\ stack # <<>>
    /\ Current \notin result /\ ~Expanded /\ ~Known(Current)
    /\ \E s \in Orders : stack' = Append(Below, <<Current, FALSE>>) \o s
    /\ UNCHANGED <<imports, members, target, result>>

\* A first visit: the imports still unknown go on top of the module.
Push ==
    /\ stack # <<>>
    /\ Current \notin result /\ ~Expanded /\ ~Known(Current)
    /\ \E s \in Orders : stack' = Append(Below, <<Current, TRUE>>) \o s
    /\ UNCHANGED <<imports, members, target, result>>

\* What the call returns.
Closure == IF Known(target) THEN members[target] ELSE result

Return ==
    /\ target # None /\ stack = <<>>
    /\ target' = None
    /\ UNCHANGED <<imports, members, stack, result>>

Search == Skip \/ Merge \/ Push

ClosureNext == Search \/ Return \/ \E m \in Modules : Resolve(m)

ClosureSpec == ClosureInit /\ [][ClosureNext]_closureVars

-----------------------------------------------------------------------------
\* The reference definition: the least set with m that is closed under imports.
Closed(S) == \A m \in S : imports[m] \subseteq S
Reach(m) == {n \in Modules : \A S \in SUBSET Modules : m \in S /\ Closed(S) => n \in S}

\* Every memoised closure, also one found while another one was asked for, is
\* complete, and so is what a call returns.
ClosuresAreExact ==
    /\ \A m \in Modules : Known(m) => members[m] = Reach(m)
    /\ target # None /\ stack = <<>> => Closure = Reach(target)

-----------------------------------------------------------------------------
(* What the steps maintain *)

\* What is known is exact and its modules are known; an expanded module waits
\* below the imports that are not; the module asked for is not lost.
MemoInv ==
    /\ \A m \in Modules : Known(m) =>
         members[m] = Reach(m) /\ \A n \in members[m] : Known(n)
    /\ \A n \in result : Known(n)

StackInv ==
    /\ \A k \in 1 .. Len(stack) : stack[k][2] =>
         \A i \in imports[stack[k][1]] :
            Known(i) \/ \E j \in k + 1 .. Len(stack) : stack[j][1] = i
    /\ target # None => Known(target) \/ \E j \in 1 .. Len(stack) : stack[j][1] = target

=============================================================================
