-------------------------- MODULE WorkerInstallProofs --------------------------
(***************************************************************************)
(* Theorems about WorkerInstall, for every number of installers, audits,   *)
(* toolchains, headers, updates and faults.  Nothing locks the install     *)
(* directory, so what an installation may rely on holds only as long as    *)
(* no other one and no update disturbs it; and what an audit may rely on,  *)
(* as long as the last installation was not cut short.                     *)
(***************************************************************************)
EXTENDS WorkerInstall, TLAPS

\* An installation from the moment it removes the executable in place.
Past  == {"rename", "copy", "hash", "describe", "fill", "load", "check", "spawn"}
\* And from the moment its own one is there.
Moved == Past \ {"rename", "copy"}

Built(p) == [of |-> T(p), header |-> header[T(p)], from |-> local[p].from]

Processes == Installers \cup Audits

\* What is written into a sidecar is the digest of a header.
DigestInv ==
    \A p \in Installers :
        pc[p] \in {"describe", "fill", "load", "check", "spawn"} => local[p].digest # None

\* Installations that share a place know of each other.
ExclusiveInv ==
    \A p, q \in Installers :
        Busy(p) /\ Busy(q) /\ SharesWith(p, q) => local[p].disturbed

\* Where an installation stands that nothing disturbed: its own product is in
\* the checkout's bin directory, or in place; its digest is that of the header
\* it was built with; and it passed its test only if it works.
BuiltOK(p) ==
    Busy(p) /\ ~local[p].disturbed =>
        /\ header[T(p)] # None
        /\ pc[p] \in {"remove", "rename", "copy"} => bin[Place(p)] = Built(p)
        /\ pc[p] \in {"rename", "copy"} => exe[T(p)] \in {None, Torn}
        /\ pc[p] \in Moved => exe[T(p)] = Built(p)
        /\ pc[p] \in Moved \ {"hash"} => local[p].digest = header[T(p)]
        /\ pc[p] = "fill" => sidecar[T(p)] = Torn
        /\ local[p].smoke = "passed" => exe[T(p)] \notin Broken

BuiltInv == \A p \in Installers : BuiltOK(p)

\* The outcome of the test is there from the test to the second sidecar.
SmokeInv ==
    \A p \in Installers :
        local[p].smoke # None => pc[p] \in {"describe", "fill"}

\* No toolchain is settled during an installation of its worker.
UnsettledInv ==
    \A p \in Installers : pc[p] \in Past => last[T(p)] = Unsettled

\* What is in the install directory of a toolchain, once that is settled.
Settled(t) ==
    \/ exe[t] = None /\ sidecar[t] = None /\ last[t].result = "none"
    \/ /\ sidecar[t] \in [sysroot : {t}, digest : Headers, smoke : Outcomes]
       /\ \E from \in Sources :
            exe[t] = [of |-> t, header |-> sidecar[t].digest, from |-> from]
       /\ sidecar[t].smoke = "passed" => exe[t] \notin Broken
       /\ last[t].result = "ok" =>
            sidecar[t].smoke = "passed" /\ sidecar[t].digest = last[t].header

SettledInv == \A t \in Toolchains : last[t] # Unsettled => Settled(t)

\* An audit that nothing disturbs holds the sidecar as it is, and what it made
\* of it still follows from it.
AuditOK(p) ==
    pc[p] # "idle" /\ ~local[p].disturbed =>
        /\ last[T(p)] # Unsettled
        /\ pc[p] = "check" => local[p].sidecar = sidecar[T(p)]
        /\ pc[p] = "spawn" => ResolveIn(sidecar[T(p)], T(p)) = "served"
        /\ pc[p] = "refused" => ResolveIn(sidecar[T(p)], T(p)) # "served"

AuditInv == \A p \in Audits : AuditOK(p)

IInv ==
    /\ TypeOK /\ DigestInv /\ ExclusiveInv /\ BuiltInv /\ SmokeInv /\ UnsettledInv /\ SettledInv
    /\ AuditInv

-----------------------------------------------------------------------------
(* Types *)

\* What a process holds keeps its type when one field is set.
LEMMA LocalFields ==
    ASSUME NEW l \in Locals
    PROVE  /\ [l EXCEPT !.force = FALSE] \in Locals
           /\ \A b \in BOOLEAN : [l EXCEPT !.disturbed = b] \in Locals
           /\ \A d \in Headers : [l EXCEPT !.digest = d] \in Locals
           /\ \A s \in Sidecars \cup {None} : [l EXCEPT !.sidecar = s] \in Locals
           /\ \A o \in Outcomes : [l EXCEPT !.smoke = o, !.sidecar = None] \in Locals
BY DEF Locals

\* A process that is called upon holds nothing yet.
LEMMA IdleFields ==
    /\ Idle \in Locals
    /\ \A t \in Toolchains, from \in Sources, force \in BOOLEAN :
          [Idle EXCEPT !.of = t, !.from = from, !.force = force] \in Locals
    /\ \A t \in Toolchains, s \in Sidecars \cup {None}, b \in BOOLEAN :
          [Idle EXCEPT !.of = t, !.sidecar = s, !.disturbed = b] \in Locals
BY DEF Idle, Locals, Sources

\* Who is disturbed keeps everything else.
LEMMA Disturbed ==
    ASSUME TypeOK, NEW S, Disturb(S)
    PROVE  /\ local' \in [Processes -> Locals]
           /\ \A q \in Processes :
                local'[q] = [local[q] EXCEPT !.disturbed = @ \/ q \in S]
<1>1. DOMAIN local = Processes
  BY DEF TypeOK, Processes
<1>2. \A q \in Processes : local'[q] = [local[q] EXCEPT !.disturbed = @ \/ q \in S]
  BY <1>1 DEF Disturb
<1>3. \A q \in Processes : local[q] \in Locals /\ local[q].disturbed \in BOOLEAN
  BY DEF TypeOK, Processes, Locals
<1>4. \A q \in Processes : local'[q] \in Locals
  BY <1>2, <1>3, LocalFields
<1> QED
  BY <1>1, <1>2, <1>4 DEF Disturb

\* One field is all that is set, and it is set for those in S only.
LEMMA DisturbedFields ==
    ASSUME TypeOK, NEW S, Disturb(S), NEW q \in Processes
    PROVE  /\ local'[q].of = local[q].of /\ local'[q].from = local[q].from
           /\ local'[q].digest = local[q].digest /\ local'[q].smoke = local[q].smoke
           /\ local'[q].sidecar = local[q].sidecar
           /\ local'[q].disturbed <=> local[q].disturbed \/ q \in S
           /\ q \notin S => local'[q] = local[q]
<1> DEFINE l == local[q]
<1>1. l \in Locals
  BY DEF TypeOK, Processes
<1>2. local'[q] = [l EXCEPT !.disturbed = l.disturbed \/ q \in S]
  BY Disturbed
<1> HIDE DEF l
<1>3. /\ local'[q].of = l.of /\ local'[q].from = l.from
      /\ local'[q].digest = l.digest /\ local'[q].smoke = l.smoke
      /\ local'[q].sidecar = l.sidecar
      /\ local'[q].disturbed <=> l.disturbed \/ q \in S
  BY <1>1, <1>2 DEF Locals
<1>4. ASSUME q \notin S PROVE local'[q] = l
  <2>1. (l.disturbed \/ q \in S) = l.disturbed
    BY <1>1, <1>4 DEF Locals
  <2>2. [l EXCEPT !.disturbed = l.disturbed] = l
    BY <1>1 DEF Locals
  <2> QED
    BY <1>2, <2>1, <2>2
<1> QED
  BY <1>3, <1>4 DEF l

\* A step of one process.
LEMMA OneSteps ==
    ASSUME TypeOK, NEW p \in Processes, NEW step, NEW l \in Locals,
           step \in Steps,
           pc' = [pc EXCEPT ![p] = step], local' = [local EXCEPT ![p] = l],
           step # "idle" => l.of \in Toolchains
    PROVE  /\ pc' \in [Processes -> Steps]
           /\ local' \in [Processes -> Locals]
           /\ \A q \in Processes : pc'[q] # "idle" => T(q)' \in Toolchains
           /\ pc'[p] = step /\ local'[p] = l
           /\ \A q \in Processes \ {p} : pc'[q] = pc[q] /\ local'[q] = local[q]
BY DEF TypeOK, Processes, T

\* A step of one process that touches no file and no header.
LEMMA TypeOneSteps ==
    ASSUME TypeOK, NEW p \in Processes, NEW step \in Steps, NEW l \in Locals,
           pc' = [pc EXCEPT ![p] = step], local' = [local EXCEPT ![p] = l],
           step # "idle" => l.of \in Toolchains,
           UNCHANGED <<header, disk>>,
           last' \in [Toolchains -> [result : {"none", "unsettled", "ok", "failed"},
                                     header : Headers \cup {None}]],
           installs' \in 0 .. MaxInstalls, updates' \in 0 .. MaxUpdates,
           faults' \in 0 .. MaxFaults
    PROVE  TypeOK'
<1>1. pc' \in [Processes -> Steps] /\ local' \in [Processes -> Locals]
  BY OneSteps
<1>2. \A q \in Processes : pc'[q] # "idle" => T(q)' \in Toolchains
  BY OneSteps
<1> QED
  BY <1>1, <1>2 DEF TypeOK, disk, Processes

\* Installers and audits keep every variable in its range where they move
\* from step to step.
LEMMA QuietTypes ==
    ASSUME TypeOK, NEW p \in Processes,
           \/ p \in Installers /\ (\/ Install(p) \/ AlreadyCurrent(p) \/ ElanDir(p)
                                   \/ BuildFails(p) \/ HashLeanHeader(p)
                                   \/ SmokeTest(p) \/ InstallEnds(p) \/ SmokeTimesOut(p))
           \/ p \in Audits /\ (ResolveInstalledWorker(p) \/ AuditStartsWorker(p))
           \/ LoadSidecar(p) \/ CheckInstalled(p)
    PROVE  TypeOK'
<1> USE InstallAssumption DEF meta
<1>1. /\ local[p] \in Locals
      /\ pc[p] # "idle" => local[p].of \in Toolchains /\ T(p) \in Toolchains
      /\ installs \in 0 .. MaxInstalls /\ updates \in 0 .. MaxUpdates
      /\ faults \in 0 .. MaxFaults
      /\ last \in [Toolchains -> [result : {"none", "unsettled", "ok", "failed"},
                                  header : Headers \cup {None}]]
      /\ \A t \in Toolchains : header[t] \in Headers \cup {None}
      /\ \A t \in Toolchains : sidecar[t] \in Sidecars \cup {None, Torn}
  BY DEF TypeOK, Processes, T
<1>2. /\ \A q \in {"idle", "start", "build", "describe", "check", "spawn", "refused"} :
           q \in Steps
      /\ \A t \in Toolchains : Parse(sidecar[t]) \in Sidecars \cup {None}
      /\ \A o \in {"passed", "failed"} : o \in Outcomes
  BY <1>1 DEF Steps, Parse, Outcomes
<1>3. \A f \in {0, 1} : faults < MaxFaults => faults + f \in 0 .. MaxFaults
  BY <1>1
<1>4. CASE Install(p)
  <2>1. PICK t \in Toolchains, from \in Sources, force \in BOOLEAN :
          local' = [local EXCEPT ![p] = [Idle EXCEPT !.of = t, !.from = from,
                                                     !.force = force]]
    BY <1>4 DEF Install, Hold, ResolveToolchain, FromLakeRoot
  <2> DEFINE l == [Idle EXCEPT !.of = t, !.from = from, !.force = force]
  <2>2. l \in Locals /\ l.of = t
    BY IdleFields DEF Idle
  <2>3. /\ pc' = [pc EXCEPT ![p] = "start"] /\ UNCHANGED <<header, disk, last>>
        /\ installs < MaxInstalls /\ installs' = installs + 1
        /\ UNCHANGED <<updates, faults>>
    BY <1>4 DEF Install, Goto
  <2>4. installs' \in 0 .. MaxInstalls
    BY <1>1, <2>3
  <2> HIDE DEF l
  <2> QED
    BY <1>1, <1>2, <2>1, <2>2, <2>3, <2>4, TypeOneSteps DEF l
<1>5. CASE AlreadyCurrent(p)
  <2>1. T(p) \in Toolchains
    BY <1>1, <1>5 DEF AlreadyCurrent, T
  <2>2. last' \in [Toolchains -> [result : {"none", "unsettled", "ok", "failed"},
                                  header : Headers \cup {None}]]
    BY <1>1, <1>5, <2>1 DEF AlreadyCurrent
  <2> QED
    BY <1>1, <1>2, <1>5, <2>2, IdleFields, TypeOneSteps DEF AlreadyCurrent, Stop, Goto, Hold
<1>6. CASE \/ (ElanDir(p) \/ HashLeanHeader(p)) /\ header[T(p)] = None
           \/ BuildFails(p) \/ InstallEnds(p) \/ AuditStartsWorker(p)
  <2>1. /\ pc' = [pc EXCEPT ![p] = "idle"] /\ local' = [local EXCEPT ![p] = Idle]
        /\ UNCHANGED <<header, disk, last, installs, updates>>
        /\ faults' \in 0 .. MaxFaults
    BY <1>1, <1>3, <1>6
       DEF ElanDir, BuildFails, InstallEnds, Fault, HashLeanHeader, AuditStartsWorker,
           Stop, Goto, Hold
  <2> QED
    BY <1>1, <1>2, <2>1, IdleFields, TypeOneSteps
<1>7. CASE ElanDir(p) /\ header[T(p)] # None
  <2> DEFINE l == [local[p] EXCEPT !.force = FALSE]
  <2>1. l \in Locals /\ l.of \in Toolchains
    BY <1>1, <1>7, LocalFields DEF ElanDir, Locals
  <2>2. /\ pc' = [pc EXCEPT ![p] = "build"] /\ local' = [local EXCEPT ![p] = l]
        /\ UNCHANGED <<header, disk, last, meta>>
    BY <1>7 DEF ElanDir, Goto, Hold
  <2> HIDE DEF l
  <2> QED
    BY <1>1, <1>2, <2>1, <2>2, TypeOneSteps
<1>8. CASE HashLeanHeader(p) /\ header[T(p)] # None
  <2> DEFINE l == [local[p] EXCEPT !.digest = header[T(p)]]
  <2>1. header[T(p)] \in Headers
    BY <1>1, <1>8 DEF HashLeanHeader, T
  <2>2. l \in Locals /\ l.of \in Toolchains
    BY <1>1, <1>8, <2>1, LocalFields DEF HashLeanHeader, Locals
  <2>3. /\ pc' = [pc EXCEPT ![p] = "describe"] /\ local' = [local EXCEPT ![p] = l]
        /\ UNCHANGED <<header, disk, last, meta>>
    BY <1>8 DEF HashLeanHeader, Goto, Hold
  <2> HIDE DEF l
  <2> QED
    BY <1>1, <1>2, <2>2, <2>3, TypeOneSteps
<1>9. ASSUME NEW o \in {"passed", "failed"}, SmokeTested(p, o), pc[p] # "idle",
             UNCHANGED <<header, disk, installs, updates>>, faults' \in 0 .. MaxFaults
      PROVE  TypeOK'
  <2> DEFINE l == [local[p] EXCEPT !.smoke = o, !.sidecar = None]
  <2>1. l \in Locals /\ l.of \in Toolchains
    <3>1. l \in Locals
      BY <1>1, <1>2, LocalFields
    <3>2. l.of = local[p].of
      BY <1>1 DEF Locals
    <3> QED
      BY <1>1, <1>9, <3>1, <3>2
  <2>2. /\ pc' = [pc EXCEPT ![p] = "describe"] /\ local' = [local EXCEPT ![p] = l]
        /\ last' = last
    BY <1>9 DEF SmokeTested, Goto, Hold
  <2> HIDE DEF l
  <2> QED
    BY <1>1, <1>2, <1>9, <2>1, <2>2, TypeOneSteps
<1>10. CASE SmokeTest(p) \/ SmokeTimesOut(p)
  BY <1>1, <1>3, <1>9, <1>10 DEF SmokeTest, SmokeTimesOut, Fault
<1>11. CASE ResolveInstalledWorker(p)
  <2>1. PICK t \in Toolchains :
          local' = [local EXCEPT ![p] = [Idle EXCEPT !.of = t, !.sidecar = Parse(sidecar[t]),
                                                     !.disturbed = last[t] = Unsettled]]
    BY <1>11 DEF ResolveInstalledWorker, Hold, FromLakeRoot
  <2> DEFINE l == [Idle EXCEPT !.of = t, !.sidecar = Parse(sidecar[t]),
                               !.disturbed = last[t] = Unsettled]
  <2>2. l \in Locals
    BY <1>2, IdleFields
  <2>3. l.of = t
    BY DEF Idle
  <2>4. pc' = [pc EXCEPT ![p] = "check"] /\ UNCHANGED <<header, disk, last, meta>>
    BY <1>11 DEF ResolveInstalledWorker, Goto
  <2> HIDE DEF l
  <2> QED
    BY <1>1, <1>2, <2>1, <2>2, <2>3, <2>4, TypeOneSteps DEF l
<1>12. ASSUME NEW s \in Sidecars \cup {None}, NEW step \in Steps, pc[p] # "idle",
              Hold(p, [local[p] EXCEPT !.sidecar = s]), Goto(p, step),
              UNCHANGED <<header, disk, last, meta>>
       PROVE  TypeOK'
  <2> DEFINE l == [local[p] EXCEPT !.sidecar = s]
  <2>1. l \in Locals /\ l.of \in Toolchains
    BY <1>1, <1>12, LocalFields DEF Locals
  <2>2. /\ pc' = [pc EXCEPT ![p] = step] /\ local' = [local EXCEPT ![p] = l]
    BY <1>12 DEF Goto, Hold
  <2> HIDE DEF l
  <2> QED
    BY <1>1, <1>12, <2>1, <2>2, TypeOneSteps
<1>13. CASE LoadSidecar(p)
  BY <1>1, <1>2, <1>12, <1>13 DEF LoadSidecar, T
<1>14. CASE CheckInstalled(p)
  BY <1>1, <1>2, <1>9, <1>12, <1>14 DEF CheckInstalled
<1> QED
  BY <1>4, <1>5, <1>6, <1>7, <1>8, <1>10, <1>11, <1>13, <1>14

\* The same where they write, and where the toolchain changes.
LEMMA FileTypes ==
    ASSUME TypeOK, DigestInv, NEW p \in Installers,
           BuildWorker(p) \/ RemoveStale(p) \/ MoveIntoPlace(p) \/ WriteSidecar(p)
    PROVE  TypeOK'
<1> USE InstallAssumption DEF meta, disk
<1>1. /\ p \in Processes /\ T(p) \in Toolchains /\ local[p] \in Locals
      /\ local[p].of = T(p) /\ pc[p] # "idle"
  BY DEF TypeOK, Processes, T, BuildWorker, RemoveStale, MoveIntoPlace, WriteSidecar
<1>2. /\ local[p].from \in Sources /\ Place(p) \in Toolchains \cup {"checkout"}
      /\ \A t \in Toolchains : header[t] \in Headers \cup {None}
      /\ \A s \in {"idle", "remove", "rename", "copy", "hash", "fill", "load"} : s \in Steps
      /\ pc \in [Processes -> Steps] /\ local \in [Processes -> Locals]
      /\ \A q \in Processes : pc[q] # "idle" => T(q) \in Toolchains
  BY <1>1 DEF Locals, Place, TypeOK, Steps, Processes
<1>3. ASSUME NEW step \in Steps, Goto(p, step),
             \/ UNCHANGED local \/ (step = "idle" /\ Hold(p, Idle))
             \/ \E S : Disturb(S)
      PROVE  /\ pc' \in [Processes -> Steps] /\ local' \in [Processes -> Locals]
             /\ \A q \in Processes : pc'[q] # "idle" => T(q)' \in Toolchains
  <2>1. pc' = [pc EXCEPT ![p] = step]
    BY <1>3 DEF Goto
  <2>2. CASE UNCHANGED local
    BY <1>1, <1>2, <2>1, <2>2 DEF T
  <2>3. CASE step = "idle" /\ Hold(p, Idle)
    BY <1>1, <1>2, <2>1, <2>3, IdleFields DEF T, Hold
  <2>4. CASE \E S : Disturb(S)
    <3>1. PICK S : Disturb(S)
      BY <2>4
    <3>2. /\ local' \in [Processes -> Locals]
          /\ \A q \in Processes :
               local'[q] = [local[q] EXCEPT !.disturbed = @ \/ q \in S]
      BY <3>1, Disturbed
    <3>3. \A q \in Processes : local'[q].of = local[q].of
      BY <1>2, <3>2 DEF Locals
    <3> QED
      BY <1>1, <1>2, <2>1, <3>2, <3>3 DEF T
  <2> QED
    BY <1>3, <2>2, <2>3, <2>4
<1>4. CASE BuildWorker(p)
  <2>1. bin' = [bin EXCEPT ![Place(p)] =
                  [of |-> T(p), header |-> header[T(p)], from |-> local[p].from]]
    BY <1>4 DEF BuildWorker
  <2>2. [of |-> T(p), header |-> header[T(p)], from |-> local[p].from] \in Builds
    BY <1>1, <1>2, <1>4 DEF Builds, BuildWorker
  <2>3. bin' \in [Toolchains \cup {"checkout"} -> Builds \cup {None}]
    BY <2>1, <2>2 DEF TypeOK
  <2>4. Goto(p, "remove") /\ \E S : Disturb(S)
    BY <1>4 DEF BuildWorker, MaterializeBuildRoot
  <2>5. UNCHANGED <<header, exe, sidecar, last, installs, updates, faults>>
    BY <1>4 DEF BuildWorker
  <2> QED
    BY <1>2, <1>3, <2>3, <2>4, <2>5 DEF TypeOK, Processes
<1>5. CASE RemoveStale(p)
  <2>1. /\ exe' \in [Toolchains -> Builds \cup {None, Torn}]
        /\ last' \in [Toolchains -> [result : {"none", "unsettled", "ok", "failed"},
                                     header : Headers \cup {None}]]
    BY <1>1, <1>5 DEF RemoveStale, TypeOK, Unsettled
  <2>2. \E step \in Steps :
          /\ Goto(p, step)
          /\ (step = "idle" /\ Hold(p, Idle)) \/ \E S : Disturb(S)
    BY <1>2, <1>5 DEF RemoveStale, Stop
  <2>3. UNCHANGED <<header, bin, sidecar, installs, updates, faults>>
    BY <1>5 DEF RemoveStale
  <2> QED
    BY <1>3, <2>1, <2>2, <2>3 DEF TypeOK, Processes
<1>6. CASE MoveIntoPlace(p)
  <2>1. bin[Place(p)] \in Builds \cup {None}
    BY <1>2 DEF TypeOK
  <2>2. /\ exe' \in [Toolchains -> Builds \cup {None, Torn}]
        /\ bin' \in [Toolchains \cup {"checkout"} -> Builds \cup {None}]
    BY <1>1, <1>6, <2>1 DEF MoveIntoPlace, TypeOK
  <2>3. \E step \in Steps :
          /\ Goto(p, step)
          /\ (step = "idle" /\ Hold(p, Idle)) \/ UNCHANGED local
    BY <1>2, <1>6 DEF MoveIntoPlace, Stop
  <2>4. UNCHANGED <<header, sidecar, last, installs, updates, faults>>
    BY <1>6 DEF MoveIntoPlace
  <2> QED
    BY <1>3, <2>2, <2>3, <2>4 DEF TypeOK, Processes
<1>7. CASE WriteSidecar(p)
  <2>1. /\ local[p].digest \in Headers /\ local[p].smoke \in Outcomes \cup {None}
        /\ local[p].smoke # None => local[p].smoke \in {"passed", "failed"}
    BY <1>1, <1>7 DEF DigestInv, Locals, WriteSidecar, Outcomes
  <2>2. Recorded(p) \in Sidecars
    BY <1>1, <2>1 DEF Recorded, Sidecars
  <2>3. sidecar' \in [Toolchains -> Sidecars \cup {None, Torn}]
    BY <1>1, <1>7, <2>2 DEF WriteSidecar, TypeOK
  <2>4. last' \in [Toolchains -> [result : {"none", "unsettled", "ok", "failed"},
                                  header : Headers \cup {None}]]
    BY <1>1, <1>7, <2>1 DEF WriteSidecar, Settle, Unsettled, TypeOK
  <2>5. \E step \in Steps :
          /\ Goto(p, step)
          /\ (step = "idle" /\ Hold(p, Idle)) \/ UNCHANGED local
    BY <1>2, <1>7 DEF WriteSidecar, Settle, Stop
  <2>6. UNCHANGED <<header, bin, exe, installs, updates, faults>>
    BY <1>7 DEF WriteSidecar
  <2> QED
    BY <1>3, <2>3, <2>4, <2>5, <2>6 DEF TypeOK, Processes
<1> QED
  BY <1>4, <1>5, <1>6, <1>7

\* An update changes a header, and who is told of it.
LEMMA UpdateTypes ==
    ASSUME TypeOK, NEW t \in Toolchains, UpdateToolchain(t)
    PROVE  TypeOK'
<1> USE InstallAssumption DEF disk
<1>1. header' \in [Toolchains -> Headers \cup {None}]
  BY DEF TypeOK, UpdateToolchain
<1>2. PICK S : Disturb(S)
  BY DEF UpdateToolchain
<1>3. /\ local' \in [Processes -> Locals]
      /\ \A q \in Processes : local'[q] = [local[q] EXCEPT !.disturbed = @ \/ q \in S]
  BY <1>2, Disturbed
<1>4. \A q \in Processes : local'[q].of = local[q].of
  BY <1>3 DEF TypeOK, Processes, Locals
<1>5. updates < MaxUpdates /\ updates' = updates + 1
      /\ UNCHANGED <<bin, exe, sidecar, pc, last, installs, faults>>
  BY DEF UpdateToolchain
<1>6. updates' \in 0 .. MaxUpdates
  BY <1>5 DEF TypeOK
<1> QED
  BY <1>1, <1>3, <1>4, <1>5, <1>6 DEF TypeOK, Processes, T

-----------------------------------------------------------------------------
(* What the steps of others leave alone *)

\* What resolve_in says of a sidecar.
LEMMA ResolveInServes ==
    ASSUME NEW s, NEW t
    PROVE  ResolveIn(s, t) = "served" <=>
               /\ s # None /\ exe[t] # None
               /\ header[s.sysroot] # None => HeaderMatches(s, s.sysroot)
               /\ s.smoke # "failed"
BY DEF ResolveIn

\* Installations that share a place still know of each other, if nobody new is
\* under way and nobody forgets.
LEMMA ExclusiveKept ==
    ASSUME ExclusiveInv,
           \A q \in Installers :
               Busy(q)' => /\ Busy(q)
                           /\ local'[q].of = local[q].of /\ local'[q].from = local[q].from
                           /\ local[q].disturbed => local'[q].disturbed
    PROVE  ExclusiveInv'
BY DEF ExclusiveInv, SharesWith, T

\* An installation is as it was, if nobody touches what it uses or it is told.
LEMMA BuiltKept ==
    ASSUME NEW q \in Installers, BuiltOK(q), pc'[q] = pc[q],
           \/ local'[q].disturbed
           \/ /\ local'[q] = local[q]
              /\ header'[T(q)] = header[T(q)] /\ bin'[Place(q)] = bin[Place(q)]
              /\ exe'[T(q)] = exe[T(q)] /\ sidecar'[T(q)] = sidecar[T(q)]
    PROVE  BuiltOK(q)'
<1>1. Busy(q)' <=> Busy(q)
  BY DEF Busy
<1>2. CASE local'[q].disturbed
  BY <1>2 DEF BuiltOK
<1>3. CASE ~local'[q].disturbed
  <2>1. T(q)' = T(q) /\ Place(q)' = Place(q) /\ Built(q)' = Built(q)
    BY <1>3 DEF T, Place, Built
  <2> QED
    BY <1>1, <1>3, <2>1 DEF BuiltOK
<1> QED
  BY <1>2, <1>3

\* And so is an install directory.
LEMMA SettledKept ==
    ASSUME NEW t, Settled(t),
           exe'[t] = exe[t], sidecar'[t] = sidecar[t], last'[t] = last[t]
    PROVE  Settled(t)'
<1> DEFINE ok(x, s, l) ==
        \/ x = None /\ s = None /\ l.result = "none"
        \/ /\ s \in [sysroot : {t}, digest : Headers, smoke : Outcomes]
           /\ \E from \in Sources : x = [of |-> t, header |-> s.digest, from |-> from]
           /\ s.smoke = "passed" => x \notin Broken
           /\ l.result = "ok" => s.smoke = "passed" /\ s.digest = l.header
<1>1. Settled(t) <=> ok(exe[t], sidecar[t], last[t])
  BY DEF Settled
<1>2. Settled(t)' <=> ok(exe'[t], sidecar'[t], last'[t])
  BY DEF Settled
<1> HIDE DEF ok
<1> QED
  BY <1>1, <1>2

\* And so is an audit.
LEMMA AuditKept ==
    ASSUME TypeOK, SettledInv, NEW q \in Audits, AuditOK(q), pc'[q] = pc[q],
           \/ local'[q].disturbed
           \/ /\ local'[q] = local[q]
              /\ pc[q] # "idle" =>
                   /\ last[T(q)] # Unsettled =>
                        /\ header'[T(q)] = header[T(q)] /\ exe'[T(q)] = exe[T(q)]
                        /\ sidecar'[T(q)] = sidecar[T(q)] /\ last'[T(q)] # Unsettled
    PROVE  AuditOK(q)'
<1> SUFFICES ASSUME pc'[q] # "idle", ~local'[q].disturbed
             PROVE  /\ last'[T(q)'] # Unsettled
                    /\ pc'[q] = "check" => local'[q].sidecar = sidecar'[T(q)']
                    /\ pc'[q] = "spawn" => ResolveIn(sidecar[T(q)], T(q))' = "served"
                    /\ pc'[q] = "refused" => ResolveIn(sidecar[T(q)], T(q))' # "served"
  BY DEF AuditOK
<1> DEFINE t == T(q)
           s == sidecar[t]
<1>1. /\ t \in Toolchains /\ T(q)' = t /\ last[t] # Unsettled
  BY DEF T, TypeOK, AuditOK
<1>2. /\ header'[t] = header[t] /\ exe'[t] = exe[t] /\ sidecar'[t] = s
      /\ last'[t] # Unsettled
  BY <1>1
<1>3. s # None => s.sysroot = t
  BY <1>1 DEF SettledInv, Settled
<1>4. ResolveIn(s, t)' = "served" <=> ResolveIn(s, t) = "served"
  <2>1. \A x : x # None /\ x.sysroot = t =>
           (/\ x # None /\ exe'[t] # None
            /\ header'[x.sysroot] # None => x.digest = header'[x.sysroot]
            /\ x.smoke # "failed")
           <=>
           (/\ x # None /\ exe[t] # None
            /\ header[x.sysroot] # None => x.digest = header[x.sysroot]
            /\ x.smoke # "failed")
    BY <1>2
  <2> QED
    BY <1>1, <1>2, <1>3, <2>1, ResolveInServes DEF ResolveIn, HeaderMatches
<1> QED
  BY <1>1, <1>2, <1>4 DEF AuditOK

-----------------------------------------------------------------------------
(* Steps that touch no file *)

\* The conjuncts of the invariant that are not about types.
Rest ==
    /\ DigestInv /\ ExclusiveInv /\ BuiltInv /\ SmokeInv /\ UnsettledInv /\ SettledInv
    /\ AuditInv

\* One process goes from step to step.
LEMMA QuietStep ==
    ASSUME IInv, NEW p \in Processes, UNCHANGED <<header, bin, exe, sidecar, last>>,
           \A q \in Processes \ {p} : pc'[q] = pc[q] /\ local'[q] = local[q],
           p \in Installers =>
               /\ Busy(p)' => /\ Busy(p)
                              /\ local'[p].of = local[p].of /\ local'[p].from = local[p].from
                              /\ local'[p].disturbed = local[p].disturbed
               /\ pc'[p] \in Past => pc[p] \in Past
               /\ pc'[p] \in {"describe", "fill", "load", "check", "spawn"} =>
                    local'[p].digest # None
               /\ local'[p].smoke # None => pc'[p] \in {"describe", "fill"}
               /\ BuiltOK(p)',
           p \in Audits => AuditOK(p)'
    PROVE  Rest'
<1> USE DEF IInv
<1>1. \A q \in Installers \cup Audits : q # p => pc'[q] = pc[q] /\ local'[q] = local[q]
  BY DEF Processes
<1>2. DigestInv'
  BY <1>1 DEF DigestInv
<1>3. ExclusiveInv'
  <2>1. \A q \in Installers \ {p} : Busy(q)' <=> Busy(q)
    BY <1>1 DEF Busy
  <2> QED
    BY <1>1, <2>1, ExclusiveKept
<1>4. BuiltInv'
  <2> SUFFICES ASSUME NEW q \in Installers PROVE BuiltOK(q)'
    BY DEF BuiltInv
  <2>1. CASE q # p
    BY <1>1, <2>1, BuiltKept DEF BuiltInv
  <2> QED
    BY <2>1
<1>5. SmokeInv'
  BY <1>1 DEF SmokeInv
<1>6. UnsettledInv'
  <2> SUFFICES ASSUME NEW q \in Installers, pc'[q] \in Past
               PROVE  last'[local'[q].of] = Unsettled
    BY DEF UnsettledInv, T
  <2>1. Busy(q)'
    BY DEF Busy, Fresh, Past
  <2>2. local'[q].of = local[q].of /\ pc[q] \in Past
    BY <1>1, <2>1
  <2> QED
    BY <2>2 DEF UnsettledInv, T
<1>7. SettledInv'
  BY DEF SettledInv, Settled
<1>8. AuditInv'
  <2> SUFFICES ASSUME NEW q \in Audits PROVE AuditOK(q)'
    BY DEF AuditInv
  <2>1. CASE q # p
    BY <1>1, <2>1, AuditKept DEF AuditInv
  <2> QED
    BY <2>1
<1> QED
  BY <1>2, <1>3, <1>4, <1>5, <1>6, <1>7, <1>8 DEF Rest

\* A process stops.
LEMMA StopStep ==
    ASSUME IInv, NEW p \in Processes, UNCHANGED <<header, bin, exe, sidecar, last>>,
           pc' = [pc EXCEPT ![p] = "idle"], local' = [local EXCEPT ![p] = Idle]
    PROVE  Rest'
<1>1. pc'[p] = "idle" /\ local'[p] = Idle
  BY DEF IInv, TypeOK, Processes
<1>2. ~Busy(p)' /\ pc'[p] \notin Past /\ local'[p].smoke = None
  BY <1>1 DEF Busy, Fresh, Past, Idle
<1>3. BuiltOK(p)' /\ AuditOK(p)'
  BY <1>1, <1>2 DEF BuiltOK, AuditOK
<1>4. \A q \in Processes \ {p} : pc'[q] = pc[q] /\ local'[q] = local[q]
  BY DEF IInv, TypeOK, Processes
<1> QED
  BY <1>1, <1>2, <1>3, <1>4, QuietStep

\* The smoke test ends; if nothing disturbed the installation, only a worker
\* that works has passed.
LEMMA SmokeStep ==
    ASSUME IInv, NEW p \in Installers, NEW o \in {"passed", "failed"}, SmokeTested(p, o),
           pc[p] \in {"check", "spawn"}, UNCHANGED <<header, bin, exe, sidecar>>,
           o = "passed" /\ ~local[p].disturbed => exe[T(p)] \notin Broken
    PROVE  Rest'
<1> USE DEF IInv
<1> DEFINE l == [local[p] EXCEPT !.smoke = o, !.sidecar = None]
<1>1. local[p] \in Locals /\ p \in Processes
  BY DEF TypeOK, Processes
<1>2. /\ l.of = local[p].of /\ l.from = local[p].from /\ l.digest = local[p].digest
      /\ l.disturbed = local[p].disturbed /\ l.smoke = o
  BY <1>1 DEF Locals
<1> HIDE DEF l
<1>3. /\ pc'[p] = "describe" /\ local'[p] = l /\ last' = last
      /\ \A q \in Processes \ {p} : pc'[q] = pc[q] /\ local'[q] = local[q]
  BY <1>1 DEF SmokeTested, Goto, Hold, TypeOK, Processes, l
<1>4. Busy(p) /\ Busy(p)' /\ pc[p] \in Past
  BY <1>3 DEF Busy, Fresh, Past
<1>5. l.digest # None
  BY <1>2 DEF DigestInv
<1>6. BuiltOK(p)'
  <2> SUFFICES ASSUME ~local[p].disturbed
               PROVE  /\ header[T(p)] # None /\ exe[T(p)] = Built(p)
                      /\ local[p].digest = header[T(p)]
                      /\ o = "passed" => exe[T(p)] \notin Broken
    <3>1. T(p)' = T(p) /\ Built(p)' = Built(p)
      BY <1>2, <1>3 DEF T, Built
    <3> QED
      BY <1>2, <1>3, <3>1 DEF BuiltOK, Past, Moved
  <2>1. BuiltOK(p)
    BY DEF BuiltInv
  <2> QED
    BY <1>4, <2>1 DEF BuiltOK, Past, Moved
<1>7. p \notin Audits
  BY InstallAssumption
<1> QED
  BY <1>1, <1>2, <1>3, <1>4, <1>5, <1>6, <1>7, QuietStep

\* An installer sets one field and goes on; no test is over.
LEMMA FieldStep ==
    ASSUME IInv, NEW p \in Installers, NEW step \in Steps, NEW l \in Locals,
           pc' = [pc EXCEPT ![p] = step], local' = [local EXCEPT ![p] = l],
           UNCHANGED <<header, bin, exe, sidecar, last>>,
           l.smoke = None,
           step \notin Fresh => /\ pc[p] \in Past /\ step \in Past \ {"fill", "rename", "copy"}
                               /\ l.of = local[p].of /\ l.from = local[p].from
                               /\ l.disturbed = local[p].disturbed,
           step \in Past \ {"hash"} => l.digest # None,
           step \notin Fresh /\ ~l.disturbed =>
               /\ pc[p] \in Moved
               /\ step # "hash" => l.digest = header[T(p)]
    PROVE  Rest'
<1> USE DEF IInv
<1>1. /\ pc'[p] = step /\ local'[p] = l /\ p \in Processes
      /\ \A q \in Processes \ {p} : pc'[q] = pc[q] /\ local'[q] = local[q]
  BY DEF TypeOK, Processes
<1>2. Busy(p)' => /\ Busy(p) /\ pc[p] \in Past /\ step \in Past \ {"fill", "rename", "copy"}
                  /\ l.of = local[p].of /\ l.from = local[p].from
                  /\ l.disturbed = local[p].disturbed
  BY <1>1 DEF Busy, Fresh, Past
<1>3. BuiltOK(p)'
  <2> SUFFICES ASSUME Busy(p)', ~l.disturbed
               PROVE  /\ header[T(p)] # None /\ exe[T(p)] = Built(p)
                      /\ step # "hash" => l.digest = header[T(p)]
    <3>1. Busy(p)' => T(p)' = T(p) /\ Built(p)' = Built(p)
      BY <1>1, <1>2 DEF T, Built
    <3> QED
      BY <1>1, <1>2, <3>1, InstallAssumption DEF BuiltOK, Past, Moved, Outcomes
  <2>1. BuiltOK(p)
    BY DEF BuiltInv
  <2> QED
    BY <1>1, <1>2, <2>1 DEF BuiltOK, Busy, Past, Moved
<1>4. step \in Past => step \notin Fresh
  BY DEF Past, Fresh
<1>5. p \notin Audits
  BY InstallAssumption
<1> QED
  BY <1>1, <1>2, <1>3, <1>4, <1>5, QuietStep DEF Past

\* The steps of an installation that write nothing into the install directory.
LEMMA InstallerQuiet ==
    ASSUME IInv, NEW p \in Installers,
           \/ Install(p) \/ ElanDir(p) \/ BuildFails(p) \/ HashLeanHeader(p)
           \/ SmokeTest(p) \/ InstallEnds(p) \/ SmokeTimesOut(p)
           \/ LoadSidecar(p) \/ CheckInstalled(p)
    PROVE  Rest'
<1> USE DEF IInv
<1>1. /\ p \in Processes /\ p \notin Audits /\ local[p] \in Locals
      /\ pc[p] # "idle" => T(p) \in Toolchains
      /\ pc[p] \notin {"describe", "fill"} => local[p].smoke = None
      /\ \A t \in Toolchains : header[t] \in Headers \cup {None}
      /\ \A t \in Toolchains : sidecar[t] \in Sidecars \cup {None, Torn}
  BY InstallAssumption DEF TypeOK, Processes, SmokeInv
<1>2. BuiltOK(p)
  BY DEF BuiltInv
<1>3. CASE \/ (ElanDir(p) \/ HashLeanHeader(p)) /\ header[T(p)] = None
           \/ BuildFails(p) \/ InstallEnds(p)
  <2>1. /\ pc' = [pc EXCEPT ![p] = "idle"] /\ local' = [local EXCEPT ![p] = Idle]
        /\ UNCHANGED <<header, bin, exe, sidecar, last>>
    BY <1>3 DEF ElanDir, HashLeanHeader, BuildFails, InstallEnds, Fault, Stop, Goto,
                Hold, disk
  <2> QED
    BY <1>1, <2>1, StopStep
<1>4. CASE Install(p)
  <2>1. PICK t \in Toolchains, from \in Sources, force \in BOOLEAN :
          local' = [local EXCEPT ![p] = [Idle EXCEPT !.of = t, !.from = from,
                                                     !.force = force]]
    BY <1>4, InstallAssumption DEF Install, Hold, ResolveToolchain, FromLakeRoot
  <2> DEFINE l == [Idle EXCEPT !.of = t, !.from = from, !.force = force]
  <2>2. l \in Locals /\ l.smoke = None
    BY IdleFields DEF Idle
  <2>3. pc' = [pc EXCEPT ![p] = "start"] /\ UNCHANGED <<header, bin, exe, sidecar, last>>
    BY <1>4 DEF Install, Goto, disk
  <2> HIDE DEF l
  <2>4. local' = [local EXCEPT ![p] = l]
    BY <2>1 DEF l
  <2>5. "start" \in Steps /\ "start" \in Fresh /\ "start" \notin Past
    BY DEF Steps, Fresh, Past
  <2> QED
    BY <2>2, <2>3, <2>4, <2>5, FieldStep
<1>5. CASE ElanDir(p) /\ header[T(p)] # None
  <2> DEFINE l == [local[p] EXCEPT !.force = FALSE]
  <2>1. l \in Locals /\ l.smoke = None
    BY <1>1, <1>5, LocalFields DEF ElanDir, Locals
  <2>2. /\ pc' = [pc EXCEPT ![p] = "build"] /\ local' = [local EXCEPT ![p] = l]
        /\ UNCHANGED <<header, bin, exe, sidecar, last>>
    BY <1>5 DEF ElanDir, Goto, Hold, disk
  <2> HIDE DEF l
  <2>3. "build" \in Steps /\ "build" \in Fresh /\ "build" \notin Past
    BY DEF Steps, Fresh, Past
  <2> QED
    BY <2>1, <2>2, <2>3, FieldStep
<1>6. CASE HashLeanHeader(p) /\ header[T(p)] # None
  <2> DEFINE l == [local[p] EXCEPT !.digest = header[T(p)]]
  <2>1. header[T(p)] \in Headers /\ pc[p] = "hash"
    BY <1>1, <1>6 DEF HashLeanHeader
  <2>2. /\ l \in Locals /\ l.smoke = None /\ l.digest = header[T(p)]
        /\ l.of = local[p].of /\ l.from = local[p].from
        /\ l.disturbed = local[p].disturbed
    <3>1. l \in Locals
      BY <1>1, <2>1, LocalFields
    <3> QED
      BY <1>1, <2>1, <3>1 DEF Locals
  <2>3. /\ pc' = [pc EXCEPT ![p] = "describe"] /\ local' = [local EXCEPT ![p] = l]
        /\ UNCHANGED <<header, bin, exe, sidecar, last>>
    BY <1>6 DEF HashLeanHeader, Goto, Hold, disk
  <2> HIDE DEF l
  <2>4. /\ "describe" \in Steps /\ "describe" \in Past \ {"fill", "rename", "copy"}
        /\ pc[p] \in Past /\ pc[p] \in Moved
    BY <2>1 DEF Steps, Past, Moved
  <2> QED
    BY <1>6, <2>2, <2>3, <2>4, FieldStep
<1>7. ASSUME NEW s \in Sidecars \cup {None}, pc[p] \in {"load", "check"},
             NEW step \in {"check", "spawn"},
             Hold(p, [local[p] EXCEPT !.sidecar = s]), Goto(p, step),
             UNCHANGED <<header, bin, exe, sidecar, last>>
      PROVE  Rest'
  <2> DEFINE l == [local[p] EXCEPT !.sidecar = s]
  <2>1. /\ l \in Locals /\ l.smoke = None /\ l.digest = local[p].digest
        /\ l.of = local[p].of /\ l.from = local[p].from
        /\ l.disturbed = local[p].disturbed
    <3>1. l \in Locals
      BY <1>1, LocalFields
    <3> QED
      BY <1>1, <1>7, <3>1 DEF Locals
  <2>2. pc' = [pc EXCEPT ![p] = step] /\ local' = [local EXCEPT ![p] = l]
    BY <1>7 DEF Goto, Hold
  <2> HIDE DEF l
  <2>3. /\ step \in Steps /\ step \in Past \ {"fill", "rename", "copy"}
        /\ pc[p] \in Past /\ pc[p] \in Moved \ {"hash"} /\ Busy(p)
    BY <1>7 DEF Steps, Past, Moved, Busy, Fresh
  <2>4. local[p].digest # None /\ (~local[p].disturbed => local[p].digest = header[T(p)])
    BY <1>2, <1>7, <2>3 DEF DigestInv, BuiltOK
  <2> QED
    BY <1>7, <2>1, <2>2, <2>3, <2>4, FieldStep
<1>8. CASE LoadSidecar(p)
  <2>1. Parse(sidecar[T(p)]) \in Sidecars \cup {None}
    BY <1>1, <1>8 DEF LoadSidecar, Parse
  <2> QED
    BY <1>7, <1>8, <2>1 DEF LoadSidecar, disk
<1>9. CASE CheckInstalled(p)
  <2>1. CASE SmokeTested(p, "failed")
    BY <1>9, <2>1, SmokeStep DEF CheckInstalled, disk
  <2>2. CASE ~SmokeTested(p, "failed")
    BY <1>1, <1>7, <1>9, <2>2 DEF CheckInstalled, disk
  <2> QED
    BY <2>1, <2>2
<1>10. CASE SmokeTimesOut(p)
  BY <1>10, SmokeStep DEF SmokeTimesOut, Fault, disk
<1>11. CASE SmokeTest(p)
  <2>1. PICK ok \in Answers(exe[T(p)], T(p)) :
          SmokeTested(p, IF ok THEN "passed" ELSE "failed")
    BY <1>11 DEF SmokeTest
  <2>2. ASSUME ok, ~local[p].disturbed PROVE exe[T(p)] \notin Broken
    <3>1. header[T(p)] # None /\ exe[T(p)] = Built(p)
      BY <1>2, <1>11, <2>2 DEF SmokeTest, BuiltOK, Busy, Fresh, Moved, Past
    <3>2. Built(p) \in Builds
      BY <1>1, <1>11, <3>1 DEF Built, Builds, Locals, SmokeTest
    <3>3. Fits(exe[T(p)], T(p))
      BY <3>1, <3>2 DEF Fits, Built
    <3>4. ok = Works(exe[T(p)], T(p))
      BY <2>1, <3>1, <3>2, <3>3 DEF Answers
    <3> QED
      BY <2>2, <3>4 DEF Works
  <2>3. pc[p] = "spawn" /\ UNCHANGED <<header, bin, exe, sidecar>>
    BY <1>11 DEF SmokeTest, disk
  <2>4. CASE ok
    BY <2>1, <2>2, <2>3, <2>4, SmokeStep
  <2>5. CASE ~ok
    BY <2>1, <2>3, <2>5, SmokeStep
  <2> QED
    BY <2>4, <2>5
<1> QED
  BY <1>3, <1>4, <1>5, <1>6, <1>8, <1>9, <1>10, <1>11

\* An audit reads the sidecar, judges it, and starts the worker or refuses.
LEMMA AuditSteps ==
    ASSUME IInv, NEW p \in Audits,
           \/ ResolveInstalledWorker(p) \/ AuditStartsWorker(p)
           \/ LoadSidecar(p) \/ CheckInstalled(p)
    PROVE  Rest'
<1> USE InstallAssumption DEF IInv
<1>1. /\ p \in Processes /\ p \notin Installers /\ local[p] \in Locals
      /\ pc[p] # "idle" => T(p) \in Toolchains
      /\ AuditOK(p)
  BY DEF TypeOK, Processes, AuditInv
<1>2. CASE AuditStartsWorker(p)
  BY <1>1, <1>2, StopStep DEF AuditStartsWorker, Stop, Goto, Hold, disk
<1>3. CASE ResolveInstalledWorker(p)
  <2>1. PICK t \in Toolchains :
          local' = [local EXCEPT ![p] = [Idle EXCEPT !.of = t, !.sidecar = Parse(sidecar[t]),
                                                     !.disturbed = last[t] = Unsettled]]
    BY <1>3 DEF ResolveInstalledWorker, Hold, FromLakeRoot
  <2> DEFINE l == [Idle EXCEPT !.of = t, !.sidecar = Parse(sidecar[t]),
                               !.disturbed = last[t] = Unsettled]
  <2>2. /\ l.of = t /\ l.sidecar = Parse(sidecar[t])
        /\ l.disturbed <=> last[t] = Unsettled
    BY DEF Idle
  <2>3. local' = [local EXCEPT ![p] = l]
    BY <2>1
  <2> HIDE DEF l
  <2>4. /\ local'[p] = l /\ pc'[p] = "check"
        /\ \A q \in Processes \ {p} : pc'[q] = pc[q] /\ local'[q] = local[q]
        /\ UNCHANGED <<header, bin, exe, sidecar, last>>
    BY <1>1, <1>3, <2>3 DEF ResolveInstalledWorker, Goto, disk, TypeOK, Processes
  <2>5. last[t] # Unsettled => Parse(sidecar[t]) = sidecar[t]
    <3>1. Torn \notin Sidecars
      OBVIOUS
    <3>2. ASSUME sidecar[t] \in [sysroot : {t}, digest : Headers, smoke : Outcomes]
          PROVE  sidecar[t] \in Sidecars
      BY <3>2 DEF Sidecars
    <3> QED
      BY <3>1, <3>2 DEF SettledInv, Settled, Parse
  <2>6. AuditOK(p)'
    BY <2>2, <2>4, <2>5 DEF AuditOK, T
  <2> QED
    BY <1>1, <2>4, <2>6, QuietStep
<1>4. CASE LoadSidecar(p)
  <2>1. local' = [local EXCEPT ![p] = [local[p] EXCEPT !.sidecar = Parse(sidecar[T(p)])]]
    BY <1>4 DEF LoadSidecar, Hold
  <2> DEFINE l == [local[p] EXCEPT !.sidecar = Parse(sidecar[T(p)])]
  <2>2. l.of = T(p) /\ l.disturbed = local[p].disturbed /\ l.sidecar = Parse(sidecar[T(p)])
    BY <1>1 DEF Locals, T
  <2> HIDE DEF l
  <2>3. /\ local'[p] = l /\ pc'[p] = "check" /\ pc[p] = "load"
        /\ \A q \in Processes \ {p} : pc'[q] = pc[q] /\ local'[q] = local[q]
        /\ UNCHANGED <<header, bin, exe, sidecar, last>>
    BY <1>1, <1>4, <2>1 DEF LoadSidecar, Goto, disk, TypeOK, Processes, l
  <2>4. /\ T(p) \in Toolchains
        /\ last[T(p)] # Unsettled => Parse(sidecar[T(p)]) = sidecar[T(p)]
    <3>1. Torn \notin Sidecars /\ T(p) \in Toolchains
      BY <1>1, <2>3
    <3>2. ASSUME sidecar[T(p)] \in [sysroot : {T(p)}, digest : Headers, smoke : Outcomes]
          PROVE  sidecar[T(p)] \in Sidecars
      BY <3>1, <3>2 DEF Sidecars
    <3> QED
      BY <3>1, <3>2 DEF SettledInv, Settled, Parse
  <2>5. AuditOK(p)'
    BY <1>1, <2>2, <2>3, <2>4 DEF AuditOK, T
  <2> QED
    BY <1>1, <2>3, <2>5, QuietStep
<1>5. CASE CheckInstalled(p)
  <2> DEFINE l == [local[p] EXCEPT !.sidecar = None]
             served == ResolveIn(local[p].sidecar, T(p)) = "served"
  <2>1. l.of = T(p) /\ l.disturbed = local[p].disturbed
    BY <1>1 DEF Locals, T
  <2>2. /\ pc[p] = "check" /\ UNCHANGED <<header, bin, exe, sidecar, last>>
        /\ pc' = [pc EXCEPT ![p] = IF served THEN "spawn" ELSE "refused"]
        /\ local' = [local EXCEPT ![p] = l]
    BY <1>1, <1>5 DEF CheckInstalled, Goto, Hold, disk
  <2> HIDE DEF l
  <2>3. /\ local'[p] = l /\ pc'[p] = IF served THEN "spawn" ELSE "refused"
        /\ \A q \in Processes \ {p} : pc'[q] = pc[q] /\ local'[q] = local[q]
    BY <1>1, <2>2 DEF TypeOK, Processes
  <2>4. ResolveIn(sidecar[T(p)], T(p))' = ResolveIn(sidecar[T(p)], T(p))
    BY <2>1, <2>2, <2>3 DEF ResolveIn, HeaderMatches, T
  <2>5. T(p)' = T(p)
    BY <2>1, <2>3 DEF T
  <2>6. AuditOK(p)'
    BY <1>1, <2>1, <2>2, <2>3, <2>4, <2>5 DEF AuditOK
  <2> QED
    BY <1>1, <2>2, <2>3, <2>6, QuietStep
<1> QED
  BY <1>2, <1>3, <1>4, <1>5

\* An installation that finds a current worker says what Settled says.
LEMMA CurrentStep ==
    ASSUME IInv, NEW p \in Installers, AlreadyCurrent(p)
    PROVE  Rest'
<1> USE InstallAssumption DEF IInv
<1> DEFINE t == T(p)
<1>1. /\ p \in Processes /\ t \in Toolchains
      /\ pc' = [pc EXCEPT ![p] = "idle"] /\ local' = [local EXCEPT ![p] = Idle]
      /\ UNCHANGED <<header, bin, exe, sidecar>>
      /\ last' = [last EXCEPT ![t] =
               IF @ = Unsettled THEN @ ELSE [result |-> "ok", header |-> header[t]]]
      /\ WorkerIsCurrent(t)
  BY DEF AlreadyCurrent, Stop, Goto, Hold, disk, TypeOK, Processes
<1> HIDE DEF t
<1>2. /\ pc'[p] = "idle" /\ local'[p] = Idle
      /\ \A q \in Processes \ {p} : pc'[q] = pc[q] /\ local'[q] = local[q]
  BY <1>1 DEF TypeOK, Processes
<1>3. \A x \in Toolchains : last'[x] = Unsettled <=> last[x] = Unsettled
  BY <1>1 DEF TypeOK, Unsettled
<1>4. \A q \in Installers : q # p => pc'[q] = pc[q] /\ local'[q] = local[q]
  BY <1>2 DEF Processes
<1>5. ~Busy(p)' /\ pc'[p] \notin Past /\ local'[p].smoke = None
  BY <1>2 DEF Busy, Fresh, Past, Idle
<1>6. DigestInv' /\ SmokeInv'
  BY <1>2, <1>4, <1>5 DEF DigestInv, SmokeInv
<1>7. ExclusiveInv'
  <2>1. \A q \in Installers \ {p} : Busy(q)' <=> Busy(q)
    BY <1>4 DEF Busy
  <2> QED
    BY <1>4, <1>5, <2>1, ExclusiveKept
<1>8. BuiltInv'
  <2> SUFFICES ASSUME NEW q \in Installers PROVE BuiltOK(q)'
    BY DEF BuiltInv
  <2>1. CASE q # p
    BY <1>1, <1>4, <2>1, BuiltKept DEF BuiltInv
  <2>2. CASE q = p
    BY <1>5, <2>2 DEF BuiltOK
  <2> QED
    BY <2>1, <2>2
<1>9. UnsettledInv'
  <2> SUFFICES ASSUME NEW q \in Installers, pc'[q] \in Past
               PROVE  last'[local'[q].of] = Unsettled
    BY DEF UnsettledInv, T
  <2>1. q # p
    BY <1>5
  <2>2. pc[q] \in Past /\ local'[q].of = T(q) /\ T(q) \in Toolchains
    BY <1>4, <2>1 DEF T, TypeOK, Past
  <2> QED
    BY <1>3, <2>2 DEF UnsettledInv
<1>10. SettledInv'
  <2> SUFFICES ASSUME NEW x \in Toolchains, last'[x] # Unsettled PROVE Settled(x)'
    BY DEF SettledInv
  <2>1. Settled(x)
    BY <1>3 DEF SettledInv
  <2>2. CASE x # t
    BY <1>1, <2>1, <2>2 DEF Settled, TypeOK
  <2>3. CASE x = t
    <3>1. last'[x] = [result |-> "ok", header |-> header[t]]
      BY <1>1, <1>3, <2>3 DEF TypeOK
    <3>2. sidecar[t] # None /\ sidecar[t].smoke = "passed" /\ sidecar[t].digest = header[t]
      BY <1>1, <2>1, <2>3 DEF WorkerIsCurrent, Parse, HeaderMatches, Settled
    <3> QED
      BY <1>1, <2>1, <2>3, <3>1, <3>2 DEF Settled
  <2> QED
    BY <2>2, <2>3
<1>11. AuditInv'
  <2> SUFFICES ASSUME NEW q \in Audits PROVE AuditOK(q)'
    BY DEF AuditInv
  <2>1. q \in Processes /\ q # p /\ (pc[q] # "idle" => T(q) \in Toolchains)
    BY DEF Processes, TypeOK
  <2> QED
    BY <1>1, <1>2, <1>3, <2>1, AuditKept DEF AuditInv
<1> QED
  BY <1>6, <1>7, <1>8, <1>9, <1>10, <1>11 DEF Rest

-----------------------------------------------------------------------------
(* Steps that write, and updates *)

\* A step of p keeps the account of the installations, if it writes in its own
\* place and directory and whoever shares them is told.
LEMMA WritingStep ==
    ASSUME IInv, NEW p \in Installers, pc[p] # "idle", Busy(p)', UNCHANGED header,
           \A q \in Processes :
               /\ q # p => pc'[q] = pc[q]
               /\ local'[q].of = local[q].of /\ local'[q].from = local[q].from
               /\ local'[q].digest = local[q].digest /\ local'[q].smoke = local[q].smoke
               /\ local'[q].disturbed \/ local'[q] = local[q]
               /\ local[q].disturbed => local'[q].disturbed,
           \A x \in Toolchains \cup {"checkout"} : x # Place(p) => bin'[x] = bin[x],
           \A x \in Toolchains : x # T(p) => exe'[x] = exe[x] /\ sidecar'[x] = sidecar[x],
           BuiltOK(p)',
           \A q \in Installers \ {p} :
               Busy(q) /\ SharesWith(p, q) => local'[p].disturbed /\ local'[q].disturbed,
           pc'[p] \in {"describe", "fill", "load", "check", "spawn"} =>
               local[p].digest # None,
           local[p].smoke # None => pc'[p] \in {"describe", "fill"}
    PROVE  DigestInv' /\ ExclusiveInv' /\ BuiltInv' /\ SmokeInv'
<1> USE DEF IInv
<1>1. \A q \in Installers : q \in Processes
  BY DEF Processes
<1>2. SmokeInv'
  BY <1>1 DEF SmokeInv
<1>3. \A q \in Installers \ {p} : Busy(q)' <=> Busy(q)
  BY <1>1 DEF Busy
<1>4. ExclusiveInv'
  <2> SUFFICES ASSUME NEW q \in Installers, NEW r \in Installers,
                      Busy(q)', Busy(r)', SharesWith(q, r)'
               PROVE  local'[q].disturbed
    BY DEF ExclusiveInv
  <2>1. SharesWith(q, r) /\ SharesWith(r, q) /\ q # r
    BY <1>1 DEF SharesWith, T
  <2>2. CASE q = p \/ r = p
    BY <1>3, <2>1, <2>2
  <2>3. CASE q # p /\ r # p
    BY <1>1, <1>3, <2>1, <2>3 DEF ExclusiveInv
  <2> QED
    BY <2>2, <2>3
<1>5. BuiltInv'
  <2> SUFFICES ASSUME NEW q \in Installers, q # p, Busy(q), ~local'[q].disturbed
               PROVE  BuiltOK(q)'
    BY <1>3 DEF BuiltInv, BuiltOK
  <2>1. local'[q] = local[q] /\ pc'[q] = pc[q]
    BY <1>1
  <2>2. ~SharesWith(p, q)
    OBVIOUS
  <2>3. /\ T(q) \in Toolchains /\ T(p) # T(q)
        /\ Place(q) \in Toolchains \cup {"checkout"} /\ Place(p) # Place(q)
    <3>1. T(q) \in Toolchains
      BY <1>1 DEF TypeOK, Busy, Fresh
    <3>2. T(p) \in Toolchains
      BY <1>1 DEF TypeOK
    <3> QED
      BY <2>2, <3>1, <3>2, InstallAssumption DEF SharesWith, Place
  <2> QED
    BY <2>1, <2>3, BuiltKept DEF BuiltInv
<1>6. DigestInv'
  <2> SUFFICES ASSUME NEW q \in Installers,
                      pc'[q] \in {"describe", "fill", "load", "check", "spawn"}
               PROVE  local[q].digest # None
    BY <1>1 DEF DigestInv
  <2>1. CASE q # p
    BY <1>1, <2>1 DEF DigestInv
  <2>2. CASE q = p
    BY <2>2
  <2> QED
    BY <2>1, <2>2
<1> QED
  BY <1>2, <1>4, <1>5, <1>6

\* A build puts its product in place, and tells whoever shares the place.
LEMMA BuildStep ==
    ASSUME IInv, NEW p \in Installers, BuildWorker(p)
    PROVE  Rest'
<1> USE DEF IInv
<1> DEFINE others == {q \in Installers : Busy(q) /\ SharesWith(p, q)}
           told == IF others = {} THEN {} ELSE others \cup {p}
<1>1. /\ p \in Processes /\ pc[p] = "build" /\ header[T(p)] # None /\ T(p) \in Toolchains
      /\ pc' = [pc EXCEPT ![p] = "remove"] /\ Disturb(told)
      /\ bin' = [bin EXCEPT ![Place(p)] = Built(p)]
      /\ UNCHANGED <<header, exe, sidecar, last>>
  BY DEF BuildWorker, MaterializeBuildRoot, Goto, TypeOK, Processes, T, Built
<1> HIDE DEF told
<1>3. \A q \in Processes :
          /\ local'[q].of = local[q].of /\ local'[q].from = local[q].from
          /\ local'[q].digest = local[q].digest /\ local'[q].smoke = local[q].smoke
          /\ local'[q].sidecar = local[q].sidecar
          /\ local'[q].disturbed <=> local[q].disturbed \/ q \in told
          /\ q \notin told => local'[q] = local[q]
  BY <1>1, DisturbedFields
<1>4. /\ pc'[p] = "remove" /\ \A q \in Processes : q # p => pc'[q] = pc[q]
      /\ \A q \in Installers : q \in Processes
  BY <1>1 DEF TypeOK, Processes
<1>5. Busy(p)' /\ ~Busy(p) /\ local[p].smoke = None
  BY <1>1, <1>4 DEF Busy, Fresh, SmokeInv
<1>6. BuiltOK(p)'
  <2>1. T(p)' = T(p) /\ Place(p)' = Place(p) /\ Built(p)' = Built(p)
    BY <1>1, <1>3 DEF T, Place, Built
  <2>2. Place(p) \in Toolchains \cup {"checkout"}
    BY <1>1 DEF Place
  <2>3. bin'[Place(p)] = Built(p)
    BY <1>1, <2>2 DEF TypeOK
  <2>4. local'[p].smoke # "passed"
    BY <1>1, <1>3, <1>5, InstallAssumption DEF Outcomes
  <2> QED
    BY <1>1, <1>4, <2>1, <2>3, <2>4 DEF BuiltOK, Moved, Past
<1>7. \A q \in Installers \ {p} :
          Busy(q) /\ SharesWith(p, q) => local'[p].disturbed /\ local'[q].disturbed
  <2> SUFFICES ASSUME NEW q \in Installers \ {p}, Busy(q), SharesWith(p, q)
               PROVE  local'[p].disturbed /\ local'[q].disturbed
    OBVIOUS
  <2>1. q \in told /\ p \in told
    BY DEF told
  <2> QED
    BY <1>1, <1>3, <1>4, <2>1
<1>8. DigestInv' /\ ExclusiveInv' /\ BuiltInv' /\ SmokeInv'
  <2>1. \A x \in Toolchains \cup {"checkout"} : x # Place(p) => bin'[x] = bin[x]
    BY <1>1 DEF TypeOK
  <2> QED
    BY <1>1, <1>3, <1>4, <1>5, <1>6, <1>7, <2>1, WritingStep
<1>9. UnsettledInv'
  BY <1>1, <1>3, <1>4 DEF UnsettledInv, T, Past
<1>10. SettledInv'
  BY <1>1 DEF SettledInv, Settled
<1>11. AuditInv'
  <2> SUFFICES ASSUME NEW q \in Audits PROVE AuditOK(q)'
    BY DEF AuditInv
  <2>1. q \in Processes /\ q # p
    BY InstallAssumption DEF Processes
  <2>2. q \notin told
    BY <2>1, InstallAssumption DEF told
  <2> QED
    BY <1>1, <1>3, <1>4, <2>1, <2>2, AuditKept DEF AuditInv
<1> QED
  BY <1>8, <1>9, <1>10, <1>11 DEF Rest

\* The old executable goes; from here on the toolchain is not settled.
LEMMA RemoveStep ==
    ASSUME IInv, NEW p \in Installers, RemoveStale(p)
    PROVE  Rest'
<1> USE DEF IInv
<1>1. /\ p \in Processes /\ pc[p] = "remove" /\ T(p) \in Toolchains
      /\ UNCHANGED <<header, bin, sidecar>>
  BY DEF RemoveStale, TypeOK, Processes, T
<1>2. CASE bin[Place(p)] = None
  BY <1>1, <1>2, StopStep DEF RemoveStale, Stop, Goto, Hold
<1>3. CASE bin[Place(p)] # None
  <2> DEFINE told == {q \in Audits : T(q) = T(p)}
  <2>1. /\ exe' = [exe EXCEPT ![T(p)] = None]
        /\ last' = [last EXCEPT ![T(p)] = Unsettled]
        /\ \E step \in {"rename", "copy"} : pc' = [pc EXCEPT ![p] = step]
        /\ Disturb(told)
    BY <1>3 DEF RemoveStale, Goto
  <2> HIDE DEF told
  <2>3. \A q \in Processes :
            /\ local'[q].of = local[q].of /\ local'[q].from = local[q].from
            /\ local'[q].digest = local[q].digest /\ local'[q].smoke = local[q].smoke
            /\ local'[q].disturbed <=> local[q].disturbed \/ q \in told
            /\ q \notin told => local'[q] = local[q]
    BY <2>1, DisturbedFields
  <2>4. /\ pc'[p] \in {"rename", "copy"} /\ \A q \in Processes : q # p => pc'[q] = pc[q]
        /\ \A q \in Installers : q \in Processes /\ q \notin told
        /\ exe'[T(p)] = None /\ last'[T(p)] = Unsettled
        /\ \A x \in Toolchains : x # T(p) => exe'[x] = exe[x] /\ last'[x] = last[x]
    BY <1>1, <2>1, InstallAssumption DEF TypeOK, Processes, told
  <2>5. Busy(p)' /\ Busy(p) /\ local[p].smoke = None
    BY <1>1, <2>4 DEF Busy, Fresh, SmokeInv
  <2>6. local'[p] = local[p] /\ T(p)' = T(p) /\ Place(p)' = Place(p) /\ Built(p)' = Built(p)
    <3>1. local'[p] = local[p]
      BY <1>1, <2>3, <2>4
    <3> QED
      BY <1>1, <3>1 DEF T, Place, Built
  <2>7. BuiltOK(p)'
    <3>1. local'[p].smoke # "passed"
      BY <2>5, <2>6, InstallAssumption DEF Outcomes
    <3>2. BuiltOK(p)
      BY DEF BuiltInv
    <3> QED
      BY <1>1, <2>4, <2>5, <2>6, <3>1, <3>2 DEF BuiltOK, Moved, Past
  <2>8. \A q \in Installers \ {p} :
            Busy(q) /\ SharesWith(p, q) => local'[p].disturbed /\ local'[q].disturbed
    <3> SUFFICES ASSUME NEW q \in Installers \ {p}, Busy(q), SharesWith(p, q)
                 PROVE  local'[p].disturbed /\ local'[q].disturbed
      OBVIOUS
    <3>1. local[p].disturbed /\ local[q].disturbed
      BY <2>5 DEF ExclusiveInv, SharesWith
    <3> QED
      BY <2>3, <2>4, <3>1
  <2>9. DigestInv' /\ ExclusiveInv' /\ BuiltInv' /\ SmokeInv'
    BY <1>1, <2>3, <2>4, <2>5, <2>7, <2>8, WritingStep
  <2>10. UnsettledInv'
    <3> SUFFICES ASSUME NEW q \in Installers, pc'[q] \in Past
                 PROVE  last'[T(q)] = Unsettled
      BY <2>3, <2>4 DEF UnsettledInv, T
    <3>1. T(q) \in Toolchains /\ (q # p => last[T(q)] = Unsettled)
      BY <1>1, <2>4 DEF UnsettledInv, TypeOK, Past
    <3> QED
      BY <2>4, <3>1
  <2>11. SettledInv'
    <3> SUFFICES ASSUME NEW x \in Toolchains, last'[x] # Unsettled PROVE Settled(x)'
      BY DEF SettledInv
    <3>1. x # T(p)
      BY <2>4
    <3> QED
      BY <1>1, <2>4, <3>1 DEF SettledInv, Settled
  <2>12. AuditInv'
    <3> SUFFICES ASSUME NEW q \in Audits PROVE AuditOK(q)'
      BY DEF AuditInv
    <3>1. q \in Processes /\ q # p /\ (pc[q] # "idle" => T(q) \in Toolchains)
      BY InstallAssumption DEF Processes, TypeOK
    <3>2. CASE q \in told
      BY <2>3, <2>4, <3>1, <3>2, AuditKept DEF AuditInv
    <3>3. CASE q \notin told
      <4>1. T(q) # T(p)
        BY <3>3 DEF told
      <4> QED
        BY <1>1, <2>3, <2>4, <3>1, <3>3, <4>1, AuditKept DEF AuditInv
    <3> QED
      BY <3>2, <3>3
  <2> QED
    BY <2>9, <2>10, <2>11, <2>12 DEF Rest
<1> QED
  BY <1>2, <1>3

\* A step in which an installation that is past the removal writes.
LEMMA FileStep ==
    ASSUME IInv, NEW p \in Installers, pc[p] \in Past, NEW step \in Past,
           pc' = [pc EXCEPT ![p] = step], UNCHANGED <<header, local, last>>,
           \A x \in Toolchains \cup {"checkout"} : x # Place(p) => bin'[x] = bin[x],
           \A x \in Toolchains : x # T(p) => exe'[x] = exe[x] /\ sidecar'[x] = sidecar[x],
           BuiltOK(p)',
           step \in {"describe", "fill", "load", "check", "spawn"} => local[p].digest # None,
           local[p].smoke # None => step \in {"describe", "fill"}
    PROVE  Rest'
<1> USE DEF IInv
<1>1. /\ pc'[p] = step /\ \A q \in Processes : q # p => pc'[q] = pc[q]
      /\ p \in Processes /\ T(p) \in Toolchains /\ last[T(p)] = Unsettled
      /\ \A q \in Installers : q \in Processes
  BY DEF TypeOK, Processes, Past, UnsettledInv
<1>2. pc[p] # "idle" /\ Busy(p) /\ Busy(p)'
  BY <1>1 DEF Busy, Fresh, Past
<1>3. \A q \in Installers \ {p} :
          Busy(q) /\ SharesWith(p, q) => local[p].disturbed /\ local[q].disturbed
  BY <1>2 DEF ExclusiveInv, SharesWith
<1>4. DigestInv' /\ ExclusiveInv' /\ BuiltInv' /\ SmokeInv'
  BY <1>1, <1>2, <1>3, WritingStep
<1>5. UnsettledInv'
  BY <1>1 DEF UnsettledInv, T
<1>6. SettledInv'
  <2> SUFFICES ASSUME NEW x \in Toolchains, last[x] # Unsettled PROVE Settled(x)'
    BY DEF SettledInv
  <2>1. x # T(p) /\ Settled(x)
    BY <1>1 DEF SettledInv
  <2> QED
    BY <2>1, SettledKept
<1>7. AuditInv'
  <2> SUFFICES ASSUME NEW q \in Audits PROVE AuditOK(q)'
    BY DEF AuditInv
  <2>1. pc'[q] = pc[q] /\ (pc[q] # "idle" => T(q) \in Toolchains)
    BY <1>1, InstallAssumption DEF Processes, TypeOK
  <2>2. pc[q] # "idle" /\ last[T(q)] # Unsettled =>
            exe'[T(q)] = exe[T(q)] /\ sidecar'[T(q)] = sidecar[T(q)]
    BY <1>1, <2>1
  <2> QED
    BY <2>1, <2>2, AuditKept DEF AuditInv
<1> QED
  BY <1>4, <1>5, <1>6, <1>7 DEF Rest

\* The new executable is renamed, or copied in two steps.
LEMMA MoveStep ==
    ASSUME IInv, NEW p \in Installers, MoveIntoPlace(p)
    PROVE  Rest'
<1> USE DEF IInv
<1>1. /\ p \in Processes /\ T(p) \in Toolchains /\ pc[p] \in {"rename", "copy"}
      /\ UNCHANGED <<header, sidecar, last>> /\ pc[p] \in Past /\ Busy(p)
      /\ Place(p) \in Toolchains \cup {"checkout"} /\ local[p].smoke = None
  BY DEF MoveIntoPlace, TypeOK, Processes, T, Past, Busy, Fresh, Place, SmokeInv
<1>2. CASE bin[Place(p)] = None
  BY <1>1, <1>2, StopStep DEF MoveIntoPlace, Stop, Goto, Hold
<1>3. CASE bin[Place(p)] # None
  <2>1. PICK step \in {"copy", "hash"} :
          /\ pc' = [pc EXCEPT ![p] = step] /\ UNCHANGED local
          /\ \A x \in Toolchains \cup {"checkout"} : x # Place(p) => bin'[x] = bin[x]
          /\ \A x \in Toolchains : x # T(p) => exe'[x] = exe[x]
          /\ IF step = "hash" THEN exe'[T(p)] = bin[Place(p)]
             ELSE exe'[T(p)] = Torn /\ bin' = bin
    <3>1. CASE pc[p] = "rename"
      BY <1>1, <1>3, <3>1 DEF MoveIntoPlace, Goto, TypeOK
    <3>2. CASE pc[p] = "copy" /\ exe[T(p)] = Torn
      BY <1>1, <1>3, <3>2 DEF MoveIntoPlace, Goto, TypeOK
    <3>3. CASE pc[p] = "copy" /\ exe[T(p)] # Torn
      BY <1>1, <1>3, <3>3 DEF MoveIntoPlace, Goto, TypeOK
    <3> QED
      BY <1>1, <3>1, <3>2, <3>3
  <2>2. pc'[p] = step /\ step \in Past
    BY <1>1, <2>1 DEF TypeOK, Processes, Past
  <2>3. T(p)' = T(p) /\ Place(p)' = Place(p) /\ Built(p)' = Built(p)
    BY <1>1, <2>1 DEF T, Place, Built
  <2>4. BuiltOK(p)'
    <3>1. BuiltOK(p)
      BY DEF BuiltInv
    <3>2. local'[p].smoke # "passed"
      BY <1>1, <2>1, InstallAssumption DEF Outcomes
    <3>3. ~local[p].disturbed =>
             header[T(p)] # None /\ bin[Place(p)] = Built(p)
      BY <1>1, <3>1 DEF BuiltOK
    <3> QED
      BY <1>1, <2>1, <2>2, <2>3, <3>2, <3>3 DEF BuiltOK, Moved, Past
  <2> QED
    BY <1>1, <2>1, <2>2, <2>4, FileStep
<1> QED
  BY <1>2, <1>3

\* The second sidecar settles the toolchain, if nothing disturbed the
\* installation.
LEMMA SettleStep ==
    ASSUME IInv, NEW p \in Installers, WriteSidecar(p), pc[p] = "fill",
           local[p].smoke # None
    PROVE  Rest'
<1> USE DEF IInv
<1> DEFINE t == T(p)
<1>1. /\ p \in Processes /\ t \in Toolchains /\ local[p] \in Locals /\ Busy(p)
      /\ pc[p] \in Past /\ local[p].digest \in Headers /\ local[p].smoke \in Outcomes
      /\ \A q \in Installers : q \in Processes
      /\ \A q \in Processes : pc[q] # "idle" => T(q) \in Toolchains
  BY DEF TypeOK, Processes, T, Busy, Fresh, Past, DigestInv, Locals
<1>2. PICK s : /\ sidecar' = [sidecar EXCEPT ![t] = s]
               /\ sidecar[t] = Torn => s = Recorded(p)
  BY DEF WriteSidecar
<1>3. /\ pc' = [pc EXCEPT ![p] = "idle"] /\ local' = [local EXCEPT ![p] = Idle]
      /\ UNCHANGED <<header, bin, exe>>
      /\ last' = [last EXCEPT ![t] =
               IF local[p].disturbed THEN Unsettled
               ELSE [result |-> IF local[p].smoke = "passed" THEN "ok" ELSE "failed",
                     header |-> local[p].digest]]
  BY DEF WriteSidecar, Settle, Stop, Goto, Hold
<1>4. /\ Recorded(p).sysroot = t /\ Recorded(p).digest = local[p].digest
      /\ Recorded(p).smoke = local[p].smoke
      /\ Recorded(p) \in [sysroot : {t}, digest : Headers, smoke : Outcomes]
  BY <1>1 DEF Recorded
<1> HIDE DEF t
<1>5. /\ pc'[p] = "idle" /\ local'[p] = Idle
      /\ \A q \in Processes : q # p => pc'[q] = pc[q] /\ local'[q] = local[q]
      /\ sidecar'[t] = s
      /\ \A x \in Toolchains : x # t => sidecar'[x] = sidecar[x] /\ last'[x] = last[x]
      /\ local[p].disturbed => last'[t] = Unsettled
      /\ ~local[p].disturbed =>
            last'[t] = [result |-> IF local[p].smoke = "passed" THEN "ok" ELSE "failed",
                        header |-> local[p].digest]
  BY <1>1, <1>2, <1>3 DEF TypeOK, Processes
<1>6. ~Busy(p)' /\ pc'[p] \notin Past /\ local'[p].smoke = None
  BY <1>5 DEF Busy, Fresh, Past, Idle
<1>7. last[t] = Unsettled
  BY <1>1 DEF UnsettledInv, t
<1>8. DigestInv' /\ SmokeInv'
  BY <1>1, <1>5, <1>6 DEF DigestInv, SmokeInv
<1>9. ExclusiveInv'
  <2>1. \A q \in Installers \ {p} : Busy(q)' <=> Busy(q)
    BY <1>1, <1>5 DEF Busy
  <2> QED
    BY <1>1, <1>5, <1>6, <2>1, ExclusiveKept
<1>10. \A q \in Installers : q # p /\ Busy(q) /\ T(q) = t =>
          local[q].disturbed /\ local[p].disturbed
  BY <1>1 DEF ExclusiveInv, SharesWith, t
<1>11. BuiltInv'
  <2> SUFFICES ASSUME NEW q \in Installers, Busy(q)', q # p PROVE BuiltOK(q)'
    BY <1>6 DEF BuiltInv, BuiltOK
  <2>1. pc'[q] = pc[q] /\ local'[q] = local[q] /\ Busy(q)
    BY <1>1, <1>5 DEF Busy
  <2>2. T(q) \in Toolchains
    BY <1>1, <2>1 DEF Busy, Fresh
  <2>3. local'[q].disturbed \/ sidecar'[T(q)] = sidecar[T(q)]
    BY <1>5, <1>10, <2>1, <2>2
  <2> QED
    BY <1>3, <2>1, <2>3, BuiltKept DEF BuiltInv
<1>12. UnsettledInv'
  <2> SUFFICES ASSUME NEW q \in Installers, pc'[q] \in Past
               PROVE  last'[local'[q].of] = Unsettled
    BY DEF UnsettledInv, T
  <2>1. q # p
    BY <1>6
  <2>2. pc[q] \in Past /\ local'[q].of = T(q) /\ T(q) \in Toolchains /\ Busy(q)
    BY <1>1, <1>5, <2>1 DEF T, Past, Busy, Fresh
  <2> QED
    BY <1>5, <1>10, <2>1, <2>2 DEF UnsettledInv
<1>13. SettledInv'
  <2> SUFFICES ASSUME NEW x \in Toolchains, last'[x] # Unsettled PROVE Settled(x)'
    BY DEF SettledInv
  <2>1. CASE x # t
    <3>1. Settled(x)
      BY <1>5, <2>1 DEF SettledInv
    <3> QED
      BY <1>3, <1>5, <2>1, <3>1, SettledKept
  <2>2. CASE x = t
    <3>1. ~local[p].disturbed /\ BuiltOK(p)
      BY <1>5, <2>2 DEF BuiltInv
    <3>2. /\ sidecar[t] = Torn /\ exe[t] = Built(p) /\ local[p].digest = header[t]
          /\ local[p].smoke = "passed" => exe[t] \notin Broken
      BY <1>1, <3>1 DEF BuiltOK, Moved, Past, t
    <3>3. sidecar'[t] = Recorded(p)
      BY <1>2, <1>5, <3>2
    <3>4. /\ local[p].from \in Sources
          /\ exe'[t] = [of |-> t, header |-> local[p].digest, from |-> local[p].from]
      BY <1>1, <1>3, <3>2 DEF Built, Locals, t
    <3>5. last'[t].header = local[p].digest
          /\ (last'[t].result = "ok" => local[p].smoke = "passed")
      BY <1>5, <3>1
    <3> QED
      BY <1>3, <1>4, <2>2, <3>2, <3>3, <3>4, <3>5 DEF Settled
  <2> QED
    BY <2>1, <2>2
<1>14. AuditInv'
  <2> SUFFICES ASSUME NEW q \in Audits PROVE AuditOK(q)'
    BY DEF AuditInv
  <2>1. q \in Processes /\ q # p /\ (pc[q] # "idle" => T(q) \in Toolchains)
    BY <1>1, InstallAssumption DEF Processes
  <2>2. pc[q] # "idle" /\ last[T(q)] # Unsettled => T(q) # t
    BY <1>7
  <2> QED
    BY <1>3, <1>5, <2>1, <2>2, AuditKept DEF AuditInv
<1> QED
  BY <1>8, <1>9, <1>11, <1>12, <1>13, <1>14 DEF Rest

\* A sidecar is truncated, then written: before the test, or after it.
LEMMA SidecarStep ==
    ASSUME IInv, NEW p \in Installers, WriteSidecar(p)
    PROVE  Rest'
<1> USE DEF IInv
<1>1. /\ p \in Processes /\ T(p) \in Toolchains /\ pc[p] \in {"describe", "fill"}
      /\ UNCHANGED <<header, bin, exe>> /\ pc[p] \in Past /\ Busy(p)
      /\ local[p].digest # None
  BY DEF WriteSidecar, TypeOK, Processes, T, Past, Busy, Fresh, DigestInv
<1>2. CASE pc[p] = "fill" /\ local[p].smoke # None
  BY <1>2, SettleStep
<1>3. CASE ~(pc[p] = "fill" /\ local[p].smoke # None)
  <2>1. PICK step, s :
          /\ step \in {"fill", "load"}
          /\ pc' = [pc EXCEPT ![p] = step] /\ UNCHANGED <<local, last>>
          /\ sidecar' = [sidecar EXCEPT ![T(p)] = s]
          /\ step = "fill" => s = Torn
          /\ step = "load" => local[p].smoke = None
    BY <1>1, <1>3 DEF WriteSidecar, Goto
  <2>2. /\ pc'[p] = step /\ step \in Past /\ sidecar'[T(p)] = s
        /\ \A x \in Toolchains : x # T(p) => sidecar'[x] = sidecar[x]
    BY <1>1, <2>1 DEF TypeOK, Processes, Past
  <2>3. T(p)' = T(p) /\ Place(p)' = Place(p) /\ Built(p)' = Built(p)
    BY <1>1, <2>1 DEF T, Place, Built
  <2>4. BuiltOK(p)'
    <3>1. BuiltOK(p)
      BY DEF BuiltInv
    <3>2. ~local[p].disturbed =>
             /\ header[T(p)] # None /\ exe[T(p)] = Built(p)
             /\ local[p].digest = header[T(p)]
             /\ local[p].smoke = "passed" => exe[T(p)] \notin Broken
      BY <1>1, <3>1 DEF BuiltOK, Moved, Past
    <3> QED
      BY <1>1, <2>1, <2>2, <2>3, <3>2 DEF BuiltOK, Moved, Past
  <2> QED
    BY <1>1, <2>1, <2>2, <2>4, FileStep
<1> QED
  BY <1>2, <1>3

\* The toolchain changes under installations and audits.
LEMMA UpdateStep ==
    ASSUME IInv, NEW t \in Toolchains, UpdateToolchain(t)
    PROVE  Rest'
<1> USE DEF IInv
<1> DEFINE told == {p \in DOMAIN local : T(p) = t /\ (p \in Installers => Busy(p))}
<1>1. /\ Disturb(told) /\ UNCHANGED <<bin, exe, sidecar, pc, last>>
      /\ \A x \in Toolchains : x # t => header'[x] = header[x]
  BY DEF UpdateToolchain, disk, TypeOK
<1>2. \A q \in Processes :
          (q \in Installers => Busy(q)) /\ T(q) = t => q \in told
  BY DEF TypeOK, Processes
<1> HIDE DEF told
<1>3. \A q \in Processes :
          /\ local'[q].of = local[q].of /\ local'[q].from = local[q].from
          /\ local'[q].digest = local[q].digest /\ local'[q].smoke = local[q].smoke
          /\ local'[q].disturbed <=> local[q].disturbed \/ q \in told
          /\ q \notin told => local'[q] = local[q]
  BY <1>1, DisturbedFields
<1>4. /\ \A q \in Installers \cup Audits : q \in Processes
      /\ \A q \in Installers : Busy(q)' <=> Busy(q)
      /\ \A q \in Processes : pc[q] # "idle" => T(q) \in Toolchains
  BY <1>1 DEF Processes, Busy, TypeOK
<1>5. DigestInv' /\ SmokeInv' /\ UnsettledInv'
  BY <1>1, <1>3, <1>4 DEF DigestInv, SmokeInv, UnsettledInv, T
<1>6. ExclusiveInv'
  BY <1>3, <1>4, ExclusiveKept
<1>7. BuiltInv'
  <2> SUFFICES ASSUME NEW q \in Installers, Busy(q) PROVE BuiltOK(q)'
    BY <1>4 DEF BuiltInv, BuiltOK
  <2>1. T(q) \in Toolchains
    BY <1>4 DEF Busy, Fresh
  <2>2. CASE q \in told
    BY <1>1, <1>3, <1>4, <2>2, BuiltKept DEF BuiltInv
  <2>3. CASE q \notin told
    <3>1. header'[T(q)] = header[T(q)]
      BY <1>1, <1>2, <1>4, <2>1, <2>3
    <3> QED
      BY <1>1, <1>3, <1>4, <2>3, <3>1, BuiltKept DEF BuiltInv
  <2> QED
    BY <2>2, <2>3
<1>8. SettledInv'
  BY <1>1 DEF SettledInv, Settled
<1>9. AuditInv'
  <2> SUFFICES ASSUME NEW q \in Audits PROVE AuditOK(q)'
    BY DEF AuditInv
  <2>1. q \in Processes /\ q \notin Installers
    BY <1>4, InstallAssumption
  <2>2. CASE q \in told
    BY <1>1, <1>3, <2>1, <2>2, AuditKept DEF AuditInv
  <2>3. CASE q \notin told
    <3>1. pc[q] # "idle" => header'[T(q)] = header[T(q)]
      BY <1>1, <1>2, <1>4, <2>1, <2>3
    <3> QED
      BY <1>1, <1>3, <2>1, <2>3, <3>1, AuditKept DEF AuditInv
  <2> QED
    BY <2>2, <2>3
<1> QED
  BY <1>5, <1>6, <1>7, <1>8, <1>9 DEF Rest

-----------------------------------------------------------------------------
(* The theorems *)

\* Nothing is installed at first, and nobody runs.
LEMMA InitIInv ==
    ASSUME Init
    PROVE  IInv
<1> USE InstallAssumption
<1>1. PICK h \in Headers : header = [t \in Toolchains |-> h]
  BY DEF Init
<1>2. TypeOK
  <2>1. /\ pc \in [Processes -> Steps] /\ local \in [Processes -> Locals]
        /\ \A p \in Processes : pc[p] = "idle"
    BY IdleFields DEF Init, Processes, Steps
  <2>2. /\ header \in [Toolchains -> Headers \cup {None}]
        /\ bin \in [Toolchains \cup {"checkout"} -> Builds \cup {None}]
        /\ exe \in [Toolchains -> Builds \cup {None, Torn}]
        /\ sidecar \in [Toolchains -> Sidecars \cup {None, Torn}]
    BY <1>1 DEF Init
  <2>3. last \in [Toolchains -> [result : {"none", "unsettled", "ok", "failed"},
                                header : Headers \cup {None}]]
    BY DEF Init
  <2>4. installs \in 0 .. MaxInstalls /\ updates \in 0 .. MaxUpdates /\ faults \in 0 .. MaxFaults
    BY DEF Init
  <2> QED
    BY <2>1, <2>2, <2>3, <2>4 DEF TypeOK, Processes
<1>3. /\ \A p \in Processes : pc[p] = "idle" /\ local[p] = Idle
      /\ \A p \in Installers : p \in Processes /\ ~Busy(p)
      /\ \A p \in Audits : p \in Processes
  BY DEF Init, Processes, Busy, Fresh
<1>4. \A t \in Toolchains : Settled(t)
  BY DEF Init, Settled
<1>5. DigestInv /\ ExclusiveInv /\ BuiltInv /\ SmokeInv /\ UnsettledInv /\ SettledInv
  BY <1>3, <1>4
     DEF DigestInv, ExclusiveInv, BuiltInv, BuiltOK, SmokeInv, Idle, UnsettledInv, Past,
         SettledInv
<1>6. AuditInv
  BY <1>3 DEF AuditInv, AuditOK
<1> QED
  BY <1>2, <1>5, <1>6 DEF IInv

\* Every step keeps the invariant.
LEMMA NextIInv ==
    ASSUME IInv, [Next]_vars
    PROVE  IInv'
<1>1. \A p \in Installers \cup Audits : p \in Processes
  BY DEF Processes
<1>2. ASSUME NEW p \in Installers, InstallStep(p) PROVE TypeOK' /\ Rest'
  <2>1. CASE BuildWorker(p) \/ RemoveStale(p) \/ MoveIntoPlace(p) \/ WriteSidecar(p)
    BY <2>1, FileTypes, BuildStep, RemoveStep, MoveStep, SidecarStep DEF IInv
  <2>2. CASE AlreadyCurrent(p)
    BY <1>1, <2>2, QuietTypes, CurrentStep DEF IInv
  <2>3. CASE \/ Install(p) \/ ElanDir(p) \/ BuildFails(p) \/ HashLeanHeader(p)
             \/ SmokeTest(p) \/ InstallEnds(p) \/ SmokeTimesOut(p)
    BY <1>1, <2>3, QuietTypes, InstallerQuiet DEF IInv
  <2> QED
    BY <1>2, <2>1, <2>2, <2>3 DEF InstallStep
<1>3. ASSUME NEW p \in Audits, ResolveInstalledWorker(p) \/ AuditStartsWorker(p)
      PROVE  TypeOK' /\ Rest'
  BY <1>1, <1>3, QuietTypes, AuditSteps DEF IInv
<1>4. ASSUME NEW p \in Installers \cup Audits, LoadSidecar(p) \/ CheckInstalled(p)
      PROVE  TypeOK' /\ Rest'
  BY <1>1, <1>4, QuietTypes, AuditSteps, InstallerQuiet DEF IInv
<1>5. ASSUME NEW t \in Toolchains, UpdateToolchain(t) PROVE TypeOK' /\ Rest'
  BY <1>5, UpdateTypes, UpdateStep DEF IInv
<1>6. CASE UNCHANGED vars
  <2>1. TypeOK'
    BY <1>6 DEF IInv, vars, TypeOK, T
  <2>2. DigestInv' /\ ExclusiveInv' /\ SmokeInv' /\ UnsettledInv'
    BY <1>6 DEF IInv, vars, DigestInv, ExclusiveInv, Busy, SharesWith, SmokeInv,
                UnsettledInv, T
  <2>3. BuiltInv' /\ SettledInv' /\ AuditInv'
    BY <1>1, <1>6, BuiltKept, SettledKept, AuditKept
       DEF IInv, vars, BuiltInv, SettledInv, AuditInv
  <2> QED
    BY <2>1, <2>2, <2>3 DEF IInv
<1>7. TypeOK' /\ Rest' => IInv'
  BY DEF IInv, Rest
<1> QED
  BY <1>2, <1>3, <1>4, <1>5, <1>6, <1>7 DEF Next

\* No behaviour leaves the types, nor the account the invariant gives of
\* installations, install directories and audits (toolchain.rs,
\* install_worker.rs).
THEOREM Invariance == Spec => []IInv
<1>1. Init => IInv
  BY InitIInv
<1>2. IInv /\ [Next]_vars => IInv'
  BY NextIInv
<1> QED
  BY <1>1, <1>2, PTL DEF Spec

\* Every file, header and process stays what it can be.
THEOREM TypeCorrect == Spec => []TypeOK
<1>1. IInv => TypeOK
  BY DEF IInv
<1> QED
  BY <1>1, Invariance, PTL

\* The worker an audit starts was built for the project's toolchain as it is
\* now and has passed its test, as long as nothing disturbed the audit and the
\* last installation was neither cut short nor disturbed (resolve_in,
\* install-worker).
THEOREM ServedWorkers == Spec => []ServedWorkerWorks
<1>1. ASSUME IInv PROVE ServedWorkerWorks
  <2> USE InstallAssumption, <1>1 DEF IInv
  <2> SUFFICES ASSUME NEW p \in Audits, pc[p] = "spawn", ~local[p].disturbed,
                      header[T(p)] # None
               PROVE  Works(exe[T(p)], T(p))
    BY DEF ServedWorkerWorks
  <2> DEFINE t == T(p)
             s == sidecar[t]
  <2>1. /\ t \in Toolchains /\ last[t] # Unsettled /\ ResolveIn(s, t) = "served"
        /\ Settled(t)
    BY DEF TypeOK, AuditInv, AuditOK, SettledInv
  <2>2. /\ s # None /\ exe[t] # None /\ s.smoke # "failed"
        /\ header[s.sysroot] # None => s.digest = header[s.sysroot]
    BY <2>1, ResolveInServes DEF HeaderMatches
  <2>3. /\ s.sysroot = t /\ s.smoke = "passed" /\ s.digest \in Headers
        /\ exe[t] \notin Broken
        /\ \E from \in Sources : exe[t] = [of |-> t, header |-> s.digest, from |-> from]
    BY <2>1, <2>2 DEF Settled, Outcomes
  <2>4. s.digest = header[t]
    BY <2>2, <2>3
  <2> HIDE DEF t, s
  <2>5. exe[t] \in Builds /\ exe[t].of = t /\ exe[t].header = header[t]
    BY <2>1, <2>3, <2>4 DEF Builds
  <2>6. Works(exe[t], t)
    BY <2>3, <2>5 DEF Works, Fits
  <2> QED
    BY <2>6 DEF t
<1> QED
  BY <1>1, Invariance, PTL

\* An audit that is refused a worker was not refused in spite of the command
\* the refusal names: that command has not ended well for the toolchain as it
\* is now (WorkerResolutionError, install-worker).
THEOREM AdviceIsGood == Spec => []AdviceHelps
<1>1. ASSUME IInv PROVE AdviceHelps
  <2> USE InstallAssumption, <1>1 DEF IInv
  <2> SUFFICES ASSUME NEW p \in Audits, pc[p] = "refused", ~local[p].disturbed,
                      last[T(p)] = [result |-> "ok", header |-> header[T(p)]]
               PROVE  FALSE
    BY DEF AdviceHelps
  <2> DEFINE t == T(p)
             s == sidecar[t]
  <2>1. /\ t \in Toolchains /\ last[t] # Unsettled /\ ResolveIn(s, t) # "served"
        /\ Settled(t)
    BY DEF TypeOK, AuditInv, AuditOK, SettledInv
  <2>2. last[t].result = "ok" /\ last[t].header = header[t]
    OBVIOUS
  <2>3. /\ s \in [sysroot : {t}, digest : Headers, smoke : Outcomes]
        /\ s.smoke = "passed" /\ s.digest = header[t]
        /\ \E from \in Sources : exe[t] = [of |-> t, header |-> s.digest, from |-> from]
    BY <2>1, <2>2 DEF Settled
  <2> HIDE DEF t, s
  <2>4. s \in Sidecars /\ s.sysroot = t
    BY <2>1, <2>3 DEF Sidecars
  <2>5. exe[t] \in Builds
    <3>1. s.digest \in Headers
      BY <2>3
    <3> QED
      BY <2>1, <2>3, <3>1 DEF Builds
  <2>6. s # None /\ exe[t] # None
    BY <2>4, <2>5
  <2> QED
    BY <2>1, <2>3, <2>4, <2>6, ResolveInServes DEF HeaderMatches
<1> QED
  BY <1>1, Invariance, PTL
=============================================================================
