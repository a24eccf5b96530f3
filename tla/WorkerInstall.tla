---------------------------- MODULE WorkerInstall ----------------------------
(* `lean-dup install-worker` and the resolution of the installed worker by the
   other commands.  An installation builds an executable with the toolchain's
   own lake, moves it into the toolchain's install directory, describes it in
   a sidecar and tries it; a resolution reads the sidecar, compares the digest
   of the toolchain's header and starts the executable.  Installers, audits
   and the user's toolchain manager run side by side without locks.  Every
   toolchain has an install directory of its own. *)
EXTENDS Naturals

CONSTANTS
    Installers, Audits,  \* processes
    Toolchains, Pinned,  \* toolchains, and the one taken when a pin is unreadable
    Headers,             \* contents of a toolchain's lean.h
    Broken,              \* builds that crash on load: [of, header, from]
    SameDevice,          \* the checkout is on the device of the install directories
    MaxInstalls, MaxUpdates, MaxFaults,  \* bounds
    None, Torn           \* no file; a file that is not whole

Sources == {"packaged", "checkout"}
Builds  == [of : Toolchains, header : Headers, from : Sources]
Outcomes == {"passed", "failed"}
Sidecars == [sysroot : Toolchains, digest : Headers, smoke : Outcomes \cup {None}]

ASSUME InstallAssumption ==
    /\ Pinned \in Toolchains /\ "checkout" \notin Toolchains
    /\ Installers \cap Audits = {}
    /\ SameDevice \in BOOLEAN
    /\ MaxInstalls \in Nat /\ MaxUpdates \in Nat /\ MaxFaults \in Nat
    /\ None \notin Toolchains /\ None \notin Headers /\ None \notin Outcomes
    /\ \A marker \in {None, Torn} : marker \notin Builds /\ marker \notin Sidecars
    /\ None # Torn

VARIABLES
    header,      \* [Toolchains -> lean.h, None without the toolchain]
    bin,         \* what lake built last: per install directory, and in the checkout
    exe,         \* [Toolchains -> lean-dup-worker in the install directory]
    sidecar,     \* [Toolchains -> worker.json]
    pc, local,   \* per process: its next step, and what it holds
    last,        \* ghost: how the last installation of a toolchain ended
    installs, updates, faults
vars == <<header, bin, exe, sidecar, pc, local, last, installs, updates, faults>>
disk == <<bin, exe, sidecar>>
meta == <<installs, updates, faults>>

Unsettled == [result |-> "unsettled", header |-> None]
Idle == [of |-> None, from |-> "packaged", force |-> FALSE, digest |-> None, sidecar |-> None,
         smoke |-> None, disturbed |-> FALSE]

Init ==
    /\ \E h \in Headers : header = [t \in Toolchains |-> h]
    /\ bin = [place \in Toolchains \cup {"checkout"} |-> None]
    /\ exe = [t \in Toolchains |-> None]
    /\ sidecar = [t \in Toolchains |-> None]
    /\ pc = [p \in Installers \cup Audits |-> "idle"]
    /\ local = [p \in Installers \cup Audits |-> Idle]
    /\ last = [t \in Toolchains |-> [result |-> "none", header |-> None]]
    /\ installs = 0 /\ updates = 0 /\ faults = 0

(* Both commands read lean-toolchain, and take the development pin without
   one they understand; the installer's --toolchain comes first. *)
FromLakeRoot(pin) == IF pin = None THEN Pinned ELSE pin
ResolveToolchain(named, pin) == IF named # None THEN named ELSE FromLakeRoot(pin)

Parse(file) == IF file = Torn THEN None ELSE file
HeaderMatches(s, t) == s.digest = header[t]

(* resolve_in, once the sidecar is loaded. *)
ResolveIn(s, t) ==
    CASE s = None \/ exe[t] = None                                    -> "not installed"
      [] header[s.sysroot] # None /\ ~HeaderMatches(s, s.sysroot)      -> "stale"
      [] s.smoke = "failed"                                           -> "unusable"
      [] OTHER                                                        -> "served"

\* Mutant: whatever the smoke test said.
IsCurrentUntried(t) ==
    LET s == Parse(sidecar[t]) IN
    s # None /\ exe[t] # None /\ header[t] # None /\ HeaderMatches(s, t)

(* A build is skipped for a worker that resolution would serve. *)
WorkerIsCurrent(t) ==
    LET s == Parse(sidecar[t]) IN
    /\ s # None
    /\ exe[t] # None
    /\ s.smoke = "passed"
    /\ header[t] # None
    /\ HeaderMatches(s, t)

Goto(p, step)  == pc' = [pc EXCEPT ![p] = step]
Hold(p, fields) == local' = [local EXCEPT ![p] = fields]
Stop(p)        == Goto(p, "idle") /\ Hold(p, Idle)
Disturb(S)     == local' = [q \in DOMAIN local |->
                                [local[q] EXCEPT !.disturbed = @ \/ q \in S]]
T(p)     == local[p].of
Place(p) == IF local[p].from = "checkout" THEN "checkout" ELSE T(p)

-----------------------------------------------------------------------------
(* install-worker. *)

Fresh == {"idle", "start", "build"}
Busy(p) == p \in Installers /\ pc[p] \notin Fresh
SharesWith(p, q) == p # q /\ (T(p) = T(q) \/ {local[p].from, local[q].from} = {"checkout"})

Install(p) ==
    /\ pc[p] = "idle" /\ installs < MaxInstalls
    /\ \E named, pin \in Toolchains \cup {None}, from \in Sources, force \in BOOLEAN :
         Hold(p, [Idle EXCEPT !.of = ResolveToolchain(named, pin), !.from = from, !.force = force])
    /\ Goto(p, "start")
    /\ installs' = installs + 1
    /\ UNCHANGED <<header, disk, last, updates, faults>>

(* Nothing to do: unless an installation is under way or was cut short, the
   user has been told that there is a worker. *)
AlreadyCurrent(p) ==
    /\ pc[p] = "start"
    /\ ~local[p].force /\ WorkerIsCurrent(T(p))
    /\ last' = [last EXCEPT ![T(p)] =
            IF @ = Unsettled THEN @ ELSE [result |-> "ok", header |-> header[T(p)]]]
    /\ Stop(p)
    /\ UNCHANGED <<header, disk, meta>>
ElanDir(p) ==
    /\ pc[p] = "start"
    /\ local[p].force \/ ~WorkerIsCurrent(T(p))
    /\ IF header[T(p)] = None THEN Stop(p)
       ELSE Goto(p, "build") /\ Hold(p, [local[p] EXCEPT !.force = FALSE])
    /\ UNCHANGED <<header, disk, last, meta>>

(* The packaged sources are unpacked, file by file, over what an earlier
   installation left below the install directory; a checkout is taken as it is.
   Two installations that share a place disturb each other. *)
MaterializeBuildRoot(p) ==
    LET others == {q \in Installers : Busy(q) /\ SharesWith(p, q)}
    IN  Disturb(IF others = {} THEN {} ELSE others \cup {p})

(* lake build, in that place. *)
BuildWorker(p) ==
    /\ pc[p] = "build" /\ header[T(p)] # None
    /\ MaterializeBuildRoot(p)
    /\ bin' = [bin EXCEPT ![Place(p)] =
            [of |-> T(p), header |-> header[T(p)], from |-> local[p].from]]
    /\ Goto(p, "remove")
    /\ UNCHANGED <<header, exe, sidecar, last, meta>>
BuildFails(p) ==
    /\ pc[p] = "build"
    /\ header[T(p)] # None => faults < MaxFaults
    /\ faults' = faults + (IF header[T(p)] # None THEN 1 ELSE 0)
    /\ Stop(p)
    /\ UNCHANGED <<header, disk, last, installs, updates>>

(* build_worker_exe looks for what was built; move_into_place:
   the old executable is removed, the new one renamed or,
   from another device, copied. *)
RemoveStale(p) ==
    /\ pc[p] = "remove"
    /\ IF bin[Place(p)] = None
       THEN Stop(p) /\ UNCHANGED <<exe, last>>
       ELSE /\ exe' = [exe EXCEPT ![T(p)] = None]
            /\ last' = [last EXCEPT ![T(p)] = Unsettled]
            /\ Goto(p, IF local[p].from = "packaged" \/ SameDevice THEN "rename" ELSE "copy")
            /\ Disturb({q \in Audits : T(q) = T(p)})
    /\ UNCHANGED <<header, bin, sidecar, meta>>
MoveIntoPlace(p) ==
    /\ \/ /\ pc[p] \in {"rename", "copy"} /\ bin[Place(p)] = None
          /\ Stop(p)
          /\ UNCHANGED <<bin, exe>>
       \/ /\ pc[p] = "rename" /\ bin[Place(p)] # None
          /\ exe' = [exe EXCEPT ![T(p)] = bin[Place(p)]]
          /\ bin' = [bin EXCEPT ![Place(p)] = None]
          /\ Goto(p, "hash") /\ local' = local
       \/ /\ pc[p] = "copy" /\ bin[Place(p)] # None
          /\ exe' = [exe EXCEPT ![T(p)] = IF @ = Torn THEN bin[Place(p)] ELSE Torn]
          /\ bin' = bin
          /\ Goto(p, IF exe[T(p)] = Torn THEN "hash" ELSE "copy") /\ local' = local
    /\ UNCHANGED <<header, sidecar, last, meta>>

(* The digest of the header as it is after the build. *)
HashLeanHeader(p) ==
    /\ pc[p] = "hash"
    /\ IF header[T(p)] = None THEN Stop(p)
       ELSE Goto(p, "describe") /\ Hold(p, [local[p] EXCEPT !.digest = header[T(p)]])
    /\ UNCHANGED <<header, disk, last, meta>>

(* std::fs::write truncates and then writes; another writer of the same file
   can leave a mixture.  The first sidecar has no outcome of the smoke test
   (pending), the second has. *)
Recorded(p) == [sysroot |-> T(p), digest |-> local[p].digest, smoke |-> local[p].smoke]
Settle(p) ==
    /\ last' = [last EXCEPT ![T(p)] =
            IF local[p].disturbed THEN Unsettled
            ELSE [result |-> IF local[p].smoke = "passed" THEN "ok" ELSE "failed",
                  header |-> local[p].digest]]
    /\ Stop(p)
WriteSidecar(p) ==
    /\ \/ /\ pc[p] = "describe"
          /\ sidecar' = [sidecar EXCEPT ![T(p)] = Torn]
          /\ Goto(p, "fill")
          /\ UNCHANGED <<local, last>>
       \/ /\ pc[p] = "fill"
          /\ \E s \in {Recorded(p)} \cup (IF sidecar[T(p)] \in {Torn, Recorded(p)} THEN {} ELSE {Torn}) :
               sidecar' = [sidecar EXCEPT ![T(p)] = s]
          /\ IF local[p].smoke = None
             THEN Goto(p, "load") /\ UNCHANGED <<local, last>>
             ELSE Settle(p)
    /\ UNCHANGED <<header, bin, exe, meta>>

\* Mutant: the outcome of a smoke test that failed is not recorded.
SmokePassedOnly(p, smoke) ==
    IF smoke = "passed"
    THEN /\ Hold(p, [local[p] EXCEPT !.smoke = smoke])
         /\ Goto(p, "describe") /\ last' = last
    ELSE /\ last' = [last EXCEPT ![T(p)] =
                IF local[p].disturbed THEN Unsettled
                ELSE [result |-> "failed", header |-> local[p].digest]]
         /\ Stop(p)
SmokeTested(p, smoke) ==
    /\ Hold(p, [local[p] EXCEPT !.smoke = smoke, !.sidecar = None])
    /\ Goto(p, "describe")
    /\ last' = last

-----------------------------------------------------------------------------
(* Resolution, by an audit and by the smoke test of an installation. *)

(* Whether a worker answers: one built for another toolchain or header may. *)
Fits(x, t) == x \in Builds /\ x.of = t /\ x.header = header[t]
Works(x, t) == Fits(x, t) /\ x \notin Broken
Answers(x, t) ==
    IF x \notin Builds \/ header[t] = None THEN {FALSE}
    ELSE IF Fits(x, t) THEN {Works(x, t)} ELSE BOOLEAN

ResolveInstalledWorker(p) ==
    /\ pc[p] = "idle" /\ p \in Audits
    /\ \E pin \in Toolchains \cup {None} :
         LET t == FromLakeRoot(pin)
         IN  Hold(p, [Idle EXCEPT !.of = t, !.sidecar = Parse(sidecar[t]),
                                  !.disturbed = last[t] = Unsettled])
    /\ Goto(p, "check")
    /\ UNCHANGED <<header, disk, last, meta>>
LoadSidecar(p) ==
    /\ pc[p] = "load"
    /\ Hold(p, [local[p] EXCEPT !.sidecar = Parse(sidecar[T(p)])])
    /\ Goto(p, "check")
    /\ UNCHANGED <<header, disk, last, meta>>

CheckInstalled(p) ==
    /\ pc[p] = "check"
    /\ LET served == ResolveIn(local[p].sidecar, T(p)) = "served"
       IN  \/ /\ served \/ p \in Audits
              /\ Goto(p, IF served THEN "spawn" ELSE "refused")
              /\ Hold(p, [local[p] EXCEPT !.sidecar = None])
              /\ last' = last
           \/ /\ ~served /\ p \in Installers
              /\ SmokeTested(p, "failed")
    /\ UNCHANGED <<header, disk, meta>>
AuditStartsWorker(p) ==
    /\ pc[p] \in {"spawn", "refused"} /\ p \in Audits
    /\ Stop(p)
    /\ UNCHANGED <<header, disk, last, meta>>
SmokeTest(p) ==
    /\ pc[p] = "spawn" /\ p \in Installers
    /\ \E ok \in Answers(exe[T(p)], T(p)) : SmokeTested(p, IF ok THEN "passed" ELSE "failed")
    /\ UNCHANGED <<header, disk, meta>>

-----------------------------------------------------------------------------
(* What goes wrong around them: the toolchain is updated, removed or installed
   again; a file cannot be written; the smoke test takes too long; a kill. *)
UpdateToolchain(t) ==
    /\ updates < MaxUpdates
    /\ \E h \in (Headers \cup {None}) \ {header[t]} : header' = [header EXCEPT ![t] = h]
    /\ Disturb({p \in DOMAIN local : T(p) = t /\ (p \in Installers => Busy(p))})
    /\ updates' = updates + 1
    /\ UNCHANGED <<disk, pc, last, installs, faults>>
Fault(p) ==
    /\ faults < MaxFaults /\ Busy(p)
    /\ faults' = faults + 1
    /\ UNCHANGED <<header, disk, installs, updates>>
InstallEnds(p)   == Fault(p) /\ Stop(p) /\ last' = last
SmokeTimesOut(p) == pc[p] = "spawn" /\ Fault(p) /\ SmokeTested(p, "failed")

InstallStep(p) ==
    \/ Install(p) \/ AlreadyCurrent(p) \/ ElanDir(p) \/ BuildWorker(p) \/ BuildFails(p)
    \/ RemoveStale(p) \/ MoveIntoPlace(p) \/ HashLeanHeader(p) \/ WriteSidecar(p)
    \/ SmokeTest(p) \/ InstallEnds(p) \/ SmokeTimesOut(p)
Next ==
    \/ \E p \in Installers : InstallStep(p)
    \/ \E p \in Audits : ResolveInstalledWorker(p) \/ AuditStartsWorker(p)
    \/ \E p \in Installers \cup Audits : LoadSidecar(p) \/ CheckInstalled(p)
    \/ \E t \in Toolchains : UpdateToolchain(t)
Spec == Init /\ [][Next]_vars

Steps == {"idle", "start", "build", "remove", "rename", "copy", "hash", "describe", "fill",
          "load", "check", "spawn", "refused"}
Locals == [of : Toolchains \cup {None}, from : Sources, force : BOOLEAN,
           digest : Headers \cup {None}, sidecar : Sidecars \cup {None},
           smoke : Outcomes \cup {None}, disturbed : BOOLEAN]

TypeOK ==
    /\ header \in [Toolchains -> Headers \cup {None}]
    /\ bin \in [Toolchains \cup {"checkout"} -> Builds \cup {None}]
    /\ exe \in [Toolchains -> Builds \cup {None, Torn}]
    /\ sidecar \in [Toolchains -> Sidecars \cup {None, Torn}]
    /\ last \in [Toolchains -> [result : {"none", "unsettled", "ok", "failed"},
                                header : Headers \cup {None}]]
    /\ pc \in [Installers \cup Audits -> Steps]
    /\ local \in [Installers \cup Audits -> Locals]
    /\ \A p \in Installers \cup Audits : pc[p] # "idle" => T(p) \in Toolchains
    /\ installs \in 0..MaxInstalls /\ updates \in 0..MaxUpdates /\ faults \in 0..MaxFaults

-----------------------------------------------------------------------------
(* "a version string can lie; the header digest cannot", and a worker that
   failed its smoke test "will not be served" (toolchain.rs, install_worker.rs):
   the worker an audit starts was built for the project's toolchain as it now
   is and passed its test, whatever was updated, forced, failed or repeated
   before; except while an installation is under way, and after one that died
   or that was disturbed by an update or by another installation. *)
ServedWorkerWorks ==
    \A p \in Audits :
        /\ pc[p] = "spawn" /\ ~local[p].disturbed
        /\ last[T(p)] # Unsettled /\ header[T(p)] # None
        => Works(exe[T(p)], T(p))

(* Every refusal "names the install-worker command that fixes it": once that
   command has ended well, having built or having found the worker current,
   and while the toolchain is the same, audits are served. *)
AdviceHelps ==
    \A p \in Audits :
        pc[p] = "refused" /\ ~local[p].disturbed
        => last[T(p)] # [result |-> "ok", header |-> header[T(p)]]
=============================================================================
