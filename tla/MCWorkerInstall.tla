--------------------------- MODULE MCWorkerInstall ---------------------------
(* Constants of the WorkerInstall run. *)
EXTENDS WorkerInstall, TLC
CONSTANTS i1, i2
\* The checkout does not build a working worker for t1 with the second header,
\* nor the packaged sources for t2 with the first.
MCBroken == {[of |-> "t1", header |-> 2, from |-> "checkout"],
             [of |-> "t2", header |-> 1, from |-> "packaged"]}
InstallerSymmetry == Permutations(Installers)
=============================================================================
