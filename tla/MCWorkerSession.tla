--------------------------- MODULE MCWorkerSession ---------------------------
(* The WorkerSession runs: child identities are interchangeable. *)
EXTENDS WorkerSession, TLC

CONSTANTS c1, c2, s1, s2, s3

SessionSymmetry == Permutations(Sessions)
=============================================================================
