----------------------------- MODULE MCRpcJobs -----------------------------
(* Jobs and endpoints are interchangeable. *)
EXTENDS RpcJobs

CONSTANTS j1, j2, a, b

MCSymmetry == Permutations(Jobs) \cup Permutations(Endpoints)
=============================================================================
