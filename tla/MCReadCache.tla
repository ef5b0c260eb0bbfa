---------------------------- MODULE MCReadCache ----------------------------
(* ReadCache with two latest reads and a pinned read competing for a cache *)
(* of two entries, and a generation counter that runs out after one bump.  *)
EXTENDS ReadCache, TLC

CONSTANTS c1, latA, latB, pin

MCChainOf == (latA :> c1) @@ (latB :> c1) @@ (pin :> c1)
MCSymmetry == Permutations({latA, latB})
=============================================================================
