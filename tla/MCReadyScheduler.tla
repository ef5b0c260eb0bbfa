-------------------------- MODULE MCReadyScheduler --------------------------
(* Two reads that may share a multicall and one that may not, on two       *)
(* routes; origins are interchangeable, and so are the two.                *)
EXTENDS ReadyScheduler

CONSTANTS balance, code, nonce, main, side, wallet, dapp

MCRouteOf == [k \in Keys |-> IF k = nonce THEN side ELSE main]
MCSymmetry == Permutations(Origins) \cup Permutations({balance, code})
=============================================================================
