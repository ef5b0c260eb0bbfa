-------------------------- MODULE MCExecutorIndex --------------------------
(* Two operations and two interchangeable delegates; indices 0 to 4, of    *)
(* which 1 and 2 are position accounts.                                    *)
EXTENDS ExecutorIndex, TLC

CONSTANTS old, new, send, swap

MCInterchangeable == {<<old, new>>, <<new, old>>}
MCSymmetry == Permutations(OpIds) \cup Permutations(Delegates)
=============================================================================
