--------------------------- MODULE MCBlockObserver ---------------------------
(* A chain that forks after block 2: branch 1-2-3 is empty, branch 1-2-4-5 *)
(* mines the replacement y in block 4; the first attempt x is never mined. *)
EXTENDS BlockObserver, TLC

CONSTANTS x, y

MCParent == 1 :> NoBlock @@ 2 :> 1 @@ 3 :> 2 @@ 4 :> 2 @@ 5 :> 4
MCHeight == 1 :> 0 @@ 2 :> 1 @@ 3 :> 2 @@ 4 :> 2 @@ 5 :> 3
MCTxsOf == [b \in Blocks |-> IF b = 4 THEN {y} ELSE {}]

\* Every endpoint shows the branch that mines y, in a block above the baseline.
Settled == baseline < Height[4] /\ \A p \in Providers : tip[p] = 5

\* Once the chain settles on a branch that mines an attempt above the baseline,
\* a retained task ends: the attempt is found, whichever branch the catch-up
\* was on, or discovery gives up.  No cycle of lagging, failed and rolled-back
\* polls keeps the task alive for ever.
EndsOnceSettled == ~<>[](Settled /\ stage = "task")
=============================================================================
