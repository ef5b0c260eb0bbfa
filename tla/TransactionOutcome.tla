------------------------- MODULE TransactionOutcome -------------------------
(***************************************************************************)
(* What observing submitted transactions promises, whoever does it: the    *)
(* classification of each hash (PublicTransactionLookup) and which hashes  *)
(* some unresolved observer still watches.  A hash is classified once it   *)
(* is registered and never forgotten, `pending' is claimed only while      *)
(* somebody watches, an inclusion names a block that may hold the hash,    *)
(* and discovery exhausted is final.  TransactionTracker and BlockObserver *)
(* both implement it.                                                      *)
(***************************************************************************)
CONSTANTS Hashes,     \* transaction hashes
          MayInclude  \* <<hash, block>> such that the block may hold the hash

VARIABLES outcome,  \* the classification of each hash
          watched   \* the hashes an unresolved observer looks for

Untracked == [kind |-> "untracked", block |-> 0]
Pending == [kind |-> "pending", block |-> 0]
Unavailable == [kind |-> "unavailable", block |-> 0]
Exhausted == [kind |-> "exhausted", block |-> 0]
Included(b) == [kind |-> "included", block |-> b]

Init ==
    /\ outcome = [h \in Hashes |-> Untracked]
    /\ watched = {}

\* One observer reports: any hashes are reclassified together.
Reclassify(h) ==
    \/ outcome'[h] = outcome[h] /\ (outcome[h] = Pending => h \in watched')
    \/ /\ outcome[h] # Exhausted
       /\ \/ outcome'[h] = Pending /\ h \in watched'
          \/ outcome[h] # Untracked /\ outcome'[h] = Unavailable
          \/ outcome[h] # Untracked /\ outcome'[h] = Exhausted
          \/ \E b \in {p[2] : p \in MayInclude} :
               /\ outcome[h] # Untracked
               /\ <<h, b>> \in MayInclude
               /\ outcome'[h] = Included(b)

Next ==
    /\ watched' \in SUBSET Hashes
    /\ DOMAIN outcome' = Hashes
    /\ \A h \in Hashes : Reclassify(h)

Spec == Init /\ [][Next]_<<outcome, watched>>
=============================================================================
