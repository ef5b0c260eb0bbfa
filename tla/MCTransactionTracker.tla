------------------------ MODULE MCTransactionTracker ------------------------
(* Two families of one account, either of which may have both attempts.    *)
EXTENDS TransactionTracker, TLC

CONSTANTS f1, f2, h1, h2, a1

OneAccount == f1 :> a1 @@ f2 :> a1
BothAttempts == [f \in Families |-> Hashes]
Interchangeable == Permutations(NsIds) \cup Permutations(TicketIds)
                     \cup Permutations(Scopes) \cup Permutations(Hashes)
                     \cup Permutations(Families)

InUse == {f \in Families : stage[f] # "none"}
ScopesInUse == ({scope, ns.scope} \cup {famScope[f] : f \in Families}) \ {NoScope}

\* Scopes are replaced while one family with one attempt is in use; two families
\* share one scope and one refresh at a time; attempts are replaced while no
\* balance is refreshed, and by two families only while admission is open and
\* the root task idle.
OneStory ==
    /\ Cardinality(InUse) > 1 =>
         /\ Cardinality(ScopesInUse) <= 1
         /\ \A t \in tickets : t.id = ns.active
    /\ Cardinality(UNION {hashes[f] : f \in Families}) > 1 =>
         /\ Cardinality(ScopesInUse) <= 1
         /\ tickets = {}
         /\ \A f \in Families : inclusion[f] <= 1
         /\ Cardinality(InUse) > 1 => ~closed /\ root = "idle"
=============================================================================
