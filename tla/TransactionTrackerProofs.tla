---------------------- MODULE TransactionTrackerProofs ----------------------
(***************************************************************************)
(* The tracker of submitted transactions, for every set of families,       *)
(* accounts, scopes and hashes: it implements the abstract classification, *)
(* and the balances it lets the cache serve are never older than what it   *)
(* has seen.                                                               *)
(***************************************************************************)
EXTENDS TransactionTracker, FiniteSetTheorems, WellFoundedInduction, TLAPS

----------------------------------------------------------------------------
(* The registry                                                            *)

RegistryType ==
    /\ stage \in [Families -> Stages]
    /\ hashes \in [Families -> SUBSET Hashes]
    /\ inclusion \in [Families -> Blocks]
    /\ lookup \in [Hashes -> Lookup]

\* A family that has not started has no attempts, and an attempt of any family
\* has been classified.
FamilyInv(f) ==
    /\ stage[f] = "none" => hashes[f] = {}
    /\ \A h \in hashes[f] : lookup[h] # Untracked

RegistryInv ==
    /\ RegistryType
    /\ \A f \in Families : FamilyInv(f)
    /\ PendingHasObserver

\* What one step may do to the classification of a hash.
Reclassified(h) ==
    \/ lookup'[h] = lookup[h]
    \/ /\ lookup[h] # Exhausted
       /\ \/ lookup'[h] = Pending
          \/ lookup[h] # Untracked /\ lookup'[h] \in Lookup \ {Untracked}

\* The classifications differ from each other.
LEMMA Kinds ==
    /\ Untracked # Pending /\ Untracked # Unavailable /\ Untracked # Exhausted
    /\ Pending # Unavailable /\ Pending # Exhausted /\ Unavailable # Exhausted
    /\ \A b : /\ Included(b) # Untracked /\ Included(b) # Pending
              /\ Included(b) # Unavailable /\ Included(b) # Exhausted
BY DEF Untracked, Pending, Unavailable, Exhausted, Included

\* An update by family f, whatever else it does, classifies the attempts of f
\* and those only, and never one whose discovery is exhausted.
LEMMA UpdateFacts ==
    ASSUME RegistryInv, NEW f \in Families, NEW won, NEW b \in Blocks, NEW other \in Lookup,
           other # Untracked, won # {} => b # 0, Update(f, won, b, other)
    PROVE  /\ hashes' = hashes
           /\ inclusion' = [inclusion EXCEPT ![f] = b]
           /\ inclusion' \in [Families -> Blocks]
           /\ lookup' \in [Hashes -> Lookup]
           /\ \A h \in Hashes : h \notin hashes[f] => lookup'[h] = lookup[h]
           /\ \A h \in Hashes : h \in hashes[f] =>
                 /\ lookup'[h] # Untracked
                 /\ lookup'[h] = Pending => other = Pending
                 /\ lookup[h] = Exhausted => lookup'[h] = Exhausted
           /\ \A h \in Hashes : Reclassified(h)
<1> DEFINE new(h) == IF h \in won THEN Included(b) ELSE other
<1>1. /\ hashes' = hashes
      /\ inclusion' = [inclusion EXCEPT ![f] = b]
      /\ lookup' = [h \in Hashes |->
           IF h \notin hashes[f] THEN lookup[h] ELSE Verdict(h, new(h))]
  BY DEF Update
<1>2. inclusion' \in [Families -> Blocks]
  BY <1>1 DEF RegistryInv, RegistryType
<1>3. \A h \in Hashes : lookup[h] \in Lookup
  BY DEF RegistryInv, RegistryType
<1>4. \A h : new(h) \in Lookup /\ new(h) # Untracked /\ (new(h) = Pending => other = Pending)
  <2> SUFFICES ASSUME NEW h
               PROVE  new(h) \in Lookup /\ new(h) # Untracked /\ (new(h) = Pending => other = Pending)
    OBVIOUS
  <2>1. CASE h \in won
    <3>1. b \in 1..MaxBlock
      BY <2>1, CacheConstants DEF Blocks
    <3> QED
      BY <2>1, <3>1, Kinds DEF Lookup
  <2> QED
    BY <2>1
<1>5. \A h \in Hashes : Verdict(h, new(h)) \in {Exhausted, new(h)}
                           /\ (lookup[h] = Exhausted => Verdict(h, new(h)) = Exhausted)
  BY DEF Verdict
<1>6. Exhausted \in Lookup /\ Exhausted # Untracked /\ Exhausted # Pending
  BY Kinds DEF Lookup
<1>7. \A h \in Hashes : h \notin hashes[f] => lookup'[h] = lookup[h]
  BY <1>1
<1>8. \A h \in Hashes : h \in hashes[f] => lookup'[h] = Verdict(h, new(h))
  BY <1>1
<1>9. \A h \in Hashes : lookup'[h] \in Lookup
  BY <1>3, <1>4, <1>5, <1>6, <1>7, <1>8
<1>10. lookup' \in [Hashes -> Lookup]
  BY <1>1, <1>9
<1>11. \A h \in Hashes : h \in hashes[f] =>
                 /\ lookup'[h] # Untracked
                 /\ lookup'[h] = Pending => other = Pending
                 /\ lookup[h] = Exhausted => lookup'[h] = Exhausted
  BY <1>4, <1>5, <1>6, <1>8
<1>12. ASSUME NEW h \in Hashes PROVE Reclassified(h)
  <2>1. CASE h \notin hashes[f]
    BY <2>1, <1>7 DEF Reclassified
  <2>2. CASE h \in hashes[f]
    <3>1. lookup[h] # Untracked
      BY <2>2 DEF RegistryInv, FamilyInv
    <3> QED
      BY <2>2, <3>1, <1>9, <1>11 DEF Reclassified
  <2> QED
    BY <2>1, <2>2
<1> QED
  BY <1>1, <1>2, <1>7, <1>10, <1>11, <1>12

\* Only observers move the registry.
LEMMA ManageRegistry ==
    ASSUME Manage
    PROVE  UNCHANGED <<stage, hashes, inclusion, lookup>>
BY DEF Manage, Close, Resume, ChangeScope, ClearWallet, ReloadAccounts, HandleWake,
   PublishScopes, PublishTracker, TakeRefreshes, ScheduleRefresh, ScheduleAccounts,
   Complete, registryVars

LEMMA RegistryUnchanged ==
    ASSUME RegistryInv, UNCHANGED <<stage, hashes, inclusion, lookup>>
    PROVE  RegistryInv' /\ \A h \in Hashes : Reclassified(h)
BY DEF RegistryInv, RegistryType, FamilyInv, PendingHasObserver, Live, Reclassified

\* Every report of an observer keeps the registry's invariant: f's attempts stop
\* being pending unless f goes on watching them.
LEMMA UpdateInv ==
    ASSUME RegistryInv, NEW f \in Families, NEW won, NEW b \in Blocks, NEW other \in Lookup,
           other # Untracked, won # {} => b # 0, Update(f, won, b, other),
           NEW st \in Stages \ {"none"}, stage' = [stage EXCEPT ![f] = st],
           other = Pending => b = 0 /\ st \in {"guard", "task", "ended"}
    PROVE  RegistryInv' /\ \A h \in Hashes : Reclassified(h)
<1>1. /\ hashes' = hashes
      /\ inclusion' = [inclusion EXCEPT ![f] = b]
      /\ inclusion' \in [Families -> Blocks]
      /\ lookup' \in [Hashes -> Lookup]
      /\ \A h \in Hashes : h \notin hashes[f] => lookup'[h] = lookup[h]
      /\ \A h \in Hashes : h \in hashes[f] =>
            /\ lookup'[h] # Untracked
            /\ lookup'[h] = Pending => other = Pending
            /\ lookup[h] = Exhausted => lookup'[h] = Exhausted
      /\ \A h \in Hashes : Reclassified(h)
  BY UpdateFacts, Zenon
<1>2. RegistryType'
  BY <1>1 DEF RegistryInv, RegistryType
<1>3. ASSUME NEW g \in Families PROVE FamilyInv(g)'
  BY <1>1 DEF RegistryInv, RegistryType, FamilyInv
<1>4. PendingHasObserver'
  <2> SUFFICES ASSUME NEW h \in Hashes, lookup'[h] = Pending
               PROVE  \E g \in Families : Live(g)' /\ h \in hashes'[g] /\ inclusion'[g] = 0
    BY DEF PendingHasObserver
  <2>1. CASE h \in hashes[f]
    BY <2>1, <1>1 DEF RegistryInv, RegistryType, Live
  <2>2. CASE h \notin hashes[f]
    <3>1. PICK g \in Families : Live(g) /\ h \in hashes[g] /\ inclusion[g] = 0
      BY <2>2, <1>1 DEF RegistryInv, PendingHasObserver
    <3>2. g # f
      BY <2>2, <3>1
    <3> QED
      BY <3>1, <3>2, <1>1 DEF RegistryInv, RegistryType, Live
  <2> QED
    BY <2>1, <2>2
<1> QED
  BY <1>1, <1>2, <1>3, <1>4 DEF RegistryInv

\* Register: the attempt is pending from now on, or keeps the classification
\* another family gave it.
LEMMA RegisterInv ==
    ASSUME RegistryInv, NEW f \in Families, NEW h \in Hashes, Register(f, h)
    PROVE  RegistryInv' /\ \A g \in Hashes : Reclassified(g)
<1>1. /\ stage' = stage /\ stage[f] = "guard"
      /\ hashes' = [hashes EXCEPT ![f] = @ \cup {h}]
      /\ inclusion' = [inclusion EXCEPT ![f] = 0]
      /\ lookup' = [lookup EXCEPT ![h] = IF @ = Untracked THEN Pending ELSE @]
  BY DEF Register
<1>2. 0 \in Blocks /\ Pending \in Lookup /\ Untracked # Pending
  BY CacheConstants, Kinds DEF Blocks, Lookup
<1>3. RegistryType'
  BY <1>1, <1>2 DEF RegistryInv, RegistryType
<1>4. \A g \in Hashes : Reclassified(g)
  BY <1>1, <1>2, Kinds DEF RegistryInv, RegistryType, Reclassified
<1>5. \A g \in Hashes : lookup[g] # Untracked => lookup'[g] = lookup[g]
  BY <1>1 DEF RegistryInv, RegistryType
<1>6. lookup'[h] # Untracked
  BY <1>1, <1>2 DEF RegistryInv, RegistryType
<1>7. ASSUME NEW g \in Families PROVE FamilyInv(g)'
  <2>1. \A k \in hashes'[g] : k \in Hashes /\ (k = h \/ k \in hashes[g])
    BY <1>1 DEF RegistryInv, RegistryType
  <2>2. \A k \in hashes'[g] : lookup'[k] # Untracked
    BY <2>1, <1>5, <1>6 DEF RegistryInv, FamilyInv
  <2>3. stage'[g] = "none" => hashes'[g] = {}
    BY <1>1 DEF RegistryInv, RegistryType, FamilyInv
  <2> QED
    BY <2>2, <2>3 DEF FamilyInv
<1>8. PendingHasObserver'
  <2> SUFFICES ASSUME NEW k \in Hashes, lookup'[k] = Pending
               PROVE  \E g \in Families : Live(g)' /\ k \in hashes'[g] /\ inclusion'[g] = 0
    BY DEF PendingHasObserver
  <2>1. CASE k = h
    BY <2>1, <1>1 DEF RegistryInv, RegistryType, Live
  <2>2. CASE k # h
    <3>1. PICK g \in Families : Live(g) /\ k \in hashes[g] /\ inclusion[g] = 0
      BY <2>2, <1>1 DEF RegistryInv, RegistryType, PendingHasObserver
    <3> QED
      BY <3>1, <1>1 DEF RegistryInv, RegistryType, Live
  <2> QED
    BY <2>1, <2>2
<1> QED
  BY <1>3, <1>4, <1>7, <1>8 DEF RegistryInv

\* A family that ends, or is dropped once its transaction is included, leaves no
\* hash unwatched: while it is not resolved it stays live until it is dropped.
LEMMA MoveInv ==
    ASSUME RegistryInv, NEW f \in Families, NEW st \in Stages \ {"none"},
           stage' = [stage EXCEPT ![f] = st], UNCHANGED <<hashes, inclusion, lookup>>,
           st = "gone" => inclusion[f] # 0
    PROVE  RegistryInv' /\ \A h \in Hashes : Reclassified(h)
<1>1. RegistryType'
  BY DEF RegistryInv, RegistryType
<1>2. ASSUME NEW g \in Families PROVE FamilyInv(g)'
  BY DEF RegistryInv, RegistryType, FamilyInv
<1>3. PendingHasObserver'
  <2> SUFFICES ASSUME NEW h \in Hashes, lookup'[h] = Pending
               PROVE  \E g \in Families : Live(g)' /\ h \in hashes'[g] /\ inclusion'[g] = 0
    BY DEF PendingHasObserver
  <2>1. PICK g \in Families : Live(g) /\ h \in hashes[g] /\ inclusion[g] = 0
    BY DEF RegistryInv, PendingHasObserver
  <2> QED
    BY <2>1 DEF RegistryInv, RegistryType, Live, Stages
<1> QED
  BY <1>1, <1>2, <1>3 DEF RegistryInv, Reclassified

LEMMA ObserveInv ==
    ASSUME RegistryInv, Observe
    PROVE  RegistryInv' /\ \A h \in Hashes : Reclassified(h)
<1>1. PICK f \in Families :
        \/ \E s \in Scopes : Admit(f, s)
        \/ \E h \in Hashes : Register(f, h)
        \/ \E h \in Hashes, b \in 1..MaxBlock : ObserveInclusion(f, h, b)
        \/ ObservePending(f)
        \/ ObserveUnavailable(f)
        \/ Exhaust(f)
        \/ Transfer(f)
        \/ Abort(f)
        \/ Drop(f)
  BY DEF Observe
<1>2. /\ Pending \in Lookup /\ Unavailable \in Lookup /\ Exhausted \in Lookup
      /\ 0 \in Blocks /\ \A b \in 1..MaxBlock : b \in Blocks /\ b # 0
      /\ Pending # Untracked /\ Unavailable # Untracked /\ Exhausted # Untracked
      /\ Unavailable # Pending /\ Exhausted # Pending
  BY CacheConstants, Kinds DEF Blocks, Lookup
<1>3. stage = [stage EXCEPT ![f] = stage[f]] /\ stage[f] \in Stages
  BY DEF RegistryInv, RegistryType
<1>4. \A st \in {"guard", "task", "ended", "gone"} : st \in Stages \ {"none"}
  BY DEF Stages
<1>5. CASE \E s \in Scopes : Admit(f, s)
  <2>1. stage' = [stage EXCEPT ![f] = "guard"] /\ UNCHANGED <<hashes, inclusion, lookup>>
    BY <1>5 DEF Admit
  <2> QED
    BY <2>1, <1>4, MoveInv, Zenon
<1>6. CASE \E h \in Hashes : Register(f, h)
  BY <1>6, RegisterInv
<1>7. CASE \E h \in Hashes, b \in 1..MaxBlock : ObserveInclusion(f, h, b)
  <2>1. PICK h \in Hashes, b \in 1..MaxBlock : ObserveInclusion(f, h, b)
    BY <1>7
  <2>2. Update(f, {h}, b, Unavailable) /\ stage' = [stage EXCEPT ![f] = "ended"]
    BY <2>1 DEF ObserveInclusion
  <2> QED
    BY <2>2, <1>2, <1>4, UpdateInv, Zenon
<1>8. CASE ObservePending(f)
  <2>1. Update(f, {}, 0, Pending) /\ stage' = [stage EXCEPT ![f] = stage[f]]
    BY <1>8, <1>3 DEF ObservePending
  <2>2. stage[f] \in {"guard", "task", "ended"}
    BY <1>8 DEF ObservePending, Polling
  <2> QED
    BY <2>1, <2>2, <1>2, <1>4, UpdateInv, Zenon
<1>9. CASE ObserveUnavailable(f)
  <2>1. Update(f, {}, 0, Unavailable) /\ stage' = [stage EXCEPT ![f] = stage[f]]
    BY <1>9, <1>3 DEF ObserveUnavailable
  <2>2. stage[f] \in {"guard", "task", "ended"}
    BY <1>9 DEF ObserveUnavailable, Polling
  <2> QED
    BY <2>1, <2>2, <1>2, <1>4, UpdateInv, Zenon
<1>10. CASE Exhaust(f)
  <2>1. Update(f, {}, 0, Exhausted) /\ stage' = [stage EXCEPT ![f] = "ended"]
    BY <1>10 DEF Exhaust
  <2> QED
    BY <2>1, <1>2, <1>4, UpdateInv, Zenon
<1>11. CASE Transfer(f)
  <2>1. \/ stage' = [stage EXCEPT ![f] = "task"]
        \/ stage' = [stage EXCEPT ![f] = "ended"]
    BY <1>11 DEF Transfer
  <2>2. UNCHANGED <<hashes, inclusion, lookup>>
    BY <1>11 DEF Transfer, registryVars
  <2> QED
    BY <2>1, <2>2, <1>4, MoveInv, Zenon
<1>12. CASE Abort(f)
  <2>1. stage' = [stage EXCEPT ![f] = "ended"] /\ UNCHANGED <<hashes, inclusion, lookup>>
    BY <1>12 DEF Abort, registryVars
  <2> QED
    BY <2>1, <1>4, MoveInv, Zenon
<1>13. CASE Drop(f)
  <2>1. stage' = [stage EXCEPT ![f] = "gone"]
    BY <1>13 DEF Drop
  <2>2. CASE inclusion[f] = 0
    <3>1. Update(f, {}, 0, Unavailable)
      BY <1>13, <2>2 DEF Drop
    <3> QED
      BY <3>1, <2>1, <1>2, <1>4, UpdateInv, Zenon
  <2>3. CASE inclusion[f] # 0
    <3>1. UNCHANGED <<hashes, inclusion, lookup>>
      BY <1>13, <2>3 DEF Drop, registryVars
    <3> QED
      BY <3>1, <2>1, <2>3, <1>4, MoveInv, Zenon
  <2> QED
    BY <2>2, <2>3
<1> QED
  BY <1>1, <1>5, <1>6, <1>7, <1>8, <1>9, <1>10, <1>11, <1>12, <1>13

LEMMA RegistryStep ==
    ASSUME RegistryInv, [Next]_vars
    PROVE  RegistryInv' /\ \A h \in Hashes : Reclassified(h)
<1>1. CASE Observe
  BY <1>1, ObserveInv
<1>2. CASE Manage
  BY <1>2, ManageRegistry, RegistryUnchanged
<1>3. CASE UNCHANGED vars
  BY <1>3, RegistryUnchanged DEF vars
<1> QED
  BY <1>1, <1>2, <1>3 DEF Next

LEMMA RegistryInit == Init => RegistryInv
<1> SUFFICES ASSUME Init PROVE RegistryInv
  OBVIOUS
<1>1. 0 \in Blocks /\ Untracked \in Lookup /\ Untracked # Pending /\ "none" \in Stages
  BY CacheConstants, Kinds DEF Blocks, Lookup, Stages
<1> QED
  BY <1>1 DEF Init, RegistryInv, RegistryType, FamilyInv, PendingHasObserver

LEMMA RegistryAlways == Spec => []RegistryInv
BY RegistryInit, RegistryStep, PTL DEF Spec

\* A hash the tracker classifies as pending is watched by an observer that is
\* neither dropped nor resolved, for any number of families sharing hashes and
\* any interleaving of submission jobs, background tasks, aborts and shutdown.
THEOREM PendingIsWatched == Spec => []PendingHasObserver
BY RegistryAlways, PTL DEF RegistryInv

\* The registry implements TransactionOutcome: no hash is forgotten, pending is
\* only claimed while somebody watches, an exhausted discovery is final.
THEOREM TrackerRefinesOutcome == Spec => ClassifiesAsPromised
<1>1. Init => Outcome!Init
  <2> SUFFICES ASSUME Init PROVE Outcome!Init
    OBVIOUS
  <2>1. Watched = {}
    BY DEF Init, Watched
  <2> QED
    BY <2>1 DEF Init, Outcome!Init, Outcome!Untracked, Untracked
<1>2. RegistryInv /\ RegistryInv' /\ [Next]_vars => [Outcome!Next]_<<lookup, Watched>>
  <2> SUFFICES ASSUME RegistryInv, RegistryInv', [Next]_vars
               PROVE  Outcome!Next
    OBVIOUS
  <2>1. Watched' \in SUBSET Hashes
    BY DEF Watched
  <2>2. DOMAIN lookup' = Hashes
    BY DEF RegistryInv, RegistryType
  <2>3. ASSUME NEW h \in Hashes PROVE Outcome!Reclassify(h)
    <3>1. lookup'[h] = Pending => h \in Watched'
      BY DEF RegistryInv, PendingHasObserver, Watched
    <3>2. Reclassified(h)
      BY RegistryStep
    <3>3. CASE lookup'[h] = lookup[h]
      BY <3>1, <3>3 DEF Outcome!Reclassify, Outcome!Pending, Pending
    <3>4. CASE lookup'[h] = Pending /\ lookup[h] # Exhausted
      BY <3>1, <3>4 DEF Outcome!Reclassify, Outcome!Pending, Outcome!Exhausted, Pending, Exhausted
    <3>5. CASE /\ lookup[h] # Exhausted /\ lookup[h] # Untracked
               /\ lookup'[h] \in Lookup \ {Untracked, Pending}
      <4>1. \/ lookup'[h] \in {Unavailable, Exhausted}
            \/ \E b \in 1..MaxBlock : lookup'[h] = Included(b)
        BY <3>5 DEF Lookup
      <4>2. CASE lookup'[h] \in {Unavailable, Exhausted}
        BY <3>5, <4>2 DEF Outcome!Reclassify, Outcome!Unavailable, Outcome!Exhausted,
           Outcome!Untracked, Unavailable, Exhausted, Untracked
      <4>3. CASE \E b \in 1..MaxBlock : lookup'[h] = Included(b)
        <5>1. PICK b \in 1..MaxBlock : lookup'[h] = Included(b)
          BY <4>3
        <5>2. <<h, b>> \in Hashes \X (1..MaxBlock) /\ <<h, b>>[2] = b
          OBVIOUS
        <5>3. b \in {p[2] : p \in Hashes \X (1..MaxBlock)}
          BY <5>2
        <5>4. lookup'[h] = Outcome!Included(b)
          BY <5>1 DEF Included, Outcome!Included
        <5>5. lookup[h] # Outcome!Untracked /\ lookup[h] # Outcome!Exhausted
          BY <3>5 DEF Untracked, Exhausted, Outcome!Untracked, Outcome!Exhausted
        <5> QED
          BY <5>2, <5>3, <5>4, <5>5 DEF Outcome!Reclassify
      <4> QED
        BY <4>1, <4>2, <4>3
    <3> QED
      BY <3>2, <3>3, <3>4, <3>5 DEF Reclassified
  <2> QED
    BY <2>1, <2>2, <2>3 DEF Outcome!Next
<1> QED
  BY <1>1, <1>2, RegistryAlways, PTL DEF Spec, ClassifiesAsPromised, Outcome!Spec

----------------------------------------------------------------------------
(* The fences of the balance cache                                         *)

CacheType ==
    /\ CacheTypeOK
    /\ famScope \in [Families -> Scopes \cup {NoScope}]
    /\ famNs \in [Families -> NsIds \cup {NoNs}]
    /\ scope \in Scopes \cup {NoScope}
    /\ listed \subseteq Accounts
    /\ root \in {"idle", "scopes", "tracker", "take", "begin"}
    /\ after \in {"idle", "take", "begin"}
    /\ ns.id # NoNs => ns.scope \in Scopes

\* A family that records the current namespace was started, or moved, under its
\* scope: its notifications reach that namespace.
HeldInv(f) ==
    (famNs[f] = ns.id /\ ns.id # NoNs) => famScope[f] = ns.scope /\ stage[f] # "none"

\* The current namespace knows what such a family with attempts has seen: the
\* minimum admits no refresh below its inclusion, its account is pending while
\* it is unresolved, and the account's row is not older than its inclusion.
FencedInv(f) ==
    (famNs[f] = ns.id /\ ns.id # NoNs /\ hashes[f] # {}) =>
       /\ inclusion[f] <= ns.minimum
       /\ inclusion[f] = 0 => AccountOf[f] \in ns.pending
       /\ ns.observed[AccountOf[f]] > 0 => ns.observed[AccountOf[f]] >= inclusion[f]

Settled == root \in {"idle", "take", "begin"}

\* Once the root has handled the wakeups and published, every family of a listed
\* account with attempts records the current namespace.
SyncedInv(f) ==
    (AccountOf[f] \in listed /\ hashes[f] # {} /\ ~wake /\ Settled /\ ns.id # NoNs)
        => famNs[f] = ns.id

\* Tickets differ in their ids, and the one in flight carries the namespace's
\* minimum until the generation moves.
TicketInv ==
    /\ \A t, u \in tickets : t.id = u.id => t = u
    /\ \A t \in tickets : (t.id = ns.active /\ ~ns.moved) => t.minimum = ns.minimum

FenceInv ==
    /\ CacheType
    /\ TicketInv
    /\ \A f \in Families : HeldInv(f) /\ FencedInv(f) /\ SyncedInv(f)

\* A nonempty set of blocks has a highest one.
LEMMA HighestBlock ==
    ASSUME NEW S \in SUBSET Blocks, S # {}
    PROVE  \E b \in S : \A c \in S : c <= b
<1> DEFINE R == OpToRel(<, Nat)
           T == {x \in Nat : MaxBlock - x \in S}
<1>0. MaxBlock \in Nat /\ \A c \in S : c \in 0..MaxBlock
  BY CacheConstants DEF Blocks
<1>1. T # {}
  <2>1. PICK b \in S : TRUE
    OBVIOUS
  <2>2. MaxBlock - b \in Nat /\ MaxBlock - (MaxBlock - b) = b
    BY <1>0, <2>1
  <2>3. MaxBlock - b \in T
    BY <2>2
  <2> QED
    BY <2>3
<1>2. PICK x \in T : \A y \in T : ~(<<y, x>> \in R)
  BY <1>1, NatLessThanWellFounded, WFMin, Zenon
<1>3. \A y \in T : x <= y
  <2> SUFFICES ASSUME NEW y \in T, y < x
               PROVE  FALSE
    OBVIOUS
  <2>1. <<y, x>> \in R
    BY Zenon DEF OpToRel
  <2> QED
    BY <2>1, <1>2, Zenon
<1>4. ASSUME NEW c \in S PROVE c <= MaxBlock - x
  <2>1. MaxBlock - c \in Nat /\ MaxBlock - (MaxBlock - c) = c
    BY <1>0
  <2>2. x <= MaxBlock - c
    BY <2>1, <1>3
  <2> QED
    BY <2>2, <1>0
<1> QED
  BY <1>2, <1>4

\* fence raises the minimum to the inclusion, clears the row and moves the
\* generation, of this account of this scope's namespace only.
LEMMA FenceFacts ==
    ASSUME NEW n \in Namespace, NEW s, NEW a \in Accounts, NEW pending \in BOOLEAN,
           NEW top \in Blocks, NEW queue \in BOOLEAN, NEW m, m = Fence(n, s, a, pending, top, queue)
    PROVE  /\ m \in Namespace
           /\ m.id = n.id /\ m.scope = n.scope /\ m.active = n.active
           /\ m.minimum >= n.minimum
           /\ \A c \in Accounts \ {a} : m.observed[c] = n.observed[c] /\ (c \in m.pending <=> c \in n.pending)
           /\ m = n \/ m.moved = (n.active # NoTicket)
           /\ Matches(n, s) => /\ m.observed[a] = 0
                               /\ m.minimum >= top
                               /\ a \in m.pending <=> pending
           /\ ~Matches(n, s) => m = n
<1>1. CASE ~Matches(n, s)
  <2>1. m = n
    BY <1>1 DEF Fence
  <2>2. n.minimum \in Nat
    BY CacheConstants DEF Namespace, Blocks
  <2> QED
    BY <1>1, <2>1, <2>2
<1>2. CASE Matches(n, s)
  <2>1. m = [n EXCEPT
               !.moved = n.active # NoTicket,
               !.pending = IF pending THEN @ \cup {a} ELSE @ \ {a},
               !.observed = [@ EXCEPT ![a] = 0],
               !.minimum = Higher(@, top),
               !.queued = IF queue THEN @ \cup {a} ELSE @]
    BY <1>2 DEF Fence, Advance, Namespace
  <2>2. n.minimum \in Blocks /\ n.observed \in [Accounts -> Blocks] /\ n.pending \in SUBSET Accounts
         /\ n.queued \in SUBSET Accounts
    BY DEF Namespace
  <2>3. Higher(n.minimum, top) \in Blocks /\ Higher(n.minimum, top) >= n.minimum
        /\ Higher(n.minimum, top) >= top
    BY <2>2, CacheConstants DEF Higher, Blocks
  <2>4. 0 \in Blocks
    BY CacheConstants DEF Blocks
  <2>5. m \in Namespace
    <3> DEFINE p == IF pending THEN n.pending \cup {a} ELSE n.pending \ {a}
               o == [n.observed EXCEPT ![a] = 0]
               q == IF queue THEN n.queued \cup {a} ELSE n.queued
               x == Higher(n.minimum, top)
               v == n.active # NoTicket
    <3>1. p \in SUBSET Accounts /\ q \in SUBSET Accounts /\ v \in BOOLEAN
      BY <2>2
    <3>2. o \in [Accounts -> Blocks] /\ x \in Blocks
      BY <2>2, <2>3, <2>4
    <3>3. m = [n EXCEPT !.moved = v, !.pending = p, !.observed = o, !.minimum = x, !.queued = q]
      BY <2>1
    <3> HIDE DEF p, o, q, x, v
    <3> QED
      BY <3>1, <3>2, <3>3 DEF Namespace
  <2>6. /\ m.id = n.id /\ m.scope = n.scope /\ m.active = n.active
        /\ m.minimum = Higher(n.minimum, top)
        /\ m.observed = [n.observed EXCEPT ![a] = 0]
        /\ m.pending = IF pending THEN n.pending \cup {a} ELSE n.pending \ {a}
        /\ m.moved = (n.active # NoTicket)
    BY <2>1 DEF Namespace
  <2>7. /\ \A c \in Accounts \ {a} : m.observed[c] = n.observed[c] /\ (c \in m.pending <=> c \in n.pending)
        /\ m.observed[a] = 0
        /\ a \in m.pending <=> pending
    BY <2>2, <2>6
  <2> QED
    BY <1>2, <2>3, <2>5, <2>6, <2>7
<1> QED
  BY <1>1, <1>2

\* What invalidate does to namespace n, leaving m.
Invalidated(m, n, s, a, hs, inc) ==
    /\ m \in Namespace
    /\ m.id = n.id /\ m.scope = n.scope /\ m.active = n.active
    /\ m.minimum >= n.minimum
    /\ \A c \in Accounts \ {a} : m.observed[c] = n.observed[c] /\ (c \in m.pending <=> c \in n.pending)
    /\ m = n \/ m.moved = (n.active # NoTicket)
    /\ (Matches(n, s) /\ Mine(a, hs) # {}) =>
          /\ m.observed[a] = 0
          /\ \A f \in Mine(a, hs) : inc[f] <= m.minimum /\ (inc[f] = 0 => a \in m.pending)
    /\ ~Matches(n, s) => m = n

\* invalidate reaches the account's fence with the highest inclusion of all its
\* families with attempts.
LEMMA InvalidateFacts ==
    ASSUME NEW n \in Namespace, NEW s, NEW a \in Accounts, NEW queue \in BOOLEAN,
           NEW hs \in [Families -> SUBSET Hashes], NEW inc \in [Families -> Blocks]
    PROVE  Invalidated(Invalidate(n, s, a, hs, inc, queue), n, s, a, hs, inc)
<1> DEFINE m == Invalidate(n, s, a, hs, inc, queue)
<1> DEFINE mine == Mine(a, hs)
           pending == \E f \in mine : inc[f] = 0
           top == CHOOSE b \in Blocks :
                    /\ \A f \in mine : inc[f] <= b
                    /\ b = 0 \/ \E f \in mine : inc[f] = b
<1>1. CASE mine = {}
  <2>1. m = n
    BY <1>1 DEF Invalidate
  <2>2. n.minimum \in Nat
    BY CacheConstants DEF Namespace, Blocks
  <2> QED
    BY <1>1, <2>1, <2>2 DEF Invalidated
<1>2. CASE mine # {}
  <2>1. mine \subseteq Families
    BY DEF Mine
  <2>2. \E b \in Blocks : /\ \A f \in mine : inc[f] <= b
                          /\ b = 0 \/ \E f \in mine : inc[f] = b
    <3> DEFINE S == {inc[f] : f \in mine}
    <3>1. S \in SUBSET Blocks /\ S # {}
      BY <1>2, <2>1
    <3>2. PICK b \in S : \A c \in S : c <= b
      BY <3>1, HighestBlock
    <3> QED
      BY <3>1, <3>2
  <2>3. top \in Blocks /\ \A f \in mine : inc[f] <= top
    BY <2>2
  <2>4. pending \in BOOLEAN
    OBVIOUS
  <2>5. m = Fence(n, s, a, pending, top, queue)
    BY <1>2 DEF Invalidate
  <2> HIDE DEF top, pending, mine, m
  <2>6. /\ m \in Namespace
        /\ m.id = n.id /\ m.scope = n.scope /\ m.active = n.active
        /\ m.minimum >= n.minimum
        /\ \A c \in Accounts \ {a} : m.observed[c] = n.observed[c] /\ (c \in m.pending <=> c \in n.pending)
        /\ m = n \/ m.moved = (n.active # NoTicket)
        /\ Matches(n, s) => /\ m.observed[a] = 0
                            /\ m.minimum >= top
                            /\ a \in m.pending <=> pending
        /\ ~Matches(n, s) => m = n
    BY <2>3, <2>4, <2>5, FenceFacts
  <2>7. ASSUME Matches(n, s), NEW f \in mine
        PROVE  inc[f] <= m.minimum /\ (inc[f] = 0 => a \in m.pending)
    <3>1. inc[f] \in Nat /\ top \in Nat /\ m.minimum \in Nat
      BY <2>1, <2>3, <2>6, CacheConstants DEF Namespace, Blocks
    <3>2. inc[f] = 0 => pending
      BY DEF pending
    <3> QED
      BY <2>3, <2>6, <2>7, <3>1, <3>2
  <2>8. Invalidated(m, n, s, a, hs, inc)
    BY <2>6, <2>7 DEF mine, Invalidated
  <2> QED
    BY <2>8 DEF m
<1> QED
  BY <1>1, <1>2

\* An observer's report: the namespace its family records is fenced for all the
\* families of its account before anybody sees the new classification.
LEMMA NotifyInv ==
    ASSUME FenceInv, RegistryInv, RegistryInv', NEW f \in Families,
           Notify(f, hashes', inclusion'),
           \A g \in Families \ {f} : hashes'[g] = hashes[g] /\ inclusion'[g] = inclusion[g],
           \A g \in Families : stage[g] # "none" => stage'[g] # "none",
           UNCHANGED <<tickets, famScope, famNs, scope, listed, root, after>>
    PROVE  FenceInv'
<1> DEFINE a == AccountOf[f]
<1>1. /\ ns \in Namespace /\ a \in Accounts /\ TRUE \in BOOLEAN
      /\ hashes' \in [Families -> SUBSET Hashes] /\ inclusion' \in [Families -> Blocks]
      /\ ns' = Invalidate(ns, famScope[f], a, hashes', inclusion', TRUE)
      /\ wake' = TRUE
  BY TrackerConstants DEF FenceInv, CacheType, CacheTypeOK, RegistryInv, RegistryType, Notify
<1> HIDE DEF a
<1>0. Invalidated(ns', ns, famScope[f], a, hashes', inclusion')
  BY <1>1, InvalidateFacts
<1>2. /\ ns' \in Namespace
      /\ ns'.id = ns.id /\ ns'.scope = ns.scope /\ ns'.active = ns.active
      /\ ns'.minimum >= ns.minimum
      /\ \A c \in Accounts \ {a} : ns'.observed[c] = ns.observed[c] /\ (c \in ns'.pending <=> c \in ns.pending)
      /\ ns' = ns \/ ns'.moved = (ns.active # NoTicket)
      /\ (Matches(ns, famScope[f]) /\ Mine(a, hashes') # {}) =>
            /\ ns'.observed[a] = 0
            /\ \A g \in Mine(a, hashes') :
                  inclusion'[g] <= ns'.minimum /\ (inclusion'[g] = 0 => a \in ns'.pending)
      /\ ~Matches(ns, famScope[f]) => ns' = ns
  BY <1>0 DEF Invalidated
<1>3. CacheType'
  <2>1. ns' \in Namespace /\ tickets' \subseteq Ticket /\ (ns'.id # NoNs => ns'.scope \in Scopes)
    BY <1>2 DEF FenceInv, CacheType, CacheTypeOK
  <2> QED
    BY <2>1 DEF FenceInv, CacheType, CacheTypeOK
<1>4. TicketInv'
  <2>1. \A t \in tickets : t.id # NoTicket
    BY CacheConstants DEF FenceInv, CacheType, CacheTypeOK, Ticket
  <2> QED
    BY <1>2, <2>1 DEF FenceInv, TicketInv
<1>5. ASSUME NEW g \in Families PROVE HeldInv(g)'
  BY <1>2 DEF FenceInv, HeldInv
<1>6. ASSUME NEW g \in Families PROVE FencedInv(g)'
  <2> SUFFICES ASSUME famNs[g] = ns.id, ns.id # NoNs, hashes'[g] # {}
               PROVE  /\ inclusion'[g] <= ns'.minimum
                      /\ inclusion'[g] = 0 => AccountOf[g] \in ns'.pending
                      /\ ns'.observed[AccountOf[g]] > 0 => ns'.observed[AccountOf[g]] >= inclusion'[g]
    BY <1>2 DEF FencedInv
  <2>1. AccountOf[g] \in Accounts
    BY TrackerConstants
  <2>2. CASE Matches(ns, famScope[f]) /\ AccountOf[g] = a
    <3>1. g \in Mine(a, hashes')
      BY <2>2 DEF Mine
    <3>2. ns'.observed[a] = 0
      BY <1>2, <2>2, <3>1
    <3> QED
      BY <1>2, <2>2, <3>1, <3>2
  <2>3. CASE ~(Matches(ns, famScope[f]) /\ AccountOf[g] = a)
    <3>1. g # f
      BY <2>3 DEF FenceInv, HeldInv, Matches, a
    <3>2. hashes'[g] = hashes[g] /\ inclusion'[g] = inclusion[g]
      BY <3>1
    <3>3. /\ inclusion[g] <= ns.minimum
          /\ inclusion[g] = 0 => AccountOf[g] \in ns.pending
          /\ ns.observed[AccountOf[g]] > 0 => ns.observed[AccountOf[g]] >= inclusion[g]
      BY <3>2 DEF FenceInv, FencedInv
    <3>4. ns' = ns \/ AccountOf[g] # a
      BY <1>2, <2>3
    <3>5. /\ ns'.observed[AccountOf[g]] = ns.observed[AccountOf[g]]
          /\ AccountOf[g] \in ns.pending => AccountOf[g] \in ns'.pending
      BY <1>2, <2>1, <3>4
    <3>6. inclusion[g] \in Nat /\ ns.minimum \in Nat /\ ns'.minimum \in Nat
      <4>1. inclusion[g] \in Blocks /\ ns.minimum \in Blocks /\ ns'.minimum \in Blocks
        BY <1>1, <1>2 DEF RegistryInv, RegistryType, Namespace
      <4> QED
        BY <4>1, CacheConstants DEF Blocks
    <3>7. inclusion'[g] <= ns'.minimum
      BY <1>2, <3>2, <3>3, <3>6
    <3> QED
      BY <3>2, <3>3, <3>5, <3>7
  <2> QED
    BY <2>2, <2>3
<1>7. ASSUME NEW g \in Families PROVE SyncedInv(g)'
  BY <1>1 DEF SyncedInv
<1> QED
  BY <1>3, <1>4, <1>5, <1>6, <1>7 DEF FenceInv

\* A step that leaves namespace and families alone, and the root where it is or
\* busy publishing.
LEMMA QuietInv ==
    ASSUME FenceInv, UNCHANGED <<ns, tickets, famScope, famNs, hashes, inclusion>>,
           \A g \in Families : stage[g] # "none" => stage'[g] # "none",
           scope' \in Scopes \cup {NoScope}, listed' = listed,
           after' \in {"idle", "take", "begin"},
           \/ root' = root /\ wake' = wake
           \/ root' \in {"scopes", "tracker"}
    PROVE  FenceInv'
<1>1. CacheType'
  BY DEF FenceInv, CacheType, CacheTypeOK
<1>2. TicketInv'
  BY DEF FenceInv, TicketInv
<1>3. ASSUME NEW g \in Families PROVE HeldInv(g)' /\ FencedInv(g)'
  BY DEF FenceInv, HeldInv, FencedInv
<1>4. ASSUME NEW g \in Families PROVE SyncedInv(g)'
  BY DEF FenceInv, SyncedInv, Settled
<1> QED
  BY <1>1, <1>2, <1>3, <1>4 DEF FenceInv

LEMMA UpdateFence ==
    ASSUME FenceInv, RegistryInv, RegistryInv', NEW f \in Families, NEW won, NEW b, NEW other,
           Update(f, won, b, other), UNCHANGED tickets, UNCHANGED rootVars,
           \A g \in Families : stage[g] # "none" => stage'[g] # "none"
    PROVE  FenceInv'
<1>1. /\ hashes' = hashes /\ famScope' = famScope /\ famNs' = famNs
      /\ UNCHANGED <<scope, listed, root, after>>
      /\ \A g \in Families \ {f} : inclusion'[g] = inclusion[g]
  BY DEF Update, rootVars, RegistryInv, RegistryType
<1>2. CASE Notify(f, hashes, inclusion')
  <2>1. Notify(f, hashes', inclusion')
    BY <1>1, <1>2
  <2> QED
    BY <1>1, <2>1, NotifyInv
<1>3. CASE UNCHANGED <<ns, wake, inclusion>>
  <2>1. /\ UNCHANGED <<ns, tickets, famScope, famNs, hashes, inclusion>>
        /\ scope' \in Scopes \cup {NoScope} /\ listed' = listed
        /\ after' \in {"idle", "take", "begin"} /\ root' = root /\ wake' = wake
    BY <1>1, <1>3 DEF FenceInv, CacheType
  <2> QED
    BY <2>1, QuietInv
<1> QED
  BY <1>2, <1>3 DEF Update

LEMMA ObserveFence ==
    ASSUME FenceInv, RegistryInv, Observe
    PROVE  FenceInv'
<1>1. PICK f \in Families :
        \/ \E s \in Scopes : Admit(f, s)
        \/ \E h \in Hashes : Register(f, h)
        \/ \E h \in Hashes, b \in 1..MaxBlock : ObserveInclusion(f, h, b)
        \/ ObservePending(f)
        \/ ObserveUnavailable(f)
        \/ Exhaust(f)
        \/ Transfer(f)
        \/ Abort(f)
        \/ Drop(f)
  BY DEF Observe
<1>2. RegistryInv'
  BY ObserveInv
<1>3. \A g \in Families : stage[g] # "none" => stage'[g] # "none"
  BY <1>1 DEF RegistryInv, RegistryType, Admit, Register, ObserveInclusion, ObservePending,
     ObserveUnavailable, Exhaust, Transfer, Abort, Drop
<1>4. CASE \E s \in Scopes : Admit(f, s)
  <2>1. PICK s \in Scopes : Admit(f, s)
    BY <1>4
  <2>2. /\ UNCHANGED <<ns, tickets, hashes, inclusion, scope, listed, root, after, wake>>
        /\ stage[f] = "none" /\ stage' = [stage EXCEPT ![f] = "guard"]
        /\ famScope' = [famScope EXCEPT ![f] = s]
        /\ famNs' = [famNs EXCEPT ![f] = ScopeIdentity(ns, s)]
    BY <2>1 DEF Admit, rootVars
  <2>3. hashes[f] = {}
    BY <2>2 DEF RegistryInv, FamilyInv
  <2>4. CacheType'
    BY <2>2 DEF FenceInv, CacheType, CacheTypeOK, ScopeIdentity, Namespace
  <2>5. TicketInv'
    BY <2>2 DEF FenceInv, TicketInv
  <2>6. ASSUME NEW g \in Families PROVE HeldInv(g)' /\ FencedInv(g)' /\ SyncedInv(g)'
    <3>1. CASE g = f
      BY <2>2, <2>3, <3>1 DEF FenceInv, CacheType, RegistryInv, RegistryType, HeldInv, FencedInv,
         SyncedInv, ScopeIdentity, Matches
    <3>2. CASE g # f
      <4>1. famNs'[g] = famNs[g] /\ famScope'[g] = famScope[g] /\ stage'[g] = stage[g]
        BY <2>2, <3>2 DEF FenceInv, CacheType, RegistryInv, RegistryType
      <4> QED
        BY <2>2, <4>1 DEF FenceInv, HeldInv, FencedInv, SyncedInv, Settled
    <3> QED
      BY <3>1, <3>2
  <2> QED
    BY <2>4, <2>5, <2>6 DEF FenceInv
<1>5. CASE \E h \in Hashes : Register(f, h)
  <2>1. PICK h \in Hashes : Register(f, h)
    BY <1>5
  <2>2. /\ Notify(f, hashes', inclusion')
        /\ UNCHANGED <<tickets, famScope, famNs, scope, listed, root, after>>
        /\ \A g \in Families \ {f} : hashes'[g] = hashes[g] /\ inclusion'[g] = inclusion[g]
    BY <2>1 DEF Register, rootVars, RegistryInv, RegistryType
  <2> QED
    BY <2>2, <1>2, <1>3, NotifyInv
<1>6. CASE \/ \E h \in Hashes, b \in 1..MaxBlock : ObserveInclusion(f, h, b)
           \/ ObservePending(f) \/ ObserveUnavailable(f) \/ Exhaust(f)
           \/ Drop(f) /\ inclusion[f] = 0
  <2>1. PICK won, b, other : Update(f, won, b, other) /\ UNCHANGED tickets /\ UNCHANGED rootVars
    BY <1>6 DEF ObserveInclusion, ObservePending, ObserveUnavailable, Exhaust, Drop
  <2> QED
    BY <2>1, <1>2, <1>3, UpdateFence
<1>7. CASE Transfer(f) \/ Abort(f) \/ (Drop(f) /\ inclusion[f] # 0)
  <2>1. /\ UNCHANGED <<ns, tickets, famScope, famNs, hashes, inclusion>>
        /\ scope' \in Scopes \cup {NoScope} /\ listed' = listed
        /\ after' \in {"idle", "take", "begin"} /\ root' = root /\ wake' = wake
    BY <1>7 DEF Transfer, Abort, Drop, registryVars, rootVars, FenceInv, CacheType
  <2> QED
    BY <2>1, <1>3, QuietInv
<1> QED
  BY <1>1, <1>4, <1>5, <1>6, <1>7

\* An operation on the cache that keeps identity, scope, pending accounts and
\* minimum, and leaves no row below the minimum that was not there before.
LEMMA CacheStepInv ==
    ASSUME FenceInv, RegistryInv, CacheType', TicketInv',
           UNCHANGED <<stage, famScope, famNs, hashes, inclusion>>,
           ns'.id = ns.id, ns'.scope = ns.scope, ns'.pending = ns.pending,
           ns'.minimum = ns.minimum,
           \A a \in Accounts : \/ ns'.observed[a] \in {0, ns.observed[a]}
                               \/ ns'.observed[a] >= ns.minimum,
           \/ root' \in {"scopes", "tracker"}
           \/ Settled /\ listed' = listed /\ wake' = wake
    PROVE  FenceInv'
<1>1. ASSUME NEW g \in Families PROVE HeldInv(g)'
  BY DEF FenceInv, HeldInv
<1>2. ASSUME NEW g \in Families PROVE FencedInv(g)'
  <2> SUFFICES ASSUME famNs[g] = ns.id, ns.id # NoNs, hashes[g] # {}
               PROVE  /\ inclusion[g] <= ns'.minimum
                      /\ inclusion[g] = 0 => AccountOf[g] \in ns'.pending
                      /\ ns'.observed[AccountOf[g]] > 0 => ns'.observed[AccountOf[g]] >= inclusion[g]
    BY DEF FencedInv
  <2>1. /\ inclusion[g] <= ns.minimum
        /\ inclusion[g] = 0 => AccountOf[g] \in ns.pending
        /\ ns.observed[AccountOf[g]] > 0 => ns.observed[AccountOf[g]] >= inclusion[g]
    BY DEF FenceInv, FencedInv
  <2>2. AccountOf[g] \in Accounts
    BY TrackerConstants
  <2>3. inclusion[g] \in Blocks /\ ns.minimum \in Blocks /\ ns'.observed[AccountOf[g]] \in Blocks
    BY <2>2 DEF RegistryInv, RegistryType, FenceInv, CacheType, CacheTypeOK, Namespace
  <2>4. inclusion[g] \in Nat /\ ns.minimum \in Nat /\ ns'.observed[AccountOf[g]] \in Nat
    BY <2>3, CacheConstants DEF Blocks
  <2>5. \/ ns'.observed[AccountOf[g]] \in {0, ns.observed[AccountOf[g]]}
        \/ ns'.observed[AccountOf[g]] >= ns.minimum
    BY <2>2
  <2> QED
    BY <2>1, <2>4, <2>5
<1>3. ASSUME NEW g \in Families PROVE SyncedInv(g)'
  BY DEF FenceInv, SyncedInv, Settled
<1> QED
  BY <1>1, <1>2, <1>3 DEF FenceInv

\* A new or missing namespace: no family records it yet and no ticket is its own.
LEMMA NewNamespaceInv ==
    ASSUME FenceInv, NEW i \in NsIds \cup {NoNs}, NEW s \in Scopes \cup {NoScope},
           ns' = NewNamespace(i, s), i # NoNs => s \in Scopes,
           i # NoNs => \A f \in Families : famNs[f] # i,
           UNCHANGED <<tickets, famScope, famNs>>,
           scope' \in Scopes \cup {NoScope}, listed' \subseteq Accounts, after' = after,
           root' \in {"scopes", "tracker"}
    PROVE  FenceInv'
<1>1. /\ ns' \in Namespace /\ ns'.id = i /\ ns'.scope = s /\ ns'.active = NoTicket
  BY CacheConstants DEF NewNamespace, Namespace, Blocks
<1>2. CacheType'
  <2>1. CacheTypeOK' /\ (ns'.id # NoNs => ns'.scope \in Scopes)
    BY <1>1 DEF FenceInv, CacheType, CacheTypeOK
  <2> QED
    BY <2>1 DEF FenceInv, CacheType
<1>3. \A t \in tickets : t.id # NoTicket
  BY CacheConstants DEF FenceInv, CacheType, CacheTypeOK, Ticket
<1>4. TicketInv'
  BY <1>1, <1>3 DEF FenceInv, TicketInv
<1>5. ASSUME NEW g \in Families PROVE HeldInv(g)' /\ FencedInv(g)' /\ SyncedInv(g)'
  BY <1>1 DEF HeldInv, FencedInv, SyncedInv, Settled
<1> QED
  BY <1>2, <1>4, <1>5 DEF FenceInv

\* Namespace::start on n, a version of the current namespace with the same
\* minimum, gives a ticket of its own.
LEMMA StartFacts ==
    ASSUME FenceInv, NEW n \in Namespace, n.scope \in Scopes, NEW a \in Accounts,
           NEW others \in SUBSET tickets, Start(n, a, others)
    PROVE  /\ ns' \in Namespace /\ tickets' \subseteq Ticket
           /\ ns'.id = n.id /\ ns'.scope = n.scope /\ ns'.pending = n.pending
           /\ ns'.minimum = n.minimum /\ ns'.observed = n.observed
           /\ ns'.active \in TicketIds
           /\ TicketInv'
<1>1. PICK i \in TicketIds \ {t.id : t \in others} :
        /\ ns' = [n EXCEPT !.active = i, !.moved = FALSE]
        /\ tickets' = others \cup
             {[id |-> i, scope |-> n.scope, account |-> a, minimum |-> n.minimum]}
  BY DEF Start
<1> DEFINE new == [id |-> i, scope |-> n.scope, account |-> a, minimum |-> n.minimum]
<1>2. new \in Ticket /\ new.id = i /\ new.minimum = n.minimum
  BY DEF Ticket, Namespace
<1>3. /\ ns' \in Namespace
      /\ ns'.id = n.id /\ ns'.scope = n.scope /\ ns'.pending = n.pending
      /\ ns'.minimum = n.minimum /\ ns'.observed = n.observed /\ ns'.active = i
  BY <1>1 DEF Namespace
<1>4. tickets \subseteq Ticket
  BY DEF FenceInv, CacheType, CacheTypeOK
<1>5. tickets' = others \cup {new}
  BY <1>1
<1> HIDE DEF new
<1>6. tickets' \subseteq Ticket
  BY <1>2, <1>4, <1>5
<1>7. \A t \in others : t.id # i
  BY <1>1
<1>8. \A t, u \in tickets' : t.id = u.id => t = u
  BY <1>2, <1>5, <1>7 DEF FenceInv, TicketInv
<1>9. \A t \in tickets' : t.id = ns'.active => t.minimum = ns'.minimum
  BY <1>2, <1>3, <1>5, <1>7
<1>10. TicketInv'
  BY <1>8, <1>9 DEF TicketInv
<1> QED
  BY <1>1, <1>3, <1>6, <1>10

\* What reconcile_scope does to namespace n, leaving m.
Reconciled(m, n) ==
    /\ m \in Namespace
    /\ m.id = n.id /\ m.scope = n.scope /\ m.active = n.active /\ m.queued = n.queued
    /\ m.minimum >= n.minimum
    /\ \A a \in Accounts \ Restored :
          m.observed[a] = n.observed[a] /\ (a \in m.pending <=> a \in n.pending)
    /\ \A a \in Restored :
          /\ m.observed[a] = 0
          /\ \A f \in Mine(a, hashes) :
                inclusion[f] <= m.minimum /\ (inclusion[f] = 0 => a \in m.pending)
    /\ m = n \/ m.moved = (n.active # NoTicket)

\* It fences every account it restores, and moves the generation.
LEMMA RefencedFacts ==
    ASSUME RegistryInv, NEW n \in Namespace, n.id # NoNs
    PROVE  Reconciled(Refenced(n), n)
<1> DEFINE m == Refenced(n)
           fenced(a) == Invalidate(n, n.scope, a, hashes, inclusion, FALSE)
           minima == {n.minimum} \cup {fenced(a).minimum : a \in Restored}
           top == CHOOSE b \in minima : \A c \in minima : c <= b
<1>1. n.minimum \in Blocks /\ n.observed \in [Accounts -> Blocks] /\ n.pending \subseteq Accounts
  BY DEF Namespace
<1>2. Blocks \subseteq Nat /\ 0 \in Blocks
  BY CacheConstants DEF Blocks
<1>3. CASE Restored = {}
  <2>1. m = n
    BY <1>3 DEF Refenced
  <2>2. n.minimum >= n.minimum
    <3>1. n.minimum \in Nat
      BY <1>1, <1>2
    <3> QED
      BY <3>1
  <2>3. Reconciled(n, n)
    BY <1>3, <2>2 DEF Reconciled
  <2> QED
    BY <2>1, <2>3
<1>4. CASE Restored # {}
  <2>1. Restored \subseteq Accounts /\ \A a \in Restored : Mine(a, hashes) # {}
    BY DEF Restored
  <2>2. m = [n EXCEPT
               !.moved = n.active # NoTicket,
               !.pending = (@ \ Restored) \cup {a \in Restored : a \in fenced(a).pending},
               !.observed = [a \in Accounts |-> IF a \in Restored THEN 0 ELSE @[a]],
               !.minimum = top]
    BY <1>4 DEF Refenced, Advance, Namespace
  <2>3. Matches(n, n.scope)
    BY DEF Matches
  <2>4. ASSUME NEW a \in Restored PROVE Invalidated(fenced(a), n, n.scope, a, hashes, inclusion)
    <3>1. a \in Accounts /\ FALSE \in BOOLEAN
      BY <2>1
    <3>2. hashes \in [Families -> SUBSET Hashes] /\ inclusion \in [Families -> Blocks]
      BY DEF RegistryInv, RegistryType
    <3> QED
      BY <3>1, <3>2, InvalidateFacts
  <2>5. ASSUME NEW a \in Restored
        PROVE  /\ fenced(a).minimum \in Blocks
               /\ \A f \in Mine(a, hashes) :
                     inclusion[f] <= fenced(a).minimum /\ (inclusion[f] = 0 => a \in fenced(a).pending)
    <3> HIDE DEF fenced
    <3> QED
      BY <2>1, <2>3, <2>4 DEF Invalidated, Namespace
  <2> HIDE DEF fenced
  <2>6. minima \in SUBSET Blocks /\ n.minimum \in minima
    BY <1>1, <2>5
  <2>7. \E b \in minima : \A c \in minima : c <= b
    <3> HIDE DEF minima
    <3> QED
      BY <2>6, HighestBlock
  <2>8. top \in minima /\ \A c \in minima : c <= top
    BY <2>7
  <2>9. top \in Blocks /\ top \in Nat /\ n.minimum <= top
    BY <1>2, <2>6, <2>8
  <2>10. \A a \in Restored : fenced(a).minimum <= top
    BY <2>8
  <2> HIDE DEF top, minima
  <2> DEFINE pen == (n.pending \ Restored) \cup {a \in Restored : a \in fenced(a).pending}
             obs == [a \in Accounts |-> IF a \in Restored THEN 0 ELSE n.observed[a]]
             mov == n.active # NoTicket
  <2>11. m = [n EXCEPT !.moved = mov, !.pending = pen, !.observed = obs, !.minimum = top]
    BY <2>2
  <2>12. pen \in SUBSET Accounts /\ obs \in [Accounts -> Blocks] /\ mov \in BOOLEAN
    BY <1>1, <1>2, <2>1
  <2>13. /\ \A a \in Accounts \ Restored : obs[a] = n.observed[a] /\ (a \in pen <=> a \in n.pending)
         /\ \A a \in Restored : obs[a] = 0
    BY <2>1
  <2>14. ASSUME NEW a \in Restored, NEW f \in Mine(a, hashes)
         PROVE  inclusion[f] <= top /\ (inclusion[f] = 0 => a \in pen)
    <3>1. inclusion[f] <= fenced(a).minimum /\ (inclusion[f] = 0 => a \in fenced(a).pending)
      BY <2>5
    <3>2. inclusion[f] \in Nat /\ fenced(a).minimum \in Nat
      BY <1>2, <2>5 DEF Mine, RegistryInv, RegistryType
    <3> QED
      BY <2>9, <2>10, <3>1, <3>2
  <2> HIDE DEF m, pen, obs
  <2>15. /\ m \in Namespace /\ m.observed = obs /\ m.pending = pen /\ m.minimum = top /\ m.moved = mov
         /\ m.id = n.id /\ m.scope = n.scope /\ m.active = n.active /\ m.queued = n.queued
    BY <2>9, <2>11, <2>12 DEF Namespace
  <2>16. m.minimum >= n.minimum
    BY <1>1, <1>2, <2>9, <2>15
  <2>17. \A a \in Restored : \A f \in Mine(a, hashes) :
           inclusion[f] <= m.minimum /\ (inclusion[f] = 0 => a \in m.pending)
    BY <2>14, <2>15
  <2>18. Reconciled(m, n)
    BY <2>13, <2>15, <2>16, <2>17 DEF Reconciled
  <2> QED
    BY <2>18 DEF m
<1> QED
  BY <1>3, <1>4

LEMMA PublishTrackerInv ==
    ASSUME FenceInv, RegistryInv, PublishTracker
    PROVE  FenceInv'
<1>1. /\ root = "tracker" /\ root' = after /\ after' = "idle"
      /\ UNCHANGED <<tickets, stage, hashes, inclusion, lookup, scope, listed, wake>>
  BY DEF PublishTracker
<1>2. \A t \in tickets : t.id # NoTicket
  BY CacheConstants DEF FenceInv, CacheType, CacheTypeOK, Ticket
<1>3. CASE ns.id = NoNs
  <2>1. UNCHANGED <<ns, famScope, famNs>>
    BY <1>3 DEF PublishTracker
  <2>2. CacheType' /\ TicketInv'
    BY <1>1, <2>1 DEF FenceInv, CacheType, CacheTypeOK, TicketInv
  <2>3. ASSUME NEW g \in Families PROVE HeldInv(g)' /\ FencedInv(g)' /\ SyncedInv(g)'
    BY <1>3, <2>1 DEF HeldInv, FencedInv, SyncedInv
  <2> QED
    BY <2>2, <2>3 DEF FenceInv
<1>4. CASE ns.id # NoNs
  <2>1. /\ ns' = Refenced(ns)
        /\ famScope' = [f \in Families |-> IF Moved(f) THEN ns.scope ELSE famScope[f]]
        /\ famNs' = [f \in Families |-> IF Moved(f) THEN ns.id ELSE famNs[f]]
    BY <1>4 DEF PublishTracker
  <2>2. ns \in Namespace
    BY DEF FenceInv, CacheType, CacheTypeOK
  <2>3. /\ ns' \in Namespace
        /\ ns'.id = ns.id /\ ns'.scope = ns.scope /\ ns'.active = ns.active
        /\ ns'.minimum >= ns.minimum
        /\ \A a \in Accounts \ Restored :
              ns'.observed[a] = ns.observed[a] /\ (a \in ns'.pending <=> a \in ns.pending)
        /\ \A a \in Restored :
              /\ ns'.observed[a] = 0
              /\ \A f \in Mine(a, hashes) :
                    inclusion[f] <= ns'.minimum /\ (inclusion[f] = 0 => a \in ns'.pending)
        /\ ns' = ns \/ ns'.moved = (ns.active # NoTicket)
    <3>1. Reconciled(ns', ns)
      BY <1>4, <2>1, <2>2, RefencedFacts
    <3> QED
      BY <3>1 DEF Reconciled
  <2>4. ns.scope \in Scopes \cup {NoScope} /\ ns.id \in NsIds \cup {NoNs}
    BY <2>2 DEF Namespace
  <2>5. /\ famScope' \in [Families -> Scopes \cup {NoScope}]
        /\ famNs' \in [Families -> NsIds \cup {NoNs}]
    BY <2>1, <2>4 DEF FenceInv, CacheType
  <2>6. CacheType'
    <3>1. CacheTypeOK' /\ (ns'.id # NoNs => ns'.scope \in Scopes)
      BY <1>1, <2>3 DEF FenceInv, CacheType, CacheTypeOK
    <3> QED
      BY <1>1, <2>5, <3>1 DEF FenceInv, CacheType
  <2>7. TicketInv'
    BY <1>1, <1>2, <2>3 DEF FenceInv, TicketInv
  <2>8. ASSUME NEW g \in Families PROVE HeldInv(g)'
    BY <1>1, <2>1, <2>3 DEF FenceInv, HeldInv, Moved
  <2>9. ASSUME NEW g \in Families PROVE FencedInv(g)'
    <3> SUFFICES ASSUME famNs'[g] = ns.id, hashes[g] # {}
                 PROVE  /\ inclusion[g] <= ns'.minimum
                        /\ inclusion[g] = 0 => AccountOf[g] \in ns'.pending
                        /\ ns'.observed[AccountOf[g]] > 0 => ns'.observed[AccountOf[g]] >= inclusion[g]
      BY <1>1, <2>3 DEF FencedInv
    <3>1. AccountOf[g] \in Accounts /\ g \in Mine(AccountOf[g], hashes)
      BY TrackerConstants DEF Mine
    <3>2. CASE AccountOf[g] \in Restored
      <4>1. ns'.observed[AccountOf[g]] = 0
        BY <2>3, <3>2
      <4> QED
        BY <2>3, <3>1, <3>2, <4>1
    <3>3. CASE AccountOf[g] \notin Restored
      <4>1. ~Moved(g)
        BY <3>1, <3>3 DEF Restored
      <4>2. famNs[g] = ns.id
        BY <2>1, <4>1
      <4>3. /\ inclusion[g] <= ns.minimum
            /\ inclusion[g] = 0 => AccountOf[g] \in ns.pending
            /\ ns.observed[AccountOf[g]] > 0 => ns.observed[AccountOf[g]] >= inclusion[g]
        BY <1>4, <4>2 DEF FenceInv, FencedInv
      <4>4. /\ ns'.observed[AccountOf[g]] = ns.observed[AccountOf[g]]
            /\ AccountOf[g] \in ns'.pending <=> AccountOf[g] \in ns.pending
        BY <2>3, <3>1, <3>3
      <4>5. inclusion[g] \in Blocks /\ ns.minimum \in Blocks /\ ns'.minimum \in Blocks
        BY <2>2, <2>3 DEF RegistryInv, RegistryType, Namespace
      <4>6. inclusion[g] <= ns'.minimum
        BY <2>3, <4>3, <4>5, CacheConstants DEF Blocks
      <4> QED
        BY <4>3, <4>4, <4>6
    <3> QED
      BY <3>2, <3>3
  <2>10. ASSUME NEW g \in Families PROVE SyncedInv(g)'
    <3> SUFFICES ASSUME AccountOf[g] \in listed, hashes[g] # {}
                 PROVE  famNs'[g] = ns.id
      BY <1>1, <2>3 DEF SyncedInv
    <3>1. stage[g] # "none"
      BY DEF RegistryInv, FamilyInv
    <3> QED
      BY <2>1, <3>1 DEF Moved
  <2> QED
    BY <2>6, <2>7, <2>8, <2>9, <2>10 DEF FenceInv
<1> QED
  BY <1>3, <1>4

LEMMA PublishScopesInv ==
    ASSUME FenceInv, PublishScopes
    PROVE  FenceInv'
<1>1. /\ root' = "tracker" /\ after' = after
      /\ ReconcileScopes(scope, {famNs[f] : f \in Families})
      /\ UNCHANGED <<tickets, stage, scope, listed, wake, famScope, famNs, hashes, inclusion>>
      /\ scope' \in Scopes \cup {NoScope} /\ listed' \subseteq Accounts
      /\ after' \in {"idle", "take", "begin"}
  BY DEF PublishScopes, registryVars, FenceInv, CacheType
<1>2. CASE ns' = ns
  BY <1>1, <1>2, QuietInv
<1>3. CASE ns' = NoNamespace
  <2>1. ns' = NewNamespace(NoNs, NoScope)
    BY <1>3 DEF NoNamespace
  <2> QED
    BY <1>1, <2>1, NewNamespaceInv, Zenon
<1>4. CASE \E i \in NsIds \ {famNs[f] : f \in Families} :
             ns' = NewNamespace(i, scope) /\ scope # NoScope
  <2>1. PICK i \in NsIds \ {famNs[f] : f \in Families} :
           ns' = NewNamespace(i, scope) /\ scope # NoScope
    BY <1>4
  <2>2. i \in NsIds \cup {NoNs} /\ scope \in Scopes /\ \A f \in Families : famNs[f] # i
    BY <1>1, <2>1
  <2>3. scope \in Scopes \cup {NoScope}
    BY <2>2
  <2> QED
    BY <1>1, <2>1, <2>2, <2>3, NewNamespaceInv, Zenon
<1> QED
  BY <1>1, <1>2, <1>3, <1>4 DEF ReconcileScopes

LEMMA TakeRefreshesInv ==
    ASSUME FenceInv, RegistryInv, TakeRefreshes
    PROVE  FenceInv'
<1>1. /\ root = "take" /\ root' = "idle" /\ Settled
      /\ UNCHANGED <<stage, famScope, famNs, hashes, inclusion, scope, listed, after, wake>>
  BY DEF TakeRefreshes, registryVars, Settled
<1>2. ns \in Namespace
  BY DEF FenceInv, CacheType, CacheTypeOK
<1>3. CASE UNCHANGED cacheVars
  <2>1. ns' = ns /\ tickets' = tickets
    BY <1>3 DEF cacheVars
  <2>2. CacheType' /\ TicketInv'
    BY <1>1, <2>1 DEF FenceInv, CacheType, CacheTypeOK, TicketInv
  <2> QED
    BY <1>1, <2>1, <2>2, CacheStepInv
<1>4. CASE TakeQueued
  <2>1. PICK a \in ns.queued : Start([ns EXCEPT !.queued = @ \ {a}], a, tickets)
    BY <1>4 DEF TakeQueued, StartQueued
  <2> DEFINE n == [ns EXCEPT !.queued = @ \ {a}]
  <2>2. /\ n \in Namespace /\ n.id = ns.id /\ n.scope = ns.scope /\ n.pending = ns.pending
        /\ n.minimum = ns.minimum /\ n.observed = ns.observed /\ a \in Accounts
    BY <1>2 DEF Namespace
  <2>3. n.scope \in Scopes
    BY <1>4, <2>2 DEF TakeQueued, FenceInv, CacheType
  <2> HIDE DEF n
  <2>4. /\ ns' \in Namespace /\ tickets' \subseteq Ticket
        /\ ns'.id = n.id /\ ns'.scope = n.scope /\ ns'.pending = n.pending
        /\ ns'.minimum = n.minimum /\ ns'.observed = n.observed
        /\ TicketInv'
    BY <2>1, <2>2, <2>3, StartFacts DEF n
  <2>5. CacheType'
    BY <1>1, <2>2, <2>3, <2>4 DEF FenceInv, CacheType, CacheTypeOK
  <2> QED
    BY <1>1, <2>2, <2>4, <2>5, CacheStepInv
<1> QED
  BY <1>3, <1>4 DEF TakeRefreshes

LEMMA ScheduleAccountsInv ==
    ASSUME FenceInv, RegistryInv, NEW S \in SUBSET listed, ScheduleAccounts(S)
    PROVE  FenceInv'
<1>1. /\ root' = "scopes" /\ BeginRefresh(scope, S)
      /\ UNCHANGED <<stage, famScope, famNs, hashes, inclusion, scope, listed, after, wake>>
  BY DEF ScheduleAccounts, registryVars
<1>2. ns \in Namespace /\ S \subseteq Accounts /\ ns.id # NoNs /\ ns.scope \in Scopes
  BY <1>1 DEF FenceInv, CacheType, CacheTypeOK, BeginRefresh, Matches
<1>3. CASE ns.active # NoTicket
  <2>1. ns' = [ns EXCEPT !.queued = @ \cup S] /\ tickets' = tickets
    BY <1>1, <1>3 DEF BeginRefresh
  <2>2. /\ ns' \in Namespace /\ ns'.id = ns.id /\ ns'.scope = ns.scope /\ ns'.pending = ns.pending
        /\ ns'.minimum = ns.minimum /\ ns'.observed = ns.observed
        /\ ns'.active = ns.active /\ ns'.moved = ns.moved
    BY <1>2, <2>1 DEF Namespace
  <2>3. CacheType' /\ TicketInv'
    BY <1>1, <2>1, <2>2 DEF FenceInv, CacheType, CacheTypeOK, TicketInv
  <2> QED
    BY <1>1, <2>2, <2>3, CacheStepInv
<1>4. CASE ns.active = NoTicket
  <2>1. PICK a \in S : Start([ns EXCEPT !.queued = (@ \cup S) \ {a}], a, tickets)
    BY <1>1, <1>4 DEF BeginRefresh
  <2> DEFINE n == [ns EXCEPT !.queued = (@ \cup S) \ {a}]
  <2>2. /\ n \in Namespace /\ n.id = ns.id /\ n.scope = ns.scope /\ n.pending = ns.pending
        /\ n.minimum = ns.minimum /\ n.observed = ns.observed /\ a \in Accounts
    BY <1>2 DEF Namespace
  <2> HIDE DEF n
  <2>3. /\ ns' \in Namespace /\ tickets' \subseteq Ticket
        /\ ns'.id = n.id /\ ns'.scope = n.scope /\ ns'.pending = n.pending
        /\ ns'.minimum = n.minimum /\ ns'.observed = n.observed
        /\ TicketInv'
    BY <1>2, <2>1, <2>2, StartFacts DEF n
  <2>4. CacheType'
    BY <1>1, <1>2, <2>2, <2>3 DEF FenceInv, CacheType, CacheTypeOK
  <2> QED
    BY <1>1, <2>2, <2>3, <2>4, CacheStepInv
<1> QED
  BY <1>3, <1>4

\* finish_refresh: an accepted row is at or above the ticket's minimum, which is
\* still the namespace's since the generation has not moved.
LEMMA CompleteInv ==
    ASSUME FenceInv, RegistryInv, NEW t \in tickets, NEW failed \in BOOLEAN, NEW b \in Blocks,
           Complete(t, failed, b)
    PROVE  FenceInv'
<1>1. /\ root' = "scopes" /\ FinishRefresh(t, failed, b)
      /\ UNCHANGED <<stage, famScope, famNs, hashes, inclusion, scope, listed, after, wake>>
  BY DEF Complete, registryVars
<1>2. ns \in Namespace /\ tickets \subseteq Ticket /\ t \in Ticket
  BY DEF FenceInv, CacheType, CacheTypeOK
<1>3. CASE ~Matches(ns, t.scope) \/ ns.active # t.id
  <2>1. ns' = ns /\ tickets' = tickets \ {t}
    BY <1>1, <1>3 DEF FinishRefresh
  <2>2. CacheType' /\ TicketInv'
    BY <1>1, <2>1 DEF FenceInv, CacheType, CacheTypeOK, TicketInv
  <2> QED
    BY <1>1, <2>1, <2>2, CacheStepInv
<1>4. CASE Matches(ns, t.scope) /\ ns.active = t.id
  <2> DEFINE idle == [ns EXCEPT !.active = NoTicket, !.moved = FALSE]
             n == IF Current(ns) THEN Accepted(idle, t, failed, b) ELSE Requeued(idle, t)
  <2>1. FollowUp(n, tickets \ {t})
    BY <1>1, <1>4 DEF FinishRefresh
  <2>2. /\ idle \in Namespace /\ idle.id = ns.id /\ idle.scope = ns.scope /\ idle.pending = ns.pending
        /\ idle.minimum = ns.minimum /\ idle.observed = ns.observed /\ idle.active = NoTicket
        /\ idle.queued = ns.queued /\ ~idle.moved
    BY <1>2 DEF Namespace
  <2>3. t.account \in Accounts /\ t.minimum \in Blocks /\ ns.minimum \in Blocks
    BY <1>2 DEF Ticket, Namespace
  <2>4. 0 \in Blocks /\ Blocks \subseteq Nat
    BY CacheConstants DEF Blocks
  <2> HIDE DEF idle
  <2>5. /\ n \in Namespace /\ n.id = ns.id /\ n.scope = ns.scope /\ n.pending = ns.pending
        /\ n.minimum = ns.minimum /\ n.active = NoTicket
        /\ \A a \in Accounts : \/ n.observed[a] \in {0, ns.observed[a]}
                               \/ n.observed[a] >= ns.minimum
    <3>1. CASE Current(ns)
      <4> DEFINE row == IF failed THEN 0 ELSE RefreshedRow(t, b)
      <4>1. t.minimum = ns.minimum
        BY <1>4, <3>1 DEF FenceInv, TicketInv, Current
      <4>2. row \in Blocks /\ (row = 0 \/ row >= ns.minimum)
        BY <2>3, <2>4, <4>1 DEF RefreshedRow
      <4>3. n = [idle EXCEPT !.observed = [@ EXCEPT ![t.account] = row]]
        BY <3>1 DEF Accepted
      <4> HIDE DEF row, n
      <4>4. /\ n.observed = [idle.observed EXCEPT ![t.account] = row]
            /\ n.id = idle.id /\ n.scope = idle.scope /\ n.pending = idle.pending
            /\ n.minimum = idle.minimum /\ n.active = idle.active
        BY <2>2, <4>3 DEF Namespace
      <4>5. idle.observed \in [Accounts -> Blocks]
        BY <2>2 DEF Namespace
      <4>6. n \in Namespace
        BY <2>2, <2>3, <4>2, <4>3, <4>5 DEF Namespace
      <4>7. \A a \in Accounts : n.observed[a] = IF a = t.account THEN row ELSE ns.observed[a]
        BY <2>2, <4>4, <4>5
      <4> QED
        BY <2>2, <4>2, <4>4, <4>6, <4>7
    <3>2. CASE ~Current(ns)
      <4>1. n = [idle EXCEPT !.queued = @ \cup {t.account}]
        BY <3>2 DEF Requeued
      <4> HIDE DEF n
      <4>2. /\ n \in Namespace /\ n.id = idle.id /\ n.scope = idle.scope /\ n.pending = idle.pending
            /\ n.minimum = idle.minimum /\ n.observed = idle.observed /\ n.active = idle.active
        BY <2>2, <2>3, <4>1 DEF Namespace
      <4> QED
        BY <2>2, <4>2
    <3> QED
      BY <3>1, <3>2
  <2> HIDE DEF n
  <2>6. n.scope \in Scopes
    BY <1>4, <2>5 DEF Matches, FenceInv, CacheType
  <2>7. CASE n.queued = {}
    <3>1. ns' = n /\ tickets' = tickets \ {t}
      BY <2>1, <2>7 DEF FollowUp
    <3>2. \A u \in tickets : u.id # NoTicket
      BY <1>2, CacheConstants DEF Ticket
    <3>3. CacheType' /\ TicketInv'
      BY <1>1, <2>5, <2>6, <3>1, <3>2 DEF FenceInv, CacheType, CacheTypeOK, TicketInv
    <3> QED
      BY <1>1, <2>5, <3>1, <3>3, CacheStepInv
  <2>8. CASE n.queued # {}
    <3>1. PICK a \in n.queued : Start([n EXCEPT !.queued = @ \ {a}], a, tickets \ {t})
      BY <2>1, <2>8 DEF FollowUp, StartQueued
    <3> DEFINE m == [n EXCEPT !.queued = @ \ {a}]
    <3>2. /\ m \in Namespace /\ m.id = n.id /\ m.scope = n.scope /\ m.pending = n.pending
          /\ m.minimum = n.minimum /\ m.observed = n.observed /\ a \in Accounts
      BY <2>5 DEF Namespace
    <3> HIDE DEF m
    <3>3. /\ ns' \in Namespace /\ tickets' \subseteq Ticket
          /\ ns'.id = m.id /\ ns'.scope = m.scope /\ ns'.pending = m.pending
          /\ ns'.minimum = m.minimum /\ ns'.observed = m.observed
          /\ TicketInv'
      BY <2>6, <3>1, <3>2, StartFacts DEF m
    <3>4. CacheType'
      BY <1>1, <2>5, <2>6, <3>2, <3>3 DEF FenceInv, CacheType, CacheTypeOK
    <3> QED
      BY <1>1, <2>5, <3>2, <3>3, <3>4, CacheStepInv
  <2> QED
    BY <2>7, <2>8
<1> QED
  BY <1>3, <1>4

LEMMA ReloadAccountsInv ==
    ASSUME FenceInv, RegistryInv, NEW S \in SUBSET Accounts, ReloadAccounts(S)
    PROVE  FenceInv'
<1>1. /\ ns' = RetainAccounts(ns, S) /\ listed' = S /\ root' = "scopes"
      /\ UNCHANGED <<tickets, stage, famScope, famNs, hashes, inclusion, scope, after, wake>>
  BY DEF ReloadAccounts, registryVars
<1>2. ns \in Namespace
  BY DEF FenceInv, CacheType, CacheTypeOK
<1>3. \A t \in tickets : t.id # NoTicket
  BY CacheConstants DEF FenceInv, CacheType, CacheTypeOK, Ticket
<1>4. /\ ns' \in Namespace /\ ns'.id = ns.id /\ ns'.scope = ns.scope /\ ns'.pending = ns.pending
      /\ ns'.minimum = ns.minimum /\ ns'.active = ns.active
      /\ \A a \in Accounts : ns'.observed[a] \in {0, ns.observed[a]}
      /\ ns' = ns \/ ns'.moved = (ns.active # NoTicket)
  <2>1. CASE ns.id = NoNs
    BY <1>1, <1>2, <2>1 DEF RetainAccounts
  <2>2. CASE ns.id # NoNs
    <3> DEFINE obs == [a \in Accounts |-> IF a \in S THEN ns.observed[a] ELSE 0]
               mov == ns.active # NoTicket
    <3>1. ns' = [ns EXCEPT !.moved = mov, !.observed = obs]
      BY <1>1, <1>2, <2>2 DEF RetainAccounts, Advance, Namespace
    <3>2. obs \in [Accounts -> Blocks] /\ mov \in BOOLEAN
      BY <1>2, CacheConstants DEF Namespace, Blocks
    <3>3. \A a \in Accounts : obs[a] \in {0, ns.observed[a]}
      OBVIOUS
    <3> HIDE DEF obs, mov
    <3>4. /\ ns' \in Namespace /\ ns'.id = ns.id /\ ns'.scope = ns.scope /\ ns'.pending = ns.pending
          /\ ns'.minimum = ns.minimum /\ ns'.active = ns.active
          /\ ns'.observed = obs /\ ns'.moved = mov
      BY <1>2, <3>1, <3>2 DEF Namespace
    <3> QED
      BY <3>3, <3>4 DEF mov
  <2> QED
    BY <2>1, <2>2
<1>5. CacheType' /\ TicketInv'
  BY <1>1, <1>3, <1>4 DEF FenceInv, CacheType, CacheTypeOK, TicketInv
<1> QED
  BY <1>1, <1>4, <1>5, CacheStepInv

LEMMA ManageFence ==
    ASSUME FenceInv, RegistryInv, Manage
    PROVE  FenceInv'
<1>1. /\ scope \in Scopes \cup {NoScope} /\ listed \subseteq Accounts
      /\ after \in {"idle", "take", "begin"}
  BY DEF FenceInv, CacheType
<1>2. stage' = stage /\ hashes' = hashes /\ inclusion' = inclusion
  BY ManageRegistry
<1>3. CASE Close \/ Resume \/ (\E s \in Scopes \cup {NoScope} : ChangeScope(s)) \/ HandleWake
             \/ ScheduleRefresh
  <2>1. /\ UNCHANGED <<ns, tickets, famScope, famNs>>
        /\ scope' \in Scopes \cup {NoScope} /\ listed' = listed
        /\ after' \in {"idle", "take", "begin"}
        /\ \/ root' = root /\ wake' = wake
           \/ root' \in {"scopes", "tracker"}
    BY <1>1, <1>3 DEF Close, Resume, ChangeScope, HandleWake, ScheduleRefresh, registryVars, rootVars
  <2> QED
    BY <1>2, <2>1, QuietInv
<1>4. CASE ClearWallet
  <2>1. /\ ns' = NewNamespace(NoNs, NoScope) /\ scope' = NoScope /\ listed' = {}
        /\ after' = after /\ root' = "scopes"
        /\ UNCHANGED <<tickets, famScope, famNs>>
    BY <1>4 DEF ClearWallet, NoNamespace, registryVars
  <2>2. scope' \in Scopes \cup {NoScope} /\ listed' \subseteq Accounts
    BY <2>1
  <2> QED
    BY <2>1, <2>2, NewNamespaceInv, Zenon
<1>5. CASE \E S \in SUBSET Accounts : ReloadAccounts(S)
  BY <1>5, ReloadAccountsInv
<1>6. CASE PublishScopes
  BY <1>6, PublishScopesInv
<1>7. CASE PublishTracker
  BY <1>7, PublishTrackerInv
<1>8. CASE TakeRefreshes
  BY <1>8, TakeRefreshesInv
<1>9. CASE \E S \in SUBSET listed \ {{}} : ScheduleAccounts(S)
  BY <1>9, ScheduleAccountsInv
<1>10. CASE \E t \in tickets, failed \in BOOLEAN, b \in Blocks : Complete(t, failed, b)
  BY <1>10, CompleteInv
<1> QED
  BY <1>3, <1>4, <1>5, <1>6, <1>7, <1>8, <1>9, <1>10 DEF Manage

LEMMA FenceInit == Init => FenceInv
<1> SUFFICES ASSUME Init PROVE FenceInv
  OBVIOUS
<1>1. ns \in Namespace /\ ns.id = NoNs
  BY CacheConstants DEF Init, NoNamespace, NewNamespace, Namespace, Blocks
<1>2. CacheType
  BY <1>1 DEF Init, CacheType, CacheTypeOK
<1> QED
  BY <1>1, <1>2 DEF Init, FenceInv, TicketInv, HeldInv, FencedInv, SyncedInv

LEMMA FenceStep ==
    ASSUME FenceInv, RegistryInv, [Next]_vars
    PROVE  FenceInv'
<1>1. CASE UNCHANGED vars
  <2>1. /\ UNCHANGED <<ns, tickets, stage, famScope, famNs, hashes, inclusion>>
        /\ scope' \in Scopes \cup {NoScope} /\ listed' = listed
        /\ after' \in {"idle", "take", "begin"} /\ root' = root /\ wake' = wake
    BY <1>1 DEF vars, FenceInv, CacheType
  <2> QED
    BY <2>1, QuietInv
<1> QED
  BY <1>1, ObserveFence, ManageFence DEF Next

LEMMA FenceAlways == Spec => []FenceInv
BY RegistryAlways, FenceInit, FenceStep, PTL DEF Spec

\* The cache never serves, for a listed account, a balance read below the block
\* of an inclusion of the account's transactions or while one is unresolved, for
\* any number of families, accounts, scopes and tickets, whatever refreshes end
\* late and however the root's two publishing calls interleave with observers.
THEOREM BalancesFresh == Spec => []EligibleFresh
<1>1. FenceInv /\ RegistryInv => EligibleFresh
  <2> SUFFICES ASSUME FenceInv, RegistryInv, NEW a \in listed, Eligible(a), ~wake,
                      root \in {"idle", "take", "begin"}, NEW f \in Mine(a, hashes)
               PROVE  inclusion[f] # 0 /\ ns.observed[a] >= inclusion[f]
    BY DEF EligibleFresh
  <2>1. f \in Families /\ AccountOf[f] = a /\ hashes[f] # {}
    BY DEF Mine
  <2>2. ns.id # NoNs /\ a \notin ns.pending /\ ns.observed[a] > 0
    BY DEF Eligible
  <2>3. famNs[f] = ns.id
    BY <2>1, <2>2 DEF FenceInv, SyncedInv, Settled
  <2> QED
    BY <2>1, <2>2, <2>3 DEF FenceInv, FencedInv
<1> QED
  BY <1>1, FenceAlways, RegistryAlways, PTL

----------------------------------------------------------------------------
(* No queued refresh is lost                                               *)

\* The tickets that outlived their namespace stay few, so that a queued refresh
\* can always be admitted when none is in flight; while the root has not yet
\* published another scope, all tickets count as such.
StaleInv ==
    /\ IsFiniteSet(tickets)
    /\ Cardinality({t \in tickets : t.id # ns.active}) <= MaxStale
    /\ ~Matches(ns, scope) =>
         /\ Cardinality(tickets) <= MaxStale
         /\ root = "scopes" \/ ns.id = NoNs

QueueInv == StaleInv /\ RefreshNotLost

Told == wake \/ "take" \in {root, after} \/ skipped

\* A step that admits no ticket and loses no reason to look at the queue.
LEMMA KeepInv ==
    ASSUME QueueInv, ns'.id = ns.id, ns'.scope = ns.scope, ns'.active = ns.active,
           tickets' \subseteq tickets, scope' = scope, root = "scopes" => root' = "scopes",
           ns'.queued = ns.queued \/ ns.active # NoTicket \/ wake',
           ns.id = NoNs \/ ns.queued = {} \/ ns.active # NoTicket \/ (Told => Told')
    PROVE  QueueInv'
<1>1. IsFiniteSet(tickets') /\ Cardinality(tickets') <= Cardinality(tickets)
  BY FS_Subset DEF QueueInv, StaleInv
<1> DEFINE old == {t \in tickets : t.id # ns.active}
           new == {t \in tickets' : t.id # ns'.active}
<1>2. IsFiniteSet(old) /\ new \subseteq old
  BY FS_Subset DEF QueueInv, StaleInv
<1>3. Cardinality(new) <= Cardinality(old)
  BY <1>2, FS_Subset
<1>4. Cardinality(new) \in Nat /\ Cardinality(old) \in Nat
      /\ Cardinality(tickets') \in Nat /\ Cardinality(tickets) \in Nat
  BY <1>1, <1>2, FS_Subset, FS_CardinalityType DEF QueueInv, StaleInv
<1>5. Cardinality(new) <= MaxStale
  BY <1>3, <1>4, CacheConstants DEF QueueInv, StaleInv
<1>6. ~Matches(ns, scope) => Cardinality(tickets') <= MaxStale
  BY <1>1, <1>4, CacheConstants DEF QueueInv, StaleInv
<1>7. StaleInv'
  BY <1>1, <1>5, <1>6 DEF QueueInv, StaleInv, Matches
<1>8. RefreshNotLost'
  BY DEF QueueInv, RefreshNotLost, Told
<1> QED
  BY <1>7, <1>8 DEF QueueInv

\* A new namespace has nothing queued.
LEMMA FreshInv ==
    ASSUME FenceInv, QueueInv, NEW i, NEW s, ns' = NewNamespace(i, s), scope' = s,
           tickets' = tickets, Cardinality(tickets) <= MaxStale
    PROVE  QueueInv'
<1>1. ns'.id = i /\ ns'.scope = s /\ ns'.active = NoTicket /\ ns'.queued = {}
  BY DEF NewNamespace
<1>2. {t \in tickets' : t.id # ns'.active} = tickets
  BY <1>1, CacheConstants DEF FenceInv, CacheType, CacheTypeOK, Ticket
<1>3. StaleInv'
  BY <1>1, <1>2 DEF QueueInv, StaleInv, Matches
<1> QED
  BY <1>1, <1>3 DEF QueueInv, RefreshNotLost

\* An admitted ticket is in flight and the others are stale.
LEMMA AdmitInv ==
    ASSUME QueueInv, NEW n \in Namespace, NEW a, NEW others \in SUBSET tickets, Start(n, a, others),
           n.id = ns.id, n.scope = ns.scope, scope' = scope, Matches(ns, scope),
           others \subseteq {t \in tickets : t.id # ns.active}
    PROVE  QueueInv'
<1>1. PICK i \in TicketIds \ {t.id : t \in others} :
        /\ ns' = [n EXCEPT !.active = i, !.moved = FALSE]
        /\ tickets' = others \cup
             {[id |-> i, scope |-> n.scope, account |-> a, minimum |-> n.minimum]}
  BY DEF Start
<1>2. ns'.active = i /\ ns'.id = ns.id /\ ns'.scope = ns.scope
  BY <1>1 DEF Namespace
<1>3. {t \in tickets' : t.id # ns'.active} = others
  BY <1>1, <1>2
<1> DEFINE old == {t \in tickets : t.id # ns.active}
<1>4. IsFiniteSet(old) /\ IsFiniteSet(others)
  BY FS_Subset DEF QueueInv, StaleInv
<1>5. Cardinality(others) <= Cardinality(old) /\ Cardinality(others) \in Nat /\ Cardinality(old) \in Nat
  BY <1>4, FS_Subset, FS_CardinalityType
<1>6. Cardinality(others) <= MaxStale
  BY <1>5, CacheConstants DEF QueueInv, StaleInv
<1>7. IsFiniteSet(tickets')
  <2>1. PICK x : tickets' = others \cup {x}
    BY <1>1
  <2> QED
    BY <1>4, <2>1, FS_AddElement
<1>8. StaleInv'
  BY <1>2, <1>3, <1>6, <1>7 DEF StaleInv, Matches
<1>9. RefreshNotLost'
  BY <1>2, CacheConstants DEF RefreshNotLost
<1> QED
  BY <1>8, <1>9 DEF QueueInv

\* The observers: a notification wakes the root.
LEMMA ObserveQueue ==
    ASSUME FenceInv, RegistryInv, QueueInv, Observe
    PROVE  QueueInv'
<1>1. /\ UNCHANGED <<tickets, scope, root, after, skipped>>
      /\ \/ ns' = ns /\ wake' = wake
         \/ \E f \in Families : Notify(f, hashes', inclusion')
  <2>1. PICK f \in Families :
          \/ (\E s \in Scopes : Admit(f, s)) \/ Transfer(f) \/ Abort(f)
               \/ (Drop(f) /\ inclusion[f] # 0)
          \/ \E h \in Hashes : Register(f, h)
          \/ (\E h \in Hashes, b \in 1..MaxBlock : ObserveInclusion(f, h, b))
               \/ ObservePending(f) \/ ObserveUnavailable(f) \/ Exhaust(f)
               \/ (Drop(f) /\ inclusion[f] = 0)
    BY DEF Observe
  <2>2. CASE (\E s \in Scopes : Admit(f, s)) \/ Transfer(f) \/ Abort(f)
               \/ (Drop(f) /\ inclusion[f] # 0)
    BY <2>2 DEF Admit, Transfer, Abort, Drop, rootVars
  <2>3. CASE \E h \in Hashes : Register(f, h)
    BY <2>3 DEF Register, rootVars
  <2>4. CASE (\E h \in Hashes, b \in 1..MaxBlock : ObserveInclusion(f, h, b))
               \/ ObservePending(f) \/ ObserveUnavailable(f) \/ Exhaust(f)
               \/ (Drop(f) /\ inclusion[f] = 0)
    <3>1. PICK won, b, other : Update(f, won, b, other) /\ UNCHANGED tickets /\ UNCHANGED rootVars
      BY <2>4 DEF ObserveInclusion, ObservePending, ObserveUnavailable, Exhaust, Drop
    <3>2. hashes' = hashes /\ (Notify(f, hashes, inclusion') \/ UNCHANGED <<ns, wake>>)
      BY <3>1 DEF Update
    <3>3. Notify(f, hashes', inclusion') \/ UNCHANGED <<ns, wake>>
      BY <3>2
    <3> QED
      BY <3>1, <3>3 DEF rootVars
  <2> QED
    BY <2>1, <2>2, <2>3, <2>4
<1>2. CASE ns' = ns /\ wake' = wake
  BY <1>1, <1>2, KeepInv DEF Told
<1>3. CASE \E f \in Families : Notify(f, hashes', inclusion')
  <2>1. PICK f \in Families : Notify(f, hashes', inclusion')
    BY <1>3
  <2>2. RegistryInv'
    BY ObserveInv
  <2>3. /\ ns \in Namespace /\ AccountOf[f] \in Accounts /\ TRUE \in BOOLEAN
        /\ hashes' \in [Families -> SUBSET Hashes] /\ inclusion' \in [Families -> Blocks]
        /\ ns' = Invalidate(ns, famScope[f], AccountOf[f], hashes', inclusion', TRUE)
        /\ wake' = TRUE
    BY <2>1, <2>2, TrackerConstants DEF FenceInv, CacheType, CacheTypeOK, RegistryInv, RegistryType,
       Notify
  <2>4. Invalidated(ns', ns, famScope[f], AccountOf[f], hashes', inclusion')
    BY <2>3, InvalidateFacts
  <2>5. ns'.id = ns.id /\ ns'.scope = ns.scope /\ ns'.active = ns.active
    BY <2>4 DEF Invalidated
  <2>6. Told'
    BY <2>3 DEF Told
  <2> QED
    BY <1>1, <2>3, <2>5, <2>6, KeepInv
<1> QED
  BY <1>1, <1>2, <1>3

LEMMA CompleteQueue ==
    ASSUME FenceInv, QueueInv, NEW t \in tickets, NEW failed \in BOOLEAN, NEW b \in Blocks,
           Complete(t, failed, b)
    PROVE  QueueInv'
<1>1. /\ root = "idle" /\ root' = "scopes" /\ FinishRefresh(t, failed, b)
      /\ UNCHANGED <<scope, after, wake, skipped>>
  BY DEF Complete
<1>2. ns \in Namespace /\ tickets \subseteq Ticket /\ t \in Ticket
  BY DEF FenceInv, CacheType, CacheTypeOK
<1>3. CASE ~Matches(ns, t.scope) \/ ns.active # t.id
  <2>1. ns' = ns /\ tickets' = tickets \ {t}
    BY <1>1, <1>3 DEF FinishRefresh
  <2> QED
    BY <1>1, <2>1, KeepInv DEF Told
<1>4. CASE Matches(ns, t.scope) /\ ns.active = t.id
  <2> DEFINE idle == [ns EXCEPT !.active = NoTicket, !.moved = FALSE]
             n == IF Current(ns) THEN Accepted(idle, t, failed, b) ELSE Requeued(idle, t)
  <2>1. FollowUp(n, tickets \ {t})
    BY <1>1, <1>4 DEF FinishRefresh
  <2>2. ns.id # NoNs /\ Matches(ns, scope)
    BY <1>1, <1>4 DEF Matches, QueueInv, StaleInv
  <2>3. t.account \in Accounts /\ t.minimum \in Nat /\ 0 \in Blocks
    BY <1>2, CacheConstants DEF Ticket, Blocks
  <2>4. n \in Namespace /\ n.id = ns.id /\ n.scope = ns.scope /\ n.active = NoTicket
    <3>1. idle \in Namespace /\ idle.id = ns.id /\ idle.scope = ns.scope /\ idle.active = NoTicket
      BY <1>2 DEF Namespace
    <3> HIDE DEF idle
    <3>2. CASE Current(ns)
      <4> DEFINE row == IF failed THEN 0 ELSE RefreshedRow(t, b)
                 obs == [idle.observed EXCEPT ![t.account] = row]
      <4>1. row \in Blocks
        BY <2>3 DEF RefreshedRow
      <4> HIDE DEF row
      <4>2. obs \in [Accounts -> Blocks]
        BY <3>1, <2>3, <4>1 DEF Namespace
      <4>3. n = [idle EXCEPT !.observed = obs]
        BY <3>2 DEF Accepted, row
      <4> HIDE DEF obs, n
      <4> QED
        BY <3>1, <4>2, <4>3 DEF Namespace
    <3>3. CASE ~Current(ns)
      <4>1. n = [idle EXCEPT !.queued = @ \cup {t.account}]
        BY <3>3 DEF Requeued
      <4> HIDE DEF n
      <4> QED
        BY <2>3, <3>1, <4>1 DEF Namespace
    <3> QED
      BY <3>2, <3>3
  <2>5. tickets \ {t} = {u \in tickets : u.id # ns.active}
    BY <1>4 DEF FenceInv, TicketInv
  <2> HIDE DEF n
  <2>6. CASE n.queued = {}
    <3>1. ns' = n /\ tickets' = tickets \ {t}
      BY <2>1, <2>6 DEF FollowUp
    <3>2. {u \in tickets' : u.id # ns'.active} = tickets \ {t}
      BY <1>2, <2>4, <3>1, CacheConstants DEF Ticket
    <3>3. IsFiniteSet(tickets')
      BY <3>1, FS_RemoveElement DEF QueueInv, StaleInv
    <3>4. StaleInv'
      BY <1>1, <2>2, <2>4, <2>5, <3>1, <3>2, <3>3 DEF QueueInv, StaleInv, Matches
    <3> QED
      BY <2>6, <3>1, <3>4 DEF QueueInv, RefreshNotLost
  <2>7. CASE n.queued # {}
    <3>1. PICK a \in n.queued : Start([n EXCEPT !.queued = @ \ {a}], a, tickets \ {t})
      BY <2>1, <2>7 DEF FollowUp, StartQueued
    <3> DEFINE m == [n EXCEPT !.queued = @ \ {a}]
    <3>2. m \in Namespace /\ m.id = ns.id /\ m.scope = ns.scope
      BY <2>4 DEF Namespace
    <3> HIDE DEF m
    <3>3. Start(m, a, tickets \ {t}) /\ tickets \ {t} \in SUBSET tickets
      BY <3>1 DEF m
    <3> QED
      BY <1>1, <2>2, <2>5, <3>2, <3>3, AdmitInv
  <2> QED
    BY <2>6, <2>7
<1> QED
  BY <1>3, <1>4

\* With no ticket in flight an identity is left, so that the watcher skips the
\* queue only when it has nothing to admit or submissions are closed.
LEMMA TakeQueue ==
    ASSUME FenceInv, QueueInv, TakeRefreshes
    PROVE  QueueInv'
<1>1. /\ root = "take" /\ root' = "idle" /\ skipped' = (skipped \/ closed)
      /\ UNCHANGED <<scope, after, wake>>
  BY DEF TakeRefreshes
<1>2. ns \in Namespace
  BY DEF FenceInv, CacheType, CacheTypeOK
<1>3. ns.active = NoTicket => {t \in tickets : t.id # ns.active} = tickets
  BY CacheConstants DEF FenceInv, CacheType, CacheTypeOK, Ticket
<1>4. CASE UNCHANGED cacheVars /\ (closed \/ ns.id = NoNs \/ ns.active # NoTicket
                                      \/ ns.queued = {} \/ ~TicketLeft)
  <2>1. ns' = ns /\ tickets' = tickets
    BY <1>4 DEF cacheVars
  <2>2. ns.active = NoTicket => TicketLeft
    <3>1. Cardinality(tickets) \in Nat /\ Cardinality(TicketIds) \in Nat
      BY FS_CardinalityType, CacheConstants DEF QueueInv, StaleInv
    <3> QED
      BY <1>3, <3>1, CacheConstants DEF QueueInv, StaleInv, TicketLeft
  <2>3. ns.id = NoNs \/ ns.queued = {} \/ ns.active # NoTicket \/ (Told => Told')
    BY <1>1, <1>4, <2>2 DEF Told
  <2> QED
    BY <1>1, <2>1, <2>3, KeepInv
<1>5. CASE TakeQueued
  <2>1. PICK a \in ns.queued : Start([ns EXCEPT !.queued = @ \ {a}], a, tickets)
    BY <1>5 DEF TakeQueued, StartQueued
  <2> DEFINE n == [ns EXCEPT !.queued = @ \ {a}]
  <2>2. n \in Namespace /\ n.id = ns.id /\ n.scope = ns.scope
    BY <1>2 DEF Namespace
  <2>3. Matches(ns, scope) /\ ns.active = NoTicket
    BY <1>1, <1>5 DEF TakeQueued, QueueInv, StaleInv
  <2> HIDE DEF n
  <2>4. Start(n, a, tickets) /\ tickets \in SUBSET tickets
    BY <2>1 DEF n
  <2> QED
    BY <1>1, <1>3, <2>2, <2>3, <2>4, AdmitInv
<1> QED
  BY <1>4, <1>5 DEF TakeRefreshes

LEMMA ScheduleQueue ==
    ASSUME FenceInv, QueueInv, NEW S \in SUBSET listed, ScheduleAccounts(S)
    PROVE  QueueInv'
<1>1. /\ root = "begin" /\ root' = "scopes" /\ BeginRefresh(scope, S)
      /\ UNCHANGED <<scope, after, wake, skipped>>
  BY DEF ScheduleAccounts
<1>2. ns \in Namespace /\ S \subseteq Accounts /\ Matches(ns, scope)
  BY <1>1 DEF FenceInv, CacheType, CacheTypeOK, BeginRefresh
<1>3. CASE ns.active # NoTicket
  <2>1. ns' = [ns EXCEPT !.queued = @ \cup S] /\ tickets' = tickets
    BY <1>1, <1>3 DEF BeginRefresh
  <2>2. ns'.id = ns.id /\ ns'.scope = ns.scope /\ ns'.active = ns.active
    BY <1>2, <2>1 DEF Namespace
  <2> QED
    BY <1>1, <1>3, <2>1, <2>2, KeepInv
<1>4. CASE ns.active = NoTicket
  <2>1. PICK a \in S : Start([ns EXCEPT !.queued = (@ \cup S) \ {a}], a, tickets)
    BY <1>1, <1>4 DEF BeginRefresh
  <2> DEFINE n == [ns EXCEPT !.queued = (@ \cup S) \ {a}]
  <2>2. n \in Namespace /\ n.id = ns.id /\ n.scope = ns.scope
    BY <1>2 DEF Namespace
  <2>3. tickets \subseteq {t \in tickets : t.id # ns.active}
    BY <1>4, CacheConstants DEF FenceInv, CacheType, CacheTypeOK, Ticket
  <2> HIDE DEF n
  <2>4. Start(n, a, tickets) /\ tickets \in SUBSET tickets
    BY <2>1 DEF n
  <2> QED
    BY <1>1, <1>2, <2>2, <2>3, <2>4, AdmitInv
<1> QED
  BY <1>3, <1>4

\* The root remembers what to do after publishing only while it publishes.
AfterInv == Settled => after = "idle"

LEMMA AfterStep ==
    ASSUME AfterInv, [Next]_vars
    PROVE  AfterInv'
<1>1. CASE Observe
  BY <1>1 DEF AfterInv, Settled, Observe, Admit, Register, ObserveInclusion, ObservePending,
     ObserveUnavailable, Exhaust, Transfer, Abort, Drop, rootVars
<1>2. CASE Manage
  BY <1>2 DEF AfterInv, Settled, Manage, Close, Resume, ChangeScope, ClearWallet, ReloadAccounts,
     HandleWake, PublishScopes, PublishTracker, TakeRefreshes, ScheduleRefresh, ScheduleAccounts,
     Complete, rootVars
<1>3. CASE UNCHANGED vars
  BY <1>3 DEF AfterInv, Settled, vars
<1> QED
  BY <1>1, <1>2, <1>3 DEF Next

LEMMA ManageQueue ==
    ASSUME FenceInv, RegistryInv, AfterInv, QueueInv, Manage
    PROVE  QueueInv'
<1>1. ns \in Namespace
  BY DEF FenceInv, CacheType, CacheTypeOK
<1>2. CASE Close \/ Resume \/ HandleWake \/ ScheduleRefresh
  <2>1. UNCHANGED <<ns, tickets, scope>> /\ (root' = root \/ root' = "scopes")
    BY <1>2 DEF Close, Resume, HandleWake, ScheduleRefresh, rootVars
  <2>2. Told => Told'
    <3>1. CASE Close
      BY <3>1 DEF Close, rootVars, Told
    <3>2. CASE Resume
      BY <3>2 DEF Resume, Told
    <3>3. CASE HandleWake
      BY <3>3 DEF HandleWake, Told
    <3>4. CASE ScheduleRefresh
      BY <3>4 DEF ScheduleRefresh, Told, AfterInv, Settled
    <3> QED
      BY <1>2, <3>1, <3>2, <3>3, <3>4
  <2> QED
    BY <2>1, <2>2, KeepInv
<1>3. CASE \E s \in Scopes \cup {NoScope} : ChangeScope(s)
  <2>1. /\ UNCHANGED <<ns, tickets, after, wake, skipped>>
        /\ root = "idle" /\ root' = "scopes" /\ FewStale
    BY <1>3 DEF ChangeScope
  <2>2. StaleInv'
    BY <2>1 DEF QueueInv, StaleInv, FewStale
  <2>3. RefreshNotLost'
    BY <2>1 DEF QueueInv, RefreshNotLost
  <2> QED
    BY <2>2, <2>3 DEF QueueInv
<1>4. CASE ClearWallet
  <2>1. /\ ns' = NewNamespace(NoNs, NoScope) /\ scope' = NoScope /\ tickets' = tickets
        /\ Cardinality(tickets) <= MaxStale
    BY <1>4 DEF ClearWallet, NoNamespace, FewStale
  <2> QED
    BY <2>1, FreshInv
<1>5. CASE \E S \in SUBSET Accounts : ReloadAccounts(S)
  <2>1. PICK S \in SUBSET Accounts : ReloadAccounts(S)
    BY <1>5
  <2>2. /\ ns' = RetainAccounts(ns, S) /\ root = "idle" /\ root' = "scopes"
        /\ UNCHANGED <<tickets, scope, after, wake, skipped>>
    BY <2>1 DEF ReloadAccounts
  <2>3. ns'.id = ns.id /\ ns'.scope = ns.scope /\ ns'.active = ns.active /\ ns'.queued = ns.queued
    BY <1>1, <2>2 DEF RetainAccounts, Advance, Namespace
  <2>4. Told => Told'
    BY <2>2 DEF Told
  <2> QED
    BY <2>2, <2>3, <2>4, KeepInv
<1>6. CASE PublishScopes
  <2>1. /\ root = "scopes" /\ root' = "tracker"
        /\ ReconcileScopes(scope, {famNs[f] : f \in Families})
        /\ UNCHANGED <<tickets, scope, after, wake, skipped>>
    BY <1>6 DEF PublishScopes
  <2>2. CASE Matches(ns, scope)
    <3>1. ns' = ns
      BY <2>1, <2>2 DEF ReconcileScopes
    <3>2. StaleInv'
      BY <2>1, <2>2, <3>1 DEF QueueInv, StaleInv
    <3> QED
      BY <2>1, <3>1, <3>2 DEF QueueInv, RefreshNotLost
  <2>3. CASE ~Matches(ns, scope)
    <3>1. PICK i : ns' = NewNamespace(i, scope)
      BY <2>1, <2>3 DEF ReconcileScopes, NoNamespace
    <3>2. Cardinality(tickets) <= MaxStale
      BY <2>3 DEF QueueInv, StaleInv
    <3> QED
      BY <2>1, <3>1, <3>2, FreshInv
  <2> QED
    BY <2>2, <2>3
<1>7. CASE PublishTracker
  <2>1. /\ root = "tracker" /\ root' = after /\ after' = "idle"
        /\ UNCHANGED <<tickets, scope, wake, skipped>>
    BY <1>7 DEF PublishTracker
  <2>2. ns'.id = ns.id /\ ns'.scope = ns.scope /\ ns'.active = ns.active /\ ns'.queued = ns.queued
    <3>1. CASE ns.id = NoNs
      BY <1>7, <3>1 DEF PublishTracker
    <3>2. CASE ns.id # NoNs
      <4>1. Reconciled(ns', ns)
        BY <1>1, <1>7, <3>2, RefencedFacts DEF PublishTracker
      <4> QED
        BY <4>1 DEF Reconciled
    <3> QED
      BY <3>1, <3>2
  <2>3. Told => Told'
    BY <2>1 DEF Told
  <2> QED
    BY <2>1, <2>2, <2>3, KeepInv
<1>8. CASE TakeRefreshes
  BY <1>8, TakeQueue
<1>9. CASE \E S \in SUBSET listed \ {{}} : ScheduleAccounts(S)
  BY <1>9, ScheduleQueue
<1>10. CASE \E t \in tickets, failed \in BOOLEAN, b \in Blocks : Complete(t, failed, b)
  BY <1>10, CompleteQueue
<1> QED
  BY <1>2, <1>3, <1>4, <1>5, <1>6, <1>7, <1>8, <1>9, <1>10 DEF Manage

\* A refresh queued behind a fence is never forgotten: with no ticket in flight
\* the root has been told of it, whatever tickets outlived their namespace, as
\* long as these leave one identity for another.
THEOREM QueuedRefreshKept == Spec => []RefreshNotLost
<1>1. Init => QueueInv
  <2> SUFFICES ASSUME Init PROVE QueueInv
    OBVIOUS
  <2>1. tickets = {} /\ ns.id = NoNs
    BY DEF Init, NoNamespace, NewNamespace
  <2>2. {t \in tickets : t.id # ns.active} = {}
    BY <2>1
  <2> QED
    BY <2>1, <2>2, FS_EmptySet, CacheConstants DEF QueueInv, StaleInv, RefreshNotLost
<1>2. FenceInv /\ RegistryInv /\ AfterInv /\ QueueInv /\ [Next]_vars => QueueInv'
  <2> SUFFICES ASSUME FenceInv, RegistryInv, AfterInv, QueueInv, [Next]_vars
               PROVE  QueueInv'
    OBVIOUS
  <2>1. CASE UNCHANGED vars
    BY <2>1 DEF vars, QueueInv, StaleInv, RefreshNotLost, Matches
  <2> QED
    BY <2>1, ObserveQueue, ManageQueue DEF Next
<1>3. QueueInv => RefreshNotLost
  BY DEF QueueInv
<1>4. Init => AfterInv
  BY DEF Init, AfterInv
<1> QED
  BY <1>1, <1>2, <1>3, <1>4, AfterStep, FenceAlways, RegistryAlways, PTL DEF Spec
=============================================================================
