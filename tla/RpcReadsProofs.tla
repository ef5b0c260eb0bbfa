--------------------------- MODULE RpcReadsProofs ---------------------------
(***************************************************************************)
(* The broker's reads: what is reused of earlier ones (ReadCache) and the  *)
(* order in which the others get to read (ReadyScheduler).                 *)
(***************************************************************************)
EXTENDS ReadCache, ReadyScheduler, FiniteSetTheorems, SequenceTheorems,
        WellFoundedInduction, TLAPS

-----------------------------------------------------------------------------
(* Reuse of latest reads is sound for every number of chains, reads and    *)
(* heads, every lease, cache limit and generation width.                   *)
(*                                                                         *)
(* NoStaleHit and NoStaleJoin are not inductive: they say nothing of a     *)
(* head that is unusable or expired now and renewed later.  The invariant  *)
(* below adds where every epoch in use stands with respect to the recorded *)
(* head: it is the current one, or the head is beyond it for good.         *)

\* The head's (height, generation) is past epoch e for good; a disabled
\* generation counts as last.
BeyondEpoch(e, h) ==
    \/ h.block > e.block
    \/ h.block = e.block /\ (h.generation = None \/ h.generation > e.generation)

\* An epoch handed out under head h, or under an earlier state of it.
Behind(e, h) == h # None /\ (e = EpochOf(h) \/ BeyondEpoch(e, h))

\* The invariant over a cache hd, en, the work in flight and the history.
HeadsTyped(hd) == hd \in [Chains -> HeadObservation \cup {None}]
EntriesCurrent(hd, en) ==
    \A r \in DOMAIN en : r \in LatestReads =>
        /\ EpochOf(hd[ChainOf[r]]) # None
        /\ en[r] = EpochOf(hd[ChainOf[r]]).block
StaleEntriesExpired(hd, sE) ==
    \A r \in sE : r \in LatestReads => Expired(hd[ChainOf[r]])
WorkBehind(hd, work) ==
    \A w \in work : w.epoch # None =>
        w.read \in LatestReads /\ Behind(w.epoch, hd[ChainOf[w.read]])
StaleWorkExpired(hd, sW) ==
    \A w \in sW : w.epoch # None /\ w.epoch = EpochOf(hd[ChainOf[w.read]])
                    => Expired(hd[ChainOf[w.read]])

Consistent(hd, en, work, sE, sW) ==
    /\ HeadsTyped(hd)
    /\ DOMAIN en \subseteq Reads
    /\ work \subseteq WorkKey
    /\ sW \subseteq work
    /\ sE \subseteq DOMAIN en
    /\ EntriesCurrent(hd, en)
    /\ StaleEntriesExpired(hd, sE)
    /\ WorkBehind(hd, work)
    /\ StaleWorkExpired(hd, sW)

\* The inductive invariant.
IInv ==
    /\ pending \subseteq Reads
    /\ Consistent(head, entries, inflight, staleEntries, staleWork)

-----------------------------------------------------------------------------
(* Single heads *)

\* Invalidating leaves no current epoch and puts every used epoch behind.
LEMMA InvalidatedFacts ==
    ASSUME NEW h \in HeadObservation
    PROVE  /\ Invalidated(h) \in HeadObservation
           /\ EpochOf(Invalidated(h)) = None
           /\ Invalidated(h).age = h.age
           /\ \A e \in LatestEpoch : Behind(e, h) => BeyondEpoch(e, Invalidated(h))
<1>0. h # None /\ None \notin HeadObservation /\ None \notin LatestEpoch /\ None \notin Nat
  BY NoneAssumption DEF HeadObservation, LatestEpoch, Generations
<1>1. CASE h.usable
  <2> DEFINE g == IF h.generation # None /\ h.generation < MaxGeneration
                  THEN h.generation + 1 ELSE None
  <2>1. g \in Generations \cup {None}
    BY <1>0, CacheAssumption DEF HeadObservation, Generations
  <2>2. Invalidated(h) = [h EXCEPT !.usable = FALSE, !.generation = g]
    BY <1>0, <1>1 DEF Invalidated
  <2>3. /\ Invalidated(h) \in HeadObservation
        /\ Invalidated(h).usable = FALSE
        /\ Invalidated(h).age = h.age
        /\ Invalidated(h).block = h.block
        /\ Invalidated(h).generation = g
    BY <2>1, <2>2 DEF HeadObservation
  <2>4. ASSUME NEW e \in LatestEpoch, Behind(e, h)
        PROVE  BeyondEpoch(e, Invalidated(h))
    BY <1>0, <1>1, <2>3, <2>4, CacheAssumption
       DEF Behind, BeyondEpoch, EpochOf, LatestEpoch, HeadObservation, Generations
  <2> QED BY <2>3, <2>4 DEF EpochOf
<1>2. CASE ~h.usable
  BY <1>0, <1>2 DEF Invalidated, Behind, EpochOf
<1> QED BY <1>1, <1>2

\* Renewing keeps a current epoch current and a retired epoch behind.
LEMMA RenewedFacts ==
    ASSUME NEW h \in HeadObservation
    PROVE  /\ Renewed(h) \in HeadObservation
           /\ ~Expired(Renewed(h))
           /\ EpochOf(h) # None => EpochOf(Renewed(h)) = EpochOf(h)
           /\ \A e \in LatestEpoch : Behind(e, h) => Behind(e, Renewed(h))
           /\ \A e \in LatestEpoch : BeyondEpoch(e, h) => e # EpochOf(Renewed(h))
<1>0. h # None /\ None \notin HeadObservation /\ None \notin LatestEpoch /\ None \notin Nat
  BY NoneAssumption DEF HeadObservation, LatestEpoch, Generations
<1>1. /\ Renewed(h) \in HeadObservation
      /\ Renewed(h).age = 0
      /\ Renewed(h).block = h.block
      /\ Renewed(h).generation = h.generation
      /\ Renewed(h).usable = (h.generation # None)
  <2>0. 0 \in 0 .. Lease + 1 BY CacheAssumption
  <2>1. CASE h.generation = None
    <3>1. Renewed(h) = [h EXCEPT !.age = 0, !.usable = FALSE] BY <2>1 DEF Renewed
    <3> QED BY <2>0, <2>1, <3>1 DEF HeadObservation
  <2>2. CASE h.generation # None
    <3>1. Renewed(h) = [h EXCEPT !.age = 0, !.usable = TRUE] BY <2>2 DEF Renewed
    <3> QED BY <2>0, <2>2, <3>1 DEF HeadObservation
  <2> QED BY <2>1, <2>2
<1>2. ~Expired(Renewed(h)) BY <1>1, CacheAssumption DEF Expired
<1>3. EpochOf(h) # None => EpochOf(Renewed(h)) = EpochOf(h)
  BY <1>0, <1>1 DEF EpochOf
<1>4. ASSUME NEW e \in LatestEpoch, BeyondEpoch(e, h)
      PROVE  BeyondEpoch(e, Renewed(h)) /\ e # EpochOf(Renewed(h))
  <2>1. BeyondEpoch(e, Renewed(h))
    BY <1>1, <1>4 DEF BeyondEpoch
  <2>2. e.generation \in Generations /\ h.generation \in Generations \cup {None}
    BY DEF LatestEpoch, HeadObservation
  <2>3. ASSUME EpochOf(Renewed(h)) # None
        PROVE  e # EpochOf(Renewed(h))
    <3>1. /\ EpochOf(Renewed(h)).block = h.block
          /\ EpochOf(Renewed(h)).generation = h.generation
          /\ h.generation # None
      BY <1>1, <2>3 DEF EpochOf
    <3>2. e.block \in Nat /\ h.block \in Nat
      BY CacheAssumption DEF LatestEpoch, HeadObservation
    <3> QED BY <1>4, <2>2, <3>1, <3>2, CacheAssumption DEF BeyondEpoch, Generations
  <2> QED BY <1>0, <2>1, <2>3
<1> QED BY <1>0, <1>1, <1>2, <1>3, <1>4 DEF Behind

\* A newer head puts every used epoch behind.
LEMMA NewHeadFacts ==
    ASSUME NEW b \in Blocks
    PROVE  /\ NewHead(b) \in HeadObservation
           /\ \A h \in HeadObservation, e \in LatestEpoch :
                 Behind(e, h) /\ b > h.block => BeyondEpoch(e, NewHead(b))
                                                  /\ e # EpochOf(NewHead(b))
<1>0. None \notin HeadObservation /\ None \notin LatestEpoch /\ None \notin Nat
  BY NoneAssumption DEF HeadObservation, LatestEpoch, Generations
<1>1. NewHead(b) \in HeadObservation
  BY CacheAssumption DEF NewHead, HeadObservation, Generations
<1>2. ASSUME NEW h \in HeadObservation, NEW e \in LatestEpoch, Behind(e, h), b > h.block
      PROVE  BeyondEpoch(e, NewHead(b)) /\ e # EpochOf(NewHead(b))
  <2>1. e.block \in Nat /\ h.block \in Nat /\ b \in Nat
    BY CacheAssumption DEF LatestEpoch, HeadObservation
  <2>2. e.block <= h.block
    BY <1>0, <1>2, <2>1 DEF Behind, BeyondEpoch, EpochOf
  <2>3. NewHead(b).block = b /\ EpochOf(NewHead(b)).block = b
    BY <1>0, <1>1 DEF NewHead, EpochOf
  <2> QED BY <1>2, <2>1, <2>2, <2>3 DEF BeyondEpoch
<1> QED BY <1>1, <1>2

\* What a typed head can be, and what None is not.
LEMMA HeadCases ==
    ASSUME NEW hd, HeadsTyped(hd), NEW c \in Chains
    PROVE  /\ hd[c] = None \/ hd[c] \in HeadObservation
           /\ None \notin HeadObservation
           /\ None \notin LatestEpoch
BY NoneAssumption DEF HeadsTyped, HeadObservation, LatestEpoch, Generations

-----------------------------------------------------------------------------
(* The cache as a whole *)

\* invalidate_head on a set of chains, with its evictions, keeps the cache
\* consistent whatever work of those chains is now held to be stale.
LEMMA InvalidateConsistent ==
    ASSUME NEW hd, NEW en, NEW work, NEW sE, NEW sW, NEW sW2,
           NEW cs \in SUBSET Chains, NEW hd2, NEW gone,
           hd2 = [c \in Chains |-> IF c \in cs THEN Invalidated(hd[c]) ELSE hd[c]],
           gone = {r \in LatestReads : ChainOf[r] \in cs},
           Consistent(hd, en, work, sE, sW),
           sW2 \subseteq work,
           \A w \in sW2 \ sW : w.read \in LatestReads => ChainOf[w.read] \in cs
    PROVE  Consistent(hd2, Without(en, gone), work, sE \ gone, sW2)
<1> DEFINE en2 == Without(en, gone)
<1>1. HeadsTyped(hd) BY DEF Consistent
<1>2. \A c \in Chains : hd2[c] = IF c \in cs THEN Invalidated(hd[c]) ELSE hd[c]
  OBVIOUS
<1>3. ASSUME NEW c \in cs
      PROVE  /\ hd2[c] \in HeadObservation \cup {None}
             /\ EpochOf(hd2[c]) = None
             /\ \A e \in LatestEpoch : Behind(e, hd[c]) => Behind(e, hd2[c])
  <2>1. CASE hd[c] = None
    BY <1>2, <2>1 DEF Invalidated, EpochOf, Behind
  <2>2. CASE hd[c] \in HeadObservation
    BY <1>1, <1>2, <2>2, HeadCases, InvalidatedFacts DEF Behind
  <2> QED BY <1>1, <2>1, <2>2, HeadCases
<1>4. HeadsTyped(hd2)
  BY <1>1, <1>2, <1>3 DEF HeadsTyped
<1>5. /\ DOMAIN en2 = DOMAIN en \ gone
      /\ \A r \in DOMAIN en2 : en2[r] = en[r]
  BY DEF Without, Restrict
<1>6. \A r \in Reads : ChainOf[r] \in Chains
  BY CacheAssumption DEF Reads
<1>7. EntriesCurrent(hd2, en2)
  BY <1>2, <1>5, <1>6 DEF Consistent, EntriesCurrent
<1>8. StaleEntriesExpired(hd2, sE \ gone)
  BY <1>2, <1>6 DEF Consistent, StaleEntriesExpired
<1>9. \A w \in work : w.read \in Reads /\ w.epoch \in LatestEpoch \cup {None}
  BY DEF Consistent, WorkKey
<1>10. WorkBehind(hd2, work)
  BY <1>2, <1>3, <1>6, <1>9 DEF Consistent, WorkBehind
<1>11. StaleWorkExpired(hd2, sW2)
  BY <1>2, <1>3, <1>6, <1>9 DEF Consistent, StaleWorkExpired, WorkBehind
<1>12. DOMAIN en2 \subseteq Reads /\ (sE \ gone) \subseteq DOMAIN en2
  BY <1>5 DEF Consistent
<1> HIDE DEF en2
<1>13. Consistent(hd2, en2, work, sE \ gone, sW2)
  BY <1>4, <1>7, <1>8, <1>10, <1>11, <1>12 DEF Consistent
<1> QED BY <1>13 DEF en2

\* renew_head keeps the cache consistent if the lease has not run out or the
\* head was invalidated first.
LEMMA RenewConsistent ==
    ASSUME NEW hd, NEW en, NEW work, NEW sE, NEW sW, NEW c \in Chains,
           Consistent(hd, en, work, sE, sW),
           hd[c] \in HeadObservation,
           ~Expired(hd[c]) \/ EpochOf(hd[c]) = None
    PROVE  Consistent([hd EXCEPT ![c] = Renewed(hd[c])], en, work, sE, sW)
<1> DEFINE hd2 == [hd EXCEPT ![c] = Renewed(hd[c])]
<1>1. HeadsTyped(hd) BY DEF Consistent
<1>2. \A d \in Chains : hd2[d] = IF d = c THEN Renewed(hd[c]) ELSE hd[d]
  BY <1>1 DEF HeadsTyped
<1>3. HeadsTyped(hd2)
  BY <1>1, RenewedFacts DEF HeadsTyped
<1>4. hd[c] # None /\ None \notin LatestEpoch
  BY <1>1, HeadCases
<1>5. \A r \in Reads : ChainOf[r] \in Chains
  BY CacheAssumption DEF Reads
<1>6. \A w \in work : w.read \in Reads /\ w.epoch \in LatestEpoch \cup {None}
  BY DEF Consistent, WorkKey
<1>7. EntriesCurrent(hd2, en)
  BY <1>2, <1>5, RenewedFacts DEF Consistent, EntriesCurrent
<1>8. StaleEntriesExpired(hd2, sE)
  BY <1>2, <1>5 DEF Consistent, EntriesCurrent, StaleEntriesExpired
<1>9. WorkBehind(hd2, work)
  BY <1>2, <1>5, <1>6, RenewedFacts DEF Consistent, WorkBehind
<1>10. StaleWorkExpired(hd2, sW)
  <2> SUFFICES ASSUME NEW w \in sW, w.epoch # None,
                      w.epoch = EpochOf(hd2[ChainOf[w.read]])
               PROVE  Expired(hd2[ChainOf[w.read]])
    BY DEF StaleWorkExpired
  <2>1. w \in work /\ w.read \in LatestReads /\ w.epoch \in LatestEpoch
    BY <1>6 DEF Consistent, WorkBehind
  <2>2. CASE ChainOf[w.read] # c
    BY <1>2, <1>5, <1>6, <2>1, <2>2 DEF Consistent, StaleWorkExpired
  <2>3. CASE ChainOf[w.read] = c
    <3>1. Behind(w.epoch, hd[c])
      BY <2>1, <2>3 DEF Consistent, WorkBehind
    <3>2. w.epoch = EpochOf(hd[c])
      BY <1>2, <2>1, <2>3, <3>1, RenewedFacts DEF Behind
    <3> QED BY <2>1, <2>3, <3>2 DEF Consistent, StaleWorkExpired
  <2> QED BY <2>2, <2>3
<1> HIDE DEF hd2
<1>11. Consistent(hd2, en, work, sE, sW)
  BY <1>3, <1>7, <1>8, <1>9, <1>10 DEF Consistent
<1> QED BY <1>11 DEF hd2

\* A first or newer head, with its evictions, keeps the cache consistent.
LEMMA AdvanceConsistent ==
    ASSUME NEW hd, NEW en, NEW work, NEW sE, NEW sW, NEW sW2,
           NEW c \in Chains, NEW b \in Blocks,
           Consistent(hd, en, work, sE, sW),
           hd[c] # None => b > hd[c].block,
           sW2 \subseteq work,
           \A w \in sW2 \ sW : w.read \in LatestOf(c)
    PROVE  Consistent([hd EXCEPT ![c] = NewHead(b)], Without(en, LatestOf(c)), work,
                      sE \ LatestOf(c), sW2)
<1> DEFINE hd2 == [hd EXCEPT ![c] = NewHead(b)]
           en2 == Without(en, LatestOf(c))
<1>1. HeadsTyped(hd) BY DEF Consistent
<1>2. \A d \in Chains : hd2[d] = IF d = c THEN NewHead(b) ELSE hd[d]
  BY <1>1 DEF HeadsTyped
<1>3. HeadsTyped(hd2)
  BY <1>1, NewHeadFacts DEF HeadsTyped
<1>4. /\ DOMAIN en2 = DOMAIN en \ LatestOf(c)
      /\ \A r \in DOMAIN en2 : en2[r] = en[r]
  BY DEF Without, Restrict
<1>5. \A r \in Reads : ChainOf[r] \in Chains
  BY CacheAssumption DEF Reads
<1>6. \A w \in work : w.read \in Reads /\ w.epoch \in LatestEpoch \cup {None}
  BY DEF Consistent, WorkKey
<1>7. EntriesCurrent(hd2, en2)
  BY <1>2, <1>4, <1>5 DEF Consistent, EntriesCurrent, LatestOf
<1>8. StaleEntriesExpired(hd2, sE \ LatestOf(c))
  BY <1>2, <1>5 DEF Consistent, StaleEntriesExpired, LatestOf, Reads
<1>9. ASSUME NEW e \in LatestEpoch, Behind(e, hd[c])
      PROVE  Behind(e, hd2[c]) /\ e # EpochOf(hd2[c])
  <2>1. hd[c] \in HeadObservation /\ None \notin HeadObservation
    BY <1>1, <1>9, HeadCases DEF Behind
  <2>2. hd2[c] = NewHead(b) /\ NewHead(b) # None
    BY <1>2, <2>1, NewHeadFacts
  <2> QED BY <1>9, <2>1, <2>2, NewHeadFacts DEF Behind
<1>10. WorkBehind(hd2, work)
  BY <1>2, <1>5, <1>6, <1>9 DEF Consistent, WorkBehind
<1>11. StaleWorkExpired(hd2, sW2)
  BY <1>2, <1>5, <1>6, <1>9 DEF Consistent, StaleWorkExpired, WorkBehind, LatestOf
<1>12. DOMAIN en2 \subseteq Reads /\ (sE \ LatestOf(c)) \subseteq DOMAIN en2
  BY <1>4 DEF Consistent
<1> HIDE DEF hd2, en2
<1>13. Consistent(hd2, en2, work, sE \ LatestOf(c), sW2)
  BY <1>3, <1>7, <1>8, <1>10, <1>11, <1>12 DEF Consistent
<1> QED BY <1>13 DEF hd2, en2

\* A flush keeps the cache consistent: it only invalidates heads that outlived
\* their lease and sends reads under the epochs that are current.
LEMMA FlushConsistent ==
    ASSUME NEW hd, NEW en, NEW od, NEW sE, NEW sW,
           pending \subseteq Reads,
           Consistent(hd, en, inflight, sE, sW),
           Flush(hd, en, od, sE, sW)
    PROVE  IInv'
<1> DEFINE cs == {c \in Chains : pending \cap LatestOf(c) # {} /\ Expired(hd[c])}
           gone == {r \in LatestReads : ChainOf[r] \in cs}
           hd2 == [c \in Chains |-> IF c \in cs THEN Invalidated(hd[c]) ELSE hd[c]]
           en2 == Without(en, gone)
           new == {KeyFor(r, hd2[ChainOf[r]]) :
                     r \in {x \in pending : ~Lookup(x, en2, hd2[ChainOf[x]])}}
<1>1. \A r \in Reads : ChainOf[r] \in Chains
  BY CacheAssumption DEF Reads
<1>2. Reconciled(hd) = hd2
  BY DEF Reconciled
<1>3. ReconcileEvicts(hd) = gone
  BY <1>1 DEF ReconcileEvicts, Reads
<1>4. /\ head' = hd2
      /\ entries' = en2
      /\ inflight' = inflight \cup new
      /\ pending' = {}
      /\ staleEntries' = sE \ gone
      /\ staleWork' = sW
      /\ CanFlush
  BY <1>2, <1>3 DEF Flush
<1>5. Consistent(hd2, en2, inflight, sE \ gone, sW)
  <2>1. sW \subseteq inflight BY DEF Consistent
  <2>2. cs \in SUBSET Chains OBVIOUS
  <2>3. \A w \in sW \ sW : w.read \in LatestReads => ChainOf[w.read] \in cs
    OBVIOUS
  <2>4. /\ hd2 = [c \in Chains |-> IF c \in cs THEN Invalidated(hd[c]) ELSE hd[c]]
        /\ gone = {r \in LatestReads : ChainOf[r] \in cs}
    OBVIOUS
  <2> HIDE DEF cs, hd2, gone
  <2> QED BY <2>1, <2>2, <2>3, <2>4, InvalidateConsistent
<1> HIDE DEF hd2, en2, gone, cs
<1>6. HeadsTyped(hd2) BY <1>5 DEF Consistent
<1>7. ASSUME NEW k \in new
      PROVE  /\ k \in WorkKey
             /\ k.epoch # None => k.read \in LatestReads /\ Behind(k.epoch, hd2[ChainOf[k.read]])
  <2>1. PICK r \in pending : k = KeyFor(r, hd2[ChainOf[r]])
    OBVIOUS
  <2>2. r \in Reads /\ ChainOf[r] \in Chains
    BY <1>1
  <2> DEFINE h == hd2[ChainOf[r]]
  <2>3. EpochOf(h) \in LatestEpoch \cup {None} /\ (EpochOf(h) # None => h # None)
    BY <1>6, <2>2, HeadCases DEF EpochOf, LatestEpoch, HeadObservation
  <2>4. 0 \in 0 .. MaxUnshared BY CacheAssumption
  <2>5. CASE r \in PinnedReads
    <3>1. k = [read |-> r, epoch |-> None, nonce |-> 0]
      BY <2>1, <2>5 DEF KeyFor
    <3> QED BY <2>2, <2>4, <3>1 DEF WorkKey
  <2>6. CASE r \notin PinnedReads /\ EpochOf(h) # None
    <3>1. k = [read |-> r, epoch |-> EpochOf(h), nonce |-> 0]
      BY <2>1, <2>6 DEF KeyFor
    <3>2. k \in WorkKey
      BY <2>2, <2>3, <2>4, <3>1 DEF WorkKey
    <3> QED BY <2>2, <2>3, <2>6, <3>1, <3>2 DEF Behind, Reads
  <2>7. CASE r \notin PinnedReads /\ EpochOf(h) = None
    <3> DEFINE P(n) == [read |-> r, epoch |-> None, nonce |-> n] \notin inflight
               m == CHOOSE n \in 1 .. MaxUnshared : P(n)
    <3>1. k = [read |-> r, epoch |-> None, nonce |-> m]
      BY <2>1, <2>7 DEF KeyFor
    <3>2. \E n \in 1 .. MaxUnshared : P(n)
      BY <1>4, <2>2, <2>7 DEF CanFlush, Reads
    <3>3. m \in 1 .. MaxUnshared
      BY <3>2
    <3> HIDE DEF m
    <3>4. m \in 0 .. MaxUnshared BY <3>3, CacheAssumption
    <3> QED BY <2>2, <3>1, <3>4 DEF WorkKey
  <2> QED BY <2>5, <2>6, <2>7
<1> HIDE DEF new
<1>8. WorkBehind(hd2, inflight \cup new) /\ (inflight \cup new) \subseteq WorkKey
  BY <1>5, <1>7 DEF Consistent, WorkBehind
<1>9. Consistent(hd2, en2, inflight \cup new, sE \ gone, sW)
  BY <1>5, <1>8 DEF Consistent
<1> QED BY <1>4, <1>9 DEF IInv

-----------------------------------------------------------------------------
(* The specification *)

LEMMA InitConsistent == Init => IInv
BY DEF Init, IInv, Consistent, HeadsTyped, EntriesCurrent, StaleEntriesExpired,
       WorkBehind, StaleWorkExpired

\* insert, then the eviction of the oldest entry, whatever that entry is.
LEMMA InsertFacts ==
    ASSUME NEW r, NEW v, Insert(r, v)
    PROVE  /\ DOMAIN entries' \subseteq DOMAIN entries \cup {r}
           /\ \A x \in DOMAIN entries' : entries'[x] = IF x = r THEN v ELSE entries[x]
BY DEF Insert

\* Every step keeps the invariant.
LEMMA NextConsistent == IInv /\ [Next]_vars => IInv'
<1> SUFFICES ASSUME IInv, [Next]_vars PROVE IInv'
  OBVIOUS
<1>0. /\ Consistent(head, entries, inflight, staleEntries, staleWork)
      /\ pending \subseteq Reads
      /\ HeadsTyped(head)
  BY DEF IInv, Consistent
<1>1. \A r \in Reads : ChainOf[r] \in Chains
  BY CacheAssumption DEF Reads
<1>2. ASSUME NEW r \in Reads, Submit(r) PROVE IInv'
  BY <1>2 DEF IInv, Submit
<1>3. CASE TimerFlush
  BY <1>0, <1>3, FlushConsistent DEF TimerFlush
<1>4. ASSUME NEW c \in Chains, NEW b \in Blocks, HeadAdvanced(c, b) PROVE IInv'
  <2> DEFINE sW2 == staleWork \cup LatestWork(c)
  <2>1. sW2 \subseteq inflight /\ \A w \in sW2 \ staleWork : w.read \in LatestOf(c)
    BY <1>0 DEF Consistent, LatestWork
  <2>2. head[c] # None => b > head[c].block
    BY <1>4 DEF HeadAdvanced
  <2>3. Flush([head EXCEPT ![c] = NewHead(b)], Without(entries, LatestOf(c)),
              OrderWithout(order, LatestOf(c)), staleEntries \ LatestOf(c), sW2)
    BY <1>4 DEF HeadAdvanced
  <2> HIDE DEF sW2
  <2>4. Consistent([head EXCEPT ![c] = NewHead(b)], Without(entries, LatestOf(c)), inflight,
                   staleEntries \ LatestOf(c), sW2)
    BY <1>0, <2>1, <2>2, AdvanceConsistent
  <2> QED BY <1>0, <2>3, <2>4, FlushConsistent
<1>5. ASSUME NEW c \in Chains, Invalidate(c) PROVE IInv'
  <2> DEFINE sW2 == staleWork \cup LatestWork(c)
             hd2 == [d \in Chains |-> IF d \in {c} THEN Invalidated(head[d]) ELSE head[d]]
  <2>1. sW2 \subseteq inflight /\ \A w \in sW2 \ staleWork : w.read \in LatestOf(c)
    BY <1>0 DEF Consistent, LatestWork
  <2>2. [head EXCEPT ![c] = Invalidated(head[c])] = hd2
    BY <1>0 DEF HeadsTyped
  <2>3. LatestOf(c) = {r \in LatestReads : ChainOf[r] \in {c}}
    BY DEF LatestOf
  <2>4. Flush(hd2, Without(entries, LatestOf(c)),
              OrderWithout(order, LatestOf(c)), staleEntries \ LatestOf(c), sW2)
    BY <1>5, <2>2 DEF Invalidate
  <2> HIDE DEF sW2
  <2>5. Consistent(hd2, Without(entries, LatestOf(c)), inflight, staleEntries \ LatestOf(c), sW2)
    <3>1. {c} \in SUBSET Chains OBVIOUS
    <3>2. \A w \in sW2 \ staleWork : w.read \in LatestReads => ChainOf[w.read] \in {c}
      BY <2>1, <2>3
    <3>3. hd2 = [d \in Chains |-> IF d \in {c} THEN Invalidated(head[d]) ELSE head[d]]
      OBVIOUS
    <3> HIDE DEF hd2
    <3> QED BY <1>0, <2>1, <2>3, <3>1, <3>2, <3>3, InvalidateConsistent
  <2> HIDE DEF hd2
  <2> QED BY <1>0, <2>4, <2>5, FlushConsistent
<1>6. ASSUME NEW c \in Chains, HeadRepeated(c) PROVE IInv'
  <2>0. head[c] \in HeadObservation
    BY <1>0, <1>6, HeadCases DEF HeadRepeated
  <2>1. CASE ~Expired(head[c])
    <3>1. Flush([head EXCEPT ![c] = Renewed(head[c])], Without(entries, {}),
                OrderWithout(order, {}), staleEntries \ {}, staleWork)
      BY <1>6, <2>1 DEF HeadRepeated
    <3>2. DOMAIN Without(entries, {}) = DOMAIN entries
          /\ \A r \in DOMAIN entries : Without(entries, {})[r] = entries[r]
      BY DEF Without, Restrict
    <3>3. Consistent(head, Without(entries, {}), inflight, staleEntries \ {}, staleWork)
      BY <1>0, <3>2 DEF Consistent, EntriesCurrent
    <3>4. Consistent([head EXCEPT ![c] = Renewed(head[c])], Without(entries, {}), inflight,
                     staleEntries \ {}, staleWork)
      BY <2>0, <2>1, <3>3, RenewConsistent
    <3> QED BY <1>0, <3>1, <3>4, FlushConsistent
  <2>2. CASE Expired(head[c])
    <3> DEFINE hd2 == [d \in Chains |-> IF d \in {c} THEN Invalidated(head[d]) ELSE head[d]]
               en2 == Without(entries, LatestOf(c))
    <3>1. [head EXCEPT ![c] = Renewed(Invalidated(head[c]))]
            = [hd2 EXCEPT ![c] = Renewed(hd2[c])]
      BY <1>0 DEF HeadsTyped
    <3>2. Flush([hd2 EXCEPT ![c] = Renewed(hd2[c])], en2,
                OrderWithout(order, LatestOf(c)), staleEntries \ LatestOf(c), staleWork)
      BY <1>6, <2>2, <3>1 DEF HeadRepeated
    <3>3. LatestOf(c) = {r \in LatestReads : ChainOf[r] \in {c}}
      BY DEF LatestOf
    <3>4. Consistent(hd2, en2, inflight, staleEntries \ LatestOf(c), staleWork)
      <4> DEFINE gone == LatestOf(c)
                 cs == {c}
      <4>1. cs \in SUBSET Chains OBVIOUS
      <4>2. \A w \in staleWork \ staleWork : w.read \in LatestReads => ChainOf[w.read] \in cs
        OBVIOUS
      <4>3. staleWork \subseteq inflight BY <1>0 DEF Consistent
      <4>4. hd2 = [d \in Chains |-> IF d \in cs THEN Invalidated(head[d]) ELSE head[d]]
        OBVIOUS
      <4>5. gone = {r \in LatestReads : ChainOf[r] \in cs} BY <3>3
      <4> HIDE DEF hd2, gone, cs
      <4>6. Consistent(hd2, Without(entries, gone), inflight, staleEntries \ gone, staleWork)
        BY <1>0, <4>1, <4>2, <4>3, <4>4, <4>5, InvalidateConsistent
      <4> QED BY <4>6 DEF gone
    <3>5. hd2[c] \in HeadObservation /\ EpochOf(hd2[c]) = None
      BY <2>0, InvalidatedFacts
    <3> HIDE DEF hd2, en2
    <3>6. Consistent([hd2 EXCEPT ![c] = Renewed(hd2[c])], en2, inflight,
                     staleEntries \ LatestOf(c), staleWork)
      BY <3>4, <3>5, RenewConsistent
    <3> QED BY <1>0, <3>2, <3>6, FlushConsistent
  <2> QED BY <2>1, <2>2
<1>7. ASSUME NEW w \in inflight, CompleteErr(w) PROVE IInv'
  BY <1>7 DEF CompleteErr, IInv, Consistent, WorkBehind, StaleWorkExpired
<1>8. ASSUME NEW w \in inflight, CompletePinned(w) PROVE IInv'
  <2>1. /\ head' = head /\ pending' = pending /\ staleWork' = staleWork \ {w}
        /\ inflight' = inflight \ {w} /\ w.read \in Reads /\ w.read \notin LatestReads
        /\ Insert(w.read, 0)
        /\ staleEntries' = staleEntries \cap DOMAIN entries'
    BY <1>8, CacheAssumption DEF CompletePinned, Reads
  <2>2. /\ DOMAIN entries' \subseteq DOMAIN entries \cup {w.read}
        /\ \A x \in DOMAIN entries' : entries'[x] = IF x = w.read THEN 0 ELSE entries[x]
    BY <2>1, InsertFacts
  <2>3. DOMAIN entries' \subseteq Reads /\ EntriesCurrent(head, entries')
    BY <1>0, <2>1, <2>2 DEF Consistent, EntriesCurrent
  <2>4. Consistent(head, entries', inflight', staleEntries', staleWork')
    BY <1>0, <2>1, <2>3 DEF Consistent, StaleEntriesExpired, WorkBehind, StaleWorkExpired
  <2> QED BY <1>0, <2>1, <2>4 DEF IInv
<1>9. ASSUME NEW w \in inflight, CompleteLatest(w) PROVE IInv'
  <2> DEFINE c == ChainOf[w.read]
             gone == IF Expired(head[c]) THEN LatestOf(c) ELSE {}
             h == IF Expired(head[c]) THEN Invalidated(head[c]) ELSE head[c]
  <2>1. /\ w.read \in LatestReads
        /\ inflight' = inflight \ {w}
        /\ staleWork' = staleWork \ {w}
        /\ head' = [head EXCEPT ![c] = h]
        /\ pending' = pending
    BY <1>9 DEF CompleteLatest
  <2>2. w.read \in Reads /\ c \in Chains
    BY <1>1, <2>1 DEF Reads
  <2>3. CASE LatestIsCurrent(w, h)
    <3>1. ~Expired(head[c])
      <4> SUFFICES ASSUME Expired(head[c]) PROVE FALSE
        OBVIOUS
      <4>1. head[c] \in HeadObservation
        BY <1>0, <2>2, HeadCases DEF Expired
      <4>2. EpochOf(h) = None
        BY <4>1, InvalidatedFacts
      <4> QED BY <2>3, <4>2 DEF LatestIsCurrent
    <3>2. h = head[c] /\ head' = head
      BY <1>0, <2>1, <2>2, <3>1 DEF HeadsTyped
    <3>3. w.epoch # None /\ w.epoch = EpochOf(head[c]) /\ w \notin staleWork
      BY <1>0, <2>3, <3>1, <3>2 DEF LatestIsCurrent, Consistent, StaleWorkExpired
    <3>4. /\ Insert(w.read, EpochOf(head[c]).block)
          /\ staleEntries' = (staleEntries \cup {}) \cap DOMAIN entries'
      BY <1>9, <2>3, <3>2, <3>3 DEF CompleteLatest
    <3>5. /\ DOMAIN entries' \subseteq DOMAIN entries \cup {w.read}
          /\ \A x \in DOMAIN entries' :
                entries'[x] = IF x = w.read THEN EpochOf(head[c]).block ELSE entries[x]
      BY <3>4, InsertFacts
    <3>6. DOMAIN entries' \subseteq Reads /\ EntriesCurrent(head, entries')
      BY <1>0, <2>2, <3>3, <3>5 DEF Consistent, EntriesCurrent
    <3>7. Consistent(head, entries', inflight', staleEntries', staleWork')
      BY <1>0, <2>1, <3>4, <3>6 DEF Consistent, StaleEntriesExpired, WorkBehind, StaleWorkExpired
    <3> QED BY <1>0, <2>1, <3>2, <3>7 DEF IInv
  <2>4. CASE ~LatestIsCurrent(w, h)
    <3>1. entries' = Without(entries, gone) /\ staleEntries' = staleEntries \ gone
      BY <1>9, <2>4 DEF CompleteLatest
    <3> DEFINE cs == IF Expired(head[c]) THEN {c} ELSE {}
               hd2 == [d \in Chains |-> IF d \in cs THEN Invalidated(head[d]) ELSE head[d]]
    <3>2. head' = hd2
      BY <1>0, <2>1, <2>2 DEF HeadsTyped
    <3>3. gone = {r \in LatestReads : ChainOf[r] \in cs}
      BY DEF LatestOf
    <3>4. Consistent(hd2, Without(entries, gone), inflight, staleEntries \ gone, staleWork)
      <4>1. cs \in SUBSET Chains BY <2>2
      <4>2. \A x \in staleWork \ staleWork : x.read \in LatestReads => ChainOf[x.read] \in cs
        OBVIOUS
      <4>3. staleWork \subseteq inflight BY <1>0 DEF Consistent
      <4>4. hd2 = [d \in Chains |-> IF d \in cs THEN Invalidated(head[d]) ELSE head[d]]
        OBVIOUS
      <4> HIDE DEF cs, gone, hd2
      <4> QED BY <1>0, <3>3, <4>1, <4>2, <4>3, <4>4, InvalidateConsistent
    <3> HIDE DEF hd2, gone
    <3>5. Consistent(hd2, Without(entries, gone), inflight \ {w}, staleEntries \ gone,
                     staleWork \ {w})
      BY <3>4 DEF Consistent, WorkBehind, StaleWorkExpired
    <3> QED BY <1>0, <2>1, <3>1, <3>2, <3>5 DEF IInv
  <2> QED BY <2>3, <2>4
<1>10. CASE Tick
  <2> DEFINE lapses == {c \in Chains : head[c] # None /\ head[c].age = Lease}
             disturbed == UNION {LatestOf(c) : c \in lapses}
             Older(h) == [h EXCEPT !.age = @ + 1]
  <2>1. /\ entries' = entries /\ pending' = pending /\ inflight' = inflight
        /\ staleWork' = staleWork \cup {w \in inflight : w.read \in disturbed}
        /\ staleEntries' = staleEntries \cup (disturbed \cap DOMAIN entries)
        /\ \A c \in Chains : head'[c] = IF head[c] # None /\ head[c].age <= Lease
                                        THEN Older(head[c]) ELSE head[c]
        /\ head' = [c \in Chains |-> head'[c]]
    BY <1>10 DEF Tick
  <2>2. ASSUME NEW c \in Chains
        PROVE  /\ head'[c] \in HeadObservation \cup {None}
               /\ EpochOf(head'[c]) = EpochOf(head[c])
               /\ Expired(head[c]) => Expired(head'[c])
               /\ c \in lapses => Expired(head'[c])
               /\ \A e \in LatestEpoch : Behind(e, head[c]) => Behind(e, head'[c])
    <3>1. CASE head[c] = None
      BY <2>1, <3>1 DEF Expired
    <3>2. CASE head[c] \in HeadObservation /\ head[c].age > Lease
      <4>1. head'[c] = head[c]
        BY <2>1, <3>2, CacheAssumption DEF HeadObservation
      <4> QED BY <3>2, <4>1, CacheAssumption DEF HeadObservation
    <3>3. CASE head[c] \in HeadObservation /\ head[c].age <= Lease
      <4>1. head[c] # None /\ None \notin HeadObservation
        BY <1>0, <3>3, HeadCases
      <4>2. head'[c] = Older(head[c])
        BY <2>1, <3>3, <4>1
      <4>3. head[c].age \in 0 .. Lease + 1 BY <3>3 DEF HeadObservation
      <4>4. head[c].age + 1 \in 0 .. Lease + 1
        BY <3>3, <4>3, CacheAssumption
      <4>5. /\ head'[c] \in HeadObservation
            /\ head'[c].block = head[c].block
            /\ head'[c].usable = head[c].usable
            /\ head'[c].generation = head[c].generation
            /\ head'[c].age = head[c].age + 1
        BY <3>3, <4>2, <4>4 DEF HeadObservation
      <4>6. EpochOf(head'[c]) = EpochOf(head[c])
        BY <4>1, <4>5 DEF EpochOf
      <4>7. \A e \in LatestEpoch : Behind(e, head[c]) => Behind(e, head'[c])
        BY <4>1, <4>5, <4>6 DEF Behind, BeyondEpoch
      <4>8. ~Expired(head[c]) /\ (c \in lapses => Expired(head'[c]))
        BY <3>3, <4>1, <4>3, <4>5, CacheAssumption DEF Expired
      <4> QED BY <4>5, <4>6, <4>7, <4>8
    <3>4. head[c] \in HeadObservation => head[c].age > Lease \/ head[c].age <= Lease
      BY CacheAssumption DEF HeadObservation
    <3> QED BY <1>0, <3>1, <3>2, <3>3, <3>4, HeadCases
  <2>3. \A r \in disturbed : r \in LatestReads /\ ChainOf[r] \in lapses
    BY DEF LatestOf
  <2> HIDE DEF lapses, disturbed
  <2>4. HeadsTyped(head')
    BY <2>1, <2>2 DEF HeadsTyped
  <2>5. EntriesCurrent(head', entries)
    BY <1>0, <1>1, <2>2 DEF Consistent, EntriesCurrent
  <2>6. StaleEntriesExpired(head', staleEntries')
    BY <1>0, <1>1, <2>1, <2>2, <2>3 DEF Consistent, StaleEntriesExpired, Reads
  <2>7. \A w \in inflight : w.read \in Reads /\ w.epoch \in LatestEpoch \cup {None}
    BY <1>0 DEF Consistent, WorkKey
  <2>8. WorkBehind(head', inflight)
    BY <1>0, <1>1, <2>2, <2>7 DEF Consistent, WorkBehind
  <2>9. StaleWorkExpired(head', staleWork')
    BY <1>0, <1>1, <2>1, <2>2, <2>3, <2>7 DEF Consistent, StaleWorkExpired
  <2>10. staleWork' \subseteq inflight /\ staleEntries' \subseteq DOMAIN entries
    BY <1>0, <2>1 DEF Consistent
  <2> QED BY <1>0, <2>1, <2>4, <2>5, <2>6, <2>8, <2>9, <2>10 DEF IInv, Consistent
<1>11. CASE UNCHANGED vars
  BY <1>11 DEF vars, IInv
<1> QED BY <1>2, <1>3, <1>4, <1>5, <1>6, <1>7, <1>8, <1>9, <1>10, <1>11 DEF Next

\* The cache never answers a latest read with a result requested before the
\* head was disturbed.
THEOREM StaleHitNever == Spec => []NoStaleHit
<1>1. IInv => NoStaleHit
  BY DEF IInv, Consistent, StaleEntriesExpired, NoStaleHit
<1> QED BY <1>1, InitConsistent, NextConsistent, PTL DEF Spec

\* A caller never joins a latest read sent before the head was disturbed.
THEOREM StaleJoinNever == Spec => []NoStaleJoin
<1>1. IInv => NoStaleJoin
  BY DEF IInv, Consistent, StaleWorkExpired, NoStaleJoin, LatestIsCurrent
<1> QED BY <1>1, InitConsistent, NextConsistent, PTL DEF Spec

-----------------------------------------------------------------------------
(* The fair queue, for any keys, origins, routes and batch sizes: every    *)
(* live entry stays within reach of each caller that waits for it, and an  *)
(* origin with work that may read gets its turn within one round.          *)
(*                                                                         *)
(* Neither is inductive.  Callers come to an entry by way of the index and *)
(* by the job they wait for, so the invariant adds that the index names    *)
(* each live entry by all its keys (Indexed), that it has every origin     *)
(* waiting for them (Known), and that queued and started work share no key *)
(* (Apart, Active).  References are dropped and pushed by whether the entry *)
(* has the origin, so it adds that no other lane has one (Confined) and none *)
(* is to a number still to be given out (Referring).  A turn passed over is *)
(* paid for by a place in the turns: the two together never exceed the     *)
(* number of origins (Passed).                                             *)

\* x stands at exactly one place of s.
Once(s, x) == \E i \in DOMAIN s : s[i] = x /\ \A n \in DOMAIN s : s[n] = x => n = i

Unrepeated(s) == \A i, n \in DOMAIN s : s[i] = s[n] => i = n

-----------------------------------------------------------------------------
(* The inductive invariant                                                 *)

Entries == [resume : BOOLEAN, open : BOOLEAN, aggregate : BOOLEAN,
            members : UNION {[ks -> SUBSET Origins] : ks \in (SUBSET Keys) \ {{}}}]
Lanes == [refs : [BOOLEAN -> Seq(Nat)], preferAggregate : BOOLEAN]

\* An entry is known by a number that was given out.
IsJobs(js, next) == \A id \in DOMAIN js : id \in 1 .. next - 1 /\ js[id] \in Entries

IsLanes(ls) == \A o \in DOMAIN ls : o \in Origins /\ ls[o] \in Lanes

TypeInv ==
    /\ nextId \in Nat \ {0}
    /\ IsJobs(jobs, nextId)
    /\ DOMAIN keyIndex \subseteq Keys
    /\ IsLanes(lanes)
    /\ origins \in Seq(Origins)
    /\ started \subseteq [keys : (SUBSET Keys) \ {{}}, aggregate : BOOLEAN]
    /\ callers \in [Keys -> SUBSET Origins]
    /\ skipped \in [Origins -> Nat]

\* The keys of a live entry are indexed to it, and an index names an entry with
\* the key.
Indexed(js, index) ==
    /\ \A id \in DOMAIN js : Waiting(js[id]) =>
         \A k \in KeysOf(js[id]) : k \in DOMAIN index /\ index[k] = id
    /\ \A k \in DOMAIN index : index[k] \in DOMAIN js /\ k \in KeysOf(js[index[k]])

\* A live entry has, for each of its keys, every origin that waits for it.
Known(js, cs) ==
    \A id \in DOMAIN js : Waiting(js[id]) =>
        \A k \in KeysOf(js[id]) : cs[k] # {} /\ cs[k] \subseteq js[id].members[k]

\* Work is queued or started: queued keys are of no started job, and a request is
\* of one.
Apart(js, st) ==
    \A id \in DOMAIN js :
        /\ ~js[id].resume => \A j \in st : KeysOf(js[id]) \cap j.keys = {}
        /\ js[id].resume /\ js[id].open => \E j \in st : KeysOf(js[id]) = j.keys

\* Started jobs have no key in common, and somebody waits for each of their keys.
Active(st, cs) ==
    /\ \A j, l \in st : j.keys \cap l.keys # {} => j = l
    /\ \A j \in st : \A k \in j.keys : cs[k] # {}

\* The turns are those of the origins with a lane, once each.
Turned(ls, turns) ==
    /\ Unrepeated(turns)
    /\ \A i \in DOMAIN turns : turns[i] \in DOMAIN ls
    /\ \A o \in DOMAIN ls : \E i \in DOMAIN turns : turns[i] = o

\* A live entry has one reference in the lane of its class for each of its origins.
Covered(js, ls) ==
    \A id \in DOMAIN js : Waiting(js[id]) =>
        \A o \in OriginsOf(js[id]) :
            o \in DOMAIN ls /\ Once(ls[o].refs[js[id].aggregate], id)

\* It has none for another origin.
Confined(js, ls) ==
    \A id \in DOMAIN js : Waiting(js[id]) =>
        \A o \in DOMAIN ls \ OriginsOf(js[id]) :
            \A i \in DOMAIN ls[o].refs[js[id].aggregate] :
                ls[o].refs[js[id].aggregate][i] # id

\* References are to entries that were admitted.
Referring(ls, next) ==
    \A o \in DOMAIN ls : \A a \in BOOLEAN :
        \A i \in DOMAIN ls[o].refs[a] : ls[o].refs[a][i] < next

\* An origin passed over has a lane, and each time it was it came closer to its turn.
Passed(sk, ls, turns) ==
    /\ \A o \in Origins : sk[o] # 0 => o \in DOMAIN ls
    /\ \A i \in DOMAIN turns :
         sk[turns[i]] # 0 => sk[turns[i]] + i <= Cardinality(Origins)

WorkInv ==
    /\ Indexed(jobs, keyIndex)
    /\ Known(jobs, callers)
    /\ Apart(jobs, started)
    /\ Active(started, callers)

LaneInv ==
    /\ Turned(lanes, origins)
    /\ Covered(jobs, lanes)
    /\ Confined(jobs, lanes)
    /\ Referring(lanes, nextId)

QueueInv == TypeInv /\ WorkInv /\ LaneInv /\ Passed(skipped, lanes, origins)

-----------------------------------------------------------------------------
(* What a queue keeps                                                      *)

\* Ranks number the kept places.
LEMMA RanksNumber ==
    ASSUME NEW P \in SUBSET Nat, IsFiniteSet(P), \A i \in P : i >= 1
    PROVE  /\ Rank(P) \in [P -> 1 .. Cardinality(P)]
           /\ \A i, n \in P : i < n => Rank(P)[i] < Rank(P)[n]
           /\ \A i \in P : Rank(P)[i] <= i
           /\ \A n \in 1 .. Cardinality(P) : \E i \in P : Rank(P)[i] = n
<1> DEFINE below(i) == {m \in P : m <= i}
<1> DEFINE rank == [i \in P |-> Cardinality(below(i))]
<1>1. \A i \in P : /\ IsFiniteSet(below(i)) /\ Cardinality(below(i)) \in Nat
                   /\ Cardinality(below(i)) <= Cardinality(P)
  BY FS_Subset, FS_CardinalityType
<1>2. \A i \in P : Cardinality(below(i)) >= 1
  <2> SUFFICES ASSUME NEW i \in P PROVE Cardinality(below(i)) >= 1
    OBVIOUS
  <2>1. i \in below(i)
    OBVIOUS
  <2>2. Cardinality(below(i)) # 0
    BY <1>1, <2>1, FS_EmptySet
  <2> HIDE DEF below
  <2> QED
    BY <1>1, <2>2
<1>3. \A i, n \in P : i < n => Cardinality(below(i)) < Cardinality(below(n))
  <2> SUFFICES ASSUME NEW i \in P, NEW n \in P, i < n
               PROVE  Cardinality(below(i)) < Cardinality(below(n))
    OBVIOUS
  <2>0. i \in Nat /\ n \in Nat /\ \A m \in P : m \in Nat
    OBVIOUS
  <2>1. (\A m \in below(i) : m \in below(n)) /\ n \in below(n) /\ n \notin below(i)
    BY <2>0 DEF below
  <2> HIDE DEF below
  <2>2. /\ Cardinality(below(i)) <= Cardinality(below(n))
        /\ Cardinality(below(i)) # Cardinality(below(n))
    BY <1>1, <2>1, FS_Subset
  <2> QED
    BY <1>1, <2>2
<1>4. \A i \in P : Cardinality(below(i)) <= i
  <2> SUFFICES ASSUME NEW i \in P PROVE Cardinality(below(i)) <= i
    OBVIOUS
  <2>0. i \in Nat /\ \A m \in P : m \in Nat /\ m >= 1
    OBVIOUS
  <2>1. \A m \in below(i) : m \in 1 .. i
    BY <2>0 DEF below
  <2>2. IsFiniteSet(1 .. i) /\ Cardinality(1 .. i) = i
    BY FS_Interval
  <2> QED
    BY <2>1, <2>2, FS_Subset
<1>5. Cardinality(P) \in Nat
  BY FS_CardinalityType
<1> HIDE DEF below
<1>6. rank \in [P -> 1 .. Cardinality(P)]
  BY <1>1, <1>2, <1>5
<1>7. \A i, n \in P : i < n => rank[i] < rank[n]
  BY <1>3
<1>8. rank \in Injection(P, 1 .. Cardinality(P))
  <2>1. \A i, n \in P : rank[i] = rank[n] => i = n
    <3> SUFFICES ASSUME NEW i \in P, NEW n \in P, i # n PROVE rank[i] # rank[n]
      OBVIOUS
    <3>1. rank[i] \in Nat /\ rank[n] \in Nat
      BY <1>1
    <3>2. i < n \/ n < i
      OBVIOUS
    <3> HIDE DEF rank
    <3> QED
      BY <1>7, <3>1, <3>2
  <2> HIDE DEF rank
  <2> QED
    BY <1>6, <2>1 DEF Injection, IsInjective
<1>9. rank \in Surjection(P, 1 .. Cardinality(P))
  <2>1. IsFiniteSet(1 .. Cardinality(P)) /\ Cardinality(1 .. Cardinality(P)) = Cardinality(P)
    BY <1>5, FS_Interval
  <2> HIDE DEF rank
  <2> QED
    BY <1>8, <2>1, FS_Injection
<1>10. \A n \in 1 .. Cardinality(P) : \E i \in P : rank[i] = n
  BY <1>9 DEF Surjection
<1> QED
  BY <1>4, <1>6, <1>7, <1>10 DEF below, Rank

\* What is kept of a sequence are its elements in T, each from a place of its own
\* that is not before the one it has now.
LEMMA KeptFacts ==
    ASSUME NEW S, NEW s \in Seq(S), NEW T
    PROVE  /\ Kept(s, T) \in Seq(S)
           /\ \E f \in [DOMAIN Kept(s, T) -> Places(s, T)] :
                /\ \A n \in DOMAIN Kept(s, T) : Kept(s, T)[n] = s[f[n]] /\ n <= f[n]
                /\ \A i \in Places(s, T) : \E n \in DOMAIN Kept(s, T) : f[n] = i
                /\ \A n, m \in DOMAIN Kept(s, T) : f[n] = f[m] => n = m
<1> DEFINE P == Places(s, T)
           C == Cardinality(P)
           rank == Rank(P)
           K == Kept(s, T)
           f == [n \in 1 .. C |-> CHOOSE i \in P : rank[i] = n]
<1>1. P \in SUBSET (1 .. Len(s)) /\ Len(s) \in Nat
  BY DEF Places
<1>2. P \in SUBSET Nat /\ IsFiniteSet(P) /\ \A i \in P : i >= 1
  <2>1. IsFiniteSet(1 .. Len(s))
    BY <1>1, FS_Interval
  <2> HIDE DEF P
  <2>2. IsFiniteSet(P)
    BY <1>1, <2>1, FS_Subset
  <2>3. \A i \in P : i \in 1 .. Len(s)
    BY <1>1
  <2> QED
    BY <1>1, <2>2, <2>3
<1>3. C \in Nat
  <2> HIDE DEF P
  <2> QED
    BY <1>2, FS_CardinalityType
<1>4. /\ rank \in [P -> 1 .. C]
      /\ \A i \in P : rank[i] <= i
      /\ \A n \in 1 .. C : \E i \in P : rank[i] = n
  <2> HIDE DEF P
  <2> QED
    BY <1>2, RanksNumber, Zenon
<1>4a. \A i, n \in P : rank[i] = rank[n] => i = n
  <2>1. \A i, n \in P : i < n => rank[i] < rank[n]
    <3> HIDE DEF P
    <3> QED
      BY <1>2, RanksNumber, Zenon
  <2> SUFFICES ASSUME NEW i \in P, NEW n \in P, i # n PROVE rank[i] # rank[n]
    OBVIOUS
  <2>2. i < n \/ n < i
    BY <1>2
  <2>3. rank[i] \in Nat /\ rank[n] \in Nat
    <3> HIDE DEF P, rank
    <3> QED
      BY <1>3, <1>4
  <2> HIDE DEF P, rank
  <2> QED
    BY <2>1, <2>2, <2>3
<1>5. K = [n \in 1 .. C |-> s[f[n]]]
  BY DEF Kept
<1> HIDE DEF P, C, rank, K
<1>6. \A n \in 1 .. C : f[n] \in P /\ rank[f[n]] = n
  <2> SUFFICES ASSUME NEW n \in 1 .. C PROVE f[n] \in P /\ rank[f[n]] = n
    OBVIOUS
  <2>1. \E i \in P : rank[i] = n
    BY <1>4
  <2>2. f[n] = CHOOSE i \in P : rank[i] = n
    OBVIOUS
  <2> HIDE DEF f
  <2> QED
    BY <2>1, <2>2, Zenon
<1>7. \A n \in 1 .. C : n <= f[n]
  BY <1>4, <1>6
<1>8. \A i \in P : rank[i] \in 1 .. C /\ f[rank[i]] = i
  <2> SUFFICES ASSUME NEW i \in P PROVE rank[i] \in 1 .. C /\ f[rank[i]] = i
    OBVIOUS
  <2>1. rank[i] \in 1 .. C
    BY <1>4
  <2>2. f[rank[i]] \in P /\ rank[f[rank[i]]] = rank[i]
    BY <1>6, <2>1
  <2> HIDE DEF f
  <2> QED
    BY <1>4a, <2>1, <2>2
<1>9. f \in [1 .. C -> P] /\ DOMAIN K = 1 .. C
  <2>1. f \in [1 .. C -> P]
    BY <1>6
  <2> HIDE DEF f
  <2> QED
    BY <1>5, <2>1
<1> HIDE DEF f
<1>10. \A i \in P : i \in 1 .. Len(s) /\ s[i] \in S
  BY <1>1
<1>11. K \in Seq(S)
  BY <1>3, <1>5, <1>9, <1>10
<1>12. \A n \in DOMAIN K : K[n] = s[f[n]] /\ n <= f[n]
  BY <1>5, <1>7, <1>9
<1>13. \A i \in P : \E n \in DOMAIN K : f[n] = i
  BY <1>8, <1>9
<1>14. \A n, m \in DOMAIN K : f[n] = f[m] => n = m
  BY <1>6, <1>9
<1> QED
  BY <1>9, <1>11, <1>12, <1>13, <1>14 DEF K, P

\* So it holds what is in T, an element that stood once still does, and none is
\* further back than it was.
LEMMA KeptElements ==
    ASSUME NEW S, NEW s \in Seq(S), NEW T
    PROVE  /\ Kept(s, T) \in Seq(S)
           /\ \A n \in DOMAIN Kept(s, T) : /\ Kept(s, T)[n] \in T
                                          /\ \E i \in DOMAIN s : s[i] = Kept(s, T)[n] /\ n <= i
           /\ \A i \in DOMAIN s : s[i] \in T => \E n \in DOMAIN Kept(s, T) : Kept(s, T)[n] = s[i]
           /\ Unrepeated(s) => Unrepeated(Kept(s, T))
           /\ \A x \in T : Once(s, x) => Once(Kept(s, T), x)
<1> DEFINE K == Kept(s, T)
<1>1. K \in Seq(S)
  BY KeptFacts
<1>2. PICK f \in [DOMAIN K -> Places(s, T)] :
        /\ \A n \in DOMAIN K : K[n] = s[f[n]] /\ n <= f[n]
        /\ \A i \in Places(s, T) : \E n \in DOMAIN K : f[n] = i
        /\ \A n, m \in DOMAIN K : f[n] = f[m] => n = m
  BY KeptFacts, Zenon
<1> HIDE DEF K
<1>3. \A n \in DOMAIN K : f[n] \in DOMAIN s /\ s[f[n]] \in T /\ K[n] = s[f[n]] /\ n <= f[n]
  BY <1>2 DEF Places
<1>4. \A i \in DOMAIN s : s[i] \in T => \E n \in DOMAIN K : K[n] = s[i] /\ f[n] = i
  <2> SUFFICES ASSUME NEW i \in DOMAIN s, s[i] \in T
               PROVE  \E n \in DOMAIN K : K[n] = s[i] /\ f[n] = i
    OBVIOUS
  <2>1. i \in Places(s, T)
    BY Zenon DEF Places
  <2> QED
    BY <1>2, <2>1, Zenon
<1>5. \A n, m \in DOMAIN K : f[n] = f[m] => n = m
  BY <1>2, Zenon
<1>6. Unrepeated(s) => Unrepeated(K)
  <2> SUFFICES ASSUME Unrepeated(s), NEW n \in DOMAIN K, NEW m \in DOMAIN K, K[n] = K[m]
               PROVE  n = m
    BY DEF Unrepeated
  <2>1. s[f[n]] = s[f[m]] /\ f[n] \in DOMAIN s /\ f[m] \in DOMAIN s
    BY <1>3
  <2>2. f[n] = f[m]
    BY <2>1 DEF Unrepeated
  <2> QED
    BY <1>5, <2>2
<1>7. \A x \in T : Once(s, x) => Once(K, x)
  <2> SUFFICES ASSUME NEW x \in T, Once(s, x) PROVE Once(K, x)
    OBVIOUS
  <2>1. PICK i \in DOMAIN s : s[i] = x /\ \A n \in DOMAIN s : s[n] = x => n = i
    BY Zenon DEF Once
  <2>2. PICK n \in DOMAIN K : K[n] = x /\ f[n] = i
    BY <1>4, <2>1, Zenon
  <2>3. \A m \in DOMAIN K : K[m] = x => m = n
    BY <1>3, <1>5, <2>1, <2>2, Zenon
  <2> QED
    BY <2>2, <2>3, Zenon DEF Once
<1> QED
  BY <1>1, <1>3, <1>4, <1>6, <1>7, Zenon DEF K

-----------------------------------------------------------------------------
(* Entries and lanes                                                       *)

LEMMA EntryFacts ==
    ASSUME NEW e \in Entries
    PROVE  /\ KeysOf(e) \in (SUBSET Keys) \ {{}}
           /\ \A k \in KeysOf(e) : e.members[k] \subseteq Origins
           /\ OriginsOf(e) \subseteq Origins
           /\ e.resume \in BOOLEAN /\ e.open \in BOOLEAN /\ e.aggregate \in BOOLEAN
<1>1. PICK ks \in (SUBSET Keys) \ {{}} : e.members \in [ks -> SUBSET Origins]
  BY DEF Entries
<1>2. KeysOf(e) = ks
  BY <1>1 DEF KeysOf
<1>3. \A k \in KeysOf(e) : e.members[k] \subseteq Origins
  BY <1>1, <1>2
<1>4. OriginsOf(e) \subseteq Origins
  BY <1>3 DEF OriginsOf
<1> QED
  BY <1>2, <1>3, <1>4 DEF Entries

\* The entries of js that belong in a lane of the origin o.
Fit(js, o, a) == {id \in DOMAIN js : Belongs(js[id], o, a)}

\* Pruned lanes keep the references that belong, and a lane with one stays.
LEMMA LivingFacts ==
    ASSUME NEW ls, NEW js, IsLanes(ls)
    PROVE  /\ DOMAIN Living(ls, js) \subseteq DOMAIN ls
           /\ IsLanes(Living(ls, js))
           /\ \A o \in DOMAIN Living(ls, js) : \A a \in BOOLEAN :
                Living(ls, js)[o].refs[a] = Kept(ls[o].refs[a], Fit(js, o, a))
           /\ \A o \in DOMAIN ls : \A a \in BOOLEAN :
                Kept(ls[o].refs[a], Fit(js, o, a)) # <<>> => o \in DOMAIN Living(ls, js)
<1> DEFINE rest(o) == [a \in BOOLEAN |-> Kept(ls[o].refs[a], Fit(js, o, a))]
           kept == [o \in DOMAIN ls |-> [ls[o] EXCEPT !.refs = rest(o)]]
           D == {o \in DOMAIN kept : \E a \in BOOLEAN : kept[o].refs[a] # <<>>}
           L == Living(ls, js)
<1>1. L = [o \in D |-> kept[o]]
  BY DEF Living, Restrict, Fit
<1>2. \A o \in DOMAIN ls : \A a \in BOOLEAN : rest(o)[a] \in Seq(Nat)
  <2> SUFFICES ASSUME NEW o \in DOMAIN ls, NEW a \in BOOLEAN PROVE rest(o)[a] \in Seq(Nat)
    OBVIOUS
  <2>1. ls[o].refs[a] \in Seq(Nat)
    BY DEF IsLanes, Lanes
  <2>2. Kept(ls[o].refs[a], Fit(js, o, a)) \in Seq(Nat)
    BY <2>1, KeptFacts, Zenon
  <2> QED
    BY <2>2
<1>3. \A o \in DOMAIN ls : rest(o) \in [BOOLEAN -> Seq(Nat)]
  BY <1>2
<1>4. \A o \in DOMAIN ls :
        /\ kept[o] \in Lanes /\ kept[o].refs = rest(o) /\ o \in Origins
  <2> SUFFICES ASSUME NEW o \in DOMAIN ls
               PROVE  kept[o] \in Lanes /\ kept[o].refs = rest(o) /\ o \in Origins
    OBVIOUS
  <2>1. ls[o] \in Lanes /\ o \in Origins
    BY DEF IsLanes
  <2>2. rest(o) \in [BOOLEAN -> Seq(Nat)]
    BY <1>3
  <2> HIDE DEF rest
  <2> QED
    BY <2>1, <2>2 DEF Lanes
<1>5. DOMAIN kept = DOMAIN ls
  OBVIOUS
<1>6. \A o \in DOMAIN ls : \A a \in BOOLEAN : rest(o)[a] = Kept(ls[o].refs[a], Fit(js, o, a))
  OBVIOUS
<1> HIDE DEF L, kept, rest
<1>7. DOMAIN L = D /\ \A o \in D : L[o] = kept[o]
  BY <1>1
<1>8. \A o \in D : o \in DOMAIN ls
  BY <1>5
<1>9. IsLanes(L)
  BY <1>4, <1>7, <1>8 DEF IsLanes
<1>10. \A o \in DOMAIN L : \A a \in BOOLEAN : L[o].refs[a] = Kept(ls[o].refs[a], Fit(js, o, a))
  BY <1>4, <1>6, <1>7, <1>8
<1>11. \A o \in DOMAIN ls : \A a \in BOOLEAN :
         Kept(ls[o].refs[a], Fit(js, o, a)) # <<>> => o \in DOMAIN L
  BY <1>4, <1>5, <1>6, <1>7
<1> QED
  BY <1>7, <1>8, <1>9, <1>10, <1>11 DEF L

\* A turn is no further back than before.
NoLater(before, after) ==
    \A n \in DOMAIN after : \E i \in DOMAIN before : before[i] = after[n] /\ n <= i

\* The lanes and turns are those of ls and turns that lead to an entry.
Pruned(ls, turns) == lanes' = Living(ls, jobs') /\ origins' = Kept(turns, DOMAIN lanes')

\* Pruning leaves the references and turns that lead to live entries, and no other.
LEMMA LanesPruned ==
    ASSUME NEW ls, NEW turns, NEW next,
           IsJobs(jobs', next), IsLanes(ls), turns \in Seq(Origins),
           Turned(ls, turns), Covered(jobs', ls), Referring(ls, next),
           Pruned(ls, turns)
    PROVE  /\ IsLanes(lanes') /\ origins' \in Seq(Origins)
           /\ Turned(lanes', origins') /\ Covered(jobs', lanes') /\ Confined(jobs', lanes')
           /\ Referring(lanes', next)
           /\ NoLater(turns, origins') /\ DOMAIN lanes' \subseteq DOMAIN ls
<1>1. /\ DOMAIN lanes' \subseteq DOMAIN ls
      /\ IsLanes(lanes')
      /\ \A o \in DOMAIN lanes' : \A a \in BOOLEAN :
           lanes'[o].refs[a] = Kept(ls[o].refs[a], Fit(jobs', o, a))
      /\ \A o \in DOMAIN ls : \A a \in BOOLEAN :
           Kept(ls[o].refs[a], Fit(jobs', o, a)) # <<>> => o \in DOMAIN lanes'
  BY LivingFacts DEF Pruned
<1>2. ASSUME NEW o \in DOMAIN ls, NEW a \in BOOLEAN, NEW T
      PROVE  /\ ls[o].refs[a] \in Seq(Nat) /\ Kept(ls[o].refs[a], T) \in Seq(Nat)
             /\ \A n \in DOMAIN Kept(ls[o].refs[a], T) :
                  /\ Kept(ls[o].refs[a], T)[n] \in T
                  /\ \E i \in DOMAIN ls[o].refs[a] :
                       ls[o].refs[a][i] = Kept(ls[o].refs[a], T)[n]
             /\ \A x \in T : Once(ls[o].refs[a], x) => Once(Kept(ls[o].refs[a], T), x)
  <2>1. ls[o].refs[a] \in Seq(Nat)
    BY DEF IsLanes, Lanes
  <2> QED
    BY <2>1, KeptElements
<1>3. Covered(jobs', lanes')
  <2> SUFFICES ASSUME NEW id \in DOMAIN jobs', Waiting(jobs'[id]), NEW o \in OriginsOf(jobs'[id])
               PROVE  o \in DOMAIN lanes' /\ Once(lanes'[o].refs[jobs'[id].aggregate], id)
    BY DEF Covered
  <2> DEFINE a == jobs'[id].aggregate
  <2>2. a \in BOOLEAN
    BY EntryFacts DEF IsJobs
  <2>3. o \in DOMAIN ls /\ Once(ls[o].refs[a], id)
    BY Zenon DEF Covered
  <2>4. id \in Fit(jobs', o, a)
    BY DEF Belongs, Fit
  <2> HIDE DEF a
  <2>5. Once(Kept(ls[o].refs[a], Fit(jobs', o, a)), id)
    BY <1>2, <2>2, <2>3, <2>4, Zenon
  <2>6. Kept(ls[o].refs[a], Fit(jobs', o, a)) # <<>>
    BY <2>5 DEF Once
  <2>7. o \in DOMAIN lanes'
    BY <1>1, <2>2, <2>3, <2>6, Zenon
  <2>8. lanes'[o].refs[a] = Kept(ls[o].refs[a], Fit(jobs', o, a))
    BY <1>1, <2>2, <2>7, Zenon
  <2> QED
    BY <2>5, <2>7, <2>8 DEF a
<1>4. \A o \in DOMAIN lanes' : \A a \in BOOLEAN : \A n \in DOMAIN lanes'[o].refs[a] :
        /\ lanes'[o].refs[a][n] \in Fit(jobs', o, a)
        /\ \E i \in DOMAIN ls[o].refs[a] : ls[o].refs[a][i] = lanes'[o].refs[a][n]
  <2> SUFFICES ASSUME NEW o \in DOMAIN lanes', NEW a \in BOOLEAN,
                      NEW n \in DOMAIN lanes'[o].refs[a]
               PROVE  /\ lanes'[o].refs[a][n] \in Fit(jobs', o, a)
                      /\ \E i \in DOMAIN ls[o].refs[a] : ls[o].refs[a][i] = lanes'[o].refs[a][n]
    OBVIOUS
  <2>1. o \in DOMAIN ls /\ lanes'[o].refs[a] = Kept(ls[o].refs[a], Fit(jobs', o, a))
    BY <1>1
  <2> QED
    <3> DEFINE T == Fit(jobs', o, a) s == ls[o].refs[a] K == lanes'[o].refs[a]
    <3>1. \A m \in DOMAIN Kept(s, T) :
            Kept(s, T)[m] \in T /\ \E i \in DOMAIN s : s[i] = Kept(s, T)[m]
      BY <1>2, <2>1
    <3>2. K = Kept(s, T)
      BY <2>1
    <3> HIDE DEF T, s, K
    <3>3. \A m \in DOMAIN K : K[m] \in T /\ \E i \in DOMAIN s : s[i] = K[m]
      BY <3>1, <3>2
    <3> QED
      BY <3>3 DEF T, s, K
<1>5. Confined(jobs', lanes')
  <2> SUFFICES ASSUME NEW id \in DOMAIN jobs', Waiting(jobs'[id]),
                      NEW o \in DOMAIN lanes' \ OriginsOf(jobs'[id]),
                      NEW i \in DOMAIN lanes'[o].refs[jobs'[id].aggregate],
                      lanes'[o].refs[jobs'[id].aggregate][i] = id
               PROVE  FALSE
    BY DEF Confined
  <2>1. jobs'[id].aggregate \in BOOLEAN
    BY EntryFacts DEF IsJobs
  <2>2. id \in Fit(jobs', o, jobs'[id].aggregate)
    BY <1>4, <2>1
  <2> QED
    BY <2>2 DEF Belongs, Fit
<1>6. Referring(lanes', next)
  BY <1>1, <1>4 DEF Referring
<1>7. /\ origins' \in Seq(Origins)
      /\ \A n \in DOMAIN origins' :
           origins'[n] \in DOMAIN lanes' /\ \E i \in DOMAIN turns : turns[i] = origins'[n] /\ n <= i
      /\ \A i \in DOMAIN turns : turns[i] \in DOMAIN lanes' =>
           \E n \in DOMAIN origins' : origins'[n] = turns[i]
      /\ Unrepeated(origins')
  <2>1. Unrepeated(turns)
    BY DEF Turned
  <2> QED
    <3> DEFINE T == DOMAIN lanes'
    <3>1. /\ Kept(turns, T) \in Seq(Origins)
          /\ \A n \in DOMAIN Kept(turns, T) :
               /\ Kept(turns, T)[n] \in T
               /\ \E i \in DOMAIN turns : turns[i] = Kept(turns, T)[n] /\ n <= i
          /\ \A i \in DOMAIN turns : turns[i] \in T =>
               \E n \in DOMAIN Kept(turns, T) : Kept(turns, T)[n] = turns[i]
          /\ Unrepeated(Kept(turns, T))
      BY <2>1, KeptElements
    <3>2. origins' = Kept(turns, T)
      BY DEF Pruned
    <3> HIDE DEF T
    <3> QED
      BY <3>1, <3>2 DEF T
<1>8. \A o \in DOMAIN lanes' : \E i \in DOMAIN turns : turns[i] = o
  BY <1>1 DEF Turned
<1>9. Turned(lanes', origins')
  <2>1. ASSUME NEW o \in DOMAIN lanes' PROVE \E n \in DOMAIN origins' : origins'[n] = o
    <3>1. PICK i \in DOMAIN turns : turns[i] = o
      BY <1>8, Zenon
    <3> QED
      BY <1>7, <3>1
  <2> QED
    BY <1>7, <2>1, Zenon DEF Turned
<1>10. NoLater(turns, origins')
  BY <1>7, Zenon DEF NoLater
<1> QED
  BY <1>1, <1>3, <1>5, <1>6, <1>7, <1>9, <1>10

\* Pruning leaves the live entries, in the lanes and turns that lead to them.
LEMMA PruneKeeps ==
    ASSUME NEW js, NEW index, NEW ls, NEW turns, NEW next,
           IsJobs(js, next), IsLanes(ls), turns \in Seq(Origins),
           Turned(ls, turns), Covered(js, ls), Referring(ls, next),
           Indexed(js, index), Prune(js, index, ls, turns)
    PROVE  /\ DOMAIN jobs' = {id \in DOMAIN js : Waiting(js[id])}
           /\ \A id \in DOMAIN jobs' : jobs'[id] = js[id]
           /\ IsJobs(jobs', next) /\ IsLanes(lanes') /\ origins' \in Seq(Origins)
           /\ DOMAIN keyIndex' \subseteq DOMAIN index
           /\ Indexed(jobs', keyIndex')
           /\ Turned(lanes', origins') /\ Covered(jobs', lanes') /\ Confined(jobs', lanes')
           /\ Referring(lanes', next)
           /\ NoLater(turns, origins') /\ DOMAIN lanes' \subseteq DOMAIN ls
<1> DEFINE closed == {id \in DOMAIN js : ~Waiting(js[id])}
<1>1. /\ jobs' = [id \in DOMAIN js \ closed |-> js[id]]
      /\ keyIndex' = [k \in {l \in DOMAIN index : index[l] \notin closed} |-> index[k]]
      /\ lanes' = Living(ls, jobs')
      /\ origins' = Kept(turns, DOMAIN lanes')
  BY Zenon DEF Prune, Restrict, IndexWithout
<1>2. /\ DOMAIN jobs' = {id \in DOMAIN js : Waiting(js[id])}
      /\ \A id \in DOMAIN jobs' : jobs'[id] = js[id]
  BY <1>1
<1>3. IsJobs(jobs', next)
  BY <1>2 DEF IsJobs
<1>4. DOMAIN keyIndex' \subseteq DOMAIN index /\ Indexed(jobs', keyIndex')
  <2>1. \A id \in DOMAIN jobs' : id \in DOMAIN js /\ id \notin closed
    BY <1>2
  <2>2. /\ DOMAIN keyIndex' = {l \in DOMAIN index : index[l] \notin closed}
        /\ \A k \in DOMAIN keyIndex' : keyIndex'[k] = index[k]
    BY <1>1
  <2>3. \A id \in DOMAIN js : id \notin closed => id \in DOMAIN jobs' /\ jobs'[id] = js[id]
    BY <1>2
  <2> HIDE DEF closed
  <2>4. ASSUME NEW id \in DOMAIN jobs', Waiting(jobs'[id]), NEW k \in KeysOf(jobs'[id])
        PROVE  k \in DOMAIN keyIndex' /\ keyIndex'[k] = id
    BY <1>2, <2>1, <2>2, <2>4 DEF Indexed
  <2>5. ASSUME NEW k \in DOMAIN keyIndex'
        PROVE  keyIndex'[k] \in DOMAIN jobs' /\ k \in KeysOf(jobs'[keyIndex'[k]])
    BY <2>2, <2>3 DEF Indexed
  <2> QED
    BY <2>2, <2>4, <2>5 DEF Indexed
<1>5. Covered(jobs', ls)
  BY <1>2, Zenon DEF Covered
<1> QED
  BY <1>1, <1>2, <1>3, <1>4, <1>5, LanesPruned DEF Pruned

-----------------------------------------------------------------------------
(* References pushed                                                       *)

Absent(s, x) == \A i \in DOMAIN s : s[i] # x

LEMMA JoinedOnce ==
    ASSUME NEW s \in Seq(Nat), NEW t \in Seq(Nat), NEW x
    PROVE  /\ s \o t \in Seq(Nat)
           /\ Once(s, x) /\ Absent(t, x) => Once(s \o t, x)
           /\ Absent(s, x) /\ Once(t, x) => Once(s \o t, x)
           /\ Absent(s, x) /\ Absent(t, x) => Absent(s \o t, x)
<1> DEFINE j == s \o t
<1>1. /\ j \in Seq(Nat) /\ Len(j) = Len(s) + Len(t)
      /\ Len(s) \in Nat /\ Len(t) \in Nat
      /\ DOMAIN s = 1 .. Len(s) /\ DOMAIN t = 1 .. Len(t) /\ DOMAIN j = 1 .. Len(j)
  OBVIOUS
<1>2. \A i \in 1 .. Len(s) : j[i] = s[i]
  OBVIOUS
<1>3. \A i \in 1 .. Len(t) : j[Len(s) + i] = t[i]
  OBVIOUS
<1> HIDE DEF j
<1>4. ASSUME NEW i \in 1 .. Len(j)
      PROVE  \/ i \in 1 .. Len(s) /\ j[i] = s[i]
             \/ \E n \in 1 .. Len(t) : i = Len(s) + n /\ j[i] = t[n]
  <2>1. CASE i \in 1 .. Len(s)
    BY <1>2, <2>1
  <2>2. CASE i \notin 1 .. Len(s)
    <3>1. i - Len(s) \in 1 .. Len(t) /\ i = Len(s) + (i - Len(s))
      BY <1>1, <2>2
    <3>2. j[i] = t[i - Len(s)]
      BY <1>3, <3>1
    <3> QED
      BY <3>1, <3>2
  <2> QED
    BY <2>1, <2>2
<1>5. ASSUME Once(s, x), Absent(t, x) PROVE Once(j, x)
  <2>1. PICK i \in 1 .. Len(s) : s[i] = x /\ \A n \in 1 .. Len(s) : s[n] = x => n = i
    BY <1>1, <1>5 DEF Once
  <2>2. i \in 1 .. Len(j) /\ j[i] = x
    BY <1>1, <1>2, <2>1
  <2>3. ASSUME NEW n \in 1 .. Len(j), j[n] = x PROVE n = i
    <3>1. \A m \in 1 .. Len(t) : t[m] # x
      BY <1>1, <1>5 DEF Absent
    <3> QED
      BY <1>4, <2>1, <2>3, <3>1
  <2> QED
    BY <1>1, <2>2, <2>3 DEF Once
<1>6. ASSUME Absent(s, x), Once(t, x) PROVE Once(j, x)
  <2>1. PICK i \in 1 .. Len(t) : t[i] = x /\ \A n \in 1 .. Len(t) : t[n] = x => n = i
    BY <1>1, <1>6 DEF Once
  <2>2. Len(s) + i \in 1 .. Len(j) /\ j[Len(s) + i] = x
    BY <1>1, <1>3, <2>1
  <2>3. ASSUME NEW n \in 1 .. Len(j), j[n] = x PROVE n = Len(s) + i
    <3>1. \A m \in 1 .. Len(s) : s[m] # x
      BY <1>1, <1>6 DEF Absent
    <3> QED
      BY <1>4, <2>1, <2>3, <3>1
  <2> QED
    BY <1>1, <2>2, <2>3 DEF Once
<1>7. ASSUME Absent(s, x), Absent(t, x) PROVE Absent(j, x)
  <2> SUFFICES ASSUME NEW n \in 1 .. Len(j), j[n] = x PROVE FALSE
    BY <1>1 DEF Absent
  <2>1. (\A m \in 1 .. Len(s) : s[m] # x) /\ (\A m \in 1 .. Len(t) : t[m] # x)
    BY <1>1, <1>7 DEF Absent
  <2> QED
    BY <1>4, <2>1
<1> QED
  BY <1>1, <1>5, <1>6, <1>7 DEF j

\* A listing of a finite set without repetition has all of it.
LEMMA ListingCovers ==
    ASSUME NEW S, IsFiniteSet(S), NEW f \in SetToSeqs(S)
    PROVE  /\ DOMAIN f = 1..Cardinality(S) /\ Cardinality(S) \in Nat
           /\ f \in Seq(S) /\ Len(f) = Cardinality(S)
           /\ \A i, n \in DOMAIN f : f[i] = f[n] => i = n
           /\ \A x \in S : \E i \in DOMAIN f : f[i] = x
<1> DEFINE D == 1..Cardinality(S)
<1>1. Cardinality(S) \in Nat
  BY FS_CardinalityType
<1>2. f \in [D -> S] /\ \A i, n \in D : i # n => f[i] # f[n]
  BY DEF SetToSeqs
<1>3. f \in Injection(D, S)
  BY <1>2 DEF Injection, IsInjective
<1>4. IsFiniteSet(D) /\ Cardinality(D) = Cardinality(S)
  BY <1>1, FS_Interval
<1>5. f \in Surjection(D, S)
  BY <1>3, <1>4, FS_Injection
<1>6. \A x \in S : \E i \in D : f[i] = x
  BY <1>5 DEF Surjection
<1>7. f \in Seq(S) /\ Len(f) = Cardinality(S)
  BY <1>1, <1>2
<1> QED
  BY <1>1, <1>2, <1>6, <1>7

\* The references of the lane o of class a, none if there is no such lane.
RefsOf(ls, o, a) == IF o \in DOMAIN ls THEN ls[o].refs[a] ELSE <<>>

\* A push adds the references of more behind those there were, and the turns of
\* the lanes it opens behind those there were.
LEMMA PushAdds ==
    ASSUME SchedulerAssumption, NEW more \in [Origins -> [BOOLEAN -> Seq(Nat)]],
           IsLanes(lanes), origins \in Seq(Origins), Turned(lanes, origins),
           Push(lanes, origins, more)
    PROVE  /\ DOMAIN lanes' = DOMAIN lanes \cup {o \in Origins : \E a \in BOOLEAN : more[o][a] # <<>>}
           /\ \A o \in DOMAIN lanes' : \A a \in BOOLEAN :
                /\ lanes'[o].refs[a] = RefsOf(lanes, o, a) \o more[o][a]
                /\ o \in Origins /\ RefsOf(lanes, o, a) \in Seq(Nat) /\ more[o][a] \in Seq(Nat)
           /\ IsLanes(lanes') /\ origins' \in Seq(Origins)
           /\ Turned(lanes', origins')
           /\ \A n \in DOMAIN origins' : origins'[n] \in DOMAIN lanes =>
                \E i \in DOMAIN origins : origins[i] = origins'[n] /\ n <= i
<1> DEFINE D == DOMAIN lanes \cup {o \in Origins : \E a \in BOOLEAN : more[o][a] # <<>>}
           lane(o) == IF o \in DOMAIN lanes THEN lanes[o] ELSE NoLane
           refs(o) == [a \in BOOLEAN |-> lane(o).refs[a] \o more[o][a]]
<1>1. lanes' = [o \in D |-> [lane(o) EXCEPT !.refs = refs(o)]]
  BY Zenon DEF Push, LanesWith
<1>2. \A o \in D : o \in Origins /\ lane(o) \in Lanes
  BY DEF IsLanes, NoLane, Lanes
<1>3. \A o \in D : \A a \in BOOLEAN :
        /\ lane(o).refs[a] = RefsOf(lanes, o, a)
        /\ RefsOf(lanes, o, a) \in Seq(Nat) /\ more[o][a] \in Seq(Nat)
  <2> SUFFICES ASSUME NEW o \in D, NEW a \in BOOLEAN
               PROVE  /\ lane(o).refs[a] = RefsOf(lanes, o, a)
                      /\ RefsOf(lanes, o, a) \in Seq(Nat) /\ more[o][a] \in Seq(Nat)
    OBVIOUS
  <2>1. lane(o).refs[a] = RefsOf(lanes, o, a)
    BY DEF RefsOf, NoLane
  <2>2. lane(o).refs[a] \in Seq(Nat)
    BY <1>2 DEF Lanes
  <2>3. more[o][a] \in Seq(Nat)
    BY <1>2
  <2> QED
    BY <2>1, <2>2, <2>3
<1>4. \A o \in D : refs(o) \in [BOOLEAN -> Seq(Nat)]
  <2> SUFFICES ASSUME NEW o \in D, NEW a \in BOOLEAN
               PROVE  lane(o).refs[a] \o more[o][a] \in Seq(Nat)
    OBVIOUS
  <2> HIDE DEF D, lane
  <2> QED
    BY <1>3
<1>5. \A o \in D : \A a \in BOOLEAN : refs(o)[a] = RefsOf(lanes, o, a) \o more[o][a]
  <2> HIDE DEF D, lane
  <2> QED
    BY <1>3
<1> HIDE DEF D, lane, refs
<1>6. \A o \in D : lanes'[o] \in Lanes /\ lanes'[o].refs = refs(o)
  <2> SUFFICES ASSUME NEW o \in D PROVE lanes'[o] \in Lanes /\ lanes'[o].refs = refs(o)
    OBVIOUS
  <2>1. lanes'[o] = [lane(o) EXCEPT !.refs = refs(o)]
    BY <1>1
  <2> QED
    BY <1>2, <1>4, <2>1 DEF Lanes
<1>7. DOMAIN lanes' = D
  BY <1>1
<1>8. IsLanes(lanes')
  BY <1>2, <1>6, <1>7 DEF IsLanes
<1>9. PICK row \in SetToSeqs(DOMAIN lanes' \ DOMAIN lanes) : origins' = origins \o row
  BY Zenon DEF Push
<1> DEFINE N == DOMAIN lanes' \ DOMAIN lanes
<1>10. /\ row \in Seq(N) /\ Unrepeated(row)
       /\ \A o \in N : \E i \in DOMAIN row : row[i] = o
  <2>1. N \in SUBSET Origins
    BY <1>2, <1>7
  <2>2. IsFiniteSet(N)
    BY <2>1, FS_Subset DEF SchedulerAssumption
  <2> HIDE DEF N
  <2> QED
    BY <1>9, <2>2, ListingCovers DEF N, Unrepeated
<1>11. \A o \in N : o \in Origins /\ o \notin DOMAIN lanes /\ o \in DOMAIN lanes'
  BY <1>2, <1>7
<1>12. \A o \in DOMAIN lanes : o \in DOMAIN lanes'
  BY <1>7 DEF D
<1> HIDE DEF N
<1>13. /\ origins' \in Seq(Origins)
       /\ Len(origins') = Len(origins) + Len(row) /\ Len(origins) \in Nat /\ Len(row) \in Nat
       /\ DOMAIN origins = 1 .. Len(origins) /\ DOMAIN row = 1 .. Len(row)
       /\ DOMAIN origins' = 1 .. Len(origins')
       /\ \A i \in 1 .. Len(origins) : origins'[i] = origins[i]
       /\ \A i \in 1 .. Len(row) : origins'[Len(origins) + i] = row[i] /\ row[i] \in N
  <2>1. row \in Seq(Origins)
    BY <1>10, <1>11
  <2> QED
    BY <1>9, <1>10, <2>1
<1>14. ASSUME NEW i \in 1 .. Len(origins')
       PROVE  \/ i \in 1 .. Len(origins) /\ origins'[i] = origins[i]
              \/ \E n \in 1 .. Len(row) : /\ i = Len(origins) + n
                                          /\ origins'[i] = row[n] /\ row[n] \in N
  <2>1. CASE i \in 1 .. Len(origins)
    BY <1>13, <2>1
  <2>2. CASE i \notin 1 .. Len(origins)
    <3>1. i - Len(origins) \in 1 .. Len(row) /\ i = Len(origins) + (i - Len(origins))
      BY <1>13, <2>2
    <3> QED
      BY <1>13, <3>1
  <2> QED
    BY <2>1, <2>2
<1>15. \A i \in 1 .. Len(origins) : origins[i] \in DOMAIN lanes
  BY <1>13 DEF Turned
<1>16. \A n \in DOMAIN origins' : origins'[n] \in DOMAIN lanes =>
         \E i \in DOMAIN origins : origins[i] = origins'[n] /\ n <= i
  <2> SUFFICES ASSUME NEW n \in 1 .. Len(origins'), origins'[n] \in DOMAIN lanes
               PROVE  \E i \in DOMAIN origins : origins[i] = origins'[n] /\ n <= i
    BY <1>13
  <2>1. origins'[n] \notin N
    BY <1>11
  <2>2. n \in 1 .. Len(origins) /\ origins'[n] = origins[n]
    BY <1>14, <2>1
  <2>3. n \in DOMAIN origins /\ n <= n
    BY <1>13, <2>2
  <2> QED
    BY <2>2, <2>3
<1>17. Unrepeated(origins')
  <2> SUFFICES ASSUME NEW i \in 1 .. Len(origins'), NEW n \in 1 .. Len(origins'),
                      origins'[i] = origins'[n]
               PROVE  i = n
    BY <1>13 DEF Unrepeated
  <2>1. Unrepeated(origins)
    BY DEF Turned
  <2>2. CASE i \in 1 .. Len(origins) /\ n \in 1 .. Len(origins)
    BY <1>13, <2>1, <2>2 DEF Unrepeated
  <2>3. CASE i \in 1 .. Len(origins) /\ n \notin 1 .. Len(origins)
    BY <1>11, <1>13, <1>14, <1>15, <2>3
  <2>4. CASE i \notin 1 .. Len(origins) /\ n \in 1 .. Len(origins)
    BY <1>11, <1>13, <1>14, <1>15, <2>4
  <2>5. CASE i \notin 1 .. Len(origins) /\ n \notin 1 .. Len(origins)
    <3>1. PICK k \in 1 .. Len(row) : i = Len(origins) + k /\ origins'[i] = row[k]
      BY <1>14, <2>5
    <3>2. PICK m \in 1 .. Len(row) : n = Len(origins) + m /\ origins'[n] = row[m]
      BY <1>14, <2>5
    <3>3. row[k] = row[m]
      BY <3>1, <3>2
    <3> QED
      BY <1>10, <1>13, <3>1, <3>2, <3>3 DEF Unrepeated
  <2> QED
    BY <2>2, <2>3, <2>4, <2>5
<1>18. \A i \in DOMAIN origins' : origins'[i] \in DOMAIN lanes'
  <2> SUFFICES ASSUME NEW i \in 1 .. Len(origins') PROVE origins'[i] \in DOMAIN lanes'
    BY <1>13
  <2>1. origins'[i] \in DOMAIN lanes \/ origins'[i] \in N
    BY <1>14, <1>15
  <2> QED
    BY <1>11, <1>12, <2>1
<1>19. \A o \in DOMAIN lanes' : \E i \in DOMAIN origins' : origins'[i] = o
  <2> SUFFICES ASSUME NEW o \in DOMAIN lanes' PROVE \E i \in DOMAIN origins' : origins'[i] = o
    OBVIOUS
  <2>1. CASE o \in DOMAIN lanes
    <3>1. PICK i \in DOMAIN origins : origins[i] = o
      BY <2>1, Zenon DEF Turned
    <3> QED
      BY <1>13, <3>1
  <2>2. CASE o \notin DOMAIN lanes
    <3>1. PICK i \in DOMAIN row : row[i] = o
      BY <1>10, <2>2, Zenon DEF N
    <3>2. i \in 1 .. Len(row)
      BY <1>13, <3>1
    <3>3. Len(origins) + i \in DOMAIN origins' /\ origins'[Len(origins) + i] = o
      BY <1>13, <3>1, <3>2
    <3> QED
      BY <3>3
  <2> QED
    BY <2>1, <2>2
<1>20. Turned(lanes', origins')
  BY <1>17, <1>18, <1>19 DEF Turned
<1> QED
  BY <1>2, <1>3, <1>5, <1>6, <1>7, <1>8, <1>13, <1>16, <1>20 DEF D

\* x stands once in s followed by t; it does not.
OnceIn(s, t, x) ==
    \/ Once(s, x) /\ Absent(t, x)
    \/ Absent(s, x) /\ Once(t, x)
NotIn(s, t, x) == Absent(s, x) /\ Absent(t, x)

\* Each live entry of js is in its lanes, or what is pushed brings it there.
Led(js, more) ==
    \A id \in DOMAIN js : Waiting(js[id]) =>
        \A o \in Origins :
            /\ o \in OriginsOf(js[id]) =>
                 OnceIn(RefsOf(lanes, o, js[id].aggregate), more[o][js[id].aggregate], id)
            /\ o \notin OriginsOf(js[id]) =>
                 NotIn(RefsOf(lanes, o, js[id].aggregate), more[o][js[id].aggregate], id)

LEMMA PushReaches ==
    ASSUME SchedulerAssumption, NEW more \in [Origins -> [BOOLEAN -> Seq(Nat)]],
           NEW next \in Nat, nextId <= next, nextId \in Nat,
           IsLanes(lanes), origins \in Seq(Origins), Turned(lanes, origins),
           Referring(lanes, nextId), Push(lanes, origins, more),
           IsJobs(jobs', next), Led(jobs', more),
           \A o \in Origins : \A a \in BOOLEAN : \A i \in DOMAIN more[o][a] : more[o][a][i] < next
    PROVE  /\ Covered(jobs', lanes') /\ Confined(jobs', lanes') /\ Referring(lanes', next)
           /\ IsLanes(lanes') /\ origins' \in Seq(Origins) /\ Turned(lanes', origins')
           /\ \A n \in DOMAIN origins' : origins'[n] \in DOMAIN lanes =>
                \E i \in DOMAIN origins : origins[i] = origins'[n] /\ n <= i
<1>1. /\ DOMAIN lanes' = DOMAIN lanes \cup {o \in Origins : \E a \in BOOLEAN : more[o][a] # <<>>}
      /\ \A o \in DOMAIN lanes' : \A a \in BOOLEAN :
           /\ lanes'[o].refs[a] = RefsOf(lanes, o, a) \o more[o][a]
           /\ o \in Origins /\ RefsOf(lanes, o, a) \in Seq(Nat) /\ more[o][a] \in Seq(Nat)
      /\ IsLanes(lanes') /\ origins' \in Seq(Origins)
      /\ Turned(lanes', origins')
      /\ \A n \in DOMAIN origins' : origins'[n] \in DOMAIN lanes =>
           \E i \in DOMAIN origins : origins[i] = origins'[n] /\ n <= i
  BY PushAdds
<1>2. \A id \in DOMAIN jobs' : jobs'[id].aggregate \in BOOLEAN /\ OriginsOf(jobs'[id]) \subseteq Origins
  BY EntryFacts DEF IsJobs
<1>3. Covered(jobs', lanes')
  <2> SUFFICES ASSUME NEW id \in DOMAIN jobs', Waiting(jobs'[id]), NEW o \in OriginsOf(jobs'[id])
               PROVE  o \in DOMAIN lanes' /\ Once(lanes'[o].refs[jobs'[id].aggregate], id)
    BY DEF Covered
  <2> DEFINE a == jobs'[id].aggregate s == RefsOf(lanes, o, a) t == more[o][a]
  <2>1. a \in BOOLEAN /\ o \in Origins
    BY <1>2
  <2>2. \/ Once(s, id) /\ Absent(t, id)
        \/ Absent(s, id) /\ Once(t, id)
    BY <2>1, Zenon DEF Led, OnceIn
  <2>3. o \in DOMAIN lanes'
    <3>1. Once(s, id) => o \in DOMAIN lanes
      BY DEF Once, RefsOf
    <3>2. Once(t, id) => t # <<>>
      BY DEF Once
    <3> HIDE DEF s
    <3> QED
      BY <1>1, <2>1, <2>2, <3>1, <3>2
  <2>4. lanes'[o].refs[a] = s \o t /\ s \in Seq(Nat) /\ t \in Seq(Nat)
    BY <1>1, <2>1, <2>3
  <2> HIDE DEF s, t
  <2>5. Once(s \o t, id)
    BY <2>2, <2>4, JoinedOnce
  <2> QED
    BY <2>3, <2>4, <2>5
<1>4. Confined(jobs', lanes')
  <2> SUFFICES ASSUME NEW id \in DOMAIN jobs', Waiting(jobs'[id]),
                      NEW o \in DOMAIN lanes' \ OriginsOf(jobs'[id])
               PROVE  Absent(lanes'[o].refs[jobs'[id].aggregate], id)
    BY DEF Confined, Absent
  <2> DEFINE a == jobs'[id].aggregate s == RefsOf(lanes, o, a) t == more[o][a]
  <2>1. a \in BOOLEAN /\ o \in Origins /\ o \notin OriginsOf(jobs'[id])
    BY <1>1, <1>2
  <2>2. Absent(s, id) /\ Absent(t, id)
    BY <2>1, Zenon DEF Led, NotIn
  <2>3. lanes'[o].refs[a] = s \o t /\ s \in Seq(Nat) /\ t \in Seq(Nat)
    BY <1>1, <2>1
  <2> HIDE DEF s, t
  <2>4. Absent(s \o t, id)
    BY <2>2, <2>3, JoinedOnce
  <2> QED
    BY <2>3, <2>4
<1>5. Referring(lanes', next)
  <2> SUFFICES ASSUME NEW o \in DOMAIN lanes', NEW a \in BOOLEAN, NEW i \in DOMAIN lanes'[o].refs[a]
               PROVE  lanes'[o].refs[a][i] < next
    BY DEF Referring
  <2> DEFINE s == RefsOf(lanes, o, a) t == more[o][a]
  <2>1. lanes'[o].refs[a] = s \o t /\ s \in Seq(Nat) /\ t \in Seq(Nat) /\ o \in Origins
    BY <1>1
  <2>2. \A n \in 1 .. Len(s) : s[n] \in Nat /\ s[n] < nextId
    <3>1. \A n \in DOMAIN s : s[n] < nextId
      BY DEF Referring, RefsOf
    <3> HIDE DEF s
    <3> QED
      BY <2>1, <3>1
  <2>3. \A n \in 1 .. Len(t) : t[n] \in Nat /\ t[n] < next
    <3>1. \A n \in DOMAIN t : t[n] < next
      BY <2>1
    <3> HIDE DEF t
    <3> QED
      BY <2>1, <3>1
  <2> HIDE DEF s, t
  <2>4. i \in 1 .. Len(s) + Len(t) /\ Len(s) \in Nat /\ Len(t) \in Nat
    BY <2>1
  <2>5. CASE i \in 1 .. Len(s)
    <3>1. (s \o t)[i] = s[i]
      BY <2>1, <2>5
    <3> QED
      BY <2>1, <2>2, <2>5, <3>1
  <2>6. CASE i \notin 1 .. Len(s)
    <3>1. i - Len(s) \in 1 .. Len(t) /\ (s \o t)[i] = t[i - Len(s)]
      BY <2>1, <2>4, <2>6
    <3> QED
      BY <2>1, <2>3, <3>1
  <2> QED
    BY <2>5, <2>6
<1> QED
  BY <1>1, <1>3, <1>4, <1>5

-----------------------------------------------------------------------------
(* Turns passed over                                                       *)

\* An origin that had a lane is no further back.
Closer(ls, before, after) ==
    \A n \in DOMAIN after : after[n] \in DOMAIN ls =>
        \E i \in DOMAIN before : before[i] = after[n] /\ n <= i

\* A step that serves nobody passes over nobody.
LEMMA SkipKeeps ==
    ASSUME SchedulerAssumption, Skip({}), skipped \in [Origins -> Nat],
           Passed(skipped, lanes, origins), Covered(jobs', lanes'),
           origins \in Seq(Origins), origins' \in Seq(Origins),
           Closer(lanes, origins, origins')
    PROVE  skipped' \in [Origins -> Nat] /\ Passed(skipped', lanes', origins')
<1>1. /\ skipped' \in [Origins -> Nat]
      /\ \A o \in Origins : skipped'[o] # 0 =>
           skipped'[o] = skipped[o] /\ Eligible(o, jobs', verified')
  BY DEF Skip
<1>2. \A o \in Origins : skipped'[o] # 0 => o \in DOMAIN lanes /\ o \in DOMAIN lanes'
  BY <1>1 DEF Eligible, Covered, Passed
<1>3. ASSUME NEW n \in DOMAIN origins', skipped'[origins'[n]] # 0
      PROVE  skipped'[origins'[n]] + n <= Cardinality(Origins)
  <2> DEFINE o == origins'[n]
  <2>1. o \in Origins /\ n \in Nat
    OBVIOUS
  <2>2. o \in DOMAIN lanes /\ skipped'[o] = skipped[o] /\ skipped[o] # 0 /\ skipped[o] \in Nat
    BY <1>1, <1>2, <1>3, <2>1
  <2>3. PICK i \in DOMAIN origins : origins[i] = o /\ n <= i
    BY <2>2 DEF Closer
  <2>4. skipped[o] + i <= Cardinality(Origins) /\ i \in Nat
    BY <2>2, <2>3 DEF Passed
  <2>5. Cardinality(Origins) \in Nat
    BY FS_CardinalityType DEF SchedulerAssumption
  <2> HIDE DEF o
  <2>6. skipped[o] + n <= Cardinality(Origins)
    BY <2>1, <2>2, <2>3, <2>4, <2>5
  <2> QED
    BY <2>2, <2>6 DEF o
<1> QED
  BY <1>1, <1>2, <1>3 DEF Passed

-----------------------------------------------------------------------------
(* The steps that claim nothing and admit nothing                          *)

\* A live entry of js2 was in js and is as it was.
Fewer(js2, js) == \A id \in DOMAIN js2 : Waiting(js2[id]) => id \in DOMAIN js /\ js2[id] = js[id]

LEMMA FewerKeeps ==
    ASSUME NEW js, NEW js2, Fewer(js2, js)
    PROVE  /\ \A ls : Covered(js, ls) => Covered(js2, ls)
           /\ \A ls : Confined(js, ls) => Confined(js2, ls)
           /\ \A cs : Known(js, cs) => Known(js2, cs)
           /\ \A st : Apart(js, st) => Apart(js2, st)
<1>1. \A ls : Covered(js, ls) => Covered(js2, ls)
  BY Zenon DEF Fewer, Covered
<1>2. \A ls : Confined(js, ls) => Confined(js2, ls)
  BY Zenon DEF Fewer, Confined
<1>3. \A cs : Known(js, cs) => Known(js2, cs)
  BY Zenon DEF Fewer, Known
<1>4. \A st : Apart(js, st) => Apart(js2, st)
  BY DEF Fewer, Apart, Waiting
<1> QED
  BY <1>1, <1>2, <1>3, <1>4

LEMMA SameTurns ==
    ASSUME origins \in Seq(Origins)
    PROVE  Closer(lanes, origins, origins) /\ NoLater(origins, origins)
<1>1. \A n \in DOMAIN origins : n <= n
  OBVIOUS
<1> QED
  BY <1>1 DEF Closer, NoLater

LEMMA NoLaterCloser ==
    ASSUME NEW ls, NEW before, NEW after, NoLater(before, after)
    PROVE  Closer(ls, before, after)
BY DEF NoLater, Closer

\* Where lanes, turns and the work stay as they are.
LEMMA StillStep ==
    ASSUME SchedulerAssumption, QueueInv, IsJobs(jobs', nextId), DOMAIN jobs' = DOMAIN jobs,
           \A id \in DOMAIN jobs : KeysOf(jobs'[id]) = KeysOf(jobs[id]), Fewer(jobs', jobs),
           UNCHANGED <<keyIndex, lanes, origins, nextId, started, callers>>, Skip({})
    PROVE  QueueInv'
<1> USE DEF QueueInv, WorkInv, LaneInv, TypeInv
<1>1. Covered(jobs', lanes') /\ Confined(jobs', lanes')
  BY FewerKeeps
<1>2. Known(jobs', callers') /\ Apart(jobs', started')
  BY FewerKeeps
<1>3. Indexed(jobs', keyIndex')
  <2>1. ASSUME NEW id \in DOMAIN jobs', Waiting(jobs'[id]), NEW k \in KeysOf(jobs'[id])
        PROVE  k \in DOMAIN keyIndex /\ keyIndex[k] = id
    <3>1. jobs'[id] = jobs[id] /\ id \in DOMAIN jobs
      BY <2>1, Zenon DEF Fewer
    <3> QED
      BY <2>1, <3>1 DEF Indexed
  <2> QED
    BY <2>1 DEF Indexed
<1>4. Passed(skipped', lanes', origins') /\ skipped' \in [Origins -> Nat]
  <2>1. origins' \in Seq(Origins) /\ Closer(lanes, origins, origins')
    BY SameTurns
  <2> QED
    BY <1>1, <2>1, SkipKeeps
<1> QED
  BY <1>1, <1>2, <1>3, <1>4

LEMMA StopWaitingStep ==
    ASSUME SchedulerAssumption, QueueInv, NEW id \in DOMAIN jobs, StopWaiting(id)
    PROVE  QueueInv'
<1>1. jobs[id] \in Entries /\ jobs[id].resume /\ IsJobs(jobs, nextId)
  BY DEF QueueInv, TypeInv, IsJobs, StopWaiting
<1>2. jobs' = [jobs EXCEPT ![id].open = FALSE]
  BY DEF StopWaiting
<1>3. DOMAIN jobs' = DOMAIN jobs /\ \A n \in DOMAIN jobs : n # id => jobs'[n] = jobs[n]
  BY <1>2
<1>4. /\ jobs'[id] \in Entries /\ jobs'[id].members = jobs[id].members
      /\ jobs'[id].resume /\ ~jobs'[id].open
  BY <1>1, <1>2 DEF Entries
<1>5. IsJobs(jobs', nextId)
  BY <1>1, <1>3, <1>4 DEF IsJobs
<1>6. \A n \in DOMAIN jobs : KeysOf(jobs'[n]) = KeysOf(jobs[n])
  BY <1>3, <1>4 DEF KeysOf
<1>7. Fewer(jobs', jobs)
  BY <1>3, <1>4 DEF Fewer, Waiting
<1> QED
  BY <1>3, <1>5, <1>6, <1>7, StillStep DEF StopWaiting

LEMMA VerifiedStep ==
    ASSUME SchedulerAssumption, QueueInv, NEW r \in Routes, Verified(r)
    PROVE  QueueInv'
<1>1. jobs' = jobs /\ Fewer(jobs', jobs)
  BY DEF Verified, Fewer
<1>2. IsJobs(jobs', nextId)
  BY <1>1 DEF QueueInv, TypeInv
<1> QED
  BY <1>1, <1>2, StillStep DEF Verified

LEMMA ServeNoneStep ==
    ASSUME SchedulerAssumption, QueueInv, ServeNone
    PROVE  QueueInv'
<1> USE DEF QueueInv, WorkInv, LaneInv, TypeInv
<1>1. UNCHANGED <<jobs, keyIndex, nextId, started, callers>> /\ Skip({})
  BY Zenon DEF ServeNone
<1>2. Pruned(lanes, origins)
  BY <1>1, Zenon DEF ServeNone, Pruned
<1>3. /\ IsLanes(lanes') /\ origins' \in Seq(Origins)
      /\ Turned(lanes', origins') /\ Covered(jobs', lanes') /\ Confined(jobs', lanes')
      /\ Referring(lanes', nextId) /\ NoLater(origins, origins')
  BY <1>1, <1>2, LanesPruned
<1>4. Passed(skipped', lanes', origins') /\ skipped' \in [Origins -> Nat]
  BY <1>1, <1>3, NoLaterCloser, SkipKeeps
<1> QED
  BY <1>1, <1>3, <1>4

LEMMA DrainStep ==
    ASSUME SchedulerAssumption, QueueInv, Drain
    PROVE  QueueInv'
<1> USE DEF QueueInv, WorkInv, LaneInv, TypeInv
<1>1. /\ DOMAIN jobs' = {} /\ DOMAIN keyIndex' = {} /\ DOMAIN lanes' = {} /\ origins' = <<>>
      /\ nextId' = nextId /\ started' = started /\ Skip({})
      /\ callers' = [k \in Keys |-> IF k \in QueuedKeys THEN {} ELSE callers[k]]
  BY DEF Drain
<1>2. callers' \in [Keys -> SUBSET Origins]
  BY <1>1
<1>3. \A j \in started : \A k \in j.keys : callers'[k] # {}
  <2> SUFFICES ASSUME NEW j \in started, NEW k \in j.keys PROVE callers'[k] # {}
    OBVIOUS
  <2>1. k \in Keys
    OBVIOUS
  <2>2. k \notin QueuedKeys
    BY DEF QueuedKeys, Apart
  <2> QED
    BY <1>1, <2>1, <2>2 DEF Active
<1>4. Active(started', callers')
  BY <1>1, <1>3 DEF Active
<1>5. /\ IsJobs(jobs', nextId') /\ IsLanes(lanes') /\ origins' \in Seq(Origins)
      /\ Indexed(jobs', keyIndex') /\ Known(jobs', callers') /\ Apart(jobs', started')
      /\ Turned(lanes', origins') /\ Covered(jobs', lanes') /\ Confined(jobs', lanes')
      /\ Referring(lanes', nextId')
  BY <1>1 DEF IsJobs, IsLanes, Indexed, Known, Apart, Turned, Unrepeated, Covered, Confined, Referring
<1>6. Closer(lanes, origins, origins')
  BY <1>1 DEF Closer
<1>7. Passed(skipped', lanes', origins') /\ skipped' \in [Origins -> Nat]
  BY <1>1, <1>5, <1>6, SkipKeeps
<1> QED
  BY <1>1, <1>2, <1>4, <1>5, <1>7

-----------------------------------------------------------------------------
(* Claims                                                                  *)

\* ls are the lanes as they are but for what they prefer.
SameRefs(ls) ==
    /\ DOMAIN ls = DOMAIN lanes
    /\ \A o \in DOMAIN ls : \A a \in BOOLEAN : ls[o].refs[a] = lanes[o].refs[a]

LEMMA ClaimKeeps ==
    ASSUME QueueInv, NEW id \in DOMAIN jobs, NEW ls, NEW turns, IsLanes(ls), SameRefs(ls),
           turns \in Seq(Origins), Turned(ls, turns), Claim(id, ls, turns)
    PROVE  /\ Fewer(jobs', jobs) /\ id \notin DOMAIN jobs' /\ IsJobs(jobs', nextId)
           /\ DOMAIN keyIndex' \subseteq Keys /\ Indexed(jobs', keyIndex')
           /\ IsLanes(lanes') /\ origins' \in Seq(Origins) /\ Turned(lanes', origins')
           /\ Covered(jobs', lanes') /\ Confined(jobs', lanes') /\ Referring(lanes', nextId)
           /\ NoLater(turns, origins')
<1> DEFINE js == Restrict(jobs, DOMAIN jobs \ {id})
           index == IndexWithout(keyIndex, jobs, {id})
<1>1. /\ DOMAIN js = DOMAIN jobs \ {id}
      /\ \A n \in DOMAIN js : js[n] = jobs[n]
      /\ DOMAIN index = {k \in DOMAIN keyIndex : keyIndex[k] # id}
      /\ \A k \in DOMAIN index : index[k] = keyIndex[k]
  BY DEF Restrict, IndexWithout
<1>2. Prune(js, index, ls, turns)
  BY Zenon DEF Claim
<1> HIDE DEF js, index
<1>3. IsJobs(js, nextId)
  BY <1>1 DEF QueueInv, TypeInv, IsJobs
<1>4. Covered(js, ls)
  <2> SUFFICES ASSUME NEW n \in DOMAIN js, Waiting(js[n]), NEW o \in OriginsOf(js[n])
               PROVE  o \in DOMAIN ls /\ Once(ls[o].refs[js[n].aggregate], n)
    BY DEF Covered
  <2>1. n \in DOMAIN jobs /\ js[n] = jobs[n]
    BY <1>1
  <2>2. o \in DOMAIN lanes /\ Once(lanes[o].refs[js[n].aggregate], n)
    BY <2>1 DEF QueueInv, LaneInv, Covered
  <2>3. js[n].aggregate \in BOOLEAN
    BY <1>3, EntryFacts DEF IsJobs
  <2> QED
    BY <2>2, <2>3 DEF SameRefs
<1>5. Referring(ls, nextId)
  BY DEF SameRefs, QueueInv, LaneInv, Referring
<1>6. Indexed(js, index)
  BY <1>1 DEF QueueInv, WorkInv, Indexed
<1>7. /\ DOMAIN jobs' = {n \in DOMAIN js : Waiting(js[n])}
      /\ \A n \in DOMAIN jobs' : jobs'[n] = js[n]
      /\ IsJobs(jobs', nextId) /\ IsLanes(lanes') /\ origins' \in Seq(Origins)
      /\ DOMAIN keyIndex' \subseteq DOMAIN index
      /\ Indexed(jobs', keyIndex')
      /\ Turned(lanes', origins') /\ Covered(jobs', lanes') /\ Confined(jobs', lanes')
      /\ Referring(lanes', nextId) /\ NoLater(turns, origins')
  BY <1>2, <1>3, <1>4, <1>5, <1>6, PruneKeeps
<1>8. Fewer(jobs', jobs) /\ id \notin DOMAIN jobs'
  BY <1>1, <1>7 DEF Fewer
<1>9. DOMAIN keyIndex' \subseteq Keys
  BY <1>1, <1>7 DEF QueueInv, TypeInv
<1> QED
  BY <1>7, <1>8, <1>9

\* Claimed work is started, and its keys are of nothing else.
LEMMA ClaimStarts ==
    ASSUME QueueInv, NEW id \in DOMAIN jobs, Waiting(jobs[id]),
           Fewer(jobs', jobs), id \notin DOMAIN jobs', callers' = callers,
           started' = IF jobs[id].resume THEN started
                      ELSE started \cup {[keys |-> KeysOf(jobs[id]), aggregate |-> jobs[id].aggregate]}
    PROVE  /\ started' \subseteq [keys : (SUBSET Keys) \ {{}}, aggregate : BOOLEAN]
           /\ Known(jobs', callers') /\ Apart(jobs', started') /\ Active(started', callers')
<1> USE DEF QueueInv, WorkInv, TypeInv
<1> DEFINE e == jobs[id] new == [keys |-> KeysOf(e), aggregate |-> e.aggregate]
<1>1. e \in Entries
  BY DEF IsJobs
<1>2. new \in [keys : (SUBSET Keys) \ {{}}, aggregate : BOOLEAN]
  BY <1>1, EntryFacts
<1>3. Known(jobs', callers') /\ Apart(jobs', started)
  BY FewerKeeps
<1>4. CASE e.resume
  BY <1>3, <1>4
<1>5. CASE ~e.resume
  <2>1. started' = started \cup {new}
    BY <1>5
  <2>2. \A j \in started : KeysOf(e) \cap j.keys = {}
    BY <1>5 DEF Apart
  <2>3. \A k \in KeysOf(e) : callers'[k] # {}
    BY DEF Known
  <2>4. Active(started', callers')
    <3>1. new.keys = KeysOf(e)
      OBVIOUS
    <3>2. \A j, l \in started : j.keys \cap l.keys # {} => j = l
      BY DEF Active
    <3>3. \A j \in started : \A k \in j.keys : callers'[k] # {}
      BY DEF Active
    <3> HIDE DEF new, e
    <3> QED
      BY <2>1, <2>2, <2>3, <3>1, <3>2, <3>3 DEF Active
  <2>5. ASSUME NEW n \in DOMAIN jobs', ~jobs'[n].resume
        PROVE  KeysOf(jobs'[n]) \cap KeysOf(e) = {}
    <3>1. Waiting(jobs'[n])
      BY <2>5 DEF Waiting
    <3>2. n \in DOMAIN jobs /\ jobs'[n] = jobs[n] /\ n # id /\ Waiting(jobs[n])
      BY <3>1 DEF Fewer
    <3>3. \A k \in KeysOf(jobs[n]) : keyIndex[k] = n
      BY <3>2 DEF Indexed
    <3>4. \A k \in KeysOf(e) : keyIndex[k] = id
      BY DEF Indexed
    <3> QED
      BY <3>2, <3>3, <3>4
  <2>6. Apart(jobs', started')
    <3>1. new.keys = KeysOf(e)
      OBVIOUS
    <3> HIDE DEF new, e
    <3> QED
      BY <1>3, <2>1, <2>5, <3>1 DEF Apart
  <2>7. started' \subseteq [keys : (SUBSET Keys) \ {{}}, aggregate : BOOLEAN]
    <3> HIDE DEF new
    <3> QED
      BY <1>2, <2>1
  <2> QED
    BY <1>3, <2>4, <2>6, <2>7
<1> QED
  BY <1>4, <1>5

LEMMA NatLeast ==
    ASSUME NEW I \in SUBSET Nat, I # {}
    PROVE  \E x \in I : \A y \in I : x <= y
<1> DEFINE R == OpToRel(<, Nat)
<1>1. PICK x \in I : \A y \in I : ~(<<y, x>> \in R)
  BY NatLessThanWellFounded, WFMin, Zenon
<1>2. \A y \in I : x <= y
  <2> SUFFICES ASSUME NEW y \in I, y < x PROVE FALSE
    OBVIOUS
  <2>1. <<y, x>> \in R
    BY Zenon DEF OpToRel
  <2> QED
    BY <1>1, <2>1, Zenon
<1> QED
  BY <1>2

LEMMA VerifyStep ==
    ASSUME SchedulerAssumption, QueueInv, Verify
    PROVE  QueueInv'
<1> DEFINE waiting == {n \in DOMAIN jobs : ~ReadReady(jobs[n])}
           id == CHOOSE n \in waiting : \A m \in waiting : n <= m
<1>1. /\ waiting # {}
      /\ Claim(id, lanes, origins)
      /\ started' = started \cup {[keys |-> KeysOf(jobs[id]), aggregate |-> jobs[id].aggregate]}
      /\ UNCHANGED <<nextId, callers>> /\ Skip({})
  BY Zenon DEF Verify
<1>2. id \in waiting
  <2>1. waiting \in SUBSET Nat
    BY DEF QueueInv, TypeInv, IsJobs
  <2> HIDE DEF waiting
  <2>2. \E n \in waiting : \A m \in waiting : n <= m
    BY <1>1, <2>1, NatLeast
  <2> QED
    BY <2>2, Zenon
<1>3. id \in DOMAIN jobs /\ ~jobs[id].resume /\ Waiting(jobs[id])
  BY <1>2 DEF ReadReady, Waiting
<1> HIDE DEF id, waiting
<1> USE DEF QueueInv, WorkInv, LaneInv, TypeInv
<1>4. IsLanes(lanes) /\ SameRefs(lanes) /\ Turned(lanes, origins) /\ origins \in Seq(Origins)
  BY DEF SameRefs
<1>5. /\ Fewer(jobs', jobs) /\ id \notin DOMAIN jobs' /\ IsJobs(jobs', nextId)
      /\ DOMAIN keyIndex' \subseteq Keys /\ Indexed(jobs', keyIndex')
      /\ IsLanes(lanes') /\ origins' \in Seq(Origins) /\ Turned(lanes', origins')
      /\ Covered(jobs', lanes') /\ Confined(jobs', lanes') /\ Referring(lanes', nextId)
      /\ NoLater(origins, origins')
  BY <1>1, <1>3, <1>4, ClaimKeeps
<1>6. started' = IF jobs[id].resume THEN started
                 ELSE started \cup {[keys |-> KeysOf(jobs[id]), aggregate |-> jobs[id].aggregate]}
  BY <1>1, <1>3
<1>7. /\ started' \subseteq [keys : (SUBSET Keys) \ {{}}, aggregate : BOOLEAN]
      /\ Known(jobs', callers') /\ Apart(jobs', started') /\ Active(started', callers')
  BY <1>1, <1>3, <1>5, <1>6, ClaimStarts
<1>8. Passed(skipped', lanes', origins') /\ skipped' \in [Origins -> Nat]
  BY <1>1, <1>5, NoLaterCloser, SkipKeeps
<1> QED
  BY <1>1, <1>5, <1>7, <1>8

\* No more turns than origins.
LEMMA TurnsCount ==
    ASSUME SchedulerAssumption, origins \in Seq(Origins), Unrepeated(origins)
    PROVE  /\ Len(origins) \in Nat /\ Cardinality(Origins) \in Nat
           /\ Len(origins) <= Cardinality(Origins)
<1>1. origins \in [1 .. Len(origins) -> Origins] /\ Len(origins) \in Nat
  OBVIOUS
<1>2. origins \in Injection(1 .. Len(origins), Origins)
  BY <1>1 DEF Unrepeated, Injection, IsInjective
<1>3. Cardinality(1 .. Len(origins)) <= Cardinality(Origins)
  BY <1>2, FS_Injection DEF SchedulerAssumption
<1>4. Cardinality(1 .. Len(origins)) = Len(origins)
  <2>1. \A l \in Nat : Cardinality(1 .. l) = l
    <3> SUFFICES ASSUME NEW l \in Nat PROVE Cardinality(1 .. l) = l
      OBVIOUS
    <3>1. Cardinality(1 .. l) = IF 1 > l THEN 0 ELSE l - 1 + 1
      BY FS_Interval
    <3> QED
      BY <3>1
  <2> QED
    BY <1>1, <2>1
<1>5. Cardinality(Origins) \in Nat
  BY FS_CardinalityType DEF SchedulerAssumption
<1> QED
  BY <1>1, <1>3, <1>4, <1>5

\* The turns after i was served: the later ones move up by i.
LEMMA TurnsMove ==
    ASSUME origins \in Seq(Origins), NEW i \in DOMAIN origins
    PROVE  /\ TurnsAfter(i) \in Seq(Origins) /\ DOMAIN TurnsAfter(i) = DOMAIN origins
           /\ \A n \in DOMAIN origins :
                /\ n <= Len(origins) - i => /\ n + i \in DOMAIN origins
                                            /\ TurnsAfter(i)[n] = origins[n + i]
                /\ n > Len(origins) - i => /\ n - (Len(origins) - i) \in 1 .. i
                                           /\ TurnsAfter(i)[n] = origins[n - (Len(origins) - i)]
<1> DEFINE L == Len(origins)
           s == SubSeq(origins, i + 1, L)
           t == SubSeq(origins, 1, i)
<1>1. i \in 1 .. L /\ L \in Nat /\ DOMAIN origins = 1 .. L /\ i \in Nat
  OBVIOUS
<1>2. /\ s \in Seq(Origins) /\ Len(s) = L - i
      /\ \A n \in 1 .. L - i : s[n] = origins[n + i]
  BY <1>1
<1>3. /\ t \in Seq(Origins) /\ Len(t) = i
      /\ \A n \in 1 .. i : t[n] = origins[n]
  BY <1>1
<1>4. TurnsAfter(i) = s \o t
  BY DEF TurnsAfter
<1> HIDE DEF s, t, L
<1>5. /\ TurnsAfter(i) \in Seq(Origins) /\ Len(TurnsAfter(i)) = L
      /\ DOMAIN TurnsAfter(i) = 1 .. L
  <2>1. s \o t \in Seq(Origins) /\ Len(s \o t) = Len(s) + Len(t)
    BY <1>2, <1>3, ConcatProperties
  <2>2. Len(s) + Len(t) = L
    BY <1>1, <1>2, <1>3
  <2> QED
    BY <1>4, <2>1, <2>2
<1>6. ASSUME NEW n \in 1 .. L, n <= L - i
      PROVE  n + i \in 1 .. L /\ TurnsAfter(i)[n] = origins[n + i]
  BY <1>1, <1>2, <1>3, <1>4, <1>6
<1>7. ASSUME NEW n \in 1 .. L, n > L - i
      PROVE  n - (L - i) \in 1 .. i /\ TurnsAfter(i)[n] = origins[n - (L - i)]
  <2>1. n - (L - i) \in 1 .. i
    BY <1>1, <1>7
  <2>2. TurnsAfter(i)[n] = t[n - (L - i)]
    BY <1>1, <1>2, <1>3, <1>4, <1>7, <2>1
  <2> QED
    BY <1>3, <2>1, <2>2
<1> QED
  BY <1>1, <1>5, <1>6, <1>7 DEF L

LEMMA TurnsAfterTurned ==
    ASSUME NEW ls, origins \in Seq(Origins), Turned(ls, origins), NEW i \in DOMAIN origins
    PROVE  Turned(ls, TurnsAfter(i))
<1> DEFINE L == Len(origins) turns == TurnsAfter(i)
<1>1. i \in 1 .. L /\ L \in Nat /\ DOMAIN origins = 1 .. L /\ DOMAIN turns = 1 .. L
  BY TurnsMove
<1>2. \A n \in 1 .. L :
        /\ n <= L - i => n + i \in 1 .. L /\ turns[n] = origins[n + i]
        /\ n > L - i => n - (L - i) \in 1 .. i /\ turns[n] = origins[n - (L - i)]
  BY <1>1, TurnsMove
<1> DEFINE old == [n \in 1 .. L |-> IF n <= L - i THEN n + i ELSE n - (L - i)]
<1> HIDE DEF L, turns
<1>3. \A n \in 1 .. L : old[n] \in 1 .. L /\ turns[n] = origins[old[n]]
  BY <1>1, <1>2
<1>4. \A n, m \in 1 .. L : old[n] = old[m] => n = m
  BY <1>1
<1>5. \A m \in 1 .. L : \E n \in 1 .. L : old[n] = m
  <2> SUFFICES ASSUME NEW m \in 1 .. L PROVE \E n \in 1 .. L : old[n] = m
    OBVIOUS
  <2>1. CASE m > i
    <3>1. m - i \in 1 .. L /\ old[m - i] = m
      BY <1>1, <2>1
    <3> QED
      BY <3>1
  <2>2. CASE m <= i
    <3>1. m + (L - i) \in 1 .. L /\ old[m + (L - i)] = m
      BY <1>1, <2>2
    <3> QED
      BY <3>1
  <2> QED
    BY <1>1, <2>1, <2>2
<1> HIDE DEF old
<1>6. Unrepeated(turns)
  BY <1>1, <1>3, <1>4 DEF Turned, Unrepeated
<1>7. \A n \in DOMAIN turns : turns[n] \in DOMAIN ls
  BY <1>1, <1>3 DEF Turned
<1>8. \A o \in DOMAIN ls : \E n \in DOMAIN turns : turns[n] = o
  <2> SUFFICES ASSUME NEW o \in DOMAIN ls PROVE \E n \in DOMAIN turns : turns[n] = o
    OBVIOUS
  <2>1. PICK m \in 1 .. L : origins[m] = o
    BY <1>1 DEF Turned
  <2>2. PICK n \in 1 .. L : old[n] = m
    BY <1>5
  <2> QED
    BY <1>1, <1>3, <2>1, <2>2
<1> QED
  BY <1>6, <1>7, <1>8 DEF Turned, turns

\* An origin with work that may read has a reference to take.
LEMMA EligibleTakes ==
    ASSUME QueueInv, Fewer(jobs', jobs), verified' = verified,
           NEW o \in Origins, Eligible(o, jobs', verified')
    PROVE  o \in DOMAIN lanes /\ Takes(o)
<1>1. PICK id \in DOMAIN jobs' :
        /\ o \in OriginsOf(jobs'[id]) /\ Waiting(jobs'[id])
        /\ jobs'[id].resume \/ \A k \in KeysOf(jobs'[id]) : RouteOf[k] \in verified
  BY Zenon DEF Eligible
<1>2. id \in DOMAIN jobs /\ jobs'[id] = jobs[id]
  BY <1>1 DEF Fewer
<1> DEFINE a == jobs[id].aggregate
<1>3. a \in BOOLEAN
  BY <1>2, EntryFacts DEF QueueInv, TypeInv, IsJobs
<1>4. o \in DOMAIN lanes /\ Once(lanes[o].refs[a], id)
  BY <1>1, <1>2 DEF QueueInv, LaneInv, Covered
<1>5. PICK p \in DOMAIN lanes[o].refs[a] : lanes[o].refs[a][p] = id
  BY <1>4 DEF Once
<1>6. Belongs(jobs[id], o, a) /\ ReadReady(jobs[id])
  BY <1>1, <1>2 DEF Belongs, ReadReady
<1>7. p \in Takeable(o, a)
  BY <1>2, <1>5, <1>6 DEF Takeable
<1> QED
  BY <1>3, <1>4, <1>7 DEF Takes

LEMMA OneTurnCloser ==
    ASSUME NEW x \in Nat, NEW n \in Nat, NEW m \in Nat, NEW i \in Nat, NEW c \in Nat,
           i >= 1, n <= m, m + i <= c, x # 0 => x + (m + i) <= c
    PROVE  x + 1 + n <= c
OBVIOUS

\* A turn passes over each eligible origin once, and brings it closer to its own.
LEMMA ServeSkips ==
    ASSUME SchedulerAssumption, QueueInv, NEW i \in DOMAIN origins, NEW served,
           origins[i] \in served, Skip(served),
           \A n \in 1 .. i - 1 : ~Takes(origins[n]),
           Fewer(jobs', jobs), verified' = verified, Covered(jobs', lanes'),
           origins' \in Seq(Origins), NoLater(TurnsAfter(i), origins')
    PROVE  skipped' \in [Origins -> Nat] /\ Passed(skipped', lanes', origins')
<1> USE DEF QueueInv, TypeInv, LaneInv
<1>0. skipped \in [Origins -> Nat] /\ origins \in Seq(Origins) /\ Turned(lanes, origins)
  OBVIOUS
<1>1. /\ skipped' \in [Origins -> Nat]
      /\ \A o \in Origins : skipped'[o] # 0 =>
           o \notin served /\ skipped'[o] = skipped[o] + 1 /\ Eligible(o, jobs', verified')
  BY <1>0 DEF Skip
<1>2. \A o \in Origins : skipped'[o] # 0 => o \in DOMAIN lanes'
  BY <1>1 DEF Eligible, Covered
<1>3. ASSUME NEW n \in DOMAIN origins', skipped'[origins'[n]] # 0
      PROVE  skipped'[origins'[n]] + n <= Cardinality(Origins)
  <2> DEFINE o == origins'[n] L == Len(origins) C == Cardinality(Origins)
  <2>1. o \in Origins /\ n \in Nat
    OBVIOUS
  <2>2. /\ o \notin served /\ skipped'[o] = skipped[o] + 1 /\ skipped[o] \in Nat
        /\ Takes(o)
    BY <1>0, <1>1, <1>3, <2>1, EligibleTakes
  <2>3. PICK m \in DOMAIN TurnsAfter(i) : TurnsAfter(i)[m] = o /\ n <= m
    BY DEF NoLater
  <2>4. m \in 1 .. L /\ i \in 1 .. L /\ L \in Nat /\ DOMAIN origins = 1 .. L
    <3>1. i \in 1 .. L /\ L \in Nat /\ DOMAIN origins = 1 .. L
      BY <1>0
    <3>2. m \in DOMAIN origins
      BY <1>0, <2>3, TurnsMove
    <3> QED
      BY <3>1, <3>2
  <2>5. m <= L - i
    <3> SUFFICES ASSUME m > L - i PROVE FALSE
      BY <2>4
    <3>1. m - (L - i) \in 1 .. i /\ o = origins[m - (L - i)]
      BY <1>0, <2>3, <2>4, TurnsMove
    <3> HIDE DEF L, o
    <3>2. CASE m - (L - i) = i
      BY <2>2, <3>1, <3>2
    <3>3. CASE m - (L - i) # i
      <4>1. m - (L - i) \in 1 .. i - 1
        BY <2>4, <3>1, <3>3
      <4> QED
        BY <2>2, <3>1, <4>1
    <3> QED
      BY <3>2, <3>3
  <2>6. m + i \in 1 .. L /\ o = origins[m + i]
    BY <1>0, <2>3, <2>4, <2>5, TurnsMove
  <2>7. L <= C /\ C \in Nat
    BY <1>0, TurnsCount DEF Turned
  <2>8. skipped[o] # 0 => skipped[o] + (m + i) <= C
    BY <2>4, <2>6 DEF Passed
  <2> HIDE DEF o, L, C
  <2>9. n \in Nat /\ m \in Nat /\ i \in Nat /\ i >= 1 /\ n <= m /\ m + i <= C
    BY <2>1, <2>3, <2>4, <2>6, <2>7
  <2>10. skipped[o] + 1 + n <= C
    <3>1. skipped[o] \in Nat /\ C \in Nat
      BY <2>2, <2>7
    <3> QED
      BY <2>8, <2>9, <3>1, OneTurnCloser
  <2> QED
    BY <2>2, <2>10 DEF o, C
<1> QED
  BY <1>1, <1>2, <1>3 DEF Passed

LEMMA ServeStep ==
    ASSUME SchedulerAssumption, QueueInv, NEW i \in DOMAIN origins, Serve(i)
    PROVE  QueueInv'
<1> USE DEF QueueInv, WorkInv, LaneInv, TypeInv
<1> DEFINE o == origins[i]
           a == IF \A b \in BOOLEAN : Takeable(o, b) # {} THEN lanes[o].preferAggregate
                ELSE Takeable(o, TRUE) # {}
           T == Takeable(o, a)
           id == lanes[o].refs[a][CHOOSE p \in T : \A q \in T : p <= q]
           ls == [lanes EXCEPT ![o].preferAggregate = ~a]
<1>1. /\ Takes(o) /\ \A n \in 1 .. i - 1 : ~Takes(origins[n])
      /\ Claim(id, ls, TurnsAfter(i))
      /\ started' = IF jobs[id].resume THEN started
                    ELSE started \cup {[keys |-> KeysOf(jobs[id]), aggregate |-> jobs[id].aggregate]}
      /\ UNCHANGED <<nextId, callers, verified>> /\ Skip({o} \cup OriginsOf(jobs[id]))
  BY Zenon DEF Serve
<1>2. o \in DOMAIN lanes /\ lanes[o] \in Lanes /\ IsLanes(lanes)
  BY DEF Turned, IsLanes
<1>3. lanes[o].preferAggregate \in BOOLEAN
  BY <1>2 DEF Lanes
<1>4. a \in BOOLEAN /\ Takeable(o, a) # {}
  <2>1. CASE \A b \in BOOLEAN : Takeable(o, b) # {}
    <3>1. a = lanes[o].preferAggregate
      BY <2>1
    <3> HIDE DEF a
    <3> QED
      BY <1>3, <2>1, <3>1
  <2>2. CASE ~\A b \in BOOLEAN : Takeable(o, b) # {}
    <3>1. a = (Takeable(o, TRUE) # {})
      BY <2>2
    <3>2. PICK b \in BOOLEAN : Takeable(o, b) # {}
      BY <1>1 DEF Takes
    <3> HIDE DEF a, o
    <3>3. CASE Takeable(o, TRUE) # {}
      <4>1. a = TRUE
        BY <3>1, <3>3, Zenon
      <4> QED
        BY <3>3, <4>1, Zenon
    <3>4. CASE Takeable(o, TRUE) = {}
      <4>1. a = FALSE
        BY <3>1, <3>4, Zenon
      <4>2. Takeable(o, FALSE) # {}
        BY <3>2, <3>4
      <4> QED
        BY <4>1, <4>2, Zenon
    <3> QED
      BY <3>3, <3>4
  <2> HIDE DEF a
  <2> QED
    BY <2>1, <2>2
<1>5. id \in DOMAIN jobs /\ Belongs(jobs[id], o, a)
  <2>1. T \in SUBSET Nat /\ T # {}
    <3>1. lanes[o].refs[a] \in Seq(Nat)
      BY <1>2, <1>4 DEF Lanes
    <3> HIDE DEF a, o
    <3>2. \A p \in Takeable(o, a) : p \in DOMAIN lanes[o].refs[a]
      BY Zenon DEF Takeable
    <3> QED
      BY <1>4, <3>1, <3>2
  <2> HIDE DEF T
  <2>2. \E p \in T : \A q \in T : p <= q
    BY <2>1, NatLeast
  <2>3. (CHOOSE p \in T : \A q \in T : p <= q) \in T
    BY <2>2, Zenon
  <2> HIDE DEF a, o
  <2> QED
    BY <2>3, Zenon DEF T, Takeable
<1> HIDE DEF id, T, a
<1>6. Waiting(jobs[id])
  BY <1>5 DEF Belongs
<1>7. /\ DOMAIN ls = DOMAIN lanes
      /\ \A q \in DOMAIN lanes : q # o => ls[q] = lanes[q]
      /\ ls[o] \in Lanes /\ ls[o].refs = lanes[o].refs
  <2>1. ls[o] = [lanes[o] EXCEPT !.preferAggregate = ~a]
    BY <1>2
  <2> HIDE DEF o
  <2>2. ls[o] \in Lanes /\ ls[o].refs = lanes[o].refs
    BY <1>2, <1>4, <2>1 DEF Lanes
  <2> QED
    BY <2>2
<1> HIDE DEF ls
<1>8. IsLanes(ls) /\ SameRefs(ls) /\ Turned(ls, origins)
  <2> HIDE DEF o
  <2>1. IsLanes(ls)
    BY <1>2, <1>7 DEF IsLanes
  <2>2. SameRefs(ls)
    BY <1>7 DEF SameRefs
  <2>3. Turned(ls, origins)
    BY <1>7 DEF Turned
  <2> QED
    BY <2>1, <2>2, <2>3
<1>9. TurnsAfter(i) \in Seq(Origins) /\ Turned(ls, TurnsAfter(i))
  BY <1>8, TurnsMove, TurnsAfterTurned
<1>10. /\ Fewer(jobs', jobs) /\ id \notin DOMAIN jobs' /\ IsJobs(jobs', nextId)
       /\ DOMAIN keyIndex' \subseteq Keys /\ Indexed(jobs', keyIndex')
       /\ IsLanes(lanes') /\ origins' \in Seq(Origins) /\ Turned(lanes', origins')
       /\ Covered(jobs', lanes') /\ Confined(jobs', lanes') /\ Referring(lanes', nextId)
       /\ NoLater(TurnsAfter(i), origins')
  BY <1>1, <1>5, <1>8, <1>9, ClaimKeeps
<1>11. /\ started' \subseteq [keys : (SUBSET Keys) \ {{}}, aggregate : BOOLEAN]
       /\ Known(jobs', callers') /\ Apart(jobs', started') /\ Active(started', callers')
  BY <1>1, <1>5, <1>6, <1>10, ClaimStarts
<1>12. Passed(skipped', lanes', origins') /\ skipped' \in [Origins -> Nat]
  BY <1>1, <1>10, ServeSkips
<1> QED
  BY <1>1, <1>10, <1>11, <1>12

-----------------------------------------------------------------------------
(* Leaving                                                                 *)

\* The entry f is e without the keys ks.
Lacking(f, e, ks) == f = [e EXCEPT !.members = Restrict(@, DOMAIN @ \ ks)]

LEMMA Lessened ==
    ASSUME NEW e \in Entries, NEW ks, ~(KeysOf(e) \subseteq ks), NEW f, Lacking(f, e, ks)
    PROVE  /\ f \in Entries /\ KeysOf(f) = KeysOf(e) \ ks
           /\ \A k \in KeysOf(f) : f.members[k] = e.members[k]
           /\ OriginsOf(f) \subseteq OriginsOf(e)
           /\ f.resume = e.resume /\ f.open = e.open /\ f.aggregate = e.aggregate
<1> DEFINE m == Restrict(e.members, DOMAIN e.members \ ks)
<1>1. PICK K \in (SUBSET Keys) \ {{}} : e.members \in [K -> SUBSET Origins]
  BY DEF Entries
<1>2. KeysOf(e) = K /\ DOMAIN e.members = K
  BY <1>1 DEF KeysOf
<1>3. /\ m \in [K \ ks -> SUBSET Origins] /\ K \ ks \in (SUBSET Keys) \ {{}}
      /\ DOMAIN m = K \ ks /\ \A k \in K \ ks : m[k] = e.members[k]
  BY <1>1, <1>2 DEF Restrict
<1>4. f = [e EXCEPT !.members = m]
  BY DEF Lacking
<1> HIDE DEF m
<1>5. f \in Entries /\ f.members = m /\ f.resume = e.resume /\ f.open = e.open /\ f.aggregate = e.aggregate
  BY <1>3, <1>4 DEF Entries
<1>6. KeysOf(f) = KeysOf(e) \ ks /\ \A k \in KeysOf(f) : f.members[k] = e.members[k]
  BY <1>2, <1>3, <1>5 DEF KeysOf
<1>7. OriginsOf(f) \subseteq OriginsOf(e)
  BY <1>6 DEF OriginsOf
<1> QED
  BY <1>5, <1>6, <1>7

LEMMA ExpireStep ==
    ASSUME SchedulerAssumption, QueueInv, NEW ks \in SUBSET QueuedKeys, Expire(ks)
    PROVE  QueueInv'
<1> USE DEF QueueInv, WorkInv, LaneInv, TypeInv
<1> DEFINE js == [id \in Remaining(ks) |->
                    IF jobs[id].resume THEN jobs[id]
                    ELSE [jobs[id] EXCEPT !.members = Restrict(@, DOMAIN @ \ ks)]]
           index == Restrict(keyIndex, DOMAIN keyIndex \ ks)
<1>1. /\ Prune(js, index, lanes, origins)
      /\ callers' = [k \in Keys |-> IF k \in ks THEN {} ELSE callers[k]]
      /\ UNCHANGED <<nextId, started>> /\ Skip({})
  BY Zenon DEF Expire
<1>2. /\ DOMAIN index = DOMAIN keyIndex \ ks
      /\ \A k \in DOMAIN index : index[k] = keyIndex[k]
  BY DEF Restrict
<1>3. \A id \in DOMAIN jobs : jobs[id] \in Entries /\ id \in 1 .. nextId - 1
  BY DEF IsJobs
<1>4. ASSUME NEW id \in DOMAIN js
      PROVE  /\ id \in DOMAIN jobs /\ js[id] \in Entries
             /\ KeysOf(js[id]) = IF jobs[id].resume THEN KeysOf(jobs[id]) ELSE KeysOf(jobs[id]) \ ks
             /\ \A k \in KeysOf(js[id]) : js[id].members[k] = jobs[id].members[k]
             /\ OriginsOf(js[id]) \subseteq OriginsOf(jobs[id])
             /\ js[id].resume = jobs[id].resume /\ js[id].open = jobs[id].open
             /\ js[id].aggregate = jobs[id].aggregate
  <2>1. id \in DOMAIN jobs /\ (jobs[id].resume \/ ~(KeysOf(jobs[id]) \subseteq ks))
    BY DEF Remaining
  <2>2. CASE jobs[id].resume
    <3>1. js[id] = jobs[id]
      BY <2>2
    <3> HIDE DEF js
    <3> QED
      BY <1>3, <2>1, <2>2, <3>1
  <2>3. CASE ~jobs[id].resume
    <3>1. js[id] = [jobs[id] EXCEPT !.members = Restrict(@, DOMAIN @ \ ks)]
      BY <2>3
    <3> HIDE DEF js
    <3> DEFINE e == jobs[id] f == js[id]
    <3>2. e \in Entries /\ ~(KeysOf(e) \subseteq ks) /\ Lacking(f, e, ks)
      BY <1>3, <2>1, <2>3, <3>1 DEF Lacking
    <3> HIDE DEF e, f
    <3>3. /\ f \in Entries /\ KeysOf(f) = KeysOf(e) \ ks
          /\ \A k \in KeysOf(f) : f.members[k] = e.members[k]
          /\ OriginsOf(f) \subseteq OriginsOf(e)
          /\ f.resume = e.resume /\ f.open = e.open /\ f.aggregate = e.aggregate
      BY <3>2, Lessened
    <3> QED
      BY <2>1, <2>3, <3>3 DEF e, f
  <2> QED
    BY <2>2, <2>3
<1>5. \A id \in DOMAIN jobs : jobs[id].resume \/ ~(KeysOf(jobs[id]) \subseteq ks) => id \in DOMAIN js
  BY DEF Remaining
<1> HIDE DEF js, index
<1>6. \A id \in DOMAIN js : Waiting(js[id]) => Waiting(jobs[id])
  BY <1>4 DEF Waiting
\* A key that leaves is of no other live entry.
<1>7. ASSUME NEW id \in DOMAIN js, Waiting(js[id])
      PROVE  KeysOf(js[id]) \cap ks = {}
  <2> SUFFICES ASSUME NEW k \in KeysOf(js[id]), k \in ks PROVE FALSE
    OBVIOUS
  <2>1. jobs[id].resume /\ k \in KeysOf(jobs[id])
    BY <1>4
  <2>2. PICK n \in DOMAIN jobs : ~jobs[n].resume /\ k \in KeysOf(jobs[n])
    BY DEF QueuedKeys
  <2>3. keyIndex[k] = n
    BY <2>2 DEF Indexed, Waiting
  <2>4. keyIndex[k] = id
    BY <1>4, <1>6, <1>7, <2>1 DEF Indexed
  <2> QED
    BY <2>1, <2>2, <2>3, <2>4
<1>8. IsJobs(js, nextId)
  BY <1>3, <1>4 DEF IsJobs
<1>9. Covered(js, lanes)
  BY <1>4, <1>6 DEF Covered
<1>10. Indexed(js, index)
  <2>1. ASSUME NEW id \in DOMAIN js, Waiting(js[id]), NEW k \in KeysOf(js[id])
        PROVE  k \in DOMAIN index /\ index[k] = id
    <3>1. k \in KeysOf(jobs[id]) /\ k \notin ks
      BY <1>4, <1>7, <2>1
    <3>2. k \in DOMAIN keyIndex /\ keyIndex[k] = id
      BY <1>4, <1>6, <2>1, <3>1 DEF Indexed
    <3> QED
      BY <1>2, <3>1, <3>2
  <2>2. ASSUME NEW k \in DOMAIN index
        PROVE  index[k] \in DOMAIN js /\ k \in KeysOf(js[index[k]])
    <3>1. /\ k \notin ks /\ index[k] = keyIndex[k]
          /\ keyIndex[k] \in DOMAIN jobs /\ k \in KeysOf(jobs[keyIndex[k]])
      BY <1>2 DEF Indexed
    <3>2. index[k] \in DOMAIN js
      BY <1>5, <3>1
    <3> QED
      BY <1>4, <3>1, <3>2
  <2> QED
    BY <2>1, <2>2 DEF Indexed
<1>11. /\ DOMAIN jobs' = {id \in DOMAIN js : Waiting(js[id])}
       /\ \A id \in DOMAIN jobs' : jobs'[id] = js[id]
       /\ IsJobs(jobs', nextId) /\ IsLanes(lanes') /\ origins' \in Seq(Origins)
       /\ DOMAIN keyIndex' \subseteq DOMAIN index
       /\ Indexed(jobs', keyIndex')
       /\ Turned(lanes', origins') /\ Covered(jobs', lanes') /\ Confined(jobs', lanes')
       /\ Referring(lanes', nextId) /\ NoLater(origins, origins')
  BY <1>1, <1>8, <1>9, <1>10, PruneKeeps
<1>12. callers' \in [Keys -> SUBSET Origins] /\ \A k \in Keys \ ks : callers'[k] = callers[k]
  BY <1>1
<1>13. Known(jobs', callers')
  <2> SUFFICES ASSUME NEW id \in DOMAIN jobs', Waiting(jobs'[id]), NEW k \in KeysOf(jobs'[id])
               PROVE  callers'[k] # {} /\ callers'[k] \subseteq jobs'[id].members[k]
    BY DEF Known
  <2>1. id \in DOMAIN js /\ jobs'[id] = js[id] /\ Waiting(js[id]) /\ k \in KeysOf(js[id])
    BY <1>11
  <2>2. k \notin ks /\ k \in KeysOf(jobs[id]) /\ id \in DOMAIN jobs /\ Waiting(jobs[id])
    BY <1>4, <1>6, <1>7, <2>1
  <2>3. k \in Keys
    BY <1>3, <2>2, EntryFacts
  <2>4. callers[k] # {} /\ callers[k] \subseteq jobs[id].members[k]
    BY <2>2 DEF Known
  <2> QED
    BY <1>4, <1>12, <2>1, <2>2, <2>3, <2>4
<1>14. Apart(jobs', started)
  <2> SUFFICES ASSUME NEW id \in DOMAIN jobs'
               PROVE  /\ ~jobs'[id].resume => \A j \in started : KeysOf(jobs'[id]) \cap j.keys = {}
                      /\ jobs'[id].resume /\ jobs'[id].open =>
                           \E j \in started : KeysOf(jobs'[id]) = j.keys
    BY DEF Apart
  <2>1. id \in DOMAIN js /\ jobs'[id] = js[id]
    BY <1>11
  <2>2. id \in DOMAIN jobs /\ jobs'[id].resume = jobs[id].resume /\ jobs'[id].open = jobs[id].open
    BY <1>4, <2>1
  <2>3. KeysOf(jobs'[id]) = IF jobs[id].resume THEN KeysOf(jobs[id]) ELSE KeysOf(jobs[id]) \ ks
    BY <1>4, <2>1
  <2> QED
    BY <2>2, <2>3 DEF Apart
<1>15. Active(started, callers')
  <2>1. ASSUME NEW j \in started, NEW k \in j.keys PROVE callers'[k] # {}
    <3>1. k \in Keys
      OBVIOUS
    <3>2. k \notin QueuedKeys
      BY DEF QueuedKeys, Apart
    <3> QED
      BY <1>12, <3>1, <3>2 DEF Active
  <2> QED
    BY <2>1 DEF Active
<1>16. Passed(skipped', lanes', origins') /\ skipped' \in [Origins -> Nat]
  BY <1>1, <1>11, NoLaterCloser, SkipKeeps
<1>17. DOMAIN keyIndex' \subseteq Keys
  BY <1>2, <1>11
<1> QED
  BY <1>1, <1>11, <1>12, <1>13, <1>14, <1>15, <1>16, <1>17

-----------------------------------------------------------------------------
(* Joining                                                                 *)

\* more refers to id in the lanes of class a of the origins os, and to nothing else.
RefersTo(more, os, a, id) ==
    /\ more \in [Origins -> [BOOLEAN -> Seq(Nat)]]
    /\ \A q \in Origins : \A b \in BOOLEAN :
         /\ \A i \in DOMAIN more[q][b] : more[q][b][i] = id
         /\ q \in os /\ b = a => Once(more[q][b], id)
         /\ ~(q \in os /\ b = a) => \A x : Absent(more[q][b], x)
         /\ \A x : x # id => Absent(more[q][b], x)

LEMMA ReferredFacts ==
    ASSUME NEW os, NEW a \in BOOLEAN, NEW id \in Nat
    PROVE  RefersTo(Referred(os, a, id), os, a, id)
<1> DEFINE R == Referred(os, a, id)
<1>1. \A q \in Origins : \A b \in BOOLEAN :
        R[q][b] = IF q \in os /\ b = a THEN <<id>> ELSE <<>>
  BY DEF Referred
<1>2. R = [q \in Origins |-> [b \in BOOLEAN |-> IF q \in os /\ b = a THEN <<id>> ELSE <<>>]]
  BY DEF Referred
<1>3. R \in [Origins -> [BOOLEAN -> Seq(Nat)]]
  BY <1>2
<1> HIDE DEF R
<1>4. ASSUME NEW q \in Origins, NEW b \in BOOLEAN
      PROVE  /\ \A i \in DOMAIN R[q][b] : R[q][b][i] = id
             /\ q \in os /\ b = a => Once(R[q][b], id)
             /\ ~(q \in os /\ b = a) => \A x : Absent(R[q][b], x)
             /\ \A x : x # id => Absent(R[q][b], x)
  <2>1. CASE q \in os /\ b = a
    <3>1. R[q][b] = <<id>>
      BY <1>1, <2>1
    <3>2. DOMAIN R[q][b] = {1} /\ R[q][b][1] = id
      BY <3>1
    <3> QED
      BY <2>1, <3>2 DEF Once, Absent
  <2>2. CASE ~(q \in os /\ b = a)
    <3>1. R[q][b] = <<>>
      BY <1>1, <2>2
    <3>2. DOMAIN R[q][b] = {}
      BY <3>1
    <3> QED
      BY <2>2, <3>2 DEF Absent
  <2> QED
    BY <2>1, <2>2
<1> QED
  BY <1>3, <1>4 DEF R, RefersTo

\* A live entry is in the lanes of its origins and in no other.
LEMMA Placed ==
    ASSUME NEW js, Covered(js, lanes), Confined(js, lanes), NEW id \in DOMAIN js,
           Waiting(js[id]), NEW q
    PROVE  /\ q \in OriginsOf(js[id]) => Once(RefsOf(lanes, q, js[id].aggregate), id)
           /\ q \notin OriginsOf(js[id]) => Absent(RefsOf(lanes, q, js[id].aggregate), id)
<1>1. q \in OriginsOf(js[id]) => Once(RefsOf(lanes, q, js[id].aggregate), id)
  BY DEF Covered, RefsOf
<1>2. ASSUME q \notin OriginsOf(js[id]) PROVE Absent(RefsOf(lanes, q, js[id].aggregate), id)
  <2>1. CASE q \in DOMAIN lanes
    <3>1. q \in DOMAIN lanes \ OriginsOf(js[id])
      BY <1>2, <2>1
    <3>2. \A i \in DOMAIN lanes[q].refs[js[id].aggregate] :
            lanes[q].refs[js[id].aggregate][i] # id
      BY <3>1 DEF Confined
    <3> QED
      BY <2>1, <3>2 DEF RefsOf, Absent
  <2>2. CASE q \notin DOMAIN lanes
    BY <2>2 DEF RefsOf, Absent
  <2> QED
    BY <2>1, <2>2
<1> QED
  BY <1>1, <1>2

\* An entry that the origin o joins for the key k.
JoinedBy(f, e, k, o) == f = [e EXCEPT !.members = Joined(e, k, o)]

LEMMA Increased ==
    ASSUME NEW e \in Entries, NEW k \in KeysOf(e), NEW o \in Origins, NEW f, JoinedBy(f, e, k, o)
    PROVE  /\ f \in Entries /\ KeysOf(f) = KeysOf(e)
           /\ \A l \in KeysOf(e) : e.members[l] \subseteq f.members[l]
           /\ o \in f.members[k]
           /\ OriginsOf(f) = OriginsOf(e) \cup {o}
           /\ f.resume = e.resume /\ f.open = e.open /\ f.aggregate = e.aggregate
<1> DEFINE m == Joined(e, k, o)
<1>1. PICK K \in (SUBSET Keys) \ {{}} : e.members \in [K -> SUBSET Origins]
  BY DEF Entries
<1>2. KeysOf(e) = K
  BY <1>1 DEF KeysOf
<1>3. /\ m \in [K -> SUBSET Origins]
      /\ \A l \in K : m[l] = IF l = k \/ e.resume THEN e.members[l] \cup {o} ELSE e.members[l]
  BY <1>1, <1>2 DEF Joined
<1>4. f = [e EXCEPT !.members = m]
  BY DEF JoinedBy
<1> HIDE DEF m
<1>5. f \in Entries /\ f.members = m /\ f.resume = e.resume /\ f.open = e.open /\ f.aggregate = e.aggregate
  BY <1>1, <1>3, <1>4 DEF Entries
<1>6. KeysOf(f) = KeysOf(e)
  BY <1>2, <1>3, <1>5 DEF KeysOf
<1>7. \A l \in KeysOf(e) : e.members[l] \subseteq f.members[l] /\ f.members[l] \subseteq e.members[l] \cup {o}
  BY <1>2, <1>3, <1>5
<1>8. o \in f.members[k]
  BY <1>2, <1>3, <1>5
<1>9. OriginsOf(f) = OriginsOf(e) \cup {o}
  BY <1>6, <1>7, <1>8 DEF OriginsOf
<1> QED
  BY <1>5, <1>6, <1>7, <1>8, <1>9

LEMMA JoinCallers ==
    ASSUME QueueInv, NEW k \in Keys, NEW o \in Origins,
           callers' = [callers EXCEPT ![k] = @ \cup {o}]
    PROVE  /\ callers' \in [Keys -> SUBSET Origins] /\ Active(started, callers')
           /\ callers'[k] = callers[k] \cup {o}
           /\ \A l \in Keys : l # k => callers'[l] = callers[l]
<1>1. callers \in [Keys -> SUBSET Origins] /\ started \subseteq [keys : (SUBSET Keys) \ {{}}, aggregate : BOOLEAN]
  BY DEF QueueInv, TypeInv
<1>2. /\ callers' \in [Keys -> SUBSET Origins]
      /\ callers'[k] = callers[k] \cup {o}
      /\ \A l \in Keys : l # k => callers'[l] = callers[l]
  BY <1>1
<1>3. Active(started, callers')
  <2>1. ASSUME NEW j \in started, NEW l \in j.keys PROVE callers'[l] # {}
    <3>1. l \in Keys /\ callers[l] # {}
      BY <1>1 DEF QueueInv, WorkInv, Active
    <3> QED
      BY <1>2, <3>1
  <2> QED
    BY <2>1 DEF QueueInv, WorkInv, Active
<1> QED
  BY <1>2, <1>3

\* Work that no live entry is about is joined without a reference.
LEMMA JoinStarted ==
    ASSUME SchedulerAssumption, QueueInv, NEW k \in Keys, NEW o \in Origins,
           callers' = [callers EXCEPT ![k] = @ \cup {o}],
           UNCHANGED <<jobs, lanes, origins, nextId, started>>, Skip({}),
           DOMAIN keyIndex' = DOMAIN keyIndex \ {k},
           \A l \in DOMAIN keyIndex' : keyIndex'[l] = keyIndex[l],
           k \in DOMAIN keyIndex => ~Waiting(jobs[keyIndex[k]])
    PROVE  QueueInv'
<1> USE DEF QueueInv, WorkInv, LaneInv, TypeInv
<1>1. /\ callers' \in [Keys -> SUBSET Origins] /\ Active(started, callers')
      /\ \A l \in Keys : l # k => callers'[l] = callers[l]
  BY JoinCallers
<1>2. \A id \in DOMAIN jobs : Waiting(jobs[id]) => k \notin KeysOf(jobs[id])
  BY DEF Indexed
<1>3. Indexed(jobs', keyIndex')
  <2>1. ASSUME NEW id \in DOMAIN jobs, Waiting(jobs[id]), NEW l \in KeysOf(jobs[id])
        PROVE  l \in DOMAIN keyIndex' /\ keyIndex'[l] = id
    <3>1. l # k /\ l \in DOMAIN keyIndex /\ keyIndex[l] = id
      BY <1>2, <2>1 DEF Indexed
    <3> QED
      BY <3>1
  <2>2. \A l \in DOMAIN keyIndex' : keyIndex'[l] \in DOMAIN jobs /\ l \in KeysOf(jobs[keyIndex'[l]])
    BY DEF Indexed
  <2> QED
    BY <2>1, <2>2 DEF Indexed
<1>4. Known(jobs', callers')
  <2> SUFFICES ASSUME NEW id \in DOMAIN jobs, Waiting(jobs[id]), NEW l \in KeysOf(jobs[id])
               PROVE  callers'[l] # {} /\ callers'[l] \subseteq jobs[id].members[l]
    BY DEF Known
  <2>1. l # k /\ l \in Keys
    BY <1>2, EntryFacts DEF IsJobs
  <2> QED
    BY <1>1, <2>1 DEF Known
<1>5. Passed(skipped', lanes', origins') /\ skipped' \in [Origins -> Nat]
  <2>1. Covered(jobs', lanes') /\ origins' \in Seq(Origins) /\ Closer(lanes, origins, origins')
    BY SameTurns
  <2> QED
    BY <2>1, SkipKeeps
<1>6. DOMAIN keyIndex' \subseteq Keys
  OBVIOUS
<1> QED
  BY <1>1, <1>3, <1>4, <1>5, <1>6

\* A live entry gets the caller's origin, and a reference in its lane.
LEMMA JoinQueued ==
    ASSUME SchedulerAssumption, QueueInv, NEW k \in Keys, NEW o \in Origins,
           callers' = [callers EXCEPT ![k] = @ \cup {o}],
           k \in DOMAIN keyIndex, NEW id, id = keyIndex[k], Waiting(jobs[id]),
           jobs' = [jobs EXCEPT ![id].members = Joined(jobs[id], k, o)],
           Push(lanes, origins, Referred({o} \ OriginsOf(jobs[id]), jobs[id].aggregate, id)),
           UNCHANGED <<keyIndex, nextId, started>>, Skip({})
    PROVE  QueueInv'
<1> USE DEF QueueInv, WorkInv, LaneInv, TypeInv
<1> DEFINE e == jobs[id] f == jobs'[id] new == {o} \ OriginsOf(e)
           more == Referred(new, e.aggregate, id)
<1>1. id \in DOMAIN jobs /\ k \in KeysOf(e) /\ e \in Entries /\ id \in 1 .. nextId - 1
  BY DEF Indexed, IsJobs
<1>2. /\ DOMAIN jobs' = DOMAIN jobs
      /\ \A n \in DOMAIN jobs : n # id => jobs'[n] = jobs[n]
      /\ JoinedBy(f, e, k, o)
  BY <1>1 DEF JoinedBy
<1> HIDE DEF e, f
<1>3. /\ f \in Entries /\ KeysOf(f) = KeysOf(e)
      /\ \A l \in KeysOf(e) : e.members[l] \subseteq f.members[l]
      /\ o \in f.members[k]
      /\ OriginsOf(f) = OriginsOf(e) \cup {o}
      /\ f.resume = e.resume /\ f.open = e.open /\ f.aggregate = e.aggregate
  BY <1>1, <1>2, Increased
<1>4. e.aggregate \in BOOLEAN /\ Waiting(e) /\ Waiting(f)
  BY <1>1, <1>3, EntryFacts DEF e, Waiting
<1>5. IsJobs(jobs', nextId)
  BY <1>1, <1>2, <1>3 DEF IsJobs, f
<1>6. \A n \in DOMAIN jobs : /\ KeysOf(jobs'[n]) = KeysOf(jobs[n])
                             /\ jobs'[n].resume = jobs[n].resume /\ jobs'[n].open = jobs[n].open
                             /\ Waiting(jobs'[n]) => Waiting(jobs[n])
                             /\ \A l \in KeysOf(jobs[n]) : jobs[n].members[l] \subseteq jobs'[n].members[l]
  <2> SUFFICES ASSUME NEW n \in DOMAIN jobs
               PROVE  /\ KeysOf(jobs'[n]) = KeysOf(jobs[n])
                      /\ jobs'[n].resume = jobs[n].resume /\ jobs'[n].open = jobs[n].open
                      /\ Waiting(jobs'[n]) => Waiting(jobs[n])
                      /\ \A l \in KeysOf(jobs[n]) : jobs[n].members[l] \subseteq jobs'[n].members[l]
    OBVIOUS
  <2>1. CASE n = id
    BY <1>3, <1>4, <2>1 DEF e, f
  <2>2. CASE n # id
    BY <1>2, <2>2
  <2> QED
    BY <2>1, <2>2
<1>7. Indexed(jobs', keyIndex')
  <2>1. ASSUME NEW n \in DOMAIN jobs', Waiting(jobs'[n]), NEW l \in KeysOf(jobs'[n])
        PROVE  l \in DOMAIN keyIndex /\ keyIndex[l] = n
    BY <1>2, <1>6, <2>1 DEF Indexed
  <2>2. \A l \in DOMAIN keyIndex : keyIndex[l] \in DOMAIN jobs' /\ l \in KeysOf(jobs'[keyIndex[l]])
    BY <1>2, <1>6 DEF Indexed
  <2> QED
    BY <2>1, <2>2 DEF Indexed
<1>8. Apart(jobs', started')
  <2>1. ASSUME NEW n \in DOMAIN jobs', ~jobs'[n].resume, NEW j \in started
        PROVE  KeysOf(jobs'[n]) \cap j.keys = {}
    BY <1>2, <1>6, <2>1 DEF Apart
  <2>2. ASSUME NEW n \in DOMAIN jobs', jobs'[n].resume /\ jobs'[n].open
        PROVE  \E j \in started : KeysOf(jobs'[n]) = j.keys
    <3>1. PICK j \in started : KeysOf(jobs[n]) = j.keys
      BY <1>2, <1>6, <2>2 DEF Apart
    <3>2. KeysOf(jobs'[n]) = j.keys
      BY <1>2, <1>6, <3>1
    <3> QED
      BY <3>2
  <2> QED
    BY <2>1, <2>2 DEF Apart
<1>9. /\ callers' \in [Keys -> SUBSET Origins] /\ Active(started', callers')
      /\ callers'[k] = callers[k] \cup {o}
      /\ \A l \in Keys : l # k => callers'[l] = callers[l]
  BY JoinCallers
<1>10. Known(jobs', callers')
  <2> SUFFICES ASSUME NEW n \in DOMAIN jobs, Waiting(jobs'[n]), NEW l \in KeysOf(jobs[n])
               PROVE  callers'[l] # {} /\ callers'[l] \subseteq jobs'[n].members[l]
    BY <1>2, <1>6 DEF Known
  <2>1. callers[l] # {} /\ callers[l] \subseteq jobs[n].members[l]
    BY <1>6 DEF Known
  <2>2. jobs[n].members[l] \subseteq jobs'[n].members[l]
    BY <1>6
  <2>3. l \in Keys
    BY EntryFacts DEF IsJobs
  <2>4. CASE l = k
    <3>1. n = id
      BY <1>6, <2>4 DEF Indexed
    <3>2. o \in jobs'[n].members[l]
      BY <1>3, <2>4, <3>1 DEF f
    <3> QED
      BY <1>9, <2>1, <2>2, <2>4, <3>2
  <2>5. CASE l # k
    BY <1>9, <2>1, <2>2, <2>3, <2>5
  <2> QED
    BY <2>4, <2>5
<1>11. RefersTo(more, new, e.aggregate, id)
  <2>1. id \in Nat
    BY <1>1
  <2> HIDE DEF new
  <2> QED
    BY <1>4, <2>1, ReferredFacts, Zenon
<1>12. Push(lanes, origins, more)
  BY DEF e
<1> HIDE DEF more
<1>13. Led(jobs', more)
  <2> SUFFICES ASSUME NEW n \in DOMAIN jobs, Waiting(jobs'[n]), NEW q \in Origins
               PROVE  /\ q \in OriginsOf(jobs'[n]) =>
                           OnceIn(RefsOf(lanes, q, jobs'[n].aggregate), more[q][jobs'[n].aggregate], n)
                      /\ q \notin OriginsOf(jobs'[n]) =>
                           NotIn(RefsOf(lanes, q, jobs'[n].aggregate), more[q][jobs'[n].aggregate], n)
    BY <1>2 DEF Led
  <2> DEFINE b == jobs[n].aggregate s == RefsOf(lanes, q, b) t == more[q][b]
  <2>1. /\ q \in OriginsOf(jobs[n]) => Once(s, n)
        /\ q \notin OriginsOf(jobs[n]) => Absent(s, n)
    BY <1>6, Placed
  <2>2. CASE n # id
    <3>1. jobs'[n] = jobs[n] /\ b \in BOOLEAN
      BY <1>2, <2>2, EntryFacts DEF IsJobs
    <3>2. Absent(t, n)
      BY <1>11, <2>2, <3>1 DEF RefersTo
    <3> HIDE DEF s, t
    <3>3. /\ q \in OriginsOf(jobs[n]) => OnceIn(s, t, n)
          /\ q \notin OriginsOf(jobs[n]) => NotIn(s, t, n)
      BY <2>1, <3>2 DEF OnceIn, NotIn
    <3> QED
      BY <3>1, <3>3 DEF s, t
  <2>3. CASE n = id
    <3>1. b = e.aggregate /\ jobs'[n].aggregate = b /\ OriginsOf(jobs'[n]) = OriginsOf(e) \cup {o}
      BY <1>3, <2>3 DEF e, f
    <3>2. /\ q \in new => Once(t, n)
          /\ q \notin new => Absent(t, n)
      BY <1>4, <1>11, <2>3, <3>1 DEF RefersTo
    <3>3. jobs[n] = e
      BY <2>3 DEF e
    <3> HIDE DEF s, t
    <3>4. /\ q \in OriginsOf(jobs'[n]) => OnceIn(s, t, n)
          /\ q \notin OriginsOf(jobs'[n]) => NotIn(s, t, n)
      BY <2>1, <3>1, <3>2, <3>3 DEF OnceIn, NotIn
    <3> QED
      BY <3>1, <3>4 DEF s, t
  <2> QED
    BY <2>2, <2>3
<1>14. \A q \in Origins : \A b \in BOOLEAN : \A i \in DOMAIN more[q][b] : more[q][b][i] < nextId
  BY <1>1, <1>11 DEF RefersTo
<1>15. /\ Covered(jobs', lanes') /\ Confined(jobs', lanes') /\ Referring(lanes', nextId)
       /\ IsLanes(lanes') /\ origins' \in Seq(Origins) /\ Turned(lanes', origins')
       /\ Closer(lanes, origins, origins')
  <2>1. nextId \in Nat /\ nextId <= nextId
    OBVIOUS
  <2>2. \A n \in DOMAIN origins' : origins'[n] \in DOMAIN lanes =>
          \E i \in DOMAIN origins : origins[i] = origins'[n] /\ n <= i
    BY <1>5, <1>11, <1>12, <1>13, <1>14, <2>1, PushReaches DEF RefersTo
  <2>3. /\ Covered(jobs', lanes') /\ Confined(jobs', lanes') /\ Referring(lanes', nextId)
        /\ IsLanes(lanes') /\ origins' \in Seq(Origins) /\ Turned(lanes', origins')
    BY <1>5, <1>11, <1>12, <1>13, <1>14, <2>1, PushReaches DEF RefersTo
  <2> QED
    BY <2>2, <2>3 DEF Closer
<1>16. Passed(skipped', lanes', origins') /\ skipped' \in [Origins -> Nat]
  BY <1>15, SkipKeeps
<1> QED
  BY <1>5, <1>7, <1>8, <1>9, <1>10, <1>15, <1>16

LEMMA JoinStep ==
    ASSUME SchedulerAssumption, QueueInv, NEW k \in Keys, NEW o \in Origins, Join(k, o)
    PROVE  QueueInv'
<1>1. callers' = [callers EXCEPT ![k] = @ \cup {o}] /\ nextId' = nextId /\ started' = started /\ Skip({})
  BY DEF Join
<1>2. CASE k \notin DOMAIN keyIndex
  <2>1. UNCHANGED <<jobs, keyIndex, lanes, origins>>
    BY <1>2 DEF Join
  <2>2. DOMAIN keyIndex' = DOMAIN keyIndex \ {k}
    BY <1>2, <2>1
  <2>3. \A l \in DOMAIN keyIndex' : keyIndex'[l] = keyIndex[l]
    BY <2>1
  <2> QED
    BY <1>1, <1>2, <2>1, <2>2, <2>3, JoinStarted
<1>3. CASE k \in DOMAIN keyIndex
  <2> DEFINE id == keyIndex[k]
  <2>1. AttachTo(id, k, o)
    BY <1>3, Zenon DEF Join
  <2>2. CASE Waiting(jobs[id])
    <3>1. /\ jobs' = [jobs EXCEPT ![id].members = Joined(jobs[id], k, o)]
          /\ Push(lanes, origins, Referred({o} \ OriginsOf(jobs[id]), jobs[id].aggregate, id))
          /\ keyIndex' = keyIndex
      BY <2>1, <2>2, Zenon DEF AttachTo
    <3> QED
      BY <1>1, <1>3, <2>2, <3>1, JoinQueued
  <2>3. CASE ~Waiting(jobs[id])
    <3>1. /\ keyIndex' = Restrict(keyIndex, DOMAIN keyIndex \ {k})
          /\ UNCHANGED <<jobs, lanes, origins>>
      BY <2>1, <2>3, Zenon DEF AttachTo
    <3>2. /\ DOMAIN keyIndex' = DOMAIN keyIndex \ {k}
          /\ \A l \in DOMAIN keyIndex' : keyIndex'[l] = keyIndex[l]
      BY <3>1 DEF Restrict
    <3> QED
      BY <1>1, <2>3, <3>1, <3>2, JoinStarted
  <2> QED
    BY <2>2, <2>3
<1> QED
  BY <1>2, <1>3

-----------------------------------------------------------------------------
(* Waiting to read again                                                   *)

\* No lane has a reference to an entry that is yet to come.
LEMMA Unheard ==
    ASSUME Referring(lanes, nextId), IsLanes(lanes), nextId \in Nat,
           NEW id \in Nat, id >= nextId, NEW q, NEW b \in BOOLEAN
    PROVE  Absent(RefsOf(lanes, q, b), id)
<1>1. CASE q \in DOMAIN lanes
  <2>1. lanes[q].refs[b] \in Seq(Nat)
    BY <1>1 DEF IsLanes, Lanes
  <2>2. ASSUME NEW i \in DOMAIN lanes[q].refs[b] PROVE lanes[q].refs[b][i] # id
    <3>1. lanes[q].refs[b][i] < nextId
      BY <1>1 DEF Referring
    <3>2. lanes[q].refs[b][i] \in Nat
      BY <2>1
    <3> QED
      BY <3>1, <3>2
  <2> QED
    BY <1>1, <2>2 DEF RefsOf, Absent
<1>2. CASE q \notin DOMAIN lanes
  BY <1>2 DEF RefsOf, Absent
<1> QED
  BY <1>1, <1>2

\* A started job without a request shares no key with a live entry.
LEMMA Unrequested ==
    ASSUME WorkInv, NEW j \in started, ~Requested(j), NEW id \in DOMAIN jobs, Waiting(jobs[id])
    PROVE  KeysOf(jobs[id]) \cap j.keys = {}
<1> USE DEF WorkInv
<1>1. CASE ~jobs[id].resume
  BY <1>1 DEF Apart
<1>2. CASE jobs[id].resume
  <2>1. jobs[id].open
    BY <1>2 DEF Waiting
  <2>2. PICK l \in started : KeysOf(jobs[id]) = l.keys
    BY <1>2, <2>1 DEF Apart
  <2>3. l # j
    BY <1>2, <2>1, <2>2 DEF Requested
  <2> QED
    BY <2>2, <2>3 DEF Active
<1> QED
  BY <1>1, <1>2

LEMMA ResumeStep ==
    ASSUME SchedulerAssumption, QueueInv, NEW j \in started, Resume(j)
    PROVE  QueueInv'
<1> USE DEF QueueInv, WorkInv, LaneInv, TypeInv
<1> DEFINE os == UNION {callers[k] : k \in j.keys}
           new == [resume |-> TRUE, open |-> TRUE, aggregate |-> j.aggregate,
                   members |-> [k \in j.keys |-> os]]
           more == Referred(os, j.aggregate, nextId)
<1>1. /\ ~Requested(j)
      /\ jobs' = Inserted([id \in {nextId} |-> new], jobs)
      /\ keyIndex' = Inserted([k \in j.keys |-> nextId], keyIndex)
      /\ Push(lanes, origins, more)
      /\ nextId' = nextId + 1
      /\ UNCHANGED <<started, callers>> /\ Skip({})
  BY Zenon DEF Resume
<1>2. j.keys \in (SUBSET Keys) \ {{}} /\ j.aggregate \in BOOLEAN /\ nextId \in Nat \ {0}
  OBVIOUS
<1>3. os \subseteq Origins
  BY <1>2
<1>4. /\ new \in Entries /\ KeysOf(new) = j.keys /\ OriginsOf(new) = os /\ Waiting(new)
      /\ new.aggregate = j.aggregate /\ new.resume /\ new.open
      /\ \A k \in j.keys : new.members[k] = os
  <2>1. DOMAIN new.members = j.keys /\ \A k \in j.keys : new.members[k] = os
    OBVIOUS
  <2>2. new.members \in [j.keys -> SUBSET Origins]
    BY <1>3
  <2>3. new \in Entries
    BY <1>2, <2>2 DEF Entries
  <2> HIDE DEF os
  <2>4. KeysOf(new) = j.keys
    BY <2>1 DEF KeysOf
  <2>5. OriginsOf(new) = os
    <3>1. \A x : x \in OriginsOf(new) <=> \E k \in j.keys : x \in os
      BY <2>1, <2>4 DEF OriginsOf
    <3> QED
      BY <1>2, <3>1
  <2> QED
    BY <2>1, <2>3, <2>4, <2>5 DEF Waiting
<1>5. nextId \notin DOMAIN jobs /\ \A n \in DOMAIN jobs : jobs[n] \in Entries /\ n \in 1 .. nextId - 1
  BY <1>2 DEF IsJobs
<1> HIDE DEF new, os
<1>6. /\ DOMAIN jobs' = DOMAIN jobs \cup {nextId}
      /\ jobs'[nextId] = new
      /\ \A n \in DOMAIN jobs : jobs'[n] = jobs[n]
  BY <1>1, <1>5 DEF Inserted
<1>7. /\ DOMAIN keyIndex' = DOMAIN keyIndex \cup j.keys
      /\ \A k \in j.keys : keyIndex'[k] = nextId
      /\ \A k \in DOMAIN keyIndex \ j.keys : keyIndex'[k] = keyIndex[k]
  BY <1>1 DEF Inserted
<1>8. \A n \in DOMAIN jobs : Waiting(jobs[n]) => KeysOf(jobs[n]) \cap j.keys = {}
  BY <1>1, Unrequested
<1>9. IsJobs(jobs', nextId + 1)
  BY <1>2, <1>4, <1>5, <1>6 DEF IsJobs
<1>10. Indexed(jobs', keyIndex')
  <2>1. ASSUME NEW n \in DOMAIN jobs', Waiting(jobs'[n]), NEW k \in KeysOf(jobs'[n])
        PROVE  k \in DOMAIN keyIndex' /\ keyIndex'[k] = n
    <3>1. CASE n = nextId
      BY <1>4, <1>6, <1>7, <2>1, <3>1
    <3>2. CASE n # nextId
      <4>1. n \in DOMAIN jobs /\ jobs'[n] = jobs[n]
        BY <1>6, <2>1, <3>2
      <4>2. k \in DOMAIN keyIndex /\ keyIndex[k] = n /\ k \notin j.keys
        BY <1>8, <2>1, <4>1 DEF Indexed
      <4> QED
        BY <1>7, <4>2
    <3> QED
      BY <3>1, <3>2
  <2>2. ASSUME NEW k \in DOMAIN keyIndex'
        PROVE  keyIndex'[k] \in DOMAIN jobs' /\ k \in KeysOf(jobs'[keyIndex'[k]])
    <3>1. CASE k \in j.keys
      BY <1>4, <1>6, <1>7, <3>1
    <3>2. CASE k \notin j.keys
      BY <1>6, <1>7, <2>2, <3>2 DEF Indexed
    <3> QED
      BY <3>1, <3>2
  <2> QED
    BY <2>1, <2>2 DEF Indexed
<1>11. Known(jobs', callers')
  <2> SUFFICES ASSUME NEW n \in DOMAIN jobs', Waiting(jobs'[n]), NEW k \in KeysOf(jobs'[n])
               PROVE  callers[k] # {} /\ callers[k] \subseteq jobs'[n].members[k]
    BY <1>1 DEF Known
  <2>1. CASE n = nextId
    <3>1. k \in j.keys /\ jobs'[n].members[k] = os
      BY <1>4, <1>6, <2>1
    <3> QED
      BY <3>1 DEF os, Active
  <2>2. CASE n # nextId
    <3>1. n \in DOMAIN jobs /\ jobs'[n] = jobs[n]
      BY <1>6, <2>2
    <3> QED
      BY <3>1 DEF Known
  <2> QED
    BY <2>1, <2>2
<1>12. Apart(jobs', started')
  <2> SUFFICES ASSUME NEW n \in DOMAIN jobs'
               PROVE  /\ ~jobs'[n].resume => \A l \in started : KeysOf(jobs'[n]) \cap l.keys = {}
                      /\ jobs'[n].resume /\ jobs'[n].open =>
                           \E l \in started : KeysOf(jobs'[n]) = l.keys
    BY <1>1 DEF Apart
  <2>1. CASE n = nextId
    BY <1>4, <1>6, <2>1
  <2>2. CASE n # nextId
    <3>1. n \in DOMAIN jobs /\ jobs'[n] = jobs[n]
      BY <1>6, <2>2
    <3> QED
      BY <3>1 DEF Apart
  <2> QED
    BY <2>1, <2>2
<1>13. RefersTo(more, os, j.aggregate, nextId)
  <2>1. nextId \in Nat
    BY <1>2
  <2> QED
    BY <1>2, <2>1, ReferredFacts, Zenon
<1> HIDE DEF more
<1>14. Led(jobs', more)
  <2> SUFFICES ASSUME NEW n \in DOMAIN jobs', Waiting(jobs'[n]), NEW q \in Origins
               PROVE  /\ q \in OriginsOf(jobs'[n]) =>
                           OnceIn(RefsOf(lanes, q, jobs'[n].aggregate), more[q][jobs'[n].aggregate], n)
                      /\ q \notin OriginsOf(jobs'[n]) =>
                           NotIn(RefsOf(lanes, q, jobs'[n].aggregate), more[q][jobs'[n].aggregate], n)
    BY DEF Led
  <2> DEFINE b == jobs'[n].aggregate s == RefsOf(lanes, q, b) t == more[q][b]
  <2>1. CASE n = nextId
    <3>1. b = j.aggregate /\ OriginsOf(jobs'[n]) = os /\ n \in Nat /\ n >= nextId
      BY <1>2, <1>4, <1>6, <2>1
    <3>2. Absent(s, n)
      BY <1>2, <3>1, Unheard
    <3>3. (q \in os => Once(t, n)) /\ (q \notin os => Absent(t, n))
      BY <1>2, <1>13, <2>1, <3>1 DEF RefersTo
    <3> HIDE DEF s, t
    <3>4. /\ q \in OriginsOf(jobs'[n]) => OnceIn(s, t, n)
          /\ q \notin OriginsOf(jobs'[n]) => NotIn(s, t, n)
      BY <3>1, <3>2, <3>3 DEF OnceIn, NotIn
    <3> QED
      BY <3>4 DEF s, t
  <2>2. CASE n # nextId
    <3>1. n \in DOMAIN jobs /\ jobs'[n] = jobs[n] /\ b \in BOOLEAN
      BY <1>5, <1>6, <2>2, EntryFacts
    <3>2. Absent(t, n)
      <4>1. \A a \in BOOLEAN : \A x : x # nextId => Absent(more[q][a], x)
        BY <1>13, Zenon DEF RefersTo
      <4>2. \A x : x # nextId => Absent(t, x)
        BY <3>1, <4>1, Zenon
      <4> HIDE DEF t
      <4> QED
        BY <2>2, <4>2
    <3>3. /\ q \in OriginsOf(jobs'[n]) => Once(s, n)
          /\ q \notin OriginsOf(jobs'[n]) => Absent(s, n)
      BY <3>1, Placed
    <3> HIDE DEF s, t
    <3>4. /\ q \in OriginsOf(jobs'[n]) => OnceIn(s, t, n)
          /\ q \notin OriginsOf(jobs'[n]) => NotIn(s, t, n)
      BY <3>2, <3>3 DEF OnceIn, NotIn
    <3> QED
      BY <3>4 DEF s, t
  <2> QED
    BY <2>1, <2>2
<1>15. \A q \in Origins : \A b \in BOOLEAN : \A i \in DOMAIN more[q][b] : more[q][b][i] < nextId + 1
  BY <1>2, <1>13 DEF RefersTo
<1>16. nextId + 1 \in Nat /\ nextId <= nextId + 1
  BY <1>2
<1>17. /\ Covered(jobs', lanes') /\ Confined(jobs', lanes') /\ Referring(lanes', nextId + 1)
       /\ IsLanes(lanes') /\ origins' \in Seq(Origins) /\ Turned(lanes', origins')
  BY <1>1, <1>2, <1>9, <1>13, <1>14, <1>15, <1>16, PushReaches DEF RefersTo
<1>18. Closer(lanes, origins, origins')
  <2>1. \A n \in DOMAIN origins' : origins'[n] \in DOMAIN lanes =>
          \E i \in DOMAIN origins : origins[i] = origins'[n] /\ n <= i
    BY <1>1, <1>2, <1>9, <1>13, <1>14, <1>15, <1>16, PushReaches DEF RefersTo
  <2> QED
    BY <2>1 DEF Closer
<1>19. Passed(skipped', lanes', origins') /\ skipped' \in [Origins -> Nat]
  BY <1>1, <1>17, <1>18, SkipKeeps
<1>20. DOMAIN keyIndex' \subseteq Keys /\ nextId' \in Nat \ {0}
  BY <1>1, <1>2, <1>7
<1> QED
  BY <1>1, <1>9, <1>10, <1>11, <1>12, <1>17, <1>19, <1>20

-----------------------------------------------------------------------------
(* Admission                                                               *)

\* The entries of a batch share the keys out.
SharesOut(batch, ks) ==
    /\ batch \in Seq((SUBSET ks) \ {{}})
    /\ \A i, n \in DOMAIN batch : \A k \in batch[i] : k \in batch[n] => i = n
    /\ \A k \in ks : \E i \in DOMAIN batch : k \in batch[i]

LEMMA BatchFacts ==
    ASSUME SchedulerAssumption, NEW ks \in SUBSET Keys, NEW batch \in Batches[ks]
    PROVE  SharesOut(batch, ks)
<1>1. PICK P \in SUBSET ((SUBSET ks) \ {{}}) :
        /\ batch \in SetToSeqs(P)
        /\ UNION P = ks
        /\ \A E, F \in P : E # F => E \cap F = {}
  BY DEF Batches
<1>2. IsFiniteSet(P)
  <2>1. IsFiniteSet(ks)
    BY FS_Subset DEF SchedulerAssumption
  <2>2. IsFiniteSet(SUBSET ks)
    BY <2>1, FS_SUBSET
  <2>3. P \subseteq SUBSET ks
    OBVIOUS
  <2> QED
    BY <2>2, <2>3, FS_Subset
<1>3. /\ batch \in Seq(P)
      /\ \A i, n \in DOMAIN batch : batch[i] = batch[n] => i = n
      /\ \A E \in P : \E i \in DOMAIN batch : batch[i] = E
  BY <1>1, <1>2, ListingCovers
<1>4. batch \in Seq((SUBSET ks) \ {{}})
  BY <1>3
<1>5. ASSUME NEW i \in DOMAIN batch, NEW n \in DOMAIN batch, NEW k \in batch[i], k \in batch[n]
      PROVE  i = n
  <2>1. batch[i] \in P /\ batch[n] \in P
    BY <1>3
  <2>2. batch[i] = batch[n]
    BY <1>1, <1>5, <2>1
  <2> QED
    BY <1>3, <2>2
<1>6. ASSUME NEW k \in ks PROVE \E i \in DOMAIN batch : k \in batch[i]
  <2>1. PICK E \in P : k \in E
    BY <1>1
  <2>2. PICK i \in DOMAIN batch : batch[i] = E
    BY <1>3
  <2> QED
    BY <2>1, <2>2
<1> QED
  BY <1>4, <1>5, <1>6 DEF SharesOut

\* The entry for the keys ks of origins mem.
Admitted(ks, mem) ==
    [resume |-> FALSE, open |-> TRUE, aggregate |-> ks \subseteq Batchable,
     members |-> [k \in ks |-> mem[k]]]

LEMMA AdmittedFacts ==
    ASSUME NEW ks \in (SUBSET Keys) \ {{}}, NEW mem, \A k \in ks : mem[k] \subseteq Origins
    PROVE  LET e == Admitted(ks, mem)
           IN /\ e \in Entries /\ KeysOf(e) = ks /\ Waiting(e) /\ ~e.resume
              /\ \A k \in ks : e.members[k] = mem[k]
              /\ OriginsOf(e) = UNION {mem[k] : k \in ks}
<1> DEFINE e == Admitted(ks, mem)
<1>1. /\ e.members = [k \in ks |-> mem[k]] /\ ~e.resume
      /\ e.open = TRUE /\ e.aggregate = (ks \subseteq Batchable)
  BY DEF Admitted
<1>2. e.members \in [ks -> SUBSET Origins]
  BY <1>1
<1>3. e \in Entries
  <2>1. e \in [resume : BOOLEAN, open : BOOLEAN, aggregate : BOOLEAN, members : [ks -> SUBSET Origins]]
    BY DEF Admitted
  <2> QED
    BY <2>1 DEF Entries
<1> HIDE DEF e
<1>4. KeysOf(e) = ks /\ \A k \in ks : e.members[k] = mem[k]
  BY <1>1 DEF KeysOf
<1>5. OriginsOf(e) = UNION {mem[k] : k \in ks}
  BY <1>4 DEF OriginsOf
<1>6. Waiting(e)
  BY <1>1 DEF Waiting
<1> QED
  BY <1>1, <1>3, <1>4, <1>5, <1>6 DEF e

\* The numbers of the entries of a batch, and the list of them.
Numbers(batch) == nextId .. nextId + Len(batch) - 1
Listed(batch) == [i \in DOMAIN batch |-> nextId + i - 1]

\* A read that was shared out is of one entry, which has a number of its own.
LEMMA Numbered ==
    ASSUME NEW ks, NEW batch, SharesOut(batch, ks), nextId \in Nat
    PROVE  /\ Len(batch) \in Nat /\ nextId + Len(batch) \in Nat /\ nextId <= nextId + Len(batch)
           /\ \A id \in Numbers(batch) : /\ id \in Nat /\ id >= nextId /\ id < nextId + Len(batch)
                              /\ batch[id - nextId + 1] \in (SUBSET ks) \ {{}}
           /\ \A k \in ks : \E id \in Numbers(batch) : k \in batch[id - nextId + 1]
           /\ \A id, n \in Numbers(batch) : \A k \in batch[id - nextId + 1] :
                k \in batch[n - nextId + 1] => id = n
           /\ UNION Range(batch) = ks
<1> DEFINE ids == Numbers(batch)
<1>0. ids = nextId .. nextId + Len(batch) - 1
  BY DEF Numbers
<1> HIDE DEF ids
<1>1. Len(batch) \in Nat /\ DOMAIN batch = 1 .. Len(batch) /\ batch \in Seq((SUBSET ks) \ {{}})
  BY DEF SharesOut
<1>2. \A id \in ids : /\ id \in Nat /\ id >= nextId /\ id < nextId + Len(batch)
                      /\ id - nextId + 1 \in 1 .. Len(batch)
  BY <1>0, <1>1
<1>3. \A i \in 1 .. Len(batch) : nextId + i - 1 \in ids /\ (nextId + i - 1) - nextId + 1 = i
  BY <1>0, <1>1
<1>4. \A id \in ids : batch[id - nextId + 1] \in (SUBSET ks) \ {{}}
  BY <1>1, <1>2
<1>5. ASSUME NEW k \in ks PROVE \E id \in ids : k \in batch[id - nextId + 1]
  <2>1. PICK i \in 1 .. Len(batch) : k \in batch[i]
    BY <1>1 DEF SharesOut
  <2>2. nextId + i - 1 \in ids /\ (nextId + i - 1) - nextId + 1 = i
    BY <1>3
  <2> QED
    BY <2>1, <2>2
<1>6. ASSUME NEW id \in ids, NEW n \in ids, NEW k \in batch[id - nextId + 1],
             k \in batch[n - nextId + 1]
      PROVE  id = n
  <2>1. id - nextId + 1 \in DOMAIN batch /\ n - nextId + 1 \in DOMAIN batch
    BY <1>1, <1>2
  <2>2. id - nextId + 1 = n - nextId + 1
    BY <1>6, <2>1 DEF SharesOut
  <2> QED
    BY <1>2, <2>2
<1>7. UNION Range(batch) = ks
  <2>1. \A k : k \in UNION Range(batch) => k \in ks
    BY <1>1 DEF Range
  <2>2. \A k \in ks : k \in UNION Range(batch)
    BY <1>1 DEF Range, SharesOut
  <2> QED
    BY <2>1, <2>2
<1>8. nextId + Len(batch) \in Nat /\ nextId <= nextId + Len(batch)
  BY <1>1
<1> QED
  BY <1>1, <1>2, <1>4, <1>5, <1>6, <1>7, <1>8 DEF ids

\* Of the list of a batch, what is kept is there once.
LEMMA ListedOnce ==
    ASSUME NEW ks, NEW batch, SharesOut(batch, ks), nextId \in Nat, NEW T \in SUBSET Numbers(batch)
    PROVE  /\ Kept(Listed(batch), T) \in Seq(Nat)
           /\ \A i \in DOMAIN Kept(Listed(batch), T) : Kept(Listed(batch), T)[i] < nextId + Len(batch)
           /\ \A id \in T : Once(Kept(Listed(batch), T), id)
           /\ \A id : id \notin T => Absent(Kept(Listed(batch), T), id)
<1> DEFINE l == Listed(batch) t == Kept(l, T)
<1>1. Len(batch) \in Nat /\ DOMAIN batch = 1 .. Len(batch)
  BY DEF SharesOut
<1>2. /\ l \in Seq(Nat) /\ DOMAIN l = 1 .. Len(batch)
      /\ \A i \in 1 .. Len(batch) : l[i] = nextId + i - 1
  BY <1>1 DEF Listed
<1>3. \A id \in T : id \in nextId .. nextId + Len(batch) - 1
  BY DEF Numbers
<1> HIDE DEF l
<1>4. ASSUME NEW id \in T PROVE Once(l, id)
  <2> DEFINE p == id - nextId + 1
  <2>1. p \in 1 .. Len(batch) /\ l[p] = id
    BY <1>1, <1>2, <1>3
  <2>2. \A n \in 1 .. Len(batch) : l[n] = id => n = p
    BY <1>1, <1>2, <1>3
  <2> HIDE DEF p
  <2> QED
    BY <1>2, <2>1, <2>2 DEF Once
<1>5. /\ t \in Seq(Nat)
      /\ \A i \in DOMAIN t : t[i] \in T
      /\ \A x \in T : Once(l, x) => Once(t, x)
  BY <1>2, KeptElements, Zenon
<1> HIDE DEF t
<1>6. \A id \in T : Once(t, id)
  BY <1>4, <1>5
<1>7. \A id : id \notin T => Absent(t, id)
  BY <1>5 DEF Absent
<1>8. \A i \in DOMAIN t : t[i] < nextId + Len(batch)
  BY <1>1, <1>3, <1>5
<1> QED
  BY <1>5, <1>6, <1>7, <1>8 DEF t, l

\* Beside the entries js and the started jobs st, the keys ks may be admitted with
\* the origins mem: none of them is in a live entry or in a started job.
Admissible(js, st, cs, ks, mem) ==
    /\ IsJobs(js, nextId) /\ Indexed(js, keyIndex) /\ Known(js, cs)
    /\ Apart(js, st) /\ Covered(js, lanes) /\ Confined(js, lanes)
    /\ \A k \in ks : mem[k] = cs[k] /\ mem[k] # {} /\ mem[k] \subseteq Origins
    /\ \A n \in DOMAIN js : Waiting(js[n]) => KeysOf(js[n]) \cap ks = {}
    /\ \A j \in st : j.keys \cap ks = {}

LEMMA AdmitKeeps ==
    ASSUME SchedulerAssumption, TypeInv, LaneInv, Passed(skipped, lanes, origins),
           NEW js, NEW st, NEW cs, NEW ks \in SUBSET Keys, NEW mem,
           Admissible(js, st, cs, ks, mem),
           NEW batch, SharesOut(batch, ks), Admit(js, keyIndex, batch, mem), Skip({})
    PROVE  /\ nextId' \in Nat \ {0} /\ IsJobs(jobs', nextId')
           /\ DOMAIN keyIndex' \subseteq Keys /\ IsLanes(lanes')
           /\ origins' \in Seq(Origins) /\ skipped' \in [Origins -> Nat]
           /\ Indexed(jobs', keyIndex') /\ Known(jobs', cs) /\ Apart(jobs', st)
           /\ LaneInv' /\ Passed(skipped', lanes', origins')
<1> USE DEF LaneInv, TypeInv, Admissible
<1> DEFINE ids == Numbers(batch)
           keys(id) == batch[id - nextId + 1]
           new == [id \in ids |-> Admitted(keys(id), mem)]
           more == [o \in Origins |-> [a \in BOOLEAN |->
                      Kept(Listed(batch), {id \in ids : Belongs(new[id], o, a)})]]
           index == [k \in UNION Range(batch) |-> CHOOSE id \in ids : k \in keys(id)]
           next == nextId + Len(batch)
<1>1. /\ nextId' = next
      /\ jobs' = Inserted(new, js)
      /\ keyIndex' = Inserted(index, keyIndex)
      /\ Push(lanes, origins, more)
  BY Zenon DEF Admit, Admitted, Numbers, Listed
<1>2. nextId \in Nat /\ nextId # 0
  OBVIOUS
<1>3. /\ next \in Nat /\ nextId <= next
      /\ \A id \in ids : /\ id \in Nat /\ id >= nextId /\ id < next
                         /\ keys(id) \in (SUBSET ks) \ {{}}
      /\ \A k \in ks : \E id \in ids : k \in keys(id)
      /\ \A id, n \in ids : \A k \in keys(id) : k \in keys(n) => id = n
      /\ UNION Range(batch) = ks
  BY <1>2, Numbered
<1>4. \A id \in ids : /\ new[id] \in Entries /\ KeysOf(new[id]) = keys(id)
                      /\ Waiting(new[id]) /\ ~new[id].resume
                      /\ \A k \in keys(id) : new[id].members[k] = mem[k]
  <2> SUFFICES ASSUME NEW id \in ids
               PROVE  /\ new[id] \in Entries /\ KeysOf(new[id]) = keys(id)
                      /\ Waiting(new[id]) /\ ~new[id].resume
                      /\ \A k \in keys(id) : new[id].members[k] = mem[k]
    OBVIOUS
  <2>1. keys(id) \in (SUBSET Keys) \ {{}} /\ \A k \in keys(id) : mem[k] \subseteq Origins
    BY <1>3
  <2>2. new[id] = Admitted(keys(id), mem)
    OBVIOUS
  <2> DEFINE E == keys(id)
  <2> HIDE DEF keys, new, ids, E
  <2>3. LET e == Admitted(E, mem)
        IN /\ e \in Entries /\ KeysOf(e) = E /\ Waiting(e) /\ ~e.resume
           /\ \A k \in E : e.members[k] = mem[k]
    BY <2>1, AdmittedFacts DEF E
  <2> QED
    BY <2>2, <2>3 DEF E
<1>5. ASSUME NEW q \in Origins, NEW b \in BOOLEAN
      PROVE  /\ more[q][b] \in Seq(Nat)
             /\ \A i \in DOMAIN more[q][b] : more[q][b][i] < next
             /\ \A id \in ids : Belongs(new[id], q, b) => Once(more[q][b], id)
             /\ \A id : ~(id \in ids /\ Belongs(new[id], q, b)) => Absent(more[q][b], id)
  <2> DEFINE T == {id \in ids : Belongs(new[id], q, b)}
  <2>1. more[q][b] = Kept(Listed(batch), T)
    OBVIOUS
  <2>2. T \in SUBSET Numbers(batch) /\ \A id : id \in T <=> id \in ids /\ Belongs(new[id], q, b)
    OBVIOUS
  <2> HIDE DEF T, more
  <2>3. /\ Kept(Listed(batch), T) \in Seq(Nat)
        /\ \A i \in DOMAIN Kept(Listed(batch), T) : Kept(Listed(batch), T)[i] < next
        /\ \A id \in T : Once(Kept(Listed(batch), T), id)
        /\ \A id : id \notin T => Absent(Kept(Listed(batch), T), id)
    BY <1>2, <2>2, ListedOnce, Zenon
  <2> HIDE DEF ids, new, next
  <2> QED
    BY <2>1, <2>2, <2>3
<1>6. more \in [Origins -> [BOOLEAN -> Seq(Nat)]]
  <2>1. DOMAIN more = Origins /\ \A q \in Origins : DOMAIN more[q] = BOOLEAN
    OBVIOUS
  <2>2. more = [q \in Origins |-> more[q]] /\ \A q \in Origins : more[q] = [b \in BOOLEAN |-> more[q][b]]
    OBVIOUS
  <2> HIDE DEF more
  <2> QED
    BY <1>5, <2>1, <2>2
<1>7. /\ DOMAIN jobs' = DOMAIN js \cup ids
      /\ \A n \in ids : jobs'[n] = new[n]
      /\ \A n \in DOMAIN js \ ids : jobs'[n] = js[n]
  BY <1>1 DEF Inserted
<1>8. \A n \in DOMAIN js : js[n] \in Entries /\ n \in 1 .. nextId - 1 /\ n \notin ids
  BY <1>2, <1>3 DEF IsJobs
<1>9. /\ DOMAIN keyIndex' = DOMAIN keyIndex \cup ks
      /\ \A k \in ks : \A id \in ids : k \in keys(id) => keyIndex'[k] = id
      /\ \A k \in DOMAIN keyIndex \ ks : keyIndex'[k] = keyIndex[k]
  <2>1. DOMAIN index = ks
    BY <1>3
  <2>2. ASSUME NEW k \in ks, NEW id \in ids, k \in keys(id) PROVE index[k] = id
    <3>1. index[k] = CHOOSE n \in ids : k \in keys(n)
      BY <1>3
    <3> HIDE DEF ids, keys, index
    <3>2. index[k] \in ids /\ k \in keys(index[k])
      BY <2>2, <3>1, Zenon
    <3> QED
      BY <1>3, <2>2, <3>2
  <2> HIDE DEF index
  <2> QED
    BY <1>1, <2>1, <2>2 DEF Inserted
<1> HIDE DEF ids, keys, new, more, index, next
<1>10. IsJobs(jobs', next)
  <2> SUFFICES ASSUME NEW n \in DOMAIN jobs' PROVE n \in 1 .. next - 1 /\ jobs'[n] \in Entries
    BY DEF IsJobs
  <2>1. CASE n \in ids
    <3>1. n \in Nat /\ n >= nextId /\ n < next /\ next \in Nat /\ jobs'[n] \in Entries
      BY <1>3, <1>4, <1>7, <2>1
    <3> QED
      BY <1>2, <3>1
  <2>2. CASE n \notin ids
    BY <1>2, <1>3, <1>7, <1>8, <2>2
  <2> QED
    BY <2>1, <2>2
<1>11. Indexed(jobs', keyIndex')
  <2>1. ASSUME NEW n \in DOMAIN jobs', Waiting(jobs'[n]), NEW k \in KeysOf(jobs'[n])
        PROVE  k \in DOMAIN keyIndex' /\ keyIndex'[k] = n
    <3>1. CASE n \in ids
      <4>1. k \in keys(n) /\ k \in ks
        BY <1>3, <1>4, <1>7, <2>1, <3>1
      <4> QED
        BY <1>9, <3>1, <4>1
    <3>2. CASE n \notin ids
      <4>1. n \in DOMAIN js /\ jobs'[n] = js[n]
        BY <1>7, <2>1, <3>2
      <4>2. k \in DOMAIN keyIndex /\ keyIndex[k] = n /\ k \notin ks
        BY <2>1, <4>1 DEF Indexed
      <4> QED
        BY <1>9, <4>2
    <3> QED
      BY <3>1, <3>2
  <2>2. ASSUME NEW k \in DOMAIN keyIndex'
        PROVE  keyIndex'[k] \in DOMAIN jobs' /\ k \in KeysOf(jobs'[keyIndex'[k]])
    <3>1. CASE k \in ks
      <4>1. PICK id \in ids : k \in keys(id)
        BY <1>3, <3>1
      <4> QED
        BY <1>4, <1>7, <1>9, <3>1, <4>1
    <3>2. CASE k \notin ks
      <4>1. /\ keyIndex'[k] = keyIndex[k] /\ keyIndex[k] \in DOMAIN js
            /\ k \in KeysOf(js[keyIndex[k]])
        BY <1>9, <2>2, <3>2 DEF Indexed
      <4> QED
        BY <1>7, <1>8, <4>1
    <3> QED
      BY <3>1, <3>2
  <2> QED
    BY <2>1, <2>2 DEF Indexed
<1>12. Known(jobs', cs)
  <2> SUFFICES ASSUME NEW n \in DOMAIN jobs', Waiting(jobs'[n]), NEW k \in KeysOf(jobs'[n])
               PROVE  cs[k] # {} /\ cs[k] \subseteq jobs'[n].members[k]
    BY DEF Known
  <2>1. CASE n \in ids
    <3>1. k \in keys(n) /\ k \in ks /\ jobs'[n].members[k] = mem[k]
      BY <1>3, <1>4, <1>7, <2>1
    <3> QED
      BY <3>1
  <2>2. CASE n \notin ids
    <3>1. n \in DOMAIN js /\ jobs'[n] = js[n]
      BY <1>7, <2>2
    <3> QED
      BY <3>1 DEF Known
  <2> QED
    BY <2>1, <2>2
<1>13. Apart(jobs', st)
  <2> SUFFICES ASSUME NEW n \in DOMAIN jobs'
               PROVE  /\ ~jobs'[n].resume => \A j \in st : KeysOf(jobs'[n]) \cap j.keys = {}
                      /\ jobs'[n].resume /\ jobs'[n].open =>
                           \E j \in st : KeysOf(jobs'[n]) = j.keys
    BY DEF Apart
  <2>1. CASE n \in ids
    <3>1. KeysOf(jobs'[n]) \subseteq ks /\ ~jobs'[n].resume
      BY <1>3, <1>4, <1>7, <2>1
    <3> QED
      BY <3>1
  <2>2. CASE n \notin ids
    <3>1. n \in DOMAIN js /\ jobs'[n] = js[n]
      BY <1>7, <2>2
    <3> QED
      BY <3>1 DEF Apart
  <2> QED
    BY <2>1, <2>2
<1>14. Led(jobs', more)
  <2> SUFFICES ASSUME NEW n \in DOMAIN jobs', Waiting(jobs'[n]), NEW q \in Origins
               PROVE  /\ q \in OriginsOf(jobs'[n]) =>
                           OnceIn(RefsOf(lanes, q, jobs'[n].aggregate), more[q][jobs'[n].aggregate], n)
                      /\ q \notin OriginsOf(jobs'[n]) =>
                           NotIn(RefsOf(lanes, q, jobs'[n].aggregate), more[q][jobs'[n].aggregate], n)
    BY DEF Led
  <2> DEFINE b == jobs'[n].aggregate s == RefsOf(lanes, q, b) t == more[q][b]
  <2>0. b \in BOOLEAN
    BY <1>10, EntryFacts DEF IsJobs
  <2>1. CASE n \in ids
    <3>1. n \in Nat /\ n >= nextId /\ jobs'[n] = new[n] /\ b = new[n].aggregate
      BY <1>3, <1>7, <2>1
    <3>2. Absent(s, n)
      BY <1>2, <2>0, <3>1, Unheard
    <3>3. Belongs(new[n], q, b) <=> q \in OriginsOf(jobs'[n])
      BY <3>1 DEF Belongs
    <3>4. (q \in OriginsOf(jobs'[n]) => Once(t, n)) /\ (q \notin OriginsOf(jobs'[n]) => Absent(t, n))
      BY <1>5, <2>0, <2>1, <3>3
    <3> HIDE DEF s, t
    <3>5. /\ q \in OriginsOf(jobs'[n]) => OnceIn(s, t, n)
          /\ q \notin OriginsOf(jobs'[n]) => NotIn(s, t, n)
      BY <3>2, <3>4 DEF OnceIn, NotIn
    <3> QED
      BY <3>5 DEF s, t
  <2>2. CASE n \notin ids
    <3>1. n \in DOMAIN js /\ jobs'[n] = js[n]
      BY <1>7, <2>2
    <3>2. Absent(t, n)
      BY <1>5, <2>0, <2>2
    <3>3. /\ q \in OriginsOf(jobs'[n]) => Once(s, n)
          /\ q \notin OriginsOf(jobs'[n]) => Absent(s, n)
      BY <3>1, Placed
    <3> HIDE DEF s, t
    <3>4. /\ q \in OriginsOf(jobs'[n]) => OnceIn(s, t, n)
          /\ q \notin OriginsOf(jobs'[n]) => NotIn(s, t, n)
      BY <3>2, <3>3 DEF OnceIn, NotIn
    <3> QED
      BY <3>4 DEF s, t
  <2> QED
    BY <2>1, <2>2
<1>15. \A q \in Origins : \A b \in BOOLEAN : \A i \in DOMAIN more[q][b] : more[q][b][i] < next
  BY <1>5
<1>16. /\ Covered(jobs', lanes') /\ Confined(jobs', lanes') /\ Referring(lanes', next)
       /\ IsLanes(lanes') /\ origins' \in Seq(Origins) /\ Turned(lanes', origins')
  BY <1>1, <1>2, <1>3, <1>6, <1>10, <1>14, <1>15, PushReaches
<1>17. Closer(lanes, origins, origins')
  <2>1. \A n \in DOMAIN origins' : origins'[n] \in DOMAIN lanes =>
          \E i \in DOMAIN origins : origins[i] = origins'[n] /\ n <= i
    BY <1>1, <1>2, <1>3, <1>6, <1>10, <1>14, <1>15, PushReaches
  <2> QED
    BY <2>1 DEF Closer
<1>18. Passed(skipped', lanes', origins') /\ skipped' \in [Origins -> Nat]
  BY <1>16, <1>17, SkipKeeps
<1>19. next # 0 /\ DOMAIN keyIndex' \subseteq Keys
  BY <1>2, <1>3, <1>9
<1> QED
  BY <1>1, <1>3, <1>10, <1>11, <1>12, <1>13, <1>16, <1>18, <1>19

LEMMA SubmitStep ==
    ASSUME SchedulerAssumption, QueueInv, NEW ks \in SUBSET Keys, NEW mem,
           \A k \in ks : mem[k] # {} /\ mem[k] \subseteq Origins, SubmitReads(ks, mem)
    PROVE  QueueInv'
<1> USE DEF QueueInv, WorkInv, TypeInv
<1>1. /\ \A k \in ks : callers[k] = {}
      /\ callers' = [k \in Keys |-> IF k \in ks THEN mem[k] ELSE callers[k]]
      /\ started' = started /\ Skip({})
  BY Zenon DEF SubmitReads
<1>2. PICK batch \in Batches[ks] : Admit(jobs, keyIndex, batch, mem)
  BY Zenon DEF SubmitReads
<1>3. SharesOut(batch, ks)
  BY BatchFacts
<1>4. callers' \in [Keys -> SUBSET Origins]
  BY <1>1
<1>5. \A k \in Keys \ ks : callers'[k] = callers[k]
  BY <1>1
<1>6. \A k \in ks : callers'[k] = mem[k]
  BY <1>1
<1>7. \A n \in DOMAIN jobs : Waiting(jobs[n]) => KeysOf(jobs[n]) \cap ks = {}
  BY <1>1 DEF Known
<1>8. \A j \in started : j.keys \cap ks = {}
  BY <1>1 DEF Active
<1>9. Active(started, callers')
  <2>1. ASSUME NEW j \in started, NEW k \in j.keys PROVE callers'[k] # {}
    <3>1. k \in Keys \ ks
      BY <1>8
    <3> QED
      BY <1>5, <3>1 DEF Active
  <2> QED
    BY <2>1 DEF Active
<1>10. Known(jobs, callers')
  <2> SUFFICES ASSUME NEW n \in DOMAIN jobs, Waiting(jobs[n]), NEW k \in KeysOf(jobs[n])
               PROVE  callers'[k] # {} /\ callers'[k] \subseteq jobs[n].members[k]
    BY DEF Known
  <2>1. k \in Keys \ ks
    BY <1>7, EntryFacts DEF IsJobs
  <2> QED
    BY <1>5, <2>1 DEF Known
<1>11. Covered(jobs, lanes) /\ Confined(jobs, lanes) /\ LaneInv
  BY DEF LaneInv
<1>12. \A k \in ks : mem[k] = callers'[k] /\ mem[k] # {} /\ mem[k] \subseteq Origins
  BY <1>6
<1>13. /\ nextId' \in Nat \ {0} /\ IsJobs(jobs', nextId')
       /\ DOMAIN keyIndex' \subseteq Keys /\ IsLanes(lanes')
       /\ origins' \in Seq(Origins) /\ skipped' \in [Origins -> Nat]
       /\ Indexed(jobs', keyIndex') /\ Known(jobs', callers') /\ Apart(jobs', started)
       /\ LaneInv' /\ Passed(skipped', lanes', origins')
  <2>1. Admissible(jobs, started, callers', ks, mem)
    BY <1>7, <1>8, <1>10, <1>11, <1>12 DEF Admissible
  <2> HIDE DEF QueueInv, WorkInv, TypeInv
  <2>2. TypeInv /\ Passed(skipped, lanes, origins)
    BY DEF QueueInv
  <2> QED
    BY <1>1, <1>2, <1>3, <1>11, <2>1, <2>2, AdmitKeeps
<1> QED
  BY <1>1, <1>4, <1>9, <1>13

LEMMA CompleteStep ==
    ASSUME SchedulerAssumption, QueueInv, NEW j \in started, NEW again \in SUBSET j.keys,
           Complete(j, again)
    PROVE  QueueInv'
<1> USE DEF QueueInv, WorkInv, TypeInv
<1> DEFINE js == [id \in DOMAIN jobs |->
                    IF jobs[id].resume /\ KeysOf(jobs[id]) = j.keys
                    THEN [jobs[id] EXCEPT !.open = FALSE] ELSE jobs[id]]
           st == started \ {j}
<1>1. /\ started' = st
      /\ callers' = [k \in Keys |-> IF k \in j.keys \ again THEN {} ELSE callers[k]]
      /\ Skip({})
  BY Zenon DEF Complete
<1>2. PICK batch \in Batches[again] : Admit(js, keyIndex, batch, callers)
  BY Zenon DEF Complete
<1>3. j.keys \subseteq Keys /\ again \in SUBSET Keys
  OBVIOUS
<1>4. SharesOut(batch, again)
  BY <1>3, BatchFacts
<1>5. ASSUME NEW id \in DOMAIN jobs
      PROVE  /\ js[id] \in Entries /\ KeysOf(js[id]) = KeysOf(jobs[id])
             /\ js[id].resume = jobs[id].resume
             /\ js[id] # jobs[id] => ~Waiting(js[id])
             /\ jobs[id].resume /\ KeysOf(jobs[id]) = j.keys => ~js[id].open
  <2>1. jobs[id] \in Entries
    BY DEF IsJobs
  <2>2. CASE jobs[id].resume /\ KeysOf(jobs[id]) = j.keys
    <3>1. js[id] = [jobs[id] EXCEPT !.open = FALSE]
      BY <2>2
    <3> HIDE DEF js
    <3>2. /\ js[id] \in Entries /\ js[id].members = jobs[id].members
          /\ js[id].resume = jobs[id].resume /\ ~js[id].open
      BY <2>1, <3>1 DEF Entries
    <3> QED
      BY <2>2, <3>2 DEF KeysOf, Waiting
  <2>3. CASE ~(jobs[id].resume /\ KeysOf(jobs[id]) = j.keys)
    <3>1. js[id] = jobs[id]
      BY <2>3
    <3> HIDE DEF js
    <3> QED
      BY <2>1, <2>3, <3>1
  <2> QED
    BY <2>2, <2>3
<1>6. DOMAIN js = DOMAIN jobs
  OBVIOUS
<1> HIDE DEF js
<1>7. IsJobs(js, nextId)
  BY <1>5, <1>6 DEF IsJobs
<1>8. Fewer(js, jobs)
  BY <1>5, <1>6 DEF Fewer
<1>9. Covered(js, lanes) /\ Confined(js, lanes) /\ LaneInv
  BY <1>8, FewerKeeps DEF LaneInv
<1>10. Indexed(js, keyIndex)
  <2>1. ASSUME NEW id \in DOMAIN js, Waiting(js[id]), NEW k \in KeysOf(js[id])
        PROVE  k \in DOMAIN keyIndex /\ keyIndex[k] = id
    <3>1. id \in DOMAIN jobs /\ js[id] = jobs[id]
      BY <1>8, <2>1 DEF Fewer
    <3> QED
      BY <2>1, <3>1 DEF Indexed
  <2>2. \A k \in DOMAIN keyIndex : keyIndex[k] \in DOMAIN js /\ k \in KeysOf(js[keyIndex[k]])
    BY <1>5, <1>6 DEF Indexed
  <2> QED
    BY <2>1, <2>2 DEF Indexed
\* What is left waiting is of other work.
<1>11. ASSUME NEW id \in DOMAIN js, Waiting(js[id])
       PROVE  KeysOf(js[id]) \cap j.keys = {}
  <2>1. id \in DOMAIN jobs /\ js[id] = jobs[id]
    BY <1>8, <1>11 DEF Fewer
  <2>2. CASE ~jobs[id].resume
    BY <2>1, <2>2 DEF Apart
  <2>3. CASE jobs[id].resume
    <3>1. jobs[id].open
      BY <1>11, <2>1, <2>3 DEF Waiting
    <3>2. PICK l \in started : KeysOf(jobs[id]) = l.keys
      BY <2>1, <2>3, <3>1 DEF Apart
    <3>3. l # j
      BY <1>5, <2>1, <2>3, <3>1, <3>2
    <3> QED
      BY <2>1, <3>2, <3>3 DEF Active
  <2> QED
    BY <2>2, <2>3
<1>12. callers' \in [Keys -> SUBSET Origins]
  BY <1>1
<1>13. /\ \A k \in Keys \ j.keys : callers'[k] = callers[k]
       /\ \A k \in again : callers'[k] = callers[k]
  BY <1>1, <1>3
<1>14. Known(js, callers')
  <2> SUFFICES ASSUME NEW n \in DOMAIN js, Waiting(js[n]), NEW k \in KeysOf(js[n])
               PROVE  callers'[k] # {} /\ callers'[k] \subseteq js[n].members[k]
    BY DEF Known
  <2>1. k \in Keys \ j.keys
    BY <1>7, <1>11, EntryFacts DEF IsJobs
  <2>2. n \in DOMAIN jobs /\ js[n] = jobs[n]
    BY <1>8 DEF Fewer
  <2> QED
    BY <1>13, <2>1, <2>2 DEF Known
<1>15. Apart(js, st)
  <2> SUFFICES ASSUME NEW n \in DOMAIN js
               PROVE  /\ ~js[n].resume => \A l \in st : KeysOf(js[n]) \cap l.keys = {}
                      /\ js[n].resume /\ js[n].open => \E l \in st : KeysOf(js[n]) = l.keys
    BY DEF Apart
  <2>1. n \in DOMAIN jobs /\ js[n].resume = jobs[n].resume /\ KeysOf(js[n]) = KeysOf(jobs[n])
    BY <1>5, <1>6
  <2>2. ASSUME ~js[n].resume PROVE \A l \in st : KeysOf(js[n]) \cap l.keys = {}
    BY <2>1, <2>2 DEF Apart
  <2>3. ASSUME js[n].resume, js[n].open PROVE \E l \in st : KeysOf(js[n]) = l.keys
    <3>1. Waiting(js[n])
      BY <2>3 DEF Waiting
    <3>2. js[n] = jobs[n]
      BY <1>8, <3>1 DEF Fewer
    <3>3. PICK l \in started : KeysOf(jobs[n]) = l.keys
      BY <2>1, <2>3, <3>2 DEF Apart
    <3>4. l # j
      BY <1>5, <2>1, <2>3, <3>3
    <3> QED
      BY <3>2, <3>3, <3>4
  <2> QED
    BY <2>2, <2>3
<1>16. \A l \in st : l.keys \cap j.keys = {}
  BY DEF Active
<1>17. Active(st, callers')
  <2>1. ASSUME NEW l \in st, NEW k \in l.keys PROVE callers'[k] # {}
    <3>1. k \in Keys \ j.keys
      BY <1>16
    <3> QED
      BY <1>13, <3>1 DEF Active
  <2> QED
    BY <2>1 DEF Active
<1>18. \A k \in again : callers[k] = callers'[k] /\ callers[k] # {} /\ callers[k] \subseteq Origins
  BY <1>3, <1>13 DEF Active
<1>19. \A n \in DOMAIN js : Waiting(js[n]) => KeysOf(js[n]) \cap again = {}
  BY <1>11
<1>20. \A l \in st : l.keys \cap again = {}
  BY <1>16
<1>21. st \subseteq [keys : (SUBSET Keys) \ {{}}, aggregate : BOOLEAN]
  OBVIOUS
<1> HIDE DEF st
<1>22. /\ nextId' \in Nat \ {0} /\ IsJobs(jobs', nextId')
       /\ DOMAIN keyIndex' \subseteq Keys /\ IsLanes(lanes')
       /\ origins' \in Seq(Origins) /\ skipped' \in [Origins -> Nat]
       /\ Indexed(jobs', keyIndex') /\ Known(jobs', callers') /\ Apart(jobs', st)
       /\ LaneInv' /\ Passed(skipped', lanes', origins')
  <2>1. Admissible(js, st, callers', again, callers)
    BY <1>7, <1>9, <1>10, <1>14, <1>15, <1>18, <1>19, <1>20 DEF Admissible
  <2> HIDE DEF QueueInv, WorkInv, TypeInv
  <2>2. TypeInv /\ Passed(skipped, lanes, origins)
    BY DEF QueueInv
  <2> QED
    BY <1>1, <1>2, <1>3, <1>4, <1>9, <2>1, <2>2, AdmitKeeps
<1> QED
  BY <1>1, <1>12, <1>17, <1>21, <1>22

-----------------------------------------------------------------------------
(* The queue                                                               *)

LEMMA QueueInitially == ASSUME QueueInit PROVE QueueInv
<1>1. /\ DOMAIN jobs = {} /\ DOMAIN keyIndex = {} /\ DOMAIN lanes = {} /\ origins = <<>>
      /\ DOMAIN origins = {}
      /\ nextId = 1 /\ started = {} /\ callers = [k \in Keys |-> {}]
      /\ skipped = [o \in Origins |-> 0]
  BY DEF QueueInit
<1>2. TypeInv
  BY <1>1 DEF TypeInv, IsJobs, IsLanes
<1>3. WorkInv
  BY <1>1 DEF WorkInv, Indexed, Known, Apart, Active
<1>4. LaneInv
  BY <1>1 DEF LaneInv, Turned, Unrepeated, Covered, Confined, Referring
<1>5. Passed(skipped, lanes, origins)
  BY <1>1 DEF Passed
<1> QED
  BY <1>2, <1>3, <1>4, <1>5 DEF QueueInv

LEMMA QueueStays ==
    ASSUME QueueInv, UNCHANGED queueVars
    PROVE  QueueInv'
BY DEF QueueInv, TypeInv, WorkInv, LaneInv, queueVars

LEMMA RunningStep ==
    ASSUME SchedulerAssumption, QueueInv, Running
    PROVE  QueueInv'
<1>1. CASE \E ks \in SUBSET Keys : \E asker \in [ks -> Origins] :
             SubmitReads(ks, [k \in ks |-> {asker[k]}])
  <2>0. PICK ks \in SUBSET Keys : \E asker \in [ks -> Origins] :
          SubmitReads(ks, [k \in ks |-> {asker[k]}])
    BY <1>1
  <2>1. PICK asker \in [ks -> Origins] : SubmitReads(ks, [k \in ks |-> {asker[k]}])
    BY <2>0
  <2> DEFINE mem == [k \in ks |-> {asker[k]}]
  <2>2. \A k \in ks : mem[k] # {} /\ mem[k] \subseteq Origins
    OBVIOUS
  <2>3. SubmitReads(ks, mem)
    BY <2>1
  <2> HIDE DEF mem
  <2> QED
    BY <2>2, <2>3, SubmitStep
<1>2. CASE \E k \in Keys, o \in Origins : Join(k, o)
  BY <1>2, JoinStep
<1>3. CASE \E j \in started : Resume(j)
  BY <1>3, ResumeStep
<1>4. CASE \E i \in DOMAIN origins : Serve(i)
  BY <1>4, ServeStep
<1>5. CASE ServeNone
  BY <1>5, ServeNoneStep
<1>6. CASE Verify
  BY <1>6, VerifyStep
<1>7. CASE \E ks \in SUBSET QueuedKeys : Expire(ks)
  BY <1>7, ExpireStep
<1> QED
  BY <1>1, <1>2, <1>3, <1>4, <1>5, <1>6, <1>7, Zenon DEF Running

LEMMA QueueStep ==
    ASSUME SchedulerAssumption, QueueInv, [QueueNext]_queueVars
    PROVE  QueueInv'
<1>1. CASE accepting /\ Running
  BY <1>1, RunningStep
<1>2. CASE \E id \in DOMAIN jobs : StopWaiting(id)
  BY <1>2, StopWaitingStep
<1>3. CASE \E j \in started : \E again \in SUBSET j.keys : Complete(j, again)
  BY <1>3, CompleteStep
<1>4. CASE Drain
  BY <1>4, DrainStep
<1>5. CASE \E r \in Routes : Verified(r)
  BY <1>5, VerifiedStep
<1>6. CASE UNCHANGED queueVars
  BY <1>6, QueueStays
<1> QED
  BY <1>1, <1>2, <1>3, <1>4, <1>5, <1>6, Zenon DEF QueueNext

LEMMA QueueAlways == QueueSpec => []QueueInv
<1>1. QueueInv /\ [QueueNext]_queueVars => QueueInv'
  BY SchedulerAssumption, QueueStep
<1> QED
  BY <1>1, QueueInitially, PTL DEF QueueSpec

LEMMA QueueReaches == ASSUME QueueInv PROVE LanesReachEntries
<1> USE DEF QueueInv, TypeInv, WorkInv, LaneInv
<1>1. ToSet(origins) = DOMAIN lanes
  BY DEF ToSet, Turned
<1>2. \A i, n \in DOMAIN origins : origins[i] = origins[n] => i = n
  BY DEF Turned, Unrepeated
<1>3. ASSUME NEW id \in DOMAIN jobs, Waiting(jobs[id]),
             NEW o \in UNION {callers[k] : k \in KeysOf(jobs[id])}
      PROVE  /\ o \in DOMAIN lanes
             /\ Cardinality({i \in DOMAIN lanes[o].refs[jobs[id].aggregate] :
                               lanes[o].refs[jobs[id].aggregate][i] = id}) = 1
  <2> DEFINE s == lanes[o].refs[jobs[id].aggregate]
             P == {i \in DOMAIN s : s[i] = id}
  <2>1. PICK k \in KeysOf(jobs[id]) : o \in callers[k]
    OBVIOUS
  <2>2. o \in OriginsOf(jobs[id])
    BY <1>3, <2>1 DEF Known, OriginsOf
  <2>3. o \in DOMAIN lanes /\ Once(s, id)
    BY <1>3, <2>2 DEF Covered
  <2> HIDE DEF s
  <2>4. PICK i \in DOMAIN s : s[i] = id /\ \A n \in DOMAIN s : s[n] = id => n = i
    BY <2>3 DEF Once
  <2>5. P = {i}
    BY <2>4
  <2> HIDE DEF P
  <2>6. Cardinality(P) = 1
    BY <2>5, FS_Singleton
  <2> QED
    BY <2>3, <2>6 DEF P, s
<1> QED
  BY <1>1, <1>2, <1>3 DEF LanesReachEntries

LEMMA QueueBounds == ASSUME SchedulerAssumption, QueueInv PROVE TurnsBounded
<1> SUFFICES ASSUME NEW o \in Origins PROVE skipped[o] < Cardinality(Origins)
  BY DEF TurnsBounded
<1>1. skipped[o] \in Nat
  BY DEF QueueInv, TypeInv
<1>2. IsFiniteSet(Origins) /\ Cardinality(Origins) \in Nat /\ Cardinality(Origins) # 0
  <2>1. IsFiniteSet(Origins)
    BY DEF SchedulerAssumption
  <2> QED
    BY <2>1, FS_CardinalityType, FS_EmptySet
<1>3. CASE skipped[o] = 0
  BY <1>2, <1>3
<1>4. CASE skipped[o] # 0
  <2>1. PICK i \in DOMAIN origins : origins[i] = o
    BY <1>4 DEF QueueInv, LaneInv, Passed, Turned
  <2>2. i \in Nat /\ i >= 1
    BY DEF QueueInv, TypeInv
  <2>3. skipped[o] + i <= Cardinality(Origins)
    BY <1>4, <2>1 DEF QueueInv, Passed
  <2> QED
    BY <1>1, <1>2, <2>2, <2>3
<1> QED
  BY <1>3, <1>4

\* No entry is stranded, for any keys, origins, routes and batch sizes: whatever
\* joins, expires, is claimed through another lane or stops waiting (prune_refs,
\* attach, claim), each live entry stays in the lane of each of its waiting
\* origins, and each lane in the turns, both exactly once.
THEOREM EntriesReached == QueueSpec => []LanesReachEntries
<1>1. QueueInv => LanesReachEntries
  BY QueueReaches
<1> QED
  BY <1>1, QueueAlways, PTL

\* Round robin (next): with n origins, one whose work may read is passed over fewer
\* than n times before it is served, however lanes come and go in the meantime.
THEOREM TurnsAreBounded == QueueSpec => []TurnsBounded
<1>1. QueueInv => TurnsBounded
  BY SchedulerAssumption, QueueBounds
<1> QED
  BY <1>1, QueueAlways, PTL
=============================================================================
