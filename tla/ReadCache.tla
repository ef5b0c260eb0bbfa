----------------------------- MODULE ReadCache -----------------------------
(***************************************************************************)
(* The RPC broker's cache of completed reads (rpc_broker/cache.rs) and the *)
(* two places of the broker actor that use it: resolve_read, which answers *)
(* a read from the cache or shares a read in flight, and complete_job,     *)
(* which decides whether a result may be cached.                           *)
(*                                                                         *)
(* A read of the latest block may be reused only while the chain's head is *)
(* the one it was sent under.  The code identifies that situation by an    *)
(* epoch, a head height plus a generation that every invalidation bumps.   *)
(* The work key carries the epoch of the dispatch; a cache entry keeps     *)
(* only the height, so that reuse is sound rests on evictions and on       *)
(* epochs never coming back.                                               *)
(*                                                                         *)
(* Time is the age of each head observation, counted up to Lease + 1: the  *)
(* code only asks whether an observation is older than the lease.  One     *)
(* route per chain; the value a read returns is abstracted to whether its  *)
(* head was disturbed since it was sent (staleWork, staleEntries, which no *)
(* action reads).                                                          *)
(***************************************************************************)
EXTENDS Integers, Sequences, FiniteSets, Functions

CONSTANTS
    Chains,        \* chain ids
    LatestReads,   \* cacheable read identities at the latest block
    PinnedReads,   \* cacheable read identities at a block number or hash
    ChainOf,       \* the chain of an identity
    Blocks,        \* head heights the observers report
    MaxGeneration, \* u64::MAX of the generation counter
    Lease,         \* HEAD_FRESHNESS_LEASE in clock ticks
    EntryLimit,    \* READ_CACHE_ENTRY_LIMIT
    MaxUnshared,   \* bound: unshared copies of one read in flight
    None           \* Option::None

ASSUME CacheAssumption ==
    /\ LatestReads \cap PinnedReads = {}
    /\ ChainOf \in [LatestReads \cup PinnedReads -> Chains]
    /\ Blocks \subseteq Nat
    /\ MaxGeneration \in Nat
    /\ Lease \in Nat
    /\ EntryLimit \in Nat \ {0}
    /\ MaxUnshared \in Nat

\* None is not a value an Option here may hold.
ASSUME NoneAssumption ==
    /\ None \notin Nat
    /\ None \notin [block : Blocks, generation : 0 .. MaxGeneration]
    /\ None \notin [block : Blocks, age : 0 .. Lease + 1, usable : BOOLEAN,
                    generation : (0 .. MaxGeneration) \cup {None}]

VARIABLES
    head,         \* current_blocks: the last head observation of each chain
    entries,      \* entries: cached identity -> the epoch it was stored under
    order,        \* order: identities, oldest insertion first
    pending,      \* Actor::pending: reads waiting for the next flush
    inflight,     \* Actor::active: keys of the reads sent and not answered
    staleWork,    \* history: reads in flight whose head was disturbed
    staleEntries  \* history: cached reads whose head was disturbed

vars == <<head, entries, order, pending, inflight, staleWork, staleEntries>>

Reads == LatestReads \cup PinnedReads
Generations == 0 .. MaxGeneration
LatestEpoch == [block : Blocks, generation : Generations]
HeadObservation == [block : Blocks, age : 0 .. Lease + 1, usable : BOOLEAN,
                    generation : Generations \cup {None}]
\* Nonce 0 marks a key that later callers of the same read may join.
WorkKey == [read : Reads, epoch : LatestEpoch \cup {None}, nonce : 0 .. MaxUnshared]

(***************************************************************************)
(* Heads                                                                   *)
(***************************************************************************)
\* HeadObservation::latest_epoch
EpochOf(h) ==
    IF h # None /\ h.usable /\ h.generation # None
    THEN [block |-> h.block, generation |-> h.generation]
    ELSE None

LatestOf(c) == {r \in LatestReads : ChainOf[r] = c}
LatestWork(c) == {w \in inflight : w.read \in LatestOf(c)}

\* invalidate_head: an unusable head keeps its generation; a generation that
\* cannot be bumped disables the height.
InvalidatedKeepingGeneration(h) ==
    IF h # None /\ h.usable THEN [h EXCEPT !.usable = FALSE] ELSE h

Invalidated(h) ==
    IF h # None /\ h.usable
    THEN [h EXCEPT !.usable = FALSE,
                   !.generation = IF h.generation # None /\ h.generation < MaxGeneration
                                  THEN h.generation + 1 ELSE None]
    ELSE h

Expired(h) == h # None /\ h.age > Lease

NewHead(b) == [block |-> b, age |-> 0, usable |-> TRUE, generation |-> 0]

\* renew_head on an observation of the same height
Renewed(h) == [h EXCEPT !.age = 0, !.usable = h.generation # None]

(***************************************************************************)
(* Entries                                                                 *)
(***************************************************************************)
\* evict_latest, applied to the map and to the insertion order
Without(e, gone) == Restrict(e, DOMAIN e \ gone)
OrderWithout(o, gone) == SelectSeq(o, LAMBDA r : r \notin gone)

\* The epoch resolve_read expects of a cached entry; pinned reads always
\* expect what complete_job stored for them.
ExpectedEpoch(r, h) ==
    IF r \in PinnedReads THEN 0
    ELSE IF EpochOf(h) = None THEN None ELSE EpochOf(h).block

Lookup(r, e, h) ==
    /\ ExpectedEpoch(r, h) # None
    /\ r \in DOMAIN e
    /\ e[r] = ExpectedEpoch(r, h)

\* insert: the identity moves to the back, the oldest leaves a full cache.
InsertedOrder(r) == Append(OrderWithout(order, {r}), r)
Overflow(r) ==
    IF Cardinality(DOMAIN entries \cup {r}) > EntryLimit
    THEN {Head(InsertedOrder(r))} ELSE {}

Insert(r, observed) ==
    /\ entries' = [x \in (DOMAIN entries \cup {r}) \ Overflow(r) |->
                     IF x = r THEN observed ELSE entries[x]]
    /\ order' = IF Overflow(r) = {} THEN InsertedOrder(r) ELSE Tail(InsertedOrder(r))

(***************************************************************************)
(* resolve_read for every pending read, as one flush.  hd, en and od are   *)
(* the cache after the event that caused the flush.  Reads of one chain    *)
(* see the same instant, so the first of them reconciles the head for all. *)
(***************************************************************************)
KeyFor(r, h) ==
    IF r \in PinnedReads THEN [read |-> r, epoch |-> None, nonce |-> 0]
    ELSE IF EpochOf(h) # None THEN [read |-> r, epoch |-> EpochOf(h), nonce |-> 0]
    ELSE [read |-> r, epoch |-> None,
          nonce |-> CHOOSE n \in 1 .. MaxUnshared :
                        [read |-> r, epoch |-> None, nonce |-> n] \notin inflight]

\* Bound: a read without an epoch needs a free unshared slot.
CanFlush ==
    \A r \in pending \cap LatestReads : \E n \in 1 .. MaxUnshared :
        [read |-> r, epoch |-> None, nonce |-> n] \notin inflight

\* reconcile_latest_cache_epoch runs for the chain of every pending latest read.
Reconciled(hd) ==
    [c \in Chains |-> IF pending \cap LatestOf(c) # {} /\ Expired(hd[c])
                      THEN Invalidated(hd[c]) ELSE hd[c]]
ReconcileEvicts(hd) ==
    {r \in LatestReads : pending \cap LatestOf(ChainOf[r]) # {} /\ Expired(hd[ChainOf[r]])}

Flush(hd, en, od, staleE, staleW) ==
    LET hd2 == Reconciled(hd)
        gone == ReconcileEvicts(hd)
        en2 == Without(en, gone)
        missed == {r \in pending : ~Lookup(r, en2, hd2[ChainOf[r]])}
    IN /\ CanFlush
       /\ head' = hd2
       /\ entries' = en2
       /\ order' = OrderWithout(od, gone)
       /\ inflight' = inflight \cup {KeyFor(r, hd2[ChainOf[r]]) : r \in missed}
       /\ pending' = {}
       /\ staleEntries' = staleE \ gone
       /\ staleWork' = staleW

(***************************************************************************)
(* Actions                                                                 *)
(***************************************************************************)
Init ==
    /\ head = [c \in Chains |-> None]
    /\ entries = [r \in {} |-> 0]
    /\ order = <<>>
    /\ pending = {}
    /\ inflight = {}
    /\ staleWork = {}
    /\ staleEntries = {}

\* Command::Submit below every threshold: the read waits for the next flush.
Submit(r) ==
    /\ r \notin pending
    /\ pending' = pending \cup {r}
    /\ UNCHANGED <<head, entries, order, inflight, staleWork, staleEntries>>

\* The flush timer, or a batching threshold.
TimerFlush ==
    /\ pending # {}
    /\ Flush(head, entries, order, staleEntries, staleWork)

\* BlockEvent::HeadObserved with a first or newer height.
HeadAdvanced(c, b) ==
    /\ head[c] # None => b > head[c].block
    /\ Flush([head EXCEPT ![c] = NewHead(b)],
             Without(entries, LatestOf(c)), OrderWithout(order, LatestOf(c)),
             staleEntries \ LatestOf(c), staleWork \cup LatestWork(c))

\* BlockEvent::HeadObserved with the recorded height; after the lease the
\* height is first invalidated.
HeadRepeated(c) ==
    /\ head[c] # None
    /\ LET lapsed == Expired(head[c])
           gone == IF lapsed THEN LatestOf(c) ELSE {}
           h == IF lapsed THEN Invalidated(head[c]) ELSE head[c]
       IN Flush([head EXCEPT ![c] = Renewed(h)],
                Without(entries, gone), OrderWithout(order, gone),
                staleEntries \ gone, staleWork)

\* BlockEvent::HeadObserved with a lower height changes nothing (observe_head
\* returns false, so there is no flush either): a stuttering step.

\* BlockEvent::Invalidate
Invalidate(c) ==
    Flush([head EXCEPT ![c] = Invalidated(head[c])],
          Without(entries, LatestOf(c)), OrderWithout(order, LatestOf(c)),
          staleEntries \ LatestOf(c), staleWork \cup LatestWork(c))

\* complete_job for an error, which is never cached.
CompleteErr(w) ==
    /\ w \in inflight
    /\ inflight' = inflight \ {w}
    /\ staleWork' = staleWork \ {w}
    /\ UNCHANGED <<head, entries, order, pending, staleEntries>>

\* complete_job for a pinned read
CompletePinned(w) ==
    /\ w \in inflight
    /\ w.read \in PinnedReads
    /\ inflight' = inflight \ {w}
    /\ staleWork' = staleWork \ {w}
    /\ Insert(w.read, 0)
    /\ staleEntries' = staleEntries \cap DOMAIN entries'
    /\ UNCHANGED <<head, pending>>

\* latest_is_current
LatestIsSameHeight(w, h) ==
    w.epoch # None /\ EpochOf(h) # None /\ w.epoch.block = h.block /\ ~Expired(h)

LatestIsCurrent(w, h) ==
    /\ h # None
    /\ w.epoch # None
    /\ w.epoch = EpochOf(h)
    /\ ~Expired(h)

\* complete_job for a latest read: reconcile the head, then cache the result
\* if the key's epoch is still the chain's.
CompleteLatest(w) ==
    LET c == ChainOf[w.read]
        gone == IF Expired(head[c]) THEN LatestOf(c) ELSE {}
        h == IF Expired(head[c]) THEN Invalidated(head[c]) ELSE head[c]
    IN /\ w \in inflight
       /\ w.read \in LatestReads
       /\ inflight' = inflight \ {w}
       /\ staleWork' = staleWork \ {w}
       /\ head' = [head EXCEPT ![c] = h]
       /\ \/ /\ LatestIsCurrent(w, h)
             /\ Insert(w.read, EpochOf(h).block)
             /\ staleEntries' = (staleEntries \cup (IF w \in staleWork THEN {w.read} ELSE {}))
                                  \cap DOMAIN entries'
          \/ /\ ~LatestIsCurrent(w, h)
             /\ entries' = Without(entries, gone)
             /\ order' = OrderWithout(order, gone)
             /\ staleEntries' = staleEntries \ gone
       /\ UNCHANGED pending

\* A clock tick.  A head that outlives its lease disturbs what was read under it.
Tick ==
    LET lapses == {c \in Chains : head[c] # None /\ head[c].age = Lease}
        disturbed == UNION {LatestOf(c) : c \in lapses}
    IN /\ head' = [c \in Chains |->
                     IF head[c] # None /\ head[c].age <= Lease
                     THEN [head[c] EXCEPT !.age = @ + 1] ELSE head[c]]
       /\ staleWork' = staleWork \cup {w \in inflight : w.read \in disturbed}
       /\ staleEntries' = staleEntries \cup (disturbed \cap DOMAIN entries)
       /\ UNCHANGED <<entries, order, pending, inflight>>

Next ==
    \/ \E r \in Reads : Submit(r)
    \/ TimerFlush
    \/ \E c \in Chains, b \in Blocks : HeadAdvanced(c, b)
    \/ \E c \in Chains : HeadRepeated(c)
    \/ \E c \in Chains : Invalidate(c)
    \/ \E w \in inflight : CompleteErr(w) \/ CompletePinned(w) \/ CompleteLatest(w)
    \/ Tick

Spec == Init /\ [][Next]_vars

(***************************************************************************)
(* Properties                                                              *)
(***************************************************************************)
\* The type invariant.
TypeOK ==
    /\ head \in [Chains -> HeadObservation \cup {None}]
    /\ DOMAIN entries \subseteq Reads
    /\ \A r \in DOMAIN entries : entries[r] \in Nat
    /\ order \in Seq(Reads)
    /\ pending \subseteq Reads
    /\ inflight \subseteq WorkKey
    /\ staleWork \subseteq inflight
    /\ staleEntries \subseteq DOMAIN entries

\* A latest read is never answered from a result that was requested before
\* the chain's head was invalidated, was advanced or outlived its lease:
\* resolve_read's lookup compares heights only, so every such result must
\* have been evicted or refused by complete_job.
NoStaleHit ==
    \A r \in LatestReads :
        LET h == head[ChainOf[r]]
        IN ~Expired(h) /\ Lookup(r, entries, h) => r \notin staleEntries

\* A caller never joins a latest read in flight that was sent before the head
\* was disturbed: no epoch a dispatch used becomes the current epoch again,
\* the exhausted generation counter included.
NoStaleJoin ==
    \A w \in inflight :
        LatestIsCurrent(w, head[ChainOf[w.read]]) => w \notin staleWork
=============================================================================
