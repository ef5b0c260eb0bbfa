--------------------------- MODULE ReadyScheduler ---------------------------
(***************************************************************************)
(* The broker's fair queue (rpc_broker/scheduler.rs): work waiting for a   *)
(* read slot, and started jobs that wait to read again.                    *)
(*                                                                         *)
(* jobs owns the entries.  Each origin has a lane of references for        *)
(* aggregate work and one for individual work; origins take turns and each *)
(* alternates between its two lanes.  References go stale when an entry is *)
(* claimed through another origin, expires, or stops waiting, and are      *)
(* pruned later, so what can go wrong is a live entry that no lane leads   *)
(* to, a lane that no turn leads to, and an index that names a dead entry. *)
(*                                                                         *)
(* The actor and its jobs are the environment: a key is admitted while it  *)
(* is not active (or again by its own job's completion), a started job has *)
(* at most one open request, and it may stop waiting at any moment.  An    *)
(* entry's members and their origins are one function, key -> origins; a   *)
(* resuming entry keeps one origin set for all its keys.                   *)
(***************************************************************************)
EXTENDS Integers, Sequences, FiniteSets, Functions, SequencesExt

CONSTANTS
    Keys,        \* work keys
    Origins,     \* RpcOrigin: who asked
    Routes,      \* routes
    RouteOf,     \* the route of a key
    Batchable,   \* keys that may travel in a multicall on their route
    MaxCalls,    \* max_calls of every route
    MaxReadyId   \* bound: entries admitted

ASSUME SchedulerAssumption ==
    /\ RouteOf \in [Keys -> Routes]
    /\ Batchable \subseteq Keys
    /\ MaxCalls \in Nat \ {0}
    /\ MaxReadyId \in Nat
    /\ IsFiniteSet(Origins) /\ IsFiniteSet(Keys)

VARIABLES
    jobs,       \* jobs: id -> entry
    keyIndex,   \* key_index: key -> id
    lanes,      \* lanes: origin -> its two lanes and its preference
    origins,    \* origins: the turn order
    nextId,     \* next_ready_id
    started,    \* jobs claimed and not completed: [keys, aggregate]
    callers,    \* ActiveWork::origins of each active key
    accepting,  \* the actor has not shut down
    verified,   \* routes with a verified endpoint (or without checks)
    skipped     \* history: claims of others since an origin became eligible

queueVars == <<jobs, keyIndex, lanes, origins, nextId, started, callers,
          accepting, verified, skipped>>

\* A fresh OriginLanes; refs[TRUE] is the aggregate lane.
NoLane == [refs |-> [a \in BOOLEAN |-> <<>>], preferAggregate |-> TRUE]

KeysOf(e) == DOMAIN e.members
OriginsOf(e) == UNION {e.members[k] : k \in KeysOf(e)}

\* A resuming job may have dropped its grant.
Waiting(e) == e.resume => e.open

\* entry_belongs
Belongs(e, o, a) == e.aggregate = a /\ o \in OriginsOf(e) /\ Waiting(e)

\* What next() may claim: work on a route that can read, or a resuming job.
ReadReady(e) == e.resume \/ \A k \in KeysOf(e) : RouteOf[k] \in verified

QueuedKeys == UNION {KeysOf(jobs[id]) : id \in {i \in DOMAIN jobs : ~jobs[i].resume}}

\* The map old after new was inserted.
Inserted(new, old) ==
    [x \in DOMAIN new \cup DOMAIN old |-> IF x \in DOMAIN new THEN new[x] ELSE old[x]]

-----------------------------------------------------------------------------
(* Lanes *)

\* The elements of s that are in T, in their order: the n-th one has n of them at
\* or before its place.
Places(s, T) == {i \in DOMAIN s : s[i] \in T}
Rank(P) == [i \in P |-> Cardinality({m \in P : m <= i})]
Kept(s, T) ==
    [n \in 1 .. Cardinality(Places(s, T)) |->
       s[CHOOSE i \in Places(s, T) : Rank(Places(s, T))[i] = n]]

\* A reference to the entry id for each origin of os.
Referred(os, a, id) ==
    [o \in Origins |-> [b \in BOOLEAN |-> IF o \in os /\ b = a THEN <<id>> ELSE <<>>]]

\* The lanes ls with the references of more behind their own.
LanesWith(ls, more) ==
    [o \in DOMAIN ls \cup {q \in Origins : \E a \in BOOLEAN : more[q][a] # <<>>} |->
       LET lane == IF o \in DOMAIN ls THEN ls[o] ELSE NoLane
       IN [lane EXCEPT !.refs = [a \in BOOLEAN |-> lane.refs[a] \o more[o][a]]]]

\* The origin p may be met no later than q: one of its references is as old as
\* any of q's.
MetFirst(ls, p, q) ==
    \E a \in BOOLEAN : \E id \in ToSet(ls[p].refs[a]) :
        \A b \in BOOLEAN : \A n \in ToSet(ls[q].refs[b]) : id <= n

\* lane_mut and push_back: origins without a lane take their turns last, in the
\* order of the entries; those of one entry in the order its set is walked in.
Push(ls, turns, more) ==
    /\ lanes' = LanesWith(ls, more)
    /\ \E order \in SetToSeqs(DOMAIN lanes' \ DOMAIN ls) :
         /\ \A x, y \in DOMAIN order : x < y => MetFirst(lanes', order[x], order[y])
         /\ origins' = turns \o order

\* remove_index_if_current for the keys of the entries ids of js; a key that
\* was admitted again is indexed to its newer entry.
IndexWithout(index, js, ids) ==
    Restrict(index, {k \in DOMAIN index : index[k] \notin ids})

\* The references of a lane to entries of js that still belong in it.
Living(ls, js) ==
    LET kept == [o \in DOMAIN ls |->
          [ls[o] EXCEPT !.refs = [a \in BOOLEAN |->
             Kept(ls[o].refs[a], {id \in DOMAIN js : Belongs(js[id], o, a)})]]]
    IN Restrict(kept, {o \in DOMAIN kept : \E a \in BOOLEAN : kept[o].refs[a] # <<>>})

\* prune_refs from the state js, index, ls, turns.
Prune(js, index, ls, turns) ==
    LET closed == {id \in DOMAIN js : ~Waiting(js[id])}
        live == Restrict(js, DOMAIN js \ closed)
    IN /\ jobs' = live
       /\ keyIndex' = IndexWithout(index, js, closed)
       /\ lanes' = Living(ls, live)
       /\ origins' = Kept(turns, DOMAIN lanes')

\* An origin with work that may read now, whatever the lanes say.
Eligible(o, js, ver) ==
    \E id \in DOMAIN js :
        /\ o \in OriginsOf(js[id])
        /\ Waiting(js[id])
        /\ js[id].resume \/ \A k \in KeysOf(js[id]) : RouteOf[k] \in ver

\* Turns that went to others while an origin was eligible.
Skip(served) ==
    skipped' = [o \in Origins |->
        IF o \in served \/ ~Eligible(o, jobs', verified') THEN 0
        ELSE IF served = {} THEN skipped[o] ELSE skipped[o] + 1]

-----------------------------------------------------------------------------
(* Admission *)

\* The entries that the keys ks may be admitted as (partition_work, then the
\* split of a chunk in admit_chunks).
Entry(ks) ==
    \/ ks \subseteq Batchable /\ Cardinality(ks) <= MaxCalls
         /\ \A k, l \in ks : RouteOf[k] = RouteOf[l]
    \/ Cardinality(ks) = 1
Batches == [ks \in SUBSET Keys |->
    UNION {SetToSeqs(P) : P \in {Q \in SUBSET ((SUBSET ks) \ {{}}) :
        /\ UNION Q = ks
        /\ \A E \in Q : Entry(E)
        /\ \A E, F \in Q : E # F => E \cap F = {}}}]

\* admit_chunks for the entries batch, whose keys have the origins of mem.
Admit(js, index, batch, mem) ==
    LET ids == nextId .. nextId + Len(batch) - 1
        keys(id) == batch[id - nextId + 1]
        new == [id \in ids |-> [resume |-> FALSE, open |-> TRUE,
                                aggregate |-> keys(id) \subseteq Batchable,
                                members |-> [k \in keys(id) |-> mem[k]]]]
        listed == [i \in DOMAIN batch |-> nextId + i - 1]
    IN /\ nextId + Len(batch) <= MaxReadyId + 1
       /\ nextId' = nextId + Len(batch)
       /\ jobs' = Inserted(new, js)
       /\ keyIndex' = Inserted([k \in UNION Range(batch) |-> CHOOSE id \in ids : k \in keys(id)], index)
       /\ Push(lanes, origins,
               [o \in Origins |-> [a \in BOOLEAN |->
                  Kept(listed, {id \in ids : Belongs(new[id], o, a)})]])

\* flush: reads that are not active become work of their caller's origin.
SubmitReads(ks, mem) ==
    /\ ks # {}
    /\ \A k \in ks : callers[k] = {}
    /\ \E batch \in Batches[ks] : Admit(jobs, keyIndex, batch, mem)
    /\ callers' = [k \in Keys |-> IF k \in ks THEN mem[k] ELSE callers[k]]
    /\ UNCHANGED <<started, accepting, verified>>
    /\ Skip({})

\* attach: a caller joins active work; its origin gets a reference unless the
\* entry already has one there.
JoinedQueued(e, k, o) ==
    IF e.resume THEN e.members ELSE [e.members EXCEPT ![k] = @ \cup {o}]
Joined(e, k, o) ==
    [l \in KeysOf(e) |-> IF l = k \/ e.resume THEN e.members[l] \cup {o} ELSE e.members[l]]

AttachTo(id, k, o) ==
    LET e == jobs[id]
    IN \/ /\ Waiting(e)
          /\ jobs' = [jobs EXCEPT ![id].members = Joined(e, k, o)]
          /\ Push(lanes, origins, Referred({o} \ OriginsOf(e), e.aggregate, id))
          /\ UNCHANGED keyIndex
       \/ /\ ~Waiting(e)
          /\ keyIndex' = Restrict(keyIndex, DOMAIN keyIndex \ {k})
          /\ UNCHANGED <<jobs, lanes, origins>>

Join(k, o) ==
    /\ callers[k] # {}
    /\ callers' = [callers EXCEPT ![k] = @ \cup {o}]
    /\ IF k \in DOMAIN keyIndex THEN AttachTo(keyIndex[k], k, o)
       ELSE UNCHANGED <<jobs, keyIndex, lanes, origins>>
    /\ UNCHANGED <<nextId, started, accepting, verified>>
    /\ Skip({})

\* admit_resume: a started job asks to read again, under the origins its work
\* has by now.
Requested(j) == \E id \in DOMAIN jobs :
    jobs[id].resume /\ jobs[id].open /\ KeysOf(jobs[id]) = j.keys
Resume(j) ==
    LET os == UNION {callers[k] : k \in j.keys}
    IN /\ ~Requested(j)
       /\ nextId <= MaxReadyId
       /\ jobs' = Inserted([id \in {nextId} |->
                     [resume |-> TRUE, open |-> TRUE, aggregate |-> j.aggregate,
                      members |-> [k \in j.keys |-> os]]], jobs)
       /\ keyIndex' = Inserted([k \in j.keys |-> nextId], keyIndex)
       /\ Push(lanes, origins, Referred(os, j.aggregate, nextId))
       /\ nextId' = nextId + 1
       /\ UNCHANGED <<started, callers, accepting, verified>>
       /\ Skip({})

-----------------------------------------------------------------------------
(* Claims *)

\* take_eligible_ref: positions of a lane that can read now.
Takeable(o, a) ==
    {i \in DOMAIN lanes[o].refs[a] :
        LET id == lanes[o].refs[a][i]
        IN id \in DOMAIN jobs /\ Belongs(jobs[id], o, a) /\ ReadReady(jobs[id])}
Takes(o) == \E a \in BOOLEAN : Takeable(o, a) # {}

\* The turns once the i-th origin was served: those before it go to the back
\* unserved, and it follows them.
TurnsKept(i) == origins
TurnsAfter(i) == SubSeq(origins, i + 1, Len(origins)) \o SubSeq(origins, 1, i)

\* claim, then prune_refs.
Claim(id, ls, turns) ==
    Prune(Restrict(jobs, DOMAIN jobs \ {id}), IndexWithout(keyIndex, jobs, {id}), ls, turns)

\* next(): the first origin with an eligible entry is served from the lane it
\* prefers, or from the other if only that one has any.
Serve(i) ==
    LET o == origins[i]
        a == IF \A b \in BOOLEAN : Takeable(o, b) # {} THEN lanes[o].preferAggregate
             ELSE Takeable(o, TRUE) # {}
        id == lanes[o].refs[a][CHOOSE p \in Takeable(o, a) : \A q \in Takeable(o, a) : p <= q]
        e == jobs[id]
    IN /\ Takes(o)
       /\ \A n \in 1 .. i - 1 : ~Takes(origins[n])
       /\ Claim(id, [lanes EXCEPT ![o].preferAggregate = ~a], TurnsAfter(i))
       /\ started' = IF e.resume THEN started
                     ELSE started \cup {[keys |-> KeysOf(e), aggregate |-> e.aggregate]}
       /\ UNCHANGED <<nextId, callers, accepting, verified>>
       /\ Skip({o} \cup OriginsOf(e))

\* next() without a claim: every lane was scanned, so its stale references went.
ServeNone ==
    /\ \A o \in DOMAIN lanes : ~Takes(o)
    /\ lanes' = Living(lanes, jobs)
    /\ origins' = Kept(origins, DOMAIN lanes')
    /\ UNCHANGED <<jobs, keyIndex, nextId, started, callers, accepting, verified>>
    /\ Skip({})

\* next_verification: the oldest work that cannot read yet starts with a probe
\* runner.
Verify ==
    LET waiting == {id \in DOMAIN jobs : ~ReadReady(jobs[id])}
    IN /\ waiting # {}
       /\ LET id == CHOOSE n \in waiting : \A m \in waiting : n <= m
          IN /\ Claim(id, lanes, origins)
             /\ started' = started \cup {[keys |-> KeysOf(jobs[id]), aggregate |-> jobs[id].aggregate]}
       /\ UNCHANGED <<nextId, callers, accepting, verified>>
       /\ Skip({})

-----------------------------------------------------------------------------
(* Leaving *)

\* The entries with a member left; a resuming job settles its own expiry.
Remaining(ks) == {id \in DOMAIN jobs : jobs[id].resume \/ ~(KeysOf(jobs[id]) \subseteq ks)}

\* expire, then complete_job for the keys ks whose callers are all late.
Expire(ks) ==
    LET js == [id \in Remaining(ks) |->
                 IF jobs[id].resume THEN jobs[id]
                 ELSE [jobs[id] EXCEPT !.members = Restrict(@, DOMAIN @ \ ks)]]
    IN /\ Prune(js, Restrict(keyIndex, DOMAIN keyIndex \ ks), lanes, origins)
       /\ callers' = [k \in Keys |-> IF k \in ks THEN {} ELSE callers[k]]
       /\ UNCHANGED <<nextId, started, accepting, verified>>
       /\ Skip({})

\* A started job stops waiting for its read slot.
StopWaiting(id) ==
    /\ jobs[id].resume /\ jobs[id].open
    /\ jobs' = [jobs EXCEPT ![id].open = FALSE]
    /\ UNCHANGED <<keyIndex, lanes, origins, nextId, started, callers, accepting, verified>>
    /\ Skip({})

\* complete_job: the job drops its request, and members that were never sent
\* but have a live caller are admitted again with all their origins.
Complete(j, again) ==
    LET js == [id \in DOMAIN jobs |->
                 IF jobs[id].resume /\ KeysOf(jobs[id]) = j.keys
                 THEN [jobs[id] EXCEPT !.open = FALSE] ELSE jobs[id]]
    IN /\ started' = started \ {j}
       /\ callers' = [k \in Keys |-> IF k \in j.keys \ again THEN {} ELSE callers[k]]
       /\ \E batch \in Batches[again] : Admit(js, keyIndex, batch, callers)
       /\ UNCHANGED <<accepting, verified>>
       /\ Skip({})

\* fail_ready: drain fails the work not started and drops the requests.
Drain ==
    /\ jobs' = [id \in {} |-> 0]
    /\ keyIndex' = [k \in {} |-> 0]
    /\ lanes' = [o \in {} |-> 0]
    /\ origins' = <<>>
    /\ callers' = [k \in Keys |-> IF k \in QueuedKeys THEN {} ELSE callers[k]]
    /\ UNCHANGED <<nextId, started, verified>>
    /\ accepting' = FALSE
    /\ Skip({})

\* An endpoint of the route passes its identity check, for good.
Verified(r) ==
    /\ r \notin verified
    /\ verified' = verified \cup {r}
    /\ UNCHANGED <<jobs, keyIndex, lanes, origins, nextId, started, callers, accepting>>
    /\ Skip({})

QueueInit ==
    /\ jobs = [id \in {} |-> 0]
    /\ keyIndex = [k \in {} |-> 0]
    /\ lanes = [o \in {} |-> 0]
    /\ origins = <<>>
    /\ nextId = 1
    /\ started = {}
    /\ callers = [k \in Keys |-> {}]
    /\ accepting = TRUE
    /\ verified \in SUBSET Routes
    /\ skipped = [o \in Origins |-> 0]

Running ==
    \/ \E ks \in SUBSET Keys : \E asker \in [ks -> Origins] :
         SubmitReads(ks, [k \in ks |-> {asker[k]}])
    \/ \E k \in Keys, o \in Origins : Join(k, o)
    \/ \E j \in started : Resume(j)
    \/ \E i \in DOMAIN origins : Serve(i)
    \/ ServeNone
    \/ Verify
    \/ \E ks \in SUBSET QueuedKeys : Expire(ks)

\* A shutdown drains the queue before and after the jobs in flight end.
QueueNext ==
    \/ accepting /\ Running
    \/ \E id \in DOMAIN jobs : StopWaiting(id)
    \/ \E j \in started : \E again \in SUBSET j.keys : Complete(j, again)
    \/ Drain
    \/ \E r \in Routes : Verified(r)

QueueSpec == QueueInit /\ [][QueueNext]_queueVars

-----------------------------------------------------------------------------
(* Properties *)

\* The type invariant; an entry always has a member.
QueueTypeOK ==
    /\ DOMAIN jobs \subseteq 1 .. MaxReadyId
    /\ \A id \in DOMAIN jobs :
         /\ jobs[id].resume \in BOOLEAN /\ jobs[id].open \in BOOLEAN
         /\ jobs[id].aggregate \in BOOLEAN
         /\ KeysOf(jobs[id]) \in (SUBSET Keys) \ {{}} /\ OriginsOf(jobs[id]) \subseteq Origins
    /\ DOMAIN keyIndex \subseteq Keys /\ Range(keyIndex) \subseteq 1 .. MaxReadyId
    /\ DOMAIN lanes \subseteq Origins
    /\ \A o \in DOMAIN lanes : lanes[o].preferAggregate \in BOOLEAN
         /\ \A a \in BOOLEAN : ToSet(lanes[o].refs[a]) \subseteq 1 .. MaxReadyId
    /\ ToSet(origins) \subseteq Origins
    /\ nextId \in 1 .. MaxReadyId + 1
    /\ callers \in [Keys -> SUBSET Origins]
    /\ accepting \in BOOLEAN
    /\ verified \subseteq Routes
    /\ skipped \in [Origins -> Nat]

\* No entry is stranded: whatever joined, expired, was claimed or stopped
\* waiting, the turn order lists exactly the origins with a lane, once each,
\* and a live entry has exactly one reference in the lane of its class for
\* each origin that has a caller waiting for one of its keys, the origins that
\* joined late included.
LanesReachEntries ==
    /\ ToSet(origins) = DOMAIN lanes
    /\ \A i, n \in DOMAIN origins : origins[i] = origins[n] => i = n
    /\ \A id \in DOMAIN jobs : Waiting(jobs[id]) =>
         \A o \in UNION {callers[k] : k \in KeysOf(jobs[id])} :
           /\ o \in DOMAIN lanes
           /\ Cardinality({i \in DOMAIN lanes[o].refs[jobs[id].aggregate] :
                             lanes[o].refs[jobs[id].aggregate][i] = id}) = 1

\* Round robin: an origin with work that may read is passed over at most once
\* by each other origin.
TurnsBounded == \A o \in Origins : skipped[o] < Cardinality(Origins)
=============================================================================
