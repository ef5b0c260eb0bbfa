------------------------- MODULE RpcEndpointsProofs -------------------------
(***************************************************************************)
(* The broker's use of its endpoints: the jobs that read from them         *)
(* (RpcJobs) and the checks that decide which are offered                  *)
(* (EndpointHealth).                                                       *)
(***************************************************************************)
EXTENDS RpcJobs, EndpointHealth, FiniteSetTheorems, SequenceTheorems,
        WellFoundedInduction, TLAPS

-----------------------------------------------------------------------------
(* The broker's running jobs, for any number of jobs, endpoints, read      *)
(* slots and probe runners: the ledger is exact, reads reach only verified *)
(* endpoints, the actor sleeps on no capacity somebody could use, and a    *)
(* parked job hears of every endpoint verified by somebody else.           *)

Places == {"new", "queued", "top", "decide", "waitRead", "waitRunner", "waitProbe",
           "attempt", "done"}
Parked == {"waitRunner", "waitProbe"}
CandStates == {"ready", "unprobed", "probing", "rejected", "tried"}
Request == Jobs \X Kinds

TypeInv ==
    /\ pc \in [Jobs -> Places]
    /\ resumes \subseteq Jobs
    /\ cand \in [Jobs -> [Endpoints -> CandStates]]
    /\ at \in [Jobs -> Endpoints \cup {None}]
    /\ slots \in [Jobs -> SUBSET Kinds]
    /\ held \in [Kinds -> Int]
    /\ channel \in Seq(Request)
    /\ runnerQ \in Seq(Request)
    /\ verified \subseteq Endpoints
    /\ notice \in [Jobs -> {"none", "armed", "fired"}]
    /\ ledgerWake \in BOOLEAN
    /\ watching \in BOOLEAN
    /\ checkWake \in BOOLEAN
    /\ actor \in {"idle", "reads", "runners", "draining"}

\* A wake-up of the actor is due.
PumpDue == ledgerWake \/ checkWake

\* No read slot, or no runner, could be given out now.
ReadsSettled ==
    held["read"] < MaxInFlight => resumes = {} /\ (queue = <<>> \/ ~ReadReady)
RunnersSettled ==
    held["runner"] < ProbeLimit => runnerQ = <<>> /\ (queue = <<>> \/ ReadReady)

\* What the actor settled stays settled until a wake-up is due, also while it still
\* pumps; and as long as queued work waits for a first verified endpoint, the actor
\* watches the checks.
WakeInv ==
    /\ actor \in {"runners", "idle"} => PumpDue \/ ReadsSettled
    /\ actor = "idle" => PumpDue \/ RunnersSettled
    /\ actor # "draining" /\ queue # <<>> /\ ~ReadReady => watching

\* Job j knows only verified endpoints as ready and reads from one of them with a
\* slot; from its loop top to the end of its wait it listens for checks, and unless
\* one came it has seen every verified endpoint; it parks with nothing left to read.
JobInv(j) ==
    /\ \A e \in Endpoints : cand[j][e] = "ready" => e \in verified
    /\ pc[j] = "attempt" => at[j] \in verified /\ "read" \in slots[j]
    /\ pc[j] \in Parked \cup {"decide"} => notice[j] # "none"
    /\ (pc[j] \in Parked \cup {"decide"} /\ notice[j] = "armed") =>
         \A e \in verified : cand[j][e] \notin {"unprobed", "probing"}
    /\ pc[j] \in Parked => \A e \in Endpoints : cand[j][e] # "ready"

IInv == /\ TypeInv
        /\ LedgerExact
        /\ WakeInv
        /\ \A j \in Jobs : JobInv(j)

-----------------------------------------------------------------------------
(* Requests leaving a queue                                                *)

\* The least index of a nonempty set of indices is one of them.
LEMMA MinIn ==
    ASSUME NEW I \in SUBSET Nat, I # {}
    PROVE  Min(I) \in I
<1>. DEFINE R == OpToRel(<, Nat)
<1>1. PICK x \in I : \A y \in I : ~(<<y, x>> \in R)
  BY NatLessThanWellFounded, WFMin, Zenon
<1>2. \A y \in I : x <= y
  <2>. SUFFICES ASSUME NEW y \in I, y < x
                PROVE  FALSE
    OBVIOUS
  <2>1. <<y, x>> \in R
    BY Zenon DEF OpToRel
  <2>. QED BY <2>1, <1>1, Zenon
<1>. QED BY <1>2 DEF Min

\* A sequence without the first occurrence of an element has the same type.
LEMMA RemoveFirstType ==
    ASSUME NEW S, NEW s \in Seq(S), NEW e
    PROVE  RemoveFirst(s, e) \in Seq(S)
<1>1. CASE \E i \in 1..Len(s) : s[i] = e
  <2>. DEFINE I == {i \in 1..Len(s) : s[i] = e}
              m == Min(I)
  <2>1. m \in I
    <3>1. I \in SUBSET Nat /\ I # {}
      BY <1>1
    <3>. HIDE DEF I
    <3>. QED BY <3>1, MinIn
  <2>2. RemoveFirst(s, e) = SubSeq(s, 1, m - 1) \o SubSeq(s, m + 1, Len(s))
    BY <1>1 DEF RemoveFirst, RemoveAt, SelectInSeq
  <2>3. m \in 1..Len(s)
    BY <2>1
  <2>. HIDE DEF m
  <2>4. SubSeq(s, 1, m - 1) \in Seq(S) /\ SubSeq(s, m + 1, Len(s)) \in Seq(S)
    <3>1. Len(s) \in Nat /\ \A i \in 1..Len(s) : s[i] \in S
      OBVIOUS
    <3>. QED BY <2>3, <3>1, SubSeqProperties
  <2>. QED BY <2>2, <2>4
<1>2. CASE ~ \E i \in 1..Len(s) : s[i] = e
  BY <1>2 DEF RemoveFirst
<1>. QED BY <1>1, <1>2

LEMMA RemoveFirstEmpty ==
    ASSUME NEW e
    PROVE  RemoveFirst(<<>>, e) = <<>>
BY DEF RemoveFirst

LEMMA WithoutType ==
    ASSUME NEW q \in Seq(Request), NEW j, NEW ks
    PROVE  /\ Without(q, j, ks) \in Seq(Request)
           /\ q = <<>> => Without(q, j, ks) = <<>>
<1>. DEFINE one == IF "read" \in ks THEN RemoveFirst(q, <<j, "read">>) ELSE q
            two == IF "runner" \in ks THEN RemoveFirst(one, <<j, "runner">>) ELSE one
<1>1. one \in Seq(Request) /\ (q = <<>> => one = <<>>)
  BY RemoveFirstType, RemoveFirstEmpty
<1>2. two \in Seq(Request) /\ (q = <<>> => two = <<>>)
  <2>. HIDE DEF one
  <2>. QED BY <1>1, RemoveFirstType, RemoveFirstEmpty
<1>3. Without(q, j, ks) = two
  BY DEF Without
<1>. QED BY <1>2, <1>3

-----------------------------------------------------------------------------
(* The ledger                                                              *)

Holders(k) == {j \in Jobs : k \in slots[j]}

LEMMA KindLimits == \A k \in Kinds : Limit(k) \in Nat \ {0}
BY JobsAssumption DEF Limit, Kinds

\* Slots with room are taken: the ledger stays exact, and no count falls.
LEMMA AcquireCounts ==
    ASSUME LedgerExact, slots \in [Jobs -> SUBSET Kinds],
           held \in [Kinds -> Int], NEW j \in Jobs, NEW ks \in SUBSET Kinds,
           \A k \in ks : held[k] < Limit(k), Acquire(j, ks)
    PROVE  /\ slots' \in [Jobs -> SUBSET Kinds]
           /\ held' \in [Kinds -> Int]
           /\ LedgerExact'
           /\ \A k \in Kinds : held[k] =< held'[k]
           /\ \A k \in Kinds \ ks : held'[k] = held[k]
           /\ \A i \in Jobs : slots[i] \subseteq slots'[i]
<1>1. /\ slots' = [slots EXCEPT ![j] = @ \cup ks]
      /\ held' = [k \in Kinds |-> held[k] + IF k \in ks \ slots[j] THEN 1 ELSE 0]
  BY DEF Acquire
<1>2. slots' \in [Jobs -> SUBSET Kinds] /\ \A i \in Jobs : slots[i] \subseteq slots'[i]
  BY <1>1
<1>3. held' \in [Kinds -> Int] /\ (\A k \in Kinds : held[k] =< held'[k])
      /\ \A k \in Kinds \ ks : held'[k] = held[k]
  BY <1>1
<1>4. ASSUME NEW k \in Kinds
      PROVE  held'[k] = Cardinality(Holders(k)') /\ held'[k] =< Limit(k)
  <2>1. IsFiniteSet(Holders(k))
    <3>1. IsFiniteSet(Jobs)
      BY JobsAssumption
    <3>. QED BY <3>1, FS_Subset DEF Holders
  <2>2. held[k] = Cardinality(Holders(k)) /\ held[k] =< Limit(k) /\ Limit(k) \in Nat
    BY KindLimits DEF LedgerExact, Holders
  <2>3. CASE k \in ks \ slots[j]
    <3>1. Holders(k)' = Holders(k) \cup {j} /\ j \notin Holders(k)
      BY <1>1, <2>3 DEF Holders
    <3>2. Cardinality(Holders(k)') = Cardinality(Holders(k)) + 1
      BY <2>1, <3>1, FS_AddElement
    <3>3. held'[k] = held[k] + 1 /\ held[k] < Limit(k)
      BY <1>1, <2>3
    <3>. QED BY <2>2, <3>2, <3>3
  <2>4. CASE k \notin ks \ slots[j]
    <3>1. Holders(k)' = Holders(k)
      BY <1>1, <2>4 DEF Holders
    <3>2. held'[k] = held[k]
      BY <1>1, <2>4
    <3>. QED BY <2>2, <3>1, <3>2
  <2>. QED BY <2>3, <2>4
<1>5. LedgerExact'
  BY <1>4 DEF LedgerExact, Holders, Limit
<1>. QED BY <1>2, <1>3, <1>5

\* Slots are given back: the ledger stays exact, and a count that falls wakes the
\* actor.
LEMMA ReleaseCounts ==
    ASSUME LedgerExact, slots \in [Jobs -> SUBSET Kinds],
           held \in [Kinds -> Int], ledgerWake \in BOOLEAN,
           NEW j \in Jobs, NEW ks \in SUBSET Kinds, Release(j, ks)
    PROVE  /\ slots' = [slots EXCEPT ![j] = @ \ ks]
           /\ slots' \in [Jobs -> SUBSET Kinds]
           /\ held' \in [Kinds -> Int]
           /\ ledgerWake' \in BOOLEAN
           /\ LedgerExact'
           /\ ledgerWake' \/ (held' = held /\ ~ledgerWake)
<1>1. /\ slots' = [slots EXCEPT ![j] = @ \ ks]
      /\ held' = [k \in Kinds |-> held[k] - IF k \in ks \cap slots[j] THEN 1 ELSE 0]
      /\ ledgerWake' = (ledgerWake \/ ks \cap slots[j] # {})
  BY DEF Release, HeldWithout, Woken
<1>2. slots' \in [Jobs -> SUBSET Kinds]
  BY <1>1
<1>3. held' \in [Kinds -> Int] /\ ledgerWake' \in BOOLEAN
  BY <1>1
<1>4. ledgerWake' \/ (held' = held /\ ~ledgerWake)
  <2>. SUFFICES ASSUME ~ledgerWake' PROVE held' = held /\ ~ledgerWake
    OBVIOUS
  <2>1. ks \cap slots[j] = {} /\ ~ledgerWake
    BY <1>1
  <2>. QED BY <1>1, <2>1
<1>5. ASSUME NEW k \in Kinds
      PROVE  held'[k] = Cardinality(Holders(k)') /\ held'[k] =< Limit(k)
  <2>1. IsFiniteSet(Holders(k))
    <3>1. IsFiniteSet(Jobs)
      BY JobsAssumption
    <3>. QED BY <3>1, FS_Subset DEF Holders
  <2>2. held[k] = Cardinality(Holders(k)) /\ held[k] =< Limit(k) /\ Limit(k) \in Nat
    BY KindLimits DEF LedgerExact, Holders
  <2>3. CASE k \in ks \cap slots[j]
    <3>1. Holders(k)' = Holders(k) \ {j} /\ j \in Holders(k)
      BY <1>1, <2>3 DEF Holders
    <3>2. Cardinality(Holders(k)') = Cardinality(Holders(k)) - 1
      BY <2>1, <3>1, FS_RemoveElement
    <3>3. held'[k] = held[k] - 1
      BY <1>1, <2>3
    <3>. QED BY <2>2, <3>2, <3>3
  <2>4. CASE k \notin ks \cap slots[j]
    <3>1. Holders(k)' = Holders(k)
      BY <1>1, <2>4 DEF Holders
    <3>2. held'[k] = held[k]
      BY <1>1, <2>4
    <3>. QED BY <2>2, <3>1, <3>2
  <2>. QED BY <2>3, <2>4
<1>6. LedgerExact'
  BY <1>5 DEF LedgerExact, Holders, Limit
<1>. QED BY <1>1, <1>2, <1>3, <1>4, <1>6

-----------------------------------------------------------------------------
(* What other parties' steps leave alone                                   *)

\* A job keeps its invariant while its own view stays as it is; it may only leave
\* the places the invariant speaks of, and gain slots.
LEMMA JobFrame ==
    ASSUME NEW i \in Jobs, JobInv(i), cand'[i] = cand[i], at'[i] = at[i],
           verified' = verified, notice'[i] = notice[i], slots[i] \subseteq slots'[i],
           pc'[i] = pc[i] \/ pc'[i] \in {"done", "top", "queued"}
    PROVE  JobInv(i)'
BY DEF JobInv, Parked

\* A job away from those places only has to know verified endpoints.
LEMMA JobAway ==
    ASSUME NEW i \in Jobs, pc'[i] \in {"done", "top", "queued", "waitRead"},
           \A e \in Endpoints : cand'[i][e] = "ready" => e \in verified'
    PROVE  JobInv(i)'
BY DEF JobInv, Parked

\* A check that succeeds elsewhere fires the notices of the listening jobs.
LEMMA JobAnnounced ==
    ASSUME NEW i \in Jobs, JobInv(i), cand'[i] = cand[i], at'[i] = at[i], pc'[i] = pc[i],
           slots'[i] = slots[i], verified \subseteq verified',
           notice'[i] = IF notice[i] = "armed" THEN "fired" ELSE notice[i]
    PROVE  JobInv(i)'
BY DEF JobInv, Parked

\* A pump leaves every job at its place or ends it, and watches the checks if work
\* that cannot read is left.
LEMMA PumpFrame ==
    ASSUME NEW q, NEW st \in [Jobs -> Places], NEW res, Pump(q, st, res)
    PROVE  /\ pc' \in [Jobs -> Places]
           /\ \A i \in Jobs : pc'[i] = "done" \/ pc'[i] = st[i]
           /\ watching' \in BOOLEAN
           /\ checkWake' \in BOOLEAN
           /\ actor' = "reads"
           /\ queue' # <<>> /\ ~ReadReady => watching'
<1>. DEFINE late == {j \in ToSet(q) : j \notin live}
<1>1. /\ watching' = (q # <<>> /\ ~ReadReady)
      /\ checkWake' = FALSE
      /\ actor' = "reads"
      /\ pc' = [j \in Jobs |-> IF j \in late THEN "done" ELSE st[j]]
      /\ late = {} => queue' = q
  <2>1. queue' = IF late = {} THEN q ELSE SelectSeq(q, LAMBDA j : j \in live)
    BY DEF Pump
  <2>2. late = {} => queue' = q
    BY <2>1, Zenon
  <2>. QED BY <2>2 DEF Pump
<1>2. late = {} \/ q # <<>>
  BY DEF ToSet
<1>3. queue' # <<>> => q # <<>>
  BY <1>1, <1>2, Zenon
<1>4. pc' \in [Jobs -> Places] /\ \A i \in Jobs : pc'[i] = "done" \/ pc'[i] = st[i]
  <2>. HIDE DEF late
  <2>. QED BY <1>1 DEF Places
<1>. QED BY <1>1, <1>3, <1>4

\* After a pump the wake-ups are as they must be.
LEMMA PumpWakes ==
    ASSUME actor' = "reads", verified' = verified,
           queue' # <<>> /\ ~ReadReady => watching'
    PROVE  WakeInv'
BY DEF WakeInv, ReadReady

\* Jobs that only give slots and requests back leave a wake-up due, or nothing to do.
LEMMA WakeFrame ==
    ASSUME WakeInv, actor' = actor, watching' = watching, queue' = queue,
           verified' = verified, checkWake' = checkWake, resumes' \subseteq resumes,
           ledgerWake' \/ (held' = held /\ ~ledgerWake),
           runnerQ = <<>> => runnerQ' = <<>>
    PROVE  WakeInv'
BY DEF WakeInv, PumpDue, ReadsSettled, RunnersSettled, ReadReady

-----------------------------------------------------------------------------
(* The actor's steps                                                       *)

LEMMA SubmitStep ==
    ASSUME IInv, NEW j \in Jobs, Submit(j)
    PROVE  IInv'
<1>. DEFINE st == With(pc, j, "queued")
<1>1. /\ UNCHANGED <<cand, at, slots, held, channel, resumes, runnerQ, verified, notice,
                     ledgerWake>>
      /\ pc[j] = "new"
      /\ Pump(Append(queue, j), st, result)
  BY DEF Submit, capacity
<1>2. TypeInv /\ LedgerExact /\ \A i \in Jobs : JobInv(i)
  BY DEF IInv
<1>3. st \in [Jobs -> Places] /\ \A i \in Jobs : st[i] \in {pc[i], "queued"}
  BY <1>2 DEF With, TypeInv, Places
<1>. HIDE DEF st
<1>4. /\ pc' \in [Jobs -> Places] /\ watching' \in BOOLEAN /\ checkWake' \in BOOLEAN
      /\ \A i \in Jobs : pc'[i] = "done" \/ pc'[i] = st[i]
      /\ actor' = "reads"
      /\ queue' # <<>> /\ ~ReadReady => watching'
  BY <1>1, <1>3, PumpFrame
<1>5. TypeInv'
  BY <1>1, <1>2, <1>4 DEF TypeInv
<1>6. LedgerExact'
  BY <1>1, <1>2 DEF LedgerExact, Limit
<1>7. WakeInv'
  BY <1>1, <1>4, PumpWakes
<1>8. ASSUME NEW i \in Jobs PROVE JobInv(i)'
  BY <1>1, <1>2, <1>3, <1>4, JobFrame
<1>. QED BY <1>5, <1>6, <1>7, <1>8 DEF IInv

LEMMA ReceiveStep ==
    ASSUME IInv, Receive
    PROVE  IInv'
<1>. DEFINE r == Head(channel)
<1>1. /\ UNCHANGED <<cand, at, slots, held, verified, notice, ledgerWake>>
      /\ channel # <<>>
      /\ channel' = Tail(channel)
      /\ resumes' = IF r[2] = "read" THEN resumes \cup {r[1]} ELSE resumes
      /\ runnerQ' = IF r[2] = "runner" THEN Append(runnerQ, r) ELSE runnerQ
      /\ Pump(queue, pc, result)
  BY DEF Receive
<1>2. TypeInv /\ LedgerExact /\ \A i \in Jobs : JobInv(i)
  BY DEF IInv
<1>3. r \in Request /\ channel' \in Seq(Request)
  BY <1>1, <1>2, HeadTailProperties DEF TypeInv
<1>4. resumes' \subseteq Jobs /\ runnerQ' \in Seq(Request)
  <2>1. r[1] \in Jobs
    BY <1>3 DEF Request
  <2>2. Append(runnerQ, r) \in Seq(Request)
    BY <1>2, <1>3, AppendProperties DEF TypeInv
  <2>. QED BY <1>1, <1>2, <2>1, <2>2 DEF TypeInv
<1>5. /\ pc' \in [Jobs -> Places] /\ watching' \in BOOLEAN /\ checkWake' \in BOOLEAN
      /\ \A i \in Jobs : pc'[i] = "done" \/ pc'[i] = pc[i]
      /\ actor' = "reads"
      /\ queue' # <<>> /\ ~ReadReady => watching'
  BY <1>1, <1>2, PumpFrame DEF TypeInv
<1>6. TypeInv'
  BY <1>1, <1>2, <1>3, <1>4, <1>5 DEF TypeInv
<1>7. LedgerExact'
  BY <1>1, <1>2 DEF LedgerExact, Limit
<1>8. WakeInv'
  BY <1>1, <1>5, PumpWakes
<1>9. ASSUME NEW i \in Jobs PROVE JobInv(i)'
  BY <1>1, <1>2, <1>5, JobFrame
<1>. QED BY <1>6, <1>7, <1>8, <1>9 DEF IInv

LEMMA WakeStep ==
    ASSUME IInv, Wake
    PROVE  IInv'
<1>1. /\ UNCHANGED <<cand, at, slots, held, channel, resumes, runnerQ, verified, notice>>
      /\ ledgerWake' = FALSE
      /\ Pump(queue, pc, result)
  BY DEF Wake
<1>2. TypeInv /\ LedgerExact /\ \A i \in Jobs : JobInv(i)
  BY DEF IInv
<1>3. /\ pc' \in [Jobs -> Places] /\ watching' \in BOOLEAN /\ checkWake' \in BOOLEAN
      /\ \A i \in Jobs : pc'[i] = "done" \/ pc'[i] = pc[i]
      /\ actor' = "reads"
      /\ queue' # <<>> /\ ~ReadReady => watching'
  BY <1>1, <1>2, PumpFrame DEF TypeInv
<1>4. TypeInv'
  BY <1>1, <1>2, <1>3 DEF TypeInv
<1>5. LedgerExact'
  BY <1>1, <1>2 DEF LedgerExact, Limit
<1>6. WakeInv'
  BY <1>1, <1>3, PumpWakes
<1>7. ASSUME NEW i \in Jobs PROVE JobInv(i)'
  BY <1>1, <1>2, <1>3, JobFrame
<1>. QED BY <1>4, <1>5, <1>6, <1>7 DEF IInv

\* A job that starts takes only slots that have room, and leaves a shorter queue.
StartDone ==
    /\ slots' \in [Jobs -> SUBSET Kinds] /\ held' \in [Kinds -> Int]
    /\ LedgerExact'
    /\ \A i \in Jobs : slots[i] \subseteq slots'[i]
    /\ \A k \in Kinds : held[k] =< held'[k]
    /\ pc' \in [Jobs -> Places]
    /\ \A i \in Jobs : pc'[i] = pc[i] \/ pc'[i] \in {"done", "top", "queued"}
    /\ queue = <<>> => queue' = <<>>

LEMMA StartStep ==
    ASSUME TypeInv, LedgerExact, NEW j \in Jobs, NEW ks \in SUBSET Kinds,
           \A k \in ks : held[k] < Limit(k), Start(j, ks)
    PROVE  StartDone /\ \A k \in Kinds \ ks : held'[k] = held[k]
<1>1. queue = <<>> => queue' = <<>>
  BY RemoveFirstEmpty DEF Start
<1>2. CASE j \in live
  <2>1. Acquire(j, ks) /\ pc' = [pc EXCEPT ![j] = "top"]
    BY <1>2 DEF Start, With
  <2>2. /\ slots' \in [Jobs -> SUBSET Kinds] /\ held' \in [Kinds -> Int]
        /\ LedgerExact'
        /\ \A k \in Kinds : held[k] =< held'[k]
        /\ \A k \in Kinds \ ks : held'[k] = held[k]
        /\ \A i \in Jobs : slots[i] \subseteq slots'[i]
    BY <2>1, AcquireCounts DEF TypeInv
  <2>3. /\ pc' \in [Jobs -> Places]
        /\ \A i \in Jobs : pc'[i] = pc[i] \/ pc'[i] \in {"done", "top", "queued"}
    BY <2>1 DEF TypeInv, Places
  <2>. QED BY <1>1, <2>2, <2>3 DEF StartDone
<1>3. CASE j \notin live
  <2>1. UNCHANGED <<slots, held>> /\ pc' = [pc EXCEPT ![j] = "done"]
    BY <1>3 DEF Start, With
  <2>2. /\ pc' \in [Jobs -> Places]
        /\ \A i \in Jobs : pc'[i] = pc[i] \/ pc'[i] \in {"done", "top", "queued"}
    BY <2>1 DEF TypeInv, Places
  <2>3. /\ slots' \in [Jobs -> SUBSET Kinds] /\ held' \in [Kinds -> Int]
        /\ \A k \in Kinds : held[k] =< held'[k]
    BY <2>1 DEF TypeInv
  <2>4. LedgerExact'
    BY <2>1 DEF LedgerExact, Limit
  <2>. QED BY <1>1, <2>1, <2>2, <2>3, <2>4 DEF StartDone
<1>. QED BY <1>2, <1>3

LEMMA PumpReadStep ==
    ASSUME IInv, PumpRead
    PROVE  IInv'
<1>1. /\ UNCHANGED <<cand, at, channel, runnerQ, verified, notice, ledgerWake, watching,
                     checkWake, actor>>
      /\ actor = "reads"
      /\ held["read"] < MaxInFlight
  BY DEF PumpRead
<1>2. TypeInv /\ LedgerExact /\ WakeInv /\ \A i \in Jobs : JobInv(i)
  BY DEF IInv
<1>3. StartDone /\ resumes' \subseteq resumes
  <2>1. CASE \E j \in resumes : /\ Grant(j, "read")
                                /\ resumes' = resumes \ {j}
                                /\ UNCHANGED <<queue, pc, result>>
    <3>1. PICK j \in resumes : /\ Grant(j, "read")
                               /\ resumes' = resumes \ {j}
                               /\ UNCHANGED <<queue, pc, result>>
      BY <2>1
    <3>2. j \in Jobs /\ Acquire(j, {"read"}) /\ {"read"} \in SUBSET Kinds
      BY <3>1, <1>2 DEF TypeInv, Grant, Kinds
    <3>3. \A k \in {"read"} : held[k] < Limit(k)
      BY <1>1 DEF Limit
    <3>4. /\ slots' \in [Jobs -> SUBSET Kinds] /\ held' \in [Kinds -> Int]
          /\ LedgerExact'
          /\ \A k \in Kinds : held[k] =< held'[k]
          /\ \A i \in Jobs : slots[i] \subseteq slots'[i]
      BY <1>2, <3>2, <3>3, AcquireCounts DEF TypeInv
    <3>. QED BY <1>2, <3>1, <3>4 DEF StartDone, TypeInv
  <2>2. CASE \E j \in Jobs :
               /\ j \in ToSet(queue)
               /\ ReadReady
               /\ Start(j, {"read"} \cup (IF RunnerToo THEN {"runner"} ELSE {}))
               /\ UNCHANGED <<grant, resumes>>
    <3>. DEFINE ks == {"read"} \cup (IF RunnerToo THEN {"runner"} ELSE {})
    <3>1. PICK j \in Jobs : Start(j, ks) /\ UNCHANGED resumes
      BY <2>2
    <3>2. ks \in SUBSET Kinds
      BY DEF Kinds
    <3>3. \A k \in ks : held[k] < Limit(k)
      <4>1. Len(runnerQ) \in Nat
        BY <1>2, LenProperties DEF TypeInv
      <4>2. RunnerToo => held["runner"] < ProbeLimit
        BY <1>2, <4>1, JobsAssumption DEF RunnerToo, TypeInv, Kinds
      <4>. QED BY <1>1, <4>2 DEF Limit
    <3>. HIDE DEF ks
    <3>4. StartDone
      BY <1>2, <3>1, <3>2, <3>3, StartStep
    <3>. QED BY <3>1, <3>4
  <2>. QED BY <2>1, <2>2 DEF PumpRead
<1>4. TypeInv'
  BY <1>1, <1>2, <1>3 DEF TypeInv, StartDone
<1>5. WakeInv'
  BY <1>1, <1>2, <1>3 DEF WakeInv, StartDone, ReadReady
<1>6. ASSUME NEW i \in Jobs PROVE JobInv(i)'
  BY <1>1, <1>2, <1>3, JobFrame DEF StartDone
<1>. QED BY <1>3, <1>4, <1>5, <1>6 DEF IInv, StartDone

LEMMA PumpRunnerStep ==
    ASSUME IInv, PumpRunner
    PROVE  IInv'
<1>1. /\ UNCHANGED <<cand, at, channel, resumes, verified, notice, ledgerWake, watching,
                     checkWake, actor>>
      /\ actor = "runners"
      /\ held["runner"] < ProbeLimit
  BY DEF PumpRunner
<1>2. TypeInv /\ LedgerExact /\ WakeInv /\ \A i \in Jobs : JobInv(i)
  BY DEF IInv
<1>3. {"runner"} \in SUBSET Kinds /\ \A k \in {"runner"} : held[k] < Limit(k)
  BY <1>1 DEF Kinds, Limit
<1>4. /\ StartDone /\ held'["read"] = held["read"]
      /\ runnerQ' \in Seq(Request)
      /\ queue' = queue \/ ~ReadReady
  <2>1. CASE /\ runnerQ # <<>>
             /\ Grant(Head(runnerQ)[1], "runner")
             /\ runnerQ' = Tail(runnerQ)
             /\ UNCHANGED <<queue, pc, result>>
    <3>1. Head(runnerQ) \in Request /\ Tail(runnerQ) \in Seq(Request)
      BY <1>2, <2>1, HeadTailProperties DEF TypeInv
    <3>2. Head(runnerQ)[1] \in Jobs /\ Acquire(Head(runnerQ)[1], {"runner"})
      BY <3>1, <2>1 DEF Grant, Request
    <3>3. /\ slots' \in [Jobs -> SUBSET Kinds] /\ held' \in [Kinds -> Int]
          /\ LedgerExact'
          /\ \A k \in Kinds : held[k] =< held'[k]
          /\ \A k \in Kinds \ {"runner"} : held'[k] = held[k]
          /\ \A i \in Jobs : slots[i] \subseteq slots'[i]
      BY <1>2, <1>3, <3>2, AcquireCounts DEF TypeInv
    <3>4. held'["read"] = held["read"]
      BY <3>3 DEF Kinds
    <3>. QED BY <1>2, <2>1, <3>1, <3>3, <3>4 DEF StartDone, TypeInv
  <2>2. CASE /\ runnerQ = <<>>
             /\ queue # <<>>
             /\ ~ReadReady
             /\ \E j \in Jobs : j = Head(queue) /\ Start(j, {"runner"})
             /\ UNCHANGED <<grant, runnerQ>>
    <3>1. PICK j \in Jobs : Start(j, {"runner"})
      BY <2>2
    <3>2. StartDone /\ \A k \in Kinds \ {"runner"} : held'[k] = held[k]
      BY <1>2, <1>3, <3>1, StartStep
    <3>3. held'["read"] = held["read"]
      BY <3>2 DEF Kinds
    <3>. QED BY <1>2, <2>2, <3>2, <3>3 DEF TypeInv
  <2>. QED BY <2>1, <2>2 DEF PumpRunner
<1>5. TypeInv'
  BY <1>1, <1>2, <1>4 DEF TypeInv, StartDone
<1>6. WakeInv'
  BY <1>1, <1>2, <1>4 DEF WakeInv, StartDone, ReadReady, PumpDue, ReadsSettled
<1>7. ASSUME NEW i \in Jobs PROVE JobInv(i)'
  BY <1>1, <1>2, <1>4, JobFrame DEF StartDone
<1>. QED BY <1>4, <1>5, <1>6, <1>7 DEF IInv, StartDone

\* A round of the pump ends once nothing of its kind can be given out.
LEMMA PumpEndStep ==
    ASSUME IInv, PumpReadsDone \/ PumpDone
    PROVE  IInv'
<1>1. UNCHANGED <<pc, cand, at, slots, held, channel, queue, resumes, runnerQ, verified,
                  notice, ledgerWake, watching, checkWake>>
  BY DEF PumpReadsDone, PumpDone, jobVars, capacity
<1>2. TypeInv /\ LedgerExact /\ WakeInv /\ \A i \in Jobs : JobInv(i)
  BY DEF IInv
<1>3. actor' \in {"runners", "idle"}
  BY DEF PumpReadsDone, PumpDone
<1>4. TypeInv' /\ LedgerExact'
  BY <1>1, <1>2, <1>3 DEF TypeInv, LedgerExact, Limit
<1>5. held["read"] \in Int /\ held["runner"] \in Int /\ MaxInFlight \in Nat /\ ProbeLimit \in Nat
  BY <1>2, JobsAssumption DEF TypeInv, Kinds
<1>6. WakeInv'
  <2>1. CASE PumpReadsDone
    BY <1>1, <1>2, <1>5, <2>1 DEF PumpReadsDone, WakeInv, PumpDue, ReadsSettled, ReadReady
  <2>2. CASE PumpDone
    BY <1>1, <1>2, <1>5, <2>2
       DEF PumpDone, WakeInv, PumpDue, ReadsSettled, RunnersSettled, ReadReady
  <2>. QED BY <2>1, <2>2
<1>7. ASSUME NEW i \in Jobs PROVE JobInv(i)'
  BY <1>1, <1>2, JobFrame
<1>. QED BY <1>4, <1>6, <1>7 DEF IInv

LEMMA ShutdownStep ==
    ASSUME IInv, Shutdown
    PROVE  IInv'
<1>1. /\ UNCHANGED <<cand, at, slots, held, verified, notice, ledgerWake, watching,
                     checkWake>>
      /\ actor' = "draining" /\ channel' = <<>> /\ queue' = <<>> /\ resumes' = {}
      /\ runnerQ' = <<>>
      /\ pc' = [j \in Jobs |-> IF pc[j] = "queued" THEN "done" ELSE pc[j]]
  BY DEF Shutdown
<1>2. TypeInv /\ LedgerExact /\ \A i \in Jobs : JobInv(i)
  BY DEF IInv
<1>3. pc' \in [Jobs -> Places] /\ \A i \in Jobs : pc'[i] \in {pc[i], "done"}
  BY <1>1, <1>2 DEF TypeInv, Places
<1>4. TypeInv'
  BY <1>1, <1>2, <1>3 DEF TypeInv
<1>5. LedgerExact'
  BY <1>1, <1>2 DEF LedgerExact, Limit
<1>6. WakeInv'
  BY <1>1 DEF WakeInv
<1>7. ASSUME NEW i \in Jobs PROVE JobInv(i)'
  BY <1>1, <1>2, <1>3, JobFrame
<1>. QED BY <1>4, <1>5, <1>6, <1>7 DEF IInv

-----------------------------------------------------------------------------
(* The jobs' steps                                                         *)

\* Job j ended: nobody else was touched, and its slots and requests are gone.
Ended(j) ==
    /\ pc' \in [Jobs -> Places] /\ resumes' \subseteq Jobs
    /\ slots' \in [Jobs -> SUBSET Kinds] /\ held' \in [Kinds -> Int]
    /\ channel' \in Seq(Request) /\ runnerQ' \in Seq(Request)
    /\ notice' \in [Jobs -> {"none", "armed", "fired"}]
    /\ ledgerWake' \in BOOLEAN /\ watching' \in BOOLEAN /\ checkWake' \in BOOLEAN
    /\ actor' \in {"idle", "reads", "runners", "draining"}
    /\ LedgerExact'
    /\ WakeInv'
    /\ pc'[j] = "done"
    /\ \A i \in Jobs \ {j} : /\ pc'[i] \in {pc[i], "done"}
                             /\ slots'[i] = slots[i]
                             /\ notice'[i] = notice[i]

LEMMA FinishStep ==
    ASSUME IInv, NEW j \in Jobs, NEW res, Finish(j, res), verified' = verified
    PROVE  Ended(j)
<1>. DEFINE st == With(pc, j, "done")
<1>1. TypeInv /\ LedgerExact /\ WakeInv
  BY DEF IInv
<1>2. st \in [Jobs -> Places] /\ st[j] = "done" /\ \A i \in Jobs \ {j} : st[i] = pc[i]
  BY <1>1 DEF With, TypeInv, Places
<1>. HIDE DEF st
<1>3. /\ slots' = [slots EXCEPT ![j] = @ \ Kinds]
      /\ slots' \in [Jobs -> SUBSET Kinds] /\ held' \in [Kinds -> Int]
      /\ ledgerWake' \in BOOLEAN
      /\ LedgerExact'
      /\ ledgerWake' \/ (held' = held /\ ~ledgerWake)
  BY <1>1, ReleaseCounts DEF Finish, TypeInv
<1>4. /\ channel' \in Seq(Request) /\ runnerQ' \in Seq(Request)
      /\ runnerQ = <<>> => runnerQ' = <<>>
  BY <1>1, WithoutType DEF Finish, TypeInv
<1>5. resumes' \subseteq resumes /\ notice' = [notice EXCEPT ![j] = "none"]
  BY DEF Finish, With
<1>6. /\ notice' \in [Jobs -> {"none", "armed", "fired"}]
      /\ \A i \in Jobs \ {j} : notice'[i] = notice[i] /\ slots'[i] = slots[i]
  BY <1>1, <1>3, <1>5 DEF TypeInv
<1>7. CASE actor = "idle"
  <2>1. Pump(queue, st, With(result, j, res))
    BY <1>7 DEF Finish, st
  <2>2. /\ pc' \in [Jobs -> Places] /\ watching' \in BOOLEAN /\ checkWake' \in BOOLEAN
        /\ \A i \in Jobs : pc'[i] = "done" \/ pc'[i] = st[i]
        /\ actor' = "reads"
        /\ queue' # <<>> /\ ~ReadReady => watching'
    BY <1>2, <2>1, PumpFrame
  <2>3. WakeInv'
    BY <2>2, PumpWakes
  <2>4. pc'[j] = "done" /\ \A i \in Jobs \ {j} : pc'[i] \in {pc[i], "done"}
    BY <1>2, <2>2
  <2>. QED BY <1>1, <1>3, <1>4, <1>5, <1>6, <2>2, <2>3, <2>4 DEF Ended, TypeInv
<1>8. CASE actor # "idle"
  <2>1. pc' = st /\ UNCHANGED <<actor, queue, watching, checkWake>>
    BY <1>8 DEF Finish, st
  <2>2. WakeInv'
    BY <1>1, <1>3, <1>4, <1>5, <2>1, WakeFrame
  <2>3. /\ pc' \in [Jobs -> Places] /\ pc'[j] = "done"
        /\ \A i \in Jobs \ {j} : pc'[i] \in {pc[i], "done"}
    BY <1>2, <2>1
  <2>. QED BY <1>1, <1>3, <1>4, <1>5, <1>6, <2>1, <2>2, <2>3 DEF Ended, TypeInv
<1>. QED BY <1>7, <1>8

\* The end of a job keeps the invariant.
LEMMA EndedKeeps ==
    ASSUME IInv, NEW j \in Jobs, Ended(j), UNCHANGED <<cand, verified>>,
           at' \in [Jobs -> Endpoints \cup {None}], \A i \in Jobs \ {j} : at'[i] = at[i]
    PROVE  IInv'
<1>1. TypeInv /\ \A i \in Jobs : JobInv(i)
  BY DEF IInv
<1>2. TypeInv'
  BY <1>1 DEF TypeInv, Ended
<1>3. ASSUME NEW i \in Jobs PROVE JobInv(i)'
  <2>1. CASE i = j
    BY <1>1, <2>1, JobAway DEF Ended, JobInv
  <2>2. CASE i # j
    <3>1. /\ pc'[i] = pc[i] \/ pc'[i] \in {"done", "top", "queued"}
          /\ slots[i] \subseteq slots'[i] /\ notice'[i] = notice[i] /\ at'[i] = at[i]
      BY <2>2 DEF Ended
    <3>. QED BY <1>1, <3>1, JobFrame
  <2>. QED BY <2>1, <2>2
<1>. QED BY <1>2, <1>3 DEF IInv, Ended

LEMMA TopStep ==
    ASSUME IInv, NEW j \in Jobs, Top(j)
    PROVE  IInv'
<1>1. UNCHANGED <<at, verified>>
  BY DEF Top
<1>2. TypeInv /\ LedgerExact /\ WakeInv /\ \A i \in Jobs : JobInv(i)
  BY DEF IInv
<1>3. CASE j \in live
  <2>. DEFINE c == [e \in Endpoints |->
                      IF cand[j][e] \in {"unprobed", "probing"} /\ e \in verified
                      THEN "ready" ELSE cand[j][e]]
  <2>1. /\ notice' = [notice EXCEPT ![j] = "armed"]
        /\ cand' = [cand EXCEPT ![j] = c]
        /\ pc' = [pc EXCEPT ![j] = "decide"]
        /\ UNCHANGED <<slots, held, channel, runnerQ, resumes, ledgerWake, queue, watching,
                       checkWake, actor>>
    BY <1>3 DEF Top, With, capacity
  <2>2. /\ c \in [Endpoints -> CandStates]
        /\ \A e \in Endpoints : c[e] = "ready" => e \in verified
        /\ \A e \in verified : c[e] \notin {"unprobed", "probing"}
    BY <1>2 DEF TypeInv, CandStates, JobInv
  <2>. HIDE DEF c
  <2>3. TypeInv'
    BY <1>1, <1>2, <2>1, <2>2 DEF TypeInv, Places
  <2>4. LedgerExact'
    BY <1>2, <2>1 DEF LedgerExact, Limit
  <2>5. WakeInv'
    BY <1>1, <1>2, <2>1 DEF WakeInv, PumpDue, ReadsSettled, RunnersSettled, ReadReady
  <2>6. ASSUME NEW i \in Jobs PROVE JobInv(i)'
    <3>1. CASE i = j
      <4>1. pc'[j] = "decide" /\ notice'[j] = "armed" /\ cand'[j] = c
        BY <1>2, <2>1 DEF TypeInv
      <4>. QED BY <1>1, <2>2, <3>1, <4>1 DEF JobInv, Parked
    <3>2. CASE i # j
      <4>1. pc'[i] = pc[i] /\ notice'[i] = notice[i] /\ cand'[i] = cand[i]
        BY <1>2, <2>1, <3>2 DEF TypeInv
      <4>. QED BY <1>1, <1>2, <2>1, <4>1, JobFrame
    <3>. QED BY <3>1, <3>2
  <2>. QED BY <2>3, <2>4, <2>5, <2>6 DEF IInv
<1>4. CASE j \notin live
  <2>1. Finish(j, LateResult(j)) /\ UNCHANGED cand
    BY <1>4 DEF Top
  <2>2. Ended(j)
    BY <1>1, <2>1, FinishStep
  <2>. QED BY <1>1, <1>2, <2>1, <2>2, EndedKeeps DEF TypeInv
<1>. QED BY <1>3, <1>4

LEMMA GrantedStep ==
    ASSUME IInv, NEW j \in Jobs, NEW k \in Kinds, Granted(j, k)
    PROVE  IInv'
<1>1. UNCHANGED <<cand, at, verified>>
  BY DEF Granted
<1>2. TypeInv /\ LedgerExact /\ WakeInv /\ \A i \in Jobs : JobInv(i)
  BY DEF IInv
<1>3. CASE grant[j][k] = "granted"
  <2>1. /\ pc' = [pc EXCEPT ![j] = "top"]
        /\ UNCHANGED <<slots, held, channel, runnerQ, resumes, ledgerWake, notice, queue,
                       watching, checkWake, actor>>
    BY <1>3 DEF Granted, With
  <2>2. TypeInv' /\ \A i \in Jobs : pc'[i] \in {pc[i], "top"}
    BY <1>1, <1>2, <2>1 DEF TypeInv, Places
  <2>3. LedgerExact'
    BY <1>2, <2>1 DEF LedgerExact, Limit
  <2>4. WakeInv'
    BY <1>1, <1>2, <2>1 DEF WakeInv, PumpDue, ReadsSettled, RunnersSettled, ReadReady
  <2>5. ASSUME NEW i \in Jobs PROVE JobInv(i)'
    BY <1>1, <1>2, <2>1, <2>2, JobFrame
  <2>. QED BY <2>2, <2>3, <2>4, <2>5 DEF IInv
<1>4. CASE grant[j][k] # "granted"
  <2>1. Finish(j, ShutdownResult(j))
    BY <1>4 DEF Granted
  <2>2. Ended(j)
    BY <1>1, <2>1, FinishStep
  <2>. QED BY <1>1, <1>2, <2>2, EndedKeeps DEF TypeInv
<1>. QED BY <1>3, <1>4

\* A job returns to its loop top, takes a probe permit, gains or loses its callers:
\* nothing the invariant speaks of moves.
LEMMA QuietStep ==
    ASSUME IInv, NEW j \in Jobs, pc' \in {pc, [pc EXCEPT ![j] = "top"]},
           UNCHANGED <<cand, at, slots, held, channel, runnerQ, resumes, ledgerWake, notice,
                       verified, queue, watching, checkWake, actor>>
    PROVE  IInv'
<1>1. TypeInv /\ LedgerExact /\ WakeInv /\ \A i \in Jobs : JobInv(i)
  BY DEF IInv
<1>2. TypeInv' /\ \A i \in Jobs : pc'[i] \in {pc[i], "top"}
  BY <1>1 DEF TypeInv, Places
<1>3. LedgerExact'
  BY <1>1 DEF LedgerExact, Limit
<1>4. WakeInv'
  BY <1>1 DEF WakeInv, PumpDue, ReadsSettled, RunnersSettled, ReadReady
<1>5. ASSUME NEW i \in Jobs PROVE JobInv(i)'
  BY <1>1, <1>2, JobFrame
<1>. QED BY <1>2, <1>3, <1>4, <1>5 DEF IInv

LEMMA AttemptStep ==
    ASSUME IInv, NEW j \in Jobs, NEW out \in Outcomes, Attempt(j, out)
    PROVE  IInv'
<1>1. UNCHANGED <<cand, verified>> /\ at' = [at EXCEPT ![j] = None]
  BY DEF Attempt, With
<1>2. TypeInv /\ LedgerExact /\ WakeInv /\ \A i \in Jobs : JobInv(i)
  BY DEF IInv
<1>3. at' \in [Jobs -> Endpoints \cup {None}] /\ \A i \in Jobs \ {j} : at'[i] = at[i]
  BY <1>1, <1>2 DEF TypeInv
<1>4. CASE out = "failover"
  <2>1. /\ pc' = [pc EXCEPT ![j] = "top"]
        /\ UNCHANGED <<slots, held, channel, runnerQ, resumes, ledgerWake, notice, queue,
                       watching, checkWake, actor>>
    BY <1>4 DEF Attempt, With, capacity
  <2>2. pc' \in [Jobs -> Places] /\ pc'[j] = "top" /\ \A i \in Jobs \ {j} : pc'[i] = pc[i]
    BY <1>2, <2>1 DEF TypeInv, Places
  <2>3. TypeInv'
    BY <1>1, <1>2, <1>3, <2>1, <2>2 DEF TypeInv
  <2>4. LedgerExact'
    BY <1>2, <2>1 DEF LedgerExact, Limit
  <2>5. WakeInv'
    BY <1>1, <1>2, <2>1 DEF WakeInv, PumpDue, ReadsSettled, RunnersSettled, ReadReady
  <2>6. ASSUME NEW i \in Jobs PROVE JobInv(i)'
    <3>1. CASE i = j
      BY <1>1, <1>2, <2>2, <3>1, JobAway DEF JobInv
    <3>2. CASE i # j
      BY <1>1, <1>2, <1>3, <2>1, <2>2, <3>2, JobFrame
    <3>. QED BY <3>1, <3>2
  <2>. QED BY <2>3, <2>4, <2>5, <2>6 DEF IInv
<1>5. CASE out # "failover"
  <2>1. PICK res : Finish(j, res)
    BY <1>5 DEF Attempt
  <2>2. Ended(j)
    BY <1>1, <2>1, FinishStep
  <2>. QED BY <1>1, <1>3, <2>2, EndedKeeps
<1>. QED BY <1>4, <1>5

\* A successful check fires the listening jobs, and the actor if work that cannot
\* read is queued.
LEMMA AnnounceWakes ==
    ASSUME TypeInv, WakeInv, Announce, verified \subseteq verified',
           UNCHANGED <<actor, queue, watching, held, resumes, runnerQ>>,
           ledgerWake => ledgerWake'
    PROVE  WakeInv'
<1>1. checkWake' = (checkWake \/ watching)
  BY DEF Announce
<1>2. ReadReady => ReadReady'
  BY DEF ReadReady
<1>3. actor # "draining" /\ queue # <<>> /\ ~ReadReady => PumpDue'
  BY <1>1 DEF WakeInv, PumpDue
<1>4. PumpDue => PumpDue'
  BY <1>1 DEF PumpDue
<1>. QED BY <1>1, <1>2, <1>3, <1>4 DEF WakeInv, ReadsSettled, RunnersSettled, ReadReady, TypeInv

LEMMA OutsideCheckStep ==
    ASSUME IInv, NEW e \in Endpoints, OutsideCheck(e)
    PROVE  IInv'
<1>1. /\ UNCHANGED <<pc, cand, at, slots, held, channel, runnerQ, resumes, ledgerWake, queue,
                     watching, actor>>
      /\ verified' = verified \cup {e}
      /\ Announce
  BY DEF OutsideCheck, jobVars, capacity
<1>2. TypeInv /\ LedgerExact /\ WakeInv /\ \A i \in Jobs : JobInv(i)
  BY DEF IInv
<1>3. /\ notice' = [i \in Jobs |-> IF notice[i] = "armed" THEN "fired" ELSE notice[i]]
      /\ checkWake' = (checkWake \/ watching)
  BY <1>1 DEF Announce
<1>4. TypeInv'
  BY <1>1, <1>2, <1>3 DEF TypeInv
<1>5. LedgerExact'
  BY <1>1, <1>2 DEF LedgerExact, Limit
<1>6. WakeInv'
  BY <1>1, <1>2, AnnounceWakes
<1>7. ASSUME NEW i \in Jobs PROVE JobInv(i)'
  BY <1>1, <1>2, <1>3, JobAnnounced
<1>. QED BY <1>4, <1>5, <1>6, <1>7 DEF IInv

\* Job j took new probes up and settled its slots and requests: nobody else was
\* touched.
Settled(j, c, new, drop) ==
    /\ cand' = [cand EXCEPT ![j] = Probing(c, new)]
    /\ Probing(c, new) \in [Endpoints -> CandStates]
    /\ slots' = [slots EXCEPT ![j] = @ \ drop]
    /\ resumes' \subseteq Jobs
    /\ slots' \in [Jobs -> SUBSET Kinds] /\ held' \in [Kinds -> Int]
    /\ channel' \in Seq(Request) /\ runnerQ' \in Seq(Request)
    /\ ledgerWake' \in BOOLEAN
    /\ LedgerExact'
    /\ WakeInv'

LEMMA SettleStep ==
    ASSUME IInv, NEW j \in Jobs, NEW c \in [Endpoints -> CandStates], NEW new,
           NEW drop \in SUBSET Kinds, NEW ask \in SUBSET Kinds,
           Settle(j, c, new, drop, ask),
           UNCHANGED <<verified, queue, watching, checkWake, actor>>
    PROVE  Settled(j, c, new, drop)
<1>1. TypeInv /\ LedgerExact /\ WakeInv
  BY DEF IInv
<1>2. /\ cand' = [cand EXCEPT ![j] = Probing(c, new)]
      /\ Probing(c, new) \in [Endpoints -> CandStates]
  BY DEF Settle, With, Probing, CandStates
<1>3. /\ slots' = [slots EXCEPT ![j] = @ \ drop]
      /\ slots' \in [Jobs -> SUBSET Kinds] /\ held' \in [Kinds -> Int]
      /\ ledgerWake' \in BOOLEAN
      /\ LedgerExact'
      /\ ledgerWake' \/ (held' = held /\ ~ledgerWake)
  BY <1>1, ReleaseCounts DEF Settle, TypeInv
<1>4. /\ Without(channel, j, drop) \in Seq(Request) /\ runnerQ' \in Seq(Request)
      /\ runnerQ = <<>> => runnerQ' = <<>>
  BY <1>1, WithoutType DEF Settle, TypeInv
<1>5. channel' \in Seq(Request)
  <2>. DEFINE k == CHOOSE k \in ask : TRUE
              more == IF ask = {} THEN <<>> ELSE <<<<j, k>>>>
  <2>1. ask # {} => k \in Kinds
    BY Zenon
  <2>2. more \in Seq(Request)
    <3>. HIDE DEF k
    <3>. QED BY <2>1 DEF Request
  <2>3. channel' = Without(channel, j, drop) \o more
    BY DEF Settle
  <2>. HIDE DEF more
  <2>. QED BY <1>4, <2>2, <2>3, ConcatProperties
<1>6. resumes' \subseteq resumes
  BY DEF Settle
<1>7. WakeInv'
  BY <1>1, <1>3, <1>4, <1>6, WakeFrame
<1>. QED BY <1>1, <1>2, <1>3, <1>4, <1>5, <1>6, <1>7 DEF Settled, TypeInv

LEMMA SettledKeeps ==
    ASSUME IInv, NEW j \in Jobs, NEW c, NEW new, NEW drop, Settled(j, c, new, drop),
           UNCHANGED <<verified, notice, queue, watching, checkWake, actor>>,
           NEW place \in Places, pc' = [pc EXCEPT ![j] = place],
           at' \in [Jobs -> Endpoints \cup {None}], \A i \in Jobs \ {j} : at'[i] = at[i],
           JobInv(j)'
    PROVE  IInv'
<1>1. TypeInv /\ \A i \in Jobs : JobInv(i)
  BY DEF IInv
<1>2. /\ pc' \in [Jobs -> Places] /\ cand' \in [Jobs -> [Endpoints -> CandStates]]
      /\ \A i \in Jobs \ {j} : pc'[i] = pc[i] /\ cand'[i] = cand[i] /\ slots'[i] = slots[i]
  <2>. DEFINE d == Probing(c, new)
  <2>1. cand' = [cand EXCEPT ![j] = d] /\ d \in [Endpoints -> CandStates]
    BY DEF Settled
  <2>. HIDE DEF d
  <2>. QED BY <1>1, <2>1 DEF TypeInv, Settled
<1>3. TypeInv'
  BY <1>1, <1>2 DEF TypeInv, Settled
<1>4. ASSUME NEW i \in Jobs, i # j PROVE JobInv(i)'
  BY <1>1, <1>2, <1>4, JobFrame
<1>. QED BY <1>3, <1>4 DEF IInv, Settled

LEMMA DecideStep ==
    ASSUME IInv, NEW j \in Jobs, Decide(j)
    PROVE  IInv'
<1>1. UNCHANGED verified /\ pc[j] = "decide"
  BY DEF Decide, Turn
<1>2. TypeInv /\ JobInv(j)
  BY DEF IInv
<1>. DEFINE ready == InState(j, "ready")
            asks(k) == grant[j][k] = "none"
            probed(n) == Probes(j) \cup n # {}
            unrun(n) == IF ~probed(n) /\ InState(j, "unprobed") \subseteq n
                        THEN {"runner"} ELSE {}
<1>3. PICK new \in Refills(j, grant[j]["runner"] \in {"none", "granted"}) :
       \/ /\ Settle(j, cand[j], new, unrun(new), IF asks("read") THEN {"read"} ELSE {})
          /\ pc' = With(pc, j, "waitRead")
          /\ UNCHANGED <<at, result, notice, queue, watching, checkWake, actor>>
       \/ /\ "read" \in slots[j]
          /\ \E e \in ready :
               /\ Settle(j, [cand[j] EXCEPT ![e] = "tried"], new, unrun(new), {})
               /\ at' = With(at, j, e)
               /\ pc' = With(pc, j, "attempt")
          /\ UNCHANGED <<result, notice, queue, watching, checkWake, actor>>
       \/ Finish(j, result[j]) /\ UNCHANGED <<at, cand>>
       \/ /\ ready = {}
          /\ Settle(j, cand[j], new, ParkDrops,
                    IF ~probed(new) /\ asks("runner") THEN {"runner"} ELSE {})
          /\ notice' = With(notice, j, ParkNotice(j))
          /\ pc' = With(pc, j, IF probed(new) THEN "waitProbe" ELSE "waitRunner")
          /\ UNCHANGED <<at, result, queue, watching, checkWake, actor>>
       \/ Finish(j, ShutdownResult(j)) /\ UNCHANGED <<at, cand>>
  BY Zenon DEF Decide
<1>4. /\ new \subseteq InState(j, "unprobed")
      /\ cand[j] \in [Endpoints -> CandStates]
      /\ unrun(new) \in SUBSET Kinds /\ "read" \notin unrun(new)
  BY <1>2 DEF Refills, TypeInv, Kinds
<1>. HIDE DEF probed, unrun
<1>5. CASE \E ask \in SUBSET Kinds :
             /\ Settle(j, cand[j], new, unrun(new), ask)
             /\ pc' = With(pc, j, "waitRead")
             /\ UNCHANGED <<at, result, notice, queue, watching, checkWake, actor>>
  <2>1. Settled(j, cand[j], new, unrun(new))
    BY <1>1, <1>4, <1>5, SettleStep
  <2>2. cand'[j] = Probing(cand[j], new) /\ pc'[j] = "waitRead"
    BY <1>2, <1>5, <2>1 DEF Settled, TypeInv, With
  <2>3. \A e \in Endpoints : cand'[j][e] = "ready" => e \in verified'
    BY <1>1, <1>2, <2>2 DEF Probing, JobInv
  <2>4. JobInv(j)'
    BY <2>2, <2>3, JobAway
  <2>. QED BY <1>1, <1>2, <1>5, <2>1, <2>4, SettledKeeps DEF With, Places, TypeInv
<1>6. CASE /\ "read" \in slots[j]
           /\ \E e \in ready :
                /\ Settle(j, [cand[j] EXCEPT ![e] = "tried"], new, unrun(new), {})
                /\ at' = With(at, j, e)
                /\ pc' = With(pc, j, "attempt")
           /\ UNCHANGED <<result, notice, queue, watching, checkWake, actor>>
  <2>1. PICK e \in ready : /\ Settle(j, [cand[j] EXCEPT ![e] = "tried"], new, unrun(new), {})
                           /\ at' = [at EXCEPT ![j] = e]
                           /\ pc' = [pc EXCEPT ![j] = "attempt"]
    BY <1>6 DEF With
  <2>. DEFINE c == [cand[j] EXCEPT ![e] = "tried"]
  <2>2. /\ e \in verified /\ e \in Endpoints
        /\ c \in [Endpoints -> CandStates]
        /\ \A x \in Endpoints : c[x] = "ready" => x \in verified
    BY <1>2, <1>4 DEF InState, JobInv, CandStates
  <2>. HIDE DEF c
  <2>3. Settled(j, c, new, unrun(new))
    <3>1. Settle(j, c, new, unrun(new), {}) /\ {} \in SUBSET Kinds
      BY <2>1 DEF c
    <3>. QED BY <1>1, <1>4, <1>6, <2>2, <3>1, SettleStep
  <2>4. /\ cand'[j] = Probing(c, new) /\ pc'[j] = "attempt" /\ at'[j] = e
        /\ "read" \in slots'[j]
    BY <1>2, <1>4, <1>6, <2>1, <2>3 DEF Settled, TypeInv
  <2>5. JobInv(j)'
    BY <1>1, <2>2, <2>4 DEF Probing, JobInv, Parked
  <2>6. at' \in [Jobs -> Endpoints \cup {None}] /\ \A i \in Jobs \ {j} : at'[i] = at[i]
    BY <1>2, <2>1, <2>2 DEF TypeInv
  <2>. QED BY <1>1, <1>6, <2>1, <2>3, <2>5, <2>6, SettledKeeps DEF Places
<1>7. CASE \E res : Finish(j, res) /\ UNCHANGED <<at, cand>>
  <2>1. Ended(j)
    BY <1>1, <1>7, FinishStep
  <2>. QED BY <1>1, <1>2, <1>7, <2>1, EndedKeeps DEF TypeInv
<1>8. CASE \E ask \in SUBSET Kinds, place \in Parked :
             /\ ready = {}
             /\ Settle(j, cand[j], new, ParkDrops, ask)
             /\ notice' = With(notice, j, ParkNotice(j))
             /\ pc' = With(pc, j, place)
             /\ UNCHANGED <<at, result, queue, watching, checkWake, actor>>
  <2>1. PICK place \in Parked : pc' = [pc EXCEPT ![j] = place]
    BY <1>8 DEF With
  <2>2. notice' = notice
    BY <1>2, <1>8 DEF With, ParkNotice, TypeInv
  <2>3. Settled(j, cand[j], new, ParkDrops)
    <3>1. ParkDrops \in SUBSET Kinds
      BY DEF ParkDrops, Kinds
    <3>. QED BY <1>1, <1>4, <1>8, <3>1, SettleStep
  <2>4. cand'[j] = Probing(cand[j], new) /\ pc'[j] = place
    BY <1>2, <2>1, <2>3 DEF Settled, TypeInv
  <2>5. JobInv(j)'
    <3>1. \A e \in Endpoints : cand'[j][e] # "ready"
      BY <1>8, <2>4 DEF Probing, InState
    <3>2. notice[j] # "none" /\ (notice[j] = "armed" =>
             \A e \in verified : cand[j][e] \notin {"unprobed", "probing"})
      BY <1>1, <1>2 DEF JobInv
    <3>3. ASSUME notice[j] = "armed", NEW e \in verified
          PROVE  cand'[j][e] \notin {"unprobed", "probing"}
      BY <1>2, <1>4, <2>4, <3>2, <3>3 DEF Probing, InState, TypeInv
    <3>4. pc'[j] # "attempt"
      BY <2>4 DEF Parked
    <3>. QED BY <1>1, <2>2, <3>1, <3>2, <3>3, <3>4 DEF JobInv
  <2>6. place \in Places
    BY DEF Parked, Places
  <2>. QED BY <1>1, <1>2, <1>8, <2>1, <2>2, <2>3, <2>5, <2>6, SettledKeeps DEF TypeInv
<1>9. /\ (IF asks("read") THEN {"read"} ELSE {}) \in SUBSET Kinds
      /\ (IF ~probed(new) /\ asks("runner") THEN {"runner"} ELSE {}) \in SUBSET Kinds
      /\ (IF probed(new) THEN "waitProbe" ELSE "waitRunner") \in Parked
  BY DEF Kinds, Parked
<1>. HIDE DEF asks, ready
<1>. QED BY <1>5, <1>6, <1>7, <1>8, <1>9, <1>3, Zenon

LEMMA ProbeEndsStep ==
    ASSUME IInv, NEW j \in Jobs, NEW e \in Endpoints, NEW out \in ProbeOutcomes,
           ProbeEnds(j, e, out)
    PROVE  IInv'
<1>. DEFINE c == [cand[j] EXCEPT ![e] = Recorded(j, e, out)]
<1>1. /\ UNCHANGED <<at, slots, held, channel, runnerQ, resumes, queue, watching, actor>>
      /\ pc[j] \in {"waitRead", "waitProbe", "attempt"}
      /\ pc' = IF pc[j] = "attempt" THEN pc ELSE [pc EXCEPT ![j] = "top"]
  BY DEF ProbeEnds, Polling, With
<1>2. TypeInv /\ LedgerExact /\ WakeInv /\ \A i \in Jobs : JobInv(i)
  BY DEF IInv
<1>3. IF out = "verified"
      THEN verified' = verified \cup {e} /\ ledgerWake' = TRUE /\ Announce
      ELSE UNCHANGED <<verified, ledgerWake, notice, checkWake>>
  BY DEF ProbeEnds
<1>4. PICK new : cand' = [cand EXCEPT ![j] = Probing(c, new)]
  BY DEF ProbeEnds, With
<1>5. /\ c \in [Endpoints -> CandStates]
      /\ \A x \in Endpoints : c[x] = "ready" => x \in verified'
  <2>1. Recorded(j, e, out) \in CandStates /\ (Recorded(j, e, out) = "ready" => e \in verified')
    BY <1>2, <1>3 DEF Recorded, TypeInv, CandStates, JobInv, ProbeOutcomes
  <2>2. verified \subseteq verified'
    BY <1>3
  <2>. DEFINE v == Recorded(j, e, out)
  <2>. HIDE DEF v
  <2>3. c = [cand[j] EXCEPT ![e] = v] /\ v \in CandStates /\ (v = "ready" => e \in verified')
    BY <2>1 DEF v
  <2>. QED BY <1>2, <2>2, <2>3 DEF TypeInv, JobInv
<1>. HIDE DEF c
<1>6. /\ Probing(c, new) \in [Endpoints -> CandStates]
      /\ \A x \in Endpoints : Probing(c, new)[x] = "ready" => x \in verified'
  BY <1>5 DEF Probing, CandStates
<1>7. /\ cand' \in [Jobs -> [Endpoints -> CandStates]] /\ cand'[j] = Probing(c, new)
      /\ \A i \in Jobs \ {j} : cand'[i] = cand[i]
  <2>. DEFINE d == Probing(c, new)
  <2>1. cand' = [cand EXCEPT ![j] = d] /\ d \in [Endpoints -> CandStates]
    BY <1>4, <1>6
  <2>. HIDE DEF d
  <2>2. cand' \in [Jobs -> [Endpoints -> CandStates]] /\ cand'[j] = d
        /\ \A i \in Jobs \ {j} : cand'[i] = cand[i]
    BY <1>2, <2>1 DEF TypeInv
  <2>. QED BY <2>2 DEF d
<1>8. /\ pc' \in [Jobs -> Places] /\ pc'[j] \in {"top", "attempt"}
      /\ pc'[j] = "attempt" => pc[j] = "attempt"
      /\ \A i \in Jobs \ {j} : pc'[i] = pc[i]
  BY <1>1, <1>2 DEF TypeInv, Places
<1>9. /\ verified' \subseteq Endpoints /\ verified \subseteq verified'
      /\ notice' \in [Jobs -> {"none", "armed", "fired"}]
      /\ ledgerWake' \in BOOLEAN /\ checkWake' \in BOOLEAN
      /\ \/ verified' = verified /\ notice' = notice
         \/ \A i \in Jobs : notice'[i] = IF notice[i] = "armed" THEN "fired" ELSE notice[i]
  BY <1>2, <1>3 DEF TypeInv, Announce
<1>10. TypeInv'
  BY <1>1, <1>2, <1>7, <1>8, <1>9 DEF TypeInv
<1>11. LedgerExact'
  BY <1>1, <1>2 DEF LedgerExact, Limit
<1>12. WakeInv'
  <2>1. CASE out = "verified"
    BY <1>1, <1>2, <1>3, <1>9, <2>1, AnnounceWakes
  <2>2. CASE out # "verified"
    BY <1>1, <1>2, <1>3, <2>2 DEF WakeInv, PumpDue, ReadsSettled, RunnersSettled, ReadReady
  <2>. QED BY <2>1, <2>2
<1>13. ASSUME NEW i \in Jobs PROVE JobInv(i)'
  <2>1. CASE i = j
    BY <1>1, <1>2, <1>6, <1>7, <1>8, <1>9, <2>1 DEF JobInv, Parked
  <2>2. CASE i # j
    BY <1>1, <1>2, <1>7, <1>8, <1>9, <2>2, JobFrame, JobAnnounced
  <2>. QED BY <2>1, <2>2
<1>. QED BY <1>10, <1>11, <1>12, <1>13 DEF IInv

-----------------------------------------------------------------------------
(* The theorems                                                            *)

LEMMA InitInv == Init => IInv
<1>. SUFFICES ASSUME Init PROVE IInv
  OBVIOUS
<1>1. TypeInv
  <2>1. /\ pc \in [Jobs -> Places]
        /\ cand \in [Jobs -> [Endpoints -> CandStates]]
        /\ at \in [Jobs -> Endpoints \cup {None}]
    BY DEF Init, Places, CandStates
  <2>2. slots \in [Jobs -> SUBSET Kinds] /\ held \in [Kinds -> Int]
    <3>1. slots = [j \in Jobs |-> {}] /\ held = [k \in Kinds |-> 0]
      BY DEF Init
    <3>. QED BY <3>1
  <2>3. channel \in Seq(Request) /\ runnerQ \in Seq(Request)
    <3>1. channel = <<>> /\ runnerQ = <<>>
      BY DEF Init
    <3>. QED BY <3>1
  <2>4. /\ resumes \subseteq Jobs
        /\ verified \subseteq Endpoints
        /\ notice \in [Jobs -> {"none", "armed", "fired"}]
        /\ ledgerWake \in BOOLEAN /\ watching \in BOOLEAN /\ checkWake \in BOOLEAN
        /\ actor \in {"idle", "reads", "runners", "draining"}
    BY DEF Init
  <2>. QED BY <2>1, <2>2, <2>3, <2>4 DEF TypeInv
<1>2. LedgerExact
  <2>1. ASSUME NEW k \in Kinds PROVE held[k] = Cardinality({j \in Jobs : k \in slots[j]})
    <3>1. {j \in Jobs : k \in slots[j]} = {} /\ held[k] = 0
      BY DEF Init
    <3>. QED BY <3>1, FS_EmptySet
  <2>2. ASSUME NEW k \in Kinds PROVE held[k] <= Limit(k)
    <3>1. held[k] = 0 /\ Limit(k) \in Nat
      BY KindLimits DEF Init
    <3>. QED BY <3>1
  <2>. QED BY <2>1, <2>2 DEF LedgerExact
<1>3. WakeInv
  BY DEF Init, WakeInv, PumpDue, ReadsSettled, RunnersSettled
<1>4. ASSUME NEW j \in Jobs PROVE JobInv(j)
  BY DEF Init, JobInv, Parked
<1>. QED BY <1>1, <1>2, <1>3, <1>4 DEF IInv

LEMMA NextInv == IInv /\ [Next]_vars => IInv'
<1>. SUFFICES ASSUME IInv, [Next]_vars PROVE IInv'
  OBVIOUS
<1>1. ASSUME NEW j \in Jobs, Submit(j) PROVE IInv'
  BY <1>1, SubmitStep
<1>2. ASSUME NEW j \in Jobs, Late(j) \/ Join(j) PROVE IInv'
  BY <1>2, QuietStep DEF Late, Join, jobVars, capacity
<1>3. CASE ActorStep
  BY <1>3, ReceiveStep, WakeStep, PumpReadStep, PumpEndStep, PumpRunnerStep DEF ActorStep
<1>4. ASSUME NEW j \in Jobs, JobStep(j) PROVE IInv'
  <2>1. ASSUME Woke(j) \/ \E e \in Endpoints : ProbePermit(j, e) PROVE IInv'
    BY <2>1, QuietStep DEF Woke, ProbePermit, With, capacity
  <2>. QED BY <1>4, <2>1, TopStep, DecideStep, GrantedStep, AttemptStep, ProbeEndsStep
           DEF JobStep
<1>5. ASSUME NEW e \in Endpoints, OutsideCheck(e) PROVE IInv'
  BY <1>5, OutsideCheckStep
<1>6. CASE Shutdown
  BY <1>6, ShutdownStep
<1>7. CASE UNCHANGED vars
  <2>1. UNCHANGED <<pc, cand, at, slots, held, channel, queue, resumes, runnerQ, verified,
                    notice, ledgerWake, watching, checkWake, actor>>
    BY <1>7 DEF vars
  <2>2. TypeInv' /\ WakeInv'
    BY <2>1 DEF IInv, TypeInv, WakeInv, PumpDue, ReadsSettled, RunnersSettled, ReadReady
  <2>3. LedgerExact'
    BY <2>1 DEF IInv, LedgerExact, Limit
  <2>4. ASSUME NEW i \in Jobs PROVE JobInv(i)'
    BY <2>1, JobFrame DEF IInv
  <2>. QED BY <2>2, <2>3, <2>4 DEF IInv
<1>. QED BY <1>1, <1>2, <1>3, <1>4, <1>5, <1>6, <1>7 DEF Next

LEMMA JobsInvariant == Spec => []IInv
BY InitInv, NextInv, PTL DEF Spec

\* The ledger counts exactly the slots jobs hold and never more than the limits,
\* whatever is granted, dropped, released twice or ended (CapacityLedger, JobSlots).
THEOREM LedgerCounts == Spec => []LedgerExact
<1>1. IInv => LedgerExact
  BY DEF IInv
<1>. QED BY <1>1, JobsInvariant, PTL

\* drive_job reads only from endpoints whose identity was verified, with a read slot.
THEOREM AttemptsVerified == Spec => []ReadsOnlyVerified
<1>1. IInv => ReadsOnlyVerified
  BY DEF IInv, JobInv, ReadsOnlyVerified
<1>. QED BY <1>1, JobsInvariant, PTL

\* The actor never sleeps on free capacity that somebody could use.
THEOREM ActorNeverOversleeps == Spec => []NoLostWakeup
<1>1. IInv => NoLostWakeup
  BY DEF IInv, WakeInv, PumpDue, ReadsSettled, RunnersSettled, NoLostWakeup
<1>. QED BY <1>1, JobsInvariant, PTL

\* A parked job never misses an endpoint verified by somebody else, even one
\* verified between its loop top and its wait.
THEOREM ParkedJobHears == Spec => []ParkedHears
<1>1. IInv => ParkedHears
  <2>. SUFFICES ASSUME IInv, NEW j \in Jobs, pc[j] \in Parked, notice[j] # "fired",
                       NEW e \in verified
                PROVE  cand[j][e] \in {"tried", "rejected"}
    BY DEF ParkedHears, Parked
  <2>1. notice[j] = "armed" /\ e \in Endpoints /\ cand[j][e] \in CandStates
    BY DEF IInv, TypeInv, JobInv
  <2>. QED BY <2>1 DEF IInv, JobInv, CandStates
<1>. QED BY <1>1, JobsInvariant, PTL

-----------------------------------------------------------------------------
(* The health of the endpoints, for any number of them, their routes and   *)
(* profiles: each endpoint kept out of the candidates has one check pending, *)
(* and a check that failed waits for a cooldown.                           *)

----------------------------------------------------------------------------
(* Recovery                                                                *)

HealthTypes ==
    /\ queued \in Seq(Targets)
    /\ failed \subseteq Targets /\ probing \subseteq Targets

\* What is queued or being checked belongs to a route the pass has taken up, so
\* that a route taken up later brings none of it again.
TakenUp == \A t \in Targets : t \in ToSet(queued) \cup probing => RouteOf[t] \in routes

RecoveryInv == HealthTypes /\ TakenUp /\ routes \subseteq activated /\ RecoveryPending

\* A listing of a finite set without repetition has all of it.
LEMMA ListingCovers ==
    ASSUME NEW S, IsFiniteSet(S), NEW f \in SetToSeqs(S)
    PROVE  /\ DOMAIN f = 1..Cardinality(S) /\ Cardinality(S) \in Nat
           /\ f \in Seq(S) /\ Len(f) = Cardinality(S)
           /\ \A i, n \in DOMAIN f : f[i] = f[n] => i = n
           /\ \A x \in S : \E i \in DOMAIN f : f[i] = x
<1> DEFINE D == 1..Cardinality(S)
<1>1. Cardinality(S) \in Nat
  BY FS_CardinalityType
<1>2. f \in [D -> S] /\ \A i, n \in D : i # n => f[i] # f[n]
  BY DEF SetToSeqs
<1>3. f \in Injection(D, S)
  BY <1>2 DEF Injection, IsInjective
<1>4. IsFiniteSet(D) /\ Cardinality(D) = Cardinality(S)
  BY <1>1, FS_Interval
<1>5. f \in Surjection(D, S)
  BY <1>3, <1>4, FS_Injection
<1>6. \A x \in S : \E i \in D : f[i] = x
  BY <1>5 DEF Surjection
<1>7. f \in Seq(S) /\ Len(f) = Cardinality(S)
  BY <1>1, <1>2
<1> QED
  BY <1>1, <1>2, <1>6, <1>7

\* What two sequences hold, one after the other.
LEMMA JoinedFacts ==
    ASSUME NEW S, NEW s \in Seq(S), NEW r \in Seq(S)
    PROVE  /\ s \o r \in Seq(S) /\ Len(s \o r) = Len(s) + Len(r)
           /\ \A i \in 1..Len(s) : (s \o r)[i] = s[i]
           /\ \A i \in 1..Len(r) : (s \o r)[Len(s) + i] = r[i]
           /\ ToSet(s \o r) = ToSet(s) \cup ToSet(r)
<1>1. /\ s \o r \in Seq(S) /\ Len(s \o r) = Len(s) + Len(r)
      /\ Len(s) \in Nat /\ Len(r) \in Nat
      /\ DOMAIN s = 1..Len(s) /\ DOMAIN r = 1..Len(r) /\ DOMAIN (s \o r) = 1..(Len(s) + Len(r))
  OBVIOUS
<1>2. \A i \in 1..Len(s) : (s \o r)[i] = s[i]
  OBVIOUS
<1>3. \A i \in 1..Len(r) : (s \o r)[Len(s) + i] = r[i]
  OBVIOUS
<1>4. \A i \in 1..(Len(s) + Len(r)) : i \in 1..Len(s) \/ \E n \in 1..Len(r) : i = Len(s) + n
  <2> SUFFICES ASSUME NEW i \in 1..(Len(s) + Len(r)), i \notin 1..Len(s)
               PROVE  \E n \in 1..Len(r) : i = Len(s) + n
    OBVIOUS
  <2>1. i - Len(s) \in 1..Len(r) /\ i = Len(s) + (i - Len(s))
    BY <1>1
  <2> QED
    BY <2>1
<1> DEFINE j == s \o r
<1>5. /\ \A i \in 1..Len(s) : i \in 1..(Len(s) + Len(r))
      /\ \A i \in 1..Len(r) : Len(s) + i \in 1..(Len(s) + Len(r))
  BY <1>1
<1>6. DOMAIN j = 1..(Len(s) + Len(r)) /\ (\A i \in 1..Len(s) : j[i] = s[i])
        /\ (\A i \in 1..Len(r) : j[Len(s) + i] = r[i])
  BY <1>1, <1>2, <1>3
<1>7. ToSet(j) = ToSet(s) \cup ToSet(r)
  <2> HIDE DEF j
  <2>1. ToSet(j) \subseteq ToSet(s) \cup ToSet(r)
    <3> SUFFICES ASSUME NEW i \in 1..(Len(s) + Len(r)) PROVE j[i] \in ToSet(s) \cup ToSet(r)
      BY <1>6 DEF ToSet
    <3>1. CASE i \in 1..Len(s)
      BY <1>1, <1>6, <3>1 DEF ToSet
    <3>2. CASE \E n \in 1..Len(r) : i = Len(s) + n
      BY <1>1, <1>6, <3>2 DEF ToSet
    <3> QED BY <1>4, <3>1, <3>2
  <2>2. ToSet(s) \subseteq ToSet(j) /\ ToSet(r) \subseteq ToSet(j)
    BY <1>1, <1>5, <1>6 DEF ToSet
  <2> QED
    BY <2>1, <2>2
<1> QED
  BY <1>1, <1>2, <1>3, <1>7

Unrepeated(s) == \A i, n \in DOMAIN s : s[i] = s[n] => i = n

LEMMA JoinedUnrepeated ==
    ASSUME NEW S, NEW s \in Seq(S), NEW r \in Seq(S), Unrepeated(s), Unrepeated(r),
           ToSet(s) \cap ToSet(r) = {}
    PROVE  Unrepeated(s \o r)
<1> DEFINE j == s \o r
<1>1. /\ DOMAIN s = 1..Len(s) /\ DOMAIN r = 1..Len(r) /\ DOMAIN j = 1..(Len(s) + Len(r))
      /\ Len(s) \in Nat /\ Len(r) \in Nat
  BY JoinedFacts
<1>2. /\ \A i \in 1..Len(s) : j[i] = s[i] /\ s[i] \in ToSet(s)
      /\ \A i \in 1..Len(r) : j[Len(s) + i] = r[i] /\ r[i] \in ToSet(r)
  BY JoinedFacts DEF ToSet
<1> HIDE DEF j
<1> SUFFICES ASSUME NEW i \in 1..(Len(s) + Len(r)), NEW n \in 1..(Len(s) + Len(r)), j[i] = j[n]
             PROVE  i = n
  BY <1>1 DEF Unrepeated, j
<1>3. ASSUME NEW k \in 1..(Len(s) + Len(r)), k > Len(s)
      PROVE  k - Len(s) \in 1..Len(r) /\ j[k] = r[k - Len(s)] /\ j[k] \in ToSet(r)
  <2>1. k - Len(s) \in 1..Len(r) /\ Len(s) + (k - Len(s)) = k
    BY <1>1, <1>3
  <2> QED
    BY <1>2, <2>1
<1>4. ASSUME NEW k \in 1..(Len(s) + Len(r)), ~(k > Len(s))
      PROVE  k \in 1..Len(s) /\ j[k] = s[k] /\ j[k] \in ToSet(s)
  BY <1>1, <1>2, <1>4
<1>5. CASE i > Len(s) /\ n > Len(s)
  <2>1. i - Len(s) = n - Len(s)
    BY <1>1, <1>3, <1>5 DEF Unrepeated
  <2> QED
    BY <1>1, <2>1
<1>6. CASE ~(i > Len(s)) /\ ~(n > Len(s))
  BY <1>1, <1>4, <1>6 DEF Unrepeated
<1> QED
  BY <1>3, <1>4, <1>5, <1>6

LEMMA RecoveryInit == HealthInit => RecoveryInv
BY DEF HealthInit, RecoveryInv, HealthTypes, TakenUp, RecoveryPending, ToSet

LEMMA QueueKept ==
    ASSUME RecoveryInv, UNCHANGED <<activated, routes, queued, failed, probing>>
    PROVE  RecoveryInv'
BY DEF RecoveryInv, HealthTypes, TakenUp, RecoveryPending, ToSet

\* The queue after a step, when the routes taken up stay.
LEMMA QueueChanged ==
    ASSUME RecoveryInv, UNCHANGED <<activated, routes>>,
           queued' \in Seq(Targets), failed' \subseteq Targets,
           probing' \subseteq Targets,
           ToSet(queued') \cup probing' \subseteq ToSet(queued) \cup probing,
           failed' \subseteq ToSet(queued') \cup probing',
           ToSet(queued') \cap probing' = {}, Unrepeated(queued')
    PROVE  RecoveryInv'
BY DEF RecoveryInv, HealthTypes, TakenUp, RecoveryPending, Unrepeated, ToSet

LEMMA AppendStep ==
    ASSUME RecoveryInv, AppendActivated
    PROVE  RecoveryInv'
<1> DEFINE fresh == {t \in Targets : RouteOf[t] \in activated \ routes} \ identified
<1>1. PICK new \in SetToSeqs(fresh) : queued' = queued \o new
  BY DEF AppendActivated
<1>2. /\ routes' = activated /\ activated' = activated /\ failed' = failed /\ probing' = probing
      /\ routes \subseteq activated
  BY DEF AppendActivated, RecoveryInv
<1>3. IsFiniteSet(fresh)
  BY FS_Subset, HealthAssumption
<1>4. /\ \A t \in fresh : t \in Targets /\ RouteOf[t] \in activated \ routes
      /\ fresh \subseteq Targets
  OBVIOUS
<1> HIDE DEF fresh
<1>5. new \in Seq(fresh) /\ Unrepeated(new)
  BY <1>3, ListingCovers DEF Unrepeated
<1>6. new \in Seq(Targets) /\ ToSet(new) \subseteq fresh
  BY <1>4, <1>5 DEF ToSet
<1>7. queued \in Seq(Targets) /\ Unrepeated(queued)
  BY DEF RecoveryInv, HealthTypes, RecoveryPending, Unrepeated
<1>8. \A t \in fresh : t \notin ToSet(queued) /\ t \notin probing
  BY <1>4 DEF RecoveryInv, TakenUp
<1>9. queued' \in Seq(Targets) /\ ToSet(queued') = ToSet(queued) \cup ToSet(new)
  BY <1>1, <1>6, <1>7, JoinedFacts
<1>10. Unrepeated(queued')
  BY <1>1, <1>5, <1>6, <1>7, <1>8, JoinedUnrepeated
<1>11. TakenUp'
  BY <1>2, <1>4, <1>6, <1>9 DEF TakenUp, RecoveryInv
<1>12. HealthTypes' /\ RecoveryPending'
  BY <1>2, <1>6, <1>8, <1>9, <1>10 DEF RecoveryInv, HealthTypes, RecoveryPending, Unrepeated
<1> QED
  BY <1>2, <1>11, <1>12 DEF RecoveryInv

\* The pass takes targets out of the queue and loses none.
LEMMA WarmStartStep ==
    ASSUME RecoveryInv, WarmStart
    PROVE  RecoveryInv'
<1>1. PICK chosen \in SUBSET DuePlaces :
        /\ probing' = probing \cup {queued[i] : i \in chosen}
        /\ \E rest \in SetToSeqs(DOMAIN queued \ chosen) :
             queued' = [i \in DOMAIN rest |-> queued[rest[i]]]
  BY DEF WarmStart
<1> DEFINE left == DOMAIN queued \ chosen
<1>2. PICK rest \in SetToSeqs(left) : queued' = [i \in DOMAIN rest |-> queued[rest[i]]]
  BY <1>1
<1>3. UNCHANGED <<activated, routes, failed>>
  BY DEF WarmStart
<1>4. /\ queued \in Seq(Targets) /\ Unrepeated(queued) /\ DOMAIN queued = 1..Len(queued)
      /\ chosen \subseteq DOMAIN queued /\ \A i \in DOMAIN queued : queued[i] \in Targets
  BY DEF RecoveryInv, HealthTypes, RecoveryPending, Unrepeated, DuePlaces
<1>5. IsFiniteSet(left)
  <2>1. IsFiniteSet(1..Len(queued))
    BY <1>4, FS_Interval
  <2> QED
    BY <1>4, <2>1, FS_Subset
<1>6. left \subseteq DOMAIN queued /\ left \cap chosen = {} /\ DOMAIN queued = left \cup chosen
  BY <1>4
<1> HIDE DEF left
<1>7. /\ DOMAIN rest = 1..Cardinality(left) /\ Cardinality(left) \in Nat
      /\ \A i \in DOMAIN rest : rest[i] \in left
      /\ \A i, n \in DOMAIN rest : rest[i] = rest[n] => i = n
      /\ \A x \in left : \E i \in DOMAIN rest : rest[i] = x
  BY <1>5, ListingCovers
<1>8. queued' \in Seq(Targets) /\ DOMAIN queued' = DOMAIN rest
  BY <1>2, <1>4, <1>6, <1>7
<1>9. \A i \in DOMAIN queued' : queued'[i] = queued[rest[i]]
  BY <1>2, <1>8
<1>10. Unrepeated(queued')
  BY <1>4, <1>6, <1>7, <1>8, <1>9 DEF Unrepeated
<1>11. ToSet(queued') = {queued[i] : i \in left}
  BY <1>7, <1>8, <1>9 DEF ToSet
<1>12. ToSet(queued) = {queued[i] : i \in left} \cup {queued[i] : i \in chosen}
  BY <1>6 DEF ToSet
<1>13. {queued[i] : i \in left} \cap {queued[i] : i \in chosen} = {}
  BY <1>4, <1>6 DEF Unrepeated
<1>14. probing' \subseteq Targets
  BY <1>1, <1>4 DEF RecoveryInv, HealthTypes
<1>15. failed \subseteq ToSet(queued) \cup probing /\ ToSet(queued) \cap probing = {} /\ failed \subseteq Targets
  BY DEF RecoveryInv, HealthTypes, RecoveryPending
<1> QED
  BY <1>1, <1>3, <1>8, <1>10, <1>11, <1>12, <1>13, <1>14, <1>15, QueueChanged

LEMMA WarmEndStep ==
    ASSUME RecoveryInv, NEW t \in Targets, WarmEnd(t)
    PROVE  RecoveryInv'
<1>1. /\ t \in probing /\ probing' = probing \ {t} /\ UNCHANGED <<activated, routes>>
      /\ \/ failed' = failed \ {t} /\ queued' = queued
         \/ failed' = failed \cup {t} /\ queued' = Append(queued, t)
  BY DEF WarmEnd, Requeued
<1>2. /\ queued \in Seq(Targets) /\ Unrepeated(queued) /\ ToSet(queued) \cap probing = {}
      /\ failed \subseteq ToSet(queued) \cup probing /\ failed \subseteq Targets
      /\ probing \subseteq Targets
  BY DEF RecoveryInv, HealthTypes, RecoveryPending, Unrepeated
<1>3. CASE failed' = failed \ {t} /\ queued' = queued
  BY <1>1, <1>2, <1>3, QueueChanged
<1>4. CASE failed' = failed \cup {t} /\ queued' = Append(queued, t)
  <2>1. <<t>> \in Seq(Targets) /\ Unrepeated(<<t>>) /\ ToSet(<<t>>) = {t}
    BY DEF Unrepeated, ToSet
  <2>2. queued' = queued \o <<t>>
    BY <1>2, <1>4
  <2>3. queued' \in Seq(Targets) /\ ToSet(queued') = ToSet(queued) \cup {t} /\ Unrepeated(queued')
    <3> DEFINE one == <<t>>
    <3>1. one \in Seq(Targets) /\ Unrepeated(one) /\ ToSet(one) = {t} /\ queued' = queued \o one
      BY <2>1, <2>2
    <3> HIDE DEF one
    <3>2. queued' \in Seq(Targets) /\ ToSet(queued') = ToSet(queued) \cup {t}
      BY <1>2, <3>1, JoinedFacts
    <3>3. ToSet(queued) \cap ToSet(one) = {}
      BY <1>1, <1>2, <3>1
    <3>4. Unrepeated(queued')
      BY <1>2, <3>1, <3>3, JoinedUnrepeated
    <3> QED
      BY <3>2, <3>4
  <2> QED
    BY <1>1, <1>2, <1>4, <2>3, QueueChanged
<1> QED
  BY <1>1, <1>3, <1>4

LEMMA RecoveryStep ==
    ASSUME RecoveryInv, [HealthNext]_healthVars
    PROVE  RecoveryInv'
<1>1. CASE AppendActivated
  BY <1>1, AppendStep
<1>2. CASE WarmStart
  BY <1>2, WarmStartStep
<1>3. CASE \E t \in Targets : WarmEnd(t)
  BY <1>3, WarmEndStep
<1>4. CASE \E r \in Routes : Activate(r)
  BY <1>4 DEF Activate, RecoveryInv, HealthTypes, TakenUp, RecoveryPending, ToSet
<1>5. CASE \/ \E rs \in SUBSET Routes, cs \in {{}} \cup {{c} : c \in Chains} :
                \E kept \in {{t \in Targets : RouteOf[t] \in Routes \ rs}, Targets} : Install(rs, cs, kept)
           \/ DropOwner
  <2>1. queued' = <<>> /\ failed' = {} /\ probing' = {} /\ routes' = {}
    BY <1>5 DEF Install, DropOwner
  <2> QED
    BY <2>1 DEF RecoveryInv, HealthTypes, TakenUp, RecoveryPending, ToSet
<1>6. CASE \/ \E r \in Routes : Select(r)
           \/ \E s \in Sites : Observe(s) \/ Report(s) \/ Outage(s)
           \/ \E t \in Targets : CheckElsewhere(t)
           \/ \E c \in Chains : Prioritize(c)
           \/ Tick
           \/ UNCHANGED healthVars
  <2>1. UNCHANGED <<activated, routes, queued, failed, probing>>
    BY <1>6 DEF Select, Observe, Report, Outage, CheckElsewhere, Prioritize, Tick, passVars, healthVars
  <2> QED
    BY <2>1, QueueKept
<1> QED
  BY <1>1, <1>2, <1>3, <1>4, <1>5, <1>6 DEF HealthNext

\* Each endpoint kept out of the candidates has exactly one check pending, for
\* any number of endpoints and routes: none is excluded for good, none is
\* checked twice at once.
THEOREM ExcludedIsRetried == HealthSpec => []RecoveryPending
<1>1. RecoveryInv => RecoveryPending
  BY DEF RecoveryInv
<1> QED
  BY <1>1, RecoveryInit, RecoveryStep, PTL DEF HealthSpec

----------------------------------------------------------------------------
(* The pause before a retry                                                *)

LEMMA SmallerOf ==
    ASSUME NEW a \in Int, NEW b \in Int
    PROVE  Min({a, b}) = IF a <= b THEN a ELSE b
<1> DEFINE m == IF a <= b THEN a ELSE b
<1>1. m \in {a, b} /\ \A y \in {a, b} : m <= y
  OBVIOUS
<1>2. \A x \in {a, b} : (\A y \in {a, b} : x <= y) => x = m
  OBVIOUS
<1> HIDE DEF m
<1>3. Min({a, b}) = m
  BY <1>1, <1>2, Zenon DEF Min
<1> QED
  BY <1>3 DEF m

\* A profile whose level has not passed the saturated one.
Leveled(p) ==
    /\ DOMAIN p = {"failures", "cooldown", "level"}
    /\ p = [failures |-> p.failures, cooldown |-> p.cooldown, level |-> p.level]
    /\ p.cooldown \in Int /\ p.level \in 0..MaxLevel

\* A withdrawal has a pause, the first one and that at the saturated level.
LEMMA WithdrawFacts ==
    ASSUME NEW p, Leveled(p)
    PROVE  Leveled(Withdraw(p)) /\ Withdrawn(Withdraw(p))
<1> DEFINE level == Min({p.level + 1, MaxLevel})
           e == Min({level - 1, MaxExponent})
<1>1. p.level \in Nat /\ p.level <= MaxLevel /\ MaxLevel \in Nat \ {0} /\ MaxExponent \in Nat
      /\ Base \in Nat \ {0} /\ MaxCooldown \in Nat \ {0}
  BY HealthAssumption DEF Leveled
<1>2. level = IF p.level + 1 <= MaxLevel THEN p.level + 1 ELSE MaxLevel
  BY <1>1, SmallerOf
<1>3. level \in 1..MaxLevel
  <2> HIDE DEF level
  <2> QED BY <1>1, <1>2
<1>4. e \in 0..MaxExponent
  <2> HIDE DEF level
  <2>1. e = IF level - 1 <= MaxExponent THEN level - 1 ELSE MaxExponent
    BY <1>1, <1>3, SmallerOf
  <2> HIDE DEF e
  <2> QED BY <1>1, <1>3, <2>1
<1>5. Cooldown(level) \in Nat \ {0}
  <2> DEFINE power == 2^e
  <2>1. power \in Nat \ {0}
    <3> HIDE DEF e
    <3> QED BY <1>4, PowerAssumption
  <2>2. Cooldown(level) = Min({Base * power, MaxCooldown})
    BY DEF Cooldown
  <2> HIDE DEF power
  <2>3. Base * power \in Nat \ {0}
    BY <1>1, <2>1
  <2>4. Cooldown(level) = IF Base * power <= MaxCooldown THEN Base * power ELSE MaxCooldown
    BY <1>1, <2>2, <2>3, SmallerOf
  <2> QED BY <1>1, <2>3, <2>4
<1>6. Withdraw(p) = [failures |-> <<>>, cooldown |-> Cooldown(level), level |-> level]
  BY DEF Withdraw
<1> HIDE DEF level
<1>7. Leveled(Withdraw(p)) /\ Withdraw(p).cooldown = Cooldown(level)
  <2> DEFINE c == Cooldown(level)
  <2>1. c \in Nat \ {0} /\ level \in 0..MaxLevel
    BY <1>3, <1>5
  <2> HIDE DEF c
  <2>2. Withdraw(p) = [failures |-> <<>>, cooldown |-> c, level |-> level]
    BY <1>6 DEF c
  <2>3. Leveled(Withdraw(p)) /\ Withdraw(p).cooldown = c
    BY <2>1, <2>2 DEF Leveled
  <2> QED BY <2>3 DEF c
<1> QED
  BY <1>5, <1>7 DEF Withdrawn

LEMMA ProfileFacts ==
    ASSUME NEW p, Leveled(p)
    PROVE  /\ Leveled(Strike(p)) /\ Withdrawn(Strike(p))
           /\ Leveled(RecordFailure(p)) /\ Leveled(RestoreIfReady(p))
           /\ Leveled(Cleared(p)) /\ Leveled(Aged(p))
<1>1. Leveled(Strike(p)) /\ Withdrawn(Strike(p))
  BY WithdrawFacts DEF Strike
<1>2. \A s : Leveled([p EXCEPT !.failures = s])
  BY DEF Leveled
<1>3. \A c \in Int : Leveled([p EXCEPT !.cooldown = c])
  BY DEF Leveled
<1>4. ASSUME NEW s, NEW c \in Int PROVE Leveled([p EXCEPT !.failures = s, !.cooldown = c])
  <2>1. [p EXCEPT !.failures = s, !.cooldown = c] = [failures |-> s, cooldown |-> c, level |-> p.level]
    <3> DEFINE u == [p EXCEPT !.failures = s]
               v == [u EXCEPT !.cooldown = c]
    <3>1. u = [failures |-> s, cooldown |-> p.cooldown, level |-> p.level]
      BY DEF Leveled
    <3>2. v = [failures |-> s, cooldown |-> c, level |-> p.level]
      <4> HIDE DEF u
      <4> QED BY <3>1
    <3>3. [p EXCEPT !.failures = s, !.cooldown = c] = v
      BY Zenon
    <3> QED
      BY <3>2, <3>3, Zenon
  <2> DEFINE q == [failures |-> s, cooldown |-> c, level |-> p.level]
  <2>2. Leveled(q)
    BY DEF Leveled
  <2> HIDE DEF q
  <2> QED BY <2>1, <2>2 DEF q
<1>5. Leveled(RecordFailure(p))
  BY <1>2, WithdrawFacts DEF RecordFailure
<1>6. Leveled(RestoreIfReady(p)) /\ Leveled(Cleared(p))
  BY <1>3 DEF RestoreIfReady, Cleared, Unset
<1>7. Leveled(Aged(p))
  <2> DEFINE c == IF Withdrawn(p) THEN p.cooldown - 1 ELSE p.cooldown
             s == SelectSeq([i \in DOMAIN p.failures |-> p.failures[i] + 1], LAMBDA a : a <= Window)
  <2>1. c \in Int
    BY DEF Leveled
  <2>2. Aged(p) = [p EXCEPT !.failures = s, !.cooldown = c]
    BY DEF Aged
  <2> HIDE DEF c, s
  <2>3. Leveled([p EXCEPT !.failures = s, !.cooldown = c])
    BY <1>4, <2>1
  <2> QED BY <2>2, <2>3
<1> QED
  BY <1>1, <1>5, <1>6, <1>7

ProfileInv == DOMAIN profile = Sites /\ \A s \in Sites : Leveled(profile[s])

LEMMA ProfileInit == HealthInit => ProfileInv
<1> SUFFICES ASSUME HealthInit PROVE ProfileInv
  OBVIOUS
<1> DEFINE p == [failures |-> <<>>, cooldown |-> Unset, level |-> 0]
<1>1. Leveled(p)
  BY HealthAssumption DEF Leveled, Unset
<1>2. profile = [s \in Sites |-> p]
  BY DEF HealthInit
<1> HIDE DEF p
<1> QED
  BY <1>1, <1>2 DEF ProfileInv

LEMMA ProfileStep ==
    ASSUME ProfileInv, [HealthNext]_healthVars
    PROVE  ProfileInv'
<1>1. CASE profile' = profile
  BY <1>1 DEF ProfileInv
<1>2. CASE \E r \in Routes : Select(r)
  <2>1. PICK r \in Routes : profile' = [s \in Sites |->
           IF \E t \in Of(r) \ failed : SiteOf[t] = s
           THEN RestoreIfReady(profile[s]) ELSE profile[s]]
    BY <1>2 DEF Select
  <2>2. /\ DOMAIN profile' = Sites
        /\ \A s \in Sites : profile'[s] \in {RestoreIfReady(profile[s]), profile[s]}
    BY <2>1
  <2> QED
    BY <2>2, ProfileFacts DEF ProfileInv
<1>3. CASE \E s \in Sites : Observe(s) \/ Report(s)
  <2>1. PICK s \in Sites :
          \/ profile' = [profile EXCEPT ![s] = RecordFailure(profile[s])]
          \/ profile' = [profile EXCEPT ![s] = Cleared(profile[s])]
          \/ profile' = [profile EXCEPT ![s] = Strike(profile[s])]
    BY <1>3 DEF Observe, Report
  <2>2. /\ DOMAIN profile' = Sites
        /\ \A q \in Sites : profile'[q] \in
             {profile[q], RecordFailure(profile[q]), Cleared(profile[q]), Strike(profile[q])}
    BY <2>1 DEF ProfileInv
  <2> QED
    BY <2>2, ProfileFacts DEF ProfileInv
<1>4. CASE \E t \in Targets : WarmEnd(t)
  <2>1. PICK t \in Targets :
          \/ profile' = profile
          \/ profile' = [profile EXCEPT ![SiteOf[t]] = Cleared(profile[SiteOf[t]])]
          \/ profile' = [profile EXCEPT ![SiteOf[t]] = Strike(profile[SiteOf[t]])]
    BY <1>4 DEF WarmEnd
  <2>2. /\ DOMAIN profile' = Sites
        /\ \A q \in Sites : profile'[q] \in {profile[q], Cleared(profile[q]), Strike(profile[q])}
    BY <2>1 DEF ProfileInv
  <2> QED
    BY <2>2, ProfileFacts DEF ProfileInv
<1>5. CASE Tick
  <2>1. DOMAIN profile' = Sites /\ \A s \in Sites : profile'[s] = Aged(profile[s])
    BY <1>5 DEF Tick
  <2> QED
    BY <2>1, ProfileFacts DEF ProfileInv
<1>6. CASE \/ \E r \in Routes : Activate(r)
           \/ \E s \in Sites : Outage(s)
           \/ \E t \in Targets : CheckElsewhere(t)
           \/ AppendActivated
           \/ WarmStart
           \/ \E c \in Chains : Prioritize(c)
           \/ \E rs \in SUBSET Routes, cs \in {{}} \cup {{c} : c \in Chains} :
                \E kept \in {{t \in Targets : RouteOf[t] \in Routes \ rs}, Targets} : Install(rs, cs, kept)
           \/ DropOwner
           \/ UNCHANGED healthVars
  <2>1. profile' = profile
    BY <1>6 DEF Activate, Outage, CheckElsewhere, AppendActivated, WarmStart, Prioritize, Install,
       DropOwner, healthVars
  <2> QED BY <2>1, <1>1
<1> QED
  BY <1>2, <1>3, <1>4, <1>5, <1>6 DEF HealthNext

\* Only the end of its check takes a target that stays excluded out of the
\* pass.
LEMMA CheckFailed ==
    ASSUME HealthNext, NEW t \in Targets, t \in probing, t \notin probing', t \in failed'
    PROVE  WarmEnd(t)
<1>1. CASE \E u \in Targets : WarmEnd(u)
  BY <1>1 DEF WarmEnd
<1>2. CASE \/ \E rs \in SUBSET Routes, cs \in {{}} \cup {{c} : c \in Chains} :
                \E kept \in {{u \in Targets : RouteOf[u] \in Routes \ rs}, Targets} : Install(rs, cs, kept)
           \/ DropOwner
  <2>1. failed' = {}
    BY <1>2 DEF Install, DropOwner
  <2> QED BY <2>1
<1>3. CASE WarmStart
  <2>1. probing \subseteq probing'
    BY <1>3 DEF WarmStart
  <2> QED BY <2>1
<1>4. CASE \/ \E r \in Routes : Select(r) \/ Activate(r)
           \/ \E s \in Sites : Observe(s) \/ Report(s) \/ Outage(s)
           \/ \E u \in Targets : CheckElsewhere(u)
           \/ AppendActivated
           \/ \E c \in Chains : Prioritize(c)
           \/ Tick
  <2>1. probing' = probing
    BY <1>4 DEF Select, Activate, Observe, Report, Outage, CheckElsewhere, AppendActivated,
       Prioritize, Tick, passVars
  <2> QED BY <2>1
<1> QED
  BY <1>1, <1>2, <1>3, <1>4 DEF HealthNext

\* A check that failed is not repeated at once: the profile is withdrawn when the
\* target returns to the queue, whatever moved the cooldown while it ran and
\* however far its level has gone.
THEOREM RetryWaits == HealthSpec => RetryBacksOff
<1>1. ProfileInv /\ [HealthNext]_healthVars =>
        [\A t \in Targets : t \in probing /\ t \notin probing' /\ t \in failed' =>
            Withdrawn(profile'[SiteOf[t]])]_healthVars
  <2> SUFFICES ASSUME ProfileInv, HealthNext, NEW t \in Targets,
                      t \in probing, t \notin probing', t \in failed'
               PROVE  Withdrawn(profile'[SiteOf[t]])
    OBVIOUS
  <2>1. profile' = [profile EXCEPT ![SiteOf[t]] = Strike(profile[SiteOf[t]])]
    BY CheckFailed DEF WarmEnd
  <2>2. SiteOf[t] \in Sites
    BY HealthAssumption
  <2>3. profile'[SiteOf[t]] = Strike(profile[SiteOf[t]])
    BY <2>1, <2>2 DEF ProfileInv
  <2> QED
    BY <2>2, <2>3, ProfileFacts DEF ProfileInv
<1> QED
  BY <1>1, ProfileInit, ProfileStep, PTL DEF HealthSpec, RetryBacksOff
=============================================================================
