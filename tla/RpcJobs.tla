------------------------------ MODULE RpcJobs ------------------------------
(***************************************************************************)
(* How the broker's running jobs share capacity (rpc_broker/capacity.rs,   *)
(* drive_job in execution.rs, pump_ready and start_job in actor.rs).       *)
(*                                                                         *)
(* A job tries the endpoints of its route one after the other, but only    *)
(* endpoints whose chain identity was verified.  It holds a read slot      *)
(* while it reads and a probe runner while it verifies, asks the actor for *)
(* either through a channel, gives a slot back while it waits, and parks   *)
(* until a probe, another job or a check outside the broker verifies an    *)
(* endpoint.  Everyone waits for somebody else's wake-up here: what can go *)
(* wrong is a wake-up lost between a check and a wait, a slot kept by a    *)
(* job that waits, and a count that drifts from the slots held.            *)
(*                                                                         *)
(* The actor polls its jobs itself, so no job runs while it pumps; checks  *)
(* outside the broker and deadlines come at any time.  One route; each job *)
(* has one member.  Which job gets a free read slot is ReadyScheduler's    *)
(* choice, any job here.  A request whose job stopped waiting is ignored   *)
(* by the actor, so it leaves the queues at once.                          *)
(***************************************************************************)
EXTENDS Integers, Sequences, FiniteSets, SequencesExt

CONSTANTS
    Jobs,        \* jobs
    Joinable,    \* jobs that later callers may join
    Endpoints,   \* endpoints of the route, all subject to identity checks
    MaxInFlight, \* max_in_flight: read slots
    ProbeLimit,  \* probe runners, probes of one job, and probe permits
    None         \* no endpoint

ASSUME JobsAssumption ==
    /\ MaxInFlight \in Nat \ {0}
    /\ ProbeLimit \in Nat \ {0}
    /\ None \notin Endpoints
    /\ Joinable \subseteq Jobs
    /\ IsFiniteSet(Jobs) /\ IsFiniteSet(Endpoints)

VARIABLES
    pc,          \* where each job is
    live,        \* jobs whose caller has not timed out
    cand,        \* candidates of each job
    probe,       \* probe futures of each job: "none", "budget" or "check"
    at,          \* the endpoint a job is trying
    sent,        \* jobs that made an attempt
    result,      \* outcome of each job so far
    slots,       \* JobSlots: slots each job holds
    held,        \* CapacityLedger: count of each kind of slot
    grant,       \* the job's receiver for each kind of slot
    channel,     \* slot_rx: <<job, kind>> requests
    queue,       \* scheduled jobs that have not started
    resumes,     \* jobs scheduled to read again
    runnerQ,     \* runner_waiters
    verified,    \* endpoints that passed an identity check
    notice,      \* the job's Notified: "none", "armed" or "fired"
    ledgerWake,  \* CapacityLedger::changed has a permit
    watching,    \* the actor's select watches the route's checks
    checkWake,   \* and one fired
    actor        \* "idle", in pump_ready ("reads", "runners"), "draining"

jobVars == <<pc, cand, probe, at, sent, result>>
capacity == <<slots, held, grant, channel, runnerQ, resumes, ledgerWake>>
vars == <<pc, live, cand, probe, at, sent, result, slots, held, grant, channel, queue,
          resumes, runnerQ, verified, notice, ledgerWake, watching, checkWake, actor>>

Kinds == {"read", "runner"}
Limit(k) == IF k = "read" THEN MaxInFlight ELSE ProbeLimit

With(f, j, v) == [f EXCEPT ![j] = v]
Probes(j) == {e \in Endpoints : probe[j][e] # "none"}
Polling(j) == pc[j] \in {"waitRead", "waitProbe", "attempt"}
Running(j) == pc[j] \in {"top", "decide", "waitRead", "waitRunner", "waitProbe", "attempt"}

-----------------------------------------------------------------------------
(* Slots *)

\* JobSlots::acquire and release: counted only when the flag changes.
Acquire(j, ks) ==
    /\ slots' = [slots EXCEPT ![j] = @ \cup ks]
    /\ held' = [k \in Kinds |-> held[k] + IF k \in ks \ slots[j] THEN 1 ELSE 0]

HeldWithout(j, ks) == [k \in Kinds |-> held[k] - IF k \in ks \cap slots[j] THEN 1 ELSE 0]
WokenNever(j, ks) == ledgerWake
Woken(j, ks) == ledgerWake \/ ks \cap slots[j] # {}
Release(j, ks) ==
    /\ slots' = [slots EXCEPT ![j] = @ \ ks]
    /\ held' = HeldWithout(j, ks)
    /\ ledgerWake' = Woken(j, ks)

\* A queue without the requests of j for slots of ks, at most one of each kind.
WithoutNone(q, j, ks) == q
Without(q, j, ks) ==
    LET gone(s, k) == IF k \in ks THEN RemoveFirst(s, <<j, k>>) ELSE s
    IN gone(gone(q, "read"), "runner")

-----------------------------------------------------------------------------
(* The actor *)

ReadReady == verified # {}

\* The loop top: the actor subscribes to the checks queued work waits for,
\* then pumps; work whose callers are all late leaves first (expire_ready).
\* q is the queue after the handler, st and res the jobs' places and results.
Pump(q, st, res) ==
    LET late == {j \in ToSet(q) : j \notin live}
    IN /\ watching' = (q # <<>> /\ ~ReadReady)
       /\ checkWake' = FALSE
       /\ queue' = IF late = {} THEN q ELSE SelectSeq(q, LAMBDA j : j \in live)
       /\ pc' = [j \in Jobs |-> IF j \in late THEN "done" ELSE st[j]]
       /\ result' = [j \in Jobs |-> IF j \in late THEN "undispatched" ELSE res[j]]
       /\ actor' = "reads"

\* flush admits new work.
Submit(j) ==
    /\ actor = "idle"
    /\ pc[j] = "new"
    /\ Pump(Append(queue, j), With(pc, j, "queued"), result)
    /\ UNCHANGED <<live, cand, probe, at, sent, capacity, verified, notice>>

\* slot_rx.recv()
Receive ==
    /\ actor = "idle"
    /\ channel # <<>>
    /\ LET r == Head(channel)
       IN /\ resumes' = IF r[2] = "read" THEN resumes \cup {r[1]} ELSE resumes
          /\ runnerQ' = IF r[2] = "runner" THEN Append(runnerQ, r) ELSE runnerQ
    /\ channel' = Tail(channel)
    /\ Pump(queue, pc, result)
    /\ UNCHANGED <<live, cand, probe, at, sent, slots, held, grant, verified,
                   notice, ledgerWake>>

\* ledger.changed(), a watched check, or the timer of a queued deadline.
Wake ==
    /\ actor = "idle"
    /\ ledgerWake \/ checkWake \/ ~(ToSet(queue) \subseteq live)
    /\ ledgerWake' = FALSE
    /\ Pump(queue, pc, result)
    /\ UNCHANGED <<live, cand, probe, at, sent, slots, held, grant, channel, runnerQ,
                   resumes, verified, notice>>

\* SlotRequest::grant
Grant(j, k) ==
    /\ Acquire(j, {k})
    /\ grant' = [grant EXCEPT ![j][k] = "granted"]

\* start_job: work that is late by now is answered, otherwise the job starts
\* with the slots ks.
Start(j, ks) ==
    /\ queue' = RemoveFirst(queue, j)
    /\ IF j \in live
       THEN /\ Acquire(j, ks)
            /\ pc' = With(pc, j, "top")
            /\ UNCHANGED result
       ELSE /\ pc' = With(pc, j, "done")
            /\ result' = With(result, j, "undispatched")
            /\ UNCHANGED <<slots, held>>

\* A runner beside the read slot, unless jobs already wait for one.
RunnerUnbounded == Endpoints \ verified # {}
RunnerToo ==
    Endpoints \ verified # {} /\ held["runner"] + Len(runnerQ) < ProbeLimit

PumpRead ==
    /\ actor = "reads"
    /\ held["read"] < MaxInFlight
    /\ \/ \E j \in resumes :
            /\ Grant(j, "read")
            /\ resumes' = resumes \ {j}
            /\ UNCHANGED <<queue, pc, result>>
       \/ \E j \in Jobs :
            /\ j \in ToSet(queue)
            /\ ReadReady
            /\ Start(j, {"read"} \cup (IF RunnerToo THEN {"runner"} ELSE {}))
            /\ UNCHANGED <<grant, resumes>>
    /\ UNCHANGED <<live, cand, probe, at, sent, channel, runnerQ, verified, notice,
                   ledgerWake, watching, checkWake, actor>>

PumpReadsDone ==
    /\ actor = "reads"
    /\ \/ held["read"] >= MaxInFlight
       \/ resumes = {} /\ (queue = <<>> \/ ~ReadReady)
    /\ actor' = "runners"
    /\ UNCHANGED <<jobVars, live, capacity, queue, verified, notice, watching, checkWake>>

\* Waiting jobs first, then the oldest work that cannot read yet.
PumpRunner ==
    /\ actor = "runners"
    /\ held["runner"] < ProbeLimit
    /\ \/ /\ runnerQ # <<>>
          /\ Grant(Head(runnerQ)[1], "runner")
          /\ runnerQ' = Tail(runnerQ)
          /\ UNCHANGED <<queue, pc, result>>
       \/ /\ runnerQ = <<>>
          /\ queue # <<>>
          /\ ~ReadReady
          /\ \E j \in Jobs : j = Head(queue) /\ Start(j, {"runner"})
          /\ UNCHANGED <<grant, runnerQ>>
    /\ UNCHANGED <<live, cand, probe, at, sent, channel, resumes, verified, notice,
                   ledgerWake, watching, checkWake, actor>>

PumpDone ==
    /\ actor = "runners"
    /\ \/ held["runner"] >= ProbeLimit
       \/ runnerQ = <<>> /\ (queue = <<>> \/ ReadReady)
    /\ actor' = "idle"
    /\ UNCHANGED <<jobVars, live, capacity, queue, verified, notice, watching, checkWake>>

\* The last handle is gone: queued work fails, and so does every request.
Shutdown ==
    /\ actor = "idle"
    /\ actor' = "draining"
    /\ pc' = [j \in Jobs |-> IF pc[j] = "queued" THEN "done" ELSE pc[j]]
    /\ result' = [j \in Jobs |-> IF pc[j] = "queued" THEN "shutdown" ELSE result[j]]
    /\ grant' = [j \in Jobs |-> [k \in Kinds |->
                   IF grant[j][k] = "open" THEN "failed" ELSE grant[j][k]]]
    /\ channel' = <<>>
    /\ queue' = <<>>
    /\ resumes' = {}
    /\ runnerQ' = <<>>
    /\ UNCHANGED <<live, cand, probe, at, sent, slots, held, verified, notice, ledgerWake,
                   watching, checkWake>>

-----------------------------------------------------------------------------
(* A job: drive_job *)

Turn(j, place) == actor \in {"idle", "draining"} /\ pc[j] = place

\* The job ends: its probes, requests and slots go with it, and the actor
\* completes it and pumps.
Finish(j, res) ==
    /\ Release(j, Kinds)
    /\ grant' = With(grant, j, [k \in Kinds |-> "none"])
    /\ channel' = Without(channel, j, Kinds)
    /\ runnerQ' = Without(runnerQ, j, Kinds)
    /\ resumes' = resumes \ {j}
    /\ probe' = With(probe, j, [e \in Endpoints |-> "none"])
    /\ notice' = With(notice, j, "none")
    /\ IF actor = "idle" THEN Pump(queue, With(pc, j, "done"), With(result, j, res))
       ELSE /\ pc' = With(pc, j, "done")
            /\ result' = With(result, j, res)
            /\ UNCHANGED <<actor, queue, watching, checkWake>>

\* Failover::live without a caller left, and Failover::shut_down.
LateResult(j) == IF j \in sent THEN result[j] ELSE "undispatched"
ShutdownResult(j) == IF j \in sent THEN result[j] ELSE "shutdown"

\* The loop top: listen for checks, then look for endpoints verified since.
Top(j) ==
    /\ Turn(j, "top")
    /\ \/ /\ j \in live
          /\ notice' = With(notice, j, "armed")
          /\ cand' = With(cand, j, [e \in Endpoints |->
                       IF cand[j][e] \in {"unprobed", "probing"} /\ e \in verified
                       THEN "ready" ELSE cand[j][e]])
          /\ pc' = With(pc, j, "decide")
          /\ UNCHANGED <<probe, result, capacity, queue, watching, checkWake, actor>>
       \/ /\ j \notin live
          /\ Finish(j, LateResult(j))
          /\ UNCHANGED cand
    /\ UNCHANGED <<live, at, sent, verified>>

InState(j, st) == {e \in Endpoints : cand[j][e] = st}

\* may_refill and refill_probes: the endpoints new probes are started for.
\* holding: the job has received the grant of its runner.
MayRefill(j, holding) == holding /\ "runner" \in slots[j]
Refills(j, holding) ==
    LET room == ProbeLimit - Cardinality(Probes(j))
        unprobed == InState(j, "unprobed")
    IN {new \in SUBSET unprobed :
          Cardinality(new) = IF ~MayRefill(j, holding) THEN 0
                             ELSE IF Cardinality(unprobed) < room
                                  THEN Cardinality(unprobed) ELSE room}
Probing(c, new) == [e \in Endpoints |-> IF e \in new THEN "probing" ELSE c[e]]
Started(p, new) == [e \in Endpoints |-> IF e \in new THEN "budget" ELSE p[e]]

\* What Decide does whatever follows: from the candidates c, probes for new start, the receivers and
\* slots of drop are given up, and the slots of ask are requested.
Settle(j, c, new, drop, ask) ==
    /\ cand' = With(cand, j, Probing(c, new))
    /\ probe' = With(probe, j, Started(probe[j], new))
    /\ Release(j, drop)
    /\ grant' = With(grant, j, [k \in Kinds |->
                  CASE k \in ask -> "open"
                    [] k \in drop -> "none"
                    [] OTHER -> IF k = "runner" /\ grant[j][k] = "granted"
                                THEN "none" ELSE grant[j][k]])
    /\ channel' = Without(channel, j, drop)
                    \o (IF ask = {} THEN <<>> ELSE <<<<j, CHOOSE k \in ask : TRUE>>>>)
    /\ runnerQ' = Without(runnerQ, j, drop)
    /\ resumes' = IF "read" \in drop THEN resumes \ {j} ELSE resumes

\* Slots a job that waits for a verified endpoint gives up.
ParkDrops == {"read"}

\* The Notified a parking job waits on: the one of its loop top.
NoticeAtPark(j) == "armed"
ParkNotice(j) == notice[j]

Decide(j) ==
    /\ Turn(j, "decide")
    /\ \E new \in Refills(j, grant[j]["runner"] \in {"none", "granted"}) :
         LET probed == Probes(j) \cup new # {}
             spent == ~probed /\ InState(j, "unprobed") \subseteq new
             unrun == IF spent THEN {"runner"} ELSE {}
             ready == InState(j, "ready")
             asks(k) == grant[j][k] = "none"
         IN \* request a read slot, or keep waiting for it
            \/ /\ ready # {}
               /\ grant[j]["read"] # "none" \/ "read" \notin slots[j]
               /\ asks("read") => actor = "idle"
               /\ Settle(j, cand[j], new, unrun, IF asks("read") THEN {"read"} ELSE {})
               /\ pc' = With(pc, j, "waitRead")
               /\ UNCHANGED <<at, result, notice, queue, watching, checkWake, actor>>
            \* try an endpoint
            \/ /\ grant[j]["read"] = "none" /\ "read" \in slots[j]
               /\ \E e \in ready :
                    /\ Settle(j, [cand[j] EXCEPT ![e] = "tried"], new, unrun, {})
                    /\ at' = With(at, j, e)
                    /\ pc' = With(pc, j, "attempt")
               /\ UNCHANGED <<result, notice, queue, watching, checkWake, actor>>
            \* no endpoint can be tried any more
            \/ /\ ready = {} /\ spent
               /\ Finish(j, result[j])
               /\ UNCHANGED <<at, cand>>
            \* park until an endpoint is verified
            \/ /\ ready = {} /\ ~spent
               /\ ~probed /\ asks("runner") => actor = "idle"
               /\ Settle(j, cand[j], new, ParkDrops, IF ~probed /\ asks("runner") THEN {"runner"} ELSE {})
               /\ notice' = With(notice, j, ParkNotice(j))
               /\ pc' = With(pc, j, IF probed THEN "waitProbe" ELSE "waitRunner")
               /\ UNCHANGED <<at, result, queue, watching, checkWake, actor>>
            \* a request to an actor that has shut down
            \/ /\ actor = "draining"
               /\ \/ ready # {} /\ asks("read") /\ "read" \notin slots[j]
                  \/ ready = {} /\ ~spent /\ ~probed /\ asks("runner")
               /\ Finish(j, ShutdownResult(j))
               /\ UNCHANGED <<at, cand>>
    /\ UNCHANGED <<live, sent, verified>>

\* The awaited grant arrives, or the actor dropped the request.
Granted(j, k) ==
    /\ Turn(j, IF k = "read" THEN "waitRead" ELSE "waitRunner")
    /\ \/ /\ grant[j][k] = "granted"
          /\ grant' = [grant EXCEPT ![j][k] = "none"]
          /\ pc' = With(pc, j, "top")
          /\ UNCHANGED <<probe, result, slots, held, channel, runnerQ, resumes, ledgerWake,
                         notice, queue, watching, checkWake, actor>>
       \/ /\ grant[j][k] = "failed"
          /\ Finish(j, ShutdownResult(j))
    /\ UNCHANGED <<live, cand, at, sent, verified>>

\* A parked job hears of a verified endpoint, or a waiting one of its deadline.
Woke(j) ==
    /\ \/ \E w \in {"waitRunner", "waitProbe"} : Turn(j, w) /\ notice[j] = "fired"
       \/ \E w \in {"waitRead", "waitRunner", "waitProbe"} : Turn(j, w) /\ j \notin live
    /\ pc' = With(pc, j, "top")
    /\ UNCHANGED <<live, cand, probe, at, sent, result, capacity, queue, verified, notice,
                   watching, checkWake, actor>>

\* One physical attempt: a value, an error worth trying elsewhere, any other
\* error, or no permit before every caller was late.
Attempt(j, out) ==
    /\ Turn(j, "attempt")
    /\ out = "undispatched" => j \notin live
    /\ \/ /\ out = "failover"
          /\ sent' = sent \cup {j}
          /\ result' = With(result, j, "error")
          /\ pc' = With(pc, j, "top")
          /\ UNCHANGED <<probe, capacity, queue, notice, watching, checkWake, actor>>
       \/ /\ out # "failover"
          /\ sent' = IF out = "undispatched" THEN sent ELSE sent \cup {j}
          /\ Finish(j, IF out = "undispatched" THEN LateResult(j) ELSE out)
    /\ at' = With(at, j, None)
    /\ UNCHANGED <<live, cand, verified>>

-----------------------------------------------------------------------------
(* Identity probes *)

\* A successful check wakes the jobs and the actor listening on the route.
Announce ==
    /\ notice' = [j \in Jobs |-> IF notice[j] = "armed" THEN "fired" ELSE notice[j]]
    /\ checkWake' = (checkWake \/ watching)

\* acquire_live_permit
ProbePermit(j, e) ==
    /\ actor \in {"idle", "draining"} /\ Polling(j)
    /\ probe[j][e] = "budget"
    /\ j \in live
    /\ Cardinality({x \in Jobs \X Endpoints : probe[x[1]][x[2]] = "check"}) < ProbeLimit
    /\ probe' = [probe EXCEPT ![j][e] = "check"]
    /\ UNCHANGED <<pc, live, cand, at, sent, result, capacity, queue, verified, notice,
                   watching, checkWake, actor>>

\* The states a finished probe may be in, and what ProbeTarget::apply records
\* if the candidate was still waiting for it.
MayEnd(j, e, out) ==
    CASE out = "undispatched" -> j \notin live
      [] out = "verified" -> probe[j][e] = "check" \/ e \in verified
      [] out = "failed" -> probe[j][e] = "check" /\ e \notin verified
RecordedReady(j, e, out) ==
    IF cand[j][e] = "probing" /\ out # "undispatched" THEN "ready" ELSE cand[j][e]
Recorded(j, e, out) ==
    IF cand[j][e] # "probing" THEN cand[j][e]
    ELSE CASE out = "verified" -> "ready" [] out = "failed" -> "rejected"
           [] out = "undispatched" -> "unprobed"

\* An attempt goes on beside the probes, and takes new ones up.
ProbeEnds(j, e, out) ==
    /\ actor \in {"idle", "draining"} /\ Polling(j)
    /\ probe[j][e] # "none"
    /\ MayEnd(j, e, out)
    /\ LET c == [cand[j] EXCEPT ![e] = Recorded(j, e, out)]
           p == [probe[j] EXCEPT ![e] = "none"]
           open == {x \in Endpoints : c[x] = "unprobed"}
           room == ProbeLimit - (Cardinality(Probes(j)) - 1)
       IN \E new \in SUBSET open :
            /\ Cardinality(new) =
                 IF pc[j] = "attempt" /\ MayRefill(j, grant[j]["runner"] = "none")
                 THEN (IF Cardinality(open) < room THEN Cardinality(open) ELSE room) ELSE 0
            /\ cand' = With(cand, j, Probing(c, new))
            /\ probe' = With(probe, j, Started(p, new))
    /\ pc' = IF pc[j] = "attempt" THEN pc ELSE With(pc, j, "top")
    /\ IF out = "verified"
       THEN /\ verified' = verified \cup {e}
            /\ ledgerWake' = TRUE
            /\ Announce
       ELSE UNCHANGED <<verified, ledgerWake, notice, checkWake>>
    /\ UNCHANGED <<live, at, sent, result, slots, held, grant, channel, runnerQ, resumes,
                   queue, watching, actor>>

\* A check made outside the broker.
OutsideCheck(e) ==
    /\ e \notin verified
    /\ verified' = verified \cup {e}
    /\ Announce
    /\ UNCHANGED <<jobVars, live, capacity, queue, watching, actor>>

\* The last caller of a job times out.
Late(j) ==
    /\ j \in live
    /\ pc[j] \notin {"new", "done"}
    /\ live' = live \ {j}
    /\ UNCHANGED <<jobVars, capacity, queue, verified, notice, watching, checkWake, actor>>

\* A later caller joins the work of a job (WaiterState::add).
Join(j) ==
    /\ j \in Joinable \ live
    /\ pc[j] # "done"
    /\ live' = live \cup {j}
    /\ UNCHANGED <<jobVars, capacity, queue, verified, notice, watching, checkWake, actor>>

-----------------------------------------------------------------------------
Init ==
    /\ pc = [j \in Jobs |-> "new"]
    /\ live = Jobs
    /\ cand = [j \in Jobs |-> [e \in Endpoints |-> "unprobed"]]
    /\ probe = [j \in Jobs |-> [e \in Endpoints |-> "none"]]
    /\ at = [j \in Jobs |-> None]
    /\ sent = {}
    /\ result = [j \in Jobs |-> "no endpoint"]
    /\ slots = [j \in Jobs |-> {}]
    /\ held = [k \in Kinds |-> 0]
    /\ grant = [j \in Jobs |-> [k \in Kinds |-> "none"]]
    /\ channel = <<>>
    /\ queue = <<>>
    /\ resumes = {}
    /\ runnerQ = <<>>
    /\ verified = {}
    /\ notice = [j \in Jobs |-> "none"]
    /\ ledgerWake = FALSE
    /\ watching = FALSE
    /\ checkWake = FALSE
    /\ actor = "idle"

Outcomes == {"value", "failover", "error", "undispatched"}
ProbeOutcomes == {"verified", "failed", "undispatched"}

JobStep(j) ==
    \/ Top(j)
    \/ Decide(j)
    \/ \E k \in Kinds : Granted(j, k)
    \/ Woke(j)
    \/ \E out \in Outcomes : Attempt(j, out)
    \/ \E e \in Endpoints : ProbePermit(j, e)
    \/ \E e \in Endpoints, out \in ProbeOutcomes : ProbeEnds(j, e, out)

ActorStep == Receive \/ Wake \/ PumpRead \/ PumpReadsDone \/ PumpRunner \/ PumpDone

Next ==
    \/ \E j \in Jobs : Submit(j) \/ Late(j) \/ Join(j)
    \/ ActorStep
    \/ \E j \in Jobs : JobStep(j)
    \/ \E e \in Endpoints : OutsideCheck(e)
    \/ Shutdown

Spec == Init /\ [][Next]_vars

-----------------------------------------------------------------------------
(* Properties *)

\* The type invariant.
TypeOK ==
    /\ pc \in [Jobs -> {"new", "queued", "top", "decide", "waitRead", "waitRunner",
                        "waitProbe", "attempt", "done"}]
    /\ live \subseteq Jobs /\ sent \subseteq Jobs /\ resumes \subseteq Jobs
    /\ cand \in [Jobs -> [Endpoints -> {"ready", "unprobed", "probing", "rejected", "tried"}]]
    /\ probe \in [Jobs -> [Endpoints -> {"none", "budget", "check"}]]
    /\ at \in [Jobs -> Endpoints \cup {None}]
    /\ result \in [Jobs -> {"no endpoint", "value", "error", "undispatched", "shutdown"}]
    /\ slots \in [Jobs -> SUBSET Kinds]
    /\ held \in [Kinds -> Nat]
    /\ grant \in [Jobs -> [Kinds -> {"none", "open", "granted", "failed"}]]
    /\ channel \in Seq(Jobs \X Kinds) /\ runnerQ \in Seq(Jobs \X Kinds)
    /\ queue \in Seq(Jobs)
    /\ verified \subseteq Endpoints
    /\ notice \in [Jobs -> {"none", "armed", "fired"}]
    /\ ledgerWake \in BOOLEAN /\ watching \in BOOLEAN /\ checkWake \in BOOLEAN
    /\ actor \in {"idle", "reads", "runners", "draining"}

\* Whatever is granted, dropped, released twice or ended, the ledger counts
\* exactly the slots jobs hold, and never more than the limits.
LedgerExact ==
    \A k \in Kinds :
        /\ held[k] = Cardinality({j \in Jobs : k \in slots[j]})
        /\ held[k] <= Limit(k)

\* Requested reads only reach endpoints that passed their identity check, and
\* only from a job holding a read slot.
ReadsOnlyVerified ==
    \A j \in Jobs : pc[j] = "attempt" => at[j] \in verified /\ "read" \in slots[j]

\* The actor never sleeps on free capacity that somebody could use: with no
\* wake-up due, a free read slot has no taker and so has a free runner.
NoLostWakeup ==
    actor = "idle" /\ ~ledgerWake /\ ~checkWake /\ channel = <<>> =>
        /\ held["read"] < MaxInFlight => resumes = {} /\ (queue = <<>> \/ ~ReadReady)
        /\ held["runner"] < ProbeLimit => runnerQ = <<>> /\ (queue = <<>> \/ ReadReady)

\* A parked job never misses an endpoint verified by somebody else, even one
\* verified between its own check and its wait.
ParkedHears ==
    \A j \in Jobs :
        pc[j] \in {"waitRunner", "waitProbe"} /\ notice[j] # "fired" =>
            \A e \in verified : cand[j][e] \in {"tried", "rejected"}

\* Jobs never all wait on one another: as long as one is unfinished, the actor
\* or some job can take a step without a new caller, an outside check or a
\* shutdown.
SomebodyMoves ==
    (\E j \in Jobs : pc[j] \notin {"new", "done"}) =>
        ENABLED (ActorStep \/ \E j \in Jobs : JobStep(j))
=============================================================================
