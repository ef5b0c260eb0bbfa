----------------------------- MODULE RpcBroker -----------------------------
(***************************************************************************)
(* The shared Ethereum read broker: callers of RpcBroker::submit, the      *)
(* actor that batches, shares, queues and answers their reads, and the     *)
(* jobs it runs (rpc_broker/broker.rs, actor.rs, resolution.rs).           *)
(*                                                                         *)
(* The actor is one task and polls its jobs itself, so each handler of its *)
(* select loop, and each step of a job, is one action; callers run beside  *)
(* it.  Every handler ends in pump_ready (its own call or the one at the   *)
(* top of the loop), which is part of its action (Pump).                   *)
(*                                                                         *)
(* Routes here are trusted (no identity checks), so a job holds its read   *)
(* slot from start to end; slots and probes are RpcJobs.  A lookup in the  *)
(* read cache may hit for any read answered before; when it may is         *)
(* ReadCache.  Estimated gas is counted as calls.  Deadlines are ticks     *)
(* left, 0 once passed.                                                    *)
(***************************************************************************)
EXTENDS Integers, Sequences, FiniteSets

CONSTANTS
    Subs,         \* submissions, each made once
    Reads,        \* reads, with the route they are sent on
    ReadsOf,      \* the reads of a submission
    TimeoutOf,    \* request_timeout of a submission in ticks, or Never
    RouteOf,      \* the route of a read
    GroupOf,      \* the (route, block) group of a read
    Shareable,    \* reads with is_dedupable
    LatestReads,  \* shareable reads at the latest block
    Batchable,    \* reads that may travel in a multicall
    EmptyRoutes,  \* routes without an endpoint
    Capacity,     \* SUBMISSION_CAPACITY: admission permits and mailbox
    MaxCalls,     \* max_calls of a route
    MaxInFlight,  \* max_in_flight
    Interval,     \* the batching window in ticks
    Never,        \* no deadline
    Anyone        \* the sharer of a deduplicated key (nonce 0)

ASSUME BrokerAssumption ==
    /\ ReadsOf \in [Subs -> SUBSET Reads]
    /\ \A s \in Subs : ReadsOf[s] # {}
    /\ TimeoutOf \in [Subs -> (Nat \ {0}) \cup {Never}]
    /\ LatestReads \subseteq Shareable
    /\ Capacity \in Nat \ {0}
    /\ MaxCalls \in Nat \ {0}
    /\ MaxInFlight \in Nat \ {0}
    /\ Interval \in Nat \ {0}
    /\ Never \notin Nat
    /\ Anyone \notin Subs

VARIABLES
    caller,    \* where the caller of each submission is in RpcBroker::submit
    left,      \* ticks left until the submission's deadline
    credit,    \* submissions holding an admission permit
    mailbox,   \* Command::Submit messages in the actor's channel
    pending,   \* Actor::pending
    flushIn,   \* Actor::next_flush_at, as ticks left
    joined,    \* Actor::active: key -> replies waiting on it ({}: no work)
    queued,    \* ReadyScheduler: entries waiting for a slot, as sets of keys
    running,   \* Actor::jobs: entries running, as sets of keys
    sent,      \* keys of running jobs that were attempted
    dropped,   \* keys of running jobs settled before any attempt
    answer,    \* what each reply sender delivered
    cached,    \* reads answered with a value so far
    actor      \* "open", "draining" (shutdown) or "stopped"

callers == <<caller, credit>>
jobs == <<joined, queued, running, sent, dropped>>
vars == <<caller, left, credit, mailbox, pending, flushIn, joined, queued,
          running, sent, dropped, answer, cached, actor>>

\* A reply sender: one for each read of a submission.
Replies == {p \in Subs \X Reads : p[2] \in ReadsOf[p[1]]}
RepliesOf(ss) == {p \in Replies : p[1] \in ss}

\* A work key: a read of one submission (its nonce), or one that anyone shares.
Keys == {<<p[2], p[1]>> : p \in Replies} \cup (Shareable \X {Anyone})

Results == {"value", "error", "undispatched", "shutdown"}
Unanswered == "none"

Late(s) == left[s] = 0
\* WaiterState: no registration has a deadline ahead of it.
AllLate(ps) == \A p \in ps : Late(p[1])

-----------------------------------------------------------------------------
(* Reply senders: the credit of a submission returns with its last reply. *)

\* ReadReply::send for the replies ps
Answered(ps, res, ans) == [p \in Replies |-> IF p \in ps THEN res ELSE ans[p]]
Outstanding(s, ans) == \E p \in RepliesOf({s}) : ans[p] = Unanswered

\* The credits still held once the answers are ans.
CreditOfCaller(ans) == {s \in credit : caller[s] \in {"send", "wait"} /\ Outstanding(s, ans)}
CreditAfter(ans) == {s \in credit : caller[s] = "send" \/ Outstanding(s, ans)}

-----------------------------------------------------------------------------
(* Scheduling *)

\* partition_and_admit: entries of one group and at most MaxCalls keys; reads
\* that cannot be batched travel alone.
Entries(ks) ==
    {E \in (SUBSET ks) \ {{}} :
        /\ Cardinality(E) <= MaxCalls
        /\ \A k, l \in E : GroupOf[k[1]] = GroupOf[l[1]]
        /\ Cardinality(E) > 1 => \A k \in E : k[1] \in Batchable}

Partitions(ks) ==
    {P \in SUBSET Entries(ks) :
        /\ UNION P = ks
        /\ \A E, F \in P : E # F => E \cap F = {}}

\* Queued keys whose waiters are all late (ReadyScheduler::expire).
ExpiredKeys(j, q) == {k \in UNION q : AllLate(j[k])}
Survivors(q, ks) == {E \ ks : E \in q} \ {{}}

\* complete_job takes retired keys out of the active work.
StillActive(j, ks) == j
Retired(j, ks) == [k \in Keys |-> IF k \in ks THEN {} ELSE j[k]]

NoEndpoint(E) == \E k \in E : RouteOf[k[1]] \in EmptyRoutes

\* The entries S that pump_ready starts of q with run running: entries on a
\* route without endpoints fail at once and take no slot.
MayStart(S, q, run) ==
    LET started == {E \in S : ~NoEndpoint(E)}
    IN /\ S \subseteq q
       /\ Cardinality(run) >= MaxInFlight => S = {}
       /\ Cardinality(run) + Cardinality(started) <= MaxInFlight
       /\ S # q => Cardinality(run) + Cardinality(started) >= MaxInFlight

\* expire_ready, then the read-slot loop of pump_ready, from the broker
\* state j, q, run, ans.
Pump(j, q, run, ans) ==
    LET expired == ExpiredKeys(j, q)
        live == Survivors(q, expired)
    IN \E S \in SUBSET live :
         LET failed == UNION {E \in S : NoEndpoint(E)}
             ans2 == Answered(UNION {j[k] : k \in failed}, "error",
                       Answered(UNION {j[k] : k \in expired}, "undispatched", ans))
         IN /\ MayStart(S, live, run)
            /\ queued' = live \ S
            /\ running' = run \cup {E \in S : ~NoEndpoint(E)}
            /\ joined' = Retired(j, expired \cup failed)
            /\ answer' = ans2
            /\ credit' = CreditAfter(ans2)

-----------------------------------------------------------------------------
(* Batching *)

\* resolve_read's key; a latest read without a usable head epoch is not shared.
KeyFor(p, headKnown) ==
    IF p[2] \in Shareable /\ (p[2] \in LatestReads => headKnown)
    THEN <<p[2], Anyone>> ELSE <<p[2], p[1]>>

\* flush of the submissions ss, then pump_ready.  A late submission is
\* answered undispatched; a cache hit is answered; a read that is already
\* active is joined; the rest becomes new work.
Flush(ss) ==
    \E headKnown \in BOOLEAN, hits \in SUBSET (cached \cap Shareable) :
      LET late == {s \in ss : Late(s)}
          live == RepliesOf(ss \ late)
          hit == {p \in live : p[2] \in hits /\ (p[2] \in LatestReads => headKnown)}
          j2 == [k \in Keys |-> joined[k] \cup {p \in live \ hit : KeyFor(p, headKnown) = k}]
          new == {k \in {KeyFor(p, headKnown) : p \in live \ hit} : joined[k] = {}}
          ans2 == Answered(RepliesOf(late), "undispatched", Answered(hit, "value", answer))
      IN \E P \in Partitions(new) : Pump(j2, queued \cup P, running, ans2)

\* RouteLoad of the submissions ss on route rt.
Load(ss, rt) == Cardinality({p \in RepliesOf(ss) : RouteOf[p[2]] = rt})
RoutesOf(ss) == {RouteOf[p[2]] : p \in RepliesOf(ss)}

-----------------------------------------------------------------------------
(* Callers: RpcBroker::submit *)

\* The deadline starts with the call; the caller waits for a permit.
Call(s) ==
    /\ caller[s] = "idle"
    /\ actor = "open"
    /\ caller' = [caller EXCEPT ![s] = "acquire"]
    /\ left' = [left EXCEPT ![s] = TimeoutOf[s]]
    /\ UNCHANGED <<credit, mailbox, pending, flushIn, jobs, answer, cached, actor>>

Acquire(s) ==
    /\ caller[s] = "acquire"
    /\ Cardinality(credit) < Capacity
    /\ caller' = [caller EXCEPT ![s] = "send"]
    /\ credit' = credit \cup {s}
    /\ UNCHANGED <<left, mailbox, pending, flushIn, jobs, answer, cached, actor>>

Send(s) ==
    /\ caller[s] = "send"
    /\ Len(mailbox) < Capacity
    /\ caller' = [caller EXCEPT ![s] = "wait"]
    /\ mailbox' = Append(mailbox, s)
    /\ UNCHANGED <<left, credit, pending, flushIn, jobs, answer, cached, actor>>

\* Every receiver completed.
Return(s) ==
    /\ caller[s] = "wait"
    /\ ~Outstanding(s, answer)
    /\ caller' = [caller EXCEPT ![s] = "returned"]
    /\ UNCHANGED <<left, credit, mailbox, pending, flushIn, jobs, answer, cached, actor>>

\* The deadline passes or the caller's future is dropped.  Before the send the
\* unsent replies go, and the permit with them; after it only the receivers.
Abandon(s) ==
    /\ caller[s] \in {"acquire", "send", "wait"}
    /\ credit' = IF caller[s] = "send" THEN credit \ {s} ELSE credit
    /\ caller' = [caller EXCEPT ![s] = "returned"]
    /\ UNCHANGED <<left, mailbox, pending, flushIn, jobs, answer, cached, actor>>

-----------------------------------------------------------------------------
(* The actor's handlers *)

\* next_flush_at once a submission was pushed to the batch kept: a threshold
\* flush disarms it, the first submission of a batch arms it.
FlushTime(kept, reached) ==
    IF reached THEN Never ELSE IF kept = {} THEN Interval ELSE flushIn

\* Command::Submit.  The flushes before and after the push are taken together:
\* nothing else can happen between them.
Receive ==
    /\ actor = "open"
    /\ mailbox # <<>>
    /\ mailbox' = Tail(mailbox)
    /\ UNCHANGED <<caller, left, sent, dropped, cached, actor>>
    /\ LET s == Head(mailbox)
           rts == RoutesOf({s})
           crosses == \E rt \in rts : Load(pending \cup {s}, rt) > MaxCalls
           kept == IF crosses THEN {} ELSE pending
           reached == \E rt \in RoutesOf(kept \cup {s}) :
                        Load(kept \cup {s}, rt) >= MaxCalls
           flushed == (pending \ kept) \cup (IF reached THEN kept \cup {s} ELSE {})
       IN \/ /\ Late(s)
             /\ Pump(joined, queued, running, Answered(RepliesOf({s}), "undispatched", answer))
             /\ UNCHANGED <<pending, flushIn>>
          \/ /\ ~Late(s)
             /\ Flush(flushed)
             /\ pending' = (kept \cup {s}) \ flushed
             /\ flushIn' = FlushTime(kept, reached)

\* When the timer of next_wake_at is due.
WakeOnDeadline ==
    \/ \E s \in pending : Late(s)
    \/ \E k \in UNION queued : AllLate(joined[k])
WakeDue ==
    \/ flushIn = 0
    \/ \E s \in pending : Late(s)
    \/ \E k \in UNION queued : AllLate(joined[k])

\* expire_pending, expire_ready, flush if due, pump_ready.
Timer ==
    /\ actor = "open"
    /\ WakeDue
    /\ UNCHANGED <<caller, left, mailbox, sent, dropped, cached, actor>>
    /\ LET late == {s \in pending : Late(s)}
           flushed == IF flushIn = 0 THEN pending ELSE late
       IN /\ Flush(flushed)
          /\ pending' = pending \ flushed
          /\ flushIn' = IF pending' = {} THEN Never ELSE flushIn

\* BlockEvent::HeadObserved and Invalidate flush what is pending.
BlockEvent ==
    /\ actor = "open"
    /\ pending # {}
    /\ Flush(pending)
    /\ pending' = {}
    /\ flushIn' = Never
    /\ UNCHANGED <<caller, left, mailbox, sent, dropped, cached, actor>>

-----------------------------------------------------------------------------
(* Jobs *)

InJob == (UNION running) \ (sent \cup dropped)

\* A physical attempt for a member with a live waiter.
Dispatch(k) ==
    /\ k \in InJob
    /\ ~AllLate(joined[k])
    /\ sent' = sent \cup {k}
    /\ UNCHANGED <<callers, left, mailbox, pending, flushIn, joined, queued,
                   running, dropped, answer, cached, actor>>

\* Failover::live settles a member that was never attempted and whose waiters
\* are all late; a caller may still join it before the job ends.
Drop(k) ==
    /\ k \in InJob
    /\ AllLate(joined[k])
    /\ dropped' = dropped \cup {k}
    /\ UNCHANGED <<callers, left, mailbox, pending, flushIn, joined, queued,
                   running, sent, answer, cached, actor>>

\* Members dropped before an attempt that a live caller joined since.
NeverReadmitted(E) == {}
Readmitted(E) == {k \in E \cap dropped : ~AllLate(joined[k])}

\* complete_job for the job E, whose attempted keys ok got a value and the
\* others an error.  A dropped key with a live waiter by now is admitted again
\* (to be started by pump_ready, or failed by the end of a shutdown).
Finish(E) ==
    /\ E \in running
    /\ E \subseteq sent \cup dropped
    /\ sent' = sent \ E
    /\ dropped' = dropped \ E
    /\ UNCHANGED <<caller, left, mailbox, pending, flushIn, actor>>
    /\ \E ok \in SUBSET (E \cap sent) :
         LET again == Readmitted(E)
             done == E \ again
             Of(ks) == UNION {joined[k] : k \in ks}
             ans2 == Answered(Of(done \cap dropped), "undispatched",
                       Answered(Of((E \cap sent) \ ok), "error",
                         Answered(Of(ok), "value", answer)))
             j2 == Retired(joined, done)
         IN /\ cached' = cached \cup {k[1] : k \in ok}
            /\ \E P \in Partitions(again) :
                 \/ /\ actor = "open"
                    /\ Pump(j2, queued \cup P, running \ {E}, ans2)
                 \/ /\ actor = "draining"
                    /\ joined' = j2
                    /\ queued' = queued \cup P
                    /\ running' = running \ {E}
                    /\ answer' = ans2
                    /\ credit' = CreditAfter(ans2)

-----------------------------------------------------------------------------
(* Shutdown: the last handle is gone, so no caller is inside submit and the  *)
(* channel is empty.                                                         *)

\* fail_ready: every queued key is answered.
FailReady(ans) ==
    LET ks == UNION queued
        ans2 == Answered(UNION {joined[k] : k \in ks}, "shutdown", ans)
    IN /\ joined' = Retired(joined, ks)
       /\ queued' = {}
       /\ answer' = ans2
       /\ credit' = CreditAfter(ans2)

\* fail_pending and the first fail_ready; drain_jobs then awaits the jobs.
Shutdown ==
    /\ actor = "open"
    /\ mailbox = <<>>
    /\ \A s \in Subs : caller[s] \in {"idle", "returned"}
    /\ FailReady(Answered(RepliesOf(pending), "shutdown", answer))
    /\ pending' = {}
    /\ flushIn' = Never
    /\ actor' = "draining"
    /\ UNCHANGED <<caller, left, mailbox, running, sent, dropped, cached>>

StopAtOnce ==
    /\ actor = "draining"
    /\ running = {}
    /\ actor' = "stopped"
    /\ UNCHANGED <<callers, left, mailbox, pending, flushIn, jobs, answer, cached>>

\* The jobs have drained: the second fail_ready answers what they readmitted.
Stop ==
    /\ actor = "draining"
    /\ running = {}
    /\ FailReady(answer)
    /\ actor' = "stopped"
    /\ UNCHANGED <<caller, left, mailbox, pending, flushIn, running, sent, dropped, cached>>

-----------------------------------------------------------------------------
Older(t) == IF t = Never \/ t = 0 THEN t ELSE t - 1

Tick ==
    /\ \/ flushIn # Older(flushIn)
       \/ \E s \in Subs : caller[s] # "idle" /\ left[s] # Older(left[s])
    /\ left' = [s \in Subs |-> IF caller[s] = "idle" THEN left[s] ELSE Older(left[s])]
    /\ flushIn' = Older(flushIn)
    /\ UNCHANGED <<callers, mailbox, pending, jobs, answer, cached, actor>>

Init ==
    /\ caller = [s \in Subs |-> "idle"]
    /\ left = TimeoutOf
    /\ credit = {}
    /\ mailbox = <<>>
    /\ pending = {}
    /\ flushIn = Never
    /\ joined = [k \in Keys |-> {}]
    /\ queued = {}
    /\ running = {}
    /\ sent = {}
    /\ dropped = {}
    /\ answer = [p \in Replies |-> Unanswered]
    /\ cached = {}
    /\ actor = "open"

JobStep == (\E k \in InJob : Dispatch(k) \/ Drop(k)) \/ (\E E \in running : Finish(E))

Next ==
    \/ \E s \in Subs : Call(s) \/ Acquire(s) \/ Send(s) \/ Return(s) \/ Abandon(s)
    \/ Receive
    \/ Timer
    \/ BlockEvent
    \/ \E k \in InJob : Dispatch(k) \/ Drop(k)
    \/ \E E \in running : Finish(E)
    \/ Shutdown
    \/ Stop
    \/ Tick

Spec == Init /\ [][Next]_vars

\* While the actor or a job (attempts have timeouts) can go on or time can pass,
\* one of them does.
FairSpec == Spec /\ WF_vars(Tick \/ Stop \/ JobStep \/ Timer \/ Receive)

-----------------------------------------------------------------------------
(* Properties *)

\* The type invariant.
TypeOK ==
    /\ caller \in [Subs -> {"idle", "acquire", "send", "wait", "returned"}]
    /\ left \in [Subs -> Nat \cup {Never}]
    /\ credit \subseteq Subs
    /\ mailbox \in Seq(Subs)
    /\ pending \subseteq Subs
    /\ flushIn \in (0 .. Interval) \cup {Never}
    /\ joined \in [Keys -> SUBSET Replies]
    /\ queued \subseteq SUBSET Keys
    /\ running \subseteq SUBSET Keys
    /\ sent \subseteq Keys
    /\ dropped \subseteq Keys
    /\ answer \in [Replies -> Results \cup {Unanswered}]
    /\ cached \subseteq Reads
    /\ actor \in {"open", "draining", "stopped"}

InMailbox(s) == \E i \in DOMAIN mailbox : mailbox[i] = s

\* No reply is lost and none is answered twice: an unanswered reply of a
\* submission that entered the broker is in exactly one of the channel, the
\* pending batch and one work key, and an answered reply is in none.
ReplyInOnePlace ==
    /\ \A s \in Subs : InMailbox(s) => s \notin pending
    /\ \A i, j \in DOMAIN mailbox : mailbox[i] = mailbox[j] => i = j
    /\ \A p \in Replies :
         LET batched == InMailbox(p[1]) \/ p[1] \in pending
             keys == {k \in Keys : p \in joined[k]}
         IN /\ batched => answer[p] = Unanswered /\ keys = {}
            /\ \A k, l \in keys : k = l
            /\ keys # {} => answer[p] = Unanswered
            /\ p[1] \in credit /\ caller[p[1]] # "send" /\ answer[p] = Unanswered
                 => batched \/ keys # {}

\* Only a caller whose deadline has passed is told its read was never sent.
NoEarlyTimeout ==
    [][\A p \in Replies :
         answer[p] = Unanswered /\ answer'[p] = "undispatched" => Late(p[1])]_vars

\* A submission's admission credit is held until its last reply is retired,
\* whatever its caller did, and no longer; credits never exceed the capacity.
CreditUntilRetired ==
    /\ Cardinality(credit) <= Capacity
    /\ \A s \in Subs :
         s \in credit <=> \/ caller[s] = "send"
                          \/ InMailbox(s) \/ s \in pending
                          \/ \E k \in Keys : \E p \in joined[k] : p[1] = s

\* Every submission that entered the broker is answered in full.
EventuallyAnswered ==
    \A s \in Subs : InMailbox(s) ~> ~Outstanding(s, answer)

\* A shutdown ends, with no work, batch or credit left behind.
ShutdownCompletes ==
    actor = "draining" ~> /\ actor = "stopped"
                          /\ \A k \in Keys : joined[k] = {}
                          /\ queued = {} /\ running = {} /\ credit = {}
=============================================================================
