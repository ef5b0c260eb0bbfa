---------------------------- MODULE BlockObserver ----------------------------
(***************************************************************************)
(* One block observer: it follows whole blocks through several endpoints   *)
(* and looks for the attempts of one submission in them, so that no        *)
(* endpoint is ever asked for a transaction by its hash                    *)
(* (block_observer.rs, and the loop of retain_observer that drives it).    *)
(*                                                                         *)
(* The chain is a tree of blocks.  An endpoint shows the branch that ends  *)
(* at its tip, and its tip moves at any time, also between two requests of *)
(* one poll: forward, to another branch, or back (an endpoint behind a     *)
(* balancer).  Every request is a step; what the code does between two     *)
(* awaits is part of the step of the request before it.                    *)
(*                                                                         *)
(* `lookup' is this family's share of the registry; other families and the *)
(* fencing of balances are TransactionTracker's subject.                   *)
(***************************************************************************)
EXTENDS Integers, Sequences, FiniteSets

CONSTANTS Providers,       \* endpoints of the query pool, by index
          NoProvider,
          Blocks,          \* the block tree: blocks,
          NoBlock,
          Parent,          \*   the parent of each (NoBlock: the root),
          Height,          \*   the number of each,
          TxsOf,           \*   and the attempts each holds
          Hashes,          \* the attempts of the submission
          Original,        \* the first of them
          Unsupporting,    \* endpoints without eth_getBlockReceipts
          FinalityDepth,   \* finality_depth
          MaxBlocksPerPoll,\* MAX_BLOCKS_PER_POLL
          MaxFaults        \* bound on the requests that fail

ASSUME ObserverConstants ==
    /\ Providers \subseteq Nat /\ IsFiniteSet(Providers) /\ NoProvider \notin Providers
    /\ NoBlock \notin Blocks
    /\ Parent \in [Blocks -> Blocks \cup {NoBlock}]
    /\ Height \in [Blocks -> Nat]
    /\ TxsOf \in [Blocks -> SUBSET Hashes] /\ Original \in Hashes
    /\ \A b \in Blocks :
         Height[b] = IF Parent[b] = NoBlock THEN 0 ELSE Height[Parent[b]] + 1
    /\ FinalityDepth \in Nat /\ MaxBlocksPerPoll \in Nat \ {0}

VARIABLES tip,         \* the tip each endpoint shows
          faults,      \* requests that failed so far
          stage,       \* who polls: a submission job, then a retained task
          poll,        \* the poll under way: a record, see NoPoll
          registered,  \* registered
          nextBlock,   \* next_block
          history,     \* history, as blocks
          unsupported, \* unsupported_receipts
          bad,         \* endpoints the pool may hold back (mark_bad_provider)
          active,      \* active_provider
          inclusion,   \* Family.inclusion
          lookup,      \* the registry's view of the attempts
          baseline     \* history variable: the head the observer started from

chainVars == <<nextBlock, history>>
vars == <<tip, faults, stage, poll, registered, nextBlock, history, unsupported,
          bad, active, inclusion, lookup, baseline>>

Untracked == [kind |-> "untracked", block |-> 0]
Pending == [kind |-> "pending", block |-> 0]
Unavailable == [kind |-> "unavailable", block |-> 0]
Exhausted == [kind |-> "exhausted", block |-> 0]
Included(b) == [kind |-> "included", block |-> b]

\* The locals of poll_inner, poll_provider and rollback: the request awaited,
\* the endpoints left (the current one first), the outcomes of the earlier
\* ones, the endpoint's head, the last block to scan, rollback's position in
\* the history, whether a scan follows it, and the block whose receipts are
\* awaited.
NoPoll == [phase |-> "idle", plan |-> <<>>, seen |-> {}, head |-> 0, end |-> 0,
           back |-> 0, resume |-> FALSE, found |-> NoBlock]

\* b and the blocks it was built on, down to the root: what is in every set that
\* holds b and the parents of its members.
Rooted(S) == \A c \in S : Parent[c] \in S \cup {NoBlock}
Branch == [b \in Blocks |->
    {c \in Blocks : \A S \in SUBSET Blocks : Rooted(S) /\ b \in S => c \in S}]

\* The attempts mined on the branch that ends at b.
Mined(b) == UNION {TxsOf[c] : c \in Branch[b]}

Init ==
    /\ tip \in [Providers -> {b \in Blocks : Mined(b) = {}}] /\ faults = 0
    /\ stage = "establish" /\ poll = NoPoll
    /\ registered = {} /\ nextBlock = 0 /\ history = <<>>
    /\ unsupported = {} /\ bad = {} /\ active = NoProvider
    /\ inclusion = NoBlock /\ lookup = [h \in Hashes |-> Untracked]
    /\ baseline = 0

----------------------------------------------------------------------------
(* The chain as endpoints show it                                          *)

\* fetch_block of number n at an endpoint whose tip is t; NoBlock: missing.
BlockAt(t, n) ==
    IF n > Height[t] THEN NoBlock
    ELSE CHOOSE b \in Branch[t] : Height[b] = n

\* An endpoint's tip moves; an attempt is mined only once it was handed off.
MoveTip(p, b) ==
    /\ stage # "gone" /\ b # tip[p]
    /\ Mined(b) \subseteq registered
    /\ tip' = [tip EXCEPT ![p] = b]
    /\ UNCHANGED <<faults, stage, poll, registered, nextBlock, history, unsupported,
                   bad, active, inclusion, lookup, baseline>>

----------------------------------------------------------------------------
(* What the family is told, as functions of the lookup lk                  *)

Told(lk, other) ==
    [h \in Hashes |-> IF h \in registered /\ lk[h] # Exhausted THEN other ELSE lk[h]]

----------------------------------------------------------------------------
(* Results of a poll.  Each sets stage, poll and lookup.                   *)

Current == poll.plan[1]

\* The order in which a poll asks the endpoints S: the active one first, then by
\* index.
Plans(S, first) ==
    {plan \in [1..Cardinality(S) -> S] :
        \A i, n \in DOMAIN plan :
            i < n => plan[n] # first /\ (plan[i] = first \/ plan[i] < plan[n])}

\* poll returned an error: the family is unavailable.  A job gives up, and its
\* guard hands the observer to a task; a task exhausts discovery.
PollFails(lk) ==
    /\ poll' = NoPoll
    /\ IF stage = "task"
       THEN stage' = "gone" /\ lookup' = Told(Told(lk, Unavailable), Exhausted)
       ELSE stage' = "task" /\ lookup' = Told(lk, Unavailable)

\* The current endpoint failed with `why'; the next one is asked, or the poll
\* ends: quietly when one only lags, else with an error.
NextProvider(why, lk) ==
    LET outcomes == poll.seen \cup {why}
        told == IF outcomes # {"lagging"} THEN Told(lk, Unavailable) ELSE lk
    IN  IF Len(poll.plan) > 1
        THEN /\ poll' = [NoPoll EXCEPT !.phase = "head", !.plan = Tail(poll.plan),
                                       !.seen = outcomes]
             /\ lookup' = lk /\ UNCHANGED stage
        ELSE IF "lagging" \in outcomes
        THEN poll' = NoPoll /\ lookup' = told /\ UNCHANGED stage
        ELSE PollFails(told)

Lags == NextProvider("lagging", lookup) /\ UNCHANGED <<unsupported, bad, active>>

Fails(lk) ==
    /\ NextProvider("failed", lk)
    /\ bad' = bad \cup {Current}
    /\ UNCHANGED <<unsupported, active>>

Unsupports ==
    /\ NextProvider("unsupported", lookup)
    /\ unsupported' = unsupported \cup {Current}
    /\ UNCHANGED <<bad, active>>

\* The endpoint answered and the poll ends without a receipt: recovered.
Advances ==
    /\ poll' = NoPoll /\ active' = Current
    /\ lookup' = Told(lookup, Pending)
    /\ UNCHANGED <<stage, unsupported, bad>>

\* The poll goes on with another request.
Awaits(p) == poll' = p /\ UNCHANGED <<stage, lookup, unsupported, bad, active>>

\* record, with the finality bound.
Recorded(b) ==
    LET h == Append(history, b)
    IN  IF Len(h) > FinalityDepth + 1 THEN Tail(h) ELSE h

----------------------------------------------------------------------------
(* Polling                                                                 *)

\* establish: the baseline is the head of the first endpoint that answers; the
\* caller then registers its first attempt.
Establish(p) ==
    /\ stage = "establish" /\ stage' = "job"
    /\ baseline' = Height[tip[p]]
    /\ nextBlock' = Height[tip[p]] + 1
    /\ active' = p
    /\ registered' = {Original} /\ lookup' = [lookup EXCEPT ![Original] = Pending]
    /\ UNCHANGED <<tip, faults, poll, history, unsupported, bad, inclusion>>

\* The job registers a replacement between two polls.
Register(h) ==
    /\ stage = "job" /\ poll = NoPoll
    /\ h \notin registered
    /\ registered' = registered \cup {h}
    /\ lookup' = [lookup EXCEPT ![h] = Pending]
    /\ UNCHANGED <<tip, faults, stage, poll, nextBlock, history, unsupported, bad,
                   active, inclusion, baseline>>

\* The observer is polled by the job and, once retained, by the tracker's task.
PollersOfJob == {"job"}
Pollers == {"job", "task"}

\* poll begins with the endpoints S the pool offers: all but some bad ones.
BeginPoll(S) ==
    /\ stage \in Pollers /\ poll = NoPoll
    /\ Providers \ bad \subseteq S
    /\ IF S = {}
       THEN PollFails(lookup) /\ UNCHANGED bad
       ELSE /\ \E plan \in Plans(S, active) :
                 poll' = [NoPoll EXCEPT !.phase = "head", !.plan = plan]
            /\ bad' = bad \ S
            /\ UNCHANGED <<stage, lookup>>
    /\ UNCHANGED <<tip, faults, registered, nextBlock, history, unsupported, active,
                   inclusion, baseline>>

\* The scan from block `first' at an endpoint whose head is n.
BeginScan(n, first) ==
    LET last == first + MaxBlocksPerPoll - 1
    IN  IF n < first THEN Lags
        ELSE Awaits([poll EXCEPT !.phase = "scan", !.end = IF n < last THEN n ELSE last])

FetchHead ==
    /\ poll.phase = "head"
    /\ LET n == Height[tip[Current]]
       IN  IF history = <<>> THEN BeginScan(n, nextBlock)
           ELSE Awaits([poll EXCEPT !.phase = "tip", !.head = n])
    /\ UNCHANGED <<tip, faults, registered, nextBlock, history, inclusion, baseline>>

LastRecorded == history[Len(history)]

\* rollback_to_common_ancestor begins: the attempts are pending again, and a
\* history of one block has no ancestor to offer.
BeginRollback(scanAfter) ==
    IF Len(history) < 2 THEN Fails(Told(lookup, Pending))
    ELSE /\ poll' = [poll EXCEPT !.phase = "roll", !.back = Len(history) - 1,
                                 !.resume = scanAfter]
         /\ lookup' = Told(lookup, Pending)
         /\ UNCHANGED <<stage, unsupported, bad, active>>

\* The endpoint is asked for the block of the observer's own tip.
CheckTip ==
    /\ poll.phase = "tip"
    /\ LET b == BlockAt(tip[Current], Height[LastRecorded]) IN
       \/ b = LastRecorded /\ BeginScan(poll.head, nextBlock)
       \/ b = NoBlock /\ poll.head < Height[LastRecorded] /\ Lags
       \/ b = NoBlock /\ poll.head >= Height[LastRecorded] /\ Fails(lookup)
       \/ b \notin {NoBlock, LastRecorded} /\ BeginRollback(TRUE)
    /\ UNCHANGED <<tip, faults, registered, nextBlock, history, inclusion, baseline>>

\* rollback asks for one retained block after another, newest first.
Rollback ==
    /\ poll.phase = "roll"
    /\ LET b == BlockAt(tip[Current], Height[history[poll.back]]) IN
       \/ /\ b = history[poll.back]
          /\ history' = SubSeq(history, 1, poll.back)
          /\ nextBlock' = Height[b] + 1
          /\ IF poll.resume THEN BeginScan(poll.head, nextBlock') ELSE Advances
       \/ /\ b = NoBlock \/ (b # history[poll.back] /\ poll.back = 1)
          /\ Fails(lookup) /\ UNCHANGED chainVars
       \/ /\ b \notin {NoBlock, history[poll.back]} /\ poll.back > 1
          /\ Awaits([poll EXCEPT !.back = @ - 1]) /\ UNCHANGED chainVars
    /\ UNCHANGED <<tip, faults, registered, inclusion, baseline>>

\* Block b does not continue the recorded history.
ForksByNumber(b) == history # <<>> /\ Height[b] # Height[LastRecorded] + 1
Forks(b) == history # <<>> /\ Parent[b] # LastRecorded

\* The next block is fetched and searched.
Scan ==
    /\ poll.phase = "scan"
    /\ LET b == BlockAt(tip[Current], nextBlock)
           ours == TxsOf[b] \cap registered
       IN
       \/ /\ b = NoBlock
          /\ Fails(lookup) /\ UNCHANGED chainVars
       \/ /\ b # NoBlock /\ Forks(b)
          /\ BeginRollback(FALSE) /\ UNCHANGED chainVars
       \/ /\ b # NoBlock /\ ~Forks(b) /\ ours # {}
          /\ IF Cardinality(ours) > 1 THEN Fails(lookup)
             ELSE IF Current \in unsupported THEN Unsupports
             ELSE Awaits([poll EXCEPT !.phase = "receipt", !.found = b])
          /\ UNCHANGED chainVars
       \/ /\ b # NoBlock /\ ~Forks(b) /\ ours = {}
          /\ history' = Recorded(b)
          /\ nextBlock' = nextBlock + 1
          /\ IF nextBlock = poll.end THEN Advances ELSE Awaits(poll)
    /\ UNCHANGED <<tip, faults, registered, inclusion, baseline>>

\* The receipts of the block come back valid: the attempt is included, and
\* the poll's caller is done with the observer.
FetchReceiptAtHead ==
    /\ poll.phase = "receipt" /\ Current \notin Unsupporting
    /\ \E h \in TxsOf[poll.found] \cap registered :
         lookup' = [Told(lookup, Unavailable) EXCEPT ![h] =
                        IF @ = Exhausted THEN @ ELSE Included(BlockAt(tip[Current], poll.head))]
    /\ inclusion' = poll.found
    /\ history' = Recorded(poll.found) /\ nextBlock' = nextBlock + 1
    /\ active' = Current
    /\ stage' = "gone" /\ poll' = NoPoll
    /\ UNCHANGED <<tip, faults, registered, unsupported, bad, baseline>>
FetchReceipt ==
    /\ poll.phase = "receipt" /\ Current \notin Unsupporting
    /\ \E h \in TxsOf[poll.found] \cap registered :
         lookup' = [Told(lookup, Unavailable) EXCEPT ![h] =
                        IF @ = Exhausted THEN @ ELSE Included(poll.found)]
    /\ inclusion' = poll.found
    /\ history' = Recorded(poll.found) /\ nextBlock' = nextBlock + 1
    /\ active' = Current
    /\ stage' = "gone" /\ poll' = NoPoll
    /\ UNCHANGED <<tip, faults, registered, unsupported, bad, baseline>>

\* The endpoint has no block receipts.
ReceiptsUnsupported ==
    /\ poll.phase = "receipt" /\ Current \in Unsupporting
    /\ Unsupports
    /\ UNCHANGED <<tip, faults, registered, nextBlock, history, inclusion, baseline>>

\* Any request fails, is invalid, or (receipts by hash) is not found.
RequestFails ==
    /\ poll.phase # "idle"
    /\ faults < MaxFaults /\ faults' = faults + 1
    /\ Fails(lookup)
    /\ UNCHANGED <<tip, registered, nextBlock, history, inclusion, baseline>>

\* The job drops its poll at an await, or its guard: a dropped guard hands the
\* observer, as it is, to a task.
CancelPoll(handoff) ==
    /\ stage = "job" /\ (handoff \/ poll # NoPoll)
    /\ stage' = IF handoff THEN "task" ELSE "job"
    /\ poll' = NoPoll
    /\ UNCHANGED <<tip, faults, registered, nextBlock, history, unsupported, bad,
                   active, inclusion, lookup, baseline>>

Poll ==
    \/ \E S \in SUBSET Providers : BeginPoll(S)
    \/ FetchHead \/ CheckTip \/ Rollback \/ Scan
    \/ FetchReceipt \/ ReceiptsUnsupported

Next ==
    \/ \E p \in Providers, b \in Blocks : MoveTip(p, b)
    \/ \E p \in Providers : Establish(p)
    \/ \E h \in Hashes : Register(h)
    \/ Poll
    \/ RequestFails
    \/ \E handoff \in BOOLEAN : CancelPoll(handoff)

Spec == Init /\ [][Next]_vars

\* The runtime polls the job's and the task's futures, and every request ends.
FairSpec == Spec /\ WF_vars(Poll)

----------------------------------------------------------------------------
(* Properties                                                              *)

\* Catching up over several endpoints, rollbacks and failed or dropped polls
\* never passes a block that holds an attempt: above the baseline, the branch
\* the observer stands on holds none until one is reported included.
NothingSkipped ==
    (history # <<>> /\ inclusion = NoBlock) =>
        \A b \in Branch[LastRecorded] :
            Height[b] > baseline => TxsOf[b] \cap registered = {}

\* The attempts an unresolved observer looks for.
Watched == IF stage # "gone" THEN registered ELSE {}

\* The observer's reports implement the abstract classification: an inclusion
\* names a block that holds the attempt, nothing stays pending unwatched, and
\* exhaustion is final.
Outcome == INSTANCE TransactionOutcome WITH
    MayInclude <- {m \in Hashes \X Blocks : m[1] \in TxsOf[m[2]]},
    outcome <- lookup, watched <- Watched

ReportsAsPromised == Outcome!Spec
=============================================================================
