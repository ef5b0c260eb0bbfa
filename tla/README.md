# RailOxide in TLA+

RailOxide is a desktop wallet for RAILGUN private transactions, written in Rust.
This directory holds TLA+ models of the parts of it whose correctness depends on
the order of events, the TLC configurations that check them, and TLAPS proofs of
the properties that matter most. `PROJECT.json` maps every definition to the
source lines it stands for. Paths below are relative to
`src/crates/wallet-ops/src/` unless they begin with `src/`.

## 1. Inventory

### Modelled parts

**RPC broker** (`rpc_broker/`). Every read of a chain, whether a balance, a contract
call, a nonce or gas, goes through one actor. Callers submit operations over a
bounded channel. The actor deduplicates them by work key, waits a few
milliseconds for a batch, orders the batch fairly between origins, and starts jobs
on their own tasks. A job checks the identity of endpoints (is this the chain it
claims to be?), sends the read and fails over to the next candidate.

| Part | State | Operations | Interacts with |
|---|---|---|---|
| read cache (`cache.rs`) | head, lease and generation per chain; entries; insertion order | observe head, invalidate, look up, insert, evict | the actor looks up before queueing and stores when a job ends |
| submission and replies (`actor.rs`, `broker.rs`) | permits, channel, pending batch, flush timer, waiters per work key, running jobs | submit, receive, flush, expire, finish, readmit, remove origin, shut down | callers; scheduler; jobs |
| scheduler (`scheduler.rs`) | ready entries, key index, a lane per origin and class, rotation of origins | admit, join, resume, take, verify, expire, prune, drain | called by the actor only |
| capacity and jobs (`capacity.rs`, `execution.rs`) | read and runner slots, requests, grants, parked jobs, candidates and probes of each job | acquire, grant, release, park, wake, probe, attempt, finish | actor and job tasks share the ledger |
| endpoint health (`profile.rs`, `warmup.rs`, `health.rs`, `identity.rs`) | strikes, withdrawal level and cooldown per endpoint; warmup queue, owners, priorities | record failure, strike, restore, select, warm start and end, activate, prioritise, install | jobs, outside reports, several broker owners |

Hard here: a read that completes after the head has moved; waiters that join,
expire and are readmitted while their job runs; a grant that crosses a job's
decision to park; shutdown with everybody waiting; an endpoint excluded with nobody
left to try it again.

**Stealth account store** (`vault/executors.rs`, `vault/executors/spare.rs`,
`desktop/executors/*`). Private funds act on public contracts through one-time
accounts derived from an index. The store keeps an allocation row (next index and
one spare account), a record per account, and for each record the signed payloads
issued for it. A payload spends notes. Its notes stay reserved as long as it can
still be executed by anybody who holds it.

| Part | State | Operations | Interacts with |
|---|---|---|---|
| derivation indices | allocation row, records, spare | reserve, retarget, reserve spare, bind its address, restore index, raise floor | discovery; the database, which may be lost or restored from an older copy |
| payloads and notes | issued, submitted and released payloads; nonce watermark; settled nonce | issue, submit, release, reserve again, record account read, record sync evidence | the chain, private sync, reorganisations |

Hard here: an index used twice sends funds of two operations to one account; a
spare already shown to a user is replaced; late or reordered account reads; a
reorganisation that makes a payload runnable again; a note offered for selection
before private sync knows that it is spent.

**Public transactions after they are sent** (`block_observer.rs`,
`public_wallet/transaction_tracker.rs`, `public_wallet/balance_cache.rs`,
`src/bins/wallet/src/root/public_transactions.rs`). So that no endpoint learns which
transaction the wallet asks for, an observer reads whole blocks and looks for the
hashes itself. The tracker keeps the classification of each hash; inclusions fence
the cached balances of the account until they have been read again.

| Part | State | Operations | Interacts with |
|---|---|---|---|
| block observer | next block, recent history, registered attempts, active endpoint | establish, register, poll (head, tip, rollback, scan, receipts), hand over | endpoints that reorganise, lag and fail; the tracker |
| tracker | families of attempts, classification of hashes, admission | start family, register, report, transfer, retain, drop, close, resume | jobs, retained tasks, the desktop's root thread |
| balance cache | a namespace per scope, refresh tickets, queue, fences, minimum blocks | reconcile, begin and finish refresh, fence, retain accounts, take queued | the tracker fences it inside its own lock; the root refreshes |

Hard here: a reorganisation in the middle of a catch-up that changes endpoint; two
families that report one hash; an observer handed over while the tracker closes; a
refresh that began before a fence and ends after it.

**Dapp gateway** (`gateway/`, `dapp_request.rs`,
`src/bins/wallet/src/root/gateway.rs`, `gateway_drafts.rs`). A paired browser
extension makes requests in the name of web pages and drafts sends of its own. The
gateway actor holds requests, the desktop owns the authority (unlocked wallet,
accounts) and the review, and a task per approval signs and hands over.

| Part | State | Operations | Interacts with |
|---|---|---|---|
| approvals | pending approvals, permissions, documents, unlock cohort, control of each request | request, prepare, publish, begin, return to review, complete, revoke, tick | browser, desktop root, approval tasks |
| public drafts | the draft of a browser, its estimate and revision, executions and their outcome | create, update, estimate, submit, approve, start, stop, cancel, retire | browser commands, balances, transaction task and its listeners |

Hard here: an authority that changes between check and hand-off; answers given twice
or never; a stop, a result and a hand-off event that cross; an estimate of an older
revision.

**Fee board** (`src/crates/broadcaster-monitor/src/state.rs`, with the loops of
`broadcaster-monitor-waku`). Broadcasters announce fees, signed, over a gossip
network. The board keeps the newest generation of each publisher, holds updates back
until a refresh deadline, evicts publishers after a grace and tells the interface to
redraw. Hard here: replayed and reordered announcements, a wall clock that steps
back, three threads that publish revisions after they let the lock go.

### Parts not modelled

The models cover the parts of the repository whose state is shared or survives a
step; most of its 366,000 lines are the user interface, data handling and tests.
`PROJECT.json` lists every part with its sources and reason. In short:

- *Planned*: swap uses and orders; the attempt loop of public submission;
  WalletConnect's session life cycle; in the gateway, pairing and sessions, read
  admission, private drafts, wallet switches, the chain editor and
  `wallet_addEthereumChain`; in the broker, query-pool admission and the reduction of
  multicall results.
- *Left to other means*: the vault's cryptography, device protocols, transport and
  HTTP setup, price and bridge clients, settings merging, governance call
  construction, the user interface, the contract and the scripts. These are I/O,
  cryptography, rendering or sequential data handling.

### What correct means, part by part

- *Cache*: a caller is never answered from before the current epoch, by a stored
  entry or by joining older pending work.
- *Broker*: each requested reply is in exactly one place until it is given, given
  once, and not timed out early; every sent request is answered; shutdown ends.
- *Scheduler*: no queued work is unreachable, no origin is passed over more than the
  others allow.
- *Jobs*: slots are counted exactly, reads go to verified endpoints only, no wakeup
  is lost, jobs never all wait on one another.
- *Health*: an excluded endpoint always has a way back, withdrawals back off, and an
  endpoint that works again is offered again.
- *Indices*: no index twice, whatever happens to the row; spares shown are kept.
- *Notes*: the notes of a runnable payload are reserved; freed notes are unspent;
  no two accounts hold one note unless the user asked for it.
- *Observer*: no block that holds an attempt is passed; inclusions name such a block;
  a retained observer ends.
- *Tracker and balances*: pending hashes are being looked for, exhaustion is final, a
  balance served is as new as the account's inclusions, no queued refresh is lost.
- *Approvals*: nothing is sent under another authority than it was approved under,
  nor for a request that is gone; each request is answered exactly once.
- *Drafts*: a draft offered for retry never pays, a hand-off is never denied, what is
  reviewed is what was submitted.
- *Fee board*: rows of one generation, never an older one; nothing held back for ever;
  the last change is shown.

`PROJECT.json` lists the hazards, each at its line, with the properties that would
catch it.

## 2. Modules

Most modules are independent: the parts meet in narrow interfaces, and each model
treats its neighbours as nondeterministic in the way their code allows.
TransactionTracker composes with BalanceCache, since the tracker calls the cache under
its own lock; it and BlockObserver implement the abstract TransactionOutcome.

**ReadCache**: `cache.rs` with the actor's use of it. `head[c]` is the observed
head (block, age, usable, generation); `entries` and `order` are the map and the
eviction queue; `pending` and `inflight` are submitted and running work.
`HeadAdvanced`, `HeadRepeated` and `Invalidate` are the head observations,
`TimerFlush` and `Submit` the lookups, `CompleteLatest`, `CompletePinned` and
`CompleteErr` the ends of jobs. Each handler includes the reconciliation and flush
the actor performs at its end. Time is the age of a head, capped one above the
lease. `staleWork` and `staleEntries` are history variables recording what began
before the current epoch; no action reads them. A chain has one route.

**RpcBroker**: `broker.rs` and the actor's message loop. `caller` and `credit` are the
callers' progress and permits, `mailbox` the bounded channel, `pending` and
`flushIn` the batch and its timer, `joined[k]` the waiters of a work key, `queued`
and `running` the entries, `sent` and `dropped` what a job did with each key.
Deadlines are ticks left. Every handler ends with `Pump`, as in the code. The order
in which ready entries start is left open here (ReadyScheduler decides it), as is
what happens inside a job (RpcJobs). Routes are trusted; gas reads count as calls;
whether a cache hit happens is nondeterministic for reads answered before.

**ReadyScheduler**: `scheduler.rs`. `jobs` maps ready ids to entries (members and
their origins, aggregate or single, resumed or new), `lanes` holds the references by
origin and class, `origins` the rotation, `keyIndex` the queued owner of a key.
References outlive entries and are pruned lazily, as in the code:
`Kept` is what `retain` leaves of a lane, each element at its rank among those kept. `skipped` is a
history variable counting the turns an origin with eligible work was passed over.

**RpcJobs**: `capacity.rs`, the job driver of `execution.rs` and the actor's pump.
One route, one member per job. A job is a program counter over the driver's
awaits: at the top of its loop, deciding, waiting for a slot or a probe, in an
attempt, parked. The ledger's notification, the verification notification and the
grant channels are explicit, since the hazards are in their interleaving. Which
eligible job gets a free slot is left open.

**EndpointHealth**: `profile.rs`, `health.rs`, `warmup.rs` and the identity checks that
are not part of a job. A profile is shared by the installations (targets) of
one site. `Tick` is the passing of time and ages windows and cooldowns; it is taken
only when no due check can start, because checks are started at once. Request counts
and the randomised order of candidates are left out. `Outage` makes a site fail or
recover and is external.

**ExecutorIndex**: the allocation row and records. The process-wide
`EXECUTOR_RECORD_LOCK` and single write batches make each operation atomic, so each
is one action. `KeepCopy` and `ReplaceRow` are external: a copy of the row made at
any time may come back, or the row may be lost. Addresses are functions of the index
and are omitted. `handed` is a history variable of the spares a caller was shown.

**NoteReservation**: payloads, notes and evidence. `chain` is a sequence of
blocks that execute at most one modelled payload; `scanned` is how far private sync
has come; `mark[o]` the nonce watermark with the block it was read at;
`settled[o]` the nonce below which payloads are settled. An absent watermark or
settled nonce is 0. `RecordAccountRead` may apply a read of any block of the chain or
of the chain before the reorganisation, so reads arrive late and in any order. The
activity lock is not modelled, which gives more interleavings than the program
has. Evidence of private sync is of the current chain, because a snapshot from
before a reset is refused by its `reset_generation`. `release_input_lock` reads the
record in one step and writes in another, so what it releases may be stale; one such
release runs at a time. Swap hooks, delegates, retired accounts and the legacy
inclusions of old records are left out.

**BalanceCache**: `public_wallet/balance_cache.rs` for one chain. `ns` is the
namespace (identity, scope, observed rows, pending and queued accounts, the ticket in
flight, the minimum block), `tickets` the tickets out. Its operations are operators
on the namespace that TransactionTracker's actions apply. A row is the block it was
observed at; a 30 s age limit only takes eligibility away and is left out.

**TransactionOutcome**: what observing promises, whoever does it. A registered hash
is classified and never forgotten, `pending` is claimed only while somebody watches, an
inclusion names a block that may hold the hash, and exhaustion is final.

**TransactionTracker**: the registry and the desktop's root thread. A family is an
observer's set of attempts; `stage` says whether its observer lives in a job's guard, in
a retained task or nowhere. Each call that takes the registry's mutex is one step. The
root publishes scopes in two calls, between which observers go on. What an observer sees
is left open. `skipped` records that a wakeup was consumed while admission was closed,
which the code does and `RefreshNotLost` exempts. `Outcome` instantiates TransactionOutcome with the registry's
lookup and the hashes of unresolved families.

**BlockObserver**: one observer on a tree of blocks. An endpoint shows the branch
that ends at its tip, and tips move between any two requests. `poll` holds the locals of
`poll_inner`, `poll_provider` and `rollback_to_common_ancestor`; each request is a step,
and dropping the future at an await is `CancelPoll`. An attempt is mined only after it was
registered. An attempt that a reorganisation mines at or below the baseline, the head at
which the observer was established, is never found; the code accepts that, and
`NothingSkipped` speaks of blocks above the baseline. `Original` is the attempt
registered first.

**GatewayDraft**: `draft` is the browser's record, `jobs` the estimates under
way, `exec` the state of each submitted draft, `task` and `events` the transaction task and
what it emitted, `dialog` the review. Events, hash updates and the result reach the
handle by three listeners in any order. `asked` and `offered` are history variables.
Private drafts, fee quotes and the picker are left out. A network disabled after
the review leaves `Authorize` without effect, as in the code.

**DappApproval**: the live authority (`live`), its publication to the actor
(`changing`, `dirty`, `command`), the actor's permissions and document (`actor`), each
request with its control and answers (`request`), the desktop's list and review (`listed`,
`desk`) and the approval tasks (`task`). `set_wallet_authority` is two steps: the
replacement every check reads, and the invalidation of the listed requests. A task checks
the control and takes the hand-off in two more. The parameters of a request and their
validation, the networks and `wallet_addEthereumChain` are left out. There is one document
of one origin, and a permission can be used in any unlocked wallet. The desktop's update at
the end of a task is merged with the actor's step, and a command of the actor
reads the live authority once.

**FeeBoard**: one chain. `fees` are the rows shown, `publisher` the state of each
verified publisher with its active and pending generation and its high-water mark,
`unpublished` the revision each thread still has to publish. `mono` and `wall` are the
clocks; `wall` may step back by at most `MaxSkew`, and `peak` is the latest it showed.
`upsert_fee` is public and modelled, although only tests call it. `newest` is a history
variable.

`MC*.tla` give the constants their small values. The `*Proofs` modules hold the theorems
(section 4). Four of them extend two components each: GatewayProofs extends GatewayDraft
and DappApproval, AccountStoreProofs ExecutorIndex and NoteReservation, RpcEndpointsProofs
RpcJobs and EndpointHealth, RpcReadsProofs ReadCache and ReadyScheduler. The two components
of a pair share no state, and their definitions differ in name, so one of them names its
specification for itself: `DraftSpec`, `IndexSpec`, `HealthSpec` (EndpointHealth) and
`QueueSpec` (ReadyScheduler). The other proof modules extend the component they
are named after. The `TypeOK` of a module declares the types of its variables. No run
lists it: ExecutorIndex's `IndexTypeOK` is proved, and the other proofs carry the types
they need in an invariant of their own.

## 3. Runs

| Run | Instance | States | Shows |
|---|---|---|---|
| `read_cache` | 1 chain, 2 latest reads, 1 pinned, heads 1 and 2 | 185k | `NoStaleHit`, `NoStaleJoin` |
| `broker` | 3 submissions sharing reads, a channel of 2, 1 job at a time, an empty route | 66k | `ReplyInOnePlace`, `CreditUntilRetired`, `NoEarlyTimeout`, `EventuallyAnswered`, `ShutdownCompletes` |
| `scheduler` | 3 keys, 2 origins, 2 routes | 191k | `LanesReachEntries`, `TurnsBounded` |
| `jobs` | 2 jobs, 2 endpoints, 1 slot of each kind | 748k | `LedgerExact`, `ReadsOnlyVerified`, `NoLostWakeup`, `ParkedHears`, `SomebodyMoves` |
| `health` | 2 installations of 1 site, 1 pass slot | 38k | `RecoveryPending`, `RetryBacksOff`, `OfferedAgain` |
| `executor_index` | 5 indices, 3 records, 2 operations, 2 delegates | 215k | `UniqueIndex`, `HandedKept` |
| `note_reservation` | 2 accounts, 4 payloads, 2 notes, 2 blocks, 1 reorganisation | 582k | `OneReservation`, `FreeNotesUnspent`, `RunnableReserved` |
| `tracker` | 2 families, 2 hashes, 1 account, 2 scopes, 2 tickets | 647k | `PendingHasObserver`, `ClassifiesAsPromised`, `EligibleFresh`, `RefreshNotLost` |
| `block_observer` | 5 blocks in 2 branches, 2 endpoints, 2 attempts, 1 failing request | 225k | `NothingSkipped`, `ReportsAsPromised`, `EndsOnceSettled` |
| `drafts` | 2 drafts, 3 revisions, 2 versions of the funds | 2.8M | `RetryNeverReplays`, `HandoffNeverDenied`, `ExecutesWhatWasSubmitted` |
| `dapp` | 1 request of 3 kinds, 2 wallets, 2 changes | 1.1M | `AuthorityFence`, `HandedOffWhileHeld`, `AnsweredOnce`, `EveryRequestAnswered` |
| `fee_board` | 2 publishers for 1 slot, 1 token, clocks to 4 | 99k | `OneGeneration`, `NeverGoesBack`, `SignalCatchesUp`, `PendingNotStuck` |

`ClassifiesAsPromised` and `ReportsAsPromised` are the two refinements: the tracker and
the observer each implement `TransactionOutcome`. The tracker says nothing of which block
holds a hash (any may), so there the refinement is about what is pending and exhausted;
the observer's also about inclusions. Every property has a mutant in
`PROJECT.json`: a plausible mistake in the code (a dropped guard, a missing wakeup, a
settled nonce not lowered) under which TLC finds it violated.

### Bounds, and why they are enough

- *ReadCache*: `MaxGeneration = 1` stands for the `u64` limit, so exhausting the
  generation happens; `EntryLimit = 2` (1024 in the code) with three reads makes
  eviction happen; `Lease = 1` (two minutes) makes leases expire and be renewed; two
  heads give an older, an equal and a newer observation.
- *RpcBroker*: three submissions give two waiters on one key and a third that arrives
  around them; `Capacity` (256) of 2 is reached; `MaxInFlight` (4) of 1 makes work
  queue; `MaxCalls` (64) closes a batch early; `Interval = 1` is the 15 ms flush; one
  waiter of a key expires and the others have no deadline.
- *ReadyScheduler*: three keys, two of them batchable, and two origins give
  aggregates that compete with single reads in both lanes; `MaxReadyId = 4` bounds the
  counter of ids, which lets an entry be replaced after it was removed.
- *RpcJobs*: two jobs for one slot of each kind (`MAX_IN_FLIGHT` 4, 8 identity probes)
  contend everywhere; two endpoints allow failover and one being probed for the other.
- *EndpointHealth*: the strike threshold is the code's 3; the cooldown doubles from 1
  to `MaxCooldown = 4` (5 s to one hour), so its cap and the exponent's cap are
  reached; one pass slot (4) makes targets wait for each other.
- *ExecutorIndex*: positions 1..2 (1_000_000..1_000_063) lie inside indices 0..4
  (2^31), so allocation runs into both the range and the limit.
- *NoteReservation*: the payloads of two accounts compete for one note, one account
  has a second nonce, and a payload has a recovery at its own nonce; two blocks execute
  one before the other; one reorganisation takes an executed payload back.
- *TransactionTracker*: two families with both hashes, two scopes and two tickets (one
  in flight, one stale) give every pair of actors; three namespace identities keep an old
  one apart from the current one and the next; blocks 1 and 2 order rows and inclusions.
- *BlockObserver*: the branches part above the root, so a history of two blocks
  (`FinalityDepth = 1`) can be rolled back and one of one block cannot; two blocks per
  poll (`MAX_BLOCKS_PER_POLL`) and a branch of three blocks above the root let a poll stop
  in the middle; one endpoint has no block receipts; one request fails.
- *GatewayDraft*: two drafts make one retire while another runs; three revisions and two
  versions of the funds make an estimate late in both ways; two undelivered events cross.
- *DappApproval*: two changes, of authority, permission or document, suffice for each
  to happen before and after the check it races with; two wallets let one be switched to
  and back. The run has a transaction (`send`), an early acknowledged request (`watch`) and
  a change of network (`switch`). With `sign` and a `switch` that changes nothing as
  well, the instance has 1.4M states and passes too, in twice the time.
- *FeeBoard*: `Grace = MaxSkew = 2` and clocks to 4 let a publisher be evicted and
  the clock step back to before its expiration; a slot for one of two publishers is full;
  announcements with and without a row for the token replace each other. Expirations end
  at `MaxTtl = 4`, so an announcement that lives too long is not among the inputs; the
  theorems cover it.

Three runs have a state constraint `OneStory` in their MC module. Each is a set of
smaller instances in one run: in `note_reservation`, either two accounts compete or one
account is reorganised; in `tracker`, either scopes are replaced around one family,
or families share hashes; in `drafts`, either the book is busy or transactions
run. What a run shows is what it shows of each of these. No run with a liveness property
has a constraint.

Symmetry is used in `read_cache`, `scheduler`, `jobs`, `executor_index` and `tracker`,
over model values that the specifications treat alike, and never with a liveness
property. Deadlock checking is off in all runs but `read_cache`: submissions, ids,
records, blocks, drafts and clocks are bounded, and a broker that was shut down really
stops.

### Fairness

- *RpcBroker*: weak fairness of one action, that the actor receives, its timer fires, it
  stops, a job steps or time passes: while one of them can happen, one does. The actor is
  a running task, attempts have timeouts and time passes. Callers are not fair: one may
  abandon its request.
- *EndpointHealth*: strong fairness of `Tick`, because time diverges whatever else
  happens, and weak fairness of the warmup task's own steps.
  `OfferedAgain` is checked for one endpoint. With more endpoints than pass slots, one
  that fails for ever on a chain that is prioritised again and again may delay another
  chain's that has recovered; nothing is claimed of that case, which is listed as a hazard.
- *BlockObserver*: weak fairness of the poll's steps. The runtime polls the job's and the
  task's futures and every request ends by its timeout. Tips, failures, registration and
  cancellation are not fair; `EndsOnceSettled` speaks of chains that have come to rest.
- *DappApproval*: weak fairness of the actor's publication, tick and delivery, and of
  deadlines. Neither user, nor desktop, nor browser, nor task is fair.
- *FeeBoard*: weak fairness of the timer branch of the fees loop, of each thread's
  publication and of time.

RpcJobs has no liveness property: `SomebodyMoves` is its counterpart as an
invariant. As long as a job is unfinished, the actor or some job can take a step by itself.

### Limits of what the runs say

`FreeNotesUnspent` is claimed without reorganisations. Across one that removes a block
the store has already read, a payload executed again before the next read
counts as settled until sync has rescanned. The code reads at confirmed or safe
blocks, so this needs a reorganisation deeper than the finality it relies on.
`OneReservation` is claimed without reorganisations too, and exempts notes that the
user released and that sending the old payload reserved again, which the code permits
on purpose. `RunnableReserved` holds across reorganisations, from the account's next
accepted read. `HandedKept` is about the store's own operations: a spare in a row that
was lost or replaced from outside is lost with it. `NeverGoesBack` needs the grace to
cover the steps back of the wall clock; a larger step can bring an evicted publisher's
older announcement back. `HandoffNeverDenied` is about what the desktop knows once the
event is delivered; until then it may still show an earlier state.

No disagreement between the code and its documents was found in these parts.

## 4. Proofs

Eight modules hold theorems. They hold for all values of the constants that satisfy the
named assumptions, which also bound the runs: where an assumption asks for a finite set or
enough tickets, the program has finitely many threads, jobs and tickets at any time. Every
inductive invariant was checked by TLC on the component's instance before it was proved.

**RpcReadsProofs**, ReadCache (`CacheAssumption`, `NoneAssumption`): `StaleHitNever` proves
`[]NoStaleHit` and `StaleJoinNever` proves `[]NoStaleJoin`. Neither is inductive.
Both speak of the current, usable head, while an expired or exhausted head may be
renewed later; then what was stored under it would matter again. The invariant
`IInv` therefore says of every stored entry and of all running work, whatever the
head's state, that its epoch is the current one or the head is beyond it for good
(`BeyondEpoch`, defined there), and that what the history calls stale is of the second kind. The
lemmas show that each way a head may change keeps what is beyond, beyond.

**RpcReadsProofs**, ReadyScheduler (`SchedulerAssumption`, which asks for finitely many keys
and origins): `EntriesReached` proves `[]LanesReachEntries` and `TurnsAreBounded` proves
`[]TurnsBounded`. That a lane has a reference to an entry does not survive a step by itself:
a claim through one origin leaves references in the lanes of the others, and pruning removes
from the middle of every lane and may remove the lane and its turn. The invariant `QueueInv`
says of the work that the index names every live entry by each of its keys (`Indexed`); that
a live entry has every origin that waits for a key (`Known`); that queued and started work
share no key (`Apart`), and that started jobs share none and are waited for (`Active`). Of
the lanes it says that a live entry has exactly one reference in the lane of its class for
each of its origins (`Covered`), and none for another (`Confined`); that no reference is to an
id still to be given out (`Referring`), so a new entry is not found by an old reference; and
that the turns are those of the origins with a lane, once each (`Turned`). For the bound,
`Passed` adds the times an origin was passed over to its place in the turns, and says that the
sum is at most the number of origins. `KeptFacts` gives what pruning leaves of a sequence as an
increasing map from new places to old ones, from the ranks (`RanksNumber`) and without
induction. `PruneKeeps`, `PushReaches` and `AdmitKeeps` say what a pruning, the references
of new entries, and a whole admission keep.

**RpcBrokerProofs** (`BrokerAssumption`): `RepliesInOnePlace`, `CreditsCount` and
`OnlyLateTimeOut` prove `[]ReplyInOnePlace`, `[]CreditUntilRetired` and `NoEarlyTimeout`. A
reply moves through the channel, the batch and the work keys while its caller may be gone
and its work is shared, so the proof keeps one account of all of them (`Books`): a reply is
in at most one place and unanswered there (`OnePlace`); what is in the broker was sent and
has its credit, and what has its credit is in the broker or about to be sent (`Credited`);
credits fit the capacity (`CreditHeld`). `NoIdleCredit` says that no credit outlives its
last reply. The books are stated about any callers, work and answers, since the actor's
steps first move the channel into the batch and then plan, answer and retire in one step:
the lemmas follow them through these stages. `AttemptInv` (a key that was attempted
was not dropped before) gives the third theorem: what is answered as never sent has no
attempt, and only its own deadline takes it out of work that lives on.

**RpcEndpointsProofs**, RpcJobs (`JobsAssumption`, with finitely many jobs): `LedgerCounts`,
`AttemptsVerified`, `ActorNeverOversleeps` and `ParkedJobHears` prove `LedgerExact`,
`ReadsOnlyVerified`, `NoLostWakeup` and `ParkedHears`. Only the first is nearly
inductive (`AcquireCounts` and `ReleaseCounts` count holders). The others need what holds
between the check and the wait: `WakeInv` says that reads settled by the pump stay settled
until a wake-up is due, already while runners are still being handed out, and that queued
work without a verified endpoint is watched for; `JobInv` says that from its loop top on a
job listens, and that unless its notice fired it has seen every verified endpoint. The
proof shows that the wake-up argument does not depend on the request channel being empty.

**RpcEndpointsProofs**, EndpointHealth (`HealthAssumption`, `PowerAssumption`):
`ExcludedIsRetried` proves `[]RecoveryPending` and `RetryWaits` proves `RetryBacksOff`.
`RetryBacksOff` says that a retry waits out a cooldown, not that each cooldown is longer than
the one before.
For the first, a route is taken up once, and what is queued or checked belongs to a route
taken up already (`TakenUp`), so the targets a route brings are new to the queue. Targets
whose check starts leave the queue from its middle; the lemmas on listings say that what
is kept is the other targets, each once. The second needs that every pause is
at least one unit at every level a profile may have (`Leveled`). `PowerAssumption` says
that the powers of two up to the largest exponent are positive: `2^e` has a meaning for TLC
but none the provers know.

**BlockObserverProofs** (`ObserverConstants`, with a finite set of endpoints and heights
that follow the parents): `NothingPassed` proves `[]NothingSkipped` and
`ObserverRefinesOutcome` proves `ReportsAsPromised`, the refinement of TransactionOutcome.
The chain is any set of blocks with parents. `NothingSkipped` speaks of the last block of
the history only, and a rollback makes an earlier one the last, so `CleanHistory` says of
every retained block that its branch holds no attempt above the baseline. That an attempt
handed off later cannot be in a block already scanned needs `ChainInv`: what an endpoint
shows and what was scanned is registered. `PollInv` and `LookupInv` tie the poll and the
registry to the stage. For the refinement each step is shown to report at most one
classification for an attempt, from a registered attempt, and never after `Exhausted`
(`Reported`). `Branch` is defined as the least set closed under parents, not by recursion,
so the few facts about it need no induction.

**AccountStoreProofs**, ExecutorIndex (`PositionAssumption`, `LimitAssumption`, `BoundAssumption`,
`NoneAssumption`): `IndexNeverReused`, `RowAlwaysAccepted`, `PositionsKept`,
`SparesKept` and `TypeCorrect` prove `UniqueIndex`, `RowAccepted`, `OrdinaryOnly`,
`HandedKept` and `IndexTypeOK`. Uniqueness depends on no relation between row
and records, since the row may be any older one. The invariant `IndexIInv` is that the records
are sound on their own (distinct indices below the limit, operations outside the
positions) and that the row and any kept copy are valid. The lemma `Loading` is the heart:
after the load that begins every operation, the floor is above every record and a
spare that survived it is free. `SparesKept` adds that each step keeps a record for, or
leaves in the row, every spare shown, as long as nobody replaces the row.

**AccountStoreProofs**, NoteReservation (`ReservationAssumption`): `NotesReservedOnce`,
`RunnableKeepsNotes` and `FreeMeansUnspent` prove `[]OneReservation`,
`[]RunnableReserved` and `[]FreeNotesUnspent`. They rest on what evidence means on the
chain: every block consumed exactly the nonce of its payload (`ChainInv`); the watermark of
an account read since the last reorganisation is at most its nonce (`ReadInv`); without
reorganisations it is at most the nonce at its own block, and the settled nonce at most the
watermark and the nonce sync has scanned (`MarkInv`). So evidence only rises
(`MarkRises`), no reservation comes back by itself, and only signing, reserving again and
sending can create one. The lemmas on `NonceIn` say that nonces grow along a chain and
agree on common prefixes.

**FeeBoardProofs** (`FeeConstants`, which has `MaxSkew <= Grace`):
`BoardOneGeneration` proves `[]OneGeneration`, `BoardNeverGoesBack` proves
`NeverGoesBack` and `EveryRevisionSignalled` proves `[]SignalCatchesUp`. The second is not inductive, because an eviction forgets the high-water
mark it depends on. The invariant `IInv` has four parts: the types; the wall clock is
within `MaxSkew` of its peak; a publisher's mark is its newest announcement, and its rows
and its pending rows are each of one generation; and a publisher that was forgotten had
its newest expiration more than the grace before the peak. With the assumption, an
announcement as old as that has expired on any clock the wallet may show. `Admit` has the
long case: the same call may evict, admit or hold back. The third needs that the signal
and what threads have yet to publish are never above the board's revision, and that the
revision is always in one of them (`SignalInv`); it assumes finitely many publishers.

**TransactionTrackerProofs** (`CacheConstants`, `TrackerConstants`): four results
about the tracker with the balance cache.
- `PendingIsWatched` (`[]PendingHasObserver`) and `TrackerRefinesOutcome`
  (`ClassifiesAsPromised`, the refinement of TransactionOutcome). The invariant
  `RegistryInv` adds to `PendingHasObserver` and the types what a family's stage implies
  for its attempts: a family not yet started has none, and every attempt of a family has
  been classified. Each action then maps to a step of the abstract specification or a
  stutter.
- `BalancesFresh` (`[]EligibleFresh`). A row that may be served is fresh because of what
  was recorded steps before: `FenceInv` ties the minimum block of the namespace and of each
  ticket in flight to the inclusions already reported, and says which families the root
  still has to fence while scopes are replaced. `CacheConstants` asks for more tickets than
  the bound on stale ones, so that a refresh can begin.
- `QueuedRefreshKept` (`[]RefreshNotLost`), with `QueueInv` and `AfterInv` on what the root
  will still do.

**GatewayProofs**, GatewayDraft (`DraftConstants`): `OfferedNeverPays`, `SubmittedIsExecuted` and
`FinalHandoffAdmitted` prove `[]RetryNeverReplays`, `[]ExecutesWhatWasSubmitted` and
`[]HandoffNeverDenied`. What the browser is offered depends on events that arrive after the
task moved on, so the invariant relates the two sides (`ExecInv`): an execution the handle
believes fresh is untouched by its task; one that was offered has failed and never started;
once it started, denials come only from a cancel; after the final event neither a denial
nor a stop is left to come. `BookInv` says that estimates under way are of the current
revision or an older one, and that only the one of the current revision and funds can
become the draft's.

**GatewayProofs**, DappApproval (`DappConstants`): `NoForeignHandOff` proves `AuthorityFence`, `HandOffIsHeld` proves
`HandedOffWhileHeld` and `OneAnswer` proves `[]AnsweredOnce`. The first two are action
properties of the compare-and-swap, and rest on `FenceInv`: a task past its start has a
request that is executing or invalidated, an executing request is listed by the desktop (so
a change of authority reaches it), and outside a change it is owned by the live authority.
`Counted` says that a request still to be answered has no answer sent or queued. The lemmas
describe once what any handler of the actor may do to a request (`Moved`).

`RowAccepted`, `OrdinaryOnly` and `IndexTypeOK` of ExecutorIndex are proved and not
repeated in a run.

**Only model-checked**: all liveness properties, and `SomebodyMoves` (fairness and ENABLED
are out of the prover's reach). Every other property of the runs is a theorem. Nothing is
proved about what the library's recursive `SelectSeq` keeps, which would be an induction over
data: RpcJobs
filters its queue with it where late work leaves, and its proofs use only that an empty
queue stays empty; the type of that queue is not proved. No module uses RECURSIVE operators.

## 5. Plan

Modelled so far: the broker, which every read depends on; the account store, where a
mistake loses funds; what happens to public transactions after they are sent; the
gateway's approvals and public drafts; the fee board. Next, in this order:

1. `SwapUses` (`vault/executors/swap*.rs`), composed with `NoteReservation`: uses, hooks
   and destination outcomes of an order on an account.
2. The attempt loop of `public_wallet/submission.rs`: replacement attempts, the hand-off
   to the network and the observer, composed with `TransactionTracker`.
3. Private drafts and read admission in the gateway; WalletConnect's life cycle.
4. Query-pool admission and multicall reduction in the broker; warmup with more failing
   endpoints than slots.
5. An abstract request/reply specification that `RpcBroker` implements, and the
   account of slots that `RpcJobs` and `RpcBroker` share.

Theorems: the same account of slots for `RpcJobs` and `RpcBroker`, and those of the new
modules.
