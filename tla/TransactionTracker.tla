------------------------- MODULE TransactionTracker -------------------------
(***************************************************************************)
(* The tracker of submitted public transactions of one chain, together     *)
(* with the balance cache it fences (public_wallet/transaction_tracker.rs  *)
(* and its root, root/public_transactions.rs and root/gateway.rs).         *)
(*                                                                         *)
(* A family is one observer's set of attempts.  Its observer lives in the  *)
(* guard of a submission job, then in a retained background task, and is   *)
(* dropped at the end.  Several families may register the same hash and    *)
(* write its classification.  The registry is behind one mutex: each call  *)
(* that takes it is one step.  Only the owner of a family moves its        *)
(* inclusion, so that the two lock sections of recovered and of drop act   *)
(* as one.                                                                 *)
(*                                                                         *)
(* The desktop root is one thread: it replaces the scope, reloads the      *)
(* accounts, and publishes in two calls (reconcile_scopes on the cache,    *)
(* then reconcile_scope on the tracker) between which observers go on.     *)
(* What an observer sees on chain is BlockObserver's subject: here it may  *)
(* report an inclusion, a rollback, a recovery or a failure at any time.   *)
(***************************************************************************)
EXTENDS BalanceCache

CONSTANTS Families,      \* the observers of the instance
          AccountOf,     \* the account each family's context captured
          Hashes,        \* transaction hashes
          Attempts       \* the hashes each family may register

ASSUME TrackerConstants ==
    /\ AccountOf \in [Families -> Accounts]
    /\ Attempts \in [Families -> SUBSET Hashes]

VARIABLES stage,      \* where each family's observer lives
          famScope,   \* Family.scope
          famNs,      \* Family.cache_scope_identity
          hashes,     \* Family.hashes
          inclusion,  \* Family.inclusion
          lookup,     \* Registry.hashes
          closed,     \* admission is closed (the tracker's and the root's)
          scope,      \* the root's current balance scope
          listed,     \* the root's public accounts
          root,       \* what the root thread is doing
          after,      \* what it does once it has published
          wake,       \* the watch channel holds an unseen change
          skipped     \* a wakeup was consumed while admission was closed

registryVars == <<famScope, famNs, hashes, inclusion, lookup>>
rootVars == <<scope, listed, root, after, skipped>>
vars == <<ns, tickets, stage, famScope, famNs, hashes, inclusion, lookup,
          closed, scope, listed, root, after, wake, skipped>>

Untracked == [kind |-> "untracked", block |-> 0]
Pending == [kind |-> "pending", block |-> 0]
Unavailable == [kind |-> "unavailable", block |-> 0]
Exhausted == [kind |-> "exhausted", block |-> 0]
Included(b) == [kind |-> "included", block |-> b]

Lookup == {Untracked, Pending, Unavailable, Exhausted}
              \cup {Included(b) : b \in 1..MaxBlock}

\* guard: in a submission job; task: retained by the tracker; ended: its loop
\* or its job is over and the observer is about to be dropped.
Stages == {"none", "guard", "task", "ended", "gone"}

TypeOK ==
    /\ CacheTypeOK
    /\ stage \in [Families -> Stages]
    /\ famScope \in [Families -> Scopes \cup {NoScope}]
    /\ famNs \in [Families -> NsIds \cup {NoNs}]
    /\ hashes \in [Families -> SUBSET Hashes]
    /\ inclusion \in [Families -> Blocks]
    /\ lookup \in [Hashes -> Lookup]
    /\ closed \in BOOLEAN /\ wake \in BOOLEAN /\ skipped \in BOOLEAN
    /\ scope \in Scopes \cup {NoScope}
    /\ listed \subseteq Accounts
    /\ root \in {"idle", "scopes", "tracker", "take", "begin"}
    /\ after \in {"idle", "take", "begin"}

Init ==
    /\ ns = NoNamespace /\ tickets = {}
    /\ stage = [f \in Families |-> "none"]
    /\ famScope = [f \in Families |-> NoScope]
    /\ famNs = [f \in Families |-> NoNs]
    /\ hashes = [f \in Families |-> {}]
    /\ inclusion = [f \in Families |-> 0]
    /\ lookup = [h \in Hashes |-> Untracked]
    /\ closed = FALSE
    /\ scope = NoScope /\ listed = {}
    /\ root = "idle" /\ after = "idle"
    /\ wake = FALSE /\ skipped = FALSE

----------------------------------------------------------------------------
\* Registry::invalidate.  The families of account a with attempts, resolved
\* or not and whatever scope they were started under, decide its fence.
Mine(a, hs) == {f \in Families : AccountOf[f] = a /\ hs[f] # {}}

Invalidate(n, s, a, hs, inc, queue) ==
    LET mine == Mine(a, hs)
        pending == \E f \in mine : inc[f] = 0
        top == CHOOSE b \in Blocks :
                 /\ \A f \in mine : inc[f] <= b
                 /\ b = 0 \/ \E f \in mine : inc[f] = b
    IN  IF mine = {} THEN n ELSE Fence(n, s, a, pending, top, queue)

\* notify: fence and queue the family's account, then wake the root.
Notify(f, hs, inc) ==
    /\ ns' = Invalidate(ns, famScope[f], AccountOf[f], hs, inc, TRUE)
    /\ wake' = TRUE

\* A family's verdict for one of its hashes; an exhausted one is latched.
VerdictUnlatched(h, state) == state
Verdict(h, state) == IF lookup[h] = Exhausted THEN Exhausted ELSE state

\* PublicTransactionFamily::update: block b (0: none) holds the hashes `won'
\* (one or none), every other hash of the family becomes `other'.
Update(f, won, b, other) ==
    /\ inclusion' = [inclusion EXCEPT ![f] = b]
    /\ lookup' = [h \in Hashes |->
         IF h \notin hashes[f] THEN lookup[h]
         ELSE Verdict(h, IF h \in won THEN Included(b) ELSE other)]
    /\ IF inclusion' # inclusion \/ lookup' # lookup
       THEN Notify(f, hashes, inclusion')
       ELSE UNCHANGED <<ns, wake>>
    /\ UNCHANGED <<famScope, famNs, hashes>>

----------------------------------------------------------------------------
(* Observers                                                               *)

\* A submission job is admitted: ensure_open, then with_tracking starts the
\* family.  Its context captured scope s, perhaps before a scope change.
Admit(f, s) ==
    /\ stage[f] = "none" /\ ~closed
    /\ stage' = [stage EXCEPT ![f] = "guard"]
    /\ famScope' = [famScope EXCEPT ![f] = s]
    /\ famNs' = [famNs EXCEPT ![f] = ScopeIdentity(ns, s)]
    /\ UNCHANGED <<ns, tickets, hashes, inclusion, lookup, closed, wake>>
    /\ UNCHANGED rootVars

\* Register an attempt just before its raw send.  The job checked admission
\* before; the tracker may have closed since.
Register(f, h) ==
    /\ stage[f] = "guard" /\ h \in Attempts[f] \ hashes[f]
    /\ hashes' = [hashes EXCEPT ![f] = @ \cup {h}]
    /\ inclusion' = [inclusion EXCEPT ![f] = 0]
    /\ lookup' = [lookup EXCEPT ![h] = IF @ = Untracked THEN Pending ELSE @]
    /\ Notify(f, hashes', inclusion')
    /\ UNCHANGED <<tickets, stage, famScope, famNs, closed>>
    /\ UNCHANGED rootVars

Polling(f) == stage[f] \in {"guard", "task"} /\ hashes[f] # {}

\* poll found attempt h in block b: a task ends, a job returns its receipt.
ObserveInclusion(f, h, b) ==
    /\ Polling(f) /\ inclusion[f] = 0 /\ h \in hashes[f]
    /\ Update(f, {h}, b, Unavailable)
    /\ stage' = [stage EXCEPT ![f] = "ended"]
    /\ UNCHANGED <<tickets, closed>>
    /\ UNCHANGED rootVars

\* poll rolls back (pending), or advances (recovered, unless included).
ObservePending(f) ==
    /\ Polling(f) /\ inclusion[f] = 0
    /\ Update(f, {}, 0, Pending)
    /\ UNCHANGED <<tickets, stage, closed>>
    /\ UNCHANGED rootVars

\* poll met failing or unsupported endpoints but one that only lags.
ObserveUnavailable(f) ==
    /\ Polling(f) /\ inclusion[f] = 0
    /\ Update(f, {}, 0, Unavailable)
    /\ UNCHANGED <<tickets, stage, closed>>
    /\ UNCHANGED rootVars

\* poll failed in a retained task: discovery is exhausted, the task ends.
Exhaust(f) ==
    /\ Polling(f) /\ stage[f] = "task"
    /\ Update(f, {}, 0, Exhausted)
    /\ stage' = [stage EXCEPT ![f] = "ended"]
    /\ UNCHANGED <<tickets, closed>>
    /\ UNCHANGED rootVars

\* needs_observation
NeedsObservation(f) == hashes[f] # {} /\ inclusion[f] = 0

\* transfer, by handoff or by dropping the guard: retain_observer under the
\* jobs lock.
Transfer(f) ==
    /\ stage[f] = "guard"
    /\ stage' = [stage EXCEPT ![f] =
         IF ~closed /\ NeedsObservation(f) THEN "task" ELSE "ended"]
    /\ UNCHANGED <<ns, tickets, closed, wake>>
    /\ UNCHANGED registryVars /\ UNCHANGED rootVars

\* An aborted task stops at its next await.
Abort(f) ==
    /\ stage[f] = "task" /\ closed
    /\ stage' = [stage EXCEPT ![f] = "ended"]
    /\ UNCHANGED <<ns, tickets, closed, wake>>
    /\ UNCHANGED registryVars /\ UNCHANGED rootVars

\* Drop of the family: an unresolved one leaves its hashes unavailable.
DropSilently(f) ==
    /\ stage[f] = "ended"
    /\ stage' = [stage EXCEPT ![f] = "gone"]
    /\ UNCHANGED <<ns, tickets, closed, wake>>
    /\ UNCHANGED registryVars /\ UNCHANGED rootVars
Drop(f) ==
    /\ stage[f] = "ended"
    /\ stage' = [stage EXCEPT ![f] = "gone"]
    /\ IF inclusion[f] = 0 THEN Update(f, {}, 0, Unavailable)
       ELSE UNCHANGED <<ns, wake>> /\ UNCHANGED registryVars
    /\ UNCHANGED <<tickets, closed>>
    /\ UNCHANGED rootVars

----------------------------------------------------------------------------
(* The root                                                                *)

\* The root's shutdown of submissions closes admission and aborts tasks.
Close ==
    /\ ~closed /\ closed' = TRUE
    /\ UNCHANGED <<ns, tickets, stage, wake>>
    /\ UNCHANGED registryVars /\ UNCHANGED rootVars

\* resume_public_transactions, once the cleanup has awaited every observer.
Resume ==
    /\ closed /\ root = "idle"
    /\ \A f \in Families : stage[f] \in {"none", "gone"}
    /\ closed' = FALSE
    /\ root' = "scopes"
    /\ UNCHANGED <<ns, tickets, stage, scope, listed, after, wake, skipped>>
    /\ UNCHANGED registryVars

\* A settings change or an unlock gives the root another scope, which it
\* publishes; it also publishes when nothing changed.
ChangeScope(s) ==
    /\ root = "idle" /\ FewStale
    /\ scope' = s /\ root' = "scopes"
    /\ UNCHANGED <<ns, tickets, stage, closed, listed, after, wake, skipped>>
    /\ UNCHANGED registryVars

\* clear_public_wallet_runtime_state on a lock or a wallet change.
ClearWallet ==
    /\ root = "idle" /\ FewStale /\ scope # NoScope
    /\ ns' = NoNamespace
    /\ scope' = NoScope /\ listed' = {} /\ root' = "scopes"
    /\ UNCHANGED <<tickets, stage, closed, after, wake, skipped>>
    /\ UNCHANGED registryVars

\* The accounts are reloaded as S, then published.
ReloadAccounts(S) ==
    /\ root = "idle" /\ scope # NoScope /\ S # listed
    /\ ns' = RetainAccounts(ns, S)
    /\ listed' = S /\ root' = "scopes"
    /\ UNCHANGED <<tickets, stage, closed, scope, after, wake, skipped>>
    /\ UNCHANGED registryVars

\* watch_public_transactions sees a change: publish, then take refreshes.
HandleWake ==
    /\ root = "idle" /\ wake
    /\ wake' = FALSE
    /\ root' = "scopes" /\ after' = "take"
    /\ UNCHANGED <<ns, tickets, stage, closed, scope, listed, skipped>>
    /\ UNCHANGED registryVars

\* publish_gateway_desktop_state, first call: the cache's scopes.
PublishScopes ==
    /\ root = "scopes" /\ root' = "tracker"
    /\ ReconcileScopes(scope, {famNs[f] : f \in Families})
    /\ UNCHANGED <<tickets, stage, closed, scope, listed, after, wake, skipped>>
    /\ UNCHANGED registryVars

\* A family whose recorded namespace is not the current one.
Moved(f) == AccountOf[f] \in listed /\ stage[f] # "none" /\ famNs[f] # ns.id

\* The accounts that have a moved family and attempts to restore.
Restored == {a \in Accounts :
               /\ \E f \in Families : Moved(f) /\ AccountOf[f] = a
               /\ Mine(a, hashes) # {}}

\* The fences of those accounts, none of which depends on another's.
Refenced(n) ==
    LET fenced(a) == Invalidate(n, n.scope, a, hashes, inclusion, FALSE)
        minima == {n.minimum} \cup {fenced(a).minimum : a \in Restored}
    IN  IF Restored = {} THEN n
        ELSE [Advance(n) EXCEPT
                !.pending = (@ \ Restored) \cup {a \in Restored : a \in fenced(a).pending},
                !.observed = [a \in Accounts |-> IF a \in Restored THEN 0 ELSE @[a]],
                !.minimum = CHOOSE b \in minima : \A c \in minima : c <= b]

\* Second call: reconcile_scope on the tracker, for the listed accounts.
PublishTracker ==
    /\ root = "tracker"
    /\ root' = after /\ after' = "idle"
    /\ IF ns.id = NoNs THEN UNCHANGED <<ns, famScope, famNs>>
       ELSE /\ ns' = Refenced(ns)
            /\ famScope' = [f \in Families |-> IF Moved(f) THEN ns.scope ELSE famScope[f]]
            /\ famNs' = [f \in Families |-> IF Moved(f) THEN ns.id ELSE famNs[f]]
    /\ UNCHANGED <<tickets, stage, hashes, inclusion, lookup, closed, scope,
                   listed, wake, skipped>>

\* The watcher admits one queued refresh unless submissions are closed.
TakeRefreshes ==
    /\ root = "take" /\ root' = "idle"
    /\ IF closed \/ ns.id = NoNs \/ ns.active # NoTicket \/ ns.queued = {}
             \/ ~TicketLeft
       THEN UNCHANGED cacheVars
       ELSE TakeQueued
    /\ skipped' = (skipped \/ closed)
    /\ UNCHANGED <<stage, closed, scope, listed, after, wake>>
    /\ UNCHANGED registryVars

\* The timer or the user asks for a refresh: publish first ...
ScheduleRefresh ==
    /\ root = "idle" /\ scope # NoScope /\ listed # {} /\ TicketLeft
    /\ root' = "scopes" /\ after' = "begin"
    /\ UNCHANGED <<ns, tickets, stage, closed, scope, listed, wake, skipped>>
    /\ UNCHANGED registryVars

\* ... then admit or queue the accounts S and publish again.
ScheduleAccounts(S) ==
    /\ root = "begin" /\ root' = "scopes"
    /\ BeginRefresh(scope, S)
    /\ UNCHANGED <<stage, closed, scope, listed, after, wake, skipped>>
    /\ UNCHANGED registryVars

\* A refresh comes back, with a row or without; then publish.
Complete(t, failed, b) ==
    /\ root = "idle" /\ root' = "scopes"
    /\ FinishRefresh(t, failed, b)
    /\ UNCHANGED <<stage, closed, scope, listed, after, wake, skipped>>
    /\ UNCHANGED registryVars

Observe ==
    \E f \in Families :
        \/ \E s \in Scopes : Admit(f, s)
        \/ \E h \in Hashes : Register(f, h)
        \/ \E h \in Hashes, b \in 1..MaxBlock : ObserveInclusion(f, h, b)
        \/ ObservePending(f)
        \/ ObserveUnavailable(f)
        \/ Exhaust(f)
        \/ Transfer(f)
        \/ Abort(f)
        \/ Drop(f)

Manage ==
    \/ Close
    \/ Resume
    \/ \E s \in Scopes \cup {NoScope} : ChangeScope(s)
    \/ ClearWallet
    \/ \E S \in SUBSET Accounts : ReloadAccounts(S)
    \/ HandleWake
    \/ PublishScopes
    \/ PublishTracker
    \/ TakeRefreshes
    \/ ScheduleRefresh
    \/ \E S \in SUBSET listed \ {{}} : ScheduleAccounts(S)
    \/ \E t \in tickets, failed \in BOOLEAN, b \in Blocks : Complete(t, failed, b)

Next == Observe \/ Manage

Spec == Init /\ [][Next]_vars

----------------------------------------------------------------------------
(* Properties                                                              *)

\* The observer of f has not been dropped.
Live(f) == stage[f] \in {"guard", "task", "ended"}

\* A hash classified pending is watched by some observer that is not dropped
\* and not resolved, however jobs, tasks, aborts, shutdown and a successor
\* interleave and whichever families share the hash.
PendingHasObserver ==
    \A h \in Hashes : lookup[h] = Pending =>
        \E f \in Families : Live(f) /\ h \in hashes[f] /\ inclusion[f] = 0

\* Once the root has handled the wakeups, a balance the cache would serve for
\* a listed account was read at or above the block of every inclusion of the
\* account's transactions, and none of them is unresolved: no stale refresh,
\* no scope change and no other family's event brings an older one back.
EligibleFresh ==
    \A a \in listed :
        (Eligible(a) /\ ~wake /\ root \in {"idle", "take", "begin"}) =>
            \A f \in Mine(a, hashes) :
                inclusion[f] # 0 /\ ns.observed[a] >= inclusion[f]

\* A queued refresh is never forgotten: with no ticket in flight whose end
\* would admit it, the root has a wakeup to handle or is handling one.
RefreshNotLost ==
    (ns.id # NoNs /\ ns.queued # {} /\ ns.active = NoTicket) =>
        wake \/ "take" \in {root, after} \/ skipped

\* The hashes an unresolved observer looks for.
Watched ==
    {h \in Hashes : \E f \in Families :
        Live(f) /\ h \in hashes[f] /\ inclusion[f] = 0}

\* The registry implements the abstract classification.
Outcome == INSTANCE TransactionOutcome WITH
    MayInclude <- Hashes \X (1..MaxBlock),
    outcome <- lookup, watched <- Watched

ClassifiesAsPromised == Outcome!Spec
=============================================================================
