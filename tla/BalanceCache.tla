---------------------------- MODULE BalanceCache ----------------------------
(***************************************************************************)
(* The public balance cache of one chain: the namespace of the wallet      *)
(* owner's current scope, and the refresh tickets handed out for it        *)
(* (public_wallet/balance_cache.rs).  Every operation runs under the cache *)
(* mutex and is one step here.  The operations are functions of the        *)
(* namespace, so that the tracker can call them inside its own critical    *)
(* section; TransactionTracker composes the two.                           *)
(*                                                                         *)
(* A block is its number and 0 stands for None.  A row is the block it was *)
(* observed at: amounts and the 30 s age limit only take eligibility away. *)
(* The code compares the namespace's generation with the in-flight         *)
(* ticket's for equality and nothing else, so `moved' records whether it   *)
(* advanced since that ticket was admitted.  Identities are Arc pointers   *)
(* compared with ptr_eq: a new one differs from every one still held.  The *)
(* ids of failed refreshes, which only the account list shows, are left    *)
(* out.                                                                    *)
(***************************************************************************)
EXTENDS Naturals, FiniteSets

CONSTANTS Accounts,   \* public account ids
          Scopes,     \* scopes: wallet generation, broker and route
          NoScope,    \* no scope: the vault is locked or the chain disabled
          TicketIds,  \* identities of refresh tickets in flight at once
          NoTicket,
          NsIds,      \* identities of namespaces held at once
          NoNs,
          MaxStale,   \* bound on the tickets that outlive a namespace
          MaxBlock    \* highest block of the instance

ASSUME CacheConstants ==
    /\ NoScope \notin Scopes
    /\ NoTicket \notin TicketIds
    /\ NoNs \notin NsIds
    /\ MaxStale \in Nat
    /\ IsFiniteSet(TicketIds) /\ MaxStale < Cardinality(TicketIds)
    /\ MaxBlock \in Nat

VARIABLES ns,      \* the chain's Namespace; ns.id = NoNs: there is none
          tickets  \* the tickets not yet consumed by finish_refresh

cacheVars == <<ns, tickets>>

Blocks == 0..MaxBlock

Namespace ==
    [id : NsIds \cup {NoNs}, scope : Scopes \cup {NoScope},
     observed : [Accounts -> Blocks], pending : SUBSET Accounts,
     active : TicketIds \cup {NoTicket}, queued : SUBSET Accounts,
     minimum : Blocks, moved : BOOLEAN]

Ticket == [id : TicketIds, scope : Scopes, account : Accounts, minimum : Blocks]

CacheTypeOK ==
    /\ ns \in Namespace
    /\ tickets \subseteq Ticket

Higher(a, b) == IF a >= b THEN a ELSE b

----------------------------------------------------------------------------
\* A namespace just inserted for scope s under identity i.
NewNamespace(i, s) ==
    [id |-> i, scope |-> s, observed |-> [a \in Accounts |-> 0],
     pending |-> {}, active |-> NoTicket, queued |-> {}, minimum |-> 0,
     moved |-> FALSE]

NoNamespace == NewNamespace(NoNs, NoScope)

Matches(n, s) == n.id # NoNs /\ n.scope = s

\* scope_identity
ScopeIdentity(n, s) == IF Matches(n, s) THEN n.id ELSE NoNs

\* reconcile_scopes (and set_scope) for this chain; `held' are the identities
\* somebody else still keeps a pointer to.
ReconcileScopes(s, held) ==
    IF Matches(ns, s) THEN ns' = ns
    ELSE IF s = NoScope THEN ns' = NoNamespace
    ELSE \E i \in NsIds \ held : ns' = NewNamespace(i, s)

\* The generation advances.
Advance(n) == [n EXCEPT !.moved = n.active # NoTicket]

\* fence, of an account whose pending state and inclusion the caller gives.
Fence(n, s, a, pending, inclusion, queue) ==
    IF ~Matches(n, s) THEN n
    ELSE [Advance(n) EXCEPT
                   !.pending = IF pending THEN @ \cup {a} ELSE @ \ {a},
                   !.observed[a] = 0,
                   !.minimum = Higher(@, inclusion),
                   !.queued = IF queue THEN @ \cup {a} ELSE @]

\* Namespace::start: admit a ticket for account a on namespace n.
Start(n, a, others) ==
    \E i \in TicketIds \ {t.id : t \in others} :
        /\ ns' = [n EXCEPT !.active = i, !.moved = FALSE]
        /\ tickets' = others \cup
             {[id |-> i, scope |-> n.scope, account |-> a, minimum |-> n.minimum]}

\* start_queued picks any queued account.
StartQueued(n, others) ==
    \E a \in n.queued : Start([n EXCEPT !.queued = @ \ {a}], a, others)

\* Bound: an identity is left for another ticket.
TicketLeft == Cardinality(tickets) < Cardinality(TicketIds)

\* Bound: a namespace is given up only while at most MaxStale tickets are out.
FewStale == Cardinality(tickets) <= MaxStale

\* begin_refresh of the accounts S in scope s.
BeginRefresh(s, S) ==
    /\ Matches(ns, s)
    /\ IF ns.active # NoTicket
       THEN /\ ns' = [ns EXCEPT !.queued = @ \cup S]
            /\ UNCHANGED tickets
       ELSE \E a \in S :
              Start([ns EXCEPT !.queued = (@ \cup S) \ {a}], a, tickets)

\* take_queued_refreshes: the namespace must be idle.
TakeQueued ==
    /\ ns.id # NoNs /\ ns.active = NoTicket /\ ns.queued # {}
    /\ StartQueued(ns, tickets)

\* retain_accounts
RetainAccounts(n, S) ==
    IF n.id = NoNs THEN n
    ELSE [Advance(n) EXCEPT
                   !.observed = [a \in Accounts |-> IF a \in S THEN @[a] ELSE 0]]

\* The row that a refresh which returned a complete row observed at block b, or
\* an incomplete one (b = 0), leaves.
RefreshedRow(t, b) == IF b >= t.minimum THEN b ELSE 0

\* What an accepted completion does to the namespace; b is the block of the
\* returned row, and failed says that no row came back.
Accepted(n, t, failed, b) ==
    [n EXCEPT !.observed[t.account] = IF failed THEN 0 ELSE RefreshedRow(t, b)]

\* The generation still is the ticket's.
CurrentAlways(n) == TRUE
Current(n) == ~n.moved

\* A fenced ticket's account is queued again.
Requeued(n, t) == [n EXCEPT !.queued = @ \cup {t.account}]

\* A completion admits a queued account.
FollowNever(n, others) == ns' = n /\ tickets' = others
FollowUp(n, others) ==
    IF n.queued = {} THEN ns' = n /\ tickets' = others
    ELSE StartQueued(n, others)

\* finish_refresh: a ticket that is not the in-flight one of its own scope is
\* rejected and changes nothing; a fenced one only queues its account again.
FinishRefresh(t, failed, b) ==
    /\ t \in tickets
    /\ IF ~Matches(ns, t.scope) \/ ns.active # t.id
       THEN /\ tickets' = tickets \ {t}
            /\ UNCHANGED ns
       ELSE LET idle == [ns EXCEPT !.active = NoTicket, !.moved = FALSE]
                n == IF Current(ns) THEN Accepted(idle, t, failed, b)
                     ELSE Requeued(idle, t)
            IN  FollowUp(n, tickets \ {t})

\* eligible_balance_entry, for an account of the wallet in the current scope.
Eligible(a) ==
    /\ ns.id # NoNs
    /\ a \notin ns.pending
    /\ ns.observed[a] > 0
=============================================================================
