---------------------------- MODULE DappApproval ----------------------------
(***************************************************************************)
(* A dapp's requests that need the user's approval, from the browser's     *)
(* request to the answer it gets: the gateway actor (gateway/approvals.rs, *)
(* gateway/provider.rs), the desktop that owns the authority the requests  *)
(* are approved under (root/gateway.rs), the approval task of each request *)
(* (walletconnect/requests.rs) and the control that the three share        *)
(* (dapp_request.rs).                                                      *)
(*                                                                         *)
(* The desktop replaces the live authority at once, then invalidates the   *)
(* requests the actor has listed; the actor learns of the change later.    *)
(* A task reads the live authority and hands its transaction to the        *)
(* network in two steps.  One document of one origin; a wallet stands for  *)
(* everything same_authority compares but the unlock cohort.  What a       *)
(* request asks for, the networks it names and wallet_addEthereumChain are *)
(* left out.                                                               *)
(***************************************************************************)
EXTENDS Naturals, Sequences, FiniteSets

CONSTANTS Requests,     \* the requests the document makes
          Kinds,        \* the methods they may be of
          Wallets,      \* the wallets that may be unlocked
          Locked,       \* the authority has no view
          MaxApprovals, \* MAX_APPROVALS
          MaxChanges    \* bound on the changes of the authority, the new permissions
                        \* and the new documents together

\* send: eth_sendTransaction; sign: a signature; watch: wallet_watchAsset;
\* switch: wallet_switchEthereumChain; stay: the same, to the chain selected.
ASSUME DappConstants ==
    /\ Kinds \subseteq {"send", "sign", "watch", "switch", "stay"}
    /\ Locked \notin Wallets
    /\ {MaxApprovals, MaxChanges} \subseteq Nat

VARIABLES live,       \* the desktop's authority, which every check reads
          attempt,    \* an unlock attempt of the live cohort is under way
          changing,   \* set_wallet_authority has not invalidated yet
          generation, \* epoch of the published state
          dirty,      \* the published state is newer than the one last sent
          command,    \* the WalletState command on its way to the actor
          actor,      \* the provider's wallet, epoch, permission and document
          request,    \* each request: its PendingApproval, control and answers
          listed,     \* approval_updates, as the desktop sees it
          desk,       \* the desktop's view of each request
          approval    \* the approval task of each request

desktop == <<live, attempt, changing, generation, dirty>>
vars == <<live, attempt, changing, generation, dirty, command, actor, request,
          listed, desk, approval>>

NoCohort == MaxChanges + 1
NoAuthority == [cohort |-> NoCohort, completed |-> FALSE, wallet |-> Locked]
NoCommand == [authority |-> NoAuthority, generation |-> 0]
NoOwner == [authority |-> NoAuthority, generation |-> 0, incarnation |-> 0,
            document |-> 0, permission |-> 0]
Held == {"waiting", "ready", "executing"}
Ready == {"ready", "executing"}

NewRequest == [phase |-> "new", kind |-> "none", cohort |-> NoCohort,
               incarnation |-> 0, acknowledged |-> FALSE, owner |-> NoOwner,
               invalid |-> FALSE, handed |-> FALSE, expired |-> FALSE,
               outbox |-> <<>>, answers |-> <<>>]

Init ==
    /\ \E w \in Wallets \cup {Locked} :
          live = [cohort |-> 0, completed |-> w # Locked, wallet |-> w]
    /\ attempt = FALSE /\ changing = FALSE
    /\ generation = 0 /\ dirty = FALSE /\ command = NoCommand
    /\ actor = [wallet |-> live, generation |-> 0, grant |-> 1, granted |-> 1,
                incarnation |-> 1, documents |-> 1, document |-> 1,
                disclosure |-> IF live.wallet = Locked THEN 0 ELSE 1]
    /\ request = [r \in Requests |-> NewRequest]
    /\ listed = {}
    /\ desk = [r \in Requests |-> "absent"]
    /\ approval = [r \in Requests |-> "none"]

\* The bound on what a behaviour may change.
MayChange ==
    generation + (IF changing THEN 1 ELSE 0) + (actor.granted - 1)
      + (actor.documents - 1) < MaxChanges

----------------------------------------------------------------------------
(* Checks: q is a request, a the actor's state                             *)

\* The permission of the origin, 0 when there is none to use.
Resolve(a) == IF a.wallet.wallet = Locked THEN 0 ELSE a.grant

\* ensure_current.
Current(q) == /\ ~q.invalid
              /\ live.wallet # Locked
              /\ live = q.owner.authority
              /\ ~q.expired

\* validate_owner, for owner o of request q.
OwnerValid(a, q, o) ==
    /\ a.incarnation = o.incarnation
    /\ live = o.authority
    /\ Resolve(a) = o.permission
    /\ a.wallet = o.authority
    /\ <<a.generation, a.document>> = <<o.generation, o.document>>
    /\ ~q.expired

WaitingCurrent(a, q) ==
    /\ q.cohort # NoCohort =>
          /\ live.cohort = q.cohort
          /\ a.wallet.cohort = q.cohort
          /\ a.wallet.wallet # Locked => live.completed /\ a.wallet.completed
    /\ a.wallet.wallet # Locked => live = a.wallet

\* reload_permissions and refresh_documents.
Reloaded(a) ==
    IF a.incarnation = 0 \/ a.disclosure = Resolve(a) THEN a
    ELSE [a EXCEPT !.disclosure = Resolve(a), !.document = @ + 1]

----------------------------------------------------------------------------
(* The actor's table of approvals                                          *)

\* An answer of the approval; of a local error when it has no owner.
Answer(q, ok, owner) == [ok |-> ok, incarnation |-> q.incarnation, owner |-> owner]

Respond(q, ok, owner) == [q EXCEPT !.outbox = Append(@, Answer(q, ok, owner))]

\* prepare_approval binds the request to the authority of the moment.
Prepare(a, q) ==
    [q EXCEPT !.phase = "ready",
              !.owner = [authority |-> a.wallet, generation |-> a.generation,
                         incarnation |-> q.incarnation, document |-> a.document,
                         permission |-> Resolve(a)]]

Stands(a, q) ==
    /\ a.incarnation = q.incarnation
    /\ IF q.phase \in Ready THEN Current(q) /\ OwnerValid(a, q, q.owner)
       ELSE /\ WaitingCurrent(a, q)
            /\ ~q.expired
            /\ a.wallet.wallet # Locked => Resolve(a) # 0 /\ Current(Prepare(a, q))

DropSilent(a, q) ==
    LET gone == [q EXCEPT !.phase = "done"]
    IN  IF q.acknowledged \/ a.incarnation # q.incarnation THEN gone
        ELSE Respond(gone, FALSE, NoOwner)
Drop(a, q) ==
    LET gone == [q EXCEPT !.phase = "done", !.invalid = @ \/ q.phase \in Ready]
    IN  IF q.acknowledged \/ a.incarnation # q.incarnation THEN gone
        ELSE Respond(gone, FALSE, NoOwner)

Keep(a, q) ==
    LET p == IF q.phase = "waiting" /\ a.wallet.wallet # Locked THEN Prepare(a, q) ELSE q
    IN  CASE p.phase = "ready" /\ p.kind = "stay" ->
               Respond([p EXCEPT !.phase = "done"], TRUE, p.owner)
          [] p.phase \in Ready /\ p.kind = "watch" /\ ~p.acknowledged ->
               Respond([p EXCEPT !.acknowledged = TRUE], TRUE, p.owner)
          [] OTHER -> p

RefreshIdle(a, requests) ==
    [r \in Requests |->
        LET q == requests[r] IN
        IF q.phase \notin Held \ {"executing"} THEN q
        ELSE IF Stands(a, q) THEN Keep(a, q) ELSE Drop(a, q)]
\* refresh_approvals.
Refresh(a, requests) ==
    [r \in Requests |->
        LET q == requests[r] IN
        IF q.phase \notin Held THEN q
        ELSE IF Stands(a, q) THEN Keep(a, q) ELSE Drop(a, q)]

ReadyRequests == {r \in Requests : request[r].phase \in Ready}

\* The actor runs one command at a time, and publishes its list before the next.
Idle == listed = ReadyRequests

\* publish_approvals.
Publish ==
    /\ listed # ReadyRequests
    /\ listed' = ReadyRequests
    /\ UNCHANGED <<desktop, command, actor, request, desk, approval>>

Handle(a) ==
    /\ Idle
    /\ actor' = a
    /\ request' = Refresh(a, request)
    /\ UNCHANGED <<desktop, command, listed, desk, approval>>

\* tick.
Tick == Handle(Reloaded(actor))

Revoke ==
    /\ Resolve(actor) # 0
    /\ Handle(Reloaded([actor EXCEPT !.grant = 0]))

\* resolve_connect grants the origin a new permission.
Granted(a) == Reloaded([a EXCEPT !.grant = a.granted + 1, !.granted = @ + 1])

Connect ==
    /\ actor.wallet.wallet # Locked
    /\ MayChange
    /\ Handle(Granted(actor))

\* unregister: the answers queued for the document go with it.
Unregister ==
    /\ Idle
    /\ actor.incarnation # 0
    /\ LET a == [actor EXCEPT !.incarnation = 0]
           left == [r \in Requests |-> [request[r] EXCEPT !.outbox = <<>>]]
       IN  /\ actor' = a
           /\ request' = Refresh(a, left)
    /\ UNCHANGED <<desktop, command, listed, desk, approval>>

Register ==
    /\ Idle
    /\ actor.incarnation = 0
    /\ MayChange
    /\ actor' = [actor EXCEPT !.documents = @ + 1, !.incarnation = actor.documents + 1,
                              !.document = 1, !.disclosure = Resolve(actor)]
    /\ UNCHANGED <<desktop, command, request, listed, desk, approval>>

Refuses ==
    \/ live # actor.wallet
    \/ actor.wallet.wallet = Locked /\ actor.wallet.completed
    \/ actor.wallet.wallet # Locked /\ Resolve(actor) = 0
    \/ Cardinality({r \in Requests : request[r].phase \in Held}) >= MaxApprovals

\* request_approval.
RequestApproval(r, kind) ==
    /\ Idle
    /\ actor.incarnation # 0
    /\ request[r].phase = "new"
    /\ LET q == [request[r] EXCEPT !.kind = kind, !.incarnation = actor.incarnation]
           cohort == IF actor.wallet.wallet = Locked THEN actor.wallet.cohort ELSE NoCohort
           waiting == [q EXCEPT !.phase = "waiting", !.cohort = cohort]
       IN  request' =
              IF Refuses
              THEN [request EXCEPT ![r] = Respond([q EXCEPT !.phase = "done"], FALSE, NoOwner)]
              ELSE Refresh(actor, [request EXCEPT ![r] = waiting])
    /\ UNCHANGED <<desktop, command, actor, listed, desk, approval>>

\* The deadline of a request passes.
Expire(r) ==
    /\ request[r].phase \in Held
    /\ ~request[r].expired
    /\ request' = [request EXCEPT ![r].expired = TRUE]
    /\ UNCHANGED <<desktop, command, actor, listed, desk, approval>>

\* delivery revalidates the answer when it is sealed.
Deliver(r) ==
    /\ request[r].outbox # <<>>
    /\ LET q == request[r]
           d == Head(q.outbox)
           valid == d.owner = NoOwner \/ (Current(q) /\ OwnerValid(actor, q, d.owner))
           sent == IF d.incarnation # actor.incarnation THEN <<>> ELSE <<d.ok /\ valid>>
       IN  request' = [request EXCEPT ![r].outbox = Tail(@), ![r].answers = @ \o sent]
    /\ UNCHANGED <<desktop, command, actor, listed, desk, approval>>

----------------------------------------------------------------------------
(* The desktop's authority                                                 *)

\* set_wallet_authority replaces what every check reads...
Change(authority) ==
    /\ ~changing
    /\ MayChange
    /\ live' = authority
    /\ changing' = TRUE
    /\ UNCHANGED <<generation, dirty, command, actor, request, listed, desk, approval>>

PublishChange == /\ changing
                 /\ changing' = FALSE
                 /\ generation' = generation + 1
                 /\ dirty' = TRUE
                 /\ UNCHANGED <<live, attempt, command, actor, listed, desk, approval>>
FinishUnfenced == PublishChange /\ UNCHANGED request
\* ...then invalidates the listed requests it no longer covers, and the
\* desktop publishes the state under a new epoch.
FinishChange ==
    /\ PublishChange
    /\ request' = [r \in Requests |->
                      IF r \in listed /\ ~Current(request[r])
                      THEN [request[r] EXCEPT !.invalid = TRUE] ELSE request[r]]

Retired == [live EXCEPT !.cohort = @ + 1, !.completed = FALSE]

Lock ==
    /\ live.wallet # Locked
    /\ Change([Retired EXCEPT !.wallet = Locked])
    /\ attempt' = FALSE

\* begin: an attempt on top of another, or of a completed cohort, retires it.
BeginUnlock ==
    /\ live.wallet = Locked
    /\ attempt' = TRUE
    /\ IF attempt \/ live.completed THEN Change(Retired)
       ELSE /\ ~changing
            /\ UNCHANGED <<live, changing, generation, dirty, command, actor,
                           request, listed, desk, approval>>

RetireUnlock == attempt /\ attempt' = FALSE /\ Change(Retired)

\* A wallet is installed, by the current attempt or by one retired since.
InstallWallet(w) ==
    /\ live.wallet = Locked
    /\ \E own \in {FALSE, attempt} :
          /\ Change([live EXCEPT !.wallet = w, !.completed = @ \/ own])
          /\ attempt' = (attempt /\ ~own)

\* Accounts, network context or the wallet change under an unlocked vault.
ChangeWallet(w) ==
    /\ live.wallet \notin {Locked, w}
    /\ Change([live EXCEPT !.wallet = w])
    /\ UNCHANGED attempt

\* publish_gateway_desktop_states sends the latest state and waits.
SendState ==
    /\ dirty /\ command = NoCommand
    /\ dirty' = FALSE
    /\ command' = [authority |-> live, generation |-> generation]
    /\ ~changing
    /\ UNCHANGED <<live, attempt, changing, generation, actor, request, listed, desk, approval>>

\* Command::WalletState: a state that is no longer live, or older than the
\* actor's, is not applied.
WalletState ==
    /\ command # NoCommand
    /\ Idle
    /\ command' = NoCommand
    /\ LET a == Reloaded([actor EXCEPT !.wallet = command.authority,
                                       !.generation = command.generation])
       IN  IF /\ command.authority = live
              /\ \/ command.generation > actor.generation
                 \/ command.generation = actor.generation /\ live = actor.wallet
           THEN actor' = a /\ request' = Refresh(a, request)
           ELSE UNCHANGED <<actor, request>>
    /\ UNCHANGED <<desktop, listed, desk, approval>>

----------------------------------------------------------------------------
(* The user and the approval tasks                                         *)

\* reconcile_gateway_approvals; a request removed is remembered as handled.
Reconcile ==
    LET next == [r \in Requests |->
            CASE desk[r] \in {"review", "acting"} /\ ~Current(request[r]) -> "handled"
              [] desk[r] = "review" /\ r \notin listed -> "handled"
              [] desk[r] = "absent" /\ r \in listed /\ live.wallet # Locked -> "review"
              [] OTHER -> desk[r]]
    IN  /\ next # desk
        /\ desk' = next
        /\ UNCHANGED <<desktop, command, actor, request, listed, approval>>

\* The user approves or rejects a request under review.
Decide(r, first) ==
    /\ desk[r] = "review" /\ approval[r] = "none"
    /\ desk' = [desk EXCEPT ![r] = "acting"]
    /\ approval' = [approval EXCEPT ![r] = first]
    /\ UNCHANGED <<desktop, command, actor, request, listed>>

\* The task ended; the request stays under review only where it may be retried.
Ends(r, review) ==
    /\ approval' = [approval EXCEPT ![r] = "none"]
    /\ desk' = [desk EXCEPT ![r] = IF @ = "acting" /\ review THEN "review" ELSE
                                   IF @ = "acting" THEN "handled" ELSE @]

Goes(r, step) == approval' = [approval EXCEPT ![r] = step] /\ UNCHANGED desk

Policy(r) == request[r].kind \in {"watch", "switch", "stay"}

\* begin_approval.
BeginApproval(r) ==
    /\ approval[r] = "begin" /\ Idle
    /\ actor' = Reloaded(actor)
    /\ LET ticked == Refresh(Reloaded(actor), request)
       IN  IF ticked[r].phase = "ready"
           THEN /\ request' = [ticked EXCEPT ![r].phase = "executing"]
                /\ Goes(r, "run")
           ELSE request' = ticked /\ Ends(r, Policy(r))
    /\ UNCHANGED <<desktop, command, listed>>

\* The work of the task up to the hand-off: it checks the control, and may
\* fail, sign, ask for the hash fallback, or have a transaction to send.
Run(r) ==
    /\ approval[r] = "run"
    /\ \/ ~Policy(r) /\ Goes(r, "fail")
       \/ Current(request[r]) /\ Goes(r, IF request[r].kind = "send" THEN "check" ELSE "approve")
       \/ request[r].kind # "send" /\ (Policy(r) \/ Current(request[r])) /\ Goes(r, "return")
    /\ UNCHANGED <<desktop, command, actor, request, listed>>

\* before_broadcast: the authority is checked...
CheckControl(r) ==
    /\ approval[r] = "check"
    /\ Goes(r, IF Current(request[r]) THEN "swap" ELSE "fail")
    /\ UNCHANGED <<desktop, command, actor, request, listed>>

\* ...then the control goes from untouched to handed off, and the transaction
\* to the network, which may fail it.
HandOff(r) ==
    /\ approval[r] = "swap"
    /\ IF ~request[r].invalid /\ ~request[r].handed
       THEN /\ request' = [request EXCEPT ![r].handed = TRUE]
            /\ \E step \in {"approve", "fail"} : Goes(r, step)
       ELSE Goes(r, "fail") /\ UNCHANGED request
    /\ UNCHANGED <<desktop, command, actor, listed>>

\* return_approval_to_review.
ReturnToReview(r) ==
    /\ approval[r] = "return" /\ Idle
    /\ actor' = Reloaded(actor)
    /\ LET ticked == Refresh(Reloaded(actor), request)
           returns == ticked[r].phase = "executing" /\ ~ticked[r].handed
       IN  /\ request' = IF returns THEN [ticked EXCEPT ![r].phase = "ready"] ELSE ticked
           /\ Ends(r, returns \/ Policy(r))
    /\ UNCHANGED <<desktop, command, listed>>

\* complete_approval's answer; commit_chain_switch grants the chain before it.
CompletedTwice(a, requests, r, ok) ==
    LET q == [requests[r] EXCEPT !.phase = "done"]
    IN  [actor |-> a, request |-> [requests EXCEPT ![r] = Respond(q, ok, q.owner)]]
Completed(a, requests, r, ok) ==
    LET q == [requests[r] EXCEPT !.phase = "done"]
        rest == [requests EXCEPT ![r] = q]
        b == Granted(a)
        committed == [q.owner EXCEPT !.permission = Resolve(b), !.document = b.document]
    IN  CASE q.acknowledged -> [actor |-> a, request |-> rest]
          [] ~q.acknowledged /\ ok /\ q.kind = "switch" ->
               [actor |-> b,
                request |-> [Refresh(b, rest) EXCEPT ![r] = Respond(q, TRUE, committed)]]
          [] OTHER -> [actor |-> a,
                       request |-> [requests EXCEPT ![r] = Respond(q, ok, q.owner)]]

\* complete_approval, for a task's result or the user's rejection.
Complete(r) ==
    /\ approval[r] \in {"approve", "fail", "reject"} /\ Idle
    /\ LET a == Reloaded(actor)
           ticked == Refresh(a, request)
           next == Completed(a, ticked, r, approval[r] = "approve")
           taken == IF approval[r] = "reject" THEN Ready ELSE {"executing"}
       IN  IF ticked[r].phase \in taken
           THEN actor' = next.actor /\ request' = next.request
           ELSE actor' = a /\ request' = ticked
    /\ Ends(r, FALSE)
    /\ UNCHANGED <<desktop, command, listed>>

----------------------------------------------------------------------------
Task(r) == \/ BeginApproval(r) \/ Run(r) \/ CheckControl(r) \/ HandOff(r)
           \/ ReturnToReview(r) \/ Complete(r)

Next ==
    \/ Publish \/ Tick \/ Revoke \/ Connect \/ Unregister \/ Register
    \/ Lock \/ BeginUnlock \/ RetireUnlock \/ FinishChange
    \/ SendState \/ WalletState \/ Reconcile
    \/ \E w \in Wallets : InstallWallet(w) \/ ChangeWallet(w)
    \/ \E r \in Requests :
          \/ \E kind \in Kinds : RequestApproval(r, kind)
          \/ Expire(r) \/ Deliver(r) \/ Task(r)
          \/ Decide(r, "begin") \/ Decide(r, "reject")

Spec == Init /\ [][Next]_vars

\* The actor's loop publishes, ticks and flushes its answers; deadlines pass.
FairSpec ==
    /\ Spec
    /\ WF_vars(Publish) /\ WF_vars(Tick)
    /\ \A r \in Requests : WF_vars(Deliver(r)) /\ WF_vars(Expire(r))

----------------------------------------------------------------------------
HandsOff(r) == ~request[r].handed /\ request'[r].handed

\* Once set_wallet_authority has returned, no transaction approved under
\* another authority is handed to the network: the compare-and-swap of
\* before_broadcast loses to the invalidation, however long the task waits
\* between its check and the swap.
AuthorityFence ==
    [][\A r \in Requests :
          HandsOff(r) => changing \/ live = request[r].owner.authority]_vars

\* A transaction is handed to the network only while the actor still holds its
\* request as executing: a request that was refused, revoked or answered, or
\* dropped with its document or by the tick that finds it expired, is never sent
\* afterwards.
HandedOffWhileHeld ==
    [][\A r \in Requests : HandsOff(r) => request[r].phase = "executing"]_vars

\* A request gets at most one answer, those queued for delivery included, and
\* one that says it succeeded is the only one.
AnsweredOnce ==
    \A r \in Requests : Len(request[r].outbox) + Len(request[r].answers) <= 1

\* A request the gateway holds is answered in the end, or its document is gone:
\* no unlock, revocation, task or rejection leaves the page waiting for ever.
EveryRequestAnswered ==
    \A r \in Requests :
        request[r].phase \in Held
            ~> request[r].answers # <<>> \/ request[r].incarnation # actor.incarnation
=============================================================================
