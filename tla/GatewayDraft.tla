---------------------------- MODULE GatewayDraft ----------------------------
(***************************************************************************)
(* The public drafts of one paired browser: the draft book of the desktop  *)
(* (root/gateway_drafts.rs), the execution handle a submitted draft leaves *)
(* behind (gateway/drafts.rs), the desktop's review dialog, and the        *)
(* transaction task with its event stream (root/public_action/root.rs).    *)
(*                                                                         *)
(* The browser's commands name a draft and a revision and may be late.     *)
(* Estimates end in any order; events, hash updates and the result of the  *)
(* task reach the handle by three listeners, in any order between them;    *)
(* an aborted task may still finish the poll it is in.                     *)
(*                                                                         *)
(* Drafts are numbered in the order they are created; a draft is submitted *)
(* at most once, so its number also names its execution.  Private drafts,  *)
(* fee quotes and the picker are left out.                                 *)
(***************************************************************************)
EXTENDS Naturals, Sequences

CONSTANTS MaxDrafts,    \* bound on the drafts created
          MaxRevision,  \* bound on the revisions of a draft
          MaxFunds,     \* bound on the changes of balances and recipients
          MaxEvents     \* bound on the undelivered events of a task

ASSUME DraftConstants == MaxDrafts \in Nat /\ MaxRevision \in Nat
                         /\ MaxFunds \in Nat \ {0} /\ MaxEvents \in Nat

VARIABLES draft,    \* the browser's DraftRecord
          created,  \* drafts created so far
          jobs,     \* estimates under way
          selected, \* the draft's account and network are the selected ones
          funds,    \* version of the balances and recipient (DraftContextBinding)
          exec,     \* the ExecutionState of each submitted draft
          dialog,   \* the desktop's authorization dialog
          action,   \* the execution whose public action is in flight; 0: none
          stopAvailable, \* action_stop_available
          task,     \* the transaction task of each execution
          events,   \* events each task emitted that are not delivered yet
          asked,    \* history variable: what Submit asked for
          offered   \* history variable: drafts shown to the browser as retryable

book == <<draft, created, jobs>>
draftVars == <<draft, created, jobs, selected, funds, exec, dialog, action,
          stopAvailable, task, events, asked, offered>>

Drafts == 1..MaxDrafts
NoContent == [revision |-> 0, funds |-> 0]
NoDraft == [id |-> 0, revision |-> 0, status |-> "none", prepared |-> NoContent,
            binding |-> 0, fresh |-> FALSE, submitted |-> FALSE]
NoTask == [state |-> "none", handed |-> FALSE, final |-> FALSE]
NoDialog == [id |-> 0, phase |-> "closed"]

----------------------------------------------------------------------------
(* GatewayDraftExecution, as functions of its state x                      *)

NewExecution == [status |-> "attention", approved |-> FALSE, started |-> FALSE,
                 cancelled |-> FALSE, handedOff |-> FALSE, message |-> "review",
                 content |-> NoContent]

Terminal(x) == x.status \in {"done", "failed"}

ApproveReview(x) ==
    IF x.cancelled \/ x.started \/ Terminal(x) THEN x
    ELSE [x EXCEPT !.approved = TRUE]

Starts(x) == x.approved /\ ~x.started /\ ~x.cancelled /\ ~Terminal(x)

Start(x) == [x EXCEPT !.started = TRUE, !.status = "progress", !.message = "working"]

Canceled(x) == [x EXCEPT !.cancelled = TRUE, !.status = "failed",
                         !.message = "not submitted"]

CancelReview(x) ==
    IF x.started \/ x.approved \/ x.status = "failed" THEN x ELSE Canceled(x)

CancelAuthorization(x) ==
    IF x.started \/ Terminal(x) THEN x
    ELSE [Canceled(x) EXCEPT !.approved = FALSE]

Stopped(x) == [x EXCEPT !.cancelled = TRUE, !.status = "failed",
                        !.message = "stopped before handoff"]

\* progress with a transaction hash; the step label is left out.
Progress(x) == [x EXCEPT !.handedOff = TRUE]

\* event, for a hand-off, a step that needs attention, or a step resumed.
EventDropped(x, e) ==
    IF x.cancelled \/ Terminal(x) THEN x
    ELSE CASE e \in {"handoff", "final"} ->
                [x EXCEPT !.handedOff = TRUE, !.status = "progress", !.message = "working"]
           [] e = "attention" -> [x EXCEPT !.status = "attention", !.message = "attention"]
           [] e = "resumed" -> [x EXCEPT !.status = "progress", !.message = "working"]
Event(x, e) ==
    LET handoff == e \in {"handoff", "final"}
        y == IF ~handoff THEN x
             ELSE [x EXCEPT !.handedOff = TRUE,
                            !.message = IF x.cancelled THEN "may be submitted" ELSE @]
    IN  IF x.cancelled \/ Terminal(x) THEN y
        ELSE CASE handoff -> [y EXCEPT !.status = "progress", !.message = "working"]
               [] e = "attention" -> [y EXCEPT !.status = "attention", !.message = "attention"]
               [] e = "resumed" -> [y EXCEPT !.status = "progress", !.message = "working"]

Finish(x, success) ==
    IF x.cancelled THEN x
    ELSE [x EXCEPT !.status = IF success THEN "done" ELSE "failed",
                   !.message = IF success THEN "completed"
                               ELSE IF x.started \/ x.handedOff THEN "may be submitted"
                               ELSE "failed before submission"]

\* snapshot's can_retry.
CanRetryUnsent(x) == x.status = "failed" /\ ~x.handedOff
CanRetry(x) == x.status = "failed" /\ ~x.started /\ ~x.handedOff

----------------------------------------------------------------------------
(* The draft book                                                          *)

DraftInit ==
    /\ draft = NoDraft /\ created = 0 /\ jobs = {}
    /\ selected = TRUE /\ funds = 1
    /\ exec = [d \in Drafts |-> NewExecution]
    /\ dialog = NoDialog /\ action = 0 /\ stopAvailable = FALSE
    /\ task = [d \in Drafts |-> NoTask] /\ events = [d \in Drafts |-> <<>>]
    /\ asked = [d \in Drafts |-> NoContent] /\ offered = {}

\* estimate_gateway_draft of record r: the funds it will be estimated with are
\* bound, and a job is spawned, unless the context is unavailable.
Estimate(r) ==
    IF selected
    THEN /\ draft' = [r EXCEPT !.status = "estimating", !.binding = funds,
                               !.prepared = NoContent, !.fresh = FALSE]
         /\ jobs' = jobs \cup {[id |-> r.id, revision |-> r.revision, funds |-> funds]}
    ELSE draft' = [r EXCEPT !.status = "editing"] /\ UNCHANGED jobs

\* Create replaces a draft that was not submitted.
Create ==
    /\ created < MaxDrafts /\ ~draft.submitted
    /\ created' = created + 1
    /\ Estimate([NoDraft EXCEPT !.id = created + 1])
    /\ UNCHANGED <<selected, funds, exec, dialog, action, stopAvailable, task, events,
                   asked, offered>>

\* Update to a later revision.
Update(id, revision) ==
    /\ draft.id = id /\ ~draft.submitted /\ revision > draft.revision
    /\ Estimate([draft EXCEPT !.revision = revision, !.prepared = NoContent,
                              !.fresh = FALSE])
    /\ UNCHANGED <<created, selected, funds, exec, dialog, action, stopAvailable, task,
                   events, asked, offered>>

\* The estimate of job j ends, also after it was aborted.
MatchesDraftOnly(j) == draft.id = j.id /\ ~draft.submitted
Matches(j) == draft.id = j.id /\ draft.revision = j.revision /\ ~draft.submitted
EstimateEnds(j, ok) ==
    /\ jobs' = jobs \ {j}
    /\ draft' = IF ~Matches(j) THEN draft
                ELSE IF ~selected \/ ~ok THEN [draft EXCEPT !.status = "editing"]
                ELSE [draft EXCEPT !.status = "ready", !.fresh = TRUE,
                                   !.prepared = [revision |-> j.revision, funds |-> j.funds]]
    /\ UNCHANGED <<created, selected, funds, exec, dialog, action, stopAvailable, task,
                   events, asked, offered>>

\* ESTIMATE_LIFETIME passes.
EstimateExpires ==
    /\ draft.fresh /\ draft' = [draft EXCEPT !.fresh = FALSE]
    /\ UNCHANGED <<created, jobs, selected, funds, exec, dialog, action, stopAvailable,
                   task, events, asked, offered>>

\* Submit of a ready draft: it waits for the desktop, is estimated again, is
\* refused, or goes to review.
Submit(id, revision) ==
    /\ draft.id = id /\ draft.revision = revision
    /\ ~draft.submitted /\ draft.status = "ready"
    /\ action = 0 /\ dialog = NoDialog
    /\ \/ /\ ~draft.fresh \/ (selected /\ draft.binding # funds)
          /\ Estimate(draft)
          /\ UNCHANGED <<exec, dialog, action, stopAvailable, asked>>
       \/ /\ draft.fresh /\ ~selected
          /\ draft' = [draft EXCEPT !.status = "editing", !.prepared = NoContent]
          /\ UNCHANGED <<jobs, exec, dialog, action, stopAvailable, asked>>
       \/ /\ draft.fresh /\ selected /\ draft.binding = funds
          /\ draft' = [draft EXCEPT !.prepared = NoContent, !.submitted = TRUE]
          /\ exec' = [exec EXCEPT ![id] = [NewExecution EXCEPT !.content = draft.prepared]]
          /\ asked' = [asked EXCEPT ![id] = [revision |-> revision, funds |-> funds]]
          /\ dialog' = [id |-> id, phase |-> "review"]
          /\ action' = 0 /\ stopAvailable' = FALSE
          /\ UNCHANGED jobs
    /\ UNCHANGED <<created, selected, funds, task, events, offered>>

\* stop_public_action_progress: the task is aborted, and the execution the
\* book still holds is marked.
Stop ==
    /\ action # 0 /\ stopAvailable
    /\ exec' = IF draft.id = action THEN [exec EXCEPT ![action] = Stopped(@)] ELSE exec
    /\ task' = [task EXCEPT ![action].state = IF @ = "running" THEN "aborted" ELSE @]
    /\ action' = 0 /\ stopAvailable' = FALSE
    /\ UNCHANGED <<draft, created, jobs, selected, funds, dialog, events, asked, offered>>

\* Cancel: a running action is stopped while it can be, a review is cancelled
\* and its dialog closed, a draft not submitted is dropped.
Cancel(id) ==
    /\ draft.id = id
    /\ \/ draft.submitted /\ task[id].state # "none" /\ action = id /\ Stop
       \/ /\ draft.submitted /\ task[id].state = "none"
          /\ exec' = [exec EXCEPT ![id] = CancelReview(@)]
          /\ dialog' = IF exec[id].status = "attention" /\ exec'[id].status = "failed"
                       THEN NoDialog ELSE dialog
          /\ UNCHANGED <<draft, created, jobs, selected, funds, action, stopAvailable,
                         task, events, asked, offered>>
       \/ /\ ~draft.submitted /\ draft' = NoDraft
          /\ UNCHANGED <<created, jobs, selected, funds, exec, dialog, action,
                         stopAvailable, task, events, asked, offered>>

Dismiss(id) ==
    /\ draft.id = id /\ (draft.submitted => Terminal(exec[id]))
    /\ draft' = NoDraft
    /\ UNCHANGED <<created, jobs, selected, funds, exec, dialog, action, stopAvailable,
                   task, events, asked, offered>>

\* retire_record: the browser is unpaired, or the chain is reconfigured.
Retire ==
    /\ draft # NoDraft /\ draft' = NoDraft
    /\ exec' = IF draft.submitted THEN [exec EXCEPT ![draft.id] = CancelReview(@)] ELSE exec
    /\ UNCHANGED <<created, jobs, selected, funds, dialog, action, stopAvailable, task,
                   events, asked, offered>>

\* The desktop publishes its state: the browser sees can_retry.
PublishDesktop ==
    /\ draft.submitted /\ CanRetry(exec[draft.id]) /\ draft.id \notin offered
    /\ offered' = offered \cup {draft.id}
    /\ UNCHANGED <<draft, created, jobs, selected, funds, exec, dialog, action,
                   stopAvailable, task, events, asked>>

----------------------------------------------------------------------------
(* The desktop and the transaction task                                    *)

ChangeFunds ==
    /\ funds < MaxFunds /\ funds' = funds + 1
    /\ UNCHANGED <<draft, created, jobs, selected, exec, dialog, action, stopAvailable,
                   task, events, asked, offered>>

\* The user selects another network, or comes back: dialogs close, and the
\* action in flight is aborted.
SelectChain ==
    /\ selected' = ~selected
    /\ dialog' = NoDialog
    /\ exec' = CASE dialog.phase = "review" ->
                      [exec EXCEPT ![dialog.id] = CancelReview(@)]
                 [] dialog.phase = "authorize" ->
                      [exec EXCEPT ![dialog.id] = CancelAuthorization(@)]
                 [] OTHER -> exec
    /\ task' = IF action # 0 /\ task[action].state = "running"
               THEN [task EXCEPT ![action].state = "aborted"] ELSE task
    /\ action' = 0 /\ stopAvailable' = FALSE
    /\ UNCHANGED <<draft, created, jobs, funds, events, asked, offered>>

\* The user approves the review; a cancelled one just closes.
Approve ==
    /\ dialog.phase = "review"
    /\ exec' = [exec EXCEPT ![dialog.id] = ApproveReview(@)]
    /\ dialog' = IF exec'[dialog.id].approved
                 THEN [dialog EXCEPT !.phase = "authorize"] ELSE NoDialog
    /\ UNCHANGED <<draft, created, jobs, selected, funds, action, stopAvailable, task,
                   events, asked, offered>>

\* The user dismisses the review or the authorization prompt.
CloseDialog ==
    /\ dialog # NoDialog /\ dialog' = NoDialog
    /\ exec' = [exec EXCEPT ![dialog.id] =
                  IF dialog.phase = "review" THEN CancelReview(@) ELSE CancelAuthorization(@)]
    /\ UNCHANGED <<draft, created, jobs, selected, funds, action, stopAvailable, task,
                   events, asked, offered>>

\* submit_public_send_authorized: nothing happens when the selected network was
\* disabled; with another action in flight or another account or network
\* selected the execution fails; else it starts, and fails at once when the
\* account cannot be tracked.
Authorize(enabled, tracked) ==
    /\ dialog.phase = "authorize" /\ dialog' = NoDialog
    /\ LET e == dialog.id IN
       \/ /\ ~enabled
          /\ UNCHANGED <<exec, task, action, stopAvailable>>
       \/ /\ enabled /\ (action # 0 \/ ~selected)
          /\ exec' = [exec EXCEPT ![e] = Finish(@, FALSE)]
          /\ UNCHANGED <<task, action, stopAvailable>>
       \/ /\ enabled /\ action = 0 /\ selected /\ ~Starts(exec[e])
          /\ UNCHANGED <<exec, task, action, stopAvailable>>
       \/ /\ enabled /\ action = 0 /\ selected /\ Starts(exec[e]) /\ ~tracked
          /\ exec' = [exec EXCEPT ![e] = Finish(Start(@), FALSE)]
          /\ UNCHANGED <<task, action, stopAvailable>>
       \/ /\ enabled /\ action = 0 /\ selected /\ Starts(exec[e]) /\ tracked
          /\ exec' = [exec EXCEPT ![e] = Start(@)]
          /\ task' = [task EXCEPT ![e].state = "running"]
          /\ action' = e /\ stopAvailable' = TRUE
    /\ UNCHANGED <<draft, created, jobs, selected, funds, events, asked, offered>>

Live(e) == task[e].state \in {"running", "aborted"}

\* The task emits an event; a hand-off event comes before the hand-off.
Emit(e, ev) ==
    /\ Live(e) /\ Len(events[e]) < MaxEvents
    /\ task[e].final => ev # "final"
    /\ events' = [events EXCEPT ![e] = Append(@, ev)]
    /\ task' = [task EXCEPT ![e].handed = @ \/ ev \in {"handoff", "final"},
                            ![e].final = @ \/ ev = "final"]
    /\ UNCHANGED <<draft, created, jobs, selected, funds, exec, dialog, action,
                   stopAvailable, asked, offered>>

\* The event listener.
DeliverEvent(e) ==
    /\ events[e] # <<>> /\ events' = [events EXCEPT ![e] = Tail(@)]
    /\ exec' = [exec EXCEPT ![e] = Event(@, Head(events[e]))]
    /\ stopAvailable' = (stopAvailable /\ ~(action = e /\ Head(events[e]) = "final"))
    /\ UNCHANGED <<draft, created, jobs, selected, funds, dialog, action, task, asked,
                   offered>>

\* The progress listener: an update with the transaction's hash.
DeliverProgress(e) ==
    /\ task[e].handed /\ ~exec[e].handedOff
    /\ exec' = [exec EXCEPT ![e] = Progress(@)]
    /\ UNCHANGED <<draft, created, jobs, selected, funds, dialog, action, stopAvailable,
                   task, events, asked, offered>>

\* The task ends: with success only after the final hand-off.
TaskEnds(e, success) ==
    /\ Live(e) /\ (success => task[e].final)
    /\ task' = [task EXCEPT ![e].state = IF success THEN "succeeded" ELSE "failed"]
    /\ UNCHANGED <<draft, created, jobs, selected, funds, exec, dialog, action,
                   stopAvailable, events, asked, offered>>

\* Its result reaches the execution, and the action if it is still this one.
DeliverResult(e) ==
    /\ task[e].state \in {"succeeded", "failed"}
    /\ task' = [task EXCEPT ![e].state = "over"]
    /\ exec' = [exec EXCEPT ![e] = Finish(@, task[e].state = "succeeded")]
    /\ action' = IF action = e THEN 0 ELSE action
    /\ stopAvailable' = (stopAvailable /\ action # e)
    /\ UNCHANGED <<draft, created, jobs, selected, funds, dialog, events, asked, offered>>

DraftNext ==
    \/ Create \/ PublishDesktop \/ Retire \/ EstimateExpires
    \/ \E id \in Drafts :
         \/ \E r \in 0..MaxRevision : Update(id, r) \/ Submit(id, r)
         \/ Cancel(id) \/ Dismiss(id)
    \/ \E j \in jobs, ok \in BOOLEAN : EstimateEnds(j, ok)
    \/ ChangeFunds \/ SelectChain \/ Approve \/ CloseDialog \/ Stop
    \/ \E enabled, tracked \in BOOLEAN : Authorize(enabled, tracked)
    \/ \E e \in Drafts :
         \/ \E ev \in {"handoff", "final", "attention", "resumed"} : Emit(e, ev)
         \/ DeliverEvent(e) \/ DeliverProgress(e) \/ DeliverResult(e)
         \/ \E success \in BOOLEAN : TaskEnds(e, success)

DraftSpec == DraftInit /\ [][DraftNext]_draftVars

----------------------------------------------------------------------------
(* Properties                                                              *)

\* A draft the browser was offered to retry hands nothing over, before or
\* after: however late its events, its approval or its abort are, dismissing
\* it and submitting it again cannot pay twice.
RetryNeverReplays == \A d \in offered : ~task[d].handed

\* What goes to review is what Submit named: estimated from that revision and
\* from the funds of that moment, whichever estimates ended late.
ExecutesWhatWasSubmitted ==
    \A d \in Drafts : asked[d] # NoContent => exec[d].content = asked[d]

\* Once the events of a task that made its final hand-off are delivered, the
\* browser is not told that nothing was submitted, also when a stop or a
\* change of network came between.
HandoffNeverDenied ==
    \A d \in Drafts : (task[d].final /\ events[d] = <<>>) =>
        exec[d].message \notin {"not submitted", "stopped before handoff",
                                "failed before submission"}
=============================================================================
