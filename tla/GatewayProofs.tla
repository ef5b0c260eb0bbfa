--------------------------- MODULE GatewayProofs ----------------------------
(***************************************************************************)
(* The dapp gateway: its browsers' drafts (GatewayDraft) and the requests  *)
(* dapps wait to have approved (DappApproval).                             *)
(***************************************************************************)
EXTENDS GatewayDraft, DappApproval, TLAPS

-----------------------------------------------------------------------------
(* The drafts of a paired browser, for any number of drafts, revisions,    *)
(* changes of funds and undelivered events: a draft offered for retry pays *)
(* nothing, what is executed is what was submitted, and a final hand-off   *)
(* is never denied.                                                        *)

Denials == {"not submitted", "stopped before handoff", "failed before submission"}
EventKinds == {"handoff", "final", "attention", "resumed"}

Statuses == {"attention", "progress", "done", "failed"}
Messages == Denials \cup {"review", "working", "attention", "may be submitted", "completed"}
States == {"none", "running", "aborted", "succeeded", "failed", "over"}

Content == [revision : Nat, funds : Nat]
DraftType == [id : Nat, revision : Nat, status : {"none", "editing", "estimating", "ready"}, 
              prepared : Content, binding : Nat, fresh : BOOLEAN, submitted : BOOLEAN]
ExecType == [status : Statuses, approved : BOOLEAN, started : BOOLEAN, cancelled : BOOLEAN,
             handedOff : BOOLEAN, message : Messages, content : Content]
TaskType == [state : States, handed : BOOLEAN, final : BOOLEAN]
JobType == [id : Drafts, revision : Nat, funds : Nat]
DialogType == [id : Drafts, phase : {"review", "authorize"}] \cup {NoDialog}

DraftTypeInv ==
    /\ draft \in DraftType
    /\ created \in Nat
    /\ jobs \subseteq JobType
    /\ selected \in BOOLEAN
    /\ funds \in Nat
    /\ exec \in [Drafts -> ExecType]
    /\ dialog \in DialogType
    /\ action \in Drafts \cup {0}
    /\ stopAvailable \in BOOLEAN
    /\ task \in [Drafts -> TaskType]
    /\ events \in [Drafts -> Seq(EventKinds)]
    /\ asked \in [Drafts -> Content]
    /\ offered \subseteq Drafts

\* A draft that was never submitted: one to come, or the one being edited.
Fresh(d) == d > created \/ (d = draft.id /\ ~draft.submitted)

\* Nothing has happened under its number.
Untouched(d) ==
    /\ d \notin offered /\ asked[d] = NoContent /\ task[d] = NoTask /\ events[d] = <<>>
    /\ ~exec[d].started /\ action # d /\ dialog.id # d

\* Estimates under way are of drafts and revisions up to the current ones; only
\* the last one of the current revision can match, and it carries the funds the
\* draft is bound to.  A ready draft holds that estimate.
BookInv ==
    /\ draft.id <= created /\ created <= MaxDrafts
    /\ draft.submitted => draft.id # 0
    /\ \A j \in jobs : j.id <= created /\ (j.id = draft.id => j.revision <= draft.revision)
    /\ \A j \in jobs : (j.id = draft.id /\ j.revision = draft.revision /\ ~draft.submitted)
                          => j.funds = draft.binding /\ draft.status = "estimating"
    /\ (draft.status = "ready" /\ ~draft.submitted)
          => draft.prepared = [revision |-> draft.revision, funds |-> draft.binding]

\* A final event is still to be delivered.
FinalQueued(d) == \E i \in 1..Len(events[d]) : events[d][i] = "final"

\* An execution has a task only once it started; one offered for retry has failed
\* without starting, which nothing undoes; one that started denies a submission
\* only after a stop; and after the final event is delivered it does not, and
\* cannot be stopped any more.
ExecInv(d) ==
    /\ Fresh(d) => Untouched(d)
    /\ asked[d] # NoContent => exec[d].content = asked[d]
    /\ task[d].state # "none" => exec[d].started
    /\ (task[d].handed \/ task[d].final \/ events[d] # <<>> \/ action = d)
          => task[d].state # "none"
    /\ d \in offered => exec[d].status = "failed" /\ ~exec[d].started
    /\ (exec[d].started /\ exec[d].message \in Denials) => exec[d].cancelled
    /\ task[d].final => \/ FinalQueued(d)
                        \/ exec[d].message \notin Denials /\ ~(action = d /\ stopAvailable)

DraftIInv == /\ DraftTypeInv
        /\ BookInv
        /\ \A d \in Drafts : ExecInv(d)

----------------------------------------------------------------------------
(* The execution handle                                                    *)

\* What an operation on the handle keeps, unless it starts or stops it.
Kept(x, y) ==
    /\ y \in ExecType
    /\ y.content = x.content
    /\ y.started = x.started
    /\ (x.status = "failed" /\ ~x.started) => y.status = "failed"
    /\ (x.started /\ y.message \in Denials) => y.message = x.message /\ y.cancelled = x.cancelled

LEMMA ReviewOps ==
    ASSUME NEW x \in ExecType
    PROVE  Kept(x, ApproveReview(x)) /\ Kept(x, CancelReview(x)) /\ Kept(x, CancelAuthorization(x))
<1>1. Kept(x, ApproveReview(x))
  BY DEF Kept, ApproveReview, ExecType
<1>2. Kept(x, CancelReview(x))
  BY DEF Kept, CancelReview, Canceled, ExecType, Statuses, Messages, Denials
<1>3. Kept(x, CancelAuthorization(x))
  BY DEF Kept, CancelAuthorization, Canceled, ExecType, Statuses, Messages, Denials, Terminal
<1> QED
  BY <1>1, <1>2, <1>3

LEMMA FinishOps ==
    ASSUME NEW x \in ExecType, NEW success \in BOOLEAN, success => x.started
    PROVE  Kept(x, Finish(x, success)) /\ Kept(x, Progress(x))
<1>1. Kept(x, Progress(x))
  BY DEF Kept, Progress, ExecType
<1>2. CASE x.cancelled
  BY <1>1, <1>2 DEF Kept, Finish
<1>3. CASE ~x.cancelled /\ success
  BY <1>1, <1>3 DEF Kept, Finish, ExecType, Statuses, Messages, Denials
<1>4. CASE ~x.cancelled /\ ~success
  BY <1>1, <1>4 DEF Kept, Finish, ExecType, Statuses, Messages, Denials
<1> QED
  BY <1>2, <1>3, <1>4

LEMMA EventOps ==
    ASSUME NEW x \in ExecType, NEW e \in EventKinds, x.started
    PROVE  /\ Kept(x, Event(x, e))
           /\ (e = "final" /\ x.cancelled) => Event(x, e).message \notin Denials
<1>1. CASE e = "handoff"
  BY <1>1 DEF Kept, Event, ExecType, Statuses, Messages, Denials
<1>2. CASE e = "final"
  BY <1>2 DEF Kept, Event, ExecType, Statuses, Messages, Denials
<1>3. CASE e = "attention"
  BY <1>3 DEF Kept, Event, ExecType, Statuses, Messages, Denials
<1>4. CASE e = "resumed"
  BY <1>4 DEF Kept, Event, ExecType, Statuses, Messages, Denials
<1> QED
  BY <1>1, <1>2, <1>3, <1>4 DEF EventKinds

LEMMA StartOps ==
    ASSUME NEW x \in ExecType
    PROVE  /\ Start(x) \in ExecType /\ Start(x).started /\ Start(x).content = x.content
           /\ Start(x).message \notin Denials
           /\ Stopped(x) \in ExecType /\ Stopped(x).started = x.started
           /\ Stopped(x).content = x.content /\ Stopped(x).cancelled
BY DEF Start, Stopped, ExecType, Statuses, Messages, Denials

\* A started execution that failed to start a task.
LEMMA FailedStart ==
    ASSUME NEW x \in ExecType
    PROVE  LET y == Finish(Start(x), FALSE)
           IN  /\ y \in ExecType /\ y.started /\ y.content = x.content
               /\ y.message \in Denials => y.cancelled
<1>1. Start(x) \in ExecType /\ Start(x).started /\ Start(x).content = x.content
      /\ Start(x).message \notin Denials
  BY StartOps
<1>2. Kept(Start(x), Finish(Start(x), FALSE))
  BY <1>1, FinishOps
<1> QED
  BY <1>1, <1>2 DEF Kept

\* Steps that keep every execution they touch, and touch none that is fresh.
LEMMA QuietStep ==
    ASSUME DraftTypeInv, \A d \in Drafts : ExecInv(d),
           \A d \in Drafts : Fresh(d)' => Fresh(d),
           \A d \in Drafts : exec'[d] = exec[d] \/ (~Fresh(d) /\ Kept(exec[d], exec'[d])),
           \A d \in Drafts : /\ task'[d].handed = task[d].handed /\ task'[d].final = task[d].final
                             /\ task'[d] = task[d] \/ (task[d].state # "none" /\ task'[d].state # "none"),
           UNCHANGED <<events, asked, offered>>,
           action' \in {0, action}, stopAvailable' => stopAvailable,
           dialog'.id \in {0, dialog.id}
    PROVE  \A d \in Drafts : ExecInv(d)'
<1> SUFFICES ASSUME NEW d \in Drafts
             PROVE  ExecInv(d)'
  OBVIOUS
<1>1. d \in Nat /\ d # 0
  BY DraftConstants DEF Drafts
<1>2. /\ exec'[d].content = exec[d].content
      /\ exec'[d].started = exec[d].started
      /\ (exec[d].status = "failed" /\ ~exec[d].started) => exec'[d].status = "failed"
      /\ (exec[d].started /\ exec'[d].message \in Denials)
            => exec'[d].message = exec[d].message /\ exec'[d].cancelled = exec[d].cancelled
  BY DEF Kept
<1>3. /\ task'[d].handed = task[d].handed /\ task'[d].final = task[d].final
      /\ task'[d] = task[d] \/ (task[d].state # "none" /\ task'[d].state # "none")
  OBVIOUS
<1>4. Fresh(d)' => Untouched(d)'
  <2> SUFFICES ASSUME Fresh(d)'
               PROVE  Untouched(d)'
    OBVIOUS
  <2>1. Untouched(d) /\ exec'[d] = exec[d]
    BY DEF ExecInv
  <2>2. task'[d] = task[d]
    BY <1>3, <2>1 DEF Untouched, NoTask
  <2> QED
    BY <1>1, <2>1, <2>2 DEF Untouched
<1>5. /\ asked'[d] # NoContent => exec'[d].content = asked'[d]
      /\ task'[d].state # "none" => exec'[d].started
      /\ (task'[d].handed \/ task'[d].final \/ events'[d] # <<>> \/ action' = d)
            => task'[d].state # "none"
      /\ d \in offered' => exec'[d].status = "failed" /\ ~exec'[d].started
      /\ (exec'[d].started /\ exec'[d].message \in Denials) => exec'[d].cancelled
  BY <1>1, <1>2, <1>3 DEF ExecInv
<1>6. task'[d].final => \/ FinalQueued(d)'
                        \/ exec'[d].message \notin Denials /\ ~(action' = d /\ stopAvailable')
  BY <1>1, <1>2, <1>3 DEF ExecInv, FinalQueued
<1> QED
  BY <1>4, <1>5, <1>6 DEF ExecInv

----------------------------------------------------------------------------
(* The draft book                                                          *)

LEMMA DraftInitIInv == DraftInit => DraftIInv
<1> SUFFICES ASSUME DraftInit PROVE DraftIInv
  OBVIOUS
<1>1. NoContent \in Content /\ NoDialog \in DialogType
  BY DEF NoContent, Content, DialogType
<1>2. NewExecution \in ExecType /\ ~NewExecution.started /\ NewExecution.message \notin Denials
  BY <1>1 DEF NewExecution, ExecType, Statuses, Messages, Denials
<1>3. NoTask \in TaskType /\ NoTask.state = "none" /\ ~NoTask.handed /\ ~NoTask.final
  BY DEF NoTask, TaskType, States
<1>4. NoDraft \in DraftType /\ NoDraft.id = 0 /\ ~NoDraft.submitted /\ NoDraft.status = "none"
  BY <1>1 DEF NoDraft, DraftType
<1>5. DraftTypeInv
  <2>1. <<>> \in Seq(EventKinds) /\ 0 \in Nat /\ 1 \in Nat /\ TRUE \in BOOLEAN /\ FALSE \in BOOLEAN
    OBVIOUS
  <2> QED
    BY <1>1, <1>2, <1>3, <1>4, <2>1 DEF DraftInit, DraftTypeInv
<1>6. BookInv
  BY <1>4, DraftConstants DEF DraftInit, BookInv
<1>7. ASSUME NEW d \in Drafts PROVE ExecInv(d)
  <2>1. d # 0
    BY DEF Drafts
  <2> QED
    BY <1>1, <1>2, <1>3, <2>1 DEF DraftInit, ExecInv, Untouched, NoDialog
<1> QED
  BY <1>5, <1>6, <1>7 DEF DraftIInv

\* A step of the book alone.
LEMMA BookStep ==
    ASSUME DraftIInv, DraftTypeInv', BookInv', \A d \in Drafts : Fresh(d)' => Fresh(d),
           UNCHANGED <<exec, dialog, action, stopAvailable, task, events, asked, offered>>
    PROVE  DraftIInv'
<1>1. \A d \in Drafts : ExecInv(d)'
  BY QuietStep DEF DraftIInv
<1> QED
  BY <1>1 DEF DraftIInv

\* A step that leaves the book alone.
LEMMA DraftDeskStep ==
    ASSUME DraftIInv, UNCHANGED <<draft, created, jobs>>, selected' \in BOOLEAN, funds' \in Nat,
           exec' \in [Drafts -> ExecType], dialog' \in DialogType, action' \in Drafts \cup {0},
           stopAvailable' \in BOOLEAN, task' \in [Drafts -> TaskType],
           events' \in [Drafts -> Seq(EventKinds)], asked' \in [Drafts -> Content],
           offered' \subseteq Drafts, \A d \in Drafts : ExecInv(d)'
    PROVE  DraftIInv'
<1>1. DraftTypeInv'
  BY DEF DraftIInv, DraftTypeInv
<1>2. BookInv'
  BY DEF DraftIInv, BookInv
<1> QED
  BY <1>1, <1>2 DEF DraftIInv

\* Estimating record r, of a revision that no job under way is of.
LEMMA EstimateFacts ==
    ASSUME DraftIInv, NEW r \in DraftType, Estimate(r), r.id \in Drafts, ~r.submitted,
           created' \in Nat, created <= created', r.id <= created', created' <= MaxDrafts,
           \A j \in jobs : j.id = r.id => j.revision < r.revision \/ (j.revision # r.revision /\ j.revision <= r.revision)
    PROVE  /\ draft' \in DraftType /\ jobs' \subseteq JobType
           /\ draft'.id = r.id /\ ~draft'.submitted
           /\ BookInv'
<1>1. /\ funds \in Nat /\ jobs \subseteq JobType /\ created \in Nat
      /\ \A j \in jobs : j.id \in Nat /\ j.revision \in Nat /\ j.id <= created
      /\ r.id \in Nat /\ r.revision \in Nat /\ r.binding \in Nat
  BY DraftConstants DEF DraftIInv, DraftTypeInv, BookInv, JobType, DraftType, Drafts
<1>2. NoContent \in Content
  BY DEF NoContent, Content
<1>3. CASE selected
  <2> DEFINE job == [id |-> r.id, revision |-> r.revision, funds |-> funds]
  <2>1. /\ draft' = [r EXCEPT !.status = "estimating", !.binding = funds,
                               !.prepared = NoContent, !.fresh = FALSE]
        /\ jobs' = jobs \cup {job}
    BY <1>3 DEF Estimate
  <2>2. job \in JobType /\ job.id = r.id /\ job.revision = r.revision /\ job.funds = funds
    BY <1>1 DEF JobType
  <2> HIDE DEF job
  <2>3. /\ draft' \in DraftType /\ draft'.id = r.id /\ ~draft'.submitted
        /\ draft'.revision = r.revision /\ draft'.status = "estimating" /\ draft'.binding = funds
    BY <1>1, <1>2, <2>1 DEF DraftType
  <2>4. jobs' \subseteq JobType
    BY <1>1, <2>1, <2>2
  <2>5. \A j \in jobs' : j.id <= created' /\ (j.id = draft'.id => j.revision <= draft'.revision)
    BY <1>1, <2>1, <2>2, <2>3
  <2>6. \A j \in jobs' : (j.id = draft'.id /\ j.revision = draft'.revision) => j.funds = draft'.binding
    BY <1>1, <2>1, <2>2, <2>3
  <2> QED
    BY <2>3, <2>4, <2>5, <2>6 DEF BookInv
<1>4. CASE ~selected
  <2>1. draft' = [r EXCEPT !.status = "editing"] /\ jobs' = jobs
    BY <1>4 DEF Estimate
  <2>2. /\ draft' \in DraftType /\ draft'.id = r.id /\ ~draft'.submitted
        /\ draft'.revision = r.revision /\ draft'.status = "editing"
    BY <2>1 DEF DraftType
  <2>3. \A j \in jobs : j.id <= created' /\ (j.id = r.id => j.revision <= r.revision)
    BY <1>1
  <2>4. \A j \in jobs : ~(j.id = r.id /\ j.revision = r.revision)
    BY <1>1
  <2> QED
    BY <1>1, <2>1, <2>2, <2>3, <2>4 DEF BookInv
<1> QED
  BY <1>3, <1>4

LEMMA CreateInv ==
    ASSUME DraftIInv, Create
    PROVE  DraftIInv'
<1> DEFINE r == [NoDraft EXCEPT !.id = created + 1]
<1>1. /\ created < MaxDrafts /\ ~draft.submitted /\ created' = created + 1 /\ Estimate(r)
      /\ UNCHANGED <<selected, funds, exec, dialog, action, stopAvailable, task, events, asked, offered>>
  BY DEF Create
<1>2. created \in Nat /\ MaxDrafts \in Nat
  BY DraftConstants DEF DraftIInv, DraftTypeInv
<1>3. r \in DraftType /\ r.id = created + 1 /\ ~r.submitted
  <2>1. NoContent \in Content
    BY DEF NoContent, Content
  <2>2. NoDraft \in DraftType /\ ~NoDraft.submitted
    BY <2>1 DEF NoDraft, DraftType
  <2>3. created + 1 \in Nat
    BY <1>2
  <2> QED
    BY <2>2, <2>3 DEF DraftType
<1>4. r.id \in Drafts
  BY <1>1, <1>2, <1>3 DEF Drafts
<1>5. \A j \in jobs : j.id # r.id
  BY <1>2, <1>3 DEF DraftIInv, BookInv
<1> HIDE DEF r
<1>6. /\ draft' \in DraftType /\ jobs' \subseteq JobType
      /\ draft'.id = r.id /\ ~draft'.submitted
      /\ BookInv'
  BY <1>1, <1>2, <1>3, <1>4, <1>5, EstimateFacts
<1>7. DraftTypeInv'
  BY <1>1, <1>2, <1>6 DEF DraftIInv, DraftTypeInv
<1>8. \A d \in Drafts : Fresh(d)' => Fresh(d)
  BY <1>1, <1>2, <1>3, <1>6 DEF Fresh, Drafts
<1> QED
  BY <1>1, <1>6, <1>7, <1>8, BookStep

LEMMA UpdateInv ==
    ASSUME DraftIInv, NEW id \in Drafts, NEW v \in 0..MaxRevision, Update(id, v)
    PROVE  DraftIInv'
<1> DEFINE r == [draft EXCEPT !.revision = v, !.prepared = NoContent, !.fresh = FALSE]
<1>1. /\ draft.id = id /\ ~draft.submitted /\ v > draft.revision /\ Estimate(r)
      /\ UNCHANGED <<created, selected, funds, exec, dialog, action, stopAvailable, task, events,
                     asked, offered>>
  BY DEF Update
<1>2. created \in Nat /\ draft \in DraftType /\ v \in Nat /\ draft.revision \in Nat
  BY DraftConstants DEF DraftIInv, DraftTypeInv, DraftType
<1>3. r \in DraftType /\ r.id = id /\ ~r.submitted /\ r.revision = v
  BY <1>1, <1>2 DEF DraftType, NoContent, Content
<1>4. r.id <= created' /\ created' <= MaxDrafts /\ created <= created' /\ created' \in Nat
  BY <1>1, <1>2, <1>3 DEF DraftIInv, BookInv
<1>5. \A j \in jobs : j.id = r.id => j.revision < r.revision
  <2>1. \A j \in jobs : j.revision \in Nat
    BY DEF DraftIInv, DraftTypeInv, JobType
  <2> QED
    BY <1>1, <1>2, <1>3, <2>1 DEF DraftIInv, BookInv
<1> HIDE DEF r
<1>6. /\ draft' \in DraftType /\ jobs' \subseteq JobType
      /\ draft'.id = r.id /\ ~draft'.submitted
      /\ BookInv'
  BY <1>1, <1>2, <1>3, <1>4, <1>5, EstimateFacts
<1>7. DraftTypeInv'
  BY <1>1, <1>2, <1>6 DEF DraftIInv, DraftTypeInv
<1>8. \A d \in Drafts : Fresh(d)' => Fresh(d)
  BY <1>1, <1>3, <1>6 DEF Fresh
<1> QED
  BY <1>1, <1>6, <1>7, <1>8, BookStep

LEMMA EstimateEndsInv ==
    ASSUME DraftIInv, NEW j \in jobs, NEW ok \in BOOLEAN, EstimateEnds(j, ok)
    PROVE  DraftIInv'
<1>1. /\ jobs' = jobs \ {j}
      /\ UNCHANGED <<created, selected, funds, exec, dialog, action, stopAvailable, task, events,
                     asked, offered>>
  BY DEF EstimateEnds
<1>2. draft \in DraftType /\ jobs \subseteq JobType /\ j \in JobType
  BY DEF DraftIInv, DraftTypeInv
<1>3. CASE draft' = draft /\ ~Matches(j)
  <2>1. DraftTypeInv' /\ BookInv'
    BY <1>1, <1>3 DEF DraftIInv, DraftTypeInv, BookInv
  <2>2. \A d \in Drafts : Fresh(d)' => Fresh(d)
    BY <1>1, <1>3 DEF Fresh
  <2> QED
    BY <1>1, <2>1, <2>2, BookStep
<1>4. CASE Matches(j) /\ draft' # draft
  <2> DEFINE p == [revision |-> j.revision, funds |-> j.funds]
  <2>1. \/ draft' = [draft EXCEPT !.status = "editing"]
        \/ draft' = [draft EXCEPT !.status = "ready", !.fresh = TRUE, !.prepared = p]
    BY <1>4 DEF EstimateEnds
  <2>2. p \in Content /\ p = [revision |-> draft.revision, funds |-> draft.binding]
    BY <1>2, <1>4 DEF JobType, Content, Matches, DraftIInv, BookInv
  <2> HIDE DEF p
  <2>3. /\ draft' \in DraftType /\ draft'.id = draft.id /\ draft'.submitted = draft.submitted
        /\ draft'.revision = draft.revision /\ draft'.binding = draft.binding
        /\ draft'.status = "editing" \/ draft'.prepared = p
    BY <1>2, <2>1, <2>2 DEF DraftType
  <2>4. \A k \in jobs' : ~(k.id = draft.id /\ k.revision = draft.revision)
    <3> SUFFICES ASSUME NEW k \in jobs', k.id = draft.id, k.revision = draft.revision
                 PROVE  FALSE
      OBVIOUS
    <3>1. k.funds = draft.binding /\ j.funds = draft.binding
      BY <1>1, <1>4 DEF DraftIInv, BookInv, Matches
    <3>2. k.id = j.id /\ k.revision = j.revision /\ k.funds = j.funds
      BY <1>4, <3>1 DEF Matches
    <3>3. k = j
      BY <1>1, <1>2, <3>2 DEF JobType
    <3> QED
      BY <1>1, <3>3
  <2>5. DraftTypeInv'
    BY <1>1, <1>2, <2>3 DEF DraftIInv, DraftTypeInv
  <2>6. BookInv'
    BY <1>1, <2>2, <2>3, <2>4 DEF DraftIInv, BookInv
  <2>7. \A d \in Drafts : Fresh(d)' => Fresh(d)
    BY <1>1, <2>3 DEF Fresh
  <2> QED
    BY <1>1, <2>5, <2>6, <2>7, BookStep
<1>5. CASE Matches(j) /\ draft' = draft
  <2>1. draft.status = "editing" \/ (draft.status = "ready")
    BY <1>2, <1>5 DEF EstimateEnds, DraftType
  <2> QED
    BY <1>5, <2>1 DEF DraftIInv, BookInv, Matches
<1> QED
  BY <1>3, <1>4, <1>5 DEF EstimateEnds

LEMMA ExpiresInv ==
    ASSUME DraftIInv, EstimateExpires
    PROVE  DraftIInv'
<1>1. /\ draft' = [draft EXCEPT !.fresh = FALSE]
      /\ UNCHANGED <<created, jobs, selected, funds, exec, dialog, action, stopAvailable, task,
                     events, asked, offered>>
  BY DEF EstimateExpires
<1>2. /\ draft' \in DraftType /\ draft'.id = draft.id /\ draft'.submitted = draft.submitted
      /\ draft'.revision = draft.revision /\ draft'.binding = draft.binding
      /\ draft'.status = draft.status /\ draft'.prepared = draft.prepared
  BY <1>1 DEF DraftIInv, DraftTypeInv, DraftType
<1>3. DraftTypeInv' /\ BookInv'
  BY <1>1, <1>2 DEF DraftIInv, DraftTypeInv, BookInv
<1>4. \A d \in Drafts : Fresh(d)' => Fresh(d)
  BY <1>1, <1>2 DEF Fresh
<1> QED
  BY <1>1, <1>3, <1>4, BookStep

\* The draft is dropped from the book.
LEMMA DropFacts ==
    ASSUME DraftIInv, draft' = NoDraft, UNCHANGED <<created, jobs>>
    PROVE  /\ draft' \in DraftType /\ BookInv' /\ \A d \in Drafts : Fresh(d)' => Fresh(d)
<1>1. NoContent \in Content
  BY DEF NoContent, Content
<1>2. draft' \in DraftType /\ draft'.id = 0 /\ ~draft'.submitted /\ draft'.status = "none"
  BY <1>1 DEF NoDraft, DraftType
<1>3. \A j \in jobs : j.id # 0
  BY DEF DraftIInv, DraftTypeInv, JobType, Drafts
<1>4. BookInv'
  BY <1>2, <1>3 DEF DraftIInv, DraftTypeInv, BookInv
<1>5. \A d \in Drafts : d # 0
  BY DEF Drafts
<1> QED
  BY <1>2, <1>4, <1>5 DEF Fresh

LEMMA DropInv ==
    ASSUME DraftIInv, draft' = NoDraft,
           UNCHANGED <<created, jobs, selected, funds, exec, dialog, action, stopAvailable, task,
                       events, asked, offered>>
    PROVE  DraftIInv'
<1>1. draft' \in DraftType /\ BookInv' /\ \A d \in Drafts : Fresh(d)' => Fresh(d)
  BY DropFacts
<1>2. DraftTypeInv'
  BY <1>1 DEF DraftIInv, DraftTypeInv
<1> QED
  BY <1>1, <1>2, BookStep

----------------------------------------------------------------------------
(* The desktop and the task                                                *)

\* No task starts, and none that ran is undone.
TasksKept ==
    /\ task' \in [Drafts -> TaskType]
    /\ \A d \in Drafts : /\ task'[d].handed = task[d].handed /\ task'[d].final = task[d].final
                         /\ task'[d] = task[d] \/ (task[d].state # "none" /\ task'[d].state # "none")

\* One execution, submitted before, is changed by an operation that keeps it.
LEMMA HandleStep ==
    ASSUME DraftIInv, NEW e \in Drafts, NEW y, exec' = [exec EXCEPT ![e] = y], Kept(exec[e], y),
           ~Fresh(e), TasksKept, UNCHANGED <<draft, created, jobs, funds, events, asked, offered>>,
           selected' \in BOOLEAN, dialog' \in DialogType, dialog'.id \in {0, dialog.id},
           action' \in {0, action}, stopAvailable' \in BOOLEAN, stopAvailable' => stopAvailable
    PROVE  DraftIInv'
<1>1. exec \in [Drafts -> ExecType] /\ action \in Drafts \cup {0} /\ DraftTypeInv
  BY DEF DraftIInv, DraftTypeInv
<1>2. exec' \in [Drafts -> ExecType]
  BY <1>1 DEF Kept
<1>3. \A d \in Drafts : exec'[d] = exec[d] \/ (~Fresh(d) /\ Kept(exec[d], exec'[d]))
  BY <1>1
<1>4. \A d \in Drafts : Fresh(d)' => Fresh(d)
  BY DEF Fresh
<1>5. \A d \in Drafts : ExecInv(d)'
  BY <1>1, <1>3, <1>4, QuietStep DEF DraftIInv, TasksKept
<1> QED
  BY <1>1, <1>2, <1>5, DraftDeskStep DEF DraftIInv, DraftTypeInv, TasksKept

\* The task of an execution that started belongs to a submitted draft.
LEMMA NotFresh ==
    ASSUME DraftIInv, NEW e \in Drafts
    PROVE  /\ task[e].state # "none" => ~Fresh(e)
           /\ dialog.id = e => ~Fresh(e)
           /\ (draft.id = e /\ draft.submitted) => ~Fresh(e)
<1>1. created \in Nat /\ e \in Nat
  BY DEF DraftIInv, DraftTypeInv, Drafts
<1> QED
  BY <1>1 DEF DraftIInv, ExecInv, Untouched, NoTask, Fresh, BookInv

LEMMA ApproveInv ==
    ASSUME DraftIInv, Approve
    PROVE  DraftIInv'
<1> DEFINE e == dialog.id
<1>1. /\ dialog.phase = "review" /\ exec' = [exec EXCEPT ![e] = ApproveReview(@)]
      /\ dialog' = IF exec'[e].approved THEN [dialog EXCEPT !.phase = "authorize"] ELSE NoDialog
      /\ UNCHANGED <<draft, created, jobs, selected, funds, action, stopAvailable, task, events,
                     asked, offered>>
  BY DEF Approve
<1>2. e \in Drafts /\ dialog \in DialogType /\ exec \in [Drafts -> ExecType]
  BY <1>1 DEF DraftIInv, DraftTypeInv, DialogType, NoDialog
<1>3. dialog' \in DialogType /\ dialog'.id \in {0, dialog.id}
  BY <1>1, <1>2 DEF DialogType, NoDialog
<1>4. Kept(exec[e], ApproveReview(exec[e])) /\ ~Fresh(e)
  BY <1>2, ReviewOps, NotFresh
<1>5. exec' = [exec EXCEPT ![e] = ApproveReview(exec[e])]
  BY <1>1
<1>6. TasksKept
  BY <1>1 DEF TasksKept, DraftIInv, DraftTypeInv
<1>7. selected' \in BOOLEAN /\ stopAvailable' \in BOOLEAN
  BY <1>1 DEF DraftIInv, DraftTypeInv
<1> HIDE DEF e
<1> QED
  BY <1>1, <1>2, <1>3, <1>4, <1>5, <1>6, <1>7, HandleStep

LEMMA CloseDialogInv ==
    ASSUME DraftIInv, CloseDialog
    PROVE  DraftIInv'
<1> DEFINE e == dialog.id
           y == IF dialog.phase = "review" THEN CancelReview(exec[e]) ELSE CancelAuthorization(exec[e])
<1>1. /\ dialog # NoDialog /\ dialog' = NoDialog
      /\ exec' = [exec EXCEPT ![e] = y]
      /\ UNCHANGED <<draft, created, jobs, selected, funds, action, stopAvailable, task, events,
                     asked, offered>>
  BY DEF CloseDialog
<1>2. e \in Drafts /\ exec \in [Drafts -> ExecType]
  BY <1>1 DEF DraftIInv, DraftTypeInv, DialogType
<1>3. dialog' \in DialogType /\ dialog'.id \in {0, dialog.id}
  BY <1>1 DEF DialogType, NoDialog
<1>4. Kept(exec[e], y) /\ ~Fresh(e)
  BY <1>2, ReviewOps, NotFresh
<1>5. TasksKept /\ selected' \in BOOLEAN /\ stopAvailable' \in BOOLEAN
  BY <1>1 DEF TasksKept, DraftIInv, DraftTypeInv
<1> HIDE DEF e, y
<1> QED
  BY <1>1, <1>2, <1>3, <1>4, <1>5, HandleStep

\* A network change closes the dialog, which cancels its execution, and aborts
\* the action in flight.
LEMMA SelectChainInv ==
    ASSUME DraftIInv, SelectChain
    PROVE  DraftIInv'
<1>1. /\ selected' = ~selected /\ dialog' = NoDialog
      /\ action' = 0 /\ stopAvailable' = FALSE
      /\ UNCHANGED <<draft, created, jobs, funds, events, asked, offered>>
  BY DEF SelectChain
<1>2. exec \in [Drafts -> ExecType] /\ task \in [Drafts -> TaskType] /\ selected \in BOOLEAN
      /\ action \in Drafts \cup {0} /\ dialog \in DialogType
  BY DEF DraftIInv, DraftTypeInv
<1>3. dialog' \in DialogType /\ dialog'.id \in {0, dialog.id} /\ selected' \in BOOLEAN
  BY <1>1, <1>2 DEF DialogType, NoDialog
<1>4. TasksKept
  <2>1. CASE action # 0 /\ task[action].state = "running"
    <3>1. task' = [task EXCEPT ![action].state = "aborted"] /\ action \in Drafts
      BY <1>2, <2>1 DEF SelectChain
    <3> QED
      BY <1>2, <2>1, <3>1 DEF TasksKept, TaskType, States
  <2>2. CASE ~(action # 0 /\ task[action].state = "running")
    BY <1>2, <2>2 DEF SelectChain, TasksKept
  <2> QED
    BY <2>1, <2>2
<1>5. CASE dialog.phase \in {"review", "authorize"}
  <2> DEFINE e == dialog.id
             y == IF dialog.phase = "review" THEN CancelReview(exec[e]) ELSE CancelAuthorization(exec[e])
  <2>1. e \in Drafts
    BY <1>2, <1>5 DEF DialogType, NoDialog
  <2>2. exec' = [exec EXCEPT ![e] = y]
    BY <1>5 DEF SelectChain
  <2>3. Kept(exec[e], y) /\ ~Fresh(e)
    BY <1>2, <2>1, ReviewOps, NotFresh
  <2> HIDE DEF e, y
  <2> QED
    BY <1>1, <1>3, <1>4, <2>1, <2>2, <2>3, HandleStep
<1>6. CASE dialog.phase \notin {"review", "authorize"}
  <2>1. exec' = exec
    BY <1>6 DEF SelectChain
  <2>2. \A d \in Drafts : ExecInv(d)'
    BY <1>1, <1>3, <1>4, <2>1, QuietStep DEF DraftIInv, TasksKept, Fresh
  <2> QED
    BY <1>1, <1>2, <1>3, <1>4, <2>1, <2>2, DraftDeskStep DEF DraftIInv, DraftTypeInv, TasksKept
<1> QED
  BY <1>5, <1>6

LEMMA StopInv ==
    ASSUME DraftIInv, Stop
    PROVE  DraftIInv'
<1>1. /\ action # 0 /\ stopAvailable
      /\ exec' = IF draft.id = action THEN [exec EXCEPT ![action] = Stopped(exec[action])] ELSE exec
      /\ task' = [task EXCEPT ![action].state = IF @ = "running" THEN "aborted" ELSE @]
      /\ action' = 0 /\ stopAvailable' = FALSE
      /\ UNCHANGED <<draft, created, jobs, selected, funds, dialog, events, asked, offered>>
  BY DEF Stop
<1>2. exec \in [Drafts -> ExecType] /\ task \in [Drafts -> TaskType] /\ action \in Drafts
  BY <1>1 DEF DraftIInv, DraftTypeInv
<1>3. TasksKept
  BY <1>1, <1>2 DEF TasksKept, TaskType, States
<1>4. exec[action].started /\ task[action].state # "none"
  BY <1>2 DEF DraftIInv, ExecInv
<1>5. /\ Stopped(exec[action]) \in ExecType /\ Stopped(exec[action]).started
      /\ Stopped(exec[action]).content = exec[action].content /\ Stopped(exec[action]).cancelled
  BY <1>2, <1>4, StartOps
<1>6. exec' \in [Drafts -> ExecType]
  BY <1>1, <1>2, <1>5
<1>7. ASSUME NEW d \in Drafts PROVE ExecInv(d)'
  <2>1. CASE d # action
    <3>1. exec'[d] = exec[d] /\ task'[d] = task[d] /\ d # 0
      BY <1>1, <1>2, <2>1 DEF Drafts
    <3> QED
      BY <1>1, <3>1 DEF DraftIInv, ExecInv, Fresh, Untouched, FinalQueued
  <2>2. CASE d = action
    <3>1. ~Fresh(d)' /\ d \notin offered
      BY <1>1, <1>2, <1>4, <2>2 DEF DraftIInv, ExecInv, Fresh, Untouched, NoTask
    <3>2. exec'[d].started /\ exec'[d].content = exec[d].content
      BY <1>1, <1>2, <1>4, <1>5, <2>2
    <3>3. exec'[d].message \in Denials => exec'[d].cancelled
      BY <1>1, <1>2, <1>4, <1>5, <2>2 DEF DraftIInv, ExecInv
    <3>4. task'[d].state # "none" /\ task'[d].final = task[d].final
      BY <1>2, <1>3, <1>4, <2>2 DEF TasksKept
    <3>5. task[d].final => FinalQueued(d)
      BY <1>1, <2>2 DEF DraftIInv, ExecInv
    <3>6. FinalQueued(d) => FinalQueued(d)'
      BY <1>1 DEF FinalQueued
    <3> QED
      BY <1>1, <3>1, <3>2, <3>3, <3>4, <3>5, <3>6 DEF DraftIInv, ExecInv
  <2> QED
    BY <2>1, <2>2
<1> QED
  BY <1>1, <1>3, <1>6, <1>7, DraftDeskStep DEF DraftIInv, DraftTypeInv, TasksKept

\* Submit: what goes to review is the estimate of this revision, with the funds
\* it is bound to, under a number nothing has happened under.
LEMMA SubmitInv ==
    ASSUME DraftIInv, NEW id \in Drafts, NEW v, Submit(id, v)
    PROVE  DraftIInv'
<1>1. /\ draft.id = id /\ draft.revision = v /\ ~draft.submitted /\ draft.status = "ready"
      /\ action = 0 /\ dialog = NoDialog
      /\ UNCHANGED <<created, selected, funds, task, events, offered>>
  BY DEF Submit
<1>2. /\ draft \in DraftType /\ exec \in [Drafts -> ExecType] /\ asked \in [Drafts -> Content]
      /\ created \in Nat /\ funds \in Nat /\ jobs \subseteq JobType /\ DraftTypeInv
  BY DEF DraftIInv, DraftTypeInv
<1>3. draft.prepared = [revision |-> draft.revision, funds |-> draft.binding]
  BY <1>1 DEF DraftIInv, BookInv
<1>4. NoContent \in Content
  BY DEF NoContent, Content
<1>5. CASE Estimate(draft) /\ UNCHANGED <<exec, dialog, action, stopAvailable, asked>>
  <2>1. \A j \in jobs : j.id = draft.id => j.revision # draft.revision /\ j.revision <= draft.revision
    BY <1>1 DEF DraftIInv, BookInv
  <2>2. draft.id <= created /\ created <= MaxDrafts /\ created <= created
    BY <1>2 DEF DraftIInv, BookInv
  <2>3. /\ draft' \in DraftType /\ jobs' \subseteq JobType
        /\ draft'.id = draft.id /\ ~draft'.submitted
        /\ BookInv'
    BY <1>1, <1>2, <1>5, <2>1, <2>2, EstimateFacts
  <2>4. DraftTypeInv'
    BY <1>1, <1>2, <1>5, <2>3 DEF DraftTypeInv
  <2>5. \A d \in Drafts : Fresh(d)' => Fresh(d)
    BY <1>1, <2>3 DEF Fresh
  <2> QED
    BY <1>1, <1>5, <2>3, <2>4, <2>5, BookStep
<1>6. CASE /\ draft' = [draft EXCEPT !.status = "editing", !.prepared = NoContent]
           /\ UNCHANGED <<jobs, exec, dialog, action, stopAvailable, asked>>
  <2>1. /\ draft' \in DraftType /\ draft'.id = draft.id /\ ~draft'.submitted
        /\ draft'.revision = draft.revision /\ draft'.status = "editing"
    BY <1>1, <1>2, <1>4, <1>6 DEF DraftType
  <2>2. DraftTypeInv' /\ BookInv'
    BY <1>1, <1>2, <1>6, <2>1 DEF DraftIInv, DraftTypeInv, BookInv
  <2>3. \A d \in Drafts : Fresh(d)' => Fresh(d)
    BY <1>1, <2>1 DEF Fresh
  <2> QED
    BY <1>1, <1>6, <2>2, <2>3, BookStep
<1>7. CASE /\ draft.binding = funds
           /\ draft' = [draft EXCEPT !.prepared = NoContent, !.submitted = TRUE]
           /\ exec' = [exec EXCEPT ![id] = [NewExecution EXCEPT !.content = draft.prepared]]
           /\ asked' = [asked EXCEPT ![id] = [revision |-> v, funds |-> funds]]
           /\ dialog' = [id |-> id, phase |-> "review"]
           /\ action' = 0 /\ stopAvailable' = FALSE
           /\ UNCHANGED jobs
  <2> DEFINE c == [revision |-> v, funds |-> funds]
             x == [NewExecution EXCEPT !.content = c]
  <2>1. c \in Content /\ c = draft.prepared /\ v \in Nat
    BY <1>1, <1>2, <1>3, <1>7 DEF Content, DraftType
  <2>2. exec' = [exec EXCEPT ![id] = x] /\ asked' = [asked EXCEPT ![id] = c]
    BY <1>7, <2>1
  <2> HIDE DEF c
  <2>3. x \in ExecType /\ ~x.started /\ x.content = c
    BY <1>4, <2>1 DEF NewExecution, ExecType, Statuses, Messages
  <2>4. /\ draft' \in DraftType /\ draft'.id = id /\ draft'.submitted
        /\ draft'.revision = draft.revision
    BY <1>1, <1>2, <1>4, <1>7 DEF DraftType
  <2>5. dialog' \in DialogType /\ dialog'.id = id
    BY <1>7 DEF DialogType
  <2> HIDE DEF x
  <2>6. DraftTypeInv'
    <3>1. exec' \in [Drafts -> ExecType] /\ asked' \in [Drafts -> Content]
      BY <1>2, <2>1, <2>2, <2>3
    <3>2. action' \in Drafts \cup {0} /\ stopAvailable' \in BOOLEAN
      BY <1>7
    <3> QED
      BY <1>1, <1>2, <1>7, <2>4, <2>5, <3>1, <3>2 DEF DraftTypeInv
  <2>7. BookInv'
    BY <1>1, <1>7, <2>4 DEF DraftIInv, BookInv, Drafts
  <2>8. Untouched(id)
    BY <1>1 DEF DraftIInv, ExecInv, Fresh
  <2>9. ASSUME NEW d \in Drafts PROVE ExecInv(d)'
    <3>1. d # 0 /\ created \in Nat /\ d \in Nat /\ id <= created
      BY <1>1, <1>2 DEF Drafts, DraftIInv, BookInv
    <3>2. CASE d # id
      <4>1. exec'[d] = exec[d] /\ asked'[d] = asked[d] /\ dialog'.id # d /\ (Fresh(d)' => Fresh(d))
        BY <1>1, <1>2, <2>2, <2>4, <2>5, <3>2 DEF Fresh
      <4> QED
        BY <1>1, <1>7, <3>1, <4>1 DEF DraftIInv, ExecInv, Untouched, FinalQueued
    <3>3. CASE d = id
      <4>1. exec'[d] = x /\ asked'[d] = c
        BY <1>2, <2>2, <3>3
      <4>2. ~Fresh(d)'
        BY <1>1, <2>4, <3>1, <3>3 DEF Fresh
      <4>3. /\ task'[d].state = "none" /\ ~task'[d].handed /\ ~task'[d].final
            /\ events'[d] = <<>> /\ d \notin offered'
        BY <1>1, <2>8, <3>3 DEF Untouched, NoTask
      <4> QED
        BY <1>7, <2>3, <3>1, <4>1, <4>2, <4>3 DEF ExecInv
    <3> QED
      BY <3>2, <3>3
  <2> QED
    BY <2>6, <2>7, <2>9 DEF DraftIInv
<1> QED
  BY <1>5, <1>6, <1>7 DEF Submit

LEMMA CancelInv ==
    ASSUME DraftIInv, NEW id \in Drafts, Cancel(id)
    PROVE  DraftIInv'
<1>1. draft.id = id
  BY DEF Cancel
<1>2. CASE Stop
  BY <1>2, StopInv
<1>3. CASE /\ draft.submitted
           /\ exec' = [exec EXCEPT ![id] = CancelReview(@)]
           /\ dialog' = IF exec[id].status = "attention" /\ exec'[id].status = "failed"
                        THEN NoDialog ELSE dialog
           /\ UNCHANGED <<draft, created, jobs, selected, funds, action, stopAvailable, task,
                          events, asked, offered>>
  <2>1. dialog' \in DialogType /\ dialog'.id \in {0, dialog.id}
    BY <1>3 DEF DraftIInv, DraftTypeInv, DialogType, NoDialog
  <2>2. Kept(exec[id], CancelReview(exec[id])) /\ ~Fresh(id)
    BY <1>1, <1>3, ReviewOps, NotFresh DEF DraftIInv, DraftTypeInv
  <2>3. TasksKept /\ selected' \in BOOLEAN /\ stopAvailable' \in BOOLEAN
    BY <1>3 DEF TasksKept, DraftIInv, DraftTypeInv
  <2>4. exec' = [exec EXCEPT ![id] = CancelReview(exec[id])]
    BY <1>3
  <2> QED
    BY <1>3, <2>1, <2>2, <2>3, <2>4, HandleStep
<1>4. CASE /\ draft' = NoDraft
           /\ UNCHANGED <<created, jobs, selected, funds, exec, dialog, action, stopAvailable,
                          task, events, asked, offered>>
  BY <1>4, DropInv
<1> QED
  BY <1>2, <1>3, <1>4 DEF Cancel

LEMMA RetireInv ==
    ASSUME DraftIInv, Retire
    PROVE  DraftIInv'
<1>1. /\ draft' = NoDraft
      /\ exec' = IF draft.submitted THEN [exec EXCEPT ![draft.id] = CancelReview(exec[draft.id])] ELSE exec
      /\ UNCHANGED <<created, jobs, selected, funds, dialog, action, stopAvailable, task, events,
                     asked, offered>>
  BY DEF Retire
<1>2. draft' \in DraftType /\ BookInv' /\ \A d \in Drafts : Fresh(d)' => Fresh(d)
  BY <1>1, DropFacts
<1>3. exec \in [Drafts -> ExecType] /\ DraftTypeInv
  BY DEF DraftIInv, DraftTypeInv
<1>4. ASSUME NEW d \in Drafts
      PROVE  exec'[d] = exec[d] \/ (~Fresh(d) /\ Kept(exec[d], exec'[d]))
  <2>1. CASE draft.submitted /\ draft.id = d
    BY <1>1, <1>3, <2>1, ReviewOps, NotFresh
  <2>2. CASE ~(draft.submitted /\ draft.id = d)
    BY <1>1, <1>3, <2>2
  <2> QED
    BY <2>1, <2>2
<1>5. exec' \in [Drafts -> ExecType]
  <2>1. \A d \in Drafts : exec'[d] \in ExecType
    BY <1>3, <1>4 DEF Kept
  <2>2. exec' = [d \in Drafts |-> exec'[d]]
    BY <1>1, <1>3
  <2> QED
    BY <2>1, <2>2
<1>6. DraftTypeInv'
  BY <1>1, <1>2, <1>5 DEF DraftIInv, DraftTypeInv
<1>7. \A d \in Drafts : ExecInv(d)'
  BY <1>1, <1>2, <1>3, <1>4, QuietStep DEF DraftIInv
<1> QED
  BY <1>2, <1>6, <1>7 DEF DraftIInv

LEMMA DraftPublishInv ==
    ASSUME DraftIInv, PublishDesktop
    PROVE  DraftIInv'
<1>1. /\ draft.submitted /\ CanRetry(exec[draft.id])
      /\ offered' = offered \cup {draft.id}
      /\ UNCHANGED <<draft, created, jobs, selected, funds, exec, dialog, action, stopAvailable,
                     task, events, asked>>
  BY DEF PublishDesktop
<1>2. draft.id \in Drafts
  BY <1>1, DraftConstants DEF DraftIInv, DraftTypeInv, BookInv, DraftType, Drafts
<1>3. ~Fresh(draft.id)
  BY <1>1, <1>2, NotFresh
<1>4. ASSUME NEW d \in Drafts PROVE ExecInv(d)'
  <2>1. Fresh(d)' => Fresh(d) /\ d # draft.id
    BY <1>1, <1>3 DEF Fresh
  <2>2. Fresh(d)' => Untouched(d)'
    BY <1>1, <2>1 DEF DraftIInv, ExecInv, Untouched
  <2>3. d \in offered' => exec'[d].status = "failed" /\ ~exec'[d].started
    BY <1>1 DEF DraftIInv, ExecInv, CanRetry
  <2> QED
    BY <1>1, <2>2, <2>3 DEF DraftIInv, ExecInv, FinalQueued
<1> QED
  BY <1>1, <1>2, <1>4, DraftDeskStep DEF DraftIInv, DraftTypeInv

LEMMA ChangeFundsInv ==
    ASSUME DraftIInv, ChangeFunds
    PROVE  DraftIInv'
<1>1. /\ funds' \in Nat
      /\ UNCHANGED <<draft, created, jobs, selected, exec, dialog, action, stopAvailable, task,
                     events, asked, offered>>
  BY DEF ChangeFunds, DraftIInv, DraftTypeInv
<1>2. \A d \in Drafts : ExecInv(d)'
  BY <1>1 DEF DraftIInv, ExecInv, Fresh, Untouched, FinalQueued
<1> QED
  BY <1>1, <1>2, DraftDeskStep DEF DraftIInv, DraftTypeInv

LEMMA AuthorizeInv ==
    ASSUME DraftIInv, NEW enabled \in BOOLEAN, NEW tracked \in BOOLEAN, Authorize(enabled, tracked)
    PROVE  DraftIInv'
<1> DEFINE e == dialog.id
<1>1. /\ dialog.phase = "authorize" /\ dialog' = NoDialog
      /\ UNCHANGED <<draft, created, jobs, selected, funds, events, asked, offered>>
  BY DEF Authorize
<1>2. e \in Drafts /\ exec \in [Drafts -> ExecType] /\ task \in [Drafts -> TaskType]
      /\ action \in Drafts \cup {0} /\ stopAvailable \in BOOLEAN /\ selected \in BOOLEAN /\ DraftTypeInv
  BY <1>1 DEF DraftIInv, DraftTypeInv, DialogType, NoDialog
<1>3. ~Fresh(e) /\ e # 0 /\ exec[e] \in ExecType
  BY <1>2, NotFresh DEF Drafts
<1>4. dialog' \in DialogType /\ dialog'.id = 0
  BY <1>1 DEF DialogType, NoDialog
<1>5. CASE exec' = [exec EXCEPT ![e] = Finish(@, FALSE)] /\ UNCHANGED <<task, action, stopAvailable>>
  <2>1. exec' = [exec EXCEPT ![e] = Finish(exec[e], FALSE)]
    BY <1>5
  <2>2. Kept(exec[e], Finish(exec[e], FALSE))
    BY <1>3, FinishOps
  <2>3. TasksKept /\ selected' \in BOOLEAN /\ stopAvailable' \in BOOLEAN
    BY <1>1, <1>2, <1>5 DEF TasksKept
  <2> HIDE DEF e
  <2> QED
    BY <1>1, <1>2, <1>3, <1>4, <1>5, <2>1, <2>2, <2>3, HandleStep
<1>6. CASE UNCHANGED <<exec, task, action, stopAvailable>>
  <2>1. \A d \in Drafts : ExecInv(d)'
    BY <1>1, <1>2, <1>4, <1>6, QuietStep DEF DraftIInv, Fresh
  <2> QED
    BY <1>1, <1>2, <1>4, <1>6, <2>1, DraftDeskStep DEF DraftTypeInv
<1>7. ASSUME NEW y \in ExecType, y.started, y.content = exec[e].content,
             y.message \in Denials => y.cancelled,
             exec' = [exec EXCEPT ![e] = y], ~exec[e].started, ~Terminal(exec[e]),
             \/ UNCHANGED <<task, action, stopAvailable>>
             \/ /\ task' = [task EXCEPT ![e].state = "running"]
                /\ action' = e /\ stopAvailable' = TRUE /\ action = 0
      PROVE  DraftIInv'
  <2>1. task[e].state = "none" /\ ~task[e].handed /\ ~task[e].final /\ events[e] = <<>>
    BY <1>2, <1>7 DEF DraftIInv, ExecInv
  <2>2. e \notin offered
    BY <1>2, <1>7 DEF DraftIInv, ExecInv, Terminal
  <2>3. /\ task' \in [Drafts -> TaskType] /\ action' \in Drafts \cup {0} /\ stopAvailable' \in BOOLEAN
        /\ \A d \in Drafts \ {e} : task'[d] = task[d]
        /\ task'[e].handed = task[e].handed /\ task'[e].final = task[e].final
        /\ task'[e].state # "none" \/ (task'[e].state = "none" /\ action' = action)
    <3> HIDE DEF e
    <3>1. CASE UNCHANGED <<task, action, stopAvailable>>
      BY <1>2, <2>1, <3>1
    <3>2. CASE /\ task' = [task EXCEPT ![e].state = "running"]
               /\ action' = e /\ stopAvailable' = TRUE
      BY <1>2, <3>2 DEF TaskType, States
    <3> QED
      BY <1>7, <3>1, <3>2
  <2>4. exec' \in [Drafts -> ExecType] /\ exec'[e] = y /\ \A d \in Drafts \ {e} : exec'[d] = exec[d]
    BY <1>2, <1>7
  <2>5. ASSUME NEW d \in Drafts PROVE ExecInv(d)'
    <3>1. CASE d = e
      <4>1. ~Fresh(d)'
        BY <1>1, <1>3, <3>1 DEF Fresh
      <4>2. asked'[d] # NoContent => exec'[d].content = asked'[d]
        BY <1>1, <1>7, <2>4, <3>1 DEF DraftIInv, ExecInv
      <4>3. (task'[d].handed \/ task'[d].final \/ events'[d] # <<>> \/ action' = d)
               => task'[d].state # "none"
        BY <1>1, <2>1, <2>3, <3>1 DEF DraftIInv, ExecInv
      <4>4. d \notin offered' /\ ~task'[d].final
        BY <1>1, <2>1, <2>2, <2>3, <3>1
      <4> QED
        BY <1>7, <2>4, <3>1, <4>1, <4>2, <4>3, <4>4 DEF ExecInv
    <3>2. CASE d # e
      <4>1. exec'[d] = exec[d] /\ task'[d] = task[d] /\ d # 0
        BY <2>3, <2>4, <3>2 DEF Drafts
      <4>2. (Fresh(d)' => Fresh(d)) /\ (FinalQueued(d) => FinalQueued(d)')
        BY <1>1 DEF Fresh, FinalQueued
      <4>3. action' = d => action = d /\ stopAvailable' = stopAvailable
        BY <1>7, <3>2
      <4> HIDE DEF e
      <4> QED
        BY <1>1, <1>4, <4>1, <4>2, <4>3 DEF DraftIInv, ExecInv, Untouched
    <3> QED
      BY <3>1, <3>2
  <2> QED
    BY <1>1, <1>2, <1>4, <2>3, <2>4, <2>5, DraftDeskStep DEF DraftTypeInv
<1>8. CASE /\ Starts(exec[e]) /\ exec' = [exec EXCEPT ![e] = Finish(Start(@), FALSE)]
           /\ UNCHANGED <<task, action, stopAvailable>>
  <2>1. exec' = [exec EXCEPT ![e] = Finish(Start(exec[e]), FALSE)]
    BY <1>8
  <2>2. ~exec[e].started /\ ~Terminal(exec[e])
    BY <1>8 DEF Starts
  <2> DEFINE y == Finish(Start(exec[e]), FALSE)
  <2>3. y \in ExecType /\ y.started /\ y.content = exec[e].content /\ (y.message \in Denials => y.cancelled)
    BY <1>3, FailedStart
  <2> HIDE DEF y, e
  <2> QED
    BY <1>7, <1>8, <2>1, <2>2, <2>3 DEF y
<1>9. CASE /\ action = 0 /\ Starts(exec[e]) /\ exec' = [exec EXCEPT ![e] = Start(@)]
           /\ task' = [task EXCEPT ![e].state = "running"]
           /\ action' = e /\ stopAvailable' = TRUE
  <2>1. exec' = [exec EXCEPT ![e] = Start(exec[e])]
    BY <1>9
  <2>2. ~exec[e].started /\ ~Terminal(exec[e])
    BY <1>9 DEF Starts
  <2> DEFINE y == Start(exec[e])
  <2>3. y \in ExecType /\ y.started /\ y.content = exec[e].content /\ y.message \notin Denials
    BY <1>3, StartOps
  <2> HIDE DEF y, e
  <2> QED
    BY <1>7, <1>9, <2>1, <2>2, <2>3 DEF y
<1> QED
  BY <1>5, <1>6, <1>8, <1>9 DEF Authorize

\* An event joins the queue of a task under way; a final one is then queued.
LEMMA EmitInv ==
    ASSUME DraftIInv, NEW e \in Drafts, NEW ev \in EventKinds, Emit(e, ev)
    PROVE  DraftIInv'
<1>1. /\ Live(e)
      /\ events' = [events EXCEPT ![e] = Append(events[e], ev)]
      /\ task' = [task EXCEPT ![e].handed = @ \/ ev \in {"handoff", "final"},
                              ![e].final = @ \/ ev = "final"]
      /\ UNCHANGED <<draft, created, jobs, selected, funds, exec, dialog, action, stopAvailable,
                     asked, offered>>
  BY DEF Emit
<1>2. events \in [Drafts -> Seq(EventKinds)] /\ task \in [Drafts -> TaskType] /\ DraftTypeInv
  BY DEF DraftIInv, DraftTypeInv
<1>3. task[e].state # "none" /\ ~Fresh(e)
  BY <1>1, NotFresh DEF Live
<1>4. /\ task' \in [Drafts -> TaskType]
      /\ \A d \in Drafts \ {e} : task'[d] = task[d]
      /\ task'[e].state = task[e].state
      /\ task'[e].final => task[e].final \/ ev = "final"
  BY <1>1, <1>2 DEF TaskType
<1>5. /\ events' \in [Drafts -> Seq(EventKinds)] /\ events'[e] = Append(events[e], ev)
      /\ \A d \in Drafts \ {e} : events'[d] = events[d]
  BY <1>1, <1>2
<1>6. ASSUME NEW d \in Drafts PROVE ExecInv(d)'
  <2>1. CASE d # e
    <3>1. task'[d] = task[d] /\ events'[d] = events[d]
      BY <1>4, <1>5, <2>1
    <3>2. (Fresh(d)' => Fresh(d)) /\ (FinalQueued(d) => FinalQueued(d)')
      BY <1>1, <3>1 DEF Fresh, FinalQueued
    <3> QED
      BY <1>1, <3>1, <3>2 DEF DraftIInv, ExecInv, Untouched
  <2>2. CASE d = e
    <3>1. ~Fresh(d)' /\ task'[d].state # "none"
      BY <1>1, <1>3, <1>4, <2>2 DEF Fresh
    <3>2. FinalQueued(d) \/ ev = "final" => FinalQueued(d)'
      <4>1. events[e] \in Seq(EventKinds)
        BY <1>2
      <4>2. /\ Len(events'[e]) = Len(events[e]) + 1 /\ Len(events[e]) \in Nat
            /\ events'[e][Len(events[e]) + 1] = ev
            /\ \A i \in 1..Len(events[e]) : events'[e][i] = events[e][i]
        BY <1>5, <4>1
      <4> QED
        BY <2>2, <4>2 DEF FinalQueued
    <3>3. task'[d].final => \/ FinalQueued(d)'
                            \/ exec'[d].message \notin Denials /\ ~(action' = d /\ stopAvailable')
      BY <1>1, <1>4, <2>2, <3>2 DEF DraftIInv, ExecInv
    <3> QED
      BY <1>1, <1>3, <2>2, <3>1, <3>3 DEF DraftIInv, ExecInv
  <2> QED
    BY <2>1, <2>2
<1> QED
  BY <1>1, <1>2, <1>4, <1>5, <1>6, DraftDeskStep DEF DraftTypeInv

\* The final event withdraws a denial that a stop made, and ends the stopping.
LEMMA DeliverEventInv ==
    ASSUME DraftIInv, NEW e \in Drafts, DeliverEvent(e)
    PROVE  DraftIInv'
<1> DEFINE h == Head(events[e])
           y == Event(exec[e], h)
<1>1. /\ events[e] # <<>> /\ events' = [events EXCEPT ![e] = Tail(events[e])]
      /\ exec' = [exec EXCEPT ![e] = y]
      /\ stopAvailable' = (stopAvailable /\ ~(action = e /\ h = "final"))
      /\ UNCHANGED <<draft, created, jobs, selected, funds, dialog, action, task, asked, offered>>
  BY DEF DeliverEvent
<1>2. events \in [Drafts -> Seq(EventKinds)] /\ exec \in [Drafts -> ExecType] /\ DraftTypeInv
  BY DEF DraftIInv, DraftTypeInv
<1>3. /\ h \in EventKinds /\ events[e] \in Seq(EventKinds) /\ Tail(events[e]) \in Seq(EventKinds)
      /\ Len(events[e]) \in Nat /\ Len(events[e]) # 0 /\ h = events[e][1]
      /\ Len(Tail(events[e])) = Len(events[e]) - 1
      /\ \A i \in 1..Len(Tail(events[e])) : Tail(events[e])[i] = events[e][i + 1]
  BY <1>1, <1>2
<1>4. task[e].state # "none" /\ exec[e].started /\ ~Fresh(e)
  BY <1>1, NotFresh DEF DraftIInv, ExecInv
<1>5. Kept(exec[e], y) /\ ((h = "final" /\ exec[e].cancelled) => y.message \notin Denials)
  BY <1>2, <1>3, <1>4, EventOps
<1>6. h = "final" => y.message \notin Denials
  <2>1. CASE ~exec[e].cancelled
    BY <1>4, <1>5, <2>1 DEF Kept, DraftIInv, ExecInv
  <2> QED
    BY <1>5, <2>1
<1> HIDE DEF h, y
<1>7. /\ exec' \in [Drafts -> ExecType] /\ exec'[e] = y
      /\ \A d \in Drafts \ {e} : exec'[d] = exec[d]
  BY <1>1, <1>2, <1>5 DEF Kept
<1>8. /\ events' \in [Drafts -> Seq(EventKinds)] /\ events'[e] = Tail(events[e])
      /\ \A d \in Drafts \ {e} : events'[d] = events[d]
  BY <1>1, <1>2, <1>3
<1>9. ASSUME NEW d \in Drafts PROVE ExecInv(d)'
  <2>1. CASE d # e
    <3>1. exec'[d] = exec[d] /\ events'[d] = events[d]
      BY <1>7, <1>8, <2>1
    <3>2. stopAvailable' => stopAvailable
      BY <1>1
    <3>3. (Fresh(d)' => Fresh(d)) /\ (FinalQueued(d) => FinalQueued(d)')
      BY <1>1, <3>1 DEF Fresh, FinalQueued
    <3> QED
      BY <1>1, <3>1, <3>2, <3>3 DEF DraftIInv, ExecInv, Untouched
  <2>2. CASE d = e
    <3>1. ~Fresh(d)'
      BY <1>1, <1>4, <2>2 DEF Fresh
    <3>2. FinalQueued(d) => h = "final" \/ FinalQueued(d)'
      <4> SUFFICES ASSUME NEW i \in 1..Len(events[e]), events[e][i] = "final", h # "final"
                   PROVE  FinalQueued(d)'
        BY <2>2 DEF FinalQueued
      <4>1. i # 1 /\ i - 1 \in 1..Len(Tail(events[e])) /\ (i - 1) + 1 = i
        BY <1>3
      <4>2. events'[d][i - 1] = "final" /\ i - 1 \in 1..Len(events'[d])
        BY <1>3, <1>8, <2>2, <4>1
      <4> QED
        BY <4>2 DEF FinalQueued
    <3>3. task'[d].final => \/ FinalQueued(d)'
                            \/ exec'[d].message \notin Denials /\ ~(action' = d /\ stopAvailable')
      <4>1. CASE h = "final"
        BY <1>1, <1>6, <1>7, <2>2, <4>1
      <4>2. CASE FinalQueued(d)'
        BY <4>2
      <4>3. CASE h # "final" /\ ~FinalQueued(d)'
        <5>1. task[d].final => exec[d].message \notin Denials /\ ~(action = d /\ stopAvailable)
          BY <3>2, <4>3 DEF DraftIInv, ExecInv
        <5>2. y.message \in Denials => y.message = exec[d].message
          BY <1>4, <1>5, <2>2 DEF Kept
        <5> QED
          BY <1>1, <1>7, <2>2, <5>1, <5>2
      <4> QED
        BY <4>1, <4>2, <4>3
    <3>4. /\ exec'[d].started /\ exec'[d].content = exec[d].content
          /\ exec'[d].message \in Denials => exec'[d].cancelled
      BY <1>4, <1>5, <1>7, <2>2 DEF Kept, DraftIInv, ExecInv
    <3>5. d \notin offered
      BY <1>4, <2>2 DEF DraftIInv, ExecInv
    <3> QED
      BY <1>1, <1>4, <2>2, <3>1, <3>3, <3>4, <3>5 DEF DraftIInv, ExecInv
  <2> QED
    BY <2>1, <2>2
<1> QED
  BY <1>1, <1>2, <1>7, <1>8, <1>9, DraftDeskStep DEF DraftTypeInv

LEMMA DeliverProgressInv ==
    ASSUME DraftIInv, NEW e \in Drafts, DeliverProgress(e)
    PROVE  DraftIInv'
<1>1. /\ task[e].handed /\ exec' = [exec EXCEPT ![e] = Progress(exec[e])]
      /\ UNCHANGED <<draft, created, jobs, selected, funds, dialog, action, stopAvailable, task,
                     events, asked, offered>>
  BY DEF DeliverProgress
<1>2. ~Fresh(e) /\ exec[e] \in ExecType
  BY <1>1, NotFresh DEF DraftIInv, ExecInv, DraftTypeInv
<1>3. Kept(exec[e], Progress(exec[e]))
  BY <1>2, FinishOps
<1>4. TasksKept /\ selected' \in BOOLEAN /\ stopAvailable' \in BOOLEAN /\ dialog' \in DialogType
  BY <1>1 DEF TasksKept, DraftIInv, DraftTypeInv
<1> QED
  BY <1>1, <1>2, <1>3, <1>4, HandleStep

LEMMA TaskEndsInv ==
    ASSUME DraftIInv, NEW e \in Drafts, NEW success \in BOOLEAN, TaskEnds(e, success)
    PROVE  DraftIInv'
<1>1. /\ Live(e)
      /\ task' = [task EXCEPT ![e].state = IF success THEN "succeeded" ELSE "failed"]
      /\ UNCHANGED <<draft, created, jobs, selected, funds, exec, dialog, action, stopAvailable,
                     events, asked, offered>>
  BY DEF TaskEnds
<1>2. DraftTypeInv /\ task \in [Drafts -> TaskType]
  BY DEF DraftIInv, DraftTypeInv
<1>3. TasksKept
  BY <1>1, <1>2 DEF TasksKept, TaskType, States, Live
<1>4. \A d \in Drafts : ExecInv(d)'
  BY <1>1, <1>2, <1>3, QuietStep DEF DraftIInv, TasksKept, Fresh
<1> QED
  BY <1>1, <1>2, <1>3, <1>4, DraftDeskStep DEF DraftTypeInv, TasksKept

LEMMA DeliverResultInv ==
    ASSUME DraftIInv, NEW e \in Drafts, DeliverResult(e)
    PROVE  DraftIInv'
<1> DEFINE success == task[e].state = "succeeded"
<1>1. /\ task[e].state \in {"succeeded", "failed"}
      /\ task' = [task EXCEPT ![e].state = "over"]
      /\ exec' = [exec EXCEPT ![e] = Finish(exec[e], success)]
      /\ action' = IF action = e THEN 0 ELSE action
      /\ stopAvailable' = (stopAvailable /\ action # e)
      /\ UNCHANGED <<draft, created, jobs, selected, funds, dialog, events, asked, offered>>
  BY DEF DeliverResult
<1>2. /\ task \in [Drafts -> TaskType] /\ exec[e] \in ExecType /\ selected \in BOOLEAN
      /\ stopAvailable \in BOOLEAN /\ dialog \in DialogType
  BY DEF DraftIInv, DraftTypeInv
<1>3. ~Fresh(e) /\ exec[e].started
  BY <1>1, NotFresh DEF DraftIInv, ExecInv
<1>4. Kept(exec[e], Finish(exec[e], success))
  BY <1>2, <1>3, FinishOps
<1> HIDE DEF success
<1>5. TasksKept
  BY <1>1, <1>2 DEF TasksKept, TaskType, States
<1>6. /\ selected' \in BOOLEAN /\ stopAvailable' \in BOOLEAN /\ dialog' \in DialogType
      /\ dialog'.id \in {0, dialog.id} /\ action' \in {0, action} /\ stopAvailable' => stopAvailable
  BY <1>1, <1>2
<1> QED
  BY <1>1, <1>3, <1>4, <1>5, <1>6, HandleStep

----------------------------------------------------------------------------
(* The theorems                                                            *)

LEMMA DraftPreserved == DraftIInv /\ [DraftNext]_draftVars => DraftIInv'
<1> SUFFICES ASSUME DraftIInv, [DraftNext]_draftVars PROVE DraftIInv'
  OBVIOUS
<1>1. CASE UNCHANGED draftVars
  <2>1. UNCHANGED <<draft, created, jobs, selected, funds, exec, dialog, action, stopAvailable,
                    task, events, asked, offered>>
    BY <1>1 DEF draftVars
  <2>2. \A d \in Drafts : ExecInv(d)'
    BY <2>1 DEF DraftIInv, ExecInv, Fresh, Untouched, FinalQueued
  <2> QED
    BY <2>1, <2>2, DraftDeskStep DEF DraftIInv, DraftTypeInv
<1>2. CASE Create
  BY <1>2, CreateInv
<1>3. CASE PublishDesktop
  BY <1>3, DraftPublishInv
<1>4. CASE Retire
  BY <1>4, RetireInv
<1>5. CASE EstimateExpires
  BY <1>5, ExpiresInv
<1>6. ASSUME NEW id \in Drafts,
             \/ \E r \in 0..MaxRevision : Update(id, r) \/ Submit(id, r)
             \/ Cancel(id) \/ Dismiss(id)
      PROVE  DraftIInv'
  <2>1. ASSUME NEW r \in 0..MaxRevision, Update(id, r) PROVE DraftIInv'
    BY <2>1, UpdateInv
  <2>2. ASSUME NEW r \in 0..MaxRevision, Submit(id, r) PROVE DraftIInv'
    BY <2>2, SubmitInv
  <2>3. CASE Cancel(id)
    BY <2>3, CancelInv
  <2>4. CASE Dismiss(id)
    BY <2>4, DropInv DEF Dismiss
  <2> QED
    BY <1>6, <2>1, <2>2, <2>3, <2>4
<1>7. ASSUME NEW j \in jobs, NEW ok \in BOOLEAN, EstimateEnds(j, ok) PROVE DraftIInv'
  BY <1>7, EstimateEndsInv
<1>8. CASE ChangeFunds
  BY <1>8, ChangeFundsInv
<1>9. CASE SelectChain
  BY <1>9, SelectChainInv
<1>10. CASE Approve
  BY <1>10, ApproveInv
<1>11. CASE CloseDialog
  BY <1>11, CloseDialogInv
<1>12. CASE Stop
  BY <1>12, StopInv
<1>13. ASSUME NEW enabled \in BOOLEAN, NEW tracked \in BOOLEAN, Authorize(enabled, tracked)
       PROVE  DraftIInv'
  BY <1>13, AuthorizeInv
<1>14. ASSUME NEW e \in Drafts,
              \/ \E ev \in EventKinds : Emit(e, ev)
              \/ DeliverEvent(e) \/ DeliverProgress(e) \/ DeliverResult(e)
              \/ \E success \in BOOLEAN : TaskEnds(e, success)
       PROVE  DraftIInv'
  <2>1. ASSUME NEW ev \in EventKinds, Emit(e, ev) PROVE DraftIInv'
    BY <2>1, EmitInv
  <2>2. CASE DeliverEvent(e)
    BY <2>2, DeliverEventInv
  <2>3. CASE DeliverProgress(e)
    BY <2>3, DeliverProgressInv
  <2>4. CASE DeliverResult(e)
    BY <2>4, DeliverResultInv
  <2>5. ASSUME NEW success \in BOOLEAN, TaskEnds(e, success) PROVE DraftIInv'
    BY <2>5, TaskEndsInv
  <2> QED
    BY <1>14, <2>1, <2>2, <2>3, <2>4, <2>5
<1> QED
  BY <1>1, <1>2, <1>3, <1>4, <1>5, <1>6, <1>7, <1>8, <1>9, <1>10, <1>11, <1>12, <1>13, <1>14
  DEF DraftNext, EventKinds

\* A draft the browser was offered to retry has no task and never gets one: its
\* execution failed before it started, and start, approve_review and the
\* cancellations leave such an execution failed.
THEOREM OfferedNeverPays == DraftSpec => []RetryNeverReplays
<1>1. DraftIInv => RetryNeverReplays
  BY DEF DraftIInv, DraftTypeInv, ExecInv, RetryNeverReplays
<1> QED
  BY <1>1, DraftInitIInv, DraftPreserved, PTL DEF DraftSpec

\* The execution a Submit leaves holds the estimate of the revision it named, with
\* the funds of that moment: a late estimate matches no draft that is ready, and
\* a ready draft holds the estimate it is bound to.
THEOREM SubmittedIsExecuted == DraftSpec => []ExecutesWhatWasSubmitted
<1>1. DraftIInv => ExecutesWhatWasSubmitted
  BY DEF DraftIInv, ExecInv, ExecutesWhatWasSubmitted
<1> QED
  BY <1>1, DraftInitIInv, DraftPreserved, PTL DEF DraftSpec

\* Once the events of a task that made its final hand-off are delivered, the
\* execution does not say that nothing was submitted: the final event withdraws
\* what a stop said before it, and no stop is accepted after it.
THEOREM FinalHandoffAdmitted == DraftSpec => []HandoffNeverDenied
<1>1. ASSUME DraftIInv, NEW d \in Drafts, task[d].final, events[d] = <<>>
      PROVE  exec[d].message \notin Denials
  <2>1. ~FinalQueued(d)
    BY <1>1 DEF FinalQueued
  <2> QED
    BY <1>1, <2>1 DEF DraftIInv, ExecInv
<1>2. DraftIInv => HandoffNeverDenied
  BY <1>1 DEF HandoffNeverDenied, Denials
<1> QED
  BY <1>2, DraftInitIInv, DraftPreserved, PTL DEF DraftSpec

-----------------------------------------------------------------------------
(* Dapp approvals, for any number of requests, wallets and changes of the  *)
(* authority: no transaction approved under another authority is handed to *)
(* the network, none is after its request was given up, and no request is  *)
(* answered twice.                                                         *)

AllKinds == {"none", "send", "sign", "watch", "switch", "stay"}
Steps == {"none", "begin", "run", "check", "swap", "return", "approve", "fail", "reject"}

Authority == [cohort : Nat, completed : BOOLEAN, wallet : Wallets \cup {Locked}]
Owner == [authority : Authority, generation : Nat, incarnation : Nat, document : Nat,
          permission : Nat]
AnswerType == [ok : BOOLEAN, incarnation : Nat, owner : Owner]
Request == [phase : {"new", "done"} \cup Held, kind : AllKinds, cohort : Nat,
            incarnation : Nat, acknowledged : BOOLEAN, owner : Owner, invalid : BOOLEAN,
            handed : BOOLEAN, expired : BOOLEAN, outbox : Seq(AnswerType),
            answers : Seq(BOOLEAN)]
Actor == [wallet : Authority, generation : Nat, grant : Nat, granted : Nat,
          incarnation : Nat, documents : Nat, document : Nat, disclosure : Nat]

TypeInv ==
    /\ live \in Authority
    /\ attempt \in BOOLEAN
    /\ changing \in BOOLEAN
    /\ generation \in Nat
    /\ dirty \in BOOLEAN
    /\ command \in [authority : Authority, generation : Nat]
    /\ actor \in Actor
    /\ request \in [Requests -> Request]
    /\ listed \subseteq Requests
    /\ desk \in [Requests -> {"absent", "review", "acting", "handled"}]
    /\ approval \in [Requests -> Steps]

\* The answers of request q, sent or queued.
Total(q) == Len(q.outbox) + Len(q.answers)

\* Request q was not answered while it may still be; one acknowledged early is a
\* watch request, which is not answered again.
Counted(q) ==
    /\ Total(q) \in {0, 1}
    /\ (q.phase = "new" \/ (q.phase \in Held /\ ~q.acknowledged)) => Total(q) = 0
    /\ q.acknowledged => q.kind = "watch" /\ q.phase # "new"

\* A task past its start belongs to a request that executes or is invalidated; the
\* desktop has every executing request listed, and shows none that is not prepared
\* yet; and between two changes of the authority an executing request that is not
\* invalidated is owned by the live one.
FenceInv(r) ==
    LET q == request[r] IN
    /\ approval[r] \in {"run", "check", "swap"} => q.phase = "executing" \/ q.invalid
    /\ q.phase = "executing" => r \in listed
    /\ (r \in listed \/ desk[r] # "absent" \/ approval[r] # "none") => q.phase \notin {"new", "waiting"}
    /\ (q.phase = "executing" /\ ~q.invalid /\ ~changing) => live = q.owner.authority

IInv == /\ TypeInv
        /\ \A r \in Requests : Counted(request[r])
        /\ \A r \in Requests : FenceInv(r)

----------------------------------------------------------------------------
(* What the actor may do to a request                                      *)

\* It answers only where an answer is due, forgets no invalidation, hands nothing
\* off, starts nothing, and ends an execution only by invalidating it.
Moved(q, p) ==
    /\ p \in Request /\ Counted(p)
    /\ p.handed = q.handed
    /\ q.invalid => p.invalid
    /\ q.phase = "executing" => p.invalid \/ (p.phase = "executing" /\ p.owner = q.owner)
    /\ p.phase = "executing" => q.phase = "executing"
    /\ q.phase = "done" => p.phase = "done"
    /\ q.phase \notin {"new", "waiting"} => p.phase \notin {"new", "waiting"}

LEMMA MovedChain ==
    ASSUME NEW q, NEW p, NEW s, Moved(q, p), Moved(p, s)
    PROVE  Moved(q, s)
BY DEF Moved

\* The fields of p, but for its phase, outbox, owner, acknowledgement and control.
SameRest(q, p) ==
    /\ p.kind = q.kind /\ p.cohort = q.cohort /\ p.incarnation = q.incarnation
    /\ p.handed = q.handed /\ p.expired = q.expired /\ p.answers = q.answers

LEMMA RespondFacts ==
    ASSUME NEW q \in Request, NEW ok \in BOOLEAN, NEW owner \in Owner
    PROVE  LET p == Respond(q, ok, owner) IN
           /\ p \in Request /\ SameRest(q, p)
           /\ p.phase = q.phase /\ p.owner = q.owner /\ p.acknowledged = q.acknowledged
           /\ p.invalid = q.invalid
           /\ Total(q) = 0 => Total(p) = 1
<1> DEFINE d == Answer(q, ok, owner)
<1>1. d \in AnswerType
  BY DEF Answer, AnswerType, Request
<1>2. q.outbox \in Seq(AnswerType)
  BY DEF Request
<1> HIDE DEF d
<1>3. Append(q.outbox, d) \in Seq(AnswerType) /\ Len(Append(q.outbox, d)) = Len(q.outbox) + 1
  BY <1>1, <1>2
<1>4. Respond(q, ok, owner) = [q EXCEPT !.outbox = Append(q.outbox, d)]
  BY DEF Respond, d
<1> DEFINE box == Append(q.outbox, d)
<1> HIDE DEF box
<1>5. box \in Seq(AnswerType) /\ Len(box) = Len(q.outbox) + 1 /\ Respond(q, ok, owner) = [q EXCEPT !.outbox = box]
  BY <1>3, <1>4 DEF box
<1> DEFINE p == Respond(q, ok, owner)
<1>6. /\ p \in Request /\ SameRest(q, p)
      /\ p.phase = q.phase /\ p.owner = q.owner /\ p.acknowledged = q.acknowledged
      /\ p.invalid = q.invalid /\ p.outbox = box
  BY <1>5 DEF Request, SameRest
<1> HIDE DEF p
<1>7. Total(q) = 0 => Total(p) = 1
  <2>1. Len(q.outbox) \in Nat /\ Len(q.answers) \in Nat
    BY DEF Request
  <2>2. Len(p.outbox) = Len(q.outbox) + 1 /\ Len(p.answers) = Len(q.answers)
    BY <1>5, <1>6 DEF SameRest
  <2> DEFINE i == Len(q.outbox)
             j == Len(q.answers)
             m == Len(p.outbox)
             n == Len(p.answers)
  <2>3. i \in Nat /\ j \in Nat /\ m = i + 1 /\ n = j
    BY <2>1, <2>2
  <2> HIDE DEF i, j, m, n
  <2>4. i + j = 0 => m + n = 1
    BY <2>3
  <2> QED
    BY <2>4 DEF Total, i, j, m, n
<1> QED
  BY <1>6, <1>7 DEF p

LEMMA NoOwnerType == NoAuthority \in Authority /\ NoOwner \in Owner /\ NoCohort \in Nat
<1>1. NoCohort \in Nat
  BY DappConstants DEF NoCohort
<1>2. NoAuthority \in Authority
  BY <1>1 DEF NoAuthority, Authority
<1> QED
  BY <1>1, <1>2 DEF NoOwner, Owner

LEMMA ResolveType ==
    ASSUME NEW a \in Actor
    PROVE  Resolve(a) \in Nat /\ Reloaded(a) \in Actor /\ Granted(a) \in Actor
<1>1. ASSUME NEW b \in Actor PROVE Resolve(b) \in Nat /\ Reloaded(b) \in Actor
  <2>1. Resolve(b) \in Nat
    BY DEF Resolve, Actor
  <2> DEFINE n == Resolve(b)
             m == b.document + 1
  <2>2. n \in Nat /\ m \in Nat
    BY <2>1 DEF Actor
  <2>3. Reloaded(b) = b \/ Reloaded(b) = [b EXCEPT !.disclosure = n, !.document = m]
    BY DEF Reloaded
  <2> HIDE DEF n, m
  <2> QED
    BY <2>1, <2>2, <2>3 DEF Actor
<1>2. [a EXCEPT !.grant = a.granted + 1, !.granted = @ + 1] \in Actor
  <2> DEFINE n == a.granted + 1
  <2>1. n \in Nat
    BY DEF Actor
  <2>2. [a EXCEPT !.grant = a.granted + 1, !.granted = @ + 1] = [a EXCEPT !.grant = n, !.granted = n]
    BY DEF Actor
  <2> HIDE DEF n
  <2> QED
    BY <2>1, <2>2 DEF Actor
<1> QED
  BY <1>1, <1>2 DEF Granted

LEMMA PrepareFacts ==
    ASSUME NEW a \in Actor, NEW q \in Request
    PROVE  LET p == Prepare(a, q) IN
           /\ p \in Request /\ SameRest(q, p)
           /\ p.phase = "ready" /\ p.owner.authority = a.wallet
           /\ p.acknowledged = q.acknowledged /\ p.invalid = q.invalid /\ p.outbox = q.outbox
<1> DEFINE o == [authority |-> a.wallet, generation |-> a.generation, incarnation |-> q.incarnation,
                 document |-> a.document, permission |-> Resolve(a)]
<1>1. Resolve(a) \in Nat
  BY ResolveType
<1>2. o \in Owner /\ o.authority = a.wallet
  BY <1>1 DEF Owner, Actor, Request
<1>3. Prepare(a, q) = [q EXCEPT !.phase = "ready", !.owner = o]
  BY DEF Prepare
<1> HIDE DEF o
<1> QED
  BY <1>2, <1>3 DEF Request, SameRest, Held

LEMMA DropMoves ==
    ASSUME NEW a \in Actor, NEW q \in Request, Counted(q), q.phase \in Held
    PROVE  Moved(q, Drop(a, q)) /\ Drop(a, q).phase = "done"
<1> DEFINE gone == [q EXCEPT !.phase = "done", !.invalid = @ \/ q.phase \in Ready]
<1>1. /\ gone \in Request /\ SameRest(q, gone) /\ gone.phase = "done"
      /\ gone.acknowledged = q.acknowledged /\ gone.outbox = q.outbox /\ gone.owner = q.owner
      /\ gone.invalid = (q.invalid \/ q.phase \in Ready)
  BY DEF Request, SameRest
<1>2. Total(gone) = Total(q)
  BY <1>1 DEF Total, SameRest
<1>3. Counted(gone) /\ Moved(q, gone)
  BY <1>1, <1>2 DEF Counted, Moved, SameRest, Held, Ready
<1>4. CASE q.acknowledged \/ a.incarnation # q.incarnation
  BY <1>1, <1>3, <1>4 DEF Drop
<1>5. CASE ~(q.acknowledged \/ a.incarnation # q.incarnation)
  <2> DEFINE p == Respond(gone, FALSE, NoOwner)
  <2>1. Drop(a, q) = p
    BY <1>5 DEF Drop
  <2> HIDE DEF gone
  <2>2. /\ p \in Request /\ SameRest(gone, p)
        /\ p.phase = gone.phase /\ p.owner = gone.owner /\ p.acknowledged = gone.acknowledged
        /\ p.invalid = gone.invalid
        /\ Total(gone) = 0 => Total(p) = 1
    BY <1>1, NoOwnerType, RespondFacts
  <2> HIDE DEF p
  <2>3. Counted(p)
    <3>1. Total(q) = 0 /\ ~p.acknowledged /\ p.phase = "done"
      BY <1>1, <1>5, <2>2 DEF Counted
    <3>2. Total(p) = 1
      BY <1>2, <2>2, <3>1
    <3> QED
      BY <3>1, <3>2 DEF Counted, Held
  <2>4. Moved(q, p)
    BY <1>1, <2>2, <2>3 DEF Moved, SameRest, Held, Ready
  <2> QED
    BY <1>1, <2>1, <2>2, <2>4
<1> QED
  BY <1>4, <1>5

LEMMA KeepMoves ==
    ASSUME NEW a \in Actor, NEW q \in Request, Counted(q), q.phase \in Held, Stands(a, q)
    PROVE  /\ Moved(q, Keep(a, q))
           /\ Keep(a, q).phase \in Ready => live = Keep(a, q).owner.authority
<1> DEFINE p == IF q.phase = "waiting" /\ a.wallet.wallet # Locked THEN Prepare(a, q) ELSE q
           k == Keep(a, q)
<1>2. /\ p \in Request /\ SameRest(q, p) /\ p.phase \in Held
      /\ p.acknowledged = q.acknowledged /\ p.invalid = q.invalid /\ p.outbox = q.outbox
      /\ p.phase \in Ready => live = p.owner.authority
      /\ q.phase = "executing" => p.phase = "executing" /\ p.owner = q.owner
      /\ p.phase = "executing" => q.phase = "executing"
      /\ p.phase = "waiting" => q.phase = "waiting"
  <2>1. CASE q.phase = "waiting" /\ a.wallet.wallet # Locked
    <3>1. /\ p \in Request /\ SameRest(q, p)
          /\ p.phase = "ready" /\ p.owner.authority = a.wallet
          /\ p.acknowledged = q.acknowledged /\ p.invalid = q.invalid /\ p.outbox = q.outbox
      BY <2>1, PrepareFacts
    <3>2. live = a.wallet
      BY <2>1 DEF Stands, WaitingCurrent, Ready
    <3> HIDE DEF p
    <3> QED
      BY <2>1, <3>1, <3>2 DEF Held
  <2>2. CASE ~(q.phase = "waiting" /\ a.wallet.wallet # Locked)
    <3>1. q.phase \in Ready => live = q.owner.authority
      BY DEF Stands, Current
    <3> QED
      BY <2>2, <3>1 DEF SameRest
  <2> QED
    BY <2>1, <2>2
<1> HIDE DEF p
<1>1. Total(p) = Total(q)
  BY <1>2 DEF Total, SameRest
<1>3. Counted(p)
  BY <1>1, <1>2 DEF Counted, SameRest, Held
<1>4. Moved(q, p)
  BY <1>2, <1>3 DEF Moved, SameRest, Held
<1>5. CASE p.phase = "ready" /\ p.kind = "stay"
  <2> DEFINE d == [p EXCEPT !.phase = "done"]
             s == Respond(d, TRUE, p.owner)
  <2>1. /\ d \in Request /\ SameRest(p, d) /\ d.phase = "done" /\ d.acknowledged = p.acknowledged
        /\ d.invalid = p.invalid /\ d.outbox = p.outbox /\ p.owner \in Owner
    BY <1>2 DEF Request, SameRest
  <2>2. k = s
    BY <1>5 DEF Keep, p
  <2> HIDE DEF d
  <2>3. /\ s \in Request /\ SameRest(d, s) /\ s.phase = d.phase /\ s.acknowledged = d.acknowledged
        /\ s.invalid = d.invalid /\ (Total(d) = 0 => Total(s) = 1)
    BY <2>1, RespondFacts
  <2> HIDE DEF s, k
  <2>4. ~p.acknowledged /\ Total(p) = 0 /\ Total(d) = 0
    BY <1>2, <1>3, <1>5, <2>1 DEF Counted, Total, SameRest
  <2>5. Counted(s)
    <3>1. Total(s) = 1 /\ ~s.acknowledged /\ s.phase = "done"
      BY <2>1, <2>3, <2>4
    <3> QED
      BY <3>1 DEF Counted, Held
  <2>6. Moved(q, s)
    BY <1>2, <1>5, <2>1, <2>3, <2>5 DEF Moved, SameRest
  <2> QED
    BY <2>1, <2>2, <2>3, <2>6 DEF k, Ready
<1>6. CASE ~(p.phase = "ready" /\ p.kind = "stay") /\ p.phase \in Ready /\ p.kind = "watch" /\ ~p.acknowledged
  <2> DEFINE d == [p EXCEPT !.acknowledged = TRUE]
             s == Respond(d, TRUE, p.owner)
  <2>1. /\ d \in Request /\ SameRest(p, d) /\ d.phase = p.phase /\ d.acknowledged
        /\ d.invalid = p.invalid /\ d.outbox = p.outbox /\ d.owner = p.owner /\ p.owner \in Owner
    BY <1>2 DEF Request, SameRest
  <2>2. k = s
    BY <1>6 DEF Keep, p
  <2> HIDE DEF d
  <2>3. /\ s \in Request /\ SameRest(d, s) /\ s.phase = d.phase /\ s.acknowledged = d.acknowledged
        /\ s.invalid = d.invalid /\ (Total(d) = 0 => Total(s) = 1) /\ s.owner = d.owner
    BY <2>1, RespondFacts
  <2> HIDE DEF s, k
  <2>4. Total(p) = 0 /\ Total(d) = 0
    BY <1>2, <1>3, <1>6, <2>1 DEF Counted, Total, SameRest
  <2>5. Counted(s)
    <3>1. Total(s) = 1 /\ s.acknowledged /\ s.phase = p.phase /\ s.kind = "watch"
      BY <1>6, <2>1, <2>3, <2>4 DEF SameRest
    <3> QED
      BY <1>6, <3>1 DEF Counted, Held, Ready
  <2>6. Moved(q, s)
    BY <1>2, <1>6, <2>1, <2>3, <2>5 DEF Moved, SameRest, Ready, Held
  <2> QED
    BY <1>2, <1>6, <2>1, <2>2, <2>3, <2>6 DEF k
<1>7. CASE /\ ~(p.phase = "ready" /\ p.kind = "stay")
           /\ ~(p.phase \in Ready /\ p.kind = "watch" /\ ~p.acknowledged)
  <2>1. k = p
    BY <1>7 DEF Keep, p
  <2> QED
    BY <1>2, <1>4, <2>1
<1> QED
  BY <1>5, <1>6, <1>7

\* refresh_approvals: what stays prepared is owned by the live authority.
Refreshed(requests, new) ==
    /\ new \in [Requests -> Request]
    /\ \A r \in Requests : /\ Moved(requests[r], new[r])
                           /\ new[r].phase \in Ready => live = new[r].owner.authority

LEMMA RefreshMoves ==
    ASSUME NEW a \in Actor, NEW requests \in [Requests -> Request],
           \A r \in Requests : Counted(requests[r])
    PROVE  Refreshed(requests, Refresh(a, requests))
<1> DEFINE new == Refresh(a, requests)
<1>1. ASSUME NEW r \in Requests
      PROVE  /\ Moved(requests[r], new[r])
             /\ new[r].phase \in Ready => live = new[r].owner.authority
  <2> DEFINE q == requests[r]
  <2>1. new[r] = IF q.phase \notin Held THEN q ELSE IF Stands(a, q) THEN Keep(a, q) ELSE Drop(a, q)
    BY DEF Refresh
  <2>2. q \in Request /\ Counted(q)
    OBVIOUS
  <2> HIDE DEF q, new
  <2>3. CASE q.phase \notin Held
    <3>1. Moved(q, q) /\ q.phase \notin Ready
      BY <2>2, <2>3 DEF Moved, Held, Ready
    <3> QED
      BY <2>1, <2>3, <3>1 DEF q
  <2>4. CASE q.phase \in Held /\ Stands(a, q)
    <3>1. Moved(q, Keep(a, q)) /\ (Keep(a, q).phase \in Ready => live = Keep(a, q).owner.authority)
      BY <2>2, <2>4, KeepMoves
    <3> QED
      BY <2>1, <2>4, <3>1 DEF q
  <2>5. CASE q.phase \in Held /\ ~Stands(a, q)
    <3>1. Moved(q, Drop(a, q)) /\ Drop(a, q).phase = "done"
      BY <2>2, <2>5, DropMoves
    <3> QED
      BY <2>1, <2>5, <3>1 DEF q, Ready
  <2> QED
    BY <2>3, <2>4, <2>5
<1>2. new = [r \in Requests |-> new[r]]
  BY DEF Refresh
<1>3. \A r \in Requests : new[r] \in Request
  BY <1>1 DEF Moved
<1> HIDE DEF new
<1>4. new \in [Requests -> Request]
  BY <1>2, <1>3
<1>5. Refreshed(requests, new)
  BY <1>1, <1>4 DEF Refreshed
<1> QED
  BY <1>5 DEF new

----------------------------------------------------------------------------
(* Steps of the actor                                                      *)

LEMMA NewType == NewRequest \in Request /\ Counted(NewRequest) /\ NewRequest.phase = "new"
<1>1. NoOwner \in Owner /\ NoCohort \in Nat
  BY NoOwnerType
<1>2. <<>> \in Seq(AnswerType) /\ <<>> \in Seq(BOOLEAN)
  OBVIOUS
<1>3. /\ NewRequest \in Request /\ NewRequest.phase = "new" /\ ~NewRequest.acknowledged
      /\ NewRequest.outbox = <<>> /\ NewRequest.answers = <<>>
  BY <1>1, <1>2 DEF NewRequest, Request, AllKinds
<1>4. Total(NewRequest) = 0
  BY <1>3 DEF Total
<1> QED
  BY <1>3, <1>4 DEF Counted

LEMMA InitIInv == Init => IInv
<1> SUFFICES ASSUME Init PROVE IInv
  OBVIOUS
<1>1. PICK w \in Wallets \cup {Locked} : live = [cohort |-> 0, completed |-> w # Locked, wallet |-> w]
  BY DEF Init
<1>2. live \in Authority
  <2>1. (w # Locked) \in BOOLEAN /\ 0 \in Nat
    OBVIOUS
  <2> QED
    BY <1>1, <2>1 DEF Authority
<1>3. actor \in Actor
  <2>1. (IF live.wallet = Locked THEN 0 ELSE 1) \in Nat
    OBVIOUS
  <2> QED
    BY <1>2, <2>1 DEF Init, Actor
<1>4. command \in [authority : Authority, generation : Nat]
  BY NoOwnerType DEF Init, NoCommand
<1>5. TypeInv
  BY <1>2, <1>3, <1>4, NewType DEF Init, TypeInv, Steps
<1>6. ASSUME NEW r \in Requests PROVE Counted(request[r]) /\ FenceInv(r)
  BY NewType DEF Init, FenceInv
<1> QED
  BY <1>5, <1>6 DEF IInv

\* What the two action properties ask of a step.
Fenced ==
    \A r \in Requests :
        HandsOff(r) => /\ request[r].phase = "executing"
                       /\ changing \/ live = request[r].owner.authority

\* The task of request r, and the desktop's view of it, do not go further.
TaskQuiet(r) ==
    /\ approval'[r] \in {"run", "check", "swap"} => approval[r] \in {"run", "check", "swap"}
    /\ (desk'[r] # "absent" \/ approval'[r] # "none") => desk[r] # "absent" \/ approval[r] # "none"

LEMMA RequestMoves ==
    ASSUME NEW r \in Requests, Counted(request[r]), FenceInv(r), Moved(request[r], request'[r]),
           TaskQuiet(r), UNCHANGED <<live, changing, listed>>
    PROVE  Counted(request'[r]) /\ FenceInv(r)'
BY DEF FenceInv, Moved, TaskQuiet

LEMMA DeskStep ==
    ASSUME IInv, request' \in [Requests -> Request], actor' \in Actor,
           \A r \in Requests : Moved(request[r], request'[r]) /\ TaskQuiet(r),
           desk' \in [Requests -> {"absent", "review", "acting", "handled"}],
           approval' \in [Requests -> Steps],
           command' \in [authority : Authority, generation : Nat],
           UNCHANGED <<desktop, listed>>
    PROVE  IInv' /\ Fenced
<1>1. TypeInv'
  BY DEF IInv, TypeInv, desktop
<1>2. ASSUME NEW r \in Requests PROVE Counted(request'[r]) /\ FenceInv(r)'
  BY RequestMoves DEF IInv, desktop
<1>3. Fenced
  BY DEF Moved, Fenced, HandsOff
<1> QED
  BY <1>1, <1>2, <1>3 DEF IInv

LEMMA ActorStep ==
    ASSUME IInv, request' \in [Requests -> Request], actor' \in Actor,
           \A r \in Requests : Moved(request[r], request'[r]),
           command' \in [authority : Authority, generation : Nat],
           UNCHANGED <<desktop, listed, desk, approval>>
    PROVE  IInv' /\ Fenced
<1>1. \A r \in Requests : TaskQuiet(r)
  BY DEF TaskQuiet
<1>2. /\ desk' \in [Requests -> {"absent", "review", "acting", "handled"}]
      /\ approval' \in [Requests -> Steps]
  BY DEF IInv, TypeInv
<1> QED
  BY <1>1, <1>2, DeskStep

LEMMA Typed ==
    ASSUME IInv
    PROVE  /\ actor \in Actor /\ request \in [Requests -> Request] /\ live \in Authority
           /\ command \in [authority : Authority, generation : Nat]
           /\ \A r \in Requests : request[r] \in Request /\ Counted(request[r])
           /\ Reloaded(actor) \in Actor
BY ResolveType DEF IInv, TypeInv

LEMMA HandleInv ==
    ASSUME IInv, NEW a \in Actor, Handle(a)
    PROVE  IInv' /\ Fenced
<1>1. /\ request' \in [Requests -> Request]
      /\ \A r \in Requests : Moved(request[r], request'[r])
  <2>1. Refreshed(request, Refresh(a, request))
    BY Typed, RefreshMoves
  <2> QED
    BY <2>1 DEF Handle, Refreshed
<1>2. actor' \in Actor /\ command' \in [authority : Authority, generation : Nat]
  BY Typed DEF Handle
<1> QED
  BY <1>1, <1>2, ActorStep DEF Handle

LEMMA ProviderInv ==
    ASSUME IInv, Tick \/ Revoke \/ Connect
    PROVE  IInv' /\ Fenced
<1>1. Reloaded(actor) \in Actor /\ Granted(actor) \in Actor
  BY Typed, ResolveType
<1>2. Reloaded([actor EXCEPT !.grant = 0]) \in Actor
  <2>1. [actor EXCEPT !.grant = 0] \in Actor
    BY Typed DEF Actor
  <2> QED
    BY <2>1, ResolveType
<1> QED
  BY <1>1, <1>2, HandleInv DEF Tick, Revoke, Connect

\* Emptying the outbox, or delivering from it, adds no answer.
LEMMA DeliverMoves ==
    ASSUME NEW q \in Request, Counted(q), NEW p \in Request, SameRest([q EXCEPT !.answers = p.answers], p),
           p.phase = q.phase, p.owner = q.owner, p.acknowledged = q.acknowledged,
           p.invalid = q.invalid, Total(p) \in 0..Total(q)
    PROVE  Moved(q, p)
<1>1. p.kind = q.kind /\ p.handed = q.handed
  BY DEF SameRest, Request
<1>2. Total(p) \in {0, 1} /\ (Total(q) = 0 => Total(p) = 0)
  BY DEF Counted
<1>3. Counted(p)
  BY <1>1, <1>2 DEF Counted
<1> QED
  BY <1>1, <1>3 DEF Moved

LEMMA UnregisterInv ==
    ASSUME IInv, Unregister
    PROVE  IInv' /\ Fenced
<1> DEFINE a == [actor EXCEPT !.incarnation = 0]
           left == [r \in Requests |-> [request[r] EXCEPT !.outbox = <<>>]]
<1>1. /\ actor' = a /\ request' = Refresh(a, left)
      /\ UNCHANGED <<desktop, command, listed, desk, approval>>
  BY DEF Unregister
<1>2. a \in Actor
  BY Typed DEF Actor
<1>3. ASSUME NEW r \in Requests PROVE Moved(request[r], left[r])
  <2> DEFINE q == request[r]
             p == [q EXCEPT !.outbox = <<>>]
  <2>1. q \in Request /\ Counted(q) /\ left[r] = p
    BY Typed
  <2> HIDE DEF q
  <2>2. <<>> \in Seq(AnswerType) /\ Len(q.outbox) \in Nat /\ Len(q.answers) \in Nat
    BY <2>1 DEF Request
  <2>3. /\ p \in Request /\ SameRest([q EXCEPT !.answers = p.answers], p) /\ p.phase = q.phase
        /\ p.owner = q.owner /\ p.acknowledged = q.acknowledged /\ p.invalid = q.invalid
        /\ p.outbox = <<>> /\ p.answers = q.answers
    BY <2>1, <2>2 DEF Request, SameRest
  <2>4. Total(p) \in 0..Total(q)
    <3>1. Len(p.outbox) = 0 /\ Len(p.answers) = Len(q.answers)
      BY <2>3
    <3> DEFINE i == Len(q.outbox)
               j == Len(q.answers)
               m == Len(p.outbox)
               n == Len(p.answers)
    <3>2. i \in Nat /\ j \in Nat /\ m = 0 /\ n = j
      BY <2>2, <3>1
    <3> HIDE DEF i, j, m, n
    <3>3. m + n \in 0..(i + j)
      BY <3>2
    <3> QED
      BY <3>3 DEF Total, i, j, m, n
  <2> HIDE DEF p
  <2>5. Moved(q, p)
    BY <2>1, <2>3, <2>4, DeliverMoves
  <2> QED
    BY <2>1, <2>5 DEF q
<1>4. left \in [Requests -> Request] /\ \A r \in Requests : Counted(left[r])
  <2>1. \A r \in Requests : left[r] \in Request /\ Counted(left[r])
    BY <1>3 DEF Moved
  <2> QED
    BY <2>1
<1> HIDE DEF a, left
<1>5. /\ request' \in [Requests -> Request]
      /\ \A r \in Requests : Moved(left[r], request'[r])
  <2>1. Refreshed(left, Refresh(a, left))
    BY <1>2, <1>4, RefreshMoves
  <2> QED
    BY <1>1, <2>1 DEF Refreshed
<1>6. \A r \in Requests : Moved(request[r], request'[r])
  BY <1>3, <1>5, MovedChain
<1> QED
  BY <1>1, <1>2, <1>5, <1>6, Typed, ActorStep

LEMMA RegisterInv ==
    ASSUME IInv, Register
    PROVE  IInv' /\ Fenced
<1>1. actor' = [actor EXCEPT !.documents = @ + 1, !.incarnation = actor.documents + 1,
                             !.document = 1, !.disclosure = Resolve(actor)]
      /\ UNCHANGED <<desktop, command, request, listed, desk, approval>>
  BY DEF Register
<1>2. actor' \in Actor
  <2> DEFINE n == actor.documents + 1
             m == Resolve(actor)
  <2>1. n \in Nat /\ m \in Nat
    BY Typed, ResolveType DEF Actor
  <2>2. actor' = [actor EXCEPT !.documents = n, !.incarnation = n, !.document = 1, !.disclosure = m]
    BY <1>1
  <2> HIDE DEF n, m
  <2> QED
    BY <2>1, <2>2, Typed DEF Actor
<1>3. \A r \in Requests : Moved(request[r], request'[r])
  BY <1>1, Typed DEF Moved
<1> QED
  BY <1>1, <1>2, <1>3, Typed, ActorStep

LEMMA RequestInv ==
    ASSUME IInv, NEW r \in Requests, NEW kind \in Kinds, RequestApproval(r, kind)
    PROVE  IInv' /\ Fenced
<1> DEFINE q == [request[r] EXCEPT !.kind = kind, !.incarnation = actor.incarnation]
           cohort == IF actor.wallet.wallet = Locked THEN actor.wallet.cohort ELSE NoCohort
           waiting == [q EXCEPT !.phase = "waiting", !.cohort = cohort]
           done == [q EXCEPT !.phase = "done"]
<1>1. /\ request[r].phase = "new"
      /\ request' = IF Refuses THEN [request EXCEPT ![r] = Respond(done, FALSE, NoOwner)]
                    ELSE Refresh(actor, [request EXCEPT ![r] = waiting])
      /\ UNCHANGED <<desktop, command, actor, listed, desk, approval>>
  BY DEF RequestApproval
<1>2. request[r] \in Request /\ Counted(request[r]) /\ request \in [Requests -> Request]
  BY Typed
<1>3. kind \in AllKinds /\ actor.incarnation \in Nat /\ cohort \in Nat
  BY DappConstants, Typed, NoOwnerType DEF AllKinds, Actor, Authority
<1>4. /\ q \in Request /\ q.phase = "new" /\ q.outbox = request[r].outbox /\ q.answers = request[r].answers
      /\ q.handed = request[r].handed /\ q.invalid = request[r].invalid
      /\ q.acknowledged = request[r].acknowledged
  BY <1>1, <1>2, <1>3 DEF Request
<1>5. Total(q) = 0 /\ ~q.acknowledged
  BY <1>1, <1>2, <1>4 DEF Counted, Total
<1> HIDE DEF q, cohort
<1>6. Moved(request[r], waiting)
  <2>1. /\ waiting \in Request /\ waiting.phase = "waiting" /\ waiting.outbox = q.outbox
        /\ waiting.answers = q.answers /\ waiting.handed = q.handed /\ waiting.invalid = q.invalid
        /\ waiting.acknowledged = q.acknowledged
    BY <1>3, <1>4 DEF Request, Held
  <2>2. Total(waiting) = 0
    BY <1>5, <2>1 DEF Total
  <2> HIDE DEF waiting
  <2>3. Counted(waiting)
    BY <1>5, <2>1, <2>2 DEF Counted
  <2> QED
    BY <1>1, <1>4, <2>1, <2>3 DEF Moved
<1>7. Moved(request[r], Respond(done, FALSE, NoOwner))
  <2>1. /\ done \in Request /\ done.phase = "done" /\ done.outbox = q.outbox
        /\ done.answers = q.answers /\ done.handed = q.handed /\ done.invalid = q.invalid
        /\ done.acknowledged = q.acknowledged
    BY <1>4 DEF Request
  <2>2. Total(done) = 0
    BY <1>5, <2>1 DEF Total
  <2> DEFINE p == Respond(done, FALSE, NoOwner)
  <2> HIDE DEF done
  <2>3. /\ p \in Request /\ p.handed = done.handed /\ p.phase = done.phase
        /\ p.acknowledged = done.acknowledged /\ p.invalid = done.invalid /\ Total(p) = 1
    BY <2>1, <2>2, NoOwnerType, RespondFacts DEF SameRest
  <2> HIDE DEF p
  <2>4. Counted(p)
    BY <1>5, <2>1, <2>3 DEF Counted, Held
  <2>5. Moved(request[r], p)
    BY <1>1, <1>4, <2>1, <2>3, <2>4 DEF Moved
  <2> QED
    BY <2>5 DEF p
<1> HIDE DEF waiting, done
<1>8. \A s \in Requests : Moved(request[s], request[s])
  BY Typed DEF Moved
<1>9. CASE Refuses
  <2> DEFINE p == Respond(done, FALSE, NoOwner)
  <2>1. request' = [request EXCEPT ![r] = p]
    BY <1>1, <1>9
  <2>2. p \in Request /\ Moved(request[r], p)
    BY <1>7 DEF Moved
  <2> HIDE DEF p
  <2>3. request' \in [Requests -> Request] /\ \A s \in Requests : Moved(request[s], request'[s])
    BY <1>2, <1>8, <2>1, <2>2
  <2> QED
    BY <1>1, <2>3, Typed, ActorStep
<1>10. CASE ~Refuses
  <2> DEFINE mid == [request EXCEPT ![r] = waiting]
  <2>1. /\ mid \in [Requests -> Request] /\ \A s \in Requests : Moved(request[s], mid[s])
        /\ \A s \in Requests : Counted(mid[s])
    BY <1>2, <1>6, <1>8 DEF Moved
  <2>2. request' = Refresh(actor, mid)
    BY <1>1, <1>10
  <2> HIDE DEF mid
  <2>3. request' \in [Requests -> Request] /\ \A s \in Requests : Moved(mid[s], request'[s])
    <3>1. Refreshed(mid, Refresh(actor, mid))
      BY <2>1, Typed, RefreshMoves
    <3> QED
      BY <2>2, <3>1 DEF Refreshed
  <2>4. \A s \in Requests : Moved(request[s], request'[s])
    BY <2>1, <2>3, MovedChain
  <2> QED
    BY <1>1, <2>3, <2>4, Typed, ActorStep
<1> QED
  BY <1>9, <1>10

LEMMA ExpireInv ==
    ASSUME IInv, NEW r \in Requests, Expire(r)
    PROVE  IInv' /\ Fenced
<1> DEFINE q == request[r]
           p == [q EXCEPT !.expired = TRUE]
<1>1. request' = [request EXCEPT ![r] = p] /\ UNCHANGED <<desktop, command, actor, listed, desk, approval>>
  BY Typed DEF Expire
<1>2. q \in Request /\ Counted(q) /\ request \in [Requests -> Request]
  BY Typed
<1> HIDE DEF q
<1>3. /\ p \in Request /\ p.phase = q.phase /\ p.outbox = q.outbox /\ p.answers = q.answers
      /\ p.acknowledged = q.acknowledged /\ p.kind = q.kind /\ p.handed = q.handed
      /\ p.invalid = q.invalid /\ p.owner = q.owner
  BY <1>2 DEF Request
<1> HIDE DEF p
<1>4. Total(p) = Total(q)
  BY <1>3 DEF Total
<1>5. Moved(q, p)
  BY <1>2, <1>3, <1>4 DEF Moved, Counted
<1>6. \A s \in Requests : Moved(request[s], request[s])
  BY Typed DEF Moved
<1>7. request' \in [Requests -> Request] /\ \A s \in Requests : Moved(request[s], request'[s])
  BY <1>1, <1>2, <1>3, <1>5, <1>6 DEF q
<1> QED
  BY <1>1, <1>7, Typed, ActorStep

LEMMA DeliverInv ==
    ASSUME IInv, NEW r \in Requests, Deliver(r)
    PROVE  IInv' /\ Fenced
<1> DEFINE q == request[r]
           d == Head(q.outbox)
           told == d.ok /\ (d.owner = NoOwner \/ (Current(q) /\ OwnerValid(actor, q, d.owner)))
           sent == IF d.incarnation # actor.incarnation THEN <<>> ELSE <<told>>
           box == Tail(q.outbox)
           all == q.answers \o sent
           p == [q EXCEPT !.outbox = box, !.answers = all]
<1>1. /\ q.outbox # <<>>
      /\ request' = [request EXCEPT ![r].outbox = Tail(@), ![r].answers = @ \o sent]
      /\ UNCHANGED <<desktop, command, actor, listed, desk, approval>>
  BY DEF Deliver
<1>2. q \in Request /\ Counted(q) /\ request \in [Requests -> Request]
  BY Typed
<1>3. told \in BOOLEAN
  OBVIOUS
<1> HIDE DEF told
<1>4. sent \in Seq(BOOLEAN) /\ Len(sent) \in {0, 1}
  <2>1. <<told>> \in Seq(BOOLEAN) /\ Len(<<told>>) = 1
    BY <1>3
  <2>2. <<>> \in Seq(BOOLEAN) /\ Len(<<>>) = 0
    OBVIOUS
  <2>3. CASE d.incarnation # actor.incarnation
    BY <2>2, <2>3
  <2>4. CASE d.incarnation = actor.incarnation
    BY <2>1, <2>4
  <2> QED
    BY <2>3, <2>4
<1>5. request' = [request EXCEPT ![r] = p]
  BY <1>1, <1>2 DEF Request
<1> HIDE DEF q, sent
<1>6. /\ q.outbox \in Seq(AnswerType) /\ q.answers \in Seq(BOOLEAN)
      /\ Len(q.outbox) \in Nat /\ Len(q.answers) \in Nat
  BY <1>2 DEF Request
<1>7. box \in Seq(AnswerType) /\ Len(box) = Len(q.outbox) - 1 /\ Len(q.outbox) # 0
  BY <1>1, <1>6
<1>8. all \in Seq(BOOLEAN) /\ Len(all) = Len(q.answers) + Len(sent)
  BY <1>4, <1>6
<1> HIDE DEF box, all
<1>9. /\ p \in Request /\ p.phase = q.phase /\ p.owner = q.owner /\ p.acknowledged = q.acknowledged
      /\ p.invalid = q.invalid /\ p.outbox = box /\ p.answers = all
      /\ p.kind = q.kind /\ p.handed = q.handed
      /\ SameRest([q EXCEPT !.answers = p.answers], p)
  BY <1>2, <1>7, <1>8 DEF Request, SameRest
<1> HIDE DEF p
<1>10. Total(p) \in 0..Total(q)
  <2> DEFINE i == Len(q.outbox)
             j == Len(q.answers)
             m == Len(p.outbox)
             n == Len(p.answers)
             k == Len(sent)
  <2>1. i \in Nat /\ j \in Nat /\ m = i - 1 /\ n = j + k /\ k \in {0, 1} /\ i # 0
    BY <1>4, <1>6, <1>7, <1>8, <1>9
  <2> HIDE DEF i, j, m, n, k
  <2>2. m + n \in 0..(i + j)
    BY <2>1
  <2> QED
    BY <2>2 DEF Total, i, j, m, n
<1>11. Moved(q, p)
  BY <1>2, <1>9, <1>10, DeliverMoves
<1>12. \A s \in Requests : Moved(request[s], request[s])
  BY Typed DEF Moved
<1>13. request' \in [Requests -> Request] /\ \A s \in Requests : Moved(request[s], request'[s])
  BY <1>2, <1>5, <1>9, <1>11, <1>12 DEF q
<1> QED
  BY <1>1, <1>13, Typed, ActorStep

LEMMA WalletStateInv ==
    ASSUME IInv, WalletState
    PROVE  IInv' /\ Fenced
<1> DEFINE b == [actor EXCEPT !.wallet = command.authority, !.generation = command.generation]
           a == Reloaded(b)
<1>1. /\ command' = NoCommand
      /\ (actor' = a /\ request' = Refresh(a, request)) \/ UNCHANGED <<actor, request>>
      /\ UNCHANGED <<desktop, listed, desk, approval>>
  BY DEF WalletState
<1>2. a \in Actor
  <2>1. b \in Actor
    BY Typed DEF Actor
  <2> QED
    BY <2>1, ResolveType
<1>3. command' \in [authority : Authority, generation : Nat]
  BY <1>1, NoOwnerType DEF NoCommand
<1> HIDE DEF a
<1>4. Refreshed(request, Refresh(a, request))
  BY <1>2, Typed, RefreshMoves
<1>5. /\ request' \in [Requests -> Request] /\ actor' \in Actor
      /\ \A s \in Requests : Moved(request[s], request'[s])
  <2>1. \A s \in Requests : Moved(request[s], request[s])
    BY Typed DEF Moved
  <2> QED
    BY <1>1, <1>2, <1>4, <2>1, Typed DEF Refreshed
<1> QED
  BY <1>1, <1>3, <1>5, ActorStep

\* The desktop learns of every request that is prepared.
LEMMA PublishInv ==
    ASSUME IInv, Publish
    PROVE  IInv' /\ Fenced
<1>1. listed' = ReadyRequests /\ UNCHANGED <<desktop, command, actor, request, desk, approval>>
  BY DEF Publish
<1>2. TypeInv'
  BY <1>1 DEF IInv, TypeInv, desktop, ReadyRequests
<1>3. ASSUME NEW r \in Requests PROVE FenceInv(r)'
  BY <1>1 DEF IInv, FenceInv, desktop, ReadyRequests, Ready
<1>4. Fenced
  BY <1>1 DEF Fenced, HandsOff
<1> QED
  BY <1>1, <1>2, <1>3, <1>4 DEF IInv

----------------------------------------------------------------------------
(* The authority                                                           *)

\* While the authority changes nothing is promised of the executing requests.
LEMMA ChangeInv ==
    ASSUME IInv, NEW w \in Authority, Change(w), attempt' \in BOOLEAN
    PROVE  IInv' /\ Fenced
<1>1. /\ live' = w /\ changing' = TRUE
      /\ UNCHANGED <<generation, dirty, command, actor, request, listed, desk, approval>>
  BY DEF Change
<1>2. TypeInv'
  BY <1>1 DEF IInv, TypeInv
<1>3. ASSUME NEW r \in Requests PROVE FenceInv(r)'
  BY <1>1 DEF IInv, FenceInv
<1>4. Fenced
  BY <1>1 DEF Fenced, HandsOff
<1> QED
  BY <1>1, <1>2, <1>3, <1>4 DEF IInv

\* Steps of the unlock fields alone.
LEMMA IdleInv ==
    ASSUME IInv, attempt' \in BOOLEAN, dirty' \in BOOLEAN,
           command' \in [authority : Authority, generation : Nat],
           UNCHANGED <<live, changing, generation, actor, request, listed, desk, approval>>
    PROVE  IInv' /\ Fenced
<1>1. TypeInv'
  BY DEF IInv, TypeInv
<1>2. ASSUME NEW r \in Requests PROVE FenceInv(r)'
  BY DEF IInv, FenceInv
<1>3. Fenced
  BY DEF Fenced, HandsOff
<1> QED
  BY <1>1, <1>2, <1>3 DEF IInv

LEMMA AuthorityInv ==
    ASSUME IInv, \/ Lock \/ BeginUnlock \/ RetireUnlock \/ SendState
                 \/ \E w \in Wallets : InstallWallet(w) \/ ChangeWallet(w)
    PROVE  IInv' /\ Fenced
<1>1. live \in Authority /\ attempt \in BOOLEAN /\ dirty \in BOOLEAN /\ generation \in Nat
      /\ command \in [authority : Authority, generation : Nat]
  BY DEF IInv, TypeInv
<1>2. Retired \in Authority
  <2> DEFINE n == live.cohort + 1
  <2>1. n \in Nat
    BY <1>1 DEF Authority
  <2>2. Retired = [live EXCEPT !.cohort = n, !.completed = FALSE]
    BY DEF Retired
  <2> HIDE DEF n
  <2> QED
    BY <1>1, <2>1, <2>2 DEF Authority
<1>3. CASE Lock
  <2>1. [Retired EXCEPT !.wallet = Locked] \in Authority
    BY <1>2 DEF Authority
  <2> QED
    BY <1>3, <2>1, ChangeInv DEF Lock
<1>4. CASE BeginUnlock
  <2>1. attempt' \in BOOLEAN
    BY <1>4 DEF BeginUnlock
  <2>2. CASE attempt \/ live.completed
    BY <1>2, <1>4, <2>1, <2>2, ChangeInv DEF BeginUnlock
  <2>3. CASE ~(attempt \/ live.completed)
    BY <1>1, <1>4, <2>1, <2>3, IdleInv DEF BeginUnlock
  <2> QED
    BY <2>2, <2>3
<1>5. CASE RetireUnlock
  BY <1>2, <1>5, ChangeInv DEF RetireUnlock
<1>6. CASE SendState
  <2>1. [authority |-> live, generation |-> generation] \in [authority : Authority, generation : Nat]
    BY <1>1
  <2> QED
    BY <1>1, <1>6, <2>1, IdleInv DEF SendState
<1>7. ASSUME NEW w \in Wallets, InstallWallet(w) PROVE IInv' /\ Fenced
  <2>1. PICK own \in {FALSE, attempt} :
          /\ Change([live EXCEPT !.wallet = w, !.completed = @ \/ own])
          /\ attempt' = (attempt /\ ~own)
    BY <1>7 DEF InstallWallet
  <2>2. own \in BOOLEAN
    BY <1>1
  <2>3. [live EXCEPT !.wallet = w, !.completed = @ \/ own] \in Authority /\ attempt' \in BOOLEAN
    <3> DEFINE c == live.completed \/ own
    <3>1. c \in BOOLEAN /\ (attempt /\ ~own) \in BOOLEAN
      OBVIOUS
    <3>2. [live EXCEPT !.wallet = w, !.completed = @ \/ own] = [live EXCEPT !.wallet = w, !.completed = c]
      BY <1>1 DEF Authority
    <3> HIDE DEF c
    <3> QED
      BY <1>1, <2>1, <3>1, <3>2 DEF Authority
  <2> QED
    BY <2>1, <2>3, ChangeInv
<1>8. ASSUME NEW w \in Wallets, ChangeWallet(w) PROVE IInv' /\ Fenced
  <2>1. [live EXCEPT !.wallet = w] \in Authority /\ attempt' \in BOOLEAN
    BY <1>1, <1>8 DEF Authority, ChangeWallet
  <2> QED
    BY <1>8, <2>1, ChangeInv DEF ChangeWallet
<1> QED
  BY <1>3, <1>4, <1>5, <1>6, <1>7, <1>8

\* set_wallet_authority invalidates every listed request it does not cover, and
\* every executing request is listed.
LEMMA FinishChangeInv ==
    ASSUME IInv, FinishChange
    PROVE  IInv' /\ Fenced
<1>1. /\ changing' = FALSE /\ generation' = generation + 1 /\ dirty' = TRUE
      /\ UNCHANGED <<live, attempt, command, actor, listed, desk, approval>>
      /\ request' = [r \in Requests |->
                        IF r \in listed /\ ~Current(request[r])
                        THEN [request[r] EXCEPT !.invalid = TRUE] ELSE request[r]]
  BY DEF FinishChange, PublishChange
<1>2. ASSUME NEW r \in Requests
      PROVE  /\ Moved(request[r], request'[r])
             /\ request'[r].phase = request[r].phase /\ request'[r].owner = request[r].owner
             /\ (r \in listed /\ ~Current(request[r])) => request'[r].invalid
  <2> DEFINE q == request[r]
             p == [q EXCEPT !.invalid = TRUE]
  <2>1. q \in Request /\ Counted(q)
    BY Typed
  <2>2. request'[r] = IF r \in listed /\ ~Current(q) THEN p ELSE q
    BY <1>1
  <2> HIDE DEF q
  <2>3. /\ p \in Request /\ p.phase = q.phase /\ p.outbox = q.outbox /\ p.answers = q.answers
        /\ p.acknowledged = q.acknowledged /\ p.kind = q.kind /\ p.handed = q.handed
        /\ p.invalid /\ p.owner = q.owner
    BY <2>1 DEF Request
  <2> HIDE DEF p
  <2>4. Total(p) = Total(q)
    BY <2>3 DEF Total
  <2>5. Moved(q, p) /\ Moved(q, q)
    BY <2>1, <2>3, <2>4 DEF Moved, Counted
  <2> QED
    BY <2>2, <2>3, <2>5 DEF q
<1>3. request' \in [Requests -> Request]
  <2>1. \A r \in Requests : request'[r] \in Request
    BY <1>2 DEF Moved
  <2>2. request' = [r \in Requests |-> request'[r]]
    BY <1>1
  <2> QED
    BY <2>1, <2>2
<1>4. TypeInv'
  <2>1. changing' \in BOOLEAN /\ dirty' \in BOOLEAN
    BY <1>1
  <2>2. generation' \in Nat
    BY <1>1 DEF IInv, TypeInv
  <2> QED
    BY <1>1, <1>3, <2>1, <2>2 DEF IInv, TypeInv
<1>5. ASSUME NEW r \in Requests PROVE Counted(request'[r]) /\ FenceInv(r)'
  <2>1. /\ Moved(request[r], request'[r]) /\ request'[r].phase = request[r].phase
        /\ request'[r].owner = request[r].owner
        /\ (r \in listed /\ ~Current(request[r])) => request'[r].invalid
    BY <1>2
  <2>2. (request'[r].phase = "executing" /\ ~request'[r].invalid) => live = request'[r].owner.authority
    BY <2>1 DEF IInv, FenceInv, Current
  <2> QED
    BY <1>1, <2>1, <2>2 DEF IInv, FenceInv, Moved
<1>6. Fenced
  BY <1>2 DEF Fenced, HandsOff, Moved
<1> QED
  BY <1>4, <1>5, <1>6 DEF IInv

----------------------------------------------------------------------------
(* The user and the approval tasks                                         *)

Views == {"absent", "review", "acting", "handled"}

LEMMA SamePlace ==
    ASSUME IInv
    PROVE  \A r \in Requests : Moved(request[r], request[r])
BY Typed DEF Moved

\* A step of the desktop or of a task that leaves the requests alone.
LEMMA QuietInv ==
    ASSUME IInv, UNCHANGED <<desktop, command, actor, request, listed>>,
           desk' \in [Requests -> Views], approval' \in [Requests -> Steps],
           \A r \in Requests : TaskQuiet(r)
    PROVE  IInv' /\ Fenced
<1>1. \A r \in Requests : Moved(request[r], request'[r]) /\ TaskQuiet(r)
  BY SamePlace
<1> QED
  BY <1>1, Typed, DeskStep DEF Views

\* The desktop shows only what the actor listed, which is prepared.
LEMMA ReconcileInv ==
    ASSUME IInv, Reconcile
    PROVE  IInv' /\ Fenced
<1>1. /\ \A r \in Requests : desk'[r] \in {"handled", "review", desk[r]}
      /\ \A r \in Requests : desk'[r] # "absent" => desk[r] # "absent" \/ r \in listed
      /\ desk' = [r \in Requests |-> desk'[r]]
      /\ UNCHANGED <<desktop, command, actor, request, listed, approval>>
  <2> DEFINE next == [r \in Requests |->
            CASE desk[r] \in {"review", "acting"} /\ ~Current(request[r]) -> "handled"
              [] desk[r] = "review" /\ r \notin listed -> "handled"
              [] desk[r] = "absent" /\ r \in listed /\ live.wallet # Locked -> "review"
              [] OTHER -> desk[r]]
  <2>1. desk' = next /\ UNCHANGED <<desktop, command, actor, request, listed, approval>>
    BY DEF Reconcile
  <2>2. ASSUME NEW r \in Requests
        PROVE  /\ next[r] \in {"handled", "review", desk[r]}
               /\ next[r] # "absent" => desk[r] # "absent" \/ r \in listed
    <3>1. CASE desk[r] = "absent"
      BY <3>1
    <3>2. CASE desk[r] # "absent"
      BY <3>2
    <3> QED
      BY <3>1, <3>2
  <2>3. next = [r \in Requests |-> next[r]]
    OBVIOUS
  <2> HIDE DEF next
  <2> QED
    BY <2>1, <2>2, <2>3
<1>2. desk' \in [Requests -> Views]
  <2>1. \A r \in Requests : desk'[r] \in Views
    BY <1>1 DEF IInv, TypeInv, Views
  <2> QED
    BY <1>1, <2>1
<1>3. TypeInv'
  BY <1>1, <1>2 DEF IInv, TypeInv, desktop, Views
<1>4. ASSUME NEW r \in Requests PROVE FenceInv(r)'
  BY <1>1 DEF IInv, FenceInv, desktop
<1>5. Fenced
  BY <1>1 DEF Fenced, HandsOff
<1> QED
  BY <1>1, <1>3, <1>4, <1>5 DEF IInv

LEMMA DecideInv ==
    ASSUME IInv, NEW r \in Requests, NEW first \in {"begin", "reject"}, Decide(r, first)
    PROVE  IInv' /\ Fenced
<1>1. desk \in [Requests -> Views] /\ approval \in [Requests -> Steps]
  BY DEF IInv, TypeInv, Views
<1>2. desk' \in [Requests -> Views] /\ approval' \in [Requests -> Steps]
  BY <1>1 DEF Decide, Views, Steps
<1>3. \A s \in Requests : TaskQuiet(s)
  BY <1>1 DEF Decide, TaskQuiet
<1> QED
  BY <1>2, <1>3, QuietInv DEF Decide

\* A task that ends, or goes to another step.
LEMMA TaskSteps ==
    ASSUME IInv, NEW r \in Requests, approval[r] # "none",
           \/ Ends(r, TRUE) \/ Ends(r, FALSE)
           \/ \E step \in Steps : /\ Goes(r, step)
                                  /\ step \in {"run", "check", "swap"} => approval[r] \in {"run", "check", "swap"}
    PROVE  /\ desk' \in [Requests -> Views] /\ approval' \in [Requests -> Steps]
           /\ \A s \in Requests : TaskQuiet(s)
<1>1. desk \in [Requests -> Views] /\ approval \in [Requests -> Steps]
  BY DEF IInv, TypeInv, Views
<1>2. ASSUME NEW review \in BOOLEAN, Ends(r, review)
      PROVE  /\ desk' \in [Requests -> Views] /\ approval' \in [Requests -> Steps]
             /\ \A s \in Requests : TaskQuiet(s)
  <2> DEFINE v == IF desk[r] = "acting" /\ review THEN "review" ELSE
                  IF desk[r] = "acting" THEN "handled" ELSE desk[r]
  <2>1. desk' = [desk EXCEPT ![r] = v] /\ approval' = [approval EXCEPT ![r] = "none"]
    BY <1>1, <1>2 DEF Ends
  <2>2. v \in Views /\ (v # "absent" => desk[r] # "absent")
    BY <1>1 DEF Views
  <2> HIDE DEF v
  <2> QED
    BY <1>1, <2>1, <2>2 DEF TaskQuiet, Steps
<1>3. ASSUME NEW step \in Steps, Goes(r, step),
             step \in {"run", "check", "swap"} => approval[r] \in {"run", "check", "swap"}
      PROVE  /\ desk' \in [Requests -> Views] /\ approval' \in [Requests -> Steps]
             /\ \A s \in Requests : TaskQuiet(s)
  BY <1>1, <1>3 DEF Goes, TaskQuiet
<1> QED
  BY <1>2, <1>3

LEMMA RunInv ==
    ASSUME IInv, NEW r \in Requests, Run(r) \/ CheckControl(r)
    PROVE  IInv' /\ Fenced
<1>1. /\ approval[r] \in {"run", "check"}
      /\ \E step \in Steps : Goes(r, step)
      /\ UNCHANGED <<desktop, command, actor, request, listed>>
  BY DEF Run, CheckControl, Steps
<1>2. /\ desk' \in [Requests -> Views] /\ approval' \in [Requests -> Steps]
      /\ \A s \in Requests : TaskQuiet(s)
  BY <1>1, TaskSteps
<1> QED
  BY <1>1, <1>2, QuietInv

\* The swap succeeds only on a request that is not invalidated, which therefore
\* executes and, between two changes, is owned by the live authority.
LEMMA HandOffInv ==
    ASSUME IInv, NEW r \in Requests, HandOff(r)
    PROVE  IInv' /\ Fenced
<1>1. /\ approval[r] = "swap"
      /\ \E step \in {"approve", "fail"} : Goes(r, step)
      /\ UNCHANGED <<desktop, command, actor, listed>>
  BY DEF HandOff
<1>2. /\ desk' \in [Requests -> Views] /\ approval' \in [Requests -> Steps]
      /\ \A s \in Requests : TaskQuiet(s)
  BY <1>1, TaskSteps DEF Steps
<1>3. CASE request' = request
  BY <1>1, <1>2, <1>3, QuietInv
<1>4. CASE ~request[r].invalid /\ request' = [request EXCEPT ![r].handed = TRUE]
  <2> DEFINE q == request[r]
             p == [q EXCEPT !.handed = TRUE]
  <2>1. q \in Request /\ Counted(q) /\ request \in [Requests -> Request]
    BY Typed
  <2>2. request' = [request EXCEPT ![r] = p]
    BY <1>4
  <2>3. q.phase = "executing" /\ (changing \/ live = q.owner.authority)
    BY <1>1, <1>4 DEF IInv, FenceInv
  <2> HIDE DEF q
  <2>4. /\ p \in Request /\ p.phase = q.phase /\ p.outbox = q.outbox /\ p.answers = q.answers
        /\ p.acknowledged = q.acknowledged /\ p.kind = q.kind
        /\ p.invalid = q.invalid /\ p.owner = q.owner
    BY <2>1 DEF Request
  <2> HIDE DEF p
  <2>5. Counted(p)
    BY <2>1, <2>4 DEF Counted, Total
  <2>6. request' \in [Requests -> Request] /\ request'[r] = p /\ \A s \in Requests \ {r} : request'[s] = request[s]
    BY <2>1, <2>2, <2>4
  <2>7. TypeInv'
    BY <1>1, <1>2, <2>6 DEF IInv, TypeInv, desktop, Views
  <2>8. ASSUME NEW s \in Requests PROVE Counted(request'[s]) /\ FenceInv(s)'
    <3>1. CASE s # r
      <4>1. request'[s] = request[s]
        BY <2>6, <3>1
      <4> QED
        BY <1>1, <1>2, <4>1 DEF IInv, FenceInv, TaskQuiet, desktop
    <3>2. CASE s = r
      <4>1. /\ request'[s].phase = request[s].phase /\ request'[s].invalid = request[s].invalid
            /\ request'[s].owner = request[s].owner /\ Counted(request'[s])
        BY <2>4, <2>5, <2>6, <3>2 DEF q
      <4> QED
        BY <1>1, <1>2, <4>1 DEF IInv, FenceInv, TaskQuiet, desktop
    <3> QED
      BY <3>1, <3>2
  <2>9. Fenced
    BY <2>3, <2>6 DEF Fenced, HandsOff, q
  <2> QED
    BY <2>7, <2>8, <2>9 DEF IInv
<1> QED
  BY <1>3, <1>4 DEF HandOff

\* One request of the refreshed table is replaced by p.
LEMMA ReplacedInv ==
    ASSUME IInv, NEW r \in Requests, NEW p \in Request, NEW new \in [Requests -> Request],
           \A s \in Requests \ {r} : Moved(request[s], new[s]),
           request' = [new EXCEPT ![r] = p], actor' \in Actor, UNCHANGED <<desktop, command, listed>>,
           desk' \in [Requests -> Views], approval' \in [Requests -> Steps],
           \A s \in Requests \ {r} : TaskQuiet(s),
           Counted(p), p.handed = request[r].handed, FenceInv(r)'
    PROVE  IInv' /\ Fenced
<1>1. /\ request' \in [Requests -> Request] /\ request'[r] = p
      /\ \A s \in Requests \ {r} : Moved(request[s], request'[s])
  OBVIOUS
<1>2. TypeInv'
  BY <1>1 DEF IInv, TypeInv, desktop, Views
<1>3. ASSUME NEW s \in Requests PROVE Counted(request'[s]) /\ FenceInv(s)'
  <2>1. CASE s # r
    BY <1>1, <2>1, RequestMoves DEF IInv, desktop
  <2>2. CASE s = r
    BY <1>1, <2>2
  <2> QED
    BY <2>1, <2>2
<1>4. Fenced
  BY <1>1 DEF Fenced, HandsOff, Moved
<1> QED
  BY <1>2, <1>3, <1>4 DEF IInv

\* begin_approval starts a request that was listed when it came, and that the
\* refresh before it left with the live authority.
LEMMA BeginInv ==
    ASSUME IInv, NEW r \in Requests, BeginApproval(r)
    PROVE  IInv' /\ Fenced
<1> DEFINE a == Reloaded(actor)
           ticked == Refresh(a, request)
<1>1. /\ approval[r] = "begin" /\ listed = ReadyRequests /\ actor' = a
      /\ UNCHANGED <<desktop, command, listed>>
      /\ \/ /\ ticked[r].phase = "ready" /\ request' = [ticked EXCEPT ![r].phase = "executing"]
            /\ Goes(r, "run")
         \/ request' = ticked /\ (Ends(r, TRUE) \/ Ends(r, FALSE))
  <2>1. Policy(r) \in BOOLEAN
    BY DEF Policy
  <2> QED
    BY <2>1 DEF BeginApproval, Idle
<1>2. a \in Actor /\ Refreshed(request, ticked)
  BY Typed, RefreshMoves
<1> HIDE DEF a, ticked
<1>3. ticked \in [Requests -> Request] /\ \A s \in Requests : Moved(request[s], ticked[s])
  BY <1>2 DEF Refreshed
<1>4. CASE request' = ticked /\ (Ends(r, TRUE) \/ Ends(r, FALSE))
  <2>1. /\ desk' \in [Requests -> Views] /\ approval' \in [Requests -> Steps]
        /\ \A s \in Requests : TaskQuiet(s)
    BY <1>1, <1>4, TaskSteps
  <2> QED
    BY <1>1, <1>2, <1>3, <1>4, <2>1, Typed, DeskStep DEF Views
<1>5. CASE /\ ticked[r].phase = "ready" /\ request' = [ticked EXCEPT ![r].phase = "executing"]
           /\ Goes(r, "run")
  <2> DEFINE q == ticked[r]
             p == [q EXCEPT !.phase = "executing"]
  <2>1. q \in Request /\ Moved(request[r], q) /\ q.phase = "ready" /\ live = q.owner.authority
    BY <1>2, <1>3, <1>5 DEF Refreshed, Ready
  <2>2. request' = [ticked EXCEPT ![r] = p]
    BY <1>5
  <2> HIDE DEF q
  <2>3. /\ p \in Request /\ p.phase = "executing" /\ p.outbox = q.outbox /\ p.answers = q.answers
        /\ p.acknowledged = q.acknowledged /\ p.kind = q.kind
        /\ p.invalid = q.invalid /\ p.owner = q.owner /\ p.handed = q.handed
    BY <2>1 DEF Request, Held
  <2> HIDE DEF p
  <2>4. Counted(p) /\ p.handed = request[r].handed
    BY <2>1, <2>3 DEF Counted, Total, Moved, Held
  <2>5. desk \in [Requests -> Views] /\ approval \in [Requests -> Steps]
    BY DEF IInv, TypeInv, Views
  <2>6. /\ desk' \in [Requests -> Views] /\ approval' \in [Requests -> Steps] /\ approval'[r] = "run"
        /\ \A s \in Requests \ {r} : TaskQuiet(s)
    BY <1>5, <2>5 DEF Goes, TaskQuiet, Steps
  <2>7. r \in listed
    <3>1. request[r].phase \notin {"new", "waiting", "done"}
      BY <1>1, <2>1 DEF IInv, FenceInv, Moved
    <3>2. request[r].phase \in Ready
      BY <3>1, Typed DEF Request, Held, Ready
    <3> QED
      BY <1>1, <3>2 DEF ReadyRequests
  <2>8. request'[r] = p
    BY <1>3, <2>2
  <2>9. FenceInv(r)'
    BY <1>1, <2>1, <2>3, <2>6, <2>7, <2>8 DEF FenceInv, desktop
  <2> QED
    BY <1>1, <1>2, <1>3, <2>2, <2>3, <2>4, <2>6, <2>9, ReplacedInv
<1> QED
  BY <1>1, <1>4, <1>5

LEMMA ReturnInv ==
    ASSUME IInv, NEW r \in Requests, ReturnToReview(r)
    PROVE  IInv' /\ Fenced
<1> DEFINE a == Reloaded(actor)
           ticked == Refresh(a, request)
<1>1. /\ approval[r] = "return" /\ actor' = a
      /\ UNCHANGED <<desktop, command, listed>>
      /\ Ends(r, TRUE) \/ Ends(r, FALSE)
      /\ \/ request' = ticked
         \/ ticked[r].phase = "executing" /\ request' = [ticked EXCEPT ![r].phase = "ready"]
  <2> DEFINE returns == ticked[r].phase = "executing" /\ ~ticked[r].handed
  <2>1. (returns \/ Policy(r)) \in BOOLEAN
    OBVIOUS
  <2>2. Ends(r, returns \/ Policy(r))
    BY DEF ReturnToReview
  <2>3. Ends(r, TRUE) \/ Ends(r, FALSE)
    BY <2>1, <2>2
  <2> QED
    BY <2>3 DEF ReturnToReview
<1>2. a \in Actor /\ Refreshed(request, ticked)
  BY Typed, RefreshMoves
<1> HIDE DEF a, ticked
<1>3. ticked \in [Requests -> Request] /\ \A s \in Requests : Moved(request[s], ticked[s])
  BY <1>2 DEF Refreshed
<1>4. /\ desk' \in [Requests -> Views] /\ approval' \in [Requests -> Steps]
      /\ \A s \in Requests : TaskQuiet(s)
  BY <1>1, TaskSteps
<1>5. CASE request' = ticked
  BY <1>1, <1>2, <1>3, <1>4, <1>5, Typed, DeskStep DEF Views
<1>6. CASE ticked[r].phase = "executing" /\ request' = [ticked EXCEPT ![r].phase = "ready"]
  <2> DEFINE q == ticked[r]
             p == [q EXCEPT !.phase = "ready"]
  <2>1. q \in Request /\ Moved(request[r], q) /\ q.phase = "executing"
    BY <1>3, <1>6
  <2>2. request' = [ticked EXCEPT ![r] = p]
    BY <1>6
  <2> HIDE DEF q
  <2>3. /\ p \in Request /\ p.phase = "ready" /\ p.outbox = q.outbox /\ p.answers = q.answers
        /\ p.acknowledged = q.acknowledged /\ p.kind = q.kind
        /\ p.invalid = q.invalid /\ p.owner = q.owner /\ p.handed = q.handed
    BY <2>1 DEF Request, Held
  <2> HIDE DEF p
  <2>4. Counted(p) /\ p.handed = request[r].handed
    BY <2>1, <2>3 DEF Counted, Total, Moved, Held
  <2>5. request'[r] = p /\ approval'[r] = "none"
    BY <1>1, <1>3, <2>2 DEF Ends, IInv, TypeInv
  <2>6. FenceInv(r)'
    BY <2>3, <2>5 DEF FenceInv
  <2> QED
    BY <1>1, <1>2, <1>3, <1>4, <2>2, <2>3, <2>4, <2>6, ReplacedInv
<1> QED
  BY <1>1, <1>5, <1>6

\* complete_approval answers a request that is held and, unless it was
\* acknowledged, unanswered.
LEMMA CompleteInv ==
    ASSUME IInv, NEW r \in Requests, Complete(r)
    PROVE  IInv' /\ Fenced
<1> DEFINE a == Reloaded(actor)
           ticked == Refresh(a, request)
           ok == approval[r] = "approve"
           next == Completed(a, ticked, r, ok)
<1>1. /\ approval[r] \in {"approve", "fail", "reject"} /\ Ends(r, FALSE)
      /\ UNCHANGED <<desktop, command, listed>>
      /\ \/ actor' = a /\ request' = ticked
         \/ ticked[r].phase \in Ready /\ actor' = next.actor /\ request' = next.request
  BY DEF Complete, Ready
<1>2. a \in Actor /\ Refreshed(request, ticked) /\ ok \in BOOLEAN
  BY Typed, RefreshMoves
<1> HIDE DEF a, ticked, ok, next
<1>3. ticked \in [Requests -> Request] /\ \A s \in Requests : Moved(request[s], ticked[s])
  BY <1>2 DEF Refreshed
<1>4. /\ desk' \in [Requests -> Views] /\ approval' \in [Requests -> Steps]
      /\ \A s \in Requests : TaskQuiet(s)
  BY <1>1, TaskSteps
<1>5. approval'[r] = "none"
  BY <1>1 DEF Ends, IInv, TypeInv
<1>6. CASE actor' = a /\ request' = ticked
  BY <1>1, <1>2, <1>3, <1>4, <1>6, Typed, DeskStep DEF Views
<1>7. CASE ticked[r].phase \in Ready /\ actor' = next.actor /\ request' = next.request
  <2> DEFINE t == ticked[r]
             q == [t EXCEPT !.phase = "done"]
             rest == [ticked EXCEPT ![r] = q]
             b == Granted(a)
             committed == [q.owner EXCEPT !.permission = Resolve(b), !.document = b.document]
  <2>1. t \in Request /\ Moved(request[r], t) /\ t.phase \in Ready
    BY <1>3, <1>7
  <2> HIDE DEF t
  <2>2. /\ q \in Request /\ q.phase = "done" /\ q.acknowledged = t.acknowledged /\ q.owner \in Owner
        /\ q.handed = t.handed /\ q.kind = t.kind /\ q.outbox = t.outbox /\ q.answers = t.answers
    BY <2>1 DEF Request
  <2>3. CASE q.acknowledged
    <3>1. next = [actor |-> a, request |-> rest]
      BY <2>3 DEF next, Completed, t
    <3>2. actor' = a /\ request' = rest
      BY <1>7, <3>1
    <3> HIDE DEF q
    <3>3. Counted(q) /\ q.handed = request[r].handed
      BY <2>1, <2>2, <2>3 DEF Counted, Total, Moved, Held, Ready
    <3>4. request'[r] = q
      BY <1>3, <3>2
    <3>5. FenceInv(r)'
      BY <1>5, <2>2, <3>4 DEF FenceInv
    <3> QED
      BY <1>1, <1>2, <1>3, <1>4, <2>2, <3>2, <3>3, <3>5, ReplacedInv
  <2>4. ASSUME ~q.acknowledged, NEW yes \in BOOLEAN, NEW o \in Owner,
               NEW new \in [Requests -> Request],
               \A s \in Requests \ {r} : Moved(request[s], new[s]),
               request' = [new EXCEPT ![r] = Respond(q, yes, o)], actor' \in Actor
        PROVE  IInv' /\ Fenced
    <3> DEFINE p == Respond(q, yes, o)
    <3> HIDE DEF q
    <3>1. Total(q) = 0
      <4>1. Total(t) = 0
        BY <2>1, <2>2, <2>4 DEF Moved, Counted, Held, Ready
      <4> QED
        BY <2>2, <4>1 DEF Total
    <3>2. /\ p \in Request /\ p.phase = "done" /\ p.acknowledged = q.acknowledged
          /\ p.handed = q.handed /\ Total(p) = 1
      BY <2>2, <3>1, RespondFacts DEF SameRest
    <3>3. request' = [new EXCEPT ![r] = p]
      BY <2>4
    <3> HIDE DEF p
    <3>4. Counted(p) /\ p.handed = request[r].handed
      BY <2>1, <2>2, <2>4, <3>2 DEF Counted, Moved, Held
    <3>5. request'[r] = p
      BY <2>4, <3>3
    <3>6. FenceInv(r)'
      BY <1>5, <3>2, <3>5 DEF FenceInv
    <3> QED
      BY <1>1, <1>4, <2>4, <3>2, <3>3, <3>4, <3>6, ReplacedInv
  <2>5. CASE ~q.acknowledged /\ ok /\ q.kind = "switch"
    <3>1. next = [actor |-> b, request |-> [Refresh(b, rest) EXCEPT ![r] = Respond(q, TRUE, committed)]]
      BY <2>5 DEF next, Completed, t
    <3>2. actor' = b /\ request' = [Refresh(b, rest) EXCEPT ![r] = Respond(q, TRUE, committed)]
      BY <1>7, <3>1
    <3>3. b \in Actor
      BY <1>2, ResolveType
    <3>4. committed \in Owner
      <4>1. Resolve(b) \in Nat /\ b.document \in Nat
        BY <3>3, ResolveType DEF Actor
      <4> HIDE DEF q, b
      <4> QED
        BY <2>2, <4>1 DEF Owner
    <3>5. Counted(q)
      <4> HIDE DEF q
      <4> QED
        BY <2>1, <2>2, <2>5 DEF Counted, Total, Moved, Held, Ready
    <3> HIDE DEF q, b, committed
    <3>6. /\ rest \in [Requests -> Request] /\ \A s \in Requests : Counted(rest[s])
          /\ \A s \in Requests \ {r} : rest[s] = ticked[s]
      BY <1>3, <2>2, <3>5 DEF Moved
    <3> DEFINE new == Refresh(b, rest)
    <3> HIDE DEF rest
    <3>7. Refreshed(rest, new)
      BY <3>3, <3>6, RefreshMoves
    <3>8. new \in [Requests -> Request] /\ \A s \in Requests : Moved(rest[s], new[s])
      BY <3>7 DEF Refreshed
    <3>9. request' = [new EXCEPT ![r] = Respond(q, TRUE, committed)]
      BY <3>2
    <3> HIDE DEF new
    <3>10. \A s \in Requests \ {r} : Moved(request[s], new[s])
      BY <1>3, <3>6, <3>8, MovedChain
    <3> QED
      BY <2>4, <2>5, <3>2, <3>3, <3>4, <3>8, <3>9, <3>10
  <2>6. CASE ~q.acknowledged /\ ~(ok /\ q.kind = "switch")
    <3>1. next = [actor |-> a, request |-> [ticked EXCEPT ![r] = Respond(q, ok, q.owner)]]
      BY <2>6 DEF next, Completed, t
    <3>2. actor' = a /\ request' = [ticked EXCEPT ![r] = Respond(q, ok, q.owner)]
      BY <1>7, <3>1
    <3> HIDE DEF q
    <3> QED
      BY <1>2, <1>3, <2>2, <2>4, <2>6, <3>2
  <2> QED
    BY <2>3, <2>5, <2>6
<1> QED
  BY <1>1, <1>6, <1>7

----------------------------------------------------------------------------
(* The theorems                                                            *)

LEMMA Preserved == IInv /\ [Next]_vars => IInv' /\ Fenced
<1> SUFFICES ASSUME IInv, [Next]_vars PROVE IInv' /\ Fenced
  OBVIOUS
<1>1. CASE UNCHANGED vars
  <2>1. UNCHANGED <<live, attempt, changing, generation, dirty, command, actor, request, listed, desk, approval>>
    BY <1>1 DEF vars
  <2>2. attempt' \in BOOLEAN /\ dirty' \in BOOLEAN /\ command' \in [authority : Authority, generation : Nat]
    BY <2>1 DEF IInv, TypeInv
  <2> QED
    BY <2>1, <2>2, IdleInv
<1>2. CASE Publish
  BY <1>2, PublishInv
<1>3. CASE Tick \/ Revoke \/ Connect
  BY <1>3, ProviderInv
<1>4. CASE Unregister
  BY <1>4, UnregisterInv
<1>5. CASE Register
  BY <1>5, RegisterInv
<1>6. CASE \/ Lock \/ BeginUnlock \/ RetireUnlock \/ SendState
           \/ \E w \in Wallets : InstallWallet(w) \/ ChangeWallet(w)
  BY <1>6, AuthorityInv
<1>7. CASE FinishChange
  BY <1>7, FinishChangeInv
<1>8. CASE WalletState
  BY <1>8, WalletStateInv
<1>9. CASE Reconcile
  BY <1>9, ReconcileInv
<1>10. ASSUME NEW r \in Requests, NEW kind \in Kinds, RequestApproval(r, kind) PROVE IInv' /\ Fenced
  BY <1>10, RequestInv
<1>11. ASSUME NEW r \in Requests,
              \/ Expire(r) \/ Deliver(r) \/ Task(r)
              \/ Decide(r, "begin") \/ Decide(r, "reject")
       PROVE  IInv' /\ Fenced
  BY <1>11, ExpireInv, DeliverInv, BeginInv, RunInv, HandOffInv, ReturnInv, CompleteInv, DecideInv DEF Task
<1> QED
  BY <1>1, <1>2, <1>3, <1>4, <1>5, <1>6, <1>7, <1>8, <1>9, <1>10, <1>11 DEF Next

\* before_broadcast hands no transaction off, once set_wallet_authority returned,
\* that was approved under another authority than the live one.
THEOREM NoForeignHandOff == Spec => AuthorityFence
<1>1. IInv /\ Fenced => \A r \in Requests : HandsOff(r) => changing \/ live = request[r].owner.authority
  BY DEF Fenced
<1> QED
  BY <1>1, InitIInv, Preserved, PTL DEF Spec, AuthorityFence

\* before_broadcast hands a transaction off only while the actor holds its request
\* as executing.
THEOREM HandOffIsHeld == Spec => HandedOffWhileHeld
<1>1. IInv /\ Fenced => \A r \in Requests : HandsOff(r) => request[r].phase = "executing"
  BY DEF Fenced
<1> QED
  BY <1>1, InitIInv, Preserved, PTL DEF Spec, HandedOffWhileHeld

\* refresh_approvals, complete_approval, a refusal and the early acknowledgement of
\* an asset leave a request with one answer at most, sent or queued.
THEOREM OneAnswer == Spec => []AnsweredOnce
<1>1. IInv => AnsweredOnce
  <2> SUFFICES ASSUME IInv, NEW r \in Requests
               PROVE  Len(request[r].outbox) + Len(request[r].answers) <= 1
    BY DEF AnsweredOnce
  <2>1. Total(request[r]) <= 1
    BY DEF IInv, Counted
  <2> QED
    BY <2>1 DEF Total
<1> QED
  BY <1>1, InitIInv, Preserved, PTL DEF Spec
=============================================================================
