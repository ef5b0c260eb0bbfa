------------------------------ MODULE FeeBoard ------------------------------
(***************************************************************************)
(* The fee board of one chain (broadcaster-monitor/src/state.rs): the rows *)
(* shown to the user, the generation of each verified publisher, and the   *)
(* revision signal that tells the user interface to redraw.                *)
(*                                                                         *)
(* Three threads write the board under its lock and publish the revision   *)
(* they got after they let it go: the fees loop and the peer poll of       *)
(* waku_task.rs, and the desktop, which clears the board.                  *)
(*                                                                         *)
(* A signed announcement is known by its publisher, its expiration and the *)
(* tokens it has rows for; announcements arrive in any order, any number   *)
(* of times.  The wall clock, which expirations are compared with, may     *)
(* step back; the monotonic clock, which the refresh deadline uses, may    *)
(* not.                                                                    *)
(***************************************************************************)
EXTENDS Naturals, FiniteSets

CONSTANTS Publishers,    \* broadcasters that announce fees
          Tokens,        \* tokens of the chain
          MaxTtl,        \* MAX_FEE_ANNOUNCEMENT_TTL
          Interval,      \* MAX_FEE_ANNOUNCEMENT_REFRESH_INTERVAL
          Grace,         \* FEE_PUBLISHER_EVICTION_GRACE
          MaxPublishers, \* MAX_FEE_PUBLISHERS_PER_CHAIN
          MaxSkew,       \* how far the wall clock may step back
          MaxTime,       \* bound on the clocks and expirations
          MaxRevision    \* no upsert, peer change or clear after this revision

\* The grace covers the steps back of the wall clock.
ASSUME FeeConstants ==
    /\ IsFiniteSet(Publishers)
    /\ {MaxTtl, Interval, Grace, MaxPublishers, MaxSkew, MaxTime, MaxRevision} \subseteq Nat
    /\ MaxSkew <= Grace

VARIABLES fees,        \* expiration of each publisher's row per token; 0: no row
          publisher,   \* FeePublisherState of each publisher; NoPublisher: none
          mono, wall,  \* the clocks
          peak,        \* the latest wall clock time so far
          rev,         \* revision of the board
          unpublished, \* revision each thread has still to publish; 0: none
          signal,      \* the revision signal
          newest       \* history variable: newest expiration taken since a clear

vars == <<fees, publisher, mono, wall, peak, rev, unpublished, signal, newest>>

Threads == {"fees", "peers", "desktop"}
Times == 0..MaxTime
Rows == [Tokens -> Times]
NoRows == [t \in Tokens |-> 0]
NoPublisher == [expires |-> 0, refresh |-> 0, pending |-> NoRows, next |-> 0, high |-> 0]
Tracked == {p \in Publishers : publisher[p].expires # 0}

\* The rows of an announcement for the tokens ts.
Announcement(e, ts) == [t \in Tokens |-> IF t \in ts THEN e ELSE 0]

Init ==
    /\ fees = [p \in Publishers |-> NoRows]
    /\ publisher = [p \in Publishers |-> NoPublisher]
    /\ mono = 0 /\ wall = 0 /\ peak = 0
    /\ rev = 0 /\ signal = 0
    /\ unpublished = [t \in Threads |-> 0]
    /\ newest = [p \in Publishers |-> 0]

----------------------------------------------------------------------------
(* Operations of MonitorState, on tables of publishers and rows            *)

\* fee_refresh_deadline; an announcement that lives too long has none.
HasDeadline(e) == wall < e /\ e - wall <= MaxTtl
Deadline(e) ==
    mono + IF (e - wall) \div 3 < Interval THEN (e - wall) \div 3 ELSE Interval

\* evict_expired_fee_publishers: the publishers it evicts.
ExpiredEarly(p) == wall >= publisher[p].high
Expired(p) == wall > publisher[p].high + Grace

Evicted == {p \in Tracked : Expired(p)}

Active(e) == [expires |-> e, refresh |-> Deadline(e), pending |-> NoRows, next |-> 0,
              high |-> e]

\* apply_fee_announcement replaces all rows of the publisher.
AppliedMerged(old, rows) == [t \in Tokens |-> IF rows[t] # 0 THEN rows[t] ELSE old[t]]
Applied(old, rows) == rows

\* The pending announcement is taken, also when it is too old to be shown.
TakenLater(record) == record
Taken(record) == [record EXCEPT !.pending = NoRows, !.next = 0]

\* One bump for each of the steps that changed a visible row.
Bumps(steps) == rev + Cardinality({s \in DOMAIN steps : steps[s]})

\* The thread leaves with the last revision it made.
Leaves(thread, revision) ==
    /\ rev' = revision
    /\ unpublished' = IF revision = rev THEN unpublished
                      ELSE [unpublished EXCEPT ![thread] = revision]

Free(thread) == unpublished[thread] = 0

----------------------------------------------------------------------------
\* admit_fee_announcement, by the fees loop.
Admit(p, e, ts) ==
    LET rows == Announcement(e, ts)
        known == p \in Tracked \ Evicted
        usable == HasDeadline(e)
        waits == wall < publisher[p].expires /\ mono < publisher[p].refresh
        room == Cardinality(Tracked \ Evicted) < MaxPublishers
        queued == usable /\ known /\ e > publisher[p].high /\ waits
        shown == \/ usable /\ known /\ e > publisher[p].high /\ ~waits
                 \/ usable /\ ~known /\ room
        kept == [q \in Publishers |-> IF q \in Evicted THEN NoRows ELSE fees[q]]
    IN  /\ Free("fees")
        /\ publisher' = [q \in Publishers |->
              CASE q = p /\ queued -> [publisher[q] EXCEPT !.pending = rows, !.next = e,
                                                           !.high = e]
                [] q = p /\ shown -> Active(e)
                [] ~(q = p /\ (queued \/ shown)) /\ q \in Evicted -> NoPublisher
                [] OTHER -> publisher[q]]
        /\ fees' = IF shown THEN [kept EXCEPT ![p] = Applied(@, rows)] ELSE kept
        /\ Leaves("fees", Bumps(<<kept # fees, fees' # kept>>))
        /\ newest' = IF (queued \/ shown) /\ e > newest[p]
                     THEN [newest EXCEPT ![p] = e] ELSE newest
        /\ UNCHANGED <<mono, wall, peak, signal>>

\* promote_due_fee_announcements, when the timer of the fees loop fires.
Due == {p \in Publishers : publisher[p].next # 0 /\ publisher[p].refresh <= mono}

Promote ==
    /\ Free("fees")
    /\ Due # {}
    /\ LET good == {p \in Due : HasDeadline(publisher[p].next)}
       IN  /\ publisher' = [p \in Publishers |->
                 CASE p \in good -> [Active(publisher[p].next) EXCEPT !.high = publisher[p].high]
                   [] p \in Due \ good -> Taken(publisher[p])
                   [] OTHER -> publisher[p]]
           /\ fees' = [p \in Publishers |->
                 IF p \in good THEN Applied(fees[p], publisher[p].pending) ELSE fees[p]]
    /\ Leaves("fees", Bumps([p \in Publishers |-> fees'[p] # fees[p]]))
    /\ UNCHANGED <<mono, wall, peak, signal, newest>>

\* upsert_fee: a row from elsewhere never enters a verified publisher's rows.
UpsertFee(p, t, e) ==
    /\ Free("fees")
    /\ rev < MaxRevision
    /\ p \notin Tracked
    /\ fees' = [fees EXCEPT ![p][t] = e]
    /\ Leaves("fees", Bumps(<<fees' # fees>>))
    /\ UNCHANGED <<publisher, mono, wall, peak, signal, newest>>

\* set_peers with peers that changed.
SetPeers ==
    /\ Free("peers")
    /\ rev < MaxRevision
    /\ Leaves("peers", rev + 1)
    /\ UNCHANGED <<fees, publisher, mono, wall, peak, signal, newest>>

\* clear, by the desktop; the peers it clears may be the only visible change.
Clear ==
    /\ Free("desktop")
    /\ rev < MaxRevision
    /\ fees' = [p \in Publishers |-> NoRows]
    /\ publisher' = [p \in Publishers |-> NoPublisher]
    /\ newest' = [p \in Publishers |-> 0]
    /\ \E bump \in IF fees' # fees THEN {1} ELSE {0, 1} : Leaves("desktop", rev + bump)
    /\ UNCHANGED <<mono, wall, peak, signal>>

\* publish_revision, after the lock: only ever forward.
PublishedLast(revision) == revision
Published(revision) == IF revision <= signal THEN signal ELSE revision

PublishRevision(thread) ==
    /\ ~Free(thread)
    /\ signal' = Published(unpublished[thread])
    /\ unpublished' = [unpublished EXCEPT ![thread] = 0]
    /\ UNCHANGED <<fees, publisher, mono, wall, peak, rev, newest>>

\* Time passes; the wall clock may also be set, back by no more than MaxSkew.
Clock ==
    /\ mono < MaxTime
    /\ mono' = mono + 1
    /\ \E now \in Times :
          /\ now + MaxSkew >= peak
          /\ wall' = now
          /\ peak' = IF now > peak THEN now ELSE peak
    /\ UNCHANGED <<fees, publisher, rev, unpublished, signal, newest>>

Next ==
    \/ \E p \in Publishers, e \in Times, ts \in SUBSET Tokens : Admit(p, e, ts)
    \/ \E p \in Publishers, t \in Tokens, e \in Times : UpsertFee(p, t, e)
    \/ \E thread \in Threads : PublishRevision(thread)
    \/ Promote \/ SetPeers \/ Clear \/ Clock

Spec == Init /\ [][Next]_vars

\* The timer branch of the fees loop and each publication run; time passes.
FairSpec ==
    /\ Spec
    /\ WF_vars(Promote) /\ WF_vars(Clock)
    /\ \A thread \in Threads : WF_vars(PublishRevision(thread))

----------------------------------------------------------------------------
\* The rows of a verified publisher are all of its active generation: no row of
\* an earlier announcement, of a pending one or of a direct update is shown
\* beside them, whatever was admitted, promoted, evicted or upserted.
OneGeneration ==
    \A p \in Tracked, t \in Tokens : fees[p][t] \in {0, publisher[p].expires}

\* A publisher's board never goes back: the generation that becomes active is
\* as new as any announcement accepted since the board was cleared, also after
\* an eviction forgot the high-water mark and the wall clock stepped back.
NeverGoesBack ==
    [][\A p \in Publishers :
          publisher'[p].expires \notin {0, publisher[p].expires}
              => publisher'[p].expires >= newest[p]]_vars

\* Once no thread is between its write and its publication, the signal is the
\* revision of the board: no change is left without a redraw, in whichever
\* order the threads publish.
SignalCatchesUp == (\A thread \in Threads : Free(thread)) => signal = rev

\* An announcement held back is shown, replaced or dropped once its refresh
\* deadline comes: later announcements do not put it off.
PendingNotStuck ==
    \A p \in Publishers :
        publisher[p].next # 0 /\ publisher[p].refresh <= MaxTime
            ~> publisher[p].next = 0
=============================================================================
