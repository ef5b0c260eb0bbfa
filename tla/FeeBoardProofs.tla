--------------------------- MODULE FeeBoardProofs ---------------------------
(***************************************************************************)
(* The fee board shows one generation per verified publisher and never     *)
(* goes back to an earlier one, for every number of publishers and tokens, *)
(* every limit and every course of the clocks; and every revision reaches  *)
(* the signal, in whichever order the threads publish.                     *)
(***************************************************************************)
EXTENDS FeeBoard, FiniteSetTheorems, TLAPS

RowType == [Tokens -> Nat]
PublisherType == [expires : Nat, refresh : Nat, pending : RowType, next : Nat, high : Nat]

TypeInv ==
    /\ fees \in [Publishers -> RowType]
    /\ publisher \in [Publishers -> PublisherType]
    /\ newest \in [Publishers -> Nat]
    /\ mono \in Nat /\ wall \in Nat /\ peak \in Nat

\* The wall clock is no further back than MaxSkew.
ClockInv == wall <= peak /\ peak <= wall + MaxSkew

\* A tracked publisher's high-water mark is the newest expiration taken from it;
\* its pending announcement, if any, is that one.
MarkInv(p) ==
    p \in Tracked => /\ newest[p] = publisher[p].high
                     /\ publisher[p].expires <= publisher[p].high
                     /\ publisher[p].next \in {0, publisher[p].high}
                     /\ \A t \in Tokens :
                           publisher[p].pending[t] \in {0, publisher[p].next}
                     /\ \A t \in Tokens : fees[p][t] \in {0, publisher[p].expires}

\* A publisher that is not tracked has nothing pending, and was forgotten only
\* when its newest expiration was past the grace.
ForgottenInv(p) ==
    p \notin Tracked => /\ publisher[p].next = 0
                        /\ newest[p] = 0 \/ newest[p] + Grace < peak

IInv == /\ TypeInv
        /\ ClockInv
        /\ \A p \in Publishers : MarkInv(p) /\ ForgottenInv(p)

\* An announcement the board may use has a deadline on the monotonic clock.
LEMMA DeadlineType ==
    ASSUME TypeInv, NEW e \in Nat, HasDeadline(e)
    PROVE  Deadline(e) \in Nat
<1>1. e - wall \in Nat
  BY DEF TypeInv, HasDeadline
<1>2. (e - wall) \div 3 \in Nat
  BY <1>1
<1> QED
  BY <1>1, <1>2, FeeConstants DEF Deadline, TypeInv

LEMMA InitIInv == Init => IInv
BY FeeConstants DEF Init, IInv, TypeInv, ClockInv, MarkInv, ForgottenInv, Tracked,
   NoRows, NoPublisher, RowType, PublisherType

\* The state of a publisher whose announcement becomes active.
LEMMA ActiveType ==
    ASSUME TypeInv, NEW e \in Nat, HasDeadline(e)
    PROVE  /\ Active(e) \in PublisherType
           /\ Active(e).expires = e /\ Active(e).high = e /\ Active(e).next = 0
           /\ \A t \in Tokens : Active(e).pending[t] = 0
           /\ e # 0
<1>1. Deadline(e) \in Nat
  BY DeadlineType
<1>2. NoRows \in RowType /\ \A t \in Tokens : NoRows[t] = 0
  BY DEF NoRows, RowType
<1>3. e # 0
  BY DEF HasDeadline, TypeInv
<1> QED
  BY <1>1, <1>2, <1>3 DEF Active, PublisherType

\* The rows of an announcement carry its expiration.
LEMMA AnnouncementRows ==
    ASSUME NEW e \in Nat, NEW ts
    PROVE  /\ Announcement(e, ts) \in RowType
           /\ \A t \in Tokens : Announcement(e, ts)[t] \in {0, e}
BY DEF Announcement, RowType

\* Admitting an announcement keeps the invariant, and what it makes active is
\* newer than all the publisher had announced.
LEMMA AdmitIInv ==
    ASSUME IInv, NEW p \in Publishers, NEW e \in Times, NEW ts \in SUBSET Tokens,
           Admit(p, e, ts)
    PROVE  /\ IInv'
           /\ \A q \in Publishers : publisher'[q].expires \notin {0, publisher[q].expires}
                                        => publisher'[q].expires >= newest[q]
<1> DEFINE rows == Announcement(e, ts)
           known == p \in Tracked \ Evicted
           waits == wall < publisher[p].expires /\ mono < publisher[p].refresh
           room == Cardinality(Tracked \ Evicted) < MaxPublishers
           queued == HasDeadline(e) /\ known /\ e > publisher[p].high /\ waits
           shown == \/ HasDeadline(e) /\ known /\ e > publisher[p].high /\ ~waits
                    \/ HasDeadline(e) /\ ~known /\ room
           kept == [q \in Publishers |-> IF q \in Evicted THEN NoRows ELSE fees[q]]
<1>1. e \in Nat /\ TypeInv /\ ClockInv
  BY FeeConstants DEF Times, IInv
<1>2. rows \in RowType /\ \A t \in Tokens : rows[t] \in {0, e}
  BY <1>1, AnnouncementRows
<1>3. publisher' = [q \in Publishers |->
              CASE q = p /\ queued -> [publisher[q] EXCEPT !.pending = rows, !.next = e,
                                                           !.high = e]
                [] q = p /\ shown -> Active(e)
                [] ~(q = p /\ (queued \/ shown)) /\ q \in Evicted -> NoPublisher
                [] OTHER -> publisher[q]]
  BY DEF Admit
<1>4. fees' = IF shown THEN [kept EXCEPT ![p] = Applied(@, rows)] ELSE kept
  BY DEF Admit
<1>5. /\ newest' = IF (queued \/ shown) /\ e > newest[p]
                   THEN [newest EXCEPT ![p] = e] ELSE newest
      /\ mono' = mono /\ wall' = wall /\ peak' = peak
  BY DEF Admit
<1>6. NoRows \in RowType /\ NoPublisher \in PublisherType
  BY DEF NoRows, RowType, NoPublisher, PublisherType
<1>7. ~(queued /\ shown)
  OBVIOUS
<1>8. fees' \in [Publishers -> RowType]
  <2>1. kept \in [Publishers -> RowType]
    BY <1>1, <1>6 DEF TypeInv
  <2> QED
    BY <2>1, <1>2, <1>4 DEF Applied
<1> HIDE DEF queued, shown, kept
<1>9. ASSUME queued \/ shown PROVE HasDeadline(e)
  BY <1>9 DEF queued, shown
<1>10. newest' \in [Publishers -> Nat]
  BY <1>1, <1>5 DEF TypeInv
\* A publisher other than p is evicted or left alone.
<1>11. ASSUME NEW q \in Publishers, q # p \/ ~(queued \/ shown)
       PROVE  /\ publisher'[q] \in PublisherType
              /\ publisher'[q].expires \in {0, publisher[q].expires}
              /\ MarkInv(q)' /\ ForgottenInv(q)'
  <2>1. publisher'[q] = IF q \in Evicted THEN NoPublisher ELSE publisher[q]
    BY <1>3, <1>11
  <2>2. newest'[q] = newest[q]
    BY <1>1, <1>5, <1>11 DEF TypeInv
  <2>3. fees'[q] = IF q \in Evicted THEN NoRows ELSE fees[q]
    BY <1>4, <1>11 DEF kept
  <2>4. CASE q \in Evicted
    <3>1. q \in Tracked /\ wall > publisher[q].high + Grace
      BY <2>4 DEF Evicted, Expired
    <3>2. newest[q] = publisher[q].high
      BY <3>1 DEF IInv, MarkInv
    <3>3. newest[q] + Grace < peak
      BY <3>1, <3>2, <1>1, FeeConstants DEF TypeInv, ClockInv, PublisherType
    <3>4. publisher'[q].expires = 0 /\ publisher'[q].next = 0
      BY <2>1, <2>4 DEF NoPublisher
    <3> QED
      BY <2>1, <2>2, <2>4, <3>3, <3>4, <1>5, <1>6 DEF MarkInv, ForgottenInv, Tracked
  <2>5. CASE q \notin Evicted
    BY <2>1, <2>2, <2>3, <2>5, <1>1, <1>5 DEF IInv, TypeInv, MarkInv, ForgottenInv, Tracked
  <2> QED
    BY <2>4, <2>5
\* A queued announcement is newer than the high-water mark.
<1>12. CASE queued
  <2>1. p \in Tracked /\ e > publisher[p].high
    BY <1>12 DEF queued
  <2>2. publisher'[p] = [publisher[p] EXCEPT !.pending = rows, !.next = e, !.high = e]
    BY <1>3, <1>7, <1>12
  <2>3. publisher[p] \in PublisherType /\ newest[p] = publisher[p].high
        /\ publisher[p].expires <= publisher[p].high
    BY <2>1, <1>1 DEF TypeInv, IInv, MarkInv
  <2>4. newest'[p] = e
    BY <1>1, <1>5, <1>12, <2>1, <2>3 DEF TypeInv, PublisherType
  <2>5. /\ publisher'[p] \in PublisherType
        /\ publisher'[p].expires = publisher[p].expires
        /\ publisher'[p].next = e /\ publisher'[p].high = e /\ publisher'[p].pending = rows
    BY <2>2, <2>3, <1>1, <1>2 DEF PublisherType
  <2>6. fees'[p] = fees[p]
    BY <1>4, <1>7, <1>12, <2>1 DEF kept, queued
  <2>7. MarkInv(p)' /\ ForgottenInv(p)'
    <3>1. p \in Tracked'
      BY <2>1, <2>5 DEF Tracked
    <3>2. \A t \in Tokens : fees[p][t] \in {0, publisher[p].expires}
      BY <2>1 DEF IInv, MarkInv
    <3>3. publisher'[p].expires <= publisher'[p].high
      BY <2>1, <2>3, <2>5, <1>1 DEF PublisherType
    <3> QED
      BY <3>1, <3>2, <3>3, <2>4, <2>5, <2>6, <1>2 DEF MarkInv, ForgottenInv
  <2>8. publisher' \in [Publishers -> PublisherType]
    BY <1>3, <1>11, <2>5
  <2> QED
    BY <2>5, <2>7, <2>8, <1>1, <1>5, <1>8, <1>10, <1>11 DEF IInv, TypeInv, ClockInv
\* A shown one is newer than the mark, or its publisher was forgotten long ago.
<1>13. CASE shown
  <2>1. publisher'[p] = Active(e)
    BY <1>3, <1>7, <1>13 DEF queued, shown
  <2>2. /\ publisher'[p] \in PublisherType
        /\ publisher'[p].expires = e /\ publisher'[p].high = e /\ publisher'[p].next = 0
        /\ \A t \in Tokens : publisher'[p].pending[t] = 0
        /\ e # 0
    BY <2>1, <1>1, <1>9, <1>13, ActiveType
  <2>3. e > newest[p]
    <3>1. CASE p \in Tracked \ Evicted
      BY <3>1, <1>1, <1>13 DEF shown, IInv, MarkInv
    <3>2. CASE p \in Evicted
      <4>1. p \in Tracked /\ wall > publisher[p].high + Grace /\ wall < e
        BY <3>2, <1>9, <1>13 DEF Evicted, Expired, HasDeadline
      <4>2. newest[p] = publisher[p].high /\ publisher[p].high \in Nat
        BY <4>1, <1>1 DEF IInv, MarkInv, TypeInv, PublisherType
      <4> QED
        BY <4>1, <4>2, <1>1, FeeConstants DEF TypeInv
    <3>3. CASE p \notin Tracked
      <4>1. newest[p] = 0 \/ newest[p] + Grace < peak
        BY <3>3 DEF IInv, ForgottenInv
      <4>2. wall < e /\ newest[p] \in Nat
        BY <1>1, <1>9, <1>13 DEF HasDeadline, TypeInv
      <4> QED
        BY <4>1, <4>2, <1>1, FeeConstants DEF TypeInv, ClockInv
    <3> QED
      BY <3>1, <3>2, <3>3
  <2>4. newest'[p] = e
    BY <2>3, <1>1, <1>5, <1>13 DEF TypeInv
  <2>5. fees'[p] = rows
    BY <1>4, <1>13 DEF kept, Applied
  <2>6. MarkInv(p)' /\ ForgottenInv(p)'
    BY <2>2, <2>4, <2>5, <1>1, <1>2 DEF MarkInv, ForgottenInv, Tracked
  <2>7. publisher' \in [Publishers -> PublisherType]
    BY <1>3, <1>11, <2>2
  <2>8. publisher'[p].expires >= newest[p]
    BY <2>2, <2>3, <1>1 DEF TypeInv
  <2> QED
    BY <2>6, <2>7, <2>8, <1>1, <1>5, <1>8, <1>10, <1>11 DEF IInv, TypeInv, ClockInv
<1>14. CASE ~queued /\ ~shown
  <2>1. publisher' \in [Publishers -> PublisherType]
    BY <1>3, <1>11, <1>14
  <2> QED
    BY <2>1, <1>14, <1>1, <1>5, <1>8, <1>10, <1>11 DEF IInv, TypeInv, ClockInv
<1> QED
  BY <1>12, <1>13, <1>14

\* Promotion shows the pending announcement, which is the newest taken.
LEMMA PromoteIInv ==
    ASSUME IInv, Promote
    PROVE  /\ IInv'
           /\ \A p \in Publishers : publisher'[p].expires \notin {0, publisher[p].expires}
                                        => publisher'[p].expires >= newest[p]
<1> DEFINE good == {p \in Due : HasDeadline(publisher[p].next)}
<1>1. TypeInv /\ ClockInv
  BY DEF IInv
<1>2. /\ publisher' = [p \in Publishers |->
            CASE p \in good -> [Active(publisher[p].next) EXCEPT !.high = publisher[p].high]
              [] p \in Due \ good -> Taken(publisher[p])
              [] OTHER -> publisher[p]]
      /\ fees' = [p \in Publishers |->
            IF p \in good THEN Applied(fees[p], publisher[p].pending) ELSE fees[p]]
      /\ newest' = newest /\ mono' = mono /\ wall' = wall /\ peak' = peak
  BY DEF Promote
<1>3. NoRows \in RowType /\ \A t \in Tokens : NoRows[t] = 0
  BY DEF NoRows, RowType
<1> HIDE DEF good
<1>4. ASSUME NEW p \in Publishers
      PROVE  /\ publisher'[p] \in PublisherType /\ fees'[p] \in RowType
             /\ publisher'[p].expires \notin {0, publisher[p].expires}
                    => publisher'[p].expires >= newest[p]
             /\ MarkInv(p)' /\ ForgottenInv(p)'
  <2>1. publisher[p] \in PublisherType /\ fees[p] \in RowType /\ newest[p] \in Nat
    BY <1>1 DEF TypeInv
  <2>2. CASE p \in good
    <3>1. HasDeadline(publisher[p].next) /\ publisher[p].next # 0
      BY <2>2 DEF good, Due
    <3>2. p \in Tracked
      BY <3>1 DEF IInv, ForgottenInv
    <3>3. publisher[p].next = publisher[p].high /\ newest[p] = publisher[p].high
      BY <3>1, <3>2 DEF IInv, MarkInv
    <3>4. /\ Active(publisher[p].next) \in PublisherType
          /\ Active(publisher[p].next).expires = publisher[p].next
          /\ Active(publisher[p].next).next = 0
          /\ \A t \in Tokens : Active(publisher[p].next).pending[t] = 0
      BY <3>1, <2>1, <1>1, ActiveType DEF PublisherType
    <3>5. publisher'[p] = [Active(publisher[p].next) EXCEPT !.high = publisher[p].high]
      BY <1>2, <2>2
    <3>6. /\ publisher'[p] \in PublisherType
          /\ publisher'[p].expires = publisher[p].next
          /\ publisher'[p].high = publisher[p].high
          /\ publisher'[p].next = 0
          /\ \A t \in Tokens : publisher'[p].pending[t] = 0
      BY <3>4, <3>5, <2>1 DEF PublisherType
    <3>7. fees'[p] = publisher[p].pending
      BY <1>2, <2>2 DEF Applied
    <3>8. \A t \in Tokens : fees'[p][t] \in {0, publisher[p].next}
      BY <3>2, <3>7 DEF IInv, MarkInv
    <3>9. fees'[p] \in RowType
      BY <3>7, <2>1 DEF PublisherType
    <3>10. publisher[p].high \in Nat /\ newest'[p] = newest[p]
      BY <2>1, <1>2 DEF PublisherType
    <3>11. p \in Tracked'
      BY <3>1, <3>6 DEF Tracked
    <3>12. MarkInv(p)' /\ ForgottenInv(p)'
      BY <3>3, <3>6, <3>8, <3>10, <3>11 DEF MarkInv, ForgottenInv
    <3> QED
      BY <3>3, <3>6, <3>9, <3>10, <3>12
  <2>3. CASE p \in Due /\ p \notin good
    <3>1. publisher'[p] = Taken(publisher[p]) /\ fees'[p] = fees[p]
      BY <1>2, <2>3
    <3>2. /\ publisher'[p] \in PublisherType
          /\ publisher'[p].expires = publisher[p].expires
          /\ publisher'[p].high = publisher[p].high
          /\ publisher'[p].next = 0
          /\ \A t \in Tokens : publisher'[p].pending[t] = 0
      <4>1. publisher'[p] = [publisher[p] EXCEPT !.pending = NoRows, !.next = 0]
        BY <3>1 DEF Taken
      <4>2. publisher'[p].pending = NoRows
        BY <4>1, <2>1 DEF PublisherType
      <4>3. \A t \in Tokens : publisher'[p].pending[t] = 0
        BY <4>2, <1>3
      <4>4. /\ publisher'[p].expires = publisher[p].expires
            /\ publisher'[p].high = publisher[p].high
            /\ publisher'[p].next = 0
        BY <4>1, <2>1 DEF PublisherType
      <4>5. publisher'[p] \in PublisherType
        <5>1. [publisher[p] EXCEPT !.pending = NoRows] \in PublisherType
          BY <2>1, <1>3 DEF PublisherType
        <5>2. ASSUME NEW x \in PublisherType PROVE [x EXCEPT !.next = 0] \in PublisherType
          BY DEF PublisherType
        <5> QED
          BY <4>1, <5>1, <5>2
      <4> QED
        BY <4>3, <4>4, <4>5
    <3> QED
      BY <3>1, <3>2, <2>1, <1>2 DEF IInv, MarkInv, ForgottenInv, Tracked
  <2>4. CASE p \notin Due
    <3>1. publisher'[p] = publisher[p] /\ fees'[p] = fees[p]
      BY <1>2, <2>4 DEF good
    <3> QED
      BY <3>1, <2>1, <1>2 DEF IInv, MarkInv, ForgottenInv, Tracked
  <2> QED
    BY <2>2, <2>3, <2>4
<1>5. publisher' \in [Publishers -> PublisherType] /\ fees' \in [Publishers -> RowType]
  BY <1>2, <1>4
<1> QED
  BY <1>1, <1>2, <1>4, <1>5 DEF IInv, TypeInv, ClockInv

\* Every step keeps the invariant and never takes a publisher back.
LEMMA NextIInv ==
    ASSUME IInv, [Next]_vars
    PROVE  /\ IInv'
           /\ \A p \in Publishers : publisher'[p].expires \notin {0, publisher[p].expires}
                                        => publisher'[p].expires >= newest[p]
<1>1. TypeInv /\ ClockInv
  BY DEF IInv
<1>2. ASSUME NEW p \in Publishers, NEW e \in Times, NEW ts \in SUBSET Tokens, Admit(p, e, ts)
      PROVE  /\ IInv'
             /\ \A q \in Publishers : publisher'[q].expires \notin {0, publisher[q].expires}
                                          => publisher'[q].expires >= newest[q]
  BY <1>2, AdmitIInv
<1>3. CASE Promote
  BY <1>3, PromoteIInv
<1>4. ASSUME NEW p \in Publishers, NEW t \in Tokens, NEW e \in Times, UpsertFee(p, t, e)
      PROVE  IInv' /\ publisher' = publisher
  <2>1. /\ p \notin Tracked /\ fees' = [fees EXCEPT ![p][t] = e]
        /\ UNCHANGED <<publisher, mono, wall, peak, newest>>
    BY <1>4 DEF UpsertFee
  <2>2. fees' \in [Publishers -> RowType]
    BY <1>1, <2>1, FeeConstants DEF TypeInv, RowType, Times
  <2>3. \A q \in Tracked : fees'[q] = fees[q]
    BY <1>1, <2>1 DEF TypeInv, Tracked
  <2>4. \A q \in Publishers : MarkInv(q)' /\ ForgottenInv(q)'
    BY <2>1, <2>3 DEF IInv, MarkInv, ForgottenInv, Tracked
  <2> QED
    BY <1>1, <2>1, <2>2, <2>4 DEF IInv, TypeInv, ClockInv
<1>5. CASE Clear
  <2>1. /\ fees' = [p \in Publishers |-> NoRows]
        /\ publisher' = [p \in Publishers |-> NoPublisher]
        /\ newest' = [p \in Publishers |-> 0]
        /\ UNCHANGED <<mono, wall, peak>>
    BY <1>5 DEF Clear
  <2>2. NoRows \in RowType /\ NoPublisher \in PublisherType
        /\ NoPublisher.expires = 0 /\ NoPublisher.next = 0
    BY DEF NoRows, RowType, NoPublisher, PublisherType
  <2>3. \A q \in Publishers : MarkInv(q)' /\ ForgottenInv(q)' /\ publisher'[q].expires = 0
    BY <2>1, <2>2 DEF MarkInv, ForgottenInv, Tracked
  <2> QED
    BY <1>1, <2>1, <2>2, <2>3 DEF IInv, TypeInv, ClockInv
<1>6. CASE Clock
  <2>1. PICK now \in Times : /\ now + MaxSkew >= peak
                             /\ wall' = now
                             /\ peak' = IF now > peak THEN now ELSE peak
    BY <1>6 DEF Clock
  <2>2. /\ mono' = mono + 1 /\ UNCHANGED <<fees, publisher, newest>>
    BY <1>6 DEF Clock
  <2>3. now \in Nat /\ peak' \in Nat /\ peak' >= peak /\ wall' <= peak'
        /\ peak' <= wall' + MaxSkew
    BY <1>1, <2>1, FeeConstants DEF Times, TypeInv
  <2>4. ASSUME NEW q \in Publishers PROVE MarkInv(q)' /\ ForgottenInv(q)'
    <3>1. MarkInv(q) /\ ForgottenInv(q) /\ newest[q] \in Nat
      BY <1>1 DEF IInv, TypeInv
    <3>2. newest[q] + Grace < peak => newest[q] + Grace < peak'
      BY <3>1, <2>3, <1>1, FeeConstants DEF TypeInv
    <3> QED
      BY <3>1, <3>2, <2>2 DEF MarkInv, ForgottenInv, Tracked
  <2> QED
    BY <1>1, <2>1, <2>2, <2>3, <2>4 DEF IInv, TypeInv, ClockInv
<1>7. CASE SetPeers \/ (\E thread \in Threads : PublishRevision(thread)) \/ UNCHANGED vars
  <2>1. UNCHANGED <<fees, publisher, mono, wall, peak, newest>>
    BY <1>7 DEF SetPeers, PublishRevision, vars
  <2> QED
    BY <2>1 DEF IInv, TypeInv, ClockInv, MarkInv, ForgottenInv, Tracked
<1> QED
  BY <1>2, <1>3, <1>4, <1>5, <1>6, <1>7 DEF Next

\* state.rs keeps a verified publisher's rows to one generation: apply replaces
\* them all, direct updates stay out, and eviction takes them with it.
THEOREM BoardOneGeneration == Spec => []OneGeneration
<1>1. IInv => OneGeneration
  BY DEF IInv, MarkInv, OneGeneration, Tracked
<1>2. IInv /\ [Next]_vars => IInv'
  BY NextIInv
<1> QED
  BY <1>1, <1>2, InitIInv, PTL DEF Spec

\* The board never goes back to an earlier generation: the high-water mark is
\* forgotten only once no announcement it refused can still be valid, however
\* far, within the grace, the wall clock steps back.
THEOREM BoardNeverGoesBack == Spec => NeverGoesBack
<1>1. IInv /\ [Next]_vars =>
         [\A p \in Publishers : publisher'[p].expires \notin {0, publisher[p].expires}
                                    => publisher'[p].expires >= newest[p]]_vars
  BY NextIInv
<1>2. IInv /\ [Next]_vars => IInv'
  BY NextIInv
<1> QED
  BY <1>1, <1>2, InitIInv, PTL DEF Spec, NeverGoesBack

----------------------------------------------------------------------------
(* The revision signal                                                     *)

\* The revision of the board is in the signal, or a thread still has it to publish.
SignalInv ==
    /\ rev \in Nat /\ signal \in Nat /\ unpublished \in [Threads -> Nat]
    /\ signal <= rev
    /\ \A t \in Threads : unpublished[t] <= rev
    /\ signal = rev \/ \E t \in Threads : unpublished[t] = rev

\* A thread that changed the board leaves with the revision it made.
LEMMA LeavesSignal ==
    ASSUME SignalInv, NEW thread \in Threads, NEW n \in Nat, rev <= n, Leaves(thread, n),
           UNCHANGED signal
    PROVE  SignalInv'
<1>1. CASE n = rev
  BY <1>1 DEF Leaves, SignalInv
<1>2. CASE n # rev
  <2>1. rev' = n /\ unpublished' = [unpublished EXCEPT ![thread] = n]
    BY <1>2 DEF Leaves
  <2>2. rev < n
    BY <1>2 DEF SignalInv
  <2>3. unpublished' \in [Threads -> Nat] /\ unpublished'[thread] = n
    BY <2>1 DEF SignalInv
  <2>4. \A t \in Threads : unpublished'[t] <= n
    BY <2>1, <2>2 DEF SignalInv
  <2>5. signal <= n
    BY <2>2 DEF SignalInv
  <2> QED
    BY <2>1, <2>3, <2>4, <2>5 DEF SignalInv
<1> QED
  BY <1>1, <1>2

\* Counting the steps that changed a row.
LEMMA BumpsForward ==
    ASSUME SignalInv, NEW steps, IsFiniteSet(DOMAIN steps)
    PROVE  Bumps(steps) \in Nat /\ rev <= Bumps(steps)
<1> DEFINE S == {s \in DOMAIN steps : steps[s]}
<1>1. IsFiniteSet(S)
  BY FS_Subset
<1>2. Cardinality(S) \in Nat
  BY <1>1, FS_CardinalityType
<1> QED
  BY <1>2 DEF Bumps, SignalInv

LEMMA SignalStep == SignalInv /\ [Next]_vars => SignalInv'
<1> SUFFICES ASSUME SignalInv, [Next]_vars PROVE SignalInv'
  OBVIOUS
<1>1. IsFiniteSet({1, 2}) /\ IsFiniteSet({1})
  <2>1. IsFiniteSet({1})
    BY FS_Singleton
  <2>2. IsFiniteSet({1} \cup {2})
    BY <2>1, FS_AddElement
  <2>3. {1} \cup {2} = {1, 2}
    OBVIOUS
  <2> QED
    BY <2>1, <2>2, <2>3
<1>2. ASSUME NEW p \in Publishers, NEW e \in Times, NEW ts \in SUBSET Tokens, Admit(p, e, ts)
      PROVE  SignalInv'
  <2>1. PICK a, b : Leaves("fees", Bumps(<<a, b>>)) /\ UNCHANGED signal
    BY <1>2 DEF Admit
  <2>2. DOMAIN <<a, b>> = {1, 2}
    OBVIOUS
  <2>3. Bumps(<<a, b>>) \in Nat /\ rev <= Bumps(<<a, b>>)
    BY <1>1, <2>2, BumpsForward
  <2> QED
    BY <2>1, <2>3, LeavesSignal DEF Threads
<1>3. CASE Promote
  <2> DEFINE steps == [p \in Publishers |-> fees'[p] # fees[p]]
  <2>1. Leaves("fees", Bumps(steps)) /\ UNCHANGED signal
    BY <1>3 DEF Promote
  <2>2. DOMAIN steps = Publishers
    OBVIOUS
  <2> HIDE DEF steps
  <2>3. Bumps(steps) \in Nat /\ rev <= Bumps(steps)
    BY <2>2, BumpsForward, FeeConstants
  <2> QED
    BY <2>1, <2>3, LeavesSignal DEF Threads
<1>4. ASSUME NEW p \in Publishers, NEW t \in Tokens, NEW e \in Times, UpsertFee(p, t, e)
      PROVE  SignalInv'
  <2>1. PICK a : Leaves("fees", Bumps(<<a>>)) /\ UNCHANGED signal
    BY <1>4 DEF UpsertFee
  <2>2. DOMAIN <<a>> = {1}
    OBVIOUS
  <2>3. Bumps(<<a>>) \in Nat /\ rev <= Bumps(<<a>>)
    BY <1>1, <2>2, BumpsForward
  <2> QED
    BY <2>1, <2>3, LeavesSignal DEF Threads
<1>5. CASE SetPeers
  <2>1. rev + 1 \in Nat /\ rev <= rev + 1
    BY DEF SignalInv
  <2> QED
    BY <1>5, <2>1, LeavesSignal DEF SetPeers, Threads
<1>6. CASE Clear
  <2>1. PICK bump \in {0, 1} : Leaves("desktop", rev + bump) /\ UNCHANGED signal
    BY <1>6 DEF Clear
  <2>2. rev + bump \in Nat /\ rev <= rev + bump
    BY DEF SignalInv
  <2> QED
    BY <2>1, <2>2, LeavesSignal DEF Threads
<1>7. ASSUME NEW thread \in Threads, PublishRevision(thread)
      PROVE  SignalInv'
  <2>1. /\ signal' = IF unpublished[thread] <= signal THEN signal ELSE unpublished[thread]
        /\ unpublished' = [unpublished EXCEPT ![thread] = 0] /\ rev' = rev
    BY <1>7 DEF PublishRevision, Published
  <2>2. /\ unpublished \in [Threads -> Nat] /\ unpublished[thread] \in Nat /\ unpublished[thread] <= rev
        /\ signal \in Nat /\ rev \in Nat /\ signal <= rev
    BY DEF SignalInv
  <2>3. /\ signal' \in Nat /\ signal' <= rev /\ signal <= signal' /\ unpublished[thread] <= signal'
        /\ unpublished' \in [Threads -> Nat]
    BY <2>1, <2>2
  <2>4. \A t \in Threads : unpublished'[t] <= rev
    BY <2>1, <2>2 DEF SignalInv
  <2>5. signal' = rev \/ \E t \in Threads : unpublished'[t] = rev
    <3>1. CASE signal = rev \/ unpublished[thread] = rev
      BY <2>2, <2>3, <3>1
    <3>2. CASE signal # rev /\ unpublished[thread] # rev
      <4>1. PICK t \in Threads : unpublished[t] = rev
        BY <3>2 DEF SignalInv
      <4>2. t # thread /\ unpublished'[t] = rev
        BY <2>1, <2>2, <3>2, <4>1
      <4> QED
        BY <4>2
    <3> QED
      BY <3>1, <3>2
  <2> QED
    BY <2>1, <2>2, <2>3, <2>4, <2>5 DEF SignalInv
<1>8. CASE Clock \/ UNCHANGED vars
  <2>1. UNCHANGED <<rev, unpublished, signal>>
    BY <1>8 DEF Clock, vars
  <2> QED
    BY <2>1 DEF SignalInv
<1> QED
  BY <1>2, <1>3, <1>4, <1>5, <1>6, <1>7, <1>8 DEF Next

\* Once no thread is between its write and publish_revision, the signal is the
\* revision of the board: publications that overtake each other lose none.
THEOREM EveryRevisionSignalled == Spec => []SignalCatchesUp
<1>1. Init => SignalInv
  BY DEF Init, SignalInv, Threads
<1>2. SignalInv => SignalCatchesUp
  BY DEF SignalInv, SignalCatchesUp, Free
<1> QED
  BY <1>1, <1>2, SignalStep, PTL DEF Spec
=============================================================================
