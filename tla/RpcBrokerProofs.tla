-------------------------- MODULE RpcBrokerProofs --------------------------
(***************************************************************************)
(* The broker's replies and admission credits, for any submissions, reads, *)
(* routes and limits: no reply is lost or answered twice, a credit is held *)
(* exactly until the last reply of its submission is answered, and only a  *)
(* late caller is told that its read was never sent.                       *)
(***************************************************************************)
EXTENDS RpcBroker, FiniteSetTheorems, TLAPS

\* The submissions whose replies wait in the channel or in the batch.
Batched == {s \in Subs : InMailbox(s) \/ s \in pending}

Sent == {"wait", "returned"}

\* With the work j, the answers ans and the submissions B batched, a reply is in at
\* most one place while it is unanswered, and in none afterwards.
OnePlace(j, ans, B) ==
    /\ j \in [Keys -> SUBSET Replies]
    /\ ans \in [Replies -> Results \cup {Unanswered}]
    /\ \A p \in Replies : p[1] \in B =>
         ans[p] = Unanswered /\ \A k \in Keys : p \notin j[k]
    /\ \A k, l \in Keys : \A p \in Replies : p \in j[k] /\ p \in j[l] => k = l
    /\ \A k \in Keys : \A p \in Replies : p \in j[k] => ans[p] = Unanswered

\* With the callers c and the credits cr besides: what is in the broker was sent and
\* has its credit, and what has its credit is in the broker or about to be sent.
Credited(c, j, ans, B, cr) ==
    /\ B \subseteq cr
    /\ \A s \in B : c[s] \in Sent
    /\ \A k \in Keys : \A p \in Replies : p \in j[k] => p[1] \in cr /\ c[p[1]] \in Sent
    /\ \A p \in Replies : p[1] \in cr /\ c[p[1]] # "send" /\ ans[p] = Unanswered =>
         p[1] \in B \/ \E k \in Keys : p \in j[k]
    /\ \A p \in Replies : c[p[1]] \notin Sent => ans[p] = Unanswered

\* The credits are few enough, and only of submissions that were admitted.
CreditHeld(c, cr) ==
    /\ cr \subseteq Subs /\ IsFiniteSet(cr)
    /\ Cardinality(cr) <= Capacity
    /\ \A s \in Subs : c[s] = "send" => s \in cr
    /\ \A s \in cr : c[s] = "send" \/ c[s] \in Sent

\* No credit is held for nothing.
NoIdleCredit(c, ans, cr) == \A s \in cr : c[s] = "send" \/ Outstanding(s, ans)

Books(c, j, ans, B, cr) ==
    /\ OnePlace(j, ans, B)
    /\ Credited(c, j, ans, B, cr)
    /\ CreditHeld(c, cr)

TypeInv ==
    /\ caller \in [Subs -> {"idle", "acquire", "send", "wait", "returned"}]
    /\ mailbox \in Seq(Subs)
    /\ pending \subseteq Subs
    /\ queued \subseteq SUBSET Keys
    /\ running \subseteq SUBSET Keys

ChannelInv ==
    /\ \A s \in Subs : InMailbox(s) => s \notin pending
    /\ \A i, j \in DOMAIN mailbox : mailbox[i] = mailbox[j] => i = j

\* A key that was attempted was not dropped before.
AttemptInv == sent \cap dropped = {}

IInv ==
    /\ TypeInv
    /\ ChannelInv
    /\ AttemptInv
    /\ Books(caller, joined, answer, Batched, credit)
    /\ NoIdleCredit(caller, answer, credit)

-----------------------------------------------------------------------------
(* Replies and keys                                                        *)

LEMMA ReplyFacts ==
    /\ \A p \in Replies : p[1] \in Subs
    /\ \A s \in Subs : \E p \in Replies : p[1] = s
    /\ \A ss : RepliesOf(ss) \subseteq Replies
    /\ \A ss, p : p \in RepliesOf(ss) <=> p \in Replies /\ p[1] \in ss
<1>1. \A p \in Replies : p[1] \in Subs
  BY DEF Replies
<1>2. ASSUME NEW s \in Subs PROVE \E p \in Replies : p[1] = s
  <2>1. PICK r : r \in ReadsOf[s]
    BY BrokerAssumption
  <2>2. r \in Reads
    BY <2>1, BrokerAssumption
  <2>3. <<s, r>> \in Replies
    BY <2>1, <2>2 DEF Replies
  <2>. QED BY <2>3
<1>. QED BY <1>1, <1>2 DEF RepliesOf

LEMMA KeyForType ==
    ASSUME NEW p \in Replies, NEW b \in BOOLEAN
    PROVE  KeyFor(p, b) \in Keys
<1>1. <<p[2], p[1]>> \in Keys
  BY DEF Keys
<1>2. p[2] \in Shareable => <<p[2], Anyone>> \in Keys
  BY DEF Keys
<1>. QED BY <1>1, <1>2 DEF KeyFor

LEMMA ResultsFacts ==
    /\ Unanswered \notin Results
    /\ {"value", "error", "undispatched", "shutdown"} \subseteq Results
BY DEF Unanswered, Results

\* Answered, value by value.
LEMMA AnsweredFacts ==
    ASSUME NEW ps, NEW res \in Results, NEW ans \in [Replies -> Results \cup {Unanswered}]
    PROVE  /\ Answered(ps, res, ans) \in [Replies -> Results \cup {Unanswered}]
           /\ \A p \in Replies : Answered(ps, res, ans)[p] = IF p \in ps THEN res ELSE ans[p]
BY DEF Answered

-----------------------------------------------------------------------------
(* The two ways in which the books move                                    *)

\* Keys are retired, and exactly their replies answered.
LEMMA RetireKeys ==
    ASSUME NEW j, NEW ans, NEW B \in SUBSET Subs, NEW R \in SUBSET Keys, NEW ans2,
           Books(caller, j, ans, B, credit),
           ans2 \in [Replies -> Results \cup {Unanswered}],
           \A p \in Replies : (\E k \in R : p \in j[k]) => ans2[p] \in Results,
           \A p \in Replies : ~(\E k \in R : p \in j[k]) => ans2[p] = ans[p]
    PROVE  Books(caller, Retired(j, R), ans2, B, credit)
<1>. DEFINE j2 == Retired(j, R)
<1>1. /\ j2 \in [Keys -> SUBSET Replies]
      /\ \A k \in Keys : j2[k] = IF k \in R THEN {} ELSE j[k]
  BY DEF Books, OnePlace, Retired
<1>2. /\ \A k, l \in Keys : \A p \in Replies : p \in j[k] /\ p \in j[l] => k = l
      /\ \A k \in Keys : \A p \in Replies : p \in j[k] => ans[p] = Unanswered
      /\ \A p \in Replies : p[1] \in B =>
           ans[p] = Unanswered /\ \A k \in Keys : p \notin j[k]
  BY DEF Books, OnePlace
<1>3. Credited(caller, j, ans, B, credit) /\ CreditHeld(caller, credit)
  BY DEF Books
<1>. HIDE DEF j2
<1>4. OnePlace(j2, ans2, B)
  BY <1>1, <1>2 DEF OnePlace
<1>5. ASSUME NEW k \in Keys, NEW p \in Replies, p \in j2[k]
      PROVE  p[1] \in credit /\ caller[p[1]] \in Sent
  BY <1>1, <1>3, <1>5 DEF Credited
<1>6. ASSUME NEW p \in Replies, p[1] \in credit, caller[p[1]] # "send", ans2[p] = Unanswered
      PROVE  p[1] \in B \/ \E k \in Keys : p \in j2[k]
  <2>1. ~(\E k \in R : p \in j[k]) /\ ans[p] = Unanswered
    BY <1>6, ResultsFacts
  <2>2. p[1] \in B \/ \E k \in Keys : p \in j[k]
    BY <1>6, <2>1, <1>3 DEF Credited
  <2>. QED BY <2>1, <2>2, <1>1
<1>7. ASSUME NEW p \in Replies, caller[p[1]] \notin Sent
      PROVE  ans2[p] = Unanswered
  <2>1. ans[p] = Unanswered /\ ~(\E k \in Keys : p \in j[k])
    BY <1>7, <1>3 DEF Credited
  <2>. QED BY <2>1
<1>8. Credited(caller, j2, ans2, B, credit)
  BY <1>3, <1>5, <1>6, <1>7 DEF Credited
<1>. QED BY <1>3, <1>4, <1>8 DEF Books, j2

\* The credits of the submissions answered in full return.
LEMMA CreditReturns ==
    ASSUME NEW j, NEW ans, NEW B \in SUBSET Subs,
           Books(caller, j, ans, B, credit)
    PROVE  /\ Books(caller, j, ans, B, CreditAfter(ans))
           /\ NoIdleCredit(caller, ans, CreditAfter(ans))
<1>. DEFINE cr2 == CreditAfter(ans)
<1>1. /\ OnePlace(j, ans, B) /\ Credited(caller, j, ans, B, credit)
      /\ CreditHeld(caller, credit)
  BY DEF Books
<1>2. cr2 \subseteq credit /\ credit \subseteq Subs
  BY <1>1 DEF CreditAfter, CreditHeld
<1>3. \A s \in Subs : s \in cr2 <=> s \in credit /\ (caller[s] = "send" \/ Outstanding(s, ans))
  BY <1>2 DEF CreditAfter
<1>. HIDE DEF cr2
<1>4. ASSUME NEW p \in Replies, ans[p] = Unanswered, p[1] \in credit
      PROVE  p[1] \in cr2
  BY <1>3, <1>4, ReplyFacts DEF Outstanding
<1>5. B \subseteq cr2
  <2>. SUFFICES ASSUME NEW s \in B PROVE s \in cr2
    OBVIOUS
  <2>1. PICK p \in Replies : p[1] = s
    BY ReplyFacts
  <2>2. ans[p] = Unanswered
    BY <2>1, <1>1 DEF OnePlace
  <2>. QED BY <2>1, <2>2, <1>1, <1>4 DEF Credited
<1>6. Credited(caller, j, ans, B, cr2)
  <2>1. ASSUME NEW k \in Keys, NEW p \in Replies, p \in j[k]
        PROVE  p[1] \in cr2 /\ caller[p[1]] \in Sent
    <3>1. ans[p] = Unanswered
      BY <2>1, <1>1 DEF OnePlace
    <3>. QED BY <2>1, <3>1, <1>1, <1>4 DEF Credited
  <2>. QED BY <2>1, <1>1, <1>2, <1>5 DEF Credited
<1>7. CreditHeld(caller, cr2) /\ NoIdleCredit(caller, ans, cr2)
  <2>1. IsFiniteSet(cr2) /\ Cardinality(cr2) <= Cardinality(credit)
    BY <1>1, <1>2, FS_Subset DEF CreditHeld
  <2>2. Cardinality(cr2) \in Nat /\ Cardinality(credit) \in Nat
    BY <1>1, <2>1, FS_CardinalityType DEF CreditHeld
  <2>3. Cardinality(cr2) <= Capacity
    BY <1>1, <2>1, <2>2, BrokerAssumption DEF CreditHeld
  <2>. QED BY <1>1, <1>2, <1>3, <2>1, <2>3 DEF CreditHeld, NoIdleCredit
<1>. QED BY <1>1, <1>6, <1>7 DEF Books, cr2

\* The submissions ss leave the batch: each of their replies is answered or joins
\* exactly one key.
Unbatches(ss, j, ans, j2, ans2) ==
    /\ j2 \in [Keys -> SUBSET Replies]
    /\ ans2 \in [Replies -> Results \cup {Unanswered}]
    /\ \A p \in Replies : p[1] \notin ss =>
         ans2[p] = ans[p] /\ \A k \in Keys : p \in j2[k] <=> p \in j[k]
    /\ \A p \in Replies : p[1] \in ss =>
         \/ ans2[p] \in Results /\ \A k \in Keys : p \notin j2[k]
         \/ ans2[p] = Unanswered /\ \E k \in Keys : \A l \in Keys : p \in j2[l] <=> l = k

LEMMA Unbatch ==
    ASSUME NEW j, NEW ans, NEW B \in SUBSET Subs, NEW ss \in SUBSET B,
           NEW j2, NEW ans2, NEW cr, Books(caller, j, ans, B, cr),
           Unbatches(ss, j, ans, j2, ans2)
    PROVE  Books(caller, j2, ans2, B \ ss, cr)
<1>. OnePlace(j, ans, B) /\ Credited(caller, j, ans, B, cr)
  BY DEF Books
<1>. /\ j2 \in [Keys -> SUBSET Replies]
     /\ ans2 \in [Replies -> Results \cup {Unanswered}]
     /\ \A p \in Replies : p[1] \notin ss =>
          ans2[p] = ans[p] /\ \A k \in Keys : p \in j2[k] <=> p \in j[k]
     /\ \A p \in Replies : p[1] \in ss =>
          \/ ans2[p] \in Results /\ \A k \in Keys : p \notin j2[k]
          \/ ans2[p] = Unanswered /\ \E k \in Keys : \A l \in Keys : p \in j2[l] <=> l = k
  BY DEF Unbatches
<1>1. OnePlace(j2, ans2, B \ ss)
  <2>1. ASSUME NEW p \in Replies, p[1] \in B \ ss
        PROVE  ans2[p] = Unanswered /\ \A k \in Keys : p \notin j2[k]
    BY <2>1 DEF OnePlace
  <2>2. ASSUME NEW k \in Keys, NEW l \in Keys, NEW p \in Replies, p \in j2[k], p \in j2[l]
        PROVE  k = l
    <3>1. CASE p[1] \in ss
      BY <2>2, <3>1
    <3>2. CASE p[1] \notin ss
      BY <2>2, <3>2 DEF OnePlace
    <3>. QED BY <3>1, <3>2
  <2>3. ASSUME NEW k \in Keys, NEW p \in Replies, p \in j2[k]
        PROVE  ans2[p] = Unanswered
    <3>1. CASE p[1] \in ss
      BY <2>3, <3>1
    <3>2. CASE p[1] \notin ss
      BY <2>3, <3>2 DEF OnePlace
    <3>. QED BY <3>1, <3>2
  <2>. QED BY <2>1, <2>2, <2>3 DEF OnePlace
<1>2. Credited(caller, j2, ans2, B \ ss, cr)
  <2>1. /\ B \subseteq cr
        /\ \A s \in B : caller[s] \in Sent
    BY DEF Credited
  <2>2. ASSUME NEW k \in Keys, NEW p \in Replies, p \in j2[k]
        PROVE  p[1] \in cr /\ caller[p[1]] \in Sent
    <3>1. CASE p[1] \in ss
      BY <3>1, <2>1
    <3>2. CASE p[1] \notin ss
      BY <2>2, <3>2 DEF Credited
    <3>. QED BY <3>1, <3>2
  <2>3. ASSUME NEW p \in Replies, p[1] \in cr, caller[p[1]] # "send", ans2[p] = Unanswered
        PROVE  p[1] \in B \ ss \/ \E k \in Keys : p \in j2[k]
    <3>1. CASE p[1] \in ss
      BY <2>3, <3>1, ResultsFacts
    <3>2. CASE p[1] \notin ss
      BY <2>3, <3>2 DEF Credited
    <3>. QED BY <3>1, <3>2
  <2>4. ASSUME NEW p \in Replies, caller[p[1]] \notin Sent
        PROVE  ans2[p] = Unanswered
    <3>1. p[1] \notin ss
      BY <2>1, <2>4
    <3>. QED BY <3>1, <2>4 DEF Credited
  <2>. QED BY <2>1, <2>2, <2>3, <2>4 DEF Credited
<1>. QED BY <1>1, <1>2 DEF Books

-----------------------------------------------------------------------------
(* Pump, Flush and FailReady                                               *)

\* What a handler leaves: the books are in order with the submissions B batched.
Settled(B) ==
    /\ Books(caller, joined', answer', B, credit')
    /\ NoIdleCredit(caller, answer', credit')
    /\ queued' \subseteq SUBSET Keys
    /\ running' \subseteq SUBSET Keys

LEMMA PumpSettles ==
    ASSUME NEW j, NEW q \in SUBSET SUBSET Keys, NEW run \in SUBSET SUBSET Keys, NEW ans,
           NEW B \in SUBSET Subs,
           Books(caller, j, ans, B, credit), Pump(j, q, run, ans)
    PROVE  Settled(B)
<1>. DEFINE expired == ExpiredKeys(j, q)
            live == Survivors(q, expired)
<1>1. expired \in SUBSET Keys /\ live \in SUBSET SUBSET Keys
  BY DEF ExpiredKeys, Survivors
<1>. DEFINE Failed(S) == UNION {E \in S : NoEndpoint(E)}
            late == UNION {j[k] : k \in expired}
            broken(S) == UNION {j[k] : k \in Failed(S)}
            ans1 == Answered(late, "undispatched", ans)
            ans2(S) == Answered(broken(S), "error", ans1)
<1>2. PICK S \in SUBSET live :
         /\ queued' = live \ S
         /\ running' = run \cup {E \in S : ~NoEndpoint(E)}
         /\ joined' = Retired(j, expired \cup Failed(S))
         /\ answer' = ans2(S)
         /\ credit' = CreditAfter(ans2(S))
  BY Zenon DEF Pump
<1>. DEFINE R == expired \cup Failed(S)
<1>3. R \in SUBSET Keys
  BY <1>1
<1>4. ans \in [Replies -> Results \cup {Unanswered}]
  BY DEF Books, OnePlace
<1>5. /\ ans1 \in [Replies -> Results \cup {Unanswered}]
      /\ \A p \in Replies : ans1[p] = IF p \in late THEN "undispatched" ELSE ans[p]
  <2>. HIDE DEF late
  <2>. QED BY <1>4, AnsweredFacts, ResultsFacts
<1>6. /\ ans2(S) \in [Replies -> Results \cup {Unanswered}]
      /\ \A p \in Replies : ans2(S)[p] = IF p \in broken(S) THEN "error" ELSE ans1[p]
  <2>. HIDE DEF ans1
  <2>. QED BY <1>5, AnsweredFacts, ResultsFacts
<1>7. \A p : p \in late \/ p \in broken(S) <=> \E k \in R : p \in j[k]
  OBVIOUS
<1>. HIDE DEF expired, ans1, ans2, late, broken
<1>8. /\ \A p \in Replies : (\E k \in R : p \in j[k]) => ans2(S)[p] \in Results
      /\ \A p \in Replies : ~(\E k \in R : p \in j[k]) => ans2(S)[p] = ans[p]
  BY <1>5, <1>6, <1>7, ResultsFacts
<1>. HIDE DEF R
<1>9. /\ Books(caller, Retired(j, R), ans2(S), B, CreditAfter(ans2(S)))
      /\ NoIdleCredit(caller, ans2(S), CreditAfter(ans2(S)))
  <2>1. Books(caller, Retired(j, R), ans2(S), B, credit)
    BY <1>3, <1>6, <1>8, RetireKeys
  <2>. QED BY <2>1, CreditReturns
<1>10. queued' \subseteq SUBSET Keys /\ running' \subseteq SUBSET Keys
  BY <1>1, <1>2
<1>. QED BY <1>2, <1>9, <1>10 DEF Settled, R

\* A partition has no keys but those given.
LEMMA PartitionsType ==
    ASSUME NEW ks \in SUBSET Keys, NEW P \in Partitions(ks)
    PROVE  P \in SUBSET SUBSET Keys
BY DEF Partitions, Entries

LEMMA FlushSettles ==
    ASSUME IInv, NEW ss \in SUBSET Batched, Flush(ss)
    PROVE  Settled(Batched \ ss)
<1>. DEFINE late == {s \in ss : Late(s)}
            live == RepliesOf(ss \ late)
<1>0. Batched \in SUBSET Subs /\ ss \in SUBSET Subs
  BY DEF Batched
<1>1. PICK headKnown \in BOOLEAN, hits \in SUBSET (cached \cap Shareable) :
        LET hit == {p \in live : p[2] \in hits /\ (p[2] \in LatestReads => headKnown)}
            j2 == [k \in Keys |-> joined[k] \cup {p \in live \ hit : KeyFor(p, headKnown) = k}]
            new == {k \in {KeyFor(p, headKnown) : p \in live \ hit} : joined[k] = {}}
            ans2 == Answered(RepliesOf(late), "undispatched", Answered(hit, "value", answer))
        IN \E P \in Partitions(new) : Pump(j2, queued \cup P, running, ans2)
  BY Zenon DEF Flush
<1>. DEFINE hit == {p \in live : p[2] \in hits /\ (p[2] \in LatestReads => headKnown)}
            j2 == [k \in Keys |-> joined[k] \cup {p \in live \ hit : KeyFor(p, headKnown) = k}]
            new == {k \in {KeyFor(p, headKnown) : p \in live \ hit} : joined[k] = {}}
            ans1 == Answered(hit, "value", answer)
            ans2 == Answered(RepliesOf(late), "undispatched", ans1)
<1>2. PICK P \in Partitions(new) : Pump(j2, queued \cup P, running, ans2)
  BY <1>1, Zenon
<1>3. live \subseteq Replies /\ hit \subseteq live
  BY ReplyFacts
<1>4. \A p \in Replies :
        /\ p \in live <=> p[1] \in ss /\ ~Late(p[1])
        /\ p \in RepliesOf(late) <=> p[1] \in ss /\ Late(p[1])
  BY ReplyFacts
<1>5. joined \in [Keys -> SUBSET Replies] /\ answer \in [Replies -> Results \cup {Unanswered}]
  BY DEF IInv, Books, OnePlace
<1>. HIDE DEF late, live, hit
<1>6. j2 \in [Keys -> SUBSET Replies]
  BY <1>3, <1>5
<1>7. new \in SUBSET Keys
  BY <1>3, KeyForType
<1>8. queued \cup P \in SUBSET SUBSET Keys /\ running \in SUBSET SUBSET Keys
  <2>. HIDE DEF new
  <2>. QED BY <1>7, PartitionsType DEF IInv, TypeInv
<1>9. /\ ans2 \in [Replies -> Results \cup {Unanswered}]
      /\ \A p \in Replies : ans2[p] = IF p \in RepliesOf(late) THEN "undispatched"
                                      ELSE IF p \in hit THEN "value" ELSE answer[p]
  <2>1. /\ ans1 \in [Replies -> Results \cup {Unanswered}]
        /\ \A p \in Replies : ans1[p] = IF p \in hit THEN "value" ELSE answer[p]
    BY <1>5, AnsweredFacts, ResultsFacts
  <2>. HIDE DEF ans1
  <2>. QED BY <2>1, AnsweredFacts, ResultsFacts
<1>10. \A k \in Keys, p \in Replies :
          p \in j2[k] <=> p \in joined[k] \/ (p \in live /\ p \notin hit /\ KeyFor(p, headKnown) = k)
  OBVIOUS
<1>. HIDE DEF j2, ans2, new
<1>11. OnePlace(joined, answer, Batched)
  BY DEF IInv, Books
<1>12. ASSUME NEW p \in Replies, p[1] \notin ss
       PROVE  ans2[p] = answer[p] /\ \A k \in Keys : p \in j2[k] <=> p \in joined[k]
  <2>1. p \notin live /\ p \notin hit /\ p \notin RepliesOf(late)
    BY <1>3, <1>4, <1>12
  <2>. QED BY <2>1, <1>9, <1>10
<1>13. ASSUME NEW p \in Replies, p[1] \in ss
       PROVE  \/ ans2[p] \in Results /\ \A k \in Keys : p \notin j2[k]
              \/ ans2[p] = Unanswered /\ \E k \in Keys : \A l \in Keys : p \in j2[l] <=> l = k
  <2>1. answer[p] = Unanswered /\ \A k \in Keys : p \notin joined[k]
    BY <1>11, <1>13 DEF OnePlace
  <2>2. CASE p \in hit \/ Late(p[1])
    <3>1. ans2[p] \in Results
      BY <2>2, <1>4, <1>9, <1>13, ResultsFacts
    <3>2. \A k \in Keys : p \notin j2[k]
      BY <2>1, <2>2, <1>4, <1>10 DEF Late
    <3>. QED BY <3>1, <3>2
  <2>3. CASE p \notin hit /\ ~Late(p[1])
    <3>1. ans2[p] = Unanswered
      BY <2>1, <2>3, <1>4, <1>9, <1>13 DEF Late
    <3>2. KeyFor(p, headKnown) \in Keys
      BY KeyForType
    <3>3. \A l \in Keys : p \in j2[l] <=> l = KeyFor(p, headKnown)
      BY <2>1, <2>3, <1>4, <1>10, <1>13 DEF Late
    <3>. QED BY <3>1, <3>2, <3>3
  <2>. QED BY <2>2, <2>3
<1>14. Books(caller, j2, ans2, Batched \ ss, credit)
  <2>1. Books(caller, joined, answer, Batched, credit)
    BY DEF IInv
  <2>2. Unbatches(ss, joined, answer, j2, ans2)
    BY <1>6, <1>9, <1>12, <1>13 DEF Unbatches
  <2>. QED BY <2>1, <2>2, <1>0, Unbatch
<1>. QED BY <1>0, <1>2, <1>8, <1>14, PumpSettles DEF IInv, TypeInv

\* Batched submissions ss are answered, all with res.
LEMMA AnswerBatched ==
    ASSUME IInv, NEW ss \in SUBSET Batched, NEW res \in Results
    PROVE  Books(caller, joined, Answered(RepliesOf(ss), res, answer), Batched \ ss, credit)
<1>. DEFINE ans2 == Answered(RepliesOf(ss), res, answer)
<1>1. OnePlace(joined, answer, Batched) /\ Books(caller, joined, answer, Batched, credit)
  BY DEF IInv, Books
<1>2. /\ ans2 \in [Replies -> Results \cup {Unanswered}]
      /\ \A p \in Replies : ans2[p] = IF p[1] \in ss THEN res ELSE answer[p]
  <2>1. \A p \in Replies : p \in RepliesOf(ss) <=> p[1] \in ss
    BY ReplyFacts
  <2>2. answer \in [Replies -> Results \cup {Unanswered}]
    BY <1>1 DEF OnePlace
  <2>3. /\ ans2 \in [Replies -> Results \cup {Unanswered}]
        /\ \A p \in Replies : ans2[p] = IF p \in RepliesOf(ss) THEN res ELSE answer[p]
    BY <2>2, AnsweredFacts
  <2>. HIDE DEF ans2
  <2>. QED BY <2>1, <2>3
<1>. HIDE DEF ans2
<1>3. /\ joined \in [Keys -> SUBSET Replies]
      /\ \A p \in Replies : p[1] \in ss => \A k \in Keys : p \notin joined[k]
  BY <1>1 DEF OnePlace
<1>4. Batched \in SUBSET Subs
  BY DEF Batched
<1>5. Books(caller, joined, ans2, Batched \ ss, credit)
  <2>1. Unbatches(ss, joined, answer, joined, ans2)
    BY <1>2, <1>3 DEF Unbatches
  <2>. QED BY <2>1, <1>1, <1>4, Unbatch
<1>. QED BY <1>5 DEF ans2

\* fail_ready retires what is queued.
LEMMA FailReadySettles ==
    ASSUME NEW ans, NEW B \in SUBSET Subs, Books(caller, joined, ans, B, credit),
           queued \in SUBSET SUBSET Keys, FailReady(ans)
    PROVE  /\ Books(caller, joined', answer', B, credit')
           /\ NoIdleCredit(caller, answer', credit')
           /\ queued' = {}
<1>. DEFINE R == UNION queued
            ps == UNION {joined[k] : k \in R}
            ans2 == Answered(ps, "shutdown", ans)
<1>1. R \in SUBSET Keys
  OBVIOUS
<1>2. /\ joined' = Retired(joined, R)
      /\ queued' = {}
      /\ answer' = ans2
      /\ credit' = CreditAfter(ans2)
  BY DEF FailReady
<1>3. ans \in [Replies -> Results \cup {Unanswered}]
  BY DEF Books, OnePlace
<1>4. /\ ans2 \in [Replies -> Results \cup {Unanswered}]
      /\ \A p \in Replies : ans2[p] = IF p \in ps THEN "shutdown" ELSE ans[p]
  <2>. HIDE DEF ps
  <2>. QED BY <1>3, AnsweredFacts, ResultsFacts
<1>5. \A p : p \in ps <=> \E k \in R : p \in joined[k]
  OBVIOUS
<1>. HIDE DEF R, ps, ans2
<1>6. Books(caller, Retired(joined, R), ans2, B, credit)
  BY <1>1, <1>4, <1>5, ResultsFacts, RetireKeys
<1>. QED BY <1>2, <1>6, CreditReturns

-----------------------------------------------------------------------------
(* Inductiveness                                                           *)

\* The channel as a set: what a push and a pop do.
LEMMA MailboxPush ==
    ASSUME NEW s \in Subs, mailbox \in Seq(Subs), mailbox' = Append(mailbox, s)
    PROVE  /\ mailbox' \in Seq(Subs)
           /\ \A t \in Subs : InMailbox(t)' <=> InMailbox(t) \/ t = s
           /\ ~InMailbox(s) /\ (\A i, n \in DOMAIN mailbox : mailbox[i] = mailbox[n] => i = n)
                => \A i, n \in DOMAIN mailbox' : mailbox'[i] = mailbox'[n] => i = n
<1>1. /\ Len(mailbox') = Len(mailbox) + 1 /\ Len(mailbox) \in Nat
      /\ \A i \in 1..Len(mailbox) : mailbox'[i] = mailbox[i]
      /\ mailbox'[Len(mailbox) + 1] = s
      /\ mailbox' \in Seq(Subs)
  OBVIOUS
<1>2. DOMAIN mailbox' = 1..(Len(mailbox) + 1) /\ DOMAIN mailbox = 1..Len(mailbox)
  BY <1>1
<1>3. ASSUME NEW t \in Subs PROVE InMailbox(t)' <=> InMailbox(t) \/ t = s
  BY <1>1, <1>2 DEF InMailbox
<1>. QED BY <1>1, <1>2, <1>3 DEF InMailbox

LEMMA MailboxPop ==
    ASSUME mailbox \in Seq(Subs), mailbox # <<>>, mailbox' = Tail(mailbox),
           \A i, n \in DOMAIN mailbox : mailbox[i] = mailbox[n] => i = n
    PROVE  /\ mailbox' \in Seq(Subs)
           /\ Head(mailbox) \in Subs /\ InMailbox(Head(mailbox))
           /\ \A t \in Subs : InMailbox(t)' <=> InMailbox(t) /\ t # Head(mailbox)
           /\ \A i, n \in DOMAIN mailbox' : mailbox'[i] = mailbox'[n] => i = n
<1>1. /\ Len(mailbox) \in Nat \ {0} /\ Len(mailbox') = Len(mailbox) - 1
      /\ \A i \in 1..(Len(mailbox) - 1) : mailbox'[i] = mailbox[i + 1]
      /\ mailbox' \in Seq(Subs) /\ Head(mailbox) = mailbox[1] /\ Head(mailbox) \in Subs
  OBVIOUS
<1>2. DOMAIN mailbox' = 1..(Len(mailbox) - 1) /\ DOMAIN mailbox = 1..Len(mailbox)
  BY <1>1
<1>3. ASSUME NEW t \in Subs PROVE InMailbox(t)' <=> InMailbox(t) /\ t # Head(mailbox)
  <2>1. ASSUME NEW i \in DOMAIN mailbox', mailbox'[i] = t
        PROVE  InMailbox(t) /\ t # Head(mailbox)
    <3>1. i + 1 \in DOMAIN mailbox /\ mailbox[i + 1] = t /\ 1 \in DOMAIN mailbox
      BY <2>1, <1>1, <1>2
    <3>. QED BY <3>1, <1>1, <1>2 DEF InMailbox
  <2>2. ASSUME NEW i \in DOMAIN mailbox, mailbox[i] = t, t # Head(mailbox)
        PROVE  InMailbox(t)'
    <3>1. i - 1 \in DOMAIN mailbox' /\ mailbox'[i - 1] = t
      BY <2>2, <1>1, <1>2
    <3>. QED BY <3>1 DEF InMailbox
  <2>. QED BY <2>1, <2>2 DEF InMailbox
<1>. QED BY <1>1, <1>2, <1>3 DEF InMailbox

\* A handler's books, once the channel and the batch are those of the next state.
LEMMA SettledStep ==
    ASSUME IInv, NEW B, Settled(B), Batched' = B, caller' = caller,
           mailbox' \in Seq(Subs), pending' \subseteq Subs, ChannelInv', AttemptInv'
    PROVE  IInv'
<1>1. Books(caller', joined', answer', Batched', credit')
  BY DEF Settled
<1>2. Books(caller, joined, answer, Batched, credit)'
  BY <1>1
<1>3. NoIdleCredit(caller, answer, credit)'
  BY DEF Settled, NoIdleCredit, Outstanding
<1>4. TypeInv'
  BY DEF IInv, TypeInv, Settled
<1>. QED BY <1>2, <1>3, <1>4 DEF IInv

LEMMA CallerSteps ==
    ASSUME IInv, NEW s \in Subs, Call(s) \/ Acquire(s) \/ Send(s) \/ Return(s) \/ Abandon(s)
    PROVE  IInv'
<1>. USE DEF IInv
<1>1. /\ TypeInv /\ ChannelInv
      /\ OnePlace(joined, answer, Batched)
      /\ Credited(caller, joined, answer, Batched, credit)
      /\ CreditHeld(caller, credit)
      /\ NoIdleCredit(caller, answer, credit)
  BY DEF Books
<1>2. UNCHANGED <<pending, joined, queued, running, answer>>
  BY DEF Call, Acquire, Send, Return, Abandon, jobs
<1>2a. AttemptInv'
  BY DEF AttemptInv, Call, Acquire, Send, Return, Abandon, jobs
<1>3. TypeInv'
  <2>1. caller' \in [Subs -> {"idle", "acquire", "send", "wait", "returned"}]
    BY <1>1 DEF TypeInv, Call, Acquire, Send, Return, Abandon
  <2>2. mailbox' \in Seq(Subs)
    BY <1>1 DEF TypeInv, Call, Acquire, Send, Return, Abandon
  <2>. QED BY <1>1, <1>2, <2>1, <2>2 DEF TypeInv
<1>4. CASE ~Send(s)
  <2>1. mailbox' = mailbox /\ Batched' = Batched
    <3>1. mailbox' = mailbox
      BY <1>4 DEF Call, Acquire, Return, Abandon
    <3>. QED BY <3>1, <1>2 DEF Batched, InMailbox
  <2>2. ChannelInv'
    BY <2>1, <1>1, <1>2 DEF ChannelInv, InMailbox
  <2>3. /\ \A t \in Subs \ {s} : caller'[t] = caller[t]
        /\ credit' \subseteq Subs /\ \A t \in Subs \ {s} : t \in credit' <=> t \in credit
    BY <1>1, <1>4 DEF TypeInv, CreditHeld, Call, Acquire, Return, Abandon
  <2>4. \/ caller[s] = "idle" /\ caller'[s] = "acquire" /\ s \notin credit'
        \/ caller[s] = "acquire" /\ caller'[s] = "send" /\ s \in credit'
        \/ caller[s] = "acquire" /\ caller'[s] = "returned" /\ s \notin credit'
        \/ caller[s] = "send" /\ caller'[s] = "returned" /\ s \notin credit'
        \/ caller[s] = "wait" /\ caller'[s] = "returned" /\ (s \in credit' <=> s \in credit)
    BY <1>1, <1>4 DEF TypeInv, CreditHeld, Sent, Call, Acquire, Return, Abandon
  <2>5. Credited(caller', joined, answer, Batched, credit')
    <3>1. Batched \subseteq credit' /\ \A t \in Batched : caller'[t] \in Sent
      BY <1>1, <2>3, <2>4 DEF Credited, Sent, Batched
    <3>2. ASSUME NEW k \in Keys, NEW p \in Replies, p \in joined[k]
          PROVE  p[1] \in credit' /\ caller'[p[1]] \in Sent
      BY <3>2, <1>1, <2>3, <2>4, ReplyFacts DEF Credited, Sent
    <3>3. ASSUME NEW p \in Replies, p[1] \in credit', caller'[p[1]] # "send",
                 answer[p] = Unanswered
          PROVE  p[1] \in Batched \/ \E k \in Keys : p \in joined[k]
      BY <3>3, <1>1, <2>3, <2>4, ReplyFacts DEF Credited
    <3>4. ASSUME NEW p \in Replies, caller'[p[1]] \notin Sent
          PROVE  answer[p] = Unanswered
      BY <3>4, <1>1, <2>3, <2>4, ReplyFacts DEF Credited, Sent
    <3>. QED BY <3>1, <3>2, <3>3, <3>4 DEF Credited
  <2>6. IsFiniteSet(credit') /\ Cardinality(credit') <= Capacity
    <3>1. CASE Acquire(s)
      <4>1. credit' = credit \cup {s} /\ s \notin credit /\ Cardinality(credit) < Capacity
        BY <3>1, <1>1 DEF Acquire, CreditHeld, Sent
      <4>2. IsFiniteSet(credit) /\ Cardinality(credit) \in Nat
        BY <1>1, FS_CardinalityType DEF CreditHeld
      <4>3. IsFiniteSet(credit') /\ Cardinality(credit') = Cardinality(credit) + 1
        BY <4>1, <4>2, FS_AddElement
      <4>. QED BY <4>1, <4>2, <4>3, BrokerAssumption
    <3>2. CASE ~Acquire(s)
      <4>1. credit' \subseteq credit
        BY <3>2, <1>4 DEF Call, Return, Abandon
      <4>. QED BY <4>1, <1>1, FS_Subset, FS_CardinalityType, BrokerAssumption DEF CreditHeld
    <3>. QED BY <3>1, <3>2
  <2>7. CreditHeld(caller', credit')
    BY <1>1, <2>3, <2>4, <2>6 DEF CreditHeld, Sent
  <2>8. NoIdleCredit(caller', answer, credit')
    BY <1>1, <2>3, <2>4 DEF NoIdleCredit
  <2>9. Books(caller', joined', answer', Batched', credit') /\ NoIdleCredit(caller', answer', credit')
    BY <1>1, <1>2, <2>1, <2>5, <2>7, <2>8 DEF Books
  <2>. QED BY <1>2a, <1>3, <2>2, <2>9 DEF NoIdleCredit, Outstanding
<1>5. CASE Send(s)
  <2>1. /\ caller[s] = "send" /\ caller' = [caller EXCEPT ![s] = "wait"]
        /\ mailbox' = Append(mailbox, s) /\ credit' = credit
    BY <1>5 DEF Send
  <2>2. s \in credit /\ s \notin Batched
    BY <1>1, <2>1 DEF CreditHeld, Credited, Sent
  <2>3. ~InMailbox(s) /\ s \notin pending
    BY <2>2 DEF Batched
  <2>4. \A t \in Subs : InMailbox(t)' <=> InMailbox(t) \/ t = s
    BY <1>1, <2>1, MailboxPush DEF TypeInv
  <2>5. ChannelInv'
    <3>1. \A i, n \in DOMAIN mailbox' : mailbox'[i] = mailbox'[n] => i = n
      BY <1>1, <2>1, <2>3, MailboxPush DEF TypeInv, ChannelInv
    <3>. QED BY <3>1, <1>1, <1>2, <2>3, <2>4 DEF ChannelInv
  <2>6. Batched' = Batched \cup {s}
    BY <1>2, <2>4 DEF Batched
  <2>7. \A p \in Replies : p[1] = s => answer[p] = Unanswered /\ \A k \in Keys : p \notin joined[k]
    BY <1>1, <2>1 DEF Credited, Sent
  <2>8. OnePlace(joined, answer, Batched \cup {s})
    BY <1>1, <2>7 DEF OnePlace
  <2>9. \A t \in Subs : caller'[t] = IF t = s THEN "wait" ELSE caller[t]
    BY <1>1, <2>1 DEF TypeInv
  <2>10. Credited(caller', joined, answer, Batched \cup {s}, credit)
    <3>1. Batched \cup {s} \subseteq credit /\ \A t \in Batched \cup {s} : caller'[t] \in Sent
      BY <1>1, <2>2, <2>9 DEF Credited, Sent, Batched
    <3>2. ASSUME NEW k \in Keys, NEW p \in Replies, p \in joined[k]
          PROVE  p[1] \in credit /\ caller'[p[1]] \in Sent
      BY <3>2, <1>1, <2>9, ReplyFacts DEF Credited, Sent
    <3>3. ASSUME NEW p \in Replies, p[1] \in credit, caller'[p[1]] # "send",
                 answer[p] = Unanswered
          PROVE  p[1] \in Batched \cup {s} \/ \E k \in Keys : p \in joined[k]
      BY <3>3, <1>1, <2>9, ReplyFacts DEF Credited
    <3>4. ASSUME NEW p \in Replies, caller'[p[1]] \notin Sent
          PROVE  answer[p] = Unanswered
      BY <3>4, <1>1, <2>9, ReplyFacts DEF Credited, Sent
    <3>. QED BY <3>1, <3>2, <3>3, <3>4 DEF Credited
  <2>11. CreditHeld(caller', credit)
    BY <1>1, <2>9 DEF CreditHeld, Sent
  <2>12. NoIdleCredit(caller', answer, credit)
    <3>1. Outstanding(s, answer)
      BY <2>7, ReplyFacts DEF Outstanding
    <3>. QED BY <3>1, <1>1, <2>9 DEF NoIdleCredit, CreditHeld
  <2>13. Books(caller', joined', answer', Batched', credit') /\ NoIdleCredit(caller', answer', credit')
    BY <1>2, <2>1, <2>6, <2>8, <2>10, <2>11, <2>12 DEF Books
  <2>. QED BY <1>2a, <1>3, <2>5, <2>13 DEF NoIdleCredit, Outstanding
<1>. QED BY <1>4, <1>5

\* Command::Submit.
LEMMA ReceiveStep ==
    ASSUME IInv, Receive
    PROVE  IInv'
<1>. DEFINE s == Head(mailbox)
            rts == RoutesOf({s})
            crosses == \E rt \in rts : Load(pending \cup {s}, rt) > MaxCalls
            kept == IF crosses THEN {} ELSE pending
            reached == \E rt \in RoutesOf(kept \cup {s}) : Load(kept \cup {s}, rt) >= MaxCalls
            flushed == (pending \ kept) \cup (IF reached THEN kept \cup {s} ELSE {})
<1>1. /\ mailbox # <<>> /\ mailbox' = Tail(mailbox) /\ caller' = caller
      /\ sent' = sent /\ dropped' = dropped
      /\ \/ /\ Pump(joined, queued, running, Answered(RepliesOf({s}), "undispatched", answer))
            /\ pending' = pending
         \/ /\ Flush(flushed)
            /\ pending' = (kept \cup {s}) \ flushed
  BY Zenon DEF Receive
<1>. HIDE DEF crosses, reached
<1>1a. AttemptInv'
  BY <1>1 DEF IInv, AttemptInv
<1>2. /\ mailbox \in Seq(Subs) /\ pending \subseteq Subs
      /\ queued \in SUBSET SUBSET Keys /\ running \in SUBSET SUBSET Keys
      /\ \A t \in Subs : InMailbox(t) => t \notin pending
      /\ \A i, n \in DOMAIN mailbox : mailbox[i] = mailbox[n] => i = n
  BY DEF IInv, TypeInv, ChannelInv
<1>3. /\ mailbox' \in Seq(Subs)
      /\ s \in Subs /\ InMailbox(s)
      /\ \A t \in Subs : InMailbox(t)' <=> InMailbox(t) /\ t # s
      /\ \A i, n \in DOMAIN mailbox' : mailbox'[i] = mailbox'[n] => i = n
  BY <1>1, <1>2, MailboxPop
<1>. HIDE DEF s
<1>4. CASE /\ Pump(joined, queued, running, Answered(RepliesOf({s}), "undispatched", answer))
           /\ pending' = pending
  <2>1. {s} \in SUBSET Batched /\ Batched \ {s} \in SUBSET Subs
    BY <1>3 DEF Batched
  <2>2. Books(caller, joined, Answered(RepliesOf({s}), "undispatched", answer),
              Batched \ {s}, credit)
    BY <2>1, AnswerBatched, ResultsFacts
  <2>3. Settled(Batched \ {s})
    BY <1>2, <1>4, <2>1, <2>2, PumpSettles
  <2>4. Batched' = Batched \ {s}
    BY <1>2, <1>3, <1>4 DEF Batched
  <2>5. ChannelInv'
    BY <1>2, <1>3, <1>4 DEF ChannelInv
  <2>. QED BY <1>1, <1>1a, <1>2, <1>3, <1>4, <2>3, <2>4, <2>5, SettledStep
<1>5. CASE Flush(flushed) /\ pending' = (kept \cup {s}) \ flushed
  <2>1. flushed \subseteq pending \cup {s} /\ pending' = (pending \cup {s}) \ flushed
    BY <1>5
  <2>. HIDE DEF flushed
  <2>2. flushed \in SUBSET Batched
    BY <2>1, <1>2, <1>3 DEF Batched
  <2>3. Settled(Batched \ flushed)
    BY <1>5, <2>2, FlushSettles
  <2>4. Batched' = Batched \ flushed
    BY <2>1, <1>2, <1>3 DEF Batched
  <2>5. ChannelInv'
    BY <2>1, <1>2, <1>3 DEF ChannelInv
  <2>6. pending' \subseteq Subs
    BY <2>1, <1>2, <1>3
  <2>. QED BY <1>1, <1>1a, <1>3, <2>3, <2>4, <2>5, <2>6, SettledStep
<1>. QED BY <1>1, <1>4, <1>5

\* A flush of some of the batch.
LEMMA FlushStep ==
    ASSUME IInv, NEW ss \in SUBSET pending, Flush(ss), pending' = pending \ ss,
           UNCHANGED <<mailbox, caller, sent, dropped>>
    PROVE  IInv'
<1>1. /\ mailbox \in Seq(Subs) /\ pending \subseteq Subs
      /\ \A t \in Subs : InMailbox(t) => t \notin pending
      /\ \A i, n \in DOMAIN mailbox : mailbox[i] = mailbox[n] => i = n
  BY DEF IInv, TypeInv, ChannelInv
<1>2. \A t \in Subs : InMailbox(t)' <=> InMailbox(t)
  BY DEF InMailbox
<1>3. ss \in SUBSET Batched
  BY <1>1 DEF Batched
<1>4. Settled(Batched \ ss)
  BY <1>3, FlushSettles
<1>5. Batched' = Batched \ ss
  BY <1>1, <1>2 DEF Batched
<1>6. ChannelInv'
  BY <1>1, <1>2 DEF ChannelInv
<1>7. AttemptInv'
  BY DEF IInv, AttemptInv
<1>. QED BY <1>1, <1>4, <1>5, <1>6, <1>7, SettledStep

LEMMA TimerStep ==
    ASSUME IInv, Timer
    PROVE  IInv'
<1>. DEFINE late == {s \in pending : Late(s)}
            flushed == IF flushIn = 0 THEN pending ELSE late
<1>1. Flush(flushed) /\ pending' = pending \ flushed /\ UNCHANGED <<mailbox, caller, sent, dropped>>
  BY Zenon DEF Timer
<1>2. flushed \in SUBSET pending
  OBVIOUS
<1>. HIDE DEF flushed
<1>. QED BY <1>1, <1>2, FlushStep

LEMMA BlockEventStep ==
    ASSUME IInv, BlockEvent
    PROVE  IInv'
<1>1. /\ Flush(pending) /\ pending' = pending \ pending
      /\ UNCHANGED <<mailbox, caller, sent, dropped>>
  BY DEF BlockEvent
<1>. QED BY <1>1, FlushStep

\* complete_job: what the job answers, and its keys but those readmitted.
LEMMA FinishStep ==
    ASSUME IInv, NEW E \in running, Finish(E)
    PROVE  IInv'
<1>. DEFINE again == Readmitted(E)
            done == E \ again
            Of(ks) == UNION {joined[k] : k \in ks}
            j2 == Retired(joined, done)
            ansV(ok) == Answered(Of(ok), "value", answer)
            ansE(ok) == Answered(Of((E \cap sent) \ ok), "error", ansV(ok))
            ans2(ok) == Answered(Of(done \cap dropped), "undispatched", ansE(ok))
<1>1. /\ E \subseteq sent \cup dropped
      /\ UNCHANGED <<caller, mailbox, pending>>
      /\ sent' = sent \ E /\ dropped' = dropped \ E
      /\ \E ok \in SUBSET (E \cap sent), P \in Partitions(again) :
           \/ Pump(j2, queued \cup P, running \ {E}, ans2(ok))
           \/ /\ joined' = j2
              /\ queued' = queued \cup P
              /\ running' = running \ {E}
              /\ answer' = ans2(ok)
              /\ credit' = CreditAfter(ans2(ok))
  BY Zenon DEF Finish
<1>2. PICK ok \in SUBSET (E \cap sent), P \in Partitions(again) :
           \/ Pump(j2, queued \cup P, running \ {E}, ans2(ok))
           \/ /\ joined' = j2
              /\ queued' = queued \cup P
              /\ running' = running \ {E}
              /\ answer' = ans2(ok)
              /\ credit' = CreditAfter(ans2(ok))
  BY <1>1, Zenon
<1>3. /\ TypeInv /\ ChannelInv /\ AttemptInv
      /\ Books(caller, joined, answer, Batched, credit)
      /\ answer \in [Replies -> Results \cup {Unanswered}]
      /\ joined \in [Keys -> SUBSET Replies]
  BY DEF IInv, Books, OnePlace
<1>4. E \in SUBSET Keys /\ again \subseteq E
  BY <1>3 DEF TypeInv, Readmitted
<1>5. again \subseteq dropped /\ done \subseteq E
  BY DEF Readmitted
<1>. HIDE DEF again
<1>6. /\ ansV(ok) \in [Replies -> Results \cup {Unanswered}]
      /\ \A p \in Replies : ansV(ok)[p] = IF p \in Of(ok) THEN "value" ELSE answer[p]
  <2>. HIDE DEF Of
  <2>. QED BY <1>3, AnsweredFacts, ResultsFacts
<1>7. /\ ansE(ok) \in [Replies -> Results \cup {Unanswered}]
      /\ \A p \in Replies :
           ansE(ok)[p] = IF p \in Of((E \cap sent) \ ok) THEN "error" ELSE ansV(ok)[p]
  <2>. HIDE DEF Of, ansV
  <2>. QED BY <1>6, AnsweredFacts, ResultsFacts
<1>8. /\ ans2(ok) \in [Replies -> Results \cup {Unanswered}]
      /\ \A p \in Replies :
           ans2(ok)[p] = IF p \in Of(done \cap dropped) THEN "undispatched" ELSE ansE(ok)[p]
  <2>1. ansE(ok) \in [Replies -> Results \cup {Unanswered}]
    BY <1>7
  <2>. HIDE DEF Of, ansE, ansV, done, again
  <2>. QED BY <2>1, AnsweredFacts, ResultsFacts
<1>9. \A ks, p : p \in Of(ks) <=> \E k \in ks : p \in joined[k]
  OBVIOUS
<1>. HIDE DEF ans2, ansE, ansV, Of
<1>10. \A k \in E : k \in done <=> k \in E \cap sent \/ k \in done \cap dropped
  BY <1>1, <1>3, <1>5 DEF AttemptInv
<1>11. \A p \in Replies : ans2(ok)[p] = IF p \in Of(done \cap dropped) THEN "undispatched"
                                       ELSE IF p \in Of((E \cap sent) \ ok) THEN "error"
                                       ELSE IF p \in Of(ok) THEN "value" ELSE answer[p]
  BY <1>6, <1>7, <1>8
<1>12. \A p : (\E k \in done : p \in joined[k]) <=>
               p \in Of(done \cap dropped) \/ p \in Of((E \cap sent) \ ok) \/ p \in Of(ok)
  BY <1>5, <1>9, <1>10
<1>13. Books(caller, j2, ans2(ok), Batched, credit)
  <2>1. done \in SUBSET Keys /\ Batched \in SUBSET Subs
    BY <1>4, <1>5 DEF Batched
  <2>. HIDE DEF done
  <2>2. /\ \A p \in Replies : (\E k \in done : p \in joined[k]) => ans2(ok)[p] \in Results
        /\ \A p \in Replies : ~(\E k \in done : p \in joined[k]) => ans2(ok)[p] = answer[p]
    BY <1>11, <1>12, ResultsFacts
  <2>. QED BY <1>3, <1>8, <2>1, <2>2, RetireKeys
<1>14. queued \cup P \in SUBSET SUBSET Keys /\ running \ {E} \in SUBSET SUBSET Keys
  BY <1>3, <1>4, PartitionsType DEF TypeInv
<1>. HIDE DEF j2, done
<1>15. Batched \in SUBSET Subs
  BY DEF Batched
<1>16. Settled(Batched)
  <2>1. CASE Pump(j2, queued \cup P, running \ {E}, ans2(ok))
    BY <2>1, <1>13, <1>14, <1>15, PumpSettles
  <2>2. CASE /\ joined' = j2
             /\ queued' = queued \cup P
             /\ running' = running \ {E}
             /\ answer' = ans2(ok)
             /\ credit' = CreditAfter(ans2(ok))
    BY <2>2, <1>13, <1>14, <1>15, CreditReturns DEF Settled
  <2>. QED BY <1>2, <2>1, <2>2
<1>17. Batched' = Batched /\ ChannelInv'
  BY <1>1, <1>3 DEF Batched, InMailbox, ChannelInv
<1>18. AttemptInv'
  BY <1>1, <1>3 DEF AttemptInv
<1>. QED BY <1>1, <1>3, <1>16, <1>17, <1>18, SettledStep DEF TypeInv

LEMMA ShutdownStep ==
    ASSUME IInv, Shutdown \/ Stop
    PROVE  IInv'
<1>1. /\ TypeInv /\ ChannelInv /\ AttemptInv
      /\ Books(caller, joined, answer, Batched, credit)
      /\ queued \in SUBSET SUBSET Keys
      /\ Batched \in SUBSET Subs
  BY DEF IInv, TypeInv, Batched
<1>2. /\ UNCHANGED <<caller, mailbox, running, sent, dropped>>
  BY DEF Shutdown, Stop
<1>3. AttemptInv'
  BY <1>1, <1>2 DEF AttemptInv
<1>4. CASE Shutdown
  <2>1. /\ mailbox = <<>> /\ pending' = {}
        /\ FailReady(Answered(RepliesOf(pending), "shutdown", answer))
    BY <1>4 DEF Shutdown
  <2>2. pending \in SUBSET Batched /\ Batched = pending
    BY <1>1, <2>1 DEF Batched, InMailbox, TypeInv
  <2>3. Books(caller, joined, Answered(RepliesOf(pending), "shutdown", answer), {}, credit)
    <3>1. Books(caller, joined, Answered(RepliesOf(pending), "shutdown", answer),
                Batched \ pending, credit)
      BY <2>2, AnswerBatched, ResultsFacts
    <3>2. Batched \ pending = {}
      BY <2>2
    <3>. QED BY <3>1, <3>2
  <2>4. Settled({})
    BY <1>1, <1>2, <2>1, <2>3, FailReadySettles DEF Settled, TypeInv
  <2>5. Batched' = {} /\ ChannelInv'
    BY <1>1, <1>2, <2>1 DEF Batched, InMailbox, ChannelInv
  <2>. QED BY <1>1, <1>2, <1>3, <2>1, <2>4, <2>5, SettledStep DEF TypeInv
<1>5. CASE Stop
  <2>1. FailReady(answer) /\ pending' = pending
    BY <1>5 DEF Stop
  <2>2. Settled(Batched)
    BY <1>1, <1>2, <2>1, FailReadySettles DEF Settled, TypeInv
  <2>3. Batched' = Batched /\ ChannelInv'
    BY <1>1, <1>2, <2>1 DEF Batched, InMailbox, ChannelInv
  <2>. QED BY <1>1, <1>2, <1>3, <2>1, <2>2, <2>3, SettledStep DEF TypeInv
<1>. QED BY <1>4, <1>5

\* What leaves callers, channel, batch, work and answers alone.
LEMMA QuietStep ==
    ASSUME IInv,
           UNCHANGED <<caller, credit, mailbox, pending, joined, queued, running, answer>>,
           AttemptInv'
    PROVE  IInv'
BY DEF IInv, TypeInv, ChannelInv, Books, OnePlace, Credited, CreditHeld, NoIdleCredit,
       Outstanding, Batched, InMailbox

LEMMA IInvStep == IInv /\ [Next]_vars => IInv'
<1>. SUFFICES ASSUME IInv, [Next]_vars
              PROVE  IInv'
  OBVIOUS
<1>1. CASE \E s \in Subs : Call(s) \/ Acquire(s) \/ Send(s) \/ Return(s) \/ Abandon(s)
  BY <1>1, CallerSteps
<1>2. CASE \E k \in InJob : Dispatch(k) \/ Drop(k)
  <2>1. /\ UNCHANGED <<caller, credit, mailbox, pending, joined, queued, running, answer>>
        /\ AttemptInv'
    <3>1. PICK k \in InJob : Dispatch(k) \/ Drop(k)
      BY <1>2
    <3>2. AttemptInv /\ k \notin sent /\ k \notin dropped
      BY <3>1 DEF IInv, InJob
    <3>. QED BY <3>1, <3>2 DEF Dispatch, Drop, callers, AttemptInv
  <2>. QED BY <2>1, QuietStep
<1>3. CASE Tick \/ UNCHANGED vars
  <2>1. /\ UNCHANGED <<caller, credit, mailbox, pending, joined, queued, running, answer>>
        /\ AttemptInv'
    BY <1>3 DEF Tick, callers, jobs, vars, IInv, AttemptInv
  <2>. QED BY <2>1, QuietStep
<1>. QED BY <1>1, <1>2, <1>3, ReceiveStep, TimerStep, BlockEventStep, FinishStep,
            ShutdownStep DEF Next

LEMMA IInvInit == Init => IInv
<1>. SUFFICES ASSUME Init PROVE IInv
  OBVIOUS
<1>1. Batched = {} /\ ChannelInv /\ AttemptInv
  BY DEF Init, Batched, InMailbox, ChannelInv, AttemptInv
<1>2. TypeInv
  BY DEF Init, TypeInv
<1>3. OnePlace(joined, answer, {}) /\ Credited(caller, joined, answer, {}, credit)
  BY ReplyFacts DEF Init, OnePlace, Credited, Sent
<1>4. CreditHeld(caller, credit) /\ NoIdleCredit(caller, answer, credit)
  BY FS_EmptySet, BrokerAssumption DEF Init, CreditHeld, NoIdleCredit
<1>. QED BY <1>1, <1>2, <1>3, <1>4 DEF IInv, Books

-----------------------------------------------------------------------------
(* Theorems                                                                *)

LEMMA IInvHolds == Spec => []IInv
BY IInvInit, IInvStep, PTL DEF Spec

\* Whatever times out, is shared, readmitted or shut down, an unanswered reply of a
\* submission inside the broker is in exactly one place, and an answered one in none.
THEOREM RepliesInOnePlace == Spec => []ReplyInOnePlace
<1>1. IInv => ReplyInOnePlace
  <2>. SUFFICES ASSUME IInv PROVE ReplyInOnePlace
    OBVIOUS
  <2>1. /\ ChannelInv /\ OnePlace(joined, answer, Batched)
        /\ Credited(caller, joined, answer, Batched, credit)
    BY DEF IInv, Books
  <2>2. \A p \in Replies : p[1] \in Batched <=> InMailbox(p[1]) \/ p[1] \in pending
    BY ReplyFacts DEF Batched
  <2>. SUFFICES ASSUME NEW p \in Replies
       PROVE  LET batched == InMailbox(p[1]) \/ p[1] \in pending
                  keys == {k \in Keys : p \in joined[k]}
              IN /\ batched => answer[p] = Unanswered /\ keys = {}
                 /\ \A k, l \in keys : k = l
                 /\ keys # {} => answer[p] = Unanswered
                 /\ p[1] \in credit /\ caller[p[1]] # "send" /\ answer[p] = Unanswered
                      => batched \/ keys # {}
    BY <2>1 DEF ReplyInOnePlace, ChannelInv
  <2>. DEFINE batched == InMailbox(p[1]) \/ p[1] \in pending
              keys == {k \in Keys : p \in joined[k]}
  <2>3. batched => answer[p] = Unanswered /\ keys = {}
    BY <2>1, <2>2 DEF OnePlace
  <2>4. /\ \A k, l \in keys : k = l
        /\ keys # {} => answer[p] = Unanswered
    BY <2>1 DEF OnePlace
  <2>5. p[1] \in credit /\ caller[p[1]] # "send" /\ answer[p] = Unanswered
          => batched \/ keys # {}
    BY <2>1, <2>2 DEF Credited
  <2>. QED BY <2>3, <2>4, <2>5
<1>. QED BY <1>1, IInvHolds, PTL

\* A submission's admission credit is held exactly as long as it is being sent or a
\* reply of it is in the broker, and credits never exceed the capacity.
THEOREM CreditsCount == Spec => []CreditUntilRetired
<1>1. IInv => CreditUntilRetired
  <2>. SUFFICES ASSUME IInv PROVE CreditUntilRetired
    OBVIOUS
  <2>1. /\ OnePlace(joined, answer, Batched)
        /\ Credited(caller, joined, answer, Batched, credit)
        /\ CreditHeld(caller, credit) /\ NoIdleCredit(caller, answer, credit)
    BY DEF IInv, Books
  <2>. SUFFICES ASSUME NEW s \in Subs
       PROVE  s \in credit <=> \/ caller[s] = "send"
                               \/ InMailbox(s) \/ s \in pending
                               \/ \E k \in Keys : \E p \in joined[k] : p[1] = s
    BY <2>1 DEF CreditUntilRetired, CreditHeld
  <2>2. ASSUME s \in credit, caller[s] # "send"
        PROVE  InMailbox(s) \/ s \in pending \/ \E k \in Keys : \E p \in joined[k] : p[1] = s
    <3>1. PICK p \in Replies : p[1] = s /\ answer[p] = Unanswered
      <4>1. Outstanding(s, answer)
        BY <2>1, <2>2 DEF NoIdleCredit
      <4>. QED BY <4>1 DEF Outstanding, RepliesOf
    <3>2. s \in Batched \/ \E k \in Keys : p \in joined[k]
      BY <2>1, <2>2, <3>1 DEF Credited
    <3>. QED BY <3>1, <3>2 DEF Batched
  <2>3. (InMailbox(s) \/ s \in pending) => s \in credit
    BY <2>1 DEF Credited, Batched
  <2>4. ASSUME NEW k \in Keys, NEW p \in joined[k], p[1] = s
        PROVE  s \in credit
    BY <2>1, <2>4 DEF Credited, OnePlace
  <2>. QED BY <2>1, <2>2, <2>3, <2>4 DEF CreditHeld
<1>. QED BY <1>1, IInvHolds, PTL

-----------------------------------------------------------------------------
(* Timeouts                                                                *)

\* pump_ready tells only late callers that their read was never sent.
LEMMA PumpTimesOut ==
    ASSUME NEW j, NEW q, NEW run, NEW ans \in [Replies -> Results \cup {Unanswered}],
           Pump(j, q, run, ans), NEW p \in Replies,
           answer'[p] = "undispatched", ~Late(p[1])
    PROVE  ans[p] = "undispatched"
<1>. DEFINE expired == ExpiredKeys(j, q)
            live == Survivors(q, expired)
            Failed(S) == UNION {E \in S : NoEndpoint(E)}
            late == UNION {j[k] : k \in expired}
            broken(S) == UNION {j[k] : k \in Failed(S)}
            ans1 == Answered(late, "undispatched", ans)
            ans2(S) == Answered(broken(S), "error", ans1)
<1>1. PICK S \in SUBSET live : answer' = ans2(S)
  BY Zenon DEF Pump
<1>2. p \notin late
  BY DEF ExpiredKeys, AllLate
<1>3. /\ ans1 \in [Replies -> Results \cup {Unanswered}]
      /\ ans1[p] = IF p \in late THEN "undispatched" ELSE ans[p]
  <2>. HIDE DEF late
  <2>. QED BY AnsweredFacts, ResultsFacts
<1>4. ans2(S)[p] = IF p \in broken(S) THEN "error" ELSE ans1[p]
  <2>. HIDE DEF broken, ans1
  <2>. QED BY <1>3, AnsweredFacts, ResultsFacts
<1>. HIDE DEF ans1, ans2, late, broken
<1>. QED BY <1>1, <1>2, <1>3, <1>4

LEMMA FlushTimesOut ==
    ASSUME IInv, NEW ss \in SUBSET Subs, Flush(ss), NEW p \in Replies,
           answer'[p] = "undispatched", ~Late(p[1])
    PROVE  answer[p] = "undispatched"
<1>. DEFINE late == {s \in ss : Late(s)}
            live == RepliesOf(ss \ late)
            Hit(headKnown, hits) ==
              {r \in live : r[2] \in hits /\ (r[2] \in LatestReads => headKnown)}
            ans1(hit) == Answered(hit, "value", answer)
            ans2(hit) == Answered(RepliesOf(late), "undispatched", ans1(hit))
<1>1. PICK hit, j, q : Pump(j, q, running, ans2(hit))
  BY Zenon DEF Flush
<1>2. answer \in [Replies -> Results \cup {Unanswered}]
  BY DEF IInv, Books, OnePlace
<1>3. p \notin RepliesOf(late)
  BY ReplyFacts
<1>4. /\ ans1(hit) \in [Replies -> Results \cup {Unanswered}]
      /\ ans1(hit)[p] = IF p \in hit THEN "value" ELSE answer[p]
  BY <1>2, AnsweredFacts, ResultsFacts
<1>5. /\ ans2(hit) \in [Replies -> Results \cup {Unanswered}]
      /\ ans2(hit)[p] = IF p \in RepliesOf(late) THEN "undispatched" ELSE ans1(hit)[p]
  <2>. HIDE DEF ans1, late
  <2>. QED BY <1>4, AnsweredFacts, ResultsFacts
<1>. HIDE DEF ans1, ans2, late
<1>6. ans2(hit)[p] = "undispatched"
  BY <1>1, <1>5, PumpTimesOut
<1>. QED BY <1>3, <1>4, <1>5, <1>6

\* The answers a finished job gives.
LEMMA FinishTimesOut ==
    ASSUME IInv, NEW E \in running, Finish(E), NEW p \in Replies,
           answer'[p] = "undispatched", ~Late(p[1])
    PROVE  answer[p] = "undispatched"
<1>. DEFINE done == E \ Readmitted(E)
            Of(ks) == UNION {joined[k] : k \in ks}
            ansV(ok) == Answered(Of(ok), "value", answer)
            ansE(ok) == Answered(Of((E \cap sent) \ ok), "error", ansV(ok))
            ans2(ok) == Answered(Of(done \cap dropped), "undispatched", ansE(ok))
<1>1. PICK ok, j, q, run : Pump(j, q, run, ans2(ok)) \/ answer' = ans2(ok)
  BY Zenon DEF Finish
<1>2. answer \in [Replies -> Results \cup {Unanswered}]
  BY DEF IInv, Books, OnePlace
<1>3. p \notin Of(done \cap dropped)
  BY DEF Readmitted, AllLate
<1>. HIDE DEF Of, done
<1>4. /\ ansV(ok) \in [Replies -> Results \cup {Unanswered}]
      /\ ansV(ok)[p] = IF p \in Of(ok) THEN "value" ELSE answer[p]
  BY <1>2, AnsweredFacts, ResultsFacts
<1>. HIDE DEF ansV
<1>5. /\ ansE(ok) \in [Replies -> Results \cup {Unanswered}]
      /\ ansE(ok)[p] = IF p \in Of((E \cap sent) \ ok) THEN "error" ELSE ansV(ok)[p]
  BY <1>4, AnsweredFacts, ResultsFacts
<1>. HIDE DEF ansE
<1>6. /\ ans2(ok) \in [Replies -> Results \cup {Unanswered}]
      /\ ans2(ok)[p] = IF p \in Of(done \cap dropped) THEN "undispatched" ELSE ansE(ok)[p]
  BY <1>5, AnsweredFacts, ResultsFacts
<1>. HIDE DEF ans2
<1>7. ans2(ok)[p] = "undispatched"
  BY <1>1, <1>6, PumpTimesOut
<1>. QED BY <1>3, <1>4, <1>5, <1>6, <1>7

\* fail_ready answers with the shutdown error.
LEMMA FailReadyTimesOut ==
    ASSUME NEW ans \in [Replies -> Results \cup {Unanswered}], FailReady(ans),
           NEW p \in Replies, answer'[p] = "undispatched"
    PROVE  ans[p] = "undispatched"
<1>. DEFINE ps == UNION {joined[k] : k \in UNION queued}
<1>1. answer' = Answered(ps, "shutdown", ans)
  BY DEF FailReady
<1>. HIDE DEF ps
<1>. QED BY <1>1, AnsweredFacts, ResultsFacts

\* A caller is told that its read was never sent only once its deadline has passed:
\* not when it shares the read with late callers, nor when a job drops it.
THEOREM OnlyLateTimeOut == Spec => NoEarlyTimeout
<1>1. IInv /\ [Next]_vars =>
        [\A p \in Replies :
           answer[p] = Unanswered /\ answer'[p] = "undispatched" => Late(p[1])]_vars
  <2>. SUFFICES ASSUME IInv, Next, NEW p \in Replies,
                       answer[p] = Unanswered, answer'[p] = "undispatched", ~Late(p[1])
                PROVE  FALSE
    OBVIOUS
  <2>1. /\ answer \in [Replies -> Results \cup {Unanswered}]
        /\ answer[p] # "undispatched"
        /\ pending \in SUBSET Subs /\ mailbox \in Seq(Subs)
    BY ResultsFacts DEF IInv, TypeInv, Books, OnePlace
  <2>2. CASE UNCHANGED answer
    BY <2>1, <2>2
  <2>3. CASE Receive
    <3>. DEFINE s == Head(mailbox)
                crosses == \E rt \in RoutesOf({s}) : Load(pending \cup {s}, rt) > MaxCalls
                kept == IF crosses THEN {} ELSE pending
                reached == \E rt \in RoutesOf(kept \cup {s}) :
                             Load(kept \cup {s}, rt) >= MaxCalls
                flushed == (pending \ kept) \cup (IF reached THEN kept \cup {s} ELSE {})
    <3>1. /\ mailbox # <<>>
          /\ \/ /\ Late(s)
                /\ Pump(joined, queued, running,
                        Answered(RepliesOf({s}), "undispatched", answer))
             \/ Flush(flushed)
      BY <2>3, Zenon DEF Receive
    <3>2. s \in Subs
      BY <2>1, <3>1
    <3>. HIDE DEF s, crosses, reached
    <3>3. flushed \in SUBSET Subs
      BY <2>1, <3>2
    <3>. HIDE DEF flushed
    <3>4. CASE Late(s) /\ Pump(joined, queued, running,
                               Answered(RepliesOf({s}), "undispatched", answer))
      <4>. DEFINE ans2 == Answered(RepliesOf({s}), "undispatched", answer)
      <4>1. p \notin RepliesOf({s})
        BY <3>4, ReplyFacts
      <4>2. /\ ans2 \in [Replies -> Results \cup {Unanswered}]
            /\ ans2[p] = IF p \in RepliesOf({s}) THEN "undispatched" ELSE answer[p]
        <5>1. answer \in [Replies -> Results \cup {Unanswered}]
          BY <2>1
        <5>2. "undispatched" \in Results
          BY ResultsFacts
        <5>. QED BY <5>1, <5>2, AnsweredFacts
      <4>3. Pump(joined, queued, running, ans2)
        BY <3>4
      <4>. HIDE DEF ans2
      <4>. QED BY <2>1, <4>1, <4>2, <4>3, PumpTimesOut
    <3>. QED BY <2>1, <3>1, <3>3, <3>4, FlushTimesOut
  <2>4. CASE Timer
    <3>. DEFINE flushed == IF flushIn = 0 THEN pending ELSE {s \in pending : Late(s)}
    <3>1. Flush(flushed)
      BY <2>4, Zenon DEF Timer
    <3>2. flushed \in SUBSET Subs
      BY <2>1
    <3>. HIDE DEF flushed
    <3>. QED BY <2>1, <3>1, <3>2, FlushTimesOut
  <2>5. CASE BlockEvent
    BY <2>1, <2>5, FlushTimesOut DEF BlockEvent
  <2>6. CASE \E E \in running : Finish(E)
    BY <2>1, <2>6, FinishTimesOut
  <2>7. CASE Shutdown
    <3>. DEFINE ans2 == Answered(RepliesOf(pending), "shutdown", answer)
    <3>1. FailReady(ans2)
      BY <2>7 DEF Shutdown
    <3>2. /\ ans2 \in [Replies -> Results \cup {Unanswered}]
          /\ ans2[p] = IF p \in RepliesOf(pending) THEN "shutdown" ELSE answer[p]
      BY <2>1, AnsweredFacts, ResultsFacts
    <3>. HIDE DEF ans2
    <3>. QED BY <2>1, <3>1, <3>2, FailReadyTimesOut
  <2>8. CASE Stop
    BY <2>1, <2>8, FailReadyTimesOut DEF Stop
  <2>9. CASE \/ \E s \in Subs : Call(s) \/ Acquire(s) \/ Send(s) \/ Return(s) \/ Abandon(s)
             \/ \E k \in InJob : Dispatch(k) \/ Drop(k)
             \/ Tick
    BY <2>2, <2>9 DEF Call, Acquire, Send, Return, Abandon, Dispatch, Drop, Tick
  <2>. QED BY <2>3, <2>4, <2>5, <2>6, <2>7, <2>8, <2>9 DEF Next
<1>. QED BY <1>1, IInvHolds, PTL DEF Spec, NoEarlyTimeout
=============================================================================
