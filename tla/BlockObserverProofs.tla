------------------------ MODULE BlockObserverProofs ------------------------
(***************************************************************************)
(* The block observer, for every block tree, set of endpoints and number   *)
(* of faults: it never passes a block that holds an attempt, and what it   *)
(* reports implements the abstract classification of TransactionOutcome.   *)
(***************************************************************************)
EXTENDS BlockObserver, FiniteSetTheorems, WellFoundedInduction, TLAPS

----------------------------------------------------------------------------
(* The block tree                                                          *)

\* A branch holds its block and the parents of its members, and the branches of
\* its members.
LEMMA BranchFacts ==
    ASSUME NEW b \in Blocks
    PROVE  /\ Branch[b] \subseteq Blocks /\ b \in Branch[b]
           /\ Rooted(Branch[b])
           /\ \A c \in Branch[b] : Branch[c] \subseteq Branch[b]
<1>1. Branch[b] = {c \in Blocks : \A S \in SUBSET Blocks : Rooted(S) /\ b \in S => c \in S}
  BY DEF Branch
<1>2. \A c \in Branch[b] : Parent[c] \in Blocks \cup {NoBlock}
  BY <1>1, ObserverConstants
<1>3. Rooted(Branch[b])
  BY <1>1, <1>2, Zenon DEF Rooted
<1>4. ASSUME NEW c \in Branch[b] PROVE Branch[c] \subseteq Branch[b]
  <2>1. Branch[c] = {d \in Blocks : \A S \in SUBSET Blocks : Rooted(S) /\ c \in S => d \in S}
    BY <1>1, <1>4 DEF Branch
  <2>2. Branch[b] \in SUBSET Blocks
    BY <1>1
  <2> QED
    BY <1>3, <1>4, <2>1, <2>2, Zenon
<1> QED
  BY <1>1, <1>3, <1>4

\* The branch of a block is the block and the branch of its parent.
LEMMA BranchOfParent ==
    ASSUME NEW b \in Blocks, NEW c \in Branch[b]
    PROVE  c = b \/ (Parent[b] \in Blocks /\ c \in Branch[Parent[b]])
<1> DEFINE S == {b} \cup {d \in Blocks : Parent[b] \in Blocks /\ d \in Branch[Parent[b]]}
<1>1. Rooted(S)
  <2> SUFFICES ASSUME NEW d \in S PROVE Parent[d] \in S \cup {NoBlock}
    BY DEF Rooted
  <2>1. CASE d = b
    BY <2>1, BranchFacts, ObserverConstants
  <2>2. CASE Parent[b] \in Blocks /\ d \in Branch[Parent[b]]
    BY <2>2, BranchFacts DEF Rooted
  <2> QED
    BY <2>1, <2>2
<1>2. S \in SUBSET Blocks /\ b \in S
  BY BranchFacts
<1>3. c \in S
  <2> HIDE DEF S
  <2> QED BY <1>1, <1>2 DEF Branch
<1> QED
  BY <1>3

\* Below its end a branch has lower blocks.
LEMMA BranchHeights ==
    ASSUME NEW b \in Blocks, NEW c \in Branch[b]
    PROVE  c = b \/ Height[c] < Height[b]
<1> DEFINE S == {d \in Blocks : d = b \/ Height[d] < Height[b]}
<1>1. Rooted(S)
  <2> SUFFICES ASSUME NEW d \in S, Parent[d] # NoBlock PROVE Parent[d] \in S
    BY DEF Rooted
  <2>1. Parent[d] \in Blocks /\ Height[d] = Height[Parent[d]] + 1
    BY ObserverConstants
  <2>2. Height[d] \in Nat /\ Height[Parent[d]] \in Nat /\ Height[b] \in Nat
    BY <2>1, ObserverConstants
  <2> QED
    BY <2>1, <2>2
<1>2. S \in SUBSET Blocks /\ b \in S
  OBVIOUS
<1>3. c \in S
  <2> HIDE DEF S
  <2> QED BY <1>1, <1>2 DEF Branch
<1> QED
  BY <1>3

\* A branch has a block of every number up to its end's.
LEMMA BranchReaches ==
    ASSUME NEW b \in Blocks, NEW n \in Nat, n <= Height[b]
    PROVE  \E c \in Branch[b] : Height[c] = n
<1> DEFINE I == {Height[c] : c \in {d \in Branch[b] : Height[d] >= n}}
           R == OpToRel(<, Nat)
<1>1. Branch[b] \subseteq Blocks /\ b \in Branch[b] /\ Rooted(Branch[b])
  BY BranchFacts
<1>2. Height[b] \in I /\ I \subseteq Nat
  BY <1>1, ObserverConstants
<1>3. PICK m \in I : \A k \in I : ~(<<k, m>> \in R)
  <2> HIDE DEF I, R
  <2> QED BY <1>2, NatLessThanWellFounded, WFMin, Zenon DEF R
<1>4. \A k \in I : ~(k < m)
  <2> SUFFICES ASSUME NEW k \in I, k < m PROVE FALSE
    OBVIOUS
  <2>1. k \in Nat /\ m \in Nat
    BY <1>2
  <2>2. <<k, m>> \in R
    BY <2>1, Zenon DEF OpToRel
  <2> QED BY <2>2, <1>3, Zenon
<1>5. PICK c \in Branch[b] : Height[c] = m /\ m >= n
  BY <1>3
<1>6. CASE Parent[c] = NoBlock
  <2>1. Height[c] = 0
    BY <1>1, <1>6, ObserverConstants
  <2> QED BY <1>5, <2>1
<1>7. CASE Parent[c] # NoBlock
  <2>1. Parent[c] \in Branch[b] /\ Parent[c] \in Blocks
    BY <1>1, <1>7 DEF Rooted
  <2>2. Height[c] = Height[Parent[c]] + 1 /\ Height[Parent[c]] \in Nat
    BY <1>1, <1>7, <2>1, ObserverConstants
  <2>3. CASE m > n
    <3>1. Height[Parent[c]] \in I /\ Height[Parent[c]] < m
      BY <1>5, <2>1, <2>2, <2>3
    <3> QED BY <3>1, <1>4
  <2> QED BY <1>5, <2>2, <2>3
<1> QED
  BY <1>6, <1>7

\* What an endpoint shows for a block number.
LEMMA BlockAtFacts ==
    ASSUME NEW t \in Blocks, NEW n \in Nat
    PROVE  \/ BlockAt(t, n) = NoBlock
           \/ /\ BlockAt(t, n) \in Blocks /\ BlockAt(t, n) \in Branch[t]
              /\ Height[BlockAt(t, n)] = n
<1>1. CASE n > Height[t]
  BY <1>1 DEF BlockAt
<1>2. CASE ~(n > Height[t])
  <2>1. \E c \in Branch[t] : Height[c] = n
    BY <1>2, BranchReaches, ObserverConstants
  <2>2. BlockAt(t, n) \in Branch[t] /\ Height[BlockAt(t, n)] = n
    BY <1>2, <2>1 DEF BlockAt
  <2> QED BY <2>2, BranchFacts
<1> QED
  BY <1>1, <1>2

\* What is mined on a branch is mined on every branch that goes on from it.
LEMMA MinedFacts ==
    ASSUME NEW b \in Blocks
    PROVE  /\ TxsOf[b] \subseteq Mined(b)
           /\ \A c \in Branch[b] : c \in Blocks /\ Mined(c) \subseteq Mined(b)
BY BranchFacts DEF Mined

----------------------------------------------------------------------------
(* Types                                                                   *)

Stages == {"establish", "job", "task", "gone"}

Polls == [phase : {"idle", "head", "tip", "roll", "scan", "receipt"},
          plan : Seq(Providers), seen : SUBSET {"lagging", "failed", "unsupported"},
          head : Nat, end : Nat, back : Nat, resume : BOOLEAN,
          found : Blocks \cup {NoBlock}]

TypeInv ==
    /\ tip \in [Providers -> Blocks]
    /\ stage \in Stages
    /\ poll \in Polls
    /\ registered \in SUBSET Hashes
    /\ nextBlock \in Nat
    /\ history \in Seq(Blocks)
    /\ baseline \in Nat

----------------------------------------------------------------------------
(* The inductive invariant                                                 *)

\* A poll under way has an endpoint to ask, a rollback stands below the end of
\* the history, and the block whose receipts are awaited is on the chain.
PollInv ==
    /\ poll.phase # "idle" => stage \in Pollers /\ poll.plan # <<>>
    /\ poll.phase = "roll" => poll.back \in 1..(Len(history) - 1)
    /\ poll.phase = "receipt" => poll.found \in Blocks /\ Mined(poll.found) \subseteq registered

\* Nothing is mined before it is handed off, and the first block scanned is the
\* one above the baseline.
ChainInv ==
    /\ \A p \in Providers : Mined(tip[p]) \subseteq registered
    /\ \A i \in 1..Len(history) : Mined(history[i]) \subseteq registered
    /\ stage = "establish" => history = <<>> /\ registered = {}
    /\ (stage # "establish" /\ history = <<>>) => nextBlock = baseline + 1

\* No block above the baseline holds an attempt, on the branch that ends at b.
Clean(b) == \A c \in Branch[b] : Height[c] > baseline => TxsOf[c] \cap registered = {}

\* That is so of every retained block, the ones a rollback may return to too.
CleanHistory == inclusion = NoBlock => \A i \in 1..Len(history) : Clean(history[i])

\* The registry knows the attempts registered and no other, and none is pending
\* once the observer is gone.
LookupInv ==
    /\ DOMAIN lookup = Hashes
    /\ \A h \in Hashes : h \in registered <=> lookup[h] # Untracked
    /\ \A h \in Hashes : lookup[h] = Pending => stage # "gone"

IInv == TypeInv /\ PollInv /\ ChainInv /\ CleanHistory /\ LookupInv

----------------------------------------------------------------------------
(* What a step may report                                                  *)

\* Attempt h goes from the classification `before' to lookup'[h].
Reported(h, before) ==
    \/ lookup'[h] = before /\ (before = Pending => stage' # "gone")
    \/ /\ before # Exhausted
       /\ \/ lookup'[h] = Pending /\ h \in registered' /\ stage' # "gone"
          \/ h \in registered /\ lookup'[h] \in {Unavailable, Exhausted}
          \/ /\ h \in registered
             /\ \E b \in Blocks : h \in TxsOf[b] /\ lookup'[h] = Included(b)

Reports(lk) == DOMAIN lookup' = Hashes /\ \A h \in Hashes : Reported(h, lk[h])

\* A lookup from which a result may go on: the registry's, or that of a rollback.
Reportable(lk) ==
    /\ DOMAIN lk = Hashes
    /\ \A h \in Hashes : lk[h] = Pending => h \in registered

\* The poll ends, or asks its next endpoint.
Settles ==
    /\ stage' \in Stages /\ stage' # "establish"
    /\ poll' \in Polls
    /\ poll'.phase \in {"idle", "head"}
    /\ poll'.phase = "head" => stage' \in Pollers /\ poll'.plan # <<>>

LEMMA Kinds ==
    /\ Pending # Untracked /\ Pending # Unavailable /\ Pending # Exhausted
    /\ Unavailable # Untracked /\ Unavailable # Exhausted /\ Exhausted # Untracked
    /\ \A b : Included(b) \notin {Untracked, Pending, Unavailable, Exhausted}
BY DEF Untracked, Pending, Unavailable, Exhausted, Included

LEMMA ToldFacts ==
    ASSUME NEW lk, Reportable(lk), NEW other
    PROVE  /\ DOMAIN Told(lk, other) = Hashes
           /\ \A h \in Hashes : Told(lk, other)[h] =
                IF h \in registered /\ lk[h] # Exhausted THEN other ELSE lk[h]
BY DEF Told, Reportable

LEMMA TailFacts ==
    ASSUME NEW S, NEW s \in Seq(S), Len(s) > 1
    PROVE  /\ Tail(s) \in Seq(S) /\ Len(Tail(s)) = Len(s) - 1 /\ Tail(s) # <<>>
           /\ \A i \in 1..(Len(s) - 1) : Tail(s)[i] = s[i + 1]
<1>1. Tail(s) \in Seq(S) /\ Len(Tail(s)) = Len(s) - 1 /\ \A i \in 1..(Len(s) - 1) : Tail(s)[i] = s[i + 1]
  OBVIOUS
<1>2. Len(Tail(s)) # 0
  BY <1>1
<1> QED
  BY <1>1, <1>2

\* poll returned an error.
LEMMA PollFailsSettles ==
    ASSUME NEW lk, Reportable(lk), stage \in Pollers, PollFails(lk)
    PROVE  Settles /\ Reports(lk)
<1>1. NoPoll \in Polls /\ NoPoll.phase = "idle"
  BY DEF NoPoll, Polls
<1>2. Settles
  BY <1>1 DEF Settles, PollFails, Stages, Pollers
<1>3. CASE stage = "task"
  <2> DEFINE mid == Told(lk, Unavailable)
  <2>1. /\ DOMAIN mid = Hashes
        /\ \A h \in Hashes : mid[h] = IF h \in registered /\ lk[h] # Exhausted THEN Unavailable ELSE lk[h]
    BY ToldFacts
  <2>2. Reportable(mid)
    BY <2>1, Kinds DEF Reportable
  <2>3. lookup' = Told(mid, Exhausted)
    BY <1>3 DEF PollFails
  <2> HIDE DEF mid
  <2>4. /\ DOMAIN lookup' = Hashes
        /\ \A h \in Hashes : lookup'[h] = IF h \in registered /\ mid[h] # Exhausted THEN Exhausted ELSE mid[h]
    BY <2>2, <2>3, ToldFacts
  <2> QED
    BY <1>2, <2>1, <2>4, Kinds DEF Reports, Reported, Reportable
<1>4. CASE stage # "task"
  <2>1. lookup' = Told(lk, Unavailable) /\ stage' = "task"
    BY <1>4 DEF PollFails
  <2>2. /\ DOMAIN lookup' = Hashes
        /\ \A h \in Hashes : lookup'[h] = IF h \in registered /\ lk[h] # Exhausted THEN Unavailable ELSE lk[h]
    BY <2>1, ToldFacts
  <2> QED
    BY <1>2, <2>1, <2>2, Kinds DEF Reports, Reported
<1> QED
  BY <1>3, <1>4

\* The current endpoint fails.
LEMMA NextProviderSettles ==
    ASSUME NEW lk, Reportable(lk), poll \in Polls, stage \in Pollers, poll.plan # <<>>,
           NEW why \in {"lagging", "failed", "unsupported"}, NextProvider(why, lk)
    PROVE  Settles /\ Reports(lk)
<1> DEFINE outcomes == poll.seen \cup {why}
           told == IF outcomes # {"lagging"} THEN Told(lk, Unavailable) ELSE lk
<1>1. stage # "gone" /\ stage # "establish"
  BY DEF Pollers
<1>2. CASE Len(poll.plan) > 1
  <2>1. /\ poll' = [NoPoll EXCEPT !.phase = "head", !.plan = Tail(poll.plan), !.seen = outcomes]
        /\ lookup' = lk /\ stage' = stage
    BY <1>2 DEF NextProvider
  <2>2. Tail(poll.plan) \in Seq(Providers) /\ Tail(poll.plan) # <<>>
    <3>1. poll.plan \in Seq(Providers)
      BY DEF Polls
    <3> QED BY <1>2, <3>1, TailFacts
  <2>3. outcomes \in SUBSET {"lagging", "failed", "unsupported"}
    BY DEF Polls
  <2>4. poll' \in Polls /\ poll'.phase = "head" /\ poll'.plan # <<>>
    <3> HIDE DEF outcomes
    <3> QED BY <2>1, <2>2, <2>3 DEF NoPoll, Polls
  <2> QED
    BY <1>1, <2>1, <2>4 DEF Settles, Reports, Reported, Reportable, Stages, Pollers
<1>3. CASE ~(Len(poll.plan) > 1)
  <2>1. \/ poll' = NoPoll /\ lookup' = told /\ stage' = stage
        \/ PollFails(told)
    BY <1>3 DEF NextProvider
  <2>2. /\ Reportable(told)
        /\ \A h \in Hashes : told[h] = lk[h] \/ (h \in registered /\ lk[h] # Exhausted /\ told[h] = Unavailable)
    BY ToldFacts, Kinds DEF Reportable
  <2> HIDE DEF told
  <2>3. CASE poll' = NoPoll /\ lookup' = told /\ stage' = stage
    <3>1. poll' \in Polls /\ poll'.phase = "idle"
      BY <2>3 DEF NoPoll, Polls
    <3> QED
      BY <1>1, <2>2, <2>3, <3>1, Kinds DEF Settles, Reports, Reported, Reportable, Stages, Pollers
  <2>4. CASE PollFails(told)
    <3>1. Settles /\ Reports(told)
      BY <2>2, <2>4, PollFailsSettles
    <3> QED
      BY <2>2, <3>1, Kinds DEF Reports, Reported
  <2> QED
    BY <2>1, <2>3, <2>4
<1> QED
  BY <1>2, <1>3

----------------------------------------------------------------------------
(* Polls that settle                                                       *)

LEMMA LookupReportable == TypeInv /\ LookupInv => Reportable(lookup)
BY Kinds DEF TypeInv, LookupInv, Reportable

\* A rollback first makes every attempt pending again, and reports from there.
LEMMA PendingAgain ==
    ASSUME TypeInv, LookupInv
    PROVE  /\ Reportable(Told(lookup, Pending))
           /\ \A h \in Hashes : Told(lookup, Pending)[h] =
                IF h \in registered /\ lookup[h] # Exhausted THEN Pending ELSE lookup[h]
<1>1. Reportable(lookup)
  BY LookupReportable
<1>2. /\ DOMAIN Told(lookup, Pending) = Hashes
      /\ \A h \in Hashes : Told(lookup, Pending)[h] =
           IF h \in registered /\ lookup[h] # Exhausted THEN Pending ELSE lookup[h]
  BY <1>1, ToldFacts
<1> QED
  BY <1>1, <1>2 DEF Reportable

LEMMA ReportsAfterPending ==
    ASSUME TypeInv, LookupInv, registered' = registered, Reports(Told(lookup, Pending))
    PROVE  Reports(lookup)
<1> SUFFICES ASSUME NEW h \in Hashes PROVE Reported(h, lookup[h])
  BY DEF Reports
<1>1. Reported(h, Told(lookup, Pending)[h])
  BY DEF Reports
<1>2. \/ Told(lookup, Pending)[h] = lookup[h]
      \/ Told(lookup, Pending)[h] = Pending /\ h \in registered /\ lookup[h] # Exhausted
  BY PendingAgain
<1> QED
  BY <1>1, <1>2, Kinds DEF Reported

LEMMA LagsSettles ==
    ASSUME TypeInv, LookupInv, stage \in Pollers, poll.plan # <<>>, Lags
    PROVE  Settles /\ Reports(lookup)
BY LookupReportable, NextProviderSettles DEF Lags, TypeInv

LEMMA UnsupportsSettles ==
    ASSUME TypeInv, LookupInv, stage \in Pollers, poll.plan # <<>>, Unsupports
    PROVE  Settles /\ Reports(lookup)
BY LookupReportable, NextProviderSettles DEF Unsupports, TypeInv

LEMMA FailsSettles ==
    ASSUME TypeInv, LookupInv, stage \in Pollers, poll.plan # <<>>,
           registered' = registered,
           Fails(lookup) \/ Fails(Told(lookup, Pending))
    PROVE  Settles /\ Reports(lookup)
<1>0. stage # "gone" /\ poll \in Polls
  BY DEF Pollers, TypeInv
<1>1. CASE Fails(lookup)
  BY <1>0, <1>1, LookupReportable, NextProviderSettles DEF Fails
<1>2. CASE Fails(Told(lookup, Pending))
  <2>1. Reportable(Told(lookup, Pending))
    BY <1>0, PendingAgain
  <2>2. Settles /\ Reports(Told(lookup, Pending))
    BY <1>0, <1>2, <2>1, NextProviderSettles DEF Fails
  <2> QED
    BY <2>2, ReportsAfterPending
<1> QED
  BY <1>1, <1>2

LEMMA AdvancesSettles ==
    ASSUME TypeInv, LookupInv, stage \in Pollers, registered' = registered, Advances
    PROVE  Settles /\ Reports(lookup)
<1>1. /\ DOMAIN lookup' = Hashes
      /\ \A h \in Hashes : lookup'[h] = IF h \in registered /\ lookup[h] # Exhausted THEN Pending ELSE lookup[h]
  BY LookupReportable, ToldFacts DEF Advances
<1>2. stage' = stage /\ stage \in Stages /\ stage # "gone" /\ stage # "establish"
  BY DEF Advances, TypeInv, Pollers
<1>3. poll' \in Polls /\ poll'.phase = "idle"
  BY DEF Advances, NoPoll, Polls
<1> QED
  BY <1>1, <1>2, <1>3 DEF Settles, Reports, Reported

\* A poll that goes on reports nothing.
LEMMA AwaitsReports ==
    ASSUME TypeInv, LookupInv, stage \in Pollers, NEW p, Awaits(p)
    PROVE  Reports(lookup) /\ stage' = stage /\ poll' = p
BY DEF Awaits, Reports, Reported, LookupInv, Pollers

\* The scan begins, or the endpoint only lags.
LEMMA BeginScanSettles ==
    ASSUME TypeInv, LookupInv, stage \in Pollers, poll.plan # <<>>,
           NEW n \in Nat, NEW first \in Nat, BeginScan(n, first)
    PROVE  /\ Reports(lookup)
           /\ Settles \/ (stage' = stage /\ poll' \in Polls /\ poll'.phase = "scan"
                            /\ poll'.plan # <<>>)
<1> DEFINE last == first + MaxBlocksPerPoll - 1
           end == IF n < last THEN n ELSE last
<1>1. CASE n < first
  BY <1>1, LagsSettles DEF BeginScan
<1>2. CASE ~(n < first)
  <2>1. Awaits([poll EXCEPT !.phase = "scan", !.end = end])
    BY <1>2 DEF BeginScan
  <2>2. end \in Nat
    BY ObserverConstants
  <2> HIDE DEF end
  <2>3. [poll EXCEPT !.phase = "scan", !.end = end] \in Polls
    BY <2>2 DEF Polls, TypeInv
  <2>4. /\ [poll EXCEPT !.phase = "scan", !.end = end].phase = "scan"
        /\ [poll EXCEPT !.phase = "scan", !.end = end].plan = poll.plan
    BY DEF Polls, TypeInv
  <2> QED
    BY <2>1, <2>3, <2>4, AwaitsReports
<1> QED
  BY <1>1, <1>2

\* The rollback begins, or the endpoint fails.
LEMMA BeginRollbackSettles ==
    ASSUME TypeInv, LookupInv, stage \in Pollers, poll.plan # <<>>, registered' = registered,
           NEW scanAfter \in BOOLEAN, BeginRollback(scanAfter)
    PROVE  /\ Reports(lookup)
           /\ Settles \/ (/\ stage' = stage /\ poll' \in Polls /\ poll'.phase = "roll"
                          /\ poll'.plan # <<>> /\ poll'.back \in 1..(Len(history) - 1))
<1>1. CASE Len(history) < 2
  BY <1>1, FailsSettles DEF BeginRollback
<1>2. CASE ~(Len(history) < 2)
  <2>1. /\ poll' = [poll EXCEPT !.phase = "roll", !.back = Len(history) - 1, !.resume = scanAfter]
        /\ lookup' = Told(lookup, Pending) /\ stage' = stage
    BY <1>2 DEF BeginRollback
  <2>2. Len(history) \in Nat /\ Len(history) - 1 \in Nat /\ Len(history) - 1 \in 1..(Len(history) - 1)
    BY <1>2 DEF TypeInv
  <2>3. /\ poll' \in Polls /\ poll'.phase = "roll" /\ poll'.plan = poll.plan
        /\ poll'.back = Len(history) - 1
    BY <2>1, <2>2 DEF Polls, TypeInv
  <2>4. /\ DOMAIN lookup' = Hashes
        /\ \A h \in Hashes : lookup'[h] = IF h \in registered /\ lookup[h] # Exhausted THEN Pending ELSE lookup[h]
    BY <2>1, LookupReportable, ToldFacts
  <2>5. Reports(lookup)
    BY <2>1, <2>4 DEF Reports, Reported, Pollers
  <2> QED
    BY <2>1, <2>2, <2>3, <2>5
<1> QED
  BY <1>1, <1>2

----------------------------------------------------------------------------
(* Every step keeps the invariant and reports as promised                  *)

Kept == IInv' /\ Reports(lookup)

\* The registry's part of the invariant follows from what a step reports.
LEMMA LookupKept ==
    ASSUME TypeInv, LookupInv, Reports(lookup), registered \subseteq registered',
           registered' \subseteq Hashes,
           \A h \in registered' \ registered : lookup'[h] = Pending
    PROVE  LookupInv'
<1>1. ASSUME NEW h \in Hashes PROVE h \in registered' <=> lookup'[h] # Untracked
  <2>1. Reported(h, lookup[h]) /\ (h \in registered <=> lookup[h] # Untracked)
    BY DEF Reports, LookupInv
  <2> QED
    BY <2>1, Kinds DEF Reported
<1>2. ASSUME NEW h \in Hashes, lookup'[h] = Pending PROVE stage' # "gone"
  <2>1. Reported(h, lookup[h])
    BY DEF Reports
  <2> QED
    BY <1>2, <2>1, Kinds DEF Reported
<1> QED
  BY <1>1, <1>2 DEF LookupInv, Reports

\* The history grows by a block of the chain, and is cut at its old end.
LEMMA RecordedFacts ==
    ASSUME TypeInv, NEW b \in Blocks
    PROVE  /\ Recorded(b) \in Seq(Blocks) /\ Recorded(b) # <<>>
           /\ \A i \in 1..Len(Recorded(b)) :
                Recorded(b)[i] = b \/ \E j \in 1..Len(history) : Recorded(b)[i] = history[j]
<1> DEFINE h == Append(history, b)
<1>1. /\ h \in Seq(Blocks) /\ Len(h) = Len(history) + 1 /\ Len(history) \in Nat
      /\ h[Len(history) + 1] = b /\ \A i \in 1..Len(history) : h[i] = history[i]
  BY DEF TypeInv
<1>2. \A i \in 1..Len(h) : h[i] = b \/ \E j \in 1..Len(history) : h[i] = history[j]
  BY <1>1
<1>3. Recorded(b) = IF Len(h) > FinalityDepth + 1 THEN Tail(h) ELSE h
  BY DEF Recorded
<1> HIDE DEF h
<1>4. CASE Len(h) > FinalityDepth + 1
  <2>1. Len(h) > 1 /\ Recorded(b) = Tail(h)
    BY <1>1, <1>3, <1>4, ObserverConstants
  <2>2. /\ Tail(h) \in Seq(Blocks) /\ Len(Tail(h)) = Len(h) - 1 /\ Tail(h) # <<>>
        /\ \A i \in 1..(Len(h) - 1) : Tail(h)[i] = h[i + 1]
    BY <1>1, <2>1, TailFacts
  <2>3. \A i \in 1..(Len(h) - 1) : i + 1 \in 1..Len(h)
    BY <1>1
  <2> QED
    BY <1>2, <2>1, <2>2, <2>3
<1>5. CASE ~(Len(h) > FinalityDepth + 1)
  <2>1. h # <<>>
    BY <1>1
  <2> QED
    BY <1>1, <1>2, <1>3, <1>5, <2>1
<1> QED
  BY <1>4, <1>5

\* A step of a poll that leaves the registered attempts and the endpoints' tips
\* alone keeps the invariant when what the history gains is on the chain and
\* clean.
LEMMA ChainKept ==
    ASSUME IInv, stage \in Pollers, stage' \in Stages, stage' # "establish",
           tip' = tip, registered' = registered, baseline' = baseline,
           history' \in Seq(Blocks), nextBlock' \in Nat, poll' \in Polls,
           \A i \in 1..Len(history') :
              \/ \E j \in 1..Len(history) : history'[i] = history[j]
              \/ /\ Mined(history'[i]) \subseteq registered
                 /\ inclusion' = NoBlock => Clean(history'[i]),
           history' = <<>> => history = <<>> /\ nextBlock' = nextBlock,
           inclusion' = inclusion \/ inclusion' # NoBlock
    PROVE  TypeInv' /\ ChainInv' /\ CleanHistory'
<1>1. TypeInv'
  BY DEF IInv, TypeInv
<1>2. ChainInv'
  BY DEF IInv, ChainInv, Mined, Pollers
<1>3. CleanHistory'
  <2> SUFFICES ASSUME inclusion' = NoBlock, NEW i \in 1..Len(history')
               PROVE  Clean(history'[i])
    BY DEF CleanHistory, Clean
  <2>1. CASE \E j \in 1..Len(history) : history'[i] = history[j]
    BY <2>1 DEF IInv, CleanHistory
  <2> QED
    BY <2>1
<1> QED
  BY <1>1, <1>2, <1>3

\* A request of a poll that changes neither the history nor what is registered.
LEMMA RequestKept ==
    ASSUME IInv, stage \in Pollers, Reports(lookup),
           UNCHANGED <<tip, registered, baseline, history, nextBlock, inclusion>>,
           \/ Settles
           \/ /\ stage' = stage /\ poll' \in Polls /\ poll'.plan # <<>>
              /\ poll'.phase = "roll" => poll'.back \in 1..(Len(history) - 1)
              /\ poll'.phase = "receipt" =>
                   poll'.found \in Blocks /\ Mined(poll'.found) \subseteq registered
    PROVE  Kept
<1>1. stage' \in Stages /\ stage' # "establish" /\ poll' \in Polls
  BY DEF Settles, Pollers, Stages
<1>2. TypeInv' /\ ChainInv' /\ CleanHistory'
  BY <1>1, ChainKept DEF IInv, TypeInv
<1>3. PollInv'
  BY DEF PollInv, Settles, Mined
<1>4. LookupInv'
  BY LookupKept DEF IInv, TypeInv
<1> QED
  BY <1>2, <1>3, <1>4 DEF Kept, IInv

LEMMA MoveTipStep ==
    ASSUME IInv, NEW p \in Providers, NEW b \in Blocks, MoveTip(p, b)
    PROVE  Kept
<1>1. /\ tip' = [tip EXCEPT ![p] = b] /\ Mined(b) \subseteq registered /\ stage # "gone"
      /\ UNCHANGED <<faults, stage, poll, registered, nextBlock, history, unsupported,
                     bad, active, inclusion, lookup, baseline>>
  BY DEF MoveTip
<1>2. TypeInv'
  BY <1>1 DEF IInv, TypeInv
<1>3. \A q \in Providers : tip'[q] = b \/ tip'[q] = tip[q]
  BY <1>1 DEF IInv, TypeInv
<1>4. ChainInv'
  BY <1>1, <1>3 DEF IInv, ChainInv, Mined
<1>5. PollInv' /\ CleanHistory' /\ LookupInv' /\ Reports(lookup)
  BY <1>1 DEF IInv, PollInv, CleanHistory, Clean, LookupInv, Mined, Reports, Reported
<1> QED
  BY <1>2, <1>4, <1>5 DEF Kept, IInv

LEMMA EstablishStep ==
    ASSUME IInv, NEW p \in Providers, Establish(p)
    PROVE  Kept
<1>1. /\ stage = "establish" /\ stage' = "job" /\ history = <<>> /\ registered = {}
      /\ baseline' = Height[tip[p]] /\ nextBlock' = Height[tip[p]] + 1
      /\ registered' = {Original} /\ lookup' = [lookup EXCEPT ![Original] = Pending]
      /\ UNCHANGED <<tip, poll, history, inclusion>>
  BY DEF Establish, IInv, ChainInv
<1>2. Original \in Hashes /\ Height[tip[p]] \in Nat
  BY ObserverConstants DEF IInv, TypeInv
<1>3. TypeInv'
  BY <1>1, <1>2 DEF IInv, TypeInv, Stages
<1>4. Len(history) = 0
  BY <1>1
<1>5. ChainInv' /\ CleanHistory'
  <2>1. \A q \in Providers : Mined(tip'[q]) \subseteq registered'
    BY <1>1 DEF IInv, ChainInv
  <2>2. stage' # "establish" /\ nextBlock' = baseline' + 1 /\ Len(history') = 0
    BY <1>1, <1>4
  <2> QED
    BY <2>1, <2>2 DEF ChainInv, CleanHistory, Mined
<1>6. poll'.phase = "idle"
  BY <1>1 DEF IInv, PollInv, Pollers
<1>7. PollInv'
  BY <1>6 DEF PollInv
<1>8. \A h \in Hashes : lookup[h] = Untracked /\ lookup'[h] = IF h = Original THEN Pending ELSE lookup[h]
  BY <1>1 DEF IInv, LookupInv
<1>9. Reports(lookup)
  BY <1>1, <1>8, Kinds DEF IInv, LookupInv, Reports, Reported
<1>10. LookupInv'
  BY <1>1, <1>2, <1>8, <1>9, LookupKept DEF IInv
<1> QED
  BY <1>3, <1>5, <1>7, <1>9, <1>10 DEF Kept, IInv

\* What is retained holds no attempt that was not registered before.
LEMMA RegisterStep ==
    ASSUME IInv, NEW h \in Hashes, Register(h)
    PROVE  Kept
<1>1. /\ stage = "job" /\ stage' = stage /\ h \notin registered /\ poll = NoPoll
      /\ registered' = registered \cup {h} /\ lookup' = [lookup EXCEPT ![h] = Pending]
      /\ UNCHANGED <<tip, poll, nextBlock, history, inclusion, baseline>>
  BY DEF Register
<1>2. TypeInv'
  BY <1>1 DEF IInv, TypeInv
<1>3. ChainInv'
  BY <1>1 DEF IInv, ChainInv, Mined
<1>4. CleanHistory'
  <2> SUFFICES ASSUME inclusion = NoBlock, NEW i \in 1..Len(history),
                      NEW c \in Branch[history[i]], Height[c] > baseline
               PROVE  TxsOf[c] \cap registered' = {}
    BY <1>1 DEF CleanHistory, Clean
  <2>1. history[i] \in Blocks /\ Mined(history[i]) \subseteq registered
    BY DEF IInv, TypeInv, ChainInv
  <2>2. TxsOf[c] \subseteq registered
    BY <2>1, MinedFacts
  <2>3. TxsOf[c] \cap registered = {}
    BY DEF IInv, CleanHistory, Clean
  <2> QED
    BY <1>1, <2>2, <2>3
<1>5. poll'.phase = "idle"
  BY <1>1 DEF NoPoll
<1>6. PollInv'
  BY <1>5 DEF PollInv
<1>7. \A g \in Hashes : lookup'[g] = IF g = h THEN Pending ELSE lookup[g]
  BY <1>1 DEF IInv, LookupInv
<1>8. lookup[h] = Untracked
  BY <1>1 DEF IInv, LookupInv
<1>9. Reports(lookup)
  BY <1>1, <1>7, <1>8, Kinds DEF IInv, LookupInv, Reports, Reported
<1>10. LookupInv'
  BY <1>1, <1>7, <1>9, LookupKept DEF IInv, TypeInv
<1> QED
  BY <1>2, <1>3, <1>4, <1>6, <1>9, <1>10 DEF Kept, IInv

\* The order of a poll asks every endpoint of a pool that offers one.
LEMMA PlanFacts ==
    ASSUME NEW S \in SUBSET Providers, S # {}, NEW first, NEW plan \in Plans(S, first)
    PROVE  plan \in Seq(Providers) /\ plan # <<>>
<1>1. IsFiniteSet(S)
  BY ObserverConstants, FS_Subset
<1>2. Cardinality(S) \in Nat /\ Cardinality(S) # 0
  BY <1>1, FS_CardinalityType, FS_EmptySet
<1>3. plan \in [1..Cardinality(S) -> Providers]
  BY DEF Plans
<1>4. plan \in Seq(Providers) /\ Len(plan) = Cardinality(S)
  BY <1>2, <1>3
<1> QED
  BY <1>2, <1>4

LEMMA BeginPollStep ==
    ASSUME IInv, NEW S \in SUBSET Providers, BeginPoll(S)
    PROVE  Kept
<1>1. /\ stage \in Pollers
      /\ UNCHANGED <<tip, registered, nextBlock, history, inclusion, baseline>>
  BY DEF BeginPoll
<1>2. CASE S = {}
  <2>1. PollFails(lookup)
    BY <1>2 DEF BeginPoll
  <2>2. Settles /\ Reports(lookup)
    BY <1>1, <2>1, PollFailsSettles, LookupReportable DEF IInv
  <2> QED
    BY <1>1, <2>2, RequestKept
<1>3. CASE S # {}
  <2>1. PICK plan \in Plans(S, active) :
             poll' = [NoPoll EXCEPT !.phase = "head", !.plan = plan]
    BY <1>3 DEF BeginPoll
  <2>2. plan \in Seq(Providers) /\ plan # <<>>
    BY <1>3, PlanFacts
  <2>3. poll' \in Polls /\ poll'.phase = "head" /\ poll'.plan # <<>>
    BY <2>1, <2>2 DEF NoPoll, Polls
  <2>4. stage' = stage /\ lookup' = lookup
    BY <1>3 DEF BeginPoll
  <2>5. Reports(lookup)
    BY <1>1, <2>4 DEF Reports, Reported, IInv, LookupInv, Pollers
  <2> QED
    BY <1>1, <2>3, <2>4, <2>5, RequestKept
<1> QED
  BY <1>2, <1>3

\* A poll under way polls an endpoint for the job or the task.
LEMMA PollUnderWay ==
    ASSUME IInv, poll.phase # "idle"
    PROVE  /\ TypeInv /\ LookupInv /\ stage \in Pollers /\ poll \in Polls
           /\ poll.plan # <<>> /\ Current \in Providers /\ tip[Current] \in Blocks
<1>1. poll.plan \in Seq(Providers) /\ poll.plan # <<>>
  BY DEF IInv, PollInv, TypeInv, Polls
<1>2. Current \in Providers
  BY <1>1 DEF Current
<1> QED
  BY <1>1, <1>2 DEF IInv, TypeInv, PollInv

LEMMA FetchHeadStep ==
    ASSUME IInv, FetchHead
    PROVE  Kept
<1>1. /\ poll.phase = "head"
      /\ UNCHANGED <<tip, registered, nextBlock, history, inclusion, baseline>>
  BY DEF FetchHead
<1>2. /\ TypeInv /\ LookupInv /\ stage \in Pollers /\ poll \in Polls
      /\ poll.plan # <<>> /\ tip[Current] \in Blocks
  BY <1>1, PollUnderWay
<1>3. Height[tip[Current]] \in Nat /\ nextBlock \in Nat
  BY <1>2, ObserverConstants DEF TypeInv
<1>4. CASE history = <<>>
  <2>1. BeginScan(Height[tip[Current]], nextBlock)
    BY <1>4 DEF FetchHead
  <2>2. /\ Reports(lookup)
        /\ Settles \/ (stage' = stage /\ poll' \in Polls /\ poll'.phase = "scan"
                         /\ poll'.plan # <<>>)
    BY <1>2, <1>3, <2>1, BeginScanSettles
  <2> QED
    BY <1>1, <1>2, <2>2, RequestKept
<1>5. CASE history # <<>>
  <2>1. Awaits([poll EXCEPT !.phase = "tip", !.head = Height[tip[Current]]])
    BY <1>5 DEF FetchHead
  <2>2. /\ Reports(lookup) /\ stage' = stage
        /\ poll' = [poll EXCEPT !.phase = "tip", !.head = Height[tip[Current]]]
    BY <1>2, <2>1, AwaitsReports
  <2>3. poll' \in Polls /\ poll'.phase = "tip" /\ poll'.plan # <<>>
    BY <1>2, <1>3, <2>2 DEF Polls
  <2> QED
    BY <1>1, <1>2, <2>2, <2>3, RequestKept
<1> QED
  BY <1>4, <1>5

LEMMA CheckTipStep ==
    ASSUME IInv, CheckTip
    PROVE  Kept
<1>1. /\ poll.phase = "tip"
      /\ UNCHANGED <<tip, registered, nextBlock, history, inclusion, baseline>>
  BY DEF CheckTip
<1>2. /\ TypeInv /\ LookupInv /\ stage \in Pollers /\ poll \in Polls
      /\ poll.plan # <<>> /\ nextBlock \in Nat /\ poll.head \in Nat
  BY <1>1, PollUnderWay DEF TypeInv, Polls
<1>3. \/ BeginScan(poll.head, nextBlock) \/ Lags \/ Fails(lookup) \/ BeginRollback(TRUE)
  BY DEF CheckTip
<1>4. CASE BeginScan(poll.head, nextBlock)
  <2>1. /\ Reports(lookup)
        /\ Settles \/ (stage' = stage /\ poll' \in Polls /\ poll'.phase = "scan"
                         /\ poll'.plan # <<>>)
    BY <1>2, <1>4, BeginScanSettles
  <2> QED
    BY <1>1, <1>2, <2>1, RequestKept
<1>5. CASE Lags
  BY <1>1, <1>2, <1>5, LagsSettles, RequestKept
<1>6. CASE Fails(lookup)
  BY <1>1, <1>2, <1>6, FailsSettles, RequestKept
<1>7. CASE BeginRollback(TRUE)
  <2>1. /\ Reports(lookup)
        /\ Settles \/ (/\ stage' = stage /\ poll' \in Polls /\ poll'.phase = "roll"
                       /\ poll'.plan # <<>> /\ poll'.back \in 1..(Len(history) - 1))
    BY <1>1, <1>2, <1>7, BeginRollbackSettles
  <2> QED
    BY <1>1, <1>2, <2>1, RequestKept
<1> QED
  BY <1>3, <1>4, <1>5, <1>6, <1>7

\* Whatever is left of the history after a rollback was in it before.
LEMMA RollbackStep ==
    ASSUME IInv, Rollback
    PROVE  Kept
<1> DEFINE old == history[poll.back]
           b == BlockAt(tip[Current], Height[old])
<1>1. /\ poll.phase = "roll"
      /\ UNCHANGED <<tip, registered, inclusion, baseline>>
  BY DEF Rollback
<1>2. /\ TypeInv /\ LookupInv /\ stage \in Pollers /\ poll \in Polls
      /\ poll.plan # <<>> /\ poll.head \in Nat
  BY <1>1, PollUnderWay DEF Polls
<1>3. poll.back \in 1..(Len(history) - 1) /\ history \in Seq(Blocks) /\ Len(history) \in Nat
  BY <1>1 DEF IInv, PollInv, TypeInv
<1>4. old \in Blocks /\ Height[old] \in Nat
  <2>1. poll.back \in 1..Len(history)
    BY <1>3
  <2> QED BY <1>3, <2>1, ObserverConstants
<1>5. \/ /\ b = old
         /\ history' = SubSeq(history, 1, poll.back)
         /\ nextBlock' = Height[b] + 1
         /\ IF poll.resume THEN BeginScan(poll.head, nextBlock') ELSE Advances
      \/ Fails(lookup) /\ UNCHANGED chainVars
      \/ /\ poll.back > 1 /\ UNCHANGED chainVars
         /\ Awaits([poll EXCEPT !.back = @ - 1])
  BY Zenon DEF Rollback
<1> HIDE DEF b, old
<1>6. CASE /\ b = old
           /\ history' = SubSeq(history, 1, poll.back)
           /\ nextBlock' = Height[b] + 1
           /\ IF poll.resume THEN BeginScan(poll.head, nextBlock') ELSE Advances
  <2>1. nextBlock' \in Nat
    BY <1>4, <1>6
  <2>2. /\ Reports(lookup)
        /\ Settles \/ (stage' = stage /\ poll' \in Polls /\ poll'.phase = "scan"
                         /\ poll'.plan # <<>>)
    <3>1. CASE poll.resume
      BY <1>2, <1>6, <2>1, <3>1, BeginScanSettles
    <3>2. CASE ~poll.resume
      BY <1>1, <1>2, <1>6, <3>2, AdvancesSettles
    <3> QED
      BY <3>1, <3>2
  <2>3. /\ history' \in Seq(Blocks) /\ Len(history') = poll.back
        /\ \A i \in 1..poll.back : history'[i] = history[i] /\ i \in 1..Len(history)
    <3>1. poll.back \in 1..Len(history)
      BY <1>3
    <3>2. \A i \in 1..poll.back : i \in 1..Len(history)
      BY <1>3
    <3>3. \A i \in 1..poll.back : history[i] \in Blocks
      BY <1>3, <3>2
    <3> QED
      BY <1>3, <1>6, <3>1, <3>2, <3>3
  <2>4. history' # <<>>
    BY <1>3, <2>3
  <2>5. stage' \in Stages /\ stage' # "establish" /\ poll' \in Polls
    BY <1>2, <2>2 DEF Settles, Pollers, Stages
  <2>6. TypeInv' /\ ChainInv' /\ CleanHistory'
    <3>1. baseline' = baseline /\ tip' = tip /\ registered' = registered /\ inclusion' = inclusion
      BY <1>1
    <3>2. \A i \in 1..Len(history') : \E j \in 1..Len(history) : history'[i] = history[j]
      BY <2>3
    <3> QED
      BY <1>2, <2>1, <2>3, <2>4, <2>5, <3>1, <3>2, ChainKept
  <2>7. PollInv'
    BY <1>2, <2>2 DEF PollInv, Settles
  <2>8. LookupInv'
    BY <1>1, <1>2, <2>2, LookupKept DEF TypeInv
  <2> QED
    BY <2>2, <2>6, <2>7, <2>8 DEF Kept, IInv
<1>7. CASE Fails(lookup) /\ UNCHANGED chainVars
  <2>1. Settles /\ Reports(lookup)
    BY <1>1, <1>2, <1>7, FailsSettles
  <2> QED
    BY <1>1, <1>2, <1>7, <2>1, RequestKept DEF chainVars
<1>8. CASE poll.back > 1 /\ UNCHANGED chainVars /\ Awaits([poll EXCEPT !.back = @ - 1])
  <2>1. Reports(lookup) /\ stage' = stage /\ poll' = [poll EXCEPT !.back = @ - 1]
    BY <1>2, <1>8, AwaitsReports
  <2>2. poll.back - 1 \in Nat /\ poll.back - 1 \in 1..(Len(history) - 1)
    BY <1>3, <1>8
  <2>3. /\ poll' \in Polls /\ poll'.plan # <<>> /\ poll'.back = poll.back - 1
        /\ poll'.phase = "roll"
    BY <1>1, <1>2, <2>1, <2>2 DEF Polls
  <2> QED
    BY <1>1, <1>2, <1>8, <2>1, <2>2, <2>3, RequestKept DEF chainVars
<1> QED
  BY <1>5, <1>6, <1>7, <1>8

\* A block that continues the recorded history, and holds no attempt itself, ends
\* a branch without attempts above the baseline.
LEMMA NextClean ==
    ASSUME IInv, stage \in Pollers, inclusion = NoBlock, NEW b \in Blocks,
           Height[b] = nextBlock, ~Forks(b), TxsOf[b] \cap registered = {}
    PROVE  Clean(b)
<1> SUFFICES ASSUME NEW c \in Branch[b], Height[c] > baseline, c # b
             PROVE  TxsOf[c] \cap registered = {}
  BY DEF Clean
<1>1. CASE history = <<>>
  <2>1. nextBlock = baseline + 1 /\ baseline \in Nat
    BY <1>1 DEF IInv, ChainInv, TypeInv, Pollers
  <2>2. Height[c] < Height[b] /\ Height[c] \in Nat
    BY BranchHeights, BranchFacts, ObserverConstants
  <2> QED
    BY <2>1, <2>2
<1>2. CASE history # <<>>
  <2>1. Parent[b] = LastRecorded
    BY <1>2 DEF Forks
  <2>2. c \in Branch[LastRecorded]
    BY <2>1, BranchOfParent
  <2>3. Len(history) \in 1..Len(history)
    BY <1>2 DEF IInv, TypeInv
  <2>4. Clean(LastRecorded)
    BY <2>3 DEF IInv, CleanHistory, LastRecorded
  <2> QED
    BY <2>2, <2>4 DEF Clean
<1> QED
  BY <1>1, <1>2

LEMMA ScanStep ==
    ASSUME IInv, Scan
    PROVE  Kept
<1> DEFINE b == BlockAt(tip[Current], nextBlock)
           ours == TxsOf[b] \cap registered
<1>1. /\ poll.phase = "scan"
      /\ UNCHANGED <<tip, registered, inclusion, baseline>>
  BY DEF Scan
<1>2. /\ TypeInv /\ LookupInv /\ stage \in Pollers /\ poll \in Polls
      /\ poll.plan # <<>> /\ Current \in Providers /\ tip[Current] \in Blocks
  BY <1>1, PollUnderWay
<1>3. b = NoBlock \/ (b \in Blocks /\ b \in Branch[tip[Current]] /\ Height[b] = nextBlock)
  BY <1>2, BlockAtFacts DEF TypeInv
<1>4. b \in Blocks => Mined(b) \subseteq registered
  <2>1. Mined(tip[Current]) \subseteq registered
    BY <1>2 DEF IInv, ChainInv
  <2> QED
    BY <1>2, <1>3, <2>1, MinedFacts, ObserverConstants
<1>5. \/ Fails(lookup) /\ UNCHANGED chainVars
      \/ BeginRollback(FALSE) /\ UNCHANGED chainVars
      \/ Unsupports /\ UNCHANGED chainVars
      \/ Awaits([poll EXCEPT !.phase = "receipt", !.found = b]) /\ b # NoBlock /\ UNCHANGED chainVars
      \/ /\ b # NoBlock /\ ~Forks(b) /\ ours = {}
         /\ history' = Recorded(b) /\ nextBlock' = nextBlock + 1
         /\ IF nextBlock = poll.end THEN Advances ELSE Awaits(poll)
  BY Zenon DEF Scan
<1> HIDE DEF b
<1>6. CASE Fails(lookup) /\ UNCHANGED chainVars
  <2>1. Settles /\ Reports(lookup)
    BY <1>1, <1>2, <1>6, FailsSettles
  <2> QED
    BY <1>1, <1>2, <1>6, <2>1, RequestKept DEF chainVars
<1>7. CASE BeginRollback(FALSE) /\ UNCHANGED chainVars
  <2>1. /\ Reports(lookup)
        /\ Settles \/ (/\ stage' = stage /\ poll' \in Polls /\ poll'.phase = "roll"
                       /\ poll'.plan # <<>> /\ poll'.back \in 1..(Len(history) - 1))
    BY <1>1, <1>2, <1>7, BeginRollbackSettles
  <2> QED
    BY <1>1, <1>2, <1>7, <2>1, RequestKept DEF chainVars
<1>8. CASE Unsupports /\ UNCHANGED chainVars
  <2>1. Settles /\ Reports(lookup)
    BY <1>2, <1>8, UnsupportsSettles
  <2> QED
    BY <1>1, <1>2, <1>8, <2>1, RequestKept DEF chainVars
<1>9. CASE Awaits([poll EXCEPT !.phase = "receipt", !.found = b]) /\ b # NoBlock /\ UNCHANGED chainVars
  <2>1. Reports(lookup) /\ stage' = stage /\ poll' = [poll EXCEPT !.phase = "receipt", !.found = b]
    BY <1>2, <1>9, AwaitsReports
  <2>2. b \in Blocks
    BY <1>3, <1>9
  <2>3. /\ poll' \in Polls /\ poll'.plan # <<>> /\ poll'.phase = "receipt" /\ poll'.found = b
    BY <1>2, <2>1, <2>2 DEF Polls
  <2> QED
    BY <1>1, <1>2, <1>4, <1>9, <2>1, <2>2, <2>3, RequestKept DEF chainVars
<1>10. CASE /\ b # NoBlock /\ ~Forks(b) /\ ours = {}
            /\ history' = Recorded(b) /\ nextBlock' = nextBlock + 1
            /\ IF nextBlock = poll.end THEN Advances ELSE Awaits(poll)
  <2>1. b \in Blocks /\ Height[b] = nextBlock /\ TxsOf[b] \cap registered = {}
    BY <1>3, <1>10
  <2>2. /\ Reports(lookup)
        /\ Settles \/ (stage' = stage /\ poll' = poll)
    <3>1. CASE nextBlock = poll.end
      BY <1>1, <1>2, <1>10, <3>1, AdvancesSettles
    <3>2. CASE nextBlock # poll.end
      BY <1>2, <1>10, <3>2, AwaitsReports
    <3> QED
      BY <3>1, <3>2
  <2>3. /\ history' \in Seq(Blocks) /\ history' # <<>>
        /\ \A i \in 1..Len(history') :
             history'[i] = b \/ \E j \in 1..Len(history) : history'[i] = history[j]
    BY <1>2, <1>10, <2>1, RecordedFacts
  <2>4. inclusion = NoBlock => Clean(b)
    BY <1>2, <1>10, <2>1, NextClean
  <2>5. stage' \in Stages /\ stage' # "establish" /\ poll' \in Polls
    BY <1>2, <2>2 DEF Settles, Pollers, Stages
  <2>6. TypeInv' /\ ChainInv' /\ CleanHistory'
    <3>1. baseline' = baseline /\ tip' = tip /\ registered' = registered /\ inclusion' = inclusion
      BY <1>1
    <3>2. nextBlock' \in Nat
      BY <1>2, <1>10 DEF TypeInv
    <3>3. \A i \in 1..Len(history') :
            \/ \E j \in 1..Len(history) : history'[i] = history[j]
            \/ /\ Mined(history'[i]) \subseteq registered
               /\ inclusion' = NoBlock => Clean(history'[i])
      BY <1>4, <2>1, <2>3, <2>4, <3>1
    <3> QED
      BY <1>2, <2>3, <2>5, <3>1, <3>2, <3>3, ChainKept
  <2>7. PollInv'
    BY <1>1, <1>2, <2>2 DEF PollInv, Settles
  <2>8. LookupInv'
    BY <1>1, <1>2, <2>2, LookupKept DEF TypeInv
  <2> QED
    BY <2>2, <2>6, <2>7, <2>8 DEF Kept, IInv
<1> QED
  BY <1>5, <1>6, <1>7, <1>8, <1>9, <1>10

LEMMA FetchReceiptStep ==
    ASSUME IInv, FetchReceipt
    PROVE  Kept
<1> DEFINE mid == Told(lookup, Unavailable)
<1>1. /\ poll.phase = "receipt" /\ inclusion' = poll.found
      /\ history' = Recorded(poll.found) /\ nextBlock' = nextBlock + 1
      /\ stage' = "gone" /\ poll' = NoPoll
      /\ UNCHANGED <<tip, registered, baseline>>
  BY DEF FetchReceipt
<1>2. /\ TypeInv /\ LookupInv /\ stage \in Pollers
      /\ poll.found \in Blocks /\ Mined(poll.found) \subseteq registered
  BY <1>1, PollUnderWay DEF IInv, PollInv
<1>3. PICK h \in TxsOf[poll.found] \cap registered :
        lookup' = [mid EXCEPT ![h] = IF @ = Exhausted THEN @ ELSE Included(poll.found)]
  BY Zenon DEF FetchReceipt
<1>4. /\ DOMAIN mid = Hashes
      /\ \A g \in Hashes : mid[g] = IF g \in registered /\ lookup[g] # Exhausted THEN Unavailable ELSE lookup[g]
  BY <1>2, LookupReportable, ToldFacts
<1> HIDE DEF mid
<1>5. /\ DOMAIN lookup' = Hashes
      /\ \A g \in Hashes : lookup'[g] = IF g = h /\ mid[h] # Exhausted THEN Included(poll.found) ELSE mid[g]
  BY <1>3, <1>4
<1>6. ASSUME NEW g \in Hashes PROVE Reported(g, lookup[g])
  <2>1. CASE g \notin registered
    <3>1. lookup'[g] = lookup[g]
      BY <1>3, <1>4, <1>5, <2>1
    <3> QED
      BY <1>2, <2>1, <3>1, Kinds DEF Reported, LookupInv
  <2>2. CASE lookup[g] = Exhausted
    BY <1>4, <1>5, <2>2, Kinds DEF Reported
  <2>3. CASE g \in registered /\ lookup[g] # Exhausted /\ g = h
    <3>1. lookup'[g] = Included(poll.found) /\ g \in TxsOf[poll.found]
      BY <1>3, <1>4, <1>5, <2>3, Kinds
    <3> QED
      BY <1>2, <2>3, <3>1 DEF Reported
  <2>4. CASE g \in registered /\ lookup[g] # Exhausted /\ g # h
    BY <1>4, <1>5, <2>4 DEF Reported
  <2> QED
    BY <2>1, <2>2, <2>3, <2>4
<1>7. Reports(lookup)
  BY <1>5, <1>6 DEF Reports
<1>8. poll' \in Polls /\ poll'.phase = "idle"
  BY <1>1 DEF NoPoll, Polls
<1>9. /\ history' \in Seq(Blocks) /\ history' # <<>>
      /\ \A i \in 1..Len(history') :
           history'[i] = poll.found \/ \E j \in 1..Len(history) : history'[i] = history[j]
  BY <1>1, <1>2, RecordedFacts
<1>10. inclusion' # NoBlock /\ nextBlock' \in Nat /\ stage' \in Stages /\ stage' # "establish"
  BY <1>1, <1>2, ObserverConstants DEF TypeInv, Stages
<1>11. TypeInv' /\ ChainInv' /\ CleanHistory'
  <2>1. baseline' = baseline /\ tip' = tip /\ registered' = registered
    BY <1>1
  <2> QED
    BY <1>2, <1>8, <1>9, <1>10, <2>1, ChainKept
<1>12. PollInv'
  BY <1>8 DEF PollInv
<1>13. LookupInv'
  BY <1>1, <1>2, <1>7, LookupKept DEF TypeInv
<1> QED
  BY <1>7, <1>11, <1>12, <1>13 DEF Kept, IInv

LEMMA EndingSteps ==
    ASSUME IInv,
           ReceiptsUnsupported \/ RequestFails \/ \E handoff \in BOOLEAN : CancelPoll(handoff)
    PROVE  Kept
<1>1. CASE ReceiptsUnsupported
  <2>1. poll.phase = "receipt" /\ Unsupports
        /\ UNCHANGED <<tip, registered, nextBlock, history, inclusion, baseline>>
    BY <1>1 DEF ReceiptsUnsupported
  <2>2. TypeInv /\ LookupInv /\ stage \in Pollers /\ poll.plan # <<>>
    BY <2>1, PollUnderWay
  <2> QED
    BY <2>1, <2>2, UnsupportsSettles, RequestKept
<1>2. CASE RequestFails
  <2>1. poll.phase # "idle" /\ Fails(lookup)
        /\ UNCHANGED <<tip, registered, nextBlock, history, inclusion, baseline>>
    BY <1>2 DEF RequestFails
  <2>2. TypeInv /\ LookupInv /\ stage \in Pollers /\ poll.plan # <<>>
    BY <2>1, PollUnderWay
  <2> QED
    BY <2>1, <2>2, FailsSettles, RequestKept
<1>3. CASE \E handoff \in BOOLEAN : CancelPoll(handoff)
  <2>1. /\ stage = "job" /\ stage' \in {"task", "job"} /\ poll' = NoPoll /\ lookup' = lookup
        /\ UNCHANGED <<tip, registered, nextBlock, history, inclusion, baseline>>
    BY <1>3 DEF CancelPoll
  <2>2. Settles
    BY <2>1 DEF Settles, Stages, NoPoll, Polls
  <2>3. Reports(lookup)
    BY <2>1 DEF Reports, Reported, IInv, LookupInv
  <2> QED
    BY <2>1, <2>2, <2>3, RequestKept DEF Pollers
<1> QED
  BY <1>1, <1>2, <1>3

LEMMA IInvStep ==
    ASSUME IInv, Next
    PROVE  Kept
<1>1. CASE \E p \in Providers, b \in Blocks : MoveTip(p, b)
  BY <1>1, MoveTipStep
<1>2. CASE \E p \in Providers : Establish(p)
  BY <1>2, EstablishStep
<1>3. CASE \E h \in Hashes : Register(h)
  BY <1>3, RegisterStep
<1>4. CASE Poll
  BY <1>4, BeginPollStep, FetchHeadStep, CheckTipStep, RollbackStep, ScanStep,
     FetchReceiptStep, EndingSteps DEF Poll
<1>5. CASE RequestFails \/ \E handoff \in BOOLEAN : CancelPoll(handoff)
  BY <1>5, EndingSteps
<1> QED
  BY <1>1, <1>2, <1>3, <1>4, <1>5 DEF Next

LEMMA IInvInit == Init => IInv
<1> SUFFICES ASSUME Init PROVE IInv
  OBVIOUS
<1>1. poll \in Polls /\ poll.phase = "idle"
  BY DEF Init, NoPoll, Polls
<1>2. history = <<>> /\ Len(history) = 0 /\ history \in Seq(Blocks)
  BY DEF Init
<1>3. TypeInv
  BY <1>1, <1>2 DEF Init, TypeInv, Stages
<1>4. ChainInv
  BY <1>2 DEF Init, ChainInv
<1>5. LookupInv
  BY Kinds DEF Init, LookupInv
<1> QED
  BY <1>1, <1>2, <1>3, <1>4, <1>5 DEF IInv, PollInv, CleanHistory

LEMMA IInvUnchanged == IInv /\ UNCHANGED vars => IInv'
BY DEF vars, IInv, TypeInv, PollInv, ChainInv, CleanHistory, Clean, LookupInv, Mined

LEMMA IInvAlways == Spec => []IInv
<1>1. IInv /\ [Next]_vars => IInv'
  BY IInvStep, IInvUnchanged DEF Kept
<1> QED
  BY IInvInit, <1>1, PTL DEF Spec

\* Catching up over several endpoints, rollbacks and failed or dropped polls
\* never passes a block that holds an attempt, on any block tree: the observer
\* stands on a branch without one above the baseline until one is reported.
THEOREM NothingPassed == Spec => []NothingSkipped
<1>1. IInv => NothingSkipped
  <2> SUFFICES ASSUME IInv, history # <<>>, inclusion = NoBlock PROVE Clean(LastRecorded)
    BY DEF NothingSkipped, Clean
  <2>1. Len(history) \in 1..Len(history)
    BY DEF IInv, TypeInv
  <2> QED
    BY <2>1 DEF IInv, CleanHistory, LastRecorded
<1> QED
  BY <1>1, IInvAlways, PTL

\* The observer implements TransactionOutcome: an inclusion names a block that
\* holds the attempt, nothing stays pending once the observer is gone, and an
\* exhausted discovery is final.
THEOREM ObserverRefinesOutcome == Spec => ReportsAsPromised
<1>1. Init => Outcome!Init
  BY DEF Init, Watched, Outcome!Init, Outcome!Untracked, Untracked
<1>2. IInv /\ IInv' /\ [Next]_vars => [Outcome!Next]_<<lookup, Watched>>
  <2> SUFFICES ASSUME IInv, IInv', Next
               PROVE  Outcome!Next
    BY DEF vars, Watched
  <2>1. Watched' \in SUBSET Hashes /\ DOMAIN lookup' = Hashes
    BY DEF Watched, IInv, TypeInv, LookupInv
  <2>2. ASSUME NEW h \in Hashes PROVE Outcome!Reclassify(h)
    <3>1. Reported(h, lookup[h])
      BY IInvStep DEF Kept, Reports
    <3>2. h \in registered <=> lookup[h] # Untracked
      BY DEF IInv, LookupInv
    <3>3. lookup'[h] = Pending => h \in Watched'
      BY Kinds DEF IInv, LookupInv, Watched
    <3>4. CASE lookup'[h] = lookup[h]
      BY <3>3, <3>4 DEF Outcome!Reclassify, Outcome!Pending, Pending
    <3>5. CASE lookup'[h] = Pending /\ lookup[h] # Exhausted
      BY <3>3, <3>5 DEF Outcome!Reclassify, Outcome!Pending, Outcome!Exhausted, Pending, Exhausted
    <3>6. CASE lookup'[h] \in {Unavailable, Exhausted} /\ lookup[h] # Exhausted /\ lookup[h] # Untracked
      BY <3>6 DEF Outcome!Reclassify, Outcome!Unavailable, Outcome!Exhausted,
         Outcome!Untracked, Unavailable, Exhausted, Untracked
    <3>7. CASE /\ lookup[h] # Exhausted /\ lookup[h] # Untracked
               /\ \E b \in Blocks : h \in TxsOf[b] /\ lookup'[h] = Included(b)
      <4>1. PICK b \in Blocks : h \in TxsOf[b] /\ lookup'[h] = Included(b)
        BY <3>7
      <4> DEFINE may == {m \in Hashes \X Blocks : m[1] \in TxsOf[m[2]]}
      <4>2. <<h, b>> \in may /\ <<h, b>>[2] = b
        BY <4>1
      <4>3. b \in {p[2] : p \in may}
        BY <4>2
      <4>4. lookup'[h] = Outcome!Included(b)
        BY <4>1 DEF Included, Outcome!Included
      <4>5. lookup[h] # Outcome!Untracked /\ lookup[h] # Outcome!Exhausted
        BY <3>7 DEF Untracked, Exhausted, Outcome!Untracked, Outcome!Exhausted
      <4> QED
        BY <4>2, <4>3, <4>4, <4>5 DEF Outcome!Reclassify
    <3> QED
      BY <3>1, <3>2, <3>4, <3>5, <3>6, <3>7 DEF Reported
  <2> QED
    BY <2>1, <2>2 DEF Outcome!Next
<1> QED
  BY <1>1, <1>2, IInvAlways, PTL DEF Spec, ReportsAsPromised, Outcome!Spec
=============================================================================
