--------------------------- MODULE NoteReservation ---------------------------
(***************************************************************************)
(* Which private notes the payloads signed for a wallet's stealth accounts *)
(* keep reserved (vault/executors.rs, desktop/executors).                  *)
(*                                                                         *)
(* A signed payload cannot be revoked: it may run as long as its account's *)
(* execution nonce is not consumed, so its notes stay reserved.  Once the  *)
(* nonce is consumed they stay reserved until private sync has scanned the *)
(* block that consumed it; from then on sync itself shows which notes are  *)
(* spent.  What the wallet knows of the nonce comes from account reads     *)
(* that arrive late and out of order, from private sync, and from a chain  *)
(* that may be reorganised.                                                *)
(*                                                                         *)
(* Each store operation holds EXECUTOR_RECORD_LOCK and is one step.  The   *)
(* activity lock of the callers is left out, so the steps interleave more  *)
(* freely here than in the program.  A payload's hash stands for its       *)
(* account, nonce, notes and purpose.  No watermark and no settled nonce   *)
(* are 0, which every comparison treats alike.  Swap hooks, swap uses,     *)
(* delegates and the legacy inclusions of old records are left out.        *)
(***************************************************************************)
EXTENDS Integers, Sequences, FiniteSets, SequencesExt

CONSTANTS
    Operations,  \* operations, one stealth account each
    Payloads,    \* payloads that may be signed
    Notes,       \* private notes
    Owner,       \* payload -> operation
    NonceOf,     \* payload -> execution nonce it is signed at
    Inputs,      \* payload -> notes it spends
    Recoveries,  \* payloads with purpose Recovery; the others are Operation
    Shielding,   \* payloads whose execution sync sees by the shield it makes
    Nothing,     \* no observation, or a block that executes nothing here
    MaxBlocks, MaxReorgs  \* bounds

ASSUME ReservationAssumption ==
    /\ Owner \in [Payloads -> Operations]
    /\ NonceOf \in [Payloads -> Nat]
    /\ Inputs \in [Payloads -> SUBSET Notes]
    /\ Recoveries \subseteq Payloads /\ Shielding \subseteq Payloads
    /\ Nothing \notin Payloads
    /\ MaxBlocks \in Nat /\ MaxReorgs \in Nat

VARIABLES
    chain,     \* block -> the payload it executes, or None
    scanned,   \* last_scanned of private sync
    reorgs,    \* chain reorganisations so far
    orphan,    \* the chain as it was before the last reorganisation
    issued,    \* ExecutorRecord::issued of all records
    sent,      \* payloads with a recorded transaction hash
    released,  \* released_payloads
    obs,       \* nonce_observation
    mark,      \* nonce_watermark
    settled,   \* settled_nonce
    releasing, \* payloads release_input_lock has read and not yet released
    resent,    \* history: notes reserved again by a send (record_submission)
    current    \* history: accounts read since the last reorganisation

record == <<issued, sent, released, obs, mark, settled>>
vars == <<chain, scanned, reorgs, orphan, record, releasing, resent, current>>

Of(o) == {p \in Payloads : Owner[p] = o}

\* The chain: an account's execution nonce after block b, and the notes spent.
NonceIn(ch, o, b) == Cardinality({h \in 1 .. b : ch[h] \in Of(o)})
NonceAt(o, b) == NonceIn(chain, o, b)
SpentAt(b) == UNION {Inputs[p] : p \in {chain[h] : h \in 1 .. b} \ {Nothing}}
Tip == Len(chain)

-----------------------------------------------------------------------------
(* The record's view *)

\* nonce_resolved, nonce_settled
Resolved(p) == NonceOf[p] < mark[Owner[p]].nonce
Settled(p) == Resolved(p) /\ NonceOf[p] < settled[Owner[p]]

\* reserving_payloads
Reserving(p) ==
    /\ p \in issued /\ p \notin released
    /\ ~Settled(p)

\* reserved_inputs
Reserved(o) == UNION {Inputs[p] : p \in {q \in Of(o) : Reserving(q)}}

\* The InputReserved check of record_issued and reserve_released.
UnreservedByOwner(p) == Inputs[p] \cap Reserved(Owner[p]) = {}
Unreserved(p) == \A o \in Operations \ {Owner[p]} : Reserved(o) \cap Inputs[p] = {}

-----------------------------------------------------------------------------
(* Signing and sending *)

\* record_issued: refused unless the observation is the one the payload was
\* signed under; recording a released payload again reserves its notes again.
RecordIssued(p) ==
    LET o == Owner[p]
    IN /\ Unreserved(p)
       /\ obs[o] # Nothing /\ obs[o].nonce = NonceOf[p]
       /\ p \notin Recoveries =>
            \A q \in issued : Owner[q] = o /\ NonceOf[q] < NonceOf[p] => Resolved(q)
       /\ issued' = issued \cup {p}
       /\ released' = released \ {p}
       /\ UNCHANGED <<chain, scanned, reorgs, orphan, sent, obs, mark, settled,
                      releasing, resent, current>>

\* record_submission: a send reserves the notes again, whoever took them since.
RecordSubmission(p) ==
    /\ p \in issued
    /\ sent' = sent \cup {p}
    /\ released' = released \ {p}
    /\ resent' = IF p \in released THEN resent \cup Inputs[p] ELSE resent
    /\ UNCHANGED <<chain, scanned, reorgs, orphan, issued, obs, mark, settled,
                   releasing, current>>

\* release_input_lock: the user releases every payload that reserves notes for
\* the operation.  The record is read in one step and release_payloads writes
\* in another, with only the write under the record lock.  (One at a time.)
Locking(o) == {p \in Of(o) : Reserving(p)}
ReleaseInputLock(o) ==
    /\ releasing = {} /\ Locking(o) # {}
    /\ releasing' = Locking(o)
    /\ UNCHANGED <<chain, scanned, reorgs, orphan, record, resent, current>>

ReleasePayloads ==
    /\ releasing # {}
    /\ released' = released \cup releasing
    /\ releasing' = {}
    /\ UNCHANGED <<chain, scanned, reorgs, orphan, issued, sent, obs, mark, settled,
                   resent, current>>

\* reserve_released
ReserveReleased(p) ==
    /\ p \in released
    /\ Unreserved(p)
    /\ released' = released \ {p}
    /\ UNCHANGED <<chain, scanned, reorgs, orphan, issued, sent, obs, mark, settled,
                   releasing, resent, current>>

-----------------------------------------------------------------------------
(* Evidence *)

\* invalidate_observation: a new reconciliation needs a fresh read.
InvalidateObservation(o) ==
    /\ obs' = [obs EXCEPT ![o] = Nothing]
    /\ UNCHANGED <<chain, scanned, reorgs, orphan, issued, sent, released, mark,
                   settled, releasing, resent, current>>

\* A lower watermark takes the settled nonce with it.
SettledUnder(s, n) == IF n < s THEN n ELSE s

\* set_nonce_watermark
RaiseWatermark(o, seen) ==
    /\ mark' = [mark EXCEPT ![o] = IF @.nonce < seen.nonce THEN seen ELSE @]
    /\ UNCHANGED settled
SetNonceWatermark(o, seen) ==
    /\ mark' = [mark EXCEPT ![o] = seen]
    /\ settled' = [settled EXCEPT ![o] = SettledUnder(@, seen.nonce)]

\* record_account_read accepts a read that is no older than what it knows.
Newest(o, b) ==
    /\ mark[o].block <= b
    /\ obs[o] # Nothing => obs[o].block <= b

\* record_account_read of the nonce that block b of the chain ch showed.  The
\* read may have been under way for long: b may be any block, and ch the chain
\* before the last reorganisation.
RecordAccountRead(o, ch, b) ==
    LET seen == [nonce |-> NonceIn(ch, o, b), block |-> b]
    IN /\ \/ /\ Newest(o, b)
             /\ obs' = [obs EXCEPT ![o] = seen]
             /\ SetNonceWatermark(o, seen)
             /\ current' = IF ch = chain THEN current \cup {o} ELSE current \ {o}
          \/ /\ ~Newest(o, b)
             /\ obs' = IF obs[o] = Nothing /\ mark[o].nonce = seen.nonce
                       THEN [obs EXCEPT ![o] = seen] ELSE obs
             /\ UNCHANGED <<mark, settled, current>>
       /\ UNCHANGED <<chain, scanned, reorgs, orphan, issued, sent, released, releasing,
                      resent>>

\* Sync shows that block h ran its payload: the shield arrived, or a transaction
\* recorded for it spent one of its notes.
ShownAt(h) == chain[h] \in Shielding \/ (chain[h] \in sent /\ Inputs[chain[h]] # {})

\* synced_resolution: one past the highest unresolved payload that a snapshot
\* scanned to s shows executed at or below the safe head, with its block.
Resolutions(o, s, safe) ==
    {[nonce |-> NonceOf[chain[h]] + 1, block |-> h] :
       h \in {k \in 1 .. Tip : /\ k <= s /\ k <= safe
                             /\ chain[k] \in issued \cap Of(o)
                             /\ ~Resolved(chain[k]) /\ ShownAt(k)}}
Highest(ms) == CHOOSE m \in ms : \A n \in ms : n.nonce <= m.nonce

\* The settled nonce once sync scanned to s and the watermark is m.
SettledAtOnce(old, m, s) == IF old < m.nonce THEN m.nonce ELSE old
SettledBy(old, m, s) == IF m.block <= s /\ old < m.nonce THEN m.nonce ELSE old

\* confirm_synced_record, apply_synced: with a snapshot that may be older than
\* what sync has scanned by now.
RecordSynced(o, s, safe) ==
    LET found == Resolutions(o, s, safe)
        m == IF found = {} THEN mark[o] ELSE Highest(found)
    IN /\ mark' = [mark EXCEPT ![o] = m]
       /\ settled' = [settled EXCEPT ![o] = SettledBy(@, m, s)]
       /\ UNCHANGED <<chain, scanned, reorgs, orphan, issued, sent, released, obs,
                      releasing, resent, current>>

-----------------------------------------------------------------------------
(* The chain and private sync, outside the store *)

\* A block executes an issued payload of the current nonce whose notes are
\* unspent, or nothing.
Mine(p) ==
    /\ Tip < MaxBlocks
    /\ p # Nothing => /\ p \in issued
                   /\ NonceOf[p] = NonceAt(Owner[p], Tip)
                   /\ Inputs[p] \cap SpentAt(Tip) = {}
    /\ chain' = Append(chain, p)
    /\ UNCHANGED <<scanned, reorgs, orphan, record, releasing, resent, current>>

Scan ==
    /\ scanned < Tip
    /\ scanned' = scanned + 1
    /\ UNCHANGED <<chain, reorgs, orphan, record, releasing, resent, current>>

\* The last block is replaced; sync forgets it.
Reorg ==
    /\ reorgs < MaxReorgs /\ Tip > 0
    /\ chain' = Front(chain)
    /\ orphan' = chain
    /\ scanned' = IF scanned = Tip THEN Tip - 1 ELSE scanned
    /\ reorgs' = reorgs + 1
    /\ current' = {}
    /\ UNCHANGED <<record, releasing, resent>>

Init ==
    /\ chain = <<>> /\ scanned = 0 /\ reorgs = 0
    /\ orphan = <<>>
    /\ issued = {} /\ sent = {} /\ released = {}
    /\ obs = [o \in Operations |-> Nothing]
    /\ mark = [o \in Operations |-> [nonce |-> 0, block |-> 0]]
    /\ settled = [o \in Operations |-> 0]
    /\ releasing = {} /\ resent = {}
    /\ current = Operations

Next ==
    \/ \E p \in Payloads : RecordIssued(p) \/ RecordSubmission(p) \/ ReserveReleased(p)
    \/ \E o \in Operations : ReleaseInputLock(o) \/ InvalidateObservation(o)
    \/ ReleasePayloads
    \/ \E o \in Operations, ch \in {chain, orphan} : \E b \in 0 .. Len(ch) :
         RecordAccountRead(o, ch, b)
    \/ \E o \in Operations, s \in 0 .. scanned, safe \in 0 .. Tip : RecordSynced(o, s, safe)
    \/ \E p \in Payloads \cup {Nothing} : Mine(p)
    \/ Scan
    \/ Reorg

Spec == Init /\ [][Next]_vars

-----------------------------------------------------------------------------
(* Properties *)

\* The type invariant.
TypeOK ==
    /\ chain \in Seq(Payloads \cup {Nothing}) /\ Tip <= MaxBlocks
    /\ scanned \in 0 .. Tip
    /\ reorgs \in 0 .. MaxReorgs
    /\ orphan \in Seq(Payloads \cup {Nothing})
    /\ issued \subseteq Payloads
    /\ sent \subseteq issued /\ released \subseteq issued
    /\ releasing \subseteq issued
    /\ \A o \in Operations : /\ obs[o] # Nothing => obs[o].nonce \in 0 .. MaxBlocks
                             /\ mark[o].nonce \in 0 .. MaxBlocks
                             /\ settled[o] \in 0 .. MaxBlocks
    /\ resent \subseteq Notes
    /\ current \subseteq Operations

\* No note is reserved for two operations, however their proofs, reads, sync
\* and sends interleave, unless a payload the user had released was sent again.
OneReservation ==
    reorgs = 0 => \A o, q \in Operations :
        o # q => Reserved(o) \cap Reserved(q) \subseteq resent

\* A signed payload that can still run keeps its notes reserved until the user
\* releases it; after a reorganisation, from the account's next accepted read.
RunnableReserved ==
    \A p \in issued \ released :
        Owner[p] \in current /\ NonceOf[p] >= NonceAt(Owner[p], Tip) =>
            Inputs[p] \subseteq Reserved(Owner[p])

\* A note the wallet believes free is free: if sync does not show it spent and
\* no payload reserves it, the chain has not spent it, unless by a payload the
\* user had released.  (Without reorganisations of blocks that were read.)
FreeNotesUnspent ==
    reorgs = 0 =>
      \A h \in 1 .. Tip : chain[h] # Nothing =>
        \/ chain[h] \in released
        \/ h <= scanned
        \/ Inputs[chain[h]] \subseteq Reserved(Owner[chain[h]])

=============================================================================
