------------------------- MODULE MCNoteReservation -------------------------
(* A swap account with a payload, its recovery at the same nonce and a     *)
(* payload at the next nonce; a send account that wants the swap's note.   *)
EXTENDS NoteReservation

CONSTANTS swap, send, swap0, recover0, swap1, send0, coin, change

MCOwner == [p \in Payloads |-> IF p = send0 THEN send ELSE swap]
MCNonceOf == [p \in Payloads |-> IF p = swap1 THEN 1 ELSE 0]
MCInputs == [p \in Payloads |-> IF p \in {swap0, send0} THEN {coin}
                                ELSE IF p = swap1 THEN {change} ELSE {}]

\* The chain is reorganised, and a recovery is signed, only in behaviours in
\* which the swap account's first nonce is the only one in use.
OneStory ==
    reorgs > 0 \/ recover0 \in issued =>
        issued \subseteq {swap0, recover0} /\ obs[send] = Nothing /\ mark[send].block = 0
=============================================================================
