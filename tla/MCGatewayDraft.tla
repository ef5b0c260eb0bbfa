--------------------------- MODULE MCGatewayDraft ---------------------------
(***************************************************************************)
(* Either the book is busy, with revised drafts and changing funds, or     *)
(* transactions run.                                                       *)
(***************************************************************************)
EXTENDS GatewayDraft

Revised ==
    \/ draft.revision > 0
    \/ \E j \in jobs : j.revision > 0
    \/ \E e \in Drafts : asked[e].revision > 0

OneStory == funds > 1 \/ Revised => \A e \in Drafts : task[e].state = "none"
=============================================================================
