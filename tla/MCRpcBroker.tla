---------------------------- MODULE MCRpcBroker ----------------------------
(* Three submissions and two mailbox places.  All want the same read of    *)
(* the latest block, which they may share: s1 may time out in the queue or *)
(* in a job, s2 also wants a call of the same batch, s3 a read that is     *)
(* neither shared nor batched and whose route has no endpoint.             *)
EXTENDS RpcBroker, TLC

CONSTANTS s1, s2, s3, balance, call, other, main, void

MCReadsOf == (s1 :> {balance}) @@ (s2 :> {balance, call}) @@ (s3 :> {balance, other})
MCTimeoutOf == [s \in Subs |-> IF s = s1 THEN 1 ELSE Never]
MCRouteOf == [r \in Reads |-> IF r = other THEN void ELSE main]
=============================================================================
