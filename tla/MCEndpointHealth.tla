-------------------------- MODULE MCEndpointHealth --------------------------
(* Two installations of one endpoint, by two routes of its chain; the      *)
(* second is trusted.  One check runs at a time.                           *)
EXTENDS EndpointHealth

CONSTANTS first, rebuilt, shared, main, r1, r2

MCSiteOf == [t \in Targets |-> shared]
MCRouteOf == [t \in Targets |-> IF t = first THEN r1 ELSE r2]
MCChainOf == [s \in Sites |-> main]
=============================================================================
