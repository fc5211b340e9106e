------------------------- MODULE MCHostedRouteStore -------------------------
(* Model-checking instances of HostedRouteStore. *)
EXTENDS HostedRouteStore

CONSTANTS j1, c1, c2
=============================================================================
