-------------------------- MODULE MCRouteJobQueue --------------------------
(* Model-checking instances of RouteJobQueue. *)
EXTENDS RouteJobQueue
=============================================================================
