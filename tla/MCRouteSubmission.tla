-------------------------- MODULE MCRouteSubmission --------------------------
(* Model-checking instances of RouteSubmission. *)
EXTENDS RouteSubmission, TLC

CONSTANTS e1, e2, c1, c2, w1, w2

\* Events, callers and workers are interchangeable.
Symmetry == Permutations(Events) \cup Permutations(Callers) \cup Permutations(Workers)
=============================================================================
