-------------------------- MODULE MCRouteJobWorker --------------------------
(* Model-checking instances of RouteJobWorker. *)
EXTENDS RouteJobWorker, TLC

CONSTANTS j1, j2, w1, w2, p1

\* All jobs are of one decision, and so of one problem.
OneProblem == [j \in Jobs |-> p1]

\* Workers are interchangeable, and so are jobs (safety only).
Symmetry == Permutations(Workers) \cup Permutations(Jobs)
=============================================================================
