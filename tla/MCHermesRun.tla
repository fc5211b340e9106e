---------------------------- MODULE MCHermesRun ----------------------------
(* Model-checking instances of HermesRun. *)
EXTENDS HermesRun, TLC

CONSTANTS w1, w2, h1, h2

\* Workers are interchangeable, and so are handlers (safety only).
ActorSymmetry == Permutations(Workers) \cup Permutations(Handlers)
=============================================================================
