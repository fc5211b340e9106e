------------------------- MODULE MCConnectorBroker -------------------------
(* Model-checking instances of ConnectorBroker. *)
EXTENDS ConnectorBroker, TLC

CONSTANTS r1, r2, a1, a2, b1, b2, b3

\* Requests, approvals and attempts are interchangeable (safety only).
Symmetry ==
  Permutations(Requests) \cup Permutations(Approvals) \cup Permutations(Attempts)
=============================================================================
