----------------------- MODULE MCAppOperationAction -----------------------
(* Model-checking instances of AppOperationAction. *)
EXTENDS AppOperationAction

CONSTANTS r1, r2, a1, a2, b1, b2, b3
=============================================================================
