--------------------------- MODULE MCAppLifecycle ---------------------------
(* Model-checking instances of AppLifecycle. *)
EXTENDS AppLifecycle

CONSTANTS c1, c2, p1, a1, e1
=============================================================================
