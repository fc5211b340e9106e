----------------------------- MODULE FencedWork -----------------------------
(***************************************************************************)
(* What a queue of leased work promises, without leases, clocks, attempts  *)
(* or tokens: an item is granted over and over, each grant has a number of *)
(* its own, only the newest grant can complete the item, and an item that  *)
(* is done is granted to nobody.  It stays done, but for submissions that  *)
(* come late: each one that was under way before the item was there may    *)
(* open it once more.  RouteJobQueue implements this for the jobs that     *)
(* only fenced writers touch.                                              *)
(***************************************************************************)
EXTENDS Naturals

CONSTANT Items

VARIABLES
  phase,    \* [Items -> {"absent", "open", "held", "done"}]
  grant,    \* [Items -> Nat], how often the item was granted
  late,     \* [Items -> Nat], the submissions that may still open it again
  closer    \* [Items -> Nat], the grant that completed it, 0 while there is none

vars == <<phase, grant, late, closer>>

Init ==
  /\ phase = [i \in Items |-> "absent"]
  /\ grant = [i \in Items |-> 0]
  /\ late = [i \in Items |-> 0]
  /\ closer = [i \in Items |-> 0]

Submit(i) ==
  /\ phase[i] = "absent"
  /\ phase' = [phase EXCEPT ![i] = "open"]
  /\ late'[i] \in Nat /\ late' = [late EXCEPT ![i] = late'[i]]
  /\ UNCHANGED <<grant, closer>>

SubmitLate(i) ==
  /\ late[i] > 0
  /\ late' = [late EXCEPT ![i] = @ - 1]
  /\ phase' = phase \/ phase' = [phase EXCEPT ![i] = "open"]
  /\ UNCHANGED <<grant, closer>>

\* A batch of items is granted in one step; a held item may change hands.
Grant(batch) ==
  /\ \A i \in batch : phase[i] \in {"open", "held"}
  /\ phase' = [i \in Items |-> IF i \in batch THEN "held" ELSE phase[i]]
  /\ grant' = [i \in Items |-> IF i \in batch THEN grant[i] + 1 ELSE grant[i]]
  /\ UNCHANGED <<late, closer>>

GiveBack(i) ==
  /\ phase[i] = "held"
  /\ phase' = [phase EXCEPT ![i] = "open"]
  /\ UNCHANGED <<grant, late, closer>>

Complete(i) ==
  /\ phase[i] = "held"
  /\ phase' = [phase EXCEPT ![i] = "done"]
  /\ closer' = [closer EXCEPT ![i] = grant[i]]
  /\ UNCHANGED <<grant, late>>

Withdraw(i) ==
  /\ phase[i] \in {"open", "held"}
  /\ phase' = [phase EXCEPT ![i] = "done"]
  /\ UNCHANGED <<grant, late, closer>>

Next ==
  \/ \E i \in Items : Submit(i) \/ SubmitLate(i) \/ GiveBack(i) \/ Complete(i) \/ Withdraw(i)
  \/ \E batch \in SUBSET Items : Grant(batch)

Spec == Init /\ [][Next]_vars
=============================================================================
