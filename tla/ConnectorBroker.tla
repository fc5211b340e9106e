-------------------------- MODULE ConnectorBroker --------------------------
(***************************************************************************)
(* One prepared action of the connector broker, and every attempt to       *)
(* commit it (HermesConnectorBroker.commitAction in                        *)
(* runtime/connector-broker.ts, over lib/connector-broker/supabase-store.ts *)
(* and the SQL functions it calls).  An attempt is one delivery of one      *)
(* request; each call to the store and to the provider is a step.           *)
(*                                                                         *)
(* The three writes after the provider has answered run side by side; one   *)
(* that fails sends the attempt into its catch block while the others are   *)
(* still on their way.                                                      *)
(***************************************************************************)
EXTENDS Naturals

CONSTANTS
  Requests,      \* commit requests, each with an idempotency key of its own
  Approvals,     \* approval receipts
  Attempts,      \* deliveries of requests to the broker
  NoRequest, NoApproval, NoAttempt,
  MaxCrashes,    \* bound of the model: processes that die
  MaxFaults      \* bound of the model: writes and answers that get lost or rejected

ASSUME ConnectorBrokerAssumption ==
  /\ NoRequest \notin Requests
  /\ NoApproval \notin Approvals
  /\ NoAttempt \notin Attempts
  /\ MaxCrashes \in Nat /\ MaxFaults \in Nat

VARIABLES
  approvalRequired, \* what the operation's descriptor says
  prepared,         \* status of the prepared action
  expired,          \* its ten minutes are over
  grants,           \* approval receipts at the broker
  lapsed,           \* approvals whose five minutes are over
  reservations,     \* idempotency claims
  responses,        \* durable receipts, one per idempotency key
  attempts,
  acted,            \* attempts in which the provider carried the action out
  crashes, faults

brokerVars ==
  <<approvalRequired, prepared, expired, grants, lapsed, reservations,
    responses, attempts, acted, crashes, faults>>

Nothing == [status |-> "none", by |-> NoAttempt]
Error == [status |-> "error", by |-> NoAttempt]
Writes == {"response", "status"}

BrokerInit ==
  /\ approvalRequired \in BOOLEAN
  /\ prepared = "prepared"
  /\ expired = FALSE
  /\ grants = [a \in Approvals |-> "none"]
  /\ lapsed = {}
  /\ reservations = [r \in Requests |-> "none"]
  /\ responses = [r \in Requests |-> Nothing]
  /\ attempts = [b \in Attempts |->
       [at |-> "idle", req |-> NoRequest, approval |-> NoApproval,
        pending |-> {}, answer |-> Nothing]]
  /\ acted = {}
  /\ crashes = 0 /\ faults = 0

At(b, label) == attempts[b].at = label
Goto(b, label) == attempts' = [attempts EXCEPT ![b].at = label]
Answer(b, a) ==
  attempts' = [attempts EXCEPT ![b].at = "done", ![b].answer = a]
Req(b) == attempts[b].req

Usable(a) == a # NoApproval /\ grants[a] = "approved" /\ ~expired /\ a \notin lapsed

-----------------------------------------------------------------------------
\* The steps of commitAction.

\* The request and the connection are in order.
Accepted(b, r, a) ==
  /\ ~expired /\ UNCHANGED prepared
  /\ attempts' = [attempts EXCEPT
       ![b].at = IF approvalRequired THEN "verify" ELSE "lookup",
       ![b].req = r, ![b].approval = a]

\* They are not: a stale request, a disabled connection, a missing scope.  The
\* error leaves no receipt; an expired action is closed on the way.
Thrown(b, r, a) ==
  /\ prepared' = IF expired /\ prepared = "prepared" THEN "revoked" ELSE prepared
  /\ attempts' = [attempts EXCEPT
       ![b].at = "done", ![b].req = r, ![b].approval = a, ![b].answer = Error]

Deliver(b, r, a) ==
  /\ At(b, "idle")
  /\ Accepted(b, r, a) \/ Thrown(b, r, a)
  /\ UNCHANGED <<approvalRequired, expired, grants, lapsed, reservations,
                 responses, acted, crashes, faults>>

\* Mutant of Verify: the receipt is looked at and not used up.
VerifyWithoutUse(b) ==
  /\ At(b, "verify")
  /\ Goto(b, IF Usable(attempts[b].approval) THEN "lookup" ELSE "refuse")
  /\ UNCHANGED <<approvalRequired, prepared, expired, grants, lapsed,
                 reservations, responses, acted, crashes, faults>>

\* The approval is used up before the idempotency key is looked at.
Verify(b) ==
  /\ At(b, "verify")
  /\ LET a == attempts[b].approval IN
     IF Usable(a)
     THEN grants' = [grants EXCEPT ![a] = "consumed"] /\ Goto(b, "lookup")
     ELSE UNCHANGED grants /\ Goto(b, "refuse")
  /\ UNCHANGED <<approvalRequired, prepared, expired, lapsed, reservations,
                 responses, acted, crashes, faults>>

\* A request that was answered gets its answer again.  It is refused if the
\* answer is not to this request: its key was used for another one, too.
Lookup(b) ==
  /\ At(b, "lookup")
  /\ IF responses[Req(b)] = Nothing
     THEN Goto(b, "claim")
     ELSE Answer(b, responses[Req(b)]) \/ Goto(b, "refuse")
  /\ UNCHANGED <<approvalRequired, prepared, expired, grants, lapsed,
                 reservations, responses, acted, crashes, faults>>

\* Mutant of Claim: an action that is being committed is claimed again.
ClaimAgain(b) ==
  /\ At(b, "claim")
  /\ IF ~expired /\ prepared \in {"prepared", "committing"}
     THEN prepared' = "committing" /\ Goto(b, "reserve")
     ELSE UNCHANGED prepared /\ Goto(b, "refuse")
  /\ UNCHANGED <<approvalRequired, expired, grants, lapsed, reservations,
                 responses, acted, crashes, faults>>

\* claim_connector_prepared_action: expiry is written over any status.
Claim(b) ==
  /\ At(b, "claim")
  /\ \/ /\ expired
        /\ prepared' = "expired" /\ Goto(b, "refuse")
     \/ /\ ~expired /\ prepared = "prepared"
        /\ prepared' = "committing" /\ Goto(b, "reserve")
     \/ /\ ~expired /\ prepared # "prepared"
        /\ UNCHANGED prepared /\ Goto(b, "refuse")
  /\ UNCHANGED <<approvalRequired, expired, grants, lapsed, reservations,
                 responses, acted, crashes, faults>>

\* Mutant of Reopen: the status that is written over is not compared.
ReopenAnything == prepared' = "prepared"

\* finishCommit "prepared": only of an action that is being committed.
Reopen == prepared' = IF prepared = "committing" THEN "prepared" ELSE prepared

\* claim_connector_idempotency; a claim that is not completed can be taken
\* over when its lease is over.
Reserve(b) ==
  /\ At(b, "reserve")
  /\ \/ /\ reservations[Req(b)] \in {"none", "held"}
        /\ reservations' = [reservations EXCEPT ![Req(b)] = "held"]
        /\ Goto(b, "handler") /\ UNCHANGED prepared
     \/ /\ reservations[Req(b)] \in {"held", "completed"}
        /\ Reopen /\ Goto(b, "refuse") /\ UNCHANGED reservations
  /\ UNCHANGED <<approvalRequired, expired, grants, lapsed, responses, acted,
                 crashes, faults>>

\* The provider carries the action out and says so.
ProviderActs(b) ==
  /\ At(b, "handler")
  /\ acted' = acted \cup {b}
  /\ attempts' = [attempts EXCEPT ![b].at = "save", ![b].pending = Writes]
  /\ UNCHANGED <<approvalRequired, prepared, expired, grants, lapsed,
                 reservations, responses, crashes, faults>>

\* It does not; or it does, and the answer is lost, or is not what it should be:
\* it holds a secret, or no receipt and response can be made of it.
ProviderFails(b) ==
  /\ At(b, "handler")
  /\ \/ UNCHANGED <<acted, faults>>
     \/ /\ faults < MaxFaults /\ faults' = faults + 1
        /\ acted' = acted \cup {b}
  /\ Goto(b, "undo")
  /\ UNCHANGED <<approvalRequired, prepared, expired, grants, lapsed,
                 reservations, responses, crashes>>

\* putResponse, its two statements as one: the first receipt of a key stays, and
\* a claim of the key, if there is one, is completed.
Put(r, b, status) ==
  /\ responses' = IF responses[r] = Nothing
                  THEN [responses EXCEPT ![r] = [status |-> status, by |-> b]]
                  ELSE responses
  /\ reservations' = [reservations EXCEPT
                       ![r] = IF @ = "held" THEN "completed" ELSE @]

\* What the other two writes do: the receipt, and finishCommit "committed".
Write(b, w) ==
  \/ w = "response" /\ Put(Req(b), b, "succeeded") /\ UNCHANGED prepared
  \/ /\ w = "status"
     /\ prepared' = IF prepared = "committing" THEN "committed" ELSE prepared
     /\ UNCHANGED <<responses, reservations>>

\* One of them arrives, in time or after the attempt went into its catch block.
Land(b) ==
  /\ \E w \in attempts[b].pending :
       /\ Write(b, w)
       /\ attempts' = [attempts EXCEPT ![b].pending = @ \ {w}]
  /\ UNCHANGED <<approvalRequired, expired, grants, lapsed, acted, crashes,
                 faults>>

\* Mutant of Finish: the claim is given back when all is done.
FinishAndRelease(b) ==
  /\ At(b, "save") /\ attempts[b].pending = {}
  /\ Answer(b, [status |-> "succeeded", by |-> b])
  /\ prepared' = IF prepared = "committed" THEN "prepared" ELSE prepared
  /\ UNCHANGED <<approvalRequired, expired, grants, lapsed,
                 reservations, responses, acted, crashes, faults>>

\* All three, with the audit record that nobody reads here, have arrived.
Finish(b) ==
  /\ At(b, "save") /\ attempts[b].pending = {}
  /\ Answer(b, [status |-> "succeeded", by |-> b])
  /\ UNCHANGED <<approvalRequired, prepared, expired, grants, lapsed,
                 reservations, responses, acted, crashes, faults>>

\* One of them fails, before or after its effect, or the audit record does.
WriteFails(b) ==
  /\ At(b, "save") /\ faults < MaxFaults /\ faults' = faults + 1
  /\ \/ Goto(b, "undo") /\ UNCHANGED <<prepared, responses, reservations>>
     \/ \E w \in attempts[b].pending :
          /\ Write(b, w) \/ UNCHANGED <<prepared, responses, reservations>>
          /\ attempts' = [attempts EXCEPT ![b].pending = @ \ {w}, ![b].at = "undo"]
  /\ UNCHANGED <<approvalRequired, expired, grants, lapsed, acted, crashes>>

\* The catch block makes the action available again, then answers.
Undo(b) ==
  /\ At(b, "undo")
  /\ Reopen
  /\ Goto(b, "refuse")
  /\ UNCHANGED <<approvalRequired, expired, grants, lapsed, reservations,
                 responses, acted, crashes, faults>>

\* persistFailure
Refuse(b) ==
  /\ At(b, "refuse")
  /\ Put(Req(b), b, "refused")
  /\ Answer(b, [status |-> "refused", by |-> b])
  /\ UNCHANGED <<approvalRequired, prepared, expired, grants, lapsed, acted,
                 crashes, faults>>

\* The catch block or persistFailure loses its store as well.
AnswerFails(b) ==
  /\ attempts[b].at \in {"undo", "refuse"}
  /\ faults < MaxFaults /\ faults' = faults + 1
  /\ Answer(b, Error)
  /\ UNCHANGED <<approvalRequired, prepared, expired, grants, lapsed,
                 reservations, responses, acted, crashes>>

\* The process dies; writes it has not made are not made.
AttemptDies(b) ==
  /\ attempts[b].at \notin {"idle", "done"} /\ crashes < MaxCrashes
  /\ attempts' = [attempts EXCEPT ![b].at = "done", ![b].answer = Error,
                                  ![b].pending = {}]
  /\ crashes' = crashes + 1
  /\ UNCHANGED <<approvalRequired, prepared, expired, grants, lapsed,
                 reservations, responses, acted, faults>>

AttemptStep(b) ==
  \/ Verify(b) \/ Lookup(b) \/ Claim(b) \/ Reserve(b)
  \/ ProviderActs(b) \/ ProviderFails(b)
  \/ Land(b) \/ Finish(b) \/ Undo(b) \/ Refuse(b)

-----------------------------------------------------------------------------
\* What the control plane does to the action.

\* approveConnectorPreparedAction inserts a receipt; its check of the status
\* came before, see AppOperationAction.
Grant(a) ==
  /\ ~expired
  /\ grants' = [grants EXCEPT ![a] = "approved"]
  /\ UNCHANGED <<approvalRequired, prepared, expired, lapsed, reservations,
                 responses, attempts, acted, crashes, faults>>

WithoutApprovals == [a \in Approvals |->
                       IF grants[a] = "approved" THEN "revoked" ELSE grants[a]]

\* revoke_connector_prepared_action
RevokePrepared ==
  /\ ~expired /\ prepared \in {"prepared", "revoked"}
  /\ IF prepared = "prepared"
     THEN prepared' = "revoked" /\ grants' = WithoutApprovals
     ELSE UNCHANGED <<prepared, grants>>
  /\ UNCHANGED <<approvalRequired, expired, lapsed, reservations, responses,
                 attempts, acted, crashes, faults>>

\* disable_connector_locally and locally_disable_connector revoke whatever is
\* open, in the middle of a commit too.
DisableConnector ==
  /\ prepared' = IF prepared \in {"prepared", "committing"} THEN "revoked"
                                                          ELSE prepared
  /\ grants' = WithoutApprovals
  /\ UNCHANGED <<approvalRequired, expired, lapsed, reservations, responses,
                 attempts, acted, crashes, faults>>

Expire ==
  /\ ~expired /\ expired' = TRUE
  /\ UNCHANGED <<approvalRequired, prepared, grants, lapsed, reservations,
                 responses, attempts, acted, crashes, faults>>

\* Of an approval that was used up, the end does not matter any more.
Lapse(a) ==
  /\ grants[a] = "approved" /\ a \notin lapsed
  /\ lapsed' = lapsed \cup {a}
  /\ UNCHANGED <<approvalRequired, prepared, expired, grants, reservations,
                 responses, attempts, acted, crashes, faults>>

\* What happens at the broker without anybody asking for it.
BrokerStep ==
  \/ \E b \in Attempts :
       AttemptStep(b) \/ WriteFails(b) \/ AnswerFails(b) \/ AttemptDies(b)
  \/ DisableConnector \/ Expire
  \/ \E a \in Approvals : Lapse(a)

\* The broker under any caller: each request may be delivered at any time, any
\* number of times, with any approval; each approval is given once.
Asked ==
  \/ \E b \in Attempts, r \in Requests, a \in Approvals \cup {NoApproval} :
       Deliver(b, r, a)
  \/ \E a \in Approvals : grants[a] = "none" /\ Grant(a)
  \/ RevokePrepared

BrokerSpec == BrokerInit /\ [][BrokerStep \/ Asked]_brokerVars

-----------------------------------------------------------------------------
Response == [status : {"none", "succeeded", "refused"}, by : Attempts \cup {NoAttempt}]

Reply ==
  [status : {"none", "succeeded", "refused", "error"}, by : Attempts \cup {NoAttempt}]

Attempt ==
  [at : {"idle", "verify", "lookup", "claim", "reserve", "handler",
         "save", "undo", "refuse", "done"},
   req : Requests \cup {NoRequest},
   approval : Approvals \cup {NoApproval},
   pending : SUBSET Writes,
   answer : Reply]

BrokerTypeOK ==
  /\ approvalRequired \in BOOLEAN /\ expired \in BOOLEAN
  /\ prepared \in {"prepared", "committing", "committed", "revoked", "expired"}
  /\ grants \in [Approvals -> {"none", "approved", "consumed", "revoked"}]
  /\ lapsed \subseteq Approvals
  /\ reservations \in [Requests -> {"none", "held", "completed"}]
  /\ responses \in [Requests -> Response]
  /\ attempts \in [Attempts -> Attempt]
  /\ acted \subseteq Attempts
  /\ crashes \in 0..MaxCrashes /\ faults \in 0..MaxFaults

\* One attempt at a time has the action in its hands, from the claim until it
\* has answered or given the action back, whatever fails, dies or is revoked:
\* the provider is never called while another call is under way.
Committing == {b \in Attempts : attempts[b].at \in {"reserve", "handler", "save", "undo"}}

OneAtATime == \A b, c \in Committing : b = c

\* The provider carries the action out at most once, over crashes, repeated
\* deliveries, concurrent calls and revocations, unless a write or its answer
\* was lost, or its answer rejected, after it had acted.
ActsOnce == faults = 0 => \A b, c \in acted : b = c

\* Every time the provider acts for an operation that needs approval, another
\* approval has been used up for it.
ActsAreApproved ==
  approvalRequired =>
    /\ \A b \in acted : /\ attempts[b].approval \in Approvals
                        /\ grants[attempts[b].approval] = "consumed"
    /\ \A b, c \in acted : attempts[b].approval = attempts[c].approval => b = c

\* A revoked or expired action is never available again: no late write of an
\* attempt that was on its way brings it back.
Withdrawn == prepared \in {"revoked", "expired"}

RevocationHolds == [][Withdrawn => Withdrawn']_brokerVars
=============================================================================
