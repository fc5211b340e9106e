------------------------- MODULE AppOperationAction -------------------------
(***************************************************************************)
(* The life of one prepared provider action of an installed App: approval, *)
(* commit, reconciliation and revocation (runtime/app-operation-           *)
(* execution.ts, app-operation-action-store.ts, app-action-reconciliation- *)
(* worker.ts, lib/app-platform/app-operation-action-*.ts), over the        *)
(* connector broker of module ConnectorBroker.                              *)
(*                                                                         *)
(* The App keeps an append-only ledger of events.  Everybody reads it once, *)
(* decides, talks to the broker, and appends; nothing in between is locked. *)
(***************************************************************************)
EXTENDS ConnectorBroker, Sequences, SequencesExt

CONSTANT Hosted  \* the ledger is the hosted one, or else a file

ASSUME AppOperationActionAssumption == Hosted \in BOOLEAN

VARIABLES
  requested,   \* commit_requested events, in the order of their recording
  outcome,     \* commit_succeeded and commit_failed events of each request
  granted,     \* approval_granted events
  stamped,     \* approvals whose event carries a time that has come
  voided,      \* approvals no younger than some commit_failed event
  revoked,     \* the revoked event
  calls,       \* commit calls; a call identity determines its request
  approvers, revoker,
  reconciling, \* the request a reconciliation is about to ask for
  ready        \* the worker has come to the action, and job, problem, assignment
               \* and environment are still what it was prepared for

ledger == <<requested, outcome, granted, stamped, voided, revoked>>
actors == <<calls, approvers, revoker, reconciling>>
vars == <<brokerVars, ledger, actors, ready>>

NoCall == [at |-> "idle", approval |-> NoApproval]

Init ==
  /\ BrokerInit
  /\ requested = <<>>
  /\ outcome = [r \in Requests |-> {}]
  /\ granted = {} /\ stamped = {} /\ voided = {}
  /\ revoked = FALSE
  /\ calls = [r \in Requests |-> NoCall]
  /\ approvers = [a \in Approvals |-> "idle"]
  /\ revoker = "idle"
  /\ reconciling = NoRequest
  /\ ready = FALSE

-----------------------------------------------------------------------------
\* What the events say.

Settled == {r \in Requests : outcome[r] # {}}
Interrupted == {r \in ToSet(requested) : outcome[r] = {}}
Committed == \E r \in Requests : "succeeded" \in outcome[r]

ValidApproval(a) ==
  a \in granted /\ a \notin voided /\ a \notin lapsed /\ ~expired

\* A failure makes void the approvals that were given before it.
Record(r, result) ==
  /\ outcome' = [outcome EXCEPT ![r] = @ \cup {result}]
  /\ voided' = IF result = "failed" /\ result \notin outcome[r]
               THEN stamped ELSE voided
  /\ UNCHANGED <<requested, granted, stamped, revoked>>

-----------------------------------------------------------------------------
\* commitAction

\* Mutant of ReadEvents: a commit in progress does not stop another one.
ReadEventsInProgress(c) ==
  /\ calls[c].at = "idle"
  /\ ~Committed /\ ~revoked /\ ~expired
  /\ \E a \in Approvals \cup {NoApproval} :
       /\ IF approvalRequired THEN ValidApproval(a) ELSE a = NoApproval
       /\ calls' = [calls EXCEPT ![c] = [at |-> "checked", approval |-> a]]
  /\ UNCHANGED <<brokerVars, ledger, approvers, revoker, reconciling, ready>>

\* The events are read once.  Which of two valid approvals comes first is a
\* matter of the clocks of two operators.
ReadEvents(c) ==
  /\ calls[c].at = "idle"
  /\ ~Committed /\ ~revoked /\ ~expired
  /\ Interrupted = {} /\ "failed" \notin outcome[c]
  /\ \E a \in Approvals \cup {NoApproval} :
       /\ IF approvalRequired THEN ValidApproval(a) ELSE a = NoApproval
       /\ calls' = [calls EXCEPT ![c] = [at |-> "checked", approval |-> a]]
  /\ UNCHANGED <<brokerVars, ledger, approvers, revoker, reconciling, ready>>

\* The route, the agent or the connection is not what was prepared for; or
\* the process dies.  Nothing was recorded yet.
CallRefused(c) ==
  /\ calls[c].at = "checked"
  /\ calls' = [calls EXCEPT ![c] = NoCall]
  /\ UNCHANGED <<brokerVars, ledger, approvers, revoker, reconciling, ready>>

RecordRequest(c) ==
  /\ calls[c].at = "checked"
  /\ requested' = Append(requested, c)
  /\ calls' = [calls EXCEPT ![c].at = "requested"]
  /\ UNCHANGED <<brokerVars, outcome, granted, stamped, voided, revoked,
                 approvers, revoker, reconciling, ready>>

Send(c) ==
  /\ calls[c].at = "requested"
  /\ \E b \in Attempts : Deliver(b, c, calls[c].approval)
  /\ calls' = [calls EXCEPT ![c].at = "waiting"]
  /\ UNCHANGED <<ledger, approvers, revoker, reconciling, ready>>

\* External: the transport delivers a request once more.
Redeliver(c) ==
  /\ \E b \in Attempts :
       /\ attempts[b].req = c
       /\ \E d \in Attempts : Deliver(d, c, attempts[b].approval)
  /\ UNCHANGED <<ledger, actors, ready>>

\* Mutant of Backed: the caller's own answer is taken for the receipt.
Unbacked(answer, r) == answer # Nothing

\* The hosted ledger takes a receipt only if it is the broker's durable one.
Backed(answer, r) == Hosted => answer = responses[r]

Return(c) ==
  /\ calls[c].at = "waiting"
  /\ \E b \in Attempts :
       /\ attempts[b].req = c /\ At(b, "done")
       /\ LET answer == attempts[b].answer IN
          CASE answer = Error -> Record(c, "failed")
            [] answer # Error /\ Backed(answer, c) ->
                 Record(c, IF answer.status = "succeeded" THEN "succeeded" ELSE "failed")
            [] OTHER -> UNCHANGED ledger
  /\ calls' = [calls EXCEPT ![c] = NoCall]
  /\ UNCHANGED <<brokerVars, approvers, revoker, reconciling, ready>>

\* The client gives up after 15 seconds, or the connection breaks: the same
\* catch block records a failure.
TimesOut(c) ==
  /\ calls[c].at = "waiting"
  /\ Record(c, "failed")
  /\ calls' = [calls EXCEPT ![c] = NoCall]
  /\ UNCHANGED <<brokerVars, approvers, revoker, reconciling, ready>>

\* The App process dies with its commit on record.
CallDies(c) ==
  /\ calls[c].at \in {"requested", "waiting"} /\ crashes < MaxCrashes
  /\ calls' = [calls EXCEPT ![c] = NoCall]
  /\ crashes' = crashes + 1
  /\ UNCHANGED <<approvalRequired, prepared, expired, grants, lapsed,
                 reservations, responses, attempts, acted, faults, ledger,
                 approvers, revoker, reconciling, ready>>

-----------------------------------------------------------------------------
\* reconcileAction, called by the agent or by the reconciliation worker.

\* An interrupted request is looked for, the newest if there are two: which one
\* that is depends on the clocks of two calls.  Any terminal event stops it.
StartReconcile ==
  /\ reconciling = NoRequest
  /\ ~revoked /\ Settled = {}
  /\ \E r \in Interrupted : reconciling' = r
  /\ UNCHANGED <<brokerVars, ledger, calls, approvers, revoker, ready>>

\* Mutant of Reconcile: only a success is copied.
ReconcileSuccess ==
  /\ reconciling # NoRequest
  /\ LET r == reconciling IN
     IF responses[r].status = "succeeded" THEN Record(r, "succeeded")
                                          ELSE UNCHANGED ledger
  /\ reconciling' = NoRequest
  /\ UNCHANGED <<brokerVars, calls, approvers, revoker, ready>>

\* Job, problem, assignment and environment are compared with the action, and
\* what the broker answers with the request.  Its receipt is copied; without one
\* the outcome stays open.  A receipt never changes, so asking and recording is
\* one step.
Reconcile ==
  /\ reconciling # NoRequest
  /\ LET r == reconciling IN
     CASE responses[r].status = "succeeded" -> Record(r, "succeeded")
       [] responses[r].status = "refused" -> Record(r, "failed")
       [] OTHER -> UNCHANGED ledger
  /\ reconciling' = NoRequest
  /\ UNCHANGED <<brokerVars, calls, approvers, revoker, ready>>

\* One of the comparisons fails, or the broker or a store cannot be reached.
ReconcileRefused ==
  /\ reconciling # NoRequest
  /\ reconciling' = NoRequest
  /\ UNCHANGED <<brokerVars, ledger, calls, approvers, revoker, ready>>

\* The worker reconciles the 25 oldest interrupted requests of the workspace.
\* Others go ahead of this action's, and some of them may never be settled, so
\* its turn may never come.  The job may be run anew, the assignment or the
\* problem change, and be put back.
ReadyChanges ==
  /\ Interrupted # {} /\ Settled = {} /\ ~revoked
  /\ ready' = ~ready
  /\ UNCHANGED <<brokerVars, ledger, actors>>

-----------------------------------------------------------------------------
\* approveAppOperationAction and revokeAppOperationAction

ApproverReads(a) ==
  /\ approvers[a] = "idle" /\ approvalRequired
  /\ ~expired /\ ~revoked /\ ~Committed /\ Interrupted = {}
  /\ ~\E x \in Approvals : ValidApproval(x)
  /\ approvers' = [approvers EXCEPT ![a] = "read"]
  /\ stamped' = stamped \cup {a}
  /\ UNCHANGED <<brokerVars, requested, outcome, granted, voided, revoked,
                 calls, revoker, reconciling, ready>>

ApproverChecks(a) ==
  /\ approvers[a] = "read" /\ prepared = "prepared"
  /\ approvers' = [approvers EXCEPT ![a] = "checked"]
  /\ UNCHANGED <<brokerVars, ledger, calls, revoker, reconciling, ready>>

ApproverGrants(a) ==
  /\ approvers[a] = "checked"
  /\ Grant(a)
  /\ approvers' = [approvers EXCEPT ![a] = "granted"]
  /\ UNCHANGED <<ledger, calls, revoker, reconciling, ready>>

\* To the hosted ledger the event has to be backed by a receipt that was not
\* revoked.
ApproverRecords(a) ==
  /\ approvers[a] = "granted"
  /\ Hosted => grants[a] \in {"approved", "consumed"}
  /\ granted' = granted \cup {a}
  /\ approvers' = [approvers EXCEPT ![a] = "done"]
  /\ UNCHANGED <<brokerVars, requested, outcome, stamped, voided, revoked,
                 calls, revoker, reconciling, ready>>

RevokerReads ==
  /\ revoker = "idle"
  /\ ~revoked /\ ~Committed /\ Interrupted = {}
  /\ revoker' = "read"
  /\ UNCHANGED <<brokerVars, ledger, calls, approvers, reconciling, ready>>

RevokerRevokes ==
  /\ revoker = "read"
  /\ RevokePrepared
  /\ revoker' = "revoked"
  /\ UNCHANGED <<ledger, calls, approvers, reconciling, ready>>

\* The broker refuses, or the operator gives up.
RevokerStops ==
  /\ revoker \in {"read", "revoked"}
  /\ revoker' = "idle"
  /\ UNCHANGED <<brokerVars, ledger, calls, approvers, reconciling, ready>>

\* To the hosted ledger the event has to be backed by a revoked action.
RevokerRecords ==
  /\ revoker = "revoked"
  /\ Hosted => prepared = "revoked"
  /\ revoked' = TRUE /\ revoker' = "done"
  /\ UNCHANGED <<brokerVars, requested, outcome, granted, stamped, voided,
                 calls, approvers, reconciling, ready>>

-----------------------------------------------------------------------------
Broker == BrokerStep /\ UNCHANGED <<ledger, actors, ready>>

Operators ==
  \/ \E a \in Approvals : ApproverReads(a) \/ ApproverChecks(a)
                          \/ ApproverGrants(a) \/ ApproverRecords(a)
  \/ RevokerReads \/ RevokerRevokes \/ RevokerStops \/ RevokerRecords

Call(c) ==
  \/ ReadEvents(c) \/ CallRefused(c) \/ RecordRequest(c) \/ Send(c)
  \/ Redeliver(c) \/ Return(c) \/ TimesOut(c) \/ CallDies(c)

Next ==
  \/ Broker \/ Operators
  \/ \E c \in Requests : Call(c)
  \/ StartReconcile \/ Reconcile \/ ReconcileRefused
  \/ ReadyChanges

Spec == Init /\ [][Next]_vars

\* The reconciliation worker comes back every five minutes to the actions on
\* its list.  One it has no ground to refuse it does not refuse for ever: broker
\* and store can be reached some time.
FairSpec ==
  Spec /\ WF_vars(ready /\ StartReconcile) /\ SF_vars(ready /\ Reconcile)

-----------------------------------------------------------------------------
TypeOK ==
  /\ BrokerTypeOK
  /\ requested \in Seq(Requests) /\ IsInjective(requested)
  /\ outcome \in [Requests -> SUBSET {"succeeded", "failed"}]
  /\ granted \subseteq stamped /\ voided \subseteq stamped
  /\ stamped \subseteq Approvals
  /\ revoked \in BOOLEAN
  /\ calls \in [Requests -> [at : {"idle", "checked", "requested", "waiting"},
                             approval : Approvals \cup {NoApproval}]]
  /\ approvers \in [Approvals -> {"idle", "read", "checked", "granted", "done"}]
  /\ revoker \in {"idle", "read", "revoked", "done"}
  /\ reconciling \in Requests \cup {NoRequest}
  /\ ready \in BOOLEAN

\* The ledger counts as committed only what the provider carried out under that
\* very request; the hosted one, moreover, only what the broker's durable
\* receipt of it says, whatever the caller was told.
SuccessIsActed ==
  \A r \in Requests : "succeeded" \in outcome[r] =>
    /\ \E b \in acted : attempts[b].req = r
    /\ Hosted => responses[r].status = "succeeded"

AwaitsReceipt ==
  /\ ready /\ ~revoked /\ Settled = {}
  /\ \E r \in Requests : Interrupted = {r} /\ responses[r] # Nothing

\* A commit that was interrupted after the broker answered is settled from the
\* receipt, where the worker gets to it and has no ground to refuse it: unless
\* the action is revoked, or a second commit, which had read the events before
\* the first was recorded, gets into its way.
AnsweredIsRecorded == AwaitsReceipt ~> ~AwaitsReceipt

=============================================================================
