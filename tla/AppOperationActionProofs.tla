---------------------- MODULE AppOperationActionProofs ----------------------
(***************************************************************************)
(* Theorems about AppOperationAction and the ConnectorBroker it extends,   *)
(* for any number of requests, approvals and attempts, any number of       *)
(* crashes and of lost writes.                                             *)
(*                                                                         *)
(* The first part is about the broker under any caller (BrokerSpec).  None  *)
(* of its properties is inductive.  What makes them so is kept in ClaimInv *)
(* (an action that can be claimed is in nobody's hands), OnceInv (once the *)
(* provider has acted, the claim is kept) and ApprovalInv (an attempt that *)
(* passed the approval check has an approval of its own).                  *)
(*                                                                         *)
(* The second part shows that the App is such a caller, so the invariants  *)
(* of the broker are its own (ActionInv); with ReceiptInv and AnswerInv,   *)
(* which say what a receipt and an answer stand for, they give what its    *)
(* ledger of events says.                                                  *)
(***************************************************************************)
EXTENDS AppOperationAction, TLAPS

\* An attempt that acted does not go back to a step before.
ClaimInv ==
  /\ OneAtATime
  /\ prepared = "prepared" => Committing = {}
  /\ \A b \in acted : attempts[b].at \in {"save", "undo", "refuse", "done"}

OnceInv ==
  faults = 0 /\ acted # {} =>
    /\ prepared # "prepared"
    /\ \A b \in Committing : attempts[b].at = "save"

Cleared ==
  acted \cup {b \in Attempts : attempts[b].at \in {"lookup", "claim", "reserve", "handler"}}

ApprovalInv ==
  approvalRequired =>
    /\ \A b \in Cleared : /\ attempts[b].approval \in Approvals
                          /\ grants[attempts[b].approval] = "consumed"
    /\ \A b, c \in Cleared : attempts[b].approval = attempts[c].approval => b = c

\* An attempt under way has the request it was delivered.
Delivered == \A b \in Attempts : attempts[b].at # "idle" => attempts[b].req \in Requests

BrokerNext == BrokerStep \/ Asked

\* A receipt is put where a request's receipts are.
LEMMA PutType ==
  ASSUME BrokerTypeOK, NEW b \in Attempts, NEW status \in {"succeeded", "refused"},
         NEW r, Put(r, b, status)
  PROVE  /\ responses' \in [Requests -> Response]
         /\ reservations' \in [Requests -> {"none", "held", "completed"}]
<1>1. [status |-> status, by |-> b] \in Response
  BY DEF Response
<1>2. responses \in [Requests -> Response]
  BY DEF BrokerTypeOK
<1>3. [responses EXCEPT ![r] = [status |-> status, by |-> b]] \in [Requests -> Response]
  BY <1>1, <1>2
<1>4. reservations' \in [Requests -> {"none", "held", "completed"}]
  BY DEF BrokerTypeOK, Put
<1> QED
  BY <1>2, <1>3, <1>4 DEF Put

\* The other two writes keep the types of what they write.
LEMMA WriteType ==
  ASSUME BrokerTypeOK, NEW b \in Attempts, NEW w, Write(b, w)
  PROVE  /\ responses' \in [Requests -> Response]
         /\ reservations' \in [Requests -> {"none", "held", "completed"}]
         /\ prepared' \in {"prepared", "committing", "committed", "revoked", "expired"}
<1>1. CASE w = "response" /\ Put(Req(b), b, "succeeded") /\ UNCHANGED prepared
  BY <1>1, PutType DEF BrokerTypeOK
<1>2. CASE w = "status" /\ UNCHANGED <<responses, reservations>>
             /\ prepared' = IF prepared = "committing" THEN "committed" ELSE prepared
  BY <1>2 DEF BrokerTypeOK
<1> QED
  BY <1>1, <1>2 DEF Write

\* What an attempt may answer, and that an answer is all that it changes.
LEMMA Replies ==
  /\ Error \in Reply
  /\ \A b \in Attempts : [status |-> "succeeded", by |-> b] \in Reply
  /\ \A b \in Attempts : [status |-> "refused", by |-> b] \in Reply
  /\ Response \subseteq Reply
BY DEF Error, Reply, Response

LEMMA AnswerType ==
  ASSUME BrokerTypeOK, NEW b \in Attempts, NEW a \in Reply, Answer(b, a)
  PROVE  attempts' \in [Attempts -> Attempt]
<1>1. attempts \in [Attempts -> Attempt]
  BY DEF BrokerTypeOK
<1>2. [attempts[b] EXCEPT !.at = "done", !.answer = a] \in Attempt
  BY <1>1 DEF Attempt
<1> QED
  BY <1>1, <1>2 DEF Answer

\* The attempt goes on, and knows which of its writes are still on their way.
LEMMA PendingType ==
  ASSUME BrokerTypeOK, NEW b \in Attempts, NEW left \in SUBSET Writes,
         NEW label \in {attempts[b].at, "undo", "save"}
  PROVE  [attempts[b] EXCEPT !.pending = left, !.at = label] \in Attempt
<1>1. /\ attempts[b] \in Attempt
      /\ label \in {"idle", "verify", "lookup", "claim", "reserve", "handler",
                    "save", "undo", "refuse", "done"}
  BY DEF BrokerTypeOK, Attempt
<1> QED
  BY <1>1 DEF Attempt

\* What a failing write comes to: the attempt goes into its catch block, and the
\* action may have been closed.
LEMMA FailingWrite ==
  ASSUME BrokerTypeOK, NEW b \in Attempts, WriteFails(b)
  PROVE  /\ attempts[b].at = "save" /\ attempts'[b].at = "undo"
         /\ attempts'[b].req = attempts[b].req
         /\ attempts'[b].approval = attempts[b].approval
         /\ \A c \in Attempts : c # b => attempts'[c] = attempts[c]
         /\ prepared' # prepared => prepared = "committing" /\ prepared' = "committed"
         /\ UNCHANGED <<approvalRequired, grants, acted>> /\ faults' = faults + 1
<1> USE DEF BrokerTypeOK, Attempt
<1>1. CASE Goto(b, "undo") /\ UNCHANGED prepared
  BY <1>1 DEF WriteFails, Goto, At
<1>2. ASSUME NEW w, attempts' = [attempts EXCEPT ![b].pending = @ \ {w}, ![b].at = "undo"]
      PROVE  /\ attempts'[b].at = "undo"
             /\ attempts'[b].req = attempts[b].req
             /\ attempts'[b].approval = attempts[b].approval
             /\ \A c \in Attempts : c # b => attempts'[c] = attempts[c]
  BY <1>2
<1>3. ASSUME NEW w, Write(b, w)
      PROVE  prepared' # prepared => prepared = "committing" /\ prepared' = "committed"
  BY <1>3 DEF Write
<1> QED
  BY <1>1, <1>2, <1>3 DEF WriteFails, At

\* Where a claim leads.
LEMMA ClaimLeads ==
  ASSUME NEW b \in Attempts, Claim(b)
  PROVE  \/ Goto(b, "refuse") /\ prepared' \in {prepared, "expired"}
         \/ Goto(b, "reserve") /\ prepared = "prepared" /\ prepared' = "committing"
BY DEF Claim

\* Every step keeps the types.
LEMMA TypeStep ==
  ASSUME BrokerTypeOK, Delivered, [BrokerNext]_brokerVars
  PROVE  BrokerTypeOK'
<1> USE ConnectorBrokerAssumption
<1>1. ASSUME NEW b \in Attempts, NEW r \in Requests,
             NEW a \in Approvals \cup {NoApproval}, Deliver(b, r, a)
      PROVE  BrokerTypeOK'
  <2>1. attempts' \in [Attempts -> Attempt]
    BY <1>1 DEF BrokerTypeOK, Attempt, Deliver, Accepted, Thrown, Error
  <2> QED
    BY <1>1, <2>1 DEF BrokerTypeOK, Deliver, Accepted, Thrown
<1>2. ASSUME NEW b \in Attempts, Verify(b) PROVE BrokerTypeOK'
  <2>1. attempts' \in [Attempts -> Attempt]
    BY <1>2 DEF BrokerTypeOK, Attempt, Verify, Goto
  <2> QED
    BY <1>2, <2>1 DEF BrokerTypeOK, Verify, At, Usable
<1>3. ASSUME NEW b \in Attempts, Lookup(b) PROVE BrokerTypeOK'
  <2>1. attempts' \in [Attempts -> Attempt]
    <3>1. CASE Goto(b, "claim") \/ Goto(b, "refuse")
      BY <3>1 DEF BrokerTypeOK, Attempt, Goto
    <3>2. CASE Answer(b, responses[Req(b)]) /\ Req(b) \in Requests
      BY <3>2, Replies, AnswerType DEF BrokerTypeOK
    <3>3. Req(b) \in Requests
      BY <1>3 DEF Lookup, At, Req, Delivered
    <3> QED
      BY <1>3, <3>1, <3>2, <3>3 DEF Lookup
  <2> QED
    BY <1>3, <2>1 DEF BrokerTypeOK, Lookup
<1>4. ASSUME NEW b \in Attempts, Claim(b) PROVE BrokerTypeOK'
  <2>1. attempts' \in [Attempts -> Attempt]
    BY <1>4, ClaimLeads DEF BrokerTypeOK, Attempt, Goto
  <2> QED
    BY <1>4, <2>1 DEF BrokerTypeOK, Claim
<1>5. ASSUME NEW b \in Attempts, Reserve(b) PROVE BrokerTypeOK'
  <2>1. attempts' \in [Attempts -> Attempt]
    BY <1>5 DEF BrokerTypeOK, Attempt, Reserve, Goto
  <2> QED
    BY <1>5, <2>1 DEF BrokerTypeOK, Reserve, Reopen, Req
<1>6. ASSUME NEW b \in Attempts, ProviderActs(b) PROVE BrokerTypeOK'
  <2>1. attempts' \in [Attempts -> Attempt]
    <3>1. [attempts[b] EXCEPT !.at = "save", !.pending = Writes] \in Attempt
      BY DEF BrokerTypeOK, Attempt
    <3> QED
      BY <1>6, <3>1 DEF BrokerTypeOK, ProviderActs
  <2> QED
    BY <1>6, <2>1 DEF BrokerTypeOK, ProviderActs
<1>7. ASSUME NEW b \in Attempts, ProviderFails(b) PROVE BrokerTypeOK'
  <2>1. attempts' \in [Attempts -> Attempt]
    BY <1>7 DEF BrokerTypeOK, Attempt, ProviderFails, Goto
  <2> QED
    BY <1>7, <2>1 DEF BrokerTypeOK, ProviderFails
<1>8. ASSUME NEW b \in Attempts, Land(b) PROVE BrokerTypeOK'
  <2>1. PICK w \in attempts[b].pending : attempts' = [attempts EXCEPT ![b].pending = @ \ {w}]
    BY <1>8 DEF Land
  <2>2. attempts[b].pending \ {w} \in SUBSET Writes
    BY DEF BrokerTypeOK, Attempt
  <2>3. [attempts[b] EXCEPT !.pending = attempts[b].pending \ {w}] \in Attempt
    BY <2>2 DEF BrokerTypeOK, Attempt
  <2>4. attempts' \in [Attempts -> Attempt]
    BY <2>1, <2>3 DEF BrokerTypeOK
  <2> QED
    BY <1>8, <2>4, WriteType DEF BrokerTypeOK, Land
<1>9. ASSUME NEW b \in Attempts, Finish(b) PROVE BrokerTypeOK'
  <2>1. attempts' \in [Attempts -> Attempt]
    BY <1>9, Replies, AnswerType DEF Finish
  <2> QED
    BY <1>9, <2>1 DEF BrokerTypeOK, Finish
<1>10. ASSUME NEW b \in Attempts, Undo(b) PROVE BrokerTypeOK'
  <2>1. attempts' \in [Attempts -> Attempt]
    BY <1>10 DEF BrokerTypeOK, Attempt, Undo, Goto
  <2> QED
    BY <1>10, <2>1 DEF BrokerTypeOK, Undo, Reopen
<1>11. ASSUME NEW b \in Attempts, Refuse(b) PROVE BrokerTypeOK'
  <2>1. attempts' \in [Attempts -> Attempt]
    BY <1>11, Replies, AnswerType DEF Refuse
  <2> QED
    BY <1>11, <2>1, PutType DEF BrokerTypeOK, Refuse
<1>12. ASSUME NEW b \in Attempts, WriteFails(b) PROVE BrokerTypeOK'
  <2>1. CASE Goto(b, "undo") /\ UNCHANGED <<prepared, responses, reservations>>
    <3>1. attempts' \in [Attempts -> Attempt]
      BY <2>1 DEF BrokerTypeOK, Attempt, Goto
    <3> QED
      BY <1>12, <2>1, <3>1 DEF BrokerTypeOK, WriteFails
  <2>2. ASSUME NEW w \in attempts[b].pending,
               Write(b, w) \/ UNCHANGED <<prepared, responses, reservations>>,
               attempts' = [attempts EXCEPT ![b].pending = @ \ {w}, ![b].at = "undo"]
        PROVE  BrokerTypeOK'
    <3>0. attempts[b].pending \ {w} \in SUBSET Writes
      BY DEF BrokerTypeOK, Attempt
    <3>1. [attempts[b] EXCEPT !.pending = @ \ {w}, !.at = "undo"] \in Attempt
      BY <3>0, PendingType
    <3>2. attempts' \in [Attempts -> Attempt]
      BY <2>2, <3>1 DEF BrokerTypeOK
    <3>3. /\ responses' \in [Requests -> Response]
          /\ reservations' \in [Requests -> {"none", "held", "completed"}]
          /\ prepared' \in {"prepared", "committing", "committed", "revoked", "expired"}
      BY <2>2, WriteType DEF BrokerTypeOK
    <3> QED
      BY <1>12, <3>2, <3>3 DEF BrokerTypeOK, WriteFails
  <2> QED
    BY <1>12, <2>1, <2>2 DEF WriteFails
<1>13. ASSUME NEW b \in Attempts, AnswerFails(b) PROVE BrokerTypeOK'
  <2>1. attempts' \in [Attempts -> Attempt]
    BY <1>13, Replies, AnswerType DEF AnswerFails
  <2> QED
    BY <1>13, <2>1 DEF BrokerTypeOK, AnswerFails
<1>14. ASSUME NEW b \in Attempts, AttemptDies(b) PROVE BrokerTypeOK'
  <2>1. attempts' \in [Attempts -> Attempt]
    <3>1. [attempts[b] EXCEPT !.at = "done", !.answer = Error, !.pending = {}] \in Attempt
      <4>1. attempts[b] \in Attempt
        BY DEF BrokerTypeOK
      <4>2. Error \in Reply
        BY Replies
      <4> QED
        BY <4>1, <4>2 DEF Attempt
    <3> QED
      BY <1>14, <3>1 DEF BrokerTypeOK, AttemptDies
  <2> QED
    BY <1>14, <2>1 DEF BrokerTypeOK, AttemptDies
<1>15. ASSUME DisableConnector PROVE BrokerTypeOK'
  BY <1>15 DEF BrokerTypeOK, DisableConnector, WithoutApprovals
<1>16. ASSUME Expire PROVE BrokerTypeOK'
  BY <1>16 DEF BrokerTypeOK, Expire
<1>17. ASSUME NEW a \in Approvals, Lapse(a) PROVE BrokerTypeOK'
  BY <1>17 DEF BrokerTypeOK, Lapse
<1>18. ASSUME NEW a \in Approvals, Grant(a), grants[a] = "none" PROVE BrokerTypeOK'
  BY <1>18 DEF BrokerTypeOK, Grant
<1>19. ASSUME RevokePrepared PROVE BrokerTypeOK'
  BY <1>19 DEF BrokerTypeOK, RevokePrepared, WithoutApprovals
<1>20. ASSUME UNCHANGED brokerVars PROVE BrokerTypeOK'
  BY <1>20 DEF BrokerTypeOK, brokerVars
<1> QED
  BY <1>1, <1>2, <1>3, <1>4, <1>5, <1>6, <1>7, <1>8, <1>9, <1>10,
     <1>11, <1>12, <1>13, <1>14, <1>15, <1>16, <1>17, <1>18, <1>19, <1>20
     DEF BrokerNext, BrokerStep, Asked, AttemptStep

\* Every step keeps the request of an attempt.
LEMMA DeliveredStep ==
  ASSUME BrokerTypeOK, Delivered, [BrokerNext]_brokerVars
  PROVE  Delivered'
<1> USE DEF BrokerTypeOK, Attempt, Delivered, At
<1>1. ASSUME NEW b \in Attempts, NEW r \in Requests,
             NEW a \in Approvals \cup {NoApproval}, Deliver(b, r, a)
      PROVE  Delivered'
  BY <1>1 DEF Deliver, Accepted, Thrown
<1>2. ASSUME NEW b \in Attempts, Verify(b) PROVE Delivered'
  BY <1>2 DEF Verify, Goto
<1>3. ASSUME NEW b \in Attempts, Lookup(b) PROVE Delivered'
  BY <1>3 DEF Lookup, Goto, Answer
<1>4. ASSUME NEW b \in Attempts, Claim(b) PROVE Delivered'
  BY <1>4 DEF Claim, Goto
<1>5. ASSUME NEW b \in Attempts, Reserve(b) PROVE Delivered'
  BY <1>5 DEF Reserve, Goto
<1>6. ASSUME NEW b \in Attempts, ProviderActs(b) PROVE Delivered'
  BY <1>6 DEF ProviderActs
<1>7. ASSUME NEW b \in Attempts, ProviderFails(b) PROVE Delivered'
  BY <1>7 DEF ProviderFails, Goto
<1>8. ASSUME NEW b \in Attempts, Land(b) PROVE Delivered'
  BY <1>8 DEF Land
<1>9. ASSUME NEW b \in Attempts, Finish(b) PROVE Delivered'
  BY <1>9 DEF Finish, Answer
<1>10. ASSUME NEW b \in Attempts, Undo(b) PROVE Delivered'
  BY <1>10 DEF Undo, Goto
<1>11. ASSUME NEW b \in Attempts, Refuse(b) PROVE Delivered'
  BY <1>11 DEF Refuse, Answer
<1>12. ASSUME NEW b \in Attempts, WriteFails(b) PROVE Delivered'
  BY <1>12, FailingWrite
<1>13. ASSUME NEW b \in Attempts, AnswerFails(b) PROVE Delivered'
  BY <1>13 DEF AnswerFails, Answer
<1>14. ASSUME NEW b \in Attempts, AttemptDies(b) PROVE Delivered'
  BY <1>14 DEF AttemptDies
<1>15. ASSUME \/ DisableConnector \/ Expire \/ RevokePrepared \/ UNCHANGED brokerVars
              \/ \E a \in Approvals : Lapse(a) \/ Grant(a)
       PROVE  Delivered'
  BY <1>15 DEF DisableConnector, Expire, RevokePrepared, Lapse, Grant, brokerVars
<1> QED
  BY <1>1, <1>2, <1>3, <1>4, <1>5, <1>6, <1>7, <1>8, <1>9, <1>10, <1>11, <1>12, <1>13, <1>14, <1>15
     DEF BrokerNext, BrokerStep, Asked, AttemptStep

\* Every step keeps the claim exclusive: only the holder gives it back.
LEMMA ClaimStep ==
  ASSUME BrokerTypeOK, ClaimInv, [BrokerNext]_brokerVars
  PROVE  ClaimInv'
<1> USE ConnectorBrokerAssumption DEF BrokerTypeOK, Attempt, ClaimInv, OneAtATime, Committing, At
<1>1. ASSUME NEW b \in Attempts, NEW r \in Requests,
             NEW a \in Approvals \cup {NoApproval}, Deliver(b, r, a)
      PROVE  ClaimInv'
  BY <1>1 DEF Deliver, Accepted, Thrown, Error
<1>2. ASSUME NEW b \in Attempts, Verify(b) PROVE ClaimInv'
  <2>1. /\ attempts[b].at = "verify" /\ UNCHANGED <<prepared, acted>>
        /\ attempts' = [attempts EXCEPT ![b].at = "lookup"]
           \/ attempts' = [attempts EXCEPT ![b].at = "refuse"]
    BY <1>2 DEF Verify, At, Goto
  <2> QED
    BY <2>1
<1>3. ASSUME NEW b \in Attempts, Lookup(b) PROVE ClaimInv'
  BY <1>3 DEF Lookup, Goto, Answer, Req, Nothing
<1>4. ASSUME NEW b \in Attempts, Claim(b) PROVE ClaimInv'
  <2>1. CASE Goto(b, "refuse") /\ prepared' \in {prepared, "expired"}
    BY <1>4, <2>1 DEF Claim, Goto
  <2>2. CASE Goto(b, "reserve") /\ prepared = "prepared" /\ prepared' = "committing"
    BY <1>4, <2>2 DEF Claim, Goto
  <2> QED
    BY <1>4, <2>1, <2>2, ClaimLeads
<1>5. ASSUME NEW b \in Attempts, Reserve(b) PROVE ClaimInv'
  BY <1>5 DEF Reserve, Reopen, Goto, Req
<1>6. ASSUME NEW b \in Attempts, ProviderActs(b) PROVE ClaimInv'
  BY <1>6 DEF ProviderActs
<1>7. ASSUME NEW b \in Attempts, ProviderFails(b) PROVE ClaimInv'
  BY <1>7 DEF ProviderFails, Goto
<1>8. ASSUME NEW b \in Attempts, Land(b) PROVE ClaimInv'
  BY <1>8 DEF Land, Write, Put, Req, Nothing
<1>9. ASSUME NEW b \in Attempts, Finish(b) PROVE ClaimInv'
  BY <1>9 DEF Finish, Answer
<1>10. ASSUME NEW b \in Attempts, Undo(b) PROVE ClaimInv'
  BY <1>10 DEF Undo, Reopen, Goto
<1>11. ASSUME NEW b \in Attempts, Refuse(b) PROVE ClaimInv'
  BY <1>11 DEF Refuse, Put, Answer, Req, Nothing
<1>12. ASSUME NEW b \in Attempts, WriteFails(b) PROVE ClaimInv'
  BY <1>12, FailingWrite
<1>13. ASSUME NEW b \in Attempts, AnswerFails(b) PROVE ClaimInv'
  BY <1>13 DEF AnswerFails, Answer, Error
<1>14. ASSUME NEW b \in Attempts, AttemptDies(b) PROVE ClaimInv'
  BY <1>14 DEF AttemptDies, Error
<1>15. ASSUME DisableConnector PROVE ClaimInv'
  BY <1>15 DEF DisableConnector, WithoutApprovals
<1>16. ASSUME Expire PROVE ClaimInv'
  BY <1>16 DEF Expire
<1>17. ASSUME NEW a \in Approvals, Lapse(a) PROVE ClaimInv'
  BY <1>17 DEF Lapse
<1>18. ASSUME NEW a \in Approvals, Grant(a), grants[a] = "none" PROVE ClaimInv'
  BY <1>18 DEF Grant
<1>19. ASSUME RevokePrepared PROVE ClaimInv'
  BY <1>19 DEF RevokePrepared, WithoutApprovals
<1>20. ASSUME UNCHANGED brokerVars PROVE ClaimInv'
  BY <1>20 DEF brokerVars
<1> QED
  BY <1>1, <1>2, <1>3, <1>4, <1>5, <1>6, <1>7, <1>8, <1>9, <1>10,
     <1>11, <1>12, <1>13, <1>14, <1>15, <1>16, <1>17, <1>18, <1>19, <1>20
     DEF BrokerNext, BrokerStep, Asked, AttemptStep

\* Without a lost write, an attempt that acted never gives the claim back.
LEMMA OnceStep ==
  ASSUME BrokerTypeOK, ClaimInv, OnceInv, ActsOnce, [BrokerNext]_brokerVars
  PROVE  OnceInv' /\ ActsOnce'
<1> USE ConnectorBrokerAssumption
    DEF BrokerTypeOK, Attempt, ClaimInv, OneAtATime, OnceInv, ActsOnce, Committing, At
<1>1. ASSUME NEW b \in Attempts, NEW r \in Requests,
             NEW a \in Approvals \cup {NoApproval}, Deliver(b, r, a)
      PROVE  OnceInv' /\ ActsOnce'
  BY <1>1 DEF Deliver, Accepted, Thrown, Error
<1>2. ASSUME NEW b \in Attempts, Verify(b) PROVE OnceInv' /\ ActsOnce'
  BY <1>2 DEF Verify, At, Goto, Usable
<1>3. ASSUME NEW b \in Attempts, Lookup(b) PROVE OnceInv' /\ ActsOnce'
  BY <1>3 DEF Lookup, Goto, Answer, Req, Nothing
<1>4. ASSUME NEW b \in Attempts, Claim(b) PROVE OnceInv' /\ ActsOnce'
  BY <1>4 DEF Claim, Goto
<1>5. ASSUME NEW b \in Attempts, Reserve(b) PROVE OnceInv' /\ ActsOnce'
  BY <1>5 DEF Reserve, Reopen, Goto, Req
<1>6. ASSUME NEW b \in Attempts, ProviderActs(b) PROVE OnceInv' /\ ActsOnce'
  BY <1>6 DEF ProviderActs
<1>7. ASSUME NEW b \in Attempts, ProviderFails(b) PROVE OnceInv' /\ ActsOnce'
  BY <1>7 DEF ProviderFails, Goto
<1>8. ASSUME NEW b \in Attempts, Land(b) PROVE OnceInv' /\ ActsOnce'
  BY <1>8 DEF Land, Write, Put, Req, Nothing
<1>9. ASSUME NEW b \in Attempts, Finish(b) PROVE OnceInv' /\ ActsOnce'
  BY <1>9 DEF Finish, Answer
<1>10. ASSUME NEW b \in Attempts, Undo(b) PROVE OnceInv' /\ ActsOnce'
  BY <1>10 DEF Undo, Reopen, Goto
<1>11. ASSUME NEW b \in Attempts, Refuse(b) PROVE OnceInv' /\ ActsOnce'
  BY <1>11 DEF Refuse, Put, Answer, Req, Nothing
<1>12. ASSUME NEW b \in Attempts, WriteFails(b) PROVE OnceInv' /\ ActsOnce'
  BY <1>12, FailingWrite
<1>13. ASSUME NEW b \in Attempts, AnswerFails(b) PROVE OnceInv' /\ ActsOnce'
  BY <1>13 DEF AnswerFails, Answer, Error
<1>14. ASSUME NEW b \in Attempts, AttemptDies(b) PROVE OnceInv' /\ ActsOnce'
  BY <1>14 DEF AttemptDies, Error
<1>15. ASSUME DisableConnector PROVE OnceInv' /\ ActsOnce'
  BY <1>15 DEF DisableConnector, WithoutApprovals
<1>16. ASSUME Expire PROVE OnceInv' /\ ActsOnce'
  BY <1>16 DEF Expire
<1>17. ASSUME NEW a \in Approvals, Lapse(a) PROVE OnceInv' /\ ActsOnce'
  BY <1>17 DEF Lapse
<1>18. ASSUME NEW a \in Approvals, Grant(a), grants[a] = "none" PROVE OnceInv' /\ ActsOnce'
  BY <1>18 DEF Grant
<1>19. ASSUME RevokePrepared PROVE OnceInv' /\ ActsOnce'
  BY <1>19 DEF RevokePrepared, WithoutApprovals
<1>20. ASSUME UNCHANGED brokerVars PROVE OnceInv' /\ ActsOnce'
  BY <1>20 DEF brokerVars
<1> QED
  BY <1>1, <1>2, <1>3, <1>4, <1>5, <1>6, <1>7, <1>8, <1>9, <1>10,
     <1>11, <1>12, <1>13, <1>14, <1>15, <1>16, <1>17, <1>18, <1>19, <1>20
     DEF BrokerNext, BrokerStep, Asked, AttemptStep

\* The approval check hands out each approval once.
LEMMA ApprovalStep ==
  ASSUME BrokerTypeOK, ClaimInv, ApprovalInv, [BrokerNext]_brokerVars
  PROVE  ApprovalInv'
<1> USE ConnectorBrokerAssumption DEF BrokerTypeOK, Attempt, ClaimInv, ApprovalInv, Cleared, At
<1>1. ASSUME NEW b \in Attempts, NEW r \in Requests,
             NEW a \in Approvals \cup {NoApproval}, Deliver(b, r, a)
      PROVE  ApprovalInv'
  <2>1. /\ UNCHANGED <<approvalRequired, grants, acted>>
        /\ \A c \in Attempts \ {b} : attempts'[c] = attempts[c]
        /\ approvalRequired => attempts'[b].at \in {"verify", "done"}
    BY <1>1 DEF Deliver, Accepted, Thrown
  <2>2. b \notin acted
    BY <1>1 DEF Deliver
  <2> QED BY <2>1, <2>2
<1>2. ASSUME NEW b \in Attempts, Verify(b) PROVE ApprovalInv'
  BY <1>2 DEF Verify, At, Goto, Usable
<1>3. ASSUME NEW b \in Attempts, Lookup(b) PROVE ApprovalInv'
  BY <1>3 DEF Lookup, Goto, Answer, Req, Nothing
<1>4. ASSUME NEW b \in Attempts, Claim(b) PROVE ApprovalInv'
  BY <1>4 DEF Claim, Goto
<1>5. ASSUME NEW b \in Attempts, Reserve(b) PROVE ApprovalInv'
  BY <1>5 DEF Reserve, Reopen, Goto, Req
<1>6. ASSUME NEW b \in Attempts, ProviderActs(b) PROVE ApprovalInv'
  BY <1>6 DEF ProviderActs
<1>7. ASSUME NEW b \in Attempts, ProviderFails(b) PROVE ApprovalInv'
  BY <1>7 DEF ProviderFails, Goto
<1>8. ASSUME NEW b \in Attempts, Land(b) PROVE ApprovalInv'
  BY <1>8 DEF Land, Write, Put, Req, Nothing
<1>9. ASSUME NEW b \in Attempts, Finish(b) PROVE ApprovalInv'
  BY <1>9 DEF Finish, Answer
<1>10. ASSUME NEW b \in Attempts, Undo(b) PROVE ApprovalInv'
  BY <1>10 DEF Undo, Reopen, Goto
<1>11. ASSUME NEW b \in Attempts, Refuse(b) PROVE ApprovalInv'
  BY <1>11 DEF Refuse, Put, Answer, Req, Nothing
<1>12. ASSUME NEW b \in Attempts, WriteFails(b) PROVE ApprovalInv'
  <2>1. Cleared' \subseteq Cleared
    BY <1>12, FailingWrite
  <2>2. \A c \in Cleared' : attempts'[c].approval = attempts[c].approval
    BY <1>12, FailingWrite
  <2>3. UNCHANGED <<approvalRequired, grants>>
    BY <1>12, FailingWrite
  <2> HIDE DEF Cleared, BrokerTypeOK
  <2> QED
    BY <2>1, <2>2, <2>3
<1>13. ASSUME NEW b \in Attempts, AnswerFails(b) PROVE ApprovalInv'
  BY <1>13 DEF AnswerFails, Answer, Error
<1>14. ASSUME NEW b \in Attempts, AttemptDies(b) PROVE ApprovalInv'
  BY <1>14 DEF AttemptDies, Error
<1>15. ASSUME DisableConnector PROVE ApprovalInv'
  BY <1>15 DEF DisableConnector, WithoutApprovals
<1>16. ASSUME Expire PROVE ApprovalInv'
  BY <1>16 DEF Expire
<1>17. ASSUME NEW a \in Approvals, Lapse(a) PROVE ApprovalInv'
  BY <1>17 DEF Lapse
<1>18. ASSUME NEW a \in Approvals, Grant(a), grants[a] = "none" PROVE ApprovalInv'
  BY <1>18 DEF Grant
<1>19. ASSUME RevokePrepared PROVE ApprovalInv'
  BY <1>19 DEF RevokePrepared, WithoutApprovals
<1>20. ASSUME UNCHANGED brokerVars PROVE ApprovalInv'
  BY <1>20 DEF brokerVars
<1> QED
  BY <1>1, <1>2, <1>3, <1>4, <1>5, <1>6, <1>7, <1>8, <1>9, <1>10,
     <1>11, <1>12, <1>13, <1>14, <1>15, <1>16, <1>17, <1>18, <1>19, <1>20
     DEF BrokerNext, BrokerStep, Asked, AttemptStep

\* No step makes a revoked or expired action available again.
LEMMA RevocationStep ==
  ASSUME BrokerTypeOK, [BrokerNext]_brokerVars
  PROVE  Withdrawn => Withdrawn'
<1> USE ConnectorBrokerAssumption DEF BrokerTypeOK, Withdrawn, At
<1>1. ASSUME NEW b \in Attempts, NEW r \in Requests,
             NEW a \in Approvals \cup {NoApproval}, Deliver(b, r, a)
      PROVE  Withdrawn => Withdrawn'
  BY <1>1 DEF Deliver, Accepted, Thrown, Error
<1>2. ASSUME NEW b \in Attempts, Verify(b) PROVE Withdrawn => Withdrawn'
  BY <1>2 DEF Verify, At, Goto, Usable
<1>3. ASSUME NEW b \in Attempts, Lookup(b) PROVE Withdrawn => Withdrawn'
  BY <1>3 DEF Lookup, Goto, Answer, Req, Nothing
<1>4. ASSUME NEW b \in Attempts, Claim(b) PROVE Withdrawn => Withdrawn'
  BY <1>4 DEF Claim, Goto
<1>5. ASSUME NEW b \in Attempts, Reserve(b) PROVE Withdrawn => Withdrawn'
  BY <1>5 DEF Reserve, Reopen, Goto, Req
<1>6. ASSUME NEW b \in Attempts, ProviderActs(b) PROVE Withdrawn => Withdrawn'
  BY <1>6 DEF ProviderActs
<1>7. ASSUME NEW b \in Attempts, ProviderFails(b) PROVE Withdrawn => Withdrawn'
  BY <1>7 DEF ProviderFails, Goto
<1>8. ASSUME NEW b \in Attempts, Land(b) PROVE Withdrawn => Withdrawn'
  BY <1>8 DEF Land, Write, Put, Req, Nothing
<1>9. ASSUME NEW b \in Attempts, Finish(b) PROVE Withdrawn => Withdrawn'
  BY <1>9 DEF Finish, Answer
<1>10. ASSUME NEW b \in Attempts, Undo(b) PROVE Withdrawn => Withdrawn'
  BY <1>10 DEF Undo, Reopen, Goto
<1>11. ASSUME NEW b \in Attempts, Refuse(b) PROVE Withdrawn => Withdrawn'
  BY <1>11 DEF Refuse, Put, Answer, Req, Nothing
<1>12. ASSUME NEW b \in Attempts, WriteFails(b) PROVE Withdrawn => Withdrawn'
  BY <1>12, FailingWrite
<1>13. ASSUME NEW b \in Attempts, AnswerFails(b) PROVE Withdrawn => Withdrawn'
  BY <1>13 DEF AnswerFails, Answer, Error
<1>14. ASSUME NEW b \in Attempts, AttemptDies(b) PROVE Withdrawn => Withdrawn'
  BY <1>14 DEF AttemptDies, Error
<1>15. ASSUME DisableConnector PROVE Withdrawn => Withdrawn'
  BY <1>15 DEF DisableConnector, WithoutApprovals
<1>16. ASSUME Expire PROVE Withdrawn => Withdrawn'
  BY <1>16 DEF Expire
<1>17. ASSUME NEW a \in Approvals, Lapse(a) PROVE Withdrawn => Withdrawn'
  BY <1>17 DEF Lapse
<1>18. ASSUME NEW a \in Approvals, Grant(a), grants[a] = "none" PROVE Withdrawn => Withdrawn'
  BY <1>18 DEF Grant
<1>19. ASSUME RevokePrepared PROVE Withdrawn => Withdrawn'
  BY <1>19 DEF RevokePrepared, WithoutApprovals
<1>20. ASSUME UNCHANGED brokerVars PROVE Withdrawn => Withdrawn'
  BY <1>20 DEF brokerVars
<1> QED
  BY <1>1, <1>2, <1>3, <1>4, <1>5, <1>6, <1>7, <1>8, <1>9, <1>10,
     <1>11, <1>12, <1>13, <1>14, <1>15, <1>16, <1>17, <1>18, <1>19, <1>20
     DEF BrokerNext, BrokerStep, Asked, AttemptStep

-----------------------------------------------------------------------------
LEMMA BrokerStart == BrokerInit => BrokerTypeOK /\ Delivered
<1>1. Nothing \in Response /\ Nothing \in Reply
  BY DEF Nothing, Response, Reply
<1>2. [at |-> "idle", req |-> NoRequest, approval |-> NoApproval,
       pending |-> {}, answer |-> Nothing] \in Attempt
  BY <1>1 DEF Attempt
<1>3. BrokerInit => attempts \in [Attempts -> Attempt] /\ Delivered
  BY <1>2 DEF BrokerInit, Delivered
<1>4. BrokerInit => responses \in [Requests -> Response]
  BY <1>1 DEF BrokerInit
<1>5. BrokerInit => /\ grants \in [Approvals -> {"none", "approved", "consumed", "revoked"}]
                    /\ reservations \in [Requests -> {"none", "held", "completed"}]
                    /\ lapsed \subseteq Approvals /\ acted \subseteq Attempts
  BY DEF BrokerInit
<1>6. BrokerInit => crashes \in 0..MaxCrashes /\ faults \in 0..MaxFaults
  BY ConnectorBrokerAssumption DEF BrokerInit
<1>7. BrokerInit => /\ approvalRequired \in BOOLEAN /\ expired \in BOOLEAN
                    /\ prepared \in {"prepared", "committing", "committed",
                                     "revoked", "expired"}
  BY DEF BrokerInit
<1> QED
  BY <1>3, <1>4, <1>5, <1>6, <1>7 DEF BrokerTypeOK

\* The types hold, and an attempt under way has a request.
THEOREM BrokerTypesHold == BrokerSpec => []BrokerTypeOK
<1>1. BrokerInit => BrokerTypeOK /\ Delivered
  BY BrokerStart
<1>2. BrokerTypeOK /\ Delivered /\ [BrokerNext]_brokerVars => (BrokerTypeOK /\ Delivered)'
  BY TypeStep, DeliveredStep
<1> QED
  BY <1>1, <1>2, PTL DEF BrokerSpec, BrokerNext

\* The claim outlives every crash, repeated delivery and revocation.
LEMMA ClaimHolds == BrokerSpec => []ClaimInv
<1>1. BrokerInit => ClaimInv
  BY DEF BrokerInit, ClaimInv, OneAtATime, Committing
<1>2. BrokerTypeOK /\ ClaimInv /\ [BrokerNext]_brokerVars => ClaimInv'
  BY ClaimStep
<1> QED
  BY <1>1, <1>2, BrokerTypesHold, PTL DEF BrokerSpec, BrokerNext

\* One attempt at a time has the action in its hands (claim_connector_prepared_action).
THEOREM OneCommitAtATime == BrokerSpec => []OneAtATime
<1>1. ClaimInv => OneAtATime
  BY DEF ClaimInv
<1> QED
  BY <1>1, ClaimHolds, PTL

\* The provider acts at most once as long as no write or answer is lost.
THEOREM ProviderActsOnce == BrokerSpec => []ActsOnce
<1>1. BrokerInit => OnceInv /\ ActsOnce
  BY DEF BrokerInit, OnceInv, ActsOnce
<1>2. BrokerTypeOK /\ ClaimInv /\ OnceInv /\ ActsOnce /\ [BrokerNext]_brokerVars
        => (OnceInv /\ ActsOnce)'
  BY OnceStep
<1> QED
  BY <1>1, <1>2, BrokerTypesHold, ClaimHolds, PTL DEF BrokerSpec, BrokerNext

\* Every time the provider acts, an approval of its own has been used up.
THEOREM EveryActIsApproved == BrokerSpec => []ActsAreApproved
<1>1. BrokerInit => ApprovalInv
  BY DEF BrokerInit, ApprovalInv, Cleared
<1>2. BrokerTypeOK /\ ClaimInv /\ ApprovalInv /\ [BrokerNext]_brokerVars => ApprovalInv'
  BY ApprovalStep
<1>3. ApprovalInv => ActsAreApproved
  BY DEF ApprovalInv, ActsAreApproved, Cleared
<1> QED
  BY <1>1, <1>2, <1>3, BrokerTypesHold, ClaimHolds, PTL DEF BrokerSpec, BrokerNext

\* A revoked or expired action stays so, whatever write is still on its way.
THEOREM RevocationIsFinal == BrokerSpec => RevocationHolds
<1>1. BrokerTypeOK /\ [BrokerNext]_brokerVars => [Withdrawn => Withdrawn']_brokerVars
  BY RevocationStep
<1> QED
  BY <1>1, BrokerTypesHold, PTL DEF BrokerSpec, BrokerNext, RevocationHolds

-----------------------------------------------------------------------------
\* Receipts.  One of a success stands for an execution under its request, and
\* so does the write that is to leave it.
Executed(r) == \E b \in acted : attempts[b].req = r

ReceiptInv ==
  /\ \A r \in Requests : responses[r].status = "succeeded" => Executed(r)
  /\ \A b \in Attempts : "response" \in attempts[b].pending => b \in acted

\* What a step of the broker leaves of receipts, executions and deliveries.
ReceiptsGrow ==
  /\ acted \subseteq acted'
  /\ \A b \in acted : attempts'[b].req = attempts[b].req
  /\ \A r \in Requests : \/ responses'[r] = responses[r]
                         \/ responses[r] = Nothing /\ responses'[r].status = "refused"
                         \/ responses[r] = Nothing /\ \E b \in acted : attempts[b].req = r
  /\ \A b \in Attempts : "response" \in attempts'[b].pending =>
       b \in acted' \/ "response" \in attempts[b].pending

LEMMA ReceiptsKept ==
  ASSUME BrokerTypeOK, ReceiptInv, ReceiptsGrow
  PROVE  /\ ReceiptInv'
         /\ \A r \in Requests : responses[r].status = "succeeded" =>
              responses'[r].status = "succeeded"
<1>1. \A r \in Requests : Executed(r) => Executed(r)'
  BY DEF Executed, ReceiptsGrow
<1>2. \A r \in Requests : responses[r].status = "succeeded" => responses[r] # Nothing
  BY DEF Nothing
<1>3. ASSUME NEW r \in Requests, responses'[r].status = "succeeded"
      PROVE  Executed(r)'
  BY <1>1, <1>3 DEF ReceiptInv, ReceiptsGrow, Executed
<1>4. ASSUME NEW b \in Attempts, "response" \in attempts'[b].pending
      PROVE  b \in acted'
  BY <1>4 DEF ReceiptInv, ReceiptsGrow
<1>5. \A r \in Requests : responses[r].status = "succeeded" => responses'[r] = responses[r]
  BY <1>2 DEF ReceiptsGrow
<1> QED
  BY <1>3, <1>4, <1>5 DEF ReceiptInv

\* Putting a receipt
LEMMA PutReceipt ==
  ASSUME BrokerTypeOK, NEW r \in Requests, NEW b, NEW status, Put(r, b, status)
  PROVE  \A q \in Requests :
           \/ responses'[q] = responses[q]
           \/ q = r /\ responses[q] = Nothing /\ responses'[q].status = status
BY DEF BrokerTypeOK, Put

\* What the writes after the execution do to receipts
LEMMA WriteReceipt ==
  ASSUME BrokerTypeOK, Delivered, ReceiptInv, NEW b \in Attempts,
         attempts[b].at # "idle" \/ b \in acted,
         b \in acted => attempts[b].at # "idle",
         NEW w \in attempts[b].pending, Write(b, w)
  PROVE  \A r \in Requests :
           \/ responses'[r] = responses[r]
           \/ responses[r] = Nothing /\ \E c \in acted : attempts[c].req = r
<1>1. CASE w = "response" /\ Put(Req(b), b, "succeeded")
  <2>1. Req(b) \in Requests /\ b \in acted
    BY <1>1 DEF Delivered, ReceiptInv, Req
  <2>2. attempts[b].req = Req(b)
    BY DEF Req
  <2> QED
    BY <1>1, <2>1, <2>2, PutReceipt
<1>2. CASE UNCHANGED responses
  BY <1>2
<1> QED
  BY <1>1, <1>2 DEF Write

LEMMA ReceiptStep ==
  ASSUME BrokerTypeOK, Delivered, ClaimInv, ReceiptInv, [BrokerNext]_brokerVars
  PROVE  ReceiptsGrow
<1>0. \A b \in acted : b \in Attempts /\ attempts[b].at # "idle"
  BY DEF BrokerTypeOK, ClaimInv
<1> DEFINE Aside == UNCHANGED <<responses, acted>>
           Same(b) == /\ attempts'[b].req = attempts[b].req
                      /\ attempts'[b].pending \subseteq attempts[b].pending
<1>1. ASSUME Aside, \A b \in Attempts : Same(b) PROVE ReceiptsGrow
  BY <1>0, <1>1 DEF ReceiptsGrow
<1>2. ASSUME NEW b \in Attempts, NEW r \in Requests,
             NEW a \in Approvals \cup {NoApproval}, Deliver(b, r, a)
      PROVE  ReceiptsGrow
  <2>1. Aside /\ attempts[b].at = "idle"
    BY <1>2 DEF Deliver, At
  <2>2. \A c \in Attempts : /\ c # b => attempts'[c] = attempts[c]
                            /\ attempts'[c].pending = attempts[c].pending
    BY <1>2 DEF Deliver, Accepted, Thrown, BrokerTypeOK, Attempt
  <2> QED
    BY <1>0, <2>1, <2>2 DEF ReceiptsGrow
<1>3. ASSUME NEW b \in Attempts, NEW l, Goto(b, l) PROVE \A c \in Attempts : Same(c)
  BY <1>3 DEF Goto, BrokerTypeOK, Attempt
<1>4. ASSUME NEW b \in Attempts, NEW x, Answer(b, x) PROVE \A c \in Attempts : Same(c)
  BY <1>4 DEF Answer, BrokerTypeOK, Attempt
<1>5. ASSUME NEW b \in Attempts, Verify(b) \/ Lookup(b) \/ Claim(b) \/ Reserve(b) PROVE ReceiptsGrow
  <2>1. Aside /\ \A c \in Attempts : Same(c)
    <3> HIDE DEF Same
    <3>1. CASE Verify(b)
      BY <1>3, <3>1 DEF Verify
    <3>2. CASE Lookup(b)
      BY <1>3, <1>4, <3>2 DEF Lookup
    <3>3. CASE Claim(b)
      BY <1>3, <3>3 DEF Claim
    <3>4. CASE Reserve(b)
      BY <1>3, <3>4 DEF Reserve
    <3> QED
      BY <1>5, <3>1, <3>2, <3>3, <3>4
  <2> QED
    BY <1>1, <2>1
<1>6. ASSUME NEW b \in Attempts, ProviderActs(b) PROVE ReceiptsGrow
  <2>1. UNCHANGED responses /\ acted' = acted \cup {b}
    BY <1>6 DEF ProviderActs
  <2>2. \A c \in Attempts : /\ attempts'[c].req = attempts[c].req
                            /\ c # b => attempts'[c] = attempts[c]
    BY <1>6 DEF ProviderActs, BrokerTypeOK, Attempt
  <2> QED
    BY <1>0, <2>1, <2>2 DEF ReceiptsGrow
<1>7. ASSUME NEW b \in Attempts, ProviderFails(b) PROVE ReceiptsGrow
  <2>1. UNCHANGED responses /\ acted \subseteq acted'
    BY <1>7 DEF ProviderFails
  <2>2. \A c \in Attempts : Same(c)
    <3> HIDE DEF Same
    <3> QED
      BY <1>3, <1>7 DEF ProviderFails
  <2> QED
    BY <1>0, <2>1, <2>2 DEF ReceiptsGrow
<1>8. ASSUME NEW b \in Attempts, UNCHANGED acted, \A c \in Attempts : Same(c),
             \/ UNCHANGED responses
             \/ attempts[b].at # "idle" /\ \E w \in attempts[b].pending : Write(b, w)
      PROVE  ReceiptsGrow
  <2>1. \A r \in Requests :
           \/ responses'[r] = responses[r]
           \/ responses[r] = Nothing /\ \E c \in acted : attempts[c].req = r
    BY <1>0, <1>8, WriteReceipt
  <2> QED
    BY <1>0, <1>8, <2>1 DEF ReceiptsGrow
<1>9. ASSUME NEW b \in Attempts, Land(b) PROVE ReceiptsGrow
  <2>1. PICK w \in attempts[b].pending :
          Write(b, w) /\ attempts' = [attempts EXCEPT ![b].pending = @ \ {w}]
    BY <1>9 DEF Land
  <2>2. UNCHANGED acted /\ \A c \in Attempts : Same(c)
    BY <1>9, <2>1 DEF Land, BrokerTypeOK, Attempt
  <2>3. CASE attempts[b].at # "idle"
    BY <1>8, <2>1, <2>2, <2>3
  <2>4. CASE w # "response"
    BY <1>8, <2>1, <2>2, <2>4 DEF Write
  <2> QED
    BY <1>0, <2>3, <2>4 DEF ReceiptInv
<1>10. ASSUME NEW b \in Attempts, Finish(b) \/ AnswerFails(b) \/ AttemptDies(b) PROVE ReceiptsGrow
  <2>1. Aside
    BY <1>10 DEF Finish, AnswerFails, AttemptDies
  <2>2. CASE Finish(b) \/ AnswerFails(b)
    <3>1. \A c \in Attempts : Same(c)
      <4> HIDE DEF Same
      <4> QED
        BY <1>4, <2>2 DEF Finish, AnswerFails
    <3> QED
      BY <1>1, <2>1, <3>1
  <2>3. CASE AttemptDies(b)
    <3>1. \A c \in Attempts : Same(c)
      BY <2>3 DEF AttemptDies, BrokerTypeOK, Attempt
    <3> QED
      BY <1>1, <2>1, <3>1
  <2> QED
    BY <1>10, <2>2, <2>3
<1>11. ASSUME NEW b \in Attempts, Undo(b) PROVE ReceiptsGrow
  <2>1. Aside /\ \A c \in Attempts : Same(c)
    <3> HIDE DEF Same
    <3> QED
      BY <1>3, <1>11 DEF Undo
  <2> QED
    BY <1>1, <2>1
<1>12. ASSUME NEW b \in Attempts, Refuse(b) PROVE ReceiptsGrow
  <2>1. UNCHANGED acted /\ \A c \in Attempts : Same(c)
    <3> HIDE DEF Same
    <3> QED
      BY <1>4, <1>12 DEF Refuse
  <2>2. Req(b) \in Requests /\ Put(Req(b), b, "refused")
    BY <1>12 DEF Refuse, Delivered, Req, At
  <2>3. \A q \in Requests : \/ responses'[q] = responses[q]
                            \/ responses[q] = Nothing /\ responses'[q].status = "refused"
    BY <2>2, PutReceipt
  <2> QED
    BY <1>0, <2>1, <2>3 DEF ReceiptsGrow
<1>13. ASSUME NEW b \in Attempts, WriteFails(b) PROVE ReceiptsGrow
  <2>1. UNCHANGED acted /\ attempts[b].at = "save"
    BY <1>13 DEF WriteFails, At
  <2>2. CASE Goto(b, "undo") /\ UNCHANGED responses
    <3>1. \A c \in Attempts : Same(c)
      <4> HIDE DEF Same
      <4> QED
        BY <1>3, <2>2
    <3> QED
      BY <1>8, <2>1, <2>2, <3>1
  <2>3. ASSUME NEW w \in attempts[b].pending, Write(b, w) \/ UNCHANGED responses,
               attempts' = [attempts EXCEPT ![b].pending = @ \ {w}, ![b].at = "undo"]
        PROVE  ReceiptsGrow
    <3>1. \A c \in Attempts : Same(c)
      BY <2>3 DEF BrokerTypeOK, Attempt
    <3> HIDE DEF Same
    <3> QED
      BY <1>8, <2>1, <2>3, <3>1
  <2> QED
    BY <1>13, <2>2, <2>3 DEF WriteFails
<1>14. ASSUME \/ DisableConnector \/ Expire \/ RevokePrepared \/ UNCHANGED brokerVars
              \/ \E a \in Approvals : Lapse(a) \/ Grant(a)
       PROVE  ReceiptsGrow
  <2>1. Aside /\ UNCHANGED attempts
    BY <1>14 DEF DisableConnector, Expire, RevokePrepared, Lapse, Grant, brokerVars
  <2> QED
    BY <1>1, <2>1
<1> QED
  BY <1>2, <1>5, <1>6, <1>7, <1>9, <1>10, <1>11, <1>12, <1>13, <1>14
     DEF BrokerNext, BrokerStep, Asked, AttemptStep

\* A caller is told of a success only if its request was carried out.
AnswerInv ==
  \A b \in Attempts : /\ attempts[b].at = "save" => b \in acted
                      /\ attempts[b].at = "idle" => attempts[b].answer.status # "succeeded"
                      /\ attempts[b].answer.status = "succeeded" => Executed(attempts[b].req)

LEMMA AnswerStep ==
  ASSUME BrokerTypeOK, Delivered, ReceiptInv, AnswerInv, ReceiptsGrow, [BrokerNext]_brokerVars
  PROVE  AnswerInv'
<1>0. /\ \A r : Executed(r) => Executed(r)'
      /\ acted \subseteq acted'
  BY DEF Executed, ReceiptsGrow
<1> DEFINE Kept(c) == /\ attempts'[c].req = attempts[c].req
                      /\ attempts'[c].answer = attempts[c].answer
                      /\ attempts'[c].at \in {"save", "idle"} => attempts'[c].at = attempts[c].at
<1>1. ASSUME \A c \in Attempts : Kept(c) PROVE AnswerInv'
  BY <1>0, <1>1 DEF AnswerInv
<1>2. ASSUME NEW b \in Attempts, \A c \in Attempts \ {b} : Kept(c),
             attempts'[b].req = attempts[b].req, attempts'[b].at = "done",
             attempts'[b].answer.status = "succeeded" => Executed(attempts[b].req)
      PROVE  AnswerInv'
  BY <1>0, <1>2 DEF AnswerInv
<1>3. ASSUME NEW b \in Attempts, NEW l, l \notin {"save", "idle"}, Goto(b, l) PROVE AnswerInv'
  <2>1. \A c \in Attempts : Kept(c)
    BY <1>3 DEF Goto, BrokerTypeOK, Attempt
  <2> QED
    BY <1>1, <2>1
<1>4. ASSUME NEW b \in Attempts, NEW x, Answer(b, x),
             x.status = "succeeded" => Executed(attempts[b].req)
      PROVE  AnswerInv'
  <2>1. /\ \A c \in Attempts \ {b} : Kept(c)
        /\ attempts'[b].req = attempts[b].req /\ attempts'[b].at = "done"
        /\ attempts'[b].answer = x
    BY <1>4 DEF Answer, BrokerTypeOK, Attempt
  <2> HIDE DEF Kept
  <2> QED
    BY <1>2, <1>4, <2>1
<1>5. Error.status # "succeeded"
  BY DEF Error
<1> HIDE DEF Kept
<1>6. ASSUME NEW b \in Attempts, NEW r \in Requests,
             NEW a \in Approvals \cup {NoApproval}, Deliver(b, r, a)
      PROVE  AnswerInv'
  <2>1. /\ \A c \in Attempts \ {b} : attempts'[c] = attempts[c]
        /\ attempts'[b].at \notin {"save", "idle"}
        /\ attempts'[b].answer \in {attempts[b].answer, Error}
        /\ attempts[b].at = "idle"
    BY <1>6 DEF Deliver, Accepted, Thrown, At, BrokerTypeOK, Attempt
  <2> QED
    BY <1>0, <1>5, <2>1 DEF AnswerInv
<1>7. ASSUME NEW b \in Attempts, Verify(b) \/ Claim(b) \/ Reserve(b) \/ ProviderFails(b) \/ Undo(b)
      PROVE  AnswerInv'
  <2>1. CASE Verify(b)
    BY <1>3, <2>1 DEF Verify
  <2>2. CASE Claim(b)
    BY <1>3, <2>2 DEF Claim
  <2>3. CASE Reserve(b)
    BY <1>3, <2>3 DEF Reserve
  <2>4. CASE ProviderFails(b) \/ Undo(b)
    BY <1>3, <2>4 DEF ProviderFails, Undo
  <2> QED
    BY <1>7, <2>1, <2>2, <2>3, <2>4
<1>8. ASSUME NEW b \in Attempts, Lookup(b) PROVE AnswerInv'
  <2>1. Goto(b, "claim") \/ Goto(b, "refuse") \/ Answer(b, responses[Req(b)])
    BY <1>8 DEF Lookup
  <2>2. Req(b) \in Requests /\ Req(b) = attempts[b].req
    BY <1>8 DEF Lookup, Delivered, At, Req
  <2>3. responses[Req(b)].status = "succeeded" => Executed(attempts[b].req)
    BY <2>2 DEF ReceiptInv
  <2> QED
    BY <1>3, <1>4, <2>1, <2>3
<1>9. ASSUME NEW b \in Attempts, ProviderActs(b) PROVE AnswerInv'
  <2>1. /\ acted' = acted \cup {b}
        /\ \A c \in Attempts \ {b} : attempts'[c] = attempts[c]
        /\ attempts'[b].at = "save" /\ attempts'[b].req = attempts[b].req
        /\ attempts'[b].answer = attempts[b].answer
    BY <1>9 DEF ProviderActs, BrokerTypeOK, Attempt
  <2> QED
    BY <1>0, <2>1 DEF AnswerInv
<1>10. ASSUME NEW b \in Attempts, Land(b) PROVE AnswerInv'
  <2>1. \A c \in Attempts : Kept(c)
    BY <1>10 DEF Land, Kept, BrokerTypeOK, Attempt
  <2> QED
    BY <1>1, <2>1
<1>11. ASSUME NEW b \in Attempts, Finish(b) PROVE AnswerInv'
  <2>1. b \in acted
    BY <1>11 DEF Finish, At, AnswerInv
  <2>2. Executed(attempts[b].req)
    BY <2>1 DEF Executed
  <2> QED
    BY <1>4, <1>11, <2>2 DEF Finish
<1>12. ASSUME NEW b \in Attempts, Refuse(b) \/ AnswerFails(b) PROVE AnswerInv'
  <2>1. Answer(b, [status |-> "refused", by |-> b]) \/ Answer(b, Error)
    BY <1>12 DEF Refuse, AnswerFails
  <2> QED
    BY <1>4, <1>5, <2>1
<1>13. ASSUME NEW b \in Attempts, WriteFails(b) PROVE AnswerInv'
  <2>1. \A c \in Attempts : Kept(c)
    <3>1. CASE Goto(b, "undo")
      BY <3>1 DEF Goto, Kept, BrokerTypeOK, Attempt
    <3>2. ASSUME NEW w, attempts' = [attempts EXCEPT ![b].pending = @ \ {w}, ![b].at = "undo"]
          PROVE  \A c \in Attempts : Kept(c)
      BY <3>2 DEF Kept, BrokerTypeOK, Attempt
    <3> QED
      BY <1>13, <3>1, <3>2 DEF WriteFails
  <2> QED
    BY <1>1, <2>1
<1>14. ASSUME NEW b \in Attempts, AttemptDies(b) PROVE AnswerInv'
  <2>1. /\ \A c \in Attempts \ {b} : Kept(c)
        /\ attempts'[b].req = attempts[b].req /\ attempts'[b].at = "done"
        /\ attempts'[b].answer = Error
    BY <1>14 DEF AttemptDies, Kept, BrokerTypeOK, Attempt
  <2> QED
    BY <1>2, <1>5, <2>1
<1>15. ASSUME \/ DisableConnector \/ Expire \/ RevokePrepared \/ UNCHANGED brokerVars
              \/ \E a \in Approvals : Lapse(a) \/ Grant(a)
       PROVE  AnswerInv'
  <2>1. UNCHANGED attempts
    BY <1>15 DEF DisableConnector, Expire, RevokePrepared, Lapse, Grant, brokerVars
  <2>2. \A c \in Attempts : Kept(c)
    BY <2>1 DEF Kept
  <2> QED
    BY <1>1, <2>2
<1> QED
  BY <1>6, <1>7, <1>8, <1>9, <1>10, <1>11, <1>12, <1>13, <1>14, <1>15
     DEF BrokerNext, BrokerStep, Asked, AttemptStep

-----------------------------------------------------------------------------
\* The App over the broker.  To the broker the App is one caller of many, but
\* for the crashes, which are counted together.
BrokerInv ==
  /\ BrokerTypeOK /\ Delivered /\ ClaimInv /\ OnceInv /\ ActsOnce /\ ApprovalInv
  /\ ReceiptInv /\ AnswerInv

DiesElsewhere ==
  /\ crashes' \in 0..MaxCrashes
  /\ UNCHANGED <<approvalRequired, prepared, expired, grants, lapsed, reservations,
                 responses, attempts, acted, faults>>

BrokerMove == [BrokerNext]_brokerVars \/ DiesElsewhere

LEMMA BrokerInvStep ==
  ASSUME BrokerInv, BrokerMove
  PROVE  /\ BrokerInv'
         /\ \A r \in Requests : responses[r].status = "succeeded" =>
              responses'[r].status = "succeeded"
         /\ \A r \in Requests : Executed(r) => Executed(r)'
         /\ Withdrawn => Withdrawn'
<1>1. CASE [BrokerNext]_brokerVars
  <2>1. BrokerTypeOK' /\ Delivered' /\ ClaimInv'
    BY <1>1, TypeStep, DeliveredStep, ClaimStep DEF BrokerInv
  <2>2. OnceInv' /\ ActsOnce' /\ ApprovalInv'
    BY <1>1, OnceStep, ApprovalStep DEF BrokerInv
  <2>3. Withdrawn => Withdrawn'
    BY <1>1, RevocationStep DEF BrokerInv
  <2>4. ReceiptsGrow
    BY <1>1, ReceiptStep DEF BrokerInv
  <2>5. /\ ReceiptInv'
        /\ \A r \in Requests : responses[r].status = "succeeded" =>
             responses'[r].status = "succeeded"
    BY <2>4, ReceiptsKept DEF BrokerInv
  <2>6. AnswerInv'
    BY <1>1, <2>4, AnswerStep DEF BrokerInv
  <2>7. \A r \in Requests : Executed(r) => Executed(r)'
    BY <2>4 DEF Executed, ReceiptsGrow
  <2> QED
    BY <2>1, <2>2, <2>3, <2>5, <2>6, <2>7 DEF BrokerInv
<1>2. CASE DiesElsewhere
  <2> USE <1>2 DEF DiesElsewhere, BrokerInv
  <2>1. BrokerTypeOK' /\ Delivered'
    BY DEF BrokerTypeOK, Delivered
  <2>2. ClaimInv'
    BY DEF ClaimInv, OneAtATime, Committing
  <2>3. OnceInv' /\ ActsOnce'
    BY DEF OnceInv, ActsOnce, Committing
  <2>4. ApprovalInv'
    BY DEF ApprovalInv, Cleared
  <2>5. ReceiptInv' /\ AnswerInv' /\ \A r \in Requests : Executed(r) => Executed(r)'
    BY DEF ReceiptInv, AnswerInv, Executed
  <2> QED
    BY <2>1, <2>2, <2>3, <2>4, <2>5 DEF Withdrawn
<1> QED
  BY <1>1, <1>2 DEF BrokerMove

\* Who has the events in hand: a call that is about to record its request finds
\* it not recorded, and an approver that has not granted has no receipt yet.
CallsInOrder == \A c \in Requests : calls[c].at = "checked" => c \notin ToSet(requested)

GrantsInOrder ==
  \A a \in Approvals : /\ approvers[a] \in {"idle", "read", "checked"} => grants[a] = "none"
                       /\ approvers[a] # "idle" => a \in stamped

\* The part of TypeOK that is the App's.
LedgerOK ==
  /\ requested \in Seq(Requests) /\ IsInjective(requested)
  /\ outcome \in [Requests -> SUBSET {"succeeded", "failed"}]
  /\ granted \subseteq stamped /\ voided \subseteq stamped
  /\ stamped \subseteq Approvals
  /\ revoked \in BOOLEAN
  /\ calls \in [Requests -> [at : {"idle", "checked", "requested", "waiting"},
                             approval : Approvals \cup {NoApproval}]]
  /\ approvers \in [Approvals -> {"idle", "read", "checked", "granted", "done"}]
  /\ revoker \in {"idle", "read", "revoked", "done"}
  /\ reconciling \in Requests \cup {NoRequest}
  /\ ready \in BOOLEAN

\* What the ledger counts as a success was carried out, and has its receipt.
Evidence(r) == Executed(r) /\ (Hosted => responses[r].status = "succeeded")

SuccessBacked == \A r \in Requests : "succeeded" \in outcome[r] => Evidence(r)

ActionInv == BrokerInv /\ LedgerOK /\ CallsInOrder /\ GrantsInOrder /\ SuccessBacked

\* An approver asks the broker once, so each approval is granted once.
LEMMA OneOfTheCallers ==
  ASSUME BrokerInv, LedgerOK, GrantsInOrder, [Next]_vars
  PROVE  BrokerMove
<1> USE DEF BrokerMove
<1>1. CASE Broker
  BY <1>1 DEF Broker, BrokerNext
<1>2. CASE Operators
  <2>1. ASSUME NEW a \in Approvals, ApproverGrants(a) PROVE BrokerMove
    BY <2>1 DEF ApproverGrants, GrantsInOrder, BrokerNext, Asked
  <2>2. CASE RevokerRevokes
    BY <2>2 DEF RevokerRevokes, BrokerNext, Asked
  <2>3. ASSUME NEW a \in Approvals, ApproverReads(a) \/ ApproverChecks(a) \/ ApproverRecords(a)
        PROVE  BrokerMove
    BY <2>3 DEF ApproverReads, ApproverChecks, ApproverRecords
  <2>4. CASE RevokerReads \/ RevokerStops \/ RevokerRecords
    BY <2>4 DEF RevokerReads, RevokerStops, RevokerRecords
  <2> QED
    BY <1>2, <2>1, <2>2, <2>3, <2>4 DEF Operators
<1>3. ASSUME NEW c \in Requests, Call(c) PROVE BrokerMove
  <2>1. CASE Send(c)
    <3>1. calls[c].approval \in Approvals \cup {NoApproval}
      BY DEF LedgerOK
    <3> QED
      BY <2>1, <3>1 DEF Send, BrokerNext, Asked
  <2>2. CASE Redeliver(c)
    <3>1. \A b \in Attempts : attempts[b].approval \in Approvals \cup {NoApproval}
      BY DEF BrokerInv, BrokerTypeOK, Attempt
    <3> QED
      BY <2>2, <3>1 DEF Redeliver, BrokerNext, Asked
  <2>3. CASE CallDies(c)
    <3>1. crashes' \in 0..MaxCrashes
      BY <2>3, ConnectorBrokerAssumption DEF CallDies, BrokerInv, BrokerTypeOK
    <3> QED
      BY <2>3, <3>1 DEF CallDies, DiesElsewhere
  <2>4. CASE ReadEvents(c) \/ CallRefused(c) \/ RecordRequest(c) \/ Return(c) \/ TimesOut(c)
    BY <2>4 DEF ReadEvents, CallRefused, RecordRequest, Return, TimesOut
  <2> QED
    BY <1>3, <2>1, <2>2, <2>3, <2>4 DEF Call
<1>4. CASE StartReconcile \/ Reconcile \/ ReconcileRefused \/ ReadyChanges
  BY <1>4 DEF StartReconcile, Reconcile, ReconcileRefused, ReadyChanges
<1>5. CASE UNCHANGED vars
  BY <1>5 DEF vars
<1> QED
  BY <1>1, <1>2, <1>3, <1>4, <1>5 DEF Next

\* Nobody but its approver makes an approval out of none.
LEMMA UngrantedStay ==
  ASSUME BrokerTypeOK,
         \/ BrokerStep \/ RevokePrepared
         \/ \E b \in Attempts, r \in Requests, a \in Approvals \cup {NoApproval} : Deliver(b, r, a)
  PROVE  \A a \in Approvals : grants[a] = "none" => grants'[a] = "none"
<1> USE DEF BrokerTypeOK
<1>1. ASSUME NEW b \in Attempts, Verify(b)
      PROVE  \A a \in Approvals : grants[a] = "none" => grants'[a] = "none"
  BY <1>1 DEF Verify, Usable
<1>2. ASSUME grants' = WithoutApprovals
      PROVE  \A a \in Approvals : grants[a] = "none" => grants'[a] = "none"
  BY <1>2 DEF WithoutApprovals
<1>3. ASSUME NEW b \in Attempts,
             \/ Lookup(b) \/ Claim(b) \/ Reserve(b) \/ ProviderActs(b) \/ ProviderFails(b)
             \/ Land(b) \/ Finish(b) \/ Undo(b) \/ Refuse(b)
             \/ WriteFails(b) \/ AnswerFails(b) \/ AttemptDies(b)
      PROVE  UNCHANGED grants
  BY <1>3 DEF Lookup, Claim, Reserve, ProviderActs, ProviderFails, Land, Finish, Undo,
              Refuse, WriteFails, AnswerFails, AttemptDies
<1>4. CASE Expire \/ \E a \in Approvals : Lapse(a)
  BY <1>4 DEF Expire, Lapse
<1>5. CASE DisableConnector \/ RevokePrepared
  BY <1>2, <1>5 DEF DisableConnector, RevokePrepared
<1>6. ASSUME NEW b \in Attempts, NEW r, NEW a, Deliver(b, r, a) PROVE UNCHANGED grants
  BY <1>6 DEF Deliver
<1> QED
  BY <1>1, <1>3, <1>4, <1>5, <1>6 DEF BrokerStep, AttemptStep

\* What an event of a commit's end adds to the ledger
LEMMA Recorded ==
  ASSUME LedgerOK, NEW r \in Requests, NEW result \in {"succeeded", "failed"},
         Record(r, result)
  PROVE  /\ outcome' \in [Requests -> SUBSET {"succeeded", "failed"}]
         /\ \A q \in Requests : outcome'[q] \subseteq outcome[q] \cup
                                  (IF q = r THEN {result} ELSE {})
         /\ voided' \subseteq stamped
         /\ UNCHANGED <<requested, granted, stamped, revoked>>
BY DEF LedgerOK, Record

\* What may be recorded at the end: a success for which there is evidence.
Ending(r) ==
  \/ UNCHANGED ledger
  \/ Record(r, "failed")
  \/ Record(r, "succeeded") /\ Evidence(r)

LEMMA EndingOfReturn ==
  ASSUME ReceiptInv, AnswerInv, NEW c \in Requests, Return(c)
  PROVE  Ending(c)
<1>1. PICK b \in Attempts :
        /\ attempts[b].req = c
        /\ LET answer == attempts[b].answer IN
          CASE answer = Error -> Record(c, "failed")
            [] answer # Error /\ Backed(answer, c) ->
                 Record(c, IF answer.status = "succeeded" THEN "succeeded" ELSE "failed")
            [] OTHER -> UNCHANGED ledger
  BY DEF Return
<1> HIDE DEF Record, ledger
<1>2. CASE attempts[b].answer = Error
  BY <1>1, <1>2 DEF Ending
<1>3. CASE attempts[b].answer # Error /\ Backed(attempts[b].answer, c)
  <2>1. Record(c, IF attempts[b].answer.status = "succeeded" THEN "succeeded" ELSE "failed")
    BY <1>1, <1>3
  <2>2. attempts[b].answer.status = "succeeded" => Executed(c)
    BY <1>1 DEF AnswerInv
  <2>3. Hosted => attempts[b].answer = responses[c]
    BY <1>3 DEF Backed
  <2>4. attempts[b].answer.status = "succeeded" => Evidence(c)
    BY <2>2, <2>3 DEF Evidence
  <2> QED
    BY <2>1, <2>4 DEF Ending
<1>4. CASE attempts[b].answer # Error /\ ~Backed(attempts[b].answer, c)
  BY <1>1, <1>4 DEF Ending
<1> QED
  BY <1>2, <1>3, <1>4

LEMMA EndingOfReconcile ==
  ASSUME ReceiptInv, reconciling \in Requests, Reconcile
  PROVE  Ending(reconciling)
<1>1. CASE responses[reconciling].status = "succeeded"
  BY <1>1 DEF Reconcile, Ending, Evidence, ReceiptInv
<1>2. CASE responses[reconciling].status = "refused"
  BY <1>2 DEF Reconcile, Ending
<1>3. CASE responses[reconciling].status \notin {"succeeded", "refused"}
  BY <1>3 DEF Reconcile, Ending
<1> QED
  BY <1>1, <1>2, <1>3

LEMMA Ended ==
  ASSUME LedgerOK, SuccessBacked, NEW r \in Requests, Ending(r),
         UNCHANGED responses, UNCHANGED acted, UNCHANGED attempts
  PROVE  /\ outcome' \in [Requests -> SUBSET {"succeeded", "failed"}]
         /\ voided' \subseteq stamped
         /\ UNCHANGED <<requested, granted, stamped, revoked>>
         /\ SuccessBacked'
<1>0. \A q \in Requests : Evidence(q) => Evidence(q)'
  BY DEF Evidence, Executed
<1> HIDE DEF Evidence
<1>1. CASE UNCHANGED ledger
  BY <1>0, <1>1 DEF ledger, LedgerOK, SuccessBacked
<1>2. CASE Record(r, "failed")
  BY <1>0, <1>2, Recorded DEF SuccessBacked
<1>3. CASE Record(r, "succeeded") /\ Evidence(r)
  BY <1>0, <1>3, Recorded DEF SuccessBacked
<1> QED
  BY <1>1, <1>2, <1>3 DEF Ending

\* A request recorded for the first time
LEMMA RequestRecorded ==
  ASSUME LedgerOK, NEW c \in Requests, c \notin ToSet(requested)
  PROVE  /\ Append(requested, c) \in Seq(Requests)
         /\ IsInjective(Append(requested, c))
         /\ ToSet(Append(requested, c)) = ToSet(requested) \cup {c}
<1>1. requested \in Seq(Requests) /\ IsInjective(requested)
  BY DEF LedgerOK
<1>2. DOMAIN requested = 1..Len(requested)
  BY <1>1
<1>3. \A i \in 1..Len(requested) : requested[i] # c
  BY <1>2 DEF ToSet
<1>4. /\ DOMAIN Append(requested, c) = 1..(Len(requested) + 1)
      /\ \A i \in 1..Len(requested) : Append(requested, c)[i] = requested[i]
      /\ Append(requested, c)[Len(requested) + 1] = c
  BY <1>1
<1>5. \A i \in 1..(Len(requested) + 1) :
        i \in 1..Len(requested) \/ i = Len(requested) + 1
  BY <1>1
<1>6. IsInjective(Append(requested, c))
  BY <1>1, <1>2, <1>3, <1>4, <1>5 DEF IsInjective
<1>7. \A i \in 1..Len(requested) : i \in 1..(Len(requested) + 1)
  BY <1>1
<1>8. Len(requested) + 1 \in 1..(Len(requested) + 1)
  BY <1>1
<1>9. ToSet(Append(requested, c)) = ToSet(requested) \cup {c}
  BY <1>2, <1>4, <1>5, <1>7, <1>8 DEF ToSet
<1> QED
  BY <1>1, <1>6, <1>9

\* Calls and reconciliation keep the ledger's types and its requests apart.
LEMMA CallStep ==
  ASSUME LedgerOK, CallsInOrder, SuccessBacked, ReceiptInv, AnswerInv,
         NEW c \in Requests, Call(c)
  PROVE  LedgerOK' /\ CallsInOrder'
<1> DEFINE Rest == <<approvers, revoker, reconciling, ready>>
           CallKinds == [at : {"idle", "checked", "requested", "waiting"},
                         approval : Approvals \cup {NoApproval}]
<1>0. calls \in [Requests -> CallKinds]
  BY DEF LedgerOK
<1>1. NoCall \in CallKinds /\ NoCall.at = "idle"
  BY DEF NoCall
<1>2. ASSUME ReadEvents(c) PROVE LedgerOK' /\ CallsInOrder'
  <2>1. PICK a \in Approvals \cup {NoApproval} :
          calls' = [calls EXCEPT ![c] = [at |-> "checked", approval |-> a]]
    BY <1>2 DEF ReadEvents
  <2>2. calls' \in [Requests -> CallKinds]
    BY <1>0, <2>1
  <2>3. c \notin ToSet(requested)
    <3>1. outcome[c] \subseteq {"succeeded", "failed"}
      BY DEF LedgerOK
    <3>2. outcome[c] = {}
      BY <1>2, <3>1 DEF ReadEvents, Committed
    <3> QED
      BY <1>2, <3>2 DEF ReadEvents, Interrupted
  <2>4. UNCHANGED <<ledger, Rest>>
    BY <1>2 DEF ReadEvents
  <2>5. CallsInOrder'
    BY <1>0, <2>1, <2>3, <2>4 DEF CallsInOrder, ledger
  <2> QED
    BY <2>2, <2>4, <2>5 DEF LedgerOK, ledger
<1>3. ASSUME CallRefused(c) \/ CallDies(c) PROVE LedgerOK' /\ CallsInOrder'
  <2>1. calls' = [calls EXCEPT ![c] = NoCall] /\ UNCHANGED <<ledger, Rest>>
    BY <1>3 DEF CallRefused, CallDies
  <2>2. calls' \in [Requests -> CallKinds]
    BY <1>0, <1>1, <2>1
  <2>3. CallsInOrder'
    BY <1>0, <1>1, <2>1 DEF CallsInOrder, ledger
  <2> QED
    BY <2>1, <2>2, <2>3 DEF LedgerOK, ledger
<1>4. ASSUME RecordRequest(c) PROVE LedgerOK' /\ CallsInOrder'
  <2>1. /\ requested' = Append(requested, c)
        /\ calls' = [calls EXCEPT ![c].at = "requested"]
        /\ UNCHANGED <<outcome, granted, stamped, voided, revoked, Rest>>
    BY <1>4 DEF RecordRequest
  <2>2. c \notin ToSet(requested)
    BY <1>4 DEF RecordRequest, CallsInOrder
  <2>3. calls' \in [Requests -> CallKinds]
    BY <1>0, <2>1
  <2>4. /\ requested' \in Seq(Requests) /\ IsInjective(requested')
        /\ ToSet(requested') = ToSet(requested) \cup {c}
    BY <2>1, <2>2, RequestRecorded
  <2>5. CallsInOrder'
    BY <1>0, <2>1, <2>4 DEF CallsInOrder
  <2> QED
    BY <2>1, <2>3, <2>4, <2>5 DEF LedgerOK
<1>5. ASSUME Send(c) PROVE LedgerOK' /\ CallsInOrder'
  <2>1. calls' = [calls EXCEPT ![c].at = "waiting"] /\ UNCHANGED <<ledger, Rest>>
    BY <1>5 DEF Send
  <2>2. calls' \in [Requests -> CallKinds]
    BY <1>0, <2>1
  <2>3. CallsInOrder'
    BY <1>0, <2>1 DEF CallsInOrder, ledger
  <2> QED
    BY <2>1, <2>2, <2>3 DEF LedgerOK, ledger
<1>6. ASSUME Redeliver(c) PROVE LedgerOK' /\ CallsInOrder'
  BY <1>6 DEF Redeliver, ledger, actors, LedgerOK, CallsInOrder
<1>7. ASSUME Return(c) \/ TimesOut(c) PROVE LedgerOK' /\ CallsInOrder'
  <2>1. Ending(c) /\ UNCHANGED responses /\ UNCHANGED acted /\ UNCHANGED attempts
    BY <1>7, EndingOfReturn DEF Return, TimesOut, Ending, brokerVars
  <2>2. calls' = [calls EXCEPT ![c] = NoCall] /\ UNCHANGED Rest
    BY <1>7 DEF Return, TimesOut
  <2>3. calls' \in [Requests -> CallKinds]
    BY <1>0, <1>1, <2>2
  <2>4. /\ outcome' \in [Requests -> SUBSET {"succeeded", "failed"}]
        /\ voided' \subseteq stamped
        /\ UNCHANGED <<requested, granted, stamped, revoked>>
    BY <2>1, Ended
  <2>5. CallsInOrder'
    BY <1>0, <1>1, <2>2, <2>4 DEF CallsInOrder
  <2> QED
    BY <2>2, <2>3, <2>4, <2>5 DEF LedgerOK
<1> QED
  BY <1>2, <1>3, <1>4, <1>5, <1>6, <1>7 DEF Call

LEMMA ReconcileStep ==
  ASSUME LedgerOK, CallsInOrder, SuccessBacked, ReceiptInv,
         StartReconcile \/ Reconcile \/ ReconcileRefused \/ ReadyChanges
  PROVE  LedgerOK' /\ CallsInOrder'
<1>1. CASE StartReconcile
  <2>1. Interrupted \subseteq Requests
    BY DEF Interrupted, LedgerOK, ToSet
  <2>2. reconciling' \in Requests
    BY <1>1, <2>1 DEF StartReconcile
  <2>3. UNCHANGED <<ledger, calls, approvers, revoker, ready>>
    BY <1>1 DEF StartReconcile
  <2> QED
    BY <2>2, <2>3 DEF LedgerOK, CallsInOrder, ledger
<1>2. CASE Reconcile
  <2>1. reconciling \in Requests
    BY <1>2 DEF Reconcile, LedgerOK
  <2>2. /\ UNCHANGED responses /\ UNCHANGED acted /\ UNCHANGED attempts
        /\ UNCHANGED <<calls, approvers, revoker, ready>> /\ reconciling' = NoRequest
    BY <1>2 DEF Reconcile, brokerVars
  <2>3. /\ outcome' \in [Requests -> SUBSET {"succeeded", "failed"}]
        /\ voided' \subseteq stamped
        /\ UNCHANGED <<requested, granted, stamped, revoked>>
    BY <1>2, <2>1, <2>2, EndingOfReconcile, Ended
  <2> QED
    BY <2>2, <2>3 DEF LedgerOK, CallsInOrder
<1>3. CASE ReconcileRefused \/ ReadyChanges
  BY <1>3 DEF ReconcileRefused, ReadyChanges, LedgerOK, CallsInOrder, ledger, actors
<1> QED
  BY <1>1, <1>2, <1>3

\* Approvers and revokers
LEMMA OperatorStep ==
  ASSUME LedgerOK, CallsInOrder, GrantsInOrder, Operators
  PROVE  LedgerOK' /\ CallsInOrder'
<1>1. UNCHANGED <<requested, outcome, voided, calls, reconciling, ready>>
  BY DEF Operators, ApproverReads, ApproverChecks, ApproverGrants, ApproverRecords,
         RevokerReads, RevokerRevokes, RevokerStops, RevokerRecords, ledger
<1>2. CallsInOrder'
  BY <1>1 DEF CallsInOrder
<1> USE <1>1, <1>2 DEF LedgerOK
<1>3. ASSUME NEW a \in Approvals, ApproverReads(a) PROVE LedgerOK' /\ CallsInOrder'
  BY <1>3 DEF ApproverReads
<1>4. ASSUME NEW a \in Approvals, ApproverChecks(a) \/ ApproverGrants(a)
      PROVE  LedgerOK' /\ CallsInOrder'
  BY <1>4 DEF ApproverChecks, ApproverGrants, ledger
<1>5. ASSUME NEW a \in Approvals, ApproverRecords(a) PROVE LedgerOK' /\ CallsInOrder'
  BY <1>5 DEF ApproverRecords, GrantsInOrder
<1>6. CASE RevokerReads \/ RevokerRevokes \/ RevokerStops
  BY <1>6 DEF RevokerReads, RevokerRevokes, RevokerStops, ledger
<1>7. CASE RevokerRecords
  BY <1>7 DEF RevokerRecords
<1> QED
  BY <1>3, <1>4, <1>5, <1>6, <1>7 DEF Operators

\* An approval is granted by its approver and by nobody else.
LEMMA GrantStep ==
  ASSUME BrokerTypeOK, LedgerOK, GrantsInOrder, ReceiptInv, AnswerInv, [Next]_vars
  PROVE  GrantsInOrder'
<1> USE DEF GrantsInOrder
<1>1. ASSUME NEW a \in Approvals, ApproverGrants(a) PROVE GrantsInOrder'
  BY <1>1 DEF ApproverGrants, Grant, LedgerOK, BrokerTypeOK, ledger
<1>2. ASSUME NEW a \in Approvals, ApproverReads(a) \/ ApproverChecks(a) \/ ApproverRecords(a)
      PROVE  GrantsInOrder'
  BY <1>2 DEF ApproverReads, ApproverChecks, ApproverRecords, LedgerOK, ledger, brokerVars
<1>3. ASSUME UNCHANGED <<approvers, stamped>>,
             \A a \in Approvals : grants[a] = "none" => grants'[a] = "none"
      PROVE  GrantsInOrder'
  BY <1>3
<1>4. CASE Broker
  BY <1>3, <1>4, UngrantedStay DEF Broker, ledger, actors
<1>5. CASE RevokerRevokes
  BY <1>3, <1>5, UngrantedStay DEF RevokerRevokes, ledger
<1>6. CASE RevokerReads \/ RevokerStops \/ RevokerRecords
  BY <1>3, <1>6 DEF RevokerReads, RevokerStops, RevokerRecords, ledger, brokerVars
<1>7. ASSUME NEW c \in Requests, Send(c) PROVE GrantsInOrder'
  <2>1. calls[c].approval \in Approvals \cup {NoApproval}
    BY DEF LedgerOK
  <2>2. UNCHANGED <<approvers, stamped>>
    BY <1>7 DEF Send, ledger
  <2> QED
    BY <1>3, <1>7, <2>1, <2>2, UngrantedStay DEF Send
<1>8. ASSUME NEW c \in Requests, Redeliver(c) PROVE GrantsInOrder'
  <2>1. \A b \in Attempts : attempts[b].approval \in Approvals \cup {NoApproval}
    BY DEF BrokerTypeOK, Attempt
  <2>2. UNCHANGED <<approvers, stamped>>
    BY <1>8 DEF Redeliver, ledger, actors
  <2> QED
    BY <1>3, <1>8, <2>1, <2>2, UngrantedStay DEF Redeliver
<1>9. ASSUME NEW c \in Requests,
             \/ ReadEvents(c) \/ CallRefused(c) \/ RecordRequest(c) \/ Return(c)
             \/ TimesOut(c) \/ CallDies(c)
      PROVE  GrantsInOrder'
  <2>1. UNCHANGED grants /\ UNCHANGED approvers
    BY <1>9 DEF ReadEvents, CallRefused, RecordRequest, Return, TimesOut, CallDies, brokerVars
  <2>2. UNCHANGED stamped
    BY <1>9, EndingOfReturn DEF ReadEvents, CallRefused, RecordRequest, TimesOut, CallDies,
                                ledger, Record, Ending
  <2> QED
    BY <1>3, <2>1, <2>2
<1>10. CASE StartReconcile \/ Reconcile \/ ReconcileRefused \/ ReadyChanges
  <2>1. UNCHANGED grants /\ UNCHANGED approvers
    BY <1>10 DEF StartReconcile, Reconcile, ReconcileRefused, ReadyChanges, brokerVars, actors
  <2>2. Reconcile => reconciling \in Requests
    BY DEF Reconcile, LedgerOK
  <2>3. UNCHANGED stamped
    BY <1>10, <2>2, EndingOfReconcile DEF StartReconcile, ReconcileRefused, ReadyChanges,
                                          ledger, Record, Ending
  <2> QED
    BY <1>3, <2>1, <2>3
<1>11. CASE UNCHANGED vars
  BY <1>3, <1>11 DEF vars, ledger, actors, brokerVars
<1> QED
  BY <1>1, <1>2, <1>4, <1>5, <1>6, <1>7, <1>8, <1>9, <1>10, <1>11 DEF Next, Operators, Call

LEMMA BackedStep ==
  ASSUME ActionInv, [Next]_vars
  PROVE  SuccessBacked'
<1>1. ASSUME UNCHANGED outcome PROVE SuccessBacked'
  <2>1. \A r \in Requests : Evidence(r) => Evidence(r)'
    BY OneOfTheCallers, BrokerInvStep DEF ActionInv, Evidence
  <2> QED
    BY <1>1, <2>1 DEF ActionInv, SuccessBacked
<1>2. ASSUME NEW c \in Requests, Return(c) \/ TimesOut(c) PROVE SuccessBacked'
  <2>1. Ending(c) /\ UNCHANGED responses /\ UNCHANGED acted /\ UNCHANGED attempts
    BY <1>2, EndingOfReturn DEF Return, TimesOut, Ending, brokerVars, ActionInv, BrokerInv
  <2> QED
    BY <2>1, Ended DEF ActionInv
<1>3. CASE Reconcile
  <2>1. /\ reconciling \in Requests
        /\ UNCHANGED responses /\ UNCHANGED acted /\ UNCHANGED attempts
    BY <1>3 DEF Reconcile, ActionInv, LedgerOK, brokerVars
  <2>2. Ending(reconciling)
    BY <1>3, <2>1, EndingOfReconcile DEF ActionInv, BrokerInv
  <2> QED
    BY <2>1, <2>2, Ended DEF ActionInv
<1>4. CASE \/ Broker \/ Operators \/ StartReconcile \/ ReconcileRefused \/ ReadyChanges
           \/ UNCHANGED vars
  <2>1. UNCHANGED outcome
    BY <1>4 DEF Broker, Operators, ApproverReads, ApproverChecks, ApproverGrants,
                ApproverRecords, RevokerReads, RevokerRevokes, RevokerStops,
                RevokerRecords, StartReconcile, ReconcileRefused, ReadyChanges, vars, ledger
  <2> QED
    BY <1>1, <2>1
<1>5. ASSUME NEW c \in Requests,
             \/ ReadEvents(c) \/ CallRefused(c) \/ RecordRequest(c) \/ Send(c)
             \/ Redeliver(c) \/ CallDies(c)
      PROVE  SuccessBacked'
  <2>1. UNCHANGED outcome
    BY <1>5 DEF ReadEvents, CallRefused, RecordRequest, Send, Redeliver, CallDies, ledger
  <2> QED
    BY <1>1, <2>1
<1> QED
  BY <1>2, <1>3, <1>4, <1>5 DEF Next, Call

LEMMA InitActionInv == Init => ActionInv
<1> SUFFICES ASSUME Init PROVE ActionInv
  OBVIOUS
<1>1. BrokerTypeOK /\ Delivered
  BY BrokerStart DEF Init
<1>2. ClaimInv /\ OnceInv /\ ActsOnce /\ ApprovalInv
  BY DEF Init, BrokerInit, ClaimInv, OneAtATime, Committing, OnceInv, ActsOnce,
         ApprovalInv, Cleared
<1>3. ReceiptInv /\ AnswerInv
  BY DEF Init, BrokerInit, ReceiptInv, AnswerInv, Nothing
<1>4. LedgerOK
  <2>1. <<>> \in Seq(Requests) /\ IsInjective(<<>>)
    BY DEF IsInjective
  <2> QED
    BY <2>1 DEF Init, NoCall, LedgerOK
<1>5. CallsInOrder /\ GrantsInOrder /\ SuccessBacked
  BY DEF Init, BrokerInit, CallsInOrder, GrantsInOrder, SuccessBacked, NoCall
<1> QED
  BY <1>1, <1>2, <1>3, <1>4, <1>5 DEF ActionInv, BrokerInv

LEMMA ActionInvariance == Spec => []ActionInv
<1>1. ActionInv /\ [Next]_vars => ActionInv'
  <2> SUFFICES ASSUME ActionInv, [Next]_vars PROVE ActionInv'
    OBVIOUS
  <2>1. BrokerInv'
    BY OneOfTheCallers, BrokerInvStep DEF ActionInv
  <2>2. GrantsInOrder'
    BY GrantStep DEF ActionInv, BrokerInv
  <2>3. SuccessBacked'
    BY BackedStep
  <2>4. LedgerOK' /\ CallsInOrder'
    <3>1. CASE Broker \/ UNCHANGED vars
      BY <3>1 DEF Broker, vars, ledger, actors, ActionInv, LedgerOK, CallsInOrder
    <3> QED
      BY <3>1, CallStep, ReconcileStep, OperatorStep DEF ActionInv, BrokerInv, Next
  <2> QED
    BY <2>1, <2>2, <2>3, <2>4 DEF ActionInv
<1> QED
  BY <1>1, InitActionInv, PTL DEF Spec

\* The App's records of an action and the broker's are well typed, and a request
\* is recorded once, however calls, crashes and redeliveries interleave
\* (commitAction in app-operation-execution.ts).
THEOREM ActionTypesHold == Spec => []TypeOK
<1>1. ActionInv => TypeOK
  BY DEF ActionInv, BrokerInv, LedgerOK, TypeOK
<1> QED
  BY <1>1, ActionInvariance, PTL

\* The ledger, hosted or not, claims no success that the provider did not carry
\* out under that request, whatever times out, is delivered again, is reconciled
\* or dies; the hosted one none without the broker's receipt.
THEOREM SuccessesWereActed == Spec => []SuccessIsActed
<1>1. ActionInv => SuccessIsActed
  BY DEF ActionInv, SuccessBacked, Evidence, Executed, SuccessIsActed
<1> QED
  BY <1>1, ActionInvariance, PTL

\* What the broker promises any caller it promises the App: its prepared action
\* is committed by one attempt at a time, once unless a write is lost, and never
\* without an approval of its own (HermesConnectorBroker.commitAction).
THEOREM ActionsActOnceAndApproved ==
  Spec => [](OneAtATime /\ ActsOnce /\ ActsAreApproved)
<1>1. ActionInv => OneAtATime /\ ActsOnce /\ ActsAreApproved
  BY DEF ActionInv, BrokerInv, ClaimInv, ApprovalInv, ActsAreApproved, Cleared
<1> QED
  BY <1>1, ActionInvariance, PTL

\* An action that was revoked or is over stays so under the App's retries and
\* reconciliations, too.
THEOREM ActionsStayRevoked == Spec => RevocationHolds
<1>1. ActionInv /\ [Next]_vars => [Withdrawn => Withdrawn']_brokerVars
  BY OneOfTheCallers, BrokerInvStep DEF ActionInv
<1> QED
  BY <1>1, ActionInvariance, PTL DEF Spec, RevocationHolds
=============================================================================
