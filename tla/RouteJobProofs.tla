--------------------------- MODULE RouteJobProofs ---------------------------
(***************************************************************************)
(* What the operations of RouteJob do to a record, field by field.  The    *)
(* proofs about the queue cite these lemmas and keep the operators closed. *)
(***************************************************************************)
EXTENDS RouteJob, FiniteSetTheorems, TLAPS

\* The bounds of a record's fields, from the assumption on the constants.
LEMMA Bounds ==
  /\ MaxAttempts \in Nat /\ 0 \in 0..MaxAttempts /\ 0 < MaxAttempts
  /\ MaxDelay \in Nat /\ 0 \in 0..MaxDelay
  /\ LeaseTicks \in Nat /\ 0 \in 0..LeaseTicks /\ LeaseTicks \in 0..LeaseTicks
  BY RouteJobAssumption DEF RouteJobAssumption

\* upsertRouteJobForCommit: the record of a new job is a queued, unleased job
\* that has used no attempt.
LEMMA QueuedJobFields ==
  /\ QueuedJob \in Job
  /\ QueuedJob.status = "queued" /\ QueuedJob.attempt = 0 /\ QueuedJob.token = 0
  BY Bounds DEF QueuedJob, Job, Statuses

\* clearLease takes the token away and keeps the status and the attempts.
LEMMA ReleasedFields ==
  ASSUME NEW job \in Job
  PROVE  /\ Released(job) \in Job
         /\ Released(job).status = job.status
         /\ Released(job).attempt = job.attempt
         /\ Released(job).wait = job.wait
         /\ Released(job).token = 0
  BY Bounds DEF Released, Job

\* updateRouteJobStatus without clearLease changes the status only.
LEMMA WithStatusFields ==
  ASSUME NEW job \in Job, NEW status \in Statuses
  PROVE  /\ WithStatus(job, status) \in Job
         /\ WithStatus(job, status).status = status
         /\ WithStatus(job, status).attempt = job.attempt
         /\ WithStatus(job, status).token = job.token
  BY DEF WithStatus, Job

\* renewRouteJobLease changes the expiry only.
LEMMA RenewedFields ==
  ASSUME NEW job \in Job, NEW left \in 0..LeaseTicks
  PROVE  /\ Renewed(job, left) \in Job
         /\ Renewed(job, left).status = job.status
         /\ Renewed(job, left).attempt = job.attempt
         /\ Renewed(job, left).token = job.token
  BY Bounds DEF Renewed, Job

\* A claim leases the job under the new token and uses one more attempt.
LEMMA ClaimedFields ==
  ASSUME NEW job \in Job, Due(job), NEW token \in Nat, NEW left \in 0..LeaseTicks
  PROVE  /\ Claimed(job, token, left) \in Job
         /\ Claimed(job, token, left).status = "claimed"
         /\ Claimed(job, token, left).attempt = job.attempt + 1
         /\ Claimed(job, token, left).token = token
  <1>1. job.attempt + 1 \in 0..MaxAttempts
    BY Bounds DEF Due, Job
  <1>2. "claimed" \in Statuses
    BY DEF Statuses
  <1>3. QED
    BY <1>1, <1>2 DEF Claimed, Job

\* A claim for review reconciliation leases the job and nothing else.
LEMMA ReviewClaimedFields ==
  ASSUME NEW job \in Job, NEW token \in Nat, NEW left \in 0..LeaseTicks
  PROVE  /\ ReviewClaimed(job, token, left) \in Job
         /\ ReviewClaimed(job, token, left).status = job.status
         /\ ReviewClaimed(job, token, left).attempt = job.attempt
         /\ ReviewClaimed(job, token, left).token = token
  BY Bounds DEF ReviewClaimed, Job

\* failRouteJob: failed while an attempt is left, a dead letter otherwise, and
\* in both cases unleased.
LEMMA FailedFields ==
  ASSUME NEW job \in Job, NEW wait \in 0..MaxDelay
  PROVE  /\ Failed(job, wait) \in Job
         /\ Failed(job, wait).token = 0
         /\ Failed(job, wait).attempt = job.attempt
         /\ \/ Failed(job, wait).status = "failed" /\ job.attempt < MaxAttempts
            \/ Failed(job, wait).status = "dead_letter" /\ job.attempt = MaxAttempts
  <1>1. CASE HasRetriesLeft(job)
    BY <1>1, ReleasedFields, Bounds
    DEF Failed, HasRetriesLeft, Released, Job, Statuses
  <1>2. CASE ~HasRetriesLeft(job)
    <2>1. job.attempt = MaxAttempts
      BY <1>2, Bounds DEF HasRetriesLeft, Job
    <2>2. QED
      BY <1>2, <2>1, ReleasedFields, Bounds
      DEF Failed, Released, Job, Statuses
  <1>3. QED
    BY <1>1, <1>2

\* retryRouteJob: a queued job with its whole attempt budget.
LEMMA RetriedFields ==
  ASSUME NEW job \in Job
  PROVE  /\ Retried(job) \in Job
         /\ Retried(job).status = "queued"
         /\ Retried(job).attempt = 0
         /\ Retried(job).token = 0
  BY Bounds DEF Retried, Released, Job, Statuses

\* cancelRouteJob: a cancelled job without a lease.
LEMMA CancelledFields ==
  ASSUME NEW job \in Job
  PROVE  /\ Cancelled(job) \in Job
         /\ Cancelled(job).status = "cancelled"
         /\ Cancelled(job).attempt = job.attempt
         /\ Cancelled(job).token = 0
  BY Bounds DEF Cancelled, Released, Job, Statuses

\* Time passing changes neither the status nor the owner of a job.
LEMMA AgedFields ==
  ASSUME NEW job \in Job
  PROVE  /\ Aged(job) \in Job
         /\ Aged(job).status = job.status
         /\ Aged(job).attempt = job.attempt
         /\ Aged(job).token = job.token
  <1>1. /\ Less(job.wait) \in 0..MaxDelay
        /\ Less(job.ttl) \in 0..LeaseTicks
    BY Bounds DEF Less, Job
  <1>2. QED
    BY <1>1 DEF Aged, Job

\* A retry delay is a number: 2 ^ n is, as the size of a powerset.
LEMMA DelayType ==
  ASSUME NEW attempt \in Nat
  PROVE  RetryDelay(attempt) \in Nat
  <1> DEFINE n == IF attempt > 1 THEN attempt - 1 ELSE 0
  <1>1. n \in Nat
    OBVIOUS
  <1> HIDE DEF n
  <1>2. IsFiniteSet(1..n) /\ Cardinality(1..n) = n
    BY <1>1, FS_Interval
  <1>3. IsFiniteSet(SUBSET (1..n)) /\ Cardinality(SUBSET (1..n)) = 2 ^ n
    BY <1>2, FS_SUBSET
  <1>4. 2 ^ n \in Nat
    BY <1>3, FS_CardinalityType
  <1>5. BaseDelay * 2 ^ n \in Nat
    BY <1>4, RouteJobAssumption DEF RouteJobAssumption
  <1>6. RetryDelay(attempt) = Capped(BaseDelay * 2 ^ n)
    BY DEF RetryDelay, n
  <1>7. QED
    BY <1>5, <1>6, Bounds DEF Capped

=============================================================================
