------------------------ MODULE RouteJobQueueProofs ------------------------
(***************************************************************************)
(* Theorems about RouteJobQueue, for every set of jobs and all bounds:     *)
(* type correctness, the fencing invariants, the action properties, and    *)
(* that the queue implements FencedWork on the jobs only fenced writers    *)
(* touch.  The invariants are inductive together (Inv below): fencing      *)
(* needs that tokens are never restored, ownership needs fencing.          *)
(* In the second part the same for HostedRouteStore, which extends the     *)
(* queue.                                                                  *)
(***************************************************************************)
EXTENDS HostedRouteStore, RouteJobProofs

Inv == TypeOK /\ LiveTokenIsNewest /\ OwnedWhileInFlight /\ OpenWorkHasAttempts

\* The invariants say the same of every record, given how many tokens were
\* granted for it.
RecordOK(j, job, n) ==
  /\ job.token \in {0, n}
  /\ Leased(job) => job.status \in {"claimed", "running", "waiting_review"}
  /\ j \in FencedJobs /\ job.status \in {"claimed", "running"} => Leased(job)
  /\ job.status = "dead_letter" => job.attempt = MaxAttempts
  /\ j \notin SimulatedJobs /\ job.status \in {"queued", "failed"} =>
       job.attempt < MaxAttempts /\ ~Leased(job)

\* Inv, record by record.
LEMMA InvByRecord ==
  Inv <=> TypeOK /\ \A j \in Jobs : Exists(j) => RecordOK(j, jobs[j], issued[j])
  BY DEF Inv, LiveTokenIsNewest, OwnedWhileInFlight, OpenWorkHasAttempts, RecordOK

\* What the store holds of an existing job is a job record.
LEMMA RecordTyped ==
  ASSUME TypeOK, NEW j \in Jobs, Exists(j)
  PROVE  jobs[j] \in Job
  BY DEF TypeOK, Exists

\* Records in order make the invariant of the next state.
LEMMA InvFromRecords ==
  ASSUME TypeOK',
         \A i \in Jobs : Exists(i)' => RecordOK(i, jobs'[i], issued'[i])
  PROVE  Inv'
  BY DEF Inv, LiveTokenIsNewest, OwnedWhileInFlight, OpenWorkHasAttempts,
         RecordOK, Exists

\* Overwriting one record with one that is in order keeps the invariant.
LEMMA WriteKeepsInv ==
  ASSUME Inv, NEW j \in Jobs, NEW job \in Job, Write(j, job),
         RecordOK(j, job, issued[j]), UNCHANGED issued,
         closedBy' \in [Jobs -> Nat], late' \in [Jobs -> 0..MaxLate]
  PROVE  Inv'
  <1>1. TypeOK'
    BY InvByRecord DEF TypeOK, Write
  <1>2. ASSUME NEW i \in Jobs, Exists(i)'
        PROVE  RecordOK(i, jobs'[i], issued'[i])
    <2>1. CASE i = j
      BY <2>1, InvByRecord DEF TypeOK, Write
    <2>2. CASE i # j
      <3>1. jobs'[i] = jobs[i] /\ issued'[i] = issued[i] /\ Exists(i)
        BY <1>2, <2>2, InvByRecord DEF TypeOK, Write, Exists
      <3>2. QED
        BY <3>1, InvByRecord
    <2>3. QED
      BY <2>1, <2>2
  <1>3. QED
    BY <1>1, <1>2, InvFromRecords

\* A token that passes the check is the newest one, and the job is held.
LEMMA FencedHoldsNewest ==
  ASSUME Inv, NEW j \in Jobs, NEW token, Fenced(j, token)
  PROVE  /\ jobs[j] \in Job
         /\ RecordOK(j, jobs[j], issued[j])
         /\ token = issued[j] /\ token \in Nat
         /\ jobs[j].token = token /\ Leased(jobs[j])
         /\ jobs[j].status \in {"claimed", "running", "waiting_review"}
  <1>1. TypeOK /\ RecordOK(j, jobs[j], issued[j])
    BY InvByRecord DEF Fenced
  <1>2. token \in Nat /\ token # 0
    BY <1>1 DEF TypeOK, Fenced
  <1>3. jobs[j].token = token
    BY <1>2 DEF Fenced, HoldsLease
  <1>4. QED
    BY <1>1, <1>2, <1>3, RecordTyped DEF Fenced, RecordOK, Leased

-----------------------------------------------------------------------------
\* One lemma per operation: it keeps the invariant.
LEMMA EnqueueKeepsInv ==
  ASSUME Inv, NEW j \in Jobs, Enqueue(j)
  PROVE  Inv'
  <1>1. RecordOK(j, QueuedJob, issued[j])
    BY QueuedJobFields, Bounds DEF RecordOK, Leased
  <1>2. late' \in [Jobs -> 0..MaxLate]
    BY InvByRecord DEF Enqueue, TypeOK
  <1>3. QED
    BY <1>1, <1>2, QueuedJobFields, WriteKeepsInv, InvByRecord DEF Enqueue, TypeOK

\* A late submission saves the same record.
LEMMA EnqueueLateKeepsInv ==
  ASSUME Inv, NEW j \in Jobs, EnqueueLate(j)
  PROVE  Inv'
  <1>1. RecordOK(j, QueuedJob, issued[j])
    BY QueuedJobFields, Bounds DEF RecordOK, Leased
  <1>2. late' \in [Jobs -> 0..MaxLate]
    <2>1. late \in [Jobs -> 0..MaxLate] /\ MaxLate \in Nat
      BY InvByRecord, RouteJobQueueAssumption DEF TypeOK, RouteJobQueueAssumption
    <2>2. late[j] - 1 \in 0..MaxLate
      BY <2>1 DEF EnqueueLate
    <2>3. QED
      BY <2>1, <2>2 DEF EnqueueLate
  <1>3. CASE Write(j, QueuedJob)
    BY <1>1, <1>2, <1>3, QueuedJobFields, WriteKeepsInv, InvByRecord
    DEF EnqueueLate, TypeOK
  <1>4. CASE UNCHANGED jobs
    <2>1. TypeOK'
      BY <1>2, <1>4, InvByRecord DEF EnqueueLate, TypeOK
    <2>2. \A i \in Jobs : Exists(i)' => RecordOK(i, jobs'[i], issued'[i])
      BY <1>4, InvByRecord DEF EnqueueLate, Exists
    <2>3. QED
      BY <2>1, <2>2, InvFromRecords
  <1>5. QED
    BY <1>3, <1>4 DEF EnqueueLate

LEMMA RenewLeaseKeepsInv ==
  ASSUME Inv, NEW j \in Jobs, NEW token, NEW left \in 0..LeaseTicks,
         RenewLease(j, token, left)
  PROVE  Inv'
  <1>1. jobs[j] \in Job /\ RecordOK(j, jobs[j], issued[j])
    BY FencedHoldsNewest DEF RenewLease
  <1>2. Renewed(jobs[j], left) \in Job /\ RecordOK(j, Renewed(jobs[j], left), issued[j])
    BY <1>1, RenewedFields DEF RecordOK, Leased
  <1>3. QED
    BY <1>2, WriteKeepsInv, InvByRecord DEF RenewLease, TypeOK

LEMMA MarkRunningKeepsInv ==
  ASSUME Inv, NEW j \in Jobs, NEW token, MarkRunning(j, token)
  PROVE  Inv'
  <1> DEFINE next == WithStatus(jobs[j], "running")
  <1>1. /\ jobs[j] \in Job /\ RecordOK(j, jobs[j], issued[j])
        /\ Leased(jobs[j])
    BY FencedHoldsNewest DEF MarkRunning
  <1>2. next \in Job /\ RecordOK(j, next, issued[j])
    BY <1>1, WithStatusFields DEF RecordOK, Leased, Statuses
  <1>3. QED
    BY <1>2, WriteKeepsInv, InvByRecord DEF MarkRunning, TypeOK

\* A write that gives the lease up, to a status that is neither in a worker's
\* hands, nor open, nor dead.
LEMMA ReleasedRecord ==
  ASSUME NEW j \in Jobs, NEW job \in Job, NEW n \in Nat,
         NEW status \in {"dispatched", "waiting_review", "completed"}
  PROVE  LET next == Released(WithStatus(job, status))
         IN  next \in Job /\ RecordOK(j, next, n)
  <1> DEFINE marked == WithStatus(job, status)
  <1>1. marked \in Job /\ marked.status = status
    BY WithStatusFields DEF Statuses
  <1> HIDE DEF marked
  <1>2. /\ Released(marked) \in Job
        /\ Released(marked).status = status
        /\ Released(marked).token = 0
    BY <1>1, ReleasedFields
  <1>3. RecordOK(j, Released(marked), n)
    BY <1>2 DEF RecordOK, Leased
  <1>4. QED
    BY <1>2, <1>3 DEF marked

LEMMA MarkDispatchedKeepsInv ==
  ASSUME Inv, NEW j \in Jobs, NEW token, MarkDispatched(j, token)
  PROVE  Inv'
  <1>1. jobs[j] \in Job /\ issued[j] \in Nat
    BY FencedHoldsNewest, InvByRecord DEF MarkDispatched, TypeOK
  <1>2. QED
    BY <1>1, ReleasedRecord, WriteKeepsInv, InvByRecord DEF MarkDispatched, TypeOK

LEMMA MarkWaitingReviewKeepsInv ==
  ASSUME Inv, NEW j \in Jobs, NEW token, MarkWaitingReview(j, token)
  PROVE  Inv'
  <1>1. jobs[j] \in Job /\ issued[j] \in Nat
    BY FencedHoldsNewest, InvByRecord DEF MarkWaitingReview, TypeOK
  <1>2. QED
    BY <1>1, ReleasedRecord, WriteKeepsInv, InvByRecord DEF MarkWaitingReview, TypeOK

LEMMA MarkCompletedKeepsInv ==
  ASSUME Inv, NEW j \in Jobs, NEW token, MarkCompleted(j, token)
  PROVE  Inv'
  <1>1. jobs[j] \in Job /\ issued[j] \in Nat /\ token \in Nat
    BY FencedHoldsNewest, InvByRecord DEF MarkCompleted, TypeOK
  <1>2. closedBy' \in [Jobs -> Nat]
    BY <1>1, InvByRecord DEF MarkCompleted, TypeOK
  <1>3. late' \in [Jobs -> 0..MaxLate]
    BY InvByRecord DEF MarkCompleted, TypeOK
  <1>4. QED
    BY <1>1, <1>2, <1>3, ReleasedRecord, WriteKeepsInv DEF MarkCompleted

\* failRouteJob leaves a record in order, whoever calls it.
LEMMA FailedRecord ==
  ASSUME NEW j \in Jobs, NEW job \in Job, NEW n \in Nat, NEW wait \in 0..MaxDelay
  PROVE  Failed(job, wait) \in Job /\ RecordOK(j, Failed(job, wait), n)
  BY FailedFields DEF RecordOK, Leased

LEMMA FailJobKeepsInv ==
  ASSUME Inv, NEW j \in Jobs, NEW token, NEW wait \in 0..MaxDelay,
         FailJob(j, token, wait)
  PROVE  Inv'
  <1>1. jobs[j] \in Job /\ issued[j] \in Nat
    BY FencedHoldsNewest, InvByRecord DEF FailJob, TypeOK
  <1>2. QED
    BY <1>1, FailedRecord, WriteKeepsInv, InvByRecord DEF FailJob, TypeOK

LEMMA HermesFailKeepsInv ==
  ASSUME Inv, NEW j \in Jobs, NEW wait \in 0..MaxDelay, HermesFail(j, wait)
  PROVE  Inv'
  <1>1. jobs[j] \in Job /\ issued[j] \in Nat
    BY RecordTyped, InvByRecord DEF HermesFail, TypeOK
  <1>2. QED
    BY <1>1, FailedRecord, WriteKeepsInv, InvByRecord DEF HermesFail, TypeOK

\* run.started and an approval leave the lease as it is: a Hermes job may be
\* running without one, which only fenced jobs may not.
LEMMA HermesStatusKeepsInv ==
  ASSUME Inv, NEW j \in Jobs, HermesStatus(j)
  PROVE  Inv'
  <1>1. /\ jobs[j] \in Job /\ issued[j] \in Nat /\ j \notin FencedJobs
        /\ RecordOK(j, jobs[j], issued[j])
    BY RecordTyped, InvByRecord DEF HermesStatus, TypeOK, FencedJobs
  <1>2. CASE Write(j, WithStatus(jobs[j], "running"))
    <2>1. /\ WithStatus(jobs[j], "running") \in Job
          /\ RecordOK(j, WithStatus(jobs[j], "running"), issued[j])
      BY <1>1, WithStatusFields DEF RecordOK, Leased, Statuses
    <2>2. QED
      BY <1>2, <2>1, WriteKeepsInv, InvByRecord DEF HermesStatus, TypeOK
  <1>3. CASE \E status \in {"waiting_review", "completed"} :
               Write(j, Released(WithStatus(jobs[j], status)))
    BY <1>1, <1>3, ReleasedRecord, WriteKeepsInv, InvByRecord DEF HermesStatus, TypeOK
  <1>4. QED
    BY <1>2, <1>3 DEF HermesStatus

\* The simulation tool clears the lease, and the rules it breaks are claimed
\* for the other jobs only.
LEMMA SimulateCommitKeepsInv ==
  ASSUME Inv, NEW j \in Jobs, SimulateCommit(j)
  PROVE  Inv'
  <1>1. /\ jobs[j] \in Job /\ issued[j] \in Nat
        /\ j \notin FencedJobs /\ j \in SimulatedJobs
    BY RecordTyped, InvByRecord DEF SimulateCommit, TypeOK, FencedJobs
  <1>2. PICK status \in {"waiting_review", "completed", "failed", "running", "queued"} :
          Write(j, Released(WithStatus(jobs[j], status)))
    BY DEF SimulateCommit
  <1> DEFINE marked == WithStatus(jobs[j], status)
  <1>3. marked \in Job /\ marked.status = status
    BY <1>1, WithStatusFields DEF Statuses
  <1> HIDE DEF marked
  <1>4. Released(marked) \in Job /\ RecordOK(j, Released(marked), issued[j])
    BY <1>1, <1>3, ReleasedFields DEF RecordOK, Leased
  <1>5. QED
    BY <1>2, <1>4, WriteKeepsInv, InvByRecord DEF SimulateCommit, TypeOK, marked

LEMMA RetryJobKeepsInv ==
  ASSUME Inv, NEW j \in Jobs, RetryJob(j)
  PROVE  Inv'
  <1>1. jobs[j] \in Job
    BY RecordTyped, InvByRecord DEF RetryJob
  <1>2. Retried(jobs[j]) \in Job /\ RecordOK(j, Retried(jobs[j]), issued[j])
    BY <1>1, RetriedFields, Bounds DEF RecordOK, Leased
  <1>3. QED
    BY <1>2, WriteKeepsInv, InvByRecord DEF RetryJob, TypeOK

LEMMA CancelJobKeepsInv ==
  ASSUME Inv, NEW j \in Jobs, CancelJob(j)
  PROVE  Inv'
  <1>1. jobs[j] \in Job
    BY RecordTyped, InvByRecord DEF CancelJob
  <1>2. Cancelled(jobs[j]) \in Job /\ RecordOK(j, Cancelled(jobs[j]), issued[j])
    BY <1>1, CancelledFields DEF RecordOK, Leased
  <1>3. QED
    BY <1>2, WriteKeepsInv, InvByRecord DEF CancelJob, TypeOK

-----------------------------------------------------------------------------
\* A claim hands every job of the batch to its newest token.
LEMMA ClaimDueKeepsInv ==
  ASSUME Inv, NEW batch \in SUBSET Jobs, NEW left \in 0..LeaseTicks,
         ClaimDue(batch, left)
  PROVE  Inv'
  <1> DEFINE granted(i) == Claimed(jobs[i], issued[i] + 1, left)
  <1>1. ASSUME NEW i \in batch
        PROVE  /\ granted(i) \in Job
               /\ RecordOK(i, granted(i), issued[i] + 1)
    <2>1. jobs[i] \in Job /\ Due(jobs[i]) /\ issued[i] + 1 \in Nat /\ issued[i] + 1 # 0
      BY RecordTyped, InvByRecord DEF ClaimDue, TypeOK
    <2>2. /\ granted(i) \in Job
          /\ granted(i).status = "claimed"
          /\ granted(i).token = issued[i] + 1
      BY <2>1, ClaimedFields
    <2> HIDE DEF granted
    <2>3. QED
      BY <2>1, <2>2 DEF RecordOK, Leased
  <1> HIDE DEF granted
  <1>2. jobs' = [i \in Jobs |-> IF i \in batch THEN granted(i) ELSE jobs[i]]
    BY DEF ClaimDue, granted
  <1>3. issued' = [i \in Jobs |-> IF i \in batch THEN issued[i] + 1 ELSE issued[i]]
    BY DEF ClaimDue, GrantTo
  <1>4. TypeOK'
    BY <1>1, <1>2, <1>3, InvByRecord DEF TypeOK, ClaimDue, GrantTo
  <1>5. \A i \in Jobs : Exists(i)' => RecordOK(i, jobs'[i], issued'[i])
    BY <1>1, <1>2, <1>3, InvByRecord DEF Exists
  <1>6. QED
    BY <1>4, <1>5, InvFromRecords

LEMMA ClaimWaitingReviewKeepsInv ==
  ASSUME Inv, NEW batch \in SUBSET Jobs, NEW left \in 0..LeaseTicks,
         ClaimWaitingReview(batch, left)
  PROVE  Inv'
  <1> DEFINE granted(i) == ReviewClaimed(jobs[i], issued[i] + 1, left)
  <1>1. ASSUME NEW i \in batch
        PROVE  /\ granted(i) \in Job
               /\ RecordOK(i, granted(i), issued[i] + 1)
    <2>1. /\ jobs[i] \in Job /\ jobs[i].status = "waiting_review"
          /\ issued[i] + 1 \in Nat /\ issued[i] + 1 # 0
      BY RecordTyped, InvByRecord DEF ClaimWaitingReview, ReviewDue, TypeOK
    <2>2. /\ granted(i) \in Job
          /\ granted(i).status = "waiting_review"
          /\ granted(i).token = issued[i] + 1
      BY <2>1, ReviewClaimedFields
    <2> HIDE DEF granted
    <2>3. QED
      BY <2>1, <2>2 DEF RecordOK, Leased
  <1> HIDE DEF granted
  <1>2. jobs' = [i \in Jobs |-> IF i \in batch THEN granted(i) ELSE jobs[i]]
    BY DEF ClaimWaitingReview, granted
  <1>3. issued' = [i \in Jobs |-> IF i \in batch THEN issued[i] + 1 ELSE issued[i]]
    BY DEF ClaimWaitingReview, GrantTo
  <1>4. TypeOK'
    BY <1>1, <1>2, <1>3, InvByRecord DEF TypeOK, ClaimWaitingReview, GrantTo
  <1>5. \A i \in Jobs : Exists(i)' => RecordOK(i, jobs'[i], issued'[i])
    BY <1>1, <1>2, <1>3, InvByRecord DEF Exists
  <1>6. QED
    BY <1>4, <1>5, InvFromRecords

LEMMA TickKeepsInv ==
  ASSUME Inv, Tick
  PROVE  Inv'
  <1>1. ASSUME NEW i \in Jobs, Exists(i)
        PROVE  Aged(jobs[i]) \in Job /\ RecordOK(i, Aged(jobs[i]), issued[i])
    BY <1>1, RecordTyped, InvByRecord, AgedFields DEF RecordOK, Leased
  <1>2. TypeOK'
    BY <1>1, InvByRecord DEF TypeOK, Tick
  <1>3. \A i \in Jobs : Exists(i)' => RecordOK(i, jobs'[i], issued'[i])
    BY <1>1 DEF Exists, Tick
  <1>4. QED
    BY <1>2, <1>3, InvFromRecords

-----------------------------------------------------------------------------
\* The invariant holds initially and every step keeps it.
LEMMA InitInv == Init => Inv
  BY RouteJobQueueAssumption
  DEF Init, Inv, TypeOK, LiveTokenIsNewest, OwnedWhileInFlight,
      OpenWorkHasAttempts, Exists, RouteJobQueueAssumption

LEMMA NextInv == Inv /\ [Next]_vars => Inv'
  <1> SUFFICES ASSUME Inv, [Next]_vars
               PROVE  Inv'
    OBVIOUS
  <1>1. CASE UNCHANGED vars
    BY <1>1, InvByRecord DEF vars, Inv, TypeOK, LiveTokenIsNewest,
       OwnedWhileInFlight, OpenWorkHasAttempts, Exists
  <1>2. CASE \E j \in Jobs : Enqueue(j) \/ EnqueueLate(j) \/ RetryJob(j) \/ CancelJob(j)
    BY <1>2, EnqueueKeepsInv, EnqueueLateKeepsInv, RetryJobKeepsInv, CancelJobKeepsInv
  <1>3. CASE \E j \in Jobs : FencedWrite(j)
    BY <1>3, RenewLeaseKeepsInv, MarkRunningKeepsInv, MarkDispatchedKeepsInv,
       MarkWaitingReviewKeepsInv, MarkCompletedKeepsInv, FailJobKeepsInv
    DEF FencedWrite
  <1>4. CASE \E j \in Jobs : UnfencedWrite(j)
    BY <1>4, HermesStatusKeepsInv, HermesFailKeepsInv, SimulateCommitKeepsInv
    DEF UnfencedWrite
  <1>5. CASE \E batch \in SUBSET Jobs, left \in 0..LeaseTicks :
               ClaimDue(batch, left) \/ ClaimWaitingReview(batch, left)
    BY <1>5, ClaimDueKeepsInv, ClaimWaitingReviewKeepsInv
  <1>6. CASE Tick
    BY <1>6, TickKeepsInv
  <1>7. QED
    BY <1>1, <1>2, <1>3, <1>4, <1>5, <1>6 DEF Next

LEMMA InductiveInvariant == Spec => []Inv
  BY InitInv, NextInv, PTL DEF Spec

\* What every reachable state is like, and the record types in particular.
THEOREM TypeCorrect == Spec => []TypeOK
  BY InductiveInvariant, PTL DEF Inv

\* A stale worker is fenced out: whatever was granted, released, renewed,
\* retried, cancelled or overwritten, a job is held under its newest token.
THEOREM Fencing == Spec => []LiveTokenIsNewest
  BY InductiveInvariant, PTL DEF Inv

\* A claimed or running job always has an owner whose lease can run out, so it
\* can be reclaimed; jobs that Hermes or the simulation tool writes are exempt.
THEOREM Ownership == Spec => []OwnedWhileInFlight
  BY InductiveInvariant, PTL DEF Inv

\* Open work keeps an attempt to be run with, and only spent work is given up.
THEOREM Attempts == Spec => []OpenWorkHasAttempts
  BY InductiveInvariant, PTL DEF Inv

-----------------------------------------------------------------------------
\* Only a claim grants a token, and a claim passes over active leases.
LEMMA NoStealingStep ==
  ASSUME Inv, [Next]_vars
  PROVE  \A j \in Jobs :
           issued'[j] # issued[j] => Exists(j) /\ ~ActivelyLeased(jobs[j])
  <1>1. CASE UNCHANGED issued
    BY <1>1
  <1>2. CASE \E batch \in SUBSET Jobs, left \in 0..LeaseTicks : ClaimDue(batch, left)
    BY <1>2 DEF ClaimDue, GrantTo, Due, Inv, TypeOK
  <1>3. CASE \E batch \in SUBSET Jobs, left \in 0..LeaseTicks :
               ClaimWaitingReview(batch, left)
    BY <1>3 DEF ClaimWaitingReview, GrantTo, ReviewDue, Inv, TypeOK
  <1>4. QED
    BY <1>1, <1>2, <1>3
    DEF Next, vars, Enqueue, EnqueueLate, RetryJob, CancelJob, Tick, FencedWrite, RenewLease,
        MarkRunning, MarkDispatched, MarkWaitingReview, MarkCompleted, FailJob,
        UnfencedWrite, HermesStatus, HermesFail, SimulateCommit

\* An active lease suppresses duplicate work, for any number of claimants.
THEOREM NoStealingHolds == Spec => NoStealing
  <1>1. Inv /\ [Next]_vars =>
          [\A j \in Jobs :
             issued'[j] # issued[j] => Exists(j) /\ ~ActivelyLeased(jobs[j])]_vars
    BY NoStealingStep
  <1>2. QED
    BY <1>1, InductiveInvariant, PTL DEF Spec, NoStealing

-----------------------------------------------------------------------------
\* A closed job is not held, so no token passes the check on it.
LEMMA ClosedIsReleased ==
  ASSUME Inv, NEW j \in Jobs, Closed(j)
  PROVE  /\ jobs[j] \in Job /\ ~Leased(jobs[j])
         /\ \A token \in 1..issued[j] : ~Fenced(j, token)
  <1>1. jobs[j] \in Job /\ ~Leased(jobs[j])
    BY RecordTyped, InvByRecord DEF Closed, RecordOK
  <1>2. QED
    BY <1>1, FencedHoldsNewest

\* What a step may do to a closed job, when only fenced writers touch it
StaysClosed(j) ==
  /\ issued'[j] = issued[j] /\ closedBy'[j] = closedBy[j]
  /\ jobs'[j].status # jobs[j].status => jobs'[j] = QueuedJob /\ late'[j] < late[j]

\* No step takes a closed job up again, but for a late submission.
LEMMA ClosedStep ==
  ASSUME Inv, [Next]_vars, NEW j \in FencedJobs, Closed(j)
  PROVE  StaysClosed(j)
  <1>0. /\ j \in Jobs /\ j \notin HermesJobs /\ j \notin SimulatedJobs
        /\ TypeOK /\ Exists(j)
        /\ jobs[j] \in Job /\ ~Leased(jobs[j])
        /\ \A token \in 1..issued[j] : ~Fenced(j, token)
    BY ClosedIsReleased, InvByRecord DEF FencedJobs, Closed
  <1> SUFFICES ASSUME ~ \E i \in Jobs : EnqueueLate(i)
               PROVE  /\ jobs'[j].status = jobs[j].status
                      /\ issued'[j] = issued[j] /\ closedBy'[j] = closedBy[j]
    <2>1. ASSUME NEW i \in Jobs, EnqueueLate(i)
          PROVE  StaysClosed(j)
      <3>1. issued' = issued /\ closedBy' = closedBy
        BY <2>1 DEF EnqueueLate
      <3>2. jobs' = jobs \/ Write(i, QueuedJob)
        BY <2>1 DEF EnqueueLate
      <3>3. jobs \in [Jobs -> Job \cup {NoJob}] /\ late \in [Jobs -> 0..MaxLate]
        BY <1>0 DEF TypeOK
      <3>4. i = j => late'[j] < late[j]
        <4>1. late[i] \in Int /\ late'[i] = late[i] - 1
          BY <2>1, <3>3 DEF EnqueueLate
        <4>2. QED
          BY <4>1
      <3>5. i # j => jobs'[j] = jobs[j]
        BY <1>0, <3>2, <3>3 DEF Write
      <3>6. i = j => jobs'[j] = jobs[j] \/ jobs'[j] = QueuedJob
        BY <1>0, <3>2, <3>3 DEF Write
      <3>7. QED
        BY <3>1, <3>4, <3>5, <3>6 DEF StaysClosed
    <2>2. QED
      BY <2>1 DEF StaysClosed
  <1>1. CASE UNCHANGED vars
    BY <1>1 DEF vars
  <1>2. CASE \E i \in Jobs : Enqueue(i) \/ RetryJob(i)
    BY <1>0, <1>2
    DEF Enqueue, RetryJob, Retryable, Write, TypeOK, Closed
  <1>3. CASE \E i \in Jobs : CancelJob(i)
    <2>1. PICK i \in Jobs : CancelJob(i)
      BY <1>3
    <2>2. CASE i = j
      <3>1. jobs'[j] = Cancelled(jobs[j]) /\ jobs[j].status = "cancelled"
        BY <1>0, <2>1, <2>2 DEF CancelJob, Cancellable, Write, TypeOK, Closed
      <3>2. QED
        BY <1>0, <2>1, <3>1, CancelledFields DEF CancelJob
    <2>3. CASE i # j
      BY <1>0, <2>1, <2>3 DEF CancelJob, Write, TypeOK
    <2>4. QED
      BY <2>2, <2>3
  <1>4. CASE \E i \in Jobs : FencedWrite(i)
    <2>1. PICK i \in Jobs : FencedWrite(i)
      BY <1>4
    <2>2. i # j
      BY <1>0, <2>1
      DEF FencedWrite, RenewLease, MarkRunning, MarkDispatched,
          MarkWaitingReview, MarkCompleted, FailJob
    <2>3. QED
      BY <1>0, <2>1, <2>2
      DEF FencedWrite, RenewLease, MarkRunning, MarkDispatched,
          MarkWaitingReview, MarkCompleted, FailJob, Write, TypeOK
  <1>5. CASE \E i \in Jobs : UnfencedWrite(i)
    BY <1>0, <1>5
    DEF UnfencedWrite, HermesStatus, HermesFail, SimulateCommit, Write, TypeOK
  <1>6. CASE \E batch \in SUBSET Jobs, left \in 0..LeaseTicks :
               ClaimDue(batch, left) \/ ClaimWaitingReview(batch, left)
    BY <1>0, <1>6
    DEF ClaimDue, ClaimWaitingReview, Due, ClaimableStatuses, ReviewDue,
        GrantTo, TypeOK, Closed
  <1>7. CASE Tick
    BY <1>0, <1>7, AgedFields DEF Tick
  <1>8. QED
    BY <1>1, <1>2, <1>3, <1>4, <1>5, <1>6, <1>7 DEF Next

\* Completion and cancellation are final, for any interleaving of workers with
\* any tokens, operators and the clock, but for submissions that were under way
\* before the job was there: each of them undoes one at most.
THEOREM ClosedIsFinalHolds == Spec => ClosedIsFinal
  <1>1. Inv /\ [Next]_vars =>
          [\A j \in FencedJobs : Closed(j) =>
             /\ issued'[j] = issued[j] /\ closedBy'[j] = closedBy[j]
             /\ jobs'[j].status # jobs[j].status =>
                  jobs'[j] = QueuedJob /\ late'[j] < late[j]]_vars
    BY ClosedStep DEF StaysClosed
  <1>2. QED
    BY <1>1, InductiveInvariant, PTL DEF Spec, ClosedIsFinal

-----------------------------------------------------------------------------
\* The refinement.  phases, grants, lates and closers are the mapped variables.
phases == [j \in FencedJobs |-> PhaseOf(j)]
grants == [j \in FencedJobs |-> issued[j]]
lates == [j \in FencedJobs |-> late[j]]
closers == [j \in FencedJobs |-> closedBy[j]]

\* The phase of a job, by the record the store holds.
LEMMA PhaseOfRecord ==
  ASSUME NEW j \in Jobs
  PROVE  /\ ~Exists(j) => PhaseOf(j) = "absent"
         /\ Exists(j) /\ Leased(jobs[j]) => PhaseOf(j) = "held"
         /\ Closed(j) /\ ~Leased(jobs[j]) => PhaseOf(j) = "done"
         /\ Exists(j) /\ ~Closed(j) /\ ~Leased(jobs[j]) => PhaseOf(j) = "open"
  BY DEF PhaseOf, Exists, Closed

\* The same of the next state.
LEMMA PhaseOfNextRecord ==
  ASSUME NEW j \in Jobs
  PROVE  /\ ~Exists(j)' => PhaseOf(j)' = "absent"
         /\ Exists(j)' /\ Leased(jobs'[j]) => PhaseOf(j)' = "held"
         /\ Closed(j)' /\ ~Leased(jobs'[j]) => PhaseOf(j)' = "done"
         /\ Exists(j)' /\ ~Closed(j)' /\ ~Leased(jobs'[j]) => PhaseOf(j)' = "open"
  BY DEF PhaseOf, Exists, Closed, Leased

\* A write to one job changes the phase of that job alone.
LEMMA WritePhases ==
  ASSUME TypeOK, NEW j \in Jobs, NEW job \in Job, Write(j, job)
  PROVE  /\ jobs'[j] = job /\ Exists(j)'
         /\ j \notin FencedJobs => phases' = phases
         /\ j \in FencedJobs => phases' = [phases EXCEPT ![j] = PhaseOf(j)']
  <1>1. jobs'[j] = job /\ Exists(j)'
    BY RouteJobQueueAssumption DEF TypeOK, Write, Exists, RouteJobQueueAssumption
  <1>2. ASSUME NEW i \in FencedJobs, i # j
        PROVE  PhaseOf(i)' = PhaseOf(i)
    BY <1>2 DEF TypeOK, Write, PhaseOf, FencedJobs
  <1>3. QED
    BY <1>1, <1>2 DEF phases

\* The queue starts where FencedWork does.
LEMMA InitPromise == Init => Promise!Init
  BY DEF Init, Promise!Init, PhaseOf, FencedJobs

\* A write to one job that maps its phase from p to q is the abstract step,
\* when the job is fenced, and no step at all when it is not.
LEMMA MappedWrite ==
  ASSUME TypeOK, NEW j \in Jobs, NEW job \in Job, Write(j, job), UNCHANGED issued,
         UNCHANGED closedBy, UNCHANGED late,
         j \in FencedJobs =>
           \/ PhaseOf(j)' = PhaseOf(j)
           \/ PhaseOf(j) = "held" /\ PhaseOf(j)' = "open"
           \/ PhaseOf(j) \in {"open", "held"} /\ PhaseOf(j)' = "done"
  PROVE  [Promise!Next]_(Promise!vars)
  <1>1. UNCHANGED grants /\ UNCHANGED lates /\ UNCHANGED closers
    BY DEF grants, lates, closers
  <1>2. CASE j \notin FencedJobs
    BY <1>1, <1>2, WritePhases DEF Promise!vars, phases, grants, lates, closers
  <1>3. CASE j \in FencedJobs /\ PhaseOf(j)' = PhaseOf(j)
    <2>1. phases' = phases
      BY <1>3, WritePhases DEF phases
    <2>2. QED
      BY <1>1, <2>1 DEF Promise!vars, phases, grants, lates, closers
  <1>4. CASE j \in FencedJobs /\ PhaseOf(j)' # PhaseOf(j)
    <2>1. phases' = [phases EXCEPT ![j] = PhaseOf(j)'] /\ phases[j] = PhaseOf(j)
      BY <1>4, WritePhases DEF phases
    <2>2. \/ phases[j] = "held" /\ phases' = [phases EXCEPT ![j] = "open"]
          \/ phases[j] \in {"open", "held"} /\ phases' = [phases EXCEPT ![j] = "done"]
      BY <1>4, <2>1
    <2>3. Promise!GiveBack(j) \/ Promise!Withdraw(j)
      BY <1>1, <2>2
      DEF Promise!GiveBack, Promise!Withdraw, phases, grants, lates, closers
    <2>4. QED
      BY <1>4, <2>3 DEF Promise!Next
  <1>5. QED
    BY <1>2, <1>3, <1>4

\* Enqueueing submits ...
LEMMA EnqueuePromise ==
  ASSUME Inv, NEW j \in Jobs, Enqueue(j)
  PROVE  [Promise!Next]_(Promise!vars)
  <1>1. PhaseOf(j) = "absent" /\ PhaseOf(j)' = "open"
    BY QueuedJobFields, PhaseOfRecord, PhaseOfNextRecord, WritePhases, InvByRecord
    DEF Enqueue, Leased, Closed
  <1>2. UNCHANGED grants /\ UNCHANGED closers
    BY DEF Enqueue, grants, closers
  <1>3. PICK n \in 0..MaxLate : late' = [late EXCEPT ![j] = n]
    BY DEF Enqueue
  <1>4. late \in [Jobs -> 0..MaxLate] /\ FencedJobs \subseteq Jobs
    BY InvByRecord DEF TypeOK, FencedJobs
  <1>5. CASE j \in FencedJobs
    <2>1. phases[j] = "absent" /\ phases' = [phases EXCEPT ![j] = "open"]
      BY <1>1, <1>5, WritePhases, QueuedJobFields, InvByRecord DEF phases, Enqueue
    <2>2. lates' = [lates EXCEPT ![j] = n]
      BY <1>3, <1>4, <1>5 DEF lates
    <2>3. lates'[j] = n /\ n \in Nat
      BY <1>3, <1>4, <1>5 DEF lates
    <2>4. Promise!Submit(j)
      BY <1>2, <2>1, <2>2, <2>3 DEF Promise!Submit, phases, grants, lates, closers
    <2>5. QED
      BY <1>5, <2>4 DEF Promise!Next
  <1>6. CASE j \notin FencedJobs
    <2>1. UNCHANGED phases
      BY <1>6, WritePhases, QueuedJobFields, InvByRecord DEF Enqueue
    <2>2. UNCHANGED lates
      BY <1>3, <1>4, <1>6 DEF lates
    <2>3. QED
      BY <1>2, <2>1, <2>2 DEF Promise!vars, phases, grants, lates, closers
  <1>7. QED
    BY <1>5, <1>6

\* ... late, if it had looked for the job before that.
LEMMA EnqueueLatePromise ==
  ASSUME Inv, NEW j \in Jobs, EnqueueLate(j)
  PROVE  [Promise!Next]_(Promise!vars)
  <1>1. UNCHANGED grants /\ UNCHANGED closers
    BY DEF EnqueueLate, grants, closers
  <1>2. late \in [Jobs -> 0..MaxLate] /\ FencedJobs \subseteq Jobs
    BY InvByRecord DEF TypeOK, FencedJobs
  <1>3. /\ j \notin FencedJobs => phases' = phases
        /\ j \in FencedJobs =>
             phases' = phases \/ phases' = [phases EXCEPT ![j] = "open"]
    <2>1. CASE UNCHANGED jobs
      BY <2>1 DEF phases, PhaseOf
    <2>2. CASE Write(j, QueuedJob)
      <3>1. PhaseOf(j)' = "open"
        BY <2>2, QueuedJobFields, PhaseOfNextRecord, WritePhases, InvByRecord
        DEF Leased, Closed
      <3>2. QED
        BY <2>2, <3>1, QueuedJobFields, WritePhases, InvByRecord
    <2>3. QED
      BY <2>1, <2>2 DEF EnqueueLate
  <1>4. CASE j \in FencedJobs
    <2>1. lates[j] > 0 /\ lates' = [lates EXCEPT ![j] = @ - 1]
      BY <1>2, <1>4 DEF EnqueueLate, lates
    <2>2. Promise!SubmitLate(j)
      BY <1>1, <1>3, <1>4, <2>1 DEF Promise!SubmitLate, phases, grants, lates, closers
    <2>3. QED
      BY <1>4, <2>2 DEF Promise!Next
  <1>5. CASE j \notin FencedJobs
    <2>1. UNCHANGED lates
      BY <1>2, <1>5 DEF EnqueueLate, lates
    <2>2. QED
      BY <1>1, <1>3, <1>5, <2>1 DEF Promise!vars, phases, grants, lates, closers
  <1>6. QED
    BY <1>4, <1>5

\* An operator's retry keeps a job open and a cancellation withdraws it.
LEMMA OperatorPromise ==
  ASSUME Inv, NEW j \in Jobs, RetryJob(j) \/ CancelJob(j)
  PROVE  [Promise!Next]_(Promise!vars)
  <1>2. CASE RetryJob(j)
    <2>1. /\ jobs[j] \in Job /\ Exists(j) /\ ~Leased(jobs[j]) /\ ~Closed(j)
          /\ Retried(jobs[j]) \in Job
      BY <1>2, RecordTyped, RetriedFields, InvByRecord
      DEF RetryJob, Retryable, RecordOK, Closed
    <2>2. PhaseOf(j) = "open" /\ PhaseOf(j)' = "open"
      BY <1>2, <2>1, RetriedFields, PhaseOfRecord, PhaseOfNextRecord, WritePhases,
         InvByRecord
      DEF RetryJob, Leased, Closed
    <2>3. QED
      BY <1>2, <2>1, <2>2, MappedWrite, InvByRecord DEF RetryJob
  <1>3. CASE CancelJob(j)
    <2>1. /\ jobs[j] \in Job /\ Exists(j)
          /\ Cancelled(jobs[j]) \in Job
      BY <1>3, RecordTyped, CancelledFields, InvByRecord DEF CancelJob
    <2>2. PhaseOf(j)' = "done"
      BY <1>3, <2>1, CancelledFields, PhaseOfNextRecord, WritePhases, InvByRecord
      DEF CancelJob, Leased, Closed
    <2>3. PhaseOf(j) \in {"open", "held", "done"}
      BY <2>1, PhaseOfRecord
    <2>4. QED
      BY <1>3, <2>1, <2>2, <2>3, MappedWrite, InvByRecord DEF CancelJob
  <1>4. QED
    BY <1>2, <1>3

\* Renewing and starting keep the job held.
LEMMA HoldPromise ==
  ASSUME Inv, NEW j \in Jobs, NEW token, NEW left \in 0..LeaseTicks,
         RenewLease(j, token, left) \/ MarkRunning(j, token)
  PROVE  [Promise!Next]_(Promise!vars)
  <1>1. Fenced(j, token) /\ Exists(j) /\ jobs[j] \in Job /\ Leased(jobs[j])
    BY FencedHoldsNewest DEF RenewLease, MarkRunning, Fenced
  <1>2. PhaseOf(j) = "held"
    BY <1>1, PhaseOfRecord
  <1>3. PICK job \in Job : Write(j, job) /\ Leased(job)
    BY <1>1, RenewedFields, WithStatusFields
    DEF RenewLease, MarkRunning, Leased, Statuses
  <1>4. PhaseOf(j)' = "held"
    BY <1>3, PhaseOfNextRecord, WritePhases, InvByRecord
  <1>5. QED
    BY <1>2, <1>3, <1>4, MappedWrite, InvByRecord DEF RenewLease, MarkRunning

\* Parking for review and failing give the job back.
LEMMA GiveBackPromise ==
  ASSUME Inv, NEW j \in Jobs, NEW token, NEW wait \in 0..MaxDelay,
         MarkWaitingReview(j, token) \/ FailJob(j, token, wait)
  PROVE  [Promise!Next]_(Promise!vars)
  <1>1. Fenced(j, token) /\ Exists(j) /\ jobs[j] \in Job /\ Leased(jobs[j])
    BY FencedHoldsNewest DEF MarkWaitingReview, FailJob, Fenced
  <1>2. PhaseOf(j) = "held"
    BY <1>1, PhaseOfRecord
  <1>3. PICK job \in Job : /\ Write(j, job) /\ ~Leased(job)
                           /\ job.status \notin {"completed", "cancelled"}
    <2>1. CASE MarkWaitingReview(j, token)
      <3> DEFINE marked == WithStatus(jobs[j], "waiting_review")
      <3>1. marked \in Job /\ marked.status = "waiting_review"
        BY <1>1, WithStatusFields DEF Statuses
      <3> HIDE DEF marked
      <3>2. /\ Released(marked) \in Job
            /\ Released(marked).status = "waiting_review"
            /\ Released(marked).token = 0
        BY <3>1, ReleasedFields
      <3>3. QED
        BY <2>1, <3>2 DEF MarkWaitingReview, Leased, marked
    <2>2. CASE FailJob(j, token, wait)
      BY <1>1, <2>2, FailedFields DEF FailJob, Leased
    <2>3. QED
      BY <2>1, <2>2
  <1>4. PhaseOf(j)' = "open"
    BY <1>3, PhaseOfNextRecord, WritePhases, InvByRecord DEF Closed
  <1>5. QED
    BY <1>2, <1>3, <1>4, MappedWrite, InvByRecord DEF MarkWaitingReview, FailJob

\* The holder of the newest grant completes the job.
LEMMA CompletePromise ==
  ASSUME Inv, NEW j \in Jobs, NEW token, MarkCompleted(j, token)
  PROVE  [Promise!Next]_(Promise!vars)
  <1>1. /\ Exists(j) /\ jobs[j] \in Job /\ Leased(jobs[j])
        /\ token = issued[j] /\ TypeOK
    BY FencedHoldsNewest, InvByRecord DEF MarkCompleted, Fenced
  <1>2. PICK job \in Job : Write(j, job) /\ ~Leased(job) /\ job.status = "completed"
    <2> DEFINE marked == WithStatus(jobs[j], "completed")
    <2>1. marked \in Job /\ marked.status = "completed"
      BY <1>1, WithStatusFields DEF Statuses
    <2> HIDE DEF marked
    <2>2. /\ Released(marked) \in Job /\ Released(marked).status = "completed"
          /\ Released(marked).token = 0
      BY <2>1, ReleasedFields
    <2>3. QED
      BY <2>2 DEF MarkCompleted, Leased, marked
  <1>3. PhaseOf(j) = "held" /\ PhaseOf(j)' = "done"
    BY <1>1, <1>2, PhaseOfRecord, PhaseOfNextRecord, WritePhases DEF Closed
  <1>4. UNCHANGED grants /\ UNCHANGED lates
    BY DEF MarkCompleted, grants, lates
  <1>5. CASE j \in FencedJobs
    <2>1. phases[j] = "held" /\ phases' = [phases EXCEPT ![j] = "done"]
      BY <1>1, <1>2, <1>3, <1>5, WritePhases DEF phases
    <2>2. closers' = [closers EXCEPT ![j] = grants[j]]
      BY <1>1, <1>5 DEF MarkCompleted, closers, grants, TypeOK, FencedJobs
    <2>3. Promise!Complete(j)
      BY <1>4, <2>1, <2>2 DEF Promise!Complete, phases, grants, lates, closers
    <2>4. QED
      BY <1>5, <2>3 DEF Promise!Next
  <1>6. CASE j \notin FencedJobs
    <2>1. UNCHANGED closers
      BY <1>1, <1>6 DEF MarkCompleted, closers, TypeOK, FencedJobs
    <2>2. UNCHANGED phases
      BY <1>1, <1>2, <1>6, WritePhases
    <2>3. QED
      BY <1>4, <2>1, <2>2 DEF Promise!vars, phases, grants, lates, closers
  <1>7. QED
    BY <1>5, <1>6

\* Hermes, its dispatch and the simulation tool write jobs that are not fenced.
LEMMA UnfencedPromise ==
  ASSUME Inv, NEW j \in Jobs,
         UnfencedWrite(j) \/ \E token \in 1..issued[j] : MarkDispatched(j, token)
  PROVE  [Promise!Next]_(Promise!vars)
  <1>1. j \notin FencedJobs
    BY DEF UnfencedWrite, HermesStatus, HermesFail, SimulateCommit, MarkDispatched,
           FencedJobs
  <1>2. /\ UNCHANGED <<issued, late, closedBy>>
        /\ \A i \in FencedJobs : jobs'[i] = jobs[i]
    BY <1>1, InvByRecord
    DEF UnfencedWrite, HermesStatus, HermesFail, SimulateCommit, MarkDispatched,
        Write, TypeOK, FencedJobs
  <1>3. UNCHANGED phases
    BY <1>2 DEF phases, PhaseOf
  <1>4. QED
    BY <1>2, <1>3 DEF Promise!vars, phases, grants, lates, closers

\* A claim grants the fenced jobs of its batch.
LEMMA ClaimPromise ==
  ASSUME Inv, NEW batch \in SUBSET Jobs, NEW left \in 0..LeaseTicks,
         ClaimDue(batch, left) \/ ClaimWaitingReview(batch, left)
  PROVE  [Promise!Next]_(Promise!vars)
  <1> DEFINE taken == batch \cap FencedJobs
  <1>1. TypeOK /\ TypeOK'
    BY ClaimDueKeepsInv, ClaimWaitingReviewKeepsInv DEF Inv
  <1>2. ASSUME NEW i \in batch
        PROVE  /\ Exists(i) /\ ~Closed(i) /\ jobs[i] \in Job
               /\ issued'[i] = issued[i] + 1 /\ issued[i] \in Nat
               /\ Exists(i)' /\ Leased(jobs'[i])
    <2>1. Exists(i) /\ ~Closed(i) /\ jobs[i] \in Job /\ issued[i] \in Nat
      BY <1>1, RecordTyped
      DEF ClaimDue, ClaimWaitingReview, Due, ReviewDue, ClaimableStatuses, Closed, TypeOK
    <2>2. issued'[i] = issued[i] + 1 /\ issued[i] + 1 \in Nat /\ issued[i] + 1 # 0
      BY <2>1 DEF ClaimDue, ClaimWaitingReview, GrantTo
    <2>3. PICK job \in Job : jobs'[i] = job /\ job.token = issued[i] + 1
      <3>1. CASE ClaimDue(batch, left)
        BY <2>1, <2>2, <3>1, ClaimedFields DEF ClaimDue
      <3>2. CASE ClaimWaitingReview(batch, left)
        BY <2>1, <2>2, <3>2, ReviewClaimedFields DEF ClaimWaitingReview
      <3>3. QED
        BY <3>1, <3>2
    <2>4. QED
      BY <2>1, <2>2, <2>3, RouteJobQueueAssumption
      DEF Exists, Leased, RouteJobQueueAssumption
  <1>3. \A i \in taken : PhaseOf(i) \in {"open", "held"} /\ PhaseOf(i)' = "held"
    BY <1>2, PhaseOfRecord, PhaseOfNextRecord DEF FencedJobs
  <1>4. \A i \in Jobs \ batch : jobs'[i] = jobs[i] /\ issued'[i] = issued[i]
    BY DEF ClaimDue, ClaimWaitingReview, GrantTo
  <1>5. \A i \in FencedJobs \ taken : PhaseOf(i)' = PhaseOf(i)
    BY <1>4 DEF PhaseOf, FencedJobs
  <1>6. phases' = [i \in FencedJobs |-> IF i \in taken THEN "held" ELSE phases[i]]
    BY <1>3, <1>5 DEF phases
  <1>7. grants' = [i \in FencedJobs |-> IF i \in taken THEN grants[i] + 1 ELSE grants[i]]
    BY <1>2, <1>4 DEF grants, FencedJobs
  <1>8. closers' = closers /\ lates' = lates
    BY DEF ClaimDue, ClaimWaitingReview, GrantTo, closers, lates
  <1>9. Promise!Grant(taken)
    BY <1>3, <1>6, <1>7, <1>8 DEF Promise!Grant, phases, grants, lates, closers
  <1>10. QED
    BY <1>9 DEF Promise!Next

\* Time passing is invisible to the promise.
LEMMA TickPromise ==
  ASSUME Inv, Tick
  PROVE  [Promise!Next]_(Promise!vars)
  <1>1. ASSUME NEW i \in FencedJobs
        PROVE  PhaseOf(i)' = PhaseOf(i)
    <2>1. i \in Jobs
      BY DEF FencedJobs
    <2>2. CASE Exists(i)
      <3>1. /\ jobs'[i] = Aged(jobs[i]) /\ Aged(jobs[i]) \in Job
            /\ Aged(jobs[i]).status = jobs[i].status
            /\ Aged(jobs[i]).token = jobs[i].token
        BY <2>1, <2>2, RecordTyped, AgedFields, InvByRecord DEF Tick
      <3>2. Exists(i)'
        BY <2>1, <3>1, RouteJobQueueAssumption DEF Exists, RouteJobQueueAssumption
      <3>3. QED
        BY <2>1, <2>2, <3>1, <3>2 DEF PhaseOf, Leased, Exists
    <2>3. CASE ~Exists(i)
      BY <2>1, <2>3 DEF Tick, Exists, PhaseOf
    <2>4. QED
      BY <2>2, <2>3
  <1>2. UNCHANGED phases
    BY <1>1 DEF phases
  <1>3. QED
    BY <1>2 DEF Tick, Promise!vars, phases, grants, lates, closers

\* Every step of the queue is a step of FencedWork or a stutter.
LEMMA NextPromise == Inv /\ [Next]_vars => [Promise!Next]_(Promise!vars)
  <1> SUFFICES ASSUME Inv, [Next]_vars
               PROVE  [Promise!Next]_(Promise!vars)
    OBVIOUS
  <1>1. CASE UNCHANGED vars
    <2>1. UNCHANGED phases
      BY <1>1 DEF vars, phases, PhaseOf
    <2>2. QED
      BY <1>1, <2>1 DEF vars, Promise!vars, phases, grants, lates, closers
  <1>2. CASE \E j \in Jobs : Enqueue(j) \/ EnqueueLate(j) \/ RetryJob(j) \/ CancelJob(j)
    BY <1>2, EnqueuePromise, EnqueueLatePromise, OperatorPromise
  <1>3. CASE \E j \in Jobs : FencedWrite(j)
    <2>0. PICK j \in Jobs : FencedWrite(j)
      BY <1>3
    <2>1. PICK token \in 1..issued[j] :
            \/ \E left \in 0..LeaseTicks : RenewLease(j, token, left)
            \/ MarkRunning(j, token) \/ MarkDispatched(j, token)
            \/ MarkWaitingReview(j, token) \/ MarkCompleted(j, token)
            \/ \E wait \in 0..MaxDelay : FailJob(j, token, wait)
      BY <2>0 DEF FencedWrite
    <2>2. CASE (\E left \in 0..LeaseTicks : RenewLease(j, token, left)) \/ MarkRunning(j, token)
      BY <2>2, HoldPromise, Bounds
    <2>3. CASE MarkDispatched(j, token)
      BY <2>3, UnfencedPromise
    <2>4. CASE MarkWaitingReview(j, token)
      BY <2>4, GiveBackPromise, Bounds
    <2>5. CASE \E wait \in 0..MaxDelay : FailJob(j, token, wait)
      BY <2>5, GiveBackPromise
    <2>6. CASE MarkCompleted(j, token)
      BY <2>6, CompletePromise
    <2>7. QED
      BY <2>1, <2>2, <2>3, <2>4, <2>5, <2>6
  <1>4. CASE \E j \in Jobs : UnfencedWrite(j)
    BY <1>4, UnfencedPromise
  <1>5. CASE \E batch \in SUBSET Jobs, left \in 0..LeaseTicks :
               ClaimDue(batch, left) \/ ClaimWaitingReview(batch, left)
    BY <1>5, ClaimPromise
  <1>6. CASE Tick
    BY <1>6, TickPromise
  <1>7. QED
    BY <1>1, <1>2, <1>3, <1>4, <1>5, <1>6 DEF Next

\* The queue keeps its promise on the jobs only fenced writers touch: grants
\* are numbered, the newest one alone completes a job, and done is final but
\* for the late submissions there are.
THEOREM KeepsPromise == Spec => ImplementsFencedWork
  BY InitPromise, NextPromise, InductiveInvariant, PTL
  DEF Spec, ImplementsFencedWork, Promise!Spec

-----------------------------------------------------------------------------
(***************************************************************************)
(* Theorems about HostedRouteStore, for any calls side by side, any number *)
(* of tries and of requests or answers that get lost: read, compute and    *)
(* compare-and-swap amount to the atomic operations of RouteJobQueue, so   *)
(* that every theorem about that queue holds of the hosted store, and a    *)
(* caller is told what happened.                                           *)
(*                                                                         *)
(* The invariant says what a call holds between its read and its swap: as  *)
(* long as nobody has written the row, the record it computed is the one   *)
(* the atomic operation would write now, however much time has passed.     *)
(***************************************************************************)

UnderWay(call) == call.at \in {"read", "swap"}

\* The call may ask for its update, n tokens having been granted for the job.
Entitled(call, n) ==
  \/ call.op \in Unfenced /\ call.token = 0
  \/ /\ call.op \in Updates \ (Unfenced \cup {IF call.job \in HermesJobs THEN "run" ELSE "dispatch"})
     /\ call.token \in 1..n

\* The new record is what the update makes of the row.
Computed(call, row) ==
  /\ Allowed(call.op, row)
  /\ \E left \in LeftAfter(call.op, row) : call.new = Updated(call.op, row, left)

Truthful(call) ==
  CASE call.answer = "ok" -> call.writes = 1
    [] call.answer = "error" -> call.writes <= 1
    [] OTHER -> call.writes = 0

\* What a call is at any time, over rows J with I tokens granted.
CallOK(call, J, I) ==
  /\ call \in Call
  /\ UnderWay(call) =>
       /\ call.job \in Jobs /\ call.op \in Updates \cup {"enqueue"}
       /\ call.writes = 0 /\ call.tries < MaxTries
  /\ UnderWay(call) /\ call.op \in Updates =>
       J[call.job] \in Job /\ Entitled(call, I[call.job])
  /\ call.at = "swap" /\ call.op \in Updates =>
       call.new \in Job /\ (call.fresh => Computed(call, J[call.job]))
  /\ call.at = "done" /\ call.op \in Updates => Truthful(call)

CallsOK ==
  /\ calls \in [Callers -> Call]
  /\ \A c \in Callers : CallOK(calls[c], jobs, issued)

StoreInv == Inv /\ CallsOK /\ faults \in 0..MaxFaults

-----------------------------------------------------------------------------
\* What an update makes of a job is a job, whatever is left of a lease or delay.
LEMMA UpdatedType ==
  ASSUME NEW job \in Job, NEW op \in Updates, NEW left \in LeftAfter(op, job)
  PROVE  Updated(op, job, left) \in Job
  <1>1. CASE op = "renew"
    BY <1>1, RenewedFields DEF Updated, LeftAfter
  <1>2. CASE op = "fail"
    BY <1>2, FailedFields DEF Updated, LeftAfter
  <1>3. CASE op \in {"run", "dispatch", "review", "complete"}
    <2>1. \A s \in {"running", "dispatched", "waiting_review", "completed"} :
            WithStatus(job, s) \in Job /\ Released(WithStatus(job, s)) \in Job
      BY WithStatusFields, ReleasedFields DEF Statuses
    <2>2. QED
      BY <1>3, <2>1 DEF Updated
  <1>4. CASE op \in Unfenced
    BY <1>4, RetriedFields, CancelledFields DEF Updated, Unfenced
  <1>5. QED
    BY <1>1, <1>2, <1>3, <1>4 DEF Updates, Unfenced

\* Time passes for a record on its way as it does for the row: what an update
\* made of the row before a tick, aged, is what it makes of the aged row.
LEMMA AgedUpdate ==
  ASSUME NEW job \in Job, NEW op \in Updates, NEW left \in LeftAfter(op, job),
         Allowed(op, job)
  PROVE  /\ Allowed(op, Aged(job))
         /\ \E rest \in LeftAfter(op, Aged(job)) :
              Aged(Updated(op, job, left)) = Updated(op, Aged(job), rest)
  <1>1. Aged(job) \in Job /\ Aged(job).status = job.status /\ Aged(job).attempt = job.attempt
    BY AgedFields
  <1>2. Allowed(op, Aged(job))
    BY <1>1, Bounds DEF Allowed, Retryable, Cancellable, ActivelyLeased, Leased, Aged, Less, Job
  <1>3. CASE op = "renew"
    <2>1. Less(left) \in LeftAfter(op, Aged(job))
      BY <1>3, Bounds DEF LeftAfter, Less
    <2>2. Aged(Renewed(job, left)) = Renewed(Aged(job), Less(left))
      BY <1>3, Bounds DEF Aged, Renewed, Job, LeftAfter
    <2>3. QED
      BY <1>2, <1>3, <2>1, <2>2 DEF Updated
  <1>4. CASE op = "fail"
    <2>1. Less(left) \in 0..MaxDelay /\ Less(left) <= left
      BY <1>4, Bounds DEF LeftAfter, Less
    <2>2. RetryDelay(Aged(job).attempt) \in Nat /\ RetryDelay(Aged(job).attempt) = RetryDelay(job.attempt)
      BY <1>1, DelayType, Bounds DEF Job
    <2>3. left <= RetryDelay(job.attempt) /\ left \in 0..MaxDelay
      BY <1>4 DEF LeftAfter
    <2>4. Less(left) <= RetryDelay(Aged(job).attempt)
      BY <2>1, <2>2, <2>3, Bounds
    <2>5. Less(left) \in LeftAfter(op, Aged(job))
      BY <1>4, <2>1, <2>4 DEF LeftAfter
    <2>6. Aged(Failed(job, left)) = Failed(Aged(job), Less(left))
      <3>1. HasRetriesLeft(Aged(job)) = HasRetriesLeft(job)
        BY <1>1 DEF HasRetriesLeft
      <3>2. Less(0) = 0
        BY DEF Less
      <3>3. CASE HasRetriesLeft(job)
        BY <3>1, <3>2, <3>3 DEF Failed, Released, Aged, Job
      <3>4. CASE ~HasRetriesLeft(job)
        BY <3>1, <3>2, <3>4 DEF Failed, Released, Aged, Job
      <3>5. QED
        BY <3>3, <3>4
    <2>7. QED
      BY <1>2, <1>4, <2>5, <2>6 DEF Updated
  <1>5. CASE op \in {"run", "dispatch", "review", "complete", "retry", "cancel"}
    <2>1. 0 \in LeftAfter(op, Aged(job))
      BY <1>5 DEF LeftAfter
    <2>2. Less(0) = 0
      BY DEF Less
    <2>3. \A s : Aged(WithStatus(job, s)) = WithStatus(Aged(job), s)
      BY DEF Aged, WithStatus, Job
    <2>4. \A s : Aged(Released(WithStatus(job, s))) = Released(WithStatus(Aged(job), s))
      BY <2>2 DEF Aged, Released, WithStatus, Job
    <2>5. Aged(Retried(job)) = Retried(Aged(job)) /\ Aged(Cancelled(job)) = Cancelled(Aged(job))
      BY <2>2 DEF Aged, Released, Retried, Cancelled, Job
    <2>6. Aged(Updated(op, job, left)) = Updated(op, Aged(job), 0)
      BY <1>5, <2>3, <2>4, <2>5 DEF Updated
    <2>7. QED
      BY <1>2, <2>1, <2>6
  <1>6. QED
    BY <1>3, <1>4, <1>5 DEF Updates, Unfenced

-----------------------------------------------------------------------------
\* A swap that succeeds is the atomic operation, made when the row was written:
\* nobody wrote the row since it was read, so what was computed then is what
\* the operation makes of it now.
LEMMA StoreIsAtomic ==
  ASSUME StoreInv, NEW c \in Callers, At(c, "swap"), calls[c].op \in Updates, Store(c)
  PROVE  Next
  <1> DEFINE j == calls[c].job
             op == calls[c].op
             token == calls[c].token
  <1>1. /\ j \in Jobs /\ jobs[j] \in Job /\ Entitled(calls[c], issued[j])
        /\ Computed(calls[c], jobs[j])
        /\ HoldsLease(jobs[j], token) /\ Write(j, calls[c].new)
    BY DEF StoreInv, CallsOK, CallOK, UnderWay, At, Store, Matches, Row
  <1>2. Exists(j)
    BY <1>1, RouteJobQueueAssumption DEF Exists, RouteJobQueueAssumption
  <1>3. PICK left \in LeftAfter(op, jobs[j]) : calls[c].new = Updated(op, jobs[j], left)
    BY <1>1 DEF Computed
  <1>4. Write(j, Updated(op, jobs[j], left)) /\ Allowed(op, jobs[j]) /\ UNCHANGED <<issued, late>>
    BY <1>1, <1>3 DEF Computed, Store
  <1>5. op # "complete" => UNCHANGED closedBy
    BY DEF Store
  <1>6. CASE op = "retry"
    BY <1>1, <1>2, <1>4, <1>5, <1>6 DEF RetryJob, Updated, Allowed, Next
  <1>7. CASE op = "cancel"
    BY <1>1, <1>2, <1>4, <1>5, <1>7 DEF CancelJob, Updated, Allowed, Next
  <1>8. CASE op \in Updates \ Unfenced
    <2>1. token \in 1..issued[j] /\ Fenced(j, token)
      BY <1>1, <1>2, <1>8 DEF Entitled, Fenced, Unfenced
    <2>2. CASE op = "renew"
      <3>1. left \in 0..LeaseTicks
        BY <2>2, <1>3 DEF LeftAfter
      <3>2. RenewLease(j, token, left)
        BY <2>1, <2>2, <1>4, <1>5 DEF RenewLease, Updated
      <3>3. QED
        BY <2>1, <3>1, <3>2, <1>1 DEF FencedWrite, Next
    <2>3. CASE op = "fail"
      <3>1. left \in 0..MaxDelay /\ left <= RetryDelay(jobs[j].attempt)
        BY <2>3, <1>3 DEF LeftAfter
      <3>2. FailJob(j, token, left)
        BY <2>1, <2>3, <3>1, <1>4, <1>5 DEF FailJob, Updated
      <3>3. QED
        BY <2>1, <3>1, <3>2, <1>1 DEF FencedWrite, Next
    <2>4. CASE op = "run"
      <3>1. j \notin HermesJobs
        BY <1>1, <2>4 DEF Entitled, Unfenced
      <3>2. MarkRunning(j, token)
        BY <2>1, <2>4, <3>1, <1>4, <1>5 DEF MarkRunning, Updated
      <3>3. QED
        BY <2>1, <3>2, <1>1 DEF FencedWrite, Next
    <2>5. CASE op = "dispatch"
      <3>1. j \in HermesJobs
        BY <1>1, <2>5 DEF Entitled, Unfenced
      <3>2. MarkDispatched(j, token)
        BY <2>1, <2>5, <3>1, <1>4, <1>5 DEF MarkDispatched, Updated
      <3>3. QED
        BY <2>1, <3>2, <1>1 DEF FencedWrite, Next
    <2>6. CASE op = "review"
      <3>1. MarkWaitingReview(j, token)
        BY <2>1, <2>6, <1>4, <1>5 DEF MarkWaitingReview, Updated
      <3>2. QED
        BY <2>1, <3>1, <1>1 DEF FencedWrite, Next
    <2>7. CASE op = "complete"
      <3>1. MarkCompleted(j, token)
        BY <2>1, <2>7, <1>4 DEF MarkCompleted, Updated, Store
      <3>2. QED
        BY <2>1, <3>1, <1>1 DEF FencedWrite, Next
    <2>8. QED
      BY <1>8, <2>2, <2>3, <2>4, <2>5, <2>6, <2>7 DEF Updates, Unfenced
  <1>9. QED
    BY <1>6, <1>7, <1>8 DEF StoreInv, CallsOK, Updates, Unfenced

\* Every step of the store is an operation of the queue, or none.
LEMMA StepIsAtomic ==
  ASSUME StoreInv, [StoreNext]_storeVars
  PROVE  [Next]_vars
  <1>1. ASSUME NEW c \in Callers, Swap(c) \/ AnswerLost(c)
        PROVE  Next
    BY <1>1, StoreIsAtomic DEF Swap, AnswerLost
  <1>2. ASSUME NEW c \in Callers, Insert(c)
        PROVE  [Next]_vars
    <2>1. calls[c].job \in Jobs
      BY <1>2 DEF StoreInv, CallsOK, CallOK, UnderWay, At, Insert
    <2>2. QED
      BY <1>2, <2>1 DEF Insert, Next
  <1>3. ASSUME NEW c \in Callers,
               \/ Read(c) \/ Conflict(c) \/ GetJob(c) \/ Return(c) \/ RequestFails(c)
               \/ \E j \in Jobs : BeginEnqueue(c, j)
                   \/ \E op \in Updates, token \in 0..issued[j] : Begin(c, j, op, token)
        PROVE  UNCHANGED vars
    BY <1>3 DEF Read, Conflict, GetJob, Return, RequestFails, BeginEnqueue, Begin
  <1>4. ASSUME NEW batch \in SUBSET Jobs, NEW left \in 0..LeaseTicks, Claim(batch, left)
        PROVE  Next
    BY <1>4 DEF Claim, Next
  <1>5. StoreTick => Next
    BY DEF StoreTick, Next
  <1>6. UNCHANGED storeVars => UNCHANGED vars
    BY DEF storeVars, vars
  <1>7. QED
    BY <1>1, <1>2, <1>3, <1>4, <1>5, <1>6 DEF StoreNext, Step

-----------------------------------------------------------------------------
\* A call keeps what it holds while others write: rows stay rows, no grant is
\* taken back, and what it read is stale if its row has changed.
LEMMA CallKept ==
  ASSUME NEW call, NEW J, NEW K, NEW I \in [Jobs -> Nat], NEW L \in [Jobs -> Nat],
         CallOK(call, J, I),
         \A j \in Jobs : J[j] \in Job => K[j] \in Job,
         \A j \in Jobs : I[j] <= L[j],
         NEW fresh \in BOOLEAN, fresh => call.fresh /\ K[call.job] = J[call.job]
  PROVE  CallOK([call EXCEPT !.fresh = fresh], K, L)
  <1> DEFINE next == [call EXCEPT !.fresh = fresh]
  <1>1. /\ next \in Call /\ next.at = call.at /\ next.job = call.job /\ next.op = call.op
        /\ next.token = call.token /\ next.new = call.new /\ next.fresh = fresh
        /\ next.tries = call.tries /\ next.writes = call.writes /\ next.answer = call.answer
    BY DEF CallOK, Call
  <1> HIDE DEF next
  <1>2. UnderWay(next) = UnderWay(call) /\ Truthful(next) = Truthful(call)
    BY <1>1 DEF UnderWay, Truthful
  <1>3. ASSUME call.job \in Jobs, Entitled(call, I[call.job])
        PROVE  Entitled(next, L[call.job])
    BY <1>1, <1>3 DEF Entitled
  <1>4. ASSUME fresh, Computed(call, J[call.job])
        PROVE  Computed(next, K[call.job])
    BY <1>1, <1>4 DEF Computed
  <1>5. UnderWay(next) =>
          /\ next.job \in Jobs /\ next.op \in Updates \cup {"enqueue"}
          /\ next.writes = 0 /\ next.tries < MaxTries
    BY <1>1, <1>2 DEF CallOK
  <1>6. UnderWay(next) /\ next.op \in Updates =>
          K[next.job] \in Job /\ Entitled(next, L[next.job])
    BY <1>1, <1>2, <1>3 DEF CallOK
  <1>7. next.at = "swap" /\ next.op \in Updates =>
          next.new \in Job /\ (next.fresh => Computed(next, K[next.job]))
    BY <1>1, <1>4 DEF CallOK
  <1>8. next.at = "done" /\ next.op \in Updates => Truthful(next)
    BY <1>1, <1>2 DEF CallOK
  <1>9. CallOK(next, K, L)
    BY <1>1, <1>5, <1>6, <1>7, <1>8 DEF CallOK
  <1>10. QED
    BY <1>9 DEF next

\* A step of one call alone, which writes no row.
LEMMA OwnStep ==
  ASSUME StoreInv, NEW c \in Callers, NEW next, CallOK(next, jobs, issued),
         UNCHANGED vars, calls' = [calls EXCEPT ![c] = next]
  PROVE  CallsOK'
  <1>1. calls \in [Callers -> Call] /\ next \in Call
    BY DEF StoreInv, CallsOK, CallOK
  <1>2. jobs' = jobs /\ issued' = issued
    BY DEF vars
  <1>3. \A d \in Callers : CallOK(calls'[d], jobs', issued')
    BY <1>1, <1>2 DEF StoreInv, CallsOK
  <1>4. calls' \in [Callers -> Call]
    BY <1>1
  <1>5. QED
    BY <1>3, <1>4 DEF CallsOK

\* What a write does to the rows and to the calls that did not make it.
LEMMA OthersKept ==
  ASSUME StoreInv, NEW written,
         \A j \in Jobs : jobs[j] \in Job => jobs'[j] \in Job,
         \A j \in Jobs : issued[j] <= issued'[j], issued' \in [Jobs -> Nat],
         \A j \in Jobs \ written : jobs'[j] = jobs[j],
         NEW d \in Callers
  PROVE  CallOK(AllStale(written)[d], jobs', issued')
  <1> DEFINE fresh == calls[d].fresh /\ calls[d].job \notin written
  <1>1. CallOK(calls[d], jobs, issued) /\ calls[d] \in Call /\ issued \in [Jobs -> Nat]
    BY InvByRecord DEF StoreInv, CallsOK, TypeOK
  <1>2. AllStale(written)[d] = [calls[d] EXCEPT !.fresh = fresh]
    BY DEF AllStale
  <1>3. fresh \in BOOLEAN
    BY <1>1 DEF Call
  <1>4. CASE calls[d].job \in Jobs
    <2>1. fresh => calls[d].fresh /\ jobs'[calls[d].job] = jobs[calls[d].job]
      BY <1>4
    <2>2. CallOK([calls[d] EXCEPT !.fresh = fresh], jobs', issued')
      BY <1>1, <1>3, <2>1, CallKept
    <2>3. QED
      BY <1>2, <2>2
  <1>5. CASE calls[d].job \notin Jobs
    <2>1. ~UnderWay(calls[d])
      BY <1>1, <1>5 DEF CallOK
    <2>2. CallOK([calls[d] EXCEPT !.fresh = fresh], jobs', issued')
      BY <1>1, <1>3, <2>1 DEF CallOK, UnderWay, Call, Truthful
    <2>3. QED
      BY <1>2, <2>2
  <1>6. QED
    BY <1>4, <1>5

\* A call that writes a row and is then as "next" says.
LEMMA WriteStep ==
  ASSUME StoreInv, NEW c \in Callers, NEW j \in Jobs, NEW job \in Job, Write(j, job),
         UNCHANGED issued, NEW next, CallOK(next, jobs', issued'),
         calls' = [AllStale({j}) EXCEPT ![c] = next]
  PROVE  CallsOK'
  <1>1. jobs \in [Jobs -> Job \cup {NoJob}] /\ issued \in [Jobs -> Nat]
    BY InvByRecord DEF StoreInv, TypeOK
  <1>2. /\ \A i \in Jobs : jobs[i] \in Job => jobs'[i] \in Job
        /\ \A i \in Jobs \ {j} : jobs'[i] = jobs[i]
    BY <1>1 DEF Write
  <1>3. (\A i \in Jobs : issued[i] <= issued'[i]) /\ issued' \in [Jobs -> Nat]
    BY <1>1
  <1>4. \A d \in Callers : CallOK(AllStale({j})[d], jobs', issued')
    BY <1>2, <1>3, OthersKept
  <1>5. \A d \in Callers : calls'[d] = IF d = c THEN next ELSE AllStale({j})[d]
    BY DEF AllStale
  <1>6. \A d \in Callers : CallOK(calls'[d], jobs', issued')
    BY <1>4, <1>5
  <1>7. calls' \in [Callers -> Call]
    <2>1. DOMAIN calls' = Callers /\ calls' = [d \in Callers |-> calls'[d]]
      BY DEF AllStale
    <2>2. QED
      BY <2>1, <1>6 DEF CallOK
  <1>8. QED
    BY <1>6, <1>7 DEF CallsOK

-----------------------------------------------------------------------------
\* A call with nothing on its way is in order whatever else holds.
LEMMA AtRest ==
  ASSUME NEW J, NEW I
  PROVE  /\ CallOK(Idle, J, I)
         /\ \A call \in Call :
              call.at = "done" /\ (call.op \in Updates => Truthful(call)) => CallOK(call, J, I)
  BY HostedRouteStoreAssumption DEF HostedRouteStoreAssumption, CallOK, Idle, Call, UnderWay

\* A caller without a call.
LEMMA IdleCall ==
  Idle \in Call /\ Idle.token = 0 /\ Idle.tries = 0 /\ Idle.writes = 0
  BY AtRest DEF CallOK, Idle

LEMMA BeginKeepsCalls ==
  ASSUME StoreInv, NEW c \in Callers, NEW j \in Jobs, NEW op \in Updates,
         NEW token \in 0..issued[j], Begin(c, j, op, token)
  PROVE  CallsOK'
  <1> DEFINE next == [Idle EXCEPT !.at = "read", !.job = j, !.op = op, !.token = token]
  <1>1. jobs[j] \in Job /\ issued[j] \in Nat /\ Asks(j, op, token)
    BY RecordTyped, InvByRecord DEF StoreInv, Begin, TypeOK
  <1>2. /\ next \in Call /\ next.at = "read" /\ next.job = j /\ next.op = op
        /\ next.token = token /\ next.tries = 0 /\ next.writes = 0
    <2>1. token \in Nat
      BY <1>1
    <2>2. QED
      BY <2>1, IdleCall DEF Call
  <1> HIDE DEF next
  <1>3. Entitled(next, issued[j])
    BY <1>1, <1>2 DEF Entitled, Asks
  <1>4. CallOK(next, jobs, issued)
    BY <1>1, <1>2, <1>3, HostedRouteStoreAssumption
    DEF HostedRouteStoreAssumption, CallOK, UnderWay
  <1>5. UNCHANGED vars /\ calls' = [calls EXCEPT ![c] = next]
    BY DEF Begin, next
  <1>6. QED
    BY <1>4, <1>5, OwnStep

LEMMA BeginEnqueueKeepsCalls ==
  ASSUME StoreInv, NEW c \in Callers, NEW j \in Jobs, BeginEnqueue(c, j)
  PROVE  CallsOK'
  <1> DEFINE next == [Idle EXCEPT !.at = "read", !.job = j, !.op = "enqueue"]
  <1>2. UNCHANGED vars /\ calls' = [calls EXCEPT ![c] = next]
    BY DEF BeginEnqueue
  <1>4. /\ next \in Call /\ next.at = "read" /\ next.job = j /\ next.op = "enqueue"
        /\ next.token = 0 /\ next.tries = 0 /\ next.writes = 0
    BY IdleCall DEF Call
  <1> HIDE DEF next
  <1>1. CallOK(next, jobs, issued)
    BY <1>4, HostedRouteStoreAssumption
    DEF HostedRouteStoreAssumption, CallOK, UnderWay, Updates, Unfenced
  <1>3. QED
    BY <1>1, <1>2, OwnStep

LEMMA ReadKeepsCalls ==
  ASSUME StoreInv, NEW c \in Callers, Read(c)
  PROVE  CallsOK'
  <1>1. /\ CallOK(calls[c], jobs, issued) /\ calls[c] \in Call
        /\ calls[c].at = "read" /\ calls[c].op \in Updates
        /\ calls[c].writes = 0 /\ calls[c].tries < MaxTries
        /\ calls[c].job \in Jobs /\ Row(c) \in Job /\ Entitled(calls[c], issued[calls[c].job])
    BY DEF StoreInv, CallsOK, CallOK, UnderWay, Read, At, Row
  <1>2. ASSUME NEW answer \in {"lease_lost", "refused"},
               calls' = [calls EXCEPT ![c] = Answered(@, answer)]
        PROVE  CallsOK'
    <2> DEFINE next == Answered(calls[c], answer)
    <2>1. next \in Call /\ next.at = "done" /\ Truthful(next)
      BY <1>1, <1>2 DEF Answered, Call, Truthful
    <2>2. CallOK(next, jobs, issued)
      BY <2>1, AtRest
    <2>3. calls' = [calls EXCEPT ![c] = next] /\ UNCHANGED vars
      BY <1>2 DEF Read
    <2>4. QED
      BY <2>2, <2>3, OwnStep
  <1>3. ASSUME NEW left \in LeftAfter(calls[c].op, Row(c)), Allowed(calls[c].op, Row(c)),
               calls' = [calls EXCEPT ![c].at = "swap", ![c].fresh = TRUE,
                           ![c].new = Updated(calls[c].op, Row(c), left)]
        PROVE  CallsOK'
    <2> DEFINE new == Updated(calls[c].op, Row(c), left)
               next == [calls[c] EXCEPT !.at = "swap", !.fresh = TRUE, !.new = new]
    <2>1. new \in Job
      BY <1>1, <1>3, UpdatedType
    <2>2. /\ next \in Call /\ next.at = "swap" /\ next.job = calls[c].job
          /\ next.op = calls[c].op /\ next.token = calls[c].token /\ next.new = new
          /\ next.writes = calls[c].writes /\ next.tries = calls[c].tries
      BY <1>1, <2>1 DEF Call
    <2>3. calls' = [calls EXCEPT ![c] = next] /\ UNCHANGED vars
      BY <1>3 DEF Read, StoreInv, CallsOK
    <2>4. Computed(next, jobs[next.job])
      BY <1>3, <2>2 DEF Computed, Row
    <2> HIDE DEF next, new
    <2>5. Entitled(next, issued[next.job])
      BY <1>1, <2>2 DEF Entitled
    <2>6. CallOK(next, jobs, issued)
      BY <1>1, <2>1, <2>2, <2>4, <2>5 DEF CallOK, UnderWay, Row
    <2>7. QED
      BY <2>3, <2>6, OwnStep
  <1>4. QED
    BY <1>2, <1>3 DEF Read

\* A call that ends, or tries again, without having written.
LEMMA ConflictKeepsCalls ==
  ASSUME StoreInv, NEW c \in Callers, Conflict(c)
  PROVE  CallsOK'
  <1> DEFINE call == [calls[c] EXCEPT !.tries = @ + 1, !.new = NoJob]
             again == [call EXCEPT !.at = "read"]
             end == Answered(call, "gave_up")
  <1>1. /\ CallOK(calls[c], jobs, issued) /\ calls[c] \in Call
        /\ calls[c].at = "swap" /\ calls[c].op \in Updates
        /\ calls[c].writes = 0 /\ calls[c].tries < MaxTries /\ calls[c].tries \in Nat
        /\ calls[c].job \in Jobs /\ jobs[calls[c].job] \in Job
        /\ Entitled(calls[c], issued[calls[c].job])
    BY DEF StoreInv, CallsOK, CallOK, UnderWay, Conflict, At, Call
  <1>2. calls[c].tries + 1 \in 0..MaxTries /\ call.tries = calls[c].tries + 1
    BY <1>1, HostedRouteStoreAssumption DEF HostedRouteStoreAssumption, Call
  <1>3. CallOK(again, jobs, issued) \/ ~(call.tries < MaxTries)
    <2>1. /\ again \in Call /\ again.at = "read" /\ again.job = calls[c].job
          /\ again.op = calls[c].op /\ again.token = calls[c].token
          /\ again.writes = 0 /\ again.tries = call.tries
      BY <1>1, <1>2 DEF Call
    <2> HIDE DEF again
    <2>2. Entitled(again, issued[again.job])
      BY <1>1, <2>1 DEF Entitled
    <2>3. QED
      BY <1>1, <2>1, <2>2 DEF CallOK, UnderWay
  <1>4. CallOK(end, jobs, issued)
    <2>1. end \in Call /\ end.at = "done" /\ end.answer = "gave_up" /\ end.writes = 0
      BY <1>1, <1>2 DEF Answered, Call
    <2> HIDE DEF end
    <2>2. QED
      BY <2>1, AtRest DEF Truthful
  <1>5. UNCHANGED vars
    BY DEF Conflict
  <1>6. calls' = [calls EXCEPT ![c] = IF call.tries < MaxTries THEN again ELSE end]
    BY DEF Conflict
  <1> HIDE DEF again, end
  <1>7. QED
    BY <1>3, <1>4, <1>5, <1>6, OwnStep

LEMMA GetJobKeepsCalls ==
  ASSUME StoreInv, NEW c \in Callers, GetJob(c)
  PROVE  CallsOK'
  <1> DEFINE end == Answered(calls[c], "ok")
             insert == [calls[c] EXCEPT !.at = "swap", !.new = QueuedJob]
  <1>1. /\ calls[c] \in Call /\ calls[c].at = "read" /\ calls[c].op = "enqueue"
        /\ calls[c].writes = 0 /\ calls[c].tries < MaxTries /\ calls[c].job \in Jobs
    BY DEF StoreInv, CallsOK, CallOK, UnderWay, GetJob, At
  <1>2. calls[c].op \notin Updates
    BY <1>1 DEF Updates, Unfenced
  <1>3. CallOK(end, jobs, issued)
    <2>1. end \in Call /\ end.at = "done" /\ end.op = calls[c].op
      BY <1>1 DEF Answered, Call
    <2> HIDE DEF end
    <2>2. QED
      BY <1>2, <2>1, AtRest
  <1>4. CallOK(insert, jobs, issued)
    <2>1. /\ insert \in Call /\ insert.at = "swap" /\ insert.op = calls[c].op
          /\ insert.job = calls[c].job /\ insert.writes = 0 /\ insert.tries = calls[c].tries
      BY <1>1, QueuedJobFields DEF Call
    <2> HIDE DEF insert
    <2>2. QED
      BY <1>1, <1>2, <2>1 DEF CallOK, UnderWay
  <1>5. UNCHANGED vars
    BY DEF GetJob
  <1>6. calls' = [calls EXCEPT ![c] = IF Exists(calls[c].job) THEN end ELSE insert]
    BY DEF GetJob
  <1> HIDE DEF insert, end
  <1>7. QED
    BY <1>3, <1>4, <1>5, <1>6, OwnStep

LEMMA EndKeepsCalls ==
  ASSUME StoreInv, NEW c \in Callers, Return(c) \/ RequestFails(c)
  PROVE  CallsOK'
  <1>1. CASE Return(c)
    BY <1>1, AtRest, OwnStep DEF Return
  <1>2. CASE RequestFails(c)
    <2> DEFINE end == Answered([calls[c] EXCEPT !.new = NoJob], "error")
    <2>1. calls[c] \in Call /\ calls[c].writes = 0
      BY <1>2 DEF StoreInv, CallsOK, CallOK, UnderWay, RequestFails
    <2>2. end \in Call /\ end.at = "done" /\ end.answer = "error" /\ end.writes = 0
      BY <2>1 DEF Answered, Call
    <2>3. calls' = [calls EXCEPT ![c] = end] /\ UNCHANGED vars
      BY <1>2 DEF RequestFails
    <2> HIDE DEF end
    <2>4. Truthful(end)
      BY <2>2 DEF Truthful
    <2>5. CallOK(end, jobs, issued)
      BY <2>2, <2>4, AtRest
    <2>6. QED
      BY <2>3, <2>5, OwnStep
  <1>3. QED
    BY <1>1, <1>2

\* What a call is when its write is done
LEMMA StoredCall ==
  ASSUME NEW c \in Callers, NEW answer
  PROVE  [Stored(c) EXCEPT ![c].at = "done", ![c].answer = answer] =
           [AllStale({calls[c].job}) EXCEPT
             ![c] = [[calls[c] EXCEPT !.fresh = calls[c].fresh
                                                 /\ calls[c].job \notin {calls[c].job},
                                      !.writes = @ + 1, !.new = NoJob]
                     EXCEPT !.at = "done", !.answer = answer]]
  <1> DEFINE stale == AllStale({calls[c].job})
             old == [calls[c] EXCEPT !.fresh = calls[c].fresh /\ calls[c].job \notin {calls[c].job}]
  <1>1. stale[c] = old /\ DOMAIN stale = Callers
    BY DEF AllStale
  <1>2. Stored(c) = [stale EXCEPT ![c] = [old EXCEPT !.writes = @ + 1, !.new = NoJob]]
    <2> HIDE DEF old, stale
    <2>1. [stale EXCEPT ![c].writes = @ + 1, ![c].new = NoJob] =
            [stale EXCEPT ![c] = [old EXCEPT !.writes = @ + 1, !.new = NoJob]]
      BY <1>1
    <2>2. QED
      BY <2>1 DEF Stored, stale
  <1> DEFINE done == [old EXCEPT !.writes = @ + 1, !.new = NoJob]
  <1>3. [Stored(c) EXCEPT ![c].at = "done", ![c].answer = answer] =
          [stale EXCEPT ![c] = [done EXCEPT !.at = "done", !.answer = answer]]
    <2> HIDE DEF old, stale, done
    <2>1. Stored(c) = [stale EXCEPT ![c] = done]
      BY <1>2 DEF done
    <2>2. QED
      BY <1>1, <2>1
  <1>4. done = [calls[c] EXCEPT !.fresh = calls[c].fresh /\ calls[c].job \notin {calls[c].job},
                                !.writes = @ + 1, !.new = NoJob]
    OBVIOUS
  <1>5. QED
    BY <1>3, <1>4

\* A call that writes, confirmed or not.
LEMMA SwapKeepsCalls ==
  ASSUME StoreInv, NEW c \in Callers, Swap(c) \/ AnswerLost(c)
  PROVE  CallsOK'
  <1> DEFINE j == calls[c].job
             stored == [calls[c] EXCEPT !.fresh = FALSE, !.writes = 1, !.new = NoJob]
             kept == [calls[c] EXCEPT !.fresh = calls[c].fresh /\ j \notin {j},
                                      !.writes = @ + 1, !.new = NoJob]
  <1>1. /\ CallOK(calls[c], jobs, issued) /\ calls[c] \in Call
        /\ calls[c].writes = 0 /\ j \in Jobs /\ calls[c].new \in Job
        /\ Write(j, calls[c].new) /\ UNCHANGED issued
    BY DEF StoreInv, CallsOK, CallOK, UnderWay, Swap, AnswerLost, At, Store
  <1>2. PICK answer \in {"ok", "error"} :
          calls' = [Stored(c) EXCEPT ![c].at = "done", ![c].answer = answer]
    BY DEF Swap, AnswerLost
  <1> DEFINE next == [stored EXCEPT !.at = "done", !.answer = answer]
  <1>3. /\ next \in Call /\ next.at = "done" /\ next.answer = answer /\ next.writes = 1
    <2>1. stored \in Call /\ stored.writes = 1
      BY <1>1 DEF Call
    <2> HIDE DEF stored
    <2>2. QED
      BY <2>1 DEF Call
  <1>4. calls' = [AllStale({j}) EXCEPT ![c] = next]
    <2>1. calls' = [AllStale({j}) EXCEPT ![c] = [kept EXCEPT !.at = "done", !.answer = answer]]
      BY <1>2, StoredCall
    <2>2. (calls[c].fresh /\ j \notin {j}) = FALSE /\ calls[c].writes + 1 = 1
      BY <1>1
    <2>3. kept = stored
      BY <2>2
    <2>4. QED
      BY <2>1, <2>3
  <1> HIDE DEF next
  <1>5. Truthful(next)
    BY <1>3 DEF Truthful
  <1>6. CallOK(next, jobs', issued')
    BY <1>3, <1>5, AtRest
  <1> HIDE DEF j
  <1>7. QED
    BY <1>1, <1>4, <1>6, WriteStep

LEMMA InsertKeepsCalls ==
  ASSUME StoreInv, NEW c \in Callers, Insert(c)
  PROVE  CallsOK'
  <1> DEFINE j == calls[c].job
             stored == [calls[c] EXCEPT !.fresh = FALSE, !.writes = 1, !.new = NoJob]
             kept == [calls[c] EXCEPT !.fresh = calls[c].fresh /\ j \notin {j},
                                      !.writes = @ + 1, !.new = NoJob]
             made == [stored EXCEPT !.at = "done", !.answer = "ok"]
             there == Answered([calls[c] EXCEPT !.new = NoJob], "ok")
  <1>1. /\ calls[c] \in Call /\ calls[c].op = "enqueue" /\ j \in Jobs /\ calls[c].writes = 0
    BY DEF StoreInv, CallsOK, CallOK, UnderWay, Insert, At
  <1>2. calls[c].op \notin Updates
    BY <1>1 DEF Updates, Unfenced
  <1>3. CASE /\ Enqueue(j)
             /\ calls' = [Stored(c) EXCEPT ![c].at = "done", ![c].answer = "ok"]
    <2>1. made \in Call /\ made.at = "done" /\ made.op = calls[c].op
      <3>1. stored \in Call /\ stored.op = calls[c].op
        BY <1>1 DEF Call
      <3> HIDE DEF stored
      <3>2. QED
        BY <3>1 DEF Call
    <2>2. calls' = [AllStale({j}) EXCEPT ![c] = made]
      <3>1. calls' = [AllStale({j}) EXCEPT ![c] = [kept EXCEPT !.at = "done", !.answer = "ok"]]
        BY <1>3, StoredCall
      <3>2. (calls[c].fresh /\ j \notin {j}) = FALSE /\ calls[c].writes + 1 = 1
        BY <1>1
      <3>3. kept = stored
        BY <3>2
      <3>4. QED
        BY <3>1, <3>3
    <2> HIDE DEF made
    <2>3. CallOK(made, jobs', issued')
      BY <1>2, <2>1, AtRest
    <2>4. QueuedJob \in Job /\ Write(j, QueuedJob) /\ UNCHANGED issued
      BY <1>3, QueuedJobFields DEF Enqueue
    <2> HIDE DEF j
    <2>5. QED
      BY <1>1, <2>2, <2>3, <2>4, WriteStep
  <1>4. CASE UNCHANGED vars /\ calls' = [calls EXCEPT ![c] = there]
    <2>1. there \in Call /\ there.at = "done" /\ there.op = calls[c].op
      BY <1>1 DEF Answered, Call
    <2> HIDE DEF there
    <2>2. CallOK(there, jobs, issued)
      BY <1>2, <2>1, AtRest
    <2>3. QED
      BY <1>4, <2>2, OwnStep
  <1>5. QED
    BY <1>3, <1>4 DEF Insert

\* Claims write rows and grant tokens; no call loses more than its freshness.
LEMMA ClaimKeepsCalls ==
  ASSUME StoreInv, NEW batch \in SUBSET Jobs, NEW left \in 0..LeaseTicks, Claim(batch, left)
  PROVE  CallsOK'
  <1>1. TypeOK' /\ TypeOK
    <2>1. [Next]_vars
      BY DEF Claim, Next
    <2>2. QED
      BY <2>1, NextInv, InvByRecord DEF StoreInv, Inv
  <1>2. /\ \A j \in Jobs \ batch : jobs'[j] = jobs[j]
        /\ \A j \in batch : jobs'[j] # NoJob
        /\ \A j \in Jobs : issued[j] <= issued'[j]
    <2>1. GrantTo(batch) /\ \A j \in Jobs \ batch : jobs'[j] = jobs[j]
      BY DEF Claim, ClaimDue, ClaimWaitingReview
    <2>2. \A j \in Jobs : issued[j] <= issued'[j]
      BY <1>1, <2>1 DEF GrantTo, TypeOK
    <2>3. \A j \in batch : jobs'[j] # NoJob
      <3>1. \A j \in batch : /\ jobs[j] \in Job /\ issued[j] \in Nat
        BY <1>1, RecordTyped DEF TypeOK, Claim, ClaimDue, ClaimWaitingReview
      <3>2. \A j \in batch : \/ jobs'[j] = Claimed(jobs[j], issued[j] + 1, left)
                             \/ jobs'[j] = ReviewClaimed(jobs[j], issued[j] + 1, left)
        BY DEF Claim, ClaimDue, ClaimWaitingReview
      <3>3. \A j \in batch : jobs'[j] \in Job
        BY <3>1, <3>2, ClaimedFields, ReviewClaimedFields
           DEF Claim, ClaimDue, ClaimWaitingReview
      <3>4. QED
        BY <3>3, RouteJobQueueAssumption DEF RouteJobQueueAssumption
    <2>4. QED
      BY <2>1, <2>2, <2>3
  <1>3. \A j \in Jobs : jobs[j] \in Job => jobs'[j] \in Job
    BY <1>1, <1>2 DEF TypeOK
  <1>4. issued' \in [Jobs -> Nat]
    BY <1>1 DEF TypeOK
  <1>5. \A d \in Callers : CallOK(AllStale(batch)[d], jobs', issued')
    BY <1>2, <1>3, <1>4, OthersKept
  <1>6. calls' = AllStale(batch)
    BY DEF Claim
  <1>7. calls' \in [Callers -> Call]
    BY <1>5, <1>6 DEF AllStale, CallOK
  <1>8. QED
    BY <1>5, <1>6, <1>7 DEF CallsOK

\* Time passes for rows and for what is on its way alike.
LEMMA TickKeepsCalls ==
  ASSUME StoreInv, StoreTick
  PROVE  CallsOK'
  <1>1. /\ jobs \in [Jobs -> Job \cup {NoJob}] /\ calls \in [Callers -> Call]
        /\ UNCHANGED issued
    BY InvByRecord DEF StoreInv, CallsOK, TypeOK, StoreTick, Tick
  <1>2. ASSUME NEW j \in Jobs, jobs[j] \in Job
        PROVE  jobs'[j] = Aged(jobs[j]) /\ jobs'[j] \in Job
    BY <1>2, AgedFields, RouteJobQueueAssumption
    DEF RouteJobQueueAssumption, StoreTick, Tick, Exists
  <1>3. ASSUME NEW c \in Callers
        PROVE  CallOK(calls'[c], jobs', issued')
    <2>1. CallOK(calls[c], jobs, issued) /\ calls[c] \in Call
      BY <1>1 DEF StoreInv, CallsOK
    <2>2. CASE calls[c].new = NoJob
      <3>1. calls'[c] = calls[c]
        BY <2>2 DEF StoreTick
      <3>2. ~(calls[c].at = "swap" /\ calls[c].op \in Updates)
        BY <2>1, <2>2, RouteJobQueueAssumption DEF RouteJobQueueAssumption, CallOK
      <3>3. QED
        BY <1>1, <1>2, <2>1, <3>1, <3>2 DEF CallOK
    <2>3. CASE calls[c].new # NoJob
      <3> DEFINE next == [calls[c] EXCEPT !.new = Aged(@)]
      <3>1. calls'[c] = next
        BY <2>3 DEF StoreTick
      <3>2. calls[c].new \in Job /\ Aged(calls[c].new) \in Job
        BY <2>1, <2>3, AgedFields DEF Call
      <3>3. /\ next \in Call /\ next.at = calls[c].at /\ next.job = calls[c].job
            /\ next.op = calls[c].op /\ next.token = calls[c].token
            /\ next.new = Aged(calls[c].new) /\ next.fresh = calls[c].fresh
            /\ next.tries = calls[c].tries /\ next.writes = calls[c].writes
            /\ next.answer = calls[c].answer
        BY <2>1, <3>2 DEF Call
      <3> HIDE DEF next
      <3>4. UnderWay(next) = UnderWay(calls[c]) /\ Truthful(next) = Truthful(calls[c])
        BY <3>3 DEF UnderWay, Truthful
      <3>5. ASSUME next.at = "swap", next.op \in Updates, next.fresh
            PROVE  Computed(next, jobs'[next.job])
        <4> DEFINE row == jobs[calls[c].job]
        <4>1. row \in Job /\ calls[c].job \in Jobs /\ Computed(calls[c], row)
          BY <2>1, <3>3, <3>5 DEF CallOK, UnderWay
        <4>2. jobs'[next.job] = Aged(row)
          BY <1>2, <3>3, <4>1
        <4> HIDE DEF row
        <4>3. PICK left \in LeftAfter(next.op, row) : calls[c].new = Updated(next.op, row, left)
          BY <3>3, <4>1 DEF Computed
        <4>4. Allowed(next.op, row)
          BY <3>3, <4>1 DEF Computed
        <4>5. /\ Allowed(next.op, Aged(row))
              /\ \E rest \in LeftAfter(next.op, Aged(row)) :
                   Aged(Updated(next.op, row, left)) = Updated(next.op, Aged(row), rest)
          BY <3>5, <4>1, <4>3, <4>4, AgedUpdate
        <4>6. QED
          BY <3>3, <4>2, <4>3, <4>5 DEF Computed
      <3>6. UnderWay(next) /\ next.op \in Updates =>
              jobs'[next.job] \in Job /\ Entitled(next, issued'[next.job])
        BY <1>1, <1>2, <2>1, <3>3, <3>4 DEF CallOK, Entitled
      <3>7. UnderWay(next) =>
              /\ next.job \in Jobs /\ next.op \in Updates \cup {"enqueue"}
              /\ next.writes = 0 /\ next.tries < MaxTries
        BY <2>1, <3>3, <3>4 DEF CallOK
      <3>8. next.at = "done" /\ next.op \in Updates => Truthful(next)
        BY <2>1, <3>3, <3>4 DEF CallOK
      <3>9. CallOK(next, jobs', issued')
        BY <3>2, <3>3, <3>5, <3>6, <3>7, <3>8 DEF CallOK
      <3>10. QED
        BY <3>1, <3>9
    <2>4. QED
      BY <2>2, <2>3
  <1>4. calls' \in [Callers -> Call]
    BY <1>3 DEF StoreTick, CallOK
  <1>5. QED
    BY <1>3, <1>4 DEF CallsOK

-----------------------------------------------------------------------------
\* The invariant holds at the start, and every step keeps it.
LEMMA StoreInitInv == StoreInit => StoreInv
  BY InitInv, AtRest, IdleCall, HostedRouteStoreAssumption
  DEF HostedRouteStoreAssumption, StoreInit, StoreInv, CallsOK

LEMMA CallsKept ==
  ASSUME StoreInv, [StoreNext]_storeVars
  PROVE  CallsOK'
  <1>1. CASE UNCHANGED storeVars
    BY <1>1 DEF StoreInv, CallsOK, storeVars, vars
  <1>2. CASE StoreNext
    BY <1>2, BeginKeepsCalls, BeginEnqueueKeepsCalls, ReadKeepsCalls, ConflictKeepsCalls,
       GetJobKeepsCalls, EndKeepsCalls, SwapKeepsCalls, InsertKeepsCalls, ClaimKeepsCalls,
       TickKeepsCalls DEF StoreNext, Step
  <1>3. QED
    BY <1>1, <1>2

LEMMA StoreStep == StoreInv /\ [StoreNext]_storeVars => StoreInv'
  <1> SUFFICES ASSUME StoreInv, [StoreNext]_storeVars
               PROVE  StoreInv'
    OBVIOUS
  <1>1. Inv'
    BY StepIsAtomic, NextInv DEF StoreInv
  <1>2. faults' \in 0..MaxFaults
    <2>1. ASSUME NEW c \in Callers, RequestFails(c) \/ AnswerLost(c)
          PROVE  faults < MaxFaults /\ faults' = faults + 1
      BY <2>1 DEF RequestFails, AnswerLost
    <2>2. ASSUME NEW c \in Callers, Step(c)
          PROVE  UNCHANGED faults
      BY <2>2 DEF Step, Read, Swap, Conflict, GetJob, Insert, Return
    <2>3. ASSUME NEW c \in Callers, NEW j \in Jobs,
                 \/ BeginEnqueue(c, j)
                 \/ \E op \in Updates, token \in 0..issued[j] : Begin(c, j, op, token)
          PROVE  UNCHANGED faults
      BY <2>3 DEF BeginEnqueue, Begin
    <2>4. ASSUME StoreTick \/ \E batch \in SUBSET Jobs, left \in 0..LeaseTicks : Claim(batch, left)
          PROVE  UNCHANGED faults
      BY <2>4 DEF Claim, StoreTick
    <2>5. UNCHANGED faults \/ (faults < MaxFaults /\ faults' = faults + 1)
      BY <2>1, <2>2, <2>3, <2>4 DEF StoreNext, storeVars
    <2>6. QED
      BY <2>5, HostedRouteStoreAssumption DEF HostedRouteStoreAssumption, StoreInv
  <1>3. QED
    BY <1>1, <1>2, CallsKept DEF StoreInv

LEMMA StoreInductive == StoreSpec => []StoreInv
  BY StoreInitInv, StoreStep, PTL DEF StoreSpec

\* Every reachable state of the hosted store is well typed.
THEOREM StoreTypesHold == StoreSpec => []StoreTypeOK
  <1>1. StoreInv => StoreTypeOK
    BY InvByRecord DEF StoreInv, CallsOK, StoreTypeOK
  <1>2. QED
    BY <1>1, StoreInductive, PTL

\* What a caller of the store is told is what happened.
THEOREM CallersAreToldTheTruth == StoreSpec => []AnswersAreTrue
  <1>1. StoreInv => AnswersAreTrue
    BY DEF StoreInv, CallsOK, CallOK, AnswersAreTrue, At, Truthful
  <1>2. QED
    BY <1>1, StoreInductive, PTL

\* The hosted store implements the queue with atomic operations.
THEOREM StoreImplementsQueue == StoreSpec => ImplementsQueue
  <1>1. StoreInit => Init
    BY DEF StoreInit
  <1>2. StoreInv /\ [StoreNext]_storeVars => [Next]_vars
    BY StepIsAtomic
  <1>3. QED
    BY <1>1, <1>2, StoreInductive, PTL DEF StoreSpec, ImplementsQueue, Spec

\* So what is proved of the queue holds of the store: no replica ever writes
\* under a token that is not the newest one granted for the job, ...
THEOREM StoreFences == StoreSpec => []LiveTokenIsNewest
  BY StoreImplementsQueue, Fencing, PTL DEF ImplementsQueue

\* ... and, as its insert leaves a row alone, a job that is completed or
\* cancelled is never worked on again at all.
THEOREM StoreClosesForGood ==
  StoreSpec => [][\A j \in FencedJobs : Closed(j) =>
                    /\ jobs'[j].status = jobs[j].status
                    /\ issued'[j] = issued[j] /\ closedBy'[j] = closedBy[j]]_vars
  <1>1. ASSUME Inv, [Next]_vars, NEW j \in FencedJobs, Closed(j)
        PROVE  /\ jobs'[j].status = jobs[j].status
               /\ issued'[j] = issued[j] /\ closedBy'[j] = closedBy[j]
    <2>1. StaysClosed(j)
      BY <1>1, ClosedStep
    <2>2. late[j] \in 0..0 /\ late'[j] \in 0..0
      <3>1. TypeOK /\ TypeOK'
        BY <1>1, NextInv DEF Inv
      <3>2. MaxLate = 0 /\ j \in Jobs
        BY HostedRouteStoreAssumption DEF HostedRouteStoreAssumption, FencedJobs
      <3>3. QED
        BY <3>1, <3>2 DEF TypeOK
    <2>3. ~(late'[j] < late[j])
      BY <2>2
    <2>4. QED
      BY <2>1, <2>3 DEF StaysClosed
  <1>2. Inv /\ [Next]_vars =>
          [\A j \in FencedJobs : Closed(j) =>
             /\ jobs'[j].status = jobs[j].status
             /\ issued'[j] = issued[j] /\ closedBy'[j] = closedBy[j]]_vars
    BY <1>1
  <1>3. Spec => [][\A j \in FencedJobs : Closed(j) =>
                    /\ jobs'[j].status = jobs[j].status
                    /\ issued'[j] = issued[j] /\ closedBy'[j] = closedBy[j]]_vars
    BY <1>2, InductiveInvariant, PTL DEF Spec
  <1>4. QED
    BY <1>3, StoreImplementsQueue, PTL DEF ImplementsQueue
=============================================================================
