--------------------------- MODULE RouteJobQueue ---------------------------
(***************************************************************************)
(* The durable route-job queue: the job records of the routing store and   *)
(* the operations of runtime/routing-store.ts on them.  Claims and updates *)
(* are atomic: under the queue lock of FileRoutingStore, or as one         *)
(* transaction or compare-and-swap of the hosted store.  The enqueue of    *)
(* the file store is not: it looks for the job and then saves it, without  *)
(* the lock.  Who calls, and when, is left open: a worker that was granted *)
(* a token at any time in the past may use it now, an operator may retry   *)
(* or cancel, a Hermes callback or the route-commit simulation tool writes *)
(* without a token.                                                        *)
(*                                                                         *)
(* A lease token is a content hash over the job, the claimant, the instant *)
(* and the attempt.  It is compared only with tokens of the same job, so a *)
(* token is modelled by the number of the grant within its job.            *)
(***************************************************************************)
EXTENDS RouteJob, FiniteSets

CONSTANTS
  Jobs,
  HermesJobs,      \* executionTarget.runtime = "hermes"
  SimulatedJobs,   \* jobs of a commit that loopgraph_route_commit_simulate is called on
  NoJob,           \* what the store holds before the job is enqueued
  ClaimLimit,      \* limit of a claim
  MaxLate,         \* bound of the model: late submissions of a job, see Enqueue;
                   \* 0 for the hosted store, whose insert leaves a row alone
  MaxGrants        \* bound of the model: claims per job

ASSUME RouteJobQueueAssumption ==
  /\ HermesJobs \subseteq Jobs
  /\ SimulatedJobs \subseteq Jobs
  /\ NoJob \notin Job
  /\ ClaimLimit \in Nat /\ MaxLate \in Nat
  /\ MaxGrants \in Nat

VARIABLES
  jobs,       \* the job records
  issued,     \* how many tokens were granted for each job
  late,       \* submissions that looked for the job before it was there
              \* and have not saved theirs yet
  closedBy    \* history: the token that completed the job, 0 while none did

vars == <<jobs, issued, late, closedBy>>

Exists(j) == jobs[j] # NoJob

\* The jobs only fenced writers and operators touch.
FencedJobs == Jobs \ (HermesJobs \cup SimulatedJobs)

Write(j, job) == jobs' = [jobs EXCEPT ![j] = job]

Init ==
  /\ jobs = [j \in Jobs |-> NoJob]
  /\ issued = [j \in Jobs |-> 0]
  /\ late = [j \in Jobs |-> 0]
  /\ closedBy = [j \in Jobs |-> 0]

\* upsertRouteJobForCommit: an existing job is returned as it is.  A submission
\* that looks and finds none leaves no trace until it saves, so those that
\* have looked by the time the first of them saves are counted here ...
Enqueue(j) ==
  /\ ~Exists(j)
  /\ Write(j, QueuedJob)
  /\ \E n \in 0..MaxLate : late' = [late EXCEPT ![j] = n]
  /\ UNCHANGED <<issued, closedBy>>

\* ... and each saves the same new job over whatever the first one has become,
\* unless that falls between the read and the save of an update, which then
\* undoes it.
EnqueueLate(j) ==
  /\ late[j] > 0
  /\ late' = [late EXCEPT ![j] = @ - 1]
  /\ Write(j, QueuedJob) \/ UNCHANGED jobs
  /\ UNCHANGED <<issued, closedBy>>

-----------------------------------------------------------------------------
\* Claims.  The claimant compares with a clock it read earlier, so it takes
\* some of the jobs that are due by now, and its leases have "left" to run.
GrantTo(batch) ==
  /\ \A j \in batch : issued[j] < MaxGrants
  /\ issued' = [j \in Jobs |-> IF j \in batch THEN issued[j] + 1 ELSE issued[j]]
  /\ UNCHANGED <<late, closedBy>>

ClaimDue(batch, left) ==
  /\ batch # {} /\ Cardinality(batch) <= ClaimLimit
  /\ \A j \in batch : Exists(j) /\ Due(jobs[j])
  /\ jobs' = [j \in Jobs |->
                IF j \in batch THEN Claimed(jobs[j], issued[j] + 1, left)
                               ELSE jobs[j]]
  /\ GrantTo(batch)

ClaimWaitingReview(batch, left) ==
  /\ batch # {} /\ Cardinality(batch) <= ClaimLimit
  /\ \A j \in batch : Exists(j) /\ ReviewDue(jobs[j])
  /\ jobs' = [j \in Jobs |->
                IF j \in batch THEN ReviewClaimed(jobs[j], issued[j] + 1, left)
                               ELSE jobs[j]]
  /\ GrantTo(batch)

-----------------------------------------------------------------------------
\* Writes that name a token.  Any token ever granted may turn up.
\* Mutant of Fenced: the token is not compared.
FencedByNothing(j, token) == Exists(j) /\ token \in 1..issued[j]

Fenced(j, token) ==
  /\ Exists(j)
  /\ token \in 1..issued[j]
  /\ HoldsLease(jobs[j], token)

\* Mutant of RenewLease: the heartbeat writes back the lease it was granted.
RenewOwnLease(j, token, left) ==
  /\ Exists(j) /\ Leased(jobs[j])
  /\ token \in 1..issued[j]
  /\ Write(j, [Renewed(jobs[j], left) EXCEPT !.token = token])
  /\ UNCHANGED <<issued, late, closedBy>>

\* The new expiry counts from a clock reading, too.
RenewLease(j, token, left) ==
  /\ Fenced(j, token)
  /\ Write(j, Renewed(jobs[j], left))
  /\ UNCHANGED <<issued, late, closedBy>>

MarkRunning(j, token) ==
  /\ j \notin HermesJobs
  /\ Fenced(j, token)
  /\ Write(j, WithStatus(jobs[j], "running"))
  /\ UNCHANGED <<issued, late, closedBy>>

MarkDispatched(j, token) ==
  /\ j \in HermesJobs
  /\ Fenced(j, token)
  /\ Write(j, Released(WithStatus(jobs[j], "dispatched")))
  /\ UNCHANGED <<issued, late, closedBy>>

MarkWaitingReview(j, token) ==
  /\ Fenced(j, token)
  /\ Write(j, Released(WithStatus(jobs[j], "waiting_review")))
  /\ UNCHANGED <<issued, late, closedBy>>

MarkCompleted(j, token) ==
  /\ Fenced(j, token)
  /\ Write(j, Released(WithStatus(jobs[j], "completed")))
  /\ closedBy' = [closedBy EXCEPT ![j] = token]
  /\ UNCHANGED <<issued, late>>

FailJob(j, token, wait) ==
  /\ Fenced(j, token)
  /\ wait <= RetryDelay(jobs[j].attempt)
  /\ Write(j, Failed(jobs[j], wait))
  /\ UNCHANGED <<issued, late, closedBy>>

-----------------------------------------------------------------------------
\* Writes that name none.

\* projectExecutionState, for the events of a Hermes run
HermesStatus(j) ==
  /\ j \in HermesJobs /\ Exists(j)
  /\ \/ Write(j, WithStatus(jobs[j], "running"))
     \/ \E status \in {"waiting_review", "completed"} :
          Write(j, Released(WithStatus(jobs[j], status)))
  /\ UNCHANGED <<issued, late, closedBy>>

HermesFail(j, wait) ==
  /\ j \in HermesJobs /\ Exists(j)
  /\ wait <= RetryDelay(jobs[j].attempt)
  /\ Write(j, Failed(jobs[j], wait))
  /\ UNCHANGED <<issued, late, closedBy>>

\* updateRouteJobsAfterSimulation: the status follows the simulated run's.
SimulateCommit(j) ==
  /\ j \in SimulatedJobs /\ Exists(j)
  /\ \E status \in {"waiting_review", "completed", "failed", "running", "queued"} :
       Write(j, Released(WithStatus(jobs[j], status)))
  /\ UNCHANGED <<issued, late, closedBy>>

RetryJob(j) ==
  /\ Exists(j) /\ Retryable(jobs[j])
  /\ Write(j, Retried(jobs[j]))
  /\ UNCHANGED <<issued, late, closedBy>>

CancelJob(j) ==
  /\ Exists(j) /\ Cancellable(jobs[j])
  /\ Write(j, Cancelled(jobs[j]))
  /\ UNCHANGED <<issued, late, closedBy>>

Tick ==
  /\ jobs' = [j \in Jobs |-> IF Exists(j) THEN Aged(jobs[j]) ELSE NoJob]
  /\ UNCHANGED <<issued, late, closedBy>>

-----------------------------------------------------------------------------
FencedWrite(j) ==
  \E token \in 1..issued[j] :
    \/ \E left \in 0..LeaseTicks : RenewLease(j, token, left)
    \/ MarkRunning(j, token)
    \/ MarkDispatched(j, token)
    \/ MarkWaitingReview(j, token)
    \/ MarkCompleted(j, token)
    \/ \E wait \in 0..MaxDelay : FailJob(j, token, wait)

UnfencedWrite(j) ==
  \/ HermesStatus(j)
  \/ \E wait \in 0..MaxDelay : HermesFail(j, wait)
  \/ SimulateCommit(j)

Next ==
  \/ \E j \in Jobs : \/ Enqueue(j) \/ EnqueueLate(j) \/ RetryJob(j) \/ CancelJob(j)
                     \/ FencedWrite(j) \/ UnfencedWrite(j)
  \/ \E batch \in SUBSET Jobs, left \in 0..LeaseTicks :
       ClaimDue(batch, left) \/ ClaimWaitingReview(batch, left)
  \/ Tick

Spec == Init /\ [][Next]_vars

-----------------------------------------------------------------------------
TypeOK ==
  /\ jobs \in [Jobs -> Job \cup {NoJob}]
  /\ issued \in [Jobs -> Nat] /\ late \in [Jobs -> 0..MaxLate]
  /\ closedBy \in [Jobs -> Nat]

\* Fencing: a job is held under the newest token granted for it or under
\* none, so that of all the workers that ever claimed it at most the last one
\* can still write (ROUTE-JOB-WORKER.md, "Every claim has a unique lease
\* token; a stale worker cannot finish a job after another worker reclaims it").
LiveTokenIsNewest ==
  \A j \in Jobs : Exists(j) => jobs[j].token \in {0, issued[j]}

\* Every job in a worker's hands has an owner: a job only fenced writers touch
\* is claimed or running exactly under a lease, and nothing but a job in
\* flight or in review reconciliation is leased.
OwnedWhileInFlight ==
  \A j \in Jobs : Exists(j) =>
    /\ Leased(jobs[j]) => jobs[j].status \in {"claimed", "running", "waiting_review"}
    /\ j \in FencedJobs /\ jobs[j].status \in {"claimed", "running"} => Leased(jobs[j])

\* Work that is open can be claimed once its delay is over, and only a job
\* that used every attempt is given up: no job is queued or failed with its
\* attempts spent.  (The simulation tool writes "failed" past this rule.)
OpenWorkHasAttempts ==
  \A j \in Jobs : Exists(j) =>
    /\ jobs[j].status = "dead_letter" => jobs[j].attempt = MaxAttempts
    /\ j \notin SimulatedJobs /\ jobs[j].status \in {"queued", "failed"} =>
         jobs[j].attempt < MaxAttempts /\ ~Leased(jobs[j])

\* An active lease suppresses duplicate work: a job changes hands only when
\* the lease of its holder has run out, or is gone (a late submission takes it
\* off the record).
NoStealing ==
  [][\A j \in Jobs :
       issued'[j] # issued[j] => Exists(j) /\ ~ActivelyLeased(jobs[j])]_vars

\* A job that was completed or cancelled is never worked on again, whatever
\* tokens are still around, unless a submission brings it back that had looked
\* for the job before it was there: one of the file store's, and as often as
\* there are such submissions.
Closed(j) == Exists(j) /\ jobs[j].status \in {"completed", "cancelled"}

ClosedIsFinal ==
  [][\A j \in FencedJobs : Closed(j) =>
       /\ issued'[j] = issued[j] /\ closedBy'[j] = closedBy[j]
       /\ jobs'[j].status # jobs[j].status =>
            jobs'[j] = QueuedJob /\ late'[j] < late[j]]_vars

-----------------------------------------------------------------------------
\* The queue implements FencedWork on the fenced jobs.
PhaseOf(j) ==
  CASE jobs[j] = NoJob -> "absent"
    [] jobs[j] # NoJob /\ Leased(jobs[j]) -> "held"
    [] jobs[j] # NoJob /\ ~Leased(jobs[j]) /\ jobs[j].status \in {"completed", "cancelled"} -> "done"
    [] OTHER -> "open"

Promise == INSTANCE FencedWork WITH
  Items <- FencedJobs,
  phase <- [j \in FencedJobs |-> PhaseOf(j)],
  grant <- [j \in FencedJobs |-> issued[j]],
  late <- [j \in FencedJobs |-> late[j]],
  closer <- [j \in FencedJobs |-> closedBy[j]]

\* Only the newest grant completes a job, done jobs are granted to nobody, and
\* what is under way is given up for nothing but a late submission.
ImplementsFencedWork == Promise!Spec
=============================================================================
