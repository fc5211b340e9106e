------------------------------ MODULE RouteJob ------------------------------
(***************************************************************************)
(* One route job and what every operation of the durable route-job queue   *)
(* does to it (packages/loopgraph/src/runtime/routing-store.ts).  The      *)
(* operators are pure: each maps a job record to the record the store      *)
(* saves.  RouteJobQueue, RouteJobWorker and HermesRun are built on them.  *)
(*                                                                         *)
(* Timestamps are kept as the time that is left: "ttl" is what remains     *)
(* until lease.expiresAt and "wait" what remains until nextRunAt, both in  *)
(* ticks and both 0 once the instant has passed.  A lease token of 0 means *)
(* that the job has no lease.                                              *)
(***************************************************************************)
EXTENDS Naturals

CONSTANTS
  MaxAttempts,   \* RouteJob.maxAttempts
  LeaseTicks,    \* leaseSeconds of a claim or of a heartbeat
  BaseDelay,     \* retryPolicy.baseDelaySeconds
  MaxDelay       \* retryPolicy.maxDelaySeconds

ASSUME RouteJobAssumption ==
  /\ MaxAttempts \in Nat \ {0}
  /\ LeaseTicks \in Nat \ {0}
  /\ BaseDelay \in Nat \ {0}
  /\ MaxDelay \in Nat \ {0}

Statuses == {"queued", "claimed", "dispatched", "running", "waiting_review",
             "completed", "failed", "dead_letter", "cancelled"}

\* Mutants of ClaimableStatuses: failed jobs are forgotten; dispatched ones
\* are taken back.
ClaimableWithoutFailed == {"queued", "claimed", "running"}

ClaimableWithDispatched == {"queued", "failed", "claimed", "dispatched", "running"}

\* The statuses an unattended claim may take a job from.
ClaimableStatuses == {"queued", "failed", "claimed", "running"}

Job == [status : Statuses, attempt : 0..MaxAttempts, wait : 0..MaxDelay,
        token : Nat, ttl : 0..LeaseTicks]

QueuedJob == [status |-> "queued", attempt |-> 0, wait |-> 0,
              token |-> 0, ttl |-> 0]

-----------------------------------------------------------------------------
Leased(job) == job.token # 0

ActivelyLeased(job) == Leased(job) /\ job.ttl > 0

\* The caller names the token it was granted; 0 stands for a caller that
\* names none, whose write is not fenced.
HoldsLease(job, token) == token = 0 \/ job.token = token

\* clearLease: true, or lease: undefined
Released(job) == [job EXCEPT !.token = 0, !.ttl = 0]

\* Mutant of Due: a claim that forgets the lease.
DueIgnoringLease(job) ==
  job.status \in ClaimableStatuses /\ job.wait = 0 /\ job.attempt < MaxAttempts

\* claimRouteJobCandidates: which jobs a claim may take ...
Due(job) ==
  /\ job.status \in ClaimableStatuses
  /\ job.wait = 0
  /\ ~ActivelyLeased(job)
  /\ job.attempt < MaxAttempts

\* ... and what it saves.  "left" is what remains of the lease when the claim
\* lands: the expiry is computed from a clock reading taken earlier.
Claimed(job, token, left) ==
  [job EXCEPT !.status = "claimed", !.attempt = @ + 1,
              !.token = token, !.ttl = left]

\* Mutant of ReviewDue: it asks for attempts that are left, as Due does.
ReviewDueWithAttempts(job) ==
  job.status = "waiting_review" /\ ~ActivelyLeased(job) /\ job.attempt < MaxAttempts

\* claimWaitingReviewCandidates keeps the status and the attempt count.
ReviewDue(job) == job.status = "waiting_review" /\ ~ActivelyLeased(job)

ReviewClaimed(job, token, left) == [job EXCEPT !.token = token, !.ttl = left]

WithStatus(job, status) == [job EXCEPT !.status = status]

Renewed(job, left) == [job EXCEPT !.ttl = left]

-----------------------------------------------------------------------------
Capped(d) == IF d < MaxDelay THEN d ELSE MaxDelay

\* routeJobRetryDelaySeconds: the first attempt waits the base delay and every
\* further one twice as long, up to the cap (backoffMultiplier is 2).
RetryDelay(attempt) ==
  Capped(BaseDelay * 2 ^ (IF attempt > 1 THEN attempt - 1 ELSE 0))

HasRetriesLeft(job) == job.attempt < MaxAttempts

\* Mutant of Failed: the failed job keeps its lease.
FailedKeepingLease(job, wait) ==
  IF HasRetriesLeft(job)
  THEN [job EXCEPT !.status = "failed", !.wait = wait]
  ELSE [Released(job) EXCEPT !.status = "dead_letter"]

\* failRouteJob: "wait" is what is left of the retry delay, which counts from
\* the caller's clock reading; a dead letter keeps its old nextRunAt.
Failed(job, wait) ==
  IF HasRetriesLeft(job)
  THEN [Released(job) EXCEPT !.status = "failed", !.wait = wait]
  ELSE [Released(job) EXCEPT !.status = "dead_letter"]

\* retryRouteJob, by an operator
Retryable(job) == job.status \in {"failed", "dead_letter"}

\* Mutant of Retried: the attempts already used still count.
RetriedKeepingAttempts(job) ==
  [Released(job) EXCEPT !.status = "queued", !.wait = 0]

Retried(job) ==
  [Released(job) EXCEPT !.status = "queued", !.attempt = 0, !.wait = 0]

\* Mutant of Cancellable: a completed job may be cancelled, too.
CancellableWhenClosed(job) == ~ActivelyLeased(job)

\* cancelRouteJob, by an operator
Cancellable(job) == job.status # "completed" /\ ~ActivelyLeased(job)

Cancelled(job) == [Released(job) EXCEPT !.status = "cancelled"]

\* A tick of the clock brings every instant one tick nearer.
Less(n) == IF n = 0 THEN 0 ELSE n - 1

Aged(job) == [job EXCEPT !.wait = Less(@), !.ttl = Less(@)]
=============================================================================
