--------------------------- MODULE RouteJobWorker ---------------------------
(***************************************************************************)
(* Route-job workers (runtime/route-job-worker.ts) over the queue, for     *)
(* jobs that run in Loopgraph itself.  A worker reads the clock once per   *)
(* batch, reconciles the jobs that wait for review, claims due jobs and    *)
(* works them off one by one.  Every call to the store is a step of its    *)
(* own: other workers, reviewers, operators and the clock act in between.  *)
(*                                                                         *)
(* What a worker reads in a row before it decides (context, run trace) is  *)
(* one step.  An error nobody catches ends the batch and leaves its jobs   *)
(* leased, which is what a crash of the process does, too: Crash is both.  *)
(*                                                                         *)
(* A decision has one business problem, with a job and a commit for every  *)
(* loop it selects; later decisions may name the same problem.  Whoever    *)
(* works on one of these jobs saves the problem's status.  (Evidence and   *)
(* commits of a problem, repeated submissions: RouteSubmission.)           *)
(***************************************************************************)
EXTENDS RouteJob, FiniteSets

CONSTANTS
  Jobs,
  Workers,
  NoJob,
  Problems,
  ProblemOf,     \* [Jobs -> Problems]: problemId of a job
  MaxCrashes,    \* bound of the model: crashes and uncaught errors
  MaxGrants      \* bound of the model: tokens per job

None == "none"

ASSUME RouteJobWorkerAssumption ==
  /\ NoJob \notin Job /\ IsFiniteSet(Jobs) /\ None \notin Jobs
  /\ ProblemOf \in [Jobs -> Problems]
  /\ MaxCrashes \in Nat /\ MaxGrants \in Nat

VARIABLES
  jobs, issued, closedBy,    \* as in RouteJobQueue
  linked,     \* job.runId names the stored trace
  commits,    \* status of the job's route commit
  problems,   \* status of a business problem
  author,     \* history: the job on whose behalf a worker saved it last
  broken,     \* jobs in review that do not validate: their LoopSpec was changed
  traces,     \* status of the stored run trace
  runs,       \* history: runs begun since the job was queued or retried
  pc,         \* where each worker is
  mode,       \* "reviewing" or "working": which part of the batch
  age,        \* ticks since the instant the batch calls now
  batch,      \* the tokens of the jobs still to do, 0 for other jobs
  traced,     \* those of them that were linked when they were claimed
  cur,        \* the job in hand, and what was read or decided about it
  overtaken,  \* history: jobs claimed while a worker was between its records
  died,       \* history: jobs a worker died at between its records
  crashes

queueVars == <<jobs, issued, closedBy>>
problemVars == <<problems, author>>
storeVars == <<commits, problemVars, traces, linked, broken, runs>>
history == <<overtaken, died>>
workerVars == <<pc, mode, age, batch, traced, cur>>
vars == <<queueVars, storeVars, workerVars, history, crashes>>

\* Terminal statuses of a run; FAILED stands for FAILED_VERIFICATION and
\* BLOCKED_BY_POLICY.  (No code stores a run as CANCELLED.)
Results == {"WAITING_FOR_REVIEW", "COMPLETED", "FAILED", "REJECTED"}

Exists(j) == jobs[j] # NoJob

InHand(w) == jobs[cur[w].job]
Token(w) == batch[w][cur[w].job]

\* Mutant of HoldsIt: it asks whether the job is leased, not to whom.
HoldsSomeLease(w) == Leased(InHand(w))

HoldsIt(w) == HoldsLease(InHand(w), Token(w))

\* The clock reading of a batch ages with it.
MaxAge == IF LeaseTicks < MaxDelay THEN MaxDelay ELSE LeaseTicks
Left(ticks, w) == IF age[w] < ticks THEN ticks - age[w] ELSE 0

Goto(w, label) == pc' = [pc EXCEPT ![w] = label]

NoTokens == [j \in Jobs |-> 0]
Nothing == [job |-> None, result |-> None, dead |-> FALSE]

\* The job in hand is done with, or given up: on to the next of the batch.
NextJob(w) ==
  /\ Goto(w, mode[w])
  /\ batch' = [batch EXCEPT ![w][cur[w].job] = 0]
  /\ cur' = [cur EXCEPT ![w] = Nothing]
  /\ UNCHANGED <<mode, age, traced>>

\* The worker forgets its batch.
Leave(w) ==
  /\ Goto(w, "idle")
  /\ mode' = [mode EXCEPT ![w] = "reviewing"]
  /\ age' = [age EXCEPT ![w] = 0]
  /\ batch' = [batch EXCEPT ![w] = NoTokens]
  /\ traced' = [traced EXCEPT ![w] = {}]
  /\ cur' = [cur EXCEPT ![w] = Nothing]

\* The next call about the job in hand
Continue(w, label) == Goto(w, label) /\ UNCHANGED <<mode, age, batch, traced, cur>>

WriteJob(w, job) == jobs' = [jobs EXCEPT ![cur[w].job] = job]
WriteCommit(w, status) == commits' = [commits EXCEPT ![cur[w].job] = status]
WriteProblem(w, status) ==
  /\ problems' = [problems EXCEPT ![ProblemOf[cur[w].job]] = status]
  /\ author' = [author EXCEPT ![ProblemOf[cur[w].job]] = cur[w].job]

Init ==
  /\ jobs = [j \in Jobs |-> NoJob]
  /\ issued = [j \in Jobs |-> 0]
  /\ closedBy = [j \in Jobs |-> 0]
  /\ linked = [j \in Jobs |-> FALSE]
  /\ commits = [j \in Jobs |-> None]
  /\ problems = [p \in Problems |-> None]
  /\ author = [p \in Problems |-> None]
  /\ broken = {}
  /\ traces = [j \in Jobs |-> None]
  /\ runs = [j \in Jobs |-> 0]
  /\ pc = [w \in Workers |-> "idle"]
  /\ mode = [w \in Workers |-> "reviewing"]
  /\ age = [w \in Workers |-> 0]
  /\ batch = [w \in Workers |-> NoTokens]
  /\ traced = [w \in Workers |-> {}]
  /\ cur = [w \in Workers |-> Nothing]
  /\ overtaken = {} /\ died = {} /\ crashes = 0

\* Room to claim the job that many times more, whatever crashes: reviews and
\* retries stop before the tokens of the model run out, claims of work never do.
Room(j, claims) == issued[j] + claims + MaxCrashes <= MaxGrants

-----------------------------------------------------------------------------
\* The rest of the system.

\* submitRoutingDecision saves problem, commit and job.  The status "shadow"
\* that some commits start with is handled as "queued" is.
Submit(j) ==
  /\ ~Exists(j)
  /\ jobs' = [jobs EXCEPT ![j] = QueuedJob]
  /\ commits' = [commits EXCEPT ![j] = "queued"]
  /\ problems' = [problems EXCEPT ![ProblemOf[j]] = "routed"]
  /\ author' = [author EXCEPT ![ProblemOf[j]] = None]
  /\ UNCHANGED <<issued, closedBy, linked, traces, broken, runs, workerVars, history, crashes>>

\* The submission saves the problem again, last of all, and so does any later
\* decision about it.  (One that defers or appends saves it as "waiting" or as
\* it was; nothing below tells these apart.)
SaveProblemOf(j) ==
  /\ Exists(j)
  /\ problems' = [problems EXCEPT ![ProblemOf[j]] = "routed"]
  /\ author' = [author EXCEPT ![ProblemOf[j]] = None]
  /\ UNCHANGED <<queueVars, commits, traces, linked, broken, runs, workerVars, history, crashes>>

\* The LoopSpec that a job in review is bound to is changed, or put back.  (For
\* other jobs TakeDue leaves open whether they validate.)
ContextChanges(j) ==
  /\ Exists(j) /\ jobs[j].status = "waiting_review"
  /\ \/ j \notin broken /\ broken' = broken \cup {j}
     \/ j \in broken /\ Room(j, 2 + MaxAttempts) /\ broken' = broken \ {j}
  /\ UNCHANGED <<queueVars, commits, problemVars, traces, linked, runs, workerVars, history,
                 crashes>>

\* applyReviewDecision checks the run, the commit and the job it approves ...
Approve(j) ==
  /\ Exists(j) /\ linked[j]
  /\ traces[j] = "WAITING_FOR_REVIEW"
  /\ commits[j] = "waiting_review"
  /\ jobs[j].status = "waiting_review"
  /\ traces' = [traces EXCEPT ![j] = "COMPLETED"]
  /\ UNCHANGED <<queueVars, linked, commits, problemVars, broken, runs, workerVars, history,
                 crashes>>

\* ... but only that there is a run, when it rejects it or sends it back.
Reject(j) ==
  /\ traces[j] # None
  /\ \/ traces' = [traces EXCEPT ![j] = "REJECTED"]
     \/ Room(j, 2 + MaxAttempts) /\ traces' = [traces EXCEPT ![j] = "WAITING_FOR_REVIEW"]
  /\ UNCHANGED <<queueVars, linked, commits, problemVars, broken, runs, workerVars, history,
                 crashes>>

RetryJob(j) ==
  /\ Exists(j) /\ Retryable(jobs[j])
  /\ Room(j, 1 + MaxAttempts)
  /\ jobs' = [jobs EXCEPT ![j] = Retried(@)]
  /\ runs' = [runs EXCEPT ![j] = 0]
  /\ UNCHANGED <<issued, closedBy, linked, commits, problemVars, traces, broken, workerVars,
                 history, crashes>>

CancelJob(j) ==
  /\ Exists(j) /\ Cancellable(jobs[j])
  /\ jobs' = [jobs EXCEPT ![j] = Cancelled(@)]
  /\ UNCHANGED <<issued, closedBy, storeVars, workerVars, history, crashes>>

Tick ==
  /\ jobs' = [j \in Jobs |-> IF Exists(j) THEN Aged(jobs[j]) ELSE NoJob]
  /\ age' = [w \in Workers |-> IF pc[w] = "idle" \/ age[w] = MaxAge
                               THEN age[w] ELSE age[w] + 1]
  /\ UNCHANGED <<issued, closedBy, storeVars, pc, mode, batch, traced, cur, history, crashes>>

-----------------------------------------------------------------------------
\* A batch.

\* Between these labels a worker has saved, or is about to save, one of the
\* three records of the job in hand and not the others.
Recording == {"saveRunning", "saveInProgress", "saveCommit", "saveProblem", "settle",
              "requeue", "hold"}

BetweenRecords(w, j) == cur[w].job = j /\ pc[w] \in Recording

\* Mutant of Claim: a job whose lease ran out keeps the token it had.
ClaimWithOldTokens(w, S, claimed) ==
  LET token == [j \in Jobs |-> IF j \notin S THEN 0
                               ELSE IF jobs[j].token = 0 THEN issued[j] + 1 ELSE jobs[j].token]
  IN  /\ jobs' = [j \in Jobs |-> IF j \in S THEN [claimed[j] EXCEPT !.token = token[j]] ELSE jobs[j]]
      /\ issued' = [j \in Jobs |-> IF j \in S THEN issued[j] + 1 ELSE issued[j]]
      /\ batch' = [batch EXCEPT ![w] = token]
      /\ traced' = [traced EXCEPT ![w] = {j \in S : linked[j]}]
      /\ overtaken' = overtaken \cup {j \in S : \E v \in Workers : BetweenRecords(v, j)}
      /\ UNCHANGED <<closedBy, storeVars, cur, died, crashes>>

\* Both claims of a batch: the jobs of S are saved as "claimed" has them.
Claim(w, S, claimed) ==
  LET token == [j \in Jobs |-> IF j \in S THEN issued[j] + 1 ELSE 0]
  IN  /\ jobs' = [j \in Jobs |-> IF j \in S THEN claimed[j] ELSE jobs[j]]
      /\ issued' = [j \in Jobs |-> IF j \in S THEN token[j] ELSE issued[j]]
      /\ batch' = [batch EXCEPT ![w] = token]
      /\ traced' = [traced EXCEPT ![w] = {j \in S : linked[j]}]
      /\ overtaken' = overtaken \cup {j \in S : \E v \in Workers : BetweenRecords(v, j)}
      /\ UNCHANGED <<closedBy, storeVars, cur, died, crashes>>

\* Claims of a review that need not bring it forward: it is still open, it does
\* not validate, or a worker is slow with it.  There are finitely many of them.
InVain(j) ==
  \/ traces[j] = "WAITING_FOR_REVIEW" \/ j \in broken
  \/ \E w \in Workers : batch[w][j] # 0

\* runRouteJobWorker reads the clock and claims the jobs waiting for review.
StartBatch(w) ==
  /\ pc[w] = "idle"
  /\ LET S == {j \in Jobs : /\ Exists(j) /\ ReviewDue(jobs[j])
                            /\ InVain(j) => Room(j, 1 + MaxAttempts)
                            /\ issued[j] < MaxGrants}
     IN  Claim(w, S, [j \in S |-> ReviewClaimed(jobs[j], issued[j] + 1, LeaseTicks)])
  /\ Goto(w, "reviewing")
  /\ UNCHANGED <<mode, age>>

\* claimDueRouteJobs.  Its leases count from the clock reading of the batch.
\* What fell due since that reading the code leaves to the next batch; here it
\* may be taken at once.
ClaimDueJobs(w) ==
  /\ pc[w] = "reviewing" /\ batch[w] = NoTokens
  /\ LET S == {j \in Jobs : Exists(j) /\ Due(jobs[j]) /\ issued[j] < MaxGrants}
     IN  Claim(w, S, [j \in S |-> Claimed(jobs[j], issued[j] + 1, Left(LeaseTicks, w))])
  /\ mode' = [mode EXCEPT ![w] = "working"]
  /\ Goto(w, "working")
  /\ UNCHANGED age

EndBatch(w) ==
  /\ pc[w] = "working" /\ batch[w] = NoTokens
  /\ Leave(w)
  /\ UNCHANGED <<queueVars, storeVars, history, crashes>>

\* The next job of the batch, with the run trace the worker read
Take(w, j, label) ==
  /\ pc[w] = mode[w] /\ batch[w][j] # 0
  /\ cur' = [cur EXCEPT ![w] = [job |-> j, result |-> traces[j], dead |-> FALSE]]
  /\ Goto(w, label)
  /\ UNCHANGED <<queueVars, storeVars, mode, age, batch, traced, history, crashes>>

\* reconcileReviewedRouteJobs: the trace of a job in review is terminal, for
\* WAITING_FOR_REVIEW counts as terminal ...
TakeReview(w, j) ==
  mode[w] = "reviewing" /\ j \notin broken /\ Take(w, j, "finalize")

\* ... but a job that does not validate ends the batch, nobody catches the error.
RefuseReview(w, j) ==
  /\ pc[w] = "reviewing" /\ batch[w][j] # 0
  /\ j \in broken
  /\ Leave(w)
  /\ UNCHANGED <<queueVars, storeVars, history, crashes>>

\* processClaimedRouteJob: a commit that is completed is refused, as is a job
\* that does not validate, and any call may fail; a run the claimed job names
\* is finalized.
TakeDue(w, j) ==
  /\ mode[w] = "working"
  /\ \/ Take(w, j, "fail")
     \/ /\ commits[j] # "completed"
        /\ Take(w, j, IF j \in traced[w] THEN "finalize" ELSE "start")

\* Mutant of Start: markRouteJobRunning without the token.
StartUnfenced(w) ==
  /\ pc[w] = "start"
  /\ WriteJob(w, WithStatus(InHand(w), "running"))
  /\ runs' = [runs EXCEPT ![cur[w].job] = @ + 1]
  /\ Continue(w, "saveRunning")
  /\ UNCHANGED <<issued, closedBy, linked, commits, problemVars, traces, broken, history, crashes>>

\* The job in hand is written under its token; the next call is at "label".
\* Without the lease the write fails, and control goes to "Otherwise".
Start(w) ==
  /\ pc[w] = "start"
  /\ IF HoldsIt(w)
     THEN /\ WriteJob(w, WithStatus(InHand(w), "running"))
          /\ runs' = [runs EXCEPT ![cur[w].job] = @ + 1]
          /\ Continue(w, "saveRunning")
     ELSE Continue(w, "fail") /\ UNCHANGED <<jobs, runs>>
  /\ UNCHANGED <<issued, closedBy, linked, commits, problemVars, traces, broken, history, crashes>>

SaveRunningCommit(w) ==
  /\ pc[w] = "saveRunning"
  /\ WriteCommit(w, "running")
  /\ Continue(w, "saveInProgress")
  /\ UNCHANGED <<queueVars, linked, problemVars, traces, broken, runs, history, crashes>>

SaveRunningProblem(w) ==
  /\ pc[w] = "saveInProgress"
  /\ WriteProblem(w, "in_progress")
  /\ Continue(w, "run")
  /\ UNCHANGED <<queueVars, linked, commits, traces, broken, runs, history, crashes>>

\* withRouteJobHeartbeat, while the run goes on ...
Heartbeat(w) ==
  /\ pc[w] = "run" /\ HoldsIt(w)
  /\ WriteJob(w, Renewed(InHand(w), LeaseTicks))
  /\ UNCHANGED <<issued, closedBy, storeVars, workerVars, history, crashes>>

\* runLoop stores the trace under an id of its own, at its end.
RunEnds(w) ==
  /\ pc[w] = "run"
  /\ \E result \in Results \ {"REJECTED"} :
       /\ traces' = [traces EXCEPT ![cur[w].job] = result]
       /\ cur' = [cur EXCEPT ![w].result = result]
  /\ Goto(w, "renew")
  /\ UNCHANGED <<queueVars, linked, commits, problemVars, broken, runs, mode, age, batch, traced,
                 history, crashes>>

RunThrows(w) ==
  /\ pc[w] = "run"
  /\ Continue(w, "fail")
  /\ UNCHANGED <<queueVars, storeVars, history, crashes>>

\* ... and once more after it.  A heartbeat that failed meanwhile, for whatever
\* reason, fails the job in spite of its trace.
HeartbeatFailed(w) ==
  /\ pc[w] = "renew"
  /\ Continue(w, "fail")
  /\ UNCHANGED <<queueVars, storeVars, history, crashes>>

FinalRenew(w) ==
  /\ pc[w] = "renew"
  /\ IF HoldsIt(w)
     THEN WriteJob(w, Renewed(InHand(w), LeaseTicks)) /\ Continue(w, "finalize")
     ELSE UNCHANGED jobs /\ Continue(w, "fail")
  /\ UNCHANGED <<issued, closedBy, storeVars, history, crashes>>

-----------------------------------------------------------------------------
\* finalizeRouteJobFromTrace.  Its promise is returned, not awaited, so that
\* its errors pass the catch block of processClaimedRouteJob by.

\* assertRouteJobFinalizeLease.  The expiry is compared with the clock reading
\* of the batch, which it cannot precede: an expired lease passes.
AssertFinalizeLease(w) ==
  /\ pc[w] = "finalize"
  /\ IF /\ InHand(w).status \in {"claimed", "running", "waiting_review"}
        /\ HoldsIt(w)
     THEN Continue(w, "saveCommit")
     ELSE Leave(w)
  /\ UNCHANGED <<queueVars, storeVars, history, crashes>>

\* Mutant of CommitStatusOf: a completed run falls through to the default.
CommitStatusWithoutCompleted(result) ==
  CASE result = "WAITING_FOR_REVIEW" -> "waiting_review"
    [] result = "COMPLETED" -> "running"
    [] OTHER -> "failed"

CommitStatusOf(result) ==
  CASE result = "WAITING_FOR_REVIEW" -> "waiting_review"
    [] result = "COMPLETED" -> "completed"
    [] OTHER -> "failed"

SaveFinalCommit(w) ==
  /\ pc[w] = "saveCommit"
  /\ WriteCommit(w, CommitStatusOf(cur[w].result))
  /\ Continue(w, "saveProblem")
  /\ UNCHANGED <<queueVars, linked, problemVars, traces, broken, runs, history, crashes>>

SaveFinalProblem(w) ==
  /\ pc[w] = "saveProblem"
  /\ WriteProblem(w, IF cur[w].result = "COMPLETED" THEN "routed" ELSE "waiting")
  /\ Continue(w, "settle")
  /\ UNCHANGED <<queueVars, linked, commits, traces, broken, runs, history, crashes>>

\* The retry delay counts from the clock reading of the batch, too.
FailedNow(w) == Failed(InHand(w), Left(RetryDelay(InHand(w).attempt), w))

\* The last write: the job's own status, under the token.
Settle(w) ==
  /\ pc[w] = "settle"
  /\ IF ~HoldsIt(w)
     THEN Leave(w) /\ UNCHANGED <<jobs, closedBy, linked>>
     ELSE /\ NextJob(w)
          /\ CASE cur[w].result = "WAITING_FOR_REVIEW" ->
                    /\ WriteJob(w, Released(WithStatus(InHand(w), "waiting_review")))
                    /\ linked' = [linked EXCEPT ![cur[w].job] = TRUE]
                    /\ UNCHANGED closedBy
               [] cur[w].result = "COMPLETED" ->
                    /\ WriteJob(w, Released(WithStatus(InHand(w), "completed")))
                    /\ linked' = [linked EXCEPT ![cur[w].job] = TRUE]
                    /\ closedBy' = [closedBy EXCEPT ![cur[w].job] = Token(w)]
               [] OTHER ->
                    /\ WriteJob(w, FailedNow(w))
                    /\ UNCHANGED <<linked, closedBy>>
  /\ UNCHANGED <<issued, commits, problemVars, traces, broken, runs, history, crashes>>

-----------------------------------------------------------------------------
\* The catch block of processClaimedRouteJob.  Without the lease it writes
\* nothing and the batch goes on.
Fail(w) ==
  /\ pc[w] = "fail"
  /\ IF HoldsIt(w)
     THEN /\ WriteJob(w, FailedNow(w))
          /\ cur' = [cur EXCEPT ![w].dead = ~HasRetriesLeft(InHand(w))]
          /\ Goto(w, "requeue")
          /\ UNCHANGED <<mode, age, batch, traced>>
     ELSE NextJob(w) /\ UNCHANGED jobs
  /\ UNCHANGED <<issued, closedBy, storeVars, history, crashes>>

\* Mutant of RequeueCommit: dead letters are queued again, too.
RequeueAlways(w) ==
  /\ pc[w] = "requeue"
  /\ WriteCommit(w, "queued")
  /\ Continue(w, "hold")
  /\ UNCHANGED <<queueVars, linked, problemVars, traces, broken, runs, history, crashes>>

RequeueCommit(w) ==
  /\ pc[w] = "requeue"
  /\ WriteCommit(w, IF cur[w].dead THEN "failed" ELSE "queued")
  /\ Continue(w, "hold")
  /\ UNCHANGED <<queueVars, linked, problemVars, traces, broken, runs, history, crashes>>

HoldProblem(w) ==
  /\ pc[w] = "hold"
  /\ WriteProblem(w, "waiting")
  /\ NextJob(w)
  /\ UNCHANGED <<queueVars, linked, commits, traces, broken, runs, history, crashes>>

Crash(w) ==
  /\ pc[w] # "idle" /\ crashes < MaxCrashes
  /\ Leave(w)
  /\ crashes' = crashes + 1
  /\ died' = IF pc[w] \in Recording THEN died \cup {cur[w].job} ELSE died
  /\ UNCHANGED <<queueVars, storeVars, overtaken>>

-----------------------------------------------------------------------------
\* What a worker does of itself, a crash and a heartbeat apart.
Work(w) ==
  \/ StartBatch(w) \/ ClaimDueJobs(w) \/ EndBatch(w)
  \/ \E j \in Jobs : TakeReview(w, j) \/ RefuseReview(w, j) \/ TakeDue(w, j)
  \/ Start(w) \/ SaveRunningCommit(w) \/ SaveRunningProblem(w)
  \/ RunEnds(w) \/ RunThrows(w) \/ HeartbeatFailed(w) \/ FinalRenew(w)
  \/ AssertFinalizeLease(w) \/ SaveFinalCommit(w) \/ SaveFinalProblem(w) \/ Settle(w)
  \/ Fail(w) \/ RequeueCommit(w) \/ HoldProblem(w)

Next ==
  \/ \E w \in Workers : Work(w) \/ Heartbeat(w) \/ Crash(w)
  \/ \E j \in Jobs : \/ Submit(j) \/ SaveProblemOf(j) \/ ContextChanges(j)
                     \/ Approve(j) \/ Reject(j) \/ RetryJob(j) \/ CancelJob(j)
  \/ Tick

Spec == Init /\ [][Next]_vars

\* The scheduler runs every worker again and again and a run comes to an end;
\* time passes.  Nothing obliges a reviewer or an operator to act.
FairSpec == Spec /\ WF_vars(Tick) /\ \A w \in Workers : WF_vars(Work(w))

-----------------------------------------------------------------------------
Labels == {"idle", "reviewing", "working", "start", "saveRunning", "saveInProgress",
           "run", "renew", "finalize", "saveCommit", "saveProblem", "settle",
           "fail", "requeue", "hold"}

TypeOK ==
  /\ jobs \in [Jobs -> Job \cup {NoJob}]
  /\ issued \in [Jobs -> 0..MaxGrants] /\ closedBy \in [Jobs -> 0..MaxGrants]
  /\ linked \in [Jobs -> BOOLEAN]
  /\ commits \in [Jobs -> {None, "queued", "running", "waiting_review", "completed", "failed"}]
  /\ problems \in [Problems -> {None, "routed", "in_progress", "waiting"}]
  /\ author \in [Problems -> Jobs \cup {None}]
  /\ broken \subseteq Jobs
  /\ traces \in [Jobs -> Results \cup {None}]
  /\ runs \in [Jobs -> Nat]
  /\ pc \in [Workers -> Labels] /\ mode \in [Workers -> {"reviewing", "working"}]
  /\ age \in [Workers -> 0..MaxAge]
  /\ batch \in [Workers -> [Jobs -> 0..MaxGrants]] /\ traced \in [Workers -> SUBSET Jobs]
  /\ cur \in [Workers -> [job : Jobs \cup {None}, result : Results \cup {None}, dead : BOOLEAN]]
  /\ overtaken \subseteq Jobs /\ died \subseteq Jobs
  /\ crashes \in 0..MaxCrashes

\* Workers keep to the queue's protocol: whatever happens between their calls,
\* each of their writes to a job is one a caller of the queue may make.  With
\* the theorems about RouteJobQueue, stale workers therefore change no job.
\* (Submissions of one job do not overlap here; RouteSubmission has those.)
Queue == INSTANCE RouteJobQueue WITH
  HermesJobs <- {}, SimulatedJobs <- {}, ClaimLimit <- Cardinality(Jobs),
  MaxLate <- 0, late <- [j \in Jobs |-> 0]

ImplementsQueue == Queue!Spec

\* A loop is run at most as often as its job was claimed, and so at most
\* maxAttempts times for every request of an operator: a worker that lost its
\* lease does not begin a run.
RunsWithinAttempts ==
  \A j \in Jobs : Exists(j) => runs[j] <= jobs[j].attempt

\* However slow workers are, at most one of those that have a job in their
\* batch can still write it: the executions of the others, which a failed
\* heartbeat does not stop, end without a word to the queue.
Owns(w, j) == batch[w][j] # 0 /\ Exists(j) /\ jobs[j].token = batch[w][j]

OneWriter ==
  \A v, w \in Workers, j \in Jobs : v # w => ~(Owns(v, j) /\ Owns(w, j))

\* The problem is saved for each of its jobs in turn.  What it says of a job
\* can be relied on while that job's worker is the last to have saved it.
Problem(j) == problems[ProblemOf[j]]
SpeaksOf(j) == author[ProblemOf[j]] = j

\* A job that is completed has a completed commit, a stored run its runId
\* names, and, where the problem speaks of it, a problem that is handed back:
\* crashes or not, unless it was overtaken by another worker between two of
\* these writes.
CompletedIsRecorded ==
  \A j \in Jobs \ overtaken : Exists(j) /\ jobs[j].status = "completed" =>
    /\ commits[j] = "completed" /\ traces[j] # None /\ linked[j]
    /\ SpeaksOf(j) => Problem(j) = "routed"

Untouched(j) == \A w \in Workers : cur[w].job # j

\* Job, commit and problem are three records written one after the other.
\* Once no worker is at the job they tell the same story, unless a worker died
\* or was overtaken between two of them.
RecordsAgree ==
  \A j \in Jobs \ (overtaken \cup died) : Exists(j) /\ Untouched(j) =>
    CASE jobs[j].status = "completed" ->
           commits[j] = "completed" /\ (SpeaksOf(j) => Problem(j) = "routed")
      [] jobs[j].status = "waiting_review" ->
           commits[j] = "waiting_review" /\ (SpeaksOf(j) => Problem(j) = "waiting")
      [] jobs[j].status = "failed" ->
           commits[j] \in {"queued", "failed"} /\ (SpeaksOf(j) => Problem(j) = "waiting")
      [] jobs[j].status = "dead_letter" ->
           commits[j] = "failed" /\ (SpeaksOf(j) => Problem(j) = "waiting")
      [] OTHER -> TRUE

Settled(j) == Exists(j) /\ jobs[j].status \in {"waiting_review", "completed", "dead_letter", "cancelled"}

\* Nobody has the job in a batch that holds its last attempt: its worker died,
\* or an error ended the batch.  No claim takes such a job, and retryRouteJob
\* refuses it.
Lost(j) ==
  /\ Exists(j) /\ jobs[j].status \in {"claimed", "running"}
  /\ jobs[j].attempt = MaxAttempts
  /\ \A w \in Workers : ~Owns(w, j)

\* Accepted work comes to an end, whatever crashes: it is completed, up for
\* review, given up or cancelled.  The one way to lose it is a batch that ends
\* before its last attempt is made.
AcceptedIsSettled ==
  \A j \in Jobs : [](Exists(j) => <>(Settled(j) \/ []Lost(j)))

AwaitsPickUp(j) ==
  Exists(j) /\ jobs[j].status = "waiting_review" /\ linked[j] /\ traces[j] = "COMPLETED"

\* An approved run is picked up: its job does not wait for review for ever,
\* unless a job, this one or another, stops validating, which ends the batches
\* that claimed its review together with others.
ApprovedIsReconciled ==
  \A j \in Jobs : AwaitsPickUp(j) ~> ~AwaitsPickUp(j) \/ broken # {}
=============================================================================
