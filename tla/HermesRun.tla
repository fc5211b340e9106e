----------------------------- MODULE HermesRun -----------------------------
(***************************************************************************)
(* A route job that Hermes executes (executionTarget.runtime "hermes").    *)
(* A worker claims the job and dispatches it (runtime/route-job-worker.ts, *)
(* dispatchRouteJobToHermes); Hermes reports what it does as events, each  *)
(* posted to a handler (runtime/hermes-execution-service.ts) that appends  *)
(* it to a ledger and projects it on trace, commit, problem and job, one   *)
(* store call after the other.  Handlers run side by side, and an event is *)
(* delivered any number of times, in any order, or never.                  *)
(*                                                                         *)
(* Hermes itself is not part of the repository: it starts a run for every  *)
(* assignment it accepted and numbers its events (external below).         *)
(***************************************************************************)
EXTENDS RouteJob, FiniteSets

CONSTANTS
  Workers,
  Handlers,
  NoJob,
  ReuseSequence, \* TRUE: Hermes may give two events of a run one number
  MaxEvents,     \* bound of the model: sequence numbers Hermes uses
  MaxCrashes,    \* bound of the model: crashes of workers
  MaxGrants      \* bound of the model: claims of the job

ASSUME HermesRunAssumption ==
  /\ NoJob \notin Job
  /\ ReuseSequence \in BOOLEAN
  /\ MaxEvents \in Nat /\ MaxCrashes \in Nat /\ MaxGrants \in Nat

VARIABLES
  job, issued, closedBy,    \* as in RouteJobQueue, of the one job
  commit, problem,   \* status of the route commit and of the business problem
  trace,      \* status of the run trace that job.runId names
  ledger,     \* the execution events on record
  sent,       \* the events Hermes posted
  assigned,   \* assignments Hermes accepted
  hermes,     \* external: how far Hermes is with its run
  at,         \* what each worker does next about the job
  token,      \* the token it claimed the job with, 0 while it has none
  handling,   \* what each handler does next, about which event
  read,       \* the trace status a worker read before it finalizes
  dead,       \* the workers whose failure used up the last attempt
  crashes

jobVars == <<job, issued, closedBy>>
recordVars == <<commit, problem, trace>>
hermesVars == <<sent, assigned, hermes>>
workerVars == <<at, token, read, dead>>
vars == <<jobVars, recordVars, ledger, hermesVars, workerVars, handling, crashes>>

None == "none"

\* "progress" stands for the events about tasks, tools and outputs that set the
\* trace to COMMITTED and go no further.
EventTypes == {"run.started", "progress", "approval.requested", "approved", "rejected",
               "run.completed", "run.failed"}

\* "first" tells two events that carry the same sequence number apart.
Events == [seq : 1..MaxEvents, type : EventTypes, first : BOOLEAN]

Exists == job # NoJob

\* Mutant of HoldsIt: it asks whether the job is leased, not to whom.
HoldsSomeLease(w) == Leased(job)

HoldsIt(w) == HoldsLease(job, token[w])

Init ==
  /\ job = NoJob /\ issued = 0 /\ closedBy = 0
  /\ commit = None /\ problem = None /\ trace = None
  /\ ledger = {} /\ sent = {} /\ assigned = 0 /\ hermes = "idle"
  /\ at = [w \in Workers |-> "idle"]
  /\ token = [w \in Workers |-> 0]
  /\ read = [w \in Workers |-> None]
  /\ dead = {} /\ crashes = 0
  /\ handling = [h \in Handlers |-> [step |-> "idle"]]

-----------------------------------------------------------------------------
Submit ==
  /\ ~Exists
  /\ job' = QueuedJob /\ commit' = "queued" /\ problem' = "routed"
  /\ UNCHANGED <<issued, closedBy, trace, ledger, hermesVars, workerVars, handling, crashes>>

RetryJob ==
  /\ Exists /\ Retryable(job)
  /\ job' = Retried(job)
  /\ UNCHANGED <<issued, closedBy, recordVars, ledger, hermesVars, workerVars, handling, crashes>>

CancelJob ==
  /\ Exists /\ Cancellable(job)
  /\ job' = Cancelled(job)
  /\ UNCHANGED <<issued, closedBy, recordVars, ledger, hermesVars, workerVars, handling, crashes>>

Tick ==
  /\ Exists
  /\ job' = Aged(job)
  /\ UNCHANGED <<issued, closedBy, recordVars, ledger, hermesVars, workerVars, handling, crashes>>

-----------------------------------------------------------------------------
\* The worker

Goto(w, label) == at' = [at EXCEPT ![w] = label]
Continue(w, label) == Goto(w, label) /\ UNCHANGED <<token, read, dead>>

\* The worker is done with the job, or an error nobody catches ends its batch.
Leave(w) ==
  /\ Goto(w, "idle")
  /\ token' = [token EXCEPT ![w] = 0]
  /\ read' = [read EXCEPT ![w] = None]
  /\ dead' = dead \ {w}

Claim(w, claimed, label) ==
  /\ at[w] = "idle" /\ issued < MaxGrants
  /\ job' = claimed
  /\ issued' = issued + 1
  /\ token' = [token EXCEPT ![w] = issued + 1]
  /\ Goto(w, label)
  /\ UNCHANGED <<closedBy, recordVars, ledger, hermesVars, read, dead, handling, crashes>>

ClaimDue(w) ==
  Exists /\ Due(job) /\ Claim(w, Claimed(job, issued + 1, LeaseTicks), "claimed")

ClaimReview(w) ==
  Exists /\ ReviewDue(job) /\ Claim(w, ReviewClaimed(job, issued + 1, LeaseTicks), "reviewing")

\* isTerminalTrace (Hermes reports none of its other statuses)
Terminal == trace \in {"WAITING_FOR_REVIEW", "COMPLETED", "FAILED", "REJECTED"}

\* The context of the claimed job is refused; a completed commit always is.
Refuse(w) ==
  /\ at[w] = "claimed"
  /\ Continue(w, "fail")
  /\ UNCHANGED <<jobVars, recordVars, ledger, hermesVars, handling, crashes>>

\* A run that has ended, or waits for review, is finalized ...
FinalizeRun(w) ==
  /\ at[w] = "reviewing" \/ (at[w] = "claimed" /\ commit # "completed")
  /\ Terminal
  /\ Goto(w, "finalize") /\ read' = [read EXCEPT ![w] = trace]
  /\ UNCHANGED <<jobVars, recordVars, ledger, hermesVars, token, dead, handling, crashes>>

\* ... one that goes on is left in review ...
LeaveInReview(w) ==
  /\ at[w] = "reviewing" /\ ~Terminal
  /\ IF HoldsIt(w) THEN job' = Released(WithStatus(job, "waiting_review")) ELSE UNCHANGED job
  /\ Leave(w)
  /\ UNCHANGED <<issued, closedBy, recordVars, ledger, hermesVars, handling, crashes>>

\* ... and a claimed job is to go to Hermes.
ChooseHermes(w) ==
  /\ at[w] = "claimed" /\ commit # "completed" /\ ~Terminal
  /\ Continue(w, "dispatch")
  /\ UNCHANGED <<jobVars, recordVars, ledger, hermesVars, handling, crashes>>

\* Hermes gets the assignment ...
Dispatch(w) ==
  /\ at[w] = "dispatch"
  /\ assigned' = assigned + 1
  /\ Continue(w, "sent")
  /\ UNCHANGED <<jobVars, recordVars, ledger, sent, hermes, handling, crashes>>

\* ... if there are a transport and a healthy agent and the assignment is
\* accepted.  The promise is returned, not awaited: its error passes the
\* catch block by, and the batch ends.
DispatchFails(w) ==
  /\ at[w] = "dispatch"
  /\ Leave(w)
  /\ UNCHANGED <<jobVars, recordVars, ledger, hermesVars, handling, crashes>>

MarkDispatched(w) ==
  /\ at[w] = "sent"
  /\ IF HoldsIt(w)
     THEN job' = Released(WithStatus(job, "dispatched")) /\ Continue(w, "saveQueued")
     ELSE UNCHANGED job /\ Leave(w)
  /\ UNCHANGED <<issued, closedBy, recordVars, ledger, hermesVars, handling, crashes>>

SaveQueuedCommit(w) ==
  /\ at[w] = "saveQueued"
  /\ commit' = "queued"
  /\ Continue(w, "saveRouted")
  /\ UNCHANGED <<jobVars, problem, trace, ledger, hermesVars, handling, crashes>>

SaveRoutedProblem(w) ==
  /\ at[w] = "saveRouted"
  /\ problem' = "routed"
  /\ Leave(w)
  /\ UNCHANGED <<jobVars, commit, trace, ledger, hermesVars, handling, crashes>>

\* finalizeRouteJobFromTrace, as in RouteJobWorker
AssertFinalizeLease(w) ==
  /\ at[w] = "finalize"
  /\ IF job.status \in {"claimed", "running", "waiting_review"} /\ HoldsIt(w)
     THEN Continue(w, "saveCommit")
     ELSE Leave(w)
  /\ UNCHANGED <<jobVars, recordVars, ledger, hermesVars, handling, crashes>>

\* Mutant of CommitStatusOf: a run that waits for review falls through to the
\* default.
CommitStatusWithoutReview(result) ==
  IF result \in {"FAILED", "REJECTED"} THEN "failed" ELSE "completed"

CommitStatusOf(result) ==
  CASE result = "WAITING_FOR_REVIEW" -> "waiting_review"
    [] result = "COMPLETED" -> "completed"
    [] OTHER -> "failed"

SaveFinalCommit(w) ==
  /\ at[w] = "saveCommit"
  /\ commit' = CommitStatusOf(read[w])
  /\ Continue(w, "saveProblem")
  /\ UNCHANGED <<jobVars, problem, trace, ledger, hermesVars, handling, crashes>>

\* The activation modes that Hermes executes resolve their problem.
SaveFinalProblem(w) ==
  /\ at[w] = "saveProblem"
  /\ problem' = IF read[w] = "COMPLETED" THEN "resolved" ELSE "waiting"
  /\ Continue(w, "settle")
  /\ UNCHANGED <<jobVars, commit, trace, ledger, hermesVars, handling, crashes>>

FailedIn(wait) == wait <= RetryDelay(job.attempt) /\ job' = Failed(job, wait)

Settle(w) ==
  /\ at[w] = "settle"
  /\ \/ ~HoldsIt(w) /\ UNCHANGED <<job, closedBy>>
     \/ /\ HoldsIt(w) /\ read[w] = "WAITING_FOR_REVIEW"
        /\ job' = Released(WithStatus(job, "waiting_review"))
        /\ UNCHANGED closedBy
     \/ /\ HoldsIt(w) /\ read[w] = "COMPLETED"
        /\ job' = Released(WithStatus(job, "completed"))
        /\ closedBy' = token[w]
     \/ /\ HoldsIt(w) /\ read[w] \in {"FAILED", "REJECTED"}
        /\ \E wait \in 0..MaxDelay : FailedIn(wait)
        /\ UNCHANGED closedBy
  /\ Leave(w)
  /\ UNCHANGED <<issued, recordVars, ledger, hermesVars, handling, crashes>>

\* The catch block of processClaimedRouteJob
Fail(w) ==
  /\ at[w] = "fail"
  /\ IF HoldsIt(w)
     THEN /\ \E wait \in 0..MaxDelay : FailedIn(wait)
          /\ dead' = IF HasRetriesLeft(job) THEN dead ELSE dead \cup {w}
          /\ Goto(w, "requeue")
          /\ UNCHANGED <<token, read>>
     ELSE UNCHANGED job /\ Leave(w)
  /\ UNCHANGED <<issued, closedBy, recordVars, ledger, hermesVars, handling, crashes>>

RequeueCommit(w) ==
  /\ at[w] = "requeue"
  /\ commit' = IF w \in dead THEN "failed" ELSE "queued"
  /\ Continue(w, "hold")
  /\ UNCHANGED <<jobVars, problem, trace, ledger, hermesVars, handling, crashes>>

HoldProblem(w) ==
  /\ at[w] = "hold"
  /\ problem' = "waiting"
  /\ Leave(w)
  /\ UNCHANGED <<jobVars, commit, trace, ledger, hermesVars, handling, crashes>>

\* A worker stops, or an error nobody catches ends its batch.
Crash(w) ==
  /\ at[w] # "idle" /\ crashes < MaxCrashes
  /\ Leave(w)
  /\ crashes' = crashes + 1
  /\ UNCHANGED <<jobVars, recordVars, ledger, hermesVars, handling>>

-----------------------------------------------------------------------------
\* External: Hermes starts a run for an assignment, may ask for an approval
\* and resolve it, ends the run, and posts an event about each of these.

Post(type) ==
  LET seqs == {e.seq : e \in sent}
      next == Cardinality(seqs) + 1
  IN  \/ next <= MaxEvents /\ sent' = sent \cup {[seq |-> next, type |-> type, first |-> TRUE]}
      \/ /\ ReuseSequence
         /\ \E seq \in seqs : sent' = sent \cup {[seq |-> seq, type |-> type, first |-> FALSE]}

Reports(from, type, to) ==
  hermes = from /\ hermes' = to /\ Post(type) /\ sent' # sent

HermesActs ==
  /\ \/ assigned > 0 /\ Reports("idle", "run.started", "running")
     \/ Reports("running", "progress", "running")
     \/ Reports("running", "approval.requested", "asking")
     \/ Reports("asking", "approved", "running")
     \/ Reports("asking", "rejected", "stopped")
     \/ Reports("running", "run.completed", "done")
     \/ \E phase \in {"running", "stopped"} : Reports(phase, "run.failed", "idle")
  /\ assigned' = IF hermes' \in {"idle", "done"} THEN 0 ELSE assigned
  /\ UNCHANGED <<jobVars, recordVars, ledger, workerVars, handling, crashes>>

-----------------------------------------------------------------------------
\* ingestHermesExecutionEvent.  A handler that goes on is at "step" with event
\* "e"; "created" is what the ledger answered, "known" the trace it read.
Handle(h, step, e, created, known) ==
  handling' = [handling EXCEPT ![h] =
                 [step |-> step, e |-> e, created |-> created, known |-> known]]

At(h, step) == handling[h].step = step
Proceed(h, step) == handling' = [handling EXCEPT ![h].step = step]
Answer(h) == handling' = [handling EXCEPT ![h] = [step |-> "idle"]]

\* An event is refused if another one holds its number.
Receive(h, e) ==
  /\ At(h, "idle") /\ Exists
  /\ \A prior \in ledger : prior.seq = e.seq => prior = e
  /\ Handle(h, "append", e, FALSE, None)
  /\ UNCHANGED <<jobVars, recordVars, ledger, hermesVars, workerVars, crashes>>

\* appendExecutionEvent compares idempotency keys, not numbers.
Append(h) ==
  /\ At(h, "append")
  /\ ledger' = ledger \cup {handling[h].e}
  /\ Handle(h, "read", handling[h].e, handling[h].e \notin ledger, None)
  /\ UNCHANGED <<jobVars, recordVars, hermesVars, workerVars, crashes>>

ReadTrace(h) ==
  /\ At(h, "read")
  /\ Handle(h, "trace", handling[h].e, handling[h].created, trace)
  /\ UNCHANGED <<jobVars, recordVars, ledger, hermesVars, workerVars, crashes>>

TraceAfter(type, known) ==
  CASE type = "approval.requested" -> "WAITING_FOR_REVIEW"
    [] type = "rejected" -> "REJECTED"
    [] type = "run.completed" -> "COMPLETED"
    [] type = "run.failed" -> "FAILED"
    [] type \in {"run.started", "progress"} -> "COMMITTED"
    [] type = "approved" -> IF known = None THEN "COMMITTED" ELSE known

ProjectTrace(h) ==
  /\ At(h, "trace")
  /\ LET type == handling[h].e.type
     IN  /\ trace' = TraceAfter(type, handling[h].known)
         /\ IF type \in {"rejected", "progress"} THEN Answer(h) ELSE Proceed(h, "commit")
  /\ UNCHANGED <<jobVars, commit, problem, ledger, hermesVars, workerVars, crashes>>

ProjectCommit(h) ==
  /\ At(h, "commit")
  /\ commit' = CASE handling[h].e.type \in {"run.started", "approved"} -> "running"
                 [] handling[h].e.type = "approval.requested" -> "waiting_review"
                 [] handling[h].e.type = "run.completed" -> "completed"
                 [] handling[h].e.type = "run.failed" -> "failed"
  /\ Proceed(h, "problem")
  /\ UNCHANGED <<jobVars, problem, trace, ledger, hermesVars, workerVars, crashes>>

ProjectProblem(h) ==
  /\ At(h, "problem")
  /\ problem' = CASE handling[h].e.type \in {"run.started", "approved"} -> "in_progress"
                  [] handling[h].e.type \in {"approval.requested", "run.failed"} -> "waiting"
                  [] handling[h].e.type = "run.completed" -> "resolved"
  /\ Proceed(h, "job")
  /\ UNCHANGED <<jobVars, commit, trace, ledger, hermesVars, workerVars, crashes>>

\* The job is written without a token, whatever its status is by now.
ProjectJob(h) ==
  /\ At(h, "job")
  /\ LET type == handling[h].e.type
     IN  \/ type \in {"run.started", "approved"} /\ job' = WithStatus(job, "running")
         \/ type = "approval.requested" /\ job' = Released(WithStatus(job, "waiting_review"))
         \/ type = "run.completed" /\ job' = Released(WithStatus(job, "completed"))
         \/ type = "run.failed" /\ \E wait \in 0..MaxDelay : FailedIn(wait)
  /\ Answer(h)
  /\ UNCHANGED <<issued, closedBy, recordVars, ledger, hermesVars, workerVars, crashes>>

-----------------------------------------------------------------------------
Work(w) ==
  \/ ClaimReview(w) \/ ClaimDue(w)
  \/ Refuse(w) \/ FinalizeRun(w) \/ LeaveInReview(w) \/ ChooseHermes(w)
  \/ Dispatch(w) \/ DispatchFails(w) \/ MarkDispatched(w) \/ SaveQueuedCommit(w) \/ SaveRoutedProblem(w)
  \/ AssertFinalizeLease(w) \/ SaveFinalCommit(w) \/ SaveFinalProblem(w) \/ Settle(w)
  \/ Fail(w) \/ RequeueCommit(w) \/ HoldProblem(w)

HandlerStep(h) ==
  \/ \E e \in sent : Receive(h, e)
  \/ Append(h) \/ ReadTrace(h) \/ ProjectTrace(h) \/ ProjectCommit(h) \/ ProjectProblem(h) \/ ProjectJob(h)

Next ==
  \/ Submit \/ RetryJob \/ CancelJob \/ Tick
  \/ \E w \in Workers : Work(w) \/ Crash(w)
  \/ HermesActs
  \/ \E h \in Handlers : HandlerStep(h)

Spec == Init /\ [][Next]_vars

\* Time passes and workers are run; nothing is asked of Hermes or operators.
FairSpec == Spec /\ WF_vars(Tick) /\ \A w \in Workers : WF_vars(Work(w))

-----------------------------------------------------------------------------
Labels == {"idle", "claimed", "reviewing", "finalize", "dispatch", "sent", "saveQueued", "saveRouted",
           "saveCommit", "saveProblem", "settle", "fail", "requeue", "hold"}

TypeOK ==
  /\ job \in Job \cup {NoJob} /\ issued \in 0..MaxGrants /\ closedBy \in 0..MaxGrants
  /\ commit \in {None, "queued", "running", "waiting_review", "completed", "failed"}
  /\ problem \in {None, "routed", "in_progress", "waiting", "resolved"}
  /\ trace \in {None, "COMMITTED", "WAITING_FOR_REVIEW", "COMPLETED", "FAILED", "REJECTED"}
  /\ ledger \subseteq Events /\ sent \subseteq Events
  /\ assigned \in Nat
  /\ hermes \in {"idle", "running", "asking", "stopped", "done"}
  /\ at \in [Workers -> Labels] /\ token \in [Workers -> 0..MaxGrants] /\ dead \subseteq Workers
  /\ crashes \in 0..MaxCrashes
  /\ \A h \in Handlers : handling[h].step # "idle" => handling[h].e \in Events

\* A job that was dispatched stays dispatched until Hermes reports about it
\* ("A live job remains dispatched until its assigned Hermes runtime reports
\* run.started"): no worker takes it back, only a handler moves it on, or an
\* operator cancels it.
DispatchedWaitsForHermes ==
  [][Exists /\ job.status = "dispatched" /\ job'.status # "dispatched"
       => job'.status = "cancelled" \/ \E h \in Handlers : At(h, "job")]_vars

\* Whatever the order, Loopgraph never takes work for completed that Hermes
\* did not report as completed.
CompletionIsReported ==
  (commit = "completed" \/ trace = "COMPLETED" \/ (Exists /\ job.status = "completed"))
     => \E e \in ledger : e.type = "run.completed"

\* Workers and handlers keep to the queue's protocol.  (The submission is one
\* step here: the hosted store's, or one that no other overlaps.)
Queue == INSTANCE RouteJobQueue WITH
  Jobs <- {"job"}, HermesJobs <- {"job"}, SimulatedJobs <- {}, ClaimLimit <- 1,
  jobs <- [j \in {"job"} |-> job], issued <- [j \in {"job"} |-> issued],
  closedBy <- [j \in {"job"} |-> closedBy],
  MaxLate <- 0, late <- [j \in {"job"} |-> 0]

ImplementsQueue == Queue!Spec

-----------------------------------------------------------------------------
\* What the documents say and the code does not keep.

\* ROUTE-JOB-WORKER.md: "Duplicate event deliveries are idempotent".  An event
\* the ledger had already does not reopen a completed job.
DuplicatesAreIdempotent ==
  [][\A h \in Handlers :
       /\ At(h, "job") /\ ~handling[h].created
       /\ job.status = "completed"
       => job'.status = "completed" \/ At(h, "job")']_vars
=============================================================================
