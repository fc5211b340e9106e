--------------------------- MODULE RouteSubmission ---------------------------
(***************************************************************************)
(* Decisions about events, and what becomes of them: submitRoutingDecision *)
(* (runtime/routing-store.ts) against workers that run the jobs            *)
(* (runtime/route-job-worker.ts) and outcomes that close the problem       *)
(* (runtime/case-service.ts).                                              *)
(*                                                                         *)
(* All events are about one business problem and all decisions choose one  *)
(* loop, so an event has at most one route commit and one job, whose ids   *)
(* are hashes over event, problem and loop.  Each call to the store is a   *)
(* step; problem and commits are saved whole, from a copy read earlier.    *)
(*                                                                         *)
(* Of leases the model keeps who holds a job: a job is claimed while       *)
(* nobody who is alive holds it.  RouteJobWorker has the leases and the    *)
(* clock, reviews, operators and workers that outlast a lease.             *)
(***************************************************************************)
EXTENDS Naturals, FiniteSets

CONSTANTS
  Events,
  Callers,         \* processes that submit decisions or record outcomes
  Workers,
  None,            \* no record, nobody
  MaxAttempts,     \* maxAttempts of a job
  MaxSubmissions,  \* bound of the model: decisions and outcomes
  MaxCrashes       \* bound of the model: processes that die

\* The records, as far as submissions and workers tell them apart; a routing
\* attempt is its number.
Problems == [status : {"routed", "waiting", "in_progress", "resolved"},
             evidence : SUBSET Events, commits : SUBSET Events]

RouteCommits == [attempt : Nat, status : {"queued", "running", "completed", "failed"}]

RouteJobs ==
  [attempt : Nat, holder : Workers \cup {None}, tries : 0..MaxAttempts,
   status : {"queued", "claimed", "running", "completed", "failed", "dead_letter"}]

ASSUME RouteSubmissionAssumption ==
  /\ MaxAttempts \in Nat \ {0} /\ MaxSubmissions \in Nat /\ MaxCrashes \in Nat
  /\ None \notin Events \cup Workers
  /\ None \notin Problems /\ None \notin RouteCommits /\ None \notin RouteJobs

VARIABLES
  hosted,       \* the hosted store, or the file store
  receipts,     \* events that were durably ingested
  problem,      \* the business problem: status, evidence, routeCommitIds
  commits,      \* route commits, by event: routeAttemptId, status
  jobs,         \* route jobs, by event: routeAttemptId, status, holder, attempts
  ended,        \* events with a stored run trace
  callers, workers,
  attempt,      \* the newest routing attempt
  submissions,
  callerDeaths, workerDeaths,
  overlapped,   \* history: events with two submissions under way at once
  repeated,     \* history: events accepted again when their job was there
  runs          \* history: runs that completed, by event

store == <<hosted, receipts, problem, commits, jobs, ended>>
history == <<overlapped, repeated, runs>>
counters == <<attempt, submissions, callerDeaths, workerDeaths>>
vars == <<store, callers, workers, counters, history>>

Actions == {"route", "append_evidence", "defer"}
InFlight == {"claimed", "running"}

Idle == [at |-> "idle", event |-> None, action |-> None, attempt |-> 0,
         problem |-> None, existing |-> None]
Resting == [at |-> "idle", event |-> None, attempt |-> 0, problem |-> None,
            commit |-> None, result |-> None]

Init ==
  /\ hosted \in BOOLEAN
  /\ receipts = {} /\ problem = None
  /\ commits = [e \in Events |-> None]
  /\ jobs = [e \in Events |-> None]
  /\ ended = {}
  /\ callers = [c \in Callers |-> Idle]
  /\ workers = [w \in Workers |-> Resting]
  /\ attempt = 0 /\ submissions = 0 /\ callerDeaths = 0 /\ workerDeaths = 0
  /\ overlapped = {} /\ repeated = {}
  /\ runs = [e \in Events |-> 0]

-----------------------------------------------------------------------------
\* Submissions.
At(c, label) == callers[c].at = label
Go(c, label) == callers' = [callers EXCEPT ![c].at = label]
Mine(c) == callers[c].event

\* ingestRoutingEvent.  A repeated delivery leaves a receipt of its own, which
\* no decision ever reads.
Ingest(e) ==
  /\ e \notin receipts
  /\ receipts' = receipts \cup {e}
  /\ UNCHANGED <<hosted, problem, commits, jobs, ended, callers, workers, counters, history>>

\* Hermes, or an agent that got no answer, submits a decision about an event.
Submit(c, e, action) ==
  /\ At(c, "idle") /\ e \in receipts
  /\ submissions < MaxSubmissions /\ submissions' = submissions + 1
  /\ callers' = [callers EXCEPT ![c] = [Idle EXCEPT !.at = "check", !.event = e,
                                                    !.action = action]]
  /\ overlapped' = IF \E d \in Callers : Mine(d) = e THEN overlapped \cup {e}
                                                     ELSE overlapped
  /\ UNCHANGED <<store, workers, attempt, callerDeaths, workerDeaths, repeated, runs>>

\* collectSubmissionErrors: an open problem with work committed takes new
\* evidence, not a new route.
Refused(e, action) ==
  CASE action = "append_evidence" -> problem = None
    [] action = "route" -> /\ problem # None
                           /\ problem.status # "resolved"
                           /\ problem.commits # {}
                           /\ e \notin problem.evidence
    [] OTHER -> FALSE

Reject(c) ==
  /\ At(c, "check") /\ Refused(Mine(c), callers[c].action)
  /\ callers' = [callers EXCEPT ![c] = Idle]
  /\ UNCHANGED <<store, workers, counters, history>>

\* An attempt that was accepted has an id of its own.
Accept(c) ==
  /\ At(c, "check") /\ ~Refused(Mine(c), callers[c].action)
  /\ attempt' = attempt + 1
  /\ callers' = [callers EXCEPT ![c].at = "readProblem", ![c].attempt = attempt + 1]
  /\ repeated' = IF callers[c].action = "route" /\ jobs[Mine(c)] # None
                 THEN repeated \cup {Mine(c)} ELSE repeated
  /\ UNCHANGED <<store, workers, submissions, callerDeaths, workerDeaths, overlapped, runs>>

\* upsertProblemForDecision: read, then save.
ReadProblem(c) ==
  /\ At(c, "readProblem")
  /\ callers' = [callers EXCEPT ![c].at = "saveProblem", ![c].problem = problem]
  /\ UNCHANGED <<store, workers, counters, history>>

Evidence(p) == IF p = None THEN {} ELSE p.evidence
Committed(p) == IF p = None THEN {} ELSE p.commits

StatusFor(action) == IF action = "route" THEN "routed" ELSE "waiting"

\* Mutant of Upserted: the problem names its commit before it is saved.
UpsertedWithCommit(p, e, action) ==
  [status |-> IF action = "append_evidence" THEN p.status ELSE StatusFor(action),
   evidence |-> Evidence(p) \cup {e},
   commits |-> IF action = "route" THEN Committed(p) \cup {e} ELSE Committed(p)]

\* An append leaves the status alone.
Upserted(p, e, action) ==
  [status |-> IF action = "append_evidence" THEN p.status ELSE StatusFor(action),
   evidence |-> Evidence(p) \cup {e}, commits |-> Committed(p)]

SaveProblem(c) ==
  /\ At(c, "saveProblem")
  /\ LET upserted == Upserted(callers[c].problem, Mine(c), callers[c].action) IN
     /\ problem' = upserted
     /\ callers' = [callers EXCEPT ![c] =
          IF callers[c].action = "route"
          THEN [@ EXCEPT !.at = "listCommits", !.problem = upserted] ELSE Idle]
  /\ UNCHANGED <<hosted, receipts, commits, jobs, ended, workers, counters, history>>

ListCommits(c) ==
  /\ At(c, "listCommits")
  /\ callers' = [callers EXCEPT ![c].at = "saveCommit", ![c].existing = commits[Mine(c)]]
  /\ UNCHANGED <<store, workers, counters, history>>

\* Mutant of SaveCommit: an existing commit keeps its attempt.
SaveCommitAsMade(c) ==
  /\ At(c, "saveCommit")
  /\ LET existing == callers[c].existing IN
     commits' = [commits EXCEPT ![Mine(c)] =
       IF existing = None THEN [attempt |-> callers[c].attempt, status |-> "queued"]
                          ELSE existing]
  /\ callers' = [callers EXCEPT ![c].at = "getJob", ![c].existing = None]
  /\ UNCHANGED <<hosted, receipts, problem, jobs, ended, workers, counters, history>>

\* The commit names the attempt of this submission, whoever made it first.
SaveCommit(c) ==
  /\ At(c, "saveCommit")
  /\ LET existing == callers[c].existing IN
     commits' = [commits EXCEPT ![Mine(c)] =
       [attempt |-> callers[c].attempt,
        status |-> IF existing = None THEN "queued" ELSE existing.status]]
  /\ callers' = [callers EXCEPT ![c].at = "getJob", ![c].existing = None]
  /\ UNCHANGED <<hosted, receipts, problem, jobs, ended, workers, counters, history>>

\* Mutant of GetJob: the job is saved whether it is there or not.
SaveAnyway(c) ==
  /\ At(c, "getJob")
  /\ Go(c, "saveJob")
  /\ UNCHANGED <<store, workers, counters, history>>

\* upsertRouteJobForCommit: a job that is there is left as it is.
GetJob(c) ==
  /\ At(c, "getJob")
  /\ Go(c, IF jobs[Mine(c)] = None THEN "saveJob" ELSE "finish")
  /\ UNCHANGED <<store, workers, counters, history>>

QueuedJob(c) ==
  [attempt |-> callers[c].attempt, status |-> "queued", holder |-> None, tries |-> 0]

\* saveRouteJob: the file store writes over whatever is there by now, the
\* hosted store inserts or does nothing.
SaveJob(c) ==
  /\ At(c, "saveJob")
  /\ jobs' = IF hosted /\ jobs[Mine(c)] # None THEN jobs
             ELSE [jobs EXCEPT ![Mine(c)] = QueuedJob(c)]
  /\ Go(c, "finish")
  /\ UNCHANGED <<hosted, receipts, problem, commits, ended, workers, counters, history>>

\* The problem learns of its commit, from the copy saved above.
FinishRoute(c) ==
  /\ At(c, "finish")
  /\ problem' = [callers[c].problem EXCEPT !.status = "routed",
                                           !.commits = @ \cup {Mine(c)}]
  /\ callers' = [callers EXCEPT ![c] = Idle]
  /\ UNCHANGED <<hosted, receipts, commits, jobs, ended, workers, counters, history>>

\* resolveProblemForOutcome, for a run that is over: read, then save.
ReadOutcome(c) ==
  /\ submissions < MaxSubmissions /\ submissions' = submissions + 1
  /\ At(c, "idle") /\ problem # None
  /\ ended # {}
  /\ callers' = [callers EXCEPT ![c] = [Idle EXCEPT !.at = "saveOutcome",
                                                    !.problem = problem]]
  /\ UNCHANGED <<store, workers, attempt, callerDeaths, workerDeaths, history>>

SaveOutcome(c) ==
  /\ At(c, "saveOutcome")
  /\ problem' = [callers[c].problem EXCEPT !.status = "resolved"]
  /\ callers' = [callers EXCEPT ![c] = Idle]
  /\ UNCHANGED <<hosted, receipts, commits, jobs, ended, workers, counters, history>>

CallerDies(c) ==
  /\ ~At(c, "idle") /\ callerDeaths + workerDeaths < MaxCrashes
  /\ callerDeaths' = callerDeaths + 1
  /\ callers' = [callers EXCEPT ![c] = Idle]
  /\ UNCHANGED <<store, workers, attempt, submissions, workerDeaths, history>>

-----------------------------------------------------------------------------
\* Workers.
Does(w, label) == workers[w].at = label
Turn(w, label) == workers' = [workers EXCEPT ![w].at = label]
Job(w) == jobs[workers[w].event]
Holds(w) == Job(w).holder = w
Attended(e) == \E w \in Workers : workers[w].event = e /\ jobs[e].holder = w

\* Mutant of Claim: one attempt too many.
ClaimOnceMore(w, e) ==
  /\ Does(w, "idle")
  /\ jobs[e] # None /\ jobs[e].tries <= MaxAttempts
  /\ jobs[e].status \in {"queued", "failed"} \/ (jobs[e].status \in InFlight /\ ~Attended(e))
  /\ jobs' = [jobs EXCEPT ![e].status = "claimed", ![e].holder = w, ![e].tries = @ + 1]
  /\ workers' = [workers EXCEPT ![w] = [Resting EXCEPT !.at = "take", !.event = e,
                                                       !.attempt = jobs[e].attempt]]
  /\ UNCHANGED <<hosted, receipts, problem, commits, ended, callers, counters, history>>

\* claimDueRouteJobs; the lease of a worker that died runs out.
Claim(w, e) ==
  /\ Does(w, "idle")
  /\ jobs[e] # None /\ jobs[e].tries < MaxAttempts
  /\ jobs[e].status \in {"queued", "failed"} \/ (jobs[e].status \in InFlight /\ ~Attended(e))
  /\ jobs' = [jobs EXCEPT ![e].status = "claimed", ![e].holder = w, ![e].tries = @ + 1]
  /\ workers' = [workers EXCEPT ![w] = [Resting EXCEPT !.at = "take", !.event = e,
                                                       !.attempt = jobs[e].attempt]]
  /\ UNCHANGED <<hosted, receipts, problem, commits, ended, callers, counters, history>>

\* validateRouteJobContext: receipt and problem first, then the commit.
Take(w) ==
  /\ Does(w, "take")
  /\ workers' = [workers EXCEPT
       ![w].at = IF workers[w].event \in receipts /\ problem # None THEN "bind" ELSE "fail",
       ![w].problem = problem]
  /\ UNCHANGED <<store, callers, counters, history>>

\* assertRouteJobBindings compares the job as it was claimed; a commit that is
\* completed is not run again.
Bound(w) ==
  LET commit == commits[workers[w].event] IN
  /\ commit # None /\ commit.status # "completed"
  /\ commit.attempt = workers[w].attempt

Bind(w) ==
  /\ Does(w, "bind")
  /\ workers' = [workers EXCEPT ![w].commit = commits[workers[w].event],
                                ![w].at = IF Bound(w) THEN "start" ELSE "fail"]
  /\ UNCHANGED <<store, callers, counters, history>>

Start(w) ==
  /\ Does(w, "start")
  /\ IF Holds(w)
     THEN /\ jobs' = [jobs EXCEPT ![workers[w].event].status = "running"]
          /\ Turn(w, "saveRunningCommit")
     ELSE UNCHANGED jobs /\ Turn(w, "fail")
  /\ UNCHANGED <<hosted, receipts, problem, commits, ended, callers, counters, history>>

SaveRunningCommit(w) ==
  /\ Does(w, "saveRunningCommit")
  /\ commits' = [commits EXCEPT ![workers[w].event] =
                   [workers[w].commit EXCEPT !.status = "running"]]
  /\ Turn(w, "saveRunningProblem")
  /\ UNCHANGED <<hosted, receipts, problem, jobs, ended, callers, counters, history>>

SaveRunningProblem(w) ==
  /\ Does(w, "saveRunningProblem")
  /\ problem' = [workers[w].problem EXCEPT !.status = "in_progress"]
  /\ Turn(w, "run")
  /\ UNCHANGED <<hosted, receipts, commits, jobs, ended, callers, counters, history>>

\* The run ends and its trace is stored, or it throws.
Run(w) ==
  /\ Does(w, "run")
  /\ \/ \E result \in {"COMPLETED", "FAILED"} :
          /\ workers' = [workers EXCEPT ![w].at = "finalize", ![w].result = result]
          /\ ended' = ended \cup {workers[w].event}
          /\ runs' = [runs EXCEPT ![workers[w].event] =
                        IF result = "COMPLETED" THEN @ + 1 ELSE @]
     \/ Turn(w, "fail") /\ UNCHANGED <<ended, runs>>
  /\ UNCHANGED <<hosted, receipts, problem, commits, jobs, callers, counters, overlapped,
                 repeated>>

\* assertRouteJobFinalizeLease; what it throws ends the batch.
Finalize(w) ==
  /\ Does(w, "finalize")
  /\ IF Holds(w) THEN Turn(w, "saveFinalCommit")
                 ELSE workers' = [workers EXCEPT ![w] = Resting]
  /\ UNCHANGED <<store, callers, counters, history>>

Succeeded(w) == workers[w].result = "COMPLETED"

SaveFinalCommit(w) ==
  /\ Does(w, "saveFinalCommit")
  /\ commits' = [commits EXCEPT ![workers[w].event] =
       [workers[w].commit EXCEPT !.status = IF Succeeded(w) THEN "completed" ELSE "failed"]]
  /\ workers' = [workers EXCEPT ![w].at = "saveFinalProblem", ![w].commit = None]
  /\ UNCHANGED <<hosted, receipts, problem, jobs, ended, callers, counters, history>>

\* A simulated run leaves the problem routed, an executed one resolves it.
SaveFinalProblem(w) ==
  /\ Does(w, "saveFinalProblem")
  /\ \E status \in IF Succeeded(w) THEN {"routed", "resolved"} ELSE {"waiting"} :
       problem' = [workers[w].problem EXCEPT !.status = status]
  /\ workers' = [workers EXCEPT ![w].at = "settle", ![w].problem = None]
  /\ UNCHANGED <<hosted, receipts, commits, jobs, ended, callers, counters, history>>

FailedJob(job) ==
  [job EXCEPT !.status = IF job.tries < MaxAttempts THEN "failed" ELSE "dead_letter",
              !.holder = None]

Settle(w) ==
  /\ Does(w, "settle")
  /\ jobs' = IF ~Holds(w) THEN jobs
             ELSE [jobs EXCEPT ![workers[w].event] =
                     IF Succeeded(w) THEN [@ EXCEPT !.status = "completed", !.holder = None]
                     ELSE FailedJob(@)]
  /\ workers' = [workers EXCEPT ![w] = Resting]
  /\ UNCHANGED <<hosted, receipts, problem, commits, ended, callers, counters, history>>

\* The catch block: the job, if it is still the worker's, then commit and problem.
Fail(w) ==
  /\ Does(w, "fail")
  /\ IF Holds(w)
     THEN /\ jobs' = [jobs EXCEPT ![workers[w].event] = FailedJob(@)]
          /\ Turn(w, "requeue")
     ELSE UNCHANGED jobs /\ workers' = [workers EXCEPT ![w] = Resting]
  /\ UNCHANGED <<hosted, receipts, problem, commits, ended, callers, counters, history>>

Requeue(w) ==
  LET e == workers[w].event IN
  /\ Does(w, "requeue")
  /\ commits' = IF commits[e] = None THEN commits
                ELSE [commits EXCEPT ![e].status =
                        IF jobs[e].status = "dead_letter" THEN "failed" ELSE "queued"]
  /\ Turn(w, "readHeld")
  /\ UNCHANGED <<hosted, receipts, problem, jobs, ended, callers, counters, history>>

ReadHeld(w) ==
  /\ Does(w, "readHeld")
  /\ workers' = [workers EXCEPT ![w].at = "hold", ![w].problem = problem]
  /\ UNCHANGED <<store, callers, counters, history>>

Hold(w) ==
  /\ Does(w, "hold")
  /\ problem' = IF workers[w].problem = None THEN problem
                ELSE [workers[w].problem EXCEPT !.status = "waiting"]
  /\ workers' = [workers EXCEPT ![w] = Resting]
  /\ UNCHANGED <<hosted, receipts, commits, jobs, ended, callers, counters, history>>

WorkerDies(w) ==
  /\ ~Does(w, "idle") /\ callerDeaths + workerDeaths < MaxCrashes
  /\ workerDeaths' = workerDeaths + 1
  /\ workers' = [workers EXCEPT ![w] = Resting]
  /\ UNCHANGED <<store, callers, attempt, submissions, callerDeaths, history>>

-----------------------------------------------------------------------------
CallerStep(c) ==
  \/ Reject(c) \/ Accept(c) \/ ReadProblem(c) \/ SaveProblem(c) \/ ListCommits(c)
  \/ SaveCommit(c) \/ GetJob(c) \/ SaveJob(c) \/ FinishRoute(c) \/ SaveOutcome(c)

WorkerStep(w) ==
  \/ Take(w) \/ Bind(w) \/ Start(w) \/ SaveRunningCommit(w) \/ SaveRunningProblem(w)
  \/ Run(w) \/ Finalize(w) \/ SaveFinalCommit(w) \/ SaveFinalProblem(w) \/ Settle(w)
  \/ Fail(w) \/ Requeue(w) \/ ReadHeld(w) \/ Hold(w)

Next ==
  \/ \E e \in Events : Ingest(e)
  \/ \E c \in Callers :
       \/ CallerStep(c) \/ ReadOutcome(c) \/ CallerDies(c)
       \/ \E e \in Events, action \in Actions : Submit(c, e, action)
  \/ \E w \in Workers :
       WorkerStep(w) \/ WorkerDies(w) \/ \E e \in Events : Claim(w, e)

Spec == Init /\ [][Next]_vars

-----------------------------------------------------------------------------
TypeOK ==
  /\ hosted \in BOOLEAN
  /\ receipts \subseteq Events /\ ended \subseteq Events
  /\ problem \in Problems \cup {None}
  /\ problem # None => problem.evidence \subseteq receipts
  /\ commits \in [Events -> RouteCommits \cup {None}]
  /\ jobs \in [Events -> RouteJobs \cup {None}]
  /\ \A e \in Events :
       /\ commits[e] # None => commits[e].attempt \in 1..attempt
       /\ jobs[e] # None => jobs[e].attempt \in 1..attempt

\* What a record refers to is there, whoever died in between: the commit and
\* the problem of a job, with the event's receipt, and each commit that the
\* problem names.
RecordsAreBacked ==
  /\ \A e \in Events : jobs[e] # None =>
       e \in receipts /\ problem # None /\ commits[e] # None
  /\ problem # None => \A e \in problem.commits : commits[e] # None

\* Job and commit name the same routing attempt, which the worker insists on,
\* unless the decision was accepted again when its job was there already, or
\* two submissions of it overlapped.  A submission that died half-way and was
\* repeated leaves them in agreement.
BindingsHold ==
  \A e \in Events \ (repeated \cup overlapped) :
    jobs[e] # None => commits[e].attempt = jobs[e].attempt

\* Events whose submissions can write over a job they did not see.
Endangered == IF hosted THEN {} ELSE overlapped

\* No submission undoes a claim: the attempts of a job that are used up stay
\* used up, and a job that is finished stays finished.  In the file store this
\* takes submissions of an event that do not overlap.
Finished(e) == jobs[e] # None /\ jobs[e].status \in {"completed", "dead_letter"}

ClaimsStand ==
  [][\A e \in Events : jobs[e] # None /\ e \notin Endangered =>
       jobs'[e].tries >= jobs[e].tries /\ (Finished(e) => jobs'[e] = jobs[e])]_vars

\* However often a decision is submitted, the event's loop completes at most
\* once, unless a worker dies between run and record, or submissions overlap
\* in the file store.
RunsOnce ==
  workerDeaths = 0 => \A e \in Events \ Endangered : runs[e] <= 1
=============================================================================
