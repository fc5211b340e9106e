# Loopgraph in TLA+

Loopgraph takes business events, decides which *loop* (an executable routine) an
event is for, and runs that loop: in its own process, or in an external agent
runtime called Hermes. Between the decision and the outcome stands a durable
queue of *route jobs*, worked by any number of processes, with leases, retries,
human reviews and asynchronous callbacks. That queue, everybody who writes to it
and the store under it are the core of this project. Around it stand the other
three protocols of the system: decisions and resubmission, provider actions that
must not be carried out twice, and the installation of Apps over stores that share
no transaction. The rest of the system is listed here with the reason it is left
out.

Paths below are relative to `packages/loopgraph/src/` unless they start with
`docs/`, `lib/` or `supabase/`.

## 1. The system

### 1.1 Route-job queue — `runtime/routing-store.ts`, `core/routing.ts`

*State.* One record per accepted route: status, attempt count and maximum,
`nextRunAt`, an optional lease (claimant, token, expiry), the id of the run.
Beside it, in the same store, receipts, decisions, route commits and business
problems.

*Operations.* `upsertRouteJobForCommit`, `claimDueRouteJobs`,
`claimWaitingReviewRouteJobs`, `renewRouteJobLease`, `markRouteJobRunning`,
`-Dispatched`, `-WaitingReview`, `-Completed`, `failRouteJob`, `retryRouteJob`,
`cancelRouteJob`, and `updateRouteJobsAfterSimulation` in
`runtime/routing-tools.ts`.

*Hard.* A worker may be slower than its lease; the token is the only thing that
keeps it from writing over its successor. Some writers name no token at all:
Hermes callbacks and the simulation tool. The enqueue of the file store looks for
the job and saves it in two calls, outside of the lock.

*Correct if* a job is held under the newest token only; it changes hands only
when no active lease is on it; open work can always be claimed; closed work stays
closed, unless a submission that overlapped the first saves the job once more.

### 1.2 Lock file — `FileRoutingStore.withRouteJobsLock`

*State.* One file, created with `wx`, removed with `unlink`. It makes each
operation on the jobs of a local project atomic.

*Hard.* The file has no owner. A process that dies leaves it behind; whoever
finds it older than 30 seconds removes whatever file is there by then.

*Correct if* operations never overlap, every caller gets an answer, and a dead
caller does not close the queue for ever.

### 1.3 Route-job worker — `runtime/route-job-worker.ts`

*State.* A batch: one clock reading, the claimed jobs with their tokens, the job
in hand. Nothing of it is stored.

*Operations.* `runRouteJobWorker` reconciles jobs in review, claims due jobs, and
for each one validates, starts, runs under a heartbeat, and finalizes: commit,
problem, job, in three separate writes. Its catch block fails the job and then
writes commit and problem.

*Hard.* Everything between two awaits is open to other workers, reviewers and
operators; only the writes to the job are fenced. A heartbeat that fails does not
stop the executor, which runs on while another worker claims the job. All jobs of
a decision save one and the same problem. `return promise` without `await` takes
finalization and Hermes dispatch out of the catch block.

*Correct if* a worker writes to a job only what the queue allows it, of all the
workers that think they have a job one at most can still write it, the three records
agree once the job is let go by a worker nobody overtook, and accepted work ends.

### 1.4 Hermes dispatch and events — `runtime/hermes-execution-service.ts`, `runtime/hermes-operations-store.ts`

*State.* A ledger of execution events, the run trace, agents and their health.

*Operations.* Dispatch an assignment; ingest an event: check its sequence number,
append it, project it on trace, commit, problem and job.

*Hard.* Events arrive twice, late, in any order, side by side, and after the job
was cancelled or claimed again. The projection names no token.

*Correct if* nothing counts as completed that Hermes did not report, a dispatched
job is left to Hermes, and a repeated event changes nothing.

### 1.5 Submission — `runtime/routing-store.ts`, `runtime/case-service.ts`

*State.* Receipts of events, the business problem with its evidence and the ids of
its route commits, a route commit and a job per accepted decision, each with the
id of the routing attempt it comes from.

*Operations.* `ingestRoutingEvent`, `submitRoutingDecision` (problem, commit, job,
evaluation, one save after the other), the worker's `validateRouteJobContext` and
its saves of commit and problem, `resolveProblemForOutcome`.

*Hard.* A decision may be submitted again, by somebody else, at any time; records
are saved whole, from copies read earlier; the enqueue reads the job and saves it,
outside of the lock.

*Correct if* no record names one that is not there, a claim finds bindings that
agree, no submission undoes a claim, and an event's loop completes once.

### 1.6 Hosted store — `lib/db/adapters/supabase-routing-store.ts`, `supabase/migrations/`

*State.* Rows with revisions. *Operations.* `updateRouteJobAtomically`: read the
row, compute, compare-and-swap, at most eight times; claims and the enqueue are one
SQL function each. *Hard.* Everything between read and swap, and an answer that is
lost after the swap. *Correct if* it provides what the file store's lock does.

### 1.7 Connector broker — `runtime/connector-broker.ts`, `lib/connector-broker/`

*State.* A prepared action, approvals, idempotency claims, durable responses.
*Operations.* `commitAction`, approval, revocation, expiry, disabling of a
connector. *Hard.* The provider is called between two writes of the store;
requests are delivered again; three writes run side by side and a catch block
gives the action back while some of them are on their way. *Correct if* the
provider acts once, and never without an approval of its own.

### 1.8 App operation actions — `runtime/app-operation-*.ts`, `app-action-reconciliation-worker.ts`

*State.* An append-only ledger of events of one action. *Operations.* Approve,
commit, reconcile, revoke. *Hard.* Everybody reads the events once, decides, talks
to the broker and appends; the transport gives up after 15 seconds while the broker
goes on. The ledger is a table whose append checks the broker's receipt, or a file
whose append checks none. *Correct if* the ledger claims nothing the provider did not
do, and an interrupted commit is settled when the reconciliation gets to it and finds
nothing to refuse.

### 1.9 App installation — `runtime/app-installation-service.ts`, `app-installation-store.ts`, `loop-spec-store.ts`

*State.* The installation registry with a journal of operations, the LoopSpec
registry with receipts, the lists of consumers. *Operations.* Install, configure,
repair, update, rollback, uninstall, test, approve, activate, pause, resume.
*Hard.* A crash between two stores; an exact retry by the same or another caller;
other Apps that change the workspace, or own some of the App's assets, too; evidence
of an approval that goes missing. *Correct if* the stores agree whenever no
operation is unfinished, and an unfinished one can be taken up.

### 1.10 The rest

| Part | State | What is hard | Correct if |
|---|---|---|---|
| Review (`review-service.ts`) | the decision on a trace, case, commit and job | reviewer races worker and operator; several records written in turn | an approved run is committed once and is the one reviewed |
| Loop controller (`loop-controller*.ts`) | leased runs and triggers | the same protocol as the queue, with a debounce | a trigger is never lost |
| Hermes design dispatch and callbacks (`hermes-design-*.ts`) | two leased inboxes | acknowledged callbacks, dead letters | an accepted callback is applied once |
| Detector scheduler (`provider-detector-scheduler.ts`) | windows and checkpoints | fencing, retries of an exact window | no window is skipped |
| Device authorization (`cli-device-auth.ts`) | codes, refresh families | replay of a rotated token | a code is redeemed once |
| Measurement and outcome services | leased measurement jobs | as the queue | as the queue |
| Semantic graph transactions | revisions of a graph | concurrent transactions | a commit is based on the revision it read |
| Loop runner, executor, specs, design, discovery | a trace, a LoopSpec | sequential | out of scope but for a run's outcome |
| Supervisor, Studio, API, CLI, packs, scripts | none of their own | — | not modelled |

### 1.11 How the modelled parts interact

```
 submit ---> route job, commit, problem
                 |  claim (token, lease)              operator: retry, cancel
                 v                                         |
             worker --- runs the loop --> trace <-- review: approve, reject
                 |                          ^
                 | dispatch                 | project (no token)
                 v                          |
              Hermes ---- events ----> handler ---> ledger
```

Everything passes through the store: shared records, one call at a time. A call
on jobs is atomic (lock file, or compare-and-swap); two calls are not.

```
 App caller --- commit, approve, revoke ---> ledger of events
      |  request (again after a timeout)        ^
      v                                         | receipt
   broker --- provider acts ---> response --- reconciliation (every five minutes)

 lifecycle caller ---> journal entry ---> LoopSpecs, consumers ---> registry
      (each arrow may fail, or be the last thing a process does)
```

## 2. The modules

| Module | Models |
|---|---|
| `RouteJob` | a job record and what each operation does to it, as pure operators |
| `FencedWork` | what a queue of leased work promises: abstract, without leases, clocks and tokens |
| `RouteJobQueue` | 1.1: all operations, any caller; implements `FencedWork` |
| `RouteJobWorker` | 1.3: workers, reviewers, operators, clock; implements `RouteJobQueue` |
| `HermesRun` | 1.4: workers, handlers, Hermes as the environment; implements `RouteJobQueue` |
| `QueueFileLock` | 1.2: the callers of the lock, one file-system call a step |
| `HostedRouteStore` | 1.6: calls over a network, compare-and-swap; extends and implements `RouteJobQueue` |
| `RouteSubmission` | 1.5: submissions, workers and outcomes, one store call a step |
| `ConnectorBroker` | 1.7: attempts to commit one prepared action |
| `AppOperationAction` | 1.8: the App's side of that action, composed with the broker (`EXTENDS ConnectorBroker`) |
| `AppLifecycle` | 1.9: the life of one App over registry, LoopSpecs and consumers |
| `RouteJobProofs`, `RouteJobQueueProofs`, `RouteJobWorkerProofs`, `QueueFileLockProofs`, `HermesRunProofs`, `RouteSubmissionProofs`, `AppOperationActionProofs`, `AppLifecycleProofs` | the theorems (of the hosted store in `RouteJobQueueProofs`, of the broker in `AppOperationActionProofs`, too) |
| `MC...` | instances for TLC |

### 2.1 Time, tokens, data

- A timestamp is kept as the time that is left: `ttl` until the lease expires,
  `wait` until `nextRunAt`. `Tick` brings all of them one nearer. A worker reads
  the clock once per batch, so in `RouteJobWorker` each worker has an `age`, how
  old its reading is; leases and delays it computes are shorter by that much.
- A lease token is a hash over job, claimant, instant and attempt. It is compared
  only with tokens of the same job, so a token is the number of the grant; 0 is
  no lease in a record, and no token in a call.
- `FAILED` stands for `FAILED_VERIFICATION` and `BLOCKED_BY_POLICY`, which are
  treated alike. Ids, hashes and bindings are left out; that the validation of a
  context may refuse a job is kept (`TakeDue`, `Refuse`).
- `issued`, `closedBy`, `runs`, `owner` (of the lock file) are histories: the code
  has no such variable, no action tests them but to bound the model.

### 2.2 `RouteJobQueue`

`jobs[j]` is the record or `NoJob`. One action per operation of 1.1. `Fenced` is
the token check of `updateRouteJob`. Nothing is assumed of the callers: each token
ever granted may turn up at any time in any fenced write, which is what a stalled
worker amounts to. `Enqueue` is the first save of a job. A submission that has looked
for the job and found none leaves no trace until it saves, so `Enqueue` guesses how
many have done so (`late`, at most `MaxLate`), and `EnqueueLate` is the save of one of
these, at any later time and over whatever the job has become. Its save is not locked:
where it falls between the read and the write of an update, that update undoes it,
which is the second disjunct. The hosted store's insert leaves a job that is there
alone (`MaxLate = 0`). A claim takes *some* of the jobs that are due, and its lease may
have any time left: its clock reading is older than the claim. `HermesJobs` are
open to the unfenced `HermesStatus` and `HermesFail`, `SimulatedJobs` to
`SimulateCommit`; the remaining `FencedJobs` carry the stronger properties.

### 2.3 `RouteJobWorker`

`pc[w]` walks through the calls of a worker in the order of the code:

```
idle -StartBatch-> reviewing -TakeReview-> finalize ...        (each reviewed job)
     -ClaimDueJobs-> working -TakeDue-> start | finalize | fail (each due job)
start -> saveRunning -> saveInProgress -> run -> renew -> finalize
finalize -> saveCommit -> saveProblem -> settle -> next job     (not in the catch)
fail -> requeue -> hold -> next job                             (the catch block)
```

An error outside of the catch block ends the batch with its jobs still leased,
which is what the death of the process does; `Crash` is both. The other ways to get
there are the lost lease in `AssertFinalizeLease` and `Settle`, and `RefuseReview`: a
job in review whose LoopSpec or bindings no longer validate (`broken`, changed by
`ContextChanges`) ends the batch, and whatever else it had claimed waits for its lease
to run out. `HeartbeatFailed` is the renewal that failed during a run and is noticed
after it; nothing bounds how long a worker takes for anything. `Approve` and `Reject`
are what a review does to the trace, with the checks it makes.

A business problem belongs to a decision: `ProblemOf` maps jobs to problems, all jobs
of one decision save the same one, and `SaveProblemOf` is a submission that saves it
again. The history `author` is the job on whose behalf a worker saved it last; what a
problem says of a job is meant for as long as it is that one (`SpeaksOf`). Two more
histories name the cases in which the records of a job may disagree: `overtaken`, jobs
that were claimed while a worker was between two of its writes about them, and `died`,
jobs at which a worker died there.

### 2.4 `HermesRun`

One job. `at[w]` is the worker's next call, `handling[h]` a handler's, with the
event it handles. A delivery is `Receive`, which leaves the event in `sent`, so
that it may come again, later or never. Then `Append`, `ReadTrace`, and one
projection per record. `HermesActs` is external: Hermes starts a run per accepted
assignment, asks for approvals, ends, and numbers its events; with
`ReuseSequence` it may use a number twice. `DispatchFails` leaves the worker the
way the unawaited promise does. What the code checks of an event beyond its number
(signature, agent, bindings) is taken to be in order.

### 2.5 `QueueFileLock`

`open`, `check`, `break`, `wait`, `operate`, `release`: the calls of
`withRouteJobsLock`. `Release` removes whatever file is there, as `unlink` does.
`Prompt` says that an operation takes less than the threshold of 30 seconds.

### 2.6 `HostedRouteStore`

The variables of `RouteJobQueue` are the rows. `calls[c]` is a call under way:
`read`, then `swap`, then `done` with an answer. `Read` computes the new record from
the row it sees; `Swap` writes it if the row has not been written since (`fresh`
stands for the equality of revisions) and the token still matches; `Conflict` goes
back to `read` or gives up. `RequestFails` and `AnswerLost` are the network. A new
record holds instants, so `StoreTick` ages it like the row. Claims and the insert
are one SQL function each, hence one step. `writes` is a history: how often the
call has written.

### 2.7 `RouteSubmission`

All events are about one problem and choose one loop, so an event has at most one
commit and one job. `callers[c]` walks through `submitRoutingDecision` in its order:

```
Submit -Reject|Accept-> ReadProblem -> SaveProblem -> ListCommits -> SaveCommit
       -> GetJob -> SaveJob -> FinishRoute          (ReadOutcome -> SaveOutcome)
```

with the copies it holds of problem and commits. Workers go through claim, binding
check, the saves of commit and problem, the run and finalization, or the catch
block. `hosted` chooses the store: the file store's enqueue saves the job it did
not find, the hosted one's inserts it if it is not there. Of leases the module keeps
who holds a job, so a worker does not outlast its lease here; `RouteJobWorker` and
`HostedRouteStore` have the workers that do.

### 2.8 `ConnectorBroker`

`attempts[b]` is one delivery of one request, through the calls of `commitAction`:
`verify` the approval, `lookup` the response of the idempotency key, `claim` the
action, `reserve` the key, call the provider, then three writes that run side by
side (`pending`), and the answer. `WriteFails` sends the attempt into the catch
block while other writes are still to land (`Land`, `Undo`, `Refuse`). `acted` is a
history: the attempts in which the provider carried the action out. Revocation,
expiry, lapsed approvals, a disabled connector and `AttemptDies` may come at any
time.

### 2.9 `AppOperationAction`

The broker's attempts are deliveries of the App's requests: `Send` starts one,
`Redeliver` another, `Return` takes an answer over, `TimesOut` gives up on it. `Hosted`
chooses the ledger: `Backed`, that the answer is the broker's durable receipt, is a
check of the hosted RPC only, and the file ledger takes what the caller was told. The
ledger's events are kept as what the code derives from them: which requests are
recorded, their outcomes, approvals with their order relative to failures (`voided`),
the revocation. An approver and a revoker take their own steps against broker and
ledger. `StartReconcile` and `Reconcile` read the events and ask the broker for a
durable receipt; `ReconcileRefused` stands for everything that makes a reconciliation
throw: a job, problem, Hermes assignment or environment that no longer matches, a
broker that cannot be reached. `ready` says that the worker, which takes the 25
oldest candidates, has come to this action and that none of the comparisons fails;
`ReadyChanges` may turn it on and off at any time.

### 2.10 `AppLifecycle`

`inst`, `journal`, `approvals` are the installation registry, `own` the App's
LoopSpecs, `consumer` the lists. A caller prepares a journal entry (`Prepare`),
enters the exclusive update under a lease (`Enter`), reads and writes the LoopSpecs
(`ReadGraph`, `WriteGraph`, `Verify`), names or removes the consumer (`Consume`) and
commits the registry (`CommitRegistry`). `StoreFails`, `Crash` and `Outlast`
(a lease that ends under a slow caller) may come between any two; `Retry` is the same
request again, by anybody.
`ForeignCommit` is another App that writes to the shared LoopSpec registry.
`Operation` keeps where an entry starts and where it leads; `SourceHolds` is the
comparison that decides whether it can still be taken up.

Two things that are compared change without the App's doing. `sharers` are the Apps
that own assets of this one, too: `ForeignOwnership` is their install or uninstall.
Repair (with overlay), update, rollback and uninstall carry a digest of this ownership
in their key (`BindsOwnership`) and compare it before and under the lease; the others
do not. `evidence` is what the activation gate finds; an approval records what it found
then, and an activation, also one that is taken up again, asks for at least that
(`Supported`). `EvidenceChanges` takes it away or brings it back. That the gate also
names the installation's time stamp is in `Usable` (`at`).

An installation carries the instant of its last change (`at`, `updatedAt` in the code),
because that is what tells an installation from an earlier one that looks like it
(`assertLifecyclePreparationSource` compares whole records). Instants are compared for
equality alone, so the number of the request stands for it: two requests are taken never
to have the same time stamp. An operation is finished once, by whichever call gets
there; a rollout takes its time stamp from that call, and the instant of the operation
stands for it. `RegistriesAgree` and `Recoverable` leave out what happens after a lease
was outlasted by a caller that then writes the loops or the consumer lists (`late`),
and after a finished install is applied again to an App that has been uninstalled since
(`reapplied`).

## 3. What is checked

Passing runs:

| Run | Instance | Properties |
|---|---|---|
| `queue` | 2 jobs (one fenced, one open to Hermes and the simulation), 2 attempts, 3 grants each, 1 overlapping submission each, lease and longest delay of 2 ticks | `LiveTokenIsNewest`, `OwnedWhileInFlight`, `OpenWorkHasAttempts`, `NoStealing`, `ClosedIsFinal`, refinement `ImplementsFencedWork` |
| `worker_stalls` | 1 job, 2 attempts, 2 workers, 5 grants, lease and longest delay of 2 ticks | `RunsWithinAttempts`, `OneWriter`, `CompletedIsRecorded`, refinement `ImplementsQueue` |
| `worker_batch` | 2 jobs of one problem, 2 workers, 1 attempt, 2 grants each, lease of 1 tick | `RecordsAgree` |
| `worker_live` | 1 job, 2 workers, 1 crash, 2 attempts, 4 grants, lease of 1 tick, fairness | `AcceptedIsSettled`, `ApprovedIsReconciled` |
| `hermes` | 2 workers, 1 handler, 3 events, 1 crash, 2 grants | `CompletionIsReported`, `DispatchedWaitsForHermes`, refinement `ImplementsQueue` |
| `queue_lock` | 3 callers, 1 death, threshold and patience of 2 ticks, fairness | `Serialized`, `NeverBroken`, `CallersAreAnswered`, `QueueReopens` |
| `hosted_store` | 1 job, 2 calls at a time, 2 tries, 1 lost request or answer, 2 attempts, 2 grants, fairness | `AnswersAreTrue`, `CallsEnd`, refinement `ImplementsQueue` |
| `submission` | 2 events of one problem, 2 callers, 1 worker, 2 submissions, 2 attempts, 1 death, both stores | `TypeOK`, `RecordsAreBacked`, `BindingsHold`, `RunsOnce`, `ClaimsStand` |
| `connector_broker` | 2 requests, 3 attempts, 1 approval, 1 crash, 1 lost write, approval needed or not | `OneAtATime`, `ActsOnce`, `ActsAreApproved`, `RevocationHolds` |
| `app_action` | 2 requests, 2 attempts, 1 approval, 1 crash, the hosted ledger, fairness | `TypeOK`, `SuccessIsActed`, `AnsweredIsRecorded` |
| `app_lifecycle` | 2 callers, 2 versions, 1 plan, 2 requests and any retries, 1 failure, crash or lease outlasted, 1 other App, 1 piece of evidence, 1 change of LoopSpecs, ownership or evidence by others, fairness | `TypeOK`, `RegistriesAgree`, `Recoverable`, `RoutesOnlyAsApproved`, `RecoveryEnds` |

The type invariants of `RouteJobQueue`, `RouteJobWorker`, `HermesRun`,
`HostedRouteStore` and `ConnectorBroker` are proved and not run (section 5).

What they show, together: whatever workers and handlers do, at whatever pace, each
of their writes to a job is one `RouteJobQueue` allows; and `RouteJobQueue` keeps
the fencing properties whoever calls it. So a worker that lost its lease changes
no job, and of the workers that have a job in their batches one at most can still
write it (`OneWriter`). Two of them may well execute it at the same time: a heartbeat
that fails stops nobody. What an overtaken worker does to commits and problems is
another matter (section 4): `CompletedIsRecorded` and `RecordsAgree` hold for the jobs
that nobody took over between two writes about them.

`hosted_store` says the same of the replicas of the hosted store, whose operations
are not atomic. `worker_live`'s `AcceptedIsSettled` says that every accepted job
comes to an end but for one way out: a batch that ends before the last attempt in it
is made. `ApprovedIsReconciled` says that an approved run is picked up unless some job
in review stops validating. Of the actions,
`connector_broker` and `app_action` show that no order of deliveries, deaths,
revocations and reconciliations lets the provider act twice, unless a write is lost
after it acted, and `app_lifecycle` that a failed or interrupted operation leaves
stores that agree or that the same request can bring to agreement.

*Excluded cases.* A property that the code does not keep in some case says so in its
definition, names the case and holds in all others; section 4 describes each:
`late` in `ClosedIsFinal`, `Endangered`, `repeated` and overlapping submissions in
`RouteSubmission`, `overtaken`, `died`, `Lost` and `broken` in `RouteJobWorker`,
`faults = 0` in `ActsOnce`, `Overwritten`, `Wedged` and a last `configure` in
`AppLifecycle`, a second commit and `ready` in `AnsweredIsRecorded`.

*Bounds.* `MaxGrants` bounds claims of a job, `MaxLate` the submissions that overlap
its first, `MaxCrashes` crashes, `MaxEvents` the numbers of a Hermes run. Three grants
are two stale workers and a holder; two attempts are a first failure and a dead
letter; a lease of two ticks can be fresh, old or expired, and a retry delay can be
doubled and capped. Three events are enough for a start, an approval request and its
resolution, or a run that ends. The `hermes` run has two grants: a worker that lost
the job and one that has it. Two calls and two tries in `hosted_store` are a call that
is overtaken and gives up, and the one that overtook it. Two submissions are a
resubmission of one decision or two decisions that share a problem; two callers are
enough for an overlap. Three attempts of the broker are a request, its second delivery
and a competitor; one lost write is the error path of one of the three writes. Two
requests in `app_lifecycle` are an interrupted operation and another that finds it so,
with as many exact retries as it takes. In `RouteJobWorker`, reviews and retries stop
while there is still room for the claims they may lead to (`Room`), so that the bound
on grants cannot be what ends a job's life in the liveness run.

*Fairness.* Weak fairness of the clock and of each worker's own steps (`Work`: a
supervisor or a scheduler runs batch after batch, and a run ends, which the executor's
limits provide). Nothing is asked of reviewers, operators or Hermes, of heartbeats, or
of crashes. For the lock: weak fairness of every caller's steps and of its coming
back. For the hosted store: weak fairness of every call's steps, as a request is
answered sooner or later, if only with an error. For actions: of the reconciliation
alone, whose worker runs every five minutes, and only while it gets to the action and
nothing refuses it (`ready`): weakly that it is begun, strongly that one of the many
that are begun gets its answer, so that the broker is not out of reach every single
time. Broker, callers, approver and revoker may stop at any point. For the lifecycle:
of a caller's steps, of the expiry of leases, and of a retry of an unfinished
operation, without which it would wait for ever. Weak fairness is enough for workers
because an enabled step of a worker stays enabled until it is taken: no other actor
changes its control state.

*Symmetry* is used for workers, handlers and jobs, in runs without liveness.

*Mutants.* Beside the definitions stand mutated forms (named in their comments):
a claim that forgets the lease, a heartbeat that restores an old token, a catch
block that requeues dead letters, a swap that compares the token only, an approval
that is looked at and not used up. Each property is violated with at least one of
them under its own run.

## 4. Where the documents and the code differ

One run ends with a counterexample: in `hermes_duplicate`, `DuplicatesAreIdempotent`
(`docs/ROUTE-JOB-WORKER.md:77`) fails, as a repeated `run.started`, already on record,
is projected again and reopens a completed job.

The rest was met while modelling, is part of the models and has no run of its own.

*Queue, worker, Hermes.*

- The lease is checked once before commit, problem and job are written; a worker
  replaced after the check still completes the commit (`route-job-worker.ts:592`,
  against `docs/DISTRIBUTED-ROUTING-STORE.md:48`).
- A crash in the last attempt leaves the job `claimed` with no attempts left: no
  claim takes it and `retryRouteJob` refuses it (`routing-store.ts:919`, against
  `docs/HERMES-EVENT-BRAIN-INTEGRATION-PLAN.md:1904`). So does any error that ends a
  batch with a last attempt in it. `AcceptedIsSettled` says that this is the only way to
  lose a job.
- A heartbeat that fails is noticed when the run is over: meanwhile another worker may
  claim the job and execute it at the same time (`route-job-worker.ts:517`). `OneWriter`
  says that only one of the two can still write the job.
- All jobs of a decision share one problem (`routing-store.ts:500`). The work on one of
  them sets it back to `in_progress` or `waiting` while another is completed, and the
  problem then says what the last worker to save it knew.
- The dispatch to Hermes is returned, not awaited; its failure passes the catch
  block by, and after the last attempt the job stays claimed instead of becoming a
  dead letter (`route-job-worker.ts:223`, against `docs/ROUTE-JOB-WORKER.md:79`).
- The number of an event is compared with those on record before the append and, in
  the file ledger, not by it, so two handlers record one number twice there
  (`hermes-execution-service.ts:51`, against `docs/ROUTE-JOB-WORKER.md:77`).
- Two callers find a dead caller's lock file; the second removes the new file of
  the first, and both operate (`routing-store.ts:279`, against
  `docs/ROUTE-JOB-WORKER.md:64`).
- Hermes may report `run.started` before the worker marks the job dispatched, which
  takes the job back to `dispatched` and its commit to `queued`
  (`route-job-worker.ts:421`).
- A reviewed job whose context is refused ends the batch that claimed it before any
  due job is claimed, and leaves what else the batch had claimed under its leases
  (`route-job-worker.ts:712`). The job's own lease keeps it out of the next batches until
  it is over; then it is claimed, and refused, again.
- An approval checks commit and job and saves the trace after committing actions
  (`review-service.ts:137`); the model takes it as one step.
- A crash between the end of a local run and the write that links it to its job
  makes the next attempt run the loop again (`route-job-worker.ts:253`).
- The retry delay counts from the batch's clock reading; after a run longer than
  the delay the failed job is due at once (`route-job-worker.ts:314`).
- A job that Hermes runs is `running` without a lease, which is claimable
  (`routing-store.ts:916`): a second worker may dispatch it again.
- After `run.failed` the trace of `job.runId` is terminal, and every retry
  finalizes it again instead of reaching Hermes (`route-job-worker.ts:207`).

*Submission* (`routing-store.ts` unless said otherwise).

- A decision that is submitted again, which the tests of the repository allow, gives
  its commit a new `routeAttemptId` while the job keeps the old one; every claim then
  fails with `ROUTE_JOB_BINDING_MISMATCH`, up to the dead letter (line 509).
- The commit that a submission saves comes from a list read before; one that a
  worker completed in between is saved as `running` again (lines 496–523).
- The worker saves the problem as it read it at the start of the run: evidence and
  route commits added meanwhile are lost, and with them what keeps a second event
  from being accepted for open work (`route-job-worker.ts:593`, against
  `docs/HERMES-EVENT-BRAIN-INTEGRATION-PLAN.md:1888`).
- Two submissions that overlap, with one dedupe key, are both given work.
- The file store's enqueue may save over a job that was claimed, or completed, since it
  looked (lines 838 and 872), once for each submission that overlapped the first, and
  the job is worked on again; the hosted store's insert leaves it alone.

*Actions.*

- The transport gives up after 15 seconds and the App records `commit_failed` while
  the broker may still act (`app-operation-execution.ts:564`; compare
  `docs/APP-CONNECTOR-OPERATION-BINDINGS.md:171` and `:176`). A reconciliation that
  races such a timeout leaves both outcomes on record.
- A write that is lost after the provider acted makes the action available again
  (`connector-broker.ts:443`); a broker that dies while the provider acts leaves it
  `committing` for ever (`:417`).
- The approval is used up before the idempotency key is looked up, so a second
  delivery of a request under way is given a durable refusal (`:364`).
- After an earlier failure, a second commit that was interrupted is refused by
  commit and reconciliation alike, while the worker goes on selecting it
  (`app-operation-execution.ts:403`). The worker takes the 25 oldest candidates, so
  enough of such requests keep it from ever getting to younger ones
  (`app-action-reconciliation-worker.ts:49`).
- Only the hosted ledger checks that a recorded success is the broker's durable receipt
  (`supabase/migrations/202608210008`, lines 117–140). The file ledger checks nothing
  (`app-operation-action-store.ts:128`), and `app-tools.ts:1577` combines it with the
  broker. `SuccessIsActed` holds with either, as the caller records what it was told and
  the broker tells no success that did not happen; the run has the hosted ledger, the
  theorem both.
- Disabling a connector revokes an action that is being committed; the ledger can
  then hold both a revocation and a success.
- The ledger's lock file is never broken: a caller that dies with it closes the
  ledger (`app-operation-action-store.ts:252`).

*Installation* (`app-installation-service.ts`).

- A configure sets the installation back to testing and leaves the routing mode of
  its loops (line 831).
- Install, activate, pause and resume do not compare the installation when the
  entry is journaled (lines 4337–4354): an entry that no longer fits can never be
  finished and blocks the App.
- An App that comes to own, or gives up, an asset of this one changes the ownership
  digest of its unfinished repair, update, rollback or uninstall. A repetition of the
  request computes another key and is refused because the first is unfinished
  (lines 1696–1706, 292–295), and one under the old key fails its comparison (1843):
  the App is blocked until the other App gives back what it took.
- An interrupted activation asks for the evidence of its approval again, although the
  approval's expiry is no longer looked at (lines 2762–2763, 4187–4206); while the
  evidence is missing, the App is blocked.
- A finished install plan that is applied again after an uninstall brings the
  installation back without its loops, as their receipt is there already (line 583).
- A caller that outlasts the hosted lease of 300 seconds may still write loops, the
  routing of a rollout among them (lines 3434–3447), and the consumer lists, which ask
  for no lease. The properties leave out what follows such a write (`late`); short of
  one they hold, as the registry refuses the caller's commit.
- The file store's `.installation.lock` is never broken after a crash
  (`app-installation-store.ts:539`).

## 5. What is proved

`RouteJobQueueProofs`, for every set of jobs, every limit and delay, from
`RouteJobAssumption` and `RouteJobQueueAssumption` alone:

| Theorem | Property |
|---|---|
| `TypeCorrect` | `TypeOK` |
| `Fencing` | `LiveTokenIsNewest` |
| `Ownership` | `OwnedWhileInFlight` |
| `Attempts` | `OpenWorkHasAttempts` |
| `NoStealingHolds` | `NoStealing` |
| `ClosedIsFinalHolds` | `ClosedIsFinal` |
| `KeepsPromise` | `ImplementsFencedWork` |

*Argument.* The inductive invariant `Inv` is the conjunction of the four state
invariants. None of them is inductive by itself: that a fenced write keeps
`OwnedWhileInFlight` or `OpenWorkHasAttempts` needs that a token which passes the
check is not 0 and the newest (`FencedHoldsNewest`), and with it that the job is in
flight; that a failed job has attempts left needs its type. `Inv` is rewritten
record by record (`InvByRecord`), so that an operation has to be looked at for the
job it writes only (`WriteKeepsInv`); claims, which write many, have a lemma of
their own. `RouteJobProofs` says what each operator of `RouteJob` returns. The two
action properties and the refinement follow from `Inv` step by step; `PhaseOf` maps
a job to a phase of `FencedWork`, and a cancelled or released job falls where its
lease and status put it. Submissions that overlap the first are part of both
(`late`): what they do to a closed job is the exception that `ClosedIsFinal` and
`FencedWork` state, and for which each of them is used up.

`QueueFileLockProofs`: `TypeCorrect`, `LockSerializes` (`Serialized`) and `FilesStand`
(`NeverBroken`): if no operation outlasts the threshold (`Prompt`), then until a
caller dies two callers are never inside at once and no file is broken, for any
number of callers, any threshold and patience. The invariant adds to types: the file
is its holder's own, it is there exactly while somebody holds it, and it is never
older than the threshold. That the assumption on deaths is needed is described in
section 4.

The second part of `RouteJobQueueProofs` is about `HostedRouteStore`, for any number of
calls, tries and faults: `StoreTypesHold`,
`CallersAreToldTheTruth` (`AnswersAreTrue`) and `StoreImplementsQueue`
(`ImplementsQueue`), and as corollaries `StoreFences` and `StoreClosesForGood`, which carry
`LiveTokenIsNewest` over to the hosted store and show that there a closed job stays
closed without exception, as the insert is atomic. The invariant
says what a call holds between read and swap: it is entitled to its update
(`Entitled`), and while nobody has written the row, the record it computed is one the
atomic operation could write now (`Computed`). The lemma that makes this survive the
clock is `AgedUpdate`: aging commutes with every update, a lease or delay becoming
shorter on the way. With it `StoreIsAtomic` shows that a successful swap is an action
of `RouteJobQueue`. That a retry delay is a number (`DelayType` in `RouteJobProofs`)
needs `2 ^ n \in Nat`, which is taken from the library's theorem on the size of
powersets.

`RouteJobWorkerProofs`, for any jobs and any workers that stall or crash between any
two calls: `WorkerTypesHold`, `WorkersKeepToTheQueue` (`ImplementsQueue`) and
`WorkersRunWithinAttempts` (`RunsWithinAttempts`). For the refinement types are not
enough: a write names a token, and the queue allows it only for tokens that were
granted. `Handed` says that the tokens of a batch were, for jobs that exist, and that
the job in hand has one that is not 0, which would pass for no token at all. That a
batch may be any part of the jobs asks that these are finite (`Jobs` in
`RouteJobWorkerAssumption`). For the number of runs the invariant (`RunInv`) adds that
a worker with a live token for a job it has not begun leaves one attempt unused
(`Pending`), that no two workers have the same token (`TokensDiffer`), so that the one
attempt is not used twice, and that reviews come before new work (`InOrder`), as a
review claims a job without using up an attempt.

Three theorems more of `RouteJobWorkerProofs` are about who may still write:
`OneWriterHolds` (`OneWriter`), `CompletionsAreRecorded` (`CompletedIsRecorded`) and
`LetGoRecordsAgree` (`RecordsAgree`). Nothing is assumed of the pace of a worker or its
heartbeat. `OneWriter` follows from `TokensDiffer`: tokens are granted once, so of two
workers with a job in their batches one at most has the job's own. The records need
more (`RecordInv`): a job is held under the newest token or none, and a worker that is
between two records of a job that was not overtaken has that newest token, so it has
the last word on the job (`LastWord`) and nobody else is between its records
(`HolderIsAlone`); what it has written of the other two is still there (`Written`),
except that the problem may have been saved for another job in the meantime, which is
why it is asked only for as long as it speaks of this one. A job whose worker noticed
that it lost the lease was overtaken or withdrawn by an operator; one whose worker died
between the records is in `died`.

`HermesRunProofs`: `HermesTypesHold` and `NothingCompletesUnreported`
(`CompletionIsReported`), for any workers, handlers and events. The invariant adds that
whoever is busy has a job (`Busy`), that a handler projects only events on record
(`HandlersOK`) and that what a worker or a handler has read of a completed trace was
reported (`ReadersOK`): the property is about records, and the copies that actors
hold of them have to be as good. `HandlersKeepToTheQueue` (`ImplementsQueue`) adds
that the tokens workers name were granted (`TokensGranted`), and maps each call of a
worker, an operator or an event handler to its operation of the queue of one job.
`DispatchedJobsWait` (`DispatchedWaitsForHermes`): a dispatched job has no lease
(`DispatchedIsFree`), so that no claim takes it and no worker may write to it.

With these refinements every worker, handler and replica makes steps of `RouteJobQueue`
only, so the theorems about the queue are theorems about them.

`RouteSubmissionProofs`, for any events, callers, workers and deaths, in both stores:
`SubmissionTypesHold`, `RecordsStayBacked` (`RecordsAreBacked`), `JobsStayBound`
(`BindingsHold`), `SubmissionsLeaveClaims` (`ClaimsStand`) and `EventsRunOnce`
(`RunsOnce`). Its actors save copies they read long ago, so each property has to be
said of the copies, too, in four layers: what a caller's or a worker's copy of the
problem vouches for is in the store (`RecordInv`); a caller that has not yet seen the
job's commit to its end is alone with its event and finds no job (`Sole`,
`CallerBinds`), and a worker's copy of the commit has its job's attempt
(`WorkerBinds`); nobody is about to save a job over one that is there (`NoOverwrite`);
and, while no worker dies, a worker at a job holds it and a run that completed is on
record or in the hands of the worker about to record it (`OnceInv`).

`AppOperationActionProofs`, for any requests, approvals, attempts, crashes and lost
writes. Of the broker under any caller: `BrokerTypesHold`, `OneCommitAtATime`,
`ProviderActsOnce`, `EveryActIsApproved` and `RevocationIsFinal`. `ClaimInv`: an action
that is available is in nobody's hands. `OnceInv`: as long as nothing was lost, an
action the provider carried out is not available and whoever still has it is saving.
`ApprovalInv`: attempts past the check (`Cleared`) have used up approvals, each its own.
`Asked` stands for any caller of the broker: each request at any time, any number of
times, with any approval. Of the App: `OneOfTheCallers` shows that each of its steps is
such a call, which asks that an approver that has not granted has no receipt yet
(`GrantsInOrder`); so `ActionsActOnceAndApproved` and `ActionsStayRevoked` say of the
App what was proved of the broker. `ActionTypesHold` (`TypeOK`) includes that no
request is recorded twice, because a call that is about to record one found every
recorded request settled (`CallsInOrder`). `SuccessesWereActed` (`SuccessIsActed`)
follows from what a receipt stands for (`ReceiptInv`): a receipt of a success, and
the write that is to leave it, belong to an attempt in which the provider acted; no
later attempt writes over it (`AnswerInv` says the same of the answers that callers are
given); and whatever the ledger calls a success has one, or, in the file ledger, an
execution under its request (`SuccessBacked`).

`AppLifecycleProofs`, for any callers, install plans, versions, failing calls and
deaths, from `AppLifecycleAssumption` alone (the markers `None` and `Dead` are none of
the values they are told from): `LifecycleTypesHold` (`TypeOK`), `RoutesStayApproved`
(`RoutesOnlyAsApproved`), `RegistriesStayAgreed` (`RegistriesAgree`) and
`StaysRecoverable` (`Recoverable`: of what a retry compares, installation and loops
are as they should be; what other Apps own and what evidence there is, is not in this
App's hands, changes in `WorldSteps`, and is what `Wedged` says). All four say
something about the moment at which no operation, or one, is under way, and hold there
because of what the steps before did under a lease that may be lost between any two of
them. The invariant (`LifecycleInv`) has four layers. `CoreInv`: of one App one
operation is unfinished, it starts from the installation that is there, every call
under way is on record, and whoever has the lease still finds what it compared when it
got it (`HoldsAs`); it needs `RevisionInv`, that receipts name past revisions, so that
a write is not taken for one of an earlier rollout. `VersionInv`: the loops are of the
installed version, or those that the unfinished operation has written. `AgreeInv` says
what is left of the agreement while an operation of each kind is unfinished
(`Settled`), `WorkInv` what its holder has done to restore it, `ReceiptInv` that an
install whose receipt is there has its loops. For `Recoverable` these are not enough:
a caller may have read registry and loops long ago, others finish operations
meanwhile, and it is journaled all the same if the installation *looks* as it did.
That then the loops are the same, too, is `FromInv`; it rests on `InstantInv`:
operations that may still be finished arrive at instants of their own, which no
request has started from. The steps are grouped by what they do to the stores
(`StepKinds`); most keep all that the invariant speaks of (`Keep`).

*Only model-checked:* liveness (temporal induction over fairness is out of the
prover's reach).

## 6. Not modelled, and why

Within the modelled parts:

- *Queue and worker:* metric samples, lifecycle notifications and the controller
  trigger after a run (an error of theirs is `Crash`); prepared actions of autonomous
  runs; fingerprints and roles in a review, and its writes one by one. Submissions of one
  job overlap in `RouteJobQueue` and `RouteSubmission`, in `RouteJobWorker` and
  `HermesRun` they do not.
- *Hermes:* details of a trace, agents and their heartbeats, signatures.
- *Submission:* the validation of a decision against routing cards, eligibility,
  replays, several loops per decision (`RouteJobWorker` has their shared problem),
  reviews, prepared actions of autonomous runs and learning context; a worker that
  outlasts its lease.
- *Hosted store:* the other tables, which are plain upserts.
- *Broker and actions:* reads, the preparation of an action, OAuth refresh and
  rotation, the registry of connectors; the bindings a commit compares (any refusal is
  `CallRefused`); the file store's ledger lock; the other actions of a workspace, which
  decide when the reconciliation comes to this one, and the limit of 100 events to a
  list.
- *Installation:* duplicate and detach, plans and their expiry, evaluation runs,
  readiness, exact contents of configurations and LoopSpecs; the hosted LoopSpec
  adapter, which ignores the removal of loops.

The other parts of 1.10 are left out: the controller, the design queues, the
detector scheduler and the measurement jobs are variations of the leased queue that
is modelled here; device authorization and graph transactions are single SQL
functions or single documents under a revision; the remaining code is sequential, or
user interface, transport, content and read models without protocol state. That is
most of the repository's lines. Each part is listed in `PROJECT.json` with its reason,
and every hazard that no property covers with a note.

## 7. Done and left

1. **Done:** queue, worker, Hermes, lock, hosted store, submission, broker, App
   actions, App lifecycle. Their safety properties and the refinements of the queue
   are proved.
2. **Proofs:** that the four refinements of the queue compose with `FencedWork` in one
   theorem each, rather than by reading two.
3. **Review** (`RunReview`): the decision one write at a time against workers and
   operators.
4. **Loop controller** and **Hermes design queues**: what they add to `FencedWork` is
   the debounce of triggers and the acknowledged callback.
5. Detector scheduler and semantic graph transactions.
