--------------------------- MODULE HermesRunProofs ---------------------------
(***************************************************************************)
(* Theorems about HermesRun, for any workers, handlers and bounds: its     *)
(* types, that nothing counts as completed which Hermes did not report as  *)
(* completed, however late, often or out of order events arrive, and that  *)
(* workers and handlers write to the job as the queue allows.              *)
(***************************************************************************)
EXTENDS HermesRun, RouteJobProofs

TraceStatuses ==
  {None, "COMMITTED", "WAITING_FOR_REVIEW", "COMPLETED", "FAILED", "REJECTED"}

\* A handler that goes on knows its event.
HandlerStates ==
  {[step |-> "idle"]} \cup
  [step : {"append", "read", "trace", "commit", "problem", "job"}, e : Events,
   created : BOOLEAN, known : TraceStatuses]

Reported == \E e \in ledger : e.type = "run.completed"

\* Workers and handlers are busy with a job that is there.
Busy ==
  /\ \A w \in Workers : at[w] # "idle" => job \in Job
  /\ \A h \in Handlers : handling[h].step # "idle" => job \in Job

\* The states of handlers, and that an event is on record before it is projected.
HandlersOK ==
  /\ handling \in [Handlers -> HandlerStates]
  /\ \A h \in Handlers :
       /\ handling[h].step \in {"read", "trace", "commit", "problem", "job"}
            => handling[h].e \in ledger
       /\ handling[h].step \in {"commit", "problem", "job"}
            => handling[h].e.type \notin {"rejected", "progress"}
       /\ handling[h].step = "trace" /\ handling[h].known = "COMPLETED" => Reported

\* What a worker read of the trace it believes for as long as it takes.
ReadersOK ==
  /\ read \in [Workers -> TraceStatuses]
  /\ \A w \in Workers : read[w] = "COMPLETED" => Reported

Inv == TypeOK /\ Busy /\ HandlersOK /\ ReadersOK /\ CompletionIsReported

-----------------------------------------------------------------------------
\* In the initial state nobody is busy and nothing is completed.
LEMMA InitInv == Init => Inv
  <1> SUFFICES ASSUME Init PROVE Inv
    OBVIOUS
  <1>1. TypeOK
    BY HermesRunAssumption, RouteJobAssumption
    DEF Init, TypeOK, HermesRunAssumption, Labels, None, Exists
  <1>2. Busy /\ ReadersOK /\ CompletionIsReported
    BY DEF Init, Busy, ReadersOK, CompletionIsReported, TraceStatuses, Exists, None
  <1>3. HandlersOK
    BY DEF Init, HandlersOK, HandlerStates
  <1>4. QED
    BY <1>1, <1>2, <1>3 DEF Inv

-----------------------------------------------------------------------------
\* A job that is there has a record, which is not the mark of a missing one.
LEMMA Present ==
  ASSUME TypeOK, Exists
  PROVE  job \in Job
  BY DEF TypeOK, Exists

\* Where a worker goes next, and what it forgets when it leaves.
LEMMA GotoType ==
  ASSUME TypeOK, NEW w \in Workers, NEW label \in Labels, Goto(w, label)
  PROVE  /\ at' \in [Workers -> Labels]
         /\ \A v \in Workers : v # w => at'[v] = at[v]
         /\ at'[w] = label
  BY DEF TypeOK, Goto

LEMMA LeaveType ==
  ASSUME TypeOK, ReadersOK, NEW w \in Workers, Leave(w)
  PROVE  /\ at' \in [Workers -> Labels] /\ at'[w] = "idle"
         /\ \A v \in Workers : v # w => at'[v] = at[v]
         /\ token' \in [Workers -> 0..MaxGrants] /\ dead' \subseteq Workers
         /\ read' \in [Workers -> TraceStatuses]
         /\ \A v \in Workers : read'[v] = "COMPLETED" => read[v] = "COMPLETED"
  <1>1. "idle" \in Labels /\ None \in TraceStatuses /\ None # "COMPLETED"
    BY DEF Labels, TraceStatuses, None
  <1>2. 0 \in 0..MaxGrants
    BY HermesRunAssumption DEF HermesRunAssumption
  <1>3. QED
    BY <1>1, <1>2, GotoType DEF Leave, TypeOK, ReadersOK

\* What a step may do to everything but a worker's own state: the job stays, or
\* becomes another record, completed only by word of Hermes; commit and trace
\* are completed only by word of Hermes, too.
Allowed ==
  /\ job' \in Job \cup {NoJob} /\ (job \in Job => job' \in Job)
  /\ issued' \in 0..MaxGrants /\ closedBy' \in 0..MaxGrants
  /\ commit' \in {None, "queued", "running", "waiting_review", "completed", "failed"}
  /\ problem' \in {None, "routed", "in_progress", "waiting", "resolved"}
  /\ trace' \in TraceStatuses
  /\ assigned' \in Nat /\ sent' \subseteq Events
  /\ hermes' \in {"idle", "running", "asking", "stopped", "done"}
  /\ crashes' \in 0..MaxCrashes
  /\ ledger \subseteq ledger' /\ ledger' \subseteq Events
  /\ CompletionIsReported'

\* The worker's own part of a step.
WorkerMoves ==
  /\ at' \in [Workers -> Labels]
  /\ token' \in [Workers -> 0..MaxGrants] /\ dead' \subseteq Workers
  /\ read' \in [Workers -> TraceStatuses]
  /\ \A w \in Workers : at'[w] # "idle" => job' \in Job
  /\ \A w \in Workers : read'[w] = "COMPLETED" => Reported

\* A step of a worker keeps the invariant if it does no more than that.
LEMMA WorkerKeepsInv ==
  ASSUME Inv, Allowed, WorkerMoves, UNCHANGED handling
  PROVE  Inv'
  <1>1. Reported => Reported'
    BY DEF Allowed, Reported
  <1>2. TypeOK'
    BY DEF Inv, TypeOK, Allowed, WorkerMoves, TraceStatuses
  <1>3. Busy'
    BY DEF Inv, Busy, Allowed, WorkerMoves
  <1>4. HandlersOK'
    <2>1. handling' = handling
      OBVIOUS
    <2>2. \A h \in Handlers :
            handling[h].step \in {"read", "trace", "commit", "problem", "job"}
              => handling[h].e \in ledger'
      BY DEF Inv, HandlersOK, Allowed
    <2>3. QED
      BY <1>1, <2>1, <2>2 DEF Inv, HandlersOK
  <1>5. ReadersOK'
    BY <1>1 DEF ReadersOK, WorkerMoves
  <1>6. QED
    BY <1>2, <1>3, <1>4, <1>5 DEF Inv, Allowed

\* The steps of a worker that change nothing but where it is.
LEMMA ContinueMoves ==
  ASSUME Inv, NEW w \in Workers, NEW label \in Labels, at[w] # "idle",
         Continue(w, label), job' \in Job
  PROVE  WorkerMoves
  BY GotoType DEF Inv, TypeOK, Busy, ReadersOK, Continue, WorkerMoves

LEMMA LeaveMoves ==
  ASSUME Inv, NEW w \in Workers, Leave(w), job \in Job => job' \in Job
  PROVE  WorkerMoves
  BY LeaveType DEF Inv, Busy, ReadersOK, WorkerMoves

\* What a worker leaves alone is still allowed.
LEMMA QuietIsAllowed ==
  ASSUME Inv, UNCHANGED <<jobVars, recordVars, ledger, hermesVars, crashes>>
  PROVE  Allowed
  BY DEF Inv, TypeOK, Allowed, CompletionIsReported, Exists, TraceStatuses,
         jobVars, recordVars, hermesVars

\* A step that writes the job only: to a record, and not to a completed one
\* unless Hermes has said so.
LEMMA JobWriteIsAllowed ==
  ASSUME Inv, job' \in Job, job'.status = "completed" => Reported,
         issued' \in 0..MaxGrants, closedBy' \in 0..MaxGrants,
         UNCHANGED <<recordVars, ledger, hermesVars, crashes>>
  PROVE  Allowed
  BY DEF Inv, TypeOK, Allowed, CompletionIsReported, Reported, TraceStatuses,
         recordVars, hermesVars

\* A step that writes commit or problem only.
LEMMA RecordWriteIsAllowed ==
  ASSUME Inv,
         commit' \in {None, "queued", "running", "waiting_review", "completed", "failed"},
         problem' \in {None, "routed", "in_progress", "waiting", "resolved"},
         commit' = "completed" => commit = "completed" \/ Reported,
         UNCHANGED <<jobVars, trace, ledger, hermesVars, crashes>>
  PROVE  Allowed
  BY DEF Inv, TypeOK, Allowed, CompletionIsReported, Reported, TraceStatuses, Exists,
         jobVars, hermesVars

\* A job is completed by word of Hermes.
LEMMA CompletedByWord ==
  ASSUME Inv, job \in Job, job.status = "completed"
  PROVE  Reported
  BY HermesRunAssumption DEF Inv, CompletionIsReported, Reported, Exists, HermesRunAssumption

\* Claims: of a due job, and of one in review, which stays as completed as it was.
LEMMA ClaimKeepsInv ==
  ASSUME Inv, NEW w \in Workers, NEW claimed \in Job, NEW label \in Labels,
         Claim(w, claimed, label), claimed.status = "completed" => Reported
  PROVE  Inv'
  <1>1. issued + 1 \in 0..MaxGrants /\ issued' = issued + 1
    BY HermesRunAssumption DEF Inv, TypeOK, Claim, HermesRunAssumption
  <1>2. Allowed
    BY <1>1, JobWriteIsAllowed DEF Inv, TypeOK, Claim
  <1>3. WorkerMoves
    BY <1>1, GotoType DEF Inv, TypeOK, Claim, ReadersOK, WorkerMoves
  <1>4. QED
    BY <1>2, <1>3, WorkerKeepsInv DEF Claim

LEMMA ClaimsKeepInv ==
  ASSUME Inv, NEW w \in Workers, ClaimDue(w) \/ ClaimReview(w)
  PROVE  Inv'
  <1>1. job \in Job
    BY Present DEF Inv, ClaimDue, ClaimReview
  <1>2. issued + 1 \in Nat
    BY DEF Inv, TypeOK
  <1>3. LeaseTicks \in 0..LeaseTicks
    BY Bounds
  <1>4. CASE ClaimDue(w)
    <2>1. /\ Claimed(job, issued + 1, LeaseTicks) \in Job
          /\ Claimed(job, issued + 1, LeaseTicks).status = "claimed"
      BY <1>1, <1>2, <1>3, <1>4, ClaimedFields DEF ClaimDue
    <2>2. QED
      BY <1>4, <2>1, ClaimKeepsInv DEF ClaimDue, Labels
  <1>5. CASE ClaimReview(w)
    <2>1. /\ ReviewClaimed(job, issued + 1, LeaseTicks) \in Job
          /\ ReviewClaimed(job, issued + 1, LeaseTicks).status = "waiting_review"
      BY <1>1, <1>2, <1>3, <1>5, ReviewClaimedFields DEF ClaimReview, ReviewDue
    <2>2. QED
      BY <1>5, <2>1, ClaimKeepsInv DEF ClaimReview, Labels
  <1>6. QED
    BY <1>4, <1>5

\* Steps that decide where a worker goes, and change nothing that is stored.
LEMMA DecisionsKeepInv ==
  ASSUME Inv, NEW w \in Workers,
         Refuse(w) \/ ChooseHermes(w) \/ DispatchFails(w) \/ AssertFinalizeLease(w) \/ Crash(w)
  PROVE  Inv'
  <1>1. Allowed
    <2>1. CASE ~Crash(w)
      BY <2>1, QuietIsAllowed
      DEF Refuse, ChooseHermes, DispatchFails, AssertFinalizeLease
    <2>2. CASE Crash(w)
      <3>1. crashes' \in 0..MaxCrashes
        BY <2>2, HermesRunAssumption DEF Crash, Inv, TypeOK, HermesRunAssumption
      <3>2. QED
        BY <2>2, <3>1 DEF Crash, Inv, TypeOK, Allowed, CompletionIsReported, Exists,
                          TraceStatuses, jobVars, recordVars, hermesVars
    <2>3. QED
      BY <2>1, <2>2
  <1>2. WorkerMoves
    <2>1. job' = job
      BY DEF Refuse, ChooseHermes, DispatchFails, AssertFinalizeLease, Crash, jobVars
    <2>2. CASE Leave(w)
      BY <2>1, <2>2, LeaveMoves
    <2>3. CASE ~Leave(w)
      <3>1. at[w] # "idle"
        BY <2>3 DEF Refuse, ChooseHermes, DispatchFails, AssertFinalizeLease, Crash
      <3>2. job \in Job
        BY <3>1 DEF Inv, Busy
      <3>3. \E label \in Labels : Continue(w, label)
        BY <2>3 DEF Refuse, ChooseHermes, DispatchFails, AssertFinalizeLease, Crash, Labels
      <3>4. QED
        BY <2>1, <3>1, <3>2, <3>3, ContinueMoves
    <2>4. QED
      BY <2>2, <2>3
  <1>3. QED
    BY <1>1, <1>2, WorkerKeepsInv
    DEF Refuse, ChooseHermes, DispatchFails, AssertFinalizeLease, Crash

\* A worker reads the trace; if it is completed, Hermes has said so.
LEMMA FinalizeRunKeepsInv ==
  ASSUME Inv, NEW w \in Workers, FinalizeRun(w)
  PROVE  Inv'
  <1>1. Allowed
    BY QuietIsAllowed DEF FinalizeRun
  <1>2. trace \in TraceStatuses /\ (trace = "COMPLETED" => Reported)
    BY DEF Inv, TypeOK, CompletionIsReported, Reported, TraceStatuses
  <1>3. job \in Job /\ job' = job
    BY DEF Inv, Busy, FinalizeRun, jobVars
  <1>4. WorkerMoves
    <2>1. at' \in [Workers -> Labels]
      BY GotoType DEF FinalizeRun, Labels, Inv
    <2>2. read' = [read EXCEPT ![w] = trace] /\ token' = token /\ dead' = dead
      BY DEF FinalizeRun
    <2>3. QED
      BY <1>2, <1>3, <2>1, <2>2 DEF Inv, TypeOK, ReadersOK, WorkerMoves
  <1>5. QED
    BY <1>1, <1>4, WorkerKeepsInv DEF FinalizeRun

LEMMA LeaveInReviewKeepsInv ==
  ASSUME Inv, NEW w \in Workers, LeaveInReview(w)
  PROVE  Inv'
  <1>1. job \in Job
    BY DEF Inv, Busy, LeaveInReview
  <1>2. /\ Released(WithStatus(job, "waiting_review")) \in Job
        /\ Released(WithStatus(job, "waiting_review")).status = "waiting_review"
    BY <1>1, WithStatusFields, ReleasedFields DEF Statuses
  <1>3. job' \in Job /\ (job'.status = "completed" => Reported)
    BY <1>1, <1>2, CompletedByWord DEF LeaveInReview
  <1>4. QED
    BY <1>3, JobWriteIsAllowed, LeaveMoves, WorkerKeepsInv DEF LeaveInReview, Inv, TypeOK

LEMMA DispatchKeepsInv ==
  ASSUME Inv, NEW w \in Workers, Dispatch(w)
  PROVE  Inv'
  <1>1. job \in Job /\ job' = job /\ at[w] # "idle"
    BY DEF Inv, Busy, Dispatch, jobVars
  <1>2. Allowed
    BY DEF Dispatch, Inv, TypeOK, Allowed, CompletionIsReported, Exists, TraceStatuses,
           jobVars, recordVars
  <1>3. WorkerMoves
    BY <1>1, ContinueMoves DEF Dispatch, Labels
  <1>4. QED
    BY <1>2, <1>3, WorkerKeepsInv DEF Dispatch

LEMMA MarkDispatchedKeepsInv ==
  ASSUME Inv, NEW w \in Workers, MarkDispatched(w)
  PROVE  Inv'
  <1>1. job \in Job /\ at[w] # "idle"
    BY DEF Inv, Busy, MarkDispatched
  <1>2. /\ Released(WithStatus(job, "dispatched")) \in Job
        /\ Released(WithStatus(job, "dispatched")).status = "dispatched"
    BY <1>1, WithStatusFields, ReleasedFields DEF Statuses
  <1>3. job' \in Job /\ (job'.status = "completed" => Reported)
    BY <1>1, <1>2, CompletedByWord DEF MarkDispatched
  <1>4. WorkerMoves
    BY <1>1, <1>3, LeaveMoves, ContinueMoves DEF MarkDispatched, Labels
  <1>5. QED
    BY <1>3, <1>4, JobWriteIsAllowed, WorkerKeepsInv DEF MarkDispatched, Inv, TypeOK

\* Steps that write commit or problem.  The final one completes the commit only
\* if the trace that the worker read was completed.
LEMMA RecordStepsKeepInv ==
  ASSUME Inv, NEW w \in Workers,
         \/ SaveQueuedCommit(w) \/ SaveRoutedProblem(w) \/ SaveFinalCommit(w)
         \/ SaveFinalProblem(w) \/ RequeueCommit(w) \/ HoldProblem(w)
  PROVE  Inv'
  <1>1. job \in Job /\ job' = job /\ at[w] # "idle"
    BY DEF Inv, Busy, SaveQueuedCommit, SaveRoutedProblem, SaveFinalCommit,
           SaveFinalProblem, RequeueCommit, HoldProblem, jobVars
  <1>2. WorkerMoves
    BY <1>1, LeaveMoves, ContinueMoves
    DEF SaveQueuedCommit, SaveRoutedProblem, SaveFinalCommit, SaveFinalProblem,
        RequeueCommit, HoldProblem, Labels
  <1>3. Allowed
    <2>1. /\ CommitStatusOf(read[w]) \in {"waiting_review", "completed", "failed"}
          /\ CommitStatusOf(read[w]) = "completed" => read[w] = "COMPLETED"
      BY DEF CommitStatusOf
    <2>2. read[w] = "COMPLETED" => Reported
      BY DEF Inv, ReadersOK
    <2>3. CASE SaveFinalCommit(w)
      BY <2>1, <2>2, <2>3, RecordWriteIsAllowed DEF SaveFinalCommit, Inv, TypeOK
    <2>4. CASE ~SaveFinalCommit(w)
      BY <2>4, RecordWriteIsAllowed
      DEF SaveQueuedCommit, SaveRoutedProblem, SaveFinalProblem, RequeueCommit,
          HoldProblem, Inv, TypeOK
    <2>5. QED
      BY <2>3, <2>4
  <1>4. QED
    BY <1>2, <1>3, WorkerKeepsInv
    DEF SaveQueuedCommit, SaveRoutedProblem, SaveFinalCommit, SaveFinalProblem,
        RequeueCommit, HoldProblem

\* failRouteJob never completes a job.
LEMMA FailedIsNotCompleted ==
  ASSUME job \in Job, \E wait \in 0..MaxDelay : FailedIn(wait)
  PROVE  job' \in Job /\ job'.status # "completed"
  BY FailedFields DEF FailedIn

LEMMA SettleKeepsInv ==
  ASSUME Inv, NEW w \in Workers, Settle(w)
  PROVE  Inv'
  <1>1. job \in Job
    BY DEF Inv, Busy, Settle
  <1>2. read[w] = "COMPLETED" => Reported
    BY DEF Inv, ReadersOK
  <1>3. closedBy' \in 0..MaxGrants
    BY DEF Inv, TypeOK, Settle
  <1>4. \A s \in {"waiting_review", "completed"} :
          /\ Released(WithStatus(job, s)) \in Job
          /\ Released(WithStatus(job, s)).status = s
    BY <1>1, WithStatusFields, ReleasedFields DEF Statuses
  <1>5. job' \in Job /\ (job'.status = "completed" => Reported)
    BY <1>1, <1>2, <1>4, CompletedByWord, FailedIsNotCompleted DEF Settle
  <1>6. Allowed
    BY <1>3, <1>5, JobWriteIsAllowed DEF Settle, Inv, TypeOK
  <1>7. WorkerMoves
    BY <1>5, LeaveMoves DEF Settle
  <1>8. QED
    BY <1>6, <1>7, WorkerKeepsInv DEF Settle

LEMMA FailKeepsInv ==
  ASSUME Inv, NEW w \in Workers, Fail(w)
  PROVE  Inv'
  <1>1. job \in Job
    BY DEF Inv, Busy, Fail
  <1>2. job' \in Job /\ (job'.status = "completed" => Reported)
    BY <1>1, CompletedByWord, FailedIsNotCompleted DEF Fail
  <1>3. Allowed
    BY <1>2, JobWriteIsAllowed DEF Fail, Inv, TypeOK
  <1>4. WorkerMoves
    <2>1. CASE Leave(w)
      BY <1>2, <2>1, LeaveMoves
    <2>2. CASE ~Leave(w)
      <3>1. Goto(w, "requeue") /\ dead' \subseteq Workers /\ UNCHANGED <<token, read>>
        BY <2>2 DEF Fail, Inv, TypeOK
      <3>2. at' \in [Workers -> Labels]
        BY <3>1, GotoType DEF Labels, Inv
      <3>3. QED
        BY <1>2, <3>1, <3>2 DEF Inv, TypeOK, ReadersOK, WorkerMoves
    <2>3. QED
      BY <2>1, <2>2
  <1>5. QED
    BY <1>3, <1>4, WorkerKeepsInv DEF Fail

\* Operators, the submission and the clock.
LEMMA OthersKeepInv ==
  ASSUME Inv, Submit \/ RetryJob \/ CancelJob \/ Tick
  PROVE  Inv'
  <1>1. job' \in Job /\ (job'.status = "completed" => Reported)
    <2>1. CASE Submit
      BY <2>1, QueuedJobFields DEF Submit
    <2>2. CASE Exists
      <3>1. job \in Job
        BY <2>2, Present DEF Inv
      <3>2. QED
        BY <3>1, <2>2, CompletedByWord, RetriedFields, CancelledFields, AgedFields
        DEF Submit, RetryJob, CancelJob, Tick
    <2>3. QED
      BY <2>1, <2>2 DEF RetryJob, CancelJob, Tick
  <1>2. Allowed
    <2>1. CASE Submit
      BY <1>1, <2>1
      DEF Submit, Inv, TypeOK, Allowed, CompletionIsReported, Reported, TraceStatuses, hermesVars
    <2>2. CASE ~Submit
      BY <1>1, <2>2, JobWriteIsAllowed DEF RetryJob, CancelJob, Tick, Inv, TypeOK
    <2>3. QED
      BY <2>1, <2>2
  <1>3. WorkerMoves
    BY <1>1 DEF Submit, RetryJob, CancelJob, Tick, workerVars, Inv, TypeOK, ReadersOK, WorkerMoves
  <1>4. QED
    BY <1>2, <1>3, WorkerKeepsInv DEF Submit, RetryJob, CancelJob, Tick

-----------------------------------------------------------------------------
\* External: the numbers of events stay within their bound.
LEMMA PostType ==
  ASSUME sent \subseteq Events, NEW type \in EventTypes, Post(type)
  PROVE  sent' \subseteq Events
  <1> DEFINE seqs == {e.seq : e \in sent}
             next == Cardinality(seqs) + 1
  <1>1. seqs \subseteq 1..MaxEvents
    BY DEF Events
  <1>2. IsFiniteSet(1..MaxEvents)
    BY HermesRunAssumption, FS_Interval DEF HermesRunAssumption
  <1>3. IsFiniteSet(seqs)
    BY <1>1, <1>2, FS_Subset
  <1>4. Cardinality(seqs) \in Nat
    BY <1>3, FS_CardinalityType
  <1>5. CASE next <= MaxEvents /\ sent' = sent \cup {[seq |-> next, type |-> type, first |-> TRUE]}
    <2>1. next \in 1..MaxEvents
      BY <1>4, <1>5, HermesRunAssumption DEF HermesRunAssumption
    <2>2. [seq |-> next, type |-> type, first |-> TRUE] \in Events
      BY <2>1 DEF Events
    <2>3. QED
      BY <1>5, <2>2
  <1>6. CASE \E seq \in seqs : sent' = sent \cup {[seq |-> seq, type |-> type, first |-> FALSE]}
    <2>1. \A seq \in seqs : [seq |-> seq, type |-> type, first |-> FALSE] \in Events
      BY <1>1 DEF Events
    <2>2. QED
      BY <1>6, <2>1
  <1>7. QED
    BY <1>5, <1>6 DEF Post

LEMMA HermesKeepsInv ==
  ASSUME Inv, HermesActs
  PROVE  Inv'
  <1>1. sent' \subseteq Events
    BY PostType DEF HermesActs, Reports, EventTypes, Inv, TypeOK
  <1>2. hermes' \in {"idle", "running", "asking", "stopped", "done"}
    BY DEF HermesActs, Reports
  <1>3. assigned' \in Nat
    BY DEF HermesActs, Inv, TypeOK
  <1>4. Allowed
    BY <1>1, <1>2, <1>3
    DEF HermesActs, Inv, TypeOK, Allowed, CompletionIsReported, Exists, TraceStatuses,
        jobVars, recordVars
  <1>5. WorkerMoves
    BY DEF HermesActs, workerVars, jobVars, Inv, TypeOK, Busy, ReadersOK, WorkerMoves
  <1>6. QED
    BY <1>4, <1>5, WorkerKeepsInv DEF HermesActs

-----------------------------------------------------------------------------
\* A step of handler h keeps the invariant if what is stored stays true, and
\* the handler's next state fits the ledger.
HandlerMoves(h) ==
  /\ \E next \in HandlerStates :
       /\ handling' = [handling EXCEPT ![h] = next]
       /\ next.step # "idle" => job \in Job
       /\ next.step \in {"read", "trace", "commit", "problem", "job"} => next.e \in ledger'
       /\ next.step \in {"commit", "problem", "job"} => next.e.type \notin {"rejected", "progress"}
       /\ next.step = "trace" /\ next.known = "COMPLETED" => Reported
  /\ UNCHANGED workerVars

LEMMA HandlerKeepsInv ==
  ASSUME Inv, Allowed, NEW h \in Handlers, HandlerMoves(h)
  PROVE  Inv'
  <1>1. Reported => Reported'
    BY DEF Allowed, Reported
  <1>2. HandlersOK'
    BY <1>1 DEF Inv, HandlersOK, HandlerMoves, Allowed
  <1>3. \A i \in Handlers : handling'[i].step # "idle" => handling'[i].e \in Events
    BY <1>2 DEF HandlersOK, HandlerStates
  <1>4. TypeOK'
    BY <1>3 DEF Inv, TypeOK, Allowed, HandlerMoves, workerVars, TraceStatuses
  <1>5. Busy'
    <2>1. \A w \in Workers : at'[w] # "idle" => job' \in Job
      BY DEF Inv, Busy, Allowed, HandlerMoves, workerVars
    <2>2. \A i \in Handlers : handling'[i].step # "idle" => job' \in Job
      BY DEF Inv, Busy, HandlersOK, Allowed, HandlerMoves
    <2>3. QED
      BY <2>1, <2>2 DEF Busy
  <1>6. ReadersOK'
    BY <1>1 DEF Inv, ReadersOK, HandlerMoves, workerVars
  <1>7. QED
    BY <1>2, <1>4, <1>5, <1>6 DEF Inv, Allowed

\* A handler at work has an event, which is on record once it is projected.
LEMMA AtWork ==
  ASSUME Inv, NEW h \in Handlers, handling[h].step # "idle"
  PROVE  /\ job \in Job /\ handling[h].e \in Events
         /\ handling[h].e.type \in EventTypes
         /\ handling[h] = [step |-> handling[h].step, e |-> handling[h].e,
                           created |-> handling[h].created, known |-> handling[h].known]
         /\ handling[h].created \in BOOLEAN /\ handling[h].known \in TraceStatuses
  BY DEF Inv, Busy, HandlersOK, HandlerStates, Events

LEMMA ReceiveKeepsInv ==
  ASSUME Inv, NEW h \in Handlers, NEW e \in sent, Receive(h, e)
  PROVE  Inv'
  <1>1. job \in Job /\ e \in Events
    BY Present DEF Inv, TypeOK, Receive
  <1>2. [step |-> "append", e |-> e, created |-> FALSE, known |-> None] \in HandlerStates
    BY <1>1 DEF HandlerStates, TraceStatuses
  <1>3. HandlerMoves(h)
    BY <1>1, <1>2 DEF Receive, Handle, HandlerMoves
  <1>4. QED
    BY <1>3, QuietIsAllowed, HandlerKeepsInv DEF Receive

LEMMA AppendKeepsInv ==
  ASSUME Inv, NEW h \in Handlers, Append(h)
  PROVE  Inv'
  <1> DEFINE next == [step |-> "read", e |-> handling[h].e,
                      created |-> handling[h].e \notin ledger, known |-> None]
  <1>1. job \in Job /\ handling[h].e \in Events
    BY AtWork DEF Append, At
  <1>2. next \in HandlerStates
    BY <1>1 DEF HandlerStates, TraceStatuses
  <1>3. ledger \subseteq ledger' /\ ledger' \subseteq Events /\ handling[h].e \in ledger'
    BY <1>1 DEF Append, Inv, TypeOK
  <1>4. HandlerMoves(h)
    <2>1. handling' = [handling EXCEPT ![h] = next]
      BY DEF Append, Handle
    <2>2. QED
      BY <1>1, <1>2, <1>3, <2>1 DEF HandlerMoves, Append
  <1>5. Allowed
    BY <1>3 DEF Append, Inv, TypeOK, Allowed, CompletionIsReported, Exists, TraceStatuses,
                jobVars, recordVars, hermesVars
  <1>6. QED
    BY <1>4, <1>5, HandlerKeepsInv

LEMMA ReadTraceKeepsInv ==
  ASSUME Inv, NEW h \in Handlers, ReadTrace(h)
  PROVE  Inv'
  <1> DEFINE next == [step |-> "trace", e |-> handling[h].e,
                      created |-> handling[h].created, known |-> trace]
  <1>1. job \in Job /\ handling[h].e \in Events /\ handling[h].created \in BOOLEAN
    BY AtWork DEF ReadTrace, At
  <1>2. trace \in TraceStatuses /\ (trace = "COMPLETED" => Reported)
    BY DEF Inv, TypeOK, CompletionIsReported, Reported, TraceStatuses
  <1>3. next \in HandlerStates
    BY <1>1, <1>2 DEF HandlerStates
  <1>4. handling[h].e \in ledger /\ ledger' = ledger
    BY DEF Inv, HandlersOK, ReadTrace, At
  <1>5. handling' = [handling EXCEPT ![h] = next]
    BY DEF ReadTrace, Handle
  <1>6. HandlerMoves(h)
    BY <1>1, <1>2, <1>3, <1>4, <1>5 DEF HandlerMoves, ReadTrace
  <1>7. QED
    BY <1>6, QuietIsAllowed, HandlerKeepsInv DEF ReadTrace

\* Where a handler goes after a projection.
LEMMA ProjectionMoves ==
  ASSUME Inv, NEW h \in Handlers, handling[h].step \in {"trace", "commit", "problem", "job"},
         \/ Answer(h)
         \/ \E step \in {"commit", "problem", "job"} :
              Proceed(h, step) /\ handling[h].e.type \notin {"rejected", "progress"},
         UNCHANGED <<ledger, workerVars>>
  PROVE  HandlerMoves(h)
  <1>1. handling[h].e \in ledger
    BY DEF Inv, HandlersOK
  <1>2. job \in Job
    BY AtWork
  <1>3. CASE Answer(h)
    <2> DEFINE next == [step |-> "idle"]
    <2>1. next \in HandlerStates /\ handling' = [handling EXCEPT ![h] = next]
      BY <1>3 DEF Answer, HandlerStates
    <2>2. next.step = "idle"
      OBVIOUS
    <2>3. QED
      BY <2>1, <2>2 DEF HandlerMoves
  <1>4. CASE \E step \in {"commit", "problem", "job"} :
               Proceed(h, step) /\ handling[h].e.type \notin {"rejected", "progress"}
    <2>1. PICK step \in {"commit", "problem", "job"} :
            Proceed(h, step) /\ handling[h].e.type \notin {"rejected", "progress"}
      BY <1>4
    <2> DEFINE next == [step |-> step, e |-> handling[h].e,
                        created |-> handling[h].created, known |-> handling[h].known]
    <2>2. next \in HandlerStates
      BY AtWork DEF HandlerStates
    <2>3. handling' = [handling EXCEPT ![h] = next]
      <3>1. handling[h] = [step |-> handling[h].step, e |-> handling[h].e,
                           created |-> handling[h].created, known |-> handling[h].known]
        BY AtWork
      <3> HIDE DEF next
      <3>2. \A s, e, c, k : [[step |-> s, e |-> e, created |-> c, known |-> k]
                                EXCEPT !.step = step]
                           = [step |-> step, e |-> e, created |-> c, known |-> k]
        OBVIOUS
      <3> USE DEF next
      <3>3. [handling[h] EXCEPT !.step = step] = next
        BY <3>1, <3>2
      <3>4. QED
        BY <2>1, <3>3 DEF Proceed
    <2>4. QED
      BY <1>1, <1>2, <2>1, <2>2, <2>3 DEF HandlerMoves
  <1>5. QED
    BY <1>3, <1>4

\* The event that completes a record is on the ledger.
LEMMA CompletingEvent ==
  ASSUME Inv, NEW h \in Handlers, handling[h].step \in {"trace", "commit", "problem", "job"},
         handling[h].e.type = "run.completed"
  PROVE  Reported
  BY DEF Inv, HandlersOK, Reported

LEMMA ProjectTraceKeepsInv ==
  ASSUME Inv, NEW h \in Handlers, ProjectTrace(h)
  PROVE  Inv'
  <1>1. handling[h].step = "trace"
    BY DEF ProjectTrace, At
  <1>2. handling[h].e.type \in EventTypes /\ handling[h].known \in TraceStatuses
    BY <1>1, AtWork
  <1>3. /\ trace' \in TraceStatuses
        /\ trace' = "COMPLETED" => \/ handling[h].e.type = "run.completed"
                                   \/ handling[h].known = "COMPLETED"
    BY <1>2 DEF ProjectTrace, TraceAfter, EventTypes, TraceStatuses, None
  <1>4. trace' = "COMPLETED" => Reported
    BY <1>1, <1>3, CompletingEvent DEF Inv, HandlersOK
  <1>5. Allowed
    BY <1>3, <1>4 DEF ProjectTrace, Inv, TypeOK, Allowed, CompletionIsReported, Exists,
                      Reported, jobVars, hermesVars
  <1>6. HandlerMoves(h)
    BY <1>1, ProjectionMoves DEF ProjectTrace
  <1>7. QED
    BY <1>5, <1>6, HandlerKeepsInv

LEMMA ProjectRecordKeepsInv ==
  ASSUME Inv, NEW h \in Handlers, ProjectCommit(h) \/ ProjectProblem(h)
  PROVE  Inv'
  <1>1. handling[h].step \in {"commit", "problem"}
    BY DEF ProjectCommit, ProjectProblem, At
  <1>2. handling[h].e.type \in EventTypes /\ handling[h].e.type \notin {"rejected", "progress"}
    BY <1>1, AtWork DEF Inv, HandlersOK
  <1>3. CASE ProjectCommit(h)
    <2>1. /\ commit' \in {"queued", "running", "waiting_review", "completed", "failed"}
          /\ commit' = "completed" => handling[h].e.type = "run.completed"
      BY <1>2, <1>3 DEF ProjectCommit, EventTypes
    <2>2. commit' = "completed" => Reported
      BY <1>1, <2>1, CompletingEvent
    <2>3. Allowed
      BY <1>3, <2>1, <2>2, RecordWriteIsAllowed DEF ProjectCommit, Inv, TypeOK
    <2>4. HandlerMoves(h)
      BY <1>1, <1>2, <1>3, ProjectionMoves DEF ProjectCommit
    <2>5. QED
      BY <2>3, <2>4, HandlerKeepsInv
  <1>4. CASE ProjectProblem(h)
    <2>1. problem' \in {"in_progress", "waiting", "resolved"}
      BY <1>2, <1>4 DEF ProjectProblem, EventTypes
    <2>2. Allowed
      BY <1>4, <2>1, RecordWriteIsAllowed DEF ProjectProblem, Inv, TypeOK
    <2>3. HandlerMoves(h)
      BY <1>1, <1>2, <1>4, ProjectionMoves DEF ProjectProblem
    <2>4. QED
      BY <2>2, <2>3, HandlerKeepsInv
  <1>5. QED
    BY <1>3, <1>4

LEMMA ProjectJobKeepsInv ==
  ASSUME Inv, NEW h \in Handlers, ProjectJob(h)
  PROVE  Inv'
  <1>1. handling[h].step = "job" /\ job \in Job
    BY AtWork DEF ProjectJob, At
  <1>2. \A s \in {"running", "waiting_review", "completed"} :
          /\ WithStatus(job, s) \in Job /\ WithStatus(job, s).status = s
          /\ Released(WithStatus(job, s)) \in Job
          /\ Released(WithStatus(job, s)).status = s
    BY <1>1, WithStatusFields, ReleasedFields DEF Statuses
  <1>3. /\ job' \in Job
        /\ job'.status = "completed" => handling[h].e.type = "run.completed"
    BY <1>1, <1>2, FailedIsNotCompleted DEF ProjectJob
  <1>4. Allowed
    BY <1>1, <1>3, CompletingEvent, JobWriteIsAllowed DEF ProjectJob, Inv, TypeOK
  <1>5. HandlerMoves(h)
    BY <1>1, ProjectionMoves DEF ProjectJob
  <1>6. QED
    BY <1>4, <1>5, HandlerKeepsInv

-----------------------------------------------------------------------------
LEMMA WorkKeepsInv ==
  ASSUME Inv, NEW w \in Workers, Work(w)
  PROVE  Inv'
  BY ClaimsKeepInv, DecisionsKeepInv, FinalizeRunKeepsInv, LeaveInReviewKeepsInv,
     DispatchKeepsInv, MarkDispatchedKeepsInv, RecordStepsKeepInv, SettleKeepsInv,
     FailKeepsInv
  DEF Work

LEMMA HandlerStepKeepsInv ==
  ASSUME Inv, NEW h \in Handlers, HandlerStep(h)
  PROVE  Inv'
  BY ReceiveKeepsInv, AppendKeepsInv, ReadTraceKeepsInv, ProjectTraceKeepsInv,
     ProjectRecordKeepsInv, ProjectJobKeepsInv
  DEF HandlerStep

LEMMA StutterKeepsInv ==
  ASSUME Inv, UNCHANGED vars
  PROVE  Inv'
  <1>1. Allowed
    BY QuietIsAllowed DEF vars
  <1>2. WorkerMoves
    BY DEF vars, workerVars, jobVars, Inv, TypeOK, Busy, ReadersOK, WorkerMoves
  <1>3. QED
    BY <1>1, <1>2, WorkerKeepsInv DEF vars

LEMMA Invariance == Spec => []Inv
  <1>1. Inv /\ [Next]_vars => Inv'
    BY OthersKeepInv, WorkKeepsInv, DecisionsKeepInv, HermesKeepsInv, HandlerStepKeepsInv,
       StutterKeepsInv
    DEF Next
  <1>2. QED
    BY InitInv, <1>1, PTL DEF Spec

\* Every reachable state is well typed, for any workers, handlers and bounds.
THEOREM HermesTypesHold == Spec => []TypeOK
  <1>1. Inv => TypeOK
    BY DEF Inv
  <1>2. QED
    BY Invariance, <1>1, PTL

\* Neither commit nor trace nor job counts as completed unless the ledger has
\* Hermes' report that a run was completed, in whatever order workers,
\* handlers and operators take their steps.
THEOREM NothingCompletesUnreported == Spec => []CompletionIsReported
  <1>1. Inv => CompletionIsReported
    BY DEF Inv
  <1>2. QED
    BY Invariance, <1>1, PTL

-----------------------------------------------------------------------------
\* The refinement.  The token of a worker was granted for the job.
TokensGranted ==
  \A w \in Workers : token[w] <= issued /\ (at[w] # "idle" => token[w] # 0)

LEMMA TokensStay ==
  ASSUME TokensGranted, UNCHANGED <<workerVars, issued>>
  PROVE  TokensGranted'
  BY DEF workerVars, TokensGranted

LEMMA LeaveGranted ==
  ASSUME Inv, TokensGranted, NEW w \in Workers, Leave(w), issued' = issued
  PROVE  TokensGranted'
  <1>1. /\ \A v \in Workers : v # w => at'[v] = at[v] /\ token'[v] = token[v]
        /\ at'[w] = "idle" /\ token'[w] = 0
    BY LeaveType DEF Inv, TypeOK, Leave
  <1>2. issued' \in Nat
    BY HermesRunAssumption DEF HermesRunAssumption, Inv, TypeOK
  <1>3. QED
    BY <1>1, <1>2 DEF TokensGranted

LEMMA ContinueGranted ==
  ASSUME Inv, TokensGranted, NEW w \in Workers, at[w] # "idle", NEW label \in Labels,
         Goto(w, label), UNCHANGED <<token, issued>>
  PROVE  TokensGranted'
  <1>1. \A v \in Workers : v # w => at'[v] = at[v]
    BY GotoType DEF Inv
  <1>2. QED
    BY <1>1 DEF TokensGranted

LEMMA ClaimGranted ==
  ASSUME Inv, TokensGranted, NEW w \in Workers, NEW label \in Labels, NEW claimed \in Job,
         Claim(w, claimed, label)
  PROVE  TokensGranted'
  <1>1. /\ issued \in Nat /\ issued' = issued + 1
        /\ \A v \in Workers : token[v] \in Nat /\ token'[v] \in {token[v], issued + 1}
        /\ token'[w] = issued + 1
    BY HermesRunAssumption DEF HermesRunAssumption, Inv, TypeOK, Claim
  <1>2. \A v \in Workers : v # w => at'[v] = at[v] /\ token'[v] = token[v]
    BY GotoType DEF Inv, TypeOK, Claim
  <1>3. QED
    BY <1>1, <1>2 DEF TokensGranted

LEMMA WorkKeepsTokens ==
  ASSUME Inv, TokensGranted, NEW w \in Workers, Work(w) \/ Crash(w)
  PROVE  TokensGranted'
  <1>1. CASE ClaimDue(w) \/ ClaimReview(w)
    <2>1. job \in Job /\ issued + 1 \in Nat
      BY <1>1, Present DEF Inv, TypeOK, ClaimDue, ClaimReview
    <2>2. CASE ClaimDue(w)
      <3>1. Claimed(job, issued + 1, LeaseTicks) \in Job
        BY <2>1, <2>2, Bounds, ClaimedFields DEF ClaimDue
      <3>2. QED
        BY <2>2, <3>1, ClaimGranted DEF ClaimDue, Labels
    <2>3. CASE ClaimReview(w)
      <3>1. ReviewClaimed(job, issued + 1, LeaseTicks) \in Job
        BY <2>1, <2>3, Bounds, ReviewClaimedFields DEF ClaimReview
      <3>2. QED
        BY <2>3, <3>1, ClaimGranted DEF ClaimReview, Labels
    <2>4. QED
      BY <1>1, <2>2, <2>3
  <1>2. CASE LeaveInReview(w) \/ DispatchFails(w) \/ SaveRoutedProblem(w) \/ Settle(w)
             \/ HoldProblem(w) \/ Crash(w)
    BY <1>2, LeaveGranted
    DEF LeaveInReview, DispatchFails, SaveRoutedProblem, Settle, HoldProblem, Crash, jobVars
  <1>3. CASE Refuse(w) \/ FinalizeRun(w) \/ ChooseHermes(w) \/ Dispatch(w)
             \/ SaveQueuedCommit(w) \/ SaveFinalCommit(w) \/ SaveFinalProblem(w)
             \/ RequeueCommit(w)
    BY <1>3, ContinueGranted
    DEF Refuse, FinalizeRun, ChooseHermes, Dispatch, SaveQueuedCommit, SaveFinalCommit,
        SaveFinalProblem, RequeueCommit, Continue, Labels, jobVars
  <1>4. CASE MarkDispatched(w) \/ AssertFinalizeLease(w) \/ Fail(w)
    <2>1. /\ at[w] # "idle" /\ issued' = issued
          /\ Leave(w) \/ \E label \in Labels : Goto(w, label) /\ UNCHANGED token
      BY <1>4 DEF MarkDispatched, AssertFinalizeLease, Fail, Continue, Labels, jobVars
    <2>2. QED
      BY <2>1, ContinueGranted, LeaveGranted
  <1>5. QED
    BY <1>1, <1>2, <1>3, <1>4 DEF Work

LEMMA StepKeepsTokens ==
  ASSUME Inv, TokensGranted, [Next]_vars
  PROVE  TokensGranted'
  <1>1. CASE \/ Submit \/ RetryJob \/ CancelJob \/ Tick \/ HermesActs \/ UNCHANGED vars
             \/ \E h \in Handlers : HandlerStep(h)
    BY <1>1, TokensStay
    DEF Submit, RetryJob, CancelJob, Tick, HermesActs, vars, HandlerStep, Receive, Append,
        ReadTrace, ProjectTrace, ProjectCommit, ProjectProblem, ProjectJob, jobVars
  <1>2. CASE \E w \in Workers : Work(w) \/ Crash(w)
    BY <1>2, WorkKeepsTokens
  <1>3. QED
    BY <1>1, <1>2 DEF Next

-----------------------------------------------------------------------------
\* The records of the queue are those of the job.
LEMMA SameRecords ==
  /\ \A old, n, left : Queue!Claimed(old, n, left) = Claimed(old, n, left)
  /\ \A old, n, left : Queue!ReviewClaimed(old, n, left) = ReviewClaimed(old, n, left)
  /\ \A old : Queue!Due(old) = Due(old) /\ Queue!ReviewDue(old) = ReviewDue(old)
  /\ \A old, status : Queue!WithStatus(old, status) = WithStatus(old, status)
  /\ \A old : Queue!Released(old) = Released(old)
  /\ \A old, wait : Queue!Failed(old, wait) = Failed(old, wait)
  /\ \A n : Queue!RetryDelay(n) = RetryDelay(n)
  /\ \A old, n : Queue!HoldsLease(old, n) = HoldsLease(old, n)
  /\ \A old : Queue!Retryable(old) = Retryable(old) /\ Queue!Retried(old) = Retried(old)
  /\ \A old : Queue!Cancellable(old) = Cancellable(old) /\ Queue!Cancelled(old) = Cancelled(old)
  /\ \A old : Queue!Aged(old) = Aged(old)
  /\ Queue!QueuedJob = QueuedJob
  BY DEF Queue!Claimed, Claimed, Queue!ReviewClaimed, ReviewClaimed,
         Queue!Due, Due, Queue!ReviewDue, ReviewDue, Queue!ClaimableStatuses, ClaimableStatuses,
         Queue!ActivelyLeased, ActivelyLeased, Queue!Leased, Leased,
         Queue!WithStatus, WithStatus, Queue!Released, Released, Queue!Failed, Failed,
         Queue!HasRetriesLeft, HasRetriesLeft, Queue!RetryDelay, RetryDelay, Queue!Capped, Capped,
         Queue!HoldsLease, HoldsLease, Queue!Retryable, Retryable, Queue!Retried, Retried,
         Queue!Cancellable, Cancellable, Queue!Cancelled, Cancelled, Queue!Aged, Aged,
         Queue!Less, Less, Queue!QueuedJob, QueuedJob

\* The queue of one job: to write its record is to replace it.
LEMMA WriteRow ==
  ASSUME NEW record, job' = record
  PROVE  Queue!Write("job", record)
  BY DEF Queue!Write

LEMMA ExistsRow == Queue!Exists("job") <=> Exists
  BY DEF Queue!Exists, Exists

\* What each of the queue's operations is, of that one job
LEMMA FencedRow ==
  ASSUME Inv, TokensGranted, NEW w \in Workers, at[w] # "idle", HoldsIt(w)
  PROVE  token[w] \in 1..issued /\ Exists /\ Queue!Fenced("job", token[w])
  <1>1. token[w] \in 1..issued
    BY HermesRunAssumption DEF HermesRunAssumption, Inv, TypeOK, TokensGranted
  <1>2. Exists
    BY HermesRunAssumption DEF HermesRunAssumption, Inv, Busy, Exists
  <1>3. QED
    BY <1>1, <1>2, ExistsRow, SameRecords DEF Queue!Fenced, HoldsIt

\* markRouteJobDispatched
LEMMA DispatchedStep ==
  ASSUME Inv, TokensGranted, NEW w \in Workers, at[w] # "idle", HoldsIt(w),
         job' = Released(WithStatus(job, "dispatched")), UNCHANGED <<issued, closedBy>>
  PROVE  Queue!Next
  <1>1. Queue!MarkDispatched("job", token[w])
    BY FencedRow, WriteRow, SameRecords DEF Queue!MarkDispatched
  <1>2. QED
    BY <1>1, FencedRow DEF Queue!FencedWrite, Queue!Next

\* markRouteJobWaitingReview
LEMMA WaitingStep ==
  ASSUME Inv, TokensGranted, NEW w \in Workers, at[w] # "idle", HoldsIt(w),
         job' = Released(WithStatus(job, "waiting_review")), UNCHANGED <<issued, closedBy>>
  PROVE  Queue!Next
  <1>1. Queue!MarkWaitingReview("job", token[w])
    BY FencedRow, WriteRow, SameRecords DEF Queue!MarkWaitingReview
  <1>2. QED
    BY <1>1, FencedRow DEF Queue!FencedWrite, Queue!Next

\* markRouteJobCompleted
LEMMA CompletedStep ==
  ASSUME Inv, TokensGranted, NEW w \in Workers, at[w] # "idle", HoldsIt(w),
         job' = Released(WithStatus(job, "completed")), issued' = issued,
         closedBy' = token[w]
  PROVE  Queue!Next
  <1>1. Queue!MarkCompleted("job", token[w])
    BY FencedRow, WriteRow, SameRecords DEF Queue!MarkCompleted
  <1>2. QED
    BY <1>1, FencedRow DEF Queue!FencedWrite, Queue!Next

\* failRouteJob
LEMMA FailedStep ==
  ASSUME Inv, TokensGranted, NEW w \in Workers, at[w] # "idle", HoldsIt(w),
         NEW wait \in 0..MaxDelay, FailedIn(wait), UNCHANGED <<issued, closedBy>>
  PROVE  Queue!Next
  <1>1. Queue!FailJob("job", token[w], wait)
    BY FencedRow, WriteRow, SameRecords DEF Queue!FailJob, FailedIn
  <1>2. QED
    BY <1>1, FencedRow DEF Queue!FencedWrite, Queue!Next

\* claimDueRouteJobs and claimWaitingReviewRouteJobs
LEMMA ClaimStep ==
  ASSUME Inv, NEW w \in Workers, ClaimDue(w) \/ ClaimReview(w)
  PROVE  Queue!Next
  <1> DEFINE batch == {"job"}
  <1>1. /\ batch # {} /\ Queue!Cardinality(batch) <= 1 /\ batch \in SUBSET {"job"}
    <2>1. Queue!Cardinality(batch) = Cardinality(batch)
      BY DEF Queue!Cardinality, Cardinality
    <2>2. Cardinality(batch) = 1
      BY FS_Singleton
    <2>3. QED
      BY <2>1, <2>2
  <1>2. Exists /\ issued < MaxGrants /\ issued' = issued + 1 /\ closedBy' = closedBy
    BY DEF ClaimDue, ClaimReview, Claim
  <1>3. Queue!GrantTo(batch)
    BY <1>2 DEF Queue!GrantTo
  <1>4. LeaseTicks \in 0..LeaseTicks
    BY Bounds
  <1>5. CASE ClaimDue(w)
    <2>1. Due(job) /\ job' = Claimed(job, issued + 1, LeaseTicks)
      BY <1>5 DEF ClaimDue, Claim
    <2>2. Queue!ClaimDue(batch, LeaseTicks)
      BY <1>1, <1>2, <1>3, <2>1, ExistsRow, SameRecords DEF Queue!ClaimDue
    <2>3. QED
      BY <1>1, <1>4, <2>2 DEF Queue!Next
  <1>6. CASE ClaimReview(w)
    <2>1. ReviewDue(job) /\ job' = ReviewClaimed(job, issued + 1, LeaseTicks)
      BY <1>6 DEF ClaimReview, Claim
    <2>2. Queue!ClaimWaitingReview(batch, LeaseTicks)
      BY <1>1, <1>2, <1>3, <2>1, ExistsRow, SameRecords DEF Queue!ClaimWaitingReview
    <2>3. QED
      BY <1>1, <1>4, <2>2 DEF Queue!Next
  <1>7. QED
    BY <1>5, <1>6

\* The submission, operators and the clock
LEMMA OthersStep ==
  ASSUME Inv, Submit \/ RetryJob \/ CancelJob \/ Tick
  PROVE  Queue!Next
  <1>1. CASE Submit
    <2>1. Queue!Enqueue("job")
      BY <1>1, ExistsRow, WriteRow, SameRecords DEF Submit, Queue!Enqueue
    <2>2. QED
      BY <2>1 DEF Queue!Next
  <1>2. CASE RetryJob
    <2>1. Queue!RetryJob("job")
      BY <1>2, ExistsRow, WriteRow, SameRecords DEF RetryJob, Queue!RetryJob
    <2>2. QED
      BY <2>1 DEF Queue!Next
  <1>3. CASE CancelJob
    <2>1. Queue!CancelJob("job")
      BY <1>3, ExistsRow, WriteRow, SameRecords DEF CancelJob, Queue!CancelJob
    <2>2. QED
      BY <2>1 DEF Queue!Next
  <1>4. CASE Tick
    <2>1. Queue!Tick
      BY <1>4, ExistsRow, SameRecords DEF Tick, Queue!Tick, Queue!Exists
    <2>2. QED
      BY <2>1 DEF Queue!Next
  <1>5. QED
    BY <1>1, <1>2, <1>3, <1>4

\* updateRouteJobStatus and failRouteJob without a token, for an event
LEMMA ProjectJobStep ==
  ASSUME Inv, NEW h \in Handlers, ProjectJob(h)
  PROVE  Queue!Next
  <1>1. Exists
    BY HermesRunAssumption, AtWork DEF HermesRunAssumption, ProjectJob, At, Exists
  <1>2. UNCHANGED <<issued, closedBy>>
    BY DEF ProjectJob
  <1>3. CASE \/ job' = WithStatus(job, "running")
             \/ \E status \in {"waiting_review", "completed"} :
                  job' = Released(WithStatus(job, status))
    <2>1. Queue!HermesStatus("job")
      BY <1>1, <1>2, <1>3, ExistsRow, WriteRow, SameRecords DEF Queue!HermesStatus
    <2>2. QED
      BY <2>1 DEF Queue!Next, Queue!UnfencedWrite
  <1>4. CASE \E wait \in 0..MaxDelay : FailedIn(wait)
    <2>1. PICK wait \in 0..MaxDelay : FailedIn(wait)
      BY <1>4
    <2>2. Queue!HermesFail("job", wait)
      BY <1>1, <1>2, <2>1, ExistsRow, WriteRow, SameRecords DEF Queue!HermesFail, FailedIn
    <2>3. QED
      BY <2>2 DEF Queue!Next, Queue!UnfencedWrite
  <1>5. QED
    BY <1>3, <1>4 DEF ProjectJob

\* A step that leaves the job alone
LEMMA QueueStays ==
  ASSUME UNCHANGED jobVars
  PROVE  UNCHANGED Queue!vars
  BY DEF jobVars, Queue!vars

LEMMA WorkStep ==
  ASSUME Inv, TokensGranted, NEW w \in Workers, Work(w) \/ Crash(w)
  PROVE  [Queue!Next]_(Queue!vars)
  <1>1. CASE ClaimDue(w) \/ ClaimReview(w)
    BY <1>1, ClaimStep
  <1>2. CASE UNCHANGED jobVars
    BY <1>2, QueueStays
  <1>3. CASE LeaveInReview(w) /\ HoldsIt(w)
    BY <1>3, WaitingStep DEF LeaveInReview
  <1>4. CASE MarkDispatched(w) /\ HoldsIt(w)
    BY <1>4, DispatchedStep DEF MarkDispatched
  <1>5. CASE Fail(w) /\ HoldsIt(w)
    BY <1>5, FailedStep DEF Fail
  <1>6. CASE Settle(w) /\ HoldsIt(w)
    BY <1>6, WaitingStep, CompletedStep, FailedStep DEF Settle
  <1>7. QED
    BY <1>1, <1>2, <1>3, <1>4, <1>5, <1>6
    DEF Work, LeaveInReview, MarkDispatched, Fail, Settle, Crash, Refuse, FinalizeRun,
        ChooseHermes, Dispatch, DispatchFails, SaveQueuedCommit, SaveRoutedProblem,
        AssertFinalizeLease, SaveFinalCommit, SaveFinalProblem, RequeueCommit, HoldProblem, jobVars

LEMMA StepOfQueue ==
  ASSUME Inv, TokensGranted, [Next]_vars
  PROVE  [Queue!Next]_(Queue!vars)
  <1>1. CASE Submit \/ RetryJob \/ CancelJob \/ Tick
    BY <1>1, OthersStep
  <1>2. CASE \E w \in Workers : Work(w) \/ Crash(w)
    BY <1>2, WorkStep
  <1>3. CASE \E h \in Handlers : ProjectJob(h)
    BY <1>3, ProjectJobStep
  <1>4. CASE UNCHANGED jobVars
    BY <1>4, QueueStays
  <1>5. QED
    BY <1>1, <1>2, <1>3, <1>4
    DEF Next, HermesActs, vars, HandlerStep, Receive, Append, ReadTrace, ProjectTrace,
        ProjectCommit, ProjectProblem, jobVars

\* Workers and event handlers implement the queue: whatever is late, repeated,
\* reordered or crashed, each write to a job that Hermes executes is one that
\* RouteJobQueue allows, so what is proved about the queue holds of it.
THEOREM HandlersKeepToTheQueue == Spec => ImplementsQueue
  <1>1. Init => TokensGranted /\ Queue!Init
    BY DEF Init, TokensGranted, Queue!Init
  <1>2. Inv /\ TokensGranted /\ [Next]_vars => TokensGranted' /\ [Queue!Next]_(Queue!vars)
    BY StepKeepsTokens, StepOfQueue
  <1>3. QED
    BY <1>1, <1>2, Invariance, PTL DEF Spec, ImplementsQueue, Queue!Spec

-----------------------------------------------------------------------------
\* Dispatched jobs.  A worker that gives the job to Hermes gives up its lease.
DispatchedIsFree == Exists /\ job.status = "dispatched" => job.token = 0

\* Every write to the job, and who makes it
JobWrite ==
  \/ job' = job
  \/ ~Exists /\ job' = QueuedJob
  \/ Exists /\ Retryable(job) /\ job' = Retried(job)
  \/ Exists /\ job' = Cancelled(job)
  \/ Exists /\ job' = Aged(job)
  \/ Exists /\ Due(job) /\ job' = Claimed(job, issued + 1, LeaseTicks)
  \/ Exists /\ ReviewDue(job) /\ job' = ReviewClaimed(job, issued + 1, LeaseTicks)
  \/ /\ \/ \E w \in Workers : at[w] # "idle" /\ HoldsIt(w)
        \/ \E h \in Handlers : At(h, "job")
     /\ \/ job' = WithStatus(job, "running") /\ \E h \in Handlers : At(h, "job")
        \/ \E status \in {"dispatched", "waiting_review", "completed"} :
             job' = Released(WithStatus(job, status))
        \/ \E wait \in 0..MaxDelay : job' = Failed(job, wait)

LEMMA StepWrites ==
  ASSUME [Next]_vars
  PROVE  JobWrite
  <1>1. CASE Submit \/ RetryJob \/ CancelJob \/ Tick
    BY <1>1 DEF Submit, RetryJob, CancelJob, Tick, JobWrite
  <1>2. ASSUME NEW w \in Workers, ClaimDue(w) \/ ClaimReview(w) PROVE JobWrite
    BY <1>2 DEF ClaimDue, ClaimReview, Claim, JobWrite
  <1>3. ASSUME NEW w \in Workers, LeaveInReview(w) \/ MarkDispatched(w) PROVE JobWrite
    BY <1>3 DEF LeaveInReview, MarkDispatched, JobWrite
  <1>4. ASSUME NEW w \in Workers, Settle(w) \/ Fail(w) PROVE JobWrite
    BY <1>4 DEF Settle, Fail, FailedIn, JobWrite
  <1>5. ASSUME NEW h \in Handlers, ProjectJob(h) PROVE JobWrite
    BY <1>5 DEF ProjectJob, FailedIn, JobWrite
  <1>6. CASE job' = job
    BY <1>6 DEF JobWrite
  <1>7. \/ \E w \in Workers : Work(w) \/ Crash(w)
        \/ \E h \in Handlers : HandlerStep(h)
        \/ HermesActs \/ UNCHANGED vars \/ Submit \/ RetryJob \/ CancelJob \/ Tick
    BY DEF Next
  <1>8. CASE HermesActs \/ UNCHANGED vars
    BY <1>6, <1>8 DEF HermesActs, vars, jobVars
  <1>9. ASSUME NEW w \in Workers, Work(w) \/ Crash(w) PROVE JobWrite
    BY <1>2, <1>3, <1>4, <1>6, <1>9
    DEF Work, Crash, Refuse, FinalizeRun, ChooseHermes, Dispatch, DispatchFails,
        SaveQueuedCommit, SaveRoutedProblem, AssertFinalizeLease, SaveFinalCommit,
        SaveFinalProblem, RequeueCommit, HoldProblem, jobVars
  <1>10. ASSUME NEW h \in Handlers, HandlerStep(h) PROVE JobWrite
    BY <1>5, <1>6, <1>10
    DEF HandlerStep, Receive, Append, ReadTrace, ProjectTrace, ProjectCommit, ProjectProblem,
        jobVars
  <1> QED BY <1>1, <1>7, <1>8, <1>9, <1>10

LEMMA StepKeepsDispatchedFree ==
  ASSUME Inv, DispatchedIsFree, JobWrite
  PROVE  DispatchedIsFree'
  <1>1. CASE job' = job
    BY <1>1 DEF DispatchedIsFree, Exists
  <1>2. CASE job' = QueuedJob
    BY <1>2, QueuedJobFields DEF DispatchedIsFree
  <1>3. CASE Exists /\ ((Retryable(job) /\ job' = Retried(job)) \/ job' = Cancelled(job))
    BY <1>3, Present, RetriedFields, CancelledFields DEF DispatchedIsFree, Inv
  <1>4. CASE Exists /\ job' = Aged(job)
    BY <1>4, Present, AgedFields DEF DispatchedIsFree, Inv
  <1>5. ASSUME Exists PROVE job \in Job /\ issued + 1 \in Nat /\ LeaseTicks \in 0..LeaseTicks
    BY <1>5, Present, Bounds, HermesRunAssumption DEF Inv, TypeOK, HermesRunAssumption
  <1>6. CASE Exists /\ Due(job) /\ job' = Claimed(job, issued + 1, LeaseTicks)
    BY <1>5, <1>6, ClaimedFields DEF DispatchedIsFree
  <1>7. CASE Exists /\ ReviewDue(job) /\ job' = ReviewClaimed(job, issued + 1, LeaseTicks)
    BY <1>5, <1>7, ReviewClaimedFields DEF DispatchedIsFree, ReviewDue
  <1>8. CASE \/ \E w \in Workers : at[w] # "idle"
             \/ \E h \in Handlers : At(h, "job")
    <2>1. job \in Job
      BY <1>8, AtWork DEF Inv, Busy, At
    <2>2. CASE job' = WithStatus(job, "running")
      BY <2>1, <2>2, WithStatusFields DEF DispatchedIsFree, Statuses
    <2>3. ASSUME NEW status \in {"dispatched", "waiting_review", "completed"},
                 job' = Released(WithStatus(job, status))
          PROVE  DispatchedIsFree'
      BY <2>1, <2>3, WithStatusFields, ReleasedFields DEF DispatchedIsFree, Statuses
    <2>4. ASSUME NEW wait \in 0..MaxDelay, job' = Failed(job, wait) PROVE DispatchedIsFree'
      BY <2>1, <2>4, FailedFields DEF DispatchedIsFree
    <2> QED BY <1>1, <1>2, <1>3, <1>4, <1>6, <1>7, <2>2, <2>3, <2>4 DEF JobWrite
  <1> QED BY <1>1, <1>2, <1>3, <1>4, <1>6, <1>7, <1>8 DEF JobWrite

\* Nobody holds a dispatched job, and nobody may claim, retry or fail it.
LEMMA DispatchedStays ==
  ASSUME Inv, TokensGranted, DispatchedIsFree, Exists, job.status = "dispatched", JobWrite,
         job'.status # "dispatched"
  PROVE  job'.status = "cancelled" \/ \E h \in Handlers : At(h, "job")
  <1>1. job \in Job /\ job.token = 0
    BY Present DEF Inv, DispatchedIsFree
  <1>2. ~Retryable(job) /\ ~Due(job) /\ ~ReviewDue(job)
    BY DEF Retryable, Due, ReviewDue, ClaimableStatuses
  <1>3. ASSUME NEW w \in Workers, at[w] # "idle" PROVE ~HoldsIt(w)
    BY <1>1, <1>3 DEF TokensGranted, HoldsIt, HoldsLease
  <1>4. job' # job /\ job' # Aged(job)
    BY <1>1, AgedFields
  <1>5. Cancelled(job).status = "cancelled"
    BY <1>1, CancelledFields
  <1> QED BY <1>2, <1>3, <1>4, <1>5 DEF JobWrite

\* A job that was dispatched waits for Hermes, whatever workers and operators
\* do and however long Hermes takes: only an event that Hermes reported moves
\* it on, or an operator cancels it (claimRouteJobCandidates never takes a
\* dispatched job, and markDispatched gave up the lease).
THEOREM DispatchedJobsWait == Spec => DispatchedWaitsForHermes
  <1>1. Init => TokensGranted /\ DispatchedIsFree
    BY DEF Init, TokensGranted, DispatchedIsFree, Exists
  <1>2. Inv /\ TokensGranted /\ DispatchedIsFree /\ [Next]_vars
          => TokensGranted' /\ DispatchedIsFree'
    BY StepKeepsTokens, StepWrites, StepKeepsDispatchedFree
  <1>3. Inv /\ TokensGranted /\ DispatchedIsFree /\ [Next]_vars
          => [Exists /\ job.status = "dispatched" /\ job'.status # "dispatched"
                => job'.status = "cancelled" \/ \E h \in Handlers : At(h, "job")]_vars
    BY StepWrites, DispatchedStays
  <1>4. QED
    BY <1>1, <1>2, <1>3, Invariance, PTL DEF Spec, DispatchedWaitsForHermes
=============================================================================
