------------------------ MODULE RouteJobWorkerProofs ------------------------
(***************************************************************************)
(* Theorems about RouteJobWorker, for any jobs, any number of workers that *)
(* may stall or crash anywhere, and any delays: each of their writes to a  *)
(* job is one the queue allows, at most one of them can still write a job, *)
(* a job is run at most as often as it was claimed, and its three records  *)
(* agree unless a worker died or was overtaken between two of them.        *)
(***************************************************************************)
EXTENDS RouteJobWorker, RouteJobProofs

\* A worker with no job in hand
Between == {"idle", "reviewing", "working"}

\* The tokens of a batch were granted for jobs that are there; the job in hand
\* has one.
Handed ==
  \A w \in Workers :
    /\ \A j \in Jobs : batch[w][j] <= issued[j] /\ (batch[w][j] # 0 => jobs[j] \in Job)
    /\ pc[w] \notin Between => cur[w].job \in Jobs /\ Token(w) # 0

-----------------------------------------------------------------------------
\* The records of the queue are the worker's.
LEMMA SameRecords ==
  /\ \A job, left : Queue!Renewed(job, left) = Renewed(job, left)
  /\ \A job, token, left : Queue!Claimed(job, token, left) = Claimed(job, token, left)
  /\ \A job, token, left : Queue!ReviewClaimed(job, token, left) = ReviewClaimed(job, token, left)
  /\ \A job : Queue!Due(job) = Due(job) /\ Queue!ReviewDue(job) = ReviewDue(job)
  /\ \A job, status : Queue!WithStatus(job, status) = WithStatus(job, status)
  /\ \A job : Queue!Released(job) = Released(job)
  /\ \A job, wait : Queue!Failed(job, wait) = Failed(job, wait)
  /\ \A n : Queue!RetryDelay(n) = RetryDelay(n)
  /\ \A job, token : Queue!HoldsLease(job, token) = HoldsLease(job, token)
  /\ \A job : Queue!Retryable(job) = Retryable(job) /\ Queue!Retried(job) = Retried(job)
  /\ \A job : Queue!Cancellable(job) = Cancellable(job) /\ Queue!Cancelled(job) = Cancelled(job)
  /\ \A job : Queue!Aged(job) = Aged(job)
  /\ Queue!QueuedJob = QueuedJob
  /\ \A j : Queue!Exists(j) = Exists(j)
  BY DEF Queue!Renewed, Renewed, Queue!Claimed, Claimed, Queue!ReviewClaimed, ReviewClaimed,
         Queue!Due, Due, Queue!ReviewDue, ReviewDue, Queue!ClaimableStatuses, ClaimableStatuses,
         Queue!ActivelyLeased, ActivelyLeased, Queue!Leased, Leased,
         Queue!WithStatus, WithStatus, Queue!Released, Released, Queue!Failed, Failed,
         Queue!HasRetriesLeft, HasRetriesLeft, Queue!RetryDelay, RetryDelay, Queue!Capped, Capped,
         Queue!HoldsLease, HoldsLease, Queue!Retryable, Retryable, Queue!Retried, Retried,
         Queue!Cancellable, Cancellable, Queue!Cancelled, Cancelled, Queue!Aged, Aged,
         Queue!Less, Less, Queue!QueuedJob, QueuedJob, Queue!Exists, Exists

-----------------------------------------------------------------------------
\* Facts about the job a worker has in hand.
LEMMA HandFacts ==
  ASSUME TypeOK, Handed, NEW w \in Workers, pc[w] \notin Between
  PROVE  /\ cur[w].job \in Jobs /\ InHand(w) \in Job
         /\ Token(w) \in 1..issued[cur[w].job] /\ Token(w) \in 0..MaxGrants
         /\ HoldsIt(w) => InHand(w).token = Token(w)
  <1>1. cur[w].job \in Jobs /\ Token(w) # 0 /\ InHand(w) \in Job
    BY DEF Handed, Token, InHand
  <1>2. batch[w][cur[w].job] \in 0..MaxGrants /\ issued[cur[w].job] \in 0..MaxGrants
    BY <1>1 DEF TypeOK
  <1>3. batch[w][cur[w].job] <= issued[cur[w].job]
    BY <1>1 DEF Handed
  <1>4. QED
    BY <1>1, <1>2, <1>3, RouteJobWorkerAssumption
    DEF RouteJobWorkerAssumption, HoldsIt, HoldsLease, Token

\* What is left of a lease or of a delay, counted from an old clock reading
LEMMA LeftFacts ==
  ASSUME TypeOK, NEW w \in Workers, NEW ticks \in Nat
  PROVE  Left(ticks, w) \in 0..ticks
  <1>1. age[w] \in Nat
    BY Bounds DEF TypeOK, MaxAge
  <1>2. QED
    BY <1>1 DEF Left

\* The delay of a failure
LEMMA DelayFacts ==
  ASSUME TypeOK, Handed, NEW w \in Workers, pc[w] \notin Between
  PROVE  LET wait == Left(RetryDelay(InHand(w).attempt), w)
         IN  wait \in 0..MaxDelay /\ wait <= RetryDelay(InHand(w).attempt)
  <1> DEFINE delay == RetryDelay(InHand(w).attempt)
  <1>1. InHand(w).attempt \in Nat
    BY HandFacts, Bounds DEF Job
  <1>2. delay \in Nat
    BY <1>1, DelayType
  <1>3. delay <= MaxDelay
    BY <1>2, Bounds DEF RetryDelay, Capped
  <1> HIDE DEF delay
  <1>4. Left(delay, w) \in 0..delay
    BY <1>2, LeftFacts
  <1>5. Left(delay, w) \in 0..MaxDelay /\ Left(delay, w) <= delay
    BY <1>2, <1>3, <1>4, Bounds
  <1>6. QED
    BY <1>5 DEF delay

LEMMA FailedNowFacts ==
  ASSUME TypeOK, Handed, NEW w \in Workers, pc[w] \notin Between
  PROVE  FailedNow(w) \in Job /\ FailedNow(w).token = 0
  <1> DEFINE wait == Left(RetryDelay(InHand(w).attempt), w)
  <1>1. wait \in 0..MaxDelay
    BY DelayFacts
  <1> HIDE DEF wait
  <1>2. Failed(InHand(w), wait) \in Job /\ Failed(InHand(w), wait).token = 0
    BY <1>1, HandFacts, FailedFields
  <1>3. QED
    BY <1>2 DEF FailedNow, wait

-----------------------------------------------------------------------------
\* Type correctness, the records of the store and the workers' variables apart
StoreTyped ==
  /\ jobs \in [Jobs -> Job \cup {NoJob}]
  /\ issued \in [Jobs -> 0..MaxGrants] /\ closedBy \in [Jobs -> 0..MaxGrants]
  /\ linked \in [Jobs -> BOOLEAN]
  /\ commits \in [Jobs -> {None, "queued", "running", "waiting_review", "completed", "failed"}]
  /\ problems \in [Problems -> {None, "routed", "in_progress", "waiting"}]
  /\ author \in [Problems -> Jobs \cup {None}]
  /\ broken \subseteq Jobs
  /\ traces \in [Jobs -> Results \cup {None}]
  /\ runs \in [Jobs -> Nat]
  /\ overtaken \subseteq Jobs /\ died \subseteq Jobs
  /\ crashes \in 0..MaxCrashes

WorkersTyped ==
  /\ pc \in [Workers -> Labels] /\ mode \in [Workers -> {"reviewing", "working"}]
  /\ age \in [Workers -> 0..MaxAge]
  /\ batch \in [Workers -> [Jobs -> 0..MaxGrants]] /\ traced \in [Workers -> SUBSET Jobs]
  /\ cur \in [Workers -> [job : Jobs \cup {None}, result : Results \cup {None}, dead : BOOLEAN]]

\* The ways a worker moves on.
LEMMA NextJobTypes ==
  ASSUME TypeOK, NEW w \in Workers, cur[w].job \in Jobs, NextJob(w)
  PROVE  WorkersTyped'
  <1>1. mode[w] \in Labels /\ 0 \in 0..MaxGrants
    BY RouteJobWorkerAssumption DEF RouteJobWorkerAssumption, TypeOK, Labels
  <1>2. Nothing \in [job : Jobs \cup {None}, result : Results \cup {None}, dead : BOOLEAN]
    BY DEF Nothing
  <1>3. pc' \in [Workers -> Labels]
    BY <1>1 DEF TypeOK, NextJob, Goto
  <1>4. batch' \in [Workers -> [Jobs -> 0..MaxGrants]]
    BY <1>1 DEF TypeOK, NextJob
  <1>5. cur' \in [Workers -> [job : Jobs \cup {None}, result : Results \cup {None}, dead : BOOLEAN]]
    BY <1>2 DEF TypeOK, NextJob
  <1>6. QED
    BY <1>3, <1>4, <1>5 DEF TypeOK, WorkersTyped, NextJob

LEMMA LeaveTypes ==
  ASSUME TypeOK, NEW w \in Workers, Leave(w)
  PROVE  WorkersTyped'
  <1>1. NoTokens \in [Jobs -> 0..MaxGrants] /\ 0 \in 0..MaxAge
    BY RouteJobWorkerAssumption, Bounds DEF RouteJobWorkerAssumption, NoTokens, MaxAge
  <1>2. Nothing \in [job : Jobs \cup {None}, result : Results \cup {None}, dead : BOOLEAN]
    BY DEF Nothing
  <1>3. cur' \in [Workers -> [job : Jobs \cup {None}, result : Results \cup {None}, dead : BOOLEAN]]
    BY <1>2 DEF TypeOK, Leave
  <1>4. batch' \in [Workers -> [Jobs -> 0..MaxGrants]] /\ age' \in [Workers -> 0..MaxAge]
    BY <1>1 DEF TypeOK, Leave
  <1>5. QED
    BY <1>3, <1>4 DEF TypeOK, WorkersTyped, Leave, Goto, Labels

-----------------------------------------------------------------------------
\* What the records and the tokens are in every reachable state ...
WorkerInv == TypeOK /\ Handed

\* ... and what a step may do to them.
Sound == WorkerInv' /\ [Queue!Next]_(Queue!vars)

\* Jobs stay, and tokens are not taken back.
Grows ==
  \A j \in Jobs : issued[j] <= issued'[j] /\ (jobs[j] \in Job => jobs'[j] \in Job)

\* The next call about the job in hand, whatever else the worker learns of it.
GoesOn(w) ==
  /\ \E label \in Labels \ (Between \cup {"start"}) : Goto(w, label)
  /\ UNCHANGED <<mode, age, batch, traced>>
  /\ cur' \in [Workers -> [job : Jobs \cup {None}, result : Results \cup {None}, dead : BOOLEAN]]
  /\ \A v \in Workers : cur'[v].job = cur[v].job

LEMMA ContinueGoesOn ==
  ASSUME TypeOK, NEW w \in Workers, NEW label \in Labels \ (Between \cup {"start"}),
         Continue(w, label)
  PROVE  GoesOn(w)
  BY DEF TypeOK, Continue, GoesOn

\* A step that takes tokens away at most, and puts no job into a hand.
LEMMA HandedKept ==
  ASSUME WorkerInv, TypeOK', Grows,
         \A v \in Workers : \A j \in Jobs : batch'[v][j] \in {0, batch[v][j]},
         \A v \in Workers : pc'[v] \notin Between =>
           pc[v] \notin Between /\ cur'[v].job = cur[v].job /\ batch'[v] = batch[v]
  PROVE  WorkerInv'
  <1> SUFFICES ASSUME NEW v \in Workers
               PROVE  /\ \A j \in Jobs : batch'[v][j] <= issued'[j]
                                          /\ (batch'[v][j] # 0 => jobs'[j] \in Job)
                      /\ pc'[v] \notin Between =>
                           cur'[v].job \in Jobs /\ batch'[v][cur'[v].job] # 0
    BY DEF WorkerInv, Handed, Token
  <1>1. ASSUME NEW j \in Jobs
        PROVE  batch'[v][j] <= issued'[j] /\ (batch'[v][j] # 0 => jobs'[j] \in Job)
    <2>1. batch[v][j] \in Nat /\ issued[j] \in Nat /\ issued'[j] \in Nat
      BY RouteJobWorkerAssumption DEF RouteJobWorkerAssumption, WorkerInv, TypeOK
    <2>2. batch[v][j] <= issued[j] /\ (batch[v][j] # 0 => jobs[j] \in Job)
      BY DEF WorkerInv, Handed
    <2>3. issued[j] <= issued'[j] /\ (jobs[j] \in Job => jobs'[j] \in Job)
      BY DEF Grows
    <2>4. batch'[v][j] = 0 \/ batch'[v][j] = batch[v][j]
      OBVIOUS
    <2>5. QED
      BY <2>1, <2>2, <2>3, <2>4
  <1>2. pc[v] \notin Between => cur[v].job \in Jobs /\ batch[v][cur[v].job] # 0
    BY DEF WorkerInv, Handed, Token
  <1>3. QED
    BY <1>1, <1>2

LEMMA GoesOnKeeps ==
  ASSUME WorkerInv, NEW w \in Workers, pc[w] \notin Between, GoesOn(w), StoreTyped', Grows
  PROVE  WorkerInv'
  <1>1. WorkersTyped'
    BY DEF WorkerInv, TypeOK, WorkersTyped, GoesOn, Goto
  <1>2. TypeOK'
    BY <1>1 DEF TypeOK, StoreTyped, WorkersTyped, problemVars, history
  <1>3. \A v \in Workers : pc'[v] \notin Between => pc[v] \notin Between
    BY DEF GoesOn, Goto, WorkerInv, TypeOK
  <1>4. QED
    BY <1>2, <1>3, HandedKept DEF GoesOn

LEMMA NextJobKeeps ==
  ASSUME WorkerInv, NEW w \in Workers, pc[w] \notin Between, NextJob(w), StoreTyped', Grows
  PROVE  WorkerInv'
  <1>1. cur[w].job \in Jobs
    BY DEF WorkerInv, Handed
  <1>2. TypeOK'
    BY <1>1, NextJobTypes DEF WorkerInv, TypeOK, StoreTyped, WorkersTyped, problemVars, history
  <1>3. \A v \in Workers : \A j \in Jobs : batch'[v][j] \in {0, batch[v][j]}
    BY DEF NextJob, WorkerInv, TypeOK
  <1>4. \A v \in Workers : v # w =>
           pc'[v] = pc[v] /\ cur'[v] = cur[v] /\ batch'[v] = batch[v]
    BY DEF NextJob, Goto, WorkerInv, TypeOK
  <1>5. pc'[w] \in Between
    BY DEF NextJob, Goto, WorkerInv, TypeOK, Between
  <1>6. QED
    BY <1>2, <1>3, <1>4, <1>5, HandedKept

LEMMA LeaveKeeps ==
  ASSUME WorkerInv, NEW w \in Workers, Leave(w), StoreTyped', Grows
  PROVE  WorkerInv'
  <1>1. TypeOK'
    BY LeaveTypes DEF WorkerInv, TypeOK, StoreTyped, WorkersTyped, problemVars, history
  <1>2. \A v \in Workers : \A j \in Jobs : batch'[v][j] \in {0, batch[v][j]}
    BY DEF Leave, NoTokens, WorkerInv, TypeOK
  <1>3. \A v \in Workers : v # w =>
           pc'[v] = pc[v] /\ cur'[v] = cur[v] /\ batch'[v] = batch[v]
    BY DEF Leave, Goto, WorkerInv, TypeOK
  <1>4. pc'[w] \in Between
    BY DEF Leave, Goto, WorkerInv, TypeOK, Between
  <1>5. QED
    BY <1>1, <1>2, <1>3, <1>4, HandedKept

\* Nobody moves.
LEMMA StayKeeps ==
  ASSUME WorkerInv, UNCHANGED <<pc, mode, batch, traced, cur>>,
         age' \in [Workers -> 0..MaxAge], StoreTyped', Grows
  PROVE  WorkerInv'
  <1>1. TypeOK'
    BY DEF WorkerInv, TypeOK, StoreTyped, problemVars, history
  <1>2. QED
    BY <1>1, HandedKept

\* A step that does not touch the queue
LEMMA QueueStays ==
  ASSUME TypeOK, UNCHANGED queueVars
  PROVE  Grows /\ [Queue!Next]_(Queue!vars)
  <1>1. UNCHANGED Queue!vars
    BY DEF queueVars, Queue!vars
  <1>2. Grows
    BY RouteJobWorkerAssumption DEF RouteJobWorkerAssumption, TypeOK, queueVars, Grows
  <1>3. QED
    BY <1>1, <1>2

-----------------------------------------------------------------------------
\* Writes to the job in hand.  Its token was granted, and is compared.
LEMMA HandIsFenced ==
  ASSUME WorkerInv, NEW w \in Workers, pc[w] \notin Between, HoldsIt(w)
  PROVE  /\ cur[w].job \in Jobs /\ Token(w) \in 1..issued[cur[w].job]
         /\ Queue!Fenced(cur[w].job, Token(w))
  <1>1. cur[w].job \in Jobs /\ InHand(w) \in Job /\ Token(w) \in 1..issued[cur[w].job]
    BY HandFacts DEF WorkerInv
  <1>2. Exists(cur[w].job)
    BY <1>1, RouteJobWorkerAssumption DEF RouteJobWorkerAssumption, Exists, InHand
  <1>3. QED
    BY <1>1, <1>2, SameRecords DEF Queue!Fenced, HoldsIt, InHand

\* What the write of a record does to the types
LEMMA WriteTypes ==
  ASSUME WorkerInv, NEW w \in Workers, pc[w] \notin Between, NEW job \in Job,
         WriteJob(w, job), UNCHANGED issued
  PROVE  jobs' \in [Jobs -> Job \cup {NoJob}] /\ Grows
  <1>1. jobs' \in [Jobs -> Job \cup {NoJob}]
    BY DEF WriteJob, WorkerInv, TypeOK
  <1>2. Grows
    BY RouteJobWorkerAssumption
    DEF RouteJobWorkerAssumption, WriteJob, WorkerInv, TypeOK, Grows
  <1>3. QED
    BY <1>1, <1>2

\* A fenced write of the hand is a step of the queue.
LEMMA FencedStep ==
  ASSUME WorkerInv, NEW w \in Workers, pc[w] \notin Between, HoldsIt(w),
         Queue!FencedWrite(cur[w].job)
  PROVE  Queue!Next
  BY HandIsFenced DEF Queue!Next

\* renewRouteJobLease
LEMMA RenewStep ==
  ASSUME WorkerInv, NEW w \in Workers, pc[w] \notin Between, HoldsIt(w),
         WriteJob(w, Renewed(InHand(w), LeaseTicks)), UNCHANGED <<issued, closedBy>>
  PROVE  jobs' \in [Jobs -> Job \cup {NoJob}] /\ Grows /\ Queue!Next
  <1>1. Renewed(InHand(w), LeaseTicks) \in Job
    BY HandFacts, Bounds, RenewedFields DEF WorkerInv
  <1>2. Queue!RenewLease(cur[w].job, Token(w), LeaseTicks)
    BY HandIsFenced, SameRecords DEF Queue!RenewLease, Queue!Write, WriteJob, InHand
  <1>3. Queue!FencedWrite(cur[w].job)
    BY <1>2, HandIsFenced, Bounds DEF Queue!FencedWrite
  <1>4. QED
    BY <1>1, <1>3, WriteTypes, FencedStep

\* markRouteJobRunning
LEMMA RunningStep ==
  ASSUME WorkerInv, NEW w \in Workers, pc[w] \notin Between, HoldsIt(w),
         WriteJob(w, WithStatus(InHand(w), "running")), UNCHANGED <<issued, closedBy>>
  PROVE  jobs' \in [Jobs -> Job \cup {NoJob}] /\ Grows /\ Queue!Next
  <1>1. WithStatus(InHand(w), "running") \in Job
    BY HandFacts, WithStatusFields DEF WorkerInv, Statuses
  <1>2. Queue!MarkRunning(cur[w].job, Token(w))
    BY HandIsFenced, SameRecords DEF Queue!MarkRunning, Queue!Write, WriteJob, InHand
  <1>3. Queue!FencedWrite(cur[w].job)
    BY <1>2, HandIsFenced DEF Queue!FencedWrite
  <1>4. QED
    BY <1>1, <1>3, WriteTypes, FencedStep

\* markRouteJobWaitingReview
LEMMA WaitingStep ==
  ASSUME WorkerInv, NEW w \in Workers, pc[w] \notin Between, HoldsIt(w),
         WriteJob(w, Released(WithStatus(InHand(w), "waiting_review"))),
         UNCHANGED <<issued, closedBy>>
  PROVE  jobs' \in [Jobs -> Job \cup {NoJob}] /\ Grows /\ Queue!Next
  <1>1. WithStatus(InHand(w), "waiting_review") \in Job
    BY HandFacts, WithStatusFields DEF WorkerInv, Statuses
  <1>2. Released(WithStatus(InHand(w), "waiting_review")) \in Job
    BY <1>1, ReleasedFields
  <1>3. Queue!MarkWaitingReview(cur[w].job, Token(w))
    BY HandIsFenced, SameRecords DEF Queue!MarkWaitingReview, Queue!Write, WriteJob, InHand
  <1>4. Queue!FencedWrite(cur[w].job)
    BY <1>3, HandIsFenced DEF Queue!FencedWrite
  <1>5. QED
    BY <1>2, <1>4, WriteTypes, FencedStep

\* markRouteJobCompleted
LEMMA CompletedStep ==
  ASSUME WorkerInv, NEW w \in Workers, pc[w] \notin Between, HoldsIt(w),
         WriteJob(w, Released(WithStatus(InHand(w), "completed"))), UNCHANGED issued,
         closedBy' = [closedBy EXCEPT ![cur[w].job] = Token(w)]
  PROVE  /\ jobs' \in [Jobs -> Job \cup {NoJob}] /\ closedBy' \in [Jobs -> 0..MaxGrants]
         /\ Grows /\ Queue!Next
  <1>1. WithStatus(InHand(w), "completed") \in Job
    BY HandFacts, WithStatusFields DEF WorkerInv, Statuses
  <1>2. Released(WithStatus(InHand(w), "completed")) \in Job
    BY <1>1, ReleasedFields
  <1>3. Queue!MarkCompleted(cur[w].job, Token(w))
    BY HandIsFenced, SameRecords DEF Queue!MarkCompleted, Queue!Write, WriteJob, InHand
  <1>4. Queue!FencedWrite(cur[w].job)
    BY <1>3, HandIsFenced DEF Queue!FencedWrite
  <1>5. closedBy' \in [Jobs -> 0..MaxGrants]
    BY HandFacts DEF WorkerInv, TypeOK
  <1>6. QED
    BY <1>2, <1>4, <1>5, WriteTypes, FencedStep

\* failRouteJob
LEMMA FailStep ==
  ASSUME WorkerInv, NEW w \in Workers, pc[w] \notin Between, HoldsIt(w),
         WriteJob(w, FailedNow(w)), UNCHANGED <<issued, closedBy>>
  PROVE  jobs' \in [Jobs -> Job \cup {NoJob}] /\ Grows /\ Queue!Next
  <1> DEFINE wait == Left(RetryDelay(InHand(w).attempt), w)
  <1>1. FailedNow(w) \in Job
    BY FailedNowFacts DEF WorkerInv
  <1>2. wait \in 0..MaxDelay /\ wait <= RetryDelay(InHand(w).attempt)
    BY DelayFacts DEF WorkerInv
  <1>3. WriteJob(w, Failed(InHand(w), wait))
    BY DEF FailedNow
  <1> HIDE DEF wait
  <1>4. Queue!FailJob(cur[w].job, Token(w), wait)
    BY <1>2, <1>3, HandIsFenced, SameRecords DEF Queue!FailJob, Queue!Write, WriteJob, InHand
  <1>5. Queue!FencedWrite(cur[w].job)
    BY <1>2, <1>4, HandIsFenced DEF Queue!FencedWrite
  <1>6. QED
    BY <1>1, <1>5, WriteTypes, FencedStep

-----------------------------------------------------------------------------
\* The calls about the job in hand, one by one.

\* Only records beside the queue are written, and the worker goes on.
LEMMA BesideSound ==
  ASSUME WorkerInv, NEW w \in Workers, pc[w] \notin Between,
         UNCHANGED queueVars, StoreTyped', GoesOn(w) \/ NextJob(w) \/ Leave(w)
  PROVE  Sound
  BY QueueStays, GoesOnKeeps, NextJobKeeps, LeaveKeeps DEF Sound, WorkerInv

LEMMA StartSound ==
  ASSUME WorkerInv, NEW w \in Workers, Start(w)
  PROVE  Sound
  <1>1. pc[w] \notin Between
    BY DEF Start, Between
  <1>2. CASE HoldsIt(w)
    <2>1. jobs' \in [Jobs -> Job \cup {NoJob}] /\ Grows /\ Queue!Next
      BY <1>1, <1>2, RunningStep DEF Start
    <2>2. runs' \in [Jobs -> Nat]
      BY <1>2 DEF Start, WorkerInv, TypeOK
    <2>3. StoreTyped'
      BY <2>1, <2>2 DEF Start, WorkerInv, TypeOK, StoreTyped, problemVars, history
    <2>4. GoesOn(w)
      BY <1>2, ContinueGoesOn DEF Start, WorkerInv, Labels, Between
    <2>5. QED
      BY <1>1, <2>1, <2>3, <2>4, GoesOnKeeps DEF Sound
  <1>3. CASE ~HoldsIt(w)
    <2>1. StoreTyped' /\ UNCHANGED queueVars
      BY <1>3 DEF Start, WorkerInv, TypeOK, StoreTyped, queueVars, problemVars, history
    <2>2. GoesOn(w)
      BY <1>3, ContinueGoesOn DEF Start, WorkerInv, Labels, Between
    <2>3. QED
      BY <1>1, <2>1, <2>2, BesideSound
  <1>4. QED
    BY <1>2, <1>3

LEMMA SaveSound ==
  ASSUME WorkerInv, NEW w \in Workers,
         \/ SaveRunningCommit(w) \/ SaveRunningProblem(w) \/ SaveFinalCommit(w)
         \/ SaveFinalProblem(w) \/ RequeueCommit(w) \/ HoldProblem(w)
  PROVE  Sound
  <1>1. CASE SaveRunningCommit(w)
    <2>1. StoreTyped' /\ UNCHANGED queueVars
      BY <1>1 DEF SaveRunningCommit, WriteCommit, WorkerInv, TypeOK, StoreTyped, queueVars,
          problemVars, history
    <2>2. pc[w] \notin Between /\ GoesOn(w)
      BY <1>1, ContinueGoesOn DEF SaveRunningCommit, WorkerInv, Labels, Between
    <2>3. QED
      BY <2>1, <2>2, BesideSound
  <1>2. CASE SaveRunningProblem(w)
    <2>1. StoreTyped' /\ UNCHANGED queueVars
      BY <1>2 DEF SaveRunningProblem, WriteProblem, WorkerInv, TypeOK, StoreTyped, queueVars,
          problemVars, history
    <2>2. pc[w] \notin Between /\ GoesOn(w)
      BY <1>2, ContinueGoesOn DEF SaveRunningProblem, WorkerInv, Labels, Between
    <2>3. QED
      BY <2>1, <2>2, BesideSound
  <1>3. CASE SaveFinalCommit(w)
    <2>1. CommitStatusOf(cur[w].result) \in {"waiting_review", "completed", "failed"}
      BY DEF CommitStatusOf
    <2>2. StoreTyped' /\ UNCHANGED queueVars
      BY <1>3, <2>1 DEF SaveFinalCommit, WriteCommit, WorkerInv, TypeOK, StoreTyped,
          queueVars, problemVars, history
    <2>3. pc[w] \notin Between /\ GoesOn(w)
      BY <1>3, ContinueGoesOn DEF SaveFinalCommit, WorkerInv, Labels, Between
    <2>4. QED
      BY <2>2, <2>3, BesideSound
  <1>4. CASE SaveFinalProblem(w)
    <2>1. StoreTyped' /\ UNCHANGED queueVars
      BY <1>4 DEF SaveFinalProblem, WriteProblem, WorkerInv, TypeOK, StoreTyped, queueVars,
          problemVars, history
    <2>2. pc[w] \notin Between /\ GoesOn(w)
      BY <1>4, ContinueGoesOn DEF SaveFinalProblem, WorkerInv, Labels, Between
    <2>3. QED
      BY <2>1, <2>2, BesideSound
  <1>5. CASE RequeueCommit(w)
    <2>1. StoreTyped' /\ UNCHANGED queueVars
      BY <1>5 DEF RequeueCommit, WriteCommit, WorkerInv, TypeOK, StoreTyped, queueVars,
          problemVars, history
    <2>2. pc[w] \notin Between /\ GoesOn(w)
      BY <1>5, ContinueGoesOn DEF RequeueCommit, WorkerInv, Labels, Between
    <2>3. QED
      BY <2>1, <2>2, BesideSound
  <1>6. CASE HoldProblem(w)
    <2>1. StoreTyped' /\ UNCHANGED queueVars
      BY <1>6 DEF HoldProblem, WriteProblem, WorkerInv, TypeOK, StoreTyped, queueVars,
          problemVars, history
    <2>2. pc[w] \notin Between /\ NextJob(w)
      BY <1>6 DEF HoldProblem, Between
    <2>3. QED
      BY <2>1, <2>2, BesideSound
  <1>7. QED
    BY <1>1, <1>2, <1>3, <1>4, <1>5, <1>6

LEMMA RunSound ==
  ASSUME WorkerInv, NEW w \in Workers,
         RunEnds(w) \/ RunThrows(w) \/ HeartbeatFailed(w) \/ AssertFinalizeLease(w)
  PROVE  Sound
  <1>1. CASE RunEnds(w)
    <2>1. PICK result \in Results :
            /\ traces' = [traces EXCEPT ![cur[w].job] = result]
            /\ cur' = [cur EXCEPT ![w].result = result]
      BY <1>1 DEF RunEnds
    <2>2. StoreTyped' /\ UNCHANGED queueVars
      BY <1>1, <2>1 DEF RunEnds, WorkerInv, TypeOK, StoreTyped, queueVars, problemVars, history
    <2>3. /\ cur' \in [Workers -> [job : Jobs \cup {None}, result : Results \cup {None}, dead : BOOLEAN]]
          /\ \A v \in Workers : cur'[v].job = cur[v].job
      BY <2>1 DEF WorkerInv, TypeOK
    <2>4. pc[w] \notin Between /\ GoesOn(w)
      BY <1>1, <2>3 DEF RunEnds, GoesOn, Between, Labels
    <2>5. QED
      BY <2>2, <2>4, BesideSound
  <1>2. CASE RunThrows(w) \/ HeartbeatFailed(w)
    <2>1. StoreTyped' /\ UNCHANGED queueVars
      BY <1>2 DEF RunThrows, HeartbeatFailed, WorkerInv, TypeOK, StoreTyped, queueVars,
          storeVars, problemVars, history
    <2>2. pc[w] \notin Between /\ GoesOn(w)
      BY <1>2, ContinueGoesOn DEF RunThrows, HeartbeatFailed, WorkerInv, Labels, Between
    <2>3. QED
      BY <2>1, <2>2, BesideSound
  <1>3. CASE AssertFinalizeLease(w)
    <2>1. StoreTyped' /\ UNCHANGED queueVars
      BY <1>3 DEF AssertFinalizeLease, WorkerInv, TypeOK, StoreTyped, queueVars, storeVars,
          problemVars, history
    <2>2. pc[w] \notin Between /\ (GoesOn(w) \/ Leave(w))
      BY <1>3, ContinueGoesOn DEF AssertFinalizeLease, WorkerInv, Labels, Between
    <2>3. QED
      BY <2>1, <2>2, BesideSound
  <1>4. QED
    BY <1>1, <1>2, <1>3

LEMMA RenewSound ==
  ASSUME WorkerInv, NEW w \in Workers, Heartbeat(w) \/ FinalRenew(w)
  PROVE  Sound
  <1>1. CASE Heartbeat(w)
    <2>1. pc[w] \notin Between
      BY <1>1 DEF Heartbeat, Between
    <2>2. jobs' \in [Jobs -> Job \cup {NoJob}] /\ Grows /\ Queue!Next
      BY <1>1, <2>1, RenewStep DEF Heartbeat
    <2>3. StoreTyped'
      BY <1>1, <2>2 DEF Heartbeat, WorkerInv, TypeOK, StoreTyped, storeVars, problemVars, history
    <2>4. UNCHANGED <<pc, mode, batch, traced, cur>> /\ age' \in [Workers -> 0..MaxAge]
      BY <1>1 DEF Heartbeat, workerVars, WorkerInv, TypeOK
    <2>5. QED
      BY <2>2, <2>3, <2>4, StayKeeps DEF Sound
  <1>2. CASE FinalRenew(w) /\ HoldsIt(w)
    <2>1. pc[w] \notin Between
      BY <1>2 DEF FinalRenew, Between
    <2>2. jobs' \in [Jobs -> Job \cup {NoJob}] /\ Grows /\ Queue!Next
      BY <1>2, <2>1, RenewStep DEF FinalRenew
    <2>3. StoreTyped'
      BY <1>2, <2>2 DEF FinalRenew, WorkerInv, TypeOK, StoreTyped, storeVars, problemVars, history
    <2>4. GoesOn(w)
      BY <1>2, ContinueGoesOn DEF FinalRenew, WorkerInv, Labels, Between
    <2>5. QED
      BY <2>1, <2>2, <2>3, <2>4, GoesOnKeeps DEF Sound
  <1>3. CASE FinalRenew(w) /\ ~HoldsIt(w)
    <2>1. StoreTyped' /\ UNCHANGED queueVars
      BY <1>3 DEF FinalRenew, WorkerInv, TypeOK, StoreTyped, queueVars, storeVars,
          problemVars, history
    <2>2. pc[w] \notin Between /\ GoesOn(w)
      BY <1>3, ContinueGoesOn DEF FinalRenew, WorkerInv, Labels, Between
    <2>3. QED
      BY <2>1, <2>2, BesideSound
  <1>4. QED
    BY <1>1, <1>2, <1>3

LEMMA SettleSound ==
  ASSUME WorkerInv, NEW w \in Workers, Settle(w)
  PROVE  Sound
  <1>1. pc[w] \notin Between
    BY DEF Settle, Between
  <1>2. CASE ~HoldsIt(w)
    <2>1. StoreTyped' /\ UNCHANGED queueVars /\ Leave(w)
      BY <1>2 DEF Settle, WorkerInv, TypeOK, StoreTyped, queueVars, problemVars, history
    <2>2. QED
      BY <1>1, <2>1, BesideSound
  <1>3. CASE HoldsIt(w)
    <2>1. /\ NextJob(w)
          /\ linked' = linked \/ linked' = [linked EXCEPT ![cur[w].job] = TRUE]
          /\ UNCHANGED <<issued, commits, problemVars, traces, broken, runs, history, crashes>>
      BY <1>3 DEF Settle
    <2>2. linked' \in [Jobs -> BOOLEAN]
      BY <2>1 DEF WorkerInv, TypeOK
    <2>3. /\ jobs' \in [Jobs -> Job \cup {NoJob}] /\ closedBy' \in [Jobs -> 0..MaxGrants]
          /\ Grows /\ Queue!Next
      <3>1. CASE cur[w].result = "WAITING_FOR_REVIEW"
        <4>1. /\ WriteJob(w, Released(WithStatus(InHand(w), "waiting_review")))
              /\ UNCHANGED <<issued, closedBy>>
          BY <1>3, <3>1 DEF Settle
        <4>2. QED
          BY <1>1, <1>3, <4>1, WaitingStep DEF WorkerInv, TypeOK
      <3>2. CASE cur[w].result = "COMPLETED"
        <4>1. /\ WriteJob(w, Released(WithStatus(InHand(w), "completed")))
              /\ closedBy' = [closedBy EXCEPT ![cur[w].job] = Token(w)] /\ UNCHANGED issued
          BY <1>3, <3>2 DEF Settle
        <4>2. QED
          BY <1>1, <1>3, <4>1, CompletedStep
      <3>3. CASE cur[w].result \notin {"WAITING_FOR_REVIEW", "COMPLETED"}
        <4>1. WriteJob(w, FailedNow(w)) /\ UNCHANGED <<issued, closedBy>>
          BY <1>3, <3>3 DEF Settle
        <4>2. QED
          BY <1>1, <1>3, <4>1, FailStep DEF WorkerInv, TypeOK
      <3>4. QED
        BY <3>1, <3>2, <3>3
    <2>4. StoreTyped'
      BY <2>1, <2>2, <2>3 DEF StoreTyped, WorkerInv, TypeOK, problemVars, history
    <2>5. QED
      BY <1>1, <2>1, <2>3, <2>4, NextJobKeeps DEF Sound
  <1>4. QED
    BY <1>2, <1>3

LEMMA FailSound ==
  ASSUME WorkerInv, NEW w \in Workers, Fail(w)
  PROVE  Sound
  <1>1. pc[w] \notin Between
    BY DEF Fail, Between
  <1>2. CASE HoldsIt(w)
    <2>1. jobs' \in [Jobs -> Job \cup {NoJob}] /\ Grows /\ Queue!Next
      BY <1>1, <1>2, FailStep DEF Fail
    <2>2. StoreTyped'
      BY <2>1 DEF Fail, WorkerInv, TypeOK, StoreTyped, storeVars, problemVars, history
    <2>3. PICK dead \in BOOLEAN : cur' = [cur EXCEPT ![w].dead = dead]
      BY <1>2, Zenon DEF Fail, HasRetriesLeft
    <2>4. /\ cur' \in [Workers -> [job : Jobs \cup {None}, result : Results \cup {None}, dead : BOOLEAN]]
          /\ \A v \in Workers : cur'[v].job = cur[v].job
      BY <2>3 DEF WorkerInv, TypeOK
    <2>5. GoesOn(w)
      BY <1>2, <2>4 DEF Fail, GoesOn, Labels, Between
    <2>6. QED
      BY <1>1, <2>1, <2>2, <2>5, GoesOnKeeps DEF Sound
  <1>3. CASE ~HoldsIt(w)
    <2>1. StoreTyped' /\ UNCHANGED queueVars /\ NextJob(w)
      BY <1>3 DEF Fail, WorkerInv, TypeOK, StoreTyped, queueVars, storeVars, problemVars, history
    <2>2. QED
      BY <1>1, <2>1, BesideSound
  <1>4. QED
    BY <1>2, <1>3

-----------------------------------------------------------------------------
\* A batch begins, goes on and ends.
LEMMA TakeSound ==
  ASSUME WorkerInv, NEW w \in Workers, NEW j \in Jobs, TakeReview(w, j) \/ TakeDue(w, j)
  PROVE  Sound
  <1>1. PICK label \in {"start", "finalize", "fail"} : Take(w, j, label)
    BY DEF TakeReview, TakeDue
  <1>2. StoreTyped' /\ UNCHANGED queueVars
    BY <1>1 DEF Take, WorkerInv, TypeOK, StoreTyped, queueVars, storeVars, problemVars, history
  <1>3. Grows /\ [Queue!Next]_(Queue!vars)
    BY <1>2, QueueStays DEF WorkerInv
  <1>4. /\ pc' = [pc EXCEPT ![w] = label]
        /\ cur' = [cur EXCEPT ![w] = [job |-> j, result |-> traces[j], dead |-> FALSE]]
        /\ UNCHANGED <<mode, age, batch, traced>> /\ batch[w][j] # 0
    BY <1>1 DEF Take, Goto
  <1>5. [job |-> j, result |-> traces[j], dead |-> FALSE] \in
          [job : Jobs \cup {None}, result : Results \cup {None}, dead : BOOLEAN]
    BY DEF WorkerInv, TypeOK
  <1>6. TypeOK'
    BY <1>2, <1>4, <1>5 DEF WorkerInv, TypeOK, StoreTyped, Labels, problemVars, history
  <1>7. Handed'
    <2> SUFFICES ASSUME NEW v \in Workers
                 PROVE  /\ \A i \in Jobs : batch'[v][i] <= issued'[i]
                                            /\ (batch'[v][i] # 0 => jobs'[i] \in Job)
                        /\ pc'[v] \notin Between =>
                             cur'[v].job \in Jobs /\ batch'[v][cur'[v].job] # 0
      BY DEF Handed, Token
    <2>1. \A i \in Jobs : batch'[v][i] <= issued'[i] /\ (batch'[v][i] # 0 => jobs'[i] \in Job)
      BY <1>2, <1>4 DEF WorkerInv, Handed, queueVars
    <2>2. CASE v = w
      BY <1>4, <2>1, <2>2 DEF WorkerInv, TypeOK
    <2>3. CASE v # w
      <3>1. pc'[v] = pc[v] /\ cur'[v] = cur[v] /\ batch' = batch
        BY <1>4, <2>3 DEF WorkerInv, TypeOK
      <3>2. QED
        BY <2>1, <3>1 DEF WorkerInv, Handed, Token
    <2>4. QED
      BY <2>2, <2>3
  <1>8. QED
    BY <1>3, <1>6, <1>7 DEF Sound, WorkerInv

LEMMA LeaveSound ==
  ASSUME WorkerInv, NEW w \in Workers,
         EndBatch(w) \/ Crash(w) \/ \E j \in Jobs : RefuseReview(w, j)
  PROVE  Sound
  <1>1. StoreTyped'
    <2>1. CASE EndBatch(w) \/ \E j \in Jobs : RefuseReview(w, j)
      BY <2>1 DEF EndBatch, RefuseReview, WorkerInv, TypeOK, StoreTyped, queueVars, storeVars,
                  problemVars, history
    <2>2. CASE Crash(w)
      <3>1. UNCHANGED <<queueVars, storeVars, overtaken>>
        BY <2>2 DEF Crash
      <3>2. crashes' \in 0..MaxCrashes
        BY <2>2, RouteJobWorkerAssumption DEF RouteJobWorkerAssumption, Crash, WorkerInv, TypeOK
      <3>3. died' \subseteq Jobs
        <4>1. pc[w] \in Recording => cur[w].job \in Jobs
          BY DEF Recording, Between, WorkerInv, Handed
        <4>2. QED
          BY <2>2, <4>1 DEF Crash, WorkerInv, TypeOK
      <3>4. QED
        BY <3>1, <3>2, <3>3 DEF WorkerInv, TypeOK, StoreTyped, queueVars, storeVars, problemVars
    <2>3. QED
      BY <2>1, <2>2
  <1>2. Leave(w) /\ UNCHANGED queueVars
    BY DEF EndBatch, Crash, RefuseReview
  <1>3. QED
    BY <1>1, <1>2, QueueStays, LeaveKeeps DEF Sound, WorkerInv

\* A batch, however it was claimed, holds tokens that were just granted.
LEMMA ClaimKeeps ==
  ASSUME WorkerInv, NEW w \in Workers, NEW S \in SUBSET Jobs, NEW claimed \in [S -> Job],
         \A j \in S : jobs[j] \in Job /\ issued[j] < MaxGrants,
         Claim(w, S, claimed), NEW label \in {"reviewing", "working"}, Goto(w, label),
         mode' \in [Workers -> {"reviewing", "working"}], UNCHANGED age
  PROVE  WorkerInv'
  <1> DEFINE token == [j \in Jobs |-> IF j \in S THEN issued[j] + 1 ELSE 0]
  <1>1. /\ jobs' = [j \in Jobs |-> IF j \in S THEN claimed[j] ELSE jobs[j]]
        /\ issued' = [j \in Jobs |-> IF j \in S THEN token[j] ELSE issued[j]]
        /\ batch' = [batch EXCEPT ![w] = token]
        /\ traced' = [traced EXCEPT ![w] = {j \in S : linked[j]}]
        /\ overtaken' \subseteq overtaken \cup S
        /\ UNCHANGED <<closedBy, linked, commits, problems, author, broken, traces, runs, cur,
                       died, crashes>>
    BY DEF Claim, storeVars, problemVars
  <1>2. token \in [Jobs -> 0..MaxGrants]
    BY RouteJobWorkerAssumption DEF RouteJobWorkerAssumption, WorkerInv, TypeOK
  <1>3. \A j \in Jobs : issued[j] \in Nat /\ issued[j] <= issued'[j] /\ token[j] <= issued'[j]
    BY <1>1, RouteJobWorkerAssumption DEF RouteJobWorkerAssumption, WorkerInv, TypeOK
  <1>4. \A j \in Jobs : jobs[j] \in Job => jobs'[j] \in Job
    BY <1>1
  <1>5. \A j \in Jobs : token[j] # 0 => jobs'[j] \in Job
    BY <1>1
  <1> HIDE DEF token
  <1>6. StoreTyped'
    <2>1. jobs' \in [Jobs -> Job \cup {NoJob}]
      BY <1>1 DEF WorkerInv, TypeOK
    <2>2. issued' \in [Jobs -> 0..MaxGrants]
      BY <1>1, <1>2 DEF WorkerInv, TypeOK
    <2>3. QED
      BY <1>1, <2>1, <2>2 DEF WorkerInv, TypeOK, StoreTyped, problemVars, history
  <1>7. WorkersTyped'
    BY <1>1, <1>2 DEF WorkerInv, TypeOK, WorkersTyped, Goto, Labels
  <1>8. TypeOK'
    BY <1>6, <1>7 DEF TypeOK, StoreTyped, WorkersTyped, problemVars, history
  <1>9. Handed'
    <2> SUFFICES ASSUME NEW v \in Workers
                 PROVE  /\ \A j \in Jobs : batch'[v][j] <= issued'[j]
                                            /\ (batch'[v][j] # 0 => jobs'[j] \in Job)
                        /\ pc'[v] \notin Between =>
                             cur'[v].job \in Jobs /\ batch'[v][cur'[v].job] # 0
      BY DEF Handed, Token
    <2>1. CASE v = w
      <3>1. batch'[v] = token /\ pc'[v] \in Between
        BY <1>1, <2>1 DEF WorkerInv, TypeOK, Goto, Between
      <3>2. QED
        BY <1>3, <1>5, <3>1
    <2>2. CASE v # w
      <3>1. batch'[v] = batch[v] /\ pc'[v] = pc[v] /\ cur' = cur
        BY <1>1, <2>2 DEF WorkerInv, TypeOK, Goto
      <3>2. ASSUME NEW j \in Jobs
            PROVE  batch[v][j] <= issued'[j] /\ (batch[v][j] # 0 => jobs'[j] \in Job)
        <4>1. batch[v][j] \in Nat /\ issued[j] \in Nat /\ issued'[j] \in Nat
          BY <1>8, RouteJobWorkerAssumption DEF RouteJobWorkerAssumption, WorkerInv, TypeOK
        <4>2. batch[v][j] <= issued[j] /\ (batch[v][j] # 0 => jobs[j] \in Job)
          BY DEF WorkerInv, Handed
        <4>3. QED
          BY <1>3, <1>4, <4>1, <4>2
      <3>3. QED
        BY <3>1, <3>2 DEF WorkerInv, Handed, Token
    <2>3. QED
      BY <2>1, <2>2
  <1>10. QED
    BY <1>8, <1>9 DEF WorkerInv

\* No claim is larger than the set of all jobs.
LEMMA BatchIsSmall ==
  ASSUME NEW S \in SUBSET Jobs
  PROVE  Queue!Cardinality(S) <= Cardinality(Jobs)
  <1>1. Queue!Cardinality(S) = Cardinality(S)
    BY DEF Queue!Cardinality, Cardinality
  <1>2. Cardinality(S) <= Cardinality(Jobs)
    BY FS_Subset, RouteJobWorkerAssumption DEF RouteJobWorkerAssumption
  <1>3. QED
    BY <1>1, <1>2

LEMMA StartBatchSound ==
  ASSUME WorkerInv, NEW w \in Workers, StartBatch(w)
  PROVE  Sound
  <1> DEFINE S == {j \in Jobs : /\ Exists(j) /\ ReviewDue(jobs[j])
                                /\ InVain(j) => Room(j, 1 + MaxAttempts)
                                /\ issued[j] < MaxGrants}
             claimed == [j \in S |-> ReviewClaimed(jobs[j], issued[j] + 1, LeaseTicks)]
  <1>1. Claim(w, S, claimed) /\ Goto(w, "reviewing") /\ UNCHANGED <<mode, age>>
    BY DEF StartBatch
  <1>2. \A j \in S : /\ Exists(j) /\ ReviewDue(jobs[j]) /\ jobs[j] \in Job
                      /\ issued[j] < MaxGrants /\ issued[j] + 1 \in Nat
    BY RouteJobWorkerAssumption DEF RouteJobWorkerAssumption, WorkerInv, TypeOK, Exists
  <1>3. claimed \in [S -> Job]
    BY <1>2, ReviewClaimedFields, Bounds
  <1>4. S \in SUBSET Jobs /\ \A j \in S : claimed[j] = ReviewClaimed(jobs[j], issued[j] + 1, LeaseTicks)
    OBVIOUS
  <1> HIDE DEF S, claimed
  <1>5. WorkerInv'
    BY <1>1, <1>2, <1>3, <1>4, ClaimKeeps DEF WorkerInv, TypeOK
  <1>6. /\ jobs' = [j \in Jobs |-> IF j \in S THEN claimed[j] ELSE jobs[j]]
        /\ issued' = [j \in Jobs |-> IF j \in S THEN issued[j] + 1 ELSE issued[j]]
        /\ UNCHANGED closedBy
    BY <1>1 DEF Claim
  <1>7. CASE S = {}
    <2>1. jobs' = jobs /\ issued' = issued
      BY <1>6, <1>7 DEF WorkerInv, TypeOK
    <2>2. QED
      BY <1>5, <1>6, <2>1 DEF Sound, Queue!vars
  <1>8. CASE S # {}
    <2>1. Queue!GrantTo(S)
      BY <1>2, <1>6 DEF Queue!GrantTo
    <2>2. jobs' = [j \in Jobs |-> IF j \in S THEN Queue!ReviewClaimed(jobs[j], issued[j] + 1, LeaseTicks)
                                             ELSE jobs[j]]
      BY <1>4, <1>6, SameRecords
    <2>3. \A j \in S : Queue!Exists(j) /\ Queue!ReviewDue(jobs[j])
      BY <1>2, SameRecords
    <2>4. Queue!ClaimWaitingReview(S, LeaseTicks)
      BY <1>4, <1>8, <2>1, <2>2, <2>3, BatchIsSmall DEF Queue!ClaimWaitingReview
    <2>5. Queue!Next
      BY <1>4, <2>4, Bounds DEF Queue!Next
    <2>6. QED
      BY <1>5, <2>5 DEF Sound
  <1>9. QED
    BY <1>7, <1>8

LEMMA ClaimDueSound ==
  ASSUME WorkerInv, NEW w \in Workers, ClaimDueJobs(w)
  PROVE  Sound
  <1> DEFINE S == {j \in Jobs : Exists(j) /\ Due(jobs[j]) /\ issued[j] < MaxGrants}
             left == Left(LeaseTicks, w)
             claimed == [j \in S |-> Claimed(jobs[j], issued[j] + 1, left)]
  <1>1. /\ Claim(w, S, claimed) /\ Goto(w, "working") /\ UNCHANGED age
        /\ mode' = [mode EXCEPT ![w] = "working"]
    BY DEF ClaimDueJobs
  <1>2. \A j \in S : /\ Exists(j) /\ Due(jobs[j]) /\ jobs[j] \in Job
                      /\ issued[j] < MaxGrants /\ issued[j] + 1 \in Nat
    BY RouteJobWorkerAssumption DEF RouteJobWorkerAssumption, WorkerInv, TypeOK, Exists
  <1>3. left \in 0..LeaseTicks
    BY LeftFacts, Bounds DEF WorkerInv
  <1> HIDE DEF left
  <1>4. claimed \in [S -> Job]
    BY <1>2, <1>3, ClaimedFields
  <1>5. S \in SUBSET Jobs /\ \A j \in S : claimed[j] = Claimed(jobs[j], issued[j] + 1, left)
    OBVIOUS
  <1> HIDE DEF S, claimed
  <1>6. WorkerInv'
    BY <1>1, <1>2, <1>4, <1>5, ClaimKeeps DEF WorkerInv, TypeOK
  <1>7. /\ jobs' = [j \in Jobs |-> IF j \in S THEN claimed[j] ELSE jobs[j]]
        /\ issued' = [j \in Jobs |-> IF j \in S THEN issued[j] + 1 ELSE issued[j]]
        /\ UNCHANGED closedBy
    BY <1>1 DEF Claim
  <1>8. CASE S = {}
    <2>1. jobs' = jobs /\ issued' = issued
      BY <1>7, <1>8 DEF WorkerInv, TypeOK
    <2>2. QED
      BY <1>6, <1>7, <2>1 DEF Sound, Queue!vars
  <1>9. CASE S # {}
    <2>1. Queue!GrantTo(S)
      BY <1>2, <1>7 DEF Queue!GrantTo
    <2>2. jobs' = [j \in Jobs |-> IF j \in S THEN Queue!Claimed(jobs[j], issued[j] + 1, left)
                                             ELSE jobs[j]]
      BY <1>5, <1>7, SameRecords
    <2>3. \A j \in S : Queue!Exists(j) /\ Queue!Due(jobs[j])
      BY <1>2, SameRecords
    <2>4. Queue!ClaimDue(S, left)
      BY <1>5, <1>9, <2>1, <2>2, <2>3, BatchIsSmall DEF Queue!ClaimDue
    <2>5. Queue!Next
      BY <1>3, <1>5, <2>4 DEF Queue!Next
    <2>6. QED
      BY <1>6, <2>5 DEF Sound
  <1>10. QED
    BY <1>8, <1>9

-----------------------------------------------------------------------------
\* The rest of the system: nobody moves, one record is written.

\* A record of the queue that is written by others than workers
LEMMA OtherWrite ==
  ASSUME WorkerInv, NEW j \in Jobs, NEW job \in Job,
         jobs' = [jobs EXCEPT ![j] = job],
         UNCHANGED <<issued, closedBy, linked, traces, broken, workerVars, history, crashes>>,
         runs' \in [Jobs -> Nat],
         commits' \in [Jobs -> {None, "queued", "running", "waiting_review", "completed", "failed"}],
         problems' \in [Problems -> {None, "routed", "in_progress", "waiting"}],
         author' \in [Problems -> Jobs \cup {None}]
  PROVE  WorkerInv'
  <1>1. jobs' \in [Jobs -> Job \cup {NoJob}]
    BY DEF WorkerInv, TypeOK
  <1>2. StoreTyped'
    BY <1>1 DEF WorkerInv, TypeOK, StoreTyped, history
  <1>3. Grows
    BY RouteJobWorkerAssumption DEF RouteJobWorkerAssumption, WorkerInv, TypeOK, Grows
  <1>4. UNCHANGED <<pc, mode, batch, traced, cur>> /\ age' \in [Workers -> 0..MaxAge]
    BY DEF workerVars, WorkerInv, TypeOK
  <1>5. QED
    BY <1>2, <1>3, <1>4, StayKeeps

LEMMA OthersSound ==
  ASSUME WorkerInv, NEW j \in Jobs,
         \/ Submit(j) \/ SaveProblemOf(j) \/ ContextChanges(j) \/ Approve(j) \/ Reject(j)
         \/ RetryJob(j) \/ CancelJob(j)
  PROVE  Sound
  <1>1. Exists(j) => jobs[j] \in Job
    BY DEF WorkerInv, TypeOK, Exists
  <1>2. CASE Submit(j)
    <2>1. WorkerInv'
      BY <1>2, QueuedJobFields, OtherWrite DEF Submit, WorkerInv, TypeOK
    <2>2. Queue!Enqueue(j)
      BY <1>2, SameRecords DEF Submit, Queue!Enqueue, Queue!Write
    <2>3. QED
      BY <2>1, <2>2 DEF Sound, Queue!Next
  <1>3. CASE SaveProblemOf(j) \/ ContextChanges(j) \/ Approve(j) \/ Reject(j)
    <2>1. StoreTyped' /\ UNCHANGED queueVars
      <3>1. CASE SaveProblemOf(j)
        BY <1>3, <3>1 DEF SaveProblemOf, WorkerInv, TypeOK, StoreTyped, queueVars, history
      <3>2. CASE ContextChanges(j)
        <4>1. broken' \subseteq Jobs
          BY <3>2 DEF ContextChanges, WorkerInv, TypeOK
        <4>2. QED
          BY <3>2, <4>1 DEF ContextChanges, WorkerInv, TypeOK, StoreTyped, queueVars, problemVars,
                            history
      <3>3. CASE Approve(j) \/ Reject(j)
        BY <3>3 DEF Approve, Reject, WorkerInv, TypeOK, StoreTyped, queueVars, Results, problemVars,
                    history
      <3>4. QED
        BY <1>3, <3>1, <3>2, <3>3
    <2>2. UNCHANGED <<pc, mode, batch, traced, cur>> /\ age' \in [Workers -> 0..MaxAge]
      BY <1>3 DEF SaveProblemOf, ContextChanges, Approve, Reject, workerVars, WorkerInv, TypeOK
    <2>3. QED
      BY <2>1, <2>2, QueueStays, StayKeeps DEF Sound, WorkerInv
  <1>4. CASE RetryJob(j)
    <2>1. jobs' = [jobs EXCEPT ![j] = Retried(jobs[j])] /\ Exists(j)
      BY <1>4 DEF RetryJob, WorkerInv, TypeOK
    <2>2. Retried(jobs[j]) \in Job
      BY <1>1, <2>1, RetriedFields
    <2>3. runs' \in [Jobs -> Nat]
      BY <1>4 DEF RetryJob, WorkerInv, TypeOK
    <2>4. WorkerInv'
      <3>1. /\ UNCHANGED <<issued, closedBy, linked, traces, broken, workerVars, history, crashes>>
            /\ commits' \in [Jobs -> {None, "queued", "running", "waiting_review", "completed", "failed"}]
            /\ problems' \in [Problems -> {None, "routed", "in_progress", "waiting"}]
            /\ author' \in [Problems -> Jobs \cup {None}]
        BY <1>4 DEF RetryJob, problemVars, WorkerInv, TypeOK
      <3>2. QED
        BY <2>1, <2>2, <2>3, <3>1, OtherWrite
    <2>5. Queue!RetryJob(j)
      BY <1>4, <2>1, SameRecords DEF RetryJob, Queue!RetryJob, Queue!Write
    <2>6. QED
      BY <2>4, <2>5 DEF Sound, Queue!Next
  <1>5. CASE CancelJob(j)
    <2>1. jobs' = [jobs EXCEPT ![j] = Cancelled(jobs[j])] /\ Exists(j)
      BY <1>5 DEF CancelJob, WorkerInv, TypeOK
    <2>2. Cancelled(jobs[j]) \in Job
      BY <1>1, <2>1, CancelledFields
    <2>3. WorkerInv'
      <3>1. /\ UNCHANGED <<issued, closedBy, linked, traces, broken, workerVars, history, crashes>>
            /\ commits' \in [Jobs -> {None, "queued", "running", "waiting_review", "completed", "failed"}]
            /\ problems' \in [Problems -> {None, "routed", "in_progress", "waiting"}]
            /\ author' \in [Problems -> Jobs \cup {None}]
            /\ runs' \in [Jobs -> Nat]
        BY <1>5 DEF CancelJob, storeVars, problemVars, WorkerInv, TypeOK
      <3>2. QED
        BY <2>1, <2>2, <3>1, OtherWrite
    <2>4. Queue!CancelJob(j)
      BY <1>5, <2>1, SameRecords DEF CancelJob, Queue!CancelJob, Queue!Write
    <2>5. QED
      BY <2>3, <2>4 DEF Sound, Queue!Next
  <1>6. QED
    BY <1>2, <1>3, <1>4, <1>5

LEMMA TickSound ==
  ASSUME WorkerInv, Tick
  PROVE  Sound
  <1>1. /\ jobs' = [j \in Jobs |-> IF Exists(j) THEN Aged(jobs[j]) ELSE NoJob]
        /\ UNCHANGED <<issued, closedBy, storeVars, pc, mode, batch, traced, cur, history, crashes>>
    BY DEF Tick
  <1>2. \A j \in Jobs : Exists(j) => jobs[j] \in Job /\ Aged(jobs[j]) \in Job
    BY AgedFields DEF WorkerInv, TypeOK, Exists
  <1>3. jobs' \in [Jobs -> Job \cup {NoJob}]
    BY <1>1, <1>2
  <1>4. StoreTyped'
    BY <1>1, <1>3 DEF WorkerInv, TypeOK, StoreTyped, storeVars, problemVars, history
  <1>5. Grows
    <2>1. \A j \in Jobs : jobs[j] \in Job => Exists(j)
      BY RouteJobWorkerAssumption DEF RouteJobWorkerAssumption, Exists
    <2>2. QED
      BY <1>1, <1>2, <2>1, RouteJobWorkerAssumption
      DEF RouteJobWorkerAssumption, WorkerInv, TypeOK, Grows
  <1>6. age' \in [Workers -> 0..MaxAge]
    <2>1. MaxAge \in Nat
      BY Bounds DEF MaxAge
    <2>2. \A w \in Workers : age[w] \in 0..MaxAge
      BY DEF WorkerInv, TypeOK
    <2>3. age' = [w \in Workers |-> IF pc[w] = "idle" \/ age[w] = MaxAge THEN age[w] ELSE age[w] + 1]
      BY DEF Tick
    <2> HIDE DEF MaxAge
    <2>4. QED
      BY <2>1, <2>2, <2>3
  <1>7. WorkerInv'
    BY <1>1, <1>4, <1>5, <1>6, StayKeeps
  <1>8. Queue!Tick
    BY <1>1, SameRecords DEF Queue!Tick
  <1>9. QED
    BY <1>7, <1>8 DEF Sound, Queue!Next

-----------------------------------------------------------------------------
\* Every step of the workers' specification keeps the invariant and is a step
\* of the queue, or none.
LEMMA StepSound ==
  ASSUME WorkerInv, [Next]_vars
  PROVE  Sound
  <1>1. ASSUME NEW w \in Workers, Work(w)
        PROVE  Sound
    BY <1>1, StartBatchSound, ClaimDueSound, LeaveSound, TakeSound, StartSound, SaveSound,
       RunSound, RenewSound, SettleSound, FailSound DEF Work
  <1>2. ASSUME NEW w \in Workers, Heartbeat(w) \/ Crash(w)
        PROVE  Sound
    BY <1>2, RenewSound, LeaveSound
  <1>3. CASE UNCHANGED vars
    <2>1. WorkerInv'
      BY <1>3 DEF vars, queueVars, storeVars, problemVars, workerVars, history, WorkerInv, TypeOK,
                  Handed, Token
    <2>2. UNCHANGED Queue!vars
      BY <1>3 DEF vars, queueVars, Queue!vars
    <2>3. QED
      BY <2>1, <2>2 DEF Sound
  <1>4. QED
    BY <1>1, <1>2, <1>3, OthersSound, TickSound DEF Next

LEMMA InitSound ==
  ASSUME Init
  PROVE  WorkerInv /\ Queue!Init
  <1>1. TypeOK
    BY RouteJobWorkerAssumption, Bounds
    DEF RouteJobWorkerAssumption, Init, TypeOK, Labels, NoTokens, Nothing, MaxAge
  <1>2. Handed
    BY DEF Init, Handed, NoTokens, Between
  <1>3. Queue!Init
    BY DEF Init, Queue!Init
  <1>4. QED
    BY <1>1, <1>2, <1>3 DEF WorkerInv

LEMMA WorkerInvHolds == Spec => []WorkerInv
  <1>1. WorkerInv /\ [Next]_vars => WorkerInv'
    BY StepSound DEF Sound
  <1>2. QED
    BY <1>1, InitSound, PTL DEF Spec

\* Type correctness: whatever workers, reviewers, operators, the clock and
\* crashes do, jobs, commits, problems, traces and the workers' own state keep
\* their types.
THEOREM WorkerTypesHold == Spec => []TypeOK
  BY WorkerInvHolds, PTL DEF WorkerInv

\* Workers implement the queue: each of their calls is one that RouteJobQueue
\* allows, under a token that was granted for the job, so what is proved about
\* the queue (fencing, ownership, attempts) holds of the jobs of any number of
\* workers that stall or crash between any two calls.
THEOREM WorkersKeepToTheQueue == Spec => ImplementsQueue
  <1>1. WorkerInv /\ [Next]_vars => [Queue!Next]_(Queue!vars)
    BY StepSound DEF Sound
  <1>2. QED
    BY <1>1, InitSound, WorkerInvHolds, PTL DEF Spec, ImplementsQueue, Queue!Spec

-----------------------------------------------------------------------------
\* How often a loop is run.  The attempt that a claim used up is there to be run
\* until the worker marks the job as running; nobody else can do that, as no two
\* workers have the same token for a job.

\* The worker has yet to run the job j of its batch.
ToRun(w, j) ==
  mode[w] = "working" /\ (cur[w].job = j => pc[w] \in {"working", "start"})

Pending ==
  \A w \in Workers, j \in Jobs :
    batch[w][j] # 0 /\ jobs[j].token = batch[w][j] /\ ToRun(w, j) =>
      runs[j] < jobs[j].attempt

TokensDiffer ==
  \A v, w \in Workers, j \in Jobs : batch[v][j] # 0 /\ batch[v][j] = batch[w][j] => v = w

\* Jobs are reviewed first and run in the second part of a batch.
InOrder ==
  \A w \in Workers :
    /\ pc[w] = "idle" => mode[w] = "reviewing"
    /\ pc[w] = "start" => mode[w] = "working"

RunInv ==
  /\ WorkerInv /\ InOrder /\ TokensDiffer /\ Pending /\ RunsWithinAttempts
  /\ \A j \in Jobs : ~Exists(j) => runs[j] = 0

\* What most steps do to the jobs: attempts and runs stay, leases stay or end.
CalmJob(j) ==
  \/ jobs'[j] = jobs[j]
  \/ /\ jobs[j] \in Job /\ jobs'[j] \in Job
     /\ jobs'[j].attempt = jobs[j].attempt /\ jobs'[j].token \in {0, jobs[j].token}
  \/ ~Exists(j) /\ jobs'[j] = QueuedJob

CalmJobs == UNCHANGED runs /\ \A j \in Jobs : CalmJob(j)

\* ... and to the workers: nobody gets a job to run.
CalmWorkers ==
  /\ InOrder'
  /\ \A w \in Workers, j \in Jobs :
       /\ batch'[w][j] \in {0, batch[w][j]}
       /\ batch'[w][j] # 0 /\ ToRun(w, j)' => ToRun(w, j)

LEMMA CalmKeeps ==
  ASSUME RunInv, WorkerInv', CalmJobs, CalmWorkers
  PROVE  RunInv'
  <1>1. TokensDiffer'
    BY DEF CalmWorkers, RunInv, TokensDiffer
  <1>2. ASSUME NEW j \in Jobs
        PROVE  /\ Exists(j)' => runs'[j] <= jobs'[j].attempt
               /\ ~Exists(j)' => runs'[j] = 0
    <2>1. CalmJob(j) /\ runs'[j] = runs[j]
      BY DEF CalmJobs
    <2>2. /\ Exists(j) => runs[j] <= jobs[j].attempt
          /\ ~Exists(j) => runs[j] = 0
      BY DEF RunInv, RunsWithinAttempts
    <2>3. jobs[j] \in Job => Exists(j)
      BY RouteJobWorkerAssumption DEF RouteJobWorkerAssumption, Exists
    <2>4. jobs'[j] \in Job => Exists(j)'
      BY RouteJobWorkerAssumption DEF RouteJobWorkerAssumption, Exists
    <2>5. CASE jobs'[j] = jobs[j]
      BY <2>1, <2>2, <2>5 DEF Exists
    <2>6. CASE jobs[j] \in Job /\ jobs'[j] \in Job /\ jobs'[j].attempt = jobs[j].attempt
      BY <2>1, <2>2, <2>3, <2>4, <2>6
    <2>7. CASE ~Exists(j) /\ jobs'[j] = QueuedJob
      BY <2>1, <2>2, <2>4, <2>7, QueuedJobFields
    <2>8. QED
      BY <2>1, <2>5, <2>6, <2>7 DEF CalmJob
  <1>3. Pending'
    <2> SUFFICES ASSUME NEW w \in Workers, NEW j \in Jobs, batch'[w][j] # 0,
                        jobs'[j].token = batch'[w][j], ToRun(w, j)'
                 PROVE  runs'[j] < jobs'[j].attempt
      BY DEF Pending
    <2>1. batch'[w][j] = batch[w][j] /\ ToRun(w, j)
      BY DEF CalmWorkers
    <2>2. jobs[j] \in Job
      BY <2>1 DEF RunInv, WorkerInv, Handed
    <2>3. Exists(j)
      BY <2>2, RouteJobWorkerAssumption DEF RouteJobWorkerAssumption, Exists
    <2>4. jobs'[j].token = jobs[j].token /\ jobs'[j].attempt = jobs[j].attempt
      BY <2>1, <2>3 DEF CalmJobs, CalmJob
    <2>5. QED
      BY <2>1, <2>4 DEF RunInv, Pending, CalmJobs
  <1>4. QED
    BY <1>1, <1>2, <1>3 DEF RunInv, RunsWithinAttempts, CalmWorkers

\* A worker that is done with a call about its job
LEMMA MoveIsCalm ==
  ASSUME WorkerInv, InOrder, NEW w \in Workers,
         \/ pc[w] \notin Between /\ (GoesOn(w) \/ NextJob(w))
         \/ Leave(w)
  PROVE  CalmWorkers
  <1>1. ASSUME NEW v \in Workers, v # w
        PROVE  pc'[v] = pc[v] /\ mode'[v] = mode[v] /\ batch'[v] = batch[v] /\ cur'[v].job = cur[v].job
    BY <1>1 DEF GoesOn, NextJob, Leave, Goto, WorkerInv, TypeOK
  <1>2. CASE pc[w] \notin Between /\ GoesOn(w)
    <2>1. pc'[w] \notin Between \cup {"start"} /\ UNCHANGED <<mode, batch>> /\ cur'[w].job = cur[w].job
      BY <1>2 DEF GoesOn, Goto, WorkerInv, TypeOK
    <2>2. QED
      BY <1>1, <2>1 DEF CalmWorkers, InOrder, ToRun, Between
  <1>3. CASE pc[w] \notin Between /\ NextJob(w)
    <2>1. /\ pc'[w] = mode[w] /\ UNCHANGED mode /\ cur[w].job \in Jobs
          /\ batch'[w] = [batch[w] EXCEPT ![cur[w].job] = 0]
      BY <1>3 DEF NextJob, Goto, WorkerInv, TypeOK, Handed
    <2>2. \A j \in Jobs : batch'[w][j] = IF j = cur[w].job THEN 0 ELSE batch[w][j]
      BY <2>1 DEF WorkerInv, TypeOK
    <2>3. mode[w] \in {"reviewing", "working"}
      BY DEF WorkerInv, TypeOK
    <2>4. InOrder'
      BY <1>1, <2>1, <2>3 DEF InOrder
    <2>5. ASSUME NEW j \in Jobs
          PROVE  /\ batch'[w][j] \in {0, batch[w][j]}
                 /\ batch'[w][j] # 0 /\ ToRun(w, j)' => ToRun(w, j)
      <3>1. CASE j = cur[w].job
        BY <2>2, <3>1
      <3>2. CASE j # cur[w].job
        BY <2>1, <2>2, <3>2 DEF ToRun
      <3>3. QED
        BY <3>1, <3>2
    <2>6. ASSUME NEW v \in Workers, v # w, NEW j \in Jobs
          PROVE  batch'[v][j] = batch[v][j] /\ (ToRun(v, j)' => ToRun(v, j))
      BY <1>1, <2>6 DEF ToRun
    <2>7. QED
      BY <2>4, <2>5, <2>6 DEF CalmWorkers
  <1>4. CASE Leave(w)
    <2>1. pc'[w] = "idle" /\ mode'[w] = "reviewing" /\ batch'[w] = NoTokens
      BY <1>4 DEF Leave, Goto, WorkerInv, TypeOK
    <2>2. QED
      BY <1>1, <2>1 DEF CalmWorkers, InOrder, ToRun, NoTokens
  <1>5. QED
    BY <1>2, <1>3, <1>4

LEMMA StayIsCalm ==
  ASSUME InOrder, UNCHANGED <<pc, mode, batch, cur>>
  PROVE  CalmWorkers
  BY DEF InOrder, CalmWorkers, ToRun

\* A fenced write of the job in hand
LEMMA WriteIsCalm ==
  ASSUME WorkerInv, NEW w \in Workers, pc[w] \notin Between, NEW job \in Job,
         job.attempt = InHand(w).attempt, job.token \in {0, InHand(w).token},
         WriteJob(w, job), UNCHANGED runs
  PROVE  CalmJobs
  <1>1. cur[w].job \in Jobs /\ InHand(w) \in Job
    BY HandFacts DEF WorkerInv
  <1>2. jobs'[cur[w].job] = job /\ \A j \in Jobs : j # cur[w].job => jobs'[j] = jobs[j]
    BY <1>1 DEF WriteJob, WorkerInv, TypeOK
  <1>3. QED
    BY <1>1, <1>2 DEF CalmJobs, CalmJob, InHand

LEMMA RenewIsCalm ==
  ASSUME WorkerInv, NEW w \in Workers, pc[w] \notin Between,
         WriteJob(w, Renewed(InHand(w), LeaseTicks)), UNCHANGED runs
  PROVE  CalmJobs
  <1>1. InHand(w) \in Job /\ LeaseTicks \in 0..LeaseTicks
    BY HandFacts, Bounds DEF WorkerInv
  <1> DEFINE job == Renewed(InHand(w), LeaseTicks)
  <1>2. job \in Job /\ job.attempt = InHand(w).attempt /\ job.token \in {0, InHand(w).token}
    BY <1>1, RenewedFields
  <1>3. QED
    BY <1>2, WriteIsCalm

LEMMA ReleaseIsCalm ==
  ASSUME WorkerInv, NEW w \in Workers, pc[w] \notin Between, NEW status \in Statuses,
         WriteJob(w, Released(WithStatus(InHand(w), status))), UNCHANGED runs
  PROVE  CalmJobs
  <1>1. InHand(w) \in Job
    BY HandFacts DEF WorkerInv
  <1>2. WithStatus(InHand(w), status) \in Job /\ WithStatus(InHand(w), status).attempt = InHand(w).attempt
    BY <1>1, WithStatusFields
  <1> DEFINE job == Released(WithStatus(InHand(w), status))
  <1>3. job \in Job /\ job.attempt = InHand(w).attempt /\ job.token \in {0, InHand(w).token}
    BY <1>2, ReleasedFields
  <1>4. QED
    BY <1>3, WriteIsCalm

LEMMA FailIsCalm ==
  ASSUME WorkerInv, NEW w \in Workers, pc[w] \notin Between,
         WriteJob(w, FailedNow(w)), UNCHANGED runs
  PROVE  CalmJobs
  <1>1. InHand(w) \in Job
    BY HandFacts DEF WorkerInv
  <1>2. Left(RetryDelay(InHand(w).attempt), w) \in 0..MaxDelay
    BY DelayFacts DEF WorkerInv
  <1>3. FailedNow(w).attempt = InHand(w).attempt
    BY <1>1, <1>2, FailedFields DEF FailedNow
  <1>4. QED
    BY <1>3, FailedNowFacts, WriteIsCalm DEF WorkerInv

LEMMA SameIsCalm ==
  ASSUME UNCHANGED <<jobs, runs>>
  PROVE  CalmJobs
  BY DEF CalmJobs, CalmJob

\* The calls of a worker, but for the ones that claim and the one that begins a
\* run
LEMMA CallsAreCalm ==
  ASSUME WorkerInv, InOrder, NEW w \in Workers,
         \/ Start(w) /\ ~HoldsIt(w)
         \/ SaveRunningCommit(w) \/ SaveRunningProblem(w)
         \/ RunEnds(w) \/ RunThrows(w) \/ HeartbeatFailed(w) \/ FinalRenew(w)
         \/ AssertFinalizeLease(w) \/ SaveFinalCommit(w) \/ SaveFinalProblem(w) \/ Settle(w)
         \/ Fail(w) \/ RequeueCommit(w) \/ HoldProblem(w)
  PROVE  CalmJobs /\ CalmWorkers
  <1>1. pc[w] \notin Between
    BY DEF Start, SaveRunningCommit, SaveRunningProblem, RunEnds, RunThrows, HeartbeatFailed,
        FinalRenew,
           AssertFinalizeLease, SaveFinalCommit, SaveFinalProblem, Settle, Fail,
           RequeueCommit, HoldProblem, Between
  <1>2. CASE \/ Start(w) /\ ~HoldsIt(w)
             \/ SaveRunningCommit(w) \/ SaveRunningProblem(w) \/ RunThrows(w) \/ HeartbeatFailed(w)
             \/ SaveFinalCommit(w) \/ SaveFinalProblem(w) \/ RequeueCommit(w)
    <2>1. PICK label \in Labels \ (Between \cup {"start"}) : Continue(w, label)
      BY <1>2 DEF Start, SaveRunningCommit, SaveRunningProblem, RunThrows, HeartbeatFailed,
          SaveFinalCommit,
                  SaveFinalProblem, RequeueCommit, Labels, Between
    <2>2. UNCHANGED <<jobs, runs>>
      BY <1>2 DEF Start, SaveRunningCommit, SaveRunningProblem, RunThrows, HeartbeatFailed,
          SaveFinalCommit,
                  SaveFinalProblem, RequeueCommit, queueVars, storeVars
    <2>3. QED
      BY <1>1, <2>1, <2>2, ContinueGoesOn, MoveIsCalm, SameIsCalm DEF WorkerInv
  <1>3. CASE RunEnds(w)
    <2>1. PICK result \in Results : cur' = [cur EXCEPT ![w].result = result]
      BY <1>3 DEF RunEnds
    <2>2. /\ cur' \in [Workers -> [job : Jobs \cup {None}, result : Results \cup {None}, dead : BOOLEAN]]
          /\ \A v \in Workers : cur'[v].job = cur[v].job
      BY <2>1 DEF WorkerInv, TypeOK
    <2>3. GoesOn(w) /\ UNCHANGED <<jobs, runs>>
      BY <1>3, <2>2 DEF RunEnds, GoesOn, Between, Labels, queueVars
    <2>4. QED
      BY <1>1, <2>3, MoveIsCalm, SameIsCalm
  <1>4. CASE FinalRenew(w)
    <2>1. CalmJobs
      BY <1>1, <1>4, RenewIsCalm, SameIsCalm DEF FinalRenew, storeVars
    <2>2. GoesOn(w)
      BY <1>4, ContinueGoesOn DEF FinalRenew, WorkerInv, Labels, Between
    <2>3. QED
      BY <1>1, <2>1, <2>2, MoveIsCalm
  <1>5. CASE AssertFinalizeLease(w) \/ HoldProblem(w)
    <2>1. UNCHANGED <<jobs, runs>>
      BY <1>5 DEF AssertFinalizeLease, HoldProblem, queueVars, storeVars
    <2>2. GoesOn(w) \/ NextJob(w) \/ Leave(w)
      BY <1>5, ContinueGoesOn DEF AssertFinalizeLease, HoldProblem, WorkerInv, Labels, Between
    <2>3. QED
      BY <1>1, <2>1, <2>2, MoveIsCalm, SameIsCalm
  <1>6. CASE Settle(w)
    <2>1. NextJob(w) \/ Leave(w)
      BY <1>6 DEF Settle
    <2>2. /\ UNCHANGED runs
          /\ \/ UNCHANGED jobs
             \/ WriteJob(w, FailedNow(w))
             \/ \E status \in {"waiting_review", "completed"} :
                  WriteJob(w, Released(WithStatus(InHand(w), status)))
      BY <1>6 DEF Settle
    <2>3. ASSUME NEW status \in {"waiting_review", "completed"},
                 WriteJob(w, Released(WithStatus(InHand(w), status)))
          PROVE  CalmJobs
      <3>1. status \in Statuses
        BY DEF Statuses
      <3>2. QED
        BY <1>1, <2>2, <2>3, <3>1, ReleaseIsCalm
    <2>4. CalmJobs
      BY <1>1, <2>2, <2>3, FailIsCalm, SameIsCalm
    <2>5. QED
      BY <1>1, <2>1, <2>4, MoveIsCalm
  <1>7. CASE Fail(w) /\ ~HoldsIt(w)
    <2>1. NextJob(w) /\ UNCHANGED <<jobs, runs>>
      BY <1>7 DEF Fail, storeVars
    <2>2. QED
      BY <1>1, <2>1, MoveIsCalm, SameIsCalm
  <1>8. CASE Fail(w) /\ HoldsIt(w)
    <2>1. PICK dead \in BOOLEAN : cur' = [cur EXCEPT ![w].dead = dead]
      BY <1>8, Zenon DEF Fail, HasRetriesLeft
    <2>2. /\ cur' \in [Workers -> [job : Jobs \cup {None}, result : Results \cup {None}, dead : BOOLEAN]]
          /\ \A v \in Workers : cur'[v].job = cur[v].job
      BY <2>1 DEF WorkerInv, TypeOK
    <2>3. GoesOn(w)
      BY <1>8, <2>2 DEF Fail, GoesOn, Labels, Between
    <2>4. CalmJobs
      BY <1>1, <1>8, FailIsCalm DEF Fail, storeVars
    <2>5. QED
      BY <1>1, <2>3, <2>4, MoveIsCalm
  <1>9. QED
    BY <1>2, <1>3, <1>4, <1>5, <1>6, <1>7, <1>8

LEMMA OthersAreCalm ==
  ASSUME WorkerInv, InOrder,
         \/ \E w \in Workers : \/ Heartbeat(w) \/ EndBatch(w) \/ Crash(w)
                              \/ \E j \in Jobs : RefuseReview(w, j)
         \/ \E j \in Jobs : \/ Submit(j) \/ SaveProblemOf(j) \/ ContextChanges(j)
                           \/ Approve(j) \/ Reject(j) \/ CancelJob(j)
         \/ Tick \/ UNCHANGED vars
  PROVE  CalmJobs /\ CalmWorkers
  <1>1. ASSUME NEW w \in Workers, Heartbeat(w)
        PROVE  CalmJobs /\ CalmWorkers
    <2>1. pc[w] \notin Between /\ UNCHANGED <<runs, pc, mode, batch, cur>>
      BY <1>1 DEF Heartbeat, Between, storeVars, workerVars
    <2>2. QED
      BY <1>1, <2>1, RenewIsCalm, StayIsCalm DEF Heartbeat
  <1>2. ASSUME NEW w \in Workers, EndBatch(w) \/ Crash(w) \/ \E j \in Jobs : RefuseReview(w, j)
        PROVE  CalmJobs /\ CalmWorkers
    <2>1. Leave(w) /\ UNCHANGED <<jobs, runs>>
      BY <1>2 DEF EndBatch, Crash, RefuseReview, queueVars, storeVars
    <2>2. QED
      BY <2>1, MoveIsCalm, SameIsCalm
  <1>3. ASSUME NEW j \in Jobs, Submit(j)
        PROVE  CalmJobs /\ CalmWorkers
    <2>1. UNCHANGED <<runs, pc, mode, batch, cur>>
      BY <1>3 DEF Submit, workerVars
    <2>2. CalmJobs
      BY <1>3, <2>1 DEF Submit, CalmJobs, CalmJob, WorkerInv, TypeOK
    <2>3. QED
      BY <2>1, <2>2, StayIsCalm
  <1>4. ASSUME NEW j \in Jobs, SaveProblemOf(j) \/ ContextChanges(j) \/ Approve(j) \/ Reject(j)
        PROVE  CalmJobs /\ CalmWorkers
    <2>1. UNCHANGED <<jobs, runs, pc, mode, batch, cur>>
      BY <1>4 DEF SaveProblemOf, ContextChanges, Approve, Reject, queueVars, workerVars
    <2>2. QED
      BY <2>1, StayIsCalm, SameIsCalm
  <1>5. ASSUME NEW j \in Jobs, CancelJob(j)
        PROVE  CalmJobs /\ CalmWorkers
    <2>1. UNCHANGED <<runs, pc, mode, batch, cur>>
      BY <1>5 DEF CancelJob, storeVars, workerVars
    <2>2. jobs[j] \in Job /\ jobs' = [jobs EXCEPT ![j] = Cancelled(jobs[j])]
      BY <1>5 DEF CancelJob, WorkerInv, TypeOK, Exists
    <2>3. /\ Cancelled(jobs[j]) \in Job /\ Cancelled(jobs[j]).attempt = jobs[j].attempt
          /\ Cancelled(jobs[j]).token = 0
      BY <2>2, CancelledFields
    <2>4. CalmJobs
      BY <2>1, <2>2, <2>3 DEF CalmJobs, CalmJob, WorkerInv, TypeOK
    <2>5. QED
      BY <2>1, <2>4, StayIsCalm
  <1>6. CASE Tick
    <2>1. UNCHANGED <<runs, pc, mode, batch, cur>>
      BY <1>6 DEF Tick, storeVars
    <2>2. jobs' = [j \in Jobs |-> IF Exists(j) THEN Aged(jobs[j]) ELSE NoJob]
      BY <1>6 DEF Tick
    <2>3. \A j \in Jobs : Exists(j) => /\ jobs[j] \in Job /\ Aged(jobs[j]) \in Job
                                       /\ Aged(jobs[j]).attempt = jobs[j].attempt
                                       /\ Aged(jobs[j]).token = jobs[j].token
      BY AgedFields DEF WorkerInv, TypeOK, Exists
    <2>4. CalmJobs
      BY <2>1, <2>2, <2>3 DEF CalmJobs, CalmJob, Exists
    <2>5. QED
      BY <2>1, <2>4, StayIsCalm
  <1>7. CASE UNCHANGED vars
    <2>1. UNCHANGED <<jobs, runs, pc, mode, batch, cur>>
      BY <1>7 DEF vars, queueVars, storeVars, workerVars
    <2>2. QED
      BY <2>1, StayIsCalm, SameIsCalm
  <1>8. QED
    BY <1>1, <1>2, <1>3, <1>4, <1>5, <1>6, <1>7

-----------------------------------------------------------------------------
\* A job is taken in hand: of those to run it is one, or it will not be run.
LEMMA TakeKeepsRuns ==
  ASSUME RunInv, WorkerInv', NEW w \in Workers, NEW j \in Jobs, TakeReview(w, j) \/ TakeDue(w, j)
  PROVE  RunInv'
  <1>1. PICK label \in {"start", "finalize", "fail"} :
          Take(w, j, label) /\ (label = "start" => mode[w] = "working")
    BY DEF TakeReview, TakeDue
  <1>2. /\ pc' = [pc EXCEPT ![w] = label] /\ pc[w] = mode[w]
        /\ cur' = [cur EXCEPT ![w] = [job |-> j, result |-> traces[j], dead |-> FALSE]]
        /\ UNCHANGED <<mode, batch, jobs, runs>>
    BY <1>1 DEF Take, Goto, queueVars, storeVars
  <1>3. CalmWorkers
    <2>1. InOrder'
      BY <1>1, <1>2 DEF RunInv, InOrder, WorkerInv, TypeOK
    <2>2. ASSUME NEW v \in Workers, NEW i \in Jobs, ToRun(v, i)'
          PROVE  ToRun(v, i)
      <3>1. CASE v = w
        BY <1>2, <2>2, <3>1 DEF ToRun
      <3>2. CASE v # w
        BY <1>2, <2>2, <3>2 DEF ToRun, RunInv, WorkerInv, TypeOK
      <3>3. QED
        BY <3>1, <3>2
    <2>3. QED
      BY <1>2, <2>1, <2>2 DEF CalmWorkers
  <1>4. QED
    BY <1>2, <1>3, SameIsCalm, CalmKeeps DEF RunInv

\* markRouteJobRunning uses up the attempt: whoever has the token is the one
\* that has it pending.
LEMMA StartKeepsRuns ==
  ASSUME RunInv, WorkerInv', NEW w \in Workers, Start(w), HoldsIt(w)
  PROVE  RunInv'
  <1> DEFINE i == cur[w].job
  <1>1. pc[w] = "start" /\ pc[w] \notin Between /\ mode[w] = "working"
    BY DEF Start, Between, RunInv, InOrder
  <1>2. /\ i \in Jobs /\ InHand(w) \in Job /\ Token(w) # 0 /\ jobs[i].token = Token(w)
        /\ InHand(w) = jobs[i] /\ Token(w) = batch[w][i]
    BY <1>1, HandFacts DEF RunInv, WorkerInv, Handed, InHand, Token
  <1>3. /\ WriteJob(w, WithStatus(InHand(w), "running"))
        /\ runs' = [runs EXCEPT ![i] = @ + 1]
        /\ pc' = [pc EXCEPT ![w] = "saveRunning"] /\ UNCHANGED <<mode, batch, cur>>
    BY DEF Start, Continue, Goto
  <1>4. runs[i] < jobs[i].attempt
    BY <1>1, <1>2 DEF RunInv, Pending, ToRun
  <1>5. "running" \in Statuses
    BY DEF Statuses
  <1>6. /\ jobs'[i] \in Job /\ jobs'[i].attempt = jobs[i].attempt /\ jobs'[i].token = jobs[i].token
        /\ runs'[i] = runs[i] + 1
        /\ \A j \in Jobs : j # i => jobs'[j] = jobs[j] /\ runs'[j] = runs[j]
    BY <1>2, <1>3, <1>5, WithStatusFields DEF WriteJob, RunInv, WorkerInv, TypeOK
  <1>7. runs[i] \in Nat /\ jobs[i].attempt \in Nat
    BY <1>2, Bounds DEF RunInv, WorkerInv, TypeOK, Job
  <1> HIDE DEF i
  <1>8. InOrder' /\ TokensDiffer'
    BY <1>3 DEF RunInv, WorkerInv, TypeOK, InOrder, TokensDiffer
  <1>9. Pending'
    <2> SUFFICES ASSUME NEW v \in Workers, NEW j \in Jobs, batch'[v][j] # 0,
                        jobs'[j].token = batch'[v][j], ToRun(v, j)'
                 PROVE  runs'[j] < jobs'[j].attempt
      BY DEF Pending
    <2>1. CASE j # i
      <3>1. ToRun(v, j)
        BY <1>1, <1>3 DEF ToRun, RunInv, WorkerInv, TypeOK
      <3>2. QED
        BY <1>3, <1>6, <2>1, <3>1 DEF RunInv, Pending
    <2>2. CASE j = i
      <3>1. v = w
        BY <1>2, <1>3, <1>6, <2>2 DEF RunInv, TokensDiffer
      <3>2. ~ToRun(v, j)'
        BY <1>3, <2>2, <3>1 DEF ToRun, RunInv, WorkerInv, TypeOK, i
      <3>3. QED
        BY <3>2
    <2>3. QED
      BY <2>1, <2>2
  <1>10. RunsWithinAttempts' /\ \A j \in Jobs : ~Exists(j)' => runs'[j] = 0
    <2> SUFFICES ASSUME NEW j \in Jobs
                 PROVE  (Exists(j)' => runs'[j] <= jobs'[j].attempt) /\ (~Exists(j)' => runs'[j] = 0)
      BY DEF RunsWithinAttempts
    <2>1. CASE j = i
      BY <1>4, <1>6, <1>7, <2>1, RouteJobWorkerAssumption DEF RouteJobWorkerAssumption, Exists
    <2>2. CASE j # i
      BY <1>6, <2>2 DEF RunInv, RunsWithinAttempts, Exists
    <2>3. QED
      BY <2>1, <2>2
  <1>11. QED
    BY <1>8, <1>9, <1>10 DEF RunInv

\* retryRouteJob begins a new count, and no token is good for the job.
LEMMA RetryKeepsRuns ==
  ASSUME RunInv, WorkerInv', NEW i \in Jobs, RetryJob(i)
  PROVE  RunInv'
  <1>1. /\ jobs[i] \in Job /\ jobs' = [jobs EXCEPT ![i] = Retried(jobs[i])]
        /\ runs' = [runs EXCEPT ![i] = 0] /\ UNCHANGED <<pc, mode, batch, cur>>
    BY DEF RetryJob, workerVars, RunInv, WorkerInv, TypeOK, Exists
  <1>2. /\ jobs'[i] \in Job /\ jobs'[i].attempt = 0 /\ jobs'[i].token = 0 /\ runs'[i] = 0
        /\ \A j \in Jobs : j # i => jobs'[j] = jobs[j] /\ runs'[j] = runs[j]
    BY <1>1, RetriedFields DEF RunInv, WorkerInv, TypeOK
  <1>3. InOrder' /\ TokensDiffer'
    BY <1>1 DEF RunInv, InOrder, TokensDiffer
  <1>4. Pending'
    <2> SUFFICES ASSUME NEW v \in Workers, NEW j \in Jobs, batch'[v][j] # 0,
                        jobs'[j].token = batch'[v][j], ToRun(v, j)'
                 PROVE  runs'[j] < jobs'[j].attempt
      BY DEF Pending
    <2>1. j # i
      BY <1>2
    <2>2. ToRun(v, j)
      BY <1>1 DEF ToRun
    <2>3. QED
      BY <1>1, <1>2, <2>1, <2>2 DEF RunInv, Pending
  <1>5. RunsWithinAttempts' /\ \A j \in Jobs : ~Exists(j)' => runs'[j] = 0
    <2> SUFFICES ASSUME NEW j \in Jobs
                 PROVE  (Exists(j)' => runs'[j] <= jobs'[j].attempt) /\ (~Exists(j)' => runs'[j] = 0)
      BY DEF RunsWithinAttempts
    <2>1. CASE j = i
      BY <1>2, <2>1
    <2>2. CASE j # i
      BY <1>2, <2>2 DEF RunInv, RunsWithinAttempts, Exists
    <2>3. QED
      BY <2>1, <2>2
  <1>6. QED
    BY <1>3, <1>4, <1>5 DEF RunInv

\* A claim: its tokens are new, and its attempts are, where it is for work.
LEMMA ClaimKeepsRuns ==
  ASSUME RunInv, WorkerInv', NEW w \in Workers, NEW S \in SUBSET Jobs, NEW claimed \in [S -> Job],
         \A j \in S : jobs[j] \in Job /\ claimed[j].token = issued[j] + 1,
         Claim(w, S, claimed), InOrder', \A v \in Workers : v # w => mode'[v] = mode[v] /\ pc'[v] = pc[v],
         \/ /\ mode'[w] = "working"
            /\ \A j \in S : claimed[j].attempt = jobs[j].attempt + 1
         \/ /\ mode'[w] = "reviewing"
            /\ \A j \in S : claimed[j].attempt = jobs[j].attempt
  PROVE  RunInv'
  <1>1. /\ jobs' = [j \in Jobs |-> IF j \in S THEN claimed[j] ELSE jobs[j]]
        /\ batch' = [batch EXCEPT ![w] = [j \in Jobs |-> IF j \in S THEN issued[j] + 1 ELSE 0]]
        /\ UNCHANGED <<runs, cur>>
    BY DEF Claim, storeVars
  <1>2. /\ \A j \in Jobs : batch'[w][j] = IF j \in S THEN issued[j] + 1 ELSE 0
        /\ \A v \in Workers : v # w => batch'[v] = batch[v]
    BY <1>1 DEF RunInv, WorkerInv, TypeOK
  <1>3. \A v \in Workers, j \in Jobs :
          /\ batch[v][j] \in Nat /\ issued[j] \in Nat /\ runs[j] \in Nat
          /\ batch[v][j] <= issued[j]
    BY RouteJobWorkerAssumption DEF RouteJobWorkerAssumption, RunInv, WorkerInv, TypeOK, Handed
  <1>4. \A j \in S : /\ jobs[j].attempt \in Nat /\ runs[j] <= jobs[j].attempt
                      /\ jobs'[j] = claimed[j] /\ jobs'[j] \in Job
    BY <1>1, Bounds, RouteJobWorkerAssumption
    DEF RouteJobWorkerAssumption, RunInv, RunsWithinAttempts, Exists, Job
  <1>5. \A j \in Jobs \ S : jobs'[j] = jobs[j]
    BY <1>1
  <1>6. TokensDiffer'
    BY <1>2, <1>3 DEF RunInv, TokensDiffer
  <1>7. Pending'
    <2> SUFFICES ASSUME NEW v \in Workers, NEW j \in Jobs, batch'[v][j] # 0,
                        jobs'[j].token = batch'[v][j], ToRun(v, j)'
                 PROVE  runs'[j] < jobs'[j].attempt
      BY DEF Pending
    <2>1. CASE v = w
      <3>1. j \in S /\ mode'[w] = "working"
        BY <1>2, <2>1 DEF ToRun
      <3>2. jobs'[j].attempt = jobs[j].attempt + 1
        BY <1>4, <3>1
      <3>3. runs[j] <= jobs[j].attempt /\ jobs[j].attempt \in Nat
        BY <1>4, <3>1
      <3>4. runs'[j] = runs[j] /\ runs[j] \in Nat
        BY <1>1, <1>3
      <3>5. QED
        BY <3>2, <3>3, <3>4
    <2>2. CASE v # w
      <3>1. batch'[v][j] = batch[v][j] /\ ToRun(v, j)
        BY <1>1, <1>2, <2>2 DEF ToRun
      <3>2. j \notin S
        BY <1>3, <1>4, <3>1
      <3>3. QED
        BY <1>1, <1>5, <3>1, <3>2 DEF RunInv, Pending
    <2>3. QED
      BY <2>1, <2>2
  <1>8. RunsWithinAttempts' /\ \A j \in Jobs : ~Exists(j)' => runs'[j] = 0
    <2> SUFFICES ASSUME NEW j \in Jobs
                 PROVE  (Exists(j)' => runs'[j] <= jobs'[j].attempt) /\ (~Exists(j)' => runs'[j] = 0)
      BY DEF RunsWithinAttempts
    <2>1. CASE j \in S
      <3>1. Exists(j)'
        BY <1>4, <2>1, RouteJobWorkerAssumption DEF RouteJobWorkerAssumption, Exists
      <3>2. runs[j] <= jobs'[j].attempt
        BY <1>3, <1>4, <2>1
      <3>3. QED
        BY <1>1, <3>1, <3>2
    <2>2. CASE j \notin S
      BY <1>1, <1>5, <2>2 DEF RunInv, RunsWithinAttempts, Exists
    <2>3. QED
      BY <2>1, <2>2
  <1>9. QED
    BY <1>6, <1>7, <1>8 DEF RunInv

LEMMA ClaimsKeepRuns ==
  ASSUME RunInv, WorkerInv', NEW w \in Workers, StartBatch(w) \/ ClaimDueJobs(w)
  PROVE  RunInv'
  <1>1. CASE StartBatch(w)
    <2> DEFINE S == {j \in Jobs : /\ Exists(j) /\ ReviewDue(jobs[j])
                                  /\ InVain(j) => Room(j, 1 + MaxAttempts)
                                  /\ issued[j] < MaxGrants}
               claimed == [j \in S |-> ReviewClaimed(jobs[j], issued[j] + 1, LeaseTicks)]
    <2>1. Claim(w, S, claimed) /\ pc' = [pc EXCEPT ![w] = "reviewing"] /\ UNCHANGED mode
      BY <1>1 DEF StartBatch, Goto
    <2>2. mode[w] = "reviewing"
      BY <1>1 DEF StartBatch, RunInv, InOrder
    <2>3. \A j \in S : jobs[j] \in Job /\ issued[j] + 1 \in Nat
      BY RouteJobWorkerAssumption DEF RouteJobWorkerAssumption, RunInv, WorkerInv, TypeOK, Exists
    <2>4. \A j \in S : /\ claimed[j] \in Job /\ claimed[j].token = issued[j] + 1
                        /\ claimed[j].attempt = jobs[j].attempt
      <3>1. \A j \in S : claimed[j] = ReviewClaimed(jobs[j], issued[j] + 1, LeaseTicks)
        OBVIOUS
      <3> HIDE DEF S, claimed
      <3>2. QED
        BY <2>3, <3>1, Bounds, ReviewClaimedFields
    <2>5. claimed \in [S -> Job] /\ S \in SUBSET Jobs
      BY <2>4
    <2> HIDE DEF S, claimed
    <2>6. InOrder' /\ \A v \in Workers : v # w => mode'[v] = mode[v] /\ pc'[v] = pc[v]
      BY <2>1 DEF RunInv, InOrder, WorkerInv, TypeOK
    <2>7. QED
      BY <2>1, <2>2, <2>3, <2>4, <2>5, <2>6, ClaimKeepsRuns
  <1>2. CASE ClaimDueJobs(w)
    <2> DEFINE S == {j \in Jobs : Exists(j) /\ Due(jobs[j]) /\ issued[j] < MaxGrants}
               left == Left(LeaseTicks, w)
               claimed == [j \in S |-> Claimed(jobs[j], issued[j] + 1, left)]
    <2>1. /\ Claim(w, S, claimed) /\ pc' = [pc EXCEPT ![w] = "working"]
          /\ mode' = [mode EXCEPT ![w] = "working"]
      BY <1>2 DEF ClaimDueJobs, Goto
    <2>2. left \in 0..LeaseTicks
      BY LeftFacts, Bounds DEF RunInv, WorkerInv
    <2> HIDE DEF left
    <2>3. \A j \in S : jobs[j] \in Job /\ Due(jobs[j]) /\ issued[j] + 1 \in Nat
      BY RouteJobWorkerAssumption DEF RouteJobWorkerAssumption, RunInv, WorkerInv, TypeOK, Exists
    <2>4. \A j \in S : /\ claimed[j] \in Job /\ claimed[j].token = issued[j] + 1
                        /\ claimed[j].attempt = jobs[j].attempt + 1
      BY <2>2, <2>3, ClaimedFields
    <2>5. claimed \in [S -> Job] /\ S \in SUBSET Jobs
      BY <2>4
    <2> HIDE DEF S, claimed
    <2>6. /\ InOrder' /\ mode'[w] = "working"
          /\ \A v \in Workers : v # w => mode'[v] = mode[v] /\ pc'[v] = pc[v]
      BY <2>1 DEF RunInv, InOrder, WorkerInv, TypeOK
    <2>7. QED
      BY <2>1, <2>3, <2>4, <2>5, <2>6, ClaimKeepsRuns
  <1>3. QED
    BY <1>1, <1>2

LEMMA StepKeepsRuns ==
  ASSUME RunInv, [Next]_vars
  PROVE  RunInv'
  <1>1. WorkerInv'
    BY StepSound DEF RunInv, Sound
  <1>2. InOrder /\ WorkerInv
    BY DEF RunInv
  <1>3. ASSUME NEW w \in Workers, Work(w) \/ Heartbeat(w) \/ Crash(w)
        PROVE  RunInv'
    <2>1. CASE StartBatch(w) \/ ClaimDueJobs(w)
      BY <1>1, <2>1, ClaimsKeepRuns
    <2>2. CASE \E j \in Jobs : TakeReview(w, j) \/ TakeDue(w, j)
      BY <1>1, <2>2, TakeKeepsRuns
    <2>3. CASE Start(w) /\ HoldsIt(w)
      BY <1>1, <2>3, StartKeepsRuns
    <2>4. CASE Heartbeat(w) \/ EndBatch(w) \/ Crash(w) \/ \E j \in Jobs : RefuseReview(w, j)
      BY <1>1, <1>2, <2>4, OthersAreCalm, CalmKeeps
    <2>5. CASE \/ Start(w) /\ ~HoldsIt(w)
               \/ SaveRunningCommit(w) \/ SaveRunningProblem(w)
               \/ RunEnds(w) \/ RunThrows(w) \/ HeartbeatFailed(w) \/ FinalRenew(w)
               \/ AssertFinalizeLease(w) \/ SaveFinalCommit(w) \/ SaveFinalProblem(w) \/ Settle(w)
               \/ Fail(w) \/ RequeueCommit(w) \/ HoldProblem(w)
      BY <1>1, <1>2, <2>5, CallsAreCalm, CalmKeeps
    <2>6. QED
      BY <1>3, <2>1, <2>2, <2>3, <2>4, <2>5 DEF Work
  <1>4. ASSUME NEW j \in Jobs, RetryJob(j)
        PROVE  RunInv'
    BY <1>1, <1>4, RetryKeepsRuns
  <1>5. CASE \/ \E j \in Jobs : \/ Submit(j) \/ SaveProblemOf(j) \/ ContextChanges(j)
                               \/ Approve(j) \/ Reject(j) \/ CancelJob(j)
             \/ Tick \/ UNCHANGED vars
    BY <1>1, <1>2, <1>5, OthersAreCalm, CalmKeeps
  <1>6. QED
    BY <1>3, <1>4, <1>5 DEF Next

LEMMA InitRuns ==
  ASSUME Init
  PROVE  RunInv
  <1>1. InOrder /\ TokensDiffer /\ Pending
    BY DEF Init, InOrder, TokensDiffer, Pending, NoTokens
  <1>2. RunsWithinAttempts /\ \A j \in Jobs : ~Exists(j) => runs[j] = 0
    BY DEF Init, RunsWithinAttempts, Exists
  <1>3. QED
    BY <1>1, <1>2, InitSound DEF RunInv

\* A loop is begun at most as often as its job was claimed, and so at most
\* maxAttempts times for every request of an operator, whatever stalls, crashes,
\* takes jobs over or retries: markRouteJobRunning and its lease assertion.
THEOREM WorkersRunWithinAttempts == Spec => []RunsWithinAttempts
  <1>1. RunInv /\ [Next]_vars => RunInv'
    BY StepKeepsRuns
  <1>2. QED
    BY <1>1, InitRuns, PTL DEF Spec, RunInv

\* At most one worker can write a job: the token it was handed is its own, and
\* the store compares it, whatever stalls and whichever heartbeats fail.
THEOREM OneWriterHolds == Spec => []OneWriter
  <1>1. RunInv => OneWriter
    BY DEF RunInv, TokensDiffer, OneWriter, Owns
  <1>2. RunInv /\ [Next]_vars => RunInv'
    BY StepKeepsRuns
  <1>3. QED
    BY <1>1, <1>2, InitRuns, PTL DEF Spec

-----------------------------------------------------------------------------
\* The three records of a job.  A worker that is between them has the newest
\* token of the job, unless the job was claimed since; so no other worker can
\* have the next word on it.

\* Nobody is between the records of the job.
AtRest(j) == \A w \in Workers : ~BetweenRecords(w, j)

Failing == {"requeue", "hold"}

\* The worker w has the last word on the job j, but for the operator's.
Withdrawn(j) == jobs[j].status \in {"cancelled", "queued"}

LastWord(w, j) ==
  /\ batch[w][j] = issued[j]
  /\ pc[w] \in {"saveRunning", "saveInProgress"} => jobs[j].status = "running" \/ Withdrawn(j)
  /\ pc[w] \in {"saveCommit", "saveProblem", "settle"} =>
       \/ /\ jobs[j].status \in {"claimed", "running", "waiting_review"}
          /\ jobs[j].token = batch[w][j]
       \/ Withdrawn(j)
  /\ pc[w] \in Failing =>
       jobs[j].status = (IF cur[w].dead THEN "dead_letter" ELSE "failed") \/ Withdrawn(j)

\* What it has written so far of the other two records
Written(w, j) ==
  /\ pc[w] \in {"saveProblem", "settle"} => commits[j] = CommitStatusOf(cur[w].result)
  /\ pc[w] = "settle" =>
       (SpeaksOf(j) => Problem(j) = IF cur[w].result = "COMPLETED" THEN "routed" ELSE "waiting")
  /\ pc[w] = "hold" => commits[j] = IF cur[w].dead THEN "failed" ELSE "queued"

\* The two properties, job by job
Recorded(j) ==
  Exists(j) /\ jobs[j].status = "completed" =>
    /\ commits[j] = "completed" /\ traces[j] # None /\ linked[j]
    /\ SpeaksOf(j) => Problem(j) = "routed"

Agree(j) ==
  /\ jobs[j].status = "completed" =>
       commits[j] = "completed" /\ (SpeaksOf(j) => Problem(j) = "routed")
  /\ jobs[j].status = "waiting_review" =>
       commits[j] = "waiting_review" /\ (SpeaksOf(j) => Problem(j) = "waiting")
  /\ jobs[j].status = "failed" =>
       commits[j] \in {"queued", "failed"} /\ (SpeaksOf(j) => Problem(j) = "waiting")
  /\ jobs[j].status = "dead_letter" =>
       commits[j] = "failed" /\ (SpeaksOf(j) => Problem(j) = "waiting")

JobRecords(j) ==
  /\ Exists(j) => jobs[j].token \in {0, issued[j]}
  /\ j \notin overtaken =>
       /\ \A w \in Workers : BetweenRecords(w, j) => LastWord(w, j) /\ Written(w, j)
       /\ Recorded(j)
  /\ j \notin overtaken \cup died /\ Exists(j) /\ AtRest(j) => Agree(j)

\* A result in hand is one that was stored.
Stored ==
  \A w \in Workers : cur[w].result # None => cur[w].job \in Jobs /\ traces[cur[w].job] # None

RecordInv == RunInv /\ Stored /\ \A j \in Jobs : JobRecords(j)

\* Whoever is between the records of a job that was not claimed since is the
\* only one that holds it, or is there.
LEMMA HolderIsAlone ==
  ASSUME RecordInv, NEW j \in Jobs, j \notin overtaken,
         NEW v \in Workers, BetweenRecords(v, j),
         NEW w \in Workers, batch[w][j] # 0,
         \/ BetweenRecords(w, j)
         \/ Exists(j) /\ jobs[j].token = batch[w][j]
  PROVE  v = w
  <1>1. batch[v][j] = issued[j]
    BY DEF RecordInv, JobRecords, LastWord
  <1>2. batch[w][j] = issued[j]
    BY DEF RecordInv, JobRecords, LastWord
  <1>3. QED
    BY <1>1, <1>2 DEF RecordInv, RunInv, TokensDiffer

LEMMA AtRecords ==
  ASSUME WorkerInv, NEW w \in Workers, pc[w] \in Recording
  PROVE  pc[w] \notin Between /\ cur[w].job \in Jobs /\ batch[w][cur[w].job] # 0
  BY DEF Recording, Between, WorkerInv, Handed, Token

-----------------------------------------------------------------------------
\* Steps that do not disturb the records of the job j

\* Whoever is between the records stays where it is, or dies.
Unmoved(j) ==
  /\ \A v \in Workers : BetweenRecords(v, j)' =>
       /\ BetweenRecords(v, j)
       /\ pc'[v] = pc[v] /\ cur'[v] = cur[v] /\ batch'[v][j] = batch[v][j]
  /\ AtRest(j)' => AtRest(j) \/ j \in died'

\* What is kept of the three records, the status and the token of the job apart
Kept(j) ==
  /\ issued'[j] = issued[j] /\ commits'[j] = commits[j]
  /\ \/ author'[ProblemOf[j]] # j
     \/ author'[ProblemOf[j]] = author[ProblemOf[j]] /\ problems'[ProblemOf[j]] = problems[ProblemOf[j]]
  /\ (traces[j] # None => traces'[j] # None) /\ (linked[j] => linked'[j])
  /\ (j \in overtaken => j \in overtaken') /\ (j \in died => j \in died')

SameStatus(j) ==
  \/ jobs'[j] = jobs[j]
  \/ Exists(j) /\ jobs'[j].status = jobs[j].status /\ jobs'[j].token = jobs[j].token

LEMMA QuietKeeps ==
  ASSUME RecordInv, NEW j \in Jobs, Unmoved(j), Kept(j), SameStatus(j)
  PROVE  JobRecords(j)'
  <1>1. JobRecords(j)
    BY DEF RecordInv
  <1>2. /\ Exists(j)' => Exists(j)
        /\ Exists(j)' => jobs'[j].status = jobs[j].status /\ jobs'[j].token = jobs[j].token
    BY DEF SameStatus, Exists
  <1>3. Exists(j)' => jobs'[j].token \in {0, issued'[j]}
    BY <1>1, <1>2 DEF JobRecords, Kept
  <1>4. SpeaksOf(j)' => SpeaksOf(j) /\ Problem(j)' = Problem(j)
    BY DEF SpeaksOf, Problem, Kept
  <1>5. ASSUME j \notin overtaken', NEW v \in Workers, BetweenRecords(v, j)'
        PROVE  (LastWord(v, j) /\ Written(v, j))'
    <2>1. /\ BetweenRecords(v, j) /\ j \notin overtaken
          /\ pc'[v] = pc[v] /\ cur'[v] = cur[v] /\ batch'[v][j] = batch[v][j]
      BY <1>5 DEF Unmoved, Kept
    <2>2. LastWord(v, j) /\ Written(v, j)
      BY <1>1, <2>1 DEF JobRecords
    <2>3. jobs'[j].status = jobs[j].status /\ jobs'[j].token = jobs[j].token
      BY DEF SameStatus
    <2>4. LastWord(v, j)'
      BY <2>1, <2>2, <2>3 DEF LastWord, Withdrawn, Kept
    <2>5. Written(v, j)'
      BY <2>1, <2>2, <1>4 DEF Written, Kept
    <2>6. QED
      BY <2>4, <2>5
  <1>6. j \notin overtaken' => Recorded(j)'
    BY <1>1, <1>2, <1>4 DEF JobRecords, Recorded, Kept
  <1>7. j \notin (overtaken \cup died)' /\ Exists(j)' /\ AtRest(j)' => Agree(j)'
    <2> HAVE j \notin (overtaken \cup died)' /\ Exists(j)' /\ AtRest(j)'
    <2>1. Agree(j) /\ jobs'[j].status = jobs[j].status /\ commits'[j] = commits[j]
      BY <1>1, <1>2 DEF JobRecords, Unmoved, Kept
    <2>2. QED
      BY <1>4, <2>1 DEF Agree
  <1>8. QED
    BY <1>3, <1>5, <1>6, <1>7 DEF JobRecords

\* An operator takes the job back, or it is new.
LEMMA WithdrawnKeeps ==
  ASSUME RecordInv, NEW j \in Jobs, Unmoved(j), Kept(j),
         jobs'[j].token = 0, jobs'[j].status \in {"cancelled", "queued"}
  PROVE  JobRecords(j)'
  <1>1. JobRecords(j)
    BY DEF RecordInv
  <1>2. SpeaksOf(j)' => SpeaksOf(j) /\ Problem(j)' = Problem(j)
    BY DEF SpeaksOf, Problem, Kept
  <1>3. ASSUME j \notin overtaken', NEW v \in Workers, BetweenRecords(v, j)'
        PROVE  (LastWord(v, j) /\ Written(v, j))'
    <2>1. /\ BetweenRecords(v, j) /\ j \notin overtaken
          /\ pc'[v] = pc[v] /\ cur'[v] = cur[v] /\ batch'[v][j] = batch[v][j]
      BY <1>3 DEF Unmoved, Kept
    <2>2. LastWord(v, j) /\ Written(v, j)
      BY <1>1, <2>1 DEF JobRecords
    <2>3. LastWord(v, j)'
      BY <2>1, <2>2 DEF LastWord, Withdrawn, Kept
    <2>4. Written(v, j)'
      BY <2>1, <2>2, <1>2 DEF Written, Kept
    <2>5. QED
      BY <2>3, <2>4
  <1>4. QED
    BY <1>3 DEF JobRecords, Recorded, Agree

\* A worker claims the job.  If another is between its records, this overtakes
\* it.
LEMMA ClaimedKeeps ==
  ASSUME RecordInv, NEW j \in Jobs,
         \A v \in Workers : BetweenRecords(v, j)' => BetweenRecords(v, j),
         AtRest(j) \/ j \in overtaken',
         j \in overtaken => j \in overtaken', died' = died,
         UNCHANGED storeVars, Exists(j),
         jobs'[j].token = issued'[j],
         \/ jobs'[j].status = "claimed"
         \/ jobs'[j].status = "waiting_review" /\ jobs[j].status = "waiting_review"
  PROVE  JobRecords(j)'
  <1>1. JobRecords(j)
    BY DEF RecordInv
  <1>2. (SpeaksOf(j)' <=> SpeaksOf(j)) /\ Problem(j)' = Problem(j) /\ commits' = commits
    BY DEF SpeaksOf, Problem, storeVars, problemVars
  <1>3. j \notin overtaken' => \A v \in Workers : ~BetweenRecords(v, j)'
    BY DEF AtRest
  <1>4. j \notin (overtaken \cup died)' => Agree(j)'
    BY <1>1, <1>2 DEF JobRecords, Agree
  <1>5. QED
    BY <1>3, <1>4 DEF JobRecords, Recorded

-----------------------------------------------------------------------------
\* How workers move
OnlyMoves(w) ==
  \A v \in Workers : v # w => pc'[v] = pc[v] /\ cur'[v] = cur[v] /\ batch'[v] = batch[v]

LEMMA ContinueMoves ==
  ASSUME WorkerInv, NEW w \in Workers, NEW label, Continue(w, label)
  PROVE  OnlyMoves(w) /\ pc'[w] = label /\ cur' = cur /\ batch' = batch
  BY DEF Continue, Goto, OnlyMoves, WorkerInv, TypeOK

LEMMA NextJobMoves ==
  ASSUME WorkerInv, NEW w \in Workers, NextJob(w)
  PROVE  OnlyMoves(w) /\ pc'[w] \notin Recording /\ cur'[w] = Nothing
  BY DEF NextJob, Goto, OnlyMoves, Recording, WorkerInv, TypeOK

LEMMA LeaveMoves ==
  ASSUME WorkerInv, NEW w \in Workers, Leave(w)
  PROVE  OnlyMoves(w) /\ pc'[w] \notin Recording /\ cur'[w] = Nothing
  BY DEF Leave, Goto, OnlyMoves, Recording, WorkerInv, TypeOK

\* A job the moving worker is not between the records of
LEMMA ElsewhereKeeps ==
  ASSUME RecordInv, NEW w \in Workers, OnlyMoves(w), NEW j \in Jobs,
         ~BetweenRecords(w, j), ~BetweenRecords(w, j)', Kept(j), SameStatus(j)
  PROVE  JobRecords(j)'
  <1>1. \A v \in Workers : BetweenRecords(v, j)' =>
          /\ BetweenRecords(v, j)
          /\ pc'[v] = pc[v] /\ cur'[v] = cur[v] /\ batch'[v][j] = batch[v][j]
    BY DEF OnlyMoves, BetweenRecords
  <1>2. \A v \in Workers : BetweenRecords(v, j) => BetweenRecords(v, j)'
    BY DEF OnlyMoves, BetweenRecords
  <1>3. Unmoved(j)
    BY <1>1, <1>2 DEF Unmoved, AtRest
  <1>4. QED
    BY <1>3, QuietKeeps

\* Steps of a worker that touch none of the records, nor a status, and begin and
\* end outside of them
LEMMA QuietWorkKeeps ==
  ASSUME RecordInv, NEW w \in Workers, OnlyMoves(w),
         pc[w] \notin Recording, pc'[w] \notin Recording,
         \A j \in Jobs : SameStatus(j),
         UNCHANGED <<issued, commits, problems, author, linked, overtaken, died>>,
         \A j \in Jobs : traces[j] # None => traces'[j] # None
  PROVE  \A j \in Jobs : JobRecords(j)'
  <1> SUFFICES ASSUME NEW j \in Jobs
               PROVE  JobRecords(j)'
    OBVIOUS
  <1>1. ~BetweenRecords(w, j) /\ ~BetweenRecords(w, j)'
    BY DEF BetweenRecords
  <1>2. Kept(j)
    BY DEF Kept
  <1>3. QED
    BY <1>1, <1>2, ElsewhereKeeps

\* Only what belongs to the job in hand is written.
OnlyHand(w) ==
  /\ OnlyMoves(w) /\ cur'[w].job \in {cur[w].job, None}
  /\ \A j \in Jobs \ {cur[w].job} :
       jobs'[j] = jobs[j] /\ commits'[j] = commits[j] /\ linked'[j] = linked[j]
  /\ \/ UNCHANGED <<problems, author>>
     \/ \E status : WriteProblem(w, status)
  /\ UNCHANGED <<issued, traces, overtaken>> /\ died \subseteq died'

LEMMA OffHandKeeps ==
  ASSUME RecordInv, NEW w \in Workers, OnlyHand(w), NEW j \in Jobs, j # cur[w].job
  PROVE  JobRecords(j)'
  <1>1. ~BetweenRecords(w, j) /\ ~BetweenRecords(w, j)'
    BY RouteJobWorkerAssumption DEF RouteJobWorkerAssumption, BetweenRecords, OnlyHand
  <1>2. \/ author'[ProblemOf[j]] # j
        \/ /\ author'[ProblemOf[j]] = author[ProblemOf[j]]
           /\ problems'[ProblemOf[j]] = problems[ProblemOf[j]]
    <2>1. ProblemOf[j] \in Problems
      BY RouteJobWorkerAssumption DEF RouteJobWorkerAssumption
    <2>2. author \in [Problems -> Jobs \cup {None}]
          /\ problems \in [Problems -> {None, "routed", "in_progress", "waiting"}]
      BY DEF RecordInv, RunInv, WorkerInv, TypeOK
    <2>3. CASE UNCHANGED <<problems, author>>
      BY <2>3
    <2>4. CASE \E status : WriteProblem(w, status)
      BY <2>1, <2>2, <2>4 DEF WriteProblem
    <2>5. QED
      BY <2>3, <2>4 DEF OnlyHand
  <1>3. Kept(j)
    BY <1>2 DEF Kept, OnlyHand
  <1>4. SameStatus(j) /\ OnlyMoves(w)
    BY DEF SameStatus, OnlyHand
  <1>5. QED
    BY <1>1, <1>3, <1>4, ElsewhereKeeps

-----------------------------------------------------------------------------
\* The job a worker is between the records of, after the step ...
LEMMA MineKeeps ==
  ASSUME RecordInv, NEW w \in Workers, NEW i \in Jobs, OnlyMoves(w), overtaken' = overtaken,
         BetweenRecords(w, i)',
         i \notin overtaken => \A v \in Workers : BetweenRecords(v, i) => v = w,
         jobs'[i].token \in {0, issued'[i]},
         i \notin overtaken => LastWord(w, i)' /\ Written(w, i)'
  PROVE  JobRecords(i)'
  <1>1. i \notin overtaken => \A v \in Workers : BetweenRecords(v, i)' => v = w
    BY DEF OnlyMoves, BetweenRecords
  <1>2. i \notin overtaken => jobs'[i].status # "completed"
    <2> HAVE i \notin overtaken
    <2>1. pc'[w] \in Recording
      BY DEF BetweenRecords
    <2>2. LastWord(w, i)'
      OBVIOUS
    <2>3. QED
      BY <2>1, <2>2 DEF LastWord, Withdrawn, Recording, Failing
  <1>3. ~AtRest(i)'
    BY DEF AtRest
  <1>4. QED
    BY <1>1, <1>2, <1>3 DEF JobRecords, Recorded

\* ... and before it, when it was the last one that had to be written.
LEMMA DoneKeeps ==
  ASSUME RecordInv, NEW w \in Workers, NEW i \in Jobs, OnlyMoves(w), overtaken' = overtaken,
         BetweenRecords(w, i), ~BetweenRecords(w, i)',
         jobs'[i].token \in {0, issued'[i]},
         i \notin overtaken => Recorded(i)',
         i \notin overtaken /\ i \notin died' => Agree(i)'
  PROVE  JobRecords(i)'
  <1>1. batch[w][i] # 0
    BY AtRecords DEF BetweenRecords, RecordInv, RunInv
  <1>2. i \notin overtaken => \A v \in Workers : BetweenRecords(v, i) => v = w
    BY <1>1, HolderIsAlone
  <1>3. i \notin overtaken => \A v \in Workers : ~BetweenRecords(v, i)'
    BY <1>2 DEF OnlyMoves, BetweenRecords
  <1>4. QED
    BY <1>3 DEF JobRecords

\* A worker that holds its job
LEMMA HoldFacts ==
  ASSUME RecordInv, NEW w \in Workers, NEW i \in Jobs, i = cur[w].job, pc[w] \notin Between,
         HoldsIt(w)
  PROVE  /\ InHand(w) = jobs[i] /\ jobs[i] \in Job /\ Exists(i) /\ Token(w) = batch[w][i]
         /\ jobs[i].token = batch[w][i] /\ batch[w][i] = issued[i] /\ batch[w][i] # 0
         /\ i \notin overtaken => \A v \in Workers : BetweenRecords(v, i) => v = w
  <1>1. /\ InHand(w) = jobs[i] /\ Token(w) = batch[w][i] /\ jobs[i] \in Job
        /\ Token(w) \in 1..issued[i] /\ jobs[i].token = Token(w)
    BY HandFacts DEF RecordInv, RunInv, WorkerInv, InHand, Token
  <1>2. Exists(i)
    BY <1>1, RouteJobWorkerAssumption DEF RouteJobWorkerAssumption, Exists
  <1>3. issued[i] \in Nat
    BY RouteJobWorkerAssumption DEF RouteJobWorkerAssumption, RecordInv, RunInv, WorkerInv, TypeOK
  <1>4. batch[w][i] # 0
    BY <1>1, <1>3
  <1>5. batch[w][i] = issued[i]
    BY <1>1, <1>2, <1>4 DEF RecordInv, JobRecords
  <1>6. i \notin overtaken => \A v \in Workers : BetweenRecords(v, i) => v = w
    BY <1>1, <1>2, <1>4, HolderIsAlone
  <1>7. QED
    BY <1>1, <1>2, <1>4, <1>5, <1>6

\* A worker between the records of its job
LEMMA MineFacts ==
  ASSUME RecordInv, NEW w \in Workers, NEW i \in Jobs, i = cur[w].job, pc[w] \in Recording
  PROVE  /\ BetweenRecords(w, i) /\ InHand(w) = jobs[i] /\ jobs[i] \in Job /\ Exists(i)
         /\ jobs[i].token \in {0, issued[i]}
         /\ i \notin overtaken => LastWord(w, i) /\ Written(w, i)
         /\ i \notin overtaken => \A v \in Workers : BetweenRecords(v, i) => v = w
  <1>1. BetweenRecords(w, i) /\ pc[w] \notin Between
    BY AtRecords DEF BetweenRecords, RecordInv, RunInv
  <1>2. InHand(w) = jobs[i] /\ jobs[i] \in Job
    BY <1>1, HandFacts DEF RecordInv, RunInv, WorkerInv, InHand
  <1>3. Exists(i)
    BY <1>2, RouteJobWorkerAssumption DEF RouteJobWorkerAssumption, Exists
  <1>4. batch[w][i] # 0
    BY AtRecords DEF RecordInv, RunInv
  <1>5. i \notin overtaken => \A v \in Workers : BetweenRecords(v, i) => v = w
    BY <1>1, <1>4, HolderIsAlone
  <1>6. QED
    BY <1>1, <1>2, <1>3, <1>5 DEF RecordInv, JobRecords

-----------------------------------------------------------------------------
\* A worker begins to write.
LEMMA StartRecords ==
  ASSUME RecordInv, NEW w \in Workers, Start(w), HoldsIt(w)
  PROVE  \A j \in Jobs : JobRecords(j)'
  <1>1. pc[w] \notin Between /\ WorkerInv
    BY DEF Start, Between, RecordInv, RunInv
  <1>2. PICK i \in Jobs : i = cur[w].job
    BY <1>1 DEF WorkerInv, Handed
  <1>3. /\ InHand(w) = jobs[i] /\ jobs[i] \in Job
        /\ jobs[i].token = batch[w][i] /\ batch[w][i] = issued[i]
        /\ i \notin overtaken => \A v \in Workers : BetweenRecords(v, i) => v = w
    BY <1>1, <1>2, HoldFacts
  <1>4. /\ jobs' = [jobs EXCEPT ![i] = WithStatus(jobs[i], "running")]
        /\ Continue(w, "saveRunning")
        /\ UNCHANGED <<issued, linked, commits, problems, author, traces, overtaken, died>>
    BY <1>2, <1>3 DEF Start, WriteJob, problemVars, history
  <1>5. OnlyMoves(w) /\ pc'[w] = "saveRunning" /\ cur' = cur /\ batch' = batch
    BY <1>1, <1>4, ContinueMoves
  <1>6. "running" \in Statuses
    BY DEF Statuses
  <1>7. /\ jobs'[i].status = "running" /\ jobs'[i].token = jobs[i].token
        /\ \A j \in Jobs : j # i => jobs'[j] = jobs[j]
    BY <1>1, <1>3, <1>4, <1>6, WithStatusFields DEF WorkerInv, TypeOK
  <1>8. BetweenRecords(w, i)' /\ LastWord(w, i)' /\ Written(w, i)'
    BY <1>2, <1>3, <1>4, <1>5, <1>7 DEF BetweenRecords, Recording, LastWord, Written, Failing
  <1>9. JobRecords(i)'
    BY <1>3, <1>4, <1>5, <1>7, <1>8, MineKeeps
  <1>10. OnlyHand(w)
    BY <1>2, <1>4, <1>5, <1>7 DEF OnlyHand
  <1>11. QED
    BY <1>2, <1>9, <1>10, OffHandKeeps

LEMMA AssertRecords ==
  ASSUME RecordInv, NEW w \in Workers, AssertFinalizeLease(w),
         InHand(w).status \in {"claimed", "running", "waiting_review"}, HoldsIt(w)
  PROVE  \A j \in Jobs : JobRecords(j)'
  <1>1. pc[w] \notin Between /\ WorkerInv
    BY DEF AssertFinalizeLease, Between, RecordInv, RunInv
  <1>2. PICK i \in Jobs : i = cur[w].job
    BY <1>1 DEF WorkerInv, Handed
  <1>3. /\ InHand(w) = jobs[i] /\ jobs[i] \in Job
        /\ jobs[i].token = batch[w][i] /\ batch[w][i] = issued[i]
        /\ i \notin overtaken => \A v \in Workers : BetweenRecords(v, i) => v = w
    BY <1>1, <1>2, HoldFacts
  <1>4. /\ Continue(w, "saveCommit")
        /\ UNCHANGED <<jobs, issued, linked, commits, problems, author, traces, overtaken, died>>
    BY DEF AssertFinalizeLease, queueVars, storeVars, problemVars, history
  <1>5. OnlyMoves(w) /\ pc'[w] = "saveCommit" /\ cur' = cur /\ batch' = batch
    BY <1>1, <1>4, ContinueMoves
  <1>6. BetweenRecords(w, i)' /\ LastWord(w, i)' /\ Written(w, i)'
    BY <1>2, <1>3, <1>4, <1>5 DEF BetweenRecords, Recording, LastWord, Written, Failing
  <1>7. JobRecords(i)'
    BY <1>3, <1>4, <1>5, <1>6, MineKeeps
  <1>8. OnlyHand(w)
    BY <1>2, <1>4, <1>5 DEF OnlyHand
  <1>9. QED
    BY <1>2, <1>7, <1>8, OffHandKeeps

LEMMA FailRecords ==
  ASSUME RecordInv, NEW w \in Workers, Fail(w), HoldsIt(w)
  PROVE  \A j \in Jobs : JobRecords(j)'
  <1>1. pc[w] \notin Between /\ WorkerInv
    BY DEF Fail, Between, RecordInv, RunInv
  <1>2. PICK i \in Jobs : i = cur[w].job
    BY <1>1 DEF WorkerInv, Handed
  <1>3. /\ InHand(w) = jobs[i] /\ jobs[i] \in Job
        /\ jobs[i].token = batch[w][i] /\ batch[w][i] = issued[i]
        /\ i \notin overtaken => \A v \in Workers : BetweenRecords(v, i) => v = w
    BY <1>1, <1>2, HoldFacts
  <1>4. /\ jobs' = [jobs EXCEPT ![i] = FailedNow(w)]
        /\ cur' = [cur EXCEPT ![w].dead = ~HasRetriesLeft(jobs[i])]
        /\ pc' = [pc EXCEPT ![w] = "requeue"] /\ batch' = batch
        /\ UNCHANGED <<issued, linked, commits, problems, author, traces, overtaken, died>>
    BY <1>2, <1>3, Zenon DEF Fail, Goto, WriteJob, storeVars, problemVars, history
  <1>5. PICK dead \in BOOLEAN : dead = ~HasRetriesLeft(jobs[i])
    BY Zenon DEF HasRetriesLeft
  <1>6. /\ OnlyMoves(w) /\ pc'[w] = "requeue" /\ cur'[w].job = cur[w].job /\ cur'[w].dead = dead
    BY <1>1, <1>4, <1>5 DEF OnlyMoves, WorkerInv, TypeOK
  <1>7. FailedNow(w).token = 0 /\ FailedNow(w) \in Job
    BY <1>1, FailedNowFacts DEF WorkerInv
  <1>8. FailedNow(w).status = IF dead THEN "dead_letter" ELSE "failed"
    BY <1>3, <1>5, <1>7 DEF FailedNow, Failed, HasRetriesLeft, Released, Job
  <1>9. /\ jobs'[i] = FailedNow(w) /\ \A j \in Jobs : j # i => jobs'[j] = jobs[j]
    BY <1>1, <1>4 DEF WorkerInv, TypeOK
  <1>10. BetweenRecords(w, i)' /\ Written(w, i)'
    BY <1>2, <1>6 DEF BetweenRecords, Recording, Written
  <1>11. LastWord(w, i)'
    <2>1. batch'[w][i] = issued'[i]
      BY <1>3, <1>4
    <2>2. jobs'[i].status = IF cur'[w].dead THEN "dead_letter" ELSE "failed"
      BY <1>6, <1>8, <1>9
    <2>3. QED
      BY <1>6, <2>1, <2>2 DEF LastWord, Failing
  <1>12. JobRecords(i)'
    BY <1>3, <1>4, <1>6, <1>7, <1>9, <1>10, <1>11, MineKeeps
  <1>13. OnlyHand(w)
    BY <1>2, <1>4, <1>6, <1>9 DEF OnlyHand
  <1>14. QED
    BY <1>2, <1>12, <1>13, OffHandKeeps

-----------------------------------------------------------------------------
\* It goes on writing.
LEMMA SaveRecords ==
  ASSUME RecordInv, NEW w \in Workers,
         \/ SaveRunningCommit(w) \/ SaveFinalCommit(w) \/ SaveFinalProblem(w) \/ RequeueCommit(w)
  PROVE  \A j \in Jobs : JobRecords(j)'
  <1>1. pc[w] \in Recording /\ pc[w] \notin Between /\ WorkerInv
    BY DEF SaveRunningCommit, SaveFinalCommit, SaveFinalProblem, RequeueCommit, Recording, Between,
           RecordInv, RunInv
  <1>2. PICK i \in Jobs : i = cur[w].job
    BY <1>1 DEF WorkerInv, Handed
  <1>3. /\ jobs[i].token \in {0, issued[i]} /\ BetweenRecords(w, i)
        /\ i \notin overtaken => LastWord(w, i) /\ Written(w, i)
        /\ i \notin overtaken => \A v \in Workers : BetweenRecords(v, i) => v = w
    BY <1>1, <1>2, MineFacts
  <1>4. UNCHANGED <<jobs, issued, linked, traces, overtaken, died>>
    BY DEF SaveRunningCommit, SaveFinalCommit, SaveFinalProblem, RequeueCommit, queueVars, history
  <1>5. \E label \in Recording : Continue(w, label)
    BY DEF SaveRunningCommit, SaveFinalCommit, SaveFinalProblem, RequeueCommit, Recording
  <1>6. OnlyMoves(w) /\ pc'[w] \in Recording /\ cur' = cur /\ batch' = batch
    BY <1>1, <1>5, ContinueMoves
  <1>7. BetweenRecords(w, i)'
    BY <1>2, <1>6 DEF BetweenRecords
  <1>8. OnlyHand(w)
    <2>1. \A j \in Jobs \ {cur[w].job} : commits'[j] = commits[j]
      BY <1>1 DEF SaveRunningCommit, SaveFinalCommit, SaveFinalProblem, RequeueCommit, WriteCommit,
                  WorkerInv, TypeOK
    <2>2. UNCHANGED <<problems, author>> \/ \E status : WriteProblem(w, status)
      BY DEF SaveRunningCommit, SaveFinalCommit, SaveFinalProblem, RequeueCommit, problemVars
    <2>3. QED
      BY <1>4, <1>6, <2>1, <2>2 DEF OnlyHand
  <1>9. i \notin overtaken => LastWord(w, i)' /\ Written(w, i)'
    <2> SUFFICES ASSUME i \notin overtaken
                 PROVE  LastWord(w, i)' /\ Written(w, i)'
      OBVIOUS
    <2>1. LastWord(w, i) /\ Written(w, i)
      BY <1>3
    <2>2. CASE SaveRunningCommit(w)
      <3>1. pc[w] = "saveRunning" /\ pc'[w] = "saveInProgress"
        BY <1>1, <2>2, ContinueMoves DEF SaveRunningCommit
      <3>2. QED
        BY <1>4, <1>6, <2>1, <3>1 DEF LastWord, Withdrawn, Written, Failing
    <2>3. CASE SaveFinalCommit(w)
      <3>1. pc[w] = "saveCommit" /\ pc'[w] = "saveProblem"
        BY <1>1, <2>3, ContinueMoves DEF SaveFinalCommit
      <3>2. commits'[i] = CommitStatusOf(cur'[w].result)
        BY <1>1, <1>2, <1>6, <2>3 DEF SaveFinalCommit, WriteCommit, WorkerInv, TypeOK
      <3>3. QED
        BY <1>4, <1>6, <2>1, <3>1, <3>2 DEF LastWord, Withdrawn, Written, Failing
    <2>4. CASE SaveFinalProblem(w)
      <3>1. pc[w] = "saveProblem" /\ pc'[w] = "settle" /\ commits' = commits
        BY <1>1, <2>4, ContinueMoves DEF SaveFinalProblem
      <3>2. Problem(i)' = IF cur'[w].result = "COMPLETED" THEN "routed" ELSE "waiting"
        BY <1>1, <1>2, <1>6, <2>4, RouteJobWorkerAssumption
        DEF RouteJobWorkerAssumption, SaveFinalProblem, WriteProblem, Problem, WorkerInv, TypeOK
      <3>3. QED
        BY <1>4, <1>6, <2>1, <3>1, <3>2 DEF LastWord, Withdrawn, Written, Failing
    <2>5. CASE RequeueCommit(w)
      <3>1. pc[w] = "requeue" /\ pc'[w] = "hold"
        BY <1>1, <2>5, ContinueMoves DEF RequeueCommit
      <3>2. commits'[i] = IF cur'[w].dead THEN "failed" ELSE "queued"
        BY <1>1, <1>2, <1>6, <2>5 DEF RequeueCommit, WriteCommit, WorkerInv, TypeOK
      <3>3. QED
        BY <1>4, <1>6, <2>1, <3>1, <3>2 DEF LastWord, Withdrawn, Written, Failing
    <2>6. QED
      BY <2>2, <2>3, <2>4, <2>5
  <1>10. JobRecords(i)'
    BY <1>3, <1>4, <1>6, <1>7, <1>9, MineKeeps
  <1>11. QED
    BY <1>2, <1>8, <1>10, OffHandKeeps

-----------------------------------------------------------------------------
\* It has written, or stops.
LEMMA RunRecords ==
  ASSUME RecordInv, NEW w \in Workers, SaveRunningProblem(w)
  PROVE  \A j \in Jobs : JobRecords(j)'
  <1>1. pc[w] = "saveInProgress" /\ pc[w] \in Recording /\ pc[w] \notin Between /\ WorkerInv
    BY DEF SaveRunningProblem, Recording, Between, RecordInv, RunInv
  <1>2. PICK i \in Jobs : i = cur[w].job
    BY <1>1 DEF WorkerInv, Handed
  <1>3. /\ jobs[i].token \in {0, issued[i]} /\ BetweenRecords(w, i)
        /\ i \notin overtaken => LastWord(w, i)
    BY <1>1, <1>2, MineFacts
  <1>4. UNCHANGED <<jobs, issued, commits, linked, traces, overtaken, died>>
    BY DEF SaveRunningProblem, queueVars, history
  <1>5. OnlyMoves(w) /\ pc'[w] = "run" /\ cur' = cur
    BY <1>1, ContinueMoves DEF SaveRunningProblem
  <1>6. ~BetweenRecords(w, i)'
    BY <1>5 DEF BetweenRecords, Recording
  <1>7. OnlyHand(w)
    BY <1>4, <1>5 DEF OnlyHand, SaveRunningProblem
  <1>8. i \notin overtaken => jobs'[i].status \in {"running", "cancelled", "queued"}
    BY <1>1, <1>3, <1>4 DEF LastWord, Withdrawn
  <1>9. i \notin overtaken => Recorded(i)' /\ Agree(i)'
    BY <1>8 DEF Recorded, Agree
  <1>10. JobRecords(i)'
    BY <1>3, <1>4, <1>5, <1>6, <1>9, DoneKeeps
  <1>11. QED
    BY <1>2, <1>7, <1>10, OffHandKeeps

LEMMA HoldRecords ==
  ASSUME RecordInv, NEW w \in Workers, HoldProblem(w)
  PROVE  \A j \in Jobs : JobRecords(j)'
  <1>1. pc[w] = "hold" /\ pc[w] \in Recording /\ pc[w] \notin Between /\ WorkerInv
    BY DEF HoldProblem, Recording, Between, RecordInv, RunInv
  <1>2. PICK i \in Jobs : i = cur[w].job
    BY <1>1 DEF WorkerInv, Handed
  <1>3. /\ jobs[i].token \in {0, issued[i]} /\ BetweenRecords(w, i)
        /\ i \notin overtaken => LastWord(w, i) /\ Written(w, i)
    BY <1>1, <1>2, MineFacts
  <1>4. UNCHANGED <<jobs, issued, commits, linked, traces, overtaken, died>>
    BY DEF HoldProblem, queueVars, history
  <1>5. OnlyMoves(w) /\ pc'[w] \notin Recording /\ cur'[w] = Nothing
    BY <1>1, NextJobMoves DEF HoldProblem
  <1>6. ~BetweenRecords(w, i)'
    BY <1>5 DEF BetweenRecords
  <1>7. OnlyHand(w)
    BY <1>4, <1>5 DEF OnlyHand, HoldProblem, Nothing
  <1>8. Problem(i)' = "waiting"
    BY <1>1, <1>2, RouteJobWorkerAssumption
    DEF RouteJobWorkerAssumption, HoldProblem, WriteProblem, Problem, WorkerInv, TypeOK
  <1>9. i \notin overtaken => Recorded(i)' /\ Agree(i)'
    <2> SUFFICES ASSUME i \notin overtaken
                 PROVE  Recorded(i)' /\ Agree(i)'
      OBVIOUS
    <2>1. jobs[i].status = (IF cur[w].dead THEN "dead_letter" ELSE "failed") \/ Withdrawn(i)
      BY <1>1, <1>3 DEF LastWord, Failing
    <2>2. commits[i] = IF cur[w].dead THEN "failed" ELSE "queued"
      BY <1>1, <1>3 DEF Written
    <2>3. QED
      BY <1>4, <1>8, <2>1, <2>2 DEF Recorded, Agree, Withdrawn
  <1>10. JobRecords(i)'
    BY <1>3, <1>4, <1>5, <1>6, <1>9, DoneKeeps
  <1>11. QED
    BY <1>2, <1>7, <1>10, OffHandKeeps

LEMMA SettleRecords ==
  ASSUME RecordInv, NEW w \in Workers, Settle(w)
  PROVE  \A j \in Jobs : JobRecords(j)'
  <1>1. pc[w] = "settle" /\ pc[w] \in Recording /\ pc[w] \notin Between /\ WorkerInv
    BY DEF Settle, Recording, Between, RecordInv, RunInv
  <1>2. PICK i \in Jobs : i = cur[w].job
    BY <1>1 DEF WorkerInv, Handed
  <1>3. /\ InHand(w) = jobs[i] /\ jobs[i] \in Job
        /\ jobs[i].token \in {0, issued[i]} /\ BetweenRecords(w, i)
        /\ i \notin overtaken => LastWord(w, i) /\ Written(w, i)
    BY <1>1, <1>2, MineFacts
  <1>4. UNCHANGED <<issued, commits, problems, author, traces, overtaken, died>>
    BY DEF Settle, problemVars, history
  <1>5. OnlyMoves(w) /\ pc'[w] \notin Recording /\ cur'[w] = Nothing
    BY <1>1, NextJobMoves, LeaveMoves DEF Settle
  <1>6. ~BetweenRecords(w, i)'
    BY <1>5 DEF BetweenRecords
  <1>7. CASE ~HoldsIt(w)
    <2>1. UNCHANGED <<jobs, linked>>
      BY <1>7 DEF Settle
    <2>2. OnlyHand(w)
      BY <1>4, <1>5, <2>1 DEF OnlyHand, Nothing
    <2>3. jobs[i].token # batch[w][i]
      BY <1>2, <1>3, <1>7 DEF HoldsIt, HoldsLease, Token
    <2>4. i \notin overtaken => Withdrawn(i)
      BY <1>1, <1>3, <2>3 DEF LastWord
    <2>5. i \notin overtaken => Recorded(i)' /\ Agree(i)'
      BY <2>1, <2>4 DEF Withdrawn, Recorded, Agree
    <2>6. JobRecords(i)'
      BY <1>3, <1>4, <1>5, <1>6, <2>1, <2>5, DoneKeeps
    <2>7. QED
      BY <1>2, <2>2, <2>6, OffHandKeeps
  <1>8. CASE HoldsIt(w)
    <2>1. \A j \in Jobs : j # i => jobs'[j] = jobs[j] /\ linked'[j] = linked[j]
      <3>1. \E job : WriteJob(w, job)
        BY <1>8 DEF Settle
      <3>2. linked' = linked \/ linked' = [linked EXCEPT ![i] = TRUE]
        BY <1>2, <1>8 DEF Settle
      <3>3. QED
        BY <1>1, <1>2, <3>1, <3>2 DEF WriteJob, WorkerInv, TypeOK
    <2>2. OnlyHand(w)
      BY <1>2, <1>4, <1>5, <2>1 DEF OnlyHand, Nothing
    <2>3. ASSUME i \notin overtaken
          PROVE  /\ commits'[i] = CommitStatusOf(cur[w].result)
                 /\ SpeaksOf(i)' => Problem(i)' = IF cur[w].result = "COMPLETED" THEN "routed" ELSE "waiting"
      BY <1>1, <1>3, <1>4, <2>3 DEF Written, SpeaksOf, Problem
    <2>4. CASE cur[w].result = "WAITING_FOR_REVIEW"
      <3>1. "waiting_review" \in Statuses
        BY DEF Statuses
      <3>2. jobs'[i] = Released(WithStatus(jobs[i], "waiting_review"))
        BY <1>1, <1>2, <1>3, <1>8, <2>4 DEF Settle, WriteJob, WorkerInv, TypeOK
      <3>3. jobs'[i].status = "waiting_review" /\ jobs'[i].token = 0
        BY <1>3, <3>1, <3>2, WithStatusFields, ReleasedFields
      <3>4. i \notin overtaken => Recorded(i)' /\ Agree(i)'
        BY <2>3, <2>4, <3>3 DEF Recorded, Agree, CommitStatusOf
      <3>5. JobRecords(i)'
        BY <1>3, <1>4, <1>5, <1>6, <3>3, <3>4, DoneKeeps
      <3>6. QED
        BY <1>2, <2>2, <3>5, OffHandKeeps
    <2>5. CASE cur[w].result = "COMPLETED"
      <3>1. "completed" \in Statuses
        BY DEF Statuses
      <3>2. /\ jobs'[i] = Released(WithStatus(jobs[i], "completed")) /\ linked'[i] = TRUE
        BY <1>1, <1>2, <1>3, <1>8, <2>5 DEF Settle, WriteJob, WorkerInv, TypeOK
      <3>3. jobs'[i].status = "completed" /\ jobs'[i].token = 0
        BY <1>3, <3>1, <3>2, WithStatusFields, ReleasedFields
      <3>4. traces'[i] # None
        BY <1>2, <1>4, <2>5 DEF RecordInv, Stored, None
      <3>5. i \notin overtaken => Recorded(i)' /\ Agree(i)'
        BY <2>3, <2>5, <3>2, <3>3, <3>4 DEF Recorded, Agree, CommitStatusOf
      <3>6. JobRecords(i)'
        BY <1>3, <1>4, <1>5, <1>6, <3>3, <3>5, DoneKeeps
      <3>7. QED
        BY <1>2, <2>2, <3>6, OffHandKeeps
    <2>6. CASE cur[w].result \notin {"WAITING_FOR_REVIEW", "COMPLETED"}
      <3>1. jobs'[i] = FailedNow(w)
        BY <1>1, <1>2, <1>3, <1>8, <2>6 DEF Settle, WriteJob, WorkerInv, TypeOK
      <3>2. FailedNow(w).token = 0
        BY <1>1, FailedNowFacts DEF WorkerInv
      <3>3. FailedNow(w).status \in {"failed", "dead_letter"}
        BY <1>3 DEF FailedNow, Failed, Released, Job
      <3>4. i \notin overtaken => Recorded(i)' /\ Agree(i)'
        BY <2>3, <2>6, <3>1, <3>3 DEF Recorded, Agree, CommitStatusOf
      <3>5. JobRecords(i)'
        BY <1>3, <1>4, <1>5, <1>6, <3>1, <3>2, <3>4, DoneKeeps
      <3>6. QED
        BY <1>2, <2>2, <3>5, OffHandKeeps
    <2>7. QED
      BY <2>4, <2>5, <2>6
  <1>9. QED
    BY <1>7, <1>8

\* A worker that dies between the records
LEMMA CrashRecords ==
  ASSUME RecordInv, NEW w \in Workers, Crash(w), pc[w] \in Recording
  PROVE  \A j \in Jobs : JobRecords(j)'
  <1>1. pc[w] \notin Between /\ WorkerInv
    BY DEF Recording, Between, RecordInv, RunInv
  <1>2. PICK i \in Jobs : i = cur[w].job
    BY <1>1 DEF WorkerInv, Handed
  <1>3. /\ jobs[i].token \in {0, issued[i]} /\ BetweenRecords(w, i)
        /\ i \notin overtaken => LastWord(w, i)
    BY <1>2, MineFacts
  <1>4. /\ UNCHANGED <<jobs, issued, commits, linked, problems, author, traces, overtaken>>
        /\ died' = died \cup {i}
    BY <1>2 DEF Crash, queueVars, storeVars, problemVars
  <1>5. OnlyMoves(w) /\ pc'[w] \notin Recording /\ cur'[w] = Nothing
    BY <1>1, LeaveMoves DEF Crash
  <1>6. ~BetweenRecords(w, i)'
    BY <1>5 DEF BetweenRecords
  <1>7. OnlyHand(w)
    BY <1>4, <1>5 DEF OnlyHand, Nothing
  <1>8. i \notin overtaken => jobs'[i].status # "completed"
    BY <1>3, <1>4 DEF LastWord, Withdrawn, Recording, Failing
  <1>9. JobRecords(i)'
    BY <1>3, <1>4, <1>5, <1>6, <1>8, DoneKeeps DEF Recorded
  <1>10. QED
    BY <1>2, <1>7, <1>9, OffHandKeeps

-----------------------------------------------------------------------------
\* The steps of a worker outside of the records
LEMMA QuietRecords ==
  ASSUME RecordInv, NEW w \in Workers,
         \/ EndBatch(w) \/ \E j \in Jobs : RefuseReview(w, j) \/ TakeReview(w, j) \/ TakeDue(w, j)
         \/ Start(w) /\ ~HoldsIt(w)
         \/ RunEnds(w) \/ RunThrows(w) \/ HeartbeatFailed(w) \/ FinalRenew(w) \/ Heartbeat(w)
         \/ AssertFinalizeLease(w)
            /\ ~(InHand(w).status \in {"claimed", "running", "waiting_review"} /\ HoldsIt(w))
         \/ Fail(w) /\ ~HoldsIt(w)
         \/ Crash(w) /\ pc[w] \notin Recording
  PROVE  \A j \in Jobs : JobRecords(j)'
  <1>1. WorkerInv
    BY DEF RecordInv, RunInv
  <1>2. mode[w] \in {"reviewing", "working"} /\ mode[w] \notin Recording
    BY <1>1 DEF WorkerInv, TypeOK, Recording
  <1>3. CASE \/ EndBatch(w) \/ \E j \in Jobs : RefuseReview(w, j)
             \/ AssertFinalizeLease(w)
                /\ ~(InHand(w).status \in {"claimed", "running", "waiting_review"} /\ HoldsIt(w))
             \/ Crash(w) /\ pc[w] \notin Recording
    <2>1. Leave(w) /\ pc[w] \notin Recording
      BY <1>3 DEF EndBatch, RefuseReview, AssertFinalizeLease, Crash, Recording
    <2>2. UNCHANGED <<jobs, issued, commits, problems, author, linked, traces, overtaken, died>>
      BY <1>3 DEF EndBatch, RefuseReview, AssertFinalizeLease, Crash, queueVars, storeVars,
                  problemVars, history
    <2>3. OnlyMoves(w) /\ pc'[w] \notin Recording
      BY <1>1, <2>1, LeaveMoves
    <2>4. QED
      BY <2>1, <2>2, <2>3, QuietWorkKeeps DEF SameStatus
  <1>4. CASE \E j \in Jobs : TakeReview(w, j) \/ TakeDue(w, j)
    <2>1. PICK j \in Jobs, label \in {"start", "finalize", "fail"} : Take(w, j, label)
      BY <1>4 DEF TakeReview, TakeDue
    <2>2. /\ pc[w] \notin Recording /\ pc' = [pc EXCEPT ![w] = label]
          /\ cur' = [cur EXCEPT ![w] = [job |-> j, result |-> traces[j], dead |-> FALSE]]
          /\ batch' = batch
          /\ UNCHANGED <<jobs, issued, commits, problems, author, linked, traces, overtaken, died>>
      BY <1>2, <2>1 DEF Take, Goto, queueVars, storeVars, problemVars, history
    <2>3. OnlyMoves(w) /\ pc'[w] \notin Recording
      BY <1>1, <2>2 DEF OnlyMoves, Recording, WorkerInv, TypeOK
    <2>4. QED
      BY <2>2, <2>3, QuietWorkKeeps DEF SameStatus
  <1>5. CASE \/ (Start(w) /\ ~HoldsIt(w)) \/ RunThrows(w) \/ HeartbeatFailed(w)
    <2>1. Continue(w, "fail") /\ pc[w] \notin Recording
      BY <1>5 DEF Start, RunThrows, HeartbeatFailed, Recording
    <2>2. UNCHANGED <<jobs, issued, commits, problems, author, linked, traces, overtaken, died>>
      BY <1>5 DEF Start, RunThrows, HeartbeatFailed, queueVars, storeVars, problemVars, history
    <2>3. OnlyMoves(w) /\ pc'[w] \notin Recording
      BY <1>1, <2>1, ContinueMoves DEF Recording
    <2>4. QED
      BY <2>1, <2>2, <2>3, QuietWorkKeeps DEF SameStatus
  <1>6. CASE Fail(w) /\ ~HoldsIt(w)
    <2>1. NextJob(w) /\ pc[w] \notin Recording
      BY <1>6 DEF Fail, Recording
    <2>2. UNCHANGED <<jobs, issued, commits, problems, author, linked, traces, overtaken, died>>
      BY <1>6 DEF Fail, storeVars, problemVars, history
    <2>3. OnlyMoves(w) /\ pc'[w] \notin Recording
      BY <1>1, <2>1, NextJobMoves
    <2>4. QED
      BY <2>1, <2>2, <2>3, QuietWorkKeeps DEF SameStatus
  <1>7. CASE RunEnds(w)
    <2>1. PICK result \in Results :
            /\ traces' = [traces EXCEPT ![cur[w].job] = result]
            /\ cur' = [cur EXCEPT ![w].result = result]
      BY <1>7 DEF RunEnds
    <2>2. /\ pc[w] \notin Recording /\ pc' = [pc EXCEPT ![w] = "renew"] /\ batch' = batch
          /\ UNCHANGED <<jobs, issued, commits, problems, author, linked, overtaken, died>>
      BY <1>7 DEF RunEnds, Goto, Recording, queueVars, problemVars, history
    <2>3. OnlyMoves(w) /\ pc'[w] \notin Recording
      BY <1>1, <2>1, <2>2 DEF OnlyMoves, Recording, WorkerInv, TypeOK
    <2>4. \A j \in Jobs : traces[j] # None => traces'[j] # None
      BY <1>1, <2>1 DEF WorkerInv, TypeOK, Results, None
    <2>5. QED
      BY <2>2, <2>3, <2>4, QuietWorkKeeps DEF SameStatus
  <1>8. CASE FinalRenew(w) \/ Heartbeat(w)
    <2>1. pc[w] \notin Recording /\ pc[w] \notin Between
      BY <1>8 DEF FinalRenew, Heartbeat, Recording, Between
    <2>2. UNCHANGED <<issued, commits, problems, author, linked, traces, overtaken, died>>
      BY <1>8 DEF FinalRenew, Heartbeat, storeVars, problemVars, history
    <2>3. OnlyMoves(w) /\ pc'[w] \notin Recording
      <3>1. CASE FinalRenew(w)
        <4>1. \E label \in {"fail", "finalize"} : Continue(w, label)
          BY <3>1 DEF FinalRenew
        <4>2. QED
          BY <1>1, <4>1, ContinueMoves DEF Recording
      <3>2. CASE Heartbeat(w)
        BY <2>1, <3>2 DEF Heartbeat, workerVars, OnlyMoves
      <3>3. QED
        BY <1>8, <3>1, <3>2
    <2>4. \A j \in Jobs : SameStatus(j)
      <3>1. CASE jobs' = jobs
        BY <3>1 DEF SameStatus
      <3>2. CASE WriteJob(w, Renewed(InHand(w), LeaseTicks))
        <4>1. PICK i \in Jobs : i = cur[w].job
          BY <1>1, <2>1 DEF WorkerInv, Handed
        <4>2. InHand(w) = jobs[i] /\ jobs[i] \in Job /\ LeaseTicks \in 0..LeaseTicks
          BY <1>1, <2>1, <4>1, HandFacts, Bounds DEF WorkerInv, InHand
        <4>3. jobs' = [jobs EXCEPT ![i] = Renewed(jobs[i], LeaseTicks)]
          BY <3>2, <4>1, <4>2 DEF WriteJob
        <4>4. /\ jobs'[i].status = jobs[i].status /\ jobs'[i].token = jobs[i].token
              /\ \A j \in Jobs : j # i => jobs'[j] = jobs[j]
          BY <1>1, <4>2, <4>3, RenewedFields DEF WorkerInv, TypeOK
        <4>5. Exists(i)
          BY <4>2, RouteJobWorkerAssumption DEF RouteJobWorkerAssumption, Exists
        <4>6. QED
          BY <4>4, <4>5 DEF SameStatus
      <3>3. QED
        BY <1>8, <3>1, <3>2 DEF FinalRenew, Heartbeat
    <2>5. QED
      BY <2>1, <2>2, <2>3, <2>4, QuietWorkKeeps
  <1>9. QED
    BY <1>3, <1>4, <1>5, <1>6, <1>7, <1>8

-----------------------------------------------------------------------------
\* Claims
LEMMA ClaimRecords ==
  ASSUME RecordInv, NEW w \in Workers, NEW S \in SUBSET Jobs, NEW claimed \in [S -> Job],
         Claim(w, S, claimed), pc[w] \notin Recording,
         NEW label \in {"reviewing", "working"}, Goto(w, label),
         \A j \in S : /\ Exists(j) /\ claimed[j].token = issued[j] + 1
                      /\ \/ claimed[j].status = "claimed"
                         \/ claimed[j].status = "waiting_review" /\ jobs[j].status = "waiting_review"
  PROVE  \A j \in Jobs : JobRecords(j)'
  <1> SUFFICES ASSUME NEW j \in Jobs
               PROVE  JobRecords(j)'
    OBVIOUS
  <1>1. /\ jobs' = [i \in Jobs |-> IF i \in S THEN claimed[i] ELSE jobs[i]]
        /\ issued' = [i \in Jobs |-> IF i \in S THEN issued[i] + 1 ELSE issued[i]]
        /\ batch' = [batch EXCEPT ![w] = [i \in Jobs |-> IF i \in S THEN issued[i] + 1 ELSE 0]]
        /\ overtaken' = overtaken \cup {i \in S : \E v \in Workers : BetweenRecords(v, i)}
        /\ UNCHANGED <<storeVars, cur, died>>
    BY DEF Claim
  <1>2. OnlyMoves(w) /\ pc'[w] = label
    BY <1>1 DEF OnlyMoves, Goto, RecordInv, RunInv, WorkerInv, TypeOK
  <1>3. ~BetweenRecords(w, j) /\ ~BetweenRecords(w, j)'
    BY <1>2 DEF BetweenRecords, Recording
  <1>4. CASE j \in S
    <2>1. \A v \in Workers : BetweenRecords(v, j)' => BetweenRecords(v, j)
      BY <1>2, <1>3 DEF OnlyMoves, BetweenRecords
    <2>2. AtRest(j) \/ j \in overtaken'
      BY <1>1, <1>4 DEF AtRest
    <2>3. jobs'[j] = claimed[j] /\ issued'[j] = issued[j] + 1
      BY <1>1, <1>4
    <2>4. (j \in overtaken => j \in overtaken') /\ died' = died
      BY <1>1
    <2>5. UNCHANGED storeVars
      BY <1>1
    <2>6. QED
      BY <1>4, <2>1, <2>2, <2>3, <2>4, <2>5, ClaimedKeeps
  <1>5. CASE j \notin S
    <2>1. jobs'[j] = jobs[j] /\ issued'[j] = issued[j]
      BY <1>1, <1>5
    <2>2. UNCHANGED <<commits, problems, author, traces, linked>>
      BY <1>1 DEF storeVars, problemVars
    <2>3. Kept(j) /\ SameStatus(j)
      BY <1>1, <2>1, <2>2 DEF Kept, SameStatus
    <2>4. QED
      BY <1>2, <1>3, <2>3, ElsewhereKeeps
  <1>6. QED
    BY <1>4, <1>5

LEMMA ClaimsRecords ==
  ASSUME RecordInv, NEW w \in Workers, StartBatch(w) \/ ClaimDueJobs(w)
  PROVE  \A j \in Jobs : JobRecords(j)'
  <1>1. WorkerInv
    BY DEF RecordInv, RunInv
  <1>2. CASE StartBatch(w)
    <2> DEFINE S == {j \in Jobs : /\ Exists(j) /\ ReviewDue(jobs[j])
                                  /\ InVain(j) => Room(j, 1 + MaxAttempts)
                                  /\ issued[j] < MaxGrants}
               claimed == [j \in S |-> ReviewClaimed(jobs[j], issued[j] + 1, LeaseTicks)]
    <2>1. Claim(w, S, claimed) /\ Goto(w, "reviewing") /\ pc[w] \notin Recording
      BY <1>2 DEF StartBatch, Recording
    <2>2. \A j \in S : /\ Exists(j) /\ jobs[j] \in Job /\ jobs[j].status = "waiting_review"
                        /\ issued[j] + 1 \in Nat
      BY <1>1, RouteJobWorkerAssumption
      DEF RouteJobWorkerAssumption, WorkerInv, TypeOK, Exists, ReviewDue
    <2>3. S \in SUBSET Jobs /\ \A j \in S : claimed[j] = ReviewClaimed(jobs[j], issued[j] + 1, LeaseTicks)
      OBVIOUS
    <2>4. claimed = [j \in S |-> claimed[j]]
      OBVIOUS
    <2> HIDE DEF S, claimed
    <2>5. \A j \in S : /\ claimed[j] \in Job /\ claimed[j].token = issued[j] + 1
                        /\ claimed[j].status = "waiting_review"
      <3> SUFFICES ASSUME NEW j \in S
                   PROVE  /\ claimed[j] \in Job /\ claimed[j].token = issued[j] + 1
                          /\ claimed[j].status = "waiting_review"
        OBVIOUS
      <3>1. jobs[j] \in Job /\ issued[j] + 1 \in Nat /\ jobs[j].status = "waiting_review"
        BY <2>2
      <3>2. claimed[j] = ReviewClaimed(jobs[j], issued[j] + 1, LeaseTicks)
        BY <2>3
      <3>3. PICK token \in Nat : token = issued[j] + 1
        BY <3>1
      <3>4. LeaseTicks \in 0..LeaseTicks
        BY Bounds
      <3>5. /\ ReviewClaimed(jobs[j], token, LeaseTicks) \in Job
            /\ ReviewClaimed(jobs[j], token, LeaseTicks).status = "waiting_review"
            /\ ReviewClaimed(jobs[j], token, LeaseTicks).token = token
        BY <3>1, <3>4, ReviewClaimedFields
      <3>6. QED
        BY <3>2, <3>3, <3>5
    <2>6. claimed \in [S -> Job]
      BY <2>4, <2>5
    <2>7. QED
      BY <2>1, <2>2, <2>3, <2>5, <2>6, ClaimRecords
  <1>3. CASE ClaimDueJobs(w)
    <2> DEFINE S == {j \in Jobs : Exists(j) /\ Due(jobs[j]) /\ issued[j] < MaxGrants}
               left == Left(LeaseTicks, w)
               claimed == [j \in S |-> Claimed(jobs[j], issued[j] + 1, left)]
    <2>1. Claim(w, S, claimed) /\ Goto(w, "working") /\ pc[w] \notin Recording
      BY <1>3 DEF ClaimDueJobs, Recording
    <2>2. left \in 0..LeaseTicks
      BY <1>1, LeftFacts, Bounds DEF WorkerInv
    <2> HIDE DEF left
    <2>3. \A j \in S : Exists(j) /\ jobs[j] \in Job /\ Due(jobs[j]) /\ issued[j] + 1 \in Nat
      BY <1>1, RouteJobWorkerAssumption DEF RouteJobWorkerAssumption, WorkerInv, TypeOK, Exists
    <2>4. S \in SUBSET Jobs /\ \A j \in S : claimed[j] = Claimed(jobs[j], issued[j] + 1, left)
      OBVIOUS
    <2>5. claimed = [j \in S |-> claimed[j]]
      OBVIOUS
    <2> HIDE DEF S, claimed
    <2>6. \A j \in S : /\ claimed[j] \in Job /\ claimed[j].token = issued[j] + 1
                        /\ claimed[j].status = "claimed"
      BY <2>2, <2>3, <2>4, ClaimedFields
    <2>7. claimed \in [S -> Job]
      BY <2>5, <2>6
    <2>8. QED
      BY <2>1, <2>3, <2>4, <2>6, <2>7, ClaimRecords
  <1>4. QED
    BY <1>2, <1>3

-----------------------------------------------------------------------------
\* The rest of the system
LEMMA StayUnmoved ==
  ASSUME UNCHANGED <<pc, cur, batch>>
  PROVE  \A j \in Jobs : Unmoved(j)
  BY DEF Unmoved, AtRest, BetweenRecords

LEMMA SubmitRecords ==
  ASSUME RecordInv, NEW i \in Jobs, Submit(i)
  PROVE  \A j \in Jobs : JobRecords(j)'
  <1>1. WorkerInv
    BY DEF RecordInv, RunInv
  <1>2. /\ ~Exists(i) /\ jobs' = [jobs EXCEPT ![i] = QueuedJob]
        /\ commits' = [commits EXCEPT ![i] = "queued"]
        /\ author' = [author EXCEPT ![ProblemOf[i]] = None]
        /\ problems' = [problems EXCEPT ![ProblemOf[i]] = "routed"]
        /\ UNCHANGED <<issued, linked, traces, overtaken, died, pc, cur, batch>>
    BY DEF Submit, workerVars, history
  <1>3. ASSUME NEW j \in Jobs, j # i
        PROVE  JobRecords(j)'
    <2>1. jobs'[j] = jobs[j] /\ commits'[j] = commits[j]
      BY <1>1, <1>2, <1>3 DEF WorkerInv, TypeOK
    <2>2. \/ author'[ProblemOf[j]] # j
          \/ /\ author'[ProblemOf[j]] = author[ProblemOf[j]]
             /\ problems'[ProblemOf[j]] = problems[ProblemOf[j]]
      BY <1>1, <1>2, RouteJobWorkerAssumption DEF RouteJobWorkerAssumption, WorkerInv, TypeOK
    <2>3. Kept(j) /\ SameStatus(j)
      BY <1>2, <2>1, <2>2 DEF Kept, SameStatus
    <2>4. QED
      BY <1>2, <2>3, StayUnmoved, QuietKeeps
  <1>4. JobRecords(i)'
    <2>1. jobs[i] = NoJob
      BY <1>2 DEF Exists
    <2>2. \A v \in Workers : ~BetweenRecords(v, i)
      BY <1>1, <2>1, AtRecords, HandFacts, RouteJobWorkerAssumption
      DEF RouteJobWorkerAssumption, BetweenRecords, WorkerInv, InHand
    <2>3. \A v \in Workers : ~BetweenRecords(v, i)'
      BY <1>2, <2>2 DEF BetweenRecords
    <2>4. jobs'[i].status = "queued" /\ jobs'[i].token = 0
      BY <1>1, <1>2, QueuedJobFields DEF WorkerInv, TypeOK
    <2>5. QED
      BY <2>3, <2>4 DEF JobRecords, Recorded, Agree
  <1>5. QED
    BY <1>3, <1>4

\* An operator's request for the job i
LEMMA OperatorRecords ==
  ASSUME RecordInv, NEW i \in Jobs, RetryJob(i) \/ CancelJob(i)
  PROVE  \A j \in Jobs : JobRecords(j)'
  <1>1. WorkerInv
    BY DEF RecordInv, RunInv
  <1>2. jobs[i] \in Job
    BY <1>1 DEF RetryJob, CancelJob, WorkerInv, TypeOK, Exists
  <1>3. UNCHANGED <<issued, commits, problems, author, linked, traces, overtaken, died, pc, cur, batch>>
    BY DEF RetryJob, CancelJob, storeVars, problemVars, workerVars, history
  <1>4. /\ \A j \in Jobs : j # i => jobs'[j] = jobs[j]
        /\ jobs'[i].token = 0 /\ jobs'[i].status \in {"cancelled", "queued"}
    BY <1>1, <1>2, RetriedFields, CancelledFields DEF RetryJob, CancelJob, WorkerInv, TypeOK
  <1>5. \A j \in Jobs : Unmoved(j) /\ Kept(j)
    BY <1>3, StayUnmoved DEF Kept
  <1>6. ASSUME NEW j \in Jobs, j # i
        PROVE  JobRecords(j)'
    BY <1>4, <1>5, <1>6, QuietKeeps DEF SameStatus
  <1>7. QED
    BY <1>4, <1>5, <1>6, WithdrawnKeeps

\* Reviewers, the clock and whoever else saves the problem
LEMMA OtherRecords ==
  ASSUME RecordInv,
         \/ \E i \in Jobs : SaveProblemOf(i) \/ ContextChanges(i) \/ Approve(i) \/ Reject(i)
         \/ Tick \/ UNCHANGED vars
  PROVE  \A j \in Jobs : JobRecords(j)'
  <1> SUFFICES ASSUME NEW j \in Jobs
               PROVE  JobRecords(j)'
    OBVIOUS
  <1>1. WorkerInv
    BY DEF RecordInv, RunInv
  <1>2. UNCHANGED <<issued, commits, linked, overtaken, died, pc, cur, batch>>
    <2>1. CASE \E i \in Jobs : SaveProblemOf(i) \/ ContextChanges(i) \/ Approve(i) \/ Reject(i)
      BY <2>1 DEF SaveProblemOf, ContextChanges, Approve, Reject, queueVars, workerVars, history
    <2>2. CASE Tick
      BY <2>2 DEF Tick, storeVars, history
    <2>3. CASE UNCHANGED vars
      BY <2>3 DEF vars, queueVars, storeVars, workerVars, history
    <2>4. QED
      BY <2>1, <2>2, <2>3
  <1>3. SameStatus(j)
    <2>1. CASE Tick
      <3>1. jobs'[j] = IF Exists(j) THEN Aged(jobs[j]) ELSE NoJob
        BY <2>1 DEF Tick
      <3>2. Exists(j) => jobs[j] \in Job
        BY <1>1 DEF WorkerInv, TypeOK, Exists
      <3>3. QED
        BY <3>1, <3>2, AgedFields DEF SameStatus, Exists
    <2>2. CASE jobs' = jobs
      BY <2>2 DEF SameStatus
    <2>3. QED
      BY <2>1, <2>2 DEF SaveProblemOf, ContextChanges, Approve, Reject, vars, queueVars
  <1>4. traces[j] # None => traces'[j] # None
    <2>1. CASE \E i \in Jobs : Approve(i) \/ Reject(i)
      BY <1>1, <2>1 DEF Approve, Reject, WorkerInv, TypeOK, None
    <2>2. CASE traces' = traces
      BY <2>2
    <2>3. QED
      BY <2>1, <2>2 DEF SaveProblemOf, ContextChanges, Tick, vars, storeVars
  <1>5. \/ author'[ProblemOf[j]] # j
        \/ /\ author'[ProblemOf[j]] = author[ProblemOf[j]]
           /\ problems'[ProblemOf[j]] = problems[ProblemOf[j]]
    <2>1. CASE \E i \in Jobs : SaveProblemOf(i)
      BY <1>1, <2>1, RouteJobWorkerAssumption
      DEF RouteJobWorkerAssumption, SaveProblemOf, WorkerInv, TypeOK
    <2>2. CASE UNCHANGED <<problems, author>>
      BY <2>2
    <2>3. QED
      BY <2>1, <2>2 DEF ContextChanges, Approve, Reject, Tick, vars, storeVars, problemVars
  <1>6. Kept(j)
    BY <1>2, <1>4, <1>5 DEF Kept
  <1>7. QED
    BY <1>2, <1>3, <1>6, StayUnmoved, QuietKeeps

-----------------------------------------------------------------------------
\* The result in hand is that of a stored run.
LEMMA StoredKept ==
  ASSUME RecordInv, \A j \in Jobs : traces[j] # None => traces'[j] # None,
         \A v \in Workers :
           \/ cur'[v] = cur[v]
           \/ cur'[v].result = None
           \/ cur'[v].job = cur[v].job /\ cur'[v].result = cur[v].result
  PROVE  Stored'
  BY DEF RecordInv, Stored

LEMMA StoredStep ==
  ASSUME RecordInv, [Next]_vars
  PROVE  Stored'
  <1>1. WorkerInv
    BY DEF RecordInv, RunInv
  <1>2. ASSUME NEW w \in Workers, NEW j \in Jobs, TakeReview(w, j) \/ TakeDue(w, j)
        PROVE  Stored'
    <2>1. /\ cur' = [cur EXCEPT ![w] = [job |-> j, result |-> traces[j], dead |-> FALSE]]
          /\ traces' = traces
      BY <1>2 DEF TakeReview, TakeDue, Take, storeVars
    <2>2. QED
      BY <1>1, <2>1 DEF RecordInv, Stored, WorkerInv, TypeOK
  <1>3. ASSUME NEW w \in Workers, RunEnds(w)
        PROVE  Stored'
    <2>1. PICK result \in Results :
            /\ traces' = [traces EXCEPT ![cur[w].job] = result]
            /\ cur' = [cur EXCEPT ![w].result = result]
      BY <1>3 DEF RunEnds
    <2>2. PICK i \in Jobs : i = cur[w].job
      BY <1>1, <1>3 DEF RunEnds, Between, WorkerInv, Handed
    <2>3. \A j \in Jobs : traces'[j] = IF j = i THEN result ELSE traces[j]
      BY <1>1, <2>1, <2>2 DEF WorkerInv, TypeOK
    <2>4. /\ cur'[w].job = i /\ \A v \in Workers : v # w => cur'[v] = cur[v]
      BY <1>1, <2>1, <2>2 DEF WorkerInv, TypeOK
    <2>5. result # None
      BY DEF Results, None
    <2>6. QED
      BY <2>2, <2>3, <2>4, <2>5 DEF RecordInv, Stored
  <1>4. ASSUME NEW i \in Jobs, Approve(i) \/ Reject(i)
        PROVE  Stored'
    <2>1. cur' = cur
      BY <1>4 DEF Approve, Reject, workerVars
    <2>2. \A j \in Jobs : traces[j] # None => traces'[j] # None
      BY <1>1, <1>4 DEF Approve, Reject, WorkerInv, TypeOK, None
    <2>3. QED
      BY <2>1, <2>2, StoredKept
  <1>5. ASSUME NEW w \in Workers,
               traces' = traces, NextJob(w) \/ Leave(w) \/ \E label : Continue(w, label)
        PROVE  Stored'
    <2>1. cur' = cur \/ cur' = [cur EXCEPT ![w] = Nothing]
      BY <1>5 DEF NextJob, Leave, Continue
    <2>2. \A v \in Workers : cur'[v] = cur[v] \/ cur'[v].result = None
      BY <1>1, <2>1 DEF Nothing, WorkerInv, TypeOK
    <2>3. QED
      BY <1>5, <2>2 DEF RecordInv, Stored
  <1>6. ASSUME traces' = traces, cur' = cur
        PROVE  Stored'
    BY <1>6, StoredKept
  <1>7. ASSUME NEW w \in Workers, Fail(w)
        PROVE  Stored'
    <2>1. traces' = traces
      BY <1>7 DEF Fail, storeVars
    <2>2. CASE ~HoldsIt(w)
      BY <1>5, <1>7, <2>1, <2>2 DEF Fail
    <2>3. CASE HoldsIt(w)
      <3>1. cur' = [cur EXCEPT ![w].dead = ~HasRetriesLeft(InHand(w))]
        BY <1>7, <2>3, Zenon DEF Fail
      <3>2. PICK dead \in BOOLEAN : cur' = [cur EXCEPT ![w].dead = dead]
        BY <3>1, Zenon DEF HasRetriesLeft
      <3>3. \A v \in Workers : cur'[v].job = cur[v].job /\ cur'[v].result = cur[v].result
        BY <1>1, <3>2 DEF WorkerInv, TypeOK
      <3>4. QED
        BY <2>1, <3>3, StoredKept
    <2>4. QED
      BY <2>2, <2>3
  <1>8. ASSUME NEW w \in Workers,
               \/ SaveRunningCommit(w) \/ SaveRunningProblem(w) \/ SaveFinalCommit(w)
               \/ SaveFinalProblem(w) \/ RequeueCommit(w) \/ HoldProblem(w) \/ Start(w) \/ Settle(w)
        PROVE  Stored'
    <2>1. traces' = traces
      BY <1>8 DEF SaveRunningCommit, SaveRunningProblem, SaveFinalCommit, SaveFinalProblem,
                  RequeueCommit, HoldProblem, Start, Settle
    <2>2. NextJob(w) \/ Leave(w) \/ \E label : Continue(w, label)
      BY <1>8 DEF SaveRunningCommit, SaveRunningProblem, SaveFinalCommit, SaveFinalProblem,
                  RequeueCommit, HoldProblem, Start, Settle
    <2>3. QED
      BY <1>5, <2>1, <2>2
  <1>9. ASSUME NEW w \in Workers,
               \/ EndBatch(w) \/ Crash(w) \/ \E j \in Jobs : RefuseReview(w, j)
               \/ RunThrows(w) \/ HeartbeatFailed(w) \/ FinalRenew(w) \/ AssertFinalizeLease(w)
        PROVE  Stored'
    <2>1. traces' = traces
      BY <1>9 DEF EndBatch, Crash, RefuseReview, RunThrows, HeartbeatFailed, FinalRenew,
                  AssertFinalizeLease, storeVars
    <2>2. NextJob(w) \/ Leave(w) \/ \E label : Continue(w, label)
      BY <1>9 DEF EndBatch, Crash, RefuseReview, RunThrows, HeartbeatFailed, FinalRenew,
                  AssertFinalizeLease
    <2>3. QED
      BY <1>5, <2>1, <2>2
  <1>10. ASSUME NEW w \in Workers, Heartbeat(w) \/ StartBatch(w) \/ ClaimDueJobs(w)
         PROVE  Stored'
    <2>1. traces' = traces /\ cur' = cur
      BY <1>10 DEF Heartbeat, StartBatch, ClaimDueJobs, Claim, storeVars, workerVars
    <2>2. QED
      BY <1>6, <2>1
  <1>11. ASSUME NEW i \in Jobs,
                \/ Submit(i) \/ SaveProblemOf(i) \/ ContextChanges(i) \/ RetryJob(i) \/ CancelJob(i)
         PROVE  Stored'
    <2>1. traces' = traces /\ cur' = cur
      BY <1>11 DEF Submit, SaveProblemOf, ContextChanges, RetryJob, CancelJob, storeVars, workerVars
    <2>2. QED
      BY <1>6, <2>1
  <1>12. CASE Tick \/ UNCHANGED vars
    <2>1. traces' = traces /\ cur' = cur
      BY <1>12 DEF Tick, vars, storeVars, workerVars
    <2>2. QED
      BY <1>6, <2>1
  <1>13. QED
    BY <1>2, <1>3, <1>4, <1>7, <1>8, <1>9, <1>10, <1>11, <1>12 DEF Next, Work

-----------------------------------------------------------------------------
LEMMA StepKeepsRecords ==
  ASSUME RecordInv, [Next]_vars
  PROVE  RecordInv'
  <1>1. RunInv' /\ Stored'
    BY StepKeepsRuns, StoredStep DEF RecordInv
  <1>2. ASSUME NEW w \in Workers, Work(w) \/ Heartbeat(w) \/ Crash(w)
        PROVE  \A j \in Jobs : JobRecords(j)'
    <2>1. CASE StartBatch(w) \/ ClaimDueJobs(w)
      BY <2>1, ClaimsRecords
    <2>2. CASE Start(w)
      BY <2>2, StartRecords, QuietRecords
    <2>3. CASE AssertFinalizeLease(w)
      BY <2>3, AssertRecords, QuietRecords
    <2>4. CASE Fail(w)
      BY <2>4, FailRecords, QuietRecords
    <2>5. CASE SaveRunningCommit(w) \/ SaveFinalCommit(w) \/ SaveFinalProblem(w) \/ RequeueCommit(w)
      BY <2>5, SaveRecords
    <2>6. CASE SaveRunningProblem(w) \/ HoldProblem(w) \/ Settle(w)
      BY <2>6, RunRecords, HoldRecords, SettleRecords
    <2>7. CASE Crash(w)
      BY <2>7, CrashRecords, QuietRecords
    <2>8. CASE \/ EndBatch(w) \/ \E j \in Jobs : RefuseReview(w, j) \/ TakeReview(w, j) \/ TakeDue(w, j)
               \/ RunEnds(w) \/ RunThrows(w) \/ HeartbeatFailed(w) \/ FinalRenew(w) \/ Heartbeat(w)
      BY <2>8, QuietRecords
    <2>9. QED
      BY <1>2, <2>1, <2>2, <2>3, <2>4, <2>5, <2>6, <2>7, <2>8 DEF Work
  <1>3. ASSUME NEW i \in Jobs,
               \/ Submit(i) \/ SaveProblemOf(i) \/ ContextChanges(i)
               \/ Approve(i) \/ Reject(i) \/ RetryJob(i) \/ CancelJob(i)
        PROVE  \A j \in Jobs : JobRecords(j)'
    BY <1>3, SubmitRecords, OperatorRecords, OtherRecords
  <1>4. CASE Tick \/ UNCHANGED vars
    BY <1>1, <1>4, OtherRecords DEF RecordInv
  <1>5. QED
    BY <1>1, <1>2, <1>3, <1>4 DEF Next, RecordInv

LEMMA InitRecords ==
  ASSUME Init
  PROVE  RecordInv
  <1>1. Stored
    BY DEF Init, Stored, Nothing
  <1>2. \A j \in Jobs : JobRecords(j)
    BY DEF Init, JobRecords, BetweenRecords, Recording, Recorded, Exists
  <1>3. QED
    BY <1>1, <1>2, InitRuns DEF RecordInv

LEMMA RecordInvHolds == Spec => []RecordInv
  <1>1. RecordInv /\ [Next]_vars => RecordInv'
    BY StepKeepsRecords
  <1>2. QED
    BY <1>1, InitRecords, PTL DEF Spec

\* What a completed job promises is on record, whatever crashes: commit and run
\* are written before the job, and problems are shared.  Only a job that another
\* worker claimed in the middle of these writes is left out.
THEOREM CompletionsAreRecorded == Spec => []CompletedIsRecorded
  <1>1. RecordInv => CompletedIsRecorded
    BY DEF RecordInv, JobRecords, Recorded, CompletedIsRecorded
  <1>2. QED
    BY <1>1, RecordInvHolds, PTL

\* Once no worker is at a job its commit and its problem say what it says, unless
\* a worker died or was overtaken between the three writes.
THEOREM LetGoRecordsAgree == Spec => []RecordsAgree
  <1>1. RecordInv => RecordsAgree
    <2> SUFFICES ASSUME RecordInv, NEW j \in Jobs \ (overtaken \cup died), Exists(j), Untouched(j)
                 PROVE  CASE jobs[j].status = "completed" ->
                               commits[j] = "completed" /\ (SpeaksOf(j) => Problem(j) = "routed")
                          [] jobs[j].status = "waiting_review" ->
                               commits[j] = "waiting_review" /\ (SpeaksOf(j) => Problem(j) = "waiting")
                          [] jobs[j].status = "failed" ->
                               commits[j] \in {"queued", "failed"} /\ (SpeaksOf(j) => Problem(j) = "waiting")
                          [] jobs[j].status = "dead_letter" ->
                               commits[j] = "failed" /\ (SpeaksOf(j) => Problem(j) = "waiting")
                          [] OTHER -> TRUE
      BY DEF RecordsAgree
    <2>1. AtRest(j)
      BY DEF Untouched, AtRest, BetweenRecords
    <2>2. Agree(j)
      BY <2>1 DEF RecordInv, JobRecords
    <2>3. QED
      BY <2>2 DEF Agree
  <1>2. QED
    BY <1>1, RecordInvHolds, PTL
=============================================================================
