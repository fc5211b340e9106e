-------------------------- MODULE HostedRouteStore --------------------------
(***************************************************************************)
(* The hosted route-job queue: rows with a revision in a shared database,  *)
(* written by compare-and-swap from any number of replicas                 *)
(* (lib/db/adapters/supabase-routing-store.ts and the SQL functions of     *)
(* migration 202607300004).  A call reads the row, computes the new record *)
(* from what it read, and swaps it in if the revision is still the same;   *)
(* otherwise it reads again, at most MaxTries times in all.  In between,   *)
(* claims, other calls and the clock go on.                                *)
(*                                                                         *)
(* A revision grows with each write and is only ever compared for equality *)
(* with the one a call read, so what is kept of it is whether a write has  *)
(* come in between: "fresh".  The new record holds instants, not durations, *)
(* so it ages while it is on its way like the row does.                    *)
(*                                                                         *)
(* The variables of RouteJobQueue are the rows; the module shows that its  *)
(* operations, atomic there, are what this store provides, and that no     *)
(* submission is ever late here (MaxLate = 0): a row is inserted or left.  *)
(***************************************************************************)
EXTENDS RouteJobQueue

CONSTANTS
  Callers,     \* calls that may be under way at the same time
  NoCall,      \* operation of a caller that has no call
  MaxTries,    \* MAX_ATOMIC_UPDATE_RETRIES
  MaxFaults    \* bound of the model: requests or answers that get lost

ASSUME HostedRouteStoreAssumption ==
  MaxTries \in Nat \ {0} /\ MaxFaults \in Nat /\ MaxLate = 0

VARIABLES calls, faults

storeVars == <<vars, calls, faults>>

Unfenced == {"retry", "cancel"}
Updates == {"renew", "run", "dispatch", "review", "complete", "fail"} \cup Unfenced

Idle == [at |-> "idle", job |-> NoJob, op |-> NoCall, token |-> 0,
         new |-> NoJob, fresh |-> FALSE, tries |-> 0, writes |-> 0,
         answer |-> NoCall]

StoreInit == Init /\ calls = [c \in Callers |-> Idle] /\ faults = 0

At(c, label) == calls[c].at = label
Row(c) == jobs[calls[c].job]
Answered(call, answer) == [call EXCEPT !.at = "done", !.answer = answer]

\* A write makes stale what the other calls have read of the row.
AllStale(written) ==
  [c \in Callers |-> [calls[c] EXCEPT !.fresh = @ /\ calls[c].job \notin written]]

-----------------------------------------------------------------------------
\* The update functions that callers hand to updateRouteJobAtomically.  "left"
\* is what remains of a lease or of a delay when it is computed.
Allowed(op, job) ==
  CASE op = "retry" -> Retryable(job)
    [] op = "cancel" -> Cancellable(job)
    [] OTHER -> TRUE

Updated(op, job, left) ==
  CASE op = "renew" -> Renewed(job, left)
    [] op = "run" -> WithStatus(job, "running")
    [] op = "dispatch" -> Released(WithStatus(job, "dispatched"))
    [] op = "review" -> Released(WithStatus(job, "waiting_review"))
    [] op = "complete" -> Released(WithStatus(job, "completed"))
    [] op = "fail" -> Failed(job, left)
    [] op = "retry" -> Retried(job)
    [] op = "cancel" -> Cancelled(job)

LeftAfter(op, job) ==
  CASE op = "renew" -> 0..LeaseTicks
    [] op = "fail" -> {wait \in 0..MaxDelay : wait <= RetryDelay(job.attempt)}
    [] OTHER -> {0}

\* What the callers of routing-store.ts ask for: with a token it was granted,
\* a worker asks for any update; without one, an operator for two.
Asks(j, op, token) ==
  \/ op \in Unfenced /\ token = 0
  \/ op \in Updates \ (Unfenced \cup {IF j \in HermesJobs THEN "run" ELSE "dispatch"})
     /\ token \in 1..issued[j]

Begin(c, j, op, token) ==
  /\ At(c, "idle") /\ Exists(j) /\ Asks(j, op, token)
  /\ calls' = [calls EXCEPT ![c] = [Idle EXCEPT !.at = "read", !.job = j,
                                                !.op = op, !.token = token]]
  /\ UNCHANGED <<vars, faults>>

\* getRouteJobRow, the token, and the update function, which may throw.
Read(c) ==
  /\ At(c, "read") /\ calls[c].op \in Updates
  /\ \/ /\ ~HoldsLease(Row(c), calls[c].token)
        /\ calls' = [calls EXCEPT ![c] = Answered(@, "lease_lost")]
     \/ /\ HoldsLease(Row(c), calls[c].token) /\ ~Allowed(calls[c].op, Row(c))
        /\ calls' = [calls EXCEPT ![c] = Answered(@, "refused")]
     \/ /\ HoldsLease(Row(c), calls[c].token) /\ Allowed(calls[c].op, Row(c))
        /\ \E left \in LeftAfter(calls[c].op, Row(c)) :
             calls' = [calls EXCEPT ![c].at = "swap", ![c].fresh = TRUE,
                         ![c].new = Updated(calls[c].op, Row(c), left)]
  /\ UNCHANGED <<vars, faults>>

\* Mutant of Matches: the token is compared and the revision is not.
MatchesToken(c) == HoldsLease(Row(c), calls[c].token)

\* compare_and_swap_route_job compares the revision and then the token.
Matches(c) == calls[c].fresh /\ HoldsLease(Row(c), calls[c].token)

\* The new row; the call has written once more.
Store(c) ==
  /\ Matches(c)
  /\ Write(calls[c].job, calls[c].new)
  /\ closedBy' = IF calls[c].op = "complete"
                 THEN [closedBy EXCEPT ![calls[c].job] = calls[c].token]
                 ELSE closedBy
  /\ UNCHANGED <<issued, late>>

Stored(c) == [AllStale({calls[c].job}) EXCEPT ![c].writes = @ + 1, ![c].new = NoJob]

Swap(c) ==
  /\ At(c, "swap") /\ calls[c].op \in Updates
  /\ Store(c)
  /\ calls' = [Stored(c) EXCEPT ![c].at = "done", ![c].answer = "ok"]
  /\ UNCHANGED faults

\* Mutant of Conflict: no limit on the tries.
ConflictForEver(c) ==
  /\ At(c, "swap") /\ calls[c].op \in Updates /\ ~Matches(c)
  /\ calls' = [calls EXCEPT ![c].at = "read", ![c].new = NoJob]
  /\ UNCHANGED <<vars, faults>>

\* A revision conflict: another try, or "changed too many times".
Conflict(c) ==
  /\ At(c, "swap") /\ calls[c].op \in Updates /\ ~Matches(c)
  /\ LET call == [calls[c] EXCEPT !.tries = @ + 1, !.new = NoJob] IN
     calls' = [calls EXCEPT ![c] =
       IF call.tries < MaxTries THEN [call EXCEPT !.at = "read"]
                                ELSE Answered(call, "gave_up")]
  /\ UNCHANGED <<vars, faults>>

-----------------------------------------------------------------------------
\* upsertRouteJobForCommit: getRouteJob, then enqueue_route_job.

BeginEnqueue(c, j) ==
  /\ At(c, "idle")
  /\ calls' = [calls EXCEPT ![c] = [Idle EXCEPT !.at = "read", !.job = j,
                                                !.op = "enqueue"]]
  /\ UNCHANGED <<vars, faults>>

GetJob(c) ==
  /\ At(c, "read") /\ calls[c].op = "enqueue"
  /\ calls' = [calls EXCEPT ![c] =
       IF Exists(calls[c].job) THEN Answered(@, "ok")
                               ELSE [@ EXCEPT !.at = "swap", !.new = QueuedJob]]
  /\ UNCHANGED <<vars, faults>>

\* Mutant of Insert: a row that is there is written over, as the file store's
\* saveRouteJob does.
InsertOrUpdate(c) ==
  /\ At(c, "swap") /\ calls[c].op = "enqueue"
  /\ Write(calls[c].job, calls[c].new) /\ UNCHANGED <<issued, late, closedBy>>
  /\ calls' = [Stored(c) EXCEPT ![c].at = "done", ![c].answer = "ok"]
  /\ UNCHANGED faults

\* insert ... on conflict do nothing
Insert(c) ==
  /\ At(c, "swap") /\ calls[c].op = "enqueue"
  /\ \/ Enqueue(calls[c].job)
        /\ calls' = [Stored(c) EXCEPT ![c].at = "done", ![c].answer = "ok"]
     \/ /\ Exists(calls[c].job) /\ UNCHANGED vars
        /\ calls' = [calls EXCEPT ![c] = Answered([@ EXCEPT !.new = NoJob], "ok")]
  /\ UNCHANGED faults

-----------------------------------------------------------------------------
\* A request that gets lost, or an error of the database.
RequestFails(c) ==
  /\ calls[c].at \in {"read", "swap"} /\ faults < MaxFaults
  /\ calls' = [calls EXCEPT ![c] = Answered([@ EXCEPT !.new = NoJob], "error")]
  /\ faults' = faults + 1
  /\ UNCHANGED vars

\* Mutant of AnswerLost: the write is tried again.
AnswerLostAndRetried(c) ==
  /\ At(c, "swap") /\ calls[c].op \in Updates /\ faults < MaxFaults
  /\ Store(c)
  /\ calls' = [Stored(c) EXCEPT ![c].at = "read"]
  /\ faults' = faults + 1

\* The swap is done and its answer gets lost: the caller sees an error.
AnswerLost(c) ==
  /\ At(c, "swap") /\ calls[c].op \in Updates /\ faults < MaxFaults
  /\ Store(c)
  /\ calls' = [Stored(c) EXCEPT ![c].at = "done", ![c].answer = "error"]
  /\ faults' = faults + 1

Return(c) ==
  /\ At(c, "done")
  /\ calls' = [calls EXCEPT ![c] = Idle]
  /\ UNCHANGED <<vars, faults>>

\* claim_due_route_jobs and claim_waiting_review_route_jobs, one transaction
\* each; rows that others have locked are skipped.
Claim(batch, left) ==
  /\ ClaimDue(batch, left) \/ ClaimWaitingReview(batch, left)
  /\ calls' = AllStale(batch)
  /\ UNCHANGED faults

StoreTick ==
  /\ Tick
  /\ calls' = [c \in Callers |->
       IF calls[c].new = NoJob THEN calls[c] ELSE [calls[c] EXCEPT !.new = Aged(@)]]
  /\ UNCHANGED faults

-----------------------------------------------------------------------------
Step(c) ==
  \/ Read(c) \/ Swap(c) \/ Conflict(c) \/ GetJob(c) \/ Insert(c) \/ Return(c)

StoreNext ==
  \/ \E c \in Callers :
       \/ Step(c) \/ RequestFails(c) \/ AnswerLost(c)
       \/ \E j \in Jobs :
            \/ BeginEnqueue(c, j)
            \/ \E op \in Updates, token \in 0..issued[j] : Begin(c, j, op, token)
  \/ \E batch \in SUBSET Jobs, left \in 0..LeaseTicks : Claim(batch, left)
  \/ StoreTick

StoreSpec == StoreInit /\ [][StoreNext]_storeVars

\* A request is answered sooner or later, if only with an error.
StoreFairSpec == StoreSpec /\ \A c \in Callers : WF_storeVars(Step(c))

-----------------------------------------------------------------------------
Call ==
  [at : {"idle", "read", "swap", "done"}, job : Jobs \cup {NoJob},
   op : Updates \cup {"enqueue", NoCall}, token : Nat,
   new : Job \cup {NoJob}, fresh : BOOLEAN, tries : 0..MaxTries, writes : Nat,
   answer : {"ok", "lease_lost", "refused", "gave_up", "error", NoCall}]

StoreTypeOK ==
  /\ TypeOK
  /\ calls \in [Callers -> Call]
  /\ faults \in 0..MaxFaults

\* Read, compute and swap over the network amount to the atomic operations of
\* RouteJobQueue, so the theorems about it hold of the hosted store.
ImplementsQueue == Spec

\* What a caller is told is what happened: an update that was confirmed was
\* made exactly once, one that was refused not at all, and one whose answer was
\* lost at most once.
AnswersAreTrue ==
  \A c \in Callers : At(c, "done") /\ calls[c].op \in Updates =>
    CASE calls[c].answer = "ok" -> calls[c].writes = 1
      [] calls[c].answer = "error" -> calls[c].writes <= 1
      [] OTHER -> calls[c].writes = 0

\* No call is kept for ever by others that write the same row: after MaxTries
\* conflicts it gives up.
CallsEnd == \A c \in Callers : calls[c].at # "idle" ~> calls[c].at = "idle"
=============================================================================
