------------------------ MODULE RouteSubmissionProofs ------------------------
(***************************************************************************)
(* Theorems about RouteSubmission, for any events, callers, workers and    *)
(* bounds: its types, that every record refers to records that are there,  *)
(* that job and commit stay bound to each other, that no submission undoes *)
(* a claim, and that the loop of an event completes at most once.          *)
(***************************************************************************)
EXTENDS RouteSubmission, TLAPS

\* A caller whose decision was received, accepted, or is being committed.
Routing == {"listCommits", "saveCommit", "getJob", "saveJob", "finish"}
Accepted == {"readProblem", "saveProblem"} \cup Routing
Deciding == {"check"} \cup Accepted

CallerStates ==
  [at : {"idle", "saveOutcome"} \cup Deciding, event : Events \cup {None},
   action : Actions \cup {None}, attempt : Nat,
   problem : Problems \cup {None}, existing : RouteCommits \cup {None}]

\* A worker that has read the problem, and the commit.
WithCommit == {"start", "saveRunningCommit", "saveRunningProblem", "run", "finalize",
               "saveFinalCommit"}
WithProblem == {"bind", "saveFinalProblem"} \cup WithCommit
Holding == {"take", "settle", "fail"} \cup WithProblem
After == {"requeue", "readHeld", "hold"}

WorkerStates ==
  [at : {"idle"} \cup Holding \cup After, event : Events \cup {None}, attempt : Nat,
   problem : Problems \cup {None}, commit : RouteCommits \cup {None},
   result : {None, "COMPLETED", "FAILED"}]

-----------------------------------------------------------------------------
\* What a copy of the problem vouches for is in the store.
Backed(p) ==
  p # None => /\ problem # None /\ p.evidence \subseteq receipts
              /\ \A e \in p.commits : commits[e] # None

StoreOK ==
  /\ TypeOK /\ RecordsAreBacked
  /\ attempt \in Nat /\ runs \in [Events -> Nat]

CallerOK(c) ==
  /\ callers[c] \in CallerStates
  /\ Backed(callers[c].problem)
  /\ At(c, "idle") => callers[c] = Idle
  /\ callers[c].at \in Deciding => Mine(c) \in receipts
  /\ callers[c].at \in Accepted => callers[c].attempt \in 1..attempt
  /\ callers[c].at \in Routing => callers[c].action = "route" /\ callers[c].problem # None
  /\ callers[c].action = "append_evidence" =>
       /\ At(c, "readProblem") => problem # None
       /\ At(c, "saveProblem") => callers[c].problem # None
  /\ At(c, "saveOutcome") => callers[c].problem # None
  /\ callers[c].at \in {"getJob", "saveJob", "finish"} => commits[Mine(c)] # None

WorkerOK(w) ==
  /\ workers[w] \in WorkerStates
  /\ Backed(workers[w].problem)
  /\ Does(w, "idle") => workers[w] = Resting
  /\ ~Does(w, "idle") => workers[w].event \in Events /\ Job(w) # None
  /\ workers[w].at \in WithProblem => workers[w].problem # None
  /\ workers[w].at \in WithCommit => workers[w].commit # None
  /\ workers[w].commit # None => workers[w].commit.attempt \in 1..attempt

\* The records that are there, and the copies that callers and workers have.
RecordInv ==
  /\ StoreOK
  /\ callers \in [Callers -> CallerStates] /\ \A c \in Callers : CallerOK(c)
  /\ workers \in [Workers -> WorkerStates] /\ \A w \in Workers : WorkerOK(w)

-----------------------------------------------------------------------------
\* An event whose decision was not accepted again after its job was made, and
\* whose submissions did not overlap
Clear(e) == e \notin repeated \cup overlapped

\* One caller submits decisions about such an event.
Sole ==
  \A c, d \in Callers :
    Mine(c) = Mine(d) /\ Mine(c) \in Events \ overlapped => c = d

\* A decision to route that was accepted once is accepted before its job is
\* there, and the commit names its attempt until the job is there, too.
Unqueued == {"readProblem", "saveProblem", "listCommits", "saveCommit", "getJob", "saveJob"}

CallerBinds(c) ==
  callers[c].at \in Unqueued /\ callers[c].action = "route" /\ Clear(Mine(c)) =>
    /\ jobs[Mine(c)] = None
    /\ callers[c].at \in {"getJob", "saveJob"}
         => commits[Mine(c)].attempt = callers[c].attempt

\* The commit that a worker read is bound to its job.
WorkerBinds(w) ==
  workers[w].commit # None /\ Clear(workers[w].event) =>
    workers[w].commit.attempt = Job(w).attempt

BindInv ==
  /\ Sole /\ BindingsHold
  /\ \A c \in Callers : CallerBinds(c)
  /\ \A w \in Workers : WorkerBinds(w)

-----------------------------------------------------------------------------
\* A caller about to save a job over what is there: nothing.
NoOverwrite ==
  \A c \in Callers :
    At(c, "saveJob") /\ ~hosted /\ Mine(c) \notin Endangered => jobs[Mine(c)] = None

\* Nobody holds a job that waits or is finished.
OpenIsFree ==
  \A e \in Events : jobs[e] # None /\ jobs[e].status \notin InFlight => jobs[e].holder = None

SaveInv == NoOverwrite /\ OpenIsFree

\* While no worker dies, one that is at work on a job holds it ...
HoldersWork ==
  \A w \in Workers : workers[w].at \in Holding /\ workers[w].event \notin Endangered =>
    Holds(w) /\ Job(w).status \in InFlight

\* ... and a run that completed is on record, or its worker is about to record it.
Recording(w, e) ==
  /\ workers[w].event = e /\ workers[w].result = "COMPLETED"
  /\ workers[w].at \in {"finalize", "saveFinalCommit", "saveFinalProblem", "settle"}

Ran(e) == (jobs[e] # None /\ jobs[e].status = "completed") \/ \E w \in Workers : Recording(w, e)

OnceInv ==
  /\ workerDeaths \in Nat
  /\ workerDeaths = 0 =>
       /\ HoldersWork
       /\ \A e \in Events \ Endangered : runs[e] = 0 \/ (runs[e] = 1 /\ Ran(e))
-----------------------------------------------------------------------------
\* The records and who refers to them.
LEMMA Fields ==
  /\ \A p \in Problems : /\ p # None /\ p.evidence \subseteq Events /\ p.commits \subseteq Events
  /\ \A k \in RouteCommits : k # None /\ k.attempt \in Nat
  /\ \A j \in RouteJobs : j # None /\ j.attempt \in Nat /\ j.tries \in 0..MaxAttempts
  /\ None \notin Events /\ None \notin Workers
  /\ Idle \in CallerStates /\ Resting \in WorkerStates
  BY RouteSubmissionAssumption
  DEF RouteSubmissionAssumption, Problems, RouteCommits, RouteJobs, Idle, Resting, CallerStates,
      WorkerStates

LEMMA InitRecordInv == Init => RecordInv
  <1> SUFFICES ASSUME Init PROVE RecordInv
    OBVIOUS
  <1>1. StoreOK
    BY DEF Init, StoreOK, TypeOK, RecordsAreBacked
  <1>2. callers \in [Callers -> CallerStates] /\ \A c \in Callers : CallerOK(c)
    BY Fields DEF Init, CallerOK, At, Mine, Idle, Backed, Accepted, Deciding, Routing
  <1>3. workers \in [Workers -> WorkerStates] /\ \A w \in Workers : WorkerOK(w)
    BY Fields DEF Init, WorkerOK, Does, Resting, Backed, WithProblem, WithCommit
  <1> QED BY <1>1, <1>2, <1>3 DEF RecordInv

\* Nothing that is stored is ever taken away.
Grows ==
  /\ receipts \subseteq receipts'
  /\ attempt' \in Nat /\ attempt <= attempt'
  /\ problem # None => problem' # None
  /\ \A e \in Events : /\ commits[e] # None => commits'[e] # None
                       /\ jobs[e] # None => jobs'[e] # None

\* So a copy stays backed, and an actor that rests stays as it is.
LEMMA BackedStays ==
  ASSUME Grows, NEW p \in Problems \cup {None}, Backed(p)
  PROVE  Backed(p)'
  BY Fields DEF Grows, Backed

LEMMA CallerStays ==
  ASSUME RecordInv, Grows, NEW c \in Callers, callers'[c] = callers[c]
  PROVE  CallerOK(c)'
  <1>1. callers[c].problem \in Problems \cup {None} /\ callers[c].attempt \in Nat
    BY DEF RecordInv, CallerOK, CallerStates
  <1>2. Backed(callers[c].problem)'
    BY <1>1, BackedStays DEF RecordInv, CallerOK
  <1>3. attempt \in Nat /\ receipts \subseteq Events
    BY DEF RecordInv, StoreOK, TypeOK
  <1> QED BY <1>1, <1>2, <1>3 DEF RecordInv, CallerOK, Grows, At, Mine, Deciding, Accepted, Routing

LEMMA WorkerStays ==
  ASSUME RecordInv, Grows, NEW w \in Workers, workers'[w] = workers[w]
  PROVE  WorkerOK(w)'
  <1>1. /\ workers[w].problem \in Problems \cup {None}
        /\ workers[w].commit \in RouteCommits \cup {None}
    BY DEF RecordInv, WorkerOK, WorkerStates
  <1>2. Backed(workers[w].problem)'
    BY <1>1, BackedStays DEF RecordInv, WorkerOK
  <1>3. attempt \in Nat /\ (workers[w].commit # None => workers[w].commit.attempt \in Nat)
    BY <1>1, Fields DEF RecordInv, StoreOK
  <1> QED BY <1>1, <1>2, <1>3 DEF RecordInv, WorkerOK, Grows, Does, Job

\* A step of one actor
CallerMoves(c) ==
  /\ callers' \in [Callers -> CallerStates] /\ CallerOK(c)'
  /\ \A d \in Callers : d # c => callers'[d] = callers[d]
  /\ workers' = workers

WorkerMoves(w) ==
  /\ workers' \in [Workers -> WorkerStates] /\ WorkerOK(w)'
  /\ \A v \in Workers : v # w => workers'[v] = workers[v]
  /\ callers' = callers

LEMMA CallerKeepsInv ==
  ASSUME RecordInv, NEW c \in Callers, StoreOK', Grows, CallerMoves(c)
  PROVE  RecordInv'
  BY CallerStays, WorkerStays DEF RecordInv, CallerMoves

LEMMA WorkerKeepsInv ==
  ASSUME RecordInv, NEW w \in Workers, StoreOK', Grows, WorkerMoves(w)
  PROVE  RecordInv'
  BY CallerStays, WorkerStays DEF RecordInv, WorkerMoves

LEMMA NobodyMoves ==
  ASSUME RecordInv, StoreOK', Grows, UNCHANGED <<callers, workers>>
  PROVE  RecordInv'
  BY CallerStays, WorkerStays DEF RecordInv

\* What is left alone stays in order.
LEMMA StoreStays ==
  ASSUME RecordInv, UNCHANGED <<store, attempt, runs>>
  PROVE  StoreOK' /\ Grows
  BY DEF RecordInv, StoreOK, TypeOK, RecordsAreBacked, Grows, store

\* The writes.  The problem is saved from a copy, which its receipts, and the
\* commits that it names, must back.
LEMMA ProblemWrite ==
  ASSUME RecordInv, problem' \in Problems, Backed(problem)',
         UNCHANGED <<hosted, receipts, commits, jobs, ended, attempt, runs>>
  PROVE  StoreOK' /\ Grows
  <1>1. problem' # None
    BY Fields
  <1> QED BY <1>1 DEF RecordInv, StoreOK, TypeOK, RecordsAreBacked, Grows, Backed

LEMMA CommitWrite ==
  ASSUME RecordInv, NEW e \in Events, NEW k \in RouteCommits, k.attempt \in 1..attempt,
         commits' = [commits EXCEPT ![e] = k],
         UNCHANGED <<hosted, receipts, problem, jobs, ended, attempt, runs>>
  PROVE  StoreOK' /\ Grows /\ commits'[e] # None
  <1>1. /\ commits' \in [Events -> RouteCommits \cup {None}]
        /\ \A x \in Events : commits'[x] = IF x = e THEN k ELSE commits[x]
        /\ k # None
    BY Fields DEF RecordInv, StoreOK, TypeOK
  <1>2. TypeOK'
    BY <1>1 DEF RecordInv, StoreOK, TypeOK
  <1>3. \A p \in problem.commits : problem # None => p \in Events
    BY Fields DEF RecordInv, StoreOK, TypeOK
  <1>4. RecordsAreBacked'
    BY <1>1, <1>3 DEF RecordInv, StoreOK, RecordsAreBacked
  <1> QED BY <1>1, <1>2, <1>4 DEF RecordInv, StoreOK, Grows

LEMMA JobWrite ==
  ASSUME RecordInv, NEW e \in Events, NEW j \in RouteJobs, j.attempt \in 1..attempt,
         jobs' = [jobs EXCEPT ![e] = j], e \in receipts, problem # None, commits[e] # None,
         UNCHANGED <<hosted, receipts, problem, commits, ended, attempt, runs>>
  PROVE  StoreOK' /\ Grows /\ jobs'[e] # None
  <1>1. /\ jobs' \in [Events -> RouteJobs \cup {None}]
        /\ \A x \in Events : jobs'[x] = IF x = e THEN j ELSE jobs[x]
        /\ j # None
    BY Fields DEF RecordInv, StoreOK, TypeOK
  <1>2. TypeOK'
    BY <1>1 DEF RecordInv, StoreOK, TypeOK
  <1>4. RecordsAreBacked'
    BY <1>1 DEF RecordInv, StoreOK, RecordsAreBacked
  <1> QED BY <1>1, <1>2, <1>4 DEF RecordInv, StoreOK, Grows

-----------------------------------------------------------------------------
\* Submissions, call by call
LEMMA CallerSet ==
  ASSUME RecordInv, NEW c \in Callers, NEW x \in CallerStates,
         callers' = [callers EXCEPT ![c] = x]
  PROVE  /\ callers' \in [Callers -> CallerStates] /\ callers'[c] = x
         /\ \A d \in Callers : d # c => callers'[d] = callers[d]
  BY DEF RecordInv

LEMMA CallerRests ==
  ASSUME RecordInv, NEW c \in Callers, callers' = [callers EXCEPT ![c] = Idle],
         UNCHANGED workers
  PROVE  CallerMoves(c)
  <1>1. callers' \in [Callers -> CallerStates] /\ callers'[c] = Idle
        /\ \A d \in Callers : d # c => callers'[d] = callers[d]
    BY Fields, CallerSet
  <1>2. CallerOK(c)'
    BY <1>1, Fields DEF CallerOK, At, Mine, Idle, Backed, Accepted, Deciding, Routing
  <1> QED BY <1>1, <1>2 DEF CallerMoves

\* A caller that goes on along its route, and what it read of the commit
LEMMA CallerGoes ==
  ASSUME RecordInv, Grows, NEW c \in Callers, callers[c].at \in Routing, UNCHANGED workers,
         NEW label \in Routing, NEW k \in RouteCommits \cup {None},
         callers' = [callers EXCEPT ![c].at = label, ![c].existing = k],
         label \in {"getJob", "saveJob", "finish"} => commits'[Mine(c)] # None
  PROVE  CallerMoves(c)
  <1>0. PICK y \in CallerStates : y = callers[c]
    BY DEF RecordInv
  <1> DEFINE x == [y EXCEPT !.at = label, !.existing = k]
  <1>1. CallerOK(c) /\ callers[c] \in CallerStates
    BY DEF RecordInv
  <1>2. /\ x \in CallerStates /\ x.at = label /\ x.event = callers[c].event
        /\ x.action = callers[c].action /\ x.attempt = callers[c].attempt
        /\ x.problem = callers[c].problem
    BY <1>0 DEF CallerStates, Deciding, Accepted, Routing
  <1>3. callers' = [callers EXCEPT ![c] = x]
    BY <1>0 DEF RecordInv
  <1> HIDE DEF x
  <1>4. callers' \in [Callers -> CallerStates] /\ callers'[c] = x
        /\ \A d \in Callers : d # c => callers'[d] = callers[d]
    BY <1>2, <1>3, CallerSet
  <1>5. Backed(x.problem)'
    <2>1. x.problem \in Problems \cup {None} /\ Backed(x.problem)
      BY <1>1, <1>2 DEF CallerOK, CallerStates
    <2> QED BY <2>1, BackedStays
  <1>6. x.attempt \in 1..attempt' /\ x.event \in receipts'
    <2>1. x.attempt \in 1..attempt /\ x.event \in receipts /\ attempt \in Nat
      BY <1>1, <1>2 DEF CallerOK, Accepted, Deciding, RecordInv, StoreOK, Mine
    <2> QED BY <2>1 DEF Grows
  <1>7. x.action = "route" /\ x.problem # None
    BY <1>1, <1>2 DEF CallerOK
  <1>8. CallerOK(c)'
    BY <1>2, <1>4, <1>5, <1>6, <1>7 DEF CallerOK, At, Mine, Routing
  <1> QED BY <1>4, <1>8 DEF CallerMoves

LEMMA IngestKeepsInv ==
  ASSUME RecordInv, NEW e \in Events, Ingest(e)
  PROVE  RecordInv'
  <1>1. StoreOK' /\ Grows
    BY DEF RecordInv, StoreOK, TypeOK, RecordsAreBacked, Grows, Ingest, counters, history
  <1> QED BY <1>1, NobodyMoves DEF Ingest

LEMMA SubmitKeepsInv ==
  ASSUME RecordInv, NEW c \in Callers, NEW e \in Events, NEW action \in Actions,
         Submit(c, e, action)
  PROVE  RecordInv'
  <1> DEFINE x == [Idle EXCEPT !.at = "check", !.event = e, !.action = action]
  <1>1. StoreOK' /\ Grows
    BY StoreStays DEF Submit
  <1>2. x \in CallerStates /\ x.at = "check" /\ x.event = e /\ x.problem = None
    BY DEF Idle, CallerStates, Deciding
  <1>3. callers' \in [Callers -> CallerStates] /\ callers'[c] = x
        /\ \A d \in Callers : d # c => callers'[d] = callers[d]
    BY <1>2, CallerSet DEF Submit
  <1>4. e \in receipts'
    BY <1>1 DEF Submit, Grows
  <1>5. CallerOK(c)'
    BY <1>2, <1>3, <1>4 DEF CallerOK, At, Mine, Backed, Accepted, Routing
  <1> QED BY <1>1, <1>3, <1>5, CallerKeepsInv DEF CallerMoves, Submit

LEMMA AcceptKeepsInv ==
  ASSUME RecordInv, NEW c \in Callers, Accept(c)
  PROVE  RecordInv'
  <1>0. PICK y \in CallerStates, n \in Nat : y = callers[c] /\ n = attempt + 1
    BY DEF RecordInv, StoreOK
  <1> DEFINE x == [y EXCEPT !.at = "readProblem", !.attempt = n]
  <1>1. StoreOK' /\ Grows
    BY DEF RecordInv, StoreOK, TypeOK, RecordsAreBacked, Grows, Accept, store
  <1>2. CallerOK(c) /\ callers[c] \in CallerStates /\ attempt + 1 \in Nat
    BY DEF RecordInv, StoreOK
  <1>3. /\ x \in CallerStates /\ x.at = "readProblem" /\ x.event = callers[c].event
        /\ x.action = callers[c].action /\ x.attempt = n
        /\ x.problem = callers[c].problem
    BY <1>0 DEF CallerStates, Deciding, Accepted
  <1>4. callers' = [callers EXCEPT ![c] = x]
    BY <1>0 DEF RecordInv, Accept
  <1> HIDE DEF x
  <1>5. callers' \in [Callers -> CallerStates] /\ callers'[c] = x
        /\ \A d \in Callers : d # c => callers'[d] = callers[d]
    BY <1>3, <1>4, CallerSet
  <1>6. Backed(x.problem)'
    <2>1. x.problem \in Problems \cup {None} /\ Backed(x.problem)
      BY <1>2, <1>3 DEF CallerOK, CallerStates
    <2> QED BY <1>1, <2>1, BackedStays
  <1>7. x.attempt \in 1..attempt' /\ x.event \in receipts'
    BY <1>0, <1>1, <1>2, <1>3 DEF CallerOK, Accept, At, Deciding, Grows, Mine, RecordInv, StoreOK
  <1>8. x.action = "append_evidence" => problem' # None
    BY <1>1, <1>3 DEF Accept, Refused, Grows
  <1>9. CallerOK(c)'
    BY <1>3, <1>5, <1>6, <1>7, <1>8 DEF CallerOK, At, Mine, Routing
  <1> QED BY <1>1, <1>5, <1>9, CallerKeepsInv DEF CallerMoves, Accept

LEMMA StoredProblemBacked ==
  ASSUME RecordInv
  PROVE  problem \in Problems \cup {None} /\ Backed(problem)
  BY Fields DEF RecordInv, StoreOK, TypeOK, RecordsAreBacked, Backed

LEMMA ReadProblemKeepsInv ==
  ASSUME RecordInv, NEW c \in Callers, ReadProblem(c)
  PROVE  RecordInv'
  <1>0. PICK y \in CallerStates, p \in Problems \cup {None} : y = callers[c] /\ p = problem
    BY StoredProblemBacked DEF RecordInv
  <1> DEFINE x == [y EXCEPT !.at = "saveProblem", !.problem = p]
  <1>1. StoreOK' /\ Grows /\ problem' = problem
    BY StoreStays DEF ReadProblem, counters, history, store
  <1>2. CallerOK(c) /\ callers[c] \in CallerStates
    BY DEF RecordInv
  <1>3. /\ x \in CallerStates /\ x.at = "saveProblem" /\ x.event = callers[c].event
        /\ x.action = callers[c].action /\ x.attempt = callers[c].attempt
        /\ x.problem = p
    BY <1>0 DEF CallerStates, Deciding, Accepted
  <1>4. callers' = [callers EXCEPT ![c] = x]
    BY <1>0 DEF RecordInv, ReadProblem
  <1> HIDE DEF x
  <1>5. callers' \in [Callers -> CallerStates] /\ callers'[c] = x
        /\ \A d \in Callers : d # c => callers'[d] = callers[d]
    BY <1>3, <1>4, CallerSet
  <1>6. Backed(p)'
    BY <1>0, <1>1, StoredProblemBacked, BackedStays
  <1>7. x.attempt \in 1..attempt' /\ x.event \in receipts'
    BY <1>1, <1>2, <1>3 DEF CallerOK, ReadProblem, At, Deciding, Accepted, Grows, Mine,
                            RecordInv, StoreOK
  <1>8. x.action = "append_evidence" => p # None
    BY <1>0, <1>2, <1>3 DEF CallerOK, ReadProblem
  <1>9. CallerOK(c)'
    BY <1>1, <1>3, <1>5, <1>6, <1>7, <1>8 DEF CallerOK, At, Mine, Routing
  <1> QED BY <1>1, <1>5, <1>9, CallerKeepsInv DEF CallerMoves, ReadProblem

LEMMA SaveProblemKeepsInv ==
  ASSUME RecordInv, NEW c \in Callers, SaveProblem(c)
  PROVE  RecordInv'
  <1> DEFINE upserted == Upserted(callers[c].problem, Mine(c), callers[c].action)
  <1>0. PICK y \in CallerStates : y = callers[c]
    BY DEF RecordInv
  <1>3. PICK p : p = upserted
    OBVIOUS
  <1> DEFINE x == [y EXCEPT !.at = "listCommits", !.problem = p]
  <1>1. CallerOK(c) /\ callers[c] \in CallerStates
    BY DEF RecordInv
  <1>2. /\ Mine(c) \in receipts /\ callers[c].attempt \in 1..attempt
        /\ callers[c].problem \in Problems \cup {None} /\ Backed(callers[c].problem)
        /\ callers[c].action = "append_evidence" => callers[c].problem # None
    BY <1>1 DEF CallerOK, CallerStates, SaveProblem, At, Deciding, Accepted
  <1>4. /\ p \in Problems /\ p.evidence \subseteq receipts
        /\ \A k \in p.commits : commits[k] # None
    <2>1. receipts \subseteq Events /\ Evidence(callers[c].problem) \subseteq receipts
          /\ Committed(callers[c].problem) \subseteq Events
          /\ \A k \in Committed(callers[c].problem) : commits[k] # None
      BY <1>2 DEF RecordInv, StoreOK, TypeOK, Evidence, Committed, Backed, Problems
    <2>2. p.status \in {"routed", "waiting", "in_progress", "resolved"}
      BY <1>2, <1>3 DEF Upserted, StatusFor, Problems
    <2> QED BY <1>2, <1>3, <2>1, <2>2 DEF Upserted, Problems
  <1>5. /\ problem' = p
        /\ callers' = [callers EXCEPT ![c] = IF callers[c].action = "route" THEN x ELSE Idle]
    BY <1>0, <1>3 DEF SaveProblem, RecordInv
  <1>6. UNCHANGED <<hosted, receipts, commits, jobs, ended, attempt, runs, workers>>
    BY DEF SaveProblem, counters, history
  <1> HIDE DEF upserted
  <1>7. StoreOK' /\ Grows
    BY <1>4, <1>5, <1>6, ProblemWrite DEF Backed
  <1>8. CASE callers[c].action # "route"
    BY <1>5, <1>6, <1>7, <1>8, CallerRests, CallerKeepsInv
  <1>9. CASE callers[c].action = "route"
    <2>1. /\ x \in CallerStates /\ x.at = "listCommits" /\ x.event = callers[c].event
          /\ x.action = "route" /\ x.attempt = callers[c].attempt /\ x.problem = p
      BY <1>0, <1>1, <1>4, <1>9 DEF CallerStates, Deciding, Accepted, Routing
    <2> HIDE DEF x
    <2>2. callers' \in [Callers -> CallerStates] /\ callers'[c] = x
          /\ \A d \in Callers : d # c => callers'[d] = callers[d]
      BY <1>5, <1>9, <2>1, CallerSet
    <2>3. Backed(p)' /\ p # None
      BY <1>4, <1>5, <1>6, Fields DEF Backed
    <2>4. CallerOK(c)'
      BY <1>2, <1>6, <2>1, <2>2, <2>3 DEF CallerOK, At, Mine
    <2> QED BY <1>6, <1>7, <2>2, <2>4, CallerKeepsInv DEF CallerMoves
  <1> QED BY <1>8, <1>9

LEMMA ListCommitsKeepsInv ==
  ASSUME RecordInv, NEW c \in Callers, ListCommits(c)
  PROVE  RecordInv'
  <1>1. StoreOK' /\ Grows
    BY StoreStays DEF ListCommits, counters, history
  <1>2. Mine(c) \in Events
    BY DEF RecordInv, StoreOK, TypeOK, CallerOK, ListCommits, At, Deciding, Accepted, Routing
  <1>3. PICK k \in RouteCommits \cup {None} : k = commits[Mine(c)]
    BY <1>2 DEF RecordInv, StoreOK, TypeOK
  <1>4. CallerMoves(c)
    BY <1>1, <1>3, CallerGoes DEF ListCommits, At, Routing
  <1> QED BY <1>1, <1>4, CallerKeepsInv

LEMMA SaveCommitKeepsInv ==
  ASSUME RecordInv, NEW c \in Callers, SaveCommit(c)
  PROVE  RecordInv'
  <1> DEFINE k == [attempt |-> callers[c].attempt,
                   status |-> IF callers[c].existing = None THEN "queued"
                              ELSE callers[c].existing.status]
  <1>1. /\ Mine(c) \in Events /\ callers[c].attempt \in 1..attempt
        /\ callers[c].existing \in RouteCommits \cup {None}
    BY DEF RecordInv, StoreOK, TypeOK, CallerOK, CallerStates, SaveCommit, At, Deciding, Accepted,
           Routing
  <1>2. k \in RouteCommits /\ k.attempt \in 1..attempt
    BY <1>1 DEF RouteCommits, RecordInv, StoreOK
  <1>3. commits' = [commits EXCEPT ![Mine(c)] = k]
    BY DEF SaveCommit
  <1> HIDE DEF k
  <1>4. StoreOK' /\ Grows /\ commits'[Mine(c)] # None
    BY <1>1, <1>2, <1>3, CommitWrite DEF SaveCommit, counters, history
  <1>5. CallerMoves(c)
    BY <1>4, CallerGoes DEF SaveCommit, At, Routing
  <1> QED BY <1>4, <1>5, CallerKeepsInv

\* A caller that goes on and has no use for the commit
LEMMA CallerGoesOn ==
  ASSUME RecordInv, StoreOK', Grows, NEW c \in Callers, callers[c].at \in {"getJob", "saveJob"},
         NEW label \in Routing, Go(c, label), UNCHANGED workers
  PROVE  RecordInv'
  <1>1. Mine(c) \in Events /\ commits[Mine(c)] # None
    BY DEF RecordInv, StoreOK, TypeOK, CallerOK, Deciding, Accepted, Routing
  <1>2. commits'[Mine(c)] # None
    BY <1>1 DEF Grows
  <1>3. PICK k \in RouteCommits \cup {None} : k = callers[c].existing
    BY DEF RecordInv, CallerStates
  <1>4. callers' = [callers EXCEPT ![c].at = label, ![c].existing = k]
    <2>1. [callers[c] EXCEPT !.at = label] = [callers[c] EXCEPT !.at = label, !.existing = k]
      BY <1>3 DEF RecordInv, CallerStates
    <2> QED BY <2>1 DEF Go
  <1>5. CallerMoves(c)
    BY <1>2, <1>4, CallerGoes DEF Routing
  <1> QED BY <1>5, CallerKeepsInv

LEMMA GetJobKeepsInv ==
  ASSUME RecordInv, NEW c \in Callers, GetJob(c)
  PROVE  RecordInv'
  <1>1. StoreOK' /\ Grows
    BY StoreStays DEF GetJob, counters, history
  <1> QED BY <1>1, CallerGoesOn DEF GetJob, At, Routing

LEMMA SaveJobKeepsInv ==
  ASSUME RecordInv, NEW c \in Callers, SaveJob(c)
  PROVE  RecordInv'
  <1>1. /\ Mine(c) \in Events /\ Mine(c) \in receipts /\ callers[c].attempt \in 1..attempt
        /\ problem # None /\ commits[Mine(c)] # None
    BY DEF RecordInv, StoreOK, TypeOK, CallerOK, SaveJob, At, Deciding, Accepted, Routing, Backed
  <1>2. QueuedJob(c) \in RouteJobs /\ QueuedJob(c).attempt \in 1..attempt
    BY <1>1, RouteSubmissionAssumption
    DEF RouteSubmissionAssumption, QueuedJob, RouteJobs, RecordInv, StoreOK
  <1>3. StoreOK' /\ Grows
    <2>1. CASE jobs' = jobs
      BY <2>1, StoreStays DEF SaveJob, store, counters, history
    <2>2. CASE jobs' = [jobs EXCEPT ![Mine(c)] = QueuedJob(c)]
      BY <1>1, <1>2, <2>2, JobWrite DEF SaveJob, counters, history
    <2> QED BY <2>1, <2>2 DEF SaveJob
  <1> QED BY <1>3, CallerGoesOn DEF SaveJob, At, Routing

\* The problem is saved with the commits it had, and one more that is there.
LEMMA FinishRouteKeepsInv ==
  ASSUME RecordInv, NEW c \in Callers, FinishRoute(c)
  PROVE  RecordInv'
  <1>1. /\ Mine(c) \in Events /\ commits[Mine(c)] # None
        /\ callers[c].problem \in Problems /\ Backed(callers[c].problem)
    BY DEF RecordInv, StoreOK, TypeOK, CallerOK, CallerStates, FinishRoute, At, Deciding,
           Accepted, Routing
  <1>2. callers[c].problem # None
    BY <1>1, Fields
  <1>3. /\ problem' \in Problems /\ problem'.evidence = callers[c].problem.evidence
        /\ problem'.commits = callers[c].problem.commits \cup {Mine(c)}
    BY <1>1 DEF FinishRoute, Problems
  <1>4. Backed(problem)'
    BY <1>1, <1>2, <1>3 DEF Backed, FinishRoute
  <1>5. StoreOK' /\ Grows
    BY <1>3, <1>4, ProblemWrite DEF FinishRoute, counters, history
  <1> QED BY <1>5, CallerRests, CallerKeepsInv DEF FinishRoute

LEMMA ReadOutcomeKeepsInv ==
  ASSUME RecordInv, NEW c \in Callers, ReadOutcome(c)
  PROVE  RecordInv'
  <1>1. PICK p \in Problems \cup {None} : p = problem
    BY StoredProblemBacked
  <1> DEFINE x == [Idle EXCEPT !.at = "saveOutcome", !.problem = p]
  <1>2. StoreOK' /\ Grows
    BY StoreStays DEF ReadOutcome, history
  <1>3. /\ x \in CallerStates /\ x.at = "saveOutcome" /\ x.problem = p
        /\ x.action = None
    BY DEF Idle, CallerStates
  <1>4. callers' \in [Callers -> CallerStates] /\ callers'[c] = x
        /\ \A d \in Callers : d # c => callers'[d] = callers[d]
    BY <1>1, <1>3, CallerSet DEF ReadOutcome
  <1>5. Backed(p)' /\ p # None
    BY <1>1, <1>2, StoredProblemBacked, BackedStays DEF ReadOutcome
  <1>6. CallerOK(c)'
    BY <1>3, <1>4, <1>5 DEF CallerOK, At, Deciding, Accepted, Routing
  <1> QED BY <1>2, <1>4, <1>6, CallerKeepsInv DEF CallerMoves, ReadOutcome

LEMMA SaveOutcomeKeepsInv ==
  ASSUME RecordInv, NEW c \in Callers, SaveOutcome(c)
  PROVE  RecordInv'
  <1>1. /\ callers[c].problem \in Problems /\ Backed(callers[c].problem)
        /\ callers[c].problem # None
    BY DEF RecordInv, CallerOK, CallerStates, SaveOutcome
  <1>2. /\ problem' \in Problems /\ problem'.evidence = callers[c].problem.evidence
        /\ problem'.commits = callers[c].problem.commits
    BY <1>1 DEF SaveOutcome, Problems
  <1>3. Backed(problem)'
    BY <1>1, <1>2 DEF Backed, SaveOutcome
  <1>4. StoreOK' /\ Grows
    BY <1>2, <1>3, ProblemWrite DEF SaveOutcome, counters, history
  <1> QED BY <1>4, CallerRests, CallerKeepsInv DEF SaveOutcome

LEMMA CallerLeaves ==
  ASSUME RecordInv, NEW c \in Callers, Reject(c) \/ CallerDies(c)
  PROVE  RecordInv'
  <1>1. StoreOK' /\ Grows
    BY StoreStays DEF Reject, CallerDies, counters, history
  <1> QED BY <1>1, CallerRests, CallerKeepsInv DEF Reject, CallerDies

-----------------------------------------------------------------------------
\* Workers
LEMMA WorkerSet ==
  ASSUME RecordInv, NEW w \in Workers, NEW x \in WorkerStates,
         workers' = [workers EXCEPT ![w] = x]
  PROVE  /\ workers' \in [Workers -> WorkerStates] /\ workers'[w] = x
         /\ \A v \in Workers : v # w => workers'[v] = workers[v]
  BY DEF RecordInv

LEMMA WorkerRests ==
  ASSUME RecordInv, NEW w \in Workers, workers' = [workers EXCEPT ![w] = Resting],
         UNCHANGED callers
  PROVE  WorkerMoves(w)
  <1>1. workers' \in [Workers -> WorkerStates] /\ workers'[w] = Resting
        /\ \A v \in Workers : v # w => workers'[v] = workers[v]
    BY Fields, WorkerSet
  <1>2. WorkerOK(w)'
    BY <1>1, Fields DEF WorkerOK, Does, Resting, Backed, WithProblem, WithCommit
  <1> QED BY <1>1, <1>2 DEF WorkerMoves

\* A worker that goes on with its job needs what its next step uses.
LEMMA WorkerTurns ==
  ASSUME RecordInv, Grows, NEW w \in Workers, UNCHANGED callers,
         NEW x \in WorkerStates, workers' = [workers EXCEPT ![w] = x],
         x.at # "idle", x.event \in Events, jobs'[x.event] # None, Backed(x.problem)',
         x.at \in WithProblem => x.problem # None,
         x.at \in WithCommit => x.commit # None,
         x.commit # None => x.commit.attempt \in 1..attempt'
  PROVE  WorkerMoves(w)
  <1>1. workers' \in [Workers -> WorkerStates] /\ workers'[w] = x
        /\ \A v \in Workers : v # w => workers'[v] = workers[v]
    BY WorkerSet
  <1>2. WorkerOK(w)'
    BY <1>1 DEF WorkerOK, Does, Job
  <1> QED BY <1>1, <1>2 DEF WorkerMoves

\* What a worker at work knows
LEMMA AtWork ==
  ASSUME RecordInv, NEW w \in Workers, ~Does(w, "idle")
  PROVE  /\ workers[w] \in WorkerStates
         /\ workers[w].event \in Events /\ workers[w].event \in receipts
         /\ Job(w) \in RouteJobs /\ Job(w) # None /\ Job(w).attempt \in 1..attempt
         /\ problem \in Problems /\ problem # None
         /\ commits[workers[w].event] \in RouteCommits /\ commits[workers[w].event] # None
         /\ workers[w].problem \in Problems \cup {None} /\ Backed(workers[w].problem)
         /\ workers[w].commit \in RouteCommits \cup {None}
         /\ workers[w].commit # None => workers[w].commit.attempt \in 1..attempt
         /\ attempt \in Nat
  BY DEF RecordInv, StoreOK, TypeOK, RecordsAreBacked, WorkerOK, WorkerStates, Job

\* It goes on with the same job, its copies and another label.
LEMMA WorkerGoesOn ==
  ASSUME RecordInv, StoreOK', Grows, NEW w \in Workers, ~Does(w, "idle"), UNCHANGED callers,
         NEW label \in Holding \cup After, Turn(w, label),
         label \in WithProblem => workers[w].problem # None,
         label \in WithCommit => workers[w].commit # None
  PROVE  RecordInv'
  <1>1. PICK y \in WorkerStates : y = workers[w]
    BY AtWork
  <1> DEFINE x == [y EXCEPT !.at = label]
  <1>2. /\ x \in WorkerStates /\ x.at = label /\ x.event = y.event
        /\ x.problem = y.problem /\ x.commit = y.commit
    BY <1>1 DEF WorkerStates
  <1>3. workers' = [workers EXCEPT ![w] = x]
    BY <1>1 DEF Turn, RecordInv
  <1> HIDE DEF x
  <1>4. x.event \in Events /\ jobs'[x.event] # None
    BY <1>1, <1>2, AtWork DEF Grows, Job
  <1>5. Backed(x.problem)'
    BY <1>1, <1>2, AtWork, BackedStays
  <1>6. x.commit # None => x.commit.attempt \in 1..attempt'
    BY <1>1, <1>2, AtWork, Fields DEF Grows
  <1>7. x.at # "idle"
    BY <1>2 DEF Holding, WithProblem, WithCommit, After
  <1>8. WorkerMoves(w)
    BY <1>1, <1>2, <1>3, <1>4, <1>5, <1>6, <1>7, WorkerTurns
  <1> QED BY <1>8, WorkerKeepsInv

LEMMA ClaimKeepsInv ==
  ASSUME RecordInv, NEW w \in Workers, NEW e \in Events, Claim(w, e)
  PROVE  RecordInv'
  <1> DEFINE j == [jobs[e] EXCEPT !.status = "claimed", !.holder = w, !.tries = @ + 1]
  <1>1. /\ jobs[e] \in RouteJobs /\ jobs[e].attempt \in 1..attempt /\ jobs[e].tries < MaxAttempts
        /\ e \in receipts /\ problem # None /\ commits[e] # None
    BY DEF RecordInv, StoreOK, TypeOK, RecordsAreBacked, Claim
  <1>2. jobs[e].tries + 1 \in 0..MaxAttempts
    BY <1>1, Fields, RouteSubmissionAssumption DEF RouteSubmissionAssumption
  <1>3. j \in RouteJobs /\ j.attempt \in 1..attempt
    BY <1>1, <1>2 DEF RouteJobs
  <1>4. jobs' = [jobs EXCEPT ![e] = j]
    BY DEF Claim, RecordInv, StoreOK, TypeOK
  <1> HIDE DEF j
  <1>5. StoreOK' /\ Grows /\ jobs'[e] # None
    BY <1>1, <1>3, <1>4, JobWrite DEF Claim, counters, history
  <1>6. PICK n \in Nat : n = jobs[e].attempt
    BY <1>1, Fields
  <1> DEFINE x == [Resting EXCEPT !.at = "take", !.event = e, !.attempt = n]
  <1>7. /\ x \in WorkerStates /\ x.at = "take" /\ x.event = e
        /\ x.problem = None /\ x.commit = None
    BY DEF Resting, WorkerStates, Holding
  <1>8. workers' = [workers EXCEPT ![w] = x]
    BY <1>6 DEF Claim
  <1> HIDE DEF x
  <1>9. WorkerMoves(w)
    BY <1>5, <1>7, <1>8, WorkerTurns DEF Claim, Backed, WithProblem, WithCommit
  <1> QED BY <1>5, <1>9, WorkerKeepsInv

LEMMA ReadsKeepInv ==
  ASSUME RecordInv, NEW w \in Workers, Take(w) \/ ReadHeld(w)
  PROVE  RecordInv'
  <1>1. StoreOK' /\ Grows /\ problem' = problem
    BY StoreStays DEF Take, ReadHeld, counters, history, store
  <1>2. ~Does(w, "idle")
    BY DEF Take, ReadHeld, Does
  <1>3. PICK y \in WorkerStates, p \in Problems : y = workers[w] /\ p = problem
    BY <1>2, AtWork
  <1>4. PICK label \in {"bind", "fail", "hold"} :
          workers' = [workers EXCEPT ![w].at = label, ![w].problem = p]
    BY <1>3 DEF Take, ReadHeld
  <1> DEFINE x == [y EXCEPT !.at = label, !.problem = p]
  <1>5. /\ x \in WorkerStates /\ x.at = label /\ x.event = y.event
        /\ x.problem = p /\ x.commit = y.commit
    BY <1>3 DEF WorkerStates, Holding, WithProblem, After
  <1>6. workers' = [workers EXCEPT ![w] = x]
    BY <1>3, <1>4 DEF RecordInv
  <1> HIDE DEF x
  <1>7. x.event \in Events /\ jobs'[x.event] # None
    BY <1>1, <1>2, <1>3, <1>5, AtWork DEF Grows, Job
  <1>8. Backed(p)' /\ p # None
    BY <1>1, <1>3, StoredProblemBacked, BackedStays, Fields
  <1>9. x.commit # None => x.commit.attempt \in 1..attempt'
    BY <1>1, <1>2, <1>3, <1>5, AtWork, Fields DEF Grows
  <1>10. WorkerMoves(w)
    BY <1>1, <1>5, <1>6, <1>7, <1>8, <1>9, WorkerTurns DEF Take, ReadHeld, WithCommit
  <1> QED BY <1>1, <1>10, WorkerKeepsInv

LEMMA BindKeepsInv ==
  ASSUME RecordInv, NEW w \in Workers, Bind(w)
  PROVE  RecordInv'
  <1>1. StoreOK' /\ Grows
    BY StoreStays DEF Bind, counters, history
  <1>2. ~Does(w, "idle")
    BY DEF Bind, Does
  <1>3. PICK y \in WorkerStates, k \in RouteCommits :
          y = workers[w] /\ k = commits[workers[w].event] /\ k.attempt \in 1..attempt
    BY <1>2, AtWork DEF RecordInv, StoreOK, TypeOK
  <1>4. PICK label \in {"start", "fail"} :
          workers' = [workers EXCEPT ![w].commit = k, ![w].at = label]
    BY <1>3 DEF Bind
  <1> DEFINE x == [y EXCEPT !.commit = k, !.at = label]
  <1>5. /\ x \in WorkerStates /\ x.at = label /\ x.event = y.event
        /\ x.problem = y.problem /\ x.commit = k
    BY <1>3 DEF WorkerStates, Holding, WithProblem, WithCommit
  <1>6. workers' = [workers EXCEPT ![w] = x]
    BY <1>3, <1>4 DEF RecordInv
  <1> HIDE DEF x
  <1>7. x.event \in Events /\ jobs'[x.event] # None
    BY <1>1, <1>2, <1>3, <1>5, AtWork DEF Grows, Job
  <1>8. Backed(x.problem)' /\ x.problem # None
    <2>1. Backed(y.problem) /\ y.problem \in Problems \cup {None}
      BY <1>2, <1>3, AtWork
    <2>2. y.problem # None
      BY <1>3 DEF RecordInv, WorkerOK, Bind, Does, WithProblem
    <2> QED BY <1>1, <1>5, <2>1, <2>2, BackedStays
  <1>9. k.attempt \in 1..attempt' /\ k # None
    BY <1>1, <1>3, Fields DEF Grows, RecordInv, StoreOK
  <1>10. WorkerMoves(w)
    BY <1>1, <1>5, <1>6, <1>7, <1>8, <1>9, WorkerTurns DEF Bind
  <1> QED BY <1>1, <1>10, WorkerKeepsInv

\* What a worker writes to its job: another status, and who holds it.
LEMMA OwnJobWrite ==
  ASSUME RecordInv, NEW w \in Workers, ~Does(w, "idle"), NEW j \in RouteJobs,
         j.attempt = Job(w).attempt, jobs' = [jobs EXCEPT ![workers[w].event] = j],
         UNCHANGED <<hosted, receipts, problem, commits, ended, attempt, runs>>
  PROVE  StoreOK' /\ Grows
  BY AtWork, JobWrite

LEMMA FailedJobType ==
  ASSUME NEW j \in RouteJobs
  PROVE  FailedJob(j) \in RouteJobs /\ FailedJob(j).attempt = j.attempt
  BY DEF FailedJob, RouteJobs

LEMMA StartKeepsInv ==
  ASSUME RecordInv, NEW w \in Workers, Start(w)
  PROVE  RecordInv'
  <1>1. ~Does(w, "idle") /\ workers[w].problem # None /\ workers[w].commit # None
    BY DEF RecordInv, WorkerOK, Start, Does, WithProblem, WithCommit
  <1>2. StoreOK' /\ Grows
    <2>1. CASE jobs' = jobs
      BY <2>1, StoreStays DEF Start, store, counters, history
    <2>2. CASE jobs' = [jobs EXCEPT ![workers[w].event].status = "running"]
      <3> DEFINE j == [Job(w) EXCEPT !.status = "running"]
      <3>1. j \in RouteJobs /\ j.attempt = Job(w).attempt
        BY <1>1, AtWork DEF RouteJobs
      <3>2. jobs' = [jobs EXCEPT ![workers[w].event] = j]
        BY <2>2 DEF Job
      <3> QED BY <1>1, <3>1, <3>2, OwnJobWrite DEF Start, counters, history
    <2> QED BY <2>1, <2>2 DEF Start
  <1> QED BY <1>1, <1>2, WorkerGoesOn DEF Start, Holding, WithProblem, WithCommit

\* What a worker writes to its commit keeps the attempt.
LEMMA OwnCommitWrite ==
  ASSUME RecordInv, NEW w \in Workers, ~Does(w, "idle"), NEW k \in RouteCommits,
         k.attempt \in 1..attempt, commits' = [commits EXCEPT ![workers[w].event] = k],
         UNCHANGED <<hosted, receipts, problem, jobs, ended, attempt, runs>>
  PROVE  StoreOK' /\ Grows
  BY AtWork, CommitWrite

LEMMA SaveRunningCommitKeepsInv ==
  ASSUME RecordInv, NEW w \in Workers, SaveRunningCommit(w)
  PROVE  RecordInv'
  <1>1. ~Does(w, "idle") /\ workers[w].problem # None /\ workers[w].commit # None
    BY DEF RecordInv, WorkerOK, SaveRunningCommit, Does, WithProblem, WithCommit
  <1> DEFINE k == [workers[w].commit EXCEPT !.status = "running"]
  <1>2. k \in RouteCommits /\ k.attempt \in 1..attempt
    BY <1>1, AtWork DEF RouteCommits
  <1>3. StoreOK' /\ Grows
    BY <1>1, <1>2, OwnCommitWrite DEF SaveRunningCommit, counters, history
  <1> QED BY <1>1, <1>3, WorkerGoesOn DEF SaveRunningCommit, Holding, WithProblem, WithCommit

\* What a worker saves of the problem is its copy with another status.
LEMMA OwnProblemWrite ==
  ASSUME RecordInv, NEW w \in Workers, ~Does(w, "idle"), workers[w].problem # None,
         NEW status \in {"routed", "waiting", "in_progress", "resolved"},
         problem' = [workers[w].problem EXCEPT !.status = status],
         UNCHANGED <<hosted, receipts, commits, jobs, ended, attempt, runs>>
  PROVE  StoreOK' /\ Grows
  <1>1. workers[w].problem \in Problems /\ Backed(workers[w].problem)
    BY AtWork
  <1>2. /\ problem' \in Problems /\ problem'.evidence = workers[w].problem.evidence
        /\ problem'.commits = workers[w].problem.commits
    BY <1>1 DEF Problems
  <1>3. Backed(problem)'
    BY <1>1, <1>2 DEF Backed
  <1> QED BY <1>2, <1>3, ProblemWrite

LEMMA SaveRunningProblemKeepsInv ==
  ASSUME RecordInv, NEW w \in Workers, SaveRunningProblem(w)
  PROVE  RecordInv'
  <1>1. ~Does(w, "idle") /\ workers[w].problem # None /\ workers[w].commit # None
    BY DEF RecordInv, WorkerOK, SaveRunningProblem, Does, WithProblem, WithCommit
  <1>2. StoreOK' /\ Grows
    BY <1>1, OwnProblemWrite DEF SaveRunningProblem, counters, history
  <1> QED BY <1>1, <1>2, WorkerGoesOn DEF SaveRunningProblem, Holding, WithProblem, WithCommit

LEMMA RunKeepsInv ==
  ASSUME RecordInv, NEW w \in Workers, Run(w)
  PROVE  RecordInv'
  <1>1. ~Does(w, "idle") /\ workers[w].problem # None /\ workers[w].commit # None
    BY DEF RecordInv, WorkerOK, Run, Does, WithProblem, WithCommit
  <1>2. ended' \subseteq Events /\ runs' \in [Events -> Nat]
    BY <1>1, AtWork DEF RecordInv, StoreOK, TypeOK, Run
  <1>3. StoreOK' /\ Grows
    BY <1>2 DEF RecordInv, StoreOK, TypeOK, RecordsAreBacked, Grows, Run, counters
  <1>4. CASE Turn(w, "fail")
    BY <1>1, <1>3, <1>4, WorkerGoesOn DEF Run, Holding, WithProblem, WithCommit
  <1>5. ASSUME NEW result \in {"COMPLETED", "FAILED"},
               workers' = [workers EXCEPT ![w].at = "finalize", ![w].result = result]
        PROVE  RecordInv'
    <2>1. PICK y \in WorkerStates : y = workers[w]
      BY <1>1, AtWork
    <2> DEFINE x == [y EXCEPT !.at = "finalize", !.result = result]
    <2>2. /\ x \in WorkerStates /\ x.at = "finalize" /\ x.event = y.event
          /\ x.problem = y.problem /\ x.commit = y.commit
      BY <2>1 DEF WorkerStates, Holding, WithProblem, WithCommit
    <2>3. workers' = [workers EXCEPT ![w] = x]
      BY <1>5, <2>1 DEF RecordInv
    <2> HIDE DEF x
    <2>4. x.event \in Events /\ jobs'[x.event] # None
      BY <1>1, <1>3, <2>1, <2>2, AtWork DEF Grows, Job
    <2>5. Backed(x.problem)'
      BY <1>1, <1>3, <2>1, <2>2, AtWork, BackedStays
    <2>6. x.commit # None => x.commit.attempt \in 1..attempt'
      BY <1>1, <1>3, <2>1, <2>2, AtWork, Fields DEF Grows
    <2>7. WorkerMoves(w)
      BY <1>1, <1>3, <2>1, <2>2, <2>3, <2>4, <2>5, <2>6, WorkerTurns DEF Run
    <2> QED BY <1>3, <2>7, WorkerKeepsInv
  <1> QED BY <1>4, <1>5 DEF Run

LEMMA FinalizeKeepsInv ==
  ASSUME RecordInv, NEW w \in Workers, Finalize(w)
  PROVE  RecordInv'
  <1>1. ~Does(w, "idle") /\ workers[w].problem # None /\ workers[w].commit # None
    BY DEF RecordInv, WorkerOK, Finalize, Does, WithProblem, WithCommit
  <1>2. StoreOK' /\ Grows
    BY StoreStays DEF Finalize, counters, history
  <1>3. CASE Turn(w, "saveFinalCommit")
    BY <1>1, <1>2, <1>3, WorkerGoesOn DEF Finalize, Holding, WithProblem, WithCommit
  <1>4. CASE workers' = [workers EXCEPT ![w] = Resting]
    BY <1>2, <1>4, WorkerRests, WorkerKeepsInv DEF Finalize
  <1> QED BY <1>3, <1>4 DEF Finalize

\* The final writes let go of the copies.
LEMMA SaveFinalCommitKeepsInv ==
  ASSUME RecordInv, NEW w \in Workers, SaveFinalCommit(w)
  PROVE  RecordInv'
  <1>1. ~Does(w, "idle") /\ workers[w].problem # None /\ workers[w].commit # None
    BY DEF RecordInv, WorkerOK, SaveFinalCommit, Does, WithProblem, WithCommit
  <1> DEFINE k == [workers[w].commit EXCEPT !.status = IF Succeeded(w) THEN "completed" ELSE "failed"]
  <1>2. k \in RouteCommits /\ k.attempt \in 1..attempt
    BY <1>1, AtWork DEF RouteCommits
  <1>3. commits' = [commits EXCEPT ![workers[w].event] = k]
    BY DEF SaveFinalCommit
  <1> HIDE DEF k
  <1>4. StoreOK' /\ Grows
    BY <1>1, <1>2, <1>3, OwnCommitWrite DEF SaveFinalCommit, counters, history
  <1>5. PICK y \in WorkerStates : y = workers[w]
    BY <1>1, AtWork
  <1> DEFINE x == [y EXCEPT !.at = "saveFinalProblem", !.commit = None]
  <1>6. /\ x \in WorkerStates /\ x.at = "saveFinalProblem" /\ x.event = y.event
        /\ x.problem = y.problem /\ x.commit = None
    BY <1>5 DEF WorkerStates, Holding, WithProblem
  <1>7. workers' = [workers EXCEPT ![w] = x]
    BY <1>5 DEF SaveFinalCommit, RecordInv
  <1> HIDE DEF x
  <1>8. x.event \in Events /\ jobs'[x.event] # None
    BY <1>1, <1>4, <1>5, <1>6, AtWork DEF Grows, Job
  <1>9. Backed(x.problem)'
    BY <1>1, <1>4, <1>5, <1>6, AtWork, BackedStays
  <1>10. WorkerMoves(w)
    BY <1>1, <1>4, <1>5, <1>6, <1>7, <1>8, <1>9, WorkerTurns DEF SaveFinalCommit, WithCommit
  <1> QED BY <1>4, <1>10, WorkerKeepsInv

LEMMA SaveFinalProblemKeepsInv ==
  ASSUME RecordInv, NEW w \in Workers, SaveFinalProblem(w)
  PROVE  RecordInv'
  <1>1. ~Does(w, "idle") /\ workers[w].problem # None
    BY DEF RecordInv, WorkerOK, SaveFinalProblem, Does, WithProblem
  <1>2. PICK status \in {"routed", "waiting", "in_progress", "resolved"} :
          problem' = [workers[w].problem EXCEPT !.status = status]
    BY DEF SaveFinalProblem
  <1>3. StoreOK' /\ Grows
    BY <1>1, <1>2, OwnProblemWrite DEF SaveFinalProblem, counters, history
  <1>4. PICK y \in WorkerStates : y = workers[w]
    BY <1>1, AtWork
  <1> DEFINE x == [y EXCEPT !.at = "settle", !.problem = None]
  <1>5. /\ x \in WorkerStates /\ x.at = "settle" /\ x.event = y.event
        /\ x.problem = None /\ x.commit = y.commit
    BY <1>4 DEF WorkerStates, Holding
  <1>6. workers' = [workers EXCEPT ![w] = x]
    BY <1>4 DEF SaveFinalProblem, RecordInv
  <1> HIDE DEF x
  <1>7. x.event \in Events /\ jobs'[x.event] # None
    BY <1>1, <1>3, <1>4, <1>5, AtWork DEF Grows, Job
  <1>8. x.commit # None => x.commit.attempt \in 1..attempt'
    BY <1>1, <1>3, <1>4, <1>5, AtWork, Fields DEF Grows
  <1>9. WorkerMoves(w)
    BY <1>3, <1>5, <1>6, <1>7, <1>8, WorkerTurns
    DEF SaveFinalProblem, Backed, WithProblem, WithCommit
  <1> QED BY <1>3, <1>9, WorkerKeepsInv

LEMMA SettleKeepsInv ==
  ASSUME RecordInv, NEW w \in Workers, Settle(w)
  PROVE  RecordInv'
  <1>1. ~Does(w, "idle")
    BY DEF Settle, Does
  <1>2. Job(w) \in RouteJobs
    BY <1>1, AtWork
  <1>3. StoreOK' /\ Grows
    <2>1. CASE jobs' = jobs
      BY <2>1, StoreStays DEF Settle, store, counters, history
    <2>2. CASE jobs' = [jobs EXCEPT ![workers[w].event] =
                          IF Succeeded(w) THEN [@ EXCEPT !.status = "completed", !.holder = None]
                          ELSE FailedJob(@)]
      <3> DEFINE j == IF Succeeded(w) THEN [Job(w) EXCEPT !.status = "completed", !.holder = None]
                                      ELSE FailedJob(Job(w))
      <3>1. j \in RouteJobs /\ j.attempt = Job(w).attempt
        BY <1>2, FailedJobType DEF RouteJobs
      <3>2. jobs' = [jobs EXCEPT ![workers[w].event] = j]
        BY <2>2 DEF Job
      <3> QED BY <1>1, <3>1, <3>2, OwnJobWrite DEF Settle, counters, history
    <2> QED BY <2>1, <2>2 DEF Settle
  <1> QED BY <1>3, WorkerRests, WorkerKeepsInv DEF Settle

LEMMA FailKeepsInv ==
  ASSUME RecordInv, NEW w \in Workers, Fail(w)
  PROVE  RecordInv'
  <1>1. ~Does(w, "idle")
    BY DEF Fail, Does
  <1>2. Job(w) \in RouteJobs
    BY <1>1, AtWork
  <1>3. StoreOK' /\ Grows
    <2>1. CASE jobs' = jobs
      BY <2>1, StoreStays DEF Fail, store, counters, history
    <2>2. CASE jobs' = [jobs EXCEPT ![workers[w].event] = FailedJob(@)]
      BY <1>1, <1>2, <2>2, FailedJobType, OwnJobWrite DEF Fail, Job, counters, history
    <2> QED BY <2>1, <2>2 DEF Fail
  <1>4. CASE Turn(w, "requeue")
    BY <1>1, <1>3, <1>4, WorkerGoesOn DEF Fail, Holding, WithProblem, WithCommit, After
  <1>5. CASE workers' = [workers EXCEPT ![w] = Resting]
    BY <1>3, <1>5, WorkerRests, WorkerKeepsInv DEF Fail
  <1> QED BY <1>4, <1>5 DEF Fail

LEMMA RequeueKeepsInv ==
  ASSUME RecordInv, NEW w \in Workers, Requeue(w)
  PROVE  RecordInv'
  <1> DEFINE e == workers[w].event
             k == [commits[e] EXCEPT !.status =
                     IF jobs[e].status = "dead_letter" THEN "failed" ELSE "queued"]
  <1>1. ~Does(w, "idle")
    BY DEF Requeue, Does
  <1>2. commits[e] \in RouteCommits /\ commits[e] # None /\ commits[e].attempt \in 1..attempt
    BY <1>1, AtWork DEF RecordInv, StoreOK, TypeOK
  <1>3. k \in RouteCommits /\ k.attempt \in 1..attempt
    BY <1>2 DEF RouteCommits
  <1>4. commits' = [commits EXCEPT ![e] = k]
    BY <1>2 DEF Requeue
  <1>5. StoreOK' /\ Grows
    BY <1>1, <1>3, <1>4, OwnCommitWrite DEF Requeue, counters, history
  <1> QED BY <1>1, <1>5, WorkerGoesOn DEF Requeue, After, Holding, WithProblem, WithCommit

LEMMA HoldKeepsInv ==
  ASSUME RecordInv, NEW w \in Workers, Hold(w)
  PROVE  RecordInv'
  <1>1. ~Does(w, "idle")
    BY DEF Hold, Does
  <1>2. StoreOK' /\ Grows
    <2>1. CASE workers[w].problem = None
      BY <2>1, StoreStays DEF Hold, store, counters, history
    <2>2. CASE workers[w].problem # None
      BY <1>1, <2>2, OwnProblemWrite DEF Hold, counters, history
    <2> QED BY <2>1, <2>2
  <1> QED BY <1>2, WorkerRests, WorkerKeepsInv DEF Hold

LEMMA WorkerDiesKeepsInv ==
  ASSUME RecordInv, NEW w \in Workers, WorkerDies(w)
  PROVE  RecordInv'
  <1>1. StoreOK' /\ Grows
    BY StoreStays DEF WorkerDies, history
  <1> QED BY <1>1, WorkerRests, WorkerKeepsInv DEF WorkerDies

LEMMA RecordStep == RecordInv /\ [Next]_vars => RecordInv'
  <1> SUFFICES ASSUME RecordInv, [Next]_vars PROVE RecordInv'
    OBVIOUS
  <1>1. CASE \E e \in Events : Ingest(e)
    BY <1>1, IngestKeepsInv
  <1>2. ASSUME NEW c \in Callers,
               \/ CallerStep(c) \/ ReadOutcome(c) \/ CallerDies(c)
               \/ \E e \in Events, action \in Actions : Submit(c, e, action)
        PROVE  RecordInv'
    BY <1>2, CallerLeaves, AcceptKeepsInv, ReadProblemKeepsInv, SaveProblemKeepsInv,
       ListCommitsKeepsInv, SaveCommitKeepsInv, GetJobKeepsInv, SaveJobKeepsInv,
       FinishRouteKeepsInv, ReadOutcomeKeepsInv, SaveOutcomeKeepsInv, SubmitKeepsInv
    DEF CallerStep
  <1>3. ASSUME NEW w \in Workers, WorkerStep(w) \/ WorkerDies(w) \/ \E e \in Events : Claim(w, e)
        PROVE  RecordInv'
    BY <1>3, ClaimKeepsInv, ReadsKeepInv, BindKeepsInv, StartKeepsInv,
       SaveRunningCommitKeepsInv, SaveRunningProblemKeepsInv, RunKeepsInv, FinalizeKeepsInv,
       SaveFinalCommitKeepsInv, SaveFinalProblemKeepsInv, SettleKeepsInv, FailKeepsInv,
       RequeueKeepsInv, HoldKeepsInv, WorkerDiesKeepsInv
    DEF WorkerStep
  <1>4. CASE UNCHANGED vars
    BY <1>4, StoreStays, NobodyMoves DEF vars, counters, history
  <1> QED BY <1>1, <1>2, <1>3, <1>4 DEF Next

LEMMA RecordInvariance == Spec => []RecordInv
  <1> QED BY InitRecordInv, RecordStep, PTL DEF Spec

\* The types, for any events, callers and workers: the attempts of a job never
\* exceed maxAttempts, and commit and job name an attempt that was accepted
\* (submitRoutingDecision, claimRouteJobCandidates).
THEOREM SubmissionTypesHold == Spec => []TypeOK
  <1>1. RecordInv => TypeOK
    BY DEF RecordInv, StoreOK
  <1> QED BY <1>1, RecordInvariance, PTL

\* Whoever dies between two calls of submitRoutingDecision, and whatever stale
\* copies of the problem are saved over newer ones, no record refers to one
\* that was never made.
THEOREM RecordsStayBacked == Spec => []RecordsAreBacked
  <1>1. RecordInv => RecordsAreBacked
    BY DEF RecordInv, StoreOK
  <1> QED BY <1>1, RecordInvariance, PTL

-----------------------------------------------------------------------------
\* The bindings.  History only grows, so an event that is clear was clear.
LEMMA InitBindInv == Init => BindInv
  BY Fields DEF Init, BindInv, Sole, BindingsHold, CallerBinds, WorkerBinds, Mine, Idle, Resting,
                Unqueued

\* Callers that stay with their events, or leave them
LEMMA SoleStays ==
  ASSUME Sole, \A c \in Callers : Mine(c)' \in {Mine(c), None}, overlapped \subseteq overlapped'
  PROVE  Sole'
  BY Fields DEF Sole

LEMMA OthersBind ==
  ASSUME RecordInv, BindInv, NEW c \in Callers, CallerBinds(c), callers'[c] = callers[c],
         repeated \subseteq repeated', overlapped \subseteq overlapped',
         Mine(c) \in Events /\ Clear(Mine(c)) =>
           jobs'[Mine(c)] = jobs[Mine(c)] /\ commits'[Mine(c)] = commits[Mine(c)]
  PROVE  CallerBinds(c)'
  <1>1. callers[c].at \in Unqueued => Mine(c) \in Events
    BY DEF RecordInv, StoreOK, TypeOK, CallerOK, Unqueued, Deciding, Accepted, Routing
  <1> QED BY <1>1 DEF CallerBinds, Clear, Mine, At

\* A step of a caller that changes neither jobs nor commits
LEMMA CallerKeepsBindings ==
  ASSUME RecordInv, BindInv, NEW c \in Callers, UNCHANGED <<jobs, commits, workers>>,
         \A d \in Callers : d # c => callers'[d] = callers[d],
         repeated \subseteq repeated', overlapped \subseteq overlapped',
         Sole', CallerBinds(c)'
  PROVE  BindInv'
  <1>1. \A d \in Callers : CallerBinds(d)'
    BY OthersBind DEF BindInv
  <1>2. BindingsHold' /\ \A w \in Workers : WorkerBinds(w)'
    BY DEF BindInv, BindingsHold, WorkerBinds, Clear, Job
  <1> QED BY <1>1, <1>2 DEF BindInv

LEMMA CallerLeavesBindings ==
  ASSUME RecordInv, BindInv, NEW c \in Callers, UNCHANGED <<jobs, commits, workers>>,
         callers' = [callers EXCEPT ![c] = Idle], UNCHANGED <<repeated, overlapped>>
  PROVE  BindInv'
  <1>1. callers'[c] = Idle /\ \A d \in Callers : d # c => callers'[d] = callers[d]
    BY Fields, CallerSet
  <1>2. Sole'
    BY <1>1, SoleStays DEF BindInv, Mine, Idle
  <1>3. CallerBinds(c)'
    BY <1>1 DEF CallerBinds, Idle, Unqueued
  <1> QED BY <1>1, <1>2, <1>3, CallerKeepsBindings

LEMMA SubmitKeepsBindings ==
  ASSUME RecordInv, BindInv, NEW c \in Callers, NEW e \in Events, NEW action \in Actions,
         Submit(c, e, action)
  PROVE  BindInv'
  <1>1. /\ callers'[c].at = "check" /\ callers'[c].event = e
        /\ \A d \in Callers : d # c => callers'[d] = callers[d]
    BY DEF Submit, RecordInv, Idle
  <1>2. Sole'
    <2>1. overlapped \subseteq overlapped' /\ (e \notin overlapped' => \A d \in Callers : Mine(d) # e)
      BY DEF Submit
    <2> QED BY <1>1, <2>1 DEF BindInv, Sole, Mine
  <1>3. CallerBinds(c)'
    BY <1>1 DEF CallerBinds, Unqueued
  <1> QED BY <1>1, <1>2, <1>3, CallerKeepsBindings DEF Submit, store

LEMMA AcceptKeepsBindings ==
  ASSUME RecordInv, BindInv, NEW c \in Callers, Accept(c)
  PROVE  BindInv'
  <1>1. /\ callers'[c].at = "readProblem" /\ callers'[c].event = callers[c].event
        /\ callers'[c].action = callers[c].action
        /\ \A d \in Callers : d # c => callers'[d] = callers[d]
    BY DEF Accept, RecordInv, CallerStates
  <1>2. Sole'
    BY <1>1, SoleStays DEF Accept, BindInv, Mine
  <1>3. CallerBinds(c)'
    BY <1>1 DEF CallerBinds, Clear, Accept, Mine, store
  <1> QED BY <1>1, <1>2, <1>3, CallerKeepsBindings DEF Accept, store

LEMMA ReadingsKeepBindings ==
  ASSUME RecordInv, BindInv, NEW c \in Callers, ReadProblem(c) \/ ListCommits(c) \/ GetJob(c)
  PROVE  BindInv'
  <1>1. PICK label \in {"saveProblem", "saveCommit", "saveJob", "finish"} :
          /\ callers'[c].at = label /\ callers'[c].event = callers[c].event
          /\ callers'[c].action = callers[c].action
          /\ callers'[c].attempt = callers[c].attempt
          /\ \A d \in Callers : d # c => callers'[d] = callers[d]
    BY DEF ReadProblem, ListCommits, GetJob, Go, At, RecordInv, CallerStates
  <1>2. Sole'
    BY <1>1, SoleStays DEF ReadProblem, ListCommits, GetJob, history, BindInv, Mine
  <1>3. UNCHANGED <<jobs, commits, repeated, overlapped>>
    BY DEF ReadProblem, ListCommits, GetJob, store, history
  <1>4. callers[c].at \in {"readProblem", "listCommits", "getJob"}
        /\ (GetJob(c) => callers[c].at = "getJob")
        /\ (ReadProblem(c) => callers'[c].at = "saveProblem")
        /\ (ListCommits(c) => callers'[c].at = "saveCommit")
    BY DEF ReadProblem, ListCommits, GetJob, At, Go, RecordInv, CallerStates
  <1>5. CallerBinds(c)'
    BY <1>1, <1>3, <1>4 DEF BindInv, CallerBinds, Clear, Mine, Unqueued
  <1> QED BY <1>1, <1>2, <1>3, <1>5, CallerKeepsBindings DEF ReadProblem, ListCommits, GetJob

LEMMA SaveProblemKeepsBindings ==
  ASSUME RecordInv, BindInv, NEW c \in Callers, SaveProblem(c)
  PROVE  BindInv'
  <1>1. UNCHANGED <<jobs, commits, workers, repeated, overlapped>>
    BY DEF SaveProblem, history
  <1>2. CASE callers[c].action # "route"
    BY <1>1, <1>2, CallerLeavesBindings DEF SaveProblem
  <1>3. CASE callers[c].action = "route"
    <2>1. /\ callers'[c].at = "listCommits" /\ callers'[c].event = callers[c].event
          /\ callers'[c].action = callers[c].action
          /\ \A d \in Callers : d # c => callers'[d] = callers[d]
      BY <1>3 DEF SaveProblem, RecordInv, CallerStates
    <2>2. Sole'
      BY <1>1, <2>1, SoleStays DEF BindInv, Mine
    <2>3. CallerBinds(c)'
      BY <1>1, <2>1 DEF BindInv, CallerBinds, Clear, Mine, Unqueued, SaveProblem, At
    <2> QED BY <1>1, <2>1, <2>2, <2>3, CallerKeepsBindings
  <1> QED BY <1>2, <1>3

\* A caller that commits its decision about an event that is clear is the only
\* one about it, and there is no job yet, so no worker is about it either.
LEMMA AloneWithIt ==
  ASSUME RecordInv, BindInv, NEW c \in Callers, callers[c].at \in {"saveCommit", "getJob", "saveJob"}
  PROVE  /\ Mine(c) \in Events
         /\ Clear(Mine(c)) =>
              /\ jobs[Mine(c)] = None
              /\ \A d \in Callers : d # c => Mine(d) # Mine(c)
              /\ \A w \in Workers : workers[w].event # Mine(c)
  <1>1. Mine(c) \in Events /\ callers[c].action = "route"
    BY DEF RecordInv, StoreOK, TypeOK, CallerOK, Routing, Accepted, Deciding
  <1>2. ASSUME Clear(Mine(c)) PROVE jobs[Mine(c)] = None
    BY <1>1, <1>2 DEF BindInv, CallerBinds, Unqueued
  <1>3. ASSUME Clear(Mine(c)), NEW d \in Callers, Mine(d) = Mine(c) PROVE d = c
    BY <1>1, <1>3 DEF BindInv, Sole, Clear
  <1>4. ASSUME Clear(Mine(c)), NEW w \in Workers, workers[w].event = Mine(c) PROVE FALSE
    BY <1>1, <1>2, <1>4, Fields DEF RecordInv, WorkerOK, Job, Does, Resting
  <1> QED BY <1>1, <1>2, <1>3, <1>4

LEMMA SaveCommitKeepsBindings ==
  ASSUME RecordInv, BindInv, NEW c \in Callers, SaveCommit(c)
  PROVE  BindInv'
  <1>1. /\ callers'[c].at = "getJob" /\ callers'[c].event = callers[c].event
        /\ callers'[c].action = callers[c].action /\ callers'[c].attempt = callers[c].attempt
        /\ \A d \in Callers : d # c => callers'[d] = callers[d]
    BY DEF SaveCommit, RecordInv, CallerStates
  <1>2. UNCHANGED <<jobs, workers, repeated, overlapped>>
    BY DEF SaveCommit, history
  <1>3. Mine(c) \in Events
        /\ (Clear(Mine(c)) => jobs[Mine(c)] = None /\ \A d \in Callers : d # c => Mine(d) # Mine(c))
    BY AloneWithIt DEF SaveCommit, At
  <1>4. /\ commits'[Mine(c)].attempt = callers[c].attempt
        /\ \A e \in Events : e # Mine(c) => commits'[e] = commits[e]
    BY <1>3 DEF SaveCommit, RecordInv, StoreOK, TypeOK
  <1>5. Sole'
    BY <1>1, <1>2, SoleStays DEF BindInv, Mine
  <1>6. BindingsHold'
    BY <1>2, <1>3, <1>4 DEF BindInv, BindingsHold, Clear
  <1>7. CallerBinds(c)'
    BY <1>1, <1>2, <1>3, <1>4 DEF CallerBinds, Clear, Mine
  <1>8. ASSUME NEW d \in Callers, d # c PROVE CallerBinds(d)'
    BY <1>1, <1>2, <1>3, <1>4, <1>8, OthersBind DEF BindInv
  <1>9. \A w \in Workers : WorkerBinds(w)'
    BY <1>2 DEF BindInv, WorkerBinds, Clear, Job
  <1> QED BY <1>5, <1>6, <1>7, <1>8, <1>9 DEF BindInv

LEMMA SaveJobKeepsBindings ==
  ASSUME RecordInv, BindInv, NEW c \in Callers, SaveJob(c)
  PROVE  BindInv'
  <1>1. /\ callers'[c].at = "finish" /\ callers'[c].event = callers[c].event
        /\ \A d \in Callers : d # c => callers'[d] = callers[d]
    BY DEF SaveJob, Go, RecordInv, CallerStates
  <1>2. UNCHANGED <<commits, workers, repeated, overlapped>>
    BY DEF SaveJob, history
  <1>3. Mine(c) \in Events
        /\ (Clear(Mine(c)) => /\ jobs[Mine(c)] = None
                              /\ \A d \in Callers : d # c => Mine(d) # Mine(c)
                              /\ \A w \in Workers : workers[w].event # Mine(c))
    BY AloneWithIt DEF SaveJob, At
  <1>4. /\ Clear(Mine(c)) => jobs'[Mine(c)].attempt = callers[c].attempt
        /\ \A e \in Events : e # Mine(c) => jobs'[e] = jobs[e]
    BY <1>3 DEF SaveJob, QueuedJob, RecordInv, StoreOK, TypeOK
  <1>5. Clear(Mine(c)) => commits[Mine(c)].attempt = callers[c].attempt
    <2>1. callers[c].at = "saveJob" /\ callers[c].action = "route"
      BY DEF SaveJob, At, RecordInv, CallerOK, Routing
    <2> QED BY <2>1 DEF BindInv, CallerBinds, Unqueued
  <1>6. Sole'
    BY <1>1, <1>2, SoleStays DEF BindInv, Mine
  <1>7. BindingsHold'
    BY <1>2, <1>3, <1>4, <1>5 DEF BindInv, BindingsHold, Clear
  <1>8. CallerBinds(c)'
    BY <1>1 DEF CallerBinds, Unqueued
  <1>9. ASSUME NEW d \in Callers, d # c PROVE CallerBinds(d)'
    BY <1>1, <1>2, <1>3, <1>4, <1>9, OthersBind DEF BindInv
  <1>10. ASSUME NEW w \in Workers PROVE WorkerBinds(w)'
    <2>1. workers[w].commit # None => workers[w].event \in Events
      BY DEF RecordInv, WorkerOK, Does, Resting
    <2> QED BY <1>2, <1>3, <1>4, <2>1 DEF BindInv, WorkerBinds, Clear, Job
  <1> QED BY <1>6, <1>7, <1>8, <1>9, <1>10 DEF BindInv

LEMMA CallersKeepBindings ==
  ASSUME RecordInv, BindInv, NEW c \in Callers, CallerStep(c) \/ ReadOutcome(c) \/ CallerDies(c)
  PROVE  BindInv'
  <1>1. CASE Reject(c) \/ FinishRoute(c) \/ SaveOutcome(c) \/ CallerDies(c)
    BY <1>1, CallerLeavesBindings
    DEF Reject, FinishRoute, SaveOutcome, CallerDies, store, counters, history
  <1>2. CASE ReadOutcome(c)
    <2>1. /\ callers'[c].at = "saveOutcome" /\ callers'[c].event = None
          /\ \A d \in Callers : d # c => callers'[d] = callers[d]
      BY <1>2 DEF ReadOutcome, RecordInv, Idle
    <2>2. UNCHANGED <<jobs, commits, workers, repeated, overlapped>>
      BY <1>2 DEF ReadOutcome, store, history
    <2>3. Sole' /\ CallerBinds(c)'
      BY <2>1, <2>2, SoleStays DEF BindInv, Mine, CallerBinds, Unqueued
    <2> QED BY <2>1, <2>2, <2>3, CallerKeepsBindings
  <1> QED BY <1>1, <1>2, AcceptKeepsBindings, ReadingsKeepBindings, SaveProblemKeepsBindings,
             SaveCommitKeepsBindings, SaveJobKeepsBindings
          DEF CallerStep

\* Workers: a job keeps its attempt, and a commit takes the attempt of the copy
\* that its worker checked.
LEMMA WorkerKeepsBindings ==
  ASSUME RecordInv, BindInv, NEW w \in Workers, UNCHANGED <<callers, repeated, overlapped>>,
         \A v \in Workers : v # w => workers'[v] = workers[v],
         \/ workers'[w].commit = None
         \/ /\ ~Does(w, "idle") /\ workers'[w].event = workers[w].event
            /\ workers'[w].commit \in {workers[w].commit, commits[workers[w].event]},
         \A e \in Events : IF jobs[e] = None THEN jobs'[e] = None
                           ELSE jobs'[e] # None /\ jobs'[e].attempt = jobs[e].attempt,
         \A e \in Events :
           \/ commits'[e] = commits[e]
           \/ /\ ~Does(w, "idle") /\ e = workers[w].event
              /\ \/ commits'[e].attempt = commits[e].attempt
                 \/ workers[w].commit # None /\ commits'[e].attempt = workers[w].commit.attempt
  PROVE  BindInv'
  <1>1. Sole'
    BY SoleStays DEF BindInv, Mine
  <1>2. ~Does(w, "idle") =>
          /\ workers[w].event \in Events /\ jobs[workers[w].event] # None
          /\ Clear(workers[w].event) => commits[workers[w].event].attempt = Job(w).attempt
    BY AtWork DEF BindInv, BindingsHold, Clear, Job
  <1>3. ~Does(w, "idle") /\ Clear(workers[w].event) /\ workers[w].commit # None
          => workers[w].commit.attempt = Job(w).attempt
    BY DEF BindInv, WorkerBinds
  <1>4. BindingsHold'
    BY <1>2, <1>3 DEF BindInv, BindingsHold, Clear, Job
  <1>5. ASSUME NEW c \in Callers PROVE CallerBinds(c)'
    <2>1. callers[c].at \in Unqueued => Mine(c) \in Events
      BY DEF RecordInv, StoreOK, TypeOK, CallerOK, Unqueued, Deciding, Accepted, Routing
    <2>2. Mine(c) \in Events /\ jobs[Mine(c)] = None
            => jobs'[Mine(c)] = None /\ commits'[Mine(c)] = commits[Mine(c)]
      BY <1>2
    <2> QED BY <2>1, <2>2 DEF BindInv, CallerBinds, Clear, Mine
  <1>6. ASSUME NEW v \in Workers PROVE WorkerBinds(v)'
    <2>1. ASSUME NEW e \in Events, jobs[e] # None PROVE jobs'[e].attempt = jobs[e].attempt
      BY <2>1
    <2>2. workers[v].commit # None => workers[v].event \in Events /\ Job(v) # None
      BY DEF RecordInv, WorkerOK, Does, Resting
    <2>3. CASE v # w
      BY <2>1, <2>2, <2>3 DEF BindInv, WorkerBinds, Clear, Job
    <2>4. CASE v = w
      BY <1>2, <1>3, <2>1, <2>4 DEF WorkerBinds, Clear, Job
    <2> QED BY <2>3, <2>4
  <1> QED BY <1>1, <1>4, <1>5, <1>6 DEF BindInv

LEMMA ClaimKeepsBindings ==
  ASSUME RecordInv, BindInv, NEW w \in Workers, NEW e \in Events, Claim(w, e)
  PROVE  BindInv'
  <1>1. /\ workers'[w].commit = None
        /\ \A v \in Workers : v # w => workers'[v] = workers[v]
    BY DEF Claim, RecordInv, Resting
  <1>2. /\ jobs[e] \in RouteJobs /\ jobs'[e] \in RouteJobs /\ jobs'[e].attempt = jobs[e].attempt
        /\ \A x \in Events : x # e => jobs'[x] = jobs[x]
    <2>1. jobs[e] \in RouteJobs /\ jobs[e].tries < MaxAttempts
      BY DEF Claim, RecordInv, StoreOK, TypeOK
    <2>2. jobs[e].tries + 1 \in 0..MaxAttempts
      BY <2>1, Fields, RouteSubmissionAssumption DEF RouteSubmissionAssumption
    <2> QED BY <2>1, <2>2 DEF Claim, RecordInv, StoreOK, TypeOK, RouteJobs
  <1>3. jobs'[e] # None
    BY <1>2, Fields
  <1> QED BY <1>1, <1>2, <1>3, WorkerKeepsBindings DEF Claim, history

\* Steps that change neither jobs nor commits
LEMMA QuietWorkerKeepsBindings ==
  ASSUME RecordInv, BindInv, NEW w \in Workers,
         \/ Take(w) \/ Bind(w) \/ SaveRunningProblem(w) \/ Run(w) \/ Finalize(w)
         \/ SaveFinalProblem(w) \/ ReadHeld(w) \/ Hold(w) \/ WorkerDies(w)
  PROVE  BindInv'
  <1>1. UNCHANGED <<jobs, commits, callers, repeated, overlapped>>
    BY DEF Take, Bind, SaveRunningProblem, Run, Finalize, SaveFinalProblem, ReadHeld, Hold,
           WorkerDies, store, history
  <1>2. ~Does(w, "idle")
    BY DEF Take, Bind, SaveRunningProblem, Run, Finalize, SaveFinalProblem, ReadHeld, Hold,
           WorkerDies, Does
  <1>3. /\ \A v \in Workers : v # w => workers'[v] = workers[v]
        /\ \/ workers'[w].commit = None
           \/ /\ workers'[w].event = workers[w].event
              /\ workers'[w].commit \in {workers[w].commit, commits[workers[w].event]}
    BY DEF Take, Bind, SaveRunningProblem, Run, Finalize, SaveFinalProblem, ReadHeld, Hold,
           WorkerDies, Turn, Resting, RecordInv, WorkerStates
  <1> QED BY <1>1, <1>2, <1>3, WorkerKeepsBindings

LEMMA CommittingWorkerKeepsBindings ==
  ASSUME RecordInv, BindInv, NEW w \in Workers,
         SaveRunningCommit(w) \/ SaveFinalCommit(w) \/ Requeue(w)
  PROVE  BindInv'
  <1>1. UNCHANGED <<jobs, callers, repeated, overlapped>>
    BY DEF SaveRunningCommit, SaveFinalCommit, Requeue, history
  <1>2. ~Does(w, "idle")
    BY DEF SaveRunningCommit, SaveFinalCommit, Requeue, Does
  <1>3. /\ \A v \in Workers : v # w => workers'[v] = workers[v]
        /\ \/ workers'[w].commit = None
           \/ workers'[w].event = workers[w].event /\ workers'[w].commit = workers[w].commit
    BY DEF SaveRunningCommit, SaveFinalCommit, Requeue, Turn, RecordInv, WorkerStates
  <1>4. /\ workers[w].event \in Events /\ commits \in [Events -> RouteCommits \cup {None}]
        /\ commits[workers[w].event] \in RouteCommits
    BY <1>2, AtWork DEF RecordInv, StoreOK, TypeOK
  <1>5. SaveRunningCommit(w) \/ SaveFinalCommit(w)
          => workers[w].commit # None /\ workers[w].commit \in RouteCommits
    BY <1>2, AtWork DEF SaveRunningCommit, SaveFinalCommit, RecordInv, WorkerOK, Does, WithCommit
  <1>6. /\ \A e \in Events : e # workers[w].event => commits'[e] = commits[e]
        /\ \/ commits'[workers[w].event].attempt = commits[workers[w].event].attempt
           \/ /\ workers[w].commit # None
              /\ commits'[workers[w].event].attempt = workers[w].commit.attempt
    BY <1>4, <1>5 DEF SaveRunningCommit, SaveFinalCommit, Requeue, RouteCommits
  <1> QED BY <1>1, <1>2, <1>3, <1>6, WorkerKeepsBindings

\* What a worker does to a job: it keeps the attempt, and others are left alone.
LEMMA OwnJobAttempt ==
  ASSUME RecordInv, NEW w \in Workers, Start(w) \/ Settle(w) \/ Fail(w)
  PROVE  /\ ~Does(w, "idle") /\ workers[w].event \in Events /\ Job(w) # None
         /\ \A e \in Events : e # workers[w].event => jobs'[e] = jobs[e]
         /\ jobs'[workers[w].event] # None
         /\ jobs'[workers[w].event].attempt = Job(w).attempt
  <1>1. ~Does(w, "idle")
    BY DEF Start, Settle, Fail, Does
  <1>2. Job(w) \in RouteJobs /\ workers[w].event \in Events
    BY <1>1, AtWork
  <1>3. \/ jobs' = jobs
        \/ \E j \in RouteJobs : /\ j.attempt = Job(w).attempt
                                /\ jobs' = [jobs EXCEPT ![workers[w].event] = j]
    <2>1. CASE Start(w)
      <3> DEFINE j == [Job(w) EXCEPT !.status = "running"]
      <3>1. j \in RouteJobs /\ j.attempt = Job(w).attempt
        BY <1>2 DEF RouteJobs
      <3> QED BY <2>1, <3>1 DEF Start, Job
    <2>2. CASE Settle(w)
      <3> DEFINE j == IF Succeeded(w) THEN [Job(w) EXCEPT !.status = "completed", !.holder = None]
                                      ELSE FailedJob(Job(w))
      <3>1. j \in RouteJobs /\ j.attempt = Job(w).attempt
        BY <1>2, FailedJobType DEF RouteJobs
      <3>2. jobs' = jobs \/ jobs' = [jobs EXCEPT ![workers[w].event] = j]
        BY <2>2 DEF Settle, Job
      <3> QED BY <3>1, <3>2
    <2>3. CASE Fail(w)
      BY <1>2, <2>3, FailedJobType DEF Fail, Job
    <2> QED BY <2>1, <2>2, <2>3
  <1> QED BY <1>1, <1>2, <1>3, Fields DEF RecordInv, StoreOK, TypeOK, Job

LEMMA JobWorkerKeepsBindings ==
  ASSUME RecordInv, BindInv, NEW w \in Workers, Start(w) \/ Settle(w) \/ Fail(w)
  PROVE  BindInv'
  <1>1. UNCHANGED <<commits, callers, repeated, overlapped>>
    BY DEF Start, Settle, Fail, history
  <1>2. /\ \A v \in Workers : v # w => workers'[v] = workers[v]
        /\ \/ workers'[w].commit = None
           \/ workers'[w].event = workers[w].event /\ workers'[w].commit = workers[w].commit
    BY DEF Start, Settle, Fail, Turn, Resting, RecordInv, WorkerStates
  <1>3. \A e \in Events : IF jobs[e] = None THEN jobs'[e] = None
                          ELSE jobs'[e] # None /\ jobs'[e].attempt = jobs[e].attempt
    BY OwnJobAttempt DEF Job
  <1> QED BY <1>1, <1>2, <1>3, OwnJobAttempt, WorkerKeepsBindings

LEMMA BindStep == RecordInv /\ BindInv /\ [Next]_vars => BindInv'
  <1> SUFFICES ASSUME RecordInv, BindInv, [Next]_vars PROVE BindInv'
    OBVIOUS
  <1>1. ASSUME UNCHANGED <<jobs, commits, callers, workers, repeated, overlapped>> PROVE BindInv'
    BY <1>1 DEF BindInv, Sole, BindingsHold, CallerBinds, WorkerBinds, Clear, Mine, Job
  <1>2. CASE (\E e \in Events : Ingest(e)) \/ UNCHANGED vars
    BY <1>1, <1>2 DEF Ingest, vars, store, history
  <1>3. ASSUME NEW c \in Callers,
               \/ CallerStep(c) \/ ReadOutcome(c) \/ CallerDies(c)
               \/ \E e \in Events, action \in Actions : Submit(c, e, action)
        PROVE  BindInv'
    BY <1>3, CallersKeepBindings, SubmitKeepsBindings
  <1>4. ASSUME NEW w \in Workers, WorkerStep(w) \/ WorkerDies(w) \/ \E e \in Events : Claim(w, e)
        PROVE  BindInv'
    BY <1>4, ClaimKeepsBindings, QuietWorkerKeepsBindings, CommittingWorkerKeepsBindings,
       JobWorkerKeepsBindings
    DEF WorkerStep
  <1> QED BY <1>2, <1>3, <1>4 DEF Next

\* A worker that claims a job finds the commit bound to it, whoever died half
\* way and whatever was submitted again before there was a job
\* (assertRouteJobBindings against upsertRouteJobForCommit).
THEOREM JobsStayBound == Spec => []BindingsHold
  <1>1. BindInv => BindingsHold
    BY DEF BindInv
  <1> QED BY <1>1, InitBindInv, BindStep, RecordInvariance, PTL DEF Spec

-----------------------------------------------------------------------------
\* Claims.  Every change of a job, and who makes it
JobChange(e) ==
  \/ jobs'[e] = jobs[e]
  \/ \E c \in Callers : /\ At(c, "saveJob") /\ Mine(c) = e /\ callers'[c].at = "finish"
                        /\ hosted => jobs[e] = None
                        /\ jobs'[e] = QueuedJob(c)
  \/ /\ jobs[e] # None /\ ~Finished(e)
     /\ jobs'[e].status = "claimed" /\ jobs'[e].tries = jobs[e].tries + 1
  \/ \E w \in Workers :
       /\ ~Does(w, "idle") /\ workers[w].event = e /\ Holds(w)
       /\ jobs'[e] \in {[jobs[e] EXCEPT !.status = "running"], FailedJob(jobs[e]),
                        [jobs[e] EXCEPT !.status = "completed", !.holder = None]}

LEMMA SaveJobChange ==
  ASSUME RecordInv, NEW c \in Callers, SaveJob(c), NEW e \in Events
  PROVE  JobChange(e)
  <1>1. callers'[c].at = "finish" /\ jobs \in [Events -> RouteJobs \cup {None}]
    BY DEF SaveJob, Go, RecordInv, CallerStates, StoreOK, TypeOK
  <1> QED BY <1>1 DEF SaveJob, JobChange

LEMMA ClaimChange ==
  ASSUME RecordInv, NEW w \in Workers, NEW e \in Events, Claim(w, e), NEW x \in Events
  PROVE  JobChange(x)
  <1>1. jobs \in [Events -> RouteJobs \cup {None}] /\ jobs[e] \in RouteJobs
    BY DEF Claim, RecordInv, StoreOK, TypeOK
  <1>2. x # e => jobs'[x] = jobs[x]
    BY <1>1 DEF Claim
  <1>3. jobs'[e] = [jobs[e] EXCEPT !.status = "claimed", !.holder = w, !.tries = @ + 1]
    BY <1>1 DEF Claim
  <1>4. jobs'[e].status = "claimed" /\ jobs'[e].tries = jobs[e].tries + 1
    BY <1>1, <1>3 DEF RouteJobs
  <1>5. jobs[e] # None /\ ~Finished(e)
    BY DEF Claim, Finished, InFlight
  <1> QED BY <1>2, <1>4, <1>5 DEF JobChange

LEMMA OwnJobChange ==
  ASSUME RecordInv, NEW w \in Workers, Start(w) \/ Settle(w) \/ Fail(w), NEW e \in Events
  PROVE  JobChange(e)
  <1>1. /\ ~Does(w, "idle") /\ workers[w].event \in Events
        /\ jobs \in [Events -> RouteJobs \cup {None}]
    BY OwnJobAttempt DEF RecordInv, StoreOK, TypeOK
  <1>2. e # workers[w].event => jobs'[e] = jobs[e]
    BY OwnJobAttempt
  <1>3. CASE e = workers[w].event
    BY <1>1, <1>3 DEF Start, Settle, Fail, JobChange
  <1> QED BY <1>2, <1>3 DEF JobChange

LEMMA StepChanges ==
  ASSUME RecordInv, [Next]_vars, NEW e \in Events
  PROVE  JobChange(e)
  <1>1. CASE jobs' = jobs
    BY <1>1 DEF JobChange
  <1>2. CASE (\E x \in Events : Ingest(x)) \/ UNCHANGED vars
    BY <1>1, <1>2 DEF Ingest, vars, store
  <1>3. ASSUME NEW c \in Callers,
               \/ CallerStep(c) \/ ReadOutcome(c) \/ CallerDies(c)
               \/ \E x \in Events, action \in Actions : Submit(c, x, action)
        PROVE  JobChange(e)
    <2>1. CASE SaveJob(c)
      BY <2>1, SaveJobChange
    <2>2. CASE ~SaveJob(c)
      BY <1>1, <1>3, <2>2
      DEF CallerStep, Reject, Accept, ReadProblem, SaveProblem, ListCommits, SaveCommit, GetJob,
          FinishRoute, SaveOutcome, ReadOutcome, CallerDies, Submit, store
    <2> QED BY <2>1, <2>2
  <1>4. ASSUME NEW w \in Workers, WorkerStep(w) \/ WorkerDies(w) \/ \E x \in Events : Claim(w, x)
        PROVE  JobChange(e)
    <2>1. CASE \E x \in Events : Claim(w, x)
      BY <2>1, ClaimChange
    <2>2. CASE Start(w) \/ Settle(w) \/ Fail(w)
      BY <2>2, OwnJobChange
    <2>3. CASE \/ Take(w) \/ Bind(w) \/ SaveRunningCommit(w) \/ SaveRunningProblem(w) \/ Run(w)
               \/ Finalize(w) \/ SaveFinalCommit(w) \/ SaveFinalProblem(w) \/ Requeue(w)
               \/ ReadHeld(w) \/ Hold(w) \/ WorkerDies(w)
      BY <1>1, <2>3
      DEF Take, Bind, SaveRunningCommit, SaveRunningProblem, Run, Finalize, SaveFinalCommit,
          SaveFinalProblem, Requeue, ReadHeld, Hold, WorkerDies, store
    <2> QED BY <1>4, <2>1, <2>2, <2>3 DEF WorkerStep
  <1> QED BY <1>2, <1>3, <1>4 DEF Next

LEMMA InitSaveInv == Init => SaveInv
  BY DEF Init, SaveInv, NoOverwrite, OpenIsFree, At, Idle

\* A caller is about to save a job if it was, or has just found none.
LEMMA ToSaveJob ==
  ASSUME RecordInv, [Next]_vars, NEW c \in Callers, callers'[c].at = "saveJob"
  PROVE  /\ callers'[c].event = Mine(c) /\ hosted' = hosted /\ overlapped \subseteq overlapped'
         /\ At(c, "saveJob") \/ (At(c, "getJob") /\ jobs[Mine(c)] = None)
  <1>1. hosted' = hosted /\ overlapped \subseteq overlapped'
    <2>1. CASE (\E e \in Events : Ingest(e)) \/ UNCHANGED vars
      BY <2>1 DEF Ingest, vars, store, history
    <2>2. ASSUME NEW d \in Callers,
                 \/ CallerStep(d) \/ ReadOutcome(d) \/ CallerDies(d)
                 \/ \E x \in Events, action \in Actions : Submit(d, x, action)
          PROVE  hosted' = hosted /\ overlapped \subseteq overlapped'
      BY <2>2
      DEF CallerStep, Reject, Accept, ReadProblem, SaveProblem, ListCommits, SaveCommit, GetJob,
          SaveJob, FinishRoute, SaveOutcome, ReadOutcome, CallerDies, Submit, store, history
    <2>3. ASSUME NEW w \in Workers, WorkerStep(w) \/ WorkerDies(w) \/ \E x \in Events : Claim(w, x)
          PROVE  hosted' = hosted /\ overlapped \subseteq overlapped'
      BY <2>3
      DEF WorkerStep, Take, Bind, Start, SaveRunningCommit, SaveRunningProblem, Run, Finalize,
          SaveFinalCommit, SaveFinalProblem, Settle, Fail, Requeue, ReadHeld, Hold, WorkerDies,
          Claim, store, history
    <2> QED BY <2>1, <2>2, <2>3 DEF Next
  <1>2. CASE callers' = callers
    BY <1>1, <1>2 DEF At, Mine
  <1>3. ASSUME NEW d \in Callers,
               \/ CallerStep(d) \/ ReadOutcome(d) \/ CallerDies(d)
               \/ \E x \in Events, action \in Actions : Submit(d, x, action)
        PROVE  /\ callers'[c].event = Mine(c)
               /\ At(c, "saveJob") \/ (At(c, "getJob") /\ jobs[Mine(c)] = None)
    <2>1. d # c => callers'[c] = callers[c]
      BY <1>3 DEF RecordInv, CallerStep, Reject, Accept, ReadProblem, SaveProblem, ListCommits,
                  SaveCommit, GetJob, SaveJob, FinishRoute, SaveOutcome, ReadOutcome, CallerDies,
                  Submit, Go
    <2>2. CASE d # c
      BY <2>1, <2>2 DEF At, Mine
    <2>3. CASE d = c
      <3>1. callers[c] \in CallerStates /\ callers \in [Callers -> CallerStates]
        BY DEF RecordInv
      <3>2. callers'[c] # Idle
        BY <2>3 DEF Idle
      <3>3. ~(Reject(c) \/ FinishRoute(c) \/ SaveOutcome(c) \/ CallerDies(c))
        BY <3>1, <3>2 DEF Reject, FinishRoute, SaveOutcome, CallerDies
      <3>4. ~ReadOutcome(c)
        BY <3>1 DEF ReadOutcome, Idle
      <3>5. ~(\E x \in Events, action \in Actions : Submit(c, x, action))
        BY <3>1 DEF Submit, Idle
      <3>6. ~(Accept(c) \/ ReadProblem(c) \/ ListCommits(c) \/ SaveCommit(c))
        BY <3>1 DEF Accept, ReadProblem, ListCommits, SaveCommit, CallerStates
      <3>7. ~SaveJob(c)
        BY <3>1 DEF SaveJob, Go, CallerStates
      <3>8. ~SaveProblem(c)
        <4>1. ASSUME NEW p, callers' = [callers EXCEPT ![c] = [callers[c] EXCEPT !.at = "listCommits",
                                                                            !.problem = p]]
              PROVE  callers'[c].at = "listCommits"
          BY <3>1, <4>1 DEF CallerStates
        <4>2. callers' = [callers EXCEPT ![c] = Idle] => callers'[c] = Idle
          BY <3>1
        <4>3. ASSUME SaveProblem(c)
              PROVE  \/ callers' = [callers EXCEPT ![c] = Idle]
                     \/ \E p : callers' = [callers EXCEPT ![c] = [callers[c] EXCEPT !.at = "listCommits",
                                                                                  !.problem = p]]
          BY <4>3 DEF SaveProblem
        <4>4. ~SaveProblem(c) \/ callers'[c] = Idle \/ callers'[c].at = "listCommits"
          BY <4>1, <4>2, <4>3
        <4> QED BY <3>2, <4>4
      <3>9. GetJob(c)
        BY <1>3, <2>3, <3>5, <3>6, <3>7, <3>3, <3>4, <3>8 DEF CallerStep
      <3> QED BY <3>1, <3>9 DEF GetJob, Go, Mine, At, CallerStates
    <2> QED BY <2>2, <2>3
  <1>4. CASE \/ \E e \in Events : Ingest(e)
             \/ \E w \in Workers :
                  WorkerStep(w) \/ WorkerDies(w) \/ \E e \in Events : Claim(w, e)
             \/ UNCHANGED vars
    BY <1>2, <1>4
    DEF Ingest, WorkerStep, Take, Bind, Start, SaveRunningCommit, SaveRunningProblem, Run,
        Finalize, SaveFinalCommit, SaveFinalProblem, Settle, Fail, Requeue, ReadHeld, Hold,
        WorkerDies, Claim, vars
  <1> QED BY <1>1, <1>3, <1>4 DEF Next

LEMMA SaveStep == RecordInv /\ BindInv /\ SaveInv /\ [Next]_vars => SaveInv'
  <1> SUFFICES ASSUME RecordInv, BindInv, SaveInv, [Next]_vars PROVE SaveInv'
    OBVIOUS
  <1>1. NoOverwrite'
    <2> SUFFICES ASSUME NEW c \in Callers, callers'[c].at = "saveJob", ~hosted',
                        callers'[c].event \notin overlapped'
                 PROVE  jobs'[callers'[c].event] = None
      BY DEF NoOverwrite, At, Mine, Endangered
    <2>1. /\ callers'[c].event = Mine(c) /\ ~hosted /\ Mine(c) \notin overlapped
          /\ callers[c].at \in {"getJob", "saveJob"} /\ jobs[Mine(c)] = None
      BY ToSaveJob DEF SaveInv, NoOverwrite, At, Endangered
    <2>2. Mine(c) \in Events
      BY <2>1, AloneWithIt
    <2>3. ASSUME NEW d \in Callers, Mine(d) = Mine(c) PROVE d = c
      BY <2>1, <2>2, <2>3 DEF BindInv, Sole
    <2>4. ASSUME NEW w \in Workers, ~Does(w, "idle"), workers[w].event = Mine(c) PROVE FALSE
      BY <2>1, <2>4, AtWork DEF Job
    <2> QED BY <2>1, <2>2, <2>3, <2>4, StepChanges DEF JobChange
  <1>2. OpenIsFree'
    <2> SUFFICES ASSUME NEW e \in Events, jobs'[e] # None, jobs'[e].status \notin InFlight
                 PROVE  jobs'[e].holder = None
      BY DEF OpenIsFree
    <2>1. jobs[e] \in RouteJobs \cup {None}
      BY DEF RecordInv, StoreOK, TypeOK
    <2>2. CASE jobs'[e] = jobs[e]
      BY <2>2 DEF SaveInv, OpenIsFree
    <2>3. ASSUME NEW c \in Callers, jobs'[e] = QueuedJob(c) PROVE jobs'[e].holder = None
      BY <2>3 DEF QueuedJob
    <2>4. ASSUME NEW w \in Workers, ~Does(w, "idle"), workers[w].event = e,
                 jobs'[e] \in {[jobs[e] EXCEPT !.status = "running"], FailedJob(jobs[e]),
                               [jobs[e] EXCEPT !.status = "completed", !.holder = None]}
          PROVE  jobs'[e].holder = None
      BY <2>1, <2>4, AtWork DEF FailedJob, RouteJobs, InFlight, Job
    <2> QED BY <2>2, <2>3, <2>4, StepChanges DEF JobChange, InFlight
  <1> QED BY <1>1, <1>2 DEF SaveInv

LEMMA ClaimStands ==
  ASSUME RecordInv, SaveInv, [Next]_vars, NEW e \in Events, jobs[e] # None, e \notin Endangered
  PROVE  jobs'[e].tries >= jobs[e].tries /\ (Finished(e) => jobs'[e] = jobs[e])
  <1>1. jobs[e] \in RouteJobs /\ jobs[e].tries \in Nat
    BY RouteSubmissionAssumption, Fields
    DEF RouteSubmissionAssumption, RecordInv, StoreOK, TypeOK, RouteJobs
  <1>2. ASSUME NEW c \in Callers, At(c, "saveJob"), Mine(c) = e, hosted => jobs[e] = None PROVE FALSE
    BY <1>2 DEF SaveInv, NoOverwrite
  <1>3. ASSUME NEW w \in Workers, ~Does(w, "idle"), workers[w].event = e, Holds(w),
               jobs'[e] \in {[jobs[e] EXCEPT !.status = "running"], FailedJob(jobs[e]),
                             [jobs[e] EXCEPT !.status = "completed", !.holder = None]}
        PROVE  jobs'[e].tries >= jobs[e].tries /\ ~Finished(e)
    <2>1. jobs'[e].tries = jobs[e].tries
      BY <1>1, <1>3 DEF FailedJob, RouteJobs
    <2>2. jobs[e].holder = w /\ w # None
      BY <1>3, Fields DEF Holds, Job
    <2>3. ~Finished(e)
      BY <2>2 DEF Finished, SaveInv, OpenIsFree, InFlight
    <2> QED BY <1>1, <2>1, <2>3
  <1>4. CASE jobs'[e] = jobs[e]
    BY <1>1, <1>4
  <1>5. CASE ~Finished(e) /\ jobs'[e].tries = jobs[e].tries + 1
    BY <1>1, <1>5
  <1>6. JobChange(e)
    BY StepChanges
  <1> QED BY <1>2, <1>3, <1>4, <1>5, <1>6 DEF JobChange

LEMMA SaveInvariance == Spec => [](RecordInv /\ BindInv /\ SaveInv)
  <1> QED BY InitBindInv, BindStep, InitSaveInv, SaveStep, RecordInvariance, PTL DEF Spec

\* No submission, repeated or overlapping in the hosted store, or repeated in
\* the file store, gives a job its attempts back or opens a finished one
\* (upsertRouteJobForCommit and the stores' saveRouteJob).
THEOREM SubmissionsLeaveClaims == Spec => ClaimsStand
  <1>1. RecordInv /\ BindInv /\ SaveInv /\ [Next]_vars =>
          [\A e \in Events : jobs[e] # None /\ e \notin Endangered =>
             jobs'[e].tries >= jobs[e].tries /\ (Finished(e) => jobs'[e] = jobs[e])]_vars
    BY ClaimStands
  <1> QED BY <1>1, SaveInvariance, PTL DEF Spec, ClaimsStand

-----------------------------------------------------------------------------
\* Runs.  While no worker dies, the one at work on a job holds it, so it is
\* alone with it, and a run of the job that completed is its own.
LEMMA InitOnceInv == Init => OnceInv
  BY DEF Init, OnceInv, HoldersWork, Resting, Holding, WithProblem, WithCommit

LEMMA OnlyHolder ==
  ASSUME RecordInv, OnceInv, workerDeaths = 0, NEW w \in Workers, workers[w].at \in Holding,
         workers[w].event \notin Endangered
  PROVE  /\ workers[w].event \in Events /\ Holds(w) /\ Job(w).status \in InFlight
         /\ \A v \in Workers : /\ workers[v].event = workers[w].event
                               /\ workers[v].at \in Holding
                               => v = w
         /\ runs[workers[w].event] = 0 \/ (runs[workers[w].event] = 1 /\ Recording(w, workers[w].event))
  <1>1. workers[w].event \in Events
    BY AtWork DEF Does, Holding, WithProblem, WithCommit
  <1>2. \A v \in Workers : /\ workers[v].event = workers[w].event /\ workers[v].at \in Holding
                           => Job(w).holder = v
    BY DEF OnceInv, HoldersWork, Holds, Job
  <1>3. Holds(w) /\ Job(w).status \in InFlight
    BY DEF OnceInv, HoldersWork
  <1>4. \A v \in Workers : /\ workers[v].event = workers[w].event /\ workers[v].at \in Holding
                           => v = w
    BY <1>2, <1>3 DEF Holds
  <1>5. \A v \in Workers : Recording(v, workers[w].event) => v = w
    BY <1>4 DEF Recording, Holding, WithProblem, WithCommit
  <1>6. ~(jobs[workers[w].event].status = "completed")
    BY <1>3 DEF Job, InFlight
  <1> QED BY <1>1, <1>3, <1>4, <1>5, <1>6 DEF OnceInv, Ran

\* A step of the worker that holds a job
LEMMA HolderKeepsOnce ==
  ASSUME RecordInv, OnceInv, NEW w \in Workers, workers[w].at \in Holding, NEW e \in Events,
         e = workers[w].event, UNCHANGED <<hosted, overlapped, workerDeaths>>,
         \A v \in Workers : v # w => workers'[v] = workers[v],
         \A x \in Events : x # e => jobs'[x] = jobs[x] /\ runs'[x] = runs[x],
         workers'[w].at \in Holding => workers'[w].event = e,
         workerDeaths = 0 /\ e \notin Endangered =>
           /\ workers'[w].at \in Holding => jobs'[e].holder = w /\ jobs'[e].status \in InFlight
           /\ \/ runs'[e] = 0
              \/ /\ runs'[e] = 1
                 /\ (jobs'[e] # None /\ jobs'[e].status = "completed") \/ Recording(w, e)'
  PROVE  OnceInv'
  <1> SUFFICES ASSUME workerDeaths = 0
               PROVE  /\ HoldersWork'
                      /\ \A x \in Events \ Endangered' : runs'[x] = 0 \/ (runs'[x] = 1 /\ Ran(x)')
    BY DEF OnceInv
  <1>1. Endangered' = Endangered
    BY DEF Endangered
  <1>2. ASSUME NEW v \in Workers, workers'[v].at \in Holding, workers'[v].event \notin Endangered
        PROVE  (Holds(v) /\ Job(v).status \in InFlight)'
    <2>1. CASE v = w
      BY <1>2, <2>1 DEF Holds, Job
    <2>2. CASE v # w
      <3>1. workers'[v] = workers[v] /\ workers[v].event \in Events
        BY <1>2, <2>2, OnlyHolder
      <3>2. workers[v].event # e
        BY <1>2, <2>2, <3>1, OnlyHolder
      <3> QED BY <1>2, <3>1, <3>2, OnlyHolder DEF Holds, Job
    <2> QED BY <2>1, <2>2
  <1>3. ASSUME NEW x \in Events, x \notin Endangered
        PROVE  runs'[x] = 0 \/ (runs'[x] = 1 /\ Ran(x)')
    <2>1. CASE x = e
      BY <1>3, <2>1 DEF Ran
    <2>2. CASE x # e
      <3>1. runs[x] = 0 \/ (runs[x] = 1 /\ Ran(x))
        BY <1>3 DEF OnceInv
      <3>2. Ran(x) => Ran(x)'
        BY <2>2 DEF Ran, Recording
      <3> QED BY <2>2, <3>1, <3>2
    <2> QED BY <2>1, <2>2
  <1> QED BY <1>1, <1>2, <1>3 DEF HoldersWork

\* A step of a worker, or a caller, that is at work on no job
LEMMA OthersKeepOnce ==
  ASSUME RecordInv, OnceInv, hosted' = hosted, overlapped \subseteq overlapped',
         UNCHANGED <<runs, workerDeaths>>,
         \A e \in Events \ Endangered : jobs[e] # None => jobs'[e] = jobs[e],
         \A v \in Workers : \/ workers'[v] = workers[v]
                            \/ workers[v].at \notin Holding /\ workers'[v].at \notin Holding
  PROVE  OnceInv'
  <1> SUFFICES ASSUME workerDeaths = 0
               PROVE  /\ HoldersWork'
                      /\ \A x \in Events \ Endangered' : runs'[x] = 0 \/ (runs'[x] = 1 /\ Ran(x)')
    BY DEF OnceInv
  <1>1. Endangered \subseteq Endangered'
    BY DEF Endangered
  <1>2. ASSUME NEW v \in Workers, workers'[v].at \in Holding, workers'[v].event \notin Endangered'
        PROVE  (Holds(v) /\ Job(v).status \in InFlight)'
    <2>1. workers'[v] = workers[v] /\ workers[v].event \notin Endangered
      BY <1>1, <1>2
    <2>2. workers[v].event \in Events /\ Job(v) # None
      BY <1>2, <2>1, AtWork DEF Does, Holding, WithProblem, WithCommit
    <2>3. jobs'[workers[v].event] = jobs[workers[v].event]
      BY <2>1, <2>2 DEF Job
    <2> QED BY <1>2, <2>1, <2>3, OnlyHolder DEF Holds, Job
  <1>3. ASSUME NEW x \in Events, x \notin Endangered'
        PROVE  runs'[x] = 0 \/ (runs'[x] = 1 /\ Ran(x)')
    <2>1. x \notin Endangered /\ (runs[x] = 0 \/ (runs[x] = 1 /\ Ran(x)))
      BY <1>1, <1>3 DEF OnceInv
    <2>2. ASSUME NEW v \in Workers, Recording(v, x) PROVE Recording(v, x)'
      BY <2>2 DEF Recording, Holding, WithProblem, WithCommit
    <2>3. Ran(x) => Ran(x)'
      BY <1>3, <2>1, <2>2 DEF Ran
    <2> QED BY <2>1, <2>3
  <1> QED BY <1>2, <1>3 DEF HoldersWork

\* A claim takes a job that nobody is at work on.
LEMMA ClaimKeepsOnce ==
  ASSUME RecordInv, OnceInv, NEW w \in Workers, NEW e \in Events, Claim(w, e)
  PROVE  OnceInv'
  <1> SUFFICES ASSUME workerDeaths = 0
               PROVE  /\ HoldersWork'
                      /\ \A x \in Events \ Endangered' : runs'[x] = 0 \/ (runs'[x] = 1 /\ Ran(x)')
    BY DEF OnceInv, Claim, counters
  <1>1. /\ hosted' = hosted /\ overlapped' = overlapped /\ runs' = runs
        /\ \A v \in Workers : v # w => workers'[v] = workers[v]
        /\ workers[w].at = "idle" /\ workers'[w].at = "take" /\ workers'[w].event = e
    BY DEF Claim, history, Does, RecordInv, Resting
  <1>2. /\ \A x \in Events : x # e => jobs'[x] = jobs[x]
        /\ jobs'[e].holder = w /\ jobs'[e].status = "claimed"
    <2>1. jobs \in [Events -> RouteJobs \cup {None}] /\ jobs[e] \in RouteJobs
      BY DEF Claim, RecordInv, StoreOK, TypeOK
    <2> QED BY <2>1 DEF Claim, RouteJobs
  <1>3. Endangered' = Endangered
    BY <1>1 DEF Endangered
  <1>4. ASSUME e \notin Endangered, NEW v \in Workers, workers[v].at \in Holding,
               workers[v].event = e
        PROVE  FALSE
    <2>1. jobs[e].holder = v /\ jobs[e].status \in InFlight
      BY <1>4, OnlyHolder DEF Holds, Job
    <2> QED BY <1>4, <2>1 DEF Claim, Attended, InFlight
  <1>5. ASSUME NEW v \in Workers, workers'[v].at \in Holding, workers'[v].event \notin Endangered
        PROVE  (Holds(v) /\ Job(v).status \in InFlight)'
    <2>1. CASE v = w
      BY <1>1, <1>2, <2>1 DEF Holds, Job, InFlight
    <2>2. CASE v # w
      <3>1. workers'[v] = workers[v] /\ workers[v].event \in Events
        BY <1>1, <1>5, <2>2, OnlyHolder
      <3>2. workers[v].event # e
        BY <1>4, <1>5, <3>1
      <3> QED BY <1>2, <1>5, <3>1, <3>2, OnlyHolder DEF Holds, Job
    <2> QED BY <2>1, <2>2
  <1>6. ASSUME NEW x \in Events, x \notin Endangered
        PROVE  runs'[x] = 0 \/ (runs'[x] = 1 /\ Ran(x)')
    <2>1. runs[x] = 0 \/ (runs[x] = 1 /\ Ran(x))
      BY <1>6 DEF OnceInv
    <2>2. ASSUME NEW v \in Workers, Recording(v, x) PROVE x # e /\ Recording(v, x)'
      BY <1>1, <1>4, <1>6, <2>2 DEF Recording, Holding, WithProblem, WithCommit
    <2>3. jobs[e].status # "completed"
      BY DEF Claim, InFlight
    <2>4. Ran(x) => Ran(x)'
      BY <1>2, <2>2, <2>3 DEF Ran
    <2> QED BY <1>1, <2>1, <2>4
  <1> QED BY <1>3, <1>5, <1>6 DEF HoldersWork

\* The worker that runs a job had no run of it that completed.
LEMMA RunKeepsOnce ==
  ASSUME RecordInv, OnceInv, NEW w \in Workers, Run(w)
  PROVE  OnceInv'
  <1> DEFINE e == workers[w].event
  <1>1. /\ workers[w].at = "run" /\ workers[w].at \in Holding /\ e \in Events
        /\ runs \in [Events -> Nat]
    BY AtWork DEF Run, Does, Holding, WithProblem, WithCommit, RecordInv, StoreOK
  <1>2. /\ UNCHANGED <<hosted, overlapped, workerDeaths, jobs>>
        /\ \A v \in Workers : v # w => workers'[v] = workers[v]
        /\ workers'[w].event = e
    BY DEF Run, Turn, counters, RecordInv, WorkerStates
  <1>3. \A x \in Events : x # e => runs'[x] = runs[x]
    BY <1>1 DEF Run
  <1>4. ASSUME workerDeaths = 0, e \notin Endangered
        PROVE  /\ jobs'[e].holder = w /\ jobs'[e].status \in InFlight
               /\ runs'[e] = 0 \/ (runs'[e] = 1 /\ Recording(w, e)')
    <2>1. jobs'[e].holder = w /\ jobs'[e].status \in InFlight /\ runs[e] = 0
      BY <1>1, <1>2, <1>4, OnlyHolder DEF Holds, Job, Recording
    <2>2. CASE runs'[e] = runs[e]
      BY <2>1, <2>2
    <2>3. CASE runs'[e] # runs[e]
      <3>1. runs'[e] = runs[e] + 1 /\ workers'[w].at = "finalize" /\ workers'[w].result = "COMPLETED"
        BY <1>1, <2>3 DEF Run, RecordInv, WorkerStates
      <3> QED BY <1>2, <2>1, <3>1 DEF Recording
    <2> QED BY <2>1, <2>2, <2>3
  <1> QED BY <1>1, <1>2, <1>3, <1>4, HolderKeepsOnce

\* The job's holder goes on without touching it.
LEMMA QuietHolderKeepsOnce ==
  ASSUME RecordInv, OnceInv, NEW w \in Workers,
         \/ Take(w) \/ Bind(w) \/ SaveRunningCommit(w) \/ SaveRunningProblem(w)
         \/ Finalize(w) \/ SaveFinalCommit(w) \/ SaveFinalProblem(w)
  PROVE  OnceInv'
  <1>1. workers[w].at \in Holding /\ workers[w].event \in Events
    BY AtWork DEF Take, Bind, SaveRunningCommit, SaveRunningProblem, Finalize, SaveFinalCommit,
                  SaveFinalProblem, Does, Holding, WithProblem, WithCommit
  <1> PICK e \in Events : e = workers[w].event
    BY <1>1
  <1>2. /\ UNCHANGED <<hosted, overlapped, workerDeaths, jobs, runs>>
        /\ \A v \in Workers : v # w => workers'[v] = workers[v]
    BY DEF Take, Bind, SaveRunningCommit, SaveRunningProblem, Finalize, SaveFinalCommit,
           SaveFinalProblem, Turn, counters, history, store, RecordInv
  <1>3. workers'[w] # Resting => workers'[w].event = e /\ workers'[w].result = workers[w].result
    BY DEF Take, Bind, SaveRunningCommit, SaveRunningProblem, Finalize, SaveFinalCommit,
           SaveFinalProblem, Turn, RecordInv, WorkerStates
  <1>4. workers'[w].at \in Holding => workers'[w] # Resting
    BY DEF Resting, Holding, WithProblem, WithCommit
  <1>5. ASSUME workerDeaths = 0, e \notin Endangered
        PROVE  /\ jobs'[e].holder = w /\ jobs'[e].status \in InFlight
               /\ runs'[e] = 0 \/ (runs'[e] = 1 /\ Recording(w, e)')
    <2>1. /\ jobs'[e].holder = w /\ jobs'[e].status \in InFlight /\ Holds(w)
          /\ runs[e] = 0 \/ (runs[e] = 1 /\ Recording(w, e))
      BY <1>1, <1>2, <1>5, OnlyHolder DEF Holds, Job
    <2>2. ASSUME Recording(w, e) PROVE Recording(w, e)'
      <3>1. Finalize(w) \/ SaveFinalCommit(w) \/ SaveFinalProblem(w)
        BY <2>2 DEF Recording, Take, Bind, SaveRunningCommit, SaveRunningProblem, Does
      <3>2. workers'[w].at \in {"saveFinalCommit", "saveFinalProblem", "settle"}
        BY <2>1, <3>1 DEF Finalize, SaveFinalCommit, SaveFinalProblem, Turn, RecordInv, WorkerStates
      <3> QED BY <1>3, <2>2, <3>2 DEF Recording, Resting
    <2> QED BY <1>2, <2>1, <2>2
  <1> QED BY <1>1, <1>2, <1>3, <1>4, <1>5, HolderKeepsOnce

\* The holder writes to its job: it starts it, or lets go of it at the end, of
\* a completed one as completed.
LEMMA StartKeepsOnce ==
  ASSUME RecordInv, OnceInv, NEW w \in Workers, Start(w)
  PROVE  OnceInv'
  <1> DEFINE e == workers[w].event
  <1>1. workers[w].at = "start" /\ workers[w].at \in Holding /\ Job(w) \in RouteJobs
    BY AtWork DEF Start, Does, Holding, WithProblem, WithCommit
  <1>2. /\ UNCHANGED <<hosted, overlapped, workerDeaths, runs>>
        /\ \A v \in Workers : v # w => workers'[v] = workers[v]
        /\ workers'[w].event = e
    BY DEF Start, Turn, counters, history, RecordInv, WorkerStates
  <1>3. e \in Events /\ \A x \in Events : x # e => jobs'[x] = jobs[x]
    BY OwnJobAttempt
  <1>4. ASSUME workerDeaths = 0, e \notin Endangered
        PROVE  jobs'[e].holder = w /\ jobs'[e].status \in InFlight /\ runs'[e] = 0
    <2>1. Holds(w) /\ runs[e] = 0
      BY <1>1, <1>4, OnlyHolder DEF Recording
    <2>2. jobs' = [jobs EXCEPT ![e].status = "running"]
      BY <2>1 DEF Start
    <2> QED BY <1>1, <1>2, <1>3, <2>1, <2>2
            DEF RecordInv, StoreOK, TypeOK, RouteJobs, Holds, Job, InFlight
  <1> QED BY <1>1, <1>2, <1>3, <1>4, HolderKeepsOnce

LEMMA EndKeepsOnce ==
  ASSUME RecordInv, OnceInv, NEW w \in Workers, Settle(w) \/ Fail(w)
  PROVE  OnceInv'
  <1> DEFINE e == workers[w].event
  <1>1. /\ workers[w].at \in Holding /\ Job(w) \in RouteJobs
        /\ Settle(w) => workers[w].at = "settle"
        /\ Fail(w) => workers[w].at = "fail"
    BY AtWork DEF Settle, Fail, Does, Holding, WithProblem, WithCommit
  <1>2. /\ UNCHANGED <<hosted, overlapped, workerDeaths, runs>>
        /\ \A v \in Workers : v # w => workers'[v] = workers[v]
    BY DEF Settle, Fail, Turn, counters, history, RecordInv
  <1>3. e \in Events /\ jobs'[e] # None /\ \A x \in Events : x # e => jobs'[x] = jobs[x]
    BY OwnJobAttempt
  <1>4. workers'[w].at \notin Holding
    BY DEF Settle, Fail, Turn, RecordInv, Resting, Holding, WithProblem, WithCommit, WorkerStates
  <1>5. ASSUME workerDeaths = 0, e \notin Endangered
        PROVE  runs'[e] = 0 \/ (runs'[e] = 1 /\ jobs'[e].status = "completed")
    <2>1. Holds(w) /\ (runs[e] = 0 \/ (runs[e] = 1 /\ Recording(w, e)))
      BY <1>1, <1>5, OnlyHolder
    <2>2. CASE ~Recording(w, e)
      BY <1>2, <2>1, <2>2
    <2>3. CASE Recording(w, e)
      <3>1. Settle(w) /\ Succeeded(w)
        BY <1>1, <2>3 DEF Recording, Succeeded
      <3>2. jobs' = [jobs EXCEPT ![e] = [@ EXCEPT !.status = "completed", !.holder = None]]
        BY <2>1, <3>1 DEF Settle
      <3> QED BY <1>1, <1>2, <1>3, <2>1, <3>2 DEF RecordInv, StoreOK, TypeOK, RouteJobs, Job
    <2> QED BY <2>2, <2>3
  <1>6. \A x \in Events : x # e => jobs'[x] = jobs[x] /\ runs'[x] = runs[x]
    BY <1>2, <1>3
  <1>7. workerDeaths = 0 /\ e \notin Endangered =>
          \/ runs'[e] = 0
          \/ runs'[e] = 1 /\ jobs'[e] # None /\ jobs'[e].status = "completed"
    BY <1>3, <1>5
  <1> HIDE DEF e
  <1>8. workers[w].event = e
    BY DEF e
  <1> QED BY <1>1, <1>2, <1>3, <1>4, <1>6, <1>7, <1>8, HolderKeepsOnce

LEMMA CallersKeepOnce ==
  ASSUME RecordInv, SaveInv, OnceInv, NEW c \in Callers,
         \/ CallerStep(c) \/ ReadOutcome(c) \/ CallerDies(c)
         \/ \E e \in Events, action \in Actions : Submit(c, e, action)
  PROVE  OnceInv'
  <1>1. /\ UNCHANGED <<hosted, workers, runs, workerDeaths>> /\ overlapped \subseteq overlapped'
        /\ jobs' = jobs \/ SaveJob(c)
    BY DEF CallerStep, Reject, Accept, ReadProblem, SaveProblem, ListCommits, SaveCommit, GetJob,
           SaveJob, FinishRoute, SaveOutcome, ReadOutcome, CallerDies, Submit, store, counters,
           history
  <1>2. ASSUME SaveJob(c), NEW e \in Events \ Endangered, jobs[e] # None PROVE jobs'[e] = jobs[e]
    <2>1. hosted \/ Mine(c) \in Endangered \/ jobs[Mine(c)] = None
      BY <1>2 DEF SaveInv, NoOverwrite, SaveJob
    <2>2. jobs \in [Events -> RouteJobs \cup {None}]
      BY DEF RecordInv, StoreOK, TypeOK
    <2> QED BY <1>2, <2>1, <2>2 DEF SaveJob
  <1> QED BY <1>1, <1>2, OthersKeepOnce

LEMMA OnceStep == RecordInv /\ SaveInv /\ OnceInv /\ [Next]_vars => OnceInv'
  <1> SUFFICES ASSUME RecordInv, SaveInv, OnceInv, [Next]_vars PROVE OnceInv'
    OBVIOUS
  <1>1. CASE (\E e \in Events : Ingest(e)) \/ UNCHANGED vars
    BY <1>1, OthersKeepOnce DEF Ingest, vars, store, counters, history
  <1>2. ASSUME NEW w \in Workers, Requeue(w) \/ ReadHeld(w) \/ Hold(w) PROVE OnceInv'
    <2>1. /\ UNCHANGED <<hosted, overlapped, workerDeaths, jobs, runs>>
          /\ \A v \in Workers : v # w => workers'[v] = workers[v]
      BY <1>2 DEF Requeue, ReadHeld, Hold, Turn, counters, history, store, RecordInv
    <2>2. workers[w].at \notin Holding /\ workers'[w].at \notin Holding
      BY <1>2 DEF Requeue, ReadHeld, Hold, Turn, Does, RecordInv, Resting, Holding, WithProblem,
                  WithCommit, WorkerStates
    <2> QED BY <2>1, <2>2, OthersKeepOnce
  <1>3. ASSUME NEW w \in Workers, WorkerDies(w) PROVE OnceInv'
    <2>1. workerDeaths' \in Nat /\ workerDeaths' # 0
      BY <1>3 DEF WorkerDies, OnceInv
    <2> QED BY <2>1 DEF OnceInv
  <1>4. ASSUME NEW w \in Workers, WorkerStep(w) \/ WorkerDies(w) \/ \E e \in Events : Claim(w, e)
        PROVE  OnceInv'
    BY <1>2, <1>3, <1>4, ClaimKeepsOnce, RunKeepsOnce, QuietHolderKeepsOnce, StartKeepsOnce,
       EndKeepsOnce
    DEF WorkerStep
  <1> QED BY <1>1, <1>4, CallersKeepOnce DEF Next

\* However often and by whomever a decision is submitted, and whoever among the
\* submitters dies, the event's loop completes at most once: while no worker
\* dies a claim takes nobody's job (claimRouteJobCandidates), and a completed
\* job is not opened again (upsertRouteJobForCommit).
THEOREM EventsRunOnce == Spec => []RunsOnce
  <1>1. RecordInv /\ OnceInv => RunsOnce
    BY DEF OnceInv, RunsOnce, RecordInv, StoreOK
  <1>2. OnceInv /\ RecordInv /\ SaveInv /\ [Next]_vars => OnceInv'
    BY OnceStep
  <1> QED BY <1>1, <1>2, InitOnceInv, SaveInvariance, PTL DEF Spec
=============================================================================
