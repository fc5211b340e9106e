---------------------------- MODULE AppLifecycle ----------------------------
(***************************************************************************)
(* The life of one installed App                                           *)
(* (runtime/app-installation-service.ts): install, configure, repair,      *)
(* update, rollback, activate, pause, resume and uninstall, each of which  *)
(* writes to stores that share no transaction:                             *)
(*                                                                         *)
(*   inst, journal, approvals   the installation registry, one document    *)
(*               with a revision, changed under a mutation lease; of the   *)
(*               revision the model keeps who has read the present one     *)
(*               (lib/db/adapters/supabase-app-installation-store.ts; the  *)
(*               file store has a lock file instead);                      *)
(*   own         the LoopSpecs of the App in the LoopSpec registry, which  *)
(*               has a revision and receipts of its own                    *)
(*               (runtime/loop-spec-store.ts);                             *)
(*   consumer    whether field mappings and company context name the App   *)
(*               as a consumer.                                            *)
(* What other Apps and the outside do to an operation is in two more:      *)
(*   sharers     the other Apps that own some of its assets too, which is  *)
(*               all they can change of its ownership digest;              *)
(*   evidence    what its activation gate finds in its favour.             *)
(*                                                                         *)
(* An operation is journaled first and finished last: between the two it   *)
(* may fail, or its process die, at any call, and whoever repeats the same *)
(* request takes it up.                                                    *)
(*                                                                         *)
(* Of an App the model keeps the version (with its compiled LoopSpecs),    *)
(* state and mode, the instant of its last change and what its history can *)
(* be rolled back to.  An overlay and a repair differ in the data alone and  *)
(* are one action, "repair".  Actors are not told apart, plans do not      *)
(* expire, and the company context does not change under an install.       *)
(***************************************************************************)
EXTENDS Naturals, Sequences, FiniteSets

CONSTANTS
  Callers,      \* processes that may be in a lifecycle call at the same time
  None,         \* no installation, no LoopSpecs, no holder
  Dead,         \* holder of a lease whose process died
  Plans,        \* install plans, all for version 1 of the App
  OtherApps,    \* Apps of the workspace that may own the same assets
  Evidence,     \* what an activation gate may find
  LastVersion,  \* versions of the App are 1..LastVersion
  MaxRequests,  \* bound of the model: requests other than exact retries
  MaxFaults,    \* bound of the model: failing calls, dying processes, leases outlasted
  MaxForeign    \* bound of the model: changes of the workspace by others

Rollouts == {"shadow", "recommend", "execute_with_approval"}
States == {"ready_to_test", "simulation_passed", "broken", "rolled_back", "paused"}
            \cup Rollouts
Versions == 1..LastVersion

\* An installed App, at the instant of its last change, and the LoopSpecs it owns.
Installations ==
  [version : Versions, state : States, mode : Rollouts \cup {"simulation"}, at : Nat,
   past : Seq([version : Versions, reason : {"configure", "repair", "update"}])]
Loops == [version : Versions, routing : Rollouts]

ASSUME AppLifecycleAssumption ==
  /\ LastVersion \in Nat \ {0}
  /\ None \notin Installations /\ None \notin Loops
  /\ None \notin Callers /\ Dead \notin Callers /\ None # Dead
  /\ MaxRequests \in Nat /\ MaxFaults \in Nat /\ MaxForeign \in Nat

VARIABLES
  inst, journal, approvals, current, lease,
  own, graphRevision, receipts, consumer,
  sharers, evidence,
  callers, requests, faults, foreign,
  reapplied,    \* history: a finished install is applied once more
  late          \* history: loops or consumers were written without the lease

registry == <<inst, journal, approvals, current>>
graph == <<own, graphRevision, receipts>>
world == <<sharers, evidence>>
bounds == <<requests, faults, foreign>>
histories == <<reapplied, late>>
vars == <<registry, lease, graph, consumer, world, callers, bounds, histories>>

Unfinished == {o \in journal : o.status # "completed"}

\* Mutant of Compiled: the new loops route as the old ones did.
CompiledInMode(v) ==
  [version |-> v, routing |-> IF own = None THEN "shadow" ELSE own.routing]

\* Loops of a version as prepareInstalledSpec compiles them.
Compiled(v) == [version |-> v, routing |-> "shadow"]

-----------------------------------------------------------------------------
\* Requests.  An operation has a key, which is all a repeated request has to
\* share with the first, the installation it starts from (src) and arrives at
\* (dst), and the loops before (from) and after (to).  The key holds the
\* ownership digest, but not that of an install, a configure or a rollout.
BindsOwnership(action) == action \in {"repair", "update", "rollback", "uninstall"}

Operation(action, subject, dst, to) ==
  [action |-> action,
   key |-> <<action, subject, IF BindsOwnership(action) THEN sharers ELSE {}>>,
   src |-> inst, dst |-> dst, from |-> own, to |-> to, status |-> "prepared"]

\* Back to write-blocked testing, with the present version in the history.
Retested(reason, v, now) ==
  [inst EXCEPT !.version = v, !.state = "ready_to_test", !.mode = "simulation",
               !.at = now,
               !.past = Append(@, [version |-> inst.version, reason |-> reason])]

Install(now) ==
  {Operation("install", p, [version |-> 1, state |-> "ready_to_test",
                            mode |-> "simulation", at |-> now, past |-> << >>],
             Compiled(1)) : p \in Plans}

Configure(now) ==
  {Operation("configure", inst, Retested("configure", inst.version, now), own)}

Repair(now) ==
  {Operation("repair", inst, Retested("repair", inst.version, now),
             Compiled(inst.version))}

Update(now) ==
  {Operation("update", inst, Retested("update", v, now), Compiled(v)) :
     v \in {inst.version + 1} \cap Versions}

Rollback(now) ==
  {Operation("rollback", inst,
             [inst EXCEPT !.version = inst.past[n].version, !.state = "rolled_back",
                          !.mode = "simulation", !.at = now,
                          !.past = SubSeq(@, 1, n - 1)],
             Compiled(inst.past[n].version)) : n \in {Len(inst.past)} \ {0}}

Uninstall == {Operation("uninstall", inst, None, None)}

\* rolloutTransitionIntent: a pause keeps the mode for the resume.
Pause(now) ==
  {Operation("pause", inst, [inst EXCEPT !.state = "paused", !.at = now], None) :
     s \in {inst.state} \cap Rollouts}

Resume(now) ==
  {Operation("resume", inst, [inst EXCEPT !.state = inst.mode, !.at = now], None) :
     s \in {inst.state} \cap {"paused"}}

\* assertActivationReady: an unused approval for this version and state, given
\* after the last change of the App (its instant is among the evidence).
Usable(a, i) == ~a.used /\ a.version = i.version /\ a.state = i.state /\ a.at = i.at

Activate(now) ==
  {Operation("activate", a,
             [inst EXCEPT !.state = a.mode, !.mode = a.mode, !.at = now], None) :
     a \in {b \in approvals : Usable(b, inst) /\ b.evidence \subseteq evidence}}

Requested(now) ==
  Install(now) \cup
  IF inst = None THEN {}
  ELSE Configure(now) \cup Repair(now) \cup Update(now) \cup Rollback(now)
         \cup Uninstall \cup Pause(now) \cup Resume(now) \cup Activate(now)

-----------------------------------------------------------------------------
\* Mutant of RoutingFor: a pause leaves the loops in their mode.
RoutingOfMode(o) == o.dst.mode

\* The routing mode that a rollout gives to the loops of the App.
RoutingFor(o) == IF o.action = "pause" THEN "shadow" ELSE o.dst.mode

IsRollout(o) == o.action \in {"activate", "pause", "resume"}
Rebuilds(o) == o.action \in {"repair", "update", "rollback"}

\* assertLifecyclePreparationSource knows no source of an install or a rollout.
SourceChecked(o) == ~IsRollout(o) /\ o.action # "install"

\* Mutant of SourceHolds: an operation is journaled whatever became of its source.
AnySource(o) == TRUE

\* What others may change under an unfinished operation: of an activation the
\* evidence it was approved on, of the others the ownership digest.
Supported(o) ==
  /\ BindsOwnership(o.action) => o.key[3] = sharers
  /\ o.action = "activate" => o.key[2].evidence \subseteq evidence

SourceHolds(o) == SourceChecked(o) => inst = o.src /\ Supported(o)

\* What an operation compares under the lease before it changes anything, with
\* Supported.
Fits(o, i) ==
  CASE o.action = "install" -> (i # None => i.version = 1)
    [] o.action = "activate" ->
         (i # None /\ o.key[2] \in approvals /\ Usable(o.key[2], i))
    [] o.action \in {"pause", "resume"} ->
         i # None /\ \A f \in {"version", "state", "mode", "at"} : i[f] = o.src[f]
    [] OTHER -> i = o.src

Entry(o) == CHOOSE k \in journal : k.key = o.key
WithEntry(o, status) ==
  {k \in journal : k.key # o.key} \cup {[Entry(o) EXCEPT !.status = status]}

Idle == [at |-> "idle", op |-> None, graphRevision |-> 0, write |-> None]

At(c, label) == callers[c].at = label
Go(c, label) == callers' = [callers EXCEPT ![c].at = label]
Stop(c) == callers' = [callers EXCEPT ![c] = Idle]

-----------------------------------------------------------------------------
\* A fresh request reads the registry.  A repeated one is told from a fresh one
\* by its key, which it works out anew from the registry (but for an install,
\* whose plan is its key).
Ask(c) ==
  /\ At(c, "idle") /\ requests < MaxRequests
  /\ requests' = requests + 1
  /\ \E o \in Requested(requests + 1) :
       /\ \A k \in journal : k.key # o.key
       /\ callers' = [callers EXCEPT ![c] = [Idle EXCEPT !.at = "prepare", !.op = o]]
  /\ UNCHANGED <<registry, lease, graph, consumer, world, faults, foreign, histories>>

Retry(c) ==
  /\ At(c, "idle")
  /\ \E o \in Unfinished :
       /\ o.action = "install" \/ (Fits(o, inst) /\ Supported(o))
       /\ callers' = [callers EXCEPT ![c] = [Idle EXCEPT !.at = "prepare", !.op = o]]
  /\ UNCHANGED <<registry, lease, graph, consumer, world, bounds, histories>>

\* prepareLifecycleOperation, which holds the lease for as long as it takes to
\* read and write the registry.
Intent(o) == [o EXCEPT !.status = "prepared"]

\* Mutant of Prepare: another unfinished operation does not matter.
PrepareBesides(c) ==
  /\ At(c, "prepare") /\ lease = None /\ SourceHolds(callers[c].op)
  /\ callers[c].op.key \notin {k.key : k \in journal}
  /\ journal' = journal \cup {callers[c].op} /\ current' = {}
  /\ Go(c, "enter")
  /\ UNCHANGED <<inst, approvals, lease, graph, consumer, world, bounds, histories>>

Prepare(c) ==
  /\ At(c, "prepare") /\ lease = None
  /\ LET o == callers[c].op
         known == {k \in journal : k.key = o.key} IN
       /\ SourceHolds(o)
       /\ \A k \in known : SourceChecked(o) => Intent(k) = Intent(o)
       /\ \/ /\ known = {} /\ Unfinished = {}
             /\ journal' = journal \cup {o} /\ current' = {}
             /\ Go(c, "enter")
          \/ /\ \E k \in known : k.status = "prepared"
             /\ Go(c, "enter") /\ UNCHANGED <<journal, current>>
          \/ /\ \E k \in known : k.status = "requires_reconciliation"
             /\ journal' = WithEntry(o, "prepared") /\ current' = {}
             /\ Go(c, "enter")
          \/ /\ \E k \in known : k.status = "completed"
             /\ Stop(c) /\ UNCHANGED <<journal, current>>
  /\ UNCHANGED <<inst, approvals, lease, graph, consumer, world, bounds, histories>>

\* Busy, another operation unfinished, the source or the intent changed.
RefusePreparation(c) ==
  /\ At(c, "prepare")
  /\ LET o == callers[c].op
         known == {k \in journal : k.key = o.key} IN
       \/ lease # None
       \/ ~SourceHolds(o)
       \/ \E k \in known : SourceChecked(o) /\ Intent(k) # Intent(o)
       \/ (known = {} /\ Unfinished # {})
  /\ Stop(c)
  /\ UNCHANGED <<registry, lease, graph, consumer, world, bounds, histories>>

\* The exclusive update: the lease, and what is compared under it.  Every
\* operation but an install asks for a record that is not completed.
StillOpen(o) == o.action = "install" \/ Entry(o).status # "completed"
RegistryOnly(o) == o.action = "configure" \/ (o.action = "install" /\ inst # None)

Enter(c) ==
  LET o == callers[c].op IN
  /\ At(c, "enter") /\ lease = None
  /\ StillOpen(o) /\ Fits(o, inst) /\ Supported(o)
  /\ lease' = c
  /\ current' = current \cup {c}
  /\ Go(c, IF RegistryOnly(o) THEN "commit" ELSE "read")
  /\ reapplied' = (reapplied \/ (inst = None /\ Entry(o).status = "completed"))
  /\ UNCHANGED <<inst, journal, approvals, graph, consumer, world, bounds, late>>

RefuseEntry(c) ==
  LET o == callers[c].op IN
  /\ At(c, "enter")
  /\ lease # None \/ ~StillOpen(o) \/ ~Fits(o, inst) \/ ~Supported(o)
  /\ Go(c, "mark")
  /\ UNCHANGED <<registry, lease, graph, consumer, world, bounds, histories>>

-----------------------------------------------------------------------------
\* What is left to do to the loops, given those that are there: nothing (if
\* they have the form they shall have), a write, or an error.
Rerouted(o) == IF own = None THEN None ELSE [own EXCEPT !.routing = RoutingFor(o)]
Target(o) == IF IsRollout(o) THEN Rerouted(o) ELSE o.to
Writes(o) ==
  CASE o.action = "install" -> TRUE
    [] IsRollout(o) -> Target(o) # own
    [] o.action = "uninstall" -> own = o.from /\ own # None
    [] OTHER -> own = o.from

\* Mutant of Drifted: loops that are already as they shall be have drifted.
DriftedOnceWritten(o) ==
  IF IsRollout(o) THEN own = None ELSE o.action # "install" /\ own # o.from

Drifted(o) ==
  CASE o.action = "install" -> FALSE
    [] IsRollout(o) -> own = None
    [] OTHER -> own \notin {o.from, o.to}

After(o) == IF o.action \in {"install", "uninstall"} THEN "consume" ELSE "commit"

ReadGraph(c) ==
  LET o == callers[c].op IN
  /\ At(c, "read") /\ ~Drifted(o)
  /\ callers' = [callers EXCEPT ![c].graphRevision = graphRevision,
                                ![c].write = Target(o),
                                ![c].at = IF Writes(o) THEN "write" ELSE After(o)]
  /\ UNCHANGED <<registry, lease, graph, consumer, world, bounds, histories>>

\* commitMaterializationAtomically: a key that is on record writes nothing.
CommitKey(c) ==
  IF IsRollout(callers[c].op)
  THEN <<"rollout", callers[c].write, callers[c].graphRevision>>
  ELSE callers[c].op.key

Recorded(c) == {r \in receipts : r.key = CommitKey(c)}

\* Neither this store nor the consumer lists ask for the lease.
Overtaken(c) == late' = (late \/ lease # c)

Materialize(c, next) ==
  /\ At(c, "write")
  /\ \/ /\ \E r \in Recorded(c) : r.loops = callers[c].write
        /\ UNCHANGED <<graph, late>>
     \/ /\ Recorded(c) = {} /\ graphRevision = callers[c].graphRevision
        /\ own' = callers[c].write
        /\ graphRevision' = graphRevision + 1
        /\ receipts' = receipts \cup {[key |-> CommitKey(c), loops |-> callers[c].write]}
        /\ Overtaken(c)
  /\ Go(c, next)
  /\ UNCHANGED <<registry, lease, consumer, world, bounds, reapplied>>

WriteGraph(c) ==
  Materialize(c, IF Rebuilds(callers[c].op) \/ callers[c].op.action = "uninstall"
                 THEN "verify" ELSE After(callers[c].op))

Verify(c) ==
  /\ At(c, "verify") /\ own = callers[c].op.to
  /\ Go(c, After(callers[c].op))
  /\ UNCHANGED <<registry, lease, graph, consumer, world, bounds, histories>>

\* Field mappings and company context learn of their new or former consumer.
Consume(c) ==
  /\ At(c, "consume")
  /\ consumer' = (callers[c].op.action = "install")
  /\ Go(c, "commit") /\ Overtaken(c)
  /\ UNCHANGED <<registry, lease, graph, world, bounds, reapplied>>

\* An error in the update: the lease is given back and the operation marked.
GivenBack(c) == IF lease = c THEN None ELSE lease

RefuseGraph(c) ==
  LET o == callers[c].op IN
  /\ \/ (At(c, "read") /\ Drifted(o))
     \/ /\ At(c, "write")
        /\ IF Recorded(c) = {} THEN graphRevision # callers[c].graphRevision
                               ELSE \A r \in Recorded(c) : r.loops # callers[c].write
     \/ (At(c, "verify") /\ own # o.to)
  /\ lease' = GivenBack(c)
  /\ Go(c, "mark")
  /\ UNCHANGED <<registry, graph, consumer, world, bounds, histories>>

-----------------------------------------------------------------------------
\* The commit of the registry ends the operation.  A rollout changes three
\* fields of the installation it finds, the others write the one they prepared.
\* (The instant of a rollout is that of the call that finishes it; one operation
\* is finished once, and instants are compared for equality alone.)
Finished(o) ==
  IF o.action = "install" /\ inst # None THEN inst
  ELSE IF IsRollout(o) THEN [inst EXCEPT !.state = o.dst.state, !.mode = o.dst.mode,
                                         !.at = o.dst.at]
  ELSE o.dst

CommitRegistry(c) ==
  LET o == callers[c].op IN
  /\ At(c, "commit") /\ lease = c /\ c \in current
  /\ inst' = Finished(o)
  /\ journal' = WithEntry(o, "completed")
  /\ approvals' = IF o.action = "activate"
                  THEN (approvals \ {o.key[2]}) \cup {[o.key[2] EXCEPT !.used = TRUE]}
                  ELSE approvals
  /\ current' = {} /\ lease' = None
  /\ Stop(c)
  /\ UNCHANGED <<graph, consumer, world, bounds, histories>>

RefuseCommit(c) ==
  /\ At(c, "commit") /\ (lease # c \/ c \notin current)
  /\ Go(c, "mark")
  /\ UNCHANGED <<registry, lease, graph, consumer, world, bounds, histories>>

\* markLifecycleOperationInterrupted: the best that can be done, or nothing.
Mark(c) ==
  /\ At(c, "mark")
  /\ IF lease = None /\ Entry(callers[c].op).status # "completed"
     THEN /\ journal' = WithEntry(callers[c].op, "requires_reconciliation")
          /\ current' = {}
     ELSE UNCHANGED <<journal, current>>
  /\ Stop(c)
  /\ UNCHANGED <<inst, approvals, lease, graph, consumer, world, bounds, histories>>

-----------------------------------------------------------------------------
\* Operators: a conformance test and an approval are single registry updates,
\* refused while an operation is unfinished.
Operable == inst # None /\ Unfinished = {} /\ lease = None

Test(passed) ==
  /\ Operable /\ requests < MaxRequests
  /\ inst.state \in {"ready_to_test", "simulation_passed", "shadow", "rolled_back"}
  /\ inst' = [inst EXCEPT !.state = IF passed THEN "simulation_passed" ELSE "broken",
                          !.at = requests + 1]
  /\ current' = {} /\ requests' = requests + 1
  /\ UNCHANGED <<journal, approvals, lease, graph, consumer, world, callers, faults,
                 foreign, histories>>

\* assertLifecycleTransition
Allowed(state) ==
  CASE state = "simulation_passed" -> {"shadow"}
    [] state = "shadow" -> {"recommend"}
    [] state = "recommend" -> {"execute_with_approval"}
    [] state = "paused" -> Rollouts
    [] OTHER -> {}

Approve(mode) ==
  /\ Operable /\ requests < MaxRequests
  /\ mode \in Allowed(inst.state) /\ evidence # {}
  /\ approvals' = approvals \cup
       {[id |-> requests + 1, version |-> inst.version, state |-> inst.state,
         at |-> inst.at, mode |-> mode, evidence |-> evidence, used |-> FALSE]}
  /\ current' = {} /\ requests' = requests + 1
  /\ UNCHANGED <<inst, journal, lease, graph, consumer, world, callers, faults,
                 foreign, histories>>

\* Another App changes the workspace that all LoopSpecs share.
ForeignCommit ==
  /\ foreign < MaxForeign /\ foreign' = foreign + 1
  /\ graphRevision' = graphRevision + 1
  /\ UNCHANGED <<registry, lease, own, receipts, consumer, world, callers, requests,
                 faults, histories>>

\* Another App commits to the registry, and comes to own some of the assets of
\* this one too, or ceases to (mergeAssetOwnership, releaseOwnedAssets).
ForeignOwnership ==
  /\ foreign < MaxForeign /\ foreign' = foreign + 1
  /\ lease = None
  /\ sharers' \in SUBSET OtherApps \ {sharers}
  /\ current' = {}
  /\ UNCHANGED <<inst, journal, approvals, lease, graph, consumer, evidence, callers,
                 requests, faults, histories>>

\* What the activation gate finds changes: a route of Hermes is applied or
\* fails, a run is judged, a record is out of date.
EvidenceChanges ==
  /\ foreign < MaxForeign /\ foreign' = foreign + 1
  /\ evidence' \in SUBSET Evidence \ {evidence}
  /\ UNCHANGED <<registry, lease, graph, consumer, sharers, callers, requests, faults,
                 histories>>

\* A call to a store fails, and the error leaves the update; or the process
\* dies.  Then the lease runs out; in the file store somebody removes the lock.
InUpdate(c) == callers[c].at \in {"read", "write", "verify", "consume", "commit"}

StoreFails(c) ==
  /\ InUpdate(c) /\ faults < MaxFaults
  /\ faults' = faults + 1
  /\ lease' = GivenBack(c) /\ Go(c, "mark")
  /\ UNCHANGED <<registry, graph, consumer, world, requests, foreign, histories>>

Crash(c) ==
  /\ ~At(c, "idle") /\ faults < MaxFaults
  /\ faults' = faults + 1
  /\ lease' = IF lease = c THEN Dead ELSE lease
  /\ Stop(c)
  /\ UNCHANGED <<registry, graph, consumer, world, requests, foreign, histories>>

LeaseRunsOut ==
  /\ lease = Dead /\ lease' = None
  /\ UNCHANGED <<registry, graph, consumer, world, callers, bounds, histories>>

\* Nobody renews a lease: a slow caller goes on without it.
Outlast(c) ==
  /\ lease = c /\ lease' = None /\ faults < MaxFaults
  /\ faults' = faults + 1
  /\ UNCHANGED <<registry, graph, consumer, world, callers, requests, foreign, histories>>

-----------------------------------------------------------------------------
\* Any App that is at rest: not installed, under test, paused or active.  (Owners
\* are compared for equality alone: it starts without others.)
Granted(mode) ==
  [id |-> 0, version |-> 1, state |-> "paused", at |-> 0, mode |-> mode,
   evidence |-> Evidence, used |-> TRUE]
Resting(state, mode) ==
  [version |-> 1, state |-> state, mode |-> mode, at |-> 0, past |-> << >>]
Atrest == {Resting("simulation_passed", "simulation"), Resting("paused", "recommend"),
           Resting("recommend", "recommend")}

Init ==
  /\ \/ inst = None /\ own = None /\ consumer = FALSE /\ approvals = {}
     \/ /\ inst \in Atrest /\ consumer = TRUE
        /\ own = [version |-> 1,
                  routing |-> IF inst.state \in Rollouts THEN inst.state ELSE "shadow"]
        /\ approvals = IF inst.mode \in Rollouts THEN {Granted(inst.mode)} ELSE {}
  /\ journal = {} /\ current = {} /\ lease = None
  /\ graphRevision = 0 /\ receipts = {}
  /\ sharers = {} /\ evidence = Evidence
  /\ callers = [c \in Callers |-> Idle]
  /\ requests = 0 /\ faults = 0 /\ foreign = 0 /\ reapplied = FALSE /\ late = FALSE

Steps(c) ==
  \/ Prepare(c) \/ RefusePreparation(c) \/ Enter(c) \/ RefuseEntry(c)
  \/ ReadGraph(c) \/ WriteGraph(c) \/ Verify(c) \/ Consume(c) \/ RefuseGraph(c)
  \/ CommitRegistry(c) \/ RefuseCommit(c) \/ Mark(c)

Next ==
  \/ \E c \in Callers : Ask(c) \/ Retry(c) \/ Steps(c)
                       \/ StoreFails(c) \/ Crash(c) \/ Outlast(c)
  \/ \E passed \in BOOLEAN : Test(passed)
  \/ \E mode \in Rollouts : Approve(mode)
  \/ ForeignCommit \/ ForeignOwnership \/ EvidenceChanges \/ LeaseRunsOut

Spec == Init /\ [][Next]_vars

\* A call goes on, an interrupted operation is asked for again, a lease ends.
FairSpec ==
  /\ Spec
  /\ \A c \in Callers : WF_vars(Steps(c)) /\ WF_vars(Retry(c))
  /\ WF_vars(LeaseRunsOut)

-----------------------------------------------------------------------------
\* The shape of the two registries, and the journal's rule: of one App at most
\* one operation is unfinished, and no two records have the same key.
TypeOK ==
  /\ inst \in Installations \cup {None} /\ own \in Loops \cup {None}
  /\ lease \in Callers \cup {None, Dead} /\ consumer \in BOOLEAN
  /\ Cardinality(Unfinished) <= 1
  /\ \A o, k \in journal : o.key = k.key => o = k

\* The two registries and the consumer lists agree whenever no operation is
\* unfinished, whatever failed or died on the way: LoopSpecs are there exactly
\* for an installed App, of its version, and route in the mode it is active in,
\* in shadow when it is not.  Left out are an App whose last change was a
\* configure, and one whose loops were Overwritten; a caller that outlasts its
\* lease without writing elsewhere does no harm, for it finishes nothing.
Overwritten == reapplied \/ late
RoutingOf(i) == IF i.state \in Rollouts THEN i.state ELSE "shadow"
Reconfigured(i) ==
  /\ i.state \notin Rollouts \cup {"paused"} /\ i.past # << >>
  /\ i.past[Len(i.past)].reason = "configure"

RegistriesAgree ==
  Unfinished = {} /\ ~Overwritten =>
    /\ (inst = None) <=> (own = None)
    /\ consumer <=> (inst # None)
    /\ inst # None => /\ own.version = inst.version
                      /\ own.routing = RoutingOf(inst) \/ Reconfigured(inst)

\* An unfinished configure, repair, update, rollback or uninstall can be taken
\* up again, as far as it lies with this App: its installation is the one the
\* operation starts from, and the loops are those before it or those after it.
\* What other Apps can take from it is its ownership digest (Supported).
Recoverable ==
  \A o \in Unfinished :
    SourceChecked(o) /\ ~Overwritten => inst = o.src /\ own \in {o.from, o.to}

\* Loops route above shadow only in a mode an operator approved for their
\* version, at every moment of an update, a rollback or a failed rollout.
RoutesOnlyAsApproved ==
  own # None /\ own.routing # "shadow" /\ ~late =>
    \E a \in approvals : a.version = own.version /\ a.mode = own.routing

\* An interrupted operation is finished in the end.  The code does not see to
\* it in three cases, and the operation blocks the App: for as long as another
\* App shares what it did not, or no longer shares what it did; for as long as
\* evidence of an approval is missing; and for ever, if an install or a rollout
\* does not fit the installation or a rollout finds no loops.
Wedged(o) ==
  \/ ~Supported(o)
  \/ ~SourceChecked(o) /\ (~Fits(o, inst) \/ (IsRollout(o) /\ own = None))

RecoveryEnds == []<>(Unfinished = {} \/ Overwritten \/ \E o \in Unfinished : Wedged(o))
=============================================================================
