------------------------- MODULE AppLifecycleProofs -------------------------
(***************************************************************************)
(* Theorems about AppLifecycle, for any callers, plans, versions and       *)
(* bounds: the journal has one unfinished operation at most, LoopSpecs     *)
(* route as approved, the registries agree when nothing is unfinished, and *)
(* an interrupted operation finds what it started from.                    *)
(*                                                                         *)
(* None of the four is inductive.  LifecycleInv adds, in this order:       *)
(*   CoreInv     types, approved modes, the journal, prepared calls, and   *)
(*               what the holder of the lease may rely on: the installation*)
(*               it compared, and the loops but for what it wrote itself;  *)
(*   VersionInv  the loops are of the installed version or of the one that *)
(*               the unfinished operation has written;                     *)
(*   AgreeInv, ReceiptInv, WorkInv                                         *)
(*               what is left of the agreement while an operation is under *)
(*               way, and what its holder has done to restore it;          *)
(*   InstantInv, FromInv                                                   *)
(*               operations arrive at instants of their own, so that the   *)
(*               installation a slow caller started from never comes back, *)
(*               and with it loops that are not those it read.             *)
(*                                                                         *)
(* The steps are taken by what they do (StepKinds): most of them Keep the  *)
(* registry, the loops and the consumer lists as they are.                 *)
(***************************************************************************)
EXTENDS AppLifecycle, SequenceTheorems, FiniteSetTheorems, TLAPS

\* The kinds, the statuses and the places of an operation and its call.
Actions == {"install", "configure", "repair", "update", "rollback", "uninstall",
            "pause", "resume", "activate"}
Statuses == {"prepared", "requires_reconciliation", "completed"}
Labels == {"idle", "prepare", "enter", "read", "write", "verify", "consume", "commit",
           "mark"}
Maybe(S) == S \cup {None}

\* Approvals, and the records of the journal.
Approvals ==
  [id : Nat, version : Versions, state : States, at : Nat, mode : Rollouts,
   evidence : SUBSET Evidence, used : BOOLEAN]

Records ==
  [action : Actions,
   key : Actions \X (Plans \cup Installations \cup Approvals) \X SUBSET OtherApps,
   src : Maybe(Installations), dst : Maybe(Installations),
   from : Maybe(Loops), to : Maybe(Loops), status : Statuses]

\* What an operation of each kind arrives at.
Shape(o) ==
  /\ o.key[1] = o.action
  /\ o.action # "install" => o.src \in Installations
  /\ o.action # "uninstall" => o.dst \in Installations
  /\ o.action = "install" =>
       o.dst.version = 1 /\ o.dst.state = "ready_to_test" /\ o.to = Compiled(1)
  /\ o.action = "configure" =>
       o.dst.version = o.src.version /\ Reconfigured(o.dst) /\ o.to = o.from
  /\ Rebuilds(o) =>
       o.dst.state \in {"ready_to_test", "rolled_back"} /\ o.to = Compiled(o.dst.version)
  /\ o.action = "uninstall" => o.dst = None /\ o.to = None
  /\ o.action \in {"pause", "resume"} =>
       o.dst.mode = o.src.mode /\ o.dst.mode \in Rollouts
  /\ o.action = "pause" => o.src.state \in Rollouts /\ o.dst.state = "paused"
  /\ o.action = "resume" => o.src.state = "paused" /\ o.dst.state = o.src.mode
  /\ o.action = "activate" =>
       /\ o.key[2] \in Approvals
       /\ o.dst.state = o.key[2].mode /\ o.dst.mode = o.key[2].mode

OpOK(o) == o \in Records /\ Shape(o)

\* Records that differ in their status alone.
Alike(o, k) ==
  /\ o.action = k.action /\ o.key = k.key /\ o.src = k.src /\ o.dst = k.dst
  /\ o.from = k.from /\ o.to = k.to

\* The state of a caller, and the types of all variables.
Calls == [at : Labels, op : Maybe(Records), graphRevision : Nat, write : Maybe(Loops)]

TypeInv ==
  /\ inst \in Maybe(Installations) /\ own \in Maybe(Loops)
  /\ approvals \subseteq Approvals
  /\ sharers \subseteq OtherApps /\ evidence \subseteq Evidence
  /\ \A o \in journal : OpOK(o)
  /\ lease \in Callers \cup {None, Dead}
  /\ callers \in [Callers -> Calls]
  /\ \A c \in Callers : ~At(c, "idle") => OpOK(callers[c].op)
  /\ graphRevision \in Nat /\ requests \in Nat
  /\ consumer \in BOOLEAN /\ late \in BOOLEAN /\ reapplied \in BOOLEAN

\* A mode above testing is one that an operator approved for the version.
ModeInv ==
  inst # None /\ inst.state \in Rollouts \cup {"paused"} =>
    /\ inst.mode \in Rollouts
    /\ inst.state \in Rollouts => inst.mode = inst.state
    /\ \E a \in approvals : a.version = inst.version /\ a.mode = inst.mode

-----------------------------------------------------------------------------
\* The assumptions on the constants, under one name.
LEMMA Constants ==
  /\ LastVersion \in Nat \ {0}
  /\ None \notin Installations /\ None \notin Loops
  /\ None \notin Callers /\ Dead \notin Callers /\ None # Dead
  /\ MaxRequests \in Nat /\ MaxFaults \in Nat /\ MaxForeign \in Nat
  /\ 1 \in Versions
  BY AppLifecycleAssumption DEF AppLifecycleAssumption, Versions

\* Compiled loops are loops of their version, in shadow.
LEMMA CompiledIsLoops ==
  ASSUME NEW v \in Versions
  PROVE  Compiled(v) \in Loops /\ Compiled(v).version = v /\ Compiled(v).routing = "shadow"
  BY DEF Compiled, Loops, Rollouts

\* What goes back to write-blocked testing is an installation, of the version
\* and instant given, and remembers why.
LEMMA RetestedFields ==
  ASSUME inst \in Installations, NEW now \in Nat, NEW v \in Versions,
         NEW reason \in {"configure", "repair", "update"}
  PROVE  /\ Retested(reason, v, now) \in Installations
         /\ Retested(reason, v, now).version = v
         /\ Retested(reason, v, now).at = now
         /\ Retested(reason, v, now).state = "ready_to_test"
         /\ reason = "configure" => Reconfigured(Retested(reason, v, now))
<1> DEFINE e == [version |-> inst.version, reason |-> reason]
           E == [version : Versions, reason : {"configure", "repair", "update"}]
           r == Retested(reason, v, now)
<1>1. inst.past \in Seq(E) /\ e \in E
  BY DEF Installations
<1>2. /\ Append(inst.past, e) \in Seq(E)
      /\ Len(Append(inst.past, e)) = Len(inst.past) + 1
      /\ Append(inst.past, e)[Len(inst.past) + 1] = e
      /\ Append(inst.past, e) # << >>
  BY <1>1, AppendProperties
<1>3. /\ r.version = v /\ r.at = now /\ r.state = "ready_to_test"
      /\ r.mode = "simulation" /\ r.past = Append(inst.past, e)
  BY DEF Retested, Installations
<1>4. r \in Installations
  <2>1. "ready_to_test" \in States BY DEF States
  <2>2. Append(inst.past, e) \in Seq(E) BY <1>2
  <2> HIDE DEF e, E
  <2> QED BY <2>1, <2>2 DEF Installations, Retested, E, e
<1>5. ASSUME reason = "configure" PROVE Reconfigured(r)
  <2>1. r.past[Len(r.past)].reason = "configure"
    BY <1>2, <1>3, <1>5
  <2> QED BY <1>2, <1>3, <2>1 DEF Reconfigured, Rollouts
<1> QED BY <1>3, <1>4, <1>5

\* What a rollback arrives at is an installation of the version before.
LEMMA RolledBackFields ==
  ASSUME inst \in Installations, NEW now \in Nat, Len(inst.past) \in Nat \ {0}
  PROVE  LET n == Len(inst.past)
             r == [inst EXCEPT !.version = inst.past[n].version, !.state = "rolled_back",
                               !.mode = "simulation", !.at = now,
                               !.past = SubSeq(@, 1, n - 1)]
         IN  /\ r \in Installations /\ r.version = inst.past[n].version
             /\ r.at = now /\ r.state = "rolled_back" /\ r.version \in Versions
<1> DEFINE E == [version : Versions, reason : {"configure", "repair", "update"}]
           n == Len(inst.past)
           r == [inst EXCEPT !.version = inst.past[n].version, !.state = "rolled_back",
                             !.mode = "simulation", !.at = now,
                             !.past = SubSeq(@, 1, n - 1)]
<1>1. inst.past \in Seq(E)
  BY DEF Installations
<1>2. inst.past[n] \in E
  <2> HIDE DEF E
  <2> QED BY <1>1, ElementOfSeq
<1>3. SubSeq(inst.past, 1, n - 1) \in Seq(E)
  <2>1. \A i \in 1 .. n - 1 : inst.past[i] \in E
    <3>1. \A i \in 1 .. n - 1 : i \in 1 .. n OBVIOUS
    <3> HIDE DEF E
    <3> QED BY <1>1, <3>1, ElementOfSeq
  <2> HIDE DEF E
  <2> QED BY <2>1, SubSeqProperties
<1>4. /\ r.version = inst.past[n].version /\ r.at = now /\ r.state = "rolled_back"
      /\ r.mode = "simulation" /\ r.past = SubSeq(inst.past, 1, n - 1)
  BY DEF Installations
<1>5. "rolled_back" \in States BY DEF States
<1> QED BY <1>2, <1>3, <1>4, <1>5 DEF Installations

\* What a fresh request starts from.
LEMMA RequestFields ==
  ASSUME NEW now, NEW o \in Requested(now)
  PROVE  /\ o.src = inst /\ o.from = own /\ o.status = "prepared"
         /\ inst = None => o.action = "install"
         /\ o = [action |-> o.action, key |-> o.key, src |-> o.src, dst |-> o.dst,
                 from |-> o.from, to |-> o.to, status |-> o.status]
<1>1. PICK action, key, dst, to : o = Operation(action, key, dst, to)
  BY DEF Requested, Install, Configure, Repair, Update, Rollback, Uninstall, Pause,
         Resume, Activate
<1>2. inst = None => o.action = "install"
  BY DEF Requested, Install, Operation
<1> QED BY <1>1, <1>2 DEF Operation

\* Every request is a sound record, and its instant is now.
LEMMA RequestShape ==
  ASSUME TypeInv, ModeInv, NEW now \in Nat, NEW o \in Requested(now)
  PROVE  OpOK(o) /\ (o.dst # None => o.dst.at = now)
<1> USE Constants
<1>0. ASSUME NEW a \in Actions, NEW x \in Plans \cup Installations \cup Approvals,
             NEW d \in Maybe(Installations), NEW t \in Maybe(Loops)
      PROVE  /\ Operation(a, x, d, t) \in Records
             /\ Operation(a, x, d, t).key[1] = a /\ Operation(a, x, d, t).key[2] = x
             /\ Operation(a, x, d, t).action = a /\ Operation(a, x, d, t).dst = d
             /\ Operation(a, x, d, t).to = t /\ Operation(a, x, d, t).src = inst
             /\ Operation(a, x, d, t).from = own
  BY DEF Operation, Records, Statuses, TypeInv, Maybe
<1>1. CASE o \in Install(now)
  <2> DEFINE d == [version |-> 1, state |-> "ready_to_test", mode |-> "simulation",
                   at |-> now, past |-> << >>]
  <2>1. PICK p \in Plans : o = Operation("install", p, d, Compiled(1))
    BY <1>1 DEF Install
  <2>2. d \in Installations
    <3>1. << >> \in Seq([version : Versions, reason : {"configure", "repair", "update"}])
      BY EmptySeq
    <3> QED BY <3>1 DEF Installations, States
  <2>3. Compiled(1) \in Loops
    BY CompiledIsLoops
  <2>4. "install" \in Actions BY DEF Actions
  <2>5. d.version = 1 /\ d.state = "ready_to_test" /\ d.at = now
    OBVIOUS
  <2> HIDE DEF d
  <2> QED BY <2>1, <2>2, <2>3, <2>4, <2>5, <1>0 DEF OpOK, Shape, Rebuilds, IsRollout, Maybe
<1>2. ASSUME inst # None, o \in Requested(now) \ Install(now)
      PROVE  OpOK(o) /\ (o.dst # None => o.dst.at = now)
  <2>0. inst \in Installations /\ own \in Maybe(Loops) /\ inst.version \in Versions
    BY <1>2 DEF TypeInv, Maybe, Installations
  <2>1. CASE o \in Configure(now)
    <3> DEFINE d == Retested("configure", inst.version, now)
    <3>1. o = Operation("configure", inst, d, own)
      BY <2>1 DEF Configure
    <3>2. d \in Installations /\ d.version = inst.version /\ d.at = now /\ Reconfigured(d)
      BY <2>0, RetestedFields
    <3>3. "configure" \in Actions BY DEF Actions
    <3> HIDE DEF d
    <3> QED BY <3>1, <3>2, <3>3, <2>0, <1>0 DEF OpOK, Shape, Rebuilds, IsRollout, Maybe
  <2>2. CASE o \in Repair(now)
    <3> DEFINE d == Retested("repair", inst.version, now)
    <3>1. o = Operation("repair", inst, d, Compiled(inst.version))
      BY <2>2 DEF Repair
    <3>2. /\ d \in Installations /\ d.version = inst.version /\ d.at = now
          /\ d.state = "ready_to_test"
      BY <2>0, RetestedFields
    <3>3. "repair" \in Actions BY DEF Actions
    <3>4. Compiled(inst.version) \in Loops BY <2>0, CompiledIsLoops
    <3> HIDE DEF d
    <3> QED BY <3>1, <3>2, <3>3, <3>4, <2>0, <1>0 DEF OpOK, Shape, Rebuilds, IsRollout, Maybe
  <2>3. CASE o \in Update(now)
    <3>1. PICK v \in Versions :
            o = Operation("update", inst, Retested("update", v, now), Compiled(v))
      BY <2>3 DEF Update
    <3> DEFINE d == Retested("update", v, now)
    <3>2. /\ d \in Installations /\ d.version = v /\ d.at = now
          /\ d.state = "ready_to_test"
      BY <2>0, RetestedFields
    <3>3. "update" \in Actions BY DEF Actions
    <3>4. Compiled(v) \in Loops BY <2>0, CompiledIsLoops
    <3>5. o = Operation("update", inst, d, Compiled(v)) BY <3>1
    <3> HIDE DEF d
    <3> QED BY <3>5, <3>2, <3>3, <3>4, <2>0, <1>0 DEF OpOK, Shape, Rebuilds, IsRollout, Maybe
  <2>4. CASE o \in Rollback(now)
    <3> DEFINE n == Len(inst.past)
               d == [inst EXCEPT !.version = inst.past[n].version, !.state = "rolled_back",
                                 !.mode = "simulation", !.at = now,
                                 !.past = SubSeq(@, 1, n - 1)]
    <3>1. n # 0 /\ o = Operation("rollback", inst, d, Compiled(inst.past[n].version))
      BY <2>4 DEF Rollback
    <3>2. n \in Nat \ {0}
      <4>1. inst.past \in Seq([version : Versions, reason : {"configure", "repair", "update"}])
        BY <2>0 DEF Installations
      <4> QED BY <3>1, <4>1, LenProperties
    <3>3. /\ d \in Installations /\ d.version = inst.past[n].version /\ d.at = now
          /\ d.state = "rolled_back" /\ d.version \in Versions
      BY <2>0, <3>2, RolledBackFields
    <3>4. "rollback" \in Actions BY DEF Actions
    <3>5. Compiled(d.version) \in Loops BY <3>3, CompiledIsLoops
    <3>6. o = Operation("rollback", inst, d, Compiled(d.version)) BY <3>1, <3>3
    <3> HIDE DEF d, n
    <3> QED BY <3>6, <3>3, <3>4, <3>5, <2>0, <1>0 DEF OpOK, Shape, Rebuilds, IsRollout, Maybe
  <2>5. CASE o \in Uninstall
    <3>1. o = Operation("uninstall", inst, None, None)
      BY <2>5 DEF Uninstall
    <3>2. "uninstall" \in Actions BY DEF Actions
    <3> QED BY <3>1, <3>2, <2>0, <1>0 DEF OpOK, Shape, Rebuilds, IsRollout, Maybe
  <2>6. CASE o \in Pause(now)
    <3> DEFINE d == [inst EXCEPT !.state = "paused", !.at = now]
    <3>1. inst.state \in Rollouts /\ o = Operation("pause", inst, d, None)
      BY <2>6 DEF Pause
    <3>2. /\ d \in Installations /\ d.mode = inst.mode /\ d.at = now /\ d.state = "paused"
      BY <2>0 DEF Installations, States
    <3>3. "pause" \in Actions BY DEF Actions
    <3>4. inst.mode \in Rollouts BY <3>1, <1>2 DEF ModeInv
    <3> HIDE DEF d
    <3> QED BY <3>1, <3>2, <3>3, <3>4, <2>0, <1>0 DEF OpOK, Shape, Rebuilds, IsRollout, Maybe
  <2>7. CASE o \in Resume(now)
    <3> DEFINE d == [inst EXCEPT !.state = inst.mode, !.at = now]
    <3>1. inst.state = "paused" /\ o = Operation("resume", inst, d, None)
      BY <2>7 DEF Resume
    <3>2. inst.mode \in Rollouts BY <3>1, <1>2 DEF ModeInv
    <3>3. /\ d \in Installations /\ d.mode = inst.mode /\ d.at = now /\ d.state = inst.mode
      BY <2>0, <3>2 DEF Installations, States
    <3>4. "resume" \in Actions BY DEF Actions
    <3> HIDE DEF d
    <3> QED BY <3>1, <3>2, <3>3, <3>4, <2>0, <1>0 DEF OpOK, Shape, Rebuilds, IsRollout, Maybe
  <2>8. CASE o \in Activate(now)
    <3>1. PICK a \in approvals :
            o = Operation("activate", a,
                          [inst EXCEPT !.state = a.mode, !.mode = a.mode, !.at = now], None)
      BY <2>8 DEF Activate
    <3> DEFINE d == [inst EXCEPT !.state = a.mode, !.mode = a.mode, !.at = now]
    <3>2. a \in Approvals /\ a.mode \in Rollouts
      BY DEF TypeInv, Approvals
    <3>3. /\ d \in Installations /\ d.mode = a.mode /\ d.at = now /\ d.state = a.mode
      BY <2>0, <3>2 DEF Installations, States
    <3>4. "activate" \in Actions BY DEF Actions
    <3>5. o = Operation("activate", a, d, None) BY <3>1
    <3> HIDE DEF d
    <3> QED BY <3>2, <3>3, <3>4, <3>5, <2>0, <1>0 DEF OpOK, Shape, Rebuilds, IsRollout, Maybe
  <2> QED BY <1>2, <2>1, <2>2, <2>3, <2>4, <2>5, <2>6, <2>7, <2>8 DEF Requested
<1> QED BY <1>1, <1>2 DEF Requested

-----------------------------------------------------------------------------
Done(key) == \E k \in journal : k.key = key /\ k.status = "completed"
KeysDiffer == \A o, k \in journal : o.key = k.key => o = k

\* At most one operation is unfinished, and it starts from the installation
\* that is there.
JournalInv ==
  /\ KeysDiffer
  /\ \A o, k \in Unfinished : o = k
  /\ \A o \in Unfinished : SourceChecked(o) => inst = o.src

\* A call that has been prepared has its record in the journal.
InCall(c) == callers[c].at \notin {"idle", "prepare"}
Journaled(o) ==
  \E k \in journal : k.key = o.key /\ (SourceChecked(o) => Alike(k, o))
CallInv == \A c \in Callers : InCall(c) => Journaled(callers[c].op)

\* What is true of a call that has the lease: the registry is as it was when it
\* was compared, and, unless somebody wrote without the lease, so are the loops
\* but for what the call itself did to them.
Writable(o) == own # None \/ ~IsRollout(o)
Receipts(call) ==
  {r \in receipts : r.key = IF IsRollout(call.op)
                            THEN <<"rollout", call.write, call.graphRevision>>
                            ELSE call.op.key}
HoldsAs(c, call) ==
  LET o == call.op IN
  /\ call.at \in {"read", "write", "verify", "consume", "commit"}
  /\ c \in current /\ Fits(o, inst)
  /\ ~Done(o.key) \/ (o.action = "install" /\ (inst # None \/ reapplied))
  /\ RegistryOnly(o) => call.at = "commit"
  /\ call.at = "verify" => Rebuilds(o) \/ o.action = "uninstall"
  /\ call.at = "consume" => o.action \in {"install", "uninstall"}
  /\ ~late /\ call.at = "write" =>
       /\ call.write = Target(o) /\ Writable(o)
       /\ IsRollout(o) => Receipts(call) = {}
  /\ ~late /\ call.at \in {"consume", "commit"} /\ o.action \notin {"install", "configure"} =>
       own = Target(o) /\ Writable(o)
Holds(c) == HoldsAs(c, callers[c])
HolderInv == \A c \in Callers : lease = c => Holds(c)

\* A receipt of a rollout names a revision that is past.
RevisionInv ==
  \A r \in receipts :
    r.key[1] = "rollout" => r.key[3] \in Nat /\ r.key[3] < graphRevision

-----------------------------------------------------------------------------
\* A call goes to another place.
LEMMA GoFields ==
  ASSUME TypeInv, NEW c \in Callers, NEW label \in Labels, Go(c, label)
  PROVE  /\ callers' \in [Callers -> Calls]
         /\ callers'[c].at = label /\ callers'[c].op = callers[c].op
         /\ callers'[c].write = callers[c].write
         /\ callers'[c].graphRevision = callers[c].graphRevision
         /\ \A d \in Callers \ {c} : callers'[d] = callers[d]
  BY DEF TypeInv, Go, Calls

\* A call ends.
LEMMA StopFields ==
  ASSUME TypeInv, NEW c \in Callers, Stop(c)
  PROVE  /\ callers' \in [Callers -> Calls] /\ callers'[c].at = "idle"
         /\ \A d \in Callers \ {c} : callers'[d] = callers[d]
<1>1. Idle \in Calls /\ Idle.at = "idle"
  BY DEF Idle, Calls, Maybe, Labels
<1> QED BY <1>1 DEF TypeInv, Stop

\* A call begins.
LEMMA BeginFields ==
  ASSUME TypeInv, NEW c \in Callers, NEW o \in Records,
         callers' = [callers EXCEPT ![c] = [Idle EXCEPT !.at = "prepare", !.op = o]]
  PROVE  /\ callers' \in [Callers -> Calls]
         /\ callers'[c].at = "prepare" /\ callers'[c].op = o
         /\ \A d \in Callers \ {c} : callers'[d] = callers[d]
<1> DEFINE i == [Idle EXCEPT !.at = "prepare", !.op = o]
<1>1. i \in Calls /\ i.at = "prepare" /\ i.op = o
  BY DEF Idle, Calls, Maybe, Labels
<1> HIDE DEF i
<1> QED BY <1>1 DEF TypeInv, i

\* A call reads the loops and plans its write.
LEMMA ReadFields ==
  ASSUME TypeInv, NEW c \in Callers, ReadGraph(c)
  PROVE  LET o == callers[c].op IN
         /\ callers' \in [Callers -> Calls]
         /\ callers'[c].at = IF Writes(o) THEN "write" ELSE After(o)
         /\ callers'[c].op = o
         /\ callers'[c].write = Target(o) /\ callers'[c].graphRevision = graphRevision
         /\ \A d \in Callers \ {c} : callers'[d] = callers[d]
<1>1. Target(callers[c].op) \in Maybe(Loops)
  <2>1. OpOK(callers[c].op)
    BY DEF ReadGraph, At, TypeInv
  <2>2. CASE IsRollout(callers[c].op)
    <3>1. RoutingFor(callers[c].op) \in Rollouts
      BY <2>1, <2>2 DEF OpOK, Shape, RoutingFor, IsRollout, Rollouts, Approvals
    <3>2. CASE own = None
      BY <2>2, <3>2 DEF Target, Rerouted, Maybe
    <3>3. CASE own # None
      BY <2>2, <3>1, <3>3 DEF Target, Rerouted, Maybe, TypeInv, Loops
    <3> QED BY <3>2, <3>3
  <2>3. CASE ~IsRollout(callers[c].op)
    BY <2>1, <2>3 DEF Target, OpOK, Records
  <2> QED BY <2>2, <2>3
<1>2. After(callers[c].op) \in Labels
  BY DEF After, Labels
<1> QED BY <1>1, <1>2 DEF ReadGraph, TypeInv, Calls, Labels

\* The record that has the key of an operation, and the journal with it changed.
LEMMA EntryFields ==
  ASSUME TypeInv, KeysDiffer, NEW k \in journal, NEW o, o.key = k.key,
         NEW status \in Statuses
  PROVE  /\ Entry(o) = k
         /\ WithEntry(o, status)
              = {j \in journal : j.key # k.key} \cup {[k EXCEPT !.status = status]}
         /\ OpOK([k EXCEPT !.status = status])
         /\ Alike(k, [k EXCEPT !.status = status])
         /\ [k EXCEPT !.status = status].status = status
<1>1. Entry(o) = k
  BY DEF Entry, KeysDiffer
<1>2. OpOK(k) /\ k \in Records
  BY DEF TypeInv, OpOK
<1> DEFINE e == [k EXCEPT !.status = status]
<1>3. e \in Records /\ Alike(k, e) /\ e.status = status
  BY <1>2 DEF Records, Alike
<1> HIDE DEF e
<1>4. Shape(e)
  BY <1>2, <1>3 DEF OpOK, Shape, Alike, Rebuilds, IsRollout
<1> QED BY <1>1, <1>3, <1>4 DEF WithEntry, OpOK, e

\* Alike records differ in nothing that is compared.
LEMMA IntentFields ==
  ASSUME NEW o \in Records, NEW k \in Records
  PROVE  Intent(o) = Intent(k) <=> Alike(o, k)
  BY DEF Intent, Alike, Records

-----------------------------------------------------------------------------
\* The journal holds the same operations, of which none was finished.
SameJournal ==
  /\ KeysDiffer'
  /\ \A j \in journal' : OpOK(j) /\ \E i \in journal : Alike(i, j)
  /\ \A i \in journal : \E j \in journal' : Alike(i, j)
  /\ \A j \in Unfinished' : \E i \in Unfinished : Alike(i, j)
  /\ \A i \in Unfinished : \E j \in Unfinished' : Alike(i, j)
  /\ \A key : Done(key)' <=> Done(key)
  /\ \A i, j \in Unfinished' : i = j

\* A journal that is left alone is the same journal.
LEMMA JournalStays ==
  ASSUME TypeInv, JournalInv, journal' = journal
  PROVE  SameJournal
  BY DEF SameJournal, TypeInv, JournalInv, KeysDiffer, Unfinished, Alike, Done

\* So is one in which the unfinished record is marked or taken up again.
LEMMA JournalMarked ==
  ASSUME TypeInv, JournalInv, NEW k \in Unfinished, NEW o, o.key = k.key,
         NEW status \in {"prepared", "requires_reconciliation"},
         journal' = WithEntry(o, status)
  PROVE  SameJournal
<1> DEFINE e == [k EXCEPT !.status = status]
<1>1. k \in journal /\ k.status # "completed" /\ status # "completed" /\ status \in Statuses
  BY DEF Unfinished, Statuses
<1>2. /\ journal' = {j \in journal : j.key # k.key} \cup {e}
      /\ OpOK(e) /\ Alike(k, e) /\ e.status = status
  BY <1>1, EntryFields DEF JournalInv
<1> HIDE DEF e
<1>3. e.key = k.key BY <1>2 DEF Alike
<1>4. \A j \in journal : j.key = k.key => j = k
  BY <1>1 DEF JournalInv, KeysDiffer
<1>5. KeysDiffer'
  BY <1>2, <1>3 DEF KeysDiffer, JournalInv
<1>6. \A j \in journal' : OpOK(j) /\ \E i \in journal : Alike(i, j)
  BY <1>1, <1>2 DEF TypeInv, Alike
<1>7. \A i \in journal : \E j \in journal' : Alike(i, j)
  BY <1>2, <1>4 DEF Alike
<1>8. Unfinished = {k}
  BY DEF JournalInv
<1>9. Unfinished' = {e}
  BY <1>1, <1>2, <1>8 DEF Unfinished
<1>10. \A key : Done(key)' <=> Done(key)
  BY <1>1, <1>2, <1>4 DEF Done
<1> QED BY <1>2, <1>5, <1>6, <1>7, <1>8, <1>9, <1>10 DEF SameJournal

\* The holder of the lease keeps it, and what it is doing.
HoldersStay ==
  \A c \in Callers : lease' = c =>
    lease = c /\ callers'[c] = callers[c] /\ UNCHANGED <<journal, current>>

\* Steps after which registry, loops and consumer lists say what they said.
Keep ==
  /\ UNCHANGED <<inst, approvals, own, receipts, consumer, late, reapplied>>
  /\ SameJournal /\ HoldersStay
  /\ graphRevision' \in Nat /\ graphRevision <= graphRevision'

\* A preparation that journals a new operation.
Fresh(c) ==
  /\ Prepare(c) /\ Go(c, "enter") /\ Unfinished = {}
  /\ \A k \in journal : k.key # callers[c].op.key
  /\ journal' = journal \cup {callers[c].op} /\ current' = {}

\* A preparation adds a fresh record, or finds the one that is there.
LEMMA PrepareKinds ==
  ASSUME TypeInv, JournalInv, NEW c \in Callers, Prepare(c)
  PROVE  Keep \/ Fresh(c)
<1> DEFINE o == callers[c].op
           known == {k \in journal : k.key = o.key}
<1>0. HoldersStay
  BY Constants DEF Prepare, HoldersStay
<1>1. /\ UNCHANGED <<inst, approvals, own, receipts, consumer, late, reapplied>>
      /\ graphRevision' = graphRevision
  BY DEF Prepare, graph, histories
<1>2. CASE /\ known = {} /\ Unfinished = {} /\ Go(c, "enter")
           /\ journal' = journal \cup {o} /\ current' = {}
  BY <1>2 DEF Fresh
<1>3. CASE journal' = journal
  BY <1>0, <1>1, <1>3, JournalStays DEF Keep, TypeInv
<1>4. CASE /\ \E k \in known : k.status = "requires_reconciliation"
           /\ journal' = WithEntry(o, "prepared")
  <2>1. PICK k \in Unfinished : o.key = k.key
    BY <1>4 DEF Unfinished
  <2>2. SameJournal
    BY <1>4, <2>1, JournalMarked
  <2> QED BY <1>0, <1>1, <2>2 DEF Keep, TypeInv
<1> QED BY <1>2, <1>3, <1>4 DEF Prepare

\* To mark an operation as interrupted changes nothing else.
LEMMA MarkKeeps ==
  ASSUME TypeInv, JournalInv, CallInv, HolderInv, NEW c \in Callers, Mark(c)
  PROVE  Keep
<1>1. /\ UNCHANGED <<inst, approvals, own, receipts, consumer, late, reapplied>>
      /\ graphRevision' = graphRevision /\ lease' = lease
  BY DEF Mark, graph, histories
<1>2. lease # c
  BY DEF HolderInv, Holds, HoldsAs, Mark, At
<1>3. PICK k \in journal : k.key = callers[c].op.key
  BY DEF CallInv, Journaled, InCall, Mark, At
<1>4. CASE journal' = journal /\ current' = current
  <2>1. HoldersStay
    BY <1>1, <1>2, <1>4, StopFields DEF HoldersStay, Mark
  <2> QED BY <1>1, <1>4, <2>1, JournalStays DEF Keep, TypeInv
<1>5. CASE /\ lease = None /\ Entry(callers[c].op).status # "completed"
           /\ journal' = WithEntry(callers[c].op, "requires_reconciliation")
  <2>1. Entry(callers[c].op) = k
    BY <1>3, EntryFields DEF JournalInv, Statuses
  <2>2. SameJournal
    BY <1>3, <1>5, <2>1, JournalMarked DEF Unfinished
  <2>3. HoldersStay
    BY <1>1, <1>5, Constants DEF HoldersStay
  <2> QED BY <1>1, <2>2, <2>3 DEF Keep, TypeInv
<1> QED BY <1>4, <1>5 DEF Mark

\* The steps that leave the registry and the loops as they are.
LEMMA StepKinds ==
  ASSUME TypeInv, ModeInv, JournalInv, CallInv, HolderInv, [Next]_vars
  PROVE  \/ Keep
         \/ \E c \in Callers : \/ Fresh(c) \/ Enter(c) \/ ReadGraph(c) \/ WriteGraph(c)
                               \/ Verify(c) \/ Consume(c) \/ CommitRegistry(c)
         \/ \E passed \in BOOLEAN : Test(passed)
         \/ \E mode \in Rollouts : Approve(mode)
<1> DEFINE Same == UNCHANGED <<inst, journal, approvals, own, receipts, consumer, late,
                               reapplied, current>>
<1>0. ASSUME Same, HoldersStay, graphRevision' \in Nat, graphRevision <= graphRevision'
      PROVE  Keep
  BY <1>0, JournalStays DEF Keep
<1>1. ASSUME Same, graphRevision' = graphRevision, NEW c \in Callers, lease' # c,
             lease' = lease \/ lease' \notin Callers,
             \A d \in Callers \ {c} : callers'[d] = callers[d]
      PROVE  Keep
  <2>1. HoldersStay
    BY <1>1 DEF HoldersStay
  <2> QED BY <1>0, <1>1, <2>1 DEF TypeInv
<1> HIDE DEF Same
<1>2. CASE UNCHANGED vars
  <2>1. Same /\ HoldersStay /\ graphRevision' = graphRevision
    BY <1>2 DEF Same, HoldersStay, vars, registry, graph, bounds, histories
  <2> QED BY <1>0, <2>1 DEF TypeInv
<1>3. CASE ForeignCommit
  <2>1. Same /\ HoldersStay /\ graphRevision' = graphRevision + 1
    BY <1>3 DEF Same, HoldersStay, ForeignCommit, registry, histories
  <2> QED BY <1>0, <2>1 DEF TypeInv
<1>10. CASE ForeignOwnership
  <2>1. HoldersStay
    BY <1>10, Constants DEF HoldersStay, ForeignOwnership
  <2>2. /\ UNCHANGED <<inst, approvals, own, receipts, consumer, late, reapplied>>
        /\ journal' = journal /\ graphRevision' = graphRevision
    BY <1>10 DEF ForeignOwnership, graph, histories
  <2> QED BY <2>1, <2>2, JournalStays DEF Keep, TypeInv
<1>11. CASE EvidenceChanges
  <2>1. Same /\ HoldersStay /\ graphRevision' = graphRevision
    BY <1>11 DEF Same, HoldersStay, EvidenceChanges, registry, graph, histories
  <2> QED BY <1>0, <2>1 DEF TypeInv
<1>4. CASE LeaseRunsOut
  <2>1. Same /\ HoldersStay /\ graphRevision' = graphRevision
    BY <1>4, Constants DEF Same, HoldersStay, LeaseRunsOut, registry, graph, bounds, histories
  <2> QED BY <1>0, <2>1 DEF TypeInv
<1>5. ASSUME NEW c \in Callers, Outlast(c) PROVE Keep
  <2>1. Same /\ HoldersStay /\ graphRevision' = graphRevision
    BY <1>5, Constants DEF Same, HoldersStay, Outlast, registry, graph, histories
  <2> QED BY <1>0, <2>1 DEF TypeInv
<1>6. ASSUME NEW c \in Callers, Ask(c) \/ Retry(c) PROVE Keep
  <2>1. lease # c
    BY <1>6 DEF HolderInv, Holds, HoldsAs, Ask, Retry, At
  <2>2. Same /\ graphRevision' = graphRevision /\ lease' = lease
    BY <1>6 DEF Same, Ask, Retry, registry, graph, bounds, histories
  <2>3. \A d \in Callers \ {c} : callers'[d] = callers[d]
    BY <1>6 DEF Ask, Retry, TypeInv
  <2> QED BY <1>1, <2>1, <2>2, <2>3
<1>7. ASSUME NEW c \in Callers, RefusePreparation(c) \/ RefuseEntry(c) \/ RefuseCommit(c)
      PROVE  Keep
  <2>1. lease # c
    BY <1>7 DEF HolderInv, Holds, HoldsAs, RefusePreparation, RefuseEntry, RefuseCommit, At
  <2>2. Same /\ graphRevision' = graphRevision /\ lease' = lease
    BY <1>7 DEF Same, RefusePreparation, RefuseEntry, RefuseCommit, registry, graph,
                bounds, histories
  <2>3. \A d \in Callers \ {c} : callers'[d] = callers[d]
    BY <1>7 DEF RefusePreparation, RefuseEntry, RefuseCommit, Go, Stop, TypeInv
  <2> QED BY <1>1, <2>1, <2>2, <2>3
<1>8. ASSUME NEW c \in Callers, RefuseGraph(c) \/ StoreFails(c) PROVE Keep
  <2>1. lease' = GivenBack(c) /\ Go(c, "mark")
    BY <1>8 DEF RefuseGraph, StoreFails
  <2>2. lease' # c /\ (lease' = lease \/ lease' \notin Callers)
    BY <2>1, Constants DEF GivenBack
  <2>3. Same /\ graphRevision' = graphRevision
    BY <1>8 DEF Same, RefuseGraph, StoreFails, registry, graph, bounds, histories
  <2>4. \A d \in Callers \ {c} : callers'[d] = callers[d]
    BY <2>1 DEF Go, TypeInv
  <2> QED BY <1>1, <2>2, <2>3, <2>4
<1>9. ASSUME NEW c \in Callers, Crash(c) PROVE Keep
  <2>1. lease' # c /\ (lease' = lease \/ lease' \notin Callers)
    BY <1>9, Constants DEF Crash
  <2>2. Same /\ graphRevision' = graphRevision
    BY <1>9 DEF Same, Crash, registry, graph, histories
  <2>3. \A d \in Callers \ {c} : callers'[d] = callers[d]
    BY <1>9 DEF Crash, Stop, TypeInv
  <2> QED BY <1>1, <2>1, <2>2, <2>3
<1> QED BY <1>2, <1>3, <1>4, <1>5, <1>6, <1>7, <1>8, <1>9, <1>10, <1>11, PrepareKinds,
           MarkKeeps
     DEF Next, Steps

-----------------------------------------------------------------------------
\* What a step makes of a call: nothing, its end, its next place, a new call.
CallStep(d) ==
  \/ callers'[d] = callers[d]
  \/ callers'[d].at = "idle"
  \/ /\ callers'[d].op = callers[d].op /\ ~At(d, "idle")
     /\ callers'[d].at \notin {"idle", "prepare"}
     /\ InCall(d) \/ Prepare(d)
  \/ /\ At(d, "idle") /\ callers'[d].at = "prepare" /\ (Ask(d) \/ Retry(d))
     /\ OpOK(callers'[d].op)

CallsTyped ==
  /\ callers \in [Callers -> Calls]
  /\ \A c \in Callers : ~At(c, "idle") => OpOK(callers[c].op)

\* Every step does to every call one of these four things.
LEMMA CallSteps ==
  ASSUME TypeInv, ModeInv, [Next]_vars
  PROVE  CallsTyped' /\ \A d \in Callers : CallStep(d)
<1>1. ASSUME callers' \in [Callers -> Calls], \A d \in Callers : CallStep(d)
      PROVE  CallsTyped'
  BY <1>1 DEF CallsTyped, CallStep, At, TypeInv
<1>2. CASE callers' = callers
  BY <1>1, <1>2 DEF CallStep, TypeInv
<1>3. ASSUME NEW c \in Callers, NEW label \in Labels \ {"idle", "prepare"}, Go(c, label),
             ~At(c, "idle"), InCall(c) \/ Prepare(c)
      PROVE  CallsTyped' /\ \A d \in Callers : CallStep(d)
  <2>1. \A d \in Callers : CallStep(d)
    BY <1>3, GoFields DEF CallStep
  <2> QED BY <1>1, <1>3, <2>1, GoFields
<1>4. ASSUME NEW c \in Callers, Stop(c)
      PROVE  CallsTyped' /\ \A d \in Callers : CallStep(d)
  <2>1. \A d \in Callers : CallStep(d)
    BY <1>4, StopFields DEF CallStep
  <2> QED BY <1>1, <1>4, <2>1, StopFields
<1>5. ASSUME NEW c \in Callers, Ask(c) \/ Retry(c)
      PROVE  CallsTyped' /\ \A d \in Callers : CallStep(d)
  <2>1. PICK o : /\ o \in Requested(requests + 1) \cup Unfinished
                 /\ callers' = [callers EXCEPT ![c] = [Idle EXCEPT !.at = "prepare", !.op = o]]
    BY <1>5 DEF Ask, Retry
  <2>2. OpOK(o)
    <3>1. requests + 1 \in Nat BY DEF TypeInv
    <3> QED BY <2>1, <3>1, RequestShape DEF TypeInv, Unfinished
  <2>3. /\ callers' \in [Callers -> Calls] /\ callers'[c].at = "prepare"
        /\ callers'[c].op = o /\ \A d \in Callers \ {c} : callers'[d] = callers[d]
    <3>1. o \in Records BY <2>2 DEF OpOK
    <3> QED BY <2>1, <3>1, BeginFields
  <2>4. At(c, "idle")
    BY <1>5 DEF Ask, Retry
  <2>5. \A d \in Callers : CallStep(d)
    BY <1>5, <2>2, <2>3, <2>4 DEF CallStep
  <2> QED BY <1>1, <2>3, <2>5
<1>6. ASSUME NEW c \in Callers, ReadGraph(c)
      PROVE  CallsTyped' /\ \A d \in Callers : CallStep(d)
  <2>1. InCall(c) /\ ~At(c, "idle")
    BY <1>6 DEF ReadGraph, At, InCall
  <2>2. \A d \in Callers : CallStep(d)
    BY <1>6, <2>1, ReadFields DEF CallStep, After
  <2> QED BY <1>1, <1>6, <2>2, ReadFields
<1>7. ASSUME NEW c \in Callers, Prepare(c)
      PROVE  CallsTyped' /\ \A d \in Callers : CallStep(d)
  <2>1. ~At(c, "idle") /\ (Go(c, "enter") \/ Stop(c))
    BY <1>7 DEF Prepare, At
  <2> QED BY <1>3, <1>4, <1>7, <2>1 DEF Labels
<1>8. ASSUME NEW c \in Callers, Enter(c) \/ RefuseEntry(c) \/ Verify(c) \/ Consume(c)
                                 \/ RefuseGraph(c) \/ RefuseCommit(c) \/ StoreFails(c)
                                 \/ WriteGraph(c)
      PROVE  CallsTyped' /\ \A d \in Callers : CallStep(d)
  <2>1. InCall(c) /\ ~At(c, "idle")
    BY <1>8 DEF Enter, RefuseEntry, Verify, Consume, RefuseGraph, RefuseCommit, StoreFails,
                WriteGraph, Materialize, InUpdate, InCall, At
  <2>2. \E label \in Labels \ {"idle", "prepare"} : Go(c, label)
    <3>1. {"commit", "read", "mark", "consume", "verify"} \subseteq Labels \ {"idle", "prepare"}
      BY DEF Labels
    <3>2. CASE WriteGraph(c)
      BY <3>1, <3>2 DEF WriteGraph, Materialize, After
    <3>3. CASE Verify(c)
      BY <3>1, <3>3 DEF Verify, After
    <3>4. CASE Enter(c)
      BY <3>1, <3>4 DEF Enter
    <3> QED BY <1>8, <3>1, <3>2, <3>3, <3>4 DEF RefuseEntry, Consume, RefuseGraph,
                                               RefuseCommit, StoreFails
  <2> QED BY <1>3, <2>1, <2>2
<1>9. ASSUME NEW c \in Callers, \/ RefusePreparation(c) \/ CommitRegistry(c) \/ Mark(c)
                                \/ Crash(c)
      PROVE  Stop(c)
  BY <1>9 DEF RefusePreparation, CommitRegistry, Mark, Crash
<1>10. ASSUME \/ UNCHANGED vars \/ LeaseRunsOut
              \/ ForeignCommit \/ ForeignOwnership \/ EvidenceChanges
              \/ \E c \in Callers : Outlast(c)
              \/ \E passed \in BOOLEAN : Test(passed)
              \/ \E mode \in Rollouts : Approve(mode)
       PROVE  callers' = callers
  BY <1>10 DEF vars, ForeignCommit, ForeignOwnership, EvidenceChanges, LeaseRunsOut, Outlast,
               Test, Approve
<1> QED BY <1>2, <1>4, <1>5, <1>6, <1>7, <1>8, <1>9, <1>10 DEF Next, Steps

\* What a call that has the lease and its record is about.
LEMMA HolderEntry ==
  ASSUME TypeInv, JournalInv, CallInv, HolderInv, NEW c \in Callers, lease = c
  PROVE  LET o == callers[c].op IN
         /\ OpOK(o) /\ Fits(o, inst) /\ Holds(c)
         /\ \E k \in journal :
              /\ k.key = o.key /\ k.action = o.action /\ OpOK(k)
              /\ SourceChecked(o) => Alike(k, o)
              /\ \/ k.status # "completed" /\ Unfinished = {k} /\ ~Done(o.key)
                 \/ k.status = "completed" /\ o.action = "install" /\ Done(o.key)
<1> DEFINE o == callers[c].op
<1>1. Holds(c) /\ InCall(c) /\ ~At(c, "idle") /\ Fits(o, inst)
  BY DEF HolderInv, Holds, HoldsAs, InUpdate, InCall, At
<1>2. OpOK(o)
  BY <1>1 DEF TypeInv
<1>3. PICK k \in journal : k.key = o.key /\ (SourceChecked(o) => Alike(k, o))
  BY <1>1 DEF CallInv, Journaled
<1>4. OpOK(k) /\ k.action = o.action
  BY <1>2, <1>3 DEF TypeInv, OpOK, Shape
<1>5. CASE k.status = "completed"
  <2>1. Done(o.key) BY <1>3, <1>5 DEF Done
  <2>2. o.action = "install" BY <1>1, <2>1 DEF Holds, HoldsAs
  <2> QED BY <1>1, <1>2, <1>3, <1>4, <1>5, <2>1, <2>2
<1>6. CASE k.status # "completed"
  <2>1. k \in Unfinished BY <1>6 DEF Unfinished
  <2>2. Unfinished = {k} BY <2>1 DEF JournalInv
  <2>3. ~Done(o.key) BY <1>3, <1>6 DEF Done, JournalInv, KeysDiffer
  <2> QED BY <1>1, <1>2, <1>3, <1>4, <1>6, <2>2, <2>3
<1> QED BY <1>5, <1>6

\* What the commit does to the journal.
LEMMA CommitFields ==
  ASSUME TypeInv, JournalInv, CallInv, HolderInv, NEW c \in Callers, CommitRegistry(c),
         NEW o, o = callers[c].op
  PROVE  /\ KeysDiffer'
         /\ \A j \in journal' : OpOK(j) /\ \E i \in journal : Alike(i, j)
         /\ \A i \in journal : \E j \in journal' : Alike(i, j)
         /\ Done(o.key)'
         /\ \A key : Done(key)' => Done(key) \/ key = o.key
         /\ \A key : Done(key) => Done(key)'
         /\ Unfinished' \subseteq Unfinished
         /\ \A j \in Unfinished' : j.key # o.key
         /\ \A j \in Unfinished : j.key # o.key => j \in Unfinished'
         /\ ~Done(o.key) => Unfinished' = {}
<1>0. lease = c BY DEF CommitRegistry
<1>1. PICK k \in journal :
        /\ k.key = o.key /\ OpOK(k)
        /\ \/ k.status # "completed" /\ Unfinished = {k}
           \/ k.status = "completed" /\ Done(o.key)
  BY <1>0, HolderEntry
<1> DEFINE e == [k EXCEPT !.status = "completed"]
<1>2. /\ journal' = {j \in journal : j.key # k.key} \cup {e}
      /\ OpOK(e) /\ Alike(k, e) /\ e.status = "completed"
  BY <1>1, EntryFields DEF CommitRegistry, JournalInv, Statuses
<1> HIDE DEF e
<1>3. e.key = k.key BY <1>2 DEF Alike
<1>4. \A j \in journal : j.key = k.key => j = k
  BY DEF JournalInv, KeysDiffer
<1>5. KeysDiffer'
  BY <1>2, <1>3 DEF KeysDiffer, JournalInv
<1>6. \A j \in journal' : OpOK(j) /\ \E i \in journal : Alike(i, j)
  BY <1>2 DEF TypeInv, Alike
<1>7. \A i \in journal : \E j \in journal' : Alike(i, j)
  BY <1>2, <1>4 DEF Alike
<1>8. Unfinished' = {j \in Unfinished : j.key # k.key}
  BY <1>2 DEF Unfinished
<1>9. Done(o.key)'
  <2>1. e \in journal' /\ e.key = o.key BY <1>1, <1>2, <1>3
  <2> QED BY <1>2, <2>1 DEF Done
<1>11. ASSUME NEW key, Done(key)' PROVE Done(key) \/ key = o.key
  <2>1. PICK j \in journal' : j.key = key /\ j.status = "completed"
    BY <1>11 DEF Done
  <2>2. j \in journal \/ j = e BY <1>2, <2>1
  <2> QED BY <1>1, <1>3, <2>1, <2>2 DEF Done
<1>10. ASSUME NEW key, Done(key) PROVE Done(key)'
  <2>1. PICK j \in journal : j.key = key /\ j.status = "completed"
    BY <1>10 DEF Done
  <2>2. j \in journal' \/ j.key = e.key
    BY <1>2, <1>3, <2>1
  <2> QED BY <1>2, <2>1, <2>2 DEF Done
<1> QED BY <1>1, <1>5, <1>6, <1>7, <1>8, <1>9, <1>10, <1>11

-----------------------------------------------------------------------------
\* The commit ends at a sound installation.
LEMMA FinishedFields ==
  ASSUME TypeInv, NEW o, OpOK(o), Fits(o, inst)
  PROVE  /\ Finished(o) \in Maybe(Installations)
         /\ o.action = "install" /\ inst # None => Finished(o) = inst
         /\ IsRollout(o) => /\ inst \in Installations /\ Finished(o) \in Installations
                            /\ Finished(o).version = inst.version
                            /\ Finished(o).state = o.dst.state
                            /\ Finished(o).mode = o.dst.mode
                            /\ Finished(o).at = o.dst.at
                            /\ Finished(o).past = inst.past
         /\ ~IsRollout(o) /\ (o.action = "install" => inst = None) => Finished(o) = o.dst
<1>1. o.dst \in Maybe(Installations)
  BY DEF OpOK, Records
<1>2. CASE IsRollout(o)
  <2>1. inst \in Installations /\ o.dst \in Installations
    BY <1>2 DEF TypeInv, Maybe, Fits, IsRollout, OpOK, Shape
  <2>2. o.dst.state \in States /\ o.dst.mode \in Rollouts \cup {"simulation"} /\ o.dst.at \in Nat
    BY <2>1 DEF Installations
  <2>3. Finished(o) = [inst EXCEPT !.state = o.dst.state, !.mode = o.dst.mode, !.at = o.dst.at]
    BY <1>2 DEF Finished, IsRollout
  <2> QED BY <1>2, <2>1, <2>2, <2>3 DEF Installations, IsRollout, Maybe
<1> QED BY <1>1, <1>2 DEF Finished, TypeInv, IsRollout

\* A commit uses up an approval, and takes none away.
LEMMA ApprovalsAfterCommit ==
  ASSUME TypeInv, NEW c \in Callers, CommitRegistry(c), OpOK(callers[c].op),
         Fits(callers[c].op, inst)
  PROVE  /\ approvals' \subseteq Approvals
         /\ \A a \in approvals : \E b \in approvals' : b.version = a.version /\ b.mode = a.mode
<1> DEFINE o == callers[c].op
           a == o.key[2]
           b == [a EXCEPT !.used = TRUE]
<1>1. CASE o.action = "activate"
  <2>1. a \in Approvals /\ a \in approvals
    BY <1>1 DEF OpOK, Shape, Fits
  <2>2. b \in Approvals /\ b.version = a.version /\ b.mode = a.mode
    BY <2>1 DEF Approvals
  <2>3. approvals' = (approvals \ {a}) \cup {b}
    BY <1>1 DEF CommitRegistry
  <2> HIDE DEF b
  <2> QED BY <2>1, <2>2, <2>3 DEF TypeInv
<1>2. CASE o.action # "activate"
  BY <1>2 DEF CommitRegistry, TypeInv
<1> QED BY <1>1, <1>2

\* The operators' steps.
LEMMA TestFields ==
  ASSUME TypeInv, NEW passed \in BOOLEAN, Test(passed)
  PROVE  /\ inst \in Installations /\ inst' \in Installations
         /\ inst'.version = inst.version /\ inst'.at = requests + 1
         /\ inst'.state = IF passed THEN "simulation_passed" ELSE "broken"
         /\ inst'.mode = inst.mode /\ inst'.past = inst.past
<1>1. inst \in Installations /\ requests + 1 \in Nat
  BY DEF Test, Operable, TypeInv, Maybe
<1>2. {"simulation_passed", "broken"} \subseteq States
  BY DEF States
<1> QED BY <1>1, <1>2 DEF Test, Installations

\* An operator adds an approval.
LEMMA ApproveFields ==
  ASSUME TypeInv, NEW mode \in Rollouts, Approve(mode)
  PROVE  approvals \subseteq approvals' /\ approvals' \subseteq Approvals
<1>1. inst \in Installations /\ requests + 1 \in Nat
  BY DEF Approve, Operable, TypeInv, Maybe
<1>2. [id |-> requests + 1, version |-> inst.version, state |-> inst.state,
       at |-> inst.at, mode |-> mode, evidence |-> evidence, used |-> FALSE] \in Approvals
  BY <1>1 DEF Installations, Approvals, TypeInv
<1> QED BY <1>2 DEF Approve, TypeInv

\* What is written to the loops are loops.
LEMMA GraphTypes ==
  ASSUME TypeInv, NEW c \in Callers, WriteGraph(c)
  PROVE  own' \in Maybe(Loops) /\ graphRevision' \in Nat /\ late' \in BOOLEAN
<1>1. callers[c].write \in Maybe(Loops)
  BY DEF TypeInv, Calls
<1>2. late' \in BOOLEAN
  <2>1. late' = late \/ late' = (late \/ lease # c)
    BY DEF WriteGraph, Materialize, Overtaken
  <2> QED BY <2>1 DEF TypeInv
<1>3. \/ own' = own /\ graphRevision' = graphRevision
      \/ own' = callers[c].write /\ graphRevision' = graphRevision + 1
  BY DEF WriteGraph, Materialize, graph
<1> QED BY <1>1, <1>2, <1>3 DEF TypeInv

\* The clock of the requests only grows.
LEMMA RequestsGrow ==
  ASSUME TypeInv, [Next]_vars
  PROVE  requests' = requests \/ requests' = requests + 1
<1>1. ASSUME NEW c \in Callers, Ask(c) PROVE requests' = requests + 1
  BY <1>1 DEF Ask
<1>2. ASSUME \/ \E passed \in BOOLEAN : Test(passed)
             \/ \E mode \in Rollouts : Approve(mode)
      PROVE  requests' = requests + 1
  BY <1>2 DEF Test, Approve
<1>3. ASSUME NEW c \in Callers, \/ Retry(c) \/ Prepare(c) \/ RefusePreparation(c) \/ Enter(c)
                                \/ RefuseEntry(c) \/ ReadGraph(c) \/ WriteGraph(c)
      PROVE  requests' = requests
  BY <1>3 DEF Retry, Prepare, RefusePreparation, Enter, RefuseEntry, ReadGraph, WriteGraph,
              Materialize, bounds
<1>4. ASSUME NEW c \in Callers, \/ Verify(c) \/ Consume(c) \/ RefuseGraph(c)
                                \/ CommitRegistry(c) \/ RefuseCommit(c) \/ Mark(c)
      PROVE  requests' = requests
  BY <1>4 DEF Verify, Consume, RefuseGraph, CommitRegistry, RefuseCommit, Mark, bounds
<1>5. ASSUME \/ \E c \in Callers : StoreFails(c) \/ Crash(c) \/ Outlast(c)
             \/ ForeignCommit \/ ForeignOwnership \/ EvidenceChanges
             \/ LeaseRunsOut \/ UNCHANGED vars
      PROVE  requests' = requests
  BY <1>5 DEF StoreFails, Crash, Outlast, ForeignCommit, ForeignOwnership, EvidenceChanges,
              LeaseRunsOut, vars, bounds
<1> QED BY <1>1, <1>2, <1>3, <1>4, <1>5 DEF Next, Steps

\* The lease is kept, given back, lost with its holder, or taken.
LEMMA LeaseSteps ==
  ASSUME [Next]_vars
  PROVE  lease' \in {lease, None, Dead} \cup Callers
<1>1. ASSUME NEW c \in Callers, Enter(c) \/ CommitRegistry(c) \/ RefuseGraph(c)
                                \/ StoreFails(c) \/ Crash(c) \/ Outlast(c)
      PROVE  lease' \in {lease, None, Dead} \cup Callers
  BY <1>1 DEF Enter, CommitRegistry, RefuseGraph, StoreFails, Crash, Outlast, GivenBack
<1>2. CASE LeaseRunsOut
  BY <1>2 DEF LeaseRunsOut
<1>3. ASSUME NEW c \in Callers, \/ Ask(c) \/ Retry(c) \/ Prepare(c) \/ RefusePreparation(c)
                                \/ RefuseEntry(c) \/ ReadGraph(c) \/ WriteGraph(c)
      PROVE  lease' = lease
  BY <1>3 DEF Ask, Retry, Prepare, RefusePreparation, RefuseEntry, ReadGraph, WriteGraph,
              Materialize
<1>4. ASSUME NEW c \in Callers, Verify(c) \/ Consume(c) \/ RefuseCommit(c) \/ Mark(c)
      PROVE  lease' = lease
  BY <1>4 DEF Verify, Consume, RefuseCommit, Mark
<1>5. ASSUME \/ \E passed \in BOOLEAN : Test(passed)
             \/ \E mode \in Rollouts : Approve(mode)
             \/ ForeignCommit \/ ForeignOwnership \/ EvidenceChanges \/ UNCHANGED vars
      PROVE  lease' = lease
  BY <1>5 DEF Test, Approve, ForeignCommit, ForeignOwnership, EvidenceChanges, vars
<1> QED BY <1>1, <1>2, <1>3, <1>4, <1>5 DEF Next, Steps

\* Only others change the owners of the assets and the evidence.
LEMMA WorldSteps ==
  ASSUME TypeInv, [Next]_vars
  PROVE  sharers' \subseteq OtherApps /\ evidence' \subseteq Evidence
<1> DEFINE Typed == sharers' \subseteq OtherApps /\ evidence' \subseteq Evidence
<1>0. ASSUME UNCHANGED <<sharers, evidence>> PROVE Typed
  BY <1>0 DEF TypeInv
<1> HIDE DEF Typed
<1>1. ASSUME \/ \E passed \in BOOLEAN : Test(passed)
             \/ \E mode \in Rollouts : Approve(mode)
             \/ ForeignCommit \/ LeaseRunsOut \/ UNCHANGED vars
      PROVE  Typed
  <2>1. UNCHANGED <<sharers, evidence>>
    BY <1>1 DEF Test, Approve, ForeignCommit, LeaseRunsOut, vars, world
  <2> QED BY <1>0, <2>1
<1>2. ASSUME NEW c \in Callers, \/ Ask(c) \/ Retry(c) \/ Prepare(c) \/ RefusePreparation(c)
                                \/ Enter(c) \/ RefuseEntry(c) \/ ReadGraph(c) \/ WriteGraph(c)
      PROVE  Typed
  <2>1. UNCHANGED <<sharers, evidence>>
    BY <1>2 DEF Ask, Retry, Prepare, RefusePreparation, Enter, RefuseEntry, ReadGraph,
                WriteGraph, Materialize, world
  <2> QED BY <1>0, <2>1
<1>3. ASSUME NEW c \in Callers, \/ Verify(c) \/ Consume(c) \/ RefuseGraph(c)
                                \/ CommitRegistry(c) \/ RefuseCommit(c) \/ Mark(c)
                                \/ StoreFails(c) \/ Crash(c) \/ Outlast(c)
      PROVE  Typed
  <2>1. UNCHANGED <<sharers, evidence>>
    BY <1>3 DEF Verify, Consume, RefuseGraph, CommitRegistry, RefuseCommit, Mark, StoreFails,
                Crash, Outlast, world
  <2> QED BY <1>0, <2>1
<1>4. ASSUME ForeignOwnership \/ EvidenceChanges PROVE Typed
  BY <1>4 DEF ForeignOwnership, EvidenceChanges, TypeInv, Typed
<1>5. Typed
  BY <1>1, <1>2, <1>3, <1>4 DEF Next, Steps
<1> QED BY <1>5 DEF Typed

\* Every step keeps the types.
LEMMA TypesNext ==
  ASSUME TypeInv, ModeInv, JournalInv, CallInv, HolderInv, [Next]_vars
  PROVE  TypeInv'
<1>0. CallsTyped'
  BY CallSteps
<1>1. requests' \in Nat /\ lease' \in Callers \cup {None, Dead}
  <2>1. requests \in Nat /\ lease \in Callers \cup {None, Dead} BY DEF TypeInv
  <2> QED BY <2>1, RequestsGrow, LeaseSteps
<1> DEFINE Rest == /\ inst' \in Maybe(Installations) /\ own' \in Maybe(Loops)
                   /\ approvals' \subseteq Approvals
                   /\ \A o \in journal' : OpOK(o)
                   /\ graphRevision' \in Nat
                   /\ consumer' \in BOOLEAN /\ late' \in BOOLEAN /\ reapplied' \in BOOLEAN
<1>2. ASSUME Keep PROVE Rest
  <2>1. \A o \in journal' : OpOK(o) BY <1>2 DEF Keep, SameJournal
  <2>2. /\ UNCHANGED <<inst, approvals, own, consumer, late, reapplied>>
        /\ graphRevision' \in Nat
    BY <1>2 DEF Keep
  <2> QED BY <2>1, <2>2 DEF TypeInv
<1>3. ASSUME NEW c \in Callers, Fresh(c) PROVE Rest
  <2>1. OpOK(callers[c].op)
    BY <1>3 DEF Fresh, Prepare, At, TypeInv
  <2> QED BY <1>3, <2>1 DEF Fresh, Prepare, TypeInv, graph, histories
<1>4. ASSUME NEW c \in Callers, Enter(c) \/ ReadGraph(c) \/ Verify(c) PROVE Rest
  BY <1>4 DEF Enter, ReadGraph, Verify, TypeInv, registry, graph, histories
<1>5. ASSUME NEW c \in Callers, WriteGraph(c) PROVE Rest
  <2>1. UNCHANGED <<inst, approvals, journal, consumer, reapplied>>
    BY <1>5 DEF WriteGraph, Materialize, registry
  <2> QED BY <1>5, <2>1, GraphTypes DEF TypeInv
<1>6. ASSUME NEW c \in Callers, Consume(c) PROVE Rest
  BY <1>6 DEF Consume, Overtaken, TypeInv, registry, graph
<1>7. ASSUME NEW c \in Callers, CommitRegistry(c) PROVE Rest
  <2>1. OpOK(callers[c].op) /\ Fits(callers[c].op, inst)
    BY <1>7, HolderEntry DEF CommitRegistry
  <2>2. inst' \in Maybe(Installations)
    BY <1>7, <2>1, FinishedFields DEF CommitRegistry
  <2>3. approvals' \subseteq Approvals
    BY <1>7, <2>1, ApprovalsAfterCommit
  <2>4. \A o \in journal' : OpOK(o)
    BY <1>7, CommitFields
  <2> QED BY <1>7, <2>2, <2>3, <2>4 DEF CommitRegistry, TypeInv, graph, histories
<1>8. ASSUME NEW passed \in BOOLEAN, Test(passed) PROVE Rest
  <2>1. inst' \in Maybe(Installations)
    BY <1>8, TestFields DEF Maybe
  <2> QED BY <1>8, <2>1 DEF Test, TypeInv, graph, histories
<1>9. ASSUME NEW mode \in Rollouts, Approve(mode) PROVE Rest
  BY <1>9, ApproveFields DEF Approve, TypeInv, graph, histories
<1>10. Rest
  <2> HIDE DEF Rest
  <2>1. \/ Keep
        \/ \E c \in Callers : \/ Fresh(c) \/ Enter(c) \/ ReadGraph(c) \/ WriteGraph(c)
                              \/ Verify(c) \/ Consume(c) \/ CommitRegistry(c)
        \/ \E passed \in BOOLEAN : Test(passed)
        \/ \E mode \in Rollouts : Approve(mode)
    BY StepKinds
  <2> QED BY <2>1, <1>2, <1>3, <1>4, <1>5, <1>6, <1>7, <1>8, <1>9
<1>11. sharers' \subseteq OtherApps /\ evidence' \subseteq Evidence
  BY WorldSteps
<1> QED BY <1>0, <1>1, <1>10, <1>11 DEF TypeInv, CallsTyped

-----------------------------------------------------------------------------
\* The part that the others build on.
CoreInv ==
  TypeInv /\ ModeInv /\ JournalInv /\ CallInv /\ HolderInv /\ RevisionInv

\* Every step keeps modes to what was approved.
LEMMA ModesNext ==
  ASSUME TypeInv, ModeInv, JournalInv, CallInv, HolderInv, [Next]_vars
  PROVE  ModeInv'
<1>1. ASSUME inst' = inst, approvals \subseteq approvals' PROVE ModeInv'
  BY <1>1 DEF ModeInv
<1>2. ASSUME NEW c \in Callers, CommitRegistry(c) PROVE ModeInv'
  <2> DEFINE o == callers[c].op
  <2>0. lease = c /\ inst' = Finished(o)
    BY <1>2 DEF CommitRegistry
  <2>1. OpOK(o) /\ Fits(o, inst)
    BY <2>0, HolderEntry
  <2>2. \A a \in approvals : \E b \in approvals' : b.version = a.version /\ b.mode = a.mode
    BY <1>2, <2>1, ApprovalsAfterCommit
  <2>3. CASE IsRollout(o)
    <3>1. /\ inst \in Installations /\ inst # None /\ inst'.version = inst.version
          /\ inst'.state = o.dst.state /\ inst'.mode = o.dst.mode
      BY <2>0, <2>1, <2>3, FinishedFields, Constants
    <3>2. CASE o.action = "activate"
      <4>1. o.key[2] \in approvals /\ o.key[2].version = inst.version
            /\ o.key[2].mode \in Rollouts
        BY <2>1, <3>2 DEF Fits, Usable, TypeInv, Approvals
      <4>2. o.dst.state = o.key[2].mode /\ o.dst.mode = o.key[2].mode
        BY <2>1, <3>2 DEF OpOK, Shape
      <4> QED BY <2>2, <3>1, <4>1, <4>2 DEF ModeInv
    <3>3. CASE o.action \in {"pause", "resume"}
      <4>1. inst.state = o.src.state /\ inst.mode = o.src.mode
        BY <2>1, <3>3 DEF Fits
      <4>2. /\ o.dst.mode = o.src.mode /\ o.dst.mode \in Rollouts
            /\ o.src.state \in Rollouts \cup {"paused"}
            /\ o.dst.state = "paused" \/ o.dst.state = o.src.mode
        BY <2>1, <3>3 DEF OpOK, Shape
      <4>3. \E a \in approvals : a.version = inst.version /\ a.mode = inst.mode
        BY <3>1, <4>1, <4>2 DEF ModeInv
      <4>4. "paused" \notin Rollouts BY DEF Rollouts
      <4> QED BY <2>2, <3>1, <4>1, <4>2, <4>3, <4>4 DEF ModeInv
    <3> QED BY <2>3, <3>2, <3>3 DEF IsRollout
  <2>4. CASE o.action = "install" /\ inst # None
    <3>1. inst' = inst BY <2>0, <2>1, <2>4, FinishedFields
    <3> QED BY <2>2, <3>1 DEF ModeInv
  <2>5. CASE ~IsRollout(o) /\ (o.action = "install" => inst = None)
    <3>1. inst' = o.dst BY <2>0, <2>1, <2>5, FinishedFields
    <3>2. \/ o.dst = None
          \/ o.dst.state \in {"ready_to_test", "rolled_back"}
          \/ o.dst.state \notin Rollouts \cup {"paused"}
      <4>1. o.action \in Actions BY <2>1 DEF OpOK, Records
      <4> QED BY <2>1, <2>5, <4>1 DEF OpOK, Shape, Actions, IsRollout, Rebuilds, Reconfigured
    <3> QED BY <3>1, <3>2 DEF ModeInv, Rollouts
  <2> QED BY <2>3, <2>4, <2>5
<1>3. ASSUME NEW passed \in BOOLEAN, Test(passed) PROVE ModeInv'
  <2>1. inst'.state \in {"simulation_passed", "broken"} BY <1>3, TestFields
  <2> QED BY <2>1 DEF ModeInv, Rollouts
<1>4. ASSUME NEW mode \in Rollouts, Approve(mode) PROVE ModeInv'
  BY <1>1, <1>4, ApproveFields DEF Approve
<1>5. ASSUME Keep PROVE ModeInv'
  BY <1>1, <1>5 DEF Keep
<1>6. ASSUME NEW c \in Callers,
             Fresh(c) \/ Enter(c) \/ ReadGraph(c) \/ WriteGraph(c) \/ Verify(c) \/ Consume(c)
      PROVE  ModeInv'
  <2>1. inst' = inst /\ approvals' = approvals
    BY <1>6 DEF Fresh, Prepare, Enter, ReadGraph, WriteGraph, Materialize, Verify, Consume,
                registry
  <2> QED BY <1>1, <2>1
<1> QED BY <1>2, <1>3, <1>4, <1>5, <1>6, StepKinds

\* Every step keeps the journal to one unfinished operation, whose source stays.
LEMMA JournalNext ==
  ASSUME TypeInv, ModeInv, JournalInv, CallInv, HolderInv, [Next]_vars
  PROVE  JournalInv'
<1>1. ASSUME Keep PROVE JournalInv'
  <2>1. ASSUME NEW j \in Unfinished', SourceChecked(j) PROVE inst' = j.src
    <3>1. PICK i \in Unfinished : Alike(i, j)
      BY <1>1 DEF Keep, SameJournal
    <3>2. SourceChecked(i) /\ i.src = j.src
      BY <2>1, <3>1 DEF Alike, SourceChecked, IsRollout
    <3> QED BY <1>1, <3>2 DEF Keep, JournalInv
  <2> QED BY <1>1, <2>1 DEF Keep, SameJournal, JournalInv, SourceChecked, IsRollout
<1>2. ASSUME journal' = journal, inst' = inst PROVE JournalInv'
  BY <1>2 DEF JournalInv, KeysDiffer, Unfinished, SourceChecked, IsRollout
<1>3. ASSUME NEW c \in Callers, Fresh(c) PROVE JournalInv'
  <2> DEFINE o == callers[c].op
  <2>1. /\ journal' = journal \cup {o} /\ inst' = inst /\ SourceHolds(o)
        /\ Unfinished = {} /\ \A k \in journal : k.key # o.key
    BY <1>3 DEF Fresh, Prepare
  <2>2. KeysDiffer'
    BY <2>1 DEF KeysDiffer, JournalInv
  <2>3. Unfinished' \subseteq {o}
    BY <2>1 DEF Unfinished
  <2> QED BY <2>1, <2>2, <2>3 DEF JournalInv, SourceHolds, SourceChecked, IsRollout
<1>4. ASSUME NEW c \in Callers, CommitRegistry(c) PROVE JournalInv'
  <2>0. PICK o : o = callers[c].op OBVIOUS
  <2>1. lease = c /\ inst' = Finished(o)
    BY <1>4, <2>0 DEF CommitRegistry
  <2>2. /\ OpOK(o) /\ Fits(o, inst)
        /\ Done(o.key) => o.action = "install"
    BY <2>0, <2>1, HolderEntry
  <2>3. /\ KeysDiffer' /\ Unfinished' \subseteq Unfinished
        /\ ~Done(o.key) => Unfinished' = {}
    BY <1>4, <2>0, CommitFields
  <2>4. ASSUME NEW j \in Unfinished', SourceChecked(j) PROVE inst' = j.src
    <3>1. o.action = "install" /\ j \in Unfinished
      BY <2>2, <2>3
    <3>2. inst = j.src /\ j.src \in Installations
      BY <2>4, <3>1 DEF JournalInv, TypeInv, Unfinished, OpOK, Shape, SourceChecked
    <3>3. inst' = inst
      BY <2>1, <2>2, <3>1, <3>2, FinishedFields, Constants
    <3> QED BY <3>2, <3>3
  <2> QED BY <2>3, <2>4 DEF JournalInv, SourceChecked, IsRollout
<1>5. ASSUME NEW c \in Callers,
             Enter(c) \/ ReadGraph(c) \/ WriteGraph(c) \/ Verify(c) \/ Consume(c)
      PROVE  JournalInv'
  <2>1. inst' = inst /\ journal' = journal
    BY <1>5 DEF Enter, ReadGraph, WriteGraph, Materialize, Verify, Consume, registry
  <2> QED BY <1>2, <2>1
<1>6. ASSUME NEW passed \in BOOLEAN, Test(passed) PROVE JournalInv'
  <2>1. Unfinished = {} /\ journal' = journal
    BY <1>6 DEF Test, Operable
  <2> QED BY <2>1 DEF JournalInv, KeysDiffer, Unfinished
<1>7. ASSUME NEW mode \in Rollouts, Approve(mode) PROVE JournalInv'
  BY <1>2, <1>7 DEF Approve
<1> QED BY <1>1, <1>3, <1>4, <1>5, <1>6, <1>7, StepKinds

\* Every step keeps prepared calls on record.
LEMMA CallsNext ==
  ASSUME TypeInv, ModeInv, JournalInv, CallInv, HolderInv, [Next]_vars
  PROVE  CallInv'
<1>1. \A i \in journal : \E j \in journal' : Alike(i, j)
  <2>1. ASSUME journal \subseteq journal' PROVE \A i \in journal : \E j \in journal' : Alike(i, j)
    BY <2>1 DEF Alike
  <2>2. CASE Keep
    BY <2>2 DEF Keep, SameJournal
  <2>3. ASSUME NEW c \in Callers, CommitRegistry(c)
        PROVE  \A i \in journal : \E j \in journal' : Alike(i, j)
    BY <2>3, CommitFields
  <2>4. ASSUME NEW c \in Callers,
               Fresh(c) \/ Enter(c) \/ ReadGraph(c) \/ WriteGraph(c) \/ Verify(c) \/ Consume(c)
        PROVE  journal \subseteq journal'
    BY <2>4 DEF Fresh, Enter, ReadGraph, WriteGraph, Materialize, Verify, Consume, registry
  <2>5. ASSUME \/ \E passed \in BOOLEAN : Test(passed)
               \/ \E mode \in Rollouts : Approve(mode)
        PROVE  journal \subseteq journal'
    BY <2>5 DEF Test, Approve
  <2> QED BY <2>1, <2>2, <2>3, <2>4, <2>5, StepKinds
<1>2. ASSUME NEW o, Journaled(o)
      PROVE  \E k \in journal' : k.key = o.key /\ (SourceChecked(o) => Alike(k, o))
  BY <1>1, <1>2 DEF Journaled, Alike
<1>3. ASSUME NEW c \in Callers, Prepare(c), callers'[c].at # "idle"
      PROVE  \E k \in journal' : k.key = callers[c].op.key
                                   /\ (SourceChecked(callers[c].op) => Alike(k, callers[c].op))
  <2> DEFINE o == callers[c].op
  <2>1. CASE o \in journal'
    BY <2>1 DEF Alike
  <2>2. CASE \E k \in journal : k.key = o.key
    <3>1. PICK k \in journal : k.key = o.key BY <2>2
    <3>2. SourceChecked(o) => Intent(k) = Intent(o)
      BY <1>3, <3>1 DEF Prepare
    <3>3. k \in Records /\ o \in Records
      BY <1>3 DEF TypeInv, OpOK, Prepare, At
    <3>4. Journaled(o)
      BY <3>1, <3>2, <3>3, IntentFields DEF Journaled
    <3> QED BY <1>2, <3>4
  <2>3. \/ o \in journal' \/ \E k \in journal : k.key = o.key
    BY <1>3 DEF Prepare
  <2> QED BY <2>1, <2>2, <2>3
<1>4. ASSUME NEW d \in Callers, InCall(d)'
      PROVE  Journaled(callers[d].op)'
  <2>1. CallStep(d) BY CallSteps
  <2>2. CASE callers'[d] = callers[d]
    <3>1. Journaled(callers[d].op) BY <1>4, <2>2 DEF CallInv, InCall
    <3>2. \E k \in journal' : k.key = callers[d].op.key
                               /\ (SourceChecked(callers[d].op) => Alike(k, callers[d].op))
      BY <1>2, <3>1
    <3> QED BY <2>2, <3>2 DEF Journaled
  <2>3. CASE callers'[d].op = callers[d].op /\ InCall(d)
    <3>1. Journaled(callers[d].op) BY <2>3 DEF CallInv
    <3>2. \E k \in journal' : k.key = callers[d].op.key
                               /\ (SourceChecked(callers[d].op) => Alike(k, callers[d].op))
      BY <1>2, <3>1
    <3> QED BY <2>3, <3>2 DEF Journaled
  <2>4. CASE callers'[d].op = callers[d].op /\ Prepare(d)
    <3>1. callers'[d].at # "idle" BY <1>4 DEF InCall
    <3>2. \E k \in journal' : k.key = callers[d].op.key
                               /\ (SourceChecked(callers[d].op) => Alike(k, callers[d].op))
      BY <1>3, <2>4, <3>1
    <3> QED BY <2>4, <3>2 DEF Journaled
  <2> QED BY <1>4, <2>1, <2>2, <2>3, <2>4 DEF CallStep, InCall
<1> QED BY <1>4 DEF CallInv

-----------------------------------------------------------------------------
\* A write to the loops: of a new receipt, or nothing.
LEMMA WriteFields ==
  ASSUME TypeInv, NEW c \in Callers, WriteGraph(c)
  PROVE  LET o == callers[c].op IN
         /\ At(c, "write") /\ OpOK(o)
         /\ UNCHANGED <<inst, journal, approvals, current, lease, consumer, requests, reapplied>>
         /\ callers'[c].at = IF Rebuilds(o) \/ o.action = "uninstall" THEN "verify" ELSE After(o)
         /\ callers'[c].op = o
         /\ \A d \in Callers \ {c} : callers'[d] = callers[d]
         /\ \/ /\ Recorded(c) # {} /\ UNCHANGED <<own, graphRevision, receipts, late>>
               /\ \E r \in Recorded(c) : r.loops = callers[c].write
            \/ /\ Recorded(c) = {} /\ own' = callers[c].write
               /\ callers[c].graphRevision = graphRevision
               /\ graphRevision' = graphRevision + 1
               /\ receipts' = receipts \cup {[key |-> CommitKey(c), loops |-> callers[c].write]}
               /\ late' = (late \/ lease # c)
<1> DEFINE o == callers[c].op
           next == IF Rebuilds(o) \/ o.action = "uninstall" THEN "verify" ELSE After(o)
<1>1. Materialize(c, next) BY DEF WriteGraph
<1>2. next \in Labels BY DEF After, Labels
<1>3. At(c, "write") /\ Go(c, next) BY <1>1 DEF Materialize
<1>4. OpOK(o) BY <1>3 DEF TypeInv, At
<1> HIDE DEF next
<1>5. UNCHANGED <<inst, journal, approvals, current, lease, consumer, requests, reapplied>>
  BY <1>1 DEF Materialize, registry, bounds
<1>6. \/ /\ Recorded(c) # {} /\ UNCHANGED <<own, graphRevision, receipts, late>>
         /\ \E r \in Recorded(c) : r.loops = callers[c].write
      \/ /\ Recorded(c) = {} /\ own' = callers[c].write
         /\ callers[c].graphRevision = graphRevision
         /\ graphRevision' = graphRevision + 1
         /\ receipts' = receipts \cup {[key |-> CommitKey(c), loops |-> callers[c].write]}
         /\ late' = (late \/ lease # c)
  BY <1>1 DEF Materialize, graph, Overtaken
<1>7. /\ callers'[c].at = next /\ callers'[c].op = o
      /\ \A d \in Callers \ {c} : callers'[d] = callers[d]
  BY <1>2, <1>3, GoFields
<1> QED BY <1>3, <1>4, <1>5, <1>6, <1>7 DEF next

\* Every step keeps the revisions in receipts past.
LEMMA RevisionsNext ==
  ASSUME CoreInv, [Next]_vars
  PROVE  RevisionInv'
<1> USE DEF CoreInv
<1>1. ASSUME receipts' = receipts, graphRevision <= graphRevision', graphRevision' \in Nat
      PROVE  RevisionInv'
  <2>1. graphRevision \in Nat BY DEF TypeInv
  <2> QED BY <1>1, <2>1 DEF RevisionInv
<1>2. ASSUME receipts' = receipts, graphRevision' = graphRevision PROVE RevisionInv'
  BY <1>2 DEF RevisionInv
<1>3. ASSUME NEW c \in Callers, WriteGraph(c) PROVE RevisionInv'
  <2> DEFINE o == callers[c].op
             r == [key |-> CommitKey(c), loops |-> callers[c].write]
  <2>1. CASE UNCHANGED <<graphRevision, receipts>>
    BY <1>2, <2>1
  <2>2. CASE /\ graphRevision' = graphRevision + 1 /\ receipts' = receipts \cup {r}
             /\ callers[c].graphRevision = graphRevision
    <3>1. graphRevision \in Nat BY DEF TypeInv
    <3>2. IsRollout(o) => r.key[3] = graphRevision
      BY <2>2 DEF CommitKey
    <3>3. ~IsRollout(o) => r.key[1] # "rollout"
      <4>1. OpOK(o) BY <1>3, WriteFields
      <4>2. o.action # "rollout" BY <4>1 DEF OpOK, Records, Actions
      <4> QED BY <4>1, <4>2 DEF CommitKey, OpOK, Shape
    <3> HIDE DEF r
    <3> QED BY <2>2, <3>1, <3>2, <3>3 DEF RevisionInv
  <2> QED BY <1>3, <2>1, <2>2, WriteFields
<1>4. ASSUME NEW c \in Callers,
             Fresh(c) \/ Enter(c) \/ ReadGraph(c) \/ Verify(c) \/ Consume(c) \/ CommitRegistry(c)
      PROVE  RevisionInv'
  <2>1. receipts' = receipts /\ graphRevision' = graphRevision
    BY <1>4 DEF Fresh, Prepare, Enter, ReadGraph, Verify, Consume, CommitRegistry, graph
  <2> QED BY <1>2, <2>1
<1>5. ASSUME \/ \E passed \in BOOLEAN : Test(passed)
             \/ \E mode \in Rollouts : Approve(mode)
      PROVE  RevisionInv'
  <2>1. receipts' = receipts /\ graphRevision' = graphRevision
    BY <1>5 DEF Test, Approve, graph
  <2> QED BY <1>2, <2>1
<1>6. ASSUME Keep PROVE RevisionInv'
  BY <1>1, <1>6 DEF Keep
<1> QED BY <1>3, <1>4, <1>5, <1>6, StepKinds

\* A call that has the lease and is not moved still has it by right, as long as
\* nobody changes the loops without it.
LEMMA OthersHold ==
  ASSUME NEW d \in Callers, Holds(d),
         callers'[d] = callers[d], UNCHANGED <<inst, journal, approvals, reapplied>>,
         current \subseteq current', late \in BOOLEAN, late => late',
         late' \/ (own' = own /\ receipts' = receipts)
  PROVE  Holds(d)'
<1>0. PICK call : call = callers[d] OBVIOUS
<1>1. HoldsAs(d, call)
  BY <1>0 DEF Holds
<1>2. PICK o : o = call.op OBVIOUS
<1>3. /\ Fits(o, inst) => (Fits(o, inst))'
      /\ (RegistryOnly(o) <=> RegistryOnly(o)')
      /\ \A key : Done(key)' <=> Done(key)
  BY DEF Fits, Usable, RegistryOnly, Done
<1>4. ASSUME ~late'
      PROVE  /\ ~late /\ Target(o)' = Target(o) /\ (Writable(o)' <=> Writable(o))
             /\ Receipts(call)' = Receipts(call) /\ own' = own
  BY <1>4 DEF Target, Rerouted, Writable, Receipts
<1>5. HoldsAs(d, call)'
  BY <1>1, <1>2, <1>3, <1>4 DEF HoldsAs
<1> QED BY <1>0, <1>5 DEF Holds

\* Who gets the lease may go on.
LEMMA EnterHolds ==
  ASSUME CoreInv, NEW c \in Callers, Enter(c)
  PROVE  Holds(c)'
<1> USE DEF CoreInv
<1>0. PICK o : o = callers[c].op OBVIOUS
<1>1. /\ At(c, "enter") /\ StillOpen(o) /\ Fits(o, inst) /\ current' = current \cup {c}
      /\ Go(c, IF RegistryOnly(o) THEN "commit" ELSE "read")
      /\ reapplied' = (reapplied \/ (inst = None /\ Entry(o).status = "completed"))
      /\ UNCHANGED <<inst, journal, approvals, own, late>>
  BY <1>0 DEF Enter, registry, graph
<1>2. PICK call : call = callers'[c] OBVIOUS
<1>3. call.op = o /\ call.at = IF RegistryOnly(o) THEN "commit" ELSE "read"
  <2>1. {"commit", "read"} \subseteq Labels BY DEF Labels
  <2> QED BY <1>0, <1>1, <1>2, <2>1, GoFields
<1>4. ~Done(o.key) \/ (o.action = "install" /\ (inst # None \/ reapplied'))
  <2>1. PICK k \in journal : k.key = o.key
    BY <1>0, <1>1 DEF CallInv, InCall, Journaled, At
  <2>2. Entry(o) = k
    BY <2>1, EntryFields DEF JournalInv, Statuses
  <2>3. k.status # "completed" => ~Done(o.key)
    BY <2>1 DEF Done, JournalInv, KeysDiffer
  <2> QED BY <1>1, <2>2, <2>3 DEF StillOpen
<1>5. /\ (Fits(o, inst))' /\ (RegistryOnly(o) <=> RegistryOnly(o)')
      /\ (Done(o.key)' <=> Done(o.key)) /\ inst' = inst
  BY <1>1 DEF Fits, Usable, RegistryOnly, Done
<1>6. RegistryOnly(o) => o.action \in {"install", "configure"}
  BY DEF RegistryOnly
<1>7. HoldsAs(c, call)'
  BY <1>1, <1>3, <1>4, <1>5, <1>6 DEF HoldsAs
<1> QED BY <1>2, <1>7 DEF Holds

\* A holder that reads the loops still holds.
LEMMA ReadHolds ==
  ASSUME CoreInv, NEW c \in Callers, ReadGraph(c), lease = c
  PROVE  Holds(c)'
<1> USE DEF CoreInv
<1>0. PICK o, call : o = callers[c].op /\ call = callers'[c] OBVIOUS
<1>1. /\ At(c, "read") /\ ~Drifted(o)
      /\ UNCHANGED <<inst, journal, approvals, own, late, current, receipts, reapplied>>
  BY <1>0 DEF ReadGraph, registry, graph, histories
<1>2. /\ call.at = IF Writes(o) THEN "write" ELSE After(o)
      /\ call.op = o /\ call.write = Target(o) /\ call.graphRevision = graphRevision
  BY <1>0, ReadFields
<1>3. OpOK(o) /\ Fits(o, inst) /\ HoldsAs(c, callers[c])
  BY <1>0, HolderEntry DEF Holds
<1>4. /\ ~RegistryOnly(o) /\ c \in current
      /\ ~Done(o.key) \/ (o.action = "install" /\ (inst # None \/ reapplied))
  BY <1>0, <1>1, <1>3 DEF HoldsAs, At
<1>5. /\ (Fits(o, inst))' /\ (RegistryOnly(o) <=> RegistryOnly(o)')
      /\ (Done(o.key)' <=> Done(o.key)) /\ Target(o)' = Target(o)
      /\ (Writable(o)' <=> Writable(o))
  BY <1>1, <1>3 DEF Fits, Usable, RegistryOnly, Done, Target, Rerouted, Writable
<1>6. Writable(o)
  BY <1>1 DEF Writable, Drifted, IsRollout
<1>7. o.action \in Actions /\ o.action # "configure"
  BY <1>3, <1>4 DEF OpOK, Records, RegistryOnly
<1>8. ~Writes(o) => own = Target(o)
  <2>1. CASE IsRollout(o)
    BY <2>1 DEF Writes, IsRollout
  <2>2. CASE ~IsRollout(o)
    BY <1>1, <1>3, <2>2 DEF Writes, Drifted, Target, IsRollout, OpOK, Shape
  <2> QED BY <2>1, <2>2
<1>9. IsRollout(o) => Receipts(call)' = {}
  <2>1. ASSUME IsRollout(o), NEW r \in receipts,
               r.key = <<"rollout", call.write, call.graphRevision>>
        PROVE  FALSE
    <3>1. r.key[1] = "rollout" /\ r.key[3] = graphRevision
      BY <1>2, <2>1
    <3> QED BY <2>1, <3>1 DEF RevisionInv, TypeInv
  <2> QED BY <1>1, <1>2, <2>1 DEF Receipts
<1>10. /\ call.at \in {"write", "consume", "commit"}
       /\ call.at = "consume" => o.action \in {"install", "uninstall"}
       /\ call.at \in {"consume", "commit"} => ~Writes(o)
  BY <1>2 DEF After
<1>11. HoldsAs(c, call)'
  BY <1>1, <1>2, <1>4, <1>5, <1>6, <1>8, <1>9, <1>10 DEF HoldsAs
<1> QED BY <1>0, <1>11 DEF Holds

\* So does one that writes them,
LEMMA WriteHolds ==
  ASSUME CoreInv, NEW c \in Callers, WriteGraph(c), lease = c
  PROVE  Holds(c)'
<1> USE DEF CoreInv
<1>0. PICK o, old, call : o = callers[c].op /\ old = callers[c] /\ call = callers'[c] OBVIOUS
<1>1. /\ old.at = "write" /\ OpOK(o)
      /\ UNCHANGED <<inst, journal, approvals, current, reapplied>>
      /\ call.at = IF Rebuilds(o) \/ o.action = "uninstall" THEN "verify" ELSE After(o)
      /\ call.op = o
  BY <1>0, WriteFields DEF At
<1>2. HoldsAs(c, old) BY <1>0, HolderEntry DEF Holds
<1>3. /\ ~RegistryOnly(o) /\ c \in current /\ Fits(o, inst)
      /\ ~Done(o.key) \/ (o.action = "install" /\ (inst # None \/ reapplied))
  BY <1>0, <1>1, <1>2 DEF HoldsAs
<1>4. /\ (Fits(o, inst))' /\ (RegistryOnly(o) <=> RegistryOnly(o)')
      /\ (Done(o.key)' <=> Done(o.key))
  BY <1>1, <1>3 DEF Fits, Usable, RegistryOnly, Done
<1>5. /\ call.at \in {"verify", "consume", "commit"}
      /\ call.at = "verify" => Rebuilds(o) \/ o.action = "uninstall"
      /\ call.at = "consume" => o.action = "install"
  BY <1>1 DEF After
<1>6. ASSUME ~late', call.at = "commit"
      PROVE  own' = Target(o)' /\ Writable(o)'
  <2>1. IsRollout(o)
    <3>1. o.action \in Actions \ {"install", "configure"}
      BY <1>1, <1>3, <1>6 DEF OpOK, Records, RegistryOnly, After
    <3> QED BY <1>1, <1>6, <3>1 DEF Actions, Rebuilds, IsRollout
  <2>2. ~late
    <3>1. late' = late \/ late' = (late \/ lease # c) BY WriteFields
    <3> QED BY <1>6, <3>1 DEF TypeInv
  <2>3. old.write = Target(o) /\ own # None /\ Receipts(old) = {}
    BY <1>0, <1>1, <1>2, <2>1, <2>2 DEF HoldsAs, Writable
  <2>4. Recorded(c) = {}
    BY <1>0, <2>3 DEF Recorded, CommitKey, Receipts
  <2>5. own' = Target(o)
    BY <1>0, <2>3, <2>4, WriteFields
  <2>6. own \in Loops /\ Target(o) = [own EXCEPT !.routing = RoutingFor(o)]
    BY <2>1, <2>3 DEF Target, Rerouted, TypeInv, Maybe
  <2>7. own' # None /\ own' = [own' EXCEPT !.routing = RoutingFor(o)]
    <3>1. own' \in [version : Versions, routing : {RoutingFor(o)}]
      BY <2>5, <2>6 DEF Loops
    <3>2. own' \in Loops
      <4>1. RoutingFor(o) \in Rollouts
        BY <1>1, <2>1 DEF OpOK, Shape, RoutingFor, IsRollout, Rollouts, Approvals
      <4> QED BY <3>1, <4>1 DEF Loops
    <3> QED BY <3>1, <3>2, Constants
  <2> QED BY <2>1, <2>7 DEF Target, Rerouted, Writable, RoutingFor, IsRollout
<1>7. HoldsAs(c, call)'
  BY <1>1, <1>3, <1>4, <1>5, <1>6 DEF HoldsAs
<1> QED BY <1>0, <1>7 DEF Holds

\* and one that checks them or tells the consumers.
LEMMA VerifyHolds ==
  ASSUME CoreInv, NEW c \in Callers, Verify(c) \/ Consume(c), lease = c
  PROVE  Holds(c)'
<1> USE DEF CoreInv
<1>0. PICK o, old, call : o = callers[c].op /\ old = callers[c] /\ call = callers'[c] OBVIOUS
<1>1. UNCHANGED <<inst, journal, approvals, current, own, receipts, reapplied>>
  BY DEF Verify, Consume, registry, graph, histories
<1>2. late' = late
  BY DEF Verify, Consume, Overtaken, histories, TypeInv
<1>3. HoldsAs(c, old) /\ OpOK(o) BY <1>0, HolderEntry DEF Holds
<1>4. /\ old.at \in {"verify", "consume"} /\ call.op = o
      /\ old.at = "verify" => call.at = After(o) /\ own = o.to
      /\ old.at = "consume" => call.at = "commit"
  <2>1. After(o) \in Labels /\ "commit" \in Labels
    BY DEF After, Labels
  <2> QED BY <1>0, <2>1, GoFields DEF Verify, Consume, At
<1>5. /\ ~RegistryOnly(o) /\ c \in current /\ Fits(o, inst)
      /\ ~Done(o.key) \/ (o.action = "install" /\ (inst # None \/ reapplied))
      /\ old.at = "verify" => Rebuilds(o) \/ o.action = "uninstall"
      /\ old.at = "consume" => o.action \in {"install", "uninstall"}
      /\ ~late /\ old.at = "consume" /\ o.action = "uninstall" => own = Target(o)
  BY <1>0, <1>3, <1>4 DEF HoldsAs
<1>6. /\ (Fits(o, inst))' /\ (RegistryOnly(o) <=> RegistryOnly(o)')
      /\ (Done(o.key)' <=> Done(o.key)) /\ Target(o)' = Target(o)
      /\ (Writable(o)' <=> Writable(o))
  BY <1>1, <1>5 DEF Fits, Usable, RegistryOnly, Done, Target, Rerouted, Writable
<1>7. ~late /\ o.action # "install" => own = Target(o) /\ Writable(o)
  BY <1>4, <1>5 DEF Target, Writable, IsRollout, Rebuilds
<1>8. /\ call.at \in {"consume", "commit"}
      /\ call.at = "consume" => o.action \in {"install", "uninstall"}
  BY <1>4 DEF After
<1>9. HoldsAs(c, call)'
  BY <1>1, <1>2, <1>4, <1>5, <1>6, <1>7, <1>8 DEF HoldsAs
<1> QED BY <1>0, <1>9 DEF Holds

\* Every step keeps what is true of the holder of the lease.
LEMMA HoldersNext ==
  ASSUME CoreInv, [Next]_vars
  PROVE  HolderInv'
<1> USE DEF CoreInv
<1>1. ASSUME Keep PROVE HolderInv'
  <2>1. ASSUME NEW d \in Callers, lease' = d PROVE Holds(d)'
    <3>1. lease = d /\ callers'[d] = callers[d] /\ UNCHANGED <<journal, current>>
      BY <1>1, <2>1 DEF Keep, HoldersStay
    <3>2. Holds(d) BY <3>1 DEF HolderInv
    <3>3. /\ UNCHANGED <<inst, approvals, reapplied, own, receipts, late>>
          /\ late \in BOOLEAN
      BY <1>1 DEF Keep, TypeInv
    <3> QED BY <3>1, <3>2, <3>3, OthersHold
  <2> QED BY <2>1 DEF HolderInv
<1>2. ASSUME lease' \notin Callers PROVE HolderInv'
  BY <1>2 DEF HolderInv
<1>3. ASSUME NEW c \in Callers, Enter(c) PROVE HolderInv'
  <2>1. lease' = c BY <1>3 DEF Enter
  <2>2. Holds(c)' BY <1>3, EnterHolds
  <2>3. ASSUME NEW d \in Callers, lease' = d PROVE Holds(d)'
    <3>1. d = c BY <2>1, <2>3
    <3> QED BY <2>2, <3>1
  <2> QED BY <2>3 DEF HolderInv
<1>4. ASSUME NEW c \in Callers, ReadGraph(c) \/ WriteGraph(c) \/ Verify(c) \/ Consume(c)
      PROVE  HolderInv'
  <2>1. ASSUME lease = c PROVE Holds(c)'
    BY <1>4, <2>1, ReadHolds, WriteHolds, VerifyHolds
  <2>2. /\ UNCHANGED <<lease, inst, journal, approvals, current, reapplied>>
        /\ \A d \in Callers \ {c} : callers'[d] = callers[d]
        /\ late => late' /\ late \in BOOLEAN
        /\ late' \/ (own' = own /\ receipts' = receipts) \/ lease = c
    <3>1. CASE WriteGraph(c)
      BY <3>1, WriteFields DEF TypeInv
    <3>2. CASE ReadGraph(c)
      BY <3>2, ReadFields DEF ReadGraph, registry, graph, histories, TypeInv
    <3>3. CASE Verify(c) \/ Consume(c)
      BY <3>3 DEF Verify, Consume, Go, Overtaken, registry, graph, histories, TypeInv
    <3> QED BY <1>4, <3>1, <3>2, <3>3
  <2>3. ASSUME NEW d \in Callers \ {c}, lease' = d PROVE Holds(d)'
    <3>1. Holds(d) BY <2>2, <2>3 DEF HolderInv
    <3>2. late \in BOOLEAN BY DEF TypeInv
    <3> QED BY <2>2, <2>3, <3>1, <3>2, OthersHold
  <2>4. ASSUME NEW d \in Callers, lease' = d PROVE Holds(d)'
    <3>1. CASE d = c
      <4>1. Holds(c)' BY <2>1, <2>2, <2>4, <3>1
      <4> QED BY <3>1, <4>1
    <3> QED BY <2>3, <2>4, <3>1
  <2> QED BY <2>4 DEF HolderInv
<1>5. ASSUME \/ \E c \in Callers : Fresh(c) \/ CommitRegistry(c)
             \/ \E passed \in BOOLEAN : Test(passed)
             \/ \E mode \in Rollouts : Approve(mode)
      PROVE  lease' \notin Callers
  BY <1>5, Constants DEF Fresh, Prepare, CommitRegistry, Test, Approve, Operable
<1> QED BY <1>1, <1>2, <1>3, <1>4, <1>5, StepKinds

-----------------------------------------------------------------------------
\* The loops are of the version that is installed, or of the one that a repair,
\* an update or a rollback has got as far as writing.
VersionInv ==
  ~late /\ own # None =>
    IF inst = None THEN own = Compiled(1)
    ELSE own.version = inst.version \/ \E o \in Unfinished : Rebuilds(o) /\ own = o.to

\* While another operation has the lease no loops are half-way.
LEMMA HolderVersion ==
  ASSUME CoreInv, VersionInv, NEW c \in Callers, lease = c, ~late, own # None,
         inst # None, ~Done(callers[c].op.key), ~Rebuilds(callers[c].op)
  PROVE  own.version = inst.version
<1> DEFINE o == callers[c].op
<1>1. PICK k \in journal : k.action = o.action /\ Unfinished = {k}
  BY HolderEntry DEF CoreInv
<1>2. ~Rebuilds(k) BY <1>1 DEF Rebuilds
<1> QED BY <1>1, <1>2 DEF VersionInv

\* What the loops become under the lease.
LEMMA LoopsWritten ==
  ASSUME CoreInv, VersionInv, NEW c \in Callers, WriteGraph(c), ~late'
  PROVE  LET o == callers[c].op IN
         /\ ~late
         /\ \/ own' = own
            \/ own' = None /\ \E k \in Unfinished : k.action = "uninstall"
            \/ /\ inst = None /\ own' = Compiled(1)
               /\ o.action = "install" /\ (reapplied \/ \E k \in Unfinished : k.action = "install")
            \/ inst # None /\ \E k \in Unfinished : Rebuilds(k) /\ OpOK(k) /\ own' = k.to
            \/ /\ IsRollout(o) /\ OpOK(o) /\ Fits(o, inst) /\ own \in Loops /\ inst # None
               /\ own.version = inst.version
               /\ own' = [own EXCEPT !.routing = RoutingFor(o)]
               /\ \E k \in Unfinished : IsRollout(k)
<1> USE DEF CoreInv
<1>0. PICK o, old : o = callers[c].op /\ old = callers[c] OBVIOUS
<1>1. ~late /\ (own' = own \/ (lease = c /\ own' = old.write))
  <2>1. \/ late' = late /\ own' = own
        \/ late' = (late \/ lease # c) /\ own' = old.write
    BY <1>0, WriteFields
  <2> QED BY <2>1 DEF TypeInv
<1>2. ASSUME lease = c, own' = old.write
      PROVE  \/ own' = None /\ \E k \in Unfinished : k.action = "uninstall"
             \/ /\ inst = None /\ own' = Compiled(1)
                /\ o.action = "install" /\ (reapplied \/ \E k \in Unfinished : k.action = "install")
             \/ inst # None /\ \E k \in Unfinished : Rebuilds(k) /\ OpOK(k) /\ own' = k.to
             \/ /\ IsRollout(o) /\ OpOK(o) /\ Fits(o, inst) /\ own \in Loops /\ inst # None
                /\ own.version = inst.version
                /\ own' = [own EXCEPT !.routing = RoutingFor(o)]
                /\ \E k \in Unfinished : IsRollout(k)
  <2>1. old.at = "write" /\ OpOK(o) BY <1>0, WriteFields DEF At
  <2>2. HoldsAs(c, old) /\ Fits(o, inst) BY <1>0, <1>2, HolderEntry DEF Holds
  <2>3. own' = Target(o) /\ Writable(o) /\ ~RegistryOnly(o)
    BY <1>0, <1>1, <1>2, <2>1, <2>2 DEF HoldsAs
  <2>4. CASE o.action = "install"
    <3>1. inst = None BY <2>3, <2>4 DEF RegistryOnly
    <3>2. own' = Compiled(1) BY <2>1, <2>3, <2>4 DEF Target, IsRollout, OpOK, Shape
    <3>3. reapplied \/ \E k \in Unfinished : k.action = "install"
      <4>1. ~reapplied => ~Done(o.key) BY <1>0, <2>2, <3>1 DEF HoldsAs
      <4> QED BY <1>0, <1>2, <2>4, <4>1, HolderEntry
    <3> QED BY <2>4, <3>1, <3>2, <3>3
  <2>5. CASE Rebuilds(o)
    <3>1. SourceChecked(o) BY <2>5 DEF SourceChecked, IsRollout, Rebuilds
    <3>2. PICK k \in journal : k.action = o.action /\ OpOK(k) /\ Alike(k, o) /\ Unfinished = {k}
      BY <1>0, <1>2, <2>5, <3>1, HolderEntry DEF Rebuilds
    <3>3. Rebuilds(k) /\ own' = k.to
      BY <2>3, <2>5, <3>1, <3>2 DEF Rebuilds, Target, SourceChecked, Alike
    <3>4. inst # None
      <4>1. inst = o.src BY <2>2, <2>5 DEF Fits, Rebuilds
      <4>2. o.src \in Installations BY <2>1, <2>5 DEF OpOK, Shape, Rebuilds
      <4> QED BY <4>1, <4>2, Constants
    <3> QED BY <3>2, <3>3, <3>4
  <2>6. CASE o.action = "uninstall"
    <3>1. own' = None BY <2>1, <2>3, <2>6 DEF Target, IsRollout, OpOK, Shape
    <3>2. \E k \in Unfinished : k.action = "uninstall" BY <1>0, <1>2, <2>6, HolderEntry
    <3> QED BY <3>1, <3>2
  <2>7. CASE IsRollout(o)
    <3>1. own # None /\ own \in Loops BY <2>3, <2>7 DEF Writable, TypeInv, Maybe
    <3>2. inst # None BY <2>2, <2>7 DEF Fits, IsRollout
    <3>3. ~Done(o.key) /\ ~Rebuilds(o)
      BY <1>0, <1>2, <2>7, HolderEntry DEF IsRollout, Rebuilds
    <3>4. own.version = inst.version
      BY <1>0, <1>1, <1>2, <3>1, <3>2, <3>3, HolderVersion
    <3>5. \E k \in Unfinished : IsRollout(k)
      BY <1>0, <1>2, <2>7, <3>3, HolderEntry DEF IsRollout
    <3> QED BY <2>1, <2>2, <2>3, <2>7, <3>1, <3>2, <3>4, <3>5 DEF Target, Rerouted
  <2>8. o.action # "configure" BY <2>3 DEF RegistryOnly
  <2> QED BY <2>1, <2>4, <2>5, <2>6, <2>7, <2>8 DEF OpOK, Records, Actions, Rebuilds, IsRollout
<1> QED BY <1>0, <1>1, <1>2

\* Once somebody wrote without the lease, that stays on record.
LEMMA LateStays ==
  ASSUME NEW c \in Callers, late,
         Fresh(c) \/ Enter(c) \/ ReadGraph(c) \/ Verify(c) \/ Consume(c)
  PROVE  late'
<1>1. CASE Consume(c)
  BY <1>1 DEF Consume, Overtaken
<1>2. CASE ~Consume(c)
  <2>1. late' = late
    BY <1>2 DEF Fresh, Prepare, Enter, ReadGraph, Verify, histories
  <2> QED BY <2>1
<1> QED BY <1>1, <1>2

\* Every step keeps loops to the installed version or the one under way.
LEMMA VersionsNext ==
  ASSUME CoreInv, VersionInv, [Next]_vars
  PROVE  VersionInv'
<1> USE DEF CoreInv
<1>1. ASSUME Keep PROVE VersionInv'
  <2>1. UNCHANGED <<inst, own, late>> BY <1>1 DEF Keep
  <2>2. ASSUME NEW o \in Unfinished, Rebuilds(o)
        PROVE  \E j \in Unfinished' : Rebuilds(j) /\ j.to = o.to
    BY <1>1, <2>2 DEF Keep, SameJournal, Alike, Rebuilds
  <2> QED BY <2>1, <2>2 DEF VersionInv, Compiled, Rebuilds
<1>2. ASSUME inst' = inst, own' = own, Unfinished \subseteq Unfinished', late => late'
      PROVE  VersionInv'
  BY <1>2 DEF VersionInv, Compiled, Rebuilds
<1>3. ASSUME NEW c \in Callers, Fresh(c) \/ Enter(c) \/ ReadGraph(c) \/ Verify(c) \/ Consume(c)
      PROVE  VersionInv'
  <2>1. inst' = inst /\ own' = own /\ journal \subseteq journal'
    BY <1>3 DEF Fresh, Prepare, Enter, ReadGraph, Verify, Consume, registry, graph
  <2>3. late => late' BY <1>3, LateStays
  <2>2. Unfinished \subseteq Unfinished' BY <2>1 DEF Unfinished
  <2> QED BY <1>2, <2>1, <2>2, <2>3
<1>4. ASSUME NEW c \in Callers, WriteGraph(c) PROVE VersionInv'
  <2>1. inst' = inst /\ journal' = journal BY <1>4, WriteFields
  <2>2. Unfinished' = Unfinished BY <2>1 DEF Unfinished
  <2>3. CASE late' BY <2>3 DEF VersionInv
  <2>4. CASE ~late' /\ own' = own
    <3>1. ~late BY <1>4, <2>4, LoopsWritten
    <3> QED BY <1>2, <2>1, <2>2, <2>4, <3>1
  <2>5. CASE ~late' /\ own' # own
    <3> DEFINE o == callers[c].op
    <3>1. \/ own' = None
          \/ inst = None /\ own' = Compiled(1)
          \/ inst # None /\ \E k \in Unfinished : Rebuilds(k) /\ OpOK(k) /\ own' = k.to
          \/ /\ own \in Loops /\ inst # None /\ own.version = inst.version
             /\ own' = [own EXCEPT !.routing = RoutingFor(o)]
      BY <1>4, <2>5, LoopsWritten
    <3>2. own \in Loops /\ own' = [own EXCEPT !.routing = RoutingFor(o)]
            => own'.version = own.version
      BY DEF Loops
    <3> QED BY <2>1, <2>2, <3>1, <3>2 DEF VersionInv, Compiled, Rebuilds
  <2> QED BY <2>3, <2>4, <2>5
<1>5. ASSUME NEW c \in Callers, CommitRegistry(c), ~late', own' # None PROVE VersionInv'
  <2>0. PICK o, old : o = callers[c].op /\ old = callers[c] OBVIOUS
  <2>1. /\ lease = c /\ inst' = Finished(o) /\ own' = own /\ late' = late /\ old.at = "commit"
    BY <1>5, <2>0 DEF CommitRegistry, graph, histories, At
  <2>2. OpOK(o) /\ Fits(o, inst) /\ HoldsAs(c, old) /\ (Done(o.key) => o.action = "install")
    BY <2>0, <2>1, HolderEntry DEF Holds
  <2>10. ~late BY <1>5, <2>1
  <2>3. ASSUME inst # None, ~Done(o.key), ~Rebuilds(o) PROVE own.version = inst.version
    BY <1>5, <2>0, <2>1, <2>3, HolderVersion
  <2>4. CASE o.action = "install" /\ inst # None
    <3>1. inst' = inst BY <2>1, <2>2, <2>4, FinishedFields
    <3>2. CASE Done(o.key)
      <4>1. /\ Unfinished' \subseteq Unfinished
            /\ \A j \in Unfinished : j.key # o.key => j \in Unfinished'
        BY <1>5, <2>0, CommitFields
      <4>2. ASSUME NEW j \in Unfinished, Rebuilds(j) PROVE j.key # o.key
        BY <2>2, <2>4, <4>2 DEF TypeInv, Unfinished, OpOK, Shape, Rebuilds
      <4> QED BY <2>1, <2>4, <3>1, <4>1, <4>2 DEF VersionInv, Rebuilds
    <3>3. CASE ~Done(o.key)
      <4>1. own.version = inst.version BY <2>3, <2>4, <3>3 DEF Rebuilds
      <4> QED BY <2>1, <2>4, <3>1, <4>1 DEF VersionInv
    <3> QED BY <3>2, <3>3
  <2>5. CASE o.action = "install" /\ inst = None
    <3>1. inst' = o.dst /\ o.dst.version = 1 /\ o.dst \in Installations
      BY <2>1, <2>2, <2>5, FinishedFields DEF OpOK, Shape, IsRollout
    <3>2. own = Compiled(1) BY <1>5, <2>1, <2>5 DEF VersionInv
    <3>3. own.version = 1 BY <3>2, CompiledIsLoops, Constants
    <3> QED BY <2>1, <3>1, <3>3, Constants DEF VersionInv
  <2>6. CASE o.action = "configure"
    <3>1. inst' = o.dst /\ o.dst.version = o.src.version /\ o.dst \in Installations
          /\ inst = o.src /\ o.src \in Installations
      BY <2>1, <2>2, <2>6, FinishedFields DEF OpOK, Shape, IsRollout, Fits
    <3>2. own.version = inst.version
      BY <2>2, <2>3, <2>6, <3>1, Constants DEF Rebuilds
    <3> QED BY <2>1, <3>1, <3>2, Constants DEF VersionInv
  <2>7. CASE Rebuilds(o)
    <3>1. inst' = o.dst /\ o.dst \in Installations /\ o.to = Compiled(o.dst.version)
      BY <2>1, <2>2, <2>7, FinishedFields DEF OpOK, Shape, IsRollout, Rebuilds
    <3>2. own = o.to
      BY <2>0, <2>1, <2>2, <2>7, <2>10 DEF HoldsAs, Rebuilds, Target, IsRollout
    <3>3. own.version = o.dst.version
      BY <3>1, <3>2 DEF Compiled
    <3> QED BY <2>1, <3>1, <3>3, Constants DEF VersionInv
  <2>8. CASE o.action = "uninstall"
    <3>1. own = None
      BY <2>0, <2>1, <2>2, <2>8, <2>10 DEF HoldsAs, Target, IsRollout, OpOK, Shape
    <3> QED BY <1>5, <2>1, <3>1
  <2>9. CASE IsRollout(o)
    <3>1. inst' # None /\ inst # None /\ inst'.version = inst.version
      BY <2>1, <2>2, <2>9, FinishedFields, Constants
    <3>2. own.version = inst.version
      BY <2>2, <2>3, <2>9, <3>1 DEF IsRollout, Rebuilds
    <3> QED BY <2>1, <3>1, <3>2 DEF VersionInv
  <2> QED BY <2>2, <2>4, <2>5, <2>6, <2>7, <2>8, <2>9
       DEF OpOK, Records, Actions, Rebuilds, IsRollout
<1>6. ASSUME NEW passed \in BOOLEAN, Test(passed) PROVE VersionInv'
  <2>1. inst \in Installations /\ inst' \in Installations /\ inst'.version = inst.version
    BY <1>6, TestFields
  <2>2. Unfinished = {} /\ own' = own /\ late' = late
    BY <1>6 DEF Test, Operable, graph, histories
  <2> QED BY <2>1, <2>2, Constants DEF VersionInv
<1>7. ASSUME NEW mode \in Rollouts, Approve(mode) PROVE VersionInv'
  <2>1. inst' = inst /\ own' = own /\ journal' = journal /\ late' = late
    BY <1>7 DEF Approve, graph, histories
  <2>2. Unfinished' = Unfinished BY <2>1 DEF Unfinished
  <2> QED BY <1>2, <2>1, <2>2
<1>8. ASSUME NEW c \in Callers, CommitRegistry(c) PROVE VersionInv'
  <2>1. CASE late' \/ own' = None BY <2>1 DEF VersionInv
  <2> QED BY <1>5, <1>8, <2>1
<1> QED BY <1>1, <1>3, <1>4, <1>6, <1>7, <1>8, StepKinds

\* Routing above shadow is given by a rollout alone, in the mode approved.
LEMMA RoutesNext ==
  ASSUME CoreInv, VersionInv, RoutesOnlyAsApproved, [Next]_vars
  PROVE  RoutesOnlyAsApproved'
<1> USE DEF CoreInv
<1>1. ASSUME own' = own, late => late',
             \A a \in approvals : \E b \in approvals' : b.version = a.version /\ b.mode = a.mode
      PROVE  RoutesOnlyAsApproved'
  BY <1>1 DEF RoutesOnlyAsApproved
<1>2. ASSUME Keep PROVE RoutesOnlyAsApproved'
  BY <1>1, <1>2 DEF Keep
<1>3. ASSUME NEW c \in Callers, Fresh(c) \/ Enter(c) \/ ReadGraph(c) \/ Verify(c) \/ Consume(c)
      PROVE  RoutesOnlyAsApproved'
  <2>1. approvals' = approvals /\ own' = own
    BY <1>3 DEF Fresh, Prepare, Enter, ReadGraph, Verify, Consume, registry, graph
  <2>2. late => late' BY <1>3, LateStays
  <2> QED BY <1>1, <2>1, <2>2
<1>4. ASSUME NEW c \in Callers, WriteGraph(c) PROVE RoutesOnlyAsApproved'
  <2> DEFINE o == callers[c].op
  <2>1. approvals' = approvals BY <1>4, WriteFields
  <2>2. CASE late' BY <2>2 DEF RoutesOnlyAsApproved
  <2>3. CASE ~late' /\ own' = own
    <3>1. ~late BY <1>4, <2>3, LoopsWritten
    <3> QED BY <1>1, <2>1, <2>3, <3>1
  <2>4. CASE ~late' /\ own' # own
    <3>1. \/ own' = None
          \/ own' = Compiled(1)
          \/ \E k \in Unfinished : Rebuilds(k) /\ OpOK(k) /\ own' = k.to
          \/ /\ IsRollout(o) /\ OpOK(o) /\ Fits(o, inst) /\ own \in Loops /\ inst # None
             /\ own.version = inst.version
             /\ own' = [own EXCEPT !.routing = RoutingFor(o)]
      BY <1>4, <2>4, LoopsWritten
    <3>2. ASSUME NEW v, own' = Compiled(v) PROVE RoutesOnlyAsApproved'
      BY <3>2 DEF RoutesOnlyAsApproved, Compiled
    <3>3. ASSUME NEW k \in Unfinished, Rebuilds(k), OpOK(k), own' = k.to
          PROVE  RoutesOnlyAsApproved'
      <4>1. own' = Compiled(k.dst.version) BY <3>3 DEF OpOK, Shape
      <4> QED BY <3>2, <4>1
    <3>4. ASSUME IsRollout(o), OpOK(o), Fits(o, inst), own \in Loops, inst # None,
                 own.version = inst.version, own' = [own EXCEPT !.routing = RoutingFor(o)]
          PROVE  RoutesOnlyAsApproved'
      <4>1. own'.version = inst.version /\ own'.routing = RoutingFor(o)
        BY <3>4 DEF Loops
      <4>2. CASE o.action = "pause"
        BY <4>1, <4>2 DEF RoutingFor, RoutesOnlyAsApproved
      <4>3. CASE o.action = "activate"
        <5>1. /\ o.key[2] \in approvals /\ o.key[2].version = inst.version
              /\ o.dst.mode = o.key[2].mode
          BY <3>4, <4>3 DEF Fits, Usable, OpOK, Shape
        <5> QED BY <2>1, <4>1, <4>3, <5>1 DEF RoutingFor, RoutesOnlyAsApproved
      <4>4. CASE o.action = "resume"
        <5>1. inst.state = o.src.state /\ inst.mode = o.src.mode
          BY <3>4, <4>4 DEF Fits
        <5>2. o.src.state = "paused" /\ o.dst.mode = o.src.mode
          BY <3>4, <4>4 DEF OpOK, Shape
        <5>3. \E a \in approvals : a.version = inst.version /\ a.mode = inst.mode
          BY <3>4, <5>1, <5>2 DEF ModeInv
        <5> QED BY <2>1, <4>1, <4>4, <5>1, <5>2, <5>3 DEF RoutingFor, RoutesOnlyAsApproved
      <4> QED BY <3>4, <4>2, <4>3, <4>4 DEF IsRollout
    <3>5. CASE own' = None BY <3>5 DEF RoutesOnlyAsApproved
    <3> QED BY <3>1, <3>2, <3>3, <3>4, <3>5
  <2> QED BY <2>2, <2>3, <2>4
<1>5. ASSUME NEW c \in Callers, CommitRegistry(c) PROVE RoutesOnlyAsApproved'
  <2>1. own' = own /\ late' = late BY <1>5 DEF CommitRegistry, graph, histories
  <2>2. OpOK(callers[c].op) /\ Fits(callers[c].op, inst)
    BY <1>5, HolderEntry DEF CommitRegistry
  <2> QED BY <1>1, <1>5, <2>1, <2>2, ApprovalsAfterCommit
<1>6. ASSUME \/ \E passed \in BOOLEAN : Test(passed)
             \/ \E mode \in Rollouts : Approve(mode)
      PROVE  RoutesOnlyAsApproved'
  <2>1. own' = own /\ late' = late /\ approvals \subseteq approvals'
    BY <1>6, ApproveFields DEF Test, Approve, graph, histories
  <2> QED BY <1>1, <2>1
<1> QED BY <1>2, <1>3, <1>4, <1>5, <1>6, StepKinds

-----------------------------------------------------------------------------
\* What registry, loops and consumer lists have in common when nothing is under
\* way, and what is left of it while an operation is.
Agree == /\ inst = None <=> own = None
         /\ consumer <=> inst # None
         /\ inst # None => own.version = inst.version
Full == Agree /\ (inst # None => own.routing = RoutingOf(inst) \/ Reconfigured(inst))

Settled(action) ==
  /\ action = "configure" => Full
  /\ action = "install" => inst = None \/ Full
  /\ action \in {"activate", "pause", "resume"} => Agree
  /\ action \in {"repair", "update", "rollback"} => own # None /\ consumer

AgreeInv ==
  ~Overwritten => /\ Unfinished = {} => Full
                  /\ \A o \in Unfinished : Settled(o.action)

\* The receipt of an install is there only if it was journaled, and says that
\* the loops are there until the install is finished.
ReceiptInv ==
  /\ \A r \in receipts : r.key[1] = "install" => \E k \in journal : k.key = r.key
  /\ ~Overwritten => \A o \in Unfinished :
       o.action = "install" /\ (\E r \in receipts : r.key = o.key) => own = Compiled(1)

\* What an install or an uninstall that has the lease has done.
DoneSoFar(call) ==
  ~Overwritten =>
    /\ call.at \in {"consume", "commit"} /\ call.op.action = "install" /\ inst = None =>
         own = Compiled(1)
    /\ call.at = "commit" /\ ~RegistryOnly(call.op) =>
         /\ call.op.action = "install" => consumer
         /\ call.op.action = "uninstall" => ~consumer
WorkInv == \A c \in Callers : lease = c => DoneSoFar(callers[c])

AgreementInv == CoreInv /\ VersionInv /\ AgreeInv /\ ReceiptInv /\ WorkInv

\* An install that has the lease, and writes, is the unfinished operation.
LEMMA InstallUnfinished ==
  ASSUME CoreInv, NEW c \in Callers, lease = c, ~reapplied,
         callers[c].op.action = "install", inst = None
  PROVE  \E k \in Unfinished : /\ Unfinished = {k} /\ k.key = callers[c].op.key
                               /\ k.action = "install"
<1>1. ~Done(callers[c].op.key)
  BY HolderEntry DEF CoreInv, Holds, HoldsAs
<1>2. PICK k \in journal : /\ k.key = callers[c].op.key /\ k.action = "install"
                           /\ Unfinished = {k}
  BY <1>1, HolderEntry DEF CoreInv
<1> QED BY <1>2

\* Every step keeps receipts of installs true.
LEMMA ReceiptsNext ==
  ASSUME AgreementInv, [Next]_vars
  PROVE  ReceiptInv'
<1> USE DEF AgreementInv, CoreInv
<1>1. \A i \in journal : \E j \in journal' : j.key = i.key
  <2>1. CASE Keep
    BY <2>1 DEF Keep, SameJournal, Alike
  <2>2. ASSUME NEW c \in Callers, CommitRegistry(c)
        PROVE  \A i \in journal : \E j \in journal' : j.key = i.key
    BY <2>2, CommitFields DEF Alike
  <2>3. ASSUME NEW c \in Callers,
               Fresh(c) \/ Enter(c) \/ ReadGraph(c) \/ WriteGraph(c) \/ Verify(c) \/ Consume(c)
        PROVE  journal \subseteq journal'
    BY <2>3 DEF Fresh, Enter, ReadGraph, WriteGraph, Materialize, Verify, Consume, registry
  <2>4. ASSUME \/ \E passed \in BOOLEAN : Test(passed)
               \/ \E mode \in Rollouts : Approve(mode)
        PROVE  journal \subseteq journal'
    BY <2>4 DEF Test, Approve
  <2> QED BY <2>1, <2>2, <2>3, <2>4, StepKinds
<1>2. ASSUME receipts' = receipts, own' = own, Overwritten => Overwritten',
             \A j \in Unfinished' : \E i \in Unfinished : i.key = j.key /\ i.action = j.action
      PROVE  ReceiptInv'
  BY <1>1, <1>2 DEF ReceiptInv, Compiled
<1>3. ASSUME Keep PROVE ReceiptInv'
  <2>1. \A j \in Unfinished' : \E i \in Unfinished : i.key = j.key /\ i.action = j.action
    BY <1>3 DEF Keep, SameJournal, Alike
  <2> QED BY <1>2, <1>3, <2>1 DEF Keep, Overwritten
<1>4. ASSUME NEW c \in Callers, Fresh(c) PROVE ReceiptInv'
  <2>0. PICK o : o = callers[c].op OBVIOUS
  <2>1. /\ receipts' = receipts /\ own' = own /\ (Overwritten' <=> Overwritten)
        /\ Unfinished = {} /\ \A k \in journal : k.key # o.key
        /\ journal' = journal \cup {o}
    BY <1>4, <2>0 DEF Fresh, Prepare, graph, histories, Overwritten
  <2>2. OpOK(o) BY <1>4, <2>0 DEF Fresh, Prepare, At, TypeInv
  <2>3. Unfinished' \subseteq {o} BY <2>1 DEF Unfinished
  <2>4. o.action = "install" => \A r \in receipts : r.key # o.key
    BY <2>1, <2>2 DEF ReceiptInv, OpOK, Shape
  <2> QED BY <1>1, <2>1, <2>3, <2>4 DEF ReceiptInv
<1>5. ASSUME NEW c \in Callers, Enter(c) \/ ReadGraph(c) \/ Verify(c) \/ Consume(c)
      PROVE  ReceiptInv'
  <2>1. receipts' = receipts /\ own' = own /\ journal' = journal
    BY <1>5 DEF Enter, ReadGraph, Verify, Consume, registry, graph
  <2>2. Overwritten => Overwritten'
    <3>1. late => late' BY <1>5, LateStays
    <3>2. reapplied => reapplied'
      <4>1. reapplied' = reapplied \/ Enter(c)
        BY <1>5 DEF ReadGraph, Verify, Consume, histories
      <4> QED BY <4>1 DEF Enter
    <3> QED BY <3>1, <3>2 DEF Overwritten
  <2> QED BY <1>2, <2>1, <2>2 DEF Unfinished
<1>6. ASSUME NEW c \in Callers, WriteGraph(c) PROVE ReceiptInv'
  <2>0. PICK o, r : o = callers[c].op /\ r = [key |-> CommitKey(c), loops |-> callers[c].write]
    OBVIOUS
  <2>1. UNCHANGED <<inst, journal, reapplied>> /\ OpOK(o) BY <1>6, <2>0, WriteFields
  <2>2. Unfinished' = Unfinished BY <2>1 DEF Unfinished
  <2>3. CASE UNCHANGED <<own, receipts, late>>
    BY <1>2, <2>1, <2>2, <2>3 DEF Overwritten
  <2>4. CASE receipts' = receipts \cup {r} /\ late' = (late \/ lease # c)
    <3>1. r.key[1] = "install" => r.key = o.key
      BY <2>0 DEF CommitKey
    <3>2. \E k \in journal : k.key = o.key
      BY <1>6, <2>0 DEF CallInv, InCall, Journaled, WriteGraph, Materialize, At
    <3>3. ASSUME ~Overwritten', NEW k \in Unfinished', k.action = "install",
                 NEW s \in receipts', s.key = k.key
          PROVE  own' = Compiled(1)
      <4>1. ~late' /\ ~late /\ ~reapplied /\ lease = c /\ ~Overwritten
        BY <2>1, <2>4, <3>3 DEF Overwritten, TypeInv
      <4>2. CASE own' = own
        <5>1. CASE s \in receipts
          <6>1. own = Compiled(1) BY <2>2, <3>3, <4>1, <5>1 DEF ReceiptInv
          <6> QED BY <4>2, <6>1
        <5>2. CASE s = r
          <6>1. k.key[1] = "install" BY <2>2, <3>3 DEF TypeInv, Unfinished, OpOK, Shape
          <6>2. o.action = "install" BY <2>1, <3>1, <3>3, <5>2, <6>1 DEF OpOK, Shape
          <6>3. /\ callers[c].at = "write"
                /\ HoldsAs(c, callers[c])
            BY <1>6, <4>1, HolderEntry, WriteFields DEF Holds, At
          <6>4. callers[c].write = Target(o)
            BY <2>0, <4>1, <6>3 DEF HoldsAs
          <6>5. own' = callers[c].write
            <7>1. Recorded(c) # {} => r \in receipts \/ own' = callers[c].write
              BY <1>6, <2>0, <2>4, WriteFields
            <7>2. r \in receipts => own = Compiled(1)
              BY <2>2, <3>3, <4>1, <5>2 DEF ReceiptInv
            <7>3. Target(o) = Compiled(1)
              BY <2>1, <6>2 DEF Target, IsRollout, OpOK, Shape
            <7> QED BY <1>6, <4>2, <6>4, <7>1, <7>2, <7>3, WriteFields
          <6> QED BY <2>1, <6>2, <6>4, <6>5 DEF Target, IsRollout, OpOK, Shape
        <5> QED BY <2>4, <3>3, <5>1, <5>2
      <4>3. CASE own' # own
        <5>1. \A i, j \in Unfinished : i = j BY DEF JournalInv
        <5>2. k \in Unfinished BY <2>2, <3>3
        <5> QED BY <1>6, <3>3, <4>1, <4>3, <5>1, <5>2, LoopsWritten DEF Rebuilds, IsRollout
      <4> QED BY <4>2, <4>3
    <3> QED BY <2>1, <2>4, <3>1, <3>2, <3>3 DEF ReceiptInv, Compiled
  <2> QED BY <1>6, <2>0, <2>3, <2>4, WriteFields
<1>7. ASSUME NEW c \in Callers, CommitRegistry(c) PROVE ReceiptInv'
  <2>1. receipts' = receipts /\ own' = own /\ (Overwritten' <=> Overwritten)
    BY <1>7 DEF CommitRegistry, graph, histories, Overwritten
  <2>2. Unfinished' \subseteq Unfinished BY <1>7, CommitFields
  <2> QED BY <1>2, <2>1, <2>2
<1>8. ASSUME \/ \E passed \in BOOLEAN : Test(passed)
             \/ \E mode \in Rollouts : Approve(mode)
      PROVE  ReceiptInv'
  <2>1. UNCHANGED <<receipts, own, journal, reapplied, late>>
    BY <1>8 DEF Test, Approve, graph, histories
  <2> QED BY <1>2, <2>1 DEF Unfinished, Overwritten
<1> QED BY <1>3, <1>4, <1>5, <1>6, <1>7, <1>8, StepKinds

\* What others do to the loops shows.
LEMMA WorkStays ==
  ASSUME NEW call, DoneSoFar(call), UNCHANGED inst, Overwritten => Overwritten',
         Overwritten' \/ (own' = own /\ consumer' = consumer)
  PROVE  DoneSoFar(call)'
<1>1. RegistryOnly(call.op)' <=> RegistryOnly(call.op)
  BY DEF RegistryOnly
<1>2. Compiled(1)' = Compiled(1)
  BY DEF Compiled
<1> QED BY <1>1, <1>2 DEF DoneSoFar

\* Every step keeps what the holder has done so far.
LEMMA WorkNext ==
  ASSUME AgreementInv, [Next]_vars
  PROVE  WorkInv'
<1> USE DEF AgreementInv, CoreInv
<1>1. ASSUME lease' \notin Callers PROVE WorkInv'
  BY <1>1 DEF WorkInv
<1>2. ASSUME NEW d \in Callers, lease = d, callers'[d] = callers[d], UNCHANGED inst,
             Overwritten => Overwritten',
             Overwritten' \/ (own' = own /\ consumer' = consumer)
      PROVE  DoneSoFar(callers[d])'
  <2>0. PICK call : call = callers[d] OBVIOUS
  <2>1. DoneSoFar(call) BY <1>2, <2>0 DEF WorkInv
  <2>2. DoneSoFar(call)' BY <1>2, <2>1, WorkStays
  <2> QED BY <1>2, <2>0, <2>2
<1>3. ASSUME Keep PROVE WorkInv'
  <2>1. ASSUME NEW d \in Callers, lease' = d PROVE DoneSoFar(callers[d])'
    <3>1. lease = d /\ callers'[d] = callers[d]
      BY <1>3, <2>1 DEF Keep, HoldersStay
    <3>2. UNCHANGED <<inst, own, consumer>> /\ (Overwritten => Overwritten')
      BY <1>3 DEF Keep, Overwritten
    <3> QED BY <1>2, <3>1, <3>2
  <2> QED BY <2>1 DEF WorkInv
<1>4. ASSUME NEW c \in Callers, Enter(c) PROVE WorkInv'
  <2>0. PICK o, call : o = callers[c].op /\ call = callers'[c] OBVIOUS
  <2>1. lease' = c /\ inst' = inst BY <1>4 DEF Enter, registry
  <2>2. call.op = o /\ call.at = IF RegistryOnly(o) THEN "commit" ELSE "read"
    <3>1. {"commit", "read"} \subseteq Labels BY DEF Labels
    <3> QED BY <1>4, <2>0, <3>1, GoFields DEF Enter
  <2>3. RegistryOnly(o)' <=> RegistryOnly(o) BY <2>1 DEF RegistryOnly
  <2>4. RegistryOnly(o) => ~(o.action = "install" /\ inst = None) BY DEF RegistryOnly
  <2>5. DoneSoFar(call)' BY <2>1, <2>2, <2>3, <2>4 DEF DoneSoFar
  <2>6. ASSUME NEW d \in Callers, lease' = d PROVE DoneSoFar(callers[d])'
    <3>1. d = c BY <2>1, <2>6
    <3> QED BY <2>0, <2>5, <3>1
  <2> QED BY <2>6 DEF WorkInv
<1>5. ASSUME NEW c \in Callers, ReadGraph(c) \/ WriteGraph(c) \/ Verify(c) \/ Consume(c)
      PROVE  WorkInv'
  <2>1. /\ UNCHANGED <<lease, inst, journal, reapplied>>
        /\ \A d \in Callers \ {c} : callers'[d] = callers[d]
    <3>1. CASE WriteGraph(c)
      BY <3>1, WriteFields
    <3>2. CASE ReadGraph(c)
      BY <3>2, ReadFields DEF ReadGraph, registry, histories
    <3>3. CASE Verify(c) \/ Consume(c)
      BY <3>3 DEF Verify, Consume, Go, registry, histories, TypeInv
    <3> QED BY <1>5, <3>1, <3>2, <3>3
  <2>2. late => late'
    <3>1. CASE WriteGraph(c)
      BY <3>1, WriteFields
    <3> QED BY <1>5, <3>1, LateStays
  <2>3. lease = c \/ late' \/ (own' = own /\ consumer' = consumer)
    <3>1. CASE WriteGraph(c)
      BY <3>1, WriteFields
    <3>2. CASE ReadGraph(c) \/ Verify(c)
      BY <3>2 DEF ReadGraph, Verify, graph
    <3>3. CASE Consume(c)
      BY <3>3 DEF Consume, Overtaken
    <3> QED BY <1>5, <3>1, <3>2, <3>3
  <2>4. ASSUME NEW d \in Callers \ {c}, lease' = d PROVE DoneSoFar(callers[d])'
    <3>1. Overwritten => Overwritten' BY <2>1, <2>2 DEF Overwritten
    <3>2. Overwritten' \/ (own' = own /\ consumer' = consumer)
      BY <2>1, <2>3, <2>4 DEF Overwritten
    <3> QED BY <1>2, <2>1, <2>4, <3>1, <3>2
  <2>5. ASSUME lease = c, ~Overwritten' PROVE DoneSoFar(callers[c])'
    <3>0. PICK o, old, call : o = callers[c].op /\ old = callers[c] /\ call = callers'[c]
      OBVIOUS
    <3>1. ~Overwritten /\ ~late /\ ~reapplied
      BY <2>1, <2>2, <2>5 DEF Overwritten
    <3>2. HoldsAs(c, old) /\ OpOK(o) BY <2>5, <3>0, HolderEntry DEF Holds
    <3>3. (RegistryOnly(o)' <=> RegistryOnly(o)) /\ Compiled(1)' = Compiled(1)
      BY <2>1 DEF RegistryOnly, Compiled
    <3>4. DoneSoFar(old) BY <2>5, <3>0 DEF WorkInv
    <3>5. CASE ReadGraph(c)
      <4>1. /\ call.at = IF Writes(o) THEN "write" ELSE After(o)
            /\ call.op = o
        BY <3>0, <3>5, ReadFields
      <4>2. o.action = "install" => Writes(o) BY DEF Writes, IsRollout
      <4>3. call.at = "commit" => o.action \notin {"install", "uninstall"}
        BY <4>1 DEF After
      <4> QED BY <3>0, <4>1, <4>2, <4>3 DEF DoneSoFar
    <3>6. CASE WriteGraph(c)
      <4>1. /\ old.at = "write" /\ call.op = o
            /\ call.at = IF Rebuilds(o) \/ o.action = "uninstall" THEN "verify" ELSE After(o)
        BY <3>0, <3>6, WriteFields DEF At
      <4>2. call.at = "commit" => o.action \notin {"install", "uninstall"}
        BY <4>1 DEF After
      <4>3. ASSUME o.action = "install", inst = None PROVE own' = Compiled(1)
        <5>1. old.write = Compiled(1)
          BY <3>0, <3>1, <3>2, <4>1, <4>3 DEF HoldsAs, Target, IsRollout, OpOK, Shape
        <5>2. PICK k \in Unfinished : k.key = o.key /\ k.action = "install"
          BY <2>5, <3>0, <3>1, <4>3, InstallUnfinished
        <5>3. Recorded(c) # {} => own = Compiled(1)
          BY <3>0, <3>1, <4>3, <5>2 DEF ReceiptInv, Recorded, CommitKey, IsRollout
        <5> QED BY <3>0, <3>6, <5>1, <5>3, WriteFields
      <4> QED BY <2>1, <3>0, <3>3, <4>1, <4>2, <4>3 DEF DoneSoFar
    <3>7. CASE Verify(c)
      <4>1. /\ old.at = "verify" /\ call.op = o /\ call.at = After(o)
        <5>1. After(o) \in Labels BY DEF After, Labels
        <5> QED BY <3>0, <3>7, <5>1, GoFields DEF Verify, At
      <4>2. o.action # "install" BY <3>0, <3>2, <4>1 DEF HoldsAs, Rebuilds
      <4> QED BY <3>0, <4>1, <4>2 DEF DoneSoFar, After
    <3>8. CASE Consume(c)
      <4>1. /\ old.at = "consume" /\ call.op = o /\ call.at = "commit"
            /\ consumer' = (o.action = "install") /\ own' = own
        <5>1. "commit" \in Labels BY DEF Labels
        <5> QED BY <3>0, <3>8, <5>1, GoFields DEF Consume, At, graph
      <4>2. o.action = "install" /\ inst = None => own = Compiled(1)
        BY <3>0, <3>1, <3>4, <4>1 DEF DoneSoFar
      <4> QED BY <2>1, <3>0, <3>3, <4>1, <4>2 DEF DoneSoFar
    <3> QED BY <1>5, <3>5, <3>6, <3>7, <3>8
  <2>6. ASSUME NEW d \in Callers, lease' = d PROVE DoneSoFar(callers[d])'
    <3>1. CASE d = c
      <4>1. DoneSoFar(callers[c])'
        <5>1. CASE Overwritten' BY <5>1 DEF DoneSoFar
        <5> QED BY <2>1, <2>5, <2>6, <3>1, <5>1
      <4> QED BY <3>1, <4>1
    <3> QED BY <2>4, <2>6, <3>1
  <2> QED BY <2>6 DEF WorkInv
<1>6. ASSUME \/ \E c \in Callers : Fresh(c) \/ CommitRegistry(c)
             \/ \E passed \in BOOLEAN : Test(passed)
             \/ \E mode \in Rollouts : Approve(mode)
      PROVE  lease' \notin Callers
  BY <1>6, Constants DEF Fresh, Prepare, CommitRegistry, Test, Approve, Operable
<1> QED BY <1>1, <1>3, <1>4, <1>5, <1>6, StepKinds

\* Without a change of the three, what they have in common stays.
LEMMA SettledStays ==
  ASSUME UNCHANGED <<inst, own, consumer>>, NEW action, Settled(action)
  PROVE  Settled(action)'
  BY DEF Settled, Full, Agree, RoutingOf, Reconfigured

\* Full agreement stays as long.
LEMMA FullStays ==
  ASSUME UNCHANGED <<inst, own, consumer>>, Full
  PROVE  Full'
  BY DEF Full, Agree, RoutingOf, Reconfigured

\* From agreement every operation may begin.
LEMMA FullIsSettled ==
  ASSUME TypeInv, Full, NEW o, OpOK(o), SourceHolds(o)
  PROVE  Settled(o.action)
<1>1. Rebuilds(o) => inst # None
  <2>1. Rebuilds(o) => inst = o.src /\ o.src \in Installations
    BY DEF SourceHolds, SourceChecked, IsRollout, Rebuilds, OpOK, Shape
  <2> QED BY <2>1, Constants
<1> QED BY <1>1 DEF Settled, Full, Agree, Rebuilds

\* What is agreed when an operation ends.
LEMMA CommitAgrees ==
  ASSUME AgreementInv, NEW c \in Callers, CommitRegistry(c), ~Overwritten,
         callers[c].op.action = "install" => inst = None
  PROVE  Full'
<1> USE DEF AgreementInv, CoreInv
<1>0. PICK o, old : o = callers[c].op /\ old = callers[c] OBVIOUS
<1>1. /\ lease = c /\ inst' = Finished(o) /\ own' = own /\ consumer' = consumer
      /\ old.at = "commit" /\ ~late /\ ~reapplied
  BY <1>0 DEF CommitRegistry, graph, Overwritten, At
<1>2. OpOK(o) /\ Fits(o, inst) /\ HoldsAs(c, old) /\ DoneSoFar(old)
  BY <1>0, <1>1, HolderEntry DEF Holds, WorkInv
<1>3. o.action \in Actions BY <1>2 DEF OpOK, Records
<1>4. o.action \notin {"install", "configure"} => own = Target(o) /\ Writable(o)
  BY <1>0, <1>1, <1>2 DEF HoldsAs
<1>5. \E k \in Unfinished : k.action = o.action
  <2>1. ~Done(o.key) BY <1>0, <1>1, <1>2 DEF HoldsAs
  <2> QED BY <1>0, <1>1, <2>1, HolderEntry
<1>6. Settled(o.action) BY <1>1, <1>5 DEF AgreeInv
<1>7. CASE o.action = "install"
  <2>1. inst = None BY <1>0, <1>7
  <2>2. own = Compiled(1) /\ consumer
    BY <1>0, <1>1, <1>2, <1>7, <2>1 DEF DoneSoFar, RegistryOnly, Overwritten
  <2>3. /\ inst' = o.dst /\ o.dst \in Installations
        /\ o.dst.version = 1 /\ o.dst.state = "ready_to_test"
    BY <1>1, <1>2, <1>7, <2>1, FinishedFields DEF OpOK, Shape, IsRollout
  <2>4. own \in Loops /\ own.version = 1 /\ own.routing = "shadow"
    BY <2>2, CompiledIsLoops, Constants
  <2> QED BY <1>1, <2>2, <2>3, <2>4, Constants DEF Full, Agree, RoutingOf, Rollouts
<1>8. CASE o.action = "configure"
  <2>1. /\ inst' = o.dst /\ o.dst \in Installations /\ inst = o.src /\ o.src \in Installations
        /\ o.dst.version = o.src.version /\ Reconfigured(o.dst)
    BY <1>1, <1>2, <1>8, FinishedFields DEF OpOK, Shape, IsRollout, Fits
  <2>2. Full BY <1>6, <1>8 DEF Settled
  <2>3. Reconfigured(inst)' BY <2>1 DEF Reconfigured
  <2> QED BY <1>1, <2>1, <2>2, <2>3, Constants DEF Full, Agree
<1>9. CASE Rebuilds(o)
  <2>1. /\ inst' = o.dst /\ o.dst \in Installations /\ o.to = Compiled(o.dst.version)
        /\ o.dst.state \in {"ready_to_test", "rolled_back"}
    BY <1>1, <1>2, <1>9, FinishedFields DEF OpOK, Shape, IsRollout, Rebuilds
  <2>2. own = o.to BY <1>4, <1>9 DEF Rebuilds, Target, IsRollout
  <2>3. own # None /\ consumer BY <1>6, <1>9 DEF Settled, Rebuilds
  <2>4. own.version = o.dst.version /\ own.routing = "shadow"
    BY <2>1, <2>2 DEF Compiled
  <2> QED BY <1>1, <2>1, <2>3, <2>4, Constants DEF Full, Agree, RoutingOf, Rollouts
<1>10. CASE o.action = "uninstall"
  <2>1. own = None BY <1>2, <1>4, <1>10 DEF Target, IsRollout, OpOK, Shape
  <2>2. ~consumer
    BY <1>0, <1>1, <1>2, <1>10 DEF DoneSoFar, RegistryOnly, Overwritten
  <2>3. inst' = None
    BY <1>1, <1>2, <1>10, FinishedFields DEF OpOK, Shape, IsRollout
  <2> QED BY <1>1, <2>1, <2>2, <2>3 DEF Full, Agree
<1>11. CASE IsRollout(o)
  <2>1. /\ inst \in Installations /\ inst' \in Installations /\ inst'.version = inst.version
        /\ inst'.state = o.dst.state
    BY <1>1, <1>2, <1>11, FinishedFields
  <2>2. Agree BY <1>6, <1>11 DEF Settled, IsRollout
  <2>3. own # None /\ own \in Loops /\ own = [own EXCEPT !.routing = RoutingFor(o)]
    BY <1>4, <1>11 DEF Writable, Target, Rerouted, IsRollout, TypeInv, Maybe
  <2>4. own.routing = RoutingFor(o)
    <3>1. [own EXCEPT !.routing = RoutingFor(o)].routing = RoutingFor(o)
      BY <2>3 DEF Loops
    <3> QED BY <2>3, <3>1
  <2>5. own.routing = RoutingOf(inst')
    <3>1. o.dst.state = IF o.action = "pause" THEN "paused" ELSE o.dst.mode
      BY <1>2, <1>11 DEF OpOK, Shape, IsRollout
    <3>2. o.action # "pause" => o.dst.mode \in Rollouts
      BY <1>2, <1>11 DEF OpOK, Shape, IsRollout, Approvals
    <3> QED BY <2>1, <2>4, <3>1, <3>2 DEF RoutingFor, RoutingOf, Rollouts
  <2>6. Agree'
    BY <1>1, <2>1, <2>2, <2>3, Constants DEF Agree
  <2>7. (own.routing = RoutingOf(inst))'
    BY <1>1, <2>5 DEF RoutingOf
  <2> QED BY <2>6, <2>7 DEF Full
<1> QED BY <1>3, <1>7, <1>8, <1>9, <1>10, <1>11 DEF Actions, Rebuilds, IsRollout

\* Every step keeps the agreement, or what is left of it.
LEMMA AgreementNext ==
  ASSUME AgreementInv, [Next]_vars
  PROVE  AgreeInv'
<1> USE DEF AgreementInv, CoreInv
<1>1. ASSUME UNCHANGED <<inst, own, consumer>>, Overwritten => Overwritten',
             \A j \in Unfinished' : \E i \in Unfinished : i.action = j.action,
             \A i \in Unfinished : \E j \in Unfinished' : i.action = j.action
      PROVE  AgreeInv'
  <2>1. ASSUME ~Overwritten', Unfinished' = {} PROVE Full'
    <3>1. Full BY <1>1, <2>1 DEF AgreeInv
    <3> QED BY <1>1, <3>1, FullStays
  <2>2. ASSUME ~Overwritten', NEW j \in Unfinished' PROVE Settled(j.action)'
    <3>0. PICK action : action = j.action OBVIOUS
    <3>1. Settled(action) BY <1>1, <2>2, <3>0 DEF AgreeInv
    <3>2. Settled(action)' BY <1>1, <3>1, SettledStays
    <3> QED BY <3>0, <3>2
  <2> QED BY <2>1, <2>2 DEF AgreeInv
<1>2. ASSUME Keep PROVE AgreeInv'
  <2>1. /\ \A j \in Unfinished' : \E i \in Unfinished : i.action = j.action
        /\ \A i \in Unfinished : \E j \in Unfinished' : i.action = j.action
    BY <1>2 DEF Keep, SameJournal, Alike
  <2> QED BY <1>1, <1>2, <2>1 DEF Keep, Overwritten
<1>3. ASSUME NEW c \in Callers, Fresh(c) PROVE AgreeInv'
  <2>0. PICK o : o = callers[c].op OBVIOUS
  <2>1. /\ UNCHANGED <<inst, own, consumer, late, reapplied>> /\ Unfinished = {}
        /\ journal' = journal \cup {o} /\ SourceHolds(o) /\ OpOK(o)
    BY <1>3, <2>0 DEF Fresh, Prepare, At, TypeInv, graph, histories
  <2>2. Unfinished' \subseteq {o} BY <2>1 DEF Unfinished
  <2>3. ASSUME ~Overwritten' PROVE Full' /\ Settled(o.action)'
    <3>1. Full BY <2>1, <2>3 DEF AgreeInv, Overwritten
    <3>2. Settled(o.action) BY <2>1, <3>1, FullIsSettled
    <3> QED BY <2>1, <3>1, <3>2, FullStays, SettledStays
  <2> QED BY <2>2, <2>3 DEF AgreeInv
<1>4. ASSUME NEW c \in Callers, Enter(c) \/ ReadGraph(c) \/ Verify(c) PROVE AgreeInv'
  <2>1. /\ UNCHANGED <<inst, own, consumer, journal, late>> /\ (reapplied => reapplied')
    <3>1. UNCHANGED <<inst, own, consumer, journal, late>>
      BY <1>4 DEF Enter, ReadGraph, Verify, registry, graph, histories
    <3>2. reapplied => reapplied'
      <4>1. reapplied' = reapplied \/ Enter(c)
        BY <1>4 DEF ReadGraph, Verify, histories
      <4> QED BY <4>1 DEF Enter
    <3> QED BY <3>1, <3>2
  <2> QED BY <1>1, <2>1 DEF Unfinished, Overwritten
<1>5. ASSUME NEW c \in Callers, WriteGraph(c) PROVE AgreeInv'
  <2>1. UNCHANGED <<inst, consumer, journal, reapplied>> /\ (late => late')
    BY <1>5, WriteFields
  <2>2. Unfinished' = Unfinished BY <2>1 DEF Unfinished
  <2>3. CASE own' = own
    BY <1>1, <2>1, <2>2, <2>3 DEF Overwritten
  <2>4. ASSUME ~Overwritten', own' # own, NEW j \in Unfinished
        PROVE  Settled(j.action)'
    <3>1. ~late' /\ ~late /\ ~reapplied /\ Settled(j.action)
      BY <2>1, <2>4 DEF Overwritten, AgreeInv
    <3>2. \A k \in Unfinished : k = j BY DEF JournalInv
    <3>3. CASE own' = None /\ \E k \in Unfinished : k.action = "uninstall"
      <4>1. j.action = "uninstall" BY <3>2, <3>3
      <4> QED BY <4>1 DEF Settled
    <3>4. CASE inst = None /\ \E k \in Unfinished : k.action = "install"
      <4>1. j.action = "install" BY <3>2, <3>4
      <4> QED BY <2>1, <3>4, <4>1 DEF Settled
    <3>5. CASE inst # None /\ \E k \in Unfinished : Rebuilds(k) /\ OpOK(k) /\ own' = k.to
      <4>1. Rebuilds(j) /\ OpOK(j) /\ own' = j.to BY <3>2, <3>5
      <4>2. own' \in Loops
        <5>1. j.dst \in Installations /\ j.to = Compiled(j.dst.version)
          BY <4>1 DEF OpOK, Shape, Rebuilds
        <5>2. j.dst.version \in Versions BY <5>1 DEF Installations
        <5> QED BY <4>1, <5>1, <5>2, CompiledIsLoops
      <4>3. own' # None /\ consumer'
        BY <2>1, <3>1, <4>1, <4>2, Constants DEF Settled, Rebuilds
      <4> QED BY <4>1, <4>3 DEF Settled, Rebuilds
    <3>6. CASE /\ own \in Loops /\ inst # None /\ own.version = inst.version
               /\ own' = [own EXCEPT !.routing = RoutingFor(callers[c].op)]
               /\ \E k \in Unfinished : IsRollout(k)
      <4>1. IsRollout(j) BY <3>2, <3>6
      <4>2. Agree BY <3>1, <4>1 DEF Settled, IsRollout
      <4>3. own' # None /\ own'.version = own.version
        <5> DEFINE w == [own EXCEPT !.routing = RoutingFor(callers[c].op)]
        <5>1. w \in [version : Versions, routing : {RoutingFor(callers[c].op)}]
              /\ w.version = own.version
          BY <3>6 DEF Loops
        <5>2. OpOK(callers[c].op) BY <1>5, WriteFields
        <5>3. own' \in Maybe(Loops) BY <1>5, GraphTypes
        <5>4. own' = w BY <3>6
        <5>5. own' # None
          <6>1. IsRollout(callers[c].op)
            BY <1>5, <2>4, <3>1, <3>2, <4>1, LoopsWritten DEF Rebuilds, IsRollout
          <6>2. RoutingFor(callers[c].op) \in Rollouts
            BY <5>2, <6>1 DEF OpOK, Shape, RoutingFor, IsRollout, Rollouts, Approvals
          <6>3. w \in Loops BY <5>1, <6>2 DEF Loops
          <6> QED BY <5>4, <6>3, Constants
        <5> QED BY <5>1, <5>4, <5>5
      <4>4. Agree' BY <2>1, <3>6, <4>2, <4>3 DEF Agree
      <4> QED BY <4>1, <4>4 DEF Settled, IsRollout
    <3> QED BY <1>5, <2>4, <3>1, <3>3, <3>4, <3>5, <3>6, LoopsWritten
  <2>5. ASSUME ~Overwritten', own' # own PROVE Unfinished # {}
    <3>1. ~late' /\ ~reapplied BY <2>1, <2>5 DEF Overwritten
    <3> QED BY <1>5, <2>5, <3>1, LoopsWritten
  <2> QED BY <2>2, <2>3, <2>4, <2>5 DEF AgreeInv
<1>6. ASSUME NEW c \in Callers, Consume(c) PROVE AgreeInv'
  <2>0. PICK o, old : o = callers[c].op /\ old = callers[c] OBVIOUS
  <2>1. /\ UNCHANGED <<inst, own, journal, reapplied>> /\ late' = (late \/ lease # c)
        /\ old.at = "consume"
    BY <1>6, <2>0 DEF Consume, Overtaken, registry, graph, At
  <2>2. Unfinished' = Unfinished BY <2>1 DEF Unfinished
  <2>3. ASSUME ~Overwritten' PROVE \E k \in Unfinished :
           /\ Unfinished = {k}
           /\ k.action = "uninstall" \/ (k.action = "install" /\ inst = None)
    <3>1. lease = c /\ ~late /\ ~reapplied BY <2>1, <2>3 DEF Overwritten
    <3>2. HoldsAs(c, old) BY <2>0, <3>1, HolderEntry DEF Holds
    <3>3. o.action \in {"install", "uninstall"} /\ ~RegistryOnly(o)
      BY <2>0, <2>1, <3>2 DEF HoldsAs
    <3>4. CASE o.action = "install"
      <4>1. inst = None BY <3>3, <3>4 DEF RegistryOnly
      <4> QED BY <2>0, <3>1, <3>4, <4>1, InstallUnfinished
    <3>5. CASE o.action = "uninstall"
      <4>1. PICK k \in journal : k.action = o.action /\ Unfinished = {k}
        BY <2>0, <3>1, <3>5, HolderEntry
      <4> QED BY <3>5, <4>1
    <3> QED BY <3>3, <3>4, <3>5
  <2> QED BY <2>1, <2>2, <2>3 DEF AgreeInv, Settled
<1>7. ASSUME NEW c \in Callers, CommitRegistry(c) PROVE AgreeInv'
  <2>0. PICK o : o = callers[c].op OBVIOUS
  <2>1. /\ lease = c /\ inst' = Finished(o)
        /\ UNCHANGED <<own, consumer, late, reapplied>>
    BY <1>7, <2>0 DEF CommitRegistry, graph, histories
  <2>2. OpOK(o) /\ Fits(o, inst) /\ Holds(c) /\ (Done(o.key) => o.action = "install")
    BY <2>0, <2>1, HolderEntry
  <2>3. /\ Unfinished' \subseteq Unfinished
        /\ \A j \in Unfinished : j.key # o.key => j \in Unfinished'
        /\ ~Done(o.key) => Unfinished' = {}
    BY <1>7, <2>0, CommitFields
  <2>4. CASE Overwritten'
    BY <2>4 DEF AgreeInv
  <2>5. CASE ~Overwritten' /\ (o.action = "install" => inst = None)
    <3>1. ~Overwritten BY <2>1, <2>5 DEF Overwritten
    <3>2. Full' BY <1>7, <2>0, <2>5, <3>1, CommitAgrees
    <3>3. ~Done(o.key)
      BY <2>0, <2>2, <2>5, <3>1 DEF Holds, HoldsAs, Overwritten
    <3> QED BY <2>3, <3>2, <3>3 DEF AgreeInv
  <2>6. CASE ~Overwritten' /\ o.action = "install" /\ inst # None
    <3>1. inst' = inst BY <2>1, <2>2, <2>6, FinishedFields
    <3>2. ~Overwritten BY <2>1, <2>6 DEF Overwritten
    <3>3. CASE Done(o.key)
      <4>1. \A j \in Unfinished : j.key # o.key
        BY <3>3 DEF Done, JournalInv, KeysDiffer, Unfinished
      <4>2. Unfinished' = Unfinished BY <2>3, <4>1
      <4> QED BY <1>1, <2>1, <3>1, <4>2 DEF Overwritten
    <3>4. CASE ~Done(o.key)
      <4>1. PICK k \in Unfinished : k.action = "install"
        BY <2>0, <2>1, <2>6, <3>4, HolderEntry
      <4>2. Full BY <2>6, <3>2, <4>1 DEF AgreeInv, Settled
      <4>3. Full' BY <2>1, <3>1, <4>2, FullStays
      <4> QED BY <2>3, <3>4, <4>3 DEF AgreeInv
    <3> QED BY <3>3, <3>4
  <2> QED BY <2>4, <2>5, <2>6
<1>8. ASSUME NEW passed \in BOOLEAN, Test(passed) PROVE AgreeInv'
  <2>1. /\ inst \in Installations /\ inst' \in Installations /\ inst'.version = inst.version
        /\ inst'.state \in {"simulation_passed", "broken"} /\ inst'.past = inst.past
    BY <1>8, TestFields
  <2>2. /\ Unfinished = {} /\ UNCHANGED <<own, consumer, journal, late, reapplied>>
        /\ inst.state \in {"ready_to_test", "simulation_passed", "shadow", "rolled_back"}
    BY <1>8 DEF Test, Operable, graph, histories
  <2>3. RoutingOf(inst) = "shadow" /\ RoutingOf(inst') = "shadow"
    BY <2>1, <2>2 DEF RoutingOf, Rollouts
  <2>4. Reconfigured(inst) => Reconfigured(inst')
    BY <2>1 DEF Reconfigured, Rollouts
  <2>5. ASSUME ~Overwritten' PROVE Full'
    <3>1. Full BY <2>2, <2>5 DEF AgreeInv, Overwritten
    <3>2. Agree' BY <2>1, <2>2, <3>1, Constants DEF Full, Agree
    <3>3. own.routing = RoutingOf(inst') \/ Reconfigured(inst')
      BY <2>1, <2>3, <2>4, <3>1, Constants DEF Full
    <3>4. (own.routing = RoutingOf(inst) \/ Reconfigured(inst))'
      BY <2>2, <3>3 DEF RoutingOf, Reconfigured
    <3> QED BY <3>2, <3>4 DEF Full
  <2>6. Unfinished' = {} BY <2>2 DEF Unfinished
  <2> QED BY <2>5, <2>6 DEF AgreeInv
<1>9. ASSUME NEW mode \in Rollouts, Approve(mode) PROVE AgreeInv'
  <2>1. UNCHANGED <<inst, own, consumer, journal, late, reapplied>>
    BY <1>9 DEF Approve, graph, histories
  <2> QED BY <1>1, <2>1 DEF Unfinished, Overwritten
<1> QED BY <1>2, <1>3, <1>4, <1>5, <1>6, <1>7, <1>8, <1>9, StepKinds

-----------------------------------------------------------------------------
\* The Apps a behaviour may begin with.
LEMMA AtrestTypes ==
  ASSUME NEW i \in Atrest
  PROVE  /\ i \in Installations /\ i # None /\ i.version = 1 /\ i.past = << >>
         /\ i.state \in Rollouts \cup {"paused"} =>
              i.mode \in Rollouts /\ (i.state \in Rollouts => i.mode = i.state)
<1> DEFINE E == [version : Versions, reason : {"configure", "repair", "update"}]
<1>1. << >> \in Seq(E) OBVIOUS
<1>2. i \in {Resting("simulation_passed", "simulation"), Resting("paused", "recommend"),
             Resting("recommend", "recommend")}
  BY DEF Atrest
<1>3. /\ i.version = 1 /\ i.past = << >>
      /\ i.state \in Rollouts \cup {"paused"} =>
              i.mode \in Rollouts /\ (i.state \in Rollouts => i.mode = i.state)
  BY <1>2 DEF Resting, Rollouts
<1>4. i \in Installations
  <2>1. ASSUME NEW s \in States, NEW m \in Rollouts \cup {"simulation"}
        PROVE  Resting(s, m) \in Installations
    <3> HIDE DEF E
    <3> QED BY <1>1, <2>1, Constants DEF Resting, Installations, E
  <2>2. {"simulation_passed", "paused", "recommend"} \subseteq States
        /\ {"simulation", "recommend"} \subseteq Rollouts \cup {"simulation"}
    BY DEF States, Rollouts
  <2> QED BY <1>2, <2>1, <2>2
<1> QED BY <1>3, <1>4, Constants

\* The invariants but for those of instants hold at the beginning.
LEMMA InitInv ==
  ASSUME Init
  PROVE  AgreementInv /\ RoutesOnlyAsApproved
<1>1. /\ journal = {} /\ current = {} /\ lease = None /\ graphRevision = 0 /\ receipts = {}
      /\ callers = [c \in Callers |-> Idle] /\ requests = 0
      /\ reapplied = FALSE /\ late = FALSE
  BY DEF Init
<1>2. \A c \in Callers : At(c, "idle") /\ callers[c] \in Calls
  BY <1>1 DEF Idle, At, Calls, Labels, Maybe
<1>3. Unfinished = {}
  BY <1>1 DEF Unfinished
<1>4. JournalInv /\ CallInv /\ HolderInv /\ RevisionInv /\ ReceiptInv /\ WorkInv
  <2>1. JournalInv BY <1>1, <1>3 DEF JournalInv, KeysDiffer
  <2>2. CallInv BY <1>2 DEF CallInv, InCall, At
  <2>3. HolderInv /\ WorkInv BY <1>1, Constants DEF HolderInv, WorkInv
  <2>4. RevisionInv /\ ReceiptInv BY <1>1, <1>3 DEF RevisionInv, ReceiptInv
  <2> QED BY <2>1, <2>2, <2>3, <2>4
<1>5. ASSUME inst \in Maybe(Installations), own \in Maybe(Loops), consumer \in BOOLEAN,
             approvals \subseteq Approvals
      PROVE  TypeInv
  <2>1. callers \in [Callers -> Calls] BY <1>1, <1>2
  <2>2. sharers \subseteq OtherApps /\ evidence \subseteq Evidence BY DEF Init
  <2> QED BY <1>1, <1>2, <1>5, <2>1, <2>2 DEF TypeInv
<1>6. ASSUME Full, ModeInv, TypeInv, RoutesOnlyAsApproved,
             inst = None \/ own = None \/ own.version = inst.version
      PROVE  AgreementInv /\ RoutesOnlyAsApproved
  <2>1. AgreeInv BY <1>3, <1>6 DEF AgreeInv
  <2>2. VersionInv BY <1>6 DEF VersionInv, Full, Agree
  <2> QED BY <1>4, <1>6, <2>1, <2>2 DEF AgreementInv, CoreInv
<1>7. CASE inst = None /\ own = None /\ consumer = FALSE /\ approvals = {}
  <2>1. TypeInv BY <1>5, <1>7 DEF Maybe
  <2>2. Full /\ ModeInv /\ RoutesOnlyAsApproved
    BY <1>7 DEF Full, Agree, ModeInv, RoutesOnlyAsApproved
  <2> QED BY <1>6, <1>7, <2>1, <2>2
<1>8. CASE /\ inst \in Atrest /\ consumer = TRUE
           /\ own = [version |-> 1,
                     routing |-> IF inst.state \in Rollouts THEN inst.state ELSE "shadow"]
           /\ approvals = IF inst.mode \in Rollouts THEN {Granted(inst.mode)} ELSE {}
  <2>1. /\ inst \in Installations /\ inst # None /\ inst.version = 1 /\ inst.past = << >>
        /\ inst.state \in Rollouts \cup {"paused"} =>
             inst.mode \in Rollouts /\ (inst.state \in Rollouts => inst.mode = inst.state)
    BY <1>8, AtrestTypes
  <2>2. own \in Loops /\ own # None /\ own.version = 1 /\ own.routing = RoutingOf(inst)
    <3>1. own.version = 1 /\ own.routing = RoutingOf(inst) BY <1>8 DEF RoutingOf
    <3>2. own \in Loops BY <1>8, Constants DEF Loops, Rollouts
    <3> QED BY <3>1, <3>2, Constants
  <2>3. ASSUME NEW mode \in Rollouts
        PROVE  /\ Granted(mode) \in Approvals /\ Granted(mode).version = 1
               /\ Granted(mode).mode = mode
    <3>1. "paused" \in States BY DEF States
    <3> QED BY <3>1, Constants DEF Granted, Approvals
  <2>4. approvals \subseteq Approvals BY <1>8, <2>3
  <2>5. TypeInv BY <1>5, <1>8, <2>1, <2>2, <2>4 DEF Maybe
  <2>6. inst.mode \in Rollouts => \E a \in approvals : a.version = 1 /\ a.mode = inst.mode
    BY <1>8, <2>3
  <2>7. ModeInv BY <2>1, <2>6 DEF ModeInv
  <2>8. Full BY <1>8, <2>1, <2>2 DEF Full, Agree
  <2>9. RoutesOnlyAsApproved
    BY <2>1, <2>2, <2>6 DEF RoutesOnlyAsApproved, RoutingOf
  <2> QED BY <1>6, <2>1, <2>2, <2>5, <2>7, <2>8, <2>9
<1> QED BY <1>7, <1>8 DEF Init

-----------------------------------------------------------------------------
\* The operations that somebody asks for or that are unfinished, and those of
\* them that may still change the installation.  Every one arrives at an instant
\* of its own, so that none brings back an installation that another started
\* from.
Known == {callers[c].op : c \in {d \in Callers : ~At(d, "idle")}} \cup Unfinished
Live == {o \in Known : ~Done(o.key)}

InstantInv ==
  ~reapplied =>
    /\ inst # None => inst.at <= requests
    /\ \A o \in Known : /\ o.dst # None => o.dst.at <= requests
                        /\ o.src # None => o.src.at <= requests
    /\ \A o \in Live : o.dst # None =>
         /\ inst # None => o.dst.at # inst.at
         /\ \A k \in Live : k.dst # None /\ o.dst.at = k.dst.at => o.key = k.key
         /\ \A k \in Known : k.src # None => o.dst.at # k.src.at

\* A known operation was known before, or starts from what is there now.
SameCourse(i, o) == i.key = o.key /\ i.src = o.src /\ i.dst = o.dst
Asked(o) ==
  /\ \E c \in Callers : Ask(c) /\ o = callers'[c].op
  /\ requests' = requests + 1 /\ inst' = inst
  /\ o.src = inst /\ (o.dst # None => o.dst.at = requests + 1)

\* Known operations are sound records.
LEMMA KnownTypes ==
  ASSUME TypeInv, NEW o \in Known
  PROVE  OpOK(o) /\ (o.src # None => o.src.at \in Nat) /\ (o.dst # None => o.dst.at \in Nat)
<1>1. OpOK(o) BY DEF TypeInv, Known, Unfinished
<1> QED BY <1>1 DEF OpOK, Records, Maybe, Installations

\* A step asks for one operation at most.
LEMMA OneAsked ==
  ASSUME TypeInv, NEW o, NEW k, Asked(o), Asked(k)
  PROVE  o = k
<1>1. PICK c, d \in Callers :
        Ask(c) /\ o = callers'[c].op /\ Ask(d) /\ k = callers'[d].op
  BY DEF Asked
<1>2. PICK n \in Requested(requests + 1) :
        callers' = [callers EXCEPT ![c] = [Idle EXCEPT !.at = "prepare", !.op = n]]
  BY <1>1 DEF Ask
<1>3. callers[d].at = "idle" /\ callers'[d].at = "prepare"
  BY <1>1 DEF Ask, At, Idle, TypeInv
<1>4. c = d
  BY <1>2, <1>3 DEF TypeInv
<1> QED BY <1>1, <1>4

\* An operation is known because it was, or because somebody asks for it now.
LEMMA KnownNext ==
  ASSUME CoreInv, [Next]_vars, NEW o \in Known'
  PROVE  (\E i \in Known : SameCourse(i, o)) \/ Asked(o)
<1> USE DEF CoreInv
<1>1. ASSUME o \in Unfinished' PROVE \E i \in Known : SameCourse(i, o)
  <2>1. ASSUME Keep PROVE \E i \in Known : SameCourse(i, o)
    <3>1. PICK i \in Unfinished : Alike(i, o) BY <1>1, <2>1 DEF Keep, SameJournal
    <3> QED BY <3>1 DEF Known, SameCourse, Alike
  <2>2. ASSUME o \in Known PROVE \E i \in Known : SameCourse(i, o)
    BY <2>2 DEF SameCourse
  <2>3. ASSUME NEW c \in Callers, Fresh(c) PROVE o \in Known
    <3>1. journal' = journal \cup {callers[c].op} /\ ~At(c, "idle")
      BY <2>3 DEF Fresh, Prepare, At
    <3> QED BY <1>1, <3>1 DEF Known, Unfinished
  <2>4. ASSUME NEW c \in Callers, Enter(c) \/ ReadGraph(c) \/ WriteGraph(c) \/ Verify(c)
                                  \/ Consume(c)
        PROVE  o \in Known
    <3>1. journal' = journal
      BY <2>4 DEF Enter, ReadGraph, WriteGraph, Materialize, Verify, Consume, registry
    <3> QED BY <1>1, <3>1 DEF Known, Unfinished
  <2>5. ASSUME NEW c \in Callers, CommitRegistry(c) PROVE o \in Known
    <3>1. Unfinished' \subseteq Unfinished BY <2>5, CommitFields
    <3> QED BY <1>1, <3>1 DEF Known
  <2>6. ASSUME \/ \E passed \in BOOLEAN : Test(passed)
               \/ \E mode \in Rollouts : Approve(mode)
        PROVE  o \in Known
    <3>1. journal' = journal BY <2>6 DEF Test, Approve
    <3> QED BY <1>1, <3>1 DEF Known, Unfinished
  <2> QED BY <2>1, <2>2, <2>3, <2>4, <2>5, <2>6, StepKinds
<1>2. ASSUME NEW d \in Callers, o = callers'[d].op, callers'[d].at # "idle"
      PROVE  (\E i \in Known : SameCourse(i, o)) \/ Asked(o)
  <2>1. CallStep(d) BY CallSteps
  <2>2. CASE ~At(d, "idle") /\ callers'[d].op = callers[d].op
    <3>1. o \in Known BY <1>2, <2>2 DEF Known
    <3> QED BY <3>1 DEF SameCourse
  <2>3. CASE Ask(d)
    <3>1. PICK k \in Requested(requests + 1) :
            callers' = [callers EXCEPT ![d] = [Idle EXCEPT !.at = "prepare", !.op = k]]
      BY <2>3 DEF Ask
    <3>2. requests + 1 \in Nat BY DEF TypeInv
    <3>3. OpOK(k) /\ k.src = inst /\ (k.dst # None => k.dst.at = requests + 1)
      BY <3>1, <3>2, RequestShape, RequestFields
    <3>4. o = k BY <1>2, <3>1, <3>3, BeginFields DEF OpOK
    <3>5. requests' = requests + 1 /\ inst' = inst BY <2>3 DEF Ask, registry
    <3> QED BY <1>2, <2>3, <3>3, <3>4, <3>5 DEF Asked
  <2>4. CASE Retry(d)
    <3>1. PICK k \in Unfinished :
            callers' = [callers EXCEPT ![d] = [Idle EXCEPT !.at = "prepare", !.op = k]]
      BY <2>4 DEF Retry
    <3>2. OpOK(k) BY DEF TypeInv, Unfinished
    <3>3. o = k BY <1>2, <3>1, <3>2, BeginFields DEF OpOK
    <3> QED BY <3>3 DEF Known, SameCourse
  <2>5. CASE callers'[d] = callers[d]
    BY <1>2, <2>2, <2>5 DEF At
  <2> QED BY <1>2, <2>1, <2>2, <2>3, <2>4, <2>5 DEF CallStep
<1>3. o \in Unfinished' \/ \E d \in Callers : o = callers'[d].op /\ callers'[d].at # "idle"
  BY DEF Known, At
<1> QED BY <1>1, <1>2, <1>3

\* What is done stays done.
LEMMA DoneStays ==
  ASSUME CoreInv, [Next]_vars, NEW key, Done(key)
  PROVE  Done(key)'
<1> USE DEF CoreInv
<1>1. ASSUME journal \subseteq journal' PROVE Done(key)'
  BY <1>1 DEF Done
<1>2. CASE Keep BY <1>2 DEF Keep, SameJournal
<1>3. ASSUME NEW c \in Callers, CommitRegistry(c) PROVE Done(key)'
  BY <1>3, CommitFields
<1>4. ASSUME NEW c \in Callers,
             Fresh(c) \/ Enter(c) \/ ReadGraph(c) \/ WriteGraph(c) \/ Verify(c) \/ Consume(c)
      PROVE  journal \subseteq journal'
  BY <1>4 DEF Fresh, Enter, ReadGraph, WriteGraph, Materialize, Verify, Consume, registry
<1>5. ASSUME \/ \E passed \in BOOLEAN : Test(passed)
             \/ \E mode \in Rollouts : Approve(mode)
      PROVE  journal \subseteq journal'
  BY <1>5 DEF Test, Approve
<1> QED BY <1>1, <1>2, <1>3, <1>4, <1>5, StepKinds

\* What a commit makes of the installation.
Committed(o) == o \in Live /\ o.dst # None /\ inst'.at = o.dst.at /\ Done(o.key)'

\* An installation that is new is of a test, or of a live operation that ends.
LEMMA InstNext ==
  ASSUME CoreInv, [Next]_vars, ~reapplied'
  PROVE  /\ ~reapplied
         /\ \/ inst' = inst
            \/ inst' = None
            \/ /\ requests' = requests + 1 /\ inst'.at = requests + 1
               /\ \A o \in Known' : \E i \in Known : SameCourse(i, o)
            \/ \E o \in Known : Committed(o)
<1> USE DEF CoreInv
<1>1. CASE Keep BY <1>1 DEF Keep
<1>2. ASSUME NEW c \in Callers,
             Fresh(c) \/ Enter(c) \/ ReadGraph(c) \/ WriteGraph(c) \/ Verify(c) \/ Consume(c)
      PROVE  ~reapplied /\ inst' = inst
  <2>1. inst' = inst
    BY <1>2 DEF Fresh, Prepare, Enter, ReadGraph, WriteGraph, Materialize, Verify, Consume,
                registry
  <2>2. reapplied => reapplied'
    <3>1. CASE Enter(c) BY <3>1 DEF Enter
    <3>2. CASE ~Enter(c)
      <4>1. reapplied' = reapplied
        BY <1>2, <3>2 DEF Fresh, Prepare, ReadGraph, WriteGraph, Materialize, Verify, Consume,
                          histories
      <4> QED BY <4>1
    <3> QED BY <3>1, <3>2
  <2> QED BY <2>1, <2>2
<1>3. ASSUME NEW passed \in BOOLEAN, Test(passed)
      PROVE  /\ ~reapplied /\ requests' = requests + 1 /\ inst'.at = requests + 1
             /\ \A o \in Known' : \E i \in Known : SameCourse(i, o)
  <2>1. /\ UNCHANGED <<journal, callers, reapplied>> /\ requests' = requests + 1
        /\ inst'.at = requests + 1
    BY <1>3, TestFields DEF Test, histories
  <2>2. Known' = Known BY <2>1 DEF Known, Unfinished, At
  <2> QED BY <2>1, <2>2 DEF SameCourse
<1>4. ASSUME NEW mode \in Rollouts, Approve(mode) PROVE ~reapplied /\ inst' = inst
  BY <1>4 DEF Approve, histories
<1>5. ASSUME NEW c \in Callers, CommitRegistry(c)
      PROVE  /\ ~reapplied
             /\ inst' = inst \/ inst' = None \/ \E o \in Known : Committed(o)
  <2>0. PICK o : o = callers[c].op OBVIOUS
  <2>1. lease = c /\ inst' = Finished(o) /\ ~reapplied /\ o \in Known
    <3>1. At(c, "commit") BY <1>5 DEF CommitRegistry
    <3>2. o \in Known BY <2>0, <3>1 DEF Known, At
    <3> QED BY <1>5, <2>0, <3>2 DEF CommitRegistry, histories
  <2>2. OpOK(o) /\ Fits(o, inst) /\ HoldsAs(c, callers[c])
    BY <2>0, <2>1, HolderEntry DEF Holds
  <2>3. CASE o.action = "install" /\ inst # None
    BY <2>1, <2>2, <2>3, FinishedFields
  <2>4. CASE o.action = "install" => inst = None
    <3>1. ~Done(o.key) BY <2>0, <2>1, <2>2, <2>4 DEF HoldsAs
    <3>2. o \in Live /\ Done(o.key)' BY <1>5, <2>0, <2>1, <3>1, CommitFields DEF Live
    <3>3. CASE IsRollout(o)
      <4>1. inst'.at = o.dst.at BY <2>1, <2>2, <3>3, FinishedFields
      <4>2. o.dst # None
        BY <2>2, <3>3, Constants DEF OpOK, Shape, IsRollout
      <4> QED BY <2>1, <3>2, <4>1, <4>2 DEF Committed
    <3>4. CASE ~IsRollout(o)
      <4>1. inst' = o.dst BY <2>1, <2>2, <2>4, <3>4, FinishedFields
      <4> QED BY <2>1, <3>2, <4>1 DEF Committed
    <3> QED BY <3>3, <3>4
  <2> QED BY <2>1, <2>3, <2>4
<1> QED BY <1>1, <1>2, <1>3, <1>4, <1>5, StepKinds

\* Every step keeps the instants apart.
LEMMA InstantsNext ==
  ASSUME CoreInv, InstantInv, [Next]_vars
  PROVE  InstantInv'
<1> USE DEF CoreInv
<1> SUFFICES ASSUME ~reapplied'
             PROVE  /\ inst' # None => inst'.at <= requests'
                    /\ \A o \in Known' : /\ o.dst # None => o.dst.at <= requests'
                                         /\ o.src # None => o.src.at <= requests'
                    /\ \A o \in Live' : o.dst # None =>
                         /\ inst' # None => o.dst.at # inst'.at
                         /\ \A k \in Live' :
                              k.dst # None /\ o.dst.at = k.dst.at => o.key = k.key
                         /\ \A k \in Known' : k.src # None => o.dst.at # k.src.at
  BY DEF InstantInv
<1>1. ~reapplied BY InstNext
<1>2. requests \in Nat /\ (requests' = requests \/ requests' = requests + 1)
  BY RequestsGrow DEF TypeInv
<1>3. inst # None => inst.at \in Nat /\ inst.at <= requests
  BY <1>1 DEF InstantInv, TypeInv, Maybe, Installations
<1>4. ASSUME NEW i \in Known
      PROVE  /\ i.dst # None => i.dst.at \in Nat /\ i.dst.at <= requests
             /\ i.src # None => i.src.at \in Nat /\ i.src.at <= requests
  BY <1>1, <1>4, KnownTypes DEF InstantInv
<1>5. ASSUME NEW i \in Live, i.dst # None
      PROVE  /\ inst # None => i.dst.at # inst.at
             /\ \A k \in Live : k.dst # None /\ i.dst.at = k.dst.at => i.key = k.key
             /\ \A k \in Known : k.src # None => i.dst.at # k.src.at
  BY <1>1, <1>5 DEF InstantInv
<1>6. ASSUME NEW o \in Live'
      PROVE  (\E i \in Live : SameCourse(i, o)) \/ Asked(o)
  <2>1. o \in Known' /\ ~Done(o.key)' BY <1>6 DEF Live
  <2>2. ~Done(o.key) BY <2>1, DoneStays
  <2> QED BY <2>1, <2>2, KnownNext DEF Live, SameCourse
<1>7. inst' # None => inst'.at <= requests'
  BY <1>2, <1>3, <1>4, InstNext DEF Committed
<1>8. ASSUME NEW o \in Known'
      PROVE  /\ o.dst # None => o.dst.at <= requests'
             /\ o.src # None => o.src.at <= requests'
  <2>1. CASE \E i \in Known : SameCourse(i, o)
    BY <1>2, <1>4, <2>1 DEF SameCourse
  <2>2. CASE Asked(o)
    BY <1>2, <1>3, <2>2 DEF Asked
  <2> QED BY <1>8, <2>1, <2>2, KnownNext
<1>9. ASSUME NEW o \in Live', o.dst # None, inst' # None
      PROVE  o.dst.at # inst'.at
  <2>1. ASSUME NEW i \in Live, SameCourse(i, o) PROVE o.dst.at # inst'.at
    <3>1. i \in Known /\ i.dst = o.dst /\ i.key = o.key BY <2>1 DEF Live, SameCourse
    <3>2. CASE inst' = inst BY <1>5, <1>9, <3>1, <3>2
    <3>3. CASE inst'.at = requests + 1 BY <1>2, <1>4, <1>9, <3>1, <3>3
    <3>4. ASSUME NEW k \in Known, Committed(k) PROVE o.dst.at # inst'.at
      <4>1. k \in Live /\ k.dst # None /\ inst'.at = k.dst.at /\ Done(k.key)'
        BY <3>4 DEF Committed
      <4>2. ~Done(o.key)' BY <1>9 DEF Live
      <4>3. o.key # k.key BY <4>1, <4>2
      <4> QED BY <1>5, <1>9, <3>1, <4>1, <4>3
    <3> QED BY <1>9, <3>2, <3>3, <3>4, InstNext
  <2>2. CASE Asked(o)
    BY <1>2, <1>3, <1>9, <2>2 DEF Asked
  <2> QED BY <1>6, <1>9, <2>1, <2>2
<1>10. ASSUME NEW o \in Live', NEW k \in Live', o.dst # None, k.dst # None,
              o.dst.at = k.dst.at
       PROVE  o.key = k.key
  <2>1. CASE \E i \in Live : SameCourse(i, o)
    <3>1. PICK i \in Live : i.key = o.key /\ i.dst = o.dst BY <2>1 DEF SameCourse
    <3>2. CASE \E j \in Live : SameCourse(j, k)
      BY <1>5, <1>10, <3>1, <3>2 DEF SameCourse
    <3>3. CASE Asked(k)
      BY <1>2, <1>4, <1>10, <3>1, <3>3 DEF Asked, Live
    <3> QED BY <1>6, <1>10, <3>2, <3>3
  <2>2. CASE Asked(o) /\ \E i \in Live : SameCourse(i, k)
    BY <1>2, <1>4, <1>10, <2>2 DEF Asked, Live, SameCourse
  <2>3. CASE Asked(o) /\ Asked(k)
    BY <2>3, OneAsked
  <2> QED BY <1>6, <1>10, <2>1, <2>2, <2>3
<1>11. ASSUME NEW o \in Live', o.dst # None, NEW k \in Known', k.src # None
       PROVE  o.dst.at # k.src.at
  <2>1. ASSUME NEW i \in Live, SameCourse(i, o) PROVE o.dst.at # k.src.at
    <3>1. i.dst = o.dst BY <2>1 DEF SameCourse
    <3>2. CASE \E j \in Known : SameCourse(j, k)
      BY <1>5, <1>11, <3>1, <3>2 DEF SameCourse
    <3>3. CASE Asked(k)
      BY <1>5, <1>11, <3>1, <3>3 DEF Asked
    <3> QED BY <1>11, <3>2, <3>3, KnownNext
  <2>2. CASE Asked(o)
    <3>1. CASE \E j \in Known : SameCourse(j, k)
      BY <1>2, <1>4, <1>11, <2>2, <3>1 DEF SameCourse, Asked
    <3>2. CASE Asked(k)
      BY <1>2, <1>3, <1>11, <2>2, <3>2 DEF Asked
    <3> QED BY <1>11, <3>1, <3>2, KnownNext
  <2> QED BY <1>6, <1>11, <2>1, <2>2
<1> QED BY <1>7, <1>8, <1>9, <1>10, <1>11

-----------------------------------------------------------------------------
\* A call that may still be journaled starts from the loops that are there, and
\* an operation that is unfinished has left its loops as they were or as they
\* shall be.
OnlyInstalls == \A k \in Unfinished : k.action = "install"
FromInv ==
  ~Overwritten =>
    /\ \A c \in Callers :
         At(c, "prepare") /\ SourceChecked(callers[c].op) /\ inst = callers[c].op.src
           /\ OnlyInstalls => own = callers[c].op.from
    /\ \A o \in Unfinished : SourceChecked(o) => own \in {o.from, o.to}

\* An installation that somebody started from does not come back.
LEMMA NoReturn ==
  ASSUME CoreInv, InstantInv, [Next]_vars, ~reapplied', inst' # inst,
         NEW i \in Known, NEW o, SameCourse(i, o), OpOK(o), SourceChecked(o)
  PROVE  inst' # o.src
<1> USE DEF CoreInv
<1>1. o.src \in Installations /\ o.src # None /\ i.src = o.src
  BY Constants DEF OpOK, Shape, SourceChecked, SameCourse
<1>2. ~reapplied /\ requests \in Nat BY InstNext DEF TypeInv
<1>3. i.src.at <= requests /\ i.src.at \in Nat
  BY <1>1, <1>2, KnownTypes DEF InstantInv
<1>4. ASSUME NEW k \in Known, Committed(k) PROVE inst'.at # o.src.at
  BY <1>1, <1>2, <1>4 DEF Committed, InstantInv
<1>5. CASE inst' = None BY <1>1, <1>5
<1>6. CASE inst'.at = requests + 1 BY <1>1, <1>2, <1>3, <1>6
<1> QED BY <1>4, <1>5, <1>6, InstNext

\* A call before its preparation was there before, or reads what is there.
LEMMA Preparing ==
  ASSUME CoreInv, InstantInv, [Next]_vars, NEW d \in Callers, callers'[d].at = "prepare"
  PROVE  \/ callers'[d] = callers[d] /\ At(d, "prepare")
         \/ /\ Ask(d) /\ callers'[d].op.src = inst /\ callers'[d].op.from = own
            /\ UNCHANGED <<inst, own>>
         \/ /\ Retry(d) /\ callers'[d].op \in Unfinished /\ UNCHANGED journal
<1> USE DEF CoreInv
<1>1. CallStep(d) BY CallSteps
<1>2. CASE callers'[d] = callers[d] BY <1>2 DEF At
<1>3. CASE Ask(d)
  <2>1. PICK k \in Requested(requests + 1) :
          callers' = [callers EXCEPT ![d] = [Idle EXCEPT !.at = "prepare", !.op = k]]
    BY <1>3 DEF Ask
  <2>2. requests + 1 \in Nat BY DEF TypeInv
  <2>3. OpOK(k) /\ k.src = inst /\ k.from = own
    BY <2>1, <2>2, RequestShape, RequestFields
  <2>4. callers'[d].op = k BY <2>1, <2>3, BeginFields DEF OpOK
  <2>5. UNCHANGED <<inst, own>> BY <1>3 DEF Ask, registry, graph
  <2> QED BY <1>3, <2>3, <2>4, <2>5
<1>4. CASE Retry(d)
  <2>1. PICK k \in Unfinished :
          callers' = [callers EXCEPT ![d] = [Idle EXCEPT !.at = "prepare", !.op = k]]
    BY <1>4 DEF Retry
  <2>2. OpOK(k) BY DEF TypeInv, Unfinished
  <2>3. callers'[d].op = k BY <2>1, <2>2, BeginFields DEF OpOK
  <2> QED BY <1>4, <2>3 DEF Retry, registry
<1> QED BY <1>1, <1>2, <1>3, <1>4 DEF CallStep

\* Loops are written for the unfinished operation alone.
LEMMA LoopsKept ==
  ASSUME AgreementInv, NEW c \in Callers, WriteGraph(c), ~Overwritten'
  PROVE  /\ ~Overwritten
         /\ own' # own => inst = None \/ ~OnlyInstalls
         /\ own' # own => \A o \in Unfinished : SourceChecked(o) => own' = o.to
<1> USE DEF AgreementInv, CoreInv
<1>1. ~late' /\ ~late /\ ~reapplied
  BY WriteFields, LoopsWritten DEF Overwritten
<1>2. \A j, k \in Unfinished : j = k BY DEF JournalInv
<1>3. CASE own' = own BY <1>1, <1>3 DEF Overwritten
<1>4. CASE own' = None /\ \E k \in Unfinished : k.action = "uninstall"
  <2>1. PICK k \in Unfinished : k.action = "uninstall" BY <1>4
  <2>2. k.to = None BY <2>1 DEF TypeInv, Unfinished, OpOK, Shape
  <2> QED BY <1>1, <1>2, <1>4, <2>1, <2>2 DEF Overwritten, OnlyInstalls
<1>5. CASE inst = None /\ \E k \in Unfinished : k.action = "install"
  <2>1. PICK k \in Unfinished : k.action = "install" BY <1>5
  <2> QED BY <1>1, <1>2, <1>5, <2>1 DEF Overwritten, SourceChecked
<1>6. CASE \E k \in Unfinished : Rebuilds(k) /\ own' = k.to
  <2>1. PICK k \in Unfinished : Rebuilds(k) /\ own' = k.to BY <1>6
  <2> QED BY <1>1, <1>2, <2>1 DEF Overwritten, OnlyInstalls, Rebuilds
<1>7. CASE \E k \in Unfinished : IsRollout(k)
  <2>1. PICK k \in Unfinished : IsRollout(k) BY <1>7
  <2> QED BY <1>1, <1>2, <2>1 DEF Overwritten, OnlyInstalls, IsRollout, SourceChecked
<1> QED BY <1>1, <1>3, <1>4, <1>5, <1>6, <1>7, LoopsWritten

\* Loops that were overwritten stay so.
LEMMA OverwrittenStays ==
  ASSUME AgreementInv, [Next]_vars, ~Overwritten'
  PROVE  ~Overwritten
<1> USE DEF AgreementInv, CoreInv
<1>1. CASE Keep BY <1>1 DEF Keep, Overwritten
<1>2. ASSUME NEW c \in Callers, WriteGraph(c) PROVE ~Overwritten
  BY <1>2, LoopsKept
<1>3. ASSUME NEW c \in Callers, Fresh(c) \/ Enter(c) \/ ReadGraph(c) \/ Verify(c) \/ Consume(c)
      PROVE  ~Overwritten
  <2>1. ~late BY <1>3, LateStays DEF Overwritten
  <2>2. ~reapplied BY InstNext DEF Overwritten
  <2> QED BY <2>1, <2>2 DEF Overwritten
<1>4. ASSUME \/ \E c \in Callers : CommitRegistry(c)
             \/ \E passed \in BOOLEAN : Test(passed)
             \/ \E mode \in Rollouts : Approve(mode)
      PROVE  ~Overwritten
  BY <1>4 DEF CommitRegistry, Test, Approve, histories, Overwritten
<1> QED BY <1>1, <1>2, <1>3, <1>4, StepKinds

\* An unfinished operation that ends and is no install changes the installation.
LEMMA CommitChanges ==
  ASSUME CoreInv, InstantInv, NEW c \in Callers, CommitRegistry(c), ~reapplied,
         inst' = inst, OnlyInstalls'
  PROVE  OnlyInstalls
<1> USE DEF CoreInv
<1>0. PICK o : o = callers[c].op OBVIOUS
<1>1. lease = c /\ inst' = Finished(o) /\ o \in Known
  <2>1. At(c, "commit") BY DEF CommitRegistry
  <2>2. o \in Known BY <1>0, <2>1 DEF Known, At
  <2> QED BY <1>0, <2>2 DEF CommitRegistry
<1>2. OpOK(o) /\ Fits(o, inst) BY <1>0, <1>1, HolderEntry
<1>3. CASE Done(o.key)
  <2>1. \A j \in Unfinished : j.key # o.key
    BY <1>3 DEF Done, JournalInv, KeysDiffer, Unfinished
  <2>2. Unfinished \subseteq Unfinished' BY <1>0, <2>1, CommitFields
  <2> QED BY <2>2 DEF OnlyInstalls
<1>4. CASE ~Done(o.key) /\ o.action = "install"
  <2>1. PICK k \in Unfinished : Unfinished = {k} /\ k.action = o.action
    BY <1>0, <1>1, <1>4, HolderEntry DEF Unfinished
  <2> QED BY <1>4, <2>1 DEF OnlyInstalls
<1>5. CASE ~Done(o.key) /\ o.action # "install"
  <2>1. o \in Live BY <1>1, <1>5 DEF Live
  <2>2. CASE IsRollout(o)
    <3>1. inst \in Installations /\ inst'.at = o.dst.at /\ o.dst # None
      BY <1>1, <1>2, <2>2, FinishedFields, Constants DEF OpOK, Shape, IsRollout
    <3> QED BY <2>1, <3>1, Constants DEF InstantInv
  <2>3. CASE ~IsRollout(o)
    <3>1. inst' = o.dst /\ inst = o.src /\ o.src \in Installations
      BY <1>1, <1>2, <1>5, <2>3, FinishedFields DEF Fits, IsRollout, OpOK, Shape
    <3> QED BY <2>1, <3>1, Constants DEF InstantInv
  <2> QED BY <2>2, <2>3
<1> QED BY <1>3, <1>4, <1>5

\* Every step keeps the loops that an operation starts from or arrives at.
LEMMA FromNext ==
  ASSUME AgreementInv, InstantInv, FromInv, [Next]_vars
  PROVE  FromInv'
<1> USE DEF AgreementInv, CoreInv
<1> SUFFICES ASSUME ~Overwritten'
             PROVE  /\ \A c \in Callers :
                         callers'[c].at = "prepare" /\ SourceChecked(callers'[c].op)
                           /\ inst' = callers'[c].op.src /\ OnlyInstalls'
                         => own' = callers'[c].op.from
                    /\ \A o \in Unfinished' : SourceChecked(o) => own' \in {o.from, o.to}
  BY DEF FromInv, At, SourceChecked, IsRollout
<1>1. ~Overwritten /\ ~reapplied /\ ~reapplied'
  BY OverwrittenStays DEF Overwritten
<1>2. ASSUME inst' = inst, OnlyInstalls' PROVE OnlyInstalls
  <2>1. CASE Keep BY <1>2, <2>1 DEF Keep, SameJournal, OnlyInstalls, Alike
  <2>2. ASSUME NEW c \in Callers, CommitRegistry(c) PROVE OnlyInstalls
    BY <1>1, <1>2, <2>2, CommitChanges
  <2>3. ASSUME NEW c \in Callers, Fresh(c) PROVE OnlyInstalls
    BY <2>3 DEF Fresh, OnlyInstalls
  <2>4. ASSUME \/ \E c \in Callers : Enter(c) \/ ReadGraph(c) \/ WriteGraph(c) \/ Verify(c)
                                     \/ Consume(c)
               \/ \E passed \in BOOLEAN : Test(passed)
               \/ \E mode \in Rollouts : Approve(mode)
        PROVE  OnlyInstalls
    <3>1. journal' = journal
      BY <2>4 DEF Enter, ReadGraph, WriteGraph, Materialize, Verify, Consume, Test, Approve,
                  registry
    <3> QED BY <1>2, <3>1 DEF OnlyInstalls, Unfinished
  <2> QED BY <2>1, <2>2, <2>3, <2>4, StepKinds
<1>3. own' = own \/ \E c \in Callers : WriteGraph(c)
  BY StepKinds DEF Keep, Fresh, Prepare, Enter, ReadGraph, Verify, Consume, CommitRegistry,
                   Test, Approve, graph
<1>4. ASSUME NEW d \in Callers, callers'[d].at = "prepare", SourceChecked(callers'[d].op),
             inst' = callers'[d].op.src, OnlyInstalls'
      PROVE  own' = callers'[d].op.from
  <2>1. CASE callers'[d] = callers[d] /\ At(d, "prepare")
    <3>0. PICK o : o = callers[d].op OBVIOUS
    <3>1. o \in Known /\ OpOK(o) /\ SourceChecked(o) /\ inst' = o.src
      BY <1>4, <2>1, <3>0 DEF Known, At, TypeInv
    <3>2. inst' = inst
      BY <1>1, <3>1, NoReturn DEF SameCourse
    <3>3. OnlyInstalls BY <1>2, <1>4, <3>2
    <3>4. own = o.from BY <1>1, <2>1, <3>0, <3>1, <3>2, <3>3 DEF FromInv
    <3>5. inst # None BY <3>1, <3>2, Constants DEF OpOK, Shape, SourceChecked
    <3>6. own' = own BY <1>3, <3>3, <3>5, LoopsKept
    <3> QED BY <2>1, <3>0, <3>4, <3>6
  <2>2. CASE callers'[d].op.from = own /\ UNCHANGED own
    BY <2>2
  <2>3. CASE callers'[d].op \in Unfinished /\ UNCHANGED journal
    <3>1. callers'[d].op.action = "install"
      BY <1>4, <2>3 DEF OnlyInstalls, Unfinished
    <3> QED BY <1>4, <3>1 DEF SourceChecked
  <2> QED BY <1>4, <2>1, <2>2, <2>3, Preparing
<1>5. ASSUME NEW o \in Unfinished', SourceChecked(o) PROVE own' \in {o.from, o.to}
  <2>1. CASE Keep
    <3>1. PICK i \in Unfinished : Alike(i, o) BY <1>5, <2>1 DEF Keep, SameJournal
    <3>2. SourceChecked(i) /\ i.from = o.from /\ i.to = o.to
      BY <1>5, <3>1 DEF Alike, SourceChecked, IsRollout
    <3> QED BY <1>1, <2>1, <3>1, <3>2 DEF Keep, FromInv
  <2>2. ASSUME NEW c \in Callers, Fresh(c) PROVE own' \in {o.from, o.to}
    <3>1. /\ Unfinished = {} /\ journal' = journal \cup {callers[c].op}
          /\ At(c, "prepare") /\ SourceHolds(callers[c].op) /\ own' = own
      BY <2>2 DEF Fresh, Prepare, graph
    <3>2. o = callers[c].op BY <1>5, <3>1 DEF Unfinished
    <3>3. inst = o.src BY <1>5, <3>1, <3>2 DEF SourceHolds
    <3> QED BY <1>1, <1>5, <3>1, <3>2, <3>3 DEF FromInv, OnlyInstalls
  <2>3. ASSUME o \in Unfinished, own' = own PROVE own' \in {o.from, o.to}
    BY <1>1, <1>5, <2>3 DEF FromInv
  <2>4. ASSUME NEW c \in Callers, WriteGraph(c) PROVE own' \in {o.from, o.to}
    <3>1. o \in Unfinished BY <1>5, <2>4, WriteFields DEF Unfinished
    <3> QED BY <1>5, <2>3, <2>4, <3>1, LoopsKept
  <2>5. ASSUME NEW c \in Callers, CommitRegistry(c) PROVE o \in Unfinished /\ own' = own
    <3>1. Unfinished' \subseteq Unfinished BY <2>5, CommitFields
    <3> QED BY <1>5, <2>5, <3>1 DEF CommitRegistry, graph
  <2>6. ASSUME \/ \E c \in Callers : Enter(c) \/ ReadGraph(c) \/ Verify(c) \/ Consume(c)
               \/ \E passed \in BOOLEAN : Test(passed)
               \/ \E mode \in Rollouts : Approve(mode)
        PROVE  o \in Unfinished /\ own' = own
    <3>1. journal' = journal /\ own' = own
      BY <2>6 DEF Enter, ReadGraph, Verify, Consume, Test, Approve, registry, graph
    <3> QED BY <1>5, <3>1 DEF Unfinished
  <2> QED BY <2>1, <2>2, <2>3, <2>4, <2>5, <2>6, StepKinds
<1> QED BY <1>4, <1>5

-----------------------------------------------------------------------------
\* The inductive invariant.
LifecycleInv ==
  AgreementInv /\ InstantInv /\ FromInv /\ RoutesOnlyAsApproved

\* The whole invariant holds at the beginning,
LEMMA InitLifecycle ==
  ASSUME Init
  PROVE  LifecycleInv
<1>1. AgreementInv /\ RoutesOnlyAsApproved BY InitInv
<1>2. journal = {} /\ \A c \in Callers : At(c, "idle") BY DEF Init, At, Idle
<1>3. Unfinished = {} /\ Known = {} BY <1>2 DEF Unfinished, Known
<1>4. inst # None => inst.at <= requests
  BY DEF Init, Atrest, Resting
<1>5. InstantInv BY <1>3, <1>4 DEF InstantInv, Live
<1>6. FromInv BY <1>2, <1>3 DEF FromInv, At
<1> QED BY <1>1, <1>5, <1>6 DEF LifecycleInv

\* and every step keeps it.
LEMMA StepLifecycle ==
  ASSUME LifecycleInv, [Next]_vars
  PROVE  LifecycleInv'
<1> USE DEF LifecycleInv
<1>1. TypeInv' /\ ModeInv' /\ JournalInv' /\ CallInv'
  BY TypesNext, ModesNext, JournalNext, CallsNext DEF AgreementInv, CoreInv
<1>2. HolderInv' /\ RevisionInv'
  BY HoldersNext, RevisionsNext DEF AgreementInv
<1>3. VersionInv' /\ RoutesOnlyAsApproved'
  BY VersionsNext, RoutesNext DEF AgreementInv
<1>4. AgreeInv' /\ ReceiptInv' /\ WorkInv'
  BY AgreementNext, ReceiptsNext, WorkNext
<1>5. InstantInv' /\ FromInv'
  BY InstantsNext, FromNext DEF AgreementInv
<1> QED BY <1>1, <1>2, <1>3, <1>4, <1>5 DEF AgreementInv, CoreInv

\* The inductive invariant holds in every state of every behaviour of Spec.
THEOREM LifecycleInvariant == Spec => []LifecycleInv
<1>1. Init => LifecycleInv
  BY InitLifecycle
<1>2. LifecycleInv /\ [Next]_vars => LifecycleInv'
  BY StepLifecycle
<1> QED BY <1>1, <1>2, PTL DEF Spec

\* TypeOK: the registries keep their shape, of one App at most one operation is
\* unfinished, and no two records of the journal share a key, whatever the
\* callers, plans and versions (prepareLifecycleOperation refuses the others).
THEOREM LifecycleTypesHold == Spec => []TypeOK
<1>1. LifecycleInv => TypeOK
  <2> SUFFICES ASSUME LifecycleInv PROVE TypeOK
    OBVIOUS
  <2> USE DEF LifecycleInv, AgreementInv, CoreInv
  <2>1. Cardinality(Unfinished) <= 1
    <3>1. CASE Unfinished = {}
      BY <3>1, FS_EmptySet
    <3>2. ASSUME NEW o \in Unfinished PROVE Cardinality(Unfinished) <= 1
      <4>1. Unfinished = {o} BY <3>2 DEF JournalInv
      <4>2. Cardinality({o}) = 1 BY FS_Singleton
      <4> QED BY <4>1, <4>2
    <3> QED BY <3>1, <3>2
  <2> QED BY <2>1 DEF TypeOK, TypeInv, JournalInv, KeysDiffer, Maybe
<1> QED BY <1>1, LifecycleInvariant, PTL

\* RoutesOnlyAsApproved: whatever fails or dies between the writes of an update,
\* a rollback or a rollout, loops above shadow have the approval of an operator
\* for their own version and mode.
THEOREM RoutesStayApproved == Spec => []RoutesOnlyAsApproved
<1>1. LifecycleInv => RoutesOnlyAsApproved
  BY DEF LifecycleInv
<1> QED BY <1>1, LifecycleInvariant, PTL

\* RegistriesAgree: when no operation is unfinished, the installation, its loops
\* and the consumer lists say the same, after any failures and retries by any
\* number of callers.
THEOREM RegistriesStayAgreed == Spec => []RegistriesAgree
<1>1. LifecycleInv => RegistriesAgree
  BY DEF LifecycleInv, AgreementInv, AgreeInv, RegistriesAgree, Full, Agree
<1> QED BY <1>1, LifecycleInvariant, PTL

\* Recoverable: an interrupted configure, repair, update, rollback or uninstall
\* finds the installation it starts from and the loops before it or after it,
\* whatever this App's callers did meanwhile, unless one wrote without the
\* lease.  (The ownership digest, which other Apps change, is no part of it.)
THEOREM StaysRecoverable == Spec => []Recoverable
<1>1. LifecycleInv => Recoverable
  BY DEF LifecycleInv, AgreementInv, CoreInv, JournalInv, FromInv, Recoverable
<1> QED BY <1>1, LifecycleInvariant, PTL
=============================================================================
