--------------------------- MODULE QueueFileLock ---------------------------
(***************************************************************************)
(* The lock file that makes the operations of FileRoutingStore on route    *)
(* jobs atomic (withRouteJobsLock in runtime/routing-store.ts).  A caller  *)
(* creates the file, works, and removes it; one that finds it breaks it    *)
(* when it is old, or tries again until its patience is at an end.  Every  *)
(* call to the file system is a step of its own.                           *)
(*                                                                         *)
(* A file has no owner the code could ask for: "owner" is a history.       *)
(***************************************************************************)
EXTENDS Naturals

CONSTANTS
  Callers,
  NoCaller,      \* the file does not exist
  StaleAfter,    \* 30 seconds: an older file is taken for abandoned
  Patience,      \* 5 seconds: how long a caller tries
  Prompt,        \* TRUE: no operation outlasts StaleAfter
  MaxCrashes     \* bound of the model: callers that die

ASSUME QueueFileLockAssumption ==
  /\ NoCaller \notin Callers
  /\ StaleAfter \in Nat /\ Patience \in Nat
  /\ Prompt \in BOOLEAN
  /\ MaxCrashes \in Nat

VARIABLES
  owner,      \* who created the file that is there
  age,        \* how long ago, up to StaleAfter + 1
  pc,         \* what each caller does next
  waited,     \* how long it has tried, up to Patience
  crashes

vars == <<owner, age, pc, waited, crashes>>

LockFile == owner # NoCaller

Trying == {"open", "check", "break", "wait"}
Holding == {"operate", "release"}

Init ==
  /\ owner = NoCaller /\ age = 0
  /\ pc = [c \in Callers |-> "idle"]
  /\ waited = [c \in Callers |-> 0]
  /\ crashes = 0

Goto(c, label) == pc' = [pc EXCEPT ![c] = label]

Call(c) ==
  /\ pc[c] = "idle"
  /\ Goto(c, "open")
  /\ waited' = [waited EXCEPT ![c] = 0]
  /\ UNCHANGED <<owner, age, crashes>>

\* Mutant of Open: without the flag "x" an existing file is opened.
OpenExisting(c) ==
  /\ pc[c] = "open"
  /\ owner' = c /\ age' = 0
  /\ Goto(c, "operate")
  /\ UNCHANGED <<waited, crashes>>

\* open with flag "wx"
Open(c) ==
  /\ pc[c] = "open"
  /\ IF LockFile
     THEN Goto(c, "check") /\ UNCHANGED <<owner, age>>
     ELSE Goto(c, "operate") /\ owner' = c /\ age' = 0
  /\ UNCHANGED <<waited, crashes>>

\* Mutant of Stale: a file is taken for abandoned at once.
StaleAtOnce == LockFile

\* isStaleLock; a file that is gone by now is not stale.
Stale == LockFile /\ age > StaleAfter

\* Mutant of CheckStale: no file is ever broken.
CheckNothing(c) ==
  /\ pc[c] = "check"
  /\ Goto(c, "wait")
  /\ UNCHANGED <<owner, age, waited, crashes>>

CheckStale(c) ==
  /\ pc[c] = "check"
  /\ Goto(c, IF Stale THEN "break" ELSE "wait")
  /\ UNCHANGED <<owner, age, waited, crashes>>

\* Whatever file is there now is removed.
Unlink == owner' = NoCaller /\ age' = 0

Break(c) ==
  /\ pc[c] = "break"
  /\ Unlink
  /\ Goto(c, "open")
  /\ UNCHANGED <<waited, crashes>>

\* Mutant of RetryOrGiveUp: the caller tries for ever.
RetryForEver(c) ==
  /\ pc[c] = "wait"
  /\ Goto(c, "open")
  /\ UNCHANGED <<owner, age, waited, crashes>>

RetryOrGiveUp(c) ==
  /\ pc[c] = "wait"
  /\ Goto(c, IF waited[c] >= Patience THEN "idle" ELSE "open")
  /\ UNCHANGED <<owner, age, waited, crashes>>

\* The operation is done, or has thrown: the finally block follows.
Finish(c) ==
  /\ pc[c] = "operate"
  /\ Goto(c, "release")
  /\ UNCHANGED <<owner, age, waited, crashes>>

Release(c) ==
  /\ pc[c] = "release"
  /\ Unlink
  /\ Goto(c, "idle")
  /\ UNCHANGED <<waited, crashes>>

\* A caller that dies leaves its file behind.
Crash(c) ==
  /\ pc[c] # "idle" /\ crashes < MaxCrashes
  /\ Goto(c, "idle")
  /\ crashes' = crashes + 1
  /\ UNCHANGED <<owner, age, waited>>

Outlasting == \E c \in Callers : pc[c] \in Holding /\ age >= StaleAfter

Tick ==
  /\ Prompt => ~Outlasting
  /\ age' = IF LockFile /\ age <= StaleAfter THEN age + 1 ELSE age
  /\ waited' = [c \in Callers |-> IF pc[c] \in Trying /\ waited[c] < Patience
                                  THEN waited[c] + 1 ELSE waited[c]]
  /\ UNCHANGED <<owner, pc, crashes>>

Step(c) ==
  \/ Open(c) \/ CheckStale(c) \/ Break(c) \/ RetryOrGiveUp(c)
  \/ Finish(c) \/ Release(c)

Next ==
  \/ \E c \in Callers : Call(c) \/ Step(c) \/ Crash(c)
  \/ Tick

Spec == Init /\ [][Next]_vars

\* Callers that are alive go on and come back; time passes.
FairSpec ==
  Spec /\ WF_vars(Tick) /\ \A c \in Callers : WF_vars(Step(c)) /\ WF_vars(Call(c))

-----------------------------------------------------------------------------
TypeOK ==
  /\ owner \in Callers \cup {NoCaller}
  /\ age \in 0..StaleAfter + 1
  /\ pc \in [Callers -> {"idle"} \cup Trying \cup Holding]
  /\ waited \in [Callers -> 0..Patience]
  /\ crashes \in 0..MaxCrashes

\* No two callers are inside an operation at once.
Alone ==
  \A c, d \in Callers : pc[c] = "operate" /\ pc[d] = "operate" => c = d

\* As long as nobody dies, no two operations on route jobs overlap.
Serialized == crashes = 0 => Alone

\* As long as nobody dies, no file is taken for abandoned: the threshold is
\* well above what an operation takes, and a file is as old as its holder.
NeverBroken == crashes = 0 => \A c \in Callers : pc[c] # "break"

\* A caller gets the lock or an error: it does not try for ever.
CallersAreAnswered ==
  \A c \in Callers : pc[c] = "open" ~> pc[c] \in Holding \cup {"idle"}

\* The file of a caller that died does not shut the queue for ever.
Abandoned(c) == owner = c /\ pc[c] \notin Holding

QueueReopens == \A c \in Callers : Abandoned(c) ~> ~Abandoned(c)
=============================================================================
