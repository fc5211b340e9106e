------------------------ MODULE QueueFileLockProofs ------------------------
(***************************************************************************)
(* Where no operation outlasts StaleAfter, and until a caller dies, the    *)
(* lock file serializes the operations of FileRoutingStore, for any number *)
(* of callers, any threshold and any patience.                             *)
(***************************************************************************)
EXTENDS QueueFileLock, TLAPS

\* The file is there exactly while somebody holds it, it is the holder's own,
\* and it is never old enough to be broken.
HolderOwnsFile ==
  /\ \A c \in Callers : pc[c] \in Holding => owner = c
  /\ LockFile => pc[owner] \in Holding

Calm ==
  /\ HolderOwnsFile
  /\ \A c \in Callers : pc[c] # "break"
  /\ age <= StaleAfter

IInv == TypeOK /\ (crashes = 0 => Calm)

USE DEF Goto, LockFile, Holding, Trying, Unlink

\* Types alone hold whatever crashes or stalls.
LEMMA TypeStep == TypeOK /\ [Next]_vars => TypeOK'
<1> SUFFICES ASSUME TypeOK, [Next]_vars PROVE TypeOK'
  OBVIOUS
<1> USE QueueFileLockAssumption DEF TypeOK
<1>1. CASE UNCHANGED vars
  BY <1>1 DEF vars
<1>2. ASSUME NEW c \in Callers, Call(c) PROVE TypeOK'
  BY <1>2 DEF Call
<1>3. ASSUME NEW c \in Callers, Step(c) PROVE TypeOK'
  <2>1. CASE Open(c)
    BY <2>1 DEF Open
  <2>2. CASE CheckStale(c)
    BY <2>2 DEF CheckStale
  <2>3. CASE Break(c)
    BY <2>3 DEF Break
  <2>4. CASE RetryOrGiveUp(c)
    BY <2>4 DEF RetryOrGiveUp
  <2>5. CASE Finish(c)
    BY <2>5 DEF Finish
  <2>6. CASE Release(c)
    BY <2>6 DEF Release
  <2> QED BY <1>3, <2>1, <2>2, <2>3, <2>4, <2>5, <2>6 DEF Step
<1>4. ASSUME NEW c \in Callers, Crash(c) PROVE TypeOK'
  BY <1>4 DEF Crash
<1>5. CASE Tick
  BY <1>5 DEF Tick
<1> QED BY <1>1, <1>2, <1>3, <1>4, <1>5 DEF Next

LEMMA InvariantStep ==
  ASSUME Prompt
  PROVE  IInv /\ [Next]_vars => IInv'
<1> SUFFICES ASSUME IInv, [Next]_vars PROVE IInv'
  OBVIOUS
<1> USE QueueFileLockAssumption DEF IInv, TypeOK, Calm, HolderOwnsFile
<1>1. TypeOK'
  BY TypeStep
<1>2. CASE UNCHANGED vars
  BY <1>2 DEF vars
<1>3. ASSUME NEW c \in Callers, Call(c) PROVE IInv'
  BY <1>1, <1>3 DEF Call
<1>4. ASSUME NEW c \in Callers, Step(c) PROVE IInv'
  <2>1. CASE Open(c)
    BY <1>1, <2>1 DEF Open
  <2>2. CASE CheckStale(c)
    BY <1>1, <2>2 DEF CheckStale, Stale
  <2>3. CASE Break(c)
    BY <1>1, <2>3 DEF Break
  <2>4. CASE RetryOrGiveUp(c)
    BY <1>1, <2>4 DEF RetryOrGiveUp
  <2>5. CASE Finish(c)
    BY <1>1, <2>5 DEF Finish
  <2>6. CASE Release(c)
    BY <1>1, <2>6 DEF Release
  <2> QED BY <1>4, <2>1, <2>2, <2>3, <2>4, <2>5, <2>6 DEF Step
<1>5. ASSUME NEW c \in Callers, Crash(c) PROVE IInv'
  BY <1>1, <1>5 DEF Crash
<1>6. CASE Tick
  <2>1. crashes = 0 /\ LockFile => age < StaleAfter
    BY <1>6 DEF Tick, Outlasting
  <2> QED BY <1>1, <1>6, <2>1 DEF Tick
<1> QED BY <1>2, <1>3, <1>4, <1>5, <1>6 DEF Next

\* The state of the lock is well typed, whatever crashes or stalls
\* (withRouteJobsLock).
THEOREM TypeCorrect == Spec => []TypeOK
<1>1. Init => TypeOK
  BY QueueFileLockAssumption DEF Init, TypeOK
<1> QED BY <1>1, TypeStep, PTL DEF Spec

LEMMA Invariance ==
  ASSUME Prompt
  PROVE  Spec => []IInv
<1>1. Init => IInv
  BY QueueFileLockAssumption DEF Init, IInv, TypeOK, Calm, HolderOwnsFile
<1>2. IInv /\ [Next]_vars => IInv'
  BY InvariantStep
<1> QED BY <1>1, <1>2, PTL DEF Spec

\* Where no operation outlasts the threshold, and until a caller dies, two
\* callers are never at work at once (withRouteJobsLock).
THEOREM LockSerializes ==
  ASSUME Prompt
  PROVE  Spec => []Serialized
<1>1. IInv => Serialized
  BY DEF IInv, Calm, HolderOwnsFile, Serialized, Alone
<1> QED BY <1>1, Invariance, PTL

\* Under the same conditions no caller ever takes a lock file for stale, so
\* none is about to remove one: the remedy for a crash stays out of the way of
\* callers that are merely slow (isStaleLock).
THEOREM FilesStand ==
  ASSUME Prompt
  PROVE  Spec => []NeverBroken
<1>1. IInv => NeverBroken
  BY DEF IInv, Calm, NeverBroken
<1> QED BY <1>1, Invariance, PTL
=============================================================================
