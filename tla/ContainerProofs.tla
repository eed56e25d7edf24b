--------------------------- MODULE ContainerProofs ---------------------------
(***************************************************************************)
(* What holds of Container for every set of callers, every runtime engine, *)
(* every fault and any number of runs; and of ContainerRemoval.            *)
(***************************************************************************)
EXTENDS ContainerRemoval, FiniteSetTheorems, TLAPS

\* EXITED means that the thread is at its end, CREATED and STOPPED that there
\* is none; ERROR says nothing of it.
StatusOfThread ==
  /\ status \in {"CREATED", "STOPPED"} => thread = "none"
  /\ status = "EXITED" => thread \in {"locked", "ended"}

\* The exit code is the current run's exactly when its thread is done.
Published ==
  /\ thread \in {"none", "locked", "ended"} => exit_code = run
  /\ thread \notin {"none", "locked", "ended"} => run = exit_code + 1

\* Between two runs no instance is left.
InstanceGone ==
  thread \in {"none", "boot", "exit", "locked", "ended"} => module_inst = "null"

\* RUNNING and PAUSED, and a pause or resume that was accepted on their word,
\* are never about a run that is over.
NotOver ==
  /\ status \in {"RUNNING", "PAUSED"} => thread \notin {"locked", "ended"}
  /\ \A c \in Callers :
       pc[c] \in {"pause", "unpause"} => thread \notin {"locked", "ended"}

IInv ==
  /\ TypeOK
  /\ MutualExclusion
  /\ StatusOfThread
  /\ OneThread
  /\ JoinDoesNotBlock
  /\ Published
  /\ InstanceGone
  /\ NotOver

USE DEF At, Goto, Enter, Leave, runtimeVars, syncVars, vars

\* The container as ocre_container_create leaves it.
LEMMA InitIInv == Init => IInv
<1> SUFFICES ASSUME Init PROVE IInv
  OBVIOUS
<1>1. TypeOK
  <2>1. RuntimeTypeOK
    BY DEF Init, RuntimeInit, RuntimeTypeOK, ThreadPlaces
  <2>2. QED
    BY <2>1 DEF Init, TypeOK, Statuses, UnlockedPlaces
<1>2. MutualExclusion
  BY ContainerAssumption
     DEF ContainerAssumption, Init, RuntimeInit, MutualExclusion, LockedPlaces,
         Signals
<1>3. QED
  BY <1>1, <1>2
     DEF Init, RuntimeInit, IInv, StatusOfThread, OneThread, JoinDoesNotBlock,
         JoinPlaces, Published, InstanceGone, NotOver

\* The steps of a caller that leave the thread alone: they may move the
\* mutex, the status and the caller.
LEMMA CallerIInv ==
  ASSUME IInv, NEW c \in Callers,
         Call(c) \/ Continue(c) \/ Relock(c) \/ Environment(c)
  PROVE  IInv'
<1> USE ContainerAssumption
    DEF ContainerAssumption, IInv, TypeOK, RuntimeTypeOK, ThreadPlaces,
        Statuses, LockedPlaces, UnlockedPlaces, Signals, JoinPlaces,
        MutualExclusion, StatusOfThread, OneThread, JoinDoesNotBlock,
        Published, InstanceGone, NotOver
\* The two steps that take a thread away and bring one: nobody else is in a
\* critical section, so that nobody else joins or creates.
<1>1. CASE Join(c)
  <2>1. mutex = c /\ \A d \in Callers \ {c} : pc[d] \notin LockedPlaces
    BY <1>1 DEF Join
  <2>2. TypeOK' /\ MutualExclusion'
    BY <1>1, <2>1 DEF Join
  <2>3. OneThread' /\ JoinDoesNotBlock'
    BY <1>1, <2>1 DEF Join
  <2>4. StatusOfThread' /\ Published' /\ InstanceGone' /\ NotOver'
    BY <1>1, <2>1 DEF Join
  <2>5. QED
    BY <2>2, <2>3, <2>4
<1>2. CASE StartCreate(c)
  <2>1. mutex = c /\ \A d \in Callers \ {c} : pc[d] \notin LockedPlaces
    BY <1>2 DEF StartCreate
  <2>2. TypeOK' /\ MutualExclusion'
    BY <1>2, <2>1 DEF StartCreate
  <2>3. OneThread' /\ JoinDoesNotBlock'
    BY <1>2, <2>1 DEF StartCreate
  <2>4. Published' /\ InstanceGone'
    \* the thread was "none", so that the last run has published its result
    BY <1>2 DEF StartCreate
  <2>5. StatusOfThread' /\ NotOver'
    BY <1>2 DEF StartCreate
  <2>6. QED
    BY <2>2, <2>3, <2>4, <2>5
<1>3. CASE Kill(c)
  <2>1. RuntimeTypeOK'
    BY <1>3 DEF Kill, instance_kill
  <2>2. QED
    BY <1>3, <2>1 DEF Kill, instance_kill
<1>4. CASE StartCall(c)
  BY <1>4 DEF StartCall
<1>5. CASE StartCheck(c)
  BY <1>5 DEF StartCheck
<1>6. CASE StartAttrFails(c)
  BY <1>6 DEF StartAttrFails
<1>7. CASE StartThreadFails(c)
  BY <1>7 DEF StartThreadFails
<1>8. CASE StartFail(c)
  BY <1>8 DEF StartFail
<1>9. CASE StartError(c)
  BY <1>9 DEF StartError
<1>10. CASE StartSem(c)
  BY <1>10 DEF StartSem
<1>11. CASE StatusCall(c)
  BY <1>11 DEF StatusCall
<1>12. CASE StatusCheck(c)
  BY <1>12 DEF StatusCheck
<1>13. CASE WaitCall(c)
  BY <1>13 DEF WaitCall
<1>14. CASE WaitLock(c)
  BY <1>14 DEF WaitLock
<1>15. CASE WaitCheck(c)
  BY <1>15 DEF WaitCheck
<1>16. CASE SpuriousWake(c)
  BY <1>16 DEF SpuriousWake
<1>17. CASE WaitWake(c)
  BY <1>17 DEF WaitWake
<1>18. CASE WaitAfter(c)
  BY <1>18 DEF WaitAfter
<1>19. CASE WaitJoined(c)
  BY <1>19 DEF WaitJoined
<1>20. CASE WaitReturn(c)
  BY <1>20 DEF WaitReturn
<1>21. CASE Stop(c)
  BY <1>21 DEF Stop
<1>22. CASE Pause(c)
  BY <1>22 DEF Pause
<1>23. CASE Unpause(c)
  BY <1>23 DEF Unpause
<1>24. ASSUME NEW op \in Signals, SignalCall(c, op)
      PROVE  IInv'
  BY <1>24 DEF SignalCall, Accepts, RequiredStatus
<1>25. ASSUME NEW op \in Signals, SignalRefused(c, op)
      PROVE  IInv'
  BY <1>25 DEF SignalRefused
<1>26. QED
  BY <1>1, <1>2, <1>3, <1>4, <1>5, <1>6, <1>7, <1>8, <1>9, <1>10, <1>11, <1>12, <1>13, <1>14, <1>15, <1>16, <1>17, <1>18, <1>19, <1>20, <1>21, <1>22, <1>23, <1>24, <1>25
     DEF Call, Continue, Relock, Environment

\* The steps of the container's thread.
LEMMA ThreadIInv ==
  ASSUME IInv, ThreadStep \/ ThreadExit \/ MainReturns
  PROVE  IInv'
<1> USE ContainerAssumption
    DEF ContainerAssumption, IInv, TypeOK, RuntimeTypeOK, ThreadPlaces,
        Statuses, LockedPlaces, UnlockedPlaces, Signals, JoinPlaces,
        MutualExclusion, StatusOfThread, OneThread, JoinDoesNotBlock,
        Published, InstanceGone, NotOver
<1>1. CASE Execute
  <2>1. CASE Instantiate
    BY <1>1, <2>1 DEF Execute, Instantiate
  <2>2. CASE InstantiateFails
    BY <1>1, <2>2 DEF Execute, InstantiateFails
  <2>3. CASE ClearException
    BY <1>1, <2>3 DEF Execute, ClearException
  <2>4. CASE GuestTerminated
    BY <1>1, <2>4 DEF Execute, GuestTerminated
  <2>5. CASE Deinstantiate
    BY <1>1, <2>5 DEF Execute, Deinstantiate
  <2>6. CASE ClearInstance
    BY <1>1, <2>6 DEF Execute, ClearInstance
  <2>7. QED
    BY <1>1, <2>1, <2>2, <2>3, <2>4, <2>5, <2>6 DEF Execute
<1>2. CASE SemPost
  BY <1>2 DEF SemPost
<1>3. CASE MainReturns
  BY <1>3 DEF MainReturns, GuestReturns
<1>4. CASE ThreadExit
  \* the mutex was free: no caller is between its check and its join
  <2>1. \A d \in Callers : pc[d] \notin LockedPlaces
    BY <1>4 DEF ThreadExit
  <2>2. QED
    BY <1>4, <2>1 DEF ThreadExit
<1>5. CASE ThreadUnlock
  BY <1>5 DEF ThreadUnlock
<1>6. QED
  BY <1>1, <1>2, <1>3, <1>4, <1>5 DEF ThreadStep

\* The invariant is inductive, and holds in every reachable state.
LEMMA NextIInv == IInv /\ [Next]_vars => IInv'
<1> SUFFICES ASSUME IInv, [Next]_vars PROVE IInv'
  OBVIOUS
<1>1. CASE CallerNext
  BY <1>1, CallerIInv DEF CallerNext
<1>2. CASE ThreadNext
  BY <1>2, ThreadIInv DEF ThreadNext
<1>3. CASE UNCHANGED vars
  BY <1>3 DEF IInv, TypeOK, RuntimeTypeOK, MutualExclusion, StatusOfThread,
              OneThread, JoinDoesNotBlock, Published, InstanceGone,
              NotOver
<1>4. QED
  BY <1>1, <1>2, <1>3 DEF Next

\* Every reachable state satisfies the inductive invariant.
THEOREM Invariance == Spec => []IInv
<1>1. Init => IInv
  BY InitIInv
<1>2. IInv /\ [Next]_vars => IInv'
  BY NextIInv
<1>3. QED
  BY <1>1, <1>2, PTL DEF Spec

---------------------------------------------------------------------------
(* The properties that the runs check *)

\* Type correctness of the container and its run.
THEOREM TypeCorrectness == Spec => []TypeOK
<1>1. IInv => TypeOK
  BY DEF IInv
<1>2. QED
  BY <1>1, Invariance, PTL

\* At most one caller, or the thread, is inside a critical section.
THEOREM MutexSafety == Spec => []MutualExclusion
<1>1. IInv => MutualExclusion
  BY DEF IInv
<1>2. QED
  BY <1>1, Invariance, PTL

\* start creates a thread only when the one before it was joined.
THEOREM ThreadSafety == Spec => []OneThread
<1>1. IInv => OneThread
  BY DEF IInv
<1>2. QED
  BY <1>1, Invariance, PTL

\* The join under the mutex never waits, and never joins twice.
THEOREM JoinSafety == Spec => []JoinDoesNotBlock
<1>1. IInv => JoinDoesNotBlock
  BY DEF IInv
<1>2. QED
  BY <1>1, Invariance, PTL

\* CREATED and STOPPED are told only of a container that has no thread and no
\* instance.
THEOREM StoppedSafety == Spec => []StoppedIsStopped
<1>1. IInv => StoppedIsStopped
  BY DEF IInv, StoppedIsStopped, StatusOfThread, InstanceGone
<1>2. QED
  BY <1>1, Invariance, PTL

\* A wait that returns an exit code returns the latest run's.
THEOREM WaitSafety == Spec => []WaitReportsLatestRun
<1>1. IInv => WaitReportsLatestRun
  BY DEF IInv, WaitReportsLatestRun, StatusOfThread, Published
<1>2. QED
  BY <1>1, Invariance, PTL

---------------------------------------------------------------------------
(* The container implements its life cycle *)

\* A step of a caller is a step of the life cycle, or no step of it: only
\* Join, StartCreate, and the four writes of the status are seen.
LEMMA CallerLifecycle ==
  ASSUME IInv, NEW c \in Callers,
         Call(c) \/ Continue(c) \/ Relock(c) \/ Environment(c)
  PROVE  [Lifecycle!LifecycleNext]_(Lifecycle!lifecycleVars)
<1> USE DEF IInv, Phase, Lifecycle!LifecycleNext, Lifecycle!lifecycleVars
<1>1. CASE Join(c)
  BY <1>1 DEF Join, Lifecycle!Reap
<1>2. CASE StartCreate(c)
  BY <1>2 DEF StartCreate, OneThread, Lifecycle!Begin
<1>3. CASE StartThreadFails(c)
  BY <1>3 DEF StartThreadFails, OneThread, Lifecycle!Resume
<1>4. CASE StartError(c)
  BY <1>4 DEF StartError, Lifecycle!GoWrong
<1>5. CASE Pause(c)
  BY <1>5 DEF Pause, NotOver, Lifecycle!Suspend
<1>6. CASE Unpause(c)
  BY <1>6 DEF Unpause, NotOver, Lifecycle!Resume
<1>7. CASE Kill(c)
  BY <1>7 DEF Kill, instance_kill
<1>8. CASE ~ \/ Join(c) \/ StartCreate(c) \/ StartThreadFails(c)
             \/ StartError(c) \/ Pause(c) \/ Unpause(c) \/ Kill(c)
  <2>1. UNCHANGED <<thread, status, run, exit_code>>
    BY <1>8
       DEF Call, Continue, Relock, Environment, StartCall, StartCheck,
           StartAttrFails, StartFail, StartSem, StatusCall, StatusCheck,
           WaitCall, WaitLock, WaitCheck, SpuriousWake, WaitWake, WaitAfter,
           WaitJoined, WaitReturn, SignalCall, SignalRefused, Stop
  <2>2. QED
    BY <2>1
<1>9. QED
  BY <1>1, <1>2, <1>3, <1>4, <1>5, <1>6, <1>7, <1>8

\* Of the thread's steps only the exit is seen.
LEMMA ThreadLifecycle ==
  ASSUME IInv, ThreadStep \/ ThreadExit \/ MainReturns
  PROVE  [Lifecycle!LifecycleNext]_(Lifecycle!lifecycleVars)
<1> USE DEF IInv, Phase, Lifecycle!LifecycleNext, Lifecycle!lifecycleVars
<1>1. CASE ThreadExit
  BY <1>1 DEF ThreadExit, Lifecycle!Finish
<1>2. CASE Execute
  BY <1>2 DEF Execute, Instantiate, InstantiateFails, ClearException,
              GuestTerminated, Deinstantiate, ClearInstance
<1>3. CASE SemPost \/ MainReturns \/ ThreadUnlock
  BY <1>3 DEF SemPost, MainReturns, GuestReturns, ThreadUnlock
<1>4. QED
  BY <1>1, <1>2, <1>3 DEF ThreadStep

\* The refinement, for every set of callers and any number of runs: the
\* container with its mutex, thread and waiters implements the life cycle.
THEOREM Refinement == Spec => ImplementsLifecycle
<1>1. Init => Lifecycle!LifecycleInit
  BY DEF Init, RuntimeInit, Lifecycle!LifecycleInit, Phase
<1>2. IInv /\ [Next]_vars =>
        [Lifecycle!LifecycleNext]_(Lifecycle!lifecycleVars)
  <2> SUFFICES ASSUME IInv, [Next]_vars
               PROVE  [Lifecycle!LifecycleNext]_(Lifecycle!lifecycleVars)
    OBVIOUS
  <2>1. CASE CallerNext
    BY <2>1, CallerLifecycle DEF CallerNext
  <2>2. CASE ThreadNext
    BY <2>2, ThreadLifecycle DEF ThreadNext
  <2>3. CASE UNCHANGED vars
    BY <2>3 DEF Lifecycle!lifecycleVars, Phase
  <2>4. QED
    BY <2>1, <2>2, <2>3 DEF Next
<1>3. QED
  BY <1>1, <1>2, Invariance, PTL
     DEF Spec, ImplementsLifecycle, Lifecycle!LifecycleSpec

---------------------------------------------------------------------------
(* The start semaphore *)

\* The starts that wait for the semaphore
Waiting == {c \in Callers : At(c, "start_sem")}

\* The starts that wait are finitely many, so that they can be counted
\* although the callers need not be.
SemIInv == IsFiniteSet(Waiting) /\ SemBalanced

\* A step of a caller: only the creation of the thread and the wait for the
\* semaphore change who waits.
LEMMA CallerSem ==
  ASSUME IInv, SemIInv, NEW c \in Callers,
         Call(c) \/ Continue(c) \/ Relock(c) \/ Environment(c)
  PROVE  SemIInv'
<1> USE DEF SemIInv, SemBalanced, Waiting
<1>0. pc \in [Callers -> LockedPlaces \union UnlockedPlaces] /\ sem_start \in Nat
  BY DEF IInv, TypeOK
<1>1. CASE StartCreate(c)
  <2>1. Waiting' = Waiting \union {c} /\ c \notin Waiting
    BY <1>0, <1>1 DEF StartCreate
  <2>2. thread = "none" /\ thread' = "boot" /\ sem_start' = sem_start
    BY <1>1 DEF StartCreate, IInv, OneThread
  <2>3. IsFiniteSet(Waiting') /\ Cardinality(Waiting') = Cardinality(Waiting) + 1
    BY <2>1, FS_AddElement
  <2>4. QED
    BY <1>0, <2>2, <2>3
<1>2. CASE StartSem(c)
  <2>1. Waiting' = Waiting \ {c} /\ c \in Waiting
    BY <1>0, <1>2 DEF StartSem
  <2>2. thread' = thread /\ sem_start' = sem_start - 1
    BY <1>2 DEF StartSem
  <2>3. IsFiniteSet(Waiting') /\ Cardinality(Waiting') = Cardinality(Waiting) - 1
    BY <2>1, FS_RemoveElement
  <2>4. QED
    BY <1>0, <2>2, <2>3
<1>3. CASE Join(c)
  <2>1. Waiting' = Waiting
    BY <1>0, <1>3 DEF Join
  <2>2. QED
    BY <1>3, <2>1 DEF Join
<1>4. CASE ~ (StartCreate(c) \/ StartSem(c) \/ Join(c))
  <2>1. thread' = thread /\ sem_start' = sem_start
    BY <1>4 DEF Call, Continue, Relock, Environment, StartCall, StartCheck,
           StartAttrFails, StartThreadFails, StartFail, StartError, StatusCall,
           StatusCheck, WaitCall, WaitLock, WaitCheck, SpuriousWake, WaitWake,
           WaitAfter, WaitJoined, WaitReturn, SignalCall, SignalRefused, Stop,
           Kill, instance_kill, Pause, Unpause
  <2>2. Waiting' = Waiting
    <3>1. \A d \in Callers : d # c => pc'[d] = pc[d]
      BY <1>0, <1>4 DEF Call, Continue, Relock, Environment, StartCall, StartCheck,
           StartAttrFails, StartThreadFails, StartFail, StartError, StatusCall,
           StatusCheck, WaitCall, WaitLock, WaitCheck, SpuriousWake, WaitWake,
           WaitAfter, WaitJoined, WaitReturn, SignalCall, SignalRefused, Stop,
           Kill, Pause, Unpause
    <3>2. pc[c] = "start_sem" <=> pc'[c] = "start_sem"
      BY <1>0, <1>4 DEF Call, Continue, Relock, Environment, StartCall, StartCheck,
           StartAttrFails, StartThreadFails, StartFail, StartError, StatusCall,
           StatusCheck, WaitCall, WaitLock, WaitCheck, SpuriousWake, WaitWake,
           WaitAfter, WaitJoined, WaitReturn, SignalCall, SignalRefused, Stop,
           Kill, Pause, Unpause, Signals
    <3>3. QED
      BY <3>1, <3>2
  <2>3. QED
    BY <2>1, <2>2
<1>5. QED
  BY <1>1, <1>2, <1>3, <1>4

\* A step of the thread: it passes from "boot" to "post" without a post, and
\* then posts, unless the instance cannot be made.
LEMMA ThreadSem ==
  ASSUME "instantiate" \notin Faults, IInv, SemIInv,
         ThreadStep \/ ThreadExit \/ MainReturns
  PROVE  SemIInv'
<1> USE DEF SemIInv, SemBalanced, Waiting
<1>0. pc' = pc /\ Waiting' = Waiting
  BY DEF ThreadStep, ThreadExit, MainReturns, Execute, SemPost, ThreadUnlock
<1>1. CASE SemPost
  BY <1>0, <1>1 DEF SemPost, IInv, TypeOK
<1>2. CASE Execute
  <2>1. sem_start' = sem_start
    BY <1>2 DEF Execute
  <2>2. thread \in {"boot", "init", "post"} <=> thread' \in {"boot", "init", "post"}
    BY <1>2 DEF Execute, Instantiate, InstantiateFails, ClearException,
                GuestTerminated, Deinstantiate, ClearInstance
  <2>3. QED
    BY <1>0, <2>1, <2>2
<1>3. CASE ThreadExit \/ MainReturns \/ ThreadUnlock
  BY <1>0, <1>3 DEF ThreadExit, MainReturns, GuestReturns, ThreadUnlock
<1>4. QED
  BY <1>1, <1>2, <1>3 DEF ThreadStep

\* Every start that waits for its semaphore has a post to come, and no post is
\* left over for a later start, for any number of callers, unless
\* wasm_runtime_instantiate fails.
THEOREM SemSafety ==
  ASSUME "instantiate" \notin Faults
  PROVE  Spec => []SemBalanced
<1>1. Init => SemIInv
  <2> SUFFICES ASSUME Init PROVE SemIInv
    OBVIOUS
  <2>1. Waiting = {}
    BY DEF Init, Waiting
  <2>2. QED
    BY <2>1, FS_EmptySet DEF Init, RuntimeInit, SemIInv, SemBalanced, Waiting
<1>2. IInv /\ SemIInv /\ [Next]_vars => SemIInv'
  <2> SUFFICES ASSUME IInv, SemIInv, [Next]_vars PROVE SemIInv'
    OBVIOUS
  <2>1. CASE CallerNext
    BY <2>1, CallerSem DEF CallerNext
  <2>2. CASE ThreadNext
    BY <2>2, ThreadSem DEF ThreadNext
  <2>3. CASE UNCHANGED vars
    BY <2>3 DEF SemIInv, SemBalanced, Waiting
  <2>4. QED
    BY <2>1, <2>2, <2>3 DEF Next
<1>3. SemIInv => SemBalanced
  BY DEF SemIInv
<1>4. QED
  BY <1>1, <1>2, <1>3, Invariance, PTL DEF Spec

---------------------------------------------------------------------------
(* Removal, for an application that makes one call at a time *)

\* What ocre_container_destroy knows at each of its steps: nobody else calls,
\* a thread that it joins is on its way out, and when it frees a container
\* that it did not find in ERROR, thread and instance are gone.
RemovalIInv ==
  /\ IInv
  /\ remover # "idle" => \A c \in Callers : pc[c] = "idle"
  /\ remover = "join" => status = "EXITED"
  /\ remover = "free" /\ found # "ERROR" => status \in {"CREATED", "STOPPED"}
  /\ RemovedIsJoined

\* A step of the removal leaves the container's own invariant as it is, the
\* join without the mutex included.
LEMMA RemoverIInv ==
  ASSUME SingleThreaded, RemovalIInv, ~ freed,
         RemoveCall \/ RemoveCheck \/ RemoveJoin \/ RemoveFree
  PROVE  RemovalIInv'
<1> USE DEF RemovalIInv, RemovedIsJoined
<1>1. CASE RemoveJoin
  <2>1. /\ thread = "ended" /\ thread' = "none" /\ status' = "STOPPED"
        /\ UNCHANGED <<module_inst, exception, syncVars, run, exit_code, pc>>
        /\ \A c \in Callers : pc[c] = "idle"
    BY <1>1 DEF RemoveJoin
  <2>2. IInv'
    <3>1. TypeOK' /\ MutualExclusion'
      BY <2>1 DEF IInv, TypeOK, RuntimeTypeOK, ThreadPlaces, Statuses, MutualExclusion
    <3>2. OneThread' /\ JoinDoesNotBlock' /\ NotOver'
      BY <2>1 DEF OneThread, JoinDoesNotBlock, JoinPlaces, NotOver
    <3>3. StatusOfThread' /\ Published' /\ InstanceGone'
      BY <2>1 DEF IInv, StatusOfThread, Published, InstanceGone
    <3>4. QED
      BY <3>1, <3>2, <3>3 DEF IInv
  <2>3. QED
    BY <1>1, <2>1, <2>2 DEF RemoveJoin
<1>2. CASE RemoveCall \/ RemoveCheck \/ RemoveFree
  <2>1. UNCHANGED vars
    BY <1>2 DEF RemoveCall, RemoveCheck, RemoveFree
  <2>2. IInv'
    BY <2>1 DEF IInv, TypeOK, RuntimeTypeOK, MutualExclusion, StatusOfThread,
              OneThread, JoinDoesNotBlock, Published, InstanceGone, NotOver
  <2>3. status \in {"CREATED", "STOPPED"} => thread = "none" /\ module_inst = "null"
    BY DEF IInv, StatusOfThread, InstanceGone
  <2>4. CASE RemoveCall
    BY <2>1, <2>2, <2>4 DEF RemoveCall
  <2>5. CASE RemoveCheck
    BY <2>1, <2>2, <2>5 DEF RemoveCheck
  <2>6. CASE RemoveFree
    BY <2>1, <2>2, <2>3, <2>6 DEF RemoveFree
  <2>7. QED
    BY <1>2, <2>4, <2>5, <2>6
<1>3. QED
  BY <1>1, <1>2

\* A step of the container's thread while a removal is under way.
LEMMA ThreadDuringRemoval ==
  ASSUME RemovalIInv, ~ freed, ThreadNext, UNCHANGED <<remover, found, freed>>
  PROVE  RemovalIInv'
<1> USE DEF RemovalIInv, RemovedIsJoined
<1>1. IInv'
  BY ThreadIInv DEF ThreadNext
<1>2. pc' = pc
  BY DEF ThreadNext, ThreadStep, ThreadExit, MainReturns, Execute, SemPost, ThreadUnlock
<1>3. status' = status \/ thread = "exit"
  BY DEF ThreadNext, ThreadStep, ThreadExit, MainReturns, Execute, SemPost, ThreadUnlock
<1>4. status \in {"EXITED", "CREATED", "STOPPED"} => thread # "exit"
  BY DEF IInv, StatusOfThread
<1>5. QED
  BY <1>1, <1>2, <1>3, <1>4

\* A removal that found CREATED or STOPPED frees the container only after its
\* thread was joined and its instance is gone, although
\* ocre_container_destroy reads the status without the mutex.
THEOREM RemovalSafety ==
  ASSUME SingleThreaded
  PROVE  RemovalSpec => []RemovedIsJoined
<1>1. RemovalInit => RemovalIInv
  BY InitIInv DEF RemovalInit, RemovalIInv, RemovedIsJoined
<1>2. RemovalIInv /\ [RemovalNext]_removalVars => RemovalIInv'
  <2> SUFFICES ASSUME RemovalIInv, [RemovalNext]_removalVars PROVE RemovalIInv'
    OBVIOUS
  <2>1. CASE ~ freed /\ (RemoveCall \/ RemoveCheck \/ RemoveJoin \/ RemoveFree)
    BY <2>1, RemoverIInv
  <2>2. CASE ~ freed /\ ThreadNext /\ UNCHANGED <<remover, found, freed>>
    BY <2>2, ThreadDuringRemoval
  <2>3. CASE /\ ~ freed /\ remover = "idle"
             /\ CallerNext /\ UNCHANGED <<remover, found, freed>>
    BY <2>3, CallerIInv DEF CallerNext, RemovalIInv, RemovedIsJoined
  <2>4. CASE UNCHANGED removalVars
    BY <2>4 DEF removalVars, RemovalIInv, RemovedIsJoined, IInv, TypeOK, RuntimeTypeOK,
                MutualExclusion, StatusOfThread, OneThread, JoinDoesNotBlock, Published,
                InstanceGone, NotOver
  <2>5. QED
    BY <2>1, <2>2, <2>3, <2>4 DEF RemovalNext
<1>3. RemovalIInv => RemovedIsJoined
  BY DEF RemovalIInv
<1>4. QED
  BY <1>1, <1>2, <1>3, PTL DEF RemovalSpec
=============================================================================
