------------------------------ MODULE Container ------------------------------
(***************************************************************************)
(* One container (src/ocre/container.c): its status, the mutex, semaphore  *)
(* and condition variable that protect and announce it, the thread that    *)
(* runs it, and the application's threads that call the container API.     *)
(*                                                                         *)
(* A call is one action up to the point where it holds the mutex, and one  *)
(* action per step after that, because ocre_container_start writes the     *)
(* status ERROR after it has given the mutex back: that write may fall     *)
(* between any two steps of another caller's critical section.             *)
(*                                                                         *)
(* A mutex, semaphore or condition variable call never fails here, and     *)
(* neither does pthread_join; the arguments are never NULL.                *)
(***************************************************************************)
EXTENDS WamrRuntime, Integers, FiniteSets

CONSTANTS
  Callers,     \* the application's threads
  Calls,       \* Calls[c]: the calls that thread c makes, in any order
  Detached,    \* container->detached
  RuntimeOps,  \* the optional operations the runtime engine provides
  Spurious,    \* TRUE iff pthread_cond_wait may wake without a broadcast
  MaxRuns      \* bound: how often the container may be started

Signals == {"kill", "stop", "pause", "unpause"}
Operations == {"start", "status", "wait"} \union Signals

ASSUME ContainerAssumption ==
  /\ {"free", "thread"} \intersect Callers = {}
  /\ Calls \in [Callers -> SUBSET Operations]
  /\ Detached \in BOOLEAN
  /\ RuntimeOps \subseteq {"stop", "pause", "unpause"}
  /\ Spurious \in BOOLEAN
  /\ MaxRuns \in Nat

VARIABLES
  status,     \* container->status (UNKNOWN is never stored)
  mutex,      \* who holds container->mutex
  sem_start,  \* the value of container->sem_start
  cond_stop,  \* the callers blocked on container->cond_stop
  run,        \* how many threads were created: the current run's number
  exit_code,  \* the run whose result container->exit_code holds; 0: none
  pc          \* where each caller is

syncVars == <<mutex, sem_start, cond_stop>>
vars == <<runtimeVars, status, syncVars, run, exit_code, pc>>

Statuses == {"CREATED", "RUNNING", "PAUSED", "EXITED", "STOPPED", "ERROR"}

\* Where a caller holds the mutex ...
LockedPlaces ==
  {"start_check", "start_join", "start_create", "start_fail",
   "status_check", "status_join",
   "wait_check", "wait_after", "wait_join", "wait_joined", "wait_return"}
  \union Signals

\* ... and where it does not.
UnlockedPlaces ==
  {"idle", "start_error", "start_sem", "wait_lock", "wait_cond"}

JoinPlaces == {"start_join", "status_join", "wait_join"}

TypeOK ==
  /\ RuntimeTypeOK
  /\ status \in Statuses
  /\ mutex \in Callers \union {"free", "thread"}
  /\ sem_start \in Nat
  /\ cond_stop \subseteq Callers
  /\ run \in Nat
  /\ exit_code \in Nat
  /\ pc \in [Callers -> LockedPlaces \union UnlockedPlaces]

\* ocre_container_create leaves the container here.
Init ==
  /\ RuntimeInit
  /\ status = "CREATED"
  /\ mutex = "free"
  /\ sem_start = 0
  /\ cond_stop = {}
  /\ run = 0
  /\ exit_code = 0
  /\ pc = [c \in Callers |-> "idle"]

---------------------------------------------------------------------------
At(c, place) == pc[c] = place
Goto(c, place) == pc' = [pc EXCEPT ![c] = place]

\* Caller c makes a call: it takes the mutex and goes to place.
Enter(c, place) ==
  /\ At(c, "idle")
  /\ mutex = "free"
  /\ mutex' = c
  /\ Goto(c, place)

\* Caller c gives the mutex back and goes to place.
Leave(c, place) ==
  /\ mutex' = "free"
  /\ Goto(c, place)

---------------------------------------------------------------------------
(* ocre_container_status_locked: join the thread of an EXITED container.   *)
(* The callers read the status again when it returns.                      *)

Mut_JoinKeepsStatus(c) ==
  /\ thread = "ended"
  /\ thread' = "none"
  /\ \/ At(c, "start_join") /\ Goto(c, "start_check")
     \/ At(c, "status_join") /\ Goto(c, "status_check")
     \/ At(c, "wait_join") /\ Goto(c, "wait_joined")
  /\ UNCHANGED <<module_inst, exception, status, syncVars, run, exit_code>>

Join(c) ==
  /\ thread = "ended"
  /\ thread' = "none"
  /\ status' = "STOPPED"
  /\ \/ At(c, "start_join") /\ Goto(c, "start_check")
     \/ At(c, "status_join") /\ Goto(c, "status_check")
     \/ At(c, "wait_join") /\ Goto(c, "wait_joined")
  /\ UNCHANGED <<module_inst, exception, syncVars, run, exit_code>>

---------------------------------------------------------------------------
(* ocre_container_start *)

\* MaxRuns bounds the starts that can create a thread; one that the status
\* refuses is always possible.
StartCall(c) ==
  /\ "start" \in Calls[c]
  /\ run < MaxRuns \/ status \in {"RUNNING", "PAUSED", "ERROR"}
  /\ Enter(c, "start_check")
  /\ UNCHANGED <<runtimeVars, status, sem_start, cond_stop, run, exit_code>>

Mut_StartSkipsJoin(c) ==
  /\ At(c, "start_check")
  /\ \/ status = "EXITED" /\ Goto(c, "start_create")
     \/ status \in {"CREATED", "STOPPED"} /\ Goto(c, "start_create")
     \/ status \in {"RUNNING", "PAUSED", "ERROR"} /\ Goto(c, "start_fail")
  /\ UNCHANGED <<runtimeVars, status, syncVars, run, exit_code>>

StartCheck(c) ==
  /\ At(c, "start_check")
  /\ \/ status = "EXITED" /\ Goto(c, "start_join")
     \/ status \in {"CREATED", "STOPPED"} /\ Goto(c, "start_create")
     \/ status \in {"RUNNING", "PAUSED", "ERROR"} /\ Goto(c, "start_fail")
  /\ UNCHANGED <<runtimeVars, status, syncVars, run, exit_code>>

\* pthread_attr_init or the allocation of the parameters fails.
StartAttrFails(c) ==
  /\ "attr" \in Faults
  /\ At(c, "start_create")
  /\ Goto(c, "start_fail")
  /\ UNCHANGED <<runtimeVars, status, syncVars, run, exit_code>>

\* pthread_create fails after the status was set.
StartThreadFails(c) ==
  /\ "thread" \in Faults
  /\ At(c, "start_create")
  /\ status' = "RUNNING"
  /\ Goto(c, "start_fail")
  /\ UNCHANGED <<runtimeVars, syncVars, run, exit_code>>

StartCreate(c) ==
  /\ At(c, "start_create")
  /\ status' = "RUNNING"
  /\ thread' = "boot"
  /\ run' = run + 1
  /\ Leave(c, "start_sem")
  /\ UNCHANGED <<module_inst, exception, sem_start, cond_stop, exit_code>>

\* error_mutex: unlock ...
StartFail(c) ==
  /\ At(c, "start_fail")
  /\ Leave(c, "start_error")
  /\ UNCHANGED <<runtimeVars, status, sem_start, cond_stop, run, exit_code>>

Mut_StartErrorSetsStopped(c) ==
  /\ At(c, "start_error")
  /\ status' = "STOPPED"
  /\ Goto(c, "idle")
  /\ UNCHANGED <<runtimeVars, syncVars, run, exit_code>>

\* ... and then error_status: write the status without the mutex.
StartError(c) ==
  /\ At(c, "start_error")
  /\ status' = "ERROR"
  /\ Goto(c, "idle")
  /\ UNCHANGED <<runtimeVars, syncVars, run, exit_code>>

Mut_StartSemNoWait(c) ==
  /\ At(c, "start_sem")
  /\ sem_start' = sem_start - 1
  /\ Goto(c, IF Detached THEN "idle" ELSE "wait_lock")
  /\ UNCHANGED <<runtimeVars, status, mutex, cond_stop, run, exit_code>>

StartSem(c) ==
  /\ At(c, "start_sem")
  /\ sem_start > 0
  /\ sem_start' = sem_start - 1
  /\ Goto(c, IF Detached THEN "idle" ELSE "wait_lock")
  /\ UNCHANGED <<runtimeVars, status, mutex, cond_stop, run, exit_code>>

---------------------------------------------------------------------------
(* ocre_container_get_status *)

StatusCall(c) ==
  /\ "status" \in Calls[c]
  /\ Enter(c, "status_check")
  /\ UNCHANGED <<runtimeVars, status, sem_start, cond_stop, run, exit_code>>

StatusCheck(c) ==
  /\ At(c, "status_check")
  /\ \/ status = "EXITED" /\ Goto(c, "status_join") /\ UNCHANGED mutex
     \/ status # "EXITED" /\ Leave(c, "idle")
  /\ UNCHANGED <<runtimeVars, status, sem_start, cond_stop, run, exit_code>>

---------------------------------------------------------------------------
(* ocre_container_wait, called by the application or by start itself *)

WaitCall(c) ==
  /\ "wait" \in Calls[c]
  /\ Enter(c, "wait_check")
  /\ UNCHANGED <<runtimeVars, status, sem_start, cond_stop, run, exit_code>>

WaitLock(c) ==
  /\ At(c, "wait_lock")
  /\ mutex = "free"
  /\ mutex' = c
  /\ Goto(c, "wait_check")
  /\ UNCHANGED <<runtimeVars, status, sem_start, cond_stop, run, exit_code>>

WaitCheck(c) ==
  /\ At(c, "wait_check")
  /\ \/ /\ status = "CREATED"
        /\ Leave(c, "idle")
        /\ UNCHANGED cond_stop
     \/ /\ status = "RUNNING"
        /\ Leave(c, "wait_cond")
        /\ cond_stop' = cond_stop \union {c}
     \/ /\ status \in {"PAUSED", "EXITED", "STOPPED", "ERROR"}
        /\ Goto(c, "wait_after")
        /\ UNCHANGED <<mutex, cond_stop>>
  /\ UNCHANGED <<runtimeVars, status, sem_start, run, exit_code>>

SpuriousWake(c) ==
  /\ Spurious
  /\ c \in cond_stop
  /\ cond_stop' = cond_stop \ {c}
  /\ UNCHANGED <<runtimeVars, status, mutex, sem_start, run, exit_code, pc>>

\* pthread_cond_wait returns with the mutex.
WaitWake(c) ==
  /\ At(c, "wait_cond")
  /\ c \notin cond_stop
  /\ mutex = "free"
  /\ mutex' = c
  /\ Goto(c, "wait_after")
  /\ UNCHANGED <<runtimeVars, status, sem_start, cond_stop, run, exit_code>>

WaitAfter(c) ==
  /\ At(c, "wait_after")
  /\ \/ status = "EXITED" /\ Goto(c, "wait_join")
     \/ status # "EXITED" /\ Goto(c, "wait_return")
  /\ UNCHANGED <<runtimeVars, status, syncVars, run, exit_code>>

\* The status that ocre_container_status_locked returned must be STOPPED.
WaitJoined(c) ==
  /\ At(c, "wait_joined")
  /\ \/ status = "STOPPED" /\ Goto(c, "wait_return") /\ UNCHANGED mutex
     \/ status # "STOPPED" /\ Leave(c, "idle")
  /\ UNCHANGED <<runtimeVars, status, sem_start, cond_stop, run, exit_code>>

\* Return 0, with the exit code iff the status is STOPPED now.
WaitReturn(c) ==
  /\ At(c, "wait_return")
  /\ Leave(c, "idle")
  /\ UNCHANGED <<runtimeVars, status, sem_start, cond_stop, run, exit_code>>

---------------------------------------------------------------------------
(* ocre_container_kill, _stop, _pause and _unpause *)

RequiredStatus(op) == IF op = "unpause" THEN "PAUSED" ELSE "RUNNING"

Accepts(op) ==
  /\ status = RequiredStatus(op)
  /\ op \in RuntimeOps \union {"kill"}

SignalCall(c, op) ==
  /\ op \in Calls[c]
  /\ Accepts(op)
  /\ Enter(c, op)
  /\ UNCHANGED <<runtimeVars, status, sem_start, cond_stop, run, exit_code>>

\* Lock, find that the call is not possible, unlock, return -1.
SignalRefused(c, op) ==
  /\ op \in Calls[c]
  /\ ~ Accepts(op)
  /\ At(c, "idle")
  /\ mutex = "free"
  /\ UNCHANGED vars

Kill(c) ==
  /\ At(c, "kill")
  /\ instance_kill
  /\ Leave(c, "idle")
  /\ UNCHANGED <<status, sem_start, cond_stop, run, exit_code>>

\* What the engine's stop, pause and unpause do to the instance is external:
\* WAMR, the engine this repository has, provides none of them.
Stop(c) ==
  /\ At(c, "stop")
  /\ Leave(c, "idle")
  /\ UNCHANGED <<runtimeVars, status, sem_start, cond_stop, run, exit_code>>

Pause(c) ==
  /\ At(c, "pause")
  /\ status' \in {status, "PAUSED"}
  /\ Leave(c, "idle")
  /\ UNCHANGED <<runtimeVars, sem_start, cond_stop, run, exit_code>>

Unpause(c) ==
  /\ At(c, "unpause")
  /\ status' \in {status, "RUNNING"}
  /\ Leave(c, "idle")
  /\ UNCHANGED <<runtimeVars, sem_start, cond_stop, run, exit_code>>

---------------------------------------------------------------------------
(* container_thread *)

\* thread_execute, but for the semaphore.
Execute ==
  /\ \/ Instantiate
     \/ InstantiateFails
     \/ ClearException
     \/ GuestTerminated
     \/ Deinstantiate
     \/ ClearInstance
  /\ UNCHANGED <<status, syncVars, run, exit_code, pc>>

MainReturns ==
  /\ GuestReturns
  /\ UNCHANGED <<status, syncVars, run, exit_code, pc>>

Mut_NoPost ==
  /\ thread = "post"
  /\ thread' = "main"
  /\ UNCHANGED <<module_inst, exception, status, syncVars, run, exit_code, pc>>

\* sem_post in instance_execute
SemPost ==
  /\ thread = "post"
  /\ thread' = "main"
  /\ sem_start' = sem_start + 1
  /\ UNCHANGED <<module_inst, exception, status, mutex, cond_stop, run,
                 exit_code, pc>>

\* EXITED is published before the mutex is taken.
Mut_ExitUnlocked ==
  /\ thread = "exit"
  /\ thread' = "locked"
  /\ mutex' = "thread"
  /\ status' = "EXITED"
  /\ exit_code' = run
  /\ cond_stop' = {}
  /\ UNCHANGED <<module_inst, exception, sem_start, run, pc>>

Mut_NoBroadcast ==
  /\ thread = "exit"
  /\ mutex = "free"
  /\ thread' = "locked"
  /\ mutex' = "thread"
  /\ status' = "EXITED"
  /\ exit_code' = run
  /\ UNCHANGED <<module_inst, exception, sem_start, cond_stop, run, pc>>

Mut_NoExitCode ==
  /\ thread = "exit"
  /\ mutex = "free"
  /\ thread' = "locked"
  /\ mutex' = "thread"
  /\ status' = "EXITED"
  /\ cond_stop' = {}
  /\ UNCHANGED <<module_inst, exception, sem_start, run, exit_code, pc>>

\* Lock, publish EXITED and the result, wake every waiter.
ThreadExit ==
  /\ thread = "exit"
  /\ mutex = "free"
  /\ thread' = "locked"
  /\ mutex' = "thread"
  /\ status' = "EXITED"
  /\ exit_code' = run
  /\ cond_stop' = {}
  /\ UNCHANGED <<module_inst, exception, sem_start, run, pc>>

ThreadUnlock ==
  /\ thread = "locked"
  /\ thread' = "ended"
  /\ mutex' = "free"
  /\ UNCHANGED <<module_inst, exception, status, sem_start, cond_stop, run,
                 exit_code, pc>>

---------------------------------------------------------------------------
(* The steps of a call in progress that need no lock, and those that do.   *)
Continue(c) ==
  \/ Join(c)
  \/ StartCheck(c) \/ StartCreate(c) \/ StartFail(c) \/ StartError(c)
  \/ StartSem(c)
  \/ StatusCheck(c)
  \/ WaitCheck(c) \/ WaitAfter(c) \/ WaitJoined(c) \/ WaitReturn(c)
  \/ Kill(c) \/ Stop(c) \/ Pause(c) \/ Unpause(c)

Relock(c) == WaitLock(c) \/ WaitWake(c)

Call(c) ==
  \/ StartCall(c) \/ StatusCall(c) \/ WaitCall(c)
  \/ \E op \in Signals : SignalCall(c, op) \/ SignalRefused(c, op)

Environment(c) == StartAttrFails(c) \/ StartThreadFails(c) \/ SpuriousWake(c)

ThreadStep == Execute \/ SemPost \/ ThreadUnlock

CallerNext ==
  \E c \in Callers : Call(c) \/ Continue(c) \/ Relock(c) \/ Environment(c)

ThreadNext == ThreadStep \/ ThreadExit \/ MainReturns

Next == CallerNext \/ ThreadNext

Spec == Init /\ [][Next]_vars

(***************************************************************************)
(* A thread that can run does run, and a mutex that is free again and      *)
(* again is finally given to each thread that asks for it.  Nothing makes  *)
(* the application call, the guest return, or the platform fail.           *)
(***************************************************************************)
Fairness ==
  /\ \A c \in Callers : WF_vars(Continue(c)) /\ SF_vars(Relock(c))
  /\ WF_vars(ThreadStep)
  /\ SF_vars(ThreadExit)

LiveSpec == Spec /\ Fairness

\* A guest whose main returns sooner or later.
TerminatingSpec == LiveSpec /\ WF_vars(MainReturns)

---------------------------------------------------------------------------
(* Safety *)

\* The mutex belongs to the caller that is inside a critical section, or to
\* the container's thread between its lock and its unlock: no two of them
\* are ever inside, in spite of the paths that give it up halfway (the
\* condition variable, start's semaphore, the error exits).
MutualExclusion ==
  /\ \A c \in Callers : pc[c] \in LockedPlaces <=> mutex = c
  /\ thread = "locked" <=> mutex = "thread"

\* container->thread is overwritten only when the thread it named has been
\* joined: start never creates a second thread next to a live one, and
\* never leaks an ended one, although another caller may set ERROR meanwhile.
OneThread == \A c \in Callers : At(c, "start_create") => thread = "none"

\* "pthread_join should not block here because the thread already exited":
\* whoever joins, with the mutex held, finds a thread that has finished, and
\* joins it once.
JoinDoesNotBlock == \A c \in Callers : pc[c] \in JoinPlaces => thread = "ended"

\* A wait that returns the exit code returns the one of the latest run, even
\* if the container was restarted while the waiter was waking up.
WaitReportsLatestRun ==
  \A c \in Callers :
    At(c, "wait_return") /\ status = "STOPPED" => exit_code = run

\* A status that says no run is in progress, told to any caller, means that
\* the thread was joined and its module instance is gone.
StoppedIsStopped ==
  status \in {"CREATED", "STOPPED"} => thread = "none" /\ module_inst = "null"

\* Every start that waits for its semaphore has a post to come: the posts
\* made or still due are exactly the starts that wait.
SemBalanced ==
  Cardinality({c \in Callers : At(c, "start_sem")}) =
    sem_start + (IF thread \in {"boot", "init", "post"} THEN 1 ELSE 0)

---------------------------------------------------------------------------
(* Refinement *)

\* Where the current run is, as the thread that executes it shows.
Phase ==
  IF thread = "none" THEN "idle"
  ELSE IF thread \in {"locked", "ended"} THEN "done"
  ELSE "running"

Lifecycle ==
  INSTANCE ContainerLifecycle WITH phase <- Phase, result <- exit_code

\* Seen from outside, the container goes through its documented life cycle,
\* however its callers interleave: no run begins before the thread of the one
\* before was joined, none finishes twice or without its result, none is
\* reaped before EXITED was published, and no pause or resume in progress
\* touches a run that is over.
ImplementsLifecycle == Lifecycle!LifecycleSpec

---------------------------------------------------------------------------
(* Liveness *)

\* start returns, or goes on to wait for the container, after it created the
\* thread: no post is lost.  Everyone blocked in wait returns once the guest's
\* main has returned: the broadcast reaches every waiter of the run, whoever
\* joins the thread.
BlockedReturn ==
  \A c \in Callers :
    /\ At(c, "start_sem") ~> ~ At(c, "start_sem")
    /\ At(c, "wait_cond") ~> At(c, "idle")

\* A kill that was accepted ends the run: the container does not go on for
\* ever after ocre_container_kill returned 0.  (The code does not keep this: a
\* kill that comes before the thread clears the exception is lost.)
KillEndsRun ==
  \A c \in Callers : At(c, "kill") ~> thread \in {"none", "locked", "ended"}
=============================================================================
