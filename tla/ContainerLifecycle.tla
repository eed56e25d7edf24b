-------------------------- MODULE ContainerLifecycle --------------------------
(***************************************************************************)
(* What a container promises the threads that share it: runs that follow   *)
(* each other, each of which is begun once, finishes once, leaves its      *)
(* result before it is reaped, and is reaped before the next one begins;   *)
(* and a status that tells of them.  No mutex, thread or waiter is seen    *)
(* here: every step is atomic.                                             *)
(***************************************************************************)
EXTENDS Naturals

VARIABLES
  status,  \* what ocre_container_get_status tells
  phase,   \* "idle", "running" or "done": where the current run is
  run,     \* how many runs were begun
  result   \* the run whose exit code is known; 0: none

lifecycleVars == <<status, phase, run, result>>

LifecycleInit ==
  /\ status = "CREATED"
  /\ phase = "idle"
  /\ run = 0
  /\ result = 0

Begin ==
  /\ phase = "idle"
  /\ phase' = "running"
  /\ run' = run + 1
  /\ status' = "RUNNING"
  /\ UNCHANGED result

\* The result is there when the status says that the run is over.
Finish ==
  /\ phase = "running"
  /\ phase' = "done"
  /\ status' = "EXITED"
  /\ result' = run
  /\ UNCHANGED run

Reap ==
  /\ phase = "done"
  /\ phase' = "idle"
  /\ status' = "STOPPED"
  /\ UNCHANGED <<run, result>>

\* A refused start marks the container, whatever it is doing.
GoWrong ==
  /\ status' = "ERROR"
  /\ UNCHANGED <<phase, run, result>>

\* A run that is over is neither paused ...
Suspend ==
  /\ phase # "done"
  /\ status' = "PAUSED"
  /\ UNCHANGED <<phase, run, result>>

\* ... nor resumed.  RUNNING is also told, until the error is known, of a
\* run that could not be begun.
Resume ==
  /\ phase # "done"
  /\ status' = "RUNNING"
  /\ UNCHANGED <<phase, run, result>>

LifecycleNext == Begin \/ Finish \/ Reap \/ GoWrong \/ Suspend \/ Resume

LifecycleSpec == LifecycleInit /\ [][LifecycleNext]_lifecycleVars
=============================================================================
