--------------------------- MODULE ContainerRemoval ---------------------------
(***************************************************************************)
(* A container that is removed while it exists for other threads too:      *)
(* ocre_container_destroy (src/ocre/container.c) reads the status without  *)
(* the container's mutex, joins the thread of an EXITED container, and     *)
(* frees everything.  Its only caller, ocre_context_remove_container,      *)
(* holds the context's mutex, so that there is one removal at a time; the  *)
(* other calls on the container take no such lock.                         *)
(***************************************************************************)
EXTENDS Container

CONSTANT SingleThreaded  \* TRUE iff the application makes one call at a time

ASSUME RemovalAssumption == SingleThreaded \in BOOLEAN

VARIABLES
  remover,  \* where the removal is: "idle", "check", "join" or "free"
  found,    \* the status the removal read: ocre_container_destroy's local
  freed     \* the container was freed

removalVars == <<vars, remover, found, freed>>

RemovalTypeOK ==
  /\ TypeOK
  /\ remover \in {"idle", "check", "join", "free"}
  /\ found \in Statuses \union {"none"}
  /\ freed \in BOOLEAN

RemovalInit ==
  /\ Init
  /\ remover = "idle"
  /\ found = "none"
  /\ freed = FALSE

RemoveCall ==
  /\ remover = "idle"
  /\ SingleThreaded => \A c \in Callers : At(c, "idle")
  /\ remover' = "check"
  /\ UNCHANGED <<vars, found, freed>>

Mut_RemoveExited ==
  /\ remover = "check"
  /\ \/ status \in {"EXITED", "STOPPED", "CREATED", "ERROR"} /\ remover' = "free"
     \/ status \in {"RUNNING", "PAUSED"} /\ remover' = "idle"
  /\ found' = status
  /\ UNCHANGED <<vars, freed>>

\* The status decides; RUNNING and PAUSED return -1.
RemoveCheck ==
  /\ remover = "check"
  /\ \/ status = "EXITED" /\ remover' = "join"
     \/ status \in {"STOPPED", "CREATED", "ERROR"} /\ remover' = "free"
     \/ status \in {"RUNNING", "PAUSED"} /\ remover' = "idle"
  /\ found' = status
  /\ UNCHANGED <<vars, freed>>

Mut_RemoveJoinKeepsStatus ==
  /\ remover = "join"
  /\ thread = "ended"
  /\ thread' = "none"
  /\ remover' = "check"
  /\ UNCHANGED <<module_inst, exception, status, syncVars, run, exit_code, pc,
                 found, freed>>

\* The thread may still be on its way out: pthread_join waits for it.
RemoveJoin ==
  /\ remover = "join"
  /\ thread = "ended"
  /\ thread' = "none"
  /\ status' = "STOPPED"
  /\ remover' = "check"
  /\ UNCHANGED <<module_inst, exception, syncVars, run, exit_code, pc, found,
                 freed>>

RemoveFree ==
  /\ remover = "free"
  /\ freed' = TRUE
  /\ remover' = "idle"
  /\ UNCHANGED <<vars, found>>

\* What a thread does with a container that was freed is undefined: the
\* model stops there, and the invariants look at who was still using it.
RemovalNext ==
  /\ ~ freed
  /\ \/ /\ SingleThreaded => remover = "idle"
        /\ CallerNext
        /\ UNCHANGED <<remover, found, freed>>
     \/ ThreadNext /\ UNCHANGED <<remover, found, freed>>
     \/ RemoveCall
     \/ RemoveCheck
     \/ RemoveJoin
     \/ RemoveFree

RemovalSpec == RemovalInit /\ [][RemovalNext]_removalVars

RemovalFairness ==
  /\ \A c \in Callers :
       /\ WF_removalVars(~ freed /\ Continue(c) /\ UNCHANGED <<remover, found, freed>>)
       /\ SF_removalVars(~ freed /\ Relock(c) /\ UNCHANGED <<remover, found, freed>>)
  /\ WF_removalVars(~ freed /\ (RemoveCheck \/ RemoveJoin \/ RemoveFree))
  /\ WF_removalVars(~ freed /\ ThreadStep /\ UNCHANGED <<remover, found, freed>>)
  /\ SF_removalVars(~ freed /\ ThreadExit /\ UNCHANGED <<remover, found, freed>>)

RemovalLiveSpec == RemovalSpec /\ RemovalFairness

---------------------------------------------------------------------------
\* For an application that makes one call at a time, a removal that found
\* CREATED or STOPPED frees the container when its thread has been joined and
\* its instance is gone, although the status was read without the mutex and
\* the thread may be exiting meanwhile.
RemovedIsJoined ==
  freed /\ found # "ERROR" => thread = "none" /\ module_inst = "null"

\* A removal returns: the join it may do is of a thread on its way out.
RemovalReturns == remover # "idle" ~> remover = "idle"

\* For an application that makes one call at a time, a kill that was accepted
\* ends the run even if the guest's main would never return, unless the
\* container is freed first (a refused start left it in ERROR): start returned
\* after sem_post, so that the kill comes after the exception was cleared.
KilledRunEnds ==
  \A c \in Callers :
    At(c, "kill") ~> freed \/ thread \in {"none", "locked", "ended"}

---------------------------------------------------------------------------
(* What the documentation says and the code does not keep *)

\* "This is guaranteed to be called only when the container should not be
\* running or paused" (vtable.h, destroy).
RemovedIsStopped == freed => thread = "none"
=============================================================================
