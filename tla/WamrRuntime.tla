---------------------------- MODULE WamrRuntime ----------------------------
(***************************************************************************)
(* One run of a container on the WAMR runtime engine                       *)
(* (src/runtime/wamr-wasip1/wamr.c): the thread that executes              *)
(* instance_thread_execute, the module instance it creates and destroys,   *)
(* and instance_kill, which other threads call while it runs.              *)
(*                                                                         *)
(* The guest program, the module loader and the interpreter are external:  *)
(* a guest either returns from main by itself or is terminated by the      *)
(* exception that wasm_runtime_terminate leaves in its instance.           *)
(***************************************************************************)

CONSTANTS
  GuestExits,  \* TRUE iff the guest's main may return without being killed
  Faults       \* the calls of the platform that may fail

\* pthread_attr_init or malloc, pthread_create, wasm_runtime_instantiate
AllFaults == {"attr", "thread", "instantiate"}

ASSUME RuntimeAssumption ==
  /\ GuestExits \in BOOLEAN
  /\ Faults \subseteq AllFaults

VARIABLES
  thread,       \* where the container's thread is
  module_inst,  \* context->module_inst: "null", "live", or "freed" (dangling)
  exception     \* a "terminated" exception is pending in the live instance

runtimeVars == <<thread, module_inst, exception>>

(***************************************************************************)
(* The places of the container's thread, in the order it visits them.      *)
(*   none     no thread, or the last one was joined                        *)
(*   boot     created, about to call wasm_runtime_instantiate              *)
(*   init     instance stored in the context, exception not yet cleared    *)
(*   post     exception cleared, about to post the start semaphore         *)
(*   main     inside wasm_application_execute_main                         *)
(*   cleanup  main returned, instance still allocated                      *)
(*   deinst   instance freed, context->module_inst still points to it      *)
(*   exit     thread_execute returned, about to lock the container         *)
(*   locked   holds the container's mutex, EXITED is published             *)
(*   ended    mutex released: the thread has nothing left to do            *)
(***************************************************************************)
ThreadPlaces == {"none", "boot", "init", "post", "main", "cleanup",
                 "deinst", "exit", "locked", "ended"}

RuntimeTypeOK ==
  /\ thread \in ThreadPlaces
  /\ module_inst \in {"null", "live", "freed"}
  /\ exception \in BOOLEAN

RuntimeInit ==
  /\ thread = "none"
  /\ module_inst = "null"
  /\ exception = FALSE

---------------------------------------------------------------------------
(* The steps of instance_execute. *)

\* A new instance carries no exception.
Instantiate ==
  /\ thread = "boot"
  /\ thread' = "init"
  /\ module_inst' = "live"
  /\ exception' = FALSE

\* The failure path returns -1 without posting the start semaphore.
InstantiateFails ==
  /\ "instantiate" \in Faults
  /\ thread = "boot"
  /\ thread' = "exit"
  /\ module_inst' = "null"
  /\ UNCHANGED exception

\* wasm_runtime_clear_exception; the module registration and the shared heap
\* that precede it touch no state of the container.
ClearException ==
  /\ thread = "init"
  /\ thread' = "post"
  /\ exception' = FALSE
  /\ UNCHANGED module_inst

\* main returns because the guest chose to ...
GuestReturns ==
  /\ GuestExits
  /\ thread = "main"
  /\ thread' = "cleanup"
  /\ UNCHANGED <<module_inst, exception>>

\* ... or because the interpreter met the termination exception.
GuestTerminated ==
  /\ thread = "main"
  /\ exception
  /\ thread' = "cleanup"
  /\ UNCHANGED <<module_inst, exception>>

Deinstantiate ==
  /\ thread = "cleanup"
  /\ thread' = "deinst"
  /\ module_inst' = "freed"
  /\ exception' = FALSE

ClearInstance ==
  /\ thread = "deinst"
  /\ thread' = "exit"
  /\ module_inst' = "null"
  /\ UNCHANGED exception

---------------------------------------------------------------------------
Mut_KillForgetsTerminate == UNCHANGED runtimeVars

(* instance_kill passes context->module_inst to wasm_runtime_terminate     *)
(* without looking at it.  On an instance that is not live the call is     *)
(* undefined: here it terminates nothing.                                  *)
instance_kill ==
  /\ exception' = (exception \/ module_inst = "live")
  /\ UNCHANGED <<thread, module_inst>>
=============================================================================
