------------------------------- MODULE Library -------------------------------
(***************************************************************************)
(* The library (src/ocre/ocre.c): the runtime engines it registers and     *)
(* initialises, the contexts it has created, and the mutex of their list.  *)
(* The WAMR engine's share of the initialisation, which makes the event    *)
(* queue of the containers, is included (wamr.c, ocre_common.c).           *)
(*                                                                         *)
(* The application initialises and deinitialises the library while none of *)
(* its threads is in another call.  What happens inside a context is the   *)
(* subject of Context: here its destruction succeeds or fails.             *)
(***************************************************************************)
EXTENDS Naturals, Sequences, FiniteSets

CONSTANTS
  Threads,      \* the application's threads
  Workdirs,     \* working directories of contexts
  Vtables,      \* the lists of engines given to ocre_initialize
  MaxContexts,  \* bound: how many contexts are created
  MaxInits,     \* bound: how often the library is initialised
  Settings      \* the settings in which the library is looked at

Wamr == "wamr/wasip1"

\* The names of engines
Names == {Wamr} \union UNION {{vtable[i] : i \in DOMAIN vtable} : vtable \in Vtables}

\* faults: what may fail, the initialisation of an engine, the creation or
\* the destruction of a context; twice: the application destroys contexts
\* that it has destroyed before.
ASSUME LibraryAssumption ==
  /\ "free" \notin Threads
  /\ Vtables \subseteq Seq(Names)
  /\ MaxContexts \in Nat
  /\ MaxInits \in Nat
  /\ Settings \subseteq
       [faults : SUBSET {"engine", "create", "context"}, twice : BOOLEAN]

VARIABLES
  setting,         \* the setting of this behaviour, which never changes
  phase,           \* what ocre_initialize or ocre_deinitialize is doing
  inits,           \* how often the library was initialised
  runtimes,        \* the list of engines
  ready,           \* the engines that are initialised
  next,            \* the engine that is initialised next
  eventq,          \* ocre_event_queue: "none", "ready" or "destroyed"
  common_init,     \* the static flag in ocre_common_init
  contexts,        \* the list of contexts
  created,         \* how many contexts were created
  contexts_mutex,  \* who holds contexts_mutex
  calls            \* calls[t]: the call that thread t is in

engineVars == <<phase, inits, runtimes, ready, next, eventq, common_init>>
contextVars == <<contexts, created, contexts_mutex, calls>>
libraryVars == <<setting, engineVars, contextVars>>

Idle == <<"idle">>
Contexts == 1 .. MaxContexts
Faulty(call) == call \in setting.faults
Engines == {runtimes[i] : i \in DOMAIN runtimes}

LibraryTypeOK ==
  /\ setting \in Settings
  /\ phase \in {"down", "init", "up", "deinit"}
  /\ inits \in 0 .. MaxInits
  /\ runtimes \in Seq(Names)
  /\ ready \subseteq Names
  /\ next \in 1 .. Len(runtimes) + 1
  /\ eventq \in {"none", "ready", "destroyed"}
  /\ common_init \in BOOLEAN
  /\ contexts \subseteq [context : Contexts, workdir : Workdirs]
  /\ created \in 0 .. MaxContexts
  /\ contexts_mutex \in Threads \union {"free"}
  /\ calls \in [Threads -> {Idle} \union ({"create"} \X Workdirs)
                                  \union ({"destroy"} \X Contexts)]

LibraryInit ==
  /\ setting \in Settings
  /\ phase = "down"
  /\ inits = 0
  /\ runtimes = <<>>
  /\ ready = {}
  /\ next = 1
  /\ eventq = "none"
  /\ common_init = FALSE
  /\ contexts = {}
  /\ created = 0
  /\ contexts_mutex = "free"
  /\ calls = [t \in Threads |-> Idle]

---------------------------------------------------------------------------
(* ocre_initialize *)

\* No engine of the list has the name of an earlier one.
UniqueNames(engines) ==
  \A i, j \in DOMAIN engines : engines[i] = engines[j] => i = j

\* Register the engines; a second one of a name empties the list again.
Initialize(vtable) ==
  /\ phase = "down"
  /\ inits < MaxInits
  /\ inits' = inits + 1
  /\ LET engines == <<Wamr>> \o vtable IN
       \/ /\ UniqueNames(engines)
          /\ runtimes' = engines
          /\ phase' = "init"
       \/ /\ ~ UniqueNames(engines)
          /\ runtimes' = <<>>
          /\ UNCHANGED phase
  /\ next' = 1
  /\ contexts' = {}
  /\ contexts_mutex' = "free"
  /\ UNCHANGED <<ready, eventq, common_init, created, calls>>

\* runtime_init of WAMR: ocre_common_init makes the queue the first time it is
\* called.
EngineInit(engine) ==
  /\ ready' = ready \union {engine}
  /\ eventq' = IF engine = Wamr /\ ~ common_init THEN "ready" ELSE eventq
  /\ common_init' = (common_init \/ engine = Wamr)

InitializeEngine ==
  /\ phase = "init"
  /\ next \in DOMAIN runtimes
  /\ EngineInit(runtimes[next])
  /\ next' = next + 1
  /\ UNCHANGED <<phase, inits, runtimes, contextVars>>

\* An engine cannot be initialised: ocre_deinitialize is called.
InitializeFails ==
  /\ Faulty("engine")
  /\ phase = "init"
  /\ next \in DOMAIN runtimes
  /\ phase' = "deinit"
  /\ next' = 1
  /\ UNCHANGED <<inits, runtimes, ready, eventq, common_init, contextVars>>

InitializeDone ==
  /\ phase = "init"
  /\ next \notin DOMAIN runtimes
  /\ phase' = "up"
  /\ next' = 1
  /\ UNCHANGED <<inits, runtimes, ready, eventq, common_init, contextVars>>

---------------------------------------------------------------------------
(* ocre_deinitialize *)

Mut_DeinitKeepsContexts ==
  /\ phase = "up"
  /\ \A t \in Threads : calls[t] = Idle
  /\ phase' = "deinit"
  /\ UNCHANGED <<inits, runtimes, ready, next, eventq, common_init, contextVars>>

\* Every context is destroyed, without the mutex; one that cannot be destroyed
\* is passed over.
Deinitialize ==
  /\ phase = "up"
  /\ \A t \in Threads : calls[t] = Idle
  /\ phase' = "deinit"
  /\ \/ contexts' = {}
     \/ Faulty("context") /\ contexts' \in SUBSET contexts
  /\ UNCHANGED <<inits, runtimes, ready, next, eventq, common_init, created,
                 contexts_mutex, calls>>

\* deinit of the engine, then its node.
DeinitializeEngine ==
  /\ phase = "deinit"
  /\ runtimes # <<>>
  /\ eventq' = IF Head(runtimes) = Wamr THEN "destroyed" ELSE eventq
  /\ runtimes' = Tail(runtimes)
  /\ ready' = ready \ {Head(runtimes)}
  /\ UNCHANGED <<phase, inits, next, common_init, contextVars>>

DeinitializeDone ==
  /\ phase = "deinit"
  /\ runtimes = <<>>
  /\ phase' = "down"
  /\ UNCHANGED <<inits, runtimes, ready, next, eventq, common_init, contextVars>>

---------------------------------------------------------------------------
(* ocre_create_context and ocre_destroy_context *)

Call(t, call) ==
  /\ phase = "up"
  /\ calls[t] = Idle
  /\ calls' = [calls EXCEPT ![t] = call]
  /\ UNCHANGED <<engineVars, contexts, created, contexts_mutex>>

CreateCall(t, w) == created < MaxContexts /\ Call(t, <<"create", w>>)

\* The application destroys a context that it was given, and not while
\* another thread does, unless it destroys contexts twice.
DestroyCall(t, c) ==
  /\ c <= created
  /\ \/ setting.twice
     \/ /\ \E n \in contexts : n.context = c
        /\ \A u \in Threads : calls[u] # <<"destroy", c>>
  /\ Call(t, <<"destroy", c>>)

Return(t) == calls' = [calls EXCEPT ![t] = Idle]

WorkdirFree(w) == \A n \in contexts : n.workdir # w

Mut_CreateUnchecked(t) ==
  /\ calls[t][1] = "create"
  /\ contexts_mutex = "free"
  /\ created < MaxContexts
  /\ created' = created + 1
  /\ contexts' = contexts \union {[context |-> created', workdir |-> calls[t][2]]}
  /\ Return(t)
  /\ UNCHANGED <<engineVars, contexts_mutex>>

\* From the lock to the unlock.  The directory is in use, or something fails:
\* NULL is returned and the list is as it was.
ocre_create_context(t) ==
  /\ calls[t][1] = "create"
  /\ contexts_mutex = "free"
  /\ \/ /\ WorkdirFree(calls[t][2])
        /\ created < MaxContexts
        /\ created' = created + 1
        /\ contexts' = contexts \union {[context |-> created', workdir |-> calls[t][2]]}
     \/ /\ \/ ~ WorkdirFree(calls[t][2]) \/ created = MaxContexts
           \/ Faulty("create")
        /\ UNCHANGED <<created, contexts>>
  /\ Return(t)
  /\ UNCHANGED <<engineVars, contexts_mutex>>

Mut_DestroyKeepsMutex(t) ==
  /\ calls[t][1] = "destroy"
  /\ contexts_mutex = "free"
  /\ contexts_mutex' = t
  /\ \E n \in contexts :
       /\ n.context = calls[t][2]
       /\ contexts' = contexts \ {n}
  /\ Return(t)
  /\ UNCHANGED <<engineVars, created>>

\* Found and destroyed: unlock.
ocre_destroy_context(t) ==
  /\ calls[t][1] = "destroy"
  /\ contexts_mutex = "free"
  /\ \E n \in contexts :
       /\ n.context = calls[t][2]
       /\ contexts' = contexts \ {n}
  /\ Return(t)
  /\ UNCHANGED <<engineVars, created, contexts_mutex>>

\* Not in the list, or not destroyed: return -1, with the mutex held.
DestroyFails(t) ==
  /\ calls[t][1] = "destroy"
  /\ contexts_mutex = "free"
  /\ \/ \A n \in contexts : n.context # calls[t][2]
     \/ Faulty("context")
  /\ contexts_mutex' = t
  /\ Return(t)
  /\ UNCHANGED <<engineVars, contexts, created>>

Locked(t) == ocre_create_context(t) \/ ocre_destroy_context(t) \/ DestroyFails(t)

EngineNext ==
  \/ \E vtable \in Vtables : Initialize(vtable)
  \/ InitializeEngine \/ InitializeFails \/ InitializeDone
  \/ Deinitialize \/ DeinitializeEngine \/ DeinitializeDone

ThreadNext(t) ==
  \/ \E w \in Workdirs : CreateCall(t, w)
  \/ \E c \in Contexts : DestroyCall(t, c)
  \/ Locked(t)

LibraryNext ==
  /\ EngineNext \/ \E t \in Threads : ThreadNext(t)
  /\ UNCHANGED setting

LibrarySpec == LibraryInit /\ [][LibraryNext]_libraryVars

\* The mutex, when it is free again and again, is given to each thread.
LibraryLiveSpec ==
  LibrarySpec /\ \A t \in Threads : SF_libraryVars(Locked(t) /\ UNCHANGED setting)

---------------------------------------------------------------------------
(* Safety *)

\* No two contexts have one working directory, whichever threads create them
\* and whatever was destroyed in between.
UniqueWorkdirs ==
  \A m, n \in contexts : m.workdir = n.workdir => m = n

\* While the library is up, the engines in the list are the initialised ones,
\* each under a name of its own, and at the first start there is an event
\* queue.  (After a restart there is none: ocre_common_init does not make it
\* again.)  After ocre_deinitialize, and after an ocre_initialize that failed at
\* any point, no engine is left initialised or registered, and no context exists
\* unless one could not be destroyed.
PhaseHolds ==
  /\ phase = "up" =>
       /\ ready = Engines
       /\ Cardinality(Engines) = Len(runtimes)
       /\ inits = 1 => eventq = "ready"
  /\ phase = "down" =>
       /\ ready = {}
       /\ runtimes = <<>>
       /\ Faulty("context") \/ contexts = {}

---------------------------------------------------------------------------
(* Liveness *)

DestructionsSucceed == ~ setting.twice /\ ~ Faulty("context")

\* Where every destruction succeeds, every call to create or to destroy a
\* context returns: each path gives the mutex back.
CallsReturn ==
  \A t \in Threads : DestructionsSucceed /\ calls[t] # Idle ~> calls[t] = Idle
=============================================================================
