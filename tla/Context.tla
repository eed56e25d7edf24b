------------------------------- MODULE Context -------------------------------
(***************************************************************************)
(* A context (src/ocre/context.c): the registry of its containers, their   *)
(* working directories under <workdir>/containers, and its creation and    *)
(* destruction by the library (src/ocre/ocre.c).                           *)
(*                                                                         *)
(* The operations on the registry run under the context's mutex: each is   *)
(* one step.  ocre_context_destroy takes no lock and blocks halfway: each  *)
(* of its loops is taken one container at a time.  The directories survive *)
(* a crash of the process; the registry does not.                          *)
(*                                                                         *)
(* A container is an object here, numbered in the order of creation, of    *)
(* which only the status matters, and whether its thread is alive.  The    *)
(* order of the list, which only a listing shows, is left out.             *)
(***************************************************************************)
EXTENDS Naturals, FiniteSets

CONSTANTS
  Ids,         \* the container ids
  MaxObjects,  \* bound: how many containers are ever created
  MaxCrashes,  \* bound: how often the process crashes
  Settings     \* the settings in which the context is looked at

\* mkdir; the engine's create; rm_rf at its three places
AllFaults == {"mkdir", "runtime", "rm_create", "rm_remove", "rm_startup"}

\* faults: the calls of the platform that may fail; pausable: the engine can
\* pause a container; restarts: the application starts running containers.
ASSUME ContextAssumption ==
  /\ MaxObjects \in Nat
  /\ MaxCrashes \in Nat
  /\ Settings \subseteq [faults : SUBSET AllFaults, pausable : BOOLEAN,
                          restarts : BOOLEAN]

VARIABLES
  setting,  \* the setting of this behaviour, which never changes
  phase,    \* "down", "up", or the loop ocre_context_destroy is in
  nodes,    \* context->containers
  made,     \* how many container objects were created
  status,   \* status[o]: the status of object o, "none" or "freed"
  active,   \* the objects whose thread is alive
  killed,   \* the objects whose run was killed
  dir,      \* dir[i]: the object for which <workdir>/containers/i was made, or 0
  todo,     \* the nodes the current loop of ocre_context_destroy has left
  crashes   \* how often the process crashed

contextVars == <<setting, phase, nodes, made, status, active, killed, dir, todo, crashes>>

Objects == 1 .. MaxObjects
Nodes == [id : Ids, obj : Objects, workdir : BOOLEAN]
Phases == {"down", "up", "killing", "waiting", "removing"}
Statuses == {"none", "CREATED", "RUNNING", "PAUSED", "STOPPED", "ERROR", "freed"}

\* The nodes a loop has left are in the list: LL_FOREACH_SAFE never continues
\* from a node that was freed.
ContextTypeOK ==
  /\ setting \in Settings
  /\ phase \in Phases
  /\ nodes \subseteq Nodes
  /\ made \in 0 .. MaxObjects
  /\ status \in [Objects -> Statuses]
  /\ active \subseteq Objects
  /\ killed \subseteq Objects
  /\ dir \in [Ids -> 0 .. MaxObjects]
  /\ todo \subseteq nodes
  /\ crashes \in 0 .. MaxCrashes

ContextInit ==
  /\ setting \in Settings
  /\ phase = "down"
  /\ nodes = {}
  /\ made = 0
  /\ status = [o \in Objects |-> "none"]
  /\ active = {}
  /\ killed = {}
  /\ dir = [i \in Ids |-> 0]
  /\ todo = {}
  /\ crashes = 0

registryVars == <<phase, nodes, todo, crashes>>

Faulty(call) == call \in setting.faults
objectVars == <<made, status, active, killed>>

---------------------------------------------------------------------------
(* ocre_create_context: the working directories that a previous process    *)
(* left are deleted, one by one until a deletion fails; the failure is     *)
(* ignored.                                                                *)

Deletable == IF Faulty("rm_startup") THEN SUBSET Ids ELSE {Ids}

Mut_KeepWorkdirs ==
  /\ phase = "down"
  /\ phase' = "up"
  /\ UNCHANGED <<nodes, todo, crashes, objectVars, dir>>

CreateContext ==
  /\ phase = "down"
  /\ phase' = "up"
  /\ \E deleted \in Deletable :
       dir' = [i \in Ids |-> IF i \in deleted THEN 0 ELSE dir[i]]
  /\ UNCHANGED <<nodes, todo, crashes, objectVars>>

---------------------------------------------------------------------------
(* ocre_context_create_container, with an id the caller chose or a random  *)
(* one: either way the id must not be registered.                          *)

Registered(id) == \E n \in nodes : n.id = id

Mut_IdAlwaysFree(id) == TRUE

\* ocre_context_get_container_by_id_locked as the check for a free id
IdIsFree(id) == ~ Registered(id)

\* The directory a failed creation leaves: rm_rf is called on the error path
\* whoever made the directory.
CleanedUp(id) ==
  \/ dir' = [dir EXCEPT ![id] = 0]
  \/ Faulty("rm_create") /\ UNCHANGED dir

\* mkdir fails, always so if the directory exists.
MkdirFails(id, fs) ==
  /\ fs
  /\ dir[id] # 0 \/ Faulty("mkdir")
  /\ CleanedUp(id)
  /\ UNCHANGED <<registryVars, objectVars>>

\* The directory is made and ocre_container_create fails; a directory that
\* cannot be deleted then belongs to an object that never existed.
ContainerCreateFails(id, fs) ==
  /\ Faulty("runtime")
  /\ fs => dir[id] = 0
  /\ \/ UNCHANGED <<made, dir>>
     \/ /\ fs
        /\ Faulty("rm_create")
        /\ made' = made + 1
        /\ dir' = [dir EXCEPT ![id] = made']
  /\ UNCHANGED <<registryVars, status, active, killed>>

Mut_CreateInExisting(id, fs) ==
  /\ made' = made + 1
  /\ status' = [status EXCEPT ![made'] = "CREATED"]
  /\ nodes' = nodes \union {[id |-> id, obj |-> made', workdir |-> fs]}
  /\ dir' = IF fs /\ dir[id] = 0 THEN [dir EXCEPT ![id] = made'] ELSE dir
  /\ UNCHANGED <<phase, todo, crashes, active, killed>>

ContainerCreated(id, fs) ==
  /\ fs => dir[id] = 0
  /\ made' = made + 1
  /\ status' = [status EXCEPT ![made'] = "CREATED"]
  /\ nodes' = nodes \union {[id |-> id, obj |-> made', workdir |-> fs]}
  /\ dir' = IF fs THEN [dir EXCEPT ![id] = made'] ELSE dir
  /\ UNCHANGED <<phase, todo, crashes, active, killed>>

CreateContainer(id, fs) ==
  /\ phase = "up"
  /\ made < MaxObjects
  /\ IdIsFree(id)
  /\ MkdirFails(id, fs) \/ ContainerCreateFails(id, fs) \/ ContainerCreated(id, fs)

---------------------------------------------------------------------------
(* ocre_context_remove_container_locked *)

DestroyAccepts(o) == status[o] \in {"CREATED", "STOPPED", "ERROR"}

\* The container is destroyed, then its directory, then its node.
Removed(n) ==
  /\ DestroyAccepts(n.obj)
  /\ status' = [status EXCEPT ![n.obj] = "freed"]
  /\ dir' = IF n.workdir THEN [dir EXCEPT ![n.id] = 0] ELSE dir
  /\ nodes' = nodes \ {n}
  /\ UNCHANGED <<made, active, killed>>

\* rm_rf fails: the node stays, with the container that was freed.
RemovedHalfway(n) ==
  /\ DestroyAccepts(n.obj)
  /\ n.workdir /\ Faulty("rm_remove")
  /\ status' = [status EXCEPT ![n.obj] = "freed"]
  /\ UNCHANGED <<nodes, dir, made, active, killed>>

RemoveContainer(n) ==
  /\ phase = "up"
  /\ Removed(n) \/ RemovedHalfway(n)
  /\ UNCHANGED <<phase, todo, crashes>>

---------------------------------------------------------------------------
(* The lifecycle of an object, as Container has it; EXITED becomes STOPPED *)
(* with the next call.                                                     *)

Start(o) ==
  /\ phase = "up"
  /\ status[o] \in {"CREATED", "STOPPED"}
  /\ status' = [status EXCEPT ![o] = "RUNNING"]
  /\ active' = active \union {o}
  /\ UNCHANGED <<registryVars, made, killed, dir>>

\* A start that is refused sets ERROR and leaves the thread alone.
StartRefused(o) ==
  /\ setting.restarts
  /\ phase = "up"
  /\ status[o] \in {"RUNNING", "PAUSED"}
  /\ status' = [status EXCEPT ![o] = "ERROR"]
  /\ UNCHANGED <<registryVars, made, active, killed, dir>>

Pause(o) ==
  /\ setting.pausable
  /\ phase = "up"
  /\ status[o] = "RUNNING"
  /\ status' = [status EXCEPT ![o] = "PAUSED"]
  /\ UNCHANGED <<registryVars, made, active, killed, dir>>

Unpause(o) ==
  /\ phase = "up"
  /\ status[o] = "PAUSED"
  /\ status' = [status EXCEPT ![o] = "RUNNING"]
  /\ UNCHANGED <<registryVars, made, active, killed, dir>>

RunEnds(o) ==
  /\ o \in active
  /\ status[o] # "freed"
  /\ status' = [status EXCEPT ![o] = "STOPPED"]
  /\ active' = active \ {o}
  /\ killed' = killed \ {o}
  /\ UNCHANGED <<registryVars, made, dir>>

---------------------------------------------------------------------------
(* ocre_context_destroy *)

Mut_DestroyForgetsKill ==
  /\ phase = "up"
  /\ phase' = "waiting"
  /\ todo' = nodes
  /\ UNCHANGED <<nodes, crashes, objectVars, dir>>

DestroyCall ==
  /\ phase = "up"
  /\ phase' = "killing"
  /\ todo' = nodes
  /\ UNCHANGED <<nodes, crashes, objectVars, dir>>

\* ocre_container_kill, which does nothing unless the container is RUNNING.
DestroyKills(n) ==
  /\ phase = "killing"
  /\ n \in todo
  /\ todo' = todo \ {n}
  /\ killed' = IF status[n.obj] = "RUNNING" THEN killed \union {n.obj} ELSE killed
  /\ UNCHANGED <<phase, nodes, crashes, made, status, active, dir>>

Mut_DestroyWaitsNot(n) ==
  /\ phase = "waiting"
  /\ n \in todo
  /\ todo' = todo \ {n}
  /\ UNCHANGED <<phase, nodes, crashes, objectVars, dir>>

\* ocre_container_wait, which waits only while the container is RUNNING.
DestroyWaits(n) ==
  /\ phase = "waiting"
  /\ n \in todo
  /\ status[n.obj] # "RUNNING"
  /\ todo' = todo \ {n}
  /\ UNCHANGED <<phase, nodes, crashes, objectVars, dir>>

\* A removal that fails is passed over, and so is a node whose container was
\* freed before, with which the code would do something undefined.
DestroyRemoves(n) ==
  /\ phase = "removing"
  /\ n \in todo
  /\ todo' = todo \ {n}
  /\ \/ Removed(n)
     \/ RemovedHalfway(n)
     \/ ~ DestroyAccepts(n.obj) /\ UNCHANGED <<nodes, objectVars, dir>>
  /\ UNCHANGED <<phase, crashes>>

DestroyNextLoop ==
  /\ todo = {}
  /\ \/ phase = "killing" /\ phase' = "waiting"
     \/ phase = "waiting" /\ phase' = "removing"
  /\ todo' = nodes
  /\ UNCHANGED <<nodes, crashes, objectVars, dir>>

\* The context is freed, with the list that is left.
DestroyReturns ==
  /\ phase = "removing"
  /\ todo = {}
  /\ phase' = "down"
  /\ nodes' = {}
  /\ UNCHANGED <<todo, crashes, objectVars, dir>>

---------------------------------------------------------------------------
\* The process dies: everything but the directories is gone.
Crash ==
  /\ phase # "down"
  /\ crashes < MaxCrashes
  /\ crashes' = crashes + 1
  /\ phase' = "down"
  /\ nodes' = {}
  /\ todo' = {}
  /\ status' = [o \in Objects |-> IF status[o] = "none" THEN "none" ELSE "freed"]
  /\ active' = {}
  /\ killed' = {}
  /\ UNCHANGED <<made, dir>>

Destroy ==
  \/ \E n \in nodes : DestroyKills(n) \/ DestroyWaits(n) \/ DestroyRemoves(n)
  \/ DestroyNextLoop
  \/ DestroyReturns

Application ==
  \/ CreateContext
  \/ \E id \in Ids, fs \in BOOLEAN : CreateContainer(id, fs)
  \/ \E n \in nodes : RemoveContainer(n) \/ Start(n.obj) \/ StartRefused(n.obj)
                        \/ Pause(n.obj) \/ Unpause(n.obj)
  \/ DestroyCall

ContextNext ==
  /\ Application \/ Destroy \/ Crash \/ \E o \in Objects : RunEnds(o)
  /\ UNCHANGED setting

ContextSpec == ContextInit /\ [][ContextNext]_contextVars

(***************************************************************************)
(* The loops of ocre_context_destroy go on, and a killed run ends (shown   *)
(* of Container by KilledRunEnds, for an application that makes one call   *)
(* at a time).                                                             *)
(***************************************************************************)
ContextFairness ==
  /\ WF_contextVars(Destroy /\ UNCHANGED setting)
  /\ \A o \in Objects :
       WF_contextVars(o \in killed /\ RunEnds(o) /\ UNCHANGED setting)

ContextLiveSpec == ContextSpec /\ ContextFairness

---------------------------------------------------------------------------
(* Safety *)

\* No two containers of a context have one id, whatever was removed, failed
\* or destroyed before, so that a lookup finds the one container.
UniqueIds == \A m, n \in nodes : m.id = n.id => m = n

\* A container's working directory is the one made for it: it is not deleted
\* or taken over by the failed creation or the removal of another one, and
\* it never holds what an earlier container of that id left, crashes and
\* failed deletions at startup notwithstanding.
OwnWorkdir == \A n \in nodes : n.workdir => dir[n.id] = n.obj

DeletionsSucceed ==
  setting.faults \intersect {"rm_create", "rm_remove", "rm_startup"} = {}

\* Where deletions succeed, a container, its node in the registry and its
\* directory go together: no directory outlives its container, and the registry
\* holds no container that was freed.
NoOrphans ==
  DeletionsSucceed =>
    /\ \A n \in nodes : status[n.obj] # "freed"
    /\ phase = "up" =>
         \A i \in Ids : dir[i] # 0 =>
           \E n \in nodes : n.id = i /\ n.workdir /\ n.obj = dir[i]

---------------------------------------------------------------------------
(* Action properties *)

\* Where no container is paused or in ERROR with a thread, a context is freed
\* only when each of its containers was killed, waited for and removed: none
\* is left allocated, none still runs.
DestroyedEmpty ==
  [][ DestroyReturns /\ DeletionsSucceed /\ ~ setting.pausable /\ ~ setting.restarts
        => nodes = {} /\ active = {} ]_contextVars

---------------------------------------------------------------------------
(* Liveness *)

\* ocre_context_destroy returns: it kills before it waits, so that no wait is
\* for a container that nobody ends, and what cannot be removed is passed over.
DestroyEnds == phase \in {"killing", "waiting", "removing"} ~> phase = "down"
=============================================================================
