---------------------------- MODULE ContextProofs ----------------------------
(***************************************************************************)
(* What holds of a context for every set of ids, any number of containers  *)
(* and crashes, and every set of calls that may fail.                      *)
(***************************************************************************)
EXTENDS Context, TLAPS

\* A node is of a container that was created, and of one that no other node
\* is of.
NodeObjects ==
  /\ \A n \in nodes : n.obj <= made /\ status[n.obj] # "none"
  /\ \A m, n \in nodes : m.obj = n.obj => m = n

\* A context that does not exist has no containers, and none is looped over.
DownIsEmpty ==
  /\ phase = "down" => nodes = {}
  /\ phase \in {"down", "up"} => todo = {}

\* The application that DestroyedEmpty is about
Plain == DeletionsSucceed /\ ~ setting.pausable /\ ~ setting.restarts

\* There the status tells whether there is a thread, and a container that
\* runs is registered.
StatusTells ==
  Plain =>
    /\ \A o \in Objects : status[o] \notin {"PAUSED", "ERROR"}
    /\ \A o \in active : status[o] = "RUNNING"
    /\ \A o \in active : \E n \in nodes : n.obj = o

\* What the loops of ocre_context_destroy have dealt with: what was waited
\* for does not run, and what was removed is not registered.
LoopsDone ==
  Plain =>
    /\ phase = "waiting" => \A n \in nodes \ todo : status[n.obj] # "RUNNING"
    /\ phase = "removing" => /\ \A n \in nodes : status[n.obj] # "RUNNING"
                             /\ nodes \subseteq todo

IInv ==
  /\ ContextTypeOK
  /\ UniqueIds
  /\ OwnWorkdir
  /\ NodeObjects
  /\ DownIsEmpty
  /\ NoOrphans
  /\ StatusTells
  /\ LoopsDone

USE ContextAssumption DEF ContextAssumption, ContextTypeOK, Objects, Nodes,
    Phases, Statuses, registryVars, objectVars

\* Before the library has made the context.
LEMMA InitIInv == ContextInit => IInv
BY DEF ContextInit, IInv, UniqueIds, OwnWorkdir, NodeObjects, DownIsEmpty,
       NoOrphans, StatusTells, LoopsDone

\* ocre_create_context: a context starts empty, and with no directory left
\* unless deleting failed.
LEMMA CreateContextIInv ==
  ASSUME IInv, CreateContext, UNCHANGED setting
  PROVE  IInv'
<1> USE DEF IInv, CreateContext
<1>1. PICK deleted \in Deletable :
        dir' = [i \in Ids |-> IF i \in deleted THEN 0 ELSE dir[i]]
  OBVIOUS
<1>2. nodes = {} /\ nodes' = {}
  BY DEF DownIsEmpty
<1>3. ContextTypeOK'
  BY <1>1
<1>4. NoOrphans'
  BY <1>1, <1>2 DEF NoOrphans, DeletionsSucceed, Deletable, Faulty
<1>5. StatusTells' /\ LoopsDone'
  BY DEF StatusTells, LoopsDone, Plain, DeletionsSucceed
<1>6. QED
  BY <1>2, <1>3, <1>4, <1>5 DEF UniqueIds, OwnWorkdir, NodeObjects, DownIsEmpty

\* ocre_context_create_container, on each of its paths: the id is one that no
\* node has, so that the directory that is made, or deleted on the error path,
\* is no container's.
LEMMA CreateContainerIInv ==
  ASSUME IInv, NEW id \in Ids, NEW fs \in BOOLEAN, CreateContainer(id, fs),
         UNCHANGED setting
  PROVE  IInv'
<1> USE DEF IInv, CreateContainer, IdIsFree, Registered, Faulty
<1>0. phase = "up" /\ \A n \in nodes : n.id # id
  OBVIOUS
<1>1. CASE MkdirFails(id, fs)
  <2> USE <1>1 DEF MkdirFails, CleanedUp
  <2>1. ContextTypeOK'
    OBVIOUS
  <2>2. \A n \in nodes : dir'[n.id] = dir[n.id]
    OBVIOUS
  <2>3. OwnWorkdir' /\ UniqueIds' /\ NodeObjects' /\ DownIsEmpty'
    BY <2>2 DEF OwnWorkdir, UniqueIds, NodeObjects, DownIsEmpty
  <2>4. NoOrphans'
    BY DEF NoOrphans, DeletionsSucceed
  <2>5. StatusTells' /\ LoopsDone'
    BY DEF StatusTells, LoopsDone, Plain, DeletionsSucceed
  <2>6. QED
    BY <2>1, <2>3, <2>4, <2>5
<1>2. CASE ContainerCreateFails(id, fs)
  <2> USE <1>2 DEF ContainerCreateFails
  <2>1. ContextTypeOK' /\ made <= made'
    OBVIOUS
  <2>2. \A n \in nodes : dir'[n.id] = dir[n.id]
    OBVIOUS
  <2>3. OwnWorkdir' /\ UniqueIds' /\ DownIsEmpty'
    BY <2>2 DEF OwnWorkdir, UniqueIds, DownIsEmpty
  <2>4. NodeObjects'
    BY <2>1 DEF NodeObjects
  <2>5. NoOrphans'
    BY DEF NoOrphans, DeletionsSucceed
  <2>6. StatusTells' /\ LoopsDone'
    BY DEF StatusTells, LoopsDone, Plain, DeletionsSucceed
  <2>7. QED
    BY <2>1, <2>3, <2>4, <2>5, <2>6
<1>3. CASE ContainerCreated(id, fs)
  <2> DEFINE new == [id |-> id, obj |-> made + 1, workdir |-> fs]
  <2> USE <1>3 DEF ContainerCreated
  <2>1. /\ made' = made + 1 /\ made' \in Objects
        /\ nodes' = nodes \union {new} /\ new \in Nodes
        /\ status' = [status EXCEPT ![made + 1] = "CREATED"]
    OBVIOUS
  <2>2. ContextTypeOK'
    BY <2>1
  <2>3. \A n \in nodes : dir'[n.id] = dir[n.id] /\ status'[n.obj] = status[n.obj]
    BY <2>1 DEF NodeObjects
  <2>4. UniqueIds'
    BY <1>0, <2>1 DEF UniqueIds
  <2>5. OwnWorkdir'
    BY <2>1, <2>3 DEF OwnWorkdir
  <2>6. NodeObjects'
    BY <2>1, <2>3 DEF NodeObjects
  <2>7. NoOrphans'
    <3> SUFFICES ASSUME DeletionsSucceed'
                 PROVE  /\ \A n \in nodes' : status'[n.obj] # "freed"
                        /\ \A i \in Ids : dir'[i] # 0 =>
                             \E n \in nodes' : n.id = i /\ n.workdir /\ n.obj = dir'[i]
      BY DEF NoOrphans
    <3>1. DeletionsSucceed
      BY DEF DeletionsSucceed
    <3>2. \A n \in nodes' : status'[n.obj] # "freed"
      BY <2>1, <2>3, <3>1 DEF NoOrphans
    <3>3. ASSUME NEW i \in Ids, dir'[i] # 0
          PROVE  \E n \in nodes' : n.id = i /\ n.workdir /\ n.obj = dir'[i]
      <4>1. CASE i = id /\ fs
        <5>1. new.id = i /\ new.workdir /\ new.obj = dir'[i]
          BY <4>1, <2>1
        <5>2. QED
          BY <5>1, <2>1
      <4>2. CASE ~ (i = id /\ fs)
        BY <1>0, <2>1, <3>1, <3>3, <4>2 DEF NoOrphans
      <4>3. QED
        BY <4>1, <4>2
    <3>4. QED
      BY <3>2, <3>3
  <2>8. StatusTells'
    BY <2>1, <2>3 DEF StatusTells, Plain, DeletionsSucceed
  <2>9. LoopsDone' /\ DownIsEmpty'
    BY <1>0 DEF LoopsDone, DownIsEmpty
  <2>10. QED
    BY <2>2, <2>4, <2>5, <2>6, <2>7, <2>8, <2>9
<1>4. QED
  BY <1>1, <1>2, <1>3

\* ocre_context_remove_container_locked, called by itself or by the last loop
\* of ocre_context_destroy.  Only the container's own directory is deleted,
\* and its node goes unless that failed.
LEMMA RemovedIInv ==
  ASSUME IInv, NEW n \in nodes, Removed(n) \/ RemovedHalfway(n),
         UNCHANGED <<setting, phase, crashes>>,
         phase \in {"up", "removing"}, todo' = todo \ {n}
  PROVE  IInv'
<1> USE DEF IInv, Faulty, DestroyAccepts
<1>1. n \in Nodes /\ n.obj \in Objects
  OBVIOUS
<1>2. \A m \in nodes : m # n => m.id # n.id /\ m.obj # n.obj
  BY DEF UniqueIds, NodeObjects
<1>3. CASE Removed(n)
  <2> USE <1>3 DEF Removed
  <2>1. \A m \in nodes' : /\ m \in nodes /\ m # n
                         /\ dir'[m.id] = dir[m.id] /\ status'[m.obj] = status[m.obj]
    BY <1>1, <1>2
  <2>2. UniqueIds' /\ OwnWorkdir' /\ NodeObjects' /\ DownIsEmpty'
    BY <2>1 DEF UniqueIds, OwnWorkdir, NodeObjects, DownIsEmpty
  <2>3. NoOrphans'
    <3> SUFFICES ASSUME DeletionsSucceed
                 PROVE  /\ \A m \in nodes' : status'[m.obj] # "freed"
                        /\ phase = "up" => \A i \in Ids : dir'[i] # 0 =>
                             \E m \in nodes' : m.id = i /\ m.workdir /\ m.obj = dir'[i]
      BY DEF NoOrphans, DeletionsSucceed
    <3>1. \A m \in nodes' : status'[m.obj] # "freed"
      BY <2>1 DEF NoOrphans
    <3>2. ASSUME phase = "up", NEW i \in Ids, dir'[i] # 0
          PROVE  \E m \in nodes' : m.id = i /\ m.workdir /\ m.obj = dir'[i]
      <4>1. dir'[i] = dir[i] /\ (i = n.id => ~ n.workdir)
        BY <1>1, <3>2
      <4>2. PICK m \in nodes : m.id = i /\ m.workdir /\ m.obj = dir[i]
        BY <3>2, <4>1 DEF NoOrphans
      <4>3. m # n
        BY <4>1, <4>2
      <4>4. QED
        BY <4>1, <4>2, <4>3
    <3>3. QED
      BY <3>1, <3>2
  <2>4. StatusTells'
    BY <1>1, <2>1 DEF StatusTells, Plain, DeletionsSucceed
  <2>5. LoopsDone'
    BY <2>1 DEF LoopsDone, Plain, DeletionsSucceed
  <2>6. ContextTypeOK'
    BY <1>1
  <2>7. QED
    BY <2>2, <2>3, <2>4, <2>5, <2>6
<1>4. CASE RemovedHalfway(n)
  \* A deletion has failed: nothing is claimed of such an application.
  <2> USE <1>4 DEF RemovedHalfway
  <2>1. ~ DeletionsSucceed /\ ~ DeletionsSucceed'
    BY DEF DeletionsSucceed
  <2>2. \A m \in nodes : status'[m.obj] # "none"
    BY <1>1, <1>2 DEF NodeObjects
  <2>3. UniqueIds' /\ OwnWorkdir' /\ NodeObjects' /\ DownIsEmpty'
    BY <2>2 DEF UniqueIds, OwnWorkdir, NodeObjects, DownIsEmpty
  <2>4. NoOrphans' /\ StatusTells' /\ LoopsDone'
    BY <2>1 DEF NoOrphans, StatusTells, LoopsDone, Plain
  <2>5. ContextTypeOK'
    BY <1>1
  <2>6. QED
    BY <2>3, <2>4, <2>5
<1>5. QED
  BY <1>3, <1>4

\* The calls on a container of the context, and the end of its run: they move
\* its status and its thread together.
LEMMA LifecycleIInv ==
  ASSUME IInv, UNCHANGED setting,
         \/ \E n \in nodes : Start(n.obj) \/ StartRefused(n.obj) \/ Pause(n.obj)
                               \/ Unpause(n.obj)
         \/ \E o \in Objects : RunEnds(o)
  PROVE  IInv'
<1> USE DEF IInv
<1>1. UNCHANGED <<phase, nodes, todo, crashes, made, dir>>
  BY DEF Start, StartRefused, Pause, Unpause, RunEnds
<1>2. PICK o \in Objects : /\ Start(o) \/ StartRefused(o) \/ Pause(o) \/ Unpause(o)
                                \/ RunEnds(o)
                           /\ RunEnds(o) \/ (phase = "up" /\ \E n \in nodes : n.obj = o)
  BY DEF Start, StartRefused, Pause, Unpause
<1>3. ContextTypeOK'
  BY <1>1, <1>2 DEF Start, StartRefused, Pause, Unpause, RunEnds
<1>4. /\ \A p \in Objects : p # o => status'[p] = status[p]
      /\ status'[o] \notin {"none", "freed"}
  BY <1>2 DEF Start, StartRefused, Pause, Unpause, RunEnds
<1>5. UniqueIds' /\ OwnWorkdir' /\ NodeObjects' /\ DownIsEmpty'
  BY <1>1, <1>4 DEF UniqueIds, OwnWorkdir, NodeObjects, DownIsEmpty
<1>6. NoOrphans'
  BY <1>1, <1>4 DEF NoOrphans, DeletionsSucceed
<1>7. StatusTells'
  <2> SUFFICES ASSUME Plain
               PROVE  /\ \A p \in Objects : status'[p] \notin {"PAUSED", "ERROR"}
                      /\ \A p \in active' : status'[p] = "RUNNING"
                      /\ \A p \in active' : \E n \in nodes : n.obj = p
    BY <1>1 DEF StatusTells, Plain, DeletionsSucceed
  <2>1. /\ \A p \in Objects : status[p] \notin {"PAUSED", "ERROR"}
        /\ \A p \in active : status[p] = "RUNNING" /\ \E n \in nodes : n.obj = p
    BY DEF StatusTells
  <2>2. CASE Start(o)
    <3>1. \E n \in nodes : n.obj = o
      BY <1>2, <2>2 DEF Start, RunEnds
    <3>2. QED
      BY <2>1, <2>2, <3>1 DEF Start
  <2>3. CASE RunEnds(o)
    BY <2>1, <2>3 DEF RunEnds
  <2>4. ~ StartRefused(o) /\ ~ Pause(o) /\ ~ Unpause(o)
    BY <2>1 DEF Plain, StartRefused, Pause, Unpause
  <2>5. QED
    BY <1>2, <2>2, <2>3, <2>4
<1>8. LoopsDone'
  BY <1>1, <1>2, <1>4 DEF LoopsDone, Plain, DeletionsSucceed, RunEnds
<1>9. QED
  BY <1>3, <1>5, <1>6, <1>7, <1>8

\* ocre_context_destroy: the loops that kill and that wait go over every node
\* before the next one begins, and the last one removes them.
LEMMA DestroyIInv ==
  ASSUME IInv, UNCHANGED setting, DestroyCall \/ Destroy
  PROVE  IInv'
<1> USE DEF IInv
<1>1. ASSUME NEW n \in nodes, DestroyRemoves(n)
      PROVE  IInv'
  <2>1. CASE Removed(n) \/ RemovedHalfway(n)
    BY <1>1, <2>1, RemovedIInv DEF DestroyRemoves
  <2>2. CASE ~ DestroyAccepts(n.obj) /\ UNCHANGED <<nodes, objectVars, dir>>
    <3>1. UNCHANGED <<phase, crashes>> /\ todo' = todo \ {n} /\ phase = "removing"
      BY <1>1 DEF DestroyRemoves
    <3>2. ~ Plain
      \* where deletions succeed, a node's container has not been freed, and
      \* the loop before has waited for it
      BY <2>2, <3>1 DEF DestroyAccepts, Plain, LoopsDone, StatusTells, NoOrphans,
                        NodeObjects
    <3>3. QED
      BY <2>2, <3>1, <3>2
         DEF UniqueIds, OwnWorkdir, NodeObjects, DownIsEmpty, NoOrphans, StatusTells,
             LoopsDone, Plain, DeletionsSucceed
  <2>3. QED
    BY <1>1, <2>1, <2>2 DEF DestroyRemoves
<1>2. ASSUME \/ \E n \in nodes : DestroyKills(n) \/ DestroyWaits(n)
             \/ DestroyCall \/ DestroyNextLoop \/ DestroyReturns
      PROVE  IInv'
  <2>1. /\ nodes' = nodes \/ nodes' = {}
        /\ phase' = "up" => phase = "up"
        /\ UNCHANGED <<made, status, active, dir, crashes>>
    BY <1>2 DEF DestroyKills, DestroyWaits, DestroyCall, DestroyNextLoop, DestroyReturns
  <2>2. ContextTypeOK'
    BY <1>2 DEF DestroyKills, DestroyWaits, DestroyCall, DestroyNextLoop, DestroyReturns
  <2>3. UniqueIds' /\ OwnWorkdir' /\ NodeObjects'
    BY <2>1 DEF UniqueIds, OwnWorkdir, NodeObjects
  <2>4. DownIsEmpty' /\ phase' # "up"
    BY <1>2 DEF DownIsEmpty, DestroyKills, DestroyWaits, DestroyCall, DestroyNextLoop,
                DestroyReturns
  <2>5. NoOrphans'
    BY <2>1, <2>4 DEF NoOrphans, DeletionsSucceed
  <2>6. LoopsDone'
    BY <1>2 DEF LoopsDone, Plain, DeletionsSucceed, DestroyKills, DestroyWaits,
                DestroyCall, DestroyNextLoop, DestroyReturns
  <2>7. StatusTells'
    <3>1. CASE nodes' = nodes
      BY <2>1, <3>1 DEF StatusTells, Plain, DeletionsSucceed
    <3>2. CASE DestroyReturns
      BY <2>1, <3>2 DEF StatusTells, LoopsDone, Plain, DeletionsSucceed, DestroyReturns
    <3>3. QED
      BY <1>2, <3>1, <3>2 DEF DestroyKills, DestroyWaits, DestroyCall, DestroyNextLoop
  <2>8. QED
    BY <2>2, <2>3, <2>4, <2>5, <2>6, <2>7
<1>3. QED
  BY <1>1, <1>2 DEF Destroy

\* Nothing but the directories survives a crash.
LEMMA CrashIInv ==
  ASSUME IInv, UNCHANGED setting, Crash
  PROVE  IInv'
BY DEF IInv, Crash, UniqueIds, OwnWorkdir, NodeObjects, DownIsEmpty, NoOrphans,
       StatusTells, LoopsDone, Plain, DeletionsSucceed

LEMMA NextIInv == IInv /\ [ContextNext]_contextVars => IInv'
<1> SUFFICES ASSUME IInv, [ContextNext]_contextVars
             PROVE  IInv'
  OBVIOUS
<1>1. CASE ContextNext
  <2>0. UNCHANGED setting
    BY <1>1 DEF ContextNext
  <2>1. CASE CreateContext
    BY <2>0, <2>1, CreateContextIInv
  <2>2. ASSUME NEW id \in Ids, NEW fs \in BOOLEAN, CreateContainer(id, fs)
        PROVE  IInv'
    BY <2>0, <2>2, CreateContainerIInv
  <2>3. ASSUME NEW n \in nodes, RemoveContainer(n)
        PROVE  IInv'
    BY <2>0, <2>3, RemovedIInv DEF RemoveContainer, IInv, DownIsEmpty
  <2>4. CASE \/ \E n \in nodes : Start(n.obj) \/ StartRefused(n.obj) \/ Pause(n.obj)
                                   \/ Unpause(n.obj)
             \/ \E o \in Objects : RunEnds(o)
    BY <2>0, <2>4, LifecycleIInv
  <2>5. CASE DestroyCall \/ Destroy
    BY <2>0, <2>5, DestroyIInv
  <2>6. CASE Crash
    BY <2>0, <2>6, CrashIInv
  <2>7. QED
    BY <1>1, <2>1, <2>2, <2>3, <2>4, <2>5, <2>6 DEF ContextNext, Application
<1>2. CASE UNCHANGED contextVars
  BY <1>2 DEF contextVars, IInv, UniqueIds, OwnWorkdir, NodeObjects, DownIsEmpty,
              NoOrphans, StatusTells, LoopsDone, Plain, DeletionsSucceed
<1>3. QED
  BY <1>1, <1>2

\* The invariant that the theorems rest on.
THEOREM Invariance == ContextSpec => []IInv
BY InitIInv, NextIInv, PTL DEF ContextSpec

\* Every variable keeps its type; in particular the loops of
\* ocre_context_destroy never go on from a node that is not in the list.
THEOREM TypeCorrect == ContextSpec => []ContextTypeOK
BY Invariance, PTL DEF IInv

\* ocre_context_create_container never gives one id to two containers.
THEOREM IdsAreUnique == ContextSpec => []UniqueIds
BY Invariance, PTL DEF IInv

\* No failed creation, removal or crash takes a registered container's working
\* directory away or gives it that of an earlier one.
THEOREM WorkdirIsOwn == ContextSpec => []OwnWorkdir
BY Invariance, PTL DEF IInv

\* Where rm_rf does not fail, containers, nodes and directories go together.
THEOREM NothingOrphaned == ContextSpec => []NoOrphans
BY Invariance, PTL DEF IInv

\* Where rm_rf does not fail and no container is paused or started twice,
\* ocre_context_destroy frees the context only when it is empty.
THEOREM DestructionComplete == ContextSpec => DestroyedEmpty
<1>1. IInv /\ [ContextNext]_contextVars =>
        [DestroyReturns /\ DeletionsSucceed /\ ~ setting.pausable /\ ~ setting.restarts
           => nodes = {} /\ active = {}]_contextVars
  BY DEF IInv, DestroyReturns, StatusTells, LoopsDone, Plain
<1>2. QED
  BY <1>1, Invariance, PTL DEF ContextSpec, DestroyedEmpty
=============================================================================
