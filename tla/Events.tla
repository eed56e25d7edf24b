-------------------------------- MODULE Events --------------------------------
(***************************************************************************)
(* The events of the containers (src/runtime/wamr-wasip1/ocre_api/         *)
(* ocre_common.c): the modules that are registered while they run, and the *)
(* one queue that all of them share.                                       *)
(*                                                                         *)
(* The queue is the bounded FIFO queue that EventQueue implements; each    *)
(* use of it is one step, because it is made under ocre_event_queue_lock.  *)
(* A module is known by the address of its instance, which a later         *)
(* instance may get again: gen tells the two apart, and the code does not. *)
(***************************************************************************)
EXTENDS Naturals, Sequences, FiniteSets

CONSTANTS
  Modules,       \* the addresses of module instances
  NULL,          \* the null pointer
  QueueSize,     \* SIZE_OCRE_EVENT_BUFFER
  MaxInstances   \* bound: how many instances an address has, one at a time

ASSUME EventsAssumption ==
  /\ NULL \notin Modules
  /\ QueueSize \in Nat \ {0}
  /\ MaxInstances \in Nat

VARIABLES
  live,            \* the addresses of the registered instances
  gen,             \* gen[m]: how many instances address m has had
  queue,           \* ocre_event_queue
  resource_count   \* resource_count[m], of the one resource type modelled

eventVars == <<live, gen, queue, resource_count>>

Event(Bodies) ==
  [owner : Modules \union {NULL}, gen : Nat, body : Bodies]

EventsTypeOK(Bodies) ==
  /\ live \subseteq Modules
  /\ gen \in [Modules -> 0 .. MaxInstances]
  /\ queue \in Seq(Event(Bodies))
  /\ Len(queue) <= QueueSize
  /\ resource_count \in [Modules -> Nat]

\* ocre_common_init
EventsInit ==
  /\ live = {}
  /\ gen = [m \in Modules |-> 0]
  /\ queue = <<>>
  /\ resource_count = [m \in Modules |-> 0]

\* The instance that address m has now.
GenOf(m) == IF m \in Modules THEN gen[m] ELSE 0

---------------------------------------------------------------------------
\* core_eventq_put: a full queue drops the event.
Full == Len(queue) >= QueueSize

Put(event) == queue' = IF Full THEN queue ELSE Append(queue, event)

\* instance_execute registers the instance before its main runs.
ocre_register_module(m) ==
  /\ m \notin live
  /\ gen[m] < MaxInstances
  /\ live' = live \union {m}
  /\ gen' = [gen EXCEPT ![m] = @ + 1]
  /\ resource_count' = [resource_count EXCEPT ![m] = 0]
  /\ UNCHANGED queue

\* After main: the cleanup handlers run, the module context is freed and the
\* instance deinstantiated.  The handlers belong to the resources.  No event
\* is taken out of the queue.
ocre_unregister_module(m) ==
  /\ m \in live
  /\ live' = live \ {m}
  /\ resource_count' = [resource_count EXCEPT ![m] = 0]
  /\ UNCHANGED <<gen, queue>>

increment_resource_count(m) ==
  resource_count' = [resource_count EXCEPT ![m] = @ + 1]

decrement_resource_count(m) ==
  resource_count' = [resource_count EXCEPT ![m] = IF @ > 0 THEN @ - 1 ELSE 0]

\* Only the owner of the head gets it; the others get -EPERM, and -ENOMSG if
\* the queue is empty, and nothing changes.
ocre_get_event(m) ==
  /\ m \in live
  /\ queue # <<>>
  /\ Head(queue).owner = m
  /\ queue' = Tail(queue)

---------------------------------------------------------------------------
\* The queue holds an event of an instance that has exited.
Abandoned ==
  \E i \in DOMAIN queue :
    LET m == queue[i].owner IN
    m \in Modules /\ (m \notin live \/ queue[i].gen # gen[m])

\* A queue that is full is not full for ever, if the modules keep asking for
\* their events: no event is stuck at the head but that of an instance that
\* has exited, which nobody takes out.
QueueMoves == Full ~> ~ Full \/ Abandoned
=============================================================================
