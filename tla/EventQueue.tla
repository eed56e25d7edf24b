------------------------------ MODULE EventQueue ------------------------------
(***************************************************************************)
(* The ring buffer through which timers, GPIO pins and messages reach the  *)
(* containers (src/runtime/wamr-wasip1/ocre_api/core/core_eventq.c).       *)
(*                                                                         *)
(* Every operation runs under the queue's mutex from its first to its last *)
(* access, so that each is one step.  The condition variable is signalled  *)
(* and never waited for: it is left out.                                   *)
(***************************************************************************)
EXTENDS Naturals, Sequences

CONSTANTS
  Events,    \* the events that are queued
  Garbage,   \* what the allocated buffer holds before it is written
  MaxItems   \* eventq->max_items

ASSUME EventQueueAssumption ==
  /\ MaxItems \in Nat \ {0}
  /\ Garbage \notin Events

VARIABLES
  buffer,  \* eventq->buffer
  head,    \* eventq->head
  tail,    \* eventq->tail
  count,   \* eventq->count
  answer   \* what the last operation returned

eventqVars == <<buffer, head, tail, count, answer>>

Slots == 0 .. MaxItems - 1

\* Every index stays inside the buffer, and the count inside the capacity.
EventqTypeOK ==
  /\ buffer \in [Slots -> Events \union {Garbage}]
  /\ head \in Slots
  /\ tail \in Slots
  /\ count \in 0 .. MaxItems

core_eventq_init ==
  /\ buffer = [i \in Slots |-> Garbage]
  /\ head = 0
  /\ tail = 0
  /\ count = 0
  /\ answer = "none"

Successor(i) == (i + 1) % MaxItems

core_eventq_put(e) ==
  \/ /\ count < MaxItems
     /\ buffer' = [buffer EXCEPT ![tail] = e]
     /\ tail' = Successor(tail)
     /\ count' = count + 1
     /\ answer' = "ok"
     /\ UNCHANGED head
  \/ /\ count >= MaxItems
     /\ answer' = "ENOMEM"
     /\ UNCHANGED <<buffer, head, tail, count>>

Mut_GetBeforeAdvance ==
  \/ /\ count # 0
     /\ head' = Successor(head)
     /\ answer' = buffer[head']
     /\ count' = count - 1
     /\ UNCHANGED <<buffer, tail>>
  \/ /\ count = 0
     /\ answer' = "ENOENT"
     /\ UNCHANGED <<buffer, head, tail, count>>

Mut_GetKeepsHead ==
  \/ /\ count # 0
     /\ answer' = buffer[head]
     /\ count' = count - 1
     /\ UNCHANGED <<buffer, head, tail>>
  \/ /\ count = 0
     /\ answer' = "ENOENT"
     /\ UNCHANGED <<buffer, head, tail, count>>

core_eventq_get ==
  \/ /\ count # 0
     /\ answer' = buffer[head]
     /\ head' = Successor(head)
     /\ count' = count - 1
     /\ UNCHANGED <<buffer, tail>>
  \/ /\ count = 0
     /\ answer' = "ENOENT"
     /\ UNCHANGED <<buffer, head, tail, count>>

core_eventq_peek ==
  /\ answer' = IF count # 0 THEN buffer[head] ELSE "ENOMSG"
  /\ UNCHANGED <<buffer, head, tail, count>>

EventqNext ==
  \/ \E e \in Events : core_eventq_put(e)
  \/ core_eventq_get
  \/ core_eventq_peek

EventqSpec == core_eventq_init /\ [][EventqNext]_eventqVars

---------------------------------------------------------------------------
(* The queue that the ring buffer represents: the count slots from head.   *)

Slot(i) == (head + i - 1) % MaxItems
Contents == [i \in 1 .. count |-> buffer[Slot(i)]]

Fifo == INSTANCE BoundedFifo WITH queue <- Contents

\* The ring buffer is a bounded FIFO queue: every sequence of puts, gets and
\* peeks, across any number of wrap-arounds, returns what the queue would.
ImplementsFifo == Fifo!FifoSpec

\* The two indices and the count agree, and no slot that counts as occupied
\* was never written: no get hands uninitialised memory to a container.
RingConsistent ==
  /\ tail = (head + count) % MaxItems
  /\ \A i \in 1 .. count : buffer[Slot(i)] \in Events
=============================================================================
