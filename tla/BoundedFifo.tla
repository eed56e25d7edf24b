----------------------------- MODULE BoundedFifo -----------------------------
(***************************************************************************)
(* What the event queue promises its users: a first-in first-out queue of  *)
(* at most MaxItems events, whose operations are atomic and report why     *)
(* they could not be done.                                                 *)
(***************************************************************************)
EXTENDS Naturals, Sequences

CONSTANTS
  Events,   \* the events that are queued
  MaxItems  \* the capacity

VARIABLES
  queue,  \* the events put and not yet got, oldest first
  answer  \* what the last operation returned

fifoVars == <<queue, answer>>

FifoInit ==
  /\ queue = <<>>
  /\ answer = "none"

FifoPut(e) ==
  \/ /\ Len(queue) < MaxItems
     /\ queue' = Append(queue, e)
     /\ answer' = "ok"
  \/ /\ Len(queue) >= MaxItems
     /\ answer' = "ENOMEM"
     /\ UNCHANGED queue

FifoGet ==
  \/ /\ queue # <<>>
     /\ queue' = Tail(queue)
     /\ answer' = Head(queue)
  \/ /\ queue = <<>>
     /\ answer' = "ENOENT"
     /\ UNCHANGED queue

FifoPeek ==
  /\ answer' = IF queue # <<>> THEN Head(queue) ELSE "ENOMSG"
  /\ UNCHANGED queue

FifoNext ==
  \/ \E e \in Events : FifoPut(e)
  \/ FifoGet
  \/ FifoPeek

FifoSpec == FifoInit /\ [][FifoNext]_fifoVars
=============================================================================
