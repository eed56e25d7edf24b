------------------------------- MODULE MCTimers -------------------------------
(***************************************************************************)
(* The instances of Timers that TLC checks.                                *)
(***************************************************************************)
EXTENDS Timers

AllOps == {"create", "delete", "start", "stop"}

\* Every module uses the timer of its number; or all use timer 1.
OneEach == [m \in Modules |-> {m}]
OneForAll == [m \in Modules |-> {1}]
BothUses == {OneEach, OneForAll}
=============================================================================
