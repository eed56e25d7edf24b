------------------------------ MODULE MCContext ------------------------------
(***************************************************************************)
(* The instance of Context that TLC checks.                                *)
(***************************************************************************)
EXTENDS Context

\* Everything may fail; or only creations, on the engine of this repository,
\* which cannot pause, and for an application that starts what is stopped.
BothSettings ==
  {[faults |-> AllFaults, pausable |-> TRUE, restarts |-> TRUE],
   [faults |-> {"mkdir", "runtime"}, pausable |-> FALSE, restarts |-> FALSE]}
=============================================================================
