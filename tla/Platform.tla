------------------------------ MODULE Platform ------------------------------
(***************************************************************************)
(* The calls of the platform that may fail while the shell's thread is in  *)
(* a command: allocations, system calls, the calls of the WAMR library.    *)
(* A setting names those that do, and MaxFailures bounds how often.        *)
(***************************************************************************)
EXTENDS Naturals, Sequences, FiniteSets

CONSTANTS
  Settings,    \* the settings in which the shell is looked at
  MaxFailures  \* bound: how many calls fail in a behaviour

VARIABLES
  setting,  \* the setting of this behaviour, which never changes
  failures  \* how many calls have failed

\* The call does what it should ...
Works == UNCHANGED failures

\* ... or reports an error.
Fails(call) ==
  /\ call \in setting.faults
  /\ failures < MaxFailures
  /\ failures' = failures + 1
=============================================================================
