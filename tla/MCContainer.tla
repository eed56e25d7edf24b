----------------------------- MODULE MCContainer -----------------------------
(***************************************************************************)
(* The instances of Container that TLC checks.                             *)
(***************************************************************************)
EXTENDS Container, TLC

\* Every thread makes every call.
AnyCall == [c \in Callers |-> Operations]

\* The calls the WAMR engine supports, and the ones the shell and the samples
\* make of a container.
WamrCalls == [c \in Callers |-> {"start", "wait", "kill", "status"}]

\* Threads that start the container and wait for it.
StartAndWait == [c \in Callers |-> {"start", "wait"}]

CallerSymmetry == Permutations(Callers)
=============================================================================
