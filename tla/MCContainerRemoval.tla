-------------------------- MODULE MCContainerRemoval --------------------------
(***************************************************************************)
(* The instances of ContainerRemoval that TLC checks.                      *)
(***************************************************************************)
EXTENDS ContainerRemoval

WamrCalls == [c \in Callers |-> {"start", "wait", "kill", "status"}]
=============================================================================
