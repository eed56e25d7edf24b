------------------------------ MODULE MCLibrary ------------------------------
(***************************************************************************)
(* The instance of Library that TLC checks.                                *)
(***************************************************************************)
EXTENDS Library

\* No engine, one, the same one twice, and one with the name of WAMR.
SomeVtables == {<<>>, <<"e">>, <<"e", "e">>, <<Wamr>>}

\* With and without destructions that fail.
BothSettings ==
  {[faults |-> {"engine", "create"}, twice |-> FALSE],
   [faults |-> {"engine", "create", "context"}, twice |-> TRUE]}
=============================================================================
