----------------------------- MODULE MCEventQueue -----------------------------
(***************************************************************************)
(* A queue of three slots: it fills, empties and wraps in every position.  *)
(***************************************************************************)
EXTENDS EventQueue
=============================================================================
