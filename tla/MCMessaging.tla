----------------------------- MODULE MCMessaging -----------------------------
(***************************************************************************)
(* The instance of Messaging that TLC checks.                              *)
(***************************************************************************)
EXTENDS Messaging

\* A topic and one that it is a prefix of.
TwoTopics == {<<1>>, <<1, 2>>}

\* One module publishes, or every module does.
OneOrAll == {Modules} \union {{m} : m \in Modules}

ModuleSymmetry == Permutations(Modules)
=============================================================================
