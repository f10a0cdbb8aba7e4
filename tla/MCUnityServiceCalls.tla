------------------------ MODULE MCUnityServiceCalls ------------------------
(* UnityServiceCalls on small instances.                                   *)
EXTENDS UnityServiceCalls, TLC

\* Connections and callback threads are interchangeable. For safety only.
Symmetry == Permutations(Conns) \cup Permutations(Callbacks)
=============================================================================
