-------------------------- MODULE MCUnityTcpSender --------------------------
(* UnityTcpSender on small instances.                                      *)
EXTENDS UnityTcpSender, TLC

\* Connections are interchangeable, and so are executor threads; topics are
\* not (ids and streaming tell them apart). For runs of safety properties.
Symmetry == Permutations(Conns) \cup Permutations(Callers)
=============================================================================
