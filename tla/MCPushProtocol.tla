--------------------------- MODULE MCPushProtocol ---------------------------
(* PushProtocol for TLC: see the cfg file for the bounds. *)
EXTENDS PushProtocol, TLC

\* The members of these sets are interchangeable.
Symmetry == Permutations(Jar) \cup Permutations(Scope)
=============================================================================
