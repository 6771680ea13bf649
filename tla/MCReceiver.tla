----------------------------- MODULE MCReceiver -----------------------------
(* Receiver for TLC: see the cfg files for the bounds of each run. *)
EXTENDS Receiver, TLC

\* The members of these sets are interchangeable.
PushSymmetry == Permutations(RequestId) \cup Permutations(Jar)
ScopeSymmetry == Permutations(Site) \cup Permutations(Label)
Symmetry == PushSymmetry \cup ScopeSymmetry
=============================================================================
