---------------------------- MODULE MCSyncQueue ----------------------------
(* SyncQueue for TLC: sources are model values. *)
EXTENDS SyncQueue, TLC

\* Sources are interchangeable.
Symmetry == Permutations(Source)
=============================================================================
