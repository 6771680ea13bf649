----------------------------- MODULE MCService -----------------------------
(* Service for TLC: see the cfg file for the bounds. *)
EXTENDS Service
=============================================================================
