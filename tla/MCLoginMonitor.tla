--------------------------- MODULE MCLoginMonitor ---------------------------
(* LoginMonitor for TLC: see the cfg file for the bounds. *)
EXTENDS LoginMonitor
=============================================================================
