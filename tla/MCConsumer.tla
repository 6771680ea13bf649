----------------------------- MODULE MCConsumer -----------------------------
(* Consumer on small instances: sources and jars are model values. *)
EXTENDS Consumer
=============================================================================
