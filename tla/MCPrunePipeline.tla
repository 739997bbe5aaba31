-------------------------- MODULE MCPrunePipeline --------------------------
(* Small instances of PrunePipeline for TLC; see the README for the bounds. *)
EXTENDS PrunePipeline
=============================================================================
