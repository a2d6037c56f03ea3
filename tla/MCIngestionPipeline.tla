-------------------------- MODULE MCIngestionPipeline --------------------------
(***************************************************************************)
(* Instances of IngestionPipeline for TLC.  The executions of one queue   *)
(* are interchangeable.                                                   *)
(***************************************************************************)
EXTENDS IngestionPipeline, TLC

Executions == Permutations(Parsers) \cup Permutations(Embedders)

================================================================================
