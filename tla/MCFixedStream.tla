---------------------------- MODULE MCFixedStream ----------------------------
(* The instance of MCFixedScenarioGraph, with its stream. *)
EXTENDS FixedStream, MCFixedScenarioGraph
=============================================================================
