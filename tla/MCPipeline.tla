------------------------------- MODULE MCPipeline -------------------------------
(* An instance of Pipeline for TLC: chunks that complete one, no and two messages. *)
EXTENDS Pipeline

MCCompleted == <<1, 1, 3>>
================================================================================
