-------------------------- MODULE MCAssistantAgent --------------------------
(* Model checking of AssistantAgent. *)
EXTENDS AssistantAgent
=============================================================================
