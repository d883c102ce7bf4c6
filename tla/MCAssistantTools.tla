-------------------------- MODULE MCAssistantTools --------------------------
(* Values for the constants of AssistantTools. *)
EXTENDS AssistantTools, TLC

\* Calls, conversations and sessions only differ by name.
ToolSymmetry == Permutations(Calls) \cup Permutations(Chats) \cup Permutations(Sessions)
=============================================================================
