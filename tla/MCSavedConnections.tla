------------------------- MODULE MCSavedConnections -------------------------
(* SavedConnections for TLC: two connections, three random keys. *)
EXTENDS SavedConnections
=============================================================================
