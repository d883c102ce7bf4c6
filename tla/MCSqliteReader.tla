--------------------------- MODULE MCSqliteReader ---------------------------
(* SqliteReader for TLC: three reads. *)
EXTENDS SqliteReader
=============================================================================
