---------------------------- MODULE MCMysqlReader ----------------------------
(* MysqlReader for TLC. *)
EXTENDS MysqlReader
=============================================================================
