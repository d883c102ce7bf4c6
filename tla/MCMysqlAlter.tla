---------------------------- MODULE MCMysqlAlter ----------------------------
(* MysqlAlter for TLC. *)
EXTENDS MysqlAlter

\* A table to copy: a copy reads and writes nothing that a change of a column does,
\* nor asks what the columns are, so one table shows all its behaviours.
Plain(c) == c = [type |-> "int", own |-> FALSE, nullable |-> TRUE, default |-> "none",
                 generated |-> "no", rest |-> "", comment |-> FALSE, check |-> FALSE]

\* The behaviours in which the session changes a column, and those in which it
\* copies a table.
Apart == copies > 0 => changes = 0 /\ \A n \in Names : table[n] = None \/ Plain(table[n])
=============================================================================
