--------------------------- MODULE MCSqliteSession ---------------------------
(* Values for the constants of SqliteSession. *)
EXTENDS SqliteSession

Script(s) == [kind |-> "script", todo |-> s]
Single(s) == [kind |-> "single", todo |-> <<s>>]
TempSave == [kind |-> "save", todo |-> <<"immediate", "write", "commit">>]

\* A script that reads and writes, one that writes in a transaction of its own
\* or in an open one, a button, the save of a temporary table.
EditorJobs ==
    {Script(<<"begin", "write">>), Script(<<"read", "write">>), Single("commit"), TempSave}
=============================================================================
