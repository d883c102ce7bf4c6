--------------------------- MODULE MCMysqlEditor ---------------------------
(* Values for the constants of MysqlEditor. *)
EXTENDS MysqlEditor

Script(s) == [console |-> TRUE, todo |-> s]
Button(s) == [console |-> FALSE, todo |-> <<s>>]

\* Every kind of statement that matters to the mark, the database and a
\* script that goes on after a cancel.
MixedJobs == {Script(<<"use">>), Script(<<"begin", "work">>), Button("begin"), Button("commit")}

\* Deeper sequences, for one command at a time.
LongJobs == MixedJobs \cup {Script(<<"home", "ddl">>), Button("rollback"), Button("work")}

CancelJobs == {Script(<<"use">>), Script(<<"begin", "work">>), Button("begin")}
=============================================================================
