----------------------------- MODULE MCPgSession -----------------------------
(* Values for the constants of PgSession. *)
EXTENDS PgSession

Script(s) == [kind |-> "script", todo |-> s]
Of(k) == [kind |-> k, todo |-> <<>>]

\* Every kind of command; a script of one statement and one of two.
TabJobs == {Of(k) : k \in Kinds \ {"script"}} \cup {Script(<<"work">>), Script(<<"begin", "work">>)}
=============================================================================
