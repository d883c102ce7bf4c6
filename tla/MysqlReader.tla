---------------------------- MODULE MysqlReader ----------------------------
(***************************************************************************)
(* The assistant's reads on MySQL and MariaDB (mysql_common/reader.rs) over *)
(* the pool of a session (ServerDriver::conn and close, driver.rs), which   *)
(* the table views, the explorer and the administration use as well.        *)
(*                                                                         *)
(* A read keeps a connection of the pool from its first statement to its    *)
(* last.  One that is cut at the row limit, or that its client waited too   *)
(* long for, leaves the server working: it is stopped with KILL QUERY from  *)
(* another connection of the same pool, and its own connection is dropped.  *)
(***************************************************************************)
EXTENDS Naturals, FiniteSets

CONSTANTS
    Reads,    \* reads of the assistant, and plans that run their statement
    Users,    \* other commands of the session that need a connection
    None,     \* nobody
    PoolMax,  \* POOL_MAX: connections the pool keeps open at a time
    MaxConns  \* bound: connections opened

Procs == Reads \cup Users
Conns == 1..MaxConns

ASSUME ReaderAssumption ==
    /\ Reads \cap Users = {} /\ None \notin Procs
    /\ IsFiniteSet(Reads) /\ IsFiniteSet(Users)
    /\ {PoolMax, MaxConns} \subseteq Nat \ {0}

VARIABLES
    closer,   \* how far close() is with the pool
    idle,     \* connections that wait in the pool
    opened,   \* connections opened so far
    held,     \* the connection of a read or another command, 0 for none
    id,       \* the id a read took of its connection when it got it
    killer,   \* the connection a read kills from, 0 for none
    closeConn,\* the connection close() kills the editor's from, 0 for none
    running,  \* whose statement the server executes on a connection
    pc

pool == <<idle, opened>>
vars == <<closer, pool, held, id, killer, closeConn, running, pc>>

ReadSteps == {"idle", "conn", "prepare", "run", "finish", "kill", "aimed", "drop", "done"}
UserSteps == {"idle", "conn", "run", "done"}

\* Every variable keeps its type.
TypeOK ==
    /\ closer \in {"open", "taken", "closed"}
    /\ idle \subseteq Conns /\ opened \in 0..MaxConns
    /\ held \in [Procs -> 0..MaxConns]
    /\ id \in [Reads -> 0..MaxConns] /\ killer \in [Reads -> 0..MaxConns]
    /\ closeConn \in 0..MaxConns
    /\ running \in [Conns -> Procs \cup {None}]
    /\ pc \in [Procs -> ReadSteps]
    /\ \A u \in Users : pc[u] \in UserSteps

Init ==
    /\ closer = "open" /\ idle = {} /\ opened = 0
    /\ held = [p \in Procs |-> 0]
    /\ id = [r \in Reads |-> 0] /\ killer = [r \in Reads |-> 0] /\ closeConn = 0
    /\ running = [c \in Conns |-> None]
    /\ pc = [p \in Procs |-> "idle"]

Goto(p, l) == pc' = [pc EXCEPT ![p] = l]

---------------------------------------------------------------------------
(* The pool *)

\* The connections that count against PoolMax.
Live == (idle \cup {held[p] : p \in Procs} \cup {killer[r] : r \in Reads} \cup {closeConn}) \ {0}

Room == Cardinality(Live) < PoolMax /\ opened < MaxConns

\* get_conn answers with connection c: one that waits, or a new one.
Gets(c) ==
    /\ closer # "closed"
    /\ IF idle # {}
         THEN c \in idle /\ idle' = idle \ {c} /\ UNCHANGED opened
         ELSE Room /\ c = opened + 1 /\ opened' = c /\ UNCHANGED idle

\* get_conn fails: the pool is gone, or a new connection can't be opened.
GetFails == closer = "closed" \/ (idle = {} /\ Room)

\* A connection that is dropped goes back to the pool, unless it was closed.
GiveBack(c) == idle' = IF closer = "closed" THEN idle ELSE idle \cup {c}

---------------------------------------------------------------------------
(* read_unchecked, explain_unchecked *)

\* A command asks for a connection; without a pool the session isn't found.
Ask(p) ==
    /\ pc[p] = "idle"
    /\ Goto(p, IF closer = "open" THEN "conn" ELSE "done")
    /\ UNCHANGED <<closer, pool, held, id, killer, closeConn, running>>

GotConn(r) ==
    /\ pc[r] = "conn"
    /\ \E c \in Conns : /\ Gets(c)
                        /\ held' = [held EXCEPT ![r] = c]
                        /\ id' = [id EXCEPT ![r] = c]
    /\ Goto(r, "prepare")
    /\ UNCHANGED <<closer, killer, closeConn, running>>

NoConn(p) ==
    /\ pc[p] = "conn" /\ GetFails
    /\ Goto(p, "done")
    /\ UNCHANGED <<closer, pool, held, id, killer, closeConn, running>>

\* The limit is set and the transaction begun; the statement is sent.
Prepared(r) ==
    /\ pc[r] = "prepare"
    /\ running' = [running EXCEPT ![held[r]] = r]
    /\ Goto(r, "run")
    /\ UNCHANGED <<closer, pool, held, id, killer, closeConn>>

\* All the rows came.
Answered(r) ==
    /\ pc[r] = "run"
    /\ running' = [running EXCEPT ![held[r]] = None]
    /\ Goto(r, "finish")
    /\ UNCHANGED <<closer, pool, held, id, killer, closeConn>>

\* Rolled back and the limit lifted: the connection goes back.
Whole(r) ==
    /\ pc[r] = "finish"
    /\ GiveBack(held[r])
    /\ held' = [held EXCEPT ![r] = 0]
    /\ Goto(r, "done")
    /\ UNCHANGED <<closer, opened, id, killer, closeConn, running>>

\* The row limit is reached with the statement still producing rows.
Cut(r) ==
    /\ pc[r] = "run"
    /\ Goto(r, "kill")
    /\ UNCHANGED <<closer, pool, held, id, killer, closeConn, running>>

\* A statement fails, or the server's own limit ends it.
Failed(r) ==
    /\ pc[r] \in {"prepare", "run", "finish"}
    /\ running' = [running EXCEPT ![held[r]] = None]
    /\ Goto(r, "drop")
    /\ UNCHANGED <<closer, pool, held, id, killer, closeConn>>

\* Mutant: a connection that answers late goes back to the pool.
LateGivesBack(r) ==
    /\ pc[r] \in {"prepare", "run", "finish"}
    /\ GiveBack(held[r])
    /\ held' = [held EXCEPT ![r] = 0]
    /\ Goto(r, "kill")
    /\ UNCHANGED <<closer, opened, id, killer, closeConn, running>>

\* Mutant: the client's limit is for the statement alone.
TimedOutRunning(r) ==
    /\ pc[r] = "run"
    /\ Goto(r, "kill")
    /\ UNCHANGED <<closer, pool, held, id, killer, closeConn, running>>

\* The client's limit is over.
TimedOut(r) ==
    /\ pc[r] \in {"prepare", "run", "finish"}
    /\ Goto(r, "kill")
    /\ UNCHANGED <<closer, pool, held, id, killer, closeConn, running>>

\* kill_query gets another connection of the pool.
KillConn(r) ==
    /\ pc[r] = "kill"
    /\ \E c \in Conns : Gets(c) /\ killer' = [killer EXCEPT ![r] = c]
    /\ Goto(r, "aimed")
    /\ UNCHANGED <<closer, held, id, closeConn, running>>

\* Without one nothing is killed.
KillSkipped(r) ==
    /\ pc[r] = "kill" /\ (closer # "open" \/ GetFails)
    /\ Goto(r, "drop")
    /\ UNCHANGED <<closer, pool, held, id, killer, closeConn, running>>

\* KILL QUERY reaches the server, which stops whatever runs on that id.
KillQuery(r) ==
    /\ pc[r] = "aimed"
    /\ running' = [running EXCEPT ![id[r]] = None]
    /\ GiveBack(killer[r])
    /\ killer' = [killer EXCEPT ![r] = 0]
    /\ Goto(r, "drop")
    /\ UNCHANGED <<closer, opened, held, id, closeConn>>

\* The connection is disconnected and never goes back.
Drop(r) ==
    /\ pc[r] = "drop"
    /\ held' = [held EXCEPT ![r] = 0]
    /\ running' = [c \in Conns |-> IF running[c] = r THEN None ELSE running[c]]
    /\ Goto(r, "done")
    /\ UNCHANGED <<closer, pool, id, killer, closeConn>>

---------------------------------------------------------------------------
(* The other commands, and close *)

UserGotConn(u) ==
    /\ pc[u] = "conn"
    /\ \E c \in Conns : /\ Gets(c)
                        /\ held' = [held EXCEPT ![u] = c]
                        /\ running' = [running EXCEPT ![c] = u]
    /\ Goto(u, "run")
    /\ UNCHANGED <<closer, id, killer, closeConn>>

\* Its statements are answered and the connection goes back.
UserEnds(u) ==
    /\ pc[u] = "run"
    /\ running' = [running EXCEPT ![held[u]] = None]
    /\ GiveBack(held[u])
    /\ held' = [held EXCEPT ![u] = 0]
    /\ Goto(u, "done")
    /\ UNCHANGED <<closer, opened, id, killer, closeConn>>

\* The session takes its pool: who asks later finds none.
CloseTakes ==
    /\ closer = "open"
    /\ closer' = "taken"
    /\ UNCHANGED <<pool, held, id, killer, closeConn, running, pc>>

\* A connection to kill the editor's from.
CloseGotConn ==
    /\ closer = "taken" /\ closeConn = 0
    /\ \E c \in Conns : Gets(c) /\ closeConn' = c
    /\ UNCHANGED <<closer, held, id, killer, running, pc>>

\* The editor's connection is killed, or KILL_TIMEOUT is over: the pool is shut
\* down, what waits in it is closed, and so is what comes back.
CloseEnds ==
    /\ closer = "taken"
    /\ closer' = "closed" /\ idle' = {} /\ closeConn' = 0
    /\ UNCHANGED <<opened, held, id, killer, running, pc>>

---------------------------------------------------------------------------
(* The specification *)

\* What a read does by itself, and the server's answers to its statements.
Read(r) ==
    \/ GotConn(r) \/ NoConn(r) \/ TimedOut(r)
    \/ KillConn(r) \/ KillSkipped(r) \/ KillQuery(r) \/ Drop(r)
Answer(r) == Prepared(r) \/ Answered(r) \/ Whole(r) \/ Cut(r) \/ Failed(r)

User(u) == UserGotConn(u) \/ NoConn(u) \/ UserEnds(u)

Next ==
    \/ \E p \in Procs : Ask(p)
    \/ \E r \in Reads : Read(r) \/ Answer(r)
    \/ \E u \in Users : User(u)
    \/ CloseTakes \/ CloseGotConn \/ CloseEnds

Spec == Init /\ [][Next]_vars

\* The server may never answer a read: the client's limit ends that wait.  It
\* answers a KILL QUERY and the statements of the other commands, which have no
\* limit of their own.  Nobody has to ask or to close.
FairSpec ==
    /\ Spec
    /\ \A r \in Reads : WF_vars(Read(r))
    /\ \A u \in Users : WF_vars(User(u))
    /\ WF_vars(CloseEnds)

---------------------------------------------------------------------------
(* Properties *)

\* KILL QUERY is sent with an id read long before: whatever was given back,
\* taken and opened in between, it stops the read's own statement or nothing
\* (read_unchecked, kill_query).
KillsOwnStatement ==
    [][\A r \in Reads :
          pc[r] = "aimed" /\ pc'[r] = "drop" => running[id[r]] \in {r, None}]_vars

\* A read that was asked ends, also when the server never answers, while
\* there are fewer reads than connections (read_unchecked).
ReadsEnd == \A r \in Reads : pc[r] = "conn" ~> pc[r] = "done"

\* The session still works after reads were cut: another command gets its
\* connection.
SessionWorks == \A u \in Users : pc[u] = "conn" ~> pc[u] = "done"
=============================================================================
