----------------------------- MODULE PgSession -----------------------------
(***************************************************************************)
(* The connections of a PostgreSQL session (postgres/session.rs): the main *)
(* one, the query editor's, the one of a transaction opened with a button, *)
(* and the short-lived one of EXPLAIN ANALYZE; what reconnects them, the   *)
(* editor's runs (console.rs), the transaction buttons (transactions.rs)   *)
(* and the session's close (mod.rs).                                       *)
(*                                                                         *)
(* The session's lock is never kept across an await, so what happens under *)
(* it is one step; a command keeps its own reference to the connection it  *)
(* got, whatever becomes of the session.  The server answers one statement *)
(* of a connection at a time; each is one step.                            *)
(***************************************************************************)
EXTENDS Naturals, Sequences, FiniteSets

CONSTANTS
    Tasks,     \* the commands that may run at the same time
    Jobs,      \* what a command may be asked to run
    Nobody,    \* nobody has the reconnect lock
    MaxConns,  \* bound: connections opened
    MaxRuns,   \* bound: commands asked
    MaxFaults  \* bound: connections lost

\* "work" changes something.
Statements == {"work", "begin", "commit", "rollback"}

\* A command of a table view, on the main connection; a script; EXPLAIN
\* ANALYZE; the buttons of the transaction.
Kinds == {"table", "script", "explain", "begin", "commit", "rollback"}
Job == [kind : Kinds, todo : Seq(Statements)]

ASSUME SessionAssumption ==
    /\ Nobody \notin Tasks
    /\ Jobs \subseteq Job
    /\ \A j \in Jobs : j.kind = "script" <=> j.todo # <<>>
    /\ MaxConns \in Nat \ {0} /\ {MaxRuns, MaxFaults} \subseteq Nat

VARIABLES
    \* PostgresDriver: 0 is no connection
    open,               \* the session's state is Some
    main, editor, transaction,
    reconnecting,       \* who has reconnect_lock
    \* a command, the connection it got, whether that is the transaction's
    pc, job, conn, joined,
    \* the server
    opened,             \* connections so far, numbered in that order
    live,               \* the ones that are up
    block,              \* the transaction block of each
    content,            \* the effects waiting in it
    mark,               \* the effects at the savepoint, in a sequence of one
    \* bounds
    runs, faults,
    \* history, for the properties
    crossed,            \* connections that two commands had at the same time
    leaked,             \* connections on which the effects of a plan were saved
    owed                \* the transaction's connection was lost and nobody told

session == <<open, main, editor, transaction, reconnecting>>
locals  == <<pc, job, conn, joined>>
blocks  == <<block, content, mark>>
server  == <<opened, live, blocks>>
bounds  == <<runs, faults>>
history == <<crossed, leaked, owed>>
vars    == <<session, locals, server, bounds, history>>

Conns == 1..MaxConns
Effects == {"work", "plan"}

\* Where a command waits for a connection, has the reconnect lock, or has
\* the connection it runs on.
Getting == {"look", "main", "mainLock", "editorLock", "opening", "beginLook"}
Relinking == {"mainOpen", "mainStore", "editorOpen", "editorStore"}
Running == {"start", "run", "mark", "plan", "undo", "beginStore", "probe", "commit", "rollback"}

SessionType ==
    /\ open \in BOOLEAN
    /\ {main, editor, transaction} \subseteq 0..opened
    /\ reconnecting \in Tasks \cup {Nobody}
CommandType ==
    /\ pc \in [Tasks -> {"idle"} \cup Getting \cup Relinking \cup Running]
    /\ job \in [Tasks -> Job]
    /\ conn \in [Tasks -> 0..opened] /\ joined \in [Tasks -> BOOLEAN]
ServerType ==
    /\ opened \in Conns /\ live \subseteq 1..opened
    /\ block \in [Conns -> {"none", "open", "failed"}]
    /\ content \in [Conns -> SUBSET Effects]
    /\ mark \in [Conns -> {<<>>} \cup {<<e>> : e \in SUBSET Effects}]
BoundType == runs \in 0..MaxRuns /\ faults \in 0..MaxFaults
HistoryType ==
    /\ crossed \subseteq 1..opened /\ leaked \subseteq 1..opened
    /\ owed \in BOOLEAN

\* Every variable keeps its type, whoever runs has a connection, and the
\* reconnect lock is its holder's.
TypeOK ==
    /\ SessionType /\ CommandType /\ ServerType /\ BoundType /\ HistoryType
    /\ \A t \in Tasks : pc[t] \in Running => conn[t] # 0
    /\ \A t \in Tasks : pc[t] \in Relinking <=> reconnecting = t

Init ==
    /\ open = TRUE /\ main = 1 /\ editor = 0 /\ transaction = 0 /\ reconnecting = Nobody
    /\ pc = [t \in Tasks |-> "idle"] /\ job \in [Tasks -> {[kind |-> "table", todo |-> <<>>]}]
    /\ conn = [t \in Tasks |-> 0] /\ joined = [t \in Tasks |-> FALSE]
    /\ opened = 1 /\ live = {1}
    /\ block = [c \in Conns |-> "none"] /\ content = [c \in Conns |-> {}]
    /\ mark = [c \in Conns |-> <<>>]
    /\ runs = 0 /\ faults = 0
    /\ crossed = {} /\ leaked = {} /\ owed = FALSE

---------------------------------------------------------------------------
(* What the actions are made of *)

Kind(t) == job[t].kind
Goto(t, l) == pc' = [pc EXCEPT ![t] = l]

\* The command has connection c from now on.
Take(t, c) ==
    /\ conn' = [conn EXCEPT ![t] = c]
    /\ crossed' = crossed \cup {d \in {c} \ {0} : \E u \in Tasks \ {t} : conn[u] = d}

\* The command answers, with or without an error, and lets go of everything.
Finish(t) ==
    /\ Goto(t, "idle")
    /\ conn' = [conn EXCEPT ![t] = 0] /\ joined' = [joined EXCEPT ![t] = FALSE]

\* A connection of the link, up at once with block b.
Open(b) ==
    /\ opened < MaxConns
    /\ opened' = opened + 1 /\ live' = live \cup {opened + 1}
    /\ block' = [block EXCEPT ![opened + 1] = b]
    /\ UNCHANGED <<content, mark>>

\* The block of c becomes b with the effects e waiting in it.
Becomes(c, b, e) ==
    /\ block' = [block EXCEPT ![c] = b]
    /\ content' = [content EXCEPT ![c] = e]
    /\ mark' = IF b = "none" THEN [mark EXCEPT ![c] = <<>>] ELSE mark

\* Effects that were saved from connection c.
Saves(c, e) == leaked' = IF "plan" \in e THEN leaked \cup {c} ELSE leaked

\* An error in an open block aborts it.
Aborts(c) ==
    /\ block' = [block EXCEPT ![c] = IF @ = "open" THEN "failed" ELSE @]
    /\ UNCHANGED <<content, mark>>

\* An effect at once, or waiting for the block's end.
Does(c, effect) ==
    \/ block[c] = "none" /\ Saves(c, {effect}) /\ UNCHANGED blocks
    \/ block[c] = "open" /\ Becomes(c, "open", content[c] \cup {effect}) /\ UNCHANGED leaked

\* COMMIT of a failed block rolls back, and says so only in its tag.
Commits(c) ==
    /\ Becomes(c, "none", {})
    /\ IF block[c] = "open" THEN Saves(c, content[c]) ELSE UNCHANGED leaked

---------------------------------------------------------------------------
(* client() and editor_client() *)

Ask(t) ==
    /\ pc[t] = "idle" /\ runs < MaxRuns
    /\ runs' = runs + 1
    /\ \E j \in Jobs :
         /\ job' = [job EXCEPT ![t] = j]
         /\ Goto(t, CASE j.kind = "table" -> "main"
                      [] j.kind \in {"script", "explain"} -> "look"
                      [] j.kind = "begin" -> "beginLook"
                      [] OTHER -> "opening")
    /\ UNCHANGED <<session, conn, joined, server, faults, history>>

\* Where a command goes with the main connection up.
WithMain(t, c) ==
    IF Kind(t) = "table" THEN Goto(t, "run") /\ Take(t, c)
                         ELSE Goto(t, "editorLock") /\ UNCHANGED <<conn, crossed>>

\* Mutant: a lost transaction is dropped and the run goes on.
DropsSilently(t) ==
    /\ transaction # 0 /\ transaction \notin live
    /\ transaction' = 0
    /\ Goto(t, "main")
    /\ UNCHANGED <<conn, joined, crossed, owed>>

\* open_editor finds the transaction's connection lost: dropped and reported.
TellLost(t) ==
    /\ transaction # 0 /\ transaction \notin live
    /\ transaction' = 0 /\ owed' = FALSE
    /\ Finish(t)
    /\ UNCHANGED crossed

\* open_editor finds a connection that is up: the transaction's, else the
\* editor's own.
EditorUp == transaction \in live \/ (transaction = 0 /\ editor \in live)
GotEditor(t) ==
    /\ EditorUp
    /\ Take(t, IF transaction # 0 THEN transaction ELSE editor)
    /\ joined' = [joined EXCEPT ![t] = transaction # 0]
    /\ Goto(t, "start")
    /\ UNCHANGED <<transaction, owed>>

\* editor_client without the reconnect lock.
LookForEditor(t) ==
    /\ pc[t] = "look" /\ open
    /\ \/ TellLost(t)
       \/ GotEditor(t)
       \/ /\ transaction = 0 /\ editor \notin live
          /\ Goto(t, "main")
          /\ UNCHANGED <<transaction, owed, conn, joined, crossed>>
    /\ UNCHANGED <<open, main, editor, reconnecting, job, server, bounds, leaked>>

\* client() without the reconnect lock.
LookForMain(t) ==
    /\ pc[t] = "main" /\ open
    /\ \/ main \in live /\ WithMain(t, main)
       \/ main \notin live /\ Goto(t, "mainLock") /\ UNCHANGED <<conn, crossed>>
    /\ UNCHANGED <<session, job, joined, server, bounds, leaked, owed>>

\* With the reconnect lock: another command may have reconnected meanwhile.
LockMain(t) ==
    /\ pc[t] = "mainLock" /\ open /\ reconnecting = Nobody
    /\ \/ main \in live /\ WithMain(t, main) /\ UNCHANGED reconnecting
       \/ /\ main \notin live
          /\ reconnecting' = t
          /\ Goto(t, "mainOpen")
          /\ UNCHANGED <<conn, crossed>>
    /\ UNCHANGED <<open, main, editor, transaction, job, joined, server, bounds, leaked, owed>>

\* The connection opens, outside the session's lock.
OpenMain(t) ==
    /\ pc[t] = "mainOpen"
    /\ Open("none")
    /\ Take(t, opened + 1)
    /\ Goto(t, "mainStore")
    /\ UNCHANGED <<session, job, joined, bounds, leaked, owed>>

StoreMain(t) ==
    /\ pc[t] = "mainStore" /\ open
    /\ main' = conn[t] /\ reconnecting' = Nobody
    /\ IF Kind(t) = "table" THEN Goto(t, "run") /\ UNCHANGED conn
                            ELSE Goto(t, "editorLock") /\ conn' = [conn EXCEPT ![t] = 0]
    /\ UNCHANGED <<open, editor, transaction, job, joined, server, bounds, history>>

\* The editor's connection, with the reconnect lock.
LockEditor(t) ==
    /\ pc[t] = "editorLock" /\ open /\ reconnecting = Nobody
    /\ \/ TellLost(t) /\ UNCHANGED reconnecting
       \/ GotEditor(t) /\ UNCHANGED reconnecting
       \/ /\ transaction = 0 /\ editor \notin live
          /\ reconnecting' = t
          /\ Goto(t, "editorOpen")
          /\ UNCHANGED <<transaction, owed, conn, joined, crossed>>
    /\ UNCHANGED <<open, main, editor, job, server, bounds, leaked>>

OpenEditor(t) ==
    /\ pc[t] = "editorOpen"
    /\ Open("none")
    /\ Take(t, opened + 1)
    /\ Goto(t, "editorStore")
    /\ UNCHANGED <<session, job, joined, bounds, leaked, owed>>

\* Mutant: the connection is kept in a session that was closed meanwhile.
StoreEditorAnyway(t) ==
    /\ pc[t] = "editorStore"
    /\ editor' = conn[t] /\ reconnecting' = Nobody
    /\ Goto(t, "start")
    /\ UNCHANGED <<open, main, transaction, job, conn, joined, server, bounds, history>>

StoreEditor(t) ==
    /\ pc[t] = "editorStore" /\ open
    /\ editor' = conn[t] /\ reconnecting' = Nobody
    /\ Goto(t, "start")
    /\ UNCHANGED <<open, main, transaction, job, conn, joined, server, bounds, history>>

\* No connection can be opened: the command fails and the lock is free.
OpenFails(t) ==
    /\ pc[t] \in {"mainOpen", "editorOpen"}
    /\ reconnecting' = Nobody
    /\ Finish(t)
    /\ UNCHANGED <<open, main, editor, transaction, job, server, bounds, history>>

\* EXPLAIN inside the transaction asks nothing of the session.
NeedsSession(t) == Kind(t) = "script" \/ ~joined[t]

\* Every look at a closed session answers "Session not found"; a connection
\* that was just opened is dropped with it.
NotFound(t) ==
    /\ ~open
    /\ pc[t] \in Getting \cup {"mainStore", "editorStore", "start", "beginStore"}
    /\ pc[t] \in {"mainLock", "editorLock"} => reconnecting = Nobody
    /\ pc[t] = "start" => NeedsSession(t)
    /\ reconnecting' = IF reconnecting = t THEN Nobody ELSE reconnecting
    /\ Finish(t)
    /\ UNCHANGED <<open, main, editor, transaction, job, server, bounds, history>>

---------------------------------------------------------------------------
(* Console::execute and Console::explain, and the statements of a table view *)

\* The notices and the link are the session's; an EXPLAIN outside a
\* transaction opens its own connection.
Start(t) ==
    /\ pc[t] = "start"
    /\ NeedsSession(t) => open
    /\ \/ /\ Kind(t) = "script"
          /\ Goto(t, "run") /\ UNCHANGED <<conn, server, crossed>>
       \/ /\ Kind(t) = "explain" /\ joined[t]
          /\ Goto(t, "mark") /\ UNCHANGED <<conn, server, crossed>>
       \/ /\ Kind(t) = "explain" /\ ~joined[t]
          /\ Open("open") /\ Take(t, opened + 1) /\ Goto(t, "plan")
    /\ UNCHANGED <<session, job, joined, bounds, leaked, owed>>

StartFails(t) ==
    /\ pc[t] = "start" /\ Kind(t) = "explain" /\ ~joined[t]
    /\ Finish(t)
    /\ UNCHANGED <<session, job, server, bounds, history>>

\* A statement succeeds.  What is typed may open and end a block as well.
Statement(t) ==
    /\ pc[t] = "run" /\ conn[t] \in live
    /\ LET c == conn[t]
           s == IF Kind(t) = "table" THEN "work" ELSE Head(job[t].todo) IN
       \/ s = "work" /\ Does(c, "work")
       \/ s = "begin" /\ block[c] = "none" /\ Becomes(c, "open", {}) /\ UNCHANGED leaked
       \/ s = "begin" /\ block[c] = "open" /\ UNCHANGED <<blocks, leaked>>
       \/ s = "commit" /\ Commits(c)
       \/ s = "rollback" /\ Becomes(c, "none", {}) /\ UNCHANGED leaked
    /\ IF Kind(t) = "table" \/ Len(job[t].todo) = 1
         THEN Finish(t) /\ UNCHANGED job
         ELSE /\ job' = [job EXCEPT ![t].todo = Tail(@)]
              /\ UNCHANGED <<pc, conn, joined>>
    /\ UNCHANGED <<session, opened, live, bounds, crossed, owed>>

\* It fails, or its connection is gone: so does the rest of the script.
StatementFails(t) ==
    /\ pc[t] = "run"
    /\ Aborts(conn[t])
    /\ Finish(t)
    /\ UNCHANGED <<session, job, opened, live, bounds, history>>

SetSavepoint(t) ==
    /\ pc[t] = "mark"
    /\ IF conn[t] \in live /\ block[conn[t]] = "open"
         THEN /\ mark' = [mark EXCEPT ![conn[t]] = <<content[conn[t]]>>]
              /\ Goto(t, "plan")
              /\ UNCHANGED <<block, content, conn, joined>>
         ELSE Finish(t) /\ Aborts(conn[t])
    /\ UNCHANGED <<session, job, opened, live, bounds, history>>

\* EXPLAIN ANALYZE runs the statement, or fails.
Plan(t) ==
    /\ pc[t] = "plan"
    /\ \/ conn[t] \in live /\ Does(conn[t], "plan")
       \/ Aborts(conn[t]) /\ UNCHANGED leaked
    /\ Goto(t, "undo")
    /\ UNCHANGED <<session, job, conn, joined, opened, live, bounds, crossed, owed>>

\* Mutant: an EXPLAIN that ran isn't rolled back.
KeepsPlan(t) ==
    /\ pc[t] = "undo"
    /\ Finish(t)
    /\ UNCHANGED <<session, job, server, bounds, history>>

\* Mutant: the whole transaction is rolled back.
UndoesAll(t) ==
    /\ pc[t] = "undo"
    /\ IF conn[t] \in live THEN Becomes(conn[t], "none", {}) ELSE UNCHANGED blocks
    /\ Finish(t)
    /\ UNCHANGED <<session, job, opened, live, bounds, history>>

\* ROLLBACK TO SAVEPOINT inside the transaction, ROLLBACK outside; whether
\* they work isn't looked at.
Undo(t) ==
    /\ pc[t] = "undo"
    /\ LET c == conn[t] IN
       \/ c \in live /\ ~joined[t] /\ Becomes(c, "none", {})
       \/ /\ c \in live /\ joined[t] /\ block[c] # "none" /\ mark[c] # <<>>
          /\ Becomes(c, "open", Head(mark[c]))
       \/ (c \notin live \/ (joined[t] /\ (block[c] = "none" \/ mark[c] = <<>>))) /\ Aborts(c)
    /\ Finish(t)
    /\ UNCHANGED <<session, job, opened, live, bounds, history>>

---------------------------------------------------------------------------
(* Transactions *)

\* in_transaction, then a connection of its own and its BEGIN.
Begin(t) ==
    /\ pc[t] = "beginLook" /\ open
    /\ IF transaction \in live
         THEN Finish(t) /\ UNCHANGED <<server, crossed>>
         ELSE Open("open") /\ Take(t, opened + 1) /\ Goto(t, "beginStore") /\ UNCHANGED joined
    /\ UNCHANGED <<session, job, bounds, leaked, owed>>

BeginFails(t) ==
    /\ pc[t] = "beginLook" /\ open
    /\ Finish(t)
    /\ UNCHANGED <<session, job, server, bounds, history>>

\* Mutant: only the first look decides.
StoreTransactionAnyway(t) ==
    /\ pc[t] = "beginStore" /\ open
    /\ transaction' = conn[t]
    /\ Finish(t)
    /\ UNCHANGED <<open, main, editor, reconnecting, job, server, bounds, history>>

\* Another tab may have opened a transaction meanwhile; a lost one is
\* replaced without a word.
StoreTransaction(t) ==
    /\ pc[t] = "beginStore" /\ open
    /\ transaction' = IF transaction \in live THEN transaction ELSE conn[t]
    /\ owed' = (owed /\ transaction \in live)
    /\ Finish(t)
    /\ UNCHANGED <<open, main, editor, reconnecting, job, server, bounds, crossed, leaked>>

\* Mutant: the transaction stays where editor runs find it.
TakeButKeep(t) ==
    /\ pc[t] = "opening" /\ open
    /\ IF transaction = 0
         THEN Finish(t) /\ UNCHANGED crossed
         ELSE Take(t, transaction) /\ Goto(t, IF Kind(t) = "commit" THEN "probe" ELSE "rollback") /\ UNCHANGED joined
    /\ owed' = FALSE
    /\ UNCHANGED <<session, job, server, bounds, leaked>>

\* take_transaction.
TakeTransaction(t) ==
    /\ pc[t] = "opening" /\ open
    /\ IF transaction = 0
         THEN Finish(t) /\ UNCHANGED crossed
         ELSE Take(t, transaction) /\ Goto(t, IF Kind(t) = "commit" THEN "probe" ELSE "rollback") /\ UNCHANGED joined
    /\ transaction' = 0 /\ owed' = FALSE
    /\ UNCHANGED <<open, main, editor, reconnecting, job, server, bounds, leaked>>

\* Mutant: COMMIT is sent without asking the server first.
ProbeNothing(t) ==
    /\ pc[t] = "probe"
    /\ Goto(t, "commit")
    /\ UNCHANGED <<session, job, conn, joined, server, bounds, history>>

\* SELECT 1 fails in a block that a statement's error aborted.
Probe(t) ==
    /\ pc[t] = "probe"
    /\ LET c == conn[t] IN
       \/ c \in live /\ block[c] # "failed" /\ Goto(t, "commit") /\ UNCHANGED <<conn, joined>>
       \/ c \in live /\ block[c] = "failed" /\ Goto(t, "rollback") /\ UNCHANGED <<conn, joined>>
       \/ c \notin live /\ Finish(t)
    /\ UNCHANGED <<session, job, server, bounds, history>>

\* The command answers that everything was saved.
Commit(t) ==
    /\ pc[t] = "commit" /\ conn[t] \in live
    /\ Commits(conn[t])
    /\ Finish(t)
    /\ UNCHANGED <<session, job, opened, live, bounds, crossed, owed>>

\* A constraint checked at COMMIT, or the connection is gone.
CommitFails(t) ==
    /\ pc[t] = "commit"
    /\ IF conn[t] \in live /\ block[conn[t]] = "open"
         THEN Becomes(conn[t], "none", {}) ELSE conn[t] \notin live /\ UNCHANGED blocks
    /\ Finish(t)
    /\ UNCHANGED <<session, job, opened, live, bounds, history>>

Rollback(t) ==
    /\ pc[t] = "rollback"
    /\ IF conn[t] \in live THEN Becomes(conn[t], "none", {}) ELSE UNCHANGED blocks
    /\ Finish(t)
    /\ UNCHANGED <<session, job, opened, live, bounds, history>>

---------------------------------------------------------------------------
(* The connections themselves *)

\* Driver::close drops the session's own references.
Close ==
    /\ open
    /\ open' = FALSE /\ main' = 0 /\ editor' = 0 /\ transaction' = 0 /\ owed' = FALSE
    /\ UNCHANGED <<reconnecting, locals, server, bounds, crossed, leaked>>

\* The end of a connection rolls its block back.
Ends(c) ==
    /\ live' = live \ {c}
    /\ Becomes(c, "none", {})

Lose(c) ==
    /\ c \in live /\ faults < MaxFaults
    /\ faults' = faults + 1
    /\ Ends(c)
    /\ owed' = (owed \/ c = transaction)
    /\ UNCHANGED <<session, locals, opened, runs, crossed, leaked>>

\* A connection nobody refers to any more closes.
Drop(c) ==
    /\ c \in live \ {main, editor, transaction}
    /\ \A t \in Tasks : conn[t] # c
    /\ Ends(c)
    /\ UNCHANGED <<session, locals, opened, bounds, history>>

---------------------------------------------------------------------------
(* The specification *)

Progress(t) ==
    \/ LookForEditor(t) \/ LookForMain(t) \/ LockMain(t) \/ OpenMain(t) \/ StoreMain(t)
    \/ LockEditor(t) \/ OpenEditor(t) \/ StoreEditor(t) \/ OpenFails(t) \/ NotFound(t)
    \/ Start(t) \/ StartFails(t) \/ Statement(t) \/ StatementFails(t)
    \/ SetSavepoint(t) \/ Plan(t) \/ Undo(t)
    \/ Begin(t) \/ BeginFails(t) \/ StoreTransaction(t) \/ TakeTransaction(t)
    \/ Probe(t) \/ Commit(t) \/ CommitFails(t) \/ Rollback(t)

Next ==
    \/ \E t \in Tasks : Ask(t) \/ Progress(t)
    \/ \E c \in Conns : Lose(c) \/ Drop(c)
    \/ Close

Spec == Init /\ [][Next]_vars

\* Tasks are polled until they end, the server answers or the statement fails,
\* and a client that was dropped closes its connection.
FairSpec ==
    /\ Spec
    /\ \A t \in Tasks : WF_vars(Progress(t))
    /\ \A c \in Conns : WF_vars(Drop(c))

---------------------------------------------------------------------------
(* Properties *)

\* A transaction that is up leaves the session only through the buttons that
\* end it, or with the session: two tabs that press Begin don't replace each
\* other's (begin, take_transaction, open_editor).
NoTransactionIsReplaced ==
    [][transaction' # transaction /\ transaction \in live
         => ~open' \/ \E t \in Tasks : TakeTransaction(t)]_vars

\* Commands that find the main connection lost together reconnect it once:
\* a connection that is up is never replaced (client).
ReconnectsOnce == [][main' # main /\ main \in live => ~open']_vars

\* A run asked when the transaction has gone with its connection gets none
\* before somebody was told, also when it waited for another command to
\* reconnect (editor_client, open_editor).
LossIsToldFirst ==
    [][\A t \in Tasks :
          /\ owed
          /\ pc[t] \in {"look", "editorLock"} /\ pc'[t] \in {"main", "editorOpen", "start"}
          => joined'[t]]_vars

\* A commit that answers without an error saved what was run in it, with no
\* other command on the transaction's connection (finish_commit).
CommitIsTrue ==
    [][\A t \in Tasks : Commit(t) /\ conn[t] \notin crossed => block[conn[t]] # "failed"]_vars

\* A script that joined the transaction runs inside it to its last statement,
\* alone on the connection (execute, take_transaction).
RunsStayInTransaction ==
    \A t \in Tasks :
        pc[t] = "run" /\ joined[t] /\ conn[t] \in live \ crossed => block[conn[t]] # "none"

\* What EXPLAIN ANALYZE ran is never saved, alone on the connection (explain).
ExplainLeavesNothing == leaked \subseteq crossed

\* ... and its end leaves what the transaction had done before (explain).
ExplainKeepsWork ==
    [][\A t \in Tasks :
          /\ pc[t] = "undo" /\ pc'[t] = "idle" /\ joined[t] /\ conn[t] \in live \ crossed
          /\ "work" \in content[conn[t]]
          => "work" \in content'[conn[t]]]_vars

\* A closed session lets every connection go, those opened meanwhile too
\* (close, client, editor_client, begin).
CloseEndsConnections == ~open ~> live = {}

\* What a comment says and the code does not always do.

\* A commit that answers without an error saved what was run in it (the
\* comment on finish_commit).
CommitSaves == [][\A t \in Tasks : Commit(t) => block[conn[t]] # "failed"]_vars

=============================================================================
