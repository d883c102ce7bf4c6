---------------------------- MODULE MysqlEditor ----------------------------
(***************************************************************************)
(* The query editor's own connection of a MySQL or MariaDB session:        *)
(* EditorConn (mysql_common/editor.rs), the console and the transaction    *)
(* buttons that run on it (console.rs, transactions.rs), the cancel that   *)
(* kills the running statement from another connection, and the session's  *)
(* close (driver.rs).                                                      *)
(*                                                                         *)
(* Commands are concurrent tasks (every query tab runs its own).  A        *)
(* command waits for the connection, looks at it, opens it again when it   *)
(* was lost, and only then runs its statements.  Each await of the code,   *)
(* and each access to a field another task reads or writes, ends a step.   *)
(*                                                                         *)
(* The server keeps one session per connection.  Connections are numbered  *)
(* in the order they open; one the client let go of is gone from the       *)
(* server, so only the latest one (opened) can be live.                    *)
(***************************************************************************)
EXTENDS Naturals, Sequences

CONSTANTS
    Commands,   \* tasks that run a command on the editor's connection
    Cancels,    \* tasks that run Console::cancel, once each
    Jobs,       \* what a command may be asked to run
    NoCommand,  \* nobody holds the connection
    MaxConns,   \* bound: connections the editor opens
    MaxRuns,    \* bound: commands started
    MaxFaults   \* bound: lost connections, pings timing out, databases dropped

\* What a statement does to its session: nothing the editor keeps ("work"),
\* the transaction, a DDL's implicit commit, a USE of another database or of
\* the session's own.
Statements == {"work", "begin", "commit", "rollback", "ddl", "use", "home"}

\* console: a script; otherwise the single statement of a button, or an EXPLAIN.
Job == [console : BOOLEAN, todo : Seq(Statements)]

ASSUME EditorAssumption ==
    /\ NoCommand \notin Commands
    /\ Jobs \subseteq Job
    /\ \A j \in Jobs :
         IF j.console THEN j.todo # <<>>
                      ELSE \E s \in Statements \ {"ddl", "use", "home"} : j.todo = <<s>>
    /\ MaxConns \in Nat \ {0} /\ {MaxRuns, MaxFaults} \subseteq Nat

VARIABLES
    \* EditorConn
    slot,       \* TRUE until the session is closed
    holder,     \* the command that holds the connection's lock
    held,       \* the connection kept in the slot, 0 for none
    id,         \* the connection id a kill aims at
    inTx,       \* the mark in_transaction
    cancelled,  \* the mark a cancel leaves
    database,   \* the database a reconnection goes back to
    \* the commands; fresh (reconnected) and failed are the holder's locals
    pc, job, fresh, failed, seen,
    \* the server's side of the latest connection, and the client's view of it
    opened, live, tx, db,
    killed,     \* KILL QUERY reached the statement being executed
    status,     \* the transaction flag of the last reply the client read
    \* Driver::close and Console::cancel
    closer, killId, pool, cancelPc, cancelId,
    \* bounds
    runs, faults,
    \* history, for the properties
    owed,       \* a marked transaction was lost and no command has failed for it
                \* yet; "masked" when an error answer had hidden it before
    txn,        \* what became of the latest transaction
    picked,     \* the database the last script left a live connection in
    flagged     \* the running script was cancelled before its last check

editor  == <<slot, holder, held, id, inTx, cancelled, database>>
locals  == <<pc, job, fresh, failed, seen>>
server  == <<opened, live, tx, db, killed, status>>
closing == <<closer, killId, pool>>
cancels == <<cancelPc, cancelId>>
bounds  == <<runs, faults>>
history == <<owed, txn, picked, flagged>>
vars    == <<editor, locals, server, closing, cancels, bounds, history>>

\* Where a command that holds the connection can be.
Preparing == {"ping", "connect", "store", "check", "restore"}
Body      == {"clear", "next", "send", "reply", "settle", "where"}
Holding   == Preparing \cup Body

\* The server is executing something for the editor.
Executing == holder # NoCommand /\ pc[holder] \in {"reply", "where"}

EditorType ==
    /\ slot \in BOOLEAN /\ inTx \in BOOLEAN /\ cancelled \in BOOLEAN
    /\ holder \in Commands \cup {NoCommand}
    /\ held \in 0..opened /\ id \in 0..opened
    /\ database \in {"home", "other"}

CommandType ==
    /\ pc \in [Commands -> {"idle", "wait", "note"} \cup Holding]
    /\ job \in [Commands -> Job]
    /\ seen \in [Commands -> {"home", "other"}]
    /\ fresh \in BOOLEAN /\ failed \in BOOLEAN

ServerType ==
    /\ opened \in 1..MaxConns
    /\ live \in BOOLEAN /\ tx \in BOOLEAN /\ killed \in BOOLEAN /\ status \in BOOLEAN
    /\ db \in {"home", "other"}

ClosingType ==
    /\ closer \in {"open", "slot", "id", "pool", "killed", "gaveUp"}
    /\ killId \in 0..opened /\ pool \in BOOLEAN
    /\ cancelPc \in [Cancels -> {"idle", "flagged", "aimed", "connected", "done"}]
    /\ cancelId \in [Cancels -> 0..opened]

HistoryType ==
    /\ runs \in 0..MaxRuns /\ faults \in 0..MaxFaults
    /\ owed \in {"no", "owed", "masked"}
    /\ txn \in {"none", "open", "committed", "rolled"}
    /\ picked \in {"home", "other"} /\ flagged \in BOOLEAN

\* Every variable keeps its type.
TypeOK == EditorType /\ CommandType /\ ServerType /\ ClosingType /\ HistoryType

\* EditorConn::open and the end of ServerDriver::open: one connection, idle.
Init ==
    /\ slot = TRUE /\ holder = NoCommand /\ held = 1 /\ id = 1
    /\ inTx = FALSE /\ cancelled = FALSE /\ database = "home"
    /\ pc = [p \in Commands |-> "idle"]
    /\ job \in [Commands -> {[console |-> FALSE, todo |-> <<>>]}]
    /\ seen = [p \in Commands |-> "home"]
    /\ fresh = FALSE /\ failed = FALSE
    /\ opened = 1 /\ live = TRUE /\ tx = FALSE /\ db = "home"
    /\ killed = FALSE /\ status = FALSE
    /\ closer = "open" /\ killId = 0 /\ pool = TRUE
    /\ cancelPc = [x \in Cancels |-> "idle"] /\ cancelId = [x \in Cancels |-> 0]
    /\ runs = 0 /\ faults = 0
    /\ owed = "no" /\ txn = "none" /\ picked = "home"
    /\ flagged = FALSE

---------------------------------------------------------------------------
(* The server's session *)

\* The transaction state and the database after a statement succeeded.
TxAfter(s) == IF s = "begin" THEN TRUE
              ELSE tx /\ s \notin {"commit", "rollback", "ddl"}
DbAfter(s) == CASE s = "use" -> "other" [] s = "home" -> "home" [] OTHER -> db

\* A BEGIN or a DDL commits the open transaction first.
Fate(s) == CASE s = "begin"                         -> "open"
             [] tx /\ s \in {"commit", "ddl"}       -> "committed"
             [] tx /\ s = "rollback"                -> "rolled"
             [] OTHER                               -> txn

\* Between a script's failed statement and its SELECT DATABASE() the last
\* reply has no transaction flag.
Owed == IF holder # NoCommand /\ job[holder].console /\ ~status THEN "masked" ELSE "owed"

\* The server ends the session and rolls its transaction back.
EndSession ==
    /\ live' = FALSE /\ tx' = FALSE
    /\ txn'  = IF tx THEN "rolled" ELSE txn
    /\ owed' = IF tx /\ inTx THEN Owed ELSE owed

\* The connection breaks; what it was executing had no effect.
Lose ==
    /\ live /\ faults < MaxFaults
    /\ faults' = faults + 1
    /\ EndSession
    /\ UNCHANGED <<editor, locals, opened, db, killed, status, closing, cancels,
                   runs, picked, flagged>>

\* The connection breaks after the statement took effect, its reply lost.
LoseReply ==
    /\ live /\ faults < MaxFaults
    /\ holder # NoCommand /\ pc[holder] = "reply"
    /\ faults' = faults + 1
    /\ LET s == Head(job[holder].todo)
           keepsTx == s \notin {"begin", "commit", "rollback", "ddl"} IN
       /\ live' = FALSE /\ tx' = FALSE
       /\ txn'  = IF TxAfter(s) THEN "rolled" ELSE Fate(s)
       /\ owed' = IF tx /\ inTx /\ keepsTx THEN Owed ELSE owed
    /\ UNCHANGED <<editor, locals, opened, db, killed, status, closing, cancels,
                   runs, picked, flagged>>

\* The connection nobody will use any more is dropped after the close.
Disconnect ==
    /\ live /\ ~slot /\ holder = NoCommand
    /\ EndSession
    /\ UNCHANGED <<editor, locals, opened, db, killed, status, closing, cancels,
                   bounds, picked, flagged>>

---------------------------------------------------------------------------
(* EditorConn::run *)

Goto(p, l) == pc' = [pc EXCEPT ![p] = l]

\* The guard of the connection goes out of scope.
Release(p, l) ==
    /\ holder' = NoCommand /\ fresh' = FALSE /\ failed' = FALSE
    /\ Goto(p, l)

\* The command reaches the session and clones the slot.
Start(p) ==
    /\ pc[p] = "idle" /\ slot /\ runs < MaxRuns
    /\ runs' = runs + 1
    /\ \E j \in Jobs : job' = [job EXCEPT ![p] = j]
    /\ Goto(p, "wait")
    /\ UNCHANGED <<editor, fresh, failed, seen, server, closing, cancels, faults,
                   history>>

\* The lock is free: take it, unless the session was closed meanwhile.
TakeLock(p) ==
    /\ pc[p] = "wait" /\ holder = NoCommand
    /\ IF slot THEN /\ holder' = p
                    /\ Goto(p, IF held = 0 THEN "connect" ELSE "ping")
               ELSE UNCHANGED holder /\ Goto(p, "idle")
    /\ UNCHANGED <<slot, held, id, inTx, cancelled, database, job, fresh, failed, seen,
                   server, closing, cancels, bounds, history>>

PingAnswers(p) ==
    /\ pc[p] = "ping" /\ live
    /\ status' = tx
    /\ Goto(p, "check")
    /\ UNCHANGED <<editor, job, fresh, failed, seen, opened, live, tx, db, killed,
                   closing, cancels, bounds, history>>

\* No answer within PING_TIMEOUT, or an error: the connection is dropped.
PingFails(p) ==
    /\ pc[p] = "ping"
    /\ \/ ~live /\ UNCHANGED faults
       \/ live /\ faults < MaxFaults /\ faults' = faults + 1
    /\ held' = 0
    /\ EndSession
    /\ Goto(p, "connect")
    /\ UNCHANGED <<slot, holder, id, inTx, cancelled, database, job, fresh, failed, seen,
                   opened, db, killed, status, closing, cancels, runs,
                   picked, flagged>>

Connect(p) ==
    /\ pc[p] = "connect" /\ opened < MaxConns
    /\ opened' = opened + 1
    /\ live' = TRUE /\ tx' = FALSE /\ db' = "home" /\ killed' = FALSE /\ status' = FALSE
    /\ Goto(p, "store")
    /\ UNCHANGED <<editor, job, fresh, failed, seen, closing, cancels, bounds, history>>

ConnectFails(p) ==
    /\ pc[p] = "connect"
    /\ Release(p, "idle")
    /\ UNCHANGED <<slot, held, id, inTx, cancelled, database, job, seen, server,
                   closing, cancels, bounds, history>>

StoreId(p) ==
    /\ pc[p] = "store"
    /\ id' = opened /\ held' = opened /\ fresh' = TRUE
    /\ Goto(p, "check")
    /\ UNCHANGED <<slot, holder, inTx, cancelled, database, job, failed, seen, server,
                   closing, cancels, bounds, history>>

\* The body starts: a script clears the cancel mark first, a button sends.
EnterBody(p) == Goto(p, IF job[p].console THEN "clear" ELSE "send")

\* Mutant: the slot is only looked at once, before the connection opens.
LookOnce(p) ==
    /\ pc[p] = "check"
    /\ IF fresh THEN Goto(p, "restore") ELSE EnterBody(p)
    /\ UNCHANGED <<editor, job, fresh, failed, seen, server, closing, cancels, bounds, history>>

\* Checked again with the connection to use already in id.
CheckSlot(p) ==
    /\ pc[p] = "check"
    /\ \/ /\ slot /\ fresh
          /\ Goto(p, "restore")
          /\ UNCHANGED <<holder, held, fresh, failed>>
       \/ /\ slot /\ ~fresh
          /\ EnterBody(p)
          /\ UNCHANGED <<holder, held, fresh, failed>>
       \/ /\ ~slot
          /\ held' = 0
          /\ Release(p, "idle")
    /\ UNCHANGED <<slot, id, inTx, cancelled, database, job, seen, server, closing, cancels,
                   bounds, history>>

\* Mutant: the new connection stays in the session's database.
StayInDefault == db' = db

\* The new connection goes back to the database a USE picked (no statement is
\* sent for the session's own database).
BackInDatabase ==
    /\ database = "other" => live
    /\ db' = IF live THEN database ELSE db

Reopened(p) ==
    /\ pc[p] = "restore" /\ BackInDatabase /\ ~inTx
    /\ EnterBody(p)
    /\ UNCHANGED <<editor, job, fresh, failed, seen, opened, live, tx, killed, status,
                   closing, cancels, bounds, history>>

\* The command fails with ROLLED_BACK: the mark was set when the connection
\* went.
TellRolledBack(p) ==
    /\ pc[p] = "restore" /\ BackInDatabase /\ inTx
    /\ inTx' = FALSE /\ owed' = "no"
    /\ Release(p, "idle")
    /\ UNCHANGED <<slot, held, id, cancelled, database, job, seen, opened, live, tx, killed,
                   status, closing, cancels, bounds, txn, picked, flagged>>

\* USE fails (the database was dropped, or the connection went again): the
\* command fails with its own message and nothing runs.
TellDatabaseGone(p) ==
    /\ pc[p] = "restore" /\ database = "other"
    /\ \/ ~live /\ UNCHANGED faults
       \/ live /\ faults < MaxFaults /\ faults' = faults + 1
    /\ database' = "home" /\ picked' = "home"
    /\ inTx' = FALSE /\ owed' = "no"
    /\ Release(p, "idle")
    /\ UNCHANGED <<slot, held, id, cancelled, job, seen, server, closing, cancels, runs,
                   txn, flagged>>

---------------------------------------------------------------------------
(* What runs inside EditorConn::run: run_script for a script, one statement  *)
(* for a button                                                              *)

\* A cancel that came with nothing running is forgotten.
Clear(p) ==
    /\ pc[p] = "clear"
    /\ cancelled' = FALSE /\ flagged' = FALSE
    /\ Goto(p, "next")
    /\ UNCHANGED <<slot, holder, held, id, inTx, database, job, fresh, failed, seen, server,
                   closing, cancels, bounds, owed, txn, picked>>

\* The mark is read before each statement of a script.
CheckMark(p) ==
    /\ pc[p] = "next"
    /\ failed' = cancelled
    /\ IF cancelled THEN Goto(p, "where") /\ killed' = FALSE
                    ELSE Goto(p, "send") /\ UNCHANGED killed
    /\ UNCHANGED <<editor, job, fresh, seen, opened, live, tx, db, status,
                   closing, cancels, bounds, history>>

Send(p) ==
    /\ pc[p] = "send"
    /\ killed' = FALSE
    /\ Goto(p, "reply")
    /\ UNCHANGED <<editor, job, fresh, failed, seen, opened, live, tx, db, status,
                   closing, cancels, bounds, history>>

\* Mutant: the mark isn't read again after a statement.
AfterUnchecked(p, ok) ==
    LET rest == Tail(job[p].todo)
        stop == ~ok \/ rest = <<>> IN
    /\ job' = [job EXCEPT ![p].todo = rest]
    /\ failed' = ~ok
    /\ Goto(p, IF ~job[p].console THEN "settle" ELSE IF stop THEN "where" ELSE "next")

\* After a statement of a script: stop on an error or a cancel, or go on; then
\* SELECT DATABASE() is sent.  After a button's statement: settle.
AfterStatement(p, ok) ==
    LET rest == Tail(job[p].todo)
        stop == ~ok \/ cancelled \/ rest = <<>> IN
    /\ job' = [job EXCEPT ![p].todo = rest]
    /\ failed' = (~ok \/ (job[p].console /\ cancelled))
    /\ Goto(p, IF ~job[p].console THEN "settle" ELSE IF stop THEN "where" ELSE "next")

\* The statement succeeds.  KILL QUERY ends some statements without an error.
ReplyOk(p) ==
    /\ pc[p] = "reply" /\ live
    /\ LET s == Head(job[p].todo) IN
       /\ tx' = TxAfter(s) /\ status' = TxAfter(s)
       /\ db' = DbAfter(s) /\ txn' = Fate(s)
    /\ killed' = FALSE
    /\ AfterStatement(p, TRUE)
    /\ UNCHANGED <<editor, fresh, seen, opened, live, closing, cancels, bounds,
                   owed, picked, flagged>>

\* The server answers with an error, which carries no transaction flag; or the
\* connection is gone and there is no answer.
ReplyFails(p) ==
    /\ pc[p] = "reply"
    /\ status' = (status /\ ~live)
    /\ killed' = FALSE
    /\ AfterStatement(p, FALSE)
    /\ UNCHANGED <<editor, fresh, seen, opened, live, tx, db, closing, cancels, bounds, history>>

\* The end of run for a button.  A failed statement is followed by a ping; a
\* connection that doesn't answer is dropped and the mark stays.
Settle(p) ==
    /\ pc[p] = "settle" /\ (failed => live)
    /\ status' = IF failed THEN tx ELSE status
    /\ inTx' = status'
    /\ Release(p, "idle")
    /\ UNCHANGED <<slot, held, id, cancelled, database, job, seen, opened, live, tx, db, killed,
                   closing, cancels, bounds, history>>

\* Mutant: a connection that went with the command takes the mark along.
SettleForgets(p) ==
    /\ pc[p] = "settle" /\ failed /\ ~live
    /\ held' = 0 /\ inTx' = FALSE
    /\ Release(p, "idle")
    /\ UNCHANGED <<slot, id, cancelled, database, job, seen, server, closing, cancels,
                   bounds, history>>

SettleLost(p) ==
    /\ pc[p] = "settle" /\ failed
    /\ \/ ~live /\ UNCHANGED faults
       \/ live /\ faults < MaxFaults /\ faults' = faults + 1
    /\ held' = 0
    /\ EndSession
    /\ Release(p, "idle")
    /\ UNCHANGED <<slot, id, inTx, cancelled, database, job, seen, opened, db, killed, status,
                   closing, cancels, runs, picked, flagged>>

\* Mutant: the mark is only refreshed after a script that succeeded.
WhereMarksSuccess(p) ==
    /\ pc[p] = "where" /\ live
    /\ seen' = [seen EXCEPT ![p] = db]
    /\ status' = tx /\ inTx' = (IF failed THEN inTx ELSE tx)
    /\ picked' = db
    /\ Release(p, "note")
    /\ UNCHANGED <<slot, held, id, cancelled, database, job, opened, live, tx, db, killed,
                   closing, cancels, bounds, owed, txn, flagged>>

\* The end of run for a script, whose own error travels inside an Ok: the
\* database is read, the mark takes the last reply's flag, and the connection
\* is released.  Without an answer the database isn't noted.
WhereAnswers(p) ==
    /\ pc[p] = "where" /\ live
    /\ seen' = [seen EXCEPT ![p] = db]
    /\ status' = tx /\ inTx' = tx
    /\ picked' = db
    /\ Release(p, "note")
    /\ UNCHANGED <<slot, held, id, cancelled, database, job, opened, live, tx, db, killed,
                   closing, cancels, bounds, owed, txn, flagged>>

WhereFails(p) ==
    /\ pc[p] = "where" /\ (killed \/ ~live)
    /\ status' = (status /\ ~live)
    /\ inTx' = status'
    /\ picked' = IF live THEN db ELSE picked
    /\ Release(p, "idle")
    /\ UNCHANGED <<slot, held, id, cancelled, database, job, seen, opened, live, tx, db, killed,
                   closing, cancels, bounds, owed, txn, flagged>>

\* note_database, after run has released the connection.
Note(p) ==
    /\ pc[p] = "note"
    /\ database' = seen[p]
    /\ Goto(p, "idle")
    /\ UNCHANGED <<slot, holder, held, id, inTx, cancelled, job, fresh, failed, seen, server,
                   closing, cancels, bounds, history>>

---------------------------------------------------------------------------
(* ServerDriver::close *)

CloseSlot ==
    /\ closer = "open"
    /\ slot' = FALSE /\ closer' = "slot"
    /\ UNCHANGED <<holder, held, id, inTx, cancelled, database, locals, server, killId, pool,
                   cancels, bounds, history>>

CloseReadId ==
    /\ closer = "slot"
    /\ killId' = id /\ closer' = "id"
    /\ UNCHANGED <<editor, locals, server, pool, cancels, bounds, history>>

CloseTakePool ==
    /\ closer = "id"
    /\ pool' = FALSE /\ closer' = "pool"
    /\ UNCHANGED <<editor, locals, server, killId, cancels, bounds, history>>

\* Mutant: KILL QUERY, which leaves the rest of a script running.
CloseKillsQuery ==
    /\ closer = "pool"
    /\ closer' = "killed"
    /\ killed' = (killed \/ (live /\ killId = opened /\ Executing))
    /\ UNCHANGED <<editor, locals, opened, live, tx, db, status, killId, pool, cancels, bounds,
                   history>>

\* KILL CONNECTION reaches the server.
CloseKill ==
    /\ closer = "pool"
    /\ closer' = "killed"
    /\ IF live /\ killId = opened
         THEN EndSession
         ELSE UNCHANGED <<live, tx, txn, owed>>
    /\ UNCHANGED <<editor, locals, opened, db, killed, status, killId, pool, cancels, bounds,
                   picked, flagged>>

\* No pool connection, or no answer within KILL_TIMEOUT.
CloseGivesUp ==
    /\ closer = "pool"
    /\ closer' = "gaveUp"
    /\ UNCHANGED <<editor, locals, server, killId, pool, cancels, bounds, history>>

---------------------------------------------------------------------------
(* Console::cancel *)

CancelMark(x) ==
    /\ cancelPc[x] = "idle"
    /\ cancelled' = TRUE
    /\ cancelPc' = [cancelPc EXCEPT ![x] = "flagged"]
    /\ flagged' = (flagged \/ (/\ holder # NoCommand /\ job[holder].console
                              /\ pc[holder] \in {"next", "send", "reply"}))
    /\ UNCHANGED <<slot, holder, held, id, inTx, database, locals, server, closing, cancelId,
                   bounds, owed, txn, picked>>

CancelReadId(x) ==
    /\ cancelPc[x] = "flagged"
    /\ cancelId' = [cancelId EXCEPT ![x] = id]
    /\ cancelPc' = [cancelPc EXCEPT ![x] = "aimed"]
    /\ UNCHANGED <<editor, locals, server, closing, bounds, history>>

\* A connection of the pool, unless the session was closed or none can be had.
CancelConnect(x) ==
    /\ cancelPc[x] = "aimed"
    /\ \E l \in {"done"} \cup (IF pool THEN {"connected"} ELSE {}) :
         cancelPc' = [cancelPc EXCEPT ![x] = l]
    /\ UNCHANGED <<editor, locals, server, closing, cancelId, bounds, history>>

\* KILL QUERY reaches the server: it interrupts what the connection executes
\* now, and does nothing to an idle connection.
CancelKill(x) ==
    /\ cancelPc[x] = "connected"
    /\ cancelPc' = [cancelPc EXCEPT ![x] = "done"]
    /\ killed' = (killed \/ (live /\ cancelId[x] = opened /\ Executing))
    /\ UNCHANGED <<editor, locals, opened, live, tx, db, status, closing, cancelId, bounds, history>>

---------------------------------------------------------------------------
(* The specification *)

\* What a command does, but for a statement the server may take forever over.
Progress(p) ==
    \/ TakeLock(p) \/ PingAnswers(p) \/ PingFails(p) \/ Connect(p) \/ ConnectFails(p)
    \/ StoreId(p) \/ CheckSlot(p) \/ Reopened(p) \/ TellRolledBack(p) \/ TellDatabaseGone(p)
    \/ Clear(p) \/ CheckMark(p) \/ Send(p) \/ Settle(p) \/ SettleLost(p)
    \/ WhereAnswers(p) \/ WhereFails(p) \/ Note(p)
    \/ ((~live \/ killed) /\ ReplyFails(p))

Close  == CloseSlot \/ CloseReadId \/ CloseTakePool \/ CloseKill \/ CloseGivesUp
Cancel(x) == CancelMark(x) \/ CancelReadId(x) \/ CancelConnect(x) \/ CancelKill(x)
Server == Lose \/ LoseReply \/ Disconnect

Next ==
    \/ \E p \in Commands : Start(p) \/ Progress(p) \/ ReplyOk(p) \/ ReplyFails(p)
    \/ \E x \in Cancels : Cancel(x)
    \/ Close
    \/ Server

Spec == Init /\ [][Next]_vars

\* Tasks are polled until they end; the server answers pings and SELECT
\* DATABASE(), but may execute a statement of a script forever.  Nobody has to
\* start, cancel or close anything, and nothing has to be lost.
FairSpec ==
    /\ Spec
    /\ \A p \in Commands : WF_vars(Progress(p))
    /\ \A x \in Cancels : WF_vars(CancelReadId(x) \/ CancelConnect(x) \/ CancelKill(x))
    /\ WF_vars(CloseReadId \/ CloseTakePool \/ CloseKill \/ CloseGivesUp)

---------------------------------------------------------------------------
(* Properties *)

\* A command's body starts.
Enters(p) == pc[p] \in Preparing /\ pc'[p] \in Body

\* Once close() has killed the connection it read the id of, no command body
\* runs on a live connection: not the one killed, and not one that a command
\* opened again while the session was closing (editor.rs: run, close;
\* driver.rs: close).
NothingRunsAfterClose ==
    closer = "killed" => ~(live /\ holder # NoCommand /\ pc[holder] \in Body)

\* A connection that went with a marked transaction makes a command fail
\* before any statement runs on the connection opened in its place (run).
LossIsToldFirst ==
    [][\A p \in Commands :
          live /\ pc[p] = "send" /\ pc'[p] = "reply" => owed # "owed"]_vars

\* A script that a cancel marked before its last statement was answered never
\* reports success, however its statements ended and whatever was queued
\* behind it (run_script, cancel).
CancelIsReported ==
    [][\A p \in Commands :
          pc[p] = "reply" /\ pc'[p] = "where" /\ flagged => failed']_vars

\* With nobody on the connection the transaction mark says what the server
\* would (run, in_transaction).
MarkFollowsServer == holder = NoCommand /\ live /\ held = opened => inTx = tx

\* A body starts in the database the last script left the editor in, also on
\* a connection opened again (run, execute, note_database).
BodiesStartInPickedDatabase ==
    [][\A p \in Commands : Enters(p) /\ live => db' = picked]_vars

\* The close that killed the connection ends every command, one that waits
\* and one whose statement would never end alike (run, close).
CloseEndsCommands == closer = "killed" ~> \A p \in Commands : pc[p] = "idle"

\* The inductive invariant behind NothingRunsAfterClose.

\* A command is past the lock exactly while it is the lock's holder.
LockInv == \A p \in Commands : pc[p] \in Holding <=> holder = p

\* There is a statement left wherever the code takes the next one.
JobInv ==
    \A p \in Commands :
        pc[p] \in {"wait", "clear", "next", "send", "reply"} \cup Preparing => job[p].todo # <<>>

\* The id is the latest connection's but for a command about to store it; a
\* command past its second look at the slot is on the connection close() aims
\* at, and once that was killed the connection is dead.
CloseInv ==
    /\ closer # "open" => ~slot
    /\ id = opened \/ \E p \in Commands : pc[p] = "store"
    /\ \A p \in Commands : pc[p] \in Body \cup {"restore"} =>
          /\ closer \in {"id", "pool"} => killId = opened
          /\ closer = "killed" => ~live

IInv == TypeOK /\ LockInv /\ JobInv /\ CloseInv

\* What the messages say and the code does not always do.

\* The "rolled back" error is only given for a transaction that was rolled
\* back (ROLLED_BACK, run).
RolledBackIsTrue == [][\A p \in Commands : TellRolledBack(p) => txn = "rolled"]_vars

=============================================================================
