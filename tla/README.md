# DBunny: a model of its concurrent core

DBunny is a desktop client for PostgreSQL, MySQL, MariaDB and SQLite with an AI
assistant: a Rust backend (Tauri, `src-tauri/src`) whose commands run as
concurrent tasks, and a React interface (`web/src`).  This project models the
parts of it where tasks, servers, processes and files interleave.

Paths below are under `src-tauri/src` unless they start with `web/`.

## The system

| Component | State it keeps | Operations | What is hard | What makes it correct |
|---|---|---|---|---|
| Session table (`commands/state.rs`, `commands/connect.rs`) | open sessions by id | connect, disconnect, lookup by every command | a command keeps a driver the table already dropped | a closed session runs nothing new; never more than the limit |
| MySQL/MariaDB editor connection (`db/mysql_common/editor.rs`, `console.rs`, `transactions.rs`, `driver.rs`) | one connection in a slot, its id, the transaction mark, the cancel mark, the picked database | run (scripts, buttons, plans), cancel, close | reconnecting, lost replies, kills that travel on another connection, a close in the middle | a lost transaction is told before anything runs; nothing runs after the close; cancelled scripts fail |
| PostgreSQL session (`db/postgres/session.rs`, `console.rs`, `transactions.rs`, `reader.rs`) | main, editor, transaction and reader connections, the link, shared notices | client, editor_client, begin, commit, rollback, execute, cancel, explain, close | a lock per look and none across waits: everything read is stale | one transaction at most; its statements all or none; a closed session stays closed |
| SQLite session (`db/sqlite/conn.rs`, `console.rs`, `transactions.rs`, `reader.rs`) | two connections and a reader behind blocking mutexes, a note of the open transaction, the cancel mark | execute, cancel, begin/commit/rollback, saves, reads, close | interrupts that SQLite forgets or that hit the next statement; a lazily opened reader | a cancel stops the script it was meant for; the note names the holder |
| Assistant lifecycle (`assistant/mod.rs`, `agent.rs`) | the running agent and tool server, a status, a count of shutdowns | start, restart, shutdown, authenticate, sign out, the agent leaving | one process per start, its reader outliving it, statuses set after awaits | the status shown is true of the agent that runs; no agent outlives the app |
| Assistant conversations and tools (`assistant/conversation.rs`, `approvals.rs`, `tools.rs`, `mcp.rs`) | conversations, pending approvals, reads allowed | open, prompt, tool call, approve, decline, close | a call that outlives its conversation; approvals nobody can answer any more | no query without approval; every call is answered |
| Saved connections (`commands/storage.rs`, `saved.rs`, `lib.rs`) | the key file, the connections file, the list in memory | load, migrate, save, delete | crashes between file operations | what was saved can be read after a crash, or is kept aside |
| SSH (`db/net/ssh.rs`) | the file of accepted host keys, tunnels | check, remember, open, drop | whole-file rewrites by concurrent attempts | a changed key is never accepted silently |
| Reads of the assistant (`db/*/reader.rs`) | a connection of their own (PostgreSQL, SQLite) or of the pool (MySQL, MariaDB) | read, plan, stop at a limit | a limit that races the answer, a kill aimed by an old id, a pool that is used up | every read ends; nobody else's statement is stopped |
| Table data (`db/sql/*`, `db/*/data.rs`) | none between commands | page, count, update, insert, delete, import | several statements, one of which fails; other clients meanwhile | edits are all or none where the engine allows it, and what is said of them is true |
| Structure (`db/*/alter.rs`, `db/sqlite/schema_edit.rs`, `db/*/objects.rs`) | none between commands | alter, rename, drop, duplicate | MySQL's MODIFY restates a whole column from its description | a change leaves everything it doesn't name |
| Interface (`web/src`) | tabs, panes, pending edits, the assistant panel | what the person does and what answers arrive | answers that arrive late or for another request | the screen shows the answer to the last request |

Commands reach a session through the session table (`AppState::driver` clones an
`Arc` and releases the table), so a command may hold a driver that `disconnect`
has already closed.  `disconnect` first closes the conversations of the session
(`Assistant::close_for_session`), then removes it from the table, then closes the
driver.  The assistant's tool server looks the session up on every call.  The
agent is a child process; its reader task and the commands of the interface
share the status, the conversations and the approvals.

## The modules

| Module | Models | Checked by | Proved in |
|---|---|---|---|
| `MysqlEditor` | the MySQL/MariaDB editor connection, its scripts and buttons, cancel, close | `MCMysqlEditor` | `MysqlEditorProofs` |
| `MysqlReader` | the assistant's reads over the pool of a MySQL/MariaDB session, their kill, the close of the pool | `MCMysqlReader` | `ReaderProofs` |
| `MysqlAlter` | changes of a table's columns on MySQL and MariaDB, the copy of a table | `MCMysqlAlter` | `MysqlAlterProofs` |
| `SqliteSession` | the editor's and the tables' connections of a SQLite file, scripts, cancel, transaction, saves, close | `MCSqliteSession` | `SqliteSessionProofs` |
| `SqliteReader` | the assistant's reads on SQLite, their time limit, the close | `MCSqliteReader` | `ReaderProofs` |
| `PgSession` | main, editor, transaction and plan connections of a PostgreSQL session, their reconnection, close | `MCPgSession` | `PgSessionProofs` |
| `RowEdits` | one edit of rows from the grid, on every engine, with failures and other clients | `MCRowEdits` | `RowEditsProofs` |
| `AssistantAgent` | the agent's process, its starts, its reader, its requests, its end | `MCAssistantAgent` | `AssistantProofs` |
| `AssistantTools` | conversations, the queries of the agent, approvals, everything that ends them, the removal of a session | `MCAssistantTools` | `AssistantProofs` |
| `SavedConnections` | the key, the connections file and the list in memory, with crashes | `MCSavedConnections` | `SavedConnectionsProofs` |
| `ConnectionStore` | what saving and deleting a connection promise: the abstract specification `SavedConnections` implements | `MCSavedConnections` | `SavedConnectionsProofs` |

In every module a task of the code is a process with a program counter (`pc`, `at`);
a step ends at an `await`, at the end of a critical section, and at an access to a
field that another task uses without a lock.  What the server, SQLite, the
network, the disk, the agent and the person do are actions of their own.
Definitions marked `Mutant:` are not part of the specification: each is a variation
of the definition next to it, with which one of the properties fails.

### MysqlEditor

`EditorConn` keeps one connection in `slot`/`held`, its server id in `id`, the
mark `inTx`, the cancel mark and the picked `database`.  A command takes the lock
(`TakeLock`), pings (`PingAnswers`, `PingFails`), reconnects (`Connect`,
`StoreId`), looks at the slot again (`CheckSlot`), goes back to the database and
tells of a lost transaction (`Reopened`, `TellRolledBack`, `TellDatabaseGone`),
and runs its body: a script with the mark read before and after each statement
and `SELECT DATABASE()` at its end, or one statement of a button.  `Note` runs
after the connection was released, as in `execute`.  `Close*` follows
`Driver::close` (slot, id, pool, KILL CONNECTION) and `Cancel*` follows
`Console::cancel` (mark, id, connection of the pool, KILL QUERY).  The server has
a session per connection, with a transaction and a database; `Lose` and
`LoseReply` break the connection before or after the running statement took
effect.

Left out or merged: the rows and errors themselves; a deadlock that rolls a
transaction back; a `BEGIN` inside a transaction commits the first one, as the
server does.  After a failed statement the client's last status flag is
cleared, so a transaction lost between that statement and `SELECT DATABASE()` is
not told (`owed = "masked"`: the properties excuse it because the code has no way
to know).  A KILL QUERY that lands on `SELECT DATABASE()` clears the mark while the
transaction is open; `MarkFollowsServer` is checked without cancels for that
reason.

### SqliteSession

Each connection is behind a mutex (`holder`, `tholder`) that a blocking task
keeps from its first statement to its last; the cancel mark, the transaction
note and the interrupt are used without it.  The file's write lock (`lock`) is
held by the editor, by the tables or by another program.  A deferred `begin`
locks nothing until it writes; saves begin immediate and give up when the file stays
busy, and then put the reason in words (`Describe`) from the note as it is at that
moment.  Only reads and writes can be interrupted; an interrupted write inside a
transaction rolls it back, as SQLite does.  The saves of temporary tables run on
the editor's connection (`kind = "save"`).

`NoteFollowsTransaction` states that the note follows the transaction but while a
task runs; it is proved, no run lists it, and `BusySaveNamesEditor` says what depends
on it.

### SqliteReader

The lazily opened third connection (`cell`, a `OnceCell` somebody is opening or
not), the mutex, the reads waiting for it, and each read's interrupts, repeated
until its task ends because SQLite forgets an interrupt that finds no statement.
`ClosedReaderAnswersNothing` is about a reader that the close found open; the other
case is below.

### MysqlReader

A read takes a connection of the pool (`Gets`), keeps it from its first statement to
its last (`held`), and notes its id at once (`id`).  One that is cut at the row limit,
or whose client waited past its limit, takes a second connection of the same pool
(`killer`), sends KILL QUERY with that id and drops its own.  `Users` are the other
commands of the session; `close` marks the pool, lets waiters fail and takes a
connection of its own to kill the editor's.  `running` is whose statement the server
executes on each connection, which outlives the client's wait.

### MysqlAlter

A column is kept as the server keeps it (`Columns`: type, collation, default,
generation, EXTRA, comment, check); `Described` is what `information_schema` says of
it on either flavour, `Normalized` and `Definition` what the code reads into a
`ColumnDefinition`, `DefinitionSql` what a MODIFY made of it yields.  A structure
change is read, then run; another client may change the table in between.  Indexes,
constraints, privileges and the other structure changes are one statement each.

A copy (`duplicate`) creates (`Created`), fills (`Filled`) and, when filling fails
(`NotFilled`), drops (`DropCopy`).  Any of the three may fail, the DROP too, whose error
the code ignores (`DropFails`), and the connection may be lost under a CREATE
(`CreateLost`) or an INSERT (`CopyLost`) that took effect or not.  `target` is what has
the copy's name: a session's copy without its rows is `half`, so one that was left is
told from a whole one when the copy is tried again.  `left` remembers that a copy's DROP
failed or its connection was lost.

### RowEdits

An edit runs its statements one after another, in a transaction where the table can
undo one (`Undoes`), checks how many rows each matched, and goes back or says how
far it came.  Rows are found by the key the grid read; two rows may share one
(`KeyOf`).  `present`, `done` and `kept` are the rows found, written in the open
transaction and written to stay; other clients (`touched`) act between any two
statements.  What rows hold, the SQL text and the pages are left out.

### PgSession

The session's lock is never kept across an await, so each look is one step and
what it returns may be stale in the next.  `Look*`, `Lock*`, `Open*`, `Store*` and
`TellLost` are `client`, `editor_client` and `open_editor` with the reconnect lock;
`Begin`, `StoreTransaction`, `TakeTransaction`, `Probe`, `Commit` and `Rollback` the
buttons; `SetSavepoint`, `Plan` and `Undo` EXPLAIN ANALYZE.  The server has a block
(`none`, `open`, `failed`) per connection and the effects waiting in it.  A dropped
client closes its connection (`Drop`).  A lost COMMIT reply is not distinguished
from a COMMIT that never arrived; EXPLAIN without ANALYZE, a COMMIT typed while the
script runs on the button's transaction, the shared list of notices, the cancel,
the tunnel and the saves, which have a connection of their own, are not modelled.
Properties said to hold "alone on the connection" leave out the connections that two
commands had at the same time (`crossed`): the code lets a script that found the
transaction go on while a button takes it.

### AssistantAgent

Each command (`start`, `restart`, `exit`, `login`, `turn`) is a record with its place,
the agent it holds and the count of shutdowns it saw.  A start holds `starting` from
beginning to end; `running` is swapped in one step.  A request is checked, inserted,
checked again and waits, as in `Shared::request`; the reader of each agent drains what
is pending when its output closes, and tells of it unless the agent was being shut
down.  An agent may die at any moment.  The tool server goes with the agent; the log
shown during a start and the exact status are left out.

### AssistantTools

A conversation goes from `looked` (the agent and the session were found) through
`setup` and `ready` to `gone`; it is in `Conversations.items` in between.  A call
finds its session, reads `reads_allowed`, puts its request in `pending` (`waiting`), waits, and
runs its query.  `CloseChat`, `Disconnect`, `SignOutTakes` take a conversation out
in one critical section and `Decline` turns its requests down in another, with
anything in between; `AgentLeaves` goes over the conversations that are there.  A
driver's answer to a query is the driver's matter (see `SqliteReader` for one).
Only calls that need an approval are modelled: `run_query` and
`explain_query` with ANALYZE; the catalog tools run nothing.  One agent is
modelled, from the first conversation to its end; opening sessions and their
limit are not.

### SavedConnections and ConnectionStore

The app starts (`key`, `making`, `loading`, `migrating`), serves saves and deletes one
at a time, as the lock of the list makes it, and may be killed between any two steps
of it.  Each write is a temporary file and a rename; each may fail.  The disk may
spoil the key file or the connections file while the app is off.  An entry is the key
it is encrypted under.  A file that can't be read is moved aside; when that fails too
the run goes on with an empty list (`blind`) and its next save writes over the file.
`ConnectionStore` has only what is saved, the command under way and `blind`; the
refinement maps `saved` to the ids in a readable file.

## What is checked

All runs: `tlc -config <cfg> MC<module>`.  Deadlock is not checked: when the bounds
are used up, or everything is closed, these systems rest.

| Run (cfg) | Bounds | Shows |
|---|---|---|
| `mysql_cancel` (`MysqlEditor_cancel`) | 2 commands, 1 cancel, 2 connections, 2 runs, 1 fault | nothing runs on a live connection once the close killed it; a cancelled script never reports success; the close ends every command |
| `mysql_loss` (`MysqlEditor_loss`) | 1 command 4 times, 3 connections, 2 faults, every kind of statement | the mark follows the server; a lost transaction is told first; a new connection is in the picked database |
| `mysql_reads` (`MysqlReader_reads`) | 2 reads, 2 other commands, a pool of 3, 6 connections | a KILL QUERY stops its own read's statement or nothing; every read ends |
| `mysql_pool_stuck` (`MysqlReader_pool`) | 2 reads, 1 other command, a pool of 2 | a violation: see below |
| `mysql_alter` (`MysqlAlter_changes`) | every column the servers take, 2 names, 1 change or 2 copies under one name, 1 change of another client | a change leaves everything it doesn't name; a copy takes no table's name, is whole when it answers Ok, and is left behind only where its DROP failed too or the connection was lost |
| `sqlite_editor` (`SqliteSession_editor`) | 2 tasks, 1 save, 1 cancel, 3 runs, another program | nobody leaves the file locked, a save leaves the transaction alone and names the right holder, a cancel stops and ends the script it finds |
| `sqlite_reads` (`SqliteReader_reads`) | 3 reads, 2 attempts to open | every read ends by its limit; a closed reader answers nothing |
| `pg_tabs` (`PgSession_tabs`) | 2 tasks, 3 commands of any kind, 4 connections, 1 loss | one transaction at most, losses told, commits true, plans leave nothing, a close lets everything go |
| `row_edits` (`RowEdits_edits`) | 3 keys, 4 rows of which two share one, batches of 2, up to 3 items, 2 rows touched by others | an edit is whole or nothing where the table can undo; what the person is told is true |
| `assistant_lifecycle` (`AssistantAgent_lifecycle`) | 2 commands at a time, 3 in all, 2 agents | one agent at most, none forgotten, no request left waiting, an overtaken start undone, every command ends |
| `assistant_calls` (`AssistantTools_calls`) | 2 calls, 2 conversations, 2 sessions, 2 endings | nothing runs unasked or turned down; whoever ends a conversation turns down what waits in it |
| `saved_connections` (`SavedConnections_crash`) | 2 connections, 3 keys, 2 spoiled files, any number of crashes | what was saved is in the file or kept aside, no key is thrown away, a run shows all its key opens; `ConnectionStore` is implemented |

The bounds are small but past what each hazard needs.  Two commands are enough
for one to hold the connection and another to wait or to change what the first
read; three runs let a transaction be begun, lost and met by a third command; two
connections of MySQL (three without concurrency) are the lost one and the one
opened instead; four of PostgreSQL are the main, the editor's, the
transaction's and one opened again.  A pool of three lets two reads kill at once,
or one kill while its old connection is handed on; one of two is the smallest
that two reads use up.  Three items in batches of two make an edit of two
statements, the first of several rows.  A start, a restart and an exit are three
calls, and the second agent is the one that replaces the first.  One column change
is enough because the first state takes every valid column: a second starts from
one of them.  Changes and copies share no variable and no table, so the constraint
`Apart` of `MCMysqlAlter` follows the one or the other, and the copies from one table;
the second copy is the one that meets what the first left.  Two spoiled files are a key and the connections file, or the key
twice; the third key is the one made after both.  Two endings let any two of close,
disconnect, sign-out and the agent's death overlap; every run reaches each action.
Symmetry is only used where no liveness property is checked.

Some properties are stated in a module and listed in no run.  To check one, add it to
the module's cfg.  `NoteFollowsTransaction` (`SqliteSession`), `ReconnectsOnce`
(`PgSession`) and `MemoryIsTheFile` (`SavedConnections`) hold, and are proved.
`RolledBackIsTrue` (`MysqlEditor`), `ClosedSessionAnswersNothing` (`SqliteReader`),
`CommitSaves` (`PgSession`) and `AgentGoesWithTheApp` (`AssistantAgent`) fail: they are
what a comment says, and are told below.  Every `TypeOK` and, where there is one,
`IInv` holds as well.

### Fairness

The tasks of the runtime are polled until they end, so each module with liveness
gives weak fairness to a task's own steps.  Fairness never covers the person
(starting, cancelling, closing), faults, or a statement of the person's that may
take forever: those only end by an interrupt, a kill or a lost connection.  In
`MysqlEditor` pings and `SELECT DATABASE()` answer or time out (`PING_TIMEOUT`,
`KILL_TIMEOUT`).  In `SqliteReader` `Interrupt` is fair because
`read_unchecked` repeats it from a timer.  In `MysqlReader` the client's limit ends
the wait for a statement the server never answers; the server answers a KILL QUERY
and the other commands' statements.  In `AssistantAgent` the handshake has a timeout
and a reader goes on once its agent is dead; an agent that lives owes nobody an
answer, so a login or a turn may wait for one.  In `PgSession` a statement answers or
fails, and a dropped client closes its connection (`Drop`).  Weak fairness is
enough: a step that is enabled for a task stays enabled until it takes it, except for
the mutexes and locks, where the properties hold however they are passed on.

## What the code does not do

`mysql_pool_stuck` shows that a statement of a test is not always kept.  `kill_query`
(`db/mysql_common/reader.rs:102`) waits without a limit for another connection of the
pool while its read keeps one.  When as many reads as the pool has connections
(`POOL_MAX`, 4) are cut or time out together, each waits for the others and every
command of the session waits with them, until it is closed; "The session still works
afterwards" (`reader.rs:226`) holds for fewer.

Others were met while modelling and have no run.  The models have the behaviour, and
their properties say which case they leave out.

- MySQL: a database is noted after the connection was released, so another tab's
  script may reconnect to an older one (`console.rs:225`); a KILL QUERY that arrives
  late stops a statement of the next command (`console.rs:232-238`); a COMMIT whose
  reply was lost is reported as "rolled back" (`editor.rs:127`); a `USE` that fails
  after a reconnection hides the lost transaction (`editor.rs:30-31`); a close between
  the second look at the slot and the `USE` lets the `USE` fail with another message
  (`editor.rs:163-164`).
- SQLite: a script that starts to wait clears the mark of the cancel meant for the
  running one (`console.rs:129`); a cancel after the last look at the mark reports
  nothing (`console.rs:185`), its interrupt may stop the next task's statement
  (`console.rs:186-187`); a busy save may name the wrong holder when it changes before
  the error is put in words (`data.rs:214`), or when a BEGIN IMMEDIATE has the file's lock
  and is not noted yet; the close leaves an unopened reader, and a
  later read opens it (`mod.rs:109`); one read's limit interrupts another read
  (`reader.rs:33`).
- PostgreSQL: a statement that fails between the probe and the COMMIT makes a rolled
  back commit answer Ok (`transactions.rs:76`); two plans in a transaction share a
  savepoint's name (`console.rs:275`); a COMMIT typed in the button's transaction
  leaves the session saying it is open; the notices of two runs mix
  (`console.rs:190`); the cancel aims at the transaction's connection while a script
  runs on the editor's own (`console.rs:242`); a begin replaces a lost transaction
  before anybody was told; a lost reply of COMMIT is reported as "nothing was saved".
- Edits on MySQL: "Nothing was saved" is said of a table that can't undo when the
  first statement wrote several rows and failed (`data.rs:221`) and after a COMMIT
  whose reply was lost (`data.rs:227`); a view over such a table counts as one that
  can undo (`data.rs:35`); a delete doesn't refuse, as SQLite's does, when it matched
  more rows than were chosen.
- Structure on MySQL: MODIFY loses INVISIBLE of a generated column and the CHECK of a
  MariaDB column (`alter.rs:161-195`), which `Forgotten` names; what another client
  changed between the read and the MODIFY is taken back (`alter.rs:535`); a constraint
  is looked up by its name alone (`alter.rs:538`).  "A copy that fails halfway is dropped
  again" (`objects.rs:62`), but the error of the DROP is ignored (`objects.rs:76`): one
  the server refuses, to a person who may create and insert but not drop, or gives up
  waiting for a lock, leaves the half copy, and the message only tells of the INSERT.
  A CREATE or an INSERT whose answer was lost leaves a copy as well, and the next try
  fails because the name is taken.  `CopiesOnlyAdd` names these cases (`left`).  The DROP
  takes a table that another client gave the name meanwhile.
- Saved connections: a file that can neither be read nor moved aside is written over
  by the next save (`commands/storage.rs:245`).
- Assistant: an app that exits while an agent is being launched leaves it running
  (`lib.rs:153-155`); the agent may die between its handshake and the Ready that
  `start` sets (`mod.rs:240`); a conversation that was being opened outlives the session
  that disconnected meanwhile, although "its conversations end with it"
  (`mod.rs:314`, `429`), and one created during a sign-out survives it (`mod.rs:451`);
  a call that asks for approval after its conversation was taken out waits for good
  (`tools.rs:155`).  The properties of `AssistantTools` are about the calls that asked in
  time (`inTime`).

## What is proved

The theorems hold for any number of tasks, calls, connections, rows and keys, and any
bounds; the constants' assumptions only say that the null values are nobody's, that
bounds are naturals, that a job is one that its command can have and has a statement
where it needs one, and that sets of rows and reads are finite.  Four theorems have a
hypothesis of their own, told where they are listed; each is true of the run that
checks the property.  In each proof module `TypeCorrect` is the type invariant and
`Invariance` the inductive invariant `IInv`, shown by one step per action; the rest
follows from it.  Hardly any of the properties below is inductive as it stands.  TLC
finds every part of these invariants true on the runs' instances.

`AssistantProofs` and `ReaderProofs` each extend two modules that share nothing, so
`AssistantTools` and `SqliteReader` give what every module has a name of their own
(`ToolsInit`, `ToolsNext`, `ToolsInv`, `SqliteInit`, ...).

### The editor's sessions

- `MysqlEditorProofs`.  `CloseStopsEverything` (`NothingRunsAfterClose`):
  `IInv` adds that the lock has one holder (`LockInv`), that a statement is left
  wherever the code takes one (`JobInv`), and `CloseInv`: `id` is the latest
  connection's but for a command about to store it, and a command past its second
  look is on the connection the close aims at.  That is why the code looks at the
  slot twice and stores the id before the second look.

  `LossIsTold` (`LossIsToldFirst`) and `CancelReported` (`CancelIsReported`) need
  `LossInv`: a loss is only owed while the mark stands (`OwedMarked`); on a connection
  that works, only by a command that has just opened it (`OwedWaits`); and a command
  whose connection broke under it reads no flag that would take the mark away
  (`OwedFails`).  A script that a cancel caught is still marked, because only a
  script clears the mark and it has the lock (`FlagInv`).

  `MarkIsTrue` (`MarkFollowsServer`) supposes that nothing is cancelled: a KILL QUERY
  that lands on `SELECT DATABASE()` leaves an empty mark (see above).
  `StartsInPickedDatabase` (`BodiesStartInPickedDatabase`) supposes that, and one
  command at a time: two can note their databases in either order, which is among the
  things the code does not do.  Both rest on `ReopenedInv`: a connection opened again is in
  no transaction and still in its own database until its command goes back to the
  picked one.
- `PgSessionProofs`.  Everything a command knows of a connection is what it read
  before its last wait, so what has to be shown is that nobody else was on it.
  `Bystander` is that lemma: a step leaves the block, what waits in it and the
  savepoint of every other command's connection alone, unless that connection is
  crossed (`CrossInv`).  `FreshInv` and `TransInv` say whose
  a connection is: one just opened is known to nobody else, and the session's
  transaction only to those that joined it.  From these
  `CommitsAreTrue` (`CommitIsTrue`): a COMMIT finds the block as the probe did;
  `PlansAreNeverSaved` (`ExplainLeavesNothing`) and `PlansKeepWork`
  (`ExplainKeepsWork`): the savepoint has the work and nothing of the plan
  (`ReadyInv`), and the plan's effects wait only where `Undo` is still to come
  (`UndoneInv`); `RunsStayInside` (`RunsStayInTransaction`), for scripts that type no
  COMMIT and no ROLLBACK (`PlainRuns`), since one that does ends the block itself.
  `TransactionIsKept` (`NoTransactionIsReplaced`) follows from the looks at the
  session, `MainIsReconnectedOnce` (`ReconnectsOnce`) from the reconnect lock: who has
  it has found the main connection lost, and nobody else puts one in its place
  (`MainInv`).  `LossIsTold` (`LossIsToldFirst`): what is owed is the session's lost
  transaction (`OwedInv`), and every look that could give a run another connection
  finds it.
- `SqliteSessionProofs`.  `FileIsLetGo` (`NobodyKeepsTheFile`) and `SavesAreTheirOwn`
  (`SavesLeaveTransaction`): `IInv` has one holder for each connection (`HolderInv`),
  ties the file's lock to the transaction that took it (`LockInv`), and follows a
  temporary table's save through its three statements (`SaveInv`): once its BEGIN
  succeeded the transaction is not one that was typed, and before it nothing is
  rolled back.  `CancelsStop` (`CancelStopsScript`): the mark of a cancel that found a
  script stays until another script is asked for.  `NoteIsTrue`
  (`NoteFollowsTransaction`) is inductive with the holders.  `BusySavesNameEditor`
  (`BusySaveNamesEditor`) supposes that no script types BEGIN IMMEDIATE and that a
  button is one statement (`PlainJob`): BEGIN IMMEDIATE takes the file's lock before
  the note says so.

### Reads, edits and changes

- `ReaderProofs`.  `KillsOnlyItsOwn` (`KillsOwnStatement`) of `MysqlReader`.  `IInv`: a
  connection is in the pool, or one command's, or kills for one read (`ApartInv`), a
  read's id is of the connection it still has (`HeldInv`), and a statement runs where
  its command is (`RunInv`).  A read drops its connection only after the kill, so the
  id can't be another's yet.  `ClosedReaderIsSilent` (`ClosedReaderAnswersNothing`) of
  `SqliteReader`: a read has no task before it has the connection, and a reader that the
  close found stays closed (`LateInv`).
- `RowEditsProofs`.  `EditsAreWhole` (`AllOrNothing`) and `AnswersAreTrue`
  (`AnswerIsTrue`).  `Progress` says what the statements so far did (`Did`), item by item: each
  saved key once, each deleted key gone but where others touched it, each imported row;
  a COMMIT is only reached when all of them did, so the answer can be told from how far
  the edit came.
- `MysqlAlterProofs`.  `ColumnsAreRestated` (`OnlyWhatIsAsked`) and `CopiesTakeNoTable`
  (`CopiesOnlyAdd`).  The core is `RoundTrip`: a column that either server
  describes, read and restated, is the column again but for `Forgotten`; `ReadInv`
  keeps what was read the column's until another client changes it.  For the copies
  `CopyInv`: only a copy that found the name free comes to the INSERT and the DROP, and
  what it drops is its own.

### The assistant and what is saved

- `AssistantProofs`, the agent: `NoAgentIsForgotten`, `OneAgentAtATime`,
  `NobodyIsLeftWaiting`, `ShutdownIsSilent` and `OvertakenStartIsUndone`.  `StartInv`
  puts the mutex where the start is and empties `running` under it, `OwnInv` gives an
  agent one owner, `AskInv` says whom an agent owes an answer, which after its reader
  drained are only requests that will look again, and `ReaderInv` raises the flag before
  an agent is ended.
- `AssistantProofs`, the tools: `QueriesAreAllowed` (`NoQueryUnasked`,
  `TurnedDownStaysDown`), `WaitingIsDeclined` (`LeftHasDecliner`) and
  `ConversationsEndFirst` (`CallsEndBeforeSession`).  An answer never changes, because
  only a pending request is answered and it leaves `pending` with its answer; so what
  let a call go ahead still stands when its query runs (`AnswerInv`, with `CallInv` for
  the options of its conversation).  A call that asks in time is pending before the
  conversation can be taken out, so whoever takes it declines afterwards (`DeclineInv`).
- `SavedConnectionsProofs`: `ConnectionsSurvive`, `KeySurvives`, `EntriesAreShown`,
  `MemoryAgrees` and `Refinement` (`StoreSpec`: every step is one of `ConnectionStore` or a
  stutter).  `KeyInv`: a key is only made where there is none; `ListInv`: the list in
  memory is the file's but for a migration that could not be written, and during a
  command the copy to go back to is.

Only model-checked is all liveness (`CloseEndsCommands`, `CancelEndsScript`, `ReadsEnd`,
`ReadersEnd`, `CloseEndsConnections`, `CommandsEnd`), which is out of the proof system's
reach.  Outside their hypotheses the four theorems say nothing, and there the code does what
the section before tells.

## Not modelled

- Catalog reads, DDL text, values, plans, capabilities, administration, menus, texts
  and layout: one pass over data, no state between commands.  They are most of the
  code's lines.
- The assistant's reads on PostgreSQL (`db/postgres/reader.rs`): one connection behind
  a lock, `SqliteReader`'s shape with a server in the place of the file.
- The file of accepted host keys (`db/net/ssh.rs`): one function reads and rewrites it.
- The interface: its guard against a late answer is one comparison in a hook
  (`web/src/hooks/useTableData.ts:101`); pages, pending edits and the panel are state of
  one component each.
- Statement splitting and the reading classifier: pure functions over tokens.
- PostgreSQL's cancel, notices and tunnel; opening a session and the limit of the
  session table; the tool server's log listener (`assistant/mod.rs:222-226`).
- Two processes of the app on one key or connections file, a power loss that undoes a
  rename, two files moved aside in the same second, a hostname that changes, the
  assistant's folder that a delete removes.

## Plan

Done: the eleven modules above and their eight proof modules.  Next, in this order:

1. `PgReader` (`db/postgres/reader.rs`) and, in `PgSession`, the cancel and the notices.
2. `EditorSession`: what an editor session promises on every engine (a lost
   transaction is told, a commit is true, a closed session runs nothing), with
   `MysqlEditor` and `PgSession` shown to implement it where they do.
3. `KnownHosts`, `TablePage`, `AssistantPanel`.
4. Pure algorithms (statement splitting, the reading classifier) against reference
   definitions.

Theorems to come: that every answer of `MysqlEditor` and `PgSession` is one of
`EditorSession`, once that is written.
