---------------------------- MODULE SqliteReader ----------------------------
(***************************************************************************)
(* The assistant's reads on a SQLite session (sqlite/reader.rs): one       *)
(* connection that can't write, opened by the first read, behind the mutex *)
(* of SqliteConn; each read has a time limit of its own, past which it     *)
(* interrupts the connection until its task ends.  The session's close     *)
(* (sqlite/mod.rs) lets the connection go.                                 *)
(***************************************************************************)
EXTENDS Naturals

CONSTANTS
    Readers,   \* calls of read_unchecked
    Nobody,  \* nobody holds the connection
    MaxOpens \* bound: attempts to open the connection

ASSUME SqliteAssumption == Nobody \notin Readers /\ MaxOpens \in Nat

VARIABLES
    \* the OnceCell and the connection in it
    cell,        \* "unset", "opening" by a read, "open", or "closed"
    opener,      \* the read that opens it
    closed,      \* Driver::close ran and "found" the connection open, or "none"
    holder,      \* the task that has the connection's mutex
    interrupted, \* the running statement was interrupted
    \* a read: its future, and its task on the blocking threads
    at, task,
    expired,     \* its time limit passed
    opens,
    \* history, for the properties
    late         \* what close() had found when it was asked

sqliteVars == <<cell, opener, closed, holder, interrupted, at, task, expired, opens, late>>

\* Every variable keeps its type, somebody opens a connection that is being
\* opened, and the mutex's holder alone is on the connection.
SqliteTypeOK ==
    /\ cell \in {"unset", "opening", "open", "closed"}
    /\ opener \in Readers \cup {Nobody} /\ holder \in Readers \cup {Nobody}
    /\ closed \in {"no", "found", "none"} /\ interrupted \in BOOLEAN
    /\ at \in [Readers -> {"idle", "get", "run", "ok", "failed", "timedOut", "notFound"}]
    /\ task \in [Readers -> {"none", "wait", "start", "exec", "ended", "stopped"}]
    /\ expired \in [Readers -> BOOLEAN] /\ late \in [Readers -> {"no", "found", "none"}]
    /\ opens \in 0..MaxOpens
    /\ cell = "opening" <=> opener # Nobody
    /\ \A r \in Readers : task[r] \in {"start", "exec"} <=> holder = r

SqliteInit ==
    /\ cell = "unset" /\ opener = Nobody /\ closed = "no" /\ holder = Nobody
    /\ interrupted = FALSE
    /\ at = [r \in Readers |-> "idle"] /\ task = [r \in Readers |-> "none"]
    /\ expired = [r \in Readers |-> FALSE] /\ opens = 0
    /\ late = [r \in Readers |-> "no"]

Go(r, l) == at' = [at EXCEPT ![r] = l]
TaskGoto(r, l) == task' = [task EXCEPT ![r] = l]

---------------------------------------------------------------------------
(* reader_connection *)

AskRead(r) ==
    /\ at[r] = "idle"
    /\ Go(r, "get")
    /\ late' = [late EXCEPT ![r] = closed]
    /\ UNCHANGED <<cell, opener, closed, holder, interrupted, task, expired, opens>>

\* The first read opens the connection; others wait for it, and one of them
\* tries again when it couldn't.
OpenReader(r) ==
    /\ at[r] = "get" /\ cell = "unset" /\ opens < MaxOpens
    /\ cell' = "opening" /\ opener' = r /\ opens' = opens + 1
    /\ UNCHANGED <<closed, holder, interrupted, at, task, expired, late>>

Opened(r) ==
    /\ opener = r
    /\ cell' = "open" /\ opener' = Nobody
    /\ UNCHANGED <<closed, holder, interrupted, at, task, expired, opens, late>>

OpenFails(r) ==
    /\ opener = r
    /\ cell' = "unset" /\ opener' = Nobody
    /\ Go(r, "failed")
    /\ UNCHANGED <<closed, holder, interrupted, task, expired, opens, late>>

\* SqliteConn::run: the slot is cloned and the task goes to a blocking thread.
Run(r) ==
    /\ at[r] = "get"
    /\ \/ cell = "open" /\ Go(r, "run") /\ TaskGoto(r, "wait")
       \/ cell = "closed" /\ Go(r, "notFound") /\ UNCHANGED task
    /\ UNCHANGED <<cell, opener, closed, holder, interrupted, expired, opens, late>>

---------------------------------------------------------------------------
(* The task of a read *)

Lock(r) ==
    /\ task[r] = "wait" /\ holder = Nobody
    /\ holder' = r
    /\ TaskGoto(r, "start")
    /\ UNCHANGED <<cell, opener, closed, interrupted, at, expired, opens, late>>

\* An interrupt that came before the statement starts is forgotten.
Start(r) ==
    /\ task[r] = "start"
    /\ interrupted' = FALSE
    /\ TaskGoto(r, "exec")
    /\ UNCHANGED <<cell, opener, closed, holder, at, expired, opens, late>>

\* The statement ends on its own, or never.
Ends(r) ==
    /\ task[r] = "exec"
    /\ holder' = Nobody
    /\ TaskGoto(r, "ended")
    /\ UNCHANGED <<cell, opener, closed, interrupted, at, expired, opens, late>>

Stopped(r) ==
    /\ task[r] = "exec" /\ interrupted
    /\ holder' = Nobody
    /\ TaskGoto(r, "stopped")
    /\ UNCHANGED <<cell, opener, closed, interrupted, at, expired, opens, late>>

---------------------------------------------------------------------------
(* read_unchecked waits for its task *)

Done(r) == task[r] \in {"ended", "stopped"}

\* The task ended within the limit, or is seen to have when the limit is looked
\* at; later it is only the end of the wait.
AnswerRead(r) ==
    /\ at[r] = "run" /\ Done(r)
    /\ Go(r, IF expired[r] THEN "timedOut" ELSE IF task[r] = "ended" THEN "ok" ELSE "failed")
    /\ UNCHANGED <<cell, opener, closed, holder, interrupted, task, expired, opens, late>>

\* Mutant: one interrupt.
InterruptOnce(r) ==
    /\ at[r] = "run" /\ ~expired[r]
    /\ expired' = [expired EXCEPT ![r] = TRUE]
    /\ interrupted' = (interrupted \/ \E s \in Readers : task[s] = "exec")
    /\ UNCHANGED <<cell, opener, closed, holder, at, task, opens, late>>

\* Past the limit: interrupts whatever the connection runs, over and over; SQLite
\* forgets an interrupt that finds no statement.
Interrupt(r) ==
    /\ at[r] = "run"
    /\ expired' = [expired EXCEPT ![r] = TRUE]
    /\ interrupted' = (interrupted \/ \E s \in Readers : task[s] = "exec")
    /\ UNCHANGED <<cell, opener, closed, holder, at, task, opens, late>>

---------------------------------------------------------------------------

\* Mutant: the reader is left out of the close.
CloseLeavesReader ==
    /\ closed = "no"
    /\ closed' = IF cell = "open" THEN "found" ELSE "none"
    /\ UNCHANGED <<cell, opener, holder, interrupted, at, task, expired, opens, late>>

\* Driver::close: the reader is let go, if there is one.
Close ==
    /\ closed = "no"
    /\ closed' = IF cell = "open" THEN "found" ELSE "none"
    /\ cell' = IF cell = "open" THEN "closed" ELSE cell
    /\ UNCHANGED <<opener, holder, interrupted, at, task, expired, opens, late>>

\* A read's own steps, but for its statement's end and its time limit.
Progress(r) == OpenReader(r) \/ Opened(r) \/ OpenFails(r) \/ Run(r) \/ Lock(r) \/ Start(r) \/ Stopped(r) \/ AnswerRead(r)

SqliteNext ==
    \/ \E r \in Readers : AskRead(r) \/ Progress(r) \/ Ends(r) \/ Interrupt(r)
    \/ Close

SqliteSpec == SqliteInit /\ [][SqliteNext]_sqliteVars

\* Threads and timers run; a statement may take forever.  Every read that waits or
\* runs has its limit, also the one that holds the connection.
SqliteFairSpec ==
    /\ SqliteSpec
    /\ \A r \in Readers : WF_sqliteVars(Progress(r)) /\ WF_sqliteVars(Interrupt(r))

---------------------------------------------------------------------------
(* Properties *)

\* A read ends, whatever its statement does and whatever it waits behind: its
\* interrupts outlast the moment SQLite would forget one (read_unchecked).
ReadersEnd == \A r \in Readers : at[r] = "run" ~> at[r] \in {"ok", "failed", "timedOut"}

\* Once close() found the reader open, nothing that is asked later is answered,
\* whatever waits for the connection meanwhile.
ClosedReaderAnswersNothing == \A r \in Readers : late[r] = "found" => at[r] \notin {"run", "ok"}

\* What a comment says and the code does not always do.

\* Anything the session is asked after the close answers "Session not found"
\* (the comment on close).
ClosedSessionAnswersNothing == \A r \in Readers : late[r] # "no" => at[r] \notin {"run", "ok"}

=============================================================================
