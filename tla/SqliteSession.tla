--------------------------- MODULE SqliteSession ---------------------------
(***************************************************************************)
(* A session on one SQLite file: the query editor's connection and the     *)
(* tables' (SqliteConn, sqlite/conn.rs), the editor's scripts and their    *)
(* cancel (console.rs), its transaction (transactions.rs), the saves of    *)
(* the tables (data.rs) and the session's close (mod.rs).                  *)
(*                                                                         *)
(* A connection sits behind a mutex and a task keeps it from its first     *)
(* statement to its last.  The marks beside it (cancelled, note) and       *)
(* SQLite's interrupt are used without the mutex.                          *)
(***************************************************************************)
EXTENDS Naturals, Sequences

CONSTANTS
    Tasks,     \* tasks that use the editor's connection
    Saves,     \* tasks that save rows on the tables' connection
    Cancels,   \* tasks that run Console::cancel, once each
    Jobs,      \* what a task of the editor may be asked to run
    Nobody,    \* nobody holds a connection
    MaxRuns,   \* bound: tasks started
    MaxOthers  \* bound: times another program locks the file

\* What a statement does: "read" and "write" may take forever; a "begin" locks
\* nothing until the transaction writes, an "immediate" locks at once.
Statements == {"read", "write", "begin", "immediate", "commit", "rollback"}

\* A script of the console, a single statement (a button, EXPLAIN, the
\* catalog), or the save of a temporary table, which only this connection sees.
Job == [kind : {"script", "single", "save"}, todo : Seq(Statements)]

ASSUME SessionAssumption ==
    /\ Nobody \notin Tasks \cup Saves
    /\ Jobs \subseteq Job
    /\ \A j \in Jobs : j.todo # <<>>
    /\ \A j \in Jobs : j.kind = "save" => j.todo = <<"immediate", "write", "commit">>
    /\ {MaxRuns, MaxOthers} \subseteq Nat

VARIABLES
    \* SqliteConn of the editor and of the tables
    slot, tslot,    \* FALSE once closed
    holder, tholder,\* who has the connection's mutex
    cancelled,      \* the mark a cancel leaves
    note,           \* TransactionState
    \* SQLite
    tx,             \* the editor's connection has a transaction open
    lock,           \* who may write to the file
    interrupted,    \* the running statement of the editor was interrupted
    \* the tasks; failed is the holder's local
    pc, job, failed, savePc, cancelPc, closer,
    \* bounds
    runs, others,
    \* history, for the properties
    asked,          \* a cancel came while the script had the connection: before
                    \* its last look at the mark ("sure") or after it ("late")
    typed,          \* the transaction was opened by a script or a button
    blocked,        \* who kept a save from its lock
    said            \* who the error of a save names

editor  == <<slot, holder, cancelled, note>>
tables  == <<tslot, tholder>>
sqlite  == <<tx, lock, interrupted>>
locals  == <<pc, job, failed>>
bounds  == <<runs, others>>
history == <<asked, typed, blocked, said>>
vars    == <<editor, tables, sqlite, locals, savePc, cancelPc, closer, bounds, history>>

\* Every variable keeps its type, and there is a statement left wherever the
\* code takes the next one.
TypeOK ==
    /\ \A p \in Tasks : pc[p] \in {"wait", "check", "step", "exec"} => job[p].todo # <<>>
    /\ {slot, tslot, cancelled, note, tx, interrupted, failed, typed} \subseteq BOOLEAN
    /\ holder \in Tasks \cup {Nobody} /\ tholder \in Saves \cup {Nobody}
    /\ lock \in {"none", "editor", "tables", "other"}
    /\ pc \in [Tasks -> {"idle", "wait", "check", "step", "exec", "note", "end"}]
    /\ job \in [Tasks -> Job]
    /\ savePc \in [Saves -> {"idle", "wait", "begin", "busy", "save"}]
    /\ cancelPc \in [Cancels -> {"idle", "marked", "done"}]
    /\ closer \in {"open", "tables", "closed"}
    /\ runs \in 0..MaxRuns /\ others \in 0..MaxOthers
    /\ asked \in [Tasks -> {"no", "sure", "late"}]
    /\ blocked \in [Saves -> {"no", "transaction", "statement", "other"}]
    /\ said \in [Saves -> {"no", "editor", "other"}]

Init ==
    /\ slot = TRUE /\ tslot = TRUE /\ holder = Nobody /\ tholder = Nobody
    /\ cancelled = FALSE /\ note = FALSE
    /\ tx = FALSE /\ lock = "none" /\ interrupted = FALSE
    /\ pc = [p \in Tasks |-> "idle"] /\ failed = FALSE
    /\ job \in [Tasks -> {[kind |-> "single", todo |-> <<>>]}]
    /\ savePc = [q \in Saves |-> "idle"] /\ cancelPc = [x \in Cancels |-> "idle"]
    /\ closer = "open" /\ runs = 0 /\ others = 0
    /\ asked = [p \in Tasks |-> "no"] /\ typed = FALSE
    /\ blocked = [q \in Saves |-> "no"] /\ said = [q \in Saves |-> "no"]

Goto(p, l) == pc' = [pc EXCEPT ![p] = l]
GotoSave(q, l) == savePc' = [savePc EXCEPT ![q] = l]
Current(p) == Head(job[p].todo)
IsScript(p) == job[p].kind = "script"

---------------------------------------------------------------------------
(* SqliteConn::run on the editor's connection *)

\* A script clears the cancel mark before it has the connection, and with it a
\* cancel that was meant for the script that runs.
StartScript(j) ==
    IF j.kind = "script"
      THEN cancelled' = FALSE /\ asked' = [p \in Tasks |-> "no"]
      ELSE UNCHANGED <<cancelled, asked>>

Ask(p) ==
    /\ pc[p] = "idle" /\ runs < MaxRuns
    /\ runs' = runs + 1
    /\ \E j \in Jobs : StartScript(j) /\ job' = [job EXCEPT ![p] = j]
    /\ IF slot THEN Goto(p, "wait") ELSE UNCHANGED pc
    /\ UNCHANGED <<slot, holder, note, tables, sqlite, failed, savePc, cancelPc, closer,
                   others, typed, blocked, said>>

Lock(p) ==
    /\ pc[p] = "wait" /\ holder = Nobody
    /\ holder' = p /\ failed' = FALSE
    /\ Goto(p, IF IsScript(p) THEN "check" ELSE "step")
    /\ UNCHANGED <<slot, cancelled, note, tables, sqlite, job, savePc, cancelPc, closer, bounds,
                   history>>

\* Mutant: the mark isn't looked at between statements.
CheckNothing(p) ==
    /\ pc[p] = "check"
    /\ Goto(p, "step")
    /\ UNCHANGED <<editor, tables, sqlite, job, failed, savePc, cancelPc, closer, bounds, history>>

CheckMark(p) ==
    /\ pc[p] = "check"
    /\ failed' = cancelled
    /\ Goto(p, IF cancelled THEN "end" ELSE "step")
    /\ UNCHANGED <<editor, tables, sqlite, job, savePc, cancelPc, closer, bounds, history>>

\* The statement starts; an interrupt that came before is forgotten.
Step(p) ==
    /\ pc[p] = "step"
    /\ interrupted' = FALSE
    /\ Goto(p, "exec")
    /\ UNCHANGED <<editor, tables, tx, lock, job, failed, savePc, cancelPc, closer, bounds, history>>

---------------------------------------------------------------------------
(* SQLite executes a statement of the editor *)

Writes(s) == s \in {"write", "immediate"}

\* The statement gets the file's lock.
Acquire(p) ==
    /\ pc[p] = "exec" /\ Writes(Current(p)) /\ lock = "none"
    /\ Current(p) = "immediate" => ~tx
    /\ lock' = "editor"
    /\ UNCHANGED <<editor, tables, tx, interrupted, locals, savePc, cancelPc, closer, bounds, history>>

\* The connection's transaction after a statement, and the lock with it: it is
\* kept as long as a transaction is open.
Becomes(open) ==
    /\ tx' = open
    /\ lock' = IF lock = "editor" /\ ~open THEN "none" ELSE lock

\* Mutant: the note is only taken when the task ends.
NotesAtEnd(p, ok) ==
    /\ failed' = ~ok
    /\ job' = [job EXCEPT ![p].todo = Tail(@)]
    /\ Goto(p, IF ~ok \/ Len(job[p].todo) = 1 THEN "end"
               ELSE IF IsScript(p) THEN "check" ELSE "step")

\* A script notes the transaction after each statement; another task when it ends.
After(p, ok) ==
    /\ failed' = ~ok
    /\ job' = [job EXCEPT ![p].todo = Tail(@)]
    /\ Goto(p, IF IsScript(p) THEN "note" ELSE IF ~ok \/ Len(job[p].todo) = 1 THEN "end" ELSE "step")

StatementOk(p) ==
    /\ pc[p] = "exec"
    /\ LET s == Current(p) IN
       /\ Writes(s) => lock = "editor"
       /\ s \in {"begin", "immediate"} => ~tx
       /\ s \in {"commit", "rollback"} => tx
       /\ Becomes(s \in {"begin", "immediate"} \/ (tx /\ s \notin {"commit", "rollback"}))
       /\ typed' = (tx' /\ (typed \/ (s \in {"begin", "immediate"} /\ job[p].kind # "save")))
    /\ After(p, TRUE)
    /\ UNCHANGED <<editor, tables, interrupted, savePc, cancelPc, closer, bounds,
                   asked, blocked, said>>

\* Mutant: a save that can't begin rolls back all the same.
AlwaysRollsBack(p, s) == IF job[p].kind = "save" THEN FALSE ELSE tx

\* Whether the transaction is still open after statement s failed: a save rolls
\* back the one it began.
OpenAfterError(p, s) == tx /\ ~(job[p].kind = "save" /\ s # "immediate")

\* An error of the statement's own; a file that stays busy; a COMMIT that
\* readers keep from the file.  SQLite leaves the transaction open.
StatementFails(p) ==
    /\ pc[p] = "exec"
    /\ LET s == Current(p) IN
       /\ s = "begin" => tx
       /\ s = "immediate" => tx \/ lock # "editor"
       /\ s = "rollback" => ~tx
       /\ Becomes(OpenAfterError(p, s))
       /\ typed' = (typed /\ tx')
    /\ After(p, FALSE)
    /\ UNCHANGED <<editor, tables, interrupted, savePc, cancelPc, closer, bounds,
                   asked, blocked, said>>

\* An interrupted write takes its whole transaction with it.
Interrupted(p) ==
    /\ pc[p] = "exec" /\ interrupted
    /\ \/ Current(p) = "read" /\ UNCHANGED <<tx, lock, typed>>
       \/ /\ Current(p) = "write" /\ lock = "editor"
          /\ Becomes(FALSE) /\ typed' = FALSE
    /\ After(p, FALSE)
    /\ UNCHANGED <<editor, tables, interrupted, savePc, cancelPc, closer, bounds,
                   asked, blocked, said>>

\* After each statement of a script, with the connection still held.
NoteStatement(p) ==
    /\ pc[p] = "note"
    /\ note' = tx
    /\ Goto(p, IF failed \/ job[p].todo = <<>> THEN "end" ELSE "check")
    /\ UNCHANGED <<slot, holder, cancelled, tables, sqlite, job, failed, savePc, cancelPc, closer,
                   bounds, history>>

\* A closed connection ends, with its transaction, when nobody has it any more.
DropConnection ==
    IF ~slot' /\ \A p \in Tasks : pc'[p] = "idle"
      THEN Becomes(FALSE) /\ typed' = FALSE
      ELSE UNCHANGED <<tx, lock, typed>>

\* The end of run: the transaction is noted and the mutex released.
End(p) ==
    /\ pc[p] = "end"
    /\ note' = tx
    /\ holder' = Nobody /\ failed' = FALSE
    /\ Goto(p, "idle")
    /\ asked' = [asked EXCEPT ![p] = "no"]
    /\ UNCHANGED slot /\ DropConnection
    /\ UNCHANGED <<cancelled, tables, interrupted, job, savePc, cancelPc, closer, bounds,
                   blocked, said>>

---------------------------------------------------------------------------
(* Console::cancel *)

CancelMark(x) ==
    /\ cancelPc[x] = "idle"
    /\ cancelled' = TRUE
    /\ cancelPc' = [cancelPc EXCEPT ![x] = "marked"]
    /\ asked' = [p \in Tasks |->
          IF ~IsScript(p) \/ asked[p] # "no" THEN asked[p]
          ELSE IF pc[p] \in {"check", "exec", "note"} THEN "sure"
          ELSE IF pc[p] = "step" THEN "late" ELSE "no"]
    /\ UNCHANGED <<slot, holder, note, tables, sqlite, locals, savePc, closer, bounds,
                   typed, blocked, said>>

\* Mutant: the cancel leaves its mark and nothing else.
MarksOnly(x) ==
    /\ cancelPc[x] = "marked"
    /\ cancelPc' = [cancelPc EXCEPT ![x] = "done"]
    /\ UNCHANGED <<editor, tables, sqlite, locals, savePc, closer, bounds, history>>

\* SQLite forgets an interrupt that comes when no statement is running.
CancelInterrupt(x) ==
    /\ cancelPc[x] = "marked"
    /\ cancelPc' = [cancelPc EXCEPT ![x] = "done"]
    /\ interrupted' = (interrupted \/ \E p \in Tasks : pc[p] = "exec")
    /\ UNCHANGED <<editor, tables, tx, lock, locals, savePc, closer, bounds, history>>

---------------------------------------------------------------------------
(* A save on the tables' connection (on_tables, in_transaction, describe) *)

AskSave(q) ==
    /\ savePc[q] = "idle" /\ runs < MaxRuns /\ tslot
    /\ runs' = runs + 1
    /\ GotoSave(q, "wait")
    /\ blocked' = [blocked EXCEPT ![q] = "no"] /\ said' = [said EXCEPT ![q] = "no"]
    /\ UNCHANGED <<editor, tables, sqlite, locals, cancelPc, closer, others, asked, typed>>

LockTables(q) ==
    /\ savePc[q] = "wait" /\ tholder = Nobody
    /\ tholder' = q
    /\ GotoSave(q, "begin")
    /\ UNCHANGED <<editor, tslot, sqlite, locals, cancelPc, closer, bounds, history>>

\* BEGIN IMMEDIATE.
SaveBegins(q) ==
    /\ savePc[q] = "begin" /\ lock = "none"
    /\ lock' = "tables"
    /\ GotoSave(q, "save")
    /\ UNCHANGED <<editor, tables, tx, interrupted, locals, cancelPc, closer, bounds, history>>

\* The file stays busy for the whole busy timeout: the connection is released
\* with an error that doesn't say yet who holds the file.
SaveBusy(q) ==
    /\ savePc[q] = "begin" /\ lock \in {"editor", "other"}
    /\ blocked' = [blocked EXCEPT ![q] = IF lock = "other" THEN "other"
                                         ELSE IF tx THEN "transaction" ELSE "statement"]
    /\ tholder' = Nobody
    /\ GotoSave(q, "busy")
    /\ UNCHANGED <<editor, tslot, sqlite, locals, cancelPc, closer, bounds, asked, typed, said>>

\* The note says whether the editor or another program is named.
Describe(q) ==
    /\ savePc[q] = "busy"
    /\ said' = [said EXCEPT ![q] = IF note THEN "editor" ELSE "other"]
    /\ GotoSave(q, "idle")
    /\ UNCHANGED <<editor, tables, sqlite, locals, cancelPc, closer, bounds,
                   asked, typed, blocked>>

\* Mutant: a failed save leaves its transaction open.
NoRollback(q) ==
    /\ savePc[q] = "save"
    /\ lock' \in {lock, "none"}
    /\ tholder' = Nobody
    /\ GotoSave(q, "idle")
    /\ UNCHANGED <<editor, tslot, tx, interrupted, locals, cancelPc, closer, bounds, history>>

\* Committed, or rolled back with the error of a row or of the COMMIT.
SaveEnds(q) ==
    /\ savePc[q] = "save"
    /\ lock' = "none"
    /\ tholder' = Nobody
    /\ GotoSave(q, "idle")
    /\ UNCHANGED <<editor, tslot, tx, interrupted, locals, cancelPc, closer, bounds, history>>

---------------------------------------------------------------------------
(* Driver::close, and another program on the file *)

CloseTables ==
    /\ closer = "open"
    /\ tslot' = FALSE /\ closer' = "tables"
    /\ UNCHANGED <<editor, tholder, sqlite, locals, savePc, cancelPc, bounds, history>>

CloseEditor ==
    /\ closer = "tables"
    /\ slot' = FALSE /\ closer' = "closed"
    /\ UNCHANGED pc /\ DropConnection
    /\ UNCHANGED <<holder, cancelled, note, tables, interrupted, job, failed, savePc, cancelPc,
                   bounds, asked, blocked, said>>

OtherLocks ==
    /\ lock = "none" /\ others < MaxOthers
    /\ lock' = "other" /\ others' = others + 1
    /\ UNCHANGED <<editor, tables, tx, interrupted, locals, savePc, cancelPc, closer, runs, history>>

OtherUnlocks ==
    /\ lock = "other"
    /\ lock' = "none"
    /\ UNCHANGED <<editor, tables, tx, interrupted, locals, savePc, cancelPc, closer, bounds, history>>

---------------------------------------------------------------------------
(* The specification *)

\* What a task does, but for a statement that may take forever.
Progress(p) ==
    \/ Lock(p) \/ CheckMark(p) \/ Step(p) \/ Acquire(p) \/ Interrupted(p)
    \/ NoteStatement(p) \/ End(p)
    \/ /\ pc[p] = "exec"
       /\ Current(p) \notin {"read", "write"} \/ (Current(p) = "write" /\ lock # "editor")
       /\ StatementOk(p) \/ StatementFails(p)

Save(q) ==
    AskSave(q) \/ LockTables(q) \/ SaveBegins(q) \/ SaveBusy(q) \/ Describe(q) \/ SaveEnds(q)

Next ==
    \/ \E p \in Tasks : Ask(p) \/ Progress(p) \/ StatementOk(p) \/ StatementFails(p)
    \/ \E q \in Saves : Save(q)
    \/ \E x \in Cancels : CancelMark(x) \/ CancelInterrupt(x)
    \/ CloseTables \/ CloseEditor
    \/ OtherLocks \/ OtherUnlocks

Spec == Init /\ [][Next]_vars

\* Blocking threads run to their end; SQLite answers at once but for reads and
\* writes, which may take forever, and gives up on a busy file in time.
FairSpec ==
    /\ Spec
    /\ \A p \in Tasks : WF_vars(Progress(p))
    /\ \A x \in Cancels : WF_vars(CancelInterrupt(x))
    /\ \A q \in Saves : WF_vars(LockTables(q) \/ SaveBegins(q) \/ SaveBusy(q) \/ Describe(q) \/ SaveEnds(q))

---------------------------------------------------------------------------
(* Properties *)

\* A cancel that finds a script on the connection keeps it from its next
\* statement, however its interrupt lands and whatever other task waits, unless
\* another script is asked for in between (execute, start_script, cancel).
CancelStopsScript ==
    [][\A p \in Tasks : pc[p] = "check" /\ pc'[p] = "step" => asked[p] = "no"]_vars

\* A script cancelled before its last look at the mark, or during a statement,
\* ends, even when its statements never would, unless another script is asked
\* for in between (cancel).
CancelEndsScript == \A p \in Tasks : asked[p] = "sure" ~> asked[p] = "no"

\* While the session is open the note is the connection's state, but for the
\* statement of a script that runs or just ended and for the time of another
\* task (TransactionState, run, execute).
NoteFollowsTransaction ==
    slot /\ note # tx => /\ holder # Nobody
                         /\ IsScript(holder) => pc[holder] \in {"exec", "note"}

\* The file is only kept from others by an open transaction or a running task:
\* neither connection leaves its lock behind (in_transaction, close).
NobodyKeepsTheFile ==
    /\ lock = "editor" => tx \/ holder # Nobody
    /\ lock = "tables" => \E q \in Saves : savePc[q] = "save"
    /\ tx => slot \/ \E p \in Tasks : pc[p] # "idle"

\* A save of a temporary table, which runs on the editor's connection, never
\* ends the transaction the person opened there (in_transaction).
SavesLeaveTransaction ==
    [][\A p \in Tasks : typed /\ ~typed' /\ holder = p => job[p].kind # "save" \/ ~slot]_vars

\* A save kept out by the editor's transaction, with one that the person opened
\* still holding the file when the error is put in words, names the editor, also
\* while the editor runs a statement (describe, execute).
BusySaveNamesEditor ==
    [][\A q \in Saves :
          /\ savePc[q] = "busy" /\ savePc'[q] = "idle"
          /\ blocked[q] = "transaction" /\ lock = "editor" /\ typed
          => said'[q] = "editor"]_vars

=============================================================================
