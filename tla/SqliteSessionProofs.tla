------------------------- MODULE SqliteSessionProofs -------------------------
(***************************************************************************)
(* Proofs about SqliteSession, for any number of tasks, saves and cancels   *)
(* and any scripts: who keeps the file, whose transaction a save ends, what *)
(* a cancel stops, and what the note beside the connection says.            *)
(***************************************************************************)
EXTENDS SqliteSession, SequenceTheorems, TLAPS

\* A connection's mutex has one holder.
HolderInv ==
    /\ \A p \in Tasks : holder = p <=> pc[p] \notin {"idle", "wait"}
    /\ \A q \in Saves : tholder = q <=> savePc[q] \in {"begin", "save"}

\* Who has the file's lock, and whose transaction is open.
LockInv ==
    /\ lock = "editor" => tx \/ \E p \in Tasks : pc[p] = "exec" /\ Writes(Current(p))
    /\ lock = "tables" => \E q \in Saves : savePc[q] = "save"
    /\ tx => slot \/ \E p \in Tasks : pc[p] # "idle"
    /\ typed => tx

\* The statements of a save, and those after its BEGIN.
Whole == <<"immediate", "write", "commit">>
Begun == {<<"write", "commit">>, <<"commit">>}

\* A save that began runs in its own transaction.
SaveInv ==
    \A p \in Tasks : job[p].kind = "save" =>
      /\ pc[p] \in {"idle", "wait", "step", "exec", "end"}
      /\ pc[p] = "wait" => job[p].todo = Whole
      /\ pc[p] \in {"step", "exec"} =>
           job[p].todo = Whole \/ (job[p].todo \in Begun /\ ~typed)

IInv == TypeOK /\ HolderInv /\ LockInv /\ SaveInv

---------------------------------------------------------------------------
(* The statements of a task *)

\* A job's next statement, and what is left after it.
LEMMA Statement ==
    ASSUME NEW s \in Seq(Statements), s # <<>>
    PROVE  /\ Head(s) \in Statements /\ Tail(s) \in Seq(Statements)
           /\ Len(s) # 1 => Tail(s) # <<>>
<1>1. Len(s) \in Nat /\ Len(s) > 0 /\ Len(Tail(s)) = Len(s) - 1
  BY EmptySeq, HeadTailProperties, LenProperties
<1>2. Len(s) # 1 => Len(Tail(s)) # 0
  BY <1>1
<1>3. Len(<<>>) = 0
  BY EmptySeq
<1> QED
  BY <1>2, <1>3, HeadTailProperties

\* A save's statements one after the other.
LEMMA SaveStatements ==
    /\ Whole # <<>> /\ Head(Whole) = "immediate" /\ Tail(Whole) \in Begun
    /\ \A s \in Begun : Head(s) \in {"write", "commit"}
    /\ \A s \in Begun : Len(s) # 1 => Tail(s) \in Begun
    /\ Whole \notin Begun /\ Len(Whole) # 1
BY DEF Whole, Begun

\* After a statement the task has another one, or ends.
LEMMA AfterType ==
    ASSUME TypeOK, NEW p \in Tasks, NEW ok \in BOOLEAN, pc[p] = "exec", After(p, ok)
    PROVE  /\ job' \in [Tasks -> Job] /\ failed' \in BOOLEAN
           /\ pc' \in [Tasks -> {"idle", "wait", "check", "step", "exec", "note", "end"}]
           /\ \A r \in Tasks : pc'[r] \in {"wait", "check", "step", "exec"} => job'[r].todo # <<>>
<1>1. job[p] \in Job /\ job[p].todo # <<>>
  BY DEF TypeOK
<1>2. job[p].todo \in Seq(Statements)
  BY <1>1 DEF Job
<1>3. Tail(job[p].todo) \in Seq(Statements) /\ (Len(job[p].todo) # 1 => Tail(job[p].todo) # <<>>)
  BY <1>1, <1>2, Statement
<1> DEFINE j == [job[p] EXCEPT !.todo = Tail(job[p].todo)]
<1>4. j \in Job /\ j.todo = Tail(job[p].todo)
  BY <1>1, <1>3 DEF Job
<1>5. job' = [job EXCEPT ![p] = j]
  BY DEF After
<1> HIDE DEF j
<1>6. job' \in [Tasks -> Job]
  BY <1>4, <1>5 DEF TypeOK
<1>7. pc' \in [Tasks -> {"idle", "wait", "check", "step", "exec", "note", "end"}]
  BY DEF After, Goto, TypeOK
<1>8. ASSUME NEW r \in Tasks, pc'[r] \in {"wait", "check", "step", "exec"} PROVE job'[r].todo # <<>>
  <2>1. CASE r = p
    <3>1. pc'[p] = IF IsScript(p) THEN "note" ELSE IF ~ok \/ Len(job[p].todo) = 1 THEN "end" ELSE "step"
      BY DEF After, Goto, TypeOK
    <3>2. Len(job[p].todo) # 1
      BY <1>8, <2>1, <3>1
    <3> QED
      BY <1>3, <1>4, <1>5, <2>1, <3>2 DEF TypeOK
  <2>2. CASE r # p
    BY <1>5, <1>8, <2>2 DEF After, Goto, TypeOK
  <2> QED
    BY <2>1, <2>2
<1> QED
  BY <1>6, <1>7, <1>8 DEF After

\* The task keeps the connection after a statement.
LEMMA AfterHolder ==
    ASSUME IInv, NEW p \in Tasks, NEW ok, pc[p] = "exec", After(p, ok),
           UNCHANGED <<holder, tholder, savePc>>
    PROVE  HolderInv' /\ pc'[p] \in {"note", "end", "step"} /\ \A r \in Tasks \ {p} : pc'[r] = pc[r]
BY DEF IInv, TypeOK, HolderInv, After, Goto

\* A save goes on to its next statement in its own transaction, or ends.
LEMMA AfterSave ==
    ASSUME IInv, NEW p \in Tasks, NEW ok \in BOOLEAN, pc[p] = "exec", After(p, ok),
           ok /\ job[p].kind = "save" => ~typed'
    PROVE  SaveInv'
<1>1. /\ job[p] \in Job /\ pc' \in [Tasks -> {"idle", "wait", "check", "step", "exec", "note", "end"}]
      /\ job' \in [Tasks -> Job]
  BY AfterType DEF IInv, TypeOK
<1>2. job'[p].kind = job[p].kind /\ job'[p].todo = Tail(job[p].todo)
  BY <1>1 DEF After, IInv, TypeOK, Job
<1>3. /\ \A r \in Tasks \ {p} : job'[r] = job[r] /\ pc'[r] = pc[r]
      /\ pc'[p] = IF IsScript(p) THEN "note" ELSE IF ~ok \/ Len(job[p].todo) = 1 THEN "end" ELSE "step"
  BY DEF After, Goto, IInv, TypeOK
<1>4. \A r \in Tasks \ {p} : pc[r] \in {"idle", "wait"}
  BY DEF IInv, HolderInv
<1>5. ASSUME job[p].kind = "save"
      PROVE  /\ pc'[p] \in {"step", "end"}
             /\ pc'[p] = "step" => job'[p].todo \in Begun /\ ~typed'
  <2>1. pc'[p] = IF ~ok \/ Len(job[p].todo) = 1 THEN "end" ELSE "step"
    BY <1>3, <1>5 DEF IsScript
  <2>2. job[p].todo = Whole \/ job[p].todo \in Begun
    BY <1>5 DEF IInv, SaveInv
  <2>3. Len(job[p].todo) # 1 => Tail(job[p].todo) \in Begun
    BY <2>2, SaveStatements
  <2> QED
    BY <1>2, <1>5, <2>1, <2>3
<1> QED
  BY <1>1, <1>2, <1>3, <1>4, <1>5 DEF IInv, SaveInv

---------------------------------------------------------------------------
(* The steps *)

\* A task is asked for something: a save is asked for whole.
LEMMA AskStep ==
    ASSUME IInv, NEW p \in Tasks, Ask(p)
    PROVE  IInv'
<1>a. PICK j \in Jobs : StartScript(j) /\ job' = [job EXCEPT ![p] = j]
  BY DEF Ask
<1>b. j \in Job /\ j.todo # <<>> /\ (j.kind = "save" => j.todo = Whole)
  BY SessionAssumption DEF Whole
<1> USE SessionAssumption DEF IInv, TypeOK, HolderInv, LockInv, SaveInv, Ask, Goto, GotoSave, editor, tables, sqlite, locals, bounds, history, Writes, Current
<1>1. TypeOK'
  <2>1. runs' \in 0..MaxRuns /\ job' \in [Tasks -> Job]
    BY <1>a, <1>b
  <2>2. pc' \in [Tasks -> {"idle", "wait", "check", "step", "exec", "note", "end"}]
    OBVIOUS
  <2>3. \A r \in Tasks : pc'[r] \in {"wait", "check", "step", "exec"} => job'[r].todo # <<>>
    BY <1>a, <1>b
  <2>4. cancelled' \in BOOLEAN /\ asked' \in [Tasks -> {"no", "sure", "late"}]
    <3>1. CASE j.kind = "script"
      <4>1. cancelled' = FALSE
        BY <1>a, <3>1, Zenon DEF StartScript
      <4>2. asked' = [r \in Tasks |-> "no"]
        BY <1>a, <3>1, Zenon DEF StartScript
      <4> QED
        BY <4>1, <4>2
    <3>2. CASE j.kind # "script"
      BY <1>a, <3>2 DEF StartScript
    <3> QED
      BY <3>1, <3>2
  <2> QED
    BY <2>1, <2>2, <2>3, <2>4
<1>2. HolderInv'
  OBVIOUS
<1>3. LockInv'
  OBVIOUS
<1>4. SaveInv'
  BY <1>a, <1>b
<1> QED
  BY <1>1, <1>2, <1>3, <1>4

\* It has the connection.
LEMMA LockStep ==
    ASSUME IInv, NEW p \in Tasks, Lock(p)
    PROVE  IInv'
<1> USE SessionAssumption DEF IInv, TypeOK, HolderInv, LockInv, SaveInv, Lock, Goto, GotoSave, editor, tables, sqlite, locals, bounds, history, Writes, Current
<1>1. TypeOK'
  <2>1. pc' \in [Tasks -> {"idle", "wait", "check", "step", "exec", "note", "end"}]
    OBVIOUS
  <2>2. \A r \in Tasks : pc'[r] \in {"wait", "check", "step", "exec"} => job'[r].todo # <<>>
    OBVIOUS
  <2>3. holder' \in Tasks \cup {Nobody} /\ failed' \in BOOLEAN
    OBVIOUS
  <2> QED
    BY <2>1, <2>2, <2>3
<1>2. HolderInv'
  OBVIOUS
<1>3. LockInv'
  OBVIOUS
<1>4. SaveInv'
  BY DEF IsScript
<1> QED
  BY <1>1, <1>2, <1>3, <1>4

\* A script looks at its mark.
LEMMA CheckMarkStep ==
    ASSUME IInv, NEW p \in Tasks, CheckMark(p)
    PROVE  IInv'
<1> USE SessionAssumption DEF IInv, TypeOK, HolderInv, LockInv, SaveInv, CheckMark, Goto, GotoSave, editor, tables, sqlite, locals, bounds, history, Writes, Current
<1>1. TypeOK'
  OBVIOUS
<1>2. HolderInv'
  OBVIOUS
<1>3. LockInv'
  OBVIOUS
<1>4. SaveInv'
  OBVIOUS
<1> QED
  BY <1>1, <1>2, <1>3, <1>4

\* A statement starts.
LEMMA StepStep ==
    ASSUME IInv, NEW p \in Tasks, Step(p)
    PROVE  IInv'
<1> USE SessionAssumption DEF IInv, TypeOK, HolderInv, LockInv, SaveInv, Step, Goto, GotoSave, editor, tables, sqlite, locals, bounds, history, Writes, Current
<1>1. TypeOK'
  <2>1. interrupted' \in BOOLEAN
    OBVIOUS
  <2>2. pc' \in [Tasks -> {"idle", "wait", "check", "step", "exec", "note", "end"}]
    OBVIOUS
  <2>3. \A r \in Tasks : pc'[r] \in {"wait", "check", "step", "exec"} => job'[r].todo # <<>>
    OBVIOUS
  <2> QED
    BY <2>1, <2>2, <2>3
<1>2. HolderInv'
  OBVIOUS
<1>3. LockInv'
  OBVIOUS
<1>4. SaveInv'
  OBVIOUS
<1> QED
  BY <1>1, <1>2, <1>3, <1>4

\* It gets the file's lock.
LEMMA AcquireStep ==
    ASSUME IInv, NEW p \in Tasks, Acquire(p)
    PROVE  IInv'
<1> USE SessionAssumption DEF IInv, TypeOK, HolderInv, LockInv, SaveInv, Acquire, Goto, GotoSave, editor, tables, sqlite, locals, bounds, history, Writes, Current
<1>1. TypeOK'
  OBVIOUS
<1>2. HolderInv'
  OBVIOUS
<1>3. LockInv'
  OBVIOUS
<1>4. SaveInv'
  OBVIOUS
<1> QED
  BY <1>1, <1>2, <1>3, <1>4

\* It ends; the transaction of a save is its own.
LEMMA StatementOkStep ==
    ASSUME IInv, NEW p \in Tasks, StatementOk(p)
    PROVE  IInv'
<1>a. /\ pc[p] = "exec" /\ After(p, TRUE)
      /\ UNCHANGED <<editor, tables, interrupted, savePc, cancelPc, closer, bounds, asked, blocked, said>>
  BY DEF StatementOk
<1>b. UNCHANGED <<holder, tholder, savePc>>
  BY <1>a DEF editor, tables
<1>c. /\ tx' \in BOOLEAN /\ typed' \in BOOLEAN /\ lock' = (IF lock = "editor" /\ ~tx' THEN "none" ELSE lock)
      /\ typed' => tx'
      /\ job[p].kind = "save" => ~typed'
  <2> DEFINE s == Current(p)
  <2>1. /\ tx' = (s \in {"begin", "immediate"} \/ (tx /\ s \notin {"commit", "rollback"}))
        /\ lock' = (IF lock = "editor" /\ ~(s \in {"begin", "immediate"} \/ (tx /\ s \notin {"commit", "rollback"})) THEN "none" ELSE lock)
        /\ typed' = (tx' /\ (typed \/ (s \in {"begin", "immediate"} /\ job[p].kind # "save")))
        /\ s \in {"begin", "immediate"} => ~tx
    BY DEF StatementOk, Becomes
  <2>2. ASSUME job[p].kind = "save" PROVE ~typed
    <3>1. CASE job[p].todo = Whole
      BY <2>1, <3>1, SaveStatements DEF Current, IInv, LockInv
    <3>2. CASE job[p].todo # Whole
      BY <1>a, <2>2, <3>2 DEF IInv, SaveInv
    <3> QED
      BY <3>1, <3>2
  <2> HIDE DEF s
  <2>3. tx' \in BOOLEAN
    BY <2>1, Zenon
  <2>4. typed' \in BOOLEAN
    BY <2>1, Zenon
  <2>5. lock' = (IF lock = "editor" /\ ~tx' THEN "none" ELSE lock)
    BY <2>1
  <2> QED
    BY <2>1, <2>2, <2>3, <2>4, <2>5
<1>d. /\ job' \in [Tasks -> Job] /\ failed' \in BOOLEAN
      /\ pc' \in [Tasks -> {"idle", "wait", "check", "step", "exec", "note", "end"}]
      /\ \A r \in Tasks : pc'[r] \in {"wait", "check", "step", "exec"} => job'[r].todo # <<>>
  BY <1>a, AfterType DEF IInv
<1>e. HolderInv' /\ pc'[p] \in {"note", "end", "step"}
  BY <1>a, <1>b, AfterHolder
<1>f. SaveInv'
  BY <1>a, <1>c, AfterSave
<1> USE SessionAssumption DEF IInv, TypeOK, HolderInv, LockInv, SaveInv, Goto, GotoSave, editor, tables, sqlite, locals, bounds, history
<1>1. TypeOK'
  BY <1>a, <1>c, <1>d
<1>2. HolderInv'
  BY <1>e
<1>3. LockInv'
  BY <1>a, <1>c, <1>e
<1>4. SaveInv'
  BY <1>f
<1> QED
  BY <1>1, <1>2, <1>3, <1>4

\* It fails.
LEMMA StatementFailsStep ==
    ASSUME IInv, NEW p \in Tasks, StatementFails(p)
    PROVE  IInv'
<1>a. /\ pc[p] = "exec" /\ After(p, FALSE)
      /\ UNCHANGED <<editor, tables, interrupted, savePc, cancelPc, closer, bounds, asked, blocked, said>>
  BY DEF StatementFails
<1>b. UNCHANGED <<holder, tholder, savePc>>
  BY <1>a DEF editor, tables
<1>c. /\ tx' \in BOOLEAN /\ typed' \in BOOLEAN /\ lock' = (IF lock = "editor" /\ ~tx' THEN "none" ELSE lock)
      /\ typed' => tx'
  <2> DEFINE o == OpenAfterError(p, Current(p))
  <2>1. /\ tx' = o /\ lock' = (IF lock = "editor" /\ ~o THEN "none" ELSE lock)
        /\ typed' = (typed /\ tx')
    BY DEF StatementFails, Becomes
  <2>2. o \in BOOLEAN
    BY DEF OpenAfterError
  <2> HIDE DEF o
  <2>3. typed' \in BOOLEAN
    BY <2>1, Zenon
  <2> QED
    BY <2>1, <2>2, <2>3
<1>d. /\ job' \in [Tasks -> Job] /\ failed' \in BOOLEAN
      /\ pc' \in [Tasks -> {"idle", "wait", "check", "step", "exec", "note", "end"}]
      /\ \A r \in Tasks : pc'[r] \in {"wait", "check", "step", "exec"} => job'[r].todo # <<>>
  BY <1>a, AfterType DEF IInv
<1>e. HolderInv' /\ pc'[p] \in {"note", "end", "step"}
  BY <1>a, <1>b, AfterHolder
<1>f. SaveInv'
  BY <1>a, <1>c, AfterSave
<1> USE SessionAssumption DEF IInv, TypeOK, HolderInv, LockInv, SaveInv, Goto, GotoSave, editor, tables, sqlite, locals, bounds, history
<1>1. TypeOK'
  BY <1>a, <1>c, <1>d
<1>2. HolderInv'
  BY <1>e
<1>3. LockInv'
  BY <1>a, <1>c, <1>e
<1>4. SaveInv'
  BY <1>f
<1> QED
  BY <1>1, <1>2, <1>3, <1>4

\* Or is interrupted.
LEMMA InterruptedStep ==
    ASSUME IInv, NEW p \in Tasks, Interrupted(p)
    PROVE  IInv'
<1>a. /\ pc[p] = "exec" /\ After(p, FALSE)
      /\ UNCHANGED <<editor, tables, interrupted, savePc, cancelPc, closer, bounds, asked, blocked, said>>
  BY DEF Interrupted
<1>b. UNCHANGED <<holder, tholder, savePc>>
  BY <1>a DEF editor, tables
<1>c. /\ tx' \in BOOLEAN /\ typed' \in BOOLEAN /\ lock' \in {lock, "none"}
      /\ lock' = "editor" => tx'
      /\ typed' => tx'
  <2>1. CASE Current(p) = "read" /\ UNCHANGED <<tx, lock, typed>>
    <3>1. lock = "editor" => tx
      BY <1>a, <2>1 DEF IInv, LockInv, HolderInv, Writes
    <3> QED
      BY <2>1, <3>1 DEF IInv, TypeOK, LockInv
  <2>2. CASE lock = "editor" /\ Becomes(FALSE) /\ typed' = FALSE
    BY <2>2 DEF Becomes
  <2> QED
    BY <2>1, <2>2 DEF Interrupted
<1>d. /\ job' \in [Tasks -> Job] /\ failed' \in BOOLEAN
      /\ pc' \in [Tasks -> {"idle", "wait", "check", "step", "exec", "note", "end"}]
      /\ \A r \in Tasks : pc'[r] \in {"wait", "check", "step", "exec"} => job'[r].todo # <<>>
  BY <1>a, AfterType DEF IInv
<1>e. HolderInv' /\ pc'[p] \in {"note", "end", "step"}
  BY <1>a, <1>b, AfterHolder
<1>f. SaveInv'
  BY <1>a, <1>c, AfterSave
<1> USE SessionAssumption DEF IInv, TypeOK, HolderInv, LockInv, SaveInv, Goto, GotoSave, editor, tables, sqlite, locals, bounds, history
<1>1. TypeOK'
  BY <1>a, <1>c, <1>d
<1>2. HolderInv'
  BY <1>e
<1>3. LockInv'
  BY <1>a, <1>c, <1>e
<1>4. SaveInv'
  BY <1>f
<1> QED
  BY <1>1, <1>2, <1>3, <1>4

\* A script notes its transaction.
LEMMA NoteStatementStep ==
    ASSUME IInv, NEW p \in Tasks, NoteStatement(p)
    PROVE  IInv'
<1> USE SessionAssumption DEF IInv, TypeOK, HolderInv, LockInv, SaveInv, NoteStatement, Goto, GotoSave, editor, tables, sqlite, locals, bounds, history, Writes, Current
<1>1. TypeOK'
  OBVIOUS
<1>2. HolderInv'
  OBVIOUS
<1>3. LockInv'
  OBVIOUS
<1>4. SaveInv'
  OBVIOUS
<1> QED
  BY <1>1, <1>2, <1>3, <1>4

\* The task ends; a closed connection takes its transaction with it.
LEMMA EndStep ==
    ASSUME IInv, NEW p \in Tasks, End(p)
    PROVE  IInv'
<1>a. \/ UNCHANGED <<tx, lock, typed>> /\ (slot' \/ \E r \in Tasks : pc'[r] # "idle")
      \/ tx' = FALSE /\ lock' = (IF lock = "editor" THEN "none" ELSE lock) /\ typed' = FALSE
  BY DEF End, DropConnection, Becomes
<1>b. tx' \in BOOLEAN /\ typed' \in BOOLEAN /\ lock' \in {"none", "editor", "tables", "other"}
  BY <1>a DEF IInv, TypeOK
<1> USE SessionAssumption DEF IInv, TypeOK, HolderInv, LockInv, SaveInv, End, Goto, GotoSave, editor, tables, sqlite, locals, bounds, history, Writes, Current
<1>1. TypeOK'
  <2>1. note' \in BOOLEAN /\ failed' \in BOOLEAN /\ holder' \in Tasks \cup {Nobody}
    OBVIOUS
  <2>2. pc' \in [Tasks -> {"idle", "wait", "check", "step", "exec", "note", "end"}]
    OBVIOUS
  <2>3. \A r \in Tasks : pc'[r] \in {"wait", "check", "step", "exec"} => job'[r].todo # <<>>
    OBVIOUS
  <2>4. asked' \in [Tasks -> {"no", "sure", "late"}]
    OBVIOUS
  <2> QED
    BY <1>b, <2>1, <2>2, <2>3, <2>4
<1>2. HolderInv'
  OBVIOUS
<1>3. LockInv'
  BY <1>a
<1>4. SaveInv'
  BY <1>a
<1> QED
  BY <1>1, <1>2, <1>3, <1>4

\* A cancel leaves its mark,
LEMMA CancelMarkStep ==
    ASSUME IInv, NEW x \in Cancels, CancelMark(x)
    PROVE  IInv'
<1> USE SessionAssumption DEF IInv, TypeOK, HolderInv, LockInv, SaveInv, CancelMark, Goto, GotoSave, editor, tables, sqlite, locals, bounds, history, Writes, Current
<1>1. TypeOK'
  OBVIOUS
<1>2. HolderInv'
  OBVIOUS
<1>3. LockInv'
  OBVIOUS
<1>4. SaveInv'
  OBVIOUS
<1> QED
  BY <1>1, <1>2, <1>3, <1>4

\* and its interrupt.
LEMMA CancelInterruptStep ==
    ASSUME IInv, NEW x \in Cancels, CancelInterrupt(x)
    PROVE  IInv'
<1> USE SessionAssumption DEF IInv, TypeOK, HolderInv, LockInv, SaveInv, CancelInterrupt, Goto, GotoSave, editor, tables, sqlite, locals, bounds, history, Writes, Current
<1>1. TypeOK'
  OBVIOUS
<1>2. HolderInv'
  OBVIOUS
<1>3. LockInv'
  OBVIOUS
<1>4. SaveInv'
  OBVIOUS
<1> QED
  BY <1>1, <1>2, <1>3, <1>4

\* A save of the tables begins,
LEMMA AskSaveStep ==
    ASSUME IInv, NEW q \in Saves, AskSave(q)
    PROVE  IInv'
<1> USE SessionAssumption DEF IInv, TypeOK, HolderInv, LockInv, SaveInv, AskSave, Goto, GotoSave, editor, tables, sqlite, locals, bounds, history, Writes, Current
<1>1. TypeOK'
  OBVIOUS
<1>2. HolderInv'
  OBVIOUS
<1>3. LockInv'
  OBVIOUS
<1>4. SaveInv'
  OBVIOUS
<1> QED
  BY <1>1, <1>2, <1>3, <1>4

\* has their connection,
LEMMA LockTablesStep ==
    ASSUME IInv, NEW q \in Saves, LockTables(q)
    PROVE  IInv'
<1> USE SessionAssumption DEF IInv, TypeOK, HolderInv, LockInv, SaveInv, LockTables, Goto, GotoSave, editor, tables, sqlite, locals, bounds, history, Writes, Current
<1>1. TypeOK'
  OBVIOUS
<1>2. HolderInv'
  OBVIOUS
<1>3. LockInv'
  OBVIOUS
<1>4. SaveInv'
  OBVIOUS
<1> QED
  BY <1>1, <1>2, <1>3, <1>4

\* and the file;
LEMMA SaveBeginsStep ==
    ASSUME IInv, NEW q \in Saves, SaveBegins(q)
    PROVE  IInv'
<1> USE SessionAssumption DEF IInv, TypeOK, HolderInv, LockInv, SaveInv, SaveBegins, Goto, GotoSave, editor, tables, sqlite, locals, bounds, history, Writes, Current
<1>1. TypeOK'
  OBVIOUS
<1>2. HolderInv'
  OBVIOUS
<1>3. LockInv'
  OBVIOUS
<1>4. SaveInv'
  OBVIOUS
<1> QED
  BY <1>1, <1>2, <1>3, <1>4

\* or it doesn't get it,
LEMMA SaveBusyStep ==
    ASSUME IInv, NEW q \in Saves, SaveBusy(q)
    PROVE  IInv'
<1> USE SessionAssumption DEF IInv, TypeOK, HolderInv, LockInv, SaveInv, SaveBusy, Goto, GotoSave, editor, tables, sqlite, locals, bounds, history, Writes, Current
<1>1. TypeOK'
  OBVIOUS
<1>2. HolderInv'
  OBVIOUS
<1>3. LockInv'
  OBVIOUS
<1>4. SaveInv'
  OBVIOUS
<1> QED
  BY <1>1, <1>2, <1>3, <1>4

\* and says so.
LEMMA DescribeStep ==
    ASSUME IInv, NEW q \in Saves, Describe(q)
    PROVE  IInv'
<1> USE SessionAssumption DEF IInv, TypeOK, HolderInv, LockInv, SaveInv, Describe, Goto, GotoSave, editor, tables, sqlite, locals, bounds, history, Writes, Current
<1>1. TypeOK'
  OBVIOUS
<1>2. HolderInv'
  OBVIOUS
<1>3. LockInv'
  OBVIOUS
<1>4. SaveInv'
  OBVIOUS
<1> QED
  BY <1>1, <1>2, <1>3, <1>4

\* It lets the file go.
LEMMA SaveEndsStep ==
    ASSUME IInv, NEW q \in Saves, SaveEnds(q)
    PROVE  IInv'
<1> USE SessionAssumption DEF IInv, TypeOK, HolderInv, LockInv, SaveInv, SaveEnds, Goto, GotoSave, editor, tables, sqlite, locals, bounds, history, Writes, Current
<1>1. TypeOK'
  OBVIOUS
<1>2. HolderInv'
  OBVIOUS
<1>3. LockInv'
  OBVIOUS
<1>4. SaveInv'
  OBVIOUS
<1> QED
  BY <1>1, <1>2, <1>3, <1>4

\* The close comes for the tables,
LEMMA CloseTablesStep ==
    ASSUME IInv, CloseTables
    PROVE  IInv'
<1> USE SessionAssumption DEF IInv, TypeOK, HolderInv, LockInv, SaveInv, CloseTables, Goto, GotoSave, editor, tables, sqlite, locals, bounds, history, Writes, Current
<1>1. TypeOK'
  OBVIOUS
<1>2. HolderInv'
  OBVIOUS
<1>3. LockInv'
  OBVIOUS
<1>4. SaveInv'
  OBVIOUS
<1> QED
  BY <1>1, <1>2, <1>3, <1>4

\* and for the editor.
LEMMA CloseEditorStep ==
    ASSUME IInv, CloseEditor
    PROVE  IInv'
<1>a. \/ UNCHANGED <<tx, lock, typed>> /\ (slot' \/ \E r \in Tasks : pc'[r] # "idle")
      \/ tx' = FALSE /\ lock' = (IF lock = "editor" THEN "none" ELSE lock) /\ typed' = FALSE
  BY DEF CloseEditor, DropConnection, Becomes
<1>b. tx' \in BOOLEAN /\ typed' \in BOOLEAN /\ lock' \in {"none", "editor", "tables", "other"}
  BY <1>a DEF IInv, TypeOK
<1> USE SessionAssumption DEF IInv, TypeOK, HolderInv, LockInv, SaveInv, CloseEditor, Goto, GotoSave, editor, tables, sqlite, locals, bounds, history, Writes, Current
<1>1. TypeOK'
  BY <1>b
<1>2. HolderInv'
  OBVIOUS
<1>3. LockInv'
  BY <1>a
<1>4. SaveInv'
  BY <1>a
<1> QED
  BY <1>1, <1>2, <1>3, <1>4

\* Another program takes the file,
LEMMA OtherLocksStep ==
    ASSUME IInv, OtherLocks
    PROVE  IInv'
<1> USE SessionAssumption DEF IInv, TypeOK, HolderInv, LockInv, SaveInv, OtherLocks, Goto, GotoSave, editor, tables, sqlite, locals, bounds, history, Writes, Current
<1>1. TypeOK'
  OBVIOUS
<1>2. HolderInv'
  OBVIOUS
<1>3. LockInv'
  OBVIOUS
<1>4. SaveInv'
  OBVIOUS
<1> QED
  BY <1>1, <1>2, <1>3, <1>4

\* and lets it go.
LEMMA OtherUnlocksStep ==
    ASSUME IInv, OtherUnlocks
    PROVE  IInv'
<1> USE SessionAssumption DEF IInv, TypeOK, HolderInv, LockInv, SaveInv, OtherUnlocks, Goto, GotoSave, editor, tables, sqlite, locals, bounds, history, Writes, Current
<1>1. TypeOK'
  OBVIOUS
<1>2. HolderInv'
  OBVIOUS
<1>3. LockInv'
  OBVIOUS
<1>4. SaveInv'
  OBVIOUS
<1> QED
  BY <1>1, <1>2, <1>3, <1>4

---------------------------------------------------------------------------
LEMMA InitIInv ==
    ASSUME Init
    PROVE  IInv
<1> USE SessionAssumption DEF Init
<1>1. [kind |-> "single", todo |-> <<>>] \in Job
  BY EmptySeq DEF Job
<1>2. job \in [Tasks -> Job] /\ \A p \in Tasks : job[p].kind = "single"
  BY <1>1
<1>3. TypeOK
  <2>1. runs \in 0..MaxRuns /\ others \in 0..MaxOthers
    OBVIOUS
  <2> QED
    BY <1>2, <2>1 DEF TypeOK
<1>4. HolderInv /\ LockInv /\ SaveInv
  BY <1>2 DEF HolderInv, LockInv, SaveInv
<1> QED
  BY <1>3, <1>4 DEF IInv

LEMMA ProgressStep ==
    ASSUME IInv, NEW p \in Tasks, Progress(p)
    PROVE  IInv'
BY LockStep, CheckMarkStep, StepStep, AcquireStep, InterruptedStep, NoteStatementStep, EndStep,
   StatementOkStep, StatementFailsStep
DEF Progress

LEMMA SaveStep ==
    ASSUME IInv, NEW q \in Saves, Save(q)
    PROVE  IInv'
BY AskSaveStep, LockTablesStep, SaveBeginsStep, SaveBusyStep, DescribeStep, SaveEndsStep DEF Save

LEMMA NextIInv ==
    ASSUME IInv, [Next]_vars
    PROVE  IInv'
<1>1. CASE UNCHANGED vars
  BY <1>1 DEF vars, editor, tables, sqlite, locals, bounds, history, IInv, TypeOK, HolderInv,
     LockInv, SaveInv, Writes, Current
<1> QED
  BY <1>1, AskStep, ProgressStep, StatementOkStep, StatementFailsStep, SaveStep, CancelMarkStep,
     CancelInterruptStep, CloseTablesStep, CloseEditorStep, OtherLocksStep, OtherUnlocksStep
  DEF Next

\* The invariant: who has the mutexes, the file's lock and the open transaction,
\* and how far a save on the editor's connection is.
THEOREM Invariance == Spec => []IInv
<1>1. Init => IInv
  BY InitIInv
<1>2. IInv /\ [Next]_vars => IInv'
  BY NextIInv
<1> QED
  BY <1>1, <1>2, PTL DEF Spec

\* The variables keep their types.
THEOREM TypeCorrect == Spec => []TypeOK
<1>1. IInv => TypeOK
  BY DEF IInv
<1> QED
  BY <1>1, Invariance, PTL

\* Neither connection leaves its lock on the file behind (in_transaction, close).
THEOREM FileIsLetGo == Spec => []NobodyKeepsTheFile
<1>1. IInv => NobodyKeepsTheFile
  BY SessionAssumption DEF IInv, TypeOK, HolderInv, LockInv, NobodyKeepsTheFile
<1> QED
  BY <1>1, Invariance, PTL

---------------------------------------------------------------------------
(* Whose transaction a save ends *)

\* A statement of a save that ends a transaction finds none that was typed.
LEMMA SaveKeepsTyped ==
    ASSUME IInv, NEW p \in Tasks, StatementOk(p) \/ StatementFails(p) \/ Interrupted(p),
           job[p].kind = "save", typed
    PROVE  typed'
<1>1. pc[p] = "exec" /\ job[p].todo = Whole /\ tx
  BY DEF IInv, SaveInv, LockInv, StatementOk, StatementFails, Interrupted
<1>2. Current(p) = "immediate"
  BY <1>1, SaveStatements DEF Current
<1>3. CASE StatementFails(p)
  <2>1. OpenAfterError(p, Current(p))
    BY <1>1, <1>2 DEF OpenAfterError
  <2>2. typed' = (typed /\ tx') /\ tx' = OpenAfterError(p, Current(p))
    BY <1>3 DEF StatementFails, Becomes
  <2> QED
    BY <2>1, <2>2
<1> QED
  BY <1>1, <1>2, <1>3 DEF StatementOk, Interrupted

\* The steps that end a transaction that was typed: a statement, or the end of a
\* closed connection.
LEMMA TypedEnds ==
    ASSUME IInv, [Next]_vars, typed, ~typed'
    PROVE  \/ \E p \in Tasks : StatementOk(p) \/ StatementFails(p) \/ Interrupted(p)
           \/ ~slot
           \/ CloseEditor /\ \A p \in Tasks : pc[p] = "idle"
<1>1. ASSUME NEW p \in Tasks, End(p) PROVE ~slot
  BY <1>1 DEF End, DropConnection
<1>2. ASSUME CloseEditor PROVE \A p \in Tasks : pc[p] = "idle"
  BY <1>2 DEF CloseEditor, DropConnection
<1> QED
  BY <1>1, <1>2 DEF Next, Progress, Save, Ask, Lock, CheckMark, Step, Acquire, NoteStatement, CancelMark,
     CancelInterrupt, AskSave, LockTables, SaveBegins, SaveBusy, Describe, SaveEnds, CloseTables,
     OtherLocks, OtherUnlocks, vars, history

\* A save on the editor's connection never ends the transaction the person opened
\* there, whatever fails and whatever is interrupted (in_transaction).
THEOREM SavesAreTheirOwn == Spec => SavesLeaveTransaction
<1> DEFINE Leaves == \A p \in Tasks : typed /\ ~typed' /\ holder = p => job[p].kind # "save" \/ ~slot
<1>1. IInv /\ [Next]_vars => [Leaves]_vars
  <2> SUFFICES ASSUME IInv, [Next]_vars, NEW p \in Tasks, typed, ~typed', holder = p,
                      job[p].kind = "save", slot
      PROVE  FALSE
    OBVIOUS
  <2>1. pc[p] # "idle"
    BY DEF IInv, HolderInv
  <2>2. PICK r \in Tasks : StatementOk(r) \/ StatementFails(r) \/ Interrupted(r)
    BY <2>1, TypedEnds
  <2>3. r = p
    BY <2>2 DEF IInv, HolderInv, StatementOk, StatementFails, Interrupted
  <2> QED
    BY <2>2, <2>3, SaveKeepsTyped
<1> QED
  BY <1>1, Invariance, PTL DEF Spec, SavesLeaveTransaction

---------------------------------------------------------------------------
(* The cancel mark and the note *)

\* A script that a cancel found on the connection is still marked.
AskedInv == \A p \in Tasks : asked[p] # "no" => cancelled

\* The person opens transactions with a BEGIN, and a button or a plan is one
\* statement.
PlainJob(j) ==
    /\ j.kind # "save" => \A i \in 1..Len(j.todo) : j.todo[i] # "immediate"
    /\ j.kind = "single" => Len(j.todo) = 1

PlainInv ==
    \A p \in Tasks :
       /\ pc[p] \in {"wait", "check", "step", "exec"} => PlainJob(job[p])
       /\ pc[p] = "note" => IsScript(p) /\ (job[p].todo # <<>> => PlainJob(job[p]))

\* A transaction the person opened is noted before it has the file's lock.
NamedInv ==
    typed /\ ~note => /\ lock # "editor"
                      /\ \E p \in Tasks : pc[p] \in {"note", "end"}

\* A script notes the transaction after its statement, another task ends or goes
\* on.
LEMMA AfterNote ==
    ASSUME IInv, NEW p \in Tasks, NEW ok \in BOOLEAN, pc[p] = "exec", After(p, ok)
    PROVE  /\ holder = p /\ IsScript(p)' = IsScript(p)
           /\ IsScript(p) => pc'[p] = "note"
           /\ \A r \in Tasks \ {p} : pc'[r] = pc[r] /\ pc[r] \in {"idle", "wait"} /\ job'[r] = job[r]
           /\ job'[p].kind = job[p].kind /\ job'[p].todo = Tail(job[p].todo)
<1>1. job' \in [Tasks -> Job] /\ pc' \in [Tasks -> {"idle", "wait", "check", "step", "exec", "note", "end"}]
  BY AfterType DEF IInv
<1>2. job'[p].kind = job[p].kind /\ job'[p].todo = Tail(job[p].todo)
  BY <1>1 DEF After, IInv, TypeOK, Job
<1>3. \A r \in Tasks \ {p} : pc'[r] = pc[r] /\ job'[r] = job[r]
  BY DEF After, Goto, IInv, TypeOK
<1>4. holder = p /\ \A r \in Tasks \ {p} : pc[r] \in {"idle", "wait"}
  BY DEF IInv, HolderInv
<1>5. IsScript(p) => pc'[p] = "note"
  BY DEF After, Goto, IInv, TypeOK
<1> QED
  BY <1>2, <1>3, <1>4, <1>5 DEF IsScript

\* Nobody else has the connection while a statement is executed.
LEMMA Alone ==
    ASSUME IInv, NEW p \in Tasks, pc[p] = "exec"
    PROVE  \A r \in Tasks : pc[r] \notin {"note", "end"} /\ (pc[r] = "exec" => r = p)
BY DEF IInv, HolderInv

\* What is left of a plain job is one.
LEMMA AfterPlain ==
    ASSUME IInv, PlainInv, NEW p \in Tasks, NEW ok \in BOOLEAN, pc[p] = "exec", After(p, ok)
    PROVE  PlainInv' /\ (job[p].kind = "single" => pc'[p] = "end")
<1> USE AfterNote
<1> DEFINE s == job[p].todo
<1>1. PlainJob(job[p]) /\ s \in Seq(Statements) /\ s # <<>> /\ job[p].kind \in {"script", "single", "save"}
  BY DEF PlainInv, IInv, TypeOK, Job
<1>2. /\ Len(Tail(s)) = Len(s) - 1 /\ Len(s) \in Nat
      /\ \A i \in 1..Len(Tail(s)) : i + 1 \in 1..Len(s) /\ Tail(s)[i] = s[i + 1]
  BY <1>1, HeadTailProperties, LenProperties
<1>3. ASSUME job[p].kind = "script" PROVE PlainJob(job'[p])
  <2>1. \A i \in 1..Len(s) : s[i] # "immediate"
    BY <1>1, <1>3 DEF PlainJob
  <2>2. \A i \in 1..Len(Tail(s)) : Tail(s)[i] # "immediate"
    BY <1>2, <2>1
  <2>3. job'[p].kind = "script" /\ job'[p].todo = Tail(s)
    BY <1>3
  <2> QED
    BY <2>2, <2>3 DEF PlainJob
<1>4. pc'[p] = IF IsScript(p) THEN "note" ELSE IF ~ok \/ Len(s) = 1 THEN "end" ELSE "step"
  BY DEF After, Goto, IInv, TypeOK
<1>5. job[p].kind = "single" => pc'[p] = "end"
  BY <1>1, <1>4 DEF PlainJob, IsScript
<1>6. job[p].kind = "save" => pc'[p] \in {"step", "end"} /\ PlainJob(job'[p])
  BY <1>4 DEF IsScript, PlainJob
<1>7. /\ pc'[p] \in {"wait", "check", "step", "exec"} => PlainJob(job'[p])
      /\ pc'[p] = "note" => IsScript(p)' /\ PlainJob(job'[p])
  BY <1>1, <1>3, <1>4, <1>5, <1>6 DEF IsScript
<1>8. ASSUME NEW r \in Tasks \ {p}
      PROVE  /\ pc'[r] \in {"wait", "check", "step", "exec"} => PlainJob(job'[r])
             /\ pc'[r] # "note"
  BY DEF PlainInv
<1> HIDE DEF s
<1> QED
  BY <1>5, <1>7, <1>8 DEF PlainInv

\* A statement changes nothing a script's note depends on but the transaction.
LEMMA StatementNote ==
    ASSUME IInv, NEW p \in Tasks, StatementOk(p) \/ StatementFails(p) \/ Interrupted(p)
    PROVE  NoteFollowsTransaction'
<1>1. holder' = holder /\ pc[p] = "exec"
  BY DEF StatementOk, StatementFails, Interrupted, editor
<1>2. PICK ok \in BOOLEAN : After(p, ok)
  BY DEF StatementOk, StatementFails, Interrupted
<1>3. holder' = p /\ (IsScript(p)' => pc'[p] = "note")
  BY <1>1, <1>2, AfterNote
<1> QED
  BY <1>3, SessionAssumption DEF SessionAssumption, NoteFollowsTransaction, IsScript

\* The mark is only cleared together with what was asked of every script.
LEMMA AskedStep ==
    ASSUME TypeOK, AskedInv, [Next]_vars
    PROVE  AskedInv'
<1> USE SessionAssumption DEF IInv, TypeOK, HolderInv, LockInv, Goto, GotoSave, editor, tables, sqlite, locals, bounds, history,
       AskedInv, IsScript
<1>1. ASSUME NEW p \in Tasks, Ask(p) PROVE AskedInv'
  BY <1>1 DEF Ask, StartScript
<1>2. ASSUME NEW p \in Tasks, Lock(p) PROVE AskedInv'
  BY <1>2 DEF Lock
<1>3. ASSUME NEW p \in Tasks, CheckMark(p) PROVE AskedInv'
  BY <1>3 DEF CheckMark
<1>4. ASSUME NEW p \in Tasks, Step(p) PROVE AskedInv'
  BY <1>4 DEF Step
<1>5. ASSUME NEW p \in Tasks, Acquire(p) PROVE AskedInv'
  BY <1>5 DEF Acquire
<1>6. ASSUME NEW p \in Tasks, StatementOk(p) PROVE AskedInv'
  BY <1>6 DEF StatementOk, After, Becomes
<1>7. ASSUME NEW p \in Tasks, StatementFails(p) PROVE AskedInv'
  BY <1>7 DEF StatementFails, After, Becomes, OpenAfterError
<1>8. ASSUME NEW p \in Tasks, Interrupted(p) PROVE AskedInv'
  BY <1>8 DEF Interrupted, After, Becomes
<1>9. ASSUME NEW p \in Tasks, NoteStatement(p) PROVE AskedInv'
  BY <1>9 DEF NoteStatement
<1>10. ASSUME NEW p \in Tasks, End(p) PROVE AskedInv'
  BY <1>10 DEF End, DropConnection, Becomes
<1>11. ASSUME NEW q \in Saves, Save(q) PROVE AskedInv'
  BY <1>11 DEF Save, AskSave, LockTables, SaveBegins, SaveBusy, Describe, SaveEnds
<1>12. ASSUME NEW x \in Cancels, CancelMark(x) PROVE AskedInv'
  BY <1>12 DEF CancelMark
<1>13. ASSUME NEW x \in Cancels, CancelInterrupt(x) PROVE AskedInv'
  BY <1>13 DEF CancelInterrupt
<1>14. CASE CloseTables
  BY <1>14 DEF CloseTables
<1>15. CASE CloseEditor
  BY <1>15 DEF CloseEditor, DropConnection, Becomes
<1>16. CASE OtherLocks
  BY <1>16 DEF OtherLocks
<1>17. CASE OtherUnlocks
  BY <1>17 DEF OtherUnlocks
<1>18. CASE UNCHANGED vars
  BY <1>18 DEF vars
<1> QED
    BY <1>1, <1>2, <1>3, <1>4, <1>5, <1>6, <1>7, <1>8, <1>9, <1>10, <1>11,
     <1>12, <1>13, <1>14, <1>15, <1>16, <1>17, <1>18
  DEF Next, Progress

\* The note is taken while the connection is still held.
LEMMA NoteStep ==
    ASSUME IInv, NoteFollowsTransaction, [Next]_vars
    PROVE  NoteFollowsTransaction'
<1> USE SessionAssumption DEF IInv, TypeOK, HolderInv, LockInv, Goto, GotoSave, editor, tables, sqlite, locals, bounds, history,
       NoteFollowsTransaction, IsScript, Job
<1>1. ASSUME NEW p \in Tasks, Ask(p) PROVE NoteFollowsTransaction'
  BY <1>1 DEF Ask, StartScript
<1>2. ASSUME NEW p \in Tasks, Lock(p) PROVE NoteFollowsTransaction'
  BY <1>2 DEF Lock
<1>3. ASSUME NEW p \in Tasks, CheckMark(p) PROVE NoteFollowsTransaction'
  BY <1>3 DEF CheckMark
<1>4. ASSUME NEW p \in Tasks, Step(p) PROVE NoteFollowsTransaction'
  BY <1>4 DEF Step
<1>5. ASSUME NEW p \in Tasks, Acquire(p) PROVE NoteFollowsTransaction'
  BY <1>5 DEF Acquire
<1>6. ASSUME NEW p \in Tasks, StatementOk(p) PROVE NoteFollowsTransaction'
  BY <1>6, StatementNote
<1>7. ASSUME NEW p \in Tasks, StatementFails(p) PROVE NoteFollowsTransaction'
  BY <1>7, StatementNote
<1>8. ASSUME NEW p \in Tasks, Interrupted(p) PROVE NoteFollowsTransaction'
  BY <1>8, StatementNote
<1>9. ASSUME NEW p \in Tasks, NoteStatement(p) PROVE NoteFollowsTransaction'
  BY <1>9 DEF NoteStatement
<1>10. ASSUME NEW p \in Tasks, End(p) PROVE NoteFollowsTransaction'
  BY <1>10 DEF End, DropConnection, Becomes
<1>11. ASSUME NEW q \in Saves, Save(q) PROVE NoteFollowsTransaction'
  BY <1>11 DEF Save, AskSave, LockTables, SaveBegins, SaveBusy, Describe, SaveEnds
<1>12. ASSUME NEW x \in Cancels, CancelMark(x) PROVE NoteFollowsTransaction'
  BY <1>12 DEF CancelMark
<1>13. ASSUME NEW x \in Cancels, CancelInterrupt(x) PROVE NoteFollowsTransaction'
  BY <1>13 DEF CancelInterrupt
<1>14. CASE CloseTables
  BY <1>14 DEF CloseTables
<1>15. CASE CloseEditor
  BY <1>15 DEF CloseEditor, DropConnection, Becomes
<1>16. CASE OtherLocks
  BY <1>16 DEF OtherLocks
<1>17. CASE OtherUnlocks
  BY <1>17 DEF OtherUnlocks
<1>18. CASE UNCHANGED vars
  BY <1>18 DEF vars
<1> QED
    BY <1>1, <1>2, <1>3, <1>4, <1>5, <1>6, <1>7, <1>8, <1>9, <1>10, <1>11,
     <1>12, <1>13, <1>14, <1>15, <1>16, <1>17, <1>18
  DEF Next, Progress

\* A task that was asked for something plain has only that left.
LEMMA PlainStep ==
    ASSUME IInv, PlainInv, (\A j \in Jobs : PlainJob(j)), [Next]_vars
    PROVE  PlainInv'
<1> USE SessionAssumption DEF HolderInv, Goto, GotoSave, editor, tables, sqlite, locals, bounds, history,
       PlainInv, IsScript
<1>1. ASSUME NEW p \in Tasks, Ask(p) PROVE PlainInv'
  <2>1. job \in [Tasks -> Job] /\ pc \in [Tasks -> {"idle", "wait", "check", "step", "exec", "note", "end"}]
    BY DEF IInv, TypeOK
  <2> QED
    BY <1>1, <2>1 DEF Ask
<1>2. ASSUME NEW p \in Tasks, Lock(p) PROVE PlainInv'
  BY <1>2 DEF Lock
<1>3. ASSUME NEW p \in Tasks, CheckMark(p) PROVE PlainInv'
  BY <1>3 DEF CheckMark
<1>4. ASSUME NEW p \in Tasks, Step(p) PROVE PlainInv'
  BY <1>4 DEF Step
<1>5. ASSUME NEW p \in Tasks, Acquire(p) PROVE PlainInv'
  BY <1>5 DEF Acquire
<1>6. ASSUME NEW p \in Tasks, StatementOk(p) PROVE PlainInv'
  <2>1. pc[p] = "exec" /\ After(p, TRUE)
    BY <1>6 DEF StatementOk
  <2> QED
    BY <2>1, AfterPlain
<1>7. ASSUME NEW p \in Tasks, StatementFails(p) PROVE PlainInv'
  <2>1. pc[p] = "exec" /\ After(p, FALSE)
    BY <1>7 DEF StatementFails
  <2> QED
    BY <2>1, AfterPlain
<1>8. ASSUME NEW p \in Tasks, Interrupted(p) PROVE PlainInv'
  <2>1. pc[p] = "exec" /\ After(p, FALSE)
    BY <1>8 DEF Interrupted
  <2> QED
    BY <2>1, AfterPlain
<1>9. ASSUME NEW p \in Tasks, NoteStatement(p) PROVE PlainInv'
  BY <1>9 DEF NoteStatement
<1>10. ASSUME NEW p \in Tasks, End(p) PROVE PlainInv'
  BY <1>10 DEF End, DropConnection, Becomes
<1>11. ASSUME NEW q \in Saves, Save(q) PROVE PlainInv'
  BY <1>11 DEF Save, AskSave, LockTables, SaveBegins, SaveBusy, Describe, SaveEnds
<1>12. ASSUME NEW x \in Cancels, CancelMark(x) PROVE PlainInv'
  BY <1>12 DEF CancelMark
<1>13. ASSUME NEW x \in Cancels, CancelInterrupt(x) PROVE PlainInv'
  BY <1>13 DEF CancelInterrupt
<1>14. CASE CloseTables
  BY <1>14 DEF CloseTables
<1>15. CASE CloseEditor
  BY <1>15 DEF CloseEditor, DropConnection, Becomes
<1>16. CASE OtherLocks
  BY <1>16 DEF OtherLocks
<1>17. CASE OtherUnlocks
  BY <1>17 DEF OtherUnlocks
<1>18. CASE UNCHANGED vars
  BY <1>18 DEF vars
<1> QED
    BY <1>1, <1>2, <1>3, <1>4, <1>5, <1>6, <1>7, <1>8, <1>9, <1>10, <1>11,
     <1>12, <1>13, <1>14, <1>15, <1>16, <1>17, <1>18
  DEF Next, Progress

\* A BEGIN locks nothing, and the next statement comes after the note.
LEMMA NamedStep ==
    ASSUME IInv, PlainInv, NamedInv, [Next]_vars
    PROVE  NamedInv'
<1> USE SessionAssumption DEF IInv, TypeOK, HolderInv, LockInv, Goto, GotoSave, editor, tables, sqlite, locals, bounds, history,
       NamedInv, PlainInv, PlainJob, Job, Current, Writes, IsScript
<1>1. ASSUME NEW p \in Tasks, Ask(p) PROVE NamedInv'
  BY <1>1 DEF Ask, StartScript
<1>2. ASSUME NEW p \in Tasks, Lock(p) PROVE NamedInv'
  BY <1>2 DEF Lock
<1>3. ASSUME NEW p \in Tasks, CheckMark(p) PROVE NamedInv'
  BY <1>3 DEF CheckMark
<1>4. ASSUME NEW p \in Tasks, Step(p) PROVE NamedInv'
  BY <1>4 DEF Step
<1>5. ASSUME NEW p \in Tasks, Acquire(p) PROVE NamedInv'
  <2>1. \A r \in Tasks : pc[r] \notin {"note", "end"}
    <3>1. IInv /\ pc[p] = "exec"
      BY <1>5 DEF Acquire
    <3> QED
      BY <3>1, Alone
  <2>2. typed => note
    BY <2>1
  <2> QED
    BY <1>5, <2>2 DEF Acquire
<1>6. ASSUME NEW p \in Tasks, StatementOk(p) PROVE NamedInv'
  <2>1. \A r \in Tasks : pc[r] \notin {"note", "end"}
    <3>1. IInv /\ pc[p] = "exec"
      BY <1>6 DEF StatementOk
    <3> QED
      BY <3>1, Alone
  <2>2. typed => note
    BY <2>1
  <2>3. After(p, TRUE) /\ note' = note /\ pc[p] = "exec"
    BY <1>6 DEF StatementOk
  <2>4. ASSUME typed', ~note PROVE Current(p) = "begin" /\ ~tx /\ job[p].kind # "save"
    <3>1. Current(p) \in {"begin", "immediate"} /\ job[p].kind # "save" /\ ~tx
      BY <1>6, <2>2, <2>4 DEF StatementOk
    <3>2. job[p].todo[1] # "immediate" /\ Current(p) = job[p].todo[1]
      <4>1. Len(job[p].todo) \in Nat /\ Len(job[p].todo) # 0
        BY <2>3, EmptySeq
      <4> QED
        BY <2>3, <3>1, <4>1
    <3> QED
      BY <3>1, <3>2
  <2>5. ASSUME typed', ~note PROVE pc'[p] \in {"note", "end"}
    <3>1. IInv /\ PlainInv /\ job[p].kind \in {"script", "single", "save"}
      OBVIOUS
    <3> QED
      BY <2>3, <2>4, <2>5, <3>1, AfterNote, AfterPlain DEF IsScript
  <2>6. ASSUME typed', ~note PROVE lock' # "editor"
    <3>1. lock # "editor"
      <4>1. \A r \in Tasks : pc[r] = "exec" => r = p
        <5>1. IInv /\ pc[p] = "exec"
          BY <2>3
        <5> QED
          BY <5>1, Alone
      <4>2. ~Writes(Current(p)) /\ ~tx
        BY <2>4, <2>6 DEF Writes
      <4> QED
        BY <4>1, <4>2 DEF LockInv
    <3> QED
      BY <1>6, <3>1 DEF StatementOk, Becomes
  <2> QED
    BY <2>3, <2>5, <2>6
<1>7. ASSUME NEW p \in Tasks, StatementFails(p) PROVE NamedInv'
  <2>1. \A r \in Tasks : pc[r] \notin {"note", "end"}
    <3>1. IInv /\ pc[p] = "exec"
      BY <1>7 DEF StatementFails
    <3> QED
      BY <3>1, Alone
  <2>2. typed => note
    BY <2>1
  <2>3. typed' => typed
    BY <1>7 DEF StatementFails
  <2> QED
    BY <1>7, <2>2, <2>3 DEF StatementFails
<1>8. ASSUME NEW p \in Tasks, Interrupted(p) PROVE NamedInv'
  <2>1. \A r \in Tasks : pc[r] \notin {"note", "end"}
    <3>1. IInv /\ pc[p] = "exec"
      BY <1>8 DEF Interrupted
    <3> QED
      BY <3>1, Alone
  <2>2. typed => note
    BY <2>1
  <2> QED
    BY <1>8, <2>2 DEF Interrupted
<1>9. ASSUME NEW p \in Tasks, NoteStatement(p) PROVE NamedInv'
  BY <1>9 DEF NoteStatement
<1>10. ASSUME NEW p \in Tasks, End(p) PROVE NamedInv'
  BY <1>10 DEF End, DropConnection, Becomes
<1>11. ASSUME NEW q \in Saves, Save(q) PROVE NamedInv'
  BY <1>11 DEF Save, AskSave, LockTables, SaveBegins, SaveBusy, Describe, SaveEnds
<1>12. ASSUME NEW x \in Cancels, CancelMark(x) PROVE NamedInv'
  BY <1>12 DEF CancelMark
<1>13. ASSUME NEW x \in Cancels, CancelInterrupt(x) PROVE NamedInv'
  BY <1>13 DEF CancelInterrupt
<1>14. CASE CloseTables
  BY <1>14 DEF CloseTables
<1>15. CASE CloseEditor
  BY <1>15 DEF CloseEditor, DropConnection, Becomes
<1>16. CASE OtherLocks
  BY <1>16 DEF OtherLocks
<1>17. CASE OtherUnlocks
  BY <1>17 DEF OtherUnlocks
<1>18. CASE UNCHANGED vars
  BY <1>18 DEF vars
<1> QED
    BY <1>1, <1>2, <1>3, <1>4, <1>5, <1>6, <1>7, <1>8, <1>9, <1>10, <1>11,
     <1>12, <1>13, <1>14, <1>15, <1>16, <1>17, <1>18
  DEF Next, Progress

\* A script gets from the check to its next statement only past the mark.
LEMMA CheckFollows ==
    ASSUME TypeOK, AskedInv, [Next]_vars
    PROVE  \A c \in Tasks : pc[c] = "check" /\ pc'[c] = "step" => asked[c] = "no"
<1> DEFINE Stops == \A c \in Tasks : pc[c] = "check" /\ pc'[c] = "step" => asked[c] = "no"
<1> USE SessionAssumption DEF IInv, TypeOK, HolderInv, LockInv, Goto, GotoSave, editor, tables, sqlite, locals, bounds, history,
       AskedInv
<1>1. ASSUME NEW p \in Tasks, Ask(p) PROVE Stops
  BY <1>1 DEF Ask, StartScript
<1>2. ASSUME NEW p \in Tasks, Lock(p) PROVE Stops
  BY <1>2 DEF Lock
<1>3. ASSUME NEW p \in Tasks, CheckMark(p) PROVE Stops
  BY <1>3 DEF CheckMark
<1>4. ASSUME NEW p \in Tasks, Step(p) PROVE Stops
  BY <1>4 DEF Step
<1>5. ASSUME NEW p \in Tasks, Acquire(p) PROVE Stops
  BY <1>5 DEF Acquire
<1>6. ASSUME NEW p \in Tasks, StatementOk(p) PROVE Stops
  BY <1>6 DEF StatementOk, After, Becomes, Current
<1>7. ASSUME NEW p \in Tasks, StatementFails(p) PROVE Stops
  BY <1>7 DEF StatementFails, After, Becomes, OpenAfterError, Current
<1>8. ASSUME NEW p \in Tasks, Interrupted(p) PROVE Stops
  BY <1>8 DEF Interrupted, After, Becomes
<1>9. ASSUME NEW p \in Tasks, NoteStatement(p) PROVE Stops
  BY <1>9 DEF NoteStatement
<1>10. ASSUME NEW p \in Tasks, End(p) PROVE Stops
  BY <1>10 DEF End, DropConnection, Becomes
<1>11. ASSUME NEW q \in Saves, Save(q) PROVE Stops
  BY <1>11 DEF Save, AskSave, LockTables, SaveBegins, SaveBusy, Describe, SaveEnds
<1>12. ASSUME NEW x \in Cancels, CancelMark(x) PROVE Stops
  BY <1>12 DEF CancelMark
<1>13. ASSUME NEW x \in Cancels, CancelInterrupt(x) PROVE Stops
  BY <1>13 DEF CancelInterrupt
<1>14. CASE CloseTables
  BY <1>14 DEF CloseTables
<1>15. CASE CloseEditor
  BY <1>15 DEF CloseEditor, DropConnection, Becomes
<1>16. CASE OtherLocks
  BY <1>16 DEF OtherLocks
<1>17. CASE OtherUnlocks
  BY <1>17 DEF OtherUnlocks
<1>18. CASE UNCHANGED vars
  BY <1>18 DEF vars
<1> QED
    BY <1>1, <1>2, <1>3, <1>4, <1>5, <1>6, <1>7, <1>8, <1>9, <1>10, <1>11,
     <1>12, <1>13, <1>14, <1>15, <1>16, <1>17, <1>18
  DEF Next, Progress

\* The words of a save's error are chosen by the note.
LEMMA BusyFollows ==
    ASSUME TypeOK, NamedInv, [Next]_vars
    PROVE  \A c \in Saves : savePc[c] = "busy" /\ savePc'[c] = "idle" /\ lock = "editor" /\ typed
               => said'[c] = "editor"
<1> DEFINE Names == \A c \in Saves : savePc[c] = "busy" /\ savePc'[c] = "idle" /\ lock = "editor" /\ typed
                    => said'[c] = "editor"
<1> USE SessionAssumption DEF IInv, TypeOK, HolderInv, LockInv, Goto, GotoSave, editor, tables, sqlite, locals, bounds, history,
       NamedInv
<1>1. ASSUME NEW p \in Tasks, Ask(p) PROVE Names
  BY <1>1 DEF Ask, StartScript
<1>2. ASSUME NEW p \in Tasks, Lock(p) PROVE Names
  BY <1>2 DEF Lock
<1>3. ASSUME NEW p \in Tasks, CheckMark(p) PROVE Names
  BY <1>3 DEF CheckMark
<1>4. ASSUME NEW p \in Tasks, Step(p) PROVE Names
  BY <1>4 DEF Step
<1>5. ASSUME NEW p \in Tasks, Acquire(p) PROVE Names
  BY <1>5 DEF Acquire
<1>6. ASSUME NEW p \in Tasks, StatementOk(p) PROVE Names
  BY <1>6 DEF StatementOk, After, Becomes
<1>7. ASSUME NEW p \in Tasks, StatementFails(p) PROVE Names
  BY <1>7 DEF StatementFails, After, Becomes, OpenAfterError
<1>8. ASSUME NEW p \in Tasks, Interrupted(p) PROVE Names
  BY <1>8 DEF Interrupted, After, Becomes
<1>9. ASSUME NEW p \in Tasks, NoteStatement(p) PROVE Names
  BY <1>9 DEF NoteStatement
<1>10. ASSUME NEW p \in Tasks, End(p) PROVE Names
  BY <1>10 DEF End, DropConnection, Becomes
<1>11. ASSUME NEW q \in Saves, Save(q) PROVE Names
  BY <1>11 DEF Save, AskSave, LockTables, SaveBegins, SaveBusy, Describe, SaveEnds
<1>12. ASSUME NEW x \in Cancels, CancelMark(x) PROVE Names
  BY <1>12 DEF CancelMark
<1>13. ASSUME NEW x \in Cancels, CancelInterrupt(x) PROVE Names
  BY <1>13 DEF CancelInterrupt
<1>14. CASE CloseTables
  BY <1>14 DEF CloseTables
<1>15. CASE CloseEditor
  BY <1>15 DEF CloseEditor, DropConnection, Becomes
<1>16. CASE OtherLocks
  BY <1>16 DEF OtherLocks
<1>17. CASE OtherUnlocks
  BY <1>17 DEF OtherUnlocks
<1>18. CASE UNCHANGED vars
  BY <1>18 DEF vars
<1> QED
    BY <1>1, <1>2, <1>3, <1>4, <1>5, <1>6, <1>7, <1>8, <1>9, <1>10, <1>11,
     <1>12, <1>13, <1>14, <1>15, <1>16, <1>17, <1>18
  DEF Next, Progress

\* A cancel that finds a script on the connection keeps it from its next
\* statement, unless another script is asked for in between (execute,
\* start_script, cancel).
THEOREM CancelsStop == Spec => CancelStopsScript
<1> DEFINE Stops == \A p \in Tasks : pc[p] = "check" /\ pc'[p] = "step" => asked[p] = "no"
<1>1. Init => AskedInv
  BY DEF Init, AskedInv
<1>2. TypeOK /\ AskedInv /\ [Next]_vars => AskedInv'
  BY AskedStep
<1>3. TypeOK /\ AskedInv /\ [Next]_vars => [Stops]_vars
  BY CheckFollows
<1> QED
  BY <1>1, <1>2, <1>3, TypeCorrect, PTL DEF Spec, CancelStopsScript

\* The note that the status bar and the messages read is the connection's own
\* state, but while a task is on the connection (TransactionState, run, execute).
THEOREM NoteIsTrue == Spec => []NoteFollowsTransaction
<1>1. Init => NoteFollowsTransaction
  BY DEF Init, NoteFollowsTransaction
<1>2. IInv /\ NoteFollowsTransaction /\ [Next]_vars => NoteFollowsTransaction'
  BY NoteStep
<1> QED
  BY <1>1, <1>2, Invariance, PTL DEF Spec

\* A save kept out by the transaction that the person opened names the editor,
\* also while the editor runs a statement (describe, execute), if transactions
\* are opened with a BEGIN: the note of a BEGIN IMMEDIATE comes after its lock.
THEOREM BusySavesNameEditor ==
    ASSUME \A j \in Jobs : PlainJob(j) PROVE Spec => BusySaveNamesEditor
<1> DEFINE Names == \A q \in Saves :
              /\ savePc[q] = "busy" /\ savePc'[q] = "idle"
              /\ blocked[q] = "transaction" /\ lock = "editor" /\ typed
              => said'[q] = "editor"
<1>1. Init => PlainInv /\ NamedInv
  BY DEF Init, PlainInv, NamedInv
<1>2. IInv /\ PlainInv /\ NamedInv /\ [Next]_vars => PlainInv' /\ NamedInv'
  BY PlainStep, NamedStep
<1>3. IInv /\ NamedInv /\ [Next]_vars => [Names]_vars
  BY BusyFollows DEF IInv
<1> QED
  BY <1>1, <1>2, <1>3, Invariance, PTL DEF Spec, BusySaveNamesEditor

=============================================================================
