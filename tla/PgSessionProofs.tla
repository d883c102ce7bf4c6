-------------------------- MODULE PgSessionProofs --------------------------
(***************************************************************************)
(* Proofs about PgSession, for any number of commands and any jobs.        *)
(*                                                                         *)
(* A connection has one user at a time, unless two commands took the one   *)
(* of the session: those it calls crossed.  What a command finds on a      *)
(* connection that is not crossed is what it left there (Bystander): a     *)
(* COMMIT finds the block the probe saw, a plan its savepoint, a script    *)
(* the transaction it joined.                                              *)
(***************************************************************************)
EXTENDS PgSession, SequenceTheorems, TLAPS

---------------------------------------------------------------------------
(* The parts of the invariant *)

\* A script has a statement left, and only it and a table view send any.
JobInv ==
    \A t \in Tasks :
       /\ pc[t] # "idle" /\ Kind(t) = "script" => job[t].todo # <<>>
       /\ pc[t] = "run" => Kind(t) \in {"table", "script"}

\* Two commands on one connection have crossed.
CrossInv ==
    \A t, u \in Tasks : t # u /\ conn[t] = conn[u] /\ conn[t] # 0 => conn[t] \in crossed

\* Nothing waits on a connection that is gone.
DeadInv == \A c \in Conns \ live : block[c] = "none" /\ content[c] = {} /\ mark[c] = <<>>

\* Who has the reconnect lock for the main connection has found it lost.
MainInv == \A t \in Tasks : pc[t] \in {"mainOpen", "mainStore"} => main \notin live

\* The loss that is owed is the session's transaction.
OwedInv == owed => transaction # 0 /\ transaction \notin live

\* The command opened the connection it has, and nobody else knows it.
Own(t) ==
    \/ pc[t] \in {"mainStore", "editorStore", "beginStore"}
    \/ pc[t] \in {"plan", "undo"} /\ ~joined[t]

FreshInv ==
    \A t \in Tasks : Own(t) =>
       /\ conn[t] \notin {0, main, editor, transaction}
       /\ \A u \in Tasks \ {t} : conn[u] # conn[t]

\* Only runs and plans join the transaction.
JoinInv ==
    \A t \in Tasks :
       /\ joined[t] => pc[t] \in {"start", "run", "mark", "plan", "undo"}
       /\ pc[t] = "mark" => joined[t]

\* The session's transaction has a connection of its own, which only those that
\* joined it are on.
TransInv ==
    transaction # 0 =>
       /\ transaction \notin {main, editor}
       /\ \A t \in Tasks : conn[t] = transaction => joined[t]

\* Alone on its connection, a COMMIT finds the block as the probe did.
CommitInv == \A t \in Tasks : pc[t] = "commit" /\ conn[t] \notin crossed => block[conn[t]] # "failed"

\* Whoever runs has a connection, and the reconnect lock is its holder's.
ConnInv == \A t \in Tasks : pc[t] \in Running => conn[t] # 0
LockInv == \A t \in Tasks : pc[t] \in Relinking <=> reconnecting = t

\* While a plan runs the transaction is open, and the savepoint has what was done
\* in it; the plan's effects wait nowhere else, and are undone.
PlanReady(t) ==
    /\ block[conn[t]] # "none"
    /\ joined[t] => /\ mark[conn[t]] # <<>>
                    /\ "plan" \notin Head(mark[conn[t]])
                    /\ "work" \in content[conn[t]] => "work" \in Head(mark[conn[t]])
Undoing(c) == \E t \in Tasks : conn[t] = c /\ pc[t] = "undo"
ReadyInv == \A t \in Tasks : pc[t] \in {"plan", "undo"} /\ conn[t] \in live \ crossed => PlanReady(t)
UndoneInv == \A c \in Conns \ crossed : "plan" \in content[c] => Undoing(c)

\* The parts of the types of the commands, the bounds and the history.
PlaceType ==
    /\ pc \in [Tasks -> {"idle"} \cup Getting \cup Relinking \cup Running]
    /\ joined \in [Tasks -> BOOLEAN]
JobType == job \in [Tasks -> Job]
HoldType == conn \in [Tasks -> 0..opened]
CountType == BoundType /\ owed \in BOOLEAN

---------------------------------------------------------------------------
(* What the actions are made of *)

BlockStates == {"none", "open", "failed"}

\* A connection that opens is the next one.
LEMMA OpenType ==
    ASSUME ServerType, NEW b \in {"none", "open"}, Open(b)
    PROVE  /\ ServerType' /\ opened' = opened + 1 /\ opened' \in Conns /\ opened \in Nat
           /\ live' = live \cup {opened + 1}
           /\ block'[opened + 1] = b /\ \A c \in Conns \ {opened + 1} : block'[c] = block[c]
           /\ UNCHANGED <<content, mark>>
<1>1. MaxConns \in Nat /\ opened \in 1..MaxConns /\ opened < MaxConns /\ opened' = opened + 1
  BY SessionAssumption DEF SessionAssumption, ServerType, Open, Conns
<1>2. opened' \in Conns /\ live' \subseteq 1..opened'
  BY <1>1 DEF ServerType, Open, Conns
<1>3. block' \in [Conns -> {"none", "open", "failed"}]
  BY <1>1, <1>2 DEF ServerType, Open
<1> QED
  BY <1>1, <1>2, <1>3 DEF ServerType, Open

\* Connections count up from what a command can have.
LEMMA ConnType ==
    ASSUME SessionType, CommandType, ServerType, NEW t \in Tasks
    PROVE  /\ opened \in Nat /\ conn[t] \in 0..opened /\ (conn[t] # 0 => conn[t] \in Conns)
           /\ main \in 0..opened /\ editor \in 0..opened /\ transaction \in 0..opened
           /\ conn[t] \in live => conn[t] # 0
<1>1. MaxConns \in Nat /\ opened \in 1..MaxConns
  BY SessionAssumption DEF SessionAssumption, ServerType, Conns
<1> QED
  BY <1>1 DEF SessionType, CommandType, ServerType, Conns

\* What a command takes is what it has, and what it crosses somebody had.
LEMMA TakeType ==
    ASSUME CommandType, crossed \subseteq 1..opened, opened \in Nat,
           NEW t \in Tasks, NEW c \in Nat, Take(t, c)
    PROVE  /\ crossed' \subseteq 1..opened /\ crossed \subseteq crossed'
           /\ conn' = [conn EXCEPT ![t] = c]
           /\ \A u \in Tasks \ {t} : conn[u] = c /\ c # 0 => c \in crossed'
           /\ \A d \in crossed' : d \in crossed \/ d = c
<1>1. crossed' = crossed \cup {d \in {c} \ {0} : \E u \in Tasks \ {t} : conn[u] = d}
  BY DEF Take
<1>2. \A u \in Tasks : conn[u] \in 0..opened
  BY DEF CommandType
<1>3. \A d \in crossed' : d \in crossed \/ (d = c /\ d # 0 /\ \E u \in Tasks : conn[u] = d)
  BY <1>1
<1>4. \A d \in crossed' : d \in 1..opened
  <2>1. TAKE d \in crossed'
  <2>2. CASE d \in crossed
    BY <2>2
  <2>3. CASE d # 0 /\ \E u \in Tasks : conn[u] = d
    <3>1. d # 0 /\ d \in 0..opened
      BY <1>2, <2>3
    <3> QED
      BY <3>1
  <2> QED
    BY <1>3, <2>2, <2>3
<1> QED
  BY <1>1, <1>3, <1>4 DEF Take

\* A savepoint has effects of its connection's.
LEMMA MarkHead ==
    ASSUME ServerType, NEW c \in Conns, mark[c] # <<>>
    PROVE  Head(mark[c]) \in SUBSET Effects
<1>1. PICK e \in SUBSET Effects : mark[c] = <<e>>
  BY DEF ServerType
<1> QED
  BY <1>1

\* A block that becomes another changes on its connection alone.
LEMMA BecomesType ==
    ASSUME ServerType, NEW c \in Conns, NEW b \in BlockStates, NEW e \in SUBSET Effects,
           Becomes(c, b, e)
    PROVE  /\ block' \in [Conns -> BlockStates] /\ content' \in [Conns -> SUBSET Effects]
           /\ mark' \in [Conns -> {<<>>} \cup {<<x>> : x \in SUBSET Effects}]
           /\ block'[c] = b /\ content'[c] = e /\ mark'[c] = (IF b = "none" THEN <<>> ELSE mark[c])
           /\ \A d \in Conns \ {c} : block'[d] = block[d] /\ content'[d] = content[d] /\ mark'[d] = mark[d]
<1>1. block' = [block EXCEPT ![c] = b] /\ content' = [content EXCEPT ![c] = e]
  BY DEF Becomes
<1>2. mark' = IF b = "none" THEN [mark EXCEPT ![c] = <<>>] ELSE mark
  BY DEF Becomes
<1>3. block' \in [Conns -> BlockStates] /\ content' \in [Conns -> SUBSET Effects]
  BY <1>1 DEF ServerType, BlockStates
<1>4. mark' \in [Conns -> {<<>>} \cup {<<x>> : x \in SUBSET Effects}]
  BY <1>2 DEF ServerType
<1> QED
  BY <1>1, <1>2, <1>3, <1>4 DEF ServerType

\* A failed statement changes its own connection's block alone.
LEMMA AbortsType ==
    ASSUME ServerType, NEW c \in Conns, Aborts(c)
    PROVE  /\ block' \in [Conns -> BlockStates] /\ UNCHANGED <<content, mark>>
           /\ block'[c] = (IF block[c] = "open" THEN "failed" ELSE block[c])
           /\ \A d \in Conns \ {c} : block'[d] = block[d]
BY DEF ServerType, Aborts, BlockStates

\* What a statement does waits in its block, or is saved where there is none.
LEMMA DoesType ==
    ASSUME ServerType, NEW c \in Conns, NEW f \in Effects, Does(c, f)
    PROVE  /\ block[c] # "failed" /\ UNCHANGED block
           /\ content' \in [Conns -> SUBSET Effects] /\ UNCHANGED mark
           /\ content'[c] = (IF block[c] = "none" THEN content[c] ELSE content[c] \cup {f})
           /\ \A d \in Conns \ {c} : content'[d] = content[d]
           /\ leaked' = (IF block[c] = "none" /\ f = "plan" THEN leaked \cup {c} ELSE leaked)
<1>1. CASE block[c] = "none"
  BY <1>1 DEF Does, Saves, blocks, ServerType, Becomes
<1>2. CASE block[c] # "none"
  <2>1. block[c] = "open" /\ Becomes(c, "open", content[c] \cup {f}) /\ UNCHANGED leaked
    BY <1>2 DEF Does
  <2>2. block' = [block EXCEPT ![c] = "open"] /\ mark' = mark /\ content' = [content EXCEPT ![c] = content[c] \cup {f}]
    BY <2>1 DEF Becomes
  <2>3. block' = block
    BY <2>1, <2>2 DEF ServerType
  <2> QED
    BY <1>2, <2>1, <2>2, <2>3 DEF ServerType
<1> QED
  BY <1>1, <1>2

\* A COMMIT ends the block and saves what waited, unless the block had failed.
LEMMA CommitsType ==
    ASSUME ServerType, NEW c \in Conns, Commits(c)
    PROVE  /\ Becomes(c, "none", {})
           /\ leaked' = (IF block[c] = "open" /\ "plan" \in content[c] THEN leaked \cup {c} ELSE leaked)
BY DEF Commits, Saves

---------------------------------------------------------------------------
(* What the steps of a command do to the block of its connection            *)

BlocksType ==
    /\ block \in [Conns -> BlockStates] /\ content \in [Conns -> SUBSET Effects]
    /\ mark \in [Conns -> {<<>>} \cup {<<e>> : e \in SUBSET Effects}]

\* The blocks of all connections but c stay.
Untouched(c) ==
    \A d \in Conns \ {c} : block'[d] = block[d] /\ content'[d] = content[d] /\ mark'[d] = mark[d]

\* Whoever runs is on a connection of the server's.
LEMMA RunningConn ==
    ASSUME TypeOK, NEW t \in Tasks, pc[t] \in Running
    PROVE  conn[t] \in Conns /\ ServerType /\ BlocksType
BY ConnType DEF TypeOK, ServerType, BlocksType, BlockStates

\* A statement that ends its block is a COMMIT or a ROLLBACK of a script; one that
\* saves saves what waited, and none waits as a plan's.
LEMMA StatementBlock ==
    ASSUME TypeOK, NEW t \in Tasks, Statement(t)
    PROVE  /\ BlocksType' /\ Untouched(conn[t])
           /\ "plan" \in content'[conn[t]] => "plan" \in content[conn[t]]
           /\ leaked' = leaked \/ ("plan" \in content[conn[t]] /\ leaked' = leaked \cup {conn[t]})
           /\ mark'[conn[t]] \in {mark[conn[t]], <<>>}
           /\ block'[conn[t]] = "failed" => block[conn[t]] = "failed"
           /\ block'[conn[t]] = "none" =>
                \/ block[conn[t]] = "none"
                \/ Kind(t) # "table" /\ Head(job[t].todo) \in {"commit", "rollback"}
<1> DEFINE c == conn[t]
<1> DEFINE s == IF Kind(t) = "table" THEN "work" ELSE Head(job[t].todo)
<1>1. c \in Conns /\ c \in live /\ ServerType /\ BlocksType
  BY RunningConn DEF Statement, Running
<1>2. \/ s = "work" /\ Does(c, "work")
      \/ s = "begin" /\ block[c] = "none" /\ Becomes(c, "open", {}) /\ UNCHANGED leaked
      \/ s = "begin" /\ block[c] = "open" /\ UNCHANGED <<blocks, leaked>>
      \/ s = "commit" /\ Commits(c)
      \/ s = "rollback" /\ Becomes(c, "none", {}) /\ UNCHANGED leaked
  BY DEF Statement
<1>3. s \in {"commit", "rollback"} => Kind(t) # "table" /\ Head(job[t].todo) \in {"commit", "rollback"}
  OBVIOUS
<1> HIDE DEF c, s
<1> USE DEF BlocksType, Untouched, BlockStates
<1>4. CASE s = "work" /\ Does(c, "work")
  BY <1>1, <1>4, DoesType DEF Effects, c
<1>5. CASE s = "begin" /\ block[c] = "none" /\ Becomes(c, "open", {}) /\ UNCHANGED leaked
  BY <1>1, <1>5, BecomesType DEF c
<1>6. CASE s = "begin" /\ block[c] = "open" /\ UNCHANGED <<blocks, leaked>>
  BY <1>1, <1>6 DEF blocks, c
<1>7. CASE s = "commit" /\ Commits(c)
  BY <1>1, <1>3, <1>7, BecomesType, CommitsType DEF c
<1>8. CASE s = "rollback" /\ Becomes(c, "none", {}) /\ UNCHANGED leaked
  BY <1>1, <1>3, <1>8, BecomesType DEF c
<1> QED
  BY <1>2, <1>4, <1>5, <1>6, <1>7, <1>8

\* A failure leaves the effects where they are, and no block it would end.
LEMMA FailureBlock ==
    ASSUME TypeOK, NEW t \in Tasks, pc[t] \in Running, Aborts(conn[t])
    PROVE  /\ BlocksType' /\ Untouched(conn[t]) /\ UNCHANGED <<content, mark>>
           /\ block'[conn[t]] = "none" <=> block[conn[t]] = "none"
<1>1. conn[t] \in Conns /\ ServerType /\ BlocksType
  BY RunningConn
<1> QED
  BY <1>1, AbortsType DEF BlocksType, Untouched, BlockStates

\* The savepoint is only set in an open block, over what is there.
LEMMA SavepointBlock ==
    ASSUME TypeOK, NEW t \in Tasks, SetSavepoint(t)
    PROVE  /\ BlocksType' /\ Untouched(conn[t]) /\ UNCHANGED content
           /\ block'[conn[t]] = "none" <=> block[conn[t]] = "none"
           /\ \/ /\ pc' = [pc EXCEPT ![t] = "plan"] /\ UNCHANGED <<conn, joined, block>>
                 /\ block[conn[t]] = "open" /\ mark'[conn[t]] = <<content[conn[t]]>>
              \/ UNCHANGED mark /\ Finish(t)
<1>1. conn[t] \in Conns /\ ServerType /\ BlocksType /\ pc[t] \in Running
  BY RunningConn DEF SetSavepoint, Running
<1>2. CASE conn[t] \in live /\ block[conn[t]] = "open"
  <2>1. mark' = [mark EXCEPT ![conn[t]] = <<content[conn[t]]>>] /\ UNCHANGED <<block, content>>
    BY <1>2 DEF SetSavepoint
  <2>2. <<content[conn[t]]>> \in {<<e>> : e \in SUBSET Effects}
    BY <1>1 DEF BlocksType
  <2>3. BlocksType' /\ Untouched(conn[t]) /\ mark'[conn[t]] = <<content[conn[t]]>>
    BY <1>1, <2>1, <2>2 DEF BlocksType, Untouched
  <2> QED
    BY <1>2, <2>1, <2>3 DEF SetSavepoint, Goto
<1>3. CASE ~(conn[t] \in live /\ block[conn[t]] = "open")
  <2>1. Finish(t) /\ Aborts(conn[t])
    BY <1>3 DEF SetSavepoint
  <2> QED
    BY <1>1, <2>1, FailureBlock
<1> QED
  BY <1>2, <1>3

\* A plan outside a block is saved at once; else it waits in the block.
LEMMA PlanBlock ==
    ASSUME TypeOK, NEW t \in Tasks, Plan(t)
    PROVE  /\ BlocksType' /\ Untouched(conn[t]) /\ UNCHANGED mark
           /\ block'[conn[t]] = "none" <=> block[conn[t]] = "none"
           /\ block'[conn[t]] = "failed" \/ block'[conn[t]] = block[conn[t]]
           /\ content'[conn[t]] \in {content[conn[t]], content[conn[t]] \cup {"plan"}}
           /\ leaked' = leaked \/ (conn[t] \in live /\ block[conn[t]] = "none" /\ leaked' = leaked \cup {conn[t]})
<1>1. conn[t] \in Conns /\ ServerType /\ BlocksType /\ pc[t] \in Running
  BY RunningConn DEF Plan, Running
<1> USE DEF BlocksType, Untouched, BlockStates
<1>2. CASE conn[t] \in live /\ Does(conn[t], "plan")
  BY <1>1, <1>2, DoesType DEF Effects
<1>3. CASE Aborts(conn[t]) /\ UNCHANGED leaked
  BY <1>1, <1>3, AbortsType
<1> QED
  BY <1>2, <1>3 DEF Plan

\* Back to the savepoint, or to nothing; or it doesn't work.
LEMMA UndoBlock ==
    ASSUME TypeOK, NEW t \in Tasks, Undo(t)
    PROVE  /\ BlocksType' /\ Untouched(conn[t])
           /\ \/ ~joined[t] /\ content'[conn[t]] = {} /\ block'[conn[t]] = "none" /\ mark'[conn[t]] = <<>>
              \/ /\ joined[t] /\ mark[conn[t]] # <<>> /\ block'[conn[t]] = "open"
                 /\ content'[conn[t]] = Head(mark[conn[t]]) /\ mark'[conn[t]] = mark[conn[t]]
              \/ /\ conn[t] \notin live \/ (joined[t] /\ (block[conn[t]] = "none" \/ mark[conn[t]] = <<>>))
                 /\ UNCHANGED <<content, mark>>
                 /\ block'[conn[t]] = "none" <=> block[conn[t]] = "none"
<1> DEFINE c == conn[t]
<1>1. c \in Conns /\ ServerType /\ BlocksType /\ pc[t] \in Running
  BY RunningConn DEF Undo, Running
<1>2. \/ ~joined[t] /\ Becomes(c, "none", {})
      \/ joined[t] /\ mark[c] # <<>> /\ Becomes(c, "open", Head(mark[c]))
      \/ (c \notin live \/ (joined[t] /\ (block[c] = "none" \/ mark[c] = <<>>))) /\ Aborts(c)
  BY DEF Undo
<1> HIDE DEF c
<1> USE DEF BlocksType, Untouched, BlockStates
<1>3. CASE ~joined[t] /\ Becomes(c, "none", {})
  BY <1>1, <1>3, BecomesType DEF c
<1>4. CASE joined[t] /\ mark[c] # <<>> /\ Becomes(c, "open", Head(mark[c]))
  BY <1>1, <1>4, BecomesType, MarkHead DEF c
<1>5. CASE (c \notin live \/ (joined[t] /\ (block[c] = "none" \/ mark[c] = <<>>))) /\ Aborts(c)
  BY <1>1, <1>5, AbortsType DEF c
<1> QED
  BY <1>2, <1>3, <1>4, <1>5

\* The buttons end the block, if its connection is still there.
LEMMA EndBlock ==
    ASSUME TypeOK, NEW t \in Tasks, Commit(t) \/ CommitFails(t) \/ Rollback(t)
    PROVE  /\ BlocksType' /\ Untouched(conn[t])
           /\ \/ block'[conn[t]] = "none" /\ content'[conn[t]] = {} /\ mark'[conn[t]] = <<>>
              \/ conn[t] \notin live /\ UNCHANGED <<block, content, mark>>
           /\ leaked' = leaked \/ ("plan" \in content[conn[t]] /\ leaked' = leaked \cup {conn[t]})
<1>1. conn[t] \in Conns /\ ServerType /\ BlocksType
  BY RunningConn DEF Commit, CommitFails, Rollback, Running
<1> USE DEF BlocksType, Untouched, BlockStates
<1>2. CASE Commit(t)
  BY <1>1, <1>2, BecomesType, CommitsType DEF Commit
<1>3. ASSUME CommitFails(t) \/ Rollback(t)
      PROVE  leaked' = leaked /\ (Becomes(conn[t], "none", {}) \/ (conn[t] \notin live /\ UNCHANGED blocks))
  BY <1>3 DEF CommitFails, Rollback, history
<1>4. CASE Becomes(conn[t], "none", {}) /\ leaked' = leaked
  BY <1>1, <1>4, BecomesType
<1>5. CASE conn[t] \notin live /\ UNCHANGED blocks /\ leaked' = leaked
  BY <1>1, <1>5 DEF blocks
<1> QED
  BY <1>2, <1>3, <1>4, <1>5

\* A connection that goes takes its block along.
LEMMA GoneBlock ==
    ASSUME TypeOK, NEW c \in Conns, Ends(c)
    PROVE  /\ BlocksType' /\ Untouched(c) /\ live' = live \ {c}
           /\ block'[c] = "none" /\ content'[c] = {} /\ mark'[c] = <<>>
<1>1. Becomes(c, "none", {}) /\ live' = live \ {c} /\ ServerType
  BY DEF Ends, TypeOK
<1> QED
  BY <1>1, BecomesType DEF BlocksType, Untouched, BlockStates

---------------------------------------------------------------------------
(* What a step does to the connections commands have, and to the server     *)

\* A command keeps the connection it has, lets go of it, or takes one of the
\* session's or a new one.
Keeps == UNCHANGED <<conn, crossed, opened>>
LetsGo(t) == conn' = [conn EXCEPT ![t] = 0] /\ UNCHANGED <<crossed, opened>>
Takes(t, c) ==
    /\ Take(t, c)
    /\ \/ c \in {main, editor, transaction} /\ opened' = opened
       \/ c = opened + 1 /\ \E b \in {"none", "open"} : Open(b)
Holds(t) == Keeps \/ LetsGo(t) \/ \E c \in {main, editor, transaction, opened + 1} : Takes(t, c)

\* A command uses its connection.
OnConn(t) ==
    \/ Statement(t) \/ StatementFails(t) \/ SetSavepoint(t) \/ Plan(t) \/ Undo(t)
    \/ Commit(t) \/ CommitFails(t) \/ Rollback(t)

\* The server stays, a connection opens, or the command uses its own.
Serves(t) ==
    \/ UNCHANGED <<server, leaked>>
    \/ (\E b \in {"none", "open"} : Open(b)) /\ UNCHANGED leaked
    \/ OnConn(t) /\ UNCHANGED <<opened, live>>

\* The others are where they were.
Same(u) == pc'[u] = pc[u] /\ conn'[u] = conn[u] /\ joined'[u] = joined[u] /\ job'[u] = job[u]

\* A step of a command does one of these to the connections that are had ...
LEMMA HoldSteps ==
    ASSUME NEW t \in Tasks, Ask(t) \/ Progress(t)
    PROVE  Holds(t)
BY DEF Progress, session, locals, server, bounds, history, Holds, Keeps, LetsGo,
   Takes, Finish, TellLost, GotEditor, WithMain, Ask, LookForEditor, LookForMain,
   LockMain, OpenMain, StoreMain, LockEditor, OpenEditor, StoreEditor, OpenFails,
   NotFound, Start, StartFails, Statement, StatementFails, SetSavepoint, Plan, Undo,
   Begin, BeginFails, StoreTransaction, TakeTransaction, Probe, Commit, CommitFails,
   Rollback

\* ... and one of these to the server.
LEMMA ServeSteps ==
    ASSUME NEW t \in Tasks, Ask(t) \/ Progress(t)
    PROVE  Serves(t)
BY DEF Progress, server, history, Serves, OnConn, Ask, LookForEditor, LookForMain,
   LockMain, OpenMain, StoreMain, LockEditor, OpenEditor, StoreEditor, OpenFails,
   NotFound, Start, StartFails, Statement, StatementFails, SetSavepoint, Plan, Undo,
   Begin, BeginFails, StoreTransaction, TakeTransaction, Probe, Commit, CommitFails,
   Rollback

\* The other commands stay where they were.
LEMMA OthersStay ==
    ASSUME CommandType, NEW t \in Tasks, Ask(t) \/ Progress(t)
    PROVE  \A u \in Tasks \ {t} : Same(u)
BY DEF Progress, locals, Goto, CommandType, Same, Finish, Take, TellLost, GotEditor,
   WithMain, Ask, LookForEditor, LookForMain, LockMain, OpenMain, StoreMain,
   LockEditor, OpenEditor, StoreEditor, OpenFails, NotFound, Start, StartFails,
   Statement, StatementFails, SetSavepoint, Plan, Undo, Begin, BeginFails,
   StoreTransaction, TakeTransaction, Probe, Commit, CommitFails, Rollback

\* The session's transaction stays, goes when it is lost or taken, or is stored
\* where none is up.
LEMMA KeepsTransaction ==
    ASSUME NEW t \in Tasks, Ask(t) \/ Progress(t)
    PROVE  \/ transaction' = transaction
           \/ transaction' = 0 /\ (transaction \notin live \/ TakeTransaction(t))
           \/ StoreTransaction(t) /\ transaction \notin live
BY DEF Progress, session, TellLost, GotEditor, Ask, LookForEditor, LookForMain,
   LockMain, OpenMain, StoreMain, LockEditor, OpenEditor, StoreEditor, OpenFails,
   NotFound, Start, StartFails, Statement, StatementFails, SetSavepoint, Plan, Undo,
   Begin, BeginFails, StoreTransaction, TakeTransaction, Probe, Commit, CommitFails,
   Rollback

\* Only StoreMain replaces the main connection.
LEMMA KeepsMain ==
    ASSUME NEW t \in Tasks, Ask(t) \/ Progress(t)
    PROVE  main' = main \/ StoreMain(t)
BY DEF Progress, session, Ask, LookForEditor, LookForMain, LockMain, OpenMain,
   StoreMain, LockEditor, OpenEditor, StoreEditor, OpenFails, NotFound, Start,
   StartFails, Statement, StatementFails, SetSavepoint, Plan, Undo, Begin,
   BeginFails, StoreTransaction, TakeTransaction, Probe, Commit, CommitFails,
   Rollback

\* Only Ask and Statement change what there is to run.
LEMMA JobKeeps ==
    ASSUME NEW t \in Tasks, Ask(t) \/ Progress(t)
    PROVE  Ask(t) \/ Statement(t) \/ UNCHANGED job
BY DEF Progress, session, Ask, LookForEditor, LookForMain, LockMain, OpenMain,
   StoreMain, LockEditor, OpenEditor, StoreEditor, OpenFails, NotFound, Start,
   StartFails, Statement, StatementFails, SetSavepoint, Plan, Undo, Begin,
   BeginFails, StoreTransaction, TakeTransaction, Probe, Commit, CommitFails,
   Rollback

\* Where a command looks for the editor's connection.
LEMMA Looks ==
    ASSUME NEW t \in Tasks, Ask(t) \/ Progress(t)
    PROVE  pc[t] \in {"look", "editorLock"} => LookForEditor(t) \/ LockEditor(t) \/ NotFound(t)
BY DEF Progress, session, Ask, LookForEditor, LookForMain, LockMain, OpenMain,
   StoreMain, LockEditor, OpenEditor, StoreEditor, OpenFails, NotFound, Start,
   StartFails, Statement, StatementFails, SetSavepoint, Plan, Undo, Begin,
   BeginFails, StoreTransaction, TakeTransaction, Probe, Commit, CommitFails,
   Rollback

\* A step is a command's, the end of a connection, or leaves both alone.
LEMMA Steps ==
    ASSUME [Next]_vars
    PROVE  \/ \E t \in Tasks : Ask(t) \/ Progress(t)
           \/ \E c \in Conns : Ends(c) /\ UNCHANGED <<locals, opened, crossed, leaked>>
           \/ UNCHANGED <<locals, server, crossed, leaked>>
<1>1. CASE \E t \in Tasks : Ask(t) \/ Progress(t)
  BY <1>1
<1>2. CASE \E c \in Conns : Lose(c) \/ Drop(c)
  BY <1>2 DEF Lose, Drop, bounds, history
<1>3. CASE Close
  BY <1>3 DEF Close
<1>4. CASE UNCHANGED vars
  BY <1>4 DEF vars, history
<1> QED
  BY <1>1, <1>2, <1>3, <1>4 DEF Next

---------------------------------------------------------------------------
(* The type invariant *)

\* A connection a command takes is the session's or the next one.
LEMMA TakesType ==
    ASSUME SessionType, CommandType, ServerType, HistoryType, NEW t \in Tasks,
           NEW c \in {main, editor, transaction, opened + 1}, Takes(t, c)
    PROVE  /\ conn' = [conn EXCEPT ![t] = c] /\ c \in 0..opened' /\ opened \in Nat
           /\ opened' \in {opened, opened + 1}
           /\ crossed \subseteq crossed' /\ crossed' \subseteq 1..opened
           /\ \A u \in Tasks \ {t} : conn[u] = c /\ c # 0 => c \in crossed'
<1>1. /\ opened \in Nat /\ main \in 0..opened /\ editor \in 0..opened
      /\ transaction \in 0..opened
  BY ConnType
<1>2. c \in Nat /\ c \in 0..opened' /\ opened' \in {opened, opened + 1}
  <2>1. CASE c \in {main, editor, transaction} /\ opened' = opened
    BY <1>1, <2>1
  <2>2. CASE c = opened + 1 /\ \E b \in {"none", "open"} : Open(b)
    <3>1. opened' = opened + 1
      BY <2>2 DEF Open
    <3> QED
      BY <1>1, <2>2, <3>1
  <2> QED
    BY <2>1, <2>2 DEF Takes
<1>3. crossed \subseteq 1..opened /\ Take(t, c)
  BY DEF HistoryType, Takes
<1> QED
  BY <1>1, <1>2, <1>3, TakeType

\* A command has a connection that was opened.
LEMMA HoldStep ==
    ASSUME TypeOK, [Next]_vars
    PROVE  HoldType'
<1> USE DEF TypeOK, HoldType, CommandType
<1>1. opened \in Nat
  BY ConnType DEF ServerType
<1>2. ASSUME NEW t \in Tasks, Ask(t) \/ Progress(t) PROVE HoldType'
  <2>1. CASE Keeps
    BY <2>1 DEF Keeps
  <2>2. CASE LetsGo(t)
    BY <1>1, <2>2 DEF LetsGo
  <2>3. ASSUME NEW c \in {main, editor, transaction, opened + 1}, Takes(t, c) PROVE HoldType'
    <3>1. \A u \in Tasks : conn[u] \in 0..opened'
      BY <2>3, TakesType
    <3> QED
      BY <2>3, <3>1, TakesType
  <2> QED
    BY <1>2, <2>1, <2>2, <2>3, HoldSteps DEF Holds
<1>3. CASE UNCHANGED <<conn, opened>>
  BY <1>3
<1> QED
  BY <1>2, <1>3, Steps DEF locals, server

\* Two commands on one connection have crossed: whoever comes second takes what the
\* other has.
LEMMA CrossStep ==
    ASSUME TypeOK, CrossInv, [Next]_vars
    PROVE  CrossInv' /\ crossed \subseteq crossed'
<1> USE DEF TypeOK, CrossInv
<1>1. /\ \A t \in Tasks : conn[t] \in 0..opened /\ opened \in Nat
      /\ conn = [t \in Tasks |-> conn[t]]
  BY ConnType DEF CommandType
<1>2. ASSUME NEW t \in Tasks, Ask(t) \/ Progress(t)
      PROVE  CrossInv' /\ crossed \subseteq crossed'
  <2>1. CASE Keeps
    BY <2>1 DEF Keeps
  <2>2. CASE LetsGo(t)
    BY <1>1, <2>2 DEF LetsGo
  <2>3. ASSUME NEW c \in {main, editor, transaction, opened + 1}, Takes(t, c)
        PROVE  CrossInv' /\ crossed \subseteq crossed'
    <3>1. /\ conn' = [conn EXCEPT ![t] = c] /\ crossed \subseteq crossed'
          /\ \A u \in Tasks \ {t} : conn[u] = c /\ c # 0 => c \in crossed'
      BY <2>3, TakesType
    <3> QED
      BY <1>1, <3>1
  <2> QED
    BY <1>2, <2>1, <2>2, <2>3, HoldSteps DEF Holds
<1>3. CASE UNCHANGED <<conn, crossed>>
  BY <1>3
<1> QED
  BY <1>2, <1>3, Steps DEF locals

\* The steps of a command on its connection change its block and no other.
LEMMA OnConnType ==
    ASSUME TypeOK, NEW t \in Tasks, OnConn(t)
    PROVE  /\ conn[t] \in Conns /\ pc[t] \in Running /\ BlocksType' /\ Untouched(conn[t])
           /\ UNCHANGED leaked \/ leaked' = leaked \cup {conn[t]}
<1>1. pc[t] \in Running
  BY DEF OnConn, Running, Statement, StatementFails, SetSavepoint, Plan, Undo, Commit,
         CommitFails, Rollback
<1>2. conn[t] \in Conns
  BY <1>1, RunningConn
<1>3. CASE Statement(t)
  BY <1>1, <1>2, <1>3, StatementBlock
<1>4. CASE StatementFails(t)
  BY <1>1, <1>2, <1>4, FailureBlock DEF StatementFails, history
<1>5. CASE SetSavepoint(t)
  BY <1>1, <1>2, <1>5, SavepointBlock DEF SetSavepoint, history
<1>6. CASE Plan(t)
  BY <1>1, <1>2, <1>6, PlanBlock
<1>7. CASE Undo(t)
  BY <1>1, <1>2, <1>7, UndoBlock DEF Undo, history
<1>8. CASE Commit(t) \/ CommitFails(t) \/ Rollback(t)
  BY <1>1, <1>2, <1>8, EndBlock
<1> QED
  BY <1>3, <1>4, <1>5, <1>6, <1>7, <1>8 DEF OnConn

\* The server's part keeps its type; at most one connection opens in a step.
LEMMA ServerStep ==
    ASSUME TypeOK, [Next]_vars
    PROVE  ServerType' /\ opened' \in {opened, opened + 1} /\ opened \in Nat
<1> USE DEF TypeOK
<1>1. opened \in Nat
  BY ConnType DEF ServerType, Conns
<1>2. CASE UNCHANGED server
  BY <1>1, <1>2 DEF server, blocks, ServerType
<1>3. ASSUME NEW b \in {"none", "open"}, Open(b) PROVE ServerType' /\ opened' = opened + 1
  BY <1>3, OpenType
<1>4. ASSUME NEW t \in Tasks, OnConn(t), UNCHANGED <<opened, live>>
      PROVE  ServerType' /\ opened' = opened
  BY <1>4, OnConnType DEF ServerType, BlocksType, BlockStates
<1>5. ASSUME NEW c \in Conns, Ends(c), UNCHANGED opened
      PROVE  ServerType' /\ opened' = opened
  BY <1>5, GoneBlock DEF ServerType, BlocksType, BlockStates
<1> QED
  BY <1>1, <1>2, <1>3, <1>4, <1>5, Steps, ServeSteps DEF Serves, server

\* Only the steps of a command on its connection save anything.
LEMMA LeakedStep ==
    ASSUME TypeOK, [Next]_vars
    PROVE  \/ UNCHANGED leaked
           \/ \E t \in Tasks :
                OnConn(t) /\ leaked' = leaked \cup {conn[t]} /\ conn[t] \in 1..opened
<1> USE DEF TypeOK
<1>1. ASSUME NEW t \in Tasks, OnConn(t)
      PROVE  UNCHANGED leaked \/ (leaked' = leaked \cup {conn[t]} /\ conn[t] \in 1..opened)
  <2>1. /\ conn[t] # 0 /\ conn[t] \in 0..opened
        /\ UNCHANGED leaked \/ leaked' = leaked \cup {conn[t]}
    BY <1>1, OnConnType DEF Conns, CommandType
  <2>2. opened \in Nat
    BY ConnType DEF ServerType, Conns
  <2> QED
    BY <2>1, <2>2
<1> QED
  BY <1>1, Steps, ServeSteps DEF Serves

\* The history keeps its type.
LEMMA HistoryTypeStep ==
    ASSUME TypeOK, owed' \in BOOLEAN, [Next]_vars
    PROVE  HistoryType'
<1> USE DEF TypeOK, HistoryType
<1>1. opened \in Nat /\ opened' \in {opened, opened + 1}
  BY ServerStep
<1>2. 1..opened \subseteq 1..opened'
  BY <1>1
<1>3. crossed' \subseteq 1..opened
  <2>1. ASSUME NEW t \in Tasks, Keeps \/ LetsGo(t) PROVE crossed' \subseteq 1..opened
    BY <2>1 DEF Keeps, LetsGo
  <2>2. ASSUME NEW t \in Tasks, NEW c \in {main, editor, transaction, opened + 1}, Takes(t, c)
        PROVE  crossed' \subseteq 1..opened
    BY <2>2, TakesType
  <2> QED
    BY <2>1, <2>2, Steps, HoldSteps DEF Holds
<1>4. leaked' \subseteq 1..opened
  BY LeakedStep
<1> QED
  BY <1>2, <1>3, <1>4

\* The session's connections are some that were opened.
LEMMA SessionTypeStep ==
    ASSUME TypeOK, [Next]_vars
    PROVE  SessionType'
<1> USE SessionAssumption DEF session, locals, blocks, server, bounds, history,
   Goto, Kind, TypeOK, SessionType, CommandType, Getting, Relinking, Running,
   ServerType, Conns
<1>1. ASSUME NEW t \in Tasks, Ask(t) PROVE SessionType'
  BY <1>1 DEF Ask
<1>2. ASSUME NEW t \in Tasks, LookForEditor(t) PROVE SessionType'
  BY <1>2 DEF LookForEditor, TellLost, GotEditor, EditorUp, Take, Finish
<1>3. ASSUME NEW t \in Tasks, LookForMain(t) PROVE SessionType'
  BY <1>3 DEF LookForMain, WithMain, Take
<1>4. ASSUME NEW t \in Tasks, LockMain(t) PROVE SessionType'
  BY <1>4 DEF LockMain, WithMain, Take
<1>5. ASSUME NEW t \in Tasks, OpenMain(t) PROVE SessionType'
  BY <1>5 DEF OpenMain, Open, Take
<1>6. ASSUME NEW t \in Tasks, StoreMain(t) PROVE SessionType'
  BY <1>6 DEF StoreMain
<1>7. ASSUME NEW t \in Tasks, LockEditor(t) PROVE SessionType'
  BY <1>7 DEF LockEditor, TellLost, GotEditor, EditorUp, Take, Finish
<1>8. ASSUME NEW t \in Tasks, OpenEditor(t) PROVE SessionType'
  BY <1>8 DEF OpenEditor, Open, Take
<1>9. ASSUME NEW t \in Tasks, StoreEditor(t) PROVE SessionType'
  BY <1>9 DEF StoreEditor
<1>10. ASSUME NEW t \in Tasks, OpenFails(t) PROVE SessionType'
  BY <1>10 DEF OpenFails, Finish
<1>11. ASSUME NEW t \in Tasks, NotFound(t) PROVE SessionType'
  BY <1>11 DEF NotFound, Finish
<1>12. ASSUME NEW t \in Tasks, Start(t) PROVE SessionType'
  BY <1>12 DEF Start, Open, Take
<1>13. ASSUME NEW t \in Tasks, StartFails(t) PROVE SessionType'
  BY <1>13 DEF StartFails, Finish
<1>14. ASSUME NEW t \in Tasks, Statement(t) PROVE SessionType'
  BY <1>14 DEF Statement, Finish
<1>15. ASSUME NEW t \in Tasks, StatementFails(t) PROVE SessionType'
  BY <1>15 DEF StatementFails, Finish
<1>16. ASSUME NEW t \in Tasks, SetSavepoint(t) PROVE SessionType'
  BY <1>16 DEF SetSavepoint, Finish
<1>17. ASSUME NEW t \in Tasks, Plan(t) PROVE SessionType'
  BY <1>17 DEF Plan
<1>18. ASSUME NEW t \in Tasks, Undo(t) PROVE SessionType'
  BY <1>18 DEF Undo, Finish
<1>19. ASSUME NEW t \in Tasks, Begin(t) PROVE SessionType'
  BY <1>19 DEF Begin, Finish, Open, Take
<1>20. ASSUME NEW t \in Tasks, BeginFails(t) PROVE SessionType'
  BY <1>20 DEF BeginFails, Finish
<1>21. ASSUME NEW t \in Tasks, StoreTransaction(t) PROVE SessionType'
  BY <1>21 DEF StoreTransaction, Finish
<1>22. ASSUME NEW t \in Tasks, TakeTransaction(t) PROVE SessionType'
  BY <1>22 DEF TakeTransaction, Finish, Take
<1>23. ASSUME NEW t \in Tasks, Probe(t) PROVE SessionType'
  BY <1>23 DEF Probe, Finish
<1>24. ASSUME NEW t \in Tasks, Commit(t) PROVE SessionType'
  BY <1>24 DEF Commit, Finish
<1>25. ASSUME NEW t \in Tasks, CommitFails(t) PROVE SessionType'
  BY <1>25 DEF CommitFails, Finish
<1>26. ASSUME NEW t \in Tasks, Rollback(t) PROVE SessionType'
  BY <1>26 DEF Rollback, Finish
<1>27. ASSUME NEW c \in Conns, Lose(c) PROVE SessionType'
  BY <1>27 DEF Lose, Ends
<1>28. ASSUME NEW c \in Conns, Drop(c) PROVE SessionType'
  BY <1>28 DEF Drop, Ends
<1>29. CASE Close
  <2>1. 0 \in 0..opened
    BY SessionAssumption DEF SessionAssumption
  <2> QED
    BY <1>29, <2>1 DEF Close
<1>30. CASE UNCHANGED vars
  BY <1>30 DEF vars
<1> QED
    BY <1>1, <1>2, <1>3, <1>4, <1>5, <1>6, <1>7, <1>8, <1>9, <1>10, <1>11,
     <1>12, <1>13, <1>14, <1>15, <1>16, <1>17, <1>18, <1>19, <1>20, <1>21,
     <1>22, <1>23, <1>24, <1>25, <1>26, <1>27, <1>28, <1>29, <1>30
  DEF Next, Progress

\* Every command is somewhere.
LEMMA PlaceStep ==
    ASSUME TypeOK, [Next]_vars
    PROVE  PlaceType'
<1> USE DEF session, locals, blocks, server, bounds, history, Goto, Kind, TypeOK,
   CommandType, PlaceType, Getting, Relinking, Running
<1>1. ASSUME NEW t \in Tasks, Ask(t) PROVE PlaceType'
  BY <1>1 DEF Ask
<1>2. ASSUME NEW t \in Tasks, LookForEditor(t) PROVE PlaceType'
  BY <1>2 DEF LookForEditor, TellLost, GotEditor, EditorUp, Take, Finish
<1>3. ASSUME NEW t \in Tasks, LookForMain(t) PROVE PlaceType'
  BY <1>3 DEF LookForMain, WithMain, Take
<1>4. ASSUME NEW t \in Tasks, LockMain(t) PROVE PlaceType'
  BY <1>4 DEF LockMain, WithMain, Take
<1>5. ASSUME NEW t \in Tasks, OpenMain(t) PROVE PlaceType'
  BY <1>5 DEF OpenMain, Take
<1>6. ASSUME NEW t \in Tasks, StoreMain(t) PROVE PlaceType'
  BY <1>6 DEF StoreMain
<1>7. ASSUME NEW t \in Tasks, LockEditor(t) PROVE PlaceType'
  BY <1>7 DEF LockEditor, TellLost, GotEditor, EditorUp, Take, Finish
<1>8. ASSUME NEW t \in Tasks, OpenEditor(t) PROVE PlaceType'
  BY <1>8 DEF OpenEditor, Take
<1>9. ASSUME NEW t \in Tasks, StoreEditor(t) PROVE PlaceType'
  BY <1>9 DEF StoreEditor
<1>10. ASSUME NEW t \in Tasks, OpenFails(t) PROVE PlaceType'
  BY <1>10 DEF OpenFails, Finish
<1>11. ASSUME NEW t \in Tasks, NotFound(t) PROVE PlaceType'
  BY <1>11 DEF NotFound, Finish
<1>12. ASSUME NEW t \in Tasks, Start(t) PROVE PlaceType'
  BY <1>12 DEF Start, Take
<1>13. ASSUME NEW t \in Tasks, StartFails(t) PROVE PlaceType'
  BY <1>13 DEF StartFails, Finish
<1>14. ASSUME NEW t \in Tasks, Statement(t) PROVE PlaceType'
  BY <1>14 DEF Statement, Finish
<1>15. ASSUME NEW t \in Tasks, StatementFails(t) PROVE PlaceType'
  BY <1>15 DEF StatementFails, Finish
<1>16. ASSUME NEW t \in Tasks, SetSavepoint(t) PROVE PlaceType'
  BY <1>16 DEF SetSavepoint, Finish
<1>17. ASSUME NEW t \in Tasks, Plan(t) PROVE PlaceType'
  BY <1>17 DEF Plan
<1>18. ASSUME NEW t \in Tasks, Undo(t) PROVE PlaceType'
  BY <1>18 DEF Undo, Finish
<1>19. ASSUME NEW t \in Tasks, Begin(t) PROVE PlaceType'
  BY <1>19 DEF Begin, Finish, Take
<1>20. ASSUME NEW t \in Tasks, BeginFails(t) PROVE PlaceType'
  BY <1>20 DEF BeginFails, Finish
<1>21. ASSUME NEW t \in Tasks, StoreTransaction(t) PROVE PlaceType'
  BY <1>21 DEF StoreTransaction, Finish
<1>22. ASSUME NEW t \in Tasks, TakeTransaction(t) PROVE PlaceType'
  BY <1>22 DEF TakeTransaction, Finish, Take
<1>23. ASSUME NEW t \in Tasks, Probe(t) PROVE PlaceType'
  BY <1>23 DEF Probe, Finish
<1>24. ASSUME NEW t \in Tasks, Commit(t) PROVE PlaceType'
  BY <1>24 DEF Commit, Finish
<1>25. ASSUME NEW t \in Tasks, CommitFails(t) PROVE PlaceType'
  BY <1>25 DEF CommitFails, Finish
<1>26. ASSUME NEW t \in Tasks, Rollback(t) PROVE PlaceType'
  BY <1>26 DEF Rollback, Finish
<1>27. ASSUME NEW c \in Conns, Lose(c) PROVE PlaceType'
  BY <1>27 DEF Lose, Ends
<1>28. ASSUME NEW c \in Conns, Drop(c) PROVE PlaceType'
  BY <1>28 DEF Drop, Ends
<1>29. CASE Close
  BY <1>29 DEF Close
<1>30. CASE UNCHANGED vars
  BY <1>30 DEF vars
<1> QED
    BY <1>1, <1>2, <1>3, <1>4, <1>5, <1>6, <1>7, <1>8, <1>9, <1>10, <1>11,
     <1>12, <1>13, <1>14, <1>15, <1>16, <1>17, <1>18, <1>19, <1>20, <1>21,
     <1>22, <1>23, <1>24, <1>25, <1>26, <1>27, <1>28, <1>29, <1>30
  DEF Next, Progress

\* The bounds, and whether a loss is owed.
LEMMA CountStep ==
    ASSUME TypeOK, [Next]_vars
    PROVE  CountType'
<1> USE SessionAssumption DEF SessionAssumption, session, locals, blocks, server,
   bounds, history, Goto, Kind, TypeOK, BoundType, HistoryType, CountType
<1>1. ASSUME NEW t \in Tasks, Ask(t) PROVE CountType'
  BY <1>1 DEF Ask
<1>2. ASSUME NEW t \in Tasks, LookForEditor(t) PROVE CountType'
  BY <1>2 DEF LookForEditor, TellLost, GotEditor, EditorUp
<1>3. ASSUME NEW t \in Tasks, LookForMain(t) PROVE CountType'
  BY <1>3 DEF LookForMain, WithMain
<1>4. ASSUME NEW t \in Tasks, LockMain(t) PROVE CountType'
  BY <1>4 DEF LockMain, WithMain
<1>5. ASSUME NEW t \in Tasks, OpenMain(t) PROVE CountType'
  BY <1>5 DEF OpenMain
<1>6. ASSUME NEW t \in Tasks, StoreMain(t) PROVE CountType'
  BY <1>6 DEF StoreMain
<1>7. ASSUME NEW t \in Tasks, LockEditor(t) PROVE CountType'
  BY <1>7 DEF LockEditor, TellLost, GotEditor, EditorUp
<1>8. ASSUME NEW t \in Tasks, OpenEditor(t) PROVE CountType'
  BY <1>8 DEF OpenEditor
<1>9. ASSUME NEW t \in Tasks, StoreEditor(t) PROVE CountType'
  BY <1>9 DEF StoreEditor
<1>10. ASSUME NEW t \in Tasks, OpenFails(t) PROVE CountType'
  BY <1>10 DEF OpenFails
<1>11. ASSUME NEW t \in Tasks, NotFound(t) PROVE CountType'
  BY <1>11 DEF NotFound
<1>12. ASSUME NEW t \in Tasks, Start(t) PROVE CountType'
  BY <1>12 DEF Start
<1>13. ASSUME NEW t \in Tasks, StartFails(t) PROVE CountType'
  BY <1>13 DEF StartFails
<1>14. ASSUME NEW t \in Tasks, Statement(t) PROVE CountType'
  BY <1>14 DEF Statement
<1>15. ASSUME NEW t \in Tasks, StatementFails(t) PROVE CountType'
  BY <1>15 DEF StatementFails
<1>16. ASSUME NEW t \in Tasks, SetSavepoint(t) PROVE CountType'
  BY <1>16 DEF SetSavepoint
<1>17. ASSUME NEW t \in Tasks, Plan(t) PROVE CountType'
  BY <1>17 DEF Plan
<1>18. ASSUME NEW t \in Tasks, Undo(t) PROVE CountType'
  BY <1>18 DEF Undo
<1>19. ASSUME NEW t \in Tasks, Begin(t) PROVE CountType'
  BY <1>19 DEF Begin
<1>20. ASSUME NEW t \in Tasks, BeginFails(t) PROVE CountType'
  BY <1>20 DEF BeginFails
<1>21. ASSUME NEW t \in Tasks, StoreTransaction(t) PROVE CountType'
  BY <1>21 DEF StoreTransaction
<1>22. ASSUME NEW t \in Tasks, TakeTransaction(t) PROVE CountType'
  BY <1>22 DEF TakeTransaction
<1>23. ASSUME NEW t \in Tasks, Probe(t) PROVE CountType'
  BY <1>23 DEF Probe
<1>24. ASSUME NEW t \in Tasks, Commit(t) PROVE CountType'
  BY <1>24 DEF Commit
<1>25. ASSUME NEW t \in Tasks, CommitFails(t) PROVE CountType'
  BY <1>25 DEF CommitFails
<1>26. ASSUME NEW t \in Tasks, Rollback(t) PROVE CountType'
  BY <1>26 DEF Rollback
<1>27. ASSUME NEW c \in Conns, Lose(c) PROVE CountType'
  BY <1>27 DEF Lose, Ends
<1>28. ASSUME NEW c \in Conns, Drop(c) PROVE CountType'
  BY <1>28 DEF Drop, Ends
<1>29. CASE Close
  BY <1>29 DEF Close
<1>30. CASE UNCHANGED vars
  BY <1>30 DEF vars
<1> QED
    BY <1>1, <1>2, <1>3, <1>4, <1>5, <1>6, <1>7, <1>8, <1>9, <1>10, <1>11,
     <1>12, <1>13, <1>14, <1>15, <1>16, <1>17, <1>18, <1>19, <1>20, <1>21,
     <1>22, <1>23, <1>24, <1>25, <1>26, <1>27, <1>28, <1>29, <1>30
  DEF Next, Progress

\* What is left of a script that had more than one statement.
LEMMA TailLeft ==
    ASSUME NEW q \in Seq(Statements), q # <<>>, Len(q) # 1
    PROVE  Tail(q) # <<>>
<1>1. Len(q) \in Nat /\ Len(q) # 0
  BY EmptySeq
<1>2. Tail(q) \in Seq(Statements) /\ Len(Tail(q)) = Len(q) - 1
  BY HeadTailProperties
<1>3. Len(Tail(q)) # 0
  BY <1>1, <1>2
<1>4. Len(<<>>) = 0
  BY EmptySeq
<1>5. SUFFICES ASSUME Tail(q) = <<>> PROVE FALSE
  OBVIOUS
<1> QED
  BY <1>3, <1>4, <1>5, Zenon

\* A command's job stays one; the rest of a script is a script.
LEMMA JobTypeStep ==
    ASSUME TypeOK, JobInv, [Next]_vars
    PROVE  JobType'
<1> USE DEF TypeOK, CommandType, JobType
<1>1. ASSUME NEW t \in Tasks, Ask(t) PROVE JobType'
  BY <1>1, SessionAssumption DEF SessionAssumption, Ask
<1>2. ASSUME NEW t \in Tasks, Statement(t), ~UNCHANGED job PROVE JobType'
  <2>1. /\ job' = [job EXCEPT ![t].todo = Tail(job[t].todo)]
        /\ pc[t] = "run" /\ Kind(t) = "script" /\ job[t].todo # <<>>
    BY <1>2 DEF Statement, JobInv, Finish
  <2>2. job[t] \in Job /\ job[t].todo \in Seq(Statements)
    BY DEF Job
  <2>3. Tail(job[t].todo) \in Seq(Statements)
    BY <2>1, <2>2
  <2>4. [job[t] EXCEPT !.todo = Tail(job[t].todo)] \in Job
    BY <2>2, <2>3 DEF Job
  <2> QED
    BY <2>1, <2>4
<1>3. CASE UNCHANGED job
  BY <1>3
<1> QED
  BY <1>1, <1>2, <1>3, Steps, JobKeeps DEF locals

\* Whoever comes to run has a connection: those the reconnect lock was kept for
\* have the one they opened.
LEMMA ConnStep ==
    ASSUME TypeOK, FreshInv, ConnInv, [Next]_vars
    PROVE  ConnInv'
<1> USE DEF session, locals, blocks, server, bounds, history, Goto, Kind, TypeOK,
   ConnInv, FreshInv, Own, SessionType, ServerType, Conns, CommandType, Getting,
   Relinking, Running
<1>1. ASSUME NEW t \in Tasks, Ask(t) PROVE ConnInv'
  BY <1>1 DEF Ask
<1>2. ASSUME NEW t \in Tasks, LookForEditor(t) PROVE ConnInv'
  BY <1>2 DEF LookForEditor, TellLost, GotEditor, EditorUp, Take, Finish
<1>3. ASSUME NEW t \in Tasks, LookForMain(t) PROVE ConnInv'
  BY <1>3 DEF LookForMain, WithMain, Take
<1>4. ASSUME NEW t \in Tasks, LockMain(t) PROVE ConnInv'
  BY <1>4 DEF LockMain, WithMain, Take
<1>5. ASSUME NEW t \in Tasks, OpenMain(t) PROVE ConnInv'
  BY <1>5 DEF OpenMain, Open, Take
<1>6. ASSUME NEW t \in Tasks, StoreMain(t) PROVE ConnInv'
  BY <1>6 DEF StoreMain
<1>7. ASSUME NEW t \in Tasks, LockEditor(t) PROVE ConnInv'
  BY <1>7 DEF LockEditor, TellLost, GotEditor, EditorUp, Take, Finish
<1>8. ASSUME NEW t \in Tasks, OpenEditor(t) PROVE ConnInv'
  BY <1>8 DEF OpenEditor, Open, Take
<1>9. ASSUME NEW t \in Tasks, StoreEditor(t) PROVE ConnInv'
  BY <1>9 DEF StoreEditor
<1>10. ASSUME NEW t \in Tasks, OpenFails(t) PROVE ConnInv'
  BY <1>10 DEF OpenFails, Finish
<1>11. ASSUME NEW t \in Tasks, NotFound(t) PROVE ConnInv'
  BY <1>11 DEF NotFound, Finish
<1>12. ASSUME NEW t \in Tasks, Start(t) PROVE ConnInv'
  BY <1>12 DEF Start, Open, Take
<1>13. ASSUME NEW t \in Tasks, StartFails(t) PROVE ConnInv'
  BY <1>13 DEF StartFails, Finish
<1>14. ASSUME NEW t \in Tasks, Statement(t) PROVE ConnInv'
  BY <1>14 DEF Statement, Finish
<1>15. ASSUME NEW t \in Tasks, StatementFails(t) PROVE ConnInv'
  BY <1>15 DEF StatementFails, Finish
<1>16. ASSUME NEW t \in Tasks, SetSavepoint(t) PROVE ConnInv'
  BY <1>16 DEF SetSavepoint, Finish
<1>17. ASSUME NEW t \in Tasks, Plan(t) PROVE ConnInv'
  BY <1>17 DEF Plan
<1>18. ASSUME NEW t \in Tasks, Undo(t) PROVE ConnInv'
  BY <1>18 DEF Undo, Finish
<1>19. ASSUME NEW t \in Tasks, Begin(t) PROVE ConnInv'
  BY <1>19 DEF Begin, Finish, Open, Take
<1>20. ASSUME NEW t \in Tasks, BeginFails(t) PROVE ConnInv'
  BY <1>20 DEF BeginFails, Finish
<1>21. ASSUME NEW t \in Tasks, StoreTransaction(t) PROVE ConnInv'
  BY <1>21 DEF StoreTransaction, Finish
<1>22. ASSUME NEW t \in Tasks, TakeTransaction(t) PROVE ConnInv'
  BY <1>22 DEF TakeTransaction, Finish, Take
<1>23. ASSUME NEW t \in Tasks, Probe(t) PROVE ConnInv'
  BY <1>23 DEF Probe, Finish
<1>24. ASSUME NEW t \in Tasks, Commit(t) PROVE ConnInv'
  BY <1>24 DEF Commit, Finish
<1>25. ASSUME NEW t \in Tasks, CommitFails(t) PROVE ConnInv'
  BY <1>25 DEF CommitFails, Finish
<1>26. ASSUME NEW t \in Tasks, Rollback(t) PROVE ConnInv'
  BY <1>26 DEF Rollback, Finish
<1>27. ASSUME NEW c \in Conns, Lose(c) PROVE ConnInv'
  BY <1>27 DEF Lose, Ends
<1>28. ASSUME NEW c \in Conns, Drop(c) PROVE ConnInv'
  BY <1>28 DEF Drop, Ends
<1>29. CASE Close
  BY <1>29 DEF Close
<1>30. CASE UNCHANGED vars
  BY <1>30 DEF vars
<1> QED
    BY <1>1, <1>2, <1>3, <1>4, <1>5, <1>6, <1>7, <1>8, <1>9, <1>10, <1>11,
     <1>12, <1>13, <1>14, <1>15, <1>16, <1>17, <1>18, <1>19, <1>20, <1>21,
     <1>22, <1>23, <1>24, <1>25, <1>26, <1>27, <1>28, <1>29, <1>30
  DEF Next, Progress

\* The reconnect lock goes to who reconnects, and is free with it.
LEMMA LockStep ==
    ASSUME TypeOK, LockInv, [Next]_vars
    PROVE  LockInv'
<1> USE SessionAssumption DEF SessionAssumption, session, locals, blocks, server,
   bounds, history, Goto, Kind, TypeOK, SessionType, LockInv, CommandType, Getting,
   Relinking, Running
<1>1. ASSUME NEW t \in Tasks, Ask(t) PROVE LockInv'
  BY <1>1 DEF Ask
<1>2. ASSUME NEW t \in Tasks, LookForEditor(t) PROVE LockInv'
  BY <1>2 DEF LookForEditor, TellLost, GotEditor, EditorUp, Take, Finish
<1>3. ASSUME NEW t \in Tasks, LookForMain(t) PROVE LockInv'
  BY <1>3 DEF LookForMain, WithMain, Take
<1>4. ASSUME NEW t \in Tasks, LockMain(t) PROVE LockInv'
  BY <1>4 DEF LockMain, WithMain, Take
<1>5. ASSUME NEW t \in Tasks, OpenMain(t) PROVE LockInv'
  BY <1>5 DEF OpenMain, Take
<1>6. ASSUME NEW t \in Tasks, StoreMain(t) PROVE LockInv'
  BY <1>6 DEF StoreMain
<1>7. ASSUME NEW t \in Tasks, LockEditor(t) PROVE LockInv'
  BY <1>7 DEF LockEditor, TellLost, GotEditor, EditorUp, Take, Finish
<1>8. ASSUME NEW t \in Tasks, OpenEditor(t) PROVE LockInv'
  BY <1>8 DEF OpenEditor, Take
<1>9. ASSUME NEW t \in Tasks, StoreEditor(t) PROVE LockInv'
  BY <1>9 DEF StoreEditor
<1>10. ASSUME NEW t \in Tasks, OpenFails(t) PROVE LockInv'
  BY <1>10 DEF OpenFails, Finish
<1>11. ASSUME NEW t \in Tasks, NotFound(t) PROVE LockInv'
  BY <1>11 DEF NotFound, Finish
<1>12. ASSUME NEW t \in Tasks, Start(t) PROVE LockInv'
  BY <1>12 DEF Start, Take
<1>13. ASSUME NEW t \in Tasks, StartFails(t) PROVE LockInv'
  BY <1>13 DEF StartFails, Finish
<1>14. ASSUME NEW t \in Tasks, Statement(t) PROVE LockInv'
  BY <1>14 DEF Statement, Finish
<1>15. ASSUME NEW t \in Tasks, StatementFails(t) PROVE LockInv'
  BY <1>15 DEF StatementFails, Finish
<1>16. ASSUME NEW t \in Tasks, SetSavepoint(t) PROVE LockInv'
  BY <1>16 DEF SetSavepoint, Finish
<1>17. ASSUME NEW t \in Tasks, Plan(t) PROVE LockInv'
  BY <1>17 DEF Plan
<1>18. ASSUME NEW t \in Tasks, Undo(t) PROVE LockInv'
  BY <1>18 DEF Undo, Finish
<1>19. ASSUME NEW t \in Tasks, Begin(t) PROVE LockInv'
  BY <1>19 DEF Begin, Finish, Take
<1>20. ASSUME NEW t \in Tasks, BeginFails(t) PROVE LockInv'
  BY <1>20 DEF BeginFails, Finish
<1>21. ASSUME NEW t \in Tasks, StoreTransaction(t) PROVE LockInv'
  BY <1>21 DEF StoreTransaction, Finish
<1>22. ASSUME NEW t \in Tasks, TakeTransaction(t) PROVE LockInv'
  BY <1>22 DEF TakeTransaction, Finish, Take
<1>23. ASSUME NEW t \in Tasks, Probe(t) PROVE LockInv'
  BY <1>23 DEF Probe, Finish
<1>24. ASSUME NEW t \in Tasks, Commit(t) PROVE LockInv'
  BY <1>24 DEF Commit, Finish
<1>25. ASSUME NEW t \in Tasks, CommitFails(t) PROVE LockInv'
  BY <1>25 DEF CommitFails, Finish
<1>26. ASSUME NEW t \in Tasks, Rollback(t) PROVE LockInv'
  BY <1>26 DEF Rollback, Finish
<1>27. ASSUME NEW c \in Conns, Lose(c) PROVE LockInv'
  BY <1>27 DEF Lose, Ends
<1>28. ASSUME NEW c \in Conns, Drop(c) PROVE LockInv'
  BY <1>28 DEF Drop, Ends
<1>29. CASE Close
  BY <1>29 DEF Close
<1>30. CASE UNCHANGED vars
  BY <1>30 DEF vars
<1> QED
    BY <1>1, <1>2, <1>3, <1>4, <1>5, <1>6, <1>7, <1>8, <1>9, <1>10, <1>11,
     <1>12, <1>13, <1>14, <1>15, <1>16, <1>17, <1>18, <1>19, <1>20, <1>21,
     <1>22, <1>23, <1>24, <1>25, <1>26, <1>27, <1>28, <1>29, <1>30
  DEF Next, Progress

---------------------------------------------------------------------------
(* The connections of commands *)

\* A script that runs has a statement left.
LEMMA JobStep ==
    ASSUME TypeOK, JobInv, [Next]_vars
    PROVE  JobInv'
<1> USE SessionAssumption DEF SessionAssumption, session, locals, blocks, server,
   bounds, history, Goto, Kind, TypeOK, JobInv, Job, CommandType, Getting,
   Relinking, Running
<1>1. ASSUME NEW t \in Tasks, Ask(t) PROVE JobInv'
  BY <1>1 DEF Ask
<1>2. ASSUME NEW t \in Tasks, LookForEditor(t) PROVE JobInv'
  BY <1>2 DEF LookForEditor, TellLost, GotEditor, EditorUp, Finish
<1>3. ASSUME NEW t \in Tasks, LookForMain(t) PROVE JobInv'
  BY <1>3 DEF LookForMain, WithMain
<1>4. ASSUME NEW t \in Tasks, LockMain(t) PROVE JobInv'
  BY <1>4 DEF LockMain, WithMain
<1>5. ASSUME NEW t \in Tasks, OpenMain(t) PROVE JobInv'
  BY <1>5 DEF OpenMain
<1>6. ASSUME NEW t \in Tasks, StoreMain(t) PROVE JobInv'
  BY <1>6 DEF StoreMain
<1>7. ASSUME NEW t \in Tasks, LockEditor(t) PROVE JobInv'
  BY <1>7 DEF LockEditor, TellLost, GotEditor, EditorUp, Finish
<1>8. ASSUME NEW t \in Tasks, OpenEditor(t) PROVE JobInv'
  BY <1>8 DEF OpenEditor
<1>9. ASSUME NEW t \in Tasks, StoreEditor(t) PROVE JobInv'
  BY <1>9 DEF StoreEditor
<1>10. ASSUME NEW t \in Tasks, OpenFails(t) PROVE JobInv'
  BY <1>10 DEF OpenFails, Finish
<1>11. ASSUME NEW t \in Tasks, NotFound(t) PROVE JobInv'
  BY <1>11 DEF NotFound, Finish
<1>12. ASSUME NEW t \in Tasks, Start(t) PROVE JobInv'
  BY <1>12 DEF Start
<1>13. ASSUME NEW t \in Tasks, StartFails(t) PROVE JobInv'
  BY <1>13 DEF StartFails, Finish
<1>14. ASSUME NEW t \in Tasks, Statement(t) PROVE JobInv'
  <2>1. CASE Kind(t) = "table" \/ Len(job[t].todo) = 1
    BY <1>14, <2>1 DEF Statement, Finish
  <2>2. CASE ~(Kind(t) = "table" \/ Len(job[t].todo) = 1)
    <3>1. job' = [job EXCEPT ![t].todo = Tail(job[t].todo)] /\ UNCHANGED <<pc, conn, joined>>
      BY <1>14, <2>2 DEF Statement
    <3>2. pc[t] = "run" /\ Kind(t) = "script" /\ job[t].todo # <<>>
      BY <1>14, <2>2 DEF Statement, JobInv
    <3>3. job[t] \in Job /\ job[t].todo \in Seq(Statements)
      BY DEF TypeOK, CommandType, Job
    <3>4. Tail(job[t].todo) # <<>>
      BY <2>2, <3>2, <3>3, TailLeft
    <3>5. job'[t].kind = job[t].kind /\ job'[t].todo = Tail(job[t].todo) /\ \A u \in Tasks \ {t} : job'[u] = job[u]
      BY <3>1, <3>3 DEF TypeOK, CommandType, Job
    <3> QED
      BY <3>1, <3>2, <3>4, <3>5 DEF JobInv, Kind
  <2> QED
    BY <2>1, <2>2
<1>15. ASSUME NEW t \in Tasks, StatementFails(t) PROVE JobInv'
  BY <1>15 DEF StatementFails, Finish
<1>16. ASSUME NEW t \in Tasks, SetSavepoint(t) PROVE JobInv'
  BY <1>16 DEF SetSavepoint, Finish
<1>17. ASSUME NEW t \in Tasks, Plan(t) PROVE JobInv'
  BY <1>17 DEF Plan
<1>18. ASSUME NEW t \in Tasks, Undo(t) PROVE JobInv'
  BY <1>18 DEF Undo, Finish
<1>19. ASSUME NEW t \in Tasks, Begin(t) PROVE JobInv'
  BY <1>19 DEF Begin, Finish
<1>20. ASSUME NEW t \in Tasks, BeginFails(t) PROVE JobInv'
  BY <1>20 DEF BeginFails, Finish
<1>21. ASSUME NEW t \in Tasks, StoreTransaction(t) PROVE JobInv'
  BY <1>21 DEF StoreTransaction, Finish
<1>22. ASSUME NEW t \in Tasks, TakeTransaction(t) PROVE JobInv'
  BY <1>22 DEF TakeTransaction, Finish
<1>23. ASSUME NEW t \in Tasks, Probe(t) PROVE JobInv'
  BY <1>23 DEF Probe, Finish
<1>24. ASSUME NEW t \in Tasks, Commit(t) PROVE JobInv'
  BY <1>24 DEF Commit, Finish
<1>25. ASSUME NEW t \in Tasks, CommitFails(t) PROVE JobInv'
  BY <1>25 DEF CommitFails, Finish
<1>26. ASSUME NEW t \in Tasks, Rollback(t) PROVE JobInv'
  BY <1>26 DEF Rollback, Finish
<1>27. ASSUME NEW c \in Conns, Lose(c) PROVE JobInv'
  BY <1>27 DEF Lose, Ends
<1>28. ASSUME NEW c \in Conns, Drop(c) PROVE JobInv'
  BY <1>28 DEF Drop, Ends
<1>29. CASE Close
  BY <1>29 DEF Close
<1>30. CASE UNCHANGED vars
  BY <1>30 DEF vars
<1> QED
    BY <1>1, <1>2, <1>3, <1>4, <1>5, <1>6, <1>7, <1>8, <1>9, <1>10, <1>11,
     <1>12, <1>13, <1>14, <1>15, <1>16, <1>17, <1>18, <1>19, <1>20, <1>21,
     <1>22, <1>23, <1>24, <1>25, <1>26, <1>27, <1>28, <1>29, <1>30
  DEF Next, Progress

\* Only LookForEditor and LockEditor make a command join, at the start of a run or
\* of an EXPLAIN.
LEMMA JoinStep ==
    ASSUME TypeOK, JoinInv, [Next]_vars
    PROVE  JoinInv'
<1> USE DEF session, locals, blocks, server, bounds, history, Goto, Kind, TypeOK,
   JoinInv, CommandType, Getting, Relinking, Running
<1>1. ASSUME NEW t \in Tasks, Ask(t) PROVE JoinInv'
  BY <1>1 DEF Ask
<1>2. ASSUME NEW t \in Tasks, LookForEditor(t) PROVE JoinInv'
  BY <1>2 DEF LookForEditor, TellLost, GotEditor, EditorUp, Take, Finish
<1>3. ASSUME NEW t \in Tasks, LookForMain(t) PROVE JoinInv'
  BY <1>3 DEF LookForMain, WithMain, Take
<1>4. ASSUME NEW t \in Tasks, LockMain(t) PROVE JoinInv'
  BY <1>4 DEF LockMain, WithMain, Take
<1>5. ASSUME NEW t \in Tasks, OpenMain(t) PROVE JoinInv'
  BY <1>5 DEF OpenMain, Take
<1>6. ASSUME NEW t \in Tasks, StoreMain(t) PROVE JoinInv'
  BY <1>6 DEF StoreMain
<1>7. ASSUME NEW t \in Tasks, LockEditor(t) PROVE JoinInv'
  BY <1>7 DEF LockEditor, TellLost, GotEditor, EditorUp, Take, Finish
<1>8. ASSUME NEW t \in Tasks, OpenEditor(t) PROVE JoinInv'
  BY <1>8 DEF OpenEditor, Take
<1>9. ASSUME NEW t \in Tasks, StoreEditor(t) PROVE JoinInv'
  BY <1>9 DEF StoreEditor
<1>10. ASSUME NEW t \in Tasks, OpenFails(t) PROVE JoinInv'
  BY <1>10 DEF OpenFails, Finish
<1>11. ASSUME NEW t \in Tasks, NotFound(t) PROVE JoinInv'
  BY <1>11 DEF NotFound, Finish
<1>12. ASSUME NEW t \in Tasks, Start(t) PROVE JoinInv'
  BY <1>12 DEF Start, Take
<1>13. ASSUME NEW t \in Tasks, StartFails(t) PROVE JoinInv'
  BY <1>13 DEF StartFails, Finish
<1>14. ASSUME NEW t \in Tasks, Statement(t) PROVE JoinInv'
  BY <1>14 DEF Statement, Finish
<1>15. ASSUME NEW t \in Tasks, StatementFails(t) PROVE JoinInv'
  BY <1>15 DEF StatementFails, Finish
<1>16. ASSUME NEW t \in Tasks, SetSavepoint(t) PROVE JoinInv'
  BY <1>16 DEF SetSavepoint, Finish
<1>17. ASSUME NEW t \in Tasks, Plan(t) PROVE JoinInv'
  BY <1>17 DEF Plan
<1>18. ASSUME NEW t \in Tasks, Undo(t) PROVE JoinInv'
  BY <1>18 DEF Undo, Finish
<1>19. ASSUME NEW t \in Tasks, Begin(t) PROVE JoinInv'
  BY <1>19 DEF Begin, Finish, Take
<1>20. ASSUME NEW t \in Tasks, BeginFails(t) PROVE JoinInv'
  BY <1>20 DEF BeginFails, Finish
<1>21. ASSUME NEW t \in Tasks, StoreTransaction(t) PROVE JoinInv'
  BY <1>21 DEF StoreTransaction, Finish
<1>22. ASSUME NEW t \in Tasks, TakeTransaction(t) PROVE JoinInv'
  BY <1>22 DEF TakeTransaction, Finish, Take
<1>23. ASSUME NEW t \in Tasks, Probe(t) PROVE JoinInv'
  BY <1>23 DEF Probe, Finish
<1>24. ASSUME NEW t \in Tasks, Commit(t) PROVE JoinInv'
  BY <1>24 DEF Commit, Finish
<1>25. ASSUME NEW t \in Tasks, CommitFails(t) PROVE JoinInv'
  BY <1>25 DEF CommitFails, Finish
<1>26. ASSUME NEW t \in Tasks, Rollback(t) PROVE JoinInv'
  BY <1>26 DEF Rollback, Finish
<1>27. ASSUME NEW c \in Conns, Lose(c) PROVE JoinInv'
  BY <1>27 DEF Lose, Ends
<1>28. ASSUME NEW c \in Conns, Drop(c) PROVE JoinInv'
  BY <1>28 DEF Drop, Ends
<1>29. CASE Close
  BY <1>29 DEF Close
<1>30. CASE UNCHANGED vars
  BY <1>30 DEF vars
<1> QED
    BY <1>1, <1>2, <1>3, <1>4, <1>5, <1>6, <1>7, <1>8, <1>9, <1>10, <1>11,
     <1>12, <1>13, <1>14, <1>15, <1>16, <1>17, <1>18, <1>19, <1>20, <1>21,
     <1>22, <1>23, <1>24, <1>25, <1>26, <1>27, <1>28, <1>29, <1>30
  DEF Next, Progress

\* A connection that was just opened is the next one: nobody has it before it is
\* stored.
LEMMA FreshStep ==
    ASSUME TypeOK, JoinInv, FreshInv, [Next]_vars
    PROVE  FreshInv'
<1> USE SessionAssumption DEF SessionAssumption, session, locals, blocks, server,
   bounds, history, Goto, Kind, TypeOK, SessionType, ServerType, Conns, JoinInv,
   FreshInv, Own, CommandType, Getting, Relinking, Running
<1>1. ASSUME NEW t \in Tasks, Ask(t) PROVE FreshInv'
  BY <1>1 DEF Ask
<1>2. ASSUME NEW t \in Tasks, LookForEditor(t) PROVE FreshInv'
  BY <1>2 DEF LookForEditor, TellLost, GotEditor, EditorUp, Take, Finish
<1>3. ASSUME NEW t \in Tasks, LookForMain(t) PROVE FreshInv'
  BY <1>3 DEF LookForMain, WithMain, Take
<1>4. ASSUME NEW t \in Tasks, LockMain(t) PROVE FreshInv'
  BY <1>4 DEF LockMain, WithMain, Take
<1>5. ASSUME NEW t \in Tasks, OpenMain(t) PROVE FreshInv'
  BY <1>5 DEF OpenMain, Open, Take
<1>6. ASSUME NEW t \in Tasks, StoreMain(t) PROVE FreshInv'
  BY <1>6 DEF StoreMain
<1>7. ASSUME NEW t \in Tasks, LockEditor(t) PROVE FreshInv'
  BY <1>7 DEF LockEditor, TellLost, GotEditor, EditorUp, Take, Finish
<1>8. ASSUME NEW t \in Tasks, OpenEditor(t) PROVE FreshInv'
  BY <1>8 DEF OpenEditor, Open, Take
<1>9. ASSUME NEW t \in Tasks, StoreEditor(t) PROVE FreshInv'
  BY <1>9 DEF StoreEditor
<1>10. ASSUME NEW t \in Tasks, OpenFails(t) PROVE FreshInv'
  BY <1>10 DEF OpenFails, Finish
<1>11. ASSUME NEW t \in Tasks, NotFound(t) PROVE FreshInv'
  BY <1>11 DEF NotFound, Finish
<1>12. ASSUME NEW t \in Tasks, Start(t) PROVE FreshInv'
  BY <1>12 DEF Start, Open, Take
<1>13. ASSUME NEW t \in Tasks, StartFails(t) PROVE FreshInv'
  BY <1>13 DEF StartFails, Finish
<1>14. ASSUME NEW t \in Tasks, Statement(t) PROVE FreshInv'
  BY <1>14 DEF Statement, Finish
<1>15. ASSUME NEW t \in Tasks, StatementFails(t) PROVE FreshInv'
  BY <1>15 DEF StatementFails, Finish
<1>16. ASSUME NEW t \in Tasks, SetSavepoint(t) PROVE FreshInv'
  BY <1>16 DEF SetSavepoint, Finish
<1>17. ASSUME NEW t \in Tasks, Plan(t) PROVE FreshInv'
  BY <1>17 DEF Plan
<1>18. ASSUME NEW t \in Tasks, Undo(t) PROVE FreshInv'
  BY <1>18 DEF Undo, Finish
<1>19. ASSUME NEW t \in Tasks, Begin(t) PROVE FreshInv'
  BY <1>19 DEF Begin, Finish, Open, Take
<1>20. ASSUME NEW t \in Tasks, BeginFails(t) PROVE FreshInv'
  BY <1>20 DEF BeginFails, Finish
<1>21. ASSUME NEW t \in Tasks, StoreTransaction(t) PROVE FreshInv'
  BY <1>21 DEF StoreTransaction, Finish
<1>22. ASSUME NEW t \in Tasks, TakeTransaction(t) PROVE FreshInv'
  BY <1>22 DEF TakeTransaction, Finish, Take
<1>23. ASSUME NEW t \in Tasks, Probe(t) PROVE FreshInv'
  BY <1>23 DEF Probe, Finish
<1>24. ASSUME NEW t \in Tasks, Commit(t) PROVE FreshInv'
  BY <1>24 DEF Commit, Finish
<1>25. ASSUME NEW t \in Tasks, CommitFails(t) PROVE FreshInv'
  BY <1>25 DEF CommitFails, Finish
<1>26. ASSUME NEW t \in Tasks, Rollback(t) PROVE FreshInv'
  BY <1>26 DEF Rollback, Finish
<1>27. ASSUME NEW c \in Conns, Lose(c) PROVE FreshInv'
  BY <1>27 DEF Lose, Ends
<1>28. ASSUME NEW c \in Conns, Drop(c) PROVE FreshInv'
  BY <1>28 DEF Drop, Ends
<1>29. CASE Close
  BY <1>29 DEF Close
<1>30. CASE UNCHANGED vars
  BY <1>30 DEF vars
<1> QED
    BY <1>1, <1>2, <1>3, <1>4, <1>5, <1>6, <1>7, <1>8, <1>9, <1>10, <1>11,
     <1>12, <1>13, <1>14, <1>15, <1>16, <1>17, <1>18, <1>19, <1>20, <1>21,
     <1>22, <1>23, <1>24, <1>25, <1>26, <1>27, <1>28, <1>29, <1>30
  DEF Next, Progress

\* A transaction is stored from a connection nobody else has, and whoever takes it
\* to end it leaves the session without.
LEMMA TransStep ==
    ASSUME TypeOK, JoinInv, FreshInv, TransInv, [Next]_vars
    PROVE  TransInv'
<1> USE SessionAssumption DEF SessionAssumption, session, locals, blocks, server,
   bounds, history, Goto, Kind, TypeOK, SessionType, CommandType, ServerType, Conns,
   FreshInv, Own, JoinInv, TransInv
<1>1. ASSUME NEW t \in Tasks, Ask(t) PROVE TransInv'
  BY <1>1 DEF Ask
<1>2. ASSUME NEW t \in Tasks, LookForEditor(t) PROVE TransInv'
  BY <1>2 DEF LookForEditor, TellLost, GotEditor, EditorUp, Take, Finish
<1>3. ASSUME NEW t \in Tasks, LookForMain(t) PROVE TransInv'
  BY <1>3 DEF LookForMain, WithMain, Take
<1>4. ASSUME NEW t \in Tasks, LockMain(t) PROVE TransInv'
  BY <1>4 DEF LockMain, WithMain, Take
<1>5. ASSUME NEW t \in Tasks, OpenMain(t) PROVE TransInv'
  BY <1>5 DEF OpenMain, Open, Take
<1>6. ASSUME NEW t \in Tasks, StoreMain(t) PROVE TransInv'
  BY <1>6 DEF StoreMain
<1>7. ASSUME NEW t \in Tasks, LockEditor(t) PROVE TransInv'
  BY <1>7 DEF LockEditor, TellLost, GotEditor, EditorUp, Take, Finish
<1>8. ASSUME NEW t \in Tasks, OpenEditor(t) PROVE TransInv'
  BY <1>8 DEF OpenEditor, Open, Take
<1>9. ASSUME NEW t \in Tasks, StoreEditor(t) PROVE TransInv'
  BY <1>9 DEF StoreEditor
<1>10. ASSUME NEW t \in Tasks, OpenFails(t) PROVE TransInv'
  BY <1>10 DEF OpenFails, Finish
<1>11. ASSUME NEW t \in Tasks, NotFound(t) PROVE TransInv'
  BY <1>11 DEF NotFound, Finish
<1>12. ASSUME NEW t \in Tasks, Start(t) PROVE TransInv'
  BY <1>12 DEF Start, Open, Take
<1>13. ASSUME NEW t \in Tasks, StartFails(t) PROVE TransInv'
  BY <1>13 DEF StartFails, Finish
<1>14. ASSUME NEW t \in Tasks, Statement(t) PROVE TransInv'
  BY <1>14 DEF Statement, Finish
<1>15. ASSUME NEW t \in Tasks, StatementFails(t) PROVE TransInv'
  BY <1>15 DEF StatementFails, Finish
<1>16. ASSUME NEW t \in Tasks, SetSavepoint(t) PROVE TransInv'
  BY <1>16 DEF SetSavepoint, Finish
<1>17. ASSUME NEW t \in Tasks, Plan(t) PROVE TransInv'
  BY <1>17 DEF Plan
<1>18. ASSUME NEW t \in Tasks, Undo(t) PROVE TransInv'
  BY <1>18 DEF Undo, Finish
<1>19. ASSUME NEW t \in Tasks, Begin(t) PROVE TransInv'
  BY <1>19 DEF Begin, Finish, Open, Take
<1>20. ASSUME NEW t \in Tasks, BeginFails(t) PROVE TransInv'
  BY <1>20 DEF BeginFails, Finish
<1>21. ASSUME NEW t \in Tasks, StoreTransaction(t) PROVE TransInv'
  BY <1>21 DEF StoreTransaction, Finish
<1>22. ASSUME NEW t \in Tasks, TakeTransaction(t) PROVE TransInv'
  BY <1>22 DEF TakeTransaction, Finish, Take
<1>23. ASSUME NEW t \in Tasks, Probe(t) PROVE TransInv'
  BY <1>23 DEF Probe, Finish
<1>24. ASSUME NEW t \in Tasks, Commit(t) PROVE TransInv'
  BY <1>24 DEF Commit, Finish
<1>25. ASSUME NEW t \in Tasks, CommitFails(t) PROVE TransInv'
  BY <1>25 DEF CommitFails, Finish
<1>26. ASSUME NEW t \in Tasks, Rollback(t) PROVE TransInv'
  BY <1>26 DEF Rollback, Finish
<1>27. ASSUME NEW c \in Conns, Lose(c) PROVE TransInv'
  BY <1>27 DEF Lose, Ends
<1>28. ASSUME NEW c \in Conns, Drop(c) PROVE TransInv'
  BY <1>28 DEF Drop, Ends
<1>29. CASE Close
  BY <1>29 DEF Close
<1>30. CASE UNCHANGED vars
  BY <1>30 DEF vars
<1> QED
    BY <1>1, <1>2, <1>3, <1>4, <1>5, <1>6, <1>7, <1>8, <1>9, <1>10, <1>11,
     <1>12, <1>13, <1>14, <1>15, <1>16, <1>17, <1>18, <1>19, <1>20, <1>21,
     <1>22, <1>23, <1>24, <1>25, <1>26, <1>27, <1>28, <1>29, <1>30
  DEF Next, Progress

\* A connection that is lost stays so, and the main one is replaced by nobody else
\* meanwhile.
LEMMA MainStep ==
    ASSUME TypeOK, MainInv, [Next]_vars
    PROVE  MainInv'
<1> USE SessionAssumption DEF SessionAssumption, session, locals, blocks, server,
   bounds, history, Goto, Kind, TypeOK, SessionType, CommandType, ServerType, Conns,
   MainInv, LockInv, Relinking
<1>1. ASSUME NEW t \in Tasks, Ask(t) PROVE MainInv'
  BY <1>1 DEF Ask
<1>2. ASSUME NEW t \in Tasks, LookForEditor(t) PROVE MainInv'
  BY <1>2 DEF LookForEditor, TellLost, GotEditor, EditorUp, Take, Finish
<1>3. ASSUME NEW t \in Tasks, LookForMain(t) PROVE MainInv'
  BY <1>3 DEF LookForMain, WithMain, Take
<1>4. ASSUME NEW t \in Tasks, LockMain(t) PROVE MainInv'
  BY <1>4 DEF LockMain, WithMain, Take
<1>5. ASSUME NEW t \in Tasks, OpenMain(t) PROVE MainInv'
  BY <1>5 DEF OpenMain, Open, Take
<1>6. ASSUME NEW t \in Tasks, StoreMain(t) PROVE MainInv'
  BY <1>6 DEF StoreMain
<1>7. ASSUME NEW t \in Tasks, LockEditor(t) PROVE MainInv'
  BY <1>7 DEF LockEditor, TellLost, GotEditor, EditorUp, Take, Finish
<1>8. ASSUME NEW t \in Tasks, OpenEditor(t) PROVE MainInv'
  BY <1>8 DEF OpenEditor, Open, Take
<1>9. ASSUME NEW t \in Tasks, StoreEditor(t) PROVE MainInv'
  BY <1>9 DEF StoreEditor
<1>10. ASSUME NEW t \in Tasks, OpenFails(t) PROVE MainInv'
  BY <1>10 DEF OpenFails, Finish
<1>11. ASSUME NEW t \in Tasks, NotFound(t) PROVE MainInv'
  BY <1>11 DEF NotFound, Finish
<1>12. ASSUME NEW t \in Tasks, Start(t) PROVE MainInv'
  BY <1>12 DEF Start, Open, Take
<1>13. ASSUME NEW t \in Tasks, StartFails(t) PROVE MainInv'
  BY <1>13 DEF StartFails, Finish
<1>14. ASSUME NEW t \in Tasks, Statement(t) PROVE MainInv'
  BY <1>14 DEF Statement, Finish
<1>15. ASSUME NEW t \in Tasks, StatementFails(t) PROVE MainInv'
  BY <1>15 DEF StatementFails, Finish
<1>16. ASSUME NEW t \in Tasks, SetSavepoint(t) PROVE MainInv'
  BY <1>16 DEF SetSavepoint, Finish
<1>17. ASSUME NEW t \in Tasks, Plan(t) PROVE MainInv'
  BY <1>17 DEF Plan
<1>18. ASSUME NEW t \in Tasks, Undo(t) PROVE MainInv'
  BY <1>18 DEF Undo, Finish
<1>19. ASSUME NEW t \in Tasks, Begin(t) PROVE MainInv'
  BY <1>19 DEF Begin, Finish, Open, Take
<1>20. ASSUME NEW t \in Tasks, BeginFails(t) PROVE MainInv'
  BY <1>20 DEF BeginFails, Finish
<1>21. ASSUME NEW t \in Tasks, StoreTransaction(t) PROVE MainInv'
  BY <1>21 DEF StoreTransaction, Finish
<1>22. ASSUME NEW t \in Tasks, TakeTransaction(t) PROVE MainInv'
  BY <1>22 DEF TakeTransaction, Finish, Take
<1>23. ASSUME NEW t \in Tasks, Probe(t) PROVE MainInv'
  BY <1>23 DEF Probe, Finish
<1>24. ASSUME NEW t \in Tasks, Commit(t) PROVE MainInv'
  BY <1>24 DEF Commit, Finish
<1>25. ASSUME NEW t \in Tasks, CommitFails(t) PROVE MainInv'
  BY <1>25 DEF CommitFails, Finish
<1>26. ASSUME NEW t \in Tasks, Rollback(t) PROVE MainInv'
  BY <1>26 DEF Rollback, Finish
<1>27. ASSUME NEW c \in Conns, Lose(c) PROVE MainInv'
  BY <1>27 DEF Lose, Ends
<1>28. ASSUME NEW c \in Conns, Drop(c) PROVE MainInv'
  BY <1>28 DEF Drop, Ends
<1>29. CASE Close
  BY <1>29 DEF Close
<1>30. CASE UNCHANGED vars
  BY <1>30 DEF vars
<1> QED
    BY <1>1, <1>2, <1>3, <1>4, <1>5, <1>6, <1>7, <1>8, <1>9, <1>10, <1>11,
     <1>12, <1>13, <1>14, <1>15, <1>16, <1>17, <1>18, <1>19, <1>20, <1>21,
     <1>22, <1>23, <1>24, <1>25, <1>26, <1>27, <1>28, <1>29, <1>30
  DEF Next, Progress

\* The loss is owed until the transaction leaves the session.
LEMMA OwedStep ==
    ASSUME TypeOK, OwedInv, [Next]_vars
    PROVE  OwedInv'
<1> USE SessionAssumption DEF SessionAssumption, session, locals, blocks, server,
   bounds, history, Goto, Kind, TypeOK, SessionType, ServerType, HistoryType, Conns,
   OwedInv
<1>1. ASSUME NEW t \in Tasks, Ask(t) PROVE OwedInv'
  BY <1>1 DEF Ask
<1>2. ASSUME NEW t \in Tasks, LookForEditor(t) PROVE OwedInv'
  BY <1>2 DEF LookForEditor, TellLost, GotEditor, EditorUp, Take, Finish
<1>3. ASSUME NEW t \in Tasks, LookForMain(t) PROVE OwedInv'
  BY <1>3 DEF LookForMain, WithMain, Take
<1>4. ASSUME NEW t \in Tasks, LockMain(t) PROVE OwedInv'
  BY <1>4 DEF LockMain, WithMain, Take
<1>5. ASSUME NEW t \in Tasks, OpenMain(t) PROVE OwedInv'
  BY <1>5 DEF OpenMain, Open, Take
<1>6. ASSUME NEW t \in Tasks, StoreMain(t) PROVE OwedInv'
  BY <1>6 DEF StoreMain
<1>7. ASSUME NEW t \in Tasks, LockEditor(t) PROVE OwedInv'
  BY <1>7 DEF LockEditor, TellLost, GotEditor, EditorUp, Take, Finish
<1>8. ASSUME NEW t \in Tasks, OpenEditor(t) PROVE OwedInv'
  BY <1>8 DEF OpenEditor, Open, Take
<1>9. ASSUME NEW t \in Tasks, StoreEditor(t) PROVE OwedInv'
  BY <1>9 DEF StoreEditor
<1>10. ASSUME NEW t \in Tasks, OpenFails(t) PROVE OwedInv'
  BY <1>10 DEF OpenFails, Finish
<1>11. ASSUME NEW t \in Tasks, NotFound(t) PROVE OwedInv'
  BY <1>11 DEF NotFound, Finish
<1>12. ASSUME NEW t \in Tasks, Start(t) PROVE OwedInv'
  BY <1>12 DEF Start, Open, Take
<1>13. ASSUME NEW t \in Tasks, StartFails(t) PROVE OwedInv'
  BY <1>13 DEF StartFails, Finish
<1>14. ASSUME NEW t \in Tasks, Statement(t) PROVE OwedInv'
  BY <1>14 DEF Statement, Finish
<1>15. ASSUME NEW t \in Tasks, StatementFails(t) PROVE OwedInv'
  BY <1>15 DEF StatementFails, Finish
<1>16. ASSUME NEW t \in Tasks, SetSavepoint(t) PROVE OwedInv'
  BY <1>16 DEF SetSavepoint, Finish
<1>17. ASSUME NEW t \in Tasks, Plan(t) PROVE OwedInv'
  BY <1>17 DEF Plan
<1>18. ASSUME NEW t \in Tasks, Undo(t) PROVE OwedInv'
  BY <1>18 DEF Undo, Finish
<1>19. ASSUME NEW t \in Tasks, Begin(t) PROVE OwedInv'
  BY <1>19 DEF Begin, Finish, Open, Take
<1>20. ASSUME NEW t \in Tasks, BeginFails(t) PROVE OwedInv'
  BY <1>20 DEF BeginFails, Finish
<1>21. ASSUME NEW t \in Tasks, StoreTransaction(t) PROVE OwedInv'
  BY <1>21 DEF StoreTransaction, Finish
<1>22. ASSUME NEW t \in Tasks, TakeTransaction(t) PROVE OwedInv'
  BY <1>22 DEF TakeTransaction, Finish, Take
<1>23. ASSUME NEW t \in Tasks, Probe(t) PROVE OwedInv'
  BY <1>23 DEF Probe, Finish
<1>24. ASSUME NEW t \in Tasks, Commit(t) PROVE OwedInv'
  BY <1>24 DEF Commit, Finish
<1>25. ASSUME NEW t \in Tasks, CommitFails(t) PROVE OwedInv'
  BY <1>25 DEF CommitFails, Finish
<1>26. ASSUME NEW t \in Tasks, Rollback(t) PROVE OwedInv'
  BY <1>26 DEF Rollback, Finish
<1>27. ASSUME NEW c \in Conns, Lose(c) PROVE OwedInv'
  BY <1>27 DEF Lose, Ends
<1>28. ASSUME NEW c \in Conns, Drop(c) PROVE OwedInv'
  BY <1>28 DEF Drop, Ends
<1>29. CASE Close
  BY <1>29 DEF Close
<1>30. CASE UNCHANGED vars
  BY <1>30 DEF vars
<1> QED
    BY <1>1, <1>2, <1>3, <1>4, <1>5, <1>6, <1>7, <1>8, <1>9, <1>10, <1>11,
     <1>12, <1>13, <1>14, <1>15, <1>16, <1>17, <1>18, <1>19, <1>20, <1>21,
     <1>22, <1>23, <1>24, <1>25, <1>26, <1>27, <1>28, <1>29, <1>30
  DEF Next, Progress

\* The step that brings a command where it is.
LEMMA Arrives ==
    ASSUME TypeOK, JoinInv, NEW t \in Tasks, Ask(t) \/ Progress(t)
    PROVE  /\ pc'[t] = "commit" => Probe(t)
           /\ pc'[t] = "plan" => Start(t) \/ SetSavepoint(t)
           /\ pc'[t] = "undo" => Plan(t)
           /\ pc'[t] = "mark" => Start(t)
           /\ pc'[t] = "run" /\ joined'[t] => Start(t) \/ Statement(t)
           /\ pc'[t] = "start" /\ joined'[t] => GotEditor(t) /\ (LookForEditor(t) \/ LockEditor(t))
           /\ pc'[t] = "beginStore" => Begin(t)
           /\ pc[t] = "undo" => Undo(t)
<1> USE DEF TypeOK, CommandType, JoinInv, Goto, locals, session, Getting
<1>1. CASE Ask(t)
  BY <1>1 DEF Ask
<1>2. CASE LookForEditor(t)
  <2>1. CASE GotEditor(t)
    <3>1. pc'[t] = "start" /\ pc[t] # "undo"
      BY <1>2, <2>1 DEF LookForEditor, GotEditor
    <3> QED
      BY <1>2, <2>1, <3>1
  <2>2. CASE ~GotEditor(t)
    BY <1>2, <2>2 DEF LookForEditor, TellLost, Finish
  <2> QED
    BY <2>1, <2>2
<1>3. CASE LookForMain(t)
  BY <1>3 DEF LookForMain, WithMain
<1>4. CASE LockMain(t)
  BY <1>4 DEF LockMain, WithMain
<1>5. CASE OpenMain(t)
  BY <1>5 DEF OpenMain
<1>6. CASE StoreMain(t)
  BY <1>6 DEF StoreMain
<1>7. CASE LockEditor(t)
  <2>1. CASE GotEditor(t)
    <3>1. pc'[t] = "start" /\ pc[t] # "undo"
      BY <1>7, <2>1 DEF LockEditor, GotEditor
    <3> QED
      BY <1>7, <2>1, <3>1
  <2>2. CASE ~GotEditor(t)
    BY <1>7, <2>2 DEF LockEditor, TellLost, Finish
  <2> QED
    BY <2>1, <2>2
<1>8. CASE OpenEditor(t)
  BY <1>8 DEF OpenEditor
<1>9. CASE StoreEditor(t)
  BY <1>9 DEF StoreEditor
<1>10. CASE OpenFails(t)
  BY <1>10 DEF OpenFails, Finish
<1>11. CASE NotFound(t)
  BY <1>11 DEF NotFound, Finish
<1>12. CASE Start(t)
  BY <1>12 DEF Start
<1>13. CASE StartFails(t)
  BY <1>13 DEF StartFails, Finish
<1>14. CASE Statement(t)
  BY <1>14 DEF Statement, Finish
<1>15. CASE StatementFails(t)
  BY <1>15 DEF StatementFails, Finish
<1>16. CASE SetSavepoint(t)
  BY <1>16 DEF SetSavepoint, Finish
<1>17. CASE Plan(t)
  BY <1>17 DEF Plan
<1>18. CASE Undo(t)
  BY <1>18 DEF Undo, Finish
<1>19. CASE Begin(t)
  BY <1>19 DEF Begin, Finish
<1>20. CASE BeginFails(t)
  BY <1>20 DEF BeginFails, Finish
<1>21. CASE StoreTransaction(t)
  BY <1>21 DEF StoreTransaction, Finish
<1>22. CASE TakeTransaction(t)
  BY <1>22 DEF TakeTransaction, Finish
<1>23. CASE Probe(t)
  BY <1>23 DEF Probe, Finish
<1>24. CASE Commit(t)
  BY <1>24 DEF Commit, Finish
<1>25. CASE CommitFails(t)
  BY <1>25 DEF CommitFails, Finish
<1>26. CASE Rollback(t)
  BY <1>26 DEF Rollback, Finish
<1> QED
    BY <1>1, <1>2, <1>3, <1>4, <1>5, <1>6, <1>7, <1>8, <1>9, <1>10, <1>11,
     <1>12, <1>13, <1>14, <1>15, <1>16, <1>17, <1>18, <1>19, <1>20, <1>21,
     <1>22, <1>23, <1>24, <1>25, <1>26 DEF Progress

---------------------------------------------------------------------------
(* What waits on a connection *)

\* Nothing comes to wait on a connection that is gone.
LEMMA DeadStep ==
    ASSUME TypeOK, DeadInv, [Next]_vars
    PROVE  DeadInv'
<1> USE DEF TypeOK, DeadInv
<1>1. CASE UNCHANGED server
  BY <1>1 DEF server, blocks
<1>2. ASSUME NEW b \in {"none", "open"}, Open(b) PROVE DeadInv'
  <2>1. /\ live' = live \cup {opened + 1} /\ UNCHANGED <<content, mark>>
        /\ \A c \in Conns \ {opened + 1} : block'[c] = block[c]
    BY <1>2, OpenType
  <2> QED
    BY <2>1
<1>3. ASSUME NEW t \in Tasks, OnConn(t), UNCHANGED live PROVE DeadInv'
  <2> DEFINE c == conn[t]
  <2>1. c \in Conns /\ pc[t] \in Running /\ Untouched(c)
    BY <1>3, OnConnType
  <2>2. SUFFICES ASSUME c \notin live
                 PROVE  block'[c] = "none" /\ content'[c] = {} /\ mark'[c] = <<>>
    BY <1>3, <2>1 DEF Untouched
  <2>3. block[c] = "none" /\ content[c] = {} /\ mark[c] = <<>>
    BY <2>1, <2>2
  <2>4. ~Statement(t) /\ ~Commit(t)
    BY <2>2 DEF Statement, Commit
  <2>5. CASE StatementFails(t)
    BY <2>1, <2>3, <2>5, FailureBlock DEF StatementFails
  <2>6. CASE SetSavepoint(t)
    BY <2>3, <2>6, SavepointBlock
  <2>7. CASE Plan(t)
    BY <2>1, <2>2, <2>3, <2>7, FailureBlock DEF Plan
  <2>8. CASE Undo(t)
    BY <2>3, <2>8, UndoBlock
  <2>9. CASE CommitFails(t) \/ Rollback(t)
    BY <2>3, <2>9, EndBlock
  <2> QED
    BY <1>3, <2>4, <2>5, <2>6, <2>7, <2>8, <2>9 DEF OnConn
<1>4. ASSUME NEW c \in Conns, Ends(c) PROVE DeadInv'
  BY <1>4, GoneBlock DEF Untouched
<1> QED
  BY <1>1, <1>2, <1>3, <1>4, Steps, ServeSteps DEF Serves, server

Stays(c) == block'[c] = block[c] /\ content'[c] = content[c] /\ mark'[c] = mark[c]

\* Only the commands that have a connection change what it has, while it is up.
LEMMA Undisturbed ==
    ASSUME TypeOK, [Next]_vars, NEW c \in 0..opened, c \in live',
           \A t \in Tasks : conn[t] = c => ~OnConn(t)
    PROVE  c \in live /\ Stays(c)
<1> USE DEF TypeOK
<1>1. opened \in Nat /\ c # opened + 1 /\ live \subseteq 1..opened /\ 1..opened \subseteq Conns
  <2>1. MaxConns \in Nat /\ opened \in 1..MaxConns
    BY SessionAssumption DEF SessionAssumption, ServerType, Conns
  <2>2. 1..opened \subseteq Conns /\ opened \in Nat
    BY <2>1 DEF Conns
  <2> QED
    BY <2>2 DEF ServerType
<1>2. CASE UNCHANGED server
  BY <1>2 DEF server, blocks, Stays
<1>3. ASSUME NEW b \in {"none", "open"}, Open(b) PROVE c \in live /\ Stays(c)
  <2>1. /\ live' = live \cup {opened + 1} /\ UNCHANGED <<content, mark>>
        /\ \A d \in Conns \ {opened + 1} : block'[d] = block[d]
    BY <1>3, OpenType
  <2> QED
    BY <1>1, <2>1 DEF Stays
<1>4. ASSUME NEW t \in Tasks, OnConn(t), UNCHANGED live PROVE c \in live /\ Stays(c)
  <2>1. c \in Conns /\ conn[t] # c
    BY <1>1, <1>4
  <2> QED
    BY <1>4, <2>1, OnConnType DEF Untouched, Stays
<1>5. ASSUME NEW d \in Conns, Ends(d) PROVE c \in live /\ Stays(c)
  <2>1. Untouched(d) /\ live' = live \ {d}
    BY <1>5, GoneBlock
  <2> QED
    BY <1>1, <2>1 DEF Untouched, Stays
<1> QED
  BY <1>2, <1>3, <1>4, <1>5, Steps, ServeSteps DEF Serves, server

\* A command that is not served stays where it is; and so does what its connection
\* has, if it is alone on it.
LEMMA Bystander ==
    ASSUME TypeOK, CrossInv, [Next]_vars, NEW u \in Tasks, ~(Ask(u) \/ Progress(u))
    PROVE  /\ Same(u)
           /\ conn[u] \in live' \ crossed' => conn[u] \in live \ crossed /\ Stays(conn[u])
<1>1. Same(u)
  BY Steps, OthersStay DEF locals, Same, TypeOK
<1>2. ASSUME conn[u] \in live' \ crossed'
      PROVE  conn[u] \in live \ crossed /\ Stays(conn[u])
  <2>1. conn[u] \notin crossed /\ conn[u] \in 0..opened
    BY <1>2, CrossStep DEF TypeOK, CommandType
  <2>2. ASSUME NEW t \in Tasks, conn[t] = conn[u] PROVE ~OnConn(t)
    <3>1. CASE t = u
      BY <3>1 DEF OnConn, Progress
    <3>2. CASE t # u
      BY <2>1, <2>2, <3>2, OnConnType DEF CrossInv, Conns
    <3> QED
      BY <3>1, <3>2
  <2> QED
    BY <1>2, <2>1, <2>2, Undisturbed
<1> QED
  BY <1>1, <1>2

\* A COMMIT alone on its connection finds no failed block.
LEMMA CommitStep ==
    ASSUME TypeOK, JoinInv, CrossInv, CommitInv, DeadInv', [Next]_vars
    PROVE  CommitInv'
<1>1. SUFFICES ASSUME NEW t \in Tasks, pc'[t] = "commit", conn'[t] \notin crossed'
               PROVE  block'[conn'[t]] # "failed"
  BY DEF CommitInv
<1>2. CASE Ask(t) \/ Progress(t)
  <2>1. Probe(t)
    BY <1>1, <1>2, Arrives
  <2>2. /\ conn[t] \in live => block[conn[t]] # "failed"
        /\ conn[t] \in live /\ UNCHANGED <<conn, live, blocks>>
    BY <1>1, <2>1 DEF TypeOK, CommandType, Probe, Goto, Finish, server
  <2> QED
    BY <2>2 DEF blocks
<1>3. CASE ~(Ask(t) \/ Progress(t))
  <2>1. Same(t) /\ (conn[t] \in live' \ crossed' => conn[t] \in live \ crossed /\ Stays(conn[t]))
    BY <1>3, Bystander
  <2>2. conn[t] \in Conns
    BY <1>1, <2>1, RunningConn DEF Same, Running
  <2>3. CASE conn[t] \in live'
    BY <1>1, <2>1, <2>3 DEF CommitInv, Same, Stays
  <2>4. CASE conn[t] \notin live'
    BY <2>1, <2>2, <2>4 DEF DeadInv, Same
  <2> QED
    BY <2>3, <2>4
<1> QED
  BY <1>2, <1>3

\* No plan waits where a command that is alone is not undoing one.
LEMMA NoPlan ==
    ASSUME TypeOK, CrossInv, UndoneInv, NEW t \in Tasks, pc[t] \in Running \ {"undo"},
           conn[t] \notin crossed
    PROVE  "plan" \notin content[conn[t]]
<1>1. conn[t] \in Conns /\ conn[t] # 0
  BY RunningConn DEF Conns
<1>2. SUFFICES ASSUME "plan" \in content[conn[t]] PROVE FALSE
  OBVIOUS
<1>3. PICK u \in Tasks : conn[u] = conn[t] /\ pc[u] = "undo"
  BY <1>1, <1>2 DEF UndoneInv, Undoing
<1> QED
  BY <1>1, <1>3 DEF CrossInv

\* A plan alone on its connection keeps its transaction and its savepoint.
LEMMA ReadyStep ==
    ASSUME TypeOK, JoinInv, CrossInv, ReadyInv, UndoneInv, [Next]_vars
    PROVE  ReadyInv'
<1>1. SUFFICES ASSUME NEW t \in Tasks, pc'[t] \in {"plan", "undo"}, conn'[t] \in live' \ crossed'
               PROVE  PlanReady(t)'
  BY DEF ReadyInv
<1>2. crossed \subseteq crossed'
  BY CrossStep
<1>3. CASE Start(t)
  <2>1. ~joined[t] /\ Open("open") /\ Take(t, opened + 1) /\ UNCHANGED joined
    BY <1>1, <1>3 DEF TypeOK, CommandType, Start, Goto
  <2>2. conn'[t] = opened + 1 /\ block'[opened + 1] = "open"
    BY <2>1, OpenType DEF TypeOK, CommandType, Take
  <2> QED
    BY <2>1, <2>2 DEF PlanReady
<1>4. CASE SetSavepoint(t)
  <2>1. /\ pc' = [pc EXCEPT ![t] = "plan"] /\ UNCHANGED <<conn, joined, block, content>>
        /\ block[conn[t]] = "open" /\ mark'[conn[t]] = <<content[conn[t]]>>
    BY <1>1, <1>4, SavepointBlock DEF TypeOK, CommandType, Finish, Goto
  <2>2. "plan" \notin content[conn[t]]
    BY <1>1, <1>2, <1>4, <2>1, NoPlan DEF SetSavepoint, Running
  <2>3. mark'[conn[t]] # <<>> /\ Head(mark'[conn[t]]) = content[conn[t]]
    BY <2>1
  <2> QED
    BY <2>1, <2>2, <2>3 DEF PlanReady
<1>5. CASE Plan(t)
  <2>1. pc[t] = "plan" /\ UNCHANGED <<conn, joined, live>>
    BY <1>5 DEF Plan
  <2>2. PlanReady(t)
    BY <1>1, <1>2, <2>1 DEF ReadyInv
  <2>3. /\ UNCHANGED mark /\ (block'[conn[t]] = "none" <=> block[conn[t]] = "none")
        /\ content'[conn[t]] \in {content[conn[t]], content[conn[t]] \cup {"plan"}}
    BY <1>5, PlanBlock
  <2> QED
    BY <2>1, <2>2, <2>3 DEF PlanReady
<1>6. CASE ~(Ask(t) \/ Progress(t))
  <2>1. Same(t) /\ conn[t] \in live \ crossed /\ Stays(conn[t])
    BY <1>1, <1>6, Bystander DEF Same
  <2> QED
    BY <1>1, <2>1 DEF ReadyInv, PlanReady, Same, Stays
<1> QED
  BY <1>1, <1>3, <1>4, <1>5, <1>6, Arrives

\* The end of a plan leaves nothing of it, and what the transaction had done.
LEMMA UndoClears ==
    ASSUME TypeOK, DeadInv, ReadyInv, NEW t \in Tasks, Undo(t), conn[t] \notin crossed
    PROVE  /\ "plan" \notin content'[conn[t]]
           /\ joined[t] /\ conn[t] \in live /\ "work" \in content[conn[t]] => "work" \in content'[conn[t]]
<1> DEFINE c == conn[t]
<1>1. c \in Conns /\ pc[t] = "undo"
  BY RunningConn DEF Undo, Running
<1>2. c \in live => PlanReady(t)
  BY <1>1 DEF ReadyInv
<1>3. c \notin live => content[c] = {} /\ mark[c] = <<>>
  BY <1>1 DEF DeadInv
<1>4. CASE ~joined[t] /\ content'[c] = {}
  BY <1>4
<1>5. CASE joined[t] /\ mark[c] # <<>> /\ content'[c] = Head(mark[c])
  BY <1>2, <1>3, <1>5 DEF PlanReady
<1>6. CASE /\ c \notin live \/ (joined[t] /\ (block[c] = "none" \/ mark[c] = <<>>))
           /\ UNCHANGED content
  BY <1>2, <1>3, <1>6 DEF PlanReady
<1> QED
  BY <1>4, <1>5, <1>6, UndoBlock

\* A plan's effects wait only where it will undo them.
LEMMA UndoneStep ==
    ASSUME TypeOK, DeadInv, JoinInv, CrossInv, ReadyInv, UndoneInv, [Next]_vars
    PROVE  UndoneInv'
<1>1. SUFFICES ASSUME NEW c \in Conns, c \notin crossed', "plan" \in content'[c]
               PROVE  Undoing(c)'
  BY DEF UndoneInv
<1>2. c \notin crossed
  BY <1>1, CrossStep
<1>3. CASE "plan" \in content[c]
  <2>1. PICK t \in Tasks : conn[t] = c /\ pc[t] = "undo"
    BY <1>2, <1>3 DEF UndoneInv, Undoing
  <2>2. CASE Ask(t) \/ Progress(t)
    BY <1>1, <1>2, <2>1, <2>2, Arrives, UndoClears
  <2>3. CASE ~(Ask(t) \/ Progress(t))
    BY <2>1, <2>3, Bystander DEF Same, Undoing
  <2> QED
    BY <2>2, <2>3
<1>4. CASE "plan" \notin content[c]
  <2>1. ~UNCHANGED content
    BY <1>1, <1>4
  <2>2. \A d \in Conns : ~Ends(d)
    BY <1>1, <1>4, GoneBlock DEF TypeOK, Untouched
  <2>3. PICK t \in Tasks : (Ask(t) \/ Progress(t)) /\ OnConn(t)
    BY <2>1, <2>2, Steps, ServeSteps DEF Serves, server, blocks, Open
  <2>4. conn[t] = c /\ pc[t] \in Running
    BY <1>1, <1>4, <2>3, OnConnType DEF Untouched
  <2>5. CASE Plan(t)
    BY <2>4, <2>5 DEF TypeOK, CommandType, Plan, Goto, Undoing
  <2>6. CASE Undo(t)
    BY <1>1, <1>2, <2>4, <2>6, UndoClears
  <2>7. CASE Statement(t)
    BY <1>1, <1>4, <2>4, <2>7, StatementBlock
  <2>8. CASE StatementFails(t)
    BY <1>1, <1>4, <2>4, <2>8, FailureBlock DEF StatementFails
  <2>9. CASE SetSavepoint(t)
    BY <1>1, <1>4, <2>4, <2>9, SavepointBlock
  <2>10. CASE Commit(t) \/ CommitFails(t) \/ Rollback(t)
    BY <1>1, <1>4, <2>4, <2>10, EndBlock
  <2> QED
    BY <2>3, <2>5, <2>6, <2>7, <2>8, <2>9, <2>10 DEF OnConn
<1> QED
  BY <1>3, <1>4

\* Where effects of a plan are saved, somebody else's statement did it.
LEMMA LeavesNothingStep ==
    ASSUME TypeOK, DeadInv, CrossInv, ReadyInv, UndoneInv, ExplainLeavesNothing, [Next]_vars
    PROVE  ExplainLeavesNothing'
<1> USE DEF ExplainLeavesNothing
<1>1. crossed \subseteq crossed'
  BY CrossStep
<1>2. ASSUME NEW t \in Tasks, OnConn(t), leaked' = leaked \cup {conn[t]}, leaked' # leaked
      PROVE  conn[t] \in crossed
  <2>1. SUFFICES ASSUME conn[t] \notin crossed PROVE FALSE
    OBVIOUS
  <2>2. CASE Statement(t)
    BY <1>2, <2>1, <2>2, StatementBlock, NoPlan DEF Statement, Running
  <2>3. CASE Commit(t) \/ CommitFails(t) \/ Rollback(t)
    BY <1>2, <2>1, <2>3, EndBlock, NoPlan DEF Commit, CommitFails, Rollback, Running
  <2>4. CASE Plan(t)
    <3>1. conn[t] \in live /\ block[conn[t]] = "none" /\ pc[t] = "plan"
      BY <1>2, <2>4, PlanBlock DEF Plan
    <3> QED
      BY <2>1, <3>1 DEF ReadyInv, PlanReady
  <2>5. CASE StatementFails(t) \/ SetSavepoint(t) \/ Undo(t)
    BY <1>2, <2>5 DEF StatementFails, SetSavepoint, Undo, history
  <2> QED
    BY <1>2, <2>2, <2>3, <2>4, <2>5 DEF OnConn
<1> QED
  BY <1>1, <1>2, LeakedStep

---------------------------------------------------------------------------
(* Runs that type no COMMIT and no ROLLBACK *)

Harmless == {"work", "begin"}
PlainRuns == \A j \in Jobs : j.todo \in Seq(Harmless)
PlainInv == \A t \in Tasks : job[t].todo \in Seq(Harmless)

\* What a command that joined the transaction does leaves its block open.
LEMMA JoinedBlock ==
    ASSUME TypeOK, JobInv, JoinInv, PlainInv, NEW t \in Tasks, joined[t], OnConn(t),
           block[conn[t]] # "none"
    PROVE  block'[conn[t]] # "none"
<1>1. pc[t] \in {"start", "run", "mark", "plan", "undo"}
  BY DEF JoinInv
<1>2. CASE Statement(t)
  <2>1. pc[t] = "run" /\ (Kind(t) # "table" => Kind(t) = "script")
    BY <1>2 DEF JobInv, Statement
  <2>2. Kind(t) # "table" => Head(job[t].todo) \in Harmless
    <3>1. Kind(t) # "table" => job[t].todo # <<>> /\ job[t].todo \in Seq(Harmless)
      BY <2>1 DEF JobInv, PlainInv
    <3> QED
      BY <3>1, HeadTailProperties
  <2> QED
    BY <1>2, <2>2, StatementBlock DEF Harmless
<1>3. CASE StatementFails(t)
  BY <1>1, <1>3, FailureBlock DEF StatementFails, Running
<1>4. CASE SetSavepoint(t)
  BY <1>4, SavepointBlock
<1>5. CASE Plan(t)
  BY <1>5, PlanBlock
<1>6. CASE Undo(t)
  BY <1>6, UndoBlock
<1>7. ~(Commit(t) \/ CommitFails(t) \/ Rollback(t))
  BY <1>1 DEF Commit, CommitFails, Rollback
<1> QED
  BY <1>2, <1>3, <1>4, <1>5, <1>6, <1>7 DEF OnConn

\* The transaction's connection is in a block, before and while the session has it.
OpenInv ==
    /\ transaction \in live => block[transaction] # "none"
    /\ \A t \in Tasks : pc[t] = "beginStore" /\ conn[t] \in live => block[conn[t]] # "none"
InsideInv ==
    \A t \in Tasks :
        pc[t] \in {"start", "run", "mark"} /\ joined[t] /\ conn[t] \in live \ crossed
        => block[conn[t]] # "none"

\* A script that joined a transaction stays inside it.
LEMMA InsideStep ==
    ASSUME TypeOK, JobInv, JoinInv, CrossInv, PlainInv, OpenInv, InsideInv, [Next]_vars
    PROVE  InsideInv'
<1>1. SUFFICES ASSUME NEW t \in Tasks, pc'[t] \in {"start", "run", "mark"}, joined'[t],
                      conn'[t] \in live' \ crossed'
               PROVE  block'[conn'[t]] # "none"
  BY DEF InsideInv
<1>2. crossed \subseteq crossed'
  BY CrossStep
<1>3. CASE ~(Ask(t) \/ Progress(t))
  <2>1. Same(t) /\ conn[t] \in live \ crossed /\ Stays(conn[t])
    BY <1>1, <1>3, Bystander DEF Same
  <2> QED
    BY <1>1, <2>1 DEF InsideInv, Same, Stays
<1>4. CASE (LookForEditor(t) \/ LockEditor(t)) /\ GotEditor(t)
  <2>1. conn'[t] = transaction /\ transaction \in live /\ UNCHANGED <<live, block>>
    BY <1>1, <1>4 DEF TypeOK, CommandType, LookForEditor, LockEditor, GotEditor,
       EditorUp, Take,
                      server, blocks
  <2> QED
    BY <2>1 DEF OpenInv
<1>5. CASE Start(t)
  <2>1. pc[t] = "start" /\ UNCHANGED <<joined, conn, live, block, crossed>>
    BY <1>1, <1>5 DEF TypeOK, CommandType, Start, Goto, server, blocks
  <2> QED
    BY <1>1, <2>1 DEF InsideInv
<1>6. CASE Statement(t)
  <2>1. pc[t] = "run" /\ UNCHANGED <<joined, conn, live, crossed>>
    BY <1>1, <1>6 DEF TypeOK, CommandType, Statement, Finish, Goto
  <2>2. block[conn[t]] # "none"
    BY <1>1, <2>1 DEF InsideInv
  <2> QED
    BY <1>1, <1>6, <2>1, <2>2, JoinedBlock DEF OnConn
<1> QED
  BY <1>1, <1>3, <1>4, <1>5, <1>6, Arrives

\* A statement leaves the session and what is live alone.
LEMMA OnConnKeeps ==
    ASSUME NEW t \in Tasks, OnConn(t)
    PROVE  UNCHANGED <<session, live>>
BY DEF OnConn, Statement, StatementFails, SetSavepoint, Plan, Undo, Commit,
   CommitFails, Rollback

\* The session's transaction stays, is let go of, or is stored.
LEMMA SessionSteps ==
    ASSUME [Next]_vars
    PROVE  \/ transaction' \in {transaction, 0}
           \/ \E t \in Tasks : StoreTransaction(t) /\ transaction \notin live
<1>1. CASE \E t \in Tasks : Ask(t) \/ Progress(t)
  BY <1>1, KeepsTransaction
<1>2. CASE ~\E t \in Tasks : Ask(t) \/ Progress(t)
  BY <1>2 DEF Next, Lose, Drop, Close, session, vars
<1> QED
  BY <1>1, <1>2

\* The session's transaction has its block open.
LEMMA OpenStep ==
    ASSUME TypeOK, ServerType', JobInv, JoinInv, TransInv, FreshInv, PlainInv, OpenInv, [Next]_vars
    PROVE  OpenInv'
<1>1. /\ opened \in Nat /\ transaction \in 0..opened /\ live \subseteq 1..opened /\ 0 \notin live'
      /\ \A t \in Tasks : conn[t] \in 0..opened
  <2>1. opened \in Nat /\ opened' \in {opened, opened + 1}
    BY ServerStep
  <2> QED
    BY <2>1 DEF TypeOK, SessionType, CommandType, ServerType
<1>2. ASSUME transaction \in live', transaction' = transaction PROVE block'[transaction'] # "none"
  <2>1. CASE \E t \in Tasks : conn[t] = transaction /\ OnConn(t)
    <3>1. PICK t \in Tasks : conn[t] = transaction /\ OnConn(t)
      BY <2>1
    <3>2. transaction \in live /\ transaction # 0
      BY <1>1, <1>2, <3>1, OnConnKeeps
    <3>3. joined[t] /\ block[conn[t]] # "none"
      BY <3>1, <3>2 DEF TransInv, OpenInv
    <3> QED
      BY <1>2, <3>1, <3>3, JoinedBlock
  <2>2. CASE ~\E t \in Tasks : conn[t] = transaction /\ OnConn(t)
    <3>1. transaction \in live /\ Stays(transaction)
      BY <1>1, <1>2, <2>2, Undisturbed
    <3> QED
      BY <1>2, <3>1 DEF OpenInv, Stays
  <2> QED
    BY <2>1, <2>2
<1>3. ASSUME NEW t \in Tasks, StoreTransaction(t), transaction \notin live, transaction' \in live'
      PROVE  block'[transaction'] # "none"
  <2>1. pc[t] = "beginStore" /\ transaction' = conn[t] /\ UNCHANGED <<live, block>>
    BY <1>3 DEF StoreTransaction, server, blocks
  <2> QED
    BY <1>3, <2>1 DEF OpenInv
<1>4. transaction' \in live' => block'[transaction'] # "none"
  BY <1>1, <1>2, <1>3, SessionSteps
<1>5. ASSUME NEW t \in Tasks, pc'[t] = "beginStore", conn'[t] \in live'
      PROVE  block'[conn'[t]] # "none"
  <2>1. CASE Begin(t)
    <3>1. Open("open") /\ Take(t, opened + 1)
      BY <1>5, <2>1 DEF TypeOK, CommandType, Begin, Finish, Goto
    <3>2. conn'[t] = opened + 1 /\ block'[opened + 1] = "open"
      BY <3>1, OpenType DEF TypeOK, CommandType, Take
    <3> QED
      BY <3>2
  <2>2. CASE ~(Ask(t) \/ Progress(t))
    <3>1. Same(t)
      BY <2>2, Steps, OthersStay DEF locals, Same, TypeOK
    <3>2. \A u \in Tasks : conn[u] = conn[t] => ~OnConn(u)
      BY <1>5, <2>2, <3>1 DEF Same, FreshInv, Own, OnConn, Progress
    <3>3. conn[t] \in live /\ Stays(conn[t])
      BY <1>1, <1>5, <3>1, <3>2, Undisturbed DEF Same
    <3> QED
      BY <1>5, <3>1, <3>3 DEF OpenInv, Same, Stays
  <2> QED
    BY <1>5, <2>1, <2>2, Arrives
<1> QED
  BY <1>4, <1>5 DEF OpenInv

\* No script comes to type COMMIT or ROLLBACK.
LEMMA PlainStep ==
    ASSUME PlainRuns, TypeOK, JobInv, PlainInv, [Next]_vars
    PROVE  PlainInv'
<1>1. ASSUME NEW t \in Tasks, NEW u \in Tasks, Ask(t) \/ Progress(t)
      PROVE  job'[u].todo \in Seq(Harmless)
  <2>1. CASE u # t
    BY <1>1, <2>1, OthersStay DEF Same, PlainInv, TypeOK
  <2>2. CASE u = t /\ Ask(t)
    BY <2>2 DEF TypeOK, CommandType, Ask, PlainRuns
  <2>3. CASE u = t /\ Statement(t)
    <3>1. CASE UNCHANGED job
      BY <3>1 DEF PlainInv
    <3>2. CASE job' = [job EXCEPT ![t].todo = Tail(job[t].todo)] /\ Kind(t) # "table"
      <4>1. Kind(t) = "script" /\ job[t].todo # <<>>
        BY <2>3, <3>2 DEF JobInv, Statement
      <4>2. Tail(job[t].todo) \in Seq(Harmless)
        BY <4>1, HeadTailProperties DEF PlainInv
      <4>3. job'[t].todo = Tail(job[t].todo)
        BY <3>2 DEF TypeOK, CommandType, Job
      <4> QED
        BY <2>3, <4>2, <4>3
    <3> QED
      BY <2>3, <3>1, <3>2 DEF Statement
  <2>4. CASE u = t /\ ~Ask(t) /\ ~Statement(t)
    <3>1. UNCHANGED job
      BY <1>1, <2>4, JobKeeps
    <3> QED
      BY <3>1 DEF PlainInv
  <2> QED
    BY <2>1, <2>2, <2>3, <2>4
<1>2. CASE UNCHANGED job
  BY <1>2 DEF PlainInv
<1> QED
  BY <1>1, <1>2, Steps DEF PlainInv, locals

---------------------------------------------------------------------------
(* The invariant *)

IInv ==
    /\ TypeOK /\ JobInv /\ JoinInv /\ FreshInv /\ TransInv
    /\ CrossInv /\ DeadInv /\ MainInv /\ OwedInv
    /\ CommitInv /\ ReadyInv /\ UndoneInv /\ ExplainLeavesNothing

\* The invariant holds at the start, and no step breaks it.
LEMMA InitInv == Init => IInv
<1> SUFFICES ASSUME Init PROVE IInv
  OBVIOUS
<1> USE DEF Init
<1>1. MaxConns \in Nat \ {0} /\ MaxRuns \in Nat /\ MaxFaults \in Nat /\ Nobody \notin Tasks
  BY SessionAssumption DEF SessionAssumption
<1>2. SessionType /\ BoundType /\ HistoryType
  <2>1. SessionType
    BY DEF SessionType
  <2>2. BoundType
    BY <1>1 DEF BoundType
  <2>3. HistoryType
    BY DEF HistoryType
  <2> QED
    BY <2>1, <2>2, <2>3
<1>3. CommandType
  <2>1. [kind |-> "table", todo |-> <<>>] \in Job
    BY DEF Job, Kinds
  <2> QED
    BY <2>1 DEF CommandType
<1>4. ServerType
  BY <1>1 DEF ServerType, Conns
<1>5. \A t \in Tasks : pc[t] = "idle" /\ conn[t] = 0 /\ joined[t] = FALSE
  OBVIOUS
<1>6. ConnInv /\ LockInv
  BY <1>1, <1>5 DEF ConnInv, LockInv, Running, Relinking
<1>7. JobInv /\ JoinInv /\ FreshInv /\ TransInv /\ MainInv /\ CommitInv /\ ReadyInv
  BY <1>5 DEF JobInv, JoinInv, FreshInv, Own, TransInv, MainInv, CommitInv, ReadyInv
<1>8. CrossInv
  BY <1>5 DEF CrossInv
<1>9. DeadInv /\ OwedInv /\ UndoneInv /\ ExplainLeavesNothing
  BY DEF DeadInv, OwedInv, UndoneInv, ExplainLeavesNothing
<1> QED
  BY <1>2, <1>3, <1>4, <1>6, <1>7, <1>8, <1>9 DEF IInv, TypeOK, ConnInv, LockInv

\* Every variable keeps its type.
LEMMA TypeStep ==
    ASSUME TypeOK, JobInv, JoinInv, FreshInv, [Next]_vars
    PROVE  TypeOK'
<1>1. ConnInv /\ LockInv
  BY DEF TypeOK, ConnInv, LockInv
<1>2. SessionType' /\ ServerType'
  BY SessionTypeStep, ServerStep
<1>3. CommandType'
  BY PlaceStep, JobTypeStep, HoldStep DEF PlaceType, JobType, HoldType, CommandType
<1>4. BoundType' /\ owed' \in BOOLEAN
  BY CountStep DEF CountType
<1>5. HistoryType'
  BY <1>4, HistoryTypeStep
<1>6. ConnInv' /\ LockInv'
  BY <1>1, ConnStep, LockStep
<1> QED
  BY <1>2, <1>3, <1>4, <1>5, <1>6 DEF TypeOK, ConnInv, LockInv

LEMMA InvStep == IInv /\ [Next]_vars => IInv'
<1> SUFFICES ASSUME IInv, [Next]_vars PROVE IInv'
  OBVIOUS
<1> USE DEF IInv
<1>1. TypeOK'
  BY TypeStep
<1>2. JobInv' /\ JoinInv' /\ FreshInv' /\ TransInv'
  BY JobStep, JoinStep, FreshStep, TransStep
<1>3. CrossInv' /\ DeadInv' /\ MainInv' /\ OwedInv'
  BY CrossStep, DeadStep, MainStep, OwedStep
<1>4. CommitInv'
  BY <1>3, CommitStep
<1>5. ReadyInv' /\ UndoneInv' /\ ExplainLeavesNothing'
  BY ReadyStep, UndoneStep, LeavesNothingStep
<1> QED
  BY <1>1, <1>2, <1>3, <1>4, <1>5

\* What each connection holds and whose it is: the inductive invariant.
THEOREM Invariance == Spec => []IInv
<1> QED
  BY InitInv, InvStep, PTL DEF Spec

\* PgSession.TypeOK: every variable keeps its type, a command that runs has a
\* connection, and the reconnect lock is free unless its holder reconnects.
THEOREM TypeCorrect == Spec => []TypeOK
<1>1. IInv => TypeOK
  BY DEF IInv
<1> QED
  BY <1>1, Invariance, PTL

---------------------------------------------------------------------------
(* What the session promises *)

\* PgSession.NoTransactionIsReplaced: a transaction that is up leaves the session
\* only through the buttons that end it, or with the session (begin, open_editor,
\* take_transaction).
THEOREM TransactionIsKept == Spec => NoTransactionIsReplaced
<1>1. ASSUME [Next]_vars, transaction' # transaction, transaction \in live
      PROVE  ~open' \/ \E t \in Tasks : TakeTransaction(t)
  <2>1. CASE \E t \in Tasks : Ask(t) \/ Progress(t)
    BY <1>1, <2>1, KeepsTransaction
  <2>2. CASE Close
    BY <2>2 DEF Close
  <2>3. CASE UNCHANGED session
    BY <1>1, <2>3 DEF session
  <2> QED
    BY <1>1, <2>1, <2>2, <2>3 DEF Next, Lose, Drop, vars
<1>2. [Next]_vars => [transaction' # transaction /\ transaction \in live
                        => ~open' \/ \E t \in Tasks : TakeTransaction(t)]_vars
  BY <1>1
<1> QED
  BY <1>2, PTL DEF Spec, NoTransactionIsReplaced

\* PgSession.ReconnectsOnce: a main connection that is up is never replaced, however
\* many commands found it lost together (client).
THEOREM MainIsReconnectedOnce == Spec => ReconnectsOnce
<1>1. ASSUME MainInv, [Next]_vars, main' # main, main \in live
      PROVE  ~open'
  <2>1. CASE \E t \in Tasks : Ask(t) \/ Progress(t)
    <3>1. PICK t \in Tasks : StoreMain(t)
      BY <1>1, <2>1, KeepsMain
    <3> QED
      BY <1>1, <3>1 DEF MainInv, StoreMain
  <2>2. CASE Close
    BY <2>2 DEF Close
  <2>3. CASE UNCHANGED session
    BY <1>1, <2>3 DEF session
  <2> QED
    BY <1>1, <2>1, <2>2, <2>3 DEF Next, Lose, Drop, vars
<1>2. IInv /\ [Next]_vars => [main' # main /\ main \in live => ~open']_vars
  BY <1>1 DEF IInv
<1> QED
  BY <1>2, Invariance, PTL DEF Spec, ReconnectsOnce

\* PgSession.LossIsToldFirst: a run asked after the transaction's connection was lost
\* gets no other connection before somebody was told, also when it waited for the
\* reconnect lock meanwhile (editor_client, open_editor).
THEOREM LossIsTold == Spec => LossIsToldFirst
<1> DEFINE A(t) ==
       /\ owed
       /\ pc[t] \in {"look", "editorLock"} /\ pc'[t] \in {"main", "editorOpen", "start"}
       => joined'[t]
<1>1. ASSUME TypeOK, OwedInv, [Next]_vars, NEW t \in Tasks,
             owed, pc[t] \in {"look", "editorLock"}, pc'[t] \in {"main", "editorOpen", "start"}
      PROVE  FALSE
  <2>1. transaction # 0 /\ transaction \notin live /\ ~EditorUp
    BY <1>1 DEF OwedInv, EditorUp
  <2>2. pc'[t] # pc[t]
    BY <1>1
  <2>3. Ask(t) \/ Progress(t)
    BY <1>1, <2>2, Steps, OthersStay DEF locals, Same, TypeOK
  <2>4. LookForEditor(t) \/ LockEditor(t) \/ NotFound(t)
    BY <1>1, <2>3, Looks
  <2>5. TellLost(t) \/ Finish(t)
    BY <2>1, <2>4 DEF LookForEditor, LockEditor, GotEditor, NotFound
  <2>6. pc'[t] = "idle"
    <3>1. pc' = [pc EXCEPT ![t] = "idle"]
      BY <2>5 DEF TellLost, Finish, Goto
    <3> QED
      BY <1>1, <3>1 DEF TypeOK, CommandType
  <2> QED
    BY <1>1, <2>6
<1>2. IInv /\ [Next]_vars => [\A t \in Tasks : A(t)]_vars
  BY <1>1 DEF IInv
<1> QED
  BY <1>2, Invariance, PTL DEF Spec, LossIsToldFirst

\* PgSession.CommitIsTrue: a commit that answers without an error saved what was run in
\* the transaction, unless another command had its connection (finish_commit).
THEOREM CommitsAreTrue == Spec => CommitIsTrue
<1>1. ASSUME CommitInv, NEW t \in Tasks, Commit(t), conn[t] \notin crossed
      PROVE  block[conn[t]] # "failed"
  BY <1>1 DEF CommitInv, Commit
<1>2. IInv /\ [Next]_vars
      => [\A t \in Tasks : Commit(t) /\ conn[t] \notin crossed => block[conn[t]] # "failed"]_vars
  BY <1>1 DEF IInv
<1> QED
  BY <1>2, Invariance, PTL DEF Spec, CommitIsTrue

\* PgSession.ExplainLeavesNothing: what EXPLAIN ANALYZE ran is saved only from a
\* connection that another command had as well (explain).
THEOREM PlansAreNeverSaved == Spec => []ExplainLeavesNothing
<1>1. IInv => ExplainLeavesNothing
  BY DEF IInv
<1> QED
  BY <1>1, Invariance, PTL

\* PgSession.ExplainKeepsWork: its end leaves what the transaction had done (explain).
THEOREM PlansKeepWork == Spec => ExplainKeepsWork
<1> DEFINE A(t) ==
       /\ pc[t] = "undo" /\ pc'[t] = "idle" /\ joined[t] /\ conn[t] \in live \ crossed
       /\ "work" \in content[conn[t]]
       => "work" \in content'[conn[t]]
<1>1. ASSUME IInv, [Next]_vars, NEW t \in Tasks,
             pc[t] = "undo", pc'[t] = "idle", joined[t], conn[t] \in live \ crossed,
             "work" \in content[conn[t]]
      PROVE  "work" \in content'[conn[t]]
  <2> USE DEF IInv
  <2>1. Ask(t) \/ Progress(t)
    BY <1>1, Steps, OthersStay DEF locals, Same, TypeOK
  <2>2. Undo(t)
    BY <1>1, <2>1, Arrives
  <2> QED
    BY <1>1, <2>2, UndoClears
<1>2. IInv /\ [Next]_vars => [\A t \in Tasks : A(t)]_vars
  BY <1>1
<1> QED
  BY <1>2, Invariance, PTL DEF Spec, ExplainKeepsWork

\* PgSession.RunsStayInTransaction: a script that joined the transaction runs inside it
\* to its last statement, unless another command had its connection (execute,
\* take_transaction).  A script that types COMMIT or ROLLBACK ends the block itself,
\* so none of them does.
THEOREM RunsStayInside ==
    ASSUME PlainRuns
    PROVE  Spec => []RunsStayInTransaction
<1> DEFINE J == IInv /\ PlainInv /\ OpenInv /\ InsideInv
<1>1. Init => J
  <2> SUFFICES ASSUME Init PROVE J
    OBVIOUS
  <2>1. IInv
    BY InitInv
  <2>2. PlainInv
    <3>1. \A t \in Tasks : job[t].todo = <<>>
      BY DEF Init
    <3> QED
      BY <3>1, EmptySeq DEF PlainInv
  <2>3. OpenInv /\ InsideInv
    BY DEF Init, OpenInv, InsideInv
  <2> QED
    BY <2>1, <2>2, <2>3
<1>2. J /\ [Next]_vars => J'
  <2> SUFFICES ASSUME J, [Next]_vars PROVE J'
    OBVIOUS
  <2>1. IInv'
    BY InvStep
  <2>2. PlainInv'
    BY PlainStep DEF IInv
  <2>3. OpenInv'
    BY <2>1, OpenStep DEF IInv, TypeOK
  <2>4. InsideInv'
    BY InsideStep DEF IInv
  <2> QED
    BY <2>1, <2>2, <2>3, <2>4
<1>3. J => RunsStayInTransaction
  BY DEF InsideInv, RunsStayInTransaction
<1> QED
  BY <1>1, <1>2, <1>3, PTL DEF Spec

=============================================================================
