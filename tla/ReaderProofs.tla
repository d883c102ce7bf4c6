---------------------------- MODULE ReaderProofs ----------------------------
(***************************************************************************)
(* Proofs about the reads of the assistant: MysqlReader, for any number of *)
(* reads, of other commands and of connections (a KILL QUERY never stops   *)
(* another command's statement), and SqliteReader, for any number of reads *)
(* (a connection that close() let go answers nothing).  The two share      *)
(* nothing.                                                                *)
(***************************************************************************)
EXTENDS MysqlReader, SqliteReader, TLAPS

---------------------------------------------------------------------------
(* MysqlReader *)

\* Who has a connection, by the step it is at.
HeldInv ==
    /\ \A p \in Procs : held[p] = 0 <=> pc[p] \in {"idle", "conn", "done"}
    /\ \A r \in Reads : pc[r] \notin {"idle", "conn", "done"} => id[r] = held[r]
    /\ \A r \in Reads : killer[r] # 0 <=> pc[r] = "aimed"

\* Nobody has what another has or what waits in the pool.
ApartInv ==
    /\ \A c \in idle : c <= opened
    /\ \A p \in Procs : held[p] <= opened /\ held[p] \notin idle
    /\ \A r \in Reads : killer[r] <= opened /\ killer[r] \notin idle
    /\ \A p, q \in Procs : held[p] = held[q] /\ held[p] # 0 => p = q
    /\ \A r, s \in Reads : killer[r] = killer[s] /\ killer[r] # 0 => r = s
    /\ \A p \in Procs, r \in Reads : held[p] = killer[r] => held[p] = 0

\* What runs on a connection is its holder's, and a read that finished runs nothing.
RunInv ==
    \A c \in Conns : running[c] # None =>
      /\ held[running[c]] = c
      /\ running[c] \in Reads => pc[running[c]] # "finish"

IInv == TypeOK /\ HeldInv /\ ApartInv /\ RunInv

---------------------------------------------------------------------------
\* A connection that nobody has.
Free(c) ==
    /\ c \in Nat \ {0} /\ c <= MaxConns /\ opened' \in 0..MaxConns /\ idle' \subseteq idle
    /\ c \notin idle' /\ c <= opened' /\ opened <= opened'
    /\ \A p \in Procs : held[p] # c
    /\ \A r \in Reads : killer[r] # c

LEMMA GetsFree ==
    ASSUME IInv, NEW c \in Conns, Gets(c)
    PROVE  Free(c)
<1> USE ReaderAssumption DEF Conns, Free
<1>1. c \in Nat \ {0} /\ opened \in Nat /\ MaxConns \in Nat /\ opened <= MaxConns
  BY DEF IInv, TypeOK
<1>2. CASE idle # {}
  BY <1>1, <1>2 DEF Gets, IInv, TypeOK, ApartInv
<1>3. CASE idle = {}
  <2>1. c = opened + 1 /\ opened' = c /\ idle' = {}
    BY <1>3 DEF Gets
  <2>2. /\ \A p \in Procs : held[p] \in Nat /\ held[p] <= opened
        /\ \A r \in Reads : killer[r] \in Nat /\ killer[r] <= opened
    BY DEF IInv, TypeOK, ApartInv
  <2> QED
    BY <1>1, <2>1, <2>2
<1> QED
  BY <1>2, <1>3

\* A command asks.
LEMMA AskStep ==
    ASSUME IInv, NEW p \in Procs, Ask(p)
    PROVE  IInv'
<1> USE ReaderAssumption DEF IInv, TypeOK, HeldInv, ApartInv, RunInv, Ask, Goto, Procs, Conns, pool
<1>1. TypeOK'
  BY DEF ReadSteps, UserSteps
<1>2. HeldInv'
  OBVIOUS
<1>3. ApartInv'
  OBVIOUS
<1>4. RunInv'
  OBVIOUS
<1> QED
  BY <1>1, <1>2, <1>3, <1>4

\* It gets none.
LEMMA NoConnStep ==
    ASSUME IInv, NEW p \in Procs, NoConn(p)
    PROVE  IInv'
<1> USE ReaderAssumption DEF IInv, TypeOK, HeldInv, ApartInv, RunInv, NoConn, Goto, Procs, Conns, pool
<1>1. TypeOK'
  BY DEF ReadSteps, UserSteps
<1>2. HeldInv'
  OBVIOUS
<1>3. ApartInv'
  OBVIOUS
<1>4. RunInv'
  OBVIOUS
<1> QED
  BY <1>1, <1>2, <1>3, <1>4

\* A read takes a connection that nobody has.
LEMMA GotConnStep ==
    ASSUME IInv, NEW r \in Reads, GotConn(r)
    PROVE  IInv'
<1>a. PICK c \in Conns : Gets(c) /\ held' = [held EXCEPT ![r] = c] /\ id' = [id EXCEPT ![r] = c]
  BY DEF GotConn
<1>b. Free(c)
  BY <1>a, GetsFree
<1> USE ReaderAssumption DEF IInv, TypeOK, HeldInv, ApartInv, RunInv, GotConn, Goto, Procs, Conns, pool
<1>1. TypeOK'
  <2>1. idle' \subseteq Conns /\ opened' \in 0..MaxConns /\ c \in 0..MaxConns
    BY <1>b DEF Free
  <2> QED
    BY <1>a, <2>1 DEF ReadSteps, UserSteps
<1>2. HeldInv'
  BY <1>a, <1>b DEF Free
<1>3. ApartInv'
  BY <1>a, <1>b DEF Free
<1>4. RunInv'
  BY <1>a, <1>b DEF Free
<1> QED
  BY <1>1, <1>2, <1>3, <1>4

\* Its statement runs on its own connection.
LEMMA PreparedStep ==
    ASSUME IInv, NEW r \in Reads, Prepared(r)
    PROVE  IInv'
<1> USE ReaderAssumption DEF IInv, TypeOK, HeldInv, ApartInv, RunInv, Prepared, Goto, Procs, Conns, pool
<1>1. TypeOK'
  BY DEF ReadSteps, UserSteps
<1>2. HeldInv'
  OBVIOUS
<1>3. ApartInv'
  OBVIOUS
<1>4. RunInv'
  OBVIOUS
<1> QED
  BY <1>1, <1>2, <1>3, <1>4

\* The server is done with it.
LEMMA AnsweredStep ==
    ASSUME IInv, NEW r \in Reads, Answered(r)
    PROVE  IInv'
<1> USE ReaderAssumption DEF IInv, TypeOK, HeldInv, ApartInv, RunInv, Answered, Goto, Procs, Conns, pool
<1>1. TypeOK'
  BY DEF ReadSteps, UserSteps
<1>2. HeldInv'
  OBVIOUS
<1>3. ApartInv'
  OBVIOUS
<1>4. RunInv'
  OBVIOUS
<1> QED
  BY <1>1, <1>2, <1>3, <1>4

\* The connection goes back with nothing running on it.
LEMMA WholeStep ==
    ASSUME IInv, NEW r \in Reads, Whole(r)
    PROVE  IInv'
<1> USE ReaderAssumption DEF IInv, TypeOK, HeldInv, ApartInv, RunInv, Whole, Goto, Procs, Conns, pool, GiveBack
<1>1. TypeOK'
  <2>1. held[r] # 0 /\ held[r] \in 0..MaxConns
    OBVIOUS
  <2>2. held[r] \in Conns
    <3>1. MaxConns \in Nat
      OBVIOUS
    <3> QED
      BY <2>1, <3>1
  <2>3. idle' \subseteq Conns
    <3>1. idle' \subseteq idle \cup {held[r]}
      OBVIOUS
    <3> QED
      BY <2>2, <3>1
  <2> QED
    BY <2>3 DEF ReadSteps, UserSteps
<1>2. HeldInv'
  OBVIOUS
<1>3. ApartInv'
  OBVIOUS
<1>4. RunInv'
  OBVIOUS
<1> QED
  BY <1>1, <1>2, <1>3, <1>4

\* The connection stays the read's.
LEMMA CutStep ==
    ASSUME IInv, NEW r \in Reads, Cut(r)
    PROVE  IInv'
<1> USE ReaderAssumption DEF IInv, TypeOK, HeldInv, ApartInv, RunInv, Cut, Goto, Procs, Conns, pool
<1>1. TypeOK'
  BY DEF ReadSteps, UserSteps
<1>2. HeldInv'
  OBVIOUS
<1>3. ApartInv'
  OBVIOUS
<1>4. RunInv'
  OBVIOUS
<1> QED
  BY <1>1, <1>2, <1>3, <1>4

\* So it does after a failure.
LEMMA FailedStep ==
    ASSUME IInv, NEW r \in Reads, Failed(r)
    PROVE  IInv'
<1> USE ReaderAssumption DEF IInv, TypeOK, HeldInv, ApartInv, RunInv, Failed, Goto, Procs, Conns, pool
<1>1. TypeOK'
  <2>1. running' \in [Conns -> Procs \cup {None}]
    OBVIOUS
  <2>2. pc' = [pc EXCEPT ![r] = "drop"] /\ r \notin Users
    OBVIOUS
  <2>3. pc' \in [Procs -> ReadSteps] /\ \A u \in Users : pc'[u] \in UserSteps
    BY <2>2 DEF ReadSteps
  <2> QED
    BY <2>1, <2>3
<1>2. HeldInv'
  OBVIOUS
<1>3. ApartInv'
  OBVIOUS
<1>4. RunInv'
  OBVIOUS
<1> QED
  BY <1>1, <1>2, <1>3, <1>4

\* And past the limit.
LEMMA TimedOutStep ==
    ASSUME IInv, NEW r \in Reads, TimedOut(r)
    PROVE  IInv'
<1> USE ReaderAssumption DEF IInv, TypeOK, HeldInv, ApartInv, RunInv, TimedOut, Goto, Procs, Conns, pool
<1>1. TypeOK'
  BY DEF ReadSteps, UserSteps
<1>2. HeldInv'
  OBVIOUS
<1>3. ApartInv'
  OBVIOUS
<1>4. RunInv'
  OBVIOUS
<1> QED
  BY <1>1, <1>2, <1>3, <1>4

\* The connection to kill from is nobody else's either.
LEMMA KillConnStep ==
    ASSUME IInv, NEW r \in Reads, KillConn(r)
    PROVE  IInv'
<1>a. PICK c \in Conns : Gets(c) /\ killer' = [killer EXCEPT ![r] = c]
  BY DEF KillConn
<1>b. Free(c)
  BY <1>a, GetsFree
<1> USE ReaderAssumption DEF IInv, TypeOK, HeldInv, ApartInv, RunInv, KillConn, Goto, Procs, Conns, pool
<1>1. TypeOK'
  <2>1. idle' \subseteq Conns /\ opened' \in 0..MaxConns /\ c \in 0..MaxConns
    BY <1>b DEF Free
  <2> QED
    BY <1>a, <2>1 DEF ReadSteps, UserSteps
<1>2. HeldInv'
  BY <1>a, <1>b DEF Free
<1>3. ApartInv'
  BY <1>a, <1>b DEF Free
<1>4. RunInv'
  BY <1>a, <1>b DEF Free
<1> QED
  BY <1>1, <1>2, <1>3, <1>4

\* There is none to kill from.
LEMMA KillSkippedStep ==
    ASSUME IInv, NEW r \in Reads, KillSkipped(r)
    PROVE  IInv'
<1> USE ReaderAssumption DEF IInv, TypeOK, HeldInv, ApartInv, RunInv, KillSkipped, Goto, Procs, Conns, pool
<1>1. TypeOK'
  BY DEF ReadSteps, UserSteps
<1>2. HeldInv'
  OBVIOUS
<1>3. ApartInv'
  OBVIOUS
<1>4. RunInv'
  OBVIOUS
<1> QED
  BY <1>1, <1>2, <1>3, <1>4

\* It goes back.
LEMMA KillQueryStep ==
    ASSUME IInv, NEW r \in Reads, KillQuery(r)
    PROVE  IInv'
<1> USE ReaderAssumption DEF IInv, TypeOK, HeldInv, ApartInv, RunInv, KillQuery, Goto, Procs, Conns, pool, GiveBack
<1>1. TypeOK'
  <2>1. killer[r] # 0 /\ killer[r] \in 0..MaxConns
    OBVIOUS
  <2>2. killer[r] \in Conns
    <3>1. MaxConns \in Nat
      OBVIOUS
    <3> QED
      BY <2>1, <3>1
  <2>3. idle' \subseteq Conns
    <3>1. idle' \subseteq idle \cup {killer[r]}
      OBVIOUS
    <3> QED
      BY <2>2, <3>1
  <2> QED
    BY <2>3 DEF ReadSteps, UserSteps
<1>2. HeldInv'
  OBVIOUS
<1>3. ApartInv'
  OBVIOUS
<1>4. RunInv'
  OBVIOUS
<1> QED
  BY <1>1, <1>2, <1>3, <1>4

\* The read's connection is gone, with what ran on it.
LEMMA DropStep ==
    ASSUME IInv, NEW r \in Reads, Drop(r)
    PROVE  IInv'
<1> USE ReaderAssumption DEF IInv, TypeOK, HeldInv, ApartInv, RunInv, Drop, Goto, Procs, Conns, pool
<1>1. TypeOK'
  BY DEF ReadSteps, UserSteps
<1>2. HeldInv'
  OBVIOUS
<1>3. ApartInv'
  OBVIOUS
<1>4. RunInv'
  OBVIOUS
<1> QED
  BY <1>1, <1>2, <1>3, <1>4

\* Another command takes one.
LEMMA UserGotConnStep ==
    ASSUME IInv, NEW u \in Users, UserGotConn(u)
    PROVE  IInv'
<1>a. PICK c \in Conns : Gets(c) /\ held' = [held EXCEPT ![u] = c] /\ running' = [running EXCEPT ![c] = u]
  BY DEF UserGotConn
<1>b. Free(c)
  BY <1>a, GetsFree
<1> USE ReaderAssumption DEF IInv, TypeOK, HeldInv, ApartInv, RunInv, UserGotConn, Goto, Procs, Conns, pool
<1>1. TypeOK'
  <2>1. idle' \subseteq Conns /\ opened' \in 0..MaxConns /\ c \in 0..MaxConns
    BY <1>b DEF Free
  <2> QED
    BY <1>a, <2>1 DEF ReadSteps, UserSteps
<1>2. HeldInv'
  BY <1>a, <1>b DEF Free
<1>3. ApartInv'
  BY <1>a, <1>b DEF Free
<1>4. RunInv'
  BY <1>a, <1>b DEF Free
<1> QED
  BY <1>1, <1>2, <1>3, <1>4

\* And gives it back.
LEMMA UserEndsStep ==
    ASSUME IInv, NEW u \in Users, UserEnds(u)
    PROVE  IInv'
<1> USE ReaderAssumption DEF IInv, TypeOK, HeldInv, ApartInv, RunInv, UserEnds, Goto, Procs, Conns, pool, GiveBack
<1>1. TypeOK'
  <2>1. held[u] # 0 /\ held[u] \in 0..MaxConns
    OBVIOUS
  <2>2. held[u] \in Conns
    <3>1. MaxConns \in Nat
      OBVIOUS
    <3> QED
      BY <2>1, <3>1
  <2>3. idle' \subseteq Conns
    <3>1. idle' \subseteq idle \cup {held[u]}
      OBVIOUS
    <3> QED
      BY <2>2, <3>1
  <2> QED
    BY <2>3 DEF ReadSteps, UserSteps
<1>2. HeldInv'
  OBVIOUS
<1>3. ApartInv'
  OBVIOUS
<1>4. RunInv'
  OBVIOUS
<1> QED
  BY <1>1, <1>2, <1>3, <1>4

\* The close takes the pool,
LEMMA CloseTakesStep ==
    ASSUME IInv, CloseTakes
    PROVE  IInv'
<1> USE ReaderAssumption DEF IInv, TypeOK, HeldInv, ApartInv, RunInv, CloseTakes, Goto, Procs, Conns, pool
<1>1. TypeOK'
  BY DEF ReadSteps, UserSteps
<1>2. HeldInv'
  OBVIOUS
<1>3. ApartInv'
  OBVIOUS
<1>4. RunInv'
  OBVIOUS
<1> QED
  BY <1>1, <1>2, <1>3, <1>4

\* takes a connection of it
LEMMA CloseGotConnStep ==
    ASSUME IInv, CloseGotConn
    PROVE  IInv'
<1>a. PICK c \in Conns : Gets(c) /\ closeConn' = c
  BY DEF CloseGotConn
<1>b. Free(c)
  BY <1>a, GetsFree
<1> USE ReaderAssumption DEF IInv, TypeOK, HeldInv, ApartInv, RunInv, CloseGotConn, Goto, Procs, Conns, pool
<1>1. TypeOK'
  <2>1. idle' \subseteq Conns /\ opened' \in 0..MaxConns /\ c \in 0..MaxConns
    BY <1>b DEF Free
  <2> QED
    BY <1>a, <2>1 DEF ReadSteps, UserSteps
<1>2. HeldInv'
  BY <1>a, <1>b DEF Free
<1>3. ApartInv'
  BY <1>a, <1>b DEF Free
<1>4. RunInv'
  BY <1>a, <1>b DEF Free
<1> QED
  BY <1>1, <1>2, <1>3, <1>4

\* and shuts it down.
LEMMA CloseEndsStep ==
    ASSUME IInv, CloseEnds
    PROVE  IInv'
<1> USE ReaderAssumption DEF IInv, TypeOK, HeldInv, ApartInv, RunInv, CloseEnds, Goto, Procs, Conns, pool
<1>1. TypeOK'
  BY DEF ReadSteps, UserSteps
<1>2. HeldInv'
  OBVIOUS
<1>3. ApartInv'
  OBVIOUS
<1>4. RunInv'
  OBVIOUS
<1> QED
  BY <1>1, <1>2, <1>3, <1>4

---------------------------------------------------------------------------
LEMMA InitIInv ==
    ASSUME Init
    PROVE  IInv
BY ReaderAssumption DEF Init, IInv, TypeOK, HeldInv, ApartInv, RunInv, Procs, Conns, ReadSteps, UserSteps

LEMMA NextIInv ==
    ASSUME IInv, [Next]_vars
    PROVE  IInv'
<1>1. ASSUME NEW p \in Procs, Ask(p) PROVE IInv'
  BY <1>1, AskStep
<1>2. ASSUME NEW r \in Reads, Read(r) PROVE IInv'
  BY <1>2, GotConnStep, NoConnStep, TimedOutStep, KillConnStep, KillSkippedStep, KillQueryStep, DropStep
  DEF Read, Procs
<1>3. ASSUME NEW r \in Reads, Answer(r) PROVE IInv'
  BY <1>3, PreparedStep, AnsweredStep, WholeStep, CutStep, FailedStep DEF Answer
<1>4. ASSUME NEW u \in Users, User(u) PROVE IInv'
  BY <1>4, UserGotConnStep, NoConnStep, UserEndsStep DEF User, Procs
<1>5. CASE UNCHANGED vars
  BY <1>5 DEF vars, pool, IInv, TypeOK, HeldInv, ApartInv, RunInv
<1> QED
  BY <1>1, <1>2, <1>3, <1>4, <1>5, CloseTakesStep, CloseGotConnStep, CloseEndsStep DEF Next

\* The invariant: who has which connection, and what runs on it.
THEOREM Invariance == Spec => []IInv
<1>1. Init => IInv
  BY InitIInv
<1>2. IInv /\ [Next]_vars => IInv'
  BY NextIInv
<1> QED
  BY <1>1, <1>2, PTL DEF Spec

\* The variables keep their types.
THEOREM TypeCorrect == Spec => []TypeOK
<1>1. IInv => TypeOK
  BY DEF IInv
<1> QED
  BY <1>1, Invariance, PTL

\* KILL QUERY stops the statement of the read that sends it, or nothing: the id is
\* one the read holds until after the kill (read_unchecked, kill_query).
THEOREM KillsOnlyItsOwn == Spec => KillsOwnStatement
<1> DEFINE Own == \A r \in Reads : pc[r] = "aimed" /\ pc'[r] = "drop" => running[id[r]] \in {r, None}
<1>1. IInv => [Own]_vars
  <2> SUFFICES ASSUME IInv, NEW r \in Reads, pc[r] = "aimed" PROVE running[id[r]] \in {r, None}
    OBVIOUS
  <2>1. id[r] = held[r] /\ held[r] # 0 /\ held[r] \in Conns
    <3>1. held[r] # 0 /\ id[r] = held[r]
      BY DEF IInv, HeldInv, Procs
    <3>2. held[r] \in 0..MaxConns /\ MaxConns \in Nat
      BY ReaderAssumption DEF IInv, TypeOK, Procs
    <3> QED
      BY <3>1, <3>2 DEF Conns
  <2>2. running[id[r]] # None => held[running[id[r]]] = held[r] /\ running[id[r]] \in Procs
    BY <2>1 DEF IInv, TypeOK, RunInv
  <2> QED
    BY <2>1, <2>2 DEF IInv, ApartInv, Procs
<1> QED
  BY <1>1, Invariance, PTL DEF KillsOwnStatement

---------------------------------------------------------------------------
(* SqliteReader *)

\* A read has no task before it has the connection; close() looks once, and what it
\* found open stays closed.
LateInv ==
    /\ \A r \in Readers : at[r] \in {"idle", "get"} => task[r] = "none"
    /\ \A r \in Readers : late[r] # "no" => closed = late[r]
    /\ closed = "found" => cell = "closed"

SqliteInv == SqliteTypeOK /\ LateInv /\ ClosedReaderAnswersNothing

LEMMA SqliteStarts ==
    ASSUME SqliteInit
    PROVE  SqliteInv
<1> USE DEF SqliteInit
<1>1. 0 \in 0..MaxOpens /\ Nobody \notin Readers
  BY SqliteAssumption DEF SqliteAssumption
<1>2. \A r \in Readers : task[r] = "none" /\ holder # r
  BY <1>1
<1>3. SqliteTypeOK
  BY <1>1, <1>2 DEF SqliteTypeOK
<1>4. LateInv /\ ClosedReaderAnswersNothing
  BY DEF LateInv, ClosedReaderAnswersNothing
<1> QED
  BY <1>3, <1>4 DEF SqliteInv

LEMMA SqliteStep ==
    ASSUME SqliteInv, [SqliteNext]_sqliteVars
    PROVE  SqliteInv'
<1> USE SqliteAssumption DEF SqliteAssumption, SqliteTypeOK, LateInv, ClosedReaderAnswersNothing,
        SqliteInv, Go, TaskGoto
<1>1. ASSUME NEW r \in Readers, AskRead(r) PROVE SqliteInv'
  BY <1>1 DEF AskRead
<1>2. ASSUME NEW r \in Readers, OpenReader(r) PROVE SqliteInv'
  BY <1>2 DEF OpenReader
<1>3. ASSUME NEW r \in Readers, Opened(r) PROVE SqliteInv'
  BY <1>3 DEF Opened
<1>4. ASSUME NEW r \in Readers, OpenFails(r) PROVE SqliteInv'
  BY <1>4 DEF OpenFails
<1>5. ASSUME NEW r \in Readers, Run(r) PROVE SqliteInv'
  <2>1. CASE cell = "open" /\ Go(r, "run") /\ TaskGoto(r, "wait")
    BY <1>5, <2>1 DEF Run
  <2>2. CASE cell = "closed" /\ Go(r, "notFound") /\ UNCHANGED task
    BY <1>5, <2>2 DEF Run
  <2> QED
    BY <1>5, <2>1, <2>2 DEF Run
<1>6. ASSUME NEW r \in Readers, Lock(r) PROVE SqliteInv'
  BY <1>6 DEF Lock
<1>7. ASSUME NEW r \in Readers, Start(r) PROVE SqliteInv'
  BY <1>7 DEF Start
<1>8. ASSUME NEW r \in Readers, Ends(r) PROVE SqliteInv'
  BY <1>8 DEF Ends
<1>9. ASSUME NEW r \in Readers, Stopped(r) PROVE SqliteInv'
  BY <1>9 DEF Stopped
<1>10. ASSUME NEW r \in Readers, AnswerRead(r) PROVE SqliteInv'
  BY <1>10 DEF AnswerRead, Done
<1>11. ASSUME NEW r \in Readers, Interrupt(r) PROVE SqliteInv'
  BY <1>11 DEF Interrupt
<1>12. CASE Close
  BY <1>12 DEF Close
<1>13. CASE UNCHANGED sqliteVars
  BY <1>13 DEF sqliteVars
<1> QED
  BY <1>1, <1>2, <1>3, <1>4, <1>5, <1>6, <1>7, <1>8, <1>9, <1>10, <1>11, <1>12, <1>13
  DEF SqliteNext, Progress

\* The variables keep their types, the mutex's holder alone is on the connection.
THEOREM SqliteTypeCorrect == SqliteSpec => []SqliteTypeOK
<1>1. SqliteInv => SqliteTypeOK
  BY DEF SqliteInv
<1> QED
  BY <1>1, SqliteStarts, SqliteStep, PTL DEF SqliteSpec

\* SqliteReader.ClosedReaderAnswersNothing: once close() found the reader open, no
\* read that is asked later is answered, whatever waits for the connection
\* (read_unchecked, Driver::close).
THEOREM ClosedReaderIsSilent == SqliteSpec => []ClosedReaderAnswersNothing
<1>1. SqliteInv => ClosedReaderAnswersNothing
  BY DEF SqliteInv
<1> QED
  BY <1>1, SqliteStarts, SqliteStep, PTL DEF SqliteSpec

=============================================================================
