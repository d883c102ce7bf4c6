------------------------- MODULE MysqlEditorProofs -------------------------
(***************************************************************************)
(* What holds of MysqlEditor for every set of commands, cancels and jobs:  *)
(* its types; that nothing runs on a live connection once close() has      *)
(* killed the connection it read the id of; that a lost transaction is told *)
(* before anything runs in its place; that a cancelled script fails; and,  *)
(* while nothing is cancelled, that the transaction mark says what the server *)
(* would and that bodies start in the picked database.                     *)
(*                                                                         *)
(* The close: a command past its second look at the slot holds the latest  *)
(* connection, whose number is already in id, and close() reads id after   *)
(* taking the slot, so nobody can get past that look between the two; a    *)
(* connection opened later belongs to a command that has yet to look again *)
(* and will find the slot taken (CloseInv).                                *)
(*                                                                         *)
(* The loss: the mark of the lost transaction stays, because a command whose *)
(* connection broke under it reads no flag that would take it away         *)
(* (OwedFails), and a connection opened later serves the command that opened *)
(* it (OwedWaits), which fails if the mark is set (OwedMarked).            *)
(***************************************************************************)
EXTENDS MysqlEditor, TLAPS

\* Taking the statement that was answered off the script keeps the types.
LEMMA AfterStatementType ==
    ASSUME CommandType, JobInv, NEW p \in Commands, pc[p] = "reply",
           NEW ok \in BOOLEAN, cancelled \in BOOLEAN,
           AfterStatement(p, ok), UNCHANGED <<seen, fresh>>
    PROVE  CommandType'
<1> USE DEF AfterStatement, CommandType, JobInv, Job, Goto, Preparing, Body, Holding
<1>1. Tail(job[p].todo) \in Seq(Statements)
  BY DEF Statements
<1>2. job' \in [Commands -> Job]
  BY <1>1
<1>3. pc' \in [Commands -> {"idle", "wait", "note"} \cup Holding]
  OBVIOUS
<1>4. failed' \in BOOLEAN
  OBVIOUS
<1> QED
  BY <1>2, <1>3, <1>4

\* Every step keeps the types.
LEMMA TypeStep ==
    ASSUME TypeOK, JobInv, [Next]_vars
    PROVE  TypeOK'
<1> USE EditorAssumption DEF editor, locals, server, closing, cancels, bounds, history, Goto,
           TypeOK, EditorType, CommandType, ServerType, ClosingType, HistoryType,
           Preparing, Body, Holding, Job, Statements, JobInv
<1>1. ASSUME NEW p \in Commands, Start(p) PROVE TypeOK'
  <2> USE <1>1 DEF Start
  <2>1. EditorType'  OBVIOUS
  <2>2. CommandType'  OBVIOUS
  <2>3. ServerType'  OBVIOUS
  <2>4. ClosingType'  OBVIOUS
  <2>5. HistoryType'  OBVIOUS
  <2> QED BY <2>1, <2>2, <2>3, <2>4, <2>5 DEF TypeOK
<1>2. ASSUME NEW p \in Commands, TakeLock(p) PROVE TypeOK'
  <2> USE <1>2 DEF TakeLock
  <2>1. EditorType'  OBVIOUS
  <2>2. CommandType'  OBVIOUS
  <2>3. ServerType'  OBVIOUS
  <2>4. ClosingType'  OBVIOUS
  <2>5. HistoryType'  OBVIOUS
  <2> QED BY <2>1, <2>2, <2>3, <2>4, <2>5 DEF TypeOK
<1>3. ASSUME NEW p \in Commands, PingAnswers(p) PROVE TypeOK'
  <2> USE <1>3 DEF PingAnswers
  <2>1. EditorType'  OBVIOUS
  <2>2. CommandType'  OBVIOUS
  <2>3. ServerType'  OBVIOUS
  <2>4. ClosingType'  OBVIOUS
  <2>5. HistoryType'  OBVIOUS
  <2> QED BY <2>1, <2>2, <2>3, <2>4, <2>5 DEF TypeOK
<1>4. ASSUME NEW p \in Commands, PingFails(p) PROVE TypeOK'
  <2> USE <1>4 DEF PingFails, EndSession, Owed
  <2>1. EditorType'  OBVIOUS
  <2>2. CommandType'  OBVIOUS
  <2>3. ServerType'  OBVIOUS
  <2>4. ClosingType'  OBVIOUS
  <2>5. HistoryType'  OBVIOUS
  <2> QED BY <2>1, <2>2, <2>3, <2>4, <2>5 DEF TypeOK
<1>5. ASSUME NEW p \in Commands, Connect(p) PROVE TypeOK'
  <2> USE <1>5 DEF Connect
  <2>1. EditorType'  OBVIOUS
  <2>2. CommandType'  OBVIOUS
  <2>3. ServerType'
    <3>1. opened' \in 1..MaxConns  BY DEF ServerType
    <3> QED BY <3>1
  <2>4. ClosingType'  OBVIOUS
  <2>5. HistoryType'  OBVIOUS
  <2> QED BY <2>1, <2>2, <2>3, <2>4, <2>5 DEF TypeOK
<1>6. ASSUME NEW p \in Commands, ConnectFails(p) PROVE TypeOK'
  <2> USE <1>6 DEF ConnectFails, Release
  <2>1. EditorType'  OBVIOUS
  <2>2. CommandType'  OBVIOUS
  <2>3. ServerType'  OBVIOUS
  <2>4. ClosingType'  OBVIOUS
  <2>5. HistoryType'  OBVIOUS
  <2> QED BY <2>1, <2>2, <2>3, <2>4, <2>5 DEF TypeOK
<1>7. ASSUME NEW p \in Commands, StoreId(p) PROVE TypeOK'
  <2> USE <1>7 DEF StoreId
  <2>1. EditorType'  OBVIOUS
  <2>2. CommandType'  OBVIOUS
  <2>3. ServerType'  OBVIOUS
  <2>4. ClosingType'  OBVIOUS
  <2>5. HistoryType'  OBVIOUS
  <2> QED BY <2>1, <2>2, <2>3, <2>4, <2>5 DEF TypeOK
<1>8. ASSUME NEW p \in Commands, CheckSlot(p) PROVE TypeOK'
  <2> USE <1>8 DEF CheckSlot, EnterBody, Release
  <2>1. EditorType'  OBVIOUS
  <2>2. CommandType'  OBVIOUS
  <2>3. ServerType'  OBVIOUS
  <2>4. ClosingType'  OBVIOUS
  <2>5. HistoryType'  OBVIOUS
  <2> QED BY <2>1, <2>2, <2>3, <2>4, <2>5 DEF TypeOK
<1>9. ASSUME NEW p \in Commands, Reopened(p) PROVE TypeOK'
  <2> USE <1>9 DEF Reopened, EnterBody, BackInDatabase
  <2>1. EditorType'  OBVIOUS
  <2>2. CommandType'  OBVIOUS
  <2>3. ServerType'  OBVIOUS
  <2>4. ClosingType'  OBVIOUS
  <2>5. HistoryType'  OBVIOUS
  <2> QED BY <2>1, <2>2, <2>3, <2>4, <2>5 DEF TypeOK
<1>10. ASSUME NEW p \in Commands, TellRolledBack(p) PROVE TypeOK'
  <2> USE <1>10 DEF TellRolledBack, BackInDatabase, Release
  <2>1. EditorType'  OBVIOUS
  <2>2. CommandType'  OBVIOUS
  <2>3. ServerType'  OBVIOUS
  <2>4. ClosingType'  OBVIOUS
  <2>5. HistoryType'  OBVIOUS
  <2> QED BY <2>1, <2>2, <2>3, <2>4, <2>5 DEF TypeOK
<1>11. ASSUME NEW p \in Commands, TellDatabaseGone(p) PROVE TypeOK'
  <2> USE <1>11 DEF TellDatabaseGone, Release
  <2>1. EditorType'  OBVIOUS
  <2>2. CommandType'  OBVIOUS
  <2>3. ServerType'  OBVIOUS
  <2>4. ClosingType'  OBVIOUS
  <2>5. HistoryType'  OBVIOUS
  <2> QED BY <2>1, <2>2, <2>3, <2>4, <2>5 DEF TypeOK
<1>12. ASSUME NEW p \in Commands, Clear(p) PROVE TypeOK'
  <2> USE <1>12 DEF Clear
  <2>1. EditorType'  OBVIOUS
  <2>2. CommandType'  OBVIOUS
  <2>3. ServerType'  OBVIOUS
  <2>4. ClosingType'  OBVIOUS
  <2>5. HistoryType'  OBVIOUS
  <2> QED BY <2>1, <2>2, <2>3, <2>4, <2>5 DEF TypeOK
<1>13. ASSUME NEW p \in Commands, CheckMark(p) PROVE TypeOK'
  <2> USE <1>13 DEF CheckMark
  <2>1. EditorType'  OBVIOUS
  <2>2. CommandType'  OBVIOUS
  <2>3. ServerType'  OBVIOUS
  <2>4. ClosingType'  OBVIOUS
  <2>5. HistoryType'  OBVIOUS
  <2> QED BY <2>1, <2>2, <2>3, <2>4, <2>5 DEF TypeOK
<1>14. ASSUME NEW p \in Commands, Send(p) PROVE TypeOK'
  <2> USE <1>14 DEF Send
  <2>1. EditorType'  OBVIOUS
  <2>2. CommandType'  OBVIOUS
  <2>3. ServerType'  OBVIOUS
  <2>4. ClosingType'  OBVIOUS
  <2>5. HistoryType'  OBVIOUS
  <2> QED BY <2>1, <2>2, <2>3, <2>4, <2>5 DEF TypeOK
<1>15. ASSUME NEW p \in Commands, ReplyOk(p) PROVE TypeOK'
  <2> USE <1>15 DEF ReplyOk, TxAfter, DbAfter, Fate
  <2>1. EditorType'  OBVIOUS
  <2>2. CommandType'  BY AfterStatementType
  <2>3. ServerType'  OBVIOUS
  <2>4. ClosingType'  OBVIOUS
  <2>5. HistoryType'  OBVIOUS
  <2> QED BY <2>1, <2>2, <2>3, <2>4, <2>5 DEF TypeOK
<1>16. ASSUME NEW p \in Commands, ReplyFails(p) PROVE TypeOK'
  <2> USE <1>16 DEF ReplyFails
  <2>1. EditorType'  OBVIOUS
  <2>2. CommandType'  BY AfterStatementType
  <2>3. ServerType'  OBVIOUS
  <2>4. ClosingType'  OBVIOUS
  <2>5. HistoryType'  OBVIOUS
  <2> QED BY <2>1, <2>2, <2>3, <2>4, <2>5 DEF TypeOK
<1>17. ASSUME NEW p \in Commands, Settle(p) PROVE TypeOK'
  <2> USE <1>17 DEF Settle, Release
  <2>1. EditorType'  OBVIOUS
  <2>2. CommandType'  OBVIOUS
  <2>3. ServerType'  OBVIOUS
  <2>4. ClosingType'  OBVIOUS
  <2>5. HistoryType'  OBVIOUS
  <2> QED BY <2>1, <2>2, <2>3, <2>4, <2>5 DEF TypeOK
<1>18. ASSUME NEW p \in Commands, SettleLost(p) PROVE TypeOK'
  <2> USE <1>18 DEF SettleLost, Release, EndSession, Owed
  <2>1. EditorType'  OBVIOUS
  <2>2. CommandType'  OBVIOUS
  <2>3. ServerType'  OBVIOUS
  <2>4. ClosingType'  OBVIOUS
  <2>5. HistoryType'  OBVIOUS
  <2> QED BY <2>1, <2>2, <2>3, <2>4, <2>5 DEF TypeOK
<1>19. ASSUME NEW p \in Commands, WhereAnswers(p) PROVE TypeOK'
  <2> USE <1>19 DEF WhereAnswers, Release
  <2>1. EditorType'  OBVIOUS
  <2>2. CommandType'  OBVIOUS
  <2>3. ServerType'  OBVIOUS
  <2>4. ClosingType'  OBVIOUS
  <2>5. HistoryType'  OBVIOUS
  <2> QED BY <2>1, <2>2, <2>3, <2>4, <2>5 DEF TypeOK
<1>20. ASSUME NEW p \in Commands, WhereFails(p) PROVE TypeOK'
  <2> USE <1>20 DEF WhereFails, Release
  <2>1. EditorType'  OBVIOUS
  <2>2. CommandType'  OBVIOUS
  <2>3. ServerType'  OBVIOUS
  <2>4. ClosingType'  OBVIOUS
  <2>5. HistoryType'  OBVIOUS
  <2> QED BY <2>1, <2>2, <2>3, <2>4, <2>5 DEF TypeOK
<1>21. ASSUME NEW p \in Commands, Note(p) PROVE TypeOK'
  <2> USE <1>21 DEF Note
  <2>1. EditorType'  OBVIOUS
  <2>2. CommandType'  OBVIOUS
  <2>3. ServerType'  OBVIOUS
  <2>4. ClosingType'  OBVIOUS
  <2>5. HistoryType'  OBVIOUS
  <2> QED BY <2>1, <2>2, <2>3, <2>4, <2>5 DEF TypeOK
<1>22. ASSUME NEW x \in Cancels, CancelMark(x) PROVE TypeOK'
  <2> USE <1>22 DEF CancelMark
  <2>1. EditorType'  OBVIOUS
  <2>2. CommandType'  OBVIOUS
  <2>3. ServerType'  OBVIOUS
  <2>4. ClosingType'  OBVIOUS
  <2>5. HistoryType'  OBVIOUS
  <2> QED BY <2>1, <2>2, <2>3, <2>4, <2>5 DEF TypeOK
<1>23. ASSUME NEW x \in Cancels, CancelReadId(x) PROVE TypeOK'
  <2> USE <1>23 DEF CancelReadId
  <2>1. EditorType'  OBVIOUS
  <2>2. CommandType'  OBVIOUS
  <2>3. ServerType'  OBVIOUS
  <2>4. ClosingType'  OBVIOUS
  <2>5. HistoryType'  OBVIOUS
  <2> QED BY <2>1, <2>2, <2>3, <2>4, <2>5 DEF TypeOK
<1>24. ASSUME NEW x \in Cancels, CancelConnect(x) PROVE TypeOK'
  <2> USE <1>24 DEF CancelConnect
  <2>1. EditorType'  OBVIOUS
  <2>2. CommandType'  OBVIOUS
  <2>3. ServerType'  OBVIOUS
  <2>4. ClosingType'  OBVIOUS
  <2>5. HistoryType'  OBVIOUS
  <2> QED BY <2>1, <2>2, <2>3, <2>4, <2>5 DEF TypeOK
<1>25. ASSUME NEW x \in Cancels, CancelKill(x) PROVE TypeOK'
  <2> USE <1>25 DEF CancelKill, Executing
  <2>1. EditorType'  OBVIOUS
  <2>2. CommandType'  OBVIOUS
  <2>3. ServerType'  OBVIOUS
  <2>4. ClosingType'  OBVIOUS
  <2>5. HistoryType'  OBVIOUS
  <2> QED BY <2>1, <2>2, <2>3, <2>4, <2>5 DEF TypeOK
<1>26. CASE CloseSlot
  <2> USE <1>26 DEF CloseSlot
  <2>1. EditorType'  OBVIOUS
  <2>2. CommandType'  OBVIOUS
  <2>3. ServerType'  OBVIOUS
  <2>4. ClosingType'  OBVIOUS
  <2>5. HistoryType'  OBVIOUS
  <2> QED BY <2>1, <2>2, <2>3, <2>4, <2>5 DEF TypeOK
<1>27. CASE CloseReadId
  <2> USE <1>27 DEF CloseReadId
  <2>1. EditorType'  OBVIOUS
  <2>2. CommandType'  OBVIOUS
  <2>3. ServerType'  OBVIOUS
  <2>4. ClosingType'  OBVIOUS
  <2>5. HistoryType'  OBVIOUS
  <2> QED BY <2>1, <2>2, <2>3, <2>4, <2>5 DEF TypeOK
<1>28. CASE CloseTakePool
  <2> USE <1>28 DEF CloseTakePool
  <2>1. EditorType'  OBVIOUS
  <2>2. CommandType'  OBVIOUS
  <2>3. ServerType'  OBVIOUS
  <2>4. ClosingType'  OBVIOUS
  <2>5. HistoryType'  OBVIOUS
  <2> QED BY <2>1, <2>2, <2>3, <2>4, <2>5 DEF TypeOK
<1>29. CASE CloseKill
  <2> USE <1>29 DEF CloseKill, EndSession, Owed
  <2>1. EditorType'  OBVIOUS
  <2>2. CommandType'  OBVIOUS
  <2>3. ServerType'  OBVIOUS
  <2>4. ClosingType'  OBVIOUS
  <2>5. HistoryType'  OBVIOUS
  <2> QED BY <2>1, <2>2, <2>3, <2>4, <2>5 DEF TypeOK
<1>30. CASE CloseGivesUp
  <2> USE <1>30 DEF CloseGivesUp
  <2>1. EditorType'  OBVIOUS
  <2>2. CommandType'  OBVIOUS
  <2>3. ServerType'  OBVIOUS
  <2>4. ClosingType'  OBVIOUS
  <2>5. HistoryType'  OBVIOUS
  <2> QED BY <2>1, <2>2, <2>3, <2>4, <2>5 DEF TypeOK
<1>31. CASE Lose
  <2> USE <1>31 DEF Lose, EndSession, Owed
  <2>1. EditorType'  OBVIOUS
  <2>2. CommandType'  OBVIOUS
  <2>3. ServerType'  OBVIOUS
  <2>4. ClosingType'  OBVIOUS
  <2>5. HistoryType'  OBVIOUS
  <2> QED BY <2>1, <2>2, <2>3, <2>4, <2>5 DEF TypeOK
<1>32. CASE LoseReply
  <2> USE <1>32 DEF LoseReply, Owed, TxAfter, Fate
  <2>1. EditorType'  OBVIOUS
  <2>2. CommandType'  OBVIOUS
  <2>3. ServerType'  OBVIOUS
  <2>4. ClosingType'  OBVIOUS
  <2>5. HistoryType'  OBVIOUS
  <2> QED BY <2>1, <2>2, <2>3, <2>4, <2>5 DEF TypeOK
<1>33. CASE Disconnect
  <2> USE <1>33 DEF Disconnect, EndSession, Owed
  <2>1. EditorType'  OBVIOUS
  <2>2. CommandType'  OBVIOUS
  <2>3. ServerType'  OBVIOUS
  <2>4. ClosingType'  OBVIOUS
  <2>5. HistoryType'  OBVIOUS
  <2> QED BY <2>1, <2>2, <2>3, <2>4, <2>5 DEF TypeOK
<1>34. CASE UNCHANGED vars
  BY <1>34 DEF vars
<1> QED
    BY <1>1, <1>2, <1>3, <1>4, <1>5, <1>6, <1>7, <1>8, <1>9, <1>10, <1>11, <1>12, <1>13,
     <1>14, <1>15, <1>16, <1>17, <1>18, <1>19, <1>20, <1>21, <1>22, <1>23, <1>24, <1>25,
     <1>26, <1>27, <1>28, <1>29, <1>30, <1>31, <1>32, <1>33, <1>34
  DEF Next, Progress, Close, Cancel, Server

\* Only the lock's holder is past the lock.
LEMMA LockStep ==
    ASSUME TypeOK, LockInv, [Next]_vars
    PROVE  LockInv'
<1> USE EditorAssumption DEF editor, locals, server, closing, cancels, bounds, history, Goto,
           TypeOK, CommandType, EditorType, LockInv, Preparing, Body, Holding
<1>1. ASSUME NEW p \in Commands, Start(p) PROVE LockInv'
  BY <1>1 DEF Start
<1>2. ASSUME NEW p \in Commands, TakeLock(p) PROVE LockInv'
  BY <1>2 DEF TakeLock
<1>3. ASSUME NEW p \in Commands, PingAnswers(p) PROVE LockInv'
  BY <1>3 DEF PingAnswers
<1>4. ASSUME NEW p \in Commands, PingFails(p) PROVE LockInv'
  BY <1>4 DEF PingFails, EndSession, Owed
<1>5. ASSUME NEW p \in Commands, Connect(p) PROVE LockInv'
  BY <1>5 DEF Connect
<1>6. ASSUME NEW p \in Commands, ConnectFails(p) PROVE LockInv'
  BY <1>6 DEF ConnectFails, Release
<1>7. ASSUME NEW p \in Commands, StoreId(p) PROVE LockInv'
  BY <1>7 DEF StoreId
<1>8. ASSUME NEW p \in Commands, CheckSlot(p) PROVE LockInv'
  BY <1>8 DEF CheckSlot, EnterBody, Release
<1>9. ASSUME NEW p \in Commands, Reopened(p) PROVE LockInv'
  BY <1>9 DEF Reopened, EnterBody, BackInDatabase
<1>10. ASSUME NEW p \in Commands, TellRolledBack(p) PROVE LockInv'
  BY <1>10 DEF TellRolledBack, BackInDatabase, Release
<1>11. ASSUME NEW p \in Commands, TellDatabaseGone(p) PROVE LockInv'
  BY <1>11 DEF TellDatabaseGone, Release
<1>12. ASSUME NEW p \in Commands, Clear(p) PROVE LockInv'
  BY <1>12 DEF Clear
<1>13. ASSUME NEW p \in Commands, CheckMark(p) PROVE LockInv'
  BY <1>13 DEF CheckMark
<1>14. ASSUME NEW p \in Commands, Send(p) PROVE LockInv'
  BY <1>14 DEF Send
<1>15. ASSUME NEW p \in Commands, ReplyOk(p) PROVE LockInv'
  BY <1>15 DEF ReplyOk, AfterStatement, TxAfter, DbAfter, Fate
<1>16. ASSUME NEW p \in Commands, ReplyFails(p) PROVE LockInv'
  BY <1>16 DEF ReplyFails, AfterStatement
<1>17. ASSUME NEW p \in Commands, Settle(p) PROVE LockInv'
  BY <1>17 DEF Settle, Release
<1>18. ASSUME NEW p \in Commands, SettleLost(p) PROVE LockInv'
  BY <1>18 DEF SettleLost, Release, EndSession, Owed
<1>19. ASSUME NEW p \in Commands, WhereAnswers(p) PROVE LockInv'
  BY <1>19 DEF WhereAnswers, Release
<1>20. ASSUME NEW p \in Commands, WhereFails(p) PROVE LockInv'
  BY <1>20 DEF WhereFails, Release
<1>21. ASSUME NEW p \in Commands, Note(p) PROVE LockInv'
  BY <1>21 DEF Note
<1>22. ASSUME NEW x \in Cancels, Cancel(x) PROVE LockInv'
  BY <1>22 DEF Cancel, CancelMark, CancelReadId, CancelConnect, CancelKill
<1>23. CASE Close
  BY <1>23 DEF Close, CloseSlot, CloseReadId, CloseTakePool, CloseKill, CloseGivesUp, EndSession
<1>24. CASE Server
  BY <1>24 DEF Server, Lose, LoseReply, Disconnect, EndSession
<1>25. CASE UNCHANGED vars
  BY <1>25 DEF vars
<1> QED
  BY <1>1, <1>2, <1>3, <1>4, <1>5, <1>6, <1>7, <1>8, <1>9, <1>10, <1>11, <1>12, <1>13,
     <1>14, <1>15, <1>16, <1>17, <1>18, <1>19, <1>20, <1>21, <1>22, <1>23, <1>24, <1>25
  DEF Next, Progress

\* A script that goes on has a statement left.
LEMMA JobStep ==
    ASSUME TypeOK, LockInv, JobInv, [Next]_vars
    PROVE  JobInv'
<1> USE EditorAssumption DEF editor, locals, server, closing, cancels, bounds, history, Goto,
           TypeOK, CommandType, EditorType, JobInv, Job, Preparing, Body, Holding
<1>1. ASSUME NEW p \in Commands, Start(p) PROVE JobInv'
  <2>1. \A j \in Jobs : j.todo # <<>>
    <3>1. \A s \in Statements : <<s>> # <<>>
      OBVIOUS
    <3> QED
      BY <3>1, Zenon DEF EditorAssumption
  <2> QED
    BY <1>1, <2>1 DEF Start
<1>2. ASSUME NEW p \in Commands, TakeLock(p) PROVE JobInv'
  BY <1>2 DEF TakeLock
<1>3. ASSUME NEW p \in Commands, PingAnswers(p) PROVE JobInv'
  BY <1>3 DEF PingAnswers
<1>4. ASSUME NEW p \in Commands, PingFails(p) PROVE JobInv'
  BY <1>4 DEF PingFails, EndSession, Owed
<1>5. ASSUME NEW p \in Commands, Connect(p) PROVE JobInv'
  BY <1>5 DEF Connect
<1>6. ASSUME NEW p \in Commands, ConnectFails(p) PROVE JobInv'
  BY <1>6 DEF ConnectFails, Release
<1>7. ASSUME NEW p \in Commands, StoreId(p) PROVE JobInv'
  BY <1>7 DEF StoreId
<1>8. ASSUME NEW p \in Commands, CheckSlot(p) PROVE JobInv'
  BY <1>8 DEF CheckSlot, EnterBody, Release
<1>9. ASSUME NEW p \in Commands, Reopened(p) PROVE JobInv'
  BY <1>9 DEF Reopened, EnterBody, BackInDatabase
<1>10. ASSUME NEW p \in Commands, TellRolledBack(p) PROVE JobInv'
  BY <1>10 DEF TellRolledBack, BackInDatabase, Release
<1>11. ASSUME NEW p \in Commands, TellDatabaseGone(p) PROVE JobInv'
  BY <1>11 DEF TellDatabaseGone, Release
<1>12. ASSUME NEW p \in Commands, Clear(p) PROVE JobInv'
  BY <1>12 DEF Clear
<1>13. ASSUME NEW p \in Commands, CheckMark(p) PROVE JobInv'
  BY <1>13 DEF CheckMark
<1>14. ASSUME NEW p \in Commands, Send(p) PROVE JobInv'
  BY <1>14 DEF Send
<1>15. ASSUME NEW p \in Commands, ReplyOk(p) PROVE JobInv'
  BY <1>15 DEF ReplyOk, AfterStatement, TxAfter, DbAfter, Fate
<1>16. ASSUME NEW p \in Commands, ReplyFails(p) PROVE JobInv'
  BY <1>16 DEF ReplyFails, AfterStatement
<1>17. ASSUME NEW p \in Commands, Settle(p) PROVE JobInv'
  BY <1>17 DEF Settle, Release
<1>18. ASSUME NEW p \in Commands, SettleLost(p) PROVE JobInv'
  BY <1>18 DEF SettleLost, Release, EndSession, Owed
<1>19. ASSUME NEW p \in Commands, WhereAnswers(p) PROVE JobInv'
  BY <1>19 DEF WhereAnswers, Release
<1>20. ASSUME NEW p \in Commands, WhereFails(p) PROVE JobInv'
  BY <1>20 DEF WhereFails, Release
<1>21. ASSUME NEW p \in Commands, Note(p) PROVE JobInv'
  BY <1>21 DEF Note
<1>22. ASSUME NEW x \in Cancels, Cancel(x) PROVE JobInv'
  BY <1>22 DEF Cancel, CancelMark, CancelReadId, CancelConnect, CancelKill
<1>23. CASE Close
  BY <1>23 DEF Close, CloseSlot, CloseReadId, CloseTakePool, CloseKill, CloseGivesUp, EndSession
<1>24. CASE Server
  BY <1>24 DEF Server, Lose, LoseReply, Disconnect, EndSession
<1>25. CASE UNCHANGED vars
  BY <1>25 DEF vars
<1> QED
  BY <1>1, <1>2, <1>3, <1>4, <1>5, <1>6, <1>7, <1>8, <1>9, <1>10, <1>11, <1>12, <1>13,
     <1>14, <1>15, <1>16, <1>17, <1>18, <1>19, <1>20, <1>21, <1>22, <1>23, <1>24, <1>25
  DEF Next, Progress

\* The close and a reconnection cannot miss each other.
LEMMA CloseStep ==
    ASSUME TypeOK, LockInv, CloseInv, [Next]_vars
    PROVE  CloseInv'
<1> USE EditorAssumption DEF editor, locals, server, closing, cancels, bounds, history, Goto,
           TypeOK, CommandType, EditorType, ServerType, ClosingType,
           LockInv, CloseInv, Preparing, Body, Holding
<1>1. ASSUME NEW p \in Commands, Start(p) PROVE CloseInv'
  BY <1>1 DEF Start
<1>2. ASSUME NEW p \in Commands, TakeLock(p) PROVE CloseInv'
  BY <1>2 DEF TakeLock
<1>3. ASSUME NEW p \in Commands, PingAnswers(p) PROVE CloseInv'
  BY <1>3 DEF PingAnswers
<1>4. ASSUME NEW p \in Commands, PingFails(p) PROVE CloseInv'
  BY <1>4 DEF PingFails, EndSession, Owed
<1>5. ASSUME NEW p \in Commands, Connect(p) PROVE CloseInv'
  BY <1>5 DEF Connect
<1>6. ASSUME NEW p \in Commands, ConnectFails(p) PROVE CloseInv'
  BY <1>6 DEF ConnectFails, Release
<1>7. ASSUME NEW p \in Commands, StoreId(p) PROVE CloseInv'
  BY <1>7 DEF StoreId
<1>8. ASSUME NEW p \in Commands, CheckSlot(p) PROVE CloseInv'
  BY <1>8 DEF CheckSlot, EnterBody, Release
<1>9. ASSUME NEW p \in Commands, Reopened(p) PROVE CloseInv'
  BY <1>9 DEF Reopened, EnterBody, BackInDatabase
<1>10. ASSUME NEW p \in Commands, TellRolledBack(p) PROVE CloseInv'
  BY <1>10 DEF TellRolledBack, BackInDatabase, Release
<1>11. ASSUME NEW p \in Commands, TellDatabaseGone(p) PROVE CloseInv'
  BY <1>11 DEF TellDatabaseGone, Release
<1>12. ASSUME NEW p \in Commands, Clear(p) PROVE CloseInv'
  BY <1>12 DEF Clear
<1>13. ASSUME NEW p \in Commands, CheckMark(p) PROVE CloseInv'
  BY <1>13 DEF CheckMark
<1>14. ASSUME NEW p \in Commands, Send(p) PROVE CloseInv'
  BY <1>14 DEF Send
<1>15. ASSUME NEW p \in Commands, ReplyOk(p) PROVE CloseInv'
  BY <1>15 DEF ReplyOk, AfterStatement, TxAfter, DbAfter, Fate
<1>16. ASSUME NEW p \in Commands, ReplyFails(p) PROVE CloseInv'
  BY <1>16 DEF ReplyFails, AfterStatement
<1>17. ASSUME NEW p \in Commands, Settle(p) PROVE CloseInv'
  BY <1>17 DEF Settle, Release
<1>18. ASSUME NEW p \in Commands, SettleLost(p) PROVE CloseInv'
  BY <1>18 DEF SettleLost, Release, EndSession, Owed
<1>19. ASSUME NEW p \in Commands, WhereAnswers(p) PROVE CloseInv'
  BY <1>19 DEF WhereAnswers, Release
<1>20. ASSUME NEW p \in Commands, WhereFails(p) PROVE CloseInv'
  BY <1>20 DEF WhereFails, Release
<1>21. ASSUME NEW p \in Commands, Note(p) PROVE CloseInv'
  BY <1>21 DEF Note
<1>22. ASSUME NEW x \in Cancels, Cancel(x) PROVE CloseInv'
  BY <1>22 DEF Cancel, CancelMark, CancelReadId, CancelConnect, CancelKill
<1>23. CASE Close
  BY <1>23 DEF Close, CloseSlot, CloseReadId, CloseTakePool, CloseKill, CloseGivesUp, EndSession
<1>24. CASE Server
  BY <1>24 DEF Server, Lose, LoseReply, Disconnect, EndSession
<1>25. CASE UNCHANGED vars
  BY <1>25 DEF vars
<1> QED
  BY <1>1, <1>2, <1>3, <1>4, <1>5, <1>6, <1>7, <1>8, <1>9, <1>10, <1>11, <1>12, <1>13,
     <1>14, <1>15, <1>16, <1>17, <1>18, <1>19, <1>20, <1>21, <1>22, <1>23, <1>24, <1>25
  DEF Next, Progress

LEMMA InitIInv == Init => IInv
<1> SUFFICES ASSUME Init PROVE IInv
  OBVIOUS
<1> USE DEF Init, Preparing, Body, Holding
<1>1. EditorType
  <2>1. held \in 0..opened /\ id \in 0..opened  OBVIOUS
  <2> QED BY <2>1 DEF EditorType
<1>2. CommandType
  <2>1. [console |-> FALSE, todo |-> <<>>] \in Job  BY DEF Job
  <2> QED BY <2>1 DEF CommandType
<1>3. ServerType
  <2>1. opened \in 1..MaxConns  BY EditorAssumption DEF EditorAssumption
  <2> QED BY <2>1 DEF ServerType
<1>4. ClosingType  BY DEF ClosingType
<1>5. HistoryType
  <2>1. MaxRuns \in Nat /\ MaxFaults \in Nat
    BY EditorAssumption DEF EditorAssumption
  <2>2. 0 \in 0..MaxRuns /\ 0 \in 0..MaxFaults
    BY <2>1
  <2>3. runs \in 0..MaxRuns /\ faults \in 0..MaxFaults
    BY <2>2
  <2> QED BY <2>3 DEF HistoryType
<1>6. LockInv  BY EditorAssumption DEF EditorAssumption, LockInv
<1>7. JobInv  BY DEF JobInv
<1>8. CloseInv  BY DEF CloseInv
<1> QED
  BY <1>1, <1>2, <1>3, <1>4, <1>5, <1>6, <1>7, <1>8 DEF IInv, TypeOK

\* The lock, the scripts and the close: an invariant that is inductive.
THEOREM Invariance == Spec => []IInv
<1>1. IInv /\ [Next]_vars => IInv'
  BY TypeStep, LockStep, JobStep, CloseStep DEF IInv
<1> QED
  BY InitIInv, <1>1, PTL DEF Spec

\* Every variable keeps its type, for every number of commands, cancels and
\* connections.
THEOREM TypeCorrect == Spec => []TypeOK
<1>1. IInv => TypeOK
  BY DEF IInv
<1> QED
  BY Invariance, <1>1, PTL

\* Once the close has killed the connection (driver.rs: close), no command's
\* body runs on a live one (editor.rs: run).
THEOREM CloseStopsEverything == Spec => []NothingRunsAfterClose
<1>1. IInv => NothingRunsAfterClose
  BY DEF IInv, TypeOK, EditorType, CloseInv, NothingRunsAfterClose
<1> QED
  BY Invariance, <1>1, PTL

---------------------------------------------------------------------------
(* The mark in_transaction and the loss of a marked transaction             *)

\* The command is on a connection it opened itself and has not entered its
\* body yet.
Reopening(p) == pc[p] \in {"store", "restore"} \/ (pc[p] = "check" /\ fresh)

\* fresh is the local of a command between StoreId and the end of its body;
\* only a script has a cancel mark to clear, only a button an outcome to
\* settle.
LocalsInv ==
    /\ holder = NoCommand => ~fresh
    /\ \A p \in Commands :
         /\ pc[p] \in {"ping", "connect", "store"} => ~fresh
         /\ pc[p] = "settle" => ~job[p].console
         /\ pc[p] \in {"clear", "next", "where"} => job[p].console

\* A button's statement that succeeded left the flag of its reply.
SettledInv == \A p \in Commands : pc[p] = "settle" /\ ~failed /\ live => status = tx

\* The mark of a transaction that was lost stays until a command fails for it.
OwedMarked == owed = "owed" => inTx

\* On a connection that works, only a command that has just opened it can owe
\* the news; or the session was closed, and nobody will ask.
OwedWaits ==
    owed = "owed" /\ live =>
       \/ \E p \in Commands : Reopening(p)
       \/ holder = NoCommand /\ ~slot

\* A command whose connection broke under it reads no flag that would take the
\* mark away.
OwedFails ==
    \A p \in Commands :
       owed = "owed" /\ (pc[p] \in Body \/ (pc[p] = "check" /\ ~fresh)) =>
          IF job[p].console THEN status ELSE pc[p] = "settle" => failed \/ status

\* The script a cancel caught is still marked.
FlagInv == flagged => cancelled

LossInv == LocalsInv /\ SettledInv /\ OwedMarked /\ OwedWaits /\ OwedFails /\ FlagInv

\* The locals of a command and the kind of its job agree with where it is.
LEMMA LocalsStep ==
    ASSUME TypeOK, LockInv, LocalsInv, [Next]_vars
    PROVE  LocalsInv'
<1> USE EditorAssumption DEF editor, locals, server, closing, cancels, bounds, history, Goto,
           TypeOK, CommandType, EditorType, ServerType, HistoryType, LockInv, Preparing, Body, Holding,
           LocalsInv, Job
<1>1. ASSUME NEW p \in Commands, Start(p) PROVE LocalsInv'
  BY <1>1 DEF Start
<1>2. ASSUME NEW p \in Commands, TakeLock(p) PROVE LocalsInv'
  BY <1>2 DEF TakeLock
<1>3. ASSUME NEW p \in Commands, PingAnswers(p) PROVE LocalsInv'
  BY <1>3 DEF PingAnswers
<1>4. ASSUME NEW p \in Commands, PingFails(p) PROVE LocalsInv'
  BY <1>4 DEF PingFails, EndSession, Owed
<1>5. ASSUME NEW p \in Commands, Connect(p) PROVE LocalsInv'
  BY <1>5 DEF Connect
<1>6. ASSUME NEW p \in Commands, ConnectFails(p) PROVE LocalsInv'
  BY <1>6 DEF ConnectFails, Release
<1>7. ASSUME NEW p \in Commands, StoreId(p) PROVE LocalsInv'
  BY <1>7 DEF StoreId
<1>8. ASSUME NEW p \in Commands, CheckSlot(p) PROVE LocalsInv'
  BY <1>8 DEF CheckSlot, EnterBody, Release
<1>9. ASSUME NEW p \in Commands, Reopened(p) PROVE LocalsInv'
  BY <1>9 DEF Reopened, EnterBody, BackInDatabase
<1>10. ASSUME NEW p \in Commands, TellRolledBack(p) PROVE LocalsInv'
  BY <1>10 DEF TellRolledBack, BackInDatabase, Release
<1>11. ASSUME NEW p \in Commands, TellDatabaseGone(p) PROVE LocalsInv'
  BY <1>11 DEF TellDatabaseGone, Release
<1>12. ASSUME NEW p \in Commands, Clear(p) PROVE LocalsInv'
  BY <1>12 DEF Clear
<1>13. ASSUME NEW p \in Commands, CheckMark(p) PROVE LocalsInv'
  BY <1>13 DEF CheckMark
<1>14. ASSUME NEW p \in Commands, Send(p) PROVE LocalsInv'
  BY <1>14 DEF Send
<1>15. ASSUME NEW p \in Commands, ReplyOk(p) PROVE LocalsInv'
  BY <1>15 DEF ReplyOk, AfterStatement
<1>16. ASSUME NEW p \in Commands, ReplyFails(p) PROVE LocalsInv'
  BY <1>16 DEF ReplyFails, AfterStatement
<1>17. ASSUME NEW p \in Commands, Settle(p) PROVE LocalsInv'
  BY <1>17 DEF Settle, Release
<1>18. ASSUME NEW p \in Commands, SettleLost(p) PROVE LocalsInv'
  BY <1>18 DEF SettleLost, Release, EndSession, Owed
<1>19. ASSUME NEW p \in Commands, WhereAnswers(p) PROVE LocalsInv'
  BY <1>19 DEF WhereAnswers, Release
<1>20. ASSUME NEW p \in Commands, WhereFails(p) PROVE LocalsInv'
  BY <1>20 DEF WhereFails, Release
<1>21. ASSUME NEW p \in Commands, Note(p) PROVE LocalsInv'
  BY <1>21 DEF Note
<1>22. ASSUME NEW x \in Cancels, Cancel(x) PROVE LocalsInv'
  BY <1>22 DEF Cancel, CancelMark, CancelReadId, CancelConnect, CancelKill, Executing
<1>23. CASE Close
  BY <1>23 DEF Close, CloseSlot, CloseReadId, CloseTakePool, CloseKill, CloseGivesUp, EndSession, Owed
<1>24. CASE Lose
  BY <1>24 DEF Lose, EndSession, Owed
<1>25. CASE LoseReply
  BY <1>25 DEF LoseReply, Owed, TxAfter, Fate
<1>26. CASE Disconnect
  BY <1>26 DEF Disconnect, EndSession, Owed
<1>27. CASE UNCHANGED vars
  BY <1>27 DEF vars
<1> QED
    BY <1>1, <1>2, <1>3, <1>4, <1>5, <1>6, <1>7, <1>8, <1>9, <1>10, <1>11,
     <1>12, <1>13, <1>14, <1>15, <1>16, <1>17, <1>18, <1>19, <1>20, <1>21,
     <1>22, <1>23, <1>24, <1>25, <1>26, <1>27
  DEF Next, Progress, Server

\* Only the server's own reply takes a button to its end without a failure.
LEMMA SettledStep ==
    ASSUME TypeOK, LockInv, LocalsInv, SettledInv, [Next]_vars
    PROVE  SettledInv'
<1> USE EditorAssumption DEF editor, locals, server, closing, cancels, bounds, history, Goto,
           TypeOK, CommandType, EditorType, ServerType, HistoryType, LockInv, Preparing, Body, Holding,
           LocalsInv, SettledInv, Job
<1>1. ASSUME NEW p \in Commands, Start(p) PROVE SettledInv'
  BY <1>1 DEF Start
<1>2. ASSUME NEW p \in Commands, TakeLock(p) PROVE SettledInv'
  BY <1>2 DEF TakeLock
<1>3. ASSUME NEW p \in Commands, PingAnswers(p) PROVE SettledInv'
  BY <1>3 DEF PingAnswers
<1>4. ASSUME NEW p \in Commands, PingFails(p) PROVE SettledInv'
  BY <1>4 DEF PingFails, EndSession, Owed
<1>5. ASSUME NEW p \in Commands, Connect(p) PROVE SettledInv'
  BY <1>5 DEF Connect
<1>6. ASSUME NEW p \in Commands, ConnectFails(p) PROVE SettledInv'
  BY <1>6 DEF ConnectFails, Release
<1>7. ASSUME NEW p \in Commands, StoreId(p) PROVE SettledInv'
  BY <1>7 DEF StoreId
<1>8. ASSUME NEW p \in Commands, CheckSlot(p) PROVE SettledInv'
  BY <1>8 DEF CheckSlot, EnterBody, Release
<1>9. ASSUME NEW p \in Commands, Reopened(p) PROVE SettledInv'
  BY <1>9 DEF Reopened, EnterBody, BackInDatabase
<1>10. ASSUME NEW p \in Commands, TellRolledBack(p) PROVE SettledInv'
  BY <1>10 DEF TellRolledBack, BackInDatabase, Release
<1>11. ASSUME NEW p \in Commands, TellDatabaseGone(p) PROVE SettledInv'
  BY <1>11 DEF TellDatabaseGone, Release
<1>12. ASSUME NEW p \in Commands, Clear(p) PROVE SettledInv'
  BY <1>12 DEF Clear
<1>13. ASSUME NEW p \in Commands, CheckMark(p) PROVE SettledInv'
  BY <1>13 DEF CheckMark
<1>14. ASSUME NEW p \in Commands, Send(p) PROVE SettledInv'
  BY <1>14 DEF Send
<1>15. ASSUME NEW p \in Commands, ReplyOk(p) PROVE SettledInv'
  BY <1>15 DEF ReplyOk, AfterStatement
<1>16. ASSUME NEW p \in Commands, ReplyFails(p) PROVE SettledInv'
  BY <1>16 DEF ReplyFails, AfterStatement
<1>17. ASSUME NEW p \in Commands, Settle(p) PROVE SettledInv'
  BY <1>17 DEF Settle, Release
<1>18. ASSUME NEW p \in Commands, SettleLost(p) PROVE SettledInv'
  BY <1>18 DEF SettleLost, Release, EndSession, Owed
<1>19. ASSUME NEW p \in Commands, WhereAnswers(p) PROVE SettledInv'
  BY <1>19 DEF WhereAnswers, Release
<1>20. ASSUME NEW p \in Commands, WhereFails(p) PROVE SettledInv'
  BY <1>20 DEF WhereFails, Release
<1>21. ASSUME NEW p \in Commands, Note(p) PROVE SettledInv'
  BY <1>21 DEF Note
<1>22. ASSUME NEW x \in Cancels, Cancel(x) PROVE SettledInv'
  BY <1>22 DEF Cancel, CancelMark, CancelReadId, CancelConnect, CancelKill, Executing
<1>23. CASE Close
  BY <1>23 DEF Close, CloseSlot, CloseReadId, CloseTakePool, CloseKill, CloseGivesUp, EndSession, Owed
<1>24. CASE Lose
  BY <1>24 DEF Lose, EndSession, Owed
<1>25. CASE LoseReply
  BY <1>25 DEF LoseReply, Owed, TxAfter, Fate
<1>26. CASE Disconnect
  BY <1>26 DEF Disconnect, EndSession, Owed
<1>27. CASE UNCHANGED vars
  BY <1>27 DEF vars
<1> QED
    BY <1>1, <1>2, <1>3, <1>4, <1>5, <1>6, <1>7, <1>8, <1>9, <1>10, <1>11,
     <1>12, <1>13, <1>14, <1>15, <1>16, <1>17, <1>18, <1>19, <1>20, <1>21,
     <1>22, <1>23, <1>24, <1>25, <1>26, <1>27
  DEF Next, Progress, Server

\* No flag that was read takes away the mark of a lost transaction.
LEMMA OwedMarkedStep ==
    ASSUME TypeOK, LockInv, LossInv, [Next]_vars
    PROVE  OwedMarked'
<1> USE EditorAssumption DEF editor, locals, server, closing, cancels, bounds, history, Goto,
           TypeOK, CommandType, EditorType, ServerType, HistoryType, LockInv, Preparing, Body, Holding,
           LossInv, LocalsInv, SettledInv, OwedMarked, OwedWaits, OwedFails, Reopening
<1>1. ASSUME NEW p \in Commands, Start(p) PROVE OwedMarked'
  BY <1>1 DEF Start
<1>2. ASSUME NEW p \in Commands, TakeLock(p) PROVE OwedMarked'
  BY <1>2 DEF TakeLock
<1>3. ASSUME NEW p \in Commands, PingAnswers(p) PROVE OwedMarked'
  BY <1>3 DEF PingAnswers
<1>4. ASSUME NEW p \in Commands, PingFails(p) PROVE OwedMarked'
  BY <1>4 DEF PingFails, EndSession, Owed
<1>5. ASSUME NEW p \in Commands, Connect(p) PROVE OwedMarked'
  BY <1>5 DEF Connect
<1>6. ASSUME NEW p \in Commands, ConnectFails(p) PROVE OwedMarked'
  BY <1>6 DEF ConnectFails, Release
<1>7. ASSUME NEW p \in Commands, StoreId(p) PROVE OwedMarked'
  BY <1>7 DEF StoreId
<1>8. ASSUME NEW p \in Commands, CheckSlot(p) PROVE OwedMarked'
  BY <1>8 DEF CheckSlot, EnterBody, Release
<1>9. ASSUME NEW p \in Commands, Reopened(p) PROVE OwedMarked'
  BY <1>9 DEF Reopened, EnterBody, BackInDatabase
<1>10. ASSUME NEW p \in Commands, TellRolledBack(p) PROVE OwedMarked'
  BY <1>10 DEF TellRolledBack, BackInDatabase, Release
<1>11. ASSUME NEW p \in Commands, TellDatabaseGone(p) PROVE OwedMarked'
  BY <1>11 DEF TellDatabaseGone, Release
<1>12. ASSUME NEW p \in Commands, Clear(p) PROVE OwedMarked'
  BY <1>12 DEF Clear
<1>13. ASSUME NEW p \in Commands, CheckMark(p) PROVE OwedMarked'
  BY <1>13 DEF CheckMark
<1>14. ASSUME NEW p \in Commands, Send(p) PROVE OwedMarked'
  BY <1>14 DEF Send
<1>15. ASSUME NEW p \in Commands, ReplyOk(p) PROVE OwedMarked'
  BY <1>15 DEF ReplyOk, AfterStatement
<1>16. ASSUME NEW p \in Commands, ReplyFails(p) PROVE OwedMarked'
  BY <1>16 DEF ReplyFails, AfterStatement
<1>17. ASSUME NEW p \in Commands, Settle(p) PROVE OwedMarked'
  BY <1>17 DEF Settle, Release
<1>18. ASSUME NEW p \in Commands, SettleLost(p) PROVE OwedMarked'
  BY <1>18 DEF SettleLost, Release, EndSession, Owed
<1>19. ASSUME NEW p \in Commands, WhereAnswers(p) PROVE OwedMarked'
  BY <1>19 DEF WhereAnswers, Release
<1>20. ASSUME NEW p \in Commands, WhereFails(p) PROVE OwedMarked'
  BY <1>20 DEF WhereFails, Release
<1>21. ASSUME NEW p \in Commands, Note(p) PROVE OwedMarked'
  BY <1>21 DEF Note
<1>22. ASSUME NEW x \in Cancels, Cancel(x) PROVE OwedMarked'
  BY <1>22 DEF Cancel, CancelMark, CancelReadId, CancelConnect, CancelKill, Executing
<1>23. CASE Close
  BY <1>23 DEF Close, CloseSlot, CloseReadId, CloseTakePool, CloseKill, CloseGivesUp, EndSession, Owed
<1>24. CASE Lose
  BY <1>24 DEF Lose, EndSession, Owed
<1>25. CASE LoseReply
  BY <1>25 DEF LoseReply, Owed, TxAfter, Fate
<1>26. CASE Disconnect
  BY <1>26 DEF Disconnect, EndSession, Owed
<1>27. CASE UNCHANGED vars
  BY <1>27 DEF vars
<1> QED
    BY <1>1, <1>2, <1>3, <1>4, <1>5, <1>6, <1>7, <1>8, <1>9, <1>10, <1>11,
     <1>12, <1>13, <1>14, <1>15, <1>16, <1>17, <1>18, <1>19, <1>20, <1>21,
     <1>22, <1>23, <1>24, <1>25, <1>26, <1>27
  DEF Next, Progress, Server

\* A connection opened in the place of a lost one serves the command that
\* opened it, and that one fails if the mark is set.
LEMMA OwedWaitsStep ==
    ASSUME TypeOK, LockInv, LossInv, [Next]_vars
    PROVE  OwedWaits'
<1> USE EditorAssumption DEF editor, locals, server, closing, cancels, bounds, history, Goto,
           TypeOK, CommandType, EditorType, ServerType, HistoryType, LockInv, Preparing, Body, Holding,
           LossInv, LocalsInv, SettledInv, OwedMarked, OwedWaits, OwedFails, Reopening
<1>1. ASSUME NEW p \in Commands, Start(p) PROVE OwedWaits'
  BY <1>1 DEF Start
<1>2. ASSUME NEW p \in Commands, TakeLock(p) PROVE OwedWaits'
  BY <1>2 DEF TakeLock
<1>3. ASSUME NEW p \in Commands, PingAnswers(p) PROVE OwedWaits'
  BY <1>3 DEF PingAnswers
<1>4. ASSUME NEW p \in Commands, PingFails(p) PROVE OwedWaits'
  BY <1>4 DEF PingFails, EndSession, Owed
<1>5. ASSUME NEW p \in Commands, Connect(p) PROVE OwedWaits'
  BY <1>5 DEF Connect
<1>6. ASSUME NEW p \in Commands, ConnectFails(p) PROVE OwedWaits'
  BY <1>6 DEF ConnectFails, Release
<1>7. ASSUME NEW p \in Commands, StoreId(p) PROVE OwedWaits'
  BY <1>7 DEF StoreId
<1>8. ASSUME NEW p \in Commands, CheckSlot(p) PROVE OwedWaits'
  BY <1>8 DEF CheckSlot, EnterBody, Release
<1>9. ASSUME NEW p \in Commands, Reopened(p) PROVE OwedWaits'
  BY <1>9 DEF Reopened, EnterBody, BackInDatabase
<1>10. ASSUME NEW p \in Commands, TellRolledBack(p) PROVE OwedWaits'
  BY <1>10 DEF TellRolledBack, BackInDatabase, Release
<1>11. ASSUME NEW p \in Commands, TellDatabaseGone(p) PROVE OwedWaits'
  BY <1>11 DEF TellDatabaseGone, Release
<1>12. ASSUME NEW p \in Commands, Clear(p) PROVE OwedWaits'
  BY <1>12 DEF Clear
<1>13. ASSUME NEW p \in Commands, CheckMark(p) PROVE OwedWaits'
  BY <1>13 DEF CheckMark
<1>14. ASSUME NEW p \in Commands, Send(p) PROVE OwedWaits'
  BY <1>14 DEF Send
<1>15. ASSUME NEW p \in Commands, ReplyOk(p) PROVE OwedWaits'
  BY <1>15 DEF ReplyOk, AfterStatement
<1>16. ASSUME NEW p \in Commands, ReplyFails(p) PROVE OwedWaits'
  BY <1>16 DEF ReplyFails, AfterStatement
<1>17. ASSUME NEW p \in Commands, Settle(p) PROVE OwedWaits'
  BY <1>17 DEF Settle, Release
<1>18. ASSUME NEW p \in Commands, SettleLost(p) PROVE OwedWaits'
  BY <1>18 DEF SettleLost, Release, EndSession, Owed
<1>19. ASSUME NEW p \in Commands, WhereAnswers(p) PROVE OwedWaits'
  BY <1>19 DEF WhereAnswers, Release
<1>20. ASSUME NEW p \in Commands, WhereFails(p) PROVE OwedWaits'
  BY <1>20 DEF WhereFails, Release
<1>21. ASSUME NEW p \in Commands, Note(p) PROVE OwedWaits'
  BY <1>21 DEF Note
<1>22. ASSUME NEW x \in Cancels, Cancel(x) PROVE OwedWaits'
  BY <1>22 DEF Cancel, CancelMark, CancelReadId, CancelConnect, CancelKill, Executing
<1>23. CASE Close
  BY <1>23 DEF Close, CloseSlot, CloseReadId, CloseTakePool, CloseKill, CloseGivesUp, EndSession, Owed
<1>24. CASE Lose
  BY <1>24 DEF Lose, EndSession, Owed
<1>25. CASE LoseReply
  BY <1>25 DEF LoseReply, Owed, TxAfter, Fate
<1>26. CASE Disconnect
  BY <1>26 DEF Disconnect, EndSession, Owed
<1>27. CASE UNCHANGED vars
  BY <1>27 DEF vars
<1> QED
    BY <1>1, <1>2, <1>3, <1>4, <1>5, <1>6, <1>7, <1>8, <1>9, <1>10, <1>11,
     <1>12, <1>13, <1>14, <1>15, <1>16, <1>17, <1>18, <1>19, <1>20, <1>21,
     <1>22, <1>23, <1>24, <1>25, <1>26, <1>27
  DEF Next, Progress, Server

\* What a command reads from a broken connection is the flag of an earlier
\* reply.
LEMMA OwedFailsStep ==
    ASSUME TypeOK, LockInv, LossInv, [Next]_vars
    PROVE  OwedFails'
<1> USE EditorAssumption DEF editor, locals, server, closing, cancels, bounds, history, Goto,
           TypeOK, CommandType, EditorType, ServerType, HistoryType, LockInv, Preparing, Body, Holding,
           LossInv, LocalsInv, SettledInv, OwedMarked, OwedWaits, OwedFails, Reopening, Job
<1>1. ASSUME NEW p \in Commands, Start(p) PROVE OwedFails'
  BY <1>1 DEF Start
<1>2. ASSUME NEW p \in Commands, TakeLock(p) PROVE OwedFails'
  BY <1>2 DEF TakeLock
<1>3. ASSUME NEW p \in Commands, PingAnswers(p) PROVE OwedFails'
  BY <1>3 DEF PingAnswers
<1>4. ASSUME NEW p \in Commands, PingFails(p) PROVE OwedFails'
  BY <1>4 DEF PingFails, EndSession, Owed
<1>5. ASSUME NEW p \in Commands, Connect(p) PROVE OwedFails'
  BY <1>5 DEF Connect
<1>6. ASSUME NEW p \in Commands, ConnectFails(p) PROVE OwedFails'
  BY <1>6 DEF ConnectFails, Release
<1>7. ASSUME NEW p \in Commands, StoreId(p) PROVE OwedFails'
  BY <1>7 DEF StoreId
<1>8. ASSUME NEW p \in Commands, CheckSlot(p) PROVE OwedFails'
  BY <1>8 DEF CheckSlot, EnterBody, Release
<1>9. ASSUME NEW p \in Commands, Reopened(p) PROVE OwedFails'
  BY <1>9 DEF Reopened, EnterBody, BackInDatabase
<1>10. ASSUME NEW p \in Commands, TellRolledBack(p) PROVE OwedFails'
  BY <1>10 DEF TellRolledBack, BackInDatabase, Release
<1>11. ASSUME NEW p \in Commands, TellDatabaseGone(p) PROVE OwedFails'
  BY <1>11 DEF TellDatabaseGone, Release
<1>12. ASSUME NEW p \in Commands, Clear(p) PROVE OwedFails'
  BY <1>12 DEF Clear
<1>13. ASSUME NEW p \in Commands, CheckMark(p) PROVE OwedFails'
  BY <1>13 DEF CheckMark
<1>14. ASSUME NEW p \in Commands, Send(p) PROVE OwedFails'
  BY <1>14 DEF Send
<1>15. ASSUME NEW p \in Commands, ReplyOk(p) PROVE OwedFails'
  BY <1>15 DEF ReplyOk, AfterStatement
<1>16. ASSUME NEW p \in Commands, ReplyFails(p) PROVE OwedFails'
  <2> USE <1>16 DEF ReplyFails
  <2>1. owed = "owed" => ~live
    OBVIOUS
  <2>2. ASSUME owed = "owed" PROVE status' <=> status
    BY <2>1, <2>2
  <2>3. pc[p] = "reply" /\ holder = p /\ owed' = owed
    OBVIOUS
  <2>4. \A q \in Commands : q # p => pc[q] \notin Body /\ pc[q] \notin Preparing
    BY <2>3
  <2>5. \A q \in Commands : job'[q].console = job[q].console /\ (q # p => pc'[q] = pc[q])
    BY DEF AfterStatement, Job
  <2>6. failed' = TRUE
    BY Zenon DEF AfterStatement
  <2>7. ASSUME NEW q \in Commands, q # p PROVE pc'[q] \notin Body /\ pc'[q] \notin Preparing
    BY <2>4, <2>5, <2>7
  <2> QED
    BY <2>2, <2>3, <2>5, <2>6, <2>7
<1>17. ASSUME NEW p \in Commands, Settle(p) PROVE OwedFails'
  BY <1>17 DEF Settle, Release
<1>18. ASSUME NEW p \in Commands, SettleLost(p) PROVE OwedFails'
  BY <1>18 DEF SettleLost, Release, EndSession, Owed
<1>19. ASSUME NEW p \in Commands, WhereAnswers(p) PROVE OwedFails'
  BY <1>19 DEF WhereAnswers, Release
<1>20. ASSUME NEW p \in Commands, WhereFails(p) PROVE OwedFails'
  BY <1>20 DEF WhereFails, Release
<1>21. ASSUME NEW p \in Commands, Note(p) PROVE OwedFails'
  BY <1>21 DEF Note
<1>22. ASSUME NEW x \in Cancels, Cancel(x) PROVE OwedFails'
  BY <1>22 DEF Cancel, CancelMark, CancelReadId, CancelConnect, CancelKill, Executing
<1>23. CASE Close
  BY <1>23 DEF Close, CloseSlot, CloseReadId, CloseTakePool, CloseKill, CloseGivesUp, EndSession, Owed
<1>24. CASE Lose
  BY <1>24 DEF Lose, EndSession, Owed
<1>25. CASE LoseReply
  BY <1>25 DEF LoseReply, Owed, TxAfter, Fate
<1>26. CASE Disconnect
  BY <1>26 DEF Disconnect, EndSession, Owed
<1>27. CASE UNCHANGED vars
  BY <1>27 DEF vars
<1> QED
    BY <1>1, <1>2, <1>3, <1>4, <1>5, <1>6, <1>7, <1>8, <1>9, <1>10, <1>11,
     <1>12, <1>13, <1>14, <1>15, <1>16, <1>17, <1>18, <1>19, <1>20, <1>21,
     <1>22, <1>23, <1>24, <1>25, <1>26, <1>27
  DEF Next, Progress, Server

\* Only a script that starts clears the cancel mark.
LEMMA FlagStep ==
    ASSUME TypeOK, LockInv, LossInv, [Next]_vars
    PROVE  FlagInv'
<1> USE EditorAssumption DEF editor, locals, server, closing, cancels, bounds, history, Goto,
           TypeOK, CommandType, EditorType, ServerType, HistoryType, LockInv, Preparing, Body, Holding,
           LossInv, FlagInv
<1>1. ASSUME NEW p \in Commands, Start(p) PROVE FlagInv'
  BY <1>1 DEF Start
<1>2. ASSUME NEW p \in Commands, TakeLock(p) PROVE FlagInv'
  BY <1>2 DEF TakeLock
<1>3. ASSUME NEW p \in Commands, PingAnswers(p) PROVE FlagInv'
  BY <1>3 DEF PingAnswers
<1>4. ASSUME NEW p \in Commands, PingFails(p) PROVE FlagInv'
  BY <1>4 DEF PingFails, EndSession, Owed
<1>5. ASSUME NEW p \in Commands, Connect(p) PROVE FlagInv'
  BY <1>5 DEF Connect
<1>6. ASSUME NEW p \in Commands, ConnectFails(p) PROVE FlagInv'
  BY <1>6 DEF ConnectFails, Release
<1>7. ASSUME NEW p \in Commands, StoreId(p) PROVE FlagInv'
  BY <1>7 DEF StoreId
<1>8. ASSUME NEW p \in Commands, CheckSlot(p) PROVE FlagInv'
  BY <1>8 DEF CheckSlot, EnterBody, Release
<1>9. ASSUME NEW p \in Commands, Reopened(p) PROVE FlagInv'
  BY <1>9 DEF Reopened, EnterBody, BackInDatabase
<1>10. ASSUME NEW p \in Commands, TellRolledBack(p) PROVE FlagInv'
  BY <1>10 DEF TellRolledBack, BackInDatabase, Release
<1>11. ASSUME NEW p \in Commands, TellDatabaseGone(p) PROVE FlagInv'
  BY <1>11 DEF TellDatabaseGone, Release
<1>12. ASSUME NEW p \in Commands, Clear(p) PROVE FlagInv'
  BY <1>12 DEF Clear
<1>13. ASSUME NEW p \in Commands, CheckMark(p) PROVE FlagInv'
  BY <1>13 DEF CheckMark
<1>14. ASSUME NEW p \in Commands, Send(p) PROVE FlagInv'
  BY <1>14 DEF Send
<1>15. ASSUME NEW p \in Commands, ReplyOk(p) PROVE FlagInv'
  BY <1>15 DEF ReplyOk, AfterStatement
<1>16. ASSUME NEW p \in Commands, ReplyFails(p) PROVE FlagInv'
  BY <1>16 DEF ReplyFails, AfterStatement
<1>17. ASSUME NEW p \in Commands, Settle(p) PROVE FlagInv'
  BY <1>17 DEF Settle, Release
<1>18. ASSUME NEW p \in Commands, SettleLost(p) PROVE FlagInv'
  BY <1>18 DEF SettleLost, Release, EndSession, Owed
<1>19. ASSUME NEW p \in Commands, WhereAnswers(p) PROVE FlagInv'
  BY <1>19 DEF WhereAnswers, Release
<1>20. ASSUME NEW p \in Commands, WhereFails(p) PROVE FlagInv'
  BY <1>20 DEF WhereFails, Release
<1>21. ASSUME NEW p \in Commands, Note(p) PROVE FlagInv'
  BY <1>21 DEF Note
<1>22. ASSUME NEW x \in Cancels, Cancel(x) PROVE FlagInv'
  BY <1>22 DEF Cancel, CancelMark, CancelReadId, CancelConnect, CancelKill, Executing
<1>23. CASE Close
  BY <1>23 DEF Close, CloseSlot, CloseReadId, CloseTakePool, CloseKill, CloseGivesUp, EndSession, Owed
<1>24. CASE Lose
  BY <1>24 DEF Lose, EndSession, Owed
<1>25. CASE LoseReply
  BY <1>25 DEF LoseReply, Owed, TxAfter, Fate
<1>26. CASE Disconnect
  BY <1>26 DEF Disconnect, EndSession, Owed
<1>27. CASE UNCHANGED vars
  BY <1>27 DEF vars
<1> QED
    BY <1>1, <1>2, <1>3, <1>4, <1>5, <1>6, <1>7, <1>8, <1>9, <1>10, <1>11,
     <1>12, <1>13, <1>14, <1>15, <1>16, <1>17, <1>18, <1>19, <1>20, <1>21,
     <1>22, <1>23, <1>24, <1>25, <1>26, <1>27
  DEF Next, Progress, Server


LEMMA InitLossInv == Init => LossInv
<1> SUFFICES ASSUME Init PROVE LossInv
  OBVIOUS
<1> USE DEF Init
<1>1. LocalsInv
  BY DEF LocalsInv
<1>2. SettledInv
  BY DEF SettledInv
<1>3. OwedMarked /\ OwedWaits /\ OwedFails /\ FlagInv
  BY DEF OwedMarked, OwedWaits, OwedFails, FlagInv
<1> QED
  BY <1>1, <1>2, <1>3 DEF LossInv

\* The mark, the loss and the cancel mark stay in step.
THEOREM LossInvariance == Spec => [](IInv /\ LossInv)
<1>1. Init => IInv /\ LossInv
  BY InitIInv, InitLossInv
<1>2. IInv /\ LossInv /\ [Next]_vars => IInv' /\ LossInv'
  <2> SUFFICES ASSUME IInv, LossInv, [Next]_vars PROVE IInv' /\ LossInv'
    OBVIOUS
  <2>1. TypeOK /\ LockInv /\ JobInv /\ CloseInv
    BY DEF IInv
  <2>2. LocalsInv /\ SettledInv
    BY DEF LossInv
  <2>3. LossInv'
    BY <2>1, <2>2, LocalsStep, SettledStep, OwedMarkedStep, OwedWaitsStep, OwedFailsStep,
       FlagStep DEF LossInv
  <2>4. IInv'
    BY <2>1, TypeStep, LockStep, JobStep, CloseStep DEF IInv
  <2> QED
    BY <2>3, <2>4
<1> QED
  BY <1>1, <1>2, PTL DEF Spec

\* A connection that went with a marked transaction makes a command fail
\* before any statement runs on the connection opened in its place
\* (editor.rs: run).
THEOREM LossIsTold == Spec => LossIsToldFirst
<1> DEFINE Told == \A p \in Commands : live /\ pc[p] = "send" /\ pc'[p] = "reply" => owed # "owed"
<1>1. IInv /\ LossInv => Told
  BY EditorAssumption DEF EditorAssumption, IInv, TypeOK, CommandType, EditorType, LockInv, LossInv,
     OwedWaits, Reopening, Preparing, Body, Holding
<1>2. IInv /\ LossInv /\ [Next]_vars => [Told]_vars
  BY <1>1
<1> QED
  BY LossInvariance, <1>2, PTL DEF Spec, LossIsToldFirst

\* A script goes from a statement's answer to its end in AfterStatement, where
\* the mark counts as a failure.
LEMMA ReplyFollows ==
    ASSUME TypeOK, FlagInv, [Next]_vars
    PROVE  \A c \in Commands : pc[c] = "reply" /\ pc'[c] = "where" /\ flagged => failed'
<1> DEFINE Reported == \A c \in Commands : pc[c] = "reply" /\ pc'[c] = "where" /\ flagged => failed'
<1> USE EditorAssumption DEF editor, locals, server, closing, cancels, bounds, history, Goto,
           TypeOK, CommandType, EditorType, ServerType, HistoryType, LockInv, Preparing, Body, Holding,
           FlagInv
<1>1. ASSUME NEW p \in Commands, Start(p) PROVE Reported
  BY <1>1 DEF Start
<1>2. ASSUME NEW p \in Commands, TakeLock(p) PROVE Reported
  BY <1>2 DEF TakeLock
<1>3. ASSUME NEW p \in Commands, PingAnswers(p) PROVE Reported
  BY <1>3 DEF PingAnswers
<1>4. ASSUME NEW p \in Commands, PingFails(p) PROVE Reported
  BY <1>4 DEF PingFails, EndSession, Owed
<1>5. ASSUME NEW p \in Commands, Connect(p) PROVE Reported
  BY <1>5 DEF Connect
<1>6. ASSUME NEW p \in Commands, ConnectFails(p) PROVE Reported
  BY <1>6 DEF ConnectFails, Release
<1>7. ASSUME NEW p \in Commands, StoreId(p) PROVE Reported
  BY <1>7 DEF StoreId
<1>8. ASSUME NEW p \in Commands, CheckSlot(p) PROVE Reported
  BY <1>8 DEF CheckSlot, EnterBody, Release
<1>9. ASSUME NEW p \in Commands, Reopened(p) PROVE Reported
  BY <1>9 DEF Reopened, EnterBody, BackInDatabase
<1>10. ASSUME NEW p \in Commands, TellRolledBack(p) PROVE Reported
  BY <1>10 DEF TellRolledBack, BackInDatabase, Release
<1>11. ASSUME NEW p \in Commands, TellDatabaseGone(p) PROVE Reported
  BY <1>11 DEF TellDatabaseGone, Release
<1>12. ASSUME NEW p \in Commands, Clear(p) PROVE Reported
  BY <1>12 DEF Clear
<1>13. ASSUME NEW p \in Commands, CheckMark(p) PROVE Reported
  BY <1>13 DEF CheckMark
<1>14. ASSUME NEW p \in Commands, Send(p) PROVE Reported
  BY <1>14 DEF Send
<1>15. ASSUME NEW p \in Commands, ReplyOk(p) PROVE Reported
  BY <1>15 DEF ReplyOk, AfterStatement
<1>16. ASSUME NEW p \in Commands, ReplyFails(p) PROVE Reported
  BY <1>16 DEF ReplyFails, AfterStatement
<1>17. ASSUME NEW p \in Commands, Settle(p) PROVE Reported
  BY <1>17 DEF Settle, Release
<1>18. ASSUME NEW p \in Commands, SettleLost(p) PROVE Reported
  BY <1>18 DEF SettleLost, Release, EndSession, Owed
<1>19. ASSUME NEW p \in Commands, WhereAnswers(p) PROVE Reported
  BY <1>19 DEF WhereAnswers, Release
<1>20. ASSUME NEW p \in Commands, WhereFails(p) PROVE Reported
  BY <1>20 DEF WhereFails, Release
<1>21. ASSUME NEW p \in Commands, Note(p) PROVE Reported
  BY <1>21 DEF Note
<1>22. ASSUME NEW x \in Cancels, Cancel(x) PROVE Reported
  BY <1>22 DEF Cancel, CancelMark, CancelReadId, CancelConnect, CancelKill, Executing
<1>23. CASE Close
  BY <1>23 DEF Close, CloseSlot, CloseReadId, CloseTakePool, CloseKill, CloseGivesUp, EndSession, Owed
<1>24. CASE Lose
  BY <1>24 DEF Lose, EndSession, Owed
<1>25. CASE LoseReply
  BY <1>25 DEF LoseReply, Owed, TxAfter, Fate
<1>26. CASE Disconnect
  BY <1>26 DEF Disconnect, EndSession, Owed
<1>27. CASE UNCHANGED vars
  BY <1>27 DEF vars
<1> QED
    BY <1>1, <1>2, <1>3, <1>4, <1>5, <1>6, <1>7, <1>8, <1>9, <1>10, <1>11,
     <1>12, <1>13, <1>14, <1>15, <1>16, <1>17, <1>18, <1>19, <1>20, <1>21,
     <1>22, <1>23, <1>24, <1>25, <1>26, <1>27
  DEF Next, Progress, Server

\* A script that a cancel marked before its last statement was answered never
\* reports success (console.rs: run_script, cancel).
THEOREM CancelReported == Spec => CancelIsReported
<1> DEFINE Reported == \A p \in Commands : pc[p] = "reply" /\ pc'[p] = "where" /\ flagged => failed'
<1>1. IInv /\ LossInv /\ [Next]_vars => [Reported]_vars
  BY ReplyFollows DEF IInv, LossInv
<1> QED
  BY LossInvariance, <1>1, PTL DEF Spec, CancelIsReported

---------------------------------------------------------------------------
(* The mark says what the server would                                      *)

\* A connection a command opens again starts without a transaction, and is not
\* in the slot before its id is stored.
ReopenedInv ==
    /\ held \in {0, opened}
    /\ \A p \in Commands :
         /\ pc[p] \in {"connect", "store"} => held = 0
         /\ Reopening(p) => ~tx /\ db = "home"

\* A kill that reached a statement was a cancel's.
KilledInv == killed => Cancels # {}

\* Also for a command that has the lock and has not entered its body.
MarkUntilBody ==
    \A p \in Commands :
       (pc[p] = "ping" \/ (pc[p] = "check" /\ ~fresh)) /\ live => inTx = tx

MarkInv == MarkFollowsServer /\ MarkUntilBody

\* A connection opened again is untouched until the command's body starts.
LEMMA ReopenedStep ==
    ASSUME TypeOK, LockInv, LossInv, ReopenedInv, [Next]_vars
    PROVE  ReopenedInv'
<1> USE EditorAssumption DEF editor, locals, server, closing, cancels, bounds, history, Goto,
           TypeOK, CommandType, EditorType, ServerType, HistoryType, LockInv, Preparing, Body, Holding,
           LossInv, LocalsInv, SettledInv, Reopening, ReopenedInv
<1>1. ASSUME NEW p \in Commands, Start(p) PROVE ReopenedInv'
  BY <1>1 DEF Start
<1>2. ASSUME NEW p \in Commands, TakeLock(p) PROVE ReopenedInv'
  BY <1>2 DEF TakeLock
<1>3. ASSUME NEW p \in Commands, PingAnswers(p) PROVE ReopenedInv'
  BY <1>3 DEF PingAnswers
<1>4. ASSUME NEW p \in Commands, PingFails(p) PROVE ReopenedInv'
  BY <1>4 DEF PingFails, EndSession, Owed
<1>5. ASSUME NEW p \in Commands, Connect(p) PROVE ReopenedInv'
  BY <1>5 DEF Connect
<1>6. ASSUME NEW p \in Commands, ConnectFails(p) PROVE ReopenedInv'
  BY <1>6 DEF ConnectFails, Release
<1>7. ASSUME NEW p \in Commands, StoreId(p) PROVE ReopenedInv'
  BY <1>7 DEF StoreId
<1>8. ASSUME NEW p \in Commands, CheckSlot(p) PROVE ReopenedInv'
  BY <1>8 DEF CheckSlot, EnterBody, Release
<1>9. ASSUME NEW p \in Commands, Reopened(p) PROVE ReopenedInv'
  BY <1>9 DEF Reopened, EnterBody, BackInDatabase
<1>10. ASSUME NEW p \in Commands, TellRolledBack(p) PROVE ReopenedInv'
  BY <1>10 DEF TellRolledBack, BackInDatabase, Release
<1>11. ASSUME NEW p \in Commands, TellDatabaseGone(p) PROVE ReopenedInv'
  BY <1>11 DEF TellDatabaseGone, Release
<1>12. ASSUME NEW p \in Commands, Clear(p) PROVE ReopenedInv'
  BY <1>12 DEF Clear
<1>13. ASSUME NEW p \in Commands, CheckMark(p) PROVE ReopenedInv'
  BY <1>13 DEF CheckMark
<1>14. ASSUME NEW p \in Commands, Send(p) PROVE ReopenedInv'
  BY <1>14 DEF Send
<1>15. ASSUME NEW p \in Commands, ReplyOk(p) PROVE ReopenedInv'
  BY <1>15 DEF ReplyOk, AfterStatement
<1>16. ASSUME NEW p \in Commands, ReplyFails(p) PROVE ReopenedInv'
  BY <1>16 DEF ReplyFails, AfterStatement
<1>17. ASSUME NEW p \in Commands, Settle(p) PROVE ReopenedInv'
  BY <1>17 DEF Settle, Release
<1>18. ASSUME NEW p \in Commands, SettleLost(p) PROVE ReopenedInv'
  BY <1>18 DEF SettleLost, Release, EndSession, Owed
<1>19. ASSUME NEW p \in Commands, WhereAnswers(p) PROVE ReopenedInv'
  BY <1>19 DEF WhereAnswers, Release
<1>20. ASSUME NEW p \in Commands, WhereFails(p) PROVE ReopenedInv'
  BY <1>20 DEF WhereFails, Release
<1>21. ASSUME NEW p \in Commands, Note(p) PROVE ReopenedInv'
  BY <1>21 DEF Note
<1>22. ASSUME NEW x \in Cancels, Cancel(x) PROVE ReopenedInv'
  BY <1>22 DEF Cancel, CancelMark, CancelReadId, CancelConnect, CancelKill, Executing
<1>23. CASE Close
  BY <1>23 DEF Close, CloseSlot, CloseReadId, CloseTakePool, CloseKill, CloseGivesUp, EndSession, Owed
<1>24. CASE Lose
  BY <1>24 DEF Lose, EndSession, Owed
<1>25. CASE LoseReply
  BY <1>25 DEF LoseReply, Owed, TxAfter, Fate
<1>26. CASE Disconnect
  BY <1>26 DEF Disconnect, EndSession, Owed
<1>27. CASE UNCHANGED vars
  BY <1>27 DEF vars
<1> QED
    BY <1>1, <1>2, <1>3, <1>4, <1>5, <1>6, <1>7, <1>8, <1>9, <1>10, <1>11,
     <1>12, <1>13, <1>14, <1>15, <1>16, <1>17, <1>18, <1>19, <1>20, <1>21,
     <1>22, <1>23, <1>24, <1>25, <1>26, <1>27
  DEF Next, Progress, Server

\* Without a cancel nothing kills a statement.
LEMMA KilledStep ==
    ASSUME TypeOK, KilledInv, [Next]_vars
    PROVE  KilledInv'
<1> USE EditorAssumption DEF editor, locals, server, closing, cancels, bounds, history, Goto,
           TypeOK, CommandType, EditorType, ServerType, HistoryType, LockInv, Preparing, Body, Holding,
           KilledInv
<1>1. ASSUME NEW p \in Commands, Start(p) PROVE KilledInv'
  BY <1>1 DEF Start
<1>2. ASSUME NEW p \in Commands, TakeLock(p) PROVE KilledInv'
  BY <1>2 DEF TakeLock
<1>3. ASSUME NEW p \in Commands, PingAnswers(p) PROVE KilledInv'
  BY <1>3 DEF PingAnswers
<1>4. ASSUME NEW p \in Commands, PingFails(p) PROVE KilledInv'
  BY <1>4 DEF PingFails, EndSession, Owed
<1>5. ASSUME NEW p \in Commands, Connect(p) PROVE KilledInv'
  BY <1>5 DEF Connect
<1>6. ASSUME NEW p \in Commands, ConnectFails(p) PROVE KilledInv'
  BY <1>6 DEF ConnectFails, Release
<1>7. ASSUME NEW p \in Commands, StoreId(p) PROVE KilledInv'
  BY <1>7 DEF StoreId
<1>8. ASSUME NEW p \in Commands, CheckSlot(p) PROVE KilledInv'
  BY <1>8 DEF CheckSlot, EnterBody, Release
<1>9. ASSUME NEW p \in Commands, Reopened(p) PROVE KilledInv'
  BY <1>9 DEF Reopened, EnterBody, BackInDatabase
<1>10. ASSUME NEW p \in Commands, TellRolledBack(p) PROVE KilledInv'
  BY <1>10 DEF TellRolledBack, BackInDatabase, Release
<1>11. ASSUME NEW p \in Commands, TellDatabaseGone(p) PROVE KilledInv'
  BY <1>11 DEF TellDatabaseGone, Release
<1>12. ASSUME NEW p \in Commands, Clear(p) PROVE KilledInv'
  BY <1>12 DEF Clear
<1>13. ASSUME NEW p \in Commands, CheckMark(p) PROVE KilledInv'
  BY <1>13 DEF CheckMark
<1>14. ASSUME NEW p \in Commands, Send(p) PROVE KilledInv'
  BY <1>14 DEF Send
<1>15. ASSUME NEW p \in Commands, ReplyOk(p) PROVE KilledInv'
  BY <1>15 DEF ReplyOk, AfterStatement
<1>16. ASSUME NEW p \in Commands, ReplyFails(p) PROVE KilledInv'
  BY <1>16 DEF ReplyFails, AfterStatement
<1>17. ASSUME NEW p \in Commands, Settle(p) PROVE KilledInv'
  BY <1>17 DEF Settle, Release
<1>18. ASSUME NEW p \in Commands, SettleLost(p) PROVE KilledInv'
  BY <1>18 DEF SettleLost, Release, EndSession, Owed
<1>19. ASSUME NEW p \in Commands, WhereAnswers(p) PROVE KilledInv'
  BY <1>19 DEF WhereAnswers, Release
<1>20. ASSUME NEW p \in Commands, WhereFails(p) PROVE KilledInv'
  BY <1>20 DEF WhereFails, Release
<1>21. ASSUME NEW p \in Commands, Note(p) PROVE KilledInv'
  BY <1>21 DEF Note
<1>22. ASSUME NEW x \in Cancels, Cancel(x) PROVE KilledInv'
  BY <1>22 DEF Cancel, CancelMark, CancelReadId, CancelConnect, CancelKill, Executing
<1>23. CASE Close
  BY <1>23 DEF Close, CloseSlot, CloseReadId, CloseTakePool, CloseKill, CloseGivesUp, EndSession, Owed
<1>24. CASE Lose
  BY <1>24 DEF Lose, EndSession, Owed
<1>25. CASE LoseReply
  BY <1>25 DEF LoseReply, Owed, TxAfter, Fate
<1>26. CASE Disconnect
  BY <1>26 DEF Disconnect, EndSession, Owed
<1>27. CASE UNCHANGED vars
  BY <1>27 DEF vars
<1> QED
    BY <1>1, <1>2, <1>3, <1>4, <1>5, <1>6, <1>7, <1>8, <1>9, <1>10, <1>11,
     <1>12, <1>13, <1>14, <1>15, <1>16, <1>17, <1>18, <1>19, <1>20, <1>21,
     <1>22, <1>23, <1>24, <1>25, <1>26, <1>27
  DEF Next, Progress, Server

\* Every way out of a body leaves the mark as the server has it.
LEMMA MarkStep ==
    ASSUME TypeOK, LockInv, LossInv, ReopenedInv, KilledInv, MarkInv,
           Cancels = {}, [Next]_vars
    PROVE  MarkFollowsServer'
<1> USE EditorAssumption DEF editor, locals, server, closing, cancels, bounds, history, Goto,
           TypeOK, CommandType, EditorType, ServerType, HistoryType, LockInv, Preparing, Body, Holding,
           LossInv, LocalsInv, SettledInv, Reopening, ReopenedInv, KilledInv, MarkInv, MarkFollowsServer, MarkUntilBody
<1>1. ASSUME NEW p \in Commands, Start(p) PROVE MarkFollowsServer'
  BY <1>1 DEF Start
<1>2. ASSUME NEW p \in Commands, TakeLock(p) PROVE MarkFollowsServer'
  BY <1>2 DEF TakeLock
<1>3. ASSUME NEW p \in Commands, PingAnswers(p) PROVE MarkFollowsServer'
  BY <1>3 DEF PingAnswers
<1>4. ASSUME NEW p \in Commands, PingFails(p) PROVE MarkFollowsServer'
  BY <1>4 DEF PingFails, EndSession, Owed
<1>5. ASSUME NEW p \in Commands, Connect(p) PROVE MarkFollowsServer'
  BY <1>5 DEF Connect
<1>6. ASSUME NEW p \in Commands, ConnectFails(p) PROVE MarkFollowsServer'
  BY <1>6 DEF ConnectFails, Release
<1>7. ASSUME NEW p \in Commands, StoreId(p) PROVE MarkFollowsServer'
  BY <1>7 DEF StoreId
<1>8. ASSUME NEW p \in Commands, CheckSlot(p) PROVE MarkFollowsServer'
  BY <1>8 DEF CheckSlot, EnterBody, Release
<1>9. ASSUME NEW p \in Commands, Reopened(p) PROVE MarkFollowsServer'
  BY <1>9 DEF Reopened, EnterBody, BackInDatabase
<1>10. ASSUME NEW p \in Commands, TellRolledBack(p) PROVE MarkFollowsServer'
  BY <1>10 DEF TellRolledBack, BackInDatabase, Release
<1>11. ASSUME NEW p \in Commands, TellDatabaseGone(p) PROVE MarkFollowsServer'
  BY <1>11 DEF TellDatabaseGone, Release
<1>12. ASSUME NEW p \in Commands, Clear(p) PROVE MarkFollowsServer'
  BY <1>12 DEF Clear
<1>13. ASSUME NEW p \in Commands, CheckMark(p) PROVE MarkFollowsServer'
  BY <1>13 DEF CheckMark
<1>14. ASSUME NEW p \in Commands, Send(p) PROVE MarkFollowsServer'
  BY <1>14 DEF Send
<1>15. ASSUME NEW p \in Commands, ReplyOk(p) PROVE MarkFollowsServer'
  BY <1>15 DEF ReplyOk, AfterStatement
<1>16. ASSUME NEW p \in Commands, ReplyFails(p) PROVE MarkFollowsServer'
  BY <1>16 DEF ReplyFails, AfterStatement
<1>17. ASSUME NEW p \in Commands, Settle(p) PROVE MarkFollowsServer'
  BY <1>17 DEF Settle, Release
<1>18. ASSUME NEW p \in Commands, SettleLost(p) PROVE MarkFollowsServer'
  BY <1>18 DEF SettleLost, Release, EndSession, Owed
<1>19. ASSUME NEW p \in Commands, WhereAnswers(p) PROVE MarkFollowsServer'
  BY <1>19 DEF WhereAnswers, Release
<1>20. ASSUME NEW p \in Commands, WhereFails(p) PROVE MarkFollowsServer'
  BY <1>20 DEF WhereFails, Release
<1>21. ASSUME NEW p \in Commands, Note(p) PROVE MarkFollowsServer'
  BY <1>21 DEF Note
<1>22. ASSUME NEW x \in Cancels, Cancel(x) PROVE MarkFollowsServer'
  BY <1>22 DEF Cancel, CancelMark, CancelReadId, CancelConnect, CancelKill, Executing
<1>23. CASE Close
  BY <1>23 DEF Close, CloseSlot, CloseReadId, CloseTakePool, CloseKill, CloseGivesUp, EndSession, Owed
<1>24. CASE Lose
  BY <1>24 DEF Lose, EndSession, Owed
<1>25. CASE LoseReply
  BY <1>25 DEF LoseReply, Owed, TxAfter, Fate
<1>26. CASE Disconnect
  BY <1>26 DEF Disconnect, EndSession, Owed
<1>27. CASE UNCHANGED vars
  BY <1>27 DEF vars
<1> QED
    BY <1>1, <1>2, <1>3, <1>4, <1>5, <1>6, <1>7, <1>8, <1>9, <1>10, <1>11,
     <1>12, <1>13, <1>14, <1>15, <1>16, <1>17, <1>18, <1>19, <1>20, <1>21,
     <1>22, <1>23, <1>24, <1>25, <1>26, <1>27
  DEF Next, Progress, Server

\* Nothing changes the mark or the transaction between the lock and the body.
LEMMA MarkUntilStep ==
    ASSUME TypeOK, LockInv, LossInv, ReopenedInv, KilledInv, MarkInv,
           Cancels = {}, [Next]_vars
    PROVE  MarkUntilBody'
<1> USE EditorAssumption DEF editor, locals, server, closing, cancels, bounds, history, Goto,
           TypeOK, CommandType, EditorType, ServerType, HistoryType, LockInv, Preparing, Body, Holding,
           LossInv, LocalsInv, SettledInv, Reopening, ReopenedInv, KilledInv, MarkInv, MarkFollowsServer, MarkUntilBody
<1>1. ASSUME NEW p \in Commands, Start(p) PROVE MarkUntilBody'
  BY <1>1 DEF Start
<1>2. ASSUME NEW p \in Commands, TakeLock(p) PROVE MarkUntilBody'
  BY <1>2 DEF TakeLock
<1>3. ASSUME NEW p \in Commands, PingAnswers(p) PROVE MarkUntilBody'
  BY <1>3 DEF PingAnswers
<1>4. ASSUME NEW p \in Commands, PingFails(p) PROVE MarkUntilBody'
  BY <1>4 DEF PingFails, EndSession, Owed
<1>5. ASSUME NEW p \in Commands, Connect(p) PROVE MarkUntilBody'
  BY <1>5 DEF Connect
<1>6. ASSUME NEW p \in Commands, ConnectFails(p) PROVE MarkUntilBody'
  BY <1>6 DEF ConnectFails, Release
<1>7. ASSUME NEW p \in Commands, StoreId(p) PROVE MarkUntilBody'
  BY <1>7 DEF StoreId
<1>8. ASSUME NEW p \in Commands, CheckSlot(p) PROVE MarkUntilBody'
  BY <1>8 DEF CheckSlot, EnterBody, Release
<1>9. ASSUME NEW p \in Commands, Reopened(p) PROVE MarkUntilBody'
  BY <1>9 DEF Reopened, EnterBody, BackInDatabase
<1>10. ASSUME NEW p \in Commands, TellRolledBack(p) PROVE MarkUntilBody'
  BY <1>10 DEF TellRolledBack, BackInDatabase, Release
<1>11. ASSUME NEW p \in Commands, TellDatabaseGone(p) PROVE MarkUntilBody'
  BY <1>11 DEF TellDatabaseGone, Release
<1>12. ASSUME NEW p \in Commands, Clear(p) PROVE MarkUntilBody'
  BY <1>12 DEF Clear
<1>13. ASSUME NEW p \in Commands, CheckMark(p) PROVE MarkUntilBody'
  BY <1>13 DEF CheckMark
<1>14. ASSUME NEW p \in Commands, Send(p) PROVE MarkUntilBody'
  BY <1>14 DEF Send
<1>15. ASSUME NEW p \in Commands, ReplyOk(p) PROVE MarkUntilBody'
  BY <1>15 DEF ReplyOk, AfterStatement
<1>16. ASSUME NEW p \in Commands, ReplyFails(p) PROVE MarkUntilBody'
  BY <1>16 DEF ReplyFails, AfterStatement
<1>17. ASSUME NEW p \in Commands, Settle(p) PROVE MarkUntilBody'
  BY <1>17 DEF Settle, Release
<1>18. ASSUME NEW p \in Commands, SettleLost(p) PROVE MarkUntilBody'
  BY <1>18 DEF SettleLost, Release, EndSession, Owed
<1>19. ASSUME NEW p \in Commands, WhereAnswers(p) PROVE MarkUntilBody'
  BY <1>19 DEF WhereAnswers, Release
<1>20. ASSUME NEW p \in Commands, WhereFails(p) PROVE MarkUntilBody'
  BY <1>20 DEF WhereFails, Release
<1>21. ASSUME NEW p \in Commands, Note(p) PROVE MarkUntilBody'
  BY <1>21 DEF Note
<1>22. ASSUME NEW x \in Cancels, Cancel(x) PROVE MarkUntilBody'
  BY <1>22 DEF Cancel, CancelMark, CancelReadId, CancelConnect, CancelKill, Executing
<1>23. CASE Close
  BY <1>23 DEF Close, CloseSlot, CloseReadId, CloseTakePool, CloseKill, CloseGivesUp, EndSession, Owed
<1>24. CASE Lose
  BY <1>24 DEF Lose, EndSession, Owed
<1>25. CASE LoseReply
  BY <1>25 DEF LoseReply, Owed, TxAfter, Fate
<1>26. CASE Disconnect
  BY <1>26 DEF Disconnect, EndSession, Owed
<1>27. CASE UNCHANGED vars
  BY <1>27 DEF vars
<1> QED
    BY <1>1, <1>2, <1>3, <1>4, <1>5, <1>6, <1>7, <1>8, <1>9, <1>10, <1>11,
     <1>12, <1>13, <1>14, <1>15, <1>16, <1>17, <1>18, <1>19, <1>20, <1>21,
     <1>22, <1>23, <1>24, <1>25, <1>26, <1>27
  DEF Next, Progress, Server


LEMMA InitMark == Init => ReopenedInv /\ KilledInv /\ MarkInv
<1> SUFFICES ASSUME Init PROVE ReopenedInv /\ KilledInv /\ MarkInv
  OBVIOUS
<1> USE DEF Init
<1>1. ReopenedInv /\ KilledInv
  BY DEF ReopenedInv, KilledInv, Reopening
<1>2. MarkInv
  BY DEF MarkInv, MarkFollowsServer, MarkUntilBody
<1> QED
  BY <1>1, <1>2

\* A connection opened again is a new session, and only cancels kill.
THEOREM ReopenedInvariance == Spec => [](IInv /\ LossInv /\ ReopenedInv /\ KilledInv)
<1>1. Init => ReopenedInv /\ KilledInv
  BY InitMark
<1>2. IInv /\ LossInv /\ ReopenedInv /\ KilledInv /\ [Next]_vars => ReopenedInv' /\ KilledInv'
  BY ReopenedStep, KilledStep DEF IInv
<1> QED
  BY LossInvariance, <1>1, <1>2, PTL DEF Spec

\* With nobody on the connection the transaction mark says what the server
\* would (editor.rs: run, in_transaction), however many commands there are,
\* as long as nothing is cancelled: a KILL QUERY that reaches the SELECT
\* DATABASE() after a script leaves an error, and with it an empty mark.
THEOREM MarkIsTrue == ASSUME Cancels = {} PROVE Spec => []MarkFollowsServer
<1>1. Init => MarkInv
  BY InitMark
<1>2. IInv /\ LossInv /\ ReopenedInv /\ KilledInv /\ MarkInv /\ [Next]_vars => MarkInv'
  BY MarkStep, MarkUntilStep DEF IInv, MarkInv
<1>3. MarkInv => MarkFollowsServer
  BY DEF MarkInv
<1> QED
  BY ReopenedInvariance, <1>1, <1>2, <1>3, PTL DEF Spec

---------------------------------------------------------------------------
(* The database a body starts in                                            *)

\* Commands run one at a time: the only one notes its database before the next.
OneCommand == \A p, q \in Commands : p = q

\* Outside a script's body the connection in the slot is in the picked
\* database, and so is the editor's note of it once note_database has run.
PickedInv ==
    /\ (\A p \in Commands : pc[p] # "note") => database = picked
    /\ \A p \in Commands : pc[p] = "note" => seen[p] = picked
    /\ live /\ held = opened /\ holder = NoCommand => db = picked
    /\ \A p \in Commands : live /\ (pc[p] = "ping" \/ (pc[p] = "check" /\ ~fresh)) => db = picked

\* A button's statement leaves the database alone.
ButtonInv ==
    \A p \in Commands : ~job[p].console =>
       /\ live /\ pc[p] \in Body => db = picked
       /\ pc[p] \in {"wait", "send", "reply"} \cup Preparing => Head(job[p].todo) \notin {"use", "home"}

\* The database is read from the connection and noted before the next command.
LEMMA PickedStep ==
    ASSUME TypeOK, LockInv, LossInv, ReopenedInv, KilledInv, PickedInv, ButtonInv,
           OneCommand, Cancels = {}, [Next]_vars
    PROVE  PickedInv'
<1> USE EditorAssumption DEF editor, locals, server, closing, cancels, bounds, history, Goto,
           TypeOK, CommandType, EditorType, ServerType, HistoryType, LockInv, Preparing, Body, Holding,
           LossInv, LocalsInv, SettledInv, Reopening, ReopenedInv, KilledInv, PickedInv, ButtonInv, OneCommand
<1>1. ASSUME NEW p \in Commands, Start(p) PROVE PickedInv'
  BY <1>1 DEF Start
<1>2. ASSUME NEW p \in Commands, TakeLock(p) PROVE PickedInv'
  BY <1>2 DEF TakeLock
<1>3. ASSUME NEW p \in Commands, PingAnswers(p) PROVE PickedInv'
  BY <1>3 DEF PingAnswers
<1>4. ASSUME NEW p \in Commands, PingFails(p) PROVE PickedInv'
  BY <1>4 DEF PingFails, EndSession, Owed
<1>5. ASSUME NEW p \in Commands, Connect(p) PROVE PickedInv'
  BY <1>5 DEF Connect
<1>6. ASSUME NEW p \in Commands, ConnectFails(p) PROVE PickedInv'
  BY <1>6 DEF ConnectFails, Release
<1>7. ASSUME NEW p \in Commands, StoreId(p) PROVE PickedInv'
  BY <1>7 DEF StoreId
<1>8. ASSUME NEW p \in Commands, CheckSlot(p) PROVE PickedInv'
  BY <1>8 DEF CheckSlot, EnterBody, Release
<1>9. ASSUME NEW p \in Commands, Reopened(p) PROVE PickedInv'
  BY <1>9 DEF Reopened, EnterBody, BackInDatabase
<1>10. ASSUME NEW p \in Commands, TellRolledBack(p) PROVE PickedInv'
  BY <1>10 DEF TellRolledBack, BackInDatabase, Release
<1>11. ASSUME NEW p \in Commands, TellDatabaseGone(p) PROVE PickedInv'
  BY <1>11 DEF TellDatabaseGone, Release
<1>12. ASSUME NEW p \in Commands, Clear(p) PROVE PickedInv'
  BY <1>12 DEF Clear
<1>13. ASSUME NEW p \in Commands, CheckMark(p) PROVE PickedInv'
  BY <1>13 DEF CheckMark
<1>14. ASSUME NEW p \in Commands, Send(p) PROVE PickedInv'
  BY <1>14 DEF Send
<1>15. ASSUME NEW p \in Commands, ReplyOk(p) PROVE PickedInv'
  BY <1>15 DEF ReplyOk, AfterStatement
<1>16. ASSUME NEW p \in Commands, ReplyFails(p) PROVE PickedInv'
  BY <1>16 DEF ReplyFails, AfterStatement
<1>17. ASSUME NEW p \in Commands, Settle(p) PROVE PickedInv'
  BY <1>17 DEF Settle, Release
<1>18. ASSUME NEW p \in Commands, SettleLost(p) PROVE PickedInv'
  BY <1>18 DEF SettleLost, Release, EndSession, Owed
<1>19. ASSUME NEW p \in Commands, WhereAnswers(p) PROVE PickedInv'
  BY <1>19 DEF WhereAnswers, Release
<1>20. ASSUME NEW p \in Commands, WhereFails(p) PROVE PickedInv'
  BY <1>20 DEF WhereFails, Release
<1>21. ASSUME NEW p \in Commands, Note(p) PROVE PickedInv'
  BY <1>21 DEF Note
<1>22. ASSUME NEW x \in Cancels, Cancel(x) PROVE PickedInv'
  BY <1>22 DEF Cancel, CancelMark, CancelReadId, CancelConnect, CancelKill, Executing
<1>23. CASE Close
  BY <1>23 DEF Close, CloseSlot, CloseReadId, CloseTakePool, CloseKill, CloseGivesUp, EndSession, Owed
<1>24. CASE Lose
  BY <1>24 DEF Lose, EndSession, Owed
<1>25. CASE LoseReply
  BY <1>25 DEF LoseReply, Owed, TxAfter, Fate
<1>26. CASE Disconnect
  BY <1>26 DEF Disconnect, EndSession, Owed
<1>27. CASE UNCHANGED vars
  BY <1>27 DEF vars
<1> QED
    BY <1>1, <1>2, <1>3, <1>4, <1>5, <1>6, <1>7, <1>8, <1>9, <1>10, <1>11,
     <1>12, <1>13, <1>14, <1>15, <1>16, <1>17, <1>18, <1>19, <1>20, <1>21,
     <1>22, <1>23, <1>24, <1>25, <1>26, <1>27
  DEF Next, Progress, Server

\* A button runs its one statement where the command found the editor.
LEMMA ButtonStep ==
    ASSUME TypeOK, LockInv, LossInv, ReopenedInv, KilledInv, PickedInv, ButtonInv,
           OneCommand, Cancels = {}, [Next]_vars
    PROVE  ButtonInv'
<1> USE EditorAssumption DEF editor, locals, server, closing, cancels, bounds, history, Goto,
           TypeOK, CommandType, EditorType, ServerType, HistoryType, LockInv, Preparing, Body, Holding,
           LossInv, LocalsInv, SettledInv, Reopening, ReopenedInv, KilledInv, PickedInv, ButtonInv, OneCommand, Job
<1>1. ASSUME NEW p \in Commands, Start(p) PROVE ButtonInv'
  BY <1>1 DEF Start
<1>2. ASSUME NEW p \in Commands, TakeLock(p) PROVE ButtonInv'
  BY <1>2 DEF TakeLock
<1>3. ASSUME NEW p \in Commands, PingAnswers(p) PROVE ButtonInv'
  BY <1>3 DEF PingAnswers
<1>4. ASSUME NEW p \in Commands, PingFails(p) PROVE ButtonInv'
  BY <1>4 DEF PingFails, EndSession, Owed
<1>5. ASSUME NEW p \in Commands, Connect(p) PROVE ButtonInv'
  BY <1>5 DEF Connect
<1>6. ASSUME NEW p \in Commands, ConnectFails(p) PROVE ButtonInv'
  BY <1>6 DEF ConnectFails, Release
<1>7. ASSUME NEW p \in Commands, StoreId(p) PROVE ButtonInv'
  BY <1>7 DEF StoreId
<1>8. ASSUME NEW p \in Commands, CheckSlot(p) PROVE ButtonInv'
  BY <1>8 DEF CheckSlot, EnterBody, Release
<1>9. ASSUME NEW p \in Commands, Reopened(p) PROVE ButtonInv'
  BY <1>9 DEF Reopened, EnterBody, BackInDatabase
<1>10. ASSUME NEW p \in Commands, TellRolledBack(p) PROVE ButtonInv'
  BY <1>10 DEF TellRolledBack, BackInDatabase, Release
<1>11. ASSUME NEW p \in Commands, TellDatabaseGone(p) PROVE ButtonInv'
  BY <1>11 DEF TellDatabaseGone, Release
<1>12. ASSUME NEW p \in Commands, Clear(p) PROVE ButtonInv'
  BY <1>12 DEF Clear
<1>13. ASSUME NEW p \in Commands, CheckMark(p) PROVE ButtonInv'
  BY <1>13 DEF CheckMark
<1>14. ASSUME NEW p \in Commands, Send(p) PROVE ButtonInv'
  BY <1>14 DEF Send
<1>15. ASSUME NEW p \in Commands, ReplyOk(p) PROVE ButtonInv'
  BY <1>15 DEF ReplyOk, AfterStatement, DbAfter
<1>16. ASSUME NEW p \in Commands, ReplyFails(p) PROVE ButtonInv'
  BY <1>16 DEF ReplyFails, AfterStatement
<1>17. ASSUME NEW p \in Commands, Settle(p) PROVE ButtonInv'
  BY <1>17 DEF Settle, Release
<1>18. ASSUME NEW p \in Commands, SettleLost(p) PROVE ButtonInv'
  BY <1>18 DEF SettleLost, Release, EndSession, Owed
<1>19. ASSUME NEW p \in Commands, WhereAnswers(p) PROVE ButtonInv'
  BY <1>19 DEF WhereAnswers, Release
<1>20. ASSUME NEW p \in Commands, WhereFails(p) PROVE ButtonInv'
  BY <1>20 DEF WhereFails, Release
<1>21. ASSUME NEW p \in Commands, Note(p) PROVE ButtonInv'
  BY <1>21 DEF Note
<1>22. ASSUME NEW x \in Cancels, Cancel(x) PROVE ButtonInv'
  BY <1>22 DEF Cancel, CancelMark, CancelReadId, CancelConnect, CancelKill, Executing
<1>23. CASE Close
  BY <1>23 DEF Close, CloseSlot, CloseReadId, CloseTakePool, CloseKill, CloseGivesUp, EndSession, Owed
<1>24. CASE Lose
  BY <1>24 DEF Lose, EndSession, Owed
<1>25. CASE LoseReply
  BY <1>25 DEF LoseReply, Owed, TxAfter, Fate
<1>26. CASE Disconnect
  BY <1>26 DEF Disconnect, EndSession, Owed
<1>27. CASE UNCHANGED vars
  BY <1>27 DEF vars
<1> QED
    BY <1>1, <1>2, <1>3, <1>4, <1>5, <1>6, <1>7, <1>8, <1>9, <1>10, <1>11,
     <1>12, <1>13, <1>14, <1>15, <1>16, <1>17, <1>18, <1>19, <1>20, <1>21,
     <1>22, <1>23, <1>24, <1>25, <1>26, <1>27
  DEF Next, Progress, Server

\* A command enters its body from the check of a connection that was kept, or
\* from the USE of one it opened.
LEMMA EntersPicked ==
    ASSUME TypeOK, LockInv, LossInv, PickedInv, ButtonInv, OneCommand, [Next]_vars
    PROVE  \A c \in Commands : Enters(c) /\ live => db' = picked
<1> DEFINE There == \A c \in Commands : Enters(c) /\ live => db' = picked
<1> USE EditorAssumption DEF editor, locals, server, closing, cancels, bounds, history, Goto,
           TypeOK, CommandType, EditorType, ServerType, HistoryType, LockInv, Preparing, Body, Holding,
           PickedInv, ButtonInv, OneCommand, Enters, LossInv, LocalsInv
<1>1. ASSUME NEW p \in Commands, Start(p) PROVE There
  BY <1>1 DEF Start
<1>2. ASSUME NEW p \in Commands, TakeLock(p) PROVE There
  BY <1>2 DEF TakeLock
<1>3. ASSUME NEW p \in Commands, PingAnswers(p) PROVE There
  BY <1>3 DEF PingAnswers
<1>4. ASSUME NEW p \in Commands, PingFails(p) PROVE There
  BY <1>4 DEF PingFails, EndSession, Owed
<1>5. ASSUME NEW p \in Commands, Connect(p) PROVE There
  BY <1>5 DEF Connect
<1>6. ASSUME NEW p \in Commands, ConnectFails(p) PROVE There
  BY <1>6 DEF ConnectFails, Release
<1>7. ASSUME NEW p \in Commands, StoreId(p) PROVE There
  BY <1>7 DEF StoreId
<1>8. ASSUME NEW p \in Commands, CheckSlot(p) PROVE There
  BY <1>8 DEF CheckSlot, EnterBody, Release
<1>9. ASSUME NEW p \in Commands, Reopened(p) PROVE There
  BY <1>9 DEF Reopened, EnterBody, BackInDatabase
<1>10. ASSUME NEW p \in Commands, TellRolledBack(p) PROVE There
  BY <1>10 DEF TellRolledBack, BackInDatabase, Release
<1>11. ASSUME NEW p \in Commands, TellDatabaseGone(p) PROVE There
  BY <1>11 DEF TellDatabaseGone, Release
<1>12. ASSUME NEW p \in Commands, Clear(p) PROVE There
  BY <1>12 DEF Clear
<1>13. ASSUME NEW p \in Commands, CheckMark(p) PROVE There
  BY <1>13 DEF CheckMark
<1>14. ASSUME NEW p \in Commands, Send(p) PROVE There
  BY <1>14 DEF Send
<1>15. ASSUME NEW p \in Commands, ReplyOk(p) PROVE There
  BY <1>15 DEF ReplyOk, AfterStatement
<1>16. ASSUME NEW p \in Commands, ReplyFails(p) PROVE There
  BY <1>16 DEF ReplyFails, AfterStatement
<1>17. ASSUME NEW p \in Commands, Settle(p) PROVE There
  BY <1>17 DEF Settle, Release
<1>18. ASSUME NEW p \in Commands, SettleLost(p) PROVE There
  BY <1>18 DEF SettleLost, Release, EndSession, Owed
<1>19. ASSUME NEW p \in Commands, WhereAnswers(p) PROVE There
  BY <1>19 DEF WhereAnswers, Release
<1>20. ASSUME NEW p \in Commands, WhereFails(p) PROVE There
  BY <1>20 DEF WhereFails, Release
<1>21. ASSUME NEW p \in Commands, Note(p) PROVE There
  BY <1>21 DEF Note
<1>22. ASSUME NEW x \in Cancels, Cancel(x) PROVE There
  BY <1>22 DEF Cancel, CancelMark, CancelReadId, CancelConnect, CancelKill, Executing
<1>23. CASE Close
  BY <1>23 DEF Close, CloseSlot, CloseReadId, CloseTakePool, CloseKill, CloseGivesUp, EndSession, Owed
<1>24. CASE Lose
  BY <1>24 DEF Lose, EndSession, Owed
<1>25. CASE LoseReply
  BY <1>25 DEF LoseReply, Owed, TxAfter, Fate
<1>26. CASE Disconnect
  BY <1>26 DEF Disconnect, EndSession, Owed
<1>27. CASE UNCHANGED vars
  BY <1>27 DEF vars
<1> QED
    BY <1>1, <1>2, <1>3, <1>4, <1>5, <1>6, <1>7, <1>8, <1>9, <1>10, <1>11,
     <1>12, <1>13, <1>14, <1>15, <1>16, <1>17, <1>18, <1>19, <1>20, <1>21,
     <1>22, <1>23, <1>24, <1>25, <1>26, <1>27
  DEF Next, Progress, Server

\* One command after another, none cancelled: a body starts in the database
\* the last script left the editor in, also on a connection opened again
\* (editor.rs: run; console.rs: execute).  Two tabs can note their databases
\* in either order.
THEOREM StartsInPickedDatabase ==
    ASSUME OneCommand, Cancels = {} PROVE Spec => BodiesStartInPickedDatabase
<1> DEFINE There == \A p \in Commands : Enters(p) /\ live => db' = picked
<1>1. Init => PickedInv /\ ButtonInv
  BY DEF Init, PickedInv, ButtonInv, Preparing, Body
<1>2. IInv /\ LossInv /\ ReopenedInv /\ KilledInv /\ PickedInv /\ ButtonInv /\ [Next]_vars
        => PickedInv' /\ ButtonInv'
  BY PickedStep, ButtonStep DEF IInv
<1>3. IInv /\ LossInv /\ PickedInv /\ ButtonInv /\ [Next]_vars => [There]_vars
  BY EntersPicked DEF IInv
<1> QED
  BY ReopenedInvariance, <1>1, <1>2, <1>3, PTL DEF Spec, BodiesStartInPickedDatabase

=============================================================================
