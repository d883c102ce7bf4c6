------------------------------ MODULE RowEdits ------------------------------
(***************************************************************************)
(* One edit of a table's rows from the grid: saving changed rows, deleting  *)
(* rows, importing rows and inserting one, on each kind of table            *)
(* (mysql_common/data.rs, postgres/data.rs, sqlite/data.rs), while other    *)
(* clients add rows and take them away.                                     *)
(*                                                                         *)
(* What the rows hold is left out: a row is found by the key the grid read, *)
(* or it isn't any more.                                                    *)
(***************************************************************************)
EXTENDS Naturals, Sequences, FiniteSets

CONSTANTS
    Keys,    \* the keys of rows in the grid; of an import, its rows
    Rows,    \* rows of the table
    KeyOf,   \* the key that finds each row; some tables let rows share one
    Batch,   \* rows of one DELETE or of one INSERT of an import (DELETE_BATCH)
    MaxItems,\* bound: rows of an edit
    MaxOther \* bound: rows other clients touch

ASSUME RowAssumption ==
    /\ IsFiniteSet(Keys) /\ IsFiniteSet(Rows) /\ Keys \cap Rows = {}
    /\ KeyOf \in [Rows -> Keys]
    /\ Batch \in Nat \ {0} /\ MaxItems \in Nat /\ MaxOther \in Nat

Engines == {"sqlite", "postgres", "innodb", "myisam"}
Ops == {"save", "delete", "import", "insert"}
Answers == [said : {"nothing", "already", "ok"}, n : Nat]
             \cup {[said |-> s, n |-> 0] : s \in {"waiting", "error"}}

VARIABLES
    engine,  \* the engine of the table
    op,      \* what is asked
    items,   \* the keys of the rows it is asked for, in order
    bad,     \* the place of an item the SQL can't be built for, 0 for none
    pc,
    next,    \* the place of the first item that wasn't tried yet
    txn,     \* a transaction is open
    present, \* the rows of the table that their key finds
    done,    \* what the open transaction wrote: rows of the table, imported rows
    kept,    \* what was written to stay
    count,   \* the rows the statements said they matched
    touched, \* the rows other clients changed meanwhile
    stray,   \* a statement that failed left rows written
    unsure,  \* the connection was lost after something that may have stayed
    answer   \* what the person is told

asked == <<engine, op, items, bad>>
vars == <<asked, pc, next, txn, present, done, kept, count, touched, stray, unsure, answer>>

Items == {items[i] : i \in 1..Len(items)}

\* The variables keep their types.
TypeOK ==
    /\ engine \in Engines /\ op \in Ops
    /\ items \in Seq(Keys) /\ bad \in Nat
    /\ pc \in {"check", "begin", "run", "undo", "end"}
    /\ next \in Nat \ {0} /\ count \in Nat
    /\ txn \in BOOLEAN /\ stray \in BOOLEAN /\ unsure \in BOOLEAN
    /\ present \subseteq Rows /\ touched \subseteq Rows
    /\ done \subseteq Rows \cup Keys /\ kept \subseteq Rows \cup Keys
    /\ answer \in Answers

Injective(s) == \A i, j \in DOMAIN s : s[i] = s[j] => i = j

Init ==
    /\ engine \in Engines /\ op \in Ops
    /\ \E n \in 1..MaxItems : items \in {s \in [1..n -> Keys] : Injective(s)}
    /\ op = "insert" => Len(items) = 1
    /\ bad \in 0..Len(items)
    /\ pc = "check" /\ next = 1 /\ txn = FALSE
    /\ present \in SUBSET Rows
    /\ done = {} /\ kept = {} /\ count = 0 /\ touched = {}
    /\ stray = FALSE /\ unsure = FALSE
    /\ answer = [said |-> "waiting", n |-> 0]

---------------------------------------------------------------------------
(* The statements of an edit *)

Mysql == engine \in {"innodb", "myisam"}

\* is_transactional: the engine undoes a failed transaction.
Undoes == engine # "myisam"

\* The items of one statement.  PostgreSQL deletes with one for all; a table
\* that can't undo changes takes imported rows one by one.
Size ==
    CASE op \in {"save", "insert"} -> 1
      [] op = "delete" -> IF engine = "postgres" THEN Len(items) ELSE Batch
      [] op = "import" -> IF Undoes THEN Batch ELSE 1

\* The edit opens a transaction.  MySQL deletes one batch without.
InTransaction ==
    \/ op \in {"save", "import"}
    \/ engine = "sqlite"
    \/ op = "delete" /\ Mysql /\ Len(items) > Batch

Last == IF next + Size - 1 < Len(items) THEN next + Size - 1 ELSE Len(items)
Chunk == {items[i] : i \in next..Last}

\* What the next statement writes: the rows the keys find, or new rows.
Written ==
    IF op \in {"save", "delete"} THEN {r \in present : KeyOf[r] \in Chunk} ELSE Chunk

\* The rows that are still there once w was written, and again without it.
Without(w) == IF op = "delete" THEN present \ w ELSE present
Again(w) == IF op = "delete" THEN present \cup (w \cap Rows) ELSE present

\* What a statement writes stays at once, or with the transaction.
Put(w) ==
    /\ present' = Without(w)
    /\ IF txn /\ Undoes THEN done' = done \cup w /\ UNCHANGED kept
                        ELSE kept' = kept \cup w /\ UNCHANGED done

\* The transaction ends without what it wrote.
TakeBack ==
    /\ txn' = FALSE /\ done' = {} /\ present' = Again(done)

Tell(s, n) == answer' = [said |-> s, n |-> n]

---------------------------------------------------------------------------
(* Before anything is written *)

\* MySQL builds every statement before the first one runs; the others do so for
\* deletes, imports and inserts.
ChecksFirst == Mysql \/ op # "save"

Refused ==
    /\ pc = "check" /\ ChecksFirst /\ bad # 0
    /\ Tell(IF op = "save" THEN "nothing" ELSE "error", 0)
    /\ pc' = "end"
    /\ UNCHANGED <<asked, next, txn, present, done, kept, count, touched, stray, unsure>>

Checked ==
    /\ pc = "check" /\ ~(ChecksFirst /\ bad # 0)
    /\ pc' = IF InTransaction THEN "begin" ELSE "run"
    /\ UNCHANGED <<asked, next, txn, present, done, kept, count, touched, stray, unsure, answer>>

Begun ==
    /\ pc = "begin"
    /\ txn' = TRUE /\ pc' = "run"
    /\ UNCHANGED <<asked, next, present, done, kept, count, touched, stray, unsure, answer>>

\* The file is busy, or the server can't be reached.
NotBegun ==
    /\ pc = "begin"
    /\ Tell(IF Mysql /\ op \in {"save", "import"} THEN "nothing" ELSE "error", 0)
    /\ pc' = "end"
    /\ UNCHANGED <<asked, next, txn, present, done, kept, count, touched, stray, unsure>>

---------------------------------------------------------------------------
(* The statements run *)

Running == pc = "run" /\ next <= Len(items)

\* The SQL of this change can't be built.
Unbuilt == op = "save" /\ bad = next

\* Mutant: a change counts as saved whatever it found.
AnyRowWrote ==
    /\ Running /\ ~Unbuilt
    /\ Put(Written)
    /\ count' = count + Cardinality(Written)
    /\ next' = Last + 1
    /\ UNCHANGED <<asked, pc, txn, touched, stray, unsure, answer>>

\* The statement wrote what it should.
Wrote ==
    /\ Running /\ ~Unbuilt
    /\ op = "save" => Cardinality(Written) = 1
    /\ Put(Written)
    /\ count' = count + Cardinality(Written)
    /\ next' = Last + 1
    /\ UNCHANGED <<asked, pc, txn, touched, stray, unsure, answer>>

\* A change whose row isn't found any more, or whose key finds several.
Missed ==
    /\ Running /\ ~Unbuilt
    /\ op = "save" /\ Cardinality(Written) # 1
    /\ Put(Written)
    /\ stray' = (stray \/ (~Undoes /\ Written # {}))
    /\ pc' = "undo"
    /\ UNCHANGED <<asked, next, txn, count, touched, unsure, answer>>

CantBuild ==
    /\ Running /\ Unbuilt
    /\ pc' = "undo"
    /\ UNCHANGED <<asked, next, txn, present, done, kept, count, touched, stray, unsure, answer>>

\* The statement fails and its own writes are undone: only the batches of a
\* delete can leave some, on a table that can't.
Fails ==
    /\ Running /\ ~Unbuilt
    /\ \E w \in SUBSET Written :
         /\ w = {} \/ (~Undoes /\ op = "delete")
         /\ Put(w)
         /\ stray' = (stray \/ w # {})
    /\ pc' = "undo"
    /\ UNCHANGED <<asked, next, txn, count, touched, unsure, answer>>

\* The error ends the transaction as well: a deadlock on MySQL, a full disk on SQLite.
FailsWhole ==
    /\ Running /\ ~Unbuilt /\ txn /\ Undoes
    /\ TakeBack
    /\ pc' = "undo"
    /\ UNCHANGED <<asked, next, kept, count, touched, stray, unsure, answer>>

\* The connection is lost before the statement's answer; it may have run.
Lost ==
    /\ Running /\ ~Unbuilt /\ engine # "sqlite"
    /\ txn' = FALSE /\ done' = {} /\ pc' = "undo"
    /\ \E w \in {{}, IF txn /\ Undoes THEN {} ELSE Written} :
         /\ kept' = kept \cup w
         /\ unsure' = (w # {})
         /\ present' = Again(done) \ (IF op = "delete" THEN w ELSE {})
    /\ UNCHANGED <<asked, next, count, touched, stray, answer>>

---------------------------------------------------------------------------
(* The end *)

\* SQLite only: the keys of a delete matched more rows than there are keys.
TooMany == engine = "sqlite" /\ op = "delete" /\ count > Len(items)

Overmatched ==
    /\ pc = "run" /\ next > Len(items) /\ TooMany
    /\ pc' = "undo"
    /\ UNCHANGED <<asked, next, txn, present, done, kept, count, touched, stray, unsure, answer>>

\* Mutant: it always says that nothing was written.
NothingFailure == <<"nothing", 0>>

\* What an edit that failed tells: nothing was written, or how much was already.
Failure ==
    CASE op = "save" /\ (Undoes \/ next = 1) -> <<"nothing", 0>>
      [] op = "import" /\ (Undoes \/ next = 1) -> <<"nothing", 0>>
      [] op = "delete" /\ TooMany -> <<"nothing", 0>>
      [] op = "insert" \/ (op = "delete" /\ (Undoes \/ next = 1)) -> <<"error", 0>>
      [] OTHER -> <<"already", next - 1>>

\* ROLLBACK, where a transaction is left, and the answer.
Undo ==
    /\ pc = "undo"
    /\ TakeBack
    /\ Tell(Failure[1], Failure[2])
    /\ pc' = "end"
    /\ UNCHANGED <<asked, next, kept, count, touched, stray, unsure>>

Finished == pc = "run" /\ next > Len(items) /\ ~TooMany

Committed ==
    /\ Finished /\ txn
    /\ kept' = kept \cup done /\ done' = {} /\ txn' = FALSE
    /\ Tell("ok", IF op = "save" THEN Len(items) ELSE count)
    /\ pc' = "end"
    /\ UNCHANGED <<asked, next, present, count, touched, stray, unsure>>

\* A constraint is checked at the COMMIT, or readers hold the file.
CommitFailure == IF op = "save" \/ (op = "import" /\ Mysql) THEN "nothing" ELSE "error"

NotCommitted ==
    /\ Finished /\ txn /\ Undoes
    /\ TakeBack
    /\ Tell(CommitFailure, 0)
    /\ pc' = "end"
    /\ UNCHANGED <<asked, next, kept, count, touched, stray, unsure>>

\* The connection is lost with the COMMIT, before or after it took effect.
CommitLost ==
    /\ Finished /\ txn /\ engine # "sqlite"
    /\ unsure' = TRUE /\ txn' = FALSE /\ done' = {}
    /\ \/ kept' = kept \cup done /\ UNCHANGED present
       \/ present' = Again(done) /\ UNCHANGED kept
    /\ Tell(CommitFailure, 0)
    /\ pc' = "end"
    /\ UNCHANGED <<asked, next, count, touched, stray>>

\* Without a transaction there was only one statement.
Ended ==
    /\ Finished /\ ~txn
    /\ Tell("ok", count)
    /\ pc' = "end"
    /\ UNCHANGED <<asked, next, txn, present, done, kept, count, touched, stray, unsure>>

---------------------------------------------------------------------------
(* Other clients *)

\* A row the open transaction wrote is locked; SQLite locks the file.
Locked(r) == txn /\ (engine = "sqlite" \/ r \in done)

\* Another client deletes row r or changes its key, or a row with its key appears.
OtherTouches(r) ==
    /\ pc # "end" /\ ~Locked(r)
    /\ Cardinality(touched) < MaxOther
    /\ touched' = touched \cup {r}
    /\ present' = IF r \in present THEN present \ {r} ELSE present \cup {r}
    /\ UNCHANGED <<asked, pc, next, txn, done, kept, count, stray, unsure, answer>>

---------------------------------------------------------------------------
Prepares == Refused \/ Checked \/ Begun \/ NotBegun
Runs == Wrote \/ Missed \/ CantBuild \/ Fails \/ FailsWhole \/ Lost
Ends == Overmatched \/ Undo \/ Committed \/ NotCommitted \/ CommitLost \/ Ended

Next == Prepares \/ Runs \/ Ends \/ \E r \in Rows : OtherTouches(r)

Spec == Init /\ [][Next]_vars

---------------------------------------------------------------------------
(* Properties *)

KeptOf(k) == {r \in kept : r \in Rows /\ KeyOf[r] = k}

\* All of an edit: each change in exactly one row, each imported row, and every
\* chosen row deleted that nobody else touched; SQLite deletes no row more.
Whole ==
    CASE op = "save" -> \A k \in Items : Cardinality(KeptOf(k)) = 1
      [] op = "delete" -> /\ \A r \in present \ touched : KeyOf[r] \notin Items
                          /\ engine = "sqlite" => Cardinality(kept) <= Len(items)
      [] OTHER -> kept = Items

\* "all of it is written or none is" (mysql_common/data.rs, the file's head;
\* save_rows and import_rows of the others): on a table that can undo changes
\* nothing stays of an edit that didn't go through whole, whatever fails or other
\* clients do in between, a lost connection included.
AllOrNothing == Undoes /\ kept # {} => Whole

\* What is said to be saved, or deleted, when an edit stopped half way.
First(n) == {items[i] : i \in 1..n}
AlreadyWritten(n) ==
    CASE op = "save" -> /\ \A k \in First(n) : Cardinality(KeptOf(k)) = 1
                        /\ \A k \in Items \ First(n) : KeptOf(k) = {}
      [] op = "delete" -> /\ \A r \in present \ touched : KeyOf[r] \notin First(n)
                          /\ \A k \in Items \ First(n) : KeptOf(k) = {}
      [] OTHER -> kept = First(n)

\* What the person is told is true: "Nothing was saved" or imported means that
\* nothing was, "3 of 5 rows were already saved" that the first three were and no
\* other, and an answer without an error that all of it was, as many rows as it
\* says.  Unless the connection was lost with the answer to what may have stayed,
\* or a statement that failed left rows written on a table that can't undo them.
AnswerIsTrue ==
    ~unsure /\ ~stray =>
      /\ answer.said = "ok" => Whole /\ answer.n = Cardinality(kept)
      /\ answer.said = "nothing" => kept = {}
      /\ answer.said = "already" => AlreadyWritten(answer.n)
=============================================================================
