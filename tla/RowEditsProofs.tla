--------------------------- MODULE RowEditsProofs ---------------------------
(***************************************************************************)
(* Proofs about RowEdits, for any keys and rows, any sharing of keys by     *)
(* rows, any batch and any number of items and of other clients' changes.   *)
(***************************************************************************)
EXTENDS RowEdits, FiniteSetTheorems, TLAPS

\* The edit that is asked for.
Asking ==
    /\ Len(items) \in Nat \ {0} /\ items \in [1..Len(items) -> Keys]
    /\ \A i, j \in 1..Len(items) : items[i] = items[j] => i = j
    /\ op = "insert" => Len(items) = 1
    /\ next <= Len(items) + 1

\* Where a transaction is open, and what is kept meanwhile.
Steps ==
    /\ pc \in {"check", "begin"} => next = 1 /\ kept = {} /\ count = 0
    /\ pc \in {"check", "begin", "end"} => ~txn
    /\ pc = "begin" => InTransaction
    /\ pc = "run" => (txn <=> InTransaction)
    /\ ~txn => done = {}
    /\ Undoes /\ txn => kept = {}
    /\ Undoes /\ pc = "run" /\ ~txn /\ next <= Len(items) => next = 1 /\ kept = {}
    /\ ~Undoes => done = {}
    /\ pc # "end" => answer.said = "waiting"

\* What the edit wrote so far, to stay or with its transaction.
SoFar == IF txn /\ Undoes THEN done ELSE kept

\* w is what the statements for the first n items write, each all it should, and
\* rows are the rows left that nobody else touched.
Did(w, n, rows) ==
    /\ IsFiniteSet(w)
    /\ op \in {"save", "delete"} => \A r \in w : r \in Rows /\ KeyOf[r] \in First(n)
    /\ op = "save" => \A k \in First(n) : Cardinality({r \in w : r \in Rows /\ KeyOf[r] = k}) = 1
    /\ op = "delete" => \A r \in rows : KeyOf[r] \notin First(n)
    /\ op \in {"import", "insert"} => w = First(n)

\* While statements run, those so far did what they should and no more; after one
\* that failed nothing is kept, or on a table that can't undo what came before it.
Progress ==
    /\ pc = "run" => /\ Did(SoFar, next - 1, present \ touched)
                     /\ count = Cardinality(SoFar)
                     /\ op = "save" => count = next - 1
    /\ pc = "undo" /\ ~unsure =>
         /\ Undoes => kept = {}
         /\ ~Undoes /\ ~stray => Did(kept, next - 1, present \ touched)

IInv == TypeOK /\ Asking /\ Steps /\ Progress /\ AllOrNothing /\ AnswerIsTrue

---------------------------------------------------------------------------
(* The statements *)

\* A statement takes at least one item, and none past the last: one of a save or
\* an insert, all of them where there is only one statement.
LEMMA Statement ==
    ASSUME TypeOK, Asking, next <= Len(items)
    PROVE  /\ Last \in Nat /\ next <= Last /\ Last <= Len(items)
           /\ op \in {"save", "insert"} => Last = next
           /\ Undoes /\ ~InTransaction /\ next = 1 => Last = Len(items)
<1>0. next \in Nat \ {0} /\ Len(items) \in Nat /\ next <= Len(items)
  BY DEF TypeOK, Asking
<1>1. Batch \in Nat \ {0}
  BY RowAssumption
<1>2. Size \in Nat \ {0}
  BY <1>0, <1>1 DEF Size, TypeOK, Ops
<1>3. op \in {"save", "insert"} => Size = 1
  BY DEF Size
<1>4. ASSUME Undoes, ~InTransaction PROVE op \in {"delete", "insert"} /\ Size >= Len(items)
  BY <1>0, <1>1, <1>4 DEF Size, InTransaction, Undoes, Mysql, TypeOK, Asking, Engines, Ops
<1>5. Last \in Nat /\ next <= Last /\ Last <= Len(items)
  BY <1>0, <1>2 DEF Last
<1>6. op \in {"save", "insert"} => Last = next
  <2>1. ASSUME Size = 1 PROVE Last = next
    BY <1>0, <2>1 DEF Last
  <2> QED
    BY <1>3, <2>1
<1>7. Undoes /\ ~InTransaction /\ next = 1 => Last = Len(items)
  <2>1. ASSUME Size >= Len(items), next = 1 PROVE Last = Len(items)
    BY <1>0, <1>2, <2>1 DEF Last
  <2> QED
    BY <1>4, <2>1
<1> QED
  BY <1>5, <1>6, <1>7

\* The items of a statement, and of the statements up to it.
LEMMA Chunks ==
    ASSUME TypeOK, Asking, next <= Len(items)
    PROVE  /\ Chunk \subseteq Items /\ Items \subseteq Keys
           /\ First(Last) = First(next - 1) \cup Chunk
           /\ First(Last) \subseteq Items
           /\ op \in {"save", "insert"} => Chunk = {items[next]}
           /\ items[next] \notin First(next - 1) /\ Chunk \cap First(next - 1) = {}
           /\ First(Len(items)) = Items
<1> USE Statement DEF Asking, Chunk, Items, First
<1>1. next \in Nat \ {0} /\ Len(items) \in Nat
  BY DEF TypeOK
<1>2. Chunk \subseteq Items /\ Items \subseteq Keys /\ First(Last) \subseteq Items
  BY <1>1
<1>3. First(Last) = First(next - 1) \cup Chunk
  BY <1>1
<1>4. op \in {"save", "insert"} => Chunk = {items[next]}
  BY <1>1
<1>5. items[next] \notin First(next - 1)
  BY <1>1
<1>6. First(Len(items)) = Items
  OBVIOUS
<1>7. Chunk \cap First(next - 1) = {}
  <2>1. ASSUME NEW i \in next..Last, NEW j \in 1..(next - 1), items[i] = items[j] PROVE FALSE
    <3>1. i \in 1..Len(items) /\ j \in 1..Len(items) /\ i # j
      BY <1>1
    <3> QED
      BY <2>1, <3>1
  <2> QED
    BY <2>1
<1> QED
  BY <1>2, <1>3, <1>4, <1>5, <1>6, <1>7

\* What a statement writes is rows of the table, or imported ones: finitely many.
LEMMA WrittenFinite ==
    ASSUME TypeOK, Asking, next <= Len(items)
    PROVE  /\ Written \subseteq Rows \cup Keys
           /\ IsFiniteSet(Written) /\ Cardinality(Written) \in Nat
           /\ op = "delete" => Written \subseteq Rows
<1>1. Chunk \subseteq Keys /\ present \subseteq Rows
  BY Chunks DEF TypeOK
<1>2. Written \subseteq Rows \cup Keys /\ (op = "delete" => Written \subseteq Rows)
  BY <1>1 DEF Written
<1>3. IsFiniteSet(Rows \cup Keys)
  BY FS_Union, RowAssumption
<1> QED
  BY <1>2, <1>3, FS_Subset, FS_CardinalityType

\* Every answer is one of Answers.
LEMMA AnswerType ==
    ASSUME TypeOK
    PROVE  [said |-> Failure[1], n |-> Failure[2]] \in Answers
<1>1. Failure \in {<<"nothing", 0>>, <<"error", 0>>, <<"already", next - 1>>}
  BY DEF Failure
<1>2. next - 1 \in Nat
  BY DEF TypeOK
<1> QED
  BY <1>1, <1>2 DEF Answers

---------------------------------------------------------------------------
(* Types *)

LEMMA InitType ==
    ASSUME Init
    PROVE  TypeOK /\ Asking
<1>1. PICK n \in 1..MaxItems : items \in {s \in [1..n -> Keys] : Injective(s)}
  BY DEF Init
<1>2. n \in Nat \ {0}
  BY <1>1, RowAssumption
<1>3. items \in Seq(Keys) /\ Len(items) = n
  BY <1>1, <1>2
<1>4. Asking
  BY <1>1, <1>2, <1>3 DEF Init, Asking, Injective
<1>5. answer \in Answers
  BY DEF Init, Answers
<1>6. bad \in Nat /\ next \in Nat \ {0} /\ count \in Nat
  BY <1>2, <1>3 DEF Init
<1>7. TypeOK
  BY <1>3, <1>5, <1>6 DEF Init, TypeOK
<1> QED
  BY <1>4, <1>7

LEMMA NextType ==
    ASSUME TypeOK, Asking, [Next]_vars
    PROVE  TypeOK'
<1> USE DEF TypeOK, asked
<1>1. CASE Refused
  BY <1>1 DEF Refused, Tell, Answers
<1>2. CASE Checked
  BY <1>2 DEF Checked
<1>3. CASE Begun
  BY <1>3 DEF Begun
<1>4. CASE NotBegun
  BY <1>4 DEF NotBegun, Tell, Answers
<1>5. CASE Wrote
  <2>1. next <= Len(items)
    BY <1>5 DEF Wrote, Running
  <2>2. next' \in Nat \ {0}
    BY <1>5, <2>1, Statement DEF Wrote
  <2>3. count' \in Nat
    BY <1>5, <2>1, WrittenFinite DEF Wrote
  <2>4. present' \subseteq Rows /\ done' \subseteq Rows \cup Keys /\ kept' \subseteq Rows \cup Keys
    BY <1>5, <2>1, WrittenFinite DEF Wrote, Put, Without
  <2> QED
    BY <1>5, <2>2, <2>3, <2>4 DEF Wrote
<1>6. CASE Missed
  <2>1. next <= Len(items)
    BY <1>6 DEF Missed, Running
  <2>2. present' \subseteq Rows /\ done' \subseteq Rows \cup Keys /\ kept' \subseteq Rows \cup Keys
    BY <1>6, <2>1, WrittenFinite DEF Missed, Put, Without
  <2> QED
    BY <1>6, <2>2 DEF Missed
<1>7. CASE CantBuild
  BY <1>7 DEF CantBuild
<1>8. CASE Fails
  <2>1. next <= Len(items)
    BY <1>8 DEF Fails, Running
  <2>2. PICK w \in SUBSET Written : Put(w) /\ stray' = (stray \/ w # {})
    BY <1>8 DEF Fails
  <2>3. present' \subseteq Rows /\ done' \subseteq Rows \cup Keys /\ kept' \subseteq Rows \cup Keys
    BY <2>1, <2>2, WrittenFinite DEF Put, Without
  <2> QED
    BY <1>8, <2>2, <2>3 DEF Fails
<1>9. CASE FailsWhole
  BY <1>9 DEF FailsWhole, TakeBack, Again
<1>10. CASE Lost
  <2>1. next <= Len(items)
    BY <1>10 DEF Lost, Running
  <2>2. present' \subseteq Rows /\ kept' \subseteq Rows \cup Keys /\ unsure' \in BOOLEAN
    BY <1>10, <2>1, WrittenFinite DEF Lost, Again
  <2> QED
    BY <1>10, <2>2 DEF Lost
<1>11. CASE Overmatched
  BY <1>11 DEF Overmatched
<1>12. CASE Undo
  BY <1>12, AnswerType DEF Undo, TakeBack, Again, Tell
<1>13. CASE Committed
  <2>1. \A n \in Nat : [said |-> "ok", n |-> n] \in Answers
    BY DEF Answers
  <2>2. Len(items) \in Nat
    BY DEF Asking
  <2>3. answer' \in Answers
    BY <1>13, <2>1, <2>2 DEF Committed, Tell
  <2>4. kept' \subseteq Rows \cup Keys
    BY <1>13 DEF Committed
  <2> QED
    BY <1>13, <2>3, <2>4 DEF Committed
<1>14. CASE NotCommitted
  BY <1>14 DEF NotCommitted, TakeBack, Again, Tell, CommitFailure, Answers
<1>15. CASE CommitLost
  BY <1>15 DEF CommitLost, Again, Tell, CommitFailure, Answers
<1>16. CASE Ended
  BY <1>16 DEF Ended, Tell, Answers
<1>17. ASSUME NEW r \in Rows, OtherTouches(r) PROVE TypeOK'
  BY <1>17 DEF OtherTouches
<1>18. CASE UNCHANGED vars
  BY <1>18 DEF vars
<1> QED
  BY <1>1, <1>2, <1>3, <1>4, <1>5, <1>6, <1>7, <1>8, <1>9, <1>10, <1>11, <1>12, <1>13,
     <1>14, <1>15, <1>16, <1>17, <1>18
  DEF Next, Prepares, Runs, Ends
---------------------------------------------------------------------------
(* What every step keeps *)

\* What depends on nothing but the edit that was asked for.
LEMMA SameEdit ==
    ASSUME UNCHANGED asked
    PROVE  /\ Undoes' = Undoes /\ InTransaction' = InTransaction /\ Items' = Items
           /\ \A n : First(n)' = First(n)
BY DEF asked, Undoes, InTransaction, Mysql, Items, First

LEMMA EditStays ==
    ASSUME [Next]_vars
    PROVE  UNCHANGED asked
BY DEF Next, vars, Prepares, Runs, Ends, Refused, Checked, Begun, NotBegun, Wrote, Missed,
       CantBuild, Fails, FailsWhole, Lost, Overmatched, Undo, Committed, NotCommitted,
       CommitLost, Ended, OtherTouches

\* Only a statement that wrote what it should goes on to the next item.
LEMMA NextIsStatement ==
    ASSUME [Next]_vars
    PROVE  Wrote \/ next' = next
BY DEF Next, vars, Prepares, Runs, Ends, Refused, Checked, Begun, NotBegun, Missed,
       CantBuild, Fails, FailsWhole, Lost, Overmatched, Undo, Committed, NotCommitted,
       CommitLost, Ended, OtherTouches

LEMMA NextAsking ==
    ASSUME TypeOK, Asking, [Next]_vars
    PROVE  Asking'
<1>1. items' = items /\ op' = op
  BY EditStays DEF asked
<1>2. ASSUME Wrote PROVE next' <= Len(items) + 1
  <2>1. next <= Len(items)
    BY <1>2 DEF Wrote, Running
  <2>2. Last \in Nat /\ Last <= Len(items) /\ Len(items) \in Nat
    BY <2>1, Statement DEF Asking
  <2> QED
    BY <1>2, <2>2 DEF Wrote
<1>3. next' <= Len(items) + 1
  BY <1>2, NextIsStatement DEF Asking
<1> QED
  BY <1>1, <1>3 DEF Asking

LEMMA NextSteps ==
    ASSUME TypeOK, Asking, Steps, [Next]_vars
    PROVE  Steps'
<1> USE DEF Steps
<1>0. Undoes' = Undoes /\ InTransaction' = InTransaction /\ Len(items') = Len(items)
  BY EditStays, SameEdit DEF asked
<1>1. CASE Prepares
  BY <1>0, <1>1 DEF Prepares, Refused, Checked, Begun, NotBegun
<1>2. CASE Wrote
  <2>1. pc = "run" /\ next <= Len(items)
    BY <1>2 DEF Wrote, Running
  <2>2. /\ ~txn \/ ~Undoes => done' = done
        /\ answer' = answer
        /\ Undoes /\ txn => kept' = kept
        /\ pc' = pc /\ txn' = txn
    BY <1>2 DEF Wrote, Put
  <2>3. ASSUME Undoes, ~txn PROVE next' > Len(items)
    <3>1. next = 1 /\ ~InTransaction
      BY <2>1, <2>3
    <3>2. Last = Len(items) /\ Len(items) \in Nat
      BY <2>1, <2>3, <3>1, Statement DEF Asking
    <3> QED
      BY <1>2, <3>2 DEF Wrote
  <2>4. ~(Undoes /\ ~txn /\ next' <= Len(items))
    <3>1. next' \in Nat /\ Len(items) \in Nat
      BY NextType DEF TypeOK, Asking
    <3> QED
      BY <2>3, <3>1
  <2> QED
    BY <1>0, <2>1, <2>2, <2>4
<1>3. CASE Missed \/ CantBuild \/ Fails \/ FailsWhole \/ Lost
  BY <1>0, <1>3 DEF Missed, CantBuild, Fails, FailsWhole, Lost, TakeBack, Put, Running
<1>4. CASE Ends
  BY <1>0, <1>4 DEF Ends, Overmatched, Undo, Committed, NotCommitted, CommitLost, Ended,
     TakeBack, Finished
<1>5. ASSUME NEW r \in Rows, OtherTouches(r) PROVE Steps'
  BY <1>0, <1>5 DEF OtherTouches
<1>6. CASE UNCHANGED vars
  BY <1>0, <1>6 DEF vars
<1> QED
  BY <1>1, <1>2, <1>3, <1>4, <1>5, <1>6 DEF Next, Runs

---------------------------------------------------------------------------
(* The statements, one after the other *)

\* What Did says depends on the edit that was asked for alone.
LEMMA SameDid ==
    ASSUME UNCHANGED asked
    PROVE  \A w, n, rows : Did(w, n, rows)' = Did(w, n, rows)
BY SameEdit, Zenon DEF Did, asked

\* Rows that go leave what was done.
LEMMA DidStays ==
    ASSUME NEW w, NEW n, NEW rows, Did(w, n, rows), NEW left \in SUBSET rows
    PROVE  Did(w, n, left)
BY DEF Did

\* Before the first statement nothing is done.
LEMMA NothingDid ==
    ASSUME NEW rows
    PROVE  Did({}, 0, rows) /\ Cardinality({}) = 0
<1>1. First(0) = {}
  BY DEF First
<1> QED
  BY <1>1, FS_EmptySet DEF Did

\* After a statement that wrote what it should, the items up to it are done, and
\* nothing was written twice.
LEMMA StatementDid ==
    ASSUME TypeOK, Asking, next <= Len(items), op = "save" => Cardinality(Written) = 1,
           NEW w, Did(w, next - 1, present \ touched),
           NEW rows, op = "delete" => rows = (present \ Written) \ touched
    PROVE  /\ Did(w \cup Written, Last, rows)
           /\ Cardinality(w \cup Written) = Cardinality(w) + Cardinality(Written)
<1>1. /\ First(Last) = First(next - 1) \cup Chunk
      /\ Chunk \cap First(next - 1) = {}
      /\ op \in {"save", "insert"} => Chunk = {items[next]}
  BY Chunks
<1>2. IsFiniteSet(Written) /\ IsFiniteSet(w)
  BY WrittenFinite DEF Did
<1>3. /\ op \in {"save", "delete"} => Written = {r \in present : KeyOf[r] \in Chunk}
      /\ op \in {"import", "insert"} => Written = Chunk
  BY DEF Written
<1>4. present \subseteq Rows /\ op \in Ops
  BY DEF TypeOK
<1>5. w \cap Written = {}
  <2>1. CASE op \in {"save", "delete"}
    BY <1>1, <1>3, <2>1 DEF Did
  <2>2. CASE op \in {"import", "insert"}
    BY <1>1, <1>3, <2>2 DEF Did
  <2> QED
    BY <1>4, <2>1, <2>2 DEF Ops
<1>6. /\ IsFiniteSet(w \cup Written)
      /\ Cardinality(w \cup Written) = Cardinality(w) + Cardinality(Written)
  <2>1. Cardinality(w) \in Nat /\ Cardinality(Written) \in Nat
    BY <1>2, FS_CardinalityType
  <2>2. Cardinality(w \cap Written) = 0
    BY <1>5, FS_EmptySet
  <2>3. /\ IsFiniteSet(w \cup Written)
        /\ Cardinality(w \cup Written)
             = Cardinality(w) + Cardinality(Written) - Cardinality(w \cap Written)
    BY <1>2, FS_Union
  <2> QED
    BY <2>1, <2>2, <2>3
<1>7. CASE op = "save"
  <2> DEFINE it == items[next]
             Of(x, k) == {r \in x : r \in Rows /\ KeyOf[r] = k}
  <2>1. Chunk = {it} /\ it \notin First(next - 1)
    BY <1>1, <1>7
  <2>2. \A r \in Written : r \in Rows /\ KeyOf[r] = it
    BY <1>3, <1>4, <1>7, <2>1
  <2>3. \A r \in w : r \in Rows /\ KeyOf[r] \in First(next - 1)
    BY <1>7 DEF Did
  <2> HIDE DEF it
  <2>4. ASSUME NEW k \in First(next - 1) PROVE Cardinality(Of(w \cup Written, k)) = 1
    <3>1. Of(w \cup Written, k) = Of(w, k)
      BY <2>1, <2>2
    <3> QED
      BY <1>7, <3>1 DEF Did
  <2>5. Of(w \cup Written, it) = Written
    BY <2>1, <2>2, <2>3
  <2>6. \A k \in First(Last) : Cardinality(Of(w \cup Written, k)) = 1
    BY <1>1, <1>7, <2>1, <2>4, <2>5
  <2>7. \A r \in w \cup Written : r \in Rows /\ KeyOf[r] \in First(Last)
    BY <1>1, <2>1, <2>2, <2>3
  <2> QED
    BY <1>6, <1>7, <2>6, <2>7 DEF Did
<1>8. CASE op = "delete"
  <2>1. \A r \in w \cup Written : r \in Rows /\ KeyOf[r] \in First(Last)
    BY <1>1, <1>3, <1>4, <1>8 DEF Did
  <2>2. \A r \in rows : KeyOf[r] \notin First(Last)
    BY <1>1, <1>3, <1>8 DEF Did
  <2> QED
    BY <1>6, <1>8, <2>1, <2>2 DEF Did
<1>9. CASE op \in {"import", "insert"}
  <2>1. w = First(next - 1)
    BY <1>9 DEF Did
  <2> QED
    BY <1>1, <1>3, <1>6, <1>9, <2>1 DEF Did
<1> QED
  BY <1>4, <1>6, <1>7, <1>8, <1>9 DEF Ops

\* The same, as a step of the edit.
LEMMA StatementProgress ==
    ASSUME TypeOK, Asking, Steps, Progress, Wrote
    PROVE  Progress'
<1>1. /\ pc = "run" /\ pc' = "run" /\ next <= Len(items) /\ UNCHANGED asked
      /\ txn' = txn /\ touched' = touched
      /\ op = "save" => Cardinality(Written) = 1
  BY DEF Wrote, Running
<1>2. /\ next' = Last + 1 /\ count' = count + Cardinality(Written)
      /\ op = "delete" => present' = present \ Written
  BY DEF Wrote, Put, Without
<1>3. SoFar' = SoFar \cup Written
  <2>1. Undoes' = Undoes
    BY <1>1, SameEdit
  <2> QED
    BY <1>1, <2>1 DEF Wrote, Put, SoFar
<1>4. /\ Did(SoFar, next - 1, present \ touched)
      /\ count = Cardinality(SoFar) /\ (op = "save" => count = next - 1)
  BY <1>1 DEF Progress
<1>5. op = "delete" => present' \ touched' = (present \ Written) \ touched
  BY <1>1, <1>2
<1>6. /\ Did(SoFar \cup Written, Last, present' \ touched')
      /\ Cardinality(SoFar \cup Written) = Cardinality(SoFar) + Cardinality(Written)
  BY <1>1, <1>4, <1>5, StatementDid
<1>7. Last \in Nat /\ next' - 1 = Last /\ (op = "save" => Last = next)
  BY <1>1, <1>2, Statement
<1>8. Did(SoFar', next' - 1, present' \ touched')
  BY <1>3, <1>6, <1>7
<1>9. Did(SoFar, next - 1, present \ touched)'
  BY <1>1, <1>8, SameEdit DEF Did, asked
<1>10. count' = Cardinality(SoFar')
  BY <1>2, <1>3, <1>4, <1>6
<1>11. op = "save" => count' = next' - 1
  BY <1>1, <1>2, <1>4, <1>7 DEF TypeOK
<1> QED
  BY <1>1, <1>9, <1>10, <1>11 DEF Progress, asked

\* A statement that failed kept nothing, unless that is known.
LEMMA FailedProgress ==
    ASSUME TypeOK, Asking, Steps, Progress, Missed \/ CantBuild \/ Fails \/ FailsWhole \/ Lost \/ Overmatched
    PROVE  Progress'
<1>1. pc = "run" /\ pc' = "undo" /\ UNCHANGED <<asked, next, touched>>
  BY DEF Missed, CantBuild, Fails, FailsWhole, Lost, Overmatched, Running
<1>2. Undoes' = Undoes /\ InTransaction' = InTransaction
  BY <1>1, SameEdit
<1>3. Undoes => kept = {}
  <2>1. CASE next <= Len(items)
    BY <1>1, <2>1 DEF Steps
  <2>2. CASE Overmatched
    BY <1>1, <2>2 DEF Steps, Overmatched, TooMany, InTransaction
  <2> QED
    BY <2>1, <2>2 DEF Missed, CantBuild, Fails, FailsWhole, Lost, Running
<1>4. ~unsure' /\ Undoes => kept' = {}
  <2> SUFFICES ASSUME ~unsure', Undoes PROVE kept' = {}
    OBVIOUS
  <2>1. CASE Missed
    BY <1>1, <1>3, <2>1 DEF Missed, Put, Steps, InTransaction
  <2>2. CASE Fails
    BY <1>3, <2>2 DEF Fails, Put
  <2>3. CASE CantBuild \/ FailsWhole \/ Lost \/ Overmatched
    BY <1>3, <2>3 DEF CantBuild, FailsWhole, Lost, Overmatched
  <2> QED
    BY <2>1, <2>2, <2>3
<1>5. ~unsure' /\ ~stray' /\ ~Undoes => kept' = kept /\ present' = present
  <2> SUFFICES ASSUME ~unsure', ~stray', ~Undoes PROVE kept' = kept /\ present' = present
    OBVIOUS
  <2>1. CASE Missed
    <3>1. Written = {}
      BY <2>1 DEF Missed
    <3> QED
      BY <2>1, <3>1 DEF Missed, Put, Without
  <2>2. CASE Fails
    BY <2>2 DEF Fails, Put, Without
  <2>3. CASE Lost
    <3>1. Again(done) = present
      BY DEF Steps, Again
    <3> QED
      BY <2>3, <3>1 DEF Lost
  <2>4. CASE CantBuild \/ FailsWhole \/ Overmatched
    BY <2>4 DEF CantBuild, FailsWhole, Overmatched
  <2> QED
    BY <2>1, <2>2, <2>3, <2>4
<1>6. ~Undoes => Did(kept, next - 1, present \ touched)
  BY <1>1 DEF Progress, SoFar
<1>7. ~unsure' /\ ~stray' /\ ~Undoes => Did(kept, next - 1, present \ touched)'
  BY <1>1, <1>5, <1>6, SameEdit DEF Did, asked
<1> QED
  BY <1>1, <1>2, <1>4, <1>7 DEF Progress

LEMMA NextProgress ==
    ASSUME TypeOK, Asking, Steps, Progress, [Next]_vars
    PROVE  Progress'
<1>0. Undoes' = Undoes /\ op' = op /\ UNCHANGED asked
  BY EditStays, SameEdit DEF asked
<1>1. CASE pc' = "run" /\ pc \in {"check", "begin"} /\ UNCHANGED <<next, kept, done, count>>
  <2>1. SoFar' = {} /\ next' = 1 /\ count' = 0
    <3>1. done = {} /\ kept = {}
      BY <1>1 DEF Steps
    <3> QED
      BY <1>1, <3>1 DEF SoFar, Steps
  <2>2. Did(SoFar', next' - 1, present' \ touched') /\ count' = Cardinality(SoFar')
    BY <2>1, NothingDid
  <2>3. Did(SoFar, next - 1, present \ touched)'
    BY <1>0, <2>2, SameEdit DEF Did, asked
  <2> QED
    BY <1>1, <2>1, <2>2, <2>3 DEF Progress
<1>2. CASE Wrote
  BY <1>2, StatementProgress
<1>3. CASE Missed \/ CantBuild \/ Fails \/ FailsWhole \/ Lost \/ Overmatched
  BY <1>3, FailedProgress
<1>4. CASE pc' = "end" \/ pc' = "begin"
  BY <1>4 DEF Progress
<1>5. ASSUME UNCHANGED <<pc, next, txn, done, kept, count, stray, unsure>>,
             present' \ touched' \subseteq present \ touched
      PROVE  Progress'
  <2>1. SoFar' = SoFar
    BY <1>0, <1>5 DEF SoFar
  <2>2. \A w, n : Did(w, n, present \ touched) => Did(w, n, present' \ touched')
    BY <1>5, DidStays
  <2>3. Did(SoFar, next - 1, present \ touched) => Did(SoFar, next - 1, present \ touched)'
    <3>1. ASSUME Did(SoFar, next - 1, present \ touched) PROVE Did(SoFar', next' - 1, present' \ touched')
      BY <1>5, <2>1, <2>2, <3>1
    <3> QED
      BY <1>0, <3>1, SameEdit DEF Did, asked
  <2>4. Did(kept, next - 1, present \ touched) => Did(kept, next - 1, present \ touched)'
    <3>1. ASSUME Did(kept, next - 1, present \ touched) PROVE Did(kept', next' - 1, present' \ touched')
      BY <1>5, <2>2, <3>1
    <3> QED
      BY <1>0, <3>1, SameEdit DEF Did, asked
  <2> QED
    BY <1>0, <1>5, <2>1, <2>3, <2>4 DEF Progress
<1>6. ASSUME NEW r \in Rows, OtherTouches(r) PROVE Progress'
  BY <1>5, <1>6 DEF OtherTouches
<1>7. CASE UNCHANGED vars
  BY <1>5, <1>7 DEF vars
<1>8. CASE Checked \/ Begun
  BY <1>1, <1>4, <1>8 DEF Checked, Begun
<1>9. CASE Refused \/ NotBegun \/ Undo \/ Committed \/ NotCommitted \/ CommitLost \/ Ended
  BY <1>4, <1>9 DEF Refused, NotBegun, Undo, Committed, NotCommitted, CommitLost, Ended
<1> QED
  BY <1>2, <1>3, <1>6, <1>7, <1>8, <1>9 DEF Next, Prepares, Runs, Ends

---------------------------------------------------------------------------
(* All or nothing *)

\* An edit that is whole stays so, whatever other clients do.
LEMMA WholeStays ==
    ASSUME Whole, UNCHANGED <<asked, kept>>, present' \ touched' \subseteq present \ touched
    PROVE  Whole'
<1>1. op' = op /\ engine' = engine /\ items' = items /\ kept' = kept /\ Items' = Items
  BY SameEdit DEF asked
<1>2. \A k : KeptOf(k)' = KeptOf(k)
  BY <1>1 DEF KeptOf
<1>3. CASE op = "save"
  BY <1>1, <1>2, <1>3 DEF Whole
<1>4. CASE op = "delete"
  BY <1>1, <1>4 DEF Whole
<1>5. CASE op \notin {"save", "delete"}
  BY <1>1, <1>5 DEF Whole
<1> QED
  BY <1>3, <1>4, <1>5

\* A statement that runs without a transaction is the whole edit.
LEMMA OneStatementIsWhole ==
    ASSUME TypeOK, Asking, Steps, Undoes, Running, ~txn, UNCHANGED asked,
           kept' = kept \cup Written, touched' = touched,
           op = "delete" => present' = present \ Written
    PROVE  Whole'
<1>1. next = 1 /\ kept = {} /\ ~InTransaction /\ next <= Len(items)
  BY DEF Steps, Running
<1>2. op \in {"delete", "insert"} /\ engine # "sqlite"
  BY <1>1 DEF InTransaction, TypeOK, Ops
<1>3. First(next - 1) = {} /\ Last = Len(items)
  BY <1>1, Statement DEF First
<1>4. Chunk = Items
  BY <1>1, <1>3, Chunks
<1>5. op' = op /\ engine' = engine /\ Items' = Items
  BY SameEdit DEF asked
<1>6. CASE op = "insert"
  BY <1>1, <1>4, <1>5, <1>6 DEF Whole, Written
<1>7. CASE op = "delete"
  <2>1. Written = {r \in present : KeyOf[r] \in Items}
    BY <1>4, <1>7 DEF Written
  <2> QED
    BY <1>2, <1>5, <1>7, <2>1 DEF Whole
<1> QED
  BY <1>2, <1>6, <1>7

\* An edit whose statements all ran is whole if what they wrote is kept, and the
\* rows it counted are those.
LEMMA FinishedIsWhole ==
    ASSUME TypeOK, Asking, Progress, Finished, kept' = SoFar, UNCHANGED <<asked, present, touched>>
    PROVE  Whole' /\ count = Cardinality(kept') /\ (op = "save" => count = Len(items))
<1>1. next - 1 = Len(items) /\ pc = "run" /\ Len(items) \in Nat
  BY DEF Finished, Asking, TypeOK
<1>2. /\ Did(SoFar, Len(items), present \ touched)
      /\ count = Cardinality(SoFar) /\ (op = "save" => count = Len(items))
  BY <1>1 DEF Progress
<1>3. First(Len(items)) = Items
  BY DEF First, Items
<1>4. /\ op' = op /\ engine' = engine /\ Items' = Items /\ items' = items
      /\ present' \ touched' = present \ touched
  BY SameEdit DEF asked
<1>5. CASE op = "save"
  <2>1. \A k : KeptOf(k)' = {r \in SoFar : r \in Rows /\ KeyOf[r] = k}
    BY DEF KeptOf
  <2>2. \A k \in Items : Cardinality(KeptOf(k)') = 1
    BY <1>2, <1>3, <1>5, <2>1 DEF Did
  <2> QED
    BY <1>2, <1>4, <1>5, <2>2 DEF Whole
<1>6. CASE op = "delete"
  <2>1. \A r \in present \ touched : KeyOf[r] \notin Items
    BY <1>2, <1>3, <1>6 DEF Did
  <2>2. engine = "sqlite" => Cardinality(kept') <= Len(items)
    BY <1>1, <1>2, <1>6 DEF Finished, TooMany, TypeOK
  <2> QED
    BY <1>2, <1>4, <1>6, <2>1, <2>2 DEF Whole
<1>7. CASE op \in {"import", "insert"}
  BY <1>2, <1>3, <1>4, <1>7 DEF Did, Whole
<1> QED
  BY <1>5, <1>6, <1>7 DEF TypeOK, Ops

\* A COMMIT keeps what the statements wrote, and nothing else was kept.
LEMMA CommitKeepsIt ==
    ASSUME Steps, TypeOK, pc = "run", txn
    PROVE  kept \cup done = SoFar
BY DEF Steps, SoFar, TypeOK

\* A step that keeps nothing new gives no row back to an edit that is kept:
\* a transaction that is taken back leaves nothing kept.
LEMMA TakenBack ==
    ASSUME Steps, Undoes, present' = Again(done), kept # {}
    PROVE  present' = present
BY DEF Steps, Again

LEMMA NextAllOrNothing ==
    ASSUME TypeOK, Asking, Steps, Progress, AllOrNothing, [Next]_vars
    PROVE  AllOrNothing'
<1> SUFFICES ASSUME Undoes, kept' # {} PROVE Whole'
  BY EditStays, SameEdit DEF AllOrNothing
<1>0. UNCHANGED asked
  BY EditStays
<1>1. ASSUME kept' = kept, present' \ touched' \subseteq present \ touched PROVE Whole'
  BY <1>0, <1>1, WholeStays DEF AllOrNothing
<1>2. ASSUME kept' = kept, touched' = touched, present' = Again(done) PROVE Whole'
  BY <1>1, <1>2, TakenBack
<1>3. CASE Prepares
  BY <1>1, <1>3 DEF Prepares, Refused, Checked, Begun, NotBegun
<1>4. CASE Wrote
  <2>1. CASE txn
    BY <1>4, <2>1 DEF Wrote, Put, Steps, Running
  <2>2. CASE ~txn
    <3>1. kept' = kept \cup Written /\ touched' = touched /\ (op = "delete" => present' = present \ Written)
      BY <1>4, <2>2 DEF Wrote, Put, Without
    <3> QED
      BY <1>0, <1>4, <2>2, <3>1, OneStatementIsWhole DEF Wrote
  <2> QED
    BY <2>1, <2>2 DEF TypeOK
<1>5. CASE Missed
  BY <1>5 DEF Missed, Running, Put, Steps, InTransaction
<1>6. CASE CantBuild
  BY <1>1, <1>6 DEF CantBuild
<1>7. CASE Fails
  <2>1. kept' = kept /\ touched' = touched /\ present' = present
    BY <1>7 DEF Fails, Put, Without
  <2> QED
    BY <1>1, <2>1
<1>8. CASE FailsWhole
  BY <1>2, <1>8 DEF FailsWhole, TakeBack
<1>9. CASE Lost
  <2>1. PICK w \in {{}, IF txn /\ Undoes THEN {} ELSE Written} :
          /\ kept' = kept \cup w
          /\ present' = Again(done) \ (IF op = "delete" THEN w ELSE {})
    BY <1>9 DEF Lost
  <2>2. CASE w = {}
    BY <1>2, <1>9, <2>1, <2>2 DEF Lost
  <2>3. CASE ~txn /\ w = Written
    <3>1. Again(done) = present
      BY <2>3 DEF Steps, Again
    <3> QED
      BY <1>0, <1>9, <2>1, <2>3, <3>1, OneStatementIsWhole DEF Lost
  <2> QED
    BY <2>1, <2>2, <2>3 DEF TypeOK
<1>10. CASE Overmatched \/ Ended
  BY <1>1, <1>10 DEF Overmatched, Ended
<1>11. CASE Undo
  BY <1>2, <1>11 DEF Undo, TakeBack
<1>12. CASE Committed
  BY <1>0, <1>12, CommitKeepsIt, FinishedIsWhole DEF Committed, Finished
<1>13. CASE NotCommitted
  BY <1>2, <1>13 DEF NotCommitted, TakeBack
<1>14. CASE CommitLost
  <2>1. CASE kept' = kept \cup done /\ UNCHANGED present
    BY <1>0, <1>14, <2>1, CommitKeepsIt, FinishedIsWhole DEF CommitLost, Finished
  <2>2. CASE present' = Again(done) /\ UNCHANGED kept
    BY <1>2, <1>14, <2>2 DEF CommitLost
  <2> QED
    BY <1>14, <2>1, <2>2 DEF CommitLost
<1>15. ASSUME NEW r \in Rows, OtherTouches(r) PROVE Whole'
  BY <1>1, <1>15 DEF OtherTouches
<1>16. CASE UNCHANGED vars
  BY <1>1, <1>16 DEF vars
<1> QED
  BY <1>3, <1>4, <1>5, <1>6, <1>7, <1>8, <1>9, <1>10, <1>11, <1>12, <1>13, <1>14, <1>15, <1>16
  DEF Next, Runs, Ends

---------------------------------------------------------------------------
(* What the person is told *)

\* An edit that stopped half way says what is kept of it.
LEMMA FailureIsTrue ==
    ASSUME TypeOK, Asking, Steps, Progress, Undo
    PROVE  AnswerIsTrue'
<1> SUFFICES ASSUME ~unsure', ~stray'
             PROVE  /\ answer'.said # "ok"
                    /\ answer'.said = "nothing" => kept' = {}
                    /\ answer'.said = "already" => AlreadyWritten(answer.n)'
  BY DEF AnswerIsTrue
<1> DEFINE n == next - 1
<1>1. /\ pc = "undo" /\ UNCHANGED <<asked, next, kept, touched>> /\ ~unsure /\ ~stray
      /\ answer' = [said |-> Failure[1], n |-> Failure[2]]
  BY DEF Undo, Tell
<1>2. Failure \in {<<"nothing", 0>>, <<"error", 0>>, <<"already", n>>}
  BY DEF Failure
<1>3. Undoes => kept = {} /\ Failure[1] # "already"
  <2>1. Undoes => kept = {}
    BY <1>1 DEF Progress
  <2>2. Undoes => Failure \in {<<"nothing", 0>>, <<"error", 0>>}
    BY DEF Failure, TypeOK, Ops
  <2> QED
    BY <2>1, <2>2
<1>4. ASSUME ~Undoes
      PROVE  Did(kept, n, present \ touched) /\ present' = present
  <2>1. Again(done) = present
    BY <1>4 DEF Steps, Again
  <2> QED
    BY <1>1, <1>4, <2>1 DEF Progress, Undo, TakeBack
<1>5. answer'.said = Failure[1] /\ answer'.n = Failure[2]
  BY <1>1
<1>6. ASSUME ~Undoes, Failure[1] = "nothing" PROVE kept = {}
  <2>1. n = 0 /\ op \in {"save", "import"}
    <3>1. engine = "myisam"
      BY <1>6 DEF Undoes
    <3>2. ~TooMany
      BY <3>1 DEF TooMany
    <3> QED
      BY <1>6, <3>2 DEF Failure
  <2>2. First(n) = {}
    BY <2>1 DEF First
  <2> QED
    BY <1>4, <1>6, <2>1, <2>2 DEF Did
<1>7. ASSUME ~Undoes, Failure[1] = "already" PROVE AlreadyWritten(answer.n)'
  <2>1. Failure[2] = n /\ op \in {"save", "delete", "import"}
    BY <1>2, <1>7 DEF Failure, TypeOK, Ops
  <2>2. answer'.n = n /\ op' = op /\ kept' = kept /\ Items' = Items /\ First(answer.n)' = First(n)
    BY <1>1, <1>5, <2>1, SameEdit DEF asked
  <2>3. present' \ touched' = present \ touched
    BY <1>1, <1>4, <1>7
  <2>4. \A k : KeptOf(k)' = {r \in kept : r \in Rows /\ KeyOf[r] = k}
    BY <2>2 DEF KeptOf
  <2>5. CASE op = "save"
    <3>1. \A k \in First(n) : Cardinality(KeptOf(k)') = 1
      BY <1>4, <1>7, <2>4, <2>5 DEF Did
    <3>2. \A k \in Items \ First(n) : KeptOf(k)' = {}
      BY <1>4, <1>7, <2>4, <2>5 DEF Did
    <3> QED
      BY <2>2, <2>5, <3>1, <3>2 DEF AlreadyWritten
  <2>6. CASE op = "delete"
    <3>1. \A r \in present' \ touched' : KeyOf[r] \notin First(n)
      BY <1>4, <1>7, <2>3, <2>6 DEF Did
    <3>2. \A k \in Items \ First(n) : KeptOf(k)' = {}
      BY <1>4, <1>7, <2>4, <2>6 DEF Did
    <3> QED
      BY <2>2, <2>6, <3>1, <3>2 DEF AlreadyWritten
  <2>7. CASE op = "import"
    <3>1. kept = First(n)
      BY <1>4, <1>7, <2>7 DEF Did
    <3> QED
      BY <2>2, <2>7, <3>1 DEF AlreadyWritten
  <2> QED
    BY <2>1, <2>5, <2>6, <2>7
<1> QED
  BY <1>1, <1>2, <1>3, <1>5, <1>6, <1>7

LEMMA NextAnswer ==
    ASSUME TypeOK, Asking, Steps, Progress, AnswerIsTrue, [Next]_vars
    PROVE  AnswerIsTrue'
<1>1. CASE pc' # "end"
  BY <1>1, NextSteps DEF Steps, AnswerIsTrue
<1>2. ASSUME kept' = {}, answer'.said \in {"nothing", "error"} PROVE AnswerIsTrue'
  BY <1>2 DEF AnswerIsTrue
<1>3. CASE Refused \/ NotBegun
  <2>1. kept' = {}
    BY <1>3 DEF Refused, NotBegun, Steps
  <2>2. answer'.said \in {"nothing", "error"}
    BY <1>3 DEF Refused, NotBegun, Tell
  <2> QED
    BY <1>2, <2>1, <2>2
<1>4. CASE Undo
  BY <1>4, FailureIsTrue
<1>5. CASE Committed \/ Ended
  <2>1. kept' = SoFar /\ Finished /\ UNCHANGED <<asked, present, touched>>
    <3>1. CASE Committed
      BY <3>1, CommitKeepsIt DEF Committed, Finished
    <3>2. CASE Ended
      BY <3>2 DEF Ended, SoFar
    <3> QED
      BY <1>5, <3>1, <3>2
  <2>2. Whole' /\ count = Cardinality(kept') /\ (op = "save" => count = Len(items))
    BY <2>1, FinishedIsWhole
  <2>3. answer'.said = "ok" /\ answer'.n = count
    BY <1>5, <2>2 DEF Committed, Ended, Tell
  <2> QED
    BY <2>2, <2>3 DEF AnswerIsTrue
<1>6. CASE NotCommitted
  <2>1. kept' = {}
    BY <1>6 DEF NotCommitted, Steps
  <2>2. answer'.said \in {"nothing", "error"}
    BY <1>6 DEF NotCommitted, Tell, CommitFailure
  <2> QED
    BY <1>2, <2>1, <2>2
<1>7. CASE CommitLost
  BY <1>7 DEF CommitLost, AnswerIsTrue
<1>8. CASE UNCHANGED vars
  <2>1. /\ unsure' = unsure /\ stray' = stray /\ answer' = answer /\ kept' = kept
        /\ present' = present /\ touched' = touched /\ op' = op /\ engine' = engine /\ items' = items
    BY <1>8 DEF vars, asked
  <2>2. Items' = Items /\ (\A k : KeptOf(k)' = KeptOf(k)) /\ First(answer.n)' = First(answer.n)
    BY <2>1 DEF Items, First, KeptOf
  <2>3. Whole' = Whole
    BY <2>1, <2>2, Zenon DEF Whole
  <2>4. AlreadyWritten(answer.n)' = AlreadyWritten(answer.n)
    BY <2>1, <2>2, Zenon DEF AlreadyWritten
  <2> QED
    BY <2>1, <2>3, <2>4 DEF AnswerIsTrue
<1>9. CASE Checked \/ Begun \/ Runs \/ Overmatched \/ \E r \in Rows : OtherTouches(r)
  BY <1>1, <1>9 DEF Checked, Begun, Runs, Wrote, Running, Missed, CantBuild, Fails, FailsWhole, Lost,
     Overmatched, OtherTouches
<1> QED
  BY <1>3, <1>4, <1>5, <1>6, <1>7, <1>8, <1>9 DEF Next, Prepares, Ends

---------------------------------------------------------------------------
(* The theorems *)

LEMMA InitIInv ==
    ASSUME Init
    PROVE  IInv
<1>1. TypeOK /\ Asking
  BY InitType
<1>2. Steps /\ Progress /\ AllOrNothing /\ AnswerIsTrue
  BY DEF Init, Steps, Progress, AllOrNothing, AnswerIsTrue
<1> QED
  BY <1>1, <1>2 DEF IInv

\* The invariant: where a transaction is open, what its statements have done so
\* far, that nothing is kept before they all ran, and what the person is told.
THEOREM Invariance == Spec => []IInv
<1>1. Init => IInv
  BY InitIInv
<1>2. IInv /\ [Next]_vars => IInv'
  BY NextType, NextAsking, NextSteps, NextProgress, NextAllOrNothing, NextAnswer DEF IInv
<1> QED
  BY <1>1, <1>2, PTL DEF Spec

\* The variables keep their types.
THEOREM TypeCorrect == Spec => []TypeOK
<1>1. IInv => TypeOK
  BY DEF IInv
<1> QED
  BY <1>1, Invariance, PTL

\* On a table that can undo changes nothing stays of an edit that didn't go
\* through whole (save_rows, delete_rows, import_rows, insert_row of the engines).
THEOREM EditsAreWhole == Spec => []AllOrNothing
<1>1. IInv => AllOrNothing
  BY DEF IInv
<1> QED
  BY <1>1, Invariance, PTL

\* What the person is told is true, but for a connection lost with the answer and for a
\* statement that failed half done on a table that can't undo it (save_rows,
\* delete_rows, import_rows, insert_row of the engines).
THEOREM AnswersAreTrue == Spec => []AnswerIsTrue
<1>1. IInv => AnswerIsTrue
  BY DEF IInv
<1> QED
  BY <1>1, Invariance, PTL
=============================================================================
