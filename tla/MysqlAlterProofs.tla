-------------------------- MODULE MysqlAlterProofs --------------------------
(***************************************************************************)
(* Proofs about MysqlAlter, for any columns of the table, any number of     *)
(* structure changes and of another client's: reading a column and          *)
(* restating it gives the column back, and a copy takes no table's name.    *)
(***************************************************************************)
EXTENDS MysqlAlter, TLAPS

\* What the code reads of a column says what its default is.
Sound(d) ==
    /\ d \in Definitions
    /\ d.default \in {"absent", "plain", "expression"}
    /\ d.marked = (d.default = "expression")

\* A column of the table, as the server takes it.
Held(c) == c \in Columns /\ Valid(c) /\ c.default # "other"

ChangeInv == pc # "idle" => change \in Changes

TableInv == \A n \in Names : table[n] # None => Held(table[n])

\* What was read is the column, unless another client changed it.
ReadInv ==
    pc = "run" /\ Restates(change) =>
      /\ Sound(read)
      /\ ~altered => table[change.name] # None /\ read = Definition(table[change.name])

\* What has the copy's name while it is made.
CopyInv ==
    ~swapped =>
      /\ copy = "create" => target = before
      /\ copy \in {"fill", "drop"} => before = "nothing" /\ target = "half"

IInv == TypeOK /\ ChangeInv /\ TableInv /\ ReadInv /\ CopyInv /\ CopiesOnlyAdd

---------------------------------------------------------------------------
(* Reading a column and restating it *)

\* The description of a column, normalized, has every part that MODIFY needs.
LEMMA ReadBack ==
    ASSUME NEW c, Held(c), engine \in Engines
    PROVE  /\ Sound(Definition(c))
           /\ DefaultSql(Definition(c)) = c.default
           /\ Definition(c).type = c.type /\ Definition(c).nullable = c.nullable
           /\ Definition(c).generated = c.generated /\ Definition(c).rest = c.rest
           /\ Definition(c).comment = c.comment
           /\ (c.type = "text" /\ Definition(c).collation = "own") = c.own
<1> DEFINE r == Described(c)
           n == Normalized(r)
           d == Definition(c)
<1>1. /\ c.type \in Types /\ c.own \in BOOLEAN /\ c.nullable \in BOOLEAN
      /\ c.default \in {"none", "value", "expression"} /\ c.comment \in BOOLEAN
      /\ c.generated \in {"no", "virtual", "stored"}
      /\ c.rest \in {"", "auto", "onupdate", "invisible"}
      /\ c.own => c.type = "text"
  BY DEF Held, Columns, Valid
<1>2. /\ r \in Definitions
      /\ r.nullable = c.nullable /\ r.generated = c.generated
      /\ r.rest = c.rest /\ r.comment = c.comment
  <2>1. /\ r.type \in Types /\ r.collation \in {"none", "table", "own"}
        /\ r.default \in {"absent", "NULL", "plain", "quoted", "expression"}
        /\ r.marked \in BOOLEAN
    BY <1>1 DEF Described, Types
  <2>2. /\ r.nullable = c.nullable /\ r.generated = c.generated
        /\ r.rest = c.rest /\ r.comment = c.comment
    BY DEF Described
  <2>3. r = [type |-> r.type, collation |-> r.collation, nullable |-> r.nullable,
             default |-> r.default, marked |-> r.marked, generated |-> r.generated,
             rest |-> r.rest, comment |-> r.comment]
    BY DEF Described
  <2>4. r \in Definitions
    <3> HIDE DEF r
    <3> QED
      BY <1>1, <2>1, <2>2, <2>3 DEF Definitions
  <2> QED
    BY <2>2, <2>4
<1>3. /\ r.type = IF engine = "mariadb" /\ c.type = "json" THEN "text" ELSE c.type
      /\ c.type = "text" => (r.collation = "own") = c.own
  BY <1>1 DEF Described
<1>4. /\ n \in Definitions /\ n.type = r.type /\ n.collation = r.collation
      /\ n.nullable = r.nullable /\ n.generated = r.generated
      /\ n.rest = r.rest /\ n.comment = r.comment
  <2> HIDE DEF r
  <2>1. CASE engine = "mysql"
    BY <1>2, <2>1 DEF Normalized
  <2>2. CASE engine = "mariadb"
    <3>1. n = [r EXCEPT !.default = CASE @ = "NULL" -> "absent" [] @ = "quoted" -> "plain" [] OTHER -> @,
                        !.marked = r.default = "expression"]
      BY <2>2 DEF Normalized
    <3>2. n = [r EXCEPT !.default = n.default, !.marked = n.marked]
      BY <1>2, <3>1 DEF Definitions
    <3>3. n.default \in {"absent", "NULL", "plain", "quoted", "expression"} /\ n.marked \in BOOLEAN
      BY <1>2, <3>1 DEF Definitions
    <3> HIDE DEF n
    <3> QED
      BY <1>2, <3>2, <3>3 DEF Definitions
  <2> QED
    BY <2>1, <2>2 DEF Engines
<1>5. /\ n.default = CASE c.default = "none" -> "absent"
                       [] c.default = "value" -> "plain"
                       [] OTHER -> "expression"
      /\ n.marked = (c.default = "expression")
  <2>1. CASE engine = "mysql"
    BY <1>1, <2>1 DEF Normalized, Described
  <2>2. CASE engine = "mariadb"
    <3>1. /\ r.default \in {"NULL", "absent", "plain", "quoted", "expression"}
          /\ r.default = "expression" <=> c.default = "expression"
          /\ r.default \in {"NULL", "absent"} <=> c.default = "none"
      BY <1>1, <2>2 DEF Described
    <3>2. /\ n.default = IF r.default = "NULL" THEN "absent"
                         ELSE IF r.default = "quoted" THEN "plain" ELSE r.default
          /\ n.marked = (r.default = "expression")
      BY <1>2, <2>2 DEF Normalized, Definitions
    <3> QED
      BY <1>1, <3>1, <3>2
  <2> QED
    BY <2>1, <2>2 DEF Engines
<1>6. /\ d \in Definitions /\ d.default = n.default /\ d.marked = n.marked
      /\ d.type = c.type /\ d.collation = n.collation
      /\ d.nullable = c.nullable /\ d.generated = c.generated
      /\ d.rest = c.rest /\ d.comment = c.comment
  <2> HIDE DEF r, n
  <2>1. d = IF c.type = "json" THEN [n EXCEPT !.type = "json"] ELSE n
    BY DEF Definition, Refined, n, r
  <2> HIDE DEF d
  <2>2. CASE c.type = "json"
    BY <1>2, <1>4, <2>1, <2>2 DEF Definitions, Types
  <2>3. CASE c.type # "json"
    BY <1>2, <1>3, <1>4, <2>1, <2>3
  <2> QED
    BY <2>2, <2>3
<1> HIDE DEF r, n, d
<1>7. Sound(d)
  BY <1>1, <1>5, <1>6 DEF Sound
<1>8. DefaultSql(d) = c.default
  BY <1>1, <1>5, <1>6 DEF DefaultSql
<1>9. (c.type = "text" /\ d.collation = "own") = c.own
  BY <1>1, <1>3, <1>4, <1>6
<1> QED
  BY <1>6, <1>7, <1>8, <1>9 DEF d

\* A definition is restated as a column of the same parts.
LEMMA Restated ==
    ASSUME NEW d, Sound(d)
    PROVE  /\ DefinitionSql(d) \in Columns
           /\ DefinitionSql(d).default # "other"
<1>1. DefaultSql(d) \in {"none", "value", "expression"}
  BY DEF Sound, DefaultSql
<1>2. d \in Definitions
  BY DEF Sound
<1> QED
  BY <1>1, <1>2 DEF DefinitionSql, Columns, Definitions

\* What a change asks is put in the definition.
LEMMA UpdateIsSound ==
    ASSUME NEW d, Sound(d), change \in Changes, Restates(change)
    PROVE  Sound(Updated(d))
<1>1. CASE change.kind = "nullable"
  <2>1. change.value \in BOOLEAN
    BY <1>1 DEF Changes
  <2> QED
    BY <1>1, <2>1 DEF Updated, Sound, Definitions
<1>2. CASE change.kind = "comment"
  <2>1. change.value \in BOOLEAN
    BY <1>2 DEF Changes
  <2> QED
    BY <1>2, <2>1 DEF Updated, Sound, Definitions
<1>3. CASE change.kind = "type"
  <2>1. change.value \in Types
    BY <1>3 DEF Changes
  <2> QED
    BY <1>3, <2>1 DEF Updated, Sound, Definitions
<1> QED
  BY <1>1, <1>2, <1>3 DEF Restates
\* What MODIFY makes of a column that was read as it is: the column with what the
\* change asks, but for what Forgotten names.
LEMMA RoundTrip ==
    ASSUME NEW c, Held(c), engine \in Engines, change \in Changes, Restates(change)
    PROVE  AsAsked(Forgotten(c), DefinitionSql(Updated(Definition(c))))
<1> DEFINE d == Definition(c)
           u == Updated(d)
           m == DefinitionSql(u)
<1>1. /\ d \in Definitions /\ DefaultSql(d) = c.default
      /\ d.type = c.type /\ d.nullable = c.nullable /\ d.generated = c.generated
      /\ d.rest = c.rest /\ d.comment = c.comment
      /\ (c.type = "text" /\ d.collation = "own") = c.own
  BY ReadBack DEF Sound
<1>2. /\ c \in Columns /\ (c.generated # "no" => c.default = "none")
  BY DEF Held, Valid
<1> HIDE DEF d
<1>3. /\ u.default = d.default /\ u.marked = d.marked /\ u.collation = d.collation
      /\ u.generated = d.generated /\ u.rest = d.rest
      /\ u.nullable = IF change.kind = "nullable" THEN change.value ELSE d.nullable
      /\ u.comment = IF change.kind = "comment" THEN change.value ELSE d.comment
      /\ u.type = IF change.kind = "type" THEN change.value ELSE d.type
  <2>1. d = [d EXCEPT !.type = d.type]
    BY <1>1 DEF Definitions
  <2> QED
    BY <1>1 DEF Updated, Restates, Definitions
<1> HIDE DEF u
<1>4. DefaultSql(u) = c.default
  BY <1>1, <1>3 DEF DefaultSql
<1>5. /\ m = [type |-> m.type, own |-> m.own, nullable |-> m.nullable, default |-> m.default,
              generated |-> m.generated, rest |-> m.rest, comment |-> m.comment,
              check |-> m.check]
      /\ m.type = u.type /\ m.nullable = u.nullable /\ m.default = c.default
      /\ m.generated = c.generated /\ m.comment = u.comment /\ m.check = FALSE
      /\ m.rest = IF c.generated = "no" THEN c.rest ELSE ""
      /\ change.kind # "type" => m.own = c.own
      /\ m.own \in BOOLEAN
  BY <1>1, <1>2, <1>3, <1>4, Zenon DEF DefinitionSql
<1> HIDE DEF m
<1> DEFINE f == Forgotten(c)
<1>6. /\ f \in Columns /\ f.type = c.type /\ f.own = c.own /\ f.nullable = c.nullable
      /\ f.default = c.default /\ f.generated = c.generated /\ f.comment = c.comment
      /\ f.check = FALSE /\ f.rest = IF c.generated = "no" THEN c.rest ELSE ""
  BY <1>2 DEF Forgotten, Columns
<1> HIDE DEF f
<1>7. AsAsked(f, m)
  <2> DEFINE R(t, o, n, b, e) == [type |-> t, own |-> o, nullable |-> n, default |-> m.default,
                                  generated |-> m.generated, rest |-> m.rest,
                                  comment |-> b, check |-> e]
  <2>1. f = R(f.type, f.own, f.nullable, f.comment, f.check)
    BY <1>5, <1>6 DEF Columns
  <2>2. m = R(m.type, m.own, m.nullable, m.comment, m.check)
    BY <1>5
  <2>3. m.check = f.check
    BY <1>5, <1>6
  <2>4. CASE change.kind = "nullable"
    <3>1. m = R(f.type, f.own, change.value, f.comment, f.check)
      BY <1>1, <1>3, <1>5, <1>6, <2>2, <2>3, <2>4
    <3>2. [f EXCEPT !.nullable = change.value] = R(f.type, f.own, change.value, f.comment, f.check)
      BY <2>1
    <3> QED
      BY <2>4, <3>1, <3>2 DEF AsAsked
  <2>5. CASE change.kind = "comment"
    <3>1. m = R(f.type, f.own, f.nullable, change.value, f.check)
      BY <1>1, <1>3, <1>5, <1>6, <2>2, <2>3, <2>5
    <3>2. [f EXCEPT !.comment = change.value] = R(f.type, f.own, f.nullable, change.value, f.check)
      BY <2>1
    <3> QED
      BY <2>5, <3>1, <3>2 DEF AsAsked
  <2>6. CASE change.kind = "type"
    <3>1. m = R(change.value, m.own, f.nullable, f.comment, f.check)
      BY <1>1, <1>3, <1>5, <1>6, <2>2, <2>3, <2>6
    <3> DEFINE g == [f EXCEPT !.type = change.value, !.own = m.own]
    <3>2. change.value \in Types /\ m.own \in BOOLEAN
      BY <1>5, <2>6 DEF Changes
    <3>3. /\ g \in Columns /\ g.type = change.value /\ g.own = m.own /\ g.nullable = f.nullable
          /\ g.default = f.default /\ g.generated = f.generated /\ g.rest = f.rest
          /\ g.comment = f.comment /\ g.check = f.check
      BY <1>6, <3>2 DEF Columns
    <3> HIDE DEF g
    <3>4. g = R(change.value, m.own, f.nullable, f.comment, f.check)
      BY <1>5, <1>6, <3>3 DEF Columns
    <3> USE DEF g
    <3> QED
      BY <2>6, <3>1, <3>4 DEF AsAsked
  <2> QED
    BY <2>4, <2>5, <2>6 DEF Restates
<1> QED
  BY <1>7 DEF m, u, d, f
---------------------------------------------------------------------------
(* The steps *)

LEMMA InitIInv ==
    ASSUME Init
    PROVE  IInv
<1>1. PICK n \in Names, c \in {c \in Columns : Valid(c) /\ c.default # "other"} :
        table = [m \in Names |-> IF m = n THEN c ELSE None]
  BY DEF Init
<1>2. table \in [Names -> Columns \cup {None}] /\ TableInv
  BY <1>1 DEF TableInv, Held
<1>3. changes \in 0..MaxChanges /\ copies \in 0..MaxCopies /\ others \in 0..MaxOther
  BY AlterAssumption DEF Init
<1>4. TypeOK
  BY <1>2, <1>3 DEF Init, TypeOK
<1> QED
  BY <1>2, <1>4 DEF Init, IInv, ChangeInv, ReadInv, CopyInv, CopiesOnlyAdd

\* What MODIFY makes is a column the server holds.
LEMMA ModifyHeld ==
    ASSUME IInv, RunModify
    PROVE  Held(DefinitionSql(Updated(read)))
<1>1. change \in Changes /\ Restates(change) /\ Sound(read)
  BY DEF IInv, ChangeInv, ReadInv, RunModify
<1>2. Sound(Updated(read))
  BY <1>1, UpdateIsSound
<1> QED
  BY <1>2, Restated DEF RunModify, Held

LEMMA NextTable ==
    ASSUME IInv, [Next]_vars
    PROVE  table' \in [Names -> Columns \cup {None}] /\ TableInv'
<1> USE DEF IInv, TypeOK, TableInv
<1>0. engine' = engine
  BY DEF Next, vars, Reads, RunsDdl, Copies, Begin, ReadColumn, ReadFails, RunModify,
     RunSetDefault, RunAddColumn, RunRenameColumn, RunDropColumn, RunFails, CopyBegins, Created,
     NotCreated, CreateLost, Filled, NotFilled, DropCopy, DropFails, CopyLost, Copying,
     OtherAlters, OtherTakesName
<1>1. \A c : Held(c)' = Held(c)
  BY <1>0 DEF Held, Valid
<1>2. CASE UNCHANGED table
  BY <1>1, <1>2
<1>3. CASE RunModify
  <2>1. table' = [table EXCEPT ![change.name] = DefinitionSql(Updated(read))]
    BY <1>3 DEF RunModify
  <2>2. Held(DefinitionSql(Updated(read)))
    BY <1>3, ModifyHeld
  <2> HIDE DEF IInv
  <2> QED
    BY <1>1, <2>1, <2>2 DEF IInv, Held
<1>4. CASE RunSetDefault
  <2> DEFINE c == [table[change.name] EXCEPT !.default = change.value]
  <2>1. /\ table' = [table EXCEPT ![change.name] = c] /\ Valid(c) /\ change \in Changes
        /\ change.kind = "default" /\ table[change.name] # None
    BY <1>4 DEF RunSetDefault, ChangeInv
  <2>2. change.value \in {"none", "value", "expression"} /\ change.name \in Names
    BY <2>1 DEF Changes
  <2>3. c \in Columns /\ c.default = change.value
    BY <2>1, <2>2 DEF Columns
  <2>4. Held(c)
    BY <2>1, <2>2, <2>3 DEF Held
  <2> HIDE DEF c
  <2> QED
    BY <1>1, <2>1, <2>3, <2>4
<1>5. CASE RunAddColumn
  <2>1. /\ table' = [table EXCEPT ![change.name] = change.value] /\ change \in Changes
        /\ change.kind = "add"
    BY <1>5 DEF RunAddColumn, ChangeInv
  <2>2. Held(change.value)
    BY <2>1 DEF Changes, Held
  <2> QED
    BY <1>1, <2>1, <2>2 DEF Held
<1>6. CASE RunRenameColumn
  <2>1. /\ table' = [table EXCEPT ![change.name] = None, ![change.value] = table[change.name]]
        /\ change \in Changes /\ change.kind = "rename" /\ table[change.name] # None
    BY <1>6 DEF RunRenameColumn, ChangeInv
  <2>2. change.name \in Names /\ change.value \in Names
    BY <2>1 DEF Changes
  <2>3. Held(table[change.name])
    BY <2>1, <2>2
  <2> QED
    BY <1>1, <2>1, <2>2, <2>3 DEF Held
<1>7. CASE RunDropColumn
  BY <1>1, <1>7 DEF RunDropColumn
<1>8. CASE OtherAlters
  <2>1. PICK n \in Names : table[n] # None /\ table' = [table EXCEPT ![n].comment = ~@]
    BY <1>8 DEF OtherAlters
  <2> DEFINE c == table[n]
             d == [c EXCEPT !.comment = ~c.comment]
  <2>2. c \in Columns /\ Held(c) /\ table' = [table EXCEPT ![n] = d]
    BY <2>1 DEF Held
  <2>3. /\ d \in Columns /\ d.type = c.type /\ d.own = c.own /\ d.nullable = c.nullable
        /\ d.default = c.default /\ d.generated = c.generated /\ d.rest = c.rest
        /\ d.check = c.check
    BY <2>2 DEF Columns
  <2>4. Held(d)
    BY <2>2, <2>3 DEF Held, Valid
  <2> HIDE DEF c, d
  <2> QED
    BY <1>1, <2>2, <2>3, <2>4
<1> QED
  BY <1>2, <1>3, <1>4, <1>5, <1>6, <1>7, <1>8 DEF Next, vars, altering, Reads, RunsDdl, Copies, Begin,
     ReadColumn, ReadFails, RunFails, CopyBegins, Created, NotCreated, CreateLost, Filled, NotFilled,
     DropCopy, DropFails, CopyLost, Copying, OtherTakesName

\* What is read of the table's columns is sound.
LEMMA NextRead ==
    ASSUME IInv, [Next]_vars
    PROVE  ReadInv' /\ ChangeInv' /\ read' \in Definitions \cup {None}
<1> USE DEF IInv, TypeOK, ReadInv, ChangeInv
<1>0. engine' = engine
  BY DEF Next, vars, Reads, RunsDdl, Copies, Begin, ReadColumn, ReadFails, RunModify,
     RunSetDefault, RunAddColumn, RunRenameColumn, RunDropColumn, RunFails, CopyBegins, Created,
     NotCreated, CreateLost, Filled, NotFilled, DropCopy, DropFails, CopyLost, Copying,
     OtherAlters, OtherTakesName
<1>1. /\ \A c : Definition(c)' = Definition(c)
      /\ Changes' = Changes
  <2>1. \A c : Described(c)' = Described(c)
    BY <1>0 DEF Described
  <2>2. \A c : Normalized(Described(c))' = Normalized(Described(c))
    BY <1>0, <2>1 DEF Normalized
  <2>3. \A c : Definition(c)' = Definition(c)
    BY <2>2 DEF Definition, Refined
  <2>4. \A c : Valid(c)' = Valid(c)
    BY <1>0 DEF Valid
  <2>5. Changes' = Changes
    BY <2>4 DEF Changes
  <2> QED
    BY <2>3, <2>5
<1>2. CASE Begin
  BY <1>1, <1>2 DEF Begin, Restates
<1>3. CASE ReadColumn
  <2>1. /\ table[change.name] # None /\ read' = Definition(table[change.name])
        /\ change' = change /\ table' = table /\ change \in Changes
    BY <1>3 DEF ReadColumn, altering
  <2>2. Held(table[change.name])
    BY <2>1 DEF Changes, TableInv
  <2>3. Sound(read')
    BY <2>1, <2>2, ReadBack
  <2> QED
    BY <1>1, <2>1, <2>3 DEF Sound, Restates
<1>4. CASE ReadFails \/ RunsDdl
  BY <1>4 DEF ReadFails, RunsDdl, RunModify, RunSetDefault, RunAddColumn, RunRenameColumn,
     RunDropColumn, RunFails, Stop
<1>5. CASE Copies \/ OtherTakesName \/ UNCHANGED vars
  <2>1. UNCHANGED altering
    BY <1>5 DEF Copies, CopyBegins, Created, NotCreated, CreateLost, Filled, NotFilled,
       DropCopy, DropFails, CopyLost, Copying, OtherTakesName, vars
  <2> QED
    BY <1>1, <2>1 DEF altering, Restates
<1>6. CASE OtherAlters
  BY <1>1, <1>6 DEF OtherAlters, Restates
<1> QED
  BY <1>2, <1>3, <1>4, <1>5, <1>6 DEF Next, Reads
\* A copy makes and drops its own table, and only that.
LEMMA NextCopy ==
    ASSUME IInv, [Next]_vars
    PROVE  CopyInv' /\ CopiesOnlyAdd'
<1> USE DEF IInv, CopyInv, CopiesOnlyAdd
<1>1. CASE Copies
  BY <1>1 DEF Copies, CopyBegins, Created, NotCreated, CreateLost, Filled, NotFilled, DropCopy,
     DropFails, CopyLost, WithRows, Copying
<1>2. CASE Reads \/ RunsDdl \/ OtherAlters \/ UNCHANGED vars
  <2>1. UNCHANGED copying
    BY <1>2 DEF Reads, Begin, ReadColumn, ReadFails, RunsDdl, RunModify, RunSetDefault,
       RunAddColumn, RunRenameColumn, RunDropColumn, RunFails, OtherAlters, vars
  <2> QED
    BY <2>1 DEF copying
<1>3. CASE OtherTakesName
  BY <1>3 DEF OtherTakesName
<1> QED
  BY <1>1, <1>2, <1>3 DEF Next

LEMMA NextType ==
    ASSUME IInv, [Next]_vars
    PROVE  TypeOK'
<1> USE DEF IInv, TypeOK
<1>1. table' \in [Names -> Columns \cup {None}] /\ read' \in Definitions \cup {None}
  BY NextTable, NextRead
<1>2. engine' = engine
  BY DEF Next, vars, Reads, RunsDdl, Copies, Begin, ReadColumn, ReadFails, RunModify,
     RunSetDefault, RunAddColumn, RunRenameColumn, RunDropColumn, RunFails, CopyBegins, Created,
     NotCreated, CreateLost, Filled, NotFilled, DropCopy, DropFails, CopyLost, Copying,
     OtherAlters, OtherTakesName
<1>3. Changes' = Changes
  <2>1. \A c : Valid(c)' = Valid(c)
    BY <1>2 DEF Valid
  <2> QED
    BY <2>1 DEF Changes
<1>4. CASE Begin
  <2>1. changes' \in 0..MaxChanges
    BY <1>4, AlterAssumption DEF Begin
  <2>2. change' \in Changes /\ pc' \in {"read", "run"} /\ altered' \in BOOLEAN
    BY <1>4 DEF Begin
  <2>3. UNCHANGED <<engine, copying, others>>
    BY <1>4 DEF Begin
  <2> QED
    BY <1>1, <1>3, <2>1, <2>2, <2>3 DEF copying
<1>5. CASE ReadColumn
  BY <1>1, <1>3, <1>5 DEF ReadColumn, copying
<1>6. CASE ReadFails \/ RunsDdl
  BY <1>1, <1>2, <1>3, <1>6 DEF ReadFails, RunsDdl, RunModify, RunSetDefault, RunAddColumn,
     RunRenameColumn, RunDropColumn, RunFails, Stop, copying
<1>7. CASE Copies
  <2>1. copies' \in 0..MaxCopies
    BY <1>7, AlterAssumption DEF Copies, CopyBegins, Created, NotCreated, CreateLost, Filled,
       NotFilled, DropCopy, DropFails, CopyLost, Copying
  <2>2. /\ {target', before'} \subseteq {"nothing", "half", "whole", "another"}
        /\ copy' \in {"idle", "create", "fill", "drop", "done", "failed"}
        /\ swapped' \in BOOLEAN /\ left' \in BOOLEAN
        /\ UNCHANGED <<altering, changes, others>>
    BY <1>7 DEF Copies, CopyBegins, Created, NotCreated, CreateLost, Filled,
       NotFilled, DropCopy, DropFails, CopyLost, WithRows, Copying
  <2> QED
    BY <1>1, <1>2, <1>3, <2>1, <2>2 DEF altering
<1>8. CASE OtherAlters
  <2>1. others' \in 0..MaxOther
    BY <1>8, AlterAssumption DEF OtherAlters, Other
  <2>2. altered' \in BOOLEAN /\ UNCHANGED <<pc, change, copying, changes>>
    BY <1>8 DEF OtherAlters
  <2> QED
    BY <1>1, <1>2, <1>3, <2>1, <2>2 DEF copying
<1>9. CASE OtherTakesName
  <2>1. others' \in 0..MaxOther
    BY <1>9, AlterAssumption DEF OtherTakesName, Other
  <2>2. /\ {target', before'} \subseteq {"nothing", "half", "whole", "another"}
        /\ swapped' \in BOOLEAN /\ UNCHANGED <<altering, copy, left, copies, changes>>
    BY <1>9 DEF OtherTakesName
  <2> QED
    BY <1>1, <1>2, <1>3, <2>1, <2>2 DEF altering
<1>10. CASE UNCHANGED vars
  BY <1>1, <1>2, <1>3, <1>10 DEF vars, altering, copying
<1> QED
  BY <1>4, <1>5, <1>6, <1>7, <1>8, <1>9, <1>10 DEF Next, Reads

---------------------------------------------------------------------------
(* The theorems *)

\* The invariant: the table holds columns the server takes, what a change read
\* of one is sound, and what has the copy's name is known.
THEOREM Invariance == Spec => []IInv
<1>1. Init => IInv
  BY InitIInv
<1>2. IInv /\ [Next]_vars => IInv'
  BY NextType, NextRead, NextTable, NextCopy DEF IInv
<1> QED
  BY <1>1, <1>2, PTL DEF Spec

\* The variables keep their types.
THEOREM TypeCorrect == Spec => []TypeOK
<1>1. IInv => TypeOK
  BY DEF IInv
<1> QED
  BY <1>1, Invariance, PTL

\* However often it is tried and wherever it fails, a copy takes no table that had
\* its name, is whole when it answers Ok, and is left behind when it fails only where
\* its DROP failed too or the connection was lost (duplicate).
THEOREM CopiesTakeNoTable == Spec => []CopiesOnlyAdd
<1>1. IInv => CopiesOnlyAdd
  BY DEF IInv
<1> QED
  BY <1>1, Invariance, PTL

\* What a change of the table may do.
AskedStep ==
    pc = "run" /\ pc' = "idle" /\ ~altered /\ table' # table =>
        \A n \in Names :
          /\ n # change.name /\ ~(change.kind = "rename" /\ n = change.value)
               => table'[n] = table[n]
          /\ n = change.name /\ change.kind \notin {"add", "rename", "drop"}
               => \E c \in {table[n], Forgotten(table[n])} : AsAsked(c, table'[n])

LEMMA ChangeAsAsked ==
    ASSUME IInv, Next
    PROVE  AskedStep
<1> SUFFICES ASSUME pc = "run", pc' = "idle", ~altered, table' # table
    PROVE  \A n \in Names :
          /\ n # change.name /\ ~(change.kind = "rename" /\ n = change.value)
               => table'[n] = table[n]
          /\ n = change.name /\ change.kind \notin {"add", "rename", "drop"}
               => \E c \in {table[n], Forgotten(table[n])} : AsAsked(c, table'[n])
  BY DEF AskedStep
<1>0. /\ change \in Changes /\ table \in [Names -> Columns \cup {None}]
      /\ change.name \in Names
  BY DEF IInv, ChangeInv, TypeOK, Changes
<1>1. CASE RunModify
  <2>1. /\ Restates(change) /\ read = Definition(table[change.name])
        /\ table' = [table EXCEPT ![change.name] = DefinitionSql(Updated(read))]
        /\ table[change.name] # None
    BY <1>1 DEF RunModify, IInv, ReadInv
  <2>2. Held(table[change.name]) /\ engine \in Engines
    BY <1>0, <2>1 DEF IInv, TableInv, TypeOK
  <2>3. AsAsked(Forgotten(table[change.name]), table'[change.name])
    BY <1>0, <2>1, <2>2, RoundTrip
  <2>4. \A n \in Names : n # change.name => table'[n] = table[n]
    BY <1>0, <2>1
  <2> QED
    BY <2>3, <2>4
<1>2. CASE RunSetDefault
  <2>1. /\ change.kind = "default"
        /\ table' = [table EXCEPT ![change.name] = [table[change.name] EXCEPT !.default = change.value]]
    BY <1>2 DEF RunSetDefault
  <2>2. AsAsked(table[change.name], table'[change.name])
    BY <1>0, <2>1 DEF AsAsked
  <2>3. \A n \in Names : n # change.name => table'[n] = table[n]
    BY <1>0, <2>1
  <2> QED
    BY <2>2, <2>3
<1>3. CASE RunAddColumn
  BY <1>0, <1>3 DEF RunAddColumn
<1>4. CASE RunRenameColumn
  BY <1>0, <1>4 DEF RunRenameColumn
<1>5. CASE RunDropColumn
  <2>1. change.kind = "drop" /\ table' = [table EXCEPT ![change.name] = None]
    BY <1>5 DEF RunDropColumn
  <2> QED
    BY <1>0, <2>1
<1>6. CASE OtherAlters
  BY <1>6 DEF OtherAlters
<1> QED
  BY <1>1, <1>2, <1>3, <1>4, <1>5, <1>6 DEF Next, Reads, RunsDdl, Copies, Begin, ReadColumn, ReadFails,
     RunFails, CopyBegins, Created, NotCreated, CreateLost, Filled, NotFilled, DropCopy, DropFails,
     CopyLost, Copying, OtherTakesName, altering

\* A change of a column leaves everything it doesn't name as it was, whatever the
\* column and on either server (change_statement, definition_sql).
THEOREM ColumnsAreRestated == Spec => OnlyWhatIsAsked
<1>1. IInv /\ [Next]_vars => [AskedStep]_vars
  BY ChangeAsAsked
<1> QED
  BY <1>1, Invariance, PTL DEF Spec, OnlyWhatIsAsked, AskedStep
=============================================================================
