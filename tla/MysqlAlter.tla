------------------------------ MODULE MysqlAlter ------------------------------
(***************************************************************************)
(* Structure changes of a table's columns on MySQL and MariaDB              *)
(* (mysql_common/alter.rs over the column definitions of catalog.rs and the *)
(* flavours) and the copy of a table (duplicate, objects.rs), while another *)
(* client changes the same table and the copy's name.                       *)
(*                                                                         *)
(* A change of type, nullability or comment reads the column, restates all  *)
(* of it with MODIFY and so depends on how each server describes one.       *)
(***************************************************************************)
EXTENDS Naturals

CONSTANTS
    Names,     \* names a column of the table may have
    None,      \* no column, no definition
    MaxChanges,\* bound: structure changes of the session
    MaxCopies, \* bound: copies the session asks for
    MaxOther   \* bound: changes another client makes

ASSUME AlterAssumption ==
    None \notin Names /\ {MaxChanges, MaxCopies, MaxOther} \subseteq Nat

Engines == {"mysql", "mariadb"}
Types == {"int", "text", "json", "timestamp"}

\* A column as the server keeps it.  "text" stands for the types with a
\* character set, and own says that the column names its collation.
Columns == [
    type : Types, own : BOOLEAN, nullable : BOOLEAN,
    default : {"none", "value", "expression", "other"},
    generated : {"no", "virtual", "stored"},
    rest : {"", "auto", "onupdate", "invisible"},
    comment : BOOLEAN, check : BOOLEAN]

\* A column as the code reads it (ColumnDefinition).
Definitions == [
    type : Types, collation : {"none", "table", "own"}, nullable : BOOLEAN,
    default : {"absent", "NULL", "plain", "quoted", "expression"}, marked : BOOLEAN,
    generated : {"no", "virtual", "stored"},
    rest : {"", "auto", "onupdate", "invisible"}, comment : BOOLEAN]

VARIABLES
    engine,  \* the flavour of the server
    table,   \* the table's columns by name
    pc,      \* how far the structure change is
    change,  \* the structure change
    read,    \* the definition it read, of a column to restate
    altered, \* another client changed the table since the change began
    target,  \* what has the copy's name: nothing, a copy of the session's (half or
             \* whole) or another table
    copy,    \* how far the copy is
    before,  \* what had the name when the copy began
    swapped, \* another client touched the name since
    left,    \* its DROP failed, or the connection was lost under it
    changes, copies, others \* counters for the bounds

altering == <<table, pc, change, read, altered>>
copying == <<target, copy, before, swapped, left, copies>>
vars == <<engine, altering, copying, changes, others>>

\* The columns a server takes.
Valid(c) ==
    /\ c.own => c.type = "text"
    /\ c.generated # "no" => c.default = "none" /\ c.rest \in {"", "invisible"}
    /\ c.generated # "no" /\ engine = "mariadb" => c.nullable
    /\ c.rest = "auto" => c.type = "int" /\ ~c.nullable /\ c.default = "none"
    /\ c.rest = "onupdate" => c.type = "timestamp"
    \* MySQL keeps the CHECK of a column with the table
    /\ c.check => engine = "mariadb" /\ c.type # "json"

\* The changes of columns; the others of StructureChange leave them as they are.
\* A new column comes without comment and check.
Changes ==
    [kind : {"add"}, name : Names, value :
        {c \in Columns : /\ Valid(c) /\ c.default # "other" /\ c.rest \in {"", "auto"}
                         /\ ~c.own /\ ~c.comment /\ ~c.check}]
      \cup [kind : {"rename"}, name : Names, value : Names]
      \cup [kind : {"drop"}, name : Names, value : {None}]
      \cup [kind : {"nullable", "comment"}, name : Names, value : BOOLEAN]
      \cup [kind : {"type"}, name : Names, value : Types]
      \cup [kind : {"default"}, name : Names, value : {"none", "value", "expression"}]

Restates(c) == c.kind \in {"nullable", "comment", "type"}

TypeOK ==
    /\ engine \in Engines
    /\ table \in [Names -> Columns \cup {None}]
    /\ pc \in {"idle", "read", "run"}
    /\ change \in Changes \cup {None}
    /\ read \in Definitions \cup {None}
    /\ altered \in BOOLEAN /\ swapped \in BOOLEAN /\ left \in BOOLEAN
    /\ {target, before} \subseteq {"nothing", "half", "whole", "another"}
    /\ copy \in {"idle", "create", "fill", "drop", "done", "failed"}
    /\ changes \in 0..MaxChanges /\ copies \in 0..MaxCopies /\ others \in 0..MaxOther

\* A table with one column, of any kind the server takes.
Init ==
    /\ engine \in Engines
    /\ \E n \in Names, c \in {c \in Columns : Valid(c) /\ c.default # "other"} :
         table = [m \in Names |-> IF m = n THEN c ELSE None]
    /\ pc = "idle" /\ change = None /\ read = None /\ altered = FALSE
    /\ target \in {"nothing", "another"} /\ before = target
    /\ copy = "idle" /\ swapped = FALSE /\ left = FALSE
    /\ changes = 0 /\ copies = 0 /\ others = 0

---------------------------------------------------------------------------
(* How a column is read *)

\* A row of information_schema.COLUMNS.  MariaDB writes defaults as SQL, NULL
\* included, marks no expression, and keeps JSON as text with a check.
Described(c) ==
    LET json == engine = "mariadb" /\ c.type = "json"
        raw == CASE c.default = "none" -> IF engine = "mariadb" /\ c.nullable THEN "NULL" ELSE "absent"
                 [] c.default = "expression" -> "expression"
                 [] OTHER -> IF engine = "mariadb" /\ c.type # "int" THEN "quoted" ELSE "plain"
    IN [type |-> IF json THEN "text" ELSE c.type,
        collation |-> IF json \/ c.own THEN "own" ELSE IF c.type = "text" THEN "table" ELSE "none",
        nullable |-> c.nullable, default |-> raw,
        marked |-> c.default = "expression" /\ engine = "mysql",
        generated |-> c.generated, rest |-> c.rest, comment |-> c.comment]

\* Mutant: MariaDB's defaults are taken as MySQL's.
NotNormalized(d) == d

\* Flavor::normalize_column.
Normalized(d) ==
    IF engine = "mysql" THEN d
    ELSE [d EXCEPT !.default = CASE @ = "NULL" -> "absent" [] @ = "quoted" -> "plain" [] OTHER -> @,
                   !.marked = d.default = "expression"]

\* Flavor::refine_columns: the check tells which text is really JSON.
Refined(d, c) == IF c.type = "json" THEN [d EXCEPT !.type = "json"] ELSE d

Definition(c) == Refined(Normalized(Described(c)), c)

(* How it is restated *)

\* default_sql.
DefaultSql(d) ==
    CASE d.default = "absent" -> "none"
      [] d.marked -> "expression"
      [] d.default = "plain" -> "value"
      [] OTHER -> "other"

\* definition_sql: the column MODIFY makes.  A collation that is the table's isn't
\* named, and of a generated column neither a default nor what else EXTRA says.
DefinitionSql(d) ==
    [type |-> d.type, own |-> d.type = "text" /\ d.collation = "own",
     nullable |-> d.nullable,
     default |-> IF d.generated = "no" THEN DefaultSql(d) ELSE "none",
     generated |-> d.generated,
     rest |-> IF d.generated = "no" THEN d.rest ELSE "",
     comment |-> d.comment, check |-> FALSE]

\* modify: the definition as it was read, with what the change asks.
Updated(d) ==
    CASE change.kind = "nullable" -> [d EXCEPT !.nullable = change.value]
      [] change.kind = "comment" -> [d EXCEPT !.comment = change.value]
      [] change.kind = "type" -> [d EXCEPT !.type = change.value]

---------------------------------------------------------------------------
(* apply_change *)

\* A change starts; only those that restate a column read it.
Begin ==
    /\ pc = "idle" /\ changes < MaxChanges /\ changes' = changes + 1
    /\ change' \in Changes
    /\ pc' = IF Restates(change') THEN "read" ELSE "run"
    /\ altered' = FALSE
    /\ UNCHANGED <<engine, table, read, copying, others>>

Stop == pc' = "idle" /\ change' = None /\ read' = None

\* change_statement reads the column as it is now.
ReadColumn ==
    /\ pc = "read" /\ table[change.name] # None
    /\ read' = Definition(table[change.name]) /\ altered' = FALSE
    /\ pc' = "run"
    /\ UNCHANGED <<engine, table, change, copying, changes, others>>

\* "Column c doesn't exist", or no answer of the server.
ReadFails ==
    /\ pc = "read"
    /\ Stop
    /\ UNCHANGED <<engine, table, altered, copying, changes, others>>

\* run_ddl: MODIFY.
RunModify ==
    /\ pc = "run" /\ Restates(change) /\ table[change.name] # None
    /\ Valid(DefinitionSql(Updated(read)))
    /\ table' = [table EXCEPT ![change.name] = DefinitionSql(Updated(read))]
    /\ Stop
    /\ UNCHANGED <<engine, altered, copying, changes, others>>

\* run_ddl: SET DEFAULT, DROP DEFAULT.
RunSetDefault ==
    /\ pc = "run" /\ change.kind = "default" /\ table[change.name] # None
    /\ LET c == [table[change.name] EXCEPT !.default = change.value]
       IN Valid(c) /\ table' = [table EXCEPT ![change.name] = c]
    /\ Stop
    /\ UNCHANGED <<engine, altered, copying, changes, others>>

\* run_ddl: ADD COLUMN, with what column_body spells out.
RunAddColumn ==
    /\ pc = "run" /\ change.kind = "add" /\ table[change.name] = None
    /\ table' = [table EXCEPT ![change.name] = change.value]
    /\ Stop
    /\ UNCHANGED <<engine, altered, copying, changes, others>>

\* run_ddl: RENAME COLUMN.
RunRenameColumn ==
    /\ pc = "run" /\ change.kind = "rename"
    /\ table[change.name] # None /\ table[change.value] = None
    /\ table' = [table EXCEPT ![change.name] = None, ![change.value] = table[change.name]]
    /\ Stop
    /\ UNCHANGED <<engine, altered, copying, changes, others>>

\* run_ddl: DROP COLUMN; a table keeps one.
RunDropColumn ==
    /\ pc = "run" /\ change.kind = "drop"
    /\ \E n \in Names \ {change.name} : table[n] # None
    /\ table' = [table EXCEPT ![change.name] = None]
    /\ Stop
    /\ UNCHANGED <<engine, altered, copying, changes, others>>

\* The server refuses the statement, or its rows don't fit.
RunFails ==
    /\ pc = "run"
    /\ Stop
    /\ UNCHANGED <<engine, table, altered, copying, changes, others>>

---------------------------------------------------------------------------
(* duplicate *)

\* A copy begins, perhaps under the name of one that failed.
CopyBegins ==
    /\ copy \in {"idle", "done", "failed"} /\ copies < MaxCopies /\ copies' = copies + 1
    /\ copy' = "create" /\ before' = target /\ swapped' = FALSE /\ left' = FALSE
    /\ UNCHANGED <<engine, altering, target, changes, others>>

\* What a statement of a copy leaves as it was.
Copying == UNCHANGED <<engine, altering, before, swapped, copies, changes, others>>

\* CREATE TABLE ... LIKE; without the rows that is all.
Created ==
    /\ copy = "create" /\ target = "nothing"
    /\ \/ target' = "half" /\ copy' = "fill"
       \/ target' = "whole" /\ copy' = "done"
    /\ UNCHANGED left /\ Copying

\* Mutant: the copy is dropped whichever statement failed.
NotCreatedDrops == copy = "create" /\ copy' = "drop" /\ UNCHANGED <<target, left>> /\ Copying

\* It fails, which ends the copy: the name is taken, or the table can't be copied.
NotCreated == copy = "create" /\ copy' = "failed" /\ UNCHANGED <<target, left>> /\ Copying

\* Its answer is lost with the connection.  Nothing is dropped for a CREATE.
CreateLost ==
    /\ copy = "create" /\ target = "nothing"
    /\ copy' = "failed" /\ left' = TRUE /\ target' \in {"half", "whole"}
    /\ Copying

WithRows == IF target = "half" THEN "whole" ELSE target

\* INSERT ... SELECT.
Filled ==
    /\ copy = "fill" /\ target # "nothing"
    /\ copy' = "done" /\ target' = WithRows
    /\ UNCHANGED left /\ Copying

\* It fails.
NotFilled == copy = "fill" /\ copy' = "drop" /\ UNCHANGED <<target, left>> /\ Copying

\* DROP TABLE takes what has the name now.
DropCopy ==
    /\ copy = "drop" /\ target # "nothing"
    /\ copy' = "failed" /\ target' = "nothing"
    /\ UNCHANGED left /\ Copying

\* The server refuses it, or waited too long for a lock: the error is ignored.
DropFails ==
    /\ copy = "drop"
    /\ copy' = "failed" /\ left' = TRUE
    /\ UNCHANGED target /\ Copying

\* The INSERT fails with the connection, perhaps when it was done, and so does the DROP.
CopyLost ==
    /\ copy = "fill"
    /\ copy' = "failed" /\ left' = TRUE /\ target' \in {target, WithRows}
    /\ Copying

---------------------------------------------------------------------------
(* Another client *)

Other == others < MaxOther /\ others' = others + 1

OtherAlters ==
    /\ Other /\ pc # "idle"
    /\ \E n \in Names : /\ table[n] # None
                        /\ table' = [table EXCEPT ![n].comment = ~@]
    /\ altered' = TRUE
    /\ UNCHANGED <<engine, pc, change, read, copying, changes>>

OtherTakesName ==
    /\ Other /\ copy # "idle"
    /\ target' \in {"nothing", "another"} \ {target}
    /\ swapped' = TRUE
    /\ UNCHANGED <<engine, altering, copy, before, left, copies, changes>>

---------------------------------------------------------------------------
Reads == Begin \/ ReadColumn \/ ReadFails
RunsDdl == \/ RunModify \/ RunSetDefault \/ RunAddColumn
           \/ RunRenameColumn \/ RunDropColumn \/ RunFails
Copies == \/ CopyBegins \/ Created \/ NotCreated \/ CreateLost
          \/ Filled \/ NotFilled \/ DropCopy \/ DropFails \/ CopyLost

Next == Reads \/ RunsDdl \/ Copies \/ OtherAlters \/ OtherTakesName

Spec == Init /\ [][Next]_vars

---------------------------------------------------------------------------
(* Properties *)

\* What a restated column loses: the server keeps it, its description doesn't
\* have it or the code leaves it out.
Forgotten(c) ==
    [c EXCEPT !.check = FALSE, !.rest = IF c.generated = "no" THEN @ ELSE ""]

\* Column d is column c with only what the change asks.  Another type may bring
\* another collation.
AsAsked(c, d) ==
    CASE change.kind = "nullable" -> d = [c EXCEPT !.nullable = change.value]
      [] change.kind = "comment" -> d = [c EXCEPT !.comment = change.value]
      [] change.kind = "type" -> d = [c EXCEPT !.type = change.value, !.own = d.own]
      [] change.kind = "default" -> d = [c EXCEPT !.default = change.value]
      [] OTHER -> TRUE

\* A change leaves everything it doesn't name as it was: type, collation (or none
\* of its own), default, generation, EXTRA, comment and the other columns, on
\* either server, as definition_sql says ("A column is restated with everything the
\* server keeps about it").  If another client didn't change the table between the
\* read and the MODIFY, and apart from what Forgotten names.
OnlyWhatIsAsked ==
    [][pc = "run" /\ pc' = "idle" /\ ~altered /\ table' # table =>
        \A n \in Names :
          /\ n # change.name /\ ~(change.kind = "rename" /\ n = change.value)
               => table'[n] = table[n]
          /\ n = change.name /\ change.kind \notin {"add", "rename", "drop"}
               => \E c \in {table[n], Forgotten(table[n])} : AsAsked(c, table'[n])]_vars

\* A copy only ever adds a table, and answers Ok only for a whole one (duplicate):
\* whatever had its name stays, be it another table or what an earlier copy left.
\* After one that failed the name has what it had, or else what was made of the
\* copy, and that only where its DROP failed or the connection was lost.  If no other
\* client touches the name meanwhile.
CopiesOnlyAdd ==
    ~swapped =>
      /\ copy = "done" => before = "nothing" /\ target = "whole"
      /\ copy = "failed" =>
           target = before \/ (left /\ before = "nothing" /\ target \in {"half", "whole"})
=============================================================================
