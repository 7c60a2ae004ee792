----------------------------- MODULE SchemaEditor -----------------------------
(***************************************************************************)
(* The schema editor (services/schema.rs): twelve operations that look up  *)
(* the schema of a project, run one DDL statement, which commits by        *)
(* itself, and then insert an audit row; and one that shows the structure  *)
(* of a table, which it reads in four statements.  Beside it, the table    *)
(* exploration of services/projects.rs: the list of the tables, a page of  *)
(* one, read in three statements, and the DELETE of a row.                 *)
(*                                                                         *)
(* The catalog holds the tables of one project, with their columns,        *)
(* constraints, indexes and rows; a row has its id in one of its columns.  *)
(* A command is the validated input of one request; which commands there   *)
(* are is up to the instance.                                              *)
(***************************************************************************)
EXTENDS Naturals, Sequences, FiniteSets

CONSTANTS
  Requests,    \* the HTTP requests
  Commands,    \* what they may ask for
  Tables,      \* names of tables
  Columns,     \* names of columns
  Types,       \* data types validate_data_type lets pass
  Names,       \* names of constraints and indexes, "pkey" aside
  RowIds,      \* ids of rows, each of which is used once
  Catalogs,    \* what the operator may have made of the project before
  Faults,      \* may statements fail and clients leave?
  None         \* no command yet

Column == [table : Tables, column : Columns, type : Types]
Key == [kind : {"key"}, name : {"pkey"}, table : Tables, column : Columns]
Check == [kind : {"check"}, name : Names, table : Tables, column : Columns]
ForeignKey == [kind : {"fk"}, name : Names, table : Tables, column : Columns,
               to : Tables, toColumn : Columns]
Index == [name : Names, table : Tables, column : Columns]
Row == [id : RowIds, table : Tables, column : Columns \union {None}]

Command ==
  [do : {"create_table"}, table : Tables, column : Columns, type : Types,
   key : BOOLEAN, ifNotExists : BOOLEAN]
  \union [do : {"drop_table"}, table : Tables, cascade : BOOLEAN]
  \union [do : {"rename_table"}, table : Tables, new : Tables]
  \union [do : {"add_column", "alter_column_type"},
          table : Tables, column : Columns, type : Types]
  \union [do : {"drop_column"}, table : Tables, column : Columns,
          cascade : BOOLEAN]
  \union [do : {"rename_column"}, table : Tables, column : Columns,
          new : Columns]
  \union [do : {"add_foreign_key"}, name : Names, table : Tables,
          column : Columns, to : Tables, toColumn : Columns]
  \union [do : {"drop_constraint"}, name : Names \union {"pkey"},
          table : Tables]
  \union [do : {"add_check_constraint", "create_index"}, name : Names,
          table : Tables, column : Columns]
  \union [do : {"drop_index"}, name : Names]
  \union [do : {"get_table_structure"}, table : Tables]
  \union [do : {"list_project_tables"}]
  \union [do : {"get_project_table_data"}, table : Tables, offset : Nat,
          limit : Nat]
  \union [do : {"delete_project_row"}, table : Tables, column : Columns,
          id : RowIds]

Readings ==
  {"get_table_structure", "list_project_tables", "get_project_table_data"}

Catalog == [tables : SUBSET Tables, columns : SUBSET Column,
            constraints : SUBSET (Key \union Check \union ForeignKey),
            indexes : SUBSET Index, rows : SUBSET Row]

On(set, t) == {x \in set : x.table = t}
At(set, t, c) == {x \in set : x.table = t /\ x.column = c}
TypesIn(k, t, c) == {x.type : x \in At(k.columns, t, c)}

(* What PostgreSQL sees to: what is attached is attached to a table or a   *)
(* column that exists, a foreign key to a key of its own type; a column    *)
(* has one type; and an id is that of one row.                             *)
Sound(c) ==
  /\ c \in Catalog /\ IsFiniteSet(c.rows)
  /\ \A x \in c.columns \union c.constraints \union c.indexes \union c.rows :
       x.table \in c.tables
  /\ \A x \in c.constraints \union c.indexes :
       At(c.columns, x.table, x.column) # {}
  /\ \A f \in c.constraints : f.kind = "fk" =>
       /\ \E k \in At(c.constraints, f.to, f.toColumn) : k.kind = "key"
       /\ TypesIn(c, f.table, f.column) = TypesIn(c, f.to, f.toColumn)
  /\ \A x, y \in c.columns : x.table = y.table /\ x.column = y.column => x = y
  /\ \A x, y \in c.rows : x.id = y.id => x = y

ASSUME CommandsAssumption ==
  /\ Commands \subseteq Command
  /\ \A c \in Catalogs : Sound(c)
  /\ None \notin Command \union Columns
  /\ "pkey" \notin Names
  /\ Faults \in BOOLEAN

VARIABLES
  alive,     \* does the project exist?
  catalog,   \* its tables, columns, constraints, indexes and rows
  fresh,     \* the ids of rows that have not been used yet
  audit,     \* requests in the order of their audit rows
  pc,        \* the statement each request awaits
  cmd,       \* its command
  read,      \* what it has read so far
  total,     \* how many rows it has counted
  answer,    \* the HTTP answer; "none" while the handler runs
  done,      \* ghost: the requests that have had their effect
  before,    \* ghost: those answered when each request arrived
  during     \* ghost: has the catalog changed since the first of its reads?

vars == <<alive, catalog, fresh, audit, pc, cmd, read, total, answer, done,
          before, during>>

Empty == [tables |-> {}, columns |-> {}, constraints |-> {}, indexes |-> {},
          rows |-> {}]

-----------------------------------------------------------------------------
(* The statements: each yields the catalogs it may lead to, none if        *)
(* PostgreSQL refuses it.                                                  *)

HasColumn(t, c) == At(catalog.columns, t, c) # {}
TypesOf(t, c) == TypesIn(catalog, t, c)
ForeignKeys == {f \in catalog.constraints : f.kind = "fk"}
Keys == {k \in catalog.constraints : k.kind = "key"}
Referring(t) == {f \in ForeignKeys : f.to = t}
ReferringTo(t, c) == {f \in Referring(t) : f.toColumn = c}
Free(t, n) == \A x \in On(catalog.constraints, t) : x.name # n

Provided(accepted, result) == IF accepted THEN {result} ELSE {}

Without(lost) ==
  [catalog EXCEPT !.columns = @ \ lost, !.constraints = @ \ lost,
                  !.indexes = @ \ lost, !.rows = @ \ lost]
Attached == catalog.columns \union catalog.constraints \union catalog.indexes

Replaced(F(_)) ==
  [catalog EXCEPT !.columns = {F(x) : x \in @},
                  !.constraints = {F(x) : x \in @},
                  !.indexes = {F(x) : x \in @},
                  !.rows = {F(x) : x \in @}]

AddColumnTo(c, m) ==
  [c EXCEPT !.columns =
     @ \union {[table |-> m.table, column |-> m.column, type |-> m.type]}]

IfNotExists(m) == m.ifNotExists

CreateTable(m) ==
  LET key == [kind |-> "key", name |-> "pkey", table |-> m.table,
              column |-> m.column]
  IN  IF m.table \in catalog.tables THEN Provided(IfNotExists(m), catalog)
      ELSE {AddColumnTo(
              [catalog EXCEPT
                 !.tables = @ \union {m.table},
                 !.constraints = @ \union (IF m.key THEN {key} ELSE {})],
              m)}

AlwaysCascade(m) == TRUE           \* slip: CASCADE whatever was asked
Cascade(m) == m.cascade

DropTable(m) ==
  LET gone == On(Attached \union catalog.rows, m.table) IN
  Provided(
    /\ m.table \in catalog.tables
    /\ Cascade(m) \/ Referring(m.table) \subseteq gone,
    [Without(gone \union Referring(m.table)) EXCEPT !.tables = @ \ {m.table}])

RenameTable(m) ==
  LET New(t) == IF t = m.table THEN m.new ELSE t
      Rename(x) == IF "to" \in DOMAIN x
                   THEN [x EXCEPT !.table = New(@), !.to = New(@)]
                   ELSE [x EXCEPT !.table = New(@)]
  IN  Provided(m.table \in catalog.tables /\ m.new \notin catalog.tables,
               [Replaced(Rename) EXCEPT !.tables = {New(t) : t \in @}])

AddColumn(m) ==
  Provided(m.table \in catalog.tables /\ ~HasColumn(m.table, m.column),
           AddColumnTo(catalog, m))

DropColumn(m) ==
  LET gone == At(Attached, m.table, m.column)
      referring == ReferringTo(m.table, m.column)
      Lose(x) == IF x.table = m.table /\ x.column = m.column
                 THEN [x EXCEPT !.column = None] ELSE x
  IN  Provided(/\ HasColumn(m.table, m.column)
               /\ Cascade(m) \/ referring \subseteq gone,
               [Without(gone \union referring) EXCEPT
                  !.rows = {Lose(x) : x \in @}])

RenameColumn(m) ==
  LET New(t, c) == IF t = m.table /\ c = m.column THEN m.new ELSE c
      Rename(x) == IF "to" \in DOMAIN x
                   THEN [x EXCEPT !.column = New(x.table, @),
                                  !.toColumn = New(x.to, @)]
                   ELSE [x EXCEPT !.column = New(x.table, @)]
  IN  Provided(HasColumn(m.table, m.column) /\ ~HasColumn(m.table, m.new),
               Replaced(Rename))

(* Both ends of a foreign key must still compare.                          *)
AlterColumnType(m) ==
  Provided(
    /\ HasColumn(m.table, m.column)
    /\ \A f \in At(ForeignKeys, m.table, m.column) :
         m.type \in TypesOf(f.to, f.toColumn)
    /\ \A f \in ReferringTo(m.table, m.column) :
         m.type \in TypesOf(f.table, f.column),
    AddColumnTo([catalog EXCEPT !.columns = @ \ At(@, m.table, m.column)], m))

AddForeignKey(m) ==
  Provided(
    /\ HasColumn(m.table, m.column) /\ Free(m.table, m.name)
    /\ TypesOf(m.table, m.column) = TypesOf(m.to, m.toColumn)
    /\ At(Keys, m.to, m.toColumn) # {},
    [catalog EXCEPT !.constraints =
       @ \union {[kind |-> "fk", name |-> m.name, table |-> m.table,
                  column |-> m.column, to |-> m.to, toColumn |-> m.toColumn]}])

DropConstraint(m) ==
  LET dropped == {x \in On(catalog.constraints, m.table) : x.name = m.name} IN
  Provided(
    /\ dropped # {}
    /\ \A x \in dropped : x.kind = "key" => ReferringTo(x.table, x.column) = {},
    Without(dropped))

AddCheckConstraint(m) ==
  Provided(
    HasColumn(m.table, m.column) /\ Free(m.table, m.name),
    [catalog EXCEPT !.constraints =
       @ \union {[kind |-> "check", name |-> m.name, table |-> m.table,
                  column |-> m.column]}])

CreateIndex(m) ==
  Provided(
    /\ HasColumn(m.table, m.column)
    /\ \A x \in catalog.indexes : x.name # m.name,
    [catalog EXCEPT !.indexes =
       @ \union {[name |-> m.name, table |-> m.table, column |-> m.column]}])

DropIndex(m) ==
  LET dropped == {x \in catalog.indexes : x.name = m.name}
  IN  Provided(dropped # {}, Without(dropped))

(* DELETE ... WHERE "pk"::TEXT = $1; nothing refers to the row.            *)
Hit(m) == {x \in At(catalog.rows, m.table, m.column) : x.id = m.id}
DeleteRow(m) == Provided(HasColumn(m.table, m.column), Without(Hit(m)))

Outcomes(m) ==
  CASE m.do = "create_table" -> CreateTable(m)
    [] m.do = "drop_table" -> DropTable(m)
    [] m.do = "rename_table" -> RenameTable(m)
    [] m.do = "add_column" -> AddColumn(m)
    [] m.do = "drop_column" -> DropColumn(m)
    [] m.do = "rename_column" -> RenameColumn(m)
    [] m.do = "alter_column_type" -> AlterColumnType(m)
    [] m.do = "add_foreign_key" -> AddForeignKey(m)
    [] m.do = "drop_constraint" -> DropConstraint(m)
    [] m.do = "add_check_constraint" -> AddCheckConstraint(m)
    [] m.do = "create_index" -> CreateIndex(m)
    [] m.do = "delete_project_row" -> DeleteRow(m)
    [] OTHER -> DropIndex(m)

-----------------------------------------------------------------------------
(* The handlers *)

Init ==
  /\ alive = TRUE
  /\ catalog \in Catalogs
  /\ fresh = RowIds \ {x.id : x \in catalog.rows}
  /\ audit = << >>
  /\ pc = [r \in Requests |-> "idle"]
  /\ cmd = [r \in Requests |-> None]
  /\ read = [r \in Requests |-> Empty]
  /\ total = [r \in Requests |-> 0]
  /\ answer = [r \in Requests |-> "none"]
  /\ done = {}
  /\ before = [r \in Requests |-> {}]
  /\ during = [r \in Requests |-> FALSE]

Running(r) == pc[r] # "idle" /\ answer[r] = "none"

Respond(r, a) ==
  /\ pc' = [pc EXCEPT ![r] = "done"]
  /\ answer' = [answer EXCEPT ![r] = IF Running(r) THEN a ELSE @]

Continue(r, step) ==
  /\ pc' = [pc EXCEPT ![r] = IF Running(r) THEN step ELSE "done"]
  /\ UNCHANGED answer

(* Whoever is between its reads notices nothing of a change.               *)
Change(c) ==
  /\ catalog' = c
  /\ during' = [r \in Requests |-> during[r] \/ c # catalog]

(* The identifiers are checked at once, or the body is not what it should  *)
(* be.                                                                     *)
Receive(r, m) ==
  /\ pc[r] = "idle"
  /\ cmd' = [cmd EXCEPT ![r] = m]
  /\ before' = [before EXCEPT ![r] = {q \in Requests : answer[q] # "none"}]
  /\ \/ pc' = [pc EXCEPT ![r] = "schema"] /\ UNCHANGED answer
     \/ /\ pc' = [pc EXCEPT ![r] = "done"]
        /\ answer' = [answer EXCEPT ![r] = "bad request"]
  /\ UNCHANGED <<alive, catalog, fresh, audit, read, total, done, during>>

(* get_schema_name; only then are types, actions and methods validated,    *)
(* and the identifiers of the table exploration.                           *)
ValidatedLate ==
  {"create_table", "add_column", "alter_column_type", "add_foreign_key",
   "create_index", "get_project_table_data", "delete_project_row"}

FirstReading(m) ==
  CASE m.do = "get_table_structure" -> "exists"
    [] m.do = "list_project_tables" -> "list"
    [] OTHER -> "count"
AuditFirst(m) == IF m.do \in Readings THEN FirstReading(m)
                 ELSE "audit"      \* slip: the row before the statement
AfterSchema(m) == IF m.do \in Readings THEN FirstReading(m) ELSE "ddl"

ReadSchema(r) ==
  /\ pc[r] = "schema"
  /\ IF ~alive THEN Respond(r, "not found")
     ELSE \/ Continue(r, AfterSchema(cmd[r]))
          \/ cmd[r].do \in ValidatedLate /\ Respond(r, "bad request")
  /\ UNCHANGED <<alive, catalog, fresh, audit, cmd, read, total, done, before,
                 during>>

(* The statement; a DELETE that finds no row is told so.                   *)
Uncounted(m) == FALSE              \* slip: rows_affected() is not looked at
NoRow(m) == m.do = "delete_project_row" /\ HasColumn(m.table, m.column)
            /\ Hit(m) = {}

Execute(r) ==
  /\ pc[r] = "ddl"
  /\ IF alive /\ NoRow(cmd[r])
     THEN Respond(r, "not found") /\ UNCHANGED <<catalog, during, done>>
     ELSE IF alive /\ Outcomes(cmd[r]) # {}
     THEN /\ \E c \in Outcomes(cmd[r]) : Change(c)
          /\ done' = done \union {r}
          /\ Continue(r, "audit")
     ELSE Respond(r, "error") /\ UNCHANGED <<catalog, during, done>>
  /\ UNCHANGED <<alive, fresh, audit, cmd, read, total, before>>

AuditInBackground(r) ==            \* slip: the answer does not wait for it
  /\ pc[r] = "audit"
  /\ IF Running(r)
     THEN /\ answer' = [answer EXCEPT ![r] = "ok"]
          /\ UNCHANGED <<pc, audit>>
     ELSE /\ audit' = Append(audit, r)
          /\ Continue(r, "done")
  /\ UNCHANGED <<alive, catalog, fresh, cmd, read, total, done, before, during>>

Audit(r) ==
  /\ pc[r] = "audit"
  /\ audit' = Append(audit, r)
  /\ Respond(r, "ok")
  /\ UNCHANGED <<alive, catalog, fresh, cmd, read, total, done, before, during>>

(* get_table_structure: four statements, each of which sees what is        *)
(* committed then.                                                         *)
NotLookedUp(t) == TRUE             \* slip: the table is not looked for
Exists(t) == t \in catalog.tables

LookUpTable(r) ==
  /\ pc[r] = "exists"
  /\ IF Exists(cmd[r].table) THEN Continue(r, "columns")
     ELSE Respond(r, "not found")
  /\ read' = [read EXCEPT ![r] = [Empty EXCEPT !.tables = {cmd[r].table}]]
  /\ during' = [during EXCEPT ![r] = FALSE]
  /\ UNCHANGED <<alive, catalog, fresh, audit, cmd, total, done, before>>

ReadTableColumns(r) ==
  /\ pc[r] = "columns"
  /\ read' = [read EXCEPT ![r].columns = On(catalog.columns, cmd[r].table)]
  /\ Continue(r, "constraints")
  /\ UNCHANGED <<alive, catalog, fresh, audit, cmd, total, done, before, during>>

ReadConstraints(r) ==
  /\ pc[r] = "constraints"
  /\ read' = [read EXCEPT ![r].constraints =
                On(catalog.constraints, cmd[r].table)]
  /\ Continue(r, "indexes")
  /\ UNCHANGED <<alive, catalog, fresh, audit, cmd, total, done, before, during>>

ReadIndexes(r) ==
  /\ pc[r] = "indexes"
  /\ read' = [read EXCEPT ![r].indexes = On(catalog.indexes, cmd[r].table)]
  /\ Respond(r, "ok")
  /\ UNCHANGED <<alive, catalog, fresh, audit, cmd, total, done, before, during>>

(* list_project_tables.                                                    *)
ListTables(r) ==
  /\ pc[r] = "list"
  /\ read' = [read EXCEPT ![r].tables = catalog.tables]
  /\ Respond(r, "ok")
  /\ UNCHANGED <<alive, catalog, fresh, audit, cmd, total, done, before, during>>

(* get_project_table_data: the rows are counted, a page of them is read,   *)
(* in no particular order, and then the names of the columns.  The page    *)
(* and the limit are the subject of Paging.                                *)
CountRows(r) ==
  /\ pc[r] = "count"
  /\ IF Exists(cmd[r].table) THEN Continue(r, "page") ELSE Respond(r, "error")
  /\ total' = [total EXCEPT ![r] = Cardinality(On(catalog.rows, cmd[r].table))]
  /\ during' = [during EXCEPT ![r] = FALSE]
  /\ UNCHANGED <<alive, catalog, fresh, audit, cmd, read, done, before>>

Least(m, n) == IF m < n THEN m ELSE n
Window(n, offset, limit) == IF n < offset THEN 0 ELSE Least(limit, n - offset)

ReadPage(r) ==
  LET m == cmd[r]
      rows == On(catalog.rows, m.table)
  IN
  /\ pc[r] = "page"
  /\ IF Exists(m.table)
     THEN /\ \E s \in SUBSET rows :
               /\ Cardinality(s) = Window(Cardinality(rows), m.offset, m.limit)
               /\ read' = [read EXCEPT ![r].rows = s]
          /\ Continue(r, "header")
     ELSE Respond(r, "error") /\ UNCHANGED read
  /\ UNCHANGED <<alive, catalog, fresh, audit, cmd, total, done, before, during>>

(* Without the names if they cannot be read: unwrap_or_default.            *)
ReadHeader(r) ==
  /\ pc[r] = "header"
  /\ \E c \in {On(catalog.columns, cmd[r].table)}
             \union (IF Faults THEN {{}} ELSE {}) :
       read' = [read EXCEPT ![r].columns = c]
  /\ Respond(r, "ok")
  /\ UNCHANGED <<alive, catalog, fresh, audit, cmd, total, done, before, during>>

(* A statement fails (the rows of the table may forbid it), its answer is  *)
(* lost, or the client leaves.  One that writes may have been sent already.*)
Abandon(r) ==
  /\ Faults
  /\ Running(r)
  /\ answer' = [answer EXCEPT ![r] = "lost"]
  /\ pc' = [pc EXCEPT ![r] = IF @ \in {"ddl", "audit"} THEN @ ELSE "done"]
  /\ UNCHANGED <<alive, catalog, fresh, audit, cmd, read, total, done, before,
                 during>>

NeverRuns(r) ==
  /\ pc[r] \in {"ddl", "audit"} /\ ~Running(r)
  /\ Continue(r, "done")
  /\ UNCHANGED <<alive, catalog, fresh, audit, cmd, read, total, done, before,
                 during>>

(* delete_project commits: DROP SCHEMA CASCADE, and the row.               *)
DeleteProject ==
  /\ alive /\ alive' = FALSE
  /\ Change(Empty)
  /\ UNCHANGED <<fresh, audit, pc, cmd, read, total, answer, done, before>>

(* The application behind the project inserts a row.                       *)
InsertRow(t, i) ==
  /\ t \in catalog.tables /\ i \in fresh
  /\ fresh' = fresh \ {i}
  /\ \E c \in Columns :
       /\ HasColumn(t, c)
       /\ Change([catalog EXCEPT
                    !.rows = @ \union {[id |-> i, table |-> t, column |-> c]}])
  /\ UNCHANGED <<alive, audit, pc, cmd, read, total, answer, done, before>>

Proceed(r) ==
  \/ ReadSchema(r) \/ Execute(r) \/ Audit(r) \/ LookUpTable(r)
  \/ ReadTableColumns(r) \/ ReadConstraints(r) \/ ReadIndexes(r)
  \/ ListTables(r) \/ CountRows(r) \/ ReadPage(r) \/ ReadHeader(r)

Disturb(r) == Abandon(r) \/ NeverRuns(r)

Rest == (\A r \in Requests : pc[r] = "done") /\ UNCHANGED vars

Next == \/ \E r \in Requests, m \in Commands : Receive(r, m)
        \/ \E r \in Requests : Proceed(r) \/ Disturb(r)
        \/ DeleteProject
        \/ \E t \in Tables, i \in RowIds : InsertRow(t, i)
        \/ Rest

Spec == Init /\ [][Next]_vars

-----------------------------------------------------------------------------
(* Properties *)

Recorded == {audit[i] : i \in DOMAIN audit}

(* Types; whatever DDL there was, the catalog is one that PostgreSQL would *)
(* let be; and a request that awaits its audit row has had its effect.     *)
TypeOK ==
  /\ alive \in BOOLEAN
  /\ Sound(catalog) /\ fresh \subseteq RowIds
  /\ audit \in Seq(Requests)
  /\ pc \in [Requests -> {"idle", "schema", "ddl", "audit", "exists",
                          "columns", "constraints", "indexes", "list", "count",
                          "page", "header", "done"}]
  /\ cmd \in [Requests -> Commands \union {None}]
  /\ total \in [Requests -> Nat]
  /\ answer \in [Requests -> {"none", "ok", "not found", "bad request",
                              "error", "lost"}]
  /\ done \subseteq Requests
  /\ before \in [Requests -> SUBSET Requests]
  /\ during \in [Requests -> BOOLEAN]
  /\ \A r \in Requests : pc[r] = "audit" => r \in done \ Recorded

(* q has had an effect that may be later than that of r: it had not been   *)
(* answered when r arrived, or its client did not wait for its end.        *)
MayFollow(q, r) ==
  /\ q # r /\ q \in done
  /\ q \notin before[r] \/ answer[q] = "lost"

Drops(q, t, c) ==
  \/ q.do = "drop_table" /\ q.table = t
  \/ q.do = "drop_column" /\ q.table = t /\ q.column = c
Renames(q) == q.do \in {"rename_table", "rename_column"}

(* A foreign key whose creation was answered with success guards its rows  *)
(* until somebody who was not over before drops it by name, drops the      *)
(* column it is on, or asks for CASCADE at the other end; a plain drop of  *)
(* what it refers to does not take it away.                                *)
ForeignKeysSurvive ==
  \A r \in Requests :
    LET m == cmd[r] IN
    answer[r] = "ok" /\ m.do = "add_foreign_key" /\ alive =>
      \/ \E f \in ForeignKeys :
           f = [kind |-> "fk", name |-> m.name, table |-> m.table,
                column |-> m.column, to |-> m.to, toColumn |-> m.toColumn]
      \/ \E q \in Requests :
           /\ MayFollow(q, r)
           /\ \/ Renames(cmd[q])
              \/ cmd[q].do = "drop_constraint" /\ cmd[q].name = m.name
              \/ Drops(cmd[q], m.table, m.column)
              \/ Drops(cmd[q], m.to, m.toColumn) /\ cmd[q].cascade

(* A create_table that was answered with success made the table it asked   *)
(* for, column and type, unless it said IF NOT EXISTS; that holds until    *)
(* somebody who was not over before changes it.                            *)
CreateHolds ==
  \A r \in Requests :
    LET m == cmd[r] IN
    answer[r] = "ok" /\ m.do = "create_table" /\ alive =>
      \/ m.ifNotExists
      \/ m.type \in TypesOf(m.table, m.column)
      \/ \E q \in Requests :
           /\ MayFollow(q, r)
           /\ \/ Renames(cmd[q]) \/ Drops(cmd[q], m.table, m.column)
              \/ /\ cmd[q].do = "alter_column_type"
                 /\ cmd[q].table = m.table /\ cmd[q].column = m.column

(* DDL that was answered stays until somebody undoes it.                   *)
DdlHolds == ForeignKeysSurvive /\ CreateHolds

(* The structure that is shown is that of a table which exists, as it is,  *)
(* unless the catalog has changed between the first of the four reads and  *)
(* the last.                                                               *)
StructureExplained ==
  \A r \in Requests :
    pc[r] = "indexes" /\ pc'[r] = "done" /\ answer'[r] = "ok" =>
      \/ during[r]
      \/ /\ cmd[r].table \in catalog.tables
         /\ read'[r] = [tables |-> {cmd[r].table},
                        columns |-> On(catalog.columns, cmd[r].table),
                        constraints |-> On(catalog.constraints, cmd[r].table),
                        indexes |-> On(catalog.indexes, cmd[r].table),
                        rows |-> {}]

(* A row is deleted once: of several requests for it one is told of a      *)
(* success and audited, and who asks after that one was answered does not  *)
(* see it on a page.                                                       *)
RowDeletedOnce ==
  \A r, q \in Requests :
    /\ r # q /\ q \in done /\ cmd[q].do = "delete_project_row"
    => /\ r \in done /\ cmd[r].do = "delete_project_row" =>
            cmd[r].id # cmd[q].id
       /\ q \in before[r] /\ answer[q] = "ok" =>
            \A x \in read[r].rows : x.id # cmd[q].id

(* A page is not longer than asked for, and unless the catalog or the rows *)
(* have changed between the three statements, it is the page that its      *)
(* total promises, of rows that are there, under the columns they have, or *)
(* under none where these could not be read.                               *)
TableDataExplained ==
  \A r \in Requests :
    LET m == cmd[r]
        shown == read'[r].rows
    IN  pc[r] = "header" /\ answer'[r] = "ok" =>
          /\ Cardinality(shown) <= m.limit
          /\ \/ during[r]
             \/ /\ shown \subseteq On(catalog.rows, m.table)
                /\ read'[r].columns \in {On(catalog.columns, m.table), {}}
                /\ m.offset + m.limit <= total[r] =>
                     Cardinality(shown) = m.limit
                /\ m.offset <= total[r] /\ total[r] < m.offset + m.limit =>
                     Cardinality(shown) = total[r] - m.offset

(* What is read in several statements is what there was, or has changed.   *)
ReadingExplained == StructureExplained /\ TableDataExplained
ReadingsExplained == [][ReadingExplained]_vars

(* What the audit log of these operations promises: a row for whoever is  *)
(* told of a success, and none for a statement that never ran.             *)
Log == INSTANCE AuditTrail WITH
  trail <- audit,
  answered <- {r \in Requests : /\ cmd[r] # None
                               /\ cmd[r].do \notin Readings
                               /\ answer[r] = "ok"}

ImplementsAuditTrail == Log!Spec
=============================================================================
