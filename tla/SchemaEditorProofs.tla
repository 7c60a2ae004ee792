------------------------- MODULE SchemaEditorProofs -------------------------
(***************************************************************************)
(* SchemaEditor, for any requests, commands and catalogs: it implements    *)
(* AuditTrail - a DDL statement or the DELETE of a row is the act, the     *)
(* INSERT into audit_logs its record, and nobody is told of a success      *)
(* before -, its catalog stays sound, and what was answered lasts.         *)
(*                                                                         *)
(* Trailed says for each statement what its request has done so far; the   *)
(* middle part says for each of the sixteen operations what becomes of the *)
(* catalog; Coherent ties the two together.                                *)
(***************************************************************************)
EXTENDS SchemaEditor, FiniteSetTheorems, TLAPS

Steps == {"idle", "schema", "ddl", "audit", "exists", "columns",
          "constraints", "indexes", "list", "count", "page", "header", "done"}
Reading == {"exists", "columns", "constraints", "indexes", "list", "count",
            "page", "header"}
Answers == {"none", "ok", "not found", "bad request", "error", "lost"}

Reads(r) == cmd[r] # None /\ cmd[r].do \in Readings

Typed ==
  /\ pc \in [Requests -> Steps]
  /\ cmd \in [Requests -> Commands \union {None}]
  /\ answer \in [Requests -> Answers]
  /\ audit \in Seq(Requests)

(* Who has acted, who has not yet, who never will, and who has been told.  *)
Placed(r) ==
  /\ pc[r] \in {"idle", "schema", "ddl"} => r \notin done
  /\ pc[r] = "audit" => r \in done \ Recorded
  /\ pc[r] \in Reading => Reads(r)
  /\ pc[r] = "idle" => answer[r] = "none"
  /\ pc[r] \notin {"idle", "done"} => cmd[r] # None

Trailed == Typed /\ Recorded \subseteq done /\ \A r \in Requests : Placed(r)

-----------------------------------------------------------------------------

LEMMA InitTrailed == Init => Trailed
<1> SUFFICES ASSUME Init PROVE Trailed
  OBVIOUS
<1>1. Typed
  BY DEF Init, Typed, Steps, Answers
<1>2. \A r \in Requests : Placed(r)
  BY DEF Init, Placed, Reading
<1>3. Recorded = {}
  BY DEF Init, Recorded
<1> QED
  BY <1>1, <1>2, <1>3 DEF Trailed

(* Who was told of the success of a statement.                             *)
Told == {r \in Requests : /\ cmd[r] # None
                         /\ cmd[r].do \notin Readings
                         /\ answer[r] = "ok"}

(* A step of request r alone.                                              *)
Only(r) ==
  \A q \in Requests \ {r} : /\ pc'[q] = pc[q] /\ cmd'[q] = cmd[q]
                            /\ answer'[q] = answer[q]

(* What a step of r that neither acts nor records leaves behind.           *)
LEMMA QuietStep ==
  ASSUME Trailed, NEW r \in Requests, Typed', Only(r), Placed(r)',
         UNCHANGED <<audit, done>>, r \in Told' <=> r \in Told
  PROVE  Trailed' /\ UNCHANGED Log!vars
<1>1. UNCHANGED Recorded
  BY DEF Recorded
<1>2. ASSUME NEW q \in Requests, q # r PROVE Placed(q)'
  BY <1>1, <1>2 DEF Trailed, Placed, Only, Reads
<1>3. Trailed'
  BY <1>1, <1>2 DEF Trailed
<1>4. \A q \in Requests : q \in Told' <=> q \in Told
  BY DEF Only, Told
<1>5. UNCHANGED Told
  BY <1>4 DEF Told
<1> QED
  BY <1>3, <1>5 DEF Log!vars, Told

LEMMA ReceiveQuiet ==
  ASSUME Trailed, NEW r \in Requests, NEW m \in Commands, Receive(r, m)
  PROVE  Trailed' /\ UNCHANGED Log!vars
<1>1. m # None
  BY CommandsAssumption
<1>2. Typed'
  BY DEF Trailed, Typed, Receive, Steps, Answers
<1>3. Only(r)
  BY DEF Trailed, Typed, Receive, Only
<1>4. answer[r] = "none" /\ r \notin done
  BY DEF Trailed, Receive, Placed
<1>5. Placed(r)'
  BY <1>1, <1>4 DEF Trailed, Typed, Receive, Placed, Reading
<1>6. r \notin Told /\ r \notin Told'
  BY <1>4 DEF Trailed, Typed, Receive, Told
<1> QED
  BY <1>2, <1>3, <1>5, <1>6, QuietStep DEF Receive

LEMMA ReadSchemaQuiet ==
  ASSUME Trailed, NEW r \in Requests, ReadSchema(r)
  PROVE  Trailed' /\ UNCHANGED Log!vars
<1>1. Typed'
  BY DEF Trailed, Typed, ReadSchema, Respond, Continue, AfterSchema,
         FirstReading, Steps, Answers
<1>2. Only(r)
  BY DEF Trailed, Typed, ReadSchema, Respond, Continue, Only
<1>3. cmd[r] # None /\ r \notin done
  BY DEF Trailed, ReadSchema, Placed
<1>4. Placed(r)'
  BY <1>3 DEF Trailed, Typed, ReadSchema, Respond, Continue, AfterSchema,
              FirstReading, Placed, Reading, Reads
<1>5. r \in Told' <=> r \in Told
  BY DEF Trailed, Typed, ReadSchema, Respond, Continue, Running, Told
<1> QED
  BY <1>1, <1>2, <1>4, <1>5, QuietStep DEF ReadSchema

(* A statement is the act; one that is refused, or finds no row, is not.   *)
LEMMA ExecuteActs ==
  ASSUME Trailed, NEW r \in Requests, Execute(r)
  PROVE  Trailed' /\ (Log!Act(r) \/ UNCHANGED Log!vars)
<1>1. Typed'
  BY DEF Trailed, Typed, Execute, Respond, Continue, Steps, Answers
<1>2. Only(r)
  BY DEF Trailed, Typed, Execute, Respond, Continue, Only
<1>3. cmd[r] # None /\ r \notin done /\ r \notin Recorded
  BY DEF Trailed, Execute, Placed
<1>4. r \in Told' <=> r \in Told
  BY DEF Trailed, Typed, Execute, Respond, Continue, Running, Told
<1>5. UNCHANGED Recorded
  BY DEF Execute, Recorded
<1>6. CASE UNCHANGED done
  <2>1. Placed(r)'
    BY <1>3, <1>6 DEF Trailed, Typed, Execute, Respond, Continue, Placed, Reading
  <2> QED
    BY <1>1, <1>2, <1>4, <1>6, <2>1, QuietStep DEF Execute
<1>7. CASE done' = done \union {r} /\ Continue(r, "audit")
  <2>1. Placed(r)'
    BY <1>3, <1>5, <1>7 DEF Trailed, Typed, Execute, Continue, Placed, Reading
  <2>2. ASSUME NEW q \in Requests, q # r PROVE Placed(q)'
    BY <1>2, <1>5, <1>7, <2>2 DEF Trailed, Placed, Only, Reads
  <2>3. Trailed'
    BY <1>1, <1>5, <1>7, <2>1, <2>2 DEF Trailed
  <2>4. \A q \in Requests : q \in Told' <=> q \in Told
    BY <1>2, <1>4 DEF Only, Told
  <2>5. UNCHANGED Told
    BY <2>4 DEF Told
  <2>6. Log!Act(r)
    BY <1>3, <1>7, <2>5 DEF Log!Act, Told, Execute
  <2> QED
    BY <2>3, <2>6
<1> QED
  BY <1>6, <1>7 DEF Execute

(* The INSERT is the record, and only then comes the answer.               *)
LEMMA AuditRecords ==
  ASSUME Trailed, NEW r \in Requests, Audit(r)
  PROVE  Trailed' /\ Log!Record(r)
<1>1. audit' \in Seq(Requests) /\ Recorded' = Recorded \union {r}
  <2>1. audit \in Seq(Requests) /\ audit' = Append(audit, r)
    BY DEF Trailed, Typed, Audit
  <2> QED
    BY <2>1 DEF Recorded
<1>2. Typed'
  BY <1>1 DEF Trailed, Typed, Audit, Respond, Steps, Answers
<1>3. Only(r)
  BY DEF Trailed, Typed, Audit, Respond, Only
<1>4. r \in done \ Recorded /\ cmd[r] # None
  BY DEF Trailed, Audit, Placed
<1>5. Placed(r)'
  BY <1>4 DEF Trailed, Typed, Audit, Respond, Placed, Reading
<1>6. ASSUME NEW q \in Requests, q # r PROVE Placed(q)'
  BY <1>1, <1>3, <1>6 DEF Trailed, Placed, Only, Reads, Audit
<1>7. Trailed'
  BY <1>1, <1>2, <1>4, <1>5, <1>6 DEF Trailed, Audit
<1>8. \A q \in Requests \ {r} : q \in Told' <=> q \in Told
  BY <1>3 DEF Only, Told
<1>9. r \in Told => r \in Told'
  BY DEF Trailed, Typed, Audit, Respond, Running, Told
<1>10. Told' = Told \/ Told' = Told \union {r}
  BY <1>8, <1>9 DEF Told
<1>11. Log!Record(r)
  BY <1>4, <1>10 DEF Log!Record, Log!Recorded, Recorded, Told, Audit
<1> QED
  BY <1>7, <1>11

(* The operations that only read neither act nor record.                   *)
LEMMA ReadingQuiet ==
  ASSUME Trailed, NEW r \in Requests,
         \/ LookUpTable(r) \/ ReadTableColumns(r)
         \/ ReadConstraints(r) \/ ReadIndexes(r)
         \/ ListTables(r) \/ CountRows(r) \/ ReadPage(r) \/ ReadHeader(r)
  PROVE  Trailed' /\ UNCHANGED Log!vars
<1>1. /\ \/ \E s \in Steps : /\ s \in Reading
                             /\ Continue(r, s)
         \/ \E a \in Answers : Respond(r, a)
      /\ UNCHANGED <<audit, cmd, done>>
  BY DEF LookUpTable, ReadTableColumns, ReadConstraints, ReadIndexes,
         ListTables, CountRows, ReadPage, ReadHeader, Steps, Reading, Answers
<1>2. Reads(r)
  BY DEF Trailed, Placed, Reading, LookUpTable, ReadTableColumns,
         ReadConstraints, ReadIndexes, ListTables, CountRows, ReadPage,
         ReadHeader
<1>3. Typed'
  BY <1>1 DEF Trailed, Typed, Respond, Continue, Steps, Answers
<1>4. Only(r)
  BY <1>1 DEF Trailed, Typed, Respond, Continue, Only
<1>5. Placed(r)'
  BY <1>1, <1>2 DEF Trailed, Typed, Respond, Continue, Placed, Reading, Reads
<1>6. r \notin Told /\ r \notin Told'
  BY <1>1, <1>2 DEF Told, Reads
<1> QED
  BY <1>1, <1>3, <1>4, <1>5, <1>6, QuietStep

LEMMA DisturbQuiet ==
  ASSUME Trailed, NEW r \in Requests, Disturb(r)
  PROVE  Trailed' /\ UNCHANGED Log!vars
<1>1. Typed'
  BY DEF Trailed, Typed, Disturb, Abandon, NeverRuns, Continue, Running, Steps,
         Answers
<1>2. Only(r)
  BY DEF Trailed, Typed, Disturb, Abandon, NeverRuns, Continue, Only
<1>3. UNCHANGED <<audit, cmd, done>> /\ UNCHANGED Recorded
  BY DEF Disturb, Abandon, NeverRuns, Recorded
<1>4. Placed(r)'
  BY <1>3 DEF Trailed, Typed, Disturb, Abandon, NeverRuns, Continue, Running,
              Placed, Reading, Reads
<1>5. r \in Told' <=> r \in Told
  BY DEF Trailed, Typed, Disturb, Abandon, NeverRuns, Continue, Running, Told
<1> QED
  BY <1>1, <1>2, <1>3, <1>4, <1>5, QuietStep

(* Every step keeps the invariant, and is one of the audit trail or none.  *)
LEMMA StepTrailed ==
  ASSUME Trailed, [Next]_vars
  PROVE  Trailed' /\ [Log!Next]_(Log!vars)
<1>1. CASE \E r \in Requests, m \in Commands : Receive(r, m)
  BY <1>1, ReceiveQuiet
<1>2. ASSUME NEW r \in Requests, Proceed(r)
      PROVE  Trailed' /\ [Log!Next]_(Log!vars)
  BY <1>2, ReadSchemaQuiet, ExecuteActs, AuditRecords, ReadingQuiet
     DEF Proceed, Log!Next
<1>3. ASSUME NEW r \in Requests, Disturb(r)
      PROVE  Trailed' /\ [Log!Next]_(Log!vars)
  BY <1>3, DisturbQuiet
<1>4. CASE \/ DeleteProject \/ UNCHANGED vars
           \/ \E t \in Tables, i \in RowIds : InsertRow(t, i)
  <2>1. UNCHANGED <<audit, pc, cmd, answer, done>>
    BY <1>4 DEF DeleteProject, InsertRow, vars
  <2>2. UNCHANGED Recorded /\ UNCHANGED Told
    BY <2>1 DEF Recorded, Told
  <2>3. Trailed'
    BY <2>1, <2>2 DEF Trailed, Typed, Placed, Reads
  <2> QED
    BY <2>1, <2>2, <2>3 DEF Log!vars, Told
<1> QED
  BY <1>1, <1>2, <1>3, <1>4 DEF Next, Rest

(* Whatever requests there are and whatever they ask for, the schema       *)
(* editor and the deletion of rows implement the audit trail: no row       *)
(* without its change, one row a request, and the row before the answer.   *)
THEOREM SchemaAudited == Spec => ImplementsAuditTrail
<1>1. Init => Log!Init
  BY DEF Init, Log!Init
<1>2. Trailed /\ [Next]_vars => Trailed' /\ [Log!Next]_(Log!vars)
  BY StepTrailed
<1> QED
  BY <1>1, <1>2, InitTrailed, PTL DEF Spec, ImplementsAuditTrail, Log!Spec

-----------------------------------------------------------------------------
(* Catalogs: every statement leads from one that PostgreSQL would let be   *)
(* to another.                                                             *)

Constraint == Key \union Check \union ForeignKey

(* The parts of a catalog do not mix, whatever the names in them are.      *)
LEMMA PartsApart ==
  /\ \A x \in Column : x \notin Constraint /\ x \notin Index /\ x \notin Row
  /\ \A x \in Constraint : x \notin Column /\ x \notin Index /\ x \notin Row
  /\ \A x \in Index : x \notin Column /\ x \notin Constraint /\ x \notin Row
  /\ \A x \in Row : x \notin Column /\ x \notin Constraint /\ x \notin Index
<1>1. \A x \in Column : DOMAIN x = {"table", "column", "type"}
  BY DEF Column
<1>2. \A x \in Constraint : "kind" \in DOMAIN x
  BY DEF Constraint, Key, Check, ForeignKey
<1>3. \A x \in Index : DOMAIN x = {"name", "table", "column"}
  BY DEF Index
<1>4. \A x \in Row : DOMAIN x = {"id", "table", "column"}
  BY DEF Row
<1>5. /\ "name" \notin {"table", "column", "type"}
      /\ "id" \notin {"table", "column", "type"}
      /\ "id" \notin {"name", "table", "column"}
      /\ "kind" \notin {"table", "column", "type"}
      /\ "kind" \notin {"name", "table", "column"}
      /\ "kind" \notin {"id", "table", "column"}
  OBVIOUS
<1>6. /\ "name" \in {"name", "table", "column"}
      /\ "id" \in {"id", "table", "column"}
  OBVIOUS
<1>7. \A x \in Column : x \notin Constraint /\ x \notin Index /\ x \notin Row
  BY <1>1, <1>2, <1>3, <1>4, <1>5, <1>6
<1>8. \A x \in Constraint : x \notin Column /\ x \notin Index /\ x \notin Row
  BY <1>1, <1>2, <1>3, <1>4, <1>5, <1>6
<1>9. \A x \in Index : x \notin Column /\ x \notin Constraint /\ x \notin Row
  BY <1>1, <1>2, <1>3, <1>4, <1>5, <1>6
<1>10. \A x \in Row : x \notin Column /\ x \notin Constraint /\ x \notin Index
  BY <1>1, <1>2, <1>3, <1>4, <1>5, <1>6
<1> QED
  BY <1>7, <1>8, <1>9, <1>10

(* What a catalog is made of.                                              *)
LEMMA CatalogParts ==
  ASSUME NEW c \in Catalog
  PROVE  /\ c.tables \subseteq Tables /\ c.columns \subseteq Column
         /\ c.constraints \subseteq Constraint /\ c.indexes \subseteq Index
         /\ c.rows \subseteq Row
         /\ c = [tables |-> c.tables, columns |-> c.columns,
                 constraints |-> c.constraints, indexes |-> c.indexes,
                 rows |-> c.rows]
BY DEF Catalog, Constraint

(* The parts of a catalog that a statement leaves are those of a catalog.  *)
LEMMA WithoutParts ==
  ASSUME catalog \in Catalog, NEW lost
  PROVE  /\ Without(lost) \in Catalog
         /\ Without(lost).tables = catalog.tables
         /\ Without(lost).columns = catalog.columns \ lost
         /\ Without(lost).constraints = catalog.constraints \ lost
         /\ Without(lost).indexes = catalog.indexes \ lost
         /\ Without(lost).rows = catalog.rows \ lost
BY DEF Without, Catalog

(* A table or a column that is added under a name that is free.            *)
LEMMA AddColumnSound ==
  ASSUME NEW k, Sound(k), NEW m, m.table \in k.tables, m.column \in Columns,
         m.type \in Types, At(k.columns, m.table, m.column) = {}
  PROVE  Sound(AddColumnTo(k, m))
<1> DEFINE new == [table |-> m.table, column |-> m.column, type |-> m.type]
           c == AddColumnTo(k, m)
<1>1. k \in Catalog /\ new \in Column
  BY CatalogParts DEF Sound, Column
<1>2. /\ c \in Catalog
      /\ c.tables = k.tables /\ c.columns = k.columns \union {new}
      /\ c.constraints = k.constraints /\ c.indexes = k.indexes
      /\ c.rows = k.rows
  BY <1>1 DEF AddColumnTo, Catalog
<1> HIDE DEF c
<1>3. \A x \in c.columns \union c.constraints \union c.indexes \union c.rows :
        x.table \in c.tables
  BY <1>2 DEF Sound
<1>4. \A t, o : At(k.columns, t, o) \subseteq At(c.columns, t, o)
  BY <1>2 DEF At
<1>5. \A t, o : At(k.columns, t, o) # {} => At(c.columns, t, o) = At(k.columns, t, o)
  BY <1>2 DEF At
<1>6. \A x \in c.constraints \union c.indexes :
        At(c.columns, x.table, x.column) # {}
  BY <1>2, <1>4 DEF Sound
<1>7. ASSUME NEW f \in c.constraints, f.kind = "fk"
      PROVE  /\ \E x \in At(c.constraints, f.to, f.toColumn) : x.kind = "key"
             /\ TypesIn(c, f.table, f.column) = TypesIn(c, f.to, f.toColumn)
  <2>1. PICK x \in At(k.constraints, f.to, f.toColumn) : x.kind = "key"
    BY <1>2, <1>7 DEF Sound
  <2>2. /\ At(k.columns, f.to, f.toColumn) # {}
        /\ At(k.columns, f.table, f.column) # {}
    BY <1>2, <1>7, <2>1 DEF Sound, At
  <2>3. TypesIn(k, f.table, f.column) = TypesIn(k, f.to, f.toColumn)
    BY <1>2, <1>7 DEF Sound
  <2> QED
    BY <1>2, <1>5, <2>1, <2>2, <2>3 DEF TypesIn
<1>8. \A x, y \in c.columns : x.table = y.table /\ x.column = y.column => x = y
  BY <1>2 DEF Sound, At
<1>9. \A x, y \in c.rows : x.id = y.id => x = y
  BY <1>2 DEF Sound
<1>10. IsFiniteSet(c.rows)
  BY <1>2 DEF Sound
<1>11. Sound(c)
  BY <1>2, <1>3, <1>6, <1>7, <1>8, <1>9, <1>10 DEF Sound
<1> QED
  BY <1>11 DEF c

(* A catalog that has lost some of its parts, each with what hung on it.   *)
LEMMA LessSound ==
  ASSUME NEW k, Sound(k), NEW c \in Catalog,
         c.columns \subseteq k.columns, c.constraints \subseteq k.constraints,
         c.indexes \subseteq k.indexes, c.rows \subseteq k.rows,
         \A x \in c.columns \union c.constraints \union c.indexes \union c.rows :
           x.table \in c.tables,
         \A x \in c.constraints \union c.indexes, y \in k.columns :
           y.table = x.table /\ y.column = x.column => y \in c.columns,
         \A f \in c.constraints, y \in k.constraints :
           f.kind = "fk" /\ y.kind = "key" /\ y.table = f.to
             /\ y.column = f.toColumn => y \in c.constraints
  PROVE  Sound(c)
<1>1. \A x \in c.constraints \union c.indexes :
        At(c.columns, x.table, x.column) = At(k.columns, x.table, x.column)
  BY DEF At
<1>2. \A x \in c.constraints \union c.indexes :
        At(c.columns, x.table, x.column) # {}
  BY <1>1 DEF Sound
<1>3. ASSUME NEW f \in c.constraints, f.kind = "fk"
      PROVE  /\ \E x \in At(c.constraints, f.to, f.toColumn) : x.kind = "key"
             /\ TypesIn(c, f.table, f.column) = TypesIn(c, f.to, f.toColumn)
  <2>1. PICK x \in At(k.constraints, f.to, f.toColumn) : x.kind = "key"
    BY <1>3 DEF Sound
  <2>2. x \in c.constraints /\ x.table = f.to /\ x.column = f.toColumn
    BY <1>3, <2>1 DEF At
  <2>3. /\ At(c.columns, f.to, f.toColumn) = At(k.columns, f.to, f.toColumn)
        /\ At(c.columns, f.table, f.column) = At(k.columns, f.table, f.column)
    BY <1>1, <2>2
  <2>4. TypesIn(k, f.table, f.column) = TypesIn(k, f.to, f.toColumn)
    BY <1>3 DEF Sound
  <2> QED
    BY <2>1, <2>2, <2>3, <2>4 DEF TypesIn, At
<1>4. \A x, y \in c.columns : x.table = y.table /\ x.column = y.column => x = y
  BY DEF Sound
<1>5. \A x, y \in c.rows : x.id = y.id => x = y
  BY DEF Sound
<1>6. IsFiniteSet(c.rows)
  BY FS_Subset DEF Sound
<1> QED
  BY <1>2, <1>3, <1>4, <1>5, <1>6 DEF Sound

(* Rows that change where they are, or which come or go, with their ids.   *)
LEMMA RowsSound ==
  ASSUME NEW k, Sound(k), NEW rows \in SUBSET Row, IsFiniteSet(rows),
         \A x \in rows : x.table \in k.tables,
         \A x, y \in rows : x.id = y.id => x = y
  PROVE  Sound([k EXCEPT !.rows = rows])
<1> DEFINE c == [k EXCEPT !.rows = rows]
<1>1. /\ c \in Catalog
      /\ c.tables = k.tables /\ c.columns = k.columns
      /\ c.constraints = k.constraints /\ c.indexes = k.indexes
      /\ c.rows = rows
  BY DEF Sound, Catalog
<1> HIDE DEF c
<1>2. Sound(c)
  BY <1>1 DEF Sound, TypesIn
<1> QED
  BY <1>2 DEF c

(* The image of a finite set.                                              *)
LEMMA ImageFinite ==
  ASSUME NEW S, IsFiniteSet(S), NEW f, DOMAIN f = S
  PROVE  IsFiniteSet({f[x] : x \in S})
<1> DEFINE T == {f[x] : x \in S}
           g == [x \in S |-> f[x]]
<1>1. g \in Surjection(S, T)
  BY DEF Surjection
<1> QED
  BY <1>1, FS_Surjection

LEMMA DropTableSound ==
  ASSUME Sound(catalog), NEW m, NEW c \in DropTable(m)
  PROVE  Sound(c)
<1> DEFINE gone == On(Attached \union catalog.rows, m.table)
           lost == gone \union Referring(m.table)
<1>1. /\ c = [Without(lost) EXCEPT !.tables = @ \ {m.table}]
      /\ m.table \in catalog.tables
      /\ Cascade(m) \/ Referring(m.table) \subseteq gone
  BY DEF DropTable, Provided
<1>2. catalog \in Catalog
  BY DEF Sound
<1>3. /\ c \in Catalog
      /\ c.tables = catalog.tables \ {m.table}
      /\ c.columns = catalog.columns \ lost
      /\ c.constraints = catalog.constraints \ lost
      /\ c.indexes = catalog.indexes \ lost
      /\ c.rows = catalog.rows \ lost
  BY <1>1, <1>2, WithoutParts DEF Catalog
<1>4. Referring(m.table) \subseteq catalog.constraints
  BY DEF Referring, ForeignKeys
<1>5. \A x \in catalog.columns \union catalog.constraints
              \union catalog.indexes \union catalog.rows :
        x \in gone <=> x.table = m.table
  BY DEF On, Attached
<1>6. \A x \in catalog.columns : x \notin Referring(m.table)
  BY <1>2, <1>4, PartsApart, CatalogParts
<1> HIDE DEF gone
<1>7. \A x \in c.columns \union c.constraints \union c.indexes \union c.rows :
        x.table \in c.tables
  BY <1>3, <1>5 DEF Sound
<1>8. \A x \in c.constraints \union c.indexes, y \in catalog.columns :
        y.table = x.table /\ y.column = x.column => y \in c.columns
  BY <1>3, <1>5, <1>6
<1>9. ASSUME NEW f \in c.constraints, NEW y \in catalog.constraints,
             f.kind = "fk", y.kind = "key", y.table = f.to
      PROVE  y \in c.constraints
  <2>1. f \notin Referring(m.table)
    BY <1>3
  <2>2. f.to # m.table
    BY <1>3, <1>9, <2>1 DEF Referring, ForeignKeys
  <2>3. y \notin Referring(m.table)
    BY <1>9 DEF Referring, ForeignKeys
  <2> QED
    BY <1>3, <1>5, <1>9, <2>2, <2>3
<1> QED
  BY <1>3, <1>7, <1>8, <1>9, LessSound

LEMMA DropConstraintSound ==
  ASSUME Sound(catalog), NEW m, NEW c \in DropConstraint(m)
  PROVE  Sound(c)
<1> DEFINE dropped == {x \in On(catalog.constraints, m.table) : x.name = m.name}
<1>1. /\ c = Without(dropped)
      /\ \A x \in dropped :
           x.kind = "key" => ReferringTo(x.table, x.column) = {}
  BY DEF DropConstraint, Provided
<1>2. dropped \subseteq catalog.constraints
  BY DEF On
<1> HIDE DEF dropped
<1>3. catalog \in Catalog
  BY DEF Sound
<1>4. /\ c \in Catalog
      /\ c.tables = catalog.tables /\ c.columns = catalog.columns \ dropped
      /\ c.constraints = catalog.constraints \ dropped
      /\ c.indexes = catalog.indexes \ dropped
      /\ c.rows = catalog.rows \ dropped
  BY <1>1, <1>3, WithoutParts
<1>5. c.columns = catalog.columns
  BY <1>2, <1>3, <1>4, PartsApart, CatalogParts
<1>6. \A x \in c.columns \union c.constraints \union c.indexes \union c.rows :
        x.table \in c.tables
  BY <1>4 DEF Sound
<1>7. ASSUME NEW f \in c.constraints, NEW y \in catalog.constraints,
             f.kind = "fk", y.kind = "key", y.table = f.to,
             y.column = f.toColumn
      PROVE  y \in c.constraints
  <2>1. f \in ReferringTo(y.table, y.column)
    BY <1>4, <1>7 DEF ReferringTo, Referring, ForeignKeys
  <2> QED
    BY <1>1, <1>4, <1>7, <2>1
<1> QED
  BY <1>4, <1>5, <1>6, <1>7, LessSound

(* Indexes and rows: nothing refers to them.                               *)
LEMMA DropIndexSound ==
  ASSUME Sound(catalog), NEW m, NEW c \in DropIndex(m) \union DeleteRow(m)
  PROVE  Sound(c)
<1>1. PICK lost \in {{x \in catalog.indexes : x.name = m.name}, Hit(m)} :
        c = Without(lost)
  BY DEF DropIndex, DeleteRow, Provided
<1>2. lost \subseteq catalog.indexes \union catalog.rows
  BY DEF Hit, At
<1>3. catalog \in Catalog
  BY DEF Sound
<1>4. /\ c \in Catalog
      /\ c.tables = catalog.tables /\ c.columns = catalog.columns \ lost
      /\ c.constraints = catalog.constraints \ lost
      /\ c.indexes = catalog.indexes \ lost
      /\ c.rows = catalog.rows \ lost
  BY <1>1, <1>3, WithoutParts
<1>5. c.columns = catalog.columns /\ c.constraints = catalog.constraints
  BY <1>2, <1>3, <1>4, PartsApart, CatalogParts
<1>6. \A x \in c.columns \union c.constraints \union c.indexes \union c.rows :
        x.table \in c.tables
  BY <1>4 DEF Sound
<1> QED
  BY <1>4, <1>5, <1>6, LessSound

LEMMA CreateTableSound ==
  ASSUME Sound(catalog), NEW m, m.table \in Tables, m.column \in Columns,
         m.type \in Types, NEW c \in CreateTable(m)
  PROVE  Sound(c)
<1>1. CASE m.table \in catalog.tables
  BY <1>1 DEF CreateTable, Provided
<1>2. CASE m.table \notin catalog.tables
  <2> DEFINE key == [kind |-> "key", name |-> "pkey", table |-> m.table,
                     column |-> m.column]
             new == [table |-> m.table, column |-> m.column, type |-> m.type]
             keys == IF m.key THEN {key} ELSE {}
             k == [catalog EXCEPT !.tables = @ \union {m.table},
                                  !.constraints = @ \union keys]
  <2>1. c = AddColumnTo(k, m)
    BY <1>2 DEF CreateTable
  <2>2. catalog \in Catalog /\ keys \subseteq Key /\ new \in Column
    BY DEF Sound, Key, Column
  <2>3. /\ c \in Catalog
        /\ c.tables = catalog.tables \union {m.table}
        /\ c.columns = catalog.columns \union {new}
        /\ c.constraints = catalog.constraints \union keys
        /\ c.indexes = catalog.indexes /\ c.rows = catalog.rows
    <3> HIDE DEF keys
    <3>1. /\ k \in Catalog
          /\ k.tables = catalog.tables \union {m.table}
          /\ k.columns = catalog.columns
          /\ k.constraints = catalog.constraints \union keys
          /\ k.indexes = catalog.indexes /\ k.rows = catalog.rows
      BY <2>2 DEF Catalog
    <3> HIDE DEF k
    <3> QED
      BY <2>1, <2>2, <3>1 DEF AddColumnTo, Catalog
  <2>4. /\ \A x \in keys : /\ x = key /\ x.table = m.table
                           /\ x.column = m.column /\ x.kind = "key"
        /\ new.table = m.table /\ new.column = m.column
    OBVIOUS
  <2>5. \A x \in catalog.columns \union catalog.constraints
                 \union catalog.indexes \union catalog.rows :
          x.table \in catalog.tables /\ x.table # m.table
    BY <1>2 DEF Sound
  <2> HIDE DEF k, keys, new
  <2>6. \A x \in c.columns \union c.constraints \union c.indexes \union c.rows :
          x.table \in c.tables
    BY <2>3, <2>4, <2>5
  <2>7. \A x \in catalog.constraints \union catalog.indexes :
          At(c.columns, x.table, x.column) = At(catalog.columns, x.table, x.column)
    BY <2>3, <2>4, <2>5 DEF At
  <2>8. \A x \in c.constraints \union c.indexes :
          At(c.columns, x.table, x.column) # {}
    <3>1. new \in At(c.columns, m.table, m.column)
      BY <2>3, <2>4 DEF At
    <3>2. ASSUME NEW x \in catalog.constraints \union catalog.indexes
          PROVE  At(c.columns, x.table, x.column) # {}
      BY <2>7 DEF Sound
    <3>3. ASSUME NEW x \in keys
          PROVE  At(c.columns, x.table, x.column) # {}
      BY <2>4, <3>1
    <3> QED
      BY <2>3, <3>2, <3>3
  <2>9. ASSUME NEW f \in c.constraints, f.kind = "fk"
        PROVE  /\ \E x \in At(c.constraints, f.to, f.toColumn) : x.kind = "key"
               /\ TypesIn(c, f.table, f.column) = TypesIn(c, f.to, f.toColumn)
    <3>1. f \in catalog.constraints
      BY <2>3, <2>4, <2>9
    <3>2. PICK x \in At(catalog.constraints, f.to, f.toColumn) : x.kind = "key"
      BY <2>9, <3>1 DEF Sound
    <3>3. x \in catalog.constraints /\ x.table = f.to /\ x.column = f.toColumn
      BY <3>2 DEF At
    <3>4. x \in At(c.constraints, f.to, f.toColumn)
      BY <2>3, <3>3 DEF At
    <3>5. /\ At(c.columns, f.table, f.column) = At(catalog.columns, f.table, f.column)
          /\ At(c.columns, f.to, f.toColumn) = At(catalog.columns, f.to, f.toColumn)
      BY <2>7, <3>1, <3>3
    <3>6. TypesIn(catalog, f.table, f.column) = TypesIn(catalog, f.to, f.toColumn)
      BY <2>9, <3>1 DEF Sound
    <3> QED
      BY <3>2, <3>4, <3>5, <3>6 DEF TypesIn
  <2>10. \A x, y \in c.columns : x.table = y.table /\ x.column = y.column => x = y
    BY <2>3, <2>4, <2>5 DEF Sound
  <2>11. (\A x, y \in c.rows : x.id = y.id => x = y) /\ IsFiniteSet(c.rows)
    BY <2>3 DEF Sound
  <2> QED
    BY <2>3, <2>6, <2>8, <2>9, <2>10, <2>11 DEF Sound
<1> QED
  BY <1>1, <1>2

LEMMA AddedColumnSound ==
  ASSUME Sound(catalog), NEW m, m.column \in Columns, m.type \in Types,
         NEW c \in AddColumn(m)
  PROVE  Sound(c)
<1>1. /\ m.table \in catalog.tables /\ ~HasColumn(m.table, m.column)
      /\ c = AddColumnTo(catalog, m)
  BY DEF AddColumn, Provided
<1> QED
  BY <1>1, AddColumnSound DEF HasColumn

(* A constraint or an index on a column that exists; a foreign key needs   *)
(* more.                                                                   *)
LEMMA AttachSound ==
  ASSUME Sound(catalog), NEW s \in SUBSET Constraint, NEW i \in SUBSET Index,
         \A x \in s \union i : HasColumn(x.table, x.column),
         \A f \in s : f.kind = "fk" =>
           /\ At(Keys, f.to, f.toColumn) # {}
           /\ TypesOf(f.table, f.column) = TypesOf(f.to, f.toColumn)
  PROVE  Sound([catalog EXCEPT !.constraints = @ \union s,
                               !.indexes = @ \union i])
<1> DEFINE c == [catalog EXCEPT !.constraints = @ \union s,
                                !.indexes = @ \union i]
<1>1. /\ c \in Catalog
      /\ c.tables = catalog.tables /\ c.columns = catalog.columns
      /\ c.constraints = catalog.constraints \union s
      /\ c.indexes = catalog.indexes \union i /\ c.rows = catalog.rows
  BY DEF Sound, Catalog, Constraint
<1> HIDE DEF c
<1>2. \A x \in s \union i : x.table \in catalog.tables
  BY DEF HasColumn, At, Sound
<1>3. \A x \in c.columns \union c.constraints \union c.indexes \union c.rows :
        x.table \in c.tables
  BY <1>1, <1>2 DEF Sound
<1>4. \A x \in c.constraints \union c.indexes :
        At(c.columns, x.table, x.column) # {}
  BY <1>1 DEF Sound, HasColumn
<1>5. ASSUME NEW f \in c.constraints, f.kind = "fk"
      PROVE  /\ \E x \in At(c.constraints, f.to, f.toColumn) : x.kind = "key"
             /\ TypesIn(c, f.table, f.column) = TypesIn(c, f.to, f.toColumn)
  <2>1. CASE f \in catalog.constraints
    <3>1. /\ \E x \in At(catalog.constraints, f.to, f.toColumn) : x.kind = "key"
          /\ TypesIn(catalog, f.table, f.column) = TypesIn(catalog, f.to, f.toColumn)
      BY <1>5, <2>1 DEF Sound
    <3> QED
      BY <1>1, <3>1 DEF TypesIn, At
  <2>2. CASE f \in s
    <3>1. /\ At(Keys, f.to, f.toColumn) # {}
          /\ TypesOf(f.table, f.column) = TypesOf(f.to, f.toColumn)
      BY <1>5, <2>2
    <3>2. \E x \in At(c.constraints, f.to, f.toColumn) : x.kind = "key"
      BY <1>1, <3>1 DEF Keys, At
    <3> QED
      BY <1>1, <3>1, <3>2 DEF TypesOf, TypesIn
  <2> QED
    BY <1>1, <2>1, <2>2
<1>6. /\ \A x, y \in c.columns : x.table = y.table /\ x.column = y.column => x = y
      /\ \A x, y \in c.rows : x.id = y.id => x = y
      /\ IsFiniteSet(c.rows)
  BY <1>1 DEF Sound
<1>7. Sound(c)
  BY <1>1, <1>3, <1>4, <1>5, <1>6 DEF Sound
<1> QED
  BY <1>7 DEF c

LEMMA AddForeignKeySound ==
  ASSUME Sound(catalog), NEW m, m.table \in Tables, m.column \in Columns,
         m.name \in Names, m.to \in Tables, m.toColumn \in Columns,
         NEW c \in AddForeignKey(m)
  PROVE  Sound(c)
<1> DEFINE new == [kind |-> "fk", name |-> m.name, table |-> m.table,
                   column |-> m.column, to |-> m.to, toColumn |-> m.toColumn]
<1>1. /\ HasColumn(m.table, m.column)
      /\ TypesOf(m.table, m.column) = TypesOf(m.to, m.toColumn)
      /\ At(Keys, m.to, m.toColumn) # {}
      /\ c = [catalog EXCEPT !.constraints = @ \union {new}]
  BY DEF AddForeignKey, Provided
<1>2. new \in Constraint
  BY DEF Constraint, ForeignKey
<1>3. /\ new.table = m.table /\ new.column = m.column
      /\ new.to = m.to /\ new.toColumn = m.toColumn
  OBVIOUS
<1> HIDE DEF new
<1>4. Sound([catalog EXCEPT !.constraints = @ \union {new},
                            !.indexes = @ \union {}])
  <2>1. \A x \in {new} \union {} : HasColumn(x.table, x.column)
    BY <1>1, <1>3
  <2>2. \A f \in {new} : f.kind = "fk" =>
          /\ At(Keys, f.to, f.toColumn) # {}
          /\ TypesOf(f.table, f.column) = TypesOf(f.to, f.toColumn)
    BY <1>1, <1>3
  <2> QED
    BY <1>2, <2>1, <2>2, AttachSound
<1>5. c = [catalog EXCEPT !.constraints = @ \union {new},
                          !.indexes = @ \union {}]
  BY <1>1 DEF Sound, Catalog
<1> QED
  BY <1>4, <1>5

LEMMA AddCheckSound ==
  ASSUME Sound(catalog), NEW m, m.table \in Tables, m.column \in Columns,
         m.name \in Names, NEW c \in AddCheckConstraint(m)
  PROVE  Sound(c)
<1> DEFINE new == [kind |-> "check", name |-> m.name, table |-> m.table,
                   column |-> m.column]
<1>1. /\ HasColumn(m.table, m.column)
      /\ c = [catalog EXCEPT !.constraints = @ \union {new}]
  BY DEF AddCheckConstraint, Provided
<1>2. new \in Constraint
  BY DEF Constraint, Check
<1>3. new.table = m.table /\ new.column = m.column /\ new.kind # "fk"
  OBVIOUS
<1> HIDE DEF new
<1>4. Sound([catalog EXCEPT !.constraints = @ \union {new},
                            !.indexes = @ \union {}])
  <2>1. \A x \in {new} \union {} : HasColumn(x.table, x.column)
    BY <1>1, <1>3
  <2> QED
    BY <1>2, <1>3, <2>1, AttachSound
<1>5. c = [catalog EXCEPT !.constraints = @ \union {new},
                          !.indexes = @ \union {}]
  BY <1>1 DEF Sound, Catalog
<1> QED
  BY <1>4, <1>5

LEMMA CreateIndexSound ==
  ASSUME Sound(catalog), NEW m, m.table \in Tables, m.column \in Columns,
         m.name \in Names, NEW c \in CreateIndex(m)
  PROVE  Sound(c)
<1> DEFINE new == [name |-> m.name, table |-> m.table, column |-> m.column]
<1>1. /\ HasColumn(m.table, m.column)
      /\ c = [catalog EXCEPT !.indexes = @ \union {new}]
  BY DEF CreateIndex, Provided
<1>2. new \in Index
  BY DEF Index
<1>3. new.table = m.table /\ new.column = m.column
  OBVIOUS
<1> HIDE DEF new
<1>4. Sound([catalog EXCEPT !.constraints = @ \union {},
                            !.indexes = @ \union {new}])
  <2>1. \A x \in {} \union {new} : HasColumn(x.table, x.column)
    BY <1>1, <1>3
  <2> QED
    BY <1>2, <2>1, AttachSound
<1>5. c = [catalog EXCEPT !.constraints = @ \union {},
                          !.indexes = @ \union {new}]
  BY <1>1 DEF Sound, Catalog
<1> QED
  BY <1>4, <1>5

(* A column has one type.                                                  *)
LEMMA OneType ==
  ASSUME NEW k, Sound(k), NEW t, NEW o, NEW v \in TypesIn(k, t, o)
  PROVE  TypesIn(k, t, o) = {v}
BY DEF Sound, TypesIn, At

LEMMA AlterColumnTypeSound ==
  ASSUME Sound(catalog), NEW m, m.column \in Columns, m.type \in Types,
         NEW c \in AlterColumnType(m)
  PROVE  Sound(c)
<1> DEFINE new == [table |-> m.table, column |-> m.column, type |-> m.type]
           old == At(catalog.columns, m.table, m.column)
           k == [catalog EXCEPT !.columns = @ \ old]
<1>1. /\ HasColumn(m.table, m.column)
      /\ \A f \in At(ForeignKeys, m.table, m.column) :
           m.type \in TypesOf(f.to, f.toColumn)
      /\ \A f \in ReferringTo(m.table, m.column) :
           m.type \in TypesOf(f.table, f.column)
      /\ c = AddColumnTo(k, m)
  BY DEF AlterColumnType, Provided
<1>2. catalog \in Catalog /\ m.table \in catalog.tables
  BY <1>1 DEF Sound, HasColumn, At
<1>3. new \in Column
  BY <1>2, CatalogParts DEF Column
<1>4. /\ c \in Catalog
      /\ c.tables = catalog.tables
      /\ c.columns = (catalog.columns \ old) \union {new}
      /\ c.constraints = catalog.constraints
      /\ c.indexes = catalog.indexes /\ c.rows = catalog.rows
  <2>1. /\ k \in Catalog /\ k.tables = catalog.tables
        /\ k.columns = catalog.columns \ old
        /\ k.constraints = catalog.constraints
        /\ k.indexes = catalog.indexes /\ k.rows = catalog.rows
    BY <1>2 DEF Catalog
  <2> HIDE DEF k
  <2> QED
    BY <1>1, <1>3, <2>1 DEF AddColumnTo, Catalog
<1>5. new.table = m.table /\ new.column = m.column /\ new.type = m.type
  OBVIOUS
<1>6. \A x \in catalog.columns :
        x \in old <=> x.table = m.table /\ x.column = m.column
  BY DEF At
<1> HIDE DEF new, old, k
<1>7. \A t, o : ~(t = m.table /\ o = m.column) =>
        At(c.columns, t, o) = At(catalog.columns, t, o)
  BY <1>4, <1>5, <1>6 DEF At
<1>8. At(c.columns, m.table, m.column) = {new}
  BY <1>4, <1>5, <1>6 DEF At
<1>9. \A t, o : ~(t = m.table /\ o = m.column) =>
        TypesIn(c, t, o) = TypesOf(t, o)
  BY <1>7 DEF TypesIn, TypesOf
<1>10. TypesIn(c, m.table, m.column) = {m.type}
  BY <1>5, <1>8 DEF TypesIn
<1>11. \A x \in c.columns \union c.constraints \union c.indexes \union c.rows :
         x.table \in c.tables
  BY <1>2, <1>4, <1>5 DEF Sound
<1>12. \A x \in c.constraints \union c.indexes :
         At(c.columns, x.table, x.column) # {}
  BY <1>4, <1>7, <1>8 DEF Sound
<1>13. ASSUME NEW f \in c.constraints, f.kind = "fk"
       PROVE  TypesIn(c, f.table, f.column) = TypesIn(c, f.to, f.toColumn)
  <2>1. TypesOf(f.table, f.column) = TypesOf(f.to, f.toColumn)
    BY <1>4, <1>13 DEF Sound, TypesOf
  <2>2. f \in ForeignKeys
    BY <1>4, <1>13 DEF ForeignKeys
  <2>3. ASSUME m.type \in TypesOf(f.to, f.toColumn)
        PROVE  TypesOf(f.to, f.toColumn) = {m.type}
    BY <2>3, OneType DEF TypesOf
  <2>4. CASE f.table = m.table /\ f.column = m.column
    <3>1. TypesOf(f.to, f.toColumn) = {m.type}
      BY <1>1, <2>2, <2>3, <2>4 DEF At
    <3> QED
      BY <1>9, <1>10, <2>4, <3>1
  <2>5. CASE f.to = m.table /\ f.toColumn = m.column
    <3>1. m.type \in TypesOf(f.table, f.column)
      BY <1>1, <2>2, <2>5 DEF ReferringTo, Referring
    <3> QED
      BY <1>9, <1>10, <2>1, <2>3, <2>5, <3>1
  <2> QED
    BY <1>9, <2>1, <2>4, <2>5
<1>14. ASSUME NEW f \in c.constraints, f.kind = "fk"
       PROVE  \E x \in At(c.constraints, f.to, f.toColumn) : x.kind = "key"
  BY <1>4, <1>14 DEF Sound
<1>15. \A x, y \in c.columns : x.table = y.table /\ x.column = y.column => x = y
  BY <1>4, <1>5, <1>6 DEF Sound
<1>16. (\A x, y \in c.rows : x.id = y.id => x = y) /\ IsFiniteSet(c.rows)
  BY <1>4 DEF Sound
<1> QED
  BY <1>4, <1>11, <1>12, <1>13, <1>14, <1>15, <1>16 DEF Sound

LEMMA DropColumnSound ==
  ASSUME Sound(catalog), NEW m, NEW c \in DropColumn(m)
  PROVE  Sound(c)
<1> DEFINE gone == At(Attached, m.table, m.column)
           lost == gone \union ReferringTo(m.table, m.column)
           k == Without(lost)
           Lose(x) == IF x.table = m.table /\ x.column = m.column
                      THEN [x EXCEPT !.column = None] ELSE x
           rows == {Lose(x) : x \in k.rows}
<1>1. c = [k EXCEPT !.rows = rows]
  BY DEF DropColumn, Provided
<1>2. catalog \in Catalog
  BY DEF Sound
<1>3. /\ k \in Catalog
      /\ k.tables = catalog.tables
      /\ k.columns = catalog.columns \ lost
      /\ k.constraints = catalog.constraints \ lost
      /\ k.indexes = catalog.indexes \ lost
      /\ k.rows = catalog.rows \ lost
  BY <1>2, WithoutParts
<1>4. ReferringTo(m.table, m.column) \subseteq catalog.constraints
  BY DEF ReferringTo, Referring, ForeignKeys
<1>5. \A x \in catalog.columns \union catalog.constraints
              \union catalog.indexes :
        x \in gone <=> x.table = m.table /\ x.column = m.column
  BY DEF At, Attached
<1>6. \A x \in catalog.columns : x \notin ReferringTo(m.table, m.column)
  BY <1>2, <1>4, PartsApart, CatalogParts
<1>7. Sound(k)
  <2> HIDE DEF k, gone
  <2>1. \A x \in k.columns \union k.constraints \union k.indexes \union k.rows :
          x.table \in k.tables
    BY <1>3 DEF Sound
  <2>2. \A x \in k.constraints \union k.indexes, y \in catalog.columns :
          y.table = x.table /\ y.column = x.column => y \in k.columns
    BY <1>3, <1>5, <1>6
  <2>3. ASSUME NEW f \in k.constraints, NEW y \in catalog.constraints,
               f.kind = "fk", y.kind = "key", y.table = f.to,
               y.column = f.toColumn
        PROVE  y \in k.constraints
    <3>1. f \notin ReferringTo(m.table, m.column)
      BY <1>3
    <3>2. ~(f.to = m.table /\ f.toColumn = m.column)
      BY <1>3, <2>3, <3>1 DEF ReferringTo, Referring, ForeignKeys
    <3>3. y \notin ReferringTo(m.table, m.column)
      BY <2>3 DEF ReferringTo, Referring, ForeignKeys
    <3> QED
      BY <1>3, <1>5, <2>3, <3>2, <3>3
  <2> QED
    BY <1>3, <2>1, <2>2, <2>3, LessSound
<1> HIDE DEF k
<1>8. \A x \in Row : /\ Lose(x) \in Row
                     /\ Lose(x).id = x.id /\ Lose(x).table = x.table
  BY DEF Row
<1>9. k.rows \subseteq Row
  BY <1>3, CatalogParts
<1>10. IsFiniteSet(rows)
  <2> DEFINE f == [x \in k.rows |-> Lose(x)]
  <2>1. IsFiniteSet({f[x] : x \in k.rows})
    <3>1. DOMAIN f = k.rows /\ IsFiniteSet(k.rows)
      BY <1>7 DEF Sound
    <3> HIDE DEF f
    <3> QED
      BY <3>1, ImageFinite
  <2>2. rows = {f[x] : x \in k.rows}
    OBVIOUS
  <2> QED
    BY <2>1, <2>2
<1> HIDE DEF Lose
<1>11. rows \subseteq Row /\ \A x \in rows : x.table \in k.tables
  BY <1>7, <1>8, <1>9 DEF Sound
<1>12. \A x, y \in rows : x.id = y.id => x = y
  BY <1>7, <1>8, <1>9 DEF Sound
<1> QED
  BY <1>1, <1>7, <1>10, <1>11, <1>12, RowsSound

(* Everything that is renamed is renamed everywhere, and to a name of its  *)
(* own: F is the renaming of the parts, T that of the tables and C that of *)
(* the columns.                                                            *)
Renaming(k, c, F, T, C) ==
  /\ DOMAIN F = k.columns \union k.constraints \union k.indexes \union k.rows
  /\ c.tables = {T[t] : t \in k.tables}
  /\ c.columns = {F[x] : x \in k.columns}
  /\ c.constraints = {F[x] : x \in k.constraints}
  /\ c.indexes = {F[x] : x \in k.indexes}
  /\ c.rows = {F[x] : x \in k.rows}
  /\ \A t, u \in k.tables : T[t] = T[u] => t = u
  /\ \A x \in DOMAIN F : F[x].table = T[x.table]
  /\ \A x \in k.columns \union k.constraints \union k.indexes :
       F[x].column = C[x.table][x.column]
  /\ \A x \in k.columns : F[x].type = x.type
  /\ \A x \in k.rows : F[x].id = x.id
  /\ \A x \in k.constraints : F[x].kind = x.kind
  /\ \A f \in k.constraints : f.kind = "fk" =>
       F[f].to = T[f.to] /\ F[f].toColumn = C[f.to][f.toColumn]
  /\ \A x, y \in k.columns :
       x.table = y.table /\ C[x.table][x.column] = C[y.table][y.column]
         => x.column = y.column

LEMMA RenamedSound ==
  ASSUME NEW k, Sound(k), NEW c \in Catalog, NEW F, NEW T, NEW C,
         Renaming(k, c, F, T, C)
  PROVE  Sound(c)
<1> USE DEF Renaming
<1>1. \A x \in DOMAIN F : x.table \in k.tables
  BY DEF Sound
<1>2. \A x \in c.columns \union c.constraints \union c.indexes \union c.rows :
        x.table \in c.tables
  BY <1>1
<1>3. ASSUME NEW x \in k.columns, NEW y \in k.columns, F[x].table = F[y].table,
             F[x].column = F[y].column
      PROVE  x = y
  <2>1. x.table = y.table
    BY <1>1, <1>3
  <2>2. x.column = y.column
    BY <1>3, <2>1
  <2> QED
    BY <2>1, <2>2 DEF Sound
<1>4. ASSUME NEW x \in k.columns
      PROVE  TypesIn(c, T[x.table], C[x.table][x.column])
               = TypesIn(k, x.table, x.column)
  <2>1. \A v : v \in TypesIn(k, x.table, x.column) <=> v = x.type
    BY DEF TypesIn, At, Sound
  <2>2. \A v : v \in TypesIn(c, F[x].table, F[x].column) <=> v = x.type
    BY <1>3 DEF TypesIn, At
  <2>3. F[x].table = T[x.table] /\ F[x].column = C[x.table][x.column]
    OBVIOUS
  <2>4. \A v : v \in TypesIn(c, T[x.table], C[x.table][x.column]) <=> v = x.type
    BY <2>2, <2>3
  <2> QED
    BY <2>1, <2>4 DEF TypesIn
<1>5. ASSUME NEW x \in k.constraints \union k.indexes
      PROVE  \E y \in k.columns : y.table = x.table /\ y.column = x.column
  BY DEF Sound, At
<1>6. ASSUME NEW z \in c.constraints \union c.indexes
      PROVE  At(c.columns, z.table, z.column) # {}
  <2>1. PICK x \in k.constraints \union k.indexes : z = F[x]
    OBVIOUS
  <2>2. PICK y \in k.columns : y.table = x.table /\ y.column = x.column
    BY <1>5
  <2>3. F[y].table = z.table /\ F[y].column = z.column
    BY <2>1, <2>2
  <2> QED
    BY <2>3 DEF At
<1>7. ASSUME NEW g \in c.constraints, g.kind = "fk"
      PROVE  /\ \E z \in At(c.constraints, g.to, g.toColumn) : z.kind = "key"
             /\ TypesIn(c, g.table, g.column) = TypesIn(c, g.to, g.toColumn)
  <2>1. PICK f \in k.constraints : g = F[f]
    OBVIOUS
  <2>2. f.kind = "fk"
    BY <1>7, <2>1
  <2>3. PICK x \in At(k.constraints, f.to, f.toColumn) : x.kind = "key"
    BY <2>2 DEF Sound
  <2>4. x \in k.constraints /\ x.table = f.to /\ x.column = f.toColumn
    BY <2>3 DEF At
  <2>5. /\ F[x] \in c.constraints /\ F[x].kind = "key"
        /\ F[x].table = g.to /\ F[x].column = g.toColumn
    BY <2>1, <2>2, <2>3, <2>4
  <2>6. PICK y \in k.columns : y.table = f.table /\ y.column = f.column
    BY <1>5
  <2>7. PICK z \in k.columns : z.table = f.to /\ z.column = f.toColumn
    BY <1>5, <2>4
  <2>8. TypesIn(k, f.table, f.column) = TypesIn(k, f.to, f.toColumn)
    BY <2>2 DEF Sound
  <2>9. /\ TypesIn(c, T[f.table], C[f.table][f.column])
             = TypesIn(k, f.table, f.column)
        /\ TypesIn(c, T[f.to], C[f.to][f.toColumn]) = TypesIn(k, f.to, f.toColumn)
    BY <1>4, <2>6, <2>7
  <2>10. TypesIn(c, g.table, g.column) = TypesIn(c, g.to, g.toColumn)
    BY <2>1, <2>2, <2>8, <2>9
  <2> QED
    BY <2>5, <2>10 DEF At
<1>8. \A x, y \in c.columns : x.table = y.table /\ x.column = y.column => x = y
  BY <1>3
<1>9. \A x, y \in c.rows : x.id = y.id => x = y
  BY DEF Sound
<1>10. IsFiniteSet(c.rows)
  <2> DEFINE f == [x \in k.rows |-> F[x]]
  <2>1. DOMAIN f = k.rows /\ IsFiniteSet(k.rows)
    BY DEF Sound
  <2>2. c.rows = {f[x] : x \in k.rows}
    OBVIOUS
  <2> HIDE DEF f
  <2>3. IsFiniteSet({f[x] : x \in k.rows})
    BY <2>1, ImageFinite
  <2> QED
    BY <2>2, <2>3
<1> QED
  BY <1>2, <1>6, <1>7, <1>8, <1>9, <1>10 DEF Sound

(* What else the kinds of parts have.                                      *)
LEMMA PartsHave ==
  /\ \A x \in Column : "to" \notin DOMAIN x
  /\ \A x \in Index : "to" \notin DOMAIN x
  /\ \A x \in Row : "to" \notin DOMAIN x
  /\ \A x \in Key : "to" \notin DOMAIN x /\ x.kind = "key"
  /\ \A x \in Check : "to" \notin DOMAIN x /\ x.kind = "check"
  /\ \A x \in ForeignKey : "to" \in DOMAIN x /\ x.kind = "fk"
<1>1. \A x \in Column : DOMAIN x = {"table", "column", "type"}
  BY DEF Column
<1>2. \A x \in Index : DOMAIN x = {"name", "table", "column"}
  BY DEF Index
<1>3. \A x \in Row : DOMAIN x = {"id", "table", "column"}
  BY DEF Row
<1>4. \A x \in Key : DOMAIN x = {"kind", "name", "table", "column"} /\ x.kind = "key"
  BY DEF Key
<1>5. \A x \in Check :
        DOMAIN x = {"kind", "name", "table", "column"} /\ x.kind = "check"
  BY DEF Check
<1>6. \A x \in ForeignKey :
        /\ DOMAIN x = {"kind", "name", "table", "column", "to", "toColumn"}
        /\ x.kind = "fk"
  BY DEF ForeignKey
<1> QED
  BY <1>1, <1>2, <1>3, <1>4, <1>5, <1>6

LEMMA RenameTableSound ==
  ASSUME Sound(catalog), NEW m, m.new \in Tables, NEW c \in RenameTable(m)
  PROVE  Sound(c)
<1> DEFINE New(t) == IF t = m.table THEN m.new ELSE t
           Rename(x) == IF "to" \in DOMAIN x
                        THEN [x EXCEPT !.table = New(@), !.to = New(@)]
                        ELSE [x EXCEPT !.table = New(@)]
           parts == catalog.columns \union catalog.constraints
                      \union catalog.indexes \union catalog.rows
           F == [x \in parts |-> Rename(x)]
           T == [t \in Tables |-> New(t)]
           C == [t \in Tables |-> [o \in Columns |-> o]]
<1>1. /\ m.table \in catalog.tables /\ m.new \notin catalog.tables
      /\ c = [[catalog EXCEPT !.columns = {Rename(x) : x \in @},
                              !.constraints = {Rename(x) : x \in @},
                              !.indexes = {Rename(x) : x \in @},
                              !.rows = {Rename(x) : x \in @}]
               EXCEPT !.tables = {New(t) : t \in @}]
  BY DEF RenameTable, Provided, Replaced
<1>2. catalog \in Catalog
  BY DEF Sound
<1>3. /\ catalog.tables \subseteq Tables /\ catalog.columns \subseteq Column
      /\ catalog.constraints \subseteq Constraint
      /\ catalog.indexes \subseteq Index /\ catalog.rows \subseteq Row
  BY <1>2, CatalogParts
<1>4. \A t \in Tables : New(t) \in Tables /\ T[t] = New(t)
  OBVIOUS
<1> HIDE DEF New, T
<1>5. \A x \in Column : /\ Rename(x) \in Column /\ Rename(x).table = New(x.table)
                        /\ Rename(x).column = x.column
                        /\ Rename(x).type = x.type
  BY <1>4, PartsHave DEF Column
<1>6. \A x \in Index : /\ Rename(x) \in Index /\ Rename(x).table = New(x.table)
                       /\ Rename(x).column = x.column
  BY <1>4, PartsHave DEF Index
<1>7. \A x \in Row : /\ Rename(x) \in Row /\ Rename(x).table = New(x.table)
                     /\ Rename(x).id = x.id
  BY <1>4, PartsHave DEF Row
<1>8. \A x \in Key : /\ Rename(x) \in Key /\ Rename(x).table = New(x.table)
                     /\ Rename(x).column = x.column
  BY <1>4, PartsHave DEF Key
<1>9. \A x \in Check : /\ Rename(x) \in Check /\ Rename(x).table = New(x.table)
                       /\ Rename(x).column = x.column
  BY <1>4, PartsHave DEF Check
<1>10. \A x \in ForeignKey :
         /\ Rename(x) \in ForeignKey /\ Rename(x).table = New(x.table)
         /\ Rename(x).column = x.column
         /\ Rename(x).to = New(x.to) /\ Rename(x).toColumn = x.toColumn
  BY <1>4, PartsHave DEF ForeignKey
<1>11. \A x \in Constraint :
         /\ Rename(x) \in Constraint /\ Rename(x).table = New(x.table)
         /\ Rename(x).column = x.column /\ Rename(x).kind = x.kind
         /\ x.kind = "fk" => x \in ForeignKey
  BY <1>8, <1>9, <1>10, PartsHave DEF Constraint
<1> HIDE DEF Rename
<1>12. /\ c.tables = {New(t) : t \in catalog.tables}
       /\ c.columns = {Rename(x) : x \in catalog.columns}
       /\ c.constraints = {Rename(x) : x \in catalog.constraints}
       /\ c.indexes = {Rename(x) : x \in catalog.indexes}
       /\ c.rows = {Rename(x) : x \in catalog.rows}
       /\ c \in Catalog
  <2>1. /\ {New(t) : t \in catalog.tables} \subseteq Tables
        /\ {Rename(x) : x \in catalog.columns} \subseteq Column
        /\ {Rename(x) : x \in catalog.constraints} \subseteq Constraint
        /\ {Rename(x) : x \in catalog.indexes} \subseteq Index
        /\ {Rename(x) : x \in catalog.rows} \subseteq Row
    BY <1>3, <1>4, <1>5, <1>6, <1>7, <1>11
  <2>2. c = [tables |-> {New(t) : t \in catalog.tables},
             columns |-> {Rename(x) : x \in catalog.columns},
             constraints |-> {Rename(x) : x \in catalog.constraints},
             indexes |-> {Rename(x) : x \in catalog.indexes},
             rows |-> {Rename(x) : x \in catalog.rows}]
    BY <1>1, <1>2 DEF Catalog
  <2> QED
    BY <2>1, <2>2 DEF Catalog, Constraint
<1>13. \A x \in parts : F[x] = Rename(x)
  OBVIOUS
<1>14. /\ DOMAIN F = parts /\ catalog.columns \subseteq parts
       /\ catalog.constraints \subseteq parts
       /\ catalog.indexes \subseteq parts /\ catalog.rows \subseteq parts
  OBVIOUS
<1>15. \A x \in parts : x.table \in catalog.tables
  BY DEF Sound
<1>16. \A x \in catalog.columns \union catalog.constraints
               \union catalog.indexes :
         C[x.table][x.column] = x.column
  <2>1. \A x \in Column \union Constraint \union Index :
          x.table \in Tables /\ x.column \in Columns
    BY DEF Column, Constraint, Key, Check, ForeignKey, Index
  <2> QED
    BY <1>3, <2>1
<1>17. \A f \in ForeignKey :
         f.to \in Tables /\ f.toColumn \in Columns
           /\ C[f.to][f.toColumn] = f.toColumn
  BY DEF ForeignKey
<1> HIDE DEF F, C, parts
<1>18. /\ c.tables = {T[t] : t \in catalog.tables}
       /\ c.columns = {F[x] : x \in catalog.columns}
       /\ c.constraints = {F[x] : x \in catalog.constraints}
       /\ c.indexes = {F[x] : x \in catalog.indexes}
       /\ c.rows = {F[x] : x \in catalog.rows}
  <2>1. {New(t) : t \in catalog.tables} = {T[t] : t \in catalog.tables}
    BY <1>3, <1>4
  <2>2. {Rename(x) : x \in catalog.columns} = {F[x] : x \in catalog.columns}
    BY <1>13, <1>14
  <2>3. {Rename(x) : x \in catalog.constraints} = {F[x] : x \in catalog.constraints}
    BY <1>13, <1>14
  <2>4. {Rename(x) : x \in catalog.indexes} = {F[x] : x \in catalog.indexes}
    BY <1>13, <1>14
  <2>5. {Rename(x) : x \in catalog.rows} = {F[x] : x \in catalog.rows}
    BY <1>13, <1>14
  <2> QED
    BY <1>12, <2>1, <2>2, <2>3, <2>4, <2>5
<1>19. \A t, u \in catalog.tables : T[t] = T[u] => t = u
  BY <1>1, <1>3, <1>4 DEF New
<1>20. \A x \in DOMAIN F : F[x].table = T[x.table]
  <2>1. \A x \in parts :
          x \in Column \/ x \in Constraint \/ x \in Index \/ x \in Row
    BY <1>3 DEF parts
  <2>2. \A x \in parts : Rename(x).table = New(x.table)
    BY <1>5, <1>6, <1>7, <1>11, <2>1
  <2> QED
    BY <1>3, <1>4, <1>13, <1>14, <1>15, <2>2
<1>21. \A x \in catalog.columns \union catalog.constraints
                \union catalog.indexes : F[x].column = C[x.table][x.column]
  BY <1>3, <1>5, <1>6, <1>11, <1>13, <1>14, <1>16
<1>22. /\ \A x \in catalog.columns : F[x].type = x.type
       /\ \A x \in catalog.rows : F[x].id = x.id
       /\ \A x \in catalog.constraints : F[x].kind = x.kind
  BY <1>3, <1>5, <1>7, <1>11, <1>13, <1>14
<1>23. \A f \in catalog.constraints : f.kind = "fk" =>
         F[f].to = T[f.to] /\ F[f].toColumn = C[f.to][f.toColumn]
  BY <1>3, <1>4, <1>10, <1>11, <1>13, <1>14, <1>17
<1>24. \A x, y \in catalog.columns :
         x.table = y.table /\ C[x.table][x.column] = C[y.table][y.column]
           => x.column = y.column
  BY <1>16
<1>25. DOMAIN F = catalog.columns \union catalog.constraints
                    \union catalog.indexes \union catalog.rows
  BY <1>14 DEF parts
<1>26. Renaming(catalog, c, F, T, C)
  BY <1>18, <1>19, <1>20, <1>21, <1>22, <1>23, <1>24, <1>25 DEF Renaming
<1> QED
  BY <1>12, <1>26, RenamedSound

LEMMA RenameColumnSound ==
  ASSUME Sound(catalog), NEW m, m.new \in Columns, NEW c \in RenameColumn(m)
  PROVE  Sound(c)
<1> DEFINE New(t, o) == IF t = m.table /\ o = m.column THEN m.new ELSE o
           Rename(x) == IF "to" \in DOMAIN x
                        THEN [x EXCEPT !.column = New(x.table, @),
                                       !.toColumn = New(x.to, @)]
                        ELSE [x EXCEPT !.column = New(x.table, @)]
           parts == catalog.columns \union catalog.constraints
                      \union catalog.indexes \union catalog.rows
           F == [x \in parts |-> Rename(x)]
           T == [t \in Tables |-> t]
           C == [t \in Tables |-> [o \in Columns |-> New(t, o)]]
<1>1. /\ ~HasColumn(m.table, m.new)
      /\ c = [catalog EXCEPT !.columns = {Rename(x) : x \in @},
                             !.constraints = {Rename(x) : x \in @},
                             !.indexes = {Rename(x) : x \in @},
                             !.rows = {Rename(x) : x \in @}]
  BY DEF RenameColumn, Provided, Replaced
<1>2. catalog \in Catalog
  BY DEF Sound
<1>3. /\ catalog.tables \subseteq Tables /\ catalog.columns \subseteq Column
      /\ catalog.constraints \subseteq Constraint
      /\ catalog.indexes \subseteq Index /\ catalog.rows \subseteq Row
  BY <1>2, CatalogParts
<1>4. /\ \A t \in Tables, o \in Columns :
           New(t, o) \in Columns /\ C[t][o] = New(t, o)
      /\ \A t \in Tables, o \in Columns \union {None} :
           New(t, o) \in Columns \union {None}
      /\ \A t \in Tables : T[t] = t
  OBVIOUS
<1> HIDE DEF New, T, C
<1>5. \A x \in Column : /\ Rename(x) \in Column /\ Rename(x).table = x.table
                        /\ Rename(x).column = New(x.table, x.column)
                        /\ Rename(x).type = x.type
  BY <1>4, PartsHave DEF Column
<1>6. \A x \in Index : /\ Rename(x) \in Index /\ Rename(x).table = x.table
                       /\ Rename(x).column = New(x.table, x.column)
  BY <1>4, PartsHave DEF Index
<1>7. \A x \in Row : /\ Rename(x) \in Row /\ Rename(x).table = x.table
                     /\ Rename(x).id = x.id
  BY <1>4, PartsHave DEF Row
<1>8. \A x \in Key : /\ Rename(x) \in Key /\ Rename(x).table = x.table
                     /\ Rename(x).column = New(x.table, x.column)
  BY <1>4, PartsHave DEF Key
<1>9. \A x \in Check : /\ Rename(x) \in Check /\ Rename(x).table = x.table
                       /\ Rename(x).column = New(x.table, x.column)
  BY <1>4, PartsHave DEF Check
<1>10. \A x \in ForeignKey :
         /\ Rename(x) \in ForeignKey /\ Rename(x).table = x.table
         /\ Rename(x).column = New(x.table, x.column)
         /\ Rename(x).to = x.to
         /\ Rename(x).toColumn = New(x.to, x.toColumn)
  BY <1>4, PartsHave DEF ForeignKey
<1>11. \A x \in Constraint :
         /\ Rename(x) \in Constraint /\ Rename(x).table = x.table
         /\ Rename(x).column = New(x.table, x.column) /\ Rename(x).kind = x.kind
         /\ x.kind = "fk" => x \in ForeignKey
  BY <1>8, <1>9, <1>10, PartsHave DEF Constraint
<1> HIDE DEF Rename
<1>12. /\ c.tables = catalog.tables
       /\ c.columns = {Rename(x) : x \in catalog.columns}
       /\ c.constraints = {Rename(x) : x \in catalog.constraints}
       /\ c.indexes = {Rename(x) : x \in catalog.indexes}
       /\ c.rows = {Rename(x) : x \in catalog.rows}
       /\ c \in Catalog
  <2>1. /\ catalog.tables \subseteq Tables
        /\ {Rename(x) : x \in catalog.columns} \subseteq Column
        /\ {Rename(x) : x \in catalog.constraints} \subseteq Constraint
        /\ {Rename(x) : x \in catalog.indexes} \subseteq Index
        /\ {Rename(x) : x \in catalog.rows} \subseteq Row
    BY <1>3, <1>4, <1>5, <1>6, <1>7, <1>11
  <2>2. c = [tables |-> catalog.tables,
             columns |-> {Rename(x) : x \in catalog.columns},
             constraints |-> {Rename(x) : x \in catalog.constraints},
             indexes |-> {Rename(x) : x \in catalog.indexes},
             rows |-> {Rename(x) : x \in catalog.rows}]
    BY <1>1, <1>2 DEF Catalog
  <2> QED
    BY <2>1, <2>2 DEF Catalog, Constraint
<1>13. \A x \in parts : F[x] = Rename(x)
  OBVIOUS
<1>14. /\ DOMAIN F = parts /\ catalog.columns \subseteq parts
       /\ catalog.constraints \subseteq parts
       /\ catalog.indexes \subseteq parts /\ catalog.rows \subseteq parts
  OBVIOUS
<1>15. \A x \in parts : x.table \in catalog.tables
  BY DEF Sound
<1>16. \A x \in catalog.columns \union catalog.constraints
               \union catalog.indexes :
         C[x.table][x.column] = New(x.table, x.column)
  <2>1. \A x \in Column \union Constraint \union Index :
          x.table \in Tables /\ x.column \in Columns
    BY DEF Column, Constraint, Key, Check, ForeignKey, Index
  <2> QED
    BY <1>3, <1>4, <2>1
<1>17. \A f \in ForeignKey :
         f.to \in Tables /\ f.toColumn \in Columns
           /\ C[f.to][f.toColumn] = New(f.to, f.toColumn)
  BY <1>4 DEF ForeignKey
<1> HIDE DEF F, parts
<1>18. /\ c.tables = {T[t] : t \in catalog.tables}
       /\ c.columns = {F[x] : x \in catalog.columns}
       /\ c.constraints = {F[x] : x \in catalog.constraints}
       /\ c.indexes = {F[x] : x \in catalog.indexes}
       /\ c.rows = {F[x] : x \in catalog.rows}
  <2>1. catalog.tables = {T[t] : t \in catalog.tables}
    BY <1>3, <1>4
  <2>2. {Rename(x) : x \in catalog.columns} = {F[x] : x \in catalog.columns}
    BY <1>13, <1>14
  <2>3. {Rename(x) : x \in catalog.constraints} = {F[x] : x \in catalog.constraints}
    BY <1>13, <1>14
  <2>4. {Rename(x) : x \in catalog.indexes} = {F[x] : x \in catalog.indexes}
    BY <1>13, <1>14
  <2>5. {Rename(x) : x \in catalog.rows} = {F[x] : x \in catalog.rows}
    BY <1>13, <1>14
  <2> QED
    BY <1>12, <2>1, <2>2, <2>3, <2>4, <2>5
<1>19. \A t, u \in catalog.tables : T[t] = T[u] => t = u
  BY <1>3, <1>4
<1>20. \A x \in DOMAIN F : F[x].table = T[x.table]
  <2>1. \A x \in parts :
          x \in Column \/ x \in Constraint \/ x \in Index \/ x \in Row
    BY <1>3 DEF parts
  <2>2. \A x \in parts : Rename(x).table = x.table
    BY <1>5, <1>6, <1>7, <1>11, <2>1
  <2> QED
    BY <1>3, <1>4, <1>13, <1>14, <1>15, <2>2
<1>21. \A x \in catalog.columns \union catalog.constraints
                \union catalog.indexes : F[x].column = C[x.table][x.column]
  BY <1>3, <1>5, <1>6, <1>11, <1>13, <1>14, <1>16
<1>22. /\ \A x \in catalog.columns : F[x].type = x.type
       /\ \A x \in catalog.rows : F[x].id = x.id
       /\ \A x \in catalog.constraints : F[x].kind = x.kind
  BY <1>3, <1>5, <1>7, <1>11, <1>13, <1>14
<1>23. \A f \in catalog.constraints : f.kind = "fk" =>
         F[f].to = T[f.to] /\ F[f].toColumn = C[f.to][f.toColumn]
  BY <1>3, <1>4, <1>10, <1>11, <1>13, <1>14, <1>17
<1>24. \A x, y \in catalog.columns :
         x.table = y.table /\ C[x.table][x.column] = C[y.table][y.column]
           => x.column = y.column
  BY <1>1, <1>16 DEF New, HasColumn, At
<1>25. DOMAIN F = catalog.columns \union catalog.constraints
                    \union catalog.indexes \union catalog.rows
  BY <1>14 DEF parts
<1>26. Renaming(catalog, c, F, T, C)
  BY <1>18, <1>19, <1>20, <1>21, <1>22, <1>23, <1>24, <1>25 DEF Renaming
<1> QED
  BY <1>12, <1>26, RenamedSound

(* What the commands carry.                                                *)
LEMMA CommandFields ==
  ASSUME NEW m \in Command
  PROVE  /\ m.do = "create_table" =>
              m.table \in Tables /\ m.column \in Columns /\ m.type \in Types
         /\ m.do = "rename_table" => m.table \in Tables /\ m.new \in Tables
         /\ m.do \in {"add_column", "alter_column_type"} =>
              m.table \in Tables /\ m.column \in Columns /\ m.type \in Types
         /\ m.do = "rename_column" => m.column \in Columns /\ m.new \in Columns
         /\ m.do = "add_foreign_key" =>
              /\ m.table \in Tables /\ m.column \in Columns /\ m.name \in Names
              /\ m.to \in Tables /\ m.toColumn \in Columns
         /\ m.do \in {"add_check_constraint", "create_index"} =>
              m.table \in Tables /\ m.column \in Columns /\ m.name \in Names
         /\ m.do = "get_project_table_data" => m.offset \in Nat /\ m.limit \in Nat
         /\ m.do = "get_table_structure" => m.table \in Tables
BY DEF Command

Statements ==
  {"create_table", "drop_table", "rename_table", "add_column", "drop_column",
   "rename_column", "alter_column_type", "add_foreign_key", "drop_constraint",
   "add_check_constraint", "create_index", "drop_index", "delete_project_row"}

LEMMA CommandKinds ==
  \A m \in Command : m.do \in Statements \union Readings
BY DEF Command, Statements, Readings

(* Which statement a command is.                                           *)
LEMMA OutcomesAre ==
  ASSUME NEW m, NEW c \in Outcomes(m), m.do \in Statements
  PROVE  \/ m.do = "create_table" /\ c \in CreateTable(m)
         \/ m.do = "drop_table" /\ c \in DropTable(m)
         \/ m.do = "rename_table" /\ c \in RenameTable(m)
         \/ m.do = "add_column" /\ c \in AddColumn(m)
         \/ m.do = "drop_column" /\ c \in DropColumn(m)
         \/ m.do = "rename_column" /\ c \in RenameColumn(m)
         \/ m.do = "alter_column_type" /\ c \in AlterColumnType(m)
         \/ m.do = "add_foreign_key" /\ c \in AddForeignKey(m)
         \/ m.do = "drop_constraint" /\ c \in DropConstraint(m)
         \/ m.do = "add_check_constraint" /\ c \in AddCheckConstraint(m)
         \/ m.do = "create_index" /\ c \in CreateIndex(m)
         \/ m.do = "delete_project_row" /\ c \in DeleteRow(m)
         \/ m.do = "drop_index" /\ c \in DropIndex(m)
BY DEF Outcomes, Statements

LEMMA OutcomesSound ==
  ASSUME Sound(catalog), NEW m \in Command, m.do \in Statements,
         NEW c \in Outcomes(m)
  PROVE  Sound(c)
<1>1. CASE m.do = "create_table" /\ c \in CreateTable(m)
  BY <1>1, CommandFields, CreateTableSound
<1>2. CASE m.do = "drop_table" /\ c \in DropTable(m)
  BY <1>2, DropTableSound
<1>3. CASE m.do = "rename_table" /\ c \in RenameTable(m)
  BY <1>3, CommandFields, RenameTableSound
<1>4. CASE m.do = "add_column" /\ c \in AddColumn(m)
  BY <1>4, CommandFields, AddedColumnSound
<1>5. CASE m.do = "drop_column" /\ c \in DropColumn(m)
  BY <1>5, DropColumnSound
<1>6. CASE m.do = "rename_column" /\ c \in RenameColumn(m)
  BY <1>6, CommandFields, RenameColumnSound
<1>7. CASE m.do = "alter_column_type" /\ c \in AlterColumnType(m)
  BY <1>7, CommandFields, AlterColumnTypeSound
<1>8. CASE m.do = "add_foreign_key" /\ c \in AddForeignKey(m)
  BY <1>8, CommandFields, AddForeignKeySound
<1>9. CASE m.do = "drop_constraint" /\ c \in DropConstraint(m)
  BY <1>9, DropConstraintSound
<1>10. CASE m.do = "add_check_constraint" /\ c \in AddCheckConstraint(m)
  BY <1>10, CommandFields, AddCheckSound
<1>11. CASE m.do = "create_index" /\ c \in CreateIndex(m)
  BY <1>11, CommandFields, CreateIndexSound
<1>12. CASE c \in DropIndex(m) \union DeleteRow(m)
  BY <1>12, DropIndexSound
<1> QED
  BY OutcomesAre, <1>1, <1>2, <1>3, <1>4, <1>5, <1>6, <1>7, <1>8, <1>9, <1>10,
     <1>11, <1>12

-----------------------------------------------------------------------------
(* What a statement leaves of what others have made.                       *)

(* No statement makes a row.                                               *)
LEMMA NoNewRows ==
  ASSUME Sound(catalog), NEW m, m.do \in Statements, NEW c \in Outcomes(m)
  PROVE  \A x \in c.rows : \E y \in catalog.rows : y.id = x.id
<1>1. catalog \in Catalog
  BY DEF Sound
<1>2. \A x \in Row : x = [id |-> x.id, table |-> x.table, column |-> x.column]
  BY DEF Row
<1>3. catalog.rows \subseteq Row
  BY <1>1, CatalogParts
<1>4. ASSUME NEW lost, c.rows = Without(lost).rows
      PROVE  c.rows \subseteq catalog.rows
  BY <1>1, <1>4, WithoutParts
<1>5. CASE c \in CreateTable(m) \union AddColumn(m) \union AlterColumnType(m)
             \union AddForeignKey(m) \union AddCheckConstraint(m)
             \union CreateIndex(m)
  <2>1. CASE c \in CreateTable(m)
    BY <1>1, <2>1 DEF CreateTable, Provided, AddColumnTo, Catalog
  <2>2. CASE c \in AddColumn(m)
    BY <1>1, <2>2 DEF AddColumn, Provided, AddColumnTo, Catalog
  <2>3. CASE c \in AlterColumnType(m)
    BY <1>1, <2>3 DEF AlterColumnType, Provided, AddColumnTo, Catalog
  <2>4. CASE c \in AddForeignKey(m)
    BY <1>1, <2>4 DEF AddForeignKey, Provided, Catalog
  <2>5. CASE c \in AddCheckConstraint(m)
    BY <1>1, <2>5 DEF AddCheckConstraint, Provided, Catalog
  <2>6. CASE c \in CreateIndex(m)
    BY <1>1, <2>6 DEF CreateIndex, Provided, Catalog
  <2> QED
    BY <1>5, <2>1, <2>2, <2>3, <2>4, <2>5, <2>6
<1>6. CASE c \in DropConstraint(m) \union DropIndex(m) \union DeleteRow(m)
  <2>1. PICK lost : c = Without(lost)
    BY <1>6 DEF DropConstraint, DropIndex, DeleteRow, Provided
  <2> QED
    BY <1>4, <2>1
<1>7. CASE c \in DropTable(m)
  <2> DEFINE lost == On(Attached \union catalog.rows, m.table)
                       \union Referring(m.table)
  <2>1. c = [Without(lost) EXCEPT !.tables = @ \ {m.table}]
    BY <1>7 DEF DropTable, Provided
  <2>2. Without(lost) \in Catalog
    BY <1>1, WithoutParts
  <2>3. c.rows = Without(lost).rows
    BY <2>1, <2>2 DEF Catalog
  <2> QED
    BY <1>4, <2>3
<1>8. CASE c \in DropColumn(m)
  <2> DEFINE lost == At(Attached, m.table, m.column)
                       \union ReferringTo(m.table, m.column)
             Lose(x) == IF x.table = m.table /\ x.column = m.column
                        THEN [x EXCEPT !.column = None] ELSE x
  <2>1. c = [Without(lost) EXCEPT !.rows = {Lose(x) : x \in @}]
    BY <1>8 DEF DropColumn, Provided
  <2>2. Without(lost) \in Catalog /\ Without(lost).rows \subseteq catalog.rows
    BY <1>1, WithoutParts
  <2>3. \A x \in Row : Lose(x).id = x.id
    BY <1>2
  <2> HIDE DEF Lose
  <2>4. c.rows = {Lose(x) : x \in Without(lost).rows}
    BY <2>1, <2>2 DEF Catalog
  <2> QED
    BY <1>3, <2>2, <2>3, <2>4
<1>9. CASE c \in RenameTable(m)
  <2> DEFINE New(t) == IF t = m.table THEN m.new ELSE t
             Rename(x) == IF "to" \in DOMAIN x
                          THEN [x EXCEPT !.table = New(@), !.to = New(@)]
                          ELSE [x EXCEPT !.table = New(@)]
  <2>1. c.rows = {Rename(x) : x \in catalog.rows}
    BY <1>1, <1>9 DEF RenameTable, Provided, Replaced, Catalog
  <2>2. \A x \in Row : Rename(x).id = x.id
    BY <1>2, PartsHave
  <2> QED
    BY <1>3, <2>1, <2>2
<1>10. CASE c \in RenameColumn(m)
  <2> DEFINE New(t, o) == IF t = m.table /\ o = m.column THEN m.new ELSE o
             Rename(x) == IF "to" \in DOMAIN x
                          THEN [x EXCEPT !.column = New(x.table, @),
                                         !.toColumn = New(x.to, @)]
                          ELSE [x EXCEPT !.column = New(x.table, @)]
  <2>1. c.rows = {Rename(x) : x \in catalog.rows}
    BY <1>1, <1>10 DEF RenameColumn, Provided, Replaced, Catalog
  <2>2. \A x \in Row : Rename(x).id = x.id
    BY <1>2, PartsHave
  <2> QED
    BY <1>3, <2>1, <2>2
<1> QED
  BY OutcomesAre, <1>5, <1>6, <1>7, <1>8, <1>9, <1>10

(* A row that is deleted is no longer there.                               *)
LEMMA RowGone ==
  ASSUME Sound(catalog), NEW m, NEW c \in DeleteRow(m), Hit(m) # {}
  PROVE  \A x \in c.rows : x.id # m.id
<1>1. c = Without(Hit(m)) /\ catalog \in Catalog
  BY DEF DeleteRow, Provided, Sound
<1>2. c.rows = catalog.rows \ Hit(m)
  BY <1>1, WithoutParts
<1>3. PICK y \in Hit(m) : y \in catalog.rows /\ y.id = m.id
  BY DEF Hit, At
<1> QED
  BY <1>2, <1>3 DEF Sound

(* What a statement takes away of the columns and the constraints, other   *)
(* than by renaming them.                                                  *)
LEMMA ColumnsStay ==
  ASSUME Sound(catalog), NEW m, m.do \in Statements, ~Renames(m),
         NEW c \in Outcomes(m), NEW x \in catalog.columns
  PROVE  \/ x \in c.columns
         \/ Drops(m, x.table, x.column)
         \/ /\ m.do = "alter_column_type"
            /\ x.table = m.table /\ x.column = m.column
<1>1. catalog \in Catalog /\ x \in Column
  BY CatalogParts DEF Sound
<1>2. x \notin catalog.constraints /\ x \notin catalog.indexes
        /\ x \notin catalog.rows
  BY <1>1, PartsApart, CatalogParts
<1>3. ASSUME NEW lost, c.columns = Without(lost).columns
      PROVE  x \in c.columns \/ x \in lost
  BY <1>1, <1>3, WithoutParts
<1>4. CASE c \in CreateTable(m)
  BY <1>1, <1>4 DEF CreateTable, Provided, AddColumnTo, Catalog
<1>5. CASE c \in AddColumn(m)
  BY <1>1, <1>5 DEF AddColumn, Provided, AddColumnTo, Catalog
<1>6. CASE c \in AddForeignKey(m)
  BY <1>1, <1>6 DEF AddForeignKey, Provided, Catalog
<1>7. CASE c \in AddCheckConstraint(m)
  BY <1>1, <1>7 DEF AddCheckConstraint, Provided, Catalog
<1>8. CASE c \in CreateIndex(m)
  BY <1>1, <1>8 DEF CreateIndex, Provided, Catalog
<1>9. CASE m.do = "alter_column_type" /\ c \in AlterColumnType(m)
  <2> DEFINE k == [catalog EXCEPT !.columns = @ \ At(@, m.table, m.column)]
  <2>1. /\ k \in Catalog
        /\ k.columns = catalog.columns
                         \ At(catalog.columns, m.table, m.column)
    BY <1>1 DEF Catalog
  <2>2. c = AddColumnTo(k, m)
    BY <1>9 DEF AlterColumnType, Provided
  <2> HIDE DEF k
  <2>3. k.columns \subseteq c.columns
    BY <2>1, <2>2 DEF AddColumnTo, Catalog
  <2> QED
    BY <1>9, <2>1, <2>3 DEF At
<1>10. CASE c \in DropConstraint(m) \union DropIndex(m) \union DeleteRow(m)
  <2>1. PICK lost : /\ c = Without(lost)
                    /\ lost \subseteq catalog.constraints \union catalog.indexes
                                        \union catalog.rows
    BY <1>10 DEF DropConstraint, DropIndex, DeleteRow, Provided, On, Hit, At
  <2> QED
    BY <1>2, <1>3, <2>1
<1>11. CASE m.do = "drop_table" /\ c \in DropTable(m)
  <2> DEFINE lost == On(Attached \union catalog.rows, m.table)
                       \union Referring(m.table)
  <2>1. c = [Without(lost) EXCEPT !.tables = @ \ {m.table}]
    BY <1>11 DEF DropTable, Provided
  <2>2. Without(lost) \in Catalog
    BY <1>1, WithoutParts
  <2>3. c.columns = Without(lost).columns
    BY <2>1, <2>2 DEF Catalog
  <2>4. x \in lost => x.table = m.table
    BY <1>2 DEF On, Referring, ForeignKeys
  <2> QED
    BY <1>3, <1>11, <2>3, <2>4 DEF Drops
<1>12. CASE m.do = "drop_column" /\ c \in DropColumn(m)
  <2> DEFINE lost == At(Attached, m.table, m.column)
                       \union ReferringTo(m.table, m.column)
             Lose(y) == IF y.table = m.table /\ y.column = m.column
                        THEN [y EXCEPT !.column = None] ELSE y
  <2>1. c = [Without(lost) EXCEPT !.rows = {Lose(y) : y \in @}]
    BY <1>12 DEF DropColumn, Provided
  <2>2. Without(lost) \in Catalog
    BY <1>1, WithoutParts
  <2> HIDE DEF Lose
  <2>3. c.columns = Without(lost).columns
    BY <2>1, <2>2 DEF Catalog
  <2>4. x \in lost => x.table = m.table /\ x.column = m.column
    BY <1>2 DEF At, ReferringTo, Referring, ForeignKeys
  <2> QED
    BY <1>3, <1>12, <2>3, <2>4 DEF Drops
<1> QED
  BY OutcomesAre, <1>4, <1>5, <1>6, <1>7, <1>8, <1>9, <1>10, <1>11, <1>12
     DEF Renames

LEMMA ForeignKeysStay ==
  ASSUME Sound(catalog), NEW m, m.do \in Statements, ~Renames(m),
         NEW c \in Outcomes(m), NEW x \in ForeignKeys
  PROVE  \/ x \in c.constraints
         \/ m.do = "drop_constraint" /\ m.name = x.name
         \/ Drops(m, x.table, x.column)
         \/ Drops(m, x.to, x.toColumn) /\ m.cascade
<1>1. catalog \in Catalog /\ x \in catalog.constraints /\ x \in Constraint
  BY CatalogParts DEF Sound, ForeignKeys
<1>2. x \notin catalog.columns /\ x \notin catalog.indexes
        /\ x \notin catalog.rows
  BY <1>1, PartsApart, CatalogParts
<1>3. ASSUME NEW lost, c.constraints = Without(lost).constraints
      PROVE  x \in c.constraints \/ x \in lost
  BY <1>1, <1>3, WithoutParts
<1>4. CASE c \in CreateTable(m)
  <2> DEFINE k == [catalog EXCEPT
                     !.tables = @ \union {m.table},
                     !.constraints =
                       @ \union (IF m.key
                                 THEN {[kind |-> "key", name |-> "pkey",
                                        table |-> m.table, column |-> m.column]}
                                 ELSE {})]
  <2>1. c = catalog \/ c = AddColumnTo(k, m)
    BY <1>4 DEF CreateTable, Provided
  <2>2. x \in k.constraints
    BY <1>1 DEF Catalog
  <2>3. AddColumnTo(k, m).constraints = k.constraints
    <3>1. DOMAIN k = {"tables", "columns", "constraints", "indexes", "rows"}
      BY <1>1 DEF Catalog
    <3> HIDE DEF k
    <3> QED
      BY <3>1 DEF AddColumnTo
  <2> HIDE DEF k
  <2> QED
    BY <1>1, <2>1, <2>2, <2>3
<1>5. CASE c \in AddColumn(m)
  BY <1>1, <1>5 DEF AddColumn, Provided, AddColumnTo, Catalog
<1>6. CASE c \in AddForeignKey(m)
  BY <1>1, <1>6 DEF AddForeignKey, Provided, Catalog
<1>7. CASE c \in AddCheckConstraint(m)
  BY <1>1, <1>7 DEF AddCheckConstraint, Provided, Catalog
<1>8. CASE c \in CreateIndex(m)
  BY <1>1, <1>8 DEF CreateIndex, Provided, Catalog
<1>9. CASE c \in AlterColumnType(m)
  BY <1>1, <1>9 DEF AlterColumnType, Provided, AddColumnTo, Catalog
<1>10. CASE m.do = "drop_constraint" /\ c \in DropConstraint(m)
  <2>1. PICK lost : c = Without(lost) /\ \A y \in lost : y.name = m.name
    BY <1>10 DEF DropConstraint, Provided
  <2> QED
    BY <1>3, <1>10, <2>1
<1>11. CASE c \in DropIndex(m) \union DeleteRow(m)
  <2>1. PICK lost : /\ c = Without(lost)
                    /\ lost \subseteq catalog.indexes \union catalog.rows
    BY <1>11 DEF DropIndex, DeleteRow, Provided, Hit, At
  <2> QED
    BY <1>2, <1>3, <2>1
<1>12. CASE m.do = "drop_table" /\ c \in DropTable(m)
  <2> DEFINE gone == On(Attached \union catalog.rows, m.table)
             lost == gone \union Referring(m.table)
  <2>1. /\ c = [Without(lost) EXCEPT !.tables = @ \ {m.table}]
        /\ m.cascade \/ Referring(m.table) \subseteq gone
    BY <1>12 DEF DropTable, Provided, Cascade
  <2>2. Without(lost) \in Catalog
    BY <1>1, WithoutParts
  <2>3. c.constraints = Without(lost).constraints
    BY <2>1, <2>2 DEF Catalog
  <2>4. /\ x \in gone => x.table = m.table
        /\ x \in Referring(m.table) => x.to = m.table
    BY DEF On, Referring
  <2> QED
    BY <1>3, <1>12, <2>1, <2>3, <2>4 DEF Drops
<1>13. CASE m.do = "drop_column" /\ c \in DropColumn(m)
  <2> DEFINE gone == At(Attached, m.table, m.column)
             lost == gone \union ReferringTo(m.table, m.column)
             Lose(y) == IF y.table = m.table /\ y.column = m.column
                        THEN [y EXCEPT !.column = None] ELSE y
  <2>1. /\ c = [Without(lost) EXCEPT !.rows = {Lose(y) : y \in @}]
        /\ m.cascade \/ ReferringTo(m.table, m.column) \subseteq gone
    BY <1>13 DEF DropColumn, Provided, Cascade
  <2>2. Without(lost) \in Catalog
    BY <1>1, WithoutParts
  <2> HIDE DEF Lose
  <2>3. c.constraints = Without(lost).constraints
    BY <2>1, <2>2 DEF Catalog
  <2>4. /\ x \in gone => x.table = m.table /\ x.column = m.column
        /\ x \in ReferringTo(m.table, m.column) =>
             x.to = m.table /\ x.toColumn = m.column
    BY DEF At, ReferringTo, Referring
  <2> QED
    BY <1>3, <1>13, <2>1, <2>3, <2>4 DEF Drops
<1> QED
  BY OutcomesAre, <1>4, <1>5, <1>6, <1>7, <1>8, <1>9, <1>10, <1>11, <1>12, <1>13
     DEF Renames

(* What a statement makes.                                                 *)
LEMMA TableMade ==
  ASSUME Sound(catalog), NEW m, NEW c \in CreateTable(m)
  PROVE  m.ifNotExists \/ m.type \in TypesIn(c, m.table, m.column)
<1> DEFINE new == [table |-> m.table, column |-> m.column, type |-> m.type]
           k == [catalog EXCEPT
                   !.tables = @ \union {m.table},
                   !.constraints =
                     @ \union (IF m.key
                               THEN {[kind |-> "key", name |-> "pkey",
                                      table |-> m.table, column |-> m.column]}
                               ELSE {})]
<1>1. m.ifNotExists \/ c = AddColumnTo(k, m)
  BY DEF CreateTable, Provided, IfNotExists
<1>2. new \in AddColumnTo(k, m).columns
  <2>1. DOMAIN k = {"tables", "columns", "constraints", "indexes", "rows"}
    BY DEF Sound, Catalog
  <2> HIDE DEF k
  <2> QED
    BY <2>1 DEF AddColumnTo
<1>3. new.table = m.table /\ new.column = m.column /\ new.type = m.type
  OBVIOUS
<1> QED
  BY <1>1, <1>2, <1>3 DEF TypesIn, At

LEMMA ForeignKeyMade ==
  ASSUME Sound(catalog), NEW m, NEW c \in AddForeignKey(m)
  PROVE  [kind |-> "fk", name |-> m.name, table |-> m.table,
          column |-> m.column, to |-> m.to, toColumn |-> m.toColumn]
           \in c.constraints
BY DEF AddForeignKey, Provided, Sound, Catalog

-----------------------------------------------------------------------------
(* What the requests rely on.                                              *)

Valued ==
  /\ alive \in BOOLEAN /\ fresh \subseteq RowIds /\ done \subseteq Requests
  /\ read \in [Requests -> Catalog]
  /\ total \in [Requests -> Nat]
  /\ before \in [Requests -> SUBSET Requests]
  /\ during \in [Requests -> BOOLEAN]

(* Who is at which statement asked for it, and has not been answered but   *)
(* left, if need be; and who had been answered before has been.            *)
Stands(r) ==
  /\ pc[r] \in {"ddl", "audit"} =>
       cmd[r].do \in Statements /\ answer[r] \in {"none", "lost"}
  /\ pc[r] \in {"schema"} \union Reading => answer[r] = "none"
  /\ pc[r] \in {"exists", "columns", "constraints", "indexes"} =>
       cmd[r].do = "get_table_structure"
  /\ pc[r] \in {"count", "page", "header"} =>
       cmd[r].do = "get_project_table_data"
  /\ pc[r] = "idle" => read[r] = Empty
  /\ pc[r] # "idle" => cmd[r] # None
  /\ r \in Told => r \in done
  /\ \A q \in before[r] : answer[q] # "none"

(* What a request has read is as it still is, unless it has noticed.       *)
Shown(r) ==
  LET t == cmd[r].table IN
  /\ pc[r] \in {"columns", "constraints", "indexes"} /\ ~during[r] =>
       /\ t \in catalog.tables
       /\ read[r] = [tables |-> {t},
                     columns |-> IF pc[r] = "columns" THEN {}
                                 ELSE On(catalog.columns, t),
                     constraints |-> IF pc[r] = "indexes"
                                     THEN On(catalog.constraints, t) ELSE {},
                     indexes |-> {}, rows |-> {}]
  /\ pc[r] = "page" /\ ~during[r] =>
       total[r] = Cardinality(On(catalog.rows, t))
  /\ pc[r] = "header" => Cardinality(read[r].rows) <= cmd[r].limit
  /\ pc[r] = "header" /\ ~during[r] =>
       /\ read[r].rows \subseteq On(catalog.rows, t)
       /\ Cardinality(read[r].rows)
            = Window(total[r], cmd[r].offset, cmd[r].limit)

(* The id of a row is used once, and the row that was deleted is gone from *)
(* the table, and from what is read later.                                 *)
UsedOnce == \A x \in catalog.rows : x.id \notin fresh
Deletes(q) == q \in done /\ cmd[q].do = "delete_project_row"
Gone(q) ==
  Deletes(q) => /\ cmd[q].id \notin fresh
                /\ \A x \in catalog.rows : x.id # cmd[q].id
Once(r) ==
  \A q \in Requests \ {r} :
    Deletes(r) /\ Deletes(q) => cmd[r].id # cmd[q].id
Unseen(r) ==
  \A q \in before[r] : Deletes(q) /\ answer[q] = "ok" =>
    \A x \in read[r].rows : x.id # cmd[q].id

(* What DDL has made is there from its COMMIT on, answered or not, until   *)
(* somebody undoes it.                                                     *)
TheKey(m) == [kind |-> "fk", name |-> m.name, table |-> m.table,
              column |-> m.column, to |-> m.to, toColumn |-> m.toColumn]
KeyUndone(q, m) ==
  \/ Renames(cmd[q])
  \/ cmd[q].do = "drop_constraint" /\ cmd[q].name = m.name
  \/ Drops(cmd[q], m.table, m.column)
  \/ Drops(cmd[q], m.to, m.toColumn) /\ cmd[q].cascade
TableUndone(q, m) ==
  \/ Renames(cmd[q]) \/ Drops(cmd[q], m.table, m.column)
  \/ /\ cmd[q].do = "alter_column_type"
     /\ cmd[q].table = m.table /\ cmd[q].column = m.column

KeyKept(r) ==
  r \in done /\ cmd[r].do = "add_foreign_key" /\ alive =>
    \/ TheKey(cmd[r]) \in ForeignKeys
    \/ \E q \in Requests : MayFollow(q, r) /\ KeyUndone(q, cmd[r])
TableKept(r) ==
  r \in done /\ cmd[r].do = "create_table" /\ alive =>
    \/ cmd[r].ifNotExists
    \/ cmd[r].type \in TypesOf(cmd[r].table, cmd[r].column)
    \/ \E q \in Requests : MayFollow(q, r) /\ TableUndone(q, cmd[r])

Ordered(r) ==
  /\ Stands(r) /\ Shown(r) /\ Gone(r) /\ Once(r) /\ Unseen(r)
  /\ KeyKept(r) /\ TableKept(r)

Coherent ==
  /\ Trailed /\ Valued /\ Sound(catalog) /\ UsedOnce
  /\ \A r \in Requests : Ordered(r)

LEMMA EmptySound == Sound(Empty)
<1>1. Empty \in Catalog
  BY DEF Empty, Catalog
<1>2. /\ Empty.columns = {} /\ Empty.constraints = {} /\ Empty.indexes = {}
      /\ Empty.rows = {}
  BY DEF Empty
<1>3. IsFiniteSet({})
  BY FS_EmptySet
<1> QED
  BY <1>1, <1>2, <1>3 DEF Sound

LEMMA InitCoherent == Init => Coherent
<1> SUFFICES ASSUME Init PROVE Coherent
  OBVIOUS
<1>1. Trailed
  BY InitTrailed
<1>2. Sound(catalog)
  BY CommandsAssumption DEF Init
<1>3. Empty \in Catalog
  BY EmptySound DEF Sound
<1>4. Valued
  BY <1>3 DEF Init, Valued
<1>5. UsedOnce
  BY DEF Init, UsedOnce
<1>6. ASSUME NEW r \in Requests PROVE Ordered(r)
  <2>1. Stands(r)
    BY DEF Init, Stands, Reading, Told
  <2>2. Shown(r)
    BY DEF Init, Shown
  <2>3. Gone(r) /\ Once(r) /\ KeyKept(r) /\ TableKept(r)
    BY DEF Init, Gone, Once, Deletes, KeyKept, TableKept
  <2>4. Unseen(r)
    BY DEF Init, Unseen
  <2> QED
    BY <2>1, <2>2, <2>3, <2>4 DEF Ordered
<1> QED
  BY <1>1, <1>2, <1>4, <1>5, <1>6 DEF Coherent

(* What a step of one request, or of none, leaves of request q.            *)
Untouched(q) ==
  /\ pc'[q] = pc[q] /\ cmd'[q] = cmd[q] /\ answer'[q] = answer[q]
  /\ read'[q] = read[q] /\ total'[q] = total[q] /\ before'[q] = before[q]
  /\ catalog' # catalog => during'[q]
  /\ catalog' = catalog => during'[q] = during[q]

LEMMA ChangeNoticed ==
  ASSUME Coherent, NEW c, Change(c), NEW q \in Requests
  PROVE  /\ catalog' # catalog => during'[q]
         /\ catalog' = catalog => during'[q] = during[q]
<1>1. during[q] \in BOOLEAN
  BY DEF Coherent, Valued
<1>2. catalog' = c /\ during'[q] = (during[q] \/ c # catalog)
  BY DEF Change
<1> QED
  BY <1>1, <1>2

LEMMA ReceiveAlone ==
  ASSUME Coherent, NEW r \in Requests, NEW m \in Commands, Receive(r, m)
  PROVE  \A q \in Requests \ {r} : Untouched(q)
BY DEF Coherent, Trailed, Typed, Valued, Receive, Untouched

LEMMA ReadSchemaAlone ==
  ASSUME Coherent, NEW r \in Requests, ReadSchema(r)
  PROVE  \A q \in Requests \ {r} : Untouched(q)
BY DEF Coherent, Trailed, Typed, Valued, ReadSchema, Respond, Continue, Untouched

LEMMA ExecuteAlone ==
  ASSUME Coherent, NEW r \in Requests, Execute(r)
  PROVE  \A q \in Requests \ {r} : Untouched(q)
<1> SUFFICES ASSUME NEW q \in Requests \ {r} PROVE Untouched(q)
  OBVIOUS
<1>1. /\ pc'[q] = pc[q] /\ answer'[q] = answer[q]
      /\ UNCHANGED <<cmd, read, total, before>>
  BY DEF Coherent, Trailed, Typed, Execute, Respond, Continue
<1>2. \/ UNCHANGED <<catalog, during>> \/ \E c \in Outcomes(cmd[r]) : Change(c)
  BY DEF Execute
<1>3. CASE UNCHANGED <<catalog, during>>
  BY <1>1, <1>3 DEF Untouched
<1>4. CASE \E c \in Outcomes(cmd[r]) : Change(c)
  BY <1>1, <1>4, ChangeNoticed DEF Untouched
<1> QED
  BY <1>2, <1>3, <1>4

LEMMA AuditAlone ==
  ASSUME Coherent, NEW r \in Requests, Audit(r)
  PROVE  \A q \in Requests \ {r} : Untouched(q)
BY DEF Coherent, Trailed, Typed, Valued, Audit, Respond, Untouched

LEMMA StructureAlone ==
  ASSUME Coherent, NEW r \in Requests,
         LookUpTable(r) \/ ReadTableColumns(r) \/ ReadConstraints(r) \/ ReadIndexes(r)
  PROVE  \A q \in Requests \ {r} : Untouched(q)
<1>1. CASE LookUpTable(r)
  BY <1>1 DEF Coherent, Trailed, Typed, Valued, LookUpTable, Respond, Continue,
              Untouched
<1>2. CASE ReadTableColumns(r)
  BY <1>2 DEF Coherent, Trailed, Typed, Valued, ReadTableColumns, Continue,
              Untouched
<1>3. CASE ReadConstraints(r)
  BY <1>3 DEF Coherent, Trailed, Typed, Valued, ReadConstraints, Continue,
              Untouched
<1>4. CASE ReadIndexes(r)
  BY <1>4 DEF Coherent, Trailed, Typed, Valued, ReadIndexes, Respond, Untouched
<1> QED
  BY <1>1, <1>2, <1>3, <1>4

LEMMA DataAlone ==
  ASSUME Coherent, NEW r \in Requests,
         ListTables(r) \/ CountRows(r) \/ ReadPage(r) \/ ReadHeader(r)
  PROVE  \A q \in Requests \ {r} : Untouched(q)
<1>1. CASE ListTables(r)
  BY <1>1 DEF Coherent, Trailed, Typed, Valued, ListTables, Respond, Untouched
<1>2. CASE CountRows(r)
  BY <1>2 DEF Coherent, Trailed, Typed, Valued, CountRows, Respond, Continue,
              Untouched
<1>3. CASE ReadPage(r)
  BY <1>3 DEF Coherent, Trailed, Typed, Valued, ReadPage, Respond, Continue,
              Untouched
<1>4. CASE ReadHeader(r)
  BY <1>4 DEF Coherent, Trailed, Typed, Valued, ReadHeader, Respond, Untouched
<1> QED
  BY <1>1, <1>2, <1>3, <1>4

LEMMA DisturbAlone ==
  ASSUME Coherent, NEW r \in Requests, Disturb(r)
  PROVE  \A q \in Requests \ {r} : Untouched(q)
BY DEF Coherent, Trailed, Typed, Valued, Disturb, Abandon, NeverRuns, Continue,
       Untouched

LEMMA ProceedAlone ==
  ASSUME Coherent, NEW r \in Requests, Proceed(r) \/ Disturb(r)
  PROVE  \A q \in Requests \ {r} : Untouched(q)
<1>1. CASE Proceed(r)
  BY <1>1, ReadSchemaAlone, ExecuteAlone, AuditAlone, StructureAlone, DataAlone
     DEF Proceed
<1> QED
  BY <1>1, DisturbAlone

LEMMA OutsideAlone ==
  ASSUME Coherent,
         DeleteProject \/ \E t \in Tables, i \in RowIds : InsertRow(t, i)
  PROVE  \A q \in Requests : Untouched(q)
<1>1. \E c : Change(c)
  BY DEF DeleteProject, InsertRow
<1>2. UNCHANGED <<pc, cmd, read, total, answer, before>>
  BY DEF DeleteProject, InsertRow
<1> QED
  BY <1>1, <1>2, ChangeNoticed DEF Untouched

(* The catalog after a statement of request r.                             *)
LEMMA ExecuteSound ==
  ASSUME Coherent, NEW r \in Requests, NEW c \in Outcomes(cmd[r]),
         Execute(r)
  PROVE  Sound(c) /\ \A x \in c.rows : x.id \notin fresh
<1> DEFINE m == cmd[r]
<1>1. m \in Command /\ m.do \in Statements
  BY CommandsAssumption DEF Coherent, Trailed, Typed, Placed, Ordered, Stands,
     Execute
<1>2. Sound(catalog) /\ UsedOnce
  BY DEF Coherent
<1> HIDE DEF m
<1>3. c \in Outcomes(m)
  BY DEF m
<1>4. Sound(c)
  BY <1>1, <1>2, <1>3, OutcomesSound
<1>5. \A x \in c.rows : \E y \in catalog.rows : y.id = x.id
  BY <1>1, <1>2, <1>3, NoNewRows
<1> QED
  BY <1>2, <1>4, <1>5 DEF UsedOnce

(* The application inserts a row under a fresh id.                         *)
LEMMA InsertSound ==
  ASSUME Coherent, NEW t \in Tables, NEW i \in RowIds, InsertRow(t, i)
  PROVE  /\ Sound(catalog')
         /\ \A x \in catalog'.rows : x.id = i \/ \E y \in catalog.rows : y = x
         /\ i \in fresh /\ fresh' = fresh \ {i}
<1>1. PICK o \in Columns :
        catalog' = [catalog EXCEPT
                      !.rows = @ \union {[id |-> i, table |-> t, column |-> o]}]
  BY DEF InsertRow, Change
<1> DEFINE new == [id |-> i, table |-> t, column |-> o]
           rows == catalog.rows \union {new}
<1>2. Sound(catalog) /\ catalog \in Catalog /\ UsedOnce
  BY DEF Coherent, Sound
<1>3. t \in catalog.tables /\ i \in fresh /\ fresh' = fresh \ {i}
  BY DEF InsertRow
<1>4. new \in Row /\ new.id = i /\ new.table = t
  BY DEF Row
<1> HIDE DEF new
<1>5. IsFiniteSet(rows)
  BY <1>2, FS_AddElement DEF Sound
<1>6. rows \subseteq Row
  BY <1>2, <1>4, CatalogParts
<1>7. \A x \in rows : x.table \in catalog.tables
  BY <1>2, <1>3, <1>4 DEF Sound
<1>8. \A x, y \in rows : x.id = y.id => x = y
  BY <1>2, <1>3, <1>4 DEF Sound, UsedOnce
<1>9. catalog' = [catalog EXCEPT !.rows = rows]
  BY <1>1 DEF new
<1>10. Sound(catalog')
  BY <1>2, <1>5, <1>6, <1>7, <1>8, <1>9, RowsSound
<1>11. catalog'.rows = rows
  BY <1>2, <1>9 DEF Catalog
<1> QED
  BY <1>3, <1>4, <1>10, <1>11

(* The rows of the catalog after any step: none is new but one that is     *)
(* inserted; and no id becomes fresh again.                                *)
LEMMA StepSound ==
  ASSUME Coherent, [Next]_vars
  PROVE  /\ Sound(catalog') /\ fresh' \subseteq fresh
         /\ \A x \in catalog'.rows : x.id \notin fresh'
         /\ \A x \in catalog'.rows :
              x.id \in fresh \/ \E y \in catalog.rows : y.id = x.id
<1>1. Sound(catalog) /\ UsedOnce
  BY DEF Coherent
<1>2. CASE UNCHANGED <<catalog, fresh>>
  BY <1>1, <1>2 DEF UsedOnce
<1>3. ASSUME NEW r \in Requests, Execute(r)
      PROVE  /\ Sound(catalog') /\ fresh' \subseteq fresh
             /\ \A x \in catalog'.rows : x.id \notin fresh'
             /\ \A x \in catalog'.rows :
                  x.id \in fresh \/ \E y \in catalog.rows : y.id = x.id
  <2>1. UNCHANGED fresh
    BY <1>3 DEF Execute
  <2>2. CASE UNCHANGED catalog
    BY <1>2, <2>1, <2>2
  <2>3. CASE \E c \in Outcomes(cmd[r]) : Change(c)
    <3>1. PICK c \in Outcomes(cmd[r]) : catalog' = c
      BY <2>3 DEF Change
    <3>2. Sound(c) /\ \A x \in c.rows : x.id \notin fresh
      BY <1>3, ExecuteSound
    <3>3. cmd[r].do \in Statements
      BY <1>3 DEF Coherent, Ordered, Stands, Execute
    <3>4. \A x \in c.rows : \E y \in catalog.rows : y.id = x.id
      BY <1>1, <3>3, NoNewRows
    <3> QED
      BY <2>1, <3>1, <3>2, <3>4
  <2> QED
    BY <1>3, <2>2, <2>3 DEF Execute
<1>4. CASE DeleteProject
  <2>1. catalog' = Empty /\ Empty.rows = {} /\ UNCHANGED fresh
    BY <1>4 DEF DeleteProject, Change, Empty
  <2> QED
    BY <2>1, EmptySound
<1>5. ASSUME NEW t \in Tables, NEW i \in RowIds, InsertRow(t, i)
      PROVE  /\ Sound(catalog') /\ fresh' \subseteq fresh
             /\ \A x \in catalog'.rows : x.id \notin fresh'
             /\ \A x \in catalog'.rows :
                  x.id \in fresh \/ \E y \in catalog.rows : y.id = x.id
  BY <1>1, <1>5, InsertSound DEF UsedOnce
<1>6. CASE \E r \in Requests, m \in Commands : Receive(r, m)
  BY <1>2, <1>6 DEF Receive
<1>7. ASSUME NEW r \in Requests, Proceed(r) \/ Disturb(r)
      PROVE  Execute(r) \/ UNCHANGED <<catalog, fresh>>
  BY <1>7 DEF Proceed, Disturb, ReadSchema, Audit, LookUpTable,
     ReadTableColumns, ReadConstraints, ReadIndexes, ListTables, CountRows,
     ReadPage, ReadHeader, Abandon, NeverRuns
<1>8. CASE UNCHANGED vars
  BY <1>2, <1>8 DEF vars
<1> QED
  BY <1>2, <1>3, <1>4, <1>5, <1>6, <1>7, <1>8 DEF Next, Rest

(* The rows of one table are counted, and a page of them is no longer than *)
(* asked for.                                                              *)
LEMMA RowsCounted ==
  ASSUME Coherent, NEW t
  PROVE  /\ On(catalog.rows, t) \subseteq Row
         /\ IsFiniteSet(On(catalog.rows, t))
         /\ Cardinality(On(catalog.rows, t)) \in Nat
<1>1. On(catalog.rows, t) \subseteq catalog.rows
  BY DEF On
<1>2. IsFiniteSet(catalog.rows) /\ catalog.rows \subseteq Row
  BY CatalogParts DEF Coherent, Sound
<1>3. IsFiniteSet(On(catalog.rows, t))
  BY <1>1, <1>2, FS_Subset
<1> QED
  BY <1>1, <1>2, <1>3, FS_CardinalityType

LEMMA WindowBounds ==
  ASSUME NEW n \in Nat, NEW o \in Nat, NEW l \in Nat
  PROVE  /\ Window(n, o, l) \in Nat /\ Window(n, o, l) <= l
         /\ o + l <= n => Window(n, o, l) = l
         /\ o <= n /\ n < o + l => Window(n, o, l) = n - o
BY DEF Window, Least

LEMMA StepValued ==
  ASSUME Coherent, [Next]_vars
  PROVE  Valued'
<1>1. Valued /\ Typed
  BY DEF Coherent, Trailed
<1>2. Sound(catalog) /\ catalog \in Catalog
  BY DEF Coherent, Sound
<1>3. ASSUME NEW r \in Requests, NEW m \in Commands, Receive(r, m)
      PROVE  Valued'
  BY <1>1, <1>3 DEF Receive, Valued
<1>4. ASSUME NEW c, Change(c) PROVE during' \in [Requests -> BOOLEAN]
  BY <1>1, <1>4 DEF Change, Valued
<1>5. ASSUME NEW r \in Requests, ReadSchema(r) \/ Audit(r) \/ Disturb(r)
      PROVE  Valued'
  BY <1>1, <1>5 DEF ReadSchema, Audit, Disturb, Abandon, NeverRuns, Valued
<1>6. ASSUME NEW r \in Requests, Execute(r) PROVE Valued'
  <2>1. during' \in [Requests -> BOOLEAN]
    BY <1>1, <1>4, <1>6 DEF Execute, Valued
  <2>2. done' \subseteq Requests
    BY <1>1, <1>6 DEF Execute, Valued
  <2> QED
    BY <1>1, <1>6, <2>1, <2>2 DEF Execute, Valued
<1>7. ASSUME NEW r \in Requests, LookUpTable(r) PROVE Valued'
  <2>1. cmd[r].table \in Tables
    <3>1. cmd[r] \in Command /\ cmd[r].do = "get_table_structure"
      BY <1>7, CommandsAssumption
         DEF Coherent, Trailed, Typed, Placed, Ordered, Stands, LookUpTable
    <3> QED
      BY <3>1, CommandFields
  <2>2. [Empty EXCEPT !.tables = {cmd[r].table}] \in Catalog
    BY <2>1 DEF Empty, Catalog
  <2> QED
    BY <1>1, <1>7, <2>2 DEF LookUpTable, Valued
<1>8. ASSUME NEW r \in Requests, NEW c \in Catalog,
             read' = [read EXCEPT ![r] = c],
             UNCHANGED <<alive, fresh, done, total, before, during>>
      PROVE  Valued'
  BY <1>1, <1>8 DEF Valued
<1>9. /\ catalog.tables \subseteq Tables
      /\ \A t : /\ On(catalog.columns, t) \subseteq Column
                /\ On(catalog.constraints, t) \subseteq Constraint
                /\ On(catalog.indexes, t) \subseteq Index
                /\ On(catalog.rows, t) \subseteq Row
  BY <1>2, CatalogParts DEF On
<1>10. ASSUME NEW r \in Requests, ReadTableColumns(r) \/ ReadHeader(r)
       PROVE  Valued'
  <2>1. PICK s : /\ s \subseteq Column
                 /\ read' = [read EXCEPT ![r].columns = s]
    BY <1>9, <1>10 DEF ReadTableColumns, ReadHeader
  <2>2. [read[r] EXCEPT !.columns = s] \in Catalog
    BY <1>1, <2>1 DEF Valued, Catalog
  <2>3. read' = [read EXCEPT ![r] = [read[r] EXCEPT !.columns = s]]
    BY <2>1
  <2> QED
    BY <1>8, <1>10, <2>2, <2>3 DEF ReadTableColumns, ReadHeader
<1>11. ASSUME NEW r \in Requests, ReadConstraints(r) PROVE Valued'
  <2> DEFINE c == [read[r] EXCEPT
                     !.constraints = On(catalog.constraints, cmd[r].table)]
  <2>1. c \in Catalog
    BY <1>1, <1>9 DEF Valued, Catalog, Constraint
  <2>2. read' = [read EXCEPT ![r] = c]
    BY <1>11 DEF ReadConstraints
  <2> QED
    BY <1>8, <1>11, <2>1, <2>2 DEF ReadConstraints
<1>12. ASSUME NEW r \in Requests, ReadIndexes(r) PROVE Valued'
  <2> DEFINE c == [read[r] EXCEPT
                     !.indexes = On(catalog.indexes, cmd[r].table)]
  <2>1. c \in Catalog
    BY <1>1, <1>9 DEF Valued, Catalog
  <2>2. read' = [read EXCEPT ![r] = c]
    BY <1>12 DEF ReadIndexes
  <2> QED
    BY <1>8, <1>12, <2>1, <2>2 DEF ReadIndexes
<1>13. ASSUME NEW r \in Requests, ListTables(r) PROVE Valued'
  <2> DEFINE c == [read[r] EXCEPT !.tables = catalog.tables]
  <2>1. c \in Catalog
    BY <1>1, <1>9 DEF Valued, Catalog
  <2>2. read' = [read EXCEPT ![r] = c]
    BY <1>13 DEF ListTables
  <2> QED
    BY <1>8, <1>13, <2>1, <2>2 DEF ListTables
<1>14. ASSUME NEW r \in Requests, CountRows(r) PROVE Valued'
  BY <1>1, <1>14, RowsCounted DEF CountRows, Valued
<1>15. ASSUME NEW r \in Requests, ReadPage(r) PROVE Valued'
  <2>1. CASE UNCHANGED read
    BY <1>1, <1>15, <2>1 DEF ReadPage, Valued
  <2>2. CASE \E s \in SUBSET On(catalog.rows, cmd[r].table) :
               read' = [read EXCEPT ![r].rows = s]
    <3>1. PICK s \in SUBSET On(catalog.rows, cmd[r].table) :
            read' = [read EXCEPT ![r].rows = s]
      BY <2>2
    <3>2. [read[r] EXCEPT !.rows = s] \in Catalog
      BY <1>1, <1>9, <3>1 DEF Valued, Catalog
    <3>3. read' = [read EXCEPT ![r] = [read[r] EXCEPT !.rows = s]]
      BY <3>1
    <3> QED
      BY <1>8, <1>15, <3>2, <3>3 DEF ReadPage
  <2> QED
    BY <1>15, <2>1, <2>2 DEF ReadPage
<1>16. CASE DeleteProject \/ \E t \in Tables, i \in RowIds : InsertRow(t, i)
  <2>1. \E c : Change(c)
    BY <1>16 DEF DeleteProject, InsertRow
  <2>2. /\ alive' \in BOOLEAN /\ fresh' \subseteq RowIds
        /\ UNCHANGED <<done, read, total, before>>
    BY <1>1, <1>16 DEF DeleteProject, InsertRow, Valued
  <2> QED
    BY <1>1, <1>4, <2>1, <2>2 DEF Valued
<1>17. CASE UNCHANGED vars
  BY <1>1, <1>17 DEF vars, Valued
<1>18. ASSUME NEW r \in Requests, Proceed(r) \/ Disturb(r) PROVE Valued'
  BY <1>5, <1>6, <1>7, <1>10, <1>11, <1>12, <1>13, <1>14, <1>15, <1>18
     DEF Proceed
<1> QED
  BY <1>3, <1>16, <1>17, <1>18 DEF Next, Rest

(* An answer is final, as is a command, and what has had its effect had it.*)
LEMMA Steady ==
  ASSUME Coherent, [Next]_vars, NEW q \in Requests
  PROVE  /\ answer[q] # "none" => answer'[q] = answer[q]
         /\ q \in done => q \in done'
         /\ pc[q] # "idle" => /\ cmd'[q] = cmd[q] /\ before'[q] = before[q]
                              /\ pc'[q] # "idle"
         /\ alive' => alive
<1>1. CASE UNCHANGED vars
  BY <1>1 DEF vars
<1>2. CASE DeleteProject \/ \E t \in Tables, i \in RowIds : InsertRow(t, i)
  BY <1>2 DEF DeleteProject, InsertRow
<1>3. ASSUME NEW r \in Requests, NEW m \in Commands, Receive(r, m)
      PROVE  /\ answer[q] # "none" => answer'[q] = answer[q]
             /\ pc[q] # "idle" => /\ cmd'[q] = cmd[q] /\ before'[q] = before[q]
                                  /\ pc'[q] # "idle"
             /\ UNCHANGED <<done, alive>>
  <2>1. CASE q # r
    BY <1>3, <2>1, ReceiveAlone DEF Untouched, Receive
  <2>2. CASE q = r
    <3>1. pc[q] = "idle" /\ answer[q] = "none"
      BY <1>3, <2>2 DEF Receive, Coherent, Trailed, Placed
    <3> QED
      BY <1>3, <3>1 DEF Receive
  <2> QED
    BY <2>1, <2>2
<1>4. ASSUME NEW r \in Requests, Proceed(r) \/ Disturb(r)
      PROVE  /\ answer[q] # "none" => answer'[q] = answer[q]
             /\ pc[q] # "idle" => pc'[q] # "idle"
             /\ UNCHANGED <<cmd, before, alive>> /\ done \subseteq done'
  <2>1. /\ UNCHANGED <<cmd, before, alive>> /\ done \subseteq done'
        /\ pc[r] # "idle"
        /\ \/ \E a : Respond(r, a)
           \/ \E s : s \in Steps \ {"idle"} /\ Continue(r, s)
           \/ Abandon(r)
    <3>1. CASE Disturb(r)
      BY <3>1 DEF Disturb, Abandon, NeverRuns, Running, Steps
    <3>2. CASE ReadSchema(r)
      BY <3>2 DEF ReadSchema, AfterSchema, FirstReading, Steps
    <3>3. CASE Execute(r)
      BY <3>3 DEF Execute, Steps
    <3>4. CASE Audit(r) \/ LookUpTable(r) \/ ReadTableColumns(r)
                 \/ ReadConstraints(r) \/ ReadIndexes(r)
      BY <3>4 DEF Audit, LookUpTable, ReadTableColumns, ReadConstraints,
                  ReadIndexes, Steps
    <3>5. CASE ListTables(r) \/ CountRows(r) \/ ReadPage(r) \/ ReadHeader(r)
      BY <3>5 DEF ListTables, CountRows, ReadPage, ReadHeader, Steps
    <3> QED
      BY <1>4, <3>1, <3>2, <3>3, <3>4, <3>5 DEF Proceed
  <2>2. CASE q # r
    BY <1>4, <2>1, <2>2, ProceedAlone DEF Untouched
  <2>3. CASE q = r
    <3>1. CASE \E a : Respond(r, a)
      BY <2>1, <2>3, <3>1 DEF Coherent, Trailed, Typed, Respond, Running
    <3>2. CASE \E s : s \in Steps \ {"idle"} /\ Continue(r, s)
      BY <2>1, <2>3, <3>2 DEF Coherent, Trailed, Typed, Continue
    <3>3. CASE Abandon(r)
      BY <2>1, <2>3, <3>3 DEF Coherent, Trailed, Typed, Abandon, Running
    <3> QED
      BY <2>1, <3>1, <3>2, <3>3
  <2> QED
    BY <2>1, <2>2, <2>3
<1> QED
  BY <1>1, <1>2, <1>3, <1>4 DEF Next, Rest

LEMMA StandsAlone ==
  ASSUME Coherent, [Next]_vars, NEW q \in Requests, Untouched(q)
  PROVE  Stands(q)'
<1>1. Stands(q) /\ before[q] \subseteq Requests
  BY DEF Coherent, Ordered, Valued
<1>2. \A p \in before[q] : answer'[p] # "none"
  BY <1>1, Steady DEF Stands
<1>3. q \in Told' <=> q \in Told
  BY DEF Untouched, Told
<1>4. q \in done => q \in done'
  BY Steady
<1> QED
  BY <1>1, <1>2, <1>3, <1>4 DEF Stands, Untouched

(* The request that acts itself.                                           *)
LEMMA StandsOwn ==
  ASSUME Coherent, [Next]_vars, NEW r \in Requests,
         \/ \E m \in Commands : Receive(r, m)
         \/ Proceed(r) \/ Disturb(r)
  PROVE  Stands(r)'
<1>1. /\ Stands(r) /\ Placed(r) /\ Typed /\ before[r] \subseteq Requests
      /\ Trailed'
  BY StepTrailed DEF Coherent, Ordered, Valued, Trailed
<1>2. \A p \in Requests : answer[p] # "none" => answer'[p] # "none"
  BY Steady
<1>3. (\A p \in before'[r] : answer'[p] # "none") /\ cmd'[r] # None
  <2>1. CASE \E m \in Commands : Receive(r, m)
    <3>1. before'[r] = {p \in Requests : answer[p] # "none"}
      BY <2>1 DEF Receive, Coherent, Valued
    <3>2. cmd'[r] # None
      BY <1>1, <2>1, CommandsAssumption DEF Receive, Typed
    <3> QED
      BY <1>2, <3>1, <3>2
  <2>2. CASE Proceed(r) \/ Disturb(r)
    <3>1. pc[r] # "idle"
      BY <2>2 DEF Proceed, Disturb, ReadSchema, Execute, Audit, LookUpTable,
         ReadTableColumns, ReadConstraints, ReadIndexes, ListTables, CountRows,
         ReadPage, ReadHeader, Abandon, NeverRuns, Running
    <3> QED
      BY <1>1, <1>2, <3>1, Steady DEF Stands
  <2> QED
    BY <2>1, <2>2
<1>4. CASE \E m \in Commands : Receive(r, m)
  <2>1. r \notin Told'
    BY <1>1, <1>4 DEF Receive, Told, Typed, Placed
  <2> QED
    BY <1>1, <1>3, <1>4, <2>1 DEF Receive, Stands, Placed, Typed, Reading
<1>5. CASE ReadSchema(r)
  <2>1. answer[r] = "none" /\ Running(r) /\ cmd'[r] = cmd[r]
    BY <1>1, <1>5 DEF ReadSchema, Stands, Running
  <2>2. cmd[r].do \in Statements \union Readings
    BY <1>1, <1>5, CommandsAssumption, CommandKinds
       DEF ReadSchema, Placed, Typed
  <2>3. r \notin Told'
    BY <1>1, <1>5 DEF ReadSchema, Told, Respond, Continue, Typed, Stands
  <2> QED
    BY <1>1, <1>3, <1>5, <2>1, <2>2, <2>3
       DEF ReadSchema, Respond, Continue, AfterSchema, FirstReading, Readings,
           Stands, Typed, Reading
<1>6. CASE Execute(r)
  <2>1. answer[r] \in {"none", "lost"} /\ cmd'[r] = cmd[r]
          /\ cmd[r].do \in Statements
    BY <1>1, <1>6 DEF Execute, Stands
  <2>2. answer'[r] # "ok" /\ pc'[r] \in {"audit", "done"}
          /\ (pc'[r] = "audit" => answer'[r] = answer[r])
    BY <1>1, <1>6, <2>1 DEF Execute, Respond, Continue, Typed
  <2> QED
    BY <1>3, <2>1, <2>2 DEF Stands, Told, Reading
<1>7. CASE Audit(r)
  <2>1. r \in done' /\ pc'[r] = "done"
    BY <1>1, <1>7 DEF Audit, Placed, Respond, Typed
  <2> QED
    BY <1>3, <2>1 DEF Stands, Reading
<1>8. CASE \/ LookUpTable(r) \/ ReadTableColumns(r) \/ ReadConstraints(r)
           \/ ReadIndexes(r)
  <2>1. answer[r] = "none" /\ cmd[r].do = "get_table_structure"
          /\ Running(r) /\ cmd' = cmd
    BY <1>1, <1>8 DEF LookUpTable, ReadTableColumns, ReadConstraints,
       ReadIndexes, Stands, Running, Reading
  <2>2. r \notin Told'
    BY <2>1 DEF Told, Readings
  <2>3. \/ /\ pc'[r] \in {"columns", "constraints", "indexes"}
           /\ answer'[r] = "none"
        \/ pc'[r] = "done"
    BY <1>1, <1>8, <2>1 DEF LookUpTable, ReadTableColumns, ReadConstraints,
       ReadIndexes, Respond, Continue, Typed
  <2> QED
    BY <1>3, <2>1, <2>2, <2>3 DEF Stands, Reading
<1>9. CASE ListTables(r) \/ CountRows(r) \/ ReadPage(r) \/ ReadHeader(r)
  <2>1. answer[r] = "none" /\ Running(r) /\ cmd' = cmd /\ Reads(r)
          /\ (pc[r] # "list" => cmd[r].do = "get_project_table_data")
    BY <1>1, <1>9 DEF ListTables, CountRows, ReadPage, ReadHeader, Stands,
       Placed, Running, Reading
  <2>2. r \notin Told'
    BY <2>1 DEF Told, Reads
  <2>3. \/ pc'[r] \in {"page", "header"} /\ answer'[r] = "none" /\ pc[r] # "list"
        \/ pc'[r] = "done"
    BY <1>1, <1>9, <2>1 DEF ListTables, CountRows, ReadPage, ReadHeader,
       Respond, Continue, Typed
  <2> QED
    BY <1>3, <2>1, <2>2, <2>3 DEF Stands, Reading
<1>10. CASE Disturb(r)
  <2>1. /\ pc'[r] \in {"done"} \union ({pc[r]} \cap {"ddl", "audit"})
        /\ cmd' = cmd /\ read' = read /\ answer'[r] # "idle"
        /\ (pc'[r] = pc[r] => answer'[r] = "lost")
        /\ (answer'[r] = "ok" => answer[r] = "ok") /\ UNCHANGED done
    BY <1>1, <1>10 DEF Disturb, Abandon, NeverRuns, Continue, Running, Typed,
       Answers
  <2> QED
    BY <1>1, <1>3, <2>1 DEF Stands, Reading, Told
<1> QED
  BY <1>4, <1>5, <1>6, <1>7, <1>8, <1>9, <1>10 DEF Proceed

LEMMA ShownAlone ==
  ASSUME Coherent, NEW q \in Requests, Untouched(q)
  PROVE  Shown(q)'
<1>1. Shown(q)
  BY DEF Coherent, Ordered
<1>2. during'[q] \/ (catalog' = catalog /\ during'[q] = during[q])
  BY DEF Untouched
<1>3. CASE during'[q]
  BY <1>1, <1>3 DEF Untouched, Shown
<1>4. CASE catalog' = catalog /\ during'[q] = during[q]
  BY <1>1, <1>4 DEF Untouched, Shown
<1> QED
  BY <1>2, <1>3, <1>4

(* The four reads of a structure.                                          *)
LEMMA StructureShown ==
  ASSUME Coherent, NEW r \in Requests,
         LookUpTable(r) \/ ReadTableColumns(r) \/ ReadConstraints(r)
  PROVE  Shown(r)'
<1> DEFINE t == cmd[r].table
<1>1. Typed /\ Valued /\ Shown(r) /\ Stands(r)
  BY DEF Coherent, Trailed, Ordered
<1>2. UNCHANGED <<catalog, cmd>> /\ answer[r] = "none" /\ Running(r)
  BY <1>1 DEF LookUpTable, ReadTableColumns, ReadConstraints, Stands, Reading,
     Running
<1>3. CASE LookUpTable(r)
  <2>1. \/ pc'[r] = "done"
        \/ pc'[r] = "columns" /\ t \in catalog.tables
    BY <1>1, <1>2, <1>3 DEF LookUpTable, Respond, Continue, Exists, Typed
  <2>2. read'[r] = [tables |-> {t}, columns |-> {}, constraints |-> {},
                    indexes |-> {}, rows |-> {}]
    BY <1>1, <1>3 DEF LookUpTable, Valued, Empty
  <2> QED
    BY <1>2, <2>1, <2>2 DEF Shown
<1>4. CASE ReadTableColumns(r)
  <2>1. pc[r] = "columns" /\ pc'[r] = "constraints" /\ UNCHANGED during
    BY <1>1, <1>2, <1>4 DEF ReadTableColumns, Continue, Typed
  <2>2. read'[r] = [read[r] EXCEPT !.columns = On(catalog.columns, t)]
    BY <1>1, <1>4 DEF ReadTableColumns, Valued
  <2>3. ~during[r] =>
          /\ t \in catalog.tables
          /\ read[r] = [tables |-> {t}, columns |-> {}, constraints |-> {},
                        indexes |-> {}, rows |-> {}]
    BY <1>1, <2>1 DEF Shown
  <2>4. ~during[r] =>
          read'[r] = [tables |-> {t}, columns |-> On(catalog.columns, t),
                      constraints |-> {}, indexes |-> {}, rows |-> {}]
    BY <2>2, <2>3
  <2> QED
    BY <1>2, <2>1, <2>3, <2>4 DEF Shown
<1>5. CASE ReadConstraints(r)
  <2>1. pc[r] = "constraints" /\ pc'[r] = "indexes" /\ UNCHANGED during
    BY <1>1, <1>2, <1>5 DEF ReadConstraints, Continue, Typed
  <2>2. read'[r] = [read[r] EXCEPT
                      !.constraints = On(catalog.constraints, t)]
    BY <1>1, <1>5 DEF ReadConstraints, Valued
  <2>3. ~during[r] =>
          /\ t \in catalog.tables
          /\ read[r] = [tables |-> {t}, columns |-> On(catalog.columns, t),
                        constraints |-> {}, indexes |-> {}, rows |-> {}]
    BY <1>1, <2>1 DEF Shown
  <2>4. ~during[r] =>
          read'[r] = [tables |-> {t}, columns |-> On(catalog.columns, t),
                      constraints |-> On(catalog.constraints, t),
                      indexes |-> {}, rows |-> {}]
    BY <2>2, <2>3
  <2> QED
    BY <1>2, <2>1, <2>3, <2>4 DEF Shown
<1> QED
  BY <1>3, <1>4, <1>5

(* The count, and the page that comes of it.                               *)
LEMMA DataShown ==
  ASSUME Coherent, NEW r \in Requests, CountRows(r) \/ ReadPage(r)
  PROVE  Shown(r)'
<1> DEFINE t == cmd[r].table
           rows == On(catalog.rows, t)
<1>1. Typed /\ Valued /\ Shown(r) /\ Stands(r)
  BY DEF Coherent, Trailed, Ordered
<1>2. UNCHANGED <<catalog, cmd>> /\ answer[r] = "none" /\ Running(r)
  BY <1>1 DEF CountRows, ReadPage, Stands, Reading, Running
<1>3. CASE CountRows(r)
  <2>1. pc'[r] \in {"page", "done"}
    BY <1>1, <1>2, <1>3 DEF CountRows, Respond, Continue, Typed
  <2>2. total'[r] = Cardinality(rows)
    BY <1>1, <1>3 DEF CountRows, Valued
  <2> QED
    BY <1>2, <2>1, <2>2 DEF Shown
<1>4. CASE ReadPage(r)
  <2>1. cmd[r].offset \in Nat /\ cmd[r].limit \in Nat
    <3>1. cmd[r] \in Command /\ cmd[r].do = "get_project_table_data"
      BY <1>1, <1>4, CommandsAssumption
         DEF Coherent, Trailed, Typed, Placed, Ordered, Stands, ReadPage
    <3> QED
      BY <3>1, CommandFields
  <2>2. /\ UNCHANGED <<during, total>>
        /\ ~during[r] => total[r] = Cardinality(rows)
    BY <1>1, <1>4 DEF ReadPage, Shown
  <2>3. CASE pc'[r] = "done"
    BY <2>3 DEF Shown
  <2>4. CASE \E s \in SUBSET rows :
               /\ Cardinality(s) = Window(Cardinality(rows), cmd[r].offset,
                                          cmd[r].limit)
               /\ read' = [read EXCEPT ![r].rows = s]
             /\ Continue(r, "header")
    <3>1. PICK s \in SUBSET rows :
            /\ Cardinality(s) = Window(Cardinality(rows), cmd[r].offset,
                                       cmd[r].limit)
            /\ read' = [read EXCEPT ![r].rows = s]
      BY <2>4
    <3>2. pc'[r] = "header"
      BY <1>1, <1>2, <2>4 DEF Continue, Typed
    <3>3. read'[r].rows = s
      BY <1>1, <3>1 DEF Valued, Catalog
    <3>4. Cardinality(s) <= cmd[r].limit
      BY <2>1, <3>1, RowsCounted, WindowBounds
    <3> HIDE DEF rows
    <3>5. ~during[r] =>
            Cardinality(s) = Window(total[r], cmd[r].offset, cmd[r].limit)
      BY <2>2, <3>1
    <3> QED
      BY <1>2, <2>2, <3>1, <3>2, <3>3, <3>4, <3>5 DEF Shown, rows
  <2> QED
    BY <1>1, <1>2, <1>4, <2>3, <2>4 DEF ReadPage, Respond, Typed
<1> QED
  BY <1>3, <1>4

LEMMA ShownOwn ==
  ASSUME Coherent, NEW r \in Requests,
         \/ \E m \in Commands : Receive(r, m)
         \/ Proceed(r) \/ Disturb(r)
  PROVE  Shown(r)'
<1>1. Typed
  BY DEF Coherent, Trailed
<1>2. ASSUME pc'[r] \notin {"columns", "constraints", "indexes", "page", "header"}
      PROVE  Shown(r)'
  BY <1>2 DEF Shown
<1>3. CASE \E m \in Commands : Receive(r, m)
  BY <1>1, <1>2, <1>3 DEF Receive, Typed
<1>4. CASE ReadSchema(r) \/ Execute(r) \/ Audit(r)
  BY <1>1, <1>2, <1>4 DEF ReadSchema, Execute, Audit, Respond, Continue,
     AfterSchema, FirstReading, Typed
<1>5. CASE ReadIndexes(r) \/ ListTables(r) \/ ReadHeader(r)
  BY <1>1, <1>2, <1>5 DEF ReadIndexes, ListTables, ReadHeader, Respond, Typed
<1>6. CASE Disturb(r)
  BY <1>1, <1>2, <1>6 DEF Disturb, Abandon, NeverRuns, Continue, Running, Typed
<1> QED
  BY <1>3, <1>4, <1>5, <1>6, StructureShown, DataShown DEF Proceed

(* The rows that are deleted are gone.                                     *)
LEMMA DeletedRow ==
  ASSUME Coherent, NEW r \in Requests, Execute(r), r \notin done, r \in done',
         cmd[r].do = "delete_project_row"
  PROVE  /\ \E y \in catalog.rows : y.id = cmd[r].id
         /\ \A x \in catalog'.rows : x.id # cmd[r].id
         /\ cmd[r].id \notin fresh
<1>1. PICK c \in Outcomes(cmd[r]) : catalog' = c
  BY DEF Execute, Change
<1>2. ~NoRow(cmd[r]) /\ c \in DeleteRow(cmd[r])
  BY DEF Execute, Outcomes
<1>3. HasColumn(cmd[r].table, cmd[r].column)
  BY <1>2 DEF DeleteRow, Provided
<1>4. Hit(cmd[r]) # {}
  BY <1>2, <1>3 DEF NoRow
<1>5. \E y \in catalog.rows : y.id = cmd[r].id
  BY <1>4 DEF Hit, At
<1>6. Sound(catalog) /\ UsedOnce
  BY DEF Coherent
<1> QED
  BY <1>1, <1>2, <1>4, <1>5, <1>6, RowGone DEF UsedOnce

(* Who has had an effect before and after a step.                          *)
LEMMA StepDone ==
  ASSUME Coherent, [Next]_vars, NEW q \in Requests, q \in done'
  PROVE  /\ q \in done \/ (Execute(q) /\ q \notin done)
         /\ pc[q] # "idle" /\ cmd'[q] = cmd[q] /\ before'[q] = before[q]
<1>1. q \in done \/ (Execute(q) /\ q \notin done)
  <2>1. ASSUME NEW r \in Requests, Execute(r)
        PROVE  done' = done \/ (done' = done \union {r} /\ r \notin done)
    BY <2>1 DEF Coherent, Trailed, Placed, Execute
  <2>2. ASSUME NEW r \in Requests, Proceed(r) \/ Disturb(r)
        PROVE  Execute(r) \/ UNCHANGED done
    BY <2>2 DEF Proceed, Disturb, ReadSchema, Audit, LookUpTable,
       ReadTableColumns, ReadConstraints, ReadIndexes, ListTables, CountRows,
       ReadPage, ReadHeader, Abandon, NeverRuns
  <2>3. CASE \/ \E r \in Requests, m \in Commands : Receive(r, m)
             \/ DeleteProject \/ UNCHANGED vars
             \/ \E t \in Tables, i \in RowIds : InsertRow(t, i)
    BY <2>3 DEF Receive, DeleteProject, InsertRow, vars
  <2> QED
    BY <2>1, <2>2, <2>3 DEF Next, Rest
<1>2. pc[q] # "idle"
  BY <1>1 DEF Coherent, Trailed, Placed, Execute
<1> QED
  BY <1>1, <1>2, Steady

LEMMA StepGone ==
  ASSUME Coherent, [Next]_vars, NEW q \in Requests
  PROVE  Gone(q)'
<1> SUFFICES ASSUME Deletes(q)'
             PROVE  /\ cmd'[q].id \notin fresh'
                    /\ \A x \in catalog'.rows : x.id # cmd'[q].id
  BY DEF Gone
<1>1. q \in done' /\ cmd'[q] = cmd[q] /\ cmd[q].do = "delete_project_row"
  BY StepDone DEF Deletes
<1>2. CASE q \in done
  <2>1. cmd[q].id \notin fresh /\ \A x \in catalog.rows : x.id # cmd[q].id
    BY <1>1, <1>2 DEF Coherent, Ordered, Gone, Deletes
  <2> QED
    BY <1>1, <2>1, StepSound
<1>3. CASE Execute(q) /\ q \notin done
  BY <1>1, <1>3, DeletedRow, StepSound
<1> QED
  BY <1>1, <1>2, <1>3, StepDone

LEMMA StepOnce ==
  ASSUME Coherent, [Next]_vars, NEW r \in Requests, NEW q \in Requests \ {r},
         Deletes(r)', Deletes(q)'
  PROVE  cmd'[r].id # cmd'[q].id
<1>1. /\ r \in done' /\ cmd'[r] = cmd[r]
      /\ cmd[r].do = "delete_project_row"
      /\ q \in done' /\ cmd'[q] = cmd[q]
      /\ cmd[q].do = "delete_project_row"
  BY StepDone DEF Deletes
<1>2. CASE r \in done /\ q \in done
  BY <1>1, <1>2 DEF Coherent, Ordered, Once, Deletes
<1>3. ASSUME NEW u \in Requests, NEW v \in Requests, Execute(u), u \notin done,
             u \in done', cmd[u].do = "delete_project_row", v \in done,
             cmd[v].do = "delete_project_row"
      PROVE  cmd[u].id # cmd[v].id
  <2>1. PICK y \in catalog.rows : y.id = cmd[u].id
    BY <1>3, DeletedRow
  <2>2. \A x \in catalog.rows : x.id # cmd[v].id
    BY <1>3 DEF Coherent, Ordered, Gone, Deletes
  <2> QED
    BY <2>1, <2>2
<1>4. (r \in done \/ (Execute(r) /\ r \notin done))
        /\ (q \in done \/ (Execute(q) /\ q \notin done))
  BY <1>1, StepDone
<1>5. ~(Execute(r) /\ r \notin done /\ q \notin done)
  BY <1>1 DEF Execute
<1> QED
  BY <1>1, <1>2, <1>3, <1>4, <1>5

(* What a step puts before the client of a request.                        *)
LEMMA RowsRead ==
  ASSUME Coherent, [Next]_vars, NEW r \in Requests
  PROVE  \/ read'[r].rows = read[r].rows
         \/ read'[r].rows \subseteq catalog.rows
<1>1. Valued
  BY DEF Coherent
<1>2. CASE UNCHANGED read
  BY <1>2
<1>3. CASE Untouched(r)
  BY <1>3 DEF Untouched
<1>4. CASE LookUpTable(r)
  <2>1. read'[r].rows = {}
    BY <1>1, <1>4 DEF LookUpTable, Valued, Empty
  <2> QED
    BY <2>1
<1>5. CASE ReadTableColumns(r) \/ ReadHeader(r)
  <2>1. PICK s : read' = [read EXCEPT ![r].columns = s]
    BY <1>5 DEF ReadTableColumns, ReadHeader
  <2> QED
    BY <1>1, <2>1 DEF Valued, Catalog
<1>6. CASE ReadConstraints(r)
  BY <1>1, <1>6 DEF ReadConstraints, Valued, Catalog
<1>7. CASE ReadIndexes(r)
  BY <1>1, <1>7 DEF ReadIndexes, Valued, Catalog
<1>8. CASE ListTables(r)
  BY <1>1, <1>8 DEF ListTables, Valued, Catalog
<1>9. CASE ReadPage(r)
  <2>1. UNCHANGED read \/ \E s \in SUBSET On(catalog.rows, cmd[r].table) :
                            read' = [read EXCEPT ![r].rows = s]
    BY <1>9 DEF ReadPage
  <2>2. CASE \E s \in SUBSET On(catalog.rows, cmd[r].table) :
               read' = [read EXCEPT ![r].rows = s]
    <3>1. PICK s \in SUBSET On(catalog.rows, cmd[r].table) :
            read' = [read EXCEPT ![r].rows = s]
      BY <2>2
    <3>2. read'[r].rows = s
      BY <1>1, <3>1 DEF Valued, Catalog
    <3> QED
      BY <3>1, <3>2 DEF On
  <2> QED
    BY <2>1, <2>2
<1>10. ASSUME Proceed(r) \/ Disturb(r)
       PROVE  \/ UNCHANGED read
              \/ LookUpTable(r) \/ ReadTableColumns(r) \/ ReadConstraints(r)
              \/ ReadIndexes(r) \/ ListTables(r) \/ ReadPage(r) \/ ReadHeader(r)
  BY <1>10 DEF Proceed, Disturb, ReadSchema, Execute, Audit, CountRows, Abandon,
     NeverRuns
<1>11. ASSUME NEW q \in Requests, q # r, Proceed(q) \/ Disturb(q)
       PROVE  Untouched(r)
  BY <1>11, ProceedAlone
<1>12. CASE \/ \E q \in Requests, m \in Commands : Receive(q, m)
            \/ DeleteProject \/ UNCHANGED vars
            \/ \E t \in Tables, i \in RowIds : InsertRow(t, i)
  BY <1>2, <1>12 DEF Receive, DeleteProject, InsertRow, vars
<1> QED
  BY <1>2, <1>3, <1>4, <1>5, <1>6, <1>7, <1>8, <1>9, <1>10, <1>11, <1>12
     DEF Next, Rest

LEMMA StepUnseen ==
  ASSUME Coherent, [Next]_vars, NEW r \in Requests
  PROVE  Unseen(r)'
<1> SUFFICES ASSUME NEW q \in before'[r], Deletes(q)', answer'[q] = "ok",
                    NEW x \in read'[r].rows
             PROVE  x.id # cmd'[q].id
  BY DEF Unseen
<1>1. Valued /\ Valued'
  BY StepValued DEF Coherent
<1>2. q \in Requests
  BY <1>1 DEF Valued
<1>3. /\ q \in done' /\ cmd'[q] = cmd[q]
      /\ cmd[q].do = "delete_project_row"
      /\ q \in done \/ (Execute(q) /\ q \notin done)
  BY <1>2, StepDone DEF Deletes
<1>4. CASE pc[r] = "idle"
  <2>1. read[r] = Empty
    BY <1>4 DEF Coherent, Ordered, Stands
  <2>2. (q \in done /\ answer[q] = "ok") \/ read'[r] = read[r]
    <3>1. CASE \E m \in Commands : Receive(r, m)
      BY <3>1 DEF Receive
    <3>2. CASE Untouched(r)
      BY <3>2 DEF Untouched
    <3>3. ~Proceed(r) /\ ~Disturb(r)
      BY <1>4 DEF Proceed, Disturb, ReadSchema, Execute, Audit, LookUpTable,
         ReadTableColumns, ReadConstraints, ReadIndexes, ListTables, CountRows,
         ReadPage, ReadHeader, Abandon, NeverRuns, Running
    <3>4. CASE UNCHANGED vars
      BY <3>4 DEF vars
    <3>5. ASSUME NEW u \in Requests, u # r, NEW m \in Commands, Receive(u, m)
          PROVE  Untouched(r)
      BY <3>5, ReceiveAlone
    <3>6. ASSUME NEW u \in Requests, u # r, Proceed(u) \/ Disturb(u)
          PROVE  Untouched(r)
      BY <3>6, ProceedAlone
    <3> QED
      BY <3>1, <3>2, <3>3, <3>4, <3>5, <3>6, OutsideAlone DEF Next, Rest
  <2>3. \A y \in read'[r].rows : read'[r] # read[r] => y \in catalog.rows
    BY <2>1, RowsRead DEF Empty
  <2>4. q \in done => \A y \in catalog.rows : y.id # cmd[q].id
    BY <1>2, <1>3 DEF Coherent, Ordered, Gone, Deletes
  <2> QED
    BY <1>3, <2>1, <2>2, <2>3, <2>4 DEF Empty
<1>5. CASE pc[r] # "idle"
  <2>1. q \in before[r]
    BY <1>5, Steady
  <2>2. answer[q] # "none"
    BY <2>1 DEF Coherent, Ordered, Stands
  <2>3. answer[q] = "ok"
    BY <1>2, <2>2, Steady
  <2>4. q \in done
    BY <1>2, <1>3, <2>3 DEF Execute, Coherent, Ordered, Stands
  <2>5. \A y \in catalog.rows : y.id # cmd[q].id
    BY <1>2, <1>3, <2>4 DEF Coherent, Ordered, Gone, Deletes
  <2>6. \A y \in read[r].rows : y.id # cmd[q].id
    BY <1>3, <2>1, <2>3, <2>4 DEF Coherent, Ordered, Unseen, Deletes
  <2> QED
    BY <1>3, <2>5, <2>6, RowsRead
<1> QED
  BY <1>4, <1>5

-----------------------------------------------------------------------------
(* What DDL has made, and what comes of it.                                *)

LEMMA CatalogSteps ==
  ASSUME Coherent, [Next]_vars, alive'
  PROVE  \/ /\ catalog'.constraints = catalog.constraints
            /\ catalog'.columns = catalog.columns
         \/ \E q \in Requests : /\ Execute(q) /\ q \notin done /\ q \in done'
                                /\ catalog' \in Outcomes(cmd[q])
<1>1. CASE UNCHANGED catalog
  BY <1>1
<1>2. ASSUME NEW r \in Requests, Execute(r)
      PROVE  \/ UNCHANGED catalog
             \/ r \notin done /\ r \in done' /\ catalog' \in Outcomes(cmd[r])
  BY <1>2 DEF Execute, Change, Coherent, Trailed, Placed
<1>3. ASSUME NEW r \in Requests, Proceed(r) \/ Disturb(r)
      PROVE  Execute(r) \/ UNCHANGED catalog
  BY <1>3 DEF Proceed, Disturb, ReadSchema, Audit, LookUpTable,
     ReadTableColumns, ReadConstraints, ReadIndexes, ListTables, CountRows,
     ReadPage, ReadHeader, Abandon, NeverRuns
<1>4. CASE \E t \in Tables, i \in RowIds : InsertRow(t, i)
  <2>1. PICK s : catalog' = [catalog EXCEPT !.rows = s]
    BY <1>4 DEF InsertRow, Change
  <2> QED
    BY <2>1 DEF Coherent, Sound, Catalog
<1>5. ~DeleteProject
  BY DEF DeleteProject
<1>6. CASE \E r \in Requests, m \in Commands : Receive(r, m)
  BY <1>6 DEF Receive
<1> QED
  BY <1>1, <1>2, <1>3, <1>4, <1>5, <1>6 DEF Next, Rest, vars

(* A statement that takes effect now may follow whatever took effect       *)
(* before, and what followed still does.                                   *)
LEMMA FollowsNow ==
  ASSUME Coherent, [Next]_vars, NEW r \in Requests, NEW q \in Requests,
         r \in done, q \notin done, q \in done'
  PROVE  MayFollow(q, r)' /\ cmd'[q] = cmd[q]
<1>1. Execute(q) /\ cmd'[q] = cmd[q]
  BY StepDone
<1>2. before'[r] = before[r]
  BY Steady, StepDone
<1>3. q \in before[r] => answer[q] = "lost"
  BY <1>1 DEF Coherent, Ordered, Stands, Execute
<1>4. q \in before[r] => answer'[q] = "lost"
  BY <1>3, Steady
<1> QED
  BY <1>1, <1>2, <1>4 DEF MayFollow

LEMMA FollowsStill ==
  ASSUME Coherent, [Next]_vars, NEW r \in Requests, NEW q \in Requests,
         r \in done, MayFollow(q, r)
  PROVE  MayFollow(q, r)' /\ cmd'[q] = cmd[q]
<1>1. q \in done' /\ r \in done'
  BY Steady DEF MayFollow
<1>2. cmd'[q] = cmd[q] /\ before'[r] = before[r]
  BY <1>1, StepDone
<1>3. answer[q] = "lost" => answer'[q] = "lost"
  BY Steady
<1> QED
  BY <1>1, <1>2, <1>3 DEF MayFollow

LEMMA StepKey ==
  ASSUME Coherent, [Next]_vars, NEW r \in Requests
  PROVE  KeyKept(r)'
<1>m. PICK m : m = cmd[r]
  OBVIOUS
<1>s. SUFFICES ASSUME r \in done', m.do = "add_foreign_key", alive'
               PROVE  \/ TheKey(m) \in ForeignKeys'
                      \/ \E q \in Requests : MayFollow(q, r)' /\ KeyUndone(q, m)'
  <2>1. r \in done' => cmd'[r] = m
    BY <1>m, StepDone
  <2>2. TheKey(m) \in ForeignKeys' => TheKey(cmd[r])' \in ForeignKeys' \/ cmd'[r] # m
    BY DEF TheKey
  <2>3. ASSUME cmd'[r] = m, NEW q \in Requests, KeyUndone(q, m)'
        PROVE  KeyUndone(q, cmd[r])'
    BY <2>3 DEF KeyUndone
  <2> QED
    BY <2>1, <2>2, <2>3 DEF KeyKept
<1>1. alive /\ Sound(catalog)
  BY <1>s, Steady DEF Coherent
<1>2. TheKey(m).kind = "fk" /\ TheKey(m).name = m.name
        /\ TheKey(m).table = m.table /\ TheKey(m).column = m.column
        /\ TheKey(m).to = m.to /\ TheKey(m).toColumn = m.toColumn
  BY DEF TheKey
<1>3. ASSUME NEW q \in Requests, cmd'[q] = cmd[q], KeyUndone(q, m)
      PROVE  KeyUndone(q, m)'
  BY <1>3 DEF KeyUndone
<1>4. CASE r \in done
  <2>1. \/ TheKey(m) \in ForeignKeys
        \/ \E q \in Requests : MayFollow(q, r) /\ KeyUndone(q, m)
    BY <1>m, <1>s, <1>1, <1>4 DEF Coherent, Ordered, KeyKept
  <2>2. CASE \E q \in Requests : MayFollow(q, r) /\ KeyUndone(q, m)
    BY <1>3, <1>4, <2>2, FollowsStill
  <2>3. CASE TheKey(m) \in ForeignKeys
    <3>1. CASE catalog'.constraints = catalog.constraints
      BY <1>1, <2>3, <3>1 DEF ForeignKeys
    <3>2. ASSUME NEW q \in Requests, Execute(q), q \notin done, q \in done',
                 catalog' \in Outcomes(cmd[q]), ~KeyUndone(q, m)
          PROVE  TheKey(m) \in ForeignKeys'
      <4>1. cmd[q].do \in Statements
        BY <3>2 DEF Coherent, Ordered, Stands, Execute
      <4>2. PICK u : u = cmd[q]
        OBVIOUS
      <4>3. PICK c \in Outcomes(u) : c = catalog'
        BY <3>2, <4>2
      <4>4. ~Renames(u) /\ ~(u.do = "drop_constraint" /\ u.name = m.name)
              /\ ~Drops(u, m.table, m.column)
              /\ ~(Drops(u, m.to, m.toColumn) /\ u.cascade)
        BY <3>2, <4>2 DEF KeyUndone
      <4>5. TheKey(m) \in c.constraints
        BY <1>1, <1>2, <2>3, <4>1, <4>2, <4>3, <4>4, ForeignKeysStay
      <4> QED
        BY <1>2, <4>3, <4>5 DEF ForeignKeys
    <3> QED
      BY <1>1, <1>3, <1>4, <3>1, <3>2, <1>s, CatalogSteps, FollowsNow
  <2> QED
    BY <2>1, <2>2, <2>3
<1>5. CASE Execute(r) /\ r \notin done
  <2>1. PICK c \in Outcomes(m) : catalog' = c
    BY <1>m, <1>s, <1>5 DEF Execute, Change
  <2>2. c \in AddForeignKey(m)
    BY <1>s, <2>1 DEF Outcomes
  <2>3. TheKey(m) \in c.constraints
    BY <1>1, <2>2, ForeignKeyMade DEF TheKey
  <2> QED
    BY <1>1, <1>2, <2>1, <2>3 DEF ForeignKeys
<1> QED
  BY <1>s, <1>4, <1>5, StepDone

LEMMA StepTable ==
  ASSUME Coherent, [Next]_vars, NEW r \in Requests
  PROVE  TableKept(r)'
<1>m. PICK m : m = cmd[r]
  OBVIOUS
<1>s. SUFFICES ASSUME r \in done', m.do = "create_table", alive', ~m.ifNotExists
               PROVE  \/ m.type \in TypesIn(catalog', m.table, m.column)
                      \/ \E q \in Requests : MayFollow(q, r)' /\ TableUndone(q, m)'
  <2>1. r \in done' => cmd'[r] = m
    BY <1>m, StepDone
  <2>2. ASSUME cmd'[r] = m, NEW q \in Requests, TableUndone(q, m)'
        PROVE  TableUndone(q, cmd[r])'
    BY <2>2 DEF TableUndone
  <2>3. ASSUME cmd'[r] = m, m.type \in TypesIn(catalog', m.table, m.column)
        PROVE  (cmd[r].type \in TypesOf(cmd[r].table, cmd[r].column))'
    BY <2>3 DEF TypesOf
  <2> QED
    BY <2>1, <2>2, <2>3 DEF TableKept
<1>1. alive /\ Sound(catalog)
  BY <1>s, Steady DEF Coherent
<1>2. ASSUME NEW q \in Requests, cmd'[q] = cmd[q], TableUndone(q, m)
      PROVE  TableUndone(q, m)'
  BY <1>2 DEF TableUndone
<1>4. CASE r \in done
  <2>1. \/ m.type \in TypesOf(m.table, m.column)
        \/ \E q \in Requests : MayFollow(q, r) /\ TableUndone(q, m)
    BY <1>m, <1>s, <1>1, <1>4 DEF Coherent, Ordered, TableKept
  <2>2. CASE \E q \in Requests : MayFollow(q, r) /\ TableUndone(q, m)
    BY <1>2, <1>4, <2>2, FollowsStill
  <2>3. CASE m.type \in TypesOf(m.table, m.column)
    <3>1. CASE catalog'.columns = catalog.columns
      BY <2>3, <3>1 DEF TypesOf, TypesIn
    <3>2. PICK x \in catalog.columns :
            x.table = m.table /\ x.column = m.column /\ x.type = m.type
      BY <2>3 DEF TypesOf, TypesIn, At
    <3>3. ASSUME NEW q \in Requests, Execute(q), q \notin done, q \in done',
                 catalog' \in Outcomes(cmd[q]), ~TableUndone(q, m)
          PROVE  m.type \in TypesIn(catalog', m.table, m.column)
      <4>1. cmd[q].do \in Statements
        BY <3>3 DEF Coherent, Ordered, Stands, Execute
      <4>2. PICK u : u = cmd[q]
        OBVIOUS
      <4>3. PICK c \in Outcomes(u) : c = catalog'
        BY <3>3, <4>2
      <4>4. ~Renames(u) /\ ~Drops(u, m.table, m.column)
              /\ ~(u.do = "alter_column_type" /\ u.table = m.table
                     /\ u.column = m.column)
        BY <3>3, <4>2 DEF TableUndone
      <4>5. x \in c.columns
        BY <1>1, <3>2, <4>1, <4>2, <4>3, <4>4, ColumnsStay
      <4> QED
        BY <3>2, <4>3, <4>5 DEF TypesIn, At
    <3> QED
      BY <1>2, <1>4, <3>1, <3>3, <1>s, CatalogSteps, FollowsNow
  <2> QED
    BY <2>1, <2>2, <2>3
<1>5. CASE Execute(r) /\ r \notin done
  <2>1. PICK c \in Outcomes(m) : catalog' = c
    BY <1>m, <1>s, <1>5 DEF Execute, Change
  <2>2. c \in CreateTable(m)
    BY <1>s, <2>1 DEF Outcomes
  <2> QED
    BY <1>s, <1>1, <2>1, <2>2, TableMade
<1> QED
  BY <1>s, <1>4, <1>5, StepDone

-----------------------------------------------------------------------------
(* The invariant, and what follows from it.                                *)

(* A step leaves a request alone, or is its own.                           *)
LEMMA WhoseStep ==
  ASSUME Coherent, [Next]_vars, NEW q \in Requests
  PROVE  \/ Untouched(q)
         \/ \E m \in Commands : Receive(q, m)
         \/ Proceed(q) \/ Disturb(q)
<1>1. CASE UNCHANGED vars
  BY <1>1 DEF vars, Untouched
<1>2. ASSUME NEW r \in Requests, r # q, NEW m \in Commands, Receive(r, m)
      PROVE  Untouched(q)
  BY <1>2, ReceiveAlone
<1>3. ASSUME NEW r \in Requests, r # q, Proceed(r) \/ Disturb(r)
      PROVE  Untouched(q)
  BY <1>3, ProceedAlone
<1> QED
  BY <1>1, <1>2, <1>3, OutsideAlone DEF Next, Rest

LEMMA StepCoherent ==
  ASSUME Coherent, [Next]_vars
  PROVE  Coherent'
<1>1. Trailed'
  BY StepTrailed DEF Coherent
<1>2. Valued'
  BY StepValued
<1>3. Sound(catalog)' /\ UsedOnce'
  BY StepSound DEF UsedOnce
<1>4. ASSUME NEW r \in Requests PROVE Ordered(r)'
  <2>1. Stands(r)' /\ Shown(r)'
    BY WhoseStep, StandsAlone, StandsOwn, ShownAlone, ShownOwn
  <2>2. Gone(r)'
    BY StepGone
  <2>3. Once(r)'
    BY StepOnce DEF Once
  <2>4. Unseen(r)'
    BY StepUnseen
  <2>5. KeyKept(r)' /\ TableKept(r)'
    BY StepKey, StepTable
  <2> QED
    BY <2>1, <2>2, <2>3, <2>4, <2>5 DEF Ordered
<1> QED
  BY <1>1, <1>2, <1>3, <1>4 DEF Coherent

LEMMA AlwaysCoherent == Spec => []Coherent
<1>1. Coherent /\ [Next]_vars => Coherent'
  BY StepCoherent
<1> QED
  BY <1>1, InitCoherent, PTL DEF Spec

(* Whatever DDL there is, in whatever order, and whatever rows come and    *)
(* go: the catalog is one that PostgreSQL would let be, and nobody awaits  *)
(* the audit row of a statement that has not had its effect.               *)
THEOREM SchemaTyped == Spec => []TypeOK
<1>1. Coherent => TypeOK
  <2> SUFFICES ASSUME Coherent PROVE TypeOK
    OBVIOUS
  <2>1. Typed /\ Valued /\ Sound(catalog)
    BY DEF Coherent, Trailed
  <2>2. \A r \in Requests : pc[r] = "audit" => r \in done \ Recorded
    BY DEF Coherent, Trailed, Placed
  <2> QED
    BY <2>1, <2>2 DEF TypeOK, Typed, Valued, Steps, Answers
<1> QED
  BY <1>1, AlwaysCoherent, PTL

(* What create_table and add_foreign_key were told of a success about is   *)
(* there until somebody who was not over before undoes it, whoever runs    *)
(* beside them and whoever leaves without waiting.                         *)
THEOREM DdlLasts == Spec => []DdlHolds
<1>1. Coherent => DdlHolds
  <2> SUFFICES ASSUME Coherent PROVE DdlHolds
    OBVIOUS
  <2>1. ASSUME NEW r \in Requests, answer[r] = "ok",
               cmd[r].do \in {"add_foreign_key", "create_table"}
        PROVE  r \in done
    <3>1. pc[r] # "idle"
      BY <2>1 DEF Coherent, Trailed, Placed
    <3>2. cmd[r].do \notin Readings
      BY <2>1 DEF Readings
    <3> QED
      BY <2>1, <3>1, <3>2 DEF Coherent, Ordered, Stands, Told
  <2>2. ForeignKeysSurvive
    <3> SUFFICES ASSUME NEW r \in Requests, answer[r] = "ok",
                        cmd[r].do = "add_foreign_key", alive
                 PROVE  \/ TheKey(cmd[r]) \in ForeignKeys
                        \/ \E q \in Requests :
                             MayFollow(q, r) /\ KeyUndone(q, cmd[r])
      BY DEF ForeignKeysSurvive, KeyUndone, TheKey
    <3> QED
      BY <2>1 DEF Coherent, Ordered, KeyKept
  <2>3. CreateHolds
    <3> SUFFICES ASSUME NEW r \in Requests, answer[r] = "ok",
                        cmd[r].do = "create_table", alive
                 PROVE  \/ cmd[r].ifNotExists
                        \/ cmd[r].type \in TypesOf(cmd[r].table, cmd[r].column)
                        \/ \E q \in Requests :
                             MayFollow(q, r) /\ TableUndone(q, cmd[r])
      BY DEF CreateHolds, TableUndone
    <3> QED
      BY <2>1 DEF Coherent, Ordered, TableKept
  <2> QED
    BY <2>2, <2>3 DEF DdlHolds
<1> QED
  BY <1>1, AlwaysCoherent, PTL

(* Of any number of requests for a row one deletes it, and nobody who      *)
(* comes after its answer finds it on a page.                              *)
THEOREM RowsDeletedOnce == Spec => []RowDeletedOnce
<1>1. Coherent => RowDeletedOnce
  BY DEF Coherent, Ordered, Once, Unseen, Deletes, RowDeletedOnce
<1> QED
  BY <1>1, AlwaysCoherent, PTL

(* Whatever is read in several statements is what there is, or the catalog *)
(* has changed since the first of them: a structure of a table, and a page *)
(* of its rows with its total and its columns.                             *)
THEOREM ReadingsHold == Spec => ReadingsExplained
<1>1. ASSUME Coherent, [Next]_vars, NEW r \in Requests, pc[r] \in Reading,
             answer'[r] = "ok"
      PROVE  Proceed(r)
  <2>1. answer[r] = "none"
    BY <1>1 DEF Coherent, Ordered, Stands
  <2>2. ~Untouched(r)
    BY <1>1, <2>1 DEF Untouched
  <2>3. ~Disturb(r)
    BY <1>1 DEF Disturb, Abandon, NeverRuns, Reading, Coherent, Trailed, Typed
  <2>4. ~\E m \in Commands : Receive(r, m)
    BY <1>1 DEF Receive, Reading
  <2> QED
    BY <1>1, <2>2, <2>3, <2>4, WhoseStep
<1>2. ASSUME Coherent, [Next]_vars PROVE StructureExplained
  <2> SUFFICES ASSUME NEW r \in Requests, pc[r] = "indexes", answer'[r] = "ok"
               PROVE  \/ during[r]
                      \/ /\ cmd[r].table \in catalog.tables
                         /\ read'[r] = [tables |-> {cmd[r].table},
                              columns |-> On(catalog.columns, cmd[r].table),
                              constraints |-> On(catalog.constraints, cmd[r].table),
                              indexes |-> On(catalog.indexes, cmd[r].table),
                              rows |-> {}]
    BY DEF StructureExplained
  <2>1. Proceed(r)
    BY <1>1, <1>2 DEF Reading
  <2>2. ReadIndexes(r)
    BY <2>1 DEF Proceed, ReadSchema, Execute, Audit, LookUpTable,
       ReadTableColumns, ReadConstraints, ListTables, CountRows, ReadPage,
       ReadHeader
  <2>3. Shown(r) /\ Valued
    BY <1>2 DEF Coherent, Ordered
  <2>4. read'[r] = [read[r] EXCEPT
                      !.indexes = On(catalog.indexes, cmd[r].table)]
    BY <2>2, <2>3 DEF ReadIndexes, Valued
  <2> QED
    BY <2>3, <2>4 DEF Shown
<1>3. ASSUME Coherent, [Next]_vars PROVE TableDataExplained
  <2> SUFFICES ASSUME NEW r \in Requests, pc[r] = "header", answer'[r] = "ok"
               PROVE  /\ Cardinality(read'[r].rows) <= cmd[r].limit
                      /\ \/ during[r]
                         \/ /\ read'[r].rows \subseteq On(catalog.rows, cmd[r].table)
                            /\ read'[r].columns
                                 \in {On(catalog.columns, cmd[r].table), {}}
                            /\ cmd[r].offset + cmd[r].limit <= total[r] =>
                                 Cardinality(read'[r].rows) = cmd[r].limit
                            /\ /\ cmd[r].offset <= total[r]
                               /\ total[r] < cmd[r].offset + cmd[r].limit
                               => Cardinality(read'[r].rows)
                                    = total[r] - cmd[r].offset
    BY DEF TableDataExplained
  <2>1. Proceed(r)
    BY <1>1, <1>3 DEF Reading
  <2>2. ReadHeader(r)
    BY <2>1 DEF Proceed, ReadSchema, Execute, Audit, LookUpTable,
       ReadTableColumns, ReadConstraints, ReadIndexes, ListTables, CountRows,
       ReadPage
  <2>3. Shown(r) /\ Valued
    BY <1>3 DEF Coherent, Ordered
  <2>4. read'[r].rows = read[r].rows
          /\ read'[r].columns \in {On(catalog.columns, cmd[r].table), {}}
    <3>1. PICK s \in {On(catalog.columns, cmd[r].table), {}} :
            read' = [read EXCEPT ![r].columns = s]
      BY <2>2 DEF ReadHeader
    <3> QED
      BY <2>3, <3>1 DEF Valued, Catalog
  <2>5. cmd[r].offset \in Nat /\ cmd[r].limit \in Nat /\ total[r] \in Nat
    <3>1. cmd[r] \in Command /\ cmd[r].do = "get_project_table_data"
      BY <1>3, CommandsAssumption
         DEF Coherent, Trailed, Typed, Placed, Ordered, Stands
    <3> QED
      BY <2>3, <3>1, CommandFields DEF Valued
  <2>6. LET w == Window(total[r], cmd[r].offset, cmd[r].limit) IN
        /\ cmd[r].offset + cmd[r].limit <= total[r] => w = cmd[r].limit
        /\ cmd[r].offset <= total[r] /\ total[r] < cmd[r].offset + cmd[r].limit
             => w = total[r] - cmd[r].offset
    BY <2>5, WindowBounds
  <2> QED
    BY <2>3, <2>4, <2>6 DEF Shown
<1>4. Coherent /\ [Next]_vars => [ReadingExplained]_vars
  BY <1>2, <1>3 DEF ReadingExplained
<1> QED
  BY <1>4, AlwaysCoherent, PTL DEF Spec, ReadingsExplained
=============================================================================
