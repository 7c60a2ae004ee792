-------------------------- MODULE ProvisioningProofs --------------------------
(***************************************************************************)
(* Theorems about Provisioning, for any number of requests, projects and   *)
(* schemas.                                                                *)
(***************************************************************************)
EXTENDS ProvisioningInvariant, TLAPS

-----------------------------------------------------------------------------
(* Cells and partial functions *)

(* Cells of different kinds, or of different things, are different cells.  *)
LEMMA CellsDistinct ==
  /\ \A p, q : Row(p) = Row(q) => p = q
  /\ \A p, q : Schema(p) = Schema(q) => p = q
  /\ \A p, q : Role(p) = Role(q) => p = q
  /\ \A p, q : AuditRow(p) = AuditRow(q) => p = q
  /\ \A p, q : /\ Row(p) # Schema(q) /\ Row(p) # Role(q)
               /\ Row(p) # AuditRow(q) /\ Row(p) # DatabaseAcl
               /\ Schema(p) # Role(q) /\ Schema(p) # AuditRow(q)
               /\ Schema(p) # DatabaseAcl /\ Role(p) # AuditRow(q)
               /\ Role(p) # DatabaseAcl /\ AuditRow(p) # DatabaseAcl
BY DEF Row, Schema, Role, AuditRow, DatabaseAcl

(* The kind of value each kind of cell holds.                              *)
LEMMA CellValues ==
  /\ \A p \in Ids : Row(p) \in Cells /\ CellValue(Row(p)) = ProjectRow \union {Absent}
  /\ \A s \in Schemas : /\ Schema(s) \in Cells /\ CellValue(Schema(s)) = {"present", "missing"}
                        /\ Role(s) \in Cells
                        /\ CellValue(Role(s)) = Passwords \union {Absent}
  /\ DatabaseAcl \in Cells /\ CellValue(DatabaseAcl) = SUBSET Schemas
  /\ \A r \in Requests : AuditRow(r) \in Cells /\ CellValue(AuditRow(r)) = {"present", "missing"}
<1>1. \A p \in Ids : CellValue(Row(p)) = ProjectRow \union {Absent}
  BY CellsDistinct DEF CellValue
<1>2. \A s \in Schemas : CellValue(Role(s)) = Passwords \union {Absent}
  BY CellsDistinct DEF CellValue
<1>3. \A s \in Schemas : CellValue(Schema(s)) = {"present", "missing"}
  BY CellsDistinct DEF CellValue
<1>4. CellValue(DatabaseAcl) = SUBSET Schemas
  BY CellsDistinct DEF CellValue
<1>5. \A r \in Requests : CellValue(AuditRow(r)) = {"present", "missing"}
  BY CellsDistinct DEF CellValue
<1> QED BY <1>1, <1>2, <1>3, <1>4, <1>5 DEF Cells

(* The merged functions of a transaction.                                  *)
LEMMA Grown ==
  ASSUME NEW f, NEW g, NEW t, NEW c, t = Add(f, g)
  PROVE  /\ c \in DOMAIN g => c \in DOMAIN t /\ t[c] = g[c]
         /\ c \in DOMAIN f /\ c \notin DOMAIN g => c \in DOMAIN t /\ t[c] = f[c]
BY DEF Add

LEMMA AddFacts ==
  \A f, g :
         /\ DOMAIN Add(f, g) = DOMAIN f \union DOMAIN g
         /\ \A c : c \in DOMAIN g => Add(f, g)[c] = g[c]
         /\ \A c : c \in DOMAIN f /\ c \notin DOMAIN g => Add(f, g)[c] = f[c]
BY DEF Add

LEMMA OverrideFacts ==
  \A f, g :
         /\ DOMAIN Override(f, g) = DOMAIN f
         /\ \A c \in DOMAIN f :
              Override(f, g)[c] = IF c \in DOMAIN g THEN g[c] ELSE f[c]
BY DEF Override

LEMMA OnlyFacts ==
  /\ \A c, v : DOMAIN Only(c, v) = {c} /\ Only(c, v)[c] = v
  /\ DOMAIN Empty = {}
BY DEF Only, Empty

(* What the transactions of each operation are made of.                    *)
LEMMA CreateStatements ==
  /\ Len(CreateScript) = 7
  /\ CreateScript[1] = "CreateRole" /\ CreateScript[2] = "GrantConnect"
  /\ CreateScript[3] = "GrantSchema" /\ CreateScript[4] = "GrantObjects"
  /\ CreateScript[5] = "CreateSchema" /\ CreateScript[6] = "InsertProject"
  /\ CreateScript[7] = "Audit"
BY DEF CreateScript, CreateRoleWithGrants

LEMMA ResetStatements ==
  ASSUME NEW role
  PROVE
  /\ role = NoRole =>
       /\ Len(ResetScript(role)) = 6
       /\ ResetScript(role)[1] = "CreateRole"
       /\ ResetScript(role)[2] = "GrantConnect"
       /\ ResetScript(role)[3] = "GrantSchema"
       /\ ResetScript(role)[4] = "GrantObjects"
       /\ ResetScript(role)[5] = "UpdateProject"
       /\ ResetScript(role)[6] = "Audit"
  /\ role # NoRole =>
       /\ Len(ResetScript(role)) = 3
       /\ ResetScript(role)[1] = "AlterRole"
       /\ ResetScript(role)[2] = "UpdateProject"
       /\ ResetScript(role)[3] = "Audit"
BY DEF ResetScript, CreateRoleWithGrants

LEMMA DeleteStatements ==
  ASSUME NEW role
  PROVE
  /\ role = NoRole =>
       /\ Len(DeleteScript(role)) = 3
       /\ DeleteScript(role)[1] = "DropSchema"
       /\ DeleteScript(role)[2] = "DeleteProject"
       /\ DeleteScript(role)[3] = "Audit"
  /\ role # NoRole =>
       /\ Len(DeleteScript(role)) = 4
       /\ DeleteScript(role)[1] = "DropSchema"
       /\ DeleteScript(role)[2] = "DropRole"
       /\ DeleteScript(role)[3] = "DeleteProject"
       /\ DeleteScript(role)[4] = "Audit"
BY DEF DeleteScript

LEMMA QueryStatements ==
  ASSUME NEW sql
  PROVE  /\ Len(QueryScript(sql)) = 2
         /\ QueryScript(sql)[1] = "SetLocal" /\ QueryScript(sql)[2] = sql
BY DEF QueryScript

(* The script of a request, by operation.                                  *)
LEMMA Scripts ==
  ASSUME NEW r
  PROVE  /\ op[r] = "create" => Script(r) = CreateScript
         /\ op[r] = "delete" => Script(r) = DeleteScript(snap[r].role)
         /\ op[r] = "reset" => Script(r) = ResetScript(snap[r].role)
         /\ op[r] \in Queries => Script(r) = QueryScript(op[r])
         /\ op[r] = "info" => Script(r) = << >>
BY DEF Script, Queries

-----------------------------------------------------------------------------
(* Types *)

LEMMA VisibleTyped ==
  ASSUME TypeOK, NEW r \in Requests, NEW c \in Cells
  PROVE  Visible(r, c) \in CellValue(c)
BY DEF TypeOK, Typed, Visible

LEMMA RowTyped ==
  ASSUME TypeOK, NEW p \in Ids
  PROVE  db[Row(p)] \in ProjectRow \union {Absent}
<1>1. Row(p) \in Cells /\ CellValue(Row(p)) = ProjectRow \union {Absent}
  BY CellValues
<1>2. db[Row(p)] \in CellValue(Row(p)) BY <1>1 DEF TypeOK, Typed
<1> QED BY <1>1, <1>2

LEMMA RoleNameTyped ==
  ASSUME TypeOK, NEW r \in Requests, snap[r].schema \in Schemas
  PROVE  RoleName(r) \in Schemas
BY DEF TypeOK, RoleName, Snapshot

(* What each statement writes.                                             *)
LEMMA WritesByStatement ==
  ASSUME NEW r, NEW stmt
  PROVE
  LET s == snap[r].schema
      role == RoleName(r)
      p == proj[r]
      row == Visible(r, Row(p))
      acl == Visible(r, DatabaseAcl)
  IN
  /\ stmt \in {"CreateRole", "AlterRole"} => Writes(r, stmt) = Only(Role(role), r)
  /\ stmt = "GrantConnect" =>
       Writes(r, stmt) = Only(DatabaseAcl, acl \union {role})
  /\ stmt = "RevokeConnect" =>
       Writes(r, stmt) = Only(DatabaseAcl, acl \ {role})
  /\ stmt \in {"GrantSchema", "CreateSchema"} =>
       Writes(r, stmt) = Only(Schema(s), "present")
  /\ stmt = "DropSchema" => Writes(r, stmt) = Only(Schema(s), "missing")
  /\ stmt = "DropRole" =>
       \/ Writes(r, stmt) = Empty /\ Visible(r, Role(role)) = Absent
       \/ Writes(r, stmt) = Only(Role(role), Absent)
  /\ stmt = "InsertProject" =>
       Writes(r, stmt) = Only(Row(p), [schema |-> s, role |-> role, cipher |-> r])
  /\ stmt = "UpdateProject" =>
       \/ Writes(r, stmt) = Empty /\ row = Absent
       \/ /\ row # Absent
          /\ Writes(r, stmt) =
               Only(Row(p), [schema |-> row.schema, role |-> role, cipher |-> r])
  /\ stmt = "DeleteProject" =>
       \/ Writes(r, stmt) = Empty /\ row = Absent
       \/ Writes(r, stmt) = Only(Row(p), Absent) /\ row # Absent
  /\ stmt = "Audit" => Writes(r, stmt) = Only(AuditRow(r), "present")
  /\ stmt \notin {"CreateRole", "AlterRole", "GrantConnect", "RevokeConnect",
                  "GrantSchema", "CreateSchema", "DropSchema", "DropRole",
                  "InsertProject", "UpdateProject", "DeleteProject", "Audit"} =>
       Writes(r, stmt) = Empty
<1> USE DEF Writes
<1>1. CASE stmt = "CreateRole" BY <1>1
<1>2. CASE stmt = "AlterRole" BY <1>2
<1>3. CASE stmt = "GrantConnect" BY <1>3
<1>4. CASE stmt = "RevokeConnect" BY <1>4
<1>5. CASE stmt = "GrantSchema" BY <1>5
<1>6. CASE stmt = "CreateSchema" BY <1>6
<1>7. CASE stmt = "DropSchema" BY <1>7
<1>8. CASE stmt = "DropRole" BY <1>8
<1>9. CASE stmt = "InsertProject" BY <1>9
<1>10. CASE stmt = "UpdateProject" BY <1>10
<1>11. CASE stmt = "DeleteProject" BY <1>11
<1>12. CASE stmt = "Audit" BY <1>12
<1>13. CASE stmt \notin {"CreateRole", "AlterRole", "GrantConnect", "RevokeConnect",
                  "GrantSchema", "CreateSchema", "DropSchema", "DropRole",
                  "InsertProject", "UpdateProject", "DeleteProject", "Audit"}
  BY <1>13
<1> QED BY <1>1, <1>2, <1>3, <1>4, <1>5, <1>6, <1>7, <1>8, <1>9, <1>10,
           <1>11, <1>12, <1>13 DEF Writes

(* Functions from some of the cells to values of their kind.                *)
LEMMA TypedFacts ==
  /\ Typed(Empty)
  /\ \A c \in Cells : \A v \in CellValue(c) : Typed(Only(c, v))
  /\ \A f, g : Typed(f) /\ Typed(g) => Typed(Add(f, g))
  /\ \A f, g : Typed(f) /\ Typed(g) => Typed(Override(f, g))
BY DEF Typed, Only, Empty, Add, Override

(* Every statement writes cells of the database with values of their kind. *)
LEMMA WritesTyped ==
  ASSUME TypeOK, NEW r \in Requests, NEW stmt,
         snap[r].schema \in Schemas, proj[r] \in Ids
  PROVE  Typed(Writes(r, stmt))
<1> DEFINE s == snap[r].schema
           role == RoleName(r)
           row == Visible(r, Row(proj[r]))
<1>1. role \in Schemas BY RoleNameTyped
<1>2. /\ Row(proj[r]) \in Cells
      /\ CellValue(Row(proj[r])) = ProjectRow \union {Absent}
      /\ Role(role) \in Cells
      /\ CellValue(Role(role)) = Passwords \union {Absent}
      /\ Schema(s) \in Cells /\ CellValue(Schema(s)) = {"present", "missing"}
      /\ DatabaseAcl \in Cells /\ CellValue(DatabaseAcl) = SUBSET Schemas
      /\ AuditRow(r) \in Cells /\ CellValue(AuditRow(r)) = {"present", "missing"}
  BY <1>1, CellValues
<1>3. r \in Passwords BY DEF Passwords
<1>4. row \in ProjectRow \union {Absent} BY <1>2, VisibleTyped
<1>5. Visible(r, DatabaseAcl) \in SUBSET Schemas BY <1>2, VisibleTyped
<1>6. [schema |-> s, role |-> role, cipher |-> r] \in ProjectRow
  BY <1>1, <1>3 DEF ProjectRow
<1>7. row # Absent => [schema |-> row.schema, role |-> role, cipher |-> r] \in ProjectRow
  BY <1>1, <1>3, <1>4 DEF ProjectRow
<1> HIDE DEF s, role, row
<1>8. CASE stmt \in {"CreateRole", "AlterRole"}
  <2>1. Writes(r, stmt) = Only(Role(role), r)
    BY <1>8, WritesByStatement DEF role
  <2> QED BY <2>1, <1>2, <1>3, TypedFacts
<1>9. CASE stmt \in {"GrantConnect", "RevokeConnect"}
  <2>1. PICK v : v \in SUBSET Schemas /\ Writes(r, stmt) = Only(DatabaseAcl, v)
    <3>1. CASE stmt = "GrantConnect"
      <4>1. Writes(r, stmt) = Only(DatabaseAcl, Visible(r, DatabaseAcl) \union {role})
        BY <3>1, WritesByStatement DEF role
      <4> QED BY <4>1, <1>1, <1>5
    <3>2. CASE stmt = "RevokeConnect"
      <4>1. Writes(r, stmt) = Only(DatabaseAcl, Visible(r, DatabaseAcl) \ {role})
        BY <3>2, WritesByStatement DEF role
      <4> QED BY <4>1, <1>1, <1>5
    <3> QED BY <1>9, <3>1, <3>2
  <2> QED BY <2>1, <1>2, TypedFacts
<1>10. CASE stmt \in {"GrantSchema", "CreateSchema", "DropSchema"}
  <2>1. \/ Writes(r, stmt) = Only(Schema(s), "present")
        \/ Writes(r, stmt) = Only(Schema(s), "missing")
    BY <1>10, WritesByStatement DEF s
  <2> QED BY <2>1, <1>2, TypedFacts
<1>11. CASE stmt = "DropRole"
  <2>1. \/ Writes(r, stmt) = Empty
        \/ Writes(r, stmt) = Only(Role(role), Absent)
    BY <1>11, WritesByStatement DEF role
  <2> QED BY <2>1, <1>2, TypedFacts
<1>12. CASE stmt \in {"InsertProject", "UpdateProject", "DeleteProject"}
  <2>1. CASE stmt = "InsertProject"
    <3>1. Writes(r, stmt) =
            Only(Row(proj[r]), [schema |-> s, role |-> role, cipher |-> r])
      BY <2>1, WritesByStatement DEF s, role
    <3> QED BY <3>1, <1>2, <1>6, TypedFacts
  <2>2. CASE stmt = "UpdateProject"
    <3>1. \/ Writes(r, stmt) = Empty
          \/ /\ row # Absent
             /\ Writes(r, stmt) =
                  Only(Row(proj[r]), [schema |-> row.schema, role |-> role, cipher |-> r])
      BY <2>2, WritesByStatement DEF row, role
    <3> QED BY <3>1, <1>2, <1>7, TypedFacts
  <2>3. CASE stmt = "DeleteProject"
    <3>1. \/ Writes(r, stmt) = Empty
          \/ Writes(r, stmt) = Only(Row(proj[r]), Absent)
      BY <2>3, WritesByStatement
    <3> QED BY <3>1, <1>2, TypedFacts
  <2> QED BY <1>12, <2>1, <2>2, <2>3
<1>13. CASE stmt = "Audit"
  <2>1. Writes(r, stmt) = Only(AuditRow(r), "present")
    BY <1>13, WritesByStatement
  <2> QED BY <2>1, <1>2, TypedFacts
<1>14. CASE stmt \notin {"CreateRole", "AlterRole", "GrantConnect",
                        "RevokeConnect", "GrantSchema", "CreateSchema",
                        "DropSchema", "DropRole", "InsertProject",
                        "UpdateProject", "DeleteProject", "Audit"}
  <2>1. Writes(r, stmt) = Empty BY <1>14, WritesByStatement
  <2> QED BY <2>1, TypedFacts
<1> QED BY <1>8, <1>9, <1>10, <1>11, <1>12, <1>13, <1>14

(* The value each cell starts with.                                        *)
LEMMA InitialValues ==
  ASSUME NEW kind
  PROVE
  /\ \A p \in Projects : InitialValue(kind, Row(p)) = InitialRow(kind, p)
  /\ \A p \in Requests : InitialValue(kind, Row(p)) = Absent
  /\ \A s \in Schemas :
       /\ InitialValue(kind, Schema(s)) \in {"present", "missing"}
       /\ InitialValue(kind, Role(s)) =
            IF Named(kind, {"provisioned"}, s) THEN Legacy ELSE Absent
  /\ InitialValue(kind, DatabaseAcl) =
       {s \in Schemas : Named(kind, {"provisioned"}, s)}
  /\ \A r \in Requests : InitialValue(kind, AuditRow(r)) = "missing"
<1>1. \A x : Row(x)[2] = x /\ Schema(x)[2] = x /\ Role(x)[2] = x
  BY DEF Row, Schema, Role
<1>2. ASSUME NEW p \in Projects
      PROVE  InitialValue(kind, Row(p)) = InitialRow(kind, p)
  <2>1. Row(p) \in {Row(q) : q \in Projects} OBVIOUS
  <2>2. Row(p) \notin {Schema(s) : s \in Schemas} BY CellsDistinct
  <2>3. Row(p) \notin {Role(s) : s \in Schemas} BY CellsDistinct
  <2>4. Row(p) \notin {AuditRow(r) : r \in Requests} BY CellsDistinct
  <2>5. Row(p) # DatabaseAcl BY CellsDistinct
  <2>6. InitialValue(kind, Row(p)) = InitialRow(kind, Row(p)[2])
    BY ONLY <2>1, <2>2, <2>3, <2>4, <2>5 DEF InitialValue
  <2> QED BY <2>6, <1>1
<1>3. ASSUME NEW p \in Requests PROVE InitialValue(kind, Row(p)) = Absent
  <2>1. Row(p) \notin {Row(q) : q \in Projects}
    BY CellsDistinct, RequestsAssumption
  <2>2. Row(p) \notin {Schema(s) : s \in Schemas} BY CellsDistinct
  <2>3. Row(p) \notin {Role(s) : s \in Schemas} BY CellsDistinct
  <2>4. Row(p) \notin {AuditRow(r) : r \in Requests} BY CellsDistinct
  <2>5. Row(p) # DatabaseAcl BY CellsDistinct
  <2> QED BY ONLY <2>1, <2>2, <2>3, <2>4, <2>5 DEF InitialValue
<1>4. ASSUME NEW s \in Schemas
      PROVE  InitialValue(kind, Schema(s)) \in {"present", "missing"}
  <2>1. Schema(s) \notin {Row(q) : q \in Projects} BY CellsDistinct
  <2>2. Schema(s) \in {Schema(x) : x \in Schemas} OBVIOUS
  <2>3. Schema(s) \notin {Role(x) : x \in Schemas} BY CellsDistinct
  <2>4. Schema(s) \notin {AuditRow(r) : r \in Requests} BY CellsDistinct
  <2>5. Schema(s) # DatabaseAcl BY CellsDistinct
  <2> QED BY ONLY <2>1, <2>2, <2>3, <2>4, <2>5 DEF InitialValue
<1>5. ASSUME NEW s \in Schemas
      PROVE  InitialValue(kind, Role(s)) =
               IF Named(kind, {"provisioned"}, s) THEN Legacy ELSE Absent
  <2>1. Role(s) \notin {Row(q) : q \in Projects} BY CellsDistinct
  <2>2. Role(s) \notin {Schema(x) : x \in Schemas} BY CellsDistinct
  <2>3. Role(s) \in {Role(x) : x \in Schemas} OBVIOUS
  <2>4. Role(s) \notin {AuditRow(r) : r \in Requests} BY CellsDistinct
  <2>5. Role(s) # DatabaseAcl BY CellsDistinct
  <2>6. InitialValue(kind, Role(s)) =
          IF Named(kind, {"provisioned"}, Role(s)[2]) THEN Legacy ELSE Absent
    BY ONLY <2>1, <2>2, <2>3, <2>4, <2>5 DEF InitialValue
  <2> QED BY <2>6, <1>1
<1>6. InitialValue(kind, DatabaseAcl) =
        {s \in Schemas : Named(kind, {"provisioned"}, s)}
  BY CellsDistinct DEF InitialValue
<1>7. ASSUME NEW r \in Requests PROVE InitialValue(kind, AuditRow(r)) = "missing"
  BY CellsDistinct DEF InitialValue
<1> QED BY <1>2, <1>3, <1>4, <1>5, <1>6, <1>7

LEMMA InitTyped == Init => TypeOK /\ Located
<1> SUFFICES ASSUME Init PROVE TypeOK /\ Located
  OBVIOUS
<1>1. DOMAIN db = Cells /\ Typed(db)
  <2>1. PICK kind \in [Projects -> Kinds] :
             db = [c \in Cells |-> InitialValue(kind, c)]
    BY DEF Init
  <2>2. ASSUME NEW p \in Ids PROVE db[Row(p)] \in ProjectRow \union {Absent}
    <3>1. db[Row(p)] = InitialValue(kind, Row(p)) BY <2>1 DEF Cells
    <3>2. \A q \in Projects : LegacyRow(q) \in ProjectRow /\ ProvisionedRow(q) \in ProjectRow
      BY HomeAssumption DEF LegacyRow, ProvisionedRow, ProjectRow, Passwords
    <3> QED BY <3>1, <3>2, InitialValues DEF InitialRow, Ids
  <2>3. ASSUME NEW s \in Schemas PROVE db[Schema(s)] \in {"present", "missing"}
    BY <2>1, InitialValues DEF Cells
  <2>4. ASSUME NEW s \in Schemas PROVE db[Role(s)] \in Passwords \union {Absent}
    BY <2>1, InitialValues DEF Cells, Passwords
  <2>5. db[DatabaseAcl] \in SUBSET Schemas
    <3>1. db[DatabaseAcl] = {s \in Schemas : Named(kind, {"provisioned"}, s)}
      BY <2>1, InitialValues DEF Cells
    <3> QED BY <3>1
  <2>6. ASSUME NEW r \in Requests PROVE db[AuditRow(r)] \in {"present", "missing"}
    BY <2>1, InitialValues DEF Cells
  <2>7. DOMAIN db = Cells BY <2>1
  <2> QED BY <2>2, <2>3, <2>4, <2>5, <2>6, <2>7, CellValues DEF Cells, Typed
<1>2. Typed(Empty) BY TypedFacts
<1> QED BY <1>1, <1>2 DEF Init, TypeOK, Located, NoSnapshot, Snapshot

-----------------------------------------------------------------------------
(* What a step can change *)

(* The database changes by a COMMIT or by the audit of a reveal.           *)
Committing(r) ==
  /\ AtCommit(r) /\ Apply(r)
  /\ UNCHANGED <<op, proj, snap, at>>
  /\ pc' \in {[pc EXCEPT ![r] = "history"], [pc EXCEPT ![r] = "done"]}
  /\ op[r] \notin Queries => pc'[r] = "done"

LEMMA CommitActions ==
  ASSUME TypeOK, NEW r \in Requests, Commit(r) \/ CommitUnacknowledged(r)
  PROVE  Committing(r)
BY DEF TypeOK, Commit, CommitUnacknowledged, Committing, AfterCommit, Respond

LEMMA DbChanges ==
  ASSUME TypeOK, [Next]_vars
  PROVE  \/ UNCHANGED db
         \/ \E r \in Requests : Committing(r) \/ AuditReveal(r)
<1>1. CASE UNCHANGED vars BY <1>1 DEF vars
<1>2. CASE Next
  <2>1. ASSUME NEW r \in Requests, Arrive(r) PROVE UNCHANGED db
    BY <2>1 DEF Arrive, ReceiveCreate, Receive
  <2>2. ASSUME NEW r \in Requests, Probe(r) \/ ReadProject(r) PROVE UNCHANGED db
    BY <2>2 DEF Probe, ReadProject
  <2>3. ASSUME NEW r \in Requests, Execute(r) \/ Rejected(r) \/ Aborted(r)
        PROVE  UNCHANGED db
    BY <2>3 DEF Execute, Rejected, Aborted, StatementFails
  <2>4. ASSUME NEW r \in Requests,
               RecordHistory(r) \/ CommitRefused(r) \/ PoolFails(r) \/ Cancel(r)
        PROVE  UNCHANGED db
    BY <2>4 DEF RecordHistory, CommitRefused, PoolFails, Cancel
  <2> QED BY <1>2, <2>1, <2>2, <2>3, <2>4, CommitActions
          DEF Next, Proceed, Disturb, Rest, vars
<1> QED BY <1>1, <1>2

(* An open transaction grows by one statement or ends; one that stays open *)
(* keeps its place, and one that opens is empty.                           *)
LEMMA TxChanges ==
  ASSUME TypeOK, [Next]_vars
  PROVE  \/ UNCHANGED tx
         \/ \E r \in Requests :
              \/ Execute(r)
              \/ tx' = [tx EXCEPT ![r] = Empty]
<1>1. CASE UNCHANGED vars BY <1>1 DEF vars
<1>2. CASE Next
  <2>1. ASSUME NEW r \in Requests, Arrive(r) PROVE UNCHANGED tx
    BY <2>1 DEF Arrive, ReceiveCreate, Receive
  <2>2. ASSUME NEW r \in Requests, Probe(r) \/ ReadProject(r) PROVE UNCHANGED tx
    BY <2>2 DEF Probe, ReadProject
  <2>3. ASSUME NEW r \in Requests, Rejected(r) \/ Aborted(r)
        PROVE  tx' = [tx EXCEPT ![r] = Empty]
    BY <2>3 DEF Rejected, Aborted, StatementFails
  <2>4. ASSUME NEW r \in Requests, RecordHistory(r) \/ PoolFails(r) \/ AuditReveal(r)
        PROVE  UNCHANGED tx
    BY <2>4 DEF RecordHistory, PoolFails, AuditReveal
  <2>5. ASSUME NEW r \in Requests, CommitRefused(r) \/ Cancel(r)
        PROVE  tx' = [tx EXCEPT ![r] = Empty]
    BY <2>5 DEF CommitRefused, Cancel
  <2>6. ASSUME NEW r \in Requests, Commit(r) \/ CommitUnacknowledged(r)
        PROVE  tx' = [tx EXCEPT ![r] = Empty]
    BY <2>6 DEF Commit, CommitUnacknowledged, Apply
  <2> QED BY <1>2, <2>1, <2>2, <2>3, <2>4, <2>5, <2>6
          DEF Next, Proceed, Disturb, Rest, vars
<1> QED BY <1>1, <1>2

(* A step moves one request; the others keep everything that is theirs.    *)
Same(q) ==
  /\ pc'[q] = pc[q] /\ op'[q] = op[q] /\ proj'[q] = proj[q]
  /\ snap'[q] = snap[q] /\ at'[q] = at[q] /\ tx'[q] = tx[q]
  /\ answer'[q] = answer[q] /\ fate'[q] = fate[q]

Acts(r) == Arrive(r) \/ Proceed(r) \/ Disturb(r)

LEMMA OneMoves ==
  ASSUME TypeOK, NEW r \in Requests, Acts(r)
  PROVE  \A q \in Requests \ {r} : Same(q)
<1> SUFFICES ASSUME NEW q \in Requests \ {r} PROVE Same(q)
  OBVIOUS
<1> USE DEF TypeOK, Same
<1>1. CASE Arrive(r)
  BY <1>1 DEF Arrive, ReceiveCreate, Receive
<1>2. CASE Probe(r) \/ ReadProject(r)
  BY <1>2 DEF Probe, ReadProject, Respond
<1>3. CASE Execute(r)
  BY <1>3 DEF Execute
<1>4. CASE Rejected(r) \/ Aborted(r)
  <2>1. StatementFails(r) BY <1>4 DEF Rejected, Aborted
  <2> QED BY <2>1 DEF StatementFails, Respond
<1>5. CASE RecordHistory(r) \/ PoolFails(r) \/ AuditReveal(r)
  BY <1>5 DEF RecordHistory, PoolFails, AuditReveal, Respond
<1>6. CASE CommitRefused(r) \/ Cancel(r)
  <2>1. CASE CommitRefused(r)
    BY <2>1 DEF CommitRefused, AfterCommit, Respond
  <2>2. CASE Cancel(r)
    BY <2>2 DEF Cancel, Respond
  <2> QED BY <1>6, <2>1, <2>2
<1>7. CASE Commit(r) \/ CommitUnacknowledged(r)
  <2>1. Apply(r) BY <1>7 DEF Commit, CommitUnacknowledged
  <2>2. tx'[q] = tx[q] /\ fate'[q] = fate[q] BY <2>1 DEF Apply
  <2>3. CASE Commit(r) BY <2>2, <2>3 DEF Commit, AfterCommit, Respond
  <2>4. CASE CommitUnacknowledged(r)
    BY <2>2, <2>4 DEF CommitUnacknowledged, AfterCommit, Respond
  <2> QED BY <1>7, <2>3, <2>4
<1> QED BY <1>1, <1>2, <1>3, <1>4, <1>5, <1>6, <1>7 DEF Acts, Proceed, Disturb

(* How the request that acts moves on.                                     *)
Arrived(r) ==
  /\ pc[r] = "idle" /\ tx'[r] = tx[r] /\ at'[r] = at[r] /\ fate'[r] = fate[r]
  /\ \/ /\ pc'[r] = "probe" /\ op'[r] = "create" /\ proj'[r] = r
        /\ snap'[r].schema \in Schemas
     \/ /\ pc'[r] = "read" /\ op'[r] \in (Handlers \union Queries) \ {"create"}
        /\ proj'[r] \in Projects

Looked(r) ==
  /\ op'[r] = op[r] /\ proj'[r] = proj[r] /\ at'[r] = at[r]
  /\ tx'[r] = tx[r] /\ fate'[r] = fate[r]
  /\ \/ /\ pc[r] = "probe" /\ pc'[r] \in {"probe", "sql", "done"}
        /\ snap'[r].schema \in Schemas
     \/ pc[r] = "read" /\ pc'[r] = "done"
     \/ /\ pc[r] = "read" /\ db[Row(proj[r])] # Absent
        /\ snap'[r] = db[Row(proj[r])]
        /\ pc'[r] = IF op[r] = "info" THEN "audit" ELSE "sql"

Ended(r) ==
  /\ pc[r] \notin {"idle", "done"}
  /\ op'[r] = op[r] /\ proj'[r] = proj[r] /\ snap'[r] = snap[r]
  /\ at'[r] = at[r] /\ tx'[r] = Empty
  /\ pc'[r] \in {"history", "done"}
  /\ pc'[r] = "history" => op[r] \in Queries /\ pc[r] = "sql"
  /\ fate'[r] = "committed" => fate[r] = "committed" \/ Committing(r)

LEMMA HowItMoves ==
  ASSUME TypeOK, Located, NEW r \in Requests, Acts(r)
  PROVE  Arrived(r) \/ Looked(r) \/ Execute(r) \/ Ended(r)
<1> USE DEF TypeOK
<1>1. ASSUME NEW s \in Schemas, ReceiveCreate(r, s) PROVE Arrived(r)
  BY <1>1 DEF ReceiveCreate, Arrived, Snapshot
<1>2. ASSUME NEW o \in Operations \ {"create"}, NEW p \in Projects, Receive(r, o, p)
      PROVE  Arrived(r)
  BY <1>2, RequestsAssumption DEF Receive, Arrived
<1>3. CASE Probe(r)
  <2>1. snap[r].schema \in Schemas BY <1>3 DEF Probe, Located
  <2>2. snap'[r].schema \in Schemas
    <3>1. CASE Taken(snap[r].schema)
      <4>1. snap' = [snap EXCEPT ![r].schema = NextCandidate[snap[r].schema]]
        BY <1>3, <3>1 DEF Probe
      <4> QED BY <2>1, <4>1, NamesAssumption DEF Snapshot
    <3>2. CASE ~Taken(snap[r].schema) BY <1>3, <2>1, <3>2 DEF Probe
    <3> QED BY <3>1, <3>2
  <2>3. pc'[r] \in {"probe", "sql", "done"} BY <1>3 DEF Probe, Respond
  <2> QED BY <1>3, <2>2, <2>3 DEF Probe, Looked
<1>4. CASE ReadProject(r)
  BY <1>4 DEF ReadProject, Respond, Looked, Located, Snapshot
<1>5. CASE Rejected(r) \/ Aborted(r)
  <2>1. StatementFails(r) BY <1>5 DEF Rejected, Aborted
  <2> QED BY <2>1 DEF StatementFails, InStatement, Respond, Ended
<1>6. CASE RecordHistory(r) \/ PoolFails(r) \/ AuditReveal(r)
  <2>1. CASE RecordHistory(r) BY <2>1 DEF RecordHistory, Respond, Ended
  <2>2. CASE PoolFails(r) BY <2>2 DEF PoolFails, Respond, Ended
  <2>3. CASE AuditReveal(r) BY <2>3 DEF AuditReveal, Respond, Ended
  <2> QED BY <1>6, <2>1, <2>2, <2>3
<1>7. CASE CommitRefused(r) \/ Cancel(r)
  <2>1. CASE CommitRefused(r)
    BY <2>1 DEF CommitRefused, AtCommit, AfterCommit, Respond, Ended
  <2>2. CASE Cancel(r)
    BY <2>2 DEF Cancel, Active, Respond, Ended
  <2> QED BY <1>7, <2>1, <2>2
<1>8. CASE Commit(r) \/ CommitUnacknowledged(r)
  <2>1. Committing(r) BY <1>8, CommitActions
  <2> QED BY <2>1 DEF Committing, Apply, AtCommit, Ended
<1> QED BY <1>1, <1>2, <1>3, <1>4, <1>5, <1>6, <1>7, <1>8
        DEF Acts, Arrive, Proceed, Disturb

(* Types are preserved.                                                    *)
Control ==
  /\ history \in [Requests -> {"none", "success", "failure"}]
  /\ pc \in [Requests -> {"idle", "probe", "read", "sql", "audit",
                          "history", "done"}]
  /\ op \in [Requests -> Operations \union {"none"}]
  /\ proj \in [Requests -> Ids \union {Absent}]
  /\ snap \in [Requests -> Snapshot]
  /\ at \in [Requests -> Nat]
  /\ answer \in [Requests -> {"none", "ok", "rejected", "error", "gone"}]
  /\ fate \in [Requests -> {"open", "committed", "rolled back"}]

LEMMA ControlTyped ==
  ASSUME TypeOK, Located, NEW r \in Requests, Acts(r)
  PROVE  Control'
<1> USE DEF Control
<1>0. Control BY DEF TypeOK
<1>1. ASSUME NEW s \in Schemas, ReceiveCreate(r, s) PROVE Control'
  BY <1>0, <1>1 DEF ReceiveCreate, Snapshot, Ids
<1>2. ASSUME NEW o \in Operations \ {"create"}, NEW p \in Projects, Receive(r, o, p)
      PROVE  Control'
  BY <1>0, <1>2 DEF Receive, Ids
<1>3. CASE Probe(r)
  <2>1. snap[r].schema \in Schemas BY <1>3 DEF Probe, Located
  <2>2. snap' \in [Requests -> Snapshot]
    <3>1. CASE Taken(snap[r].schema)
      <4>1. snap' = [snap EXCEPT ![r].schema = NextCandidate[snap[r].schema]]
        BY <1>3, <3>1 DEF Probe
      <4>2. [snap[r] EXCEPT !.schema = NextCandidate[snap[r].schema]] \in Snapshot
        <5>1. snap[r] \in Snapshot BY <1>0
        <5>2. NextCandidate[snap[r].schema] \in Schemas BY <2>1, NamesAssumption
        <5> QED BY ONLY <5>1, <5>2 DEF Snapshot
      <4> QED BY <1>0, <4>1, <4>2
    <3>2. CASE ~Taken(snap[r].schema) BY <1>0, <1>3, <3>2 DEF Probe
    <3> QED BY <3>1, <3>2
  <2>3. \/ UNCHANGED <<pc, answer>>
        \/ Respond(r, "rejected")
        \/ pc' = [pc EXCEPT ![r] = "sql"] /\ UNCHANGED answer
    BY <1>3 DEF Probe
  <2>4. UNCHANGED <<history, op, proj, at, fate>> BY <1>3 DEF Probe
  <2> QED BY <1>0, <2>2, <2>3, <2>4 DEF Respond
<1>4. CASE ReadProject(r)
  <2>1. db[Row(proj[r])] \in ProjectRow \union {Absent}
    <3>1. proj[r] \in Ids BY <1>4 DEF Located, ReadProject
    <3> QED BY <3>1, RowTyped
  <2>2. ProjectRow \subseteq Snapshot BY DEF ProjectRow, Snapshot
  <2>3. CASE snap' = snap
    BY <1>0, <1>4, <2>3 DEF ReadProject, Respond
  <2>4. CASE snap' # snap
    <3>1. /\ snap' = [snap EXCEPT ![r] = db[Row(proj[r])]]
          /\ db[Row(proj[r])] # Absent
          /\ pc' = [pc EXCEPT ![r] = IF op[r] = "info" THEN "audit" ELSE "sql"]
          /\ UNCHANGED <<history, answer, op, proj, at, fate>>
      BY <1>4, <2>4 DEF ReadProject, Respond
    <3>2. snap' \in [Requests -> Snapshot] BY <1>0, <2>1, <2>2, <3>1
    <3> QED BY <1>0, <3>1, <3>2
  <2> QED BY <2>3, <2>4
<1>5. CASE Execute(r)
  <2>1. at' = [at EXCEPT ![r] = at[r] + 1] BY <1>5 DEF Execute
  <2>2. at[r] + 1 \in Nat
    <3>1. at[r] \in Nat BY <1>0
    <3> QED BY ONLY <3>1
  <2>3. UNCHANGED <<history, pc, op, proj, snap, answer, fate>> BY <1>5 DEF Execute
  <2>4. at' \in [Requests -> Nat]
    <3>1. at \in [Requests -> Nat] BY <1>0
    <3> QED BY ONLY <3>1, <2>1, <2>2
  <2> QED BY ONLY <1>0, <2>3, <2>4 DEF Control
<1>6. CASE Rejected(r) \/ Aborted(r)
  <2>1. StatementFails(r) BY <1>6 DEF Rejected, Aborted
  <2> QED BY <1>0, <2>1 DEF StatementFails, Respond
<1>7. CASE RecordHistory(r) BY <1>0, <1>7 DEF RecordHistory, Respond
<1>8. CASE PoolFails(r) BY <1>0, <1>8 DEF PoolFails, Respond
<1>9. CASE AuditReveal(r)
  <2>1. PICK a \in {"ok", "error", "gone"} : Respond(r, a)
    BY <1>9 DEF AuditReveal
  <2> QED BY <1>0, <1>9, <2>1 DEF AuditReveal, Respond
<1>10. CASE CommitRefused(r)
  BY <1>0, <1>10 DEF CommitRefused, AfterCommit, Respond
<1>11. CASE Cancel(r) BY <1>0, <1>11 DEF Cancel, Respond
<1>12. CASE Commit(r)
  BY <1>0, <1>12 DEF Commit, Apply, AfterCommit, Respond
<1>13. CASE CommitUnacknowledged(r)
  BY <1>0, <1>13 DEF CommitUnacknowledged, Apply, AfterCommit, Respond
<1> QED BY <1>1, <1>2, <1>3, <1>4, <1>5, <1>6, <1>7, <1>8, <1>9, <1>10,
           <1>11, <1>12, <1>13 DEF Acts, Arrive, Proceed, Disturb

LEMMA StepTyped ==
  ASSUME TypeOK, Located, [Next]_vars
  PROVE  TypeOK' /\ Located'
<1>1. CASE UNCHANGED vars
  BY <1>1 DEF vars, TypeOK, Typed, Located
<1>2. ASSUME NEW r \in Requests, Acts(r) PROVE TypeOK' /\ Located'
  <2>1. Control' BY <1>2, ControlTyped
  <2>2. \A q \in Requests \ {r} : Same(q) BY <1>2, OneMoves
  <2>3. Arrived(r) \/ Looked(r) \/ Execute(r) \/ Ended(r)
    BY <1>2, HowItMoves
  <2>4. [Next]_vars OBVIOUS
  <2>5. DOMAIN db' = Cells /\ Typed(db')
    <3>1. ASSUME NEW q \in Requests, Committing(q)
          PROVE  DOMAIN db' = Cells /\ Typed(db')
      BY <3>1, OverrideFacts, TypedFacts DEF Committing, Apply, TypeOK
    <3>2. ASSUME NEW q \in Requests, AuditReveal(q)
          PROVE  DOMAIN db' = Cells /\ Typed(db')
      <4>1. db' = [db EXCEPT ![AuditRow(q)] = "present"]
        BY <3>2 DEF AuditReveal
      <4>2. "present" \in CellValue(AuditRow(q)) BY CellValues
      <4> QED BY <4>1, <4>2 DEF TypeOK, Typed
    <3> QED BY <2>4, <3>1, <3>2, DbChanges DEF TypeOK
  <2>6. DOMAIN tx' = Requests /\ Typed(tx'[r])
    <3>1. CASE UNCHANGED tx BY <3>1 DEF TypeOK
    <3>2. ASSUME NEW q \in Requests, tx' = [tx EXCEPT ![q] = Empty]
          PROVE  DOMAIN tx' = Requests /\ Typed(tx'[r])
      BY <3>2, TypedFacts DEF TypeOK
    <3>3. ASSUME NEW q \in Requests, Execute(q)
          PROVE  DOMAIN tx' = Requests /\ Typed(tx'[r])
      <4>1. Typed(Writes(q, Statement(q)))
        BY <3>3, WritesTyped DEF Execute, InStatement, Located
      <4>2. Typed(Add(tx[q], Writes(q, Statement(q))))
        BY <4>1, TypedFacts DEF TypeOK
      <4> QED BY <3>3, <4>2 DEF Execute, TypeOK
    <3> QED BY <2>4, <3>1, <3>2, <3>3, TxChanges
  <2>7. \A q \in Requests : Typed(tx'[q])
    BY <2>2, <2>6 DEF Same, TypeOK
  <2>8. pc'[r] # "sql" => tx'[r] = Empty
    BY <2>3 DEF Arrived, Looked, Execute, Ended, InStatement, TypeOK
  <2>9. TypeOK'
    BY <2>1, <2>2, <2>5, <2>6, <2>7, <2>8 DEF TypeOK, Control, Same
  <2>10. ASSUME NEW q \in Requests
         PROVE  /\ pc'[q] # "idle" => /\ op'[q] \in Handlers \union Queries
                                      /\ proj'[q] \in Ids
                /\ pc'[q] \in {"probe", "sql"} => snap'[q].schema \in Schemas
                /\ pc'[q] \in {"idle", "probe", "read"} => at'[q] = 1
                /\ pc'[q] \in {"idle", "probe", "read", "sql"} => fate'[q] = "open"
                /\ pc'[q] = "sql" => op'[q] # "info"
                /\ pc'[q] = "read" => op'[q] # "create"
                /\ pc'[q] = "probe" => op'[q] = "create"
    <3>1. CASE q # r BY <2>2, <3>1 DEF Same, Located
    <3>2. CASE q = r
      <4>1. CASE Arrived(r) BY <3>2, <4>1 DEF Arrived, Located, Handlers, Ids
      <4>2. CASE Looked(r)
        <5>1. proj[r] \in Ids =>
                db[Row(proj[r])] \in ProjectRow \union {Absent}
          BY RowTyped
        <5> QED BY <3>2, <4>2, <5>1 DEF Looked, Located, ProjectRow
      <4>3. CASE Execute(r)
        BY <3>2, <4>3 DEF Execute, InStatement, Located, TypeOK
      <4>4. CASE Ended(r)
        <5>1. pc[r] # "idle" BY <4>4 DEF Ended
        <5> QED BY <3>2, <4>4, <5>1 DEF Ended, Located
      <4> QED BY <2>3, <4>1, <4>2, <4>3, <4>4
    <3> QED BY <3>1, <3>2
  <2> QED BY <2>9, <2>10 DEF Located
<1> QED BY <1>1, <1>2 DEF Next, Acts, Rest

(* Every variable keeps its type.                                          *)
THEOREM TypeCorrect == Spec => []TypeOK
<1>1. Init => TypeOK /\ Located BY InitTyped
<1>2. TypeOK /\ Located /\ [Next]_vars => (TypeOK /\ Located)'
  BY StepTyped
<1> QED BY <1>1, <1>2, PTL DEF Spec

-----------------------------------------------------------------------------
(* Locks *)

LEMMA StepLocks ==
  ASSUME TypeOK, LocksExclusive, [Next]_vars
  PROVE  LocksExclusive'
<1>1. CASE UNCHANGED tx BY <1>1 DEF LocksExclusive
<1>2. ASSUME NEW r \in Requests, tx' = [tx EXCEPT ![r] = Empty]
      PROVE  LocksExclusive'
  BY <1>2, OnlyFacts DEF LocksExclusive, TypeOK
<1>3. ASSUME NEW r \in Requests, Execute(r) PROVE LocksExclusive'
  <2>1. \A q \in Requests \ {r} : tx'[q] = tx[q] BY <1>3 DEF Execute, TypeOK
  <2>2. DOMAIN tx'[r] = DOMAIN tx[r] \union DOMAIN Writes(r, Statement(r))
    BY <1>3, AddFacts DEF Execute, TypeOK
  <2>3. \A q \in Requests \ {r} :
          DOMAIN Writes(r, Statement(r)) \intersect DOMAIN tx[q] = {}
    BY <1>3 DEF Execute, Blocked, LockedFor
  <2> QED BY <2>1, <2>2, <2>3 DEF LocksExclusive
<1> QED BY <1>1, <1>2, <1>3, TxChanges

-----------------------------------------------------------------------------
(* create_project *)

LEMMA StepCreateStuck ==
  ASSUME TypeOK, Located, CreateStuck, [Next]_vars
  PROVE  CreateStuck'
<1>1. CASE UNCHANGED vars BY <1>1 DEF vars, CreateStuck
<1>2. ASSUME NEW r \in Requests, Acts(r) PROVE CreateStuck'
  <2> DEFINE Stuck(q) ==
        op[q] = "create" =>
          /\ fate[q] # "committed"
          /\ pc[q] = "sql" =>
               /\ at[q] \in 1..5
               /\ at[q] > 3 => /\ Schema(snap[q].schema) \in DOMAIN tx[q]
                               /\ tx[q][Schema(snap[q].schema)] = "present"
  <2>1. Arrived(r) \/ Looked(r) \/ Execute(r) \/ Ended(r)
    BY <1>2, HowItMoves
  <2>2. \A q \in Requests \ {r} : Stuck(q)'
    BY <1>2, OneMoves DEF Same, CreateStuck
  <2>3. ASSUME Arrived(r) PROVE Stuck(r)' BY <2>3 DEF Arrived, Located
  <2>4. ASSUME Looked(r) PROVE Stuck(r)' BY <2>4 DEF Looked, Located
  <2>5. ASSUME Execute(r) PROVE Stuck(r)'
    <3> SUFFICES ASSUME op[r] = "create" PROVE Stuck(r)'
      BY <2>5 DEF Execute
    <3> DEFINE s == snap[r].schema
    <3>1. /\ at[r] \in 1..5 /\ fate[r] # "committed"
          /\ at[r] > 3 => Schema(s) \in DOMAIN tx[r] /\ tx[r][Schema(s)] = "present"
      BY <2>5 DEF Execute, InStatement, CreateStuck
    <3>2. Script(r) = CreateScript BY Scripts
    <3>3. at[r] # 5
      <4> SUFFICES ASSUME at[r] = 5 PROVE FALSE OBVIOUS
      <4>1. Statement(r) = "CreateSchema"
        BY <3>2, CreateStatements DEF Statement
      <4>2. Accepted(r, "CreateSchema") BY <2>5, <4>1 DEF Execute
      <4>3. Visible(r, Schema(s)) = "missing" BY <4>2 DEF Accepted
      <4> QED BY <3>1, <4>3 DEF Visible
    <3>4. /\ at'[r] = at[r] + 1 /\ tx'[r] = Add(tx[r], Writes(r, Statement(r)))
          /\ pc' = pc /\ op' = op /\ snap' = snap /\ fate' = fate
      BY <2>5 DEF Execute, TypeOK
    <3>5. CASE at[r] < 3 BY <3>1, <3>4, <3>5
    <3>6. CASE at[r] = 3
      <4>1. Statement(r) = "GrantSchema"
        BY <3>2, <3>6, CreateStatements DEF Statement
      <4>2. Writes(r, Statement(r)) = Only(Schema(s), "present")
        BY <4>1, WritesByStatement
      <4>3. Schema(s) \in DOMAIN tx'[r] /\ tx'[r][Schema(s)] = "present"
        <5>1. /\ Schema(s) \in DOMAIN Writes(r, Statement(r))
              /\ Writes(r, Statement(r))[Schema(s)] = "present"
          BY <4>2, OnlyFacts
        <5>2. tx'[r] = Add(tx[r], Writes(r, Statement(r))) BY <3>4
        <5> QED BY ONLY <5>1, <5>2, Grown
      <4> QED BY <3>1, <3>4, <3>6, <4>3
    <3>7. CASE at[r] = 4
      <4>1. Statement(r) = "GrantObjects"
        BY <3>2, <3>7, CreateStatements DEF Statement
      <4>2. Writes(r, Statement(r)) = Empty
        BY <4>1, WritesByStatement
      <4>3. Schema(s) \in DOMAIN tx'[r] /\ tx'[r][Schema(s)] = "present"
        <5>1. DOMAIN Writes(r, Statement(r)) = {} BY <4>2, OnlyFacts
        <5>2. Schema(s) \in DOMAIN tx[r] /\ tx[r][Schema(s)] = "present"
          BY <3>1, <3>7
        <5>3. tx'[r] = Add(tx[r], Writes(r, Statement(r))) BY <3>4
        <5> QED BY ONLY <5>1, <5>2, <5>3, Grown
      <4> QED BY <3>1, <3>4, <3>7, <4>3
    <3> QED BY <3>1, <3>3, <3>5, <3>6, <3>7
  <2>6. ASSUME Ended(r) PROVE Stuck(r)'
    <3> SUFFICES ASSUME op[r] = "create" PROVE Stuck(r)'
      BY <2>6 DEF Ended
    <3>1. ~Committing(r)
      BY Scripts, CreateStatements DEF Committing, AtCommit, CreateStuck
    <3> QED BY <2>6, <3>1 DEF Ended, CreateStuck
  <2>7. Stuck(r)' BY <2>1, <2>3, <2>4, <2>5, <2>6
  <2> QED BY <2>2, <2>7 DEF CreateStuck
<1> QED BY <1>1, <1>2 DEF Next, Acts, Rest

(* No create_project ever commits.                                         *)
THEOREM CreateNever == Spec => []CreateNeverCommits
<1>1. Init => TypeOK /\ Located /\ CreateStuck
  BY InitTyped DEF Init, CreateStuck
<1>2. TypeOK /\ Located /\ CreateStuck /\ [Next]_vars
      => (TypeOK /\ Located /\ CreateStuck)'
  BY StepTyped, StepCreateStuck
<1>3. CreateStuck => CreateNeverCommits BY DEF CreateStuck, CreateNeverCommits
<1> QED BY <1>1, <1>2, <1>3, PTL DEF Spec

-----------------------------------------------------------------------------
(* What the open transactions have written                                 *)

(* In a transaction of reset, delete or a query, the handler works on the  *)
(* project's own schema and role.                                          *)
LEMMA AtHome ==
  ASSUME TypeOK, Located, SnapsAtHome, NEW r \in Requests,
         pc[r] = "sql", op[r] # "create"
  PROVE  /\ proj[r] \in Projects /\ proj[r] \in Ids
         /\ Home[proj[r]] \in Schemas
         /\ snap[r].schema = Home[proj[r]]
         /\ snap[r].role \in {NoRole, Home[proj[r]]}
         /\ RoleName(r) = Home[proj[r]]
BY HomeAssumption DEF SnapsAtHome, HomeRow, RoleName, Ids

(* A statement adds what it writes to its transaction.                     *)
LEMMA ExecuteAdds ==
  ASSUME TypeOK, NEW r \in Requests, Execute(r)
  PROVE  /\ tx'[r] = Add(tx[r], Writes(r, Statement(r)))
         /\ at'[r] = at[r] + 1 /\ at[r] \in Nat
         /\ at[r] <= Len(Script(r)) /\ pc[r] = "sql"
         /\ UNCHANGED <<db, pc, op, proj, snap, fate>>
BY DEF Execute, InStatement, TypeOK

(* A transaction that has grown.                                           *)
LEMMA GrownTx ==
  ASSUME NEW f, NEW g, NEW t, t = Add(f, g)
  PROVE  /\ DOMAIN t = DOMAIN f \union DOMAIN g
         /\ \A c : c \in DOMAIN g => t[c] = g[c]
         /\ \A c : c \in DOMAIN f /\ c \notin DOMAIN g => t[c] = f[c]
<1>1. DOMAIN t = DOMAIN f \union DOMAIN g BY DEF Add
<1>2. \A c : c \in DOMAIN g => t[c] = g[c] BY Grown
<1>3. \A c : c \in DOMAIN f /\ c \notin DOMAIN g => t[c] = f[c] BY Grown
<1> QED BY <1>1, <1>2, <1>3

(* Where in reset-password each statement stands.                          *)
LEMMA ResetPlaces ==
  ASSUME NEW r \in Requests, op[r] = "reset", at[r] \in Nat, at[r] >= 1,
         at[r] <= Len(Script(r))
  PROVE
  LET updated == IF snap[r].role = NoRole THEN 5 ELSE 2 IN
  /\ Statement(r) \in {"CreateRole", "AlterRole", "GrantConnect", "GrantSchema",
                       "GrantObjects", "UpdateProject", "Audit"}
  /\ at[r] = 1 => Statement(r) \in {"CreateRole", "AlterRole"}
  /\ at[r] = updated => Statement(r) = "UpdateProject"
<1>1. Script(r) = ResetScript(snap[r].role) BY Scripts
<1>2. CASE snap[r].role = NoRole
  <2>1. at[r] \in 1..6
    <3>1. Len(Script(r)) = 6 BY <1>1, <1>2, ResetStatements
    <3>2. at[r] <= 6 BY <3>1
    <3> QED BY <3>2
  <2> QED BY <1>1, <1>2, <2>1, ResetStatements DEF Statement
<1>3. CASE snap[r].role # NoRole
  <2>1. at[r] \in 1..3
    <3>1. Len(Script(r)) = 3 BY <1>1, <1>3, ResetStatements
    <3>2. at[r] <= 3 BY <3>1
    <3> QED BY <3>2
  <2> QED BY <1>1, <1>3, <2>1, ResetStatements DEF Statement
<1> QED BY <1>2, <1>3

LEMMA ExecuteReset ==
  ASSUME TypeOK, Located, SnapsAtHome, RowsAtHome, TransactionsOnTrack,
         NEW r \in Requests, Execute(r), op[r] = "reset"
  PROVE  ResetTx(r)'
<1> DEFINE s == Home[proj[r]]
           row == Row(proj[r])
           updated == IF snap[r].role = NoRole THEN 5 ELSE 2
           W == Writes(r, Statement(r))
           mine == {Role(s), DatabaseAcl, Schema(s), row, AuditRow(r)}
           after == [schema |-> s, role |-> s, cipher |-> r]
<1>1. /\ tx'[r] = Add(tx[r], W) /\ at'[r] = at[r] + 1 /\ at[r] \in Nat
      /\ at[r] <= Len(Script(r)) /\ pc[r] = "sql"
      /\ UNCHANGED <<db, pc, op, proj, snap, fate>>
  BY ExecuteAdds
<1>2. /\ proj[r] \in Ids /\ snap[r].schema = s /\ RoleName(r) = s
      /\ proj[r] \in Projects
  BY <1>1, AtHome
<1>3. ResetTx(r) /\ at[r] >= 1 BY <1>1 DEF TransactionsOnTrack
<1>4. /\ DOMAIN tx[r] \subseteq mine
      /\ Role(s) \in DOMAIN tx[r] => tx[r][Role(s)] = r
      /\ at[r] > 1 => Role(s) \in DOMAIN tx[r]
      /\ row \in DOMAIN tx[r] => db[row] # Absent /\ tx[r][row] = after
      /\ at[r] > updated => row \in DOMAIN tx[r] \/ db[row] = Absent
  BY <1>3 DEF ResetTx
<1>5. /\ Statement(r) \in {"CreateRole", "AlterRole", "GrantConnect", "GrantSchema",
                           "GrantObjects", "UpdateProject", "Audit"}
      /\ at[r] = 1 => Statement(r) \in {"CreateRole", "AlterRole"}
      /\ at[r] = updated => Statement(r) = "UpdateProject"
  BY <1>1, <1>3, ResetPlaces
<1>6. /\ DOMAIN W \subseteq mine
      /\ Role(s) \in DOMAIN W => W[Role(s)] = r
      /\ Statement(r) \in {"CreateRole", "AlterRole"} => Role(s) \in DOMAIN W
      /\ row \in DOMAIN W => db[row] # Absent /\ W[row] = after
      /\ Statement(r) = "UpdateProject" =>
           row \in DOMAIN W \/ row \in DOMAIN tx[r] \/ db[row] = Absent
  <2>1. CASE Statement(r) \in {"CreateRole", "AlterRole"}
    <3>1. W = Only(Role(s), r) BY <2>1, <1>2, WritesByStatement
    <3>2. DOMAIN W = {Role(s)} /\ W[Role(s)] = r BY <3>1, OnlyFacts
    <3>3. row # Role(s) BY CellsDistinct
    <3> HIDE DEF W, row, s, after
    <3> QED BY <3>2, <3>3, <2>1
  <2>2. CASE Statement(r) \in {"GrantConnect", "GrantSchema", "GrantObjects", "Audit"}
    <3>1. DOMAIN W \subseteq {DatabaseAcl, Schema(s), AuditRow(r)}
      <4>1. \/ \E v : W = Only(DatabaseAcl, v) \/ W = Only(Schema(s), v)
                      \/ W = Only(AuditRow(r), v)
            \/ W = Empty
        <5>1. CASE Statement(r) = "GrantConnect" BY <5>1, WritesByStatement
        <5>2. CASE Statement(r) = "GrantSchema"
          <6>1. W = Only(Schema(snap[r].schema), "present")
            BY <5>2, WritesByStatement
          <6> QED BY <6>1, <1>2
        <5>3. CASE Statement(r) = "GrantObjects"
          <6>1. W = Empty BY <5>3, WritesByStatement
          <6> QED BY ONLY <6>1
        <5>4. CASE Statement(r) = "Audit" BY <5>4, WritesByStatement
        <5> QED BY <2>2, <5>1, <5>2, <5>3, <5>4
      <4> HIDE DEF W, s
      <4>2. CASE W = Empty BY <4>2, OnlyFacts
      <4>3. ASSUME NEW v, NEW c \in {DatabaseAcl, Schema(s), AuditRow(r)},
                   W = Only(c, v)
            PROVE  DOMAIN W \subseteq {DatabaseAcl, Schema(s), AuditRow(r)}
        <5>1. DOMAIN W = {c} BY <4>3, OnlyFacts
        <5> QED BY <5>1
      <4> QED BY <4>1, <4>2, <4>3
    <3>2. row \notin DOMAIN W /\ Role(s) \notin DOMAIN W
      BY <3>1, CellsDistinct
    <3> QED BY <2>2, <3>1, <3>2
  <2>3. CASE Statement(r) = "UpdateProject"
    <3> DEFINE seen == Visible(r, row)
    <3>1. \/ W = Empty /\ seen = Absent
          \/ seen # Absent /\ W = Only(row, [schema |-> seen.schema, role |-> s, cipher |-> r])
      BY <2>3, <1>2, WritesByStatement
    <3>2. CASE seen = Absent
      <4>1. W = Empty BY <3>1, <3>2
      <4>2. row \in DOMAIN tx[r] \/ db[row] = Absent BY <3>2 DEF Visible
      <4> QED BY <4>1, <4>2, <2>3, OnlyFacts
    <3>3. CASE seen # Absent
      <4>1. W = Only(row, [schema |-> seen.schema, role |-> s, cipher |-> r]) BY <3>1, <3>3
      <4>2. db[row] # Absent BY <3>3, <1>4 DEF Visible
      <4>3. seen \in ProjectRow /\ seen.schema = s
        <5>1. seen \in ProjectRow \union {Absent}
          BY <1>2, CellValues, VisibleTyped
        <5>2. seen.schema = s
          BY <1>2, <1>4, <3>3 DEF Visible, RowsAtHome, HomeRow
        <5> QED BY <5>1, <5>2, <3>3
      <4>4. [schema |-> seen.schema, role |-> s, cipher |-> r] = after
        BY <4>3
      <4> HIDE DEF seen, after
      <4>5. W = Only(row, after) BY <4>1, <4>4
      <4>6. DOMAIN W = {row} /\ W[row] = after BY <4>5, OnlyFacts
      <4>7. row # Role(s) BY CellsDistinct
      <4> HIDE DEF W, row, s
      <4> QED BY <4>2, <4>6, <4>7, <2>3
    <3> QED BY <3>2, <3>3
  <2> QED BY <1>5, <2>1, <2>2, <2>3
<1> HIDE DEF W, after, mine, updated, row, s
<1>7. /\ DOMAIN tx'[r] = DOMAIN tx[r] \union DOMAIN W
      /\ \A c : c \in DOMAIN W => tx'[r][c] = W[c]
      /\ \A c : c \in DOMAIN tx[r] /\ c \notin DOMAIN W => tx'[r][c] = tx[r][c]
  <2>1. tx'[r] = Add(tx[r], W) BY <1>1
  <2>2. DOMAIN tx'[r] = DOMAIN tx[r] \union DOMAIN W BY ONLY <2>1, GrownTx
  <2>3. ASSUME NEW c \in DOMAIN W PROVE tx'[r][c] = W[c]
    BY ONLY <2>1, <2>3, Grown
  <2>4. ASSUME NEW c \in DOMAIN tx[r], c \notin DOMAIN W
        PROVE  tx'[r][c] = tx[r][c]
    BY ONLY <2>1, <2>4, Grown
  <2> QED BY <2>2, <2>3, <2>4
<1>8. DOMAIN tx'[r] \subseteq mine BY <1>4, <1>6, <1>7
<1>9. Role(s) \in DOMAIN tx'[r] => tx'[r][Role(s)] = r BY <1>4, <1>6, <1>7
<1>10. at'[r] > 1 => Role(s) \in DOMAIN tx'[r]
  BY <1>1, <1>3, <1>4, <1>5, <1>6, <1>7
<1>11. row \in DOMAIN tx'[r] => db'[row] # Absent /\ tx'[r][row] = after
  BY <1>1, <1>4, <1>6, <1>7
<1>12. at'[r] > updated => row \in DOMAIN tx'[r] \/ db'[row] = Absent
  BY <1>1, <1>4, <1>5, <1>6, <1>7 DEF updated
<1>13. proj' = proj /\ snap' = snap /\ db' = db BY <1>1
<1> QED BY <1>8, <1>9, <1>10, <1>11, <1>12, <1>13
        DEF ResetTx, after, mine, updated, row, s

LEMMA DeletePlaces ==
  ASSUME NEW r \in Requests, op[r] = "delete", at[r] \in Nat, at[r] >= 1,
         at[r] <= Len(Script(r))
  PROVE
  LET deleted == IF snap[r].role = NoRole THEN 2 ELSE 3 IN
  /\ Statement(r) \in {"DropSchema", "DropRole", "DeleteProject", "Audit"}
  /\ at[r] = deleted => Statement(r) = "DeleteProject"
<1>1. Script(r) = DeleteScript(snap[r].role) BY Scripts
<1>2. CASE snap[r].role = NoRole
  <2>1. at[r] \in 1..3
    <3>1. Len(Script(r)) = 3 BY <1>1, <1>2, DeleteStatements
    <3>2. at[r] <= 3 BY <3>1
    <3> QED BY <3>2
  <2> QED BY <1>1, <1>2, <2>1, DeleteStatements DEF Statement
<1>3. CASE snap[r].role # NoRole
  <2>1. at[r] \in 1..4
    <3>1. Len(Script(r)) = 4 BY <1>1, <1>3, DeleteStatements
    <3>2. at[r] <= 4 BY <3>1
    <3> QED BY <3>2
  <2> QED BY <1>1, <1>3, <2>1, DeleteStatements DEF Statement
<1> QED BY <1>2, <1>3

LEMMA ExecuteDelete ==
  ASSUME TypeOK, Located, SnapsAtHome, TransactionsOnTrack,
         NEW r \in Requests, Execute(r), op[r] = "delete"
  PROVE  DeleteTx(r)'
<1> DEFINE s == Home[proj[r]]
           row == Row(proj[r])
           deleted == IF snap[r].role = NoRole THEN 2 ELSE 3
           W == Writes(r, Statement(r))
           mine == {Schema(s), Role(s), row, AuditRow(r)}
<1>1. /\ tx'[r] = Add(tx[r], W) /\ at'[r] = at[r] + 1 /\ at[r] \in Nat
      /\ at[r] <= Len(Script(r)) /\ pc[r] = "sql"
      /\ UNCHANGED <<db, pc, op, proj, snap, fate>>
  BY ExecuteAdds
<1>2. snap[r].schema = s /\ RoleName(r) = s BY <1>1, AtHome
<1>3. DeleteTx(r) /\ at[r] >= 1 BY <1>1 DEF TransactionsOnTrack
<1>4. /\ DOMAIN tx[r] \subseteq mine
      /\ Role(s) \in DOMAIN tx[r] => tx[r][Role(s)] = Absent
      /\ row \in DOMAIN tx[r] => db[row] # Absent /\ tx[r][row] = Absent
      /\ at[r] > deleted => row \in DOMAIN tx[r] \/ db[row] = Absent
  BY <1>3 DEF DeleteTx
<1>5. /\ Statement(r) \in {"DropSchema", "DropRole", "DeleteProject", "Audit"}
      /\ at[r] = deleted => Statement(r) = "DeleteProject"
  BY <1>1, <1>3, DeletePlaces
<1>6. /\ DOMAIN W \subseteq mine
      /\ Role(s) \in DOMAIN W => W[Role(s)] = Absent
      /\ row \in DOMAIN W => db[row] # Absent /\ W[row] = Absent
      /\ Statement(r) = "DeleteProject" =>
           row \in DOMAIN W \/ row \in DOMAIN tx[r] \/ db[row] = Absent
  <2>0. row # Role(s) /\ row # Schema(s) /\ row # AuditRow(r)
        /\ Role(s) # Schema(s) /\ Role(s) # AuditRow(r)
    BY CellsDistinct
  <2>1. CASE Statement(r) = "DropSchema"
    <3>1. W = Only(Schema(snap[r].schema), "missing") BY <2>1, WritesByStatement
    <3>2. DOMAIN W = {Schema(s)} BY <3>1, <1>2, OnlyFacts
    <3> HIDE DEF W, row, s
    <3> QED BY <3>2, <2>0, <2>1
  <2>2. CASE Statement(r) = "DropRole"
    <3>1. W = Empty \/ W = Only(Role(RoleName(r)), Absent)
      BY <2>2, WritesByStatement
    <3>2. DOMAIN W = {} \/ (DOMAIN W = {Role(s)} /\ W[Role(s)] = Absent)
      <4>1. CASE W = Empty BY <4>1, OnlyFacts
      <4>2. CASE W = Only(Role(s), Absent) BY <4>2, OnlyFacts
      <4> QED BY <3>1, <1>2, <4>1, <4>2
    <3> HIDE DEF W, row, s
    <3> QED BY <3>2, <2>0, <2>2
  <2>3. CASE Statement(r) = "DeleteProject"
    <3>1. \/ W = Empty /\ Visible(r, row) = Absent
          \/ W = Only(row, Absent) /\ Visible(r, row) # Absent
      BY <2>3, WritesByStatement
    <3>2. CASE W = Empty /\ Visible(r, row) = Absent
      <4>1. row \in DOMAIN tx[r] \/ db[row] = Absent BY <3>2 DEF Visible
      <4> QED BY <4>1, <3>2, <2>3, OnlyFacts
    <3>3. CASE W = Only(row, Absent) /\ Visible(r, row) # Absent
      <4>1. db[row] # Absent BY <3>3, <1>4 DEF Visible
      <4>2. DOMAIN W = {row} /\ W[row] = Absent BY <3>3, OnlyFacts
      <4> HIDE DEF W, row, s
      <4> QED BY <4>1, <4>2, <2>0, <2>3
    <3> QED BY <3>1, <3>2, <3>3
  <2>4. CASE Statement(r) = "Audit"
    <3>1. W = Only(AuditRow(r), "present") BY <2>4, WritesByStatement
    <3>2. DOMAIN W = {AuditRow(r)} BY <3>1, OnlyFacts
    <3> HIDE DEF W, row, s
    <3> QED BY <3>2, <2>0, <2>4
  <2> QED BY <1>5, <2>1, <2>2, <2>3, <2>4
<1> HIDE DEF W, mine, deleted, row, s
<1>7. /\ DOMAIN tx'[r] = DOMAIN tx[r] \union DOMAIN W
      /\ \A c : c \in DOMAIN W => tx'[r][c] = W[c]
      /\ \A c : c \in DOMAIN tx[r] /\ c \notin DOMAIN W => tx'[r][c] = tx[r][c]
  <2>1. tx'[r] = Add(tx[r], W) BY <1>1
  <2>2. DOMAIN tx'[r] = DOMAIN tx[r] \union DOMAIN W BY ONLY <2>1, GrownTx
  <2>3. ASSUME NEW c \in DOMAIN W PROVE tx'[r][c] = W[c]
    BY ONLY <2>1, <2>3, Grown
  <2>4. ASSUME NEW c \in DOMAIN tx[r], c \notin DOMAIN W
        PROVE  tx'[r][c] = tx[r][c]
    BY ONLY <2>1, <2>4, Grown
  <2> QED BY <2>2, <2>3, <2>4
<1>8. DOMAIN tx'[r] \subseteq mine BY <1>4, <1>6, <1>7
<1>9. Role(s) \in DOMAIN tx'[r] => tx'[r][Role(s)] = Absent
  BY <1>4, <1>6, <1>7
<1>10. row \in DOMAIN tx'[r] => db'[row] # Absent /\ tx'[r][row] = Absent
  BY <1>1, <1>4, <1>6, <1>7
<1>11. at'[r] > deleted => row \in DOMAIN tx'[r] \/ db'[row] = Absent
  BY <1>1, <1>4, <1>5, <1>6, <1>7 DEF deleted
<1>12. proj' = proj /\ snap' = snap /\ db' = db BY <1>1
<1> QED BY <1>8, <1>9, <1>10, <1>11, <1>12 DEF DeleteTx, mine, deleted, row, s

LEMMA ExecuteQuery ==
  ASSUME TypeOK, Located, SnapsAtHome, TransactionsOnTrack,
         NEW r \in Requests, Execute(r), op[r] \in Queries
  PROVE  QueryTx(r)'
<1> DEFINE s == Home[proj[r]]
           W == Writes(r, Statement(r))
<1>1. /\ tx'[r] = Add(tx[r], W) /\ at[r] \in Nat
      /\ at[r] <= Len(Script(r)) /\ pc[r] = "sql"
      /\ UNCHANGED <<db, pc, op, proj, snap, fate>>
  BY ExecuteAdds
<1>2. snap[r].schema = s BY <1>1, AtHome DEF Queries
<1>3. QueryTx(r) /\ at[r] >= 1 BY <1>1 DEF TransactionsOnTrack
<1>4. Script(r) = QueryScript(op[r]) BY Scripts
<1>5. at[r] \in 1..2
  <2>1. Len(Script(r)) = 2 BY <1>4, QueryStatements
  <2>2. at[r] <= 2 BY <1>1, <2>1
  <2> QED BY <1>1, <1>3, <2>2
<1>6. Statement(r) = "SetLocal" \/ Statement(r) = op[r]
  BY <1>4, <1>5, QueryStatements DEF Statement
<1>7. DOMAIN W \subseteq {Schema(s), DatabaseAcl}
  <2>1. CASE Statement(r) = "SetLocal"
    <3>1. W = Empty BY <2>1, WritesByStatement
    <3> QED BY <3>1, OnlyFacts
  <2>2. CASE Statement(r) = "CreateSchema"
    <3>1. W = Only(Schema(snap[r].schema), "present") BY <2>2, WritesByStatement
    <3>2. DOMAIN W = {Schema(s)} BY <3>1, <1>2, OnlyFacts
    <3> QED BY <3>2
  <2>3. CASE Statement(r) = "DropSchema"
    <3>1. W = Only(Schema(snap[r].schema), "missing") BY <2>3, WritesByStatement
    <3>2. DOMAIN W = {Schema(s)} BY <3>1, <1>2, OnlyFacts
    <3> QED BY <3>2
  <2>4. CASE Statement(r) = "RevokeConnect"
    <3>1. W = Only(DatabaseAcl, Visible(r, DatabaseAcl) \ {RoleName(r)})
      BY <2>4, WritesByStatement
    <3>2. DOMAIN W = {DatabaseAcl} BY <3>1, OnlyFacts
    <3> QED BY <3>2
  <2> QED BY <1>6, <2>1, <2>2, <2>3, <2>4 DEF Queries
<1>8. DOMAIN tx'[r] = DOMAIN tx[r] \union DOMAIN W
  <2>1. tx'[r] = Add(tx[r], W) BY <1>1
  <2> HIDE DEF W
  <2> QED BY ONLY <2>1, GrownTx
<1> HIDE DEF W
<1> QED BY <1>1, <1>3, <1>7, <1>8 DEF QueryTx

(* ... and so has every open transaction.                                  *)
OnTrack(r) ==
  pc[r] = "sql" =>
    /\ op[r] = "reset" => ResetTx(r)
    /\ op[r] = "delete" => DeleteTx(r)
    /\ op[r] \in Queries => QueryTx(r)
    /\ at[r] >= 1

LEMMA StepMine ==
  ASSUME TypeOK, Located, SnapsAtHome, RowsAtHome, TransactionsOnTrack,
         NEW r \in Requests, Acts(r)
  PROVE  OnTrack(r)'
<1>1. CASE Arrived(r) BY <1>1 DEF Arrived, OnTrack
<1>2. CASE Looked(r)
  <2> SUFFICES ASSUME pc'[r] = "sql" PROVE OnTrack(r)'
    BY DEF OnTrack
  <2>1. pc[r] \in {"probe", "read"} BY <1>2 DEF Looked
  <2>2. tx'[r] = Empty /\ at'[r] = 1 BY <1>2, <2>1 DEF Looked, TypeOK, Located
  <2>3. DOMAIN tx'[r] = {} BY <2>2, OnlyFacts
  <2>4. ResetTx(r)' BY <2>2, <2>3 DEF ResetTx
  <2>5. DeleteTx(r)' BY <2>2, <2>3 DEF DeleteTx
  <2>6. QueryTx(r)' BY <2>3 DEF QueryTx
  <2> QED BY <2>2, <2>4, <2>5, <2>6 DEF OnTrack
<1>3. CASE Execute(r)
  <2>1. /\ op' = op /\ pc[r] = "sql" /\ at'[r] = at[r] + 1 /\ at[r] \in Nat
    BY <1>3, ExecuteAdds
  <2>2. op[r] = "reset" => ResetTx(r)' BY <1>3, ExecuteReset
  <2>3. op[r] = "delete" => DeleteTx(r)' BY <1>3, ExecuteDelete
  <2>4. op[r] \in Queries => QueryTx(r)' BY <1>3, ExecuteQuery
  <2>5. at'[r] >= 1 BY <2>1
  <2> QED BY <2>1, <2>2, <2>3, <2>4, <2>5 DEF OnTrack
<1>4. CASE Ended(r) BY <1>4 DEF Ended, OnTrack
<1> QED BY <1>1, <1>2, <1>3, <1>4, HowItMoves

-----------------------------------------------------------------------------
(* What a COMMIT changes                                                   *)

(* Only reset-password and delete change a row or a role: their project's, *)
(* both together.                                                          *)
LEMMA CommitChanges ==
  ASSUME TypeOK, Located, CreateStuck, SnapsAtHome, TransactionsOnTrack,
         NEW r \in Requests, Committing(r)
  PROVE
  LET s == Home[proj[r]]
      row == Row(proj[r])
  IN
  /\ DOMAIN db' = DOMAIN db
  /\ \A c : c \in DOMAIN db =>
       db'[c] = IF c \in DOMAIN tx[r] THEN tx[r][c] ELSE db[c]
  /\ \A p : Row(p) \in DOMAIN tx[r] => p = proj[r] /\ db[row] # Absent
  /\ \A x : Role(x) \in DOMAIN tx[r] => x = s
  /\ \/ /\ op[r] = "reset"
        /\ Role(s) \in DOMAIN tx[r] /\ tx[r][Role(s)] = r
        /\ \/ /\ row \in DOMAIN tx[r]
              /\ tx[r][row] = [schema |-> s, role |-> s, cipher |-> r]
           \/ row \notin DOMAIN tx[r] /\ db[row] = Absent
     \/ /\ op[r] = "delete"
        /\ \/ row \in DOMAIN tx[r] /\ tx[r][row] = Absent
           \/ row \notin DOMAIN tx[r] /\ db[row] = Absent
     \/ \A p : Row(p) \notin DOMAIN tx[r] /\ Role(p) \notin DOMAIN tx[r]
<1> DEFINE s == Home[proj[r]]
           row == Row(proj[r])
<1>1. /\ pc[r] = "sql" /\ at[r] > Len(Script(r)) /\ at[r] \in Nat
      /\ db' = Override(db, tx[r])
  BY DEF Committing, AtCommit, Apply, TypeOK
<1>2. /\ DOMAIN db' = DOMAIN db
      /\ \A c : c \in DOMAIN db =>
           db'[c] = IF c \in DOMAIN tx[r] THEN tx[r][c] ELSE db[c]
  BY <1>1, OverrideFacts
<1>3. op[r] # "create"
  <2> SUFFICES ASSUME op[r] = "create" PROVE FALSE
    OBVIOUS
  <2>1. at[r] \in 1..5 BY <1>1 DEF CreateStuck
  <2>2. Len(Script(r)) = 7 BY Scripts, CreateStatements
  <2> QED BY <1>1, <2>1, <2>2
<1>4. op[r] \in {"reset", "delete"} \/ op[r] \in Queries
  BY <1>1, <1>3 DEF Located, Handlers
<1>5. CASE op[r] = "reset"
  <2>1. ResetTx(r) BY <1>1, <1>5 DEF TransactionsOnTrack
  <2>2. /\ DOMAIN tx[r] \subseteq
             {Role(s), DatabaseAcl, Schema(s), row, AuditRow(r)}
        /\ Role(s) \in DOMAIN tx[r] => tx[r][Role(s)] = r
        /\ row \in DOMAIN tx[r] =>
             /\ db[row] # Absent
             /\ tx[r][row] = [schema |-> s, role |-> s, cipher |-> r]
    BY <2>1 DEF ResetTx
  <2>3. Role(s) \in DOMAIN tx[r] /\ (row \in DOMAIN tx[r] \/ db[row] = Absent)
    <3>1. Script(r) = ResetScript(snap[r].role) BY <1>5, Scripts
    <3>2. CASE snap[r].role = NoRole
      <4>1. Len(Script(r)) = 6 BY <3>1, <3>2, ResetStatements
      <4>2. at[r] > 6 BY <1>1, <4>1
      <4>3. at[r] > 5 /\ at[r] > 1 BY <1>1, <4>2
      <4> QED BY <2>1, <3>2, <4>3 DEF ResetTx
    <3>3. CASE snap[r].role # NoRole
      <4>1. Len(Script(r)) = 3 BY <3>1, <3>3, ResetStatements
      <4>2. at[r] > 3 BY <1>1, <4>1
      <4>3. at[r] > 2 /\ at[r] > 1 BY <1>1, <4>2
      <4> QED BY <2>1, <3>3, <4>3 DEF ResetTx
    <3> QED BY <3>2, <3>3
  <2>4. \A p : Row(p) \in DOMAIN tx[r] => p = proj[r] BY <2>2, CellsDistinct
  <2>5. \A x : Role(x) \in DOMAIN tx[r] => x = s BY <2>2, CellsDistinct
  <2> HIDE DEF s, row
  <2>6. \A p : Row(p) \in DOMAIN tx[r] => p = proj[r] /\ db[row] # Absent
    BY <2>2, <2>4 DEF row
  <2> QED BY <1>2, <1>5, <2>2, <2>3, <2>5, <2>6 DEF s, row
<1>6. CASE op[r] = "delete"
  <2>1. DeleteTx(r) BY <1>1, <1>6 DEF TransactionsOnTrack
  <2>2. /\ DOMAIN tx[r] \subseteq {Schema(s), Role(s), row, AuditRow(r)}
        /\ row \in DOMAIN tx[r] => db[row] # Absent /\ tx[r][row] = Absent
    BY <2>1 DEF DeleteTx
  <2>3. row \in DOMAIN tx[r] \/ db[row] = Absent
    <3>1. Script(r) = DeleteScript(snap[r].role) BY <1>6, Scripts
    <3>2. CASE snap[r].role = NoRole
      <4>1. Len(Script(r)) = 3 BY <3>1, <3>2, DeleteStatements
      <4>2. at[r] > 3 BY <1>1, <4>1
      <4>3. at[r] > 2 BY <1>1, <4>2
      <4> QED BY <2>1, <3>2, <4>3 DEF DeleteTx
    <3>3. CASE snap[r].role # NoRole
      <4>1. Len(Script(r)) = 4 BY <3>1, <3>3, DeleteStatements
      <4>2. at[r] > 4 BY <1>1, <4>1
      <4>3. at[r] > 3 BY <1>1, <4>2
      <4> QED BY <2>1, <3>3, <4>3 DEF DeleteTx
    <3> QED BY <3>2, <3>3
  <2>4. \A p : Row(p) \in DOMAIN tx[r] => p = proj[r] BY <2>2, CellsDistinct
  <2>5. \A x : Role(x) \in DOMAIN tx[r] => x = s BY <2>2, CellsDistinct
  <2> HIDE DEF s, row
  <2>6. \A p : Row(p) \in DOMAIN tx[r] => p = proj[r] /\ db[row] # Absent
    BY <2>2, <2>4 DEF row
  <2> QED BY <1>2, <1>6, <2>2, <2>3, <2>5, <2>6 DEF s, row
<1>7. CASE op[r] \in Queries
  <2>1. DOMAIN tx[r] \subseteq {Schema(s), DatabaseAcl}
    BY <1>1, <1>7 DEF TransactionsOnTrack, QueryTx
  <2>2. \A p : Row(p) \notin DOMAIN tx[r] /\ Role(p) \notin DOMAIN tx[r]
    BY <2>1, CellsDistinct
  <2> QED BY <1>2, <2>2
<1> QED BY <1>4, <1>5, <1>6, <1>7

(* A row stays as it is, or a reset or a delete of its project changes it. *)
LEMMA RowChanges ==
  ASSUME TypeOK, Located, CreateStuck, SnapsAtHome, TransactionsOnTrack,
         [Next]_vars, NEW p \in Ids
  PROVE  \/ db'[Row(p)] = db[Row(p)]
         \/ \E r \in Requests :
              /\ Committing(r) /\ p = proj[r] /\ p \in Projects
              /\ Row(p) \in DOMAIN tx[r] /\ db[Row(p)] # Absent
              /\ \/ db'[Row(p)] = Absent
                 \/ db'[Row(p)] = [schema |-> Home[p], role |-> Home[p],
                                   cipher |-> r]
<1>1. Row(p) \in DOMAIN db BY CellValues DEF TypeOK
<1>2. CASE UNCHANGED db BY <1>2
<1>3. ASSUME NEW r \in Requests, AuditReveal(r)
      PROVE  db'[Row(p)] = db[Row(p)]
  BY <1>1, <1>3, CellsDistinct DEF AuditReveal
<1>4. ASSUME NEW r \in Requests, Committing(r), Row(p) \notin DOMAIN tx[r]
      PROVE  db'[Row(p)] = db[Row(p)]
  BY <1>1, <1>4, CommitChanges
<1>5. ASSUME NEW r \in Requests, Committing(r), Row(p) \in DOMAIN tx[r]
      PROVE  /\ p = proj[r] /\ p \in Projects /\ db[Row(p)] # Absent
             /\ \/ db'[Row(p)] = Absent
                \/ db'[Row(p)] = [schema |-> Home[p], role |-> Home[p],
                                  cipher |-> r]
  <2>1. p = proj[r] /\ db[Row(p)] # Absent BY <1>5, CommitChanges
  <2>2. db'[Row(p)] = tx[r][Row(p)] BY <1>1, <1>5, CommitChanges
  <2>3. /\ op[r] \in {"reset", "delete"}
        /\ \/ tx[r][Row(p)] = Absent
           \/ tx[r][Row(p)] = [schema |-> Home[p], role |-> Home[p], cipher |-> r]
    BY <1>5, <2>1, CommitChanges
  <2>4. pc[r] = "sql" BY <1>5 DEF Committing, AtCommit
  <2>5. p \in Projects BY <2>1, <2>3, <2>4, AtHome
  <2> QED BY <2>1, <2>2, <2>3, <2>5
<1> QED BY <1>2, <1>3, <1>4, <1>5, DbChanges

LEMMA StepRows ==
  ASSUME TypeOK, Located, CreateStuck, RowsAtHome, SnapsAtHome,
         TransactionsOnTrack, [Next]_vars
  PROVE  RowsAtHome'
<1> SUFFICES ASSUME NEW p \in Ids, db'[Row(p)] # Absent
             PROVE  HomeRow(p, db'[Row(p)])
  BY DEF RowsAtHome, HomeRow
<1>1. CASE db'[Row(p)] = db[Row(p)] BY <1>1 DEF RowsAtHome
<1>2. ASSUME p \in Projects, NEW r,
             db'[Row(p)] = [schema |-> Home[p], role |-> Home[p], cipher |-> r]
      PROVE  HomeRow(p, db'[Row(p)])
  BY <1>2 DEF HomeRow
<1> QED BY <1>1, <1>2, RowChanges

LEMMA StepSnaps ==
  ASSUME TypeOK, Located, RowsAtHome, SnapsAtHome, [Next]_vars
  PROVE  SnapsAtHome'
<1> DEFINE Knows(r) ==
      pc[r] \in {"sql", "audit", "history"} /\ op[r] # "create" =>
        HomeRow(proj[r], snap[r])
<1>1. CASE UNCHANGED vars BY <1>1 DEF vars, SnapsAtHome, HomeRow
<1>2. ASSUME NEW r \in Requests, Acts(r) PROVE SnapsAtHome'
  <2>1. \A q \in Requests \ {r} : Knows(q)'
    BY <1>2, OneMoves DEF Same, SnapsAtHome, HomeRow
  <2>2. ASSUME Arrived(r) PROVE Knows(r)' BY <2>2 DEF Arrived
  <2>3. ASSUME Looked(r) PROVE Knows(r)'
    <3>1. CASE pc[r] = "probe"
      <4>1. op[r] = "create" BY <3>1 DEF Located
      <4> QED BY <2>3, <4>1 DEF Looked
    <3>2. CASE pc[r] = "read"
      <4>1. proj[r] \in Ids BY <3>2 DEF Located
      <4>2. db[Row(proj[r])] # Absent => HomeRow(proj[r], db[Row(proj[r])])
        BY <4>1 DEF RowsAtHome
      <4> QED BY <2>3, <3>2, <4>2 DEF Looked, HomeRow
    <3> QED BY <2>3, <3>1, <3>2 DEF Looked
  <2>4. ASSUME Execute(r) PROVE Knows(r)'
    <3>1. UNCHANGED <<db, pc, op, proj, snap, fate>> BY <2>4, ExecuteAdds
    <3> QED BY <3>1 DEF SnapsAtHome, HomeRow
  <2>5. ASSUME Ended(r) PROVE Knows(r)'
    BY <2>5 DEF Ended, SnapsAtHome, HomeRow
  <2>6. Knows(r)' BY <1>2, <2>2, <2>3, <2>4, <2>5, HowItMoves
  <2> QED BY <2>1, <2>6 DEF SnapsAtHome
<1> QED BY <1>1, <1>2 DEF Next, Acts, Rest

(* A COMMIT does not put a transaction of another request off its track:   *)
(* the row it holds is locked, the row it found missing cannot come back.  *)
LEMMA OthersOnTrack ==
  ASSUME TypeOK, Located, LocksExclusive, CreateStuck, SnapsAtHome,
         TransactionsOnTrack, [Next]_vars, NEW q \in Requests, Same(q)
  PROVE  OnTrack(q)'
<1> SUFFICES ASSUME pc[q] = "sql" PROVE OnTrack(q)'
  BY DEF Same, OnTrack
<1> DEFINE row == Row(proj[q])
<1>1. OnTrack(q) BY DEF TransactionsOnTrack, OnTrack
<1>2. proj[q] \in Ids BY DEF Located
<1>3. row \in DOMAIN tx[q] /\ db[row] # Absent => db'[row] # Absent
  <2> SUFFICES ASSUME row \in DOMAIN tx[q], db[row] # Absent
               PROVE  db'[row] = db[row]
    OBVIOUS
  <2>1. ASSUME NEW r \in Requests, Committing(r), row \in DOMAIN tx[r]
        PROVE  FALSE
    <3>1. r # q
      <4>1. pc'[r] # "sql" BY <2>1 DEF Committing, TypeOK
      <4> QED BY <4>1 DEF Same
    <3> QED BY <2>1, <3>1 DEF LocksExclusive
  <2> QED BY <1>2, <2>1, RowChanges
<1>4. db[row] = Absent => db'[row] = Absent BY <1>2, RowChanges
<1> HIDE DEF row
<1>5. op[q] = "reset" => ResetTx(q)'
  BY <1>1, <1>3, <1>4 DEF OnTrack, ResetTx, Same, row
<1>6. op[q] = "delete" => DeleteTx(q)'
  BY <1>1, <1>3, <1>4 DEF OnTrack, DeleteTx, Same, row
<1>7. op[q] \in Queries => QueryTx(q)' BY <1>1 DEF OnTrack, QueryTx, Same
<1> QED BY <1>1, <1>5, <1>6, <1>7 DEF OnTrack, Same

LEMMA StepTransactions ==
  ASSUME TypeOK, Located, LocksExclusive, CreateStuck, RowsAtHome,
         SnapsAtHome, TransactionsOnTrack, [Next]_vars
  PROVE  TransactionsOnTrack'
<1>1. CASE UNCHANGED vars
  BY <1>1 DEF vars, TransactionsOnTrack, ResetTx, DeleteTx, QueryTx
<1>2. ASSUME NEW r \in Requests, Acts(r) PROVE TransactionsOnTrack'
  <2>1. \A q \in Requests \ {r} : OnTrack(q)' BY <1>2, OneMoves, OthersOnTrack
  <2>2. OnTrack(r)' BY <1>2, StepMine
  <2> QED BY <2>1, <2>2 DEF TransactionsOnTrack, OnTrack
<1> QED BY <1>1, <1>2 DEF Next, Acts, Rest

-----------------------------------------------------------------------------
(* The stored password and the password of the role                        *)

LEMMA StepSync ==
  ASSUME TypeOK, Located, CreateStuck, RowsAtHome, SnapsAtHome,
         TransactionsOnTrack, CredentialsInSync, RowsAtHome', [Next]_vars
  PROVE  CredentialsInSync'
<1> DEFINE before(p) == db[Row(p)]
           after(p) == db'[Row(p)]
<1> SUFFICES ASSUME NEW p \in Ids, after(p) # Absent, after(p).role # NoRole
             PROVE  db'[Role(after(p).role)] = after(p).cipher
  BY DEF CredentialsInSync
<1>1. p \in Projects /\ after(p).role = Home[p] BY DEF RowsAtHome, HomeRow
<1>2. /\ Home[p] \in Schemas
      /\ Row(p) \in DOMAIN db /\ Role(Home[p]) \in DOMAIN db
  BY <1>1, HomeAssumption, CellValues DEF TypeOK
<1>3. ASSUME after(p) = before(p), db'[Role(Home[p])] = db[Role(Home[p])]
      PROVE  db'[Role(after(p).role)] = after(p).cipher
  BY <1>1, <1>3 DEF CredentialsInSync
<1>4. CASE UNCHANGED db BY <1>3, <1>4
<1>5. ASSUME NEW r \in Requests, AuditReveal(r)
      PROVE  db'[Role(after(p).role)] = after(p).cipher
  BY <1>2, <1>3, <1>5, CellsDistinct DEF AuditReveal
<1>6. ASSUME NEW r \in Requests, Committing(r)
      PROVE  db'[Role(after(p).role)] = after(p).cipher
  <2>1. \A c : c \in DOMAIN db =>
          db'[c] = IF c \in DOMAIN tx[r] THEN tx[r][c] ELSE db[c]
    BY <1>6, CommitChanges
  <2>2. CASE p # proj[r]
    <3>1. Row(p) \notin DOMAIN tx[r] BY <1>6, <2>2, CommitChanges
    <3>2. Role(Home[p]) \notin DOMAIN tx[r]
      <4>1. CASE \A x : Role(x) \notin DOMAIN tx[r] BY <4>1
      <4>2. CASE op[r] \in {"reset", "delete"}
        <5>1. proj[r] \in Projects
          BY <1>6, <4>2, AtHome DEF Committing, AtCommit
        <5>2. Home[p] # Home[proj[r]] BY <1>1, <2>2, <5>1, HomeAssumption
        <5> QED BY <1>6, <5>2, CommitChanges
      <4> QED BY <1>6, <4>1, <4>2, CommitChanges
    <3> QED BY <1>2, <1>3, <2>1, <3>1, <3>2
  <2>3. CASE p = proj[r]
    <3>1. CASE /\ op[r] = "reset"
               /\ Role(Home[p]) \in DOMAIN tx[r] /\ tx[r][Role(Home[p])] = r
               /\ Row(p) \in DOMAIN tx[r]
               /\ tx[r][Row(p)] =
                    [schema |-> Home[p], role |-> Home[p], cipher |-> r]
      <4>1. db'[Role(Home[p])] = r BY <1>2, <2>1, <3>1
      <4>2. after(p) = [schema |-> Home[p], role |-> Home[p], cipher |-> r]
        BY <1>2, <2>1, <3>1
      <4>3. after(p).cipher = r BY <4>2
      <4> QED BY <1>1, <4>1, <4>3
    <3>2. CASE Row(p) \notin DOMAIN tx[r] /\ before(p) = Absent
      BY <1>2, <2>1, <3>2
    <3>3. CASE Row(p) \in DOMAIN tx[r] /\ tx[r][Row(p)] = Absent
      BY <1>2, <2>1, <3>3
    <3>4. CASE \A x : Row(x) \notin DOMAIN tx[r] /\ Role(x) \notin DOMAIN tx[r]
      BY <1>2, <1>3, <2>1, <3>4
    <3> QED BY <1>6, <2>3, <3>1, <3>2, <3>3, <3>4, CommitChanges
  <2> QED BY <2>2, <2>3
<1> QED BY <1>4, <1>5, <1>6, DbChanges

(* The inductive invariant holds at the start ...                          *)
LEMMA InitInductive == Init => Inductive
<1> SUFFICES ASSUME Init PROVE Inductive
  OBVIOUS
<1>1. TypeOK /\ Located BY InitTyped
<1>2. LocksExclusive BY OnlyFacts DEF Init, LocksExclusive
<1>3. CreateStuck BY DEF Init, CreateStuck
<1>4. SnapsAtHome BY DEF Init, SnapsAtHome
<1>5. TransactionsOnTrack BY DEF Init, TransactionsOnTrack
<1>6. PICK kind \in [Projects -> Kinds] :
           db = [c \in Cells |-> InitialValue(kind, c)]
  BY DEF Init
<1>7. ASSUME NEW p \in Ids, db[Row(p)] # Absent
      PROVE  /\ p \in Projects /\ db[Row(p)].schema = Home[p]
             /\ \/ db[Row(p)].role = NoRole
                \/ /\ kind[p] = "provisioned"
                   /\ db[Row(p)].role = Home[p] /\ db[Row(p)].cipher = Legacy
  <2>1. db[Row(p)] = InitialValue(kind, Row(p)) BY <1>6, CellValues
  <2>2. p \in Projects BY <1>7, <2>1, InitialValues DEF Ids
  <2>3. db[Row(p)] = InitialRow(kind, p) BY <2>1, <2>2, InitialValues
  <2>4. kind[p] \in Kinds BY <1>6, <2>2
  <2>5. \/ db[Row(p)] = LegacyRow(p)
        \/ kind[p] = "provisioned" /\ db[Row(p)] = ProvisionedRow(p)
    BY <1>7, <2>3, <2>4 DEF InitialRow, Kinds
  <2>6. CASE db[Row(p)] = LegacyRow(p) BY <2>2, <2>6 DEF LegacyRow
  <2>7. CASE kind[p] = "provisioned" /\ db[Row(p)] = ProvisionedRow(p)
    BY <2>2, <2>7 DEF ProvisionedRow
  <2> QED BY <2>5, <2>6, <2>7
<1>8. RowsAtHome BY <1>7 DEF RowsAtHome, HomeRow
<1>9. CredentialsInSync
  <2> SUFFICES ASSUME NEW p \in Ids, db[Row(p)] # Absent, db[Row(p)].role # NoRole
               PROVE  db[Role(db[Row(p)].role)] = db[Row(p)].cipher
    BY DEF CredentialsInSync
  <2>1. /\ p \in Projects /\ kind[p] = "provisioned"
        /\ db[Row(p)].role = Home[p] /\ db[Row(p)].cipher = Legacy
    BY <1>7
  <2>2. Home[p] \in Schemas BY <2>1, HomeAssumption
  <2>3. db[Role(Home[p])] = InitialValue(kind, Role(Home[p]))
    BY <1>6, <2>2, CellValues
  <2>4. Named(kind, {"provisioned"}, Home[p]) BY <2>1 DEF Named
  <2>5. InitialValue(kind, Role(Home[p])) = Legacy BY <2>2, <2>4, InitialValues
  <2> QED BY <2>1, <2>3, <2>5
<1> QED BY <1>1, <1>2, <1>3, <1>4, <1>5, <1>8, <1>9 DEF Inductive

(* ... and is preserved by every step.                                     *)
LEMMA StepInductive ==
  ASSUME Inductive, [Next]_vars
  PROVE  Inductive'
<1> USE DEF Inductive
<1>1. TypeOK' /\ Located' BY StepTyped
<1>2. LocksExclusive' BY StepLocks
<1>3. CreateStuck' BY StepCreateStuck
<1>4. RowsAtHome' BY StepRows
<1>5. SnapsAtHome' BY StepSnaps
<1>6. TransactionsOnTrack' BY StepTransactions
<1>7. CredentialsInSync' BY <1>4, StepSync
<1> QED BY <1>1, <1>2, <1>3, <1>4, <1>5, <1>6, <1>7

(* Whatever creates, deletes, resets, queries and failures do, and however *)
(* they interleave: the password the panel stores for a project is the     *)
(* password of the project's role.                                         *)
THEOREM PasswordsAgree == Spec => []CredentialsInSync
<1>1. Init => Inductive BY InitInductive
<1>2. Inductive /\ [Next]_vars => Inductive' BY StepInductive
<1>3. Inductive => CredentialsInSync BY DEF Inductive
<1> QED BY <1>1, <1>2, <1>3, PTL DEF Spec
=============================================================================
