---------------------------- MODULE HistoryProofs ----------------------------
(***************************************************************************)
(* Theorems about whole histories of provisioning: answers, audit rows,    *)
(* roles left behind, waiting, and the refinement of ProjectStore.         *)
(*                                                                         *)
(* What a statement found and wrote is kept while its lock is held, so a   *)
(* COMMIT has one of seven effects; each property follows from them.       *)
(***************************************************************************)
EXTENDS ProvisioningProofs

-----------------------------------------------------------------------------
(* Statements and the cells they touch                                     *)

KindOf(stmt) ==
  CASE stmt \in {"CreateRole", "AlterRole", "DropRole"} -> "role"
    [] stmt \in {"GrantConnect", "RevokeConnect"} -> "acl"
    [] stmt \in {"GrantSchema", "CreateSchema", "DropSchema"} -> "schema"
    [] stmt \in {"InsertProject", "UpdateProject", "DeleteProject"} -> "row"
    [] stmt = "Audit" -> "audit"
    [] OTHER -> "none"

LEMMA TouchesByKind ==
  ASSUME NEW r, NEW stmt
  PROVE  /\ KindOf(stmt) = "role" => Touches(r, stmt) = {Role(RoleName(r))}
         /\ KindOf(stmt) = "acl" => Touches(r, stmt) = {DatabaseAcl}
         /\ KindOf(stmt) = "schema" => Touches(r, stmt) = {Schema(snap[r].schema)}
         /\ KindOf(stmt) = "row" => Touches(r, stmt) = {Row(proj[r])}
         /\ KindOf(stmt) = "audit" => Touches(r, stmt) = {AuditRow(r)}
         /\ KindOf(stmt) = "none" => Touches(r, stmt) = {}
         /\ KindOf(stmt) \in {"role", "acl", "schema", "row", "audit", "none"}
<1>1. CASE stmt \in {"CreateRole", "AlterRole", "DropRole"}
  BY <1>1 DEF Touches, KindOf
<1>2. CASE stmt \in {"GrantConnect", "RevokeConnect"}
  BY <1>2 DEF Touches, KindOf
<1>3. CASE stmt \in {"GrantSchema", "CreateSchema", "DropSchema"}
  BY <1>3 DEF Touches, KindOf
<1>4. CASE stmt \in {"InsertProject", "UpdateProject", "DeleteProject"}
  BY <1>4 DEF Touches, KindOf
<1>5. CASE stmt = "Audit" BY <1>5 DEF Touches, KindOf
<1>6. CASE stmt \notin {"CreateRole", "AlterRole", "DropRole", "GrantConnect",
                        "RevokeConnect", "GrantSchema", "CreateSchema",
                        "DropSchema", "InsertProject", "UpdateProject",
                        "DeleteProject", "Audit"}
  BY <1>6 DEF Touches, KindOf
<1> QED BY <1>1, <1>2, <1>3, <1>4, <1>5, <1>6

(* Statements of different kinds never touch the same cell.                *)
LEMMA KindsApart ==
  ASSUME NEW r, NEW a, NEW b, KindOf(a) # KindOf(b)
  PROVE  Touches(r, a) \intersect Touches(r, b) = {}
BY TouchesByKind, CellsDistinct

(* A cell tells the kind of the statements that touch it.                  *)
LEMMA KindOfCell ==
  ASSUME NEW r, NEW stmt, NEW x
  PROVE  /\ Role(x) \in Touches(r, stmt) => KindOf(stmt) = "role"
         /\ DatabaseAcl \in Touches(r, stmt) => KindOf(stmt) = "acl"
         /\ Schema(x) \in Touches(r, stmt) => KindOf(stmt) = "schema"
         /\ Row(x) \in Touches(r, stmt) => KindOf(stmt) = "row"
         /\ AuditRow(x) \in Touches(r, stmt) => KindOf(stmt) = "audit" /\ x = r
<1>1. CASE KindOf(stmt) = "role"
  <2>1. Touches(r, stmt) = {Role(RoleName(r))} BY <1>1, TouchesByKind
  <2> QED BY <1>1, <2>1, CellsDistinct
<1>2. CASE KindOf(stmt) = "acl"
  <2>1. Touches(r, stmt) = {DatabaseAcl} BY <1>2, TouchesByKind
  <2> QED BY <1>2, <2>1, CellsDistinct
<1>3. CASE KindOf(stmt) = "schema"
  <2>1. Touches(r, stmt) = {Schema(snap[r].schema)} BY <1>3, TouchesByKind
  <2> QED BY <1>3, <2>1, CellsDistinct
<1>4. CASE KindOf(stmt) = "row"
  <2>1. Touches(r, stmt) = {Row(proj[r])} BY <1>4, TouchesByKind
  <2> QED BY <1>4, <2>1, CellsDistinct
<1>5. CASE KindOf(stmt) = "audit"
  <2>1. Touches(r, stmt) = {AuditRow(r)} BY <1>5, TouchesByKind
  <2> QED BY <1>5, <2>1, CellsDistinct
<1>6. CASE KindOf(stmt) = "none"
  <2>1. Touches(r, stmt) = {} BY <1>6, TouchesByKind
  <2> QED BY <2>1
<1> QED BY <1>1, <1>2, <1>3, <1>4, <1>5, <1>6, TouchesByKind

(* A handler has no two statements of a kind, but for the schema that a    *)
(* create grants on and then tries to create.                              *)
LEMMA OncePerKind ==
  ASSUME NEW r, NEW i \in 1..Len(Script(r)), NEW j \in 1..Len(Script(r)),
         op[r] \in Handlers \union Queries,
         op[r] = "create" => i < 5 /\ j < 5,
         i # j
  PROVE  Touches(r, Script(r)[i]) \intersect Touches(r, Script(r)[j]) = {}
<1> USE DEF KindOf
<1>1. CASE op[r] = "create"
  <2>1. Script(r) = CreateScript BY <1>1, Scripts
  <2>2. i \in 1..4 /\ j \in 1..4
    <3>1. Len(Script(r)) = 7 BY <2>1, CreateStatements
    <3>2. i \in 1..7 /\ j \in 1..7 /\ i < 5 /\ j < 5 BY <1>1, <3>1
    <3> QED BY ONLY <3>2
  <2>3. \/ KindOf(Script(r)[i]) # KindOf(Script(r)[j])
        \/ KindOf(Script(r)[i]) = "none"
    BY <2>1, <2>2, CreateStatements
  <2> QED BY <2>3, KindsApart, TouchesByKind
<1>2. CASE op[r] = "reset" /\ snap[r].role = NoRole
  <2>1. Script(r) = ResetScript(snap[r].role) BY <1>2, Scripts
  <2>2. i \in 1..6 /\ j \in 1..6
    <3>1. Len(Script(r)) = 6 BY <1>2, <2>1, ResetStatements
    <3> QED BY <3>1
  <2>3. \/ KindOf(Script(r)[i]) # KindOf(Script(r)[j])
        \/ KindOf(Script(r)[i]) = "none"
    BY <1>2, <2>1, <2>2, ResetStatements
  <2> QED BY <2>3, KindsApart, TouchesByKind
<1>3. CASE op[r] = "reset" /\ snap[r].role # NoRole
  <2>1. Script(r) = ResetScript(snap[r].role) BY <1>3, Scripts
  <2>2. i \in 1..3 /\ j \in 1..3
    <3>1. Len(Script(r)) = 3 BY <1>3, <2>1, ResetStatements
    <3> QED BY <3>1
  <2>3. KindOf(Script(r)[i]) # KindOf(Script(r)[j])
    BY <1>3, <2>1, <2>2, ResetStatements
  <2> QED BY <2>3, KindsApart
<1>4. CASE op[r] = "delete" /\ snap[r].role = NoRole
  <2>1. Script(r) = DeleteScript(snap[r].role) BY <1>4, Scripts
  <2>2. i \in 1..3 /\ j \in 1..3
    <3>1. Len(Script(r)) = 3 BY <1>4, <2>1, DeleteStatements
    <3> QED BY <3>1
  <2>3. KindOf(Script(r)[i]) # KindOf(Script(r)[j])
    BY <1>4, <2>1, <2>2, DeleteStatements
  <2> QED BY <2>3, KindsApart
<1>5. CASE op[r] = "delete" /\ snap[r].role # NoRole
  <2>1. Script(r) = DeleteScript(snap[r].role) BY <1>5, Scripts
  <2>2. i \in 1..4 /\ j \in 1..4
    <3>1. Len(Script(r)) = 4 BY <1>5, <2>1, DeleteStatements
    <3> QED BY <3>1
  <2>3. KindOf(Script(r)[i]) # KindOf(Script(r)[j])
    BY <1>5, <2>1, <2>2, DeleteStatements
  <2> QED BY <2>3, KindsApart
<1>6. CASE op[r] \in Queries
  <2>1. Script(r) = QueryScript(op[r]) BY <1>6, Scripts
  <2>2. i \in 1..2 /\ j \in 1..2 BY <2>1, QueryStatements
  <2>3. KindOf(Script(r)[i]) = "none" \/ KindOf(Script(r)[j]) = "none"
    BY <2>1, <2>2, QueryStatements
  <2> QED BY <2>3, TouchesByKind
<1>7. CASE op[r] = "info"
  <2>1. Len(Script(r)) = 0 BY <1>7, Scripts
  <2>2. i \in 1..0 BY <2>1
  <2> QED BY ONLY <2>2
<1> QED BY <1>1, <1>2, <1>3, <1>4, <1>5, <1>6, <1>7 DEF Handlers

(* A statement writes no cell it does not touch.                           *)
LEMMA WritesTouch ==
  ASSUME NEW r, NEW stmt
  PROVE  /\ DOMAIN Writes(r, stmt) \subseteq Touches(r, stmt)
         /\ stmt \notin {"DropRole", "UpdateProject", "DeleteProject"} =>
              DOMAIN Writes(r, stmt) = Touches(r, stmt)
<1>1. CASE stmt \in {"CreateRole", "AlterRole"}
  <2>1. Writes(r, stmt) = Only(Role(RoleName(r)), r) BY <1>1, WritesByStatement
  <2> QED BY <1>1, <2>1, OnlyFacts DEF Touches
<1>2. CASE stmt = "DropRole"
  <2>1. \/ Writes(r, stmt) = Empty
        \/ Writes(r, stmt) = Only(Role(RoleName(r)), Absent)
    BY <1>2, WritesByStatement
  <2> QED BY <1>2, <2>1, OnlyFacts DEF Touches
<1>3. CASE stmt \in {"GrantConnect", "RevokeConnect"}
  <2>1. \/ Writes(r, stmt) =
             Only(DatabaseAcl, Visible(r, DatabaseAcl) \union {RoleName(r)})
        \/ Writes(r, stmt) =
             Only(DatabaseAcl, Visible(r, DatabaseAcl) \ {RoleName(r)})
    BY <1>3, WritesByStatement
  <2> QED BY <1>3, <2>1, OnlyFacts DEF Touches
<1>4. CASE stmt \in {"GrantSchema", "CreateSchema", "DropSchema"}
  <2>1. \E v : Writes(r, stmt) = Only(Schema(snap[r].schema), v)
    <3>1. CASE stmt \in {"GrantSchema", "CreateSchema"}
      BY <3>1, WritesByStatement
    <3>2. CASE stmt = "DropSchema" BY <3>2, WritesByStatement
    <3> QED BY <1>4, <3>1, <3>2
  <2> QED BY <1>4, <2>1, OnlyFacts DEF Touches
<1>5. CASE stmt \in {"InsertProject", "UpdateProject", "DeleteProject"}
  <2>1. \/ Writes(r, stmt) = Empty /\ stmt # "InsertProject"
        \/ \E v : Writes(r, stmt) = Only(Row(proj[r]), v)
    <3>1. CASE stmt = "InsertProject" BY <3>1 DEF Writes
    <3>2. CASE stmt = "UpdateProject" BY <3>2 DEF Writes
    <3>3. CASE stmt = "DeleteProject" BY <3>3 DEF Writes
    <3> QED BY <1>5, <3>1, <3>2, <3>3
  <2> QED BY <1>5, <2>1, OnlyFacts DEF Touches
<1>6. CASE stmt = "Audit"
  <2>1. Writes(r, stmt) = Only(AuditRow(r), "present") BY <1>6, WritesByStatement
  <2> QED BY <1>6, <2>1, OnlyFacts DEF Touches
<1>7. CASE stmt \notin {"CreateRole", "AlterRole", "GrantConnect", "RevokeConnect",
                        "GrantSchema", "CreateSchema", "DropSchema", "DropRole",
                        "InsertProject", "UpdateProject", "DeleteProject", "Audit"}
  <2>1. Writes(r, stmt) = Empty BY <1>7, WritesByStatement
  <2> QED BY <1>7, <2>1, OnlyFacts DEF Touches
<1> QED BY <1>1, <1>2, <1>3, <1>4, <1>5, <1>6, <1>7

-----------------------------------------------------------------------------
(* What has been written is kept                                           *)

(* Every script has a length.                                              *)
LEMMA ScriptLength ==
  ASSUME NEW r, op[r] \in Handlers \union Queries
  PROVE  Len(Script(r)) \in Nat
<1>1. op[r] = "create" => Len(Script(r)) = 7 BY Scripts, CreateStatements
<1>2. op[r] = "reset" => Len(Script(r)) \in {3, 6} BY Scripts, ResetStatements
<1>3. op[r] = "delete" => Len(Script(r)) \in {3, 4} BY Scripts, DeleteStatements
<1>4. op[r] \in Queries => Len(Script(r)) = 2 BY Scripts, QueryStatements
<1>5. op[r] = "info" => Len(Script(r)) = 0 BY Scripts
<1> QED BY <1>1, <1>2, <1>3, <1>4, <1>5 DEF Handlers

(* Where a statement stands that is executed; it touches fresh cells.      *)
LEMMA CreateNotPastFour ==
  ASSUME TypeOK, CreateStuck, NEW r \in Requests, Execute(r), op[r] = "create"
  PROVE  at[r] < 5
<1>1. /\ at[r] \in 1..5
      /\ at[r] > 3 => /\ Schema(snap[r].schema) \in DOMAIN tx[r]
                      /\ tx[r][Schema(snap[r].schema)] = "present"
  BY DEF Execute, InStatement, CreateStuck
<1>2. Script(r) = CreateScript BY Scripts
<1> SUFFICES ASSUME at[r] = 5 PROVE FALSE BY <1>1
<1>3. Statement(r) = "CreateSchema" BY <1>2, CreateStatements DEF Statement
<1>4. Accepted(r, "CreateSchema") BY <1>3 DEF Execute
<1>5. Visible(r, Schema(snap[r].schema)) = "missing" BY <1>4 DEF Accepted
<1> QED BY <1>1, <1>5 DEF Visible

LEMMA ExecutesFresh ==
  ASSUME TypeOK, Located, CreateStuck, TransactionsOnTrack, LocksPlaced,
         NEW r \in Requests, Execute(r)
  PROVE  /\ at[r] \in 1..Len(Script(r)) /\ at[r] \notin Ran(r)
         /\ op[r] \in Handlers \union Queries
         /\ op[r] = "create" => at[r] < 5
         /\ Touches(r, Statement(r)) \intersect DOMAIN tx[r] = {}
         /\ \A i \in Ran(r) :
              Touches(r, Statement(r)) \intersect Touches(r, Script(r)[i]) = {}
<1>1. at[r] \in Nat /\ at[r] <= Len(Script(r)) /\ pc[r] = "sql"
  BY ExecuteAdds
<1>2. at[r] >= 1 BY <1>1 DEF TransactionsOnTrack
<1>3. at[r] \in 1..Len(Script(r))
  <2>1. Len(Script(r)) \in Nat BY <1>1, ScriptLength DEF Located
  <2> QED BY ONLY <1>1, <1>2, <2>1
<1>4. at[r] \notin Ran(r) BY <1>1 DEF Ran
<1>5. op[r] \in Handlers \union Queries BY <1>1 DEF Located
<1>6. op[r] = "create" => at[r] < 5 BY CreateNotPastFour
<1>7. ASSUME NEW i \in Ran(r)
      PROVE  Touches(r, Statement(r)) \intersect Touches(r, Script(r)[i]) = {}
  <2>1. i \in 1..Len(Script(r)) /\ i < at[r] BY DEF Ran
  <2>2. op[r] = "create" => at[r] < 5 /\ i < 5 BY <1>1, <1>6, <2>1
  <2>3. at[r] # i BY <1>1, <2>1
  <2>4. Touches(r, Script(r)[at[r]]) \intersect Touches(r, Script(r)[i]) = {}
    BY <1>3, <1>5, <2>1, <2>2, <2>3, OncePerKind
  <2> QED BY <2>4 DEF Statement
<1>8. Touches(r, Statement(r)) \intersect DOMAIN tx[r] = {}
  BY <1>1, <1>7 DEF LocksPlaced
<1> QED BY <1>3, <1>4, <1>5, <1>6, <1>7, <1>8

(* A statement is kept as long as its cells and its row's are.             *)
LEMMA KeptStable ==
  ASSUME NEW q, NEW stmt, Kept(q, stmt),
         snap'[q] = snap[q], proj'[q] = proj[q],
         \A c \in Touches(q, stmt) :
            /\ c \in DOMAIN tx'[q] <=> c \in DOMAIN tx[q]
            /\ c \in DOMAIN tx[q] => tx'[q][c] = tx[q][c] /\ db'[c] = db[c],
         stmt = "DropRole" =>
           IF Role(RoleName(q)) \in DOMAIN tx[q]
           THEN RoleName(q) \in db'[DatabaseAcl] => RoleName(q) \in db[DatabaseAcl]
           ELSE db'[Role(RoleName(q))] = db[Role(RoleName(q))]
  PROVE  Kept(q, stmt)'
<1>1. RoleName(q)' = RoleName(q) BY DEF RoleName
<1>2. Touches(q, stmt)' = Touches(q, stmt) BY <1>1 DEF Touches
<1>3. CASE stmt \in {"CreateRole", "AlterRole", "DropRole"}
  <2>1. Touches(q, stmt) = {Role(RoleName(q))} BY <1>3 DEF Touches
  <2> QED BY <1>1, <1>2, <1>3, <2>1 DEF Kept
<1>4. CASE stmt \in {"GrantConnect", "RevokeConnect"}
  <2>1. Touches(q, stmt) = {DatabaseAcl} BY <1>4 DEF Touches
  <2> QED BY <1>1, <1>2, <1>4, <2>1 DEF Kept
<1>5. CASE stmt \in {"GrantSchema", "CreateSchema", "DropSchema"}
  <2>1. Touches(q, stmt) = {Schema(snap[q].schema)} BY <1>5 DEF Touches
  <2> QED BY <1>1, <1>2, <1>5, <2>1 DEF Kept
<1>6. CASE stmt = "Audit"
  <2>1. Touches(q, stmt) = {AuditRow(q)} BY <1>6 DEF Touches
  <2> QED BY <1>1, <1>2, <1>6, <2>1 DEF Kept
<1>7. CASE stmt \notin {"CreateRole", "AlterRole", "DropRole", "GrantConnect",
                        "RevokeConnect", "GrantSchema", "CreateSchema",
                        "DropSchema", "Audit"}
  BY <1>2, <1>7 DEF Kept
<1> QED BY <1>3, <1>4, <1>5, <1>6, <1>7

(* A statement that has just been executed is kept.                        *)
LEMMA ExecutedKept ==
  ASSUME TypeOK, Located, CreateStuck, TransactionsOnTrack, LocksPlaced,
         NEW r \in Requests, Execute(r), NEW stmt, stmt = Statement(r)
  PROVE  Kept(r, stmt)'
<1> DEFINE W == Writes(r, stmt)
           s == snap[r].schema
           role == RoleName(r)
<1>1. /\ tx'[r] = Add(tx[r], W)
      /\ UNCHANGED <<db, pc, op, proj, snap, fate>>
  BY ExecuteAdds
<1>2. /\ DOMAIN tx'[r] = DOMAIN tx[r] \union DOMAIN W
      /\ \A c : c \in DOMAIN W => tx'[r][c] = W[c]
  <2> HIDE DEF W
  <2>1. tx'[r] = Add(tx[r], W) BY <1>1
  <2>2. DOMAIN tx'[r] = DOMAIN tx[r] \union DOMAIN W BY ONLY <2>1, GrownTx
  <2>3. ASSUME NEW c, c \in DOMAIN W PROVE tx'[r][c] = W[c]
    BY ONLY <2>1, <2>3, Grown
  <2> QED BY ONLY <2>2, <2>3
<1>3. \A c \in Touches(r, stmt) : Visible(r, c) = db[c]
  BY ExecutesFresh DEF Visible
<1>4. Accepted(r, stmt) BY DEF Execute
<1>5. Touches(r, stmt)' = Touches(r, stmt) /\ RoleName(r)' = role
  BY <1>1 DEF Touches, RoleName
<1>6. /\ DOMAIN W \subseteq Touches(r, stmt)
      /\ stmt \notin {"DropRole", "UpdateProject", "DeleteProject"} =>
           DOMAIN W = Touches(r, stmt)
  BY WritesTouch
<1>7. snap'[r].schema = s /\ db' = db BY <1>1
<1>8. CASE stmt \in {"CreateRole", "AlterRole"}
  <2>1. Touches(r, stmt) = {Role(role)} BY <1>8 DEF Touches
  <2>2. /\ stmt = "CreateRole" => db[Role(role)] = Absent
        /\ stmt = "AlterRole" => db[Role(role)] # Absent
    BY <1>3, <1>4, <1>8, <2>1 DEF Accepted
  <2> HIDE DEF W, s, role
  <2> QED BY <1>2, <1>5, <1>6, <1>7, <1>8, <2>2 DEF Kept
<1>9. CASE stmt \in {"GrantConnect", "RevokeConnect"}
  <2>1. Touches(r, stmt) = {DatabaseAcl} BY <1>9 DEF Touches
  <2>2. /\ stmt = "GrantConnect" =>
             W = Only(DatabaseAcl, db[DatabaseAcl] \union {role})
        /\ stmt = "RevokeConnect" => W = Only(DatabaseAcl, db[DatabaseAcl] \ {role})
    BY <1>3, <2>1, WritesByStatement
  <2> HIDE DEF W, s, role
  <2>3. /\ stmt = "GrantConnect" => tx'[r][DatabaseAcl] = db[DatabaseAcl] \union {role}
        /\ stmt = "RevokeConnect" => tx'[r][DatabaseAcl] = db[DatabaseAcl] \ {role}
    <3>1. DatabaseAcl \in DOMAIN W
      <4>1. \/ W = Only(DatabaseAcl, db[DatabaseAcl] \union {role})
            \/ W = Only(DatabaseAcl, db[DatabaseAcl] \ {role})
        BY <1>9, <2>2
      <4> QED BY <4>1, OnlyFacts
    <3>2. /\ stmt = "GrantConnect" => W[DatabaseAcl] = db[DatabaseAcl] \union {role}
          /\ stmt = "RevokeConnect" => W[DatabaseAcl] = db[DatabaseAcl] \ {role}
      BY <2>2, OnlyFacts
    <3> QED BY <1>2, <3>1, <3>2
  <2> QED BY <1>2, <1>5, <1>6, <1>7, <1>9, <2>3 DEF Kept
<1>10. CASE stmt \in {"GrantSchema", "CreateSchema", "DropSchema"}
  <2>1. Touches(r, stmt) = {Schema(s)} BY <1>10 DEF Touches
  <2>2. stmt \in {"GrantSchema", "DropSchema"} => db[Schema(s)] = "present"
    BY <1>3, <1>4, <2>1 DEF Accepted
  <2>3. /\ stmt \in {"GrantSchema", "CreateSchema"} => W = Only(Schema(s), "present")
        /\ stmt = "DropSchema" => W = Only(Schema(s), "missing")
    BY WritesByStatement
  <2> HIDE DEF W, s, role
  <2>4. /\ stmt \in {"GrantSchema", "CreateSchema"} => tx'[r][Schema(s)] = "present"
        /\ stmt = "DropSchema" => tx'[r][Schema(s)] = "missing"
    <3>1. Schema(s) \in DOMAIN W
      <4>1. W = Only(Schema(s), "present") \/ W = Only(Schema(s), "missing")
        BY <1>10, <2>3
      <4> QED BY <4>1, OnlyFacts
    <3>2. /\ stmt \in {"GrantSchema", "CreateSchema"} => W[Schema(s)] = "present"
          /\ stmt = "DropSchema" => W[Schema(s)] = "missing"
      BY <2>3, OnlyFacts
    <3> QED BY <1>2, <3>1, <3>2
  <2> QED BY <1>2, <1>5, <1>6, <1>7, <1>10, <2>2, <2>4 DEF Kept
<1>11. CASE stmt = "DropRole"
  <2>1. Touches(r, stmt) = {Role(role)} BY <1>11 DEF Touches
  <2>2. Visible(r, DatabaseAcl) = db[DatabaseAcl]
    <3>1. op[r] = "delete"
      <4>1. at[r] \in 1..Len(Script(r)) /\ op[r] \in Handlers \union Queries
            /\ (op[r] = "create" => at[r] < 5)
        BY ExecutesFresh
      <4>2. op[r] # "create"
        <5> SUFFICES ASSUME op[r] = "create" PROVE FALSE OBVIOUS
        <5>1. Script(r) = CreateScript BY Scripts
        <5>2. at[r] \in 1..4
          <6>1. Len(Script(r)) = 7 BY <5>1, CreateStatements
          <6> QED BY <4>1, <6>1
        <5>3. stmt = CreateScript[at[r]] BY <5>1 DEF Statement
        <5> QED BY ONLY <1>11, <5>2, <5>3, CreateStatements
      <4>3. op[r] # "reset"
        <5> SUFFICES ASSUME op[r] = "reset" PROVE FALSE OBVIOUS
        <5>1. at[r] \in Nat /\ at[r] >= 1 /\ at[r] <= Len(Script(r))
          BY <4>1, ExecuteAdds
        <5> QED BY <1>11, <5>1, ResetPlaces
      <4>4. op[r] \notin Queries
        <5> SUFFICES ASSUME op[r] \in Queries PROVE FALSE OBVIOUS
        <5>1. Script(r) = QueryScript(op[r]) BY Scripts
        <5>2. at[r] \in 1..2
          <6>1. Len(Script(r)) = 2 BY <5>1, QueryStatements
          <6> QED BY <4>1, <6>1
        <5>3. stmt = QueryScript(op[r])[at[r]] BY <5>1 DEF Statement
        <5>4. stmt \in {"SetLocal", op[r]} BY <5>2, <5>3, QueryStatements
        <5> QED BY <1>11, <5>4 DEF Queries
      <4>5. op[r] # "info"
        BY ExecuteAdds DEF Located
      <4> QED BY <4>1, <4>2, <4>3, <4>4, <4>5 DEF Handlers
    <3>2. DeleteTx(r) BY <3>1, ExecuteAdds DEF TransactionsOnTrack
    <3> QED BY <3>2, CellsDistinct DEF DeleteTx, Visible
  <2>3. \/ W = Empty /\ db[Role(role)] = Absent
        \/ /\ W = Only(Role(role), Absent)
           /\ db[Role(role)] # Absent
    BY <1>3, <1>11, <2>1 DEF Writes
  <2>4. db[Role(role)] # Absent => role \notin db[DatabaseAcl]
    BY <1>3, <1>4, <1>11, <2>1, <2>2 DEF Accepted
  <2>5. Role(role) \notin DOMAIN tx[r] BY <2>1, ExecutesFresh
  <2> HIDE DEF W, s, role
  <2>6. CASE W = Empty
    <3>1. DOMAIN W = {} BY <2>6, OnlyFacts
    <3>2. db[Role(role)] = Absent
      <4>1. W # Only(Role(role), Absent)
        <5>1. DOMAIN Only(Role(role), Absent) = {Role(role)} BY OnlyFacts
        <5> QED BY <3>1, <5>1
      <4> QED BY <2>3, <4>1
    <3> QED BY <1>2, <1>5, <1>7, <1>11, <2>5, <3>1, <3>2 DEF Kept
  <2>7. CASE W = Only(Role(role), Absent) /\ db[Role(role)] # Absent
    <3>1. DOMAIN W = {Role(role)} /\ W[Role(role)] = Absent BY <2>7, OnlyFacts
    <3> QED BY <1>2, <1>5, <1>7, <1>11, <2>4, <2>7, <3>1 DEF Kept
  <2> QED BY <2>3, <2>6, <2>7
<1>12. CASE stmt = "Audit"
  <2>1. W = Only(AuditRow(r), "present") BY <1>12, WritesByStatement
  <2> HIDE DEF W, s, role
  <2>2. tx'[r][AuditRow(r)] = "present"
    <3>1. AuditRow(r) \in DOMAIN W /\ W[AuditRow(r)] = "present"
      BY <2>1, OnlyFacts
    <3> QED BY <1>2, <3>1
  <2> QED BY <1>2, <1>5, <1>6, <1>12, <2>2 DEF Kept
<1>13. CASE stmt \notin {"CreateRole", "AlterRole", "GrantConnect", "RevokeConnect",
                         "GrantSchema", "CreateSchema", "DropSchema", "DropRole",
                         "Audit"}
  <2> HIDE DEF W, s, role
  <2> QED BY <1>2, <1>5, <1>6, <1>13 DEF Kept
<1> QED BY <1>8, <1>9, <1>10, <1>11, <1>12, <1>13

-----------------------------------------------------------------------------
(* What a transaction holds when it commits                                *)

LEMMA AllKept ==
  ASSUME TypeOK, Located, LocksPlaced, StatementsKept,
         NEW r \in Requests, AtCommit(r)
  PROVE  /\ \A i \in 1..Len(Script(r)) : Kept(r, Script(r)[i])
         /\ \A c \in DOMAIN tx[r] :
              \E i \in 1..Len(Script(r)) : c \in Touches(r, Script(r)[i])
<1>1. pc[r] = "sql" /\ at[r] > Len(Script(r)) /\ at[r] \in Nat
  BY DEF AtCommit, TypeOK
<1>2. Len(Script(r)) \in Nat BY <1>1, ScriptLength DEF Located
<1>3. Ran(r) = 1..Len(Script(r)) BY <1>1, <1>2 DEF Ran
<1> QED BY <1>1, <1>3 DEF LocksPlaced, StatementsKept

(* reset-password of a project without a role                              *)
LEMMA FirstResetHolds ==
  ASSUME Inductive, LocksPlaced, StatementsKept, NEW r \in Requests, AtCommit(r),
         op[r] = "reset", snap[r].role = NoRole
  PROVE
  LET s == Home[proj[r]] IN
  /\ {Role(s), DatabaseAcl, Schema(s), AuditRow(r)} \subseteq DOMAIN tx[r]
  /\ DOMAIN tx[r] \subseteq
       {Role(s), DatabaseAcl, Schema(s), AuditRow(r), Row(proj[r])}
  /\ db[Role(s)] = Absent /\ tx[r][Role(s)] = r
  /\ tx[r][DatabaseAcl] = db[DatabaseAcl] \union {s}
  /\ db[Schema(s)] = "present" /\ tx[r][Schema(s)] = "present"
  /\ tx[r][AuditRow(r)] = "present"
<1> DEFINE s == Home[proj[r]]
<1>1. pc[r] = "sql" BY DEF AtCommit
<1>2. RoleName(r) = s /\ snap[r].schema = s BY <1>1, AtHome DEF Inductive
<1>3. Script(r) = ResetScript(snap[r].role) BY Scripts
<1>4. /\ Len(Script(r)) = 6
      /\ Script(r)[1] = "CreateRole" /\ Script(r)[2] = "GrantConnect"
      /\ Script(r)[3] = "GrantSchema" /\ Script(r)[6] = "Audit"
  BY <1>3, ResetStatements
<1>5. \A i \in 1..6 : Kept(r, Script(r)[i])
  BY <1>4, AllKept DEF Inductive
<1>6. /\ Kept(r, "CreateRole") /\ Kept(r, "GrantConnect")
      /\ Kept(r, "GrantSchema") /\ Kept(r, "Audit")
  BY <1>4, <1>5
<1>7. ResetTx(r) BY <1>1 DEF Inductive, TransactionsOnTrack
<1>8. /\ Touches(r, "CreateRole") = {Role(s)}
      /\ Touches(r, "GrantConnect") = {DatabaseAcl}
      /\ Touches(r, "GrantSchema") = {Schema(s)}
      /\ Touches(r, "Audit") = {AuditRow(r)}
  BY <1>2 DEF Touches
<1>9. {Role(s), DatabaseAcl, Schema(s), AuditRow(r)} \subseteq DOMAIN tx[r]
  BY <1>6, <1>8 DEF Kept
<1>10. /\ db[Role(s)] = Absent
       /\ tx[r][DatabaseAcl] = db[DatabaseAcl] \union {s}
       /\ db[Schema(s)] = "present" /\ tx[r][Schema(s)] = "present"
       /\ tx[r][AuditRow(r)] = "present"
  BY <1>2, <1>6 DEF Kept
<1> QED BY <1>7, <1>9, <1>10 DEF ResetTx

(* reset-password of a project with a role                                 *)
LEMMA LaterResetHolds ==
  ASSUME Inductive, LocksPlaced, StatementsKept, NEW r \in Requests, AtCommit(r),
         op[r] = "reset", snap[r].role # NoRole
  PROVE
  LET s == Home[proj[r]] IN
  /\ {Role(s), AuditRow(r)} \subseteq DOMAIN tx[r]
  /\ DOMAIN tx[r] \subseteq {Role(s), AuditRow(r), Row(proj[r])}
  /\ db[Role(s)] # Absent /\ tx[r][Role(s)] = r
  /\ tx[r][AuditRow(r)] = "present"
<1> DEFINE s == Home[proj[r]]
<1>1. pc[r] = "sql" BY DEF AtCommit
<1>2. RoleName(r) = s /\ snap[r].schema = s BY <1>1, AtHome DEF Inductive
<1>3. Script(r) = ResetScript(snap[r].role) BY Scripts
<1>4. /\ Len(Script(r)) = 3
      /\ Script(r)[1] = "AlterRole" /\ Script(r)[2] = "UpdateProject"
      /\ Script(r)[3] = "Audit"
  BY <1>3, ResetStatements
<1>5. /\ \A i \in 1..3 : Kept(r, Script(r)[i])
      /\ \A c \in DOMAIN tx[r] : \E i \in 1..3 : c \in Touches(r, Script(r)[i])
  BY <1>4, AllKept DEF Inductive
<1>6. Kept(r, "AlterRole") /\ Kept(r, "Audit") BY <1>4, <1>5
<1>7. ResetTx(r) BY <1>1 DEF Inductive, TransactionsOnTrack
<1>8. /\ Touches(r, "AlterRole") = {Role(s)}
      /\ Touches(r, "UpdateProject") = {Row(proj[r])}
      /\ Touches(r, "Audit") = {AuditRow(r)}
  BY <1>2 DEF Touches
<1>9. {Role(s), AuditRow(r)} \subseteq DOMAIN tx[r] BY <1>6, <1>8 DEF Kept
<1>10. DOMAIN tx[r] \subseteq {Role(s), AuditRow(r), Row(proj[r])}
  <2> SUFFICES ASSUME NEW c \in DOMAIN tx[r]
               PROVE  c \in {Role(s), AuditRow(r), Row(proj[r])}
    OBVIOUS
  <2>1. PICK i \in 1..3 : c \in Touches(r, Script(r)[i]) BY <1>5
  <2>2. i = 1 \/ i = 2 \/ i = 3 BY <2>1
  <2> QED BY <1>4, <1>8, <2>1, <2>2
<1>11. db[Role(s)] # Absent /\ tx[r][AuditRow(r)] = "present"
  BY <1>2, <1>6 DEF Kept
<1> QED BY <1>7, <1>9, <1>10, <1>11 DEF ResetTx

(* delete of a project whose row had no role                               *)
LEMMA PlainDeleteHolds ==
  ASSUME Inductive, LocksPlaced, StatementsKept, NEW r \in Requests, AtCommit(r),
         op[r] = "delete", snap[r].role = NoRole
  PROVE
  LET s == Home[proj[r]] IN
  /\ {Schema(s), AuditRow(r)} \subseteq DOMAIN tx[r]
  /\ DOMAIN tx[r] \subseteq {Schema(s), AuditRow(r), Row(proj[r])}
  /\ db[Schema(s)] = "present" /\ tx[r][Schema(s)] = "missing"
  /\ tx[r][AuditRow(r)] = "present"
<1> DEFINE s == Home[proj[r]]
<1>1. pc[r] = "sql" BY DEF AtCommit
<1>2. RoleName(r) = s /\ snap[r].schema = s BY <1>1, AtHome DEF Inductive
<1>3. Script(r) = DeleteScript(snap[r].role) BY Scripts
<1>4. /\ Len(Script(r)) = 3
      /\ Script(r)[1] = "DropSchema" /\ Script(r)[2] = "DeleteProject"
      /\ Script(r)[3] = "Audit"
  BY <1>3, DeleteStatements
<1>5. /\ \A i \in 1..3 : Kept(r, Script(r)[i])
      /\ \A c \in DOMAIN tx[r] : \E i \in 1..3 : c \in Touches(r, Script(r)[i])
  BY <1>4, AllKept DEF Inductive
<1>6. Kept(r, "DropSchema") /\ Kept(r, "Audit") BY <1>4, <1>5
<1>7. /\ Touches(r, "DropSchema") = {Schema(s)}
      /\ Touches(r, "DeleteProject") = {Row(proj[r])}
      /\ Touches(r, "Audit") = {AuditRow(r)}
  BY <1>2 DEF Touches
<1>8. {Schema(s), AuditRow(r)} \subseteq DOMAIN tx[r] BY <1>6, <1>7 DEF Kept
<1>9. DOMAIN tx[r] \subseteq {Schema(s), AuditRow(r), Row(proj[r])}
  <2> SUFFICES ASSUME NEW c \in DOMAIN tx[r]
               PROVE  c \in {Schema(s), AuditRow(r), Row(proj[r])}
    OBVIOUS
  <2>1. PICK i \in 1..3 : c \in Touches(r, Script(r)[i]) BY <1>5
  <2>2. i = 1 \/ i = 2 \/ i = 3 BY <2>1
  <2> QED BY <1>4, <1>7, <2>1, <2>2
<1>10. /\ db[Schema(s)] = "present" /\ tx[r][Schema(s)] = "missing"
       /\ tx[r][AuditRow(r)] = "present"
  BY <1>2, <1>6 DEF Kept
<1> QED BY <1>8, <1>9, <1>10

(* delete of a project with a role                                         *)
LEMMA RoleDeleteHolds ==
  ASSUME Inductive, LocksPlaced, StatementsKept, NEW r \in Requests, AtCommit(r),
         op[r] = "delete", snap[r].role # NoRole
  PROVE
  LET s == Home[proj[r]] IN
  /\ {Schema(s), AuditRow(r)} \subseteq DOMAIN tx[r]
  /\ DOMAIN tx[r] \subseteq {Schema(s), Role(s), AuditRow(r), Row(proj[r])}
  /\ db[Schema(s)] = "present" /\ tx[r][Schema(s)] = "missing"
  /\ IF Role(s) \in DOMAIN tx[r]
     THEN tx[r][Role(s)] = Absent /\ s \notin db[DatabaseAcl]
     ELSE db[Role(s)] = Absent
  /\ tx[r][AuditRow(r)] = "present"
<1> DEFINE s == Home[proj[r]]
<1>1. pc[r] = "sql" BY DEF AtCommit
<1>2. RoleName(r) = s /\ snap[r].schema = s BY <1>1, AtHome DEF Inductive
<1>3. Script(r) = DeleteScript(snap[r].role) BY Scripts
<1>4. /\ Len(Script(r)) = 4
      /\ Script(r)[1] = "DropSchema" /\ Script(r)[2] = "DropRole"
      /\ Script(r)[4] = "Audit"
  BY <1>3, DeleteStatements
<1>5. \A i \in 1..4 : Kept(r, Script(r)[i]) BY <1>4, AllKept DEF Inductive
<1>6. Kept(r, "DropSchema") /\ Kept(r, "DropRole") /\ Kept(r, "Audit")
  BY <1>4, <1>5
<1>7. Touches(r, "DropSchema") = {Schema(s)} /\ Touches(r, "Audit") = {AuditRow(r)}
  BY <1>2 DEF Touches
<1>8. {Schema(s), AuditRow(r)} \subseteq DOMAIN tx[r] BY <1>6, <1>7 DEF Kept
<1>9. DeleteTx(r) BY <1>1 DEF Inductive, TransactionsOnTrack
<1>10. /\ db[Schema(s)] = "present" /\ tx[r][Schema(s)] = "missing"
       /\ tx[r][AuditRow(r)] = "present"
       /\ IF Role(s) \in DOMAIN tx[r]
          THEN tx[r][Role(s)] = Absent /\ s \notin db[DatabaseAcl]
          ELSE db[Role(s)] = Absent
  BY <1>2, <1>6 DEF Kept
<1> QED BY <1>8, <1>9, <1>10 DEF DeleteTx

(* the operator's SQL                                                      *)
LEMMA QueryHolds ==
  ASSUME Inductive, LocksPlaced, StatementsKept, NEW r \in Requests, AtCommit(r),
         op[r] \in Queries
  PROVE
  LET s == Home[proj[r]] IN
  \/ /\ op[r] = "CreateSchema" /\ DOMAIN tx[r] = {Schema(s)}
     /\ tx[r][Schema(s)] = "present"
  \/ /\ op[r] = "DropSchema" /\ DOMAIN tx[r] = {Schema(s)}
     /\ tx[r][Schema(s)] = "missing"
  \/ /\ op[r] = "RevokeConnect" /\ DOMAIN tx[r] = {DatabaseAcl}
     /\ tx[r][DatabaseAcl] = db[DatabaseAcl] \ {s}
<1> DEFINE s == Home[proj[r]]
<1>1. pc[r] = "sql" /\ op[r] # "create" BY DEF AtCommit, Queries
<1>2. RoleName(r) = s /\ snap[r].schema = s BY <1>1, AtHome DEF Inductive
<1>3. Script(r) = QueryScript(op[r]) BY Scripts
<1>4. /\ Len(Script(r)) = 2 /\ Script(r)[1] = "SetLocal" /\ Script(r)[2] = op[r]
  BY <1>3, QueryStatements
<1>5. /\ \A i \in 1..2 : Kept(r, Script(r)[i])
      /\ \A c \in DOMAIN tx[r] : \E i \in 1..2 : c \in Touches(r, Script(r)[i])
  BY <1>4, AllKept DEF Inductive
<1>6. Kept(r, op[r]) BY <1>4, <1>5
<1>7. Touches(r, "SetLocal") = {} BY DEF Touches
<1>8. DOMAIN tx[r] \subseteq Touches(r, op[r])
  <2> SUFFICES ASSUME NEW c \in DOMAIN tx[r] PROVE c \in Touches(r, op[r])
    OBVIOUS
  <2>1. PICK i \in 1..2 : c \in Touches(r, Script(r)[i]) BY <1>5
  <2>2. i = 1 \/ i = 2 BY <2>1
  <2> QED BY <1>4, <1>7, <2>1, <2>2
<1>9. op[r] \in {"CreateSchema", "DropSchema", "RevokeConnect"} BY DEF Queries
<1>10. Touches(r, op[r]) \subseteq DOMAIN tx[r] BY <1>6, <1>9 DEF Kept
<1>11. DOMAIN tx[r] = Touches(r, op[r]) BY <1>8, <1>10
<1>12. CASE op[r] \in {"CreateSchema", "DropSchema"}
  <2>1. Touches(r, op[r]) = {Schema(s)} BY <1>2, <1>12 DEF Touches
  <2> QED BY <1>2, <1>6, <1>11, <1>12, <2>1 DEF Kept
<1>13. CASE op[r] = "RevokeConnect"
  <2>1. Touches(r, op[r]) = {DatabaseAcl} BY <1>13 DEF Touches
  <2> QED BY <1>2, <1>6, <1>11, <1>13, <2>1 DEF Kept
<1> QED BY <1>9, <1>12, <1>13

-----------------------------------------------------------------------------
(* Locks and statements stay where they are                                *)

(* Only a delete of a project with a role drops one, after the schema.     *)
LEMMA DropRoleRan ==
  ASSUME TypeOK, Located, NEW r \in Requests, pc[r] = "sql",
         NEW i \in Ran(r), Script(r)[i] = "DropRole"
  PROVE  /\ op[r] = "delete" /\ snap[r].role # NoRole
         /\ 1 \in Ran(r) /\ Script(r)[1] = "DropSchema"
<1>1. op[r] \in Handlers \union Queries BY DEF Located
<1>2. i \in 1..Len(Script(r)) /\ i < at[r] BY DEF Ran
<1>3. CASE op[r] = "create"
  <2>1. Script(r) = CreateScript BY <1>3, Scripts
  <2>2. i \in 1..7
    <3>1. Len(Script(r)) = 7 BY <2>1, CreateStatements
    <3> QED BY <1>2, <3>1
  <2> QED BY <2>1, <2>2, CreateStatements
<1>4. CASE op[r] = "reset"
  <2>1. Script(r) = ResetScript(snap[r].role) BY <1>4, Scripts
  <2>2. CASE snap[r].role = NoRole
    <3>1. i \in 1..6
      <4>1. Len(Script(r)) = 6 BY <2>1, <2>2, ResetStatements
      <4> QED BY <1>2, <4>1
    <3> QED BY <2>1, <2>2, <3>1, ResetStatements
  <2>3. CASE snap[r].role # NoRole
    <3>1. i \in 1..3
      <4>1. Len(Script(r)) = 3 BY <2>1, <2>3, ResetStatements
      <4> QED BY <1>2, <4>1
    <3> QED BY <2>1, <2>3, <3>1, ResetStatements
  <2> QED BY <2>2, <2>3
<1>5. CASE op[r] = "delete"
  <2>1. Script(r) = DeleteScript(snap[r].role) BY <1>5, Scripts
  <2>2. CASE snap[r].role = NoRole
    <3>1. i \in 1..3
      <4>1. Len(Script(r)) = 3 BY <2>1, <2>2, DeleteStatements
      <4> QED BY <1>2, <4>1
    <3> QED BY <2>1, <2>2, <3>1, DeleteStatements
  <2>3. CASE snap[r].role # NoRole
    <3>1. Len(Script(r)) = 4 /\ Script(r)[1] = "DropSchema"
      BY <2>1, <2>3, DeleteStatements
    <3>2. i \in 1..4 BY <1>2, <3>1
    <3>3. i # 1 BY <3>1
    <3>4. 1 < i BY <3>2, <3>3
    <3>5. at[r] \in Nat BY DEF TypeOK
    <3>6. 1 \in Ran(r) BY <1>2, <3>1, <3>2, <3>4, <3>5 DEF Ran
    <3> QED BY <1>5, <2>3, <3>1, <3>6
  <2> QED BY <2>2, <2>3
<1>6. CASE op[r] \in Queries
  <2>1. Script(r) = QueryScript(op[r]) BY <1>6, Scripts
  <2>2. i \in 1..2
    <3>1. Len(Script(r)) = 2 BY <2>1, QueryStatements
    <3> QED BY <1>2, <3>1
  <2>3. Script(r)[i] \in {"SetLocal", op[r]} BY <2>1, <2>2, QueryStatements
  <2> QED BY <1>6, <2>3 DEF Queries
<1>7. CASE op[r] = "info"
  BY <1>7 DEF Located
<1> QED BY <1>1, <1>3, <1>4, <1>5, <1>6, <1>7 DEF Handlers

(* Whose transaction can commit.                                           *)
LEMMA CommitOps ==
  ASSUME Inductive, NEW r \in Requests, AtCommit(r)
  PROVE  /\ op[r] \in {"reset", "delete"} \union Queries
         /\ op[r] # "create" /\ pc[r] = "sql"
         /\ proj[r] \in Projects /\ proj[r] \in Ids /\ Home[proj[r]] \in Schemas
         /\ snap[r].schema = Home[proj[r]] /\ RoleName(r) = Home[proj[r]]
         /\ snap[r].role \in {NoRole, Home[proj[r]]}
<1>1. pc[r] = "sql" /\ at[r] > Len(Script(r)) BY DEF AtCommit
<1>2. op[r] \in Handlers \union Queries /\ op[r] # "info"
  BY <1>1 DEF Inductive, Located
<1>3. op[r] # "create"
  <2> SUFFICES ASSUME op[r] = "create" PROVE FALSE OBVIOUS
  <2>1. Len(Script(r)) = 7 BY Scripts, CreateStatements
  <2>2. at[r] \in 1..5 BY <1>1 DEF Inductive, CreateStuck
  <2> QED BY <1>1, <2>1, <2>2
<1> QED BY <1>1, <1>2, <1>3, AtHome DEF Inductive, Handlers

(* Which cells a commit changes, and how.                                  *)
LEMMA CommitWrites ==
  ASSUME Inductive, NEW r \in Requests, Committing(r)
  PROVE  /\ AtCommit(r)
         /\ DOMAIN db' = DOMAIN db /\ DOMAIN db = Cells
         /\ DOMAIN tx[r] \subseteq Cells
         /\ \A c : c \in DOMAIN db =>
              db'[c] = IF c \in DOMAIN tx[r] THEN tx[r][c] ELSE db[c]
<1>1. AtCommit(r) BY DEF Committing
<1>2. DOMAIN db = Cells /\ DOMAIN tx[r] \subseteq Cells
  BY DEF Inductive, TypeOK, Typed
<1> QED BY <1>1, <1>2, CommitChanges DEF Inductive

(* A commit cannot undo what DROP ROLE found.                              *)
LEMMA DropRoleSafe ==
  ASSUME Inductive, LocksPlaced, StatementsKept,
         NEW q \in Requests, pc[q] = "sql", op[q] = "delete",
         Kept(q, "DropSchema"), Kept(q, "DropRole"),
         NEW r \in Requests, r # q, Committing(r)
  PROVE  IF Role(RoleName(q)) \in DOMAIN tx[q]
         THEN RoleName(q) \in db'[DatabaseAcl] => RoleName(q) \in db[DatabaseAcl]
         ELSE db'[Role(RoleName(q))] = db[Role(RoleName(q))]
<1> DEFINE s == Home[proj[q]]
           t == Home[proj[r]]
<1>1. RoleName(q) = s /\ snap[q].schema = s /\ s \in Schemas
  BY AtHome DEF Inductive
<1>2. Schema(s) \in DOMAIN tx[q]
  <2>1. Touches(q, "DropSchema") = {Schema(s)} BY <1>1 DEF Touches
  <2> QED BY <2>1 DEF Kept
<1>3. DOMAIN tx[r] \intersect DOMAIN tx[q] = {}
  BY DEF Inductive, LocksExclusive
<1>4. /\ AtCommit(r)
      /\ \A c : c \in Cells =>
           db'[c] = IF c \in DOMAIN tx[r] THEN tx[r][c] ELSE db[c]
  BY CommitWrites
<1>5. /\ Role(s) \in Cells /\ DatabaseAcl \in Cells
      /\ Schema(s) \in Cells
  BY <1>1, CellValues
<1> HIDE DEF s, t
<1>6. CASE op[r] = "reset" /\ snap[r].role = NoRole
  <2>1. /\ {Role(t), DatabaseAcl, Schema(t)} \subseteq DOMAIN tx[r]
        /\ DOMAIN tx[r] \subseteq
             {Role(t), DatabaseAcl, Schema(t), AuditRow(r), Row(proj[r])}
        /\ tx[r][DatabaseAcl] = db[DatabaseAcl] \union {t}
    BY <1>4, <1>6, FirstResetHolds DEF t
  <2>2. s # t BY <1>2, <1>3, <2>1
  <2>3. Role(s) \notin DOMAIN tx[r] BY <2>1, <2>2, CellsDistinct
  <2>4. db'[Role(s)] = db[Role(s)] BY <1>4, <1>5, <2>3
  <2>5. db'[DatabaseAcl] = db[DatabaseAcl] \union {t} BY <1>4, <1>5, <2>1
  <2> QED BY <1>1, <2>2, <2>4, <2>5
<1>7. CASE op[r] = "reset" /\ snap[r].role # NoRole
  <2>1. /\ Role(t) \in DOMAIN tx[r] /\ db[Role(t)] # Absent
        /\ DOMAIN tx[r] \subseteq {Role(t), AuditRow(r), Row(proj[r])}
    BY <1>4, <1>7, LaterResetHolds DEF t
  <2>2. db'[DatabaseAcl] = db[DatabaseAcl]
    BY <1>4, <1>5, <2>1, CellsDistinct
  <2>3. Role(s) \notin DOMAIN tx[q] => db'[Role(s)] = db[Role(s)]
    <3> SUFFICES ASSUME Role(s) \notin DOMAIN tx[q]
                 PROVE  db'[Role(s)] = db[Role(s)]
      OBVIOUS
    <3>1. db[Role(s)] = Absent BY <1>1 DEF Kept
    <3>2. s # t BY <2>1, <3>1
    <3>3. Role(s) \notin DOMAIN tx[r] BY <2>1, <3>2, CellsDistinct
    <3> QED BY <1>4, <1>5, <3>3
  <2> QED BY <1>1, <2>2, <2>3
<1>8. CASE op[r] = "delete"
  <2>1. Schema(t) \in DOMAIN tx[r] /\ DatabaseAcl \notin DOMAIN tx[r]
        /\ \A x : Role(x) \in DOMAIN tx[r] => x = t
    <3>1. /\ Schema(t) \in DOMAIN tx[r]
          /\ DOMAIN tx[r] \subseteq {Schema(t), Role(t), AuditRow(r), Row(proj[r])}
      BY <1>4, <1>8, PlainDeleteHolds, RoleDeleteHolds DEF t
    <3> QED BY <3>1, CellsDistinct
  <2>2. s # t BY <1>2, <1>3, <2>1
  <2>3. db'[Role(s)] = db[Role(s)] BY <1>4, <1>5, <2>1, <2>2
  <2>4. db'[DatabaseAcl] = db[DatabaseAcl] BY <1>4, <1>5, <2>1
  <2> QED BY <1>1, <2>3, <2>4
<1>9. CASE op[r] \in Queries
  <2>1. /\ \A x : Role(x) \notin DOMAIN tx[r]
        /\ DatabaseAcl \in DOMAIN tx[r] =>
             tx[r][DatabaseAcl] \subseteq db[DatabaseAcl]
    BY <1>4, <1>9, QueryHolds, CellsDistinct
  <2>2. db'[Role(s)] = db[Role(s)] BY <1>4, <1>5, <2>1
  <2>3. db'[DatabaseAcl] \subseteq db[DatabaseAcl] BY <1>4, <1>5, <2>1
  <2> QED BY <1>1, <2>2, <2>3
<1> QED BY <1>4, <1>6, <1>7, <1>8, <1>9, CommitOps

LEMMA OthersKept ==
  ASSUME Inductive, LocksPlaced, StatementsKept, [Next]_vars,
         NEW q \in Requests, Same(q), pc[q] = "sql",
         NEW stmt, Kept(q, stmt),
         stmt = "DropRole" => op[q] = "delete" /\ Kept(q, "DropSchema")
  PROVE  Kept(q, stmt)'
<1>1. /\ snap'[q] = snap[q] /\ proj'[q] = proj[q] /\ tx'[q] = tx[q]
      /\ pc'[q] = "sql"
  BY DEF Same
<1>2. DOMAIN tx[q] \subseteq Cells /\ DOMAIN db = Cells
  BY DEF Inductive, TypeOK, Typed
<1>3. CASE UNCHANGED db
  BY <1>1, <1>3, KeptStable
<1>4. ASSUME NEW r \in Requests, AuditReveal(r) PROVE Kept(q, stmt)'
  <2>1. r # q BY <1>4 DEF AuditReveal
  <2>2. \A c : c # AuditRow(r) => db'[c] = db[c]
    BY <1>2, <1>4 DEF AuditReveal
  <2>3. AuditRow(r) \notin Touches(q, stmt)
    BY <2>1, TouchesByKind, CellsDistinct
  <2>4. AuditRow(r) # DatabaseAcl /\ AuditRow(r) # Role(RoleName(q))
    BY CellsDistinct
  <2> QED BY <1>1, <2>2, <2>3, <2>4, KeptStable
<1>5. ASSUME NEW r \in Requests, Committing(r) PROVE Kept(q, stmt)'
  <2>1. r # q
    <3>1. pc'[r] # "sql" BY <1>5 DEF Committing, Inductive, TypeOK
    <3> QED BY <1>1, <3>1
  <2>2. \A c \in DOMAIN tx[q] : db'[c] = db[c]
    <3>1. DOMAIN tx[r] \intersect DOMAIN tx[q] = {}
      BY <2>1 DEF Inductive, LocksExclusive
    <3> QED BY <1>2, <1>5, <3>1, CommitWrites
  <2>3. stmt = "DropRole" =>
          IF Role(RoleName(q)) \in DOMAIN tx[q]
          THEN RoleName(q) \in db'[DatabaseAcl] => RoleName(q) \in db[DatabaseAcl]
          ELSE db'[Role(RoleName(q))] = db[Role(RoleName(q))]
    BY <1>5, <2>1, DropRoleSafe
  <2> QED BY <1>1, <2>2, <2>3, KeptStable
<1> QED BY <1>3, <1>4, <1>5, DbChanges DEF Inductive

(* The request that acts.                                                  *)
LEMMA RanGrows ==
  ASSUME Inductive, LocksPlaced, NEW r \in Requests, Execute(r)
  PROVE  Script(r)' = Script(r) /\ Ran(r)' = Ran(r) \union {at[r]}
<1>1. /\ UNCHANGED <<op, snap>> /\ at'[r] = at[r] + 1 /\ at[r] \in Nat
  BY ExecuteAdds DEF Inductive
<1>2. Script(r)' = Script(r) BY <1>1 DEF Script
<1>3. at[r] \in 1..Len(Script(r)) BY ExecutesFresh DEF Inductive
<1> QED BY <1>1, <1>2, <1>3 DEF Ran

LEMMA ExecutePlaced ==
  ASSUME Inductive, LocksPlaced, StatementsKept, NEW r \in Requests, Execute(r)
  PROVE  /\ \A c \in DOMAIN tx'[r] :
              \E i \in Ran(r)' : c \in Touches(r, Script(r)[i])'
         /\ \A i \in Ran(r)' : Kept(r, Script(r)[i])'
<1> DEFINE stmt == Statement(r)
           W == Writes(r, stmt)
<1>1. /\ tx'[r] = Add(tx[r], W) /\ pc[r] = "sql"
      /\ UNCHANGED <<db, op, proj, snap>>
  BY ExecuteAdds DEF Inductive
<1>2. Script(r)' = Script(r) /\ Ran(r)' = Ran(r) \union {at[r]} BY RanGrows
<1>4. DOMAIN W \subseteq Touches(r, stmt) BY WritesTouch
<1>5. \A i \in Ran(r) : Touches(r, stmt) \intersect Touches(r, Script(r)[i]) = {}
  BY ExecutesFresh DEF Inductive
<1>6. stmt = Script(r)[at[r]] BY DEF Statement
<1> HIDE DEF stmt, W
<1>7. /\ DOMAIN tx'[r] = DOMAIN tx[r] \union DOMAIN W
      /\ \A c : c \in DOMAIN tx[r] /\ c \notin DOMAIN W => tx'[r][c] = tx[r][c]
  <2>1. tx'[r] = Add(tx[r], W) BY <1>1
  <2>2. DOMAIN tx'[r] = DOMAIN tx[r] \union DOMAIN W BY ONLY <2>1, GrownTx
  <2>3. ASSUME NEW c, c \in DOMAIN tx[r], c \notin DOMAIN W
        PROVE  tx'[r][c] = tx[r][c]
    BY ONLY <2>1, <2>3, Grown
  <2> QED BY ONLY <2>2, <2>3
<1>8. ASSUME NEW c \in DOMAIN tx'[r]
      PROVE  \E i \in Ran(r)' : c \in Touches(r, Script(r)[i])'
  <2>1. CASE c \in DOMAIN tx[r]
    <3>1. PICK i \in Ran(r) : c \in Touches(r, Script(r)[i])
      BY <1>1, <2>1 DEF LocksPlaced
    <3>2. i \in Ran(r)' BY <1>2
    <3>3. Touches(r, Script(r)[i])' = Touches(r, Script(r)[i])
      BY <1>1, <1>2 DEF Touches, RoleName
    <3> QED BY <3>1, <3>2, <3>3
  <2>2. CASE c \in DOMAIN W
    <3>1. c \in Touches(r, Script(r)[at[r]]) BY <1>4, <1>6, <2>2
    <3>2. at[r] \in Ran(r)' BY <1>2
    <3>3. ASSUME NEW j, j = at[r] PROVE c \in Touches(r, Script(r)[j])'
      <4>1. Touches(r, Script(r)[j])' = Touches(r, Script(r)[j])
        BY <1>1, <1>2 DEF Touches, RoleName
      <4> QED BY <3>1, <3>3, <4>1
    <3> QED BY <3>2, <3>3
  <2> QED BY <1>7, <2>1, <2>2
<1>9. ASSUME NEW i \in Ran(r)', NEW x, x = Script(r)[i]
      PROVE  Kept(r, x)'
  <2>1. CASE i \in Ran(r)
    <3>1. Kept(r, x) BY <1>1, <1>9, <2>1 DEF StatementsKept
    <3>2. Touches(r, stmt) \intersect Touches(r, x) = {} BY <1>5, <1>9, <2>1
    <3>3. \A c \in Touches(r, x) :
            /\ c \in DOMAIN tx'[r] <=> c \in DOMAIN tx[r]
            /\ c \in DOMAIN tx[r] => tx'[r][c] = tx[r][c] /\ db'[c] = db[c]
      BY <1>1, <1>4, <1>7, <3>2
    <3> QED BY <1>1, <3>1, <3>3, KeptStable
  <2>2. CASE i = at[r]
    <3>1. x = Statement(r) BY <1>9, <2>2 DEF Statement
    <3> QED BY <3>1, ExecutedKept DEF Inductive
  <2> QED BY <1>2, <2>1, <2>2
<1>10. ASSUME NEW i \in Ran(r)' PROVE Kept(r, Script(r)[i])'
  <2>1. Script(r)'[i] = Script(r)[i] BY <1>2
  <2> QED BY <1>9, <2>1
<1> QED BY <1>8, <1>10

LEMMA StepHeld ==
  ASSUME Inductive, LocksPlaced, StatementsKept, [Next]_vars
  PROVE  LocksPlaced' /\ StatementsKept'
<1>1. CASE UNCHANGED vars
  <2>1. \A r, x : Touches(r, x)' = Touches(r, x) /\ Kept(r, x)' = Kept(r, x)
    BY <1>1 DEF vars, Touches, Kept, RoleName
  <2>2. \A r : Script(r)' = Script(r) /\ Ran(r)' = Ran(r)
    BY <1>1 DEF vars, Script, Ran
  <2> QED BY <1>1, <2>1, <2>2
          DEF vars, LocksPlaced, StatementsKept, Touches, Kept, RoleName
<1>2. ASSUME NEW r \in Requests, Acts(r)
      PROVE  LocksPlaced' /\ StatementsKept'
  <2>1. ASSUME NEW q \in Requests, q # r, pc'[q] = "sql"
        PROVE  /\ \A c \in DOMAIN tx'[q] :
                    \E i \in Ran(q)' : c \in Touches(q, Script(q)[i])'
               /\ \A i \in Ran(q)' : Kept(q, Script(q)[i])'
    <3>1. Same(q) BY <1>2, <2>1, OneMoves DEF Inductive
    <3>2. pc[q] = "sql" /\ tx'[q] = tx[q] BY <2>1, <3>1 DEF Same
    <3>3. Script(q)' = Script(q) /\ Ran(q)' = Ran(q)
      BY <3>1 DEF Same, Script, Ran
    <3>4. ASSUME NEW c \in DOMAIN tx'[q]
          PROVE  \E i \in Ran(q)' : c \in Touches(q, Script(q)[i])'
      <4>1. PICK i \in Ran(q) : c \in Touches(q, Script(q)[i])
        BY <3>2 DEF LocksPlaced
      <4>2. Touches(q, Script(q)[i])' = Touches(q, Script(q)[i])
        BY <3>1, <3>3 DEF Touches, RoleName, Same
      <4> QED BY <3>3, <4>1, <4>2
    <3>5. ASSUME NEW i \in Ran(q), NEW x, x = Script(q)[i] PROVE Kept(q, x)'
      <4>1. Kept(q, x) BY <3>2, <3>5 DEF StatementsKept
      <4>2. x = "DropRole" => op[q] = "delete" /\ Kept(q, "DropSchema")
        <5> SUFFICES ASSUME x = "DropRole"
                     PROVE  op[q] = "delete" /\ Kept(q, "DropSchema")
          OBVIOUS
        <5>1. op[q] = "delete" /\ 1 \in Ran(q) /\ Script(q)[1] = "DropSchema"
          BY <3>2, <3>5, DropRoleRan DEF Inductive
        <5> QED BY <3>2, <5>1 DEF StatementsKept
      <4> QED BY <3>1, <3>2, <4>1, <4>2, OthersKept
    <3>6. ASSUME NEW i \in Ran(q)' PROVE Kept(q, Script(q)[i])'
      <4>1. Script(q)'[i] = Script(q)[i] /\ i \in Ran(q) BY <3>3
      <4> QED BY <3>5, <4>1
    <3> QED BY <3>4, <3>6
  <2>2. ASSUME pc'[r] = "sql"
        PROVE  /\ \A c \in DOMAIN tx'[r] :
                    \E i \in Ran(r)' : c \in Touches(r, Script(r)[i])'
               /\ \A i \in Ran(r)' : Kept(r, Script(r)[i])'
    <3>1. CASE Execute(r) BY <3>1, ExecutePlaced
    <3>2. CASE Looked(r)
      <4>1. tx'[r] = tx[r] /\ at'[r] = at[r] /\ pc[r] \in {"probe", "read"}
        BY <3>2 DEF Looked
      <4>2. tx[r] = Empty /\ at[r] = 1
        BY <4>1 DEF Inductive, TypeOK, Located
      <4>3. DOMAIN tx'[r] = {} BY <4>1, <4>2, OnlyFacts
      <4>4. Ran(r)' = {} BY <4>1, <4>2 DEF Ran
      <4> QED BY <4>3, <4>4
    <3>3. ~Arrived(r) BY <2>2 DEF Arrived
    <3>4. ~Ended(r) BY <2>2 DEF Ended
    <3> QED BY <1>2, <3>1, <3>2, <3>3, <3>4, HowItMoves DEF Inductive
  <2> QED BY <2>1, <2>2 DEF LocksPlaced, StatementsKept
<1> QED BY <1>1, <1>2 DEF Next, Acts, Rest

-----------------------------------------------------------------------------
(* Waiting                                                                 *)

Held == Inductive /\ LocksPlaced /\ StatementsKept

(* How far a handler has come with its locks: 0 when it holds none yet, 5  *)
(* when it will never again wait for one.                                  *)
Rank(r) ==
  IF ~InStatement(r) THEN 5
  ELSE LET stmt == Statement(r) IN
       CASE stmt = "GrantConnect" -> 1
         [] stmt = "GrantSchema" -> 2
         [] stmt = "DropRole" -> 3
         [] \/ stmt \in {"GrantObjects", "InsertProject", "UpdateProject",
                         "DeleteProject"}
            \/ stmt = "CreateSchema" /\ op[r] = "create" -> 4
         [] stmt = "Audit" -> 5
         [] OTHER -> 0

LEMMA RankByStatement ==
  ASSUME NEW r
  PROVE  /\ Rank(r) \in 0..5
         /\ ~InStatement(r) => Rank(r) = 5
         /\ InStatement(r) =>
              /\ Statement(r) = "GrantConnect" => Rank(r) = 1
              /\ Statement(r) = "GrantSchema" => Rank(r) = 2
              /\ Statement(r) = "DropRole" => Rank(r) = 3
              /\ Statement(r) \in {"GrantObjects", "InsertProject",
                                   "UpdateProject", "DeleteProject"} => Rank(r) = 4
              /\ Statement(r) = "CreateSchema" /\ op[r] = "create" => Rank(r) = 4
              /\ Statement(r) = "Audit" => Rank(r) = 5
              /\ Statement(r) \in {"CreateRole", "AlterRole", "DropSchema",
                                   "SetLocal", "RevokeConnect"} => Rank(r) = 0
              /\ Statement(r) = "CreateSchema" /\ op[r] # "create" => Rank(r) = 0
<1>1. CASE ~InStatement(r) BY <1>1 DEF Rank
<1>2. CASE InStatement(r) /\ Statement(r) = "GrantConnect" BY <1>2 DEF Rank
<1>3. CASE InStatement(r) /\ Statement(r) = "GrantSchema" BY <1>3 DEF Rank
<1>4. CASE InStatement(r) /\ Statement(r) = "DropRole" BY <1>4 DEF Rank
<1>5. CASE InStatement(r) /\ Statement(r) \in {"GrantObjects", "InsertProject",
                                               "UpdateProject", "DeleteProject"}
  BY <1>5 DEF Rank
<1>6. CASE InStatement(r) /\ Statement(r) = "CreateSchema" BY <1>6 DEF Rank
<1>7. CASE InStatement(r) /\ Statement(r) = "Audit" BY <1>7 DEF Rank
<1>8. CASE InStatement(r) /\ Statement(r) \notin
             {"GrantConnect", "GrantSchema", "DropRole", "GrantObjects",
              "InsertProject", "UpdateProject", "DeleteProject",
              "CreateSchema", "Audit"}
  BY <1>8 DEF Rank
<1> QED BY <1>1, <1>2, <1>3, <1>4, <1>5, <1>6, <1>7, <1>8

(* What a handler may still wait for, given what it has executed.          *)
LEMMA HolderRank ==
  ASSUME Held, NEW q \in Requests, pc[q] = "sql", NEW i \in Ran(q)
  PROVE  /\ KindOf(Script(q)[i]) = "role" => Rank(q) >= 1
         /\ Script(q)[i] = "AlterRole" => Rank(q) >= 4
         /\ KindOf(Script(q)[i]) = "acl" => Rank(q) >= 2
         /\ KindOf(Script(q)[i]) = "schema" => Rank(q) >= 3
         /\ KindOf(Script(q)[i]) = "row" => Rank(q) = 5
<1> SUFFICES ASSUME InStatement(q)
             PROVE  /\ KindOf(Script(q)[i]) = "role" => Rank(q) >= 1
                    /\ Script(q)[i] = "AlterRole" => Rank(q) >= 4
                    /\ KindOf(Script(q)[i]) = "acl" => Rank(q) >= 2
                    /\ KindOf(Script(q)[i]) = "schema" => Rank(q) >= 3
                    /\ KindOf(Script(q)[i]) = "row" => Rank(q) = 5
  BY RankByStatement
<1>1. /\ i \in 1..Len(Script(q)) /\ i < at[q] /\ at[q] \in Nat
      /\ at[q] <= Len(Script(q))
  BY DEF Ran, InStatement, Held, Inductive, TypeOK
<1>2. op[q] \in Handlers \union Queries /\ op[q] # "info"
  BY DEF Held, Inductive, Located
<1>3. Statement(q) = Script(q)[at[q]] BY DEF Statement
<1> USE DEF KindOf
<1>4. CASE op[q] = "create"
  <2>1. Script(q) = CreateScript BY <1>4, Scripts
  <2>2. Len(Script(q)) = 7 BY <2>1, CreateStatements
  <2>3. at[q] \in 1..5 BY <1>4 DEF Held, Inductive, CreateStuck
  <2>4. CASE i = 1
    <3>1. at[q] \in 2..5 BY <1>1, <2>3, <2>4
    <3> QED BY <1>3, <1>4, <2>1, <2>4, <3>1, CreateStatements, RankByStatement
  <2>5. CASE i = 2
    <3>1. at[q] \in 3..5 BY <1>1, <2>3, <2>5
    <3> QED BY <1>3, <1>4, <2>1, <2>5, <3>1, CreateStatements, RankByStatement
  <2>6. CASE i \in 3..4
    <3>1. at[q] \in 4..5 BY <1>1, <2>3, <2>6
    <3> QED BY <1>3, <1>4, <2>1, <2>6, <3>1, CreateStatements, RankByStatement
  <2> QED BY <1>1, <2>3, <2>4, <2>5, <2>6
<1>5. CASE op[q] = "reset" /\ snap[q].role = NoRole
  <2>1. Script(q) = ResetScript(snap[q].role) BY <1>5, Scripts
  <2>2. Len(Script(q)) = 6 BY <1>5, <2>1, ResetStatements
  <2>3. CASE i = 1
    <3>1. at[q] \in 2..6 BY <1>1, <2>2, <2>3
    <3> QED BY <1>3, <1>5, <2>1, <2>3, <3>1, ResetStatements, RankByStatement
  <2>4. CASE i = 2
    <3>1. at[q] \in 3..6 BY <1>1, <2>2, <2>4
    <3> QED BY <1>3, <1>5, <2>1, <2>4, <3>1, ResetStatements, RankByStatement
  <2>5. CASE i \in 3..4
    <3>1. at[q] \in 4..6 BY <1>1, <2>2, <2>5
    <3> QED BY <1>3, <1>5, <2>1, <2>5, <3>1, ResetStatements, RankByStatement
  <2>6. CASE i = 5
    <3>1. at[q] = 6 BY <1>1, <2>2, <2>6
    <3> QED BY <1>3, <1>5, <2>1, <2>6, <3>1, ResetStatements, RankByStatement
  <2> QED BY <1>1, <2>2, <2>3, <2>4, <2>5, <2>6
<1>6. CASE op[q] = "reset" /\ snap[q].role # NoRole
  <2>1. Script(q) = ResetScript(snap[q].role) BY <1>6, Scripts
  <2>2. Len(Script(q)) = 3 BY <1>6, <2>1, ResetStatements
  <2>3. CASE i = 1
    <3>1. at[q] \in 2..3 BY <1>1, <2>2, <2>3
    <3> QED BY <1>3, <1>6, <2>1, <2>3, <3>1, ResetStatements, RankByStatement
  <2>4. CASE i = 2
    <3>1. at[q] = 3 BY <1>1, <2>2, <2>4
    <3> QED BY <1>3, <1>6, <2>1, <2>4, <3>1, ResetStatements, RankByStatement
  <2> QED BY <1>1, <2>2, <2>3, <2>4
<1>7. CASE op[q] = "delete" /\ snap[q].role = NoRole
  <2>1. Script(q) = DeleteScript(snap[q].role) BY <1>7, Scripts
  <2>2. Len(Script(q)) = 3 BY <1>7, <2>1, DeleteStatements
  <2>3. CASE i = 1
    <3>1. at[q] \in 2..3 BY <1>1, <2>2, <2>3
    <3> QED BY <1>3, <1>7, <2>1, <2>3, <3>1, DeleteStatements, RankByStatement
  <2>4. CASE i = 2
    <3>1. at[q] = 3 BY <1>1, <2>2, <2>4
    <3> QED BY <1>3, <1>7, <2>1, <2>4, <3>1, DeleteStatements, RankByStatement
  <2> QED BY <1>1, <2>2, <2>3, <2>4
<1>8. CASE op[q] = "delete" /\ snap[q].role # NoRole
  <2>1. Script(q) = DeleteScript(snap[q].role) BY <1>8, Scripts
  <2>2. Len(Script(q)) = 4 BY <1>8, <2>1, DeleteStatements
  <2>3. CASE i = 1
    <3>1. at[q] \in 2..4 BY <1>1, <2>2, <2>3
    <3> QED BY <1>3, <1>8, <2>1, <2>3, <3>1, DeleteStatements, RankByStatement
  <2>4. CASE i = 2
    <3>1. at[q] \in 3..4 BY <1>1, <2>2, <2>4
    <3> QED BY <1>3, <1>8, <2>1, <2>4, <3>1, DeleteStatements, RankByStatement
  <2>5. CASE i = 3
    <3>1. at[q] = 4 BY <1>1, <2>2, <2>5
    <3> QED BY <1>3, <1>8, <2>1, <2>5, <3>1, DeleteStatements, RankByStatement
  <2> QED BY <1>1, <2>2, <2>3, <2>4, <2>5
<1>9. CASE op[q] \in Queries
  <2>1. Script(q) = QueryScript(op[q]) BY <1>9, Scripts
  <2>2. Len(Script(q)) = 2 BY <2>1, QueryStatements
  <2>3. i = 1 BY <1>1, <2>2
  <2>4. Script(q)[i] = "SetLocal" BY <2>1, <2>3, QueryStatements
  <2> QED BY <2>4
<1> QED BY <1>2, <1>4, <1>5, <1>6, <1>7, <1>8, <1>9 DEF Handlers

(* What a handler waits for comes before what it could wait for next.      *)
LEMMA WaiterRank ==
  ASSUME Held, NEW r \in Requests, InStatement(r), Accepted(r, Statement(r))
  PROVE  /\ KindOf(Statement(r)) = "role" =>
              Rank(r) = IF Statement(r) = "DropRole" THEN 3 ELSE 0
         /\ KindOf(Statement(r)) = "acl" => Rank(r) <= 1
         /\ KindOf(Statement(r)) = "schema" => Rank(r) <= 2
         /\ KindOf(Statement(r)) = "row" => Rank(r) = 4
<1> USE DEF KindOf
<1>1. ~(op[r] = "create" /\ Statement(r) = "CreateSchema")
  <2> SUFFICES ASSUME op[r] = "create", Statement(r) = "CreateSchema"
               PROVE  FALSE
    OBVIOUS
  <2>1. Script(r) = CreateScript BY Scripts
  <2>2. /\ at[r] \in 1..5
        /\ at[r] > 3 => /\ Schema(snap[r].schema) \in DOMAIN tx[r]
                        /\ tx[r][Schema(snap[r].schema)] = "present"
    BY DEF InStatement, Held, Inductive, CreateStuck
  <2>3. at[r] = 5 BY <2>1, <2>2, CreateStatements DEF Statement
  <2>4. Visible(r, Schema(snap[r].schema)) = "missing" BY DEF Accepted
  <2> QED BY <2>2, <2>3, <2>4 DEF Visible
<1> QED BY <1>1, RankByStatement

(* Before DROP ROLE the schema has been dropped.                           *)
LEMMA DropRoleNext ==
  ASSUME Held, NEW r \in Requests, InStatement(r), Statement(r) = "DropRole"
  PROVE  op[r] = "delete" /\ 1 \in Ran(r) /\ Script(r)[1] = "DropSchema"
<1>1. /\ pc[r] = "sql" /\ at[r] <= Len(Script(r)) /\ at[r] \in Nat /\ at[r] >= 1
      /\ op[r] \in Handlers \union Queries /\ op[r] # "info"
  BY DEF InStatement, Held, Inductive, TypeOK, Located, TransactionsOnTrack
<1>2. op[r] # "create"
  <2> SUFFICES ASSUME op[r] = "create" PROVE FALSE OBVIOUS
  <2>1. Script(r) = CreateScript BY Scripts
  <2>2. at[r] \in 1..5 BY <1>1 DEF Held, Inductive, CreateStuck
  <2> QED BY <2>1, <2>2, CreateStatements DEF Statement
<1>3. op[r] # "reset" BY <1>1, ResetPlaces
<1>4. op[r] \notin Queries
  <2> SUFFICES ASSUME op[r] \in Queries PROVE FALSE OBVIOUS
  <2>1. Script(r) = QueryScript(op[r]) BY Scripts
  <2>2. at[r] \in 1..2
    <3>1. Len(Script(r)) = 2 BY <2>1, QueryStatements
    <3> QED BY <1>1, <3>1
  <2>3. Statement(r) \in {"SetLocal", op[r]}
    BY <2>1, <2>2, QueryStatements DEF Statement
  <2> QED BY <2>3 DEF Queries
<1>5. op[r] = "delete" BY <1>1, <1>2, <1>3, <1>4 DEF Handlers
<1>6. Script(r) = DeleteScript(snap[r].role) BY <1>5, Scripts
<1>7. Len(Script(r)) \in {3, 4} /\ Script(r)[1] = "DropSchema"
  BY <1>6, DeleteStatements
<1>8. at[r] # 1 BY <1>7 DEF Statement
<1> QED BY <1>1, <1>5, <1>7, <1>8 DEF Ran

LEMMA WaitingRises ==
  ASSUME Held, NEW r \in Requests, NEW q \in Requests, WaitsFor(r, q)
  PROVE  Rank(q) > Rank(r)
<1> DEFINE stmt == Statement(r)
<1>1. /\ InStatement(r) /\ Accepted(r, stmt) /\ q # r BY DEF WaitsFor
<1>2. PICK c \in DOMAIN Writes(r, stmt) : c \in DOMAIN tx[q] BY DEF WaitsFor
<1>3. c \in Touches(r, stmt) BY <1>2, WritesTouch
<1>4. pc[q] = "sql"
  BY <1>2, OnlyFacts DEF Held, Inductive, TypeOK
<1>5. PICK i \in Ran(q) : c \in Touches(q, Script(q)[i])
  BY <1>2, <1>4 DEF Held, LocksPlaced
<1> DEFINE done == Script(q)[i]
<1>6. c \in Touches(q, done) BY <1>5
<1> HIDE DEF done
<1>7. Rank(r) \in 0..5 /\ Rank(q) \in 0..5 BY RankByStatement
<1>8. CASE KindOf(stmt) = "role"
  <2>1. c = Role(RoleName(r)) BY <1>3, <1>8, TouchesByKind
  <2>2. KindOf(done) = "role" BY <1>6, <2>1, KindOfCell
  <2>3. CASE stmt # "DropRole"
    BY <1>1, <1>4, <1>7, <1>8, <2>2, <2>3, HolderRank, WaiterRank DEF done
  <2>4. CASE stmt = "DropRole"
    <3>1. c \notin DOMAIN tx[r]
      BY <1>1, <1>2 DEF Held, Inductive, LocksExclusive
    <3>2. Visible(r, c) # Absent
      <4>1. DOMAIN Writes(r, stmt) # {} BY <1>2
      <4> QED BY <2>1, <2>4, <4>1, OnlyFacts DEF Writes
    <3>3. db[c] # Absent BY <3>1, <3>2 DEF Visible
    <3>4. Kept(q, done) BY <1>4 DEF Held, StatementsKept, done
    <3>5. c = Role(RoleName(q)) BY <1>6, <2>2, TouchesByKind
    <3>6. done # "CreateRole" BY <3>3, <3>4, <3>5 DEF Kept
    <3>7. done # "DropRole"
      <4> SUFFICES ASSUME done = "DropRole" PROVE FALSE OBVIOUS
      <4>1. Kept(q, "DropSchema")
        <5>1. 1 \in Ran(q) /\ Script(q)[1] = "DropSchema"
          BY <1>4, DropRoleRan DEF Held, Inductive, done
        <5> QED BY <1>4, <5>1 DEF Held, StatementsKept
      <4>2. Schema(snap[q].schema) \in DOMAIN tx[q] BY <4>1 DEF Kept, Touches
      <4>3. op[r] = "delete" /\ 1 \in Ran(r) /\ Script(r)[1] = "DropSchema"
        BY <1>1, <2>4, DropRoleNext DEF Held
      <4>4. Kept(r, "DropSchema")
        BY <1>1, <4>3 DEF Held, StatementsKept, InStatement
      <4>5. Schema(snap[r].schema) \in DOMAIN tx[r] BY <4>4 DEF Kept, Touches
      <4>6. op[q] = "delete" BY <1>4, DropRoleRan DEF Held, Inductive, done
      <4>7. snap[q].schema = RoleName(q) /\ snap[r].schema = RoleName(r)
        BY <1>1, <1>4, <4>3, <4>6, AtHome DEF Held, Inductive, InStatement
      <4>8. RoleName(q) = RoleName(r) BY <2>1, <3>5, CellsDistinct
      <4> QED BY <1>1, <4>2, <4>5, <4>7, <4>8 DEF Held, Inductive, LocksExclusive
    <3>8. done = "AlterRole" BY <2>2, <3>6, <3>7 DEF KindOf
    <3> QED BY <1>1, <1>4, <1>7, <1>8, <2>4, <3>8, HolderRank, WaiterRank DEF done
  <2> QED BY <2>3, <2>4
<1>9. CASE KindOf(stmt) = "acl"
  <2>1. c = DatabaseAcl BY <1>3, <1>9, TouchesByKind
  <2>2. KindOf(done) = "acl" BY <1>6, <2>1, KindOfCell
  <2> QED BY <1>1, <1>4, <1>7, <1>9, <2>2, HolderRank, WaiterRank DEF done
<1>10. CASE KindOf(stmt) = "schema"
  <2>1. c = Schema(snap[r].schema) BY <1>3, <1>10, TouchesByKind
  <2>2. KindOf(done) = "schema" BY <1>6, <2>1, KindOfCell
  <2> QED BY <1>1, <1>4, <1>7, <1>10, <2>2, HolderRank, WaiterRank DEF done
<1>11. CASE KindOf(stmt) = "row"
  <2>1. c = Row(proj[r]) BY <1>3, <1>11, TouchesByKind
  <2>2. KindOf(done) = "row" BY <1>6, <2>1, KindOfCell
  <2> QED BY <1>1, <1>4, <1>7, <1>11, <2>2, HolderRank, WaiterRank DEF done
<1>12. CASE KindOf(stmt) = "audit"
  <2>1. c = AuditRow(r) BY <1>3, <1>12, TouchesByKind
  <2> QED BY <1>1, <1>6, <2>1, KindOfCell
<1>13. CASE KindOf(stmt) = "none"
  BY <1>3, <1>13, TouchesByKind
<1> QED BY <1>8, <1>9, <1>10, <1>11, <1>12, <1>13, TouchesByKind

LEMMA RanksEnd == Held => NoWaitCycle
<1> SUFFICES ASSUME Held, NEW cycle \in (SUBSET Requests) \ {{}},
                    \A r \in cycle : \E q \in cycle : WaitsFor(r, q)
             PROVE  FALSE
  BY DEF NoWaitCycle
<1>1. ASSUME NEW r \in cycle
      PROVE  /\ Rank(r) \in 0..5
             /\ \E q \in cycle : Rank(q) \in 0..5 /\ Rank(q) > Rank(r)
  <2>1. PICK q \in cycle : WaitsFor(r, q) OBVIOUS
  <2>2. Rank(q) > Rank(r) BY <2>1, WaitingRises
  <2> QED BY <2>2, RankByStatement
<1>2. PICK r0 : r0 \in cycle
  <2>1. cycle # {} OBVIOUS
  <2> QED BY ONLY <2>1
<1>3. PICK r1 \in cycle : Rank(r1) \in 0..5 /\ Rank(r1) > Rank(r0) BY <1>1, <1>2
<1>4. PICK r2 \in cycle : Rank(r2) \in 0..5 /\ Rank(r2) > Rank(r1) BY <1>1, <1>3
<1>5. PICK r3 \in cycle : Rank(r3) \in 0..5 /\ Rank(r3) > Rank(r2) BY <1>1, <1>4
<1>6. PICK r4 \in cycle : Rank(r4) \in 0..5 /\ Rank(r4) > Rank(r3) BY <1>1, <1>5
<1>7. PICK r5 \in cycle : Rank(r5) \in 0..5 /\ Rank(r5) > Rank(r4) BY <1>1, <1>6
<1>8. PICK r6 \in cycle : Rank(r6) \in 0..5 /\ Rank(r6) > Rank(r5) BY <1>1, <1>7
<1>9. Rank(r0) \in 0..5 BY <1>1, <1>2
<1> QED BY ONLY <1>3, <1>4, <1>5, <1>6, <1>7, <1>8, <1>9

LEMMA InitHeld == Init => Held
<1> SUFFICES ASSUME Init PROVE Held OBVIOUS
<1>1. \A r \in Requests : pc[r] = "idle" BY DEF Init
<1> QED BY <1>1, InitInductive DEF Held, LocksPlaced, StatementsKept

(* Requests never wait for each other in a cycle: PostgreSQL never has to  *)
(* break a deadlock between the handlers of services/projects.rs.          *)
THEOREM NoDeadlock == Spec => []NoWaitCycle
<1>1. Init => Held BY InitHeld
<1>2. Held /\ [Next]_vars => Held' BY StepInductive, StepHeld DEF Held
<1>3. Held => NoWaitCycle BY RanksEnd
<1> QED BY <1>1, <1>2, <1>3, PTL DEF Spec

-----------------------------------------------------------------------------
(* The effect of a commit                                                  *)

(* Whatever r commits, it leaves the other projects alone.                 *)
LEMMA CommitElsewhere ==
  ASSUME Held, NEW r \in Requests, Committing(r)
  PROVE
  LET s == Home[proj[r]] IN
  /\ \A x \in Schemas \ {s} :
       /\ db'[Role(x)] = db[Role(x)] /\ db'[Schema(x)] = db[Schema(x)]
       /\ x \in db'[DatabaseAcl] <=> x \in db[DatabaseAcl]
  /\ \A x \in Ids \ {proj[r]} : db'[Row(x)] = db[Row(x)]
  /\ \A q \in Requests \ {r} : db'[AuditRow(q)] = db[AuditRow(q)]
<1> DEFINE s == Home[proj[r]]
<1>1. /\ AtCommit(r)
      /\ \A c \in Cells :
           db'[c] = IF c \in DOMAIN tx[r] THEN tx[r][c] ELSE db[c]
  BY CommitWrites DEF Held
<1>2. /\ DOMAIN tx[r] \subseteq
           {Role(s), DatabaseAcl, Schema(s), AuditRow(r), Row(proj[r])}
      /\ DatabaseAcl \in DOMAIN tx[r] =>
           \/ tx[r][DatabaseAcl] = db[DatabaseAcl] \union {s}
           \/ tx[r][DatabaseAcl] = db[DatabaseAcl] \ {s}
  <2>1. CASE op[r] = "reset" /\ snap[r].role = NoRole
    BY <1>1, <2>1, FirstResetHolds DEF Held
  <2>2. CASE op[r] = "reset" /\ snap[r].role # NoRole
    <3>1. DOMAIN tx[r] \subseteq {Role(s), AuditRow(r), Row(proj[r])}
      BY <1>1, <2>2, LaterResetHolds DEF Held
    <3> QED BY <3>1, CellsDistinct
  <2>3. CASE op[r] = "delete" /\ snap[r].role = NoRole
    <3>1. DOMAIN tx[r] \subseteq {Schema(s), AuditRow(r), Row(proj[r])}
      BY <1>1, <2>3, PlainDeleteHolds DEF Held
    <3> QED BY <3>1, CellsDistinct
  <2>4. CASE op[r] = "delete" /\ snap[r].role # NoRole
    <3>1. DOMAIN tx[r] \subseteq {Schema(s), Role(s), AuditRow(r), Row(proj[r])}
      BY <1>1, <2>4, RoleDeleteHolds DEF Held
    <3> QED BY <3>1, CellsDistinct
  <2>5. CASE op[r] \in Queries
    <3>1. \/ DOMAIN tx[r] = {Schema(s)}
          \/ /\ DOMAIN tx[r] = {DatabaseAcl}
             /\ tx[r][DatabaseAcl] = db[DatabaseAcl] \ {s}
      BY <1>1, <2>5, QueryHolds DEF Held
    <3> QED BY <3>1, CellsDistinct
  <2> QED BY <1>1, <2>1, <2>2, <2>3, <2>4, <2>5, CommitOps DEF Held
<1> HIDE DEF s
<1>3. ASSUME NEW x \in Schemas \ {s}
      PROVE  /\ db'[Role(x)] = db[Role(x)] /\ db'[Schema(x)] = db[Schema(x)]
             /\ x \in db'[DatabaseAcl] <=> x \in db[DatabaseAcl]
  <2>1. Role(x) \in Cells /\ Schema(x) \in Cells /\ DatabaseAcl \in Cells
    BY CellValues
  <2>2. Role(x) \notin DOMAIN tx[r] /\ Schema(x) \notin DOMAIN tx[r]
    BY <1>2, CellsDistinct
  <2> QED BY <1>1, <1>2, <2>1, <2>2
<1>4. ASSUME NEW x \in Ids \ {proj[r]} PROVE db'[Row(x)] = db[Row(x)]
  <2>1. Row(x) \in Cells /\ Row(x) \notin DOMAIN tx[r]
    BY <1>2, CellsDistinct, CellValues
  <2> QED BY <1>1, <2>1
<1>5. ASSUME NEW q \in Requests \ {r} PROVE db'[AuditRow(q)] = db[AuditRow(q)]
  <2>1. AuditRow(q) \in Cells /\ AuditRow(q) \notin DOMAIN tx[r]
    BY <1>2, CellsDistinct, CellValues
  <2> QED BY <1>1, <2>1
<1> QED BY <1>3, <1>4, <1>5 DEF s

LEMMA ResetEffect ==
  ASSUME Held, NEW r \in Requests, Committing(r), op[r] = "reset"
  PROVE
  LET s == Home[proj[r]]
      row == Row(proj[r])
  IN
  /\ db'[Role(s)] = r /\ db'[Schema(s)] = db[Schema(s)]
  /\ db'[AuditRow(r)] = "present"
  /\ snap[r].role = NoRole =>
       /\ db[Role(s)] = Absent /\ db[Schema(s)] = "present"
       /\ s \in db'[DatabaseAcl]
  /\ snap[r].role # NoRole =>
       db[Role(s)] # Absent /\ db'[DatabaseAcl] = db[DatabaseAcl]
  /\ db[row] = Absent => db'[row] = Absent
  /\ db[row] # Absent => db'[row] = [schema |-> s, role |-> s, cipher |-> r]
<1> DEFINE s == Home[proj[r]]
           row == Row(proj[r])
<1>1. /\ AtCommit(r)
      /\ \A c \in Cells :
           db'[c] = IF c \in DOMAIN tx[r] THEN tx[r][c] ELSE db[c]
  BY CommitWrites DEF Held
<1>2. /\ Role(s) \in Cells /\ Schema(s) \in Cells /\ DatabaseAcl \in Cells
      /\ AuditRow(r) \in Cells /\ row \in Cells
  BY <1>1, CommitOps, CellValues DEF Held
<1>3. /\ db[row] = Absent => db'[row] = Absent
      /\ db[row] # Absent => db'[row] = [schema |-> s, role |-> s, cipher |-> r]
  <2>1. \/ /\ row \in DOMAIN tx[r]
           /\ tx[r][row] = [schema |-> s, role |-> s, cipher |-> r]
        \/ row \notin DOMAIN tx[r] /\ db[row] = Absent
    <3>1. ResetTx(r) BY <1>1 DEF AtCommit, Held, Inductive, TransactionsOnTrack
    <3>2. at[r] > (IF snap[r].role = NoRole THEN 5 ELSE 2)
      <4>1. at[r] \in Nat /\ at[r] > Len(Script(r))
        BY <1>1 DEF AtCommit, Held, Inductive, TypeOK
      <4>2. Len(Script(r)) = IF snap[r].role = NoRole THEN 6 ELSE 3
        BY Scripts, ResetStatements
      <4> QED BY <4>1, <4>2
    <3> QED BY <3>1, <3>2 DEF ResetTx
  <2>2. row \in DOMAIN tx[r] => db[row] # Absent
    <3>1. ResetTx(r) BY <1>1 DEF AtCommit, Held, Inductive, TransactionsOnTrack
    <3> QED BY <3>1 DEF ResetTx
  <2> QED BY <1>1, <1>2, <2>1, <2>2
<1>4. CASE snap[r].role = NoRole
  <2>1. /\ {Role(s), DatabaseAcl, Schema(s), AuditRow(r)} \subseteq DOMAIN tx[r]
        /\ db[Role(s)] = Absent /\ tx[r][Role(s)] = r
        /\ tx[r][DatabaseAcl] = db[DatabaseAcl] \union {s}
        /\ db[Schema(s)] = "present" /\ tx[r][Schema(s)] = "present"
        /\ tx[r][AuditRow(r)] = "present"
    BY <1>1, <1>4, FirstResetHolds DEF Held
  <2> HIDE DEF s, row
  <2>2. /\ db'[Role(s)] = r /\ db'[Schema(s)] = "present"
        /\ db'[AuditRow(r)] = "present"
        /\ db'[DatabaseAcl] = db[DatabaseAcl] \union {s}
    BY <1>1, <1>2, <2>1
  <2> QED BY <1>3, <1>4, <2>1, <2>2 DEF s, row
<1>5. CASE snap[r].role # NoRole
  <2>1. /\ {Role(s), AuditRow(r)} \subseteq DOMAIN tx[r]
        /\ DOMAIN tx[r] \subseteq {Role(s), AuditRow(r), row}
        /\ db[Role(s)] # Absent /\ tx[r][Role(s)] = r
        /\ tx[r][AuditRow(r)] = "present"
    BY <1>1, <1>5, LaterResetHolds DEF Held
  <2>2. Schema(s) \notin DOMAIN tx[r] /\ DatabaseAcl \notin DOMAIN tx[r]
    BY <2>1, CellsDistinct
  <2> HIDE DEF s, row
  <2>3. /\ db'[Role(s)] = r /\ db'[Schema(s)] = db[Schema(s)]
        /\ db'[AuditRow(r)] = "present" /\ db'[DatabaseAcl] = db[DatabaseAcl]
    BY <1>1, <1>2, <2>1, <2>2
  <2> QED BY <1>3, <1>5, <2>1, <2>3 DEF s, row
<1> QED BY <1>4, <1>5

LEMMA DeleteEffect ==
  ASSUME Held, NEW r \in Requests, Committing(r), op[r] = "delete"
  PROVE
  LET s == Home[proj[r]] IN
  /\ db[Schema(s)] = "present" /\ db'[Schema(s)] = "missing"
  /\ db'[AuditRow(r)] = "present" /\ db'[DatabaseAcl] = db[DatabaseAcl]
  /\ db'[Row(proj[r])] = Absent
  /\ snap[r].role = NoRole => db'[Role(s)] = db[Role(s)]
  /\ snap[r].role # NoRole =>
       /\ db'[Role(s)] = Absent
       /\ db[Role(s)] = Absent \/ s \notin db[DatabaseAcl]
<1> DEFINE s == Home[proj[r]]
           row == Row(proj[r])
<1>1. /\ AtCommit(r)
      /\ \A c \in Cells :
           db'[c] = IF c \in DOMAIN tx[r] THEN tx[r][c] ELSE db[c]
  BY CommitWrites DEF Held
<1>2. /\ Role(s) \in Cells /\ Schema(s) \in Cells /\ DatabaseAcl \in Cells
      /\ AuditRow(r) \in Cells /\ row \in Cells
  BY <1>1, CommitOps, CellValues DEF Held
<1>3. db'[row] = Absent
  <2>1. \/ row \in DOMAIN tx[r] /\ tx[r][row] = Absent
        \/ row \notin DOMAIN tx[r] /\ db[row] = Absent
    <3>1. DeleteTx(r) BY <1>1 DEF AtCommit, Held, Inductive, TransactionsOnTrack
    <3>2. at[r] > (IF snap[r].role = NoRole THEN 2 ELSE 3)
      <4>1. at[r] \in Nat /\ at[r] > Len(Script(r))
        BY <1>1 DEF AtCommit, Held, Inductive, TypeOK
      <4>2. Len(Script(r)) = IF snap[r].role = NoRole THEN 3 ELSE 4
        BY Scripts, DeleteStatements
      <4> QED BY <4>1, <4>2
    <3> QED BY <3>1, <3>2 DEF DeleteTx
  <2> QED BY <1>1, <1>2, <2>1
<1>4. /\ {Schema(s), AuditRow(r)} \subseteq DOMAIN tx[r]
      /\ DatabaseAcl \notin DOMAIN tx[r]
      /\ db[Schema(s)] = "present" /\ tx[r][Schema(s)] = "missing"
      /\ tx[r][AuditRow(r)] = "present"
      /\ snap[r].role = NoRole => Role(s) \notin DOMAIN tx[r]
      /\ snap[r].role # NoRole =>
           IF Role(s) \in DOMAIN tx[r]
           THEN tx[r][Role(s)] = Absent /\ s \notin db[DatabaseAcl]
           ELSE db[Role(s)] = Absent
  <2>1. CASE snap[r].role = NoRole
    <3>1. /\ {Schema(s), AuditRow(r)} \subseteq DOMAIN tx[r]
          /\ DOMAIN tx[r] \subseteq {Schema(s), AuditRow(r), row}
          /\ db[Schema(s)] = "present" /\ tx[r][Schema(s)] = "missing"
          /\ tx[r][AuditRow(r)] = "present"
      BY <1>1, <2>1, PlainDeleteHolds DEF Held
    <3> QED BY <2>1, <3>1, CellsDistinct
  <2>2. CASE snap[r].role # NoRole
    <3>1. /\ {Schema(s), AuditRow(r)} \subseteq DOMAIN tx[r]
          /\ DOMAIN tx[r] \subseteq {Schema(s), Role(s), AuditRow(r), row}
          /\ db[Schema(s)] = "present" /\ tx[r][Schema(s)] = "missing"
          /\ tx[r][AuditRow(r)] = "present"
          /\ IF Role(s) \in DOMAIN tx[r]
             THEN tx[r][Role(s)] = Absent /\ s \notin db[DatabaseAcl]
             ELSE db[Role(s)] = Absent
      BY <1>1, <2>2, RoleDeleteHolds DEF Held
    <3> QED BY <2>2, <3>1, CellsDistinct
  <2> QED BY <2>1, <2>2
<1> HIDE DEF s, row
<1>5. /\ db'[Schema(s)] = "missing" /\ db'[AuditRow(r)] = "present"
      /\ db'[DatabaseAcl] = db[DatabaseAcl]
      /\ db'[Role(s)] =
           IF Role(s) \in DOMAIN tx[r] THEN tx[r][Role(s)] ELSE db[Role(s)]
  BY <1>1, <1>2, <1>4
<1> QED BY <1>3, <1>4, <1>5 DEF s, row

LEMMA QueryEffect ==
  ASSUME Held, NEW r \in Requests, Committing(r), op[r] \in Queries
  PROVE
  LET s == Home[proj[r]] IN
  /\ db'[Role(s)] = db[Role(s)] /\ db'[Row(proj[r])] = db[Row(proj[r])]
  /\ db'[AuditRow(r)] = db[AuditRow(r)]
  /\ op[r] = "RevokeConnect" => db'[Schema(s)] = db[Schema(s)]
  /\ op[r] # "RevokeConnect" => db'[DatabaseAcl] = db[DatabaseAcl]
  /\ op[r] = "DropSchema" => db'[Schema(s)] = "missing"
<1> DEFINE s == Home[proj[r]]
           row == Row(proj[r])
<1>1. /\ AtCommit(r)
      /\ \A c \in Cells :
           db'[c] = IF c \in DOMAIN tx[r] THEN tx[r][c] ELSE db[c]
  BY CommitWrites DEF Held
<1>2. /\ Role(s) \in Cells /\ Schema(s) \in Cells /\ DatabaseAcl \in Cells
      /\ AuditRow(r) \in Cells /\ row \in Cells
  BY <1>1, CommitOps, CellValues DEF Held
<1>3. \/ /\ op[r] \in {"CreateSchema", "DropSchema"} /\ DOMAIN tx[r] = {Schema(s)}
         /\ op[r] = "DropSchema" => tx[r][Schema(s)] = "missing"
      \/ op[r] = "RevokeConnect" /\ DOMAIN tx[r] = {DatabaseAcl}
  BY <1>1, QueryHolds DEF Held
<1>4. /\ Role(s) \notin DOMAIN tx[r] /\ row \notin DOMAIN tx[r]
      /\ AuditRow(r) \notin DOMAIN tx[r]
      /\ op[r] = "RevokeConnect" => Schema(s) \notin DOMAIN tx[r]
      /\ op[r] # "RevokeConnect" => DatabaseAcl \notin DOMAIN tx[r]
      /\ op[r] = "DropSchema" =>
           Schema(s) \in DOMAIN tx[r] /\ tx[r][Schema(s)] = "missing"
  BY <1>3, CellsDistinct
<1> HIDE DEF s, row
<1> QED BY <1>1, <1>2, <1>4 DEF s, row

-----------------------------------------------------------------------------
(* Every step commits one transaction or none                              *)

(* No transaction commits, and nothing is written but an audit row.        *)
Quiet ==
  /\ \A c : (\A x : c # AuditRow(x)) => db'[c] = db[c]
  /\ \A q \in Requests :
       /\ fate'[q] = "committed" <=> fate[q] = "committed"
       /\ fate[q] = "committed" =>
            op'[q] = op[q] /\ proj'[q] = proj[q] /\ snap'[q] = snap[q]

(* The transaction of r commits.                                           *)
CommitsOne(r) ==
  /\ Committing(r)
  /\ \A q \in Requests :
       /\ fate'[q] = "committed" <=> fate[q] = "committed" \/ q = r
       /\ op'[q] = op[q] /\ proj'[q] = proj[q] /\ snap'[q] = snap[q]

LEMMA StepShape ==
  ASSUME TypeOK, Located, Accounted, [Next]_vars
  PROVE  Quiet \/ \E r \in Requests : CommitsOne(r)
<1>1. CASE UNCHANGED vars BY <1>1 DEF vars, Quiet
<1>2. ASSUME NEW r \in Requests, Committing(r) PROVE CommitsOne(r)
  BY <1>2 DEF Committing, CommitsOne, Apply, TypeOK
<1>3. ASSUME NEW r \in Requests, Acts(r), \A q \in Requests : ~Committing(q)
      PROVE  Quiet
  <2>1. \A q \in Requests \ {r} : Same(q) BY <1>3, OneMoves
  <2>2. \A c : (\A x : c # AuditRow(x)) => db'[c] = db[c]
    <3>1. CASE UNCHANGED db BY <3>1
    <3>2. ASSUME NEW q \in Requests, AuditReveal(q)
          PROVE  \A c : (\A x : c # AuditRow(x)) => db'[c] = db[c]
      <4>1. db' = [db EXCEPT ![AuditRow(q)] = "present"]
        BY <3>2 DEF AuditReveal
      <4>2. DOMAIN db = Cells BY DEF TypeOK
      <4> QED BY <4>1, <4>2
    <3> QED BY <1>3, <3>1, <3>2, DbChanges DEF Next, Acts
  <2>3. /\ fate'[r] = "committed" => fate[r] = "committed"
        /\ fate[r] = "committed" =>
             /\ fate'[r] = "committed"
             /\ op'[r] = op[r] /\ proj'[r] = proj[r] /\ snap'[r] = snap[r]
    <3>1. CASE Arrived(r) BY <3>1 DEF Arrived, Located
    <3>2. CASE Looked(r) BY <3>2 DEF Looked, Located
    <3>3. CASE Execute(r) BY <3>3 DEF Execute
    <3>4. CASE Ended(r)
      <4>1. fate'[r] = "committed" => fate[r] = "committed"
        BY <1>3, <3>4 DEF Ended
      <4>2. op'[r] = op[r] /\ proj'[r] = proj[r] /\ snap'[r] = snap[r]
        BY <3>4 DEF Ended
      <4>3. ASSUME fate[r] = "committed" PROVE fate'[r] = "committed"
        <5>1. pc[r] = "history"
          <6>1. pc[r] \in {"history", "audit"}
            BY <3>4, <4>3 DEF Ended, Located, TypeOK
          <6> QED BY <4>3, <6>1 DEF Accounted
        <5>2. CASE RecordHistory(r) BY <4>3, <5>2 DEF RecordHistory
        <5>3. CASE Cancel(r) BY <4>3, <5>1, <5>3 DEF Cancel, TypeOK
        <5> QED BY <1>3, <5>1, <5>2, <5>3
                DEF Acts, Arrive, ReceiveCreate, Receive, Proceed, Disturb, Probe,
                    ReadProject, Execute, Rejected, InStatement, Commit, AtCommit,
                    AuditReveal, Aborted, StatementFails, CommitRefused,
                    CommitUnacknowledged, PoolFails
      <4> QED BY <4>1, <4>2, <4>3
    <3> QED BY <1>3, <3>1, <3>2, <3>3, <3>4, HowItMoves
  <2> QED BY <2>1, <2>2, <2>3 DEF Quiet, Same
<1> QED BY <1>1, <1>2, <1>3 DEF Next, Acts, Rest

(* The cells but the audit rows are not audit rows.                        *)
LEMMA QuietCells ==
  ASSUME Quiet
  PROVE  /\ \A x : db'[Row(x)] = db[Row(x)]
         /\ \A x : db'[Role(x)] = db[Role(x)]
         /\ \A x : db'[Schema(x)] = db[Schema(x)]
         /\ db'[DatabaseAcl] = db[DatabaseAcl]
BY CellsDistinct DEF Quiet

(* What is committed stays committed.                                      *)
LEMMA HistoryQuiet ==
  ASSUME Quiet, NEW q \in Requests, NEW o
  PROVE  /\ Committed(q, o)' <=> Committed(q, o)
         /\ Committed(q, o) => proj'[q] = proj[q] /\ snap'[q] = snap[q]
BY DEF Quiet, Committed

LEMMA HistoryGrows ==
  ASSUME NEW r \in Requests, CommitsOne(r), NEW q \in Requests, NEW o
  PROVE  /\ Committed(q, o)' <=> Committed(q, o) \/ (q = r /\ op[r] = o)
         /\ proj'[q] = proj[q] /\ snap'[q] = snap[q]
BY DEF CommitsOne, Committed

(* Where the request of a commit comes from.                               *)
LEMMA CommittedHome ==
  ASSUME Accounted, NEW q \in Requests, NEW o, Committed(q, o)
  PROVE  /\ proj[q] \in Projects /\ snap[q].schema = Home[proj[q]]
         /\ snap[q].role \in {NoRole, Home[proj[q]]}
         /\ RoleName(q) = Home[proj[q]] /\ Home[proj[q]] \in Schemas
<1>1. HomeRow(proj[q], snap[q]) BY DEF Accounted, Committed
<1>2. Home[proj[q]] \in Schemas BY <1>1, HomeAssumption DEF HomeRow
<1> QED BY <1>1, <1>2 DEF HomeRow, RoleName

-----------------------------------------------------------------------------
(* Answers, fates and audit rows                                           *)

Told(r) ==
  /\ pc[r] = "idle" => op[r] = "none"
  /\ pc[r] = "history" => op[r] \in Queries
  /\ pc[r] = "audit" => op[r] = "info"
  /\ pc[r] # "done" => answer[r] = "none"
  /\ op[r] = "none" => ~Audited(r)
  /\ op[r] = "info" => fate[r] # "committed"
  /\ fate[r] = "committed" => HomeRow(proj[r], snap[r])
  /\ op[r] \in {"create", "delete", "reset"} =>
       (Audited(r) <=> fate[r] = "committed")
  /\ op[r] = "info" /\ answer[r] = "ok" => Audited(r)
  /\ op[r] \in {"create", "delete", "reset"} /\ answer[r] = "ok" =>
       fate[r] = "committed"
  /\ answer[r] = "rejected" => fate[r] = "open"

LEMMA ToldAll ==
  (\A r \in Requests : Told(r)) <=> Accounted /\ AnswersAccounted
BY DEF Told, Accounted, AnswersAccounted, AuditMatchesFate, RevealIsAudited,
       AnswerMeansCommitted

LEMMA ToldMine ==
  ASSUME Held, NEW r \in Requests, Acts(r), Told(r)
  PROVE  Told(r)'
<1> USE DEF Audited
<1>0. TypeOK /\ Located BY DEF Held, Inductive
<1>1. [Next]_vars BY DEF Next, Acts
<1>2. CASE Arrive(r)
  <2>1. db' = db /\ fate' = fate /\ answer' = answer /\ pc[r] = "idle"
    BY <1>2 DEF Arrive, ReceiveCreate, Receive
  <2>2. fate[r] = "open" /\ answer[r] = "none" /\ ~Audited(r)
    BY <1>0, <2>1 DEF Told, Located
  <2>3. pc'[r] \in {"probe", "read"} BY <1>0, <1>2, HowItMoves, <2>1
        DEF Arrive, ReceiveCreate, Receive, TypeOK
  <2> QED BY <2>1, <2>2, <2>3 DEF Told
<1>3. CASE Probe(r) \/ ReadProject(r)
  <2>1. /\ db' = db /\ fate' = fate /\ op' = op /\ proj' = proj
        /\ pc[r] \in {"probe", "read"}
    BY <1>3 DEF Probe, ReadProject
  <2>2. \/ answer'[r] = answer[r] /\ pc'[r] \in {"probe", "sql"}
        \/ answer'[r] = answer[r] /\ pc'[r] = "audit" /\ op[r] = "info"
        \/ answer'[r] = "rejected" /\ pc'[r] = "done"
    <3>1. CASE Probe(r) BY <1>0, <3>1 DEF Probe, Respond, TypeOK
    <3>2. CASE ReadProject(r) BY <1>0, <3>2 DEF ReadProject, Respond, TypeOK
    <3> QED BY <1>3, <3>1, <3>2
  <2>3. fate[r] = "open" /\ answer[r] = "none"
    BY <1>0, <2>1 DEF Located, Told
  <2> QED BY <2>1, <2>2, <2>3 DEF Told
<1>4. CASE Execute(r) BY <1>4 DEF Execute, Told
<1>5. CASE Rejected(r) \/ Aborted(r) \/ CommitRefused(r)
  <2>1. /\ db' = db /\ op' = op /\ proj' = proj /\ snap' = snap /\ pc[r] = "sql"
        /\ fate'[r] = "rolled back"
        /\ \/ pc'[r] = "history" /\ op[r] \in Queries /\ answer'[r] = answer[r]
           \/ pc'[r] = "done" /\ answer'[r] = "error"
    <3>1. CASE Rejected(r) \/ Aborted(r)
      <4>1. StatementFails(r) BY <3>1 DEF Rejected, Aborted
      <4> QED BY <1>0, <4>1 DEF StatementFails, InStatement, Respond, TypeOK
    <3>2. CASE CommitRefused(r)
      BY <1>0, <3>2 DEF CommitRefused, AtCommit, AfterCommit, Respond, TypeOK
    <3> QED BY <1>5, <3>1, <3>2
  <2>2. fate[r] = "open" /\ answer[r] = "none"
    BY <1>0, <2>1 DEF Located, Told
  <2> QED BY <2>1, <2>2 DEF Told
<1>6. CASE Commit(r) \/ CommitUnacknowledged(r)
  <2>1. Committing(r) BY <1>0, <1>6, CommitActions
  <2>2. /\ op' = op /\ proj' = proj /\ snap' = snap /\ fate'[r] = "committed"
        /\ \/ pc'[r] = "history" /\ op[r] \in Queries /\ answer'[r] = answer[r]
           \/ pc'[r] = "done" /\ answer'[r] \in {"ok", "error", "gone"}
    <3>1. CASE Commit(r)
      BY <1>0, <3>1 DEF Commit, Apply, AfterCommit, Respond, TypeOK
    <3>2. CASE CommitUnacknowledged(r)
      BY <1>0, <3>2
         DEF CommitUnacknowledged, Apply, AfterCommit, Respond, TypeOK
    <3> QED BY <1>6, <3>1, <3>2
  <2>3. /\ op[r] \in {"reset", "delete"} \union Queries
        /\ proj[r] \in Projects /\ snap[r].schema = Home[proj[r]]
        /\ snap[r].role \in {NoRole, Home[proj[r]]} /\ pc[r] = "sql"
    BY <2>1, CommitOps DEF Committing, Held
  <2>4. op[r] \in {"reset", "delete"} => db'[AuditRow(r)] = "present"
    BY <2>1, ResetEffect, DeleteEffect
  <2>5. op[r] \notin {"none", "info", "create"} BY <2>3 DEF Queries
  <2>6. answer[r] = "none" BY <2>3 DEF Told
  <2> QED BY <2>2, <2>3, <2>4, <2>5, <2>6 DEF Told, HomeRow, Queries
<1>7. CASE AuditReveal(r)
  <2>1. op' = op /\ fate' = fate /\ op[r] = "info" /\ pc'[r] = "done"
        /\ proj' = proj /\ snap' = snap /\ answer'[r] \in {"ok", "error", "gone"}
    BY <1>0, <1>7 DEF AuditReveal, Respond, Told, TypeOK
  <2>2. db'[AuditRow(r)] = "present"
    BY <1>0, <1>7, CellValues DEF AuditReveal, TypeOK
  <2> QED BY <2>1, <2>2 DEF Told
<1>8. CASE PoolFails(r)
  <2>1. /\ db' = db /\ fate' = fate /\ op' = op /\ proj' = proj /\ snap' = snap
        /\ pc'[r] = "done" /\ answer'[r] = "error"
    BY <1>0, <1>8 DEF PoolFails, Respond, TypeOK
  <2> QED BY <2>1 DEF Told
<1>9. CASE RecordHistory(r)
  <2>1. /\ db' = db /\ fate' = fate /\ op' = op /\ proj' = proj /\ snap' = snap
        /\ pc'[r] = "done" /\ answer'[r] \in {"ok", "error"} /\ op[r] \in Queries
    BY <1>0, <1>9 DEF RecordHistory, Respond, TypeOK, Told
  <2> QED BY <2>1 DEF Told, Queries
<1>10. CASE Cancel(r)
  <2>1. /\ db' = db /\ op' = op /\ proj' = proj /\ snap' = snap
        /\ pc'[r] = "done" /\ answer'[r] = "gone"
        /\ fate'[r] = IF pc[r] = "sql" THEN "rolled back" ELSE fate[r]
    BY <1>0, <1>10 DEF Cancel, Respond, TypeOK
  <2>2. pc[r] = "sql" => fate[r] = "open" BY <1>0 DEF Located
  <2> QED BY <2>1, <2>2 DEF Told
<1> QED BY <1>2, <1>3, <1>4, <1>5, <1>6, <1>7, <1>8, <1>9, <1>10
        DEF Acts, Proceed, Disturb

LEMMA StepTold ==
  ASSUME Held, Accounted, AnswersAccounted, [Next]_vars
  PROVE  Accounted' /\ AnswersAccounted'
<1>1. \A r \in Requests : Told(r) BY ToldAll
<1>2. CASE UNCHANGED vars
  <2>1. \A r \in Requests : Told(r)'
    BY <1>1, <1>2 DEF vars, Told, Audited, HomeRow
  <2> QED BY <2>1
          DEF Told, Accounted, AnswersAccounted, AuditMatchesFate,
              RevealIsAudited, AnswerMeansCommitted
<1>3. ASSUME NEW r \in Requests, Acts(r) PROVE Accounted' /\ AnswersAccounted'
  <2>1. Told(r)' BY <1>1, <1>3, ToldMine
  <2>2. ASSUME NEW q \in Requests \ {r} PROVE Told(q)'
    <3>1. Same(q) BY <1>3, OneMoves DEF Held, Inductive
    <3>2. db'[AuditRow(q)] = db[AuditRow(q)]
      <4>1. CASE UNCHANGED db BY <4>1
      <4>2. ASSUME NEW x \in Requests, Committing(x) \/ AuditReveal(x)
            PROVE  x # q
        <5>1. CASE Committing(x)
          <6>1. pc'[x] # "sql" /\ pc[x] = "sql"
            BY <5>1 DEF Committing, AtCommit, Held, Inductive, TypeOK
          <6> QED BY <3>1, <6>1 DEF Same
        <5>2. CASE AuditReveal(x)
          <6>1. pc[x] = "audit" /\ pc'[x] = "done"
            BY <5>2 DEF AuditReveal, Respond, Held, Inductive, TypeOK
          <6> QED BY <3>1, <6>1 DEF Same
        <5> QED BY <4>2, <5>1, <5>2
      <4>3. ASSUME NEW x \in Requests, AuditReveal(x)
            PROVE  db'[AuditRow(q)] = db[AuditRow(q)]
        <5>1. AuditRow(x) # AuditRow(q) BY <4>2, <4>3, CellsDistinct
        <5>2. DOMAIN db = Cells BY DEF Held, Inductive, TypeOK
        <5> QED BY <4>3, <5>1, <5>2 DEF AuditReveal
      <4>4. ASSUME NEW x \in Requests, Committing(x)
            PROVE  db'[AuditRow(q)] = db[AuditRow(q)]
        <5>1. q \in Requests \ {x} BY <4>2, <4>4
        <5> QED BY <4>4, <5>1, CommitElsewhere
      <4> QED BY <4>1, <4>3, <4>4, DbChanges DEF Held, Inductive
    <3> QED BY <1>1, <3>1, <3>2 DEF Same, Told, Audited, HomeRow
  <2>3. \A q \in Requests : Told(q)' BY <2>1, <2>2
  <2> QED BY <2>3
          DEF Told, Accounted, AnswersAccounted, AuditMatchesFate,
              RevealIsAudited, AnswerMeansCommitted
<1> QED BY <1>2, <1>3 DEF Next, Acts, Rest

-----------------------------------------------------------------------------
(* Rows, roles and schemas                                                 *)

(* Projects with the same home are the same project.                       *)
LEMMA OneHome ==
  /\ \A p \in Projects : Home[p] \in Schemas /\ p \in Ids
  /\ \A p, q \in Projects : Home[p] = Home[q] => p = q
BY HomeAssumption DEF Ids

LEMMA StepRowsHaveRoles ==
  ASSUME Held, Accounted, RowsHaveRoles, [Next]_vars
  PROVE  RowsHaveRoles'
<1>1. CASE Quiet BY <1>1, QuietCells DEF RowsHaveRoles
<1>2. ASSUME NEW r \in Requests, CommitsOne(r) PROVE RowsHaveRoles'
  <2>1. Committing(r) BY <1>2 DEF CommitsOne
  <2> DEFINE p == proj[r]
             s == Home[p]
  <2>2. /\ op[r] \in {"reset", "delete"} \union Queries
        /\ p \in Projects /\ s \in Schemas
    BY <2>1, CommitOps DEF Committing, Held
  <2>3. ASSUME NEW x \in Projects, db'[Row(x)] # Absent
        PROVE  /\ db'[Row(x)].role = NoRole => db'[Role(Home[x])] = Absent
               /\ db'[Row(x)].role # NoRole => db'[Row(x)].cipher # Absent
    <3>1. CASE x # p
      <4>1. Home[x] \in Schemas \ {s} /\ x \in Ids \ {p} BY <2>2, <3>1, OneHome
      <4>2. db'[Row(x)] = db[Row(x)] /\ db'[Role(Home[x])] = db[Role(Home[x])]
        BY <2>1, <4>1, CommitElsewhere
      <4> QED BY <2>3, <4>2 DEF RowsHaveRoles
    <3>2. CASE x = p /\ op[r] = "reset"
      <4>1. db'[Row(p)] = [schema |-> s, role |-> s, cipher |-> r]
        BY <2>1, <2>3, <3>2, ResetEffect
      <4>2. s # NoRole /\ r # Absent BY <2>2, SentinelAssumption
      <4> QED BY <3>2, <4>1, <4>2
    <3>3. CASE x = p /\ op[r] = "delete"
      BY <2>1, <2>3, <3>3, DeleteEffect
    <3>4. CASE x = p /\ op[r] \in Queries
      <4>1. db'[Role(s)] = db[Role(s)] /\ db'[Row(p)] = db[Row(p)]
        BY <2>1, <3>4, QueryEffect
      <4> QED BY <2>3, <3>4, <4>1 DEF RowsHaveRoles
    <3> QED BY <2>2, <3>1, <3>2, <3>3, <3>4
  <2> QED BY <2>3 DEF RowsHaveRoles
<1> QED BY <1>1, <1>2, StepShape DEF Held, Inductive

LEMMA StepDeletedSchemaGone ==
  ASSUME Held, Accounted, DeletedSchemaGone, [Next]_vars
  PROVE  DeletedSchemaGone'
<1>1. CASE Quiet
  <2> SUFFICES ASSUME NEW d \in Requests, Committed(d, "delete")'
               PROVE  \/ db'[Schema(snap'[d].schema)] = "missing"
                      \/ \E q \in Requests :
                           /\ Committed(q, "CreateSchema")'
                           /\ snap'[q].schema = snap'[d].schema
    BY DEF DeletedSchemaGone
  <2>1. Committed(d, "delete") /\ snap'[d] = snap[d] BY <1>1, HistoryQuiet
  <2>2. CASE db[Schema(snap[d].schema)] = "missing"
    BY <1>1, <2>1, <2>2, QuietCells
  <2>3. ASSUME NEW q \in Requests, Committed(q, "CreateSchema"),
               snap[q].schema = snap[d].schema
        PROVE  Committed(q, "CreateSchema")' /\ snap'[q].schema = snap'[d].schema
    BY <1>1, <2>1, <2>3, HistoryQuiet
  <2> QED BY <2>1, <2>2, <2>3 DEF DeletedSchemaGone
<1>2. ASSUME NEW r \in Requests, CommitsOne(r) PROVE DeletedSchemaGone'
  <2> SUFFICES ASSUME NEW d \in Requests, Committed(d, "delete")'
               PROVE  \/ db'[Schema(snap'[d].schema)] = "missing"
                      \/ \E q \in Requests :
                           /\ Committed(q, "CreateSchema")'
                           /\ snap'[q].schema = snap'[d].schema
    BY DEF DeletedSchemaGone
  <2>1. Committing(r) BY <1>2 DEF CommitsOne
  <2>2. /\ op[r] \in {"reset", "delete"} \union Queries
        /\ snap[r].schema = Home[proj[r]]
    BY <2>1, CommitOps DEF Committing, Held
  <2>3. \A q \in Requests : snap'[q] = snap[q] BY <1>2 DEF CommitsOne
  <2>4. Committed(d, "delete") \/ (d = r /\ op[r] = "delete")
    BY <1>2, HistoryGrows
  <2>5. CASE op[r] = "delete" /\ snap[d].schema = Home[proj[r]]
    <3>1. db'[Schema(Home[proj[r]])] = "missing" BY <2>1, <2>5, DeleteEffect
    <3> QED BY <2>3, <2>5, <3>1
  <2>6. CASE op[r] = "CreateSchema" /\ snap[d].schema = Home[proj[r]]
    <3>1. Committed(r, "CreateSchema")' BY <1>2, <2>6, HistoryGrows
    <3> QED BY <2>2, <2>3, <2>6, <3>1
  <2>7. CASE /\ Committed(d, "delete")
             /\ \E q \in Requests : /\ Committed(q, "CreateSchema")
                                   /\ snap[q].schema = snap[d].schema
    <3>1. PICK q \in Requests : /\ Committed(q, "CreateSchema")
                                /\ snap[q].schema = snap[d].schema
      BY <2>7
    <3>2. Committed(q, "CreateSchema")' BY <1>2, <3>1, HistoryGrows
    <3> QED BY <2>3, <3>1, <3>2
  <2>8. CASE /\ Committed(d, "delete") /\ db[Schema(snap[d].schema)] = "missing"
             /\ ~(op[r] = "delete" /\ snap[d].schema = Home[proj[r]])
             /\ ~(op[r] = "CreateSchema" /\ snap[d].schema = Home[proj[r]])
    <3>1. db'[Schema(snap[d].schema)] = "missing"
      <4>1. snap[d].schema \in Schemas BY <2>8, CommittedHome
      <4>2. CASE snap[d].schema # Home[proj[r]]
        <5>1. snap[d].schema \in Schemas \ {Home[proj[r]]} BY <4>1, <4>2
        <5> QED BY <2>1, <2>8, <5>1, CommitElsewhere
      <4>3. CASE snap[d].schema = Home[proj[r]] /\ op[r] = "reset"
        BY <2>1, <2>8, <4>3, ResetEffect
      <4>4. CASE snap[d].schema = Home[proj[r]] /\ op[r] = "RevokeConnect"
        BY <2>1, <2>8, <4>4, QueryEffect DEF Queries
      <4>5. CASE snap[d].schema = Home[proj[r]] /\ op[r] = "DropSchema"
        BY <2>1, <4>5, QueryEffect DEF Queries
      <4> QED BY <2>2, <2>8, <4>2, <4>3, <4>4, <4>5 DEF Queries
    <3> QED BY <2>3, <3>1
  <2> QED BY <2>2, <2>4, <2>5, <2>6, <2>7, <2>8 DEF DeletedSchemaGone
<1> QED BY <1>1, <1>2, StepShape DEF Held, Inductive

(* A project is deleted again only after its schema was made again.        *)
LEMMA StepDoubleDelete ==
  ASSUME Held, Accounted, DeletedSchemaGone, DoubleDeleteExplained, [Next]_vars
  PROVE  DoubleDeleteExplained'
<1>1. CASE Quiet
  <2> SUFFICES ASSUME NEW d \in Requests, NEW e \in Requests, d # e,
                      proj'[d] = proj'[e],
                      Committed(d, "delete")', Committed(e, "delete")'
               PROVE  \E q \in Requests : /\ Committed(q, "CreateSchema")'
                                         /\ snap'[q].schema = snap'[d].schema
    BY DEF DoubleDeleteExplained
  <2>1. /\ Committed(d, "delete") /\ snap'[d] = snap[d] /\ proj'[d] = proj[d]
        /\ Committed(e, "delete") /\ proj'[e] = proj[e]
    BY <1>1, HistoryQuiet
  <2>2. PICK q \in Requests : /\ Committed(q, "CreateSchema")
                              /\ snap[q].schema = snap[d].schema
    BY <2>1 DEF DoubleDeleteExplained
  <2>3. Committed(q, "CreateSchema")' /\ snap'[q] = snap[q]
    BY <1>1, <2>2, HistoryQuiet
  <2> QED BY <2>1, <2>2, <2>3
<1>2. ASSUME NEW r \in Requests, CommitsOne(r) PROVE DoubleDeleteExplained'
  <2> SUFFICES ASSUME NEW d \in Requests, NEW e \in Requests, d # e,
                      proj'[d] = proj'[e],
                      Committed(d, "delete")', Committed(e, "delete")'
               PROVE  \E q \in Requests : /\ Committed(q, "CreateSchema")'
                                         /\ snap'[q].schema = snap'[d].schema
    BY DEF DoubleDeleteExplained
  <2>1. Committing(r) /\ \A q \in Requests : snap'[q] = snap[q] /\ proj'[q] = proj[q]
    BY <1>2 DEF CommitsOne
  <2>2. snap[r].schema = Home[proj[r]]
    BY <2>1, CommitOps DEF Committing, Held
  <2>3. /\ Committed(d, "delete") \/ (d = r /\ op[r] = "delete")
        /\ Committed(e, "delete") \/ (e = r /\ op[r] = "delete")
    BY <1>2, HistoryGrows
  <2>4. \E q \in Requests : /\ Committed(q, "CreateSchema")
                            /\ snap[q].schema = snap[d].schema
    <3>1. CASE Committed(d, "delete") /\ Committed(e, "delete")
      BY <2>1, <3>1 DEF DoubleDeleteExplained
    <3>2. ASSUME NEW x \in Requests, Committed(x, "delete"), op[r] = "delete",
                 proj[x] = proj[r]
          PROVE  \E q \in Requests : /\ Committed(q, "CreateSchema")
                                    /\ snap[q].schema = Home[proj[r]]
      <4>1. snap[x].schema = Home[proj[r]] BY <3>2, CommittedHome
      <4>2. db[Schema(Home[proj[r]])] = "present" BY <2>1, <3>2, DeleteEffect
      <4> QED BY <3>2, <4>1, <4>2 DEF DeletedSchemaGone
    <3>3. CASE Committed(d, "delete") /\ e = r /\ op[r] = "delete"
      <4>1. proj[d] = proj[r] BY <2>1, <3>3
      <4>2. snap[d].schema = Home[proj[r]] BY <3>3, <4>1, CommittedHome
      <4> QED BY <3>2, <3>3, <4>1, <4>2
    <3>4. CASE Committed(e, "delete") /\ d = r /\ op[r] = "delete"
      <4>1. proj[e] = proj[r] BY <2>1, <3>4
      <4> QED BY <2>2, <3>2, <3>4, <4>1
    <3> QED BY <2>3, <3>1, <3>3, <3>4
  <2>5. PICK q \in Requests : /\ Committed(q, "CreateSchema")
                              /\ snap[q].schema = snap[d].schema
    BY <2>4
  <2>6. Committed(q, "CreateSchema")' BY <1>2, <2>5, HistoryGrows
  <2> QED BY <2>1, <2>5, <2>6
<1> QED BY <1>1, <1>2, StepShape DEF Held, Inductive

(* What reset-password has set holds.                                      *)
LEMMA StepResetHolds ==
  ASSUME Held, Accounted, ResetHolds, [Next]_vars
  PROVE  ResetHolds'
<1> SUFFICES ASSUME NEW x \in Requests, Committed(x, "reset")'
             PROVE  LET pw == db'[Role(RoleName(x)')] IN
                    \/ pw \in {q \in Requests : /\ Committed(q, "reset")'
                                               /\ proj'[q] = proj'[x]}
                    \/ /\ pw = Absent
                       /\ \E d \in Requests : /\ Committed(d, "delete")'
                                             /\ proj'[d] = proj'[x]
                                             /\ snap'[d].role # NoRole
  BY DEF ResetHolds
<1>1. CASE Quiet
  <2>1. /\ Committed(x, "reset") /\ proj'[x] = proj[x] /\ snap'[x] = snap[x]
        /\ \A c : db'[Role(c)] = db[Role(c)]
    BY <1>1, HistoryQuiet, QuietCells
  <2>2. RoleName(x)' = RoleName(x) BY <2>1 DEF RoleName
  <2>3. \A q \in Requests, o \in {"reset", "delete"} : Committed(q, o) =>
          Committed(q, o)' /\ proj'[q] = proj[q] /\ snap'[q] = snap[q]
    BY <1>1, HistoryQuiet
  <2>4. CASE \E q \in Requests : /\ Committed(q, "reset") /\ proj[q] = proj[x]
                                /\ q = db[Role(RoleName(x))]
    BY <2>1, <2>2, <2>3, <2>4
  <2>5. CASE /\ db[Role(RoleName(x))] = Absent
             /\ \E d \in Requests : /\ Committed(d, "delete")
                                   /\ proj[d] = proj[x] /\ snap[d].role # NoRole
    BY <2>1, <2>2, <2>3, <2>5
  <2> QED BY <2>1, <2>4, <2>5 DEF ResetHolds
<1>2. ASSUME NEW r \in Requests, CommitsOne(r)
      PROVE  LET pw == db'[Role(RoleName(x)')] IN
             \/ pw \in {q \in Requests : /\ Committed(q, "reset")'
                                        /\ proj'[q] = proj'[x]}
             \/ /\ pw = Absent
                /\ \E d \in Requests : /\ Committed(d, "delete")'
                                      /\ proj'[d] = proj'[x]
                                      /\ snap'[d].role # NoRole
  <2>1. Committing(r) /\ \A q \in Requests : snap'[q] = snap[q] /\ proj'[q] = proj[q]
    BY <1>2 DEF CommitsOne
  <2>2. RoleName(x)' = RoleName(x) BY <2>1 DEF RoleName
  <2>3. \A q \in Requests : \A o :
          Committed(q, o)' <=> Committed(q, o) \/ (q = r /\ op[r] = o)
    BY <1>2, HistoryGrows
  <2>4. /\ op[r] \in {"reset", "delete"} \union Queries
        /\ RoleName(r) = Home[proj[r]] /\ proj[r] \in Projects
    BY <2>1, CommitOps DEF Committing, Held
  <2>5. Committed(x, "reset") \/ (x = r /\ op[r] = "reset") BY <2>3
  <2>6. /\ RoleName(x) = Home[proj[x]] /\ proj[x] \in Projects
        /\ Home[proj[x]] \in Schemas
    BY <2>4, <2>5, CommittedHome, OneHome
  <2>7. CASE op[r] = "reset" /\ proj[r] = proj[x]
    <3>1. db'[Role(Home[proj[r]])] = r BY <2>1, <2>7, ResetEffect
    <3>2. Committed(r, "reset")' BY <2>3, <2>7
    <3> QED BY <2>1, <2>2, <2>6, <2>7, <3>1, <3>2
  <2>8. CASE op[r] = "delete" /\ proj[r] = proj[x] /\ snap[r].role # NoRole
    <3>1. db'[Role(Home[proj[r]])] = Absent BY <2>1, <2>8, DeleteEffect
    <3>2. Committed(r, "delete")' BY <2>3, <2>8
    <3> QED BY <2>1, <2>2, <2>6, <2>8, <3>1, <3>2
  <2>9. CASE /\ Committed(x, "reset")
             /\ db'[Role(RoleName(x))] = db[Role(RoleName(x))]
    <3>1. CASE \E q \in Requests : /\ Committed(q, "reset") /\ proj[q] = proj[x]
                                  /\ q = db[Role(RoleName(x))]
      BY <2>1, <2>2, <2>3, <2>9, <3>1
    <3>2. CASE /\ db[Role(RoleName(x))] = Absent
               /\ \E d \in Requests : /\ Committed(d, "delete")
                                     /\ proj[d] = proj[x]
                                     /\ snap[d].role # NoRole
      BY <2>1, <2>2, <2>3, <2>9, <3>2
    <3> QED BY <2>9, <3>1, <3>2 DEF ResetHolds
  <2>10. \/ op[r] = "reset" /\ proj[r] = proj[x]
         \/ op[r] = "delete" /\ proj[r] = proj[x] /\ snap[r].role # NoRole
         \/ /\ Committed(x, "reset")
            /\ db'[Role(RoleName(x))] = db[Role(RoleName(x))]
    <3>1. CASE proj[r] # proj[x]
      <4>1. Home[proj[x]] \in Schemas \ {Home[proj[r]]}
        BY <2>4, <2>6, <3>1, OneHome
      <4>2. db'[Role(RoleName(x))] = db[Role(RoleName(x))]
        BY <2>1, <2>6, <4>1, CommitElsewhere
      <4> QED BY <2>5, <3>1, <4>2
    <3>2. CASE proj[r] = proj[x] /\ op[r] = "delete" /\ snap[r].role = NoRole
      <4>1. db'[Role(Home[proj[r]])] = db[Role(Home[proj[r]])]
        BY <2>1, <3>2, DeleteEffect
      <4> QED BY <2>5, <2>6, <3>2, <4>1
    <3>3. CASE proj[r] = proj[x] /\ op[r] \in Queries
      <4>1. db'[Role(Home[proj[r]])] = db[Role(Home[proj[r]])]
        BY <2>1, <3>3, QueryEffect
      <4>2. op[r] # "reset" BY <3>3 DEF Queries
      <4> QED BY <2>5, <2>6, <3>3, <4>1, <4>2
    <3> QED BY <2>4, <3>1, <3>2, <3>3
  <2> QED BY <2>7, <2>8, <2>9, <2>10
<1> QED BY <1>1, <1>2, StepShape DEF Held, Inductive

(* What has become of the row that a handler has read.                     *)
Since(r) ==
  LET row == db[Row(proj[r])] IN
  /\ row = Absent =>
       \E d \in Requests : Committed(d, "delete") /\ proj[d] = proj[r]
  /\ row # Absent /\ snap[r].role # NoRole => row.role # NoRole
  /\ row # Absent /\ snap[r].role = NoRole /\ row.role # NoRole =>
       \E q \in Requests : /\ Committed(q, "reset") /\ snap[q].role = NoRole
                           /\ proj[q] = proj[r]

LEMMA SinceQuiet ==
  ASSUME Quiet, NEW q \in Requests, Since(q),
         proj'[q] = proj[q], snap'[q] = snap[q]
  PROVE  Since(q)'
<1>1. db'[Row(proj[q])] = db[Row(proj[q])] BY QuietCells
<1>2. \A d \in Requests : \A o : Committed(d, o) =>
        Committed(d, o)' /\ proj'[d] = proj[d] /\ snap'[d] = snap[d]
  BY HistoryQuiet
<1> QED BY <1>1, <1>2 DEF Since

LEMMA SinceCommit ==
  ASSUME Held, Accounted, RowsHaveRoles,
         NEW r \in Requests, CommitsOne(r),
         NEW q \in Requests, Since(q), proj[q] \in Projects
  PROVE  Since(q)'
<1> DEFINE row == Row(proj[q])
<1>1. Committing(r) /\ \A x \in Requests : snap'[x] = snap[x] /\ proj'[x] = proj[x]
  BY DEF CommitsOne
<1>2. \A d \in Requests : \A o :
        Committed(d, o)' <=> Committed(d, o) \/ (d = r /\ op[r] = o)
  BY HistoryGrows
<1>3. /\ op[r] \in {"reset", "delete"} \union Queries
      /\ proj[r] \in Projects /\ Home[proj[r]] \in Schemas
  BY <1>1, CommitOps DEF Committing, Held
<1>4. CASE db'[row] = db[row] BY <1>1, <1>2, <1>4 DEF Since
<1>5. CASE proj[r] = proj[q] /\ op[r] = "delete"
  <2>1. db'[row] = Absent BY <1>1, <1>5, DeleteEffect
  <2>2. Committed(r, "delete")' BY <1>2, <1>5
  <2> QED BY <1>1, <1>5, <2>1, <2>2 DEF Since
<1>6. CASE proj[r] = proj[q] /\ op[r] = "reset" /\ db[row] # Absent
  <2> DEFINE s == Home[proj[r]]
  <2>1. db'[row] = [schema |-> s, role |-> s, cipher |-> r]
    BY <1>1, <1>6, ResetEffect
  <2>2. db'[row] # Absent /\ db'[row].role # NoRole
    <3>1. [schema |-> s, role |-> s, cipher |-> r] \in
            [schema : Schemas, role : Schemas \union {NoRole},
             cipher : Requests \union {Legacy, Absent}]
      BY <1>3
    <3> QED BY <1>3, <2>1, <3>1, SentinelAssumption
  <2>3. snap[q].role = NoRole =>
          \E x \in Requests : /\ Committed(x, "reset")' /\ snap[x].role = NoRole
                              /\ proj[x] = proj[q]
    <3> SUFFICES ASSUME snap[q].role = NoRole
                 PROVE  \E x \in Requests :
                          /\ Committed(x, "reset")' /\ snap[x].role = NoRole
                          /\ proj[x] = proj[q]
      OBVIOUS
    <3>1. CASE db[row].role # NoRole
      BY <1>2, <1>6, <3>1 DEF Since
    <3>2. CASE db[row].role = NoRole
      <4>1. db[Role(s)] = Absent BY <1>3, <1>6, <3>2 DEF RowsHaveRoles
      <4>2. snap[r].role = NoRole BY <1>1, <1>6, <4>1, ResetEffect
      <4>3. Committed(r, "reset")' BY <1>2, <1>6
      <4> QED BY <1>6, <4>2, <4>3
    <3> QED BY <3>1, <3>2
  <2> QED BY <1>1, <2>2, <2>3 DEF Since
<1>7. \/ db'[row] = db[row]
      \/ proj[r] = proj[q] /\ op[r] = "delete"
      \/ proj[r] = proj[q] /\ op[r] = "reset" /\ db[row] # Absent
  <2>1. CASE proj[r] # proj[q]
    <3>1. proj[q] \in Ids \ {proj[r]} BY <2>1, OneHome
    <3> QED BY <1>1, <3>1, CommitElsewhere
  <2>2. CASE proj[r] = proj[q] /\ op[r] = "reset" /\ db[row] = Absent
    <3>1. db[Row(proj[r])] = Absent /\ op[r] = "reset" BY <2>2
    <3>2. db'[Row(proj[r])] = Absent BY <1>1, <3>1, ResetEffect
    <3> QED BY <2>2, <3>1, <3>2
  <2>3. CASE proj[r] = proj[q] /\ op[r] \in Queries
    BY <1>1, <2>3, QueryEffect
  <2> QED BY <1>3, <2>1, <2>2, <2>3
<1> QED BY <1>4, <1>5, <1>6, <1>7

LEMMA StepSinceRead ==
  ASSUME Held, Accounted, RowsHaveRoles, SinceRead, [Next]_vars
  PROVE  SinceRead'
<1>1. \A q \in Requests : pc[q] = "sql" /\ op[q] # "create" => Since(q)
  BY DEF SinceRead, Since
<1>2. ASSUME NEW q \in Requests, pc[q] = "sql", op[q] # "create",
             proj'[q] = proj[q], snap'[q] = snap[q]
      PROVE  Since(q)'
  <2>1. Since(q) BY <1>1, <1>2
  <2>2. proj[q] \in Projects BY <1>2, AtHome DEF Held, Inductive
  <2>3. CASE Quiet BY <1>2, <2>1, <2>3, SinceQuiet
  <2>4. ASSUME NEW r \in Requests, CommitsOne(r) PROVE Since(q)'
    BY <2>1, <2>2, <2>4, SinceCommit
  <2> QED BY <2>3, <2>4, StepShape DEF Held, Inductive
<1>3. CASE UNCHANGED vars
  <2>1. \A q \in Requests : pc'[q] = "sql" /\ op'[q] # "create" => Since(q)'
    BY <1>2, <1>3 DEF vars
  <2> QED BY <2>1 DEF SinceRead, Since
<1>4. ASSUME NEW r \in Requests, Acts(r) PROVE SinceRead'
  <2>1. ASSUME NEW q \in Requests, pc'[q] = "sql", op'[q] # "create"
        PROVE  Since(q)'
    <3>1. CASE q # r
      <4>1. Same(q) BY <1>4, <3>1, OneMoves DEF Held, Inductive
      <4> QED BY <1>2, <2>1, <4>1 DEF Same
    <3>2. CASE q = r /\ Execute(r)
      <4>1. /\ pc[r] = "sql" /\ op' = op /\ proj' = proj /\ snap' = snap
        BY <3>2 DEF Execute, InStatement
      <4> QED BY <1>2, <2>1, <3>2, <4>1
    <3>3. CASE q = r /\ Looked(r)
      <4>1. op[r] # "create" /\ pc[r] \in {"probe", "read"}
        BY <2>1, <3>3 DEF Looked
      <4>2. pc[r] = "read" BY <4>1 DEF Held, Inductive, Located
      <4>3. db[Row(proj[r])] # Absent /\ snap'[r] = db[Row(proj[r])]
            /\ proj'[r] = proj[r]
        BY <2>1, <3>3, <4>2 DEF Looked
      <4>4. db' = db
        <5>1. \A x \in Requests : ~Committing(x) /\ ~AuditReveal(x)
          <6> SUFFICES ASSUME NEW x \in Requests, Committing(x) \/ AuditReveal(x)
                       PROVE  FALSE
            OBVIOUS
          <6>1. pc[x] \in {"sql", "audit"} /\ pc'[x] \in {"history", "done"}
            BY DEF Committing, AtCommit, AuditReveal, Respond, Held, Inductive, TypeOK
          <6>2. x # r BY <4>2, <6>1
          <6>3. Same(x) BY <1>4, <6>2, OneMoves DEF Held, Inductive
          <6> QED BY <6>1, <6>3 DEF Same
        <5> QED BY <5>1, DbChanges DEF Held, Inductive
      <4> QED BY <3>3, <4>3, <4>4 DEF Since
    <3>4. CASE q = r /\ (Arrived(r) \/ Ended(r))
      BY <2>1, <3>4 DEF Arrived, Ended
    <3> QED BY <1>4, <3>1, <3>2, <3>3, <3>4, HowItMoves DEF Held, Inductive
  <2> QED BY <2>1 DEF SinceRead, Since
<1> QED BY <1>3, <1>4 DEF Next, Acts, Rest

-----------------------------------------------------------------------------
(* Roles without a project, and without CONNECT                            *)

(* A role nobody's row names.                                              *)
Orphan(s) ==
  /\ db[Role(s)] # Absent
  /\ \A p \in Ids : db[Row(p)] # Absent => db[Row(p)].role # s

(* Who left it behind.                                                     *)
LeftBehind(s) ==
  \E d, q \in Requests :
    /\ Committed(d, "delete") /\ snap[d].schema = s
    /\ Committed(q, "reset") /\ snap[q].schema = s
    /\ snap[q].role = NoRole
    /\ \/ snap[d].role = NoRole
       \/ \E c \in Requests : Committed(c, "CreateSchema") /\ snap[c].schema = s

LEMMA LeftBehindStays ==
  ASSUME NEW s, LeftBehind(s),
         \A q \in Requests : \A o : Committed(q, o) =>
           Committed(q, o)' /\ snap'[q] = snap[q]
  PROVE  LeftBehind(s)'
<1>1. PICK d \in Requests, q \in Requests :
        /\ Committed(d, "delete") /\ snap[d].schema = s
        /\ Committed(q, "reset") /\ snap[q].schema = s
        /\ snap[q].role = NoRole
        /\ \/ snap[d].role = NoRole
           \/ \E c \in Requests : Committed(c, "CreateSchema") /\ snap[c].schema = s
  BY DEF LeftBehind
<1>2. /\ Committed(d, "delete")' /\ snap'[d] = snap[d]
      /\ Committed(q, "reset")' /\ snap'[q] = snap[q]
  BY <1>1
<1>3. (\E c \in Requests : Committed(c, "CreateSchema") /\ snap[c].schema = s) =>
        \E c \in Requests : Committed(c, "CreateSchema")' /\ snap'[c].schema = s
  OBVIOUS
<1> QED BY <1>1, <1>2, <1>3 DEF LeftBehind

(* A reset-password that gives a deleted project's role.                   *)
LEMMA ResetLeavesBehind ==
  ASSUME Held, Accounted, SinceRead, DeletedSchemaGone,
         NEW r \in Requests, CommitsOne(r), NEW s, s = Home[proj[r]],
         op[r] = "reset",
         snap[r].role = NoRole, db[Row(proj[r])] = Absent
  PROVE  LeftBehind(s)'
<1>1. Committing(r) /\ \A x \in Requests : snap'[x] = snap[x] /\ proj'[x] = proj[x]
  BY DEF CommitsOne
<1>2. pc[r] = "sql" /\ snap[r].schema = s
  BY <1>1, CommitOps DEF Committing, Held
<1>3. PICK d \in Requests : Committed(d, "delete") /\ proj[d] = proj[r]
  BY <1>2 DEF SinceRead
<1>4. snap[d].schema = s BY <1>3, CommittedHome
<1>5. db[Schema(s)] = "present" BY <1>1, ResetEffect
<1>6. PICK c \in Requests : Committed(c, "CreateSchema") /\ snap[c].schema = s
  BY <1>3, <1>4, <1>5 DEF DeletedSchemaGone
<1>7. /\ Committed(d, "delete")' /\ Committed(c, "CreateSchema")'
      /\ Committed(r, "reset")'
  BY <1>3, <1>6, HistoryGrows
<1> QED BY <1>1, <1>2, <1>4, <1>6, <1>7 DEF LeftBehind

(* A delete that had read the row before it got a role.                    *)
LEMMA DeleteLeavesBehind ==
  ASSUME Held, Accounted, RowsHaveRoles, SinceRead,
         NEW r \in Requests, CommitsOne(r), NEW s, s = Home[proj[r]],
         op[r] = "delete",
         snap[r].role = NoRole, db[Row(proj[r])] # Absent,
         db[Role(s)] # Absent
  PROVE  LeftBehind(s)'
<1>1. Committing(r) /\ \A x \in Requests : snap'[x] = snap[x] /\ proj'[x] = proj[x]
  BY DEF CommitsOne
<1>2. pc[r] = "sql" /\ snap[r].schema = s /\ proj[r] \in Projects
  BY <1>1, CommitOps DEF Committing, Held
<1>3. db[Row(proj[r])].role # NoRole BY <1>2 DEF RowsHaveRoles
<1>4. PICK q \in Requests : /\ Committed(q, "reset") /\ snap[q].role = NoRole
                            /\ proj[q] = proj[r]
  BY <1>2, <1>3 DEF SinceRead
<1>5. snap[q].schema = s BY <1>4, CommittedHome
<1>6. Committed(q, "reset")' /\ Committed(r, "delete")'
  BY <1>4, HistoryGrows
<1> QED BY <1>1, <1>2, <1>4, <1>5, <1>6 DEF LeftBehind

LEMMA StepOrphans ==
  ASSUME Held, Accounted, RowsHaveRoles, SinceRead, DeletedSchemaGone,
         OrphanRoleExplained, [Next]_vars
  PROVE  OrphanRoleExplained'
<1>1. \A s \in Schemas : Orphan(s) => LeftBehind(s)
  BY DEF OrphanRoleExplained, Orphan, LeftBehind
<1> SUFFICES ASSUME NEW s \in Schemas, Orphan(s)' PROVE LeftBehind(s)'
  BY DEF OrphanRoleExplained, Orphan, LeftBehind
<1>2. CASE Quiet
  <2>1. Orphan(s) BY <1>2, QuietCells DEF Orphan
  <2>2. \A q \in Requests : \A o : Committed(q, o) =>
          Committed(q, o)' /\ snap'[q] = snap[q]
    BY <1>2, HistoryQuiet
  <2> QED BY <1>1, <2>1, <2>2, LeftBehindStays
<1>3. ASSUME NEW r \in Requests, CommitsOne(r) PROVE LeftBehind(s)'
  <2> DEFINE p == proj[r]
             t == Home[p]
  <2>1. Committing(r) /\ \A x \in Requests : snap'[x] = snap[x] BY <1>3 DEF CommitsOne
  <2>2. /\ op[r] \in {"reset", "delete"} \union Queries
        /\ p \in Projects /\ p \in Ids /\ t \in Schemas
        /\ snap[r].role \in {NoRole, t} /\ t # NoRole
    BY <2>1, CommitOps, SentinelAssumption DEF Committing, Held
  <2>3. \A q \in Requests : \A o : Committed(q, o) =>
          Committed(q, o)' /\ snap'[q] = snap[q]
    BY <1>3, HistoryGrows
  <2>4. Orphan(s) => LeftBehind(s)' BY <1>1, <2>3, LeftBehindStays
  <2>5. \A x \in Ids \ {p} : db'[Row(x)] = db[Row(x)]
    BY <2>1, CommitElsewhere
  <2>6. db[Row(p)] # Absent => db[Row(p)].role \in {NoRole, t}
    BY <2>2 DEF Held, Inductive, RowsAtHome, HomeRow
  <2>7. db'[Role(s)] # Absent
        /\ \A x \in Ids : db'[Row(x)] # Absent => db'[Row(x)].role # s
    BY DEF Orphan
  <2>8. s # NoRole BY SentinelAssumption
  <2>9. CASE s # t
    <3>1. db'[Role(s)] = db[Role(s)] BY <2>1, <2>9, CommitElsewhere
    <3>2. Orphan(s) BY <2>5, <2>6, <2>7, <2>8, <2>9, <3>1 DEF Orphan
    <3> QED BY <2>4, <3>2
  <2>10. ASSUME s = t, db'[Role(s)] = db[Role(s)],
                db'[Row(p)] = db[Row(p)] \/ db[Row(p)] = Absent
         PROVE  LeftBehind(s)'
    <3>1. Orphan(s) BY <2>5, <2>7, <2>10 DEF Orphan
    <3> QED BY <2>4, <3>1
  <2>11. CASE s = t /\ op[r] = "reset"
    <3>1. db[Row(p)] = Absent
      <4> SUFFICES ASSUME db[Row(p)] # Absent PROVE FALSE OBVIOUS
      <4>1. db'[Row(p)] = [schema |-> t, role |-> t, cipher |-> r]
        BY <2>1, <2>11, ResetEffect
      <4>2. db'[Row(p)] # Absent
        <5>1. [schema |-> t, role |-> t, cipher |-> r] \in
                [schema : Schemas, role : Schemas \union {NoRole},
                 cipher : Requests \union {Legacy, Absent}]
          BY <2>2
        <5> QED BY <4>1, <5>1, SentinelAssumption
      <4> QED BY <2>2, <2>7, <2>11, <4>1, <4>2
    <3>2. CASE snap[r].role = NoRole
      BY <1>3, <2>11, <3>1, <3>2, ResetLeavesBehind
    <3>3. CASE snap[r].role # NoRole
      <4>1. db[Role(t)] # Absent /\ db'[Row(p)] = Absent
        BY <2>1, <2>11, <3>1, <3>3, ResetEffect
      <4>2. Orphan(s) BY <2>5, <2>7, <2>11, <3>1, <4>1 DEF Orphan
      <4> QED BY <2>4, <4>2
    <3> QED BY <3>2, <3>3
  <2>12. CASE s = t /\ op[r] = "delete"
    <3>1. snap[r].role = NoRole /\ db'[Role(t)] = db[Role(t)]
      BY <2>1, <2>7, <2>12, DeleteEffect
    <3>2. CASE db[Row(p)] = Absent
      BY <2>10, <2>12, <3>1, <3>2
    <3>3. CASE db[Row(p)] # Absent
      <4>1. db[Role(s)] # Absent BY <2>7, <2>12, <3>1
      <4> QED BY <1>3, <2>12, <3>1, <3>3, <4>1, DeleteLeavesBehind
    <3> QED BY <3>2, <3>3
  <2>13. CASE s = t /\ op[r] \in Queries
    <3>1. db'[Role(t)] = db[Role(t)] /\ db'[Row(p)] = db[Row(p)]
      BY <2>1, <2>13, QueryEffect
    <3> QED BY <2>10, <2>13, <3>1
  <2> QED BY <2>2, <2>9, <2>11, <2>12, <2>13
<1> QED BY <1>2, <1>3, StepShape DEF Held, Inductive

LEMMA StepConnect ==
  ASSUME Held, Accounted, ConnectGranted, [Next]_vars
  PROVE  ConnectGranted'
<1> SUFFICES ASSUME NEW s \in Schemas, db'[Role(s)] # Absent,
                    s \notin db'[DatabaseAcl]
             PROVE  \E q \in Requests : /\ Committed(q, "RevokeConnect")'
                                       /\ snap'[q].schema = s
  BY DEF ConnectGranted
<1>1. ASSUME db[Role(s)] # Absent, s \notin db[DatabaseAcl],
             \A q \in Requests : \A o : Committed(q, o) =>
               Committed(q, o)' /\ snap'[q] = snap[q]
      PROVE  \E q \in Requests : /\ Committed(q, "RevokeConnect")'
                                /\ snap'[q].schema = s
  <2>1. PICK q \in Requests : Committed(q, "RevokeConnect") /\ snap[q].schema = s
    BY <1>1 DEF ConnectGranted
  <2> QED BY <1>1, <2>1
<1>2. CASE Quiet
  <2>1. db[Role(s)] # Absent /\ s \notin db[DatabaseAcl] BY <1>2, QuietCells
  <2>2. \A q \in Requests : \A o : Committed(q, o) =>
          Committed(q, o)' /\ snap'[q] = snap[q]
    BY <1>2, HistoryQuiet
  <2> QED BY <1>1, <2>1, <2>2
<1>3. ASSUME NEW r \in Requests, CommitsOne(r)
      PROVE  \E q \in Requests : /\ Committed(q, "RevokeConnect")'
                                /\ snap'[q].schema = s
  <2> DEFINE t == Home[proj[r]]
  <2>1. Committing(r) /\ \A x \in Requests : snap'[x] = snap[x] BY <1>3 DEF CommitsOne
  <2>2. /\ op[r] \in {"reset", "delete"} \union Queries
        /\ snap[r].schema = t /\ t \in Schemas
    BY <2>1, CommitOps DEF Committing, Held
  <2>3. \A q \in Requests : \A o : Committed(q, o) =>
          Committed(q, o)' /\ snap'[q] = snap[q]
    BY <1>3, HistoryGrows
  <2>4. CASE s # t
    <3>1. s \in Schemas \ {t} BY <2>4
    <3>2. db[Role(s)] # Absent /\ s \notin db[DatabaseAcl]
      BY <2>1, <3>1, CommitElsewhere
    <3> QED BY <1>1, <2>3, <3>2
  <2>5. CASE s = t /\ op[r] = "reset"
    <3>1. db[Role(s)] # Absent /\ s \notin db[DatabaseAcl]
      <4>1. /\ snap[r].role = NoRole => t \in db'[DatabaseAcl]
            /\ snap[r].role # NoRole =>
                 db[Role(t)] # Absent /\ db'[DatabaseAcl] = db[DatabaseAcl]
        BY <2>1, <2>5, ResetEffect
      <4> QED BY <2>5, <4>1
    <3> QED BY <1>1, <2>3, <3>1
  <2>6. CASE s = t /\ op[r] = "delete"
    <3>1. /\ db'[DatabaseAcl] = db[DatabaseAcl]
          /\ snap[r].role = NoRole => db'[Role(t)] = db[Role(t)]
          /\ snap[r].role # NoRole => db'[Role(t)] = Absent
      BY <2>1, <2>6, DeleteEffect
    <3>2. db[Role(s)] # Absent /\ s \notin db[DatabaseAcl] BY <2>6, <3>1
    <3> QED BY <1>1, <2>3, <3>2
  <2>7. CASE s = t /\ op[r] = "RevokeConnect"
    <3>1. Committed(r, "RevokeConnect")' BY <1>3, <2>7, HistoryGrows
    <3> QED BY <2>1, <2>2, <2>7, <3>1
  <2>8. CASE s = t /\ op[r] \in Queries /\ op[r] # "RevokeConnect"
    <3>1. db'[Role(t)] = db[Role(t)] /\ db'[DatabaseAcl] = db[DatabaseAcl]
      BY <2>1, <2>8, QueryEffect
    <3>2. db[Role(s)] # Absent /\ s \notin db[DatabaseAcl] BY <2>8, <3>1
    <3> QED BY <1>1, <2>3, <3>2
  <2> QED BY <2>2, <2>4, <2>5, <2>6, <2>7, <2>8
<1> QED BY <1>2, <1>3, StepShape DEF Held, Inductive

-----------------------------------------------------------------------------
(* The invariant of the histories                                          *)

LEMMA InitExplained == Init => Held /\ Explained
<1> SUFFICES ASSUME Init PROVE Held /\ Explained OBVIOUS
<1>1. Held BY InitHeld
<1>2. \A r \in Requests :
        /\ pc[r] = "idle" /\ op[r] = "none" /\ answer[r] = "none"
        /\ fate[r] = "open"
  BY DEF Init
<1>3. \A r \in Requests, o \in {"create", "reset", "delete", "CreateSchema",
                                "RevokeConnect"} : ~Committed(r, o)
  BY <1>2 DEF Committed
<1>4. PICK kind \in [Projects -> Kinds] :
        db = [c \in Cells |-> InitialValue(kind, c)]
  BY DEF Init
<1>5. \A r \in Requests : db[AuditRow(r)] = "missing"
  BY <1>4, InitialValues, CellValues
<1>6. /\ \A p \in Projects : db[Row(p)] = InitialRow(kind, p)
      /\ \A s \in Schemas :
           db[Role(s)] = IF Named(kind, {"provisioned"}, s) THEN Legacy ELSE Absent
      /\ db[DatabaseAcl] = {s \in Schemas : Named(kind, {"provisioned"}, s)}
  BY <1>4, InitialValues, CellValues, OneHome
<1>7. Accounted BY <1>2, <1>5 DEF Accounted, Audited
<1>8. AnswersAccounted
  BY <1>2 DEF AnswersAccounted, AuditMatchesFate, RevealIsAudited,
              AnswerMeansCommitted
<1>9. ASSUME NEW p \in Projects, db[Row(p)] # Absent
      PROVE  IF kind[p] = "provisioned"
             THEN db[Row(p)] = ProvisionedRow(p)
             ELSE db[Row(p)] = LegacyRow(p)
  <2>1. CASE kind[p] = "none" BY <1>6, <1>9, <2>1 DEF InitialRow
  <2>2. CASE kind[p] = "provisioned" BY <1>6, <2>2 DEF InitialRow
  <2>3. CASE kind[p] \notin {"none", "provisioned"}
    BY <1>6, <2>3 DEF InitialRow
  <2> QED BY <2>1, <2>2, <2>3
<1>10. RowsHaveRoles
  <2> SUFFICES ASSUME NEW p \in Projects, db[Row(p)] # Absent
               PROVE  /\ db[Row(p)].role = NoRole => db[Role(Home[p])] = Absent
                      /\ db[Row(p)].role # NoRole => db[Row(p)].cipher # Absent
    BY DEF RowsHaveRoles
  <2>1. CASE kind[p] = "provisioned"
    <3>1. db[Row(p)] = ProvisionedRow(p) BY <1>9, <2>1
    <3>2. Home[p] # NoRole BY OneHome, SentinelAssumption
    <3> QED BY <3>1, <3>2, SentinelAssumption DEF ProvisionedRow
  <2>2. CASE kind[p] # "provisioned"
    <3>1. db[Row(p)] = LegacyRow(p) BY <1>9, <2>2
    <3>2. ~Named(kind, {"provisioned"}, Home[p]) BY <2>2, OneHome DEF Named
    <3>3. db[Role(Home[p])] = Absent BY <1>6, <3>2, OneHome
    <3> QED BY <3>1, <3>3 DEF LegacyRow
  <2> QED BY <2>1, <2>2
<1>11. SinceRead BY <1>2 DEF SinceRead
<1>12. DeletedSchemaGone BY <1>3 DEF DeletedSchemaGone
<1>13. ResetHolds BY <1>3 DEF ResetHolds
<1>14. DoubleDeleteExplained BY <1>3 DEF DoubleDeleteExplained
<1>15. OrphanRoleExplained
  <2> SUFFICES ASSUME NEW s \in Schemas, Orphan(s) PROVE FALSE
    BY DEF OrphanRoleExplained, Orphan
  <2>1. PICK p \in Projects : kind[p] = "provisioned" /\ Home[p] = s
    <3>1. Named(kind, {"provisioned"}, s) BY <1>6 DEF Orphan
    <3> QED BY <3>1 DEF Named
  <2>2. db[Row(p)] = ProvisionedRow(p) BY <1>6, <2>1 DEF InitialRow
  <2>3. db[Row(p)] # Absent
    <3>1. ProvisionedRow(p) \in
            [schema : Schemas, role : Schemas \union {NoRole},
             cipher : Requests \union {Legacy, Absent}]
      BY OneHome DEF ProvisionedRow
    <3> QED BY <2>2, <3>1, SentinelAssumption
  <2> QED BY <2>1, <2>2, <2>3, OneHome DEF Orphan, ProvisionedRow
<1>16. ConnectGranted BY <1>6 DEF ConnectGranted
<1> QED BY <1>1, <1>7, <1>8, <1>10, <1>11, <1>12, <1>13, <1>14, <1>15, <1>16
        DEF Explained, Held, RolesExplained

LEMMA StepExplained ==
  ASSUME Held, Explained, [Next]_vars
  PROVE  Held' /\ Explained'
<1> USE DEF Explained, RolesExplained
<1>1. Held' BY StepInductive, StepHeld DEF Held
<1>2. Accounted' /\ AnswersAccounted' BY StepTold
<1>3. RowsHaveRoles' BY StepRowsHaveRoles
<1>4. SinceRead' BY StepSinceRead
<1>5. DeletedSchemaGone' BY StepDeletedSchemaGone
<1>6. ResetHolds' BY StepResetHolds
<1>7. OrphanRoleExplained' BY StepOrphans
<1>8. ConnectGranted' BY StepConnect
<1>9. DoubleDeleteExplained' BY StepDoubleDelete
<1> QED BY <1>1, <1>2, <1>3, <1>4, <1>5, <1>6, <1>7, <1>8, <1>9 DEF Held

LEMMA AlwaysExplained == Spec => [](Held /\ Explained)
<1>1. Held /\ Explained /\ [Next]_vars => (Held /\ Explained)' BY StepExplained
<1> QED BY <1>1, InitExplained, PTL DEF Spec

(* What a request was told, what it committed and what was audited agree:  *)
(* create, delete, reset-password and connection info of projects.rs.      *)
THEOREM AnswersAgree == Spec => []AnswersAccounted
<1>1. Held /\ Explained => AnswersAccounted BY DEF Explained
<1> QED BY <1>1, AlwaysExplained, PTL

(* A login role without a project, or without its CONNECT, is the work of  *)
(* the requests that the property names, and of no others.                 *)
THEOREM RolesHaveHistories == Spec => []RolesExplained
<1>1. Held /\ Explained => RolesExplained BY DEF Explained
<1> QED BY <1>1, AlwaysExplained, PTL

(* The password of the last committed reset-password is the role's.        *)
THEOREM ResetsHold == Spec => []ResetHolds
<1>1. Held /\ Explained => ResetHolds BY DEF Explained
<1> QED BY <1>1, AlwaysExplained, PTL

-----------------------------------------------------------------------------
(* Deletes                                                                 *)

LEMMA ConnectPins ==
  ASSUME Held, Explained, [Next]_vars
  PROVE  ConnectPinsProject
<1> SUFFICES ASSUME NEW p \in Projects, db[Row(p)] # Absent,
                    db[Row(p)].role \in db[DatabaseAcl], db'[Row(p)] = Absent
             PROVE  \E d \in Requests :
                      /\ op[d] = "delete" /\ proj[d] = p
                      /\ snap[d].role = NoRole
                      /\ fate[d] = "open" /\ fate'[d] = "committed"
  BY DEF ConnectPinsProject
<1> DEFINE s == Home[p]
<1>1. ~Quiet BY QuietCells
<1>2. PICK r \in Requests : CommitsOne(r)
  BY <1>1, StepShape DEF Held, Inductive, Explained
<1>3. Committing(r) /\ fate'[r] = "committed" BY <1>2 DEF CommitsOne
<1>4. /\ op[r] \in {"reset", "delete"} \union Queries
      /\ proj[r] \in Projects /\ pc[r] = "sql" /\ snap[r].role \in {NoRole, Home[proj[r]]}
  BY <1>3, CommitOps DEF Committing, Held
<1>5. proj[r] = p
  <2> SUFFICES ASSUME proj[r] # p PROVE FALSE OBVIOUS
  <2>1. p \in Ids \ {proj[r]} BY OneHome
  <2> QED BY <1>3, <2>1, CommitElsewhere
<1>6. op[r] = "delete"
  <2>1. op[r] # "reset"
    <3> SUFFICES ASSUME op[r] = "reset" PROVE FALSE OBVIOUS
    <3>1. db'[Row(p)] = [schema |-> s, role |-> s, cipher |-> r]
      BY <1>3, <1>5, ResetEffect
    <3>2. [schema |-> s, role |-> s, cipher |-> r] \in
            [schema : Schemas, role : Schemas \union {NoRole},
             cipher : Requests \union {Legacy, Absent}]
      BY OneHome
    <3> QED BY <3>1, <3>2, SentinelAssumption
  <2>2. op[r] \notin Queries BY <1>3, <1>5, QueryEffect
  <2> QED BY <1>4, <2>1, <2>2
<1>7. fate[r] = "open" BY <1>4 DEF Held, Inductive, Located
<1>8. snap[r].role = NoRole
  <2> SUFFICES ASSUME snap[r].role # NoRole PROVE FALSE OBVIOUS
  <2>1. db[Role(s)] = Absent \/ s \notin db[DatabaseAcl]
    BY <1>3, <1>5, <1>6, DeleteEffect
  <2>2. db[DatabaseAcl] \subseteq Schemas
    BY CellValues DEF Held, Inductive, TypeOK, Typed
  <2>3. db[Row(p)].role # NoRole BY <2>2, SentinelAssumption
  <2>4. db[Row(p)].role = s
    BY <2>3, OneHome DEF Held, Inductive, RowsAtHome, HomeRow
  <2>5. db[Role(s)] = db[Row(p)].cipher
    BY <2>3, <2>4, OneHome DEF Held, Inductive, CredentialsInSync
  <2>6. db[Row(p)].cipher # Absent BY <2>3 DEF Explained, RowsHaveRoles
  <2> QED BY <2>1, <2>4, <2>5, <2>6
<1> QED BY <1>3, <1>5, <1>6, <1>7, <1>8

(* A project whose role may CONNECT is removed only by a delete that read  *)
(* the row before it had that role; it is removed twice only after its     *)
(* schema was created again.                                               *)
THEOREM DeletesHaveReasons == Spec => DeletesExplained
<1>1. Held /\ Explained /\ [Next]_vars =>
        [DoubleDeleteExplained' /\ ConnectPinsProject]_vars
  BY StepExplained, ConnectPins DEF Explained
<1> QED BY <1>1, AlwaysExplained, PTL DEF Spec, DeletesExplained

-----------------------------------------------------------------------------
(* The refinement of ProjectStore                                          *)

(* The abstract variables, as the refinement mapping defines them.         *)
storedNow ==
  [p \in Projects |->
     LET row == db[Row(p)] IN
     CASE row = Absent -> Absent
       [] row # Absent /\ row.role = NoRole -> NoRole
       [] OTHER -> row.cipher]
loginNow ==
  [p \in Projects |->
     LET pw == db[Role(Home[p])] IN IF pw = Absent THEN NoRole ELSE pw]
logNow ==
  {<<op[r], proj[r], r>> :
     r \in {q \in Requests : op[q] \in {"delete", "reset"} /\ Audited(q)}}

LEMMA StoredFacts ==
  /\ DOMAIN storedNow = Projects
  /\ \A p \in Projects :
       /\ db[Row(p)] = Absent => storedNow[p] = Absent
       /\ db[Row(p)] # Absent =>
            storedNow[p] = IF db[Row(p)].role = NoRole THEN NoRole
                           ELSE db[Row(p)].cipher
<1>1. ASSUME NEW p \in Projects, db[Row(p)] = Absent
      PROVE  storedNow[p] = Absent
  BY <1>1 DEF storedNow
<1>2. ASSUME NEW p \in Projects, db[Row(p)] # Absent, db[Row(p)].role = NoRole
      PROVE  storedNow[p] = NoRole
  BY <1>2 DEF storedNow
<1>3. ASSUME NEW p \in Projects, db[Row(p)] # Absent, db[Row(p)].role # NoRole
      PROVE  storedNow[p] = db[Row(p)].cipher
  BY <1>3 DEF storedNow
<1> QED BY <1>1, <1>2, <1>3 DEF storedNow

(* The log holds the deletes and resets that have committed.               *)
LEMMA LogFacts ==
  ASSUME AnswersAccounted, NEW x
  PROVE  x \in logNow <=>
           \E q \in Requests : /\ x = <<op[q], proj[q], q>>
                               /\ op[q] \in {"delete", "reset"}
                               /\ fate[q] = "committed"
BY DEF logNow, AnswersAccounted, AuditMatchesFate

LEMMA InitStore == Init => Store!Init
<1> SUFFICES ASSUME Init PROVE Store!Init OBVIOUS
<1>1. PICK kind \in [Projects -> Kinds] :
        db = [c \in Cells |-> InitialValue(kind, c)]
  BY DEF Init
<1>2. \A p \in Projects :
        /\ db[Row(p)] = InitialRow(kind, p)
        /\ db[Role(Home[p])] =
             IF Named(kind, {"provisioned"}, Home[p]) THEN Legacy ELSE Absent
  BY <1>1, InitialValues, CellValues, OneHome
<1>3. ASSUME NEW p \in Projects
      PROVE  \/ storedNow[p] = Absent /\ loginNow[p] = NoRole
             \/ storedNow[p] = NoRole /\ loginNow[p] = NoRole
             \/ storedNow[p] = Legacy /\ loginNow[p] = Legacy
  <2>1. CASE kind[p] = "provisioned"
    <3>1. db[Row(p)] = ProvisionedRow(p) BY <1>2, <2>1 DEF InitialRow
    <3>2. ProvisionedRow(p) # Absent
      <4>1. ProvisionedRow(p) \in
              [schema : Schemas, role : Schemas \union {NoRole},
               cipher : Requests \union {Legacy, Absent}]
        BY OneHome DEF ProvisionedRow
      <4> QED BY <4>1, SentinelAssumption
    <3>3. ProvisionedRow(p).role = Home[p] /\ ProvisionedRow(p).cipher = Legacy
      BY DEF ProvisionedRow
    <3>4. storedNow[p] = Legacy
      BY <3>1, <3>2, <3>3, StoredFacts, OneHome, SentinelAssumption
    <3>5. db[Role(Home[p])] = Legacy BY <1>2, <2>1 DEF Named
    <3>6. loginNow[p] = Legacy BY <3>5, SentinelAssumption DEF loginNow
    <3> QED BY <3>4, <3>6
  <2>2. CASE kind[p] # "provisioned"
    <3>1. ~Named(kind, {"provisioned"}, Home[p]) BY <2>2, OneHome DEF Named
    <3>2. loginNow[p] = NoRole BY <1>2, <3>1 DEF loginNow
    <3>3. db[Row(p)] = Absent \/ db[Row(p)] = LegacyRow(p)
      <4>1. CASE kind[p] = "none" BY <1>2, <4>1 DEF InitialRow
      <4>2. CASE kind[p] \notin {"none", "provisioned"}
        BY <1>2, <4>2 DEF InitialRow
      <4> QED BY <2>2, <4>1, <4>2
    <3>4. LegacyRow(p).role = NoRole BY DEF LegacyRow
    <3> QED BY <3>2, <3>3, <3>4, StoredFacts
  <2> QED BY <2>1, <2>2
<1>4. storedNow \in [Projects -> Passwords \union {NoRole, Absent}]
  BY <1>3, StoredFacts DEF storedNow, Passwords
<1>5. loginNow = [p \in Projects |->
                    IF storedNow[p] \in Passwords THEN storedNow[p] ELSE NoRole]
  BY <1>3, SentinelAssumption DEF loginNow, Passwords
<1>6. logNow = {} BY DEF Init, logNow
<1> QED BY <1>4, <1>5, <1>6 DEF Store!Init, storedNow, loginNow, logNow

(* A step that commits nothing leaves the store alone.                     *)
LEMMA StoreQuiet ==
  ASSUME Quiet, AnswersAccounted, AnswersAccounted'
  PROVE  storedNow' = storedNow /\ loginNow' = loginNow /\ logNow' = logNow
<1>1. storedNow' = storedNow BY QuietCells DEF storedNow
<1>2. loginNow' = loginNow BY QuietCells DEF loginNow
<1>3. ASSUME NEW x PROVE x \in logNow' <=> x \in logNow
  <2>1. x \in logNow' <=>
          \E q \in Requests : /\ x = <<op'[q], proj'[q], q>>
                              /\ op'[q] \in {"delete", "reset"}
                              /\ fate'[q] = "committed"
    BY DEF logNow, AnswersAccounted, AuditMatchesFate
  <2> QED BY <2>1, LogFacts DEF Quiet
<1> QED BY <1>1, <1>2, <1>3

(* A commit adds itself to the log, and changes the store of its project.  *)
LEMMA StoreCommit ==
  ASSUME Held, AnswersAccounted, AnswersAccounted',
         NEW r \in Requests, CommitsOne(r)
  PROVE
  LET p == proj[r] IN
  /\ p \in Projects
  /\ \A x \in Projects \ {p} :
       storedNow'[x] = storedNow[x] /\ loginNow'[x] = loginNow[x]
  /\ op[r] \in {"delete", "reset"} => logNow' = logNow \union {<<op[r], p, r>>}
  /\ op[r] \notin {"delete", "reset"} => logNow' = logNow
<1> DEFINE p == proj[r]
<1>1. Committing(r) BY DEF CommitsOne
<1>2. p \in Projects /\ Home[p] \in Schemas
  BY <1>1, CommitOps DEF Committing, Held
<1>3. ASSUME NEW x \in Projects \ {p}
      PROVE  storedNow'[x] = storedNow[x] /\ loginNow'[x] = loginNow[x]
  <2>1. x \in Ids \ {p} /\ Home[x] \in Schemas \ {Home[p]} BY <1>2, OneHome
  <2>2. db'[Row(x)] = db[Row(x)] /\ db'[Role(Home[x])] = db[Role(Home[x])]
    BY <1>1, <2>1, CommitElsewhere
  <2>3. storedNow'[x] = storedNow[x] BY <2>2 DEF storedNow
  <2>4. loginNow'[x] = loginNow[x] BY <2>2 DEF loginNow
  <2> QED BY <2>3, <2>4
<1>4. ASSUME NEW x
      PROVE  x \in logNow' <=>
               \/ x \in logNow
               \/ op[r] \in {"delete", "reset"} /\ x = <<op[r], p, r>>
  <2>1. x \in logNow' <=>
          \E q \in Requests : /\ x = <<op'[q], proj'[q], q>>
                              /\ op'[q] \in {"delete", "reset"}
                              /\ fate'[q] = "committed"
    BY DEF logNow, AnswersAccounted, AuditMatchesFate
  <2>2. \A q \in Requests :
          /\ fate'[q] = "committed" <=> fate[q] = "committed" \/ q = r
          /\ op'[q] = op[q] /\ proj'[q] = proj[q]
    BY DEF CommitsOne
  <2> QED BY <2>1, <2>2, LogFacts
<1> QED BY <1>2, <1>3, <1>4

LEMMA StoreReset ==
  ASSUME Held, Explained, NEW r \in Requests, CommitsOne(r), op[r] = "reset"
  PROVE
  LET p == proj[r] IN
  /\ loginNow'[p] = r
  /\ IF storedNow[p] = Absent THEN storedNow'[p] = Absent ELSE storedNow'[p] = r
<1> DEFINE p == proj[r]
           s == Home[p]
<1>1. Committing(r) BY DEF CommitsOne
<1>2. p \in Projects /\ s \in Schemas
  BY <1>1, CommitOps DEF Committing, Held
<1>3. db'[Role(s)] = r BY <1>1, ResetEffect
<1>4. loginNow'[p] = r
  BY <1>2, <1>3, SentinelAssumption DEF loginNow
<1>5. CASE db[Row(p)] = Absent
  <2>1. db'[Row(p)] = Absent BY <1>1, <1>5, ResetEffect
  <2>2. storedNow'[p] = Absent BY <1>2, <2>1 DEF storedNow
  <2>3. storedNow[p] = Absent BY <1>2, <1>5, StoredFacts
  <2> QED BY <1>4, <2>2, <2>3
<1>6. CASE db[Row(p)] # Absent
  <2>1. db'[Row(p)] = [schema |-> s, role |-> s, cipher |-> r]
    BY <1>1, <1>6, ResetEffect
  <2>2. db'[Row(p)] # Absent
    <3>1. [schema |-> s, role |-> s, cipher |-> r] \in
            [schema : Schemas, role : Schemas \union {NoRole},
             cipher : Requests \union {Legacy, Absent}]
      BY <1>2
    <3> QED BY <2>1, <3>1, SentinelAssumption
  <2>3. db'[Row(p)].role # NoRole /\ db'[Row(p)].cipher = r
    BY <1>2, <2>1, SentinelAssumption
  <2>4. storedNow'[p] = r BY <1>2, <2>2, <2>3 DEF storedNow
  <2>5. storedNow[p] # Absent
    BY <1>2, <1>6, StoredFacts, SentinelAssumption DEF Explained, RowsHaveRoles
  <2> QED BY <1>4, <2>4, <2>5
<1> QED BY <1>5, <1>6

LEMMA StoreDelete ==
  ASSUME Held, NEW r \in Requests, CommitsOne(r), op[r] = "delete"
  PROVE
  LET p == proj[r] IN
  /\ storedNow'[p] = Absent
  /\ loginNow'[p] = loginNow[p] \/ loginNow'[p] = NoRole
<1> DEFINE p == proj[r]
           s == Home[p]
<1>1. Committing(r) BY DEF CommitsOne
<1>2. p \in Projects BY <1>1, CommitOps DEF Committing, Held
<1>3. /\ db'[Row(p)] = Absent
      /\ db'[Role(s)] = db[Role(s)] \/ db'[Role(s)] = Absent
  BY <1>1, DeleteEffect
<1>4. storedNow'[p] = Absent BY <1>2, <1>3 DEF storedNow
<1>5. loginNow'[p] = loginNow[p] \/ loginNow'[p] = NoRole
  BY <1>2, <1>3 DEF loginNow
<1> QED BY <1>4, <1>5

LEMMA StoreQuery ==
  ASSUME Held, NEW r \in Requests, CommitsOne(r), op[r] \in Queries
  PROVE
  LET p == proj[r] IN
  storedNow'[p] = storedNow[p] /\ loginNow'[p] = loginNow[p]
<1> DEFINE p == proj[r]
<1>1. Committing(r) BY DEF CommitsOne
<1>2. p \in Projects BY <1>1, CommitOps DEF Committing, Held
<1>3. db'[Row(p)] = db[Row(p)] /\ db'[Role(Home[p])] = db[Role(Home[p])]
  BY <1>1, QueryEffect
<1>4. storedNow'[p] = storedNow[p] BY <1>2, <1>3 DEF storedNow
<1>5. loginNow'[p] = loginNow[p] BY <1>2, <1>3 DEF loginNow
<1> QED BY <1>4, <1>5

\* Two functions of the projects that agree but at one of them.
LEMMA ChangedAtOne ==
  ASSUME NEW f, NEW g, NEW q \in Projects,
         f = [x \in Projects |-> f[x]], g = [x \in Projects |-> g[x]],
         \A x \in Projects \ {q} : g[x] = f[x]
  PROVE  g = [f EXCEPT ![q] = g[q]]
OBVIOUS

LEMMA StepStore ==
  ASSUME Held, Explained, Explained', [Next]_vars
  PROVE  [Store!Next]_(Store!vars)
<1>1. AnswersAccounted /\ AnswersAccounted' BY DEF Explained
<1>2. CASE Quiet
  <2>1. storedNow' = storedNow /\ loginNow' = loginNow /\ logNow' = logNow
    BY <1>1, <1>2, StoreQuiet
  <2> QED BY <2>1 DEF Store!vars, storedNow, loginNow, logNow
<1>3. ASSUME NEW r \in Requests, CommitsOne(r)
      PROVE  [Store!Next]_(Store!vars)
  <2> DEFINE p == proj[r]
  <2>1. op[r] \in {"reset", "delete"} \union Queries
    BY <1>3, CommitOps DEF CommitsOne, Committing, Held
  <2>2. /\ p \in Projects
        /\ \A x \in Projects \ {p} :
             storedNow'[x] = storedNow[x] /\ loginNow'[x] = loginNow[x]
        /\ op[r] \in {"delete", "reset"} => logNow' = logNow \union {<<op[r], p, r>>}
        /\ op[r] \notin {"delete", "reset"} => logNow' = logNow
    BY <1>1, <1>3, StoreCommit
  <2>3. r \in Passwords BY DEF Passwords
  <2>4. /\ storedNow' = [storedNow EXCEPT ![p] = storedNow'[p]]
        /\ loginNow' = [loginNow EXCEPT ![p] = loginNow'[p]]
    <3>1. /\ storedNow = [x \in Projects |-> storedNow[x]]
          /\ loginNow = [x \in Projects |-> loginNow[x]]
      BY DEF storedNow, loginNow
    <3>2. /\ storedNow' = [x \in Projects |-> storedNow'[x]]
          /\ loginNow' = [x \in Projects |-> loginNow'[x]]
      BY DEF storedNow, loginNow
    <3>3. storedNow' = [storedNow EXCEPT ![p] = storedNow'[p]]
      BY <2>2, <3>1, <3>2, ChangedAtOne
    <3>4. loginNow' = [loginNow EXCEPT ![p] = loginNow'[p]]
      BY <2>2, <3>1, <3>2, ChangedAtOne
    <3> QED BY <3>3, <3>4
  <2>5. CASE op[r] = "reset"
    <3>1. /\ loginNow'[p] = r
          /\ IF storedNow[p] = Absent THEN storedNow'[p] = Absent
             ELSE storedNow'[p] = r
      BY <1>3, <2>5, StoreReset
    <3>2. loginNow' = [loginNow EXCEPT ![p] = r] BY <2>4, <3>1
    <3>3. logNow' = logNow \union {<<"reset", p, r>>} BY <2>2, <2>5
    <3>4. CASE storedNow[p] = Absent
      <4>1. storedNow' = storedNow BY <2>2, <2>4, <3>1, <3>4 DEF storedNow
      <4>2. Store!ChangeOrphan(p, r)
        BY <3>2, <3>3, <3>4, <4>1
           DEF Store!ChangeOrphan, storedNow, loginNow, logNow
      <4> QED BY <2>2, <2>3, <4>2 DEF Store!Next
    <3>5. CASE storedNow[p] # Absent
      <4>1. storedNow' = [storedNow EXCEPT ![p] = r] BY <2>4, <3>1, <3>5
      <4>2. Store!SetPassword(p, r)
        BY <3>2, <3>3, <3>5, <4>1
           DEF Store!SetPassword, storedNow, loginNow, logNow
      <4> QED BY <2>2, <2>3, <4>2 DEF Store!Next
    <3> QED BY <3>4, <3>5
  <2>6. CASE op[r] = "delete"
    <3>1. /\ storedNow'[p] = Absent
          /\ loginNow'[p] = loginNow[p] \/ loginNow'[p] = NoRole
      BY <1>3, <2>6, StoreDelete
    <3>2. loginNow' \in {loginNow, [loginNow EXCEPT ![p] = NoRole]}
      <4>1. loginNow'[p] = loginNow[p] => loginNow' = loginNow
        BY <2>2, <2>4 DEF loginNow
      <4> QED BY <2>4, <3>1, <4>1
    <3>3. logNow' = logNow \union {<<"delete", p, r>>} BY <2>2, <2>6
    <3>4. CASE storedNow[p] = Absent
      <4>1. storedNow' = storedNow BY <2>2, <2>4, <3>1, <3>4 DEF storedNow
      <4>2. Store!ChangeOrphan(p, r)
        BY <3>2, <3>3, <3>4, <4>1
           DEF Store!ChangeOrphan, storedNow, loginNow, logNow
      <4> QED BY <2>2, <2>3, <4>2 DEF Store!Next
    <3>5. CASE storedNow[p] # Absent
      <4>1. storedNow' = [storedNow EXCEPT ![p] = Absent] BY <2>4, <3>1
      <4>2. Store!Remove(p, r)
        BY <3>2, <3>3, <3>5, <4>1
           DEF Store!Remove, storedNow, loginNow, logNow
      <4> QED BY <2>2, <2>3, <4>2 DEF Store!Next
    <3> QED BY <3>4, <3>5
  <2>7. CASE op[r] \in Queries
    <3>1. storedNow'[p] = storedNow[p] /\ loginNow'[p] = loginNow[p]
      BY <1>3, <2>7, StoreQuery
    <3>2. op[r] \notin {"delete", "reset"} BY <2>7 DEF Queries
    <3>3. storedNow' = storedNow BY <2>2, <2>4, <3>1 DEF storedNow
    <3>4. loginNow' = loginNow BY <2>2, <2>4, <3>1 DEF loginNow
    <3>5. logNow' = logNow BY <2>2, <3>2
    <3> QED BY <3>3, <3>4, <3>5 DEF Store!vars, storedNow, loginNow, logNow
  <2> QED BY <2>1, <2>5, <2>6, <2>7
<1> QED BY <1>2, <1>3, StepShape DEF Held, Inductive, Explained

(* Seen from the committed state alone, provisioning is a ProjectStore:    *)
(* every step of its handlers is one audited operation of the store, or    *)
(* changes nothing.                                                        *)
THEOREM StoreImplemented == Spec => ImplementsStore
<1>1. Held /\ Explained /\ [Next]_vars => [Store!Next]_(Store!vars)
  BY StepExplained, StepStore
<1> QED BY <1>1, InitStore, AlwaysExplained, PTL
        DEF Spec, ImplementsStore, Store!Spec
=============================================================================
