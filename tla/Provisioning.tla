---------------------------- MODULE Provisioning ----------------------------
(***************************************************************************)
(* Provisioning of projects: create, delete, reset-password, connection    *)
(* info and the operator's own SQL (services/projects.rs), run by          *)
(* concurrent HTTP requests against one PostgreSQL database.               *)
(*                                                                         *)
(* A request is a task that awaits one SQL statement after another.  Its   *)
(* transaction's effects stay private until COMMIT; every object it has    *)
(* written is locked until the transaction ends (READ COMMITTED).          *)
(*                                                                         *)
(* The database is a function over CELLS: the row of a project, a schema,  *)
(* a role, the ACL of the database, the audit row of a request.  The role  *)
(* "<schema>_user" of schema s is named by s itself.  The password that    *)
(* request r generates is named by r, and so is a cipher text of it.       *)
(***************************************************************************)
EXTENDS Naturals, Sequences, FiniteSets

CONSTANTS
  Projects,       \* ids of the rows that exist at start-up
  Schemas,        \* schema names (and, through them, role names)
  Requests,       \* the HTTP requests; r is also the UUID r would INSERT
  Home,           \* schema_name of each row that exists at start-up
  NextCandidate,  \* generate_schema_name: the name probed after a taken one
  TooLong,        \* schemas whose "<schema>_user" ensure_safe_ident refuses
  Operations,     \* the operations the requests may ask for
  Faults,         \* may statements fail, commits fail, clients leave?
  Absent,         \* no such row / role / snapshot
  NoRole,         \* db_role IS NULL
  Legacy          \* the password of a role provisioned before start-up

Queries == {"CreateSchema", "DropSchema", "RevokeConnect"}
Handlers == {"create", "delete", "reset", "info"}

ASSUME HomeAssumption ==
  /\ Home \in [Projects -> Schemas]
  /\ \A p, q \in Projects : Home[p] = Home[q] => p = q
ASSUME NamesAssumption ==
  /\ NextCandidate \in [Schemas -> Schemas]
  /\ TooLong \subseteq Schemas
ASSUME RequestsAssumption ==
  /\ Operations \subseteq Handlers \union Queries
  /\ Faults \in BOOLEAN
  /\ Projects \intersect Requests = {}
ASSUME SentinelAssumption ==
  /\ Absent \notin Requests \union {Legacy, NoRole} \union Schemas
  /\ Absent \notin [schema : Schemas, role : Schemas \union {NoRole},
                    cipher : Requests \union {Legacy, Absent}]
  /\ NoRole \notin Schemas
  /\ Legacy \notin Requests

-----------------------------------------------------------------------------
(* The database *)

Ids == Projects \union Requests
Passwords == Requests \union {Legacy}
Row(p) == <<"row", p>>
Schema(s) == <<"schema", s>>
Role(s) == <<"role", s>>
DatabaseAcl == <<"database">>
AuditRow(r) == <<"audit", r>>

Cells == {Row(p) : p \in Ids} \union {Schema(s) : s \in Schemas}
         \union {Role(s) : s \in Schemas} \union {DatabaseAcl}
         \union {AuditRow(r) : r \in Requests}

ProjectRow == [schema : Schemas, role : Schemas \union {NoRole},
               cipher : Passwords \union {Absent}]

Snapshot == [schema : Schemas \union {Absent},
             role : Schemas \union {NoRole},
             cipher : Passwords \union {Absent}]

VARIABLES
  db,       \* committed value of every cell
  history,  \* query_history: what it says of the query of each request
  pc,       \* where each handler awaits
  op,       \* what each request asks for
  proj,     \* the project it is about
  snap,     \* the columns of the project row it has read
  at,       \* the next statement of its transaction
  tx,       \* the uncommitted writes of its transaction
  answer,   \* the HTTP answer
  fate      \* ghost: what became of its transaction

vars == <<db, history, pc, op, proj, snap, at, tx, answer, fate>>

Empty == [c \in {} |-> Absent]
Only(c, v) == [x \in {c} |-> v]
Override(f, g) == [c \in DOMAIN f |-> IF c \in DOMAIN g THEN g[c] ELSE f[c]]
Add(f, g) == [c \in DOMAIN f \union DOMAIN g |->
                IF c \in DOMAIN g THEN g[c] ELSE f[c]]

Visible(r, c) == IF c \in DOMAIN tx[r] THEN tx[r][c] ELSE db[c]
LockedFor(r, c) == \E q \in Requests \ {r} : c \in DOMAIN tx[q]

-----------------------------------------------------------------------------
(* The transactions, statement by statement.  Beside each script stand the *)
(* slips (a statement forgotten or moved) the properties must notice.      *)

CreateRoleWithGrants ==
  <<"CreateRole", "GrantConnect", "GrantSchema", "GrantObjects">>
CreateScriptInOrder ==
  <<"CreateRole", "CreateSchema", "GrantConnect", "GrantSchema",
    "GrantObjects", "InsertProject", "Audit">>
CreateScript ==
  CreateRoleWithGrants \o <<"CreateSchema", "InsertProject", "Audit">>
DeleteKeepingRole(role) == <<"DropSchema", "DeleteProject", "Audit">>
DeleteKeepingSchema(role) ==
  IF role = NoRole THEN <<"DeleteProject", "Audit">>
  ELSE <<"DropRole", "DeleteProject", "Audit">>
DeleteRowFirst(role) ==
  IF role = NoRole THEN <<"DeleteProject", "DropSchema", "Audit">>
  ELSE <<"DeleteProject", "DropSchema", "DropRole", "Audit">>
DeleteScript(role) ==
  IF role = NoRole THEN <<"DropSchema", "DeleteProject", "Audit">>
  ELSE <<"DropSchema", "DropRole", "DeleteProject", "Audit">>
ResetKeepingRow(role) ==
  IF role = NoRole THEN CreateRoleWithGrants \o <<"UpdateProject", "Audit">>
  ELSE <<"AlterRole", "Audit">>
ResetKeepingRole(role) ==
  IF role = NoRole THEN CreateRoleWithGrants \o <<"UpdateProject", "Audit">>
  ELSE <<"UpdateProject", "Audit">>
ResetUnaudited(role) ==
  IF role = NoRole THEN CreateRoleWithGrants \o <<"UpdateProject">>
  ELSE <<"AlterRole", "UpdateProject", "Audit">>
ResetScript(role) ==
  IF role = NoRole THEN CreateRoleWithGrants \o <<"UpdateProject", "Audit">>
  ELSE <<"AlterRole", "UpdateProject", "Audit">>
QueryScript(sql) == <<"SetLocal", sql>>

Script(r) ==
  CASE op[r] = "create" -> CreateScript
    [] op[r] = "delete" -> DeleteScript(snap[r].role)
    [] op[r] = "reset"  -> ResetScript(snap[r].role)
    [] op[r] \in Queries -> QueryScript(op[r])
    [] OTHER -> << >>

Statement(r) == Script(r)[at[r]]
RoleName(r) == IF snap[r].role = NoRole THEN snap[r].schema ELSE snap[r].role
InStatement(r) == pc[r] = "sql" /\ at[r] <= Len(Script(r))

(* What PostgreSQL demands of a statement; otherwise it raises an error.   *)
Accepted(r, stmt) ==
  LET s == snap[r].schema
      role == RoleName(r)
  IN
  CASE stmt = "CreateRole" -> Visible(r, Role(role)) = Absent
    [] stmt \in {"GrantSchema", "GrantObjects", "DropSchema"} ->
         Visible(r, Schema(s)) = "present"
    [] stmt = "CreateSchema" -> Visible(r, Schema(s)) = "missing"
    [] stmt = "InsertProject" ->
         \A p \in Ids : LET row == Visible(r, Row(p)) IN
                        row # Absent => row.schema # s
    [] stmt \in {"AlterRole", "RevokeConnect"} ->
         Visible(r, Role(role)) # Absent
    [] stmt = "DropRole" ->    \* IF EXISTS; a role with privileges stays
         \/ Visible(r, Role(role)) = Absent
         \/ role \notin Visible(r, DatabaseAcl)
    [] OTHER -> TRUE

(* The cells a statement writes, with their new values.                    *)
Writes(r, stmt) ==
  LET s == snap[r].schema
      role == RoleName(r)
      p == proj[r]
      row == Visible(r, Row(p))
  IN
  CASE stmt \in {"CreateRole", "AlterRole"} -> Only(Role(role), r)
    [] stmt = "GrantConnect" ->
         Only(DatabaseAcl, Visible(r, DatabaseAcl) \union {role})
    [] stmt = "RevokeConnect" ->
         Only(DatabaseAcl, Visible(r, DatabaseAcl) \ {role})
    [] stmt \in {"GrantSchema", "CreateSchema"} -> Only(Schema(s), "present")
    [] stmt = "DropSchema" -> Only(Schema(s), "missing")
    [] stmt = "DropRole" ->
         IF Visible(r, Role(role)) = Absent THEN Empty
         ELSE Only(Role(role), Absent)
    [] stmt = "InsertProject" ->
         Only(Row(p), [schema |-> s, role |-> role, cipher |-> r])
    [] stmt = "UpdateProject" ->
         IF row = Absent THEN Empty
         ELSE Only(Row(p), [schema |-> row.schema, role |-> role, cipher |-> r])
    [] stmt = "DeleteProject" ->
         IF row = Absent THEN Empty ELSE Only(Row(p), Absent)
    [] stmt = "Audit" -> Only(AuditRow(r), "present")
    [] OTHER -> Empty

(* It waits while another open transaction has written one of them.        *)
Blocked(r, stmt) == \E c \in DOMAIN Writes(r, stmt) : LockedFor(r, c)

-----------------------------------------------------------------------------
(* Initially some projects exist: rows written before roles existed, with  *)
(* or without the schema they name (a migration only fills in the name),   *)
(* and rows a reset-password has already provisioned.                      *)

LegacyRow(p) == [schema |-> Home[p], role |-> NoRole, cipher |-> Absent]
ProvisionedRow(p) ==
  [schema |-> Home[p], role |-> Home[p], cipher |-> Legacy]

Kinds == {"none", "bare", "legacy", "provisioned"}
Named(kind, which, s) == \E p \in Projects : kind[p] \in which /\ Home[p] = s

InitialRow(kind, p) ==
  CASE kind[p] = "none" -> Absent
    [] kind[p] = "provisioned" -> ProvisionedRow(p)
    [] OTHER -> LegacyRow(p)

InitialValue(kind, c) ==
  CASE c \in {Row(p) : p \in Projects} -> InitialRow(kind, c[2])
    [] c \in {Schema(s) : s \in Schemas} ->
         IF Named(kind, {"legacy", "provisioned"}, c[2])
         THEN "present" ELSE "missing"
    [] c \in {Role(s) : s \in Schemas} ->
         IF Named(kind, {"provisioned"}, c[2]) THEN Legacy ELSE Absent
    [] c = DatabaseAcl -> {s \in Schemas : Named(kind, {"provisioned"}, s)}
    [] c \in {AuditRow(r) : r \in Requests} -> "missing"
    [] OTHER -> Absent

NoSnapshot == [schema |-> Absent, role |-> NoRole, cipher |-> Absent]

Init ==
  /\ \E kind \in [Projects -> Kinds] :
       db = [c \in Cells |-> InitialValue(kind, c)]
  /\ history = [r \in Requests |-> "none"]
  /\ pc = [r \in Requests |-> "idle"]
  /\ op = [r \in Requests |-> "none"]
  /\ proj = [r \in Requests |-> Absent]
  /\ snap = [r \in Requests |-> NoSnapshot]
  /\ at = [r \in Requests |-> 1]
  /\ tx = [r \in Requests |-> Empty]
  /\ answer = [r \in Requests |-> "none"]
  /\ fate = [r \in Requests |-> "open"]

-----------------------------------------------------------------------------
(* The handlers *)

Active(r) == pc[r] \notin {"idle", "done"}

(* The handler ends with an answer (or with nobody there to take it).      *)
Respond(r, a) ==
  /\ pc' = [pc EXCEPT ![r] = "done"]
  /\ answer' = [answer EXCEPT ![r] = a]

(* A request arrives.  Input that required_text or the trim test refuses   *)
(* never reaches the database and is left out.                             *)
ReceiveCreate(r, s) ==
  /\ pc[r] = "idle" /\ "create" \in Operations
  /\ op' = [op EXCEPT ![r] = "create"]
  /\ proj' = [proj EXCEPT ![r] = r]
  /\ snap' = [snap EXCEPT ![r].schema = s]
  /\ pc' = [pc EXCEPT ![r] = "probe"]
  /\ UNCHANGED <<db, history, at, tx, answer, fate>>

Receive(r, o, p) ==
  /\ pc[r] = "idle"
  /\ op' = [op EXCEPT ![r] = o]
  /\ proj' = [proj EXCEPT ![r] = p]
  /\ pc' = [pc EXCEPT ![r] = "read"]
  /\ UNCHANGED <<db, history, snap, at, tx, answer, fate>>

(* generate_schema_name: one SELECT per candidate, then ensure_safe_ident. *)
Taken(s) == \E p \in Ids : db[Row(p)] # Absent /\ db[Row(p)].schema = s

Probe(r) ==
  LET s == snap[r].schema IN
  /\ pc[r] = "probe"
  /\ IF Taken(s)
     THEN /\ snap' = [snap EXCEPT ![r].schema = NextCandidate[s]]
          /\ UNCHANGED <<pc, answer>>
     ELSE /\ IF s \in TooLong THEN Respond(r, "rejected")
             ELSE pc' = [pc EXCEPT ![r] = "sql"] /\ UNCHANGED answer
          /\ UNCHANGED snap
  /\ UNCHANGED <<db, history, op, proj, at, tx, fate>>

(* The row is read once; the handler then works with what it has read.     *)
ReadProject(r) ==
  LET row == db[Row(proj[r])]
      refused == \/ op[r] = "info" /\ row.role = NoRole
                 \/ /\ op[r] = "reset" /\ row.role = NoRole
                    /\ row.schema \in TooLong
  IN
  /\ pc[r] = "read"
  /\ IF row = Absent \/ refused
     THEN Respond(r, "rejected") /\ UNCHANGED snap
     ELSE /\ snap' = [snap EXCEPT ![r] = row]
          /\ pc' = [pc EXCEPT ![r] = IF op[r] = "info" THEN "audit" ELSE "sql"]
          /\ UNCHANGED answer
  /\ UNCHANGED <<db, history, op, proj, at, tx, fate>>

Execute(r) ==
  /\ InStatement(r)
  /\ Accepted(r, Statement(r))
  /\ ~Blocked(r, Statement(r))
  /\ tx' = [tx EXCEPT ![r] = Add(@, Writes(r, Statement(r)))]
  /\ at' = [at EXCEPT ![r] = @ + 1]
  /\ UNCHANGED <<db, history, pc, op, proj, snap, answer, fate>>

(* A failed statement ends the handler through `?`, which drops and so     *)
(* rolls back the transaction; a query still reports to query_history.     *)
StatementFails(r) ==
  /\ InStatement(r)
  /\ tx' = [tx EXCEPT ![r] = Empty]
  /\ fate' = [fate EXCEPT ![r] = "rolled back"]
  /\ IF Statement(r) \in Queries /\ op[r] \in Queries
     THEN pc' = [pc EXCEPT ![r] = "history"] /\ UNCHANGED answer
     ELSE Respond(r, "error")
  /\ UNCHANGED <<db, history, op, proj, snap, at>>

Rejected(r) ==      \* PostgreSQL refuses the statement
  /\ InStatement(r) /\ ~Accepted(r, Statement(r))
  /\ StatementFails(r)

Aborted(r) ==       \* connection lost, concurrent update, no free connection
  /\ Faults
  /\ StatementFails(r)

(* COMMIT.  DELETE of a project cascades to its query_history.             *)
Apply(r) ==
  /\ db' = Override(db, tx[r])
  /\ history' = [q \in Requests |->
                   IF \E p \in Ids : /\ Row(p) \in DOMAIN tx[r]
                                     /\ tx[r][Row(p)] = Absent
                                     /\ proj[q] = p
                   THEN "none" ELSE history[q]]
  /\ fate' = [fate EXCEPT ![r] = "committed"]
  /\ tx' = [tx EXCEPT ![r] = Empty]

AtCommit(r) == pc[r] = "sql" /\ at[r] > Len(Script(r))

AfterCommit(r, a) ==
  IF op[r] \in Queries
  THEN pc' = [pc EXCEPT ![r] = "history"] /\ UNCHANGED answer
  ELSE Respond(r, a)

Commit(r) ==
  /\ AtCommit(r)
  /\ Apply(r)
  /\ AfterCommit(r, "ok")
  /\ UNCHANGED <<op, proj, snap, at>>

CommitRefusalIgnored(r) ==      \* slip: let _ = tx.commit().await
  /\ Faults /\ AtCommit(r)
  /\ tx' = [tx EXCEPT ![r] = Empty]
  /\ fate' = [fate EXCEPT ![r] = "rolled back"]
  /\ AfterCommit(r, "ok")
  /\ UNCHANGED <<db, history, op, proj, snap, at>>

CommitRefused(r) ==
  /\ Faults /\ AtCommit(r)
  /\ tx' = [tx EXCEPT ![r] = Empty]
  /\ fate' = [fate EXCEPT ![r] = "rolled back"]
  /\ AfterCommit(r, "error")
  /\ UNCHANGED <<db, history, op, proj, snap, at>>

CommitUnacknowledged(r) ==
  /\ Faults /\ AtCommit(r)
  /\ Apply(r)
  /\ \/ AfterCommit(r, "error")
     \/ Respond(r, "gone")
  /\ UNCHANGED <<op, proj, snap, at>>

(* get_connection_info audits on the pool before it returns the password.  *)
AuditReveal(r) ==
  /\ pc[r] = "audit"
  /\ db' = [db EXCEPT ![AuditRow(r)] = "present"]
  /\ \/ Respond(r, "ok")
     \/ Faults /\ \E a \in {"error", "gone"} : Respond(r, a)
  /\ UNCHANGED <<history, op, proj, snap, at, tx, fate>>

PoolFails(r) ==     \* a statement outside a transaction fails
  /\ Faults /\ pc[r] \in {"audit", "read", "probe"}
  /\ Respond(r, "error")
  /\ UNCHANGED <<db, history, op, proj, snap, at, tx, fate>>

(* The history INSERT references the project row: it waits for an open     *)
(* DELETE of it, fails if it is gone, and every failure is ignored.        *)
RecordHistory(r) ==
  LET ran == at[r] > Len(Script(r))
      row == Row(proj[r])
  IN
  /\ pc[r] = "history"
  /\ \A q \in Requests \ {r} : row \in DOMAIN tx[q] => tx[q][row] # Absent
  /\ \/ /\ db[row] # Absent
        /\ history' = [history EXCEPT ![r] = IF ran THEN "success" ELSE "failure"]
     \/ /\ db[row] = Absent \/ Faults
        /\ UNCHANGED history
  /\ Respond(r, IF ran THEN "ok" ELSE "error")
  /\ UNCHANGED <<db, op, proj, snap, at, tx, fate>>

CancelWithoutRollback(r) ==     \* slip: the connection keeps its transaction
  /\ Faults /\ Active(r)
  /\ Respond(r, "gone")
  /\ UNCHANGED <<db, history, op, proj, snap, at, tx, fate>>

(* The client disconnects: the handler's future is dropped where it awaits *)
(* and an open transaction is rolled back.                                 *)
Cancel(r) ==
  /\ Faults /\ Active(r)
  /\ Respond(r, "gone")
  /\ tx' = [tx EXCEPT ![r] = Empty]
  /\ fate' = [fate EXCEPT ![r] = IF pc[r] = "sql" THEN "rolled back" ELSE @]
  /\ UNCHANGED <<db, history, op, proj, snap, at>>

Arrive(r) ==
  \/ \E s \in Schemas : ReceiveCreate(r, s)
  \/ \E o \in Operations \ {"create"}, p \in Projects : Receive(r, o, p)

Proceed(r) ==
  \/ Probe(r) \/ ReadProject(r) \/ Execute(r) \/ Rejected(r) \/ Commit(r)
  \/ AuditReveal(r) \/ RecordHistory(r)

Disturb(r) ==
  \/ Aborted(r) \/ CommitRefused(r) \/ CommitUnacknowledged(r)
  \/ PoolFails(r) \/ Cancel(r)

(* The server only rests when every request has been served.               *)
Rest == (\A r \in Requests : pc[r] = "done") /\ UNCHANGED vars

Next == \/ \E r \in Requests : Arrive(r) \/ Proceed(r) \/ Disturb(r)
        \/ Rest

(* tokio polls every ready task; PostgreSQL answers every statement that   *)
(* is not waiting for a lock.                                              *)
Spec == Init /\ [][Next]_vars
FairSpec == Spec /\ \A r \in Requests : WF_vars(Proceed(r))

-----------------------------------------------------------------------------
(* Properties *)

(* Every variable has its type; a transaction writes cells of the database *)
(* with values of their kind and is open only between its first statement  *)
(* and its COMMIT.                                                         *)
CellValue(c) ==
  CASE c \in {Row(p) : p \in Ids} -> ProjectRow \union {Absent}
    [] c \in {Role(s) : s \in Schemas} -> Passwords \union {Absent}
    [] c = DatabaseAcl -> SUBSET Schemas
    [] OTHER -> {"present", "missing"}

Typed(f) == \A c \in DOMAIN f : c \in Cells /\ f[c] \in CellValue(c)

TypeOK ==
  /\ DOMAIN db = Cells /\ Typed(db)
  /\ history \in [Requests -> {"none", "success", "failure"}]
  /\ pc \in [Requests -> {"idle", "probe", "read", "sql", "audit",
                          "history", "done"}]
  /\ op \in [Requests -> Operations \union {"none"}]
  /\ proj \in [Requests -> Ids \union {Absent}]
  /\ snap \in [Requests -> Snapshot]
  /\ at \in [Requests -> Nat]
  /\ DOMAIN tx = Requests
  /\ \A r \in Requests : Typed(tx[r]) /\ (pc[r] # "sql" => tx[r] = Empty)
  /\ answer \in [Requests -> {"none", "ok", "rejected", "error", "gone"}]
  /\ fate \in [Requests -> {"open", "committed", "rolled back"}]

(* The password the panel decrypts is the password of the role: ALTER ROLE *)
(* or CREATE ROLE and the UPDATE of the row happen together or not at all, *)
(* whatever deletes, resets and failures run beside them.                  *)
CredentialsInSync ==
  \A p \in Ids :
    LET row == db[Row(p)]
    IN row # Absent /\ row.role # NoRole => db[Role(row.role)] = row.cipher

Audited(r) == db[AuditRow(r)] = "present"

(* create, delete and reset insert their audit row in their transaction:   *)
(* it exists exactly when the transaction took effect.                     *)
AuditMatchesFate ==
  \A r \in Requests :
    op[r] \in {"create", "delete", "reset"} =>
      (Audited(r) <=> fate[r] = "committed")

(* No password leaves get_connection_info unaudited.                       *)
RevealIsAudited ==
  \A r \in Requests :
    op[r] = "info" /\ answer[r] = "ok" => Audited(r)

(* A 2xx of create, delete or reset is only sent for a transaction that    *)
(* took effect, a 4xx only when nothing was executed.                      *)
AnswerMeansCommitted ==
  \A r \in Requests :
    /\ op[r] \in {"create", "delete", "reset"} /\ answer[r] = "ok" =>
         fate[r] = "committed"
    /\ answer[r] = "rejected" => fate[r] = "open"

(* What was answered, what was committed and what was audited agree, for    *)
(* every outcome of a statement, of a COMMIT and of a client's patience.   *)
AnswersAccounted == AuditMatchesFate /\ RevealIsAudited /\ AnswerMeansCommitted

Committed(r, o) == op[r] = o /\ fate[r] = "committed"

(* A login role without a project is left behind in two ways only: the     *)
(* delete read the row before a reset-password gave it a role; or that     *)
(* reset-password, having read the row before the delete, met the schema   *)
(* again because the operator had created it anew.                         *)
OrphanRoleExplained ==
  \A s \in Schemas :
    /\ db[Role(s)] # Absent
    /\ \A p \in Ids : db[Row(p)] # Absent => db[Row(p)].role # s
    => \E d, q \in Requests :
         /\ Committed(d, "delete") /\ snap[d].schema = s
         /\ Committed(q, "reset") /\ snap[q].schema = s
         /\ snap[q].role = NoRole
         /\ \/ snap[d].role = NoRole
            \/ \E c \in Requests :
                 Committed(c, "CreateSchema") /\ snap[c].schema = s

(* A password that reset-password has put in force stays in force until    *)
(* another committed reset replaces it or a delete drops the role.         *)
ResetHolds ==
  \A r \in Requests :
    Committed(r, "reset") =>
      LET pw == db[Role(RoleName(r))] IN
      \/ pw \in {q \in Requests : Committed(q, "reset") /\ proj[q] = proj[r]}
      \/ /\ pw = Absent
         /\ \E d \in Requests : /\ Committed(d, "delete")
                               /\ proj[d] = proj[r] /\ snap[d].role # NoRole

(* No role is half provisioned: a login role without the CONNECT granted   *)
(* to it (not the one every role has through PUBLIC) has lost it to an     *)
(* operator's REVOKE.                                                      *)
ConnectGranted ==
  \A s \in Schemas :
    db[Role(s)] # Absent /\ s \notin db[DatabaseAcl] =>
      \E q \in Requests : Committed(q, "RevokeConnect") /\ snap[q].schema = s

(* A role without its project, or without its CONNECT, has a history.      *)
RolesExplained == OrphanRoleExplained /\ ConnectGranted

(* Open transactions never wait for each other in a cycle: the handlers    *)
(* take their locks in compatible orders.                                  *)
WaitsFor(r, q) ==
  /\ InStatement(r) /\ Accepted(r, Statement(r))
  /\ \E c \in DOMAIN Writes(r, Statement(r)) : q # r /\ c \in DOMAIN tx[q]

NoWaitCycle ==
  \A cycle \in (SUBSET Requests) \ {{}} :
    \E r \in cycle : \A q \in cycle : ~WaitsFor(r, q)

(* GRANT ... ON SCHEMA runs before CREATE SCHEMA: a create_project that    *)
(* passes the first cannot pass the second, so none ever commits.          *)
CreateNeverCommits ==
  \A r \in Requests : op[r] = "create" => fate[r] # "committed"

(* A project is deleted twice (both deletes answer 204 and audit) only if  *)
(* the operator created its schema again in between.                       *)
DoubleDeleteExplained ==
  \A d, e \in Requests :
    /\ d # e /\ proj[d] = proj[e]
    /\ Committed(d, "delete") /\ Committed(e, "delete")
    => \E q \in Requests :
         Committed(q, "CreateSchema") /\ snap[q].schema = snap[d].schema

(* DROP ROLE fails for a role that may CONNECT: its project can only be    *)
(* removed by a delete that read the row before it had a role.             *)
ConnectPinsProject ==
  \A p \in Projects :
    LET row == db[Row(p)] IN
    /\ row # Absent /\ row.role \in db[DatabaseAcl]
    /\ db'[Row(p)] = Absent
    => \E d \in Requests : /\ op[d] = "delete" /\ proj[d] = p
                          /\ snap[d].role = NoRole
                          /\ fate[d] = "open" /\ fate'[d] = "committed"

(* When a delete may take effect, once or a second time.                   *)
DeletesExplained == [][DoubleDeleteExplained' /\ ConnectPinsProject]_vars

(* Every request that arrives is answered (or abandoned by its client).    *)
EveryRequestEnds ==
  \A r \in Requests : pc[r] # "idle" ~> pc[r] = "done"

(* What the route table promises of POST /api/projects: 201.               *)
CreateReturnsCreated ==
  \A r \in Requests : op[r] = "create" /\ pc[r] = "done" => answer[r] = "ok"

(* What the route table promises of DELETE /api/projects/:id: 204, or 404  *)
(* when there is no such project; here for projects that had a schema and  *)
(* still have it after the request.                                        *)
DeleteReturnsNoContent ==
  \A r \in Requests :
    /\ op[r] = "delete" /\ pc[r] = "done"
    /\ db[Schema(Home[proj[r]])] = "present"
    => answer[r] \in {"ok", "rejected"}

(* "Commit or rollback the user's query": the query answers success, and   *)
(* is recorded as a success, only if it was committed.                     *)
QuerySuccessMeansCommitted ==
  \A r \in Requests :
    op[r] \in Queries /\ (answer[r] = "ok" \/ history[r] = "success") =>
      fate[r] = "committed"
-----------------------------------------------------------------------------
(* Refinement: the committed state is the state of a ProjectStore.         *)

Store == INSTANCE ProjectStore WITH
  Passwords <- Passwords,
  Gone <- Absent,
  NoLogin <- NoRole,
  stored <- [p \in Projects |->
               LET row == db[Row(p)] IN
               CASE row = Absent -> Absent
                 [] row # Absent /\ row.role = NoRole -> NoRole
                 [] OTHER -> row.cipher],
  login <- [p \in Projects |->
              LET pw == db[Role(Home[p])] IN IF pw = Absent THEN NoRole ELSE pw],
  log <- {<<op[r], proj[r], r>> :
            r \in {q \in Requests : /\ op[q] \in {"delete", "reset"}
                                  /\ Audited(q)}}

(* Statements, locks, rollbacks and lost answers hidden, every step of the *)
(* handlers is one indivisible, audited operation of the store, or none.   *)
ImplementsStore == Store!Spec
=============================================================================
