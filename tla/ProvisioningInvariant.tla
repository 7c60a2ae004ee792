------------------------ MODULE ProvisioningInvariant ------------------------
(***************************************************************************)
(* The inductive invariant behind the theorems of ProvisioningProofs.      *)
(* CredentialsInSync is not inductive: whether a COMMIT preserves it       *)
(* depends on what the transaction has written so far, on the locks that   *)
(* keep others away from the same cells, and on what the handler has read. *)
(***************************************************************************)
EXTENDS Provisioning

(* Beyond their types: a handler past its first await knows its project,   *)
(* one in a transaction also knows the schema, and no transaction has      *)
(* ended before it began.                                                  *)
Located ==
  \A r \in Requests :
    /\ pc[r] # "idle" => /\ op[r] \in Handlers \union Queries
                         /\ proj[r] \in Ids
    /\ pc[r] \in {"probe", "sql"} => snap[r].schema \in Schemas
    /\ pc[r] \in {"idle", "probe", "read"} => at[r] = 1
    /\ pc[r] \in {"idle", "probe", "read", "sql"} => fate[r] = "open"
    /\ pc[r] = "sql" => op[r] # "info"
    /\ pc[r] = "read" => op[r] # "create"
    /\ pc[r] = "probe" => op[r] = "create"

(* No cell is written by two open transactions.                            *)
LocksExclusive ==
  \A r, q \in Requests : r # q => DOMAIN tx[r] \intersect DOMAIN tx[q] = {}

(* GRANT ON SCHEMA has locked an existing schema: CREATE SCHEMA, the fifth *)
(* statement of create_project, is refused from then on.                   *)
CreateStuck ==
  \A r \in Requests : op[r] = "create" =>
    /\ fate[r] # "committed"
    /\ pc[r] = "sql" =>
         /\ at[r] \in 1..5
         /\ at[r] > 3 => /\ Schema(snap[r].schema) \in DOMAIN tx[r]
                         /\ tx[r][Schema(snap[r].schema)] = "present"

(* A row belongs to a project of the first day, names its schema for ever  *)
(* and no role but that schema's.                                          *)
HomeRow(p, row) ==
  /\ p \in Projects
  /\ row.schema = Home[p]
  /\ row.role \in {NoRole, Home[p]}

RowsAtHome ==
  \A p \in Ids : db[Row(p)] # Absent => HomeRow(p, db[Row(p)])

SnapsAtHome ==
  \A r \in Requests :
    pc[r] \in {"sql", "audit", "history"} /\ op[r] # "create" =>
      HomeRow(proj[r], snap[r])

(* What the open transaction of each handler may have written, and has.    *)
ResetTx(r) ==
  LET s == Home[proj[r]]
      row == Row(proj[r])
      updated == IF snap[r].role = NoRole THEN 5 ELSE 2
  IN
  /\ DOMAIN tx[r] \subseteq
       {Role(s), DatabaseAcl, Schema(s), row, AuditRow(r)}
  /\ Role(s) \in DOMAIN tx[r] => tx[r][Role(s)] = r
  /\ at[r] > 1 => Role(s) \in DOMAIN tx[r]
  /\ row \in DOMAIN tx[r] =>
       /\ db[row] # Absent
       /\ tx[r][row] = [schema |-> s, role |-> s, cipher |-> r]
  /\ at[r] > updated => row \in DOMAIN tx[r] \/ db[row] = Absent

DeleteTx(r) ==
  LET s == Home[proj[r]]
      row == Row(proj[r])
      deleted == IF snap[r].role = NoRole THEN 2 ELSE 3
  IN
  /\ DOMAIN tx[r] \subseteq {Schema(s), Role(s), row, AuditRow(r)}
  /\ Role(s) \in DOMAIN tx[r] => tx[r][Role(s)] = Absent
  /\ row \in DOMAIN tx[r] => db[row] # Absent /\ tx[r][row] = Absent
  /\ at[r] > deleted => row \in DOMAIN tx[r] \/ db[row] = Absent

QueryTx(r) == DOMAIN tx[r] \subseteq {Schema(Home[proj[r]]), DatabaseAcl}

TransactionsOnTrack ==
  \A r \in Requests : pc[r] = "sql" =>
    /\ op[r] = "reset" => ResetTx(r)
    /\ op[r] = "delete" => DeleteTx(r)
    /\ op[r] \in Queries => QueryTx(r)
    /\ at[r] >= 1

(* The inductive invariant.                                                *)
Inductive ==
  /\ TypeOK
  /\ Located
  /\ LocksExclusive
  /\ CreateStuck
  /\ RowsAtHome
  /\ SnapsAtHome
  /\ TransactionsOnTrack
  /\ CredentialsInSync

-----------------------------------------------------------------------------
(* What the properties about roles, schemas, audit rows and waiting rest   *)
(* on beyond that.                                                         *)

(* The cells a statement of r may write.                                   *)
Touches(r, stmt) ==
  CASE stmt \in {"CreateRole", "AlterRole", "DropRole"} -> {Role(RoleName(r))}
    [] stmt \in {"GrantConnect", "RevokeConnect"} -> {DatabaseAcl}
    [] stmt \in {"GrantSchema", "CreateSchema", "DropSchema"} ->
         {Schema(snap[r].schema)}
    [] stmt \in {"InsertProject", "UpdateProject", "DeleteProject"} ->
         {Row(proj[r])}
    [] stmt = "Audit" -> {AuditRow(r)}
    [] OTHER -> {}

Ran(r) == {i \in 1..Len(Script(r)) : i < at[r]}

(* Every lock is held for a statement that has run.                        *)
LocksPlaced ==
  \A r \in Requests : pc[r] = "sql" =>
    \A c \in DOMAIN tx[r] : \E i \in Ran(r) : c \in Touches(r, Script(r)[i])

(* What a statement found and wrote still holds while its lock is held.    *)
(* DROP ROLE IF EXISTS may have found nothing to lock.                     *)
Kept(r, stmt) ==
  LET s == snap[r].schema
      role == RoleName(r)
  IN
  /\ stmt \notin {"DropRole", "UpdateProject", "DeleteProject"} =>
       Touches(r, stmt) \subseteq DOMAIN tx[r]
  /\ stmt = "CreateRole" => db[Role(role)] = Absent
  /\ stmt = "AlterRole" => db[Role(role)] # Absent
  /\ stmt = "GrantConnect" =>
       tx[r][DatabaseAcl] = db[DatabaseAcl] \union {role}
  /\ stmt = "RevokeConnect" => tx[r][DatabaseAcl] = db[DatabaseAcl] \ {role}
  /\ stmt \in {"GrantSchema", "DropSchema"} => db[Schema(s)] = "present"
  /\ stmt \in {"GrantSchema", "CreateSchema"} => tx[r][Schema(s)] = "present"
  /\ stmt = "DropSchema" => tx[r][Schema(s)] = "missing"
  /\ stmt = "DropRole" =>
       IF Role(role) \in DOMAIN tx[r]
       THEN tx[r][Role(role)] = Absent /\ role \notin db[DatabaseAcl]
       ELSE db[Role(role)] = Absent
  /\ stmt = "Audit" => tx[r][AuditRow(r)] = "present"

StatementsKept ==
  \A r \in Requests : pc[r] = "sql" => \A i \in Ran(r) : Kept(r, Script(r)[i])

(* Where each answer, fate and audit row comes from.                       *)
Accounted ==
  \A r \in Requests :
    /\ pc[r] = "idle" => op[r] = "none"
    /\ pc[r] = "history" => op[r] \in Queries
    /\ pc[r] = "audit" => op[r] = "info"
    /\ pc[r] # "done" => answer[r] = "none"
    /\ op[r] = "none" => ~Audited(r)
    /\ op[r] = "info" => fate[r] # "committed"
    /\ fate[r] = "committed" => HomeRow(proj[r], snap[r])

(* A row with a role has a password; without one, its role does not exist. *)
RowsHaveRoles ==
  \A p \in Projects :
    LET row == db[Row(p)] IN row # Absent =>
      /\ row.role = NoRole => db[Role(Home[p])] = Absent
      /\ row.role # NoRole => row.cipher # Absent

(* What has become of a row since a handler read it: it has kept its role, *)
(* a reset-password has given it one, or a delete has removed it.          *)
SinceRead ==
  \A r \in Requests : pc[r] = "sql" /\ op[r] # "create" =>
    LET row == db[Row(proj[r])] IN
    /\ row = Absent =>
         \E d \in Requests : Committed(d, "delete") /\ proj[d] = proj[r]
    /\ row # Absent /\ snap[r].role # NoRole => row.role # NoRole
    /\ row # Absent /\ snap[r].role = NoRole /\ row.role # NoRole =>
         \E q \in Requests : /\ Committed(q, "reset") /\ snap[q].role = NoRole
                             /\ proj[q] = proj[r]

(* A deleted project's schema is gone unless the operator made it again.   *)
DeletedSchemaGone ==
  \A d \in Requests : Committed(d, "delete") =>
    \/ db[Schema(snap[d].schema)] = "missing"
    \/ \E q \in Requests :
         Committed(q, "CreateSchema") /\ snap[q].schema = snap[d].schema

(* The inductive invariant of the properties about whole histories.        *)
Explained ==
  /\ LocksPlaced
  /\ StatementsKept
  /\ Accounted
  /\ AnswersAccounted
  /\ RowsHaveRoles
  /\ SinceRead
  /\ DeletedSchemaGone
  /\ ResetHolds
  /\ RolesExplained
  /\ DoubleDeleteExplained
=============================================================================
