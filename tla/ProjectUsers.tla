----------------------------- MODULE ProjectUsers -----------------------------
(***************************************************************************)
(* User management inside one project (services/users.rs): a stored        *)
(* configuration names the table and the columns, and every operation      *)
(* reads it, then the name of the schema, and then acts on the table,      *)
(* each with a statement of its own that commits by itself.  The audit     *)
(* row is one more such statement.                                         *)
(*                                                                         *)
(* A statement that was sent before its client left, or its connection     *)
(* broke, may still take effect later, or never.  Left out: searching, the *)
(* page, the configured id column and the format of an export.             *)
(***************************************************************************)
EXTENDS Naturals, Sequences, FiniteSets

CONSTANTS
  Requests,    \* the HTTP requests; r is also the password r sets
  Users,       \* user ids that may occur in the project's table
  Flags,       \* its boolean columns
  Texts,       \* its text columns
  Configs,     \* the configurations an operator may PUT
  Operations,  \* the operations the requests may ask for
  MaxRows,     \* max_rows of an export
  PageLimit,   \* limit of a listing
  Faults,      \* may statements fail and clients leave?
  Absent       \* no such row

Changes == {"delete", "ban", "unban", "reset"}
Readings == {"config", "get", "list", "export"}

Columns == Flags \union Texts

Config == [table : {"users", "nowhere"},
           banned : Columns \union {"none", "nocolumn"},
           password : Columns \union {"none", "nocolumn"},
           algorithm : {"plaintext", "bcrypt", "argon2", "unknown"}]

ASSUME ConfigsAssumption == Configs \subseteq Config
ASSUME OperationsAssumption ==
  /\ Operations \subseteq {"put"} \union Changes \union Readings
  /\ Faults \in BOOLEAN
  /\ Flags \intersect Texts = {}
  /\ MaxRows \in Nat \ {0} /\ PageLimit \in Nat \ {0}
ASSUME UsersAssumption == IsFiniteSet(Users)   \* as are the ids of any column
ASSUME SentinelAssumption ==
  Absent \notin Users \union Configs
                \union [Columns -> Requests \union {"false", "true"}]

VARIABLES
  alive,     \* does the project (its row, schema and table) exist?
  config,    \* project_user_config of the project
  table,     \* the rows of the project's users table
  audit,     \* requests in the order of their audit rows
  pc,        \* the statement each request awaits
  op,        \* what it asks for
  arg,       \* the user or the configuration it is about
  cfg,       \* the configuration it has read
  count,     \* the number of rows it has counted
  rows,      \* the rows it has read
  answer,    \* the HTTP answer; "none" while the handler runs
  done,      \* ghost: the requests that have had their effect
  before,    \* ghost: those answered when each request arrived
  added      \* ghost: users the project's application has inserted

vars == <<alive, config, table, audit, pc, op, arg, cfg, count, rows, answer,
          done, before, added>>

Present == {u \in Users : table[u] # Absent}
Fresh == [c \in Columns |-> "false"]
Smaller(m, n) == IF m < n THEN m ELSE n

Init ==
  /\ alive = TRUE
  /\ config \in {c \in Configs : c.algorithm # "unknown"} \union {Absent}
  /\ table \in [Users -> {Fresh, Absent}]
  /\ audit = << >>
  /\ pc = [r \in Requests |-> "idle"]
  /\ op = [r \in Requests |-> "none"]
  /\ arg = [r \in Requests |-> Absent]
  /\ cfg = [r \in Requests |-> Absent]
  /\ count = [r \in Requests |-> 0]
  /\ rows = [r \in Requests |-> {}]
  /\ answer = [r \in Requests |-> "none"]
  /\ done = {}
  /\ before = [r \in Requests |-> {}]
  /\ added = {}

-----------------------------------------------------------------------------
(* The handlers *)

Running(r) == pc[r] # "idle" /\ answer[r] = "none"

(* The handler answers, if it is still there to do so.                     *)
Respond(r, a) ==
  /\ pc' = [pc EXCEPT ![r] = "done"]
  /\ answer' = [answer EXCEPT ![r] = IF Running(r) THEN a ELSE @]

Continue(r, step) ==
  /\ pc' = [pc EXCEPT ![r] = IF Running(r) THEN step ELSE "done"]
  /\ UNCHANGED answer

Receive(r, o, a) ==
  /\ pc[r] = "idle"
  /\ op' = [op EXCEPT ![r] = o]
  /\ arg' = [arg EXCEPT ![r] = a]
  /\ pc' = [pc EXCEPT ![r] = IF o = "put" THEN "exists" ELSE "config"]
  /\ before' = [before EXCEPT ![r] = {q \in Requests : answer[q] # "none"}]
  /\ UNCHANGED <<alive, config, table, audit, cfg, count, rows, answer, done,
                 added>>

(* put_config: the project is looked up, then the input is validated.      *)
CheckProject(r) ==
  /\ pc[r] = "exists"
  /\ IF ~alive THEN Respond(r, "not found")
     ELSE IF arg[r].algorithm = "unknown" THEN Respond(r, "bad request")
     ELSE Continue(r, "upsert")
  /\ UNCHANGED <<alive, config, table, audit, op, arg, cfg, count, rows, done,
                 before, added>>

(* The UPSERT overwrites every column, or breaks the foreign key.          *)
Upserted(c) == c

Upsert(r) ==
  /\ pc[r] = "upsert"
  /\ IF alive
     THEN /\ config' = Upserted(arg[r])
          /\ done' = done \union {r}
          /\ Continue(r, "audit")
     ELSE Respond(r, "error") /\ UNCHANGED <<config, done>>
  /\ UNCHANGED <<alive, table, audit, op, arg, cfg, count, rows, before, added>>

(* get_config, and the checks of its caller.                               *)
AnyColumn(o, c) == FALSE        \* slip: an unconfigured column passes
Unsuitable(o, c) ==
  \/ o \in {"ban", "unban"} /\ c.banned = "none"
  \/ o = "reset" /\ (c.password = "none" \/ c.algorithm # "plaintext")

ReadConfig(r) ==
  /\ pc[r] = "config"
  /\ IF config = Absent THEN Respond(r, "not found") /\ UNCHANGED cfg
     ELSE /\ cfg' = [cfg EXCEPT ![r] = config]
          /\ IF op[r] = "config" THEN Respond(r, "ok")
             ELSE IF Unsuitable(op[r], config) THEN Respond(r, "bad request")
             ELSE Continue(r, "schema")
  /\ UNCHANGED <<alive, config, table, audit, op, arg, count, rows, done,
                 before, added>>

(* get_schema_name.                                                        *)
ReadSchema(r) ==
  /\ pc[r] = "schema"
  /\ IF ~alive THEN Respond(r, "not found")
     ELSE Continue(r, CASE op[r] \in Changes -> "change"
                        [] op[r] = "get" -> "get"
                        [] OTHER -> "count")
  /\ UNCHANGED <<alive, config, table, audit, op, arg, cfg, count, rows, done,
                 before, added>>

ColumnOf(r) == IF op[r] = "reset" THEN cfg[r].password ELSE cfg[r].banned
ValueOf(r) ==
  CASE op[r] = "ban" -> "true"
    [] op[r] = "unban" -> "false"
    [] OTHER -> r

(* The column exists, and PostgreSQL assigns the value to it: a boolean to  *)
(* a text column, but not a text to a boolean one.                         *)
Fits(r) == ColumnOf(r) \in IF op[r] = "reset" THEN Texts ELSE Columns
NoTable(r) == ~alive \/ cfg[r].table # "users"

TouchedAll(r, u) == TRUE        \* slip: an UPDATE without its WHERE
Touched(r, u) == u = arg[r]

Changed(r) ==
  [u \in Users |->
     IF table[u] = Absent \/ ~Touched(r, u) THEN table[u]
     ELSE IF op[r] = "delete" THEN Absent
     ELSE [table[u] EXCEPT ![ColumnOf(r)] = ValueOf(r)]]

(* DELETE or UPDATE, and the check of rows_affected().                     *)
Uncounted(r) == FALSE           \* slip: rows_affected() is not looked at
NoRow(r) == table[arg[r]] = Absent

Change(r) ==
  /\ pc[r] = "change"
  /\ IF NoTable(r) \/ (op[r] # "delete" /\ ~Fits(r))
     THEN Respond(r, "error") /\ UNCHANGED <<table, done>>
     ELSE IF NoRow(r)
     THEN Respond(r, "not found") /\ UNCHANGED <<table, done>>
     ELSE /\ table' = Changed(r)
          /\ done' = done \union {r}
          /\ Continue(r, "audit")
  /\ UNCHANGED <<alive, config, audit, op, arg, cfg, count, rows, before, added>>

GetUser(r) ==
  /\ pc[r] = "get"
  /\ Respond(r, IF NoTable(r) THEN "error"
                ELSE IF table[arg[r]] = Absent THEN "not found" ELSE "ok")
  /\ UNCHANGED <<alive, config, table, audit, op, arg, cfg, count, rows, done,
                 before, added>>

(* list_users and export_users count, then read with a LIMIT.              *)
AnyNumber(o, n) == FALSE        \* slip: max_rows is not enforced
TooMany(o, n) == o = "export" /\ n > MaxRows

AuditIfNone(n) == IF n = 0 THEN "audit" ELSE "rows"   \* slip: read skipped
AfterCount(n) == "rows"

CountRows(r) ==
  LET n == Cardinality(Present) IN
  /\ pc[r] = "count"
  /\ IF NoTable(r) THEN Respond(r, "error") /\ UNCHANGED count
     ELSE /\ count' = [count EXCEPT ![r] = n]
          /\ IF TooMany(op[r], n) THEN Respond(r, "bad request")
             ELSE Continue(r, AfterCount(n))
  /\ UNCHANGED <<alive, config, table, audit, op, arg, cfg, rows, done, before,
                 added>>

Limit(r) == IF op[r] = "export" THEN MaxRows ELSE PageLimit

ReadRows(r) ==
  /\ pc[r] = "rows"
  /\ IF NoTable(r) THEN Respond(r, "error") /\ UNCHANGED <<rows, done>>
     ELSE /\ \E page \in SUBSET Present :
               /\ Cardinality(page) = Smaller(Limit(r), Cardinality(Present))
               /\ rows' = [rows EXCEPT ![r] = page]
          /\ IF op[r] = "export"
             THEN done' = done \union {r} /\ Continue(r, "audit")
             ELSE UNCHANGED done /\ Continue(r, "columns")
  /\ UNCHANGED <<alive, config, table, audit, op, arg, cfg, count, before, added>>

(* The names of the columns; an error only leaves them out.                *)
ReadColumns(r) ==
  /\ pc[r] = "columns"
  /\ Respond(r, "ok")
  /\ UNCHANGED <<alive, config, table, audit, op, arg, cfg, count, rows, done,
                 before, added>>

AuditInBackground(r) ==         \* slip: the answer does not wait for the row
  /\ pc[r] = "audit"
  /\ IF Running(r)
     THEN /\ answer' = [answer EXCEPT ![r] = "ok"]
          /\ UNCHANGED <<pc, audit>>
     ELSE /\ audit' = Append(audit, r)
          /\ Continue(r, "done")
  /\ UNCHANGED <<alive, config, table, op, arg, cfg, count, rows, done, before,
                 added>>

Audit(r) ==
  /\ pc[r] = "audit"
  /\ audit' = Append(audit, r)
  /\ Respond(r, "ok")
  /\ UNCHANGED <<alive, config, table, op, arg, cfg, count, rows, done, before,
                 added>>

(* The statement fails, its answer is lost, or the client leaves.  One     *)
(* that writes may have been sent already.                                 *)
Abandon(r) ==
  /\ Faults
  /\ Running(r)
  /\ answer' = [answer EXCEPT ![r] = "lost"]
  /\ pc' = [pc EXCEPT ![r] =
              IF @ \in {"upsert", "change", "audit"} THEN @ ELSE "done"]
  /\ UNCHANGED <<alive, config, table, audit, op, arg, cfg, count, rows, done,
                 before, added>>

NeverRuns(r) ==
  /\ pc[r] \in {"upsert", "change", "audit"} /\ ~Running(r)
  /\ Continue(r, "done")
  /\ UNCHANGED <<alive, config, table, audit, op, arg, cfg, count, rows, done,
                 before, added>>

-----------------------------------------------------------------------------
(* What others do to the project *)

(* Its own application inserts a user (here: each user once at most).      *)
AddUser(u) ==
  /\ alive /\ table[u] = Absent /\ u \notin added
  /\ table' = [table EXCEPT ![u] = Fresh]
  /\ added' = added \union {u}
  /\ UNCHANGED <<alive, config, audit, pc, op, arg, cfg, count, rows, answer,
                 done, before>>

(* delete_project commits: the schema is dropped, the configuration goes   *)
(* with the project's row.                                                 *)
DeleteProject ==
  /\ alive /\ alive' = FALSE
  /\ config' = Absent
  /\ table' = [u \in Users |-> Absent]
  /\ UNCHANGED <<audit, pc, op, arg, cfg, count, rows, answer, done, before,
                 added>>

Arrive(r) ==
  \/ /\ "put" \in Operations
     /\ \E c \in Configs : Receive(r, "put", c)
  \/ \E o \in Operations \intersect (Changes \union {"get"}), u \in Users :
       Receive(r, o, u)
  \/ \E o \in Operations \intersect {"config", "list", "export"} :
       Receive(r, o, Absent)

Proceed(r) ==
  \/ CheckProject(r) \/ Upsert(r) \/ ReadConfig(r) \/ ReadSchema(r)
  \/ Change(r) \/ GetUser(r) \/ CountRows(r) \/ ReadRows(r)
  \/ ReadColumns(r) \/ Audit(r)

Disturb(r) == Abandon(r) \/ NeverRuns(r)

Rest == (\A r \in Requests : pc[r] = "done") /\ UNCHANGED vars

Next == \/ \E r \in Requests : Arrive(r) \/ Proceed(r) \/ Disturb(r)
        \/ \E u \in Users : AddUser(u)
        \/ DeleteProject
        \/ Rest

Spec == Init /\ [][Next]_vars

-----------------------------------------------------------------------------
(* Properties *)

Recorded == {audit[i] : i \in DOMAIN audit}
Values == Requests \union {"false", "true"}

(* Types; every request that awaits its audit row has had its effect, and  *)
(* the project's configuration and rows are gone once it is.               *)
TypeOK ==
  /\ alive \in BOOLEAN
  /\ config \in Configs \union {Absent}
  /\ table \in [Users -> [Columns -> Values] \union {Absent}]
  /\ audit \in Seq(Requests)
  /\ pc \in [Requests -> {"idle", "exists", "upsert", "config", "schema",
                          "change", "get", "count", "rows", "columns",
                          "audit", "done"}]
  /\ op \in [Requests -> Operations \union {"none"}]
  /\ arg \in [Requests -> Users \union Configs \union {Absent}]
  /\ cfg \in [Requests -> Configs \union {Absent}]
  /\ count \in [Requests -> Nat]
  /\ rows \in [Requests -> SUBSET Users]
  /\ answer \in [Requests -> {"none", "ok", "not found", "bad request",
                              "error", "lost"}]
  /\ done \subseteq Requests /\ Recorded \subseteq Requests
  /\ before \in [Requests -> SUBSET Requests]
  /\ added \subseteq Users
  /\ \A r \in Requests : pc[r] = "audit" => r \in done \ Recorded
  /\ ~alive => config = Absent /\ Present = {}

(* q has had an effect that may be later than that of r: it had not been   *)
(* answered when r arrived, or its client did not wait for its end.        *)
MayFollow(q, r) ==
  /\ q # r /\ q \in done
  /\ q \notin before[r] \/ answer[q] = "lost"

Asked(r) == IF op[r] = "ban" THEN "true"
            ELSE IF op[r] = "unban" THEN "false" ELSE r

(* A ban, an unban or a password that was answered with 204 stays until    *)
(* another request that was not over before changes the same column of     *)
(* the same user, or the row is replaced.                                  *)
ChangeHolds ==
  \A r \in Requests :
    LET u == arg[r] IN
    /\ op[r] \in {"ban", "unban", "reset"} /\ answer[r] = "ok"
    /\ alive /\ table[u] # Absent
    => \/ table[u][ColumnOf(r)] = Asked(r)
       \/ \E q \in Requests : /\ op[q] \in {"ban", "unban", "reset"}
                              /\ MayFollow(q, r)
                              /\ arg[q] = u /\ ColumnOf(q) = ColumnOf(r)
       \/ u \in added /\ \E q \in done : op[q] = "delete" /\ arg[q] = u

(* A configuration that was answered with 200 is the one in the database,  *)
(* and the one every later request works with, whole, until another PUT    *)
(* that was not over before replaces it.                                   *)
PutHolds ==
  \A r \in Requests :
    op[r] = "put" /\ answer[r] = "ok" =>
      \/ \E q \in Requests : op[q] = "put" /\ MayFollow(q, r)
      \/ /\ config \in {arg[r], Absent}
         /\ \A q \in Requests :
              r \in before[q] => cfg[q] \in {arg[r], Absent}

(* What was answered stays, a user's column and a configuration alike.     *)
AnswersHold == ChangeHolds /\ PutHolds

(* Two requests delete one user, each the row it then tells of, only if    *)
(* the project's application has inserted the user again in between.       *)
DeletedOnce ==
  \A r, q \in Requests :
    /\ r # q /\ op[r] = "delete" /\ op[q] = "delete" /\ arg[r] = arg[q]
    /\ {r, q} \subseteq done
    => arg[r] \in added

(* An export leaves rows out only if the table has grown since they were   *)
(* counted: it fills max_rows then, and had been counted within it.        *)
GrownPastCount ==
  \A r \in Requests :
    /\ pc[r] = "rows" /\ pc'[r] = "audit"
    /\ rows'[r] # Present
    => Cardinality(Present) > count[r] /\ Cardinality(rows'[r]) >= count[r]

CutOffExplained == [][GrownPastCount]_vars

(* A 500 without a failure has one of two causes: the project was deleted  *)
(* meanwhile, or the configuration names a table or column there is not,   *)
(* or one of another type.                                                 *)
ErrorExplained ==
  \A r \in Requests :
    answer[r] = "error" =>
      \/ ~alive
      \/ /\ op[r] # "put"
         /\ \/ cfg[r].table # "users"
            \/ ColumnOf(r) # "none" /\ ~Fits(r)

(* What an operator may conclude from the audit log of users: whoever is   *)
(* told of a success finds its row, and no row tells of what never was.    *)
Log == INSTANCE AuditTrail WITH
  trail <- audit,
  answered <- {r \in Requests : /\ op[r] \in {"put", "export"} \union Changes
                               /\ answer[r] = "ok"}

ImplementsAuditTrail == Log!Spec
=============================================================================
